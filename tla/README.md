# Temnion: a TLA+ verification project

Temnion is a temporal event database in Rust: a durable, single-writer source
log per directory, immutable segments exported from it, and around it query,
streaming, branching, knowledge and control-plane crates. This directory models
the parts whose correctness depends on order, failure and concurrency, checks
them with TLC on small instances, and proves the central ones with TLAPS for
every instance.

## 1. The system

| Part | State it keeps | Operations | Interaction | What makes it correct |
| --- | --- | --- | --- | --- |
| Store (`temnion-storage/src/lib.rs`) | `events.wal`, `.writer.lock`; `frames`, `next_sequence`, `end_offset`, `last_known`, `poisoned` | `create`, `open`, `append`, drop | lock file between processes; commit subscribers called by `append` | a receipt is never revoked; a sequence is never given to two acknowledged events; memory describes the file; the file can always be recovered |
| Sealing and retirement (`lib.rs`, `manifest.rs`) | `segments/*.tsf`, `manifest.bin` | `seal`, `retire_wal`, `get`, `history` | reads frames of the Store, rewrites its WAL | every acknowledged event readable from WAL or segment; held sequences stay; segments agree with the log |
| Subscriptions (`temnion-protocol/src/lib.rs`) | `SubscriptionHub` (map, counter), one channel and one thread per subscription | subscribe, replay, live loop, unsubscribe, `dispatch_events` | two mutexes (store, hub); `append` calls `dispatch_events` | in order, once, complete; an append never waits for a subscriber |
| Retention and backup (`lifecycle.rs`) | holds, policy; copies of a directory | `create_backup`, `verify`, `restore`, policy evaluation | reads the directory of a Store | a backup is a state the Store was in |
| State slab (`temnion-state`) | slots, generations, free list | `insert`, `get`, `remove` | used by typed state | a stale identity never reaches a new value |
| Event log (`temnion-events`) | events in memory | `append`, `append_batch`, `history` with cursor | the in-memory twin of Store | a batch is admitted whole; paging returns each match once |
| Runtime (`temnion-runtime`) | shards, task DAG, tiers | route, fan-out merge, task states, promote/evict | calls a Store per shard | the order of a merge is determined up to ties; a task runs after its dependencies; tier capacity |
| Branches, replay, causal graph | branch manifests, checkpoints, CSR graph | fork, resolve, checkpoint, reconstruct, cones | read Stores | reconstruction from a checkpoint equals reconstruction from the start |
| Query, index, codec, format, schema | none, or immutable summaries | plan, scan, skip, encode, decode, apply | used by all | a skipped block holds no match; decode inverts encode |
| EKS, transform, evolution | registries in memory | assert, retract, saturate, promote | library APIs | retraction reaches every dependent; gates hold |
| Adapter, Flight, MCP, `temniond`, CLI, Studio, clients | queues, sockets, settings | mirror, stream, serve, start/stop | around Store and TnpServer | nothing is dropped without being counted; shutdown stops all threads |

What is hard here: processes that die between two file operations; a page cache
that survives a process but not the machine; I/O errors whose outcome is
unknown; in-place compaction; two mutexes and one thread per connection; bounded
channels; identifiers that must not come back. `PROJECT.json` lists each hazard
at its line with the properties that watch it.

## 2. Modules

| Module | Models |
| --- | --- |
| `DurableLog` | What `Store` promises its callers, abstractly: the log grows at its end, receipts are for events of the log, a failure takes only a suffix without receipts. |
| `Wal` | `Store::create`, `open` (both recovery modes), `append`, the lock, drop; process crash, failed write or sync, power loss. |
| `Lifecycle` | `Wal` extended by `seal`, `retire_wal`, `manifest.bin`, `get`. |
| `Subscription` | `SubscriptionHub`, the subscription branch of `TnpServer::handle_connection`, and the thread that appends. |
| `LifecycleProofs`, `SubscriptionProofs` | The inductive invariants of `Wal`, `Lifecycle` and `Subscription` and the theorems. |
| `EntityMap` | What a `StateSlab` promises, abstractly: a map whose identities are never issued twice. |
| `Slab` | `StateSlab`: `insert`, `get`, `get_mut`, `remove`. |
| `HistoryFilter` | `HistoryFilter`, `TimeRange`, `EventTimes::on`: which events a filter selects. |
| `EventLog` | The volatile `EventLog`: `append`, `append_batch`, paged `history`. |
| `Memory` | `Slab` and `EventLog` composed the way the command line's demo does. |
| `MemoryProofs` | The inductive invariants of `Slab` and of the log, and the theorems about each and both together. |
| `History` | `Store::history` over frames and segments with `BlockSummary` skipping, between appends, seals and retirements. |
| `HistoryProofs` | The inductive invariant of `History` and the theorems. |
| `Branch` | `BranchManager`: open, fork, lifecycle, append, resolution and reconstruction, by several managers with copies of their own. |
| `Replay` | `ReplayEngine` and `CheckpointStore`: reconstruction from a checkpoint or from the start, with three reducers. |
| `Causal` | `CausalGraph`: registration with its cycle check, traces, the sort as the loop it is, the CSR form. |
| `Schema` | `Schema`, mutations, and both binary forms cell by cell. |
| `Mirror` | `CadenceScheduler`, `TzeentchConverter`, `MirrorWriter`, `TzeentchActionTracer`. |
| `Backup` | `BackupManager` beside a Store that appends, seals and retires. |
| `Stores` | `Lifecycle` and `Memory` in one specification. |
| `Timeline` | `Wal` and the six modules above, from `Branch` on, in one specification. |
| `SchemaProofs` | The round trip of the binary forms of `Schema`, both ways, and its inductive invariant. |
| `TimelineProofs` | Theorems of `Timeline` about the six modules in it. |
| `Shards`, `Tasks`, `Tiers` | The three parts of `temnion-runtime`: coordinator, task graph with pressure, storage tiers. |
| `Expressions` | `Expr` and `Expr::evaluate`, shared by the next two. |
| `Query` | The parsers of TemQL, compact Tem and SQL, and the executor. |
| `Egraph` | The e-graph of `temnion-transform`: add, union, rebuild, saturate, extract. |
| `Beliefs` | `TruthMaintenanceSystem` and `PredictionLedger`. |
| `Evolution` | `EvolutionEngine`, `Constitution`, `MetaEvolutionManager`. |
| `Connector` | `ActiveConnection` and `LiveSubscription` against `TnpServer::handle_connection`, over two byte streams. |
| `Daemon` | `DaemonServer`: start, accept and maintenance threads, client threads, shutdown, drop. |
| `Services` | `History` and the nine modules from `Shards` on in one specification. |
| `ServiceProofs` | Theorems about `Beliefs`, `Evolution`, `Shards`, `Tiers` and `Connector`. |
| `EgraphProofs` | What a saturated e-graph equates has one value on every row. |
| `MC...` | The instances TLC checks. |

Operators named after a bug (`AppendUnsynced`, `BlockedByFirst`, ...) and
commented as *Mutant* are wrong variants of the definition that follows them.
They are not part of any specification: `PROJECT.json` pairs each with the
property that must fail when it takes the definition's place.

### Wal

`wal` is the sequence of records of `events.wal`, `ends` the positions where a
frame ends, `tail` whether bytes of an incomplete frame follow. `synced` and
`syncedTail` say which part of that survives a power loss; the rest is in the
page cache and survives a process. `store[p]` has the fields of process p's
`Store` plus the step it is in, because `create`, `open` and `append` are not
atomic with respect to failures:

    append:  AppendBegin -> AppendWritten -> AppendSync -> AppendPublish
             checks,        write_all        sync_all      fields, receipt
             first bytes
             (AppendFail from the two middle states: poisoned)

`ValidRecord` is `validate_record`; `ValidRun` applies it the way both `append`
and `open` do. `acked` collects the records receipts were returned for and is
the only variable with no counterpart in the program. A record keeps its
sequence, known time, causes within its own source and epoch, and a payload;
entity, schema and the other times do not influence the log and are left out.
Checksums are represented by the distinction between complete and incomplete
frames: a frame is complete once all of it was written.

Assumed of the operating system: an advisory lock is exclusive and freed when
its process dies; after a power loss a file is a prefix of what was written to
it that contains everything a successful `sync_all` covered; create's header
and directory entry are durable when it returns.

### Lifecycle

`segments` holds published segments (each the sequence of its records), `sealed`
and `retired` are the two parts of `manifest.bin`, `savedManifest` the version
of it that a synchronized directory entry points to (`save` renames without a
directory sync; publishing a segment synchronizes the directory). `job` is the
progress of a running `seal` or `retire_wal`. `retire_wal` has four steps:
overwrite in place, `set_len`, `sync_all` with the in-memory table, manifest.
`GetEvent` is `Store::get`: from the frame table if a frame starts at or before the
sequence, otherwise from the segment the manifest names.

Three specifications share the actions: `Spec` (processes die anywhere but
inside `retire_wal`, appends fail), `RetireFaultSpec` (also a crash or an I/O
error inside `retire_wal`), `PowerSpec` (also a power loss outside it). A power loss
inside `retire_wal`, and a death in the middle of its overwrite, are in none.
Records are equally long where `retire_wal` overwrites, so the overwritten file
is again a sequence of records. A published segment is durable.

### Subscription

The committer's states are the critical sections: from `Commit` to the end of
`dispatch_events` the store's mutex is held, in `"dispatching"` and at
`RemoveDead` also the hub's. A connection's thread is `ready`, `register`
(snapshot bounds read, not registered yet), `scan`, `replay`, `live`, `poll`.
An event is its class; a query is a pair of class sets, one for the
`HistoryFilter` (entity, time), one for the predicate. `missed` records what
`try_send` found no room for, `joined` how long the log was at registration;
neither exists in the code. A failed scan (`ScanFails`) and a failed send
(`SendFails`) are actions. The scan budget of 65,536 events and a query's LIMIT
are not modelled: the log is shorter and queries have none.

### Slab, EventLog, Memory

`slots`, `values`, `denseSlots` and `freeSlots` are the slab's four vectors;
`issued` collects the identities `insert` has returned. The two u32 limits are
constants: `IndexMax`, which is also the `VACANT` mark, and `GenerationMax`.
`LiveMap`, the identities that resolve with what `get` returns for them, is the
refinement mapping to `EntityMap`. In `EventLog` a sequence number is an index;
`query` is the position of the client's last query and `delivered` the sequence
numbers its pages returned; a continuation exists while `next < snapshot`.
`Memory` records a change and then applies it; for a stale identity the record
stays and the assignment fails, which the code allows.

### History

A call of `Store::history` is a sequence of steps (`BeginPage`, then `SkipFrame`,
`ReadBlock`, `TakeRecord`, and `FinishPage`, `BudgetTooSmall` or `ReadFails`). It
has the Store to itself (`&mut self`), so the owner's `Commit`, `Seal` and
`Retire` happen between two calls; they are whole here, their own failures are in
`Wal` and `Lifecycle`, and the Store is not reopened. `log` is everything ever
committed; a frame or segment is the range of sequences it holds, one byte per
event and a constant overhead. `Summary` is `BlockSummary` without the sequence
zone and the schema mask, which no `HistoryFilter` consults; an entity is its
rank in the order of `EntityId` and `Bits` the positions its four Bloom hashes
set, chosen so that a false positive occurs. `StartQuery` is
`cursor_from_sequence`; from 0 it is `history` without a cursor.

### Stores, Timeline and Services

Their parts are libraries and processes that share no memory, so a behaviour is
about one of them: `part` is chosen in `Init` and never changes, and the others
stay in their initial state. The composition costs the sum of the parts' state
spaces, not the product, and hides no interaction the code has; where parts do
interact (a scan and the log, the mirror and the store, the client and the
server) they are in one module.

`Branch`. `stores` counts the events of each branch directory, `manifest` is
`branches.manifest`, `held[m]` the copy manager m works on. No lock guards the
file: `create_fork` creates the directory of the next id of its own copy, then
`atomic_write` publishes the whole copy (`Publish`), and a process may die in
between. What keeps ids apart is that `Store::create` refuses a directory that
exists; `TimelinesAgree` is about that.

`Replay`. Pages of `ScanBudget` events stand for the 65,536 of the code, so that
a reconstruction really is cut off; the third reducer stands for callers that
draw from the engine's generator. `ReplayIsExact` compares every answer with
applying the log from the start up to the target, or, for the answers that are
cut off, up to a whole page past the beginning and past every checkpoint before
the target.

`Causal`. `Reregister` says whether callers may register an event twice. The
code allows it and then leaves effects behind that no cause matches; the run
uses `FALSE`, as every caller in the repository does. `topological_sort` is its
two loops: `SortTurn` pops an event, `SortRelease` takes one of its effects.
`is_ancestor_of` visits the least set that is closed under causes, and that is
how `IsAncestorOf` says it.

`Schema`. A payload is a sequence of cells, one per integer, tag or character
the code writes; a number is the pattern of bits it is written as. The lists of
fields and updates go through the same `WriteItems` and `ReadItems`, the two
loops the crate repeats for each form; `ReadOn` is one turn. `SchemaAssumption`
states the types of what callers pass (`IsField`, `IsMutation`): a `String` is
UTF-8, a `bool` is 0 or 1. A writer encodes, `Damage` changes or cuts a cell, `Receive`
decodes and applies. Whatever still decodes must re-encode to the same cells.

`Mirror`. `accepted` and `fate` record what the queue took and what its drains
did with each: the sequence it has in the store, or 0 when the batch was refused.
`drain_to_store` empties the queue before an append that may refuse
the batch. `Stamped` pairs each record with the known clock a caller passes; one
record carries another clock, so that a batch is refused.

`Backup`. Files are copied one by one while the store goes on, by a backup that
may stop anywhere and whose directory a later one overwrites; `Spoil` damages or
removes a copy. `quiet` marks a manifest during whose copying nothing was sealed
or retired: after a retirement between the copies of `manifest.bin` and
`events.wal` a restored store can lack events, which the model reaches and the
property excepts.

`Tasks`. `taken[w]` is a task from a list of ready tasks that may be out of date
when the worker acts on it. `Tiers`: `EnforceCapacity` is part of each
operation; the segment that goes is the one used longest ago (`Older`), and
`MaxSegment` bounds the ids. `Shards`: the unstable sort of what a hash map of
partitions lists is modelled by every order the key allows; the key has ties
where a source writes to two partitions, and `FanoutReordersTiesOnly` says that
nothing else is left open.

`Query`. A text is the clauses and tokens its characters form. `AsTemql`,
`AsCompact` and `AsSql` say how a client writes a request in each language;
`Carried` names the filters a language does not take as meant, `Understood` what
SQL makes of a single bound; `AnswersMeetTheRequest` compares the answers to the
others with the request itself. It allows one row for a limit of 0, and an answer
shorter than its limit where the limit cut off the events before the filter.
`Store::history` is used by its promise, which the `History` part of the run checks.

`Expressions`. The recursion of `evaluate` is a function by the nesting of its
argument: `ExprsTo[n]` are the expressions nested n deep at most, and `MaxDepth`,
any natural number, bounds the nesting. Of floats only the NaN is there, as a
value of a field; a literal is an integer, a truth value or a string.

`Egraph`. Which of the cheapest nodes `extract_best_expr` takes depends on the
order of a hash set, so `Extract` is a set of expressions, all of which must
agree with the input on every row where the input has a value and no field is a
NaN (`OptimizedAgrees`). `Listed` is the order in which a hash set is drained: it
is fixed but arbitrary, and the proof uses nothing else of it. `find` compresses
paths; the model keeps every parent compressed, which no answer shows.
`rebuild` puts a node back under the class it came from even when that class has
been merged away meanwhile, and so does `RebuildNode`; `NodesOf` gathers these
too, as extraction does.

`Connector`. A packet is a head and a tail that may arrive in different reads;
every read of the client may time out. `late` records that a call gave up: from
then on an answer may belong to an earlier call, since stream ids are not
compared.

`Beliefs`. `infer_belief` checks nothing of its premises; that they are ids given
out before, so that no belief rests on itself and the cascade ends, is what
callers do and a guard of the model. `PastGainsNothing` allows a past answer to
lose beliefs and predictions: by a later retraction or contradiction, and by an
outcome that is resolved again at a later time.

`Evolution`. A score is against the incumbent of its moment. `IncumbentsAreEarned`
is about thresholds and does not say that a promoted candidate is better than the
incumbent it replaces.

`Daemon`. `main` is the thread that owns the server, `backlog` what the
listening socket holds. A start whose bind fails leaves `running` set. The probe
of `shutdown` may fail although the listener is bound (`"unprobed"`); then nothing
but another connection ends the accept. Client threads are not joined; they go on
after `shutdown`.

## 3. Runs

| Run | Shows | Bounds |
| --- | --- | --- |
| `stores` | disk: `AckedReadable`, `ResumesSequence`, `RetireKeepsHeldAndUnsealed` under `Spec`; memory: `NoSlotLeaks`, `PresentIsLastRecorded`, `PagesAreOneScan`, `KnowledgeSettles`, and that the slab implements `EntityMap` | 2 processes, 3 sequences, batches of 1 or 2, holds on nothing, 0 or 1; capacity 2, generations 0 and 1, 2 interchangeable values, log of 3 events, one and two-event arrivals, filters on entity, valid range, known cutoff and a foreign clock |
| `subscription` | `InOrderOnce`, `CompleteWhenUndisturbed`, and `QueuedIsSent`, `AppendReturns`, `DeadSubscriptionsRemoved` under fairness | 2 connections, 2 subscriptions (queries with a predicate, from the start or from now, and with an entity, from the start), 2 events in 2 appends, channel of 1 |
| `timeline` | `AckedDurable`, `SingleWriter`, `MemoryMatchesFile`, `AlwaysRecoverable`, and that the log implements `DurableLog`; `TimelinesAgree`, `InheritedPastIsFixed`, `ReplayIsExact`, `CausesAndEffectsAgree`, `SortIsTopological`, `PayloadsAreCanonical`, `MirrorAccountsForAll`, `ActionsTrace`, `RestoredIsComplete` | 2 processes, 4 sequences, batches of 1 or 2 out of 4 events (two clocks, two ticks, one event with a cause); 2 interchangeable managers, 2 forks, 3 events; a log of 4 replayed in pages of 2; graphs of 4 events; 4 catalogs, 8 mutations, 1 damaged cell; 3 events through a queue of 2; 2 backups of 2 events |
| `services` | `SkipIsSound`, `PagesAreOneScan`, `FanoutReordersTiesOnly`, `AccessMakesRoom`, `AnswersMeetTheRequest`, `OptimizedAgrees`, `RetractionReachesAll`, `PastGainsNothing`, `IncumbentsAreEarned`, `AnswersAlign`, and `QueriesEnd`, `TasksComplete`, `ShutdownReturns` under fairness | 3 stored events in batches of 1 or 2 (mixed clocks, one observed time), 7 filters, 3 budgets, 1 failed read; 3 routers, 3 events; 2 workers, 2 tasks; 2 segments (`MaxSegment`), 3 accesses; 432 requests in 3 languages over up to 2 events; some 3,400 expressions nested 4 deep at most (`MaxDepth`) on 15 rows, 3 of them with a NaN; 3 pieces of knowledge; 2 candidates; 4 calls, 2 live events; 2 clients, 2 servers |
| `lifecycle_retire_crash` | refutes `ResumesSequence` under `RetireFaultSpec` | 1 process |
| `lifecycle_power_retired` | refutes `ResumesSequence` under `PowerSpec` | 1 process |
| `lifecycle_power_sealed` | refutes `NothingLost` under `PowerSpec` | 1 process |
| `lifecycle_known_time` | refutes `KnownTimeNondecreasing` under `Spec` | 1 process |
| `subscription_gap` | refutes `NoGaps` | 1 connection, a channel that never fills |
| `subscription_full` | refutes `LiveWithoutGaps` | 1 connection, channel of 1 |
| `services_surfaces` | refutes `SurfacesAgree` | as `services` |
| `services_optimizer` | refutes `OptimizedIsEquivalent` | 2 expressions |

Why the bounds are enough for what they show: two processes suffice to contend
for one lock and to leave work behind for each other; three sequences allow a
frame of two, a frame of one, and an append after a retirement; a channel of one
slot fills with the second event, and two subscriptions let a dispatch meet a
dead and a live one; dispatch offers the events of one batch one after the
other, as it does those of two appends, and the safety properties are proved for
every batch size. Two generations let a slot be reused and then retired, and two
slots let a removal move another entity's value. Three stored events make two or
three frames, so that a page can end before a frame that becomes a segment before
the next page (the safety properties are proved for any number); one of the budgets cannot hold a segment of two, which exercises
`BudgetTooSmall`. Two managers are the least for a stale copy, two forks for an
id to be taken twice; four events make a diamond in the causal graph; a queue of
two fills with three events and its batch can be refused in the middle; two
backups into one directory let the second be cut off over the first. Two workers
let a task be taken twice. A segment as large as a tier lets an access push out
everything else. Four calls allow a handshake, a subscription, its end and a
call on the connection it gave back. The values of `Memory` are used
symmetrically: no definition compares them. Deadlock is not checked: in
`timeline` and `services` a part ends with its bounds or with its one query; in
`stores` a crash inside `create` leaves an `events.wal` without header that
neither `create` nor `open` accepts (the system really stops); in the
subscription runs the bounds on events and subscriptions end the behaviour.

Fairness in `subscription` is weak fairness of the committing thread and of
each connection's thread: both are ordinary threads that never wait for a client
without a timeout (`temniond` sets a read timeout of 50 ms), and a mutex that is
free is obtained. Clients promise nothing: they may stay silent, leave, or make
sends fail.

Fairness in `services`: for `QueriesEnd` weak fairness of the scan of `History`, a loop in one thread, and
strong fairness of the client's next call with a budget that holds any block:
`QueriesEnd` is about a client that keeps asking and does not insist on a budget
the Store has refused. Owner and failures are not constrained, except that
failed reads are bounded.

`TasksComplete` assumes workers that ask again whenever
the pressure lets them (strong fairness, because a changing queue depth enables
and disables their steps) and a foreground queue that runs empty again and again;
it concludes nothing once a task has failed. `ShutdownReturns` assumes that the
threads of the daemon are scheduled (weak fairness), that the maintenance thread
gets a mutex that becomes free again and again (strong fairness), and that a
client's request under that mutex ends. Nothing is assumed of clients, of the
port or of `accept` failing. The one way in which it may not return,
`StuckInAccept`, is part of the property.

### What the refuted properties mean

* `lifecycle_retire_crash`. `retire_wal` synchronizes the compacted WAL before it
  saves `retired_up_to_sequence`. A process that dies in between, after retiring
  every frame, leaves nothing from which `open` could learn where to go on. The
  same order makes `open` refuse the file when some frames remain, and an I/O
  error in the same place is returned without poisoning the writer.
* `lifecycle_power_retired`. The manifest that `retire_wal` saved is not durable
  when it returns, the empty WAL is.
* `lifecycle_power_sealed`. `open` takes over frames that nobody synchronized.
  Sealed before a power loss, such a frame lives on as a segment while its
  sequence is assigned again; `retire_wal` then drops the new, acknowledged event
  because the manifest covers its sequence.
* `lifecycle_known_time`. After `seal`, `retire_wal` of all frames and a reopen
  the known time may go back or change its clock. No failure is involved.
* `subscription_gap`. Between `len()` and `register` an event can be committed
  that belongs neither to the snapshot nor to the live stream.
* `subscription_full`. `try_send` fails on a full channel, and nothing but a
  disconnected one is looked at. The documents promise backpressure; but an append
  that waited would hold the store's mutex that the subscriber's thread needs to
  go on, and `AppendReturns` would fail.
* `services_surfaces`. Two requests that TemQL takes for a filter are a projection
  in compact Tem (`sequence > schema`) and a bound in SQL (`valid_time < 2`).
* `services_optimizer`. The rule for `x = x` holds for every value but a NaN, and
  the rules for AND with FALSE and OR with TRUE drop an operand whose evaluation
  may fail. So the optimized filter can select a row the input rejects, and answer
  where the input is an error. `OptimizedAgrees` leaves these rows out.

The other findings in `PROJECT.json` are about properties that hold because they
say what the code does where a document says more: `ReplayIsExact` (an answer cut
off at its page is `Ok`), `FanoutReordersTiesOnly` (ties of the merge key),
`AnswersMeetTheRequest` (LIMIT 0), `ShutdownReturns` (a failed probe; client
threads that are not joined) and `IncumbentsAreEarned` (a score against an earlier
incumbent).

`CompleteWhenUndisturbed` states what the code does guarantee, and each of its
premises is there because of the code: without `joined = end` it fails as in
`subscription_gap`; without `missed = {}` because a full channel discards;
without `start = 0` because the replay's row budget is the length of the
snapshot while the scan begins at sequence 0; without `scan = Classes` because
live events are matched against the predicate only; without `~failed` because
an error of the replay's scan is ignored.

## 4. Proofs

`LifecycleProofs` proves of `Wal` alone (`WalSpec`), for every set of processes and events, every batch limit and
every sequence limit, from `ConstantsAssumption` (the lock's free value is no
process, `None` is no timestamp, the limits are naturals):

* `WalSingleWriter`, `WalAckedDurable`, `WalMemoryMatchesFile`,
  `WalAlwaysRecoverable`: invariants of run `timeline`; `WalTypeCorrect`;
* `WalImplementsDurableLog`: every step of the log is a step of `DurableLog`.

None of the invariants is inductive alone. `WalInv` adds: only the lock's owner
has an open Store (`OwnerInv`); frame ends are increasing positions, the last
one is the end of the records, what is synchronized is a frame end and the
records form a valid run (`FileInv`); per step of an operation, how the Store's
fields relate to the file, in particular that the batch being written continues
the file validly (`StoreInv`); and acknowledged events lie in the synchronized
part (`AckedInv`). `ValidRunConcat` and `ValidRunPrefix` carry validity across
an append and a power loss. For the refinement, an append maps to `Extend` when
the frame is complete, to `Acknowledge` when the receipt is returned, and a
power loss to `Lose`; all else stutters.

`MemoryProofs` proves of `Slab` alone, from `SlabAssumption` (the capacity is at most the largest
index) for every capacity, index width, generation limit and set of values:

* `SlabNoSlotLeaks`: the invariant `NoSlotLeaks` of run `stores`;
* `SlabIsEntityMap`: the slab implements `EntityMap`, its property
  `IsEntityMap` there.

`SlabInv` is the inductive invariant. `Linked` says that the dense arrays and
the slots point at each other, one to one; `Freed` that a slot on the free stack
is vacant and there once, and that a vacant slot off it has used up its
generations; `Ahead` that no issued identity has a generation its slot has not
reached, and none that a vacant reusable slot is about to issue. `Linked` makes
the swap in `remove` harmless, `Freed` keeps two entities from sharing a slot,
`Ahead` makes the identity `insert` returns new. That a dense index never
collides with the `VACANT` mark needs a pigeonhole argument (`RoomForOne`): a
slab about to insert holds fewer values than its capacity.

`WalTypeCorrect` states the type invariant of the log, which no run repeats.

Of `Lifecycle` it proves (from the same `ConstantsAssumption`) `AckedReadable`,
`ResumesSequence` and `RetireKeepsHeldAndUnsealed` of run `stores`, and
`NothingLost`, which says the same of the moments inside `retire_wal`. `Spec` is
the specification of that run: no process dies inside `retire_wal` and the power
stays on; the runs that drop these conditions refute the properties. `LifeInv`
describes two situations. At rest (`RestInv`) the file is a log from the first
sequence not retired, the Store's fields tell the same, the manifest names only
segments that are there, and what is sealed is closed downwards, since `seal`
goes through the frames in order. Inside `retire_wal` (`CuttingInv`) the part it
keeps is such a log although the file is none yet, and each record it cuts off is
in a segment and not held; the Store has the old frame table until the last
step.

`SubscriptionProofs` (from `SubscriptionAssumption`) proves `InOrderOnce` and
`CompleteWhenUndisturbed` for any number of connections, channel capacity, batch
size and queries. `SubInv` adds: subscription ids belong to one connection
(`OwnInv`); a snapshot is taken between two appends, so that dispatch never
offers what is inside it (`SnapshotInv`); a channel holds what was offered, in
order (`QueueInv`); what a connection sent comes before the rows it has left,
these before what is in its channel, and that before what is still to be offered
(`OrderInv`); and for an undisturbed connection these four together are all its
query selects (`CoverInv`). The rows of a snapshot scan are a set from which the
least is taken next, as in the model.

`HistoryProofs` (from `HistoryAssumption`: batches are not empty, ticks are
integers, budgets positive) proves `SkipIsSound` and `PagesAreOneScan`.
`FrameInv` says that frames tile the log and that each is summarized by a batch
that append accepted; that such a batch agrees on its clock is what makes its
time zone sound (`CommitInv`), and a Bloom filter holds the bits of each entity
whatever `Bits` is. `CursorInv` keeps the cursor and the page within the
snapshot.

Of `Memory` it proves (from `SlabAssumption`, `LogAssumption`, `MemoryAssumption`) `PresentIsLastRecorded`, the log's `PagesAreOneScan` and the action
property `KnowledgeSettles` of the composition, and that it runs a slab
(`MemoryRunsASlab`), so that the slab's theorems hold in it
(`MemoryKeepsIdentities`). `MemoryInv` conjoins `SlabInv`, the log's types and
cursor, that events of the own shard are of issued identities (`OwnedInv`: so a
new identity has no past, for which `SlabInv`'s `Ahead` is needed), and
`PresentInv`, the relation of a living value to the last of its events.

`SchemaProofs` (from `SchemaAssumption`: limits, versions and noise are naturals,
fields and mutations have the types of the crate) proves about the codec alone,
for every sequence of cells and every value:

* `DecodedMutationIsCanonical`, `DecodedSchemaIsCanonical`: whatever a decoder
  accepts is the encoding of what it returns, and has the computed size. So no
  two payloads decode to one value;
* `MutationRoundTrip`, `SchemaRoundTrip`: an encoding within the limit is
  accepted and gives back the value, its items by ascending id.

`Holds(cells, at, s)` says that `s` stands at position `at`; a joined sequence
stands where its parts stand one after the other (`HoldsJoined`). Each reader
then has three lemmas, from text over values, units and fields to items: what
its writer writes has the computed size, the reader returns the value where the
writing stands, and where it returns a value the writing of that value stands.
`ReadsAll` and `ReadsSound` carry the last two over the loops, by induction over
the items read so far (`NaturalSet`). That a repeated or descending id is refused
makes what was read `Rising`, and a rising list is its own `Ascending`
(`AscendingSame`); without it an upsert in another order would decode, and encode
otherwise. `SchemaInv` then says of the run: a payload nobody damaged is the
encoding of what was sent, a damaged one is still a sequence of cells, a
schema is sent once and before any mutation, and the state is empty or complete.

`TimelineProofs` (from `BranchAssumption`, `ReplayAssumption`, `CausalAssumption`
and `SchemaAssumption`) proves of `Timeline`'s `Spec`:

* `BranchTimelinesAgree`, `BranchPastIsFixed`. `BranchInv`: every copy of the
  manifest, on disk or with a manager, lists branches whose directories exist
  and whose parents are older (`CopyInv`), and copies that list a branch agree
  on its parent (`ParentsAgree`). The first makes `resolve_timeline` well defined
  (induction over the id), the second carries over a lost publication because
  `Store::create` refuses an id in use.
* `ReplayExact`. `ReplayInv`: a checkpoint at s is the fold of the first s + 1
  events. `RunResumes`: a fold taken up in the middle ends where the whole one
  does; so a chain of checkpoints is as good as the beginning. An answer short of
  its target ends where its page does, and the page begins after the latest
  checkpoint (`LatestFound`, `Reaches`).
* `CausalTracesMirror` and `CausalSortIsTopological`, under the hypothesis
  `~Reregister` (with it the code does not have the properties). `GraphInv`: the
  two indexes hold the same edges, each once, and every set of events has a
  member with no cause in the set, which is acyclicity without paths;
  `add_event` keeps it because what `is_ancestor_of` visited is closed under
  causes and lacks the event (`AddEventAcyclic`). `SortInv`: the in-degree of an
  event is the number of causes it is `Pending` for, those not in the order or
  the last of the order while its effect is still to be released; an event is
  queued or ordered exactly at degree zero; causes come first in the order. When
  the queue runs empty, a leftover set would have a member without a cause in
  it, hence of degree zero. `TracesMirror` turns a search around: what is found
  over n + 1 edges is found over n edges from a neighbour (`FirstEdges`).
* `SchemaPayloadsAreCanonical`, from `SchemaInv` and the four theorems of
  `SchemaProofs`.
* `MirrorLosesNothing` and `MirrorActionsTrace`. `MirrorInv`: what was accepted is
  what was drained and then what waits, and what was stored keeps its order
  (`QueueInv`); each stored record is valid after those before it (`StoreInv`),
  so that causes are earlier and not known later, however deep (`LineageWithin`).
* `BackupRestoresAll`. `BackupInv` has three parts: the live store has every
  event in the WAL or in a segment of its manifest (`LiveInv`); what a backup
  under way has copied so far is still enough (`CopyingInv`); and so is what a
  manifest written after an undisturbed copy names (`WrittenInv`).

`ServiceProofs` is about the components' own specifications, `BeliefsSpec`,
`EvolutionSpec`, `ShardsSpec`, `TiersSpec` and `ConnectorSpec`; a behaviour of
`Services` is one of them or leaves them alone.
(`Services` itself reaches the recursive operators of `Query`.)

* `BeliefsRetractionReachesAll` (from `BeliefsAssumption`). `Traces` says without
  counting steps that one belief is in the tree of another: every set closed
  under premises that has the second has the first. `BeliefsInv` states the
  property with `Traces`; ids are given out in order and premises are older
  (`IdsInv`), so that the cascade, cut off after as many steps as there are ids,
  is closed (`CascadeFacts`), and its complement is closed under premises.
* `BeliefsPastGainsNothing`, an action property: no status becomes Active again,
  and whatever is learned, emitted or resolved carries the current time.
* `EvolutionIncumbentsAreEarned`. `EvolutionInv`: what is in force and what is on
  the rollback stacks was promoted and had met a threshold when it was put there;
  the registry's own copy may change afterwards.
* `ShardsFanoutReordersTiesOnly` (from `ShardsAssumption`: finitely many
  partitions, numeric fields). `ShardsInv`: a partition numbers its events from
  0, and every answer lists what a fanout found in an order the merge key allows.
  Of two events with different keys one comes first in every answer (`KeyTies`);
  two with one key in one partition would be one event (`TiesApart`).
* `TiersAccessMakesRoom` (from `TiersAssumption`: the sizes and budgets are
  naturals). `TiersInv`: nothing was used later than now. The sum of the sizes
  in a tier falls by what is moved out (`SumExists` and the lemmas after it), the
  loop ends with the tier within its budget, and since the oldest goes first, the
  segment just used goes only when it is alone and too large.
* `ConnectorAnswersAlign`. `ConnectorInv`: both streams carry whole frames of some
  packets (`Carries`), and what these packets are depends on what the client is
  doing (`Aligned`): a request or its one answer while a call waits (`Asking`),
  the events not yet returned while subscribed (`Streaming`), and, after a call
  gave up, answers of earlier calls, because of which a subscribe can only be
  refused (`Behind`, `Refused`).

`EgraphProofs` proves of `EgraphSpec`, from `DepthAssumption` and
`EgraphAssumption` (the expressions are nested `MaxDepth` deep at most, and the
fields of a row are values):

* `EgraphOptimizedAgrees`: `OptimizedAgrees` of run `services`, for any
  expressions, rows and number of iterations.

On one row every class has a worth: the value of the expressions in it, or, for
the classes of scans, whether the row is among the result (`Worths`). `Sound`
says that the worths fit the graph: a class and its root are worth the same, and
every node, evaluated from the worths of its operands, is worth what its class
is; `Remembers` says the same of the hash-consing table. `EgraphInv` asks for
worths that are `Sound` for each exact row the input has a value on, with the
input's class worth what the input is worth, and the classes of TRUE and FALSE
worth that. Why it is inductive:

* `add` extends the worths by one class (`Extends`, `Keeps`), and so, part by
  part, does `add_expr`, whose last class is worth what the expression is
  (`AddExprSound`);
* a union of classes of equal worth changes no worth (`Merge`), and `rebuild`
  unites only classes that have a node in common;
* each rule relates classes of equal worth. Here the premise matters: the input
  has a value, hence each of its parts has one, so that both operands of an AND or
  OR are booleans, and x = x is TRUE since no worth is a NaN. This is what fails
  in `services_optimizer`;
* so one iteration keeps the worths (`IterateSound`).

`ExtractSound` goes through the levels of `Extract`: an expression built from
nodes of its classes is worth what they are. That costs are minimal is not used:
every expression in the class has the value.

Induction over data is done in the form of sets: the naturals at which a claim
fails have a least element (`LeastNatural`, from `WFMin`), which gives
`NaturalSet`. That a recursive function exists is proved the same way
(`RunExists`, `ReachExists`, `WritingExists`).

Only model-checked:

* liveness (`TasksComplete`, `ShutdownReturns`, the subscription's), which is out
  of the prover's reach;
* `AnswersMeetTheRequest`: `Query`'s parser and its display are recursive
  operators, which the prover cannot use;
* `Tasks` and `Daemon`, whose properties are liveness.

## 5. Plan

Order of work; each item names the abstract statement to check and, where it is
worth it, to prove.

1. `Wal`, `DurableLog`, `Lifecycle`, `Subscription` (done).
2. `EntityMap`, `Slab`, `EventLog`, `Memory` (done).
3. `History` (done).
4. `Branch`, `Replay`, `Causal`, `Schema`, `Mirror`, `Backup` in `Timeline`
   (done).
5. `Shards`, `Tasks`, `Tiers`, `Query`, `Egraph`, `Beliefs`, `Evolution`,
   `Connector`, `Daemon` in `Services` (done).
6. Proofs: `Lifecycle`, `Subscription`, `History`, `Memory`, `Branch`, `Replay`,
   `Causal`, `Schema`, `Mirror`, `Backup`, `Beliefs`, `Evolution`, `Shards`,
   `Tiers`, `Connector`, `Egraph` (done). Next: a form of `Query` without
   recursive operators.
7. Still open: the metered pipeline of `temnion-transform`, the consolidation of
   `temnion-eks`, the connector's configuration, `temnion-mcp`.

## 6. Not modelled

* Byte layouts, checksums and codecs (`temnion-codec`, `temnion-format`, the
  encodings of manifests, checkpoints and graphs): a frame, packet or file is
  complete and valid, or not. The exception is `Schema`, whose canonical form is
  the point.
* The splitting of query texts into tokens; a text is given as its tokens.
* `temnion-flight` and `temnion-mcp`: they translate requests of another
  protocol into queries and appends and keep no state between them.
* In `temnion-transform` everything but the e-graph, in `temnion-eks` the tiered
  store, the skills' execution and the consolidation, in `temnion-evolution` the evaluators
  that produce metrics and the embedding catalogue: numeric code over data whose
  values the models would have to invent.
* `evaluate_reclaimable`, a report over holds that changes nothing.
* Configuration files, profiles and command lines; Studio, the benchmarks, the
  installers; the Python and TypeScript clients beyond what a peer of
  `Connector` and `Subscription` does.

`PROJECT.json` lists every component with its status.
