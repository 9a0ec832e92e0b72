--------------------------------- MODULE Wal ---------------------------------
(***************************************************************************)
(* The write-ahead log of crates/temnion-storage: Store::create, open and  *)
(* append, the writer lock, process crashes, failed I/O and power loss.    *)
(*                                                                         *)
(* events.wal is a header followed by one frame per appended batch.  A     *)
(* file is modelled by its records in order (wal), the positions where a   *)
(* complete frame ends (ends) and whether bytes of an incomplete frame     *)
(* follow (tail).  The operating system's view and what a power loss       *)
(* leaves behind differ: synced records and the bytes of syncedTail are on *)
(* stable storage, everything else only in the page cache.                 *)
(*                                                                         *)
(* Assumed of the file system: data reaches the disk in file order (a      *)
(* power loss leaves a prefix), and a sync_all that succeeds makes the     *)
(* whole file durable.                                                     *)
(***************************************************************************)
EXTENDS Integers, Sequences, FiniteSets

CONSTANTS
    Procs,          \* processes that may use the database directory
    NoProc,         \* the writer lock is free
    Clocks,         \* clock domains of the known time
    Payloads,       \* what distinguishes the contents of two events
    NoTime,         \* Option::None of a Timestamp
    Events,         \* the WriteEvents callers may append
    MaxRecords,     \* limits.max_records: events per batch
    SequenceLimit   \* u64::MAX: sequences stay below it

Timestamp == [clock : Clocks, ticks : Nat]
WriteEvent == [known : Timestamp, causes : SUBSET Nat, payload : Payloads]
StoredEvent ==
    [seq : Nat, known : Timestamp, causes : SUBSET Nat, payload : Payloads]

ASSUME ConstantsAssumption ==
    /\ NoProc \notin Procs
    /\ NoTime \notin Timestamp
    /\ Events \subseteq WriteEvent
    /\ MaxRecords \in Nat
    /\ SequenceLimit \in Nat

VARIABLES
    file,           \* events.wal: "absent", "partial" (no header) or "ready"
    wal, ends, tail,        \* its content, as the operating system shows it
    synced, syncedTail,     \* the part of it a power loss cannot take away
    retired,        \* manifest.bin: retired_up_to_sequence + 1, or 0
    lock,           \* who holds .writer.lock
    store,          \* the Store of each process, and what it is doing
    acked           \* every record a DurableReceipt was returned for

diskVars == <<file, wal, ends, tail, synced, syncedTail>>
walVars == <<diskVars, retired, lock, store, acked>>

(* The fields of a Store that the log depends on; batch holds the records  *)
(* an append is writing.                                                   *)
Steps == {"closed", "creating", "truncating", "idle",
          "writing", "written", "synced", "poisoned"}

Store ==
    [step : Steps, nextSequence : Nat, frames : SUBSET Nat,
     lastKnown : Timestamp \union {NoTime}, batch : Seq(StoredEvent)]

OpenStore(step, next, frames, known) ==
    [step |-> step, nextSequence |-> next, frames |-> frames,
     lastKnown |-> known, batch |-> <<>>]

Closed == OpenStore("closed", 0, {}, NoTime)

-----------------------------------------------------------------------------
(* Store::validate_record, for the record at one position.                 *)
ValidRecord(sequence, previous, record) ==
    /\ record.seq = sequence
    /\ previous # NoTime =>
          /\ previous.clock = record.known.clock
          /\ previous.ticks <= record.known.ticks
    /\ \A cause \in record.causes : cause < sequence

(* The known time that precedes position i of a run of records.            *)
KnownBefore(records, i, previous) ==
    IF i = 1 THEN previous ELSE records[i - 1].known

ValidRun(first, previous, records) ==
    \A i \in DOMAIN records :
        ValidRecord(first + i - 1, KnownBefore(records, i, previous), records[i])

(* The records append builds: consecutive sequences from next_sequence.    *)
Stored(next, events) ==
    [i \in DOMAIN events |->
        [seq |-> next + i - 1, known |-> events[i].known,
         causes |-> events[i].causes, payload |-> events[i].payload]]

(* Mutant: last_known is not advanced by an append.                        *)
LastKnownStale(records, previous) == previous

LastKnown(records, previous) ==
    IF records = <<>> THEN previous ELSE records[Len(records)].known

Batches == UNION {[1..n -> Events] : n \in 1..MaxRecords}

-----------------------------------------------------------------------------
(* Mutant: the lock is taken over without asking who holds it.             *)
AcquireUnchecked(p, opened) ==
    /\ store[p] = Closed
    /\ lock' = p
    /\ store' = [store EXCEPT ![p] = opened]

(* A Store exists in process p exactly while p holds the lock.             *)
Acquire(p, opened) ==
    /\ lock = NoProc
    /\ store[p] = Closed
    /\ lock' = p
    /\ store' = [store EXCEPT ![p] = opened]

Drop(p) ==
    /\ lock' = NoProc
    /\ store' = [store EXCEPT ![p] = Closed]

(* Store::create up to the file's creation; it fails with AlreadyExists if *)
(* there is an events.wal, whatever its content.                           *)
CreateFile(p) ==
    /\ file = "absent"
    /\ Acquire(p, OpenStore("creating", 0, {}, NoTime))
    /\ file' = "partial"
    /\ UNCHANGED <<wal, ends, tail, synced, syncedTail, retired, acked>>

(* The rest of Store::create: the header is written and synchronized.      *)
CreateHeader(p) ==
    /\ store[p].step = "creating"
    /\ file' = "ready"
    /\ store' = [store EXCEPT ![p].step = "idle"]
    /\ UNCHANGED <<wal, ends, tail, synced, syncedTail, retired, lock, acked>>

(* The Store that open builds from the complete frames of the file.        *)
Recovered(step) ==
    OpenStore(step, retired + Len(wal), ends, LastKnown(wal, NoTime))

(* Store::open of a file without incomplete bytes, in either mode.  The    *)
(* recovered frames are not synchronized.                                  *)
OpenClean(p) ==
    /\ file = "ready"
    /\ tail = "none"
    /\ ValidRun(retired, NoTime, wal)
    /\ Acquire(p, Recovered("idle"))
    /\ UNCHANGED <<diskVars, retired, acked>>

(* Store::open with TruncateIncompleteTail up to set_len;                  *)
(* RejectIncompleteTail returns an error and changes nothing.              *)
OpenTruncate(p) ==
    /\ file = "ready"
    /\ tail = "torn"
    /\ ValidRun(retired, NoTime, wal)
    /\ Acquire(p, Recovered("truncating"))
    /\ tail' = "none"
    /\ UNCHANGED <<file, wal, ends, synced, syncedTail, retired, acked>>

(* Mutant: flush, which leaves the data in the page cache.                 *)
FlushOnly == UNCHANGED <<synced, syncedTail>>

(* File::sync_all on events.wal.                                           *)
SyncAll ==
    /\ synced' = Len(wal)
    /\ syncedTail' = tail

OpenTruncateSync(p) ==
    /\ store[p].step = "truncating"
    /\ SyncAll
    /\ store' = [store EXCEPT ![p].step = "idle"]
    /\ UNCHANGED <<file, wal, ends, tail, retired, lock, acked>>

-----------------------------------------------------------------------------
(* append's check that nobody else wrote: the file ends at end_offset.     *)
EndsAtOffset(s) ==
    /\ tail = "none"
    /\ s.frames \subseteq 0..Len(wal)
    /\ Len(wal) \in s.frames \union {0}

(* Store::append, up to the first bytes of the frame.  A batch that fails  *)
(* a check is refused without effect.                                      *)
AppendBegin(p, events) ==
    LET s == store[p]
        records == Stored(s.nextSequence, events)
    IN  /\ s.step = "idle"
        /\ s.nextSequence + Len(events) <= SequenceLimit
        /\ ValidRun(s.nextSequence, s.lastKnown, records)
        /\ EndsAtOffset(s)
        /\ tail' = "torn"
        /\ store' = [store EXCEPT ![p].step = "writing", ![p].batch = records]
        /\ UNCHANGED <<file, wal, ends, synced, syncedTail, retired, lock, acked>>

(* write_all has returned: the whole frame is in the page cache.           *)
AppendWritten(p) ==
    /\ store[p].step = "writing"
    /\ wal' = wal \o store[p].batch
    /\ ends' = ends \union {Len(wal')}
    /\ tail' = "none"
    /\ store' = [store EXCEPT ![p].step = "written"]
    /\ UNCHANGED <<file, synced, syncedTail, retired, lock, acked>>

(* Mutant: the receipt does not wait for sync_all.                         *)
AppendUnsynced(p) ==
    /\ store[p].step = "written"
    /\ store' = [store EXCEPT ![p].step = "synced"]
    /\ UNCHANGED <<diskVars, retired, lock, acked>>

(* sync_all has returned; the Store's fields are not updated yet.          *)
AppendSync(p) ==
    /\ store[p].step = "written"
    /\ SyncAll
    /\ store' = [store EXCEPT ![p].step = "synced"]
    /\ UNCHANGED <<file, wal, ends, tail, retired, lock, acked>>

(* The end of append: the fields, the commit subscribers, the receipt.     *)
AppendPublish(p) ==
    LET s == store[p]
    IN  /\ s.step = "synced"
        /\ store' = [store EXCEPT ![p] =
               OpenStore("idle", s.nextSequence + Len(s.batch),
                         s.frames \union {Len(wal)},
                         LastKnown(s.batch, s.lastKnown))]
        /\ acked' = acked \union {s.batch[i] : i \in DOMAIN s.batch}
        /\ UNCHANGED <<diskVars, retired, lock>>

(* Mutant: the error is returned and the writer stays usable.              *)
AppendFailUnpoisoned(p) ==
    /\ store[p].step \in {"writing", "written"}
    /\ store' = [store EXCEPT ![p].step = "idle", ![p].batch = <<>>]
    /\ UNCHANGED <<diskVars, retired, lock, acked>>

(* write_all or sync_all failed: CommitOutcomeUnknown, and every later     *)
(* operation of this Store answers Poisoned.                               *)
AppendFail(p) ==
    /\ store[p].step \in {"writing", "written"}
    /\ store' = [store EXCEPT ![p].step = "poisoned", ![p].batch = <<>>]
    /\ UNCHANGED <<diskVars, retired, lock, acked>>

-----------------------------------------------------------------------------
(* The caller drops the Store.                                             *)
Close(p) ==
    /\ store[p].step \in {"idle", "poisoned"}
    /\ Drop(p)
    /\ UNCHANGED <<diskVars, retired, acked>>

(* The process dies, or create or open returns an I/O error: the lock is   *)
(* freed, the page cache survives.                                         *)
Crash(p) ==
    /\ store[p].step # "closed"
    /\ Drop(p)
    /\ file' \in IF store[p].step = "creating" THEN {"partial", "ready"} ELSE {file}
    /\ UNCHANGED <<wal, ends, tail, synced, syncedTail, retired, acked>>

(* The machine stops: a prefix of the file that contains all that was      *)
(* synchronized survives, possibly followed by part of a frame.            *)
PowerLossFile ==
    /\ lock' = NoProc
    /\ store' = [p \in Procs |-> Closed]
    /\ file' \in IF \E p \in Procs : store[p].step = "creating"
                 THEN {"absent", "partial", "ready"} ELSE {file}
    /\ \E kept \in ends \union {0} :
          /\ synced <= kept
          /\ wal' = SubSeq(wal, 1, kept)
          /\ ends' = ends \intersect 1..kept
          /\ synced' = kept
          /\ tail' \in IF kept < Len(wal) \/ "torn" \in {tail, syncedTail}
                       THEN {"none", "torn"} ELSE {"none"}
    /\ syncedTail' = tail'

PowerLoss == PowerLossFile /\ UNCHANGED <<retired, acked>>

-----------------------------------------------------------------------------
WalInit ==
    /\ file = "absent"
    /\ wal = <<>> /\ ends = {} /\ tail = "none"
    /\ synced = 0 /\ syncedTail = "none"
    /\ retired = 0
    /\ lock = NoProc
    /\ store = [p \in Procs |-> Closed]
    /\ acked = {}

Writer(p) ==
    \/ CreateFile(p) \/ CreateHeader(p)
    \/ OpenClean(p) \/ OpenTruncate(p) \/ OpenTruncateSync(p)
    \/ \E events \in Batches : AppendBegin(p, events)
    \/ AppendWritten(p) \/ AppendSync(p) \/ AppendPublish(p) \/ AppendFail(p)
    \/ Close(p) \/ Crash(p)

WalNext == (\E p \in Procs : Writer(p)) \/ PowerLoss

WalSpec == WalInit /\ [][WalNext]_walVars

-----------------------------------------------------------------------------
(* Every variable has the shape of the Rust field or file it stands for.   *)
WalTypeOK ==
    /\ file \in {"absent", "partial", "ready"}
    /\ wal \in Seq(StoredEvent)
    /\ ends \in SUBSET Nat
    /\ tail \in {"none", "torn"}
    /\ synced \in Nat
    /\ syncedTail \in {"none", "torn"}
    /\ retired \in Nat
    /\ lock \in Procs \union {NoProc}
    /\ store \in [Procs -> Store]
    /\ acked \in SUBSET StoredEvent

(* An event whose receipt was returned is on stable storage at its own     *)
(* sequence, in every state: through crashes, ambiguous appends, truncated *)
(* tails and power losses (append returns only after sync_all).            *)
AckedDurable ==
    \A e \in acked :
        LET i == e.seq - retired + 1
        IN  i \in 1..synced /\ i <= Len(wal) /\ wal[i] = e

(* Two Stores are never open on one directory (lock_directory).            *)
SingleWriter ==
    \A p, q \in Procs :
        store[p].step # "closed" /\ store[q].step # "closed" => p = q

(* An idle Store's fields describe the file: append's check that the WAL   *)
(* did not change outside the locked writer never fails, and the next      *)
(* sequence, the frame table and the last known time are those a recovery  *)
(* of the file would compute.                                              *)
MemoryMatchesFile ==
    \A p \in Procs :
        store[p].step = "idle" => tail = "none" /\ store[p] = Recovered("idle")

(* Whatever happened, open with TruncateIncompleteTail accepts the file:   *)
(* complete frames are contiguous from the retired prefix, on one known    *)
(* clock that never goes back, and causes precede effects.                 *)
AlwaysRecoverable ==
    /\ ValidRun(retired, NoTime, wal)
    /\ \A i \in 1..Len(wal) : \E e \in ends : i <= e /\ e <= Len(wal)

(* The log implements DurableLog: the records of events.wal are the log.   *)
Promise == INSTANCE DurableLog WITH log <- wal, acked <- acked

ImplementsDurableLog == Promise!Spec

=============================================================================
