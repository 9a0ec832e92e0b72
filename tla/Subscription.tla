----------------------------- MODULE Subscription -----------------------------
(***************************************************************************)
(* Live subscriptions of crates/temnion-protocol: SubscriptionHub and the  *)
(* SubscribeRequest branch of TnpServer::handle_connection, one thread per *)
(* connection, next to a thread that appends.                              *)
(*                                                                         *)
(* Two mutexes order the threads.  The committer holds the store's from    *)
(* Commit until dispatch_events returns, because append calls the commit   *)
(* subscriber; dispatch_events holds the hub's from DispatchBegin until    *)
(* DispatchEnd, and takes it once more to remove the subscribers it found  *)
(* disconnected.  Every other critical section is one action.              *)
(*                                                                         *)
(* An event is its class, what queries tell apart.  A query selects by the *)
(* HistoryFilter of its plan (scan: entity, time) and by its predicate     *)
(* (pred); it has no LIMIT.  The log stays within the 65,536 events a scan *)
(* may read.                                                               *)
(***************************************************************************)
EXTENDS Integers, Sequences, SequencesExt

CONSTANTS
    Conns,      \* connection slots, each served by a thread
    Classes,    \* classes of events
    Requests,   \* the SubscribeRequests clients make
    Capacity,   \* slots of a subscriber's channel (1024 in the code)
    MaxBatch,   \* bound on the events of one append
    MaxEvents,  \* bound on the length of the log
    MaxSubs     \* bound on the subscriptions ever registered

Query == [scan : SUBSET Classes, pred : SUBSET Classes]

(* from is from_sequence.unwrap_or(0).                                     *)
SubscribeRequest == [query : Query, from : Nat, fromNow : BOOLEAN]

ASSUME SubscriptionAssumption ==
    /\ Requests \subseteq SubscribeRequest
    /\ Capacity \in Nat \ {0}
    /\ MaxBatch \in Nat /\ MaxEvents \in Nat /\ MaxSubs \in Nat

VARIABLES
    log,        \* the durable events, in sequence order
    committer,  \* "idle", "committed", "dispatching" or "removing"
    offered,    \* subscription -> the next sequence dispatch offers it
    dead,       \* dispatch_events: disconnected
    nextId, registered,     \* SubscriptionHub: next_id, keys of subscribers
    filter, queue,          \* their filter and their channel
    conn,       \* what each connection's thread is doing
    sent,       \* what each client received on its subscription
    missed      \* open subscription -> what try_send found its channel full for

vars == <<log, committer, offered, dead, nextId, registered, filter, queue, conn,
          sent, missed>>
hubVars == <<nextId, registered, filter, queue>>
commitVars == <<log, committer, offered, dead>>

Ids == 1..MaxSubs
Sequences == 0..(MaxEvents - 1)
Ready == [step |-> "ready"]

(* The thread of c still holds the Receiver of subscription id.            *)
Listening(c, id) ==
    /\ conn[c].step \in {"scan", "replay", "live", "poll"}
    /\ conn[c].id = id
HasReceiver(id) == \E c \in Conns : Listening(c, id)

ClassOf(s) == log[s + 1]

-----------------------------------------------------------------------------
(* Store::append of a batch: it is durable and counted by len().           *)
Commit(batch) ==
    /\ committer = "idle"
    /\ Len(log) + Len(batch) <= MaxEvents
    /\ log' = log \o batch
    /\ committer' = "committed"
    /\ offered' = [id \in Ids |-> Len(log)]
    /\ UNCHANGED <<dead, hubVars, conn, sent, missed>>

(* The commit subscriber locks the hub.                                    *)
DispatchBegin ==
    /\ committer = "committed"
    /\ committer' = "dispatching"
    /\ UNCHANGED <<log, offered, dead, hubVars, conn, sent, missed>>

(* Mutants: the error is not told apart; one record too many fits.         *)
NeverDisconnected(id) == FALSE
(* try_send finds the receiver gone, or the channel with or without room.  *)
Disconnected(id) == ~HasReceiver(id)
HasRoom(id) == Len(queue[id]) < Capacity

(* dispatch_events, for one subscriber and one event: a full channel makes *)
(* try_send fail without effect; a disconnected one is noted, and gets no  *)
(* further event.                                                          *)
DispatchEvent(id) ==
    /\ committer = "dispatching"
    /\ id \in registered
    /\ offered[id] < Len(log)
    /\ LET s == offered[id]
           matches == ClassOf(s) \in filter[id]
           gone == matches /\ Disconnected(id)
       IN  /\ offered' = [offered EXCEPT ![id] = IF gone THEN Len(log) ELSE s + 1]
           /\ dead' = IF gone THEN dead \union {id} ELSE dead
           /\ queue' = IF matches /\ ~gone /\ HasRoom(id)
                       THEN [queue EXCEPT ![id] = Append(@, s)] ELSE queue
           /\ missed' = IF matches /\ ~gone /\ ~HasRoom(id)
                        THEN [missed EXCEPT ![id] = @ \union {s}] ELSE missed
    /\ UNCHANGED <<log, committer, nextId, registered, filter, conn, sent>>

(* Mutant: dispatch returns after the first subscriber.                    *)
DispatchEndEarly ==
    /\ committer = "dispatching"
    /\ \E id \in registered : offered[id] = Len(log)
    /\ committer' = IF dead = {} THEN "idle" ELSE "removing"
    /\ UNCHANGED <<log, offered, dead, hubVars, conn, sent, missed>>

(* Mutant: the disconnected are removed before the hub is unlocked, which  *)
(* waits for itself.                                                       *)
DispatchEnd_Relocks ==
    /\ committer = "dispatching"
    /\ \A id \in registered : offered[id] = Len(log)
    /\ dead = {}
    /\ committer' = "idle"
    /\ UNCHANGED <<log, offered, dead, hubVars, conn, sent, missed>>

(* Every subscriber was served: the hub is unlocked, and the store too     *)
(* unless there is someone to remove.                                      *)
DispatchEnd ==
    /\ committer = "dispatching"
    /\ \A id \in registered : offered[id] = Len(log)
    /\ committer' = IF dead = {} THEN "idle" ELSE "removing"
    /\ UNCHANGED <<log, offered, dead, hubVars, conn, sent, missed>>

RemoveDead ==
    /\ committer = "removing"
    /\ registered' = registered \ dead
    /\ dead' = {}
    /\ committer' = "idle"
    /\ UNCHANGED <<log, offered, nextId, filter, queue, conn, sent, missed>>

-----------------------------------------------------------------------------
(* A SubscribeRequest: the snapshot bounds come from len(), read under the *)
(* store's mutex, which is released again.                                 *)
Subscribe(c, request) ==
    /\ conn[c].step = "ready"
    /\ committer = "idle"
    /\ nextId <= MaxSubs
    /\ LET end == Len(log)
           start == IF request.fromNow \/ request.from > end THEN end ELSE request.from
       IN  conn' = [conn EXCEPT ![c] =
               [step |-> "register", query |-> request.query, start |-> start, end |-> end]]
    /\ UNCHANGED <<commitVars, hubVars, sent, missed>>

(* SubscriptionHub::register, under the hub's mutex only.  joined notes    *)
(* the length of the log at that moment.                                   *)
Register(c) ==
    /\ conn[c].step = "register"
    /\ committer # "dispatching"
    /\ nextId <= MaxSubs
    /\ nextId' = nextId + 1
    /\ registered' = registered \union {nextId}
    /\ filter' = [filter EXCEPT ![nextId] = conn[c].query.pred]
    /\ queue' = [queue EXCEPT ![nextId] = <<>>]
    /\ conn' = [conn EXCEPT ![c] =
           [step |-> IF @.start < @.end THEN "scan" ELSE "live",
            query |-> @.query, start |-> @.start, end |-> @.end,
            id |-> nextId, joined |-> Len(log), rows |-> {}, failed |-> FALSE]]
    /\ UNCHANGED <<commitVars, sent, missed>>

(* execute_storage_scan: history from sequence 0 on, at most limit events  *)
(* that pass the HistoryFilter, then the predicate.  history returns them  *)
(* in sequence order, so that a set says which rows are still to be sent.  *)
ScanRows(query, limit) ==
    LET selected == {s \in 0..(Len(log) - 1) : ClassOf(s) \in query.scan}
        page == {s \in selected : Cardinality({t \in selected : t < s}) < limit}
    IN  {s \in page : ClassOf(s) \in query.pred}

(* Mutant: rows committed after the snapshot are replayed as well.         *)
FromSnapshotOn(k, s) == k.start <= s

InSnapshot(k, s) == k.start <= s /\ s < k.end

(* Phase 1: scan under the store's mutex; rows outside the snapshot are    *)
(* not sent.                                                               *)
Scan(c) ==
    /\ conn[c].step = "scan"
    /\ committer = "idle"
    /\ LET k == conn[c]
           rows == {s \in ScanRows(k.query, k.end - k.start) : InSnapshot(k, s)}
       IN  conn' = [conn EXCEPT ![c].step = "replay", ![c].rows = rows]
    /\ UNCHANGED <<commitVars, hubVars, sent, missed>>

(* The scan returned an error, which is ignored: nothing is replayed.      *)
ScanFails(c) ==
    /\ conn[c].step = "scan"
    /\ committer = "idle"
    /\ conn' = [conn EXCEPT ![c].step = "replay", ![c].failed = TRUE]
    /\ UNCHANGED <<commitVars, hubVars, sent, missed>>

SendRow(c) ==
    /\ conn[c].step = "replay"
    /\ \E s \in conn[c].rows :
          /\ \A t \in conn[c].rows : s <= t
          /\ sent' = [sent EXCEPT ![c] = Append(@, s)]
          /\ conn' = [conn EXCEPT ![c].rows = @ \ {s}]
    /\ UNCHANGED <<commitVars, hubVars, missed>>

ReplayDone(c) ==
    /\ conn[c].step = "replay"
    /\ conn[c].rows = {}
    /\ conn' = [conn EXCEPT ![c].step = "live"]
    /\ UNCHANGED <<commitVars, hubVars, sent, missed>>

-----------------------------------------------------------------------------
(* Phase 2: try_recv and send until the channel is empty ...               *)
Drain(c) ==
    /\ conn[c].step = "live"
    /\ queue[conn[c].id] # <<>>
    /\ sent' = [sent EXCEPT ![c] = Append(@, Head(queue[conn[c].id]))]
    /\ queue' = [queue EXCEPT ![conn[c].id] = Tail(@)]
    /\ UNCHANGED <<commitVars, nextId, registered, filter, conn, missed>>

(* ... then poll the client: nothing, or a Ping, arrives ...               *)
Poll(c) ==
    /\ conn[c].step = "live"
    /\ queue[conn[c].id] = <<>>
    /\ conn' = [conn EXCEPT ![c].step = "poll"]
    /\ UNCHANGED <<commitVars, hubVars, sent, missed>>

(* Mutant: the socket has no read timeout.                                 *)
PollForever(c) ==
    /\ conn[c].step = "poll"
    /\ UNCHANGED vars

PollTimeout(c) ==
    /\ conn[c].step = "poll"
    /\ conn' = [conn EXCEPT ![c].step = "live"]
    /\ UNCHANGED <<commitVars, hubVars, sent, missed>>

(* handle_connection leaves the subscription: the Receiver and all that is *)
(* in the channel are dropped.                                             *)
Leave(c) ==
    /\ conn' = [conn EXCEPT ![c] = Ready]
    /\ sent' = [sent EXCEPT ![c] = <<>>]
    /\ queue' = [queue EXCEPT ![conn[c].id] = <<>>]
    /\ missed' = [missed EXCEPT ![conn[c].id] = {}]

(* ... or it unsubscribes, naming any identifier, or it closes the         *)
(* connection (then the identifier is its own).                            *)
Unsubscribe(c, id) ==
    /\ conn[c].step = "poll"
    /\ committer # "dispatching"
    /\ registered' = registered \ {id}
    /\ Leave(c)
    /\ UNCHANGED <<commitVars, nextId, filter>>

(* An UnsubscribeRequest outside a subscription.                           *)
UnsubscribeIdle(c, id) ==
    /\ conn[c].step = "ready"
    /\ committer # "dispatching"
    /\ registered' = registered \ {id}
    /\ UNCHANGED <<commitVars, nextId, filter, queue, conn, sent, missed>>

(* A send fails (the SubscribeResponse, an event, a Pong): without         *)
(* unregister handle_connection returns.                                   *)
SendFails(c) ==
    /\ \/ conn[c].step \in {"scan", "poll"}
       \/ conn[c].step = "replay" /\ conn[c].rows # {}
       \/ conn[c].step = "live" /\ queue[conn[c].id] # <<>>
    /\ Leave(c)
    /\ UNCHANGED <<commitVars, nextId, registered, filter>>

-----------------------------------------------------------------------------
Init ==
    /\ log = <<>>
    /\ committer = "idle"
    /\ offered = [id \in Ids |-> 0]
    /\ dead = {}
    /\ nextId = 1 /\ registered = {}
    /\ filter = [id \in Ids |-> {}]
    /\ queue = [id \in Ids |-> <<>>]
    /\ conn = [c \in Conns |-> Ready]
    /\ sent = [c \in Conns |-> <<>>]
    /\ missed = [id \in Ids |-> {}]

(* What a connection's thread does on its own, and what its client does.   *)
Serve(c) ==
    \/ Register(c) \/ Scan(c) \/ SendRow(c) \/ ReplayDone(c)
    \/ Drain(c) \/ Poll(c) \/ PollTimeout(c)

Client(c) ==
    \/ \E request \in Requests : Subscribe(c, request)
    \/ \E id \in Ids : Unsubscribe(c, id) \/ UnsubscribeIdle(c, id)
    \/ SendFails(c) \/ ScanFails(c)

Dispatch ==
    \/ DispatchBegin \/ (\E id \in Ids : DispatchEvent(id))
    \/ DispatchEnd \/ RemoveDead

Next ==
    \/ \E n \in 1..MaxBatch : \E batch \in [1..n -> Classes] : Commit(batch)
    \/ Dispatch
    \/ \E c \in Conns : Serve(c) \/ Client(c)

(* Threads run: an append that committed goes on to return, and a          *)
(* connection's thread keeps serving; clients promise nothing.             *)
Fairness == WF_vars(Dispatch) /\ \A c \in Conns : WF_vars(Serve(c))

Spec == Init /\ [][Next]_vars /\ Fairness

-----------------------------------------------------------------------------
Active(c) == conn[c].step \in {"scan", "replay", "live", "poll"}
Wanted(c, s) == ClassOf(s) \in conn[c].query.scan /\ ClassOf(s) \in conn[c].query.pred

(* A client receives committed events only, each once, in sequence order,  *)
(* also across the handoff from replay to live events.                     *)
InOrderOnce ==
    \A c \in Conns :
        /\ \A i, j \in DOMAIN sent[c] : i < j => sent[c][i] < sent[c][j]
        /\ \A i \in DOMAIN sent[c] : sent[c][i] < Len(log)

(* Caught up, a client whose channel never filled, whose registration no   *)
(* commit overtook, whose scan did not fail and who asked for the history  *)
(* from the start has received exactly the events that pass its query.     *)
CompleteWhenUndisturbed ==
    \A c \in Conns :
        /\ conn[c].step = "poll" /\ committer = "idle"
        /\ queue[conn[c].id] = <<>> /\ conn[c].id \in registered
        /\ missed[conn[c].id] = {} /\ conn[c].joined = conn[c].end
        /\ conn[c].start = 0 /\ ~conn[c].failed /\ conn[c].query.scan = Classes
        => \A s \in 0..(Len(log) - 1) :
              (\E i \in DOMAIN sent[c] : sent[c][i] = s) <=> Wanted(c, s)

(* An event in a connection's channel reaches its client, or the           *)
(* subscription ends.                                                      *)
QueuedIsSent ==
    \A c \in Conns, s \in Sequences :
        (Active(c) /\ \E i \in DOMAIN queue[conn[c].id] : queue[conn[c].id][i] = s)
            ~> (~Active(c) \/ \E i \in DOMAIN sent[c] : sent[c][i] = s)

(* An append never waits for a subscriber: it always returns, also when it *)
(* finds subscribers gone and locks the hub a second time to remove them.  *)
AppendReturns == committer # "idle" ~> committer = "idle"

(* A subscription whose Receiver is gone (its connection's send failed)    *)
(* does not outlive the dispatch of an event that it matches.              *)
DeadSubscriptionsRemoved ==
    \A id \in Ids :
        (/\ committer = "committed" /\ id \in registered /\ ~HasReceiver(id)
         /\ \E s \in offered[id]..(Len(log) - 1) : ClassOf(s) \in filter[id])
            ~> id \notin registered

(* HOW_TO_GUIDE: "zero sequence gaps": a caught-up client has every        *)
(* matching event from its snapshot's start on.                            *)
NoGaps ==
    \A c \in Conns :
        conn[c].step = "poll" /\ committer = "idle" /\ queue[conn[c].id] = <<>> =>
            \A s \in conn[c].start..(Len(log) - 1) :
                Wanted(c, s) => \E i \in DOMAIN sent[c] : sent[c][i] = s

(* HOW_TO_GUIDE: "Zero Silent Drops": a caught-up client that is still     *)
(* registered has every matching event since it registered.  It has not:   *)
(* dispatch_events drops an event whose subscriber's channel is full.      *)
LiveWithoutGaps ==
    \A c \in Conns :
        /\ conn[c].step = "poll" /\ committer = "idle"
        /\ queue[conn[c].id] = <<>> /\ conn[c].id \in registered
        => \A s \in conn[c].joined..(Len(log) - 1) :
              Wanted(c, s) => \E i \in DOMAIN sent[c] : sent[c][i] = s

=============================================================================
