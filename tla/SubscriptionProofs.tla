-------------------------- MODULE SubscriptionProofs --------------------------
(***************************************************************************)
(* What a subscriber receives, for any number of connections, any          *)
(* requests, channel capacity, batch sizes and log length.                 *)
(***************************************************************************)
EXTENDS Subscription, SequenceTheorems, FiniteSetTheorems, TLAPS

ActiveSteps == {"scan", "replay", "live", "poll"}

Connection ==
    [step : {"ready"}]
    \union [step : {"register"}, query : Query, start : Nat, end : Nat]
    \union [step : ActiveSteps, query : Query, start : Nat, end : Nat,
            id : Ids, joined : Nat, rows : SUBSET Nat, failed : BOOLEAN]

SubType ==
    /\ log \in Seq(Classes)
    /\ committer \in {"idle", "committed", "dispatching", "removing"}
    /\ offered \in [Ids -> Nat]
    /\ dead \in SUBSET Ids
    /\ nextId \in Nat \ {0}
    /\ registered \in SUBSET Ids
    /\ filter \in [Ids -> SUBSET Classes]
    /\ queue \in [Ids -> Seq(Nat)]
    /\ conn \in [Conns -> Connection]
    /\ sent \in [Conns -> Seq(Nat)]
    /\ missed \in [Ids -> SUBSET Nat]

Holds(q, s) == \E i \in 1..Len(q) : q[i] = s
Ascends(q) == \A i, j \in 1..Len(q) : i < j => q[i] < q[j]
Below(q, n) == \A i \in 1..Len(q) : q[i] < n

(* Every channel has one owner, who registered it with his predicate.      *)
OwnInv ==
    /\ \A id \in registered : id < nextId
    /\ \A c \in Conns : Active(c) => /\ conn[c].id < nextId
                                     /\ filter[conn[c].id] = conn[c].query.pred
    /\ \A c, d \in Conns : Active(c) /\ Active(d) /\ conn[c].id = conn[d].id => c = d

(* A snapshot was taken between two appends, so that dispatch never offers *)
(* what is inside it.                                                      *)
SnapshotInv ==
    /\ \A c \in Conns : conn[c].step # "ready" =>
          /\ conn[c].start <= conn[c].end /\ conn[c].end <= Len(log)
          /\ committer # "idle" => \A id \in Ids : conn[c].end <= offered[id]
    /\ committer # "idle" => \A id \in Ids : offered[id] <= Len(log)
    /\ committer = "committed" => \A id \in Ids : offered[id] < Len(log)

(* What is in a channel was offered, in order.                             *)
QueueInv ==
    \A id \in Ids :
        /\ Ascends(queue[id]) /\ Below(queue[id], Len(log))
        /\ committer # "idle" => Below(queue[id], offered[id])

(* What a connection sent comes before what it is still to send: first the *)
(* rows of the snapshot, then what its channel holds, then what dispatch   *)
(* has not offered yet.                                                    *)
Before(c) ==
    /\ Ascends(sent[c]) /\ Below(sent[c], Len(log))
    /\ ~Active(c) => sent[c] = <<>>
    /\ Active(c) =>
          /\ conn[c].step = "scan" => sent[c] = <<>> /\ conn[c].rows = {}
          /\ conn[c].step \in {"live", "poll"} => conn[c].rows = {}
          /\ conn[c].step = "replay" => Below(sent[c], conn[c].end)
          /\ \A s \in conn[c].rows : s < conn[c].end /\ Below(sent[c], s)
          /\ \A j \in 1..Len(queue[conn[c].id]) :
                /\ conn[c].end <= queue[conn[c].id][j]
                /\ Below(sent[c], queue[conn[c].id][j])
          /\ committer # "idle" => Below(sent[c], offered[conn[c].id])

OrderInv == \A c \in Conns : Before(c)

(* Nothing is left out of what dispatch has passed, for a connection that  *)
(* asked for everything and that nothing disturbed.                        *)
Frontier(c) ==
    IF committer \in {"committed", "dispatching"} THEN offered[conn[c].id] ELSE Len(log)

Undisturbed(c) ==
    /\ Active(c) /\ conn[c].id \in registered /\ missed[conn[c].id] = {}
    /\ conn[c].joined = conn[c].end /\ conn[c].start = 0
    /\ ~conn[c].failed /\ conn[c].query.scan = Classes

Receives(c, s) ==
    Holds(sent[c], s) \/ s \in conn[c].rows \/ Holds(queue[conn[c].id], s)

Covered(c) ==
    Undisturbed(c) =>
        \A s \in 0..(Len(log) - 1) :
            Receives(c, s) <=>
                /\ ClassOf(s) \in conn[c].query.pred /\ s < Frontier(c)
                /\ conn[c].step = "scan" => conn[c].end <= s

CoverInv == \A c \in Conns : Covered(c)

(* The inductive invariant.                                                *)
SubInv == SubType /\ OwnInv /\ SnapshotInv /\ QueueInv /\ OrderInv /\ CoverInv

-----------------------------------------------------------------------------
(* The fields of a connection, by its step.                                *)
LEMMA ConnFields ==
    ASSUME SubType, NEW c \in Conns
    PROVE  /\ conn[c] \in Connection /\ sent[c] \in Seq(Nat) /\ Len(log) \in Nat
           /\ conn[c].step \in {"ready", "register"} \union ActiveSteps
           /\ Active(c) <=> conn[c].step \in ActiveSteps
           /\ conn[c].step = "ready" => conn[c] \in [step : {"ready"}]
           /\ conn[c].step = "register" =>
                 conn[c] \in [step : {"register"}, query : Query, start : Nat, end : Nat]
           /\ Active(c) =>
                 conn[c] \in [step : ActiveSteps, query : Query, start : Nat, end : Nat,
                              id : Ids, joined : Nat, rows : SUBSET Nat, failed : BOOLEAN]
<1>1. conn[c] \in Connection /\ sent[c] \in Seq(Nat) /\ Len(log) \in Nat
  BY LenProperties DEF SubType
<1>2. QED
  BY <1>1 DEF Connection, Active, ActiveSteps

(* dispatch takes or releases the hub's mutex.                             *)
LEMMA DispatchBeginInv ==
    ASSUME SubInv, DispatchBegin
    PROVE  SubInv'
<1>1. /\ committer = "committed" /\ committer' = "dispatching"
      /\ UNCHANGED <<log, offered, dead, nextId, registered, filter, queue, conn, sent, missed>>
  BY DEF DispatchBegin, hubVars
<1> USE DEF SubInv
<1>2. SubType' /\ OwnInv' /\ SnapshotInv' /\ QueueInv'
  BY <1>1 DEF SubType, OwnInv, Active, SnapshotInv, QueueInv, Below, Ascends
<1>3. OrderInv'
  BY <1>1 DEF OrderInv, Before, Active, Below, Ascends
<1>4. CoverInv'
  BY <1>1 DEF CoverInv, Covered, Undisturbed, Active, Receives, Holds, Frontier, ClassOf
<1>5. QED
  BY <1>2, <1>3, <1>4

LEMMA DispatchEndInv ==
    ASSUME SubInv, DispatchEnd
    PROVE  SubInv'
<1>1. /\ committer = "dispatching" /\ committer' \in {"idle", "removing"}
      /\ \A id \in registered : offered[id] = Len(log)
      /\ UNCHANGED <<log, offered, dead, nextId, registered, filter, queue, conn, sent, missed>>
  BY DEF DispatchEnd, hubVars
<1> USE DEF SubInv
<1>2. SubType' /\ OwnInv' /\ SnapshotInv' /\ QueueInv'
  BY <1>1 DEF SubType, OwnInv, Active, SnapshotInv, QueueInv, Below, Ascends
<1>3. OrderInv'
  BY <1>1 DEF OrderInv, Before, Active, Below, Ascends
<1>4. CoverInv'
  BY <1>1 DEF CoverInv, Covered, Undisturbed, Active, Receives, Holds, Frontier, ClassOf
<1>5. QED
  BY <1>2, <1>3, <1>4

LEMMA RemoveDeadInv ==
    ASSUME SubInv, RemoveDead
    PROVE  SubInv'
<1>1. /\ committer = "removing" /\ committer' = "idle" /\ dead' = {}
      /\ registered' = registered \ dead
      /\ UNCHANGED <<log, offered, nextId, filter, queue, conn, sent, missed>>
  BY DEF RemoveDead
<1> USE DEF SubInv
<1>2. SubType' /\ OwnInv' /\ SnapshotInv' /\ QueueInv'
  BY <1>1 DEF SubType, OwnInv, Active, SnapshotInv, QueueInv, Below, Ascends
<1>3. OrderInv'
  BY <1>1 DEF OrderInv, Before, Active, Below, Ascends
<1>4. CoverInv'
  BY <1>1 DEF CoverInv, Covered, Undisturbed, Active, Receives, Holds, Frontier, ClassOf
<1>5. QED
  BY <1>2, <1>3, <1>4

(* A client unsubscribes some subscription from outside.                   *)
LEMMA UnsubscribeIdleInv ==
    ASSUME SubInv, NEW c \in Conns, NEW id \in Ids, UnsubscribeIdle(c, id)
    PROVE  SubInv'
<1>1. /\ registered' = registered \ {id}
      /\ UNCHANGED <<log, committer, offered, dead, nextId, filter, queue, conn, sent, missed>>
  BY DEF UnsubscribeIdle, commitVars
<1> USE DEF SubInv
<1>2. SubType' /\ OwnInv' /\ SnapshotInv' /\ QueueInv'
  BY <1>1 DEF SubType, OwnInv, Active, SnapshotInv, QueueInv, Below, Ascends
<1>3. OrderInv'
  BY <1>1 DEF OrderInv, Before, Active, Below, Ascends
<1>4. CoverInv'
  BY <1>1 DEF CoverInv, Covered, Undisturbed, Active, Receives, Holds, Frontier, ClassOf
<1>5. QED
  BY <1>2, <1>3, <1>4

-----------------------------------------------------------------------------
(* The other connections do not notice a step of a thread.                 *)
LEMMA OtherConns ==
    ASSUME SubInv, UNCHANGED <<log, committer>>, NEW d \in Conns,
           conn'[d] = conn[d], sent'[d] = sent[d],
           Active(d) => /\ offered'[conn[d].id] = offered[conn[d].id]
                        /\ queue'[conn[d].id] = queue[conn[d].id]
                        /\ missed'[conn[d].id] = missed[conn[d].id]
                        /\ conn[d].id \in registered' => conn[d].id \in registered
    PROVE  Before(d)' /\ Covered(d)'
<1>1. Before(d) /\ Covered(d)
  BY DEF SubInv, OrderInv, CoverInv
<1>2. Active(d)' <=> Active(d)
  BY DEF Active
<1>3. Before(d)'
  BY <1>1, <1>2 DEF Before, Below, Ascends
<1>4. ASSUME Undisturbed(d)'
      PROVE  Undisturbed(d)
  BY <1>2, <1>4 DEF Undisturbed
<1>5. ASSUME Active(d)
      PROVE  \A s : (Receives(d, s)' <=> Receives(d, s)) /\ Frontier(d)' = Frontier(d)
                    /\ ClassOf(s)' = ClassOf(s)
  BY <1>5 DEF Receives, Holds, Frontier, ClassOf
<1>6. Covered(d)'
  <2> SUFFICES ASSUME Undisturbed(d)', NEW s \in 0..(Len(log) - 1)
               PROVE  Receives(d, s)' <=>
                        /\ ClassOf(s)' \in conn'[d].query.pred /\ s < Frontier(d)'
                        /\ conn'[d].step = "scan" => conn'[d].end <= s
    BY DEF Covered
  <2>1. Undisturbed(d) /\ Active(d)
    BY <1>4 DEF Undisturbed
  <2>2. QED
    BY <1>1, <1>5, <2>1 DEF Covered
<1>7. QED
  BY <1>3, <1>6

(* A step of one thread in which no event goes from one place to another.  *)
LEMMA OneConn ==
    ASSUME SubInv, NEW c \in Conns, NEW k \in Connection, conn' = [conn EXCEPT ![c] = k],
           UNCHANGED <<log, committer, offered, dead, nextId, registered, filter, queue>>,
           UNCHANGED <<sent, missed>>,
           k.step \in ActiveSteps =>
               /\ Active(c) /\ k.id = conn[c].id
               /\ k.query = conn[c].query,
           k.step # "ready" => /\ k.start <= k.end /\ k.end <= Len(log)
                               /\ \/ conn[c].step # "ready" /\ k.end = conn[c].end
                                  \/ committer = "idle",
           Before(c)', Covered(c)'
    PROVE  SubInv'
<1>1. conn'[c] = k /\ \A d \in Conns : d # c => conn'[d] = conn[d]
  BY DEF SubInv, SubType
<1>2. SubType'
  BY DEF SubInv, SubType
<1>3. Active(c)' <=> k.step \in ActiveSteps
  BY <1>1 DEF Active, ActiveSteps
<1>4. \A d \in Conns : d # c => (Active(d)' <=> Active(d))
  BY <1>1 DEF Active
<1>5. OwnInv'
  BY <1>1, <1>3, <1>4 DEF SubInv, OwnInv
<1>6. SnapshotInv'
  BY <1>1 DEF SubInv, SnapshotInv
<1>7. QueueInv'
  BY DEF SubInv, QueueInv, Below, Ascends
<1>8. OrderInv' /\ CoverInv'
  BY <1>1, OtherConns DEF OrderInv, CoverInv
<1>9. QED
  BY <1>2, <1>5, <1>6, <1>7, <1>8 DEF SubInv

(* From replay to live, from live to poll and back: only the step changes. *)
LEMMA NextStepInv ==
    ASSUME SubInv, NEW c \in Conns, ReplayDone(c) \/ Poll(c) \/ PollTimeout(c)
    PROVE  SubInv'
<1> DEFINE to == IF conn[c].step = "live" THEN "poll" ELSE "live"
           k == [conn[c] EXCEPT !.step = to]
<1>1. /\ conn[c].step \in {"replay", "live", "poll"}
      /\ conn' = [conn EXCEPT ![c].step = to]
      /\ UNCHANGED <<log, committer, offered, dead, nextId, registered, filter, queue>>
      /\ UNCHANGED <<sent, missed>>
      /\ conn[c].step = "replay" => conn[c].rows = {}
  BY DEF ReplayDone, Poll, PollTimeout, commitVars, hubVars
<1>2. Active(c) /\ SubType /\ Before(c)
      /\ conn[c] \in [step : ActiveSteps, query : Query, start : Nat, end : Nat,
                      id : Ids, joined : Nat, rows : SUBSET Nat, failed : BOOLEAN]
  BY <1>1, ConnFields DEF SubInv, OrderInv, ActiveSteps
<1>3. conn' = [conn EXCEPT ![c] = k] /\ conn'[c] = k
  BY <1>1, <1>2 DEF SubType
<1>4. to \in {"live", "poll"}
  OBVIOUS
<1> HIDE DEF to
<1>5. /\ k \in Connection /\ k.step = to /\ k.id = conn[c].id /\ k.query = conn[c].query
      /\ k.start = conn[c].start /\ k.end = conn[c].end /\ k.rows = conn[c].rows
      /\ k.joined = conn[c].joined /\ k.failed = conn[c].failed
  BY <1>2, <1>4 DEF Connection, ActiveSteps
<1> HIDE DEF k
<1>6. Before(c)'
  <2>1. Active(c)' /\ k.rows = {}
    BY <1>1, <1>2, <1>3, <1>4, <1>5 DEF Active, Before
  <2>2. QED
    BY <1>1, <1>2, <1>3, <1>4, <1>5, <2>1 DEF Before, Below, Ascends
<1>7. Covered(c)'
  <2> SUFFICES ASSUME Undisturbed(c)', NEW s \in 0..(Len(log) - 1)
               PROVE  Receives(c, s)' <=>
                        /\ ClassOf(s)' \in conn'[c].query.pred /\ s < Frontier(c)'
                        /\ conn'[c].step = "scan" => conn'[c].end <= s
    BY <1>1 DEF Covered
  <2>1. Undisturbed(c)
    BY <1>1, <1>2, <1>3, <1>5 DEF Undisturbed
  <2>2. (Receives(c, s)' <=> Receives(c, s)) /\ Frontier(c)' = Frontier(c)
        /\ ClassOf(s)' = ClassOf(s)
    BY <1>1, <1>3, <1>5 DEF Receives, Holds, Frontier, ClassOf
  <2>3. Covered(c)
    BY DEF SubInv, CoverInv
  <2>4. QED
    BY <1>1, <1>3, <1>4, <1>5, <2>1, <2>2, <2>3 DEF Covered
<1>8. k.start <= k.end /\ k.end <= Len(log) /\ conn[c].step # "ready"
  BY <1>1, <1>5 DEF SubInv, SnapshotInv
<1>9. QED
  BY <1>1, <1>2, <1>3, <1>5, <1>6, <1>7, <1>8, OneConn

(* A SubscribeRequest.                                                     *)
LEMMA SubscribeInv ==
    ASSUME SubInv, NEW c \in Conns, NEW request \in Requests, Subscribe(c, request)
    PROVE  SubInv'
<1> DEFINE end == Len(log)
           start == IF request.fromNow \/ request.from > end THEN end ELSE request.from
           k == [step |-> "register", query |-> request.query, start |-> start, end |-> end]
<1>1. /\ conn[c].step = "ready" /\ committer = "idle" /\ conn' = [conn EXCEPT ![c] = k]
      /\ UNCHANGED <<log, committer, offered, dead, nextId, registered, filter, queue>>
      /\ UNCHANGED <<sent, missed>>
  BY DEF Subscribe, commitVars, hubVars
<1>2. SubType /\ Before(c) /\ end \in Nat
  BY ConnFields DEF SubInv, OrderInv
<1>3. start \in Nat /\ start <= end /\ request.query \in Query
  BY <1>2, SubscriptionAssumption DEF SubscribeRequest
<1> HIDE DEF start
<1>4. k \in Connection /\ k.step = "register" /\ k.start = start /\ k.end = end
  BY <1>2, <1>3 DEF Connection
<1>5. conn'[c] = k
  BY <1>1, <1>2 DEF SubType
<1> HIDE DEF k
<1>6. ~Active(c)' /\ ~Active(c)
  BY <1>1, <1>4, <1>5 DEF Active
<1>7. Before(c)'
  BY <1>1, <1>2, <1>6 DEF Before, Below, Ascends
<1>8. Covered(c)'
  BY <1>6 DEF Covered, Undisturbed
<1>9. k.step \notin ActiveSteps /\ k.start <= k.end /\ k.end <= Len(log)
  BY <1>2, <1>3, <1>4 DEF ActiveSteps
<1>10. QED
  BY <1>1, <1>4, <1>7, <1>8, <1>9, OneConn

(* The scan failed.                                                        *)
LEMMA ScanFailsInv ==
    ASSUME SubInv, NEW c \in Conns, ScanFails(c)
    PROVE  SubInv'
<1> DEFINE k == [conn[c] EXCEPT !.step = "replay", !.failed = TRUE]
<1>1. /\ conn[c].step = "scan"
      /\ conn' = [conn EXCEPT ![c].step = "replay", ![c].failed = TRUE]
      /\ UNCHANGED <<log, committer, offered, dead, nextId, registered, filter, queue>>
      /\ UNCHANGED <<sent, missed>>
  BY DEF ScanFails, commitVars, hubVars
<1>2. Active(c) /\ SubType /\ Before(c)
      /\ conn[c] \in [step : ActiveSteps, query : Query, start : Nat, end : Nat,
                      id : Ids, joined : Nat, rows : SUBSET Nat, failed : BOOLEAN]
  BY <1>1, ConnFields DEF SubInv, OrderInv, ActiveSteps
<1>3. conn' = [conn EXCEPT ![c] = k] /\ conn'[c] = k
  BY <1>1, <1>2 DEF SubType
<1>4. /\ k \in Connection /\ k.step = "replay" /\ k.id = conn[c].id /\ k.query = conn[c].query
      /\ k.start = conn[c].start /\ k.end = conn[c].end /\ k.rows = conn[c].rows
      /\ k.failed = TRUE
  BY <1>2 DEF Connection, ActiveSteps
<1> HIDE DEF k
<1>5. Before(c)'
  <2>1. Active(c)' /\ k.rows = {} /\ sent[c] = <<>>
    BY <1>1, <1>2, <1>3, <1>4 DEF Active, Before
  <2>2. \A n : Ascends(<<>>) /\ Below(<<>>, n)
    BY DEF Ascends, Below
  <2>3. \A j \in 1..Len(queue[conn[c].id]) : conn[c].end <= queue[conn[c].id][j]
    BY <1>2 DEF Before
  <2>4. sent'[c] = <<>> /\ conn'[c] = k /\ queue' = queue
    BY <1>1, <1>3, <2>1
  <2>5. QED
    BY <1>4, <2>1, <2>2, <2>3, <2>4 DEF Before, Ascends, Below
<1>6. Covered(c)'
  BY <1>3, <1>4 DEF Covered, Undisturbed
<1>7. k.start <= k.end /\ k.end <= Len(log) /\ conn[c].step # "ready"
  BY <1>1, <1>4 DEF SubInv, SnapshotInv
<1>8. QED
  BY <1>1, <1>2, <1>3, <1>4, <1>5, <1>6, <1>7, OneConn

-----------------------------------------------------------------------------
(* A query without a HistoryFilter gets the first limit events.            *)
LEMMA ScanFromStart ==
    ASSUME SubType, NEW query, query.scan = Classes, NEW limit \in Nat,
           NEW s \in 0..(Len(log) - 1)
    PROVE  s \in ScanRows(query, limit) <=> s < limit /\ ClassOf(s) \in query.pred
<1> DEFINE selected == {x \in 0..(Len(log) - 1) : ClassOf(x) \in query.scan}
<1>1. Len(log) \in Nat /\ \A x \in 0..(Len(log) - 1) : ClassOf(x) \in Classes
  <2>1. Len(log) \in Nat /\ \A i \in 1..Len(log) : log[i] \in Classes
    BY LenProperties, ElementOfSeq DEF SubType
  <2>2. \A x \in 0..(Len(log) - 1) : x + 1 \in 1..Len(log)
    BY <2>1
  <2>3. QED
    BY <2>1, <2>2 DEF ClassOf
<1>2. selected = 0..(Len(log) - 1)
  BY <1>1
<1>3. {x \in selected : x < s} = 0..(s - 1)
  BY <1>1, <1>2
<1>4. Cardinality(0..(s - 1)) = s
  BY <1>1, FS_Interval
<1>5. Cardinality({x \in selected : x < s}) = s
  BY <1>3, <1>4
<1> HIDE DEF selected
<1>6. s \in selected
  BY <1>2
<1>7. ScanRows(query, limit) =
        {x \in {y \in selected : Cardinality({z \in selected : z < y}) < limit} :
            ClassOf(x) \in query.pred}
  BY DEF ScanRows, selected
<1>8. QED
  BY <1>5, <1>6, <1>7

(* Phase 1 scans the log.                                                  *)
LEMMA ScanInv ==
    ASSUME SubInv, NEW c \in Conns, Scan(c)
    PROVE  SubInv'
<1> DEFINE rows == {s \in ScanRows(conn[c].query, conn[c].end - conn[c].start) :
                        InSnapshot(conn[c], s)}
           k == [conn[c] EXCEPT !.step = "replay", !.rows = rows]
<1>1. /\ conn[c].step = "scan" /\ committer = "idle"
      /\ conn' = [conn EXCEPT ![c].step = "replay", ![c].rows = rows]
      /\ UNCHANGED <<log, committer, offered, dead, nextId, registered, filter, queue>>
      /\ UNCHANGED <<sent, missed>>
  BY DEF Scan, commitVars, hubVars
<1>2. /\ Active(c) /\ SubType /\ Before(c) /\ Covered(c) /\ Len(log) \in Nat
      /\ conn[c] \in [step : ActiveSteps, query : Query, start : Nat, end : Nat,
                      id : Ids, joined : Nat, rows : SUBSET Nat, failed : BOOLEAN]
      /\ conn[c].start <= conn[c].end /\ conn[c].end <= Len(log)
  BY <1>1, ConnFields DEF SubInv, OrderInv, CoverInv, SnapshotInv, ActiveSteps
<1>3. \A s \in rows : s \in Nat /\ s < conn[c].end
  BY <1>2 DEF ScanRows, InSnapshot
<1>4. ASSUME conn[c].query.scan = Classes, conn[c].start = 0
      PROVE  \A s \in 0..(Len(log) - 1) :
                s \in rows <=> s < conn[c].end /\ ClassOf(s) \in conn[c].query.pred
  <2>1. conn[c].end - conn[c].start = conn[c].end /\ conn[c].end \in Nat
    BY <1>2, <1>4
  <2> DEFINE query == conn[c].query
             limit == conn[c].end
  <2> HIDE DEF query, limit
  <2>2. limit \in Nat /\ query.scan = Classes
    BY <1>4, <2>1 DEF query, limit
  <2>3. ASSUME NEW s \in 0..(Len(log) - 1)
        PROVE  s \in rows <=> s < limit /\ ClassOf(s) \in query.pred
    <3>1. s \in ScanRows(query, limit) <=> s < limit /\ ClassOf(s) \in query.pred
      BY <1>2, <2>2, ScanFromStart
    <3>2. s \in rows <=> s \in ScanRows(query, limit) /\ 0 <= s /\ s < limit
      BY <1>4, <2>1 DEF InSnapshot, query, limit
    <3> HIDE DEF rows
    <3>3. QED
      BY <3>1, <3>2
  <2>4. QED
    BY <2>3 DEF query, limit
<1> HIDE DEF rows
<1>5. conn' = [conn EXCEPT ![c] = k] /\ conn'[c] = k
  BY <1>1, <1>2 DEF SubType
<1>6. rows \in SUBSET Nat
  BY <1>3
<1>7. /\ k \in Connection /\ k.step = "replay" /\ k.id = conn[c].id /\ k.query = conn[c].query
      /\ k.start = conn[c].start /\ k.end = conn[c].end /\ k.rows = rows
      /\ k.joined = conn[c].joined /\ k.failed = conn[c].failed
  BY <1>2, <1>6 DEF Connection, ActiveSteps
<1> HIDE DEF k
<1>8. sent[c] = <<>> /\ conn[c].rows = {}
      /\ \A j \in 1..Len(queue[conn[c].id]) : conn[c].end <= queue[conn[c].id][j]
  BY <1>1, <1>2 DEF Before
<1>9. Before(c)'
  <2>1. \A n : Ascends(<<>>) /\ Below(<<>>, n)
    BY DEF Ascends, Below
  <2>2. sent'[c] = <<>> /\ queue' = queue /\ Active(c)'
    BY <1>1, <1>5, <1>7, <1>8 DEF Active
  <2>3. QED
    BY <1>3, <1>5, <1>7, <1>8, <2>1, <2>2 DEF Before, Ascends, Below
<1>10. Covered(c)'
  <2> SUFFICES ASSUME Undisturbed(c)', NEW s \in 0..(Len(log) - 1)
               PROVE  Receives(c, s)' <=>
                        /\ ClassOf(s)' \in conn'[c].query.pred /\ s < Frontier(c)'
                        /\ conn'[c].step = "scan" => conn'[c].end <= s
    BY <1>1 DEF Covered
  <2>1. Undisturbed(c) /\ conn[c].query.scan = Classes /\ conn[c].start = 0
    BY <1>1, <1>2, <1>5, <1>7 DEF Undisturbed
  <2>2. Holds(queue[conn[c].id], s) <=> /\ ClassOf(s) \in conn[c].query.pred
                                        /\ s < Len(log) /\ conn[c].end <= s
    <3>1. Receives(c, s) <=> Holds(queue[conn[c].id], s)
      BY <1>8 DEF Receives, Holds
    <3>2. QED
      BY <1>1, <1>2, <2>1, <3>1 DEF Covered, Frontier
  <2>3. Receives(c, s)' <=> s \in rows \/ Holds(queue[conn[c].id], s)
    <3>1. ~Holds(<<>>, s)
      BY DEF Holds
    <3>2. sent'[c] = <<>> /\ conn'[c].rows = rows /\ queue'[conn'[c].id] = queue[conn[c].id]
      BY <1>1, <1>5, <1>7, <1>8
    <3>3. QED
      BY <3>1, <3>2 DEF Receives
  <2>4. s < Frontier(c)' /\ ClassOf(s)' = ClassOf(s)
    BY <1>1, <1>2 DEF Frontier, ClassOf
  <2>5. s \in rows <=> s < conn[c].end /\ ClassOf(s) \in conn[c].query.pred
    BY <1>4, <2>1
  <2>6. conn[c].end \in Nat /\ s \in Nat /\ s < Len(log)
    BY <1>2
  <2>7. QED
    BY <1>5, <1>7, <2>2, <2>3, <2>4, <2>5, <2>6
<1>11. QED
  BY <1>1, <1>2, <1>5, <1>7, <1>9, <1>10, OneConn

(* A bound may be raised.                                                  *)
LEMMA BelowMore ==
    ASSUME NEW q \in Seq(Nat), NEW m \in Nat, NEW n \in Nat, m <= n, Below(q, m)
    PROVE  Below(q, n)
<1> SUFFICES ASSUME NEW i \in 1..Len(q)
             PROVE  q[i] < n
  BY DEF Below
<1>1. PICK x : x = q[i]
  OBVIOUS
<1>2. x \in Nat /\ x < m
  BY <1>1, ElementOfSeq DEF Below
<1>3. QED
  BY <1>1, <1>2

(* What Append does to an ascending sequence.                              *)
LEMMA AppendAscends ==
    ASSUME NEW q \in Seq(Nat), NEW s \in Nat, Ascends(q), Below(q, s)
    PROVE  /\ Append(q, s) \in Seq(Nat) /\ Ascends(Append(q, s))
           /\ \A n \in Nat : Below(Append(q, s), n) <=> Below(q, n) /\ s < n
           /\ \A x : Holds(Append(q, s), x) <=> Holds(q, x) \/ x = s
<1> DEFINE p == Append(q, s)
<1>1. /\ p \in Seq(Nat) /\ Len(q) \in Nat /\ Len(p) = Len(q) + 1
      /\ \A i \in 1..Len(q) : p[i] = q[i]
      /\ p[Len(q) + 1] = s
  OBVIOUS
<1> HIDE DEF p
<1>2. \A i \in 1..Len(p) : i \in 1..Len(q) \/ i = Len(q) + 1
  BY <1>1
<1>3. \A i \in 1..Len(q) : i \in 1..Len(p) /\ i < Len(q) + 1
  BY <1>1
<1>4. Len(q) + 1 \in 1..Len(p)
  BY <1>1
<1>5. Ascends(p)
  <2> SUFFICES ASSUME NEW i \in 1..Len(p), NEW j \in 1..Len(p), i < j
               PROVE  p[i] < p[j]
    BY DEF Ascends
  <2>1. i \in 1..Len(q)
    BY <1>1
  <2>2. CASE j \in 1..Len(q)
    BY <1>1, <2>1, <2>2 DEF Ascends
  <2>3. CASE j = Len(q) + 1
    BY <1>1, <2>1, <2>3 DEF Below
  <2>4. QED
    BY <1>2, <2>2, <2>3
<1>6. \A n \in Nat : Below(p, n) <=> Below(q, n) /\ s < n
  BY <1>1, <1>2, <1>3, <1>4 DEF Below
<1>7. \A x : Holds(p, x) <=> Holds(q, x) \/ x = s
  BY <1>1, <1>2, <1>3, <1>4 DEF Holds
<1>8. QED
  BY <1>1, <1>5, <1>6, <1>7 DEF p

(* And what Tail leaves of one.                                            *)
LEMMA TailAscends ==
    ASSUME NEW q \in Seq(Nat), q # <<>>, Ascends(q)
    PROVE  /\ Tail(q) \in Seq(Nat) /\ Ascends(Tail(q))
           /\ \A i \in 1..Len(Tail(q)) : Tail(q)[i] = q[i + 1] /\ i + 1 \in 1..Len(q)
           /\ \A n \in Nat : Below(q, n) => Below(Tail(q), n)
           /\ Head(q) \in Nat /\ Head(q) = q[1] /\ 1 \in 1..Len(q)
           /\ \A i \in 1..Len(Tail(q)) : Head(q) < Tail(q)[i]
           /\ \A x : Holds(q, x) <=> x = Head(q) \/ Holds(Tail(q), x)
<1> DEFINE r == Tail(q)
<1>1. /\ r \in Seq(Nat) /\ Len(q) \in Nat \ {0} /\ Len(r) = Len(q) - 1
      /\ \A i \in 1..Len(r) : r[i] = q[i + 1]
      /\ Head(q) = q[1] /\ q[1] \in Nat
  OBVIOUS
<1> HIDE DEF r
<1>2. \A i \in 1..Len(r) : i + 1 \in 1..Len(q) /\ 1 < i + 1
  BY <1>1
<1>3. 1 \in 1..Len(q)
  BY <1>1
<1>4. \A i \in 1..Len(q) : i = 1 \/ (i - 1 \in 1..Len(r) /\ q[i] = r[i - 1])
  BY <1>1
<1>5. Ascends(r)
  <2> SUFFICES ASSUME NEW i \in 1..Len(r), NEW j \in 1..Len(r), i < j
               PROVE  r[i] < r[j]
    BY DEF Ascends
  <2>1. i + 1 < j + 1
    BY <1>1
  <2>2. QED
    BY <1>1, <1>2, <2>1 DEF Ascends
<1>6. \A n \in Nat : Below(q, n) => Below(r, n)
  BY <1>1, <1>2 DEF Below
<1>7. \A i \in 1..Len(r) : Head(q) < r[i]
  BY <1>1, <1>2, <1>3 DEF Ascends
<1>8. \A x : Holds(q, x) <=> x = Head(q) \/ Holds(r, x)
  BY <1>1, <1>2, <1>3, <1>4 DEF Holds
<1>9. QED
  BY <1>1, <1>2, <1>3, <1>5, <1>6, <1>7, <1>8 DEF r

-----------------------------------------------------------------------------
(* The lowest row that is left is sent.                                    *)
LEMMA SendRowInv ==
    ASSUME SubInv, NEW c \in Conns, SendRow(c)
    PROVE  SubInv'
<1>1. PICK s \in conn[c].rows :
        /\ \A t \in conn[c].rows : s <= t
        /\ sent' = [sent EXCEPT ![c] = Append(@, s)]
        /\ conn' = [conn EXCEPT ![c].rows = @ \ {s}]
  BY DEF SendRow
<1>2. /\ conn[c].step = "replay"
      /\ UNCHANGED <<log, committer, offered, dead, nextId, registered, filter, queue, missed>>
  BY DEF SendRow, commitVars, hubVars
<1> DEFINE k == [conn[c] EXCEPT !.rows = conn[c].rows \ {s}]
           q == sent[c]
<1>3. /\ Active(c) /\ SubType /\ Before(c) /\ Covered(c) /\ Len(log) \in Nat
      /\ conn[c] \in [step : ActiveSteps, query : Query, start : Nat, end : Nat,
                      id : Ids, joined : Nat, rows : SUBSET Nat, failed : BOOLEAN]
      /\ conn[c].start <= conn[c].end /\ conn[c].end <= Len(log) /\ q \in Seq(Nat)
      /\ committer # "idle" => conn[c].end <= offered[conn[c].id]
  BY <1>2, ConnFields DEF SubInv, OrderInv, CoverInv, SnapshotInv, ActiveSteps
<1>4. conn' = [conn EXCEPT ![c] = k] /\ conn'[c] = k /\ sent'[c] = Append(q, s)
      /\ \A d \in Conns : d # c => conn'[d] = conn[d] /\ sent'[d] = sent[d]
  BY <1>1, <1>3 DEF SubType
<1>5. /\ k \in Connection /\ k.step = "replay" /\ k.id = conn[c].id /\ k.query = conn[c].query
      /\ k.start = conn[c].start /\ k.end = conn[c].end /\ k.rows = conn[c].rows \ {s}
      /\ k.joined = conn[c].joined /\ k.failed = conn[c].failed
  BY <1>2, <1>3 DEF Connection, ActiveSteps
<1>6. /\ s \in Nat /\ s < conn[c].end /\ Ascends(q) /\ Below(q, s)
      /\ Below(q, conn[c].end) /\ Below(q, Len(log))
  BY <1>1, <1>2, <1>3 DEF Before
<1> HIDE DEF k, q
<1>7. /\ Append(q, s) \in Seq(Nat) /\ Ascends(Append(q, s))
      /\ \A n \in Nat : Below(Append(q, s), n) <=> Below(q, n) /\ s < n
      /\ \A x : Holds(Append(q, s), x) <=> Holds(q, x) \/ x = s
  BY <1>3, <1>6, AppendAscends
<1>8. SubType'
  BY <1>1, <1>2, <1>3, <1>4, <1>5, <1>7 DEF SubType, q
<1>9. OwnInv'
  <2>1. \A d \in Conns : (Active(d)' <=> Active(d)) /\ conn'[d].id = conn[d].id
                         /\ conn'[d].query = conn[d].query
    BY <1>2, <1>3, <1>4, <1>5 DEF Active, ActiveSteps
  <2>2. QED
    BY <1>2, <2>1 DEF SubInv, OwnInv
<1>10. SnapshotInv' /\ QueueInv'
  <2>1. \A d \in Conns : conn'[d].step = conn[d].step /\ conn'[d].start = conn[d].start
                         /\ conn'[d].end = conn[d].end
    BY <1>2, <1>4, <1>5
  <2>2. QED
    BY <1>2, <2>1 DEF SubInv, SnapshotInv, QueueInv, Ascends, Below
<1>11. Before(c)'
  <2>1. Active(c)' /\ queue'[conn'[c].id] = queue[conn[c].id]
        /\ offered'[conn'[c].id] = offered[conn[c].id]
    BY <1>2, <1>4, <1>5 DEF Active
  <2>2. s < Len(log) /\ conn[c].end \in Nat
    BY <1>3, <1>6
  <2>3. Ascends(sent'[c]) /\ Below(sent'[c], Len(log)) /\ Below(sent'[c], conn[c].end)
    BY <1>3, <1>4, <1>6, <1>7, <2>2
  <2>4. \A t \in k.rows : t < conn[c].end /\ Below(sent'[c], t)
    <3> SUFFICES ASSUME NEW t \in conn[c].rows, t # s
                 PROVE  t < conn[c].end /\ Below(sent'[c], t)
      BY <1>5
    <3>1. t \in Nat /\ s < t /\ t < conn[c].end /\ Below(q, t)
      BY <1>1, <1>3, <1>6 DEF Before, q
    <3>2. QED
      BY <1>4, <1>7, <3>1
  <2>5. \A j \in 1..Len(queue[conn[c].id]) :
            conn[c].end <= queue[conn[c].id][j] /\ Below(sent'[c], queue[conn[c].id][j])
    <3> SUFFICES ASSUME NEW j \in 1..Len(queue[conn[c].id])
                 PROVE  conn[c].end <= queue[conn[c].id][j]
                        /\ Below(sent'[c], queue[conn[c].id][j])
      OBVIOUS
    <3> DEFINE x == queue[conn[c].id][j]
    <3>1. x \in Nat
      BY <1>3, ElementOfSeq DEF SubType
    <3>2. conn[c].end <= x /\ Below(q, x)
      BY <1>3 DEF Before, q
    <3> HIDE DEF x
    <3>3. s < x
      BY <1>3, <1>6, <3>1, <3>2
    <3>4. Below(sent'[c], x)
      BY <1>4, <1>7, <3>1, <3>2, <3>3
    <3>5. QED
      BY <3>2, <3>4 DEF x
  <2>6. committer # "idle" => Below(sent'[c], offered[conn[c].id])
    <3> SUFFICES ASSUME committer # "idle"
                 PROVE  Below(sent'[c], offered[conn[c].id])
      OBVIOUS
    <3>1. offered[conn[c].id] \in Nat /\ Below(q, offered[conn[c].id])
      BY <1>3 DEF SubType, Before, q
    <3>2. s < offered[conn[c].id]
      BY <1>3, <1>6, <3>1
    <3>3. QED
      BY <1>4, <1>7, <3>1, <3>2
  <2>7. QED
    BY <1>2, <1>4, <1>5, <2>1, <2>3, <2>4, <2>5, <2>6 DEF Before
<1>12. Covered(c)'
  <2> SUFFICES ASSUME Undisturbed(c)', NEW x \in 0..(Len(log) - 1)
               PROVE  Receives(c, x)' <=>
                        /\ ClassOf(x)' \in conn'[c].query.pred /\ x < Frontier(c)'
                        /\ conn'[c].step = "scan" => conn'[c].end <= x
    BY <1>2 DEF Covered
  <2>1. Undisturbed(c)
    <3>1. conn'[c] = k /\ Active(c) /\ registered' = registered /\ missed' = missed
      BY <1>2, <1>3, <1>4
    <3>2. QED
      BY <1>5, <3>1 DEF Undisturbed
  <2>2. Receives(c, x)' <=> Receives(c, x)
    <3>1. queue'[conn'[c].id] = queue[conn[c].id]
      BY <1>2, <1>4, <1>5
    <3>2. Receives(c, x) <=> Holds(q, x) \/ x \in conn[c].rows \/ Holds(queue[conn[c].id], x)
      BY DEF Receives, q
    <3>3. Receives(c, x)' <=> \/ Holds(Append(q, s), x) \/ x \in conn[c].rows \ {s}
                              \/ Holds(queue[conn[c].id], x)
      BY <1>4, <1>5, <3>1 DEF Receives
    <3>4. QED
      BY <1>1, <1>7, <3>2, <3>3
  <2>3. Frontier(c)' = Frontier(c) /\ ClassOf(x)' = ClassOf(x)
    BY <1>2, <1>4, <1>5 DEF Frontier, ClassOf
  <2>4. QED
    BY <1>2, <1>3, <1>4, <1>5, <2>1, <2>2, <2>3 DEF Covered
<1>13. OrderInv' /\ CoverInv'
  BY <1>2, <1>4, <1>11, <1>12, OtherConns DEF OrderInv, CoverInv
<1>14. QED
  BY <1>8, <1>9, <1>10, <1>13 DEF SubInv

(* The first event of the channel is sent.                                 *)
LEMMA DrainInv ==
    ASSUME SubInv, NEW c \in Conns, Drain(c)
    PROVE  SubInv'
<1>0. PICK id, q, r, s :
        id = conn[c].id /\ q = sent[c] /\ r = queue[id] /\ s = Head(r)
  OBVIOUS
<1>1. /\ conn[c].step = "live" /\ r # <<>>
      /\ sent' = [sent EXCEPT ![c] = Append(q, s)]
      /\ queue' = [queue EXCEPT ![id] = Tail(r)]
      /\ UNCHANGED <<log, committer, offered, dead, nextId, registered, filter, conn, missed>>
  BY <1>0 DEF Drain, commitVars
<1>2. /\ Active(c) /\ SubType /\ Before(c) /\ Covered(c) /\ Len(log) \in Nat
      /\ conn[c] \in [step : ActiveSteps, query : Query, start : Nat, end : Nat,
                      id : Ids, joined : Nat, rows : SUBSET Nat, failed : BOOLEAN]
      /\ q \in Seq(Nat)
  BY <1>0, <1>1, ConnFields DEF SubInv, OrderInv, CoverInv, ActiveSteps
<1>3. /\ id \in Ids /\ r \in Seq(Nat) /\ Ascends(r) /\ Below(r, Len(log)) /\ conn[c].rows = {}
      /\ committer # "idle" => Below(r, offered[id])
  BY <1>0, <1>1, <1>2 DEF SubType, SubInv, QueueInv, Before
<1>4. /\ queue'[id] = Tail(r) /\ sent'[c] = Append(q, s)
      /\ \A d \in Conns : d # c => sent'[d] = sent[d]
      /\ \A x \in Ids : x # id => queue'[x] = queue[x]
  BY <1>1, <1>2, <1>3 DEF SubType
<1>5. \A d \in Conns : d # c /\ Active(d) => conn[d].id # id
  BY <1>0, <1>2 DEF SubInv, OwnInv
<1>6. /\ Tail(r) \in Seq(Nat) /\ Ascends(Tail(r))
      /\ \A i \in 1..Len(Tail(r)) : Tail(r)[i] = r[i + 1] /\ i + 1 \in 1..Len(r)
      /\ \A n \in Nat : Below(r, n) => Below(Tail(r), n)
      /\ s \in Nat /\ s = r[1] /\ 1 \in 1..Len(r)
      /\ \A i \in 1..Len(Tail(r)) : s < Tail(r)[i]
      /\ \A x : Holds(r, x) <=> x = s \/ Holds(Tail(r), x)
  <2>1. r \in Seq(Nat) /\ r # <<>> /\ Ascends(r)
    BY <1>1, <1>3
  <2>2. QED
    BY <1>0, <2>1, TailAscends
<1>7. Ascends(q) /\ Below(q, s) /\ Below(q, Len(log))
  BY <1>0, <1>2, <1>6 DEF Before
<1>8. /\ Append(q, s) \in Seq(Nat) /\ Ascends(Append(q, s))
      /\ \A n \in Nat : Below(Append(q, s), n) <=> Below(q, n) /\ s < n
      /\ \A x : Holds(Append(q, s), x) <=> Holds(q, x) \/ x = s
  <2>1. q \in Seq(Nat) /\ s \in Nat /\ Ascends(q) /\ Below(q, s)
    BY <1>2, <1>6, <1>7
  <2>2. QED
    BY <2>1, AppendAscends
<1>9. SubType'
  BY <1>1, <1>2, <1>3, <1>4, <1>6, <1>8 DEF SubType
<1>10. OwnInv' /\ SnapshotInv'
  BY <1>1 DEF SubInv, OwnInv, Active, SnapshotInv
<1>11. QueueInv'
  <2> SUFFICES ASSUME NEW x \in Ids
               PROVE  /\ Ascends(queue'[x]) /\ Below(queue'[x], Len(log))
                      /\ committer # "idle" => Below(queue'[x], offered[x])
    BY <1>1 DEF QueueInv, Ascends, Below
  <2>1. CASE x = id
    <3>1. offered[id] \in Nat /\ Len(log) \in Nat
      BY <1>2, <1>3 DEF SubType
    <3>2. QED
      BY <1>3, <1>4, <1>6, <2>1, <3>1
  <2>2. CASE x # id
    BY <1>4, <2>2 DEF SubInv, QueueInv
  <2>3. QED
    BY <2>1, <2>2
<1>12. Before(c)'
  <2>1. Active(c)' /\ conn' = conn /\ conn'[c].id = id /\ offered' = offered
    BY <1>0, <1>1, <1>2 DEF Active
  <2>2. s < Len(log) /\ (committer # "idle" => s < offered[id])
    <3>1. \A n : Below(r, n) => s < n
      BY <1>6 DEF Below
    <3>2. QED
      BY <1>3, <3>1
  <2>3. Ascends(sent'[c]) /\ Below(sent'[c], Len(log))
    BY <1>2, <1>4, <1>7, <1>8, <2>2
  <2>4. committer # "idle" => Below(sent'[c], offered[id])
    <3> SUFFICES ASSUME committer # "idle"
                 PROVE  Below(sent'[c], offered[id])
      OBVIOUS
    <3>1. offered[id] \in Nat /\ Below(q, offered[id])
      BY <1>0, <1>2, <1>3 DEF SubType, Before
    <3>2. QED
      BY <1>4, <1>8, <2>2, <3>1
  <2>5. \A j \in 1..Len(Tail(r)) :
            conn[c].end <= Tail(r)[j] /\ Below(sent'[c], Tail(r)[j])
    <3> SUFFICES ASSUME NEW j \in 1..Len(Tail(r))
                 PROVE  conn[c].end <= Tail(r)[j] /\ Below(sent'[c], Tail(r)[j])
      OBVIOUS
    <3>1. Tail(r)[j] \in Nat /\ s < Tail(r)[j]
      BY <1>6, ElementOfSeq
    <3>2. conn[c].end <= r[j + 1] /\ Below(q, r[j + 1])
      BY <1>0, <1>2, <1>6 DEF Before
    <3>3. conn[c].end <= Tail(r)[j] /\ Below(q, Tail(r)[j])
      BY <1>6, <3>2
    <3>4. QED
      BY <1>4, <1>8, <3>1, <3>3
  <2>6. /\ conn'[c] = conn[c] /\ conn[c].step = "live" /\ conn[c].rows = {}
        /\ queue'[conn'[c].id] = Tail(r) /\ offered'[conn'[c].id] = offered[id]
        /\ log' = log /\ committer' = committer
    BY <1>0, <1>1, <1>3, <1>4
  <2>7. QED
    BY <2>1, <2>3, <2>4, <2>5, <2>6 DEF Before
<1>13. Covered(c)'
  <2> SUFFICES ASSUME Undisturbed(c)', NEW x \in 0..(Len(log) - 1)
               PROVE  Receives(c, x)' <=>
                        /\ ClassOf(x)' \in conn'[c].query.pred /\ x < Frontier(c)'
                        /\ conn'[c].step = "scan" => conn'[c].end <= x
    BY <1>1 DEF Covered
  <2>1. Undisturbed(c)
    BY <1>1, <1>2 DEF Undisturbed
  <2>2. Receives(c, x)' <=> Receives(c, x)
    <3>1. Receives(c, x) <=> Holds(q, x) \/ x \in conn[c].rows \/ Holds(r, x)
      BY <1>0 DEF Receives
    <3>2. Receives(c, x)' <=> Holds(Append(q, s), x) \/ x \in conn[c].rows \/ Holds(Tail(r), x)
      BY <1>0, <1>1, <1>4 DEF Receives
    <3>3. QED
      BY <1>6, <1>8, <3>1, <3>2
  <2>3. Frontier(c)' = Frontier(c) /\ ClassOf(x)' = ClassOf(x)
    BY <1>1 DEF Frontier, ClassOf
  <2>4. QED
    BY <1>1, <1>2, <2>1, <2>2, <2>3 DEF Covered
<1>14. OrderInv' /\ CoverInv'
  <2>1. \A d \in Conns : Active(d) => conn[d].id \in Ids
    BY <1>2, ConnFields
  <2>2. \A d \in Conns : d # c => Before(d)' /\ Covered(d)'
    BY <1>1, <1>4, <1>5, <2>1, OtherConns
  <2>3. QED
    BY <1>12, <1>13, <2>2 DEF OrderInv, CoverInv
<1>15. QED
  BY <1>9, <1>10, <1>11, <1>14 DEF SubInv

-----------------------------------------------------------------------------
(* A connection leaves its subscription.                                   *)
LEMMA LeaveInv ==
    ASSUME SubInv, NEW c \in Conns, Active(c), Leave(c),
           registered' \subseteq registered,
           UNCHANGED <<log, committer, offered, dead, nextId, filter>>
    PROVE  SubInv'
<1>1. PICK id : id = conn[c].id
  OBVIOUS
<1>2. /\ SubType /\ id \in Ids
      /\ conn' = [conn EXCEPT ![c] = Ready] /\ sent' = [sent EXCEPT ![c] = <<>>]
      /\ queue' = [queue EXCEPT ![id] = <<>>] /\ missed' = [missed EXCEPT ![id] = {}]
  BY <1>1, ConnFields DEF SubInv, Leave
<1>3. Ready \in Connection /\ Ready.step = "ready"
  BY DEF Ready, Connection
<1>4. /\ conn'[c] = Ready /\ sent'[c] = <<>> /\ queue'[id] = <<>> /\ missed'[id] = {}
      /\ \A d \in Conns : d # c => conn'[d] = conn[d] /\ sent'[d] = sent[d]
      /\ \A x \in Ids : x # id => queue'[x] = queue[x] /\ missed'[x] = missed[x]
  BY <1>2 DEF SubType
<1>5. <<>> \in Seq(Nat) /\ Ascends(<<>>) /\ \A n : Below(<<>>, n)
  BY DEF Ascends, Below
<1>6. SubType'
  BY <1>2, <1>3, <1>5 DEF SubType
<1>7. ~Active(c)' /\ \A d \in Conns : d # c => (Active(d)' <=> Active(d))
  BY <1>3, <1>4 DEF Active
<1>8. OwnInv' /\ SnapshotInv'
  BY <1>3, <1>4, <1>7 DEF SubInv, OwnInv, SnapshotInv
<1>9. QueueInv'
  <2> SUFFICES ASSUME NEW x \in Ids
               PROVE  /\ Ascends(queue'[x]) /\ Below(queue'[x], Len(log))
                      /\ committer # "idle" => Below(queue'[x], offered[x])
    BY DEF QueueInv, Ascends, Below
  <2>1. QED
    BY <1>4, <1>5 DEF SubInv, QueueInv
<1>10. Before(c)' /\ Covered(c)'
  BY <1>4, <1>5, <1>7 DEF Before, Covered, Undisturbed, Ascends, Below
<1>11. \A d \in Conns : d # c => Before(d)' /\ Covered(d)'
  <2> SUFFICES ASSUME NEW d \in Conns, d # c
               PROVE  Before(d)' /\ Covered(d)'
    OBVIOUS
  <2>1. Active(d) => conn[d].id \in Ids /\ conn[d].id # id
    BY <1>1, <1>2, ConnFields DEF SubInv, OwnInv
  <2>2. QED
    BY <1>4, <2>1, OtherConns
<1>12. OrderInv' /\ CoverInv'
  BY <1>10, <1>11 DEF OrderInv, CoverInv
<1>13. QED
  BY <1>6, <1>8, <1>9, <1>12 DEF SubInv

(* The client unsubscribes, or a send to it fails.                         *)
LEMMA UnsubscribeInv ==
    ASSUME SubInv, NEW c \in Conns, NEW id \in Ids, Unsubscribe(c, id)
    PROVE  SubInv'
<1>1. /\ Active(c) /\ Leave(c) /\ registered' \subseteq registered
      /\ UNCHANGED <<log, committer, offered, dead, nextId, filter>>
  BY DEF Unsubscribe, Active, commitVars
<1>2. QED
  BY <1>1, LeaveInv

LEMMA SendFailsInv ==
    ASSUME SubInv, NEW c \in Conns, SendFails(c)
    PROVE  SubInv'
<1>1. /\ Active(c) /\ Leave(c) /\ registered' \subseteq registered
      /\ UNCHANGED <<log, committer, offered, dead, nextId, filter>>
  BY DEF SendFails, Active, commitVars
<1>2. QED
  BY <1>1, LeaveInv

(* A subscription is registered: its identifier is new, its channel empty. *)
LEMMA RegisterInv ==
    ASSUME SubInv, NEW c \in Conns, Register(c)
    PROVE  SubInv'
<1> DEFINE to == IF conn[c].start < conn[c].end THEN "scan" ELSE "live"
           k == [step |-> to, query |-> conn[c].query, start |-> conn[c].start,
                 end |-> conn[c].end, id |-> nextId, joined |-> Len(log),
                 rows |-> {}, failed |-> FALSE]
<1>1. /\ conn[c].step = "register" /\ nextId <= MaxSubs /\ nextId' = nextId + 1
      /\ registered' = registered \union {nextId}
      /\ filter' = [filter EXCEPT ![nextId] = conn[c].query.pred]
      /\ queue' = [queue EXCEPT ![nextId] = <<>>]
      /\ conn' = [conn EXCEPT ![c] = k]
      /\ UNCHANGED <<log, committer, offered, dead, sent, missed>>
  BY DEF Register, commitVars
<1>2. /\ SubType /\ Len(log) \in Nat /\ nextId \in Ids /\ nextId \in Nat
      /\ conn[c] \in [step : {"register"}, query : Query, start : Nat, end : Nat]
      /\ ~Active(c)
  <2>1. SubType /\ nextId \in Nat \ {0}
    BY DEF SubInv, SubType
  <2>2. nextId \in Ids
    BY <1>1, <2>1, SubscriptionAssumption DEF Ids
  <2>3. QED
    BY <1>1, <2>1, <2>2, ConnFields DEF Active
<1>3. to \in {"scan", "live"}
  OBVIOUS
<1>4. conn'[c] = k /\ \A d \in Conns : d # c => conn'[d] = conn[d]
  BY <1>1, <1>2 DEF SubType
<1>5. conn[c].query \in Query /\ conn[c].start \in Nat /\ conn[c].end \in Nat
      /\ conn[c].query.pred \in SUBSET Classes
  BY <1>2 DEF Query
<1>6. conn[c].start >= conn[c].end => to = "live"
  BY <1>5
<1> HIDE DEF to
<1>7. /\ k \in Connection /\ k.step = to /\ k.query = conn[c].query
      /\ k.start = conn[c].start /\ k.end = conn[c].end /\ k.id = nextId
      /\ k.joined = Len(log) /\ k.rows = {} /\ k.failed = FALSE
  BY <1>2, <1>3, <1>5 DEF Connection, ActiveSteps
<1> HIDE DEF k
<1>8. /\ queue'[nextId] = <<>> /\ filter'[nextId] = conn[c].query.pred
      /\ \A x \in Ids : x # nextId => queue'[x] = queue[x] /\ filter'[x] = filter[x]
  BY <1>1, <1>2 DEF SubType
<1>9. <<>> \in Seq(Nat) /\ Ascends(<<>>) /\ Len(<<>>) = 0
      /\ (\A n : Below(<<>>, n)) /\ \A n : ~Holds(<<>>, n)
  BY DEF Ascends, Below, Holds
<1>10. SubType'
  BY <1>1, <1>2, <1>5, <1>7, <1>9 DEF SubType
<1>11. \A d \in Conns : d # c /\ Active(d) =>
          conn[d].id \in Ids /\ conn[d].id < nextId /\ conn[d].id # nextId
  <2> SUFFICES ASSUME NEW d \in Conns, Active(d)
               PROVE  conn[d].id \in Ids /\ conn[d].id < nextId /\ conn[d].id # nextId
    OBVIOUS
  <2>1. conn[d].id \in Ids /\ conn[d].id < nextId
    BY <1>2, ConnFields DEF SubInv, OwnInv
  <2>2. QED
    BY <1>2, <2>1 DEF Ids
<1>12. Active(c)' /\ \A d \in Conns : d # c => (Active(d)' <=> Active(d))
  BY <1>3, <1>4, <1>7 DEF Active
<1>13. OwnInv'
  <2>1. \A x \in Nat : x < nextId => x < nextId'
    BY <1>1, <1>2
  <2>2. nextId < nextId'
    BY <1>1, <1>2
  <2>3. \A x \in registered' : x < nextId'
    BY <1>1, <1>2, <2>1, <2>2 DEF SubInv, OwnInv, SubType, Ids
  <2>4. \A d \in Conns : Active(d)' => /\ conn'[d].id < nextId'
                                       /\ filter'[conn'[d].id] = conn'[d].query.pred
    <3> SUFFICES ASSUME NEW d \in Conns, Active(d)'
                 PROVE  conn'[d].id < nextId' /\ filter'[conn'[d].id] = conn'[d].query.pred
      OBVIOUS
    <3>1. CASE d = c
      BY <1>4, <1>7, <1>8, <2>2, <3>1
    <3>2. CASE d # c
      <4>1. /\ Active(d) /\ conn'[d] = conn[d] /\ conn[d].id \in Ids
            /\ conn[d].id < nextId /\ conn[d].id # nextId
        BY <1>4, <1>11, <1>12, <3>2
      <4>2. conn[d].id < nextId'
        BY <2>1, <4>1 DEF Ids
      <4>3. filter'[conn[d].id] = conn[d].query.pred
        BY <1>8, <4>1 DEF SubInv, OwnInv
      <4>4. QED
        BY <4>1, <4>2, <4>3
    <3>3. QED
      BY <3>1, <3>2
  <2>5. \A d, e \in Conns : Active(d)' /\ Active(e)' /\ conn'[d].id = conn'[e].id => d = e
    BY <1>4, <1>7, <1>11, <1>12 DEF SubInv, OwnInv
  <2>6. QED
    BY <2>3, <2>4, <2>5 DEF OwnInv
<1>14. SnapshotInv'
  <2>1. \A d \in Conns : conn'[d].step # "ready" =>
            /\ conn[d].step # "ready"
            /\ conn'[d].start = conn[d].start /\ conn'[d].end = conn[d].end
    BY <1>1, <1>4, <1>7
  <2>2. QED
    BY <1>1, <2>1 DEF SubInv, SnapshotInv
<1>15. QueueInv'
  <2> SUFFICES ASSUME NEW x \in Ids
               PROVE  /\ Ascends(queue'[x]) /\ Below(queue'[x], Len(log))
                      /\ committer # "idle" => Below(queue'[x], offered[x])
    BY <1>1 DEF QueueInv, Ascends, Below
  <2>1. QED
    BY <1>8, <1>9 DEF SubInv, QueueInv
<1>16. sent'[c] = <<>> /\ queue'[conn'[c].id] = <<>>
  BY <1>1, <1>2, <1>4, <1>7, <1>8 DEF SubInv, OrderInv, Before
<1>17. Before(c)'
  BY <1>3, <1>4, <1>7, <1>9, <1>12, <1>16 DEF Before, Ascends, Below
<1>18. Covered(c)'
  <2> SUFFICES ASSUME Undisturbed(c)', NEW x \in 0..(Len(log) - 1)
               PROVE  Receives(c, x)' <=>
                        /\ ClassOf(x)' \in conn'[c].query.pred /\ x < Frontier(c)'
                        /\ conn'[c].step = "scan" => conn'[c].end <= x
    BY <1>1 DEF Covered
  <2>1. ~Receives(c, x)'
    BY <1>4, <1>7, <1>9, <1>16 DEF Receives
  <2>2. conn[c].end = Len(log) /\ conn[c].start = 0
    BY <1>4, <1>7 DEF Undisturbed
  <2>3. x \in Nat /\ x < conn[c].end
    BY <1>2, <2>2
  <2>4. to = "scan"
    BY <1>1, <1>5, <2>2, <2>3 DEF to
  <2>5. QED
    BY <1>4, <1>5, <1>7, <2>1, <2>3, <2>4
<1>19. \A d \in Conns : d # c => Before(d)' /\ Covered(d)'
  <2> SUFFICES ASSUME NEW d \in Conns, d # c
               PROVE  Before(d)' /\ Covered(d)'
    OBVIOUS
  <2>1. Active(d) => /\ queue'[conn[d].id] = queue[conn[d].id]
                     /\ conn[d].id \in registered' => conn[d].id \in registered
    BY <1>1, <1>8, <1>11
  <2>2. QED
    BY <1>1, <1>4, <2>1, OtherConns
<1>20. OrderInv' /\ CoverInv'
  BY <1>17, <1>18, <1>19 DEF OrderInv, CoverInv
<1>21. QED
  BY <1>10, <1>13, <1>14, <1>15, <1>20 DEF SubInv

-----------------------------------------------------------------------------
(* A batch is appended: dispatch starts where the log ended.               *)
LEMMA CommitInv ==
    ASSUME SubInv, NEW n \in 1..MaxBatch, NEW batch \in [1..n -> Classes], Commit(batch)
    PROVE  SubInv'
<1>1. PICK m, q : m = Len(log) /\ q = log'
  OBVIOUS
<1>2. /\ committer = "idle" /\ log' = log \o batch /\ committer' = "committed"
      /\ offered' = [id \in Ids |-> m]
      /\ UNCHANGED <<dead, nextId, registered, filter, queue, conn, sent, missed>>
  BY <1>1 DEF Commit, hubVars
<1>3. SubType /\ m \in Nat /\ log \in Seq(Classes)
  BY <1>1, LenProperties DEF SubInv, SubType
<1>4. n \in Nat \ {0} /\ batch \in Seq(Classes) /\ Len(batch) = n
  BY SubscriptionAssumption
<1>5. /\ q \in Seq(Classes) /\ Len(q) = m + n
      /\ \A x \in 0..(m - 1) : q[x + 1] = log[x + 1]
  <2>1. /\ log \o batch \in Seq(Classes) /\ Len(log \o batch) = Len(log) + Len(batch)
        /\ \A i \in 1..Len(log) : (log \o batch)[i] = log[i]
    BY <1>3, <1>4
  <2>2. \A x \in 0..(m - 1) : x + 1 \in 1..m
    BY <1>3
  <2>3. q = log \o batch
    BY <1>1, <1>2
  <2>4. QED
    BY <1>1, <1>4, <2>1, <2>2, <2>3
<1>6. Len(log') \in Nat /\ m < Len(log') /\ \A id \in Ids : offered'[id] = m
  BY <1>1, <1>2, <1>3, <1>4, <1>5
<1>7. ASSUME NEW o \in Seq(Nat), Below(o, m)
      PROVE  Below(o, Len(log'))
  <2>1. m <= Len(log')
    BY <1>3, <1>6
  <2>2. QED
    BY <1>3, <1>6, <1>7, <2>1, BelowMore
<1>8. SubType'
  BY <1>1, <1>2, <1>3, <1>5 DEF SubType
<1>9. OwnInv'
  BY <1>2 DEF SubInv, OwnInv, Active
<1>10. SnapshotInv'
  <2>1. \A c \in Conns : conn[c].step # "ready" =>
            conn[c].start <= conn[c].end /\ conn[c].end <= m /\ conn[c].end \in Nat
    <3>1. \A c \in Conns : conn[c].step # "ready" => conn[c].end \in Nat
      BY <1>3, ConnFields
    <3>2. QED
      BY <1>1, <3>1 DEF SubInv, SnapshotInv
  <2>2. \A x \in Nat : x <= m => x <= Len(log')
    BY <1>3, <1>6
  <2>3. m <= Len(log')
    BY <1>3, <1>6
  <2>4. QED
    BY <1>2, <1>6, <2>1, <2>2, <2>3 DEF SnapshotInv
<1>11. \A id \in Ids : queue[id] \in Seq(Nat) /\ Below(queue[id], m) /\ Ascends(queue[id])
  BY <1>1, <1>3 DEF SubInv, SubType, QueueInv
<1>12. QueueInv'
  <2> SUFFICES ASSUME NEW id \in Ids
               PROVE  /\ Ascends(queue[id]) /\ Below(queue[id], Len(log'))
                      /\ Below(queue[id], offered'[id])
    BY <1>2 DEF QueueInv, Ascends, Below
  <2>1. QED
    BY <1>6, <1>7, <1>11
<1>13. ASSUME NEW c \in Conns
       PROVE  Before(c)' /\ Covered(c)'
  <2>1. /\ Before(c) /\ Covered(c) /\ sent[c] \in Seq(Nat) /\ Below(sent[c], m)
        /\ Active(c) => conn[c].id \in Ids /\ conn[c].end \in Nat /\ conn[c].end <= m
                        /\ conn[c].rows \in SUBSET Nat
    <3>1. Active(c) => conn[c].step # "ready"
      BY DEF Active
    <3>2. QED
      BY <1>1, <1>3, <3>1, ConnFields DEF SubInv, OrderInv, CoverInv, Before, SnapshotInv
  <2>2. Active(c)' <=> Active(c)
    BY <1>2 DEF Active
  <2>3. Below(sent[c], Len(log')) /\ (Active(c) => Below(sent[c], offered'[conn[c].id]))
    BY <1>6, <1>7, <2>1
  <2>4. Before(c)'
    BY <1>2, <2>1, <2>2, <2>3 DEF Before, Ascends, Below
  <2>5. Covered(c)'
    <3> SUFFICES ASSUME Undisturbed(c)', NEW x \in 0..(Len(log') - 1)
                 PROVE  Receives(c, x)' <=>
                          /\ ClassOf(x)' \in conn'[c].query.pred /\ x < Frontier(c)'
                          /\ conn'[c].step = "scan" => conn'[c].end <= x
      BY DEF Covered
    <3>1. Undisturbed(c) /\ Active(c) /\ x \in Nat
      BY <1>2, <1>6, <2>2 DEF Undisturbed
    <3>2. Frontier(c)' = m /\ Frontier(c) = m
      BY <1>1, <1>2, <1>6, <2>1, <3>1 DEF Frontier
    <3>3. Receives(c, x)' <=> Receives(c, x)
      BY <1>2 DEF Receives, Holds
    <3>4. CASE x < m
      <4>1. x \in 0..(m - 1)
        BY <1>3, <3>1, <3>4
      <4>2. ClassOf(x)' = ClassOf(x)
        BY <1>1, <1>5, <4>1 DEF ClassOf
      <4>3. QED
        BY <1>1, <1>2, <2>1, <3>1, <3>2, <3>3, <4>1, <4>2 DEF Covered
    <3>5. CASE ~(x < m)
      <4>1. ASSUME NEW o \in Seq(Nat), Below(o, m)
            PROVE  ~Holds(o, x)
        BY <3>5, <4>1 DEF Holds, Below
      <4>2. \A s \in conn[c].rows : s < m
        <5> SUFFICES ASSUME NEW s \in conn[c].rows
                     PROVE  s < m
          OBVIOUS
        <5>1. s < conn[c].end /\ s \in Nat
          BY <2>1, <3>1 DEF Before
        <5>2. QED
          BY <1>3, <2>1, <3>1, <5>1
      <4>3. ~Receives(c, x)
        BY <1>11, <2>1, <3>1, <3>5, <4>1, <4>2 DEF Receives
      <4>4. QED
        BY <3>2, <3>3, <3>5, <4>3
    <3>6. QED
      BY <3>4, <3>5
  <2>6. QED
    BY <2>4, <2>5
<1>14. OrderInv' /\ CoverInv'
  BY <1>13 DEF OrderInv, CoverInv
<1>15. QED
  BY <1>8, <1>9, <1>10, <1>12, <1>14 DEF SubInv

(* An event is offered to a subscriber: it goes into the channel, or the   *)
(* channel is full, or its receiver is gone.                               *)
LEMMA DispatchEventInv ==
    ASSUME SubInv, NEW id \in Ids, DispatchEvent(id)
    PROVE  SubInv'
<1> DEFINE matches == ClassOf(offered[id]) \in filter[id]
           gone == matches /\ Disconnected(id)
<1>1. PICK s, r, m, next :
        /\ s = offered[id] /\ r = queue[id] /\ m = Len(log)
        /\ next = IF gone THEN m ELSE s + 1
  OBVIOUS
<1>2. /\ committer = "dispatching" /\ id \in registered /\ s < m
      /\ offered' = [offered EXCEPT ![id] = next]
      /\ queue' = IF matches /\ ~gone /\ HasRoom(id)
                  THEN [queue EXCEPT ![id] = Append(r, s)] ELSE queue
      /\ missed' = IF matches /\ ~gone /\ ~HasRoom(id)
                   THEN [missed EXCEPT ![id] = @ \union {s}] ELSE missed
      /\ UNCHANGED <<log, committer, nextId, registered, filter, conn, sent>>
      /\ dead' \in {dead, dead \union {id}}
  BY <1>1 DEF DispatchEvent
<1> HIDE DEF matches, gone
<1>3. SubType /\ s \in Nat /\ m \in Nat /\ r \in Seq(Nat)
  BY <1>1, LenProperties DEF SubInv, SubType
<1>4. next \in Nat /\ s <= next /\ next <= m /\ s + 1 <= m
  BY <1>1, <1>2, <1>3
<1>5. ~gone => next = s + 1
  BY <1>1
<1>6. Ascends(r) /\ Below(r, s) /\ Below(r, m)
  BY <1>1, <1>2 DEF SubInv, QueueInv
<1>7. /\ Append(r, s) \in Seq(Nat) /\ Ascends(Append(r, s))
      /\ \A n \in Nat : Below(Append(r, s), n) <=> Below(r, n) /\ s < n
      /\ \A x : Holds(Append(r, s), x) <=> Holds(r, x) \/ x = s
  BY <1>3, <1>6, AppendAscends
<1>8. /\ offered'[id] = next
      /\ queue'[id] = IF matches /\ ~gone /\ HasRoom(id) THEN Append(r, s) ELSE r
      /\ \A x \in Ids : x # id => /\ offered'[x] = offered[x] /\ queue'[x] = queue[x]
                                 /\ missed'[x] = missed[x]
  BY <1>1, <1>2, <1>3 DEF SubType
<1>9. missed'[id] = {} => missed[id] = {} /\ (matches /\ ~gone => HasRoom(id))
  BY <1>2, <1>3 DEF SubType
<1>10. ASSUME NEW c \in Conns, Active(c), conn[c].id = id
       PROVE  ~gone
  BY <1>10 DEF gone, Disconnected, HasReceiver, Listening, Active
<1>11. SubType'
  <2>1. offered' \in [Ids -> Nat] /\ queue' \in [Ids -> Seq(Nat)]
    BY <1>2, <1>3, <1>4, <1>7 DEF SubType
  <2>2. missed' \in [Ids -> SUBSET Nat] /\ dead' \in SUBSET Ids
    BY <1>2, <1>3 DEF SubType
  <2>3. QED
    BY <1>2, <1>3, <2>1, <2>2 DEF SubType
<1>12. OwnInv'
  BY <1>2 DEF SubInv, OwnInv, Active
<1>13. SnapshotInv'
  <2>1. ASSUME NEW c \in Conns, conn[c].step # "ready", NEW x \in Ids
        PROVE  conn[c].end <= offered'[x]
    <3>1. conn[c].end \in Nat /\ conn[c].end <= offered[x] /\ conn[c].end <= s
      BY <1>1, <1>2, <1>3, <2>1, ConnFields DEF SubInv, SnapshotInv
    <3>2. conn[c].end <= next
      BY <1>3, <1>4, <3>1
    <3>3. QED
      BY <1>8, <3>1, <3>2
  <2>2. \A x \in Ids : offered'[x] <= m
    BY <1>1, <1>2, <1>4, <1>8 DEF SubInv, SnapshotInv
  <2>3. \A c \in Conns : conn[c].step # "ready" =>
            conn[c].start <= conn[c].end /\ conn[c].end <= m
    BY <1>1 DEF SubInv, SnapshotInv
  <2>4. QED
    BY <1>1, <1>2, <2>1, <2>2, <2>3 DEF SnapshotInv
<1>14. Below(r, next)
  BY <1>3, <1>4, <1>6, BelowMore
<1>15. QueueInv'
  <2> SUFFICES ASSUME NEW x \in Ids
               PROVE  Ascends(queue'[x]) /\ Below(queue'[x], m) /\ Below(queue'[x], offered'[x])
    BY <1>1, <1>2 DEF QueueInv, Ascends, Below
  <2>1. CASE x # id
    BY <1>1, <1>2, <1>8, <2>1 DEF SubInv, QueueInv
  <2>2. CASE x = id /\ matches /\ ~gone /\ HasRoom(id)
    <3>1. s < m /\ s < next
      BY <1>2, <1>3, <1>5, <2>2
    <3>2. queue'[x] = Append(r, s) /\ offered'[x] = next
      BY <1>8, <2>2
    <3>3. QED
      BY <1>3, <1>4, <1>6, <1>7, <1>14, <3>1, <3>2
  <2>3. CASE x = id /\ ~(matches /\ ~gone /\ HasRoom(id))
    BY <1>6, <1>8, <1>14, <2>3
  <2>4. QED
    BY <2>1, <2>2, <2>3
<1>16. ASSUME NEW c \in Conns, ~(Active(c) /\ conn[c].id = id)
       PROVE  Before(c)' /\ Covered(c)'
  <2>1. Active(c) => /\ offered'[conn[c].id] = offered[conn[c].id]
                     /\ queue'[conn[c].id] = queue[conn[c].id]
                     /\ missed'[conn[c].id] = missed[conn[c].id]
    BY <1>3, <1>8, <1>16, ConnFields
  <2>2. QED
    BY <1>2, <2>1, OtherConns
<1>17. ASSUME NEW c \in Conns, Active(c), conn[c].id = id
       PROVE  Before(c)' /\ Covered(c)'
  <2>1. /\ Before(c) /\ Covered(c) /\ ~gone /\ next = s + 1
        /\ conn[c].end \in Nat /\ sent[c] \in Seq(Nat)
    BY <1>3, <1>5, <1>10, <1>17, ConnFields DEF SubInv, OrderInv, CoverInv
  <2>2. conn[c].end <= s
    BY <1>1, <1>2, <1>17 DEF SubInv, SnapshotInv, Active
  <2>3. filter[id] = conn[c].query.pred
    BY <1>17 DEF SubInv, OwnInv
  <2>4. Active(c)' /\ conn'[c] = conn[c] /\ sent'[c] = sent[c]
    BY <1>2, <1>17 DEF Active
  <2>5. Below(sent[c], s)
    BY <1>1, <1>2, <1>17, <2>1 DEF Before
  <2>6. Below(sent[c], next)
    BY <1>3, <1>4, <2>1, <2>5, BelowMore
  <2>7. \A j \in 1..Len(queue'[id]) :
            conn[c].end <= queue'[id][j] /\ Below(sent[c], queue'[id][j])
    <3> SUFFICES ASSUME NEW j \in 1..Len(queue'[id])
                 PROVE  conn[c].end <= queue'[id][j] /\ Below(sent[c], queue'[id][j])
      OBVIOUS
    <3>1. queue'[id] = r \/ queue'[id] = Append(r, s)
      BY <1>8
    <3>2. \A i \in 1..Len(r) : conn[c].end <= r[i] /\ Below(sent[c], r[i])
      BY <1>1, <1>17, <2>1 DEF Before
    <3>3. \A i \in 1..Len(Append(r, s)) :
              (i \in 1..Len(r) /\ Append(r, s)[i] = r[i]) \/ Append(r, s)[i] = s
      BY <1>3
    <3>4. queue'[id][j] = s \/ \E i \in 1..Len(r) : queue'[id][j] = r[i]
      BY <3>1, <3>3
    <3>5. QED
      BY <2>2, <2>5, <3>2, <3>4
  <2>8. Before(c)'
    <3>1. Ascends(sent[c]) /\ Below(sent[c], m)
      BY <1>1, <2>1 DEF Before
    <3>2. /\ conn[c].step = "scan" => sent[c] = <<>> /\ conn[c].rows = {}
          /\ conn[c].step \in {"live", "poll"} => conn[c].rows = {}
          /\ conn[c].step = "replay" => Below(sent[c], conn[c].end)
          /\ \A x \in conn[c].rows : x < conn[c].end /\ Below(sent[c], x)
      BY <1>17, <2>1 DEF Before
    <3>3. /\ queue'[conn'[c].id] = queue'[id] /\ offered'[conn'[c].id] = next
          /\ Len(log') = m
      BY <1>1, <1>2, <1>8, <1>17, <2>4
    <3>4. QED
      BY <2>4, <2>6, <2>7, <3>1, <3>2, <3>3 DEF Before
  <2>9. Covered(c)'
    <3> SUFFICES ASSUME Undisturbed(c)', NEW x \in 0..(m - 1)
                 PROVE  Receives(c, x)' <=>
                          /\ ClassOf(x)' \in conn'[c].query.pred /\ x < Frontier(c)'
                          /\ conn'[c].step = "scan" => conn'[c].end <= x
      BY <1>1, <1>2 DEF Covered
    <3>1. missed'[id] = {}
      BY <1>17, <2>4 DEF Undisturbed
    <3>2. Undisturbed(c) /\ (matches => HasRoom(id))
      BY <1>2, <1>9, <1>17, <2>1, <2>4, <3>1 DEF Undisturbed
    <3>3. Frontier(c) = s /\ Frontier(c)' = s + 1
      BY <1>1, <1>2, <1>8, <1>17, <2>1, <2>4 DEF Frontier
    <3>4. Receives(c, x)' <=> Receives(c, x) \/ (matches /\ x = s)
      <4>1. Holds(queue'[id], x) <=> Holds(r, x) \/ (matches /\ x = s)
        BY <1>7, <1>8, <2>1, <3>2
      <4>2. queue'[conn'[c].id] = queue'[id] /\ queue[conn[c].id] = r
        BY <1>1, <1>17, <2>4
      <4>3. QED
        BY <2>4, <4>1, <4>2 DEF Receives
    <3>5. ClassOf(x)' = ClassOf(x)
      BY <1>2 DEF ClassOf
    <3>6. Receives(c, x) <=> /\ ClassOf(x) \in conn[c].query.pred /\ x < s
                             /\ conn[c].step = "scan" => conn[c].end <= x
      BY <1>1, <2>1, <3>2, <3>3 DEF Covered
    <3>7. matches <=> ClassOf(s) \in conn[c].query.pred
      BY <1>1, <2>3 DEF matches
    <3>8. x < s + 1 <=> x < s \/ x = s
      BY <1>3
    <3>9. QED
      BY <2>2, <2>4, <3>3, <3>4, <3>5, <3>6, <3>7, <3>8
  <2>10. QED
    BY <2>8, <2>9
<1>18. OrderInv' /\ CoverInv'
  BY <1>16, <1>17 DEF OrderInv, CoverInv
<1>19. QED
  BY <1>11, <1>12, <1>13, <1>15, <1>18 DEF SubInv

-----------------------------------------------------------------------------
LEMMA SubInit ==
    ASSUME Init
    PROVE  SubInv
<1> USE DEF Init
<1>1. <<>> \in Seq(Nat) /\ <<>> \in Seq(Classes) /\ Ascends(<<>>) /\ \A n : Below(<<>>, n)
  BY DEF Ascends, Below
<1>2. Ready \in Connection /\ Ready.step = "ready" /\ \A c \in Conns : ~Active(c)
  BY DEF Ready, Connection, Active
<1>3. SubType
  BY <1>1, <1>2 DEF SubType
<1>4. OwnInv /\ SnapshotInv /\ QueueInv
  BY <1>1, <1>2 DEF OwnInv, SnapshotInv, QueueInv
<1>5. OrderInv /\ CoverInv
  BY <1>1, <1>2 DEF OrderInv, Before, CoverInv, Covered, Undisturbed
<1>6. QED
  BY <1>3, <1>4, <1>5 DEF SubInv

LEMMA SubStutter ==
    ASSUME SubInv, UNCHANGED vars
    PROVE  SubInv'
<1>1. UNCHANGED <<log, committer, offered, dead, nextId, registered, filter, queue>>
      /\ UNCHANGED <<conn, sent, missed>>
  BY DEF vars
<1>2. SubType' /\ OwnInv' /\ SnapshotInv' /\ QueueInv'
  BY <1>1 DEF SubInv, SubType, OwnInv, Active, SnapshotInv, QueueInv, Below, Ascends
<1>3. OrderInv' /\ CoverInv'
  BY <1>1, OtherConns DEF OrderInv, CoverInv
<1>4. QED
  BY <1>2, <1>3 DEF SubInv

LEMMA SubStep ==
    ASSUME SubInv, [Next]_vars
    PROVE  SubInv'
<1>1. CASE \E n \in 1..MaxBatch : \E batch \in [1..n -> Classes] : Commit(batch)
  BY <1>1, CommitInv
<1>2. CASE Dispatch
  BY <1>2, DispatchBeginInv, DispatchEventInv, DispatchEndInv, RemoveDeadInv DEF Dispatch
<1>3. ASSUME NEW c \in Conns, Serve(c)
      PROVE  SubInv'
  BY <1>3, RegisterInv, ScanInv, SendRowInv, NextStepInv, DrainInv DEF Serve
<1>4. ASSUME NEW c \in Conns, Client(c)
      PROVE  SubInv'
  BY <1>4, SubscribeInv, UnsubscribeInv, UnsubscribeIdleInv, SendFailsInv, ScanFailsInv
     DEF Client
<1>5. CASE UNCHANGED vars
  BY <1>5, SubStutter
<1>6. QED
  BY <1>1, <1>2, <1>3, <1>4, <1>5 DEF Next

(* The hub's and the connections' state is well formed: a channel has one  *)
(* owner, dispatch offers nothing that is inside a snapshot, and what a    *)
(* connection sent precedes its rows, its channel and the next dispatch.   *)
THEOREM SubscriptionInvariant == Spec => []SubInv
<1>1. Init => SubInv
  BY SubInit
<1>2. SubInv /\ [Next]_vars => SubInv'
  BY SubStep
<1>3. QED
  BY <1>1, <1>2, PTL DEF Spec

(* A client receives committed events only, each once and in sequence      *)
(* order, whatever appends run between the snapshot, register and the      *)
(* scan, and however the channel overflows.                                *)
THEOREM SubscriptionInOrderOnce == Spec => []InOrderOnce
<1>1. SubInv => InOrderOnce
  <2> SUFFICES ASSUME SubInv, NEW c \in Conns
               PROVE  /\ \A i, j \in DOMAIN sent[c] : i < j => sent[c][i] < sent[c][j]
                      /\ \A i \in DOMAIN sent[c] : sent[c][i] < Len(log)
    BY DEF InOrderOnce
  <2>1. DOMAIN sent[c] = 1..Len(sent[c])
    BY DEF SubInv, SubType
  <2>2. Ascends(sent[c]) /\ Below(sent[c], Len(log))
    BY DEF SubInv, OrderInv, Before
  <2>3. QED
    BY <2>1, <2>2 DEF Ascends, Below
<1>2. QED
  BY <1>1, SubscriptionInvariant, PTL

(* A caught-up client that nothing disturbed has received exactly the      *)
(* events its query selects: replay and live delivery meet without a gap.  *)
THEOREM SubscriptionComplete == Spec => []CompleteWhenUndisturbed
<1>1. SubInv => CompleteWhenUndisturbed
  <2> SUFFICES ASSUME SubInv, NEW c \in Conns,
                      conn[c].step = "poll", committer = "idle",
                      queue[conn[c].id] = <<>>, conn[c].id \in registered,
                      missed[conn[c].id] = {}, conn[c].joined = conn[c].end,
                      conn[c].start = 0, ~conn[c].failed, conn[c].query.scan = Classes,
                      NEW s \in 0..(Len(log) - 1)
               PROVE  (\E i \in DOMAIN sent[c] : sent[c][i] = s) <=> Wanted(c, s)
    BY DEF CompleteWhenUndisturbed
  <2>1. Active(c) /\ Undisturbed(c)
    BY DEF Undisturbed, Active
  <2>2. /\ SubType /\ Covered(c) /\ conn[c].rows = {} /\ Len(log) \in Nat
        /\ DOMAIN sent[c] = 1..Len(sent[c])
    BY <2>1, ConnFields DEF SubInv, OrderInv, Before, CoverInv
  <2>3. Receives(c, s) <=> ClassOf(s) \in conn[c].query.pred /\ s < Frontier(c)
    BY <2>1, <2>2 DEF Covered
  <2>4. s < Frontier(c)
    BY <2>2 DEF Frontier
  <2>5. ~Holds(<<>>, s)
    BY DEF Holds
  <2>6. Receives(c, s) <=> Holds(sent[c], s)
    BY <2>2, <2>5 DEF Receives
  <2>7. ClassOf(s) \in Classes
    BY <2>2, ElementOfSeq DEF ClassOf, SubType
  <2>8. QED
    BY <2>2, <2>3, <2>4, <2>6, <2>7 DEF Holds, Wanted
<1>2. QED
  BY <1>1, SubscriptionInvariant, PTL

==============================================================================
