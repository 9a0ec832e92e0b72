------------------------------- MODULE Causal -------------------------------
(***************************************************************************)
(* The causal graph of events (crates/temnion-causal): registration with   *)
(* its cycle check, traces in both directions, the topological sort as the *)
(* loop it is, and the packed CSR form.  An event is its rank in the order *)
(* of EventIds.                                                            *)
(***************************************************************************)
EXTENDS Integers, Sequences, FiniteSets, SequencesExt, HistoryFilter

CONSTANTS
    MaxEvent,       \* bound: events are 1..MaxEvent
    Reregister      \* whether a caller registers an event a second time

ASSUME CausalAssumption == MaxEvent \in Nat

VARIABLES
    causes,         \* event -> its direct causes, sorted
    effects,        \* event -> its direct effects, as they were registered
    sorting,        \* a topological_sort that is running
    sorted          \* the answer of the last one

causalVars == <<causes, effects, sorting, sorted>>

EventIds == 1..MaxEvent
CausalInit == causes = <<>> /\ effects = <<>> /\ sorting = None /\ sorted = None

Neighbours(index, e) == IF e \in DOMAIN index THEN index[e] ELSE <<>>

(* The events within n edges of root, against the edges or along them.     *)
Within(index, root, n) ==
    LET Seen[d \in 0..n] ==
            IF d = 0 THEN {root}
            ELSE Seen[d - 1] \union UNION {Range(Neighbours(index, x)) : x \in Seen[d - 1]}
    IN  Seen[n]

(* trace_causes, trace_effects: the depths of a breadth first search.      *)
Trace(index, root, depth) ==
    LET seen == [d \in 0..depth |-> Within(index, root, d)]
    IN  [e \in seen[depth] |-> CHOOSE d \in 0..depth :
            e \in seen[d] /\ (d > 0 => e \notin seen[d - 1])]

(* is_ancestor_of: the search visits the least set that has e and, with an *)
(* event, its causes.                                                      *)
IsAncestorOf(ancestor, e) ==
    \A visited \in SUBSET EventIds :
        e \in visited /\ (\A x \in visited : Range(Neighbours(causes, x)) \subseteq visited)
            => ancestor \in visited

(* Mutant: an effect is noted for causes that are registered only.         *)
Effects_OfRegistered(event, from) ==
    [e \in DOMAIN effects \union {event} |->
        IF e \in from /\ e \in DOMAIN causes THEN Append(Neighbours(effects, e), event)
        ELSE Neighbours(effects, e)]

EffectsWith(event, from) ==
    [e \in DOMAIN effects \union from \union {event} |->
        IF e \in from /\ ~Contains(Neighbours(effects, e), event)
        THEN Append(Neighbours(effects, e), event)
        ELSE Neighbours(effects, e)]

(* add_event.  A second registration replaces the causes of an event, and  *)
(* leaves the effects noted by the first one where they are.               *)
AddEvent(event, from) ==
    /\ sorting = None
    /\ Reregister \/ event \notin DOMAIN causes
    /\ \A c \in from : ~IsAncestorOf(event, c)
    /\ effects' = EffectsWith(event, from)
    /\ causes' = Put(causes, event, Ranked(from))
    /\ sorted' = None
    /\ UNCHANGED sorting

-----------------------------------------------------------------------------
(* Mutant: causes that were never registered have no entry of their own.   *)
InDegrees_Registered == [e \in DOMAIN causes |-> Len(causes[e])]

InDegrees ==
    [e \in DOMAIN causes \union UNION {Range(causes[x]) : x \in DOMAIN causes} |->
        Len(Neighbours(causes, e))]

SortStart ==
    /\ sorting = None /\ sorted = None
    /\ sorting' = Some([degree |-> InDegrees, order |-> <<>>, releasing |-> <<>>,
            queue |-> Ranked({e \in DOMAIN InDegrees : InDegrees[e] = 0})])
    /\ UNCHANGED <<causes, effects, sorted>>

(* One turn of the loop.  The order is cut off one entry past its final    *)
(* length, where it can only be an error.                                  *)
SortTurn ==
    \E s \in sorting :
        /\ s.queue # <<>> /\ s.releasing = <<>>
        /\ sorting' = Some([s EXCEPT
              !.queue = Tail(@),
              !.order = IF Len(@) > Cardinality(DOMAIN s.degree) THEN @ ELSE Append(@, Head(s.queue)),
              !.releasing = Neighbours(effects, Head(s.queue))])
        /\ UNCHANGED <<causes, effects, sorted>>

(* One turn of the loop in it, over the effects of the event: the degree   *)
(* goes down, not below zero, and at zero the effect is queued.            *)
SortRelease ==
    \E s \in sorting :
        /\ s.releasing # <<>>
        /\ LET v == Head(s.releasing)
               known == v \in DOMAIN s.degree
               d == IF s.degree[v] = 0 THEN 0 ELSE s.degree[v] - 1
           IN  sorting' = Some([s EXCEPT
                  !.releasing = Tail(@),
                  !.degree = IF known THEN [@ EXCEPT ![v] = d] ELSE @,
                  !.queue = IF known /\ d = 0 THEN Append(@, v) ELSE @])
        /\ UNCHANGED <<causes, effects, sorted>>

SortEnd ==
    \E s \in sorting :
        /\ s.queue = <<>> /\ s.releasing = <<>>
        /\ sorting' = None
        /\ sorted' = Some([ok |-> Len(s.order) = Cardinality(DOMAIN s.degree),
                           order |-> s.order])
        /\ UNCHANGED <<causes, effects>>

CausalNext ==
    \/ \E event \in EventIds : \E from \in SUBSET EventIds : AddEvent(event, from)
    \/ SortStart \/ SortTurn \/ SortRelease \/ SortEnd

-----------------------------------------------------------------------------
(* CausalGraph::to_csr and the accessors of CsrCausalGraph.  Offsets[i] is *)
(* where the neighbours of the i-th event start.                           *)
PackedEvents == Ranked(DOMAIN causes \union DOMAIN effects)

(* event_to_idx *)
PackedIndex(e) == {i \in DOMAIN PackedEvents : PackedEvents[i] = e}

(* What the loop over the neighbours of an event pushes.                   *)
PackedRow(index, e) ==
    LET next == Neighbours(index, e)
        Row[k \in 0..Len(next)] ==
            IF k = 0 THEN <<>>
            ELSE IF PackedIndex(next[k]) = None THEN Row[k - 1]
            ELSE Append(Row[k - 1], Unwrap(PackedIndex(next[k])))
    IN  Row[Len(next)]

Packed(index) ==
    LET Rows[i \in 0..Len(PackedEvents)] ==
            IF i = 0 THEN <<>> ELSE Rows[i - 1] \o PackedRow(index, PackedEvents[i])
    IN  [indices |-> Rows[Len(PackedEvents)],
         offsets |-> [i \in 1..Len(PackedEvents) + 1 |-> Len(Rows[i - 1])]]

PackedNeighbours(csr, i) == SubSeq(csr.indices, csr.offsets[i] + 1, csr.offsets[i + 1])

-----------------------------------------------------------------------------
(* The two indexes of the graph tell one story, in whatever order causes   *)
(* and effects were registered: e is traced as an effect of c at a depth   *)
(* exactly when c is traced as a cause of e at that depth, and the packed  *)
(* form has the same neighbours (add_event, trace_*, to_csr).              *)
CausesAndEffectsAgree ==
    /\ \A c, e \in Range(PackedEvents) :
          LET down == Trace(effects, c, MaxEvent)
              up == Trace(causes, e, MaxEvent)
          IN  /\ e \in DOMAIN down <=> c \in DOMAIN up
              /\ e \in DOMAIN down => down[e] = up[c]
    /\ \A index \in {causes, effects} :
          LET csr == Packed(index) IN
          \A i \in DOMAIN PackedEvents :
          LET row == PackedNeighbours(csr, i) IN
          [j \in DOMAIN row |-> PackedEvents[row[j]]] = Neighbours(index, PackedEvents[i])

(* With every event registered once, topological_sort answers, and lists   *)
(* every event of the graph once and after all of its causes.              *)
SortIsTopological ==
    \A s \in sorted :
        /\ s.ok
        /\ Range(s.order) = DOMAIN InDegrees
        /\ \A i, j \in DOMAIN s.order :
              s.order[i] \in Range(Neighbours(causes, s.order[j])) => i < j
=============================================================================
