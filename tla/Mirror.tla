------------------------------- MODULE Mirror -------------------------------
(***************************************************************************)
(* The Tzeentch adapter (crates/temnion-adapter/src/lib.rs, M39 and M40):  *)
(* the cadence clocks, the records they stamp, the bounded queue they are  *)
(* mirrored through and the tracer that reads them back.  An event is      *)
(* named by its sequence, from 1.                                          *)
(***************************************************************************)
EXTENDS Integers, Sequences, SequencesExt, HistoryFilter

CONSTANTS
    Cadences,       \* CadenceTier
    Stamped,        \* the records a caller converts, with the known_clock it passes
    Modes,          \* the MigrationModes it sets
    MirrorCapacity,
    MaxTick,        \* bound: ticks of one cadence
    MaxEnqueued     \* bound: events the queue accepts

VARIABLES
    ticks,          \* CadenceScheduler: cadence -> its counter
    mode,           \* MigrationMode
    mirror,         \* MirrorWriter::buffer
    stats,          \* MirrorStats
    mirrored,       \* the events of the store behind it
    accepted,       \* history: every event enqueue put into the queue
    fate            \* history: of each one drained, its sequence in the store,
                    \* or 0 when the drain answered an error

mirrorVars == <<ticks, mode, mirror, stats, mirrored, accepted, fate>>

MirrorInit ==
    /\ ticks = [c \in Cadences |-> 0]
    /\ mode = "ShadowMirror"
    /\ mirror = <<>>
    /\ stats = [enqueued |-> 0, drained |-> 0, backpressure |-> 0]
    /\ mirrored = <<>> /\ accepted = <<>> /\ fate = <<>>

(* CadenceScheduler::tick: every cadence counts for itself.                *)
TickCadence(cadence) ==
    /\ ticks[cadence] < MaxTick
    /\ ticks' = [ticks EXCEPT ![cadence] = @ + 1]
    /\ UNCHANGED <<mode, mirror, stats, mirrored, accepted, fate>>

(* TzeentchConverter: a percept has no causes, an outcome the one action   *)
(* it is of, and what is decided rather than seen has no observed time.    *)
Converted(record, clock, at, causedBy) ==
    [schema |-> record,
     known |-> <<clock, at>>,
     observed |-> record \in {"Percept", "Outcome"},
     from |-> IF record = "Percept" THEN {} ELSE causedBy]

-----------------------------------------------------------------------------
(* enqueue.  LegacyOnly answers Ok and keeps nothing.                      *)
Enqueue(event) ==
    /\ IF mode = "LegacyOnly" THEN UNCHANGED <<mirror, stats, accepted>>
       ELSE IF Len(mirror) >= MirrorCapacity
       THEN /\ stats.backpressure = 0   \* bound: one refusal is counted
            /\ stats' = [stats EXCEPT !.backpressure = @ + 1]
            /\ UNCHANGED <<mirror, accepted>>
       ELSE /\ Len(accepted) < MaxEnqueued
            /\ mirror' = Append(mirror, event)
            /\ stats' = [stats EXCEPT !.enqueued = @ + 1]
            /\ accepted' = Append(accepted, event)
    /\ UNCHANGED <<ticks, mode, mirrored, fate>>

(* Mutant: known times may go back.                                        *)
Storable_AnyOrder(before, event) ==
    /\ before # <<>> => Last(before).known[1] = event.known[1]
    /\ \A c \in event.from : c <= Len(before)

(* validate_record of the store, after the records before it.              *)
Storable(before, event) ==
    /\ before # <<>> =>
          /\ Last(before).known[1] = event.known[1]
          /\ Last(before).known[2] <= event.known[2]
    /\ \A c \in event.from : c <= Len(before)

(* Mutant: the queue is cleared only when the append succeeds.             *)
Drain_Keeps ==
    LET n == Len(mirrored)
        after == mirrored \o mirror
        ok == \A i \in n + 1..Len(after) : Storable(SubSeq(after, 1, i - 1), after[i])
    IN  /\ mirror # <<>>
        /\ mirror' = IF ok THEN <<>> ELSE mirror
        /\ mirrored' = IF ok THEN after ELSE mirrored
        /\ stats' = [stats EXCEPT !.drained = @ + Len(mirror)]
        /\ fate' = fate \o [i \in DOMAIN mirror |-> IF ok THEN n + i ELSE 0]
        /\ UNCHANGED <<ticks, mode, accepted>>

(* drain_to_store.  The queue is emptied into one batch before the store   *)
(* sees it: one record it refuses fails them all, and none comes back.     *)
DrainToStore ==
    LET n == Len(mirrored)
        after == mirrored \o mirror
        ok == \A i \in n + 1..Len(after) : Storable(SubSeq(after, 1, i - 1), after[i])
    IN  /\ mirror # <<>>
        /\ mirror' = <<>>
        /\ mirrored' = IF ok THEN after ELSE mirrored
        /\ stats' = IF ok THEN [stats EXCEPT !.drained = @ + Len(mirror)] ELSE stats
        /\ fate' = fate \o [i \in DOMAIN mirror |-> IF ok THEN n + i ELSE 0]
        /\ UNCHANGED <<ticks, mode, accepted>>

SetMode(to) ==
    /\ mode' = to
    /\ UNCHANGED <<ticks, mirror, stats, mirrored, accepted, fate>>

(* A caller stamps a record with the counter of a cadence; its causes are  *)
(* events it knows of, queued ones by the sequence they will have.         *)
MirrorNext ==
    \/ \E cadence \in Cadences : TickCadence(cadence)
    \/ \E stamped \in Stamped, cadence \in Cadences :
       \E causedBy \in {{}} \union {{s} : s \in 1..Len(mirrored) + Len(mirror)} :
            /\ stamped[1] = "Outcome" => causedBy # {}
            /\ ticks[cadence] > 0
            /\ Enqueue(Converted(stamped[1], stamped[2], ticks[cadence], causedBy))
    \/ DrainToStore
    \/ \E to \in Modes : SetMode(to)

-----------------------------------------------------------------------------
(* trace_causes: an event and its causes, up to a depth.                   *)
Lineage(events, s, depth) ==
    LET Of[d \in 0..depth] ==
            IF d = 0 THEN {s}
            ELSE LET nearer == Of[d - 1]
                 IN  nearer \union UNION {events[e].from : e \in nearer}
    IN  Of[depth]

(* TzeentchActionTracer::trace_action.                                     *)
TraceDepth == 32

Node(step, of) == [step |-> step, of |-> of]
Gap(step, missing) == IF missing THEN <<Node("SourceGap", step)>> ELSE <<>>

(* The nodes of a trace: what was perceived and intended before it, or a   *)
(* gap for what was not, the action, and what came of it.                  *)
TraceNodes(events, s, lineage) ==
    LET told == Ranked({e \in lineage : events[e].schema \notin {"Action", "Outcome"}})
        outcomes == Ranked({e \in DOMAIN events :
                        events[e].schema = "Outcome" /\ s \in events[e].from})
        Has(record) == \E e \in lineage : events[e].schema = record
    IN  [i \in DOMAIN told |-> Node(events[told[i]].schema, told[i])]
        \o Gap("Perception", ~Has("Percept"))
        \o Gap("IntentionSelection", ~Has("Intention"))
        \o <<Node("Action", s)>>
        \o [i \in DOMAIN outcomes |-> Node("Outcome", outcomes[i])]

TraceAction(events, s) ==
    LET lineage == Lineage(events, s, TraceDepth)
        error ==
            IF s \notin DOMAIN events \/ events[s].schema # "Action" THEN Some("ActionNotFound")
            ELSE IF \E e \in lineage : events[e].known[2] > events[s].known[2]
            THEN Some("FutureKnowledgeLeakage") ELSE None
    IN  IF error # None THEN [error |-> error]
        ELSE [error |-> None,
              nodes |-> TraceNodes(events, s, lineage),
              edges |-> {<<s, e>> : e \in {o \in DOMAIN events :
                                events[o].schema = "Outcome" /\ s \in events[o].from}}
                \union UNION {{<<e, c>> : c \in events[e].from} :
                                  e \in Lineage(events, s, TraceDepth - 1)},
              totalCauses |-> Cardinality(lineage)]

-----------------------------------------------------------------------------
(* No event is dropped silently: whatever enqueue accepted is in the store *)
(* or in the queue, in order and once, or in a batch whose drain answered  *)
(* an error, and the counters of MirrorStats tell the same.                *)
MirrorAccountsForAll ==
    /\ accepted = SubSeq(accepted, 1, Len(fate)) \o mirror
    /\ \A i \in DOMAIN fate : fate[i] # 0 =>
          fate[i] \in DOMAIN mirrored /\ mirrored[fate[i]] = accepted[i]
    /\ \A s \in DOMAIN mirrored : \E i \in DOMAIN fate : fate[i] = s
    /\ \A i, j \in DOMAIN fate : i < j /\ fate[i] # 0 /\ fate[j] # 0 => fate[i] < fate[j]
    /\ stats.enqueued = Len(accepted)
    /\ stats.drained = Len(mirrored)

(* What the store lets in, trace_action can explain: an action recorded    *)
(* through the queue never leaks knowledge of the future, and its trace    *)
(* names a percept and an intention or says which of them is missing.      *)
ActionsTrace ==
    \A s \in DOMAIN mirrored :
        LET trace == TraceAction(mirrored, s) IN
        mirrored[s].schema = "Action" =>
            /\ trace.error = None
            /\ \A step \in {"Percept", "Intention"} :
                  \E i \in DOMAIN trace.nodes :
                      LET node == trace.nodes[i] IN
                      \/ node.step = step /\ node.of < s
                      \/ node.step = "SourceGap"
                         /\ node.of = IF step = "Percept" THEN "Perception" ELSE "IntentionSelection"
=============================================================================
