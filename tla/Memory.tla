------------------------------- MODULE Memory -------------------------------
(***************************************************************************)
(* The volatile tier put together the way the command line's demo does     *)
(* (apps/temnion-cli): a StateSlab holds each entity's present value and   *)
(* an EventLog the changes that led to it.  A change is first recorded and *)
(* then applied.  The log does not know the slab, so it also accepts       *)
(* changes of other shards' entities and of entities that are gone.        *)
(***************************************************************************)
EXTENDS Slab, EventLog

CONSTANTS
    ValidClock,  \* the clock of the changes' valid times
    KnownClock,  \* the log's known-time clock
    Times,       \* the [valid, known] ticks a change may carry
    Arrivals      \* event batches of other shards' entities that may arrive

(* Ticks are the code's i64 numbers.                                       *)
ASSUME MemoryAssumption ==
    /\ \A t \in Times : t.known \in Int
    /\ \A f \in Filters : \A cutoff \in f.known_as_of : cutoff.ticks \in Int
    /\ \A batch \in Arrivals :
          /\ batch \in Seq({batch[i] : i \in DOMAIN batch})
          /\ \A i \in DOMAIN batch : /\ batch[i].entity.shard # Shard
                                     /\ batch[i].times.known.ticks \in Int

memoryVars == <<slabVars, logVars>>

MemoryInit == SlabInit /\ LogInit

(* The event the demo records for a change, observed as it happens.        *)
Change(id, v, t) ==
    [entity |-> id,
     change |-> v,
     times |-> [valid |-> [clock |-> ValidClock, ticks |-> t.valid],
                observed |-> Some([clock |-> ValidClock, ticks |-> t.valid]),
                known |-> [clock |-> KnownClock, ticks |-> t.known]]]

Create(v) == Insert(v) /\ UNCHANGED logVars

(* Record, then apply.  A refused append changes nothing; an append on     *)
(* behalf of a stale identity stays recorded while the assignment fails.   *)
Record(id, v, t) ==
    /\ AppendBatch(<<Change(id, v, t)>>)
    /\ \/ Assign(id, v)
       \/ ~Resolves(id) /\ UNCHANGED slabVars

Arrive(batch) == AppendBatch(batch) /\ UNCHANGED slabVars

Destroy(id) == Remove(id) /\ UNCHANGED logVars

Ask(filter, budget) == FirstPage(filter, budget) /\ UNCHANGED slabVars

Read(budget) == NextPage(budget) /\ UNCHANGED slabVars

MemoryNext ==
    \/ \E v \in Values : Create(v)
    \/ \E id \in issued :
          \/ \E v \in Values, t \in Times : Record(id, v, t)
          \/ Destroy(id)
    \/ \E batch \in Arrivals : Arrive(batch)
    \/ \E budget \in Budgets :
          \/ \E filter \in Filters : Ask(filter, budget)
          \/ Read(budget)

MemorySpec == MemoryInit /\ [][MemoryNext]_memoryVars

(***************************************************************************)
(* The present is the end of the past: an entity with recorded changes     *)
(* holds the value its own last change recorded, however often its slot    *)
(* served other entities before and whatever was recorded for those after  *)
(* they were gone.                                                         *)
(***************************************************************************)
PresentIsLastRecorded ==
    \A id \in DOMAIN LiveMap :
        LET own == {i \in DOMAIN events : events[i].entity = id} IN
        own # {} =>
            LiveMap[id] = events[CHOOSE i \in own : \A j \in own : j <= i].change

(***************************************************************************)
(* Late evidence stays late: once the log knows of a later moment, the     *)
(* answer to a known-as-of query about an earlier one is settled, whatever *)
(* valid times later events claim.  Known times that only go forward, over *)
(* whole batches and across them, are what gives this.                     *)
(***************************************************************************)
KnowledgeSettles ==
    [][\A filter \in Filters : \A cutoff \in filter.known_as_of :
          (/\ events # <<>>
           /\ cutoff.ticks < events[Len(events)].times.known.ticks) =>
              \A s \in DOMAIN events' \ DOMAIN events :
                  ~Matches(filter, events'[s])]_memoryVars
==============================================================================
