------------------------------- MODULE Replay -------------------------------
(***************************************************************************)
(* Checkpoints and deterministic reconstruction of one store directory     *)
(* (crates/temnion-replay).  A ReplayEngine is made for each call, as its  *)
(* callers do; its random numbers are counted.  A checkpoint does not say  *)
(* whose state it holds, so a directory is taken to be used with one       *)
(* reducer: RawEntityReducer, SchemaStateReducer or a caller's own that    *)
(* draws a number for every event.                                         *)
(***************************************************************************)
EXTENDS Integers, Sequences, SequencesExt, HistoryFilter

CONSTANTS
    Schemas,        \* the schemas SchemaStateReducer was given
    EventsIn,       \* StoredEvents: [entity, schema, mutation], where None is
                    \* a Delete and Some maps the fields of an Upsert to values
    Valid(_),       \* Schema::validate_mutation of one field update
    ScanBudget,     \* max_scanned of reconstruct_at_sequence (65,536)
    MaxLog          \* bound: events in the directory

ASSUME ReplayAssumption == ScanBudget \in Nat \ {0} /\ MaxLog \in Nat

Reducers == {"raw", "schema", "drawing"}

VARIABLES
    reducer,        \* the one this directory is used with
    log,            \* the events of the Store
    checkpoints,    \* checkpoints/*.tcp: sequence -> Checkpoint
    replayed        \* the last answer of reconstruct_at_sequence

replayVars == <<reducer, log, checkpoints, replayed>>

ReplayInit ==
    /\ reducer \in Reducers
    /\ log = <<>>
    /\ checkpoints = <<>>
    /\ replayed = None

-----------------------------------------------------------------------------
(* A running reconstruction: the state, the steps of the generator, the    *)
(* sequence of the header, and whether a reducer returned an error.        *)
Blank == [state |-> <<>>, steps |-> 0, sequence |-> 0, failed |-> FALSE]

RawApply(r, event) ==
    [r EXCEPT !.state = Put(@, event.entity, <<event.schema, event.mutation>>)]

(* An Upsert merges its fields into the entity, which keeps the schema it  *)
(* was first seen with.                                                    *)
SchemaApply(r, event) ==
    IF \/ event.schema \notin Schemas
       \/ \E fields \in event.mutation : \E f \in DOMAIN fields : ~Valid(<<f, fields[f]>>)
    THEN [r EXCEPT !.failed = TRUE]
    ELSE IF event.mutation = None
    THEN [r EXCEPT !.state = [e \in DOMAIN @ \ {event.entity} |-> @[e]]]
    ELSE LET known == event.entity \in DOMAIN r.state
             old == IF known THEN r.state[event.entity] ELSE <<event.schema, <<>>>>
             fields == CHOOSE f \in event.mutation : TRUE
         IN  [r EXCEPT !.state = Put(@, event.entity, <<old[1], fields @@ old[2]>>)]

(* DeterministicRng::next_u64 as the number of its step.                   *)
DrawingApply(r, event) ==
    [r EXCEPT !.state = Put(@, event.entity, r.steps), !.steps = @ + 1]

ApplyEvent(r, event) ==
    CASE r.failed -> r
      [] reducer = "raw" -> RawApply(r, event)
      [] reducer = "schema" -> SchemaApply(r, event)
      [] reducer = "drawing" -> DrawingApply(r, event)

(* The loop over the page; the header follows the events.                  *)
ApplyAll(start, first, events) ==
    LET Run[i \in 0..Len(events)] ==
            IF i = 0 THEN start
            ELSE [ApplyEvent(Run[i - 1], events[i]) EXCEPT !.sequence = first + (i - 1)]
    IN  Run[Len(events)]

-----------------------------------------------------------------------------
(* CheckpointStore::find_latest.                                           *)
Latest(sequence) ==
    {s \in DOMAIN checkpoints :
        /\ s <= sequence
        /\ \A t \in DOMAIN checkpoints : t <= sequence => t <= s}

(* Mutant: the event of the checkpoint itself is applied again.            *)
ReplayFrom_Again(s) == s

(* The first event to apply after the checkpoint at s.                     *)
ReplayFrom(s) == s + 1

(* reconstruct_at_sequence: one page of at most ScanBudget events, each a  *)
(* frame of its own, which fit into the 64 MiB it may read.  The set of its results: none when it  *)
(* returns an error.                                                       *)
Results(target) ==
    LET base == Latest(target)
        start == IF base = {} THEN Blank
                 ELSE checkpoints[CHOOSE s \in base : TRUE]
        next == IF base = {} THEN 0 ELSE ReplayFrom(CHOOSE s \in base : TRUE)
        last == IF target - next + 1 > ScanBudget THEN next + ScanBudget - 1 ELSE target
    IN  IF target >= Len(log) THEN {}
        ELSE {r \in {ApplyAll(start, next, SubSeq(log, next + 1, last + 1))} : ~r.failed}

AppendEvent(event) ==
    /\ Len(log) < MaxLog
    /\ log' = Append(log, event)
    /\ UNCHANGED <<reducer, checkpoints, replayed>>

Reconstruct(target) ==
    /\ \E r \in Results(target) :
          replayed' = Some([target |-> target, result |-> r])
    /\ UNCHANGED <<reducer, log, checkpoints>>

(* A reconstruction that the caller saves: the file is named after the     *)
(* sequence the header arrived at and replaces one of the same name, whole *)
(* or not at all (CheckpointStore::save).                                  *)
SaveCheckpoint(target) ==
    /\ \E r \in Results(target) :
          checkpoints' = Put(checkpoints, r.sequence, r)
    /\ UNCHANGED <<reducer, log, replayed>>

(* Nothing follows an answer that would not have happened without it.     *)
ReplayNext ==
    /\ replayed = None
    /\ \/ \E event \in EventsIn : AppendEvent(event)
       \/ \E target \in 0..MaxLog - 1 :
             Reconstruct(target) \/ SaveCheckpoint(target)

-----------------------------------------------------------------------------
(* Replay is exact: a reconstruction is the fold of all events from the    *)
(* beginning up to the sequence its header names, with the same random     *)
(* numbers, from whatever checkpoints it started and in however many pages *)
(* they were made.  That sequence is the target, unless more than a page   *)
(* of events lies between: then the answer, an Ok all the same, is a whole *)
(* page past the beginning and past every checkpoint before the target.    *)
ReplayIsExact ==
    \A a \in replayed :
        LET reached == a.result.sequence IN
        /\ a.result = ApplyAll(Blank, 0, SubSeq(log, 1, reached + 1))
        /\ \/ reached = a.target
           \/ /\ ScanBudget - 1 <= reached /\ reached < a.target
              /\ \A s \in DOMAIN checkpoints :
                    s <= a.target => s + ScanBudget <= reached
=============================================================================
