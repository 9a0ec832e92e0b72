------------------------------ MODULE MCMemory ------------------------------
EXTENDS Memory, TLC

(* Another shard's entity with the slot and generation of one of ours.     *)
Foreign == [shard |-> "remote", slot |-> 0, generation |-> 0]

Ticks(valid, known) == [valid |-> valid, known |-> known]

MCTimes == {Ticks(1, 0), Ticks(0, 1)}

(* Two events in order, and two whose known times go backwards.            *)
MCArrivals ==
    {<<Change(Foreign, "away", Ticks(1, 0)), Change(Foreign, "away", Ticks(0, 1))>>,
     <<Change(Foreign, "away", Ticks(0, 1)), Change(Foreign, "away", Ticks(0, 0))>>}

All == [entity |-> None, time |-> None, known_as_of |-> None]

Own == [shard |-> "local", slot |-> 0, generation |-> 1]

MCFilters ==
    {[All EXCEPT !.entity = Some(Own)],
     [All EXCEPT !.known_as_of = Some([clock |-> 2, ticks |-> 0]),
                 !.time = Some([axis |-> "valid",
                     range |-> [clock |-> 1, start |-> 0, end |-> 1]])],
     [All EXCEPT !.known_as_of = Some([clock |-> 1, ticks |-> 0])]}

MCBudgets == {[results |-> 1, scanned |-> 2], [results |-> 2, scanned |-> 1]}

Symmetry == Permutations(Values)
==============================================================================
