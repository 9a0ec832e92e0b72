------------------------------ MODULE MCHistory ------------------------------
EXTENDS History

InstantOf(clock, ticks) == [clock |-> clock, ticks |-> ticks]

Event(entity, valid, observed, known) ==
    [entity |-> entity,
     times |-> [valid |-> valid, observed |-> observed, known |-> InstantOf(9, known)]]

(* One event; two whose valid times are on different clocks; and two that  *)
(* lie far apart, one of them observed.                                    *)
MCBatches ==
    {<<Event(1, InstantOf(1, 0), None, 0)>>,
     <<Event(1, InstantOf(1, 0), None, 0), Event(3, InstantOf(2, 2), None, 1)>>,
     <<Event(3, InstantOf(1, 2), Some(InstantOf(1, 2)), 1), Event(2, InstantOf(1, 0), None, 2)>>}

(* The hashes of entities 1 and 3 together cover those of entity 2.        *)
MCBits == [e \in 1..3 |-> CASE e = 1 -> {0, 1} [] e = 2 -> {1, 2} [] e = 3 -> {2, 3}]

All == [entity |-> None, time |-> None, known_as_of |-> None]

During(axis, clock, start, end) ==
    Some([axis |-> axis, range |-> [clock |-> clock, start |-> start, end |-> end]])

MCFilters ==
    {All,
     [All EXCEPT !.entity = Some(2)],
     [All EXCEPT !.known_as_of = Some(InstantOf(9, 0))],
     [All EXCEPT !.known_as_of = Some(InstantOf(8, 0))],
     [All EXCEPT !.time = During("valid", 2, 1, 3)],
     [All EXCEPT !.time = During("known", 9, 1, 2), !.entity = Some(3)],
     [All EXCEPT !.time = During("observed", 1, 0, 3)]}

(* Too small for a segment of two, one event per page, and ample.          *)
MCBudgets ==
    {[results |-> 2, scanned |-> 2, bytes |-> 3],
     [results |-> 1, scanned |-> 3, bytes |-> 6],
     [results |-> 4, scanned |-> 4, bytes |-> 12]}
==============================================================================
