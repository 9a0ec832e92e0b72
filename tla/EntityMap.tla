------------------------------ MODULE EntityMap ------------------------------
(***************************************************************************)
(* What a StateSlab promises its owner: a finite map from entity           *)
(* identities to values in which an identity, once issued, is never issued *)
(* again, so that a handle kept after its entity was removed can only be   *)
(* refused.  (crates/temnion-state; the reference map of its test          *)
(* operation_sequence_matches_a_reference_map.)                            *)
(***************************************************************************)
CONSTANTS
    Ids,     \* every EntityId
    Values   \* the values an entity can hold

VARIABLES
    live,    \* the current map: a function from identities to values
    issued   \* every identity ever handed out

vars == <<live, issued>>

Init ==
    /\ live = [i \in {} |-> i]
    /\ issued = {}

\* A new entity takes an identity nobody has ever held.
Insert(id, v) ==
    /\ id \in Ids \ issued
    /\ live' = [i \in DOMAIN live \cup {id} |-> IF i = id THEN v ELSE live[i]]
    /\ issued' = issued \cup {id}

Assign(id, v) ==
    /\ id \in DOMAIN live
    /\ live' = [live EXCEPT ![id] = v]
    /\ UNCHANGED issued

Remove(id) ==
    /\ id \in DOMAIN live
    /\ live' = [i \in DOMAIN live \ {id} |-> live[i]]
    /\ UNCHANGED issued

Next ==
    \E id \in Ids :
        \/ \E v \in Values : Insert(id, v) \/ Assign(id, v)
        \/ Remove(id)

Spec == Init /\ [][Next]_vars
==============================================================================
