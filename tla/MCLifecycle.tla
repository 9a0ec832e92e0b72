----------------------------- MODULE MCLifecycle -----------------------------
(***************************************************************************)
(* Lifecycle for TLC: three sequences, batches of up to two events.        *)
(***************************************************************************)
EXTENDS Lifecycle

CONSTANTS c1, x, y

MCClocks == {c1}
MCPayloads == {x, y}

At(ticks, payload) ==
    [known |-> [clock |-> c1, ticks |-> ticks], causes |-> {}, payload |-> payload]

MCEvents == {At(0, x), At(1, y)}
MCHoldSets == {{}, {0}, {1}}

=============================================================================
