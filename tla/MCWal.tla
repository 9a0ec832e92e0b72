------------------------------- MODULE MCWal -------------------------------
(***************************************************************************)
(* Wal for TLC: two processes, batches of up to two of four events, four  *)
(* sequences.  The third is on another clock, the fourth names a cause.   *)
(***************************************************************************)
EXTENDS Wal

CONSTANTS c1, c2, x, y

MCClocks == {c1, c2}
MCPayloads == {x, y}

At(clock, ticks) == [clock |-> clock, ticks |-> ticks]

MCEvents ==
    {[known |-> At(c1, 0), causes |-> {}, payload |-> x],
     [known |-> At(c1, 1), causes |-> {}, payload |-> y],
     [known |-> At(c2, 1), causes |-> {}, payload |-> x],
     [known |-> At(c1, 1), causes |-> {1}, payload |-> x]}

=============================================================================
