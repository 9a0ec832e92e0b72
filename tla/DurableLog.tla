------------------------------ MODULE DurableLog ------------------------------
(***************************************************************************)
(* What Store promises the callers of append: one log that only grows at   *)
(* its end, an identity per position that is never given to another        *)
(* acknowledged event, and failures that take away nothing but a suffix no *)
(* receipt was returned for.                                               *)
(***************************************************************************)
EXTENDS Integers, Sequences

VARIABLES log, acked

IsPrefixOf(s, t) ==
    /\ Len(s) <= Len(t)
    /\ \A i \in 1..Len(s) : s[i] = t[i]

Init == log = <<>> /\ acked = {}

(* A batch becomes visible as a whole, with the next sequences.            *)
Extend ==
    /\ Len(log') > Len(log)
    /\ IsPrefixOf(log, log')
    /\ \A i \in Len(log) + 1 .. Len(log') : log'[i].seq = i - 1
    /\ acked' = acked

(* Receipts are returned for events of the log.                            *)
Acknowledge ==
    /\ acked \subseteq acked'
    /\ \A e \in acked' : e.seq + 1 \in 1..Len(log) /\ log[e.seq + 1] = e
    /\ log' = log

(* A failure loses a suffix without acknowledged events.                   *)
Lose ==
    /\ IsPrefixOf(log', log)
    /\ \A e \in acked : e.seq < Len(log')
    /\ acked' = acked

Next == Extend \/ Acknowledge \/ Lose

Spec == Init /\ [][Next]_<<log, acked>>

=============================================================================
