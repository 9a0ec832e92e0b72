--------------------------- MODULE MCSubscription ---------------------------
(***************************************************************************)
(* Subscription for TLC: events of two classes.  ByPredicate stands for a  *)
(* query with a predicate, ByEntity for one with an entity.                *)
(***************************************************************************)
EXTENDS Subscription

CONSTANTS a, b

MCClasses == {a, b}
ByPredicate == [scan |-> {a, b}, pred |-> {a}]
ByEntity == [scan |-> {a}, pred |-> {a, b}]

FromStart(query) == [query |-> query, from |-> 0, fromNow |-> FALSE]
FromNow(query) == [query |-> query, from |-> 0, fromNow |-> TRUE]

MCRequests == {FromStart(ByPredicate), FromStart(ByEntity), FromNow(ByPredicate)}

=============================================================================
