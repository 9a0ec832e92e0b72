---------------------------- MODULE HistoryFilter ----------------------------
(***************************************************************************)
(* The time and filter types shared by the volatile log and the store      *)
(* (crates/temnion-core, crates/temnion-events).  A Rust Option<T> is a    *)
(* set with at most one element.                                           *)
(***************************************************************************)
EXTENDS Integers, Sequences, FiniteSets

None == {}
Some(x) == {x}
Option(S) == {None} \cup {Some(x) : x \in S}
Unwrap(option) == CHOOSE x \in option : TRUE

(* A map with a key set to a value.                                        *)
Put(map, key, value) ==
    [k \in DOMAIN map \union {key} |-> IF k = key THEN value ELSE map[k]]

(* EventTimes::on: the timestamp an event has on an axis, if any.          *)
On(times, axis) ==
    CASE axis = "valid" -> Some(times.valid)
      [] axis = "observed" -> times.observed
      [] axis = "known" -> Some(times.known)

(* TimeRange::contains: half open, and on one clock only.                  *)
RangeContains(range, ts) ==
    /\ ts.clock = range.clock
    /\ range.start <= ts.ticks
    /\ ts.ticks < range.end

(* The test both history scans apply to every event they read.             *)
Matches(filter, event) ==
    /\ \A e \in filter.entity : e = event.entity
    /\ \A cutoff \in filter.known_as_of : event.times.known.ticks <= cutoff.ticks
    /\ \A t \in filter.time :
          \E ts \in On(event.times, t.axis) : RangeContains(t.range, ts)

(* The members of S in increasing order: each at the place of its rank.    *)
Ranked(S) ==
    [i \in 1..Cardinality(S) |-> CHOOSE x \in S : Cardinality({y \in S : y <= x}) = i]

(* A listing of the members of S, each once, in increasing order.          *)
Listing(seq, S) ==
    /\ {seq[i] : i \in 1..Len(seq)} = S
    /\ \A i, j \in 1..Len(seq) : i < j => seq[i] < seq[j]
==============================================================================
