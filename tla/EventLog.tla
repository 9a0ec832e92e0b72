------------------------------ MODULE EventLog ------------------------------
(***************************************************************************)
(* EventLog (crates/temnion-events): one source's volatile, append-only    *)
(* events, and a client that reads a filtered history page by page while   *)
(* appends go on.  A sequence number is an index counted from 0.           *)
(***************************************************************************)
EXTENDS HistoryFilter, FiniteSets

CONSTANTS
    LogCapacity,  \* events the log reserves room for
    Filters,      \* the HistoryFilters the client asks with
    Budgets       \* the QueryBudgets: [results, scanned], both positive

ASSUME LogAssumption ==
    /\ LogCapacity \in Nat
    /\ \A b \in Budgets : b.results \in Nat \ {0} /\ b.scanned \in Nat \ {0}

VARIABLES
    events,     \* the log
    query,      \* the client's last query, if any: its filter and position
    delivered   \* history: the sequence numbers its pages have returned

logVars == <<events, query, delivered>>

LogInit ==
    /\ events = <<>>
    /\ query = None
    /\ delivered = <<>>

(* check_known_time over a batch, continuing from the log's last event:    *)
(* one clock, never backwards.                                             *)
KnownTimesInOrder(batch) ==
    LET known == [i \in 1..Len(events \o batch) |-> (events \o batch)[i].times.known]
    IN \A i \in (Len(events) + 1)..Len(known) :
          i > 1 => /\ known[i].clock = known[i - 1].clock
                   /\ known[i - 1].ticks <= known[i].ticks

(* append_batch's admission; append is the batch of one.                   *)
Admits(batch) ==
    /\ batch # <<>>
    /\ Len(batch) <= LogCapacity - Len(events)
    /\ KnownTimesInOrder(batch)

(* Mutant: the batch is compared with itself, not with the log's end. *)
AppendBatch_OwnOrder(batch) ==
    /\ batch # <<>>
    /\ Len(batch) <= LogCapacity - Len(events)
    /\ \A i \in 2..Len(batch) :
          batch[i - 1].times.known.ticks <= batch[i].times.known.ticks
    /\ events' = events \o batch
    /\ UNCHANGED <<query, delivered>>

(* append and append_batch: every check precedes the first push.           *)
AppendBatch(batch) ==
    /\ Admits(batch)
    /\ events' = events \o batch
    /\ UNCHANGED <<query, delivered>>

(* history refuses a cutoff on a clock that is not the log's.              *)
CutoffClockFits(filter) ==
    events # <<>> =>
        \A cutoff \in filter.known_as_of :
            cutoff.clock = events[1].times.known.clock

Hits(filter, from, to) ==
    {s \in from..(to - 1) : Matches(filter, events[s + 1])}

(* Where history's loop stops: the snapshot's end, or a spent budget.      *)
Stops(q, budget, n) ==
    \/ n = q.snapshot
    \/ n - q.next = budget.scanned
    \/ Cardinality(Hits(q.filter, q.next, n)) = budget.results

PageEnd(q, budget) ==
    CHOOSE o \in q.next..q.snapshot :
        /\ Stops(q, budget, o)
        /\ \A n \in q.next..(o - 1) : ~Stops(q, budget, n)

(* The page lists its hits in the order of the scan.                       *)
InOrder(S) == CHOOSE s \in [1..Cardinality(S) -> S] : Listing(s, S)

(* Mutant: a page that leaves a continuation also passes the next event. *)
Answer_SkipsOne(q, before, budget) ==
    LET end == PageEnd(q, budget) IN
    /\ delivered' = before \o InOrder(Hits(q.filter, q.next, end))
    /\ query' = Some([q EXCEPT !.next = IF end < q.snapshot THEN end + 1 ELSE end])
    /\ UNCHANGED events

(* history's scan: the page goes to the client with the position it        *)
(* reached, a continuation as long as the snapshot is not exhausted.       *)
Answer(q, before, budget) ==
    LET end == PageEnd(q, budget) IN
    /\ delivered' = before \o InOrder(Hits(q.filter, q.next, end))
    /\ query' = Some([q EXCEPT !.next = end])
    /\ UNCHANGED events

(* The client holds a continuation.                                        *)
Continues == \E q \in query : q.next < q.snapshot

(* history without a cursor fixes the snapshot at the log's present length *)
(* and returns the first page.                                             *)
FirstPage(filter, budget) ==
    /\ ~Continues
    /\ CutoffClockFits(filter)
    /\ Answer([filter |-> filter, next |-> 0, snapshot |-> Len(events)], <<>>, budget)

(* history with the last page's continuation as its cursor.                *)
NextPage(budget) ==
    /\ Continues
    /\ \E q \in query :
          /\ CutoffClockFits(q.filter)
          /\ q.snapshot <= Len(events)
          /\ Answer(q, delivered, budget)

-----------------------------------------------------------------------------
(***************************************************************************)
(* The pages are one scan of the snapshot: at every point of a query, its  *)
(* end included, the pages together hold, in sequence order and once each, *)
(* exactly the matching events the cursor has passed, whatever was         *)
(* appended meanwhile.                                                     *)
(***************************************************************************)
PagesAreOneScan ==
    \A q \in query :
        Listing(delivered, Hits(q.filter, 0, q.next))
==============================================================================
