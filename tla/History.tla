------------------------------- MODULE History -------------------------------
(***************************************************************************)
(* Store::history (crates/temnion-storage): a client reads a filtered      *)
(* history in pages, each under a budget of results, scanned records and   *)
(* bytes, from WAL frames and, for frames retired since, from segments.    *)
(* Frames whose BlockSummary (crates/temnion-index) excludes the filter    *)
(* are passed over unread.  Between two pages the owner may append, seal   *)
(* and retire; a page itself holds the Store exclusively, so its steps are *)
(* only interleaved with read failures.                                    *)
(*                                                                         *)
(* An entity is a number: its rank in the order of EntityId.  The file     *)
(* contents a frame or segment stands for are the events of its range.     *)
(***************************************************************************)
EXTENDS HistoryFilter

CONSTANTS
    Batches,          \* the batches of events that may be appended
    Filters,          \* the filters a client may use
    Budgets,          \* [results, scanned, bytes], all positive
    Bits,             \* per entity, the positions its four hashes set
    FrameOverhead,    \* bytes of a frame besides one per event
    SegmentOverhead,  \* bytes of a segment besides one per event
    MaxEvents,        \* bound: events ever appended
    MaxFailures       \* bound: failed reads

Timestamp == [clock : Nat, ticks : Int]
EventTimes == [valid : Timestamp, observed : SUBSET Timestamp, known : Timestamp]
StoredEvent == [entity : Nat, times : EventTimes]

ASSUME HistoryAssumption ==
    /\ Batches \subseteq Seq(StoredEvent) \ {<<>>}
    /\ \A f \in Filters :
          /\ \A cutoff \in f.known_as_of : cutoff.ticks \in Int
          /\ \A t \in f.time : t.range.start \in Int /\ t.range.end \in Int
    /\ \A b \in Budgets : {b.results, b.scanned, b.bytes} \subseteq Nat \ {0}
    /\ {FrameOverhead, SegmentOverhead, MaxEvents, MaxFailures} \subseteq Nat

VARIABLES
    log,        \* every committed event; sequence s is log[s + 1]
    frames,     \* Store.frames: the WAL frames not retired
    summaries,  \* Store.summaries, by frame
    sealedSegments, \* the manifest's sealed_segments
    query,      \* the client's query: None, or its filter and cursor
    page,       \* the call of history under way, or None
    delivered,  \* history: the sequence numbers the query's pages returned
    failures    \* failed reads so far

vars == <<log, frames, summaries, sealedSegments, query, page, delivered, failures>>

-----------------------------------------------------------------------------
(* The block summary.                                                      *)

Least(S) == CHOOSE x \in S : \A y \in S : x <= y
Greatest(S) == CHOOSE x \in S : \A y \in S : y <= x

Elements(batch) == {batch[i] : i \in 1..Len(batch)}

(* ZoneMap: new on the first value, update on the others.                  *)
Zone(S) == [min |-> Least(S), max |-> Greatest(S)]

(* TimestampZoneMap: the clock of the first timestamp, and the ticks of    *)
(* those on that clock; update ignores the others.                         *)
TimestampZone(first, stamps) ==
    LET ticks == {t.ticks : t \in {s \in stamps : s.clock = first.clock}}
    IN [clock |-> first.clock, min |-> Least(ticks), max |-> Greatest(ticks)]

(* BlockSummary::new and update over a batch.                              *)
Summary(batch) ==
    [entities |-> Zone({e.entity : e \in Elements(batch)}),
     bloom    |-> UNION {Bits[e.entity] : e \in Elements(batch)},
     valid    |-> TimestampZone(batch[1].times.valid,
                                {e.times.valid : e \in Elements(batch)}),
     known    |-> TimestampZone(batch[1].times.known,
                                {e.times.known : e \in Elements(batch)})]

(* Mutant: the zone takes the ticks of every clock as its own. *)
OverlapsRange_AnyClock(zone, range) ==
    zone.min < range.end /\ zone.max >= range.start

(* TimestampZoneMap::overlaps_range.                                       *)
OverlapsRange(zone, range) ==
    zone.clock # range.clock \/ (zone.min < range.end /\ zone.max >= range.start)

(* TimestampZoneMap::can_contain_known.                                    *)
CanContainKnown(zone, cutoff) ==
    zone.clock # cutoff.clock \/ zone.min <= cutoff.ticks

(* BlockSummary::matches_filter = Skip.                                    *)
Skips(summary, filter) ==
    \/ \E e \in filter.entity :
          \/ e < summary.entities.min \/ e > summary.entities.max
          \/ ~(Bits[e] \subseteq summary.bloom)
    \/ \E cutoff \in filter.known_as_of : ~CanContainKnown(summary.known, cutoff)
    \/ \E t \in filter.time :
          \/ t.axis = "valid" /\ ~OverlapsRange(summary.valid, t.range)
          \/ t.axis = "known" /\ ~OverlapsRange(summary.known, t.range)

-----------------------------------------------------------------------------
(* The owner's operations; a page under way holds the Store.               *)

Init ==
    /\ log = <<>>
    /\ frames = <<>>
    /\ summaries = <<>>
    /\ sealedSegments = {}
    /\ query = None
    /\ page = None
    /\ delivered = <<>>
    /\ failures = 0

(* append: one frame and its summary per batch.                            *)
Commit(batch) ==
    /\ page = None
    /\ Len(log) + Len(batch) <= MaxEvents
    /\ LET all == log \o batch IN
          \A i \in (Len(log) + 1)..Len(all) :
              i > 1 => /\ all[i].times.known.clock = all[i - 1].times.known.clock
                       /\ all[i - 1].times.known.ticks <= all[i].times.known.ticks
    /\ log' = log \o batch
    /\ frames' = frames \o <<[first |-> Len(log), count |-> Len(batch)]>>
    /\ summaries' = summaries \o <<Summary(batch)>>
    /\ UNCHANGED <<sealedSegments, query, page, delivered, failures>>

(* seal: every frame is exported and registered in the manifest.           *)
Seal ==
    /\ page = None
    /\ frames # <<>>
    /\ sealedSegments' = sealedSegments \cup {frames[k] : k \in 1..Len(frames)}
    /\ UNCHANGED <<log, frames, summaries, query, page, delivered, failures>>

Sealed(s) ==
    \E seg \in sealedSegments : seg.first <= s /\ s < seg.first + seg.count

(* retire_wal: a prefix of sealed frames leaves the WAL with its           *)
(* summaries; which prefix depends on the caller's reference holds.        *)
Retire(n) ==
    /\ page = None
    /\ n \in 1..Len(frames)
    /\ \A k \in 1..n : /\ Sealed(frames[k].first)
                       /\ Sealed(frames[k].first + frames[k].count - 1)
    /\ frames' = SubSeq(frames, n + 1, Len(frames))
    /\ summaries' = SubSeq(summaries, n + 1, Len(summaries))
    /\ UNCHANGED <<log, sealedSegments, query, page, delivered, failures>>

-----------------------------------------------------------------------------
(* The client's queries and the scan.                                      *)

(* cursor_from_sequence; history without a cursor starts at sequence 0.    *)
StartQuery(filter, from) ==
    /\ query = None
    /\ page = None
    /\ from <= Len(log)
    /\ query' = Some([filter |-> filter, from |-> from, next |-> from,
                      end |-> Len(log)])
    /\ delivered' = <<>>
    /\ UNCHANGED <<log, frames, summaries, sealedSegments, page, failures>>

(* history's checks: the cutoff's clock, and a cursor within the log.      *)
Accepts(q) ==
    /\ log # <<>> =>
          \A cutoff \in q.filter.known_as_of :
              cutoff.clock = log[Len(log)].times.known.clock
    /\ q.next <= q.end
    /\ q.end <= Len(log)

BeginPage(budget) ==
    /\ page = None
    /\ \E q \in query :
          /\ Accepts(q)
          /\ page' = Some([budget |-> budget, next |-> q.next, limit |-> q.next,
                           events |-> <<>>, scanned |-> 0, bytes |-> 0])
    /\ UNCHANGED <<log, frames, summaries, sealedSegments, query, delivered, failures>>

(* A query whose cutoff is on another clock is refused and given up.       *)
Refuse ==
    /\ page = None
    /\ \E q \in query : ~Accepts(q)
    /\ query' = None
    /\ UNCHANGED <<log, frames, summaries, sealedSegments, page, delivered, failures>>

(* frame_index_for_sequence: the last frame that starts at or before s.    *)
FrameIndex(s) ==
    {k \in 1..Len(frames) :
        /\ frames[k].first <= s
        /\ \A j \in 1..Len(frames) : frames[j].first <= s => j <= k}

(* The block that holds sequence s, with its size in bytes: a frame, or    *)
(* the manifest's first segment around s.                                  *)
Block(s) ==
    IF FrameIndex(s) # {}
    THEN {[first |-> frames[k].first, count |-> frames[k].count,
           bytes |-> frames[k].count + FrameOverhead] : k \in FrameIndex(s)}
    ELSE {[first |-> seg.first, count |-> seg.count,
           bytes |-> seg.count + SegmentOverhead] :
             seg \in {g \in sealedSegments : g.first <= s /\ s < g.first + g.count}}

PassedOver(q, p) == \E k \in FrameIndex(p.next) : Skips(summaries[k], q.filter)

(* The head of history's loop: between two blocks, more to read, and the   *)
(* page not full.                                                          *)
AtBlock(q, p) ==
    /\ p.next >= p.limit
    /\ p.next < q.end
    /\ Len(p.events) # p.budget.results

(* Mutant: the scan continues without moving past the skipped frame. *)
SkipFrame_Stays ==
    \E q \in query, p \in page :
        /\ AtBlock(q, p)
        /\ PassedOver(q, p)
        /\ UNCHANGED vars

(* A frame guaranteed to hold no match is passed over unread.              *)
SkipFrame ==
    \E q \in query, p \in page :
        /\ AtBlock(q, p)
        /\ PassedOver(q, p)
        /\ \E k \in FrameIndex(p.next) :
              page' = Some([p EXCEPT !.next = frames[k].first + frames[k].count])
        /\ UNCHANGED <<log, frames, summaries, sealedSegments, query, delivered, failures>>

Oversized(p, b) == b.bytes > p.budget.bytes \/ b.count > p.budget.scanned

Fits(p, b) ==
    /\ b.bytes <= p.budget.bytes - p.bytes
    /\ b.count <= p.budget.scanned - p.scanned

(* A block that fits what is left of the budget is read.                   *)
ReadBlock ==
    \E q \in query, p \in page : \E b \in Block(p.next) :
        /\ AtBlock(q, p)
        /\ ~PassedOver(q, p)
        /\ Fits(p, b)
        /\ page' = Some([p EXCEPT !.limit = b.first + b.count,
                                  !.scanned = @ + b.count,
                                  !.bytes = @ + b.bytes])
        /\ UNCHANGED <<log, frames, summaries, sealedSegments, query, delivered, failures>>

(* Mutant: a filled page drops the record that did not fit. *)
TakeRecord_DropsLast ==
    \E q \in query, p \in page :
        /\ p.next < p.limit /\ p.next < q.end
        /\ page' = Some([p EXCEPT !.next = @ + 1,
              !.events = IF /\ Matches(q.filter, log[p.next + 1])
                            /\ Len(@) # p.budget.results
                         THEN @ \o <<p.next>> ELSE @])
        /\ UNCHANGED <<log, frames, summaries, sealedSegments, query, delivered, failures>>

(* The records of the block from the cursor on, one by one, until the page *)
(* is full or the snapshot ends.                                           *)
TakeRecord ==
    \E q \in query, p \in page :
        /\ p.next < p.limit /\ p.next < q.end
        /\ Len(p.events) # p.budget.results
        /\ page' = Some([p EXCEPT !.next = @ + 1,
              !.events = IF Matches(q.filter, log[p.next + 1])
                         THEN @ \o <<p.next>> ELSE @])
        /\ UNCHANGED <<log, frames, summaries, sealedSegments, query, delivered, failures>>

PageEnds(q, p) ==
    \/ p.next >= q.end
    \/ Len(p.events) = p.budget.results
    \/ /\ AtBlock(q, p)
       /\ ~PassedOver(q, p)
       /\ \E b \in Block(p.next) : IF Oversized(p, b) THEN p.bytes # 0 ELSE ~Fits(p, b)

(* The page and its continuation go to the client.                         *)
FinishPage ==
    \E q \in query, p \in page :
        /\ PageEnds(q, p)
        /\ delivered' = delivered \o p.events
        /\ query' = IF p.next < q.end THEN Some([q EXCEPT !.next = p.next]) ELSE None
        /\ page' = None
        /\ UNCHANGED <<log, frames, summaries, sealedSegments, failures>>

(* BudgetTooSmall: the first block read exceeds the whole budget.  The     *)
(* client keeps its cursor.                                                *)
BudgetTooSmall ==
    \E q \in query, p \in page : \E b \in Block(p.next) :
        /\ AtBlock(q, p)
        /\ ~PassedOver(q, p)
        /\ Oversized(p, b)
        /\ p.bytes = 0
        /\ page' = None
        /\ UNCHANGED <<log, frames, summaries, sealedSegments, query, delivered, failures>>

(* Reading a frame, the manifest or a segment fails: the page is lost with *)
(* what it had gathered, the client keeps its cursor.                      *)
ReadFails ==
    \E q \in query, p \in page :
        /\ AtBlock(q, p)
        /\ ~PassedOver(q, p)
        /\ failures < MaxFailures
        /\ failures' = failures + 1
        /\ page' = None
        /\ UNCHANGED <<log, frames, summaries, sealedSegments, query, delivered>>

Owner ==
    \/ \E batch \in Batches : Commit(batch)
    \/ Seal
    \/ \E n \in 1..MaxEvents : Retire(n)

Client ==
    \/ \E filter \in Filters, from \in 0..MaxEvents : StartQuery(filter, from)
    \/ \E budget \in Budgets : BeginPage(budget)
    \/ Refuse

Scan == SkipFrame \/ ReadBlock \/ TakeRecord \/ FinishPage \/ BudgetTooSmall

Next == Owner \/ Client \/ Scan \/ ReadFails

Spec == Init /\ [][Next]_vars

(* A call of history runs to its end, and a client that wants its answer   *)
(* asks again with a budget that holds any block.                          *)
Ample == {b \in Budgets : /\ b.scanned >= MaxEvents
                          /\ b.bytes >= MaxEvents + FrameOverhead + SegmentOverhead}

HistoryFairness ==
    /\ WF_vars(Scan)
    /\ WF_vars(Refuse)
    /\ SF_vars(\E budget \in Ample : BeginPage(budget))

-----------------------------------------------------------------------------
Hits(filter, from, to) ==
    {s \in from..(to - 1) : Matches(filter, log[s + 1])}

(***************************************************************************)
(* Skipping is conservative: a frame history passes over for a filter      *)
(* holds no event that matches it, whichever clocks its events mix and     *)
(* whichever frames were retired before it (the index crate's "zero false  *)
(* negatives").                                                            *)
(***************************************************************************)
SkipIsSound ==
    \A k \in 1..Len(frames) : \A filter \in Filters :
        Skips(summaries[k], filter) =>
            Hits(filter, frames[k].first, frames[k].first + frames[k].count) = {}

(***************************************************************************)
(* The pages are one scan: at every point the pages returned so far hold,  *)
(* in sequence order and once each, exactly the matching events between    *)
(* the query's start and its cursor, and the page under way continues them *)
(* — across skipped frames, frames retired into segments between pages,    *)
(* pages lost to failed reads, and events appended meanwhile.              *)
(***************************************************************************)
PagesAreOneScan ==
    \A q \in query :
        /\ Listing(delivered, Hits(q.filter, q.from, q.next))
        /\ \A p \in page : Listing(p.events, Hits(q.filter, q.next, p.next))

(***************************************************************************)
(* A query ends: the client that keeps asking, now and then with a budget  *)
(* that holds any block, reaches the end of its snapshot, whatever is      *)
(* appended, sealed and retired meanwhile.                                 *)
(***************************************************************************)
QueriesEnd == query # None ~> query = None
==============================================================================
