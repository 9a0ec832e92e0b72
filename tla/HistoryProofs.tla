---------------------------- MODULE HistoryProofs ----------------------------
(***************************************************************************)
(* The pages of Store::history are one scan, and what it skips holds no    *)
(* match, for any batches, filters, budgets, hashes and bounds.            *)
(***************************************************************************)
EXTENDS History, SequenceTheorems, WellFoundedInduction, TLAPS

-----------------------------------------------------------------------------
(* Sets of numbers.  Every set of naturals has a least element.            *)
LEMMA LeastNatural ==
    ASSUME NEW S \in SUBSET Nat, S # {}
    PROVE  \E x \in S : \A y \in S : x <= y
<1>1. PICK x \in S : \A y \in S : ~(<<y, x>> \in OpToRel(<, Nat))
  BY NatLessThanWellFounded, WFMin, Zenon
<1>2. \A y \in S : ~(y < x)
  BY <1>1 DEF OpToRel
<1>3. QED
  BY <1>2

(* Induction, with the set of the numbers that have the property.          *)
LEMMA NaturalSet ==
    ASSUME NEW T, 0 \in T, \A n \in Nat : n \in T => n + 1 \in T
    PROVE  \A n \in Nat : n \in T
<1>1. SUFFICES ASSUME Nat \ T # {} PROVE FALSE
  OBVIOUS
<1>2. PICK x \in Nat \ T : \A y \in Nat \ T : x <= y
  BY <1>1, LeastNatural
<1>3. x # 0 /\ x - 1 \in Nat /\ x - 1 \in T
  BY <1>2
<1>4. QED
  BY <1>2, <1>3

HasExtremes(S) ==
    \E lo, hi \in S : \A x \in S : lo <= x /\ x <= hi

(* The values of a finite table have a least and a greatest one: what a    *)
(* zone map holds after new and update.                                    *)
LEMMA Extremes ==
    ASSUME NEW n \in Nat, NEW f, NEW S \in SUBSET Int, S # {},
           \A x \in S : \E i \in 1..n : x = f[i]
    PROVE  HasExtremes(S)
<1> DEFINE InTable(R, k) == \A x \in R : \E i \in 1..k : x = f[i]
           T == {k \in Nat : \A R \in SUBSET Int : R # {} /\ InTable(R, k) => HasExtremes(R)}
<1>1. 0 \in T
  <2> SUFFICES ASSUME NEW R \in SUBSET Int, NEW x \in R, InTable(R, 0)
               PROVE  FALSE
    OBVIOUS
  <2>1. PICK i \in 1..0 : x = f[i]
    OBVIOUS
  <2>2. QED
    BY <2>1
<1>2. ASSUME NEW k \in Nat, k \in T
      PROVE  k + 1 \in T
  <2> SUFFICES ASSUME NEW R \in SUBSET Int, R # {}, InTable(R, k + 1)
               PROVE  HasExtremes(R)
    OBVIOUS
  <2> DEFINE Q == R \ {f[k + 1]}
  <2>1. InTable(Q, k)
    <3> SUFFICES ASSUME NEW x \in Q
                 PROVE  \E i \in 1..k : x = f[i]
      OBVIOUS
    <3>1. PICK i \in 1..(k + 1) : x = f[i]
      OBVIOUS
    <3>2. i # k + 1
      BY <3>1
    <3>3. QED
      BY <3>1, <3>2
  <2>2. CASE Q = {}
    <3>1. R = {f[k + 1]}
      BY <2>2
    <3>2. QED
      BY <3>1 DEF HasExtremes
  <2>3. CASE Q # {}
    <3>1. HasExtremes(Q)
      BY <1>2, <2>1, <2>3
    <3>2. PICK lo, hi \in Q : \A x \in Q : lo <= x /\ x <= hi
      BY <3>1 DEF HasExtremes
    <3>3. CASE f[k + 1] \notin R
      BY <3>2, <3>3 DEF HasExtremes
    <3>4. CASE f[k + 1] \in R
      <4> DEFINE v == f[k + 1]
                 a == IF v < lo THEN v ELSE lo
                 b == IF hi < v THEN v ELSE hi
      <4>1. a \in R /\ b \in R
        BY <3>4
      <4>2. \A x \in R : a <= x /\ x <= b
        <5>1. v \in Int /\ lo \in Int /\ hi \in Int /\ lo <= hi
          BY <3>2, <3>4
        <5>2. a <= v /\ v <= b /\ a <= lo /\ hi <= b /\ a \in Int /\ b \in Int
          BY <5>1
        <5>3. ASSUME NEW x \in R, x # v
              PROVE  a <= x /\ x <= b
          <6>1. lo <= x /\ x <= hi /\ x \in Int
            BY <3>2, <5>3
          <6> HIDE DEF a, b, v
          <6>2. QED
            BY <5>1, <5>2, <6>1
        <5>4. QED
          BY <5>2, <5>3
      <4>3. QED
        BY <4>1, <4>2 DEF HasExtremes
    <3>5. QED
      BY <3>3, <3>4
  <2>4. QED
    BY <2>2, <2>3
<1> HIDE DEF T
<1>3. n \in T
  BY <1>1, <1>2, NaturalSet
<1>4. QED
  BY <1>3 DEF T

LEMMA ExtremesChosen ==
    ASSUME NEW S \in SUBSET Int, HasExtremes(S)
    PROVE  /\ Least(S) \in S /\ Greatest(S) \in S
           /\ \A x \in S : Least(S) <= x /\ x <= Greatest(S)
<1>1. PICK lo, hi \in S : \A x \in S : lo <= x /\ x <= hi
  BY DEF HasExtremes
<1>2. Least(S) \in S /\ \A x \in S : Least(S) <= x
  BY <1>1 DEF Least
<1>3. Greatest(S) \in S /\ \A x \in S : x <= Greatest(S)
  BY <1>1 DEF Greatest
<1>4. QED
  BY <1>2, <1>3

-----------------------------------------------------------------------------
(* The block summary of a batch.                                           *)

(* What append lets in: the known times of a batch are on one clock.       *)
OneKnownClock(batch) ==
    \A i \in 1..Len(batch) : batch[i].times.known.clock = batch[1].times.known.clock

LEMMA BatchFacts ==
    ASSUME NEW batch \in Batches
    PROVE  /\ batch \in Seq(StoredEvent)
           /\ Len(batch) \in Nat \ {0}
           /\ DOMAIN batch = 1..Len(batch)
           /\ \A i \in 1..Len(batch) :
                 /\ batch[i] \in StoredEvent
                 /\ batch[i].entity \in Int
                 /\ batch[i].times.valid.ticks \in Int
                 /\ batch[i].times.known.ticks \in Int
<1>1. batch \in Seq(StoredEvent) /\ batch # <<>>
  BY HistoryAssumption
<1>2. Len(batch) \in Nat \ {0} /\ DOMAIN batch = 1..Len(batch)
  BY <1>1, EmptySeq, LenProperties
<1>3. ASSUME NEW i \in 1..Len(batch)
      PROVE  batch[i] \in StoredEvent
  BY <1>1, ElementOfSeq
<1>4. \A e \in StoredEvent :
          e.entity \in Int /\ e.times.valid.ticks \in Int /\ e.times.known.ticks \in Int
  BY DEF StoredEvent, EventTimes, Timestamp
<1>5. QED
  BY <1>1, <1>2, <1>3, <1>4

(* A zone map brackets every entity of the batch (ZoneMap::update).        *)
LEMMA EntityZone ==
    ASSUME NEW batch \in Batches, NEW i \in 1..Len(batch)
    PROVE  LET zone == Zone({e.entity : e \in Elements(batch)})
           IN  zone.min <= batch[i].entity /\ batch[i].entity <= zone.max
<1> DEFINE S == {e.entity : e \in Elements(batch)}
           f == [j \in 1..Len(batch) |-> batch[j].entity]
<1>1. S \in SUBSET Int /\ batch[i].entity \in S
  BY BatchFacts DEF Elements
<1>2. \A x \in S : \E j \in 1..Len(batch) : x = f[j]
  BY DEF Elements
<1>3. HasExtremes(S)
  <2> HIDE DEF S, f
  <2>1. QED
    BY <1>1, <1>2, BatchFacts, Extremes
<1> HIDE DEF S
<1>4. Least(S) <= batch[i].entity /\ batch[i].entity <= Greatest(S)
  BY <1>1, <1>3, ExtremesChosen
<1>5. QED
  BY <1>4 DEF Zone, S

(* A time zone map brackets the ticks of every timestamp that is on the    *)
(* clock of the first one (TimestampZoneMap::update).                      *)
LEMMA TickZone ==
    ASSUME NEW n \in Nat \ {0}, NEW stamp,
           \A j \in 1..n : stamp[j].ticks \in Int,
           NEW i \in 1..n, stamp[i].clock = stamp[1].clock,
           NEW zone, zone = TimestampZone(stamp[1], {stamp[j] : j \in 1..n})
    PROVE  /\ zone.min <= stamp[i].ticks /\ stamp[i].ticks <= zone.max
           /\ zone.min \in Int /\ zone.max \in Int
           /\ zone.clock = stamp[1].clock
<1> DEFINE on == {s \in {stamp[j] : j \in 1..n} : s.clock = stamp[1].clock}
           S == {t.ticks : t \in on}
           f == [j \in 1..n |-> stamp[j].ticks]
<1>1. S \in SUBSET Int /\ stamp[i].ticks \in S
  OBVIOUS
<1>2. \A x \in S : \E j \in 1..n : x = f[j]
  OBVIOUS
<1>3. HasExtremes(S)
  <2> HIDE DEF S, f
  <2>1. QED
    BY <1>1, <1>2, Extremes
<1> HIDE DEF S
<1>4. /\ Least(S) <= stamp[i].ticks /\ stamp[i].ticks <= Greatest(S)
      /\ Least(S) \in Int /\ Greatest(S) \in Int
  BY <1>1, <1>3, ExtremesChosen
<1>5. TimestampZone(stamp[1], {stamp[j] : j \in 1..n})
      = [clock |-> stamp[1].clock, min |-> Least(S), max |-> Greatest(S)]
  BY DEF TimestampZone, S
<1>6. QED
  BY <1>4, <1>5

(* BlockSummary::matches_filter answers Skip only for a batch without a    *)
(* match: "zero false negatives".                                          *)
LEMMA SummarySound ==
    ASSUME NEW batch \in Batches, OneKnownClock(batch), NEW filter \in Filters,
           NEW i \in 1..Len(batch), Matches(filter, batch[i])
    PROVE  ~Skips(Summary(batch), filter)
<1> DEFINE e == batch[i]
           valid == [j \in 1..Len(batch) |-> batch[j].times.valid]
           known == [j \in 1..Len(batch) |-> batch[j].times.known]
           sum == Summary(batch)
<1>1. Len(batch) \in Nat \ {0} /\ 1 \in 1..Len(batch)
  BY BatchFacts
<1>2. /\ {x.times.valid : x \in Elements(batch)} = {valid[j] : j \in 1..Len(batch)}
      /\ {x.times.known : x \in Elements(batch)} = {known[j] : j \in 1..Len(batch)}
  BY DEF Elements
<1>3. /\ sum.entities = Zone({x.entity : x \in Elements(batch)})
      /\ sum.bloom = UNION {Bits[x.entity] : x \in Elements(batch)}
      /\ sum.valid = TimestampZone(valid[1], {valid[j] : j \in 1..Len(batch)})
      /\ sum.known = TimestampZone(known[1], {known[j] : j \in 1..Len(batch)})
  BY <1>1, <1>2 DEF Summary
<1>4. /\ \A j \in 1..Len(batch) : valid[j].ticks \in Int /\ known[j].ticks \in Int
      /\ valid[i] = e.times.valid /\ known[i] = e.times.known
      /\ e.entity \in Int
  BY BatchFacts
<1>5. known[i].clock = known[1].clock
  BY <1>1 DEF OneKnownClock
<1>6. ASSUME NEW x \in filter.entity
      PROVE  /\ ~(x < sum.entities.min) /\ ~(x > sum.entities.max)
             /\ Bits[x] \subseteq sum.bloom
  <2>1. x = e.entity
    BY DEF Matches
  <2>2. sum.entities.min <= e.entity /\ e.entity <= sum.entities.max
    BY <1>3, EntityZone
  <2>3. sum.entities.min \in Int /\ sum.entities.max \in Int
    <3> DEFINE S == {y.entity : y \in Elements(batch)}
               f == [j \in 1..Len(batch) |-> batch[j].entity]
    <3>1. S \in SUBSET Int /\ S # {}
      BY BatchFacts, <1>1 DEF Elements
    <3>2. \A y \in S : \E j \in 1..Len(batch) : y = f[j]
      BY DEF Elements
    <3> HIDE DEF S, f
    <3>3. Least(S) \in S /\ Greatest(S) \in S
      BY <3>1, <3>2, <1>1, Extremes, ExtremesChosen
    <3>4. QED
      BY <3>1, <3>3, <1>3 DEF Zone, S
  <2>4. e \in Elements(batch)
    BY DEF Elements
  <2>5. Bits[x] \subseteq sum.bloom
    BY <1>3, <2>1, <2>4
  <2> HIDE DEF e, sum
  <2>6. QED
    BY <1>4, <2>1, <2>2, <2>3, <2>5
<1>7. /\ sum.known.min <= e.times.known.ticks /\ e.times.known.ticks <= sum.known.max
      /\ sum.known.min \in Int /\ sum.known.max \in Int
      /\ sum.known.clock = e.times.known.clock
  <2> HIDE DEF known, sum, e
  <2>1. \A j \in 1..Len(batch) : known[j].ticks \in Int
    BY <1>4
  <2>2. /\ sum.known.min <= known[i].ticks /\ known[i].ticks <= sum.known.max
        /\ sum.known.min \in Int /\ sum.known.max \in Int
        /\ sum.known.clock = known[1].clock
    BY <1>1, <1>3, <1>5, <2>1, TickZone
  <2>3. QED
    BY <1>4, <1>5, <2>2
<1>8. ASSUME NEW cutoff \in filter.known_as_of
      PROVE  CanContainKnown(sum.known, cutoff)
  <2>1. e.times.known.ticks <= cutoff.ticks /\ cutoff.ticks \in Int
    BY HistoryAssumption DEF Matches
  <2>2. e.times.known.ticks \in Int
    BY <1>4
  <2> HIDE DEF e, sum
  <2>3. QED
    BY <1>7, <2>1, <2>2 DEF CanContainKnown
<1>9. ASSUME NEW t \in filter.time
      PROVE  /\ t.axis = "valid" => OverlapsRange(sum.valid, t.range)
             /\ t.axis = "known" => OverlapsRange(sum.known, t.range)
  <2>1. PICK ts \in On(e.times, t.axis) : RangeContains(t.range, ts)
    BY DEF Matches
  <2>2. t.range.start \in Int /\ t.range.end \in Int
    BY HistoryAssumption
  <2>3. ASSUME t.axis = "known" PROVE OverlapsRange(sum.known, t.range)
    <3>1. ts = e.times.known
      BY <2>3 DEF On, Some
    <3>2. e.times.known.ticks \in Int
      BY <1>4
    <3> HIDE DEF e, sum
    <3>3. QED
      BY <1>7, <2>1, <2>2, <3>1, <3>2 DEF RangeContains, OverlapsRange
  <2>4. ASSUME t.axis = "valid" PROVE OverlapsRange(sum.valid, t.range)
    <3>1. ts = e.times.valid
      BY <2>4 DEF On, Some
    <3>2. CASE sum.valid.clock # t.range.clock
      BY <3>2 DEF OverlapsRange
    <3>3. CASE sum.valid.clock = t.range.clock
      <4>1. sum.valid.clock = valid[1].clock
        BY <1>3 DEF TimestampZone
      <4>2. valid[i].clock = valid[1].clock
        BY <1>4, <2>1, <3>1, <3>3, <4>1 DEF RangeContains
      <4>3. /\ sum.valid.min <= e.times.valid.ticks
            /\ e.times.valid.ticks <= sum.valid.max
            /\ sum.valid.min \in Int /\ sum.valid.max \in Int
        <5> HIDE DEF valid, sum, e
        <5>1. \A j \in 1..Len(batch) : valid[j].ticks \in Int
          BY <1>4
        <5>2. /\ sum.valid.min <= valid[i].ticks /\ valid[i].ticks <= sum.valid.max
              /\ sum.valid.min \in Int /\ sum.valid.max \in Int
          BY <1>1, <1>3, <4>2, <5>1, TickZone
        <5>3. QED
          BY <1>4, <5>2
      <4>4. e.times.valid.ticks \in Int
        BY <1>4
      <4> HIDE DEF e, sum, valid
      <4>5. QED
        BY <2>1, <2>2, <3>1, <4>3, <4>4 DEF RangeContains, OverlapsRange
    <3>4. QED
      BY <3>2, <3>3
  <2>5. QED
    BY <2>3, <2>4
<1> HIDE DEF e, sum
<1>10. QED
  BY <1>6, <1>8, <1>9 DEF Skips, sum

-----------------------------------------------------------------------------
(* The inductive invariant.                                                *)
Frame == [first : Nat, count : Nat]
QueryState == [filter : Filters, from : Nat, next : Nat, end : Nat]
PageState ==
    [budget : Budgets, next : Nat, limit : Nat, events : Seq(Nat),
     scanned : Nat, bytes : Nat]

HistoryTypeInv ==
    /\ log \in Seq(StoredEvent)
    /\ frames \in Seq(Frame)
    /\ summaries \in Seq({Summary(b) : b \in Batches})
    /\ sealedSegments \in SUBSET Frame
    /\ query \in SUBSET QueryState /\ \A q, r \in query : q = r
    /\ page \in SUBSET PageState /\ \A p, r \in page : p = r
    /\ delivered \in Seq(Nat)

(* A frame holds the events of a batch that append accepted, and is        *)
(* summarized by them; the next one starts where it ends, the last one     *)
(* ends with the log.                                                      *)
FrameHolds(k, b) ==
    /\ OneKnownClock(b)
    /\ summaries[k] = Summary(b)
    /\ frames[k].count = Len(b)
    /\ \A i \in 1..Len(b) : log[frames[k].first + i] = b[i]

FrameInv ==
    /\ Len(summaries) = Len(frames)
    /\ \A k \in 1..Len(frames) :
          /\ frames[k].first + frames[k].count <= Len(log)
          /\ frames[k].first + frames[k].count =
                IF k = Len(frames) THEN Len(log) ELSE frames[k + 1].first
          /\ \E b \in Batches : FrameHolds(k, b)

(* The cursor stays between the start and the end of its snapshot, the     *)
(* page goes on from the cursor.                                           *)
CursorInv ==
    /\ page # None => query # None
    /\ \A q \in query :
          /\ q.from <= q.next /\ q.next <= q.end /\ q.end <= Len(log)
          /\ \A p \in page : q.next <= p.next /\ p.next <= Len(log)

HistoryInv == HistoryTypeInv /\ FrameInv /\ CursorInv /\ PagesAreOneScan

-----------------------------------------------------------------------------
LEMMA HitsMember ==
    ASSUME NEW filter, NEW a, NEW b, NEW s
    PROVE  s \in Hits(filter, a, b) <=> s \in a..(b - 1) /\ Matches(filter, log[s + 1])
BY Zenon DEF Hits

(* A frame that history passes over holds no match.                        *)
LEMMA FramesSound ==
    ASSUME HistoryTypeInv, FrameInv
    PROVE  SkipIsSound
<1> SUFFICES ASSUME NEW k \in 1..Len(frames), NEW filter \in Filters,
                    Skips(summaries[k], filter),
                    NEW s \in Hits(filter, frames[k].first, frames[k].first + frames[k].count)
             PROVE  FALSE
  BY DEF SkipIsSound
<1>0. /\ s \in frames[k].first..((frames[k].first + frames[k].count) - 1)
      /\ Matches(filter, log[s + 1])
  BY HitsMember
<1>1. PICK b \in Batches : FrameHolds(k, b)
  BY DEF FrameInv
<1>2. frames[k] \in Frame
  BY ElementOfSeq DEF HistoryTypeInv
<1>3. frames[k].first \in Nat /\ Len(b) \in Nat
  BY <1>2, BatchFacts DEF Frame
<1> DEFINE i == s + 1 - frames[k].first
<1>4. i \in 1..Len(b) /\ frames[k].first + i = s + 1
  BY <1>0, <1>1, <1>3 DEF FrameHolds
<1>5. log[s + 1] = b[i]
  BY <1>1, <1>4 DEF FrameHolds
<1>6. QED
  BY <1>0, <1>1, <1>4, <1>5, SummarySound DEF FrameHolds

(* Two ranges of hits, one after the other.                                *)
LEMMA HitsSplit ==
    ASSUME NEW filter, NEW a \in Nat, NEW b \in Nat, NEW c \in Nat, a <= b, b <= c
    PROVE  Hits(filter, a, c) = Hits(filter, a, b) \union Hits(filter, b, c)
BY DEF Hits

(* Two ascending listings of consecutive ranges make one.                  *)
LEMMA ListingConcat ==
    ASSUME NEW filter, NEW a \in Nat, NEW b \in Nat, NEW c \in Nat, a <= b, b <= c,
           NEW left \in Seq(Nat), NEW right \in Seq(Nat),
           Listing(left, Hits(filter, a, b)), Listing(right, Hits(filter, b, c))
    PROVE  Listing(left \o right, Hits(filter, a, c))
<1> DEFINE both == left \o right
<1>1. /\ both \in Seq(Nat) /\ Len(both) = Len(left) + Len(right)
      /\ Len(left) \in Nat /\ Len(right) \in Nat
      /\ \A i \in 1..Len(both) :
            both[i] = IF i <= Len(left) THEN left[i] ELSE right[i - Len(left)]
  BY ConcatProperties, LenProperties
<1>2. ASSUME NEW i \in 1..Len(left)
      PROVE  left[i] \in Hits(filter, a, b) /\ left[i] < b /\ left[i] \in Nat
  <2>1. left[i] \in Hits(filter, a, b)
    BY DEF Listing
  <2>2. QED
    BY <2>1 DEF Hits
<1>3. ASSUME NEW i \in 1..Len(right)
      PROVE  right[i] \in Hits(filter, b, c) /\ b <= right[i] /\ right[i] \in Nat
  <2>1. right[i] \in Hits(filter, b, c)
    BY DEF Listing
  <2>2. QED
    BY <2>1 DEF Hits
<1>4. ASSUME NEW x
      PROVE  (\E i \in 1..Len(both) : both[i] = x) <=>
             (x \in Hits(filter, a, b) \/ x \in Hits(filter, b, c))
  <2>1. ASSUME NEW i \in 1..Len(both), both[i] = x
        PROVE  x \in Hits(filter, a, b) \/ x \in Hits(filter, b, c)
    <3>1. CASE i <= Len(left)
      BY <1>1, <1>2, <2>1, <3>1
    <3>2. CASE ~(i <= Len(left))
      <4>1. i - Len(left) \in 1..Len(right) /\ both[i] = right[i - Len(left)]
        BY <1>1, <3>2
      <4>2. QED
        BY <1>3, <2>1, <4>1
    <3>3. QED
      BY <3>1, <3>2
  <2>2. ASSUME x \in Hits(filter, a, b)
        PROVE  \E i \in 1..Len(both) : both[i] = x
    <3>1. PICK i \in 1..Len(left) : left[i] = x
      BY <2>2 DEF Listing
    <3>2. i \in 1..Len(both) /\ both[i] = x
      BY <1>1, <3>1
    <3>3. QED
      BY <3>2
  <2>3. ASSUME x \in Hits(filter, b, c)
        PROVE  \E i \in 1..Len(both) : both[i] = x
    <3>1. PICK i \in 1..Len(right) : right[i] = x
      BY <2>3 DEF Listing
    <3>2. i + Len(left) \in 1..Len(both) /\ both[i + Len(left)] = right[i]
      BY <1>1
    <3>3. QED
      BY <3>1, <3>2
  <2>4. QED
    BY <2>1, <2>2, <2>3
<1>5. {both[i] : i \in 1..Len(both)} = Hits(filter, a, c)
  <2>1. Hits(filter, a, c) = Hits(filter, a, b) \union Hits(filter, b, c)
    BY HitsSplit
  <2> HIDE DEF both
  <2>2. QED
    BY <1>4, <2>1
<1>6. ASSUME NEW i \in 1..Len(both), NEW j \in 1..Len(both), i < j
      PROVE  both[i] < both[j]
  <2>1. CASE j <= Len(left)
    BY <1>1, <1>6, <2>1 DEF Listing
  <2>2. CASE i > Len(left)
    <3>1. /\ i - Len(left) \in 1..Len(right) /\ j - Len(left) \in 1..Len(right)
          /\ i - Len(left) < j - Len(left)
          /\ both[i] = right[i - Len(left)] /\ both[j] = right[j - Len(left)]
      BY <1>1, <1>6, <2>2
    <3>2. QED
      BY <3>1 DEF Listing
  <2>3. CASE i <= Len(left) /\ j > Len(left)
    <3>1. /\ i \in 1..Len(left) /\ j - Len(left) \in 1..Len(right)
          /\ both[i] = left[i] /\ both[j] = right[j - Len(left)]
      BY <1>1, <1>6, <2>3
    <3>2. left[i] < b /\ left[i] \in Nat /\ b <= right[j - Len(left)] /\ right[j - Len(left)] \in Nat
      BY <1>2, <1>3, <3>1
    <3>3. \A l, r \in Nat : l < b /\ b <= r => l < r
      OBVIOUS
    <3>4. left[i] < right[j - Len(left)]
      BY <3>2, <3>3
    <3>5. QED
      BY <3>1, <3>4, Zenon
  <2>4. QED
    BY <1>1, <1>6, <2>1, <2>2, <2>3
<1>7. QED
  BY <1>5, <1>6 DEF Listing

(* No hits, no listing.                                                    *)
LEMMA ListingEmpty ==
    ASSUME NEW filter, NEW a \in Nat
    PROVE  Listing(<<>>, Hits(filter, a, a))
BY DEF Listing, Hits

(* A range without a hit adds nothing.                                     *)
LEMMA ListingSkip ==
    ASSUME NEW filter, NEW a \in Nat, NEW b \in Nat, NEW c \in Nat, a <= b, b <= c,
           NEW events, Listing(events, Hits(filter, a, b)), Hits(filter, b, c) = {}
    PROVE  Listing(events, Hits(filter, a, c))
<1>1. Hits(filter, a, c) = Hits(filter, a, b) \union Hits(filter, b, c)
  BY DEF Hits
<1>2. Hits(filter, a, c) = Hits(filter, a, b)
  BY <1>1
<1>3. QED
  BY <1>2

-----------------------------------------------------------------------------
(* Initially there is nothing.                                             *)
LEMMA InitInv == Init => HistoryInv
<1> SUFFICES ASSUME Init PROVE HistoryInv
  OBVIOUS
<1> USE DEF Init, None
<1>1. HistoryTypeInv
  BY EmptySeq DEF HistoryTypeInv
<1>2. FrameInv /\ CursorInv /\ PagesAreOneScan
  BY EmptySeq DEF FrameInv, CursorInv, PagesAreOneScan
<1>3. QED
  BY <1>1, <1>2 DEF HistoryInv

(* append's check of the known times makes them agree on the clock: each   *)
(* agrees with the one before it.                                          *)
LEMMA CommitOneClock ==
    ASSUME HistoryTypeInv, NEW batch \in Batches,
           \A i \in (Len(log) + 1)..Len(log \o batch) :
              i > 1 => (log \o batch)[i].times.known.clock
                          = (log \o batch)[i - 1].times.known.clock
    PROVE  OneKnownClock(batch)
<1> DEFINE clock(i) == batch[i].times.known.clock
           T == {n \in Nat : n + 1 \in 1..Len(batch) => clock(n + 1) = clock(1)}
<1>1. log \in Seq(StoredEvent) /\ batch \in Seq(StoredEvent) /\ Len(batch) \in Nat /\ Len(log) \in Nat
  BY BatchFacts DEF HistoryTypeInv
<1>2. 0 \in T
  OBVIOUS
<1>3. ASSUME NEW n \in Nat, n \in T
      PROVE  n + 1 \in T
  <2> SUFFICES ASSUME n + 2 \in 1..Len(batch)
               PROVE  clock(n + 2) = clock(1)
    OBVIOUS
  <2>1. clock(n + 1) = clock(1)
    BY <1>1, <1>3
  <2> DEFINE i == Len(log) + n + 2
  <2>2. /\ i \in (Len(log) + 1)..Len(log \o batch) /\ i > 1
        /\ (log \o batch)[i] = batch[n + 2] /\ (log \o batch)[i - 1] = batch[n + 1]
    BY <1>1
  <2>3. QED
    BY <2>1, <2>2
<1> HIDE DEF T
<1>4. \A n \in Nat : n \in T
  BY <1>2, <1>3, NaturalSet
<1>5. ASSUME NEW i \in 1..Len(batch)
      PROVE  clock(i) = clock(1)
  <2>1. i - 1 \in T /\ i - 1 + 1 = i
    BY <1>4
  <2>2. QED
    BY <2>1 DEF T
<1>6. QED
  BY <1>5 DEF OneKnownClock

LEMMA FrameType ==
    ASSUME NEW fs \in Seq(Frame), NEW k \in 1..Len(fs)
    PROVE  fs[k].first \in Nat /\ fs[k].count \in Nat
<1>1. fs[k] \in Frame
  BY ElementOfSeq
<1>2. QED
  BY <1>1 DEF Frame

LEMMA ConcatOne ==
    ASSUME NEW S, NEW s \in Seq(S), NEW e \in S
    PROVE  /\ s \o <<e>> \in Seq(S) /\ Len(s) \in Nat /\ Len(s \o <<e>>) = Len(s) + 1
           /\ \A k \in 1..Len(s) : (s \o <<e>>)[k] = s[k]
           /\ (s \o <<e>>)[Len(s) + 1] = e
OBVIOUS

(* append: the new frame is summarized by its own batch, the others are    *)
(* where they were.                                                        *)
LEMMA CommitInv ==
    ASSUME HistoryInv, NEW batch \in Batches, Commit(batch)
    PROVE  HistoryInv'
<1>0. HistoryTypeInv /\ FrameInv /\ CursorInv /\ PagesAreOneScan
  BY DEF HistoryInv
<1>1. /\ log \in Seq(StoredEvent) /\ batch \in Seq(StoredEvent)
      /\ Len(batch) \in Nat \ {0} /\ Len(log) \in Nat
      /\ frames \in Seq(Frame) /\ Len(frames) \in Nat
      /\ Len(summaries) = Len(frames)
  BY <1>0, BatchFacts, LenProperties DEF HistoryTypeInv, FrameInv
<1> DEFINE frame == [first |-> Len(log), count |-> Len(batch)]
<1>2. /\ log' = log \o batch /\ frames' = frames \o <<frame>>
      /\ summaries' = summaries \o <<Summary(batch)>>
      /\ UNCHANGED <<sealedSegments, query, page, delivered>> /\ page = None
  BY DEF Commit
<1>3. /\ log' \in Seq(StoredEvent) /\ Len(log') = Len(log) + Len(batch)
      /\ \A i \in 1..Len(log) : log'[i] = log[i]
      /\ \A i \in 1..Len(batch) : log'[Len(log) + i] = batch[i]
  BY <1>1, <1>2
<1>4. frame \in Frame
  BY <1>1 DEF Frame
<1>5. /\ frames' \in Seq(Frame) /\ Len(frames') = Len(frames) + 1
      /\ \A k \in 1..Len(frames) : frames'[k] = frames[k]
      /\ frames'[Len(frames) + 1] = frame
  <2> HIDE DEF frame
  <2>1. QED
    BY <1>1, <1>2, <1>4, ConcatOne
<1> DEFINE Sums == {Summary(b) : b \in Batches}
<1>6. /\ summaries' \in Seq(Sums) /\ Len(summaries') = Len(summaries) + 1
      /\ \A k \in 1..Len(frames) : summaries'[k] = summaries[k]
      /\ summaries'[Len(frames) + 1] = Summary(batch)
  <2>1. summaries \in Seq(Sums) /\ Summary(batch) \in Sums
    BY <1>0 DEF HistoryTypeInv
  <2> DEFINE sum == Summary(batch)
  <2> HIDE DEF Sums, sum
  <2>2. /\ summaries \o <<sum>> \in Seq(Sums) /\ Len(summaries \o <<sum>>) = Len(summaries) + 1
        /\ \A k \in 1..Len(summaries) : (summaries \o <<sum>>)[k] = summaries[k]
        /\ (summaries \o <<sum>>)[Len(summaries) + 1] = sum
    <3>1. sum \in Sums
      BY <2>1 DEF sum
    <3>2. QED
      BY <2>1, <3>1, ConcatOne
  <2>3. QED
    BY <1>1, <1>2, <2>2 DEF sum
<1>7. HistoryTypeInv'
  BY <1>0, <1>2, <1>3, <1>5, <1>6 DEF HistoryTypeInv
<1>8. FrameInv'
  <2>1. Len(summaries') = Len(frames')
    BY <1>1, <1>5, <1>6
  <2>2. ASSUME NEW k \in 1..Len(frames)
        PROVE  /\ frames'[k].first + frames'[k].count <= Len(log')
               /\ frames'[k].first + frames'[k].count = frames'[k + 1].first
               /\ \E b \in Batches : FrameHolds(k, b)'
    <3>1. frames[k].first \in Nat /\ frames[k].count \in Nat
      BY <1>1, FrameType
    <3>2. /\ frames[k].first + frames[k].count <= Len(log)
          /\ frames[k].first + frames[k].count =
                IF k = Len(frames) THEN Len(log) ELSE frames[k + 1].first
      BY <1>0 DEF FrameInv
    <3>3. PICK b \in Batches : FrameHolds(k, b)
      BY <1>0 DEF FrameInv
    <3>4. frames'[k].first + frames'[k].count = frames'[k + 1].first
      <4>1. CASE k = Len(frames)
        BY <1>5, <3>2, <4>1
      <4>2. CASE k # Len(frames)
        BY <1>1, <1>5, <3>2, <4>2
      <4>3. QED
        BY <4>1, <4>2
    <3>5. FrameHolds(k, b)'
      <4>1. frames'[k] = frames[k] /\ summaries'[k] = summaries[k]
        BY <1>5, <1>6
      <4>2. ASSUME NEW i \in 1..Len(b)
            PROVE  log'[frames[k].first + i] = b[i]
        <5>1. Len(b) = frames[k].count /\ log[frames[k].first + i] = b[i]
          BY <3>3 DEF FrameHolds
        <5>2. frames[k].first + i \in 1..Len(log)
          BY <1>1, <3>1, <3>2, <5>1
        <5>3. QED
          BY <1>3, <5>1, <5>2
      <4>3. QED
        BY <3>3, <4>1, <4>2 DEF FrameHolds, OneKnownClock
    <3>6. QED
      BY <1>1, <1>3, <1>5, <3>1, <3>2, <3>4, <3>5
  <2>3. OneKnownClock(batch)
    BY <1>0, CommitOneClock DEF Commit
  <2>4. ASSUME NEW k, k = Len(frames) + 1
        PROVE  FrameHolds(k, batch)'
    <3>1. frames'[Len(frames) + 1].first = Len(log) /\ frames'[Len(frames) + 1].count = Len(batch)
      BY <1>5
    <3>2. QED
      BY <1>3, <1>6, <2>3, <2>4, <3>1 DEF FrameHolds, OneKnownClock
  <2>5. frames'[Len(frames) + 1].first + frames'[Len(frames) + 1].count = Len(log')
    BY <1>3, <1>5
  <2>6. ASSUME NEW k \in 1..Len(frames')
        PROVE  /\ frames'[k].first + frames'[k].count <= Len(log')
               /\ frames'[k].first + frames'[k].count =
                     IF k = Len(frames') THEN Len(log') ELSE frames'[k + 1].first
               /\ \E b \in Batches : FrameHolds(k, b)'
    <3>1. CASE k = Len(frames) + 1
      <4>1. Len(log') \in Nat /\ k = Len(frames')
        BY <1>1, <1>3, <1>5, <3>1
      <4>2. FrameHolds(k, batch)'
        BY <2>4, <3>1
      <4>3. QED
        BY <2>5, <3>1, <4>1, <4>2
    <3>2. CASE k # Len(frames) + 1
      <4>1. k \in 1..Len(frames) /\ k # Len(frames')
        BY <1>1, <1>5, <3>2
      <4>2. QED
        BY <2>2, <4>1
    <3>3. QED
      BY <3>1, <3>2
  <2>7. QED
    BY <2>1, <2>6 DEF FrameInv
<1>9. CursorInv'
  BY <1>0, <1>1, <1>2, <1>3 DEF CursorInv, HistoryTypeInv, QueryState, None
<1>10. PagesAreOneScan'
  <2> SUFFICES ASSUME NEW q \in query
               PROVE  Listing(delivered, Hits(q.filter, q.from, q.next)')
    <3>1. page' = {} /\ query' = query /\ delivered' = delivered
      BY <1>2 DEF None
    <3>2. QED
      BY <3>1 DEF PagesAreOneScan, Listing
  <2>1. q.from \in Nat /\ q.next \in Nat /\ q.next <= Len(log)
    BY <1>0, <1>1 DEF CursorInv, HistoryTypeInv, QueryState
  <2>2. Hits(q.filter, q.from, q.next)' = Hits(q.filter, q.from, q.next)
    <3>1. ASSUME NEW s \in q.from..(q.next - 1) PROVE log'[s + 1] = log[s + 1]
      <4>1. s + 1 \in 1..Len(log)
        BY <1>1, <2>1
      <4>2. QED
        BY <1>3, <4>1
    <3>2. QED
      BY <3>1 DEF Hits
  <2>3. QED
    BY <1>0, <2>2 DEF PagesAreOneScan
<1>11. QED
  BY <1>7, <1>8, <1>9, <1>10 DEF HistoryInv

LEMMA QueryType ==
    ASSUME HistoryTypeInv, NEW q \in query
    PROVE  /\ q \in QueryState /\ q.filter \in Filters
           /\ q.from \in Nat /\ q.next \in Nat /\ q.end \in Nat
BY DEF HistoryTypeInv, QueryState

LEMMA PageType ==
    ASSUME HistoryTypeInv, NEW p \in page
    PROVE  /\ p \in PageState /\ p.budget \in Budgets
           /\ p.next \in Nat /\ p.limit \in Nat /\ p.events \in Seq(Nat)
           /\ p.scanned \in Nat /\ p.bytes \in Nat
BY DEF HistoryTypeInv, PageState

(* seal adds sealedSegments and leaves the frames where they are.                *)
LEMMA SealInv ==
    ASSUME HistoryInv, Seal
    PROVE  HistoryInv'
<1>0. HistoryTypeInv /\ FrameInv /\ CursorInv /\ PagesAreOneScan
  BY DEF HistoryInv
<1>1. UNCHANGED <<log, frames, summaries, query, page, delivered>>
  BY DEF Seal
<1>2. sealedSegments' \in SUBSET Frame
  <2>1. \A k \in 1..Len(frames) : frames[k] \in Frame
    BY <1>0, ElementOfSeq DEF HistoryTypeInv
  <2>2. QED
    BY <1>0, <2>1 DEF Seal, HistoryTypeInv
<1>3. HistoryTypeInv'
  BY <1>0, <1>1, <1>2 DEF HistoryTypeInv
<1>4. FrameInv'
  BY <1>0, <1>1 DEF FrameInv, FrameHolds
<1>5. CursorInv' /\ PagesAreOneScan'
  BY <1>0, <1>1 DEF CursorInv, PagesAreOneScan, Hits
<1>6. QED
  BY <1>3, <1>4, <1>5 DEF HistoryInv

LEMMA Suffix ==
    ASSUME NEW S, NEW s \in Seq(S), NEW n \in 1..Len(s)
    PROVE  /\ SubSeq(s, n + 1, Len(s)) \in Seq(S)
           /\ Len(SubSeq(s, n + 1, Len(s))) = Len(s) - n
           /\ \A k \in 1..(Len(s) - n) : SubSeq(s, n + 1, Len(s))[k] = s[k + n]
<1>1. Len(s) \in Nat /\ n + 1 \in Nat
  OBVIOUS
<1>2. Len(SubSeq(s, n + 1, Len(s))) = Len(s) - n
  BY <1>1
<1>3. \A k \in 1..(Len(s) - n) : SubSeq(s, n + 1, Len(s))[k] = s[k + n]
  BY <1>1
<1>4. \A k \in 1..Len(s) : s[k] \in S
  BY ElementOfSeq
<1>5. SubSeq(s, n + 1, Len(s)) \in Seq(S)
  BY <1>1, <1>4
<1>6. QED
  BY <1>2, <1>3, <1>5

(* retire_wal drops frames and their summaries together.                   *)
LEMMA RetireInv ==
    ASSUME HistoryInv, NEW n, Retire(n)
    PROVE  HistoryInv'
<1>0. HistoryTypeInv /\ FrameInv /\ CursorInv /\ PagesAreOneScan
  BY DEF HistoryInv
<1>1. /\ UNCHANGED <<log, sealedSegments, query, page, delivered>> /\ n \in 1..Len(frames)
      /\ frames' = SubSeq(frames, n + 1, Len(frames))
      /\ summaries' = SubSeq(summaries, n + 1, Len(summaries))
  BY DEF Retire
<1>2. frames \in Seq(Frame) /\ Len(frames) \in Nat /\ Len(summaries) = Len(frames)
  BY <1>0, LenProperties DEF HistoryTypeInv, FrameInv
<1>3. /\ frames' \in Seq(Frame) /\ Len(frames') = Len(frames) - n
      /\ \A k \in 1..(Len(frames) - n) : frames'[k] = frames[k + n]
  BY <1>1, <1>2, Suffix
<1> DEFINE Sums == {Summary(b) : b \in Batches}
<1>4. /\ summaries' \in Seq(Sums) /\ Len(summaries') = Len(frames) - n
      /\ \A k \in 1..(Len(frames) - n) : summaries'[k] = summaries[k + n]
  <2>1. summaries \in Seq(Sums)
    BY <1>0 DEF HistoryTypeInv
  <2> HIDE DEF Sums
  <2>2. QED
    BY <1>1, <1>2, <2>1, Suffix
<1>5. HistoryTypeInv'
  BY <1>0, <1>1, <1>3, <1>4 DEF HistoryTypeInv
<1>6. FrameInv'
  <2> SUFFICES ASSUME NEW k \in 1..Len(frames')
               PROVE  /\ frames'[k].first + frames'[k].count <= Len(log')
                      /\ frames'[k].first + frames'[k].count =
                            IF k = Len(frames') THEN Len(log') ELSE frames'[k + 1].first
                      /\ \E b \in Batches : FrameHolds(k, b)'
    BY <1>3, <1>4 DEF FrameInv
  <2>1. /\ k \in 1..(Len(frames) - n) /\ k + n \in 1..Len(frames)
        /\ frames'[k] = frames[k + n] /\ summaries'[k] = summaries[k + n]
    BY <1>1, <1>2, <1>3, <1>4
  <2>2. /\ frames[k + n].first + frames[k + n].count <= Len(log)
        /\ frames[k + n].first + frames[k + n].count =
              IF k + n = Len(frames) THEN Len(log) ELSE frames[k + n + 1].first
    <3>1. k + n + 1 = k + (n + 1) /\ (k + n) + 1 = k + n + 1
      BY <1>1, <2>1
    <3>2. QED
      BY <1>0, <2>1, <3>1 DEF FrameInv
  <2>3. PICK b \in Batches : FrameHolds(k + n, b)
    BY <1>0, <2>1 DEF FrameInv
  <2>4. FrameHolds(k, b)'
    BY <1>1, <2>1, <2>3 DEF FrameHolds
  <2>5. frames'[k].first + frames'[k].count =
            IF k = Len(frames') THEN Len(log') ELSE frames'[k + 1].first
    <3>1. CASE k = Len(frames')
      BY <1>1, <1>2, <1>3, <2>1, <2>2, <3>1
    <3>2. CASE k # Len(frames')
      <4>1. /\ k + 1 \in 1..(Len(frames) - n) /\ k + n # Len(frames)
            /\ k + 1 + n = k + n + 1
        BY <1>1, <1>2, <1>3, <2>1, <3>2
      <4>2. frames'[k + 1] = frames[k + n + 1]
        BY <1>3, <4>1
      <4>3. QED
        BY <2>1, <2>2, <3>2, <4>1, <4>2
    <3>3. QED
      BY <3>1, <3>2
  <2>6. QED
    BY <1>1, <2>1, <2>2, <2>4, <2>5
<1>7. CursorInv' /\ PagesAreOneScan'
  BY <1>0, <1>1 DEF CursorInv, PagesAreOneScan, Hits
<1>8. QED
  BY <1>5, <1>6, <1>7 DEF HistoryInv

(* A new query starts with nothing delivered.                              *)
LEMMA StartQueryInv ==
    ASSUME HistoryInv, NEW filter \in Filters, NEW from \in Nat, StartQuery(filter, from)
    PROVE  HistoryInv'
<1>0. HistoryTypeInv /\ FrameInv /\ CursorInv /\ PagesAreOneScan
  BY DEF HistoryInv
<1> DEFINE q == [filter |-> filter, from |-> from, next |-> from, end |-> Len(log)]
<1>1. /\ UNCHANGED <<log, frames, summaries, sealedSegments, page>> /\ page = {} /\ from <= Len(log)
      /\ query' = {q} /\ delivered' = <<>>
  BY DEF StartQuery, Some, None
<1>2. Len(log) \in Nat /\ q \in QueryState
  BY <1>0, LenProperties DEF HistoryTypeInv, QueryState
<1>3. HistoryTypeInv'
  <2> HIDE DEF q
  <2>1. QED
    BY <1>0, <1>1, <1>2, EmptySeq DEF HistoryTypeInv
<1>4. FrameInv'
  BY <1>0, <1>1 DEF FrameInv, FrameHolds
<1>5. CursorInv'
  BY <1>1, <1>2 DEF CursorInv, None
<1>6. PagesAreOneScan'
  <2>1. Listing(<<>>, Hits(filter, from, from)')
    BY DEF Hits, Listing
  <2>2. q.filter = filter /\ q.from = from /\ q.next = from
    OBVIOUS
  <2> HIDE DEF q
  <2>3. QED
    BY <1>1, <2>1, <2>2 DEF PagesAreOneScan, Listing
<1>7. QED
  BY <1>3, <1>4, <1>5, <1>6 DEF HistoryInv

(* A refused query is given up.                                            *)
LEMMA RefuseInv ==
    ASSUME HistoryInv, Refuse
    PROVE  HistoryInv'
<1>0. HistoryTypeInv /\ FrameInv /\ CursorInv /\ PagesAreOneScan
  BY DEF HistoryInv
<1>1. UNCHANGED <<log, frames, summaries, sealedSegments, page, delivered>> /\ page = {} /\ query' = {}
  BY DEF Refuse, None
<1>2. HistoryTypeInv'
  BY <1>0, <1>1 DEF HistoryTypeInv
<1>3. FrameInv'
  BY <1>0, <1>1 DEF FrameInv, FrameHolds
<1>4. CursorInv' /\ PagesAreOneScan'
  BY <1>1 DEF CursorInv, PagesAreOneScan, None
<1>5. QED
  BY <1>2, <1>3, <1>4 DEF HistoryInv

(* A page that is lost leaves the client where it was.                     *)
LEMMA PageLost ==
    ASSUME HistoryInv, page' = None,
           UNCHANGED <<log, frames, summaries, sealedSegments, query, delivered>>
    PROVE  HistoryInv'
<1>0. HistoryTypeInv /\ FrameInv /\ CursorInv /\ PagesAreOneScan
  BY DEF HistoryInv
<1>1. page' = {}
  BY DEF None
<1>2. HistoryTypeInv'
  BY <1>0, <1>1 DEF HistoryTypeInv
<1>3. FrameInv'
  BY <1>0, <1>1 DEF FrameInv, FrameHolds
<1>4. CursorInv' /\ PagesAreOneScan'
  BY <1>0, <1>1 DEF CursorInv, PagesAreOneScan, Hits, None
<1>5. QED
  BY <1>2, <1>3, <1>4 DEF HistoryInv

(* A step of the page under way that lists what it has passed.             *)
LEMMA PageStep ==
    ASSUME HistoryInv, NEW q \in query, NEW p \in PageState, page' = {p},
           UNCHANGED <<log, frames, summaries, sealedSegments, query, delivered>>,
           q.next <= p.next, p.next <= Len(log),
           Listing(p.events, Hits(q.filter, q.next, p.next))
    PROVE  HistoryInv'
<1>0. HistoryTypeInv /\ FrameInv /\ CursorInv /\ PagesAreOneScan
  BY DEF HistoryInv
<1>1. \A r \in query : r = q
  BY <1>0 DEF HistoryTypeInv
<1>2. HistoryTypeInv'
  BY <1>0 DEF HistoryTypeInv
<1>3. FrameInv'
  BY <1>0 DEF FrameInv, FrameHolds
<1>4. CursorInv'
  BY <1>0, <1>1 DEF CursorInv, None
<1>5. PagesAreOneScan'
  <2>1. ASSUME NEW a, NEW b PROVE Hits(q.filter, a, b)' = Hits(q.filter, a, b)
    BY DEF Hits
  <2>2. Listing(delivered, Hits(q.filter, q.from, q.next))
    BY <1>0 DEF PagesAreOneScan
  <2>3. QED
    BY <1>1, <2>1, <2>2 DEF PagesAreOneScan
<1>6. QED
  BY <1>2, <1>3, <1>4, <1>5 DEF HistoryInv

(* history starts a page at the client's cursor.                           *)
LEMMA BeginPageInv ==
    ASSUME HistoryInv, NEW budget \in Budgets, BeginPage(budget)
    PROVE  HistoryInv'
<1>0. HistoryTypeInv /\ CursorInv
  BY DEF HistoryInv
<1>1. PICK q \in query :
          page' = Some([budget |-> budget, next |-> q.next, limit |-> q.next,
                        events |-> <<>>, scanned |-> 0, bytes |-> 0])
  BY DEF BeginPage
<1> DEFINE p == [budget |-> budget, next |-> q.next, limit |-> q.next,
                 events |-> <<>>, scanned |-> 0, bytes |-> 0]
<1>2. /\ q.next \in Nat /\ q.next <= q.end /\ q.end \in Nat /\ q.end <= Len(log)
      /\ Len(log) \in Nat
  BY <1>0, QueryType, LenProperties DEF CursorInv, HistoryTypeInv
<1>3. p \in PageState /\ page' = {p} /\ p.next = q.next /\ p.events = <<>>
  BY <1>1, <1>2, EmptySeq DEF PageState, Some
<1>4. Listing(p.events, Hits(q.filter, q.next, p.next))
  BY <1>2, <1>3, ListingEmpty
<1> HIDE DEF p
<1>5. UNCHANGED <<log, frames, summaries, sealedSegments, query, delivered>>
  BY DEF BeginPage
<1>6. q.next <= p.next /\ p.next <= Len(log)
  BY <1>2, <1>3
<1>7. QED
  BY <1>3, <1>4, <1>5, <1>6, PageStep

(* frame_index_for_sequence finds the frame that holds the sequence.       *)
LEMMA FrameAround ==
    ASSUME HistoryTypeInv, FrameInv, NEW s \in Nat, s < Len(log), NEW k \in FrameIndex(s)
    PROVE  /\ k \in 1..Len(frames)
           /\ frames[k].first \in Nat /\ frames[k].count \in Nat
           /\ frames[k].first <= s /\ s < frames[k].first + frames[k].count
           /\ frames[k].first + frames[k].count <= Len(log)
<1>1. /\ k \in 1..Len(frames) /\ frames[k].first <= s
      /\ \A j \in 1..Len(frames) : frames[j].first <= s => j <= k
  BY DEF FrameIndex
<1>2. frames \in Seq(Frame) /\ Len(frames) \in Nat /\ Len(log) \in Nat
  BY LenProperties DEF HistoryTypeInv
<1>3. frames[k].first \in Nat /\ frames[k].count \in Nat
  BY <1>1, <1>2, FrameType
<1>4. /\ frames[k].first + frames[k].count <= Len(log)
      /\ frames[k].first + frames[k].count =
            IF k = Len(frames) THEN Len(log) ELSE frames[k + 1].first
  BY <1>1 DEF FrameInv
<1>5. CASE k = Len(frames)
  BY <1>1, <1>3, <1>4, <1>5
<1>6. CASE k # Len(frames)
  <2>1. k + 1 \in 1..Len(frames) /\ ~(k + 1 <= k)
    BY <1>1, <1>2, <1>6
  <2>2. frames[k + 1].first \in Nat /\ ~(frames[k + 1].first <= s)
    BY <1>1, <1>2, <2>1, FrameType
  <2>3. QED
    BY <1>1, <1>3, <1>4, <1>6, <2>2
<1>7. QED
  BY <1>5, <1>6

(* What the scan knows of the query and the page it works on.              *)
LEMMA ScanFacts ==
    ASSUME HistoryInv, NEW q \in query, NEW p \in page
    PROVE  /\ q.filter \in Filters /\ q.from \in Nat /\ q.next \in Nat /\ q.end \in Nat
           /\ p \in PageState /\ p.next \in Nat /\ p.limit \in Nat /\ p.events \in Seq(Nat)
           /\ p.scanned \in Nat /\ p.bytes \in Nat
           /\ q.from <= q.next /\ q.next <= p.next /\ p.next <= Len(log) /\ Len(log) \in Nat
           /\ q.end <= Len(log)
           /\ Listing(delivered, Hits(q.filter, q.from, q.next))
           /\ Listing(p.events, Hits(q.filter, q.next, p.next))
<1>0. HistoryTypeInv /\ CursorInv /\ PagesAreOneScan
  BY DEF HistoryInv
<1>1. Len(log) \in Nat
  BY <1>0, LenProperties DEF HistoryTypeInv
<1>2. /\ q.from <= q.next /\ q.next <= p.next /\ p.next <= Len(log)
      /\ q.end <= Len(log)
  BY <1>0 DEF CursorInv
<1>3. /\ Listing(delivered, Hits(q.filter, q.from, q.next))
      /\ Listing(p.events, Hits(q.filter, q.next, p.next))
  BY <1>0 DEF PagesAreOneScan
<1>4. QED
  BY <1>0, <1>1, <1>2, <1>3, QueryType, PageType

(* A skipped frame holds no match, so the page still lists all it passed.  *)
LEMMA SkipFrameInv ==
    ASSUME HistoryInv, SkipFrame
    PROVE  HistoryInv'
<1>0. HistoryTypeInv /\ FrameInv
  BY DEF HistoryInv
<1>1. PICK q \in query, p \in page :
          /\ AtBlock(q, p) /\ PassedOver(q, p)
          /\ \E k \in FrameIndex(p.next) :
                page' = Some([p EXCEPT !.next = frames[k].first + frames[k].count])
          /\ UNCHANGED <<log, frames, summaries, sealedSegments, query, delivered, failures>>
  BY DEF SkipFrame
<1>2. PICK k \in FrameIndex(p.next) :
          page' = Some([p EXCEPT !.next = frames[k].first + frames[k].count])
  BY <1>1
<1>3. PICK j \in FrameIndex(p.next) : Skips(summaries[j], q.filter)
  BY <1>1 DEF PassedOver
<1>4. p.next < Len(log) /\ p.next \in Nat /\ Len(log) \in Nat /\ q.filter \in Filters
  BY <1>1, ScanFacts DEF AtBlock
<1> DEFINE first == frames[k].first
           next == frames[k].first + frames[k].count
<1>5. /\ k \in 1..Len(frames) /\ first \in Nat /\ next \in Nat
      /\ first <= p.next /\ p.next < next /\ next <= Len(log)
  BY <1>0, <1>4, FrameAround
<1>6. j = k
  <2>1. k \in 1..Len(frames) /\ j \in 1..Len(frames) /\ j <= k /\ k <= j
    BY DEF FrameIndex
  <2>2. QED
    BY <2>1
<1>7. Hits(q.filter, first, next) = {}
  BY <1>0, <1>3, <1>4, <1>5, <1>6, FramesSound DEF SkipIsSound
<1> HIDE DEF first, next
<1>8. Hits(q.filter, p.next, next) = {}
  BY <1>4, <1>5, <1>7 DEF Hits
<1>9. Listing(p.events, Hits(q.filter, q.next, next))
  <2>1. /\ q.next \in Nat /\ q.next <= p.next /\ p.next <= next
        /\ p.next \in Nat /\ next \in Nat
        /\ Listing(p.events, Hits(q.filter, q.next, p.next))
    BY <1>1, <1>4, <1>5, ScanFacts
  <2>2. QED
    BY <1>8, <2>1, ListingSkip
<1> DEFINE r == [p EXCEPT !.next = next]
<1>10. page' = {r}
  BY <1>2 DEF Some, next
<1>11. r \in PageState /\ r.next = next /\ r.events = p.events
  BY <1>1, <1>5, ScanFacts DEF PageState
<1> HIDE DEF r
<1>12. /\ q.next <= r.next /\ r.next <= Len(log)
       /\ Listing(r.events, Hits(q.filter, q.next, r.next))
  <2>1. q.next \in Nat /\ q.next <= p.next
    BY <1>1, ScanFacts
  <2>2. QED
    BY <1>4, <1>5, <1>9, <1>11, <2>1
<1>13. QED
  BY <1>1, <1>10, <1>11, <1>12, PageStep

(* Reading a block only moves the limit and the budget used.               *)
LEMMA ReadBlockInv ==
    ASSUME HistoryInv, ReadBlock
    PROVE  HistoryInv'
<1>0. HistoryTypeInv
  BY DEF HistoryInv
<1>1. PICK q \in query, p \in page : \E b \in Block(p.next) :
          /\ page' = Some([p EXCEPT !.limit = b.first + b.count,
                                    !.scanned = @ + b.count,
                                    !.bytes = @ + b.bytes])
          /\ UNCHANGED <<log, frames, summaries, sealedSegments, query, delivered, failures>>
  BY Zenon DEF ReadBlock
<1>2. PICK b \in Block(p.next) :
          /\ page' = Some([p EXCEPT !.limit = b.first + b.count,
                                    !.scanned = @ + b.count,
                                    !.bytes = @ + b.bytes])
          /\ UNCHANGED <<log, frames, summaries, sealedSegments, query, delivered, failures>>
  BY <1>1, Zenon
<1>3. b.first \in Nat /\ b.count \in Nat /\ b.bytes \in Nat
  <2>1. FrameOverhead \in Nat /\ SegmentOverhead \in Nat
    BY HistoryAssumption
  <2>2. CASE FrameIndex(p.next) # {}
    <3>1. PICK k \in FrameIndex(p.next) :
              b = [first |-> frames[k].first, count |-> frames[k].count,
                   bytes |-> frames[k].count + FrameOverhead]
      BY <2>2 DEF Block
    <3>2. k \in 1..Len(frames) /\ frames \in Seq(Frame)
      BY <1>0 DEF FrameIndex, HistoryTypeInv
    <3>3. frames[k].first \in Nat /\ frames[k].count \in Nat
      BY <3>2, FrameType
    <3>4. QED
      BY <2>1, <3>1, <3>3
  <2>3. CASE FrameIndex(p.next) = {}
    <3>1. PICK seg \in sealedSegments :
              b = [first |-> seg.first, count |-> seg.count,
                   bytes |-> seg.count + SegmentOverhead]
      BY <2>3 DEF Block
    <3>2. seg.first \in Nat /\ seg.count \in Nat
      BY <1>0 DEF HistoryTypeInv, Frame
    <3>3. QED
      BY <2>1, <3>1, <3>2
  <2>4. QED
    BY <2>2, <2>3
<1> DEFINE limit == b.first + b.count
           scanned == p.scanned + b.count
           bytes == p.bytes + b.bytes
           r == [p EXCEPT !.limit = limit, !.scanned = scanned, !.bytes = bytes]
<1>4. page' = {r}
  BY <1>2 DEF Some
<1>5. p \in PageState /\ limit \in Nat /\ scanned \in Nat /\ bytes \in Nat
  <2>1. p \in PageState /\ p.scanned \in Nat /\ p.bytes \in Nat
    BY <1>0, PageType
  <2>2. QED
    BY <1>3, <2>1
<1> HIDE DEF limit, scanned, bytes
<1>6. r \in PageState /\ r.next = p.next /\ r.events = p.events
  BY <1>5 DEF PageState
<1> HIDE DEF r
<1>7. /\ q.next <= r.next /\ r.next <= Len(log)
      /\ Listing(r.events, Hits(q.filter, q.next, r.next))
  BY <1>1, <1>6, ScanFacts
<1>8. QED
  BY <1>2, <1>4, <1>6, <1>7, PageStep

(* Taking a record passes one event, and lists it when it matches.         *)
LEMMA TakeRecordInv ==
    ASSUME HistoryInv, TakeRecord
    PROVE  HistoryInv'
<1>1. PICK q \in query, p \in page :
          /\ p.next < p.limit /\ p.next < q.end
          /\ page' = Some([p EXCEPT !.next = @ + 1,
                !.events = IF Matches(q.filter, log[p.next + 1])
                           THEN @ \o <<p.next>> ELSE @])
          /\ UNCHANGED <<log, frames, summaries, sealedSegments, query, delivered, failures>>
  BY Zenon DEF TakeRecord
<1> DEFINE next == p.next + 1
           one == IF Matches(q.filter, log[p.next + 1]) THEN <<p.next>> ELSE <<>>
           r == [p EXCEPT !.next = next, !.events = p.events \o one]
<1>2. /\ q.next \in Nat /\ p.next \in Nat /\ q.next <= p.next /\ p \in PageState
      /\ p.events \in Seq(Nat) /\ p.next + 1 <= Len(log)
      /\ Listing(p.events, Hits(q.filter, q.next, p.next))
  <2>1. q.end \in Nat /\ Len(log) \in Nat /\ q.end <= Len(log) /\ p.next \in Nat
    BY <1>1, ScanFacts
  <2>2. p.next + 1 <= Len(log)
    BY <1>1, <2>1
  <2>3. QED
    BY <1>1, <2>2, ScanFacts
<1>3. page' = {r}
  <2>1. CASE Matches(q.filter, log[p.next + 1])
    BY <1>1, <2>1 DEF Some
  <2>2. CASE ~Matches(q.filter, log[p.next + 1])
    <3>1. p.events \o <<>> = p.events
      BY <1>2, ConcatEmptySeq
    <3>2. QED
      BY <1>1, <2>2, <3>1 DEF Some
  <2>3. QED
    BY <2>1, <2>2
<1>4. one \in Seq(Nat) /\ Listing(one, Hits(q.filter, p.next, next))
  <2>1. CASE Matches(q.filter, log[p.next + 1])
    <3>1. Hits(q.filter, p.next, next) = {p.next}
      BY <1>2, <2>1 DEF Hits
    <3>2. one = <<p.next>>
      BY <2>1
    <3>3. QED
      BY <1>2, <3>1, <3>2 DEF Listing
  <2>2. CASE ~Matches(q.filter, log[p.next + 1])
    <3>1. Hits(q.filter, p.next, next) = {}
      BY <1>2, <2>2 DEF Hits
    <3>2. one = <<>>
      BY <2>2
    <3>3. QED
      BY <3>1, <3>2 DEF Listing
  <2>3. QED
    BY <2>1, <2>2
<1>5. p.events \o one \in Seq(Nat)
  BY <1>2, <1>4, ConcatProperties
<1>6. next \in Nat /\ q.next <= next /\ p.next <= next /\ next <= Len(log)
  BY <1>2
<1> HIDE DEF one, next
<1>7. Listing(p.events \o one, Hits(q.filter, q.next, next))
  BY <1>2, <1>4, <1>6, ListingConcat
<1>8. r \in PageState /\ r.next = next /\ r.events = p.events \o one
  BY <1>2, <1>5, <1>6 DEF PageState
<1> HIDE DEF r
<1>9. /\ q.next <= r.next /\ r.next <= Len(log)
      /\ Listing(r.events, Hits(q.filter, q.next, r.next))
  BY <1>6, <1>7, <1>8
<1>10. QED
  BY <1>1, <1>3, <1>8, <1>9, PageStep

(* The page joins the pages before it, and the cursor moves to its end.    *)
LEMMA FinishPageInv ==
    ASSUME HistoryInv, FinishPage
    PROVE  HistoryInv'
<1>0. HistoryTypeInv /\ FrameInv
  BY DEF HistoryInv
<1>1. PICK q \in query, p \in page :
          /\ delivered' = delivered \o p.events
          /\ query' = IF p.next < q.end THEN Some([q EXCEPT !.next = p.next]) ELSE None
          /\ page' = None
          /\ UNCHANGED <<log, frames, summaries, sealedSegments, failures>>
  BY DEF FinishPage
<1>2. /\ q.from \in Nat /\ q.next \in Nat /\ q.end \in Nat /\ p.next \in Nat
      /\ q.from <= q.next /\ q.next <= p.next /\ q.end <= Len(log)
      /\ p.events \in Seq(Nat)
      /\ Listing(delivered, Hits(q.filter, q.from, q.next))
      /\ Listing(p.events, Hits(q.filter, q.next, p.next))
  BY <1>1, ScanFacts
<1>3. q \in QueryState /\ delivered \in Seq(Nat)
  BY <1>0 DEF HistoryTypeInv
<1>4. delivered' \in Seq(Nat)
  BY <1>1, <1>2, <1>3, ConcatProperties
<1>5. Listing(delivered', Hits(q.filter, q.from, p.next))
  BY <1>1, <1>2, <1>3, ListingConcat
<1> DEFINE r == [q EXCEPT !.next = p.next]
<1>6. /\ r \in QueryState /\ r.next = p.next /\ r.filter = q.filter /\ r.from = q.from
      /\ r.end = q.end
  BY <1>2, <1>3 DEF QueryState
<1>7. query' \subseteq {r} /\ (query' # {} => p.next < q.end) /\ page' = {}
  BY <1>1 DEF Some, None
<1> HIDE DEF r
<1>8. HistoryTypeInv'
  BY <1>0, <1>1, <1>4, <1>6, <1>7 DEF HistoryTypeInv
<1>9. FrameInv'
  BY <1>0, <1>1 DEF FrameInv, FrameHolds
<1>10. CursorInv'
  BY <1>1, <1>2, <1>6, <1>7 DEF CursorInv, None
<1>11. PagesAreOneScan'
  <2>1. Hits(q.filter, q.from, p.next)' = Hits(q.filter, q.from, p.next)
    BY <1>1 DEF Hits
  <2>2. QED
    BY <1>1, <1>5, <1>6, <1>7, <2>1 DEF PagesAreOneScan, Hits
<1>12. QED
  BY <1>8, <1>9, <1>10, <1>11 DEF HistoryInv

(***************************************************************************)
(* The invariant of paged history: types, frames that stand for the        *)
(* batches their summaries were made of, cursors within their snapshots,   *)
(* and pages that list what they passed.                                   *)
(***************************************************************************)
THEOREM HistoryInvariant == Spec => []HistoryInv
<1>1. Init => HistoryInv
  BY InitInv
<1>2. ASSUME HistoryInv, [Next]_vars
      PROVE  HistoryInv'
  <2>1. CASE Owner
    <3>1. CASE \E batch \in Batches : Commit(batch)
      BY <1>2, <3>1, CommitInv
    <3>2. CASE Seal
      BY <1>2, <3>2, SealInv
    <3>3. CASE \E n \in 1..MaxEvents : Retire(n)
      BY <1>2, <3>3, RetireInv
    <3>4. QED
      BY <2>1, <3>1, <3>2, <3>3 DEF Owner
  <2>2. CASE Client
    <3>1. CASE \E filter \in Filters, from \in 0..MaxEvents : StartQuery(filter, from)
      <4>1. PICK filter \in Filters, from \in 0..MaxEvents : StartQuery(filter, from)
        BY <3>1
      <4>2. from \in Nat
        BY HistoryAssumption
      <4>3. QED
        BY <1>2, <4>1, <4>2, StartQueryInv
    <3>2. CASE \E budget \in Budgets : BeginPage(budget)
      BY <1>2, <3>2, BeginPageInv
    <3>3. CASE Refuse
      BY <1>2, <3>3, RefuseInv
    <3>4. QED
      BY <2>2, <3>1, <3>2, <3>3 DEF Client
  <2>3. CASE Scan
    <3>1. CASE BudgetTooSmall
      BY <1>2, <3>1, PageLost DEF BudgetTooSmall
    <3>2. QED
      BY <1>2, <2>3, <3>1, SkipFrameInv, ReadBlockInv, TakeRecordInv, FinishPageInv DEF Scan
  <2>4. CASE ReadFails
    BY <1>2, <2>4, PageLost DEF ReadFails
  <2>5. CASE UNCHANGED vars
    <3>1. UNCHANGED <<log, frames, summaries, sealedSegments, query, page, delivered>>
      BY <2>5 DEF vars
    <3>2. HistoryTypeInv' /\ FrameInv' /\ CursorInv'
      BY <1>2, <3>1 DEF HistoryInv, HistoryTypeInv, FrameInv, FrameHolds, CursorInv
    <3>3. PagesAreOneScan'
      BY <1>2, <3>1 DEF HistoryInv, PagesAreOneScan, Hits
    <3>4. QED
      BY <3>2, <3>3 DEF HistoryInv
  <2>6. QED
    BY <1>2, <2>1, <2>2, <2>3, <2>4, <2>5 DEF Next
<1>3. QED
  BY <1>1, <1>2, PTL DEF Spec

(***************************************************************************)
(* history never passes over a match: in every reachable state a frame its *)
(* summary excludes for a filter holds no event that matches the filter    *)
(* (BlockSummary::matches_filter, "zero false negatives").                 *)
(***************************************************************************)
THEOREM HistorySkipIsSound == Spec => []SkipIsSound
<1>1. HistoryInv => SkipIsSound
  BY FramesSound DEF HistoryInv
<1>2. QED
  BY <1>1, HistoryInvariant, PTL

(***************************************************************************)
(* The pages a client of Store::history gets are one scan of the matching  *)
(* events from its start to its cursor, in order, without loss or repeat,  *)
(* whatever is appended, sealed, retired, refused or lost in between.      *)
(***************************************************************************)
THEOREM HistoryPagesAreOneScan == Spec => []PagesAreOneScan
<1>1. HistoryInv => PagesAreOneScan
  BY DEF HistoryInv
<1>2. QED
  BY <1>1, HistoryInvariant, PTL
==============================================================================
