---------------------------- MODULE MemoryProofs ----------------------------
(***************************************************************************)
(* The volatile tier, for every capacity, every set of filters, budgets    *)
(* and times, and any batches of other shards' events: the slab under the  *)
(* demo's operations is still a slab, the present it holds is the end of   *)
(* the recorded past, the log's pages are one scan, and what the log knows *)
(* about a past moment is settled.                                         *)
(***************************************************************************)
EXTENDS Memory, FiniteSetTheorems, FunctionTheorems, SequenceTheorems,
        WellFoundedInduction, TLAPS

-----------------------------------------------------------------------------
(* A StateSlab is a map with never-reused identities, for every capacity   *)
(* and every width of the index and generation counters.                   *)

(* Dense arrays and slots point at each other.                             *)
Linked ==
    /\ Len(values) = Len(denseSlots)
    /\ Len(slots) <= Capacity
    /\ \A i \in 1..Len(denseSlots) :
          /\ denseSlots[i] < Len(slots)
          /\ slots[denseSlots[i] + 1].dense = i - 1
    /\ \A k \in 1..Len(slots) :
          slots[k].dense # VACANT =>
              /\ slots[k].dense < Len(denseSlots)
              /\ denseSlots[slots[k].dense + 1] = k - 1

(* The free stack holds vacant slots, once each, and every vacant slot     *)
(* that still has a generation left.                                       *)
Freed ==
    /\ \A i \in 1..Len(freeSlots) :
          /\ freeSlots[i] < Len(slots)
          /\ slots[freeSlots[i] + 1].dense = VACANT
    /\ \A i, j \in 1..Len(freeSlots) : freeSlots[i] = freeSlots[j] => i = j
    /\ \A k \in 1..Len(slots) :
          slots[k].dense = VACANT =>
              \/ slots[k].generation = GenerationMax
              \/ \E i \in 1..Len(freeSlots) : freeSlots[i] = k - 1

(* No identity is ahead of its slot, and a freed slot is ahead of all of   *)
(* its identities: this is what makes the next identity a new one.         *)
Ahead ==
    /\ \A id \in issued :
          /\ id.shard = Shard
          /\ id.slot < Len(slots)
          /\ id.generation <= slots[id.slot + 1].generation
    /\ \A i \in 1..Len(freeSlots) : \A id \in issued :
          id.slot = freeSlots[i] =>
              id.generation < slots[id.slot + 1].generation

SlabInv == SlabTypeOK /\ Linked /\ Freed /\ Ahead

-----------------------------------------------------------------------------
(* Swap-removal yields a sequence one shorter with the hole filled.        *)
LEMMA SwapRemoveFacts ==
    ASSUME NEW S, NEW s \in Seq(S), NEW i \in 1..Len(s)
    PROVE  /\ SwapRemove(s, i) \in Seq(S)
           /\ Len(SwapRemove(s, i)) = Len(s) - 1
           /\ \A k \in 1..(Len(s) - 1) :
                 SwapRemove(s, i)[k] = IF k = i THEN s[Len(s)] ELSE s[k]
<1>1. /\ Len(s) \in Nat \ {0}
      /\ \A k \in 1..Len(s) : s[k] \in S
  BY LenProperties
<1>2. \A k \in 1..(Len(s) - 1) : (IF k = i THEN s[Len(s)] ELSE s[k]) \in S
  BY <1>1
<1>3. SwapRemove(s, i) \in [1..(Len(s) - 1) -> S]
  BY <1>2, Zenon DEF SwapRemove
<1>4. Len(s) - 1 \in Nat
  BY <1>1
<1>5. SwapRemove(s, i) \in Seq(S)
  BY <1>3, <1>4, SeqDef
<1>6. DOMAIN SwapRemove(s, i) = 1..(Len(s) - 1)
  BY Zenon DEF SwapRemove
<1>7. Len(SwapRemove(s, i)) = Len(s) - 1
  BY <1>4, <1>5, <1>6, LenProperties
<1> QED
  BY <1>5, <1>7, Zenon DEF SwapRemove

(* Popping the free stack.                                                 *)
LEMMA PopFacts ==
    ASSUME NEW S, NEW s \in Seq(S), s # <<>>
    PROVE  /\ Pop(s) \in Seq(S)
           /\ Len(Pop(s)) = Len(s) - 1
           /\ \A k \in 1..(Len(s) - 1) : Pop(s)[k] = s[k]
           /\ Len(s) \in 1..Len(s)
<1>1. Len(s) \in Nat \ {0} /\ \A k \in 1..Len(s) : s[k] \in S
  BY LenProperties, EmptySeq
<1>2. /\ Pop(s) \in Seq(S)
      /\ Len(Pop(s)) = IF 1 <= Len(s) - 1 THEN (Len(s) - 1) - 1 + 1 ELSE 0
  <2>1. \A k \in 1..(Len(s) - 1) : s[k] \in S
    BY <1>1
  <2>2. Len(s) - 1 \in Int /\ 1 \in Int
    BY <1>1
  <2>3. ASSUME NEW m \in Int, NEW n \in Int, \A k \in m..n : s[k] \in S
        PROVE  /\ SubSeq(s, m, n) \in Seq(S)
               /\ Len(SubSeq(s, m, n)) = IF m <= n THEN n - m + 1 ELSE 0
    BY <2>3, SubSeqProperties, Zenon
  <2> QED
    BY <2>1, <2>2, <2>3, Zenon DEF Pop
<1>4. Len(Pop(s)) = Len(s) - 1
  <2>1. \A n \in Nat \ {0} :
           (IF 1 <= n - 1 THEN (n - 1) - 1 + 1 ELSE 0) = n - 1
    OBVIOUS
  <2> QED
    BY <1>1, <1>2, <2>1, Zenon
<1>3. \A k \in 1..(Len(s) - 1) : Pop(s)[k] = s[k]
  BY <1>1 DEF Pop
<1> QED
  BY <1>1, <1>2, <1>3, <1>4

(* Live values never outnumber the slots, and a vacant slot leaves room.   *)
LEMMA RoomForOne ==
    ASSUME SlabTypeOK, Linked
    PROVE  /\ Len(denseSlots) <= Len(slots)
           /\ \A k \in 1..Len(slots) :
                 slots[k].dense = VACANT => Len(denseSlots) < Len(slots)
<1> DEFINE D == 1..Len(denseSlots)
           T == 1..Len(slots)
           f == [i \in D |-> denseSlots[i] + 1]
<1>1. Len(denseSlots) \in Nat /\ Len(slots) \in Nat
  BY LenProperties DEF SlabTypeOK
<1>2. \A i \in D : denseSlots[i] \in 0..IndexMax
  BY <1>1, LenProperties DEF SlabTypeOK
<1>3. \A i \in D : denseSlots[i] + 1 \in T
  BY <1>1, <1>2, SlabAssumption DEF Linked
<1>4. \A i, j \in D : denseSlots[i] + 1 = denseSlots[j] + 1 => i = j
  BY <1>1, <1>2, SlabAssumption DEF Linked
<1>0. ASSUME NEW n \in Nat
      PROVE  IsFiniteSet(1..n) /\ Cardinality(1..n) = n
  <2>1. 1 \in Int /\ n \in Int
    OBVIOUS
  <2>2. /\ IsFiniteSet(1..n)
        /\ Cardinality(1..n) = IF 1 > n THEN 0 ELSE n - 1 + 1
    BY <2>1, FS_Interval, Zenon
  <2>3. (IF 1 > n THEN 0 ELSE n - 1 + 1) = n
    OBVIOUS
  <2> QED
    BY <2>2, <2>3
<1>5. IsFiniteSet(D) /\ Cardinality(D) = Len(denseSlots)
  BY <1>0, <1>1
<1>6. IsFiniteSet(T) /\ Cardinality(T) = Len(slots)
  BY <1>0, <1>1
<1>7. ASSUME NEW U, IsFiniteSet(U), \A i \in D : denseSlots[i] + 1 \in U
      PROVE  Cardinality(D) <= Cardinality(U)
  <2>1. f \in [D -> U]
    BY <1>7, Zenon
  <2>2. \A i, j \in D : f[i] = f[j] => i = j
    BY <1>4, Zenon
  <2>3. SUFFICES ASSUME Cardinality(U) < Cardinality(D) PROVE FALSE
    BY <1>5, <1>7, FS_CardinalityType
  <2> HIDE DEF D, f
  <2>4. \E x, y \in D : x # y /\ f[x] = f[y]
    BY <1>5, <1>7, <2>1, <2>3, FS_PigeonHole, Zenon
  <2> QED
    BY <2>2, <2>4
<1>8. Len(denseSlots) <= Len(slots)
  BY <1>3, <1>5, <1>6, <1>7
<1>9. ASSUME NEW k \in T, slots[k].dense = VACANT
      PROVE  Len(denseSlots) < Len(slots)
  <2>1. \A i \in D : denseSlots[i] + 1 # k
    <3> SUFFICES ASSUME NEW i \in D, denseSlots[i] + 1 = k PROVE FALSE
      OBVIOUS
    <3>1. slots[k].dense = i - 1
      BY DEF Linked
    <3>2. i - 1 < Capacity
      BY <1>1, <1>8, SlabAssumption DEF Linked
    <3> QED
      BY <1>9, <3>1, <3>2, SlabAssumption DEF VACANT
  <2>2. IsFiniteSet(T \ {k}) /\ Cardinality(T \ {k}) = Len(slots) - 1
    BY <1>6, FS_RemoveElement
  <2>3. Cardinality(D) <= Cardinality(T \ {k})
    BY <1>3, <1>7, <2>1, <2>2
  <2> QED
    BY <1>1, <1>5, <2>2, <2>3
<1> QED
  BY <1>8, <1>9

-----------------------------------------------------------------------------
LEMMA WithDense ==
    ASSUME NEW r \in Slot, NEW d
    PROVE  [r EXCEPT !.dense = d] = [dense |-> d, generation |-> r.generation]
BY DEF Slot

(* What each operation does to the arrays, element by element.             *)
LEMMA PlaceFacts ==
    ASSUME SlabTypeOK, NEW s \in 0..IndexMax, NEW g \in 0..GenerationMax,
           NEW v \in Values, Place(s, g, v)
    PROVE  /\ values' \in Seq(Values)
           /\ Len(values') = Len(values) + 1
           /\ \A i \in 1..Len(values) : values'[i] = values[i]
           /\ values'[Len(values) + 1] = v
           /\ denseSlots' \in Seq(0..IndexMax)
           /\ Len(denseSlots') = Len(denseSlots) + 1
           /\ \A i \in 1..Len(denseSlots) : denseSlots'[i] = denseSlots[i]
           /\ denseSlots'[Len(denseSlots) + 1] = s
           /\ issued' = issued \cup
                 {[shard |-> Shard, slot |-> s, generation |-> g]}
           /\ issued' \subseteq EntityId
<1>1. [shard |-> Shard, slot |-> s, generation |-> g] \in EntityId
  BY SlabAssumption DEF EntityId
<1> QED
  BY <1>1, AppendProperties DEF SlabTypeOK, Place

LEMMA InsertReusedFacts ==
    ASSUME SlabInv, NEW v \in Values, InsertReused(v)
    PROVE  \E s \in 0..IndexMax :
             /\ Len(freeSlots) \in 1..Len(freeSlots)
             /\ s = freeSlots[Len(freeSlots)]
             /\ s < Len(slots)
             /\ s + 1 \in 1..Len(slots)
             /\ slots[s + 1].dense = VACANT
             /\ Len(values) < Capacity
             /\ Len(values) \in 0..IndexMax
             /\ Place(s, slots[s + 1].generation, v)
             /\ slots[s + 1].generation \in 0..GenerationMax
             /\ slots' \in Seq(Slot)
             /\ Len(slots') = Len(slots)
             /\ \A k \in 1..Len(slots) : slots'[k] =
                   IF k = s + 1
                   THEN [dense |-> Len(values), generation |-> slots[k].generation]
                   ELSE slots[k]
             /\ freeSlots' \in Seq(0..IndexMax)
             /\ Len(freeSlots') = Len(freeSlots) - 1
             /\ \A i \in 1..(Len(freeSlots) - 1) : freeSlots'[i] = freeSlots[i]
<1> DEFINE s == freeSlots[Len(freeSlots)]
<1>1. /\ freeSlots' = Pop(freeSlots)
      /\ slots' = [slots EXCEPT ![s + 1].dense = Len(values)]
      /\ Place(s, slots[s + 1].generation, v)
      /\ freeSlots # <<>>
  BY DEF InsertReused
<1>2. /\ freeSlots' \in Seq(0..IndexMax)
      /\ Len(freeSlots') = Len(freeSlots) - 1
      /\ \A i \in 1..(Len(freeSlots) - 1) : freeSlots'[i] = freeSlots[i]
      /\ Len(freeSlots) \in 1..Len(freeSlots)
  BY <1>1, PopFacts DEF SlabInv, SlabTypeOK
<1>3. s \in 0..IndexMax /\ Len(slots) \in Nat /\ Len(values) \in Nat
  BY <1>2, LenProperties DEF SlabInv, SlabTypeOK
<1>4. s < Len(slots) /\ slots[s + 1].dense = VACANT
  BY <1>2 DEF SlabInv, Freed
<1>5. s + 1 \in 1..Len(slots)
  BY <1>3, <1>4, SlabAssumption
<1>6. Len(values) < Capacity
  <2>1. Len(denseSlots) < Len(slots)
    BY <1>4, <1>5, RoomForOne DEF SlabInv
  <2>2. Len(values) = Len(denseSlots) /\ Len(slots) <= Capacity
    BY DEF SlabInv, Linked
  <2> QED
    BY <1>3, <2>1, <2>2, SlabAssumption
<1>7. Len(values) \in 0..IndexMax
  BY <1>3, <1>6, SlabAssumption
<1>8. \A k \in 1..Len(slots) : slots[k] \in Slot
  BY LenProperties DEF SlabInv, SlabTypeOK
<1>9. /\ slots' \in Seq(Slot)
      /\ Len(slots') = Len(slots)
      /\ \A k \in 1..Len(slots) : slots'[k] =
            IF k = s + 1
            THEN [dense |-> Len(values), generation |-> slots[k].generation]
            ELSE slots[k]
  <2> DEFINE e == [dense |-> Len(values), generation |-> slots[s + 1].generation]
  <2>1. slots[s + 1] \in Slot /\ slots \in Seq(Slot)
    BY <1>5, <1>8 DEF SlabInv, SlabTypeOK
  <2>2. e \in Slot /\ e = [slots[s + 1] EXCEPT !.dense = Len(values)]
    <3>1. e \in Slot
      BY <1>7, <2>1 DEF Slot
    <3> QED
      BY <2>1, <3>1, WithDense
  <2>3. slots' = [slots EXCEPT ![s + 1] = e]
    BY <1>1, <2>2, Zenon
  <2> HIDE DEF e, s
  <2>4. /\ slots' \in Seq(Slot)
        /\ Len(slots') = Len(slots)
        /\ \A k \in 1..Len(slots) :
              slots'[k] = IF k = s + 1 THEN e ELSE slots[k]
    BY <1>5, <2>1, <2>2, <2>3, ExceptSeq
  <2> QED
    BY <2>4 DEF e
<1>10. slots[s + 1].generation \in 0..GenerationMax
  BY <1>5, <1>8 DEF Slot
<1> QED
  BY <1>1, <1>2, <1>3, <1>4, <1>5, <1>6, <1>7, <1>9, <1>10

LEMMA InsertFreshFacts ==
    ASSUME SlabInv, NEW v \in Values, InsertFresh(v)
    PROVE  /\ Len(slots) < Capacity
           /\ Len(slots) \in 0..IndexMax
           /\ Len(values) < Capacity
           /\ Len(values) \in 0..IndexMax
           /\ Place(Len(slots), 0, v)
           /\ slots' \in Seq(Slot)
           /\ Len(slots') = Len(slots) + 1
           /\ \A k \in 1..Len(slots) : slots'[k] = slots[k]
           /\ slots'[Len(slots) + 1] = [dense |-> Len(values), generation |-> 0]
           /\ freeSlots = <<>>
           /\ freeSlots' = freeSlots
<1>1. /\ Len(slots) # Capacity
      /\ slots' = Append(slots, [dense |-> Len(values), generation |-> 0])
      /\ Place(Len(slots), 0, v)
      /\ freeSlots = <<>> /\ freeSlots' = freeSlots
  BY DEF InsertFresh
<1>2. Len(slots) \in Nat /\ Len(values) \in Nat
  BY LenProperties DEF SlabInv, SlabTypeOK
<1>3. Len(slots) < Capacity
  BY <1>1, <1>2, SlabAssumption DEF SlabInv, Linked
<1>4. Len(values) < Capacity
  BY <1>2, <1>3, RoomForOne, SlabAssumption DEF SlabInv, Linked
<1>5. [dense |-> Len(values), generation |-> 0] \in Slot
  BY <1>2, <1>4, SlabAssumption DEF Slot
<1>6. /\ slots' \in Seq(Slot)
      /\ Len(slots') = Len(slots) + 1
      /\ \A k \in 1..Len(slots) : slots'[k] = slots[k]
      /\ slots'[Len(slots) + 1] = [dense |-> Len(values), generation |-> 0]
  BY <1>1, <1>5, AppendProperties DEF SlabInv, SlabTypeOK
<1> QED
  BY <1>1, <1>2, <1>3, <1>4, <1>6, SlabAssumption

LEMMA ResolvesFacts ==
    ASSUME SlabInv, NEW id \in EntityId, Resolves(id)
    PROVE  /\ id.slot + 1 \in 1..Len(slots)
           /\ slots[id.slot + 1] \in Slot
           /\ id.generation = slots[id.slot + 1].generation
           /\ slots[id.slot + 1].dense # VACANT
           /\ slots[id.slot + 1].dense + 1 \in 1..Len(denseSlots)
           /\ slots[id.slot + 1].dense + 1 \in 1..Len(values)
           /\ denseSlots[slots[id.slot + 1].dense + 1] = id.slot
           /\ id = [shard |-> Shard, slot |-> id.slot,
                    generation |-> slots[id.slot + 1].generation]
<1>1. id.slot \in 0..IndexMax /\ id.generation \in 0..GenerationMax
  BY DEF EntityId
<1>2. Len(slots) \in Nat /\ Len(denseSlots) \in Nat /\ Len(values) = Len(denseSlots)
  BY LenProperties DEF SlabInv, SlabTypeOK, Linked
<1>3. id.slot + 1 \in 1..Len(slots)
  BY <1>1, <1>2, SlabAssumption DEF Resolves
<1>4. slots[id.slot + 1] \in Slot
  BY <1>3, LenProperties DEF SlabInv, SlabTypeOK
<1>5. slots[id.slot + 1].dense \in 0..IndexMax
  BY <1>4 DEF Slot
<1>6. /\ slots[id.slot + 1].dense < Len(denseSlots)
      /\ denseSlots[slots[id.slot + 1].dense + 1] = (id.slot + 1) - 1
  BY <1>3 DEF SlabInv, Linked, Resolves
<1>7. id = [shard |-> Shard, slot |-> id.slot,
            generation |-> slots[id.slot + 1].generation]
  BY DEF EntityId, Resolves
<1> QED
  BY <1>1, <1>2, <1>3, <1>4, <1>5, <1>6, <1>7, SlabAssumption DEF Resolves

LEMMA RemoveFacts ==
    ASSUME SlabInv, NEW id \in EntityId, Remove(id)
    PROVE  \E d \in 0..IndexMax, m \in 0..IndexMax, g \in 0..GenerationMax :
             /\ d = slots[id.slot + 1].dense
             /\ g = slots[id.slot + 1].generation
             /\ m = denseSlots[Len(denseSlots)]
             /\ m + 1 \in 1..Len(slots)
             /\ slots[m + 1].dense = Len(denseSlots) - 1
             /\ values' \in Seq(Values)
             /\ Len(values') = Len(values) - 1
             /\ \A i \in 1..(Len(values) - 1) : values'[i] =
                   IF i = d + 1 THEN values[Len(values)] ELSE values[i]
             /\ denseSlots' \in Seq(0..IndexMax)
             /\ Len(denseSlots') = Len(denseSlots) - 1
             /\ \A i \in 1..(Len(denseSlots) - 1) : denseSlots'[i] =
                   IF i = d + 1 THEN m ELSE denseSlots[i]
             /\ slots' \in Seq(Slot)
             /\ Len(slots') = Len(slots)
             /\ \A k \in 1..Len(slots) : slots'[k] =
                   IF k = id.slot + 1
                   THEN [dense |-> VACANT,
                         generation |-> IF g < GenerationMax THEN g + 1 ELSE g]
                   ELSE IF k = m + 1
                   THEN [dense |-> d, generation |-> slots[k].generation]
                   ELSE slots[k]
             /\ freeSlots' = IF g < GenerationMax
                             THEN Append(freeSlots, id.slot) ELSE freeSlots
             /\ freeSlots' \in Seq(0..IndexMax)
             /\ issued' = issued
<1> DEFINE d == slots[id.slot + 1].dense
           g == slots[id.slot + 1].generation
           m == denseSlots[Len(denseSlots)]
<1>1. /\ values' = SwapRemove(values, d + 1)
      /\ denseSlots' = SwapRemove(denseSlots, d + 1)
      /\ slots' = [k \in 1..Len(slots) |->
                IF k = id.slot + 1
                THEN [dense |-> VACANT,
                      generation |-> IF g < GenerationMax THEN g + 1 ELSE g]
                ELSE IF k = m + 1
                THEN [slots[k] EXCEPT !.dense = d]
                ELSE slots[k]]
      /\ freeSlots' = IF g < GenerationMax
                      THEN Append(freeSlots, id.slot) ELSE freeSlots
      /\ issued' = issued
      /\ Resolves(id)
  BY DEF Remove
<1>2. /\ id.slot + 1 \in 1..Len(slots)
      /\ slots[id.slot + 1] \in Slot
      /\ d + 1 \in 1..Len(denseSlots)
      /\ d + 1 \in 1..Len(values)
  BY <1>1, ResolvesFacts
<1>3. d \in 0..IndexMax /\ g \in 0..GenerationMax
  BY <1>2 DEF Slot
<1>4. /\ values' \in Seq(Values)
      /\ Len(values') = Len(values) - 1
      /\ \A i \in 1..(Len(values) - 1) : values'[i] =
            IF i = d + 1 THEN values[Len(values)] ELSE values[i]
  BY <1>1, <1>2, SwapRemoveFacts DEF SlabInv, SlabTypeOK
<1>5. /\ denseSlots' \in Seq(0..IndexMax)
      /\ Len(denseSlots') = Len(denseSlots) - 1
      /\ \A i \in 1..(Len(denseSlots) - 1) : denseSlots'[i] =
            IF i = d + 1 THEN m ELSE denseSlots[i]
  BY <1>1, <1>2, SwapRemoveFacts DEF SlabInv, SlabTypeOK
<1>6. Len(denseSlots) \in Nat \ {0} /\ Len(slots) \in Nat
  BY <1>2, LenProperties DEF SlabInv, SlabTypeOK
<1>7. m \in 0..IndexMax
  <2>1. Len(denseSlots) \in 1..Len(denseSlots)
    BY <1>6
  <2> QED
    BY <2>1, ElementOfSeq DEF SlabInv, SlabTypeOK
<1>8. m < Len(slots) /\ slots[m + 1].dense = Len(denseSlots) - 1
  BY <1>6 DEF SlabInv, Linked
<1>9. m + 1 \in 1..Len(slots)
  BY <1>6, <1>7, <1>8, SlabAssumption
<1>10. \A k \in 1..Len(slots) : slots[k] \in Slot
  BY LenProperties DEF SlabInv, SlabTypeOK
<1> HIDE DEF d, g, m
<1>11. \A k \in 1..Len(slots) : slots'[k] =
             IF k = id.slot + 1
             THEN [dense |-> VACANT,
                   generation |-> IF g < GenerationMax THEN g + 1 ELSE g]
             ELSE IF k = m + 1
             THEN [dense |-> d, generation |-> slots[k].generation]
             ELSE slots[k]
  BY <1>1, <1>10, WithDense
<1>12. \A k \in 1..Len(slots) : slots'[k] \in Slot
  <2> SUFFICES ASSUME NEW k \in 1..Len(slots) PROVE slots'[k] \in Slot
    OBVIOUS
  <2>1. CASE k = id.slot + 1
    <3>1. [dense |-> VACANT,
           generation |-> IF g < GenerationMax THEN g + 1 ELSE g] \in Slot
      BY <1>3, SlabAssumption DEF Slot, VACANT
    <3> QED
      BY <1>11, <2>1, <3>1
  <2>2. CASE k # id.slot + 1 /\ k = m + 1
    <3>1. [dense |-> d, generation |-> slots[k].generation] \in Slot
      BY <1>3, <1>10 DEF Slot
    <3> QED
      BY <1>11, <2>2, <3>1
  <2>3. CASE k # id.slot + 1 /\ k # m + 1
    BY <1>10, <1>11, <2>3
  <2> QED
    BY <2>1, <2>2, <2>3
<1>13. DOMAIN slots' = 1..Len(slots)
  BY <1>1
<1>14. slots' \in [1..Len(slots) -> Slot]
  BY <1>1, <1>12
<1>15. slots' \in Seq(Slot)
  BY <1>6, <1>14, SeqDef
<1>16. Len(slots') = Len(slots)
  BY <1>6, <1>13, <1>15, LenProperties
<1>17. freeSlots' \in Seq(0..IndexMax)
  <2>1. id.slot \in 0..IndexMax
    BY DEF EntityId
  <2> QED
    BY <1>1, <2>1, AppendProperties DEF SlabInv, SlabTypeOK
<1>18. d = slots[id.slot + 1].dense /\ g = slots[id.slot + 1].generation
       /\ m = denseSlots[Len(denseSlots)]
  BY DEF d, g, m
<1> d \in 0..IndexMax /\ m \in 0..IndexMax /\ g \in 0..GenerationMax
  BY <1>3, <1>7
<1> WITNESS d \in 0..IndexMax, m \in 0..IndexMax, g \in 0..GenerationMax
<1> QED
  BY <1>1, <1>4, <1>5, <1>8, <1>9, <1>11, <1>15, <1>16, <1>17, <1>18, Zenon

-----------------------------------------------------------------------------
(* The ranges the types give the array elements.                           *)
LEMMA Ranges ==
    ASSUME SlabInv
    PROVE  /\ Len(slots) \in Nat
           /\ Len(denseSlots) \in Nat
           /\ Len(freeSlots) \in Nat
           /\ Len(values) = Len(denseSlots)
           /\ \A i \in 1..Len(denseSlots) : denseSlots[i] \in 0..IndexMax
           /\ \A i \in 1..Len(freeSlots) : freeSlots[i] \in 0..IndexMax
           /\ \A k \in 1..Len(slots) : slots[k] \in Slot
           /\ \A k \in 1..Len(slots) : slots[k].dense \in 0..IndexMax
           /\ \A k \in 1..Len(slots) : slots[k].generation \in 0..GenerationMax
<1>1. Len(slots) \in Nat /\ Len(denseSlots) \in Nat /\ Len(freeSlots) \in Nat
  BY LenProperties DEF SlabInv, SlabTypeOK
<1>2. \A i \in 1..Len(denseSlots) : denseSlots[i] \in 0..IndexMax
  BY ElementOfSeq DEF SlabInv, SlabTypeOK
<1>3. \A i \in 1..Len(freeSlots) : freeSlots[i] \in 0..IndexMax
  BY ElementOfSeq DEF SlabInv, SlabTypeOK
<1>4. \A k \in 1..Len(slots) : slots[k] \in Slot
  BY ElementOfSeq DEF SlabInv, SlabTypeOK
<1> QED
  BY <1>1, <1>2, <1>3, <1>4 DEF SlabInv, Linked, Slot

LEMMA InsertReusedKeeps ==
    ASSUME SlabInv, NEW v \in Values, InsertReused(v)
    PROVE  SlabInv'
<1>1. PICK s \in 0..IndexMax :
             /\ Len(freeSlots) \in 1..Len(freeSlots)
             /\ s = freeSlots[Len(freeSlots)]
             /\ s < Len(slots)
             /\ s + 1 \in 1..Len(slots)
             /\ slots[s + 1].dense = VACANT
             /\ Len(values) < Capacity
             /\ Len(values) \in 0..IndexMax
             /\ Place(s, slots[s + 1].generation, v)
             /\ slots[s + 1].generation \in 0..GenerationMax
             /\ slots' \in Seq(Slot)
             /\ Len(slots') = Len(slots)
             /\ \A k \in 1..Len(slots) : slots'[k] =
                   IF k = s + 1
                   THEN [dense |-> Len(values), generation |-> slots[k].generation]
                   ELSE slots[k]
             /\ freeSlots' \in Seq(0..IndexMax)
             /\ Len(freeSlots') = Len(freeSlots) - 1
             /\ \A i \in 1..(Len(freeSlots) - 1) : freeSlots'[i] = freeSlots[i]
  BY InsertReusedFacts
<1> DEFINE new == [shard |-> Shard, slot |-> s,
                   generation |-> slots[s + 1].generation]
<1>2. /\ values' \in Seq(Values)
      /\ Len(values') = Len(values) + 1
      /\ denseSlots' \in Seq(0..IndexMax)
      /\ Len(denseSlots') = Len(denseSlots) + 1
      /\ \A i \in 1..Len(denseSlots) : denseSlots'[i] = denseSlots[i]
      /\ denseSlots'[Len(denseSlots) + 1] = s
      /\ issued' = issued \cup {new}
      /\ issued' \subseteq EntityId
  BY <1>1, PlaceFacts DEF SlabInv
<1>3. /\ Len(slots) \in Nat /\ Len(denseSlots) \in Nat /\ Len(freeSlots) \in Nat
      /\ Len(values) = Len(denseSlots)
      /\ Len(values) \in 0..IndexMax /\ Len(values) < Capacity
  BY <1>1, Ranges
<1>s. s \in 0..IndexMax /\ s + 1 \in 1..Len(slots) /\ slots[s + 1].dense = VACANT
  BY <1>1
<1>l. Len(slots') = Len(slots)
  BY <1>1
<1>n. slots'[s + 1].dense = Len(values) /\ slots'[s + 1].generation = slots[s + 1].generation
  <2>1. slots'[s + 1] = [dense |-> Len(values), generation |-> slots[s + 1].generation]
    BY <1>1
  <2> QED
    BY <2>1
<1>k. \A k \in 1..Len(slots) : k # s + 1 => slots'[k] = slots[k]
  BY <1>1
<1>f. /\ Len(freeSlots') = Len(freeSlots) - 1
      /\ \A i \in 1..Len(freeSlots') :
            i \in 1..Len(freeSlots) /\ freeSlots'[i] = freeSlots[i]
  BY <1>1, <1>3
<1>g. \A i \in 1..Len(freeSlots') : freeSlots[i] # s
  <2> SUFFICES ASSUME NEW i \in 1..Len(freeSlots'), freeSlots[i] = s PROVE FALSE
    OBVIOUS
  <2>1. i \in 1..Len(freeSlots) /\ i # Len(freeSlots)
    BY <1>3, <1>f
  <2>2. freeSlots[i] = freeSlots[Len(freeSlots)] /\ Len(freeSlots) \in 1..Len(freeSlots)
    BY <1>1
  <2> QED
    BY <2>1, <2>2 DEF SlabInv, Freed
<1>4. SlabTypeOK'
  BY <1>1, <1>2 DEF SlabTypeOK
<1>5. Linked'
  <2>1. Len(values') = Len(denseSlots') /\ Len(slots') <= Capacity
    BY <1>1, <1>2, <1>3 DEF SlabInv, Linked
  <2>2. ASSUME NEW i \in 1..Len(denseSlots')
        PROVE  denseSlots'[i] < Len(slots') /\ slots'[denseSlots'[i] + 1].dense = i - 1
    <3>1. CASE i = Len(denseSlots) + 1
      <4>1. denseSlots'[i] = s /\ s < Len(slots')
        BY <1>2, <1>3, <1>s, <1>l, <3>1, SlabAssumption
      <4> QED
        BY <1>3, <1>n, <3>1, <4>1
    <3>2. CASE i \in 1..Len(denseSlots)
      <4>1. denseSlots[i] < Len(slots) /\ slots[denseSlots[i] + 1].dense = i - 1
        BY <3>2 DEF SlabInv, Linked
      <4>2. i - 1 # VACANT
        BY <1>3, <3>2, SlabAssumption DEF VACANT
      <4>3. denseSlots[i] \in 0..IndexMax
        BY <3>2, Ranges
      <4>4. denseSlots[i] + 1 \in 1..Len(slots)
        BY <1>3, <4>1, <4>3, SlabAssumption
      <4>5. denseSlots[i] + 1 # s + 1
        BY <1>s, <4>1, <4>2
      <4> QED
        BY <1>2, <1>k, <1>l, <3>2, <4>1, <4>4, <4>5
    <3> QED
      BY <1>2, <1>3, <3>1, <3>2
  <2>3. ASSUME NEW k \in 1..Len(slots'), slots'[k].dense # VACANT
        PROVE  /\ slots'[k].dense < Len(denseSlots')
               /\ denseSlots'[slots'[k].dense + 1] = k - 1
    <3>1. CASE k = s + 1
      <4>1. slots'[k].dense = Len(denseSlots) /\ k - 1 = s
        BY <1>3, <1>s, <1>n, <3>1, SlabAssumption
      <4> QED
        BY <1>2, <1>3, <4>1
    <3>2. CASE k # s + 1
      <4>1. k \in 1..Len(slots) /\ slots'[k] = slots[k]
        BY <1>k, <1>l, <3>2
      <4>2. /\ slots[k].dense < Len(denseSlots)
            /\ denseSlots[slots[k].dense + 1] = k - 1
        BY <2>3, <4>1 DEF SlabInv, Linked, VACANT
      <4>3. slots[k].dense + 1 \in 1..Len(denseSlots)
        BY <1>3, <4>1, <4>2, Ranges, SlabAssumption
      <4>4. denseSlots'[slots[k].dense + 1] = denseSlots[slots[k].dense + 1]
        BY <1>2, <4>3
      <4>5. slots[k].dense < Len(denseSlots')
        <5>1. slots[k].dense \in 0..IndexMax
          BY <4>1, Ranges
        <5>2. Len(denseSlots') = Len(denseSlots) + 1 /\ Len(denseSlots) \in Nat
          BY <1>2, <1>3
        <5>3. PICK e \in 0..IndexMax : e = slots[k].dense
          BY <5>1
        <5>4. e < Len(denseSlots)
          BY <4>2, <5>3
        <5>5. e < Len(denseSlots) + 1
          BY <5>2, <5>4, SlabAssumption
        <5> QED
          BY <5>2, <5>3, <5>5
      <4> QED
        BY <4>1, <4>2, <4>4, <4>5
    <3> QED
      BY <3>1, <3>2
  <2> QED
    BY <2>1, <2>2, <2>3 DEF Linked, VACANT
<1>6. Freed'
  <2>1. \A i \in 1..Len(freeSlots') : i \in 1..Len(freeSlots)
           /\ freeSlots'[i] = freeSlots[i] /\ freeSlots[i] # s
    BY <1>f, <1>g
  <2>2. ASSUME NEW i \in 1..Len(freeSlots')
        PROVE  /\ freeSlots'[i] < Len(slots')
               /\ slots'[freeSlots'[i] + 1].dense = VACANT
    <3>1. /\ freeSlots[i] < Len(slots)
          /\ slots[freeSlots[i] + 1].dense = VACANT
      BY <2>1 DEF SlabInv, Freed
    <3>2. freeSlots[i] \in 0..IndexMax
      BY <2>1, Ranges
    <3>3. freeSlots[i] + 1 \in 1..Len(slots) /\ freeSlots[i] + 1 # s + 1
      <4>1. PICK e \in 0..IndexMax : e = freeSlots[i]
        BY <3>2
      <4>2. e # s /\ e < Len(slots)
        BY <2>1, <3>1, <4>1
      <4>3. e + 1 \in 1..Len(slots)
        BY <1>3, <4>2, SlabAssumption
      <4>4. e + 1 # s + 1
        BY <1>s, <4>2, SlabAssumption
      <4> QED
        BY <4>1, <4>3, <4>4
    <3>4. slots'[freeSlots[i] + 1] = slots[freeSlots[i] + 1]
      BY <1>k, <3>3
    <3>5. freeSlots'[i] = freeSlots[i]
      BY <2>1
    <3> QED
      BY <1>l, <3>1, <3>4, <3>5
  <2>3. \A i, j \in 1..Len(freeSlots') : freeSlots'[i] = freeSlots'[j] => i = j
    BY <2>1 DEF SlabInv, Freed
  <2>4. ASSUME NEW k \in 1..Len(slots'), slots'[k].dense = VACANT
        PROVE  \/ slots'[k].generation = GenerationMax
               \/ \E i \in 1..Len(freeSlots') : freeSlots'[i] = k - 1
    <3>1. Len(values) # VACANT
      BY <1>1, SlabAssumption DEF VACANT
    <3>2. k \in 1..Len(slots) /\ k # s + 1 /\ slots'[k] = slots[k]
      BY <1>k, <1>l, <1>n, <2>4, <3>1 DEF VACANT
    <3>3. CASE slots[k].generation = GenerationMax
      BY <3>2, <3>3
    <3>4. CASE \E i \in 1..Len(freeSlots) : freeSlots[i] = k - 1
      <4>1. PICK i \in 1..Len(freeSlots) : freeSlots[i] = k - 1
        BY <3>4
      <4>2. i # Len(freeSlots)
        BY <1>1, <3>2, <4>1
      <4>3. i \in 1..Len(freeSlots')
        BY <1>f, <1>3, <4>2
      <4> QED
        BY <1>f, <4>1, <4>3
    <3> QED
      BY <2>4, <3>2, <3>3, <3>4 DEF SlabInv, Freed
  <2> QED
    BY <2>2, <2>3, <2>4 DEF Freed, VACANT
<1>7. Ahead'
  <2>1. ASSUME NEW id \in issued'
        PROVE  /\ id.shard = Shard
               /\ id.slot < Len(slots')
               /\ id.slot + 1 \in 1..Len(slots)
               /\ slots'[id.slot + 1].generation = slots[id.slot + 1].generation
               /\ id.generation <= slots'[id.slot + 1].generation
    <3>1. id.slot \in 0..IndexMax
      BY <1>2 DEF EntityId
    <3>2. /\ id.shard = Shard /\ id.slot < Len(slots)
          /\ id.generation <= slots[id.slot + 1].generation
      <4>1. CASE id \in issued
        BY <4>1 DEF SlabInv, Ahead
      <4>2. CASE id = new
        BY <1>1, <4>2, SlabAssumption
      <4> QED
        BY <1>2, <4>1, <4>2
    <3>3. id.slot + 1 \in 1..Len(slots)
      BY <1>3, <3>1, <3>2, SlabAssumption
    <3>4. slots'[id.slot + 1].generation = slots[id.slot + 1].generation
      BY <1>k, <1>n, <3>3
    <3> QED
      BY <1>l, <3>2, <3>3, <3>4
  <2>2. ASSUME NEW i \in 1..Len(freeSlots'), NEW id \in issued',
               id.slot = freeSlots'[i]
        PROVE  id.generation < slots'[id.slot + 1].generation
    <3>1. i \in 1..Len(freeSlots) /\ freeSlots'[i] = freeSlots[i] /\ freeSlots[i] # s
      BY <1>f, <1>g
    <3>2. id \in issued
      BY <1>2, <2>2, <3>1
    <3> QED
      BY <2>1, <2>2, <3>1, <3>2 DEF SlabInv, Ahead
  <2> QED
    BY <2>1, <2>2 DEF Ahead
<1> QED
  BY <1>4, <1>5, <1>6, <1>7 DEF SlabInv

LEMMA InsertFreshKeeps ==
    ASSUME SlabInv, NEW v \in Values, InsertFresh(v)
    PROVE  SlabInv'
<1> DEFINE n == Len(slots)
           new == [shard |-> Shard, slot |-> n, generation |-> 0]
<1>1. /\ n < Capacity /\ n \in 0..IndexMax
      /\ Len(values) < Capacity /\ Len(values) \in 0..IndexMax
      /\ Place(n, 0, v)
  BY InsertFreshFacts
<1>2. /\ slots' \in Seq(Slot)
      /\ Len(slots') = n + 1
      /\ \A k \in 1..n : slots'[k] = slots[k]
      /\ slots'[n + 1] = [dense |-> Len(values), generation |-> 0]
  BY InsertFreshFacts
<1>3. freeSlots = <<>> /\ freeSlots' = <<>> /\ Len(freeSlots') = 0
  BY InsertFreshFacts
<1>4. 0 \in 0..GenerationMax
  BY SlabAssumption
<1>5. /\ values' \in Seq(Values)
      /\ Len(values') = Len(values) + 1
      /\ denseSlots' \in Seq(0..IndexMax)
      /\ Len(denseSlots') = Len(denseSlots) + 1
      /\ \A i \in 1..Len(denseSlots) : denseSlots'[i] = denseSlots[i]
      /\ denseSlots'[Len(denseSlots) + 1] = n
      /\ issued' = issued \cup {new}
      /\ issued' \subseteq EntityId
  BY <1>1, <1>4, PlaceFacts DEF SlabInv
<1>6. /\ n \in Nat /\ Len(denseSlots) \in Nat
      /\ Len(values) = Len(denseSlots)
  BY Ranges
<1>7. SlabTypeOK'
  BY <1>2, <1>3, <1>5 DEF SlabTypeOK
<1>8. Linked'
  <2>1. Len(values') = Len(denseSlots') /\ Len(slots') <= Capacity
    BY <1>1, <1>2, <1>5, <1>6, SlabAssumption
  <2>2. ASSUME NEW i \in 1..Len(denseSlots')
        PROVE  denseSlots'[i] < Len(slots') /\ slots'[denseSlots'[i] + 1].dense = i - 1
    <3>1. CASE i = Len(denseSlots) + 1
      BY <1>2, <1>5, <1>6, <3>1
    <3>2. CASE i \in 1..Len(denseSlots)
      <4>1. /\ denseSlots[i] < n /\ slots[denseSlots[i] + 1].dense = i - 1
            /\ denseSlots[i] \in 0..IndexMax
        BY <3>2, Ranges DEF SlabInv, Linked
      <4>2. denseSlots[i] + 1 \in 1..n /\ denseSlots[i] < Len(slots')
        BY <1>2, <1>6, <4>1, SlabAssumption
      <4> QED
        BY <1>2, <1>5, <3>2, <4>1, <4>2
    <3> QED
      BY <1>5, <1>6, <3>1, <3>2
  <2>3. ASSUME NEW k \in 1..Len(slots'), slots'[k].dense # VACANT
        PROVE  /\ slots'[k].dense < Len(denseSlots')
               /\ denseSlots'[slots'[k].dense + 1] = k - 1
    <3>1. CASE k = n + 1
      <4>1. slots'[k].dense = Len(denseSlots) /\ k - 1 = n
        BY <1>2, <1>6, <3>1
      <4> QED
        BY <1>5, <1>6, <4>1
    <3>2. CASE k # n + 1
      <4>1. k \in 1..n /\ slots'[k] = slots[k]
        BY <1>2, <1>6, <3>2
      <4>2. /\ slots[k].dense < Len(denseSlots)
            /\ denseSlots[slots[k].dense + 1] = k - 1
            /\ slots[k].dense \in 0..IndexMax
        BY <2>3, <4>1, Ranges DEF SlabInv, Linked, VACANT
      <4>3. /\ slots[k].dense + 1 \in 1..Len(denseSlots)
            /\ slots[k].dense < Len(denseSlots')
        <5>1. Len(denseSlots') = Len(denseSlots) + 1
          BY <1>5
        <5> QED
          BY <1>6, <4>2, <5>1, SlabAssumption
      <4>4. denseSlots'[slots[k].dense + 1] = denseSlots[slots[k].dense + 1]
        BY <1>5, <4>3
      <4> QED
        BY <4>1, <4>2, <4>3, <4>4
    <3> QED
      BY <3>1, <3>2
  <2> QED
    BY <2>1, <2>2, <2>3 DEF Linked, VACANT
<1>9. Freed'
  <2>1. ASSUME NEW k \in 1..Len(slots'), slots'[k].dense = VACANT
        PROVE  slots'[k].generation = GenerationMax
    <3>1. slots'[n + 1].dense # VACANT
      BY <1>1, <1>2, SlabAssumption DEF VACANT
    <3>2. k \in 1..n /\ slots'[k] = slots[k]
      BY <1>2, <1>6, <2>1, <3>1 DEF VACANT
    <3>3. 1..Len(freeSlots) = {}
      BY <1>3
    <3> QED
      BY <2>1, <3>2, <3>3 DEF SlabInv, Freed, VACANT
  <2>2. 1..Len(freeSlots') = {}
    BY <1>3
  <2> QED
    BY <2>1, <2>2 DEF Freed, VACANT
<1>10. Ahead'
  <2>1. ASSUME NEW id \in issued'
        PROVE  /\ id.shard = Shard
               /\ id.slot < Len(slots')
               /\ id.generation <= slots'[id.slot + 1].generation
    <3>1. CASE id \in issued
      <4>1. /\ id.shard = Shard /\ id.slot < n
            /\ id.generation <= slots[id.slot + 1].generation
        BY <3>1 DEF SlabInv, Ahead
      <4>2. id.slot \in 0..IndexMax
        BY <1>5 DEF EntityId
      <4>3. id.slot + 1 \in 1..n /\ id.slot < Len(slots')
        BY <1>2, <1>6, <4>1, <4>2, SlabAssumption
      <4> QED
        BY <1>2, <4>1, <4>3
    <3>2. CASE id = new
      <4>1. id.shard = Shard /\ id.slot = n /\ id.generation = 0
        BY <3>2
      <4>2. slots'[n + 1].generation = 0 /\ n < Len(slots')
        BY <1>2, <1>6
      <4> QED
        BY <4>1, <4>2
    <3> QED
      BY <1>5, <3>1, <3>2
  <2>2. 1..Len(freeSlots') = {}
    BY <1>3
  <2> QED
    BY <2>1, <2>2 DEF Ahead
<1> QED
  BY <1>7, <1>8, <1>9, <1>10 DEF SlabInv

LEMMA AssignKeeps ==
    ASSUME SlabInv, NEW id \in EntityId, NEW v \in Values, Assign(id, v)
    PROVE  /\ SlabInv'
           /\ slots[id.slot + 1].dense + 1 \in 1..Len(values)
           /\ Len(values') = Len(values)
           /\ \A i \in 1..Len(values) : values'[i] =
                 IF i = slots[id.slot + 1].dense + 1 THEN v ELSE values[i]
<1> DEFINE d == slots[id.slot + 1].dense
<1>1. /\ values' = [values EXCEPT ![d + 1] = v]
      /\ Resolves(id)
      /\ UNCHANGED <<slots, denseSlots, freeSlots, issued>>
  BY DEF Assign
<1>2. d + 1 \in 1..Len(values)
  BY <1>1, ResolvesFacts
<1> HIDE DEF d
<1>3. /\ values' \in Seq(Values)
      /\ Len(values') = Len(values)
      /\ \A i \in 1..Len(values) : values'[i] = IF i = d + 1 THEN v ELSE values[i]
  BY <1>1, <1>2, ExceptSeq DEF SlabInv, SlabTypeOK
<1>4. SlabInv'
  <2>1. SlabTypeOK'
    BY <1>1, <1>3 DEF SlabInv, SlabTypeOK
  <2>2. Linked'
    BY <1>1, <1>3 DEF SlabInv, Linked, VACANT
  <2>3. Freed' /\ Ahead'
    BY <1>1 DEF SlabInv, Freed, Ahead, VACANT
  <2> QED
    BY <2>1, <2>2, <2>3 DEF SlabInv
<1> QED
  BY <1>2, <1>3, <1>4 DEF d

LEMMA RemoveKeeps ==
    ASSUME SlabInv, NEW id \in EntityId, Remove(id)
    PROVE  SlabInv'
<1> DEFINE r == id.slot + 1
           L == Len(denseSlots)
<1>1. PICK d \in 0..IndexMax, m \in 0..IndexMax, g \in 0..GenerationMax :
             /\ d = slots[id.slot + 1].dense
             /\ g = slots[id.slot + 1].generation
             /\ m = denseSlots[Len(denseSlots)]
             /\ m + 1 \in 1..Len(slots)
             /\ slots[m + 1].dense = Len(denseSlots) - 1
             /\ values' \in Seq(Values)
             /\ Len(values') = Len(values) - 1
             /\ \A i \in 1..(Len(values) - 1) : values'[i] =
                   IF i = d + 1 THEN values[Len(values)] ELSE values[i]
             /\ denseSlots' \in Seq(0..IndexMax)
             /\ Len(denseSlots') = Len(denseSlots) - 1
             /\ \A i \in 1..(Len(denseSlots) - 1) : denseSlots'[i] =
                   IF i = d + 1 THEN m ELSE denseSlots[i]
             /\ slots' \in Seq(Slot)
             /\ Len(slots') = Len(slots)
             /\ \A k \in 1..Len(slots) : slots'[k] =
                   IF k = id.slot + 1
                   THEN [dense |-> VACANT,
                         generation |-> IF g < GenerationMax THEN g + 1 ELSE g]
                   ELSE IF k = m + 1
                   THEN [dense |-> d, generation |-> slots[k].generation]
                   ELSE slots[k]
             /\ freeSlots' = IF g < GenerationMax
                             THEN Append(freeSlots, id.slot) ELSE freeSlots
             /\ freeSlots' \in Seq(0..IndexMax)
             /\ issued' = issued
  BY RemoveFacts
<1>2. /\ r \in 1..Len(slots)
      /\ slots[r].dense = d /\ d # VACANT
      /\ d + 1 \in 1..L
      /\ denseSlots[d + 1] = id.slot
      /\ id.slot \in 0..IndexMax
  <2>1. Resolves(id)
    BY DEF Remove
  <2>2. id.slot \in 0..IndexMax
    BY DEF EntityId
  <2> QED
    BY <1>1, <2>1, <2>2, ResolvesFacts
<1>3. /\ Len(slots) \in Nat /\ L \in Nat \ {0} /\ Len(values) = L
      /\ L - 1 < IndexMax
  <2>1. Len(slots) \in Nat /\ L \in Nat /\ Len(values) = L
    BY Ranges
  <2>2. L <= Capacity
    BY <2>1, RoomForOne, SlabAssumption DEF SlabInv, Linked
  <2> QED
    BY <1>2, <2>1, <2>2, SlabAssumption
<1>l. Len(slots') = Len(slots) /\ Len(denseSlots') = L - 1 /\ Len(values') = L - 1
  BY <1>1, <1>3
<1>m. m = denseSlots[L] /\ m + 1 \in 1..Len(slots) /\ slots[m + 1].dense = L - 1
  BY <1>1
<1>r. slots'[r].dense = VACANT
      /\ slots'[r].generation = IF g < GenerationMax THEN g + 1 ELSE g
  <2>1. slots'[r] = [dense |-> VACANT,
                     generation |-> IF g < GenerationMax THEN g + 1 ELSE g]
    BY <1>1, <1>2
  <2> QED
    BY <2>1
<1>v. m + 1 # r => slots'[m + 1].dense = d
  <2> SUFFICES ASSUME m + 1 # r PROVE slots'[m + 1].dense = d
    OBVIOUS
  <2>1. slots'[m + 1] = [dense |-> d, generation |-> slots[m + 1].generation]
    BY <1>1
  <2> QED
    BY <2>1
<1>k. \A k \in 1..Len(slots) : k # r /\ k # m + 1 => slots'[k] = slots[k]
  BY <1>1
<1>g. \A k \in 1..Len(slots) : k # r => slots'[k].generation = slots[k].generation
  <2> SUFFICES ASSUME NEW k \in 1..Len(slots), k # r
               PROVE  slots'[k].generation = slots[k].generation
    OBVIOUS
  <2>1. CASE k # m + 1
    BY <1>k, <2>1
  <2>2. CASE k = m + 1
    <3>1. slots'[k] = [dense |-> d, generation |-> slots[k].generation]
      BY <1>1, <2>2
    <3> QED
      BY <3>1
  <2> QED
    BY <2>1, <2>2
<1>d. \A i \in 1..(L - 1) : denseSlots'[i] = IF i = d + 1 THEN m ELSE denseSlots[i]
  BY <1>1
\* The moved value is the removed one exactly when the hole is at the end.
<1>e. (m + 1 = r) <=> (d + 1 = L)
  <2>1. CASE m + 1 = r
    BY <1>2, <1>3, <1>m, <2>1
  <2>2. CASE d + 1 = L
    BY <1>2, <1>3, <1>m, <2>2
  <2> QED
    BY <2>1, <2>2
<1>4. SlabTypeOK'
  BY <1>1 DEF SlabInv, SlabTypeOK
<1>5. Linked'
  <2>1. Len(values') = Len(denseSlots') /\ Len(slots') <= Capacity
    BY <1>l DEF SlabInv, Linked
  <2>2. ASSUME NEW i \in 1..Len(denseSlots')
        PROVE  denseSlots'[i] < Len(slots') /\ slots'[denseSlots'[i] + 1].dense = i - 1
    <3>1. i \in 1..(L - 1) /\ i \in 1..L /\ i # L
      BY <1>3, <1>l
    <3>2. CASE i = d + 1
      <4>1. denseSlots'[i] = m /\ d = i - 1 /\ d + 1 # L
        BY <1>d, <1>3, <3>1, <3>2, SlabAssumption
      <4>2. m < Len(slots')
        BY <1>l, <1>m, <1>3
      <4>3. slots'[m + 1].dense = d
        BY <1>v, <1>e, <4>1
      <4> QED
        BY <4>1, <4>2, <4>3
    <3>3. CASE i # d + 1
      <4>1. denseSlots'[i] = denseSlots[i]
        BY <1>d, <3>1, <3>3
      <4>2. /\ denseSlots[i] < Len(slots)
            /\ slots[denseSlots[i] + 1].dense = i - 1
            /\ denseSlots[i] \in 0..IndexMax
        BY <3>1, Ranges DEF SlabInv, Linked
      <4>3. denseSlots[i] + 1 \in 1..Len(slots)
        BY <1>3, <4>2, SlabAssumption
      <4>4. denseSlots[i] + 1 # r
        BY <1>2, <3>1, <3>3, <4>2, SlabAssumption
      <4>5. denseSlots[i] + 1 # m + 1
        BY <1>3, <1>m, <3>1, <4>2
      <4>6. slots'[denseSlots[i] + 1] = slots[denseSlots[i] + 1]
        BY <1>k, <4>3, <4>4, <4>5
      <4> QED
        BY <1>l, <4>1, <4>2, <4>6
    <3> QED
      BY <3>2, <3>3
  <2>3. ASSUME NEW k \in 1..Len(slots'), slots'[k].dense # VACANT
        PROVE  /\ slots'[k].dense < Len(denseSlots')
               /\ denseSlots'[slots'[k].dense + 1] = k - 1
    <3>1. k \in 1..Len(slots) /\ k # r
      BY <1>l, <1>r, <2>3 DEF VACANT
    <3>2. CASE k = m + 1
      <4>1. slots'[k].dense = d /\ d + 1 # L
        BY <1>v, <1>e, <3>1, <3>2
      <4>2. d + 1 \in 1..(L - 1) /\ d < L - 1
        BY <1>2, <1>3, <4>1, SlabAssumption
      <4>3. denseSlots'[d + 1] = m /\ m = k - 1
        BY <1>d, <3>2, <4>2, SlabAssumption
      <4> QED
        BY <1>l, <4>1, <4>2, <4>3
    <3>3. CASE k # m + 1
      <4>1. slots'[k] = slots[k]
        BY <1>k, <3>1, <3>3
      <4>2. /\ slots[k].dense < L
            /\ denseSlots[slots[k].dense + 1] = k - 1
            /\ slots[k].dense \in 0..IndexMax
        BY <2>3, <3>1, <4>1, Ranges DEF SlabInv, Linked, VACANT
      <4>3. slots[k].dense + 1 # L
        <5> SUFFICES ASSUME slots[k].dense + 1 = L PROVE FALSE
          OBVIOUS
        <5>1. m = k - 1
          BY <1>m, <4>2
        <5>2. k = m + 1
          BY <3>1, <5>1
        <5> QED
          BY <3>3, <5>2
      <4>4. slots[k].dense + 1 # d + 1
        BY <1>2, <3>1, <4>2, SlabAssumption
      <4>5. slots[k].dense + 1 \in 1..(L - 1) /\ slots[k].dense < L - 1
        <5>1. PICK e \in 0..IndexMax : e = slots[k].dense
          BY <4>2
        <5>2. e < L /\ e + 1 # L
          BY <4>2, <4>3, <5>1
        <5>3. e \in Int /\ 0 <= e /\ L \in Int
          BY <1>3, SlabAssumption
        <5>4. e + 1 \in 1..(L - 1) /\ e < L - 1
          BY <5>2, <5>3
        <5> QED
          BY <5>1, <5>4
      <4>6. denseSlots'[slots[k].dense + 1] = denseSlots[slots[k].dense + 1]
        BY <1>d, <4>4, <4>5
      <4> QED
        BY <1>l, <4>1, <4>2, <4>5, <4>6
    <3> QED
      BY <3>2, <3>3
  <2> QED
    BY <2>1, <2>2, <2>3 DEF Linked, VACANT
<1>n. \A k \in 1..Len(slots) : k # r =>
          (slots'[k].dense = VACANT <=> slots[k].dense = VACANT)
  <2> SUFFICES ASSUME NEW k \in 1..Len(slots), k # r
               PROVE  slots'[k].dense = VACANT <=> slots[k].dense = VACANT
    OBVIOUS
  <2>1. CASE k # m + 1
    BY <1>k, <2>1
  <2>2. CASE k = m + 1
    <3>1. slots'[k].dense = d
      BY <1>v, <2>2
    <3>2. slots[k].dense # VACANT
      BY <1>3, <1>m, <2>2, SlabAssumption DEF VACANT
    <3> QED
      BY <1>2, <3>1, <3>2
  <2> QED
    BY <2>1, <2>2
\* The free stack: unchanged for an exhausted slot, else one longer.
<1>f. /\ \A i \in 1..Len(freeSlots) :
            i \in 1..Len(freeSlots') /\ freeSlots'[i] = freeSlots[i]
      /\ \A i \in 1..Len(freeSlots') :
            \/ i \in 1..Len(freeSlots) /\ freeSlots'[i] = freeSlots[i]
            \/ /\ g < GenerationMax
               /\ i = Len(freeSlots) + 1
               /\ freeSlots'[i] = id.slot
      /\ g < GenerationMax => \E i \in 1..Len(freeSlots') : freeSlots'[i] = id.slot
  <2>0. Len(freeSlots) \in Nat /\ freeSlots \in Seq(0..IndexMax)
    BY Ranges DEF SlabInv, SlabTypeOK
  <2>1. CASE g < GenerationMax
    <3>1. freeSlots' = Append(freeSlots, id.slot)
      BY <1>1, <2>1
    <3>2. /\ Len(freeSlots') = Len(freeSlots) + 1
          /\ \A i \in 1..Len(freeSlots) : freeSlots'[i] = freeSlots[i]
          /\ freeSlots'[Len(freeSlots) + 1] = id.slot
      BY <1>2, <2>0, <3>1, AppendProperties
    <3> QED
      BY <2>0, <2>1, <3>2
  <2>2. CASE ~(g < GenerationMax)
    BY <1>1, <2>2
  <2> QED
    BY <2>1, <2>2
<1>o. \A i \in 1..Len(freeSlots) :
          /\ freeSlots[i] \in 0..IndexMax
          /\ freeSlots[i] < Len(slots)
          /\ freeSlots[i] + 1 \in 1..Len(slots)
          /\ slots[freeSlots[i] + 1].dense = VACANT
          /\ freeSlots[i] # id.slot
  <2> SUFFICES ASSUME NEW i \in 1..Len(freeSlots)
               PROVE  /\ freeSlots[i] \in 0..IndexMax
                      /\ freeSlots[i] < Len(slots)
                      /\ freeSlots[i] + 1 \in 1..Len(slots)
                      /\ slots[freeSlots[i] + 1].dense = VACANT
                      /\ freeSlots[i] # id.slot
    OBVIOUS
  <2>1. freeSlots[i] \in 0..IndexMax
    BY Ranges
  <2>2. freeSlots[i] < Len(slots) /\ slots[freeSlots[i] + 1].dense = VACANT
    BY DEF SlabInv, Freed
  <2>3. freeSlots[i] + 1 \in 1..Len(slots)
    BY <1>3, <2>1, <2>2, SlabAssumption
  <2> QED
    BY <1>2, <2>1, <2>2, <2>3
<1>6. Freed'
  <2>1. ASSUME NEW i \in 1..Len(freeSlots')
        PROVE  /\ freeSlots'[i] < Len(slots')
               /\ slots'[freeSlots'[i] + 1].dense = VACANT
    <3>1. CASE i \in 1..Len(freeSlots) /\ freeSlots'[i] = freeSlots[i]
      <4>1. freeSlots[i] + 1 # r
        BY <1>2, <1>o, <3>1, SlabAssumption
      <4> QED
        BY <1>l, <1>n, <1>o, <3>1, <4>1
    <3>2. CASE freeSlots'[i] = id.slot
      <4>1. id.slot < Len(slots)
        BY <1>2, <1>3, SlabAssumption
      <4> QED
        BY <1>l, <1>r, <3>2, <4>1
    <3> QED
      BY <1>f, <3>1, <3>2
  <2>2. ASSUME NEW i \in 1..Len(freeSlots'), NEW j \in 1..Len(freeSlots'),
               freeSlots'[i] = freeSlots'[j]
        PROVE  i = j
    <3>1. CASE i \in 1..Len(freeSlots) /\ j \in 1..Len(freeSlots)
      BY <1>f, <2>2, <3>1 DEF SlabInv, Freed
    <3>2. CASE i \notin 1..Len(freeSlots)
      <4>1. i = Len(freeSlots) + 1 /\ freeSlots'[i] = id.slot
        BY <1>f, <3>2
      <4>2. j \notin 1..Len(freeSlots)
        BY <1>f, <1>o, <2>2, <4>1
      <4> QED
        BY <1>f, <4>1, <4>2
    <3>3. CASE j \notin 1..Len(freeSlots)
      <4>1. j = Len(freeSlots) + 1 /\ freeSlots'[j] = id.slot
        BY <1>f, <3>3
      <4>2. i \notin 1..Len(freeSlots)
        BY <1>f, <1>o, <2>2, <4>1
      <4> QED
        BY <1>f, <4>1, <4>2
    <3> QED
      BY <3>1, <3>2, <3>3
  <2>3. ASSUME NEW k \in 1..Len(slots'), slots'[k].dense = VACANT
        PROVE  \/ slots'[k].generation = GenerationMax
               \/ \E i \in 1..Len(freeSlots') : freeSlots'[i] = k - 1
    <3>1. k \in 1..Len(slots)
      BY <1>l
    <3>2. CASE k = r
      <4>1. CASE g < GenerationMax
        <5>1. k - 1 = id.slot
          BY <1>2, <3>2, SlabAssumption
        <5> QED
          BY <1>f, <4>1, <5>1
      <4>2. CASE ~(g < GenerationMax)
        <5>1. g = GenerationMax
          BY <4>2, SlabAssumption
        <5> QED
          BY <1>r, <3>2, <4>2, <5>1
      <4> QED
        BY <4>1, <4>2
    <3>3. CASE k # r
      <4>1. slots[k].dense = VACANT /\ slots'[k].generation = slots[k].generation
        BY <1>g, <1>n, <2>3, <3>1, <3>3 DEF VACANT
      <4>2. \/ slots[k].generation = GenerationMax
            \/ \E i \in 1..Len(freeSlots) : freeSlots[i] = k - 1
        BY <3>1, <4>1 DEF SlabInv, Freed
      <4> QED
        BY <1>f, <4>1, <4>2
    <3> QED
      BY <3>2, <3>3
  <2> QED
    BY <2>1, <2>2, <2>3 DEF Freed, VACANT
<1>7. Ahead'
  <2>1. ASSUME NEW i \in issued
        PROVE  /\ i.shard = Shard
               /\ i.slot < Len(slots')
               /\ i.slot + 1 \in 1..Len(slots)
               /\ i.slot \in 0..IndexMax /\ i.generation \in 0..GenerationMax
               /\ i.generation <= slots'[i.slot + 1].generation
               /\ (i.slot = id.slot /\ g < GenerationMax) =>
                     i.generation < slots'[i.slot + 1].generation
    <3>1. i.slot \in 0..IndexMax /\ i.generation \in 0..GenerationMax
      BY DEF SlabInv, SlabTypeOK, EntityId
    <3>2. /\ i.shard = Shard /\ i.slot < Len(slots)
          /\ i.generation <= slots[i.slot + 1].generation
      BY DEF SlabInv, Ahead
    <3>3. i.slot + 1 \in 1..Len(slots)
      BY <1>3, <3>1, <3>2, SlabAssumption
    <3>4. CASE i.slot = id.slot
      <4>1. i.generation <= g
        BY <1>1, <3>2, <3>4
      <4>2. slots'[i.slot + 1].generation = IF g < GenerationMax THEN g + 1 ELSE g
        BY <1>r, <3>4
      <4>3. /\ i.generation <= slots'[i.slot + 1].generation
            /\ g < GenerationMax => i.generation < slots'[i.slot + 1].generation
        BY <3>1, <4>1, <4>2, SlabAssumption
      <4> QED
        BY <1>l, <3>1, <3>2, <3>3, <4>3
    <3>5. CASE i.slot # id.slot
      <4>1. i.slot + 1 # r
        BY <1>2, <3>1, <3>5, SlabAssumption
      <4>2. slots'[i.slot + 1].generation = slots[i.slot + 1].generation
        BY <1>g, <3>3, <4>1
      <4>3. i.generation <= slots'[i.slot + 1].generation
        BY <3>2, <4>2
      <4>4. i.slot < Len(slots')
        BY <1>l, <3>2
      <4> QED
        BY <3>1, <3>2, <3>3, <3>5, <4>3, <4>4
    <3> QED
      BY <3>4, <3>5
  <2>2. ASSUME NEW j \in 1..Len(freeSlots'), NEW i \in issued,
               i.slot = freeSlots'[j]
        PROVE  i.generation < slots'[i.slot + 1].generation
    <3>1. CASE j \in 1..Len(freeSlots) /\ freeSlots'[j] = freeSlots[j]
      <4>1. i.generation < slots[i.slot + 1].generation
        BY <2>2, <3>1 DEF SlabInv, Ahead
      <4>2. i.slot # id.slot
        BY <1>o, <2>2, <3>1
      <4>a. i.slot \in 0..IndexMax /\ i.slot + 1 \in 1..Len(slots)
        BY <2>1
      <4>b. id.slot \in Int /\ i.slot \in Int
        BY <1>2, <4>a, SlabAssumption
      <4>3. i.slot + 1 # r /\ i.slot + 1 \in 1..Len(slots)
        BY <4>2, <4>a, <4>b
      <4>4. slots'[i.slot + 1].generation = slots[i.slot + 1].generation
        BY <1>g, <4>3
      <4> QED
        BY <4>1, <4>4
    <3>2. CASE g < GenerationMax /\ freeSlots'[j] = id.slot
      BY <2>1, <2>2, <3>2
    <3> QED
      BY <1>f, <3>1, <3>2
  <2>3. issued' = issued
    BY <1>1
  <2> QED
    BY <2>1, <2>2, <2>3 DEF Ahead
<1> QED
  BY <1>4, <1>5, <1>6, <1>7 DEF SlabInv

(***************************************************************************)
(* The slab's arrays, free stack and generations stay consistent under any *)
(* sequence of insert, get_mut and remove.                                 *)
(***************************************************************************)
THEOREM SlabInvariant == SlabSpec => []SlabInv
<1>1. SlabInit => SlabInv
  BY SlabAssumption DEF SlabInit, SlabInv, SlabTypeOK, Linked, Freed, Ahead
<1>2. SlabInv /\ [SlabNext]_slabVars => SlabInv'
  <2> SUFFICES ASSUME SlabInv, [SlabNext]_slabVars PROVE SlabInv'
    OBVIOUS
  <2>1. CASE UNCHANGED slabVars
    BY <2>1 DEF slabVars, SlabInv, SlabTypeOK, Linked, Freed, Ahead, VACANT
  <2>2. ASSUME NEW v \in Values, Insert(v) PROVE SlabInv'
    BY <2>2, InsertReusedKeeps, InsertFreshKeeps DEF Insert
  <2>3. ASSUME NEW id \in EntityId, Remove(id) PROVE SlabInv'
    BY <2>3, RemoveKeeps
  <2>4. ASSUME NEW id \in EntityId, NEW v \in Values, Assign(id, v) PROVE SlabInv'
    BY <2>4, AssignKeeps
  <2> QED
    BY <2>1, <2>2, <2>3, <2>4 DEF SlabNext
<1> QED
  BY <1>1, <1>2, PTL DEF SlabSpec

(***************************************************************************)
(* No slot leaks, for every capacity and generation width.                 *)
(***************************************************************************)
THEOREM SlabNoSlotLeaks == SlabSpec => []NoSlotLeaks
<1>1. SlabInv => NoSlotLeaks
  <2> SUFFICES ASSUME SlabInv,
                      NEW s \in 0..(Len(slots) - 1)
               PROVE  LET held == {i \in DOMAIN denseSlots : denseSlots[i] = s}
                          free == {i \in DOMAIN freeSlots : freeSlots[i] = s}
                      IN \/ /\ held = {slots[s + 1].dense + 1}
                            /\ free = {}
                         \/ /\ held = {}
                            /\ slots[s + 1].dense = VACANT
                            /\ \/ \E i \in DOMAIN freeSlots : free = {i}
                               \/ /\ free = {}
                                  /\ slots[s + 1].generation = GenerationMax
    BY DEF NoSlotLeaks, SlabInv, Linked
  <2> DEFINE held == {i \in DOMAIN denseSlots : denseSlots[i] = s}
             free == {i \in DOMAIN freeSlots : freeSlots[i] = s}
  <2>1. DOMAIN denseSlots = 1..Len(denseSlots) /\ DOMAIN freeSlots = 1..Len(freeSlots)
    BY LenProperties DEF SlabInv, SlabTypeOK
  <2>2. Len(slots) \in Nat /\ Len(denseSlots) \in Nat /\ s + 1 \in 1..Len(slots)
    BY Ranges
  <2>3. slots[s + 1].dense \in 0..IndexMax
    BY <2>2, Ranges
  <2>4. CASE slots[s + 1].dense # VACANT
    <3>1. /\ slots[s + 1].dense + 1 \in 1..Len(denseSlots)
          /\ denseSlots[slots[s + 1].dense + 1] = s
      BY <2>2, <2>3, <2>4, SlabAssumption DEF SlabInv, Linked
    <3>2. \A i \in 1..Len(denseSlots) : denseSlots[i] = s => i = slots[s + 1].dense + 1
      BY <2>2, <2>3 DEF SlabInv, Linked
    <3>3. \A i \in 1..Len(freeSlots) : freeSlots[i] # s
      BY <2>4 DEF SlabInv, Freed
    <3> QED
      BY <2>1, <3>1, <3>2, <3>3
  <2>5. CASE slots[s + 1].dense = VACANT
    <3>1. \A i \in 1..Len(denseSlots) : denseSlots[i] # s
      <4> SUFFICES ASSUME NEW i \in 1..Len(denseSlots), denseSlots[i] = s PROVE FALSE
        OBVIOUS
      <4>1. slots[s + 1].dense = i - 1
        BY DEF SlabInv, Linked
      <4>2. Len(denseSlots) <= Len(slots) /\ Len(slots) <= Capacity
        BY RoomForOne DEF SlabInv, Linked
      <4> QED
        BY <2>2, <2>5, <4>1, <4>2, SlabAssumption DEF VACANT
    <3>2. \/ slots[s + 1].generation = GenerationMax
          \/ \E i \in 1..Len(freeSlots) : freeSlots[i] = s
      BY <2>2, <2>5 DEF SlabInv, Freed
    <3>3. \A i, j \in 1..Len(freeSlots) : freeSlots[i] = s /\ freeSlots[j] = s => i = j
      BY DEF SlabInv, Freed
    <3>4. held = {}
      BY <2>1, <3>1
    <3>5. CASE \E i \in 1..Len(freeSlots) : freeSlots[i] = s
      <4>1. PICK i \in 1..Len(freeSlots) : freeSlots[i] = s
        BY <3>5
      <4>2. free = {i}
        BY <2>1, <3>3, <4>1
      <4> QED
        BY <2>1, <2>5, <3>4, <4>1, <4>2
    <3>6. CASE ~ \E i \in 1..Len(freeSlots) : freeSlots[i] = s
      <4>1. free = {}
        BY <2>1, <3>6
      <4> QED
        BY <2>5, <3>2, <3>4, <3>6, <4>1
    <3> QED
      BY <3>5, <3>6
  <2> QED
    BY <2>4, <2>5
<1> QED
  BY <1>1, SlabInvariant, PTL

-----------------------------------------------------------------------------
(* A step that adds one identity to those that resolve is the map's Insert. *)
LEMMA InsertRefines ==
    ASSUME NEW v \in Values, NEW new \in EntityId,
           new \notin issued, issued' = issued \cup {new},
           \A i \in EntityId : Resolves(i)' <=> (Resolves(i) \/ i = new),
           \A i \in EntityId : i # new /\ Resolves(i) => Get(i)' = Get(i),
           Get(new)' = v
    PROVE  Map!Insert(new, v)
<1>1. DOMAIN LiveMap = {i \in EntityId : Resolves(i)}
  BY DEF LiveMap
<1>2. LiveMap' = [i \in DOMAIN LiveMap \cup {new} |->
                     IF i = new THEN v ELSE LiveMap[i]]
  <2>1. {i \in EntityId : Resolves(i)'} = DOMAIN LiveMap \cup {new}
    BY <1>1
  <2>2. LiveMap' = [i \in {j \in EntityId : Resolves(j)'} |-> Get(i)']
    BY DEF LiveMap
  <2>3. \A i \in DOMAIN LiveMap \cup {new} :
           Get(i)' = IF i = new THEN v ELSE LiveMap[i]
    BY <1>1 DEF LiveMap
  <2> QED
    BY <2>1, <2>2, <2>3, Zenon
<1> QED
  BY <1>2 DEF Map!Insert

LEMMA ReusedRefines ==
    ASSUME SlabInv, NEW v \in Values, InsertReused(v)
    PROVE  \E id \in EntityId : Map!Insert(id, v)
<1>1. PICK s \in 0..IndexMax :
             /\ Len(freeSlots) \in 1..Len(freeSlots)
             /\ s = freeSlots[Len(freeSlots)]
             /\ s < Len(slots)
             /\ s + 1 \in 1..Len(slots)
             /\ slots[s + 1].dense = VACANT
             /\ Len(values) < Capacity
             /\ Len(values) \in 0..IndexMax
             /\ Place(s, slots[s + 1].generation, v)
             /\ slots[s + 1].generation \in 0..GenerationMax
             /\ slots' \in Seq(Slot)
             /\ Len(slots') = Len(slots)
             /\ \A k \in 1..Len(slots) : slots'[k] =
                   IF k = s + 1
                   THEN [dense |-> Len(values), generation |-> slots[k].generation]
                   ELSE slots[k]
             /\ freeSlots' \in Seq(0..IndexMax)
             /\ Len(freeSlots') = Len(freeSlots) - 1
             /\ \A i \in 1..(Len(freeSlots) - 1) : freeSlots'[i] = freeSlots[i]
  BY InsertReusedFacts
<1>0. PICK new : new = [shard |-> Shard, slot |-> s,
                        generation |-> slots[s + 1].generation]
  OBVIOUS
<1>2. /\ \A i \in 1..Len(values) : values'[i] = values[i]
      /\ values'[Len(values) + 1] = v
      /\ issued' = issued \cup {new}
  BY <1>0, <1>1, PlaceFacts DEF SlabInv
<1>3. /\ new \in EntityId
      /\ new.shard = Shard /\ new.slot = s
      /\ new.generation = slots[s + 1].generation
  BY <1>0, <1>1, SlabAssumption DEF EntityId
<1>4. new \notin issued
  <2> SUFFICES ASSUME new \in issued PROVE FALSE
    OBVIOUS
  <2>1. new.generation < slots[s + 1].generation
    BY <1>1, <1>3 DEF SlabInv, Ahead
  <2> QED
    BY <1>1, <1>3, <2>1
<1>s. s \in 0..IndexMax /\ s + 1 \in 1..Len(slots) /\ slots[s + 1].dense = VACANT
      /\ Len(slots') = Len(slots) /\ Len(slots) \in Nat /\ s < Len(slots)
  BY <1>1, Ranges
<1>n. slots'[s + 1].dense = Len(values) /\ slots'[s + 1].generation = slots[s + 1].generation
  <2>1. slots'[s + 1] = [dense |-> Len(values), generation |-> slots[s + 1].generation]
    BY <1>1
  <2> QED
    BY <2>1
<1>k. \A k \in 1..Len(slots) : k # s + 1 => slots'[k] = slots[k]
  BY <1>1
<1>v. Len(values) # VACANT /\ Len(values) \in Nat
  BY <1>1, SlabAssumption DEF VACANT
<1>5. ASSUME NEW i \in EntityId, i.slot # s
      PROVE  /\ Resolves(i)' <=> Resolves(i)
             /\ Resolves(i) => Get(i)' = Get(i)
  <2>1. i.slot \in 0..IndexMax
    BY DEF EntityId
  <2>2. CASE i.slot < Len(slots)
    <3>1. i.slot + 1 \in 1..Len(slots) /\ i.slot + 1 # s + 1
      BY <1>s, <1>5, <2>1, <2>2, SlabAssumption
    <3>2. slots'[i.slot + 1] = slots[i.slot + 1]
      BY <1>k, <3>1
    <3>3. Resolves(i)' <=> Resolves(i)
      BY <1>s, <3>2 DEF Resolves, VACANT
    <3>4. Resolves(i) => Get(i)' = Get(i)
      <4> SUFFICES ASSUME Resolves(i) PROVE Get(i)' = Get(i)
        OBVIOUS
      <4>1. slots[i.slot + 1].dense + 1 \in 1..Len(values)
        BY ResolvesFacts
      <4> QED
        BY <1>2, <3>2, <4>1 DEF Get
    <3> QED
      BY <3>3, <3>4
  <2>3. CASE ~(i.slot < Len(slots))
    BY <1>s, <2>3 DEF Resolves
  <2> QED
    BY <2>2, <2>3
<1>6. ASSUME NEW i \in EntityId, i.slot = s
      PROVE  ~Resolves(i) /\ (Resolves(i)' <=> i = new)
  <2>1. ~Resolves(i)
    BY <1>s, <1>6 DEF Resolves
  <2>2. Resolves(i)' <=> (i.shard = Shard /\ i.generation = slots[s + 1].generation)
    BY <1>s, <1>n, <1>v, <1>6 DEF Resolves, VACANT
  <2>3. (i.shard = Shard /\ i.generation = slots[s + 1].generation) <=> i = new
    BY <1>3, <1>6 DEF EntityId
  <2> QED
    BY <2>1, <2>2, <2>3
<1>7. Get(new)' = v
  BY <1>2, <1>3, <1>n DEF Get
<1>8. \A i \in EntityId : Resolves(i)' <=> (Resolves(i) \/ i = new)
  BY <1>3, <1>5, <1>6
<1>9. \A i \in EntityId : i # new /\ Resolves(i) => Get(i)' = Get(i)
  BY <1>5, <1>6
<1>10. issued' = issued \cup {new}
  BY <1>2
<1>11. new \in EntityId
  BY <1>3
<1>12. Map!Insert(new, v)
  BY <1>4, <1>7, <1>8, <1>9, <1>10, <1>11, InsertRefines, Zenon
<1> QED
  BY <1>11, <1>12

LEMMA FreshRefines ==
    ASSUME SlabInv, NEW v \in Values, InsertFresh(v)
    PROVE  \E id \in EntityId : Map!Insert(id, v)
<1>0. PICK new : new = [shard |-> Shard, slot |-> Len(slots), generation |-> 0]
  OBVIOUS
<1>1. /\ Len(slots) < Capacity /\ Len(slots) \in 0..IndexMax
      /\ Len(values) < Capacity /\ Len(values) \in 0..IndexMax
      /\ Place(Len(slots), 0, v)
  BY InsertFreshFacts
<1>2. /\ Len(slots') = Len(slots) + 1
      /\ \A k \in 1..Len(slots) : slots'[k] = slots[k]
      /\ slots'[Len(slots) + 1] = [dense |-> Len(values), generation |-> 0]
  BY InsertFreshFacts
<1>3. 0 \in 0..GenerationMax
  BY SlabAssumption
<1>4. /\ \A i \in 1..Len(values) : values'[i] = values[i]
      /\ values'[Len(values) + 1] = v
      /\ issued' = issued \cup {new}
  BY <1>0, <1>1, <1>3, PlaceFacts DEF SlabInv
<1>5. /\ new \in EntityId
      /\ new.shard = Shard /\ new.slot = Len(slots) /\ new.generation = 0
  BY <1>0, <1>1, <1>3, SlabAssumption DEF EntityId
<1>6. new \notin issued
  BY <1>1, <1>5 DEF SlabInv, Ahead
<1>7. /\ slots'[Len(slots) + 1].dense = Len(values)
      /\ slots'[Len(slots) + 1].generation = 0
      /\ Len(slots) \in Nat /\ Len(slots) < Len(slots')
      /\ Len(values) # VACANT
  BY <1>1, <1>2, SlabAssumption DEF VACANT
<1>8. ASSUME NEW i \in EntityId, i.slot # Len(slots)
      PROVE  /\ Resolves(i)' <=> Resolves(i)
             /\ Resolves(i) => Get(i)' = Get(i)
  <2>1. i.slot \in 0..IndexMax
    BY DEF EntityId
  <2>2. CASE i.slot < Len(slots)
    <3>1. i.slot + 1 \in 1..Len(slots) /\ i.slot < Len(slots')
      BY <1>2, <1>7, <2>1, <2>2, SlabAssumption
    <3>2. slots'[i.slot + 1] = slots[i.slot + 1]
      BY <1>2, <3>1
    <3>3. Resolves(i)' <=> Resolves(i)
      BY <2>2, <3>1, <3>2 DEF Resolves, VACANT
    <3>4. Resolves(i) => Get(i)' = Get(i)
      <4> SUFFICES ASSUME Resolves(i) PROVE Get(i)' = Get(i)
        OBVIOUS
      <4>1. slots[i.slot + 1].dense + 1 \in 1..Len(values)
        BY ResolvesFacts
      <4> QED
        BY <1>4, <3>2, <4>1 DEF Get
    <3> QED
      BY <3>3, <3>4
  <2>3. CASE ~(i.slot < Len(slots))
    <3>1. ~(i.slot < Len(slots'))
      BY <1>2, <1>7, <1>8, <2>1, <2>3, SlabAssumption
    <3> QED
      BY <2>3, <3>1 DEF Resolves
  <2> QED
    BY <2>2, <2>3
<1>9. ASSUME NEW i \in EntityId, i.slot = Len(slots)
      PROVE  ~Resolves(i) /\ (Resolves(i)' <=> i = new)
  <2>1. ~Resolves(i)
    BY <1>7, <1>9 DEF Resolves
  <2>2. Resolves(i)' <=> (i.shard = Shard /\ i.generation = 0)
    BY <1>7, <1>9 DEF Resolves, VACANT
  <2>3. (i.shard = Shard /\ i.generation = 0) <=> i = new
    BY <1>5, <1>9 DEF EntityId
  <2> QED
    BY <2>1, <2>2, <2>3
<1>10. Get(new)' = v
  BY <1>4, <1>5, <1>7 DEF Get
<1>11. \A i \in EntityId : Resolves(i)' <=> (Resolves(i) \/ i = new)
  BY <1>5, <1>8, <1>9
<1>12. \A i \in EntityId : i # new /\ Resolves(i) => Get(i)' = Get(i)
  BY <1>8, <1>9
<1>13. new \in EntityId /\ issued' = issued \cup {new}
  BY <1>4, <1>5
<1>14. Map!Insert(new, v)
  BY <1>6, <1>10, <1>11, <1>12, <1>13, InsertRefines, Zenon
<1> QED
  BY <1>13, <1>14

(* Two identities that resolve to the same dense position are one.         *)
LEMMA DensePositionsDiffer ==
    ASSUME SlabInv, NEW i \in EntityId, NEW j \in EntityId,
           Resolves(i), Resolves(j),
           slots[i.slot + 1].dense = slots[j.slot + 1].dense
    PROVE  i = j
<1>1. i.slot = j.slot
  BY ResolvesFacts
<1> QED
  BY <1>1, ResolvesFacts

LEMMA AssignRefines ==
    ASSUME SlabInv, NEW id \in EntityId, NEW v \in Values, Assign(id, v)
    PROVE  Map!Assign(id, v)
<1>1. /\ Resolves(id)
      /\ UNCHANGED <<slots, denseSlots, freeSlots, issued>>
  BY DEF Assign
<1>2. /\ slots[id.slot + 1].dense + 1 \in 1..Len(values)
      /\ \A i \in 1..Len(values) : values'[i] =
            IF i = slots[id.slot + 1].dense + 1 THEN v ELSE values[i]
  BY AssignKeeps
<1>3. \A i \in EntityId : Resolves(i)' <=> Resolves(i)
  BY <1>1 DEF Resolves, VACANT
<1>4. DOMAIN LiveMap = {i \in EntityId : Resolves(i)} /\ id \in DOMAIN LiveMap
  BY <1>1 DEF LiveMap
<1>5. ASSUME NEW i \in EntityId, Resolves(i)
      PROVE  Get(i)' = IF i = id THEN v ELSE Get(i)
  <2>1. slots[i.slot + 1].dense + 1 \in 1..Len(values)
        /\ slots[i.slot + 1].dense \in 0..IndexMax
        /\ slots[id.slot + 1].dense \in 0..IndexMax
    BY <1>1, <1>5, ResolvesFacts, Ranges
  <2>2. Get(i)' = values'[slots[i.slot + 1].dense + 1]
    BY <1>1 DEF Get
  <2>3. CASE i = id
    BY <1>2, <2>2, <2>3
  <2>4. CASE i # id
    <3>1. slots[i.slot + 1].dense # slots[id.slot + 1].dense
      BY <1>1, <1>5, <2>4, DensePositionsDiffer
    <3>2. slots[i.slot + 1].dense + 1 # slots[id.slot + 1].dense + 1
      BY <2>1, <3>1, SlabAssumption
    <3> QED
      BY <1>2, <2>1, <2>2, <2>4, <3>2 DEF Get
  <2> QED
    BY <2>3, <2>4
<1>6. LiveMap' = [LiveMap EXCEPT ![id] = v]
  <2>1. LiveMap' = [i \in {j \in EntityId : Resolves(j)'} |-> Get(i)']
    BY DEF LiveMap
  <2>2. {j \in EntityId : Resolves(j)'} = DOMAIN LiveMap
    BY <1>3, <1>4
  <2>3. \A i \in DOMAIN LiveMap : LiveMap[i] = Get(i)
    BY DEF LiveMap
  <2>4. \A i \in DOMAIN LiveMap : Get(i)' = IF i = id THEN v ELSE LiveMap[i]
    BY <1>4, <1>5, <2>3
  <2>5. LiveMap = [i \in DOMAIN LiveMap |-> LiveMap[i]]
    BY DEF LiveMap
  <2> QED
    BY <2>1, <2>2, <2>4, <2>5, Zenon
<1> QED
  BY <1>1, <1>4, <1>6 DEF Map!Assign

LEMMA RemoveRefines ==
    ASSUME SlabInv, NEW id \in EntityId, Remove(id)
    PROVE  Map!Remove(id)
<1>1. PICK d \in 0..IndexMax, m \in 0..IndexMax, g \in 0..GenerationMax :
             /\ d = slots[id.slot + 1].dense
             /\ g = slots[id.slot + 1].generation
             /\ m = denseSlots[Len(denseSlots)]
             /\ m + 1 \in 1..Len(slots)
             /\ slots[m + 1].dense = Len(denseSlots) - 1
             /\ values' \in Seq(Values)
             /\ Len(values') = Len(values) - 1
             /\ \A i \in 1..(Len(values) - 1) : values'[i] =
                   IF i = d + 1 THEN values[Len(values)] ELSE values[i]
             /\ denseSlots' \in Seq(0..IndexMax)
             /\ Len(denseSlots') = Len(denseSlots) - 1
             /\ \A i \in 1..(Len(denseSlots) - 1) : denseSlots'[i] =
                   IF i = d + 1 THEN m ELSE denseSlots[i]
             /\ slots' \in Seq(Slot)
             /\ Len(slots') = Len(slots)
             /\ \A k \in 1..Len(slots) : slots'[k] =
                   IF k = id.slot + 1
                   THEN [dense |-> VACANT,
                         generation |-> IF g < GenerationMax THEN g + 1 ELSE g]
                   ELSE IF k = m + 1
                   THEN [dense |-> d, generation |-> slots[k].generation]
                   ELSE slots[k]
             /\ freeSlots' = IF g < GenerationMax
                             THEN Append(freeSlots, id.slot) ELSE freeSlots
             /\ freeSlots' \in Seq(0..IndexMax)
             /\ issued' = issued
  BY RemoveFacts
<1>2. /\ Resolves(id)
      /\ id.slot + 1 \in 1..Len(slots)
      /\ id.slot \in 0..IndexMax
      /\ d + 1 \in 1..Len(denseSlots)
  <2>1. Resolves(id) /\ id.slot \in 0..IndexMax
    BY DEF Remove, EntityId
  <2> QED
    BY <1>1, <2>1, ResolvesFacts
<1>3. /\ Len(slots) \in Nat /\ Len(denseSlots) \in Nat
      /\ Len(values) = Len(denseSlots) /\ Len(slots') = Len(slots)
  BY <1>1, Ranges
<1>4. \A k \in 1..Len(slots) : k # id.slot + 1 /\ k # m + 1 => slots'[k] = slots[k]
  BY <1>1
<1>5. m + 1 \in 1..Len(slots) /\ slots[m + 1].dense = Len(denseSlots) - 1
  BY <1>1
<1>6. slots'[id.slot + 1].dense = VACANT
  <2>1. slots'[id.slot + 1] = [dense |-> VACANT,
              generation |-> IF g < GenerationMax THEN g + 1 ELSE g]
    BY <1>1, <1>2
  <2> QED
    BY <2>1
<1>7. m + 1 # id.slot + 1 =>
         /\ slots'[m + 1].dense = d
         /\ slots'[m + 1].generation = slots[m + 1].generation
  <2> SUFFICES ASSUME m + 1 # id.slot + 1
               PROVE  slots'[m + 1] = [dense |-> d, generation |-> slots[m + 1].generation]
    OBVIOUS
  <2> QED
    BY <1>1
<1>8. \A i \in 1..(Len(values) - 1) : values'[i] =
          IF i = d + 1 THEN values[Len(values)] ELSE values[i]
  BY <1>1
<1>9. d # VACANT /\ d = slots[id.slot + 1].dense
  BY <1>1, <1>2, ResolvesFacts
<1>10. Len(denseSlots) - 1 # VACANT
  <2>1. Len(denseSlots) <= Len(slots) /\ Len(slots) <= Capacity
    BY RoomForOne DEF SlabInv, Linked
  <2> QED
    BY <1>3, <2>1, SlabAssumption DEF VACANT
<1>11. ASSUME NEW i \in EntityId, i.slot = id.slot
       PROVE  ~Resolves(i)' /\ (Resolves(i) => i = id)
  <2>1. ~Resolves(i)'
    BY <1>6, <1>11 DEF Resolves, VACANT
  <2>2. Resolves(i) => i = id
    BY <1>2, <1>11, ResolvesFacts
  <2> QED
    BY <2>1, <2>2
<1>12. ASSUME NEW i \in EntityId, i.slot # id.slot
       PROVE  /\ Resolves(i)' <=> Resolves(i)
              /\ Resolves(i) => Get(i)' = Get(i)
  <2>1. i.slot \in 0..IndexMax
    BY DEF EntityId
  <2>2. CASE i.slot >= Len(slots)
    BY <1>3, <2>1, <2>2, SlabAssumption DEF Resolves
  <2>3. CASE i.slot < Len(slots) /\ i.slot # m
    <3>1. i.slot + 1 \in 1..Len(slots)
      BY <1>3, <2>1, <2>3, SlabAssumption
    <3>a. i.slot + 1 # id.slot + 1
      BY <1>2, <1>12, <2>1, SlabAssumption
    <3>b. i.slot + 1 # m + 1
      BY <2>1, <2>3, SlabAssumption
    <3>2. slots'[i.slot + 1] = slots[i.slot + 1]
      BY <1>4, <3>1, <3>a, <3>b
    <3>3. Resolves(i)' <=> Resolves(i)
      BY <1>3, <3>2 DEF Resolves, VACANT
    <3>4. ASSUME Resolves(i) PROVE Get(i)' = Get(i)
      <4>1. /\ slots[i.slot + 1].dense + 1 \in 1..Len(denseSlots)
            /\ denseSlots[slots[i.slot + 1].dense + 1] = i.slot
            /\ slots[i.slot + 1].dense \in 0..IndexMax
        BY <3>1, <3>4, ResolvesFacts, Ranges
      <4>2. slots[i.slot + 1].dense + 1 # Len(denseSlots)
        BY <1>1, <2>3, <4>1
      <4>3. slots[i.slot + 1].dense + 1 \in 1..(Len(values) - 1)
        BY <1>3, <4>1, <4>2
      <4>4. slots[i.slot + 1].dense # d
        BY <1>2, <1>9, <1>12, <3>4, DensePositionsDiffer
      <4>5. slots[i.slot + 1].dense + 1 # d + 1
        BY <4>1, <4>4, SlabAssumption
      <4>6. values'[slots[i.slot + 1].dense + 1] = values[slots[i.slot + 1].dense + 1]
        BY <1>8, <4>3, <4>5
      <4> QED
        BY <3>2, <4>6 DEF Get
    <3> QED
      BY <3>3, <3>4
  <2>4. CASE i.slot < Len(slots) /\ i.slot = m
    <3>1. m + 1 # id.slot + 1
      BY <1>2, <1>12, <2>1, <2>4, SlabAssumption
    <3>2. slots'[m + 1].dense = d /\ slots'[m + 1].generation = slots[m + 1].generation
      BY <1>7, <3>1
    <3>3. Resolves(i)' <=> Resolves(i)
      BY <1>3, <1>5, <1>9, <1>10, <2>4, <3>2 DEF Resolves, VACANT
    <3>4. ASSUME Resolves(i) PROVE Get(i)' = Get(i)
      <4>1. Get(i) = values[Len(values)]
        BY <1>3, <1>5, <2>4 DEF Get
      <4>2. slots[m + 1].dense # d
        BY <1>2, <1>9, <1>12, <2>4, <3>4, DensePositionsDiffer
      <4>3. d + 1 # Len(denseSlots)
        BY <1>2, <1>3, <1>5, <4>2, SlabAssumption
      <4>4. d + 1 \in 1..(Len(values) - 1)
        BY <1>2, <1>3, <4>3
      <4>5. values'[d + 1] = values[Len(values)]
        BY <1>8, <4>4
      <4> QED
        BY <2>4, <3>2, <4>1, <4>5 DEF Get
    <3> QED
      BY <3>3, <3>4
  <2> QED
    BY <1>3, <2>1, <2>2, <2>3, <2>4, SlabAssumption
<1>13. DOMAIN LiveMap = {i \in EntityId : Resolves(i)} /\ id \in DOMAIN LiveMap
  BY <1>2 DEF LiveMap
<1>14. LiveMap' = [i \in DOMAIN LiveMap \ {id} |-> LiveMap[i]]
  <2>1. LiveMap' = [i \in {j \in EntityId : Resolves(j)'} |-> Get(i)']
    BY DEF LiveMap
  <2>2. {j \in EntityId : Resolves(j)'} = DOMAIN LiveMap \ {id}
    BY <1>11, <1>12, <1>13
  <2>3. \A i \in DOMAIN LiveMap \ {id} : Get(i)' = LiveMap[i]
    BY <1>11, <1>12, <1>13 DEF LiveMap
  <2> QED
    BY <2>1, <2>2, <2>3, Zenon
<1>15. issued' = issued
  BY <1>1
<1> QED
  BY <1>13, <1>14, <1>15 DEF Map!Remove

(***************************************************************************)
(* The slab implements the map with never-reused identities: a handle to a *)
(* removed entity never resolves again, and no removal disturbs another    *)
(* entity's value, for every capacity and every generation width.          *)
(***************************************************************************)
THEOREM SlabIsEntityMap == SlabSpec => IsEntityMap
<1>1. SlabInit => Map!Init
  <2> SUFFICES ASSUME SlabInit PROVE Map!Init
    OBVIOUS
  <2>1. \A i \in EntityId : ~Resolves(i)
    BY SlabAssumption DEF SlabInit, Resolves, EntityId
  <2>2. LiveMap = [i \in {} |-> i]
    BY <2>1 DEF LiveMap
  <2> QED
    BY <2>2 DEF SlabInit, Map!Init
<1>2. SlabInv /\ [SlabNext]_slabVars => [Map!Next]_(Map!vars)
  <2> SUFFICES ASSUME SlabInv, [SlabNext]_slabVars PROVE [Map!Next]_(Map!vars)
    OBVIOUS
  <2>1. CASE UNCHANGED slabVars
    <3>1. issued' = issued
      BY <2>1 DEF slabVars
    <3>2. LiveMap' = LiveMap
      BY <2>1 DEF slabVars, LiveMap, Resolves, Get, VACANT
    <3> QED
      BY <3>1, <3>2 DEF Map!vars
  <2>2. ASSUME NEW v \in Values, Insert(v) PROVE Map!Next
    BY <2>2, ReusedRefines, FreshRefines DEF Insert, Map!Next
  <2>3. ASSUME NEW id \in EntityId, Remove(id) PROVE Map!Next
    BY <2>3, RemoveRefines DEF Map!Next
  <2>4. ASSUME NEW id \in EntityId, NEW v \in Values, Assign(id, v) PROVE Map!Next
    BY <2>4, AssignRefines DEF Map!Next
  <2> QED
    BY <2>1, <2>2, <2>3, <2>4 DEF SlabNext
<1> QED
  BY <1>1, <1>2, SlabInvariant, PTL DEF SlabSpec, IsEntityMap, Map!Spec

-----------------------------------------------------------------------------
(* Numbers and listings.                                                   *)

LEMMA LeastNatural ==
    ASSUME NEW S \in SUBSET Nat, S # {}
    PROVE  \E x \in S : \A y \in S : x <= y
<1>1. PICK x \in S : \A y \in S : ~(<<y, x>> \in OpToRel(<, Nat))
  BY NatLessThanWellFounded, WFMin, Zenon
<1>2. \A y \in S : ~(y < x)
  BY <1>1 DEF OpToRel
<1> QED
  BY <1>2

LEMMA NaturalSet ==
    ASSUME NEW T, 0 \in T, \A n \in Nat : n \in T => n + 1 \in T
    PROVE  \A n \in Nat : n \in T
<1>1. SUFFICES ASSUME Nat \ T # {} PROVE FALSE
  OBVIOUS
<1>2. PICK x \in Nat \ T : \A y \in Nat \ T : x <= y
  BY <1>1, LeastNatural
<1>3. x # 0 /\ x - 1 \in Nat /\ x - 1 \in T
  BY <1>2
<1> QED
  BY <1>2, <1>3

(* A listing of smaller numbers extended by a larger one.                  *)
LEMMA ListingAppend ==
    ASSUME NEW S \in SUBSET Nat, NEW n \in Nat, \A x \in S : x < n,
           NEW s \in Seq(S), Listing(s, S)
    PROVE  Listing(Append(s, n), S \cup {n})
<1> DEFINE t == Append(s, n)
<1>1. /\ Len(s) \in Nat /\ Len(t) = Len(s) + 1
      /\ \A i \in 1..Len(s) : t[i] = s[i] /\ s[i] \in S
      /\ t[Len(s) + 1] = n
  BY ElementOfSeq
<1> HIDE DEF t
<1>2. {t[i] : i \in 1..Len(t)} = S \cup {n}
  <2>1. ASSUME NEW x \in S \cup {n} PROVE \E i \in 1..Len(t) : t[i] = x
    <3>1. CASE x \in S
      <4>1. PICK i \in 1..Len(s) : s[i] = x
        BY <3>1 DEF Listing
      <4>2. i \in 1..Len(t) /\ t[i] = x
        BY <1>1, <4>1
      <4> QED
        BY <4>2
    <3>2. CASE x = n
      <4>1. Len(s) + 1 \in 1..Len(t)
        BY <1>1
      <4> QED
        BY <1>1, <3>2, <4>1
    <3> QED
      BY <3>1, <3>2
  <2>2. ASSUME NEW i \in 1..Len(t) PROVE t[i] \in S \cup {n}
    BY <1>1
  <2> QED
    BY <2>1, <2>2
<1>3. ASSUME NEW i \in 1..Len(t), NEW j \in 1..Len(t), i < j PROVE t[i] < t[j]
  <2>1. i \in 1..Len(s)
    BY <1>1, <1>3
  <2>2. CASE j \in 1..Len(s)
    BY <1>1, <1>3, <2>1, <2>2 DEF Listing
  <2>3. CASE j = Len(s) + 1
    BY <1>1, <2>1, <2>3
  <2> QED
    BY <1>1, <2>2, <2>3
<1> QED
  BY <1>2, <1>3 DEF Listing, t

(* A page's hits can be listed in the order of the scan.                   *)
LEMMA InOrderLists ==
    ASSUME NEW n \in Nat, NEW S \in SUBSET (0..(n - 1))
    PROVE  Listing(InOrder(S), S) /\ InOrder(S) \in Seq(S)
<1> DEFINE Listed(k) == \A R \in SUBSET (0..(k - 1)) :
               /\ IsFiniteSet(R)
               /\ \E s \in [1..Cardinality(R) -> R] : Listing(s, R)
           T == {k \in Nat : Listed(k)}
<1>1. 0 \in T
  <2> SUFFICES ASSUME NEW R \in SUBSET (0..(0 - 1))
               PROVE  /\ IsFiniteSet(R)
                      /\ \E s \in [1..Cardinality(R) -> R] : Listing(s, R)
    OBVIOUS
  <2>1. R = {}
    OBVIOUS
  <2>2. IsFiniteSet(R) /\ Cardinality(R) = 0
    BY <2>1, FS_EmptySet
  <2>3. <<>> \in [1..0 -> R] /\ Listing(<<>>, R)
    BY <2>1 DEF Listing
  <2> QED
    BY <2>2, <2>3
<1>2. ASSUME NEW k \in Nat, k \in T PROVE k + 1 \in T
  <2> SUFFICES ASSUME NEW R \in SUBSET (0..((k + 1) - 1))
               PROVE  /\ IsFiniteSet(R)
                      /\ \E s \in [1..Cardinality(R) -> R] : Listing(s, R)
    OBVIOUS
  <2>0. ASSUME NEW Q \in SUBSET (0..(k - 1))
        PROVE  /\ IsFiniteSet(Q)
               /\ \E s \in [1..Cardinality(Q) -> Q] : Listing(s, Q)
    BY <1>2
  <2>1. CASE k \notin R
    <3>1. R \in SUBSET (0..(k - 1))
      BY <2>1
    <3> QED
      BY <2>0, <3>1
  <2>2. CASE k \in R
    <3> DEFINE Q == R \ {k}
    <3>1. Q \in SUBSET (0..(k - 1)) /\ R = Q \cup {k} /\ k \notin Q
      BY <2>2
    <3> HIDE DEF Q
    <3>2. IsFiniteSet(Q)
      BY <2>0, <3>1
    <3>3. PICK s \in [1..Cardinality(Q) -> Q] : Listing(s, Q)
      BY <2>0, <3>1
    <3>4. Cardinality(Q) \in Nat /\ IsFiniteSet(R) /\ Cardinality(R) = Cardinality(Q) + 1
      BY <3>1, <3>2, FS_AddElement, FS_CardinalityType
    <3>5. s \in Seq(Q) /\ Len(s) = Cardinality(Q)
      BY <3>4
    <3>6. Listing(Append(s, k), R)
      <4>1. Q \in SUBSET Nat /\ \A x \in Q : x < k
        BY <3>1
      <4> QED
        BY <3>1, <3>3, <3>5, <4>1, ListingAppend
    <3>7. Append(s, k) \in [1..Cardinality(R) -> R]
      <4>1. s \in Seq(R) /\ k \in R
        BY <3>1, <3>4
      <4>2. Append(s, k) \in Seq(R) /\ Len(Append(s, k)) = Cardinality(Q) + 1
        BY <3>5, <4>1
      <4> QED
        BY <3>4, <4>2, LenProperties
    <3> QED
      BY <3>4, <3>6, <3>7
  <2> QED
    BY <2>1, <2>2
<1> HIDE DEF T
<1>3. n \in T
  BY <1>1, <1>2, NaturalSet
<1>4. IsFiniteSet(S) /\ \E s \in [1..Cardinality(S) -> S] : Listing(s, S)
  BY <1>3 DEF T
<1>5. Listing(InOrder(S), S) /\ InOrder(S) \in [1..Cardinality(S) -> S]
  BY <1>4 DEF InOrder
<1>6. Cardinality(S) \in Nat
  BY <1>4, FS_CardinalityType
<1> QED
  BY <1>5, <1>6

(* Two listings, the second of larger numbers, make one.                   *)
LEMMA ListingConcat ==
    ASSUME NEW A \in SUBSET Nat, NEW B \in SUBSET Nat, \A a \in A, b \in B : a < b,
           NEW left \in Seq(A), NEW right \in Seq(B),
           Listing(left, A), Listing(right, B)
    PROVE  Listing(left \o right, A \cup B)
<1> DEFINE both == left \o right
<1>1. /\ Len(both) = Len(left) + Len(right)
      /\ Len(left) \in Nat /\ Len(right) \in Nat
      /\ \A i \in 1..Len(left) : both[i] = left[i] /\ left[i] \in A
      /\ \A i \in 1..Len(right) : both[Len(left) + i] = right[i] /\ right[i] \in B
  BY ElementOfSeq
<1> HIDE DEF both
<1>2. ASSUME NEW i \in 1..Len(both)
      PROVE  \/ i \in 1..Len(left)
             \/ i - Len(left) \in 1..Len(right) /\ both[i] = right[i - Len(left)]
  <2>1. CASE i > Len(left)
    <3>1. i - Len(left) \in 1..Len(right) /\ Len(left) + (i - Len(left)) = i
      BY <1>1, <2>1
    <3> QED
      BY <1>1, <3>1
  <2> QED
    BY <1>1, <2>1
<1>3. {both[i] : i \in 1..Len(both)} = A \cup B
  <2>1. ASSUME NEW i \in 1..Len(both) PROVE both[i] \in A \cup B
    BY <1>1, <1>2
  <2>2. ASSUME NEW x \in A PROVE \E i \in 1..Len(both) : both[i] = x
    <3>1. PICK i \in 1..Len(left) : left[i] = x
      BY DEF Listing
    <3>2. i \in 1..Len(both) /\ both[i] = x
      BY <1>1, <3>1
    <3> QED
      BY <3>2
  <2>3. ASSUME NEW x \in B PROVE \E i \in 1..Len(both) : both[i] = x
    <3>1. PICK i \in 1..Len(right) : right[i] = x
      BY DEF Listing
    <3>2. Len(left) + i \in 1..Len(both) /\ both[Len(left) + i] = x
      BY <1>1, <3>1
    <3> QED
      BY <3>2
  <2> QED
    BY <2>1, <2>2, <2>3
<1>4. ASSUME NEW i \in 1..Len(both), NEW j \in 1..Len(both), i < j
      PROVE  both[i] < both[j]
  <2>1. CASE j \in 1..Len(left)
    <3>1. i \in 1..Len(left) /\ both[i] = left[i] /\ both[j] = left[j]
      BY <1>1, <1>4, <2>1
    <3>2. left[i] < left[j]
      BY <1>4, <2>1, <3>1 DEF Listing
    <3> QED
      BY <3>1, <3>2
  <2>2. CASE i \in 1..Len(left) /\ j - Len(left) \in 1..Len(right)
    <3>1. both[i] \in A
      BY <1>1, <2>2
    <3>2. j \notin 1..Len(left)
      BY <1>1, <2>2
    <3>3. both[j] = right[j - Len(left)]
      BY <1>2, <3>2
    <3>4. both[j] \in B
      BY <1>1, <2>2, <3>3
    <3> QED
      BY <3>1, <3>4
  <2>3. CASE i \notin 1..Len(left)
    <3>1. /\ i - Len(left) \in 1..Len(right) /\ j - Len(left) \in 1..Len(right)
          /\ i - Len(left) < j - Len(left)
          /\ both[i] = right[i - Len(left)] /\ both[j] = right[j - Len(left)]
      BY <1>1, <1>2, <1>4, <2>3
    <3> QED
      BY <3>1 DEF Listing
  <2> QED
    BY <1>2, <2>1, <2>2, <2>3
<1> QED
  BY <1>3, <1>4 DEF Listing, both

-----------------------------------------------------------------------------
(* The invariant.                                                          *)

(* Every event the demo can record, and those of the batches.              *)
Recorded ==
    {Change(id, v, t) : id \in EntityId, v \in Values, t \in Times}
        \cup UNION {{batch[i] : i \in DOMAIN batch} : batch \in Arrivals}

QueryState == [filter : Filters, next : Nat, snapshot : Nat]

(* The log and the client's cursor, which never leaves its snapshot.       *)
LogTypeInv ==
    /\ events \in Seq(Recorded)
    /\ delivered \in Seq(Nat)
    /\ query \in SUBSET QueryState
    /\ \A q \in query : q.next <= q.snapshot /\ q.snapshot <= Len(events)

(* Every event of this shard is of an identity that insert has returned,   *)
(* so a new identity has no past.                                          *)
OwnedInv ==
    \A i \in 1..Len(events) :
        events[i].entity.shard = Shard => events[i].entity \in issued

IsLastOf(i, id) ==
    /\ i \in 1..Len(events)
    /\ events[i].entity = id
    /\ \A j \in 1..Len(events) : events[j].entity = id => j <= i

(* If the entity has a past, its last change recorded v.                   *)
LastIs(id, v) ==
    (\E i \in 1..Len(events) : events[i].entity = id) =>
        \E i \in 1..Len(events) : IsLastOf(i, id) /\ v = events[i].change

(* Every live entity holds its last change.                                *)
PresentInv == \A id \in DOMAIN LiveMap : LastIs(id, LiveMap[id])

MemoryInv ==
    /\ SlabInv
    /\ LogTypeInv
    /\ OwnedInv
    /\ PresentInv
    /\ PagesAreOneScan

-----------------------------------------------------------------------------
(* The log.                                                                *)

LEMMA ChangeFacts ==
    ASSUME NEW id \in EntityId, NEW v \in Values, NEW t \in Times
    PROVE  /\ Change(id, v, t).entity = id
           /\ Change(id, v, t).change = v
           /\ Change(id, v, t).times.known.ticks \in Int
           /\ Change(id, v, t) \in Recorded
<1>1. t.known \in Int
  BY MemoryAssumption
<1>2. Change(id, v, t) \in Recorded
  BY DEF Recorded
<1> QED
  BY <1>1, <1>2 DEF Change

LEMMA BatchFacts ==
    ASSUME NEW batch \in Arrivals
    PROVE  /\ batch \in Seq(Recorded)
           /\ \A i \in 1..Len(batch) : /\ batch[i].entity.shard # Shard
                                       /\ batch[i].times.known.ticks \in Int
<1> DEFINE B == {batch[i] : i \in DOMAIN batch}
<1>1. batch \in Seq(B)
  BY MemoryAssumption
<1>2. B \subseteq Recorded
  BY DEF Recorded
<1>3. DOMAIN batch = 1..Len(batch)
  BY <1>1
<1>4. batch \in Seq(Recorded)
  BY <1>1, <1>2
<1> QED
  BY <1>3, <1>4, MemoryAssumption

(* The ticks of every recorded event are numbers.                          *)
LEMMA RecordedTicks ==
    ASSUME NEW e \in Recorded
    PROVE  e.times.known.ticks \in Int
<1>1. CASE \E id \in EntityId, v \in Values, t \in Times : e = Change(id, v, t)
  BY <1>1, ChangeFacts
<1>2. CASE \E batch \in Arrivals : \E i \in DOMAIN batch : e = batch[i]
  BY <1>2, MemoryAssumption
<1> QED
  BY <1>1, <1>2 DEF Recorded

(* What append and append_batch do to the log.                             *)
LEMMA AppendFacts ==
    ASSUME LogTypeInv, NEW batch \in Seq(Recorded), AppendBatch(batch)
    PROVE  /\ events' \in Seq(Recorded)
           /\ Len(events) \in Nat /\ Len(batch) \in Nat
           /\ Len(events') = Len(events) + Len(batch)
           /\ \A i \in 1..Len(events) : events'[i] = events[i]
           /\ \A i \in 1..Len(batch) : events'[Len(events) + i] = batch[i]
           /\ UNCHANGED <<query, delivered>>
<1>1. events \in Seq(Recorded)
  BY DEF LogTypeInv
<1> QED
  BY <1>1 DEF AppendBatch

LEMMA NewEvents ==
    ASSUME LogTypeInv, NEW batch \in Seq(Recorded), AppendBatch(batch),
           NEW i \in 1..Len(events')
    PROVE  \/ i \in 1..Len(events) /\ events'[i] = events[i]
           \/ /\ i > Len(events) /\ i - Len(events) \in 1..Len(batch)
              /\ events'[i] = batch[i - Len(events)]
<1>1. CASE i <= Len(events)
  BY <1>1, AppendFacts
<1>2. CASE i > Len(events)
  <2>1. i - Len(events) \in 1..Len(batch) /\ Len(events) + (i - Len(events)) = i
    BY <1>2, AppendFacts
  <2> QED
    BY <1>2, <2>1, AppendFacts
<1> QED
  BY <1>1, <1>2, AppendFacts

(* An append leaves the pages read so far what they were.                  *)
LEMMA AppendKeepsLog ==
    ASSUME LogTypeInv, PagesAreOneScan, NEW batch \in Seq(Recorded), AppendBatch(batch)
    PROVE  LogTypeInv' /\ PagesAreOneScan'
<1>1. /\ events' \in Seq(Recorded)
      /\ Len(events) \in Nat /\ Len(batch) \in Nat
      /\ Len(events') = Len(events) + Len(batch)
      /\ \A i \in 1..Len(events) : events'[i] = events[i]
      /\ query' = query /\ delivered' = delivered
  BY AppendFacts
<1>2. LogTypeInv'
  <2>1. ASSUME NEW q \in query PROVE q.snapshot <= Len(events')
    <3>1. q.snapshot \in Nat /\ q.snapshot <= Len(events)
      BY DEF LogTypeInv, QueryState
    <3> QED
      BY <1>1, <3>1
  <2> QED
    BY <1>1, <2>1 DEF LogTypeInv
<1>3. ASSUME NEW q \in query PROVE Listing(delivered, Hits(q.filter, 0, q.next)')
  <2>1. q.next \in Nat /\ q.next <= Len(events)
    BY <1>1 DEF LogTypeInv, QueryState
  <2>2. \A s \in 0..(q.next - 1) : events'[s + 1] = events[s + 1]
    BY <1>1, <2>1
  <2>3. Hits(q.filter, 0, q.next)' = Hits(q.filter, 0, q.next)
    BY <2>2 DEF Hits
  <2> QED
    BY <2>3 DEF PagesAreOneScan
<1> QED
  BY <1>1, <1>2, <1>3 DEF PagesAreOneScan

(* history's loop stops within the snapshot.                               *)
LEMMA PageEndFacts ==
    ASSUME NEW q \in QueryState, q.next <= q.snapshot, NEW budget
    PROVE  PageEnd(q, budget) \in q.next..q.snapshot
<1> DEFINE Ends == {n \in q.next..q.snapshot : Stops(q, budget, n)}
<1>1. q.next \in Nat /\ q.snapshot \in Nat
  BY DEF QueryState
<1>2. q.snapshot \in Ends
  BY <1>1 DEF Stops
<1>3. Ends \in SUBSET Nat /\ Ends # {}
  BY <1>1, <1>2
<1>4. PICK o \in Ends : \A n \in Ends : o <= n
  BY <1>3, LeastNatural
<1>5. \A n \in q.next..(o - 1) : ~Stops(q, budget, n)
  <2> SUFFICES ASSUME NEW n \in q.next..(o - 1), Stops(q, budget, n) PROVE FALSE
    OBVIOUS
  <2>1. n \in Ends /\ ~(o <= n)
    BY <1>1, <1>4
  <2> QED
    BY <1>4, <2>1
<1>6. \E e \in q.next..q.snapshot :
         /\ Stops(q, budget, e)
         /\ \A n \in q.next..(e - 1) : ~Stops(q, budget, n)
  BY <1>4, <1>5
<1> QED
  BY <1>6 DEF PageEnd

(* A page continues the pages before it.                                   *)
LEMMA AnswerKeepsLog ==
    ASSUME LogTypeInv, NEW q \in QueryState,
           q.next <= q.snapshot, q.snapshot <= Len(events),
           NEW before \in Seq(Nat), Listing(before, Hits(q.filter, 0, q.next)),
           NEW budget, Answer(q, before, budget)
    PROVE  LogTypeInv' /\ PagesAreOneScan'
<1>0. PICK end : end = PageEnd(q, budget)
  OBVIOUS
<1>1. q.filter \in Filters /\ q.next \in Nat /\ q.snapshot \in Nat
  BY DEF QueryState
<1>2. end \in q.next..q.snapshot /\ end \in Nat
  BY <1>0, <1>1, PageEndFacts
<1> DEFINE A == Hits(q.filter, 0, q.next)
           B == Hits(q.filter, q.next, end)
<1>3. /\ delivered' = before \o InOrder(B)
      /\ query' = Some([q EXCEPT !.next = end])
      /\ events' = events
  BY <1>0 DEF Answer
<1>4. /\ A \in SUBSET Nat /\ B \in SUBSET Nat /\ B \in SUBSET (0..(end - 1))
      /\ \A a \in A, b \in B : a < b
      /\ Hits(q.filter, 0, end) = A \cup B
  <2>1. \A s : s \in 0..(q.next - 1) => s \in Nat /\ s < q.next
    BY <1>1
  <2>2. \A s : s \in q.next..(end - 1) => s \in Nat /\ q.next <= s /\ s \in 0..(end - 1)
    BY <1>1, <1>2
  <2>3. \A s : s \in 0..(end - 1) <=> (s \in 0..(q.next - 1) \/ s \in q.next..(end - 1))
    BY <1>1, <1>2
  <2>4. \A s : s \in A => s \in Nat /\ s < q.next
    BY <2>1 DEF Hits
  <2>5. \A s : s \in B => s \in Nat /\ q.next <= s /\ s \in 0..(end - 1)
    BY <2>2 DEF Hits
  <2>6. Hits(q.filter, 0, end) = A \cup B
    BY <2>3 DEF Hits
  <2> HIDE DEF A, B
  <2>7. \A a \in A, b \in B : a < b
    BY <1>1, <2>4, <2>5
  <2> QED
    BY <2>4, <2>5, <2>6, <2>7
<1>5. Listing(InOrder(B), B) /\ InOrder(B) \in Seq(B)
  <2> HIDE DEF B
  <2> QED
    BY <1>2, <1>4, InOrderLists
<1>6. before \in Seq(A)
  <2>1. \A i \in 1..Len(before) : before[i] \in A
    BY DEF Listing
  <2> HIDE DEF A
  <2> QED
    BY <2>1
<1>7. Listing(delivered', Hits(q.filter, 0, end))
  <2>1. Listing(before, A)
    OBVIOUS
  <2> HIDE DEF A, B
  <2> QED
    BY <1>3, <1>4, <1>5, <1>6, <2>1, ListingConcat
<1>8. delivered' \in Seq(Nat)
  <2>1. InOrder(B) \in Seq(Nat)
    <3> HIDE DEF B
    <3>1. PICK page : page = InOrder(B)
      OBVIOUS
    <3>2. page \in Seq(B) /\ \A i \in 1..Len(page) : page[i] \in B
      BY <1>5, <3>1, ElementOfSeq
    <3>3. \A i \in 1..Len(page) : page[i] \in Nat
      BY <1>4, <3>2
    <3>4. page \in Seq(Nat)
      BY <3>2, <3>3
    <3> QED
      BY <3>1, <3>4
  <2> QED
    BY <1>3, <2>1
<1>9. PICK r : r = [q EXCEPT !.next = end]
  OBVIOUS
<1>10. /\ r \in QueryState /\ r.filter = q.filter /\ r.next = end
       /\ r.snapshot = q.snapshot
  BY <1>2, <1>9 DEF QueryState
<1>11. query' = {r}
  BY <1>3, <1>9 DEF Some
<1>12. LogTypeInv'
  <2>1. r.next <= r.snapshot /\ r.snapshot <= Len(events')
    BY <1>1, <1>2, <1>3, <1>10
  <2>2. events' \in Seq(Recorded)
    BY <1>3 DEF LogTypeInv
  <2> QED
    BY <1>8, <1>10, <1>11, <2>1, <2>2 DEF LogTypeInv
<1>13. PagesAreOneScan'
  <2>1. Hits(r.filter, 0, r.next)' = Hits(q.filter, 0, end)
    BY <1>3, <1>10 DEF Hits
  <2> QED
    BY <1>7, <1>11, <2>1 DEF PagesAreOneScan
<1> QED
  BY <1>12, <1>13

LEMMA AskKeepsLog ==
    ASSUME LogTypeInv, NEW filter \in Filters, NEW budget, FirstPage(filter, budget)
    PROVE  LogTypeInv' /\ PagesAreOneScan'
<1>0. PICK q : q = [filter |-> filter, next |-> 0, snapshot |-> Len(events)]
  OBVIOUS
<1>1. Len(events) \in Nat
  BY DEF LogTypeInv
<1>2. /\ q \in QueryState /\ q.next = 0 /\ q.snapshot = Len(events)
  BY <1>0, <1>1 DEF QueryState
<1>3. Answer(q, <<>>, budget)
  BY <1>0 DEF FirstPage
<1>4. <<>> \in Seq(Nat) /\ Listing(<<>>, Hits(q.filter, 0, q.next))
  BY <1>2 DEF Listing, Hits
<1>5. q.next <= q.snapshot /\ q.snapshot <= Len(events)
  BY <1>1, <1>2
<1> QED
  BY <1>2, <1>3, <1>4, <1>5, AnswerKeepsLog

LEMMA ReadKeepsLog ==
    ASSUME LogTypeInv, PagesAreOneScan, NEW budget, NextPage(budget)
    PROVE  LogTypeInv' /\ PagesAreOneScan'
<1>1. PICK q \in query : Answer(q, delivered, budget)
  BY DEF NextPage
<1>2. q \in QueryState /\ q.next <= q.snapshot /\ q.snapshot <= Len(events)
  BY DEF LogTypeInv
<1>3. delivered \in Seq(Nat) /\ Listing(delivered, Hits(q.filter, 0, q.next))
  BY DEF LogTypeInv, PagesAreOneScan
<1> QED
  BY <1>1, <1>2, <1>3, AnswerKeepsLog


-----------------------------------------------------------------------------
(* The slab below the log.                                                 *)

(* Reading and appending leave the slab and the map it stands for.         *)
LEMMA SlabUnchanged ==
    ASSUME SlabInv, UNCHANGED slabVars
    PROVE  SlabInv' /\ LiveMap' = LiveMap
BY DEF slabVars, SlabInv, SlabTypeOK, Linked, Freed, Ahead, VACANT, LiveMap, Resolves, Get

LEMMA IssuedAreIds ==
    ASSUME SlabInv, NEW id \in issued
    PROVE  id \in EntityId /\ id.shard = Shard
BY DEF SlabInv, SlabTypeOK, Ahead

(* insert: a new identity has no past, and the others keep theirs.         *)
LEMMA CreateInv ==
    ASSUME MemoryInv, NEW v \in Values, Create(v)
    PROVE  MemoryInv'
<1>1. SlabInv /\ Insert(v) /\ UNCHANGED logVars
  BY DEF MemoryInv, Create
<1>2. SlabInv'
  BY <1>1, InsertReusedKeeps, InsertFreshKeeps DEF Insert
<1>3. PICK new \in EntityId : Map!Insert(new, v)
  BY <1>1, ReusedRefines, FreshRefines DEF Insert
<1>4. /\ new \notin issued /\ issued' = issued \cup {new}
      /\ DOMAIN LiveMap' = DOMAIN LiveMap \cup {new}
      /\ \A i \in DOMAIN LiveMap : i # new => LiveMap'[i] = LiveMap[i]
  BY <1>3 DEF Map!Insert
<1>5. events' = events /\ query' = query /\ delivered' = delivered
  BY <1>1 DEF logVars
<1>6. LogTypeInv' /\ PagesAreOneScan'
  BY <1>5 DEF MemoryInv, LogTypeInv, PagesAreOneScan, Hits
<1>7. OwnedInv'
  BY <1>4, <1>5 DEF MemoryInv, OwnedInv
<1>8. \A i \in 1..Len(events) : events[i].entity # new
  <2>1. new \in issued' /\ new.shard = Shard
    BY <1>2, <1>4 DEF SlabInv, Ahead
  <2> QED
    BY <1>4, <2>1 DEF MemoryInv, OwnedInv
<1>9. PresentInv'
  <2> SUFFICES ASSUME NEW id \in DOMAIN LiveMap',
                      NEW k \in 1..Len(events), events[k].entity = id
               PROVE  \E i \in 1..Len(events) :
                         IsLastOf(i, id) /\ LiveMap'[id] = events[i].change
    BY <1>5 DEF PresentInv, LastIs, IsLastOf
  <2>1. id # new /\ id \in DOMAIN LiveMap
    BY <1>4, <1>8
  <2>2. LiveMap'[id] = LiveMap[id]
    BY <1>4, <2>1
  <2> QED
    BY <2>1, <2>2 DEF MemoryInv, PresentInv, LastIs
<1> QED
  BY <1>2, <1>6, <1>7, <1>9 DEF MemoryInv

(* remove: the entities left keep their values and their past.             *)
LEMMA DestroyInv ==
    ASSUME MemoryInv, NEW id \in issued, Destroy(id)
    PROVE  MemoryInv'
<1>1. SlabInv /\ Remove(id) /\ UNCHANGED logVars /\ id \in EntityId
  BY IssuedAreIds DEF MemoryInv, Destroy
<1>2. SlabInv' /\ Map!Remove(id)
  BY <1>1, RemoveKeeps, RemoveRefines
<1>3. /\ issued' = issued
      /\ \A i \in DOMAIN LiveMap' : i \in DOMAIN LiveMap /\ LiveMap'[i] = LiveMap[i]
  BY <1>2 DEF Map!Remove
<1>4. events' = events /\ query' = query /\ delivered' = delivered
  BY <1>1 DEF logVars
<1>5. LogTypeInv' /\ PagesAreOneScan' /\ OwnedInv'
  BY <1>3, <1>4 DEF MemoryInv, LogTypeInv, PagesAreOneScan, Hits, OwnedInv
<1>6. PresentInv'
  <2> SUFFICES ASSUME NEW i \in DOMAIN LiveMap',
                      NEW k \in 1..Len(events), events[k].entity = i
               PROVE  \E j \in 1..Len(events) :
                         IsLastOf(j, i) /\ LiveMap'[i] = events[j].change
    BY <1>4 DEF PresentInv, LastIs, IsLastOf
  <2>1. i \in DOMAIN LiveMap /\ LiveMap'[i] = LiveMap[i]
    BY <1>3
  <2> QED
    BY <2>1 DEF MemoryInv, PresentInv, LastIs
<1> QED
  BY <1>2, <1>5, <1>6 DEF MemoryInv

(* An append leaves the last change of an entity it does not name.         *)
LEMMA OthersKeepLast ==
    ASSUME LogTypeInv, NEW batch \in Seq(Recorded), AppendBatch(batch),
           NEW id, \A i \in 1..Len(batch) : batch[i].entity # id,
           NEW v, LastIs(id, v)
    PROVE  LastIs(id, v)'
<1> SUFFICES ASSUME NEW k \in 1..Len(events'), events'[k].entity = id
             PROVE  \E i \in 1..Len(events') : IsLastOf(i, id)' /\ v = events'[i].change
  BY DEF LastIs
<1>1. k \in 1..Len(events) /\ events[k].entity = id
  BY NewEvents
<1>2. PICK i \in 1..Len(events) : IsLastOf(i, id) /\ v = events[i].change
  BY <1>1 DEF LastIs
<1>3. i \in 1..Len(events') /\ events'[i] = events[i]
  BY AppendFacts
<1>4. ASSUME NEW j \in 1..Len(events'), events'[j].entity = id PROVE j <= i
  <2>1. j \in 1..Len(events) /\ events[j].entity = id
    BY <1>4, NewEvents
  <2> QED
    BY <1>2, <2>1 DEF IsLastOf
<1> QED
  BY <1>2, <1>3, <1>4 DEF IsLastOf

(* A batch of another shard's events leaves this shard's past alone.       *)
LEMMA ArriveInv ==
    ASSUME MemoryInv, NEW batch \in Arrivals, Arrive(batch)
    PROVE  MemoryInv'
<1>1. AppendBatch(batch) /\ UNCHANGED slabVars
  BY DEF Arrive
<1>2. SlabInv /\ LogTypeInv /\ PagesAreOneScan
  BY DEF MemoryInv
<1>3. /\ batch \in Seq(Recorded)
      /\ \A i \in 1..Len(batch) : batch[i].entity.shard # Shard
  BY BatchFacts
<1>4. LogTypeInv' /\ PagesAreOneScan'
  BY <1>1, <1>2, <1>3, AppendKeepsLog
<1>5. SlabInv' /\ LiveMap' = LiveMap /\ issued' = issued
  BY <1>1, <1>2, SlabUnchanged DEF slabVars
<1>6. OwnedInv'
  <2> SUFFICES ASSUME NEW i \in 1..Len(events'), events'[i].entity.shard = Shard
               PROVE  events'[i].entity \in issued
    BY <1>5 DEF OwnedInv
  <2>1. i \in 1..Len(events) /\ events'[i] = events[i]
    BY <1>1, <1>2, <1>3, NewEvents
  <2> QED
    BY <2>1 DEF MemoryInv, OwnedInv
<1>7. PresentInv'
  <2> SUFFICES ASSUME NEW id \in DOMAIN LiveMap
               PROVE  LastIs(id, LiveMap[id])'
    BY <1>5 DEF PresentInv
  <2>1. id.shard = Shard
    BY DEF LiveMap, Resolves
  <2>2. \A i \in 1..Len(batch) : batch[i].entity # id
    BY <1>3, <2>1
  <2>3. PICK v : v = LiveMap[id]
    OBVIOUS
  <2>4. LastIs(id, v)
    BY <2>3 DEF MemoryInv, PresentInv
  <2>5. LastIs(id, v)'
    BY <1>1, <1>2, <1>3, <2>2, <2>4, OthersKeepLast
  <2> QED
    BY <1>5, <2>3, <2>5 DEF LastIs
<1> QED
  BY <1>4, <1>5, <1>6, <1>7 DEF MemoryInv

(* Record, then apply: the entity's last change is the one just recorded.  *)
LEMMA RecordInv ==
    ASSUME MemoryInv, NEW id \in issued, NEW v \in Values, NEW t \in Times,
           Record(id, v, t)
    PROVE  MemoryInv'
<1>0. PICK e : e = Change(id, v, t)
  OBVIOUS
<1>1. /\ AppendBatch(<<e>>)
      /\ \/ Assign(id, v)
         \/ ~Resolves(id) /\ UNCHANGED slabVars
  BY <1>0 DEF Record
<1>2. SlabInv /\ LogTypeInv /\ PagesAreOneScan
  BY DEF MemoryInv
<1>3. id \in EntityId /\ id.shard = Shard
  BY <1>2, IssuedAreIds
<1>4. e \in Recorded /\ e.entity = id /\ e.change = v
  BY <1>0, <1>3, ChangeFacts
<1>5. <<e>> \in Seq(Recorded) /\ Len(<<e>>) = 1 /\ <<e>>[1] = e
  BY <1>4
<1>6. LogTypeInv' /\ PagesAreOneScan'
  BY <1>1, <1>2, <1>5, AppendKeepsLog
<1>7. /\ SlabInv' /\ issued' = issued
      /\ DOMAIN LiveMap' = DOMAIN LiveMap
      /\ \A i \in DOMAIN LiveMap : i # id => LiveMap'[i] = LiveMap[i]
      /\ id \in DOMAIN LiveMap => LiveMap'[id] = v
  <2>1. CASE Assign(id, v)
    <3>1. SlabInv' /\ Map!Assign(id, v)
      BY <1>2, <1>3, <2>1, AssignKeeps, AssignRefines
    <3> QED
      BY <3>1 DEF Map!Assign
  <2>2. CASE ~Resolves(id) /\ UNCHANGED slabVars
    <3>1. id \notin DOMAIN LiveMap
      BY <2>2 DEF LiveMap
    <3> QED
      BY <1>2, <2>2, <3>1, SlabUnchanged DEF slabVars
  <2> QED
    BY <1>1, <2>1, <2>2
<1>b. PICK b : b = <<e>>
  OBVIOUS
<1>c. /\ b \in Seq(Recorded) /\ AppendBatch(b)
      /\ Len(b) = 1 /\ b[1] = e
  BY <1>1, <1>5, <1>b
<1>d. /\ Len(events) \in Nat /\ Len(events') = Len(events) + 1
      /\ events'[Len(events) + 1] = e
  <2>1. /\ Len(events) \in Nat /\ Len(events') = Len(events) + Len(b)
        /\ \A i \in 1..Len(b) : events'[Len(events) + i] = b[i]
    BY <1>2, <1>c, AppendFacts
  <2>2. 1 \in 1..Len(b)
    BY <1>c
  <2> QED
    BY <1>c, <2>1, <2>2
<1>8. ASSUME NEW i \in 1..Len(events')
      PROVE  \/ i \in 1..Len(events) /\ events'[i] = events[i]
             \/ i = Len(events) + 1 /\ events'[i] = e
  <2>1. \/ i \in 1..Len(events) /\ events'[i] = events[i]
        \/ i > Len(events)
    BY <1>2, <1>c, NewEvents
  <2> QED
    BY <1>d, <2>1
<1>9. OwnedInv'
  <2> SUFFICES ASSUME NEW i \in 1..Len(events'), events'[i].entity.shard = Shard
               PROVE  events'[i].entity \in issued
    BY <1>7 DEF OwnedInv
  <2> QED
    BY <1>4, <1>8 DEF MemoryInv, OwnedInv
<1>10. PresentInv'
  <2> SUFFICES ASSUME NEW j \in DOMAIN LiveMap
               PROVE  LastIs(j, LiveMap[j])'
    BY <1>7 DEF PresentInv
  <2>1. CASE j = id
    <3>1. PICK n : n = Len(events) + 1
      OBVIOUS
    <3>2. /\ n \in 1..Len(events') /\ \A i \in 1..Len(events') : i <= n
          /\ events'[n] = e
      BY <1>d, <3>1
    <3>3. IsLastOf(n, j)'
      BY <1>4, <2>1, <3>2 DEF IsLastOf
    <3>4. LiveMap'[j] = events'[n].change
      BY <1>4, <1>7, <2>1, <3>2
    <3> QED
      BY <3>2, <3>3, <3>4 DEF LastIs
  <2>2. CASE j # id
    <3>1. \A i \in 1..Len(b) : b[i].entity # j
      BY <1>4, <1>c, <2>2
    <3>2. PICK w : w = LiveMap[j] /\ w = LiveMap'[j]
      BY <1>7, <2>2
    <3>3. LastIs(j, w)
      BY <3>2 DEF MemoryInv, PresentInv
    <3>4. LastIs(j, w)'
      BY <1>2, <1>c, <3>1, <3>3, OthersKeepLast
    <3> QED
      BY <3>2, <3>4 DEF LastIs
  <2> QED
    BY <2>1, <2>2
<1> QED
  BY <1>6, <1>7, <1>9, <1>10 DEF MemoryInv

(* A page reads the log and leaves the slab.                               *)
LEMMA PageInv ==
    ASSUME MemoryInv, NEW budget \in Budgets,
           (\E filter \in Filters : Ask(filter, budget)) \/ Read(budget)
    PROVE  MemoryInv'
<1>1. UNCHANGED slabVars /\ events' = events
  BY DEF Ask, Read, FirstPage, NextPage, Answer
<1>2. SlabInv /\ LogTypeInv /\ PagesAreOneScan
  BY DEF MemoryInv
<1>3. LogTypeInv' /\ PagesAreOneScan'
  BY <1>2, AskKeepsLog, ReadKeepsLog DEF Ask, Read
<1>4. SlabInv' /\ LiveMap' = LiveMap /\ issued' = issued
  BY <1>1, <1>2, SlabUnchanged DEF slabVars
<1>5. OwnedInv' /\ PresentInv'
  BY <1>1, <1>4 DEF MemoryInv, OwnedInv, PresentInv, LastIs, IsLastOf
<1> QED
  BY <1>3, <1>4, <1>5 DEF MemoryInv

LEMMA InitInv == MemoryInit => MemoryInv
<1> SUFFICES ASSUME MemoryInit PROVE MemoryInv
  OBVIOUS
<1>1. SlabInv
  BY SlabAssumption DEF MemoryInit, SlabInit, SlabInv, SlabTypeOK, Linked, Freed, Ahead
<1>2. events = <<>> /\ Len(events) = 0 /\ query = {} /\ delivered = <<>>
  BY DEF MemoryInit, LogInit, None
<1>3. LogTypeInv /\ PagesAreOneScan
  BY <1>2 DEF LogTypeInv, PagesAreOneScan
<1>4. OwnedInv /\ PresentInv
  BY <1>2 DEF OwnedInv, PresentInv, LastIs
<1> QED
  BY <1>1, <1>3, <1>4 DEF MemoryInv

LEMMA NextInv == MemoryInv /\ [MemoryNext]_memoryVars => MemoryInv'
<1> SUFFICES ASSUME MemoryInv, [MemoryNext]_memoryVars PROVE MemoryInv'
  OBVIOUS
<1>1. CASE UNCHANGED memoryVars
  <2>1. UNCHANGED slabVars /\ events' = events /\ query' = query /\ delivered' = delivered
    BY <1>1 DEF memoryVars, logVars
  <2>2. SlabInv' /\ LiveMap' = LiveMap /\ issued' = issued
    BY <2>1, SlabUnchanged DEF MemoryInv, slabVars
  <2> QED
    BY <2>1, <2>2 DEF MemoryInv, LogTypeInv, PagesAreOneScan, Hits, OwnedInv, PresentInv, LastIs, IsLastOf
<1>2. CASE MemoryNext
  BY <1>2, CreateInv, RecordInv, DestroyInv, ArriveInv, PageInv DEF MemoryNext
<1> QED
  BY <1>1, <1>2

(***************************************************************************)
(* The volatile tier's invariant: slab and log stay consistent, every own  *)
(* event is of an issued identity, and every live entity with a past holds *)
(* its last change, whatever the demo's operations and the arriving        *)
(* batches (append_batch, insert, get_mut, remove, history).               *)
(***************************************************************************)
THEOREM MemoryInvariant == MemorySpec => []MemoryInv
BY InitInv, NextInv, PTL DEF MemorySpec

(***************************************************************************)
(* The present is the end of the past: a live entity with recorded changes *)
(* holds the value of its own last one (EventLog::append then              *)
(* StateSlab::get_mut).                                                    *)
(***************************************************************************)
THEOREM MemoryPresentIsLastRecorded == MemorySpec => []PresentIsLastRecorded
<1>1. MemoryInv => PresentIsLastRecorded
  <2> SUFFICES ASSUME MemoryInv, NEW id \in DOMAIN LiveMap
               PROVE  LET own == {i \in DOMAIN events : events[i].entity = id} IN
                      own # {} =>
                         LiveMap[id] = events[CHOOSE i \in own : \A j \in own : j <= i].change
    BY DEF PresentIsLastRecorded
  <2> DEFINE own == {i \in DOMAIN events : events[i].entity = id}
  <2> SUFFICES ASSUME own # {}
               PROVE  LiveMap[id] = events[CHOOSE i \in own : \A j \in own : j <= i].change
    OBVIOUS
  <2>1. events \in Seq(Recorded) /\ DOMAIN events = 1..Len(events)
    BY DEF MemoryInv, LogTypeInv
  <2>2. PICK i \in 1..Len(events) : IsLastOf(i, id) /\ LiveMap[id] = events[i].change
    BY <2>1 DEF MemoryInv, PresentInv, LastIs
  <2>3. i \in own /\ \A j \in own : j <= i
    BY <2>1, <2>2 DEF IsLastOf
  <2>4. PICK k : k = CHOOSE h \in own : \A j \in own : j <= h
    OBVIOUS
  <2>5. k \in own /\ \A j \in own : j <= k
    BY <2>3, <2>4
  <2>6. k = i
    <3>1. k <= i /\ i <= k /\ k \in Nat /\ i \in Nat
      BY <2>1, <2>3, <2>5
    <3> QED
      BY <3>1
  <2> QED
    BY <2>2, <2>4, <2>6
<1> QED
  BY <1>1, MemoryInvariant, PTL

(***************************************************************************)
(* EventLog::history's pages are one scan of the snapshot, for every       *)
(* filter and budget and whatever is appended between two pages.           *)
(***************************************************************************)
THEOREM MemoryPagesAreOneScan == MemorySpec => []PagesAreOneScan
BY MemoryInvariant, PTL DEF MemoryInv

(***************************************************************************)
(* The demo drives its slab only through the slab's own operations, so     *)
(* all that is proved of the slab holds of it.                             *)
(***************************************************************************)
THEOREM MemoryRunsASlab == MemorySpec => SlabSpec
<1>1. MemoryInit => SlabInit
  BY DEF MemoryInit
<1>2. MemoryInv /\ [MemoryNext]_memoryVars => [SlabNext]_slabVars
  <2> SUFFICES ASSUME MemoryInv, [MemoryNext]_memoryVars PROVE [SlabNext]_slabVars
    OBVIOUS
  <2>1. CASE UNCHANGED memoryVars
    BY <2>1 DEF memoryVars
  <2>2. ASSUME NEW v \in Values, Create(v) PROVE SlabNext
    BY <2>2 DEF Create, SlabNext
  <2>3. ASSUME NEW id \in issued, NEW v \in Values, NEW t \in Times, Record(id, v, t)
        PROVE  SlabNext \/ UNCHANGED slabVars
    BY <2>3, IssuedAreIds DEF MemoryInv, Record, SlabNext
  <2>4. ASSUME NEW id \in issued, Destroy(id) PROVE SlabNext
    BY <2>4, IssuedAreIds DEF MemoryInv, Destroy, SlabNext
  <2>5. ASSUME NEW batch \in Arrivals, Arrive(batch) PROVE UNCHANGED slabVars
    BY <2>5 DEF Arrive
  <2>6. ASSUME NEW budget \in Budgets,
               (\E filter \in Filters : Ask(filter, budget)) \/ Read(budget)
        PROVE  UNCHANGED slabVars
    BY <2>6 DEF Ask, Read
  <2> QED
    BY <2>1, <2>2, <2>3, <2>4, <2>5, <2>6 DEF MemoryNext
<1> QED
  BY <1>1, <1>2, MemoryInvariant, PTL DEF MemorySpec, SlabSpec

(***************************************************************************)
(* Under the demo's operations, too, no slot leaks and a handle to a       *)
(* removed entity never resolves again.                                    *)
(***************************************************************************)
THEOREM MemoryKeepsIdentities == MemorySpec => []NoSlotLeaks /\ IsEntityMap
BY MemoryRunsASlab, SlabNoSlotLeaks, SlabIsEntityMap, PTL

(***************************************************************************)
(* Once the log knows of a later moment, what it answers about an earlier  *)
(* one is settled: no later event matches a filter with that known_as_of.  *)
(* check_known_time compares neighbours only; that the whole batch stays   *)
(* at or after the log's end is an induction along it.                     *)
(***************************************************************************)
THEOREM MemoryKnowledgeSettles == MemorySpec => KnowledgeSettles
<1>1. ASSUME MemoryInv, [MemoryNext]_memoryVars,
             NEW filter \in Filters, NEW cutoff \in filter.known_as_of,
             events # <<>>, cutoff.ticks < events[Len(events)].times.known.ticks,
             NEW s \in DOMAIN events' \ DOMAIN events
      PROVE  ~Matches(filter, events'[s])
  <2>1. events \in Seq(Recorded) /\ events' \in Seq(Recorded)
    <3>1. MemoryInv'
      BY <1>1, NextInv
    <3> QED
      BY <1>1, <3>1 DEF MemoryInv, LogTypeInv
  <2>2. /\ DOMAIN events = 1..Len(events) /\ DOMAIN events' = 1..Len(events')
        /\ Len(events) \in Nat /\ Len(events') \in Nat /\ Len(events) # 0
    BY <1>1, <2>1
  <2>3. PICK batch : batch \in Seq(Recorded) /\ AppendBatch(batch)
    <3>1. events' # events
      BY <1>1
    <3>2. ~UNCHANGED memoryVars
      BY <3>1 DEF memoryVars, logVars
    <3>3. \A v \in Values : ~Create(v)
      BY <3>1 DEF Create, logVars
    <3>4. \A id \in issued : ~Destroy(id)
      BY <3>1 DEF Destroy, logVars
    <3>5. \A budget \in Budgets : ~Read(budget) /\ \A f \in Filters : ~Ask(f, budget)
      BY <3>1 DEF Ask, Read, FirstPage, NextPage, Answer
    <3>6. ASSUME NEW id \in issued, NEW v \in Values, NEW t \in Times, Record(id, v, t)
          PROVE  \E b : b \in Seq(Recorded) /\ AppendBatch(b)
      <4>1. Change(id, v, t) \in Recorded
        BY <1>1, IssuedAreIds, ChangeFacts DEF MemoryInv
      <4>2. <<Change(id, v, t)>> \in Seq(Recorded)
        BY <4>1
      <4> QED
        BY <3>6, <4>2 DEF Record
    <3>7. ASSUME NEW b \in Arrivals, Arrive(b)
          PROVE  b \in Seq(Recorded) /\ AppendBatch(b)
      BY <3>7, BatchFacts DEF Arrive
    <3> QED
      BY <1>1, <3>2, <3>3, <3>4, <3>5, <3>6, <3>7 DEF MemoryNext
  <2>4. /\ events' = events \o batch /\ KnownTimesInOrder(batch)
    BY <2>3 DEF AppendBatch, Admits
  <2>5. /\ Len(events') = Len(events) + Len(batch) /\ Len(batch) \in Nat
        /\ \A i \in 1..Len(events) : events'[i] = events[i]
    BY <1>1, <2>3, AppendFacts DEF MemoryInv
  <2> DEFINE tick(i) == events'[i].times.known.ticks
  <2>6. \A i \in 1..Len(events') : tick(i) \in Int
    <3>1. \A i \in 1..Len(events') : events'[i] \in Recorded
      BY <2>1, ElementOfSeq
    <3> QED
      BY <3>1, RecordedTicks
  <2>7. ASSUME NEW i \in (Len(events) + 1)..Len(events') PROVE tick(i - 1) <= tick(i)
    <3>1. i > 1 /\ i \in 1..Len(events') /\ i - 1 \in 1..Len(events')
      BY <2>2
    <3>2. PICK known : known = [k \in 1..Len(events \o batch) |->
                                    (events \o batch)[k].times.known]
      OBVIOUS
    <3>3. Len(known) = Len(events') /\ \A k \in 1..Len(events') : known[k] = events'[k].times.known
      BY <2>2, <2>4, <3>2
    <3>4. \A k \in (Len(events) + 1)..Len(known) :
             k > 1 => known[k - 1].ticks <= known[k].ticks
      BY <2>4, <3>2 DEF KnownTimesInOrder
    <3> QED
      BY <3>1, <3>3, <3>4
  <2>8. tick(Len(events)) = events[Len(events)].times.known.ticks
    BY <2>2, <2>5
  <2> DEFINE L == Len(events)
             N == Len(events')
             T == {n \in Nat : L + n <= N => tick(L) <= tick(L + n)}
  <2>9. L \in Nat /\ N \in Nat /\ L # 0 /\ L <= N
    BY <2>2, <2>5
  <2>10. 0 \in T
    BY <2>6, <2>9
  <2>11. ASSUME NEW n \in Nat, n \in T PROVE n + 1 \in T
    <3> SUFFICES ASSUME L + (n + 1) <= N PROVE tick(L) <= tick(L + (n + 1))
      OBVIOUS
    <3>1. /\ L + n <= N /\ L + (n + 1) \in (L + 1)..N /\ (L + (n + 1)) - 1 = L + n
          /\ L \in 1..N /\ L + n \in 1..N /\ L + (n + 1) \in 1..N
      BY <2>9
    <3>2. tick(L) <= tick(L + n) /\ tick(L + n) <= tick(L + (n + 1))
      BY <2>7, <2>11, <3>1
    <3>3. tick(L) \in Int /\ tick(L + n) \in Int /\ tick(L + (n + 1)) \in Int
      BY <2>6, <3>1
    <3>4. \A x, y, z \in Int : x <= y /\ y <= z => x <= z
      OBVIOUS
    <3> QED
      BY <3>2, <3>3, <3>4, Zenon
  <2>12. \A n \in Nat : n \in T
    <3> HIDE DEF T
    <3> QED
      BY <2>10, <2>11, NaturalSet
  <2>13. s \in 1..N /\ s - L \in Nat /\ L + (s - L) = s /\ s <= N
    BY <1>1, <2>2, <2>9
  <2>14. tick(L) <= tick(s)
    <3>1. s - L \in T
      BY <2>12, <2>13
    <3> QED
      BY <2>13, <3>1
  <2>15. cutoff.ticks \in Int /\ tick(L) \in Int /\ tick(s) \in Int
    <3>1. L \in 1..N
      BY <2>9
    <3> QED
      BY <2>6, <2>13, <3>1, MemoryAssumption
  <2>16. ~(tick(s) <= cutoff.ticks)
    BY <1>1, <2>8, <2>14, <2>15
  <2> QED
    BY <2>16 DEF Matches
<1>2. MemoryInv /\ [MemoryNext]_memoryVars =>
         \A filter \in Filters : \A cutoff \in filter.known_as_of :
            (/\ events # <<>>
             /\ cutoff.ticks < events[Len(events)].times.known.ticks) =>
                \A s \in DOMAIN events' \ DOMAIN events : ~Matches(filter, events'[s])
  BY <1>1
<1> QED
  BY <1>2, MemoryInvariant, PTL DEF MemorySpec, KnowledgeSettles

==============================================================================
