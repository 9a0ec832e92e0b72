-------------------------------- MODULE Slab --------------------------------
(***************************************************************************)
(* StateSlab (crates/temnion-state): one shard's live entities in dense    *)
(* arrays, reached through generation-checked identities.  Slot and dense  *)
(* indexes are the code's u32 numbers, counted from 0; sequences are       *)
(* indexed from 1, hence the + 1 at every access.                          *)
(***************************************************************************)
EXTENDS Integers, Sequences

CONSTANTS
    Shard,          \* this slab's ShardId
    Shards,         \* every ShardId a caller may present in an identity
    Values,         \* what an entity holds
    Capacity,       \* slots the slab may create
    IndexMax,       \* the largest index a u32 holds, which is the VACANT mark
    GenerationMax   \* the largest generation a u32 holds

(* StateSlab::new refuses a capacity above u32::MAX.                       *)
ASSUME SlabAssumption ==
    /\ Shard \in Shards
    /\ IndexMax \in Nat
    /\ GenerationMax \in Nat
    /\ Capacity \in 0..IndexMax

VARIABLES
    slots,       \* per slot: its dense index (or VACANT) and its generation
    values,      \* the dense values
    denseSlots,  \* the slot each dense value belongs to
    freeSlots,   \* the stack of vacant slots that may be used again
    issued       \* history: every identity insert has returned

slabVars == <<slots, values, denseSlots, freeSlots, issued>>

VACANT == IndexMax

EntityId == [shard : Shards, slot : 0..IndexMax, generation : 0..GenerationMax]

Slot == [dense : 0..IndexMax, generation : 0..GenerationMax]

(* The value a removal leaves at position i of a dense array is its last. *)
SwapRemove(s, i) ==
    [k \in 1..(Len(s) - 1) |-> IF k = i THEN s[Len(s)] ELSE s[k]]

Pop(s) == SubSeq(s, 1, Len(s) - 1)

(* Mutant: the generation is not compared. *)
Resolves_NoGeneration(id) ==
    /\ id.slot < Len(slots)
    /\ id.shard = Shard
    /\ slots[id.slot + 1].dense # VACANT

(* dense_index: the checks every access through an identity makes.         *)
Resolves(id) ==
    /\ id.slot < Len(slots)
    /\ id.shard = Shard
    /\ id.generation = slots[id.slot + 1].generation
    /\ slots[id.slot + 1].dense # VACANT

(* get: the value an identity that resolves stands for.                    *)
Get(id) == values[slots[id.slot + 1].dense + 1]

SlabInit ==
    /\ slots = <<>>
    /\ values = <<>>
    /\ denseSlots = <<>>
    /\ freeSlots = <<>>
    /\ issued = {}

(* insert places the value at the end of the dense arrays, in slot s.      *)
Place(s, generation, v) ==
    /\ values' = Append(values, v)
    /\ denseSlots' = Append(denseSlots, s)
    /\ issued' = issued \cup
          {[shard |-> Shard, slot |-> s, generation |-> generation]}

(* insert, on the most recently freed slot.                                *)
InsertReused(v) ==
    /\ freeSlots # <<>>
    /\ LET s == freeSlots[Len(freeSlots)] IN
          /\ freeSlots' = Pop(freeSlots)
          /\ slots' = [slots EXCEPT ![s + 1].dense = Len(values)]
          /\ Place(s, slots[s + 1].generation, v)

(* insert, on a slot of its own; at capacity the code refuses.             *)
InsertFresh(v) ==
    /\ freeSlots = <<>>
    /\ Len(slots) # Capacity
    /\ slots' = Append(slots, [dense |-> Len(values), generation |-> 0])
    /\ Place(Len(slots), 0, v)
    /\ UNCHANGED freeSlots

Insert(v) == InsertReused(v) \/ InsertFresh(v)

(* get_mut: the owner overwrites the value in place.                       *)
Assign(id, v) ==
    /\ Resolves(id)
    /\ values' = [values EXCEPT ![slots[id.slot + 1].dense + 1] = v]
    /\ UNCHANGED <<slots, denseSlots, freeSlots, issued>>

(* Mutant: an exhausted generation starts again at zero. *)
Remove_Wraps(id) ==
    /\ Resolves(id)
    /\ LET d == slots[id.slot + 1].dense
           moved == denseSlots[Len(denseSlots)]
       IN /\ values' = SwapRemove(values, d + 1)
          /\ denseSlots' = SwapRemove(denseSlots, d + 1)
          /\ slots' = [k \in 1..Len(slots) |->
                IF k = id.slot + 1
                THEN [dense |-> VACANT,
                      generation |-> (slots[k].generation + 1) % (GenerationMax + 1)]
                ELSE IF k = moved + 1
                THEN [slots[k] EXCEPT !.dense = d]
                ELSE slots[k]]
          /\ freeSlots' = Append(freeSlots, id.slot)
    /\ UNCHANGED issued

(* Mutant: the slot of the value that moved keeps its old dense index. *)
Remove_ForgetsMoved(id) ==
    /\ Resolves(id)
    /\ LET d == slots[id.slot + 1].dense
           generation == slots[id.slot + 1].generation
       IN /\ values' = SwapRemove(values, d + 1)
          /\ denseSlots' = SwapRemove(denseSlots, d + 1)
          /\ slots' = [slots EXCEPT ![id.slot + 1] =
                [dense |-> VACANT,
                 generation |-> IF generation < GenerationMax
                                THEN generation + 1 ELSE generation]]
          /\ freeSlots' = IF generation < GenerationMax
                          THEN Append(freeSlots, id.slot) ELSE freeSlots
    /\ UNCHANGED issued

(* remove: the last dense value moves into the hole and its slot is told   *)
(* so; the removed slot is vacated, and freed unless its generation is     *)
(* exhausted.                                                              *)
Remove(id) ==
    /\ Resolves(id)
    /\ LET d == slots[id.slot + 1].dense
           moved == denseSlots[Len(denseSlots)]
           generation == slots[id.slot + 1].generation
       IN /\ values' = SwapRemove(values, d + 1)
          /\ denseSlots' = SwapRemove(denseSlots, d + 1)
          /\ slots' = [k \in 1..Len(slots) |->
                IF k = id.slot + 1
                THEN [dense |-> VACANT,
                      generation |-> IF generation < GenerationMax
                                     THEN generation + 1 ELSE generation]
                ELSE IF k = moved + 1
                THEN [slots[k] EXCEPT !.dense = d]
                ELSE slots[k]]
          /\ freeSlots' = IF generation < GenerationMax
                          THEN Append(freeSlots, id.slot) ELSE freeSlots
    /\ UNCHANGED issued

SlabNext ==
    \/ \E v \in Values : Insert(v)
    \/ \E id \in EntityId : Remove(id) \/ \E v \in Values : Assign(id, v)

SlabSpec == SlabInit /\ [][SlabNext]_slabVars

SlabTypeOK ==
    /\ slots \in Seq(Slot)
    /\ values \in Seq(Values)
    /\ denseSlots \in Seq(0..IndexMax)
    /\ freeSlots \in Seq(0..IndexMax)
    /\ issued \subseteq EntityId

(* The refinement mapping: the identities that resolve, with what get      *)
(* returns for them.                                                       *)
LiveMap == [id \in {i \in EntityId : Resolves(i)} |-> Get(id)]

Map == INSTANCE EntityMap WITH Ids <- EntityId, live <- LiveMap

(***************************************************************************)
(* The slab behaves as a map with never-reused identities: a removal never *)
(* disturbs another entity's value although dense values move, and a       *)
(* handle whose entity is gone stays refused through any reuse of its slot *)
(* up to and past the last generation.                                     *)
(***************************************************************************)
IsEntityMap == Map!Spec

(***************************************************************************)
(* No slot leaks: every slot is held by one live value, or waits once on   *)
(* the free stack, or is vacant with its generations used up; so insert    *)
(* refuses only when the slab is truly full.                               *)
(***************************************************************************)
NoSlotLeaks ==
    /\ Len(values) = Len(denseSlots)
    /\ \A s \in 0..(Len(slots) - 1) :
          LET held == {i \in DOMAIN denseSlots : denseSlots[i] = s}
              free == {i \in DOMAIN freeSlots : freeSlots[i] = s}
          IN \/ /\ held = {slots[s + 1].dense + 1}
                /\ free = {}
             \/ /\ held = {}
                /\ slots[s + 1].dense = VACANT
                /\ \/ \E i \in DOMAIN freeSlots : free = {i}
                   \/ /\ free = {}
                      /\ slots[s + 1].generation = GenerationMax
==============================================================================
