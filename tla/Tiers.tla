-------------------------------- MODULE Tiers --------------------------------
(***************************************************************************)
(* The storage hierarchy (crates/temnion-runtime, M10): segments move      *)
(* between HotDram, WarmMapped and ColdMedia, under a budget for the first *)
(* two that the least recently used segments give way to.                  *)
(***************************************************************************)
EXTENDS Integers, HistoryFilter

CONSTANTS
    MaxSegment,     \* bound: the largest segment id
    Sizes,          \* byte_size
    HotBytes, WarmBytes,
    MaxSteps        \* bound: accesses

ASSUME TiersAssumption ==
    /\ MaxSegment \in Nat /\ Sizes \subseteq Nat
    /\ HotBytes \in Nat /\ WarmBytes \in Nat

VARIABLES
    segments,       \* id -> size, tier, count, last
    step,           \* current_step
    answered        \* what record_access answered last: id and tier

tierVars == <<segments, step, answered>>

Hot == 2
Warm == 1
Cold == 0

TiersInit == segments = <<>> /\ step = 0 /\ answered = None

In(segs, tier) == {id \in DOMAIN segs : segs[id].tier = tier}
Bytes(segs, ids) ==
    LET sum[n \in 0..MaxSegment] ==
            IF n = 0 THEN 0 ELSE sum[n - 1] + (IF n \in ids THEN segs[n].size ELSE 0)
    IN  sum[MaxSegment]

(* register_segment replaces an entry and looks at no budget.              *)
RegisterSegment(id, size, tier) ==
    /\ segments' = Put(segments, id, [size |-> size, tier |-> tier, count |-> 0, last |-> step])
    /\ answered' = None
    /\ UNCHANGED step

(* Mutant: the most recently used goes first.                              *)
Older_Newer(segs, a, b) ==
    segs[a].last > segs[b].last \/ (segs[a].last = segs[b].last /\ a < b)

(* The order of min_by_key over the segments of a tier, by id on a tie.    *)
Older(segs, a, b) ==
    segs[a].last < segs[b].last \/ (segs[a].last = segs[b].last /\ a < b)

(* One loop of enforce_capacity.  A segment's turn comes when all older    *)
(* ones are gone, and it goes too if what is left then is over the budget. *)
Squeeze(segs, tier, budget) ==
    [id \in DOMAIN segs |->
        IF id \in In(segs, tier)
           /\ Bytes(segs, {x \in In(segs, tier) : ~Older(segs, x, id)}) > budget
        THEN [segs[id] EXCEPT !.tier = tier - 1] ELSE segs[id]]

EnforceCapacity(segs) == Squeeze(Squeeze(segs, Hot, HotBytes), Warm, WarmBytes)

(* record_access answers the tier it found before it makes room.           *)
RecordAccess(id) ==
    /\ step < MaxSteps
    /\ step' = step + 1
    /\ LET s == segments[id]
           tier == IF s.tier = Cold /\ s.count + 1 >= 2 THEN Warm ELSE s.tier
           used == [s EXCEPT !.count = @ + 1, !.last = step + 1, !.tier = tier]
       IN  /\ segments' = EnforceCapacity([segments EXCEPT ![id] = used])
           /\ answered' = Some(<<id, tier>>)

(* migrate counts as no access: what it brings up may go down at once.     *)
Migrate(id, tier) ==
    /\ segments' = EnforceCapacity([segments EXCEPT ![id].tier = tier])
    /\ answered' = None
    /\ UNCHANGED step

TiersNext ==
    \/ \E id \in 1..MaxSegment, size \in Sizes, tier \in {Hot, Warm, Cold} :
            RegisterSegment(id, size, tier)
    \/ \E id \in DOMAIN segments :
            \/ RecordAccess(id)
            \/ \E tier \in {Hot, Warm, Cold} : Migrate(id, tier)

-----------------------------------------------------------------------------
(* Whatever was registered over the budget before, an access leaves both   *)
(* tiers within theirs, and the segment it used is where record_access     *)
(* said, unless it alone is larger than that tier.                         *)
AccessMakesRoom ==
    \A a \in answered :
        /\ Bytes(segments, In(segments, Hot)) <= HotBytes
        /\ Bytes(segments, In(segments, Warm)) <= WarmBytes
        /\ LET budget == CASE a[2] = Hot -> HotBytes [] a[2] = Warm -> WarmBytes
                           [] a[2] = Cold -> segments[a[1]].size
           IN  segments[a[1]].size <= budget => segments[a[1]].tier = a[2]
=============================================================================
