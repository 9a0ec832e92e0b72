------------------------------- MODULE Branch -------------------------------
(***************************************************************************)
(* Timeline branches (crates/temnion-branch).  Every branch has a store    *)
(* directory of its own; branches.manifest says where each one forked.     *)
(* Several processes may have a BranchManager open on one database: no     *)
(* lock guards the manifest, every manager works on the copy it read, and  *)
(* writes the whole copy back.  Events are counted, their content is the   *)
(* business of Replay.                                                     *)
(***************************************************************************)
EXTENDS Integers, Sequences, SequencesExt, TLC, HistoryFilter

CONSTANTS
    Managers,       \* the BranchManagers that may exist at a time
    ForkAs, SetTo,  \* the lifecycles callers give to create_fork, set_lifecycle
    Subjects,       \* bound: the branches they call set_lifecycle for
    MaxBranch,      \* bound: the largest branch id
    MaxLocal,       \* bound: events in one directory
    MaxTotal        \* bound: events in all directories

Lifecycles == {"Active", "Temporary", "Candidate", "Promoted", "Retired"}

ASSUME BranchAssumption ==
    /\ ForkAs \union SetTo \subseteq Lifecycles
    /\ {MaxBranch, MaxLocal, MaxTotal} \subseteq Nat

VARIABLES
    stores,         \* branch directories: id -> number of events of its Store
    manifest,       \* branches.manifest: Option of id -> BranchMetadata
    held,           \* each manager's own manifest, if it is open
    writing,        \* managers inside atomic_write
    opening,        \* managers that found no manifest and are to write one
    forkedAt,       \* history: how long the parent was when an id was forked
    rebuilt         \* the last answer of reconstruct_at

branchVars == <<stores, manifest, held, writing, opening, forkedAt, rebuilt>>

Main == 0
Initial == [b \in {Main} |-> [parent |-> None, lifecycle |-> "Active"]]
Knows(m, b) == \E copy \in held[m] : b \in DOMAIN copy
Meta(m, b) == (CHOOSE copy \in held[m] : TRUE)[b]
Ready(m) == held[m] # None /\ m \notin writing

BranchInit ==
    /\ stores = [b \in {Main} |-> 0]
    /\ manifest = None
    /\ held = [m \in Managers |-> None]
    /\ writing = {}
    /\ opening = {}
    /\ forkedAt = <<>>
    /\ rebuilt = None

-----------------------------------------------------------------------------
(* BranchManager::open with a manifest on disk.                            *)
OpenManager(m) ==
    /\ held[m] = None
    /\ m \notin opening
    /\ manifest # None
    /\ held' = [held EXCEPT ![m] = manifest]
    /\ UNCHANGED <<stores, manifest, writing, opening, forkedAt, rebuilt>>

(* open without one: the root store is looked at, then branch 0 is written *)
(* down.  Another manager may have written a manifest in the meantime.     *)
OpenFirst(m) ==
    /\ held[m] = None
    /\ manifest = None
    /\ opening' = opening \union {m}
    /\ UNCHANGED <<stores, manifest, held, writing, forkedAt, rebuilt>>

OpenWrites(m) ==
    /\ m \in opening
    /\ opening' = opening \ {m}
    /\ manifest' = Some(Initial)
    /\ held' = [held EXCEPT ![m] = Some(Initial)]
    /\ UNCHANGED <<stores, writing, forkedAt, rebuilt>>

(* Mutant: the first sequence that is not there yet is accepted.           *)
ForkPointOK_OneMore(len, sequence) == sequence <= len

(* The parent has reached the fork point; an empty parent takes any.       *)
ForkPointOK(len, sequence) == ~(sequence >= len /\ len > 0)

NextId(m) == 1 + CHOOSE b \in 0..MaxBranch :
    Knows(m, b) /\ \A c \in 0..MaxBranch : Knows(m, c) => c <= b

(* Mutant: a directory that is already there is taken over.                *)
CreateFork_AnyDirectory(m, parent, sequence, lifecycle) ==
    LET id == NextId(m) IN
    /\ Ready(m)
    /\ Knows(m, parent) /\ Meta(m, parent).lifecycle # "Retired"
    /\ ForkPointOK(stores[parent], sequence)
    /\ id <= MaxBranch
    /\ stores' = Put(stores, id, 0)
    /\ held' = [held EXCEPT ![m] =
          {Put(c, id, [parent |-> Some(<<parent, sequence>>), lifecycle |-> lifecycle]) : c \in @}]
    /\ forkedAt' = Put(forkedAt, id, stores[parent])
    /\ writing' = writing \union {m}
    /\ UNCHANGED <<manifest, opening, rebuilt>>

(* create_fork up to its manifest write.  Store::create refuses a directory *)
(* that holds a store, so that it decides between two managers that chose  *)
(* the same id; the loser gets an error and changes nothing.               *)
CreateFork(m, parent, sequence, lifecycle) ==
    LET id == NextId(m) IN
    /\ Ready(m)
    /\ Knows(m, parent) /\ Meta(m, parent).lifecycle # "Retired"
    /\ ForkPointOK(stores[parent], sequence)
    /\ id <= MaxBranch
    /\ id \notin DOMAIN stores
    /\ stores' = Put(stores, id, 0)
    /\ held' = [held EXCEPT ![m] =
          {Put(c, id, [parent |-> Some(<<parent, sequence>>), lifecycle |-> lifecycle]) : c \in @}]
    /\ forkedAt' = Put(forkedAt, id, stores[parent])
    /\ writing' = writing \union {m}
    /\ UNCHANGED <<manifest, opening, rebuilt>>

(* set_lifecycle up to its manifest write.                                 *)
SetLifecycle(m, b, lifecycle) ==
    /\ Ready(m)
    /\ Knows(m, b)
    /\ held' = [held EXCEPT ![m] = {[c EXCEPT ![b].lifecycle = lifecycle] : c \in @}]
    /\ writing' = writing \union {m}
    /\ UNCHANGED <<stores, manifest, opening, forkedAt, rebuilt>>

(* atomic_write renames the whole copy over branches.manifest, or fails    *)
(* and leaves the manager ahead of the disk.                               *)
Publish(m) ==
    /\ m \in writing
    /\ writing' = writing \ {m}
    /\ \/ manifest' = held[m]
       \/ manifest' = manifest
    /\ UNCHANGED <<stores, held, opening, forkedAt, rebuilt>>

(* The process ends, wherever it is.                                       *)
DropManager(m) ==
    /\ held[m] # None \/ m \in opening
    /\ held' = [held EXCEPT ![m] = None]
    /\ writing' = writing \ {m}
    /\ opening' = opening \ {m}
    /\ UNCHANGED <<stores, manifest, forkedAt, rebuilt>>

(* append_to_branch: the branch is not retired in the manager's own copy.  *)
AppendToBranch(m, b) ==
    /\ Ready(m)
    /\ Knows(m, b) /\ Meta(m, b).lifecycle # "Retired"
    /\ stores[b] < MaxLocal
    /\ MapThenSumSet(LAMBDA d : stores[d], DOMAIN stores) < MaxTotal
    /\ stores' = [stores EXCEPT ![b] = @ + 1]
    /\ UNCHANGED <<manifest, held, writing, opening, forkedAt, rebuilt>>

-----------------------------------------------------------------------------
(* resolve_timeline: the segments from the root down to the branch.        *)
Segment(b, start, end) == [branch |-> b, start |-> start, end |-> end]

Resolve(copy, target) ==
    LET Walk[b \in DOMAIN copy] ==
            [fork \in Option(0..MaxLocal) |->
                IF copy[b].parent = None THEN <<Segment(b, 0, fork)>>
                ELSE LET up == Unwrap(copy[b].parent)
                     IN  Append(Walk[up[1]][Some(up[2])], Segment(b, up[2] + 1, fork))]
    IN  Walk[target][None]

Owns(segment, sequence) ==
    /\ sequence >= segment.start
    /\ \A end \in segment.end : sequence <= end

(* reconstruct_at: the first segment that owns the sequence, replayed in   *)
(* its directory up to the same number there (reconstruct_at_sequence,     *)
(* which refuses a sequence the directory does not have).                  *)
ReconstructAt(m, b, sequence) ==
    /\ Ready(m)
    /\ Knows(m, b)
    /\ \E copy \in held[m] :
         LET timeline == Resolve(copy, b)
             serving == SelectInSeq(timeline, LAMBDA s : Owns(s, sequence))
             dir == timeline[serving].branch
         IN  /\ serving > 0
             /\ sequence < stores[dir]
             /\ rebuilt' = Some([timeline |-> timeline, serving |-> serving,
                                 events |-> {dir} \X (0..sequence)])
    /\ UNCHANGED <<stores, manifest, held, writing, opening, forkedAt>>

(* Nothing follows an answer that would not have happened without it.     *)
BranchNext ==
    /\ rebuilt = None
    /\ \E m \in Managers :
        \/ OpenManager(m) \/ OpenFirst(m) \/ OpenWrites(m)
        \/ Publish(m) \/ DropManager(m)
        \/ \E b \in DOMAIN stores :
              \/ AppendToBranch(m, b)
              \/ b \in Subjects /\ \E lifecycle \in SetTo : SetLifecycle(m, b, lifecycle)
              \/ \E sequence \in 0..MaxLocal - 1 :
                    \/ ReconstructAt(m, b, sequence)
                    \/ \E lifecycle \in ForkAs :
                          CreateFork(m, b, sequence, lifecycle)

-----------------------------------------------------------------------------
Copies == manifest \union UNION {held[m] : m \in Managers}

(* Whatever stale copies of the manifest are around, in memory and on      *)
(* disk, two of them that know a branch resolve it to the same timeline,   *)
(* and its directory exists: an id is never given to two forks, although   *)
(* ids are chosen from unsynchronised copies (create_fork).                *)
TimelinesAgree ==
    \A c, d \in Copies : \A b \in DOMAIN c \intersect DOMAIN d :
        /\ Resolve(c, b) = Resolve(d, b)
        /\ b \in DOMAIN stores

(* The past of a branch is closed: whatever the parent appended since, the *)
(* branch inherits exactly the events the parent had at the fork, up to    *)
(* the fork sequence (create_fork; a fork of an empty parent is excepted,  *)
(* it takes in what the parent appends later).                             *)
InheritedPastIsFixed ==
    \A c \in Copies : \A b \in DOMAIN c : \A up \in c[b].parent :
        forkedAt[b] > 0 =>
            0..up[2] \intersect 0..stores[up[1]] - 1 = 0..up[2] \intersect 0..forkedAt[b] - 1
=============================================================================
