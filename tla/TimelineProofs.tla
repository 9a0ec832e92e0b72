--------------------------- MODULE TimelineProofs ---------------------------
(***************************************************************************)
(* What is built over a store, for any number of branch managers, any      *)
(* reducers' inputs and any bounds: branches resolve to one past whichever *)
(* stale manifest is read, replay from checkpoints is replay from the      *)
(* beginning, the causal graph has no cycle and sorts, schema payloads are *)
(* canonical, the mirror's queue loses nothing silently, and a backup that *)
(* restores is complete.                                                   *)
(***************************************************************************)
EXTENDS Timeline, SchemaProofs

-----------------------------------------------------------------------------
(* Branches.                                                               *)

BranchMetadata == [parent : Option(Nat \X Nat), lifecycle : Lifecycles]

(* A copy of the manifest tells the truth about every branch it knows: its *)
(* directory exists, its parent is known too and older, and the parent had *)
(* reached the fork point, unless it was empty, and has not shrunk since.  *)
CopyInv(c) ==
    /\ DOMAIN c \subseteq DOMAIN stores
    /\ \A b \in DOMAIN c : c[b] \in BranchMetadata
    /\ \A b \in DOMAIN c : \A up \in c[b].parent :
          /\ b # Main
          /\ up[1] \in DOMAIN c /\ up[1] < b
          /\ up[2] \in 0..MaxLocal
          /\ forkedAt[b] <= stores[up[1]]
          /\ forkedAt[b] > 0 => up[2] < forkedAt[b]

(* Copies that know a branch agree where it forked.                        *)
ParentsAgree(c, d) ==
    \A b \in DOMAIN c \intersect DOMAIN d : c[b].parent = d[b].parent

BranchInv ==
    /\ DOMAIN stores \subseteq 0..MaxBranch
    /\ Main \in DOMAIN stores
    /\ \A b \in DOMAIN stores : stores[b] \in Nat
    /\ DOMAIN forkedAt = DOMAIN stores \ {Main}
    /\ \A b \in DOMAIN forkedAt : forkedAt[b] \in Nat
    /\ DOMAIN held = Managers
    /\ \A m \in Managers : \A c, d \in held[m] : c = d
    /\ \A c, d \in manifest : c = d
    /\ \A c \in Copies : CopyInv(c)
    /\ \A c, d \in Copies : ParentsAgree(c, d)

(* The inductive part again, for a step: what the copies become.           *)
LEMMA CopiesStep ==
    ASSUME BranchInv,
           DOMAIN stores' \subseteq 0..MaxBranch, Main \in DOMAIN stores',
           \A b \in DOMAIN stores' : stores'[b] \in Nat,
           DOMAIN forkedAt' = DOMAIN stores' \ {Main},
           \A b \in DOMAIN forkedAt' : forkedAt'[b] \in Nat,
           DOMAIN held' = Managers,
           \A m \in Managers : \A c, d \in held'[m] : c = d,
           \A c, d \in manifest' : c = d,
           \A c \in Copies' : CopyInv(c)',
           \A c, d \in Copies' : ParentsAgree(c, d)
    PROVE  BranchInv'
BY DEF BranchInv, ParentsAgree

(* A copy's truth does not depend on what directories gain.                *)
LEMMA CopyKept ==
    ASSUME NEW c, CopyInv(c), BranchInv,
           DOMAIN stores \subseteq DOMAIN stores',
           \A b \in DOMAIN stores : stores[b] <= stores'[b] /\ stores'[b] \in Nat,
           \A b \in DOMAIN forkedAt : forkedAt'[b] = forkedAt[b]
    PROVE  CopyInv(c)'
<1>1. /\ DOMAIN c \subseteq DOMAIN stores
      /\ \A b \in DOMAIN c : c[b] \in BranchMetadata
  BY DEF CopyInv
<1>2. ASSUME NEW b \in DOMAIN c, NEW up \in c[b].parent
      PROVE  /\ b # Main
             /\ up[1] \in DOMAIN c /\ up[1] < b
             /\ up[2] \in 0..MaxLocal
             /\ forkedAt'[b] <= stores'[up[1]]
             /\ forkedAt'[b] > 0 => up[2] < forkedAt'[b]
  <2>1. /\ b # Main
        /\ up[1] \in DOMAIN c /\ up[1] < b
        /\ up[2] \in 0..MaxLocal
        /\ forkedAt[b] <= stores[up[1]]
        /\ forkedAt[b] > 0 => up[2] < forkedAt[b]
    BY DEF CopyInv
  <2>2. b \in DOMAIN forkedAt /\ up[1] \in DOMAIN stores
    BY <1>1, <2>1 DEF BranchInv
  <2>3. /\ forkedAt'[b] = forkedAt[b] /\ forkedAt[b] \in Nat
        /\ stores[up[1]] <= stores'[up[1]] /\ stores'[up[1]] \in Nat /\ stores[up[1]] \in Nat
    BY <2>2 DEF BranchInv
  <2> QED
    BY <2>1, <2>3
<1> QED
  BY <1>1, <1>2 DEF CopyInv, Main

LEMMA InitialCopy ==
    ASSUME BranchInv
    PROVE  CopyInv(Initial) /\ \A c \in Copies : ParentsAgree(c, Initial) /\ ParentsAgree(Initial, c)
<1>1. /\ DOMAIN Initial = {Main} /\ Initial[Main].parent = {}
      /\ Initial[Main] \in BranchMetadata
  BY DEF Initial, None, BranchMetadata, Option, Lifecycles
<1>2. CopyInv(Initial)
  BY <1>1 DEF CopyInv, BranchInv
<1>3. ASSUME NEW c \in Copies, Main \in DOMAIN c PROVE c[Main].parent = {}
  BY <1>3 DEF BranchInv, CopyInv
<1> QED
  BY <1>1, <1>2, <1>3 DEF ParentsAgree

LEMMA BranchInitInv == BranchInit => BranchInv
<1> SUFFICES ASSUME BranchInit PROVE BranchInv
  OBVIOUS
<1>1. /\ stores = [b \in {Main} |-> 0] /\ forkedAt = <<>>
      /\ held = [m \in Managers |-> {}] /\ manifest = {}
  BY DEF BranchInit, None
<1>2. Copies = {}
  BY <1>1 DEF Copies
<1>3. MaxBranch \in Nat
  BY BranchAssumption
<1>4. DOMAIN forkedAt = {}
  BY <1>1
<1> QED
  BY <1>1, <1>2, <1>3, <1>4 DEF BranchInv, Main

(* Steps that change which manager holds which existing copy.              *)
LEMMA CopiesMove ==
    ASSUME BranchInv, UNCHANGED <<stores, forkedAt>>,
           DOMAIN held' = Managers,
           \A m \in Managers : \A c, d \in held'[m] : c = d,
           \A c, d \in manifest' : c = d,
           Copies' \subseteq Copies \union {Initial}
    PROVE  BranchInv'
<1>1. CopyInv(Initial) /\ \A c \in Copies : ParentsAgree(c, Initial) /\ ParentsAgree(Initial, c)
  BY InitialCopy
<1>2. \A c \in Copies' : CopyInv(c)
  BY <1>1 DEF BranchInv
<1>3. \A c, d \in Copies' : ParentsAgree(c, d)
  <2>1. ParentsAgree(Initial, Initial)
    BY DEF ParentsAgree
  <2> QED
    BY <1>1, <2>1 DEF BranchInv
<1>4. \A c : CopyInv(c) => CopyInv(c)'
  BY DEF CopyInv, Main
<1> QED
  BY <1>2, <1>3, <1>4, CopiesStep DEF BranchInv

LEMMA OpenInv ==
    ASSUME BranchInv, NEW m \in Managers,
           OpenManager(m) \/ OpenFirst(m) \/ OpenWrites(m) \/ Publish(m) \/ DropManager(m)
    PROVE  BranchInv'
<1>1. UNCHANGED <<stores, forkedAt>>
  BY DEF OpenManager, OpenFirst, OpenWrites, Publish, DropManager
<1>2. /\ \/ held' = held
         \/ \E h \in {manifest, {Initial}, {}} : held' = [held EXCEPT ![m] = h]
      /\ manifest' = manifest \/ manifest' = {Initial} \/ manifest' = held[m]
  BY DEF OpenManager, OpenFirst, OpenWrites, Publish, DropManager, None, Some
<1>3. /\ DOMAIN held = Managers /\ \A n \in Managers : \A c, d \in held[n] : c = d
      /\ \A c, d \in manifest : c = d
  BY DEF BranchInv
<1>4. DOMAIN held' = Managers
  BY <1>2, <1>3
<1>5. ASSUME NEW n \in Managers
      PROVE  held'[n] = held[n] \/ held'[n] = manifest \/ held'[n] = {Initial} \/ held'[n] = {}
  BY <1>2, <1>3
<1>6. /\ \A n \in Managers : \A c, d \in held'[n] : c = d
      /\ \A c, d \in manifest' : c = d
  BY <1>2, <1>3, <1>5
<1>7. Copies' \subseteq Copies \union {Initial}
  BY <1>2, <1>5 DEF Copies
<1> QED
  BY <1>1, <1>4, <1>6, <1>7, CopiesMove

(* set_lifecycle changes no parent.                                        *)
LEMMA SetLifecycleInv ==
    ASSUME BranchInv, NEW m \in Managers, NEW b, NEW lifecycle \in SetTo,
           SetLifecycle(m, b, lifecycle)
    PROVE  BranchInv'
<1> DEFINE Set(c) == [c EXCEPT ![b].lifecycle = lifecycle]
<1>1. /\ held' = [held EXCEPT ![m] = {Set(c) : c \in held[m]}]
      /\ UNCHANGED <<stores, manifest, forkedAt>>
  BY DEF SetLifecycle
<1>2. /\ DOMAIN held = Managers /\ \A n \in Managers : \A c, d \in held[n] : c = d
      /\ \A c, d \in manifest : c = d
  BY DEF BranchInv
<1>3. lifecycle \in Lifecycles
  BY BranchAssumption
<1>4. ASSUME NEW c \in held[m]
      PROVE  /\ DOMAIN Set(c) = DOMAIN c
             /\ \A x \in DOMAIN c : Set(c)[x].parent = c[x].parent /\ Set(c)[x] \in BranchMetadata
  <2>1. c \in Copies
    BY DEF Copies
  <2>2. \A x \in DOMAIN c : c[x] \in BranchMetadata
    BY <2>1 DEF BranchInv, CopyInv
  <2>3. ASSUME NEW x \in DOMAIN c
        PROVE  Set(c)[x].parent = c[x].parent /\ Set(c)[x] \in BranchMetadata
    <3>1. Set(c)[x] = IF x = b THEN [c[x] EXCEPT !.lifecycle = lifecycle] ELSE c[x]
      OBVIOUS
    <3>2. c[x] \in BranchMetadata
      BY <2>2
    <3>3. PICK r : r = [c[x] EXCEPT !.lifecycle = lifecycle]
      OBVIOUS
    <3>4. r.parent = c[x].parent /\ r \in BranchMetadata
      BY <1>3, <3>2, <3>3 DEF BranchMetadata
    <3> HIDE DEF Set
    <3> QED
      BY <3>1, <3>2, <3>3, <3>4
  <2> QED
    BY <2>3
<1> HIDE DEF Set
<1>5. DOMAIN held' = Managers /\ held'[m] = {Set(c) : c \in held[m]}
      /\ \A n \in Managers : n # m => held'[n] = held[n]
  BY <1>1, <1>2
<1>6. \A n \in Managers : \A c, d \in held'[n] : c = d
  BY <1>2, <1>5
<1>7. ASSUME NEW e \in Copies'
      PROVE  \E c \in Copies : /\ DOMAIN e = DOMAIN c
                               /\ \A x \in DOMAIN c : /\ e[x].parent = c[x].parent
                                                      /\ e[x] \in BranchMetadata
  <2>1. CASE e \in Copies
    BY <2>1 DEF BranchInv, CopyInv
  <2>2. CASE \E c \in held[m] : e = Set(c)
    BY <1>4, <2>2 DEF Copies
  <2>3. e \in manifest \/ \E n \in Managers : e \in held'[n]
    BY <1>1 DEF Copies
  <2>4. e \in Copies \/ \E c \in held[m] : e = Set(c)
    BY <1>5, <2>3 DEF Copies
  <2> QED
    BY <2>1, <2>2, <2>4
<1>8. ASSUME NEW e \in Copies' PROVE CopyInv(e)'
  <2>1. PICK c \in Copies : /\ DOMAIN e = DOMAIN c
                            /\ \A x \in DOMAIN c : /\ e[x].parent = c[x].parent
                                                   /\ e[x] \in BranchMetadata
    BY <1>7
  <2>2. CopyInv(c)
    BY DEF BranchInv
  <2> QED
    BY <1>1, <2>1, <2>2 DEF CopyInv, Main
<1>9. ASSUME NEW e \in Copies', NEW f \in Copies' PROVE ParentsAgree(e, f)
  <2>1. PICK c \in Copies : DOMAIN e = DOMAIN c /\ \A x \in DOMAIN c : e[x].parent = c[x].parent
    BY <1>7
  <2>2. PICK d \in Copies : DOMAIN f = DOMAIN d /\ \A x \in DOMAIN d : f[x].parent = d[x].parent
    BY <1>7
  <2>3. ParentsAgree(c, d)
    BY DEF BranchInv
  <2> QED
    BY <2>1, <2>2, <2>3 DEF ParentsAgree
<1> QED
  BY <1>1, <1>2, <1>5, <1>6, <1>8, <1>9, CopiesStep DEF BranchInv

(* The id create_fork chooses is above every id its copy knows.            *)
LEMMA NextIdFacts ==
    ASSUME BranchInv, NEW m \in Managers, NEW b, Knows(m, b)
    PROVE  /\ NextId(m) \in Nat \ {0}
           /\ \A c \in held[m] : \A x \in DOMAIN c : x < NextId(m)
<1>1. \A c \in held[m] : DOMAIN c \subseteq 0..MaxBranch
  <2>1. \A c \in held[m] : c \in Copies
    BY DEF Copies
  <2> QED
    BY <2>1 DEF BranchInv, CopyInv
<1>2. MaxBranch \in Nat
  BY BranchAssumption
<1> DEFINE Known == {x \in 0..MaxBranch : Knows(m, x)}
           Gaps == {g \in 0..MaxBranch : MaxBranch - g \in Known}
<1>3. b \in Known
  BY <1>1 DEF Knows
<1>4. MaxBranch - b \in Gaps
  <2>1. b \in 0..MaxBranch
    BY <1>3
  <2>2. MaxBranch - b \in 0..MaxBranch /\ MaxBranch - (MaxBranch - b) = b
    BY <1>2, <2>1
  <2> QED
    BY <1>3, <2>2
<1>5. Gaps \in SUBSET Nat /\ Gaps # {}
  BY <1>2, <1>4
<1>6. PICK g \in Gaps : \A h \in Gaps : g <= h
  BY <1>5, LeastNatural
<1>7. PICK top : top = MaxBranch - g
  OBVIOUS
<1>8. top \in 0..MaxBranch /\ Knows(m, top)
  BY <1>2, <1>6, <1>7
<1>9. ASSUME NEW x \in 0..MaxBranch, Knows(m, x) PROVE x <= top
  <2>1. MaxBranch - x \in 0..MaxBranch /\ MaxBranch - (MaxBranch - x) = x
    BY <1>2
  <2>2. MaxBranch - x \in Gaps
    BY <1>9, <2>1
  <2>3. g <= MaxBranch - x /\ g \in 0..MaxBranch
    BY <1>6, <2>2
  <2> QED
    BY <1>2, <1>7, <2>3
<1>10. \E t \in 0..MaxBranch : Knows(m, t) /\ \A x \in 0..MaxBranch : Knows(m, x) => x <= t
  BY <1>8, <1>9
<1>11. PICK t \in 0..MaxBranch : /\ NextId(m) = 1 + t
                                 /\ \A x \in 0..MaxBranch : Knows(m, x) => x <= t
  BY <1>10 DEF NextId
<1>12. ASSUME NEW c \in held[m], NEW x \in DOMAIN c PROVE x < NextId(m)
  <2>1. x \in 0..MaxBranch /\ Knows(m, x)
    BY <1>1 DEF Knows
  <2> QED
    BY <1>2, <1>11, <2>1
<1> QED
  BY <1>2, <1>11, <1>12

(* create_fork: no copy knows the new id, because its directory is new.    *)
LEMMA CreateForkInv ==
    ASSUME BranchInv, NEW m \in Managers, NEW parent \in DOMAIN stores,
           NEW sequence \in 0..MaxLocal, NEW lifecycle \in ForkAs,
           CreateFork(m, parent, sequence, lifecycle)
    PROVE  BranchInv'
<1>0. PICK id, meta : /\ id = NextId(m)
                      /\ meta = [parent |-> Some(<<parent, sequence>>), lifecycle |-> lifecycle]
  OBVIOUS
<1>1. /\ Knows(m, parent)
      /\ ForkPointOK(stores[parent], sequence)
      /\ id <= MaxBranch /\ id \notin DOMAIN stores
      /\ stores' = Put(stores, id, 0)
      /\ held' = [held EXCEPT ![m] = {Put(c, id, meta) : c \in held[m]}]
      /\ forkedAt' = Put(forkedAt, id, stores[parent])
      /\ manifest' = manifest
  BY <1>0 DEF CreateFork
<1>2. id \in Nat \ {0} /\ \A c \in held[m] : \A x \in DOMAIN c : x < id
  BY <1>0, <1>1, NextIdFacts
<1>3. MaxBranch \in Nat /\ MaxLocal \in Nat /\ lifecycle \in Lifecycles
  BY BranchAssumption
<1>4. parent \in Nat /\ stores[parent] \in Nat /\ sequence \in Nat
  BY <1>3 DEF BranchInv
<1>5. /\ meta \in BranchMetadata
      /\ \A up : up \in meta.parent <=> up = <<parent, sequence>>
  BY <1>0, <1>3, <1>4 DEF BranchMetadata, Some, Option
<1>6. /\ DOMAIN stores' = DOMAIN stores \union {id} /\ stores'[id] = 0
      /\ \A b \in DOMAIN stores : stores'[b] = stores[b] /\ stores[b] \in Nat
  BY <1>1 DEF BranchInv, Put
<1>7. /\ DOMAIN forkedAt' = DOMAIN forkedAt \union {id} /\ forkedAt'[id] = stores[parent]
      /\ \A b \in DOMAIN forkedAt : forkedAt'[b] = forkedAt[b] /\ forkedAt[b] \in Nat
  <2>1. DOMAIN forkedAt = DOMAIN stores \ {Main} /\ \A b \in DOMAIN forkedAt : forkedAt[b] \in Nat
    BY DEF BranchInv
  <2> QED
    BY <1>1, <2>1 DEF Put
<1>8. /\ DOMAIN stores' \subseteq 0..MaxBranch /\ Main \in DOMAIN stores'
      /\ \A b \in DOMAIN stores' : stores'[b] \in Nat
      /\ DOMAIN forkedAt' = DOMAIN stores' \ {Main}
      /\ \A b \in DOMAIN forkedAt' : forkedAt'[b] \in Nat
  <2>1. id \in 0..MaxBranch /\ id # Main
    BY <1>1, <1>2, <1>3 DEF Main
  <2>2. DOMAIN stores \subseteq 0..MaxBranch /\ Main \in DOMAIN stores /\ DOMAIN forkedAt = DOMAIN stores \ {Main}
    BY DEF BranchInv
  <2> QED
    BY <1>4, <1>6, <1>7, <2>1, <2>2
<1>9. ASSUME NEW c \in Copies
      PROVE  /\ CopyInv(c) /\ CopyInv(c)' /\ id \notin DOMAIN c
  <2>1. CopyInv(c)
    BY DEF BranchInv
  <2>2. id \notin DOMAIN c
    BY <1>1, <2>1 DEF CopyInv
  <2>3. /\ DOMAIN stores \subseteq DOMAIN stores'
        /\ \A b \in DOMAIN stores : stores[b] <= stores'[b] /\ stores'[b] \in Nat
        /\ \A b \in DOMAIN forkedAt : forkedAt'[b] = forkedAt[b]
    BY <1>6, <1>7
  <2>4. CopyInv(c)'
    BY <2>1, <2>3, CopyKept
  <2> QED
    BY <2>1, <2>2, <2>4
<1>10. /\ DOMAIN held = Managers /\ \A n \in Managers : \A c, d \in held[n] : c = d
       /\ \A c, d \in manifest : c = d
  BY DEF BranchInv
<1>11. /\ DOMAIN held' = Managers /\ held'[m] = {Put(c, id, meta) : c \in held[m]}
       /\ \A n \in Managers : n # m => held'[n] = held[n]
  BY <1>1, <1>10
<1>12. \A n \in Managers : \A c, d \in held'[n] : c = d
  BY <1>10, <1>11
<1>13. ASSUME NEW c \in held[m]
       PROVE  CopyInv(Put(c, id, meta))'
  <2>0. PICK e : e = Put(c, id, meta)
    OBVIOUS
  <2>1. c \in Copies
    BY DEF Copies
  <2>2. CopyInv(c)'
    BY <1>9, <2>1
  <2>3. /\ DOMAIN e = DOMAIN c \union {id} /\ e[id] = meta
        /\ \A x \in DOMAIN c : x # id /\ e[x] = c[x]
    BY <1>9, <2>0, <2>1 DEF Put
  <2>4. parent \in DOMAIN c
    BY <1>1, <1>10 DEF Knows
  <2>5. /\ parent < id /\ id # Main
        /\ forkedAt'[id] <= stores'[parent]
        /\ forkedAt'[id] > 0 => sequence < forkedAt'[id]
    <3>1. parent < id /\ id # Main
      BY <1>2, <2>4 DEF Main
    <3>2. forkedAt'[id] = stores[parent] /\ stores'[parent] = stores[parent]
      BY <1>6, <1>7
    <3> QED
      BY <1>1, <1>4, <3>1, <3>2 DEF ForkPointOK
  <2>6. DOMAIN e \subseteq DOMAIN stores' /\ \A b \in DOMAIN e : e[b] \in BranchMetadata
    BY <1>5, <1>6, <2>2, <2>3 DEF CopyInv
  <2>7. ASSUME NEW b \in DOMAIN e, NEW up \in e[b].parent
        PROVE  /\ b # Main
               /\ up[1] \in DOMAIN e /\ up[1] < b
               /\ up[2] \in 0..MaxLocal
               /\ forkedAt'[b] <= stores'[up[1]]
               /\ forkedAt'[b] > 0 => up[2] < forkedAt'[b]
    <3>1. CASE b = id
      <4>1. up = <<parent, sequence>>
        BY <1>5, <2>3, <2>7, <3>1
      <4>2. up[1] = parent /\ up[2] = sequence
        BY <4>1
      <4> QED
        BY <2>3, <2>4, <2>5, <3>1, <4>2
    <3>2. CASE b # id
      <4>1. b \in DOMAIN c /\ up \in c[b].parent
        BY <2>3, <2>7, <3>2
      <4> QED
        BY <2>2, <2>3, <4>1 DEF CopyInv, Main
    <3> QED
      BY <3>1, <3>2
  <2>8. CopyInv(e)'
    BY <2>6, <2>7 DEF CopyInv, Main
  <2> QED
    BY <2>0, <2>8 DEF CopyInv
<1>14. ASSUME NEW e \in Copies'
       PROVE  e \in Copies \/ \E c \in held[m] : e = Put(c, id, meta)
  <2>1. e \in manifest \/ \E n \in Managers : e \in held'[n]
    BY <1>1 DEF Copies
  <2> QED
    BY <1>11, <2>1 DEF Copies
<1>15. \A e \in Copies' : CopyInv(e)'
  BY <1>9, <1>13, <1>14
<1>16. ASSUME NEW c \in Copies, NEW d \in held[m]
       PROVE  ParentsAgree(c, Put(d, id, meta)) /\ ParentsAgree(Put(d, id, meta), c)
  <2>1. d \in Copies
    BY DEF Copies
  <2>2. ParentsAgree(c, d) /\ ParentsAgree(d, c)
    BY <2>1 DEF BranchInv
  <2>3. id \notin DOMAIN c /\ id \notin DOMAIN d
    BY <1>9, <2>1
  <2> QED
    BY <2>2, <2>3 DEF ParentsAgree, Put
<1>17. \A e, f \in Copies' : ParentsAgree(e, f)
  <2> SUFFICES ASSUME NEW e \in Copies', NEW f \in Copies' PROVE ParentsAgree(e, f)
    OBVIOUS
  <2>1. CASE e \in Copies /\ f \in Copies
    BY <2>1 DEF BranchInv
  <2>2. CASE e \in Copies \/ f \in Copies
    BY <1>14, <1>16, <2>1, <2>2
  <2>3. CASE e \notin Copies /\ f \notin Copies
    <3>1. e = f
      BY <1>10, <1>14, <2>3
    <3> QED
      BY <3>1 DEF ParentsAgree
  <2> QED
    BY <2>2, <2>3
<1> QED
  BY <1>1, <1>8, <1>10, <1>11, <1>12, <1>15, <1>17, CopiesStep

(* append_to_branch lengthens one directory.                               *)
LEMMA AppendToBranchInv ==
    ASSUME BranchInv, NEW m \in Managers, NEW b \in DOMAIN stores, AppendToBranch(m, b)
    PROVE  BranchInv'
<1>1. /\ stores' = [stores EXCEPT ![b] = stores[b] + 1]
      /\ UNCHANGED <<manifest, held, forkedAt>>
  BY DEF AppendToBranch
<1>2. DOMAIN stores' = DOMAIN stores
  BY <1>1
<1>3. ASSUME NEW x \in DOMAIN stores
      PROVE  stores[x] <= stores'[x] /\ stores'[x] \in Nat
  <2>1. stores[x] \in Nat /\ stores'[x] = IF x = b THEN stores[b] + 1 ELSE stores[x]
    BY <1>1 DEF BranchInv
  <2> QED
    BY <2>1
<1>4. Copies' = Copies
  BY <1>1 DEF Copies
<1>5. \A c \in Copies' : CopyInv(c)'
  <2>1. \A c \in Copies : CopyInv(c)
    BY DEF BranchInv
  <2> QED
    BY <1>1, <1>2, <1>3, <1>4, <2>1, CopyKept
<1> QED
  BY <1>1, <1>2, <1>3, <1>4, <1>5, CopiesStep DEF BranchInv

LEMMA BranchUnchanged ==
    ASSUME BranchInv, UNCHANGED <<stores, manifest, held, forkedAt>>
    PROVE  BranchInv'
BY DEF BranchInv, Copies, CopyInv, ParentsAgree, Main

LEMMA BranchNextInv ==
    ASSUME BranchInv, BranchNext \/ UNCHANGED branchVars
    PROVE  BranchInv'
<1>1. CASE UNCHANGED branchVars
  BY <1>1, BranchUnchanged DEF branchVars
<1>2. CASE BranchNext
  <2>1. PICK m \in Managers :
           \/ OpenManager(m) \/ OpenFirst(m) \/ OpenWrites(m) \/ Publish(m) \/ DropManager(m)
           \/ \E b \in DOMAIN stores :
                 \/ AppendToBranch(m, b)
                 \/ \E lifecycle \in SetTo : SetLifecycle(m, b, lifecycle)
                 \/ \E sequence \in 0..MaxLocal - 1 :
                       \/ ReconstructAt(m, b, sequence)
                       \/ \E lifecycle \in ForkAs : CreateFork(m, b, sequence, lifecycle)
    BY <1>2, Zenon DEF BranchNext
  <2>2. CASE OpenManager(m) \/ OpenFirst(m) \/ OpenWrites(m) \/ Publish(m) \/ DropManager(m)
    BY <2>2, OpenInv
  <2>3. ASSUME NEW b \in DOMAIN stores, AppendToBranch(m, b) PROVE BranchInv'
    BY <2>3, AppendToBranchInv
  <2>4. ASSUME NEW b, NEW lifecycle \in SetTo, SetLifecycle(m, b, lifecycle) PROVE BranchInv'
    BY <2>4, SetLifecycleInv
  <2>5. ASSUME NEW b, NEW sequence, ReconstructAt(m, b, sequence) PROVE BranchInv'
    BY <2>5, BranchUnchanged DEF ReconstructAt
  <2>6. ASSUME NEW b \in DOMAIN stores, NEW sequence \in 0..MaxLocal - 1,
               NEW lifecycle \in ForkAs, CreateFork(m, b, sequence, lifecycle)
        PROVE  BranchInv'
    <3>1. sequence \in 0..MaxLocal
      BY BranchAssumption
    <3> QED
      BY <2>6, <3>1, CreateForkInv
  <2> QED
    BY <2>1, <2>2, <2>3, <2>4, <2>5, <2>6
<1> QED
  BY <1>1, <1>2

-----------------------------------------------------------------------------
(* resolve_timeline walks up strictly older branches, so that what it       *)
(* computes is well defined, and depends on the parents alone.              *)

WalkStep(copy, b, walk) ==
    [fork \in Option(0..MaxLocal) |->
        IF copy[b].parent = None THEN <<Segment(b, 0, fork)>>
        ELSE Append(walk[Unwrap(copy[b].parent)[1]][Some(Unwrap(copy[b].parent)[2])],
                    Segment(b, Unwrap(copy[b].parent)[2] + 1, fork))]

IsWalk(copy, S, walk) == walk = [b \in S |-> WalkStep(copy, b, walk)]

LEMMA WalkStepDepends ==
    ASSUME NEW c, NEW d, NEW b, NEW v, NEW w, c[b].parent = d[b].parent,
           c[b].parent # None =>
               v[Unwrap(c[b].parent)[1]] = w[Unwrap(c[b].parent)[1]]
    PROVE  WalkStep(c, b, v) = WalkStep(d, b, w)
<1> HIDE DEF None
<1>1. CASE c[b].parent = None
  BY <1>1 DEF WalkStep
<1>2. CASE c[b].parent # None
  BY <1>2 DEF WalkStep
<1> QED
  BY <1>1, <1>2

LEMMA ParentFacts ==
    ASSUME NEW c, CopyInv(c), NEW b \in DOMAIN c, c[b].parent # None
    PROVE  Unwrap(c[b].parent)[1] \in DOMAIN c /\ Unwrap(c[b].parent)[1] < b
<1>1. Unwrap(c[b].parent) \in c[b].parent
  BY DEF Unwrap, None
<1> QED
  BY <1>1 DEF CopyInv

LEMMA WalkExists ==
    ASSUME BranchInv, NEW c, CopyInv(c)
    PROVE  \E w : IsWalk(c, DOMAIN c, w)
<1> DEFINE Below(n) == {b \in DOMAIN c : b < n}
           T == {n \in Nat : \E w : IsWalk(c, Below(n), w)}
<1>0. DOMAIN c \subseteq 0..MaxBranch /\ MaxBranch \in Nat
  BY BranchAssumption DEF BranchInv, CopyInv
<1>1. 0 \in T
  <2>1. Below(0) = {}
    BY <1>0
  <2>2. PICK w : w = [b \in {} |-> 0]
    OBVIOUS
  <2>3. IsWalk(c, {}, w)
    BY <2>2 DEF IsWalk
  <2> QED
    BY <2>1, <2>3
<1>2. ASSUME NEW n \in Nat, n \in T PROVE n + 1 \in T
  <2>1. PICK w : IsWalk(c, Below(n), w)
    BY <1>2
  <2>2. PICK v : v = [b \in Below(n + 1) |-> WalkStep(c, b, w)]
    OBVIOUS
  <2>3. ASSUME NEW b \in Below(n) PROVE v[b] = w[b]
    <3>1. b \in Below(n + 1)
      BY <1>0
    <3>2. w[b] = WalkStep(c, b, w)
      BY <2>1 DEF IsWalk
    <3> QED
      BY <2>2, <3>1, <3>2
  <2>4. ASSUME NEW b \in Below(n + 1) PROVE WalkStep(c, b, w) = WalkStep(c, b, v)
    <3>1. ASSUME c[b].parent # None
          PROVE  Unwrap(c[b].parent)[1] \in Below(n)
      <4>1. PICK p : p = Unwrap(c[b].parent)[1]
        OBVIOUS
      <4>2. p \in DOMAIN c /\ p < b
        BY <3>1, <4>1, ParentFacts
      <4>3. b \in Nat /\ p \in Nat /\ b < n + 1
        BY <1>0, <4>2
      <4>4. p < n
        BY <4>2, <4>3
      <4> QED
        BY <4>1, <4>2, <4>4
    <3>2. c[b].parent # None =>
              w[Unwrap(c[b].parent)[1]] = v[Unwrap(c[b].parent)[1]]
      BY <2>3, <3>1
    <3> QED
      BY <3>2, WalkStepDepends
  <2>5. IsWalk(c, Below(n + 1), v)
    <3>1. [b \in Below(n + 1) |-> WalkStep(c, b, w)] = [b \in Below(n + 1) |-> WalkStep(c, b, v)]
      BY <2>4, Zenon
    <3> QED
      BY <2>2, <3>1 DEF IsWalk
  <2> QED
    BY <2>5
<1>3. \A n \in Nat : n \in T
  <2> HIDE DEF T
  <2> QED
    BY <1>1, <1>2, NaturalSet
<1>4. MaxBranch + 1 \in T
  <2> HIDE DEF T
  <2> QED
    BY <1>0, <1>3
<1>5. Below(MaxBranch + 1) = DOMAIN c
  <2>1. ASSUME NEW b \in DOMAIN c PROVE b < MaxBranch + 1
    BY <1>0
  <2> QED
    BY <2>1
<1> QED
  BY <1>4, <1>5

LEMMA ResolveWalks ==
    ASSUME BranchInv, NEW c, CopyInv(c)
    PROVE  \E w : IsWalk(c, DOMAIN c, w) /\ \A b \in DOMAIN c : Resolve(c, b) = w[b][None]
<1>1. \E w : IsWalk(c, DOMAIN c, w)
  BY WalkExists
<1>2. PICK w : w = CHOOSE r : IsWalk(c, DOMAIN c, r)
  OBVIOUS
<1>3. IsWalk(c, DOMAIN c, w)
  BY <1>1, <1>2
<1>4. \A b \in DOMAIN c : Resolve(c, b) = w[b][None]
  BY <1>2 DEF Resolve, IsWalk, WalkStep
<1> QED
  BY <1>3, <1>4

LEMMA WalksAgree ==
    ASSUME BranchInv, NEW c, CopyInv(c), NEW d, CopyInv(d), ParentsAgree(c, d),
           NEW v, IsWalk(c, DOMAIN c, v), NEW w, IsWalk(d, DOMAIN d, w),
           NEW x \in DOMAIN c \intersect DOMAIN d
    PROVE  v[x] = w[x]
<1> DEFINE T == {n \in Nat : \A b \in DOMAIN c \intersect DOMAIN d : b < n => v[b] = w[b]}
<1>0. DOMAIN c \subseteq 0..MaxBranch /\ MaxBranch \in Nat
  BY BranchAssumption DEF BranchInv, CopyInv
<1>1. 0 \in T
  BY <1>0
<1>2. ASSUME NEW n \in Nat, n \in T PROVE n + 1 \in T
  <2> SUFFICES ASSUME NEW b \in DOMAIN c \intersect DOMAIN d, b < n + 1 PROVE v[b] = w[b]
    OBVIOUS
  <2>1. c[b].parent = d[b].parent
    BY DEF ParentsAgree
  <2>2. ASSUME c[b].parent # None
        PROVE  v[Unwrap(c[b].parent)[1]] = w[Unwrap(c[b].parent)[1]]
    <3>1. PICK p : p = Unwrap(c[b].parent)[1]
      OBVIOUS
    <3>2. p \in DOMAIN c /\ p < b
      BY <2>2, <3>1, ParentFacts
    <3>3. p \in DOMAIN d
      BY <2>1, <2>2, <3>1, ParentFacts
    <3>4. p < n
      BY <1>0, <3>2
    <3>5. v[p] = w[p]
      BY <1>2, <3>2, <3>3, <3>4
    <3> QED
      BY <3>1, <3>5
  <2>3. v[b] = WalkStep(c, b, v) /\ w[b] = WalkStep(d, b, w)
    BY DEF IsWalk
  <2>4. WalkStep(c, b, v) = WalkStep(d, b, w)
    BY <2>1, <2>2, WalkStepDepends
  <2> QED
    BY <2>3, <2>4
<1>3. \A n \in Nat : n \in T
  <2> HIDE DEF T
  <2> QED
    BY <1>1, <1>2, NaturalSet
<1>4. x \in Nat /\ x + 1 \in Nat /\ x < x + 1
  BY <1>0
<1>5. x + 1 \in T
  BY <1>3, <1>4
<1> QED
  BY <1>4, <1>5

LEMMA BranchInvImplies ==
    ASSUME BranchInv
    PROVE  TimelinesAgree /\ InheritedPastIsFixed
<1>1. ASSUME NEW c \in Copies, NEW d \in Copies, NEW b \in DOMAIN c \intersect DOMAIN d
      PROVE  Resolve(c, b) = Resolve(d, b) /\ b \in DOMAIN stores
  <2>1. CopyInv(c) /\ CopyInv(d) /\ ParentsAgree(c, d)
    BY DEF BranchInv
  <2>2. PICK v : IsWalk(c, DOMAIN c, v) /\ \A x \in DOMAIN c : Resolve(c, x) = v[x][None]
    BY <2>1, ResolveWalks
  <2>3. PICK w : IsWalk(d, DOMAIN d, w) /\ \A x \in DOMAIN d : Resolve(d, x) = w[x][None]
    BY <2>1, ResolveWalks
  <2>4. v[b] = w[b]
    BY <2>1, <2>2, <2>3, WalksAgree
  <2>5. b \in DOMAIN stores
    BY <2>1 DEF CopyInv
  <2> QED
    BY <2>2, <2>3, <2>4, <2>5
<1>2. ASSUME NEW c \in Copies, NEW b \in DOMAIN c, NEW up \in c[b].parent, forkedAt[b] > 0
      PROVE  0..up[2] \intersect 0..stores[up[1]] - 1 = 0..up[2] \intersect 0..forkedAt[b] - 1
  <2>1. CopyInv(c)
    BY DEF BranchInv
  <2>2. /\ b # Main /\ b \in DOMAIN stores /\ up[1] \in DOMAIN stores
        /\ up[2] \in 0..MaxLocal
        /\ forkedAt[b] <= stores[up[1]] /\ up[2] < forkedAt[b]
    BY <1>2, <2>1 DEF CopyInv
  <2>3. stores[up[1]] \in Nat /\ forkedAt[b] \in Nat /\ up[2] \in Nat
    BY <2>2, BranchAssumption DEF BranchInv
  <2>4. PICK f, s, t : f = forkedAt[b] /\ s = stores[up[1]] /\ t = up[2]
    OBVIOUS
  <2>5. f \in Nat /\ s \in Nat /\ t \in Nat /\ f <= s /\ t < f
    BY <2>2, <2>3, <2>4
  <2>6. 0..t \intersect 0..s - 1 = 0..t \intersect 0..f - 1
    BY <2>5
  <2> QED
    BY <2>4, <2>6
<1> QED
  BY <1>1, <1>2 DEF TimelinesAgree, InheritedPastIsFixed

-----------------------------------------------------------------------------
(* Replay.                                                                  *)

RunStep(start, first, events, i, run) ==
    IF i = 0 THEN start
    ELSE [ApplyEvent(run[i - 1], events[i]) EXCEPT !.sequence = first + (i - 1)]

IsRun(start, first, events, n, run) ==
    run = [i \in 0..n |-> RunStep(start, first, events, i, run)]

LEMMA RunExists ==
    ASSUME NEW start, NEW first, NEW events, NEW m \in Nat
    PROVE  \E run : IsRun(start, first, events, m, run)
<1> DEFINE T == {n \in Nat : \E run : IsRun(start, first, events, n, run)}
<1>1. 0 \in T
  <2>1. PICK run : run = [i \in 0..0 |-> start]
    OBVIOUS
  <2>2. \A i \in 0..0 : RunStep(start, first, events, i, run) = start
    BY DEF RunStep
  <2>3. IsRun(start, first, events, 0, run)
    BY <2>1, <2>2 DEF IsRun
  <2> QED
    BY <2>3
<1>2. ASSUME NEW n \in Nat, n \in T PROVE n + 1 \in T
  <2>1. PICK w : IsRun(start, first, events, n, w)
    BY <1>2
  <2>2. PICK v : v = [i \in 0..n + 1 |-> RunStep(start, first, events, i, w)]
    OBVIOUS
  <2>3. ASSUME NEW i \in 0..n PROVE v[i] = w[i]
    BY <2>1, <2>2 DEF IsRun
  <2>4. ASSUME NEW i \in 0..n + 1
        PROVE  RunStep(start, first, events, i, w) = RunStep(start, first, events, i, v)
    <3>1. i # 0 => v[i - 1] = w[i - 1]
      BY <2>3
    <3> QED
      BY <3>1 DEF RunStep
  <2>5. [i \in 0..n + 1 |-> RunStep(start, first, events, i, w)]
          = [i \in 0..n + 1 |-> RunStep(start, first, events, i, v)]
    BY <2>4, Zenon
  <2>6. IsRun(start, first, events, n + 1, v)
    BY <2>2, <2>5 DEF IsRun
  <2> QED
    BY <2>6
<1> HIDE DEF T
<1>3. m \in T
  BY <1>1, <1>2, NaturalSet
<1> QED
  BY <1>3 DEF T

RunOf(start, first, events, n) == CHOOSE run : IsRun(start, first, events, n, run)

LEMMA ApplyAllRuns ==
    ASSUME NEW start, NEW first, NEW events, NEW n \in Nat, Len(events) = n
    PROVE  /\ IsRun(start, first, events, n, RunOf(start, first, events, n))
           /\ ApplyAll(start, first, events) = RunOf(start, first, events, n)[n]
<1>1. \E run : IsRun(start, first, events, n, run)
  BY RunExists
<1>2. IsRun(start, first, events, n, RunOf(start, first, events, n))
  BY <1>1 DEF RunOf
<1>3. ApplyAll(start, first, events) = RunOf(start, first, events, n)[n]
  BY DEF ApplyAll, IsRun, RunStep, RunOf
<1> QED
  BY <1>2, <1>3

(* A run taken up where another stands goes on as the other does.          *)
Continues(v, n, events, w, m, rest, k) ==
    /\ n \in Nat /\ m \in Nat /\ k \in Nat /\ k + m <= n
    /\ \A i \in 1..n : v[i] = [ApplyEvent(v[i - 1], events[i]) EXCEPT !.sequence = i - 1]
    /\ \A i \in 1..m : w[i] = [ApplyEvent(w[i - 1], rest[i]) EXCEPT !.sequence = k + (i - 1)]
    /\ w[0] = v[k]
    /\ \A i \in 1..m : rest[i] = events[k + i]

LEMMA RunResumes ==
    ASSUME NEW v, NEW n, NEW events, NEW w, NEW m, NEW rest, NEW k,
           Continues(v, n, events, w, m, rest, k)
    PROVE  w[m] = v[k + m]
<1>0. n \in Nat /\ m \in Nat /\ k \in Nat /\ k + m <= n
  BY DEF Continues
<1> DEFINE T == {j \in Nat : j <= m => w[j] = v[k + j]}
<1>1. 0 \in T
  <2>1. w[0] = v[k] /\ k + 0 = k
    BY <1>0 DEF Continues
  <2> QED
    BY <2>1
<1>2. ASSUME NEW j \in Nat, j \in T PROVE j + 1 \in T
  <2> SUFFICES ASSUME j + 1 <= m PROVE w[j + 1] = v[k + (j + 1)]
    OBVIOUS
  <2>1. (j + 1) - 1 = j /\ j + 1 \in 1..m
    BY <1>0
  <2>2. PICK e : e = k + (j + 1)
    OBVIOUS
  <2>3. e \in 1..n /\ e - 1 = k + j
    BY <1>0, <2>1, <2>2
  <2>4. w[j + 1] = [ApplyEvent(w[j], rest[j + 1]) EXCEPT !.sequence = k + j]
    BY <2>1 DEF Continues
  <2>5. v[e] = [ApplyEvent(v[k + j], events[e]) EXCEPT !.sequence = k + j]
    BY <2>3 DEF Continues
  <2>6. rest[j + 1] = events[e]
    BY <2>1, <2>2 DEF Continues
  <2>7. w[j] = v[k + j]
    BY <1>0, <1>2
  <2> QED
    BY <2>2, <2>4, <2>5, <2>6, <2>7
<1> HIDE DEF T
<1>3. m \in T
  BY <1>0, <1>1, <1>2, NaturalSet
<1> QED
  BY <1>0, <1>3 DEF T

(* The steps of a run, one at a time.                                      *)
LEMMA RunSteps ==
    ASSUME NEW start, NEW first \in Nat, NEW events, NEW n \in Nat, NEW v,
           IsRun(start, first, events, n, v)
    PROVE  /\ v[0] = start
           /\ \A i \in 1..n : v[i] = [ApplyEvent(v[i - 1], events[i]) EXCEPT !.sequence = first + (i - 1)]
<1>1. \A i \in 0..n : v[i] = RunStep(start, first, events, i, v)
  BY DEF IsRun
<1>2. 0 \in 0..n
  OBVIOUS
<1>3. v[0] = start
  BY <1>1, <1>2 DEF RunStep
<1>4. ASSUME NEW i \in 1..n
      PROVE  v[i] = [ApplyEvent(v[i - 1], events[i]) EXCEPT !.sequence = first + (i - 1)]
  <2>1. i \in 0..n /\ i # 0
    OBVIOUS
  <2> QED
    BY <1>1, <2>1 DEF RunStep
<1> QED
  BY <1>3, <1>4

(* What a run holds stays a record of the engine.                          *)
Fields == {"state", "steps", "sequence", "failed"}

LEMMA ApplyEventFields ==
    ASSUME NEW r, NEW event, DOMAIN r = Fields, reducer \in Reducers
    PROVE  DOMAIN ApplyEvent(r, event) = Fields
<1>1. DOMAIN RawApply(r, event) = Fields
  BY DEF RawApply
<1>2. DOMAIN SchemaApply(r, event) = Fields
  <2> DEFINE known == event.entity \in DOMAIN r.state
             old == IF known THEN r.state[event.entity] ELSE <<event.schema, <<>>>>
             fields == CHOOSE f \in event.mutation : TRUE
  <2>1. \/ SchemaApply(r, event) = [r EXCEPT !.failed = TRUE]
        \/ SchemaApply(r, event) = [r EXCEPT !.state = [e \in DOMAIN @ \ {event.entity} |-> @[e]]]
        \/ SchemaApply(r, event) = [r EXCEPT !.state = Put(@, event.entity, <<old[1], fields @@ old[2]>>)]
    BY Zenon DEF SchemaApply
  <2> HIDE DEF known, old, fields
  <2> QED
    BY <2>1
<1>3. DOMAIN DrawingApply(r, event) = Fields
  BY DEF DrawingApply
<1> HIDE DEF RawApply, SchemaApply, DrawingApply
<1> QED
  BY <1>1, <1>2, <1>3 DEF ApplyEvent, Reducers

LEMMA RunFields ==
    ASSUME reducer \in Reducers, NEW start, DOMAIN start = Fields, NEW first, NEW events,
           NEW n \in Nat, NEW v, IsRun(start, first, events, n, v)
    PROVE  \A i \in 0..n : /\ DOMAIN v[i] = Fields
                           /\ i > 0 => v[i].sequence = first + (i - 1)
<1> DEFINE T == {j \in Nat : j <= n => DOMAIN v[j] = Fields}
<1>1. 0 \in T
  BY DEF IsRun, RunStep
<1>2. ASSUME NEW j \in 1..n, DOMAIN v[j - 1] = Fields
      PROVE  DOMAIN v[j] = Fields /\ v[j].sequence = first + (j - 1)
  <2>1. PICK x : x = ApplyEvent(v[j - 1], events[j])
    OBVIOUS
  <2>2. DOMAIN x = Fields
    BY <1>2, <2>1, ApplyEventFields
  <2>3. v[j] = RunStep(start, first, events, j, v)
    BY DEF IsRun
  <2>4. v[j] = [x EXCEPT !.sequence = first + (j - 1)]
    BY <2>1, <2>3 DEF RunStep
  <2> QED
    BY <2>2, <2>4 DEF Fields
<1>3. ASSUME NEW j \in Nat, j \in T PROVE j + 1 \in T
  <2> SUFFICES ASSUME j + 1 <= n PROVE DOMAIN v[j + 1] = Fields
    OBVIOUS
  <2>1. j + 1 \in 1..n /\ (j + 1) - 1 = j /\ DOMAIN v[j] = Fields
    BY <1>3
  <2> QED
    BY <1>2, <2>1
<1>4. \A j \in Nat : j \in T
  <2> HIDE DEF T
  <2> QED
    BY <1>1, <1>3, NaturalSet
<1> QED
  BY <1>2, <1>4

(* The reconstruction from the beginning, up to a sequence.                *)
Full(s) == ApplyAll(Blank, 0, SubSeq(log, 1, s + 1))

(* Where a reconstruction of a target may end: at the target, or a whole   *)
(* page past the beginning and past every checkpoint before the target.    *)
Reaches(target, reached) ==
    \/ reached = target
    \/ /\ ScanBudget - 1 <= reached /\ reached < target
       /\ \A s \in DOMAIN checkpoints : s <= target => s + ScanBudget <= reached

(* A checkpoint holds what a reconstruction from the beginning would, and  *)
(* is named after a sequence the directory has.                            *)
ReplayInv ==
    /\ reducer \in Reducers
    /\ log \in Seq(EventsIn)
    /\ \A s \in DOMAIN checkpoints : s \in 0..Len(log) - 1 /\ checkpoints[s] = Full(s)
    /\ \A a \in replayed : /\ a.result.sequence \in 0..Len(log) - 1
                           /\ Reaches(a.target, a.result.sequence)
                           /\ a.result = Full(a.result.sequence)

LEMMA LogPart ==
    ASSUME log \in Seq(EventsIn), NEW m \in Nat, NEW n \in Nat, m <= n, n <= Len(log)
    PROVE  /\ Len(SubSeq(log, m + 1, n)) = n - m
           /\ \A i \in 1..n - m : SubSeq(log, m + 1, n)[i] = log[m + i]
<1>1. \A i \in m + 1..n : log[i] \in EventsIn
  OBVIOUS
<1>2. m + 1 \in Int /\ n \in Int
  OBVIOUS
<1>3. PICK piece : piece = SubSeq(log, m + 1, n)
  OBVIOUS
<1>4. /\ Len(piece) = IF m + 1 <= n THEN n - (m + 1) + 1 ELSE 0
      /\ \A i \in 1..n - (m + 1) + 1 : piece[i] = log[(m + 1) + i - 1]
  BY <1>1, <1>2, <1>3, SubSeqProperties
<1>5. n - (m + 1) + 1 = n - m /\ \A i \in Int : (m + 1) + i - 1 = m + i
  OBVIOUS
<1>6. Len(piece) = n - m
  BY <1>4
<1>7. \A i \in 1..n - m : piece[i] = log[m + i]
  BY <1>4, <1>5
<1> QED
  BY <1>3, <1>6, <1>7

LEMMA FullSequence ==
    ASSUME reducer \in Reducers, log \in Seq(EventsIn), NEW s \in 0..Len(log) - 1
    PROVE  Full(s).sequence = s
<1>1. Len(SubSeq(log, 1, s + 1)) = s + 1
  <2>1. Len(SubSeq(log, 0 + 1, s + 1)) = (s + 1) - 0
    BY LogPart
  <2> QED
    BY <2>1
<1>2. PICK events : events = SubSeq(log, 1, s + 1)
  OBVIOUS
<1>3. PICK v : IsRun(Blank, 0, events, s + 1, v) /\ Full(s) = v[s + 1]
  <2>1. Len(events) = s + 1 /\ s + 1 \in Nat /\ Full(s) = ApplyAll(Blank, 0, events)
    BY <1>1, <1>2 DEF Full
  <2>2. \E v : IsRun(Blank, 0, events, s + 1, v) /\ ApplyAll(Blank, 0, events) = v[s + 1]
    BY <2>1, ApplyAllRuns
  <2> QED
    BY <2>1, <2>2
<1>4. DOMAIN Blank = Fields
  BY DEF Blank, Fields
<1>5. s + 1 \in 0..s + 1 /\ s + 1 > 0 /\ s + 1 \in Nat /\ 0 + ((s + 1) - 1) = s
  OBVIOUS
<1>6. v[s + 1].sequence = 0 + ((s + 1) - 1)
  BY <1>3, <1>4, <1>5, RunFields
<1> QED
  BY <1>3, <1>5, <1>6

(* Resuming at a full reconstruction gives a full reconstruction.          *)
LEMMA FullResumes ==
    ASSUME log \in Seq(EventsIn), NEW next \in Nat, NEW last \in Nat,
           next <= last + 1, last < Len(log), NEW start,
           start = IF next = 0 THEN Blank ELSE Full(next - 1)
    PROVE  ApplyAll(start, next, SubSeq(log, next + 1, last + 1)) = Full(last)
<1> DEFINE m == (last + 1) - next
<1>0. m \in Nat /\ next + m = last + 1 /\ next \in 0..last + 1 /\ last + 1 \in Nat
  OBVIOUS
<1>1. PICK all, rest : all = SubSeq(log, 1, last + 1) /\ rest = SubSeq(log, next + 1, last + 1)
  OBVIOUS
<1>2. Len(all) = last + 1 /\ \A i \in 1..last + 1 : all[i] = log[i]
  <2>1. /\ Len(SubSeq(log, 0 + 1, last + 1)) = (last + 1) - 0
        /\ \A i \in 1..(last + 1) - 0 : SubSeq(log, 0 + 1, last + 1)[i] = log[0 + i]
    BY LogPart
  <2>2. SubSeq(log, 0 + 1, last + 1) = all /\ (last + 1) - 0 = last + 1
    BY <1>1
  <2>3. \A i \in 1..last + 1 : 0 + i = i
    OBVIOUS
  <2> QED
    BY <2>1, <2>2, <2>3
<1>3. Len(rest) = m /\ \A i \in 1..m : rest[i] = log[next + i]
  BY <1>1, LogPart
<1>4. PICK v : v = RunOf(Blank, 0, all, last + 1)
  OBVIOUS
<1>5. IsRun(Blank, 0, all, last + 1, v) /\ Full(last) = v[last + 1]
  <2>1. Full(last) = ApplyAll(Blank, 0, all)
    BY <1>1 DEF Full
  <2> QED
    BY <1>0, <1>2, <1>4, <2>1, ApplyAllRuns
<1>6. v[0] = Blank /\ \A i \in 1..last + 1 :
             v[i] = [ApplyEvent(v[i - 1], all[i]) EXCEPT !.sequence = i - 1]
  <2>1. v[0] = Blank /\ \A i \in 1..last + 1 :
             v[i] = [ApplyEvent(v[i - 1], all[i]) EXCEPT !.sequence = 0 + (i - 1)]
    BY <1>0, <1>5, RunSteps
  <2>2. \A i \in 1..last + 1 : 0 + (i - 1) = i - 1
    OBVIOUS
  <2> QED
    BY <2>1, <2>2
<1>7. start = v[next]
  <2>0. \A i \in 1..last + 1 :
             v[i] = [ApplyEvent(v[i - 1], all[i]) EXCEPT !.sequence = i - 1]
    BY <1>6
  <2>1. v[0] = Blank
    BY <1>6
  <2>2. CASE next = 0
    BY <2>1, <2>2
  <2>3. CASE next # 0
    <3>1. PICK piece : piece = SubSeq(log, 1, next)
      OBVIOUS
    <3>2. Len(piece) = next /\ \A i \in 1..next : piece[i] = log[i]
      <4>1. /\ Len(SubSeq(log, 0 + 1, next)) = next - 0
            /\ \A i \in 1..next - 0 : SubSeq(log, 0 + 1, next)[i] = log[0 + i]
        BY LogPart
      <4>2. SubSeq(log, 0 + 1, next) = piece /\ next - 0 = next
        BY <3>1
      <4>3. \A i \in 1..next : 0 + i = i
        OBVIOUS
      <4> QED
        BY <4>1, <4>2, <4>3
    <3>3. Full(next - 1) = ApplyAll(Blank, 0, piece)
      <4>1. (next - 1) + 1 = next
        OBVIOUS
      <4> QED
        BY <3>1, <4>1 DEF Full
    <3>4. PICK w : w = RunOf(Blank, 0, piece, next)
      OBVIOUS
    <3>5. IsRun(Blank, 0, piece, next, w) /\ Full(next - 1) = w[next]
      BY <3>2, <3>3, <3>4, ApplyAllRuns
    <3>6. Continues(v, last + 1, all, w, next, piece, 0)
      <4>1. w[0] = Blank /\ \A i \in 1..next :
                 w[i] = [ApplyEvent(w[i - 1], piece[i]) EXCEPT !.sequence = 0 + (i - 1)]
        BY <3>5, RunSteps
      <4>2. \A i \in 1..next : piece[i] = all[0 + i]
        BY <1>0, <1>2, <3>2
      <4>3. last + 1 \in Nat /\ next \in Nat /\ 0 \in Nat /\ 0 + next <= last + 1
        BY <1>0
      <4>4. w[0] = v[0]
        BY <2>1, <4>1
      <4> QED
        BY <2>0, <4>1, <4>2, <4>3, <4>4, Zenon DEF Continues
    <3>7. w[next] = v[0 + next] /\ 0 + next = next
      BY <3>6, RunResumes
    <3> QED
      BY <2>3, <3>5, <3>7
  <2> QED
    BY <2>2, <2>3
<1> HIDE DEF m
<1>8. PICK w : w = RunOf(start, next, rest, m)
  OBVIOUS
<1>9. IsRun(start, next, rest, m, w) /\ ApplyAll(start, next, rest) = w[m]
  BY <1>0, <1>3, <1>8, ApplyAllRuns
<1>10. Continues(v, last + 1, all, w, m, rest, next)
  <2>1. w[0] = start /\ \A i \in 1..m :
             w[i] = [ApplyEvent(w[i - 1], rest[i]) EXCEPT !.sequence = next + (i - 1)]
    BY <1>0, <1>9, RunSteps
  <2>2. \A i \in 1..m : rest[i] = all[next + i]
    BY <1>0, <1>2, <1>3
  <2>3. \A i \in 1..last + 1 :
             v[i] = [ApplyEvent(v[i - 1], all[i]) EXCEPT !.sequence = i - 1]
    BY <1>6
  <2>4. last + 1 \in Nat /\ m \in Nat /\ next \in Nat /\ next + m <= last + 1
    BY <1>0
  <2>5. w[0] = v[next]
    BY <1>7, <2>1
  <2> QED
    BY <2>1, <2>2, <2>3, <2>4, <2>5, Zenon DEF Continues
<1>11. w[m] = v[next + m]
  BY <1>10, RunResumes
<1> QED
  BY <1>0, <1>1, <1>5, <1>9, <1>11

(* find_latest finds a checkpoint if there is one, and none is later.      *)
LEMMA LatestFound ==
    ASSUME ReplayInv, NEW target \in Nat, NEW s \in DOMAIN checkpoints, s <= target
    PROVE  \E t \in Latest(target) : s <= t
<1>1. PICK T : T = {target - t : t \in {u \in DOMAIN checkpoints : u <= target}}
  OBVIOUS
<1>2. \A t \in DOMAIN checkpoints : t \in Nat
  BY DEF ReplayInv
<1>3. T \subseteq Nat /\ target - s \in T
  BY <1>1, <1>2
<1>4. PICK d \in T : \A e \in T : d <= e
  BY <1>3, LeastNatural
<1>5. PICK t \in DOMAIN checkpoints : t <= target /\ d = target - t
  BY <1>1, <1>4
<1>6. ASSUME NEW u \in DOMAIN checkpoints, u <= target PROVE u <= t
  <2>1. target - u \in T
    BY <1>1, <1>6
  <2>2. target - t <= target - u
    BY <1>4, <1>5, <2>1
  <2> QED
    BY <1>2, <1>5, <1>6, <2>2
<1> QED
  BY <1>5, <1>6 DEF Latest

LEMMA ResultsAreFull ==
    ASSUME ReplayInv, NEW target \in Nat, NEW r \in Results(target)
    PROVE  /\ r.sequence \in 0..Len(log) - 1
           /\ Reaches(target, r.sequence)
           /\ r = Full(r.sequence)
<1>0. /\ reducer \in Reducers /\ log \in Seq(EventsIn) /\ Len(log) \in Nat
      /\ ScanBudget \in Nat \ {0}
  BY ReplayAssumption DEF ReplayInv
<1>1. PICK start, next, last :
         /\ start = IF Latest(target) = {} THEN Blank
                    ELSE checkpoints[CHOOSE s \in Latest(target) : TRUE]
         /\ next = IF Latest(target) = {} THEN 0 ELSE ReplayFrom(CHOOSE s \in Latest(target) : TRUE)
         /\ last = IF target - next + 1 > ScanBudget THEN next + ScanBudget - 1 ELSE target
  OBVIOUS
<1>2. /\ target < Len(log)
      /\ r = ApplyAll(start, next, SubSeq(log, next + 1, last + 1))
  <2>1. /\ ~(target >= Len(log))
        /\ r \in {ApplyAll(start, next, SubSeq(log, next + 1, last + 1))}
    BY <1>1 DEF Results
  <2> QED
    BY <1>0, <2>1
<1>3. next \in Nat /\ next <= target + 1 /\ start = IF next = 0 THEN Blank ELSE Full(next - 1)
  <2>1. CASE Latest(target) = {}
    BY <1>1, <2>1
  <2>2. CASE Latest(target) # {}
    <3>1. PICK s : s = CHOOSE t \in Latest(target) : TRUE
      OBVIOUS
    <3>2. s \in Latest(target)
      BY <2>2, <3>1
    <3>3. s \in DOMAIN checkpoints /\ s <= target
      BY <3>2 DEF Latest
    <3>4. s \in 0..Len(log) - 1 /\ checkpoints[s] = Full(s)
      BY <3>3 DEF ReplayInv
    <3>5. next = s + 1 /\ start = Full(s)
      BY <1>1, <2>2, <3>1, <3>4 DEF ReplayFrom
    <3>6. next - 1 = s /\ next # 0 /\ next \in Nat /\ next <= target + 1
      BY <1>0, <3>3, <3>4, <3>5
    <3> QED
      BY <3>5, <3>6
  <2> QED
    BY <2>1, <2>2
<1>4. last \in Nat /\ next <= last + 1 /\ last <= target
  <2>1. CASE target - next + 1 > ScanBudget
    <3>1. last = next + ScanBudget - 1
      BY <1>1, <2>1
    <3> QED
      BY <1>0, <1>3, <2>1, <3>1
  <2>2. CASE ~(target - next + 1 > ScanBudget)
    <3>1. last = target
      BY <1>1, <2>2
    <3> QED
      BY <1>3, <3>1
  <2> QED
    BY <2>1, <2>2
<1>5. last < Len(log) /\ last \in 0..Len(log) - 1
  BY <1>0, <1>2, <1>4
<1>6. r = Full(last)
  BY <1>0, <1>2, <1>3, <1>4, <1>5, FullResumes
<1>7. r.sequence = last
  BY <1>0, <1>5, <1>6, FullSequence
<1>8. Reaches(target, last)
  <2>1. CASE last = target
    BY <2>1 DEF Reaches
  <2>2. CASE last # target
    <3>1. last = next + ScanBudget - 1 /\ last < target
      BY <1>1, <1>4, <2>2
    <3>2. ASSUME NEW s \in DOMAIN checkpoints, s <= target PROVE s + ScanBudget <= last
      <4>1. s \in Nat
        BY DEF ReplayInv
      <4>2. PICK t \in Latest(target) : s <= t
        BY <3>2, LatestFound
      <4>3. PICK c : c = CHOOSE x \in Latest(target) : TRUE
        OBVIOUS
      <4>4. c \in Latest(target) /\ Latest(target) # {}
        BY <4>2, <4>3
      <4>5. c \in DOMAIN checkpoints /\ s <= c
        BY <3>2, <4>4 DEF Latest
      <4>6. c \in Nat
        BY <4>5 DEF ReplayInv
      <4>7. next = c + 1
        BY <1>1, <4>3, <4>4 DEF ReplayFrom
      <4> QED
        BY <1>0, <3>1, <4>1, <4>5, <4>6, <4>7
    <3>3. ScanBudget - 1 <= last
      BY <1>0, <1>3, <3>1
    <3> QED
      BY <3>1, <3>2, <3>3 DEF Reaches
  <2> QED
    BY <2>1, <2>2
<1> QED
  BY <1>5, <1>6, <1>7, <1>8

(* What has been reconstructed stays the reconstruction as the log grows.  *)
LEMMA FullKept ==
    ASSUME UNCHANGED reducer, log \in Seq(EventsIn), NEW event,
           log' = log \/ log' = Append(log, event),
           NEW CONSTANT s \in 0..Len(log) - 1
    PROVE  Full(s)' = Full(s)
<1>1. SubSeq(log', 1, s + 1) = SubSeq(log, 1, s + 1)
  <2>1. CASE log' = log
    BY <2>1
  <2>2. CASE log' = Append(log, event)
    BY <2>2
  <2> QED
    BY <2>1, <2>2
<1>2. ASSUME NEW r, NEW e PROVE ApplyEvent(r, e)' = ApplyEvent(r, e)
  BY DEF ApplyEvent
<1> QED
  BY <1>1, <1>2 DEF Full, ApplyAll

LEMMA ReplayInitInv == ReplayInit => ReplayInv
<1> SUFFICES ASSUME ReplayInit PROVE ReplayInv
  OBVIOUS
<1>1. reducer \in Reducers /\ log = <<>> /\ checkpoints = <<>> /\ replayed = {}
  BY DEF ReplayInit, None
<1> QED
  BY <1>1 DEF ReplayInv

LEMMA ReplayNextInv ==
    ASSUME ReplayInv, ReplayNext \/ UNCHANGED replayVars
    PROVE  ReplayInv'
<1>0. /\ reducer \in Reducers /\ log \in Seq(EventsIn) /\ Len(log) \in Nat
      /\ \A s \in DOMAIN checkpoints : s \in 0..Len(log) - 1 /\ checkpoints[s] = Full(s)
      /\ \A a \in replayed : /\ a.result.sequence \in 0..Len(log) - 1
                             /\ Reaches(a.target, a.result.sequence)
                             /\ a.result = Full(a.result.sequence)
  BY DEF ReplayInv
<1>1. CASE \E event \in EventsIn : AppendEvent(event) /\ replayed = None
  <2>1. PICK event \in EventsIn : AppendEvent(event) /\ replayed = None
    BY <1>1
  <2>2. log' = Append(log, event) /\ UNCHANGED <<reducer, checkpoints, replayed>> /\ replayed = {}
    BY <2>1 DEF AppendEvent, None
  <2>3. log' \in Seq(EventsIn) /\ Len(log') = Len(log) + 1
    BY <1>0, <2>2
  <2>4. ASSUME NEW s \in DOMAIN checkpoints
        PROVE  s \in 0..Len(log') - 1 /\ checkpoints[s] = Full(s)'
    <3>1. s \in 0..Len(log) - 1 /\ checkpoints[s] = Full(s)
      BY <1>0
    <3>2. Full(s)' = Full(s)
      BY <1>0, <2>2, <3>1, FullKept
    <3> QED
      BY <1>0, <2>3, <3>1, <3>2
  <2> QED
    BY <1>0, <2>2, <2>3, <2>4 DEF ReplayInv
<1>2. CASE UNCHANGED <<reducer, log>>
  <2>1. ASSUME NEW s \in 0..Len(log) - 1 PROVE Full(s)' = Full(s)
    BY <1>0, <1>2, FullKept
  <2>2. CASE \E target \in 0..MaxLog - 1 : Reconstruct(target)
    <3>1. PICK target \in 0..MaxLog - 1 : Reconstruct(target)
      BY <2>2
    <3>2. PICK r \in Results(target) : replayed' = {[target |-> target, result |-> r]}
      BY <3>1 DEF Reconstruct, Some
    <3>3. target \in Nat
      BY ReplayAssumption
    <3>4. r.sequence \in 0..Len(log) - 1 /\ Reaches(target, r.sequence) /\ r = Full(r.sequence)
      BY <3>3, ResultsAreFull
    <3>5. Full(r.sequence)' = Full(r.sequence)
      BY <2>1, <3>4
    <3>6. UNCHANGED checkpoints
      BY <3>1 DEF Reconstruct
    <3>7. Reaches(target, r.sequence)'
      BY <3>4, <3>6 DEF Reaches
    <3> QED
      BY <1>0, <1>2, <2>1, <3>2, <3>4, <3>5, <3>6, <3>7 DEF ReplayInv
  <2>3. CASE replayed = None /\ \E target \in 0..MaxLog - 1 : SaveCheckpoint(target)
    <3>1. PICK target \in 0..MaxLog - 1 : SaveCheckpoint(target)
      BY <2>3
    <3>2. PICK r \in Results(target) : checkpoints' = Put(checkpoints, r.sequence, r)
      BY <3>1 DEF SaveCheckpoint
    <3>3. target \in Nat
      BY ReplayAssumption
    <3>4. r.sequence \in 0..Len(log) - 1 /\ Reaches(target, r.sequence) /\ r = Full(r.sequence)
      BY <3>3, ResultsAreFull
    <3>5. ASSUME NEW s \in DOMAIN checkpoints'
          PROVE  s \in 0..Len(log) - 1 /\ checkpoints'[s] = Full(s)
      BY <1>0, <3>2, <3>4 DEF Put
    <3>6. replayed' = {}
      BY <2>3, <3>1 DEF SaveCheckpoint, None
    <3> QED
      BY <1>0, <1>2, <2>1, <3>5, <3>6 DEF ReplayInv
  <2>4. CASE UNCHANGED <<checkpoints, replayed>>
    BY <1>0, <1>2, <2>1, <2>4 DEF ReplayInv, Reaches
  <2>5. \/ \E event \in EventsIn : AppendEvent(event)
        \/ \E target \in 0..MaxLog - 1 : Reconstruct(target)
        \/ replayed = None /\ \E target \in 0..MaxLog - 1 : SaveCheckpoint(target)
        \/ UNCHANGED replayVars
    BY DEF ReplayNext
  <2>6. ASSUME NEW event, AppendEvent(event) PROVE UNCHANGED <<checkpoints, replayed>>
    BY <2>6 DEF AppendEvent
  <2> QED
    BY <2>2, <2>3, <2>4, <2>5, <2>6 DEF replayVars
<1>3. \/ \E event \in EventsIn : AppendEvent(event) /\ replayed = None
      \/ UNCHANGED <<reducer, log>>
  BY DEF ReplayNext, Reconstruct, SaveCheckpoint, replayVars
<1> QED
  BY <1>1, <1>2, <1>3

LEMMA ReplayInvImplies ==
    ASSUME ReplayInv
    PROVE  ReplayIsExact
BY DEF ReplayInv, ReplayIsExact, Reaches, Full

-----------------------------------------------------------------------------
(* Backups.                                                                 *)

(* A directory that has all it speaks of: what the WAL has lost is sealed, *)
(* and what is sealed has its segment.                                     *)
Whole(dir) ==
    /\ EventsWal \in DOMAIN dir
    /\ dir[EventsWal].first \in Nat /\ dir[EventsWal].next \in Nat
    /\ dir[EventsWal].first <= dir[EventsWal].next
    /\ SegmentManifest(dir).sealed \subseteq DOMAIN dir
    /\ 0..dir[EventsWal].first - 1 \subseteq SegmentManifest(dir).sealed

(* The running store is whole at every moment, and its manifest is behind  *)
(* the WAL while retire_wal is between its two writes only.                *)
LiveInv ==
    /\ Whole(live)
    /\ DOMAIN live[EventsWal] = {"first", "next", "torn"}
    /\ SegmentManifest(live) \in [sealed : SUBSET Nat, retired : Nat]
    /\ SegmentManifest(live).sealed \subseteq 0..live[EventsWal].next - 1
    /\ retiring \in BOOLEAN
    /\ retiring => ManifestBin \in DOMAIN live
    /\ ~retiring => SegmentManifest(live).retired = live[EventsWal].first

(* What create_backup has copied while the store only appended: every file *)
(* as it is now, and a WAL that reaches at least what was there before.    *)
CopyingInv(c) ==
    /\ DOMAIN c = {"names", "entries", "since", "quiet"}
    /\ c.quiet \in BOOLEAN
    /\ c.quiet =>
        /\ ~retiring
        /\ c.names = DOMAIN live
        /\ c.since \in Nat /\ c.since <= live[EventsWal].next
        /\ DOMAIN c.entries \subseteq DOMAIN live
        /\ \A name \in DOMAIN c.entries : name # EventsWal => c.entries[name] = live[name]
        /\ EventsWal \in DOMAIN c.entries =>
              /\ c.entries[EventsWal].first = live[EventsWal].first
              /\ c.entries[EventsWal].next \in c.since..live[EventsWal].next
              /\ live[EventsWal].first <= c.entries[EventsWal].next

(* What a manifest without disturbance lists.                              *)
WrittenInv(w) ==
    w.quiet =>
        /\ Whole(w.entries)
        /\ SegmentManifest(w.entries).retired = w.entries[EventsWal].first
        /\ w.since \in Nat /\ w.since <= w.entries[EventsWal].next

BackupInv ==
    /\ LiveInv
    /\ \A c \in copying : CopyingInv(c)
    /\ \A w \in written : WrittenInv(w)
    /\ RestoredIsComplete

LEMMA BackupInitInv == BackupInit => BackupInv
<1> SUFFICES ASSUME BackupInit PROVE BackupInv
  OBVIOUS
<1>1. /\ live = [name \in {EventsWal} |-> WalFile(0, 0, FALSE)]
      /\ retiring = FALSE /\ copying = {} /\ written = {} /\ restored = {}
  BY DEF BackupInit, None
<1>2. /\ DOMAIN live = {EventsWal} /\ live[EventsWal] = WalFile(0, 0, FALSE)
      /\ SegmentManifest(live) = ManifestFile({}, 0)
  BY <1>1 DEF SegmentManifest, EventsWal, ManifestBin
<1>3. PICK w, m : w = live[EventsWal] /\ m = SegmentManifest(live)
  OBVIOUS
<1>4. /\ DOMAIN w = {"first", "next", "torn"} /\ w.first \in Nat /\ w.next \in Nat /\ w.first = 0 /\ w.next = 0
      /\ m \in [sealed : SUBSET Nat, retired : Nat] /\ m.sealed = {} /\ m.retired = 0
  BY <1>2, <1>3 DEF WalFile, ManifestFile
<1>5. EventsWal \in DOMAIN live /\ 0..0 - 1 = {}
  BY <1>2
<1>6. LiveInv
  <2>1. retiring = FALSE
    BY <1>1
  <2>2. Whole(live)
    BY <1>3, <1>4, <1>5 DEF Whole
  <2> QED
    BY <1>3, <1>4, <2>1, <2>2 DEF LiveInv
<1> QED
  BY <1>1, <1>6 DEF BackupInv, RestoredIsComplete

(* The live store, step by step.                                           *)
LEMMA AppendLive ==
    ASSUME BackupInv, AppendWrites \/ AppendDone
    PROVE  /\ LiveInv' /\ UNCHANGED retiring
           /\ DOMAIN live' = DOMAIN live
           /\ \A name \in DOMAIN live : name # EventsWal => live'[name] = live[name]
           /\ live'[EventsWal].first = live[EventsWal].first
           /\ live'[EventsWal].next \in Nat
           /\ live[EventsWal].next <= live'[EventsWal].next
<1>1. LiveInv /\ Whole(live) /\ EventsWal \in DOMAIN live
  BY DEF BackupInv, LiveInv, Whole
<1>2. PICK w : w = live[EventsWal]
  OBVIOUS
<1>3. DOMAIN w = {"first", "next", "torn"} /\ w.first \in Nat /\ w.next \in Nat
  BY <1>1, <1>2 DEF LiveInv, Whole
<1>4. UNCHANGED retiring
  BY DEF AppendWrites, AppendDone
<1>5. PICK u : /\ DOMAIN u = {"first", "next", "torn"} /\ u.first \in Nat /\ u.next \in Nat
               /\ u.first = w.first /\ w.next <= u.next
               /\ live' = [live EXCEPT ![EventsWal] = u]
  <2>1. CASE AppendWrites
    <3>1. PICK u : u = [w EXCEPT !.torn = TRUE]
      OBVIOUS
    <3>2. live' = [live EXCEPT ![EventsWal] = u]
      BY <1>2, <2>1, <3>1 DEF AppendWrites
    <3>3. DOMAIN u = {"first", "next", "torn"} /\ u.first \in Nat /\ u.next \in Nat /\ u.first = w.first /\ w.next <= u.next
      BY <1>3, <3>1
    <3> QED
      BY <3>2, <3>3
  <2>2. CASE AppendDone
    <3>1. PICK u : u = [w EXCEPT !.torn = FALSE, !.next = w.next + 1]
      OBVIOUS
    <3>2. live' = [live EXCEPT ![EventsWal] = u]
      BY <1>1, <1>2, <1>3, <2>2, <3>1 DEF AppendDone
    <3>3. DOMAIN u = {"first", "next", "torn"} /\ u.first \in Nat /\ u.next \in Nat /\ u.first = w.first /\ w.next <= u.next
      BY <1>3, <3>1
    <3> QED
      BY <3>2, <3>3
  <2> QED
    BY <2>1, <2>2
<1>6. /\ DOMAIN live' = DOMAIN live /\ live'[EventsWal] = u
      /\ \A name \in DOMAIN live : name # EventsWal => live'[name] = live[name]
  BY <1>1, <1>5
<1>7. SegmentManifest(live') = SegmentManifest(live)
  BY <1>6 DEF SegmentManifest, EventsWal, ManifestBin
<1>8. LiveInv'
  <2>1. PICK m : m = SegmentManifest(live)
    OBVIOUS
  <2>2. /\ w.first <= w.next
        /\ m \in [sealed : SUBSET Nat, retired : Nat]
        /\ m.sealed \subseteq 0..w.next - 1 /\ m.sealed \subseteq DOMAIN live
        /\ 0..w.first - 1 \subseteq m.sealed
        /\ retiring \in BOOLEAN /\ (retiring => ManifestBin \in DOMAIN live)
        /\ (~retiring => m.retired = w.first)
    BY <1>1, <1>2, <2>1 DEF LiveInv, Whole
  <2>3. m.sealed \subseteq 0..u.next - 1 /\ u.first <= u.next
    BY <1>3, <1>5, <2>2
  <2>4. EventsWal \in DOMAIN live' /\ SegmentManifest(live') = m
    BY <1>1, <1>6, <1>7, <2>1
  <2> QED
    BY <1>4, <1>5, <1>6, <2>2, <2>3, <2>4 DEF LiveInv, Whole
<1> QED
  BY <1>2, <1>4, <1>5, <1>6, <1>8

LEMMA SealLive ==
    ASSUME BackupInv, Seal
    PROVE  LiveInv'
<1>1. LiveInv /\ Whole(live) /\ EventsWal \in DOMAIN live
  BY DEF BackupInv, LiveInv, Whole
<1>2. PICK w, m, events : /\ w = live[EventsWal] /\ m = SegmentManifest(live)
                          /\ events = w.first..w.next - 1
  OBVIOUS
<1>3. /\ DOMAIN w = {"first", "next", "torn"} /\ w.first \in Nat /\ w.next \in Nat /\ w.first <= w.next
      /\ m \in [sealed : SUBSET Nat, retired : Nat]
      /\ m.sealed \subseteq 0..w.next - 1 /\ m.sealed \subseteq DOMAIN live
      /\ 0..w.first - 1 \subseteq m.sealed /\ ~retiring /\ m.retired = w.first
  BY <1>1, <1>2 DEF LiveInv, Whole, Seal
<1>4. PICK p : p = [m EXCEPT !.sealed = m.sealed \union events]
  OBVIOUS
<1>5. /\ live' = Put([name \in DOMAIN live \union events |->
                           IF name \in events THEN name ELSE live[name]], ManifestBin, p)
      /\ UNCHANGED retiring
  BY <1>2, <1>4 DEF Seal, NextSequence
<1>6. p \in [sealed : SUBSET Nat, retired : Nat] /\ p.sealed = m.sealed \union events /\ p.retired = m.retired
  BY <1>2, <1>3, <1>4
<1>7. /\ DOMAIN live' = DOMAIN live \union events \union {ManifestBin}
      /\ live'[EventsWal] = w /\ live'[ManifestBin] = p
  <2>1. EventsWal \notin events /\ EventsWal # ManifestBin
    BY <1>2, <1>3 DEF EventsWal, ManifestBin
  <2> QED
    BY <1>1, <1>2, <1>5, <2>1 DEF Put
<1>8. SegmentManifest(live') = p
  BY <1>7 DEF SegmentManifest
<1>9. p.sealed \subseteq 0..w.next - 1 /\ p.sealed \subseteq DOMAIN live'
  BY <1>2, <1>3, <1>6, <1>7
<1>10. EventsWal \in DOMAIN live' /\ 0..w.first - 1 \subseteq p.sealed /\ retiring' = FALSE
  <2>1. retiring \in BOOLEAN
    BY <1>1 DEF LiveInv
  <2> QED
    BY <1>1, <1>3, <1>5, <1>6, <1>7, <2>1
<1> QED
  BY <1>3, <1>6, <1>7, <1>8, <1>9, <1>10 DEF LiveInv, Whole

LEMMA RetireLive ==
    ASSUME BackupInv, RetireCompacts \/ RetireSaves
    PROVE  LiveInv'
<1>1. LiveInv /\ Whole(live) /\ EventsWal \in DOMAIN live
  BY DEF BackupInv, LiveInv, Whole
<1>2. PICK w, m : w = live[EventsWal] /\ m = SegmentManifest(live)
  OBVIOUS
<1>3. /\ DOMAIN w = {"first", "next", "torn"} /\ w.first \in Nat /\ w.next \in Nat /\ w.first <= w.next
      /\ m \in [sealed : SUBSET Nat, retired : Nat]
      /\ m.sealed \subseteq 0..w.next - 1 /\ m.sealed \subseteq DOMAIN live
      /\ 0..w.first - 1 \subseteq m.sealed
  BY <1>1, <1>2 DEF LiveInv, Whole
<1>4. CASE RetireCompacts
  <2>1. w.first \in m.sealed /\ retiring' = TRUE
    BY <1>2, <1>4 DEF RetireCompacts
  <2>2. ManifestBin \in DOMAIN live /\ m = live[ManifestBin]
    BY <1>2, <2>1 DEF SegmentManifest, ManifestFile
  <2> DEFINE Good(s) == s \notin m.sealed /\ w.first..s - 1 \subseteq m.sealed
             S == {s \in w.first..w.next : s \notin m.sealed}
  <2>3. w.next \in S /\ S \in SUBSET Nat
    BY <1>3
  <2>4. PICK s \in S : \A t \in S : s <= t
    <3> HIDE DEF S
    <3> QED
      BY <2>3, LeastNatural
  <2>5. Good(s) /\ s \in w.first..w.next
    BY <1>3, <2>4
  <2>6. PICK f : f = CHOOSE t \in w.first..w.next : Good(t)
    OBVIOUS
  <2>7. f \in w.first..w.next /\ Good(f)
    <3> HIDE DEF Good
    <3> QED
      BY <2>5, <2>6
  <2>8. live' = [live EXCEPT ![EventsWal] = [w EXCEPT !.first = f]]
    BY <1>2, <1>4, <2>2, <2>6 DEF RetireCompacts, NextSequence
  <2>9. PICK u : u = [w EXCEPT !.first = f]
    OBVIOUS
  <2>10. /\ DOMAIN u = {"first", "next", "torn"} /\ u.first \in Nat /\ u.next \in Nat /\ u.first = f /\ u.next = w.next
         /\ f \in Nat
    BY <1>3, <2>7, <2>9
  <2>11. DOMAIN live' = DOMAIN live /\ live'[EventsWal] = u /\ live'[ManifestBin] = m
    BY <1>1, <2>2, <2>8, <2>9 DEF EventsWal, ManifestBin
  <2>12. SegmentManifest(live') = m
    BY <2>2, <2>11 DEF SegmentManifest
  <2>13. 0..f - 1 \subseteq m.sealed /\ f <= w.next
    BY <1>3, <2>7
  <2> QED
    BY <1>1, <1>3, <2>1, <2>2, <2>10, <2>11, <2>12, <2>13 DEF LiveInv, Whole
<1>5. CASE RetireSaves
  <2>1. retiring /\ retiring' = FALSE /\ ManifestBin \in DOMAIN live
    BY <1>1, <1>5 DEF RetireSaves, LiveInv
  <2>2. m = live[ManifestBin]
    BY <1>2, <2>1 DEF SegmentManifest
  <2>3. PICK p : p = [m EXCEPT !.retired = w.first]
    OBVIOUS
  <2>4. live' = [live EXCEPT ![ManifestBin] = p]
    BY <1>2, <1>5, <2>2, <2>3 DEF RetireSaves
  <2>5. p \in [sealed : SUBSET Nat, retired : Nat] /\ p.sealed = m.sealed /\ p.retired = w.first
    BY <1>3, <2>3
  <2>6. DOMAIN live' = DOMAIN live /\ live'[EventsWal] = w /\ live'[ManifestBin] = p
    BY <1>1, <1>2, <2>1, <2>4 DEF EventsWal, ManifestBin
  <2>7. SegmentManifest(live') = p
    BY <2>1, <2>6 DEF SegmentManifest
  <2> QED
    BY <1>1, <1>3, <2>1, <2>5, <2>6, <2>7 DEF LiveInv, Whole
<1> QED
  BY <1>4, <1>5

(* What a sealing or retiring store leaves of a running copy.              *)
LEMMA DisturbedCopy ==
    ASSUME BackupInv, Disturbed
    PROVE  \A c \in copying' : CopyingInv(c)'
<1> SUFFICES ASSUME NEW c \in copying' PROVE CopyingInv(c)'
  OBVIOUS
<1>1. PICK d \in copying : c = [d EXCEPT !.quiet = FALSE]
  BY DEF Disturbed
<1>2. DOMAIN d = {"names", "entries", "since", "quiet"}
  BY DEF BackupInv, CopyingInv
<1>3. DOMAIN c = {"names", "entries", "since", "quiet"} /\ c.quiet = FALSE
  BY <1>1, <1>2
<1> QED
  BY <1>3 DEF CopyingInv

(* A copy in progress, while the store only appends.                       *)
LEMMA AppendedCopy ==
    ASSUME BackupInv, AppendWrites \/ AppendDone
    PROVE  \A c \in copying' : CopyingInv(c)'
<1> SUFFICES ASSUME NEW c \in copying' PROVE CopyingInv(c)'
  OBVIOUS
<1>1. /\ UNCHANGED retiring
      /\ DOMAIN live' = DOMAIN live
      /\ \A name \in DOMAIN live : name # EventsWal => live'[name] = live[name]
      /\ live'[EventsWal].first = live[EventsWal].first
      /\ live'[EventsWal].next \in Nat
      /\ live[EventsWal].next <= live'[EventsWal].next
  BY AppendLive
<1>2. c \in copying
  BY DEF AppendWrites, AppendDone
<1>3. CopyingInv(c)
  BY <1>2 DEF BackupInv
<1>4. live[EventsWal].next \in Nat
  BY DEF BackupInv, LiveInv, Whole
<1>5. ASSUME c.quiet
      PROVE  /\ ~retiring'
             /\ c.names = DOMAIN live'
             /\ c.since \in Nat /\ c.since <= live'[EventsWal].next
             /\ DOMAIN c.entries \subseteq DOMAIN live'
             /\ \A name \in DOMAIN c.entries : name # EventsWal => c.entries[name] = live'[name]
             /\ EventsWal \in DOMAIN c.entries =>
                   /\ c.entries[EventsWal].first = live'[EventsWal].first
                   /\ c.entries[EventsWal].next \in c.since..live'[EventsWal].next
                   /\ live'[EventsWal].first <= c.entries[EventsWal].next
  <2>1. /\ ~retiring
        /\ c.names = DOMAIN live
        /\ c.since \in Nat /\ c.since <= live[EventsWal].next
        /\ DOMAIN c.entries \subseteq DOMAIN live
        /\ \A name \in DOMAIN c.entries : name # EventsWal => c.entries[name] = live[name]
        /\ EventsWal \in DOMAIN c.entries =>
              /\ c.entries[EventsWal].first = live[EventsWal].first
              /\ c.entries[EventsWal].next \in c.since..live[EventsWal].next
              /\ live[EventsWal].first <= c.entries[EventsWal].next
    BY <1>3, <1>5 DEF CopyingInv
  <2> QED
    BY <1>1, <1>4, <2>1
<1> QED
  BY <1>3, <1>5 DEF CopyingInv, EventsWal

LEMMA CopyBegins ==
    ASSUME BackupInv, BackupBegins
    PROVE  \A c \in copying' : CopyingInv(c)'
<1> SUFFICES ASSUME NEW c \in copying' PROVE CopyingInv(c)'
  OBVIOUS
<1>1. /\ c = [names |-> DOMAIN live, entries |-> <<>>, since |-> live[EventsWal].next, quiet |-> ~retiring]
      /\ UNCHANGED <<live, retiring>>
  BY DEF BackupBegins, Some, NextSequence
<1>2. /\ DOMAIN c = {"names", "entries", "since", "quiet"}
      /\ c.names = DOMAIN live /\ c.entries = <<>> /\ c.since = live[EventsWal].next
      /\ c.quiet = ~retiring
  BY <1>1
<1>3. live[EventsWal].next \in Nat /\ retiring \in BOOLEAN
  BY DEF BackupInv, LiveInv, Whole
<1>4. DOMAIN c.entries = {}
  BY <1>2
<1>5. c.quiet \in BOOLEAN /\ (c.quiet => ~retiring)
  BY <1>2, Zenon
<1>6. /\ DOMAIN c = {"names", "entries", "since", "quiet"}
      /\ c.names = DOMAIN live /\ c.since = live[EventsWal].next
      /\ UNCHANGED <<live, retiring>>
  BY <1>1, <1>2
<1> QED
  BY <1>3, <1>4, <1>5, <1>6 DEF CopyingInv, EventsWal

LEMMA CopyGoesOn ==
    ASSUME BackupInv, NEW name, BackupCopies(name)
    PROVE  \A c \in copying' : CopyingInv(c)'
<1> SUFFICES ASSUME NEW c \in copying' PROVE CopyingInv(c)'
  OBVIOUS
<1>1. PICK d \in copying : c = [d EXCEPT !.entries = Put(d.entries, name, live[name])]
  BY DEF BackupCopies, Some
<1>2. name \in DOMAIN live /\ UNCHANGED <<live, retiring>>
  BY DEF BackupCopies
<1>3. CopyingInv(d)
  BY DEF BackupInv
<1>4. PICK e : e = Put(d.entries, name, live[name])
  OBVIOUS
<1>5. /\ DOMAIN e = DOMAIN d.entries \union {name} /\ e[name] = live[name]
      /\ \A n \in DOMAIN d.entries : n # name => e[n] = d.entries[n]
  BY <1>4 DEF Put
<1>6. DOMAIN d = {"names", "entries", "since", "quiet"}
  BY <1>3 DEF CopyingInv
<1>7. /\ DOMAIN c = {"names", "entries", "since", "quiet"}
      /\ c.names = d.names /\ c.entries = e /\ c.since = d.since /\ c.quiet = d.quiet
  BY <1>1, <1>4, <1>6
<1>8. live[EventsWal].first \in Nat /\ live[EventsWal].next \in Nat /\ live[EventsWal].first <= live[EventsWal].next
  BY DEF BackupInv, LiveInv, Whole
<1>9. ASSUME d.quiet
      PROVE  /\ DOMAIN e \subseteq DOMAIN live
             /\ \A n \in DOMAIN e : n # EventsWal => e[n] = live[n]
             /\ EventsWal \in DOMAIN e =>
                   /\ e[EventsWal].first = live[EventsWal].first
                   /\ e[EventsWal].next \in d.since..live[EventsWal].next
                   /\ live[EventsWal].first <= e[EventsWal].next
  <2>1. /\ d.since \in Nat /\ d.since <= live[EventsWal].next
        /\ DOMAIN d.entries \subseteq DOMAIN live
        /\ \A n \in DOMAIN d.entries : n # EventsWal => d.entries[n] = live[n]
        /\ EventsWal \in DOMAIN d.entries =>
              /\ d.entries[EventsWal].first = live[EventsWal].first
              /\ d.entries[EventsWal].next \in d.since..live[EventsWal].next
              /\ live[EventsWal].first <= d.entries[EventsWal].next
    BY <1>3, <1>9 DEF CopyingInv
  <2>2. DOMAIN e \subseteq DOMAIN live /\ \A n \in DOMAIN e : n # EventsWal => e[n] = live[n]
    BY <1>2, <1>5, <2>1
  <2>3. CASE name = EventsWal
    BY <1>5, <1>8, <2>1, <2>2, <2>3
  <2>4. CASE name # EventsWal
    BY <1>5, <2>1, <2>2, <2>4
  <2> QED
    BY <2>3, <2>4
<1> QED
  BY <1>2, <1>3, <1>7, <1>9 DEF CopyingInv, EventsWal

(* The manifest of an undisturbed backup.                                  *)
LEMMA CopyEnds ==
    ASSUME BackupInv, BackupEnds
    PROVE  \A w \in written' : WrittenInv(w)'
<1> SUFFICES ASSUME NEW w \in written' PROVE WrittenInv(w)
  BY DEF WrittenInv, Whole, SegmentManifest, EventsWal, ManifestBin
<1>1. PICK c \in copying : /\ c.names \subseteq DOMAIN c.entries
                          /\ w = [entries |-> c.entries, since |-> c.since, quiet |-> c.quiet]
  BY DEF BackupEnds, Some
<1>2. w.entries = c.entries /\ w.since = c.since /\ w.quiet = c.quiet
  BY <1>1
<1> SUFFICES ASSUME c.quiet
             PROVE  /\ Whole(c.entries)
                    /\ SegmentManifest(c.entries).retired = c.entries[EventsWal].first
                    /\ c.since \in Nat /\ c.since <= c.entries[EventsWal].next
  BY <1>2 DEF WrittenInv
<1>3. PICK e : e = c.entries
  OBVIOUS
<1>4. /\ ~retiring /\ DOMAIN e = DOMAIN live /\ c.since \in Nat
      /\ \A name \in DOMAIN e : name # EventsWal => e[name] = live[name]
  BY <1>1, <1>3 DEF BackupInv, CopyingInv
<1>5. /\ Whole(live) /\ SegmentManifest(live).retired = live[EventsWal].first
      /\ EventsWal \in DOMAIN live
  BY <1>4 DEF BackupInv, LiveInv, Whole
<1>6. /\ e[EventsWal].first = live[EventsWal].first
      /\ e[EventsWal].next \in c.since..live[EventsWal].next
      /\ live[EventsWal].first <= e[EventsWal].next
  BY <1>3, <1>4, <1>5 DEF BackupInv, CopyingInv
<1>7. SegmentManifest(e) = SegmentManifest(live)
  BY <1>4 DEF SegmentManifest, EventsWal, ManifestBin
<1>8. Whole(e)
  BY <1>4, <1>5, <1>6, <1>7 DEF Whole
<1> QED
  BY <1>3, <1>4, <1>5, <1>6, <1>7, <1>8

(* restore_backup puts back what the manifest lists, and an undisturbed    *)
(* one is complete.                                                        *)
LEMMA RestoreIsComplete ==
    ASSUME BackupInv, RestoreBackup
    PROVE  RestoredIsComplete'
<1>1. PICK listed \in written :
         /\ VerifyBackup(listed)
         /\ restored' = {[store |-> Opened([name \in DOMAIN listed.entries |-> copies[name]]),
                          of |-> listed]}
         /\ Opens([name \in DOMAIN listed.entries |-> copies[name]])
  BY DEF RestoreBackup, Some
<1>2. PICK dir, e : dir = [name \in DOMAIN listed.entries |-> copies[name]] /\ e = listed.entries
  OBVIOUS
<1>3. DOMAIN dir = DOMAIN e /\ \A name \in DOMAIN e : dir[name] = e[name]
  BY <1>1, <1>2 DEF VerifyBackup
<1>4. SUFFICES ASSUME listed.quiet
               PROVE  /\ Opened(dir).next >= listed.since
                      /\ Opened(dir).reads = 0..Opened(dir).next - 1
                      /\ Opened(dir).unbacked = {}
  <2>1. PICK r : r = [store |-> Opened(dir), of |-> listed]
    OBVIOUS
  <2>2. r.store = Opened(dir) /\ r.of = listed /\ restored' = {r}
    BY <1>1, <1>2, <2>1
  <2> QED
    BY <2>2 DEF RestoredIsComplete
<1>5. /\ Whole(e) /\ SegmentManifest(e).retired = e[EventsWal].first
      /\ listed.since \in Nat /\ listed.since <= e[EventsWal].next
  BY <1>2, <1>4 DEF BackupInv, WrittenInv
<1>6. PICK w, m : w = dir[EventsWal] /\ m = SegmentManifest(dir)
  OBVIOUS
<1>7. w = e[EventsWal] /\ m = SegmentManifest(e)
  BY <1>3, <1>5, <1>6 DEF Whole, SegmentManifest
<1>8. /\ w.first \in Nat /\ w.next \in Nat /\ w.first <= w.next /\ m.retired = w.first
      /\ listed.since <= w.next
      /\ m.sealed \subseteq DOMAIN dir /\ 0..w.first - 1 \subseteq m.sealed
  BY <1>3, <1>5, <1>7 DEF Whole
<1>9. PICK next : next = IF w.first..w.next - 1 = {} THEN m.retired ELSE w.next
  OBVIOUS
<1>10. next = w.next
  <2>1. CASE w.first = w.next
    <3>1. w.first..w.next - 1 = {}
      BY <1>8, <2>1
    <3> QED
      BY <1>8, <1>9, <2>1, <3>1
  <2>2. CASE w.first # w.next
    <3>1. w.first \in w.first..w.next - 1
      BY <1>8, <2>2
    <3> QED
      BY <1>9, <3>1
  <2> QED
    BY <2>1, <2>2
<1>11. /\ Opened(dir).next = next
       /\ Opened(dir).reads = {x \in 0..next - 1 : \/ x \in w.first..w.next - 1
                                                   \/ x \in m.sealed /\ x \in DOMAIN dir}
       /\ Opened(dir).unbacked = {x \in m.sealed : x \notin DOMAIN dir}
  BY <1>6, <1>9 DEF Opened
<1>12. ASSUME NEW x \in 0..next - 1
       PROVE  x \in w.first..w.next - 1 \/ (x \in m.sealed /\ x \in DOMAIN dir)
  <2>1. x \in w.first..w.next - 1 \/ x \in 0..w.first - 1
    BY <1>8, <1>10
  <2> QED
    BY <1>8, <2>1
<1> QED
  BY <1>8, <1>10, <1>11, <1>12

LEMMA BackupNextInv ==
    ASSUME BackupInv, BackupNext \/ UNCHANGED backupVars
    PROVE  BackupInv'
<1>1. /\ LiveInv /\ \A c \in copying : CopyingInv(c) /\ \A w \in written : WrittenInv(w)
      /\ RestoredIsComplete
  BY DEF BackupInv
<1>2. ASSUME UNCHANGED <<live, retiring>>
      PROVE  LiveInv' /\ \A c : CopyingInv(c)' = CopyingInv(c)
  BY <1>1, <1>2 DEF LiveInv, CopyingInv, Whole, SegmentManifest, EventsWal, ManifestBin
<1>3. \A w : WrittenInv(w)' = WrittenInv(w)
  BY DEF WrittenInv, Whole, SegmentManifest, EventsWal, ManifestBin
<1>4. ASSUME restored' = None PROVE RestoredIsComplete'
  BY <1>4 DEF RestoredIsComplete, None
<1>5. CASE UNCHANGED backupVars
  BY <1>1, <1>2, <1>3, <1>5 DEF BackupInv, backupVars, RestoredIsComplete
<1>6. CASE RestoreBackup
  BY <1>1, <1>2, <1>3, <1>6, RestoreIsComplete DEF BackupInv, RestoreBackup
<1>7. ASSUME restored' = None,
             AppendWrites \/ AppendDone
      PROVE  BackupInv'
  <2>1. UNCHANGED written
    BY <1>7 DEF AppendWrites, AppendDone
  <2> QED
    BY <1>1, <1>3, <1>4, <1>7, <2>1, AppendLive, AppendedCopy DEF BackupInv
<1>8. ASSUME restored' = None, Seal \/ RetireCompacts \/ RetireSaves
      PROVE  BackupInv'
  <2>1. UNCHANGED written /\ Disturbed
    BY <1>8 DEF Seal, RetireCompacts, RetireSaves
  <2>2. LiveInv'
    BY <1>8, SealLive, RetireLive
  <2> QED
    BY <1>1, <1>3, <1>4, <1>8, <2>1, <2>2, DisturbedCopy DEF BackupInv
<1>9. ASSUME restored' = None, BackupBegins \/ \E name : BackupCopies(name)
      PROVE  BackupInv'
  <2>1. UNCHANGED <<written, live, retiring>>
    BY <1>9 DEF BackupBegins, BackupCopies
  <2>2. \A c \in copying' : CopyingInv(c)'
    BY <1>9, CopyBegins, CopyGoesOn
  <2> QED
    BY <1>1, <1>2, <1>3, <1>4, <1>9, <2>1, <2>2 DEF BackupInv
<1>10. ASSUME restored' = None, BackupEnds
       PROVE  BackupInv'
  <2>1. UNCHANGED <<live, retiring>> /\ copying' = {}
    BY <1>10 DEF BackupEnds, None
  <2> QED
    BY <1>2, <1>4, <1>10, <2>1, CopyEnds DEF BackupInv
<1>11. ASSUME restored' = None, BackupStops \/ \E name : Spoil(name)
       PROVE  BackupInv'
  <2>1. UNCHANGED <<live, retiring, written>> /\ (copying' = {} \/ copying' = copying)
    BY <1>11 DEF BackupStops, Spoil, None
  <2> QED
    BY <1>1, <1>2, <1>3, <1>4, <1>11, <2>1 DEF BackupInv
<1>12. \/ UNCHANGED backupVars \/ RestoreBackup
       \/ /\ restored' = None
          /\ \/ AppendWrites \/ AppendDone
             \/ Seal \/ RetireCompacts \/ RetireSaves
             \/ BackupBegins \/ BackupEnds \/ BackupStops
             \/ \E name : BackupCopies(name) \/ Spoil(name)
  BY Zenon DEF BackupNext
<1> QED
  BY <1>5, <1>6, <1>7, <1>8, <1>9, <1>10, <1>11, <1>12

-----------------------------------------------------------------------------
(* The mirror.                                                             *)

(* RankedOnce for a set of the numbers up to n.                            *)
LEMMA RankedUpTo ==
    ASSUME NEW n \in Nat, NEW S \in SUBSET (1..n), NEW s, s = Ranked(S)
    PROVE  /\ Cardinality(S) \in Nat
           /\ s \in Seq(S) /\ Len(s) = Cardinality(S) /\ Once(s) /\ Range(s) = S
<1>1. S \in SUBSET Int /\ IsFiniteSet(S)
  <2>1. IsFiniteSet(1..n)
    BY FS_Interval
  <2>2. IsFiniteSet(S)
    BY <2>1, FS_Subset
  <2> QED
    BY <2>2
<1>2. s \in Seq(S) /\ Len(s) = Cardinality(S) /\ Once(s) /\ Range(s) = S
  BY <1>1, RankedOnce
<1> QED
  BY <1>1, <1>2, FS_CardinalityType

(* What the converter makes of the records of callers.                     *)
Recorded ==
    {Converted(r.record[1], r.record[2], r.at, r.causedBy) :
        r \in [record : Stamped, at : Nat, causedBy : SUBSET (Nat \ {0})]}

LEMMA RecordedFacts ==
    ASSUME NEW event \in Recorded
    PROVE  event.known[2] \in Nat /\ event.from \subseteq Nat \ {0}
<1>1. PICK r \in [record : Stamped, at : Nat, causedBy : SUBSET (Nat \ {0})] :
          event = Converted(r.record[1], r.record[2], r.at, r.causedBy)
  BY DEF Recorded
<1>2. /\ event.known = <<r.record[2], r.at>>
      /\ event.from = IF r.record[1] = "Percept" THEN {} ELSE r.causedBy
  BY <1>1 DEF Converted
<1>3. event.known[2] = r.at
  BY <1>2
<1>4. event.from \subseteq r.causedBy
  BY <1>2
<1> QED
  BY <1>3, <1>4

(* The history of the queue: what was accepted is what was drained and     *)
(* then what waits, and what was stored keeps its order.                   *)
QueueInv ==
    /\ Len(accepted) = Len(fate) + Len(mirror)
    /\ \A i \in 1..Len(mirror) : accepted[Len(fate) + i] = mirror[i]
    /\ \A i \in 1..Len(fate) : fate[i] # 0 =>
          fate[i] \in 1..Len(mirrored) /\ mirrored[fate[i]] = accepted[i]
    /\ \A s \in 1..Len(mirrored) : \E i \in 1..Len(fate) : fate[i] = s
    /\ \A i, j \in 1..Len(fate) : i < j /\ fate[i] # 0 /\ fate[j] # 0 => fate[i] < fate[j]

(* The store lets a record in only after the ones it follows and knows of. *)
StoreInv ==
    \A i \in 1..Len(mirrored) : Storable(SubSeq(mirrored, 1, i - 1), mirrored[i])

MirrorType ==
    /\ ticks \in [Cadences -> Nat]
    /\ mirror \in Seq(Recorded) /\ mirrored \in Seq(Recorded) /\ accepted \in Seq(Recorded)
    /\ fate \in Seq(Nat)
    /\ stats \in [enqueued : Nat, drained : Nat, backpressure : Nat]

MirrorInv ==
    /\ MirrorType /\ QueueInv /\ StoreInv
    /\ stats.enqueued = Len(accepted) /\ stats.drained = Len(mirrored)

LEMMA MirrorInitInv == MirrorInit => MirrorInv
<1> SUFFICES ASSUME MirrorInit PROVE MirrorInv
  OBVIOUS
<1>1. MirrorType
  BY DEF MirrorInit, MirrorType
<1> QED
  BY <1>1 DEF MirrorInit, MirrorInv, QueueInv, StoreInv

LEMMA EnqueueInv ==
    ASSUME MirrorInv, NEW event \in Recorded, Enqueue(event)
    PROVE  MirrorInv'
<1>1. MirrorType /\ QueueInv /\ StoreInv
      /\ stats.enqueued = Len(accepted) /\ stats.drained = Len(mirrored)
  BY DEF MirrorInv
<1>2. CASE UNCHANGED <<mirror, accepted>>
  <2>1. UNCHANGED <<ticks, mirror, accepted, mirrored, fate>>
        /\ (stats' = stats \/ stats' = [stats EXCEPT !.backpressure = @ + 1])
    BY <1>2 DEF Enqueue, mirrorVars
  <2>2. /\ stats' \in [enqueued : Nat, drained : Nat, backpressure : Nat]
        /\ stats'.enqueued = stats.enqueued /\ stats'.drained = stats.drained
    <3>1. stats \in [enqueued : Nat, drained : Nat, backpressure : Nat]
      BY <1>1 DEF MirrorType
    <3>2. CASE stats' = stats
      BY <3>1, <3>2
    <3>3. CASE stats' = [stats EXCEPT !.backpressure = @ + 1]
      BY <3>1, <3>3
    <3> QED
      BY <2>1, <3>2, <3>3
  <2>3. MirrorType'
    BY <1>1, <2>1, <2>2 DEF MirrorType
  <2> QED
    BY <1>1, <2>1, <2>2, <2>3 DEF MirrorInv, QueueInv, StoreInv
<1>3. CASE /\ mirror' = Append(mirror, event)
           /\ stats' = [stats EXCEPT !.enqueued = @ + 1]
           /\ accepted' = Append(accepted, event)
  <2>1. UNCHANGED <<ticks, mirrored, fate>>
    BY DEF Enqueue
  <2>2. /\ mirror' \in Seq(Recorded) /\ Len(mirror') = Len(mirror) + 1
        /\ mirror'[Len(mirror) + 1] = event /\ Len(mirror) \in Nat
        /\ \A i \in 1..Len(mirror) : mirror'[i] = mirror[i]
    BY <1>1, <1>3 DEF MirrorType
  <2>3. /\ accepted' \in Seq(Recorded) /\ Len(accepted') = Len(accepted) + 1
        /\ accepted'[Len(accepted) + 1] = event /\ Len(accepted) \in Nat
        /\ \A i \in 1..Len(accepted) : accepted'[i] = accepted[i]
    BY <1>1, <1>3 DEF MirrorType
  <2>4. /\ stats' \in [enqueued : Nat, drained : Nat, backpressure : Nat]
        /\ stats'.enqueued = stats.enqueued + 1 /\ stats'.drained = stats.drained
    <3>1. stats \in [enqueued : Nat, drained : Nat, backpressure : Nat]
      BY <1>1 DEF MirrorType
    <3> QED
      BY <1>3, <3>1
  <2>6. Len(fate) \in Nat
    BY <1>1 DEF MirrorType
  <2>7. QueueInv'
    <3>1. ASSUME NEW i \in 1..Len(mirror') PROVE accepted'[Len(fate) + i] = mirror'[i]
      <4>1. Len(accepted) = Len(fate) + Len(mirror)
        BY <1>1 DEF QueueInv
      <4>2. CASE i = Len(mirror) + 1
        BY <2>2, <2>3, <2>6, <4>1, <4>2
      <4>3. CASE i \in 1..Len(mirror)
        <5>1. accepted[Len(fate) + i] = mirror[i]
          <6>1. \A k \in 1..Len(mirror) : accepted[Len(fate) + k] = mirror[k]
            BY <1>1 DEF QueueInv
          <6> QED
            BY <4>3, <6>1
        <5>2. Len(fate) + i \in 1..Len(accepted)
          <6>1. Len(mirror) \in Nat /\ Len(accepted) \in Nat
            BY <2>2, <2>3
          <6> QED
            BY <2>6, <4>1, <4>3, <6>1
        <5>3. accepted'[Len(fate) + i] = accepted[Len(fate) + i]
          BY <2>3, <5>2
        <5>4. mirror'[i] = mirror[i]
          BY <2>2, <4>3
        <5> QED
          BY <5>1, <5>3, <5>4
      <4> QED
        BY <2>2, <4>2, <4>3
    <3>2. \A i \in 1..Len(fate) : i \in 1..Len(accepted)
      BY <1>1, <2>2, <2>6 DEF QueueInv
    <3>3. \A i \in 1..Len(fate) : fate[i] # 0 =>
            fate[i] \in 1..Len(mirrored) /\ mirrored[fate[i]] = accepted'[i]
      BY <1>1, <2>3, <3>2 DEF QueueInv
    <3>4. Len(accepted') = Len(fate) + Len(mirror')
      BY <1>1, <2>2, <2>3, <2>6 DEF QueueInv
    <3> QED
      BY <1>1, <2>1, <3>1, <3>3, <3>4 DEF QueueInv
  <2>5. StoreInv'
    BY <1>1, <2>1 DEF StoreInv
  <2> QED
    BY <1>1, <2>1, <2>2, <2>3, <2>4, <2>5, <2>7 DEF MirrorInv, MirrorType
<1> QED
  BY <1>2, <1>3 DEF Enqueue

LEMMA DrainInv ==
    ASSUME MirrorInv, DrainToStore
    PROVE  MirrorInv'
<1>1. MirrorType /\ QueueInv /\ StoreInv
      /\ stats.enqueued = Len(accepted) /\ stats.drained = Len(mirrored)
  BY DEF MirrorInv
<1>2. PICK after : after = mirrored \o mirror
  OBVIOUS
<1>3. PICK n : n = Len(mirrored)
  OBVIOUS
<1>4. /\ n \in Nat /\ after \in Seq(Recorded) /\ Len(after) = n + Len(mirror)
      /\ \A i \in 1..n : after[i] = mirrored[i]
      /\ \A i \in 1..Len(mirror) : after[n + i] = mirror[i]
  BY <1>1, <1>2, <1>3, JoinedFacts DEF MirrorType
<1>5. /\ mirror' = <<>> /\ UNCHANGED <<ticks, accepted>>
  BY DEF DrainToStore
<1>6. DOMAIN mirror = 1..Len(mirror) /\ Len(mirror) \in Nat /\ Len(fate) \in Nat
  BY <1>1 DEF MirrorType
<1>7. ASSUME NEW batch \in Seq(Nat), Len(batch) = Len(mirror), fate' = fate \o batch
      PROVE  /\ fate' \in Seq(Nat) /\ Len(fate') = Len(fate) + Len(mirror)
             /\ \A i \in 1..Len(fate) : fate'[i] = fate[i]
             /\ \A i \in 1..Len(mirror) : fate'[Len(fate) + i] = batch[i]
  <2>1. fate \in Seq(Nat)
    BY <1>1 DEF MirrorType
  <2>2. PICK u : u = fate \o batch
    OBVIOUS
  <2>3. /\ u \in Seq(Nat) /\ Len(u) = Len(fate) + Len(batch)
        /\ \A i \in 1..Len(fate) : u[i] = fate[i]
        /\ \A i \in 1..Len(batch) : u[Len(fate) + i] = batch[i]
    BY <2>1, <2>2, JoinedFacts
  <2> QED
    BY <1>7, <2>2, <2>3
<1>8. CASE mirrored' = mirrored /\ stats' = stats
           /\ fate' = fate \o [i \in DOMAIN mirror |-> 0]
  <2>1. PICK batch : batch = [i \in 1..Len(mirror) |-> 0]
    OBVIOUS
  <2>8. batch \in [1..Len(mirror) -> Nat]
    BY <1>6, <2>1
  <2>9. batch \in Seq(Nat) /\ Len(batch) = Len(mirror)
    BY <1>6, <2>8, SeqFromFunction
  <2>2. /\ fate' \in Seq(Nat) /\ Len(fate') = Len(fate) + Len(mirror)
        /\ \A i \in 1..Len(fate) : fate'[i] = fate[i]
        /\ \A i \in 1..Len(mirror) : fate'[Len(fate) + i] = 0
    BY <1>6, <1>7, <1>8, <2>1, <2>9
  <2>3. \A i \in 1..Len(fate') : i \in 1..Len(fate) \/ fate'[i] = 0
    <3> SUFFICES ASSUME NEW i \in 1..Len(fate'), i \notin 1..Len(fate) PROVE fate'[i] = 0
      OBVIOUS
    <3>1. i - Len(fate) \in 1..Len(mirror) /\ i = Len(fate) + (i - Len(fate))
      BY <1>6, <2>2
    <3> QED
      BY <2>2, <3>1
  <2>4. MirrorType'
    BY <1>1, <1>5, <1>8, <2>2 DEF MirrorType
  <2>5. QueueInv'
    <3>1. Len(accepted') = Len(fate') + Len(mirror') /\ Len(mirror') = 0
      BY <1>1, <1>5, <1>6, <2>2 DEF QueueInv
    <3>2. \A i \in 1..Len(fate') : fate'[i] # 0 =>
            fate'[i] \in 1..Len(mirrored') /\ mirrored'[fate'[i]] = accepted'[i]
      BY <1>1, <1>5, <1>8, <2>2, <2>3 DEF QueueInv
    <3>3. \A s \in 1..Len(mirrored') : \E i \in 1..Len(fate') : fate'[i] = s
      <4> SUFFICES ASSUME NEW s \in 1..Len(mirrored) PROVE \E i \in 1..Len(fate') : fate'[i] = s
        BY <1>8
      <4>1. PICK i \in 1..Len(fate) : fate[i] = s
        BY <1>1 DEF QueueInv
      <4>2. i \in 1..Len(fate')
        BY <1>6, <2>2
      <4> QED
        BY <2>2, <4>1, <4>2
    <3>4. \A i, j \in 1..Len(fate') : i < j /\ fate'[i] # 0 /\ fate'[j] # 0 => fate'[i] < fate'[j]
      BY <1>1, <2>2, <2>3 DEF QueueInv
    <3> QED
      BY <3>1, <3>2, <3>3, <3>4 DEF QueueInv
  <2> QED
    BY <1>1, <1>5, <1>8, <2>4, <2>5 DEF MirrorInv, StoreInv
<1>9. CASE /\ mirrored' = after /\ stats' = [stats EXCEPT !.drained = @ + Len(mirror)]
           /\ fate' = fate \o [i \in DOMAIN mirror |-> n + i]
           /\ \A i \in n + 1..Len(after) : Storable(SubSeq(after, 1, i - 1), after[i])
  <2>1. PICK batch : batch = [i \in 1..Len(mirror) |-> n + i]
    OBVIOUS
  <2>8. batch \in [1..Len(mirror) -> Nat]
    BY <1>4, <1>6, <2>1
  <2>9. batch \in Seq(Nat) /\ Len(batch) = Len(mirror)
    BY <1>6, <2>8, SeqFromFunction
  <2>2. /\ fate' \in Seq(Nat) /\ Len(fate') = Len(fate) + Len(mirror)
        /\ \A i \in 1..Len(fate) : fate'[i] = fate[i]
        /\ \A i \in 1..Len(mirror) : fate'[Len(fate) + i] = n + i
    BY <1>6, <1>7, <1>9, <2>1, <2>9
  <2>3. \A i \in 1..Len(fate') : i \in 1..Len(fate) \/
            (i - Len(fate) \in 1..Len(mirror) /\ fate'[i] = n + (i - Len(fate)))
    <3> SUFFICES ASSUME NEW i \in 1..Len(fate'), i \notin 1..Len(fate)
                 PROVE  i - Len(fate) \in 1..Len(mirror) /\ fate'[i] = n + (i - Len(fate))
      OBVIOUS
    <3>1. i - Len(fate) \in 1..Len(mirror) /\ i = Len(fate) + (i - Len(fate))
      BY <1>6, <2>2
    <3> QED
      BY <2>2, <3>1
  <2>4. MirrorType' /\ stats'.enqueued = Len(accepted') /\ stats'.drained = Len(mirrored')
    <3>1. /\ stats' \in [enqueued : Nat, drained : Nat, backpressure : Nat]
          /\ stats'.enqueued = stats.enqueued /\ stats'.drained = stats.drained + Len(mirror)
      BY <1>1, <1>6, <1>9 DEF MirrorType
    <3> QED
      BY <1>1, <1>3, <1>4, <1>5, <1>9, <2>2, <3>1 DEF MirrorType
  <2>5. QueueInv'
    <3>1. Len(accepted') = Len(fate') + Len(mirror') /\ Len(mirror') = 0
      BY <1>1, <1>5, <1>6, <2>2 DEF QueueInv
    <3>2. ASSUME NEW i \in 1..Len(fate'), fate'[i] # 0
          PROVE  fate'[i] \in 1..Len(mirrored') /\ mirrored'[fate'[i]] = accepted'[i]
      <4>1. CASE i \in 1..Len(fate)
        <5>1. fate[i] \in 1..n /\ mirrored[fate[i]] = accepted[i]
          BY <1>1, <1>3, <2>2, <3>2, <4>1 DEF QueueInv
        <5> QED
          BY <1>4, <1>5, <1>6, <1>9, <2>2, <4>1, <5>1
      <4>2. CASE i - Len(fate) \in 1..Len(mirror) /\ fate'[i] = n + (i - Len(fate))
        <5>1. PICK k \in 1..Len(mirror) : k = i - Len(fate)
          BY <4>2
        <5>2. accepted[Len(fate) + k] = mirror[k]
          BY <1>1 DEF QueueInv
        <5>4. i = Len(fate) + k
          BY <1>6, <2>2, <5>1
        <5>3. after[n + k] = mirror[k] /\ n + k \in 1..Len(after)
          BY <1>4, <1>6
        <5> QED
          BY <1>5, <1>9, <4>2, <5>1, <5>2, <5>3, <5>4
      <4> QED
        BY <2>3, <4>1, <4>2
    <3>3. ASSUME NEW s \in 1..Len(mirrored') PROVE \E i \in 1..Len(fate') : fate'[i] = s
      <4>1. CASE s \in 1..n
        <5>1. PICK i \in 1..Len(fate) : fate[i] = s
          BY <1>1, <1>3, <4>1 DEF QueueInv
        <5>2. i \in 1..Len(fate')
          BY <1>6, <2>2
        <5> QED
          BY <2>2, <5>1, <5>2
      <4>2. CASE s \notin 1..n
        <5>1. PICK k \in 1..Len(mirror) : s = n + k
          <6>1. s - n \in 1..Len(mirror) /\ s = n + (s - n)
            BY <1>4, <1>6, <1>9, <4>2
          <6> QED
            BY <6>1
        <5>2. Len(fate) + k \in 1..Len(fate')
          BY <1>6, <2>2
        <5> QED
          BY <2>2, <5>1, <5>2
      <4> QED
        BY <4>1, <4>2
    <3>4. ASSUME NEW i \in 1..Len(fate'), NEW j \in 1..Len(fate'), i < j, fate'[i] # 0, fate'[j] # 0
          PROVE  fate'[i] < fate'[j]
      <4>1. \A k \in 1..Len(fate) : fate[k] # 0 => fate[k] \in 1..n
        BY <1>1, <1>3 DEF QueueInv
      <4>2. CASE j \in 1..Len(fate)
        <5>1. i \in 1..Len(fate)
          BY <1>6, <3>4, <4>2
        <5> QED
          BY <1>1, <2>2, <3>4, <4>2, <5>1 DEF QueueInv
      <4>3. CASE j \notin 1..Len(fate)
        <5>1. j - Len(fate) \in 1..Len(mirror) /\ fate'[j] = n + (j - Len(fate))
          BY <2>3, <4>3
        <5>2. CASE i \in 1..Len(fate)
          <6>1. fate'[i] \in 1..n
            BY <2>2, <3>4, <4>1, <5>2
          <6> QED
            BY <1>4, <1>6, <5>1, <6>1
        <5>3. CASE i - Len(fate) \in 1..Len(mirror) /\ fate'[i] = n + (i - Len(fate))
          BY <1>4, <1>6, <3>4, <5>1, <5>3
        <5> QED
          BY <2>3, <5>2, <5>3
      <4> QED
        BY <4>2, <4>3
    <3> QED
      BY <3>1, <3>2, <3>3, <3>4 DEF QueueInv
  <2>6. StoreInv'
    <3> SUFFICES ASSUME NEW i \in 1..Len(after)
                 PROVE  Storable(SubSeq(after, 1, i - 1), after[i])
      BY <1>9 DEF StoreInv
    <3>1. CASE i \in 1..n
      <4>1. SubSeq(after, 1, i - 1) = SubSeq(mirrored, 1, i - 1)
        BY <1>1, <1>2, <1>3, <3>1, SubSeqOfConcat1 DEF MirrorType
      <4> QED
        BY <1>1, <1>3, <1>4, <3>1, <4>1 DEF StoreInv
    <3>2. CASE i \in n + 1..Len(after)
      BY <1>9, <3>2
    <3> QED
      BY <1>4, <3>1, <3>2
  <2> QED
    BY <2>4, <2>5, <2>6 DEF MirrorInv
<1> QED
  BY <1>2, <1>3, <1>8, <1>9 DEF DrainToStore

LEMMA MirrorNextInv ==
    ASSUME MirrorInv, MirrorNext \/ UNCHANGED mirrorVars
    PROVE  MirrorInv'
<1>1. CASE UNCHANGED mirrorVars
  BY <1>1 DEF mirrorVars, MirrorInv, MirrorType, QueueInv, StoreInv
<1>2. ASSUME NEW cadence \in Cadences, TickCadence(cadence) PROVE MirrorInv'
  <2>1. UNCHANGED <<mirror, stats, mirrored, accepted, fate>>
        /\ ticks' = [ticks EXCEPT ![cadence] = @ + 1]
    BY <1>2 DEF TickCadence
  <2>2. ticks' \in [Cadences -> Nat]
    BY <2>1 DEF MirrorInv, MirrorType
  <2> QED
    BY <2>1, <2>2 DEF MirrorInv, MirrorType, QueueInv, StoreInv
<1>3. ASSUME NEW to, SetMode(to) PROVE MirrorInv'
  BY <1>3 DEF SetMode, MirrorInv, MirrorType, QueueInv, StoreInv
<1>4. ASSUME NEW stamped \in Stamped, NEW cadence \in Cadences,
             NEW causedBy \in {{}} \union {{s} : s \in 1..Len(mirrored) + Len(mirror)},
             Enqueue(Converted(stamped[1], stamped[2], ticks[cadence], causedBy))
      PROVE  MirrorInv'
  <2>1. ticks[cadence] \in Nat /\ causedBy \in SUBSET (Nat \ {0})
    <3>1. Len(mirrored) + Len(mirror) \in Nat /\ ticks[cadence] \in Nat
      BY DEF MirrorInv, MirrorType
    <3> QED
      BY <3>1
  <2>2. PICK at \in Nat : at = ticks[cadence]
    BY <2>1
  <2>3. Converted(stamped[1], stamped[2], at, causedBy) \in Recorded
    <3>1. PICK r : r = [record |-> stamped, at |-> at, causedBy |-> causedBy]
      OBVIOUS
    <3>2. /\ r \in [record : Stamped, at : Nat, causedBy : SUBSET (Nat \ {0})]
          /\ r.record = stamped /\ r.at = at /\ r.causedBy = causedBy
      BY <2>1, <3>1
    <3> QED
      BY <3>2 DEF Recorded
  <2> QED
    BY <1>4, <2>2, <2>3, EnqueueInv
<1> QED
  BY <1>1, <1>2, <1>3, <1>4, DrainInv DEF MirrorNext

LEMMA AccountsFollow == MirrorInv => MirrorAccountsForAll
<1> SUFFICES ASSUME MirrorInv PROVE MirrorAccountsForAll
  OBVIOUS
<1>1. MirrorType /\ QueueInv
  BY DEF MirrorInv
<1>2. PICK drained \in Seq(Recorded) :
        /\ drained = SubSeq(accepted, 1, Len(fate)) /\ Len(drained) = Len(fate)
        /\ \A i \in 1..Len(fate) : drained[i] = accepted[i]
  <2>1. Len(fate) \in 0..Len(accepted)
    BY <1>1 DEF MirrorType, QueueInv
  <2>2. \A i \in 1..Len(fate) : accepted[i] \in Recorded
    BY <1>1, <2>1 DEF MirrorType
  <2>3. PICK drained : drained = SubSeq(accepted, 1, Len(fate))
    OBVIOUS
  <2>4. 1 \in Int /\ Len(fate) \in Int /\ Len(fate) \in Nat
    BY <1>1 DEF MirrorType
  <2>5. /\ drained \in Seq(Recorded)
        /\ Len(drained) = IF 1 <= Len(fate) THEN Len(fate) - 1 + 1 ELSE 0
        /\ \A i \in 1..Len(fate) - 1 + 1 : drained[i] = accepted[1 + i - 1]
    BY <2>2, <2>3, <2>4, SubSeqProperties
  <2>6. Len(drained) = Len(fate) /\ \A i \in 1..Len(fate) : drained[i] = accepted[i]
    BY <2>4, <2>5
  <2> QED
    BY <2>3, <2>5, <2>6
<1>3. accepted = drained \o mirror
  <2>1. drained \o mirror \in Seq(Recorded) /\ Len(drained \o mirror) = Len(accepted)
    BY <1>1, <1>2 DEF MirrorType, QueueInv
  <2>2. ASSUME NEW i \in 1..Len(accepted) PROVE accepted[i] = (drained \o mirror)[i]
    <3>1. CASE i \in 1..Len(fate)
      BY <1>1, <1>2, <3>1 DEF MirrorType
    <3>2. CASE i \notin 1..Len(fate)
      <4>1. i - Len(fate) \in 1..Len(mirror) /\ i = Len(fate) + (i - Len(fate))
        BY <1>1, <3>2 DEF MirrorType, QueueInv
      <4>2. accepted[i] = mirror[i - Len(fate)]
        BY <1>1, <4>1 DEF QueueInv
      <4> QED
        BY <1>1, <1>2, <4>1, <4>2 DEF MirrorType
    <3> QED
      BY <3>1, <3>2
  <2> QED
    BY <1>1, <2>1, <2>2, SeqEqual DEF MirrorType
<1>4. DOMAIN fate = 1..Len(fate) /\ DOMAIN mirrored = 1..Len(mirrored)
  BY <1>1 DEF MirrorType
<1> QED
  BY <1>1, <1>2, <1>3, <1>4 DEF MirrorAccountsForAll, MirrorInv, QueueInv

-----------------------------------------------------------------------------
(* What the tracer may rely on: causes are earlier records, and known      *)
(* times never go back.                                                    *)
Ordered(events, n) ==
    /\ n \in Nat /\ DOMAIN events = 1..n
    /\ \A i \in 1..n : events[i].from \subseteq 1..i - 1 /\ events[i].known[2] \in Nat
    /\ \A i, j \in 1..n : i <= j => events[i].known[2] <= events[j].known[2]

LEMMA StoreIsOrdered ==
    ASSUME MirrorInv PROVE Ordered(mirrored, Len(mirrored))
<1>1. PICK n \in Nat : n = Len(mirrored) /\ DOMAIN mirrored = 1..n
  BY DEF MirrorInv, MirrorType
<1>2. ASSUME NEW i \in 1..n
      PROVE  /\ mirrored[i].from \subseteq 1..i - 1 /\ mirrored[i].known[2] \in Nat
             /\ i > 1 => mirrored[i - 1].known[2] <= mirrored[i].known[2]
  <2>1. PICK before : before = SubSeq(mirrored, 1, i - 1)
    OBVIOUS
  <2>2. Storable(before, mirrored[i])
    BY <1>1, <2>1 DEF MirrorInv, StoreInv
  <2>3. mirrored[i] \in Recorded /\ \A j \in 1..i - 1 : mirrored[j] \in Recorded
    BY <1>1 DEF MirrorInv, MirrorType
  <2>4. 1 \in Int /\ i - 1 \in Int /\ i - 1 \in Nat
    BY <1>1
  <2>5. /\ before \in Seq(Recorded)
        /\ Len(before) = IF 1 <= i - 1 THEN i - 1 - 1 + 1 ELSE 0
        /\ \A j \in 1..i - 1 - 1 + 1 : before[j] = mirrored[1 + j - 1]
    BY <2>1, <2>3, <2>4, SubSeqProperties
  <2>6. Len(before) = i - 1 /\ (i > 1 => before # <<>> /\ before[i - 1] = mirrored[i - 1])
    BY <2>4, <2>5
  <2>7. mirrored[i].known[2] \in Nat /\ mirrored[i].from \subseteq Nat \ {0}
    BY <2>3, RecordedFacts
  <2>8. \A c \in mirrored[i].from : c <= i - 1
    BY <2>2, <2>6 DEF Storable
  <2>9. i > 1 => mirrored[i - 1].known[2] <= mirrored[i].known[2]
    BY <2>2, <2>6 DEF Storable, Last
  <2> QED
    BY <2>4, <2>7, <2>8, <2>9
<1>3. ASSUME NEW i \in 1..n, NEW j \in 1..n, i <= j
      PROVE  mirrored[i].known[2] <= mirrored[j].known[2]
  <2> DEFINE T == {k \in Nat : i + k <= n => mirrored[i].known[2] <= mirrored[i + k].known[2]}
  <2>1. 0 \in T
    BY <1>2
  <2>2. ASSUME NEW k \in Nat, k \in T PROVE k + 1 \in T
    <3> SUFFICES ASSUME i + (k + 1) <= n
                 PROVE  mirrored[i].known[2] <= mirrored[i + (k + 1)].known[2]
      OBVIOUS
    <3>1. PICK m : m = i + (k + 1)
      OBVIOUS
    <3>2. m \in 1..n /\ m > 1 /\ m - 1 = i + k /\ m - 1 \in 1..n
      BY <1>1, <3>1
    <3>3. mirrored[i].known[2] <= mirrored[m - 1].known[2]
      BY <2>2, <3>2
    <3>4. mirrored[m - 1].known[2] <= mirrored[m].known[2]
      BY <1>2, <3>2
    <3>5. mirrored[i].known[2] \in Nat /\ mirrored[m - 1].known[2] \in Nat /\ mirrored[m].known[2] \in Nat
      BY <1>2, <3>2
    <3> QED
      BY <3>1, <3>3, <3>4, <3>5
  <2> HIDE DEF T
  <2>3. j - i \in Nat /\ i + (j - i) = j /\ j <= n
    BY <1>1, <1>3
  <2>4. j - i \in T
    BY <2>1, <2>2, <2>3, NaturalSet
  <2> QED
    BY <2>3, <2>4 DEF T
<1> QED
  BY <1>1, <1>2, <1>3 DEF Ordered

LineageStep(events, s, d, of) ==
    IF d = 0 THEN {s} ELSE of[d - 1] \union UNION {events[e].from : e \in of[d - 1]}

IsLineage(events, s, n, of) == of = [d \in 0..n |-> LineageStep(events, s, d, of)]

LEMMA LineageExists ==
    ASSUME NEW events, NEW s, NEW m \in Nat
    PROVE  \E of : IsLineage(events, s, m, of)
<1> DEFINE T == {n \in Nat : \E of : IsLineage(events, s, n, of)}
<1>1. 0 \in T
  <2>1. PICK of : of = [d \in 0..0 |-> {s}]
    OBVIOUS
  <2>2. \A d \in 0..0 : LineageStep(events, s, d, of) = {s}
    BY DEF LineageStep
  <2>3. IsLineage(events, s, 0, of)
    BY <2>1, <2>2 DEF IsLineage
  <2> QED
    BY <2>3
<1>2. ASSUME NEW n \in Nat, n \in T PROVE n + 1 \in T
  <2>1. PICK w : IsLineage(events, s, n, w)
    BY <1>2
  <2>2. PICK v : v = [d \in 0..n + 1 |-> LineageStep(events, s, d, w)]
    OBVIOUS
  <2>3. ASSUME NEW d \in 0..n PROVE v[d] = w[d]
    BY <2>1, <2>2 DEF IsLineage
  <2>4. ASSUME NEW d \in 0..n + 1
        PROVE  LineageStep(events, s, d, w) = LineageStep(events, s, d, v)
    <3>1. d # 0 => v[d - 1] = w[d - 1]
      BY <2>3
    <3> QED
      BY <3>1 DEF LineageStep
  <2>5. [d \in 0..n + 1 |-> LineageStep(events, s, d, w)]
          = [d \in 0..n + 1 |-> LineageStep(events, s, d, v)]
    BY <2>4, Zenon
  <2>6. IsLineage(events, s, n + 1, v)
    BY <2>2, <2>5 DEF IsLineage
  <2> QED
    BY <2>6
<1> HIDE DEF T
<1>3. m \in T
  BY <1>1, <1>2, NaturalSet
<1> QED
  BY <1>3 DEF T

LineageOf(events, s, n) == CHOOSE of : IsLineage(events, s, n, of)

(* The causes of an event, however deep, are the event and earlier ones.   *)
LEMMA LineageWithin ==
    ASSUME NEW events, NEW n, Ordered(events, n), NEW s \in 1..n, NEW depth \in Nat
    PROVE  Lineage(events, s, depth) \subseteq 1..s
<1>1. PICK of : of = LineageOf(events, s, depth)
  OBVIOUS
<1>2. IsLineage(events, s, depth, of)
  BY <1>1, LineageExists DEF LineageOf
<1>3. Lineage(events, s, depth) = of[depth]
  BY <1>1 DEF Lineage, LineageOf, IsLineage, LineageStep
<1>4. \A d \in 0..depth : of[d] = LineageStep(events, s, d, of)
  BY <1>2 DEF IsLineage
<1> DEFINE T == {d \in Nat : d <= depth => of[d] \subseteq 1..s}
<1>5. 0 \in T
  <2>1. of[0] = {s}
    <3>1. 0 \in 0..depth
      OBVIOUS
    <3> QED
      BY <1>4, <3>1 DEF LineageStep
  <2> QED
    BY <2>1 DEF Ordered
<1>6. ASSUME NEW d \in Nat, d \in T PROVE d + 1 \in T
  <2> SUFFICES ASSUME d + 1 <= depth PROVE of[d + 1] \subseteq 1..s
    OBVIOUS
  <2>1. of[d] \subseteq 1..s
    BY <1>6
  <2>2. of[d + 1] = of[d] \union UNION {events[e].from : e \in of[d]}
    <3>1. d + 1 \in 0..depth /\ d + 1 # 0 /\ (d + 1) - 1 = d
      OBVIOUS
    <3> QED
      BY <1>4, <3>1 DEF LineageStep
  <2>3. ASSUME NEW e \in of[d], NEW c \in events[e].from PROVE c \in 1..s
    <3>1. e \in 1..s /\ e \in 1..n /\ n \in Nat
      BY <2>1 DEF Ordered
    <3>2. c \in 1..e - 1
      BY <3>1 DEF Ordered
    <3> QED
      BY <3>1, <3>2
  <2> QED
    BY <2>1, <2>2, <2>3
<1> HIDE DEF T
<1>7. depth \in T
  BY <1>5, <1>6, NaturalSet
<1> QED
  BY <1>3, <1>7 DEF T

LEMMA FiniteBelow ==
    ASSUME NEW n \in Nat, NEW S \in SUBSET (1..n)
    PROVE  IsFiniteSet(S) /\ Cardinality(S) \in Nat
<1>1. IsFiniteSet(1..n)
  BY FS_Interval
<1> QED
  BY <1>1, FS_Subset, FS_CardinalityType

(* The nodes a trace shows.                                                *)
Shows(nodes, v) == \E i \in 1..Len(nodes) : nodes[i] = v

LEMMA JoinShows ==
    ASSUME NEW S, NEW s \in Seq(S), NEW t \in Seq(S), NEW u, u = s \o t
    PROVE  u \in Seq(S) /\ \A v : Shows(s, v) \/ Shows(t, v) => Shows(u, v)
<1>1. /\ u \in Seq(S) /\ Len(u) = Len(s) + Len(t) /\ Len(s) \in Nat /\ Len(t) \in Nat
      /\ \A i \in 1..Len(s) : u[i] = s[i]
      /\ \A i \in 1..Len(t) : u[Len(s) + i] = t[i]
  BY JoinedFacts
<1>2. ASSUME NEW v, Shows(s, v) PROVE Shows(u, v)
  <2>1. PICK i \in 1..Len(s) : s[i] = v
    BY <1>2 DEF Shows
  <2>2. i \in 1..Len(u)
    BY <1>1
  <2> QED
    BY <1>1, <2>1, <2>2 DEF Shows
<1>3. ASSUME NEW v, Shows(t, v) PROVE Shows(u, v)
  <2>1. PICK i \in 1..Len(t) : t[i] = v
    BY <1>3 DEF Shows
  <2>2. Len(s) + i \in 1..Len(u)
    BY <1>1
  <2> QED
    BY <1>1, <2>1, <2>2 DEF Shows
<1> QED
  BY <1>1, <1>2, <1>3

Joined(U, a, b, c, d, e, nodes) ==
    /\ a \in Seq(U) /\ b \in Seq(U) /\ c \in Seq(U) /\ d \in Seq(U) /\ e \in Seq(U)
    /\ nodes = a \o b \o c \o d \o e

ShowsParts(nodes, a, b, c) ==
    /\ DOMAIN nodes = 1..Len(nodes)
    /\ \A v : Shows(a, v) \/ Shows(b, v) \/ Shows(c, v) => Shows(nodes, v)

LEMMA PartsShow ==
    ASSUME NEW U, NEW a, NEW b, NEW c, NEW d, NEW e, NEW nodes, Joined(U, a, b, c, d, e, nodes)
    PROVE  ShowsParts(nodes, a, b, c)
<1>0. /\ a \in Seq(U) /\ b \in Seq(U) /\ c \in Seq(U) /\ d \in Seq(U) /\ e \in Seq(U)
      /\ nodes = a \o b \o c \o d \o e
  BY DEF Joined
<1>1. PICK f : f = a \o b
  OBVIOUS
<1>2. f \in Seq(U) /\ \A v : Shows(a, v) \/ Shows(b, v) => Shows(f, v)
  BY <1>0, <1>1, JoinShows
<1>3. PICK g : g = f \o c
  OBVIOUS
<1>4. g \in Seq(U) /\ \A v : Shows(f, v) \/ Shows(c, v) => Shows(g, v)
  BY <1>0, <1>2, <1>3, JoinShows
<1>5. PICK h : h = g \o d
  OBVIOUS
<1>6. h \in Seq(U) /\ \A v : Shows(g, v) => Shows(h, v)
  BY <1>0, <1>4, <1>5, JoinShows
<1>7. nodes = h \o e
  BY <1>0, <1>1, <1>3, <1>5
<1>8. nodes \in Seq(U) /\ \A v : Shows(h, v) => Shows(nodes, v)
  BY <1>0, <1>6, <1>7, JoinShows
<1>9. DOMAIN nodes = 1..Len(nodes)
  BY <1>8
<1> QED
  BY <1>2, <1>4, <1>6, <1>8, <1>9 DEF ShowsParts

(* The steps a trace has to name, and the gap that stands for each.        *)
Explained(nodes, s) ==
    \A step \in {"Percept", "Intention"} :
        \E i \in DOMAIN nodes :
            LET node == nodes[i] IN
            \/ node.step = step /\ node.of < s
            \/ node.step = "SourceGap"
               /\ node.of = IF step = "Percept" THEN "Perception" ELSE "IntentionSelection"

LEMMA NodesExplain ==
    ASSUME NEW events, NEW n, Ordered(events, n), NEW s \in 1..n, events[s].schema = "Action",
           NEW lineage \in SUBSET (1..s)
    PROVE  Explained(TraceNodes(events, s, lineage), s)
<1>0. n \in Nat /\ DOMAIN events = 1..n
  BY DEF Ordered
<1>1. PICK P, Q : /\ P = {e \in lineage : events[e].schema \notin {"Action", "Outcome"}}
                  /\ Q = {e \in DOMAIN events : events[e].schema = "Outcome" /\ s \in events[e].from}
  OBVIOUS
<1>2. PICK told, outcomes : told = Ranked(P) /\ outcomes = Ranked(Q)
  OBVIOUS
<1>3. P \in SUBSET (1..n) /\ Q \in SUBSET (1..n)
  <2>1. \A x \in 1..s : x \in 1..n
    BY <1>0
  <2> QED
    BY <1>0, <1>1, <2>1
<1>4. PICK k \in Nat, l \in Nat : k = Cardinality(P) /\ l = Cardinality(Q)
  BY <1>0, <1>3, FiniteBelow
<1>5. DOMAIN told = 1..k /\ DOMAIN outcomes = 1..l
  BY <1>2, <1>4 DEF Ranked
<1>6. PICK a, e : /\ a = [i \in 1..k |-> Node(events[told[i]].schema, told[i])]
                  /\ e = [i \in 1..l |-> Node("Outcome", outcomes[i])]
  OBVIOUS
<1>7. PICK percept, intention :
        /\ percept = \E x \in lineage : events[x].schema = "Percept"
        /\ intention = \E x \in lineage : events[x].schema = "Intention"
  OBVIOUS
<1>8. PICK b, c : b = Gap("Perception", ~percept) /\ c = Gap("IntentionSelection", ~intention)
  OBVIOUS
<1>9. PICK nodes : nodes = a \o b \o c \o <<Node("Action", s)>> \o e
  OBVIOUS
<1>10. TraceNodes(events, s, lineage) = nodes
  BY <1>1, <1>2, <1>5, <1>6, <1>7, <1>8, <1>9 DEF TraceNodes
<1>11. PICK U : /\ \A i \in 1..k : a[i] \in U
                /\ \A i \in 1..l : e[i] \in U
                /\ Node("Action", s) \in U
                /\ Node("SourceGap", "Perception") \in U
                /\ Node("SourceGap", "IntentionSelection") \in U
  <2>1. PICK U : U = {a[i] : i \in 1..k} \union {e[i] : i \in 1..l}
            \union {Node("Action", s), Node("SourceGap", "Perception"),
                    Node("SourceGap", "IntentionSelection")}
    OBVIOUS
  <2> QED
    BY <2>1
<1>12. a \in Seq(U) /\ e \in Seq(U) /\ Len(a) = k
  <2>1. a \in [1..k -> U] /\ e \in [1..l -> U]
    BY <1>6, <1>11
  <2> QED
    BY <2>1, SeqFromFunction
<1>13. b \in Seq(U) /\ c \in Seq(U) /\ <<Node("Action", s)>> \in Seq(U)
  <2>1. ASSUME NEW x \in U PROVE <<x>> \in Seq(U) /\ <<>> \in Seq(U)
    OBVIOUS
  <2> QED
    BY <1>8, <1>11, <2>1 DEF Gap
<1>14. /\ DOMAIN nodes = 1..Len(nodes)
       /\ \A v : Shows(a, v) \/ Shows(b, v) \/ Shows(c, v) => Shows(nodes, v)
  <2>1. PICK d \in Seq(U) : d = <<Node("Action", s)>>
    BY <1>13
  <2>2. nodes = a \o b \o c \o d \o e
    BY <1>9, <2>1
  <2>3. Joined(U, a, b, c, d, e, nodes)
    BY <1>12, <1>13, <2>2 DEF Joined
  <2>4. ShowsParts(nodes, a, b, c)
    BY <2>3, PartsShow
  <2> QED
    BY <2>4 DEF ShowsParts
<1>15. ASSUME NEW x \in lineage, events[x].schema = "Percept" \/ events[x].schema = "Intention"
       PROVE  x < s /\ Shows(nodes, Node(events[x].schema, x))
  <2>1. x \in P /\ x # s
    BY <1>1, <1>15
  <2>2. x < s
    BY <1>0, <2>1
  <2>3. PICK i \in 1..k : told[i] = x
    <3>1. IsFiniteSet(P)
      BY <1>0, <1>3, FiniteBelow
    <3>2. P \in SUBSET Int
      BY <1>0, <1>3
    <3>3. \E i \in 1..Cardinality(P) : Ranked(P)[i] = x
      BY <2>1, <3>1, <3>2, RankedLists
    <3> QED
      BY <1>2, <1>4, <3>3
  <2>4. a[i] = Node(events[x].schema, x)
    BY <1>6, <2>3
  <2>5. Shows(a, Node(events[x].schema, x))
    BY <1>12, <2>4 DEF Shows
  <2> QED
    BY <1>14, <2>2, <2>5
<1>16. ~percept => Shows(nodes, Node("SourceGap", "Perception"))
  <2> SUFFICES ASSUME ~percept PROVE Shows(nodes, Node("SourceGap", "Perception"))
    OBVIOUS
  <2>1. b = <<Node("SourceGap", "Perception")>>
    BY <1>8 DEF Gap
  <2>2. Shows(b, Node("SourceGap", "Perception"))
    BY <2>1 DEF Shows
  <2> QED
    BY <1>14, <2>2
<1>17. ~intention => Shows(nodes, Node("SourceGap", "IntentionSelection"))
  <2> SUFFICES ASSUME ~intention PROVE Shows(nodes, Node("SourceGap", "IntentionSelection"))
    OBVIOUS
  <2>1. c = <<Node("SourceGap", "IntentionSelection")>>
    BY <1>8 DEF Gap
  <2>2. Shows(c, Node("SourceGap", "IntentionSelection"))
    BY <2>1 DEF Shows
  <2> QED
    BY <1>14, <2>2
<1>18. \A i \in 1..Len(nodes) : i \in DOMAIN nodes
  BY <1>14
<1>19. \/ \E x \in 1..Len(nodes) : nodes[x].step = "Percept" /\ nodes[x].of < s
       \/ \E x \in 1..Len(nodes) : nodes[x].step = "SourceGap" /\ nodes[x].of = "Perception"
  <2>1. CASE \E x \in lineage : events[x].schema = "Percept"
    <3>1. PICK x \in lineage : events[x].schema = "Percept"
      BY <2>1
    <3>2. x < s /\ Shows(nodes, Node("Percept", x))
      BY <1>15, <3>1
    <3>3. PICK i \in 1..Len(nodes) : nodes[i] = Node("Percept", x)
      BY <3>2 DEF Shows
    <3>4. nodes[i].step = "Percept" /\ nodes[i].of = x
      BY <3>3 DEF Node
    <3> QED
      BY <3>2, <3>4
  <2>2. CASE ~\E x \in lineage : events[x].schema = "Percept"
    <3>1. Shows(nodes, Node("SourceGap", "Perception"))
      BY <1>7, <1>16, <2>2
    <3>2. PICK i \in 1..Len(nodes) : nodes[i] = Node("SourceGap", "Perception")
      BY <3>1 DEF Shows
    <3>3. nodes[i].step = "SourceGap" /\ nodes[i].of = "Perception"
      BY <3>2 DEF Node
    <3> QED
      BY <3>3
  <2> QED
    BY <2>1, <2>2
<1>20. \/ \E x \in 1..Len(nodes) : nodes[x].step = "Intention" /\ nodes[x].of < s
       \/ \E x \in 1..Len(nodes) : nodes[x].step = "SourceGap" /\ nodes[x].of = "IntentionSelection"
  <2>1. CASE \E x \in lineage : events[x].schema = "Intention"
    <3>1. PICK x \in lineage : events[x].schema = "Intention"
      BY <2>1
    <3>2. x < s /\ Shows(nodes, Node("Intention", x))
      BY <1>15, <3>1
    <3>3. PICK i \in 1..Len(nodes) : nodes[i] = Node("Intention", x)
      BY <3>2 DEF Shows
    <3>4. nodes[i].step = "Intention" /\ nodes[i].of = x
      BY <3>3 DEF Node
    <3> QED
      BY <3>2, <3>4
  <2>2. CASE ~\E x \in lineage : events[x].schema = "Intention"
    <3>1. Shows(nodes, Node("SourceGap", "IntentionSelection"))
      BY <1>7, <1>17, <2>2
    <3>2. PICK i \in 1..Len(nodes) : nodes[i] = Node("SourceGap", "IntentionSelection")
      BY <3>1 DEF Shows
    <3>3. nodes[i].step = "SourceGap" /\ nodes[i].of = "IntentionSelection"
      BY <3>2 DEF Node
    <3> QED
      BY <3>3
  <2> QED
    BY <2>1, <2>2
<1> QED
  BY <1>10, <1>18, <1>19, <1>20 DEF Explained

LEMMA TracesFollow == MirrorInv => ActionsTrace
<1> SUFFICES ASSUME MirrorInv, NEW s \in DOMAIN mirrored, mirrored[s].schema = "Action"
             PROVE  /\ TraceAction(mirrored, s).error = None
                    /\ Explained(TraceAction(mirrored, s).nodes, s)
  BY DEF ActionsTrace, Explained
<1>1. PICK n : n = Len(mirrored) /\ Ordered(mirrored, n)
  BY StoreIsOrdered
<1>2. s \in 1..n /\ n \in Nat
  BY <1>1 DEF Ordered
<1>3. PICK lineage : lineage = Lineage(mirrored, s, TraceDepth)
  OBVIOUS
<1>4. lineage \in SUBSET (1..s)
  BY <1>1, <1>2, <1>3, LineageWithin DEF TraceDepth
<1>5. ~\E e \in lineage : mirrored[e].known[2] > mirrored[s].known[2]
  BY <1>1, <1>2, <1>4 DEF Ordered
<1>6. /\ TraceAction(mirrored, s).error = None
      /\ TraceAction(mirrored, s).nodes = TraceNodes(mirrored, s, lineage)
  BY <1>3, <1>5 DEF TraceAction
<1> QED
  BY <1>1, <1>2, <1>4, <1>6, NodesExplain

-----------------------------------------------------------------------------
(* The causal graph.                                                       *)

LEMMA OnceTail ==
    ASSUME NEW S, NEW s \in Seq(S), s # <<>>, Once(s), NEW t, t = Tail(s)
    PROVE  /\ Head(s) \in Range(s) /\ Head(s) \in S
           /\ t \in Seq(S) /\ Once(t) /\ Range(t) = Range(s) \ {Head(s)}
<1>1. /\ t \in Seq(S) /\ Len(s) \in Nat /\ Len(s) # 0 /\ Len(t) = Len(s) - 1
      /\ Head(s) = s[1] /\ Head(s) \in S
      /\ \A i \in 1..Len(t) : t[i] = s[i + 1]
  BY HeadTailProperties, EmptySeq
<1>2. Head(s) \in Range(s)
  <2>1. 1 \in 1..Len(s)
    BY <1>1
  <2> QED
    BY <1>1, <2>1, RangeFacts
<1>3. Once(t)
  <2>1. SUFFICES ASSUME NEW i \in 1..Len(t), NEW j \in 1..Len(t), t[i] = t[j]
                 PROVE  i = j
    BY DEF Once
  <2>2. i + 1 \in 1..Len(s) /\ j + 1 \in 1..Len(s)
    BY <1>1
  <2>3. i + 1 = j + 1
    BY <1>1, <2>1, <2>2 DEF Once
  <2> QED
    BY <2>3
<1>4. ASSUME NEW x \in Range(t) PROVE x \in Range(s) /\ x # Head(s)
  <2>1. PICK i \in 1..Len(t) : t[i] = x
    BY <1>1, RangeFacts
  <2>2. i + 1 \in 1..Len(s) /\ 1 \in 1..Len(s) /\ i + 1 # 1 /\ x = s[i + 1]
    BY <1>1, <2>1
  <2>3. s[i + 1] # s[1]
    BY <2>2 DEF Once
  <2> QED
    BY <1>1, <2>2, <2>3, RangeFacts
<1>5. ASSUME NEW x \in Range(s), x # Head(s) PROVE x \in Range(t)
  <2>1. PICK i \in 1..Len(s) : s[i] = x
    BY RangeFacts
  <2>2. i # 1
    BY <1>1, <1>5, <2>1
  <2>3. i - 1 \in 1..Len(t) /\ (i - 1) + 1 = i
    BY <1>1, <2>2
  <2>4. t[i - 1] = x
    BY <1>1, <2>1, <2>3
  <2> QED
    BY <1>1, <2>3, <2>4, RangeFacts
<1> QED
  BY <1>1, <1>2, <1>3, <1>4, <1>5

Causes(e) == Range(Neighbours(causes, e))
Effects(e) == Range(Neighbours(effects, e))

(* The two indexes hold the same edges, each once, and every set of events *)
(* has one with no cause in the set: there is no cycle.                    *)
IndexInv(index) ==
    /\ DOMAIN index \subseteq EventIds
    /\ \A e \in DOMAIN index : index[e] \in Seq(EventIds) /\ Once(index[e])

Acyclic ==
    \A S \in SUBSET EventIds : S # {} => \E x \in S : Causes(x) \intersect S = {}

GraphInv ==
    /\ IndexInv(causes) /\ IndexInv(effects)
    /\ \A c, e \in EventIds : e \in Effects(c) <=> c \in Causes(e)
    /\ Acyclic

(* The causes an event of the sort still waits for: those not in the order *)
(* yet, and the last of the order while the event is still to be released. *)
Pending(s, v) ==
    {c \in Causes(v) :
        \/ c \notin Range(s.order)
        \/ c = s.order[Len(s.order)] /\ v \in Range(s.releasing)}

CausesFirst(order) ==
    \A j \in 1..Len(order) : \A c \in Causes(order[j]) :
        \E i \in 1..Len(order) : i < j /\ order[i] = c

SortInv(s) ==
    /\ s.degree \in [DOMAIN InDegrees -> Nat]
    /\ s.queue \in Seq(DOMAIN InDegrees) /\ Once(s.queue)
    /\ s.order \in Seq(DOMAIN InDegrees) /\ Once(s.order)
    /\ s.releasing \in Seq(DOMAIN InDegrees) /\ Once(s.releasing)
    /\ Range(s.queue) \intersect Range(s.order) = {}
    /\ s.releasing # <<>> =>
          s.order # <<>> /\ Range(s.releasing) \subseteq Effects(s.order[Len(s.order)])
    /\ \A v \in DOMAIN InDegrees :
          /\ s.degree[v] = Cardinality(Pending(s, v))
          /\ v \in Range(s.queue) \union Range(s.order) <=> s.degree[v] = 0
    /\ CausesFirst(s.order)

CausalInv == GraphInv /\ (\A s \in sorting : SortInv(s)) /\ SortIsTopological

LEMMA IndexFacts ==
    ASSUME NEW index, IndexInv(index), NEW e
    PROVE  /\ Neighbours(index, e) \in Seq(EventIds) /\ Once(Neighbours(index, e))
           /\ e \notin DOMAIN index => Neighbours(index, e) = <<>>
           /\ Range(Neighbours(index, e)) \subseteq EventIds
<1>1. Neighbours(index, e) \in Seq(EventIds) /\ Once(Neighbours(index, e))
  BY DEF IndexInv, Neighbours, Once
<1>2. e \notin DOMAIN index => Neighbours(index, e) = <<>>
  BY DEF Neighbours
<1> QED
  BY <1>1, <1>2, RangeFacts

LEMMA NodeFacts ==
    ASSUME GraphInv
    PROVE  /\ DOMAIN InDegrees \subseteq EventIds /\ IsFiniteSet(DOMAIN InDegrees)
           /\ DOMAIN causes \subseteq DOMAIN InDegrees
           /\ \A e \in EventIds : Causes(e) \subseteq DOMAIN InDegrees
           /\ \A e \in EventIds : Effects(e) \subseteq DOMAIN InDegrees
           /\ \A e : IsFiniteSet(Causes(e))
           /\ \A e \in DOMAIN InDegrees : InDegrees[e] = Len(Neighbours(causes, e))
<1>1. DOMAIN InDegrees = DOMAIN causes \union UNION {Range(causes[x]) : x \in DOMAIN causes}
  BY DEF InDegrees
<1>2. \A e \in DOMAIN InDegrees : InDegrees[e] = Len(Neighbours(causes, e))
  BY DEF InDegrees
<1>3. ASSUME NEW x \in DOMAIN causes PROVE Causes(x) = Range(causes[x])
  BY DEF Causes, Neighbours
<1>4. ASSUME NEW e PROVE Causes(e) \subseteq EventIds
  BY IndexFacts DEF GraphInv, Causes
<1>5. DOMAIN InDegrees \subseteq EventIds
  BY <1>1, <1>3, <1>4 DEF GraphInv, IndexInv
<1>6. ASSUME NEW e, e \notin DOMAIN causes PROVE Causes(e) = {}
  <2>1. Neighbours(causes, e) = <<>>
    BY <1>6 DEF Neighbours
  <2> QED
    BY <2>1 DEF Causes, Range
<1>7. ASSUME NEW e PROVE Causes(e) \subseteq DOMAIN InDegrees
  <2>1. CASE e \in DOMAIN causes
    BY <1>1, <1>3, <2>1
  <2> QED
    BY <1>6, <2>1
<1>8. ASSUME NEW e \in EventIds PROVE Effects(e) \subseteq DOMAIN InDegrees
  <2>1. ASSUME NEW v \in Effects(e) PROVE v \in DOMAIN InDegrees
    <3>1. v \in EventIds
      BY IndexFacts DEF GraphInv, Effects
    <3>2. e \in Causes(v)
      BY <3>1 DEF GraphInv
    <3> QED
      BY <1>1, <1>6, <3>2
  <2> QED
    BY <2>1
<1>9. IsFiniteSet(EventIds)
  BY CausalAssumption, FS_Interval DEF EventIds
<1>10. IsFiniteSet(DOMAIN InDegrees) /\ \A e : IsFiniteSet(Causes(e))
  BY <1>4, <1>5, <1>9, FS_Subset
<1> QED
  BY <1>1, <1>2, <1>5, <1>7, <1>8, <1>10

-----------------------------------------------------------------------------
LEMMA CausalInitInv == CausalInit => CausalInv
<1> SUFFICES ASSUME CausalInit PROVE CausalInv
  OBVIOUS
<1>1. causes = <<>> /\ effects = <<>> /\ sorting = {} /\ sorted = {}
  BY DEF CausalInit, None
<1>2. DOMAIN causes = {} /\ DOMAIN effects = {}
  BY <1>1
<1>3. \A e : Neighbours(causes, e) = <<>> /\ Neighbours(effects, e) = <<>>
  BY <1>2 DEF Neighbours
<1>4. \A e : Causes(e) = {} /\ Effects(e) = {}
  BY <1>3 DEF Causes, Effects, Range
<1>5. IndexInv(causes) /\ IndexInv(effects)
  BY <1>2 DEF IndexInv
<1>6. Acyclic
  BY <1>4 DEF Acyclic
<1> QED
  BY <1>1, <1>4, <1>5, <1>6 DEF CausalInv, GraphInv, SortIsTopological

(* A registration makes no cycle: the events is_ancestor_of visited from a *)
(* cause are closed under causes and do not hold the event.                *)
LEMMA AddEventAcyclic ==
    ASSUME Acyclic, NEW event \in EventIds, NEW from \in SUBSET EventIds,
           \A c \in from : ~IsAncestorOf(event, c),
           \A x : Causes(x)' = IF x = event THEN from ELSE Causes(x)
    PROVE  Acyclic'
<1>1. SUFFICES ASSUME NEW S \in SUBSET EventIds, S # {}
               PROVE  \E x \in S : Causes(x)' \intersect S = {}
  BY DEF Acyclic, EventIds
<1>2. CASE event \notin S
  BY <1>1, <1>2 DEF Acyclic
<1>3. CASE event \in S /\ from \intersect S = {}
  BY <1>3
<1>4. CASE event \in S /\ from \intersect S # {}
  <2>1. PICK c \in from : c \in S
    BY <1>4
  <2>2. PICK V \in SUBSET EventIds :
            c \in V /\ event \notin V /\ \A x \in V : Causes(x) \subseteq V
    BY DEF IsAncestorOf, Causes
  <2>3. S \intersect V # {} /\ S \intersect V \in SUBSET EventIds
    BY <2>1, <2>2
  <2>4. PICK x \in S \intersect V : Causes(x) \intersect (S \intersect V) = {}
    BY <2>3 DEF Acyclic
  <2>5. Causes(x)' \intersect S = {}
    BY <2>2, <2>4
  <2> QED
    BY <2>4, <2>5
<1> QED
  BY <1>2, <1>3, <1>4

LEMMA AddEventInv ==
    ASSUME CausalInv, ~Reregister,
           NEW event \in EventIds, NEW from \in SUBSET EventIds, AddEvent(event, from)
    PROVE  CausalInv'
<1>1. /\ sorting' = {} /\ sorted' = {} /\ event \notin DOMAIN causes
      /\ \A c \in from : ~IsAncestorOf(event, c)
      /\ effects' = EffectsWith(event, from)
      /\ causes' = Put(causes, event, Ranked(from))
  BY DEF AddEvent, None
<1>2. IndexInv(causes) /\ IndexInv(effects) /\ Acyclic
  BY DEF CausalInv, GraphInv
<1>3. PICK listed : listed = Ranked(from)
  OBVIOUS
<1>4. listed \in Seq(EventIds) /\ Once(listed) /\ Range(listed) = from
  <2>1. listed \in Seq(from) /\ Once(listed) /\ Range(listed) = from
    BY <1>3, CausalAssumption, RankedUpTo DEF EventIds
  <2> QED
    BY <2>1, SeqMonotonic
<1>5. /\ DOMAIN causes' = DOMAIN causes \union {event}
      /\ causes'[event] = listed
      /\ \A x \in DOMAIN causes : x # event /\ causes'[x] = causes[x]
  BY <1>1, <1>3 DEF Put
<1>6. ASSUME NEW x
      PROVE  Neighbours(causes', x) = IF x = event THEN listed ELSE Neighbours(causes, x)
  BY <1>5 DEF Neighbours
<1>7. ASSUME NEW x PROVE Causes(x)' = IF x = event THEN from ELSE Causes(x)
  BY <1>4, <1>6 DEF Causes
<1>8. IndexInv(causes')
  BY <1>2, <1>4, <1>5 DEF IndexInv, EventIds
<1>9. Acyclic'
  BY <1>1, <1>2, <1>7, AddEventAcyclic
<1>10. Causes(event) = {}
  <2>1. Neighbours(causes, event) = <<>>
    BY <1>1 DEF Neighbours
  <2> QED
    BY <2>1 DEF Causes, Range
<1>11. \A x \in EventIds : event \notin Effects(x)
  BY <1>10 DEF CausalInv, GraphInv
<1>12. /\ DOMAIN effects' = DOMAIN effects \union from \union {event}
       /\ \A x \in from : effects'[x] = Append(Neighbours(effects, x), event)
       /\ \A x \in DOMAIN effects' : x \notin from => effects'[x] = Neighbours(effects, x)
  <2>1. ASSUME NEW x \in from PROVE ~Contains(Neighbours(effects, x), event)
    <3>1. Neighbours(effects, x) \in Seq(EventIds) /\ event \notin Range(Neighbours(effects, x))
      BY <1>2, <1>11, IndexFacts DEF Effects
    <3> QED
      BY <3>1, RangeFacts DEF Contains
  <2> QED
    BY <1>1, <2>1 DEF EffectsWith
<1>13. ASSUME NEW x \in EventIds
       PROVE  /\ Neighbours(effects', x) \in Seq(EventIds) /\ Once(Neighbours(effects', x))
              /\ Effects(x)' = Effects(x) \union (IF x \in from THEN {event} ELSE {})
  <2>1. /\ Neighbours(effects, x) \in Seq(EventIds) /\ Once(Neighbours(effects, x))
        /\ x \notin DOMAIN effects => Neighbours(effects, x) = <<>>
    BY <1>2, IndexFacts
  <2>2. CASE x \in from
    <3>1. Neighbours(effects', x) = Append(Neighbours(effects, x), event)
      BY <1>12, <2>2 DEF Neighbours
    <3>2. event \notin Range(Neighbours(effects, x))
      BY <1>11 DEF Effects
    <3>3. PICK old, new : old = Neighbours(effects, x) /\ new = Neighbours(effects', x)
      OBVIOUS
    <3>4. new \in Seq(EventIds) /\ Once(new) /\ Range(new) = Range(old) \union {event}
      <4>1. old \in Seq(EventIds) /\ Once(old) /\ event \notin Range(old) /\ new = Append(old, event)
        BY <2>1, <3>1, <3>2, <3>3
      <4> QED
        BY <4>1, OnceAppend
    <3> QED
      BY <2>2, <3>3, <3>4 DEF Effects
  <2>3. CASE x \notin from
    <3>1. Neighbours(effects', x) = Neighbours(effects, x)
      BY <1>12, <2>1, <2>3 DEF Neighbours
    <3> QED
      BY <2>1, <2>3, <3>1 DEF Effects
  <2> QED
    BY <2>2, <2>3
<1>14. IndexInv(effects')
  <2>1. DOMAIN effects' \subseteq EventIds
    BY <1>2, <1>12 DEF IndexInv
  <2>2. \A x \in DOMAIN effects' : Neighbours(effects', x) = effects'[x]
    BY DEF Neighbours
  <2> QED
    BY <1>13, <2>1, <2>2 DEF IndexInv, EventIds
<1>15. ASSUME NEW c \in EventIds, NEW e \in EventIds
       PROVE  e \in Effects(c)' <=> c \in Causes(e)'
  <2>1. e \in Effects(c) <=> c \in Causes(e)
    BY DEF CausalInv, GraphInv
  <2> QED
    BY <1>7, <1>11, <1>10, <1>13, <2>1
<1>16. GraphInv'
  BY <1>8, <1>9, <1>14, <1>15 DEF GraphInv, IndexInv, EventIds
<1> QED
  BY <1>1, <1>16 DEF CausalInv, SortIsTopological

-----------------------------------------------------------------------------
(* The steps of the sort leave the graph alone.                            *)
LEMMA GraphKept ==
    ASSUME GraphInv, UNCHANGED <<causes, effects>>
    PROVE  /\ GraphInv' /\ InDegrees' = InDegrees
           /\ \A e : Causes(e)' = Causes(e) /\ Effects(e)' = Effects(e)
<1>1. causes' = causes /\ effects' = effects
  OBVIOUS
<1>2. \A e : Causes(e)' = Causes(e) /\ Effects(e)' = Effects(e)
  BY <1>1 DEF Causes, Effects, Neighbours
<1>3. InDegrees' = InDegrees
  BY <1>1 DEF InDegrees, Neighbours
<1>4. GraphInv'
  BY <1>1, <1>2 DEF GraphInv, IndexInv, Acyclic, EventIds
<1> QED
  BY <1>2, <1>3, <1>4

LEMMA SortKept ==
    ASSUME GraphInv, UNCHANGED <<causes, effects>>, NEW s
    PROVE  SortInv(s) <=> SortInv(s)'
<1>1. InDegrees' = InDegrees /\ \A e : Causes(e)' = Causes(e) /\ Effects(e)' = Effects(e)
  BY GraphKept
<1>2. \A v : Pending(s, v)' = Pending(s, v)
  BY <1>1 DEF Pending
<1>3. CausesFirst(s.order)' <=> CausesFirst(s.order)
  BY <1>1, Zenon DEF CausesFirst
<1> QED
  BY <1>1, <1>2, <1>3, Zenon DEF SortInv

LEMMA OutcomeStays ==
    ASSUME CausalInv, UNCHANGED <<causes, effects>>, sorted' = sorted
    PROVE  SortIsTopological'
<1>1. InDegrees' = InDegrees
  BY GraphKept DEF CausalInv
<1> QED
  BY <1>1 DEF CausalInv, SortIsTopological, Neighbours

LEMMA SortStartInv ==
    ASSUME CausalInv, SortStart
    PROVE  CausalInv'
<1>1. GraphInv /\ UNCHANGED <<causes, effects>> /\ sorted' = {}
  BY DEF CausalInv, SortStart, None
<1>2. PICK N : N = DOMAIN InDegrees
  OBVIOUS
<1>3. PICK Z : Z = {e \in N : InDegrees[e] = 0}
  OBVIOUS
<1>4. PICK s : s = [degree |-> InDegrees, order |-> <<>>, releasing |-> <<>>, queue |-> Ranked(Z)]
  OBVIOUS
<1>5. sorting' = {s}
  BY <1>2, <1>3, <1>4 DEF SortStart, Some
<1>6. s.degree = InDegrees /\ s.order = <<>> /\ s.releasing = <<>> /\ s.queue = Ranked(Z)
  BY <1>4
<1>7. N \subseteq EventIds /\ \A e \in N : InDegrees[e] = Len(Neighbours(causes, e))
  BY <1>1, <1>2, NodeFacts
<1>8. s.queue \in Seq(N) /\ Once(s.queue) /\ Range(s.queue) = Z
  <2>1. s.queue \in Seq(Z) /\ Once(s.queue) /\ Range(s.queue) = Z
    BY <1>3, <1>6, <1>7, CausalAssumption, RankedUpTo DEF EventIds
  <2> QED
    BY <1>3, <2>1, SeqMonotonic
<1>9. ASSUME NEW v \in N
      PROVE  /\ InDegrees[v] \in Nat
             /\ InDegrees[v] = Cardinality(Causes(v))
             /\ Pending(s, v) = Causes(v)
  <2>1. PICK n : n = Neighbours(causes, v)
    OBVIOUS
  <2>2. n \in Seq(EventIds) /\ Once(n) /\ IsFiniteSet(Causes(v)) /\ Causes(v) = Range(n)
    BY <1>1, <2>1, IndexFacts, NodeFacts DEF GraphInv, Causes
  <2>3. n \in Seq(Range(n))
    BY <2>2, SeqOfRange
  <2>4. Len(n) = Cardinality(Causes(v)) /\ Len(n) \in Nat
    BY <2>2, <2>3, OnceCount
  <2>5. Range(s.order) = {}
    BY <1>6 DEF Range
  <2> QED
    BY <1>7, <2>1, <2>4, <2>5 DEF Pending
<1>10. s.degree \in [N -> Nat]
  BY <1>2, <1>6, <1>9 DEF InDegrees
<1>11. <<>> \in Seq(N) /\ Once(<<>>) /\ Range(<<>>) = {} /\ Len(<<>>) = 0
  BY DEF Once, Range
<1>12. \A v \in N : /\ s.degree[v] = Cardinality(Pending(s, v))
                    /\ v \in Range(s.queue) \union Range(s.order) <=> s.degree[v] = 0
  BY <1>3, <1>6, <1>8, <1>9, <1>11
<1>13. SortInv(s)
  BY <1>2, <1>6, <1>8, <1>10, <1>11, <1>12 DEF SortInv, CausesFirst
<1> QED
  BY <1>1, <1>5, <1>13, GraphKept, SortKept DEF CausalInv, SortIsTopological

(* The event that is popped has all of its causes in the order; it becomes *)
(* the last of the order, and none of its effects is released yet.         *)
LEMMA SortTurnInv ==
    ASSUME CausalInv, SortTurn
    PROVE  CausalInv'
<1>1. GraphInv /\ UNCHANGED <<causes, effects>> /\ sorted' = sorted
  BY DEF CausalInv, SortTurn
<1>2. PICK s \in sorting :
        /\ s.queue # <<>> /\ s.releasing = <<>>
        /\ sorting' = Some([s EXCEPT
              !.queue = Tail(@),
              !.order = IF Len(@) > Cardinality(DOMAIN s.degree) THEN @ ELSE Append(@, Head(s.queue)),
              !.releasing = Neighbours(effects, Head(s.queue))])
  BY DEF SortTurn
<1>3. PICK N : N = DOMAIN InDegrees
  OBVIOUS
<1>4. SortInv(s)
  BY DEF CausalInv
<1>5. PICK t : t = [s EXCEPT
              !.queue = Tail(@),
              !.order = IF Len(@) > Cardinality(DOMAIN s.degree) THEN @ ELSE Append(@, Head(s.queue)),
              !.releasing = Neighbours(effects, Head(s.queue))]
  OBVIOUS
<1>6. PICK u : u = Head(s.queue)
  OBVIOUS
<1>7. /\ DOMAIN s.degree = N
      /\ s.queue \in Seq(N) /\ Once(s.queue) /\ s.order \in Seq(N) /\ Once(s.order)
      /\ Range(s.queue) \intersect Range(s.order) = {}
  BY <1>3, <1>4 DEF SortInv
<1>8. /\ u \in Range(s.queue) /\ u \in N /\ u \notin Range(s.order)
      /\ Tail(s.queue) \in Seq(N) /\ Once(Tail(s.queue))
      /\ Range(Tail(s.queue)) = Range(s.queue) \ {u}
  BY <1>2, <1>6, <1>7, OnceTail
<1>9. IsFiniteSet(N) /\ N \subseteq EventIds
      /\ (\A e \in EventIds : Causes(e) \subseteq N /\ Effects(e) \subseteq N)
  BY <1>1, <1>3, NodeFacts
<1>10. ~(Len(s.order) > Cardinality(N))
  <2>1. Len(s.order) <= Cardinality(N) /\ Cardinality(N) \in Nat /\ Len(s.order) \in Nat
    BY <1>7, <1>9, OnceCount
  <2> QED
    BY <2>1
<1>11. /\ t.queue = Tail(s.queue) /\ t.order = Append(s.order, u)
       /\ t.releasing = Neighbours(effects, u) /\ t.degree = s.degree
  BY <1>5, <1>6, <1>7, <1>10
<1>12. sorting' = {t}
  BY <1>2, <1>5 DEF Some
<1>13. /\ t.order \in Seq(N) /\ Once(t.order) /\ Range(t.order) = Range(s.order) \union {u}
       /\ Len(t.order) = Len(s.order) + 1 /\ t.order[Len(t.order)] = u
       /\ \A i \in 1..Len(s.order) : t.order[i] = s.order[i]
  <2>1. Once(t.order) /\ Range(t.order) = Range(s.order) \union {u}
    BY <1>7, <1>8, <1>11, OnceAppend
  <2> QED
    BY <1>7, <1>8, <1>11, <2>1, AppendProperties
<1>14. t.releasing \in Seq(N) /\ Once(t.releasing) /\ Range(t.releasing) = Effects(u)
  <2>1. t.releasing \in Seq(EventIds) /\ Once(t.releasing) /\ Range(t.releasing) = Effects(u)
    BY <1>1, <1>11, IndexFacts DEF GraphInv, Effects
  <2>2. Range(t.releasing) \subseteq N
    BY <1>8, <1>9, <2>1
  <2>3. t.releasing \in Seq(Range(t.releasing))
    BY <2>1, SeqOfRange
  <2> QED
    BY <2>1, <2>2, <2>3, SeqMonotonic
<1>15. Range(s.releasing) = {}
  BY <1>2 DEF Range
<1>16. ASSUME NEW v \in N PROVE Pending(t, v) = Pending(s, v)
  <2>1. u \in Causes(v) => v \in Effects(u)
    BY <1>1, <1>8, <1>9 DEF GraphInv
  <2>2. Pending(s, v) = {c \in Causes(v) : c \notin Range(s.order)}
    BY <1>15 DEF Pending
  <2>3. Pending(t, v) = {c \in Causes(v) : c \notin Range(s.order) \union {u}
                                            \/ (c = u /\ v \in Effects(u))}
    BY <1>13, <1>14 DEF Pending
  <2> QED
    BY <1>8, <2>1, <2>2, <2>3
<1>17. \A v \in N : /\ t.degree[v] = Cardinality(Pending(t, v))
                    /\ v \in Range(t.queue) \union Range(t.order) <=> t.degree[v] = 0
  <2>1. ASSUME NEW v \in N
        PROVE  /\ s.degree[v] = Cardinality(Pending(s, v))
               /\ v \in Range(s.queue) \union Range(s.order) <=> s.degree[v] = 0
    BY <1>3, <1>4 DEF SortInv
  <2>2. Range(t.queue) \union Range(t.order) = Range(s.queue) \union Range(s.order)
    BY <1>8, <1>11, <1>13
  <2> QED
    BY <1>11, <1>16, <2>1, <2>2
<1>18. Causes(u) \subseteq Range(s.order)
  <2>1. s.degree[u] = 0 /\ s.degree[u] = Cardinality(Pending(s, u))
    BY <1>3, <1>4, <1>8 DEF SortInv
  <2>2. IsFiniteSet(Pending(s, u))
    BY <1>1, NodeFacts, FS_Subset DEF Pending
  <2>3. Pending(s, u) = {}
    BY <2>1, <2>2, FS_EmptySet
  <2> QED
    BY <2>3 DEF Pending
<1>19. ASSUME NEW j \in 1..Len(t.order), NEW c \in Causes(t.order[j])
       PROVE  \E i \in 1..Len(t.order) : i < j /\ t.order[i] = c
  <2>1. Len(s.order) \in Nat /\ (j \in 1..Len(s.order) \/ j = Len(s.order) + 1)
    BY <1>7, <1>13
  <2>2. PICK i \in 1..Len(s.order) : i < j /\ s.order[i] = c
    <3>1. CASE j \in 1..Len(s.order)
      BY <1>4, <1>13, <1>19, <3>1 DEF SortInv, CausesFirst
    <3>2. CASE j = Len(s.order) + 1
      <4>1. c \in Range(s.order)
        BY <1>13, <1>18, <1>19, <3>2
      <4>2. PICK i \in 1..Len(s.order) : s.order[i] = c
        BY <1>7, <4>1, RangeFacts
      <4> QED
        BY <2>1, <3>2, <4>2
    <3> QED
      BY <2>1, <3>1, <3>2
  <2>3. i \in 1..Len(t.order)
    BY <1>13, <2>1
  <2> QED
    BY <1>13, <2>2, <2>3
<1>19a. CausesFirst(t.order)
  BY <1>19 DEF CausesFirst
<1>20. t.degree \in [N -> Nat] /\ t.queue \in Seq(N) /\ Once(t.queue)
  BY <1>3, <1>4, <1>8, <1>11 DEF SortInv
<1>21. Range(t.queue) \intersect Range(t.order) = {}
  BY <1>7, <1>8, <1>11, <1>13
<1>22. t.order # <<>>
  BY <1>7, <1>8, <1>11, AppendProperties
<1>23. SortInv(t)
  BY <1>3, <1>13, <1>14, <1>17, <1>19a, <1>20, <1>21, <1>22 DEF SortInv
<1>24. SortInv(t)'
  BY <1>1, <1>23, SortKept
<1> QED
  BY <1>1, <1>12, <1>24, GraphKept, OutcomeStays DEF CausalInv

(* Releasing one effect takes the last of the order off what it waits for. *)
LEMMA SortReleaseInv ==
    ASSUME CausalInv, SortRelease
    PROVE  CausalInv'
<1>1. GraphInv /\ UNCHANGED <<causes, effects>> /\ sorted' = sorted
  BY DEF CausalInv, SortRelease
<1>2. PICK s \in sorting :
        /\ s.releasing # <<>>
        /\ LET v == Head(s.releasing)
               known == v \in DOMAIN s.degree
               d == IF s.degree[v] = 0 THEN 0 ELSE s.degree[v] - 1
           IN  sorting' = Some([s EXCEPT
                  !.releasing = Tail(@),
                  !.degree = IF known THEN [@ EXCEPT ![v] = d] ELSE @,
                  !.queue = IF known /\ d = 0 THEN Append(@, v) ELSE @])
  BY DEF SortRelease
<1>3. PICK N : N = DOMAIN InDegrees
  OBVIOUS
<1>4. SortInv(s)
  BY DEF CausalInv
<1>5. PICK v, u : v = Head(s.releasing) /\ u = s.order[Len(s.order)]
  OBVIOUS
<1>6. /\ s.degree \in [N -> Nat] /\ s.releasing \in Seq(N) /\ Once(s.releasing)
      /\ s.queue \in Seq(N) /\ Once(s.queue) /\ s.order \in Seq(N) /\ Once(s.order)
      /\ Range(s.queue) \intersect Range(s.order) = {}
      /\ s.order # <<>> /\ Range(s.releasing) \subseteq Effects(u)
  BY <1>2, <1>3, <1>4, <1>5 DEF SortInv
<1>7. /\ v \in Range(s.releasing) /\ v \in N
      /\ Tail(s.releasing) \in Seq(N) /\ Once(Tail(s.releasing))
      /\ Range(Tail(s.releasing)) = Range(s.releasing) \ {v}
  BY <1>2, <1>5, <1>6, OnceTail
<1>8. u \in N /\ u \in Range(s.order)
  <2>1. Len(s.order) \in 1..Len(s.order)
    BY <1>6, EmptySeq
  <2> QED
    BY <1>5, <1>6, <2>1, RangeFacts
<1>9. IsFiniteSet(N) /\ N \subseteq EventIds /\ IsFiniteSet(Causes(v))
  BY <1>1, <1>3, NodeFacts
<1>10. u \in Causes(v)
  BY <1>1, <1>6, <1>7, <1>8, <1>9 DEF GraphInv
<1>11. u \in Pending(s, v)
  BY <1>5, <1>7, <1>10 DEF Pending
<1>12. IsFiniteSet(Pending(s, v)) /\ Cardinality(Pending(s, v)) \in Nat
  BY <1>9, FS_Subset, FS_CardinalityType DEF Pending
<1>13. /\ s.degree[v] = Cardinality(Pending(s, v))
       /\ v \in Range(s.queue) \union Range(s.order) <=> s.degree[v] = 0
  BY <1>3, <1>4, <1>7 DEF SortInv
<1>14. s.degree[v] \in Nat /\ s.degree[v] # 0
  BY <1>11, <1>12, <1>13, FS_EmptySet
<1>15. PICK d : d = s.degree[v] - 1
  OBVIOUS
<1>16. PICK t : t = [s EXCEPT !.releasing = Tail(@),
                  !.degree = [@ EXCEPT ![v] = d],
                  !.queue = IF d = 0 THEN Append(@, v) ELSE @]
  OBVIOUS
<1>17. sorting' = {t}
  <2>1. v \in DOMAIN s.degree
    BY <1>6, <1>7
  <2> QED
    BY <1>2, <1>5, <1>14, <1>15, <1>16, <2>1 DEF Some
<1>18. /\ t.releasing = Tail(s.releasing) /\ t.degree = [s.degree EXCEPT ![v] = d]
       /\ t.queue = IF d = 0 THEN Append(s.queue, v) ELSE s.queue
       /\ t.order = s.order
  BY <1>16
<1>19. Pending(t, v) = Pending(s, v) \ {u}
  BY <1>5, <1>7, <1>8, <1>18 DEF Pending
<1>20. ASSUME NEW w \in N, w # v PROVE Pending(t, w) = Pending(s, w)
  BY <1>5, <1>7, <1>18, <1>20 DEF Pending
<1>21. d = Cardinality(Pending(t, v)) /\ d \in Nat
  <2>1. Cardinality(Pending(t, v)) = Cardinality(Pending(s, v)) - 1
    BY <1>11, <1>12, <1>19, FS_RemoveElement
  <2> QED
    BY <1>12, <1>13, <1>14, <1>15, <2>1
<1>22. /\ t.queue \in Seq(N) /\ Once(t.queue)
       /\ Range(t.queue) = Range(s.queue) \union (IF d = 0 THEN {v} ELSE {})
  <2>1. v \notin Range(s.queue)
    BY <1>13, <1>14
  <2>2. CASE d = 0
    <3>1. t.queue = Append(s.queue, v)
      BY <1>18, <2>2
    <3>2. t.queue \in Seq(N) /\ Once(t.queue) /\ Range(t.queue) = Range(s.queue) \union {v}
      BY <1>6, <1>7, <2>1, <3>1, OnceAppend
    <3> QED
      BY <2>2, <3>2
  <2>3. CASE d # 0
    BY <1>6, <1>18, <2>3
  <2> QED
    BY <2>2, <2>3
<1>23. t.degree \in [N -> Nat] /\ t.degree[v] = d /\ \A w \in N : w # v => t.degree[w] = s.degree[w]
  BY <1>6, <1>7, <1>18, <1>21
<1>24. ASSUME NEW w \in N
       PROVE  /\ t.degree[w] = Cardinality(Pending(t, w))
              /\ w \in Range(t.queue) \union Range(t.order) <=> t.degree[w] = 0
  <2>1. /\ s.degree[w] = Cardinality(Pending(s, w))
        /\ w \in Range(s.queue) \union Range(s.order) <=> s.degree[w] = 0
    BY <1>3, <1>4 DEF SortInv
  <2>2. CASE w = v
    BY <1>13, <1>14, <1>18, <1>21, <1>22, <1>23, <2>2
  <2>3. CASE w # v
    BY <1>18, <1>20, <1>22, <1>23, <2>1, <2>3
  <2> QED
    BY <2>2, <2>3
<1>25. Range(t.queue) \intersect Range(t.order) = {}
  BY <1>6, <1>13, <1>14, <1>18, <1>22
<1>26. Range(t.releasing) \subseteq Effects(t.order[Len(t.order)])
  BY <1>5, <1>6, <1>7, <1>18
<1>27. CausesFirst(t.order)
  BY <1>4, <1>18 DEF SortInv
<1>28. t.order \in Seq(N) /\ Once(t.order) /\ t.order # <<>> /\ t.releasing \in Seq(N) /\ Once(t.releasing)
  BY <1>6, <1>7, <1>18
<1>29. SortInv(t)
  BY <1>3, <1>22, <1>23, <1>24, <1>25, <1>26, <1>27, <1>28 DEF SortInv
<1>30. SortInv(t)'
  BY <1>1, <1>29, SortKept
<1> QED
  BY <1>1, <1>17, <1>30, GraphKept, OutcomeStays DEF CausalInv

(* At the end nothing is left over: what is not in the order would have an *)
(* event with no cause outside it, and that event would be in the queue.   *)
LEMMA SortEndInv ==
    ASSUME CausalInv, SortEnd
    PROVE  CausalInv'
<1>1. GraphInv /\ UNCHANGED <<causes, effects>> /\ sorting' = {}
  BY DEF CausalInv, SortEnd, None
<1>2. PICK s \in sorting :
        /\ s.queue = <<>> /\ s.releasing = <<>>
        /\ sorted' = Some([ok |-> Len(s.order) = Cardinality(DOMAIN s.degree), order |-> s.order])
  BY DEF SortEnd
<1>3. PICK N : N = DOMAIN InDegrees
  OBVIOUS
<1>4. SortInv(s)
  BY DEF CausalInv
<1>5. DOMAIN s.degree = N /\ s.order \in Seq(N) /\ Once(s.order)
  BY <1>3, <1>4 DEF SortInv
<1>6. IsFiniteSet(N) /\ N \subseteq EventIds
      /\ (\A e \in EventIds : Causes(e) \subseteq N)
  BY <1>1, <1>3, NodeFacts
<1>7. Range(s.queue) = {} /\ Range(s.releasing) = {}
  BY <1>2 DEF Range
<1>8. Range(s.order) \subseteq N
  BY <1>5, RangeFacts
<1>9. N \ Range(s.order) = {}
  <2>1. SUFFICES ASSUME N \ Range(s.order) # {} PROVE FALSE
    OBVIOUS
  <2>2. PICK x \in N \ Range(s.order) : Causes(x) \intersect (N \ Range(s.order)) = {}
    BY <1>1, <1>6, <2>1 DEF GraphInv, Acyclic
  <2>3. Pending(s, x) = {}
    BY <1>6, <1>7, <2>2 DEF Pending
  <2>4. s.degree[x] = 0
    <3>1. s.degree[x] = Cardinality(Pending(s, x))
      BY <1>3, <1>4, <2>2 DEF SortInv
    <3> QED
      BY <2>3, <3>1, FS_EmptySet
  <2>5. x \in Range(s.queue) \union Range(s.order)
    BY <1>3, <1>4, <2>2, <2>4 DEF SortInv
  <2> QED
    BY <1>7, <2>2, <2>5
<1>10. Range(s.order) = N /\ Len(s.order) = Cardinality(N)
  <2>1. Range(s.order) = N
    BY <1>8, <1>9
  <2> QED
    BY <1>5, <1>6, <2>1, OnceCount
<1>11. ASSUME NEW i \in DOMAIN s.order, NEW j \in DOMAIN s.order,
              s.order[i] \in Causes(s.order[j])
       PROVE  i < j
  <2>1. i \in 1..Len(s.order) /\ j \in 1..Len(s.order)
    BY <1>5
  <2>2. PICK k \in 1..Len(s.order) : k < j /\ s.order[k] = s.order[i]
    BY <1>4, <1>11, <2>1 DEF SortInv, CausesFirst
  <2>3. k = i
    BY <1>5, <2>1, <2>2 DEF Once
  <2> QED
    BY <2>2, <2>3
<1>12. PICK a : a = [ok |-> Len(s.order) = Cardinality(DOMAIN s.degree), order |-> s.order]
  OBVIOUS
<1>13. sorted' = {a} /\ a.ok /\ a.order = s.order
  BY <1>2, <1>5, <1>10, <1>12 DEF Some
<1>14. DOMAIN InDegrees' = N /\ \A e : Range(Neighbours(causes', e)) = Causes(e)
  BY <1>1, <1>3, GraphKept DEF Causes
<1>15. SortIsTopological'
  BY <1>10, <1>11, <1>13, <1>14 DEF SortIsTopological
<1> QED
  BY <1>1, <1>15, GraphKept DEF CausalInv

LEMMA CausalNextInv ==
    ASSUME CausalInv, ~Reregister, CausalNext \/ UNCHANGED causalVars
    PROVE  CausalInv'
<1>1. CASE \E event \in EventIds : \E from \in SUBSET EventIds : AddEvent(event, from)
  BY <1>1, AddEventInv
<1>2. CASE SortStart
  BY <1>2, SortStartInv
<1>3. CASE SortTurn
  BY <1>3, SortTurnInv
<1>4. CASE SortRelease
  BY <1>4, SortReleaseInv
<1>5. CASE SortEnd
  BY <1>5, SortEndInv
<1>6. CASE UNCHANGED causalVars
  <2>1. GraphInv /\ UNCHANGED <<causes, effects>> /\ sorted' = sorted /\ sorting' = sorting
    BY <1>6 DEF causalVars, CausalInv
  <2>2. \A s \in sorting' : SortInv(s)'
    <3>1. ASSUME NEW s \in sorting' PROVE SortInv(s)'
      <4>1. SortInv(s)
        BY <2>1 DEF CausalInv
      <4> QED
        BY <2>1, <4>1, SortKept
    <3> QED
      BY <3>1
  <2> QED
    BY <2>1, <2>2, GraphKept, OutcomeStays DEF CausalInv
<1> QED
  BY <1>1, <1>2, <1>3, <1>4, <1>5, <1>6 DEF CausalNext

-----------------------------------------------------------------------------
(* Traces.                                                                 *)

NextTo(index, S) == UNION {Range(Neighbours(index, x)) : x \in S}

ReachStep(index, root, d, f) ==
    IF d = 0 THEN {root} ELSE f[d - 1] \union NextTo(index, f[d - 1])

IsReach(index, root, n, f) == f = [d \in 0..n |-> ReachStep(index, root, d, f)]

ReachOf(index, root, n) == CHOOSE f : IsReach(index, root, n, f)

LEMMA ReachExists ==
    ASSUME NEW index, NEW root, NEW m \in Nat
    PROVE  \E f : IsReach(index, root, m, f)
<1> DEFINE T == {n \in Nat : \E f : IsReach(index, root, n, f)}
<1>1. 0 \in T
  <2>1. PICK f : f = [d \in 0..0 |-> {root}]
    OBVIOUS
  <2>2. \A d \in 0..0 : ReachStep(index, root, d, f) = {root}
    BY DEF ReachStep
  <2>3. IsReach(index, root, 0, f)
    BY <2>1, <2>2 DEF IsReach
  <2> QED
    BY <2>3
<1>2. ASSUME NEW n \in Nat, n \in T PROVE n + 1 \in T
  <2>1. PICK w : IsReach(index, root, n, w)
    BY <1>2
  <2>2. PICK v : v = [d \in 0..n + 1 |-> ReachStep(index, root, d, w)]
    OBVIOUS
  <2>3. ASSUME NEW d \in 0..n PROVE v[d] = w[d]
    BY <2>1, <2>2 DEF IsReach
  <2>4. ASSUME NEW d \in 0..n + 1
        PROVE  ReachStep(index, root, d, w) = ReachStep(index, root, d, v)
    <3>1. d # 0 => v[d - 1] = w[d - 1]
      BY <2>3
    <3> QED
      BY <3>1 DEF ReachStep
  <2>5. [d \in 0..n + 1 |-> ReachStep(index, root, d, w)]
          = [d \in 0..n + 1 |-> ReachStep(index, root, d, v)]
    BY <2>4, Zenon
  <2>6. IsReach(index, root, n + 1, v)
    BY <2>2, <2>5 DEF IsReach
  <2> QED
    BY <2>6
<1> HIDE DEF T
<1>3. m \in T
  BY <1>1, <1>2, NaturalSet
<1> QED
  BY <1>3 DEF T

LEMMA ReachUnique ==
    ASSUME NEW index, NEW root, NEW m \in Nat, NEW n \in Nat, m <= n,
           NEW f, IsReach(index, root, m, f), NEW g, IsReach(index, root, n, g)
    PROVE  f[m] = g[m]
<1> DEFINE T == {d \in Nat : d <= m => f[d] = g[d]}
<1>1. /\ \A d \in 0..m : f[d] = ReachStep(index, root, d, f)
      /\ \A d \in 0..n : g[d] = ReachStep(index, root, d, g)
  BY DEF IsReach
<1>2. 0 \in T
  <2>1. 0 \in 0..m /\ 0 \in 0..n
    OBVIOUS
  <2> QED
    BY <1>1, <2>1 DEF ReachStep
<1>3. ASSUME NEW d \in Nat, d \in T PROVE d + 1 \in T
  <2> SUFFICES ASSUME d + 1 <= m PROVE f[d + 1] = g[d + 1]
    OBVIOUS
  <2>1. d + 1 \in 0..m /\ d + 1 \in 0..n /\ d + 1 # 0 /\ (d + 1) - 1 = d
    OBVIOUS
  <2>2. f[d] = g[d]
    BY <1>3
  <2> QED
    BY <1>1, <2>1, <2>2 DEF ReachStep
<1> HIDE DEF T
<1>4. m \in T
  BY <1>2, <1>3, NaturalSet
<1> QED
  BY <1>4 DEF T

(* A search goes one edge further at each depth.                           *)
LEMMA WithinSteps ==
    ASSUME NEW index, NEW root, NEW n \in Nat
    PROVE  /\ Within(index, root, 0) = {root}
           /\ Within(index, root, n + 1)
                = Within(index, root, n) \union NextTo(index, Within(index, root, n))
<1>1. ASSUME NEW m \in Nat
      PROVE  \E f : IsReach(index, root, m, f) /\ Within(index, root, m) = f[m]
  <2>1. PICK f : f = ReachOf(index, root, m)
    OBVIOUS
  <2>2. IsReach(index, root, m, f)
    BY <2>1, ReachExists DEF ReachOf
  <2>3. Within(index, root, m) = f[m]
    BY <2>1 DEF Within, ReachOf, IsReach, ReachStep, NextTo
  <2> QED
    BY <2>2, <2>3
<1>2. Within(index, root, 0) = {root}
  <2>1. PICK f : IsReach(index, root, 0, f) /\ Within(index, root, 0) = f[0]
    BY <1>1
  <2>2. 0 \in 0..0
    OBVIOUS
  <2> QED
    BY <2>1, <2>2 DEF IsReach, ReachStep
<1>3. PICK f : IsReach(index, root, n, f) /\ Within(index, root, n) = f[n]
  BY <1>1
<1>4. PICK g : IsReach(index, root, n + 1, g) /\ Within(index, root, n + 1) = g[n + 1]
  BY <1>1
<1>5. f[n] = g[n]
  BY <1>3, <1>4, ReachUnique
<1>6. n + 1 \in 0..n + 1 /\ n + 1 # 0 /\ (n + 1) - 1 = n
  OBVIOUS
<1>7. g[n + 1] = g[n] \union NextTo(index, g[n])
  BY <1>4, <1>6 DEF IsReach, ReachStep
<1> QED
  BY <1>2, <1>3, <1>4, <1>5, <1>7

(* What a search finds, it finds from a neighbour one depth earlier.       *)
FirstEdge(index, root, d) ==
    Within(index, root, d + 1)
        = Within(index, root, d)
            \union UNION {Within(index, x, d) : x \in Range(Neighbours(index, root))}

LEMMA FirstEdges ==
    ASSUME NEW index
    PROVE  \A d \in Nat : \A root : FirstEdge(index, root, d)
<1> DEFINE T == {d \in Nat : \A root : FirstEdge(index, root, d)}
<1>1. 0 \in T
  <2>1. ASSUME NEW root PROVE FirstEdge(index, root, 0)
    <3>1. \A x : Within(index, x, 0) = {x}
      BY WithinSteps
    <3>2. Within(index, root, 0 + 1) = {root} \union NextTo(index, {root})
      <4>1. PICK z \in Nat : z = 0
        OBVIOUS
      <4>2. Within(index, root, z + 1) = Within(index, root, z) \union NextTo(index, Within(index, root, z))
        BY WithinSteps
      <4> QED
        BY <3>1, <4>1, <4>2
    <3>3. NextTo(index, {root}) = Range(Neighbours(index, root))
      BY DEF NextTo
    <3>4. UNION {Within(index, x, 0) : x \in Range(Neighbours(index, root))}
            = Range(Neighbours(index, root))
      BY <3>1
    <3> QED
      BY <3>1, <3>2, <3>3, <3>4 DEF FirstEdge
  <2> QED
    BY <2>1
<1>2. ASSUME NEW d \in Nat, d \in T PROVE d + 1 \in T
  <2>1. ASSUME NEW root PROVE FirstEdge(index, root, d + 1)
    <3>1. PICK A, B : A = Within(index, root, d) /\ B = Within(index, root, d + 1)
      OBVIOUS
    <3>2. PICK R : R = Range(Neighbours(index, root))
      OBVIOUS
    <3>3. B = A \union UNION {Within(index, x, d) : x \in R}
      BY <1>2, <3>1, <3>2 DEF FirstEdge
    <3>4. B = A \union NextTo(index, A)
      BY <3>1, WithinSteps
    <3>5. Within(index, root, (d + 1) + 1) = B \union NextTo(index, B)
      BY <3>1, WithinSteps
    <3>6. \A x : Within(index, x, d + 1) = Within(index, x, d) \union NextTo(index, Within(index, x, d))
      BY WithinSteps
    <3>7. NextTo(index, B) = NextTo(index, A) \union UNION {NextTo(index, Within(index, x, d)) : x \in R}
      BY <3>3 DEF NextTo
    <3>8. UNION {Within(index, x, d + 1) : x \in R}
            = (UNION {Within(index, x, d) : x \in R})
                \union (UNION {NextTo(index, Within(index, x, d)) : x \in R})
      BY <3>6
    <3>9. B \union NextTo(index, B) = B \union UNION {Within(index, x, d + 1) : x \in R}
      BY <3>3, <3>4, <3>7, <3>8
    <3> QED
      BY <3>1, <3>2, <3>5, <3>9 DEF FirstEdge
  <2> QED
    BY <2>1
<1> HIDE DEF T
<1>3. \A d \in Nat : d \in T
  BY <1>1, <1>2, NaturalSet
<1> QED
  BY <1>3 DEF T

LEMMA TracesMirror ==
    ASSUME GraphInv
    PROVE  \A d \in Nat : \A c, e \in EventIds :
              e \in Within(effects, c, d) <=> c \in Within(causes, e, d)
<1> DEFINE T == {d \in Nat : \A c, e \in EventIds :
                    e \in Within(effects, c, d) <=> c \in Within(causes, e, d)}
<1>1. 0 \in T
  <2>1. \A index, root : Within(index, root, 0) = {root}
    BY WithinSteps
  <2> QED
    BY <2>1
<1>2. ASSUME NEW d \in Nat, d \in T PROVE d + 1 \in T
  <2>1. ASSUME NEW c \in EventIds, NEW e \in EventIds
        PROVE  e \in Within(effects, c, d + 1) <=> c \in Within(causes, e, d + 1)
    <3>1. e \in Within(effects, c, d + 1)
            <=> e \in Within(effects, c, d) \/ \E x \in Effects(c) : e \in Within(effects, x, d)
      BY FirstEdges DEF FirstEdge, Effects
    <3>2. c \in Within(causes, e, d + 1)
            <=> c \in Within(causes, e, d) \/ \E x \in Within(causes, e, d) : c \in Causes(x)
      BY WithinSteps DEF NextTo, Causes
    <3>3. Effects(c) \subseteq EventIds
      BY IndexFacts DEF GraphInv, Effects
    <3>4. \A x \in Effects(c) : e \in Within(effects, x, d) <=> x \in Within(causes, e, d)
      BY <1>2, <3>3
    <3>5. \A x \in Within(causes, e, d) : c \in Causes(x) => x \in EventIds
      <4>1. ASSUME NEW x, c \in Causes(x) PROVE x \in DOMAIN causes
        <5>1. CASE x \notin DOMAIN causes
          <6>1. Neighbours(causes, x) = <<>>
            BY <5>1 DEF Neighbours
          <6> QED
            BY <4>1, <6>1 DEF Causes, Range
        <5> QED
          BY <5>1
      <4> QED
        BY <4>1 DEF GraphInv, IndexInv
    <3>6. \A x \in EventIds : x \in Effects(c) <=> c \in Causes(x)
      BY DEF GraphInv
    <3>7. e \in Within(effects, c, d) <=> c \in Within(causes, e, d)
      BY <1>2
    <3> QED
      BY <3>1, <3>2, <3>3, <3>4, <3>5, <3>6, <3>7
  <2> QED
    BY <2>1
<1> HIDE DEF T
<1>3. \A d \in Nat : d \in T
  BY <1>1, <1>2, NaturalSet
<1> QED
  BY <1>3 DEF T

LEMMA TraceDepths ==
    ASSUME NEW index, NEW root, NEW depth \in Nat
    PROVE  /\ DOMAIN Trace(index, root, depth) = Within(index, root, depth)
           /\ \A e \in Within(index, root, depth) :
                Trace(index, root, depth)[e]
                  = CHOOSE d \in 0..depth : /\ e \in Within(index, root, d)
                                            /\ d > 0 => e \notin Within(index, root, d - 1)
<1>1. PICK seen : seen = [d \in 0..depth |-> Within(index, root, d)]
  OBVIOUS
<1>2. Trace(index, root, depth) = [e \in seen[depth] |-> CHOOSE d \in 0..depth :
            e \in seen[d] /\ (d > 0 => e \notin seen[d - 1])]
  BY <1>1 DEF Trace
<1>3. \A d \in 0..depth : seen[d] = Within(index, root, d)
  BY <1>1
<1>4. ASSUME NEW e, NEW d \in 0..depth
      PROVE  (e \in seen[d] /\ (d > 0 => e \notin seen[d - 1]))
               <=> (e \in Within(index, root, d) /\ (d > 0 => e \notin Within(index, root, d - 1)))
  <2>1. d > 0 => d - 1 \in 0..depth
    OBVIOUS
  <2> QED
    BY <1>3, <2>1
<1>5. ASSUME NEW e
      PROVE  (CHOOSE d \in 0..depth : e \in seen[d] /\ (d > 0 => e \notin seen[d - 1]))
               = CHOOSE d \in 0..depth : /\ e \in Within(index, root, d)
                                         /\ d > 0 => e \notin Within(index, root, d - 1)
  BY <1>4, Zenon
<1>6. seen[depth] = Within(index, root, depth)
  BY <1>3
<1> QED
  BY <1>2, <1>5, <1>6

-----------------------------------------------------------------------------
(* The packed form.                                                        *)

RowStep(next, k, row) ==
    IF k = 0 THEN <<>>
    ELSE IF PackedIndex(next[k]) = None THEN row[k - 1]
    ELSE Append(row[k - 1], Unwrap(PackedIndex(next[k])))

IsRow(next, row) == row = [k \in 0..Len(next) |-> RowStep(next, k, row)]

RowsStep(index, i, rows) ==
    IF i = 0 THEN <<>> ELSE rows[i - 1] \o PackedRow(index, PackedEvents[i])

IsRows(index, rows) == rows = [i \in 0..Len(PackedEvents) |-> RowsStep(index, i, rows)]

RowOf(next) == CHOOSE row : IsRow(next, row)
RowsOf(index) == CHOOSE rows : IsRows(index, rows)

LEMMA RowExists ==
    ASSUME NEW S, NEW next \in Seq(S)
    PROVE  \E row : IsRow(next, row)
<1> DEFINE Upto(n, row) == row = [k \in 0..n |-> RowStep(next, k, row)]
<1> DEFINE T == {n \in Nat : \E row : Upto(n, row)}
<1>1. 0 \in T
  <2>1. PICK row : row = [k \in 0..0 |-> <<>>]
    OBVIOUS
  <2>2. \A k \in 0..0 : RowStep(next, k, row) = <<>>
    BY DEF RowStep
  <2>3. Upto(0, row)
    BY <2>1, <2>2
  <2> QED
    BY <2>3
<1>2. ASSUME NEW n \in Nat, n \in T PROVE n + 1 \in T
  <2>1. PICK w : Upto(n, w)
    BY <1>2
  <2>2. PICK v : v = [k \in 0..n + 1 |-> RowStep(next, k, w)]
    OBVIOUS
  <2>3. ASSUME NEW k \in 0..n PROVE v[k] = w[k]
    BY <2>1, <2>2
  <2>4. ASSUME NEW k \in 0..n + 1
        PROVE  RowStep(next, k, w) = RowStep(next, k, v)
    <3>1. k # 0 => v[k - 1] = w[k - 1]
      BY <2>3
    <3> QED
      BY <3>1 DEF RowStep
  <2>5. [k \in 0..n + 1 |-> RowStep(next, k, w)] = [k \in 0..n + 1 |-> RowStep(next, k, v)]
    BY <2>4, Zenon
  <2>6. Upto(n + 1, v)
    BY <2>2, <2>5
  <2> QED
    BY <2>6
<1> HIDE DEF T
<1>3. Len(next) \in T
  BY <1>1, <1>2, NaturalSet
<1> QED
  BY <1>3 DEF T, IsRow

LEMMA RowsExist ==
    ASSUME NEW index, Len(PackedEvents) \in Nat
    PROVE  \E rows : IsRows(index, rows)
<1> DEFINE Upto(n, rows) == rows = [i \in 0..n |-> RowsStep(index, i, rows)]
<1> DEFINE T == {n \in Nat : \E rows : Upto(n, rows)}
<1>1. 0 \in T
  <2>1. PICK rows : rows = [i \in 0..0 |-> <<>>]
    OBVIOUS
  <2>2. \A i \in 0..0 : RowsStep(index, i, rows) = <<>>
    BY DEF RowsStep
  <2>3. Upto(0, rows)
    BY <2>1, <2>2
  <2> QED
    BY <2>3
<1>2. ASSUME NEW n \in Nat, n \in T PROVE n + 1 \in T
  <2>1. PICK w : Upto(n, w)
    BY <1>2
  <2>2. PICK v : v = [i \in 0..n + 1 |-> RowsStep(index, i, w)]
    OBVIOUS
  <2>3. ASSUME NEW i \in 0..n PROVE v[i] = w[i]
    BY <2>1, <2>2
  <2>4. ASSUME NEW i \in 0..n + 1
        PROVE  RowsStep(index, i, w) = RowsStep(index, i, v)
    <3>1. i # 0 => v[i - 1] = w[i - 1]
      BY <2>3
    <3> QED
      BY <3>1 DEF RowsStep
  <2>5. [i \in 0..n + 1 |-> RowsStep(index, i, w)] = [i \in 0..n + 1 |-> RowsStep(index, i, v)]
    BY <2>4, Zenon
  <2>6. Upto(n + 1, v)
    BY <2>2, <2>5
  <2> QED
    BY <2>6
<1> HIDE DEF T
<1>3. Len(PackedEvents) \in T
  BY <1>1, <1>2, NaturalSet
<1> QED
  BY <1>3 DEF T, IsRows

(* Every neighbour of an event is one of the events, and has one index.    *)
LEMMA PackedFacts ==
    ASSUME GraphInv
    PROVE  /\ PackedEvents \in Seq(EventIds) /\ Len(PackedEvents) \in Nat
           /\ Range(PackedEvents) \subseteq EventIds
           /\ \A e : Causes(e) \union Effects(e) \subseteq Range(PackedEvents)
           /\ \A e \in Range(PackedEvents) :
                 /\ PackedIndex(e) # None
                 /\ Unwrap(PackedIndex(e)) \in 1..Len(PackedEvents)
                 /\ PackedEvents[Unwrap(PackedIndex(e))] = e
<1>1. PICK S : S = DOMAIN causes \union DOMAIN effects
  OBVIOUS
<1>2. S \subseteq EventIds
  BY <1>1 DEF GraphInv, IndexInv
<1>3. PICK s : s = PackedEvents
  OBVIOUS
<1>4. s \in Seq(S) /\ Once(s) /\ Range(s) = S
  BY <1>1, <1>2, <1>3, CausalAssumption, RankedUpTo DEF PackedEvents, EventIds
<1>5. s \in Seq(EventIds) /\ Len(s) \in Nat /\ DOMAIN s = 1..Len(s)
  BY <1>2, <1>4, SeqMonotonic, RangeFacts
<1>6. ASSUME NEW e PROVE Causes(e) \union Effects(e) \subseteq S
  <2>1. \A x : x \notin DOMAIN causes => Causes(x) = {}
    BY DEF Causes, Neighbours, Range
  <2>2. \A x : x \notin DOMAIN effects => Effects(x) = {}
    BY DEF Effects, Neighbours, Range
  <2>3. ASSUME NEW c \in Causes(e) PROVE c \in S
    <3>1. c \in EventIds /\ e \in EventIds
      BY <1>1, <1>2, <2>1, <2>3, IndexFacts DEF GraphInv, Causes
    <3>2. e \in Effects(c)
      BY <2>3, <3>1 DEF GraphInv
    <3> QED
      BY <1>1, <2>2, <3>2
  <2>4. ASSUME NEW c \in Effects(e) PROVE c \in S
    <3>1. c \in EventIds /\ e \in EventIds
      BY <1>1, <1>2, <2>2, <2>4, IndexFacts DEF GraphInv, Effects
    <3>2. e \in Causes(c)
      BY <2>4, <3>1 DEF GraphInv
    <3> QED
      BY <1>1, <2>1, <3>2
  <2> QED
    BY <2>3, <2>4
<1>7. ASSUME NEW e \in Range(s)
      PROVE  /\ PackedIndex(e) # None /\ Unwrap(PackedIndex(e)) \in 1..Len(s)
             /\ s[Unwrap(PackedIndex(e))] = e
  <2>1. PICK i \in 1..Len(s) : s[i] = e
    BY <1>4, RangeFacts
  <2>2. PackedIndex(e) = {j \in 1..Len(s) : s[j] = e}
    BY <1>3, <1>5 DEF PackedIndex
  <2>3. PICK j : j = Unwrap(PackedIndex(e))
    OBVIOUS
  <2>4. j \in PackedIndex(e)
    BY <2>1, <2>2, <2>3 DEF Unwrap
  <2> QED
    BY <2>2, <2>3, <2>4 DEF None
<1> QED
  BY <1>3, <1>2, <1>4, <1>5, <1>6, <1>7

(* A row has the index of each neighbour, in their order.                  *)
LEMMA RowFacts ==
    ASSUME GraphInv, NEW index \in {causes, effects}, NEW e, NEW next, next = Neighbours(index, e)
    PROVE  /\ PackedRow(index, e) \in Seq(Nat) /\ Len(PackedRow(index, e)) = Len(next)
           /\ next \in Seq(EventIds)
           /\ \A k \in 1..Len(next) :
                 /\ PackedRow(index, e)[k] \in 1..Len(PackedEvents)
                 /\ PackedEvents[PackedRow(index, e)[k]] = next[k]
<1>1. next \in Seq(EventIds) /\ Len(next) \in Nat
  <2>1. IndexInv(index)
    BY DEF GraphInv
  <2> QED
    BY <2>1, IndexFacts, RangeFacts
<1>2. PICK row : row = RowOf(next)
  OBVIOUS
<1>3. IsRow(next, row)
  BY <1>1, <1>2, RowExists DEF RowOf
<1>4. PackedRow(index, e) = row[Len(next)]
  BY <1>2 DEF PackedRow, RowOf, IsRow, RowStep
<1>5. \A k \in 0..Len(next) : row[k] = RowStep(next, k, row)
  BY <1>3 DEF IsRow
<1>6. ASSUME NEW k \in 1..Len(next)
      PROVE  /\ PackedIndex(next[k]) # None
             /\ Unwrap(PackedIndex(next[k])) \in 1..Len(PackedEvents)
             /\ PackedEvents[Unwrap(PackedIndex(next[k]))] = next[k]
  <2>1. next[k] \in Range(next)
    BY <1>1, RangeFacts
  <2>2. Range(next) \subseteq Causes(e) \union Effects(e)
    BY DEF Causes, Effects
  <2>3. next[k] \in Range(PackedEvents)
    BY <2>1, <2>2, PackedFacts
  <2> QED
    BY <2>3, PackedFacts
<1> DEFINE Good(n) ==
        /\ row[n] \in Seq(Nat) /\ Len(row[n]) = n
        /\ \A k \in 1..n : row[n][k] = Unwrap(PackedIndex(next[k]))
<1> DEFINE T == {n \in Nat : n <= Len(next) => Good(n)}
<1>7. 0 \in T
  <2>1. 0 \in 0..Len(next)
    BY <1>1
  <2>2. row[0] = <<>>
    BY <1>5, <2>1 DEF RowStep
  <2>3. <<>> \in Seq(Nat) /\ Len(<<>>) = 0 /\ 1..0 = {}
    OBVIOUS
  <2>4. Good(0)
    BY <2>2, <2>3
  <2> QED
    BY <2>4
<1>8. ASSUME NEW n \in Nat, n \in T PROVE n + 1 \in T
  <2> SUFFICES ASSUME n + 1 <= Len(next) PROVE Good(n + 1)
    <3> HIDE DEF Good
    <3> QED
      OBVIOUS
  <2>1. n + 1 \in 0..Len(next) /\ n + 1 \in 1..Len(next) /\ n + 1 # 0 /\ (n + 1) - 1 = n
    BY <1>1
  <2>2. PICK x, r, q : x = Unwrap(PackedIndex(next[n + 1])) /\ r = row[n] /\ q = row[n + 1]
    OBVIOUS
  <2>3. q = Append(r, x)
    BY <1>5, <1>6, <2>1, <2>2 DEF RowStep
  <2>4. x \in Nat
    BY <1>6, <2>1, <2>2, PackedFacts
  <2>5. r \in Seq(Nat) /\ Len(r) = n /\ \A k \in 1..n : r[k] = Unwrap(PackedIndex(next[k]))
    BY <1>1, <1>8, <2>2
  <2>6. /\ q \in Seq(Nat) /\ Len(q) = n + 1 /\ q[n + 1] = x
        /\ \A k \in 1..n : q[k] = r[k]
    BY <2>3, <2>4, <2>5, AppendProperties
  <2>7. ASSUME NEW k \in 1..n + 1 PROVE q[k] = Unwrap(PackedIndex(next[k]))
    <3>1. k \in 1..n \/ k = n + 1
      OBVIOUS
    <3> QED
      BY <2>2, <2>5, <2>6, <3>1
  <2> QED
    BY <2>2, <2>6, <2>7
<1> HIDE DEF T
<1>9. Len(next) \in T
  BY <1>1, <1>7, <1>8, NaturalSet
<1>10. Good(Len(next))
  BY <1>1, <1>9 DEF T
<1> QED
  BY <1>1, <1>4, <1>6, <1>10

(* The indices from one offset to the next are the row of the event.       *)
LEMMA PackedRows ==
    ASSUME GraphInv, NEW index \in {causes, effects}, NEW i \in 1..Len(PackedEvents),
           NEW row, row = PackedNeighbours(Packed(index), i)
    PROVE  [j \in DOMAIN row |-> PackedEvents[row[j]]] = Neighbours(index, PackedEvents[i])
<1>1. PICK N \in Nat : N = Len(PackedEvents)
  BY PackedFacts
<1>2. PICK rows : rows = RowsOf(index)
  OBVIOUS
<1>3. IsRows(index, rows)
  BY <1>1, <1>2, RowsExist DEF RowsOf
<1>4. Packed(index) = [indices |-> rows[N], offsets |-> [j \in 1..N + 1 |-> Len(rows[j - 1])]]
  BY <1>1, <1>2 DEF Packed, RowsOf, IsRows, RowsStep
<1>5. \A j \in 0..N : rows[j] = RowsStep(index, j, rows)
  BY <1>1, <1>3 DEF IsRows
<1>6. \A e : PackedRow(index, e) \in Seq(Nat)
  BY RowFacts
<1>7. rows[0] = <<>>
  BY <1>5 DEF RowsStep
<1> DEFINE T == {n \in Nat : n <= N => rows[n] \in Seq(Nat)}
<1>8. 0 \in T
  <2>1. <<>> \in Seq(Nat)
    OBVIOUS
  <2>2. rows[0] \in Seq(Nat)
    BY <1>7, <2>1, Zenon
  <2> QED
    BY <2>2
<1>9. ASSUME NEW n \in Nat, n \in T PROVE n + 1 \in T
  <2> SUFFICES ASSUME n + 1 <= N PROVE rows[n + 1] \in Seq(Nat)
    OBVIOUS
  <2>1. rows[n + 1] = rows[n] \o PackedRow(index, PackedEvents[n + 1])
    <3>1. n + 1 \in 0..N /\ n + 1 # 0 /\ (n + 1) - 1 = n
      OBVIOUS
    <3> QED
      BY <1>5, <3>1 DEF RowsStep
  <2>2. rows[n] \in Seq(Nat) /\ PackedRow(index, PackedEvents[n + 1]) \in Seq(Nat)
    BY <1>6, <1>9
  <2> QED
    BY <2>1, <2>2
<1> HIDE DEF T
<1>10. \A n \in Nat : n \in T
  BY <1>8, <1>9, NaturalSet
<1>11. ASSUME NEW n \in 0..N PROVE rows[n] \in Seq(Nat) /\ Len(rows[n]) \in Nat
  BY <1>10, <1>11 DEF T
<1>12. ASSUME NEW n \in 1..N
       PROVE  rows[n] = rows[n - 1] \o PackedRow(index, PackedEvents[n])
  <2>1. n \in 0..N /\ n # 0
    OBVIOUS
  <2> QED
    BY <1>5, <2>1 DEF RowsStep
<1> DEFINE Kept(n) ==
        /\ Len(rows[i]) <= Len(rows[n])
        /\ \A k \in 1..Len(rows[i]) : rows[n][k] = rows[i][k]
<1> DEFINE U == {n \in Nat : i + n <= N => Kept(i + n)}
<1>13. i \in Nat /\ i \in 1..N /\ i \in 0..N /\ i - 1 \in 0..N
  BY <1>1
<1>14. 0 \in U
  BY <1>11, <1>13
<1>15. ASSUME NEW n \in Nat, n \in U PROVE n + 1 \in U
  <2> SUFFICES ASSUME i + (n + 1) <= N PROVE Kept(i + (n + 1))
    <3> HIDE DEF Kept
    <3> QED
      OBVIOUS
  <2>1. PICK m : m = i + n
    OBVIOUS
  <2>2. m \in Nat /\ m + 1 \in 1..N /\ (m + 1) - 1 = m /\ m \in 0..N /\ i + (n + 1) = m + 1
    BY <1>13, <2>1
  <2>3. PICK old, add, new, first : /\ old = rows[m] /\ add = PackedRow(index, PackedEvents[m + 1])
                                    /\ new = rows[m + 1] /\ first = rows[i]
    OBVIOUS
  <2>4. new = old \o add
    BY <1>12, <2>2, <2>3
  <2>5. old \in Seq(Nat) /\ add \in Seq(Nat) /\ Len(first) \in Nat
    BY <1>6, <1>11, <1>13, <2>2, <2>3
  <2>6. Len(first) <= Len(old) /\ \A k \in 1..Len(first) : old[k] = first[k]
    BY <1>13, <1>15, <2>1, <2>2, <2>3
  <2>7. /\ Len(new) = Len(old) + Len(add) /\ Len(old) \in Nat /\ Len(add) \in Nat
        /\ \A k \in 1..Len(old) : new[k] = old[k]
    BY <2>4, <2>5, JoinedFacts
  <2>8. Len(first) <= Len(new)
    BY <2>5, <2>6, <2>7
  <2>9. ASSUME NEW k \in 1..Len(first) PROVE new[k] = first[k]
    <3>1. k \in 1..Len(old)
      BY <2>5, <2>6, <2>7
    <3> QED
      BY <2>6, <2>7, <3>1
  <2> QED
    BY <2>2, <2>3, <2>8, <2>9
<1>16. N - i \in U /\ i + (N - i) = N
  <2>1. N - i \in Nat /\ i + (N - i) = N
    BY <1>13
  <2> HIDE DEF U
  <2> QED
    BY <1>14, <1>15, <2>1, NaturalSet
<1>17. Kept(N)
  BY <1>16
<1>18. PICK e, next, piece, from, upto, all :
          /\ e = PackedEvents[i] /\ next = Neighbours(index, e) /\ piece = PackedRow(index, e)
          /\ from = rows[i - 1] /\ upto = rows[i] /\ all = rows[N]
  OBVIOUS
<1>19. upto = from \o piece /\ from \in Seq(Nat) /\ piece \in Seq(Nat) /\ all \in Seq(Nat)
  <2>1. N \in 0..N
    BY <1>1
  <2>2. rows[i - 1] \in Seq(Nat) /\ rows[N] \in Seq(Nat)
    BY <1>11, <1>13, <2>1
  <2>3. PackedRow(index, e) \in Seq(Nat)
    BY <1>6
  <2>4. rows[i] = rows[i - 1] \o PackedRow(index, PackedEvents[i])
    BY <1>12, <1>13
  <2> QED
    BY <1>18, <2>2, <2>3, <2>4
<1>20. /\ Len(upto) = Len(from) + Len(piece) /\ Len(from) \in Nat /\ Len(piece) \in Nat
       /\ \A k \in 1..Len(piece) : upto[Len(from) + k] = piece[k]
  BY <1>19, JoinedFacts
<1>21. Len(upto) <= Len(all) /\ \A k \in 1..Len(upto) : all[k] = upto[k]
  BY <1>17, <1>18
<1>22. row = SubSeq(all, Len(from) + 1, Len(upto))
  <2>1. i \in 1..N + 1 /\ i + 1 \in 1..N + 1 /\ (i + 1) - 1 = i
    BY <1>13
  <2> QED
    BY <1>4, <1>18, <2>1 DEF PackedNeighbours
<1>23. Len(row) = Len(piece) /\ row \in Seq(Nat) /\ \A k \in 1..Len(piece) : row[k] = piece[k]
  <2>1. PICK a, b : a = Len(from) + 1 /\ b = Len(upto)
    OBVIOUS
  <2>2. a \in 1..Len(all) + 1 /\ b \in 0..Len(all) /\ b = (a - 1) + Len(piece) /\ Len(all) \in Nat
    BY <1>19, <1>20, <1>21, <2>1
  <2>3. \A k \in a..b : all[k] \in Nat
    BY <1>19, <2>2
  <2>4. /\ row \in Seq(Nat) /\ Len(row) = (IF a <= b THEN b - a + 1 ELSE 0)
        /\ \A k \in 1..b - a + 1 : row[k] = all[a + k - 1]
    BY <1>22, <2>1, <2>2, <2>3, SubSeqProperties
  <2>5. Len(row) = Len(piece) /\ b - a + 1 = Len(piece)
    BY <1>20, <2>2, <2>4
  <2>6. ASSUME NEW k \in 1..Len(piece) PROVE row[k] = piece[k]
    <3>1. a + k - 1 = Len(from) + k /\ Len(from) + k \in 1..Len(upto)
      BY <1>20, <2>1
    <3> QED
      BY <1>20, <1>21, <2>4, <2>5, <3>1
  <2> QED
    BY <2>4, <2>5, <2>6
<1>24. /\ Len(piece) = Len(next) /\ next \in Seq(EventIds)
       /\ \A k \in 1..Len(next) : PackedEvents[piece[k]] = next[k]
  BY <1>18, RowFacts
<1>25. DOMAIN row = 1..Len(next)
  BY <1>23, <1>24
<1>26. [j \in DOMAIN row |-> PackedEvents[row[j]]] = [j \in 1..Len(next) |-> next[j]]
  BY <1>23, <1>24, <1>25
<1>27. next = [j \in 1..Len(next) |-> next[j]]
  BY <1>24
<1> QED
  BY <1>18, <1>26, <1>27

LEMMA GraphAgrees ==
    ASSUME GraphInv
    PROVE  CausesAndEffectsAgree
<1>1. Range(PackedEvents) \subseteq EventIds /\ DOMAIN PackedEvents = 1..Len(PackedEvents)
  BY PackedFacts, RangeFacts
<1>2. ASSUME NEW c \in EventIds, NEW e \in EventIds,
             NEW down, down = Trace(effects, c, MaxEvent), NEW up, up = Trace(causes, e, MaxEvent)
      PROVE  /\ e \in DOMAIN down <=> c \in DOMAIN up
             /\ e \in DOMAIN down => down[e] = up[c]
  <2>1. DOMAIN down = Within(effects, c, MaxEvent) /\ DOMAIN up = Within(causes, e, MaxEvent)
    BY <1>2, CausalAssumption, TraceDepths
  <2>2. \A d \in Nat : e \in Within(effects, c, d) <=> c \in Within(causes, e, d)
    BY TracesMirror
  <2>3. e \in DOMAIN down <=> c \in DOMAIN up
    BY <2>1, <2>2, CausalAssumption
  <2>4. ASSUME e \in DOMAIN down PROVE down[e] = up[c]
    <3>1. down[e] = CHOOSE d \in 0..MaxEvent : /\ e \in Within(effects, c, d)
                                               /\ d > 0 => e \notin Within(effects, c, d - 1)
      BY <1>2, <2>1, <2>4, CausalAssumption, TraceDepths
    <3>2. up[c] = CHOOSE d \in 0..MaxEvent : /\ c \in Within(causes, e, d)
                                             /\ d > 0 => c \notin Within(causes, e, d - 1)
      BY <1>2, <2>1, <2>3, <2>4, CausalAssumption, TraceDepths
    <3>3. ASSUME NEW d \in 0..MaxEvent
          PROVE  (/\ e \in Within(effects, c, d)
                  /\ d > 0 => e \notin Within(effects, c, d - 1))
                   <=> (/\ c \in Within(causes, e, d)
                        /\ d > 0 => c \notin Within(causes, e, d - 1))
      <4>1. d \in Nat /\ (d > 0 => d - 1 \in Nat)
        OBVIOUS
      <4> QED
        BY <2>2, <4>1
    <3> QED
      BY <3>1, <3>2, <3>3, Zenon
  <2> QED
    BY <2>3, <2>4
<1>3. ASSUME NEW index \in {causes, effects}, NEW i \in DOMAIN PackedEvents,
             NEW row, row = PackedNeighbours(Packed(index), i)
      PROVE  [j \in DOMAIN row |-> PackedEvents[row[j]]] = Neighbours(index, PackedEvents[i])
  BY <1>1, <1>3, PackedRows
<1> QED
  BY <1>1, <1>2, <1>3, Zenon DEF CausesAndEffectsAgree

-----------------------------------------------------------------------------
(* The behaviours of Timeline: one part moves, the others stand still.     *)

TimelineInv ==
    /\ BranchInv /\ ReplayInv /\ (~Reregister => CausalInv)
    /\ SchemaInv /\ MirrorInv /\ BackupInv

(* The invariants of branches, replay, the causal graph whose events are   *)
(* registered once, schema payloads, the mirror and backups hold in every  *)
(* state of the code over a store (BranchManager, ReplayEngine,            *)
(* CausalGraph, decode_schema and decode_mutation, MirrorWriter,           *)
(* BackupManager).                                                         *)
THEOREM TimelineInvariant == Spec => []TimelineInv
<1>1. Init => TimelineInv
  BY BranchInitInv, ReplayInitInv, CausalInitInv, SchemaInitInv, MirrorInitInv, BackupInitInv
  DEF Init, TimelineInv
<1>2. ASSUME TimelineInv, [Next]_timelineVars PROVE TimelineInv'
  <2>1. /\ BranchNext \/ UNCHANGED branchVars
        /\ ReplayNext \/ UNCHANGED replayVars
        /\ CausalNext \/ UNCHANGED causalVars
        /\ SchemaNext \/ UNCHANGED schemaVars
        /\ MirrorNext \/ UNCHANGED mirrorVars
        /\ BackupNext \/ UNCHANGED backupVars
    BY <1>2, Zenon DEF Next, timelineVars
  <2> QED
    BY <1>2, <2>1, BranchNextInv, ReplayNextInv, CausalNextInv, SchemaNextInv, MirrorNextInv,
       BackupNextInv
    DEF TimelineInv
<1> QED
  BY <1>1, <1>2, PTL DEF Spec

(* Two managers, however stale their manifests, resolve a branch they both *)
(* know to one timeline: ids are never given twice (create_fork).          *)
THEOREM BranchTimelinesAgree == Spec => []TimelinesAgree
<1>1. TimelineInv => TimelinesAgree
  BY BranchInvImplies DEF TimelineInv
<1> QED
  BY <1>1, TimelineInvariant, PTL

(* What a parent appends after a fork never becomes part of the branch's   *)
(* inherited past, unless the parent was empty (create_fork).              *)
THEOREM BranchPastIsFixed == Spec => []InheritedPastIsFixed
<1>1. TimelineInv => InheritedPastIsFixed
  BY BranchInvImplies DEF TimelineInv
<1> QED
  BY <1>1, TimelineInvariant, PTL

(* A reconstruction from any chain of checkpoints is the fold of the whole *)
(* log up to its sequence, for every reducer, and that sequence is the     *)
(* target unless a whole page did not get there (reconstruct_at_sequence). *)
THEOREM ReplayExact == Spec => []ReplayIsExact
<1>1. TimelineInv => ReplayIsExact
  BY ReplayInvImplies DEF TimelineInv
<1> QED
  BY <1>1, TimelineInvariant, PTL

(* Traces along causes and along effects are converses at every depth, and *)
(* the packed form has the neighbours of the graph (trace_causes,          *)
(* trace_effects, to_csr).  An event that is registered again leaves the   *)
(* effects of the first registration behind.                               *)
THEOREM CausalTracesMirror ==
    ASSUME ~Reregister
    PROVE  Spec => []CausesAndEffectsAgree
<1>1. TimelineInv => CausesAndEffectsAgree
  BY GraphAgrees DEF TimelineInv, CausalInv
<1> QED
  BY <1>1, TimelineInvariant, PTL

(* topological_sort never answers a cycle, and lists every event of the    *)
(* graph once and after all of its causes, whatever the order in which the *)
(* events were registered.                                                 *)
THEOREM CausalSortIsTopological ==
    ASSUME ~Reregister
    PROVE  Spec => []SortIsTopological
<1>1. TimelineInv => SortIsTopological
  BY DEF TimelineInv, CausalInv
<1> QED
  BY <1>1, TimelineInvariant, PTL

(* Whatever happens to a payload on its way, decode_schema and             *)
(* decode_mutation refuse it or it is, cell by cell, the encoding of what  *)
(* they return, with the size computed beforehand; one that arrives whole  *)
(* is what was sent; and the state apply builds is complete.               *)
THEOREM SchemaPayloadsAreCanonical == Spec => []PayloadsAreCanonical
<1>1. TimelineInv => PayloadsAreCanonical
  BY PayloadsFollow DEF TimelineInv
<1> QED
  BY <1>1, TimelineInvariant, PTL

(* Whatever enqueue accepted waits in the queue, or has one place in the   *)
(* store in the order of acceptance, or was in a batch whose drain         *)
(* answered an error, and MirrorStats counts the same (drain_to_store).    *)
THEOREM MirrorLosesNothing == Spec => []MirrorAccountsForAll
<1>1. TimelineInv => MirrorAccountsForAll
  BY AccountsFollow DEF TimelineInv
<1> QED
  BY <1>1, TimelineInvariant, PTL

(* Every action the queue brought into the store can be traced: no cause   *)
(* is known later, and a missing step is named as a gap (trace_action).    *)
THEOREM MirrorActionsTrace == Spec => []ActionsTrace
<1>1. TimelineInv => ActionsTrace
  BY TracesFollow DEF TimelineInv
<1> QED
  BY <1>1, TimelineInvariant, PTL

(* A backup that the store only appended under, and that verifies and      *)
(* opens, restores everything acknowledged before it (restore_backup).     *)
THEOREM BackupRestoresAll == Spec => []RestoredIsComplete
<1>1. TimelineInv => RestoredIsComplete
  BY DEF TimelineInv, BackupInv
<1> QED
  BY <1>1, TimelineInvariant, PTL
=============================================================================
