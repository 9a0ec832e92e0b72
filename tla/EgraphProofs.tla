---------------------------- MODULE EgraphProofs ----------------------------
(***************************************************************************)
(* The optimizer of query expressions changes no answer, for any           *)
(* expressions of any depth, any rows and any number of iterations.        *)
(***************************************************************************)
EXTENDS Egraph, FiniteSetTheorems, SequenceTheorems, WellFoundedInduction, TLAPS

EgraphSpec == EgraphInit /\ [][EgraphNext]_egraphVars

-----------------------------------------------------------------------------
(* Induction, with the set of the numbers that have the property.          *)

LEMMA LeastNatural ==
    ASSUME NEW S \in SUBSET Nat, S # {}
    PROVE  \E x \in S : \A y \in S : x <= y
<1>1. PICK x \in S : \A y \in S : ~(<< y, x >> \in OpToRel(<, Nat))
  BY NatLessThanWellFounded, WFMin, Zenon
<1>2. \A y \in S : ~(y < x)
  BY <1>1 DEF OpToRel
<1> QED
  BY <1>2

LEMMA NaturalSet ==
    ASSUME NEW T, 0 \in T, \A n \in Nat : n \in T => n + 1 \in T
    PROVE  \A n \in Nat : n \in T
<1>1. SUFFICES ASSUME Nat \ T # {} PROVE FALSE
  OBVIOUS
<1>2. PICK x \in Nat \ T : \A y \in Nat \ T : x <= y
  BY <1>1, LeastNatural
<1>3. x # 0 /\ x - 1 \in Nat /\ x - 1 \in T
  BY <1>2
<1> QED
  BY <1>2, <1>3

(* The numbers up to n.                                                    *)
LEMMA BoundedSet ==
    ASSUME NEW T, NEW n \in Nat, 0 \in T, \A k \in 1..n : k - 1 \in T => k \in T
    PROVE  \A k \in 0..n : k \in T
<1> DEFINE U == {k \in Nat : k <= n => k \in T}
<1>1. 0 \in U
  OBVIOUS
<1>2. \A k \in Nat : k \in U => k + 1 \in U
  <2>1. ASSUME NEW k \in Nat, k \in U, k + 1 <= n PROVE k + 1 \in T
    <3>1. k \in T /\ k + 1 \in 1..n /\ (k + 1) - 1 = k
      BY <2>1
    <3>2. PICK j \in 1..n : j = k + 1
      BY <3>1
    <3> QED
      BY <3>1, <3>2
  <2> QED
    BY <2>1
<1> HIDE DEF U
<1>3. \A k \in Nat : k \in U
  BY <1>1, <1>2, NaturalSet
<1> QED
  BY <1>3 DEF U

(* The graphs that AddAll goes through.                                    *)
AddingStep(g, pairs, k, f) ==
    IF k = 0 THEN g ELSE AddNode(f[k - 1], pairs[k][2])

IsAdding(g, pairs, n, f) == f = [k \in 0..n |-> AddingStep(g, pairs, k, f)]

LEMMA AddingExists ==
    ASSUME NEW g, NEW pairs, NEW m \in Nat
    PROVE  \E f : IsAdding(g, pairs, m, f)
<1> DEFINE T == {n \in Nat : \E f : IsAdding(g, pairs, n, f)}
<1>1. 0 \in T
  <2>1. PICK f : f = [k \in 0..0 |-> g]
    OBVIOUS
  <2>2. \A k \in 0..0 : AddingStep(g, pairs, k, f) = g
    BY DEF AddingStep
  <2>3. IsAdding(g, pairs, 0, f)
    BY <2>1, <2>2 DEF IsAdding
  <2> QED
    BY <2>3
<1>2. ASSUME NEW n \in Nat, n \in T PROVE n + 1 \in T
  <2>1. PICK w : IsAdding(g, pairs, n, w)
    BY <1>2
  <2>2. PICK v : v = [k \in 0..n + 1 |-> AddingStep(g, pairs, k, w)]
    OBVIOUS
  <2>3. ASSUME NEW k \in 0..n PROVE v[k] = w[k]
    BY <2>1, <2>2 DEF IsAdding
  <2>4. ASSUME NEW k \in 0..n + 1
        PROVE  AddingStep(g, pairs, k, w) = AddingStep(g, pairs, k, v)
    <3>1. k # 0 => v[k - 1] = w[k - 1]
      BY <2>3
    <3> QED
      BY <3>1, Zenon DEF AddingStep
  <2>5. [k \in 0..n + 1 |-> AddingStep(g, pairs, k, w)]
          = [k \in 0..n + 1 |-> AddingStep(g, pairs, k, v)]
    BY <2>4, Zenon
  <2>6. IsAdding(g, pairs, n + 1, v)
    BY <2>2, <2>5 DEF IsAdding
  <2> QED
    BY <2>6
<1> HIDE DEF T
<1>3. m \in T
  BY <1>1, <1>2, NaturalSet
<1> QED
  BY <1>3 DEF T

Adding(f, g, pairs, n) ==
    /\ f[0] = g
    /\ \A k \in 1..n : f[k] = AddNode(f[k - 1], pairs[k][2])

LEMMA AddingFacts ==
    ASSUME NEW g, NEW pairs, NEW n, n = Len(pairs), n \in Nat
    PROVE  \E f : Adding(f, g, pairs, n) /\ AddAll(g, pairs) = f[n]
<1>1. PICK f : f = CHOOSE h : IsAdding(g, pairs, n, h)
  OBVIOUS
<1>2. IsAdding(g, pairs, n, f)
  BY <1>1, AddingExists
<1>3. AddAll(g, pairs) = f[n]
  BY <1>1, n = Len(pairs) DEF AddAll, IsAdding, AddingStep
<1>4. \A k \in 0..n : f[k] = AddingStep(g, pairs, k, f)
  BY <1>2 DEF IsAdding
<1>5. f[0] = g
  <2>1. 0 \in 0..n
    OBVIOUS
  <2> QED
    BY <1>4, <2>1 DEF AddingStep
<1>6. ASSUME NEW k \in 1..n PROVE f[k] = AddNode(f[k - 1], pairs[k][2])
  <2>1. k \in 0..n /\ k # 0
    OBVIOUS
  <2> QED
    BY <1>4, <2>1, Zenon DEF AddingStep
<1> QED
  BY <1>3, <1>5, <1>6 DEF Adding

(* The graphs that MergeAll goes through.                                  *)
MergingStep(g, pairs, k, f) ==
    IF k = 0 THEN g ELSE Merge(f[k - 1], pairs[k][1], pairs[k][2])

IsMerging(g, pairs, n, f) == f = [k \in 0..n |-> MergingStep(g, pairs, k, f)]

LEMMA MergingExists ==
    ASSUME NEW g, NEW pairs, NEW m \in Nat
    PROVE  \E f : IsMerging(g, pairs, m, f)
<1> DEFINE T == {n \in Nat : \E f : IsMerging(g, pairs, n, f)}
<1>1. 0 \in T
  <2>1. PICK f : f = [k \in 0..0 |-> g]
    OBVIOUS
  <2>2. \A k \in 0..0 : MergingStep(g, pairs, k, f) = g
    BY DEF MergingStep
  <2>3. IsMerging(g, pairs, 0, f)
    BY <2>1, <2>2 DEF IsMerging
  <2> QED
    BY <2>3
<1>2. ASSUME NEW n \in Nat, n \in T PROVE n + 1 \in T
  <2>1. PICK w : IsMerging(g, pairs, n, w)
    BY <1>2
  <2>2. PICK v : v = [k \in 0..n + 1 |-> MergingStep(g, pairs, k, w)]
    OBVIOUS
  <2>3. ASSUME NEW k \in 0..n PROVE v[k] = w[k]
    BY <2>1, <2>2 DEF IsMerging
  <2>4. ASSUME NEW k \in 0..n + 1
        PROVE  MergingStep(g, pairs, k, w) = MergingStep(g, pairs, k, v)
    <3>1. k # 0 => v[k - 1] = w[k - 1]
      BY <2>3
    <3> QED
      BY <3>1, Zenon DEF MergingStep
  <2>5. [k \in 0..n + 1 |-> MergingStep(g, pairs, k, w)]
          = [k \in 0..n + 1 |-> MergingStep(g, pairs, k, v)]
    BY <2>4, Zenon
  <2>6. IsMerging(g, pairs, n + 1, v)
    BY <2>2, <2>5 DEF IsMerging
  <2> QED
    BY <2>6
<1> HIDE DEF T
<1>3. m \in T
  BY <1>1, <1>2, NaturalSet
<1> QED
  BY <1>3 DEF T

Merging(f, g, pairs, n) ==
    /\ f[0] = g
    /\ \A k \in 1..n : f[k] = Merge(f[k - 1], pairs[k][1], pairs[k][2])

LEMMA MergingFacts ==
    ASSUME NEW g, NEW pairs, NEW n, n = Len(pairs), n \in Nat
    PROVE  \E f : Merging(f, g, pairs, n) /\ MergeAll(g, pairs) = f[n]
<1>1. PICK f : f = CHOOSE h : IsMerging(g, pairs, n, h)
  OBVIOUS
<1>2. IsMerging(g, pairs, n, f)
  BY <1>1, MergingExists
<1>3. MergeAll(g, pairs) = f[n]
  BY <1>1, n = Len(pairs) DEF MergeAll, IsMerging, MergingStep
<1>4. \A k \in 0..n : f[k] = MergingStep(g, pairs, k, f)
  BY <1>2 DEF IsMerging
<1>5. f[0] = g
  <2>1. 0 \in 0..n
    OBVIOUS
  <2> QED
    BY <1>4, <2>1 DEF MergingStep
<1>6. ASSUME NEW k \in 1..n PROVE f[k] = Merge(f[k - 1], pairs[k][1], pairs[k][2])
  <2>1. k \in 0..n /\ k # 0
    OBVIOUS
  <2> QED
    BY <1>4, <2>1, Zenon DEF MergingStep
<1> QED
  BY <1>3, <1>5, <1>6 DEF Merging

(* The states that Rebuild goes through.                                   *)
RebuildingStep(g, k, f) ==
    IF k = 0 THEN [graph |-> g, cons |-> << >>] ELSE RebuildClass(f[k - 1], k)

IsRebuilding(g, n, f) == f = [k \in 0..n |-> RebuildingStep(g, k, f)]

LEMMA RebuildingExists ==
    ASSUME NEW g, NEW m \in Nat
    PROVE  \E f : IsRebuilding(g, m, f)
<1> DEFINE T == {n \in Nat : \E f : IsRebuilding(g, n, f)}
<1>1. 0 \in T
  <2>1. PICK f : f = [k \in 0..0 |-> [graph |-> g, cons |-> << >>]]
    OBVIOUS
  <2>2. \A k \in 0..0 : RebuildingStep(g, k, f) = [graph |-> g, cons |-> << >>]
    BY DEF RebuildingStep
  <2>3. IsRebuilding(g, 0, f)
    BY <2>1, <2>2 DEF IsRebuilding
  <2> QED
    BY <2>3
<1>2. ASSUME NEW n \in Nat, n \in T PROVE n + 1 \in T
  <2>1. PICK w : IsRebuilding(g, n, w)
    BY <1>2
  <2>2. PICK v : v = [k \in 0..n + 1 |-> RebuildingStep(g, k, w)]
    OBVIOUS
  <2>3. ASSUME NEW k \in 0..n PROVE v[k] = w[k]
    BY <2>1, <2>2 DEF IsRebuilding
  <2>4. ASSUME NEW k \in 0..n + 1
        PROVE  RebuildingStep(g, k, w) = RebuildingStep(g, k, v)
    <3>1. k # 0 => v[k - 1] = w[k - 1]
      BY <2>3
    <3> QED
      BY <3>1, Zenon DEF RebuildingStep
  <2>5. [k \in 0..n + 1 |-> RebuildingStep(g, k, w)]
          = [k \in 0..n + 1 |-> RebuildingStep(g, k, v)]
    BY <2>4, Zenon
  <2>6. IsRebuilding(g, n + 1, v)
    BY <2>2, <2>5 DEF IsRebuilding
  <2> QED
    BY <2>6
<1> HIDE DEF T
<1>3. m \in T
  BY <1>1, <1>2, NaturalSet
<1> QED
  BY <1>3 DEF T

Rebuilding(f, g, n) ==
    /\ f[0] = [graph |-> g, cons |-> << >>]
    /\ \A k \in 1..n : f[k] = RebuildClass(f[k - 1], k)

LEMMA RebuildingFacts ==
    ASSUME NEW g, NEW n, n = Len(g.parent), n \in Nat
    PROVE  \E f : Rebuilding(f, g, n) /\ Rebuild(g) = [f[n].graph EXCEPT !.cons = f[n].cons]
<1>1. PICK f : f = CHOOSE h : IsRebuilding(g, n, h)
  OBVIOUS
<1>2. IsRebuilding(g, n, f)
  BY <1>1, RebuildingExists
<1>3. Rebuild(g) = [f[n].graph EXCEPT !.cons = f[n].cons]
  BY <1>1, n = Len(g.parent) DEF Rebuild, IsRebuilding, RebuildingStep
<1>4. \A k \in 0..n : f[k] = RebuildingStep(g, k, f)
  BY <1>2 DEF IsRebuilding
<1>5. f[0] = [graph |-> g, cons |-> << >>]
  <2>1. 0 \in 0..n
    OBVIOUS
  <2> QED
    BY <1>4, <2>1 DEF RebuildingStep
<1>6. ASSUME NEW k \in 1..n PROVE f[k] = RebuildClass(f[k - 1], k)
  <2>1. k \in 0..n /\ k # 0
    OBVIOUS
  <2> QED
    BY <1>4, <2>1, Zenon DEF RebuildingStep
<1> QED
  BY <1>3, <1>5, <1>6 DEF Rebuilding

(* The states that AddExpr goes through.                                   *)
PartingStep(g, e, k, f) ==
    IF k = 0 THEN [graph |-> g, classOf |-> << >>] ELSE AddPart(f[k - 1], PartsOf[MaxDepth][e][k])

IsParting(g, e, n, f) == f = [k \in 0..n |-> PartingStep(g, e, k, f)]

LEMMA PartingExists ==
    ASSUME NEW g, NEW e, NEW m \in Nat
    PROVE  \E f : IsParting(g, e, m, f)
<1> DEFINE T == {n \in Nat : \E f : IsParting(g, e, n, f)}
<1>1. 0 \in T
  <2>1. PICK f : f = [k \in 0..0 |-> [graph |-> g, classOf |-> << >>]]
    OBVIOUS
  <2>2. \A k \in 0..0 : PartingStep(g, e, k, f) = [graph |-> g, classOf |-> << >>]
    BY DEF PartingStep
  <2>3. IsParting(g, e, 0, f)
    BY <2>1, <2>2 DEF IsParting
  <2> QED
    BY <2>3
<1>2. ASSUME NEW n \in Nat, n \in T PROVE n + 1 \in T
  <2>1. PICK w : IsParting(g, e, n, w)
    BY <1>2
  <2>2. PICK v : v = [k \in 0..n + 1 |-> PartingStep(g, e, k, w)]
    OBVIOUS
  <2>3. ASSUME NEW k \in 0..n PROVE v[k] = w[k]
    BY <2>1, <2>2 DEF IsParting
  <2>4. ASSUME NEW k \in 0..n + 1
        PROVE  PartingStep(g, e, k, w) = PartingStep(g, e, k, v)
    <3>1. k # 0 => v[k - 1] = w[k - 1]
      BY <2>3
    <3> QED
      BY <3>1, Zenon DEF PartingStep
  <2>5. [k \in 0..n + 1 |-> PartingStep(g, e, k, w)]
          = [k \in 0..n + 1 |-> PartingStep(g, e, k, v)]
    BY <2>4, Zenon
  <2>6. IsParting(g, e, n + 1, v)
    BY <2>2, <2>5 DEF IsParting
  <2> QED
    BY <2>6
<1> HIDE DEF T
<1>3. m \in T
  BY <1>1, <1>2, NaturalSet
<1> QED
  BY <1>3 DEF T

Parting(f, g, e, n) ==
    /\ f[0] = [graph |-> g, classOf |-> << >>]
    /\ \A k \in 1..n : f[k] = AddPart(f[k - 1], PartsOf[MaxDepth][e][k])

LEMMA PartingFacts ==
    ASSUME NEW g, NEW e, NEW n, n = Len(PartsOf[MaxDepth][e]), n \in Nat
    PROVE  \E f : Parting(f, g, e, n) /\ AddExpr(g, e) = f[n]
<1>1. PICK f : f = CHOOSE h : IsParting(g, e, n, h)
  OBVIOUS
<1>2. IsParting(g, e, n, f)
  BY <1>1, PartingExists
<1>3. AddExpr(g, e) = f[n]
  BY <1>1, n = Len(PartsOf[MaxDepth][e]) DEF AddExpr, IsParting, PartingStep
<1>4. \A k \in 0..n : f[k] = PartingStep(g, e, k, f)
  BY <1>2 DEF IsParting
<1>5. f[0] = [graph |-> g, classOf |-> << >>]
  <2>1. 0 \in 0..n
    OBVIOUS
  <2> QED
    BY <1>4, <2>1 DEF PartingStep
<1>6. ASSUME NEW k \in 1..n PROVE f[k] = AddPart(f[k - 1], PartsOf[MaxDepth][e][k])
  <2>1. k \in 0..n /\ k # 0
    OBVIOUS
  <2> QED
    BY <1>4, <2>1, Zenon DEF PartingStep
<1> QED
  BY <1>3, <1>5, <1>6 DEF Parting

(* What RebuildClass answers.                                               *)
RenewedAs(s, i, r) == RebuildClass(s, i) = IF Find(s.graph, i) # i THEN s ELSE r

(* The states that RebuildClass goes through.                              *)
RenewingStep(s, i, k, f) ==
    IF k = 0 THEN [s EXCEPT !.graph.nodes[i] = {}] ELSE RebuildNode(i, f[k - 1], Listed(s.graph.nodes[i])[k])

IsRenewing(s, i, n, f) == f = [k \in 0..n |-> RenewingStep(s, i, k, f)]

LEMMA RenewingExists ==
    ASSUME NEW s, NEW i, NEW m \in Nat
    PROVE  \E f : IsRenewing(s, i, m, f)
<1> DEFINE T == {n \in Nat : \E f : IsRenewing(s, i, n, f)}
<1>1. 0 \in T
  <2>1. PICK f : f = [k \in 0..0 |-> [s EXCEPT !.graph.nodes[i] = {}]]
    OBVIOUS
  <2>2. \A k \in 0..0 : RenewingStep(s, i, k, f) = [s EXCEPT !.graph.nodes[i] = {}]
    BY DEF RenewingStep
  <2>3. IsRenewing(s, i, 0, f)
    BY <2>1, <2>2 DEF IsRenewing
  <2> QED
    BY <2>3
<1>2. ASSUME NEW n \in Nat, n \in T PROVE n + 1 \in T
  <2>1. PICK w : IsRenewing(s, i, n, w)
    BY <1>2
  <2>2. PICK v : v = [k \in 0..n + 1 |-> RenewingStep(s, i, k, w)]
    OBVIOUS
  <2>3. ASSUME NEW k \in 0..n PROVE v[k] = w[k]
    BY <2>1, <2>2 DEF IsRenewing
  <2>4. ASSUME NEW k \in 0..n + 1
        PROVE  RenewingStep(s, i, k, w) = RenewingStep(s, i, k, v)
    <3>1. k # 0 => v[k - 1] = w[k - 1]
      BY <2>3
    <3> QED
      BY <3>1, Zenon DEF RenewingStep
  <2>5. [k \in 0..n + 1 |-> RenewingStep(s, i, k, w)]
          = [k \in 0..n + 1 |-> RenewingStep(s, i, k, v)]
    BY <2>4, Zenon
  <2>6. IsRenewing(s, i, n + 1, v)
    BY <2>2, <2>5 DEF IsRenewing
  <2> QED
    BY <2>6
<1> HIDE DEF T
<1>3. m \in T
  BY <1>1, <1>2, NaturalSet
<1> QED
  BY <1>3 DEF T

Renewing(f, s, i, n) ==
    /\ f[0] = [s EXCEPT !.graph.nodes[i] = {}]
    /\ \A k \in 1..n : f[k] = RebuildNode(i, f[k - 1], Listed(s.graph.nodes[i])[k])

LEMMA RenewingFacts ==
    ASSUME NEW s, NEW i, NEW n, n = Len(Listed(s.graph.nodes[i])), n \in Nat
    PROVE  \E f : Renewing(f, s, i, n) /\ RenewedAs(s, i, f[n])
<1>1. PICK f : f = CHOOSE h : IsRenewing(s, i, n, h)
  OBVIOUS
<1>2. IsRenewing(s, i, n, f)
  BY <1>1, RenewingExists
<1>3. RenewedAs(s, i, f[n])
  BY <1>1, n = Len(Listed(s.graph.nodes[i])) DEF RenewedAs, RebuildClass, IsRenewing, RenewingStep
<1>4. \A k \in 0..n : f[k] = RenewingStep(s, i, k, f)
  BY <1>2 DEF IsRenewing
<1>5. f[0] = [s EXCEPT !.graph.nodes[i] = {}]
  <2>1. 0 \in 0..n
    OBVIOUS
  <2> QED
    BY <1>4, <2>1 DEF RenewingStep
<1>6. ASSUME NEW k \in 1..n PROVE f[k] = RebuildNode(i, f[k - 1], Listed(s.graph.nodes[i])[k])
  <2>1. k \in 0..n /\ k # 0
    OBVIOUS
  <2> QED
    BY <1>4, <2>1, Zenon DEF RenewingStep
<1> QED
  BY <1>3, <1>5, <1>6 DEF Renewing

ListedAs(S, f, n) == Listed(S) = [k \in 1..n |-> CHOOSE x \in f[k - 1] : TRUE]

(* What Listed has not listed yet.                                         *)
LeavingStep(S, k, f) ==
    IF k = 0 THEN S ELSE f[k - 1] \ {CHOOSE x \in f[k - 1] : TRUE}

IsLeaving(S, n, f) == f = [k \in 0..n |-> LeavingStep(S, k, f)]

LEMMA LeavingExists ==
    ASSUME NEW S, NEW m \in Nat
    PROVE  \E f : IsLeaving(S, m, f)
<1> DEFINE T == {n \in Nat : \E f : IsLeaving(S, n, f)}
<1>1. 0 \in T
  <2>1. PICK f : f = [k \in 0..0 |-> S]
    OBVIOUS
  <2>2. \A k \in 0..0 : LeavingStep(S, k, f) = S
    BY DEF LeavingStep
  <2>3. IsLeaving(S, 0, f)
    BY <2>1, <2>2 DEF IsLeaving
  <2> QED
    BY <2>3
<1>2. ASSUME NEW n \in Nat, n \in T PROVE n + 1 \in T
  <2>1. PICK w : IsLeaving(S, n, w)
    BY <1>2
  <2>2. PICK v : v = [k \in 0..n + 1 |-> LeavingStep(S, k, w)]
    OBVIOUS
  <2>3. ASSUME NEW k \in 0..n PROVE v[k] = w[k]
    BY <2>1, <2>2 DEF IsLeaving
  <2>4. ASSUME NEW k \in 0..n + 1
        PROVE  LeavingStep(S, k, w) = LeavingStep(S, k, v)
    <3>1. k # 0 => v[k - 1] = w[k - 1]
      BY <2>3
    <3> QED
      BY <3>1, Zenon DEF LeavingStep
  <2>5. [k \in 0..n + 1 |-> LeavingStep(S, k, w)]
          = [k \in 0..n + 1 |-> LeavingStep(S, k, v)]
    BY <2>4, Zenon
  <2>6. IsLeaving(S, n + 1, v)
    BY <2>2, <2>5 DEF IsLeaving
  <2> QED
    BY <2>6
<1> HIDE DEF T
<1>3. m \in T
  BY <1>1, <1>2, NaturalSet
<1> QED
  BY <1>3 DEF T

Leaving(f, S, n) ==
    /\ f[0] = S
    /\ \A k \in 1..n : f[k] = f[k - 1] \ {CHOOSE x \in f[k - 1] : TRUE}

LEMMA LeavingFacts ==
    ASSUME NEW S, NEW n, n = Cardinality(S), n \in Nat
    PROVE  \E f : Leaving(f, S, n) /\ ListedAs(S, f, n)
<1>1. PICK f : f = CHOOSE h : IsLeaving(S, n, h)
  OBVIOUS
<1>2. IsLeaving(S, n, f)
  BY <1>1, LeavingExists
<1>3. ListedAs(S, f, n)
  BY <1>1, n = Cardinality(S) DEF ListedAs, Listed, IsLeaving, LeavingStep
<1>4. \A k \in 0..n : f[k] = LeavingStep(S, k, f)
  BY <1>2 DEF IsLeaving
<1>5. f[0] = S
  <2>1. 0 \in 0..n
    OBVIOUS
  <2> QED
    BY <1>4, <2>1 DEF LeavingStep
<1>6. ASSUME NEW k \in 1..n PROVE f[k] = f[k - 1] \ {CHOOSE x \in f[k - 1] : TRUE}
  <2>1. k \in 0..n /\ k # 0
    OBVIOUS
  <2> QED
    BY <1>4, <2>1, Zenon DEF LeavingStep
<1> QED
  BY <1>3, <1>5, <1>6 DEF Leaving

(* The sets of expressions.                                                *)
NestingStep(k, f) == 
    IF k = 0 THEN Atoms
    ELSE Atoms \union ({"not"} \X f[k - 1]) \union (Binaries \X f[k - 1] \X f[k - 1])

LEMMA NestingSame ==
    ASSUME NEW k \in Nat, NEW f, NEW h, k # 0 => f[k - 1] = h[k - 1]
    PROVE  NestingStep(k, f) = NestingStep(k, h)
BY Zenon DEF NestingStep

IsNesting(n, f) == f = [k \in 0..n |-> NestingStep(k, f)]

LEMMA NestingExists ==
    ASSUME NEW m \in Nat
    PROVE  \E f : IsNesting(m, f)
<1> DEFINE T == {n \in Nat : \E f : IsNesting(n, f)}
<1>1. 0 \in T
  <2>1. PICK f : f = [k \in 0..0 |-> NestingStep(0, << >>)]
    OBVIOUS
  <2>2. ASSUME NEW k \in 0..0 PROVE NestingStep(k, f) = NestingStep(0, << >>)
    <3>1. k = 0
      OBVIOUS
    <3>2. NestingStep(0, f) = NestingStep(0, << >>)
      BY NestingSame
    <3> QED
      BY <3>1, <3>2, Zenon
  <2>3. [k \in 0..0 |-> NestingStep(k, f)] = [k \in 0..0 |-> NestingStep(0, << >>)]
    BY <2>2, Zenon
  <2>4. IsNesting(0, f)
    BY <2>1, <2>3 DEF IsNesting
  <2> QED
    BY <2>4
<1>2. ASSUME NEW n \in Nat, n \in T PROVE n + 1 \in T
  <2>1. PICK w : IsNesting(n, w)
    BY <1>2
  <2>2. PICK v : v = [k \in 0..n + 1 |-> NestingStep(k, w)]
    OBVIOUS
  <2>3. ASSUME NEW k \in 0..n PROVE v[k] = w[k]
    BY <2>1, <2>2 DEF IsNesting
  <2>4. ASSUME NEW k \in 0..n + 1
        PROVE  NestingStep(k, w) = NestingStep(k, v)
    <3>1. k \in Nat /\ (k # 0 => w[k - 1] = v[k - 1])
      BY <2>3
    <3> QED
      BY <3>1, NestingSame
  <2>5. [k \in 0..n + 1 |-> NestingStep(k, w)]
          = [k \in 0..n + 1 |-> NestingStep(k, v)]
    BY <2>4, Zenon
  <2>6. IsNesting(n + 1, v)
    BY <2>2, <2>5 DEF IsNesting
  <2> QED
    BY <2>6
<1> HIDE DEF T
<1>3. m \in T
  BY <1>1, <1>2, NaturalSet
<1> QED
  BY <1>3 DEF T

Nesting(f) == \A k \in 0..MaxDepth : f[k] = NestingStep(k, f)

LEMMA NestingFacts == Nesting(ExprsTo)
<1>0. MaxDepth \in Nat
  BY DepthAssumption
<1>1. PICK f : f = CHOOSE h : IsNesting(MaxDepth, h)
  OBVIOUS
<1>2. IsNesting(MaxDepth, f)
  BY <1>0, <1>1, NestingExists
<1>3. ExprsTo = f
  BY <1>1 DEF ExprsTo, IsNesting, NestingStep
<1> QED
  BY <1>2, <1>3 DEF IsNesting, Nesting

(* An expression: its operands are nested less deep.                       *)
LEMMA ExprShape ==
    ASSUME NEW k \in 0..MaxDepth
    PROVE  ExprsTo[k] = IF k = 0 THEN Atoms
                        ELSE Atoms \union ({"not"} \X ExprsTo[k - 1])
                             \union (Binaries \X ExprsTo[k - 1] \X ExprsTo[k - 1])
BY NestingFacts, Zenon DEF Nesting, NestingStep

LEMMA ExprCases ==
    ASSUME NEW k \in 0..MaxDepth, NEW e \in ExprsTo[k]
    PROVE  \/ e \in {"lit"} \X Literals
           \/ e \in {"field"} \X STRING
           \/ k # 0 /\ e \in {"not"} \X ExprsTo[k - 1]
           \/ k # 0 /\ e \in Binaries \X ExprsTo[k - 1] \X ExprsTo[k - 1]
BY ExprShape DEF Atoms

LEMMA ExprBuilt ==
    ASSUME NEW k \in 0..MaxDepth, NEW e,
           \/ e \in {"lit"} \X Literals
           \/ e \in {"field"} \X STRING
           \/ k # 0 /\ e \in {"not"} \X ExprsTo[k - 1]
           \/ k # 0 /\ e \in Binaries \X ExprsTo[k - 1] \X ExprsTo[k - 1]
    PROVE  e \in ExprsTo[k]
BY ExprShape DEF Atoms

(* What is the same at a depth and the next one is the same at the last.   *)
LEMMA ExprsStep ==
    ASSUME NEW n \in Nat, n + 1 <= MaxDepth
    PROVE  ExprsTo[n] \subseteq ExprsTo[n + 1]
<1> DEFINE T == {k \in Nat : k + 1 <= MaxDepth => ExprsTo[k] \subseteq ExprsTo[k + 1]}
<1>0. MaxDepth \in Nat
  BY DepthAssumption
<1>1. 0 \in T
  <2>1. ASSUME 0 + 1 <= MaxDepth PROVE ExprsTo[0] \subseteq ExprsTo[0 + 1]
    <3>1. 0 \in 0..MaxDepth /\ 0 + 1 \in 0..MaxDepth /\ 0 + 1 # 0
      BY <1>0, <2>1
    <3>2. ExprsTo[0] = Atoms
      BY <3>1, ExprShape
    <3>3. Atoms \subseteq ExprsTo[0 + 1]
      BY <3>1, ExprShape
    <3> QED
      BY <3>2, <3>3
  <2> QED
    BY <2>1
<1>2. ASSUME NEW j \in Nat, j \in T PROVE j + 1 \in T
  <2>1. ASSUME (j + 1) + 1 <= MaxDepth PROVE ExprsTo[j + 1] \subseteq ExprsTo[(j + 1) + 1]
    <3>1. ExprsTo[j] \subseteq ExprsTo[j + 1]
      BY <1>0, <1>2, <2>1
    <3>2. /\ j + 1 \in 0..MaxDepth /\ (j + 1) - 1 = j /\ j + 1 # 0
          /\ (j + 1) + 1 \in 0..MaxDepth /\ ((j + 1) + 1) - 1 = j + 1 /\ (j + 1) + 1 # 0
      BY <1>0, <2>1
    <3>3. ExprsTo[j + 1] = Atoms \union ({"not"} \X ExprsTo[j])
                                 \union (Binaries \X ExprsTo[j] \X ExprsTo[j])
      BY <3>2, ExprShape
    <3>4. ExprsTo[(j + 1) + 1] = Atoms \union ({"not"} \X ExprsTo[j + 1])
                                       \union (Binaries \X ExprsTo[j + 1] \X ExprsTo[j + 1])
      BY <3>2, ExprShape
    <3> QED
      BY <3>1, <3>3, <3>4
  <2> QED
    BY <2>1
<1>3. n \in T
  <2> HIDE DEF T
  <2> QED
    BY <1>1, <1>2, NaturalSet
<1> QED
  BY <1>3

LEMMA Stable ==
    ASSUME NEW f, NEW k \in 0..MaxDepth, NEW e \in ExprsTo[k],
           \A n \in Nat : n + 1 <= MaxDepth => \A x \in ExprsTo[n] : f[n + 1][x] = f[n][x]
    PROVE  e \in ExprsTo[MaxDepth] /\ f[MaxDepth][e] = f[k][e]
<1> DEFINE U == {n \in Nat : k + n <= MaxDepth => e \in ExprsTo[k + n] /\ f[k + n][e] = f[k][e]}
<1>0. MaxDepth \in Nat
  BY DepthAssumption
<1>1. 0 \in U
  BY <1>0
<1>2. ASSUME NEW n \in Nat, n \in U PROVE n + 1 \in U
  <2>1. ASSUME k + (n + 1) <= MaxDepth
        PROVE  e \in ExprsTo[k + (n + 1)] /\ f[k + (n + 1)][e] = f[k][e]
    <3>1. e \in ExprsTo[k + n] /\ f[k + n][e] = f[k][e]
      BY <1>0, <1>2, <2>1
    <3>2. k + n \in Nat /\ (k + n) + 1 <= MaxDepth /\ (k + n) + 1 = k + (n + 1)
      BY <1>0, <2>1
    <3>3. ExprsTo[k + n] \subseteq ExprsTo[(k + n) + 1] /\ f[(k + n) + 1][e] = f[k + n][e]
      BY <3>1, <3>2, ExprsStep
    <3> QED
      BY <3>1, <3>2, <3>3
  <2> QED
    BY <2>1
<1>3. MaxDepth - k \in U
  <2>1. \A n \in Nat : n \in U
    <3> HIDE DEF U
    <3> QED
      BY <1>1, <1>2, NaturalSet
  <2>2. MaxDepth - k \in Nat
    BY <1>0
  <2> QED
    BY <2>1, <2>2
<1>4. k + (MaxDepth - k) <= MaxDepth /\ k + (MaxDepth - k) = MaxDepth
  BY <1>0
<1> QED
  BY <1>3, <1>4

LEMMA ValueOfSame ==
    ASSUME NEW k \in 0..MaxDepth, NEW e \in ExprsTo[k], NEW row, NEW a, NEW b,
           k # 0 => \A x \in ExprsTo[k - 1] : a[x] = b[x]
    PROVE  ValueOf(e, row, a) = ValueOf(e, row, b)
<1>1. CASE e \in {"lit"} \X Literals
  <2>1. e[1] = "lit"
    BY <1>1
  <2> QED
    BY <2>1 DEF ValueOf
<1>2. CASE e \in {"field"} \X STRING
  <2>1. e[1] = "field"
    BY <1>2
  <2> QED
    BY <2>1 DEF ValueOf
<1>3. CASE k # 0 /\ e \in {"not"} \X ExprsTo[k - 1]
  <2>1. e[1] = "not" /\ a[e[2]] = b[e[2]]
    BY <1>3
  <2> QED
    BY <2>1 DEF ValueOf
<1>4. CASE k # 0 /\ e \in Binaries \X ExprsTo[k - 1] \X ExprsTo[k - 1]
  <2>1. e[1] \in Binaries /\ a[e[2]] = b[e[2]] /\ a[e[3]] = b[e[3]]
    BY <1>4
  <2>2. e[1] \notin {"lit", "field", "not"}
    BY <2>1 DEF Binaries, Comparisons
  <2> QED
    BY <2>1, <2>2 DEF ValueOf, IsBinary
<1> QED
  BY <1>1, <1>2, <1>3, <1>4, ExprCases

(* The values of the expressions of each depth.                            *)
ValuingStep(row, k, f) == [x \in ExprsTo[k] |-> ValueOf(x, row, f[k - 1])]

LEMMA ValuingSame ==
    ASSUME NEW row, NEW k \in Nat, NEW f, NEW h, k # 0 => f[k - 1] = h[k - 1]
    PROVE  ValuingStep(row, k, f) = ValuingStep(row, k, h)
<1>1. CASE k # 0
  BY <1>1 DEF ValuingStep
<1>2. ASSUME k = 0, NEW x \in ExprsTo[k] PROVE ValueOf(x, row, f[k - 1]) = ValueOf(x, row, h[k - 1])
  <2>1. 0 \in 0..MaxDepth
    BY DepthAssumption
  <2> QED
    BY <1>2, <2>1, ValueOfSame
<1>3. CASE k = 0
  BY <1>2, <1>3, Zenon DEF ValuingStep
<1> QED
  BY <1>1, <1>3


IsValuing(row, n, f) == f = [k \in 0..n |-> ValuingStep(row, k, f)]

LEMMA ValuingExists ==
    ASSUME NEW row, NEW m \in Nat
    PROVE  \E f : IsValuing(row, m, f)
<1> DEFINE T == {n \in Nat : \E f : IsValuing(row, n, f)}
<1>1. 0 \in T
  <2>1. PICK f : f = [k \in 0..0 |-> ValuingStep(row, 0, << >>)]
    OBVIOUS
  <2>2. ASSUME NEW k \in 0..0 PROVE ValuingStep(row, k, f) = ValuingStep(row, 0, << >>)
    <3>1. k = 0
      OBVIOUS
    <3>2. ValuingStep(row, 0, f) = ValuingStep(row, 0, << >>)
      BY ValuingSame
    <3> QED
      BY <3>1, <3>2, Zenon
  <2>3. [k \in 0..0 |-> ValuingStep(row, k, f)] = [k \in 0..0 |-> ValuingStep(row, 0, << >>)]
    BY <2>2, Zenon
  <2>4. IsValuing(row, 0, f)
    BY <2>1, <2>3 DEF IsValuing
  <2> QED
    BY <2>4
<1>2. ASSUME NEW n \in Nat, n \in T PROVE n + 1 \in T
  <2>1. PICK w : IsValuing(row, n, w)
    BY <1>2
  <2>2. PICK v : v = [k \in 0..n + 1 |-> ValuingStep(row, k, w)]
    OBVIOUS
  <2>3. ASSUME NEW k \in 0..n PROVE v[k] = w[k]
    BY <2>1, <2>2 DEF IsValuing
  <2>4. ASSUME NEW k \in 0..n + 1
        PROVE  ValuingStep(row, k, w) = ValuingStep(row, k, v)
    <3>1. k \in Nat /\ (k # 0 => w[k - 1] = v[k - 1])
      BY <2>3
    <3> QED
      BY <3>1, ValuingSame
  <2>5. [k \in 0..n + 1 |-> ValuingStep(row, k, w)]
          = [k \in 0..n + 1 |-> ValuingStep(row, k, v)]
    BY <2>4, Zenon
  <2>6. IsValuing(row, n + 1, v)
    BY <2>2, <2>5 DEF IsValuing
  <2> QED
    BY <2>6
<1> HIDE DEF T
<1>3. m \in T
  BY <1>1, <1>2, NaturalSet
<1> QED
  BY <1>3 DEF T

Valuing(f, row) == \A k \in 0..MaxDepth : f[k] = ValuingStep(row, k, f)

LEMMA ValuingFacts ==
    ASSUME NEW row
    PROVE  \E f : Valuing(f, row) /\ \A e : Evaluate(e, row) = f[MaxDepth][e]
<1>0. MaxDepth \in Nat
  BY DepthAssumption
<1>1. PICK f : f = CHOOSE h : IsValuing(row, MaxDepth, h)
  OBVIOUS
<1>2. IsValuing(row, MaxDepth, f)
  BY <1>0, <1>1, ValuingExists
<1>3. \A e : Evaluate(e, row) = f[MaxDepth][e]
  BY <1>1 DEF Evaluate, IsValuing, ValuingStep
<1>4. \A k \in 0..MaxDepth : f[k] = ValuingStep(row, k, f)
  BY <1>2 DEF IsValuing
<1> QED
  BY <1>3, <1>4, Zenon DEF Valuing

LEMMA ValuingStable ==
    ASSUME NEW row, NEW f, Valuing(f, row), NEW k \in 0..MaxDepth, NEW e \in ExprsTo[k]
    PROVE  /\ e \in ExprsTo[MaxDepth] /\ f[MaxDepth][e] = f[k][e]
           /\ f[k][e] = ValueOf(e, row, f[k - 1])
<1> DEFINE T == {n \in Nat : n + 1 <= MaxDepth => \A x \in ExprsTo[n] : f[n + 1][x] = f[n][x]}
<1>0. MaxDepth \in Nat
  BY DepthAssumption
<1>1. ASSUME NEW n \in 0..MaxDepth, NEW x \in ExprsTo[n]
      PROVE  f[n][x] = ValueOf(x, row, f[n - 1])
  BY DEF Valuing, ValuingStep
<1>2. ASSUME NEW n \in Nat, n # 0 => n - 1 \in T PROVE n \in T
  <2>1. ASSUME n + 1 <= MaxDepth, NEW x \in ExprsTo[n] PROVE f[n + 1][x] = f[n][x]
    <3>1. n \in 0..MaxDepth /\ n + 1 \in 0..MaxDepth /\ x \in ExprsTo[n + 1]
      BY <1>0, <2>1, ExprsStep
    <3>2. f[n + 1][x] = ValueOf(x, row, f[n]) /\ f[n][x] = ValueOf(x, row, f[n - 1])
      <4>1. f[n + 1][x] = ValueOf(x, row, f[(n + 1) - 1])
        BY <1>1, <3>1
      <4>2. (n + 1) - 1 = n
        OBVIOUS
      <4> QED
        BY <1>1, <2>1, <3>1, <4>1, <4>2
    <3>3. ASSUME n # 0, NEW y \in ExprsTo[n - 1] PROVE f[n][y] = f[n - 1][y]
      <4>1. n - 1 \in Nat /\ (n - 1) + 1 = n /\ n <= MaxDepth
        BY <1>0, <2>1, <3>3
      <4> QED
        BY <1>2, <3>3, <4>1
    <3> QED
      BY <2>1, <3>1, <3>2, <3>3, ValueOfSame
  <2> QED
    BY <2>1
<1>3. ASSUME NEW n \in Nat PROVE n \in T
  <2>1. 0 \in T
    BY <1>2
  <2>2. ASSUME NEW j \in Nat, j \in T PROVE j + 1 \in T
    <3>1. j + 1 \in Nat /\ (j + 1) - 1 = j
      OBVIOUS
    <3> HIDE DEF T
    <3> QED
      BY <1>2, <2>2, <3>1
  <2> HIDE DEF T
  <2> QED
    BY <2>1, <2>2, NaturalSet
<1>4. \A n \in Nat : n + 1 <= MaxDepth => \A x \in ExprsTo[n] : f[n + 1][x] = f[n][x]
  BY <1>3
<1> HIDE DEF T
<1> QED
  BY <1>1, <1>4, Stable

LEMMA PartsFromSame ==
    ASSUME NEW k \in 0..MaxDepth, NEW e \in ExprsTo[k], NEW a, NEW b,
           k # 0 => \A x \in ExprsTo[k - 1] : a[x] = b[x]
    PROVE  PartsFrom(e, a) = PartsFrom(e, b)
<1>1. CASE e \in {"lit"} \X Literals
  <2>1. e[1] = "lit"
    BY <1>1
  <2> QED
    BY <2>1 DEF PartsFrom
<1>2. CASE e \in {"field"} \X STRING
  <2>1. e[1] = "field"
    BY <1>2
  <2> QED
    BY <2>1 DEF PartsFrom
<1>3. CASE k # 0 /\ e \in {"not"} \X ExprsTo[k - 1]
  <2>1. e[1] = "not" /\ a[e[2]] = b[e[2]]
    BY <1>3
  <2> QED
    BY <2>1 DEF PartsFrom
<1>4. CASE k # 0 /\ e \in Binaries \X ExprsTo[k - 1] \X ExprsTo[k - 1]
  <2>1. e[1] \in Binaries /\ a[e[2]] = b[e[2]] /\ a[e[3]] = b[e[3]]
    BY <1>4
  <2>2. e[1] \notin {"lit", "field", "not"}
    BY <2>1 DEF Binaries, Comparisons
  <2> QED
    BY <2>1, <2>2 DEF PartsFrom, IsBinary
<1> QED
  BY <1>1, <1>2, <1>3, <1>4, ExprCases

(* The parts of the expressions of each depth.                             *)
PartsStep(k, f) == [x \in ExprsTo[k] |-> PartsFrom(x, f[k - 1])]

LEMMA PartsSame ==
    ASSUME NEW k \in Nat, NEW f, NEW h, k # 0 => f[k - 1] = h[k - 1]
    PROVE  PartsStep(k, f) = PartsStep(k, h)
<1>1. CASE k # 0
  BY <1>1 DEF PartsStep
<1>2. ASSUME k = 0, NEW x \in ExprsTo[k] PROVE PartsFrom(x, f[k - 1]) = PartsFrom(x, h[k - 1])
  <2>1. 0 \in 0..MaxDepth
    BY DepthAssumption
  <2> QED
    BY <1>2, <2>1, PartsFromSame
<1>3. CASE k = 0
  BY <1>2, <1>3, Zenon DEF PartsStep
<1> QED
  BY <1>1, <1>3


IsParts(n, f) == f = [k \in 0..n |-> PartsStep(k, f)]

LEMMA PartsExists ==
    ASSUME NEW m \in Nat
    PROVE  \E f : IsParts(m, f)
<1> DEFINE T == {n \in Nat : \E f : IsParts(n, f)}
<1>1. 0 \in T
  <2>1. PICK f : f = [k \in 0..0 |-> PartsStep(0, << >>)]
    OBVIOUS
  <2>2. ASSUME NEW k \in 0..0 PROVE PartsStep(k, f) = PartsStep(0, << >>)
    <3>1. k = 0
      OBVIOUS
    <3>2. PartsStep(0, f) = PartsStep(0, << >>)
      BY PartsSame
    <3> QED
      BY <3>1, <3>2, Zenon
  <2>3. [k \in 0..0 |-> PartsStep(k, f)] = [k \in 0..0 |-> PartsStep(0, << >>)]
    BY <2>2, Zenon
  <2>4. IsParts(0, f)
    BY <2>1, <2>3 DEF IsParts
  <2> QED
    BY <2>4
<1>2. ASSUME NEW n \in Nat, n \in T PROVE n + 1 \in T
  <2>1. PICK w : IsParts(n, w)
    BY <1>2
  <2>2. PICK v : v = [k \in 0..n + 1 |-> PartsStep(k, w)]
    OBVIOUS
  <2>3. ASSUME NEW k \in 0..n PROVE v[k] = w[k]
    BY <2>1, <2>2 DEF IsParts
  <2>4. ASSUME NEW k \in 0..n + 1
        PROVE  PartsStep(k, w) = PartsStep(k, v)
    <3>1. k \in Nat /\ (k # 0 => w[k - 1] = v[k - 1])
      BY <2>3
    <3> QED
      BY <3>1, PartsSame
  <2>5. [k \in 0..n + 1 |-> PartsStep(k, w)]
          = [k \in 0..n + 1 |-> PartsStep(k, v)]
    BY <2>4, Zenon
  <2>6. IsParts(n + 1, v)
    BY <2>2, <2>5 DEF IsParts
  <2> QED
    BY <2>6
<1> HIDE DEF T
<1>3. m \in T
  BY <1>1, <1>2, NaturalSet
<1> QED
  BY <1>3 DEF T

Parts(f) == \A k \in 0..MaxDepth : f[k] = PartsStep(k, f)

LEMMA PartsFacts == Parts(PartsOf)
<1>0. MaxDepth \in Nat
  BY DepthAssumption
<1>1. PICK f : f = CHOOSE h : IsParts(MaxDepth, h)
  OBVIOUS
<1>2. IsParts(MaxDepth, f)
  BY <1>0, <1>1, PartsExists
<1>3. PartsOf = f
  BY <1>1 DEF PartsOf, IsParts, PartsStep
<1> QED
  BY <1>2, <1>3 DEF IsParts, Parts

LEMMA PartsStable ==
    ASSUME NEW f, Parts(f), NEW k \in 0..MaxDepth, NEW e \in ExprsTo[k]
    PROVE  /\ e \in ExprsTo[MaxDepth] /\ f[MaxDepth][e] = f[k][e]
           /\ f[k][e] = PartsFrom(e, f[k - 1])
<1> DEFINE T == {n \in Nat : n + 1 <= MaxDepth => \A x \in ExprsTo[n] : f[n + 1][x] = f[n][x]}
<1>0. MaxDepth \in Nat
  BY DepthAssumption
<1>1. ASSUME NEW n \in 0..MaxDepth, NEW x \in ExprsTo[n]
      PROVE  f[n][x] = PartsFrom(x, f[n - 1])
  BY DEF Parts, PartsStep
<1>2. ASSUME NEW n \in Nat, n # 0 => n - 1 \in T PROVE n \in T
  <2>1. ASSUME n + 1 <= MaxDepth, NEW x \in ExprsTo[n] PROVE f[n + 1][x] = f[n][x]
    <3>1. n \in 0..MaxDepth /\ n + 1 \in 0..MaxDepth /\ x \in ExprsTo[n + 1]
      BY <1>0, <2>1, ExprsStep
    <3>2. f[n + 1][x] = PartsFrom(x, f[n]) /\ f[n][x] = PartsFrom(x, f[n - 1])
      <4>1. f[n + 1][x] = PartsFrom(x, f[(n + 1) - 1])
        BY <1>1, <3>1
      <4>2. (n + 1) - 1 = n
        OBVIOUS
      <4> QED
        BY <1>1, <2>1, <3>1, <4>1, <4>2
    <3>3. ASSUME n # 0, NEW y \in ExprsTo[n - 1] PROVE f[n][y] = f[n - 1][y]
      <4>1. n - 1 \in Nat /\ (n - 1) + 1 = n /\ n <= MaxDepth
        BY <1>0, <2>1, <3>3
      <4> QED
        BY <1>2, <3>3, <4>1
    <3> QED
      BY <2>1, <3>1, <3>2, <3>3, PartsFromSame
  <2> QED
    BY <2>1
<1>3. ASSUME NEW n \in Nat PROVE n \in T
  <2>1. 0 \in T
    BY <1>2
  <2>2. ASSUME NEW j \in Nat, j \in T PROVE j + 1 \in T
    <3>1. j + 1 \in Nat /\ (j + 1) - 1 = j
      OBVIOUS
    <3> HIDE DEF T
    <3> QED
      BY <1>2, <2>2, <3>1
  <2> HIDE DEF T
  <2> QED
    BY <2>1, <2>2, NaturalSet
<1>4. \A n \in Nat : n + 1 <= MaxDepth => \A x \in ExprsTo[n] : f[n + 1][x] = f[n][x]
  BY <1>3
<1> HIDE DEF T
<1> QED
  BY <1>1, <1>4, Stable

-----------------------------------------------------------------------------
(* What the classes of a graph are worth on a row.  A class of scans is    *)
(* worth whether the row passes.                                           *)

Nodes(n) ==
    ({"lit"} \X Literals) \union ({"field"} \X STRING) \union ({"not"} \X (1..n))
    \union (Binaries \X (1..n) \X (1..n)) \union ({"scan"} \X Option(1..n)) \union {<< "empty" >>}

AllRows == << "rows", "all" >>
NoRows == << "rows", "none" >>
Worths == Literals \union {AllRows, NoRows}
ScanWorth(filter, worth) == IF \A f \in filter : worth[f] = Bool(TRUE) THEN AllRows ELSE NoRows

NodeWorth(node, worth, row) ==
    CASE node[1] = "lit"   -> Some(node[2])
      [] node[1] = "field" -> IF node[2] \in DOMAIN row THEN Some(row[node[2]]) ELSE None
      [] node[1] = "not"   -> Negated(worth[node[2]])
      [] node[1] = "scan"  -> Some(ScanWorth(node[2], worth))
      [] node[1] = "empty" -> Some(NoRows)
      [] IsBinary(node)    -> Apply(node[1], worth[node[2]], worth[node[3]])

(* What is known of a node is what its class is worth.                     *)
Remembers(cons, worth, n, row) ==
    \A node \in DOMAIN cons :
        node \in Nodes(n) /\ cons[node] \in 1..n /\ NodeWorth(node, worth, row) = Some(worth[cons[node]])

SoundClass(nodes, v, worth, n, row) ==
    /\ nodes \subseteq Nodes(n) /\ IsFiniteSet(nodes)
    /\ \A node \in nodes : NodeWorth(node, worth, row) = Some(v)

Shaped(g, n) ==
    /\ g = [parent |-> g.parent, nodes |-> g.nodes, cons |-> g.cons]
    /\ n \in Nat /\ Len(g.parent) = n
    /\ g.parent \in [1..n -> 1..n]
    /\ DOMAIN g.nodes = 1..n /\ g.nodes = [i \in 1..n |-> g.nodes[i]]

Sound(g, worth, n, row) ==
    /\ Shaped(g, n)
    /\ worth \in [1..n -> Worths]
    /\ \A i \in 1..n : /\ worth[g.parent[i]] = worth[i]
                       /\ SoundClass(g.nodes[i], worth[i], worth, n, row)
    /\ Remembers(g.cons, worth, n, row)

(* Worths of the same classes and more; classes worth what their roots are. *)
Extends(w, worth, n) == \A i \in 1..n : w[i] = worth[i]
Follows(g, worth, n) ==
    /\ n \in Nat /\ g.parent \in [1..n -> 1..n]
    /\ \A i \in 1..n : worth[g.parent[i]] = worth[i]

LEMMA NodeCases ==
    ASSUME NEW n \in Nat, NEW node \in Nodes(n)
    PROVE  \/ node[1] = "lit" /\ node \in {"lit"} \X Literals /\ node[2] \in Literals
           \/ node[1] = "field" /\ node \in {"field"} \X STRING /\ node[2] \in STRING
           \/ node[1] = "not" /\ node[2] \in 1..n /\ node = << "not", node[2] >>
           \/ /\ node[1] = "scan" /\ node = << "scan", node[2] >> /\ node[2] \in Option(1..n)
              /\ node[2] \subseteq 1..n
           \/ node[1] = "empty" /\ node = << "empty" >>
           \/ /\ node[1] \in Binaries /\ node[1] \notin {"lit", "field", "not", "scan", "empty"}
              /\ node[2] \in 1..n /\ node[3] \in 1..n /\ node = << node[1], node[2], node[3] >>
<1>1. CASE node \in {"lit"} \X Literals
  BY <1>1
<1>2. CASE node \in {"field"} \X STRING
  BY <1>2
<1>3. CASE node \in {"not"} \X (1..n)
  BY <1>3
<1>4. CASE node \in Binaries \X (1..n) \X (1..n)
  <2>1. node[1] \in Binaries /\ node[2] \in 1..n /\ node[3] \in 1..n
        /\ node = << node[1], node[2], node[3] >>
    BY <1>4
  <2>2. node[1] \notin {"lit", "field", "not", "scan", "empty"}
    BY <2>1 DEF Binaries, Comparisons
  <2> QED
    BY <2>1, <2>2
<1>5. CASE node \in {"scan"} \X Option(1..n)
  <2>1. node[1] = "scan" /\ node[2] \in Option(1..n) /\ node = << "scan", node[2] >>
    BY <1>5
  <2>2. node[2] \subseteq 1..n
    BY <2>1 DEF Option, None, Some
  <2> QED
    BY <2>1, <2>2
<1>6. CASE node = << "empty" >>
  BY <1>6
<1> QED
  BY <1>1, <1>2, <1>3, <1>4, <1>5, <1>6 DEF Nodes

LEMMA NodeBuilt ==
    ASSUME NEW n \in Nat
    PROVE  /\ \A v \in Literals : << "lit", v >> \in Nodes(n)
           /\ \A f \in STRING : << "field", f >> \in Nodes(n)
           /\ \A i \in 1..n : << "not", i >> \in Nodes(n) /\ << "scan", Some(i) >> \in Nodes(n)
           /\ \A op \in Binaries, i, j \in 1..n : << op, i, j >> \in Nodes(n)
           /\ << "scan", None >> \in Nodes(n) /\ << "empty" >> \in Nodes(n)
BY DEF Nodes, Option

(* The value of a node depends on its operands only.                       *)
LEMMA WorthSame ==
    ASSUME NEW n \in Nat, NEW node \in Nodes(n), NEW worth, NEW w, NEW row, Extends(w, worth, n)
    PROVE  NodeWorth(node, w, row) = NodeWorth(node, worth, row)
<1>0. \A i \in 1..n : w[i] = worth[i]
  BY DEF Extends
<1>1. CASE node[1] = "lit"
  BY <1>1 DEF NodeWorth
<1>2. CASE node[1] = "field"
  BY <1>2 DEF NodeWorth
<1>3. CASE node[1] = "not"
  <2>1. node[2] \in 1..n
    BY <1>3, NodeCases
  <2>2. w[node[2]] = worth[node[2]]
    BY <1>0, <2>1
  <2> QED
    BY <1>3, <2>2 DEF NodeWorth
<1>4. CASE node[1] = "scan"
  <2>1. node[2] \subseteq 1..n
    BY <1>4, NodeCases
  <2>2. ScanWorth(node[2], w) = ScanWorth(node[2], worth)
    BY <1>0, <2>1 DEF ScanWorth
  <2> QED
    BY <1>4, <2>2 DEF NodeWorth
<1>5. CASE node[1] = "empty"
  BY <1>5 DEF NodeWorth
<1>6. CASE node[1] \in Binaries /\ node[1] \notin {"lit", "field", "not", "scan", "empty"}
  <2>1. node[2] \in 1..n /\ node[3] \in 1..n
    BY <1>6, NodeCases
  <2>2. w[node[2]] = worth[node[2]] /\ w[node[3]] = worth[node[3]]
    BY <1>0, <2>1
  <2> QED
    BY <1>6, <2>2 DEF NodeWorth, IsBinary
<1> QED
  BY <1>1, <1>2, <1>3, <1>4, <1>5, <1>6, NodeCases

LEMMA NodesGrow ==
    ASSUME NEW n \in Nat, NEW m \in Nat, n <= m
    PROVE  Nodes(n) \subseteq Nodes(m)
<1>1. 1..n \subseteq 1..m
  OBVIOUS
<1>2. Option(1..n) \subseteq Option(1..m)
  BY <1>1 DEF Option
<1> QED
  BY <1>1, <1>2 DEF Nodes

(* A node and its canonical form are worth the same.                       *)
LEMMA CanonicalSound ==
    ASSUME NEW g, NEW n, NEW worth, NEW row, NEW node \in Nodes(n), Follows(g, worth, n)
    PROVE  /\ Canonical(g, node) \in Nodes(n)
           /\ NodeWorth(Canonical(g, node), worth, row) = NodeWorth(node, worth, row)
<1> n \in Nat
  BY DEF Follows
<1>0. \A i \in 1..n : Find(g, i) \in 1..n /\ worth[Find(g, i)] = worth[i]
  BY DEF Find, Follows
<1>1. CASE node[1] \in {"lit", "field", "empty"}
  <2>1. Canonical(g, node) = node
    BY <1>1 DEF Canonical, IsBinary, Binaries, Comparisons
  <2> QED
    BY <2>1
<1>2. CASE node[1] = "not"
  <2>1. node[2] \in 1..n
    BY <1>2, NodeCases
  <2>2. PICK i \in 1..n : i = Find(g, node[2])
    BY <1>0, <2>1
  <2>3. Canonical(g, node) = << "not", i >>
    BY <1>2, <2>2 DEF Canonical, IsBinary, Binaries, Comparisons
  <2>4. << "not", i >> \in Nodes(n)
    BY <2>2, NodeBuilt
  <2>5. worth[i] = worth[node[2]]
    BY <1>0, <2>1, <2>2
  <2>6. NodeWorth(<< "not", i >>, worth, row) = Negated(worth[i])
    BY DEF NodeWorth, IsBinary, Binaries, Comparisons
  <2>7. NodeWorth(node, worth, row) = Negated(worth[node[2]])
    BY <1>2 DEF NodeWorth, IsBinary, Binaries, Comparisons
  <2> QED
    BY <2>3, <2>4, <2>5, <2>6, <2>7
<1>3. CASE node[1] = "scan"
  <2>1. node[2] \in Option(1..n) /\ node[2] \subseteq 1..n
    BY <1>3, NodeCases
  <2>2. PICK T : T = {Find(g, f) : f \in node[2]}
    OBVIOUS
  <2>3. Canonical(g, node) = << "scan", T >>
    BY <1>3, <2>2 DEF Canonical, IsBinary, Binaries, Comparisons
  <2>4. T \in Option(1..n)
    <3>1. CASE node[2] = {}
      BY <2>2, <3>1 DEF Option, None
    <3>2. ASSUME NEW f \in 1..n, node[2] = {f} PROVE T \in Option(1..n)
      <4>1. T = {Find(g, f)} /\ Find(g, f) \in 1..n
        BY <1>0, <2>2, <3>2
      <4> QED
        BY <4>1 DEF Option, Some
    <3> QED
      BY <2>1, <3>1, <3>2 DEF Option, None, Some
  <2>5. << "scan", T >> \in Nodes(n)
    BY <2>4 DEF Nodes
  <2>6. ScanWorth(T, worth) = ScanWorth(node[2], worth)
    BY <1>0, <2>1, <2>2 DEF ScanWorth
  <2>7. NodeWorth(<< "scan", T >>, worth, row) = Some(ScanWorth(T, worth))
    BY DEF NodeWorth, IsBinary, Binaries, Comparisons
  <2>8. NodeWorth(node, worth, row) = Some(ScanWorth(node[2], worth))
    BY <1>3 DEF NodeWorth, IsBinary, Binaries, Comparisons
  <2> QED
    BY <2>3, <2>5, <2>6, <2>7, <2>8
<1>4. CASE node[1] \in Binaries /\ node[1] \notin {"lit", "field", "not", "scan", "empty"}
  <2>1. node[2] \in 1..n /\ node[3] \in 1..n
    BY <1>4, NodeCases
  <2>2. PICK i \in 1..n : i = Find(g, node[2])
    BY <1>0, <2>1
  <2>3. PICK j \in 1..n : j = Find(g, node[3])
    BY <1>0, <2>1
  <2>4. Canonical(g, node) = << node[1], i, j >>
    BY <1>4, <2>2, <2>3 DEF Canonical, IsBinary
  <2>5. << node[1], i, j >> \in Nodes(n)
    BY <1>4, NodeBuilt
  <2>6. worth[i] = worth[node[2]] /\ worth[j] = worth[node[3]]
    BY <1>0, <2>1, <2>2, <2>3
  <2>7. PICK op : op = node[1]
    OBVIOUS
  <2>8. NodeWorth(<< op, i, j >>, worth, row) = Apply(op, worth[i], worth[j])
    BY <1>4, <2>7 DEF NodeWorth, IsBinary
  <2>9. NodeWorth(node, worth, row) = Apply(op, worth[node[2]], worth[node[3]])
    BY <1>4, <2>7 DEF NodeWorth, IsBinary
  <2> QED
    BY <2>4, <2>5, <2>6, <2>7, <2>8, <2>9
<1> QED
  BY <1>1, <1>2, <1>3, <1>4, NodeCases

LEMMA CanonicalSame ==
    ASSUME NEW g, NEW h, NEW n \in Nat, NEW node \in Nodes(n),
           \A i \in 1..n : h.parent[i] = g.parent[i]
    PROVE  Canonical(h, node) = Canonical(g, node)
<1>0. \A i \in 1..n : Find(h, i) = Find(g, i)
  BY DEF Find
<1>1. CASE node[1] \in {"lit", "field", "empty"}
  BY <1>1 DEF Canonical, IsBinary, Binaries, Comparisons
<1>2. CASE node[1] = "not"
  <2>1. Find(h, node[2]) = Find(g, node[2])
    BY <1>0, <1>2, NodeCases
  <2> QED
    BY <1>2, <2>1 DEF Canonical, IsBinary, Binaries, Comparisons
<1>3. CASE node[1] = "scan"
  <2>1. {Find(h, f) : f \in node[2]} = {Find(g, f) : f \in node[2]}
    <3>1. node[2] \subseteq 1..n
      BY <1>3, NodeCases
    <3> QED
      BY <1>0, <3>1
  <2> QED
    BY <1>3, <2>1 DEF Canonical, IsBinary, Binaries, Comparisons
<1>4. CASE node[1] \in Binaries /\ node[1] \notin {"lit", "field", "not", "scan", "empty"}
  <2>1. Find(h, node[2]) = Find(g, node[2]) /\ Find(h, node[3]) = Find(g, node[3])
    <3>1. node[2] \in 1..n /\ node[3] \in 1..n
      BY <1>4, NodeCases
    <3> QED
      BY <1>0, <3>1
  <2> QED
    BY <1>4, <2>1 DEF Canonical, IsBinary
<1> QED
  BY <1>1, <1>2, <1>3, <1>4, NodeCases

(* A node that the graph has a class for, and a graph with more of them.   *)
Known(g, node) == Canonical(g, node) \in DOMAIN g.cons
Keeps(g, h, n) == \A node \in Nodes(n) : Known(g, node) => Known(h, node)

Grown(g, worth, n, h, w, m, row) ==
    /\ Sound(h, w, m, row) /\ m \in Nat /\ n <= m
    /\ Extends(w, worth, n) /\ Keeps(g, h, n)

LEMMA SoundFacts ==
    ASSUME NEW g, NEW worth, NEW n, NEW row, Sound(g, worth, n, row)
    PROVE  /\ n \in Nat /\ Len(g.parent) = n
           /\ g.parent \in [1..n -> 1..n] /\ worth \in [1..n -> Worths]
           /\ \A i \in 1..n : /\ worth[g.parent[i]] = worth[i]
                              /\ SoundClass(g.nodes[i], worth[i], worth, n, row)
           /\ Remembers(g.cons, worth, n, row) /\ Follows(g, worth, n)
BY DEF Sound, Shaped, Follows

(* The class of a node that is known is worth what the node is.            *)
LEMMA KnownSound ==
    ASSUME NEW g, NEW worth, NEW n, NEW row, Sound(g, worth, n, row),
           NEW node \in Nodes(n), Known(g, node)
    PROVE  AddedAs(g, node) \in 1..n /\ NodeWorth(node, worth, row) = Some(worth[AddedAs(g, node)])
<1>0. /\ n \in Nat /\ g.parent \in [1..n -> 1..n] /\ Remembers(g.cons, worth, n, row)
      /\ \A i \in 1..n : worth[g.parent[i]] = worth[i]
      /\ Follows(g, worth, n)
  BY SoundFacts
<1>1. PICK c : c = Canonical(g, node)
  OBVIOUS
<1>2. NodeWorth(c, worth, row) = NodeWorth(node, worth, row)
  BY <1>0, <1>1, CanonicalSound
<1>3. g.cons[c] \in 1..n /\ NodeWorth(c, worth, row) = Some(worth[g.cons[c]])
  BY <1>0, <1>1 DEF Known, Remembers
<1>4. AddedAs(g, node) = g.parent[g.cons[c]]
  BY <1>1 DEF AddedAs, Find
<1> QED
  BY <1>0, <1>2, <1>3, <1>4

LEMMA AppendedFacts ==
    ASSUME NEW S, NEW s \in Seq(S), NEW e \in S, NEW t, t = Append(s, e)
    PROVE  /\ t \in Seq(S) /\ Len(s) \in Nat /\ Len(t) = Len(s) + 1 /\ DOMAIN t = 1..Len(s) + 1
           /\ \A i \in 1..Len(s) : t[i] = s[i]
           /\ t[Len(s) + 1] = e
<1>1. t \in Seq(S) /\ Len(s) \in Nat /\ Len(t) = Len(s) + 1
  OBVIOUS
<1>2. \A i \in 1..Len(s) : t[i] = s[i]
  OBVIOUS
<1>3. t[Len(s) + 1] = e
  OBVIOUS
<1> QED
  BY <1>1, <1>2, <1>3

LEMMA SeqAsFunction ==
    ASSUME NEW S, NEW s \in Seq(S), NEW n, Len(s) = n
    PROVE  s \in [1..n -> S]
OBVIOUS

LEMMA SoundClassGrows ==
    ASSUME NEW nodes, NEW v, NEW worth, NEW w, NEW n \in Nat, NEW m \in Nat, n <= m, NEW row,
           SoundClass(nodes, v, worth, n, row), Extends(w, worth, n)
    PROVE  SoundClass(nodes, v, w, m, row)
<1>1. nodes \subseteq Nodes(m)
  BY NodesGrow DEF SoundClass
<1>2. ASSUME NEW node \in nodes PROVE NodeWorth(node, w, row) = Some(v)
  <2>1. node \in Nodes(n) /\ NodeWorth(node, worth, row) = Some(v)
    BY DEF SoundClass
  <2> QED
    BY <2>1, WorthSame
<1> QED
  BY <1>1, <1>2 DEF SoundClass

(* add keeps what classes are worth, and gives a new class its worth.      *)
LEMMA AddSound ==
    ASSUME NEW g, NEW worth, NEW n, NEW row, Sound(g, worth, n, row),
           NEW node \in Nodes(n), NEW v \in Worths, NodeWorth(node, worth, row) = Some(v)
    PROVE  \E w, m : /\ Grown(g, worth, n, AddNode(g, node), w, m, row)
                     /\ Known(AddNode(g, node), node)
<1>0. /\ n \in Nat /\ Len(g.parent) = n
      /\ g.parent \in [1..n -> 1..n] /\ worth \in [1..n -> Worths]
      /\ \A i \in 1..n : /\ worth[g.parent[i]] = worth[i]
                         /\ SoundClass(g.nodes[i], worth[i], worth, n, row)
      /\ Remembers(g.cons, worth, n, row) /\ Follows(g, worth, n)
  BY SoundFacts
<1>1. PICK c : c = Canonical(g, node)
  OBVIOUS
<1>2. CASE c \in DOMAIN g.cons
  <2>1. AddNode(g, node) = g
    BY <1>1, <1>2 DEF AddNode
  <2>2. Grown(g, worth, n, g, worth, n, row)
    BY <1>0 DEF Grown, Extends, Keeps
  <2>3. Known(g, node)
    BY <1>1, <1>2 DEF Known
  <2> QED
    BY <2>1, <2>2, <2>3
<1>3. CASE c \notin DOMAIN g.cons
  <2>1. PICK m \in Nat : m = n + 1
    BY <1>0
  <2>2. PICK h : h = [parent |-> Append(g.parent, m), nodes |-> Append(g.nodes, {c}),
                      cons |-> Put(g.cons, c, m)]
    OBVIOUS
  <2>3. AddNode(g, node) = h
    BY <1>0, <1>1, <1>3, <2>1, <2>2 DEF AddNode
  <2>4. PICK w : w = [i \in 1..m |-> IF i = m THEN v ELSE worth[i]]
    OBVIOUS
  <2>5. w \in [1..m -> Worths] /\ Extends(w, worth, n) /\ w[m] = v
    BY <1>0, <2>1, <2>4 DEF Extends
  <2>6. /\ h.parent = Append(g.parent, m) /\ h.nodes = Append(g.nodes, {c})
        /\ h.cons = Put(g.cons, c, m)
        /\ h = [parent |-> h.parent, nodes |-> h.nodes, cons |-> h.cons]
    BY <2>2
  <2>7. /\ Len(h.parent) = m /\ h.parent \in [1..m -> 1..m] /\ h.parent[m] = m
        /\ \A i \in 1..n : h.parent[i] = g.parent[i]
    <3>1. g.parent \in Seq(1..m) /\ m \in 1..m
      <4>1. g.parent \in [1..n -> 1..m]
        BY <1>0, <2>1
      <4> QED
        BY <1>0, <2>1, <4>1
    <3>2. /\ h.parent \in Seq(1..m) /\ Len(h.parent) = Len(g.parent) + 1
          /\ \A i \in 1..Len(g.parent) : h.parent[i] = g.parent[i]
          /\ h.parent[Len(g.parent) + 1] = m
      BY <2>6, <3>1, AppendedFacts
    <3> QED
      <4>4. Len(h.parent) = m /\ h.parent[m] = m
        BY <1>0, <2>1, <3>2
      <4>3. h.parent \in [1..m -> 1..m]
        BY <3>2, <4>4, SeqAsFunction
      <4> QED
        BY <1>0, <3>2, <4>3, <4>4
  <2>8. /\ DOMAIN h.nodes = 1..m /\ h.nodes[m] = {c}
        /\ \A i \in 1..n : h.nodes[i] = g.nodes[i]
        /\ h.nodes = [i \in 1..m |-> h.nodes[i]]
    <3>1. PICK S : S = {g.nodes[i] : i \in 1..n} \union {{c}}
      OBVIOUS
    <3>2. g.nodes \in [1..n -> S]
      <4>1. g.nodes = [i \in 1..n |-> g.nodes[i]]
        BY DEF Sound, Shaped
      <4>2. \A i \in 1..n : g.nodes[i] \in S
        BY <3>1
      <4> QED
        BY <4>1, <4>2
    <3>3. g.nodes \in Seq(S) /\ Len(g.nodes) = n /\ {c} \in S
      BY <1>0, <3>1, <3>2
    <3>4. /\ h.nodes \in Seq(S) /\ Len(h.nodes) = n + 1
          /\ \A i \in 1..n : h.nodes[i] = g.nodes[i]
          /\ h.nodes[n + 1] = {c}
      BY <2>6, <3>3, AppendedFacts
    <3> QED
      BY <2>1, <3>4
  <2>9. c \in Nodes(n) /\ NodeWorth(c, worth, row) = Some(v)
    BY <1>0, <1>1, CanonicalSound
  <2>10. c \in Nodes(m) /\ NodeWorth(c, w, row) = Some(v)
    <3>1. c \in Nodes(m)
      BY <1>0, <2>1, <2>9, NodesGrow
    <3>2. NodeWorth(c, w, row) = NodeWorth(c, worth, row)
      BY <1>0, <2>5, <2>9, WorthSame
    <3> QED
      BY <2>9, <3>1, <3>2
  <2>11. ASSUME NEW i \in 1..m
         PROVE  w[h.parent[i]] = w[i] /\ SoundClass(h.nodes[i], w[i], w, m, row)
    <3>1. CASE i = m
      <4>1. SoundClass({c}, v, w, m, row)
        BY <2>10, FS_Singleton DEF SoundClass
      <4> QED
        BY <2>5, <2>7, <2>8, <3>1, <4>1
    <3>2. CASE i # m
      <4>1. i \in 1..n /\ w[i] = worth[i] /\ h.parent[i] = g.parent[i] /\ g.parent[i] \in 1..n
        <5>1. i \in 1..n
          BY <1>0, <2>1, <3>2
        <5> QED
          BY <1>0, <2>5, <2>7, <5>1 DEF Extends
      <4>2. w[g.parent[i]] = worth[g.parent[i]]
        BY <2>5, <4>1 DEF Extends
      <4>3. SoundClass(g.nodes[i], worth[i], w, m, row)
        BY <1>0, <2>1, <2>5, <4>1, SoundClassGrows
      <4> QED
        BY <1>0, <2>8, <4>1, <4>2, <4>3
    <3> QED
      BY <3>1, <3>2
  <2>12. DOMAIN h.cons = DOMAIN g.cons \union {c} /\ h.cons[c] = m
         /\ \A x \in DOMAIN g.cons : h.cons[x] = g.cons[x]
    BY <1>3, <2>6 DEF Put
  <2>13. ASSUME NEW x \in DOMAIN h.cons
         PROVE  /\ x \in Nodes(m) /\ h.cons[x] \in 1..m
                /\ NodeWorth(x, w, row) = Some(w[h.cons[x]])
    <3>1. CASE x = c
      <4>1. h.cons[x] = m /\ m \in 1..m /\ w[m] = v
        BY <1>0, <2>1, <2>5, <2>12, <3>1
      <4> QED
        BY <2>10, <3>1, <4>1
    <3>2. CASE x \in DOMAIN g.cons
      <4>1. /\ x \in Nodes(n) /\ g.cons[x] \in 1..n
            /\ NodeWorth(x, worth, row) = Some(worth[g.cons[x]])
        BY <1>0, <3>2 DEF Remembers
      <4>2. x \in Nodes(m) /\ NodeWorth(x, w, row) = NodeWorth(x, worth, row)
        <5>1. x \in Nodes(m)
          <6>1. n \in Nat /\ n <= m
            BY <1>0, <2>1
          <6>2. Nodes(n) \subseteq Nodes(m)
            BY <6>1, NodesGrow
          <6> QED
            BY <4>1, <6>2
        <5>2. NodeWorth(x, w, row) = NodeWorth(x, worth, row)
          BY <1>0, <2>5, <4>1, WorthSame
        <5> QED
          BY <5>1, <5>2
      <4>3. w[g.cons[x]] = worth[g.cons[x]]
        BY <2>5, <4>1 DEF Extends
      <4>4. h.cons[x] = g.cons[x] /\ g.cons[x] \in 1..m
        BY <1>0, <2>1, <2>12, <3>2, <4>1
      <4> QED
        BY <4>1, <4>2, <4>3, <4>4
    <3> QED
      BY <2>12, <3>1, <3>2
  <2>14. Sound(h, w, m, row)
    BY <2>1, <2>5, <2>6, <2>7, <2>8, <2>11, <2>13 DEF Sound, Shaped, Remembers
  <2>15. ASSUME NEW x \in Nodes(n) PROVE Canonical(h, x) = Canonical(g, x)
    BY <1>0, <2>7, CanonicalSame
  <2>16. Keeps(g, h, n)
    BY <2>12, <2>15 DEF Keeps, Known
  <2>17. Known(h, node)
    BY <1>1, <2>12, <2>15 DEF Known
  <2>18. Grown(g, worth, n, h, w, m, row)
    BY <1>0, <2>1, <2>5, <2>14, <2>16 DEF Grown
  <2> QED
    BY <2>3, <2>17, <2>18
<1> QED
  BY <1>2, <1>3

LEMMA GrownTwice ==
    ASSUME NEW g, NEW u, NEW n \in Nat, NEW h, NEW v, NEW m, NEW k, NEW w, NEW l, NEW row,
           Grown(g, u, n, h, v, m, row), Grown(h, v, m, k, w, l, row)
    PROVE  Grown(g, u, n, k, w, l, row)
<1>1. m \in Nat /\ l \in Nat /\ n <= m /\ m <= l /\ Sound(k, w, l, row)
  BY DEF Grown
<1>2. Extends(w, u, n)
  BY <1>1 DEF Grown, Extends
<1>3. Nodes(n) \subseteq Nodes(m)
  BY <1>1, NodesGrow
<1>4. Keeps(g, k, n)
  BY <1>3 DEF Grown, Keeps
<1> QED
  BY <1>1, <1>2, <1>4 DEF Grown

LEMMA UnionSound ==
    ASSUME NEW A, NEW B, NEW v, NEW worth, NEW n, NEW row,
           SoundClass(A, v, worth, n, row), SoundClass(B, v, worth, n, row)
    PROVE  SoundClass(A \union B, v, worth, n, row)
<1>1. IsFiniteSet(A \union B)
  BY FS_Union DEF SoundClass
<1> QED
  BY <1>1 DEF SoundClass

LEMMA PairBounds ==
    ASSUME NEW x \in Int, NEW y \in Int
    PROVE  Min({x, y}) \in {x, y} /\ Max({x, y}) \in {x, y}
<1>1. \E m \in {x, y} : \A z \in {x, y} : m <= z
  OBVIOUS
<1>2. \E m \in {x, y} : \A z \in {x, y} : m >= z
  OBVIOUS
<1>3. Min({x, y}) \in {x, y}
  BY <1>1, Zenon DEF Min
<1>4. Max({x, y}) \in {x, y}
  BY <1>2, Zenon DEF Max
<1> QED
  BY <1>3, <1>4

(* union of two classes that are worth the same.                           *)
LEMMA MergeSound ==
    ASSUME NEW g, NEW worth, NEW n, NEW row, Sound(g, worth, n, row),
           NEW a \in 1..n, NEW b \in 1..n, worth[a] = worth[b]
    PROVE  Sound(Merge(g, a, b), worth, n, row)
<1>0. /\ n \in Nat /\ Len(g.parent) = n
      /\ g.parent \in [1..n -> 1..n] /\ worth \in [1..n -> Worths]
      /\ \A i \in 1..n : /\ worth[g.parent[i]] = worth[i]
                         /\ SoundClass(g.nodes[i], worth[i], worth, n, row)
      /\ Remembers(g.cons, worth, n, row)
  BY SoundFacts
<1>1. PICK stays : stays = Min({Find(g, a), Find(g, b)})
  OBVIOUS
<1>2. PICK goes : goes = Max({Find(g, a), Find(g, b)})
  OBVIOUS
<1>3. /\ Find(g, a) \in 1..n /\ Find(g, b) \in 1..n
      /\ worth[Find(g, a)] = worth[a] /\ worth[Find(g, b)] = worth[a]
  BY <1>0 DEF Find
<1>4. stays \in {Find(g, a), Find(g, b)} /\ goes \in {Find(g, a), Find(g, b)}
  BY <1>1, <1>2, <1>3, PairBounds
<1>5. stays \in 1..n /\ goes \in 1..n /\ worth[stays] = worth[goes]
  BY <1>3, <1>4
<1>6. CASE stays = goes
  <2>1. Merge(g, a, b) = g
    BY <1>1, <1>2, <1>6 DEF Merge
  <2> QED
    BY <2>1
<1>7. CASE stays # goes
  <2>1. PICK h : h = Merge(g, a, b)
    OBVIOUS
  <2>2. h = [g EXCEPT !.parent = [i \in DOMAIN @ |-> IF @[i] = goes THEN stays ELSE @[i]],
                      !.nodes[goes] = {},
                      !.nodes[stays] = @ \union g.nodes[goes]]
    BY <1>1, <1>2, <1>7, <2>1 DEF Merge
  <2>3. /\ g = [parent |-> g.parent, nodes |-> g.nodes, cons |-> g.cons]
        /\ DOMAIN g.nodes = 1..n /\ g.nodes = [i \in 1..n |-> g.nodes[i]]
    BY DEF Sound, Shaped
  <2>4. PICK p : p = [i \in 1..n |-> IF g.parent[i] = goes THEN stays ELSE g.parent[i]]
    OBVIOUS
  <2>5. PICK q : q = [i \in 1..n |-> IF i = stays THEN g.nodes[stays] \union g.nodes[goes]
                                     ELSE IF i = goes THEN {} ELSE g.nodes[i]]
    OBVIOUS
  <2>6. [[g.nodes EXCEPT ![goes] = {}] EXCEPT ![stays] = @ \union g.nodes[goes]] = q
    BY <1>5, <1>7, <2>3, <2>5
  <2>7. h = [parent |-> p, nodes |-> q, cons |-> g.cons]
    <3>1. h = [parent |-> p,
               nodes |-> [[g.nodes EXCEPT ![goes] = {}] EXCEPT ![stays] = @ \union g.nodes[goes]],
               cons |-> g.cons]
      BY <1>0, <2>2, <2>3, <2>4
    <3> QED
      BY <2>6, <3>1
  <2>8. /\ h.parent = p /\ h.nodes = q /\ h.cons = g.cons
        /\ h = [parent |-> h.parent, nodes |-> h.nodes, cons |-> h.cons]
    BY <2>7
  <2>9. /\ p \in [1..n -> 1..n] /\ Len(p) = n
        /\ \A i \in 1..n : p[i] = IF g.parent[i] = goes THEN stays ELSE g.parent[i]
    BY <1>0, <1>5, <2>4
  <2>10. DOMAIN q = 1..n /\ q = [i \in 1..n |-> q[i]]
    BY <2>5
  <2>11. ASSUME NEW i \in 1..n
         PROVE  worth[p[i]] = worth[i] /\ SoundClass(q[i], worth[i], worth, n, row)
    <3>1. worth[p[i]] = worth[i]
      BY <1>0, <1>5, <2>9
    <3>2. CASE i = stays
      <4>1. q[i] = g.nodes[stays] \union g.nodes[goes]
        BY <2>5, <3>2
      <4> QED
        <5>1. /\ SoundClass(g.nodes[stays], worth[i], worth, n, row)
              /\ SoundClass(g.nodes[goes], worth[i], worth, n, row)
          BY <1>0, <1>5, <3>2
        <5> QED
          BY <3>1, <4>1, <5>1, UnionSound
    <3>3. CASE i = goes
      <4>1. q[i] = {}
        BY <1>7, <2>5, <3>3
      <4>2. SoundClass({}, worth[i], worth, n, row)
        BY FS_EmptySet DEF SoundClass
      <4> QED
        BY <3>1, <4>1, <4>2
    <3>4. CASE i # stays /\ i # goes
      <4>1. q[i] = g.nodes[i]
        BY <2>5, <3>4
      <4> QED
        BY <1>0, <3>1, <4>1
    <3> QED
      BY <3>2, <3>3, <3>4
  <2>12. Sound(h, worth, n, row)
    BY <1>0, <2>8, <2>9, <2>10, <2>11 DEF Sound, Shaped
  <2> QED
    BY <2>1, <2>12
<1> QED
  BY <1>6, <1>7

LEMMA SetClassSound ==
    ASSUME NEW g, NEW worth, NEW n, NEW row, Sound(g, worth, n, row),
           NEW i \in 1..n, NEW nodes, SoundClass(nodes, worth[i], worth, n, row)
    PROVE  Sound([g EXCEPT !.nodes[i] = nodes], worth, n, row)
<1>0. /\ g = [parent |-> g.parent, nodes |-> g.nodes, cons |-> g.cons]
      /\ DOMAIN g.nodes = 1..n
  BY DEF Sound, Shaped
<1>1. PICK q : q = [j \in 1..n |-> IF j = i THEN nodes ELSE g.nodes[j]]
  OBVIOUS
<1>2. PICK h : h = [g EXCEPT !.nodes[i] = nodes]
  OBVIOUS
<1>3. [g.nodes EXCEPT ![i] = nodes] = q
  BY <1>0, <1>1
<1>4. h = [parent |-> g.parent, nodes |-> q, cons |-> g.cons]
  BY <1>0, <1>2, <1>3
<1>5. /\ h.parent = g.parent /\ h.nodes = q /\ h.cons = g.cons
      /\ h = [parent |-> h.parent, nodes |-> h.nodes, cons |-> h.cons]
  BY <1>4
<1>6. DOMAIN q = 1..n /\ q = [j \in 1..n |-> q[j]]
  BY <1>1
<1>7. ASSUME NEW j \in 1..n PROVE SoundClass(q[j], worth[j], worth, n, row)
  <2>1. CASE j = i
    BY <1>1, <2>1
  <2>2. CASE j # i
    BY <1>1, <2>2, SoundFacts
  <2> QED
    BY <2>1, <2>2
<1>8. Sound(h, worth, n, row)
  BY <1>5, <1>6, <1>7 DEF Sound, Shaped
<1> QED
  BY <1>2, <1>8

-----------------------------------------------------------------------------
(* rebuild keeps what classes are worth.                                   *)

SoundState(s, worth, n, row) ==
    /\ s = [graph |-> s.graph, cons |-> s.cons]
    /\ Sound(s.graph, worth, n, row)
    /\ Remembers(s.cons, worth, n, row)

LEMMA ListedFacts ==
    ASSUME NEW S, IsFiniteSet(S)
    PROVE  /\ Len(Listed(S)) \in Nat /\ DOMAIN Listed(S) = 1..Len(Listed(S))
           /\ \A k \in 1..Len(Listed(S)) : Listed(S)[k] \in S
<1>0. PICK c \in Nat : c = Cardinality(S)
  BY FS_CardinalityType
<1>1. PICK f : Leaving(f, S, c) /\ Listed(S) = [k \in 1..c |-> CHOOSE x \in f[k - 1] : TRUE]
  <2>1. PICK f : Leaving(f, S, c) /\ ListedAs(S, f, c)
    BY <1>0, LeavingFacts
  <2> QED
    BY <2>1, Zenon DEF ListedAs
<1> DEFINE Left(k) == f[k] \subseteq S /\ IsFiniteSet(f[k]) /\ Cardinality(f[k]) = c - k
           T == {k \in 0..c : Left(k)}
<1>2. 0 \in T
  BY <1>0, <1>1 DEF Leaving
<1>3. ASSUME NEW k \in 1..c, k - 1 \in T
      PROVE  k \in T /\ (CHOOSE x \in f[k - 1] : TRUE) \in S
  <2>1. f[k - 1] \subseteq S /\ IsFiniteSet(f[k - 1]) /\ Cardinality(f[k - 1]) = c - (k - 1)
    BY <1>3
  <2>2. f[k - 1] # {}
    BY <2>1, FS_EmptySet
  <2>3. PICK y : y = CHOOSE x \in f[k - 1] : TRUE
    OBVIOUS
  <2>4. y \in f[k - 1]
    BY <2>2, <2>3
  <2>5. f[k] = f[k - 1] \ {y}
    BY <1>1, <2>3 DEF Leaving
  <2>6. IsFiniteSet(f[k]) /\ Cardinality(f[k]) = Cardinality(f[k - 1]) - 1
    <3>1. PICK L : L = f[k - 1]
      OBVIOUS
    <3>2. IsFiniteSet(L) /\ y \in L
      BY <2>1, <2>4, <3>1
    <3>3. IsFiniteSet(L \ {y}) /\ Cardinality(L \ {y}) = Cardinality(L) - 1
      BY <3>2, FS_RemoveElement, Zenon
    <3> QED
      BY <2>5, <3>1, <3>3
  <2> QED
    BY <2>1, <2>3, <2>4, <2>5, <2>6
<1>4. \A k \in 0..c : k \in T
  <2> HIDE DEF T
  <2> QED
    BY <1>2, <1>3, BoundedSet
<1>5. Len(Listed(S)) = c /\ DOMAIN Listed(S) = 1..c
  BY <1>0, <1>1
<1>6. ASSUME NEW k \in 1..c PROVE Listed(S)[k] \in S
  <2>1. k - 1 \in 0..c
    OBVIOUS
  <2> HIDE DEF T
  <2>2. (CHOOSE x \in f[k - 1] : TRUE) \in S
    BY <1>3, <1>4, <2>1
  <2> QED
    BY <1>1, <2>2
<1> QED
  BY <1>0, <1>5, <1>6

LEMMA RebuildNodeSound ==
    ASSUME NEW s, NEW worth, NEW n, NEW row, SoundState(s, worth, n, row),
           NEW root \in 1..n, NEW node \in Nodes(n), NodeWorth(node, worth, row) = Some(worth[root])
    PROVE  SoundState(RebuildNode(root, s, node), worth, n, row)
<1>0. /\ Sound(s.graph, worth, n, row) /\ Remembers(s.cons, worth, n, row)
      /\ n \in Nat /\ Follows(s.graph, worth, n)
  BY SoundFacts DEF SoundState
<1>1. PICK c : c = Canonical(s.graph, node)
  OBVIOUS
<1>2. c \in Nodes(n) /\ NodeWorth(c, worth, row) = Some(worth[root])
  BY <1>0, <1>1, CanonicalSound
<1>3. PICK known : known = (c \in DOMAIN s.cons)
  OBVIOUS
<1>4. PICK merged : merged = IF c \in DOMAIN s.cons THEN Merge(s.graph, s.cons[c], root) ELSE s.graph
  OBVIOUS
<1>5. Sound(merged, worth, n, row)
  <2>1. CASE c \in DOMAIN s.cons
    <3>1. s.cons[c] \in 1..n /\ NodeWorth(c, worth, row) = Some(worth[s.cons[c]])
      BY <1>0, <2>1 DEF Remembers
    <3>2. worth[s.cons[c]] = worth[root]
      BY <1>2, <3>1 DEF Some
    <3>3. Sound(Merge(s.graph, s.cons[c], root), worth, n, row)
      BY <1>0, <3>1, <3>2, MergeSound
    <3> QED
      BY <1>4, <2>1, <3>3
  <2>2. CASE c \notin DOMAIN s.cons
    BY <1>0, <1>4, <2>2
  <2> QED
    BY <2>1, <2>2
<1>6. PICK cons : cons = IF c \in DOMAIN s.cons THEN s.cons ELSE Put(s.cons, c, root)
  OBVIOUS
<1>7. Remembers(cons, worth, n, row)
  <2>1. CASE c \in DOMAIN s.cons
    BY <1>0, <1>6, <2>1
  <2>2. CASE c \notin DOMAIN s.cons
    <3>1. /\ DOMAIN cons = DOMAIN s.cons \union {c} /\ cons[c] = root
          /\ \A x \in DOMAIN s.cons : cons[x] = s.cons[x]
      BY <1>6, <2>2 DEF Put
    <3>2. ASSUME NEW x \in DOMAIN cons
          PROVE  x \in Nodes(n) /\ cons[x] \in 1..n /\ NodeWorth(x, worth, row) = Some(worth[cons[x]])
      <4>1. CASE x = c
        BY <1>2, <3>1, <4>1
      <4>2. CASE x \in DOMAIN s.cons
        BY <1>0, <3>1, <4>2 DEF Remembers
      <4> QED
        BY <3>1, <4>1, <4>2
    <3> QED
      BY <3>2 DEF Remembers
  <2> QED
    BY <2>1, <2>2
<1>8. PICK nodes : nodes = merged.nodes[root] \union {c}
  OBVIOUS
<1>9. SoundClass(nodes, worth[root], worth, n, row)
  <2>1. SoundClass({c}, worth[root], worth, n, row)
    BY <1>2, FS_Singleton DEF SoundClass
  <2>2. SoundClass(merged.nodes[root], worth[root], worth, n, row)
    BY <1>5, SoundFacts
  <2> QED
    BY <1>8, <2>1, <2>2, UnionSound
<1>10. PICK h : h = [merged EXCEPT !.nodes[root] = nodes]
  OBVIOUS
<1>11. Sound(h, worth, n, row)
  BY <1>5, <1>9, <1>10, SetClassSound
<1>12. h = [merged EXCEPT !.nodes[root] = @ \union {c}]
  <2>1. /\ merged = [parent |-> merged.parent, nodes |-> merged.nodes, cons |-> merged.cons]
        /\ DOMAIN merged.nodes = 1..n
    BY <1>5 DEF Sound, Shaped
  <2> QED
    BY <1>8, <1>10, <2>1
<1>13. RebuildNode(root, s, node) = [graph |-> h, cons |-> cons]
  BY <1>1, <1>4, <1>6, <1>12 DEF RebuildNode
<1> QED
  BY <1>7, <1>11, <1>13 DEF SoundState

LEMMA RebuildClassSound ==
    ASSUME NEW s, NEW worth, NEW n, NEW row, SoundState(s, worth, n, row), NEW i \in 1..n
    PROVE  SoundState(RebuildClass(s, i), worth, n, row)
<1>0. /\ Sound(s.graph, worth, n, row) /\ Remembers(s.cons, worth, n, row)
      /\ SoundClass(s.graph.nodes[i], worth[i], worth, n, row)
      /\ s = [graph |-> s.graph, cons |-> s.cons]
  BY SoundFacts DEF SoundState
<1>1. PICK nodes : nodes = Listed(s.graph.nodes[i])
  OBVIOUS
<1>2. Len(nodes) \in Nat /\ \A k \in 1..Len(nodes) : nodes[k] \in s.graph.nodes[i]
  BY <1>0, <1>1, ListedFacts DEF SoundClass
<1>3. PICK c \in Nat : c = Len(nodes)
  BY <1>2
<1>4. PICK f : /\ Renewing(f, s, i, c)
               /\ RebuildClass(s, i) = IF Find(s.graph, i) # i THEN s ELSE f[c]
  <2>1. c = Len(Listed(s.graph.nodes[i]))
    BY <1>1, <1>3
  <2>2. PICK f : Renewing(f, s, i, c) /\ RenewedAs(s, i, f[c])
    BY <2>1, RenewingFacts
  <2> QED
    BY <2>2, Zenon DEF RenewedAs
<1>5. SoundState(f[0], worth, n, row)
  <2>1. f[0] = [s EXCEPT !.graph.nodes[i] = {}]
    BY <1>4 DEF Renewing
  <2>2. f[0] = [graph |-> [s.graph EXCEPT !.nodes[i] = {}], cons |-> s.cons]
    BY <1>0, <2>1
  <2>3. SoundClass({}, worth[i], worth, n, row)
    BY FS_EmptySet DEF SoundClass
  <2>4. Sound([s.graph EXCEPT !.nodes[i] = {}], worth, n, row)
    BY <1>0, <2>3, SetClassSound
  <2> QED
    BY <1>0, <2>2, <2>4 DEF SoundState
<1>6. ASSUME NEW k \in 1..c, SoundState(f[k - 1], worth, n, row)
      PROVE  SoundState(f[k], worth, n, row)
  <2>1. f[k] = RebuildNode(i, f[k - 1], nodes[k])
    BY <1>1, <1>4 DEF Renewing
  <2>2. nodes[k] \in Nodes(n) /\ NodeWorth(nodes[k], worth, row) = Some(worth[i])
    BY <1>0, <1>2, <1>3 DEF SoundClass
  <2> QED
    BY <1>6, <2>1, <2>2, RebuildNodeSound
<1> DEFINE T == {k \in 0..c : SoundState(f[k], worth, n, row)}
<1>7. 0 \in T
  BY <1>5
<1>8. \A k \in 1..c : k - 1 \in T => k \in T
  BY <1>6
<1>9. c \in T
  <2> HIDE DEF T
  <2>1. \A k \in 0..c : k \in T
    BY <1>7, <1>8, BoundedSet
  <2> QED
    BY <2>1
<1>10. SoundState(f[c], worth, n, row)
  BY <1>9
<1> QED
  BY <1>4, <1>10

LEMMA RebuildSound ==
    ASSUME NEW g, NEW worth, NEW n, NEW row, Sound(g, worth, n, row)
    PROVE  Sound(Rebuild(g), worth, n, row)
<1>0. n \in Nat /\ Len(g.parent) = n
  BY SoundFacts
<1>1. PICK f : Rebuilding(f, g, n) /\ Rebuild(g) = [f[n].graph EXCEPT !.cons = f[n].cons]
  BY <1>0, RebuildingFacts
<1>2. SoundState(f[0], worth, n, row)
  <2>1. f[0] = [graph |-> g, cons |-> << >>]
    BY <1>1 DEF Rebuilding
  <2>2. Remembers(<< >>, worth, n, row)
    BY DEF Remembers
  <2> QED
    BY <2>1, <2>2 DEF SoundState
<1>3. ASSUME NEW k \in 1..n, SoundState(f[k - 1], worth, n, row)
      PROVE  SoundState(f[k], worth, n, row)
  <2>1. f[k] = RebuildClass(f[k - 1], k)
    BY <1>1 DEF Rebuilding
  <2> QED
    BY <1>3, <2>1, RebuildClassSound
<1> DEFINE T == {k \in 0..n : SoundState(f[k], worth, n, row)}
<1>4. 0 \in T
  BY <1>0, <1>2
<1>5. \A k \in 1..n : k - 1 \in T => k \in T
  BY <1>3
<1>6. n \in T
  <2> HIDE DEF T
  <2>1. \A k \in 0..n : k \in T
    BY <1>0, <1>4, <1>5, BoundedSet
  <2> QED
    BY <1>0, <2>1
<1>7. SoundState(f[n], worth, n, row)
  BY <1>6
<1>8. PICK h : h = f[n].graph
  OBVIOUS
<1>9. PICK k : k = [h EXCEPT !.cons = f[n].cons]
  OBVIOUS
<1>10. h = [parent |-> h.parent, nodes |-> h.nodes, cons |-> h.cons] /\ Sound(h, worth, n, row)
  BY <1>7, <1>8 DEF SoundState, Sound, Shaped
<1>11. k = [parent |-> h.parent, nodes |-> h.nodes, cons |-> f[n].cons]
  BY <1>9, <1>10
<1>12. /\ k.parent = h.parent /\ k.nodes = h.nodes /\ k.cons = f[n].cons
       /\ k = [parent |-> k.parent, nodes |-> k.nodes, cons |-> k.cons]
  BY <1>11
<1>13. Remembers(k.cons, worth, n, row)
  BY <1>7, <1>12 DEF SoundState
<1>14. Sound(k, worth, n, row)
  BY <1>10, <1>12, <1>13 DEF Sound, Shaped
<1> QED
  BY <1>1, <1>8, <1>9, <1>14

-----------------------------------------------------------------------------
(* AddAll and MergeAll over pairs of a class and what is worth the same.   *)

NodesMatch(pairs, worth, n, row) ==
    \A k \in 1..Len(pairs) :
        /\ pairs[k][1] \in 1..n /\ pairs[k][2] \in Nodes(n)
        /\ NodeWorth(pairs[k][2], worth, row) = Some(worth[pairs[k][1]])

ClassesMatch(pairs, worth, n) ==
    \A k \in 1..Len(pairs) :
        /\ pairs[k][1] \in 1..n /\ pairs[k][2] \in 1..n
        /\ worth[pairs[k][1]] = worth[pairs[k][2]]

AllKnown(g, pairs, k) == \A j \in 1..k : Known(g, pairs[j][2])

GrownBy(g, worth, n, h, pairs, k, row) ==
    \E w, m : Grown(g, worth, n, h, w, m, row) /\ AllKnown(h, pairs, k)

LEMMA AddAllSound ==
    ASSUME NEW g, NEW worth, NEW n, NEW row, Sound(g, worth, n, row),
           NEW pairs, NEW c \in Nat, c = Len(pairs), NodesMatch(pairs, worth, n, row)
    PROVE  GrownBy(g, worth, n, AddAll(g, pairs), pairs, c, row)
<1>0. n \in Nat /\ worth \in [1..n -> Worths]
  BY SoundFacts
<1>1. PICK f : Adding(f, g, pairs, c) /\ AddAll(g, pairs) = f[c]
  BY AddingFacts
<1> DEFINE T == {k \in 0..c : GrownBy(g, worth, n, f[k], pairs, k, row)}
<1>2. 0 \in T
  <2>1. PICK z \in 0..c : z = 0
    OBVIOUS
  <2>2. f[z] = g
    BY <1>1, <2>1 DEF Adding
  <2>3. Grown(g, worth, n, g, worth, n, row)
    BY <1>0 DEF Grown, Extends, Keeps
  <2>4. AllKnown(g, pairs, z)
    BY <2>1 DEF AllKnown
  <2>5. GrownBy(g, worth, n, f[z], pairs, z, row)
    BY <2>2, <2>3, <2>4 DEF GrownBy
  <2> QED
    BY <2>1, <2>5
<1>3. ASSUME NEW k \in 1..c, k - 1 \in T PROVE k \in T
  <2>1. PICK w, m : Grown(g, worth, n, f[k - 1], w, m, row) /\ AllKnown(f[k - 1], pairs, k - 1)
    BY <1>3 DEF GrownBy
  <2>2. f[k] = AddNode(f[k - 1], pairs[k][2])
    BY <1>1 DEF Adding
  <2>3. /\ pairs[k][1] \in 1..n /\ pairs[k][2] \in Nodes(n)
        /\ NodeWorth(pairs[k][2], worth, row) = Some(worth[pairs[k][1]])
    BY DEF NodesMatch
  <2>4. PICK node : node = pairs[k][2]
    OBVIOUS
  <2>5. PICK v \in Worths : v = worth[pairs[k][1]]
    BY <1>0, <2>3
  <2>6. Sound(f[k - 1], w, m, row) /\ m \in Nat /\ n <= m /\ Extends(w, worth, n)
    BY <2>1 DEF Grown
  <2>7. node \in Nodes(m)
    BY <1>0, <2>3, <2>4, <2>6, NodesGrow
  <2>8. NodeWorth(node, w, row) = Some(v)
    <3>1. NodeWorth(node, w, row) = NodeWorth(node, worth, row)
      BY <1>0, <2>3, <2>4, <2>6, WorthSame
    <3> QED
      BY <2>3, <2>4, <2>5, <3>1
  <2>9. PICK u, l : Grown(f[k - 1], w, m, AddNode(f[k - 1], node), u, l, row)
                    /\ Known(AddNode(f[k - 1], node), node)
    BY <2>6, <2>7, <2>8, AddSound
  <2>10. PICK h : h = f[k] /\ h = AddNode(f[k - 1], node)
    BY <2>2, <2>4
  <2>11. Grown(f[k - 1], w, m, h, u, l, row) /\ Known(h, node)
    BY <2>9, <2>10
  <2>12. Grown(g, worth, n, h, u, l, row)
    BY <1>0, <2>1, <2>11, GrownTwice
  <2>13. ASSUME NEW j \in 1..k PROVE Known(h, pairs[j][2])
    <3>1. CASE j = k
      BY <2>4, <2>11, <3>1
    <3>2. CASE j # k
      <4>1. j \in 1..k - 1
        BY <3>2
      <4>2. Known(f[k - 1], pairs[j][2])
        BY <2>1, <4>1 DEF AllKnown
      <4>3. pairs[j][2] \in Nodes(n)
        BY DEF NodesMatch
      <4>4. pairs[j][2] \in Nodes(m)
        BY <1>0, <2>6, <4>3, NodesGrow
      <4> QED
        BY <2>11, <4>2, <4>4 DEF Grown, Keeps
    <3> QED
      BY <3>1, <3>2
  <2>14. GrownBy(g, worth, n, h, pairs, k, row)
    BY <2>12, <2>13 DEF GrownBy, AllKnown
  <2>15. GrownBy(g, worth, n, f[k], pairs, k, row) /\ k \in 0..c
    BY <2>10, <2>14
  <2> QED
    BY <2>15
<1> HIDE DEF T
<1>4. \A k \in 0..c : k \in T
  BY <1>2, <1>3, BoundedSet
<1>5. c \in T
  BY <1>4
<1> QED
  BY <1>1, <1>5 DEF T

LEMMA MergeAllSound ==
    ASSUME NEW g, NEW worth, NEW n, NEW row, Sound(g, worth, n, row),
           NEW pairs, NEW c \in Nat, c = Len(pairs), ClassesMatch(pairs, worth, n)
    PROVE  Sound(MergeAll(g, pairs), worth, n, row)
<1>1. PICK f : Merging(f, g, pairs, c) /\ MergeAll(g, pairs) = f[c]
  BY MergingFacts
<1> DEFINE T == {k \in 0..c : Sound(f[k], worth, n, row)}
<1>2. 0 \in T
  BY <1>1 DEF Merging
<1>3. ASSUME NEW k \in 1..c, k - 1 \in T PROVE k \in T
  <2>1. f[k] = Merge(f[k - 1], pairs[k][1], pairs[k][2])
    BY <1>1 DEF Merging
  <2>2. PICK a, b : a = pairs[k][1] /\ b = pairs[k][2]
    OBVIOUS
  <2>3. a \in 1..n /\ b \in 1..n /\ worth[a] = worth[b]
    BY <2>2 DEF ClassesMatch
  <2>4. Sound(f[k - 1], worth, n, row)
    BY <1>3
  <2>5. Sound(Merge(f[k - 1], a, b), worth, n, row)
    BY <2>3, <2>4, MergeSound
  <2> QED
    BY <2>1, <2>2, <2>5
<1> HIDE DEF T
<1>4. \A k \in 0..c : k \in T
  BY <1>2, <1>3, BoundedSet
<1>5. c \in T
  BY <1>4
<1> QED
  BY <1>1, <1>5 DEF T

-----------------------------------------------------------------------------
(* The rules of saturate.                                                  *)

LEMMA WorthKinds ==
    ASSUME NEW v \in Worths
    PROVE  /\ v[1] = "bool" => \E b \in BOOLEAN : v = Bool(b)
           /\ v[1] = "int" => \E i \in Int : v = << "int", i >>
           /\ v # NaN
<1>1. CASE v \in {"bool"} \X BOOLEAN
  BY <1>1 DEF Bool, NaN
<1>2. CASE v \in {"int"} \X Int
  BY <1>2 DEF NaN
<1>3. CASE v \in {"string"} \X STRING
  BY <1>3 DEF NaN
<1>4. CASE v \in {AllRows, NoRows}
  BY <1>4 DEF AllRows, NoRows, NaN
<1> QED
  BY <1>1, <1>2, <1>3, <1>4 DEF Worths, Literals

LEMMA NegatedFacts ==
    ASSUME NEW v \in Worths, NEW u, Negated(v) = Some(u)
    PROVE  \E b \in BOOLEAN : v = Bool(b) /\ u = Bool(~b)
<1>1. v[1] = "bool"
  BY DEF Negated, None, Some
<1>2. PICK b \in BOOLEAN : v = Bool(b)
  BY <1>1, WorthKinds
<1>3. v[2] = b
  BY <1>2 DEF Bool
<1>4. Some(Bool(~b)) = Some(u)
  BY <1>1, <1>3 DEF Negated
<1> QED
  BY <1>2, <1>4 DEF Some

LEMMA LogicFacts ==
    ASSUME NEW op \in {"and", "or"}, NEW l \in Worths, NEW r \in Worths, NEW u,
           Apply(op, l, r) = Some(u)
    PROVE  \E a, b \in BOOLEAN : /\ l = Bool(a) /\ r = Bool(b)
                                 /\ op = "and" => u = Bool(a /\ b)
                                 /\ op = "or" => u = Bool(a \/ b)
<1>1. l[1] = "bool" /\ r[1] = "bool"
  BY DEF Apply, None, Some
<1>2. PICK a \in BOOLEAN : l = Bool(a)
  BY <1>1, WorthKinds
<1>3. PICK b \in BOOLEAN : r = Bool(b)
  BY <1>1, WorthKinds
<1>4. l[2] = a /\ r[2] = b
  BY <1>2, <1>3 DEF Bool
<1>5. CASE op = "and"
  <2>1. Some(Bool(a /\ b)) = Some(u)
    BY <1>1, <1>4, <1>5 DEF Apply
  <2> QED
    BY <1>2, <1>3, <1>5, <2>1 DEF Some
<1>6. CASE op = "or"
  <2>1. Some(Bool(a \/ b)) = Some(u)
    BY <1>1, <1>4, <1>6 DEF Apply
  <2> QED
    BY <1>2, <1>3, <1>6, <2>1 DEF Some
<1> QED
  BY <1>5, <1>6

LEMMA CompareBoolean ==
    ASSUME NEW op \in Comparisons, NEW i, NEW j
    PROVE  Compare(op, i, j) \in BOOLEAN
<1>1. CASE op = "eq"
  <2>1. Compare(op, i, j) = (i = j)
    BY <1>1 DEF Compare
  <2> QED
    BY <2>1
<1>2. CASE op = "ne"
  <2>1. Compare(op, i, j) = (i # j)
    BY <1>2 DEF Compare
  <2> QED
    BY <2>1
<1>3. CASE op = "lt"
  <2>1. Compare(op, i, j) = (i < j)
    BY <1>3 DEF Compare
  <2> QED
    BY <2>1
<1>4. CASE op = "le"
  <2>1. Compare(op, i, j) = (i <= j)
    BY <1>4 DEF Compare
  <2> QED
    BY <2>1
<1>5. CASE op = "gt"
  <2>1. Compare(op, i, j) = (i > j)
    BY <1>5 DEF Compare
  <2> QED
    BY <2>1
<1>6. CASE op = "ge"
  <2>1. Compare(op, i, j) = (i >= j)
    BY <1>6 DEF Compare
  <2> QED
    BY <2>1
<1> QED
  BY <1>1, <1>2, <1>3, <1>4, <1>5, <1>6 DEF Comparisons

(* Folding computes what the executor does.                                *)
LEMMA FoldedFacts ==
    ASSUME NEW op \in Binaries, NEW l \in Worths, NEW r \in Worths, NEW u,
           Apply(op, l, r) = Some(u), NEW v \in Folded(op, l, r)
    PROVE  v = u /\ v \in {Bool(TRUE), Bool(FALSE)}
<1>1. l[1] = r[1]
  BY DEF Folded, None
<1>2. CASE l[1] = "int" /\ op \in Comparisons
  <2>1. PICK i \in Int : l = << "int", i >>
    BY <1>2, WorthKinds
  <2>2. PICK j \in Int : r = << "int", j >>
    BY <1>1, <1>2, WorthKinds
  <2>3. l[2] = i /\ r[2] = j
    BY <2>1, <2>2
  <2>4. v = Bool(Compare(op, i, j))
    BY <1>1, <1>2, <2>3 DEF Folded, Some
  <2>5. Compare(op, i, j) \in BOOLEAN
    BY <1>2, CompareBoolean
  <2>6. Apply(op, l, r) = Some(Bool(Compare(op, i, j)))
    <3>1. (l = r) = (i = j) /\ l # NaN
      BY <2>1, <2>2, WorthKinds
    <3>2. CASE op = "eq"
      BY <3>1, <3>2 DEF Apply, Compare
    <3>3. CASE op = "ne"
      BY <3>1, <3>3 DEF Apply, Compare
    <3>4. CASE op \in {"lt", "le", "gt", "ge"}
      BY <1>1, <1>2, <2>3, <3>4 DEF Apply
    <3> QED
      BY <1>2, <3>2, <3>3, <3>4 DEF Comparisons
  <2>7. u = Bool(Compare(op, i, j))
    BY <2>6 DEF Some
  <2> QED
    BY <2>4, <2>5, <2>7
<1>3. CASE l[1] = "bool" /\ op \in {"and", "or"} /\ ~(l[1] = "int" /\ op \in Comparisons)
  <2>1. v \in Apply(op, l, r)
    BY <1>1, <1>3 DEF Folded
  <2>2. v = u
    BY <2>1 DEF Some
  <2>3. PICK a, b \in BOOLEAN : /\ op = "and" => u = Bool(a /\ b)
                                /\ op = "or" => u = Bool(a \/ b)
    BY <1>3, LogicFacts
  <2> QED
    BY <1>3, <2>2, <2>3
<1> QED
  BY <1>1, <1>2, <1>3 DEF Folded, None

LEMMA BoolFacts ==
    ASSUME NEW b \in BOOLEAN
    PROVE  (Bool(b) = Bool(TRUE) => b) /\ (Bool(b) = Bool(FALSE) => ~b)
<1>1. CASE b = TRUE
  BY <1>1 DEF Bool
<1>2. CASE b = FALSE
  BY <1>2 DEF Bool
<1> QED
  BY <1>1, <1>2

(* The classes of true and of false.                                       *)
Decided(worth, n, yes, no) ==
    yes \in 1..n /\ worth[yes] = Bool(TRUE) /\ no \in 1..n /\ worth[no] = Bool(FALSE)

(* Classes and nodes that are worth what a node of the class is.           *)
LEMMA EqualClassesSound ==
    ASSUME NEW g, NEW worth, NEW n, NEW row, Sound(g, worth, n, row),
           NEW yes, NEW no, Decided(worth, n, yes, no),
           NEW node \in Nodes(n), NEW v, NodeWorth(node, worth, row) = Some(v),
           NEW c \in EqualClasses(g, node, yes, no)
    PROVE  c \in 1..n /\ worth[c] = v
<1>0. /\ n \in Nat /\ worth \in [1..n -> Worths]
      /\ \A i \in 1..n : /\ Find(g, i) \in 1..n /\ worth[Find(g, i)] = worth[i]
                         /\ SoundClass(g.nodes[i], worth[i], worth, n, row)
  BY SoundFacts DEF Find
<1> yes \in 1..n /\ worth[yes] = Bool(TRUE) /\ no \in 1..n /\ worth[no] = Bool(FALSE)
  BY DEF Decided
<1>1. CASE node[1] = "not"
  <2>1. node[2] \in 1..n
    BY <1>0, <1>1, NodeCases
  <2>2. PICK child \in 1..n : child = Find(g, node[2])
    BY <1>0, <2>1
  <2>3. worth[child] = worth[node[2]] /\ worth[child] \in Worths
    BY <1>0, <2>1, <2>2
  <2>4. NodeWorth(node, worth, row) = Negated(worth[node[2]])
    BY <1>1 DEF NodeWorth, IsBinary, Binaries, Comparisons
  <2>5. PICK b \in BOOLEAN : worth[child] = Bool(b) /\ v = Bool(~b)
    <3>1. PICK u \in Worths : u = worth[child]
      BY <2>3
    <3>2. Negated(u) = Some(v)
      BY <2>3, <2>4, <3>1
    <3>3. \E a \in BOOLEAN : u = Bool(a) /\ v = Bool(~a)
      BY <3>2, NegatedFacts
    <3> QED
      BY <3>1, <3>3
  <2>6. \/ \E m \in g.nodes[child] : m[1] = "not" /\ c = m[2]
        \/ child = yes /\ c = no
        \/ child = no /\ c = yes
    <3>1. c \in {m[2] : m \in {x \in g.nodes[child] : x[1] = "not"}}
                \union (IF child = yes THEN {no} ELSE IF child = no THEN {yes} ELSE {})
      BY <1>1, <2>2 DEF EqualClasses
    <3> QED
      BY <3>1
  <2>7. ASSUME NEW m \in g.nodes[child], m[1] = "not", c = m[2]
        PROVE  c \in 1..n /\ worth[c] = v
    <3>1. m \in Nodes(n) /\ NodeWorth(m, worth, row) = Some(worth[child])
      BY <1>0 DEF SoundClass
    <3>2. c \in 1..n
      BY <1>0, <2>7, <3>1, NodeCases
    <3>3. NodeWorth(m, worth, row) = Negated(worth[c])
      BY <2>7 DEF NodeWorth, IsBinary, Binaries, Comparisons
    <3>4. PICK a \in BOOLEAN : worth[c] = Bool(a) /\ worth[child] = Bool(~a)
      <4>1. worth[c] \in Worths
        BY <1>0, <3>2
      <4>2. Negated(worth[c]) = Some(worth[child])
        BY <3>1, <3>3
      <4> QED
        BY <4>1, <4>2, NegatedFacts
    <3>5. b = ~a
      BY <2>5, <3>4 DEF Bool
    <3> QED
      BY <2>5, <3>2, <3>4, <3>5
  <2>8. CASE child = yes /\ c = no
    <3>1. b
      BY <2>5, <2>8, BoolFacts
    <3> QED
      BY <2>5, <2>8, <3>1
  <2>9. CASE child = no /\ c = yes
    <3>1. ~b
      BY <2>5, <2>9, BoolFacts
    <3> QED
      BY <2>5, <2>9, <3>1
  <2> QED
    BY <2>6, <2>7, <2>8, <2>9
<1>2. CASE node[1] \in {"and", "or"}
  <2>0. node[1] \in Binaries /\ node[1] \notin {"lit", "field", "not", "scan", "empty"}
    BY <1>2 DEF Binaries
  <2>1. node[2] \in 1..n /\ node[3] \in 1..n
    BY <1>0, <2>0, NodeCases
  <2>2. PICK l \in 1..n : l = Find(g, node[2])
    BY <1>0, <2>1
  <2>3. PICK r \in 1..n : r = Find(g, node[3])
    BY <1>0, <2>1
  <2>4. PICK op \in {"and", "or"} : op = node[1]
    BY <1>2
  <2>5. /\ worth[l] = worth[node[2]] /\ worth[r] = worth[node[3]]
        /\ worth[l] \in Worths /\ worth[r] \in Worths
    BY <1>0, <2>1, <2>2, <2>3
  <2>6. NodeWorth(node, worth, row) = Apply(op, worth[l], worth[r])
    BY <2>0, <2>4, <2>5 DEF NodeWorth, IsBinary
  <2>7. PICK a, b \in BOOLEAN : /\ worth[l] = Bool(a) /\ worth[r] = Bool(b)
                                /\ op = "and" => v = Bool(a /\ b)
                                /\ op = "or" => v = Bool(a \/ b)
    <3>1. Apply(op, worth[l], worth[r]) = Some(v)
      BY <2>6
    <3>2. PICK x \in Worths : x = worth[l]
      BY <2>5
    <3>3. PICK y \in Worths : y = worth[r]
      BY <2>5
    <3>4. Apply(op, x, y) = Some(v)
      BY <3>1, <3>2, <3>3
    <3>5. PICK a, b \in BOOLEAN : /\ x = Bool(a) /\ y = Bool(b)
                                  /\ op = "and" => v = Bool(a /\ b)
                                  /\ op = "or" => v = Bool(a \/ b)
      BY <3>4, LogicFacts
    <3> QED
      BY <3>2, <3>3, <3>5
  <2>8. c \in Absorbed(op, l, r, yes, no)
    <3>1. EqualClasses(g, node, yes, no) = Absorbed(node[1], Find(g, node[2]), Find(g, node[3]), yes, no)
      BY <1>2 DEF EqualClasses
    <3> QED
      BY <2>2, <2>3, <2>4, <3>1
  <2>9. CASE op = "and"
    <3>1. \/ r = yes /\ c = l
          \/ l = yes /\ c = r
          \/ no \in {l, r} /\ c = no
          \/ l = r /\ c = l
      BY <2>8, <2>9 DEF Absorbed
    <3>2. c \in 1..n
      BY <3>1
    <3>3. v = Bool(a /\ b)
      BY <2>7, <2>9
    <3>4. /\ r = yes => b
          /\ l = yes => a
          /\ r = no => ~b
          /\ l = no => ~a
          /\ l = r => Bool(a) = Bool(b)
      BY <2>7, BoolFacts
    <3>5. a = b \/ l # r
      BY <3>4 DEF Bool
    <3> QED
      BY <2>7, <3>1, <3>2, <3>3, <3>4, <3>5
  <2>10. CASE op = "or"
    <3>1. \/ r = no /\ c = l
          \/ l = no /\ c = r
          \/ yes \in {l, r} /\ c = yes
          \/ l = r /\ c = l
      BY <2>8, <2>10 DEF Absorbed
    <3>2. c \in 1..n
      BY <3>1
    <3>3. v = Bool(a \/ b)
      BY <2>7, <2>10
    <3>4. /\ r = yes => b
          /\ l = yes => a
          /\ r = no => ~b
          /\ l = no => ~a
          /\ l = r => Bool(a) = Bool(b)
      BY <2>7, BoolFacts
    <3>5. a = b \/ l # r
      BY <3>4 DEF Bool
    <3> QED
      BY <2>7, <3>1, <3>2, <3>3, <3>4, <3>5
  <2> QED
    BY <2>9, <2>10
<1>3. CASE node[1] = "eq"
  <2>0. node[1] \in Binaries /\ node[1] \notin {"lit", "field", "not", "scan", "empty"}
    BY <1>3 DEF Binaries, Comparisons
  <2>1. node[2] \in 1..n /\ node[3] \in 1..n
    BY <1>0, <2>0, NodeCases
  <2>2. Find(g, node[2]) = Find(g, node[3]) /\ c = yes
    BY <1>3 DEF EqualClasses
  <2>3. worth[node[2]] = worth[node[3]] /\ worth[node[2]] # NaN
    BY <1>0, <2>1, <2>2, WorthKinds
  <2>4. NodeWorth(node, worth, row) = Apply("eq", worth[node[2]], worth[node[3]])
    BY <1>3 DEF NodeWorth, IsBinary, Binaries, Comparisons
  <2>5. Apply("eq", worth[node[2]], worth[node[3]]) = Some(Bool(TRUE))
    BY <2>3 DEF Apply
  <2>6. v = Bool(TRUE)
    BY <2>4, <2>5 DEF Some
  <2> QED
    BY <2>2, <2>6
<1>4. CASE node[1] \notin {"not", "and", "or", "eq"}
  BY <1>4 DEF EqualClasses
<1> QED
  BY <1>1, <1>2, <1>3, <1>4

(* The nodes that the rules can find.                                      *)
Derived == {Lit(Bool(TRUE)), Lit(Bool(FALSE)), << "scan", None >>, << "empty" >>}

LEMMA DerivedFacts ==
    ASSUME NEW n \in Nat
    PROVE  Derived \subseteq Nodes(n) /\ IsFiniteSet(Derived)
<1>1. Bool(TRUE) \in Literals /\ Bool(FALSE) \in Literals
  BY DEF Bool, Literals
<1>2. Derived \subseteq Nodes(n)
  BY <1>1, NodeBuilt DEF Derived, Lit
<1>3. IsFiniteSet(Derived)
  <2>1. PICK a : a = Lit(Bool(TRUE))
    OBVIOUS
  <2>2. PICK b : b = Lit(Bool(FALSE))
    OBVIOUS
  <2>3. PICK c : c = << "scan", None >>
    OBVIOUS
  <2>4. PICK d : d = << "empty" >>
    OBVIOUS
  <2>5. IsFiniteSet({a}) /\ IsFiniteSet({b}) /\ IsFiniteSet({c}) /\ IsFiniteSet({d})
    BY FS_Singleton
  <2>6. IsFiniteSet({a} \union {b}) /\ IsFiniteSet({c} \union {d})
    BY <2>5, FS_Union
  <2>7. IsFiniteSet(({a} \union {b}) \union ({c} \union {d}))
    BY <2>6, FS_Union
  <2>8. Derived = ({a} \union {b}) \union ({c} \union {d})
    BY <2>1, <2>2, <2>3, <2>4 DEF Derived
  <2> QED
    BY <2>7, <2>8
<1> QED
  BY <1>2, <1>3

LEMMA LiteralSound ==
    ASSUME NEW g, NEW worth, NEW n, NEW row, Sound(g, worth, n, row), NEW i \in 1..n,
           NEW l \in LiteralsOf(g, Find(g, i))
    PROVE  l = worth[i]
<1>0. /\ Find(g, i) \in 1..n /\ worth[Find(g, i)] = worth[i]
      /\ SoundClass(g.nodes[Find(g, i)], worth[Find(g, i)], worth, n, row)
  BY SoundFacts DEF Find
<1>1. PICK m \in g.nodes[Find(g, i)] : m[1] = "lit" /\ l = m[2]
  BY DEF LiteralsOf
<1>2. NodeWorth(m, worth, row) = Some(worth[i])
  BY <1>0 DEF SoundClass
<1>3. NodeWorth(m, worth, row) = Some(l)
  BY <1>1 DEF NodeWorth, IsBinary, Binaries, Comparisons
<1> QED
  BY <1>2, <1>3 DEF Some

LEMMA LitWorth ==
    ASSUME NEW v, NEW worth, NEW row
    PROVE  NodeWorth(Lit(v), worth, row) = Some(v)
BY DEF NodeWorth, Lit, IsBinary, Binaries, Comparisons

LEMMA EqualNodesSound ==
    ASSUME NEW g, NEW worth, NEW n, NEW row, Sound(g, worth, n, row),
           NEW yes, NEW no, Decided(worth, n, yes, no),
           NEW node \in Nodes(n), NEW v, NodeWorth(node, worth, row) = Some(v),
           NEW e \in EqualNodes(g, node, yes, no)
    PROVE  e \in Derived /\ NodeWorth(e, worth, row) = Some(v)
<1>0. /\ n \in Nat /\ worth \in [1..n -> Worths]
      /\ \A i \in 1..n : Find(g, i) \in 1..n /\ worth[Find(g, i)] = worth[i]
  BY SoundFacts DEF Find
<1> yes \in 1..n /\ worth[yes] = Bool(TRUE) /\ no \in 1..n /\ worth[no] = Bool(FALSE)
  BY DEF Decided
<1>1. CASE IsBinary(node)
  <2>0. node[1] \in Binaries /\ node[1] \notin {"lit", "field", "not", "scan", "empty"}
    BY <1>1 DEF IsBinary, Binaries, Comparisons
  <2>1. node[2] \in 1..n /\ node[3] \in 1..n
    BY <1>0, <2>0, NodeCases
  <2>2. e \in {Lit(x) : x \in UNION {Folded(node[1], l, r) :
                  l \in LiteralsOf(g, Find(g, node[2])), r \in LiteralsOf(g, Find(g, node[3]))}}
    <3>0. (node[1] = "scan") = FALSE
      BY <2>0
    <3>2. (node[1] = "scan" /\ node[2] # None) = FALSE
      BY <3>0
    <3>1. EqualNodes(g, node, yes, no) = {Lit(x) : x \in UNION {Folded(node[1], l, r) :
                  l \in LiteralsOf(g, Find(g, node[2])), r \in LiteralsOf(g, Find(g, node[3]))}}
      BY <1>1, <3>2 DEF EqualNodes
    <3> QED
      BY <3>1
  <2>3. PICK l \in LiteralsOf(g, Find(g, node[2])), r \in LiteralsOf(g, Find(g, node[3])) :
            \E x \in Folded(node[1], l, r) : e = Lit(x)
    BY <2>2
  <2>10. PICK x \in Folded(node[1], l, r) : e = Lit(x)
    BY <2>3
  <2>4. l = worth[node[2]] /\ r = worth[node[3]]
    BY <2>1, LiteralSound
  <2>5. l \in Worths /\ r \in Worths
    BY <1>0, <2>1, <2>4
  <2>6. PICK op \in Binaries : op = node[1]
    BY <2>0
  <2>7. NodeWorth(node, worth, row) = Apply(op, l, r)
    BY <2>0, <2>4, <2>6 DEF NodeWorth, IsBinary
  <2>8. Apply(op, l, r) = Some(v) /\ x \in Folded(op, l, r)
    BY <2>6, <2>7
  <2>9. x = v /\ x \in {Bool(TRUE), Bool(FALSE)}
    BY <2>5, <2>8, FoldedFacts
  <2> QED
    BY <2>9, <2>10, LitWorth DEF Derived
<1>2. CASE node[1] = "scan" /\ node[2] # None
  <2>1. node[2] \in Option(1..n)
    BY <1>0, <1>2, NodeCases
  <2>2. PICK f \in 1..n : node[2] = {f}
    BY <1>2, <2>1 DEF Option, None, Some
  <2>3. f = CHOOSE x \in node[2] : TRUE
    BY <2>2
  <2>4. e \in IF Find(g, f) = yes THEN {<< "scan", None >>}
              ELSE IF Find(g, f) = no THEN {<< "empty" >>} ELSE {}
    BY <1>2, <2>3 DEF EqualNodes, IsBinary, Binaries, Comparisons
  <2>5. NodeWorth(node, worth, row) = Some(ScanWorth({f}, worth))
    BY <1>2, <2>2 DEF NodeWorth, IsBinary, Binaries, Comparisons
  <2>6. CASE Find(g, f) = yes /\ e = << "scan", None >>
    <3>1. worth[f] = Bool(TRUE)
      BY <1>0, <2>6
    <3>2. ScanWorth({f}, worth) = AllRows /\ ScanWorth(None, worth) = AllRows
      BY <3>1 DEF ScanWorth, None
    <3>3. NodeWorth(e, worth, row) = Some(ScanWorth(None, worth))
      BY <2>6 DEF NodeWorth, IsBinary, Binaries, Comparisons
    <3> QED
      BY <2>5, <2>6, <3>2, <3>3 DEF Derived
  <2>7. CASE Find(g, f) = no /\ e = << "empty" >>
    <3>1. worth[f] = Bool(FALSE) /\ Bool(FALSE) # Bool(TRUE)
      BY <1>0, <2>7 DEF Bool
    <3>2. ScanWorth({f}, worth) = NoRows
      BY <3>1 DEF ScanWorth
    <3>3. NodeWorth(e, worth, row) = Some(NoRows)
      BY <2>7 DEF NodeWorth, IsBinary, Binaries, Comparisons
    <3> QED
      BY <2>5, <2>7, <3>2, <3>3 DEF Derived
  <2> QED
    BY <2>4, <2>6, <2>7
<1>3. CASE ~IsBinary(node) /\ ~(node[1] = "scan" /\ node[2] # None)
  BY <1>3 DEF EqualNodes
<1> QED
  BY <1>1, <1>2, <1>3

-----------------------------------------------------------------------------
(* One iteration of saturate keeps what every class is worth.              *)


ToAdd(g, yes, no) == Listed(NewNodes(g, yes, no))
More(g, yes, no) == AddAll(g, ToAdd(g, yes, no))
Matched(g, yes, no) == OldClasses(g, yes, no) \union NewClasses(More(g, yes, no), ToAdd(g, yes, no))
Merged(g, yes, no) == MergeAll(More(g, yes, no), Listed(Matched(g, yes, no)))

LEMMA IterateIs ==
    ASSUME NEW g, NEW yes, NEW no
    PROVE  Iterate(g, yes, no)
             = [any |-> Matched(g, yes, no) # {} /\ Merged(g, yes, no) # More(g, yes, no),
                graph |-> IF Matched(g, yes, no) = {} THEN g ELSE Rebuild(Merged(g, yes, no))]
BY Zenon DEF Iterate, Merged, Matched, More, ToAdd

Later(worth, n, h, row) ==
    \E w, m : Sound(h, w, m, row) /\ m \in Nat /\ n <= m /\ Extends(w, worth, n)

LEMMA RootedSound ==
    ASSUME NEW g, NEW worth, NEW n, NEW row, Sound(g, worth, n, row), NEW p \in Rooted(g)
    PROVE  /\ p[1] \in 1..n /\ p[2] \in Nodes(n)
           /\ NodeWorth(p[2], worth, row) = Some(worth[p[1]])
<1>0. g.parent \in [1..n -> 1..n] /\ \A i \in 1..n : SoundClass(g.nodes[i], worth[i], worth, n, row)
  BY SoundFacts
<1>1. PICK i \in {j \in DOMAIN g.parent : Find(g, j) = j} : p \in {i} \X g.nodes[i]
  BY DEF Rooted
<1>2. i \in 1..n /\ p[1] = i /\ p[2] \in g.nodes[i]
  BY <1>0, <1>1
<1> QED
  BY <1>0, <1>2 DEF SoundClass

LEMMA PairsFinite ==
    ASSUME NEW A, IsFiniteSet(A), NEW B, IsFiniteSet(B), NEW S, S \subseteq A \X B
    PROVE  IsFiniteSet(S)
<1>1. IsFiniteSet(A \X B)
  BY FS_Product
<1> QED
  BY <1>1, FS_Subset

LEMMA NewNodesSound ==
    ASSUME NEW g, NEW worth, NEW n, NEW row, Sound(g, worth, n, row),
           NEW yes, NEW no, Decided(worth, n, yes, no)
    PROVE  /\ IsFiniteSet(NewNodes(g, yes, no))
           /\ \A q \in NewNodes(g, yes, no) : /\ q[1] \in 1..n /\ q[2] \in Nodes(n)
                                              /\ NodeWorth(q[2], worth, row) = Some(worth[q[1]])
<1>0. n \in Nat
  BY SoundFacts
<1>1. ASSUME NEW q \in NewNodes(g, yes, no)
      PROVE  /\ q \in (1..n) \X Derived /\ q[1] \in 1..n /\ q[2] \in Derived
             /\ NodeWorth(q[2], worth, row) = Some(worth[q[1]])
  <2>1. PICK p \in Rooted(g) : q \in {p[1]} \X EqualNodes(g, p[2], yes, no)
    BY DEF NewNodes
  <2>2. q[1] = p[1] /\ q[2] \in EqualNodes(g, p[2], yes, no) /\ q = << q[1], q[2] >>
    BY <2>1
  <2>3. /\ p[1] \in 1..n /\ p[2] \in Nodes(n)
        /\ NodeWorth(p[2], worth, row) = Some(worth[p[1]])
    BY RootedSound
  <2>4. PICK node \in Nodes(n) : node = p[2]
    BY <2>3
  <2>5. PICK e, v : e = q[2] /\ v = worth[p[1]]
    OBVIOUS
  <2>6. NodeWorth(node, worth, row) = Some(v) /\ e \in EqualNodes(g, node, yes, no)
    BY <2>2, <2>3, <2>4, <2>5
  <2>7. e \in Derived /\ NodeWorth(e, worth, row) = Some(v)
    BY <2>6, EqualNodesSound
  <2> QED
    BY <2>2, <2>3, <2>4, <2>5, <2>7
<1>2. IsFiniteSet(NewNodes(g, yes, no))
  <2>1. IsFiniteSet(1..n)
    BY <1>0, FS_Interval
  <2>2. IsFiniteSet(Derived)
    BY <1>0, DerivedFacts
  <2>3. NewNodes(g, yes, no) \subseteq (1..n) \X Derived
    BY <1>1
  <2> QED
    BY <2>1, <2>2, <2>3, PairsFinite
<1> QED
  BY <1>0, <1>1, <1>2, DerivedFacts

LEMMA OldClassesSound ==
    ASSUME NEW g, NEW worth, NEW n, NEW row, Sound(g, worth, n, row),
           NEW yes, NEW no, Decided(worth, n, yes, no),
           NEW q \in OldClasses(g, yes, no)
    PROVE  /\ q \in (1..n) \X (1..n) /\ q[1] \in 1..n /\ q[2] \in 1..n
           /\ worth[q[1]] = worth[q[2]]
<1>1. PICK p \in Rooted(g) : q \in {p[1]} \X EqualClasses(g, p[2], yes, no)
  BY DEF OldClasses
<1>2. q[1] = p[1] /\ q[2] \in EqualClasses(g, p[2], yes, no) /\ q = << q[1], q[2] >>
  BY <1>1
<1>3. /\ p[1] \in 1..n /\ p[2] \in Nodes(n)
      /\ NodeWorth(p[2], worth, row) = Some(worth[p[1]])
  BY RootedSound
<1>4. PICK node \in Nodes(n) : node = p[2]
  BY <1>3
<1>5. PICK c, v : c = q[2] /\ v = worth[p[1]]
  OBVIOUS
<1>6. NodeWorth(node, worth, row) = Some(v) /\ c \in EqualClasses(g, node, yes, no)
  BY <1>2, <1>3, <1>4, <1>5
<1>7. c \in 1..n /\ worth[c] = v
  BY <1>6, EqualClassesSound
<1> QED
  BY <1>2, <1>3, <1>4, <1>5, <1>7

LEMMA IterateSound ==
    ASSUME NEW g, NEW worth, NEW n, NEW row, Sound(g, worth, n, row),
           NEW yes, NEW no, Decided(worth, n, yes, no)
    PROVE  Later(worth, n, Iterate(g, yes, no).graph, row)
<1>0. n \in Nat /\ worth \in [1..n -> Worths]
  BY SoundFacts
<1>1. PICK S : S = NewNodes(g, yes, no)
  OBVIOUS
<1>2. IsFiniteSet(S) /\ \A q \in S : /\ q[1] \in 1..n /\ q[2] \in Nodes(n)
                                     /\ NodeWorth(q[2], worth, row) = Some(worth[q[1]])
  BY <1>1, NewNodesSound
<1>3. PICK toAdd : toAdd = Listed(S)
  OBVIOUS
<1>4. /\ Len(toAdd) \in Nat /\ DOMAIN toAdd = 1..Len(toAdd)
      /\ \A k \in 1..Len(toAdd) : toAdd[k] \in S
  BY <1>2, <1>3, ListedFacts
<1>5. PICK c \in Nat : c = Len(toAdd)
  BY <1>4
<1>6. NodesMatch(toAdd, worth, n, row)
  BY <1>2, <1>4 DEF NodesMatch
<1>7. PICK more : more = AddAll(g, toAdd)
  OBVIOUS
<1>8. GrownBy(g, worth, n, more, toAdd, c, row)
  BY <1>5, <1>6, <1>7, AddAllSound
<1>9. PICK w, m : Grown(g, worth, n, more, w, m, row) /\ AllKnown(more, toAdd, c)
  BY <1>8 DEF GrownBy
<1>10. Sound(more, w, m, row) /\ m \in Nat /\ n <= m /\ Extends(w, worth, n)
  BY <1>9 DEF Grown
<1>11. \A i \in 1..n : i \in 1..m /\ w[i] = worth[i]
  BY <1>0, <1>10 DEF Extends
<1>12. PICK matches : matches = OldClasses(g, yes, no) \union NewClasses(more, toAdd)
  OBVIOUS
<1>13. ASSUME NEW q \in matches
       PROVE  q \in (1..m) \X (1..m) /\ q[1] \in 1..m /\ q[2] \in 1..m /\ w[q[1]] = w[q[2]]
  <2>1. CASE q \in OldClasses(g, yes, no)
    <3>1. /\ q \in (1..n) \X (1..n) /\ q[1] \in 1..n /\ q[2] \in 1..n
          /\ worth[q[1]] = worth[q[2]]
      BY <2>1, OldClassesSound
    <3> QED
      BY <1>11, <3>1
  <2>2. CASE q \in NewClasses(more, toAdd)
    <3>1. PICK k \in 1..c : q = << toAdd[k][1], AddedAs(more, toAdd[k][2]) >>
      BY <1>4, <1>5, <2>2 DEF NewClasses
    <3>2. /\ toAdd[k][1] \in 1..n /\ toAdd[k][2] \in Nodes(n)
          /\ NodeWorth(toAdd[k][2], worth, row) = Some(worth[toAdd[k][1]])
      BY <1>2, <1>4, <1>5
    <3>3. PICK node \in Nodes(n) : node = toAdd[k][2]
      BY <3>2
    <3>4. Known(more, node) /\ node \in Nodes(m)
      <4>1. Known(more, node)
        BY <1>9, <3>3 DEF AllKnown
      <4>2. node \in Nodes(m)
        BY <1>0, <1>10, NodesGrow
      <4> QED
        BY <4>1, <4>2
    <3>5. AddedAs(more, node) \in 1..m /\ NodeWorth(node, w, row) = Some(w[AddedAs(more, node)])
      BY <1>10, <3>4, KnownSound
    <3>6. NodeWorth(node, w, row) = NodeWorth(node, worth, row)
      BY <1>0, <1>10, WorthSame
    <3>7. w[AddedAs(more, node)] = worth[toAdd[k][1]]
      BY <3>2, <3>3, <3>5, <3>6 DEF Some
    <3>8. q[1] = toAdd[k][1] /\ q[2] = AddedAs(more, node) /\ q = << q[1], q[2] >>
      BY <3>1, <3>3
    <3> QED
      BY <1>11, <3>2, <3>5, <3>7, <3>8
  <2> QED
    BY <1>12, <2>1, <2>2
<1>14. IsFiniteSet(matches)
  <2>1. IsFiniteSet(1..m)
    BY <1>10, FS_Interval
  <2>2. matches \subseteq (1..m) \X (1..m)
    BY <1>13
  <2> QED
    BY <2>1, <2>2, PairsFinite
<1>15. PICK pairs : pairs = Listed(matches)
  OBVIOUS
<1>16. Len(pairs) \in Nat /\ \A k \in 1..Len(pairs) : pairs[k] \in matches
  BY <1>14, <1>15, ListedFacts
<1>17. PICK d \in Nat : d = Len(pairs)
  BY <1>16
<1>18. ClassesMatch(pairs, w, m)
  BY <1>13, <1>16 DEF ClassesMatch
<1>19. PICK merged : merged = MergeAll(more, pairs)
  OBVIOUS
<1>20. Sound(merged, w, m, row)
  BY <1>10, <1>17, <1>18, <1>19, MergeAllSound
<1>21. Sound(Rebuild(merged), w, m, row)
  BY <1>20, RebuildSound
<1>22. Iterate(g, yes, no).graph = IF matches = {} THEN g ELSE Rebuild(merged)
  <2>1. /\ toAdd = ToAdd(g, yes, no) /\ more = More(g, yes, no)
        /\ matches = Matched(g, yes, no) /\ merged = Merged(g, yes, no)
    BY <1>1, <1>3, <1>7, <1>12, <1>15, <1>19 DEF ToAdd, More, Matched, Merged
  <2>2. Iterate(g, yes, no).graph = IF Matched(g, yes, no) = {} THEN g ELSE Rebuild(Merged(g, yes, no))
    BY IterateIs
  <2> QED
    BY <2>1, <2>2
<1>23. CASE matches = {}
  <2>1. Extends(worth, worth, n) /\ n <= n
    BY <1>0 DEF Extends
  <2> QED
    BY <1>0, <1>22, <1>23, <2>1 DEF Later
<1>24. CASE matches # {}
  BY <1>10, <1>21, <1>22, <1>24 DEF Later
<1> QED
  BY <1>23, <1>24

-----------------------------------------------------------------------------
(* An expression by its shape, with the value it has on a row; S has its   *)
(* operands.                                                               *)

ValueOfLit(e, row) ==
    e[1] = "lit" /\ e[2] \in Literals /\ e \in {"lit"} \X Literals /\ Evaluate(e, row) = Some(e[2])
ValueOfField(e, row) ==
    /\ e[1] = "field" /\ e[2] \in STRING /\ e \in {"field"} \X STRING
    /\ Evaluate(e, row) = IF e[2] \in DOMAIN row THEN Some(row[e[2]]) ELSE None
ValueOfNot(e, row, S) ==
    /\ e[1] = "not" /\ e[2] \in S /\ e = << "not", e[2] >>
    /\ Evaluate(e, row) = UNION {Negated(v) : v \in Evaluate(e[2], row)}
ValueOfPair(e, row, S) ==
    /\ e[1] \in Binaries /\ e[1] \notin {"lit", "field", "not", "scan", "empty"}
    /\ e[2] \in S /\ e[3] \in S /\ e = << e[1], e[2], e[3] >>
    /\ Evaluate(e, row)
         = UNION {Apply(e[1], l, r) : l \in Evaluate(e[2], row), r \in Evaluate(e[3], row)}

LEMMA EvaluateLevel ==
    ASSUME NEW row, NEW k \in 0..MaxDepth, NEW e \in ExprsTo[k]
    PROVE  /\ e \in ExprsTo[MaxDepth]
           /\ \/ ValueOfLit(e, row) \/ ValueOfField(e, row)
              \/ k # 0 /\ ValueOfNot(e, row, ExprsTo[k - 1])
              \/ k # 0 /\ ValueOfPair(e, row, ExprsTo[k - 1])
<1>0. MaxDepth \in Nat
  BY DepthAssumption
<1>1. PICK f : Valuing(f, row) /\ \A x : Evaluate(x, row) = f[MaxDepth][x]
  BY ValuingFacts
<1>2. e \in ExprsTo[MaxDepth] /\ Evaluate(e, row) = ValueOf(e, row, f[k - 1])
  <2>1. e \in ExprsTo[MaxDepth] /\ f[MaxDepth][e] = f[k][e] /\ f[k][e] = ValueOf(e, row, f[k - 1])
    BY <1>1, ValuingStable
  <2> QED
    BY <1>1, <2>1
<1>3. ASSUME k # 0, NEW x \in ExprsTo[k - 1] PROVE f[k - 1][x] = Evaluate(x, row)
  <2>1. PICK j \in 0..MaxDepth : j = k - 1
    BY <1>0, <1>3
  <2>2. f[MaxDepth][x] = f[j][x]
    BY <1>1, <1>3, <2>1, ValuingStable
  <2> QED
    BY <1>1, <2>1, <2>2
<1>4. CASE e \in {"lit"} \X Literals
  <2>1. e[1] = "lit" /\ e[2] \in Literals
    BY <1>4
  <2>2. ValueOf(e, row, f[k - 1]) = Some(e[2])
    BY <2>1 DEF ValueOf, IsBinary, Binaries, Comparisons
  <2> QED
    BY <1>2, <1>4, <2>1, <2>2 DEF ValueOfLit
<1>5. CASE e \in {"field"} \X STRING
  <2>1. e[1] = "field" /\ e[2] \in STRING
    BY <1>5
  <2>2. ValueOf(e, row, f[k - 1]) = IF e[2] \in DOMAIN row THEN Some(row[e[2]]) ELSE None
    BY <2>1 DEF ValueOf, IsBinary, Binaries, Comparisons
  <2> QED
    BY <1>2, <1>5, <2>1, <2>2 DEF ValueOfField
<1>6. CASE k # 0 /\ e \in {"not"} \X ExprsTo[k - 1]
  <2>1. e[1] = "not" /\ e[2] \in ExprsTo[k - 1] /\ e = << "not", e[2] >>
    BY <1>6
  <2>2. ValueOf(e, row, f[k - 1]) = UNION {Negated(v) : v \in f[k - 1][e[2]]}
    BY <2>1 DEF ValueOf, IsBinary, Binaries, Comparisons
  <2>3. f[k - 1][e[2]] = Evaluate(e[2], row)
    BY <1>3, <1>6, <2>1
  <2> QED
    BY <1>2, <1>6, <2>1, <2>2, <2>3 DEF ValueOfNot
<1>7. CASE k # 0 /\ e \in Binaries \X ExprsTo[k - 1] \X ExprsTo[k - 1]
  <2>1. /\ e[1] \in Binaries /\ e[2] \in ExprsTo[k - 1] /\ e[3] \in ExprsTo[k - 1]
        /\ e = << e[1], e[2], e[3] >>
    BY <1>7
  <2>2. e[1] \notin {"lit", "field", "not", "scan", "empty"}
    BY <2>1 DEF Binaries, Comparisons
  <2>3. ValueOf(e, row, f[k - 1])
          = UNION {Apply(e[1], l, r) : l \in f[k - 1][e[2]], r \in f[k - 1][e[3]]}
    BY <2>1, <2>2 DEF ValueOf, IsBinary
  <2>4. f[k - 1][e[2]] = Evaluate(e[2], row) /\ f[k - 1][e[3]] = Evaluate(e[3], row)
    BY <1>3, <1>7, <2>1
  <2>5. ValueOf(e, row, f[k - 1])
          = UNION {Apply(e[1], l, r) : l \in Evaluate(e[2], row), r \in Evaluate(e[3], row)}
    BY <2>3, <2>4
  <2> QED
    BY <1>2, <1>7, <2>1, <2>2, <2>5 DEF ValueOfPair
<1> QED
  BY <1>2, <1>4, <1>5, <1>6, <1>7, ExprCases

(* The parts of an expression come after their own operands, and have      *)
(* values where the expression has one.                                    *)

Operands(e) ==
    CASE e[1] \in {"lit", "field"} -> {}
      [] e[1] = "not" -> {e[2]}
      [] IsBinary(e)  -> {e[2], e[3]}

Occurs(s, x) == \E j \in 1..Len(s) : s[j] = x
Before(s, k, x) == \E j \in 1..k - 1 : s[j] = x

Ordered(s) ==
    /\ s \in Seq(ExprsTo[MaxDepth])
    /\ \A k \in 1..Len(s) : \A x \in Operands(s[k]) : Before(s, k, x)

Joined(s, t, u) == \A x : Occurs(u, x) <=> Occurs(s, x) \/ Occurs(t, x)

LEMMA SingleSeq ==
    ASSUME NEW S, NEW e \in S, NEW t, t = << e >>
    PROVE  t \in Seq(S) /\ Len(t) = 1 /\ t[1] = e
OBVIOUS

LEMMA JoinedPlaces ==
    ASSUME NEW S, NEW s \in Seq(S), NEW t \in Seq(S), NEW u, u = s \o t
    PROVE  /\ u \in Seq(S) /\ Len(s) \in Nat /\ Len(t) \in Nat /\ Len(u) = Len(s) + Len(t)
           /\ \A j \in 1..Len(s) : u[j] = s[j]
           /\ \A j \in 1..Len(t) : u[Len(s) + j] = t[j]
<1>1. u \in Seq(S) /\ Len(s) \in Nat /\ Len(t) \in Nat /\ Len(u) = Len(s) + Len(t)
  OBVIOUS
<1>2. \A j \in 1..Len(s) : u[j] = s[j]
  OBVIOUS
<1>3. \A j \in 1..Len(t) : u[Len(s) + j] = t[j]
  OBVIOUS
<1> QED
  BY <1>1, <1>2, <1>3

LEMMA JoinedFacts ==
    ASSUME NEW S, NEW s \in Seq(S), NEW t \in Seq(S), NEW u, u = s \o t
    PROVE  Joined(s, t, u)
<1>1. /\ Len(s) \in Nat /\ Len(t) \in Nat /\ Len(u) = Len(s) + Len(t)
      /\ \A j \in 1..Len(s) : u[j] = s[j]
      /\ \A j \in 1..Len(t) : u[Len(s) + j] = t[j]
  BY JoinedPlaces
<1>2. ASSUME NEW x, Occurs(u, x) PROVE Occurs(s, x) \/ Occurs(t, x)
  <2>1. PICK k \in 1..Len(u) : u[k] = x
    BY <1>2 DEF Occurs
  <2>2. CASE k <= Len(s)
    BY <1>1, <2>1, <2>2 DEF Occurs
  <2>3. CASE ~(k <= Len(s))
    <3>1. k - Len(s) \in 1..Len(t) /\ Len(s) + (k - Len(s)) = k
      BY <1>1, <2>3
    <3>2. t[k - Len(s)] = x
      BY <1>1, <2>1, <3>1
    <3> QED
      BY <3>1, <3>2 DEF Occurs
  <2> QED
    BY <2>2, <2>3
<1>3. ASSUME NEW x, Occurs(s, x) PROVE Occurs(u, x)
  <2>1. PICK k \in 1..Len(s) : s[k] = x
    BY <1>3 DEF Occurs
  <2>2. k \in 1..Len(u) /\ u[k] = x
    BY <1>1, <2>1
  <2> QED
    BY <2>2 DEF Occurs
<1>4. ASSUME NEW x, Occurs(t, x) PROVE Occurs(u, x)
  <2>1. PICK k \in 1..Len(t) : t[k] = x
    BY <1>4 DEF Occurs
  <2>2. Len(s) + k \in 1..Len(u) /\ u[Len(s) + k] = x
    BY <1>1, <2>1
  <2> QED
    BY <2>2 DEF Occurs
<1> QED
  BY <1>2, <1>3, <1>4 DEF Joined

LEMMA OrderedJoin ==
    ASSUME NEW s, NEW t, NEW u, u = s \o t, Ordered(s), Ordered(t)
    PROVE  Ordered(u)
<1>0. s \in Seq(ExprsTo[MaxDepth]) /\ t \in Seq(ExprsTo[MaxDepth])
  BY DEF Ordered
<1>1. /\ u \in Seq(ExprsTo[MaxDepth])
      /\ Len(s) \in Nat /\ Len(t) \in Nat /\ Len(u) = Len(s) + Len(t)
      /\ \A j \in 1..Len(s) : u[j] = s[j]
      /\ \A j \in 1..Len(t) : u[Len(s) + j] = t[j]
  BY <1>0, JoinedPlaces
<1>2. ASSUME NEW k \in 1..Len(u), NEW x \in Operands(u[k]) PROVE Before(u, k, x)
  <2>1. CASE k <= Len(s)
    <3>1. k \in 1..Len(s) /\ x \in Operands(s[k])
      BY <1>1, <2>1
    <3>2. PICK j \in 1..k - 1 : s[j] = x
      BY <3>1 DEF Ordered, Before
    <3>3. u[j] = x
      BY <1>1, <3>1, <3>2
    <3> QED
      BY <3>3 DEF Before
  <2>2. CASE ~(k <= Len(s))
    <3>1. PICK i \in 1..Len(t) : k = Len(s) + i
      <4>1. k - Len(s) \in 1..Len(t) /\ k = Len(s) + (k - Len(s))
        BY <1>1, <2>2
      <4> QED
        BY <4>1
    <3>2. x \in Operands(t[i])
      BY <1>1, <3>1
    <3>3. PICK j \in 1..i - 1 : t[j] = x
      BY <3>2 DEF Ordered, Before
    <3>4. Len(s) + j \in 1..k - 1 /\ u[Len(s) + j] = x
      BY <1>1, <3>1, <3>3
    <3> QED
      BY <3>4 DEF Before
  <2> QED
    BY <2>1, <2>2
<1> QED
  BY <1>1, <1>2 DEF Ordered

LEMMA OrderedPut ==
    ASSUME NEW s, NEW e \in ExprsTo[MaxDepth], NEW u, u = s \o << e >>, Ordered(s),
           \A x \in Operands(e) : Occurs(s, x)
    PROVE  Ordered(u) /\ Occurs(u, e)
<1>0. s \in Seq(ExprsTo[MaxDepth])
  BY DEF Ordered
<1>1. PICK t \in Seq(ExprsTo[MaxDepth]) : t = << e >> /\ Len(t) = 1 /\ t[1] = e
  <2>1. PICK t : t = << e >>
    OBVIOUS
  <2> QED
    BY <2>1, SingleSeq
<1>2. /\ u \in Seq(ExprsTo[MaxDepth])
      /\ Len(s) \in Nat /\ Len(u) = Len(s) + 1
      /\ \A j \in 1..Len(s) : u[j] = s[j]
      /\ u[Len(s) + 1] = e
  <2>1. u = s \o t
    BY <1>1
  <2>2. /\ u \in Seq(ExprsTo[MaxDepth]) /\ Len(s) \in Nat /\ Len(u) = Len(s) + Len(t)
        /\ \A j \in 1..Len(s) : u[j] = s[j]
        /\ \A j \in 1..Len(t) : u[Len(s) + j] = t[j]
    BY <1>0, <2>1, JoinedPlaces
  <2>3. 1 \in 1..Len(t)
    BY <1>1
  <2> QED
    BY <1>1, <2>2, <2>3
<1>3. ASSUME NEW k \in 1..Len(u), NEW x \in Operands(u[k]) PROVE Before(u, k, x)
  <2>1. CASE k <= Len(s)
    <3>1. k \in 1..Len(s) /\ x \in Operands(s[k])
      BY <1>2, <2>1
    <3>2. PICK j \in 1..k - 1 : s[j] = x
      BY <3>1 DEF Ordered, Before
    <3>3. u[j] = x
      BY <1>2, <3>1, <3>2
    <3> QED
      BY <3>3 DEF Before
  <2>2. CASE ~(k <= Len(s))
    <3>1. k = Len(s) + 1 /\ x \in Operands(e)
      BY <1>2, <2>2
    <3>2. PICK j \in 1..Len(s) : s[j] = x
      BY <3>1 DEF Occurs
    <3>3. j \in 1..k - 1 /\ u[j] = x
      BY <1>2, <3>1, <3>2
    <3> QED
      BY <3>3 DEF Before
  <2> QED
    BY <2>1, <2>2
<1>4. Occurs(u, e)
  BY <1>2 DEF Occurs
<1> QED
  BY <1>2, <1>3, <1>4 DEF Ordered

AllValued(s, row) == \A x : Occurs(s, x) => Evaluate(x, row) # None
Postorder(s, e, row) == Ordered(s) /\ Occurs(s, e) /\ AllValued(s, row)

LEMMA OperandsOf ==
    ASSUME NEW e
    PROVE  /\ e[1] \in {"lit", "field"} => Operands(e) = {}
           /\ e[1] = "not" => Operands(e) = {e[2]}
           /\ e[1] \in Binaries /\ e[1] \notin {"lit", "field", "not", "scan", "empty"}
                => Operands(e) = {e[2], e[3]}
<1>1. CASE e[1] \in {"lit", "field"}
  BY <1>1 DEF Operands, IsBinary, Binaries, Comparisons
<1>2. CASE e[1] = "not"
  BY <1>2 DEF Operands, IsBinary, Binaries, Comparisons
<1>3. CASE e[1] \in Binaries /\ e[1] \notin {"lit", "field", "not", "scan", "empty"}
  BY <1>3 DEF Operands, IsBinary
<1> QED
  BY <1>1, <1>2, <1>3

LEMMA EmptyOrdered ==
    ASSUME NEW s, s = << >>
    PROVE  Ordered(s) /\ \A x : ~Occurs(s, x)
<1>1. s \in Seq(ExprsTo[MaxDepth]) /\ Len(s) = 0
  OBVIOUS
<1> QED
  BY <1>1 DEF Ordered, Occurs

(* The last step: what comes before the expression itself.                 *)
LEMMA PostorderPut ==
    ASSUME NEW row, NEW s, NEW e \in ExprsTo[MaxDepth], NEW u, u = s \o << e >>,
           Ordered(s), AllValued(s, row), \A x \in Operands(e) : Occurs(s, x),
           Evaluate(e, row) # None
    PROVE  Postorder(u, e, row)
<1>1. Ordered(u) /\ Occurs(u, e)
  BY OrderedPut
<1>2. PICK S : S = ExprsTo[MaxDepth]
  OBVIOUS
<1>3. PICK t : t = << e >>
  OBVIOUS
<1>4. t \in Seq(S) /\ Len(t) = 1 /\ t[1] = e
  BY <1>2, <1>3, SingleSeq
<1>5. s \in Seq(S)
  BY <1>2 DEF Ordered
<1>6. Joined(s, t, u)
  BY <1>3, <1>4, <1>5, JoinedFacts
<1>7. ASSUME NEW x, Occurs(t, x) PROVE x = e
  BY <1>4, <1>7 DEF Occurs
<1>8. AllValued(u, row)
  BY <1>6, <1>7 DEF AllValued, Joined
<1> QED
  BY <1>1, <1>8 DEF Postorder

LEMMA PartsPostorder ==
    ASSUME NEW row, NEW e \in ExprsTo[MaxDepth], Evaluate(e, row) # None
    PROVE  Postorder(PartsOf[MaxDepth][e], e, row)
<1>0. MaxDepth \in Nat
  BY DepthAssumption
<1> DEFINE Good(k) == \A x \in ExprsTo[k] :
                Evaluate(x, row) # None => Postorder(PartsOf[k][x], x, row)
           T == {k \in 0..MaxDepth : Good(k)}
<1>1. ASSUME NEW k \in 0..MaxDepth, k # 0 => k - 1 \in T PROVE k \in T
  <2>1. ASSUME NEW x \in ExprsTo[k], Evaluate(x, row) # None
        PROVE  Postorder(PartsOf[k][x], x, row)
    <3>1. PICK ops : ops = PartsOf[k - 1]
      OBVIOUS
    <3>2. x \in ExprsTo[MaxDepth] /\ PartsOf[k][x] = PartsFrom(x, ops)
      BY <3>1, PartsFacts, PartsStable
    <3>3. ASSUME k # 0, NEW y \in ExprsTo[k - 1], Evaluate(y, row) # None
          PROVE  Ordered(ops[y]) /\ Occurs(ops[y], y) /\ AllValued(ops[y], row)
      BY <1>1, <3>1, <3>3 DEF Postorder
    <3>4. PICK empty : empty = << >>
      OBVIOUS
    <3>5. Ordered(empty) /\ \A y : ~Occurs(empty, y)
      BY <3>4, EmptyOrdered
    <3>6. CASE x[1] \in {"lit", "field"}
      <4>1. PartsFrom(x, ops) = empty \o << x >>
        BY <3>4, <3>6 DEF PartsFrom, IsBinary, Binaries, Comparisons
      <4>2. \A y \in Operands(x) : Occurs(empty, y)
        BY <3>6, OperandsOf
      <4>3. AllValued(empty, row)
        BY <3>5 DEF AllValued
      <4>4. PICK u : u = empty \o << x >>
        OBVIOUS
      <4>5. Postorder(u, x, row)
        BY <2>1, <3>2, <3>5, <4>2, <4>3, <4>4, PostorderPut
      <4> QED
        BY <3>2, <4>1, <4>4, <4>5
    <3>7. CASE k # 0 /\ ValueOfNot(x, row, ExprsTo[k - 1])
      <4>1. /\ x[1] = "not" /\ x[2] \in ExprsTo[k - 1]
            /\ Evaluate(x, row) = UNION {Negated(v) : v \in Evaluate(x[2], row)}
        BY <3>7 DEF ValueOfNot
      <4>2. Evaluate(x[2], row) # None
        BY <2>1, <4>1 DEF None
      <4>3. PICK s : s = ops[x[2]]
        OBVIOUS
      <4>4. Ordered(s) /\ Occurs(s, x[2]) /\ AllValued(s, row)
        BY <3>3, <3>7, <4>1, <4>2, <4>3
      <4>5. PartsFrom(x, ops) = s \o << x >>
        BY <4>1, <4>3 DEF PartsFrom, IsBinary, Binaries, Comparisons
      <4>6. \A y \in Operands(x) : Occurs(s, y)
        BY <4>1, <4>4, OperandsOf
      <4>7. PICK u : u = s \o << x >>
        OBVIOUS
      <4>8. Postorder(u, x, row)
        BY <2>1, <3>2, <4>4, <4>6, <4>7, PostorderPut
      <4> QED
        BY <3>2, <4>5, <4>7, <4>8
    <3>8. CASE k # 0 /\ ValueOfPair(x, row, ExprsTo[k - 1])
      <4>1. /\ x[1] \in Binaries /\ x[1] \notin {"lit", "field", "not", "scan", "empty"}
            /\ x[2] \in ExprsTo[k - 1] /\ x[3] \in ExprsTo[k - 1]
            /\ Evaluate(x, row)
                 = UNION {Apply(x[1], l, r) : l \in Evaluate(x[2], row), r \in Evaluate(x[3], row)}
        BY <3>8 DEF ValueOfPair
      <4>2. Evaluate(x[2], row) # None /\ Evaluate(x[3], row) # None
        BY <2>1, <4>1 DEF None
      <4>3. PICK s, t : s = ops[x[2]] /\ t = ops[x[3]]
        OBVIOUS
      <4>4. /\ Ordered(s) /\ Occurs(s, x[2]) /\ AllValued(s, row)
            /\ Ordered(t) /\ Occurs(t, x[3]) /\ AllValued(t, row)
        BY <3>3, <3>8, <4>1, <4>2, <4>3
      <4>5. PICK both : both = s \o t
        OBVIOUS
      <4>6. Ordered(both)
        BY <4>4, <4>5, OrderedJoin
      <4>7. Joined(s, t, both)
        BY <4>4, <4>5, JoinedFacts DEF Ordered
      <4>8. AllValued(both, row) /\ Occurs(both, x[2]) /\ Occurs(both, x[3])
        BY <4>4, <4>7 DEF AllValued, Joined
      <4>9. PartsFrom(x, ops) = both \o << x >>
        BY <4>1, <4>3, <4>5 DEF PartsFrom, IsBinary
      <4>10. \A y \in Operands(x) : Occurs(both, y)
        BY <4>1, <4>8, OperandsOf
      <4>11. PICK u : u = both \o << x >>
        OBVIOUS
      <4>12. Postorder(u, x, row)
        BY <2>1, <3>2, <4>6, <4>8, <4>10, <4>11, PostorderPut
      <4> QED
        BY <3>2, <4>9, <4>11, <4>12
    <3>9. \/ x[1] \in {"lit", "field"}
          \/ k # 0 /\ ValueOfNot(x, row, ExprsTo[k - 1])
          \/ k # 0 /\ ValueOfPair(x, row, ExprsTo[k - 1])
      BY EvaluateLevel DEF ValueOfLit, ValueOfField
    <3> QED
      BY <3>6, <3>7, <3>8, <3>9
  <2> QED
    BY <2>1
<1>2. 0 \in T
  BY <1>0, <1>1
<1>3. ASSUME NEW k \in 1..MaxDepth, k - 1 \in T PROVE k \in T
  <2>1. k \in 0..MaxDepth
    BY <1>0
  <2> HIDE DEF T
  <2> QED
    BY <1>1, <1>3, <2>1
<1>4. MaxDepth \in T
  <2> HIDE DEF T
  <2>1. \A k \in 0..MaxDepth : k \in T
    BY <1>0, <1>2, <1>3, BoundedSet
  <2> QED
    BY <1>0, <2>1
<1> QED
  BY <1>4

-----------------------------------------------------------------------------
(* add_expr: the class of an expression is worth its value.                *)

ExactRow(row) == \A name \in DOMAIN row : row[name] \in Literals

Classes(classOf, w, m, row) ==
    \A x \in DOMAIN classOf : classOf[x] \in 1..m /\ Evaluate(x, row) = Some(w[classOf[x]])

PartsKnown(s, S, row) ==
    \E w, m : /\ Sound(s.graph, w, m, row) /\ DOMAIN s.classOf = S
              /\ Classes(s.classOf, w, m, row)

LEMMA BoolLiteral ==
    ASSUME NEW b \in BOOLEAN
    PROVE  Bool(b) \in Literals
BY DEF Bool, Literals

LEMMA AppliedLiteral ==
    ASSUME NEW op \in Binaries, NEW l \in Worths, NEW r \in Worths, NEW u,
           Apply(op, l, r) = Some(u)
    PROVE  u \in Literals
<1>1. CASE op = "eq"
  <2>1. PICK b \in BOOLEAN : b = (l = r /\ l # NaN)
    OBVIOUS
  <2>2. Apply(op, l, r) = Some(Bool(b))
    BY <1>1, <2>1 DEF Apply
  <2> QED
    BY <2>2, BoolLiteral DEF Some
<1>2. CASE op = "ne"
  <2>1. PICK b \in BOOLEAN : b = (l # r \/ l = NaN)
    OBVIOUS
  <2>2. Apply(op, l, r) = Some(Bool(b))
    BY <1>2, <2>1 DEF Apply
  <2> QED
    BY <2>2, BoolLiteral DEF Some
<1>3. CASE op \in {"lt", "le", "gt", "ge"}
  <2>1. \/ l[1] = r[1] /\ l[1] = "int"
        \/ ~(l[1] = r[1] /\ l[1] = "int")
    OBVIOUS
  <2>2. CASE l[1] = r[1] /\ l[1] = "int"
    <3>1. PICK b \in BOOLEAN : b = Compare(op, l[2], r[2])
      BY <1>3, CompareBoolean DEF Comparisons
    <3>2. Apply(op, l, r) = Some(Bool(b))
      BY <1>3, <2>2, <3>1 DEF Apply
    <3> QED
      BY <3>2, BoolLiteral DEF Some
  <2>3. CASE ~(l[1] = r[1] /\ l[1] = "int")
    <3>1. Apply(op, l, r) = IF l[1] = r[1] /\ l[1] = "float" THEN Some(Bool(FALSE)) ELSE None
      BY <1>3, <2>3 DEF Apply
    <3>2. u = Bool(FALSE)
      BY <3>1 DEF Some, None
    <3> QED
      BY <3>2, BoolLiteral
  <2> QED
    BY <2>1, <2>2, <2>3
<1>4. CASE op \in {"and", "or"}
  <2>1. PICK a, b \in BOOLEAN : /\ l = Bool(a) /\ r = Bool(b)
                                /\ op = "and" => u = Bool(a /\ b)
                                /\ op = "or" => u = Bool(a \/ b)
    BY <1>4, LogicFacts
  <2>2. (a /\ b) \in BOOLEAN /\ (a \/ b) \in BOOLEAN
    OBVIOUS
  <2>3. Bool(a /\ b) \in Literals /\ Bool(a \/ b) \in Literals
    BY <2>2, BoolLiteral
  <2> QED
    BY <1>4, <2>1, <2>3
<1> QED
  BY <1>1, <1>2, <1>3, <1>4 DEF Binaries, Comparisons

LEMMA AppliedOption ==
    ASSUME NEW op \in Binaries, NEW l, NEW r, Apply(op, l, r) # None
    PROVE  \E v : Apply(op, l, r) = Some(v)
<1>1. CASE op = "eq"
  BY <1>1 DEF Apply
<1>2. CASE op = "ne"
  BY <1>2 DEF Apply
<1>3. CASE op \in {"lt", "le", "gt", "ge"}
  BY <1>3 DEF Apply
<1>4. CASE op \in {"and", "or"}
  BY <1>4 DEF Apply
<1> QED
  BY <1>1, <1>2, <1>3, <1>4 DEF Binaries, Comparisons

(* The node of a part, from the classes of its operands.                   *)
LEMMA NodeOfSound ==
    ASSUME NEW row, ExactRow(row), NEW w, NEW m \in Nat, w \in [1..m -> Worths],
           NEW classOf, Classes(classOf, w, m, row),
           NEW e \in ExprsTo[MaxDepth], Operands(e) \subseteq DOMAIN classOf,
           Evaluate(e, row) # None
    PROVE  /\ NodeOf(e, classOf) \in Nodes(m)
           /\ NodeWorth(NodeOf(e, classOf), w, row) = Evaluate(e, row)
           /\ \E v \in Worths : Evaluate(e, row) = Some(v)
<1>0. MaxDepth \in 0..MaxDepth
  BY DepthAssumption
<1>1. \A x \in DOMAIN classOf :
          /\ classOf[x] \in 1..m /\ Evaluate(x, row) = Some(w[classOf[x]])
          /\ w[classOf[x]] \in Worths
  BY DEF Classes
<1>2. \/ ValueOfLit(e, row) \/ ValueOfField(e, row)
      \/ ValueOfNot(e, row, ExprsTo[MaxDepth - 1])
      \/ ValueOfPair(e, row, ExprsTo[MaxDepth - 1])
  BY <1>0, EvaluateLevel
<1>3. Literals \subseteq Worths
  BY DEF Worths
<1>4. CASE ValueOfLit(e, row)
  <2>1. /\ e[1] = "lit" /\ e[2] \in Literals /\ e \in {"lit"} \X Literals
        /\ Evaluate(e, row) = Some(e[2])
    BY <1>4 DEF ValueOfLit
  <2>2. NodeOf(e, classOf) = e
    BY <2>1 DEF NodeOf, IsBinary, Binaries, Comparisons
  <2>3. e \in Nodes(m)
    BY <2>1 DEF Nodes
  <2>4. NodeWorth(e, w, row) = Some(e[2])
    BY <2>1 DEF NodeWorth, IsBinary, Binaries, Comparisons
  <2> QED
    BY <1>3, <2>1, <2>2, <2>3, <2>4
<1>5. CASE ValueOfField(e, row)
  <2>1. /\ e[1] = "field" /\ e[2] \in STRING /\ e \in {"field"} \X STRING
        /\ Evaluate(e, row) = IF e[2] \in DOMAIN row THEN Some(row[e[2]]) ELSE None
    BY <1>5 DEF ValueOfField
  <2>2. NodeOf(e, classOf) = e
    BY <2>1 DEF NodeOf, IsBinary, Binaries, Comparisons
  <2>3. e \in Nodes(m)
    BY <2>1 DEF Nodes
  <2>4. NodeWorth(e, w, row) = IF e[2] \in DOMAIN row THEN Some(row[e[2]]) ELSE None
    BY <2>1 DEF NodeWorth, IsBinary, Binaries, Comparisons
  <2>5. e[2] \in DOMAIN row /\ Evaluate(e, row) = Some(row[e[2]])
    BY <2>1
  <2>6. row[e[2]] \in Worths
    BY <1>3, <2>5 DEF ExactRow
  <2> QED
    BY <2>1, <2>2, <2>3, <2>4, <2>5, <2>6
<1>6. CASE ValueOfNot(e, row, ExprsTo[MaxDepth - 1])
  <2>1. e[1] = "not" /\ Evaluate(e, row) = UNION {Negated(v) : v \in Evaluate(e[2], row)}
    BY <1>6 DEF ValueOfNot
  <2>2. e[2] \in DOMAIN classOf
    BY <2>1, OperandsOf
  <2>3. PICK i \in 1..m : /\ i = classOf[e[2]] /\ Evaluate(e[2], row) = Some(w[i])
                          /\ w[i] \in Worths
    BY <1>1, <2>2
  <2>4. NodeOf(e, classOf) = << "not", i >>
    BY <2>1, <2>3 DEF NodeOf, IsBinary, Binaries, Comparisons
  <2>5. << "not", i >> \in Nodes(m)
    BY NodeBuilt
  <2>6. NodeWorth(<< "not", i >>, w, row) = Negated(w[i])
    BY DEF NodeWorth, IsBinary, Binaries, Comparisons
  <2>7. Evaluate(e, row) = Negated(w[i])
    BY <2>1, <2>3 DEF Some
  <2>8. PICK v : Negated(w[i]) = Some(v)
    BY <2>7 DEF Negated, None, Some
  <2>9. PICK b \in BOOLEAN : v = Bool(~b)
    BY <2>3, <2>8, NegatedFacts
  <2>10. (~b) \in BOOLEAN
    OBVIOUS
  <2>11. Bool(~b) \in Literals
    BY <2>10, BoolLiteral
  <2> QED
    BY <1>3, <2>4, <2>5, <2>6, <2>7, <2>8, <2>9, <2>11
<1>7. CASE ValueOfPair(e, row, ExprsTo[MaxDepth - 1])
  <2>1. /\ e[1] \in Binaries /\ e[1] \notin {"lit", "field", "not", "scan", "empty"}
        /\ Evaluate(e, row)
             = UNION {Apply(e[1], l, r) : l \in Evaluate(e[2], row), r \in Evaluate(e[3], row)}
    BY <1>7 DEF ValueOfPair
  <2>2. e[2] \in DOMAIN classOf /\ e[3] \in DOMAIN classOf
    BY <2>1, OperandsOf
  <2>3. PICK i \in 1..m : /\ i = classOf[e[2]] /\ Evaluate(e[2], row) = Some(w[i])
                          /\ w[i] \in Worths
    BY <1>1, <2>2
  <2>4. PICK j \in 1..m : /\ j = classOf[e[3]] /\ Evaluate(e[3], row) = Some(w[j])
                          /\ w[j] \in Worths
    BY <1>1, <2>2
  <2>5. PICK op \in Binaries : op = e[1] /\ op \notin {"lit", "field", "not", "scan", "empty"}
    BY <2>1
  <2>6. NodeOf(e, classOf) = << op, i, j >>
    BY <2>1, <2>3, <2>4, <2>5 DEF NodeOf, IsBinary
  <2>7. << op, i, j >> \in Nodes(m)
    BY NodeBuilt
  <2>8. NodeWorth(<< op, i, j >>, w, row) = Apply(op, w[i], w[j])
    BY <2>5 DEF NodeWorth, IsBinary
  <2>9. Evaluate(e, row) = Apply(op, w[i], w[j])
    <3>1. Evaluate(e, row) = UNION {Apply(op, l, r) : l \in {w[i]}, r \in {w[j]}}
      BY <2>1, <2>3, <2>4, <2>5 DEF Some
    <3> QED
      BY <3>1
  <2>10. PICK v : Apply(op, w[i], w[j]) = Some(v)
    BY <2>9, AppliedOption
  <2>11. v \in Literals
    BY <2>3, <2>4, <2>10, AppliedLiteral
  <2> QED
    BY <1>3, <2>6, <2>7, <2>8, <2>9, <2>10, <2>11
<1> QED
  BY <1>2, <1>4, <1>5, <1>6, <1>7

AddedWorth(g, node, w, m, v) == AddedAs(g, node) \in 1..m /\ w[AddedAs(g, node)] = v

(* A class after add of one node.                                          *)
LEMMA AddedSound ==
    ASSUME NEW g, NEW worth, NEW n, NEW row, Sound(g, worth, n, row),
           NEW node \in Nodes(n), NEW v \in Worths, NodeWorth(node, worth, row) = Some(v),
           NEW h, h = AddNode(g, node)
    PROVE  \E w, m : Grown(g, worth, n, h, w, m, row) /\ AddedWorth(h, node, w, m, v)
<1>0. n \in Nat
  BY SoundFacts
<1>1. PICK w, m : Grown(g, worth, n, h, w, m, row) /\ Known(h, node)
  BY AddSound
<1>2. Sound(h, w, m, row) /\ m \in Nat /\ n <= m /\ Extends(w, worth, n)
  BY <1>1 DEF Grown
<1>3. node \in Nodes(m)
  BY <1>0, <1>2, NodesGrow
<1>4. AddedAs(h, node) \in 1..m /\ NodeWorth(node, w, row) = Some(w[AddedAs(h, node)])
  BY <1>1, <1>2, <1>3, KnownSound
<1>5. NodeWorth(node, w, row) = Some(v)
  <2>1. NodeWorth(node, w, row) = NodeWorth(node, worth, row)
    BY <1>0, <1>2, WorthSame
  <2> QED
    BY <2>1
<1>6. AddedWorth(h, node, w, m, v)
  BY <1>4, <1>5 DEF AddedWorth, Some
<1> QED
  BY <1>1, <1>6

LEMMA AddPartSound ==
    ASSUME NEW row, ExactRow(row), NEW s, NEW w, NEW m, Sound(s.graph, w, m, row),
           Classes(s.classOf, w, m, row),
           NEW e \in ExprsTo[MaxDepth], Operands(e) \subseteq DOMAIN s.classOf,
           Evaluate(e, row) # None
    PROVE  PartsKnown(AddPart(s, e), DOMAIN s.classOf \union {e}, row)
<1>0. m \in Nat /\ w \in [1..m -> Worths]
  BY SoundFacts
<1>1. PICK g : g = s.graph
  OBVIOUS
<1>2. PICK classOf : classOf = s.classOf
  OBVIOUS
<1>3. PICK node : node = NodeOf(e, classOf)
  OBVIOUS
<1>4. /\ node \in Nodes(m) /\ NodeWorth(node, w, row) = Evaluate(e, row)
      /\ \E v \in Worths : Evaluate(e, row) = Some(v)
  BY <1>0, <1>2, <1>3, NodeOfSound
<1>5. PICK v \in Worths : Evaluate(e, row) = Some(v)
  BY <1>4
<1>6. PICK h : h = AddNode(g, node)
  OBVIOUS
<1>7. NodeWorth(node, w, row) = Some(v) /\ Sound(g, w, m, row)
  BY <1>1, <1>4, <1>5
<1>8. PICK u, l : Grown(g, w, m, h, u, l, row) /\ AddedWorth(h, node, u, l, v)
  BY <1>4, <1>6, <1>7, AddedSound
<1>9. PICK c : c = AddedAs(h, node)
  OBVIOUS
<1>10. PICK k : k = Put(classOf, e, c)
  OBVIOUS
<1>11. AddPart(s, e) = [graph |-> h, classOf |-> k]
  BY <1>1, <1>2, <1>3, <1>6, <1>9, <1>10 DEF AddPart
<1>12. /\ DOMAIN k = DOMAIN classOf \union {e} /\ k[e] = c
       /\ \A x \in DOMAIN classOf : x # e => k[x] = classOf[x]
  BY <1>10 DEF Put
<1>13. Sound(h, u, l, row) /\ l \in Nat /\ m <= l /\ Extends(u, w, m)
  BY <1>8 DEF Grown
<1>14. ASSUME NEW x \in DOMAIN k PROVE k[x] \in 1..l /\ Evaluate(x, row) = Some(u[k[x]])
  <2>1. CASE x = e
    BY <1>5, <1>8, <1>9, <1>12, <2>1 DEF AddedWorth
  <2>2. CASE x # e
    <3>1. k[x] = classOf[x] /\ classOf[x] \in 1..m /\ Evaluate(x, row) = Some(w[classOf[x]])
      BY <1>2, <1>12, <2>2 DEF Classes
    <3>2. u[classOf[x]] = w[classOf[x]]
      BY <1>13, <3>1 DEF Extends
    <3> QED
      BY <1>0, <1>13, <3>1, <3>2
  <2> QED
    BY <2>1, <2>2
<1>15. Classes(k, u, l, row)
  BY <1>14 DEF Classes
<1> QED
  BY <1>2, <1>11, <1>12, <1>13, <1>15 DEF PartsKnown

LEMMA AddExprSound ==
    ASSUME NEW row, ExactRow(row), NEW g, NEW w, NEW m, Sound(g, w, m, row),
           NEW e \in ExprsTo[MaxDepth], Evaluate(e, row) # None
    PROVE  \E u, l : /\ Sound(AddExpr(g, e).graph, u, l, row)
                     /\ AddExpr(g, e).classOf[e] \in 1..l
                     /\ Evaluate(e, row) = Some(u[AddExpr(g, e).classOf[e]])
<1>1. PICK parts : parts = PartsOf[MaxDepth][e]
  OBVIOUS
<1>2. Ordered(parts) /\ Occurs(parts, e) /\ AllValued(parts, row)
  BY <1>1, PartsPostorder DEF Postorder
<1>3. PICK c \in Nat : c = Len(parts)
  <2>1. Len(parts) \in Nat
    BY <1>2 DEF Ordered
  <2> QED
    BY <2>1
<1>4. PICK f : Parting(f, g, e, c) /\ AddExpr(g, e) = f[c]
  <2>1. c = Len(PartsOf[MaxDepth][e])
    BY <1>1, <1>3
  <2> QED
    BY <2>1, PartingFacts
<1> DEFINE First(k) == {parts[j] : j \in 1..k}
           T == {k \in 0..c : PartsKnown(f[k], First(k), row)}
<1>5. 0 \in T
  <2>1. PICK z \in 0..c : z = 0
    OBVIOUS
  <2>2. PICK empty : empty = << >>
    OBVIOUS
  <2>3. DOMAIN empty = {}
    BY <2>2
  <2>4. Classes(empty, w, m, row)
    BY <2>3 DEF Classes
  <2>6. f[z] = [graph |-> g, classOf |-> empty]
    BY <1>4, <2>1, <2>2 DEF Parting
  <2>7. PICK s : s = f[z] /\ s.graph = g /\ s.classOf = empty
    BY <2>6
  <2>8. First(z) = {}
    BY <2>1
  <2>9. PartsKnown(s, {}, row)
    BY <2>3, <2>4, <2>7 DEF PartsKnown
  <2>5. PartsKnown(f[z], First(z), row)
    BY <2>7, <2>8, <2>9
  <2> QED
    BY <2>1, <2>5
<1>6. ASSUME NEW k \in 1..c, k - 1 \in T PROVE k \in T
  <2>1. PICK u, l : /\ Sound(f[k - 1].graph, u, l, row)
                    /\ DOMAIN f[k - 1].classOf = First(k - 1)
                    /\ Classes(f[k - 1].classOf, u, l, row)
    BY <1>6 DEF PartsKnown
  <2>2. PICK s : s = f[k - 1]
    OBVIOUS
  <2>3. PICK x : x = parts[k]
    OBVIOUS
  <2>4. x \in ExprsTo[MaxDepth] /\ Occurs(parts, x)
    BY <1>2, <1>3, <2>3 DEF Ordered, Occurs
  <2>5. Evaluate(x, row) # None
    BY <1>2, <2>4 DEF AllValued
  <2>6. Operands(x) \subseteq First(k - 1)
    BY <1>2, <1>3, <2>3 DEF Ordered, Before
  <2>7. PartsKnown(AddPart(s, x), DOMAIN s.classOf \union {x}, row)
    BY <2>1, <2>2, <2>4, <2>5, <2>6, AddPartSound
  <2>8. f[k] = AddPart(s, x)
    BY <1>1, <1>4, <2>2, <2>3 DEF Parting
  <2>9. DOMAIN s.classOf \union {x} = First(k)
    <3>1. 1..k = (1..k - 1) \union {k}
      OBVIOUS
    <3> QED
      BY <2>1, <2>2, <2>3, <3>1
  <2> QED
    BY <2>7, <2>8, <2>9
<1>7. c \in T
  <2> HIDE DEF T
  <2>1. \A k \in 0..c : k \in T
    BY <1>5, <1>6, BoundedSet
  <2> QED
    BY <2>1
<1>8. PICK u, l : /\ Sound(f[c].graph, u, l, row) /\ DOMAIN f[c].classOf = First(c)
                  /\ Classes(f[c].classOf, u, l, row)
  BY <1>7 DEF PartsKnown
<1>9. e \in DOMAIN f[c].classOf
  BY <1>2, <1>3, <1>8 DEF Occurs
<1> QED
  BY <1>4, <1>8, <1>9 DEF Classes

-----------------------------------------------------------------------------
(* The invariant: on every exact row that the input has a value on, the    *)
(* graph has worths that all its nodes agree with, and that give the       *)
(* classes of the goal what they stand for.                                *)

EmptyGraph == [parent |-> << >>, nodes |-> << >>, cons |-> << >>]

ScanOf(truth) == IF truth = Some(Bool(TRUE)) THEN AllRows ELSE NoRows

GoalSound(classes, truth, w, m) ==
    /\ classes.expr \in 1..m /\ truth = Some(w[classes.expr])
    /\ classes.scan \in 1..m /\ w[classes.scan] = ScanOf(truth)
    /\ Decided(w, m, classes.yes, classes.no)

RowSound(classes, row) ==
    \E w, m : Sound(egraph, w, m, row) /\ GoalSound(classes, Truth(row), w, m)

EgraphInv ==
    /\ input \in ExprsTo[MaxDepth]
    /\ goal = None => egraph = EmptyGraph
    /\ \A a, b \in goal : a = b
    /\ \A classes \in goal : \A row \in Rows :
          Exact(row) /\ Truth(row) # None => RowSound(classes, row)

LEMMA EmptySound ==
    ASSUME NEW row
    PROVE  \E w : Sound(EmptyGraph, w, 0, row)
<1>1. PICK w : w = << >>
  OBVIOUS
<1>2. PICK empty : empty = << >>
  OBVIOUS
<1>3. PICK n \in Nat : n = 0
  OBVIOUS
<1>4. PICK g : g = EmptyGraph
  OBVIOUS
<1>5. 1..n = {}
  BY <1>3
<1>6. Len(empty) = n /\ DOMAIN empty = {} /\ empty = [i \in 1..n |-> empty[i]]
  BY <1>2, <1>3
<1>7. g = [parent |-> empty, nodes |-> empty, cons |-> empty]
  BY <1>2, <1>4 DEF EmptyGraph
<1>8. /\ g.parent = empty /\ g.nodes = empty /\ g.cons = empty
      /\ g = [parent |-> g.parent, nodes |-> g.nodes, cons |-> g.cons]
  BY <1>7
<1>9. empty \in [1..n -> 1..n] /\ w \in [1..n -> Worths]
  BY <1>1, <1>2, <1>5, <1>6
<1>10. Shaped(g, n)
  BY <1>5, <1>6, <1>8, <1>9 DEF Shaped
<1>11. Remembers(g.cons, w, n, row)
  BY <1>6, <1>8 DEF Remembers
<1>12. Sound(g, w, n, row)
  BY <1>5, <1>9, <1>10, <1>11 DEF Sound
<1> QED
  BY <1>3, <1>4, <1>12

LEMMA ExactFacts ==
    ASSUME NEW row \in Rows, Exact(row)
    PROVE  ExactRow(row)
BY EgraphAssumption DEF Exact, ExactRow, Values

LEMMA InitInv == EgraphInit => EgraphInv
<1>1. SUFFICES ASSUME EgraphInit PROVE EgraphInv
  OBVIOUS
<1>2. 0 \in 0..MaxDepth /\ MaxDepth \in 0..MaxDepth
  BY DepthAssumption
<1>3. PICK v : v = Bool(TRUE)
  OBVIOUS
<1>4. v \in Literals
  <2>1. TRUE \in BOOLEAN
    OBVIOUS
  <2> QED
    BY <1>3, <2>1, BoolLiteral
<1>5. << "lit", v >> \in ExprsTo[MaxDepth]
  BY <1>2, <1>4, ExprBuilt
<1>6. input \in ExprsTo[MaxDepth]
  BY <1>1, <1>3, <1>5 DEF EgraphInit, Lit
<1>7. goal = None /\ egraph = EmptyGraph
  BY <1>1 DEF EgraphInit, EmptyGraph
<1> QED
  BY <1>6, <1>7 DEF EgraphInv, None

LEMMA GoalGrows ==
    ASSUME NEW classes, NEW truth, NEW w, NEW m \in Nat, NEW u, NEW l \in Nat, m <= l,
           GoalSound(classes, truth, w, m), Extends(u, w, m)
    PROVE  GoalSound(classes, truth, u, l)
<1>1. \A i \in 1..m : i \in 1..l /\ u[i] = w[i]
  BY DEF Extends
<1> QED
  BY <1>1 DEF GoalSound, Decided

LEMMA SaturateInv ==
    ASSUME EgraphInv, Saturate
    PROVE  EgraphInv'
<1>1. PICK classes \in goal :
          egraph' = Iterate(egraph, Find(egraph, classes.yes), Find(egraph, classes.no)).graph
  BY DEF Saturate
<1>2. input' = input /\ goal' = goal /\ goal # None
  BY DEF Saturate
<1>3. goal' # None
  BY <1>2
<1>4. ASSUME NEW c \in goal', NEW row \in Rows, Exact(row), Truth(row)' # None
      PROVE  RowSound(c, row)'
  <2>1. Truth(row)' = Truth(row)
    BY <1>2 DEF Truth
  <2>2. c = classes
    BY <1>1, <1>2 DEF EgraphInv
  <2>3. RowSound(classes, row)
    BY <1>1, <1>4, <2>1 DEF EgraphInv
  <2>4. PICK w, m : Sound(egraph, w, m, row) /\ GoalSound(classes, Truth(row), w, m)
    BY <2>3 DEF RowSound
  <2>5. PICK yes, no : yes = Find(egraph, classes.yes) /\ no = Find(egraph, classes.no)
    OBVIOUS
  <2>6. m \in Nat /\ \A i \in 1..m : Find(egraph, i) \in 1..m /\ w[Find(egraph, i)] = w[i]
    BY <2>4, SoundFacts DEF Find
  <2>7. Decided(w, m, yes, no)
    BY <2>4, <2>5, <2>6 DEF GoalSound, Decided
  <2>8. Later(w, m, Iterate(egraph, yes, no).graph, row)
    BY <2>4, <2>7, IterateSound
  <2>9. PICK u, l : Sound(egraph', u, l, row) /\ l \in Nat /\ m <= l /\ Extends(u, w, m)
    BY <1>1, <2>5, <2>8 DEF Later
  <2>10. GoalSound(classes, Truth(row), u, l)
    BY <2>4, <2>6, <2>9, GoalGrows
  <2> QED
    BY <2>1, <2>2, <2>9, <2>10 DEF RowSound
<1> QED
  BY <1>2, <1>3, <1>4 DEF EgraphInv

LEMMA AddedKeeps ==
    ASSUME NEW g, NEW worth, NEW n, NEW h, NEW w, NEW m, NEW row,
           Grown(g, worth, n, h, w, m, row), NEW i \in 1..n, n \in Nat
    PROVE  i \in 1..m /\ w[i] = worth[i]
BY DEF Grown, Extends

(* The three nodes that follow the expression.                             *)
Yes == Lit(Bool(TRUE))
No == Lit(Bool(FALSE))
PlanGoal(c, h, scan, i, k) ==
    [expr |-> c, scan |-> AddedAs(h, scan), yes |-> AddedAs(i, Yes), no |-> AddedAs(k, No)]

LEMMA PlanSound ==
    ASSUME NEW row, NEW g, NEW u, NEW l, Sound(g, u, l, row), NEW c \in 1..l,
           NEW truth, truth = Some(u[c]),
           NEW scan, scan = << "scan", Some(c) >>,
           NEW yes, yes = Yes, NEW no, no = No,
           NEW h, h = AddNode(g, scan), NEW i, i = AddNode(h, yes), NEW k, k = AddNode(i, no),
           NEW classes, classes = PlanGoal(c, h, scan, i, k)
    PROVE  \E w, m : Sound(k, w, m, row) /\ GoalSound(classes, truth, w, m)
<1>0. l \in Nat /\ u \in [1..l -> Worths]
  BY SoundFacts
<1>1. PICK s \in Worths : s = ScanOf(truth)
  BY DEF ScanOf, Worths
<1>2. PICK t \in Worths : t = Bool(TRUE) /\ t \in Literals
  <2>1. TRUE \in BOOLEAN
    OBVIOUS
  <2> QED
    BY <2>1, BoolLiteral DEF Worths
<1>3. PICK f \in Worths : f = Bool(FALSE) /\ f \in Literals
  <2>1. FALSE \in BOOLEAN
    OBVIOUS
  <2> QED
    BY <2>1, BoolLiteral DEF Worths
<1>4. yes = << "lit", t >> /\ no = << "lit", f >> /\ yes = Lit(t) /\ no = Lit(f)
  BY <1>2, <1>3 DEF Lit, Yes, No
<1>5. scan \in Nodes(l) /\ NodeWorth(scan, u, row) = Some(s)
  <2>1. scan \in Nodes(l)
    BY <1>0, NodeBuilt
  <2>2. NodeWorth(scan, u, row) = Some(ScanWorth(Some(c), u))
    BY DEF NodeWorth, IsBinary, Binaries, Comparisons
  <2>3. ScanWorth(Some(c), u) = s
    BY <1>1 DEF ScanWorth, ScanOf, Some
  <2> QED
    BY <2>1, <2>2, <2>3
<1>6. PICK u1, l1 : Grown(g, u, l, h, u1, l1, row) /\ AddedWorth(h, scan, u1, l1, s)
  BY <1>5, AddedSound
<1>7. Sound(h, u1, l1, row) /\ l1 \in Nat
  BY <1>6 DEF Grown
<1>8. yes \in Nodes(l1) /\ NodeWorth(yes, u1, row) = Some(t)
  BY <1>2, <1>4, <1>7, NodeBuilt, LitWorth
<1>9. PICK u2, l2 : Grown(h, u1, l1, i, u2, l2, row) /\ AddedWorth(i, yes, u2, l2, t)
  BY <1>7, <1>8, AddedSound
<1>10. Sound(i, u2, l2, row) /\ l2 \in Nat
  BY <1>9 DEF Grown
<1>11. no \in Nodes(l2) /\ NodeWorth(no, u2, row) = Some(f)
  BY <1>3, <1>4, <1>10, NodeBuilt, LitWorth
<1>12. PICK u3, l3 : Grown(i, u2, l2, k, u3, l3, row) /\ AddedWorth(k, no, u3, l3, f)
  BY <1>10, <1>11, AddedSound
<1>13. /\ \A j \in 1..l : j \in 1..l1 /\ u1[j] = u[j]
       /\ \A j \in 1..l1 : j \in 1..l2 /\ u2[j] = u1[j]
       /\ \A j \in 1..l2 : j \in 1..l3 /\ u3[j] = u2[j]
  <2>1. \A j \in 1..l : j \in 1..l1 /\ u1[j] = u[j]
    BY <1>0, <1>6, AddedKeeps
  <2>2. ASSUME NEW j \in 1..l1 PROVE j \in 1..l2 /\ u2[j] = u1[j]
    <3>1. Grown(h, u1, l1, i, u2, l2, row) /\ l1 \in Nat
      BY <1>7, <1>9
    <3> QED
      BY <3>1, AddedKeeps
  <2>3. ASSUME NEW j \in 1..l2 PROVE j \in 1..l3 /\ u3[j] = u2[j]
    <3>1. Grown(i, u2, l2, k, u3, l3, row) /\ l2 \in Nat
      BY <1>10, <1>12
    <3> QED
      BY <3>1, AddedKeeps
  <2> QED
    BY <2>1, <2>2, <2>3
<1>14. /\ classes.expr = c /\ classes.scan = AddedAs(h, scan)
       /\ classes.yes = AddedAs(i, yes) /\ classes.no = AddedAs(k, no)
  BY DEF PlanGoal
<1>15. classes.expr \in 1..l3 /\ truth = Some(u3[classes.expr])
  BY <1>13, <1>14
<1>16. classes.scan \in 1..l3 /\ u3[classes.scan] = s
  BY <1>6, <1>13, <1>14 DEF AddedWorth
<1>17. classes.yes \in 1..l3 /\ u3[classes.yes] = t
  BY <1>9, <1>13, <1>14 DEF AddedWorth
<1>18. classes.no \in 1..l3 /\ u3[classes.no] = f
  BY <1>12, <1>14 DEF AddedWorth
<1>19. Decided(u3, l3, classes.yes, classes.no)
  BY <1>2, <1>3, <1>17, <1>18 DEF Decided
<1>20. GoalSound(classes, truth, u3, l3)
  BY <1>1, <1>15, <1>16, <1>19 DEF GoalSound
<1> QED
  BY <1>12, <1>20 DEF Grown

LEMMA AddPlanInv ==
    ASSUME EgraphInv, NEW expr \in Exprs, AddPlan(expr)
    PROVE  EgraphInv'
<1>1. expr \in ExprsTo[MaxDepth] /\ input' = expr /\ egraph = EmptyGraph
  BY EgraphAssumption DEF AddPlan, EgraphInv
<1>2. PICK e, scan, yes, no :
          /\ e = AddExpr(egraph, expr) /\ scan = << "scan", Some(e.classOf[expr]) >>
          /\ yes = Yes /\ no = No
  OBVIOUS
<1>3. PICK h : h = AddNode(e.graph, scan)
  OBVIOUS
<1>4. PICK i : i = AddNode(h, yes)
  OBVIOUS
<1>5. PICK k : k = AddNode(i, no)
  OBVIOUS
<1>6. PICK classes : classes = PlanGoal(e.classOf[expr], h, scan, i, k)
  OBVIOUS
<1>7. egraph' = k /\ goal' = Some(classes)
  BY <1>2, <1>3, <1>4, <1>5, <1>6 DEF AddPlan, PlanGoal, Yes, No
<1>8. ASSUME NEW row \in Rows, Exact(row), Truth(row)' # None PROVE RowSound(classes, row)'
  <2>1. PICK truth : truth = Truth(row)' /\ truth = Evaluate(expr, row) /\ truth # None
    BY <1>1, <1>8 DEF Truth
  <2>2. PICK w, z : Sound(egraph, w, z, row)
    BY <1>1, EmptySound
  <2>3. ExactRow(row)
    BY <1>8, ExactFacts
  <2>4. PICK u, l : /\ Sound(e.graph, u, l, row) /\ e.classOf[expr] \in 1..l
                    /\ Evaluate(expr, row) = Some(u[e.classOf[expr]])
    BY <1>1, <1>2, <2>1, <2>2, <2>3, AddExprSound
  <2>5. PICK g, c : g = e.graph /\ c = e.classOf[expr]
    OBVIOUS
  <2>6. /\ Sound(g, u, l, row) /\ c \in 1..l /\ truth = Some(u[c])
        /\ scan = << "scan", Some(c) >> /\ h = AddNode(g, scan)
        /\ classes = PlanGoal(c, h, scan, i, k)
    BY <1>2, <1>3, <1>6, <2>1, <2>4, <2>5
  <2>7. \E v, m : Sound(k, v, m, row) /\ GoalSound(classes, truth, v, m)
    BY <1>2, <1>4, <1>5, <2>6, PlanSound
  <2> QED
    BY <1>7, <2>1, <2>7 DEF RowSound
<1>9. input' \in ExprsTo[MaxDepth] /\ goal' # None /\ \A c \in goal' : c = classes
  BY <1>1, <1>7 DEF Some, None
<1> QED
  BY <1>8, <1>9 DEF EgraphInv

LEMMA StutterInv ==
    ASSUME EgraphInv, UNCHANGED egraphVars
    PROVE  EgraphInv'
<1>1. input' = input /\ egraph' = egraph /\ goal' = goal
  BY DEF egraphVars
<1>2. \A row : Truth(row)' = Truth(row)
  BY <1>1 DEF Truth
<1>3. \A classes, row : RowSound(classes, row)' <=> RowSound(classes, row)
  BY <1>1, <1>2 DEF RowSound
<1> QED
  BY <1>1, <1>2, <1>3 DEF EgraphInv

LEMMA EgraphInvariant == EgraphSpec => []EgraphInv
<1>1. EgraphInv /\ [EgraphNext]_egraphVars => EgraphInv'
  <2>1. ASSUME EgraphInv, NEW expr \in Exprs, AddPlan(expr) PROVE EgraphInv'
    BY <2>1, AddPlanInv
  <2>2. ASSUME EgraphInv, Saturate PROVE EgraphInv'
    BY <2>2, SaturateInv
  <2>3. ASSUME EgraphInv, UNCHANGED egraphVars PROVE EgraphInv'
    BY <2>3, StutterInv
  <2> QED
    BY <2>1, <2>2, <2>3 DEF EgraphNext
<1> QED
  BY <1>1, InitInv, PTL DEF EgraphSpec

-----------------------------------------------------------------------------
(* The expressions of every class, by their depth.                         *)
FindingStep(g, best, k, f) == 
    [root \in DOMAIN g.parent |->
        UNION {ExprsFrom(g, node, IF k = 0 THEN None ELSE Some(f[k - 1])) :
               node \in {m \in NodesOf(g, root) : NodeCost(g, best, m) = best[root]}}]

LEMMA FindingSame ==
    ASSUME NEW g, NEW best, NEW k \in Nat, NEW f, NEW h, k # 0 => f[k - 1] = h[k - 1]
    PROVE  FindingStep(g, best, k, f) = FindingStep(g, best, k, h)
<1>1. (IF k = 0 THEN None ELSE Some(f[k - 1])) = IF k = 0 THEN None ELSE Some(h[k - 1])
  OBVIOUS
<1> QED
  BY <1>1, Zenon DEF FindingStep


IsFinding(g, best, n, f) == f = [k \in 0..n |-> FindingStep(g, best, k, f)]

LEMMA FindingExists ==
    ASSUME NEW g, NEW best, NEW m \in Nat
    PROVE  \E f : IsFinding(g, best, m, f)
<1> DEFINE T == {n \in Nat : \E f : IsFinding(g, best, n, f)}
<1>1. 0 \in T
  <2>1. PICK f : f = [k \in 0..0 |-> FindingStep(g, best, 0, << >>)]
    OBVIOUS
  <2>2. ASSUME NEW k \in 0..0 PROVE FindingStep(g, best, k, f) = FindingStep(g, best, 0, << >>)
    <3>1. k = 0
      OBVIOUS
    <3>2. FindingStep(g, best, 0, f) = FindingStep(g, best, 0, << >>)
      BY FindingSame
    <3> QED
      BY <3>1, <3>2, Zenon
  <2>3. [k \in 0..0 |-> FindingStep(g, best, k, f)] = [k \in 0..0 |-> FindingStep(g, best, 0, << >>)]
    BY <2>2, Zenon
  <2>4. IsFinding(g, best, 0, f)
    BY <2>1, <2>3 DEF IsFinding
  <2> QED
    BY <2>4
<1>2. ASSUME NEW n \in Nat, n \in T PROVE n + 1 \in T
  <2>1. PICK w : IsFinding(g, best, n, w)
    BY <1>2
  <2>2. PICK v : v = [k \in 0..n + 1 |-> FindingStep(g, best, k, w)]
    OBVIOUS
  <2>3. ASSUME NEW k \in 0..n PROVE v[k] = w[k]
    BY <2>1, <2>2 DEF IsFinding
  <2>4. ASSUME NEW k \in 0..n + 1
        PROVE  FindingStep(g, best, k, w) = FindingStep(g, best, k, v)
    <3>1. k \in Nat /\ (k # 0 => w[k - 1] = v[k - 1])
      BY <2>3
    <3> QED
      BY <3>1, FindingSame
  <2>5. [k \in 0..n + 1 |-> FindingStep(g, best, k, w)]
          = [k \in 0..n + 1 |-> FindingStep(g, best, k, v)]
    BY <2>4, Zenon
  <2>6. IsFinding(g, best, n + 1, v)
    BY <2>2, <2>5 DEF IsFinding
  <2> QED
    BY <2>6
<1> HIDE DEF T
<1>3. m \in T
  BY <1>1, <1>2, NaturalSet
<1> QED
  BY <1>3 DEF T

Finding(f, g, best) == \A k \in 0..MaxDepth : f[k] = FindingStep(g, best, k, f)

LEMMA FindingFacts ==
    ASSUME NEW g, NEW best
    PROVE  \E f : Finding(f, g, best) /\ \A id : Extract(g, best, id) = f[MaxDepth][Find(g, id)]
<1>0. MaxDepth \in Nat
  BY DepthAssumption
<1>1. PICK f : f = CHOOSE h : IsFinding(g, best, MaxDepth, h)
  OBVIOUS
<1>2. IsFinding(g, best, MaxDepth, f)
  BY <1>0, <1>1, FindingExists
<1>3. \A id : Extract(g, best, id) = f[MaxDepth][Find(g, id)]
  BY <1>1 DEF Extract, IsFinding, FindingStep
<1>4. \A k \in 0..MaxDepth : f[k] = FindingStep(g, best, k, f)
  BY <1>2 DEF IsFinding
<1> QED
  BY <1>3, <1>4, Zenon DEF Finding

(* An expression built from a node is worth what the node is.              *)
FoundSound(e, k, v, row) == e \in ExprsTo[k] /\ Evaluate(e, row) = Some(v)

LEMMA AtomSound ==
    ASSUME NEW row, NEW worth, NEW k \in 0..MaxDepth, NEW e, NEW v,
           e \in ({"lit"} \X Literals) \union ({"field"} \X STRING),
           NodeWorth(e, worth, row) = Some(v)
    PROVE  FoundSound(e, k, v, row)
<1>1. e \in ExprsTo[k] /\ e[1] \in {"lit", "field"}
  BY ExprBuilt
<1>2. \/ ValueOfLit(e, row) \/ ValueOfField(e, row)
      \/ ValueOfNot(e, row, ExprsTo[k - 1]) \/ ValueOfPair(e, row, ExprsTo[k - 1])
  BY <1>1, EvaluateLevel
<1>3. CASE e[1] = "lit"
  <2>1. Evaluate(e, row) = Some(e[2])
    BY <1>2, <1>3 DEF ValueOfLit, ValueOfField, ValueOfNot, ValueOfPair
  <2>2. NodeWorth(e, worth, row) = Some(e[2])
    BY <1>3 DEF NodeWorth, IsBinary, Binaries, Comparisons
  <2> QED
    BY <1>1, <2>1, <2>2 DEF FoundSound
<1>4. CASE e[1] = "field"
  <2>1. Evaluate(e, row) = IF e[2] \in DOMAIN row THEN Some(row[e[2]]) ELSE None
    BY <1>2, <1>4 DEF ValueOfLit, ValueOfField, ValueOfNot, ValueOfPair
  <2>2. NodeWorth(e, worth, row) = IF e[2] \in DOMAIN row THEN Some(row[e[2]]) ELSE None
    BY <1>4 DEF NodeWorth, IsBinary, Binaries, Comparisons
  <2> QED
    BY <1>1, <2>1, <2>2 DEF FoundSound
<1> QED
  BY <1>1, <1>3, <1>4

LEMMA NegationSound ==
    ASSUME NEW row, NEW k \in 1..MaxDepth, NEW x, NEW u, FoundSound(x, k - 1, u, row),
           NEW v, Negated(u) = Some(v), NEW e, e = << "not", x >>
    PROVE  FoundSound(e, k, v, row)
<1>1. k \in 0..MaxDepth /\ k # 0 /\ x \in ExprsTo[k - 1]
  BY DepthAssumption DEF FoundSound
<1>2. e \in {"not"} \X ExprsTo[k - 1] /\ e[1] = "not" /\ e[2] = x
  BY <1>1
<1>3. e \in ExprsTo[k]
  BY <1>1, <1>2, ExprBuilt
<1>4. ValueOfNot(e, row, ExprsTo[k - 1])
  <2>1. \/ ValueOfLit(e, row) \/ ValueOfField(e, row)
        \/ ValueOfNot(e, row, ExprsTo[k - 1]) \/ ValueOfPair(e, row, ExprsTo[k - 1])
    BY <1>1, <1>3, EvaluateLevel
  <2> QED
    BY <1>2, <2>1 DEF ValueOfLit, ValueOfField, ValueOfPair
<1>5. Evaluate(e, row) = UNION {Negated(w) : w \in Some(u)}
  BY <1>2, <1>4 DEF ValueOfNot, FoundSound
<1>6. Evaluate(e, row) = Negated(u)
  BY <1>5 DEF Some
<1> QED
  BY <1>3, <1>6 DEF FoundSound

LEMMA PairSound ==
    ASSUME NEW row, NEW k \in 1..MaxDepth, NEW x, NEW y, NEW a, NEW b,
           FoundSound(x, k - 1, a, row), FoundSound(y, k - 1, b, row),
           NEW op \in Binaries, NEW v, Apply(op, a, b) = Some(v), NEW e, e = << op, x, y >>
    PROVE  FoundSound(e, k, v, row)
<1>1. k \in 0..MaxDepth /\ k # 0 /\ x \in ExprsTo[k - 1] /\ y \in ExprsTo[k - 1]
  BY DepthAssumption DEF FoundSound
<1>2. /\ e \in Binaries \X ExprsTo[k - 1] \X ExprsTo[k - 1]
      /\ e[1] = op /\ e[2] = x /\ e[3] = y
  BY <1>1
<1>3. e \in ExprsTo[k]
  BY <1>1, <1>2, ExprBuilt
<1>4. ValueOfPair(e, row, ExprsTo[k - 1])
  <2>1. \/ ValueOfLit(e, row) \/ ValueOfField(e, row)
        \/ ValueOfNot(e, row, ExprsTo[k - 1]) \/ ValueOfPair(e, row, ExprsTo[k - 1])
    BY <1>1, <1>3, EvaluateLevel
  <2>2. op \notin {"lit", "field", "not"}
    BY DEF Binaries, Comparisons
  <2> QED
    BY <1>2, <2>1, <2>2 DEF ValueOfLit, ValueOfField, ValueOfNot
<1>5. Evaluate(e, row) = UNION {Apply(op, l, r) : l \in {a}, r \in {b}}
  BY <1>2, <1>4 DEF ValueOfPair, FoundSound, Some
<1>6. Evaluate(e, row) = Apply(op, a, b)
  <2>1. ASSUME NEW z \in Evaluate(e, row) PROVE z \in Apply(op, a, b)
    BY <1>5
  <2>2. ASSUME NEW z \in Apply(op, a, b) PROVE z \in Evaluate(e, row)
    BY <1>5
  <2>3. Evaluate(e, row) = Some(v)
    <3>1. v \in Evaluate(e, row) /\ \A z \in Evaluate(e, row) : z = v
      BY <2>1, <2>2 DEF Some
    <3>2. PICK S : S = Evaluate(e, row)
      OBVIOUS
    <3>3. S = UNION {Apply(op, l, r) : l \in {a}, r \in {b}}
      BY <1>5, <3>2
    <3>4. S = {v}
      BY <3>1, <3>2, <3>3
    <3> QED
      BY <3>2, <3>4 DEF Some
  <2> QED
    BY <2>3
<1> QED
  BY <1>3, <1>6 DEF FoundSound

(* Whatever is extracted for a class is worth what the class is.           *)
LEMMA FoundFrom ==
    ASSUME NEW g, NEW worth, NEW n, NEW row, Sound(g, worth, n, row),
           NEW k \in 0..MaxDepth, NEW node \in Nodes(n), NEW v,
           NodeWorth(node, worth, row) = Some(v),
           NEW before,
           k # 0 => \A root \in 1..n : \A x \in before[root] : FoundSound(x, k - 1, worth[root], row),
           NEW e \in ExprsFrom(g, node, IF k = 0 THEN None ELSE Some(before))
    PROVE  FoundSound(e, k, v, row)
<1>0. n \in Nat /\ \A i \in 1..n : Find(g, i) \in 1..n /\ worth[Find(g, i)] = worth[i]
  BY SoundFacts DEF Find
<1>1. CASE node[1] \in {"lit", "field"}
  <2>1. ExprsFrom(g, node, IF k = 0 THEN None ELSE Some(before)) = {node}
    BY <1>1 DEF ExprsFrom, IsBinary, Binaries, Comparisons
  <2>2. node \in ({"lit"} \X Literals) \union ({"field"} \X STRING)
    BY <1>0, <1>1, NodeCases
  <2> QED
    BY <2>1, <2>2, AtomSound
<1>2. CASE node[1] = "not"
  <2>1. node[2] \in 1..n
    BY <1>0, <1>2, NodeCases
  <2>2. e \in UNION {{"not"} \X f[Find(g, node[2])] : f \in IF k = 0 THEN None ELSE Some(before)}
    BY <1>2 DEF ExprsFrom, IsBinary, Binaries, Comparisons
  <2>3. k # 0
    BY <2>2 DEF None
  <2>4. e \in {"not"} \X before[Find(g, node[2])]
    BY <2>2, <2>3 DEF Some
  <2>5. PICK x \in before[Find(g, node[2])] : e = << "not", x >>
    BY <2>4
  <2>6. PICK u : u = worth[node[2]]
    OBVIOUS
  <2>7. FoundSound(x, k - 1, u, row)
    BY <1>0, <2>1, <2>3, <2>6
  <2>8. NodeWorth(node, worth, row) = Negated(u)
    BY <1>2, <2>6 DEF NodeWorth, IsBinary, Binaries, Comparisons
  <2>9. Negated(u) = Some(v) /\ k \in 1..MaxDepth
    BY <2>3, <2>8, DepthAssumption
  <2> QED
    BY <2>5, <2>7, <2>9, NegationSound
<1>3. CASE node[1] \in Binaries /\ node[1] \notin {"lit", "field", "not", "scan", "empty"}
  <2>1. node[2] \in 1..n /\ node[3] \in 1..n
    BY <1>0, <1>3, NodeCases
  <2>2. PICK op \in Binaries : op = node[1] /\ op \notin {"lit", "field", "not", "scan", "empty"}
    BY <1>3
  <2>3. e \in UNION {{op} \X f[Find(g, node[2])] \X f[Find(g, node[3])] :
                     f \in IF k = 0 THEN None ELSE Some(before)}
    BY <2>2 DEF ExprsFrom, IsBinary
  <2>4. k # 0
    BY <2>3 DEF None
  <2>5. e \in {op} \X before[Find(g, node[2])] \X before[Find(g, node[3])]
    BY <2>3, <2>4 DEF Some
  <2>6. PICK x \in before[Find(g, node[2])], y \in before[Find(g, node[3])] : e = << op, x, y >>
    BY <2>5
  <2>7. PICK a, b : a = worth[node[2]] /\ b = worth[node[3]]
    OBVIOUS
  <2>8. FoundSound(x, k - 1, a, row) /\ FoundSound(y, k - 1, b, row)
    BY <1>0, <2>1, <2>4, <2>7
  <2>9. NodeWorth(node, worth, row) = Apply(op, a, b)
    BY <2>2, <2>7 DEF NodeWorth, IsBinary
  <2>10. Apply(op, a, b) = Some(v) /\ k \in 1..MaxDepth
    BY <2>4, <2>9, DepthAssumption
  <2> QED
    BY <2>6, <2>8, <2>10, PairSound
<1>4. CASE node[1] \in {"scan", "empty"}
  BY <1>4 DEF ExprsFrom, IsBinary, Binaries, Comparisons
<1> QED
  BY <1>0, <1>1, <1>2, <1>3, <1>4, NodeCases

LEMMA NodesOfSound ==
    ASSUME NEW g, NEW worth, NEW n, NEW row, Sound(g, worth, n, row), NEW root,
           NEW node \in NodesOf(g, root)
    PROVE  node \in Nodes(n) /\ NodeWorth(node, worth, row) = Some(worth[root])
<1>0. /\ DOMAIN g.parent = 1..n
      /\ \A i \in 1..n : /\ worth[g.parent[i]] = worth[i]
                         /\ SoundClass(g.nodes[i], worth[i], worth, n, row)
  BY SoundFacts
<1>1. PICK i \in 1..n : g.parent[i] = root /\ node \in g.nodes[i]
  BY <1>0 DEF NodesOf, Find
<1>2. worth[i] = worth[root]
  BY <1>0, <1>1
<1> QED
  BY <1>0, <1>1, <1>2 DEF SoundClass

LEMMA ExtractSound ==
    ASSUME NEW g, NEW worth, NEW n, NEW row, Sound(g, worth, n, row),
           NEW best, NEW id \in 1..n, NEW e \in Extract(g, best, id)
    PROVE  Evaluate(e, row) = Some(worth[id])
<1>0. /\ MaxDepth \in Nat /\ DOMAIN g.parent = 1..n
      /\ \A i \in 1..n : Find(g, i) \in 1..n /\ worth[Find(g, i)] = worth[i]
  BY DepthAssumption, SoundFacts DEF Find
<1>1. PICK f : Finding(f, g, best) /\ \A i : Extract(g, best, i) = f[MaxDepth][Find(g, i)]
  BY FindingFacts
<1> DEFINE Good(k) == \A root \in 1..n : \A x \in f[k][root] : FoundSound(x, k, worth[root], row)
           T == {k \in 0..MaxDepth : Good(k)}
<1>2. ASSUME NEW k \in 0..MaxDepth, k # 0 => k - 1 \in T PROVE k \in T
  <2>1. ASSUME NEW root \in 1..n, NEW x \in f[k][root] PROVE FoundSound(x, k, worth[root], row)
    <3>1. f[k] = FindingStep(g, best, k, f)
      BY <1>1 DEF Finding
    <3>2. x \in UNION {ExprsFrom(g, node, IF k = 0 THEN None ELSE Some(f[k - 1])) :
                       node \in {m \in NodesOf(g, root) : NodeCost(g, best, m) = best[root]}}
      BY <1>0, <2>1, <3>1 DEF FindingStep
    <3>3. PICK node \in NodesOf(g, root) :
              x \in ExprsFrom(g, node, IF k = 0 THEN None ELSE Some(f[k - 1]))
      BY <3>2
    <3>4. node \in Nodes(n) /\ NodeWorth(node, worth, row) = Some(worth[root])
      BY NodesOfSound
    <3>5. PICK before, v : before = f[k - 1] /\ v = worth[root]
      OBVIOUS
    <3>6. k # 0 => \A r \in 1..n : \A y \in before[r] : FoundSound(y, k - 1, worth[r], row)
      BY <1>2, <3>5
    <3>7. NodeWorth(node, worth, row) = Some(v)
      BY <3>4, <3>5
    <3>8. x \in ExprsFrom(g, node, IF k = 0 THEN None ELSE Some(before))
      BY <3>3, <3>5
    <3>9. FoundSound(x, k, v, row)
      BY <3>4, <3>6, <3>7, <3>8, FoundFrom
    <3> QED
      BY <3>5, <3>9
  <2> QED
    BY <2>1
<1>3. 0 \in T
  BY <1>0, <1>2
<1>4. ASSUME NEW k \in 1..MaxDepth, k - 1 \in T PROVE k \in T
  <2>1. k \in 0..MaxDepth
    BY <1>0
  <2> HIDE DEF T
  <2> QED
    BY <1>2, <1>4, <2>1
<1>5. MaxDepth \in T
  <2> HIDE DEF T
  <2>1. \A k \in 0..MaxDepth : k \in T
    BY <1>0, <1>3, <1>4, BoundedSet
  <2> QED
    BY <1>0, <2>1
<1>6. e \in f[MaxDepth][Find(g, id)] /\ Find(g, id) \in 1..n
  BY <1>0, <1>1
<1>7. FoundSound(e, MaxDepth, worth[Find(g, id)], row)
  BY <1>5, <1>6
<1> QED
  BY <1>0, <1>7 DEF FoundSound

LEMMA SomeIsOne ==
    ASSUME NEW a, NEW b, Some(a) = Some(b)
    PROVE  a = b
BY DEF Some

LEMMA BoolsDiffer == Bool(TRUE) # Bool(FALSE) /\ AllRows # NoRows
<1>1. Bool(TRUE)[2] /\ ~Bool(FALSE)[2]
  BY DEF Bool
<1>2. AllRows # NoRows
  BY DEF AllRows, NoRows
<1> QED
  BY <1>1, <1>2

(* A scan is worth nothing, or everything, by its filter.                  *)
LEMMA NothingScanned ==
    ASSUME NEW t, ScanOf(t) = NoRows
    PROVE  t # Some(Bool(TRUE))
<1>1. t # Some(Bool(TRUE))
  BY BoolsDiffer, Zenon DEF ScanOf
<1> QED
  BY <1>1

LEMMA AllScanned ==
    ASSUME NEW t, ScanOf(t) = AllRows
    PROVE  t # Some(Bool(FALSE))
<1>1. t = Some(Bool(TRUE))
  BY BoolsDiffer, Zenon DEF ScanOf
<1>2. PICK yes, no : yes = Bool(TRUE) /\ no = Bool(FALSE)
  OBVIOUS
<1>3. yes # no
  BY <1>2, BoolsDiffer
<1>4. Some(yes) # Some(no)
  BY <1>3, SomeIsOne
<1> QED
  BY <1>1, <1>2, <1>4

(* The optimizer of M30 changes no answer: on every exact row the input    *)
(* has a value on, extract_best_expr returns an expression with that       *)
(* value, and a scan is found equal to the empty relation, or to one       *)
(* without a filter, only when the filter says so, whatever the            *)
(* expressions, the rows and the number of iterations.                     *)
THEOREM EgraphOptimizedAgrees == EgraphSpec => []OptimizedAgrees
<1>1. EgraphInv => OptimizedAgrees
  <2>1. SUFFICES ASSUME EgraphInv, NEW classes \in goal, NEW row \in Rows,
                        Exact(row), Truth(row) # None
                 PROVE  /\ \A e \in Extract(egraph, BestCost(egraph), classes.expr) :
                              Evaluate(e, row) = Truth(row)
                        /\ << "empty" >> \in NodesOf(egraph, Find(egraph, classes.scan))
                              => Truth(row) # Some(Bool(TRUE))
                        /\ << "scan", None >> \in NodesOf(egraph, Find(egraph, classes.scan))
                              => Truth(row) # Some(Bool(FALSE))
    BY DEF OptimizedAgrees
  <2>2. RowSound(classes, row)
    BY <2>1 DEF EgraphInv
  <2>3. PICK w, m : Sound(egraph, w, m, row) /\ GoalSound(classes, Truth(row), w, m)
    BY <2>2 DEF RowSound
  <2>4. /\ classes.expr \in 1..m /\ Truth(row) = Some(w[classes.expr])
        /\ classes.scan \in 1..m /\ w[classes.scan] = ScanOf(Truth(row))
    BY <2>3 DEF GoalSound
  <2>5. ASSUME NEW e \in Extract(egraph, BestCost(egraph), classes.expr)
        PROVE  Evaluate(e, row) = Truth(row)
    BY <2>3, <2>4, ExtractSound
  <2>6. PICK root : root = Find(egraph, classes.scan) /\ w[root] = ScanOf(Truth(row))
    BY <2>3, <2>4, SoundFacts DEF Find
  <2>7. ASSUME << "empty" >> \in NodesOf(egraph, root) PROVE Truth(row) # Some(Bool(TRUE))
    <3>1. PICK node : node = << "empty" >> /\ node \in NodesOf(egraph, root)
      BY <2>7
    <3>2. NodeWorth(node, w, row) = Some(w[root])
      BY <2>3, <3>1, NodesOfSound
    <3>3. NodeWorth(node, w, row) = Some(NoRows)
      BY <3>1 DEF NodeWorth, IsBinary, Binaries, Comparisons
    <3>4. ScanOf(Truth(row)) = NoRows
      BY <2>6, <3>2, <3>3, SomeIsOne
    <3> QED
      BY <3>4, NothingScanned
  <2>8. ASSUME << "scan", None >> \in NodesOf(egraph, root) PROVE Truth(row) # Some(Bool(FALSE))
    <3>1. PICK node : node = << "scan", None >> /\ node \in NodesOf(egraph, root)
      BY <2>8
    <3>2. NodeWorth(node, w, row) = Some(w[root])
      BY <2>3, <3>1, NodesOfSound
    <3>3. NodeWorth(node, w, row) = Some(ScanWorth(None, w))
      BY <3>1 DEF NodeWorth, IsBinary, Binaries, Comparisons
    <3>4. ScanWorth(None, w) = AllRows
      BY DEF ScanWorth, None
    <3>5. Some(w[root]) = Some(AllRows)
      BY <3>2, <3>3, <3>4
    <3>6. ScanOf(Truth(row)) = AllRows
      BY <2>6, <3>5, SomeIsOne
    <3> QED
      BY <3>6, AllScanned
  <2> QED
    BY <2>5, <2>6, <2>7, <2>8
<1> QED
  BY <1>1, EgraphInvariant, PTL

=============================================================================
