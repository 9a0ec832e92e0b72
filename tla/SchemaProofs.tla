---------------------------- MODULE SchemaProofs ----------------------------
(***************************************************************************)
(* The binary form of schemas and mutations is canonical, for any catalogs *)
(* and mutations, any limits and any noise: a reader accepts the encodings *)
(* of values and nothing else, and gets back what was encoded.             *)
(***************************************************************************)
EXTENDS Schema, FiniteSetTheorems, SequenceTheorems, WellFoundedInduction, TLAPS

-----------------------------------------------------------------------------
(* Numbers, sequences and sorted sets.                                     *)

(* No entry twice.                                                         *)
Once(s) == \A i, j \in 1..Len(s) : s[i] = s[j] => i = j

LEMMA LeastNatural ==
    ASSUME NEW S \in SUBSET Nat, S # {}
    PROVE  \E x \in S : \A y \in S : x <= y
<1>1. PICK x \in S : \A y \in S : ~(<<y, x>> \in OpToRel(<, Nat))
  BY NatLessThanWellFounded, WFMin, Zenon
<1>2. \A y \in S : ~(y < x)
  BY <1>1 DEF OpToRel
<1> QED
  BY <1>2

LEMMA NaturalSet ==
    ASSUME NEW T, 0 \in T, \A n \in Nat : n \in T => n + 1 \in T
    PROVE  \A n \in Nat : n \in T
<1>1. SUFFICES ASSUME Nat \ T # {} PROVE FALSE
  OBVIOUS
<1>2. PICK x \in Nat \ T : \A y \in Nat \ T : x <= y
  BY <1>1, LeastNatural
<1>3. x # 0 /\ x - 1 \in Nat /\ x - 1 \in T
  BY <1>2
<1> QED
  BY <1>2, <1>3

LEMMA SeqFromFunction ==
    ASSUME NEW S, NEW n \in Nat, NEW f \in [1..n -> S]
    PROVE  f \in Seq(S) /\ Len(f) = n
OBVIOUS

LEMMA JoinedFacts ==
    ASSUME NEW S, NEW s \in Seq(S), NEW t \in Seq(S), NEW u, u = s \o t
    PROVE  /\ u \in Seq(S) /\ Len(u) = Len(s) + Len(t) /\ Len(s) \in Nat /\ Len(t) \in Nat
           /\ \A i \in 1..Len(s) : u[i] = s[i]
           /\ \A i \in 1..Len(t) : u[Len(s) + i] = t[i]
<1>1. Len(s) \in Nat /\ Len(t) \in Nat
  OBVIOUS
<1>2. /\ u \in Seq(S) /\ Len(u) = Len(s) + Len(t)
      /\ \A i \in 1..Len(s) + Len(t) : u[i] = IF i <= Len(s) THEN s[i] ELSE t[i - Len(s)]
  BY ConcatProperties
<1>3. ASSUME NEW i \in 1..Len(t) PROVE u[Len(s) + i] = t[i]
  <2>1. Len(s) + i \in 1..Len(s) + Len(t) /\ ~(Len(s) + i <= Len(s)) /\ (Len(s) + i) - Len(s) = i
    BY <1>1
  <2> QED
    BY <1>2, <2>1
<1>4. ASSUME NEW i \in 1..Len(s) PROVE u[i] = s[i]
  <2>1. i \in 1..Len(s) + Len(t) /\ i <= Len(s)
    BY <1>1
  <2> QED
    BY <1>2, <2>1
<1> QED
  BY <1>1, <1>2, <1>3, <1>4

(* Every member of a finite set of numbers is listed at its rank.          *)
LEMMA RankedLists ==
    ASSUME NEW S \in SUBSET Int, IsFiniteSet(S), NEW x \in S
    PROVE  /\ Cardinality(S) \in Nat
           /\ \E i \in 1..Cardinality(S) : Ranked(S)[i] = x /\ Cardinality({y \in S : y <= x}) = i
<1> DEFINE Upto(z) == {y \in S : y <= z}
<1>0. \A z \in S : z \in Int
  OBVIOUS
<1>2. IsFiniteSet(S) /\ Cardinality(S) \in Nat
  BY FS_CardinalityType
<1>3. ASSUME NEW z \in S
      PROVE  /\ IsFiniteSet(Upto(z)) /\ Cardinality(Upto(z)) \in 1..Cardinality(S)
  <2>1. Upto(z) \subseteq S /\ z \in Upto(z)
    OBVIOUS
  <2>2. IsFiniteSet(Upto(z)) /\ Cardinality(Upto(z)) <= Cardinality(S)
    BY <1>2, <2>1, FS_Subset
  <2>3. Cardinality(Upto(z)) \in Nat /\ Cardinality(Upto(z)) # 0
    BY <2>1, <2>2, FS_CardinalityType, FS_EmptySet
  <2> QED
    BY <1>2, <2>2, <2>3
<1>4. ASSUME NEW y \in S, NEW z \in S, y < z
      PROVE  Cardinality(Upto(y)) # Cardinality(Upto(z))
  <2>1. Upto(y) \subseteq Upto(z) /\ z \in Upto(z) /\ z \notin Upto(y)
    <3>1. y \in Int /\ z \in Int /\ ~(z <= y)
      BY <1>0, <1>4
    <3>2. ASSUME NEW w \in Upto(y) PROVE w \in Upto(z)
      <4>1. w \in S /\ w <= y /\ w \in Int
        BY <1>0
      <4> QED
        BY <1>4, <3>1, <4>1
    <3>3. z \in Upto(z) /\ z \notin Upto(y)
      BY <3>1
    <3> QED
      BY <3>2, <3>3
  <2> HIDE DEF Upto
  <2> QED
    BY <1>3, <2>1, FS_Subset
<1>5. PICK i : i = Cardinality(Upto(x))
  OBVIOUS
<1>6. i \in 1..Cardinality(S) /\ \E z \in S : Cardinality(Upto(z)) = i
  BY <1>3, <1>5
<1>7. Ranked(S)[i] = CHOOSE z \in S : Cardinality(Upto(z)) = i
  BY <1>6 DEF Ranked
<1>8. Ranked(S)[i] \in S /\ Cardinality(Upto(Ranked(S)[i])) = i
  BY <1>6, <1>7
<1>9. ~(Ranked(S)[i] < x) /\ ~(x < Ranked(S)[i])
  <2> HIDE DEF Upto
  <2> QED
    BY <1>4, <1>5, <1>8
<1>10. Ranked(S)[i] = x
  <2>1. Ranked(S)[i] \in Int /\ x \in Int
    BY <1>0, <1>8
  <2> QED
    BY <1>9, <2>1
<1> QED
  BY <1>2, <1>5, <1>6, <1>10

LEMMA RangeFacts ==
    ASSUME NEW S, NEW s \in Seq(S)
    PROVE  /\ Len(s) \in Nat /\ DOMAIN s = 1..Len(s)
           /\ Range(s) \subseteq S
           /\ \A i \in 1..Len(s) : s[i] \in Range(s)
           /\ \A x \in Range(s) : \E i \in 1..Len(s) : s[i] = x
<1>1. Len(s) \in Nat /\ DOMAIN s = 1..Len(s)
  OBVIOUS
<1>2. Range(s) = {s[i] : i \in 1..Len(s)}
  BY <1>1 DEF Range
<1> QED
  BY <1>1, <1>2

LEMMA OnceAppend ==
    ASSUME NEW S, NEW s \in Seq(S), NEW e \in S, Once(s), e \notin Range(s)
    PROVE  Once(Append(s, e)) /\ Range(Append(s, e)) = Range(s) \union {e}
<1>0. PICK t : t = Append(s, e)
  OBVIOUS
<1>1. /\ t \in Seq(S) /\ Len(s) \in Nat /\ Len(t) = Len(s) + 1 /\ t[Len(s) + 1] = e
      /\ \A i \in 1..Len(s) : t[i] = s[i]
  BY <1>0, AppendProperties
<1>2. Once(t)
  <2>1. SUFFICES ASSUME NEW i \in 1..Len(t), NEW j \in 1..Len(t), t[i] = t[j]
                 PROVE  i = j
    BY DEF Once
  <2>2. /\ i \in 1..Len(s) \/ i = Len(s) + 1
        /\ j \in 1..Len(s) \/ j = Len(s) + 1
    BY <1>1
  <2>3. CASE i \in 1..Len(s) /\ j \in 1..Len(s)
    BY <1>1, <2>1, <2>3 DEF Once
  <2>4. CASE i \in 1..Len(s) /\ j = Len(s) + 1
    BY <1>1, <2>1, <2>4, RangeFacts
  <2>5. CASE j \in 1..Len(s) /\ i = Len(s) + 1
    BY <1>1, <2>1, <2>5, RangeFacts
  <2> QED
    BY <2>2, <2>3, <2>4, <2>5
<1>3. Range(t) = Range(s) \union {e}
  <2>1. Range(t) = {t[i] : i \in 1..Len(t)} /\ Range(s) = {s[i] : i \in 1..Len(s)}
    BY <1>1 DEF Range
  <2>2. 1..Len(t) = (1..Len(s)) \union {Len(s) + 1}
    BY <1>1
  <2> QED
    BY <1>1, <2>1, <2>2
<1> QED
  BY <1>0, <1>2, <1>3

LEMMA OnceCount ==
    ASSUME NEW S, IsFiniteSet(S), NEW s \in Seq(S), Once(s)
    PROVE  /\ Cardinality(S) \in Nat /\ Len(s) <= Cardinality(S)
           /\ Len(s) = Cardinality(S) <=> Range(s) = S
<1>1. Len(s) \in Nat /\ s \in [1..Len(s) -> S] /\ DOMAIN s = 1..Len(s)
  BY LenProperties
<1>2. s \in Injection(1..Len(s), S)
  BY <1>1 DEF Injection, IsInjective, Once
<1>3. Cardinality(1..Len(s)) = Len(s)
  BY <1>1, FS_Interval
<1>4. s \in Surjection(1..Len(s), S) <=> Range(s) = S
  <2>1. Range(s) = {s[i] : i \in 1..Len(s)}
    BY <1>1 DEF Range
  <2> QED
    BY <1>1, <2>1 DEF Surjection
<1>5. Cardinality(S) \in Nat
  BY FS_CardinalityType
<1> QED
  BY <1>2, <1>3, <1>4, <1>5, FS_Injection

(* The members of a finite set of numbers are listed, each once, the least *)
(* first.                                                                  *)
LEMMA RankedOnce ==
    ASSUME NEW S \in SUBSET Int, IsFiniteSet(S), NEW s, s = Ranked(S)
    PROVE  /\ s \in Seq(S) /\ Len(s) = Cardinality(S) /\ Once(s) /\ Range(s) = S
           /\ \A i, j \in 1..Len(s) : i < j => s[i] < s[j]
<1> DEFINE Upto(z) == {y \in S : y <= z}
<1>1. Cardinality(S) \in Nat
  BY FS_CardinalityType
<1>2. PICK m \in Nat : m = Cardinality(S)
  BY <1>1
<1>3. s = [i \in 1..m |-> CHOOSE x \in S : Cardinality(Upto(x)) = i]
  BY <1>2 DEF Ranked
<1>4. DOMAIN s = 1..m
  BY <1>3
<1>5. S \subseteq Range(s)
  <2>1. ASSUME NEW x \in S PROVE x \in Range(s)
    <3>1. PICK i \in 1..m : s[i] = x
      BY <1>2, RankedLists
    <3> QED
      BY <1>4, <3>1 DEF Range
  <2> QED
    BY <2>1
<1>6. IsFiniteSet(1..m) /\ Cardinality(1..m) = m
  BY FS_Interval
<1>7. s \in Surjection(1..m, Range(s))
  BY <1>3, <1>4 DEF Surjection, Range
<1>8. IsFiniteSet(Range(s)) /\ Cardinality(Range(s)) <= m
  BY <1>6, <1>7, FS_Surjection
<1>9. Cardinality(S) <= Cardinality(Range(s)) /\ Cardinality(Range(s)) \in Nat
  BY <1>5, <1>8, FS_Subset, FS_CardinalityType
<1>10. Cardinality(Range(s)) = m
  BY <1>2, <1>8, <1>9
<1>11. Range(s) = S
  BY <1>2, <1>5, <1>8, <1>10, FS_Subset
<1>12. s \in Injection(1..m, S)
  BY <1>6, <1>7, <1>10, <1>11, FS_Surjection
<1>13. s \in [1..m -> S] /\ \A i, j \in 1..m : s[i] = s[j] => i = j
  BY <1>12 DEF Injection, IsInjective
<1>14. s \in Seq(S) /\ Len(s) = m
  BY <1>13
<1>15. ASSUME NEW i \in 1..m PROVE s[i] \in Int /\ s[i] \in S
  BY <1>13
<1>16. ASSUME NEW i \in 1..m PROVE Cardinality(Upto(s[i])) = i
  <2>1. s[i] \in S
    BY <1>13
  <2>2. PICK k \in 1..m : s[k] = s[i] /\ Cardinality(Upto(s[i])) = k
    BY <1>2, <2>1, RankedLists
  <2> QED
    BY <1>13, <2>1, <2>2
<1>17. ASSUME NEW i \in 1..m, NEW j \in 1..m, i < j PROVE s[i] < s[j]
  <2>0. PICK a, b : a = s[i] /\ b = s[j]
    OBVIOUS
  <2>1. SUFFICES ASSUME b <= a PROVE FALSE
    BY <1>15, <2>0
  <2>2. a \in Int /\ b \in Int /\ Cardinality(Upto(a)) = i /\ Cardinality(Upto(b)) = j
    BY <1>15, <1>16, <2>0
  <2>3. Upto(b) \subseteq Upto(a)
    <3>1. a \in Int /\ b \in Int
      BY <2>2
    <3>2. ASSUME NEW y \in S, y <= b PROVE y <= a
      <4>1. y \in Int
        OBVIOUS
      <4> QED
        BY <2>1, <3>1, <3>2, <4>1
    <3> QED
      BY <3>2
  <2>4. IsFiniteSet(Upto(a))
    BY FS_Subset
  <2> HIDE DEF Upto
  <2>5. Cardinality(Upto(b)) <= Cardinality(Upto(a))
    BY <2>3, <2>4, FS_Subset
  <2> QED
    BY <1>17, <2>2, <2>5
<1> QED
  BY <1>2, <1>11, <1>13, <1>14, <1>17 DEF Once

-----------------------------------------------------------------------------
(* Schemas: the order of the items.                                        *)

Rising(s) == \A i, j \in 1..Len(s) : i < j => s[i].id < s[j].id

Apart(s) == \A i, j \in 1..Len(s) : i # j => s[i].id # s[j].id

ImageOf(f, n) == {f[i] : i \in 1..n}

(* What is listed without repetition is as many as the list is long.       *)
LEMMA ImageCount ==
    ASSUME NEW n \in Nat, NEW f, \A i, j \in 1..n : i # j => f[i] # f[j],
           NEW I, I = ImageOf(f, n)
    PROVE  IsFiniteSet(I) /\ Cardinality(I) = n
<1>2. PICK g : g = [i \in 1..n |-> f[i]]
  OBVIOUS
<1>3. g \in Surjection(1..n, I) /\ g \in Injection(1..n, I)
  BY <1>2 DEF Surjection, Injection, IsInjective, ImageOf
<1>4. IsFiniteSet(1..n) /\ Cardinality(1..n) = n
  BY FS_Interval
<1>5. IsFiniteSet(I) /\ Cardinality(I) <= n
  BY <1>3, <1>4, FS_Surjection
<1>6. n <= Cardinality(I)
  BY <1>3, <1>4, <1>5, FS_Injection
<1>7. Cardinality(I) \in Nat
  BY <1>5, FS_CardinalityType
<1> QED
  BY <1>5, <1>6, <1>7

LEMMA RisingApart ==
    ASSUME NEW S, NEW s \in Seq(S), \A x \in S : x.id \in Nat, Rising(s)
    PROVE  Apart(s)
<1>1. SUFFICES ASSUME NEW i \in 1..Len(s), NEW j \in 1..Len(s), i # j
               PROVE  s[i].id # s[j].id
  BY DEF Apart
<1>2. s[i].id \in Nat /\ s[j].id \in Nat
  BY ElementOfSeq
<1>3. i < j \/ j < i
  BY <1>1
<1>4. s[i].id < s[j].id \/ s[j].id < s[i].id
  BY <1>3 DEF Rising
<1> QED
  BY <1>2, <1>4

(* The ids of a list and its items correspond.                             *)
LEMMA IdFacts ==
    ASSUME NEW S, NEW s \in Seq(S), \A x \in S : x.id \in Nat, Apart(s),
           NEW I, I = {x.id : x \in Range(s)}
    PROVE  /\ I = {s[i].id : i \in 1..Len(s)}
           /\ I \in SUBSET Int /\ IsFiniteSet(I) /\ Cardinality(I) = Len(s)
           /\ \A x, y \in Range(s) : x.id = y.id => x = y
<1>1. Len(s) \in Nat /\ Range(s) = {s[i] : i \in 1..Len(s)}
  BY RangeEquality, LenProperties
<1>2. I = {s[i].id : i \in 1..Len(s)}
  BY <1>1
<1>3. ASSUME NEW i \in 1..Len(s) PROVE s[i].id \in Int
  <2>1. s[i] \in S
    BY ElementOfSeq
  <2> QED
    BY <2>1
<1>4. PICK f : f = [i \in 1..Len(s) |-> s[i].id]
  OBVIOUS
<1>5. \A i \in 1..Len(s) : f[i] = s[i].id
  BY <1>4
<1>6. I = ImageOf(f, Len(s))
  BY <1>2, <1>5 DEF ImageOf
<1>7. IsFiniteSet(I) /\ Cardinality(I) = Len(s)
  <2>1. \A i, j \in 1..Len(s) : i # j => f[i] # f[j]
    BY <1>5 DEF Apart
  <2> QED
    BY <1>1, <1>6, <2>1, ImageCount
<1>8. ASSUME NEW x \in Range(s), NEW y \in Range(s), x.id = y.id PROVE x = y
  <2>1. PICK i \in 1..Len(s), j \in 1..Len(s) : x = s[i] /\ y = s[j]
    BY <1>1
  <2>2. i = j
    BY <1>8, <2>1 DEF Apart
  <2> QED
    BY <2>1, <2>2
<1> QED
  BY <1>2, <1>3, <1>7, <1>8

LEMMA AscendingFacts ==
    ASSUME NEW S, NEW s \in Seq(S), \A x \in S : x.id \in Nat, Apart(s),
           NEW t, t = Ascending(s)
    PROVE  t \in Seq(S) /\ Len(t) = Len(s) /\ Range(t) = Range(s) /\ Rising(t)
<1>1. PICK I : I = {x.id : x \in Range(s)}
  OBVIOUS
<1>2. PICK r : r = Ranked(I)
  OBVIOUS
<1>3. /\ I \in SUBSET Int /\ IsFiniteSet(I) /\ Cardinality(I) = Len(s)
      /\ \A x, y \in Range(s) : x.id = y.id => x = y
  BY <1>1, IdFacts
<1>4. /\ r \in Seq(I) /\ Len(r) = Len(s) /\ Range(r) = I
      /\ \A i, j \in 1..Len(r) : i < j => r[i] < r[j]
  BY <1>2, <1>3, RankedOnce
<1>5. Len(s) \in Nat /\ DOMAIN r = 1..Len(s)
  BY <1>4, LenProperties
<1>6. t = [i \in 1..Len(s) |-> CHOOSE x \in Range(s) : x.id = r[i]]
  BY <1>1, <1>2, <1>5 DEF Ascending
<1>7. ASSUME NEW i \in 1..Len(s) PROVE t[i] \in Range(s) /\ t[i].id = r[i]
  <2>1. r[i] \in I
    BY <1>4, ElementOfSeq
  <2>2. \E x \in Range(s) : x.id = r[i]
    BY <1>1, <2>1
  <2>3. t[i] = CHOOSE x \in Range(s) : x.id = r[i]
    BY <1>6
  <2> QED
    BY <2>2, <2>3
<1>8. Range(s) \in SUBSET S
  BY RangeOfSeq
<1>9. t \in [1..Len(s) -> S]
  BY <1>6, <1>7, <1>8
<1>10. t \in Seq(S) /\ Len(t) = Len(s)
  BY <1>5, <1>9, SeqFromFunction
<1>11. Range(t) = {t[i] : i \in 1..Len(s)}
  BY <1>10, RangeEquality
<1>12. ASSUME NEW x \in Range(s) PROVE x \in Range(t)
  <2>1. x.id \in Range(r)
    BY <1>1, <1>4
  <2>2. PICK i \in 1..Len(s) : r[i] = x.id
    <3>1. Range(r) = {r[i] : i \in 1..Len(r)}
      BY <1>4, RangeEquality
    <3>2. PICK z : z = x.id
      OBVIOUS
    <3>3. \E i \in 1..Len(s) : r[i] = z
      BY <1>4, <2>1, <3>1, <3>2
    <3> QED
      BY <3>2, <3>3
  <2>3. t[i] = x
    BY <1>3, <1>7, <2>2
  <2> QED
    BY <1>11, <2>3
<1>13. Range(t) = Range(s)
  BY <1>7, <1>11, <1>12
<1>14. Rising(t)
  BY <1>4, <1>7, <1>10 DEF Rising
<1> QED
  BY <1>10, <1>13, <1>14

LEMMA AscendingSame ==
    ASSUME NEW S, NEW s \in Seq(S), \A x \in S : x.id \in Nat, Rising(s)
    PROVE  Ascending(s) = s
<1>1. PICK I : I = {x.id : x \in Range(s)}
  OBVIOUS
<1>2. PICK r : r = Ranked(I)
  OBVIOUS
<1>3. Apart(s)
  BY RisingApart
<1>4. /\ I = {s[i].id : i \in 1..Len(s)}
      /\ I \in SUBSET Int /\ IsFiniteSet(I) /\ Cardinality(I) = Len(s)
      /\ \A x, y \in Range(s) : x.id = y.id => x = y
  BY <1>1, <1>3, IdFacts
<1>5. Len(s) \in Nat /\ DOMAIN s = 1..Len(s) /\ s \in [1..Len(s) -> S]
  BY LenProperties
<1>6. \A i \in 1..Len(s) : s[i].id \in Nat
  BY ElementOfSeq
<1>7. ASSUME NEW i \in 1..Len(s) PROVE r[i] = s[i].id
  <2>1. PICK x : x = s[i].id
    OBVIOUS
  <2>2. x \in I /\ x \in Nat
    BY <1>4, <1>6, <2>1
  <2>3. i \in Nat /\ \A j, k \in 1..i : j # k => s[j].id # s[k].id
    BY <1>3, <1>5 DEF Apart
  <2>4. PICK f : f = [j \in 1..i |-> s[j].id]
    OBVIOUS
  <2>5. \A j \in 1..i : f[j] = s[j].id
    BY <2>4
  <2>6. Cardinality(ImageOf(f, i)) = i
    <3>1. \A j, k \in 1..i : j # k => f[j] # f[k]
      BY <2>3, <2>5
    <3> QED
      BY <2>3, <3>1, ImageCount
  <2>7. ASSUME NEW y \in I PROVE y <= x <=> y \in {f[j] : j \in 1..i}
    <3>1. PICK k \in 1..Len(s) : y = s[k].id
      BY <1>4
    <3>2. y \in Nat
      BY <1>6, <3>1
    <3>3. CASE k <= i
      <4>1. k \in 1..i
        BY <3>3
      <4>2. y <= x
        <5>1. k = i \/ k < i
          BY <3>3
        <5> QED
          BY <2>1, <2>2, <3>1, <3>2, <5>1 DEF Rising
      <4> QED
        BY <2>5, <3>1, <4>1, <4>2
    <3>4. CASE i < k
      <4>1. ~(y <= x)
        BY <2>1, <2>2, <3>1, <3>2, <3>4 DEF Rising
      <4>2. ASSUME NEW j \in 1..i PROVE f[j] # y
        BY <1>3, <1>5, <2>5, <3>1, <3>4 DEF Apart
      <4> QED
        BY <4>1, <4>2
    <3> QED
      BY <1>5, <3>3, <3>4
  <2>8. {f[j] : j \in 1..i} \subseteq I
    <3>1. ASSUME NEW j \in 1..i PROVE f[j] \in I
      <4>1. j \in 1..Len(s) /\ f[j] = s[j].id
        BY <1>5, <2>5
      <4> QED
        BY <1>4, <4>1
    <3> QED
      BY <3>1
  <2>9. {y \in I : y <= x} = {f[j] : j \in 1..i}
    BY <2>7, <2>8
  <2>10. PICK k \in 1..Cardinality(I) : Ranked(I)[k] = x /\ Cardinality({y \in I : y <= x}) = k
    BY <1>4, <2>2, RankedLists
  <2>11. k = i
    BY <2>6, <2>9, <2>10 DEF ImageOf
  <2> QED
    BY <1>2, <2>1, <2>10, <2>11
<1>8. /\ r \in Seq(I) /\ Len(r) = Len(s)
  BY <1>2, <1>4, RankedOnce
<1>9. DOMAIN r = 1..Len(s)
  BY <1>8, LenProperties
<1>10. Ascending(s) = [i \in 1..Len(s) |-> CHOOSE x \in Range(s) : x.id = r[i]]
  BY <1>1, <1>2, <1>9 DEF Ascending
<1>11. ASSUME NEW i \in 1..Len(s) PROVE (CHOOSE x \in Range(s) : x.id = r[i]) = s[i]
  <2>1. s[i] \in Range(s)
    BY RangeEquality
  <2> QED
    BY <1>4, <1>7, <2>1
<1>12. Ascending(s) = [i \in 1..Len(s) |-> s[i]]
  BY <1>10, <1>11
<1> QED
  BY <1>5, <1>12

-----------------------------------------------------------------------------
(* Cells: a payload holds a piece at a position.                           *)

Holds(cells, at, piece) ==
    /\ at + Len(piece) <= Len(cells) + 1
    /\ \A i \in 1..Len(piece) : cells[at + i - 1] = piece[i]

Position(at) == at \in Nat /\ at # 0

LEMMA HoldsJoined ==
    ASSUME NEW cells \in Seq(Nat), NEW at, Position(at), NEW a \in Seq(Nat), NEW b \in Seq(Nat)
    PROVE  Holds(cells, at, a \o b) <=> Holds(cells, at, a) /\ Holds(cells, at + Len(a), b)
<1>1. PICK c : c = a \o b
  OBVIOUS
<1>2. /\ c \in Seq(Nat) /\ Len(c) = Len(a) + Len(b) /\ Len(a) \in Nat /\ Len(b) \in Nat
      /\ \A i \in 1..Len(a) : c[i] = a[i]
      /\ \A i \in 1..Len(b) : c[Len(a) + i] = b[i]
  BY <1>1, JoinedFacts
<1>3. at \in Nat /\ Len(cells) \in Nat
  BY LenProperties DEF Position
<1>4. ASSUME Holds(cells, at, c) PROVE Holds(cells, at, a) /\ Holds(cells, at + Len(a), b)
  <2>1. at + Len(a) + Len(b) <= Len(cells) + 1
    BY <1>2, <1>3, <1>4 DEF Holds
  <2>2. ASSUME NEW i \in 1..Len(a) PROVE cells[at + i - 1] = a[i]
    <3>1. i \in 1..Len(c)
      BY <1>2
    <3> QED
      BY <1>2, <1>4, <3>1 DEF Holds
  <2>3. ASSUME NEW i \in 1..Len(b) PROVE cells[at + Len(a) + i - 1] = b[i]
    <3>1. Len(a) + i \in 1..Len(c) /\ at + (Len(a) + i) - 1 = at + Len(a) + i - 1
      BY <1>2, <1>3
    <3> QED
      BY <1>2, <1>4, <3>1 DEF Holds
  <2> QED
    BY <1>2, <1>3, <2>1, <2>2, <2>3 DEF Holds
<1>5. ASSUME Holds(cells, at, a), Holds(cells, at + Len(a), b) PROVE Holds(cells, at, c)
  <2>1. at + Len(c) <= Len(cells) + 1
    BY <1>2, <1>3, <1>5 DEF Holds
  <2>2. ASSUME NEW i \in 1..Len(c) PROVE cells[at + i - 1] = c[i]
    <3>1. CASE i <= Len(a)
      <4>1. i \in 1..Len(a)
        BY <1>2, <3>1
      <4> QED
        BY <1>2, <1>5, <4>1 DEF Holds
    <3>2. CASE Len(a) < i
      <4>1. PICK j : j = i - Len(a)
        OBVIOUS
      <4>2. j \in 1..Len(b) /\ i = Len(a) + j /\ at + Len(a) + j - 1 = at + i - 1
        BY <1>2, <1>3, <3>2, <4>1
      <4> QED
        BY <1>2, <1>5, <4>2 DEF Holds
    <3> QED
      BY <1>2, <3>1, <3>2
  <2> QED
    BY <2>1, <2>2 DEF Holds
<1> QED
  BY <1>1, <1>4, <1>5

LEMMA HoldsOne ==
    ASSUME NEW cells \in Seq(Nat), NEW at, Position(at), NEW x
    PROVE  Holds(cells, at, <<x>>) <=> at <= Len(cells) /\ cells[at] = x
<1>1. PICK s : s = <<x>>
  OBVIOUS
<1>2. Len(s) = 1 /\ s[1] = x /\ at \in Nat /\ Len(cells) \in Nat
  BY <1>1, LenProperties DEF Position
<1>3. at + 1 - 1 = at /\ 1..1 = {1}
  BY <1>2
<1>4. Holds(cells, at, s) <=> at + 1 <= Len(cells) + 1 /\ cells[at + 1 - 1] = x
  BY <1>2, <1>3 DEF Holds
<1> QED
  BY <1>1, <1>2, <1>3, <1>4

LEMMA HoldsNone ==
    ASSUME NEW cells \in Seq(Nat), NEW at, Position(at)
    PROVE  Holds(cells, at, <<>>) <=> at <= Len(cells) + 1
<1>1. Len(<<>>) = 0 /\ at \in Nat
  BY DEF Position
<1> QED
  BY <1>1 DEF Holds

(* All of a payload.                                                       *)
LEMMA HoldsAll ==
    ASSUME NEW cells \in Seq(Nat), NEW piece \in Seq(Nat)
    PROVE  cells = piece <=> Holds(cells, 1, piece) /\ Len(piece) = Len(cells)
<1>1. Len(cells) \in Nat /\ Len(piece) \in Nat
  BY LenProperties
<1>2. \A i \in 1..Len(piece) : 1 + i - 1 = i
  BY <1>1
<1>3. ASSUME Holds(cells, 1, piece), Len(piece) = Len(cells) PROVE cells = piece
  <2>1. \A i \in 1..Len(cells) : cells[i] = piece[i]
    BY <1>2, <1>3 DEF Holds
  <2> QED
    BY <1>3, <2>1, SeqEqual
<1>4. ASSUME cells = piece PROVE Holds(cells, 1, piece) /\ Len(piece) = Len(cells)
  <2>1. \A i \in 1..Len(piece) : cells[1 + i - 1] = piece[i]
    BY <1>2, <1>4
  <2> QED
    BY <1>1, <1>4, <2>1 DEF Holds
<1> QED
  BY <1>3, <1>4

(* Two cells, three and four, one after the other.                         *)
LEMMA HoldsFirst ==
    ASSUME NEW cells \in Seq(Nat), NEW at, Position(at), NEW x \in Nat, NEW rest \in Seq(Nat)
    PROVE  /\ <<x>> \o rest \in Seq(Nat) /\ Len(<<x>> \o rest) = 1 + Len(rest)
           /\ Holds(cells, at, <<x>> \o rest)
                <=> at <= Len(cells) /\ cells[at] = x /\ Holds(cells, at + 1, rest)
<1>1. PICK s : s = <<x>>
  OBVIOUS
<1>2. s \in Seq(Nat) /\ Len(s) = 1
  BY <1>1
<1>3. s \o rest \in Seq(Nat) /\ Len(s \o rest) = 1 + Len(rest)
  BY <1>2, ConcatProperties
<1>4. Holds(cells, at, s \o rest) <=> Holds(cells, at, s) /\ Holds(cells, at + 1, rest)
  BY <1>2, HoldsJoined
<1>5. Holds(cells, at, s) <=> at <= Len(cells) /\ cells[at] = x
  BY <1>1, HoldsOne
<1> QED
  BY <1>1, <1>3, <1>4, <1>5

-----------------------------------------------------------------------------
(* Pieces: what is written of each type, and what reads it back.           *)

LEMMA KindFacts ==
    /\ Range(Kinds6) = {"bool", "i64", "u64", "f64", "utf8", "bytes"}
    /\ Kinds6[1] = "bool" /\ Kinds6[2] = "i64" /\ Kinds6[3] = "u64"
    /\ Kinds6[4] = "f64" /\ Kinds6[5] = "utf8" /\ Kinds6[6] = "bytes"
    /\ TagOf("bool") = 0 /\ TagOf("i64") = 1 /\ TagOf("u64") = 2
    /\ TagOf("f64") = 3 /\ TagOf("utf8") = 4 /\ TagOf("bytes") = 5
<1>1. PICK k : k = Kinds6
  OBVIOUS
<1>2. /\ k[1] = "bool" /\ k[2] = "i64" /\ k[3] = "u64"
      /\ k[4] = "f64" /\ k[5] = "utf8" /\ k[6] = "bytes"
      /\ DOMAIN k = 1..6
  BY <1>1 DEF Kinds6
<1>3. 1..6 = {1, 2, 3, 4, 5, 6}
  OBVIOUS
<1>4. Range(k) = {"bool", "i64", "u64", "f64", "utf8", "bytes"}
  BY <1>2, <1>3 DEF Range
<1>5. ASSUME NEW i \in 1..6 PROVE TagOf(k[i]) = i - 1
  <2>1. \A j \in 1..6 : k[j] = k[i] => j = i
    BY <1>2, <1>3
  <2>2. (CHOOSE j \in DOMAIN Kinds6 : Kinds6[j] = k[i]) = i
    BY <1>1, <1>2, <2>1
  <2> QED
    BY <2>2 DEF TagOf
<1>6. /\ TagOf(k[1]) = 0 /\ TagOf(k[2]) = 1 /\ TagOf(k[3]) = 2
      /\ TagOf(k[4]) = 3 /\ TagOf(k[5]) = 4 /\ TagOf(k[6]) = 5
  <2>1. /\ TagOf(k[1]) = 1 - 1 /\ TagOf(k[2]) = 2 - 1 /\ TagOf(k[3]) = 3 - 1
        /\ TagOf(k[4]) = 4 - 1 /\ TagOf(k[5]) = 5 - 1 /\ TagOf(k[6]) = 6 - 1
    BY <1>5
  <2> QED
    BY <2>1
<1> QED
  BY <1>1, <1>2, <1>4, <1>6

LEMMA TextSize ==
    ASSUME NEW t \in Seq(Nat)
    PROVE  Text(t) \in Seq(Nat) /\ Len(Text(t)) = 1 + Len(t)
<1>1. PICK s : s = <<Len(t)>>
  OBVIOUS
<1>2. s \in Seq(Nat) /\ Len(s) = 1
  <2>1. Len(t) \in Nat
    OBVIOUS
  <2> QED
    BY <1>1, <2>1
<1> QED
  BY <1>1, <1>2, ConcatProperties DEF Text

LEMMA TextHeld ==
    ASSUME NEW cells \in Seq(Nat), NEW at, Position(at), NEW t \in Seq(Nat)
    PROVE  Holds(cells, at, Text(t)) <=>
              /\ at <= Len(cells) /\ cells[at] = Len(t)
              /\ at + Len(t) <= Len(cells)
              /\ \A i \in 1..Len(t) : cells[at + i] = t[i]
<1>1. at \in Nat /\ Len(cells) \in Nat /\ Len(t) \in Nat /\ Position(at + 1)
  BY LenProperties DEF Position
<1>2. Holds(cells, at, Text(t))
        <=> at <= Len(cells) /\ cells[at] = Len(t) /\ Holds(cells, at + 1, t)
  BY <1>1, HoldsFirst DEF Text
<1>3. \A i \in 1..Len(t) : at + 1 + i - 1 = at + i
  BY <1>1
<1>4. Holds(cells, at + 1, t) <=>
        /\ at + Len(t) <= Len(cells)
        /\ \A i \in 1..Len(t) : cells[at + i] = t[i]
  BY <1>1, <1>3 DEF Holds
<1> QED
  BY <1>2, <1>4

(* A text is read exactly where it is held.                                *)
LEMMA TextRead ==
    ASSUME NEW cells \in Seq(Nat), NEW at, Position(at), NEW max \in Nat, NEW utf8 \in BOOLEAN,
           NEW t \in Seq(Nat), Len(t) <= max, utf8 => Utf8(t), Holds(cells, at, Text(t))
    PROVE  ReadText(cells, at, max, utf8) = Read(at + Len(Text(t)), t)
<1>1. at \in Nat /\ Len(cells) \in Nat /\ Len(t) \in Nat /\ DOMAIN t = 1..Len(t)
  BY LenProperties DEF Position
<1>2. /\ at <= Len(cells) /\ cells[at] = Len(t)
      /\ at + Len(t) <= Len(cells)
      /\ \A i \in 1..Len(t) : cells[at + i] = t[i]
  BY TextHeld
<1>3. utf8 => \A i \in at + 1..at + cells[at] : cells[i] # NotUtf8
  <2>1. SUFFICES ASSUME utf8, NEW i \in at + 1..at + Len(t) PROVE cells[i] # NotUtf8
    BY <1>2
  <2>2. PICK j : j = i - at
    OBVIOUS
  <2>3. j \in 1..Len(t) /\ at + j = i
    BY <1>1, <2>2
  <2>4. t[j] # NotUtf8
    BY <1>1, <2>1, <2>3 DEF Utf8
  <2> QED
    BY <1>2, <2>3, <2>4
<1>4. SubSeq(cells, at + 1, at + Len(t)) = t
  <2>1. PICK s : s = SubSeq(cells, at + 1, at + Len(t))
    OBVIOUS
  <2>2. at + 1 \in Int /\ at + Len(t) \in Int
    BY <1>1
  <2>3. \A i \in at + 1..at + Len(t) : cells[i] \in Nat
    BY <1>1, <1>2, ElementOfSeq
  <2>4. /\ s \in Seq(Nat)
        /\ Len(s) = IF at + 1 <= at + Len(t) THEN (at + Len(t)) - (at + 1) + 1 ELSE 0
        /\ \A i \in 1..(at + Len(t)) - (at + 1) + 1 : s[i] = cells[at + 1 + i - 1]
    BY <2>1, <2>2, <2>3, SubSeqProperties
  <2>5. Len(s) = Len(t)
    BY <1>1, <2>4
  <2>6. (at + Len(t)) - (at + 1) + 1 = Len(t) /\ \A i \in 1..Len(t) : at + 1 + i - 1 = at + i
    BY <1>1
  <2>7. \A i \in 1..Len(t) : s[i] = t[i]
    BY <1>2, <2>4, <2>6
  <2> QED
    BY <2>1, <2>4, <2>5, <2>7, SeqEqual
<1>5. at + Len(Text(t)) = at + Len(t) + 1
  <2>1. Len(Text(t)) = 1 + Len(t)
    BY TextSize
  <2> QED
    BY <1>1, <2>1
<1>6. cells[at] <= max /\ at + cells[at] <= Len(cells)
  BY <1>2
<1>7. ReadText(cells, at, max, utf8)
        = Read(at + cells[at] + 1, SubSeq(cells, at + 1, at + cells[at]))
  BY <1>2, <1>3, <1>6 DEF ReadText
<1> QED
  BY <1>2, <1>4, <1>5, <1>7

(* What is read as a text is held there.                                   *)
LEMMA TextSound ==
    ASSUME NEW cells \in Seq(Nat), NEW at, Position(at), NEW max \in Nat, NEW utf8 \in BOOLEAN,
           NEW r, r = ReadText(cells, at, max, utf8), r.ok
    PROVE  /\ r.got \in Seq(Nat) /\ Len(r.got) <= max /\ (utf8 => Utf8(r.got))
           /\ Holds(cells, at, Text(r.got)) /\ r.at = at + Len(Text(r.got)) /\ Position(r.at)
<1>1. at \in Nat /\ at # 0 /\ Len(cells) \in Nat
  BY LenProperties DEF Position
<1>2. /\ at <= Len(cells)
      /\ cells[at] <= max
      /\ at + cells[at] <= Len(cells)
      /\ utf8 => \A i \in at + 1..at + cells[at] : cells[i] # NotUtf8
      /\ r = Read(at + cells[at] + 1, SubSeq(cells, at + 1, at + cells[at]))
  BY DEF ReadText, Bad
<1>3. PICK n : n = cells[at]
  OBVIOUS
<1>4. n \in Nat
  BY <1>1, <1>2, <1>3, ElementOfSeq
<1>5. PICK s : s = SubSeq(cells, at + 1, at + n)
  OBVIOUS
<1>6. r.got = s /\ r.at = at + n + 1
  <2>1. r = Read(at + n + 1, s)
    BY <1>2, <1>3, <1>5
  <2> QED
    BY <2>1 DEF Read
<1>7. s \in Seq(Nat) /\ Len(s) = n /\ \A i \in 1..n : s[i] = cells[at + i]
  <2>1. at + 1 \in Int /\ at + n \in Int
    BY <1>1, <1>4
  <2>2. \A i \in at + 1..at + n : cells[i] \in Nat
    <3>1. at + n <= Len(cells)
      BY <1>2, <1>3
    <3>2. \A i \in at + 1..at + n : i \in 1..Len(cells)
      BY <1>1, <1>4, <3>1
    <3> QED
      BY <3>2, ElementOfSeq
  <2>3. /\ s \in Seq(Nat)
        /\ Len(s) = IF at + 1 <= at + n THEN (at + n) - (at + 1) + 1 ELSE 0
        /\ \A i \in 1..(at + n) - (at + 1) + 1 : s[i] = cells[at + 1 + i - 1]
    BY <1>5, <2>1, <2>2, SubSeqProperties
  <2>4. Len(s) = n
    BY <1>1, <1>4, <2>3
  <2>5. (at + n) - (at + 1) + 1 = n /\ \A i \in 1..n : at + 1 + i - 1 = at + i
    BY <1>1, <1>4
  <2> QED
    BY <2>3, <2>4, <2>5
<1>8. utf8 => Utf8(s)
  <2>1. SUFFICES ASSUME utf8, NEW i \in 1..n PROVE s[i] # NotUtf8
    BY <1>7 DEF Utf8
  <2>2. at + i \in at + 1..at + n
    BY <1>1, <1>4
  <2> QED
    BY <1>2, <1>3, <1>7, <2>1, <2>2
<1>9. Holds(cells, at, Text(s))
  BY <1>2, <1>3, <1>7, TextHeld
<1>10. Len(Text(s)) = 1 + n
  BY <1>7, TextSize
<1>11. r.at = at + Len(Text(s)) /\ Position(r.at)
  BY <1>1, <1>4, <1>6, <1>10 DEF Position
<1> QED
  BY <1>2, <1>3, <1>6, <1>7, <1>8, <1>9, <1>11

LEMMA HoldsPair ==
    ASSUME NEW cells \in Seq(Nat), NEW at, Position(at), NEW x \in Nat, NEW y \in Nat
    PROVE  /\ <<x, y>> \in Seq(Nat) /\ Len(<<x, y>>) = 2
           /\ Holds(cells, at, <<x, y>>) <=> at < Len(cells) /\ cells[at] = x /\ cells[at + 1] = y
<1>1. PICK s : s = <<x, y>>
  OBVIOUS
<1>2. s \in Seq(Nat) /\ Len(s) = 2 /\ s[1] = x /\ s[2] = y
  BY <1>1
<1>3. at \in Nat /\ Len(cells) \in Nat /\ at + 1 - 1 = at /\ at + 2 - 1 = at + 1 /\ 1..2 = {1, 2}
  BY LenProperties DEF Position
<1>4. (\A i \in 1..2 : cells[at + i - 1] = s[i]) <=> cells[at + 1 - 1] = x /\ cells[at + 2 - 1] = y
  BY <1>2, <1>3
<1>5. at + 2 <= Len(cells) + 1 <=> at < Len(cells)
  BY <1>3
<1>6. Holds(cells, at, s) <=> at < Len(cells) /\ cells[at] = x /\ cells[at + 1] = y
  BY <1>2, <1>3, <1>4, <1>5 DEF Holds
<1> QED
  BY <1>1, <1>2, <1>6

(* The three forms of a value.                                             *)
IsNull(v) == v = Null /\ WriteValue(v) = << 0 >> /\ ValueSize(v) = 1

IsLong(v) ==
    /\ v = Value(v.kind, v.data) /\ v.data \in Seq(Nat)
    /\ \/ v.kind = "utf8" /\ Utf8(v.data) /\ WriteValue(v) = << 5 >> \o Text(v.data)
       \/ v.kind = "bytes" /\ WriteValue(v) = << 6 >> \o Text(v.data)
    /\ ValueSize(v) = 2 + Len(v.data)

IsShort(v) ==
    /\ v = Value(v.kind, v.data) /\ v.data \in Nat
    /\ \/ v.kind = "bool" /\ v.data \in {0, 1} /\ WriteValue(v) = <<1, v.data>>
       \/ v.kind = "i64" /\ WriteValue(v) = <<2, v.data>>
       \/ v.kind = "u64" /\ WriteValue(v) = <<3, v.data>>
       \/ v.kind = "f64" /\ WriteValue(v) = <<4, v.data>>
    /\ ValueSize(v) = 2

LEMMA ValueForms ==
    ASSUME NEW v
    PROVE  IsValue(v) <=> IsNull(v) \/ IsLong(v) \/ IsShort(v)
<1>1. ASSUME IsValue(v) PROVE IsNull(v) \/ IsLong(v) \/ IsShort(v)
  <2>1. v.kind \in {"null", "bool", "i64", "u64", "f64", "utf8", "bytes"}
    BY <1>1, KindFacts DEF IsValue
  <2>2. CASE v.kind = "null"
    <3>1. v = Null
      BY <1>1, <2>2 DEF IsValue, Null
    <3> QED
      BY <2>2, <3>1 DEF IsNull, WriteValue, ValueSize
  <2>3. CASE v.kind = "utf8"
    BY <1>1, <2>3, KindFacts DEF IsValue, IsLong, WriteValue, ValueSize
  <2>4. CASE v.kind = "bytes"
    BY <1>1, <2>4, KindFacts DEF IsValue, IsLong, WriteValue, ValueSize
  <2>5. CASE v.kind = "bool"
    <3>1. v.data \in {0, 1} /\ v.data \in Nat
      BY <1>1, <2>5 DEF IsValue
    <3> QED
      BY <1>1, <2>5, <3>1, KindFacts DEF IsValue, IsShort, WriteValue, ValueSize
  <2>6. CASE v.kind = "i64"
    BY <1>1, <2>6, KindFacts DEF IsValue, IsShort, WriteValue, ValueSize
  <2>7. CASE v.kind = "u64"
    BY <1>1, <2>7, KindFacts DEF IsValue, IsShort, WriteValue, ValueSize
  <2>8. CASE v.kind = "f64"
    BY <1>1, <2>8, KindFacts DEF IsValue, IsShort, WriteValue, ValueSize
  <2> QED
    BY <2>1, <2>2, <2>3, <2>4, <2>5, <2>6, <2>7, <2>8
<1>2. ASSUME IsNull(v) PROVE IsValue(v)
  <2>1. v = Value("null", 0)
    BY <1>2 DEF IsNull, Null
  <2>2. v.kind = "null" /\ v.data = 0
    BY <2>1 DEF Value
  <2> QED
    BY <2>1, <2>2 DEF IsValue
<1>3. ASSUME IsLong(v) PROVE IsValue(v)
  BY <1>3, KindFacts DEF IsLong, IsValue
<1>4. ASSUME IsShort(v) PROVE IsValue(v)
  BY <1>4, KindFacts DEF IsShort, IsValue
<1> QED
  BY <1>1, <1>2, <1>3, <1>4

LEMMA ValueSizes ==
    ASSUME NEW v, IsValue(v)
    PROVE  /\ WriteValue(v) \in Seq(Nat) /\ ValueSize(v) \in Nat
           /\ Len(WriteValue(v)) = ValueSize(v)
<1>1. CASE IsNull(v)
  <2>1. << 0 >> \in Seq(Nat) /\ Len(<< 0 >>) = 1
    OBVIOUS
  <2> QED
    BY <1>1, <2>1 DEF IsNull
<1>2. CASE IsLong(v)
  <2>1. PICK t : t = Text(v.data)
    OBVIOUS
  <2>2. t \in Seq(Nat) /\ Len(t) = 1 + Len(v.data) /\ Len(v.data) \in Nat
    BY <1>2, <2>1, TextSize, LenProperties DEF IsLong
  <2>3. PICK c, w : c \in Nat /\ w = <<c>> /\ WriteValue(v) = w \o t
    BY <1>2, <2>1 DEF IsLong
  <2>4. w \in Seq(Nat) /\ Len(w) = 1
    BY <2>3
  <2>5. w \o t \in Seq(Nat) /\ Len(w \o t) = 1 + Len(t)
    <3>1. w \o t \in Seq(Nat) /\ Len(w \o t) = Len(w) + Len(t)
      BY <2>2, <2>4, ConcatProperties
    <3> QED
      BY <2>4, <3>1
  <2> QED
    BY <1>2, <2>2, <2>3, <2>5 DEF IsLong
<1>3. CASE IsShort(v)
  <2>1. PICK c \in Nat : WriteValue(v) = <<c, v.data>>
    BY <1>3 DEF IsShort
  <2>2. <<c, v.data>> \in Seq(Nat) /\ Len(<<c, v.data>>) = 2
    BY <1>3 DEF IsShort
  <2> QED
    BY <1>3, <2>1, <2>2 DEF IsShort
<1> QED
  BY <1>1, <1>2, <1>3, ValueForms

LEMMA ValueRead ==
    ASSUME NEW cells \in Seq(Nat), Len(cells) <= MaxPayload, NEW at, Position(at),
           NEW v, IsValue(v), Holds(cells, at, WriteValue(v))
    PROVE  ReadValue(cells, at) = Read(at + Len(WriteValue(v)), v)
<1>1. at \in Nat /\ Len(cells) \in Nat /\ Position(at + 1) /\ MaxPayload \in Nat
  BY LenProperties, SchemaAssumption DEF Position
<1>2. CASE IsNull(v)
  <2>1. at <= Len(cells) /\ cells[at] = 0
    BY <1>2, HoldsOne DEF IsNull
  <2>2. Len(<< 0 >>) = 1
    OBVIOUS
  <2> QED
    BY <1>1, <1>2, <2>1, <2>2 DEF IsNull, ReadValue
<1>3. CASE IsLong(v)
  <2>1. PICK t : t = v.data
    OBVIOUS
  <2>2. t \in Seq(Nat) /\ v = Value(v.kind, t) /\ Text(t) \in Seq(Nat)
        /\ Len(Text(t)) = 1 + Len(t) /\ Len(t) \in Nat
    BY <1>3, <2>1, TextSize, LenProperties DEF IsLong
  <2>3. PICK c \in {5, 6} :
          /\ WriteValue(v) = <<c>> \o Text(t)
          /\ c = 5 => v.kind = "utf8" /\ Utf8(t)
          /\ c = 6 => v.kind = "bytes"
    BY <1>3, <2>1 DEF IsLong
  <2>4. /\ at <= Len(cells) /\ cells[at] = c /\ Holds(cells, at + 1, Text(t))
        /\ Len(WriteValue(v)) = 2 + Len(t)
    BY <2>2, <2>3, HoldsFirst
  <2>5. Len(t) <= MaxPayload
    BY <1>1, <2>2, <2>4 DEF Holds
  <2>6. PICK u \in BOOLEAN : u <=> c = 5
    OBVIOUS
  <2>7. u => Utf8(t)
    BY <2>3, <2>6
  <2>8. ReadText(cells, at + 1, MaxPayload, u) = Read(at + 1 + Len(Text(t)), t)
    BY <1>1, <2>2, <2>4, <2>5, <2>7, TextRead
  <2>9. Kinds6[c] = v.kind /\ (v.kind = "utf8") = u /\ v.kind \in {"utf8", "bytes"}
    BY <2>3, <2>6, KindFacts
  <2>10. at + 1 + Len(Text(t)) = at + Len(WriteValue(v))
    BY <1>1, <2>2, <2>4
  <2>11. PICK r : r = ReadText(cells, at + 1, MaxPayload, Kinds6[cells[at]] = "utf8")
    OBVIOUS
  <2>12. r = Read(at + Len(WriteValue(v)), t)
    BY <2>4, <2>8, <2>9, <2>10, <2>11
  <2>13. r.ok /\ r.at = at + Len(WriteValue(v)) /\ r.got = t
    BY <2>12 DEF Read
  <2>14. ~(at > Len(cells)) /\ ~(cells[at] > 6) /\ cells[at] # 0
    BY <1>1, <2>4
  <2>15. ReadValue(cells, at) = Read(r.at, Value(Kinds6[cells[at]], r.got))
    BY <2>4, <2>9, <2>11, <2>13, <2>14 DEF ReadValue
  <2> QED
    BY <2>2, <2>4, <2>9, <2>13, <2>15
<1>4. CASE IsShort(v)
  <2>1. PICK c \in {1, 2, 3, 4} :
          /\ WriteValue(v) = <<c, v.data>>
          /\ v.kind = Kinds6[c] /\ v.kind \notin {"utf8", "bytes"}
          /\ v.kind = "bool" => v.data \in {0, 1}
    BY <1>4, KindFacts DEF IsShort
  <2>2. v.data \in Nat /\ v = Value(v.kind, v.data)
    BY <1>4 DEF IsShort
  <2>3. at < Len(cells) /\ cells[at] = c /\ cells[at + 1] = v.data /\ Len(WriteValue(v)) = 2
    BY <2>1, <2>2, HoldsPair
  <2>4. ~(at > Len(cells)) /\ ~(cells[at] > 6) /\ cells[at] # 0
    BY <1>1, <2>1, <2>3
  <2>5. ReadValue(cells, at) = Read(at + 2, Value(Kinds6[cells[at]], cells[at + 1]))
    BY <2>1, <2>3, <2>4 DEF ReadValue
  <2> QED
    BY <2>1, <2>2, <2>3, <2>5
<1> QED
  BY <1>2, <1>3, <1>4, ValueForms

LEMMA ValueSound ==
    ASSUME NEW cells \in Seq(Nat), NEW at, Position(at),
           NEW r, r = ReadValue(cells, at), r.ok
    PROVE  /\ IsValue(r.got) /\ Holds(cells, at, WriteValue(r.got))
           /\ r.at = at + Len(WriteValue(r.got)) /\ Position(r.at)
<1>1. at \in Nat /\ at # 0 /\ Len(cells) \in Nat /\ Position(at + 1) /\ MaxPayload \in Nat
  BY LenProperties, SchemaAssumption DEF Position
<1>2. PICK tag : tag = cells[at]
  OBVIOUS
<1>3. PICK kind : kind = Kinds6[tag]
  OBVIOUS
<1>4. PICK text : text = ReadText(cells, at + 1, MaxPayload, kind = "utf8")
  OBVIOUS
<1>5. r = IF at > Len(cells) \/ tag > 6 THEN Bad
          ELSE IF tag = 0 THEN Read(at + 1, Null)
          ELSE IF kind \in {"utf8", "bytes"}
          THEN IF text.ok THEN Read(text.at, Value(kind, text.got)) ELSE Bad
          ELSE IF at < Len(cells) /\ (kind = "bool" => cells[at + 1] \in {0, 1})
          THEN Read(at + 2, Value(kind, cells[at + 1]))
          ELSE Bad
  BY <1>2, <1>3, <1>4 DEF ReadValue
<1>6. ~Bad.ok
  BY DEF Bad
<1>7. at <= Len(cells) /\ ~(tag > 6)
  BY <1>1, <1>5, <1>6
<1>8. tag \in 0..6
  BY <1>1, <1>2, <1>7, ElementOfSeq
<1>9. CASE tag = 0
  <2>1. r = Read(at + 1, Null)
    BY <1>1, <1>5, <1>7, <1>9
  <2>2. r.at = at + 1 /\ r.got = Null
    BY <2>1 DEF Read
  <2>3. Null.kind = "null"
    BY DEF Null, Value
  <2>4. WriteValue(Null) = << 0 >> /\ ValueSize(Null) = 1 /\ Len(<< 0 >>) = 1
    BY <2>3 DEF WriteValue, ValueSize
  <2>5. Holds(cells, at, <<tag>>)
    BY <1>2, <1>7, HoldsOne
  <2> QED
    BY <1>1, <1>9, <2>2, <2>4, <2>5, ValueForms DEF IsNull
<1>10. CASE tag \in {5, 6}
  <2>1. kind = (IF tag = 5 THEN "utf8" ELSE "bytes") /\ TagOf(kind) + 1 = tag
    BY <1>3, <1>10, KindFacts
  <2>2. kind \in {"utf8", "bytes"} /\ (tag = 5 <=> kind = "utf8")
    BY <1>10, <2>1
  <2>3. text.ok /\ r = Read(text.at, Value(kind, text.got))
    BY <1>5, <1>6, <1>7, <1>10, <2>2
  <2>4. /\ text.got \in Seq(Nat) /\ (kind = "utf8" => Utf8(text.got))
        /\ Holds(cells, at + 1, Text(text.got)) /\ text.at = at + 1 + Len(Text(text.got))
        /\ Position(text.at)
    <3>1. PICK u \in BOOLEAN : u <=> kind = "utf8"
      OBVIOUS
    <3>2. text = ReadText(cells, at + 1, MaxPayload, u)
      BY <1>4, <3>1
    <3>3. PICK p : p = at + 1
      OBVIOUS
    <3>4. Position(p) /\ text = ReadText(cells, p, MaxPayload, u) /\ text.ok
      BY <1>1, <2>3, <3>2, <3>3
    <3>5. /\ text.got \in Seq(Nat) /\ (u => Utf8(text.got))
          /\ Holds(cells, p, Text(text.got)) /\ text.at = p + Len(Text(text.got))
          /\ Position(text.at)
      BY <1>1, <3>4, TextSound
    <3> QED
      BY <3>1, <3>3, <3>5
  <2>5. PICK v : v = r.got
    OBVIOUS
  <2>6. v = Value(kind, text.got) /\ r.at = text.at
    BY <2>3, <2>5 DEF Read
  <2>7. v.kind = kind /\ v.data = text.got
    BY <2>6 DEF Value
  <2>8. IsValue(v)
    BY <2>2, <2>4, <2>6, <2>7, KindFacts DEF IsValue
  <2>9. WriteValue(v) = <<tag>> \o Text(v.data)
    BY <2>1, <2>2, <2>7 DEF WriteValue
  <2>10. Text(v.data) \in Seq(Nat) /\ tag \in Nat
    BY <1>10, <2>4, <2>7, TextSize
  <2>11. Holds(cells, at, WriteValue(v)) /\ Len(WriteValue(v)) = 1 + Len(Text(v.data))
    BY <1>2, <1>7, <2>4, <2>7, <2>9, <2>10, HoldsFirst
  <2>12. r.at = at + Len(WriteValue(v))
    <3>1. Len(Text(v.data)) \in Nat
      BY <2>10, LenProperties
    <3> QED
      BY <1>1, <2>4, <2>6, <2>7, <2>11, <3>1
  <2> QED
    BY <2>4, <2>5, <2>6, <2>8, <2>11, <2>12
<1>11. CASE tag \in {1, 2, 3, 4}
  <2>1. /\ kind \in {"bool", "i64", "u64", "f64"} /\ TagOf(kind) + 1 = tag
        /\ kind \notin {"utf8", "bytes", "null"}
    BY <1>3, <1>11, KindFacts
  <2>2. /\ at < Len(cells) /\ (kind = "bool" => cells[at + 1] \in {0, 1})
        /\ r = Read(at + 2, Value(kind, cells[at + 1]))
    BY <1>5, <1>6, <1>7, <1>11, <2>1
  <2>3. PICK v : v = r.got
    OBVIOUS
  <2>4. v = Value(kind, cells[at + 1]) /\ r.at = at + 2
    BY <2>2, <2>3 DEF Read
  <2>5. v.kind = kind /\ v.data = cells[at + 1]
    BY <2>4 DEF Value
  <2>6. v.data \in Nat
    BY <1>1, <2>2, <2>5, ElementOfSeq
  <2>7. IsValue(v)
    BY <2>1, <2>2, <2>4, <2>5, <2>6, KindFacts DEF IsValue
  <2>8. WriteValue(v) = <<tag, v.data>>
    BY <2>1, <2>5 DEF WriteValue
  <2>9. Holds(cells, at, WriteValue(v)) /\ Len(WriteValue(v)) = 2
    BY <1>2, <1>8, <2>2, <2>5, <2>6, <2>8, HoldsPair
  <2> QED
    BY <1>1, <2>3, <2>4, <2>7, <2>9 DEF Position
<1> QED
  BY <1>8, <1>9, <1>10, <1>11

-----------------------------------------------------------------------------
(* Items: updates and fields.                                              *)

LEMMA UpdateSizes ==
    ASSUME NEW u, IsUpdate(u)
    PROVE  /\ u.id \in Nat /\ WriteUpdate(u) \in Seq(Nat) /\ ItemSize("mutation", u) \in Nat
           /\ Len(WriteUpdate(u)) = ItemSize("mutation", u)
<1>1. u.id \in Nat /\ IsValue(u.value)
  BY DEF IsUpdate
<1>2. /\ WriteValue(u.value) \in Seq(Nat) /\ ValueSize(u.value) \in Nat
      /\ Len(WriteValue(u.value)) = ValueSize(u.value)
  BY <1>1, ValueSizes
<1>3. PICK w : w = <<u.id>>
  OBVIOUS
<1>4. w \in Seq(Nat) /\ Len(w) = 1
  BY <1>1, <1>3
<1>5. /\ w \o WriteValue(u.value) \in Seq(Nat)
      /\ Len(w \o WriteValue(u.value)) = Len(w) + Len(WriteValue(u.value))
  BY <1>2, <1>4, ConcatProperties
<1> QED
  BY <1>1, <1>2, <1>3, <1>4, <1>5 DEF WriteUpdate, ItemSize

LEMMA UpdateRead ==
    ASSUME NEW cells \in Seq(Nat), Len(cells) <= MaxPayload, NEW at, Position(at),
           NEW u, IsUpdate(u), Holds(cells, at, WriteUpdate(u))
    PROVE  ReadUpdate(cells, at) = Read(at + Len(WriteUpdate(u)), u)
<1>1. u.id \in Nat /\ IsValue(u.value) /\ u = [id |-> u.id, value |-> u.value]
  BY DEF IsUpdate
<1>2. PICK w : w = WriteValue(u.value)
  OBVIOUS
<1>3. w \in Seq(Nat) /\ Len(w) \in Nat /\ Len(w) # 0
  <2>1. Len(w) = ValueSize(u.value) /\ w \in Seq(Nat)
    BY <1>1, <1>2, ValueSizes
  <2>2. ValueSize(u.value) # 0
    <3>1. ASSUME IsLong(u.value) PROVE ValueSize(u.value) # 0
      <4>1. Len(u.value.data) \in Nat
        BY <3>1, LenProperties DEF IsLong
      <4> QED
        BY <3>1, <4>1 DEF IsLong
    <3> QED
      BY <1>1, <3>1, ValueForms DEF IsNull, IsShort
  <2> QED
    BY <2>1, <2>2, LenProperties
<1>4. at \in Nat /\ Len(cells) \in Nat /\ Position(at + 1)
  BY LenProperties DEF Position
<1>5. /\ at <= Len(cells) /\ cells[at] = u.id /\ Holds(cells, at + 1, w)
      /\ Len(WriteUpdate(u)) = 1 + Len(w)
  BY <1>1, <1>2, <1>3, HoldsFirst DEF WriteUpdate
<1>6. at < Len(cells)
  BY <1>3, <1>4, <1>5 DEF Holds
<1>7. PICK value : value = ReadValue(cells, at + 1)
  OBVIOUS
<1>8. value = Read(at + 1 + Len(w), u.value)
  BY <1>1, <1>2, <1>4, <1>5, <1>7, ValueRead
<1>9. value.ok /\ value.at = at + 1 + Len(w) /\ value.got = u.value
  BY <1>8 DEF Read
<1>10. ReadUpdate(cells, at) = Read(value.at, [id |-> cells[at], value |-> value.got])
  BY <1>6, <1>7, <1>9 DEF ReadUpdate
<1>11. at + 1 + Len(w) = at + Len(WriteUpdate(u))
  BY <1>3, <1>4, <1>5
<1> QED
  BY <1>1, <1>5, <1>9, <1>10, <1>11

LEMMA UpdateSound ==
    ASSUME NEW cells \in Seq(Nat), NEW at, Position(at),
           NEW r, r = ReadUpdate(cells, at), r.ok
    PROVE  /\ IsUpdate(r.got) /\ Holds(cells, at, WriteUpdate(r.got))
           /\ r.at = at + Len(WriteUpdate(r.got)) /\ Position(r.at)
<1>1. at \in Nat /\ at # 0 /\ Len(cells) \in Nat /\ Position(at + 1)
  BY LenProperties DEF Position
<1>2. PICK value : value = ReadValue(cells, at + 1)
  OBVIOUS
<1>3. /\ at < Len(cells) /\ value.ok
      /\ r = Read(value.at, [id |-> cells[at], value |-> value.got])
  BY <1>2 DEF ReadUpdate, Bad
<1>4. PICK p : p = at + 1
  OBVIOUS
<1>5. Position(p) /\ value = ReadValue(cells, p)
  BY <1>1, <1>2, <1>4
<1>6. /\ IsValue(value.got) /\ Holds(cells, p, WriteValue(value.got))
      /\ value.at = p + Len(WriteValue(value.got)) /\ Position(value.at)
  BY <1>3, <1>5, ValueSound
<1>7. PICK u : u = r.got
  OBVIOUS
<1>8. u = [id |-> cells[at], value |-> value.got] /\ r.at = value.at
  BY <1>3, <1>7 DEF Read
<1>9. u.id = cells[at] /\ u.value = value.got /\ u.id \in Nat
  BY <1>1, <1>3, <1>8, ElementOfSeq
<1>10. IsUpdate(u)
  BY <1>6, <1>8, <1>9 DEF IsUpdate
<1>11. WriteValue(u.value) \in Seq(Nat) /\ Len(WriteValue(u.value)) \in Nat
  BY <1>6, <1>9, ValueSizes
<1>12. at <= Len(cells)
  BY <1>1, <1>3
<1>13. Holds(cells, at, WriteUpdate(u)) /\ Len(WriteUpdate(u)) = 1 + Len(WriteValue(u.value))
  BY <1>4, <1>6, <1>9, <1>11, <1>12, HoldsFirst DEF WriteUpdate
<1>14. r.at = at + Len(WriteUpdate(u))
  <2>1. PICK n \in Nat : n = Len(WriteValue(u.value))
    BY <1>11
  <2>2. r.at = p + n /\ Len(WriteUpdate(u)) = 1 + n
    BY <1>6, <1>8, <1>9, <1>13, <2>1
  <2> QED
    BY <1>1, <1>4, <2>1, <2>2
<1> QED
  BY <1>6, <1>7, <1>8, <1>10, <1>13, <1>14

-----------------------------------------------------------------------------
IsUnit(unit) == \A u \in unit : unit = Some(u) /\ u \in Seq(Nat) /\ Utf8(u)

UnitFits(unit) == \A u \in unit : Len(u) <= MaxText

LEMMA UnitForms ==
    ASSUME NEW unit, IsUnit(unit)
    PROVE  \/ unit = None /\ WriteUnit(unit) = << 0 >>
           \/ \E t \in Seq(Nat) :
                /\ unit # None /\ unit = Some(t) /\ Utf8(t) /\ Unwrap(unit) = t
                /\ WriteUnit(unit) = << 1 >> \o Text(t)
<1>1. CASE unit = None
  BY <1>1 DEF WriteUnit
<1>2. CASE unit # None
  <2>1. PICK t \in unit : unit = Some(t) /\ t \in Seq(Nat) /\ Utf8(t)
    BY <1>2 DEF IsUnit, None
  <2>2. Unwrap(unit) = t
    BY <2>1 DEF Unwrap, Some
  <2> QED
    BY <1>2, <2>1, <2>2 DEF WriteUnit
<1> QED
  BY <1>1, <1>2

LEMMA UnitSizes ==
    ASSUME NEW unit, IsUnit(unit)
    PROVE  /\ WriteUnit(unit) \in Seq(Nat)
           /\ Len(WriteUnit(unit))
                = 1 + (IF unit = None THEN 0 ELSE 1 + Len(Unwrap(unit)))
           /\ unit # None => Len(Unwrap(unit)) \in Nat
<1>1. CASE unit = None /\ WriteUnit(unit) = << 0 >>
  <2>1. << 0 >> \in Seq(Nat) /\ Len(<< 0 >>) = 1
    OBVIOUS
  <2> QED
    BY <1>1, <2>1
<1>2. ASSUME NEW t \in Seq(Nat), unit # None, Unwrap(unit) = t,
             WriteUnit(unit) = << 1 >> \o Text(t)
      PROVE  /\ WriteUnit(unit) \in Seq(Nat)
             /\ Len(WriteUnit(unit))
                  = 1 + (IF unit = None THEN 0 ELSE 1 + Len(Unwrap(unit)))
             /\ unit # None => Len(Unwrap(unit)) \in Nat
  <2>1. PICK w : w = << 1 >>
    OBVIOUS
  <2>2. w \in Seq(Nat) /\ Len(w) = 1
    BY <2>1
  <2>3. Text(t) \in Seq(Nat) /\ Len(Text(t)) = 1 + Len(t) /\ Len(t) \in Nat
    BY TextSize, LenProperties
  <2>4. w \o Text(t) \in Seq(Nat) /\ Len(w \o Text(t)) = Len(w) + Len(Text(t))
    BY <2>2, <2>3, ConcatProperties
  <2> QED
    BY <1>2, <2>1, <2>2, <2>3, <2>4
<1> QED
  BY <1>1, <1>2, UnitForms

LEMMA UnitRead ==
    ASSUME NEW cells \in Seq(Nat), NEW at, Position(at),
           NEW unit, IsUnit(unit), UnitFits(unit), Holds(cells, at, WriteUnit(unit))
    PROVE  ReadUnit(cells, at) = Read(at + Len(WriteUnit(unit)), unit)
<1>1. at \in Nat /\ Len(cells) \in Nat /\ Position(at + 1) /\ MaxText \in Nat
  BY LenProperties, SchemaAssumption DEF Position
<1>2. CASE unit = None /\ WriteUnit(unit) = << 0 >>
  <2>1. at <= Len(cells) /\ cells[at] = 0
    BY <1>2, HoldsOne
  <2>2. Len(<< 0 >>) = 1
    OBVIOUS
  <2>3. ~(at > Len(cells)) /\ ~(cells[at] > 1)
    BY <1>1, <2>1
  <2> QED
    BY <1>2, <2>1, <2>2, <2>3 DEF ReadUnit
<1>3. ASSUME NEW t \in Seq(Nat), unit = Some(t), Utf8(t),
             WriteUnit(unit) = << 1 >> \o Text(t)
      PROVE  ReadUnit(cells, at) = Read(at + Len(WriteUnit(unit)), unit)
  <2>1. Text(t) \in Seq(Nat) /\ Len(Text(t)) \in Nat
    BY TextSize, LenProperties
  <2>2. /\ at <= Len(cells) /\ cells[at] = 1 /\ Holds(cells, at + 1, Text(t))
        /\ Len(WriteUnit(unit)) = 1 + Len(Text(t))
    BY <1>3, <2>1, HoldsFirst
  <2>3. Len(t) <= MaxText
    BY <1>3 DEF UnitFits, Some
  <2>4. PICK p : p = at + 1
    OBVIOUS
  <2>5. PICK r : r = ReadText(cells, p, MaxText, TRUE)
    OBVIOUS
  <2>6. Position(p) /\ Holds(cells, p, Text(t))
    BY <1>1, <2>2, <2>4
  <2>7. r = Read(p + Len(Text(t)), t)
    BY <1>1, <1>3, <2>3, <2>5, <2>6, TextRead
  <2>8. r.ok /\ r.at = p + Len(Text(t)) /\ r.got = t
    BY <2>7 DEF Read
  <2>9. ~(at > Len(cells)) /\ ~(cells[at] > 1) /\ cells[at] # 0
    BY <1>1, <2>2
  <2>10. ReadUnit(cells, at) = Read(r.at, Some(r.got))
    BY <2>4, <2>5, <2>8, <2>9 DEF ReadUnit
  <2>11. p + Len(Text(t)) = at + Len(WriteUnit(unit))
    BY <1>1, <2>1, <2>2, <2>4
  <2> QED
    BY <1>3, <2>8, <2>10, <2>11
<1> QED
  BY <1>2, <1>3, UnitForms

LEMMA UnitSound ==
    ASSUME NEW cells \in Seq(Nat), NEW at, Position(at),
           NEW r, r = ReadUnit(cells, at), r.ok
    PROVE  /\ IsUnit(r.got) /\ UnitFits(r.got) /\ Holds(cells, at, WriteUnit(r.got))
           /\ r.at = at + Len(WriteUnit(r.got)) /\ Position(r.at)
<1>1. at \in Nat /\ at # 0 /\ Len(cells) \in Nat /\ Position(at + 1) /\ MaxText \in Nat
  BY LenProperties, SchemaAssumption DEF Position
<1>2. PICK p : p = at + 1
  OBVIOUS
<1>3. PICK text : text = ReadText(cells, p, MaxText, TRUE)
  OBVIOUS
<1>4. PICK tag : tag = cells[at]
  OBVIOUS
<1>5. /\ at <= Len(cells) /\ ~(tag > 1)
      /\ \/ tag = 0 /\ r = Read(at + 1, None)
         \/ tag # 0 /\ text.ok /\ r = Read(text.at, Some(text.got))
  <2>1. r = IF at > Len(cells) \/ tag > 1 THEN Bad
            ELSE IF tag = 0 THEN Read(at + 1, None)
            ELSE IF text.ok THEN Read(text.at, Some(text.got)) ELSE Bad
    BY <1>2, <1>3, <1>4 DEF ReadUnit
  <2>2. ~Bad.ok
    BY DEF Bad
  <2> QED
    BY <1>1, <2>1, <2>2
<1>6. tag \in {0, 1}
  <2>1. tag \in Nat
    BY <1>1, <1>4, <1>5, ElementOfSeq
  <2> QED
    BY <1>5, <2>1
<1>7. CASE tag = 0
  <2>1. r.at = at + 1 /\ r.got = None
    BY <1>5, <1>7 DEF Read
  <2>2. WriteUnit(None) = << 0 >> /\ Len(<< 0 >>) = 1
    BY DEF WriteUnit
  <2>3. Holds(cells, at, <<tag>>)
    BY <1>4, <1>5, HoldsOne
  <2>4. IsUnit(None) /\ UnitFits(None)
    BY DEF IsUnit, UnitFits, None
  <2> QED
    BY <1>1, <1>7, <2>1, <2>2, <2>3, <2>4 DEF Position
<1>8. CASE tag = 1
  <2>1. text.ok /\ r = Read(text.at, Some(text.got))
    BY <1>5, <1>8
  <2>2. Position(p)
    BY <1>1, <1>2
  <2>3. /\ text.got \in Seq(Nat) /\ Len(text.got) <= MaxText /\ Utf8(text.got)
        /\ Holds(cells, p, Text(text.got)) /\ text.at = p + Len(Text(text.got))
        /\ Position(text.at)
    BY <1>1, <1>3, <2>1, <2>2, TextSound
  <2>4. PICK t : t = text.got
    OBVIOUS
  <2>5. r.at = text.at /\ r.got = Some(t)
    BY <2>1, <2>4 DEF Read
  <2>6. IsUnit(Some(t)) /\ UnitFits(Some(t))
    BY <2>3, <2>4 DEF IsUnit, UnitFits, Some
  <2>7. Some(t) # None /\ Unwrap(Some(t)) = t
    BY DEF Some, None, Unwrap
  <2>8. WriteUnit(Some(t)) = <<tag>> \o Text(t)
    BY <1>8, <2>7 DEF WriteUnit
  <2>9. Text(t) \in Seq(Nat) /\ Len(Text(t)) \in Nat
    BY <2>3, <2>4, TextSize, LenProperties
  <2>10. /\ Holds(cells, at, WriteUnit(Some(t)))
         /\ Len(WriteUnit(Some(t))) = 1 + Len(Text(t))
    <3>1. tag \in Nat /\ at <= Len(cells) /\ cells[at] = tag
      BY <1>4, <1>5, <1>6
    <3>2. Holds(cells, at + 1, Text(t))
      BY <1>2, <2>3, <2>4
    <3>3. /\ Holds(cells, at, <<tag>> \o Text(t))
          /\ Len(<<tag>> \o Text(t)) = 1 + Len(Text(t))
      BY <2>9, <3>1, <3>2, HoldsFirst
    <3> QED
      BY <2>8, <3>3
  <2>11. text.at = at + Len(WriteUnit(Some(t)))
    BY <1>1, <1>2, <2>3, <2>4, <2>9, <2>10
  <2> QED
    BY <2>3, <2>5, <2>6, <2>10, <2>11
<1> QED
  BY <1>6, <1>7, <1>8

LEMMA HoldsTriple ==
    ASSUME NEW cells \in Seq(Nat), NEW at, Position(at),
           NEW x \in Nat, NEW y \in Nat, NEW z \in Nat
    PROVE  /\ <<x, y, z>> \in Seq(Nat) /\ Len(<<x, y, z>>) = 3
           /\ Holds(cells, at, <<x, y, z>>)
                <=> at + 2 <= Len(cells) /\ cells[at] = x /\ cells[at + 1] = y /\ cells[at + 2] = z
<1>1. PICK s : s = <<x, y, z>>
  OBVIOUS
<1>2. s \in Seq(Nat) /\ Len(s) = 3 /\ s[1] = x /\ s[2] = y /\ s[3] = z
  BY <1>1
<1>3. /\ at \in Nat /\ Len(cells) \in Nat
      /\ at + 1 - 1 = at /\ at + 2 - 1 = at + 1 /\ at + 3 - 1 = at + 2 /\ 1..3 = {1, 2, 3}
  BY LenProperties DEF Position
<1>4. (\A i \in 1..3 : cells[at + i - 1] = s[i])
        <=> cells[at + 1 - 1] = x /\ cells[at + 2 - 1] = y /\ cells[at + 3 - 1] = z
  BY <1>2, <1>3
<1>5. at + 3 <= Len(cells) + 1 <=> at + 2 <= Len(cells)
  BY <1>3
<1>6. Holds(cells, at, s)
        <=> at + 2 <= Len(cells) /\ cells[at] = x /\ cells[at + 1] = y /\ cells[at + 2] = z
  BY <1>2, <1>3, <1>4, <1>5 DEF Holds
<1> QED
  BY <1>1, <1>2, <1>6

(* The parts a field is written in.                                        *)
FieldHead(f) == <<f.id, TagOf(f.kind), IF f.nullable THEN 1 ELSE 0>>

FieldFits(f) == Len(f.name) <= MaxText /\ UnitFits(f.unit)

LEMMA FieldParts ==
    ASSUME NEW f, IsField(f)
    PROVE  /\ f.id \in Nat /\ TagOf(f.kind) \in 0..5 /\ Kinds6[TagOf(f.kind) + 1] = f.kind
           /\ (IF f.nullable THEN 1 ELSE 0) \in {0, 1} /\ f.nullable \in BOOLEAN
           /\ FieldHead(f) \in Seq(Nat) /\ Len(FieldHead(f)) = 3
           /\ f.name \in Seq(Nat) /\ Len(f.name) \in Nat /\ Utf8(f.name)
           /\ Text(f.name) \in Seq(Nat) /\ Len(Text(f.name)) = 1 + Len(f.name)
           /\ IsUnit(f.unit) /\ WriteUnit(f.unit) \in Seq(Nat) /\ Len(WriteUnit(f.unit)) \in Nat
           /\ WriteField(f) = (FieldHead(f) \o Text(f.name)) \o WriteUnit(f.unit)
           /\ FieldHead(f) \o Text(f.name) \in Seq(Nat)
           /\ Len(FieldHead(f) \o Text(f.name)) = 4 + Len(f.name)
           /\ WriteField(f) \in Seq(Nat)
           /\ Len(WriteField(f)) = 4 + Len(f.name) + Len(WriteUnit(f.unit))
<1>1. /\ f.id \in Nat /\ f.nullable \in BOOLEAN /\ f.name \in Seq(Nat) /\ Utf8(f.name)
      /\ f.kind \in Range(Kinds6) /\ IsUnit(f.unit)
  BY DEF IsField, IsUnit
<1>2. TagOf(f.kind) \in 0..5 /\ Kinds6[TagOf(f.kind) + 1] = f.kind
  <2>1. \/ f.kind = "bool" /\ TagOf(f.kind) = 0 /\ Kinds6[1] = f.kind
        \/ f.kind = "i64" /\ TagOf(f.kind) = 1 /\ Kinds6[2] = f.kind
        \/ f.kind = "u64" /\ TagOf(f.kind) = 2 /\ Kinds6[3] = f.kind
        \/ f.kind = "f64" /\ TagOf(f.kind) = 3 /\ Kinds6[4] = f.kind
        \/ f.kind = "utf8" /\ TagOf(f.kind) = 4 /\ Kinds6[5] = f.kind
        \/ f.kind = "bytes" /\ TagOf(f.kind) = 5 /\ Kinds6[6] = f.kind
    BY <1>1, KindFacts
  <2>2. \E tag \in 0..5 : TagOf(f.kind) = tag /\ Kinds6[tag + 1] = f.kind
    <3>1. 0 + 1 = 1 /\ 1 + 1 = 2 /\ 2 + 1 = 3 /\ 3 + 1 = 4 /\ 4 + 1 = 5 /\ 5 + 1 = 6
      OBVIOUS
    <3> QED
      BY <2>1, <3>1
  <2> QED
    BY <2>2
<1>3. PICK n \in {0, 1} : n = IF f.nullable THEN 1 ELSE 0
  OBVIOUS
<1>4. PICK h : h = <<f.id, TagOf(f.kind), n>>
  OBVIOUS
<1>5. h \in Seq(Nat) /\ Len(h) = 3
  <2>1. PICK t \in Nat : t = TagOf(f.kind)
    BY <1>2
  <2>2. n \in Nat
    BY <1>3
  <2> QED
    BY <1>1, <1>4, <2>1, <2>2
<1>6. h = FieldHead(f)
  BY <1>3, <1>4 DEF FieldHead
<1>7. PICK t, w : t = Text(f.name) /\ w = WriteUnit(f.unit)
  OBVIOUS
<1>8. /\ t \in Seq(Nat) /\ Len(t) = 1 + Len(f.name) /\ Len(f.name) \in Nat
      /\ w \in Seq(Nat) /\ Len(w) \in Nat
  <2>1. Len(f.name) \in Nat
    BY <1>1, LenProperties
  <2>2. t \in Seq(Nat) /\ Len(t) = 1 + Len(f.name)
    BY <1>1, <1>7, TextSize
  <2>3. w \in Seq(Nat)
    BY <1>1, <1>7, UnitSizes
  <2> QED
    BY <2>1, <2>2, <2>3, LenProperties
<1>9. h \o t \in Seq(Nat) /\ Len(h \o t) = Len(h) + Len(t)
  BY <1>5, <1>8, ConcatProperties
<1>10. (h \o t) \o w \in Seq(Nat) /\ Len((h \o t) \o w) = Len(h \o t) + Len(w)
  BY <1>8, <1>9, ConcatProperties
<1>11. WriteField(f) = (h \o t) \o w
  BY <1>6, <1>7 DEF WriteField, FieldHead
<1>12. Len(h \o t) = 4 + Len(f.name)
  BY <1>5, <1>8, <1>9
<1>13. Len(WriteField(f)) = 4 + Len(f.name) + Len(w)
  BY <1>10, <1>11, <1>12
<1> QED
  BY <1>1, <1>2, <1>3, <1>5, <1>6, <1>7, <1>8, <1>9, <1>10, <1>11, <1>12, <1>13

LEMMA FieldSizes ==
    ASSUME NEW f, IsField(f)
    PROVE  /\ f.id \in Nat /\ WriteField(f) \in Seq(Nat) /\ FieldSize(f) \in Nat
           /\ Len(WriteField(f)) = FieldSize(f)
<1>1. PICK n : n = IF f.unit = None THEN 0 ELSE 1 + Len(Unwrap(f.unit))
  OBVIOUS
<1>2. IsUnit(f.unit) /\ Len(f.name) \in Nat
  BY FieldParts
<1>3. Len(WriteUnit(f.unit)) = 1 + n /\ (f.unit # None => Len(Unwrap(f.unit)) \in Nat)
  BY <1>1, <1>2, UnitSizes
<1>4. n \in Nat
  BY <1>1, <1>3
<1>5. Len(WriteField(f)) = 4 + Len(f.name) + Len(WriteUnit(f.unit))
  BY FieldParts
<1>6. FieldSize(f) = 5 + Len(f.name) + n
  BY <1>1 DEF FieldSize
<1>7. PICK l \in Nat : l = Len(f.name)
  BY <1>2
<1>8. FieldSize(f) = 5 + l + n /\ Len(WriteField(f)) = 4 + l + (1 + n)
  BY <1>3, <1>5, <1>6, <1>7
<1>9. FieldSize(f) \in Nat /\ Len(WriteField(f)) = FieldSize(f)
  BY <1>4, <1>8
<1>10. f.id \in Nat /\ WriteField(f) \in Seq(Nat)
  BY FieldParts
<1> QED
  BY <1>9, <1>10

(* A field is held when its parts are, one after the other.                *)
LEMMA FieldHeld ==
    ASSUME NEW cells \in Seq(Nat), NEW at, Position(at), NEW f, IsField(f)
    PROVE  /\ Holds(cells, at, WriteField(f)) <=>
                /\ at + 2 <= Len(cells) /\ cells[at] = f.id /\ cells[at + 1] = TagOf(f.kind)
                /\ cells[at + 2] = IF f.nullable THEN 1 ELSE 0
                /\ Holds(cells, at + 3, Text(f.name))
                /\ Holds(cells, at + 3 + Len(Text(f.name)), WriteUnit(f.unit))
           /\ at + 3 + Len(Text(f.name)) + Len(WriteUnit(f.unit)) = at + Len(WriteField(f))
<1>1. at \in Nat
  BY DEF Position
<1>2. PICK h, t, w : h = FieldHead(f) /\ t = Text(f.name) /\ w = WriteUnit(f.unit)
  OBVIOUS
<1>3. /\ h \in Seq(Nat) /\ Len(h) = 3 /\ t \in Seq(Nat) /\ w \in Seq(Nat)
      /\ h \o t \in Seq(Nat) /\ WriteField(f) = (h \o t) \o w
  BY <1>2, FieldParts
<1>4. Len(h \o t) = Len(h) + Len(t) /\ Len(t) \in Nat /\ Len(w) \in Nat
  BY <1>3, ConcatProperties, LenProperties
<1>5. Holds(cells, at, (h \o t) \o w)
        <=> Holds(cells, at, h \o t) /\ Holds(cells, at + Len(h \o t), w)
  BY <1>3, HoldsJoined
<1>6. Holds(cells, at, h \o t) <=> Holds(cells, at, h) /\ Holds(cells, at + Len(h), t)
  BY <1>3, HoldsJoined
<1>7. at + Len(h \o t) = at + 3 + Len(t) /\ at + Len(h) = at + 3
  BY <1>1, <1>3, <1>4
<1>8. PICK n \in Nat : n = IF f.nullable THEN 1 ELSE 0
  OBVIOUS
<1>9. PICK tag \in Nat : tag = TagOf(f.kind)
  <2>1. TagOf(f.kind) \in 0..5
    BY FieldParts
  <2>2. TagOf(f.kind) \in Nat
    BY <2>1
  <2> QED
    BY <2>2
<1>10. f.id \in Nat /\ h = <<f.id, tag, n>>
  BY <1>2, <1>8, <1>9, FieldParts DEF FieldHead
<1>11. Holds(cells, at, h)
         <=> at + 2 <= Len(cells) /\ cells[at] = f.id /\ cells[at + 1] = tag /\ cells[at + 2] = n
  BY <1>10, HoldsTriple
<1>12. at + 3 + Len(t) + Len(w) = at + Len(WriteField(f))
  <2>1. Len((h \o t) \o w) = Len(h \o t) + Len(w)
    BY <1>3, ConcatProperties
  <2> QED
    BY <1>1, <1>3, <1>4, <2>1
<1> QED
  BY <1>2, <1>3, <1>5, <1>6, <1>7, <1>8, <1>9, <1>11, <1>12

LEMMA FieldRead ==
    ASSUME NEW cells \in Seq(Nat), NEW at, Position(at),
           NEW f, IsField(f), FieldFits(f), Holds(cells, at, WriteField(f))
    PROVE  ReadField(cells, at) = Read(at + Len(WriteField(f)), f)
<1>1. at \in Nat /\ Len(cells) \in Nat /\ MaxText \in Nat
  BY LenProperties, SchemaAssumption DEF Position
<1>2. PICK p : p = at + 3
  OBVIOUS
<1>3. PICK name : name = ReadText(cells, p, MaxText, TRUE)
  OBVIOUS
<1>4. PICK unit : unit = ReadUnit(cells, name.at)
  OBVIOUS
<1>5. /\ at + 2 <= Len(cells) /\ cells[at] = f.id /\ cells[at + 1] = TagOf(f.kind)
      /\ cells[at + 2] = IF f.nullable THEN 1 ELSE 0
      /\ Holds(cells, p, Text(f.name))
      /\ Holds(cells, p + Len(Text(f.name)), WriteUnit(f.unit))
      /\ p + Len(Text(f.name)) + Len(WriteUnit(f.unit)) = at + Len(WriteField(f))
  BY <1>2, FieldHeld
<1>6. Position(p)
  BY <1>1, <1>2 DEF Position
<1>7. /\ f.name \in Seq(Nat) /\ Utf8(f.name) /\ IsUnit(f.unit)
      /\ Len(f.name) <= MaxText /\ UnitFits(f.unit)
      /\ Len(Text(f.name)) \in Nat
  BY FieldParts, LenProperties DEF FieldFits
<1>8. name = Read(p + Len(Text(f.name)), f.name)
  BY <1>1, <1>3, <1>5, <1>6, <1>7, TextRead
<1>9. name.ok /\ name.at = p + Len(Text(f.name)) /\ name.got = f.name
  BY <1>8 DEF Read
<1>10. PICK q : q = name.at
  OBVIOUS
<1>11. Position(q) /\ q = p + Len(Text(f.name))
  <2>1. q = p + Len(Text(f.name))
    BY <1>9, <1>10
  <2> QED
    BY <1>6, <1>7, <2>1 DEF Position
<1>12. Holds(cells, q, WriteUnit(f.unit)) /\ unit = ReadUnit(cells, q)
  BY <1>4, <1>5, <1>10, <1>11
<1>13. unit = Read(q + Len(WriteUnit(f.unit)), f.unit)
  BY <1>7, <1>11, <1>12, UnitRead
<1>14. unit.ok /\ unit.at = q + Len(WriteUnit(f.unit)) /\ unit.got = f.unit
  BY <1>13 DEF Read
<1>15. /\ cells[at + 1] < 6 /\ cells[at + 2] \in {0, 1} /\ Kinds6[cells[at + 1] + 1] = f.kind
       /\ (cells[at + 2] = 1) = f.nullable
  <2>1. TagOf(f.kind) \in 0..5 /\ Kinds6[TagOf(f.kind) + 1] = f.kind /\ f.nullable \in BOOLEAN
    BY FieldParts
  <2>2. PICK c : c = cells[at + 2]
    OBVIOUS
  <2>3. c = IF f.nullable THEN 1 ELSE 0
    BY <1>5, <2>2
  <2>4. c \in {0, 1} /\ (c = 1 <=> f.nullable)
    BY <2>3
  <2>5. (c = 1) = f.nullable
    BY <2>1, <2>4
  <2>6. PICK tag \in 0..5 : tag = TagOf(f.kind)
    BY <2>1
  <2>7. cells[at + 1] = tag /\ tag < 6 /\ Kinds6[tag + 1] = f.kind
    <3>1. cells[at + 1] = TagOf(f.kind)
      BY <1>5, Zenon
    <3>2. Kinds6[tag + 1] = f.kind
      BY <2>1, <2>6, Zenon
    <3>3. tag < 6
      OBVIOUS
    <3> QED
      BY <2>6, <3>1, <3>2, <3>3, Zenon
  <2> QED
    BY <2>2, <2>4, <2>5, <2>7
<1>16. ReadField(cells, at) = Read(unit.at,
                [id |-> cells[at], name |-> name.got, kind |-> Kinds6[cells[at + 1] + 1],
                 nullable |-> cells[at + 2] = 1, unit |-> unit.got])
  BY <1>2, <1>3, <1>4, <1>5, <1>9, <1>14, <1>15 DEF ReadField
<1>17. f = [id |-> f.id, name |-> f.name, kind |-> f.kind,
            nullable |-> f.nullable, unit |-> f.unit]
  BY DEF IsField
<1>18. unit.at = at + Len(WriteField(f))
  BY <1>5, <1>11, <1>14
<1> QED
  BY <1>5, <1>9, <1>14, <1>15, <1>16, <1>17, <1>18

LEMMA FieldSound ==
    ASSUME NEW cells \in Seq(Nat), NEW at, Position(at),
           NEW r, r = ReadField(cells, at), r.ok
    PROVE  /\ IsField(r.got) /\ FieldFits(r.got) /\ Holds(cells, at, WriteField(r.got))
           /\ r.at = at + Len(WriteField(r.got)) /\ Position(r.at)
<1>1. at \in Nat /\ at # 0 /\ Len(cells) \in Nat /\ MaxText \in Nat
  BY LenProperties, SchemaAssumption DEF Position
<1>2. PICK p : p = at + 3
  OBVIOUS
<1>3. PICK name : name = ReadText(cells, p, MaxText, TRUE)
  OBVIOUS
<1>4. PICK q : q = name.at
  OBVIOUS
<1>5. PICK unit : unit = ReadUnit(cells, q)
  OBVIOUS
<1>6. PICK f : f = [id |-> cells[at], name |-> name.got, kind |-> Kinds6[cells[at + 1] + 1],
                    nullable |-> cells[at + 2] = 1, unit |-> unit.got]
  OBVIOUS
<1>7. /\ at + 2 <= Len(cells) /\ cells[at + 1] < 6 /\ cells[at + 2] \in {0, 1}
      /\ name.ok /\ unit.ok /\ r = Read(unit.at, f)
  <2>1. r = IF /\ at + 2 <= Len(cells)
               /\ cells[at + 1] < 6 /\ cells[at + 2] \in {0, 1}
               /\ name.ok /\ unit.ok
            THEN Read(unit.at, f) ELSE Bad
    BY <1>2, <1>3, <1>4, <1>5, <1>6 DEF ReadField
  <2>2. ~Bad.ok
    BY DEF Bad
  <2> QED
    BY <2>1, <2>2
<1>8. r.got = f /\ r.at = unit.at
  BY <1>7 DEF Read
<1>9. Position(p)
  BY <1>1, <1>2 DEF Position
<1>10. /\ name.got \in Seq(Nat) /\ Len(name.got) <= MaxText /\ Utf8(name.got)
       /\ Holds(cells, p, Text(name.got)) /\ name.at = p + Len(Text(name.got))
       /\ Position(name.at)
  BY <1>1, <1>3, <1>7, <1>9, TextSound
<1>11. /\ IsUnit(unit.got) /\ UnitFits(unit.got) /\ Holds(cells, q, WriteUnit(unit.got))
       /\ unit.at = q + Len(WriteUnit(unit.got)) /\ Position(unit.at)
  BY <1>4, <1>5, <1>7, <1>10, UnitSound
<1>12. PICK tag : tag = cells[at + 1]
  OBVIOUS
<1>13. cells[at] \in Nat /\ tag \in 0..5
  <2>1. at \in 1..Len(cells) /\ at + 1 \in 1..Len(cells)
    BY <1>1, <1>7
  <2>2. cells[at] \in Nat /\ cells[at + 1] \in Nat
    BY <2>1, ElementOfSeq
  <2>3. tag \in Nat /\ tag < 6
    BY <1>7, <1>12, <2>2
  <2>4. tag \in 0..5
    BY <2>3
  <2> QED
    BY <2>2, <2>4
<1>14. Kinds6[tag + 1] \in Range(Kinds6) /\ TagOf(Kinds6[tag + 1]) = tag
  <2>1. tag + 1 \in {1, 2, 3, 4, 5, 6} /\ (tag + 1) - 1 = tag
    BY <1>13
  <2>2. \A c \in {1, 2, 3, 4, 5, 6} : Kinds6[c] \in Range(Kinds6) /\ TagOf(Kinds6[c]) = c - 1
    BY KindFacts
  <2> QED
    BY <2>1, <2>2
<1>15. /\ f.id = cells[at] /\ f.name = name.got /\ f.kind = Kinds6[tag + 1]
       /\ f.nullable = (cells[at + 2] = 1) /\ f.unit = unit.got
       /\ f = [id |-> f.id, name |-> f.name, kind |-> f.kind,
               nullable |-> f.nullable, unit |-> f.unit]
  BY <1>6, <1>12
<1>16. IsField(f)
  BY <1>10, <1>11, <1>13, <1>14, <1>15 DEF IsField, IsUnit
<1>17. FieldFits(f)
  BY <1>10, <1>11, <1>15 DEF FieldFits
<1>18. cells[at + 1] = TagOf(f.kind) /\ cells[at + 2] = IF f.nullable THEN 1 ELSE 0
  BY <1>7, <1>12, <1>14, <1>15
<1>19. q = p + Len(Text(f.name)) /\ Holds(cells, p, Text(f.name))
  BY <1>4, <1>10, <1>15
<1>20. /\ Holds(cells, at, WriteField(f))
       /\ p + Len(Text(f.name)) + Len(WriteUnit(f.unit)) = at + Len(WriteField(f))
  BY <1>2, <1>7, <1>11, <1>15, <1>16, <1>18, <1>19, FieldHeld
<1>21. unit.at = at + Len(WriteField(f))
  BY <1>11, <1>15, <1>19, <1>20
<1> QED
  BY <1>8, <1>11, <1>16, <1>17, <1>20, <1>21

-----------------------------------------------------------------------------
(* Items one after the other.                                              *)

IsItem(what, x) == IF what = "schema" THEN IsField(x) ELSE IsUpdate(x)

ItemFits(what, x) == what = "schema" => FieldFits(x)

LEMMA ItemSizes ==
    ASSUME NEW what, NEW x, IsItem(what, x)
    PROVE  /\ x.id \in Nat /\ WriteItem(what, x) \in Seq(Nat) /\ ItemSize(what, x) \in Nat
           /\ Len(WriteItem(what, x)) = ItemSize(what, x)
<1>1. CASE what = "schema"
  BY <1>1, FieldSizes DEF IsItem, WriteItem, ItemSize
<1>2. CASE what # "schema"
  <2>1. ItemSize(what, x) = ItemSize("mutation", x)
    BY <1>2 DEF ItemSize
  <2> QED
    BY <1>2, <2>1, UpdateSizes DEF IsItem, WriteItem
<1> QED
  BY <1>1, <1>2

LEMMA ItemRead ==
    ASSUME NEW cells \in Seq(Nat), Len(cells) <= MaxPayload, NEW at, Position(at),
           NEW what, NEW x, IsItem(what, x), ItemFits(what, x),
           Holds(cells, at, WriteItem(what, x))
    PROVE  ReadItem(what, cells, at) = Read(at + Len(WriteItem(what, x)), x)
<1>1. CASE what = "schema"
  BY <1>1, FieldRead DEF IsItem, ItemFits, WriteItem, ReadItem
<1>2. CASE what # "schema"
  BY <1>2, UpdateRead DEF IsItem, WriteItem, ReadItem
<1> QED
  BY <1>1, <1>2

LEMMA ItemSound ==
    ASSUME NEW cells \in Seq(Nat), NEW at, Position(at),
           NEW what, NEW r, r = ReadItem(what, cells, at), r.ok
    PROVE  /\ IsItem(what, r.got) /\ ItemFits(what, r.got)
           /\ Holds(cells, at, WriteItem(what, r.got))
           /\ r.at = at + Len(WriteItem(what, r.got)) /\ Position(r.at)
<1>1. CASE what = "schema"
  BY <1>1, FieldSound DEF IsItem, ItemFits, WriteItem, ReadItem
<1>2. CASE what # "schema"
  BY <1>2, UpdateSound DEF IsItem, ItemFits, WriteItem, ReadItem
<1> QED
  BY <1>1, <1>2

WriteStep(what, items, i, f) ==
    IF i = 0 THEN <<>> ELSE f[i - 1] \o WriteItem(what, items[i])

IsWriting(what, items, n, f) == f = [i \in 0..n |-> WriteStep(what, items, i, f)]

LEMMA WritingExists ==
    ASSUME NEW what, NEW items, NEW m \in Nat
    PROVE  \E f : IsWriting(what, items, m, f)
<1> DEFINE T == {n \in Nat : \E f : IsWriting(what, items, n, f)}
<1>1. 0 \in T
  <2>1. PICK f : f = [i \in 0..0 |-> <<>>]
    OBVIOUS
  <2>2. \A i \in 0..0 : WriteStep(what, items, i, f) = <<>>
    BY DEF WriteStep
  <2>3. IsWriting(what, items, 0, f)
    BY <2>1, <2>2 DEF IsWriting
  <2> QED
    BY <2>3
<1>2. ASSUME NEW n \in Nat, n \in T PROVE n + 1 \in T
  <2>1. PICK w : IsWriting(what, items, n, w)
    BY <1>2
  <2>2. PICK v : v = [i \in 0..n + 1 |-> WriteStep(what, items, i, w)]
    OBVIOUS
  <2>3. ASSUME NEW i \in 0..n PROVE v[i] = w[i]
    BY <2>1, <2>2 DEF IsWriting
  <2>4. ASSUME NEW i \in 0..n + 1
        PROVE  WriteStep(what, items, i, w) = WriteStep(what, items, i, v)
    <3>1. i # 0 => v[i - 1] = w[i - 1]
      BY <2>3
    <3> QED
      BY <3>1 DEF WriteStep
  <2>5. [i \in 0..n + 1 |-> WriteStep(what, items, i, w)]
          = [i \in 0..n + 1 |-> WriteStep(what, items, i, v)]
    BY <2>4, Zenon
  <2>6. IsWriting(what, items, n + 1, v)
    BY <2>2, <2>5 DEF IsWriting
  <2> QED
    BY <2>6
<1> HIDE DEF T
<1>3. m \in T
  BY <1>1, <1>2, NaturalSet
<1> QED
  BY <1>3 DEF T

(* Out holds what is written of the first items, for each number of them.  *)
Written(what, items, out) ==
    /\ out[0] = <<>>
    /\ \A i \in 1..Len(items) : out[i] = out[i - 1] \o WriteItem(what, items[i])
    /\ WriteItems(what, items) = out[Len(items)]

LEMMA WrittenExists ==
    ASSUME NEW what, NEW items, Len(items) \in Nat
    PROVE  \E out : Written(what, items, out)
<1>1. PICK f : f = CHOOSE g : IsWriting(what, items, Len(items), g)
  OBVIOUS
<1>2. IsWriting(what, items, Len(items), f)
  BY <1>1, WritingExists
<1>3. WriteItems(what, items) = f[Len(items)]
  BY <1>1 DEF WriteItems, IsWriting, WriteStep
<1>4. \A i \in 0..Len(items) : f[i] = WriteStep(what, items, i, f)
  BY <1>2 DEF IsWriting
<1>5. f[0] = <<>>
  <2>1. 0 \in 0..Len(items)
    OBVIOUS
  <2> QED
    BY <1>4, <2>1 DEF WriteStep
<1>6. ASSUME NEW i \in 1..Len(items) PROVE f[i] = f[i - 1] \o WriteItem(what, items[i])
  <2>1. i \in 0..Len(items) /\ i # 0
    OBVIOUS
  <2> QED
    BY <1>4, <2>1 DEF WriteStep
<1> QED
  BY <1>3, <1>5, <1>6 DEF Written

SumStep(what, items, i, f) ==
    IF i = 0 THEN 0 ELSE f[i - 1] + ItemSize(what, items[i])

IsSumming(what, items, n, f) == f = [i \in 0..n |-> SumStep(what, items, i, f)]

LEMMA SummingExists ==
    ASSUME NEW what, NEW items, NEW m \in Nat
    PROVE  \E f : IsSumming(what, items, m, f)
<1> DEFINE T == {n \in Nat : \E f : IsSumming(what, items, n, f)}
<1>1. 0 \in T
  <2>1. PICK f : f = [i \in 0..0 |-> 0]
    OBVIOUS
  <2>2. \A i \in 0..0 : SumStep(what, items, i, f) = 0
    BY DEF SumStep
  <2>3. IsSumming(what, items, 0, f)
    BY <2>1, <2>2 DEF IsSumming
  <2> QED
    BY <2>3
<1>2. ASSUME NEW n \in Nat, n \in T PROVE n + 1 \in T
  <2>1. PICK w : IsSumming(what, items, n, w)
    BY <1>2
  <2>2. PICK v : v = [i \in 0..n + 1 |-> SumStep(what, items, i, w)]
    OBVIOUS
  <2>3. ASSUME NEW i \in 0..n PROVE v[i] = w[i]
    BY <2>1, <2>2 DEF IsSumming
  <2>4. ASSUME NEW i \in 0..n + 1
        PROVE  SumStep(what, items, i, w) = SumStep(what, items, i, v)
    <3>1. i # 0 => v[i - 1] = w[i - 1]
      BY <2>3
    <3> QED
      BY <3>1 DEF SumStep
  <2>5. [i \in 0..n + 1 |-> SumStep(what, items, i, w)]
          = [i \in 0..n + 1 |-> SumStep(what, items, i, v)]
    BY <2>4, Zenon
  <2>6. IsSumming(what, items, n + 1, v)
    BY <2>2, <2>5 DEF IsSumming
  <2> QED
    BY <2>6
<1> HIDE DEF T
<1>3. m \in T
  BY <1>1, <1>2, NaturalSet
<1> QED
  BY <1>3 DEF T

(* Sum holds the size of the first items, for each number of them.         *)
Summed(what, items, sum) ==
    /\ sum[0] = 0
    /\ \A i \in 1..Len(items) : sum[i] = sum[i - 1] + ItemSize(what, items[i])
    /\ ItemsSize(what, items) = sum[Len(items)]

LEMMA SummedExists ==
    ASSUME NEW what, NEW items, Len(items) \in Nat
    PROVE  \E sum : Summed(what, items, sum)
<1>1. PICK f : f = CHOOSE g : IsSumming(what, items, Len(items), g)
  OBVIOUS
<1>2. IsSumming(what, items, Len(items), f)
  BY <1>1, SummingExists
<1>3. ItemsSize(what, items) = f[Len(items)]
  BY <1>1 DEF ItemsSize, IsSumming, SumStep
<1>4. \A i \in 0..Len(items) : f[i] = SumStep(what, items, i, f)
  BY <1>2 DEF IsSumming
<1>5. f[0] = 0
  <2>1. 0 \in 0..Len(items)
    OBVIOUS
  <2> QED
    BY <1>4, <2>1 DEF SumStep
<1>6. ASSUME NEW i \in 1..Len(items) PROVE f[i] = f[i - 1] + ItemSize(what, items[i])
  <2>1. i \in 0..Len(items) /\ i # 0
    OBVIOUS
  <2> QED
    BY <1>4, <2>1 DEF SumStep
<1> QED
  BY <1>3, <1>5, <1>6 DEF Summed

ReadStep(what, cells, at, i, f) ==
    IF i = 0 THEN Read(at, <<>>) ELSE ReadOn(what, cells, f[i - 1])

IsReading(what, cells, at, n, f) == f = [i \in 0..n |-> ReadStep(what, cells, at, i, f)]

LEMMA ReadingExists ==
    ASSUME NEW what, NEW cells, NEW at, NEW m \in Nat
    PROVE  \E f : IsReading(what, cells, at, m, f)
<1> DEFINE T == {n \in Nat : \E f : IsReading(what, cells, at, n, f)}
<1>1. 0 \in T
  <2>1. PICK f : f = [i \in 0..0 |-> Read(at, <<>>)]
    OBVIOUS
  <2>2. \A i \in 0..0 : ReadStep(what, cells, at, i, f) = Read(at, <<>>)
    BY DEF ReadStep
  <2>3. IsReading(what, cells, at, 0, f)
    BY <2>1, <2>2 DEF IsReading
  <2> QED
    BY <2>3
<1>2. ASSUME NEW n \in Nat, n \in T PROVE n + 1 \in T
  <2>1. PICK w : IsReading(what, cells, at, n, w)
    BY <1>2
  <2>2. PICK v : v = [i \in 0..n + 1 |-> ReadStep(what, cells, at, i, w)]
    OBVIOUS
  <2>3. ASSUME NEW i \in 0..n PROVE v[i] = w[i]
    BY <2>1, <2>2 DEF IsReading
  <2>4. ASSUME NEW i \in 0..n + 1
        PROVE  ReadStep(what, cells, at, i, w) = ReadStep(what, cells, at, i, v)
    <3>1. i # 0 => v[i - 1] = w[i - 1]
      BY <2>3
    <3> QED
      BY <3>1 DEF ReadStep
  <2>5. [i \in 0..n + 1 |-> ReadStep(what, cells, at, i, w)]
          = [i \in 0..n + 1 |-> ReadStep(what, cells, at, i, v)]
    BY <2>4, Zenon
  <2>6. IsReading(what, cells, at, n + 1, v)
    BY <2>2, <2>5 DEF IsReading
  <2> QED
    BY <2>6
<1> HIDE DEF T
<1>3. m \in T
  BY <1>1, <1>2, NaturalSet
<1> QED
  BY <1>3 DEF T

(* In holds the reader after each number of items.                         *)
Reads(what, cells, at, n, in) ==
    /\ in[0] = Read(at, <<>>)
    /\ \A i \in 1..n : in[i] = ReadOn(what, cells, in[i - 1])
    /\ ReadItems(what, cells, at, n) = in[n]

LEMMA ReadsExists ==
    ASSUME NEW what, NEW cells, NEW at, NEW n \in Nat
    PROVE  \E in : Reads(what, cells, at, n, in)
<1>1. PICK f : f = CHOOSE g : IsReading(what, cells, at, n, g)
  OBVIOUS
<1>2. IsReading(what, cells, at, n, f)
  BY <1>1, ReadingExists
<1>3. ReadItems(what, cells, at, n) = f[n]
  BY <1>1 DEF ReadItems, IsReading, ReadStep
<1>4. \A i \in 0..n : f[i] = ReadStep(what, cells, at, i, f)
  BY <1>2 DEF IsReading
<1>5. f[0] = Read(at, <<>>)
  <2>1. 0 \in 0..n
    OBVIOUS
  <2> QED
    BY <1>4, <2>1 DEF ReadStep
<1>6. ASSUME NEW i \in 1..n PROVE f[i] = ReadOn(what, cells, f[i - 1])
  <2>1. i \in 0..n /\ i # 0
    OBVIOUS
  <2> QED
    BY <1>4, <2>1 DEF ReadStep
<1> QED
  BY <1>3, <1>5, <1>6 DEF Reads

LEMMA ItemsSizes ==
    ASSUME NEW what, NEW S, NEW items \in Seq(S), \A x \in S : IsItem(what, x),
           NEW out, Written(what, items, out)
    PROVE  /\ \A i \in 0..Len(items) : out[i] \in Seq(Nat)
           /\ WriteItems(what, items) \in Seq(Nat) /\ ItemsSize(what, items) \in Nat
           /\ Len(WriteItems(what, items)) = ItemsSize(what, items)
<1>1. PICK n \in Nat : n = Len(items)
  BY LenProperties
<1>2. PICK sum : Summed(what, items, sum)
  BY LenProperties, SummedExists
<1>3. ASSUME NEW i \in 1..n
      PROVE  /\ WriteItem(what, items[i]) \in Seq(Nat) /\ ItemSize(what, items[i]) \in Nat
             /\ Len(WriteItem(what, items[i])) = ItemSize(what, items[i])
  <2>1. items[i] \in S
    BY <1>1, ElementOfSeq
  <2> QED
    BY <2>1, ItemSizes
<1> DEFINE T == {i \in Nat : i <= n => /\ out[i] \in Seq(Nat) /\ sum[i] \in Nat
                                       /\ Len(out[i]) = sum[i]}
<1>4. 0 \in T
  <2>1. PICK e : e = <<>>
    OBVIOUS
  <2>2. e \in Seq(Nat) /\ Len(e) = 0
    BY <2>1
  <2>3. PICK z \in Nat : z = 0
    OBVIOUS
  <2>4. out[z] = e /\ sum[z] = z
    BY <1>2, <2>1, <2>3 DEF Written, Summed
  <2>5. z \in T
    BY <2>2, <2>3, <2>4
  <2> QED
    BY <2>3, <2>5
<1>5. ASSUME NEW i \in Nat, i \in T PROVE i + 1 \in T
  <2> SUFFICES ASSUME i + 1 <= n
               PROVE  /\ out[i + 1] \in Seq(Nat) /\ sum[i + 1] \in Nat
                      /\ Len(out[i + 1]) = sum[i + 1]
    OBVIOUS
  <2>1. i + 1 \in 1..n /\ (i + 1) - 1 = i
    OBVIOUS
  <2>2. out[i] \in Seq(Nat) /\ sum[i] \in Nat /\ Len(out[i]) = sum[i]
    BY <1>5
  <2>3. PICK w, z : w = WriteItem(what, items[i + 1]) /\ z = ItemSize(what, items[i + 1])
    OBVIOUS
  <2>4. w \in Seq(Nat) /\ z \in Nat /\ Len(w) = z
    BY <1>3, <2>1, <2>3
  <2>5. out[i + 1] = out[i] \o w /\ sum[i + 1] = sum[i] + z
    BY <1>1, <1>2, <2>1, <2>3 DEF Written, Summed
  <2>6. out[i] \o w \in Seq(Nat) /\ Len(out[i] \o w) = Len(out[i]) + Len(w)
    BY <2>2, <2>4, ConcatProperties
  <2> QED
    BY <2>2, <2>4, <2>5, <2>6
<1> HIDE DEF T
<1>6. \A i \in Nat : i \in T
  BY <1>4, <1>5, NaturalSet
<1>7. \A i \in 0..n : out[i] \in Seq(Nat) /\ sum[i] \in Nat /\ Len(out[i]) = sum[i]
  BY <1>6 DEF T
<1>8. n \in 0..n
  OBVIOUS
<1> QED
  BY <1>1, <1>2, <1>7, <1>8 DEF Written, Summed

(* The first items of a list.                                              *)
Prefix(g, items, i) == Len(g) = i /\ \A j \in 1..i : g[j] = items[j]

LEMMA InOrderRising ==
    ASSUME NEW S, NEW items \in Seq(S), NEW g \in Seq(S), NEW i \in Nat,
           Rising(items), Prefix(g, items, i), i + 1 <= Len(items)
    PROVE  InOrder(g, items[i + 1].id)
<1>1. SUFFICES ASSUME g # <<>> PROVE Last(g).id < items[i + 1].id
  BY DEF InOrder
<1>2. Len(g) = i /\ i # 0
  BY <1>1, EmptySeq DEF Prefix
<1>3. Last(g) = items[i]
  BY <1>2 DEF Last, Prefix
<1>4. i \in 1..Len(items) /\ i + 1 \in 1..Len(items) /\ i < i + 1
  BY <1>2, LenProperties
<1> QED
  BY <1>3, <1>4 DEF Rising

(* What is written is read back, whole and in order.                       *)
LEMMA ReadsAll ==
    ASSUME NEW cells \in Seq(Nat), Len(cells) <= MaxPayload, NEW at, Position(at),
           NEW what, NEW S, NEW items \in Seq(S),
           \A x \in S : IsItem(what, x) /\ ItemFits(what, x),
           Rising(items), Holds(cells, at, WriteItems(what, items))
    PROVE  ReadItems(what, cells, at, Len(items))
             = Read(at + Len(WriteItems(what, items)), items)
<1>1. PICK n \in Nat : n = Len(items)
  BY LenProperties
<1>2. PICK out : Written(what, items, out)
  BY LenProperties, WrittenExists
<1>3. PICK in : Reads(what, cells, at, n, in)
  BY ReadsExists
<1>4. \A i \in 0..n : out[i] \in Seq(Nat)
  BY <1>1, <1>2, ItemsSizes
<1>5. ASSUME NEW i \in 1..n
      PROVE  /\ items[i] \in S
             /\ WriteItem(what, items[i]) \in Seq(Nat)
             /\ out[i] = out[i - 1] \o WriteItem(what, items[i])
             /\ i - 1 \in 0..n /\ out[i - 1] \in Seq(Nat)
  <2>1. items[i] \in S
    BY <1>1, ElementOfSeq
  <2>2. i - 1 \in 0..n
    OBVIOUS
  <2> QED
    BY <1>1, <1>2, <1>4, <2>1, <2>2, ItemSizes DEF Written
<1> DEFINE D == {k \in Nat : k <= n => Holds(cells, at, out[n - k])}
<1>6. 0 \in D
  <2>1. n - 0 = n
    OBVIOUS
  <2> QED
    BY <1>1, <1>2, <2>1 DEF Written
<1>7. ASSUME NEW k \in Nat, k \in D PROVE k + 1 \in D
  <2> SUFFICES ASSUME k + 1 <= n PROVE Holds(cells, at, out[n - (k + 1)])
    OBVIOUS
  <2>1. PICK i : i = n - k
    OBVIOUS
  <2>2. i \in 1..n /\ n - (k + 1) = i - 1
    BY <2>1
  <2>3. Holds(cells, at, out[i])
    BY <1>7, <2>1
  <2>4. Holds(cells, at, out[i - 1])
    <3>1. PICK o, w : o = out[i - 1] /\ w = WriteItem(what, items[i])
      OBVIOUS
    <3>2. o \in Seq(Nat) /\ w \in Seq(Nat) /\ out[i] = o \o w
      BY <1>5, <2>2, <3>1
    <3>3. Holds(cells, at, o \o w)
      BY <2>3, <3>2
    <3> QED
      BY <3>1, <3>2, <3>3, HoldsJoined
  <2> QED
    BY <2>2, <2>4
<1> HIDE DEF D
<1>8. \A k \in Nat : k \in D
  BY <1>6, <1>7, NaturalSet
<1>9. ASSUME NEW i \in 0..n PROVE Holds(cells, at, out[i])
  <2>1. n - i \in Nat /\ n - i <= n /\ n - (n - i) = i
    OBVIOUS
  <2> QED
    BY <1>8, <2>1 DEF D
<1> DEFINE After(i) == \E g \in Seq(S) : Prefix(g, items, i) /\ in[i] = Read(at + Len(out[i]), g)
           T == {i \in Nat : i <= n => After(i)}
<1>10. 0 \in T
  <2>1. PICK g : g = <<>>
    OBVIOUS
  <2>2. g \in Seq(S) /\ Len(g) = 0
    BY <2>1
  <2>3. Prefix(g, items, 0)
    BY <2>2 DEF Prefix
  <2>4. at + Len(out[0]) = at
    <3>1. out[0] = g
      BY <1>2, <2>1 DEF Written
    <3>2. at \in Nat
      BY DEF Position
    <3> QED
      BY <2>2, <3>1, <3>2
  <2>5. in[0] = Read(at + Len(out[0]), g)
    BY <1>3, <2>1, <2>4 DEF Reads
  <2> QED
    BY <2>2, <2>3, <2>5
<1>11. ASSUME NEW i \in Nat, i \in T PROVE i + 1 \in T
  <2> SUFFICES ASSUME i + 1 <= n PROVE After(i + 1)
    OBVIOUS
  <2>1. PICK g \in Seq(S) : Prefix(g, items, i) /\ in[i] = Read(at + Len(out[i]), g)
    BY <1>11
  <2>2. i + 1 \in 1..n /\ (i + 1) - 1 = i /\ i \in 0..n /\ i + 1 \in 0..n
    OBVIOUS
  <2>3. PICK x, w, p : x = items[i + 1] /\ w = WriteItem(what, x) /\ p = at + Len(out[i])
    OBVIOUS
  <2>4. x \in S /\ w \in Seq(Nat) /\ out[i + 1] = out[i] \o w /\ out[i] \in Seq(Nat)
    BY <1>5, <2>2, <2>3
  <2>5. Holds(cells, at, out[i] \o w)
    BY <1>9, <2>2, <2>4
  <2>6. Holds(cells, p, w)
    BY <2>3, <2>4, <2>5, HoldsJoined
  <2>7. at \in Nat /\ at # 0 /\ Len(out[i]) \in Nat /\ Len(w) \in Nat
        /\ Len(out[i + 1]) = Len(out[i]) + Len(w)
    <3>1. Len(out[i] \o w) = Len(out[i]) + Len(w)
      BY <2>4, ConcatProperties
    <3> QED
      BY <2>4, <3>1, LenProperties DEF Position
  <2>8. Position(p)
    BY <2>3, <2>7 DEF Position
  <2>9. PICK item : item = ReadItem(what, cells, p)
    OBVIOUS
  <2>10. item = Read(p + Len(w), x)
    BY <2>3, <2>4, <2>6, <2>8, <2>9, ItemRead
  <2>11. item.ok /\ item.at = p + Len(w) /\ item.got = x
    BY <2>10 DEF Read
  <2>12. InOrder(g, x.id)
    BY <1>1, <2>1, <2>3, InOrderRising
  <2>13. in[i].ok /\ in[i].at = p /\ in[i].got = g
    BY <2>1, <2>3 DEF Read
  <2>14. in[i + 1] = ReadOn(what, cells, in[i])
    BY <1>3, <2>2 DEF Reads
  <2>15. in[i + 1] = Read(item.at, Append(g, x))
    BY <2>9, <2>11, <2>12, <2>13, <2>14 DEF ReadOn
  <2>16. item.at = at + Len(out[i + 1])
    <3>1. PICK l \in Nat, m \in Nat : l = Len(out[i]) /\ m = Len(w)
      BY <2>7
    <3>2. item.at = p + m /\ p = at + l /\ Len(out[i + 1]) = l + m
      BY <2>3, <2>7, <2>11, <3>1
    <3>3. PICK k \in Nat : k = at
      BY <2>7
    <3>4. item.at = k + l + m
      BY <3>2, <3>3
    <3> QED
      BY <3>2, <3>3, <3>4
  <2>17. Append(g, x) \in Seq(S) /\ Prefix(Append(g, x), items, i + 1)
    <3>1. PICK h : h = Append(g, x)
      OBVIOUS
    <3>2. /\ h \in Seq(S) /\ Len(h) = Len(g) + 1 /\ h[Len(g) + 1] = x
          /\ \A j \in 1..Len(g) : h[j] = g[j]
      BY <2>4, <3>1, AppendProperties
    <3>3. Len(g) = i /\ \A j \in 1..i : g[j] = items[j]
      BY <2>1 DEF Prefix
    <3>4. ASSUME NEW j \in 1..i + 1 PROVE h[j] = items[j]
      <4>1. j \in 1..i \/ j = i + 1
        OBVIOUS
      <4> QED
        BY <2>3, <3>2, <3>3, <4>1
    <3> QED
      BY <3>1, <3>2, <3>3, <3>4 DEF Prefix
  <2> QED
    BY <2>15, <2>16, <2>17
<1> HIDE DEF T
<1>12. n \in T
  BY <1>10, <1>11, NaturalSet
<1>13. PICK g \in Seq(S) : Prefix(g, items, n) /\ in[n] = Read(at + Len(out[n]), g)
  BY <1>12 DEF T
<1>14. g = items
  BY <1>1, <1>13, SeqEqual DEF Prefix
<1> QED
  BY <1>1, <1>2, <1>3, <1>13, <1>14 DEF Reads, Written

LEMMA RisingAppend ==
    ASSUME NEW S, \A x \in S : x.id \in Nat, NEW g \in Seq(S), NEW x \in S,
           Rising(g), InOrder(g, x.id)
    PROVE  Rising(Append(g, x))
<1>1. PICK h : h = Append(g, x)
  OBVIOUS
<1>2. /\ h \in Seq(S) /\ Len(g) \in Nat /\ Len(h) = Len(g) + 1 /\ h[Len(g) + 1] = x
      /\ \A j \in 1..Len(g) : h[j] = g[j]
  BY <1>1, AppendProperties, LenProperties
<1>3. ASSUME NEW j \in 1..Len(g) PROVE g[j].id < x.id
  <2>1. g # <<>> /\ Len(g) \in 1..Len(g)
    BY <1>2, EmptySeq
  <2>2. g[Len(g)].id < x.id
    BY <2>1 DEF InOrder, Last
  <2>3. g[j].id \in Nat /\ g[Len(g)].id \in Nat /\ x.id \in Nat
    BY <2>1, ElementOfSeq
  <2>4. j = Len(g) \/ j < Len(g)
    BY <1>2
  <2>5. CASE j = Len(g)
    BY <2>2, <2>5
  <2>6. CASE j < Len(g)
    <3>1. g[j].id < g[Len(g)].id
      BY <2>1, <2>6 DEF Rising
    <3> QED
      BY <2>2, <2>3, <3>1
  <2> QED
    BY <2>4, <2>5, <2>6
<1>4. SUFFICES ASSUME NEW j \in 1..Len(h), NEW k \in 1..Len(h), j < k
               PROVE  h[j].id < h[k].id
  BY <1>1 DEF Rising
<1>5. j \in 1..Len(g)
  BY <1>2, <1>4
<1>6. CASE k = Len(g) + 1
  BY <1>2, <1>3, <1>5, <1>6
<1>7. CASE k # Len(g) + 1
  <2>1. k \in 1..Len(g)
    BY <1>2, <1>7
  <2>2. g[j].id < g[k].id
    BY <1>4, <1>5, <2>1 DEF Rising
  <2> QED
    BY <1>2, <1>5, <2>1, <2>2
<1> QED
  BY <1>6, <1>7

(* A reader has read n items, and they are what the cells hold.            *)
HasRead(what, cells, at, n, r) ==
    \E S : /\ \A x \in S : IsItem(what, x) /\ ItemFits(what, x) /\ x.id \in Nat
          /\ r.got \in Seq(S) /\ Len(r.got) = n /\ Rising(r.got)
          /\ Holds(cells, at, WriteItems(what, r.got))
          /\ r.at = at + Len(WriteItems(what, r.got))

(* What was read is, piece by piece, what would be written.                *)
LEMMA ReadsSound ==
    ASSUME NEW cells \in Seq(Nat), NEW at, Position(at), at <= Len(cells) + 1,
           NEW what, NEW n \in Nat,
           NEW r, r = ReadItems(what, cells, at, n), r.ok
    PROVE  HasRead(what, cells, at, n, r)
<1>1. PICK in : Reads(what, cells, at, n, in)
  BY ReadsExists
<1>2. PICK item : item = [j \in 1..n |-> ReadItem(what, cells, in[j - 1].at)]
  OBVIOUS
<1>3. PICK S : S = {x \in {item[j].got : j \in 1..n} : IsItem(what, x) /\ ItemFits(what, x)}
  OBVIOUS
<1>4. \A x \in S : IsItem(what, x) /\ ItemFits(what, x) /\ x.id \in Nat
  BY <1>3, ItemSizes
<1> DEFINE ReadAt(i, j) == /\ in[j - 1].ok /\ Position(in[j - 1].at)
                           /\ item[j].ok /\ in[i].got[j] = item[j].got /\ in[j].at = item[j].at
           Good(i) == /\ in[i].got \in Seq(S) /\ Len(in[i].got) = i /\ Rising(in[i].got)
                      /\ Position(in[i].at)
                      /\ \A j \in 1..i : ReadAt(i, j)
           T == {i \in Nat : i <= n /\ in[i].ok => Good(i)}
<1>5. 0 \in T
  <2>0. PICK z \in Nat : z = 0
    OBVIOUS
  <2>1. PICK e : e = <<>> /\ z = 0
    BY <2>0
  <2>2. e \in Seq(S) /\ Len(e) = z
    BY <2>1
  <2>3. in[z] = Read(at, e)
    BY <1>1, <2>1 DEF Reads
  <2>4. in[z].got = e /\ in[z].at = at
    BY <2>3 DEF Read
  <2>5. 1..z = {}
    BY <2>1
  <2>6. Rising(e)
    BY <2>2, <2>5 DEF Rising
  <2>7. Good(z)
    BY <2>2, <2>4, <2>5, <2>6
  <2> HIDE DEF Good
  <2> QED
    BY <2>1, <2>7
<1>6. ASSUME NEW i \in Nat, i \in T PROVE i + 1 \in T
  <2> SUFFICES ASSUME i + 1 <= n, in[i + 1].ok PROVE Good(i + 1)
    OBVIOUS
  <2>1. i + 1 \in 1..n /\ (i + 1) - 1 = i /\ i <= n
    OBVIOUS
  <2>2. PICK x : x = item[i + 1]
    OBVIOUS
  <2>3. x = ReadItem(what, cells, in[i].at)
    BY <1>2, <2>1, <2>2
  <2>4. in[i + 1] = IF in[i].ok /\ x.ok /\ InOrder(in[i].got, x.got.id)
                    THEN Read(x.at, Append(in[i].got, x.got)) ELSE Bad
    BY <1>1, <2>1, <2>3 DEF Reads, ReadOn
  <2>5. ~Bad.ok
    BY DEF Bad
  <2>6. /\ in[i].ok /\ x.ok /\ InOrder(in[i].got, x.got.id)
        /\ in[i + 1] = Read(x.at, Append(in[i].got, x.got))
    BY <2>4, <2>5
  <2>7. Good(i)
    BY <1>6, <2>1, <2>6
  <2>8. PICK g : g = in[i].got
    OBVIOUS
  <2>9. PICK h : h = Append(g, x.got)
    OBVIOUS
  <2>10. in[i + 1].got = h /\ in[i + 1].at = x.at
    BY <2>6, <2>8, <2>9 DEF Read
  <2>11. IsItem(what, x.got) /\ ItemFits(what, x.got) /\ Position(x.at)
    BY <2>3, <2>6, <2>7, ItemSound
  <2>12. x.got \in S
    BY <1>3, <2>1, <2>2, <2>11
  <2>13. g \in Seq(S) /\ Len(g) = i /\ Rising(g)
    BY <2>7, <2>8
  <2>14. /\ h \in Seq(S) /\ Len(h) = i + 1 /\ h[i + 1] = x.got
         /\ \A j \in 1..i : h[j] = g[j]
    BY <2>9, <2>12, <2>13, AppendProperties
  <2>15. Rising(h)
    BY <1>4, <2>6, <2>8, <2>9, <2>12, <2>13, RisingAppend
  <2>16. ASSUME NEW j \in 1..i + 1 PROVE ReadAt(i + 1, j)
    <3>1. CASE j = i + 1
      BY <2>1, <2>2, <2>6, <2>7, <2>10, <2>14, <3>1
    <3>2. CASE j # i + 1
      <4>1. j \in 1..i
        BY <3>2
      <4>2. ReadAt(i, j)
        BY <2>7, <4>1
      <4> QED
        BY <2>8, <2>10, <2>14, <4>1, <4>2
    <3> QED
      BY <3>1, <3>2
  <2>17. in[i + 1].got \in Seq(S) /\ Len(in[i + 1].got) = i + 1 /\ Rising(in[i + 1].got)
         /\ Position(in[i + 1].at)
    BY <2>10, <2>11, <2>14, <2>15
  <2> HIDE DEF ReadAt
  <2> QED
    BY <2>16, <2>17
<1> HIDE DEF T, Good
<1>7. n \in T
  BY <1>5, <1>6, NaturalSet
<1>8. r = in[n]
  BY <1>1 DEF Reads
<1>9. Good(n)
  BY <1>7, <1>8 DEF T
<1>10. PICK items : items = r.got
  OBVIOUS
<1>11. /\ items \in Seq(S) /\ Len(items) = n /\ Rising(items)
       /\ \A j \in 1..n : /\ in[j - 1].ok /\ Position(in[j - 1].at)
                          /\ item[j].ok /\ items[j] = item[j].got /\ in[j].at = item[j].at
  BY <1>8, <1>9, <1>10 DEF Good
<1>12. PICK out : Written(what, items, out)
  BY <1>11, WrittenExists
<1>13. /\ \A i \in 0..n : out[i] \in Seq(Nat)
       /\ WriteItems(what, items) = out[n]
  BY <1>4, <1>11, <1>12, ItemsSizes DEF Written
<1> DEFINE Q == {i \in Nat : i <= n => Holds(cells, at, out[i]) /\ in[i].at = at + Len(out[i])}
<1>14. 0 \in Q
  <2>0. PICK z \in Nat : z = 0
    OBVIOUS
  <2>1. PICK e : e = <<>> /\ z = 0
    BY <2>0
  <2>2. Len(e) = z /\ at \in Nat
    BY <2>1 DEF Position
  <2>3. out[z] = e /\ in[z] = Read(at, e)
    BY <1>1, <1>12, <2>1 DEF Written, Reads
  <2>4. in[z].at = at
    BY <2>3 DEF Read
  <2>5. Holds(cells, at, e)
    BY <2>1, HoldsNone
  <2>6. at + Len(e) = at
    BY <2>1, <2>2
  <2> QED
    BY <2>1, <2>3, <2>4, <2>5, <2>6
<1>15. ASSUME NEW i \in Nat, i \in Q PROVE i + 1 \in Q
  <2> SUFFICES ASSUME i + 1 <= n
               PROVE  Holds(cells, at, out[i + 1]) /\ in[i + 1].at = at + Len(out[i + 1])
    OBVIOUS
  <2>1. i + 1 \in 1..n /\ (i + 1) - 1 = i /\ i <= n /\ i \in 0..n
    OBVIOUS
  <2>2. PICK x, w, p : x = item[i + 1] /\ w = WriteItem(what, items[i + 1]) /\ p = in[i].at
    OBVIOUS
  <2>3. x = ReadItem(what, cells, p)
    BY <1>2, <2>1, <2>2
  <2>4. Position(p) /\ x.ok /\ items[i + 1] = x.got /\ in[i + 1].at = x.at
    BY <1>11, <2>1, <2>2
  <2>5. Holds(cells, p, w) /\ x.at = p + Len(w)
    BY <2>2, <2>3, <2>4, ItemSound
  <2>6. w \in Seq(Nat)
    <3>1. items[i + 1] \in S
      BY <1>11, <2>1, ElementOfSeq
    <3> QED
      BY <1>4, <2>2, <3>1, ItemSizes
  <2>7. PICK o \in Seq(Nat) : o = out[i]
    BY <1>13, <2>1
  <2>8. out[i + 1] = o \o w
    BY <1>11, <1>12, <2>1, <2>2, <2>7 DEF Written
  <2>9. Holds(cells, at, o) /\ p = at + Len(o)
    BY <1>15, <2>1, <2>2, <2>7
  <2>10. Holds(cells, at, o \o w)
    BY <2>5, <2>6, <2>7, <2>9, HoldsJoined
  <2>11. Len(o \o w) = Len(o) + Len(w) /\ Len(o) \in Nat /\ Len(w) \in Nat
    BY <2>6, <2>7, ConcatProperties, LenProperties
  <2>12. x.at = at + Len(o \o w)
    <3>1. PICK k \in Nat, l \in Nat, m \in Nat : k = at /\ l = Len(o) /\ m = Len(w)
      BY <2>11 DEF Position
    <3>2. x.at = (k + l) + m
      BY <2>5, <2>9, <3>1
    <3>3. Len(o \o w) = l + m
      BY <2>11, <3>1
    <3>4. (k + l) + m = k + (l + m)
      OBVIOUS
    <3> QED
      BY <3>1, <3>2, <3>3, <3>4
  <2> QED
    BY <2>4, <2>8, <2>10, <2>12
<1> HIDE DEF Q
<1>16. n \in Q
  BY <1>14, <1>15, NaturalSet
<1>17. Holds(cells, at, WriteItems(what, items)) /\ r.at = at + Len(WriteItems(what, items))
  BY <1>8, <1>13, <1>16 DEF Q
<1> QED
  BY <1>4, <1>10, <1>11, <1>17 DEF HasRead

-----------------------------------------------------------------------------
(* Mutations.                                                              *)

LEMMA ShapeFacts ==
    ASSUME NEW S, NEW s \in Seq(S)
    PROVE  ValidShape(s) <=> s # <<>> /\ Len(s) <= MaxFields /\ Apart(s)
<1>1. DOMAIN s = 1..Len(s)
  BY LenProperties
<1>2. Distinct(s, LAMBDA u : u.id) <=> Apart(s)
  BY <1>1 DEF Distinct, Apart
<1> QED
  BY <1>2 DEF ValidShape

(* Whatever cells it is given, what decode_mutation returns has those      *)
(* cells as its only encoding, and mutation_encoded_size is their number.  *)
THEOREM DecodedMutationIsCanonical ==
    ASSUME NEW cells \in Seq(Nat), NEW m \in DecodeMutation(cells)
    PROVE  EncodeMutation(m) = cells /\ MutationSize(m) = Some(Len(cells))
<1>1. PICK n : n = cells[3]
  OBVIOUS
<1>2. PICK r : r = ReadItems("mutation", cells, 4, n)
  OBVIOUS
<1>3. DecodeMutation(cells) =
        IF Len(cells) \notin 2..MaxPayload \/ cells[1] # 1 THEN None
        ELSE IF cells[2] = 0 THEN (IF Len(cells) = 2 THEN Some(Delete) ELSE None)
        ELSE IF /\ cells[2] = 1 /\ Len(cells) > 2
                /\ n \in 1..MaxFields
                /\ r.ok /\ r.at = Len(cells) + 1
        THEN Some(Upsert(r.got))
        ELSE None
  BY <1>1, <1>2 DEF DecodeMutation
<1>4. m \notin None
  BY DEF None
<1>5. /\ Len(cells) \in 2..MaxPayload /\ cells[1] = 1
      /\ \/ cells[2] = 0 /\ Len(cells) = 2 /\ m = Delete
         \/ /\ cells[2] = 1 /\ Len(cells) > 2 /\ n \in 1..MaxFields
            /\ r.ok /\ r.at = Len(cells) + 1 /\ m = Upsert(r.got)
  BY <1>3, <1>4 DEF Some
<1>6. Len(cells) \in Nat /\ MaxFields \in Nat /\ Position(1) /\ Position(4)
  BY LenProperties, SchemaAssumption DEF Position
<1>7. CASE cells[2] = 0 /\ Len(cells) = 2 /\ m = Delete
  <2>1. m.op = "delete"
    BY <1>7 DEF Delete
  <2>2. PICK a \in Nat, b \in Nat : a = 1 /\ b = 0
    OBVIOUS
  <2>3. PICK s : s = <<a, b>>
    OBVIOUS
  <2>4. s \in Seq(Nat) /\ Len(s) = 2 /\ s[1] = a /\ s[2] = b
    BY <2>3
  <2>5. \A i \in 1..2 : cells[i] = s[i]
    <3>1. 1..2 = {1, 2}
      OBVIOUS
    <3> QED
      BY <1>5, <1>7, <2>2, <2>4, <3>1
  <2>6. cells = s
    BY <1>7, <2>4, <2>5, SeqEqual
  <2> QED
    BY <1>7, <2>1, <2>2, <2>3, <2>6 DEF EncodeMutation, MutationSize
<1>8. CASE /\ cells[2] = 1 /\ Len(cells) > 2 /\ n \in 1..MaxFields
           /\ r.ok /\ r.at = Len(cells) + 1 /\ m = Upsert(r.got)
  <2>1. n \in Nat /\ n # 0 /\ n <= MaxFields /\ 4 <= Len(cells) + 1
    BY <1>6, <1>8
  <2>2. PICK S : /\ \A x \in S : IsItem("mutation", x) /\ x.id \in Nat
                 /\ r.got \in Seq(S) /\ Len(r.got) = n /\ Rising(r.got)
                 /\ Holds(cells, 4, WriteItems("mutation", r.got))
                 /\ r.at = 4 + Len(WriteItems("mutation", r.got))
    <3>1. HasRead("mutation", cells, 4, n, r)
      BY <1>2, <1>6, <1>8, <2>1, ReadsSound
    <3> QED
      BY <3>1 DEF HasRead
  <2>3. PICK u, w : u = r.got /\ w = WriteItems("mutation", u)
    OBVIOUS
  <2>4. m.op = "upsert" /\ m.updates = u
    BY <1>8, <2>3 DEF Upsert
  <2>5. Ascending(u) = u
    BY <2>2, <2>3, AscendingSame
  <2>6. ValidShape(u)
    <3>1. u \in Seq(S) /\ Apart(u)
      BY <2>2, <2>3, RisingApart
    <3>2. u # <<>> /\ Len(u) <= MaxFields
      BY <2>1, <2>2, <2>3, EmptySeq
    <3> QED
      BY <3>1, <3>2, ShapeFacts
  <2>7. w \in Seq(Nat) /\ ItemsSize("mutation", u) = Len(w) /\ Len(w) \in Nat
    <3>1. PICK out : Written("mutation", u, out)
      BY <2>2, <2>3, LenProperties, WrittenExists
    <3> QED
      BY <2>2, <2>3, <3>1, ItemsSizes, LenProperties
  <2>8. PICK a \in Nat : a = 1
    OBVIOUS
  <2>9. PICK h : h = <<a, a, n>>
    OBVIOUS
  <2>10. h \in Seq(Nat) /\ Len(h) = 3
    BY <2>1, <2>9
  <2>11. Holds(cells, 1, h)
    <3>1. 1 + 2 <= Len(cells) /\ cells[1] = a /\ cells[1 + 1] = a /\ cells[1 + 2] = n
      <4>1. 1 + 1 = 2 /\ 1 + 2 = 3
        OBVIOUS
      <4> QED
        BY <1>1, <1>5, <1>6, <1>8, <2>8, <4>1
    <3> QED
      BY <1>6, <2>1, <2>9, <3>1, HoldsTriple
  <2>12. Holds(cells, 1 + Len(h), w) /\ 4 + Len(w) = Len(cells) + 1
    <3>1. 1 + Len(h) = 4
      BY <2>10
    <3> QED
      BY <1>8, <2>2, <2>3, <3>1
  <2>13. Holds(cells, 1, h \o w)
    BY <1>6, <2>7, <2>10, <2>11, <2>12, HoldsJoined
  <2>14. h \o w \in Seq(Nat) /\ Len(h \o w) = 3 + Len(w)
    <3>1. h \o w \in Seq(Nat) /\ Len(h \o w) = Len(h) + Len(w)
      BY <2>7, <2>10, ConcatProperties
    <3> QED
      BY <2>10, <3>1
  <2>15. Len(h \o w) = Len(cells)
    BY <1>6, <2>7, <2>12, <2>14
  <2>16. cells = h \o w
    BY <2>13, <2>14, <2>15, HoldsAll
  <2>17. EncodeMutation(m) = h \o w
    BY <2>2, <2>3, <2>4, <2>5, <2>8, <2>9 DEF EncodeMutation
  <2>18. MutationSize(m) = Some(3 + Len(w))
    BY <2>4, <2>5, <2>6, <2>7 DEF MutationSize
  <2> QED
    BY <2>14, <2>15, <2>16, <2>17, <2>18
<1> QED
  BY <1>5, <1>7, <1>8

(* decode_mutation gives back what encode_mutation wrote within max_bytes, *)
(* with the updates by ascending id.                                       *)
THEOREM MutationRoundTrip ==
    ASSUME NEW m, IsMutation(m), NEW size \in MutationSize(m), size <= MaxPayload
    PROVE  /\ EncodeMutation(m) \in Seq(Nat)
           /\ DecodeMutation(EncodeMutation(m)) = Some(WireOrder("mutation", m))
<1>1. MaxFields \in Nat /\ MaxPayload \in Nat /\ Position(1) /\ Position(4)
  BY SchemaAssumption DEF Position
<1>2. CASE m = Delete
  <2>1. m.op = "delete"
    BY <1>2 DEF Delete
  <2>2. PICK c : c = EncodeMutation(m)
    OBVIOUS
  <2>3. c = <<1, 0>>
    BY <2>1, <2>2 DEF EncodeMutation
  <2>4. c \in Seq(Nat) /\ Len(c) = 2 /\ c[1] = 1 /\ c[2] = 0
    BY <2>3
  <2>5. size = 2
    BY <2>1 DEF MutationSize, Some
  <2>6. Len(c) \in 2..MaxPayload
    BY <1>1, <2>4, <2>5
  <2>7. DecodeMutation(c) = Some(Delete)
    BY <2>4, <2>6 DEF DecodeMutation
  <2>8. WireOrder("mutation", m) = m
    BY <2>1 DEF WireOrder
  <2> QED
    BY <1>2, <2>2, <2>4, <2>7, <2>8
<1>3. CASE m # Delete
  <2>1. PICK s : s = m.updates
    OBVIOUS
  <2>2. /\ m = Upsert(s) /\ s \in Seq(Range(s)) /\ \A u \in Range(s) : IsUpdate(u)
    BY <1>3, <2>1 DEF IsMutation
  <2>3. m.op = "upsert"
    BY <2>2 DEF Upsert
  <2>4. PICK S : S = Range(s)
    OBVIOUS
  <2>5. s \in Seq(S) /\ \A u \in S : IsItem("mutation", u) /\ ItemFits("mutation", u) /\ u.id \in Nat
    BY <2>2, <2>4 DEF IsItem, ItemFits, IsUpdate
  <2>6. PICK t : t = Ascending(s)
    OBVIOUS
  <2>7. ValidShape(s) /\ size = 3 + ItemsSize("mutation", t)
    BY <2>1, <2>3, <2>6 DEF MutationSize, Some, None
  <2>8. s # <<>> /\ Len(s) <= MaxFields /\ Apart(s)
    BY <2>5, <2>7, ShapeFacts
  <2>9. t \in Seq(S) /\ Len(t) = Len(s) /\ Rising(t)
    BY <2>5, <2>6, <2>8, AscendingFacts
  <2>10. PICK n \in Nat : n = Len(s)
    BY <2>5, LenProperties
  <2>11. n # 0 /\ n \in 1..MaxFields
    BY <1>1, <2>5, <2>8, <2>10, EmptySeq
  <2>12. PICK w : w = WriteItems("mutation", t)
    OBVIOUS
  <2>13. w \in Seq(Nat) /\ ItemsSize("mutation", t) = Len(w) /\ Len(w) \in Nat
    <3>1. PICK out : Written("mutation", t, out)
      BY <2>9, LenProperties, WrittenExists
    <3> QED
      BY <2>5, <2>9, <2>12, <3>1, ItemsSizes, LenProperties
  <2>14. PICK a \in Nat : a = 1
    OBVIOUS
  <2>15. PICK h : h = <<a, a, n>>
    OBVIOUS
  <2>16. h \in Seq(Nat) /\ Len(h) = 3
    BY <2>15
  <2>17. PICK c : c = h \o w
    OBVIOUS
  <2>18. EncodeMutation(m) = c
    BY <2>1, <2>3, <2>6, <2>10, <2>12, <2>14, <2>15, <2>17 DEF EncodeMutation
  <2>19. c \in Seq(Nat) /\ Len(c) = 3 + Len(w)
    <3>1. h \o w \in Seq(Nat) /\ Len(h \o w) = Len(h) + Len(w)
      BY <2>13, <2>16, ConcatProperties
    <3> QED
      BY <2>16, <2>17, <3>1
  <2>20. Holds(c, 1, h \o w)
    BY <2>17, <2>19, HoldsAll
  <2>21. Holds(c, 1, h) /\ Holds(c, 1 + Len(h), w)
    BY <1>1, <2>13, <2>16, <2>19, <2>20, HoldsJoined
  <2>22. 1 + Len(h) = 4 /\ Holds(c, 4, w)
    BY <2>16, <2>21
  <2>23. c[1] = 1 /\ c[2] = 1 /\ c[3] = n
    <3>1. 1 + 2 <= Len(c) /\ c[1] = a /\ c[1 + 1] = a /\ c[1 + 2] = n
      BY <1>1, <2>15, <2>19, <2>21, HoldsTriple
    <3>2. 1 + 1 = 2 /\ 1 + 2 = 3
      OBVIOUS
    <3> QED
      BY <2>14, <3>1, <3>2
  <2>24. Len(c) <= MaxPayload /\ Len(c) \in 2..MaxPayload /\ Len(c) > 2
    <3>1. PICK l \in Nat : l = Len(w)
      BY <2>13
    <3>2. Len(c) = 3 + l /\ 3 + l <= MaxPayload
      BY <2>7, <2>13, <2>19, <3>1
    <3> QED
      BY <1>1, <3>2
  <2>25. PICK r : r = ReadItems("mutation", c, 4, n)
    OBVIOUS
  <2>26. r = Read(4 + Len(w), t)
    <3>1. PICK what : what = "mutation"
      OBVIOUS
    <3>2. \A x \in S : IsItem(what, x) /\ ItemFits(what, x)
      BY <2>5, <3>1
    <3>3. Holds(c, 4, WriteItems(what, t))
      BY <2>12, <2>22, <3>1
    <3>4. ReadItems(what, c, 4, Len(t)) = Read(4 + Len(WriteItems(what, t)), t)
      BY <1>1, <2>9, <2>19, <2>24, <3>2, <3>3, ReadsAll
    <3> QED
      BY <2>9, <2>10, <2>12, <2>25, <3>1, <3>4
  <2>27. r.ok /\ r.at = 4 + Len(w) /\ r.got = t
    BY <2>26 DEF Read
  <2>28. r.at = Len(c) + 1
    BY <2>13, <2>19, <2>27
  <2>29. DecodeMutation(c) = Some(Upsert(t))
    BY <2>11, <2>23, <2>24, <2>25, <2>27, <2>28 DEF DecodeMutation
  <2>30. WireOrder("mutation", m) = Upsert(t)
    <3>1. WireOrder("mutation", m) = [m EXCEPT !.updates = t]
      BY <2>1, <2>3, <2>6 DEF WireOrder
    <3> QED
      BY <2>2, <3>1 DEF Upsert
  <2> QED
    BY <2>18, <2>19, <2>29, <2>30
<1> QED
  BY <1>2, <1>3

-----------------------------------------------------------------------------
(* Catalogs.                                                               *)

LEMMA HoldsFour ==
    ASSUME NEW cells \in Seq(Nat), NEW s \in Seq(Nat), Len(s) = 4
    PROVE  Holds(cells, 1, s)
             <=> /\ 4 <= Len(cells)
                 /\ cells[1] = s[1] /\ cells[2] = s[2] /\ cells[3] = s[3] /\ cells[4] = s[4]
<1>1. /\ Len(cells) \in Nat /\ 1..4 = {1, 2, 3, 4}
      /\ 1 + 1 - 1 = 1 /\ 1 + 2 - 1 = 2 /\ 1 + 3 - 1 = 3 /\ 1 + 4 - 1 = 4
  BY LenProperties
<1>2. (\A i \in 1..4 : cells[1 + i - 1] = s[i])
        <=> cells[1] = s[1] /\ cells[2] = s[2] /\ cells[3] = s[3] /\ cells[4] = s[4]
  BY <1>1
<1>3. 1 + 4 <= Len(cells) + 1 <=> 4 <= Len(cells)
  BY <1>1
<1> QED
  BY <1>2, <1>3 DEF Holds

NamesApart(s) == \A i, j \in 1..Len(s) : i # j => s[i].name # s[j].name

(* What Schema::new accepts.                                               *)
Catalog(version, s) ==
    /\ version > 0 /\ Len(s) <= MaxFields
    /\ \A i \in 1..Len(s) : ValidName(s[i].name) /\ ValidUnit(s[i].unit)
    /\ Apart(s) /\ NamesApart(s)

LEMMA CatalogFacts ==
    ASSUME NEW S, NEW s \in Seq(S), NEW id, NEW version
    PROVE  NewSchema(id, version, s)
             = IF Catalog(version, s)
               THEN Some([id |-> id, version |-> version, fields |-> Ascending(s)])
               ELSE None
<1>1. DOMAIN s = 1..Len(s)
  BY LenProperties
<1>2. Distinct(s, LAMBDA f : f.id) <=> Apart(s)
  BY <1>1 DEF Distinct, Apart
<1>3. Distinct(s, LAMBDA f : f.name) <=> NamesApart(s)
  BY <1>1 DEF Distinct, NamesApart
<1> QED
  BY <1>1, <1>2, <1>3 DEF NewSchema, Catalog

(* Whatever cells it is given, a schema decode_schema returns has those    *)
(* cells as its only encoding, of the size schema_encoded_size computes.   *)
THEOREM DecodedSchemaIsCanonical ==
    ASSUME NEW cells \in Seq(Nat), NEW s \in DecodeSchema(cells)
    PROVE  EncodeSchema(s) = cells /\ SchemaSize(s) = Len(cells)
<1>1. PICK n : n = cells[4]
  OBVIOUS
<1>2. PICK r : r = ReadItems("schema", cells, 5, n)
  OBVIOUS
<1>3. DecodeSchema(cells) =
        IF /\ Len(cells) \in 4..MaxPayload
           /\ cells[1] = 1 /\ n <= MaxFields
           /\ r.ok /\ r.at = Len(cells) + 1
        THEN NewSchema(cells[2], cells[3], r.got)
        ELSE None
  BY <1>1, <1>2 DEF DecodeSchema
<1>4. s \notin None
  BY DEF None
<1>5. /\ Len(cells) \in 4..MaxPayload /\ cells[1] = 1 /\ n <= MaxFields
      /\ r.ok /\ r.at = Len(cells) + 1
      /\ s \in NewSchema(cells[2], cells[3], r.got)
  BY <1>3, <1>4
<1>6. Len(cells) \in Nat /\ 4 <= Len(cells) /\ Position(1) /\ Position(5) /\ 5 <= Len(cells) + 1
  BY <1>5, LenProperties, SchemaAssumption DEF Position
<1>7. PICK id \in Nat, version \in Nat : id = cells[2] /\ version = cells[3]
  <2>1. 2 \in 1..Len(cells) /\ 3 \in 1..Len(cells)
    BY <1>6
  <2> QED
    BY <2>1, ElementOfSeq
<1>8. n \in Nat
  <2>1. 4 \in 1..Len(cells)
    BY <1>6
  <2> QED
    BY <1>1, <2>1, ElementOfSeq
<1>9. PICK S : /\ \A x \in S : IsItem("schema", x) /\ x.id \in Nat
               /\ r.got \in Seq(S) /\ Len(r.got) = n /\ Rising(r.got)
               /\ Holds(cells, 5, WriteItems("schema", r.got))
               /\ r.at = 5 + Len(WriteItems("schema", r.got))
  <2>1. PICK what, at : what = "schema" /\ at = 5
    OBVIOUS
  <2>2. r = ReadItems(what, cells, at, n) /\ Position(at) /\ at <= Len(cells) + 1
    BY <1>2, <1>6, <2>1
  <2>3. HasRead(what, cells, at, n, r)
    BY <1>5, <1>8, <2>2, ReadsSound
  <2> QED
    BY <2>1, <2>3 DEF HasRead
<1>10. PICK u, w : u = r.got /\ w = WriteItems("schema", u)
  OBVIOUS
<1>11. Ascending(u) = u
  BY <1>9, <1>10, AscendingSame
<1>12. s = [id |-> id, version |-> version, fields |-> u]
  <2>1. NewSchema(id, version, u)
          = IF Catalog(version, u)
            THEN Some([id |-> id, version |-> version, fields |-> u]) ELSE None
    BY <1>9, <1>10, <1>11, CatalogFacts
  <2> QED
    BY <1>4, <1>5, <1>7, <1>10, <2>1 DEF Some
<1>13. s.id = id /\ s.version = version /\ s.fields = u
  BY <1>12
<1>14. w \in Seq(Nat) /\ ItemsSize("schema", u) = Len(w) /\ Len(w) \in Nat
  <2>1. PICK out : Written("schema", u, out)
    BY <1>9, <1>10, LenProperties, WrittenExists
  <2> QED
    BY <1>9, <1>10, <2>1, ItemsSizes, LenProperties
<1>15. PICK a \in Nat : a = 1
  OBVIOUS
<1>16. PICK h : h = <<a, id, version, n>>
  OBVIOUS
<1>17. /\ h \in Seq(Nat) /\ Len(h) = 4
       /\ h[1] = a /\ h[2] = id /\ h[3] = version /\ h[4] = n
  BY <1>8, <1>16
<1>18. Holds(cells, 1, h)
  <2>1. 4 <= Len(cells) /\ cells[1] = a /\ cells[2] = id /\ cells[3] = version /\ cells[4] = n
    BY <1>1, <1>5, <1>6, <1>7, <1>15
  <2> QED
    BY <1>17, <2>1, HoldsFour
<1>19. Holds(cells, 1 + Len(h), w) /\ 5 + Len(w) = Len(cells) + 1
  <2>1. 1 + Len(h) = 5
    BY <1>17
  <2> QED
    BY <1>5, <1>9, <1>10, <2>1
<1>20. Holds(cells, 1, h \o w)
  BY <1>6, <1>14, <1>17, <1>18, <1>19, HoldsJoined
<1>21. h \o w \in Seq(Nat) /\ Len(h \o w) = 4 + Len(w)
  <2>1. h \o w \in Seq(Nat) /\ Len(h \o w) = Len(h) + Len(w)
    BY <1>14, <1>17, ConcatProperties
  <2> QED
    BY <1>17, <2>1
<1>22. Len(h \o w) = Len(cells)
  BY <1>6, <1>14, <1>19, <1>21
<1>23. cells = h \o w
  BY <1>20, <1>21, <1>22, HoldsAll
<1>24. EncodeSchema(s) = h \o w
  BY <1>9, <1>10, <1>13, <1>15, <1>16 DEF EncodeSchema
<1>25. SchemaSize(s) = 4 + Len(w)
  BY <1>13, <1>14 DEF SchemaSize
<1> QED
  BY <1>21, <1>22, <1>23, <1>24, <1>25

(* The same fields in another order.                                       *)
LEMMA CatalogAscends ==
    ASSUME NEW S, \A x \in S : x.id \in Nat, NEW s \in Seq(S), NEW version, Catalog(version, s),
           NEW t, t = Ascending(s)
    PROVE  t \in Seq(S) /\ Len(t) = Len(s) /\ Rising(t) /\ Catalog(version, t)
<1>1. Apart(s)
  BY DEF Catalog
<1>2. t \in Seq(S) /\ Len(t) = Len(s) /\ Range(t) = Range(s) /\ Rising(t)
  BY <1>1, AscendingFacts
<1>3. Apart(t)
  BY <1>2, RisingApart
<1>4. PICK n \in Nat : n = Len(s)
  BY LenProperties
<1>5. ASSUME NEW i \in 1..n PROVE \E k \in 1..n : t[i] = s[k]
  <2>1. t[i] \in Range(t)
    BY <1>2, <1>4, RangeEquality
  <2>2. t[i] \in Range(s) /\ Range(s) = {s[k] : k \in 1..n}
    BY <1>2, <1>4, <2>1, RangeEquality
  <2> QED
    BY <2>2
<1>6. \A i \in 1..n : ValidName(t[i].name) /\ ValidUnit(t[i].unit)
  BY <1>4, <1>5 DEF Catalog
<1>7. ASSUME NEW i \in 1..n, NEW j \in 1..n, i # j PROVE t[i].name # t[j].name
  <2>1. PICK k \in 1..n : t[i] = s[k]
    BY <1>5
  <2>2. PICK l \in 1..n : t[j] = s[l]
    BY <1>5
  <2>3. t[i].id # t[j].id
    BY <1>2, <1>3, <1>4, <1>7 DEF Apart
  <2>4. k # l
    BY <2>1, <2>2, <2>3
  <2>5. s[k].name # s[l].name
    BY <1>4, <2>4 DEF Catalog, NamesApart
  <2> QED
    BY <2>1, <2>2, <2>5
<1>8. NamesApart(t)
  BY <1>2, <1>4, <1>7 DEF NamesApart
<1>9. version > 0 /\ Len(s) <= MaxFields
  BY DEF Catalog
<1> QED
  BY <1>2, <1>3, <1>4, <1>6, <1>8, <1>9 DEF Catalog

(* decode_schema gives back a schema that Schema::new accepted and         *)
(* encode_schema wrote within max_bytes.                                   *)
THEOREM SchemaRoundTrip ==
    ASSUME NEW fields \in FieldLists, NEW version \in Versions, NEW s \in NewSchema(7, version, fields),
           SchemaSize(s) <= MaxPayload
    PROVE  /\ EncodeSchema(s) \in Seq(Nat)
           /\ DecodeSchema(EncodeSchema(s)) = Some(WireOrder("schema", s))
<1>1. MaxPayload \in Nat /\ MaxFields \in Nat /\ version \in Nat /\ Position(1) /\ Position(5)
  BY SchemaAssumption DEF Position
<1>2. PICK F : F = Range(fields)
  OBVIOUS
<1>3. fields \in Seq(F) /\ \A f \in F : IsField(f) /\ f.id \in Nat
  BY <1>2, SchemaAssumption DEF IsField
<1>4. PICK t : t = Ascending(fields)
  OBVIOUS
<1>5. PICK id \in Nat : id = 7
  OBVIOUS
<1>6. Catalog(version, fields) /\ s = [id |-> id, version |-> version, fields |-> t]
  <2>1. NewSchema(id, version, fields)
          = IF Catalog(version, fields)
            THEN Some([id |-> id, version |-> version, fields |-> t]) ELSE None
    BY <1>3, <1>4, CatalogFacts
  <2>2. s \in NewSchema(id, version, fields) /\ s \notin None
    BY <1>5 DEF None
  <2> QED
    BY <2>1, <2>2 DEF Some
<1>7. t \in Seq(F) /\ Len(t) = Len(fields) /\ Rising(t) /\ Catalog(version, t)
  BY <1>3, <1>4, <1>6, CatalogAscends
<1>8. s.id = id /\ s.version = version /\ s.fields = t
  BY <1>6
<1>9. PICK n \in Nat : n = Len(t)
  BY <1>7, LenProperties
<1>10. n <= MaxFields
  BY <1>7, <1>9 DEF Catalog
<1>11. PICK T : T = Range(t)
  OBVIOUS
<1>12. t \in Seq(T) /\ \A x \in T : IsItem("schema", x) /\ ItemFits("schema", x)
  <2>1. t \in Seq(T) /\ T = {t[i] : i \in 1..n}
    BY <1>7, <1>9, <1>11, SeqOfRange, RangeEquality
  <2>2. ASSUME NEW i \in 1..n PROVE IsItem("schema", t[i]) /\ ItemFits("schema", t[i])
    <3>1. t[i] \in F
      BY <1>7, <1>9, ElementOfSeq
    <3>2. IsField(t[i])
      BY <1>3, <3>1
    <3>3. ValidName(t[i].name) /\ ValidUnit(t[i].unit)
      BY <1>7, <1>9 DEF Catalog
    <3>4. FieldFits(t[i])
      BY <3>3 DEF FieldFits, UnitFits, ValidName, ValidUnit
    <3> QED
      BY <3>2, <3>4 DEF IsItem, ItemFits
  <2> QED
    BY <2>1, <2>2
<1>13. PICK w : w = WriteItems("schema", t)
  OBVIOUS
<1>14. w \in Seq(Nat) /\ ItemsSize("schema", t) = Len(w) /\ Len(w) \in Nat
  <2>1. PICK out : Written("schema", t, out)
    BY <1>7, LenProperties, WrittenExists
  <2> QED
    BY <1>12, <1>13, <2>1, ItemsSizes, LenProperties
<1>15. PICK a \in Nat : a = 1
  OBVIOUS
<1>16. PICK h : h = <<a, id, version, n>>
  OBVIOUS
<1>17. /\ h \in Seq(Nat) /\ Len(h) = 4
       /\ h[1] = a /\ h[2] = id /\ h[3] = version /\ h[4] = n
  BY <1>1, <1>16
<1>18. PICK c : c = h \o w
  OBVIOUS
<1>19. EncodeSchema(s) = c
  BY <1>8, <1>9, <1>13, <1>15, <1>16, <1>18 DEF EncodeSchema
<1>20. c \in Seq(Nat) /\ Len(c) = 4 + Len(w)
  <2>1. h \o w \in Seq(Nat) /\ Len(h \o w) = Len(h) + Len(w)
    BY <1>14, <1>17, ConcatProperties
  <2> QED
    BY <1>17, <1>18, <2>1
<1>21. Len(c) <= MaxPayload /\ Len(c) \in 4..MaxPayload
  <2>1. PICK l \in Nat : l = Len(w)
    BY <1>14
  <2>2. Len(c) = 4 + l /\ 4 + l <= MaxPayload
    BY <1>8, <1>14, <1>20, <2>1 DEF SchemaSize
  <2> QED
    BY <1>1, <2>2
<1>22. Holds(c, 1, h \o w)
  BY <1>18, <1>20, HoldsAll
<1>23. Holds(c, 1, h) /\ Holds(c, 1 + Len(h), w)
  BY <1>1, <1>14, <1>17, <1>20, <1>22, HoldsJoined
<1>24. 1 + Len(h) = 5 /\ Holds(c, 5, w)
  BY <1>17, <1>23
<1>25. c[1] = 1 /\ c[2] = id /\ c[3] = version /\ c[4] = n
  <2>1. c[1] = h[1] /\ c[2] = h[2] /\ c[3] = h[3] /\ c[4] = h[4]
    BY <1>17, <1>20, <1>23, HoldsFour
  <2> QED
    BY <1>15, <1>17, <2>1
<1>26. PICK r : r = ReadItems("schema", c, 5, n)
  OBVIOUS
<1>27. r = Read(5 + Len(w), t)
  <2>1. PICK what : what = "schema"
    OBVIOUS
  <2>2. \A x \in T : IsItem(what, x) /\ ItemFits(what, x)
    BY <1>12, <2>1
  <2>3. Holds(c, 5, WriteItems(what, t))
    BY <1>13, <1>24, <2>1
  <2>4. ReadItems(what, c, 5, Len(t)) = Read(5 + Len(WriteItems(what, t)), t)
    BY <1>1, <1>7, <1>12, <1>20, <1>21, <2>2, <2>3, ReadsAll
  <2> QED
    BY <1>9, <1>13, <1>26, <2>1, <2>4
<1>28. r.ok /\ r.at = 5 + Len(w) /\ r.got = t
  BY <1>27 DEF Read
<1>29. r.at = Len(c) + 1
  BY <1>14, <1>20, <1>28
<1>30. DecodeSchema(c) = NewSchema(id, version, t)
  BY <1>10, <1>21, <1>25, <1>26, <1>28, <1>29 DEF DecodeSchema
<1>31. NewSchema(id, version, t) = Some(s)
  <2>1. Ascending(t) = t
    BY <1>3, <1>7, AscendingSame
  <2>2. NewSchema(id, version, t) = Some([id |-> id, version |-> version, fields |-> Ascending(t)])
    BY <1>7, CatalogFacts
  <2> QED
    BY <1>6, <2>1, <2>2
<1>32. WireOrder("schema", s) = s
  BY DEF WireOrder
<1> QED
  BY <1>19, <1>20, <1>30, <1>31, <1>32

-----------------------------------------------------------------------------
(* What is on its way, and the state the mutations build.                  *)

(* A payload nobody damaged is the encoding of what was sent.              *)
Intact(p) ==
    IF p.what = "schema"
    THEN \E version \in Versions, fields \in FieldLists :
            /\ Unwrap(sent) \in NewSchema(7, version, fields)
            /\ SchemaSize(Unwrap(sent)) <= MaxPayload
            /\ p.cells = EncodeSchema(Unwrap(sent))
    ELSE /\ IsMutation(Unwrap(sent))
         /\ \E size \in MutationSize(Unwrap(sent)) : size <= MaxPayload
         /\ p.cells = EncodeMutation(Unwrap(sent))

(* A reader waits for the schema and then for mutations.                   *)
OnItsWay(p) ==
    /\ payload = Some(p)
    /\ p \in [what : {"schema", "mutation"}, cells : Seq(Nat)]
    /\ p.what = "schema" <=> schema = None
    /\ damage = 0 => Intact(p)

StateComplete(s) == schema = Some(s) /\ (state = <<>> \/ CompleteState(s, state))

SchemaInv ==
    /\ damage \in Nat
    /\ schema = None => state = <<>>
    /\ \A s \in schema : StateComplete(s)
    /\ \A p \in payload : OnItsWay(p)

LEMMA UnwrapSome == \A x : Unwrap(Some(x)) = x
BY DEF Unwrap, Some

LEMMA SchemaInitInv == SchemaInit => SchemaInv
BY DEF SchemaInit, SchemaInv, None

LEMMA SendSchemaKeeps ==
    ASSUME SchemaInv, NEW version \in Versions, NEW fields \in FieldLists, SendSchema(version, fields)
    PROVE  SchemaInv'
<1>1. PICK s \in NewSchema(7, version, fields) :
         /\ SchemaSize(s) <= MaxPayload
         /\ payload' = Some([what |-> "schema", cells |-> EncodeSchema(s)])
         /\ sent' = Some(s)
  BY DEF SendSchema
<1>2. schema = None /\ schema' = schema /\ state' = state /\ damage' = 0
  BY DEF SendSchema
<1>3. PICK p : p = [what |-> "schema", cells |-> EncodeSchema(s)]
  OBVIOUS
<1>4. p.what = "schema" /\ p.cells = EncodeSchema(s) /\ p.cells \in Seq(Nat)
  BY <1>1, <1>3, SchemaRoundTrip
<1>5. Unwrap(sent') = s
  BY <1>1, UnwrapSome
<1>6. Intact(p)'
  BY <1>1, <1>4, <1>5 DEF Intact
<1>7. p \in [what : {"schema", "mutation"}, cells : Seq(Nat)]
  BY <1>3, <1>4
<1>8. OnItsWay(p)'
  BY <1>1, <1>2, <1>3, <1>4, <1>6, <1>7 DEF OnItsWay
<1>9. \A q \in payload' : q = p
  BY <1>1, <1>3 DEF Some
<1>10. state' = <<>> /\ \A x : x \notin schema'
  BY <1>2 DEF SchemaInv, None
<1> QED
  BY <1>2, <1>8, <1>9, <1>10 DEF SchemaInv

LEMMA SendMutationKeeps ==
    ASSUME SchemaInv, NEW m \in MutationsIn, SendMutation(m)
    PROVE  SchemaInv'
<1>1. PICK size \in MutationSize(m) : size <= MaxPayload
  BY DEF SendMutation
<1>2. /\ schema # None /\ schema' = schema /\ state' = state /\ damage' = 0
      /\ payload' = Some([what |-> "mutation", cells |-> EncodeMutation(m)])
      /\ sent' = Some(m)
  BY DEF SendMutation
<1>3. PICK p : p = [what |-> "mutation", cells |-> EncodeMutation(m)]
  OBVIOUS
<1>4. IsMutation(m)
  BY SchemaAssumption
<1>5. p.what = "mutation" /\ p.cells = EncodeMutation(m) /\ p.cells \in Seq(Nat)
  BY <1>1, <1>3, <1>4, MutationRoundTrip
<1>6. Unwrap(sent') = m
  BY <1>2, UnwrapSome
<1>7. Intact(p)'
  BY <1>1, <1>4, <1>5, <1>6 DEF Intact
<1>8. p \in [what : {"schema", "mutation"}, cells : Seq(Nat)]
  BY <1>3, <1>5
<1>9. OnItsWay(p)'
  BY <1>2, <1>3, <1>5, <1>7, <1>8 DEF OnItsWay
<1>10. \A q \in payload' : q = p
  BY <1>2, <1>3 DEF Some
<1>11. \A s \in schema' : StateComplete(s)'
  BY <1>2 DEF SchemaInv, StateComplete
<1> QED
  BY <1>2, <1>9, <1>10, <1>11 DEF SchemaInv

(* However it is damaged, a payload remains a sequence of cells.           *)
LEMMA DamagedCells ==
    ASSUME NEW p \in [what : {"schema", "mutation"}, cells : Seq(Nat)], NEW q,
           \/ \E i \in DOMAIN p.cells, c \in NoiseCells : q = [p EXCEPT !.cells[i] = c]
           \/ \E n \in 0..Len(p.cells) - 1 : q = [p EXCEPT !.cells = SubSeq(@, 1, n)]
           \/ \E c \in NoiseCells : q = [p EXCEPT !.cells = Append(@, c)]
    PROVE  q \in [what : {"schema", "mutation"}, cells : Seq(Nat)] /\ q.what = p.what
<1>1. NoiseCells \subseteq Nat
  BY SchemaAssumption
<1>2. PICK cells \in Seq(Nat) : cells = p.cells
  OBVIOUS
<1>3. Len(cells) \in Nat /\ DOMAIN cells = 1..Len(cells)
  BY <1>2, LenProperties
<1>4. CASE \E i \in DOMAIN p.cells, c \in NoiseCells : q = [p EXCEPT !.cells[i] = c]
  <2>1. PICK i \in DOMAIN cells, c \in NoiseCells : q = [p EXCEPT !.cells = [cells EXCEPT ![i] = c]]
    BY <1>2, <1>4
  <2>2. [cells EXCEPT ![i] = c] \in Seq(Nat)
    BY <1>1, <1>2, <1>3, ExceptSeq
  <2> QED
    BY <2>1, <2>2
<1>5. CASE \E n \in 0..Len(p.cells) - 1 : q = [p EXCEPT !.cells = SubSeq(@, 1, n)]
  <2>1. PICK n \in 0..Len(cells) - 1 : q = [p EXCEPT !.cells = SubSeq(cells, 1, n)]
    BY <1>2, <1>5
  <2>2. SubSeq(cells, 1, n) \in Seq(Nat)
    BY <1>2, <1>3, <2>1, SubSeqProperties
  <2> QED
    BY <2>1, <2>2
<1>6. CASE \E c \in NoiseCells : q = [p EXCEPT !.cells = Append(@, c)]
  <2>1. PICK c \in NoiseCells : q = [p EXCEPT !.cells = Append(cells, c)]
    BY <1>2, <1>6
  <2>2. Append(cells, c) \in Seq(Nat)
    BY <1>1, <1>2, <2>1, AppendProperties
  <2> QED
    BY <2>1, <2>2
<1> QED
  BY <1>4, <1>5, <1>6

LEMMA DamageKeeps ==
    ASSUME SchemaInv, Damage
    PROVE  SchemaInv'
<1>1. PICK p \in payload :
        \/ \E i \in DOMAIN p.cells, c \in NoiseCells :
              payload' = Some([p EXCEPT !.cells[i] = c])
        \/ \E n \in 0..Len(p.cells) - 1 : payload' = Some([p EXCEPT !.cells = SubSeq(@, 1, n)])
        \/ \E c \in NoiseCells : payload' = Some([p EXCEPT !.cells = Append(@, c)])
  BY DEF Damage
<1>2. damage' = damage + 1 /\ schema' = schema /\ state' = state
  BY DEF Damage
<1>3. /\ p \in [what : {"schema", "mutation"}, cells : Seq(Nat)]
      /\ p.what = "schema" <=> schema = None
  BY <1>1 DEF SchemaInv, OnItsWay
<1>4. PICK q :
         /\ payload' = Some(q)
         /\ \/ \E i \in DOMAIN p.cells, c \in NoiseCells : q = [p EXCEPT !.cells[i] = c]
            \/ \E n \in 0..Len(p.cells) - 1 : q = [p EXCEPT !.cells = SubSeq(@, 1, n)]
            \/ \E c \in NoiseCells : q = [p EXCEPT !.cells = Append(@, c)]
  BY <1>1
<1>5. q \in [what : {"schema", "mutation"}, cells : Seq(Nat)] /\ q.what = p.what
  BY <1>3, <1>4, DamagedCells
<1>6. damage' \in Nat /\ damage' # 0
  BY <1>2 DEF SchemaInv
<1>7. OnItsWay(q)'
  BY <1>2, <1>3, <1>4, <1>5, <1>6 DEF OnItsWay
<1>8. \A r \in payload' : r = q
  BY <1>4 DEF Some
<1>9. \A s \in schema' : StateComplete(s)'
  BY <1>2 DEF SchemaInv, StateComplete
<1> QED
  BY <1>2, <1>6, <1>7, <1>8, <1>9 DEF SchemaInv

(* Schema::apply leaves nothing, a complete state, or what there was.      *)
LEMMA AppliedComplete ==
    ASSUME NEW s, NEW st, NEW m, st = <<>> \/ CompleteState(s, st)
    PROVE  Applied(s, st, m) = <<>> \/ CompleteState(s, Applied(s, st, m))
<1>1. PICK next : next = FoldLeft(LAMBDA acc, u : (u.id :> u.value) @@ acc, st, m.updates)
  OBVIOUS
<1>2. Applied(s, st, m) =
        IF m.op = "delete" THEN <<>>
        ELSE IF ValidMutation(s, m) /\ CompleteState(s, next) THEN next ELSE st
  BY <1>1 DEF Applied
<1>3. CASE m.op = "delete"
  BY <1>2, <1>3
<1>4. CASE m.op # "delete" /\ ValidMutation(s, m) /\ CompleteState(s, next)
  BY <1>2, <1>4
<1>5. CASE m.op # "delete" /\ ~(ValidMutation(s, m) /\ CompleteState(s, next))
  <2>1. Applied(s, st, m) = st
    BY <1>2, <1>5, Zenon
  <2> QED
    BY <2>1
<1> QED
  BY <1>3, <1>4, <1>5

LEMMA DecodedOnce ==
    ASSUME NEW cells, NEW s \in DecodeSchema(cells)
    PROVE  DecodeSchema(cells) = Some(s)
<1>1. PICK f : f = ReadItems("schema", cells, 5, cells[4])
  OBVIOUS
<1>2. PICK n : n = NewSchema(cells[2], cells[3], f.got)
  OBVIOUS
<1>3. DecodeSchema(cells) = n \/ DecodeSchema(cells) = None
  BY <1>1, <1>2 DEF DecodeSchema
<1>4. n = None \/ \E x : n = Some(x)
  BY <1>2 DEF NewSchema
<1> QED
  BY <1>3, <1>4 DEF None, Some

LEMMA ReceiveKeeps ==
    ASSUME SchemaInv, Receive
    PROVE  SchemaInv'
<1>1. PICK p \in payload :
        IF p.what = "schema"
        THEN schema' = DecodeSchema(p.cells) /\ state' = state
        ELSE LET m == DecodeMutation(p.cells)
             IN  /\ state' = IF m = None THEN state
                             ELSE Applied(Unwrap(schema), state, Unwrap(m))
                 /\ schema' = schema
  BY DEF Receive
<1>2. \A q : q \notin payload'
  BY DEF Receive, None
<1>3. damage' \in Nat
  BY DEF Receive
<1>4. OnItsWay(p)
  BY <1>1 DEF SchemaInv
<1>5. CASE p.what = "schema"
  <2>1. state' = <<>> /\ schema' = DecodeSchema(p.cells)
    BY <1>1, <1>4, <1>5 DEF OnItsWay, SchemaInv
  <2>2. ASSUME NEW s \in schema' PROVE StateComplete(s)'
    <3>1. schema' = Some(s)
      BY <2>1, DecodedOnce
    <3> QED
      BY <2>1, <3>1 DEF StateComplete
  <2> QED
    BY <1>2, <1>3, <2>1, <2>2 DEF SchemaInv
<1>6. CASE p.what # "schema"
  <2>1. PICK m : m = DecodeMutation(p.cells)
    OBVIOUS
  <2>2. /\ state' = IF m = None THEN state ELSE Applied(Unwrap(schema), state, Unwrap(m))
        /\ schema' = schema
    BY <1>1, <1>6, <2>1
  <2>3. schema # None
    BY <1>4, <1>6 DEF OnItsWay
  <2>4. ASSUME NEW s \in schema' PROVE StateComplete(s)'
    <3>1. schema = Some(s) /\ (state = <<>> \/ CompleteState(s, state))
      BY <2>2 DEF SchemaInv, StateComplete
    <3>2. Unwrap(schema) = s
      BY <3>1, UnwrapSome
    <3>3. PICK a : a = Applied(s, state, Unwrap(m))
      OBVIOUS
    <3>4. a = <<>> \/ CompleteState(s, a)
      BY <3>1, <3>3, AppliedComplete
    <3>5. state' = state \/ state' = a
      BY <2>2, <3>2, <3>3
    <3>6. schema' = Some(s)
      BY <2>2, <3>1
    <3>7. state' = <<>> \/ CompleteState(s, state')
      BY <3>1, <3>4, <3>5
    <3> QED
      BY <3>6, <3>7 DEF StateComplete
  <2> QED
    BY <1>2, <1>3, <2>2, <2>3, <2>4 DEF SchemaInv
<1> QED
  BY <1>5, <1>6

LEMMA SchemaNextInv ==
    ASSUME SchemaInv, SchemaNext \/ UNCHANGED schemaVars
    PROVE  SchemaInv'
<1>1. CASE UNCHANGED schemaVars
  <2>1. /\ damage' = damage /\ schema' = schema /\ state' = state /\ payload' = payload
        /\ sent' = sent
    BY <1>1 DEF schemaVars
  <2>2. \A s \in schema' : StateComplete(s)'
    BY <2>1 DEF SchemaInv, StateComplete
  <2>3. ASSUME NEW p \in payload' PROVE OnItsWay(p)'
    <3>1. OnItsWay(p)
      BY <2>1 DEF SchemaInv
    <3>2. Intact(p)' <=> Intact(p)
      BY <2>1 DEF Intact
    <3> QED
      BY <2>1, <3>1, <3>2 DEF OnItsWay
  <2> QED
    BY <2>1, <2>2, <2>3 DEF SchemaInv
<1> QED
  BY <1>1, SendSchemaKeeps, SendMutationKeeps, DamageKeeps, ReceiveKeeps DEF SchemaNext

LEMMA PayloadsFollow == SchemaInv => PayloadsAreCanonical
<1> SUFFICES ASSUME SchemaInv PROVE PayloadsAreCanonical
  OBVIOUS
<1>1. ASSUME NEW s \in schema PROVE state = <<>> \/ CompleteState(s, state)
  BY DEF SchemaInv, StateComplete
<1>2. ASSUME NEW p \in payload, p.what = "schema"
      PROVE  /\ damage = 0 => DecodeSchema(p.cells) = Some(WireOrder(p.what, Unwrap(sent)))
             /\ \A v \in DecodeSchema(p.cells) :
                   EncodeSchema(v) = p.cells /\ SchemaSize(v) = Len(p.cells)
  <2>1. OnItsWay(p) /\ p.cells \in Seq(Nat)
    BY DEF SchemaInv, OnItsWay
  <2>2. ASSUME damage = 0
        PROVE  DecodeSchema(p.cells) = Some(WireOrder(p.what, Unwrap(sent)))
    <3>1. PICK v : v = Unwrap(sent)
      OBVIOUS
    <3>2. PICK version \in Versions, fields \in FieldLists :
             /\ v \in NewSchema(7, version, fields)
             /\ SchemaSize(v) <= MaxPayload
             /\ p.cells = EncodeSchema(v)
      BY <1>2, <2>1, <2>2, <3>1 DEF OnItsWay, Intact
    <3>3. DecodeSchema(EncodeSchema(v)) = Some(WireOrder("schema", v))
      BY <3>2, SchemaRoundTrip
    <3> QED
      BY <1>2, <3>1, <3>2, <3>3
  <2> QED
    BY <2>1, <2>2, DecodedSchemaIsCanonical
<1>3. ASSUME NEW p \in payload, p.what # "schema"
      PROVE  /\ damage = 0 => DecodeMutation(p.cells) = Some(WireOrder(p.what, Unwrap(sent)))
             /\ \A v \in DecodeMutation(p.cells) :
                   EncodeMutation(v) = p.cells /\ MutationSize(v) = Some(Len(p.cells))
  <2>1. OnItsWay(p) /\ p.cells \in Seq(Nat) /\ p.what = "mutation"
    BY <1>3 DEF SchemaInv, OnItsWay
  <2>2. ASSUME damage = 0
        PROVE  DecodeMutation(p.cells) = Some(WireOrder(p.what, Unwrap(sent)))
    <3>1. PICK v : v = Unwrap(sent)
      OBVIOUS
    <3>2. /\ IsMutation(v) /\ p.cells = EncodeMutation(v)
          /\ \E size \in MutationSize(v) : size <= MaxPayload
      BY <1>3, <2>1, <2>2, <3>1 DEF OnItsWay, Intact
    <3>3. DecodeMutation(EncodeMutation(v)) = Some(WireOrder("mutation", v))
      BY <3>2, MutationRoundTrip
    <3> QED
      BY <2>1, <3>1, <3>2, <3>3
  <2> QED
    BY <2>1, <2>2, DecodedMutationIsCanonical
<1> QED
  BY <1>1, <1>2, <1>3 DEF PayloadsAreCanonical

=============================================================================
