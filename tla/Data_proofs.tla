----------------------------- MODULE Data_proofs -----------------------------
(***************************************************************************)
(* Facts about sums over finite sets, and about FlattenSeq, that the other *)
(* proofs cite.  The library states induction with an operator parameter;  *)
(* here it is stated of sets, which is all a proof needs: a set of         *)
(* naturals that has 0 and the successor of each of its members has all.   *)
(***************************************************************************)
EXTENDS Sums, SequencesExt, FiniteSetTheorems, SequenceTheorems, WellFoundedInduction, TLAPS

LEMMA NatSetInduction ==
  ASSUME NEW S, 0 \in S, \A n \in Nat : n \in S => n + 1 \in S
  PROVE  Nat \subseteq S
<1> DEFINE R == OpToRel(<, Nat)
           B == Nat \ S
<1>1. IsWellFoundedOn(R, Nat)
  BY NatLessThanWellFounded
<1>2. ASSUME B # {}
      PROVE  FALSE
  <2>1. PICK x \in B : \A y \in B : ~(<<y, x>> \in R)
    BY <1>1, <1>2, WFMin, Zenon
  <2>2. x # 0 /\ x - 1 \in Nat
    OBVIOUS
  <2>3. <<x - 1, x>> \in R
    BY <2>2 DEF OpToRel
  <2>4. x - 1 \in S
    BY <2>1, <2>2, <2>3
  <2>5. QED
    BY <2>2, <2>4
<1>3. QED
  BY <1>2
\* A set of naturals has a least member, and one that is bounded has a greatest.
LEMMA MinIs ==
  ASSUME NEW S, S \subseteq Nat, S # {}
  PROVE  Min(S) \in S /\ \A y \in S : Min(S) =< y
<1> DEFINE R == OpToRel(<, Nat)
<1>1. IsWellFoundedOn(R, Nat)
  BY NatLessThanWellFounded
<1>2. PICK x \in S : \A y \in S : ~(<<y, x>> \in R)
  BY <1>1, WFMin, Zenon
<1>3. \A y \in S : ~(y < x)
  BY <1>2 DEF OpToRel
<1>4. \A y \in S : x =< y
  BY <1>3
<1>5. QED
  BY <1>4 DEF Min

LEMMA MaxIs ==
  ASSUME NEW c \in Nat, NEW S, S \subseteq 0..c, S # {}
  PROVE  Max(S) \in S /\ \A y \in S : Max(S) >= y
<1> DEFINE T == {y \in 0..c : c - y \in S}
<1>1. T \subseteq Nat /\ T # {}
  <2>1. PICK x \in S : TRUE
    OBVIOUS
  <2>2. c - x \in 0..c /\ c - (c - x) = x
    OBVIOUS
  <2>3. c - x \in T
    BY <2>1, <2>2
  <2>4. T \subseteq Nat
    OBVIOUS
  <2> HIDE DEF T
  <2>5. QED
    BY <2>3, <2>4
<1>2. Min(T) \in T /\ \A y \in T : Min(T) =< y
  BY <1>1, MinIs
<1>3. \A y \in S : c - y \in T
  OBVIOUS
<1> HIDE DEF T
<1>4. Min(T) \in 0..c /\ c - Min(T) \in S
  BY <1>2 DEF T
<1>5. \A y \in S : c - Min(T) >= y
  BY <1>2, <1>3, <1>4
<1>6. QED
  BY <1>4, <1>5 DEF Max
-----------------------------------------------------------------------------
Pick(s) == CHOOSE x \in s : TRUE
Step(f, g, s) == IF s = {} THEN 0 ELSE f[Pick(s)] + g[s \ {Pick(s)}]
Sums(f, S, g) == g = [s \in SUBSET S |-> Step(f, g, s)]

LEMMA SumIs ==
  ASSUME NEW f, NEW S
  PROVE  SumOver(f, S) = (CHOOSE g : Sums(f, S, g))[S]
BY DEF SumOver, FoldFunctionOnSet, MapThenFoldSet, Sums, Step, Pick

\* The subsets of a finite set by how many elements they have.
LEMMA Sizes ==
  ASSUME NEW S, IsFiniteSet(S), NEW s \in SUBSET S
  PROVE  /\ IsFiniteSet(s) /\ Cardinality(s) \in Nat
         /\ Cardinality(s) = 0 <=> s = {}
         /\ \A x \in s : Cardinality(s \ {x}) = Cardinality(s) - 1
<1>1. IsFiniteSet(s) /\ Cardinality(s) \in Nat
  BY FS_Subset, FS_CardinalityType
<1>2. Cardinality(s) = 0 <=> s = {}
  BY <1>1, FS_EmptySet
<1>3. \A x \in s : Cardinality(s \ {x}) = Cardinality(s) - 1
  BY <1>1, FS_RemoveElement
<1>4. QED
  BY <1>1, <1>2, <1>3

LEMMA PickIn == \A s : s # {} => Pick(s) \in s
BY DEF Pick

LEMMA SumsExists ==
  ASSUME NEW S, IsFiniteSet(S), NEW f, \A x \in S : f[x] \in Int
  PROVE  \E g \in [SUBSET S -> Int] : Sums(f, S, g)
<1> DEFINE Upto(g, n) == \A s \in SUBSET S : Cardinality(s) =< n => g[s] = Step(f, g, s)
           N == {n \in Nat : \E g \in [SUBSET S -> Int] : Upto(g, n)}
<1>1. 0 \in N
  <2> DEFINE g == [s \in SUBSET S |-> 0]
  <2>1. g \in [SUBSET S -> Int]
    OBVIOUS
  <2>2. Upto(g, 0)
    BY Sizes DEF Step
  <2>3. QED
    BY <2>1, <2>2
<1>2. ASSUME NEW n \in Nat, n \in N
      PROVE  n + 1 \in N
  <2>1. PICK g \in [SUBSET S -> Int] : Upto(g, n)
    BY <1>2
  <2> DEFINE h == [s \in SUBSET S |-> IF Cardinality(s) =< n THEN g[s] ELSE Step(f, g, s)]
  <2>2. \A s \in SUBSET S : s # {} => /\ Pick(s) \in S /\ s \ {Pick(s)} \in SUBSET S
                                      /\ Cardinality(s \ {Pick(s)}) = Cardinality(s) - 1
    BY PickIn, Sizes
  <2>3. h \in [SUBSET S -> Int]
    <3>1. ASSUME NEW s \in SUBSET S
          PROVE  Step(f, g, s) \in Int
      <4>1. CASE s = {}
        BY <4>1 DEF Step
      <4>2. CASE s # {}
        <5>1. f[Pick(s)] \in Int /\ g[s \ {Pick(s)}] \in Int
          BY <2>2, <4>2
        <5>2. QED
          BY <4>2, <5>1 DEF Step
      <4>3. QED
        BY <4>1, <4>2
    <3>2. QED
      BY <3>1
  <2>4. Upto(h, n + 1)
    <3>1. SUFFICES ASSUME NEW s \in SUBSET S, Cardinality(s) =< n + 1
                   PROVE  h[s] = Step(f, h, s)
      OBVIOUS
    <3>2. Step(f, g, s) = Step(f, h, s)
      <4>1. CASE s = {}
        BY <4>1 DEF Step
      <4>2. CASE s # {}
        <5>1. s \ {Pick(s)} \in SUBSET S /\ Cardinality(s \ {Pick(s)}) =< n
          BY <2>2, <3>1, <4>2, Sizes
        <5>2. h[s \ {Pick(s)}] = g[s \ {Pick(s)}]
          BY <5>1
        <5>3. QED
          BY <4>2, <5>2 DEF Step
      <4>3. QED
        BY <4>1, <4>2
    <3>3. h[s] = Step(f, g, s)
      BY <2>1
    <3>4. QED
      BY <3>2, <3>3
  <2> HIDE DEF h, Upto
  <2>5. QED
    BY <2>3, <2>4
<1>3. Cardinality(S) \in N
  <2> HIDE DEF N
  <2>1. Nat \subseteq N
    BY <1>1, <1>2, NatSetInduction
  <2>2. QED
    BY <2>1, FS_CardinalityType
<1>4. PICK g \in [SUBSET S -> Int] : Upto(g, Cardinality(S))
  BY <1>3
<1>5. \A s \in SUBSET S : g[s] = Step(f, g, s)
  BY <1>4, FS_Subset
<1>6. Sums(f, S, g)
  BY <1>5 DEF Sums
<1>7. QED
  BY <1>6

LEMMA SumsUnique ==
  ASSUME NEW S, IsFiniteSet(S), NEW f, NEW g, NEW h, Sums(f, S, g), Sums(f, S, h)
  PROVE  g = h
<1> DEFINE N == {n \in Nat : \A s \in SUBSET S : Cardinality(s) = n => g[s] = h[s]}
<1>0. /\ \A s \in SUBSET S : g[s] = Step(f, g, s) /\ h[s] = Step(f, h, s)
      /\ DOMAIN g = SUBSET S /\ DOMAIN h = SUBSET S
      /\ g = [s \in SUBSET S |-> g[s]] /\ h = [s \in SUBSET S |-> h[s]]
  BY DEF Sums
<1>1. 0 \in N
  BY <1>0, Sizes DEF Step
<1>2. ASSUME NEW n \in Nat, n \in N
      PROVE  n + 1 \in N
  <2>1. SUFFICES ASSUME NEW s \in SUBSET S, Cardinality(s) = n + 1
                 PROVE  g[s] = h[s]
    OBVIOUS
  <2>2. s # {}
    BY <2>1, Sizes
  <2>3. Pick(s) \in s /\ Cardinality(s \ {Pick(s)}) = n /\ s \ {Pick(s)} \in SUBSET S
    BY <2>1, <2>2, PickIn, Sizes
  <2>4. g[s \ {Pick(s)}] = h[s \ {Pick(s)}]
    BY <1>2, <2>3
  <2>5. QED
    BY <1>0, <2>2, <2>4 DEF Step
<1>3. \A s \in SUBSET S : g[s] = h[s]
  <2> HIDE DEF N
  <2>1. Nat \subseteq N
    BY <1>1, <1>2, NatSetInduction
  <2>2. QED
    BY <2>1, Sizes DEF N
<1>4. QED
  BY <1>0, <1>3

\* One function has the sums over all the subsets.
Table(f, S, g) ==
  /\ Sums(f, S, g)
  /\ \A T \in SUBSET S : g[T] \in Int /\ SumOver(f, T) = g[T]

LEMMA SumTable ==
  ASSUME NEW S, IsFiniteSet(S), NEW f, \A x \in S : f[x] \in Int
  PROVE  \E g : Table(f, S, g)
<1>1. PICK g \in [SUBSET S -> Int] : Sums(f, S, g)
  BY SumsExists
<1>2. ASSUME NEW T \in SUBSET S
      PROVE  SumOver(f, T) = g[T]
  <2> DEFINE h == [s \in SUBSET T |-> g[s]]
             k == CHOOSE k : Sums(f, T, k)
  <2>1. Sums(f, T, h)
    <3>1. \A s \in SUBSET T : g[s] = Step(f, g, s)
      BY <1>1 DEF Sums
    <3>2. \A s \in SUBSET T : Step(f, g, s) = Step(f, h, s)
      BY PickIn DEF Step
    <3>3. QED
      BY <3>1, <3>2 DEF Sums
  <2>2. Sums(f, T, k)
    BY <2>1
  <2>3. IsFiniteSet(T)
    BY FS_Subset
  <2> HIDE DEF h, k
  <2>4. h = k
    BY <2>1, <2>2, <2>3, SumsUnique
  <2>5. SumOver(f, T) = k[T]
    BY SumIs DEF k
  <2>6. QED
    BY <2>4, <2>5 DEF h
<1>3. QED
  BY <1>1, <1>2 DEF Table

LEMMA SumType ==
  ASSUME NEW S, IsFiniteSet(S), NEW f, \A x \in S : f[x] \in Int
  PROVE  SumOver(f, S) \in Int
<1>1. PICK g : Table(f, S, g)
  BY SumTable
<1>2. QED
  BY <1>1 DEF Table

LEMMA SumEmpty ==
  ASSUME NEW f
  PROVE  SumOver(f, {}) = 0
<1>1. PICK g : Table(f, {}, g)
  BY SumTable, FS_EmptySet
<1>2. g[{}] = Step(f, g, {})
  BY <1>1 DEF Table, Sums
<1>3. QED
  BY <1>1, <1>2 DEF Table, Step

\* Whichever element a sum takes first.
LEMMA SumTakes ==
  ASSUME NEW S, IsFiniteSet(S), NEW f, \A x \in S : f[x] \in Int, NEW x \in S
  PROVE  SumOver(f, S) = f[x] + SumOver(f, S \ {x})
<1>1. PICK g : Table(f, S, g)
  BY SumTable
<1> DEFINE N == {n \in Nat : \A s \in SUBSET S : Cardinality(s) = n =>
                               \A y \in s : g[s] = f[y] + g[s \ {y}]}
<1>2. 0 \in N
  BY Sizes
<1>3. ASSUME NEW n \in Nat, n \in N
      PROVE  n + 1 \in N
  <2>1. SUFFICES ASSUME NEW s \in SUBSET S, Cardinality(s) = n + 1, NEW y \in s
                 PROVE  g[s] = f[y] + g[s \ {y}]
    OBVIOUS
  <2> DEFINE z == Pick(s)
  <2>2. z \in s
    BY PickIn
  <2> HIDE DEF z
  <2>3. g[s] = f[z] + g[s \ {z}]
    BY <1>1 DEF Table, Sums, Step, z
  <2>4. CASE y = z
    BY <2>3, <2>4
  <2>5. CASE y # z
    <3>1. Cardinality(s \ {z}) = n /\ Cardinality(s \ {y}) = n
      BY <2>1, <2>2, Sizes
    <3>2. /\ s \ {z} \in SUBSET S /\ s \ {y} \in SUBSET S /\ y \in s \ {z} /\ z \in s \ {y}
          /\ (s \ {z}) \ {y} = (s \ {y}) \ {z}
          /\ (s \ {z}) \ {y} \in SUBSET S
      BY <2>2, <2>5
    <3>3. g[s \ {z}] = f[y] + g[(s \ {z}) \ {y}]
      BY <1>3, <3>1, <3>2
    <3>4. g[s \ {y}] = f[z] + g[(s \ {y}) \ {z}]
      BY <1>3, <3>1, <3>2
    <3>5. f[y] \in Int /\ f[z] \in Int /\ g[(s \ {z}) \ {y}] \in Int
      BY <1>1, <2>2, <3>2 DEF Table
    <3> DEFINE r == (s \ {z}) \ {y}
    <3>6. /\ g[s] = f[z] + g[s \ {z}] /\ g[s \ {z}] = f[y] + g[r]
          /\ g[s \ {y}] = f[z] + g[r]
      BY <2>3, <3>2, <3>3, <3>4
    <3> HIDE DEF r
    <3>7. g[r] \in Int
      BY <3>5 DEF r
    <3>8. QED
      BY <3>5, <3>6, <3>7
  <2>6. QED
    BY <2>4, <2>5
<1>4. g[S] = f[x] + g[S \ {x}]
  <2> HIDE DEF N
  <2>1. Nat \subseteq N
    BY <1>2, <1>3, NatSetInduction
  <2>2. QED
    BY <2>1, Sizes DEF N
<1>5. QED
  BY <1>1, <1>4 DEF Table

LEMMA SumAdds ==
  ASSUME NEW S, IsFiniteSet(S), NEW f, NEW x, x \notin S, \A y \in S \cup {x} : f[y] \in Int
  PROVE  SumOver(f, S \cup {x}) = f[x] + SumOver(f, S)
<1>1. IsFiniteSet(S \cup {x}) /\ (S \cup {x}) \ {x} = S
  BY FS_AddElement
<1> DEFINE Q == S \cup {x}
<1>2. x \in Q /\ IsFiniteSet(Q) /\ Q \ {x} = S /\ \A y \in Q : f[y] \in Int
  BY <1>1
<1> HIDE DEF Q
<1>3. SumOver(f, Q) = f[x] + SumOver(f, Q \ {x})
  BY <1>2, SumTakes
<1>4. QED
  BY <1>2, <1>3 DEF Q

\* A sum depends on the values in its set only.
LEMMA SumAgrees ==
  ASSUME NEW S, IsFiniteSet(S), NEW f, NEW h, \A x \in S : f[x] \in Int /\ f[x] = h[x]
  PROVE  SumOver(f, S) = SumOver(h, S)
<1>1. PICK g : Table(f, S, g)
  BY SumTable
<1>2. \A s \in SUBSET S : Step(f, g, s) = Step(h, g, s)
  BY PickIn DEF Step
<1>3. Sums(h, S, g)
  BY <1>1, <1>2 DEF Table, Sums
<1> DEFINE k == CHOOSE k : Sums(h, S, k)
<1>4. Sums(h, S, k)
  BY <1>3
<1> HIDE DEF k
<1>5. k = g
  BY <1>3, <1>4, SumsUnique
<1>6. SumOver(h, S) = k[S]
  BY SumIs DEF k
<1>7. QED
  BY <1>1, <1>5, <1>6 DEF Table

LEMMA SumSplits ==
  ASSUME NEW S, IsFiniteSet(S), NEW T, IsFiniteSet(T), S \cap T = {},
         NEW f, \A x \in S \cup T : f[x] \in Int
  PROVE  SumOver(f, S \cup T) = SumOver(f, S) + SumOver(f, T)
<1> DEFINE N == {n \in Nat : \A s \in SUBSET T : Cardinality(s) = n =>
                               SumOver(f, S \cup s) = SumOver(f, S) + SumOver(f, s)}
<1>0. SumOver(f, S) \in Int
  BY SumType
<1>1. 0 \in N
  <2>1. \A s \in SUBSET T : Cardinality(s) = 0 => s = {}
    BY Sizes
  <2>2. SumOver(f, S \cup {}) = SumOver(f, S) + SumOver(f, {})
    BY <1>0, SumEmpty
  <2>3. QED
    BY <2>1, <2>2
<1>2. ASSUME NEW n \in Nat, n \in N
      PROVE  n + 1 \in N
  <2>1. SUFFICES ASSUME NEW s \in SUBSET T, Cardinality(s) = n + 1
                 PROVE  SumOver(f, S \cup s) = SumOver(f, S) + SumOver(f, s)
    OBVIOUS
  <2>2. s # {}
    BY <2>1, Sizes
  <2>3. PICK x \in s : TRUE
    BY <2>2
  <2> DEFINE r == s \ {x}
  <2>4. Cardinality(r) = n /\ r \in SUBSET T /\ IsFiniteSet(r)
    BY <2>1, Sizes, FS_Subset
  <2>5. SumOver(f, S \cup r) = SumOver(f, S) + SumOver(f, r)
    BY <1>2, <2>4
  <2>6. s = r \cup {x} /\ S \cup s = (S \cup r) \cup {x} /\ x \notin r /\ x \notin S \cup r
    OBVIOUS
  <2>7. IsFiniteSet(S \cup r) /\ \A y \in (S \cup r) \cup {x} : f[y] \in Int
    BY <2>4, FS_Union
  <2> HIDE DEF r
  <2>8. SumOver(f, s) = f[x] + SumOver(f, r)
    <3>1. \A y \in r \cup {x} : f[y] \in Int
      BY <2>7
    <3>2. SumOver(f, r \cup {x}) = f[x] + SumOver(f, r)
      BY <2>4, <2>6, <3>1, SumAdds
    <3>3. QED
      BY <2>6, <3>2
  <2>9. SumOver(f, S \cup s) = f[x] + SumOver(f, S \cup r)
    <3>1. SumOver(f, (S \cup r) \cup {x}) = f[x] + SumOver(f, S \cup r)
      BY <2>6, <2>7, SumAdds
    <3>2. QED
      BY <2>6, <3>1
  <2>10. SumOver(f, r) \in Int /\ f[x] \in Int
    BY <2>4, <2>7, SumType
  <2>11. QED
    BY <1>0, <2>5, <2>8, <2>9, <2>10
<1>3. QED
  <2> HIDE DEF N
  <2>1. Nat \subseteq N
    BY <1>1, <1>2, NatSetInduction
  <2>2. Cardinality(T) \in N
    BY <2>1, FS_CardinalityType
  <2>3. QED
    BY <2>2 DEF N

\* A sum of zeros, and a sum of which one term grows.
LEMMA SumZero ==
  ASSUME NEW S, IsFiniteSet(S), NEW f, \A x \in S : f[x] = 0
  PROVE  SumOver(f, S) = 0
<1>1. PICK g : Table(f, S, g)
  BY SumTable
<1> DEFINE N == {n \in Nat : \A s \in SUBSET S : Cardinality(s) = n => g[s] = 0}
<1>2. 0 \in N
  BY <1>1, Sizes DEF Table, Sums, Step
<1>3. ASSUME NEW n \in Nat, n \in N
      PROVE  n + 1 \in N
  <2>1. SUFFICES ASSUME NEW s \in SUBSET S, Cardinality(s) = n + 1
                 PROVE  g[s] = 0
    OBVIOUS
  <2>2. s # {}
    BY <2>1, Sizes
  <2>3. Pick(s) \in s /\ Cardinality(s \ {Pick(s)}) = n /\ s \ {Pick(s)} \in SUBSET S
    BY <2>1, <2>2, PickIn, Sizes
  <2>4. g[s \ {Pick(s)}] = 0 /\ f[Pick(s)] = 0
    BY <1>3, <2>3
  <2>5. g[s] = Step(f, g, s)
    BY <1>1 DEF Table, Sums
  <2>6. QED
    BY <2>2, <2>4, <2>5 DEF Step
<1>4. g[S] = 0
  <2> HIDE DEF N
  <2>1. Nat \subseteq N
    BY <1>2, <1>3, NatSetInduction
  <2>2. QED
    BY <2>1, Sizes DEF N
<1>5. QED
  BY <1>1, <1>4 DEF Table

LEMMA SumGrows ==
  ASSUME NEW S, IsFiniteSet(S), NEW f, \A x \in S : f[x] \in Int,
         NEW y \in S, NEW w \in Int, NEW h, h[y] = f[y] + w, \A x \in S \ {y} : h[x] = f[x]
  PROVE  SumOver(h, S) = SumOver(f, S) + w
<1> DEFINE T == S \ {y}
<1>1. IsFiniteSet(T) /\ \A x \in S : h[x] \in Int
  BY FS_Subset
<1>2. SumOver(f, S) = f[y] + SumOver(f, T) /\ SumOver(h, S) = h[y] + SumOver(h, T)
  BY <1>1, SumTakes
<1>3. SumOver(f, T) = SumOver(h, T)
  <2>1. \A x \in T : f[x] \in Int /\ f[x] = h[x]
    OBVIOUS
  <2> HIDE DEF T
  <2>2. QED
    BY <1>1, <2>1, SumAgrees
<1>4. SumOver(f, T) \in Int
  <2>1. \A x \in T : f[x] \in Int
    OBVIOUS
  <2> HIDE DEF T
  <2>2. QED
    BY <1>1, <2>1, SumType
<1> HIDE DEF T
<1>5. QED
  BY <1>2, <1>3, <1>4
-----------------------------------------------------------------------------
\* A finite set as a sequence.
LEMMA SetToSeqType ==
  ASSUME NEW S, IsFiniteSet(S)
  PROVE  SetToSeq(S) \in [1..Cardinality(S) -> S] /\ Cardinality(S) \in Nat
<1>1. PICK n \in Nat : ExistsBijection(1..n, S)
  BY FS_NatBijection
<1>2. Cardinality(S) = n
  BY <1>1, FS_CountingElements
<1>3. \E f \in [1..n -> S] : IsInjective(f)
  BY <1>1 DEF ExistsBijection, Bijection, Injection
<1>4. QED
  BY <1>2, <1>3 DEF SetToSeq

\* The concatenation of sequences over C is one over C.
Joined(s, n, f) == f = [i \in 1..n |-> IF i = 1 THEN s[i] ELSE f[i - 1] \o s[i]]

LEMMA JoinExists ==
  ASSUME NEW C, NEW s \in Seq(Seq(C))
  PROVE  \A n \in Nat : n =< Len(s) =>
           \E f \in [1..n -> Seq(C)] : Joined(s, n, f)
<1> DEFINE N == {n \in Nat : n =< Len(s) => \E f \in [1..n -> Seq(C)] : Joined(s, n, f)}
<1>1. 0 \in N
  <2> DEFINE f == [i \in 1..0 |-> s[i]]
  <2>1. f \in [1..0 -> Seq(C)] /\ Joined(s, 0, f)
    BY DEF Joined
  <2>2. QED
    BY <2>1
<1>2. ASSUME NEW n \in Nat, n \in N
      PROVE  n + 1 \in N
  <2>1. SUFFICES ASSUME n + 1 =< Len(s)
                 PROVE  \E f \in [1..(n + 1) -> Seq(C)] : Joined(s, n + 1, f)
    OBVIOUS
  <2>2. PICK f \in [1..n -> Seq(C)] : Joined(s, n, f)
    BY <1>2, <2>1
  <2> DEFINE g == [i \in 1..(n + 1) |-> IF i =< n THEN f[i] ELSE IF i = 1 THEN s[i] ELSE f[i - 1] \o s[i]]
  <2>3. s[n + 1] \in Seq(C)
    BY <2>1
  <2>4. n # 0 => f[n] \o s[n + 1] \in Seq(C)
    BY <2>3, ConcatProperties
  <2>5. g \in [1..(n + 1) -> Seq(C)]
    BY <2>3, <2>4
  <2>6. /\ 1 \in 1..n => f[1] = s[1]
        /\ \A i \in 1..n : i # 1 => f[i] = f[i - 1] \o s[i]
    <3>1. \A i \in 1..n : f[i] = IF i = 1 THEN s[i] ELSE f[i - 1] \o s[i]
      BY <2>2 DEF Joined
    <3>2. 1 \in 1..n => f[1] = IF 1 = 1 THEN s[1] ELSE f[1 - 1] \o s[1]
      BY <3>1
    <3>3. QED
      BY <3>1, <3>2
  <2>7. \A i \in 1..(n + 1) : g[i] = IF i = 1 THEN s[i] ELSE g[i - 1] \o s[i]
    <3>1. SUFFICES ASSUME NEW i \in 1..(n + 1)
                   PROVE  g[i] = IF i = 1 THEN s[i] ELSE g[i - 1] \o s[i]
      OBVIOUS
    <3>2. CASE i = 1
      <4>1. g[1] = IF 1 =< n THEN f[1] ELSE s[1]
        OBVIOUS
      <4>2. 1 =< n => f[1] = s[1]
        BY <2>6
      <4>3. QED
        BY <3>2, <4>1, <4>2
    <3>3. CASE i # 1
      <4>1. i - 1 \in 1..n /\ i - 1 \in 1..(n + 1) /\ g[i - 1] = f[i - 1]
        BY <3>3
      <4>2. g[i] = f[i - 1] \o s[i]
        <5>0. i =< n => i \in 1..n
          OBVIOUS
        <5> HIDE DEF g
        <5>1. i =< n => f[i] = f[i - 1] \o s[i]
          BY <2>6, <3>3, <5>0
        <5> USE DEF g
        <5>2. g[i] = IF i =< n THEN f[i] ELSE f[i - 1] \o s[i]
          BY <3>3
        <5>3. QED
          BY <5>1, <5>2
      <4>3. QED
        BY <3>3, <4>1, <4>2
    <3>4. QED
      BY <3>2, <3>3
  <2>8. Joined(s, n + 1, g)
    BY <2>7 DEF Joined
  <2>9. QED
    BY <2>5, <2>8
<1>3. QED
  <2> HIDE DEF N
  <2>1. Nat \subseteq N
    BY <1>1, <1>2, NatSetInduction
  <2>2. QED
    BY <2>1 DEF N

LEMMA FlattenType ==
  ASSUME NEW C, NEW s \in Seq(Seq(C))
  PROVE  FlattenSeq(s) \in Seq(C)
<1>1. CASE Len(s) = 0
  BY <1>1 DEF FlattenSeq
<1>2. CASE Len(s) # 0
  <2> DEFINE n == Len(s)
             h == CHOOSE f : Joined(s, n, f)
             N == {i \in Nat : i \in 1..n => h[i] \in Seq(C)}
  <2>1. Joined(s, n, h)
    BY JoinExists
  <2>2. \A i \in 1..n : h[i] = IF i = 1 THEN s[i] ELSE h[i - 1] \o s[i]
    <3> HIDE DEF h
    <3>1. QED
      BY <2>1 DEF Joined
  <2>3. FlattenSeq(s) = h[n]
    BY <1>2 DEF FlattenSeq, Joined
  <2> HIDE DEF h
  <2>4. 0 \in N
    OBVIOUS
  <2>5. ASSUME NEW i \in Nat, i \in N
        PROVE  i + 1 \in N
    <3>1. SUFFICES ASSUME i + 1 \in 1..n
                   PROVE  h[i + 1] \in Seq(C)
      OBVIOUS
    <3>2. CASE i = 0
      BY <2>2, <3>1, <3>2
    <3>3. CASE i # 0
      <4>1. h[i] \in Seq(C) /\ s[i + 1] \in Seq(C)
        BY <2>5, <3>1, <3>3
      <4>2. h[i + 1] = h[i] \o s[i + 1]
        <5>1. (i + 1) - 1 = i /\ i + 1 # 1
          BY <3>3
        <5>2. h[i + 1] = h[(i + 1) - 1] \o s[i + 1]
          BY <2>2, <3>1, <5>1
        <5>3. QED
          BY <5>1, <5>2
      <4>3. QED
        BY <4>1, <4>2, ConcatProperties
    <3>4. QED
      BY <3>2, <3>3
  <2>6. n \in N
    <3> HIDE DEF N
    <3>1. Nat \subseteq N
      BY <2>4, <2>5, NatSetInduction
    <3>2. QED
      BY <3>1
  <2>7. QED
    BY <1>2, <2>3, <2>6
<1>3. QED
  BY <1>1, <1>2

\* Two sequences put together.
LEMMA FlattenTwo ==
  ASSUME NEW C, NEW a \in Seq(C), NEW b \in Seq(C), NEW s, s = [l \in 1..2 |-> IF l = 1 THEN a ELSE b]
  PROVE  FlattenSeq(s) = a \o b
<1> DEFINE h == CHOOSE f : Joined(s, 2, f)
<1>1. s \in Seq(Seq(C)) /\ Len(s) = 2 /\ s[1] = a /\ s[2] = b
  OBVIOUS
<1>2. \E f \in [1..2 -> Seq(C)] : Joined(s, 2, f)
  <2>1. \A n \in Nat : n =< Len(s) => \E f \in [1..n -> Seq(C)] : Joined(s, n, f)
    BY <1>1, JoinExists
  <2>2. 2 \in Nat /\ 2 =< Len(s)
    BY <1>1
  <2>3. QED
    BY <2>1, <2>2
<1>3. Joined(s, 2, h)
  BY <1>2
<1>4. FlattenSeq(s) = h[2]
  BY <1>1 DEF FlattenSeq, Joined
<1> HIDE DEF h
<1>5. h[1] = s[1] /\ h[2] = h[1] \o s[2]
  <2>1. \A i \in 1..2 : h[i] = IF i = 1 THEN s[i] ELSE h[i - 1] \o s[i]
    BY <1>3 DEF Joined
  <2>2. 1 \in 1..2 /\ 2 \in 1..2 /\ 2 - 1 = 1
    OBVIOUS
  <2>3. QED
    BY <2>1, <2>2
<1>6. QED
  BY <1>1, <1>4, <1>5
=============================================================================
