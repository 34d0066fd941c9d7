---------------------------- MODULE FoldTheorems ----------------------------
(***************************************************************************)
(* Induction and recursion for the definitions that go through a whole     *)
(* text, list or set: the sums of the estimates, the word count, the       *)
(* bytes of a number.                                                      *)
(*                                                                         *)
(* The induction theorems of the library speak about a predicate; the      *)
(* lemmas here speak about the set of the values that satisfy it, so that  *)
(* they can be applied to a set that is written down.  In the same way a   *)
(* fold is described by the functions that satisfy its equations.          *)
(***************************************************************************)
EXTENDS Integers, Sequences, SequencesExt, FiniteSets, FiniteSetsExt, FiniteSetTheorems,
        WellFoundedInduction, TLAPS

-----------------------------------------------------------------------------
\* A set of naturals has a least member.
LEMMA LeastNatural ==
  ASSUME NEW T \in SUBSET Nat, T # {}
  PROVE  \E n \in T : \A m \in T : n <= m
<1> DEFINE R == {ss \in Nat \X Nat : ss[1] < ss[2]}
<1>1. IsWellFoundedOn(R, Nat)
  BY NatLessThanWellFounded DEF OpToRel
<1>2. PICK n \in T : \A m \in T : ~(<<m, n>> \in R)
  <2> HIDE DEF R
  <2> QED BY <1>1, WFMin
<1>3. \A m \in T : n <= m
  <2> TAKE m \in T
  <2>1. m \in Nat /\ n \in Nat OBVIOUS
  <2>2. ~(m < n) BY <1>2, <2>1
  <2> HIDE DEF R
  <2> QED BY <2>1, <2>2
<1> QED BY <1>3

\* Induction over the naturals below a number.
LEMMA CountUp ==
  ASSUME NEW n \in Nat, NEW T, 0 \in T, \A k \in 1..n : k - 1 \in T => k \in T
  PROVE  \A k \in 0..n : k \in T
<1> DEFINE Out == {k \in 0..n : k \notin T}
<1> SUFFICES ASSUME Out # {} PROVE FALSE OBVIOUS
<1>0. Out \in SUBSET Nat OBVIOUS
<1>1. PICK k \in Out : \A m \in Out : k <= m
  <2> HIDE DEF Out
  <2> QED BY <1>0, LeastNatural
<1>2. k \in 1..n /\ k - 1 \in 0..n BY <1>1
<1> QED BY <1>1, <1>2

\* Induction over the naturals.
LEMMA CountAll ==
  ASSUME NEW T, 0 \in T, \A k \in Nat : k \in T => k + 1 \in T
  PROVE  \A k \in Nat : k \in T
<1> TAKE k \in Nat
<1>1. \A i \in 1..k : i - 1 \in T => i \in T
  <2> TAKE i \in 1..k
  <2>1. i - 1 \in Nat /\ (i - 1) + 1 = i OBVIOUS
  <2> QED BY <2>1
<1>2. k \in 0..k OBVIOUS
<1> QED BY <1>1, <1>2, CountUp

\* The same with all smaller numbers as hypothesis.
LEMMA CountFromSmaller ==
  ASSUME NEW T, \A n \in Nat : (\A m \in 0..(n - 1) : m \in T) => n \in T
  PROVE  \A n \in Nat : n \in T
<1> DEFINE Out == {k \in Nat : k \notin T}
<1> SUFFICES ASSUME Out # {} PROVE FALSE OBVIOUS
<1>1. PICK k \in Out : \A m \in Out : k <= m BY LeastNatural
<1>2. \A m \in 0..(k - 1) : m \in T BY <1>1
<1> QED BY <1>2

\* Max finds the last position of a part of 1..n.
LEMMA LastPosition ==
  ASSUME NEW n \in Nat, NEW u \in SUBSET (1..n), u # {}
  PROVE  Max(u) \in u /\ \A i \in u : i <= Max(u)
<1> DEFINE T == {n - i : i \in u}
<1>1. T \in SUBSET Nat /\ T # {}
  <2>1. \A i \in u : n - i \in Nat OBVIOUS
  <2>2. T # {} OBVIOUS
  <2> QED BY <2>1, <2>2
<1>2. PICK t \in T : \A m \in T : t <= m
  <2> HIDE DEF T
  <2> QED BY <1>1, LeastNatural
<1>3. PICK i \in u : t = n - i OBVIOUS
<1>4. \A j \in u : i >= j
  <2> TAKE j \in u
  <2>1. n - i <= n - j BY <1>2, <1>3
  <2> QED BY <2>1
<1>5. \E x \in u : \A y \in u : x >= y BY <1>4
<1>6. Max(u) \in u /\ \A y \in u : Max(u) >= y BY <1>5 DEF Max
<1> QED BY <1>6

LEMMA TopIsMax ==
  ASSUME NEW m \in Nat, NEW u \in SUBSET (1..m), m \in u
  PROVE  Max(u) = m
<1>1. Max(u) \in u /\ \A i \in u : i <= Max(u) BY LastPosition
<1>2. Max(u) \in 1..m /\ m <= Max(u) BY <1>1
<1> QED BY <1>2

\* Induction over the subsets of a finite set, one member at a time.
LEMMA SubsetInduction ==
  ASSUME NEW S, IsFiniteSet(S), NEW T, {} \in T,
         \A s \in SUBSET S : \A x \in s : s \ {x} \in T => s \in T
  PROVE  \A s \in SUBSET S : s \in T
<1> DEFINE N == {n \in Nat : \A s \in SUBSET S : Cardinality(s) = n => s \in T}
<1>1. \A s \in SUBSET S : IsFiniteSet(s) /\ Cardinality(s) \in Nat
  BY FS_Subset, FS_CardinalityType
<1>2. 0 \in N
  BY <1>1, FS_EmptySet
<1>3. \A n \in Nat : n \in N => n + 1 \in N
  <2> SUFFICES ASSUME NEW n \in Nat, n \in N,
                      NEW s \in SUBSET S, Cardinality(s) = n + 1
               PROVE  s \in T
    OBVIOUS
  <2>1. s # {}
    <3>1. Cardinality({}) = 0 BY FS_EmptySet
    <3> QED BY <3>1
  <2>2. PICK x \in s : TRUE BY <2>1
  <2>3. s \ {x} \in SUBSET S /\ Cardinality(s \ {x}) = n
    BY <1>1, FS_RemoveElement
  <2> QED BY <2>2, <2>3
<1>4. \A n \in Nat : n \in N
  <2> HIDE DEF N
  <2> QED BY <1>2, <1>3, CountAll
<1> QED BY <1>1, <1>4

-----------------------------------------------------------------------------
(***************************************************************************)
(* Sums.  g gives the sum of F over every part of S, whichever member is   *)
(* taken out first.                                                        *)
(***************************************************************************)
IsSum(g, F, S) ==
  /\ g \in [SUBSET S -> Int]
  /\ g[{}] = 0
  /\ \A s \in SUBSET S : \A x \in s : g[s] = F[x] + g[s \ {x}]

\* A finite set that can be summed up can still be after one more member.
LEMMA OneMoreSummand ==
  ASSUME NEW S, NEW x, x \notin S, NEW F \in [S \cup {x} -> Int],
         NEW g, IsSum(g, F, S)
  PROVE  IsSum([s \in SUBSET (S \cup {x}) |-> IF x \in s THEN F[x] + g[s \ {x}] ELSE g[s]],
               F, S \cup {x})
<1> DEFINE h == [s \in SUBSET (S \cup {x}) |-> IF x \in s THEN F[x] + g[s \ {x}] ELSE g[s]]
<1>0. g \in [SUBSET S -> Int] /\ g[{}] = 0
  BY DEF IsSum
<1>1. \A s \in SUBSET (S \cup {x}) : /\ s \ {x} \in SUBSET S /\ g[s \ {x}] \in Int
                                    /\ x \notin s => s \in SUBSET S /\ g[s] \in Int
  BY <1>0
<1>2. F[x] \in Int
  OBVIOUS
<1>3. h \in [SUBSET (S \cup {x}) -> Int]
  <2>1. ASSUME NEW s \in SUBSET (S \cup {x})
        PROVE  (IF x \in s THEN F[x] + g[s \ {x}] ELSE g[s]) \in Int
    <3>0. s \ {x} \in SUBSET S /\ (x \notin s => s \in SUBSET S)
      OBVIOUS
    <3>1. g[s \ {x}] \in Int /\ (x \notin s => g[s] \in Int)
      BY <1>0, <3>0
    <3>2. F[x] + g[s \ {x}] \in Int
      BY ONLY <1>2, <3>1
    <3> QED BY <3>1, <3>2
  <2> QED BY <2>1
<1>4. h[{}] = 0
  <2>1. {} \in SUBSET (S \cup {x}) /\ x \notin {} OBVIOUS
  <2> QED BY <1>0, <2>1
<1>5. \A s \in SUBSET (S \cup {x}) : \A y \in s : h[s] = F[y] + h[s \ {y}]
  <2> TAKE s \in SUBSET (S \cup {x})
  <2> TAKE y \in s
  <2>0. s \ {y} \in SUBSET (S \cup {x})
    OBVIOUS
  <2>1. CASE y = x
    BY <2>0, <2>1
  <2>2. CASE y # x /\ x \notin s
    <3>1. g[s] = F[y] + g[s \ {y}]
      BY <1>1, <2>2 DEF IsSum
    <3> QED BY <2>0, <2>2, <3>1
  <2>3. CASE y # x /\ x \in s
    <3>1. s \ {x} \in SUBSET S /\ y \in s \ {x}
      BY <2>3
    <3>2. g[s \ {x}] = F[y] + g[(s \ {x}) \ {y}]
      BY <3>1 DEF IsSum
    <3>3. (s \ {x}) \ {y} = (s \ {y}) \ {x} /\ (s \ {y}) \ {x} \in SUBSET S
      BY <2>3
    <3>4. h[s] = F[x] + g[s \ {x}] /\ h[s \ {y}] = F[x] + g[(s \ {y}) \ {x}]
      BY <2>0, <2>3
    <3>5. F[y] \in Int /\ g[(s \ {y}) \ {x}] \in Int
      BY <1>0, <3>3
    <3>6. g[s \ {x}] = F[y] + g[(s \ {y}) \ {x}]
      BY <3>2, <3>3
    <3>7. h[s] = F[x] + (F[y] + g[(s \ {y}) \ {x}])
      BY <3>4, <3>6
    <3> HIDE DEF h
    <3> QED BY ONLY <1>2, <3>4, <3>5, <3>7
  <2> QED BY <2>1, <2>2, <2>3
<1> HIDE DEF h
<1>6. IsSum(h, F, S \cup {x})
  BY <1>3, <1>4, <1>5 DEF IsSum
<1> QED BY <1>6 DEF h

LEMMA SumExists ==
  ASSUME NEW S, IsFiniteSet(S), NEW F \in [S -> Int]
  PROVE  \E g : IsSum(g, F, S)
<1> DEFINE T == {s \in SUBSET S : \E g : IsSum(g, F, s)}
<1>1. {} \in T
  <2> DEFINE g == [s \in SUBSET {} |-> 0]
  <2>1. g \in [SUBSET {} -> Int] /\ g[{}] = 0
    OBVIOUS
  <2>2. IsSum(g, F, {})
    BY <2>1 DEF IsSum
  <2> QED BY <2>2
<1>2. \A s \in SUBSET S : \A x \in s : s \ {x} \in T => s \in T
  <2> SUFFICES ASSUME NEW s \in SUBSET S, NEW x \in s, s \ {x} \in T
               PROVE  \E g : IsSum(g, F, s)
    OBVIOUS
  <2>1. PICK g : IsSum(g, F, s \ {x})
    OBVIOUS
  <2> DEFINE r == s \ {x}
             E == [y \in r \cup {x} |-> F[y]]
  <2>2. r \cup {x} = s /\ x \notin r /\ E \in [r \cup {x} -> Int]
    OBVIOUS
  <2>3. \A y \in s : E[y] = F[y]
    BY <2>2
  <2>4. IsSum(g, E, r)
    <3>1. \A u \in SUBSET r : \A y \in u : E[y] = F[y]
      BY <2>3
    <3> HIDE DEF E
    <3> QED BY <2>1, <3>1 DEF IsSum
  <2>5. \E h : IsSum(h, E, r \cup {x})
    <3> HIDE DEF r, E
    <3> QED BY <2>2, <2>4, OneMoreSummand
  <2>6. PICK h : IsSum(h, E, s)
    BY <2>2, <2>5
  <2>7. IsSum(h, F, s)
    <3>1. \A u \in SUBSET s : \A y \in u : E[y] = F[y]
      BY <2>3
    <3> HIDE DEF E
    <3> QED BY <2>6, <3>1 DEF IsSum
  <2> QED BY <2>7
<1>3. \A s \in SUBSET S : s \in T
  <2> HIDE DEF T
  <2> QED BY <1>1, <1>2, SubsetInduction
<1> QED BY <1>3

\* h adds up F over S by taking out one member at each step.
AddsUp(h, F, S) ==
  /\ h[{}] = 0
  /\ \A s \in SUBSET S : s # {} => \E x \in s : h[s] = F[x] + h[s \ {x}]

\* Whichever member is taken out, the sum is the same.
LEMMA SumUnique ==
  ASSUME NEW S, IsFiniteSet(S), NEW F \in [S -> Int], NEW g, IsSum(g, F, S),
         NEW h, AddsUp(h, F, S)
  PROVE  \A s \in SUBSET S : h[s] = g[s]
<1> DEFINE N == {n \in Nat : \A s \in SUBSET S : Cardinality(s) = n => h[s] = g[s]}
<1>1. \A s \in SUBSET S : IsFiniteSet(s) /\ Cardinality(s) \in Nat
  BY FS_Subset, FS_CardinalityType
<1>2. 0 \in N
  <2>1. \A s \in SUBSET S : Cardinality(s) = 0 => s = {}
    BY <1>1, FS_EmptySet
  <2>2. g[{}] = 0 /\ h[{}] = 0
    BY DEF IsSum, AddsUp
  <2> QED BY <2>1, <2>2
<1>3. \A n \in Nat : n \in N => n + 1 \in N
  <2> SUFFICES ASSUME NEW n \in Nat, n \in N,
                      NEW s \in SUBSET S, Cardinality(s) = n + 1
               PROVE  h[s] = g[s]
    OBVIOUS
  <2>1. s # {}
    <3>1. Cardinality({}) = 0 BY FS_EmptySet
    <3> QED BY <3>1
  <2>2. PICK x \in s : h[s] = F[x] + h[s \ {x}]
    BY <2>1 DEF AddsUp
  <2>3. s \ {x} \in SUBSET S /\ Cardinality(s \ {x}) = n
    <3>1. IsFiniteSet(s)
      BY <1>1
    <3>2. Cardinality(s \ {x}) = Cardinality(s) - 1
      BY <3>1, FS_RemoveElement
    <3> QED BY <3>2
  <2>4. h[s \ {x}] = g[s \ {x}]
    BY <2>3
  <2>5. g[s] = F[x] + g[s \ {x}]
    BY DEF IsSum
  <2> QED BY <2>2, <2>4, <2>5
<1>4. \A n \in Nat : n \in N
  <2> HIDE DEF N
  <2> QED BY <1>2, <1>3, CountAll
<1> QED BY <1>1, <1>4

LEMMA OneSum ==
  ASSUME NEW S, IsFiniteSet(S), NEW F \in [S -> Int],
         NEW g, IsSum(g, F, S), NEW h, IsSum(h, F, S)
  PROVE  h[S] = g[S]
<1>1. AddsUp(h, F, S)
  <2>1. ASSUME NEW s \in SUBSET S, s # {}
        PROVE  \E x \in s : h[s] = F[x] + h[s \ {x}]
    <3>1. PICK x \in s : TRUE
      BY <2>1
    <3> QED BY <3>1 DEF IsSum
  <2>2. h[{}] = 0
    BY DEF IsSum
  <2> QED BY <2>1, <2>2, Zenon DEF AddsUp
<1>2. \A s \in SUBSET S : h[s] = g[s]
  BY <1>1, SumUnique
<1> QED BY <1>2, Zenon

-----------------------------------------------------------------------------
(***************************************************************************)
(* Folds from the left.  g folds every part of the positions 1..n, in      *)
(* their order: the last position of a part is applied last.               *)
(***************************************************************************)
IsFold(g, V, base, step, n) ==
  /\ g \in [SUBSET (1..n) -> V]
  /\ g[{}] = base
  /\ \A s \in SUBSET (1..n) : s # {} => g[s] = step[Max(s)][g[s \ {Max(s)}]]

LEMMA OneMoreStep ==
  ASSUME NEW V, NEW base \in V, NEW n \in Nat, NEW k \in 1..n,
         NEW step \in [1..n -> [V -> V]], NEW g, IsFold(g, V, base, step, k - 1)
  PROVE  IsFold([s \in SUBSET (1..k) |-> IF k \in s THEN step[k][g[s \ {k}]] ELSE g[s]],
                V, base, step, k)
<1> DEFINE h == [s \in SUBSET (1..k) |-> IF k \in s THEN step[k][g[s \ {k}]] ELSE g[s]]
<1>0. /\ g \in [SUBSET (1..(k - 1)) -> V] /\ g[{}] = base
      /\ \A s \in SUBSET (1..(k - 1)) : s # {} => g[s] = step[Max(s)][g[s \ {Max(s)}]]
  BY DEF IsFold
<1>1. ASSUME NEW s \in SUBSET (1..k), k \notin s PROVE s \in SUBSET (1..(k - 1))
  <2>1. \A i \in s : i \in 1..(k - 1) BY <1>1
  <2> QED BY <2>1
<1>2. ASSUME NEW s \in SUBSET (1..k) PROVE s \ {k} \in SUBSET (1..(k - 1))
  <2>1. s \ {k} \in SUBSET (1..k) /\ k \notin s \ {k} OBVIOUS
  <2> QED BY <1>1, <2>1
<1>3. h \in [SUBSET (1..k) -> V]
  <2>1. ASSUME NEW s \in SUBSET (1..k)
        PROVE  (IF k \in s THEN step[k][g[s \ {k}]] ELSE g[s]) \in V
    <3>1. CASE k \in s
      <4>1. g[s \ {k}] \in V BY <1>0, <1>2
      <4> QED BY <3>1, <4>1
    <3>2. CASE k \notin s BY <1>0, <1>1, <3>2
    <3> QED BY <3>1, <3>2
  <2> QED BY <2>1
<1>4. h[{}] = base
  <2>1. {} \in SUBSET (1..k) /\ k \notin {} OBVIOUS
  <2> QED BY <1>0, <2>1
<1>5. ASSUME NEW s \in SUBSET (1..k), s # {}
      PROVE  h[s] = step[Max(s)][h[s \ {Max(s)}]]
  <2>1. CASE k \in s
    <3>1. Max(s) = k BY <2>1, TopIsMax
    <3>2. h[s] = step[k][g[s \ {k}]] BY <2>1
    <3>3. s \ {k} \in SUBSET (1..k) /\ k \notin s \ {k} OBVIOUS
    <3>4. h[s \ {k}] = g[s \ {k}] BY <3>3
    <3> HIDE DEF h
    <3> QED BY <3>1, <3>2, <3>4
  <2>2. CASE k \notin s
    <3>1. s \in SUBSET (1..(k - 1)) BY <1>1, <2>2
    <3>2. g[s] = step[Max(s)][g[s \ {Max(s)}]] BY <1>0, <1>5, <3>1
    <3>3. s \ {Max(s)} \in SUBSET (1..k) /\ k \notin s \ {Max(s)} BY <2>2
    <3>4. h[s] = g[s] /\ h[s \ {Max(s)}] = g[s \ {Max(s)}] BY <2>2, <3>3
    <3> HIDE DEF h
    <3> QED BY <3>2, <3>4
  <2> QED BY <2>1, <2>2
<1> HIDE DEF h
<1>6. IsFold(h, V, base, step, k)
  BY <1>3, <1>4, <1>5 DEF IsFold
<1> QED BY <1>6 DEF h

LEMMA FoldExists ==
  ASSUME NEW V, NEW base \in V, NEW n \in Nat, NEW step \in [1..n -> [V -> V]]
  PROVE  \E g : IsFold(g, V, base, step, n)
<1> DEFINE T == {k \in 0..n : \E g : IsFold(g, V, base, step, k)}
<1>1. 0 \in T
  <2> DEFINE g == [s \in SUBSET (1..0) |-> base]
  <2>1. 1..0 = {} OBVIOUS
  <2>2. g \in [SUBSET (1..0) -> V] OBVIOUS
  <2>3. g[{}] = base BY <2>1
  <2>4. \A s \in SUBSET (1..0) : s = {} BY <2>1
  <2> HIDE DEF g
  <2>5. IsFold(g, V, base, step, 0) BY <2>2, <2>3, <2>4 DEF IsFold
  <2> QED BY <2>5
<1>2. \A k \in 1..n : k - 1 \in T => k \in T
  <2> SUFFICES ASSUME NEW k \in 1..n, k - 1 \in T
               PROVE  \E g : IsFold(g, V, base, step, k)
    OBVIOUS
  <2>1. PICK g : IsFold(g, V, base, step, k - 1) OBVIOUS
  <2> QED BY <2>1, OneMoreStep
<1>3. \A k \in 0..n : k \in T
  <2> HIDE DEF T
  <2> QED BY <1>1, <1>2, CountUp
<1>4. n \in 0..n OBVIOUS
<1> QED BY <1>3, <1>4

\* What a fold does along the positions: the part 1..k for each k.
LEMMA PrefixLast ==
  ASSUME NEW k \in Nat \ {0}
  PROVE  1..k # {} /\ Max(1..k) = k /\ (1..k) \ {k} = 1..(k - 1)
<1>1. 1..k \in SUBSET (1..k) /\ k \in 1..k OBVIOUS
<1>2. Max(1..k) = k BY <1>1, TopIsMax
<1>3. (1..k) \ {k} = 1..(k - 1) OBVIOUS
<1> QED BY <1>1, <1>2, <1>3

-----------------------------------------------------------------------------
(***************************************************************************)
(* The sums of the community modules.                                      *)
(***************************************************************************)
LEMMA SumFunctionIsSum ==
  ASSUME NEW S, IsFiniteSet(S), NEW f \in [S -> Int]
  PROVE  \E g : IsSum(g, f, S) /\ SumFunction(f) = g[S]
<1>1. PICK g : IsSum(g, f, S)
  BY SumExists
<1> DEFINE one(s) == CHOOSE x \in s : TRUE
           it == CHOOSE h : h = [s \in SUBSET S |-> IF s = {} THEN 0
                                 ELSE f[one(s)] + h[s \ {one(s)}]]
<1>2. \A s \in SUBSET S : s # {} => one(s) \in s
  OBVIOUS
<1>3. g = [s \in SUBSET S |-> IF s = {} THEN 0 ELSE f[one(s)] + g[s \ {one(s)}]]
  <2>1. g \in [SUBSET S -> Int] /\ g[{}] = 0
    BY <1>1 DEF IsSum
  <2>2. \A s \in SUBSET S : g[s] = IF s = {} THEN 0 ELSE f[one(s)] + g[s \ {one(s)}]
    <3> HIDE DEF one
    <3> QED BY <1>1, <1>2 DEF IsSum
  <2> HIDE DEF one
  <2> QED BY <2>1, <2>2
<1>4. it = [s \in SUBSET S |-> IF s = {} THEN 0 ELSE f[one(s)] + it[s \ {one(s)}]]
  BY <1>3, Zenon
<1>5. SumFunction(f) = it[S]
  <2>1. DOMAIN f = S
    OBVIOUS
  <2> QED
    BY <2>1, Zenon DEF SumFunction, SumFunctionOnSet, FoldFunctionOnSet, MapThenFoldSet
<1>6. \A s \in SUBSET S : it[s] = IF s = {} THEN 0 ELSE f[one(s)] + it[s \ {one(s)}]
  <2> HIDE DEF it, one
  <2> QED BY <1>4, Zenon
<1>7. it[{}] = 0
  <2>1. {} \in SUBSET S
    OBVIOUS
  <2> HIDE DEF it, one
  <2> QED BY <1>6, <2>1, Zenon
<1>8. ASSUME NEW s \in SUBSET S, s # {}
      PROVE  \E x \in s : it[s] = f[x] + it[s \ {x}]
  <2> HIDE DEF it, one
  <2>1. one(s) \in s /\ it[s] = f[one(s)] + it[s \ {one(s)}]
    BY <1>2, <1>6, <1>8, Zenon
  <2> QED BY <2>1, Zenon
<1>9. it[S] = g[S]
  <2> HIDE DEF it, one
  <2>1. \A s \in SUBSET S : s # {} => \E x \in s : it[s] = f[x] + it[s \ {x}]
    BY <1>8, Zenon
  <2>2. AddsUp(it, f, S)
    BY <1>7, <2>1, Zenon DEF AddsUp
  <2>3. \A s \in SUBSET S : it[s] = g[s]
    BY <1>1, <2>2, SumUnique
  <2> QED BY <2>3, Zenon
<1> QED BY <1>1, <1>5, <1>9

\* A sum of naturals is one, and is at least each of its summands.
LEMMA SumOfNaturals ==
  ASSUME NEW S, IsFiniteSet(S), NEW f \in [S -> Nat], NEW g, IsSum(g, f, S)
  PROVE  \A s \in SUBSET S : g[s] \in Nat
<1> DEFINE T == {s \in SUBSET S : g[s] \in Nat}
<1>1. {} \in T
  BY DEF IsSum
<1>2. \A s \in SUBSET S : \A x \in s : s \ {x} \in T => s \in T
  <2> SUFFICES ASSUME NEW s \in SUBSET S, NEW x \in s, s \ {x} \in T PROVE g[s] \in Nat
    OBVIOUS
  <2>1. g[s] = f[x] + g[s \ {x}]
    BY DEF IsSum
  <2>2. f[x] \in Nat /\ g[s \ {x}] \in Nat
    OBVIOUS
  <2> QED BY <2>1, <2>2
<1>3. \A s \in SUBSET S : s \in T
  <2> HIDE DEF T
  <2> QED BY <1>1, <1>2, SubsetInduction
<1> QED BY <1>3

\* Sums over the same set compare as their summands do.
LEMMA SumMonotone ==
  ASSUME NEW S, IsFiniteSet(S), NEW f \in [S -> Int], NEW e \in [S -> Int],
         \A x \in S : f[x] <= e[x],
         NEW g, IsSum(g, f, S), NEW h, IsSum(h, e, S)
  PROVE  \A s \in SUBSET S : g[s] <= h[s]
<1> DEFINE T == {s \in SUBSET S : g[s] <= h[s]}
<1>1. {} \in T
  BY DEF IsSum
<1>2. \A s \in SUBSET S : \A x \in s : s \ {x} \in T => s \in T
  <2> SUFFICES ASSUME NEW s \in SUBSET S, NEW x \in s, s \ {x} \in T PROVE g[s] <= h[s]
    OBVIOUS
  <2>1. g[s] = f[x] + g[s \ {x}] /\ h[s] = e[x] + h[s \ {x}]
    BY DEF IsSum
  <2>2. g[s \ {x}] \in Int /\ h[s \ {x}] \in Int
    <3>1. s \ {x} \in SUBSET S
      OBVIOUS
    <3> QED BY <3>1 DEF IsSum
  <2>3. f[x] \in Int /\ e[x] \in Int /\ f[x] <= e[x] /\ g[s \ {x}] <= h[s \ {x}]
    OBVIOUS
  <2> QED BY <2>1, <2>2, <2>3
<1>3. \A s \in SUBSET S : s \in T
  <2> HIDE DEF T
  <2> QED BY <1>1, <1>2, SubsetInduction
<1> QED BY <1>3

\* Two functions that agree but for one argument have sums that differ by
\* what they differ by there.
LEMMA SumUpdate ==
  ASSUME NEW S, IsFiniteSet(S), NEW f \in [S -> Int], NEW e \in [S -> Int], NEW z \in S,
         \A x \in S \ {z} : e[x] = f[x]
  PROVE  SumFunction(e) = SumFunction(f) + (e[z] - f[z])
<1>1. PICK g : IsSum(g, f, S) /\ SumFunction(f) = g[S]
  BY SumFunctionIsSum
<1>2. PICK h : IsSum(h, e, S) /\ SumFunction(e) = h[S]
  BY SumFunctionIsSum
<1> DEFINE T == {s \in SUBSET S : z \notin s => h[s] = g[s]}
<1>3. {} \in T
  BY <1>1, <1>2 DEF IsSum
<1>4. \A s \in SUBSET S : \A x \in s : s \ {x} \in T => s \in T
  <2> SUFFICES ASSUME NEW s \in SUBSET S, NEW x \in s, s \ {x} \in T, z \notin s
               PROVE  h[s] = g[s]
    OBVIOUS
  <2>1. h[s \ {x}] = g[s \ {x}] /\ e[x] = f[x]
    OBVIOUS
  <2>2. g[s] = f[x] + g[s \ {x}] /\ h[s] = e[x] + h[s \ {x}]
    BY <1>1, <1>2 DEF IsSum
  <2> QED BY <2>1, <2>2
<1>5. \A s \in SUBSET S : s \in T
  <2> HIDE DEF T
  <2> QED BY <1>3, <1>4, SubsetInduction
<1>6. S \ {z} \in SUBSET S /\ z \notin S \ {z}
  OBVIOUS
<1>7. h[S \ {z}] = g[S \ {z}] /\ g[S \ {z}] \in Int
  BY <1>1, <1>5, <1>6 DEF IsSum
<1>8. g[S] = f[z] + g[S \ {z}] /\ h[S] = e[z] + h[S \ {z}]
  BY <1>1, <1>2 DEF IsSum
<1>9. f[z] \in Int /\ e[z] \in Int
  OBVIOUS
<1> QED BY ONLY <1>1, <1>2, <1>7, <1>8, <1>9

LEMMA SumOfZeros ==
  ASSUME NEW S, IsFiniteSet(S), NEW f \in [S -> Int], \A x \in S : f[x] = 0
  PROVE  SumFunction(f) = 0
<1>1. PICK g : IsSum(g, f, S) /\ SumFunction(f) = g[S]
  BY SumFunctionIsSum
<1> DEFINE T == {s \in SUBSET S : g[s] = 0}
<1>2. {} \in T
  BY <1>1 DEF IsSum
<1>3. \A s \in SUBSET S : \A x \in s : s \ {x} \in T => s \in T
  <2> SUFFICES ASSUME NEW s \in SUBSET S, NEW x \in s, s \ {x} \in T PROVE g[s] = 0
    OBVIOUS
  <2>1. g[s] = f[x] + g[s \ {x}]
    BY <1>1 DEF IsSum
  <2> QED BY <2>1
<1>4. \A s \in SUBSET S : s \in T
  <2> HIDE DEF T
  <2> QED BY <1>2, <1>3, SubsetInduction
<1> QED BY <1>1, <1>4

-----------------------------------------------------------------------------
(***************************************************************************)
(* Recursive functions of a natural number: the value at n comes from the  *)
(* value at an argument below n.                                           *)
(***************************************************************************)
Descends(prev) == prev \in [Nat -> Nat] /\ \A n \in Nat \ {0} : prev[n] < n

IsRecursion(g, V, base, step, prev, D) ==
  /\ g \in [D -> V]
  /\ g[0] = base
  /\ \A k \in D \ {0} : g[k] = step[k][g[prev[k]]]

Covers(D, n) == 0..n \subseteq D

\* The value at each argument is determined.
LEMMA RecursionUnique ==
  ASSUME NEW V, NEW base, NEW step, NEW prev, Descends(prev), NEW n \in Nat,
         NEW D, NEW E, Covers(D, n), Covers(E, n),
         NEW g, IsRecursion(g, V, base, step, prev, D),
         NEW h, IsRecursion(h, V, base, step, prev, E)
  PROVE  \A k \in 0..n : g[k] = h[k]
<1> DEFINE T == {k \in Nat : k <= n => g[k] = h[k]}
<1>1. \A k \in Nat : (\A j \in 0..(k - 1) : j \in T) => k \in T
  <2> SUFFICES ASSUME NEW k \in Nat, \A j \in 0..(k - 1) : j \in T, k <= n PROVE g[k] = h[k]
    OBVIOUS
  <2>1. CASE k = 0
    BY <2>1 DEF IsRecursion
  <2>2. CASE k # 0
    <3>1. prev[k] \in 0..(k - 1)
      <4>1. prev[k] \in Nat /\ prev[k] < k
        BY <2>2 DEF Descends
      <4> QED BY <4>1
    <3>2. g[prev[k]] = h[prev[k]]
      BY <3>1
    <3>3. k \in D \ {0} /\ k \in E \ {0}
      BY <2>2 DEF Covers
    <3>4. g[k] = step[k][g[prev[k]]] /\ h[k] = step[k][h[prev[k]]]
      <4> HIDE DEF T
      <4> QED BY <3>3, Zenon DEF IsRecursion
    <3> QED BY <3>2, <3>4
  <2> QED BY <2>1, <2>2
<1>2. \A k \in Nat : k \in T
  <2> HIDE DEF T
  <2> QED BY <1>1, CountFromSmaller
<1> QED BY <1>2

LEMMA RecursionBelow ==
  ASSUME NEW V, NEW base \in V, NEW step \in [Nat -> [V -> V]], NEW prev, Descends(prev)
  PROVE  \A n \in Nat : \E g : IsRecursion(g, V, base, step, prev, 0..n)
<1> DEFINE T == {n \in Nat : \E g : IsRecursion(g, V, base, step, prev, 0..n)}
<1>1. 0 \in T
  <2> DEFINE g == [k \in 0..0 |-> base]
  <2>1. g \in [0..0 -> V] /\ g[0] = base /\ (0..0) \ {0} = {}
    OBVIOUS
  <2> HIDE DEF g
  <2>2. IsRecursion(g, V, base, step, prev, 0..0)
    BY <2>1 DEF IsRecursion
  <2> QED BY <2>2
<1>2. \A n \in Nat : n \in T => n + 1 \in T
  <2> SUFFICES ASSUME NEW n \in Nat, n \in T
               PROVE  \E g : IsRecursion(g, V, base, step, prev, 0..(n + 1))
    OBVIOUS
  <2>1. PICK g : IsRecursion(g, V, base, step, prev, 0..n)
    OBVIOUS
  <2> DEFINE m == n + 1
             h == [k \in 0..m |-> IF k = m THEN step[m][g[prev[m]]] ELSE g[k]]
  <2>2. /\ g \in [0..n -> V] /\ g[0] = base
        /\ \A k \in (0..n) \ {0} : g[k] = step[k][g[prev[k]]]
    BY <2>1 DEF IsRecursion
  <2>3. \A k \in 1..m : prev[k] \in 0..n /\ prev[k] < k
    <3>1. ASSUME NEW k \in 1..m PROVE prev[k] \in Nat /\ prev[k] < k
      BY DEF Descends
    <3> QED BY <3>1
  <2>4. step[m][g[prev[m]]] \in V
    <3>1. prev[m] \in 0..n
      BY <2>3
    <3>2. g[prev[m]] \in V
      BY <2>2, <3>1
    <3>3. m \in Nat
      OBVIOUS
    <3> HIDE DEF m
    <3> QED BY <3>2, <3>3
  <2>5. \A k \in 0..m : k # m => k \in 0..n
    OBVIOUS
  <2>6. h \in [0..m -> V]
    <3>1. ASSUME NEW k \in 0..m
          PROVE  (IF k = m THEN step[m][g[prev[m]]] ELSE g[k]) \in V
      BY <2>2, <2>4, <2>5
    <3> QED BY <3>1
  <2>7. h[0] = base
    <3>1. 0 \in 0..m /\ 0 # m
      OBVIOUS
    <3> QED BY <2>2, <3>1
  <2>8. \A k \in 0..n : h[k] = g[k]
    OBVIOUS
  <2>9. ASSUME NEW k \in (0..m) \ {0} PROVE h[k] = step[k][h[prev[k]]]
    <3>1. k \in 1..m
      OBVIOUS
    <3>2. h[prev[k]] = g[prev[k]]
      BY <2>3, <2>8, <3>1
    <3>3. CASE k = m
      <4>1. h[m] = step[m][g[prev[m]]]
        OBVIOUS
      <4> QED BY <3>2, <3>3, <4>1
    <3>4. CASE k # m
      <4>1. k \in (0..n) \ {0}
        BY <3>4
      <4>2. h[k] = g[k] /\ g[k] = step[k][g[prev[k]]]
        BY <2>2, <2>8, <4>1
      <4> QED BY <3>2, <4>2
    <3> QED BY <3>3, <3>4
  <2> HIDE DEF h, m
  <2>10. IsRecursion(h, V, base, step, prev, 0..m)
    BY <2>6, <2>7, <2>9 DEF IsRecursion
  <2> QED BY <2>10 DEF m
<1>3. \A n \in Nat : n \in T
  <2> HIDE DEF T
  <2> QED BY <1>1, <1>2, CountAll
<1> QED BY <1>3

LEMMA RecursionExists ==
  ASSUME NEW V, NEW base \in V, NEW step \in [Nat -> [V -> V]], NEW prev, Descends(prev)
  PROVE  \E f : IsRecursion(f, V, base, step, prev, Nat)
<1> DEFINE below(n) == CHOOSE g : IsRecursion(g, V, base, step, prev, 0..n)
           f == [n \in Nat |-> below(n)[n]]
<1>1. \A n \in Nat : IsRecursion(below(n), V, base, step, prev, 0..n)
  <2>1. \A n \in Nat : \E g : IsRecursion(g, V, base, step, prev, 0..n)
    BY RecursionBelow
  <2> QED BY <2>1, Zenon
<1> HIDE DEF below
<1>2. \A n \in Nat : \A k \in 0..n : below(n)[k] = f[k]
  <2> SUFFICES ASSUME NEW n \in Nat, NEW k \in 0..n PROVE below(n)[k] = below(k)[k]
    OBVIOUS
  <2>1. k \in Nat /\ 0..k \subseteq 0..n /\ 0..k \subseteq 0..k /\ k \in 0..k
    OBVIOUS
  <2>2. IsRecursion(below(n), V, base, step, prev, 0..n)
        /\ IsRecursion(below(k), V, base, step, prev, 0..k)
    BY <1>1, <2>1
  <2>3. \A j \in 0..k : below(n)[j] = below(k)[j]
    <3> DEFINE a == below(n)
               c == below(k)
               D == 0..n
               E == 0..k
    <3>1. /\ IsRecursion(a, V, base, step, prev, D) /\ IsRecursion(c, V, base, step, prev, E)
          /\ Covers(D, k) /\ Covers(E, k) /\ k \in Nat
      BY <2>1, <2>2 DEF Covers
    <3> HIDE DEF a, c, D, E
    <3>2. \A j \in 0..k : a[j] = c[j]
      BY <3>1, RecursionUnique
    <3> QED BY <3>2 DEF a, c
  <2> QED BY <2>1, <2>3
<1>3. f \in [Nat -> V]
  <2>1. ASSUME NEW n \in Nat PROVE below(n)[n] \in V
    <3>1. n \in 0..n
      OBVIOUS
    <3> QED BY <1>1, <3>1 DEF IsRecursion
  <2> QED BY <2>1
<1>4. f[0] = base
  BY <1>1 DEF IsRecursion
<1>5. ASSUME NEW n \in Nat \ {0} PROVE f[n] = step[n][f[prev[n]]]
  <2>1. n \in (0..n) \ {0}
    OBVIOUS
  <2>2. below(n)[n] = step[n][below(n)[prev[n]]]
    <3>1. IsRecursion(below(n), V, base, step, prev, 0..n)
      BY <1>1
    <3> QED BY <2>1, <3>1, Zenon DEF IsRecursion
  <2>3. prev[n] \in 0..n
    <3>1. prev[n] \in Nat /\ prev[n] < n
      BY DEF Descends
    <3> QED BY <3>1
  <2>4. below(n)[prev[n]] = f[prev[n]]
    BY <1>2, <2>3
  <2>5. f[n] = below(n)[n]
    OBVIOUS
  <2> QED BY <2>2, <2>4, <2>5
<1> HIDE DEF f
<1>6. IsRecursion(f, V, base, step, prev, Nat)
  BY <1>3, <1>4, <1>5 DEF IsRecursion
<1> QED BY <1>6
=============================================================================
