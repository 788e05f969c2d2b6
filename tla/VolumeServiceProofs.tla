------------------------ MODULE VolumeServiceProofs ------------------------
(***************************************************************************)
(* Theorems about VolumeService: the ranking and the books agree whatever  *)
(* puts overlap, however far the directory is; where puts do not overlap   *)
(* the byte count is the sum of the books and within capacity; and room is *)
(* made from the cold end, no further than it has to be, until there is    *)
(* none left to make.                                                      *)
(***************************************************************************)
EXTENDS VolumeService, FiniteSetTheorems, WellFoundedInduction, TLAPS

-----------------------------------------------------------------------------
(***************************************************************************)
(* Sums over finite sets.  The library's fold takes an arbitrary element   *)
(* out at a time; induction over a finite set is by a smallest             *)
(* counterexample.                                                         *)
(***************************************************************************)

(* A nonempty set of naturals has a least element. *)
LEMMA Least ==
  ASSUME NEW S \in SUBSET Nat, S # {}
  PROVE  \E n \in S : \A m \in S : n <= m
<1> DEFINE R == { ss \in Nat \X Nat : ss[1] < ss[2] }
<1>1. IsWellFoundedOn(R, Nat)
  BY NatLessThanWellFounded, Zenon DEF OpToRel
<1>2. PICK n \in S : \A m \in S : ~ (<<m, n>> \in R)
  <2> HIDE DEF R
  <2> QED BY WFMin, <1>1
<1>3. ASSUME NEW m \in S PROVE n <= m
  <2>1. n \in Nat /\ m \in Nat OBVIOUS
  <2>2. m < n => <<m, n>> \in R BY <2>1
  <2> QED BY <1>2, <2>1, <2>2
<1> QED BY <1>3

(* Some subset with a property has it while none of its own subsets does.  *)
LEMMA Smallest ==
  ASSUME NEW U, IsFiniteSet(U), NEW B \in SUBSET (SUBSET U), B # {}
  PROVE  \E T \in B : \A x \in T : T \ {x} \notin B
<1> DEFINE sizes == { Cardinality(T) : T \in B }
<1>1. ASSUME NEW T \in SUBSET U PROVE IsFiniteSet(T) /\ Cardinality(T) \in Nat
  BY FS_Subset, FS_CardinalityType
<1>2. sizes \in SUBSET Nat /\ sizes # {}
  BY <1>1
<1>3. PICK n \in sizes : \A m \in sizes : n <= m
  <2> HIDE DEF sizes
  <2> QED BY <1>2, Least
<1>4. PICK T \in B : Cardinality(T) = n
  BY <1>3
<1>5. ASSUME NEW x \in T, T \ {x} \in B PROVE FALSE
  <2>1. Cardinality(T \ {x}) = Cardinality(T) - 1
    BY <1>1, FS_RemoveElement
  <2>2. Cardinality(T) <= Cardinality(T \ {x})
    BY <1>3, <1>4, <1>5
  <2>3. Cardinality(T) \in Nat
    BY <1>1
  <2> QED BY <2>1, <2>2, <2>3
<1> QED BY <1>5

(* The element the fold takes next, and the fold itself. *)
Taken(s) == CHOOSE x \in s : TRUE

Folds(f, S, g) == g = [s \in SUBSET S |-> IF s = {} THEN 0 ELSE f[Taken(s)] + g[s \ {Taken(s)}]]

LEMMA SumIsFold ==
  ASSUME NEW f, NEW S
  PROVE  Sum(f, S) = (CHOOSE g : Folds(f, S, g))[S]
BY DEF Sum, MapThenSumSet, MapThenFoldSet, Folds, Taken

LEMMA TakenIn ==
  ASSUME NEW s, s # {}
  PROVE  Taken(s) \in s
BY DEF Taken

(* There is such a fold: on the small subsets first. *)
LEMMA FoldExists ==
  ASSUME NEW S, IsFiniteSet(S), NEW f, \A x \in S : f[x] \in Int
  PROVE  \E g \in [SUBSET S -> Int] : Folds(f, S, g)
<1> DEFINE D(n) == { s \in SUBSET S : Cardinality(s) <= n }
           Step(g, s) == IF s = {} THEN 0 ELSE f[Taken(s)] + g[s \ {Taken(s)}]
           P(n) == \E g \in [D(n) -> Int] : \A s \in D(n) : g[s] = Step(g, s)
           Bad == { n \in Nat : ~P(n) }
<1>1. ASSUME NEW s \in SUBSET S
      PROVE  /\ IsFiniteSet(s) /\ Cardinality(s) \in Nat /\ (Cardinality(s) = 0 <=> s = {})
             /\ \A x \in s : s \ {x} \in SUBSET S /\ Cardinality(s \ {x}) = Cardinality(s) - 1
  BY FS_Subset, FS_CardinalityType, FS_EmptySet, FS_RemoveElement
<1>2. P(0)
  <2> DEFINE g == [s \in D(0) |-> 0]
  <2>1. \A s \in D(0) : s = {}
    BY <1>1
  <2>2. g \in [D(0) -> Int] /\ \A s \in D(0) : g[s] = Step(g, s)
    BY <2>1
  <2> QED BY <2>2
<1>3. ASSUME NEW n \in Nat, P(n) PROVE P(n + 1)
  <2>1. PICK g \in [D(n) -> Int] : \A s \in D(n) : g[s] = Step(g, s)
    BY <1>3
  <2> DEFINE h == [s \in D(n + 1) |-> Step(g, s)]
  <2>2. ASSUME NEW s \in D(n + 1), s # {}
        PROVE  Taken(s) \in S /\ s \ {Taken(s)} \in D(n) /\ s \ {Taken(s)} \in D(n + 1)
    <3>1. Taken(s) \in s
      BY <2>2, TakenIn
    <3> QED BY <1>1, <3>1
  <2>3. \A s \in D(n) : s \in D(n + 1) /\ h[s] = g[s]
    BY <1>1, <2>1
  <2>4. \A s \in D(n + 1) : Step(g, s) \in Int
    BY <2>2
  <2>5. h \in [D(n + 1) -> Int]
    BY <2>4
  <2>6. \A s \in D(n + 1) : h[s] = Step(h, s)
    <3> TAKE s \in D(n + 1)
    <3>1. CASE s = {}
      BY <3>1
    <3>2. CASE s # {}
      <4>1. h[s] = f[Taken(s)] + g[s \ {Taken(s)}]
        BY <3>2
      <4>2. h[s \ {Taken(s)}] = g[s \ {Taken(s)}]
        BY <2>2, <2>3, <3>2
      <4> HIDE DEF h
      <4> QED BY <3>2, <4>1, <4>2
    <3> QED BY <3>1, <3>2
  <2> HIDE DEF h
  <2> QED BY <2>5, <2>6
<1> HIDE DEF P
<1>4. Bad = {}
  <2> SUFFICES ASSUME Bad # {} PROVE FALSE
    OBVIOUS
  <2>1. PICK m \in Bad : \A k \in Bad : m <= k
    <3>1. Bad \in SUBSET Nat
      OBVIOUS
    <3> HIDE DEF Bad
    <3> QED BY <3>1, Least
  <2>2. m \in Nat /\ m # 0
    BY <1>2
  <2>3. m - 1 \in Nat /\ P(m - 1)
    BY <2>1, <2>2
  <2>4. P((m - 1) + 1)
    BY <1>3, <2>3
  <2>5. (m - 1) + 1 = m
    BY <2>2
  <2> QED BY <2>1, <2>4, <2>5
<1>5. Cardinality(S) \in Nat
  BY FS_CardinalityType
<1>6. P(Cardinality(S))
  BY <1>4, <1>5
<1>7. D(Cardinality(S)) = SUBSET S
  BY FS_Subset
<1>8. PICK g \in [SUBSET S -> Int] : \A s \in SUBSET S : g[s] = Step(g, s)
  BY <1>6, <1>7 DEF P
<1> QED BY <1>8 DEF Folds

(* What the fold satisfies. *)
Steps(f, S, g) ==
  /\ Sum(f, S) = g[S] /\ g[{}] = 0
  /\ \A s \in SUBSET S : s # {} => g[s] = f[Taken(s)] + g[s \ {Taken(s)}]

LEMMA FoldSteps ==
  ASSUME NEW S, IsFiniteSet(S), NEW f, \A x \in S : f[x] \in Int
  PROVE  \E g \in [SUBSET S -> Int] : Steps(f, S, g)
<1> DEFINE g == CHOOSE g : Folds(f, S, g)
<1>1. Folds(f, S, g)
  BY FoldExists
<1>2. Sum(f, S) = g[S]
  BY SumIsFold
<1> HIDE DEF g
<1>3. g = [s \in SUBSET S |-> IF s = {} THEN 0 ELSE f[Taken(s)] + g[s \ {Taken(s)}]]
  BY <1>1 DEF Folds
<1>4. g[{}] = 0 /\ \A s \in SUBSET S : s # {} => g[s] = f[Taken(s)] + g[s \ {Taken(s)}]
  BY <1>3
<1>5. ASSUME NEW s \in SUBSET S, g[s] \notin Int PROVE FALSE
  <2> DEFINE B == { t \in SUBSET S : g[t] \notin Int }
  <2>1. B \in SUBSET (SUBSET S) /\ B # {}
    BY <1>5
  <2>2. PICK t \in B : \A x \in t : t \ {x} \notin B
    <3> HIDE DEF B
    <3> QED BY <2>1, Smallest
  <2>3. t \in SUBSET S /\ g[t] \notin Int
    OBVIOUS
  <2>4. CASE t = {}
    <3>1. g[t] = 0
      BY <1>4, <2>4, Zenon
    <3> QED BY <2>3, <3>1
  <2>5. CASE t # {}
    <3>1. Taken(t) \in t /\ t \ {Taken(t)} \in SUBSET S
      BY <2>3, <2>5, TakenIn
    <3>2. g[t \ {Taken(t)}] \in Int
      BY <2>2, <3>1
    <3>3. g[t] = f[Taken(t)] + g[t \ {Taken(t)}]
      BY <1>4, <2>3, <2>5
    <3>4. f[Taken(t)] \in Int
      BY <2>3, <3>1
    <3> QED BY <2>3, <3>2, <3>3, <3>4
  <2> QED BY <2>4, <2>5
<1>6. g \in [SUBSET S -> Int]
  BY <1>3, <1>5
<1> QED BY <1>2, <1>4, <1>6 DEF Steps

LEMMA SumInt ==
  ASSUME NEW S, IsFiniteSet(S), NEW f, \A x \in S : f[x] \in Int
  PROVE  Sum(f, S) \in Int
<1>1. PICK g \in [SUBSET S -> Int] : Steps(f, S, g)
  BY FoldSteps
<1>2. Sum(f, S) = g[S]
  BY <1>1 DEF Steps
<1> QED BY <1>2

LEMMA SumEmpty ==
  ASSUME NEW f
  PROVE  Sum(f, {}) = 0
<1>1. IsFiniteSet({})
  BY FS_EmptySet
<1>2. PICK g \in [SUBSET {} -> Int] : Steps(f, {}, g)
  BY <1>1, FoldSteps
<1> QED BY <1>2 DEF Steps

(* Two folds agree on what they both sum. *)
LEMMA SumTaken ==
  ASSUME NEW S, IsFiniteSet(S), S # {}, NEW f, \A x \in S : f[x] \in Int
  PROVE  Sum(f, S) = f[Taken(S)] + Sum(f, S \ {Taken(S)})
<1> DEFINE T == S \ {Taken(S)}
<1>0. PICK g \in [SUBSET S -> Int] : Steps(f, S, g)
  BY FoldSteps
<1>1. /\ Sum(f, S) = g[S] /\ g[{}] = 0
      /\ \A s \in SUBSET S : s # {} => g[s] = f[Taken(s)] + g[s \ {Taken(s)}]
  BY <1>0 DEF Steps
<1>2. IsFiniteSet(T) /\ T \in SUBSET S /\ \A x \in T : f[x] \in Int
  BY FS_RemoveElement
<1> HIDE DEF T
<1>6. PICK h \in [SUBSET T -> Int] : Steps(f, T, h)
  BY <1>2, FoldSteps
<1>3. /\ Sum(f, T) = h[T] /\ h[{}] = 0
      /\ \A s \in SUBSET T : s # {} => h[s] = f[Taken(s)] + h[s \ {Taken(s)}]
  BY <1>6 DEF Steps
<1>4. ASSUME NEW s \in SUBSET T, g[s] # h[s] PROVE FALSE
  <2> DEFINE B == { t \in SUBSET T : g[t] # h[t] }
  <2>1. B \in SUBSET (SUBSET T) /\ B # {}
    BY <1>4
  <2>2. PICK t \in B : \A x \in t : t \ {x} \notin B
    <3> HIDE DEF B
    <3> QED BY <1>2, <2>1, Smallest
  <2>3. t # {}
    BY <1>1, <1>3, <2>2
  <2>4. Taken(t) \in t /\ t \ {Taken(t)} \in SUBSET T /\ t \in SUBSET S /\ t \in SUBSET T
    BY <1>2, <2>2, <2>3, TakenIn
  <2>5. g[t \ {Taken(t)}] = h[t \ {Taken(t)}]
    BY <2>2, <2>4
  <2> QED BY <1>1, <1>3, <2>2, <2>3, <2>4, <2>5
<1>5. g[T] = h[T]
  BY <1>4
<1> QED BY <1>1, <1>3, <1>5 DEF T

(* It does not matter which element is taken. *)
LEMMA SumRemove ==
  ASSUME NEW U, IsFiniteSet(U), NEW f, \A x \in U : f[x] \in Int, NEW a \in U
  PROVE  Sum(f, U) = f[a] + Sum(f, U \ {a})
<1> DEFINE B == { T \in SUBSET U : \E x \in T : Sum(f, T) # f[x] + Sum(f, T \ {x}) }
<1> SUFFICES ASSUME B # {} PROVE FALSE
  OBVIOUS
<1>1. PICK T \in B : \A x \in T : T \ {x} \notin B
  <2>1. B \in SUBSET (SUBSET U)
    OBVIOUS
  <2> HIDE DEF B
  <2> QED BY <2>1, Smallest
<1>2. PICK x \in T : Sum(f, T) # f[x] + Sum(f, T \ {x})
  BY <1>1
<1> DEFINE p == Taken(T)
<1>3. p \in T /\ T \in SUBSET U /\ T # {}
  BY <1>1, <1>2, TakenIn
<1>4. \A R \in SUBSET U : IsFiniteSet(R) /\ Sum(f, R) \in Int
  BY FS_Subset, SumInt
<1>5. Sum(f, T) = f[p] + Sum(f, T \ {p})
  BY <1>3, <1>4, SumTaken
<1> HIDE DEF p
<1>6. x # p
  BY <1>2, <1>5
<1>7. Sum(f, T \ {p}) = f[x] + Sum(f, (T \ {p}) \ {x})
  <2>1. T \ {p} \in SUBSET U /\ T \ {p} \notin B /\ x \in T \ {p}
    BY <1>1, <1>3, <1>6
  <2> QED BY <2>1
<1>8. Sum(f, T \ {x}) = f[p] + Sum(f, (T \ {x}) \ {p})
  <2>1. T \ {x} \in SUBSET U /\ T \ {x} \notin B /\ p \in T \ {x}
    BY <1>1, <1>3, <1>6
  <2> QED BY <2>1
<1>9. (T \ {p}) \ {x} = (T \ {x}) \ {p} /\ (T \ {p}) \ {x} \in SUBSET U
  BY <1>3
<1>10. Sum(f, (T \ {p}) \ {x}) \in Int /\ f[x] \in Int /\ f[p] \in Int
  BY <1>3, <1>4, <1>9
<1> QED BY SMTT(30), <1>2, <1>5, <1>7, <1>8, <1>9, <1>10

LEMMA SumAdd ==
  ASSUME NEW S, IsFiniteSet(S), NEW f, NEW a, a \notin S, f[a] \in Int, \A x \in S : f[x] \in Int
  PROVE  Sum(f, S \union {a}) = f[a] + Sum(f, S)
<1>1. IsFiniteSet(S \union {a}) /\ \A x \in S \union {a} : f[x] \in Int
  BY FS_AddElement
<1>2. (S \union {a}) \ {a} = S
  OBVIOUS
<1>3. Sum(f, S \union {a}) = f[a] + Sum(f, (S \union {a}) \ {a})
  BY <1>1, SumRemove
<1> QED BY <1>2, <1>3

(* A sum depends on the values alone. *)
LEMMA SumSame ==
  ASSUME NEW S, IsFiniteSet(S), NEW f, NEW g, \A x \in S : f[x] \in Int /\ g[x] = f[x]
  PROVE  Sum(f, S) = Sum(g, S)
<1> DEFINE B == { T \in SUBSET S : Sum(f, T) # Sum(g, T) }
<1> SUFFICES ASSUME B # {} PROVE FALSE
  OBVIOUS
<1>1. PICK T \in B : \A x \in T : T \ {x} \notin B
  <2>1. B \in SUBSET (SUBSET S)
    OBVIOUS
  <2> HIDE DEF B
  <2> QED BY <2>1, Smallest
<1>2. T \in SUBSET S /\ IsFiniteSet(T) /\ Sum(f, T) # Sum(g, T)
  BY <1>1, FS_Subset
<1>3. T # {}
  BY <1>2, SumEmpty
<1>4. PICK x \in T : TRUE
  BY <1>3
<1>5. Sum(f, T) = f[x] + Sum(f, T \ {x}) /\ Sum(g, T) = g[x] + Sum(g, T \ {x})
  <2>1. \A y \in T : f[y] \in Int
    BY <1>2
  <2>2. \A y \in T : g[y] \in Int
    BY <1>2
  <2> QED BY <1>2, <1>4, <2>1, <2>2, SumRemove
<1>6. Sum(f, T \ {x}) = Sum(g, T \ {x}) /\ f[x] = g[x]
  BY <1>1, <1>2, <1>4
<1> QED BY <1>2, <1>5, <1>6

(* Disjoint sets are summed one after the other. *)
LEMMA SumUnion ==
  ASSUME NEW A, NEW S, IsFiniteSet(A), IsFiniteSet(S), A \cap S = {},
         NEW f, \A x \in A \union S : f[x] \in Int
  PROVE  Sum(f, A \union S) = Sum(f, A) + Sum(f, S)
<1> DEFINE B == { T \in SUBSET S : Sum(f, A \union T) # Sum(f, A) + Sum(f, T) }
<1> SUFFICES ASSUME B # {} PROVE FALSE
  OBVIOUS
<1>1. PICK T \in B : \A x \in T : T \ {x} \notin B
  <2>1. B \in SUBSET (SUBSET S)
    OBVIOUS
  <2> HIDE DEF B
  <2> QED BY <2>1, Smallest
<1>2. T \in SUBSET S /\ IsFiniteSet(T) /\ Sum(f, A \union T) # Sum(f, A) + Sum(f, T)
  BY <1>1, FS_Subset
<1>3. Sum(f, A) \in Int
  BY SumInt
<1>4. CASE T = {}
  <2>1. A \union T = A /\ Sum(f, T) = 0
    BY <1>4, SumEmpty
  <2>2. Sum(f, A \union T) = Sum(f, A)
    BY <2>1, Zenon
  <2> QED BY <1>2, <1>3, <2>1, <2>2
<1>5. ASSUME NEW x \in T PROVE FALSE
  <2>1. IsFiniteSet(A \union T) /\ \A y \in A \union T : f[y] \in Int
    BY <1>2, FS_Union
  <2>2. (A \union T) \ {x} = A \union (T \ {x}) /\ x \in A \union T
    BY <1>2, <1>5
  <2>3. Sum(f, A \union T) = f[x] + Sum(f, A \union (T \ {x}))
    BY <2>1, <2>2, SumRemove
  <2>4. Sum(f, T) = f[x] + Sum(f, T \ {x})
    BY <1>2, <1>5, <2>1, SumRemove
  <2>5. Sum(f, A \union (T \ {x})) = Sum(f, A) + Sum(f, T \ {x})
    BY <1>1, <1>2, <1>5
  <2>6. IsFiniteSet(T \ {x}) /\ \A y \in T \ {x} : f[y] \in Int
    BY <1>2, <2>1, FS_RemoveElement
  <2>7. Sum(f, T \ {x}) \in Int /\ f[x] \in Int
    BY <1>5, <2>1, <2>6, SumInt
  <2> QED BY <1>2, <1>3, <2>3, <2>4, <2>5, <2>7
<1> QED BY <1>4, <1>5

(* A sum of naturals is one. *)
LEMMA SumNat ==
  ASSUME NEW S, IsFiniteSet(S), NEW f, \A x \in S : f[x] \in Nat
  PROVE  Sum(f, S) \in Nat
<1> DEFINE B == { T \in SUBSET S : Sum(f, T) \notin Nat }
<1> SUFFICES ASSUME B # {} PROVE FALSE
  OBVIOUS
<1>1. PICK T \in B : \A x \in T : T \ {x} \notin B
  <2>1. B \in SUBSET (SUBSET S)
    OBVIOUS
  <2> HIDE DEF B
  <2> QED BY <2>1, Smallest
<1>2. T \in SUBSET S /\ IsFiniteSet(T) /\ Sum(f, T) \notin Nat
  BY <1>1, FS_Subset
<1>3. CASE T = {}
  <2>1. Sum(f, T) = 0
    BY <1>3, SumEmpty
  <2> QED BY <1>2, <2>1
<1>4. ASSUME NEW x \in T PROVE FALSE
  <2>1. \A y \in T : f[y] \in Int
    BY <1>2
  <2>2. Sum(f, T) = f[x] + Sum(f, T \ {x})
    BY <1>2, <1>4, <2>1, SumRemove
  <2>3. Sum(f, T \ {x}) \in Nat /\ f[x] \in Nat
    BY <1>1, <1>2, <1>4
  <2> QED BY <1>2, <2>2, <2>3
<1> QED BY <1>3, <1>4

(* Of naturals, a subset has no more. *)
LEMMA SumSubset ==
  ASSUME NEW S, IsFiniteSet(S), NEW T \in SUBSET S, NEW f, \A x \in S : f[x] \in Nat
  PROVE  /\ Sum(f, S) \in Nat /\ Sum(f, T) \in Nat
         /\ Sum(f, S) = Sum(f, T) + Sum(f, S \ T) /\ Sum(f, T) <= Sum(f, S)
<1>1. IsFiniteSet(T) /\ IsFiniteSet(S \ T) /\ S = T \union (S \ T) /\ T \cap (S \ T) = {}
  BY FS_Subset, FS_Difference
<1>2. Sum(f, S) \in Nat /\ Sum(f, T) \in Nat /\ Sum(f, S \ T) \in Nat
  <2>1. \A x \in T : f[x] \in Nat
    OBVIOUS
  <2>2. \A x \in S \ T : f[x] \in Nat
    OBVIOUS
  <2> QED BY <1>1, <2>1, <2>2, SumNat
<1>3. Sum(f, T \union (S \ T)) = Sum(f, T) + Sum(f, S \ T)
  <2>1. \A x \in T \union (S \ T) : f[x] \in Int
    OBVIOUS
  <2> QED BY <1>1, <2>1, SumUnion
<1>4. Sum(f, S) = Sum(f, T) + Sum(f, S \ T)
  BY <1>1, <1>3, Zenon
<1> QED BY <1>2, <1>4

(* Zeros add nothing. *)
LEMMA SumZero ==
  ASSUME NEW S, IsFiniteSet(S), NEW f, \A x \in S : f[x] = 0
  PROVE  Sum(f, S) = 0
<1> DEFINE B == { T \in SUBSET S : Sum(f, T) # 0 }
<1> SUFFICES ASSUME B # {} PROVE FALSE
  OBVIOUS
<1>1. PICK T \in B : \A x \in T : T \ {x} \notin B
  <2>1. B \in SUBSET (SUBSET S)
    OBVIOUS
  <2> HIDE DEF B
  <2> QED BY <2>1, Smallest
<1>2. T \in SUBSET S /\ IsFiniteSet(T) /\ Sum(f, T) # 0
  BY <1>1, FS_Subset
<1>3. PICK x \in T : TRUE
  BY <1>2, SumEmpty
<1>4. Sum(f, T) = f[x] + Sum(f, T \ {x})
  <2>1. \A y \in T : f[y] \in Int
    BY <1>2
  <2> QED BY <1>2, <1>3, <2>1, SumRemove
<1>5. Sum(f, T \ {x}) = 0 /\ f[x] = 0
  BY <1>1, <1>2, <1>3
<1> QED BY <1>2, <1>4, <1>5

(* The sum of the differences is the difference of the sums. *)
LEMMA SumMinus ==
  ASSUME NEW S, IsFiniteSet(S), NEW f, NEW g, NEW d,
         \A x \in S : f[x] \in Int /\ g[x] \in Int /\ d[x] = f[x] - g[x]
  PROVE  Sum(d, S) = Sum(f, S) - Sum(g, S)
<1> DEFINE B == { T \in SUBSET S : Sum(d, T) # Sum(f, T) - Sum(g, T) }
<1> SUFFICES ASSUME B # {} PROVE FALSE
  OBVIOUS
<1>1. PICK T \in B : \A x \in T : T \ {x} \notin B
  <2>1. B \in SUBSET (SUBSET S)
    OBVIOUS
  <2> HIDE DEF B
  <2> QED BY <2>1, Smallest
<1>2. T \in SUBSET S /\ IsFiniteSet(T) /\ Sum(d, T) # Sum(f, T) - Sum(g, T)
  BY <1>1, FS_Subset
<1>3. PICK x \in T : TRUE
  <2>1. Sum(f, {}) = 0 /\ Sum(g, {}) = 0 /\ Sum(d, {}) = 0
    BY SumEmpty
  <2>2. T # {}
    <3> SUFFICES ASSUME T = {} PROVE FALSE
      OBVIOUS
    <3>1. Sum(f, T) = 0 /\ Sum(g, T) = 0 /\ Sum(d, T) = 0
      BY <2>1, Zenon
    <3> QED BY <1>2, <3>1
  <2> QED BY <2>2
<1>4. /\ \A y \in T : f[y] \in Int
      /\ \A y \in T : g[y] \in Int
      /\ \A y \in T : d[y] \in Int
  BY <1>2
<1>5. /\ Sum(f, T) = f[x] + Sum(f, T \ {x})
      /\ Sum(g, T) = g[x] + Sum(g, T \ {x})
      /\ Sum(d, T) = d[x] + Sum(d, T \ {x})
  BY <1>2, <1>3, <1>4, SumRemove
<1>6. Sum(d, T \ {x}) = Sum(f, T \ {x}) - Sum(g, T \ {x})
  BY <1>1, <1>2, <1>3
<1>7. IsFiniteSet(T \ {x})
  BY <1>2, FS_RemoveElement
<1>8. /\ \A y \in T \ {x} : f[y] \in Int
      /\ \A y \in T \ {x} : g[y] \in Int
  BY <1>4
<1>9. Sum(f, T \ {x}) \in Int /\ Sum(g, T \ {x}) \in Int
  BY <1>7, <1>8, SumInt
<1>10. f[x] \in Int /\ g[x] \in Int /\ d[x] = f[x] - g[x]
  BY <1>2, <1>3
<1> QED BY <1>2, <1>5, <1>6, <1>9, <1>10

-----------------------------------------------------------------------------
(***************************************************************************)
(* The volume.                                                             *)
(***************************************************************************)

Shape(v) ==
  /\ v.kv \in [Keys -> Nat] /\ v.by \in [Keys -> Nat] /\ v.total \in Int
  /\ v.used \in [Keys -> Nat] /\ v.size \in [Keys -> Nat] /\ v.clock \in Nat
  /\ v = [kv |-> v.kv, by |-> v.by, total |-> v.total, peak |-> v.peak,
          used |-> v.used, size |-> v.size, clock |-> v.clock]

Agrees(v) ==
  \A k \in Keys : v.size[k] = v.by[k] /\ (v.by[k] > 0 => v.used[k] > 0)

(* No two keys were used at one time, and none after the last use. *)
Ordered(v) ==
  \A j, k \in Keys : v.used[j] <= v.clock /\ (v.used[j] = v.used[k] /\ v.used[j] > 0 => j = k)

Ranked(v) == Shape(v) /\ Agrees(v) /\ Ordered(v)

LEMMA WrittenKeys ==
  ASSUME NEW c \in Calls
  PROVE  /\ Written(c) \in SUBSET Keys /\ IsFiniteSet(Written(c))
         /\ \A k \in Written(c) : Writes[c][k] \in Nat \ {0}
<1>1. Written(c) \in SUBSET Keys /\ \A k \in Written(c) : Writes[c][k] \in Nat \ {0}
  BY VolumeAssumption DEF Written
<1> QED BY <1>1, FS_Subset, VolumeAssumption

(* What noting keys changes. *)
LEMMA UsedFields ==
  ASSUME NEW v, Shape(v), NEW S \in SUBSET Keys, NEW w \in Used(v, S)
  PROVE  /\ w.kv = v.kv /\ w.by = v.by /\ w.total = v.total /\ w.peak = v.peak
         /\ w = [kv |-> w.kv, by |-> w.by, total |-> w.total, peak |-> w.peak,
                 used |-> w.used, size |-> w.size, clock |-> w.clock]
BY DEF Used, Shape

(* Noting keys gives each a rank of its own and its bytes. *)
LEMMA UsedRanked ==
  ASSUME NEW v, Shape(v), Ordered(v), NEW S \in SUBSET Keys,
         \A k \in Keys \ S : v.size[k] = v.by[k] /\ (v.by[k] > 0 => v.used[k] > 0),
         \A k \in S : v.by[k] > 0 \/ v.size[k] = 0,
         NEW w \in Used(v, S)
  PROVE  Ranked(w)
<1> DEFINE n == Cardinality(S)
<1>1. n \in Nat
  BY FS_Subset, FS_CardinalityType, VolumeAssumption
<1>2. PICK at \in { f \in [S -> v.clock + 1 .. v.clock + n] :
                      \A j, k \in S : j # k => f[j] # f[k] } :
        w = [v EXCEPT !.clock = @ + n,
                      !.used = [k \in Keys |-> IF k \in S THEN at[k] ELSE @[k]],
                      !.size = [k \in Keys |-> IF k \in S /\ v.by[k] > 0 THEN v.by[k]
                                                                       ELSE @[k]]]
  BY DEF Used
<1>3. at \in [S -> v.clock + 1 .. v.clock + n] /\ \A j, k \in S : j # k => at[j] # at[k]
  BY <1>2
<1> HIDE DEF n
<1>4. /\ w.clock = v.clock + n
      /\ w.used = [k \in Keys |-> IF k \in S THEN at[k] ELSE v.used[k]]
      /\ w.size = [k \in Keys |-> IF k \in S /\ v.by[k] > 0 THEN v.by[k] ELSE v.size[k]]
  BY <1>2 DEF Shape
<1>5. /\ w.kv = v.kv /\ w.by = v.by /\ w.total = v.total
      /\ w = [kv |-> w.kv, by |-> w.by, total |-> w.total, peak |-> w.peak,
              used |-> w.used, size |-> w.size, clock |-> w.clock]
  BY UsedFields
<1>6. \A k \in S : at[k] \in Nat /\ at[k] > v.clock /\ at[k] <= v.clock + n
  BY <1>1, <1>3 DEF Shape
<1>7. v.clock \in Nat /\ \A k \in Keys : v.used[k] \in Nat /\ v.used[k] <= v.clock
  BY DEF Shape, Ordered
<1>8. Shape(w)
  BY <1>1, <1>4, <1>5, <1>6 DEF Shape
<1>9. Agrees(w)
  BY <1>4, <1>5, <1>6, <1>7 DEF Shape, Agrees
<1>10. Ordered(w)
  <2> SUFFICES ASSUME NEW j \in Keys, NEW k \in Keys
               PROVE  /\ w.used[j] <= w.clock
                      /\ w.used[j] = w.used[k] /\ w.used[j] > 0 => j = k
    BY DEF Ordered
  <2>1. /\ w.used[j] = IF j \in S THEN at[j] ELSE v.used[j]
        /\ w.used[k] = IF k \in S THEN at[k] ELSE v.used[k]
    BY <1>4
  <2>2. w.used[j] <= w.clock
    BY <1>1, <1>4, <1>6, <1>7, <2>1
  <2>3. CASE j \in S /\ k \in S
    BY <1>3, <2>1, <2>2, <2>3
  <2>4. CASE j \notin S /\ k \notin S
    BY <2>1, <2>2, <2>4 DEF Ordered
  <2>5. CASE (j \in S) # (k \in S)
    BY <1>6, <1>7, <2>1, <2>2, <2>5
  <2> QED BY <2>3, <2>4, <2>5
<1> QED BY <1>8, <1>9, <1>10 DEF Ranked

(* What deleting keys changes. *)
Without(f, S) == [k \in Keys |-> IF k \in S THEN 0 ELSE f[k]]

LEMMA DeletedFields ==
  ASSUME NEW v, Shape(v), NEW S
  PROVE  LET w == Deleted(v, S)
         IN /\ w.kv = Without(v.kv, S) /\ w.by = Without(v.by, S)
            /\ w.total = v.total - Sum(v.by, S)
            /\ w.used = Without(v.used, S) /\ w.size = Without(v.size, S)
            /\ w.clock = v.clock
            /\ w = [kv |-> w.kv, by |-> w.by, total |-> w.total, peak |-> w.peak,
                    used |-> w.used, size |-> w.size, clock |-> w.clock]
<1> DEFINE w == Deleted(v, S)
           left == v.total - Sum(v.by, S)
           kv == Without(v.kv, S)
           by == Without(v.by, S)
           used == Without(v.used, S)
           size == Without(v.size, S)
<1>1. w = [v EXCEPT !.kv = kv, !.by = by, !.total = left, !.used = used, !.size = size]
  BY DEF Deleted, Shape, Without
<1> HIDE DEF w, left, kv, by, used, size
<1>2. /\ w.kv = kv /\ w.by = by /\ w.total = left /\ w.used = used /\ w.size = size
      /\ w.clock = v.clock
      /\ w = [kv |-> w.kv, by |-> w.by, total |-> w.total, peak |-> w.peak,
              used |-> w.used, size |-> w.size, clock |-> w.clock]
  BY <1>1 DEF Shape
<1> QED BY <1>2 DEF w, left, kv, by, used, size

(* Deleting keys takes their bytes and their rank. *)
LEMMA DeletedRanked ==
  ASSUME NEW v, Ranked(v), NEW S \in SUBSET Keys
  PROVE  Ranked(Deleted(v, S))
<1> DEFINE w == Deleted(v, S)
<1>1. /\ w.kv = Without(v.kv, S) /\ w.by = Without(v.by, S)
      /\ w.total = v.total - Sum(v.by, S)
      /\ w.used = Without(v.used, S) /\ w.size = Without(v.size, S) /\ w.clock = v.clock
      /\ w = [kv |-> w.kv, by |-> w.by, total |-> w.total, peak |-> w.peak,
              used |-> w.used, size |-> w.size, clock |-> w.clock]
  BY DeletedFields DEF Ranked
<1>2. Sum(v.by, S) \in Int
  <2>1. IsFiniteSet(S)
    BY FS_Subset, VolumeAssumption
  <2>2. \A k \in S : v.by[k] \in Int
    BY DEF Ranked, Shape
  <2> QED BY <2>1, <2>2, SumInt
<1> HIDE DEF w
<1>3. Shape(w)
  BY <1>1, <1>2 DEF Ranked, Shape, Without
<1>4. Agrees(w)
  BY <1>1 DEF Ranked, Shape, Agrees, Without
<1>5. Ordered(w)
  BY <1>1 DEF Ranked, Shape, Ordered, Without
<1> QED BY <1>3, <1>4, <1>5 DEF Ranked, w

(* What the values of a put change before it is settled. *)
LEMMA LandedFields ==
  ASSUME NEW v, Shape(v), NEW c
  PROVE  LET w == Landed(v, c)
         IN /\ w.kv = [k \in Keys |-> IF k \in Written(c) THEN Writes[c][k] ELSE v.kv[k]]
            /\ w.by = v.by /\ w.total = v.total /\ w.used = v.used /\ w.size = v.size
            /\ w.clock = v.clock
            /\ w = [kv |-> w.kv, by |-> w.by, total |-> w.total, peak |-> w.peak,
                    used |-> w.used, size |-> w.size, clock |-> w.clock]
BY DEF Landed, Shape

LEMMA LandedRanked ==
  ASSUME NEW v, Ranked(v), NEW c \in Calls
  PROVE  Ranked(Landed(v, c))
<1> DEFINE w == Landed(v, c)
<1>1. /\ w.kv = [k \in Keys |-> IF k \in Written(c) THEN Writes[c][k] ELSE v.kv[k]]
      /\ w.by = v.by /\ w.total = v.total /\ w.used = v.used /\ w.size = v.size
      /\ w.clock = v.clock
      /\ w = [kv |-> w.kv, by |-> w.by, total |-> w.total, peak |-> w.peak,
              used |-> w.used, size |-> w.size, clock |-> w.clock]
  BY LandedFields DEF Ranked
<1>2. w.kv \in [Keys -> Nat]
  BY <1>1, WrittenKeys DEF Ranked, Shape
<1> HIDE DEF w
<1>3. Ranked(w)
  BY <1>1, <1>2 DEF Ranked, Shape, Agrees, Ordered
<1> QED BY <1>3 DEF w

LEMMA RolledBackFields ==
  ASSUME NEW v, Shape(v), NEW c
  PROVE  LET w == RolledBack(v, c)
         IN /\ w.kv = [k \in Keys |-> IF k \in Written(c) /\ v.by[k] = 0 THEN 0 ELSE v.kv[k]]
            /\ w.by = v.by /\ w.total = v.total /\ w.used = v.used /\ w.size = v.size
            /\ w.clock = v.clock
            /\ w = [kv |-> w.kv, by |-> w.by, total |-> w.total, peak |-> w.peak,
                    used |-> w.used, size |-> w.size, clock |-> w.clock]
BY DEF RolledBack, Shape

LEMMA RolledBackRanked ==
  ASSUME NEW v, Ranked(v), NEW c
  PROVE  Ranked(RolledBack(v, c))
<1> DEFINE w == RolledBack(v, c)
<1>1. /\ w.kv = [k \in Keys |-> IF k \in Written(c) /\ v.by[k] = 0 THEN 0 ELSE v.kv[k]]
      /\ w.by = v.by /\ w.total = v.total /\ w.used = v.used /\ w.size = v.size
      /\ w.clock = v.clock
      /\ w = [kv |-> w.kv, by |-> w.by, total |-> w.total, peak |-> w.peak,
              used |-> w.used, size |-> w.size, clock |-> w.clock]
  BY RolledBackFields DEF Ranked
<1> HIDE DEF w
<1>2. Ranked(w)
  BY <1>1 DEF Ranked, Shape, Agrees, Ordered
<1> QED BY <1>2 DEF w

(* Committing a put books its keys' bytes and notes them. *)
LEMMA CommittedRanked ==
  ASSUME NEW v, Ranked(v), NEW c \in Calls, NEW total \in Int, NEW w \in Committed(v, c, total)
  PROVE  /\ Ranked(w) /\ w.kv = v.kv /\ w.total = total
         /\ w.by = [k \in Keys |-> IF k \in Written(c) THEN Writes[c][k] ELSE v.by[k]]
<1> DEFINE by == [k \in Keys |-> IF k \in Written(c) THEN Writes[c][k] ELSE v.by[k]]
           booked == [v EXCEPT !.by = by]
<1>1. Written(c) \in SUBSET Keys /\ \A k \in Written(c) : Writes[c][k] \in Nat \ {0}
  BY WrittenKeys
<1>2. PICK u \in Used(booked, Written(c)) :
        w = [u EXCEPT !.total = total, !.peak = IF total > @ THEN total ELSE @]
  BY DEF Committed
<1>3. /\ booked.by = by /\ booked.used = v.used /\ booked.size = v.size
      /\ booked.clock = v.clock /\ booked.kv = v.kv /\ booked.total = v.total
      /\ booked = [kv |-> booked.kv, by |-> booked.by, total |-> booked.total,
                   peak |-> booked.peak, used |-> booked.used, size |-> booked.size,
                   clock |-> booked.clock]
  BY DEF Ranked, Shape
<1> HIDE DEF booked
<1>4. Shape(booked) /\ Ordered(booked)
  BY <1>1, <1>3 DEF Ranked, Shape, Ordered
<1>5. /\ \A k \in Keys \ Written(c) : /\ booked.size[k] = booked.by[k]
                                      /\ booked.by[k] > 0 => booked.used[k] > 0
      /\ \A k \in Written(c) : booked.by[k] > 0
  BY <1>1, <1>3 DEF Ranked, Shape, Agrees
<1>6. Ranked(u)
  BY <1>1, <1>2, <1>4, <1>5, UsedRanked
<1>7. u.kv = v.kv /\ u.by = by
  BY <1>1, <1>2, <1>3, <1>4, UsedFields
<1>8. /\ w.kv = u.kv /\ w.by = u.by /\ w.total = total /\ w.used = u.used /\ w.size = u.size
      /\ w.clock = u.clock
      /\ w = [kv |-> w.kv, by |-> w.by, total |-> w.total, peak |-> w.peak,
              used |-> w.used, size |-> w.size, clock |-> w.clock]
  BY <1>2, <1>6 DEF Ranked, Shape
<1>9. Ranked(w)
  BY <1>6, <1>8 DEF Ranked, Shape, Agrees, Ordered
<1> QED BY <1>7, <1>8, <1>9

LEMMA SettleRanked ==
  ASSUME NEW c \in Calls, NEW v, Ranked(v), NEW total \in Int, Settle(c, v, total)
  PROVE  Ranked(vol')
<1>1. CASE vol' \in Committed(v, c, total) BY <1>1, CommittedRanked
<1>2. CASE vol' = RolledBack(v, c) BY <1>2, RolledBackRanked
<1> QED BY <1>1, <1>2 DEF Settle

-----------------------------------------------------------------------------
(***************************************************************************)
(* The ranking and the books, for every kind of directory.                 *)
(***************************************************************************)

(* What is dropped for a put is resident, ranked and not what it writes. *)
LEMMA RoomKeys ==
  ASSUME NEW v, NEW c
  PROVE  /\ Room(v, c) \in SUBSET Keys /\ Room(v, c) \cap Written(c) = {}
         /\ \A k \in Room(v, c) : v.by[k] > 0
BY DEF Room, Victims, Held

(* The bytes of a set of keys. *)
LEMMA BytesNat ==
  ASSUME NEW v, Shape(v), NEW S \in SUBSET Keys
  PROVE  IsFiniteSet(S) /\ Sum(v.by, S) \in Nat
<1>1. IsFiniteSet(S)
  BY FS_Subset, VolumeAssumption
<1>2. \A k \in S : v.by[k] \in Nat
  BY DEF Shape
<1> QED BY <1>1, <1>2, SumNat

(* What a put asks for: the bytes it adds less the bytes it overwrites. *)
LEMMA ProjectedSum ==
  ASSUME NEW v, Shape(v), NEW c \in Calls
  PROVE  /\ Projected(v, c) = v.total + Sum(Writes[c], Written(c)) - Sum(v.by, Written(c))
         /\ Projected(v, c) \in Int /\ Sum(Writes[c], Written(c)) \in Nat
<1> DEFINE W == Written(c)
           d == [k \in W |-> Writes[c][k] - v.by[k]]
<1>1. W \in SUBSET Keys /\ IsFiniteSet(W) /\ \A k \in W : Writes[c][k] \in Nat \ {0}
  BY WrittenKeys
<1>2. \A k \in W : Writes[c][k] \in Int /\ v.by[k] \in Int /\ d[k] = Writes[c][k] - v.by[k]
  BY <1>1 DEF Shape
<1>3. Projected(v, c) = v.total + Sum(d, W)
  BY DEF Projected
<1> HIDE DEF d, W
<1>4. Sum(d, W) = Sum(Writes[c], W) - Sum(v.by, W)
  BY <1>1, <1>2, SumMinus
<1>5. Sum(Writes[c], W) \in Nat
  <2>1. \A k \in W : Writes[c][k] \in Nat
    BY <1>1
  <2> QED BY <1>1, <2>1, SumNat
<1>6. Sum(v.by, W) \in Nat
  BY <1>1, BytesNat
<1>7. v.total \in Int
  BY DEF Shape
<1> QED BY <1>3, <1>4, <1>5, <1>6, <1>7 DEF W

VInv ==
  /\ Ranked(vol)
  /\ projected \in [Calls -> Int]
  /\ pc \in [Calls -> {"idle", "telling", "done", "refused"}]
  /\ \A c \in Calls : pc[c] = "telling" => directory = "remote"

(* The volume a put is settled on, and the total it commits. *)
LEMMA MadeRoom ==
  ASSUME NEW c \in Calls, Ranked(vol)
  PROVE  /\ Ranked(Deleted(Landed(vol, c), Room(vol, c)))
         /\ Projected(vol, c) - Sum(vol.by, Room(vol, c)) \in Int
<1>1. Ranked(Landed(vol, c))
  BY LandedRanked
<1>2. Room(vol, c) \in SUBSET Keys
  BY RoomKeys
<1>3. Projected(vol, c) \in Int /\ Sum(vol.by, Room(vol, c)) \in Nat
  BY <1>2, ProjectedSum, BytesNat DEF Ranked
<1> QED BY <1>1, <1>2, <1>3, DeletedRanked

LEMMA NoneRanked ==
  ASSUME NEW v, Shape(v)
  PROVE  LET none == [k \in Keys |-> 0]
         IN Ranked([v EXCEPT !.kv = none, !.by = none, !.total = 0, !.used = none, !.size = none])
<1> DEFINE none == [k \in Keys |-> 0]
           w == [v EXCEPT !.kv = none, !.by = none, !.total = 0, !.used = none, !.size = none]
           zero == 0
<1>0. w = [v EXCEPT !.kv = none, !.by = none, !.total = zero, !.used = none, !.size = none]
  OBVIOUS
<1> HIDE DEF none, w, zero
<1>1. /\ w.kv = none /\ w.by = none /\ w.total = zero /\ w.used = none /\ w.size = none
      /\ w.clock = v.clock
      /\ w = [kv |-> w.kv, by |-> w.by, total |-> w.total, peak |-> w.peak,
              used |-> w.used, size |-> w.size, clock |-> w.clock]
  BY <1>0 DEF Shape
<1>2. Ranked(w)
  BY <1>1 DEF Ranked, Shape, Agrees, Ordered, none, zero
<1> QED BY <1>2 DEF w, none

LEMMA VInit == Init => VInv
<1> SUFFICES ASSUME Init PROVE VInv
  OBVIOUS
<1> DEFINE none == [k \in Keys |-> 0]
<1>1. vol = [kv |-> none, by |-> none, total |-> 0, peak |-> 0,
             used |-> none, size |-> none, clock |-> 0]
  BY DEF Init
<1>2. /\ vol.kv = none /\ vol.by = none /\ vol.total = 0 /\ vol.used = none
      /\ vol.size = none /\ vol.clock = 0 /\ vol.peak = 0
  BY <1>1
<1>3. Ranked(vol)
  BY <1>1, <1>2 DEF Ranked, Shape, Agrees, Ordered
<1> QED BY <1>3 DEF Init, VInv

LEMMA VStep == VInv /\ [Next]_vars => VInv'
<1> SUFFICES ASSUME VInv, [Next]_vars PROVE VInv'
  OBVIOUS
<1>0. /\ Ranked(vol) /\ Shape(vol) /\ Agrees(vol) /\ Ordered(vol)
      /\ projected \in [Calls -> Int]
      /\ pc \in [Calls -> {"idle", "telling", "done", "refused"}]
      /\ \A c \in Calls : pc[c] = "telling" => directory = "remote"
  BY DEF VInv, Ranked
<1>1. ASSUME NEW c \in Calls, Put(c) PROVE VInv'
  <2> DEFINE v == Deleted(Landed(vol, c), Room(vol, c))
             total == Projected(vol, c) - Sum(vol.by, Room(vol, c))
  <2>1. Ranked(v) /\ total \in Int
    BY <1>0, MadeRoom
  <2>2. Settle(c, v, total) /\ UNCHANGED <<directory, projected, ops>>
    BY <1>1 DEF Put
  <2> HIDE DEF v, total
  <2>3. Ranked(vol')
    BY <2>1, <2>2, SettleRanked
  <2>4. pc' = [pc EXCEPT ![c] = "done"] \/ pc' = [pc EXCEPT ![c] = "refused"]
    BY <2>2 DEF Settle
  <2> QED BY <1>0, <2>2, <2>3, <2>4 DEF VInv
<1>2. ASSUME NEW c \in Calls, PutTells(c) PROVE VInv'
  <2> DEFINE v == Deleted(Landed(vol, c), Room(vol, c))
             total == Projected(vol, c) - Sum(vol.by, Room(vol, c))
  <2>1. Ranked(v) /\ total \in Int
    BY <1>0, MadeRoom
  <2>2. /\ vol' = v /\ projected' = [projected EXCEPT ![c] = total] /\ directory = "remote"
        /\ pc' = [pc EXCEPT ![c] = "telling"] /\ UNCHANGED <<directory, ops>>
    BY <1>2 DEF PutTells
  <2> HIDE DEF v, total
  <2>3. Ranked(vol)'
    BY <2>1, <2>2
  <2> QED BY <1>0, <2>1, <2>2, <2>3 DEF VInv
<1>3. ASSUME NEW c \in Calls, PutResumes(c) PROVE VInv'
  <2>1. Settle(c, vol, projected[c]) /\ UNCHANGED <<directory, projected, ops>>
    BY <1>3 DEF PutResumes
  <2>2. Ranked(vol')
    BY <1>0, <2>1, SettleRanked
  <2>3. pc' = [pc EXCEPT ![c] = "done"] \/ pc' = [pc EXCEPT ![c] = "refused"]
    BY <2>1 DEF Settle
  <2> QED BY <1>0, <2>1, <2>2, <2>3 DEF VInv
<1>4. ASSUME NEW S \in SUBSET Keys, vol' \in Used(vol, S), UNCHANGED <<directory, pc, projected>>
      PROVE  VInv'
  <2>1. /\ \A k \in Keys \ S : vol.size[k] = vol.by[k] /\ (vol.by[k] > 0 => vol.used[k] > 0)
        /\ \A k \in S : vol.by[k] > 0 \/ vol.size[k] = 0
    BY <1>0 DEF Agrees, Shape
  <2>2. Ranked(vol')
    BY <1>0, <1>4, <2>1, UsedRanked
  <2> QED BY <1>0, <1>4, <2>2 DEF VInv
<1>5. ASSUME NEW S \in SUBSET Keys, Delete(S) PROVE VInv'
  <2>1. Ranked(vol')
    BY <1>0, <1>5, DeletedRanked DEF Delete
  <2> QED BY <1>0, <1>5, <2>1 DEF Delete, Operation, VInv
<1>6. ASSUME Reset PROVE VInv'
  <2>1. Ranked(vol')
    BY <1>0, <1>6, NoneRanked DEF Reset
  <2> QED BY <1>0, <1>6, <2>1 DEF Reset, Operation, VInv
<1>7. ASSUME UNCHANGED vars PROVE VInv'
  BY <1>0, <1>7 DEF vars, VInv
<1>8. ASSUME NEW S \in SUBSET Keys, Get(S) PROVE VInv'
  BY <1>4, <1>8 DEF Get, Operation
<1>9. ASSUME NEW S \in SUBSET Keys, Touch(S) PROVE VInv'
  <2>1. { k \in S : vol.by[k] > 0 } \in SUBSET Keys
    OBVIOUS
  <2> QED BY <1>4, <1>9, <2>1 DEF Touch, Operation
<1> QED BY <1>1, <1>2, <1>3, <1>5, <1>6, <1>7, <1>8, <1>9 DEF Next, Finished

LEMMA VInvariance == Spec => []VInv
<1> QED BY VInit, VStep, PTL DEF Spec

(* At every moment, with puts suspended over the directory's hop and       *)
(* gets, touches, deletes and resets between their two halves, the ranking *)
(* counts exactly the bytes the volume books, and sees every resident key. *)
THEOREM RankingExact == Spec => []RankingAgrees
<1>1. VInv => RankingAgrees
  BY DEF VInv, Ranked, Agrees, RankingAgrees
<1> QED BY <1>1, VInvariance, PTL

-----------------------------------------------------------------------------
(***************************************************************************)
(* The books and the store, where puts do not overlap.                     *)
(***************************************************************************)

LEMMA WithoutSum ==
  ASSUME NEW v, Shape(v), NEW S \in SUBSET Keys
  PROVE  Sum(Without(v.by, S), Keys) = Sum(v.by, Keys) - Sum(v.by, S)
<1> DEFINE w == Without(v.by, S)
<1>1. IsFiniteSet(Keys) /\ IsFiniteSet(S) /\ IsFiniteSet(Keys \ S)
  BY FS_Subset, VolumeAssumption
<1>2. \A k \in Keys : v.by[k] \in Nat
  BY DEF Shape
<1>3. \A k \in Keys : w[k] \in Nat
  BY <1>2 DEF Without
<1>4. \A k \in S : w[k] = 0
  BY DEF Without
<1>5. \A k \in Keys \ S : v.by[k] \in Int /\ w[k] = v.by[k]
  BY <1>2 DEF Without
<1> HIDE DEF w
<1>6. Sum(v.by, Keys) = Sum(v.by, S) + Sum(v.by, Keys \ S) /\ Sum(v.by, S) \in Nat
  BY <1>1, <1>2, SumSubset
<1>7. Sum(w, Keys) = Sum(w, S) + Sum(w, Keys \ S)
  BY <1>1, <1>3, SumSubset
<1>8. Sum(w, S) = 0 /\ Sum(v.by, Keys \ S) = Sum(w, Keys \ S)
  BY <1>1, <1>4, <1>5, SumZero, SumSame
<1>9. Sum(v.by, Keys \ S) \in Nat
  <2>1. \A k \in Keys \ S : v.by[k] \in Nat
    BY <1>2
  <2> QED BY <1>1, <2>1, SumNat
<1> QED BY <1>6, <1>7, <1>8, <1>9 DEF w

(* What a put adds to the books and takes from them. *)
LEMMA CommitSum ==
  ASSUME NEW v, Shape(v), NEW c \in Calls, NEW R \in SUBSET Keys, R \cap Written(c) = {},
         NEW by, by = [k \in Keys |-> IF k \in Written(c) THEN Writes[c][k]
                                                          ELSE Without(v.by, R)[k]]
  PROVE  Sum(by, Keys) = Sum(v.by, Keys) + Sum(Writes[c], Written(c))
                           - Sum(v.by, Written(c)) - Sum(v.by, R)
<1> DEFINE W == Written(c)
           w == Without(v.by, R)
<1>1. /\ IsFiniteSet(Keys) /\ W \in SUBSET Keys /\ IsFiniteSet(W) /\ IsFiniteSet(Keys \ W)
      /\ \A k \in W : Writes[c][k] \in Nat \ {0}
  BY FS_Subset, VolumeAssumption, WrittenKeys
<1>2. \A k \in Keys : v.by[k] \in Nat
  BY DEF Shape
<1>3. /\ \A k \in Keys : w[k] \in Nat
      /\ \A k \in W : w[k] = v.by[k]
  BY <1>1, <1>2 DEF Without
<1>4. Sum(w, Keys) = Sum(v.by, Keys) - Sum(v.by, R)
  BY WithoutSum
<1> HIDE DEF w, W
<1>5. /\ \A k \in W : by[k] = Writes[c][k]
      /\ \A k \in Keys \ W : by[k] = w[k]
      /\ \A k \in Keys : by[k] \in Nat
  BY <1>1, <1>3 DEF w, W
<1>6. Sum(by, Keys) = Sum(by, W) + Sum(by, Keys \ W)
  BY <1>1, <1>5, SumSubset
<1>7. Sum(w, Keys) = Sum(w, W) + Sum(w, Keys \ W) /\ Sum(w, W) \in Nat
  BY <1>1, <1>3, SumSubset
<1>8. Sum(Writes[c], W) = Sum(by, W)
  <2>1. \A k \in W : Writes[c][k] \in Int /\ by[k] = Writes[c][k]
    BY <1>1, <1>5
  <2> QED BY <1>1, <2>1, SumSame
<1>9. Sum(w, Keys \ W) = Sum(by, Keys \ W)
  <2>1. \A k \in Keys \ W : w[k] \in Int /\ by[k] = w[k]
    BY <1>3, <1>5
  <2> QED BY <1>1, <2>1, SumSame
<1>10. Sum(v.by, W) = Sum(w, W)
  <2>1. \A k \in W : v.by[k] \in Int /\ w[k] = v.by[k]
    BY <1>1, <1>2, <1>3
  <2> QED BY <1>1, <2>1, SumSame
<1>11. /\ Sum(by, W) \in Nat /\ Sum(w, Keys \ W) \in Nat
       /\ Sum(v.by, R) \in Nat /\ Sum(v.by, Keys) \in Nat
  <2>1. \A k \in W : by[k] \in Nat
    BY <1>1, <1>5
  <2>2. \A k \in Keys \ W : w[k] \in Nat
    BY <1>3
  <2> QED BY <1>1, <2>1, <2>2, SumNat, BytesNat
<1> QED BY <1>4, <1>6, <1>7, <1>8, <1>9, <1>10, <1>11 DEF W

(* A key held otherwise than booked is one a refused put was overwriting. *)
Explained(k) ==
  \E c \in Calls : /\ pc[c] = "refused" /\ k \in Written(c)
                   /\ vol.by[k] > 0 /\ vol.kv[k] = Writes[c][k]

SInv ==
  directory # "remote" =>
    /\ vol.total = Sum(vol.by, Keys) /\ vol.total <= Capacity
    /\ \A k \in Keys : vol.kv[k] # vol.by[k] => Explained(k)

LEMMA NoneSum ==
  Sum([k \in Keys |-> 0], Keys) = 0
<1> DEFINE none == [k \in Keys |-> 0]
<1>1. \A k \in Keys : none[k] = 0
  OBVIOUS
<1> HIDE DEF none
<1>2. Sum(none, Keys) = 0
  BY <1>1, SumZero, VolumeAssumption
<1> QED BY <1>2 DEF none

LEMMA SInit == Init => SInv
<1> SUFFICES ASSUME Init PROVE SInv
  OBVIOUS
<1>1. /\ vol.kv = [k \in Keys |-> 0] /\ vol.by = [k \in Keys |-> 0] /\ vol.total = 0
  BY DEF Init
<1>2. Sum(vol.by, Keys) = 0
  BY <1>1, NoneSum
<1>3. \A k \in Keys : vol.kv[k] = vol.by[k]
  BY <1>1
<1> QED BY <1>1, <1>2, <1>3, VolumeAssumption DEF SInv

(* A put that does not suspend keeps the books. *)
LEMMA PutBooks ==
  ASSUME VInv, SInv, NEW c \in Calls, Put(c), directory # "remote"
  PROVE  SInv'
<1> DEFINE R == Room(vol, c)
           W == Written(c)
           l == Landed(vol, c)
           v == Deleted(l, R)
           total == Projected(vol, c) - Sum(vol.by, R)
<1>0. /\ Ranked(vol) /\ Shape(vol)
      /\ pc \in [Calls -> {"idle", "telling", "done", "refused"}] /\ pc[c] = "idle"
      /\ vol.total = Sum(vol.by, Keys) /\ vol.total <= Capacity
      /\ \A k \in Keys : vol.kv[k] # vol.by[k] => Explained(k)
  BY DEF VInv, Ranked, SInv, Put
<1>1. R \in SUBSET Keys /\ R \cap W = {}
  BY RoomKeys
<1>2. W \in SUBSET Keys /\ \A k \in W : Writes[c][k] \in Nat \ {0}
  BY WrittenKeys
<1>3. /\ total = vol.total + Sum(Writes[c], W) - Sum(vol.by, W) - Sum(vol.by, R)
      /\ total \in Int /\ Sum(vol.by, R) \in Nat
  <2>1. /\ Projected(vol, c) = vol.total + Sum(Writes[c], W) - Sum(vol.by, W)
        /\ Projected(vol, c) \in Int /\ Sum(Writes[c], W) \in Nat
    BY <1>0, ProjectedSum
  <2>2. Sum(vol.by, R) \in Nat /\ Sum(vol.by, W) \in Nat
    BY <1>0, <1>1, <1>2, BytesNat
  <2>3. vol.total \in Int
    BY <1>0 DEF Shape
  <2>4. total = Projected(vol, c) - Sum(vol.by, R)
    OBVIOUS
  <2> HIDE DEF R, W, total
  <2> QED BY <2>1, <2>2, <2>3, <2>4
<1>4. /\ Ranked(l) /\ l.by = vol.by /\ l.total = vol.total
      /\ l.kv = [k \in Keys |-> IF k \in W THEN Writes[c][k] ELSE vol.kv[k]]
  BY <1>0, LandedRanked, LandedFields
<1>5. /\ v.by = Without(vol.by, R) /\ v.kv = Without(l.kv, R)
      /\ v.total = vol.total - Sum(vol.by, R)
  BY <1>4, DeletedFields DEF Ranked
<1>6. Ranked(v)
  BY <1>0, MadeRoom
<1>7. Settle(c, v, total) /\ UNCHANGED <<directory, projected, ops>>
  BY DEF Put
<1>8. /\ \A k \in R : v.kv[k] = 0 /\ v.by[k] = 0
      /\ \A k \in W : v.kv[k] = Writes[c][k] /\ v.by[k] = vol.by[k]
      /\ \A k \in Keys : k \notin R /\ k \notin W => v.kv[k] = vol.kv[k] /\ v.by[k] = vol.by[k]
  BY <1>1, <1>2, <1>4, <1>5 DEF Without
<1> HIDE DEF R, W, l, v, total
<1>9. CASE total <= Capacity /\ vol' \in Committed(v, c, total) /\ pc' = [pc EXCEPT ![c] = "done"]
  <2>1. /\ vol'.kv = v.kv /\ vol'.total = total
        /\ vol'.by = [k \in Keys |-> IF k \in W THEN Writes[c][k] ELSE v.by[k]]
    BY <1>3, <1>6, <1>9, CommittedRanked DEF W
  <2>2. vol'.by = [k \in Keys |-> IF k \in W THEN Writes[c][k] ELSE Without(vol.by, R)[k]]
    BY <1>5, <2>1, Zenon
  <2>3. Sum(vol'.by, Keys) = Sum(vol.by, Keys) + Sum(Writes[c], W)
                               - Sum(vol.by, W) - Sum(vol.by, R)
    BY <1>0, <1>1, <2>2, CommitSum DEF W
  <2>4. vol'.total = Sum(vol'.by, Keys)
    BY <1>0, <1>3, <2>1, <2>3
  <2>5. ASSUME NEW k \in Keys, vol'.kv[k] # vol'.by[k] PROVE Explained(k)'
    <3>1. k \notin W /\ k \notin R
      BY <1>1, <1>8, <2>1, <2>5
    <3>2. vol'.kv[k] = vol.kv[k] /\ vol'.by[k] = vol.by[k]
      BY <1>8, <2>1, <3>1
    <3>3. Explained(k)
      BY <1>0, <2>5, <3>2
    <3> QED BY <1>0, <1>9, <3>2, <3>3 DEF Explained
  <2> QED BY <1>9, <2>1, <2>4, <2>5 DEF SInv
<1>10. CASE vol' = RolledBack(v, c) /\ pc' = [pc EXCEPT ![c] = "refused"]
  <2>1. /\ vol'.kv = [k \in Keys |-> IF k \in W /\ v.by[k] = 0 THEN 0 ELSE v.kv[k]]
        /\ vol'.by = v.by /\ vol'.total = v.total
    BY <1>6, <1>10, RolledBackFields DEF Ranked, W
  <2>2. Sum(vol'.by, Keys) = Sum(vol.by, Keys) - Sum(vol.by, R)
    BY <1>0, <1>1, <1>5, <2>1, WithoutSum
  <2>3. vol'.total = Sum(vol'.by, Keys) /\ vol'.total <= Capacity
    <3>1. vol.total \in Int /\ Capacity \in Int
      BY <1>0, VolumeAssumption DEF Shape
    <3> QED BY <1>0, <1>3, <1>5, <2>1, <2>2, <3>1
  <2>4. ASSUME NEW k \in Keys, vol'.kv[k] # vol'.by[k] PROVE Explained(k)'
    <3>1. k \notin R
      BY <1>1, <1>8, <2>1, <2>4
    <3>2. CASE k \in W
      <4>1. v.by[k] # 0 /\ v.by[k] \in Nat
        BY <1>6, <2>1, <2>4, <3>2 DEF Ranked, Shape
      <4>2. vol'.kv[k] = Writes[c][k] /\ vol'.by[k] > 0 /\ pc'[c] = "refused"
        BY <1>0, <1>8, <1>10, <2>1, <3>2, <4>1
      <4> QED BY <3>2, <4>2 DEF Explained, W
    <3>3. CASE k \notin W
      <4>1. vol'.kv[k] = vol.kv[k] /\ vol'.by[k] = vol.by[k]
        BY <1>8, <2>1, <3>1, <3>3
      <4>2. Explained(k)
        BY <1>0, <2>4, <4>1
      <4> QED BY <1>0, <1>10, <4>1, <4>2 DEF Explained
    <3> QED BY <3>2, <3>3
  <2> QED BY <2>3, <2>4 DEF SInv
<1> QED BY <1>7, <1>9, <1>10 DEF Settle

LEMMA SStep == VInv /\ SInv /\ [Next]_vars => SInv'
<1> SUFFICES ASSUME VInv, SInv, [Next]_vars, directory' # "remote" PROVE SInv'
  BY DEF SInv
<1>9. directory' = directory
  BY DEF Next, Put, PutTells, PutResumes, Get, Touch, Delete, Reset, Operation, Finished, vars
<1>0. /\ Ranked(vol) /\ Shape(vol)
      /\ \A c \in Calls : pc[c] # "telling"
      /\ vol.total = Sum(vol.by, Keys) /\ vol.total <= Capacity
      /\ \A k \in Keys : vol.kv[k] # vol.by[k] => Explained(k)
  BY <1>9 DEF VInv, Ranked, SInv
<1>1. ASSUME NEW S \in SUBSET Keys, vol' \in Used(vol, S), pc' = pc PROVE SInv'
  <2>1. vol'.kv = vol.kv /\ vol'.by = vol.by /\ vol'.total = vol.total
    BY <1>0, <1>1, UsedFields
  <2> QED BY <1>0, <1>1, <2>1 DEF SInv, Explained
<1>2. ASSUME NEW S \in SUBSET Keys, Get(S) PROVE SInv'
  BY <1>1, <1>2 DEF Get, Operation
<1>3. ASSUME NEW S \in SUBSET Keys, Touch(S) PROVE SInv'
  <2>1. { k \in S : vol.by[k] > 0 } \in SUBSET Keys
    OBVIOUS
  <2> QED BY <1>1, <1>3, <2>1 DEF Touch, Operation
<1>4. ASSUME NEW S \in SUBSET Keys, Delete(S) PROVE SInv'
  <2>1. /\ vol'.kv = Without(vol.kv, S) /\ vol'.by = Without(vol.by, S)
        /\ vol'.total = vol.total - Sum(vol.by, S) /\ pc' = pc
    BY <1>0, <1>4, DeletedFields DEF Delete, Operation
  <2>2. vol'.total = Sum(vol'.by, Keys) /\ vol'.total <= Capacity
    <3>1. Sum(vol'.by, Keys) = Sum(vol.by, Keys) - Sum(vol.by, S) /\ Sum(vol.by, S) \in Nat
      BY <1>0, <2>1, WithoutSum, BytesNat
    <3>2. vol.total \in Int /\ Capacity \in Int
      BY <1>0, VolumeAssumption DEF Shape
    <3> QED BY <1>0, <2>1, <3>1, <3>2
  <2>3. ASSUME NEW k \in Keys, vol'.kv[k] # vol'.by[k] PROVE Explained(k)'
    <3>1. vol'.kv[k] = vol.kv[k] /\ vol'.by[k] = vol.by[k]
      BY <2>1, <2>3 DEF Without
    <3>2. Explained(k)
      BY <1>0, <2>3, <3>1
    <3> QED BY <2>1, <3>1, <3>2 DEF Explained
  <2> QED BY <2>2, <2>3 DEF SInv
<1>5. ASSUME Reset PROVE SInv'
  <2>1. vol'.kv = [k \in Keys |-> 0] /\ vol'.by = [k \in Keys |-> 0] /\ vol'.total = 0
    BY <1>0, <1>5 DEF Reset, Shape
  <2>2. Sum(vol'.by, Keys) = 0
    BY <2>1, NoneSum
  <2>3. \A k \in Keys : vol'.kv[k] = vol'.by[k]
    BY <2>1
  <2> QED BY <2>1, <2>2, <2>3, VolumeAssumption DEF SInv
<1>6. ASSUME UNCHANGED vars PROVE SInv'
  BY <1>0, <1>6 DEF vars, SInv, Explained
<1>7. ASSUME NEW c \in Calls, Put(c) PROVE SInv'
  BY <1>7, <1>9, PutBooks
<1>8. ASSUME NEW c \in Calls, PutTells(c) \/ PutResumes(c) PROVE FALSE
  BY <1>0, <1>8 DEF PutTells, PutResumes
<1> QED BY <1>2, <1>3, <1>4, <1>5, <1>6, <1>7, <1>8 DEF Next, Finished

(* Where no put suspends, the byte count is the sum of the books and       *)
(* within capacity after any series of puts, gets, touches, deletes and    *)
(* resets, and the store holds what is booked, but for what a refused put  *)
(* overwrote.                                                              *)
THEOREM StoreExact == Spec => []StoreAsBooked
<1>1. VInv /\ SInv => StoreAsBooked
  <2> SUFFICES ASSUME VInv, SInv PROVE StoreAsBooked
    OBVIOUS
  <2>1. DOMAIN vol.by = Keys
    BY DEF VInv, Ranked, Shape
  <2>2. Total(vol.by) = Sum(vol.by, Keys)
    BY <2>1 DEF Total, Sum
  <2> QED BY <2>2 DEF SInv, Explained, StoreAsBooked
<1> QED BY <1>1, SInit, SStep, VInvariance, PTL DEF Spec

-----------------------------------------------------------------------------
(***************************************************************************)
(* The choice of victims.                                                  *)
(***************************************************************************)

Droppable(v, c) == Held(v) \ Written(c)

(* What would be dropped before k. *)
Colder(v, c, k) == { j \in Droppable(v, c) : v.used[j] < v.used[k] }

(* The bytes the ranking counts before it comes to k are booked bytes. *)
LEMMA ColderSum ==
  ASSUME NEW v, Ranked(v), NEW c, NEW k
  PROVE  /\ Colder(v, c, k) \in SUBSET Keys
         /\ Sum(v.size, Colder(v, c, k)) = Sum(v.by, Colder(v, c, k))
<1> DEFINE C == Colder(v, c, k)
<1>1. C \in SUBSET Keys
  BY DEF Colder, Droppable, Held
<1>2. IsFiniteSet(C)
  BY <1>1, FS_Subset, VolumeAssumption
<1>3. \A j \in C : v.size[j] \in Int /\ v.by[j] = v.size[j]
  BY <1>1 DEF Ranked, Shape, Agrees
<1> HIDE DEF C
<1>4. Sum(v.size, C) = Sum(v.by, C)
  BY <1>2, <1>3, SumSame
<1> QED BY <1>1, <1>4 DEF C

(* What is dropped for a put that does not fit: the resident keys before   *)
(* which the need is not yet covered.                                      *)
LEMMA RoomIs ==
  ASSUME NEW v, Ranked(v), NEW c \in Calls, directory # "none", ~ (Projected(v, c) <= Capacity)
  PROVE  Room(v, c) =
           { k \in Droppable(v, c) : v.by[k] > 0 /\ Sum(v.by, Colder(v, c, k))
                                                      < Projected(v, c) - Capacity }
<1> DEFINE need == Projected(v, c) - Capacity
<1>1. Room(v, c) = { k \in Victims(v, need, Written(c)) : v.by[k] > 0 }
  BY DEF Room
<1> HIDE DEF need
<1>2. Victims(v, need, Written(c)) = { k \in Droppable(v, c) : Sum(v.size, Colder(v, c, k)) < need }
  BY DEF Victims, Droppable, Colder
<1>3. \A k \in Droppable(v, c) : Sum(v.size, Colder(v, c, k)) = Sum(v.by, Colder(v, c, k))
  BY ColderSum
<1>4. ASSUME NEW k PROVE k \in Room(v, c) <=> /\ k \in Droppable(v, c) /\ v.by[k] > 0
                                              /\ Sum(v.by, Colder(v, c, k)) < need
  BY <1>1, <1>2, <1>3
<1> QED BY <1>4 DEF need

(* A put that has dropped all it may and still does not fit: nothing       *)
(* resident is left but what it writes.                                    *)
LEMMA RoomEnough ==
  ASSUME NEW v, Ranked(v), NEW c \in Calls, directory # "none",
         NEW k \in Keys \ Written(c), v.by[k] > 0, k \notin Room(v, c)
  PROVE  Projected(v, c) - Sum(v.by, Room(v, c)) <= Capacity
<1> DEFINE R == Room(v, c)
           D == Droppable(v, c)
           need == Projected(v, c) - Capacity
<1>0. /\ R \in SUBSET Keys /\ D \in SUBSET Keys /\ Projected(v, c) \in Int /\ Capacity \in Nat
      /\ \A j \in Keys : v.by[j] \in Nat /\ v.used[j] \in Nat
      /\ \A S \in SUBSET Keys : IsFiniteSet(S) /\ Sum(v.by, S) \in Nat
  <2>1. R \in SUBSET Keys /\ D \in SUBSET Keys
    BY RoomKeys DEF Droppable, Held
  <2>2. Projected(v, c) \in Int /\ \A S \in SUBSET Keys : IsFiniteSet(S) /\ Sum(v.by, S) \in Nat
    BY ProjectedSum, BytesNat DEF Ranked
  <2> QED BY <2>1, <2>2, VolumeAssumption DEF Ranked, Shape
<1>1. CASE Projected(v, c) <= Capacity
  <2>1. R = {}
    BY <1>1 DEF Room
  <2>2. Sum(v.by, R) = 0
    BY <2>1, SumEmpty
  <2> HIDE DEF R
  <2>3. Projected(v, c) - Sum(v.by, R) <= Capacity
    BY <1>0, <1>1, <2>2
  <2> QED BY <2>3 DEF R
<1>2. CASE ~ (Projected(v, c) <= Capacity)
  <2>1. R = { j \in D : v.by[j] > 0 /\ Sum(v.by, Colder(v, c, j)) < need }
    BY <1>2, RoomIs
  <2>2. k \in D
    BY DEF Ranked, Agrees, Droppable, Held
  <2>3. need \in Int
    BY <1>0
  <2> HIDE DEF R, need
  <2> DEFINE stay == { j \in D : ~ (Sum(v.by, Colder(v, c, j)) < need) }
             uses == { v.used[j] : j \in stay }
  <2>4. k \in stay
    BY <2>1, <2>2 DEF R
  <2>5. uses \in SUBSET Nat /\ uses # {}
    BY <1>0, <2>4
  <2>6. PICK u \in uses : \A w \in uses : u <= w
    <3> HIDE DEF uses
    <3> QED BY <2>5, Least
  <2>7. PICK n \in stay : v.used[n] = u
    BY <2>6
  <2> DEFINE C == Colder(v, c, n)
             Z == C \ R
  <2>8. C \in SUBSET D /\ \A j \in C : v.used[j] < v.used[n]
    BY DEF Colder
  <2>9. \A j \in C : j \notin stay
    <3> SUFFICES ASSUME NEW j \in C, j \in stay PROVE FALSE
      OBVIOUS
    <3>1. v.used[n] <= v.used[j]
      BY <2>6, <2>7
    <3>2. v.used[j] < v.used[n] /\ j \in Keys /\ n \in Keys
      BY <1>0, <2>7, <2>8
    <3> QED BY <1>0, <3>1, <3>2
  <2>10. ASSUME NEW j \in Z PROVE v.by[j] = 0
    <3>1. j \in D /\ Sum(v.by, Colder(v, c, j)) < need /\ j \in Keys
      BY <1>0, <2>8, <2>9
    <3> HIDE DEF D
    <3> QED BY <1>0, <2>1, <3>1
  <2>11. ~ (Sum(v.by, C) < need)
    BY <2>7
  <2> HIDE DEF C, D
  <2>12. C \in SUBSET Keys /\ Z \in SUBSET Keys /\ C \cap R \in SUBSET C /\ C \ (C \cap R) = Z
    BY <1>0, <2>8
  <2>13. Sum(v.by, Z) = 0
    <3> HIDE DEF Z
    <3> QED BY <1>0, <2>10, <2>12, SumZero
  <2> HIDE DEF Z
  <2>14. Sum(v.by, C) = Sum(v.by, C \cap R) + Sum(v.by, C \ (C \cap R))
    <3>1. IsFiniteSet(C) /\ \A j \in C : v.by[j] \in Nat
      BY <1>0, <2>12
    <3> QED BY <2>12, <3>1, SumSubset
  <2>15. Sum(v.by, C \cap R) <= Sum(v.by, R)
    <3>1. IsFiniteSet(R) /\ C \cap R \in SUBSET R /\ \A j \in R : v.by[j] \in Nat
      BY <1>0
    <3> QED BY <3>1, SumSubset
  <2>16. Sum(v.by, C \ (C \cap R)) = 0
    BY <2>12, <2>13, Zenon
  <2>17. Sum(v.by, C \cap R) \in Nat /\ Sum(v.by, R) \in Nat /\ Sum(v.by, C) \in Nat
    <3>1. C \cap R \in SUBSET Keys
      BY <1>0
    <3> QED BY <1>0, <2>12, <3>1
  <2>18. Sum(v.by, R) >= need
    BY <2>3, <2>11, <2>14, <2>15, <2>16, <2>17
  <2> QED BY <1>0, <2>17, <2>18 DEF need, R
<1> QED BY <1>1, <1>2

(* A volume whose directory is told in place refuses a put only with       *)
(* nothing left that it was free to drop.                                  *)
THEOREM RefusalsForced == Spec => RefusedOnlyWhenFull
<1> DEFINE Forced == \A c \in Calls :
                       directory = "local" /\ pc[c] # "refused" /\ pc'[c] = "refused" =>
                         \A k \in Keys \ Written(c) : vol'.by[k] = 0
<1>1. VInv /\ [Next]_vars => [Forced]_vars
  <2> SUFFICES ASSUME VInv, Next, NEW c \in Calls, directory = "local",
                      pc[c] # "refused", pc'[c] = "refused", NEW k \in Keys \ Written(c)
               PROVE  vol'.by[k] = 0
    BY DEF vars
  <2>0. /\ Ranked(vol) /\ pc \in [Calls -> {"idle", "telling", "done", "refused"}]
        /\ \A d \in Calls : pc[d] # "telling"
    BY DEF VInv
  <2>1. PICK d \in Calls : Put(d)
    <3>1. pc' # pc
      OBVIOUS
    <3>2. \A d \in Calls : ~PutTells(d) /\ ~PutResumes(d)
      BY <2>0 DEF PutTells, PutResumes
    <3> QED BY <3>1, <3>2 DEF Next, Get, Touch, Delete, Reset, Operation, Finished, vars
  <2> DEFINE R == Room(vol, d)
             v == Deleted(Landed(vol, d), R)
             total == Projected(vol, d) - Sum(vol.by, R)
  <2>2. Settle(d, v, total)
    BY <2>1 DEF Put
  <2>3. R \in SUBSET Keys /\ Ranked(Landed(vol, d)) /\ Landed(vol, d).by = vol.by
    BY <2>0, RoomKeys, LandedRanked, LandedFields DEF Ranked
  <2>4. v.by = Without(vol.by, R) /\ Shape(v) /\ total \in Int
    BY <2>0, <2>3, DeletedFields, MadeRoom DEF Ranked
  <2> HIDE DEF v, R
  <2>5. d = c /\ total > Capacity /\ vol' = RolledBack(v, c)
    BY <2>0, <2>2 DEF Settle
  <2>6. vol'.by = v.by
    BY <2>4, <2>5, RolledBackFields
  <2> SUFFICES ASSUME vol'.by[k] # 0 PROVE FALSE
    OBVIOUS
  <2>7. k \notin R /\ vol.by[k] > 0
    BY <2>0, <2>4, <2>6 DEF Without, Ranked, Shape
  <2>8. total <= Capacity
    BY <2>0, <2>5, <2>7, RoomEnough DEF R
  <2> QED BY <2>4, <2>5, <2>8, VolumeAssumption
<1> QED BY <1>1, VInvariance, PTL DEF Spec, RefusedOnlyWhenFull

(* Two resident keys a put does not write: the one it drops was used       *)
(* before the one it keeps.                                                *)
LEMMA ColdFirst ==
  ASSUME NEW v, Ranked(v), NEW c \in Calls, NEW j \in Room(v, c),
         NEW k \in Keys \ Written(c), v.by[k] > 0, k \notin Room(v, c)
  PROVE  v.used[j] < v.used[k]
<1>1. directory # "none" /\ ~ (Projected(v, c) <= Capacity)
  BY DEF Room
<1> DEFINE need == Projected(v, c) - Capacity
<1>2. Room(v, c) = { i \in Droppable(v, c) : v.by[i] > 0 /\ Sum(v.by, Colder(v, c, i)) < need }
  BY <1>1, RoomIs
<1>3. need \in Int
  BY ProjectedSum, VolumeAssumption DEF Ranked
<1> HIDE DEF need
<1>4. k \in Droppable(v, c) /\ j \in Droppable(v, c) /\ Sum(v.by, Colder(v, c, j)) < need
  BY <1>2 DEF Ranked, Agrees, Droppable, Held
<1>5. ~ (Sum(v.by, Colder(v, c, k)) < need)
  BY <1>2, <1>4
<1>6. \A i \in Keys : v.used[i] \in Nat /\ v.by[i] \in Nat
  BY DEF Ranked, Shape
<1>7. Droppable(v, c) \in SUBSET Keys
  BY DEF Droppable, Held
<1> SUFFICES ASSUME ~ (v.used[j] < v.used[k]) PROVE FALSE
  OBVIOUS
<1>8. Colder(v, c, k) \in SUBSET Colder(v, c, j)
  BY <1>4, <1>6, <1>7 DEF Colder
<1>9. Colder(v, c, j) \in SUBSET Keys
  BY ColderSum
<1>10. IsFiniteSet(Colder(v, c, j)) /\ \A i \in Colder(v, c, j) : v.by[i] \in Nat
  BY <1>6, <1>9, FS_Subset, VolumeAssumption
<1>11. /\ Sum(v.by, Colder(v, c, k)) <= Sum(v.by, Colder(v, c, j))
       /\ Sum(v.by, Colder(v, c, k)) \in Nat /\ Sum(v.by, Colder(v, c, j)) \in Nat
  BY <1>8, <1>10, SumSubset
<1> QED BY <1>3, <1>4, <1>5, <1>11

(* Without the warmest of the keys it drops, a put does not fit. *)
LEMMA NoFurther ==
  ASSUME NEW v, Ranked(v), NEW c \in Calls, NEW j \in Room(v, c),
         \A k \in Room(v, c) : v.used[k] <= v.used[j]
  PROVE  Projected(v, c) - Sum(v.by, Room(v, c) \ {j}) > Capacity
<1>1. directory # "none" /\ ~ (Projected(v, c) <= Capacity)
  BY DEF Room
<1> DEFINE need == Projected(v, c) - Capacity
           rest == Room(v, c) \ {j}
<1>2. Room(v, c) = { i \in Droppable(v, c) : v.by[i] > 0 /\ Sum(v.by, Colder(v, c, i)) < need }
  BY <1>1, RoomIs
<1>3. Projected(v, c) \in Int /\ Capacity \in Nat
  BY ProjectedSum, VolumeAssumption DEF Ranked
<1>4. /\ \A i \in Keys : v.used[i] \in Nat /\ v.by[i] \in Nat
      /\ Droppable(v, c) \in SUBSET Keys /\ \A i \in Droppable(v, c) : v.used[i] > 0
  BY DEF Ranked, Shape, Droppable, Held
<1>5. Sum(v.by, Colder(v, c, j)) < need
  BY <1>2
<1>6. rest \in SUBSET Colder(v, c, j)
  <2> SUFFICES ASSUME NEW i \in Room(v, c), i # j PROVE i \in Colder(v, c, j)
    OBVIOUS
  <2>1. i \in Droppable(v, c) /\ j \in Droppable(v, c) /\ v.used[i] <= v.used[j]
    BY <1>2
  <2>2. v.used[i] # v.used[j]
    BY <1>4, <2>1 DEF Ranked, Ordered
  <2> QED BY <1>4, <2>1, <2>2 DEF Colder
<1>7. Colder(v, c, j) \in SUBSET Keys
  BY ColderSum
<1>8. IsFiniteSet(Colder(v, c, j)) /\ \A i \in Colder(v, c, j) : v.by[i] \in Nat
  BY <1>4, <1>7, FS_Subset, VolumeAssumption
<1> HIDE DEF rest
<1>9. /\ Sum(v.by, rest) <= Sum(v.by, Colder(v, c, j))
      /\ Sum(v.by, rest) \in Nat /\ Sum(v.by, Colder(v, c, j)) \in Nat
  BY <1>6, <1>8, SumSubset
<1>10. Projected(v, c) - Sum(v.by, rest) > Capacity
  BY <1>3, <1>5, <1>9
<1> QED BY <1>10 DEF rest

(* Whatever puts overlap, and wherever the directory is: what a put drops  *)
(* is colder than every resident key it keeps, and it drops no more than   *)
(* it needs.                                                               *)
THEOREM ColdestDropped == Spec => DropsColdest
<1> DEFINE Coldest == \A c \in Calls : pc[c] = "idle" /\ pc'[c] \in {"telling", "done"} =>
                        LET dropped == { k \in Keys \ Written(c) : vol.by[k] > 0 /\ vol'.by[k] = 0 }
                            kept == { k \in Keys \ Written(c) : vol'.by[k] > 0 }
                        IN /\ \A j \in dropped, k \in kept : vol.used[j] < vol.used[k]
                           /\ \A j \in dropped :
                                (\A k \in dropped : vol.used[k] <= vol.used[j]) =>
                                  Projected(vol, c) - Sum(vol.by, dropped \ {j}) > Capacity
<1>1. VInv /\ [Next]_vars => [Coldest]_vars
  <2> SUFFICES ASSUME VInv, [Next]_vars PROVE [Coldest]_vars
    OBVIOUS
  <2>0. /\ Ranked(vol) /\ pc \in [Calls -> {"idle", "telling", "done", "refused"}]
    BY DEF VInv
  <2>1. CASE UNCHANGED vars
    BY <2>1
  <2>2. ASSUME NEW c \in Calls, Next, pc[c] = "idle", pc'[c] \in {"telling", "done"}
        PROVE  \A k \in Keys \ Written(c) : vol'.by[k] = Without(vol.by, Room(vol, c))[k]
    <3> DEFINE R == Room(vol, c)
               v == Deleted(Landed(vol, c), R)
               total == Projected(vol, c) - Sum(vol.by, R)
    <3>1. Ranked(Landed(vol, c)) /\ Landed(vol, c).by = vol.by
      BY <2>0, LandedRanked, LandedFields DEF Ranked
    <3>2. v.by = Without(vol.by, R) /\ Ranked(v) /\ total \in Int
      BY <2>0, <3>1, DeletedFields, MadeRoom DEF Ranked
    <3>3. Put(c) \/ PutTells(c)
      <4>1. pc' # pc
        BY <2>2
      <4>2. \A d \in Calls : Put(d) \/ PutTells(d) \/ PutResumes(d) => d = c
        BY <2>0, <2>2 DEF Put, PutTells, PutResumes, Settle
      <4>3. ~PutResumes(c)
        BY <2>2 DEF PutResumes
      <4> QED BY <2>2, <4>1, <4>2, <4>3 DEF Next, Get, Touch, Delete, Reset, Operation, Finished, vars
    <3>4. vol' = v \/ vol' \in Committed(v, c, total)
      <4>1. CASE PutTells(c)
        BY <4>1 DEF PutTells
      <4>2. CASE Put(c)
        <5>1. Settle(c, v, total)
          BY <4>2 DEF Put
        <5> HIDE DEF v, total
        <5> QED BY <2>0, <2>2, <5>1 DEF Settle
      <4> QED BY <3>3, <4>1, <4>2
    <3> HIDE DEF v, total, R
    <3>5. CASE vol' = v
      BY <3>2, <3>5 DEF R
    <3>6. CASE vol' \in Committed(v, c, total)
      <4>1. vol'.by = [k \in Keys |-> IF k \in Written(c) THEN Writes[c][k] ELSE v.by[k]]
        BY <3>2, <3>6, CommittedRanked
      <4> QED BY <3>2, <4>1 DEF R
    <3> QED BY <3>4, <3>5, <3>6
  <2>3. CASE Next
    <3> SUFFICES ASSUME NEW c \in Calls, pc[c] = "idle", pc'[c] \in {"telling", "done"}
                 PROVE  LET dropped == { k \in Keys \ Written(c) : vol.by[k] > 0 /\ vol'.by[k] = 0 }
                            kept == { k \in Keys \ Written(c) : vol'.by[k] > 0 }
                        IN /\ \A j \in dropped, k \in kept : vol.used[j] < vol.used[k]
                           /\ \A j \in dropped :
                                (\A k \in dropped : vol.used[k] <= vol.used[j]) =>
                                  Projected(vol, c) - Sum(vol.by, dropped \ {j}) > Capacity
      OBVIOUS
    <3>1. /\ Room(vol, c) \in SUBSET (Keys \ Written(c)) /\ \A k \in Room(vol, c) : vol.by[k] > 0
          /\ \A k \in Keys : vol.by[k] \in Nat
      BY <2>0, RoomKeys DEF Ranked, Shape
    <3>2. \A k \in Keys \ Written(c) : vol'.by[k] = IF k \in Room(vol, c) THEN 0 ELSE vol.by[k]
      BY <2>2, <2>3 DEF Without
    <3>3. { k \in Keys \ Written(c) : vol.by[k] > 0 /\ vol'.by[k] = 0 } = Room(vol, c)
      BY <3>1, <3>2
    <3>4. \A k \in { k \in Keys \ Written(c) : vol'.by[k] > 0 } :
            k \in Keys \ Written(c) /\ vol.by[k] > 0 /\ k \notin Room(vol, c)
      BY <3>1, <3>2
    <3>5. \A j \in Room(vol, c), k \in { k \in Keys \ Written(c) : vol'.by[k] > 0 } :
            vol.used[j] < vol.used[k]
      BY <2>0, <3>4, ColdFirst
    <3>6. \A j \in Room(vol, c) :
            (\A k \in Room(vol, c) : vol.used[k] <= vol.used[j]) =>
              Projected(vol, c) - Sum(vol.by, Room(vol, c) \ {j}) > Capacity
      BY <2>0, NoFurther
    <3> QED BY <3>3, <3>5, <3>6
  <2> QED BY <2>1, <2>3
<1> QED BY <1>1, VInvariance, PTL DEF Spec, DropsColdest
=============================================================================
