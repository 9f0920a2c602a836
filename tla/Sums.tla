-------------------------------- MODULE Sums --------------------------------
(***************************************************************************)
(* Facts about sums over finite sets (SumFunctionOnSet of Functions), for  *)
(* the proofs about accounts: what the sum is, and what one element adds.  *)
(***************************************************************************)
EXTENDS Integers, Functions, FiniteSetTheorems, WellFoundedInduction, TLAPS

-----------------------------------------------------------------------------
(* Induction *)

(* A set of naturals with an element has a least one. *)
LEMMA LeastNatural ==
  ASSUME NEW T \in SUBSET Nat, NEW n \in T
  PROVE  \E m \in T : \A k \in T : m <= k
<1>1. PICK R : R = OpToRel(<, Nat)
  OBVIOUS
<1>2. IsWellFoundedOn(R, Nat)
  BY <1>1, NatLessThanWellFounded
<1>3. PICK m \in T : \A k \in T : <<k, m>> \notin R
  BY <1>2, WFMin
<1>4. \A k \in T : k < m => <<k, m>> \in R
  BY <1>1 DEF OpToRel
<1>5. \A k \in T : k \in Nat /\ m \in Nat /\ ~(k < m)
  BY <1>3, <1>4
<1>6. \A k \in T : m <= k
  BY <1>5
<1> QED
  BY <1>6

(* A set of naturals that holds 0 and the successors of its elements holds *)
(* them all.                                                               *)
LEMMA NaturalInduction ==
  ASSUME NEW T \in SUBSET Nat, 0 \in T, \A n \in T : n + 1 \in T
  PROVE  T = Nat
<1>1. SUFFICES ASSUME NEW x \in Nat, x \notin T PROVE FALSE
  OBVIOUS
<1>2. PICK m \in Nat \ T : \A k \in Nat \ T : m <= k
  BY <1>1, LeastNatural
<1>3. m # 0 /\ m - 1 \in Nat /\ m - 1 \in T
  BY <1>2
<1> QED
  BY <1>2, <1>3

(* A set of subsets of a finite set that holds every T all of whose T \ {x} *)
(* it holds, holds them all.                                                *)
LEMMA SubsetInduction ==
  ASSUME NEW S, IsFiniteSet(S), NEW Q \in SUBSET SUBSET S,
         \A T \in SUBSET S : (\A x \in T : T \ {x} \in Q) => T \in Q
  PROVE  Q = SUBSET S
<1>1. SUFFICES ASSUME NEW U \in SUBSET S, U \notin Q PROVE FALSE
  OBVIOUS
<1>2. PICK W : W = {Cardinality(T) : T \in (SUBSET S) \ Q}
  OBVIOUS
<1>3. \A T \in SUBSET S : IsFiniteSet(T) /\ Cardinality(T) \in Nat
  BY FS_Subset, FS_CardinalityType
<1>4. W \in SUBSET Nat /\ Cardinality(U) \in W
  <2>1. \A k \in W : k \in Nat
    BY <1>2, <1>3
  <2>2. Cardinality(U) \in W
    BY <1>1, <1>2
  <2> QED
    BY <2>1, <2>2
<1>5. PICK m \in W : \A k \in W : m <= k
  BY <1>4, LeastNatural
<1>6. PICK T \in (SUBSET S) \ Q : m = Cardinality(T)
  BY <1>2, <1>5
<1>7. PICK x \in T : T \ {x} \notin Q
  BY <1>6, Zenon
<1>8. Cardinality(T \ {x}) \in W
  BY <1>2, <1>7
<1>9. Cardinality(T \ {x}) = Cardinality(T) - 1
  BY <1>3, <1>7, FS_RemoveElement
<1> QED
  BY <1>3, <1>5, <1>6, <1>8, <1>9

-----------------------------------------------------------------------------
(* The fold behind SumFunctionOnSet *)

Pick(s) == CHOOSE x \in s : TRUE

Folded(f, S, g) ==
    g = [s \in SUBSET S |-> IF s = {} THEN 0 ELSE f[Pick(s)] + g[s \ {Pick(s)}]]

(* An element is picked from a set that has one. *)
LEMMA PickIn ==
  ASSUME NEW s, s # {}
  PROVE  Pick(s) \in s
BY DEF Pick

(* The sum is read off some function that satisfies the fold's equation. *)
LEMMA Unfold ==
  ASSUME NEW f, NEW S
  PROVE  SumFunctionOnSet(f, S) = (CHOOSE g : Folded(f, S, g))[S]
BY DEF SumFunctionOnSet, FoldFunctionOnSet, MapThenFoldSet, Folded, Pick

(* Such a function exists: sums of more and more elements define each other. *)
LEMMA FoldExists ==
  ASSUME NEW S, IsFiniteSet(S), NEW f, \A x \in S : f[x] \in Int
  PROVE  \E g \in [SUBSET S -> Int] : Folded(f, S, g)
<1> DEFINE Step(g, s) == IF s = {} THEN 0 ELSE f[Pick(s)] + g[s \ {Pick(s)}]
           Upto(n, g) == \A s \in SUBSET S : Cardinality(s) <= n => g[s] = Step(g, s)
<1>1. PICK T : T = {n \in Nat : \E g \in [SUBSET S -> Int] : Upto(n, g)}
  OBVIOUS
<1>2. \A s \in SUBSET S : IsFiniteSet(s) /\ Cardinality(s) \in Nat
  BY FS_Subset, FS_CardinalityType
<1>3. \A s \in SUBSET S : s # {} =>
         /\ Pick(s) \in S
         /\ s \ {Pick(s)} \in SUBSET S
         /\ Cardinality(s \ {Pick(s)}) = Cardinality(s) - 1
  BY <1>2, PickIn, FS_RemoveElement
<1>4. 0 \in T
  <2>1. PICK g : g = [s \in SUBSET S |-> 0]
    OBVIOUS
  <2>2. g \in [SUBSET S -> Int]
    BY <2>1
  <2>3. Upto(0, g)
    BY <1>2, <2>1, FS_EmptySet
  <2> QED
    BY <1>1, <2>2, <2>3
<1>5. \A n \in T : n + 1 \in T
  <2> SUFFICES ASSUME NEW n \in T PROVE n + 1 \in T
    OBVIOUS
  <2>1. n \in Nat
    BY <1>1
  <2>2. PICK g \in [SUBSET S -> Int] : Upto(n, g)
    BY <1>1
  <2>3. PICK h : h = [s \in SUBSET S |-> Step(g, s)]
    OBVIOUS
  <2>4. h \in [SUBSET S -> Int]
    <3>1. ASSUME NEW s \in SUBSET S PROVE Step(g, s) \in Int
      <4>1. CASE s = {}
        BY <4>1
      <4>2. CASE s # {}
        <5>1. f[Pick(s)] \in Int
          BY <1>3, <4>2
        <5>2. g[s \ {Pick(s)}] \in Int
          BY <1>3, <2>2, <4>2
        <5> QED
          BY <4>2, <5>1, <5>2
      <4> QED
        BY <4>1, <4>2
    <3> QED
      BY <2>3, <3>1
  <2>5. Upto(n + 1, h)
    <3> SUFFICES ASSUME NEW s \in SUBSET S, Cardinality(s) <= n + 1, s # {}
                 PROVE  h[s] = Step(h, s)
      BY <2>3
    <3>1. s \ {Pick(s)} \in SUBSET S /\ Cardinality(s \ {Pick(s)}) <= n
      BY <1>2, <1>3, <2>1
    <3>2. h[s \ {Pick(s)}] = g[s \ {Pick(s)}]
      BY <2>2, <2>3, <3>1
    <3> QED
      BY <2>3, <3>2
  <2> QED
    <3>1. \E k \in [SUBSET S -> Int] : Upto(n + 1, k)
      BY <2>4, <2>5, Zenon
    <3>2. n + 1 \in Nat
      BY <2>1
    <3> QED
      BY <1>1, <3>1, <3>2, Zenon
<1>6. Cardinality(S) \in T
  <2>1. T \in SUBSET Nat
    BY <1>1
  <2>2. T = Nat
    BY <1>4, <1>5, <2>1, NaturalInduction
  <2> QED
    BY <1>2, <2>2
<1>7. PICK g \in [SUBSET S -> Int] : Upto(Cardinality(S), g)
  BY <1>1, <1>6
<1>8. \A s \in SUBSET S : g[s] = Step(g, s)
  BY <1>7, FS_Subset
<1> QED
  BY <1>7, <1>8 DEF Folded

(* It is determined by what it sums, also on a smaller set. *)
LEMMA FoldUnique ==
  ASSUME NEW S, IsFiniteSet(S), NEW T \in SUBSET S, NEW f, NEW e,
         \A x \in T : f[x] = e[x],
         NEW g, Folded(f, S, g), NEW h, Folded(e, T, h)
  PROVE  g[T] = h[T]
<1>1. PICK Q : Q = {s \in SUBSET T : g[s] = h[s]}
  OBVIOUS
<1>2. ASSUME NEW s \in SUBSET T, \A x \in s : s \ {x} \in Q
      PROVE  g[s] = h[s]
  <2>1. CASE s = {}
    BY <2>1 DEF Folded
  <2>2. CASE s # {}
    <3>1. Pick(s) \in s
      BY <2>2, PickIn
    <3>2. g[s \ {Pick(s)}] = h[s \ {Pick(s)}]
      BY <1>1, <1>2, <3>1
    <3>3. f[Pick(s)] = e[Pick(s)]
      BY <3>1
    <3>4. g[s] = f[Pick(s)] + g[s \ {Pick(s)}]
      BY <2>2 DEF Folded
    <3>5. h[s] = e[Pick(s)] + h[s \ {Pick(s)}]
      BY <2>2 DEF Folded
    <3> QED
      BY <3>2, <3>3, <3>4, <3>5
  <2> QED
    BY <2>1, <2>2
<1>3. IsFiniteSet(T)
  BY FS_Subset
<1>4. Q = SUBSET T
  <2>1. Q \in SUBSET SUBSET T
    BY <1>1
  <2>2. \A s \in SUBSET T : (\A x \in s : s \ {x} \in Q) => s \in Q
    BY <1>1, <1>2, Zenon
  <2> QED
    BY <1>3, <2>1, <2>2, SubsetInduction
<1> QED
  BY <1>1, <1>4

-----------------------------------------------------------------------------
(* Sums *)

(* The sum of some elements, from any function that folds over more of them. *)
LEMMA SumIs ==
  ASSUME NEW S, IsFiniteSet(S), NEW T \in SUBSET S, NEW f, NEW e,
         \A x \in S : f[x] \in Int, \A x \in T : f[x] = e[x],
         NEW g, Folded(f, S, g)
  PROVE  g[T] = SumFunctionOnSet(e, T)
<1>1. \A x \in T : e[x] \in Int
  OBVIOUS
<1>2. IsFiniteSet(T)
  BY FS_Subset
<1>3. \E h : Folded(e, T, h)
  BY <1>1, <1>2, FoldExists
<1>4. PICK h : h = CHOOSE k : Folded(e, T, k)
  OBVIOUS
<1>5. Folded(e, T, h)
  BY <1>3, <1>4
<1>6. g[T] = h[T]
  BY <1>5, FoldUnique
<1> QED
  BY <1>4, <1>6, Unfold

(* Nothing adds up to 0. *)
LEMMA SumEmpty ==
  ASSUME NEW f
  PROVE  SumFunctionOnSet(f, {}) = 0
<1>1. PICK g \in [SUBSET {} -> Int] : Folded(f, {}, g)
  BY FoldExists, FS_EmptySet
<1>2. g[{}] = 0
  BY <1>1 DEF Folded
<1> QED
  BY <1>1, <1>2, SumIs, FS_EmptySet

(* A sum of integers is one. *)
LEMMA SumType ==
  ASSUME NEW S, IsFiniteSet(S), NEW f, \A x \in S : f[x] \in Int
  PROVE  SumFunctionOnSet(f, S) \in Int
<1>1. PICK g \in [SUBSET S -> Int] : Folded(f, S, g)
  BY FoldExists
<1> QED
  BY <1>1, SumIs

(* It depends only on the terms. *)
LEMMA SumSame ==
  ASSUME NEW S, IsFiniteSet(S), NEW f, NEW e,
         \A x \in S : f[x] \in Int, \A x \in S : f[x] = e[x]
  PROVE  SumFunctionOnSet(f, S) = SumFunctionOnSet(e, S)
<1>1. PICK g \in [SUBSET S -> Int] : Folded(f, S, g)
  BY FoldExists
<1> QED
  BY <1>1, SumIs

(* The element the fold takes first adds its value. *)
LEMMA SumPick ==
  ASSUME NEW S, IsFiniteSet(S), NEW f, \A x \in S : f[x] \in Int, S # {}
  PROVE  SumFunctionOnSet(f, S) = f[Pick(S)] + SumFunctionOnSet(f, S \ {Pick(S)})
<1>1. PICK g \in [SUBSET S -> Int] : Folded(f, S, g)
  BY FoldExists
<1>2. g[S] = f[Pick(S)] + g[S \ {Pick(S)}]
  BY <1>1 DEF Folded
<1>3. g[S] = SumFunctionOnSet(f, S)
  BY <1>1, SumIs
<1>4. g[S \ {Pick(S)}] = SumFunctionOnSet(f, S \ {Pick(S)})
  BY <1>1, SumIs
<1> QED
  BY <1>2, <1>3, <1>4

(* Every element adds its value, whatever the order the fold takes them in. *)
LEMMA SumRemove ==
  ASSUME NEW S, IsFiniteSet(S), NEW f, \A x \in S : f[x] \in Int, NEW x \in S
  PROVE  SumFunctionOnSet(f, S) = f[x] + SumFunctionOnSet(f, S \ {x})
<1> DEFINE Sum(T) == SumFunctionOnSet(f, T)
<1>1. PICK Q : Q = {T \in SUBSET S : \A y \in T : Sum(T) = f[y] + Sum(T \ {y})}
  OBVIOUS
<1>2. \A T \in SUBSET S : Sum(T) \in Int
  BY SumType, FS_Subset
<1>3. ASSUME NEW T \in SUBSET S, \A y \in T : T \ {y} \in Q, NEW y \in T
      PROVE  Sum(T) = f[y] + Sum(T \ {y})
  <2>1. PICK p : p = Pick(T)
    OBVIOUS
  <2>2. p \in T
    BY <2>1, PickIn
  <2>3. Sum(T) = f[p] + Sum(T \ {p})
    BY <2>1, SumPick, FS_Subset
  <2>4. CASE y = p
    BY <2>3, <2>4
  <2>5. CASE y # p
    <3>1. Sum(T \ {p}) = f[y] + Sum((T \ {p}) \ {y})
      BY <1>1, <1>3, <2>2, <2>5
    <3>2. Sum(T \ {y}) = f[p] + Sum((T \ {y}) \ {p})
      BY <1>1, <1>3, <2>2, <2>5
    <3>3. PICK rest \in Int : rest = Sum((T \ {p}) \ {y})
      BY <1>2
    <3>4. Sum((T \ {y}) \ {p}) = rest
      <4>1. (T \ {y}) \ {p} = (T \ {p}) \ {y}
        OBVIOUS
      <4> QED
        BY <3>3, <4>1
    <3>5. f[y] \in Int /\ f[p] \in Int
      BY <2>2
    <3> QED
      BY <2>3, <3>1, <3>2, <3>3, <3>4, <3>5
  <2> QED
    BY <2>4, <2>5
<1>4. Q = SUBSET S
  <2>1. Q \in SUBSET SUBSET S
    BY <1>1
  <2>2. \A T \in SUBSET S : (\A y \in T : T \ {y} \in Q) => T \in Q
    <3> HIDE DEF Sum
    <3> QED
      BY <1>1, <1>3, Zenon
  <2> QED
    BY <2>1, <2>2, SubsetInduction
<1> QED
  BY <1>1, <1>4

(* An element that was not there adds its value. *)
LEMMA SumAdd ==
  ASSUME NEW S, IsFiniteSet(S), NEW f, NEW x, x \notin S,
         \A y \in S \cup {x} : f[y] \in Int
  PROVE  SumFunctionOnSet(f, S \cup {x}) = f[x] + SumFunctionOnSet(f, S)
<1>1. IsFiniteSet(S \cup {x})
  BY FS_AddElement
<1>2. (S \cup {x}) \ {x} = S
  OBVIOUS
<1>3. SumFunctionOnSet(f, S \cup {x}) = f[x] + SumFunctionOnSet(f, (S \cup {x}) \ {x})
  BY <1>1, SumRemove
<1> QED
  BY <1>2, <1>3

(* One value changes: the sum changes by as much. *)
LEMMA SumChange ==
  ASSUME NEW S, IsFiniteSet(S), NEW f, NEW e, NEW x \in S,
         \A y \in S : f[y] \in Int /\ e[y] \in Int,
         \A y \in S \ {x} : f[y] = e[y]
  PROVE  SumFunctionOnSet(e, S) = SumFunctionOnSet(f, S) - f[x] + e[x]
<1>1. IsFiniteSet(S \ {x})
  BY FS_RemoveElement
<1>2. SumFunctionOnSet(f, S \ {x}) = SumFunctionOnSet(e, S \ {x})
  BY <1>1, SumSame
<1>3. PICK rest \in Int : rest = SumFunctionOnSet(f, S \ {x})
  BY <1>1, SumType
<1>4. SumFunctionOnSet(f, S) = f[x] + rest
  BY <1>3, SumRemove
<1>5. SumFunctionOnSet(e, S) = e[x] + rest
  BY <1>2, <1>3, SumRemove
<1> QED
  BY <1>4, <1>5

(* Naturals add up to a natural, and to at least each of them. *)
LEMMA SumNat ==
  ASSUME NEW S, IsFiniteSet(S), NEW f, \A x \in S : f[x] \in Nat
  PROVE  /\ SumFunctionOnSet(f, S) \in Nat
         /\ \A x \in S : f[x] <= SumFunctionOnSet(f, S)
<1> DEFINE Sum(T) == SumFunctionOnSet(f, T)
<1>1. PICK Q : Q = {T \in SUBSET S : Sum(T) \in Nat}
  OBVIOUS
<1>2. \A T \in SUBSET S : IsFiniteSet(T) /\ \A x \in T : f[x] \in Nat /\ f[x] \in Int
  BY FS_Subset
<1>3. ASSUME NEW T \in SUBSET S, \A y \in T : T \ {y} \in Q
      PROVE  Sum(T) \in Nat
  <2>1. CASE T = {}
    BY <2>1, SumEmpty
  <2>2. CASE T # {}
    <3>1. PICK y : y \in T
      BY <2>2
    <3>2. Sum(T) = f[y] + Sum(T \ {y})
      BY <1>2, <3>1, SumRemove
    <3>3. f[y] \in Nat /\ Sum(T \ {y}) \in Nat
      BY <1>1, <1>3, <3>1
    <3> QED
      BY <3>2, <3>3
  <2> QED
    BY <2>1, <2>2
<1>4. Q = SUBSET S
  <2>1. Q \in SUBSET SUBSET S
    BY <1>1
  <2>2. \A T \in SUBSET S : (\A y \in T : T \ {y} \in Q) => T \in Q
    <3> HIDE DEF Sum
    <3> QED
      BY <1>1, <1>3, Zenon
  <2> QED
    BY <2>1, <2>2, SubsetInduction
<1>5. ASSUME NEW x \in S PROVE f[x] <= Sum(S)
  <2>1. Sum(S) = f[x] + Sum(S \ {x})
    BY <1>2, SumRemove
  <2>2. f[x] \in Nat /\ Sum(S \ {x}) \in Nat
    BY <1>1, <1>4
  <2> QED
    BY <2>1, <2>2
<1> QED
  BY <1>1, <1>4, <1>5

(* What is 0 may be left out. *)
LEMMA SumNonzero ==
  ASSUME NEW S, IsFiniteSet(S), NEW T \in SUBSET S, NEW f, \A x \in S : f[x] \in Int,
         \A x \in S \ T : f[x] = 0
  PROVE  SumFunctionOnSet(f, T) = SumFunctionOnSet(f, S)
<1> DEFINE Sum(U) == SumFunctionOnSet(f, U)
<1>1. PICK Q : Q = {U \in SUBSET S : Sum(U \cap T) = Sum(U)}
  OBVIOUS
<1>2. \A U \in SUBSET S : IsFiniteSet(U) /\ Sum(U) \in Int /\ \A x \in U : f[x] \in Int
  BY FS_Subset, SumType
<1>3. ASSUME NEW U \in SUBSET S, \A y \in U : U \ {y} \in Q
      PROVE  Sum(U \cap T) = Sum(U)
  <2>1. CASE U \subseteq T
    <3>1. U \cap T = U
      BY <2>1
    <3> QED
      BY <3>1
  <2>2. CASE \E y \in U : y \notin T
    <3>1. PICK y \in U : y \notin T
      BY <2>2
    <3>2. Sum(U) = f[y] + Sum(U \ {y})
      BY <1>2, SumRemove
    <3>3. f[y] = 0
      BY <3>1
    <3>4. Sum((U \ {y}) \cap T) = Sum(U \ {y})
      BY <1>1, <1>3
    <3>5. (U \ {y}) \cap T = U \cap T
      BY <3>1
    <3>6. Sum(U \ {y}) \in Int
      BY <1>2
    <3>7. Sum(U) = Sum(U \ {y})
      BY <3>2, <3>3, <3>6
    <3> QED
      BY <3>4, <3>5, <3>7
  <2> QED
    BY <2>1, <2>2
<1>4. Q = SUBSET S
  <2>1. Q \in SUBSET SUBSET S
    BY <1>1
  <2>2. \A U \in SUBSET S : (\A y \in U : U \ {y} \in Q) => U \in Q
    <3> HIDE DEF Sum
    <3> QED
      BY <1>1, <1>3, Zenon
  <2> QED
    BY <2>1, <2>2, SubsetInduction
<1>5. S \cap T = T
  OBVIOUS
<1> QED
  BY <1>1, <1>4, <1>5

(* A sum may be taken in two parts. *)
LEMMA SumSplit ==
  ASSUME NEW S, IsFiniteSet(S), NEW T \in SUBSET S, NEW f, \A x \in S : f[x] \in Int
  PROVE  SumFunctionOnSet(f, S) = SumFunctionOnSet(f, T) + SumFunctionOnSet(f, S \ T)
<1> DEFINE Sum(U) == SumFunctionOnSet(f, U)
<1>1. PICK Q : Q = {U \in SUBSET T : Sum(S) = Sum(U) + Sum(S \ U)}
  OBVIOUS
<1>2. \A U \in SUBSET S : IsFiniteSet(U) /\ Sum(U) \in Int /\ \A x \in U : f[x] \in Int
  BY FS_Subset, SumType
<1>3. ASSUME NEW U \in SUBSET T, \A y \in U : U \ {y} \in Q
      PROVE  Sum(S) = Sum(U) + Sum(S \ U)
  <2>1. CASE U = {}
    <3>1. Sum(U) = 0
      BY <2>1, SumEmpty
    <3>2. Sum(S \ U) = Sum(S)
      <4>1. S \ U = S
        BY <2>1
      <4> QED
        BY <4>1
    <3>3. Sum(S) \in Int
      BY <1>2
    <3> HIDE DEF Sum
    <3> QED
      BY <3>1, <3>2, <3>3
  <2>2. CASE U # {}
    <3>1. PICK y : y \in U
      BY <2>2
    <3>2. Sum(S) = Sum(U \ {y}) + Sum(S \ (U \ {y}))
      BY <1>1, <1>3, <3>1
    <3>3. Sum(U) = f[y] + Sum(U \ {y})
      BY <1>2, <3>1, SumRemove
    <3>4. PICK W : W = S \ (U \ {y})
      OBVIOUS
    <3>5. W \in SUBSET S /\ y \in W /\ W \ {y} = S \ U
      BY <3>1, <3>4
    <3>6. Sum(W) = f[y] + Sum(S \ U)
      BY <1>2, <3>5, SumRemove
    <3>7. f[y] \in Int /\ Sum(U \ {y}) \in Int /\ Sum(S \ U) \in Int
      BY <1>2, <3>1
    <3> HIDE DEF Sum
    <3> QED
      BY <3>2, <3>3, <3>4, <3>6, <3>7
  <2> QED
    BY <2>1, <2>2
<1>4. Q = SUBSET T
  <2>1. Q \in SUBSET SUBSET T
    BY <1>1
  <2>2. \A U \in SUBSET T : (\A y \in U : U \ {y} \in Q) => U \in Q
    <3> HIDE DEF Sum
    <3> QED
      BY <1>1, <1>3, Zenon
  <2>3. IsFiniteSet(T)
    BY FS_Subset
  <2> QED
    BY <2>1, <2>2, <2>3, SubsetInduction
<1> QED
  BY <1>1, <1>4

(* Sums add up element by element. *)
LEMMA SumPlus ==
  ASSUME NEW S, IsFiniteSet(S), NEW f, NEW e, NEW g,
         \A x \in S : f[x] \in Int /\ e[x] \in Int /\ g[x] = f[x] + e[x]
  PROVE  SumFunctionOnSet(g, S) = SumFunctionOnSet(f, S) + SumFunctionOnSet(e, S)
<1> DEFINE F(T) == SumFunctionOnSet(f, T)
           E(T) == SumFunctionOnSet(e, T)
           G(T) == SumFunctionOnSet(g, T)
<1>1. PICK Q : Q = {T \in SUBSET S : G(T) = F(T) + E(T)}
  OBVIOUS
<1>2. \A x \in S : g[x] \in Int
  OBVIOUS
<1>3. \A T \in SUBSET S : IsFiniteSet(T) /\ F(T) \in Int /\ E(T) \in Int
  BY FS_Subset, SumType
<1>4. ASSUME NEW T \in SUBSET S, \A y \in T : T \ {y} \in Q
      PROVE  G(T) = F(T) + E(T)
  <2>1. CASE T = {}
    <3>1. F(T) = 0 /\ E(T) = 0 /\ G(T) = 0
      BY <2>1, SumEmpty
    <3> HIDE DEF F, E, G
    <3> QED
      BY <3>1
  <2>2. CASE T # {}
    <3>1. PICK y : y \in T
      BY <2>2
    <3>2. G(T \ {y}) = F(T \ {y}) + E(T \ {y})
      BY <1>1, <1>4, <3>1
    <3>3. F(T) = f[y] + F(T \ {y})
      BY <1>3, <3>1, SumRemove
    <3>4. E(T) = e[y] + E(T \ {y})
      BY <1>3, <3>1, SumRemove
    <3>5. G(T) = g[y] + G(T \ {y})
      BY <1>2, <1>3, <3>1, SumRemove
    <3>6. F(T \ {y}) \in Int /\ E(T \ {y}) \in Int
      BY <1>3
    <3>7. f[y] \in Int /\ e[y] \in Int /\ g[y] = f[y] + e[y]
      BY <3>1
    <3> HIDE DEF F, E, G
    <3> QED
      BY <3>2, <3>3, <3>4, <3>5, <3>6, <3>7
  <2> QED
    BY <2>1, <2>2
<1>5. Q = SUBSET S
  <2>1. Q \in SUBSET SUBSET S
    BY <1>1
  <2>2. \A T \in SUBSET S : (\A y \in T : T \ {y} \in Q) => T \in Q
    <3> HIDE DEF F, E, G
    <3> QED
      BY <1>1, <1>4, Zenon
  <2> QED
    BY <2>1, <2>2, SubsetInduction
<1> QED
  BY <1>1, <1>5

(* Terms of at most b sum to at most b times their number. *)
LEMMA SumAtMost ==
  ASSUME NEW S, IsFiniteSet(S), NEW f, NEW b \in Nat, \A x \in S : f[x] \in Int /\ f[x] <= b
  PROVE  SumFunctionOnSet(f, S) <= Cardinality(S) * b
<1> DEFINE Sum(T) == SumFunctionOnSet(f, T)
<1>1. PICK Q : Q = {T \in SUBSET S : Sum(T) <= Cardinality(T) * b}
  OBVIOUS
<1>2. \A T \in SUBSET S : IsFiniteSet(T) /\ Sum(T) \in Int /\ Cardinality(T) \in Nat
  BY FS_Subset, SumType, FS_CardinalityType
<1>3. ASSUME NEW T \in SUBSET S, \A y \in T : T \ {y} \in Q
      PROVE  Sum(T) <= Cardinality(T) * b
  <2>1. CASE T = {}
    <3>1. Sum(T) = 0 /\ Cardinality(T) = 0
      BY <2>1, SumEmpty, FS_EmptySet
    <3> HIDE DEF Sum
    <3> QED
      BY <3>1
  <2>2. CASE T # {}
    <3>1. PICK y : y \in T
      BY <2>2
    <3>2. Sum(T \ {y}) <= Cardinality(T \ {y}) * b
      BY <1>1, <1>3, <3>1
    <3>3. Sum(T) = f[y] + Sum(T \ {y})
      BY <1>2, <3>1, SumRemove
    <3>4. Cardinality(T \ {y}) = Cardinality(T) - 1
      BY <1>2, <3>1, FS_RemoveElement
    <3>5. /\ Sum(T \ {y}) \in Int /\ f[y] \in Int /\ f[y] <= b
          /\ Cardinality(T) \in Nat /\ Cardinality(T \ {y}) \in Nat
      BY <1>2, <3>1
    <3>6. PICK m \in Nat : m = Cardinality(T \ {y})
      BY <3>5
    <3>7. Cardinality(T) = m + 1
      BY <3>4, <3>5, <3>6
    <3>8. (m + 1) * b = m * b + b /\ m * b \in Nat
      OBVIOUS
    <3> HIDE DEF Sum
    <3> QED
      BY <3>2, <3>3, <3>5, <3>6, <3>7, <3>8
  <2> QED
    BY <2>1, <2>2
<1>4. Q = SUBSET S
  <2>1. Q \in SUBSET SUBSET S
    BY <1>1
  <2>2. \A T \in SUBSET S : (\A y \in T : T \ {y} \in Q) => T \in Q
    <3> HIDE DEF Sum
    <3> QED
      BY <1>1, <1>3, Zenon
  <2> QED
    BY <2>1, <2>2, SubsetInduction
<1> QED
  BY <1>1, <1>4

(* A finite set of naturals with an element has a largest one. *)
LEMMA LargestNatural ==
  ASSUME NEW S \in SUBSET Nat, IsFiniteSet(S), S # {}
  PROVE  \E m \in S : \A k \in S : k <= m
<1>1. PICK Q : Q = {T \in SUBSET S : T # {} => \E m \in T : \A k \in T : k <= m}
  OBVIOUS
<1>2. ASSUME NEW T \in SUBSET S, \A y \in T : T \ {y} \in Q, T # {}
      PROVE  \E m \in T : \A k \in T : k <= m
  <2>1. PICK y : y \in T
    BY <1>2
  <2>2. CASE T \ {y} = {}
    <3>1. \A k \in T : k = y
      BY <2>2
    <3>2. y \in Nat
      BY <2>1
    <3> QED
      BY <2>1, <3>1, <3>2
  <2>3. CASE T \ {y} # {}
    <3>1. PICK m \in T \ {y} : \A k \in T \ {y} : k <= m
      BY <1>1, <1>2, <2>1, <2>3
    <3>2. m \in Nat /\ y \in Nat
      BY <2>1, <3>1
    <3>3. CASE y <= m
      BY <2>1, <3>1, <3>3
    <3>4. CASE m <= y
      <4>1. \A k \in T : k \in Nat /\ k <= y
        BY <3>1, <3>2, <3>4
      <4> QED
        BY <2>1, <4>1
    <3> QED
      BY <3>2, <3>3, <3>4
  <2> QED
    BY <2>2, <2>3
<1>3. Q \in SUBSET SUBSET S
  BY <1>1
<1>4. \A T \in SUBSET S : (\A y \in T : T \ {y} \in Q) => T \in Q
  BY <1>1, <1>2, Zenon
<1>5. Q = SUBSET S
  BY <1>3, <1>4, SubsetInduction
<1> QED
  BY <1>1, <1>5

(* A sum over the elements that count is the sum over all of them. *)
LEMMA SumAll ==
  ASSUME NEW S, IsFiniteSet(S), NEW T \in SUBSET S, NEW f, NEW e,
         DOMAIN e = T, \A x \in T : e[x] = f[x],
         \A x \in S : f[x] \in Int, \A x \in S \ T : f[x] = 0
  PROVE  SumFunction(e) = SumFunctionOnSet(f, S)
<1>1. SumFunctionOnSet(f, T) = SumFunctionOnSet(f, S)
  BY SumNonzero
<1>2. IsFiniteSet(T) /\ \A x \in T : f[x] \in Int /\ f[x] = e[x]
  BY FS_Subset
<1>3. SumFunctionOnSet(f, T) = SumFunctionOnSet(e, T)
  BY <1>2, SumSame
<1> QED
  BY <1>1, <1>3 DEF SumFunction

(* A sum of zeros. *)
LEMMA ZeroSum ==
  ASSUME NEW S, IsFiniteSet(S), NEW f, \A x \in S : f[x] = 0
  PROVE  SumFunctionOnSet(f, S) = 0
<1>1. SumFunctionOnSet(f, {}) = SumFunctionOnSet(f, S)
  BY SumNonzero
<1> QED
  BY <1>1, SumEmpty, Zenon
=============================================================================
