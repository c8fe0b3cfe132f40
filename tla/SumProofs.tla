------------------------------- MODULE SumProofs -------------------------------
(***************************************************************************)
(* Sums over finite sets.  SumFunctionOnSet and MapThenSumSet of the       *)
(* community modules take the elements in the order of CHOOSE; these       *)
(* lemmas say that the order does not matter, so that the sum of a set     *)
(* that grew by an element grew by its value.                              *)
(*                                                                         *)
(* They are proved by induction over the subsets of a finite set, in the   *)
(* form of minimal elements of a set of subsets: the library's induction   *)
(* rule takes a predicate as parameter, this one a set.                    *)
(***************************************************************************)
EXTENDS FiniteSetsExt, FiniteSetTheorems, TLAPS

(***************************************************************************)
(* Induction: a family that contains every subset of S whose own strict    *)
(* subsets it contains, contains every subset of S.                        *)
(***************************************************************************)
LEMMA SubsetInduction ==
  ASSUME NEW S, IsFiniteSet(S), NEW Good,
         \A T \in SUBSET S : (\A U \in SUBSET T : U # T => U \in Good) => T \in Good
  PROVE  \A T \in SUBSET S : T \in Good
<1> DEFINE Bad == {T \in SUBSET S : T \notin Good}
<1>1. IsWellFoundedOn(StrictSubsetOrdering(S), SUBSET S)
  BY FS_StrictSubsetOrderingWellFounded, FS_FiniteSubsetsOfFinite
<1>2. SUFFICES ASSUME Bad # {}
               PROVE  FALSE
  OBVIOUS
<1>3. \E T \in Bad : \A U \in Bad : <<U, T>> \notin StrictSubsetOrdering(S)
  <2>1. Bad \subseteq SUBSET S
    OBVIOUS
  <2> HIDE DEF Bad
  <2>2. QED
    BY <1>1, <1>2, <2>1, WFMin
<1>4. QED
  BY <1>3 DEF StrictSubsetOrdering

-----------------------------------------------------------------------------
(* The recursive function behind the sums *)

Chosen(s) == CHOOSE x \in s : TRUE
Rest(s)   == s \ {Chosen(s)}

Solves(g, f, S) ==
  g = [s \in SUBSET S |-> IF s = {} THEN 0 ELSE f[Chosen(s)] + g[Rest(s)]]

Solution(f, S) == CHOOSE g : Solves(g, f, S)

LEMMA SumIsSolution ==
  ASSUME NEW f, NEW S
  PROVE  SumFunctionOnSet(f, S) = Solution(f, S)[S]
BY DEF SumFunctionOnSet, FoldFunctionOnSet, MapThenFoldSet, Solution, Solves, Chosen, Rest

LEMMA RestSmaller ==
  ASSUME NEW s, s # {}
  PROVE  Chosen(s) \in s /\ Rest(s) \subseteq s /\ Rest(s) # s
BY DEF Chosen, Rest

LEMMA SolvesAt ==
  ASSUME NEW f, NEW S, NEW g, Solves(g, f, S)
  PROVE  \A s \in SUBSET S : g[s] = IF s = {} THEN 0 ELSE f[Chosen(s)] + g[Rest(s)]
<1> DEFINE G == [s \in SUBSET S |-> IF s = {} THEN 0 ELSE f[Chosen(s)] + g[Rest(s)]]
<1>1. g = G
  BY DEF Solves
<1>2. \A s \in SUBSET S : G[s] = IF s = {} THEN 0 ELSE f[Chosen(s)] + g[Rest(s)]
  OBVIOUS
<1> HIDE DEF G
<1>3. QED
  BY <1>1, <1>2

LEMMA SolutionsAgree ==
  ASSUME NEW f, NEW S, IsFiniteSet(S), NEW T \in SUBSET S,
         NEW g, Solves(g, f, S), NEW h, Solves(h, f, T)
  PROVE  \A s \in SUBSET T : g[s] = h[s]
<1> DEFINE Good == {s \in SUBSET T : g[s] = h[s]}
<1>1. IsFiniteSet(T)
  BY FS_Subset
<1>2. ASSUME NEW s \in SUBSET T, \A u \in SUBSET s : u # s => u \in Good
      PROVE  s \in Good
  <2>1. s # {} => Rest(s) \in Good
    BY <1>2, RestSmaller
  <2>2. QED
    BY <2>1, SolvesAt
<1>3. \A s \in SUBSET T : s \in Good
  <2> HIDE DEF Good
  <2>1. QED
    BY <1>1, <1>2, SubsetInduction
<1>4. QED
  BY <1>3

LEMMA SolutionExists ==
  ASSUME NEW f, NEW S, IsFiniteSet(S)
  PROVE  \A T \in SUBSET S : Solves(Solution(f, T), f, T)
<1> DEFINE Good == {T \in SUBSET S : Solves(Solution(f, T), f, T)}
           Value(s) == Solution(f, s)[s]
<1>1. ASSUME NEW T \in SUBSET S, \A u \in SUBSET T : u # T => u \in Good
      PROVE  T \in Good
  <2> DEFINE g == [s \in SUBSET T |-> IF s = {} THEN 0 ELSE f[Chosen(s)] + Value(Rest(s))]
  <2>1. \A s \in SUBSET T : g[s] = IF s = {} THEN 0 ELSE f[Chosen(s)] + Value(Rest(s))
    OBVIOUS
  <2>2. ASSUME NEW s \in SUBSET T, s # {}
        PROVE  g[Rest(s)] = Value(Rest(s))
    <3> DEFINE u == Rest(s)
    <3>1. u \in SUBSET T /\ u # T /\ u \in SUBSET S
      BY <2>2, RestSmaller
    <3>2. Solves(Solution(f, u), f, u)
      BY <1>1, <3>1
    <3>3. Value(u) = IF u = {} THEN 0 ELSE f[Chosen(u)] + Solution(f, u)[Rest(u)]
      BY <3>2, SolvesAt
    <3>4. ASSUME u # {}
          PROVE  Solution(f, u)[Rest(u)] = Value(Rest(u))
      <4>1. Rest(u) \in SUBSET u /\ Rest(u) \in SUBSET T /\ Rest(u) # T
        BY <3>1, <3>4, RestSmaller
      <4>2. Solves(Solution(f, Rest(u)), f, Rest(u))
        BY <1>1, <4>1
      <4>3. IsFiniteSet(u)
        BY <3>1, FS_Subset
      <4>4. QED
        BY <3>2, <4>1, <4>2, <4>3, SolutionsAgree
    <3> HIDE DEF u, g, Value
    <3>5. g[u] = Value(u)
      BY <2>1, <3>1, <3>3, <3>4
    <3>6. QED
      BY <3>5 DEF u
  <2>3. Solves(g, f, T)
    <3>1. g = [s \in SUBSET T |-> IF s = {} THEN 0 ELSE f[Chosen(s)] + g[Rest(s)]]
      <4> HIDE DEF Value
      <4>1. \A s \in SUBSET T :
              (IF s = {} THEN 0 ELSE f[Chosen(s)] + Value(Rest(s)))
                = (IF s = {} THEN 0 ELSE f[Chosen(s)] + g[Rest(s)])
        <5> HIDE DEF g
        <5>1. QED
          BY <2>2
      <4> DEFINE h == g
      <4>2. h = g
        OBVIOUS
      <4> HIDE DEF h
      <4>3. [s \in SUBSET T |-> IF s = {} THEN 0 ELSE f[Chosen(s)] + Value(Rest(s))]
              = [s \in SUBSET T |-> IF s = {} THEN 0 ELSE f[Chosen(s)] + h[Rest(s)]]
        BY <4>1, <4>2
      <4>4. QED
        BY <4>2, <4>3
    <3> HIDE DEF g
    <3>2. QED
      BY <3>1 DEF Solves
  <2> HIDE DEF g
  <2>4. QED
    BY <2>3 DEF Solution
<1>2. \A T \in SUBSET S : T \in Good
  <2> HIDE DEF Good
  <2>1. QED
    BY <1>1, SubsetInduction
<1>3. QED
  BY <1>2

-----------------------------------------------------------------------------
(* Sums *)

LEMMA SumByChoice ==
  ASSUME NEW f, NEW S, IsFiniteSet(S)
  PROVE  SumFunctionOnSet(f, S) =
           IF S = {} THEN 0 ELSE f[Chosen(S)] + SumFunctionOnSet(f, Rest(S))
<1>1. Solves(Solution(f, S), f, S)
  BY SolutionExists
<1>2. Solution(f, S)[S] = IF S = {} THEN 0 ELSE f[Chosen(S)] + Solution(f, S)[Rest(S)]
  BY <1>1, SolvesAt
<1>3. ASSUME S # {}
      PROVE  Solution(f, S)[Rest(S)] = Solution(f, Rest(S))[Rest(S)]
  <2>1. Rest(S) \in SUBSET S
    BY <1>3, RestSmaller
  <2>2. Solves(Solution(f, Rest(S)), f, Rest(S))
    BY <2>1, SolutionExists
  <2>3. QED
    BY <1>1, <2>1, <2>2, SolutionsAgree
<1>4. QED
  BY <1>2, <1>3, SumIsSolution

(***************************************************************************)
(* The sum of naturals is a natural, and it does not matter which element  *)
(* is taken first.                                                         *)
(***************************************************************************)
LEMMA SumByElement ==
  ASSUME NEW f, NEW S, IsFiniteSet(S), \A x \in S : f[x] \in Nat
  PROVE  /\ SumFunctionOnSet(f, S) \in Nat
         /\ \A x \in S : SumFunctionOnSet(f, S) = f[x] + SumFunctionOnSet(f, S \ {x})
<1> DEFINE Sum(T) == SumFunctionOnSet(f, T)
           Good == {T \in SUBSET S : Sum(T) \in Nat /\ \A x \in T : Sum(T) = f[x] + Sum(T \ {x})}
<1>1. \A T \in SUBSET S : Sum(T) = IF T = {} THEN 0 ELSE f[Chosen(T)] + Sum(Rest(T))
  BY FS_Subset, SumByChoice
<1> HIDE DEF Sum
<1>2. ASSUME NEW T \in SUBSET S, \A u \in SUBSET T : u # T => u \in Good
      PROVE  T \in Good
  <2>1. CASE T = {}
    <3>1. Sum(T) = 0
      BY <1>1, <2>1
    <3>2. \A x \in T : Sum(T) = f[x] + Sum(T \ {x})
      BY <2>1
    <3>3. QED
      BY <3>1, <3>2
  <2>2. CASE T # {}
    <3> DEFINE y == Chosen(T)
    <3>1. y \in T /\ Rest(T) = T \ {y} /\ Sum(T) = f[y] + Sum(T \ {y}) /\ f[y] \in Nat
      BY <1>1, <2>2, RestSmaller DEF Rest
    <3> HIDE DEF y
    <3>2. \A x \in T : (T \ {x}) \in SUBSET T /\ T \ {x} # T
      OBVIOUS
    <3>3. \A x \in T : (T \ {x}) \in Good
      BY <1>2, <3>2
    <3>4. \A x \in T : Sum(T \ {x}) \in Nat
      BY <3>3
    <3>5. ASSUME NEW x \in T, x # y
          PROVE  Sum(T) = f[x] + Sum(T \ {x})
      <4> DEFINE both == (T \ {x}) \ {y}
      <4>1. both = (T \ {y}) \ {x} /\ both \in SUBSET T /\ both # T
        BY <3>1, <3>5
      <4>2. Sum(T \ {y}) = f[x] + Sum(both)
        <5>1. x \in T \ {y} /\ (T \ {y}) \in Good
          BY <3>1, <3>3, <3>5
        <5>2. QED
          BY <4>1, <5>1
      <4>3. Sum(T \ {x}) = f[y] + Sum(both)
        <5>1. y \in T \ {x} /\ (T \ {x}) \in Good
          BY <3>1, <3>3, <3>5
        <5>2. QED
          BY <5>1
      <4>4. both \in Good
        BY <1>2, <4>1
      <4>5. Sum(both) \in Nat /\ f[x] \in Nat
        BY <4>4
      <4> HIDE DEF both, Good
      <4>6. QED
        BY <3>1, <4>2, <4>3, <4>5
    <3>6. \A x \in T : Sum(T) = f[x] + Sum(T \ {x})
      BY <3>1, <3>5
    <3>7. Sum(T) \in Nat
      BY <3>1, <3>4
    <3>8. QED
      BY <3>6, <3>7
  <2>3. QED
    BY <2>1, <2>2
<1>3. S \in Good
  <2> HIDE DEF Good
  <2>1. QED
    BY <1>2, SubsetInduction
<1>4. QED
  BY <1>3 DEF Sum

(***************************************************************************)
(* The sum depends on the values in the set only.                          *)
(***************************************************************************)
LEMMA SumOfSameValues ==
  ASSUME NEW f, NEW g, NEW S, IsFiniteSet(S), \A x \in S : f[x] = g[x]
  PROVE  SumFunctionOnSet(f, S) = SumFunctionOnSet(g, S)
<1> DEFINE Good == {T \in SUBSET S : SumFunctionOnSet(f, T) = SumFunctionOnSet(g, T)}
<1>1. ASSUME NEW T \in SUBSET S, \A u \in SUBSET T : u # T => u \in Good
      PROVE  T \in Good
  <2>1. IsFiniteSet(T)
    BY FS_Subset
  <2>2. T # {} => Rest(T) \in Good /\ Chosen(T) \in S
    BY <1>1, RestSmaller
  <2>3. QED
    BY <2>1, <2>2, SumByChoice
<1>2. S \in Good
  <2> HIDE DEF Good
  <2>1. QED
    BY <1>1, SubsetInduction
<1>3. QED
  BY <1>2

LEMMA SumOfNone ==
  ASSUME NEW f
  PROVE  SumFunctionOnSet(f, {}) = 0
BY SumByChoice, FS_EmptySet

(***************************************************************************)
(* One element more adds its value.                                        *)
(***************************************************************************)
LEMMA SumWithElement ==
  ASSUME NEW f, NEW S, IsFiniteSet(S), NEW x, x \notin S, \A y \in S \cup {x} : f[y] \in Nat
  PROVE  /\ SumFunctionOnSet(f, S) \in Nat
         /\ SumFunctionOnSet(f, S \cup {x}) = f[x] + SumFunctionOnSet(f, S)
<1>1. IsFiniteSet(S \cup {x}) /\ (S \cup {x}) \ {x} = S
  BY FS_AddElement
<1>2. SumFunctionOnSet(f, S) \in Nat
  BY SumByElement
<1>3. SumFunctionOnSet(f, S \cup {x}) = f[x] + SumFunctionOnSet(f, (S \cup {x}) \ {x})
  BY <1>1, SumByElement
<1>4. QED
  BY <1>1, <1>2, <1>3

(***************************************************************************)
(* Disjoint sets add up, so the sum of a part is at most that of the whole.*)
(***************************************************************************)
LEMMA SumOfUnion ==
  ASSUME NEW f, NEW S, NEW T, IsFiniteSet(S), IsFiniteSet(T), S \cap T = {},
         \A x \in S \cup T : f[x] \in Nat
  PROVE  SumFunctionOnSet(f, S \cup T) = SumFunctionOnSet(f, S) + SumFunctionOnSet(f, T)
<1> DEFINE Sum(U) == SumFunctionOnSet(f, U)
           Good == {U \in SUBSET S : Sum(U \cup T) = Sum(U) + Sum(T)}
<1>1. \A U \in SUBSET S : IsFiniteSet(U) /\ IsFiniteSet(U \cup T)
  BY FS_Subset, FS_Union
<1>2. Sum({}) = 0
  BY SumOfNone
<1>3. \A U \in SUBSET S : Sum(U) \in Nat /\ \A x \in U : Sum(U) = f[x] + Sum(U \ {x})
  BY <1>1, SumByElement
<1>4. \A U \in SUBSET S : \A x \in U \cup T : Sum(U \cup T) = f[x] + Sum((U \cup T) \ {x})
  BY <1>1, SumByElement
<1>5. Sum(T) \in Nat
  BY SumByElement
<1> HIDE DEF Sum
<1>6. ASSUME NEW U \in SUBSET S, \A V \in SUBSET U : V # U => V \in Good
      PROVE  U \in Good
  <2>1. CASE U = {}
    <3>1. U \cup T = T
      BY <2>1
    <3>2. QED
      BY <1>2, <1>5, <2>1, <3>1
  <2>2. CASE U # {}
    <3>1. PICK x \in U : TRUE
      BY <2>2
    <3>2. (U \ {x}) \in Good
      BY <1>6, <3>1
    <3>3. Sum((U \ {x}) \cup T) = Sum(U \ {x}) + Sum(T)
      BY <3>2
    <3>4. (U \cup T) \ {x} = (U \ {x}) \cup T
      BY <3>1
    <3>5. Sum(U \cup T) = f[x] + (Sum(U \ {x}) + Sum(T))
      BY <1>4, <3>1, <3>3, <3>4
    <3>6. Sum(U) = f[x] + Sum(U \ {x}) /\ Sum(U \ {x}) \in Nat /\ f[x] \in Nat
      BY <1>3, <3>1
    <3>7. QED
      BY <1>5, <3>5, <3>6
  <2>3. QED
    BY <2>1, <2>2
<1>7. S \in Good
  <2> HIDE DEF Good
  <2>1. QED
    BY <1>6, SubsetInduction
<1>8. QED
  BY <1>7 DEF Sum

LEMMA SumOfPart ==
  ASSUME NEW f, NEW S, IsFiniteSet(S), \A x \in S : f[x] \in Nat, NEW T \in SUBSET S
  PROVE  SumFunctionOnSet(f, T) <= SumFunctionOnSet(f, S)
<1>1. IsFiniteSet(T) /\ IsFiniteSet(S \ T) /\ T \cup (S \ T) = S
  BY FS_Subset
<1>2. SumFunctionOnSet(f, T) \in Nat /\ SumFunctionOnSet(f, S \ T) \in Nat
  BY <1>1, SumByElement
<1>3. SumFunctionOnSet(f, T \cup (S \ T)) = SumFunctionOnSet(f, T) + SumFunctionOnSet(f, S \ T)
  BY <1>1, SumOfUnion
<1>4. SumFunctionOnSet(f, S) = SumFunctionOnSet(f, T) + SumFunctionOnSet(f, S \ T)
  BY <1>1, <1>3
<1>5. QED
  BY <1>2, <1>4

(***************************************************************************)
(* Where two functions differ in one value, their sums differ by as much.  *)
(***************************************************************************)
LEMMA SumWithOneChanged ==
  ASSUME NEW S, IsFiniteSet(S), NEW f \in [S -> Nat], NEW g \in [S -> Nat], NEW x \in S,
         \A y \in S \ {x} : g[y] = f[y]
  PROVE  /\ SumFunction(f) \in Nat
         /\ SumFunction(g) = SumFunction(f) - f[x] + g[x]
<1>1. SumFunction(f) = SumFunctionOnSet(f, S) /\ SumFunction(g) = SumFunctionOnSet(g, S)
  BY DEF SumFunction
<1>2. IsFiniteSet(S \ {x})
  BY FS_Subset
<1>3. SumFunctionOnSet(f, S \ {x}) = SumFunctionOnSet(g, S \ {x})
  BY <1>2, SumOfSameValues
<1>4. /\ SumFunctionOnSet(f, S) = f[x] + SumFunctionOnSet(f, S \ {x})
      /\ SumFunctionOnSet(g, S) = g[x] + SumFunctionOnSet(g, S \ {x})
      /\ SumFunctionOnSet(f, S) \in Nat
  BY SumByElement
<1>5. SumFunctionOnSet(f, S \ {x}) \in Nat
  BY <1>2, SumByElement
<1>6. QED
  BY <1>1, <1>3, <1>4, <1>5

LEMMA SumOfZeros ==
  ASSUME NEW S, IsFiniteSet(S)
  PROVE  SumFunction([x \in S |-> 0]) = 0
<1> DEFINE zero == [x \in S |-> 0]
           Good == {T \in SUBSET S : SumFunctionOnSet(zero, T) = 0}
<1>1. DOMAIN zero = S /\ \A x \in S : zero[x] = 0
  OBVIOUS
<1> HIDE DEF zero
<1>2. ASSUME NEW T \in SUBSET S, \A u \in SUBSET T : u # T => u \in Good
      PROVE  T \in Good
  <2>1. IsFiniteSet(T)
    BY FS_Subset
  <2>2. T # {} => Rest(T) \in Good /\ Chosen(T) \in S
    BY <1>2, RestSmaller
  <2>3. QED
    BY <1>1, <2>1, <2>2, SumByChoice
<1>3. S \in Good
  <2> HIDE DEF Good
  <2>1. QED
    BY <1>2, SubsetInduction
<1>4. QED
  BY <1>1, <1>3 DEF SumFunction, zero

-----------------------------------------------------------------------------
(* Sums of amounts *)

(***************************************************************************)
(* MapThenSumSet of the amounts of some entries of a table is the sum of   *)
(* the function that has those amounts.                                    *)
(***************************************************************************)
LEMMA AmountsAreSum ==
  ASSUME NEW table, NEW S, IsFiniteSet(S), NEW f, \A r \in S : f[r] = table[r].amount_usdc
  PROVE  MapThenSumSet(LAMBDA r : table[r].amount_usdc, S) = SumFunctionOnSet(f, S)
<1> DEFINE Value(g, s) == table[CHOOSE x \in s : TRUE].amount_usdc + g[s \ {CHOOSE x \in s : TRUE}]
           Steps(g) == [s \in SUBSET S |-> IF s = {} THEN 0 ELSE Value(g, s)]
           iter == CHOOSE g : g = Steps(g)
<1>1. ASSUME NEW g
      PROVE  g = Steps(g) <=> Solves(g, f, S)
  <2>1. \A s \in SUBSET S : s # {} => Value(g, s) = f[Chosen(s)] + g[Rest(s)]
    <3>1. \A s \in SUBSET S : s # {} => Chosen(s) \in S
      BY RestSmaller
    <3>2. QED
      BY <3>1 DEF Chosen, Rest
  <2> HIDE DEF Value
  <2>2. Steps(g) = [s \in SUBSET S |-> IF s = {} THEN 0 ELSE f[Chosen(s)] + g[Rest(s)]]
    BY <2>1
  <2> HIDE DEF Steps
  <2>3. QED
    BY <2>2 DEF Solves
<1>2. MapThenSumSet(LAMBDA r : table[r].amount_usdc, S) = iter[S]
  BY DEF MapThenSumSet, MapThenFoldSet
<1> HIDE DEF Steps
<1>3. Solves(Solution(f, S), f, S)
  BY SolutionExists
<1>4. iter = Steps(iter)
  <2>1. Solution(f, S) = Steps(Solution(f, S))
    BY <1>1, <1>3
  <2>2. QED
    BY <2>1
<1>5. Solves(iter, f, S)
  <2> HIDE DEF iter
  <2>1. QED
    BY <1>1, <1>4
<1> HIDE DEF iter
<1>6. iter[S] = Solution(f, S)[S]
  BY <1>3, <1>5, SolutionsAgree
<1>7. QED
  BY <1>2, <1>6, SumIsSolution
=============================================================================
