------------------------------- MODULE SumsProofs -------------------------------
(***************************************************************************)
(* What SumOn computes, for every function and every finite set.           *)
(*                                                                         *)
(* The sum is a recursive function that picks the elements of the set one  *)
(* by one.  The principle of induction used here is first-order: a set G   *)
(* of good sets stands for the predicate, and a smallest subset that is    *)
(* not good is what the well-foundedness of strict inclusion provides.     *)
(***************************************************************************)
EXTENDS Sums, FiniteSetTheorems, TLAPS

-------------------------------------------------------------------------------
\* A set G that contains each subset of a finite S all of whose proper subsets
\* it contains, contains S.
LEMMA StrongSetInduction ==
    ASSUME NEW S, IsFiniteSet(S), NEW G,
           \A T \in SUBSET S : (\A U \in SUBSET T : U # T => U \in G) => T \in G
    PROVE  S \in G
<1> DEFINE Bad == {T \in SUBSET S : T \notin G}
<1> SUFFICES ASSUME S \notin G PROVE FALSE
  OBVIOUS
<1>1. IsWellFoundedOn(StrictSubsetOrdering(S), FiniteSubsetsOf(S))
  BY FS_StrictSubsetOrderingWellFounded
<1>2. Bad \subseteq FiniteSubsetsOf(S) /\ Bad # {}
  BY FS_FiniteSubsetsOfFinite
<1>3. PICK T \in Bad : \A U \in Bad : ~(<<U, T>> \in StrictSubsetOrdering(S))
  <2> HIDE DEF Bad
  <2> QED
    BY <1>1, <1>2, WFMin
<1>4. \A U \in SUBSET T : U # T => U \in G
  BY <1>3 DEF StrictSubsetOrdering
<1> QED
  BY <1>4

\* A set G that contains the empty set and, with T less some element, T itself,
\* contains S.
LEMMA SetInduction ==
    ASSUME NEW S, IsFiniteSet(S), NEW G, {} \in G,
           \A T \in SUBSET S, x \in S : x \in T /\ T \ {x} \in G => T \in G
    PROVE  S \in G
<1>1. ASSUME NEW T \in SUBSET S, \A U \in SUBSET T : U # T => U \in G
      PROVE  T \in G
  <2>1. CASE T = {}
    BY <2>1
  <2>2. CASE T # {}
    <3>1. PICK x : x \in T
      BY <2>2
    <3>2. T \ {x} \in G
      BY <1>1, <3>1
    <3> QED
      BY <3>1, <3>2
  <2> QED
    BY <2>1, <2>2
<1> QED
  BY <1>1, StrongSetInduction

-------------------------------------------------------------------------------
\* The recursive function behind the sum.
Pick(s) == CHOOSE x \in s : TRUE
Accumulated(f, g, s) == IF s = {} THEN 0 ELSE f[Pick(s)] + g[s \ {Pick(s)}]
Solves(f, S, g) == g = [s \in SUBSET S |-> Accumulated(f, g, s)]
Solution(f, S) == CHOOSE g : Solves(f, S, g)

\* The sum is the chosen solution at S.
LEMMA Unfolded == \A f, S : SumOn(f, S) = Solution(f, S)[S]
BY DEF SumOn, MapThenSumSet, MapThenFoldSet, Solution, Solves, Accumulated, Pick

\* Two solutions agree on every finite set in both their domains.
LEMMA SolutionsAgree ==
    ASSUME NEW f, NEW A, NEW B, NEW g, NEW h, Solves(f, A, g), Solves(f, B, h),
           NEW s, IsFiniteSet(s), s \subseteq A, s \subseteq B
    PROVE  g[s] = h[s]
<1> DEFINE G == {t \in SUBSET s : g[t] = h[t]}
<1>1. ASSUME NEW T \in SUBSET s, \A U \in SUBSET T : U # T => U \in G
      PROVE  T \in G
  <2>1. g[T] = Accumulated(f, g, T) /\ h[T] = Accumulated(f, h, T)
    BY DEF Solves
  <2>2. CASE T = {}
    BY <2>1, <2>2 DEF Accumulated
  <2>3. CASE T # {}
    <3>1. Pick(T) \in T
      BY <2>3 DEF Pick
    <3>2. T \ {Pick(T)} \in G
      BY <1>1, <3>1
    <3> QED
      BY <2>1, <2>3, <3>2 DEF Accumulated
  <2> QED
    BY <2>2, <2>3
<1> HIDE DEF G
<1>2. s \in G
  BY <1>1, StrongSetInduction
<1> QED
  BY <1>2 DEF G

\* There is a solution on every finite set.
LEMMA SolutionExists ==
    ASSUME NEW f, NEW S, IsFiniteSet(S)
    PROVE  \E g : Solves(f, S, g)
<1> DEFINE G == {T \in SUBSET S : \E g : Solves(f, T, g)}
<1>1. ASSUME NEW T \in SUBSET S, \A U \in SUBSET T : U # T => U \in G
      PROVE  T \in G
  <2> DEFINE Part(U) == Solution(f, U)[U]
             Rest(s) == Part(s \ {Pick(s)})
             whole == [s \in SUBSET T |-> IF s = {} THEN 0 ELSE f[Pick(s)] + Rest(s)]
  <2>1. ASSUME NEW U \in SUBSET T, U # T PROVE Solves(f, U, Solution(f, U))
    BY <1>1, <2>1 DEF Solution
  <2>2. ASSUME NEW s \in SUBSET T, s # {}
        PROVE  whole[s \ {Pick(s)}] = Rest(s)
    <3> DEFINE t == s \ {Pick(s)}
    <3>1. Pick(s) \in s
      BY <2>2 DEF Pick
    <3>2. t \in SUBSET T /\ t # T
      BY <3>1
    <3>3. Solves(f, t, Solution(f, t))
      BY <2>1, <3>2
    <3>4. Part(t) = Accumulated(f, Solution(f, t), t)
      <4> HIDE DEF t
      <4> QED
        BY <3>3 DEF Solves
    <3>5. CASE t = {}
      BY <3>2, <3>4, <3>5 DEF Accumulated
    <3>6. CASE t # {}
      <4> DEFINE u == t \ {Pick(t)}
      <4>1. Pick(t) \in t
        BY <3>6 DEF Pick
      <4>2. u \in SUBSET T /\ u # T /\ u \subseteq t
        BY <3>2, <4>1
      <4>3. Solves(f, u, Solution(f, u))
        BY <2>1, <4>2
      <4>4. IsFiniteSet(u)
        BY <4>2, FS_Subset
      <4>5. Solution(f, t)[u] = Solution(f, u)[u]
        <5> HIDE DEF t, u
        <5> QED
          BY <3>3, <4>2, <4>3, <4>4, SolutionsAgree
      <4>6. whole[t] = f[Pick(t)] + Part(u)
        BY <3>2, <3>6
      <4> QED
        BY <3>4, <3>6, <4>5, <4>6 DEF Accumulated
    <3> QED
      BY <3>5, <3>6
  <2>3. \A s \in SUBSET T : whole[s] = Accumulated(f, whole, s)
    <3> TAKE s \in SUBSET T
    <3> HIDE DEF Rest
    <3>1. whole[s] = IF s = {} THEN 0 ELSE f[Pick(s)] + Rest(s)
      OBVIOUS
    <3> HIDE DEF whole
    <3> QED
      BY <2>2, <3>1 DEF Accumulated
  <2>4. whole = [s \in SUBSET T |-> whole[s]]
    OBVIOUS
  <2> HIDE DEF whole
  <2> QED
    BY <2>3, <2>4 DEF Solves
<1> HIDE DEF G
<1>2. S \in G
  BY <1>1, StrongSetInduction
<1> QED
  BY <1>2 DEF G

\* One step of the recursion.
LEMMA SumStep ==
    ASSUME NEW f, NEW S, IsFiniteSet(S)
    PROVE  SumOn(f, S) = IF S = {} THEN 0
                         ELSE f[Pick(S)] + SumOn(f, S \ {Pick(S)})
<1> DEFINE t == S \ {Pick(S)}
<1>1. Solves(f, S, Solution(f, S))
  BY SolutionExists DEF Solution
<1>2. IsFiniteSet(t)
  BY FS_Subset
<1>3. Solves(f, t, Solution(f, t))
  <2> HIDE DEF t
  <2> QED
    BY <1>2, SolutionExists DEF Solution
<1>4. Solution(f, S)[t] = Solution(f, t)[t]
  <2>1. t \subseteq S
    OBVIOUS
  <2> HIDE DEF t
  <2> QED
    BY <1>1, <1>2, <1>3, <2>1, SolutionsAgree
<1>5. Solution(f, S)[S] = Accumulated(f, Solution(f, S), S)
  BY <1>1 DEF Solves
<1> QED
  BY <1>4, <1>5, Unfolded DEF Accumulated

-------------------------------------------------------------------------------
\* The sum over no element.
LEMMA SumEmpty == \A f : SumOn(f, {}) = 0
<1> TAKE f
<1> QED
  BY SumStep, FS_EmptySet

\* Any element can be taken out of a sum of integers, which is an integer.
LEMMA SumRemove ==
    ASSUME NEW S, IsFiniteSet(S), NEW f, \A s \in S : f[s] \in Int
    PROVE  /\ SumOn(f, S) \in Int
           /\ \A x \in S : SumOn(f, S) = f[x] + SumOn(f, S \ {x})
<1> DEFINE Good(T) == /\ SumOn(f, T) \in Int
                      /\ \A x \in T : SumOn(f, T) = f[x] + SumOn(f, T \ {x})
           G == {T \in SUBSET S : Good(T)}
<1>1. ASSUME NEW T \in SUBSET S, \A U \in SUBSET T : U # T => U \in G
      PROVE  T \in G
  <2>1. CASE T = {}
    BY <2>1, SumEmpty
  <2>2. CASE T # {}
    <3> DEFINE y == Pick(T)
    <3>1. y \in T
      BY <2>2 DEF Pick
    <3> HIDE DEF y
    <3>2. IsFiniteSet(T)
      BY FS_Subset
    <3>3. SumOn(f, T) = f[y] + SumOn(f, T \ {y})
      BY <2>2, <3>2, SumStep DEF y
    <3>4. Good(T \ {y})
      BY <1>1, <3>1
    <3>5. ASSUME NEW x \in T, x # y
          PROVE  SumOn(f, T) = f[x] + SumOn(f, T \ {x})
      <4>1. Good(T \ {x})
        BY <1>1
      <4>2. SumOn(f, T \ {y}) = f[x] + SumOn(f, (T \ {y}) \ {x})
        BY <3>4, <3>5
      <4>3. SumOn(f, T \ {x}) = f[y] + SumOn(f, (T \ {x}) \ {y})
        BY <3>1, <3>5, <4>1
      <4>4. (T \ {y}) \ {x} = (T \ {x}) \ {y}
        OBVIOUS
      <4>5. Good((T \ {x}) \ {y})
        BY <1>1, <3>1
      <4> DEFINE rest == SumOn(f, (T \ {x}) \ {y})
      <4>6. rest \in Int /\ f[x] \in Int /\ f[y] \in Int
        BY <3>1, <4>5
      <4>7. /\ SumOn(f, T) = f[y] + (f[x] + rest)
            /\ SumOn(f, T \ {x}) = f[y] + rest
        BY <3>3, <4>2, <4>3, <4>4
      <4> HIDE DEF rest
      <4> QED
        BY <4>6, <4>7
    <3>6. SumOn(f, T) \in Int
      BY <3>1, <3>3, <3>4
    <3> QED
      BY <3>3, <3>5, <3>6
  <2> QED
    BY <2>1, <2>2
<1> HIDE DEF G
<1>2. S \in G
  BY <1>1, StrongSetInduction
<1> QED
  BY <1>2 DEF G

\* A sum of natural numbers is one.
LEMMA SumNat ==
    ASSUME NEW S, IsFiniteSet(S), NEW f, \A s \in S : f[s] \in Nat
    PROVE  SumOn(f, S) \in Nat
<1> DEFINE G == {T \in SUBSET S : SumOn(f, T) \in Nat}
<1>1. {} \in G
  BY SumEmpty
<1>2. ASSUME NEW T \in SUBSET S, NEW x \in S, x \in T, T \ {x} \in G
      PROVE  T \in G
  <2>1. IsFiniteSet(T)
    BY FS_Subset
  <2>2. SumOn(f, T) = f[x] + SumOn(f, T \ {x})
    BY <1>2, <2>1, SumRemove
  <2>3. SumOn(f, T \ {x}) \in Nat /\ f[x] \in Nat
    BY <1>2
  <2> QED
    BY <2>2, <2>3
<1> HIDE DEF G
<1>3. S \in G
  BY <1>1, <1>2, SetInduction
<1> QED
  BY <1>3 DEF G

\* The sum of a function that is the sum of two.
LEMMA SumAdd ==
    ASSUME NEW S, IsFiniteSet(S), NEW f, NEW g, NEW h,
           \A s \in S : f[s] \in Int /\ g[s] \in Int /\ h[s] = f[s] + g[s]
    PROVE  SumOn(h, S) = SumOn(f, S) + SumOn(g, S)
<1> DEFINE G == {T \in SUBSET S : SumOn(h, T) = SumOn(f, T) + SumOn(g, T)}
<1>1. {} \in G
  BY SumEmpty
<1>2. ASSUME NEW T \in SUBSET S, NEW x \in S, x \in T, T \ {x} \in G
      PROVE  T \in G
  <2>1. IsFiniteSet(T) /\ IsFiniteSet(T \ {x})
    BY FS_Subset
  <2>2. SumOn(f, T) = f[x] + SumOn(f, T \ {x})
    BY <1>2, <2>1, SumRemove
  <2>3. SumOn(g, T) = g[x] + SumOn(g, T \ {x})
    BY <1>2, <2>1, SumRemove
  <2>4. SumOn(h, T) = h[x] + SumOn(h, T \ {x})
    <3>1. \A s \in T : h[s] \in Int
      OBVIOUS
    <3> QED
      BY <1>2, <2>1, <3>1, SumRemove
  <2>5. SumOn(f, T \ {x}) \in Int /\ SumOn(g, T \ {x}) \in Int
    BY <2>1, SumRemove
  <2>6. SumOn(h, T \ {x}) = SumOn(f, T \ {x}) + SumOn(g, T \ {x})
    BY <1>2
  <2> QED
    BY <1>2, <2>2, <2>3, <2>4, <2>5, <2>6
<1> HIDE DEF G
<1>3. S \in G
  BY <1>1, <1>2, SetInduction
<1> QED
  BY <1>3 DEF G

\* A function that is 0 everywhere but at x.
LEMMA SumSingle ==
    ASSUME NEW S, IsFiniteSet(S), NEW f, NEW x, f[x] \in Int,
           \A s \in S : s # x => f[s] = 0
    PROVE  SumOn(f, S) = IF x \in S THEN f[x] ELSE 0
<1> DEFINE Value(T) == IF x \in T THEN f[x] ELSE 0
           G == {T \in SUBSET S : SumOn(f, T) = Value(T)}
<1>1. {} \in G
  BY SumEmpty
<1>2. ASSUME NEW T \in SUBSET S, NEW y \in S, y \in T, T \ {y} \in G
      PROVE  T \in G
  <2>1. \A s \in T : f[s] \in Int
    OBVIOUS
  <2>2. SumOn(f, T) = f[y] + SumOn(f, T \ {y})
    <3>1. IsFiniteSet(T)
      BY FS_Subset
    <3> QED
      BY <1>2, <2>1, <3>1, SumRemove
  <2>3. SumOn(f, T \ {y}) = Value(T \ {y})
    BY <1>2
  <2>4. CASE y = x
    BY <1>2, <2>2, <2>3, <2>4
  <2>5. CASE y # x
    BY <1>2, <2>2, <2>3, <2>5
  <2> QED
    BY <2>4, <2>5
<1> HIDE DEF G
<1>3. S \in G
  BY <1>1, <1>2, SetInduction
<1> QED
  BY <1>3 DEF G

\* A function that is 0 everywhere.
LEMMA SumZero ==
    ASSUME NEW S, IsFiniteSet(S), NEW f, \A s \in S : f[s] = 0
    PROVE  SumOn(f, S) = 0
<1> DEFINE G == {T \in SUBSET S : SumOn(f, T) = 0}
<1>1. {} \in G
  BY SumEmpty
<1>2. ASSUME NEW T \in SUBSET S, NEW x \in S, x \in T, T \ {x} \in G
      PROVE  T \in G
  <2>1. IsFiniteSet(T) /\ \A s \in T : f[s] \in Int
    BY FS_Subset
  <2>2. SumOn(f, T) = f[x] + SumOn(f, T \ {x})
    BY <1>2, <2>1, SumRemove
  <2> QED
    BY <1>2, <2>2
<1> HIDE DEF G
<1>3. S \in G
  BY <1>1, <1>2, SetInduction
<1> QED
  BY <1>3 DEF G

\* Functions that agree on S have the same sum over it.
LEMMA SumCongruent ==
    ASSUME NEW S, IsFiniteSet(S), NEW f, NEW g,
           \A s \in S : f[s] \in Int /\ g[s] = f[s]
    PROVE  SumOn(g, S) = SumOn(f, S)
<1> DEFINE zero == [s \in S |-> 0]
<1>1. SumOn(zero, S) = 0
  BY SumZero
<1>2. SumOn(g, S) = SumOn(f, S) + SumOn(zero, S)
  <2>1. \A s \in S : f[s] \in Int /\ zero[s] \in Int /\ g[s] = f[s] + zero[s]
    OBVIOUS
  <2> HIDE DEF zero
  <2> QED
    BY <2>1, SumAdd
<1>3. SumOn(f, S) \in Int
  BY SumRemove
<1> QED
  BY <1>1, <1>2, <1>3

-------------------------------------------------------------------------------
\* f where h sends to t, and 0 elsewhere.
Group(f, h, S, t) == [s \in S |-> IF h[s] = t THEN f[s] ELSE 0]

\* Grouping: when g has, at each t, the sum of f over the elements that h sends
\* to t, the two have the same sum.
LEMMA SumGrouped ==
    ASSUME NEW S, IsFiniteSet(S), NEW T, IsFiniteSet(T), NEW f, NEW g, NEW h,
           \A s \in S : f[s] \in Int /\ h[s] \in T,
           \A t \in T : g[t] = SumOn(Group(f, h, S, t), S)
    PROVE  SumOn(g, T) = SumOn(f, S)
<1> DEFINE Of(t, U) == SumOn(Group(f, h, S, t), U)
           groups(U) == [t \in T |-> Of(t, U)]
           G == {U \in SUBSET S : SumOn(groups(U), T) = SumOn(f, U)}
<1>1. \A t \in T : \A s \in S : Group(f, h, S, t)[s] \in Int
  BY DEF Group
<1>2. {} \in G
  <2>1. \A t \in T : groups({})[t] = 0
    BY SumEmpty
  <2>2. SumOn(groups({}), T) = 0
    <3> HIDE DEF groups
    <3> QED
      BY <2>1, SumZero
  <2> QED
    BY <2>2, SumEmpty
<1>3. ASSUME NEW U \in SUBSET S, NEW x \in S, x \in U, U \ {x} \in G
      PROVE  U \in G
  <2> DEFINE V == U \ {x}
             one == [t \in T |-> IF h[x] = t THEN f[x] ELSE 0]
  <2>1. IsFiniteSet(U) /\ IsFiniteSet(V)
    BY FS_Subset
  <2>2. ASSUME NEW t \in T
        PROVE  /\ Of(t, V) \in Int
               /\ Of(t, U) = one[t] + Of(t, V)
    <3> DEFINE part == Group(f, h, S, t)
    <3>1. part[x] = one[t]
      BY DEF Group
    <3>2. \A s \in S : part[s] \in Int
      BY <1>1
    <3>3. SumOn(part, U) = part[x] + SumOn(part, V)
      <4> HIDE DEF part
      <4> QED
        BY <1>3, <2>1, <3>2, SumRemove
    <3>4. SumOn(part, V) \in Int
      <4>1. \A s \in V : part[s] \in Int
        BY <3>2
      <4> HIDE DEF part, V
      <4> QED
        BY <2>1, <4>1, SumRemove
    <3> QED
      BY <3>1, <3>3, <3>4
  <2>3. SumOn(groups(U), T) = SumOn(one, T) + SumOn(groups(V), T)
    <3> DEFINE a == groups(U)
               b == groups(V)
    <3>1. \A t \in T : one[t] \in Int /\ b[t] \in Int /\ a[t] = one[t] + b[t]
      <4> HIDE DEF Of, V
      <4> QED
        BY <2>2
    <3> HIDE DEF a, b, one
    <3>2. SumOn(a, T) = SumOn(one, T) + SumOn(b, T)
      BY <3>1, SumAdd
    <3> QED
      BY <3>2 DEF a, b
  <2>4. SumOn(one, T) = f[x]
    <3>1. one[h[x]] = f[x] /\ \A t \in T : t # h[x] => one[t] = 0
      OBVIOUS
    <3> HIDE DEF one
    <3> QED
      BY <3>1, SumSingle
  <2>5. SumOn(f, U) = f[x] + SumOn(f, V)
    BY <1>3, <2>1, SumRemove
  <2>6. SumOn(groups(V), T) = SumOn(f, V)
    BY <1>3
  <2> HIDE DEF one, V, groups
  <2> QED
    BY <2>3, <2>4, <2>5, <2>6
<1>4. S \in G
  <2> HIDE DEF G
  <2> QED
    BY <1>2, <1>3, SetInduction
<1>5. SumOn(g, T) = SumOn(groups(S), T)
  <2>1. \A t \in T : groups(S)[t] = g[t] /\ g[t] \in Int
    <3> TAKE t \in T
    <3> DEFINE part == Group(f, h, S, t)
    <3>1. \A s \in S : part[s] \in Int
      BY <1>1
    <3>2. SumOn(part, S) \in Int
      <4> HIDE DEF part
      <4> QED
        BY <3>1, SumRemove
    <3> QED
      BY <3>2
  <2> HIDE DEF groups
  <2> QED
    BY <2>1, SumCongruent
<1> QED
  BY <1>4, <1>5

\* Renaming: h sends the elements of S to different elements of T with the
\* same value, and what it leaves out of T is 0.
LEMMA SumRenamed ==
    ASSUME NEW S, IsFiniteSet(S), NEW T, IsFiniteSet(T), NEW f, NEW g, NEW h,
           \A s \in S : f[s] \in Int /\ h[s] \in T /\ g[h[s]] = f[s],
           \A s, r \in S : h[s] = h[r] => s = r,
           \A t \in T : (\A s \in S : h[s] # t) => g[t] = 0
    PROVE  SumOn(g, T) = SumOn(f, S)
<1>1. ASSUME NEW t \in T PROVE g[t] = SumOn(Group(f, h, S, t), S)
  <2> DEFINE part == Group(f, h, S, t)
  <2>1. CASE \A s \in S : h[s] # t
    <3>1. \A s \in S : part[s] = 0
      BY <2>1 DEF Group
    <3>2. SumOn(part, S) = 0
      <4> HIDE DEF part
      <4> QED
        BY <3>1, SumZero
    <3> QED
      BY <2>1, <3>2
  <2>2. CASE \E s \in S : h[s] = t
    <3>1. PICK x \in S : h[x] = t
      BY <2>2
    <3>2. part[x] = g[t] /\ part[x] \in Int /\ \A s \in S : s # x => part[s] = 0
      BY <3>1 DEF Group
    <3>3. SumOn(part, S) = part[x]
      <4> HIDE DEF part
      <4> QED
        BY <3>2, SumSingle
    <3> QED
      BY <3>2, <3>3
  <2> QED
    BY <2>1, <2>2
<1> QED
  BY <1>1, SumGrouped
=================================================================================
