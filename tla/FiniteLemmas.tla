---------------------------- MODULE FiniteLemmas ----------------------------
(***************************************************************************)
(* Induction over numbers and over finite sets, recursion up to a number,  *)
(* and sums of functions over finite sets.  The library states induction   *)
(* for an operator; here it is stated for the set of what a fact holds     *)
(* for, and proved from well-foundedness: what fails, fails first for a    *)
(* smallest number or set.                                                 *)
(***************************************************************************)
EXTENDS Integers, FiniteSetsExt, Functions, FiniteSetTheorems, NaturalsInduction,
        WellFoundedInduction, TLAPS

(***************************************************************************)
(* Smallest numbers and sets                                               *)
(***************************************************************************)
\* A set of naturals that is not empty has a least element.
LEMMA LeastNatural ==
    ASSUME NEW S \in SUBSET Nat, S # {}
    PROVE  \E x \in S : \A y \in S : x <= y
<1> DEFINE Below == {ss \in Nat \X Nat : ss[1] < ss[2]}
<1>1. IsWellFoundedOn(Below, Nat)
  BY NatLessThanWellFounded, Zenon DEF OpToRel
<1>2. PICK x \in S : \A y \in S : ~ (<<y, x>> \in Below)
  <2> HIDE DEF Below
  <2> QED
    BY <1>1, WFMin
<1>3. ASSUME NEW y \in S  PROVE  x <= y
  <2>1. <<y, x>> \in Nat \X Nat /\ <<y, x>>[1] = y /\ <<y, x>>[2] = x
    OBVIOUS
  <2>2. ~ (y < x)
    BY <1>2, <2>1
  <2> QED
    BY <2>2
<1> QED
  BY <1>3

\* Among subsets of a finite set there is one none of the others is part of.
LEMMA MinimalSubset ==
  ASSUME NEW S, IsFiniteSet(S), NEW Bad \in SUBSET SUBSET S, Bad # {}
  PROVE  \E T \in Bad : \A U \in Bad : U \subseteq T => U = T
<1>1. IsWellFoundedOn(StrictSubsetOrdering(S), FiniteSubsetsOf(S))
  BY FS_StrictSubsetOrderingWellFounded
<1>2. Bad \subseteq FiniteSubsetsOf(S)
  BY FS_Subset DEF FiniteSubsetsOf
<1>3. PICK T \in Bad : \A U \in Bad : ~(<<U, T>> \in StrictSubsetOrdering(S))
  BY <1>1, <1>2, WFMin
<1>4. ASSUME NEW U \in Bad, U \subseteq T, U # T
      PROVE  FALSE
  <2>1. <<U, T>> \in StrictSubsetOrdering(S)
    BY <1>4 DEF StrictSubsetOrdering
  <2> QED BY <1>3, <2>1
<1> QED BY <1>4

-----------------------------------------------------------------------------
(***************************************************************************)
(* Recursion up to a number                                                *)
(***************************************************************************)
\* What holds of 0 and of every number whose predecessor it holds of holds of all.
LEMMA IntervalInduction ==
  ASSUME NEW N \in Nat, NEW S, 0 \in S, \A n \in 1..N : n - 1 \in S => n \in S
  PROVE  \A n \in 0..N : n \in S
<1> DEFINE Bad == {n \in 0..N : n \notin S}
<1>1. SUFFICES ASSUME Bad # {}
               PROVE  FALSE
  OBVIOUS
<1>2. Bad \in SUBSET Nat
  OBVIOUS
<1>3. PICK n \in Bad : \A k \in Bad : n <= k
  <2> HIDE DEF Bad
  <2> QED BY <1>1, <1>2, LeastNatural
<1>4. n \in 1..N /\ n - 1 \in 0..N /\ ~(n <= n - 1)
  OBVIOUS
<1>5. n - 1 \in S
  BY <1>3, <1>4
<1> QED BY <1>4, <1>5

\* The values of a recursion that starts with base and goes on by step.
Runs(f, n, V, base, step) ==
  /\ f \in [0..n -> V]
  /\ f[0] = base
  /\ \A k \in 1..n : f[k] = step[<<k, f[k - 1]>>]

\* A first value and a step determine a function on 0..N.
LEMMA RecursionExists ==
  ASSUME NEW N \in Nat, NEW V, NEW base \in V, NEW step \in [(1..N) \X V -> V]
  PROVE  \E f : Runs(f, N, V, base, step)
<1> DEFINE S == {n \in 0..N : \E f : Runs(f, n, V, base, step)}
<1>1. 0 \in S
  <2> DEFINE f == [k \in 0..0 |-> base]
  <2>1. Runs(f, 0, V, base, step)
    BY DEF Runs
  <2> HIDE DEF f
  <2> QED BY <2>1
<1>2. ASSUME NEW n \in 1..N, n - 1 \in S
      PROVE  n \in S
  <2>1. PICK f : Runs(f, n - 1, V, base, step)
    BY <1>2
  <2> DEFINE next == step[<<n, f[n - 1]>>]
             g == [k \in 0..n |-> IF k = n THEN next ELSE f[k]]
  <2>2. n - 1 \in 0..(n - 1) /\ f[n - 1] \in V
    BY <2>1 DEF Runs
  <2>3. next \in V
    BY <2>2
  <2> HIDE DEF next
  <2>4. \A k \in 0..n : k # n => k \in 0..(n - 1)
    OBVIOUS
  <2>5. g \in [0..n -> V]
    BY <2>1, <2>3, <2>4 DEF Runs
  <2>6. g[0] = base
    BY <2>1 DEF Runs
  <2>7. ASSUME NEW k \in 1..n
        PROVE  g[k] = step[<<k, g[k - 1]>>]
    <3>1. g[k - 1] = f[k - 1] /\ k - 1 \in 0..(n - 1)
      OBVIOUS
    <3>2. CASE k = n
      <4>1. g[k] = next /\ g[k - 1] = f[n - 1]
        BY <3>1, <3>2
      <4> HIDE DEF g
      <4> QED BY <3>2, <4>1 DEF next
    <3>3. CASE k # n
      <4>1. k \in 1..(n - 1) /\ g[k] = f[k]
        BY <3>3
      <4> QED BY <2>1, <3>1, <4>1 DEF Runs
    <3> QED BY <3>2, <3>3
  <2> HIDE DEF g
  <2>8. Runs(g, n, V, base, step)
    BY <2>5, <2>6, <2>7 DEF Runs
  <2> QED BY <2>8
<1> HIDE DEF S
<1>3. N \in S
  BY <1>1, <1>2, IntervalInduction
<1> QED BY <1>3 DEF S

-----------------------------------------------------------------------------
(***************************************************************************)
(* Sums: the recursive function behind SumFunctionOnSet                    *)
(***************************************************************************)
Pick(T) == CHOOSE x \in T : TRUE

Sums(f, S, g) ==
  g = [T \in SUBSET S |-> IF T = {} THEN 0 ELSE f[Pick(T)] + g[T \ {Pick(T)}]]

\* The element a fold takes out is one of the set's.
LEMMA PickBelongs ==
  ASSUME NEW T, T # {}
  PROVE  Pick(T) \in T /\ T \ {Pick(T)} \subseteq T /\ T \ {Pick(T)} # T
<1>1. Pick(T) \in T
  BY DEF Pick
<1> QED BY <1>1

\* The sum is the value of a recursive function on all subsets.
LEMMA SumIsRecursive ==
  ASSUME NEW f, NEW S
  PROVE  SumFunctionOnSet(f, S) = (CHOOSE g : Sums(f, S, g))[S]
  BY DEF SumFunctionOnSet, FoldFunctionOnSet, MapThenFoldSet, Sums, Pick

\* Two such functions agree wherever both are defined.
LEMMA SumsUnique ==
  ASSUME NEW f, NEW S, NEW T \in SUBSET S, IsFiniteSet(T),
         NEW g, Sums(f, S, g), NEW h, Sums(f, T, h)
  PROVE  g[T] = h[T]
<1> DEFINE Bad == {U \in SUBSET T : g[U] # h[U]}
<1>1. SUFFICES ASSUME Bad # {}
               PROVE  FALSE
  OBVIOUS
<1>2. Bad \in SUBSET SUBSET T
  OBVIOUS
<1> HIDE DEF Bad
<1>3. PICK U \in Bad : \A V \in Bad : V \subseteq U => V = U
  BY <1>1, <1>2, MinimalSubset
<1>4. U \in SUBSET T /\ g[U] # h[U]
  BY DEF Bad
<1>5. /\ g[U] = IF U = {} THEN 0 ELSE f[Pick(U)] + g[U \ {Pick(U)}]
      /\ h[U] = IF U = {} THEN 0 ELSE f[Pick(U)] + h[U \ {Pick(U)}]
  BY <1>4 DEF Sums
<1>6. U # {}
  BY <1>4, <1>5
<1>7. U \ {Pick(U)} \notin Bad
  BY <1>3, <1>6, PickBelongs
<1>8. g[U \ {Pick(U)}] = h[U \ {Pick(U)}]
  BY <1>4, <1>7 DEF Bad
<1> QED BY <1>4, <1>5, <1>8

\* There is such a function on the subsets of a finite set.
LEMMA SumsExist ==
  ASSUME NEW f, NEW S, IsFiniteSet(S)
  PROVE  \E g : Sums(f, S, g)
<1> DEFINE Bad == {T \in SUBSET S : ~ \E g : Sums(f, T, g)}
<1>1. SUFFICES ASSUME Bad # {}
               PROVE  FALSE
  <2>1. S \in SUBSET S
    OBVIOUS
  <2> QED BY <2>1
<1>2. Bad \in SUBSET SUBSET S
  OBVIOUS
<1> HIDE DEF Bad
<1>3. PICK T \in Bad : \A U \in Bad : U \subseteq T => U = T
  BY <1>1, <1>2, MinimalSubset
<1>4. T \in SUBSET S /\ ~ \E g : Sums(f, T, g)
  BY DEF Bad
<1> DEFINE of(U) == (CHOOSE g : Sums(f, U, g))[U]
           rest(U) == U \ {Pick(U)}
           all == [U \in SUBSET T |-> IF U = {} THEN 0 ELSE f[Pick(U)] + of(rest(U))]
<1>5. ASSUME NEW U \in SUBSET T, U # T
      PROVE  Sums(f, U, CHOOSE g : Sums(f, U, g)) /\ IsFiniteSet(U)
  <2>1. U \in SUBSET S
    BY <1>4
  <2>2. \E g : Sums(f, U, g)
    BY <1>3, <1>5, <2>1 DEF Bad
  <2> QED BY <2>1, <2>2, FS_Subset
<1>6. ASSUME NEW U \in SUBSET T, U # T
      PROVE  all[U] = of(U)
  <2> DEFINE g == CHOOSE g : Sums(f, U, g)
  <2>1. Sums(f, U, g)
    BY <1>5, <1>6
  <2>2. U \in SUBSET U
    OBVIOUS
  <2>3. g[U] = IF U = {} THEN 0 ELSE f[Pick(U)] + g[rest(U)]
    <3> HIDE DEF g
    <3> QED BY <2>1, <2>2 DEF Sums
  <2>4. CASE U = {}
    BY <2>3, <2>4
  <2>5. CASE U # {}
    <3>1. rest(U) \in SUBSET U /\ rest(U) \in SUBSET T /\ rest(U) # T
      BY <1>6, <2>5, PickBelongs
    <3>2. Sums(f, rest(U), CHOOSE h : Sums(f, rest(U), h)) /\ IsFiniteSet(rest(U))
      BY <1>5, <3>1
    <3>3. g[rest(U)] = of(rest(U))
      <4> HIDE DEF g, rest
      <4> QED BY <2>1, <3>1, <3>2, SumsUnique
    <3>4. all[U] = f[Pick(U)] + of(rest(U))
      BY <2>5
    <3>5. g[U] = f[Pick(U)] + of(rest(U))
      BY <2>3, <2>5, <3>3
    <3> QED BY <3>4, <3>5
  <2> QED BY <2>4, <2>5
<1>7. \A U \in SUBSET T : U # {} => rest(U) \in SUBSET T /\ rest(U) # T
  BY PickBelongs
<1>8. all = [U \in SUBSET T |-> IF U = {} THEN 0 ELSE f[Pick(U)] + all[rest(U)]]
  <2>1. \A U \in SUBSET T : U # {} => all[rest(U)] = of(rest(U))
    <3> HIDE DEF all, of, rest
    <3> QED BY <1>6, <1>7
  <2> DEFINE again == [U \in SUBSET T |-> IF U = {} THEN 0 ELSE f[Pick(U)] + all[rest(U)]]
  <2>2. \A U \in SUBSET T : all[U] = again[U]
    <3> SUFFICES ASSUME NEW U \in SUBSET T
                 PROVE  all[U] = again[U]
      OBVIOUS
    <3>1. all[U] = IF U = {} THEN 0 ELSE f[Pick(U)] + of(rest(U))
      <4> HIDE DEF of, rest
      <4> QED OBVIOUS
    <3>2. again[U] = IF U = {} THEN 0 ELSE f[Pick(U)] + all[rest(U)]
      <4> HIDE DEF all, of, rest
      <4> QED OBVIOUS
    <3> HIDE DEF all, again, of, rest
    <3> QED BY <2>1, <3>1, <3>2
  <2>3. all = [U \in SUBSET T |-> all[U]] /\ again = [U \in SUBSET T |-> again[U]]
    <3> HIDE DEF of, rest
    <3> QED OBVIOUS
  <2>4. all = again
    <3> HIDE DEF all, again
    <3> QED BY <2>2, <2>3
  <2> QED BY <2>4
<1>9. Sums(f, T, all)
  <2> HIDE DEF all
  <2> QED BY <1>8 DEF Sums
<1> QED BY <1>4, <1>9

-----------------------------------------------------------------------------
(***************************************************************************)
(* What the sum computes                                                   *)
(***************************************************************************)
\* Nothing adds up to nothing.
LEMMA SumOfNone ==
  ASSUME NEW f
  PROVE  SumFunctionOnSet(f, {}) = 0
<1> DEFINE g == CHOOSE g : Sums(f, {}, g)
<1>1. IsFiniteSet({})
  BY FS_EmptySet
<1>2. Sums(f, {}, g)
  BY <1>1, SumsExist
<1>3. g[{}] = 0
  <2> HIDE DEF g
  <2> QED BY <1>2 DEF Sums
<1> QED BY <1>3, SumIsRecursive

\* The sum of a set is one element's value and the sum of the others.
LEMMA SumUnfolds ==
  ASSUME NEW f, NEW S, IsFiniteSet(S), S # {}
  PROVE  SumFunctionOnSet(f, S) = f[Pick(S)] + SumFunctionOnSet(f, S \ {Pick(S)})
<1> DEFINE rest == S \ {Pick(S)}
           g == CHOOSE g : Sums(f, S, g)
           h == CHOOSE h : Sums(f, rest, h)
<1>1. rest \in SUBSET S /\ IsFiniteSet(rest)
  BY FS_Subset
<1>2. Sums(f, S, g)
  BY SumsExist
<1>3. Sums(f, rest, h)
  <2> HIDE DEF rest
  <2> QED BY <1>1, SumsExist
<1>4. g[rest] = h[rest]
  <2> HIDE DEF rest, g, h
  <2> QED BY <1>1, <1>2, <1>3, SumsUnique
<1>5. S \in SUBSET S
  OBVIOUS
<1>6. g[S] = f[Pick(S)] + g[rest]
  <2> HIDE DEF g
  <2> QED BY <1>2, <1>5 DEF Sums
<1>7. SumFunctionOnSet(f, S) = g[S] /\ SumFunctionOnSet(f, rest) = h[rest]
  <2> HIDE DEF rest
  <2> QED BY SumIsRecursive
<1> QED BY <1>4, <1>6, <1>7

\* Functions that agree on a set have the same sum over it.
LEMMA SumSame ==
  ASSUME NEW f, NEW g, NEW S, IsFiniteSet(S), \A x \in S : f[x] = g[x]
  PROVE  SumFunctionOnSet(f, S) = SumFunctionOnSet(g, S)
<1> DEFINE Bad == {T \in SUBSET S : SumFunctionOnSet(f, T) # SumFunctionOnSet(g, T)}
<1>1. SUFFICES ASSUME Bad # {}
               PROVE  FALSE
  OBVIOUS
<1>2. PICK T \in Bad : \A U \in Bad : U \subseteq T => U = T
  <2>1. Bad \in SUBSET SUBSET S
    OBVIOUS
  <2> HIDE DEF Bad
  <2> QED BY <1>1, <2>1, MinimalSubset
<1>3. T # {}
  BY SumOfNone
<1>4. IsFiniteSet(T) /\ T \ {Pick(T)} \in SUBSET S /\ Pick(T) \in S
  BY <1>3, FS_Subset, PickBelongs
<1>5. T \ {Pick(T)} \notin Bad
  <2> HIDE DEF Bad
  <2> QED BY <1>2, <1>3, PickBelongs
<1>6. SumFunctionOnSet(f, T \ {Pick(T)}) = SumFunctionOnSet(g, T \ {Pick(T)})
  BY <1>4, <1>5
<1>7. SumFunctionOnSet(f, T) = SumFunctionOnSet(g, T)
  BY <1>3, <1>4, <1>6, SumUnfolds
<1> QED BY <1>7

\* Naturals add up to a natural.
LEMMA SumIsNatural ==
  ASSUME NEW f, NEW S, IsFiniteSet(S), \A x \in S : f[x] \in Nat
  PROVE  SumFunctionOnSet(f, S) \in Nat
<1> DEFINE Bad == {T \in SUBSET S : SumFunctionOnSet(f, T) \notin Nat}
<1>1. SUFFICES ASSUME Bad # {}
               PROVE  FALSE
  OBVIOUS
<1>2. PICK T \in Bad : \A U \in Bad : U \subseteq T => U = T
  <2>1. Bad \in SUBSET SUBSET S
    OBVIOUS
  <2> HIDE DEF Bad
  <2> QED BY <1>1, <2>1, MinimalSubset
<1>3. T # {}
  BY SumOfNone
<1>4. IsFiniteSet(T) /\ T \ {Pick(T)} \in SUBSET S /\ Pick(T) \in S
  BY <1>3, FS_Subset, PickBelongs
<1>5. T \ {Pick(T)} \notin Bad
  <2> HIDE DEF Bad
  <2> QED BY <1>2, <1>3, PickBelongs
<1>6. SumFunctionOnSet(f, T \ {Pick(T)}) \in Nat
  BY <1>4, <1>5
<1>7. f[Pick(T)] \in Nat
  BY <1>4
<1>8. SumFunctionOnSet(f, T) = f[Pick(T)] + SumFunctionOnSet(f, T \ {Pick(T)})
  BY <1>3, <1>4, SumUnfolds
<1>9. SumFunctionOnSet(f, T) \in Nat
  BY <1>6, <1>7, <1>8
<1> QED BY <1>9

\* Any element may be taken out, not only the one the fold starts with.
LEMMA SumTakesOut ==
  ASSUME NEW f, NEW S, IsFiniteSet(S), \A x \in S : f[x] \in Nat, NEW a \in S
  PROVE  SumFunctionOnSet(f, S) = f[a] + SumFunctionOnSet(f, S \ {a})
<1> DEFINE sum(U) == SumFunctionOnSet(f, U)
           Bad == {T \in SUBSET S : \E e \in T : sum(T) # f[e] + sum(T \ {e})}
<1>1. SUFFICES ASSUME Bad # {}
               PROVE  FALSE
  <2>1. S \in SUBSET S
    OBVIOUS
  <2> QED BY <2>1
<1>2. PICK T \in Bad : \A U \in Bad : U \subseteq T => U = T
  <2>1. Bad \in SUBSET SUBSET S
    OBVIOUS
  <2> HIDE DEF Bad
  <2> QED BY <1>1, <2>1, MinimalSubset
<1>3. PICK e \in T : sum(T) # f[e] + sum(T \ {e})
  OBVIOUS
<1> DEFINE c == Pick(T)
           both == T \ {e, c}
<1>4. T \in SUBSET S /\ IsFiniteSet(T) /\ c \in T /\ e \in T
  BY <1>3, FS_Subset, PickBelongs
<1>5. sum(T) = f[c] + sum(T \ {c})
  BY <1>4, SumUnfolds
<1>6. e # c
  <2> HIDE DEF Bad, sum, c
  <2> QED BY <1>3, <1>5
<1>7. ASSUME NEW x \in T, NEW y \in T, x # y
      PROVE  sum(T \ {x}) = f[y] + sum(T \ {x, y})
  <2>1. T \ {x} \subseteq T /\ T \ {x} # T /\ T \ {x} \in SUBSET S
    BY <1>4
  <2>2. T \ {x} \notin Bad
    <3> HIDE DEF Bad
    <3> QED BY <1>2, <2>1
  <2>3. y \in T \ {x} /\ (T \ {x}) \ {y} = T \ {x, y}
    BY <1>7
  <2>4. sum(T \ {x}) = f[y] + sum((T \ {x}) \ {y})
    BY <2>1, <2>2, <2>3
  <2> HIDE DEF Bad, sum
  <2> QED BY <2>3, <2>4
<1>8. sum(both) \in Nat
  <2>1. both \in SUBSET S /\ IsFiniteSet(both)
    BY <1>4, FS_Subset
  <2>2. \A x \in both : f[x] \in Nat
    BY <2>1
  <2> HIDE DEF both
  <2> QED BY <2>1, <2>2, SumIsNatural
<1>9. T \ {c, e} = both
  OBVIOUS
<1>10. sum(T \ {c}) = f[e] + sum(both) /\ sum(T \ {e}) = f[c] + sum(both)
  <2> HIDE DEF Bad, sum, c, both
  <2>1. sum(T \ {c}) = f[e] + sum(T \ {c, e})
    BY <1>4, <1>6, <1>7
  <2>2. sum(T \ {e}) = f[c] + sum(T \ {e, c})
    BY <1>4, <1>6, <1>7
  <2> QED BY <1>9, <2>1, <2>2 DEF both
<1>11. f[c] \in Nat /\ f[e] \in Nat
  <2> HIDE DEF c
  <2> QED BY <1>4
<1> HIDE DEF Bad, sum, c, both
<1> QED BY <1>3, <1>5, <1>8, <1>10, <1>11

\* What is larger at every element adds up to no less.
LEMMA SumGrows ==
  ASSUME NEW f, NEW g, NEW S, IsFiniteSet(S),
         \A x \in S : f[x] \in Nat /\ g[x] \in Nat /\ f[x] <= g[x]
  PROVE  SumFunctionOnSet(f, S) <= SumFunctionOnSet(g, S)
<1> DEFINE Bad == {T \in SUBSET S : ~(SumFunctionOnSet(f, T) <= SumFunctionOnSet(g, T))}
<1>1. SUFFICES ASSUME Bad # {}
               PROVE  FALSE
  OBVIOUS
<1>2. PICK T \in Bad : \A U \in Bad : U \subseteq T => U = T
  <2>1. Bad \in SUBSET SUBSET S
    OBVIOUS
  <2> HIDE DEF Bad
  <2> QED BY <1>1, <2>1, MinimalSubset
<1>3. T # {}
  BY SumOfNone
<1> DEFINE c == Pick(T)
           rest == T \ {c}
<1>4. IsFiniteSet(T) /\ rest \in SUBSET S /\ IsFiniteSet(rest) /\ c \in S
  BY <1>3, FS_Subset, PickBelongs
<1>5. rest \notin Bad
  <2> HIDE DEF Bad
  <2> QED BY <1>2, <1>3, PickBelongs
<1>6. SumFunctionOnSet(f, rest) <= SumFunctionOnSet(g, rest)
  BY <1>4, <1>5
<1>7. SumFunctionOnSet(f, rest) \in Nat /\ SumFunctionOnSet(g, rest) \in Nat
  <2> HIDE DEF rest, c, Bad
  <2> QED BY <1>4, SumIsNatural
<1>8. f[c] \in Nat /\ g[c] \in Nat /\ f[c] <= g[c]
  <2> HIDE DEF c, Bad
  <2> QED BY <1>4
<1>9. /\ SumFunctionOnSet(f, T) = f[c] + SumFunctionOnSet(f, rest)
      /\ SumFunctionOnSet(g, T) = g[c] + SumFunctionOnSet(g, rest)
  BY <1>3, <1>4, SumUnfolds
<1>10. SumFunctionOnSet(f, T) <= SumFunctionOnSet(g, T)
  <2> HIDE DEF rest, c, Bad
  <2> QED BY <1>6, <1>7, <1>8, <1>9
<1> QED BY <1>10

\* Adding up pairs is adding up both.
LEMMA SumAdds ==
  ASSUME NEW S, IsFiniteSet(S), NEW f, NEW g, NEW h,
         \A x \in S : f[x] \in Nat /\ g[x] \in Nat /\ h[x] = f[x] + g[x]
  PROVE  SumFunctionOnSet(h, S) = SumFunctionOnSet(f, S) + SumFunctionOnSet(g, S)
<1> DEFINE sum(k, U) == SumFunctionOnSet(k, U)
           Bad == {T \in SUBSET S : sum(h, T) # sum(f, T) + sum(g, T)}
<1>1. SUFFICES ASSUME Bad # {}
               PROVE  FALSE
  OBVIOUS
<1>2. PICK T \in Bad : \A U \in Bad : U \subseteq T => U = T
  <2>1. Bad \in SUBSET SUBSET S
    OBVIOUS
  <2> HIDE DEF Bad
  <2> QED BY <1>1, <2>1, MinimalSubset
<1>3. T # {}
  <2>1. SUFFICES ASSUME T = {}  PROVE  sum(h, T) = sum(f, T) + sum(g, T)
    OBVIOUS
  <2>2. sum(f, T) = 0 /\ sum(g, T) = 0 /\ sum(h, T) = 0
    BY <2>1, SumOfNone
  <2> HIDE DEF sum, Bad
  <2> QED BY <2>2
<1> DEFINE c == Pick(T)
           rest == T \ {c}
<1>4. IsFiniteSet(T) /\ rest \in SUBSET S /\ IsFiniteSet(rest) /\ c \in S
  BY <1>3, FS_Subset, PickBelongs
<1>5. rest \notin Bad
  <2> HIDE DEF Bad
  <2> QED BY <1>2, <1>3, PickBelongs
<1>6. sum(h, rest) = sum(f, rest) + sum(g, rest)
  BY <1>4, <1>5
<1>7. sum(f, rest) \in Nat /\ sum(g, rest) \in Nat
  <2> HIDE DEF rest, c, Bad
  <2> QED BY <1>4, SumIsNatural
<1>8. f[c] \in Nat /\ g[c] \in Nat /\ h[c] = f[c] + g[c]
  <2> HIDE DEF c, Bad
  <2> QED BY <1>4
<1>9. /\ sum(f, T) = f[c] + sum(f, rest)
      /\ sum(g, T) = g[c] + sum(g, rest)
      /\ sum(h, T) = h[c] + sum(h, rest)
  BY <1>3, <1>4, SumUnfolds
<1>10. sum(h, T) = sum(f, T) + sum(g, T)
  <2> HIDE DEF rest, c, Bad, sum
  <2> QED BY <1>6, <1>7, <1>8, <1>9
<1> QED BY <1>10

-----------------------------------------------------------------------------
(***************************************************************************)
(* Sums of functions on a finite set                                       *)
(***************************************************************************)
\* A function into the naturals has a natural sum.
LEMMA SumTyped ==
  ASSUME NEW S, IsFiniteSet(S), NEW f \in [S -> Nat]
  PROVE  SumFunction(f) \in Nat
<1>1. DOMAIN f = S /\ \A x \in S : f[x] \in Nat
  OBVIOUS
<1> QED BY <1>1, SumIsNatural DEF SumFunction

\* Changing one value changes the sum by the difference.
LEMMA SumUpdated ==
  ASSUME NEW S, IsFiniteSet(S), NEW f \in [S -> Nat], NEW a \in S, NEW v \in Nat
  PROVE  SumFunction([f EXCEPT ![a] = v]) = SumFunction(f) - f[a] + v
<1> DEFINE g == [f EXCEPT ![a] = v]
           rest == S \ {a}
<1>1. DOMAIN f = S /\ DOMAIN g = S /\ g[a] = v /\ IsFiniteSet(rest)
  BY FS_Subset
<1>2. /\ \A x \in S : f[x] \in Nat /\ g[x] \in Nat
      /\ \A x \in rest : f[x] = g[x] /\ f[x] \in Nat
  OBVIOUS
<1> HIDE DEF g, rest
<1>3. SumFunctionOnSet(f, rest) = SumFunctionOnSet(g, rest)
  BY <1>1, <1>2, SumSame
<1>4. /\ SumFunctionOnSet(f, S) = f[a] + SumFunctionOnSet(f, rest)
      /\ SumFunctionOnSet(g, S) = g[a] + SumFunctionOnSet(g, rest)
  BY <1>2, SumTakesOut DEF rest
<1>5. SumFunctionOnSet(f, rest) \in Nat
  BY <1>1, <1>2, SumIsNatural
<1>6. SumFunction(f) = SumFunctionOnSet(f, S) /\ SumFunction(g) = SumFunctionOnSet(g, S)
  BY <1>1 DEF SumFunction
<1>7. SumFunction(g) = SumFunction(f) - f[a] + v
  BY <1>1, <1>2, <1>3, <1>4, <1>5, <1>6
<1> QED BY <1>7 DEF g

\* A function below another has a sum that is no larger.
LEMMA SumBelow ==
  ASSUME NEW S, IsFiniteSet(S), NEW f \in [S -> Nat], NEW g \in [S -> Nat],
         \A x \in S : f[x] <= g[x]
  PROVE  SumFunction(f) <= SumFunction(g)
<1>1. DOMAIN f = S /\ DOMAIN g = S
  OBVIOUS
<1>2. \A x \in S : f[x] \in Nat /\ g[x] \in Nat /\ f[x] <= g[x]
  OBVIOUS
<1> QED BY <1>1, <1>2, SumGrows DEF SumFunction

\* Where every value is zero so is the sum.
LEMMA SumOfZeros ==
  ASSUME NEW S, IsFiniteSet(S)
  PROVE  SumFunction([x \in S |-> 0]) = 0
<1> DEFINE zero == [x \in S |-> 0]
           Bad == {T \in SUBSET S : SumFunctionOnSet(zero, T) # 0}
<1>1. SUFFICES Bad = {}
  <2>1. DOMAIN zero = S /\ S \in SUBSET S
    OBVIOUS
  <2> QED BY <2>1 DEF SumFunction
<1>2. SUFFICES ASSUME Bad # {}
               PROVE  FALSE
  OBVIOUS
<1>3. PICK T \in Bad : \A U \in Bad : U \subseteq T => U = T
  <2>1. Bad \in SUBSET SUBSET S
    OBVIOUS
  <2> HIDE DEF Bad
  <2> QED BY <1>2, <2>1, MinimalSubset
<1>4. T # {}
  BY SumOfNone
<1>5. IsFiniteSet(T) /\ T \ {Pick(T)} \in SUBSET S /\ Pick(T) \in S
  BY <1>4, FS_Subset, PickBelongs
<1>6. T \ {Pick(T)} \notin Bad
  <2> HIDE DEF Bad
  <2> QED BY <1>3, <1>4, PickBelongs
<1>7. SumFunctionOnSet(zero, T \ {Pick(T)}) = 0 /\ zero[Pick(T)] = 0
  BY <1>5, <1>6
<1>8. SumFunctionOnSet(zero, T) = zero[Pick(T)] + SumFunctionOnSet(zero, T \ {Pick(T)})
  BY <1>4, <1>5, SumUnfolds
<1>9. SumFunctionOnSet(zero, T) = 0
  <2> HIDE DEF zero, Bad
  <2> QED BY <1>7, <1>8
<1> QED BY <1>9
=============================================================================
