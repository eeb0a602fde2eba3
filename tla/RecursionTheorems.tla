-------------------------- MODULE RecursionTheorems --------------------------
(***************************************************************************)
(* When a function defined by recursion exists. The value of the function  *)
(* of e(f, n) at n is that of the operator F = [g |-> [n |-> e(g, n)]] on  *)
(* functions; when F looks only below n, F has a fixed point. F is a       *)
(* function of functions and not an operator, so that each use is an       *)
(* instance the provers can find.                                          *)
(***************************************************************************)
EXTENDS WellFoundedInduction, TLAPS

\* Every non-empty subset of S has a member with none of it below.
HasMinima(R, S) ==
  \A T \in SUBSET S : T # {} => \E n \in T : \A m \in T : <<m, n>> \notin R

\* The value of F at n depends on what its argument is below n.
LooksBelow(F, S, V, R) ==
  \A g, h \in [S -> V] : \A n \in S :
    (\A m \in S : <<m, n>> \in R => g[m] = h[m]) => F[g][n] = F[h][n]

\* What makes F a definition by recursion along R.
IsRecursion(F, S, V, R) ==
  F \in [[S -> V] -> [S -> V]] /\ V # {} /\ HasMinima(R, S) /\ LooksBelow(F, S, V, R)

\* X is closed downwards and g is a solution on it.
Solves(X, g, F, S, V, R) ==
  /\ X \in SUBSET S /\ g \in [S -> V]
  /\ \A n \in X : \A m \in S : <<m, n>> \in R => m \in X
  /\ \A n \in X : g[n] = F[g][n]

\* Two solutions agree where both are.
LEMMA SolutionsAgree ==
  ASSUME NEW R, NEW S, NEW V, NEW F, HasMinima(R, S), LooksBelow(F, S, V, R),
         NEW X, NEW Y, NEW g, NEW h, Solves(X, g, F, S, V, R), Solves(Y, h, F, S, V, R)
  PROVE  \A n \in X \cap Y : g[n] = h[n]
<1> DEFINE T == {n \in X \cap Y : g[n] # h[n]}
<1> SUFFICES ASSUME T # {} PROVE FALSE
  OBVIOUS
<1>1. PICK n \in T : \A m \in T : <<m, n>> \notin R
  <2>1. T \in SUBSET S
    BY DEF Solves
  <2> QED
    BY <2>1 DEF HasMinima
<1>2. n \in S /\ n \in X /\ n \in Y /\ g[n] # h[n]
  BY DEF Solves
<1>3. \A m \in S : <<m, n>> \in R => g[m] = h[m]
  BY <1>1, <1>2 DEF Solves
<1>4. F[g][n] = F[h][n]
  BY <1>2, <1>3 DEF LooksBelow, Solves
<1> QED
  BY <1>2, <1>4 DEF Solves

\* A solution that is not everywhere can be extended by a minimal element.
LEMMA SolutionExtends ==
  ASSUME NEW R, NEW S, NEW V, NEW F \in [[S -> V] -> [S -> V]],
         HasMinima(R, S), LooksBelow(F, S, V, R),
         NEW X, NEW g, Solves(X, g, F, S, V, R), X # S
  PROVE  \E n \in S \ X : \E h : Solves(X \cup {n}, h, F, S, V, R)
<1> DEFINE T == S \ X
<1>1. PICK n \in T : \A m \in T : <<m, n>> \notin R
  <2>1. T # {} /\ T \in SUBSET S
    BY DEF Solves
  <2> QED
    BY <2>1 DEF HasMinima
<1>2. X \in SUBSET S /\ g \in [S -> V] /\ n \in S /\ n \notin X
  BY DEF Solves
<1> DEFINE h == [g EXCEPT ![n] = F[g][n]]
<1>3. F[g] \in [S -> V]
  BY <1>2
<1>4. F[g][n] \in V
  BY <1>2, <1>3
<1>5. h \in [S -> V] /\ h[n] = F[g][n] /\ \A m \in X : h[m] = g[m]
  BY <1>2, <1>4
<1>6. ASSUME NEW k \in X \cup {n} PROVE /\ \A m \in S : <<m, k>> \in R => m \in X
                                        /\ h[k] = F[h][k]
  <2>1. \A m \in S : <<m, k>> \in R => m \in X
    BY <1>1, <1>2 DEF Solves
  <2>2. F[g][k] = F[h][k]
    <3>1. k \in S /\ \A m \in S : <<m, k>> \in R => g[m] = h[m]
      BY <2>1, <1>2, <1>5
    <3> HIDE DEF h
    <3> QED
      BY <3>1, <1>2, <1>5 DEF LooksBelow
  <2>3. h[k] = F[g][k]
    BY <1>2, <1>5 DEF Solves
  <2> QED
    BY <2>1, <2>2, <2>3
<1>7. Solves(X \cup {n}, h, F, S, V, R)
  <2> HIDE DEF h
  <2> QED
    BY <1>2, <1>5, <1>6 DEF Solves
<1> QED
  BY <1>7

\* The solutions on parts of S glued together.
LEMMA LargestSolution ==
  ASSUME NEW R, NEW S, NEW V, NEW F, HasMinima(R, S), LooksBelow(F, S, V, R), V # {}
  PROVE  \E X, g : /\ Solves(X, g, F, S, V, R)
                   /\ \A Y, h : Solves(Y, h, F, S, V, R) => Y \subseteq X
<1>1. PICK v0 : v0 \in V
  OBVIOUS
<1> DEFINE Of(n, X, g) == Solves(X, g, F, S, V, R) /\ n \in X
           D == {n \in S : \E X, g : Of(n, X, g)}
           DomOf(n) == CHOOSE X : \E g : Of(n, X, g)
           SolOf(n) == CHOOSE g : Of(n, DomOf(n), g)
           f == [n \in S |-> IF n \in D THEN SolOf(n)[n] ELSE v0]
<1>2. ASSUME NEW n \in D PROVE Of(n, DomOf(n), SolOf(n))
  <2>1. \E X : \E g : Of(n, X, g)
    OBVIOUS
  <2>2. \E g : Of(n, DomOf(n), g)
    BY <2>1
  <2> QED
    BY <2>2
<1>3. ASSUME NEW X, NEW g, Solves(X, g, F, S, V, R)
      PROVE  X \subseteq D /\ \A n \in X : f[n] = g[n]
  <2>1. X \subseteq D
    BY <1>3 DEF Solves
  <2>2. ASSUME NEW n \in X PROVE f[n] = g[n]
    <3>1. n \in D /\ n \in S /\ f[n] = SolOf(n)[n]
      BY <2>1, <2>2
    <3>2. Solves(DomOf(n), SolOf(n), F, S, V, R) /\ n \in DomOf(n)
      BY <3>1, <1>2
    <3> HIDE DEF f, D, SolOf, DomOf
    <3>3. SolOf(n)[n] = g[n]
      BY <3>2, <1>3, SolutionsAgree
    <3> QED
      BY <3>1, <3>3
  <2> QED
    BY <2>1, <2>2
<1>4. f \in [S -> V]
  <2>1. ASSUME NEW n \in D PROVE SolOf(n)[n] \in V
    <3> HIDE DEF SolOf, DomOf
    <3> QED
      BY <1>2 DEF Solves
  <2> QED
    BY <2>1, <1>1
<1>5. ASSUME NEW n \in D PROVE /\ \A m \in S : <<m, n>> \in R => m \in D
                               /\ f[n] = F[f][n]
  <2> DEFINE X == DomOf(n)
             g == SolOf(n)
  <2>1. Solves(X, g, F, S, V, R) /\ n \in X
    BY <1>2
  <2> HIDE DEF X, g, f, D
  <2>2. X \subseteq D /\ \A m \in X : f[m] = g[m]
    BY <2>1, <1>3
  <2>3. \A m \in S : <<m, n>> \in R => m \in X
    BY <2>1 DEF Solves
  <2>4. n \in S /\ g \in [S -> V] /\ g[n] = F[g][n]
    BY <2>1 DEF Solves
  <2>5. F[f][n] = F[g][n]
    BY <2>2, <2>3, <2>4, <1>4 DEF LooksBelow
  <2> QED
    BY <2>1, <2>2, <2>3, <2>4, <2>5
<1>6. D \in SUBSET S
  OBVIOUS
<1> HIDE DEF D, f
<1>7. Solves(D, f, F, S, V, R)
  BY <1>4, <1>5, <1>6 DEF Solves
<1> QED
  BY <1>3, <1>7

(* A function of functions that looks only below has a fixed point, for any *)
(* relation with minima: the recursive functions of the models (CronWalk of *)
(* JobTrigger, the walks of WfModel) are what their equations say.          *)
THEOREM RecursionHasSolution ==
  ASSUME NEW R, NEW S, NEW V, NEW F, IsRecursion(F, S, V, R)
  PROVE  \E f \in [S -> V] : f = F[f]
<1> USE DEF IsRecursion
<1>1. PICK X, g : /\ Solves(X, g, F, S, V, R)
                  /\ \A Y, h : Solves(Y, h, F, S, V, R) => Y \subseteq X
  BY LargestSolution
<1>2. X = S
  <2> SUFFICES ASSUME X # S PROVE FALSE
    OBVIOUS
  <2>0. Solves(X, g, F, S, V, R)
    BY <1>1
  <2>1. PICK n \in S \ X : \E h : Solves(X \cup {n}, h, F, S, V, R)
    BY <2>0, SolutionExtends, Zenon
  <2>2. X \cup {n} \subseteq X
    BY <1>1, <2>1
  <2> QED
    BY <2>1, <2>2
<1>3. g \in [S -> V] /\ F[g] \in [S -> V] /\ \A n \in S : g[n] = F[g][n]
  BY <1>1, <1>2 DEF Solves
<1> QED
  BY <1>3

\* The least number of a set of natural numbers.
LEMMA LeastMember ==
  ASSUME NEW K \in SUBSET Nat, K # {}
  PROVE  \E k \in K : \A l \in K : k <= l
<1>1. PICK k \in K : \A l \in K : ~ (<<l, k>> \in OpToRel(<, Nat))
  BY NatLessThanWellFounded, WFMin
<1>2. ASSUME NEW l \in K, l < k PROVE FALSE
  <2>1. l \in Nat /\ k \in Nat
    OBVIOUS
  <2>2. <<l, k>> \in OpToRel(<, Nat)
    BY <2>1, <1>2 DEF OpToRel
  <2> QED
    BY <1>1, <2>2
<1>3. \A l \in K : l \in Nat /\ k \in Nat
  OBVIOUS
<1> QED
  BY <1>2, <1>3

\* A relation along which a natural number gets smaller has minima.
LEMMA MeasureHasMinima ==
  ASSUME NEW R, NEW S, NEW mu \in [S -> Nat],
         \A m, n \in S : <<m, n>> \in R => mu[m] < mu[n]
  PROVE  HasMinima(R, S)
<1> SUFFICES ASSUME NEW T \in SUBSET S, T # {}
             PROVE  \E n \in T : \A m \in T : <<m, n>> \notin R
  BY DEF HasMinima
<1> DEFINE K == {mu[n] : n \in T}
<1>1. K \in SUBSET Nat /\ K # {}
  OBVIOUS
<1>2. PICK k \in K : \A l \in K : k <= l
  <2> HIDE DEF K
  <2> QED
    BY <1>1, LeastMember
<1>3. PICK n \in T : k = mu[n]
  BY <1>2
<1>4. ASSUME NEW m \in T, <<m, n>> \in R PROVE FALSE
  <2>1. mu[m] < mu[n] /\ mu[m] \in Nat /\ mu[n] \in Nat
    BY <1>3, <1>4
  <2>2. mu[n] <= mu[m]
    BY <1>2, <1>3
  <2> QED
    BY <2>1, <2>2
<1> QED
  BY <1>4

\* A set has a member of least measure.
LEMMA LeastByMeasure ==
  ASSUME NEW S, NEW mu \in [S -> Nat], NEW T \in SUBSET S, T # {}
  PROVE  \E n \in T : \A m \in T : mu[n] <= mu[m]
<1> DEFINE K == {mu[n] : n \in T}
<1>1. K \in SUBSET Nat /\ K # {}
  OBVIOUS
<1>2. PICK k \in K : \A l \in K : k <= l
  <2> HIDE DEF K
  <2> QED
    BY <1>1, LeastMember
<1>3. PICK n \in T : k = mu[n]
  BY <1>2
<1> QED
  BY <1>2, <1>3

\* The order of the natural numbers, on a part of them.
Less(S) == {p \in S \X S : p[1] < p[2]}

LEMMA LessHasMinima ==
  ASSUME NEW S \in SUBSET Nat
  PROVE  HasMinima(Less(S), S)
<1> DEFINE mu == [n \in S |-> n]
<1>1. mu \in [S -> Nat] /\ \A m, n \in S : <<m, n>> \in Less(S) => mu[m] < mu[n]
  BY DEF Less
<1> HIDE DEF mu
<1> QED
  BY <1>1, MeasureHasMinima

\* Going up leads to a member of smaller depth, until one that stops.
IsClimb(D, stop, up) ==
  \E depth \in [D -> Nat] : \A n \in D \ stop : up[n] \in D /\ depth[up[n]] < depth[n]

(* A function that climbs: it stops with a value, or takes the one of a      *)
(* higher member.                                                            *)
LEMMA ClimbHasSolution ==
  ASSUME NEW D, NEW stop, NEW val, NEW up, IsClimb(D, stop, up)
  PROVE  \E f : f = [n \in D |-> IF n \in stop THEN val[n] ELSE f[up[n]]]
<1>0. PICK depth \in [D -> Nat] : \A n \in D \ stop : up[n] \in D /\ depth[up[n]] < depth[n]
  BY DEF IsClimb
<1> DEFINE V == {val[n] : n \in D} \cup {0}
           R == {p \in D \X D : depth[p[1]] < depth[p[2]]}
           F == [g \in [D -> V] |-> [n \in D |-> IF n \in stop THEN val[n] ELSE g[up[n]]]]
<1>1. ASSUME NEW g \in [D -> V], NEW n \in D
      PROVE  (IF n \in stop THEN val[n] ELSE g[up[n]]) \in V
  <2>1. CASE n \in stop
    BY <2>1
  <2>2. CASE n \notin stop
    <3>1. up[n] \in D
      BY <2>2, <1>0
    <3> HIDE DEF V
    <3> QED
      BY <2>2, <3>1
  <2> QED
    BY <2>1, <2>2
<1>2. V # {}
  OBVIOUS
<1> HIDE DEF V
<1>3. F \in [[D -> V] -> [D -> V]]
  BY <1>1
<1>4. LooksBelow(F, D, V, R)
  <2> SUFFICES ASSUME NEW g \in [D -> V], NEW h \in [D -> V], NEW n \in D,
                      \A m \in D : <<m, n>> \in R => g[m] = h[m]
               PROVE  F[g][n] = F[h][n]
    BY DEF LooksBelow
  <2>1. /\ F[g][n] = IF n \in stop THEN val[n] ELSE g[up[n]]
        /\ F[h][n] = IF n \in stop THEN val[n] ELSE h[up[n]]
    OBVIOUS
  <2> HIDE DEF F
  <2>2. CASE n \in stop
    BY <2>1, <2>2
  <2>3. CASE n \notin stop
    <3>1. up[n] \in D /\ <<up[n], n>> \in R
      BY <2>3, <1>0
    <3> QED
      BY <2>1, <2>3, <3>1
  <2> QED
    BY <2>2, <2>3
<1>5. HasMinima(R, D)
  <2>1. \A m, n \in D : <<m, n>> \in R => depth[m] < depth[n]
    OBVIOUS
  <2> HIDE DEF R
  <2> QED
    BY <2>1, <1>0, MeasureHasMinima
<1> HIDE DEF R, F
<1>6. IsRecursion(F, D, V, R)
  BY <1>2, <1>3, <1>4, <1>5 DEF IsRecursion
<1>7. PICK g \in [D -> V] : g = F[g]
  BY <1>6, RecursionHasSolution
<1>8. F[g] = [n \in D |-> IF n \in stop THEN val[n] ELSE g[up[n]]]
  BY DEF F
<1> QED
  BY <1>7, <1>8
===============================================================================
