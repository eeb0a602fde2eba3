--------------------------- MODULE JobTriggerProofs ---------------------------
(***************************************************************************)
(* What the pure functions of JobTrigger.cs compute, for any job, any      *)
(* expression, any cap and any horizon: the search for the next occurrence *)
(* finds the first instant of the window, and the count of missed          *)
(* occurrences is the number of instants that were due. The cron branch of *)
(* the count is a walk, defined by recursion; that it counts is shown at a *)
(* last counterexample.                                                    *)
(***************************************************************************)
EXTENDS MCJobTrigger, RecursionTheorems, FiniteSetTheorems, TLAPS

\* A state of the exploration: an armed job was due at or before now, and a
\* cron job at an instant its expression matches.
Due ==
  expected # NoTime =>
    /\ expected \in Instants /\ expected <= now
    /\ job.kind = "Cron" => expected \in job.fires

TriggerInv == job \in Jobs /\ now \in Instants /\ Due

\* What the columns of a job are.
LEMMA JobFacts ==
  ASSUME NEW j \in Jobs
  PROVE  /\ j.kind \in {"Cron", "Interval", "OneShot"}
         /\ j.fires \in SUBSET Nat /\ IsFiniteSet(j.fires)
         /\ j.period \in Nat \ {0} /\ j.at \in Nat \ {0}
         /\ j.start \in Nat \cup {NoTime} /\ j.end \in Nat \cup {NoTime}
<1>1. Instants \in SUBSET Nat
  BY LastInstantAssumption DEF Instants
<1>2. /\ j.kind \in {"Cron", "Interval", "OneShot"}
      /\ j.fires \in SUBSET (Instants \ {0})
      /\ j.period \in Instants \ {0} /\ j.at \in Instants \ {0}
      /\ j.start \in (Instants \ {0}) \cup {NoTime} /\ j.end \in (Instants \ {0}) \cup {NoTime}
  BY DEF Jobs, TriggerOf
<1>3. IsFiniteSet(j.fires)
  <2>1. IsFiniteSet(Instants)
    BY LastInstantAssumption, FS_Interval DEF Instants
  <2>2. j.fires \subseteq Instants
    BY <1>2
  <2> QED
    BY <2>1, <2>2, FS_Subset
<1> QED
  BY <1>1, <1>2, <1>3

\* The search finds the first match after its start, if there is one.
LEMMA NextOccurrenceFacts ==
  ASSUME NEW fires \in SUBSET Nat, NEW from \in Int
  PROVE  LET next == GetNextOccurrence(fires, from)
         IN  \/ next = NoTime /\ \A t \in fires : ~(t > from)
             \/ IsNextIn(fires, from, next) /\ next \in Nat /\ next # NoTime
<1> DEFINE next == GetNextOccurrence(fires, from)
           K == {t \in fires : t > from}
<1>1. CASE K = {}
  <2>1. \A t \in fires : ~IsNextIn(fires, from, t) /\ ~(t > from)
    BY <1>1 DEF IsNextIn
  <2> QED
    BY <2>1 DEF GetNextOccurrence
<1>2. CASE K # {}
  <2>1. PICK k \in K : \A l \in K : k <= l
    <3>1. K \in SUBSET Nat
      OBVIOUS
    <3> HIDE DEF K
    <3> QED
      BY <1>2, <3>1, LeastMember
  <2>2. k \in fires /\ IsNextIn(fires, from, k)
    BY <2>1 DEF IsNextIn
  <2>3. IsNextIn(fires, from, next)
    BY <2>2 DEF GetNextOccurrence
  <2>4. next \in Nat /\ next # NoTime
    <3> HIDE DEF next
    <3> QED
      BY <2>3 DEF IsNextIn, NoTime
  <2> QED
    BY <2>3, <2>4
<1> QED
  BY <1>1, <1>2

\* The least of a set of instants, if it has one.
LEMMA LeastOfFacts ==
  ASSUME NEW S \in SUBSET Nat
  PROVE  \/ S = {} /\ LeastOf(S) = NoTime
         \/ LeastOf(S) \in S /\ \A u \in S : LeastOf(S) <= u
<1>1. CASE S = {}
  BY <1>1 DEF LeastOf
<1>2. CASE S # {}
  <2>1. \E k \in S : \A l \in S : k <= l
    BY <1>2, LeastMember
  <2>2. LeastOf(S) = CHOOSE t \in S : \A u \in S : t <= u
    BY <1>2 DEF LeastOf
  <2> QED
    BY <2>1, <2>2
<1> QED
  BY <1>1, <1>2

\* The effective window of a cron job opens at the search's start.
LEMMA CronNext ==
  ASSUME NEW j \in Jobs, j.kind = "Cron", NEW t \in Nat
  PROVE  ComputeNext(j, t) = LeastOf({u \in j.fires : u > t /\ InWindow(j, u)})
<1> DEFINE from == SearchFrom(j, t)
           next == GetNextOccurrence(j.fires, from)
           W == {u \in j.fires : u > t /\ InWindow(j, u)}
<1>1. /\ j.fires \in SUBSET Nat
      /\ j.start \in Nat \cup {NoTime} /\ j.end \in Nat \cup {NoTime}
  BY JobFacts
<1>2. from \in Int /\ \A u \in Nat : u > from <=> (u > t /\ (j.start # NoTime => j.start <= u))
  BY <1>1 DEF SearchFrom, NoTime
<1>3. ComputeNext(j, t) = IF next # NoTime /\ j.end # NoTime /\ next > j.end THEN NoTime ELSE next
  BY DEF ComputeNext, Candidate
<1>4. \/ next = NoTime /\ \A u \in j.fires : ~(u > from)
      \/ IsNextIn(j.fires, from, next) /\ next \in Nat /\ next # NoTime
  BY <1>1, <1>2, NextOccurrenceFacts
<1>5. W \in SUBSET Nat /\ \A u \in W : u \in j.fires /\ u > from /\ (j.end # NoTime => u <= j.end)
  BY <1>1, <1>2 DEF InWindow
<1>6. \/ W = {} /\ LeastOf(W) = NoTime
      \/ LeastOf(W) \in W /\ \A u \in W : LeastOf(W) <= u
  <2> HIDE DEF W
  <2> QED
    BY <1>5, LeastOfFacts
<1> HIDE DEF from, next
<1>7. CASE next = NoTime /\ \A u \in j.fires : ~(u > from)
  <2>1. W = {}
    BY <1>5, <1>7
  <2> QED
    BY <2>1, <1>3, <1>6, <1>7
<1>8. CASE IsNextIn(j.fires, from, next) /\ next \in Nat /\ next # NoTime
  <2>1. next \in j.fires /\ next > from /\ \A u \in j.fires : u > from => next <= u
    BY <1>8 DEF IsNextIn
  <2>2. CASE j.end # NoTime /\ next > j.end
    <3>1. W = {}
      BY <1>1, <1>5, <1>8, <2>1, <2>2 DEF NoTime
    <3> QED
      BY <3>1, <1>3, <1>6, <1>8, <2>2
  <2>3. CASE ~(j.end # NoTime /\ next > j.end)
    <3>1. next \in W
      BY <1>1, <1>2, <1>8, <2>1, <2>3 DEF InWindow, NoTime
    <3>2. \A u \in W : next <= u
      BY <1>5, <2>1
    <3>3. LeastOf(W) = next
      <4>1. LeastOf(W) \in Nat /\ LeastOf(W) <= next /\ next <= LeastOf(W)
        BY <3>1, <3>2, <1>5, <1>6
      <4> QED
        BY <4>1, <1>8
    <3> QED
      BY <3>3, <1>3, <2>3
  <2> QED
    BY <2>2, <2>3
<1> QED
  BY <1>4, <1>7, <1>8

\* The next occurrence of a cron job is a match of its expression.
LEMMA CronNextMatches ==
  ASSUME NEW j \in Jobs, NEW t \in Nat, ComputeNext(j, t) \in Nat
  PROVE  j.kind = "Cron" => ComputeNext(j, t) \in j.fires
<1> SUFFICES ASSUME j.kind = "Cron" PROVE ComputeNext(j, t) \in j.fires
  OBVIOUS
<1> DEFINE W == {u \in j.fires : u > t /\ InWindow(j, u)}
<1>1. j.fires \in SUBSET Nat /\ W \in SUBSET Nat
  BY JobFacts
<1>2. ComputeNext(j, t) = LeastOf(W)
  BY CronNext
<1>3. \/ W = {} /\ LeastOf(W) = NoTime
      \/ LeastOf(W) \in W /\ \A u \in W : LeastOf(W) <= u
  <2> HIDE DEF W
  <2> QED
    BY <1>1, LeastOfFacts
<1>4. LeastOf(W) # NoTime
  BY <1>2 DEF NoTime
<1> QED
  BY <1>2, <1>3, <1>4

\* Division by a positive number.
LEMMA DivisionFacts ==
  ASSUME NEW a \in Nat, NEW p \in Nat \ {0}
  PROVE  /\ a \div p \in Nat /\ a % p \in Nat
         /\ a = p * (a \div p) + (a % p) /\ a % p < p
  OBVIOUS

\* A larger factor makes a product larger by the other factor at least.
LEMMA ProductGrows ==
  ASSUME NEW a \in Nat, NEW b \in Nat, NEW p \in Nat \ {0}, a < b
  PROVE  p * a + p <= p * b
<1>1. PICK d \in Nat : b = a + 1 + d
  <2>1. b - a - 1 \in Nat
    OBVIOUS
  <2> QED
    BY <2>1
<1>2. p * b = p * a + p + p * d
  BY <1>1
<1>3. p * d \in Nat
  OBVIOUS
<1> QED
  BY <1>2, <1>3

\* The multiples of a period from one instant to another, counted.
LEMMA MultiplesCounted ==
  ASSUME NEW e \in Nat, NEW t \in Nat, e <= t, NEW p \in Nat \ {0}
  PROVE  Cardinality({u \in e..t : (u - e) % p = 0}) = (t - e) \div p + 1
<1> DEFINE S == {u \in e..t : (u - e) % p = 0}
           q == (t - e) \div p
           n == q + 1
           f == [i \in 1..n |-> e + p * (i - 1)]
<1>1. /\ t - e \in Nat /\ q \in Nat /\ n \in Nat
      /\ t - e = p * q + ((t - e) % p) /\ (t - e) % p < p /\ (t - e) % p \in Nat
  BY DivisionFacts
<1> HIDE DEF q
<1>2. ASSUME NEW i \in 1..n PROVE f[i] \in S
  <2>1. i - 1 \in Nat /\ p * (i - 1) \in Nat
    OBVIOUS
  <2>2. p * (i - 1) <= p * q
    <3>1. CASE i - 1 = q
      BY <3>1, <1>1
    <3>2. CASE i - 1 < q
      BY <3>2, <1>1, <2>1, ProductGrows
    <3> QED
      BY <3>1, <3>2, <1>1
  <2>3. e + p * (i - 1) <= t
    BY <1>1, <2>1, <2>2
  <2>4. (e + p * (i - 1)) - e = p * (i - 1) /\ (p * (i - 1)) % p = 0
    <3>1. DEFINE a == p * (i - 1)
    <3>2. a \in Nat
      BY <2>1
    <3> HIDE DEF a
    <3>3. (e + a) - e = a
      BY <3>2
    <3>4. (p * (i - 1)) % p = 0
      <4>1. DEFINE k == i - 1
      <4>2. k \in Nat
        BY <2>1
      <4> HIDE DEF k
      <4>3. (p * k) % p = 0
        BY <4>2
      <4> QED
        BY <4>3 DEF k
    <3> QED
      BY <3>3, <3>4 DEF a
  <2> QED
    BY <2>1, <2>3, <2>4
<1>3. ASSUME NEW i \in 1..n, NEW k \in 1..n, f[i] = f[k] PROVE i = k
  <2>1. i - 1 \in Nat /\ k - 1 \in Nat /\ p * (i - 1) \in Nat /\ p * (k - 1) \in Nat
    OBVIOUS
  <2>2. p * (i - 1) = p * (k - 1)
    BY <1>3, <2>1
  <2>3. ~(i - 1 < k - 1) /\ ~(k - 1 < i - 1)
    BY <2>1, <2>2, ProductGrows
  <2> QED
    BY <2>1, <2>3
<1>4. ASSUME NEW u \in S PROVE \E i \in 1..n : f[i] = u
  <2> DEFINE k == (u - e) \div p
  <2>1. u \in e..t /\ (u - e) % p = 0 /\ u - e \in Nat
    OBVIOUS
  <2>2. k \in Nat /\ u - e = p * k
    BY <2>1, DivisionFacts
  <2> HIDE DEF k
  <2>3. k <= q
    <3> SUFFICES ASSUME q < k PROVE FALSE
      BY <1>1, <2>2
    <3>1. p * q + p <= p * k
      BY <1>1, <2>2, ProductGrows
    <3>2. p * q \in Nat /\ p * k \in Nat
      BY <1>1, <2>2
    <3> QED
      BY <3>1, <3>2, <1>1, <2>1, <2>2
  <2>4. k + 1 \in 1..n /\ (k + 1) - 1 = k /\ e + p * k = u
    BY <1>1, <2>1, <2>2, <2>3
  <2>5. f[k + 1] = u
    BY <2>4
  <2> QED
    BY <2>4, <2>5
<1>5. f \in [1..n -> S]
  BY <1>2
<1> HIDE DEF f, S, n
<1>6. f \in Bijection(1..n, S)
  BY <1>3, <1>4, <1>5 DEF Bijection, Injection, Surjection, IsInjective
<1>7. ExistsBijection(1..n, S)
  BY <1>6 DEF ExistsBijection
<1> QED
  BY <1>1, <1>7, FS_CountingElements DEF n, S, q

(***************************************************************************)
(* The cron branch of the count. Below a pair of a count and a cursor is   *)
(* every pair with a larger count, so that the walk, which stops at the    *)
(* cap, is a function that satisfies its equation.                         *)
(***************************************************************************)
Steps(j, e) == (1..MissedCap) \X ({e} \cup j.fires)

Later(j, e) == {pq \in Steps(j, e) \X Steps(j, e) : pq[1][1] > pq[2][1]}

\* One step of the walk w from the pair p.
StepOf(j, t, w, p) ==
  LET next == GetNextOccurrence(j.fires, p[2])
  IN  IF p[1] < MissedCap /\ next # NoTime /\ next <= t THEN w[<<p[1] + 1, next>>] ELSE p[1]

WalkEquation(j, e, t, w) ==
  w = [p \in Steps(j, e) |-> StepOf(j, t, w, p)]

LEMMA LaterHasMinima ==
  ASSUME NEW j, NEW e
  PROVE  HasMinima(Later(j, e), Steps(j, e))
<1> DEFINE S == Steps(j, e)
           mu == [p \in S |-> MissedCap - p[1]]
<1>1. \A p \in S : p[1] \in 1..MissedCap
  BY DEF Steps
<1>2. mu \in [S -> Nat]
  BY <1>1, MissedCapAssumption
<1>3. \A p, q \in S : <<p, q>> \in Later(j, e) => mu[p] < mu[q]
  <2> SUFFICES ASSUME NEW p \in S, NEW q \in S, <<p, q>> \in Later(j, e)
               PROVE  mu[p] < mu[q]
    OBVIOUS
  <2>1. p[1] > q[1]
    BY DEF Later
  <2> QED
    BY <2>1, <1>1, MissedCapAssumption
<1> HIDE DEF S, mu
<1> QED
  BY <1>2, <1>3, MeasureHasMinima DEF S

\* Where a step of the walk goes.
LEMMA StepGoesLater ==
  ASSUME NEW j \in Jobs, NEW e \in Nat, NEW t \in Nat, NEW p \in Steps(j, e),
         LET next == GetNextOccurrence(j.fires, p[2])
         IN  p[1] < MissedCap /\ next # NoTime /\ next <= t
  PROVE  LET next == GetNextOccurrence(j.fires, p[2])
         IN  /\ <<p[1] + 1, next>> \in Steps(j, e)
             /\ <<<<p[1] + 1, next>>, p>> \in Later(j, e)
             /\ next \in j.fires /\ next > p[2] /\ \A u \in j.fires : u > p[2] => next <= u
<1> DEFINE next == GetNextOccurrence(j.fires, p[2])
<1>1. j.fires \in SUBSET Nat
  BY JobFacts
<1>2. p[1] \in 1..MissedCap /\ p[2] \in Nat
  BY <1>1 DEF Steps
<1>3. IsNextIn(j.fires, p[2], next)
  <2>1. p[2] \in Int /\ next # NoTime
    BY <1>2
  <2> QED
    BY <1>1, <2>1, NextOccurrenceFacts
<1> HIDE DEF next
<1>4. next \in j.fires /\ next > p[2] /\ \A u \in j.fires : u > p[2] => next <= u
  BY <1>3 DEF IsNextIn
<1>5. p[1] + 1 \in 1..MissedCap /\ p[1] + 1 > p[1]
  <2>1. p[1] < MissedCap
    BY DEF next
  <2> QED
    BY <2>1, <1>2, MissedCapAssumption
<1>6. <<p[1] + 1, next>> \in Steps(j, e)
  BY <1>4, <1>5 DEF Steps
<1>7. <<<<p[1] + 1, next>>, p>> \in Later(j, e)
  BY <1>5, <1>6 DEF Later
<1> QED
  BY <1>4, <1>6, <1>7 DEF next

\* The walk exists.
LEMMA WalkExists ==
  ASSUME NEW j \in Jobs, NEW e \in Nat, NEW t \in Nat
  PROVE  \E w : WalkEquation(j, e, t, w)
<1> DEFINE S == Steps(j, e)
           R == Later(j, e)
           next(p) == GetNextOccurrence(j.fires, p[2])
           goes(p) == p[1] < MissedCap /\ next(p) # NoTime /\ next(p) <= t
           F == [w \in [S -> Nat] |-> [p \in S |-> StepOf(j, t, w, p)]]
<1>1. \A p \in S : p[1] \in Nat
  BY DEF Steps
<1>2. ASSUME NEW p \in S, goes(p)
      PROVE  <<p[1] + 1, next(p)>> \in S /\ <<<<p[1] + 1, next(p)>>, p>> \in R
  BY <1>2, StepGoesLater
<1>3. \A w, p : StepOf(j, t, w, p) = IF goes(p) THEN w[<<p[1] + 1, next(p)>>] ELSE p[1]
  BY DEF StepOf
<1> HIDE DEF S, R, next
<1>4. ASSUME NEW w \in [S -> Nat], NEW p \in S PROVE StepOf(j, t, w, p) \in Nat
  BY <1>1, <1>2, <1>3
<1>5. F \in [[S -> Nat] -> [S -> Nat]]
  BY <1>4
<1>6. LooksBelow(F, S, Nat, R)
  <2> SUFFICES ASSUME NEW g \in [S -> Nat], NEW h \in [S -> Nat], NEW p \in S,
                      \A q \in S : <<q, p>> \in R => g[q] = h[q]
               PROVE  F[g][p] = F[h][p]
    BY DEF LooksBelow
  <2>1. F[g][p] = StepOf(j, t, g, p) /\ F[h][p] = StepOf(j, t, h, p)
    OBVIOUS
  <2>0. /\ StepOf(j, t, g, p) = IF goes(p) THEN g[<<p[1] + 1, next(p)>>] ELSE p[1]
        /\ StepOf(j, t, h, p) = IF goes(p) THEN h[<<p[1] + 1, next(p)>>] ELSE p[1]
    BY <1>3
  <2> HIDE DEF F, goes
  <2>2. CASE goes(p)
    <3>1. g[<<p[1] + 1, next(p)>>] = h[<<p[1] + 1, next(p)>>]
      BY <2>2, <1>2
    <3> QED
      BY <3>1, <2>0, <2>1, <2>2
  <2>3. CASE ~goes(p)
    BY <2>0, <2>1, <2>3
  <2> QED
    BY <2>2, <2>3
<1>7. HasMinima(R, S)
  BY LaterHasMinima DEF R, S
<1> HIDE DEF F
<1>8. \E w \in [S -> Nat] : w = F[w]
  <2>1. IsRecursion(F, S, Nat, R)
    BY <1>5, <1>6, <1>7 DEF IsRecursion
  <2> QED
    BY <2>1, RecursionHasSolution
<1>9. \A w \in [S -> Nat] : F[w] = [p \in S |-> StepOf(j, t, w, p)]
  BY DEF F
<1>10. PICK w \in [S -> Nat] : w = F[w]
  BY <1>8
<1>11. w = [p \in S |-> StepOf(j, t, w, p)]
  <2>1. F[w] = [p \in S |-> StepOf(j, t, w, p)]
    BY <1>9
  <2> QED
    BY <1>10, <2>1
<1>12. WalkEquation(j, e, t, w)
  BY <1>11 DEF WalkEquation, S
<1> QED
  BY <1>12

\* The matches after the cursor c, up to t.
Ahead(j, c, t) == {u \in j.fires : u > c /\ u <= t}

\* A step to the next match leaves all but that one ahead.
LEMMA AheadStep ==
  ASSUME NEW j \in Jobs, NEW c \in Nat, NEW t \in Nat, NEW next \in j.fires,
         next > c, next <= t, \A u \in j.fires : u > c => next <= u
  PROVE  Cardinality(Ahead(j, c, t)) = Cardinality(Ahead(j, next, t)) + 1
<1>1. j.fires \in SUBSET Nat /\ IsFiniteSet(j.fires)
  BY JobFacts
<1>2. Ahead(j, c, t) = Ahead(j, next, t) \cup {next} /\ next \notin Ahead(j, next, t)
  BY <1>1 DEF Ahead
<1>3. IsFiniteSet(Ahead(j, next, t))
  <2>1. Ahead(j, next, t) \subseteq j.fires
    BY DEF Ahead
  <2> QED
    BY <2>1, <1>1, FS_Subset
<1> QED
  BY <1>2, <1>3, FS_AddElement

\* The number of matches ahead is a number.
LEMMA AheadIsFinite ==
  ASSUME NEW j \in Jobs, NEW c, NEW t
  PROVE  Cardinality(Ahead(j, c, t)) \in Nat
<1>1. IsFiniteSet(j.fires) /\ Ahead(j, c, t) \subseteq j.fires
  BY JobFacts DEF Ahead
<1> QED
  BY <1>1, FS_Subset, FS_CardinalityType

\* What the walk computes: the count so far and the matches ahead, capped.
LEMMA WalkCounts ==
  ASSUME NEW j \in Jobs, NEW e \in Nat, NEW t \in Nat, NEW w, WalkEquation(j, e, t, w)
  PROVE  \A p \in Steps(j, e) :
           w[p] = MinOf(p[1] + Cardinality(Ahead(j, p[2], t)), MissedCap)
<1> DEFINE S == Steps(j, e)
           C(p) == Cardinality(Ahead(j, p[2], t))
           Right(p) == w[p] = MinOf(p[1] + C(p), MissedCap)
           T == {p \in S : ~Right(p)}
<1> SUFFICES ASSUME T # {} PROVE FALSE
  OBVIOUS
<1>1. PICK p \in T : \A q \in T : <<q, p>> \notin Later(j, e)
  <2>1. T \in SUBSET S
    OBVIOUS
  <2> HIDE DEF T
  <2> QED
    BY <2>1, LaterHasMinima DEF HasMinima
<1>2. j.fires \in SUBSET Nat
  BY JobFacts
<1>3. p \in S /\ p[1] \in 1..MissedCap /\ p[2] \in Nat
  BY <1>2 DEF Steps
<1>4. C(p) \in Nat
  BY AheadIsFinite
<1>5. w[p] = StepOf(j, t, w, p)
  BY <1>3 DEF WalkEquation
<1> DEFINE next == GetNextOccurrence(j.fires, p[2])
           goes == p[1] < MissedCap /\ next # NoTime /\ next <= t
<1>6. StepOf(j, t, w, p) = IF goes THEN w[<<p[1] + 1, next>>] ELSE p[1]
  BY DEF StepOf
<1>7. CASE goes
  <2> DEFINE q == <<p[1] + 1, next>>
  <2>1. /\ q \in S /\ <<q, p>> \in Later(j, e)
        /\ next \in j.fires /\ next > p[2] /\ \A u \in j.fires : u > p[2] => next <= u
    BY <1>3, <1>7, StepGoesLater
  <2>2. Right(q)
    BY <2>1, <1>1
  <2>3. q[1] = p[1] + 1 /\ q[2] = next
    OBVIOUS
  <2>4. C(p) = C(q) + 1 /\ C(q) \in Nat
    <3> HIDE DEF next
    <3>1. next <= t
      BY <1>7
    <3>2. C(p) = Cardinality(Ahead(j, next, t)) + 1
      BY <2>1, <3>1, <1>3, AheadStep
    <3> QED
      BY <3>2, <2>3, AheadIsFinite
  <2>5. w[p] = w[q]
    BY <1>5, <1>6, <1>7
  <2> HIDE DEF q, next, goes, C
  <2>6. p[1] + C(p) = q[1] + C(q)
    BY <2>3, <2>4, <1>3
  <2>7. Right(p)
    BY <2>2, <2>5, <2>6
  <2> QED
    BY <2>7, <1>1
<1>8. CASE ~goes
  <2>1. w[p] = p[1]
    BY <1>5, <1>6, <1>8
  <2>2. MinOf(p[1] + C(p), MissedCap) = p[1]
    <3>1. CASE p[1] = MissedCap
      <4> HIDE DEF C
      <4> QED
        BY <3>1, <1>3, <1>4, MissedCapAssumption DEF MinOf
    <3>2. CASE p[1] # MissedCap
      <4>1. ~(next # NoTime /\ next <= t)
        BY <3>2, <1>3, <1>8, MissedCapAssumption
      <4>2. \/ next = NoTime /\ \A u \in j.fires : ~(u > p[2])
            \/ IsNextIn(j.fires, p[2], next) /\ next \in Nat /\ next # NoTime
        <5>1. p[2] \in Int
          BY <1>3
        <5> QED
          BY <5>1, <1>2, NextOccurrenceFacts
      <4>3. \A u \in j.fires : ~(u > p[2] /\ u <= t)
        <5> HIDE DEF next
        <5> QED
          BY <4>1, <4>2, <1>2 DEF IsNextIn
      <4>4. Ahead(j, p[2], t) = {}
        BY <4>3 DEF Ahead
      <4>5. C(p) = 0
        BY <4>4, FS_EmptySet
      <4> HIDE DEF C
      <4> QED
        BY <4>5, <1>3, MissedCapAssumption DEF MinOf
    <3> QED
      BY <3>1, <3>2
  <2>3. Right(p)
    BY <2>1, <2>2
  <2> QED
    BY <2>3, <1>1
<1> QED
  BY <1>7, <1>8

\* The cron branch of the count.
LEMMA CronWalkCounts ==
  ASSUME NEW j \in Jobs, NEW e \in Nat, NEW t \in Nat, e <= t, e \in j.fires
  PROVE  CronWalk(j, e, t) = MinOf(Cardinality({u \in j.fires : e <= u /\ u <= t}), MissedCap)
<1> DEFINE w == CHOOSE w : WalkEquation(j, e, t, w)
           K == {u \in j.fires : e <= u /\ u <= t}
<1>1. WalkEquation(j, e, t, w)
  BY WalkExists
<1>2. CronWalk(j, e, t) = w[<<1, e>>]
  BY DEF CronWalk, WalkEquation, StepOf, Steps
<1> HIDE DEF w
<1>3. <<1, e>> \in Steps(j, e) /\ <<1, e>>[1] = 1 /\ <<1, e>>[2] = e
  BY MissedCapAssumption DEF Steps
<1>4. w[<<1, e>>] = MinOf(1 + Cardinality(Ahead(j, e, t)), MissedCap)
  BY <1>1, <1>3, WalkCounts
<1>5. Cardinality(K) = Cardinality(Ahead(j, e, t)) + 1
  <2>1. j.fires \in SUBSET Nat /\ IsFiniteSet(j.fires)
    BY JobFacts
  <2>2. K = Ahead(j, e, t) \cup {e} /\ e \notin Ahead(j, e, t)
    BY <2>1 DEF Ahead
  <2>3. IsFiniteSet(Ahead(j, e, t))
    <3>1. Ahead(j, e, t) \subseteq j.fires
      BY DEF Ahead
    <3> QED
      BY <3>1, <2>1, FS_Subset
  <2> HIDE DEF K
  <2> QED
    BY <2>2, <2>3, FS_AddElement
<1>6. Cardinality(Ahead(j, e, t)) \in Nat
  BY AheadIsFinite
<1> HIDE DEF K
<1>7. 1 + Cardinality(Ahead(j, e, t)) = Cardinality(K)
  BY <1>5, <1>6
<1>8. CronWalk(j, e, t) = MinOf(Cardinality(K), MissedCap)
  BY <1>2, <1>4, <1>7
<1> QED
  BY <1>8 DEF K

LEMMA TriggerInitInv == Init => TriggerInv
BY DEF Init, TriggerInv, Due

LEMMA TriggerNextInv == TriggerInv /\ [Next]_vars => TriggerInv'
<1> SUFFICES ASSUME TriggerInv, [Next]_vars PROVE TriggerInv'
  OBVIOUS
<1>1. CASE UNCHANGED vars
  BY <1>1 DEF TriggerInv, Due, vars
<1>2. CASE Advance
  <2>1. /\ ComputeNext(job, now) \in Instants /\ expected' = ComputeNext(job, now)
        /\ now' \in ComputeNext(job, now)..LastInstant /\ job' = job
    BY <1>2 DEF Advance
  <2>2. job \in Jobs /\ now \in Nat /\ ComputeNext(job, now) \in Nat
    BY <2>1 DEF TriggerInv, Instants
  <2>3. now' \in Instants /\ expected' <= now'
    BY <2>1, <2>2, LastInstantAssumption DEF Instants
  <2>4. job.kind = "Cron" => ComputeNext(job, now) \in job.fires
    BY <2>2, CronNextMatches
  <2> QED
    BY <2>1, <2>2, <2>3, <2>4 DEF TriggerInv, Due
<1> QED
  BY <1>1, <1>2 DEF Next

LEMMA TriggerInvHolds == Spec => []TriggerInv
<1>1. QED BY TriggerInitInv, TriggerNextInv, PTL DEF Spec

(* For a cron job, at any instant: the next occurrence is the first match of *)
(* the expression after it inside the effective window, with StartTime and   *)
(* EndTime included (JobTrigger.ComputeNext).                                *)
THEOREM CronNextIsFirst == Spec => []CronNextIsFirstInWindow
<1>1. TriggerInv => CronNextIsFirstInWindow
  <2> SUFFICES ASSUME TriggerInv, job.kind = "Cron"
               PROVE  ComputeNext(job, now)
                        = LeastOf({t \in job.fires : t > now /\ InWindow(job, t)})
    BY DEF CronNextIsFirstInWindow
  <2>1. job \in Jobs /\ now \in Nat
    BY DEF TriggerInv, Instants
  <2> QED
    BY <2>1, CronNext
<1>2. QED BY <1>1, TriggerInvHolds, PTL

\* The number of instants that were due, for each kind of job.
LEMMA CountsTheDue == TriggerInv => MissedCountsTheDueInstants
<1> SUFFICES ASSUME TriggerInv, expected # NoTime, job.end = NoTime
             PROVE  LET due == CASE job.kind = "Cron" ->
                                     {t \in job.fires : expected <= t /\ t <= now}
                                 [] job.kind = "Interval" ->
                                     {t \in expected..now : (t - expected) % job.period = 0}
                                 [] OTHER -> {expected}
                    IN  CountMissed(job, expected, now) = MinOf(Cardinality(due), MissedCap)
  BY DEF MissedCountsTheDueInstants
<1>1. /\ job \in Jobs /\ now \in Nat /\ expected \in Nat /\ expected <= now
      /\ job.kind = "Cron" => expected \in job.fires
  BY DEF TriggerInv, Due, Instants
<1>2. job.kind \in {"Cron", "Interval", "OneShot"} /\ job.period \in Nat \ {0}
  BY <1>1, JobFacts
<1>3. CASE job.kind = "Cron"
  <2>1. CountMissed(job, expected, now) = CronWalk(job, expected, now)
    BY <1>3 DEF CountMissed
  <2>2. CronWalk(job, expected, now)
          = MinOf(Cardinality({t \in job.fires : expected <= t /\ t <= now}), MissedCap)
    BY <1>1, <1>3, CronWalkCounts
  <2> QED
    BY <1>3, <2>1, <2>2
<1>4. CASE job.kind = "Interval"
  <2>1. CountMissed(job, expected, now)
          = MinOf((now - expected) \div job.period + 1, MissedCap)
    BY <1>2, <1>4 DEF CountMissed
  <2>2. Cardinality({t \in expected..now : (t - expected) % job.period = 0})
          = (now - expected) \div job.period + 1
    BY <1>1, <1>2, MultiplesCounted
  <2> QED
    BY <1>4, <2>1, <2>2
<1>5. CASE job.kind = "OneShot"
  <2>1. CountMissed(job, expected, now) = 1
    BY <1>5 DEF CountMissed
  <2>2. Cardinality({expected}) = 1
    BY FS_Singleton
  <2>3. MinOf(1, MissedCap) = 1
    BY MissedCapAssumption DEF MinOf
  <2> QED
    BY <1>5, <2>1, <2>2, <2>3
<1> QED
  BY <1>2, <1>3, <1>4, <1>5

(* For a job without EndTime, at any instant at or after the one it was due  *)
(* at: the count of missed occurrences is the number of instants at which    *)
(* the job was due in between, both ends included, up to the cap             *)
(* (JobTrigger.CountMissed).                                                 *)
THEOREM MissedCountsAll == Spec => []MissedCountsTheDueInstants
<1>1. QED BY CountsTheDue, TriggerInvHolds, PTL
===============================================================================
