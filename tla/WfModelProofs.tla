---------------------------- MODULE WfModelProofs ----------------------------
(***************************************************************************)
(* What the workflow designer promises, for any number of nodes, arms and  *)
(* jumps. A tree is described by its links alone, without recursion: every *)
(* node but the start is led to by one link, links go deeper, and there is *)
(* a set of nodes that lie in parallel arms, with no parallel node in it.  *)
(* The recursive functions of the model are shown to satisfy their         *)
(* equations in such a tree, and every edit to make such a tree again.     *)
(***************************************************************************)
EXTENDS WfModel, RecursionTheorems, FiniteSetTheorems, TLAPS

ArmRec == [next : NodeIds \cup {Nil}, dflt : BOOLEAN, set : BOOLEAN]

NodeRec ==
  [type : NodeTypes, next : NodeIds \cup {Nil}, reject : NodeIds \cup {Nil, Stays},
   back : NodeIds \cup {Nil, Stays}, late : BOOLEAN, set : BOOLEAN, arms : Seq(ArmRec)]

Typed(tree) == DOMAIN tree \in SUBSET NodeIds /\ tree \in [DOMAIN tree -> NodeRec]

\* The links of a node: place 0 is its successor, the others are its arms.
Places(tree, n) == 0..Len(tree[n].arms)
Target(tree, n, k) == IF k = 0 THEN tree[n].next ELSE tree[n].arms[k].next

LeadsInside(tree) ==
  \A n \in DOMAIN tree : \A k \in Places(tree, n) :
    Target(tree, n, k) # Nil => Target(tree, n, k) \in DOMAIN tree \ {Start}

OneWay(tree) ==
  \A m, n \in DOMAIN tree : \A j \in Places(tree, m) : \A k \in Places(tree, n) :
    Target(tree, m, j) = Target(tree, n, k) /\ Target(tree, m, j) # Nil => m = n /\ j = k

Reached(tree) ==
  \A n \in DOMAIN tree \ {Start} :
    \E m \in DOMAIN tree : \E j \in Places(tree, m) : Target(tree, m, j) = n

Deepens(tree, depth) ==
  \A n \in DOMAIN tree : \A k \in Places(tree, n) :
    Target(tree, n, k) # Nil => depth[n] < depth[Target(tree, n, k)]

Ranked(tree) ==
  \E b \in Nat : \E depth \in [DOMAIN tree -> 0..b] : Deepens(tree, depth)

\* Only branches and parallel nodes have arms; the default arm of a branch is its last.
ArmsShaped(tree) ==
  \A n \in DOMAIN tree :
    /\ Len(tree[n].arms) <= WfMaxArms
    /\ tree[n].type \notin {"branch", "parallel"} => Len(tree[n].arms) = 0
    /\ tree[n].type = "branch" =>
         /\ Len(tree[n].arms) > 0
         /\ \A k \in 1..Len(tree[n].arms) : tree[n].arms[k].dflt <=> k = Len(tree[n].arms)

\* Q holds what lies in the arms of parallel nodes, at any depth.
Spreads(tree, Q) ==
  \A n \in DOMAIN tree : \A k \in Places(tree, n) :
    /\ Target(tree, n, k) # Nil
    /\ n \in Q \/ (k # 0 /\ tree[n].type = "parallel")
    => Target(tree, n, k) \in Q

Unnested(tree) ==
  \E Q \in SUBSET DOMAIN tree :
    Spreads(tree, Q) /\ \A p \in Q : tree[p].type # "parallel"

Whole(tree) ==
  /\ Typed(tree) /\ Start \in DOMAIN tree
  /\ LeadsInside(tree) /\ OneWay(tree) /\ Reached(tree) /\ Ranked(tree)
  /\ ArmsShaped(tree) /\ Unnested(tree)

------------------------------------------------------------------------------
LEMMA IdFacts ==
  /\ NodeIds \in SUBSET Nat /\ Start \in NodeIds /\ Nil \notin NodeIds /\ Stays \notin NodeIds
  /\ Nil # Stays /\ Nil # Start /\ IsFiniteSet(NodeIds)
<1>1. WfMaxNodes \in Nat
  BY WfAssumption
<1>2. IsFiniteSet(NodeIds)
  BY <1>1, FS_Interval DEF NodeIds
<1> QED
  BY <1>1, <1>2 DEF NodeIds, Start, Nil, Stays

LEMMA NodeFacts ==
  ASSUME NEW tree, Typed(tree), NEW n \in DOMAIN tree
  PROVE  /\ tree[n] \in NodeRec /\ n \in NodeIds /\ n # Nil
         /\ tree[n].type \in NodeTypes /\ tree[n].next \in NodeIds \cup {Nil}
         /\ tree[n].reject \in NodeIds \cup {Nil, Stays} /\ tree[n].set \in BOOLEAN
         /\ tree[n].back \in NodeIds \cup {Nil, Stays} /\ tree[n].late \in BOOLEAN
         /\ tree[n].arms \in Seq(ArmRec) /\ Len(tree[n].arms) \in Nat
         /\ DOMAIN tree[n].arms = 1..Len(tree[n].arms)
         /\ \A k \in 1..Len(tree[n].arms) :
              /\ tree[n].arms[k] \in ArmRec
              /\ tree[n].arms[k].next \in NodeIds \cup {Nil}
              /\ tree[n].arms[k].dflt \in BOOLEAN /\ tree[n].arms[k].set \in BOOLEAN
<1>1. tree[n] \in NodeRec /\ n \in NodeIds
  BY DEF Typed
<1>2. tree[n].arms \in Seq(ArmRec)
  BY <1>1 DEF NodeRec
<1>3. \A k \in 1..Len(tree[n].arms) : tree[n].arms[k] \in ArmRec
  BY <1>2
<1> QED
  BY <1>1, <1>2, <1>3, IdFacts DEF NodeRec, ArmRec

\* The links of walkTree are the targets.
LEMMA LinksAreTargets ==
  ASSUME NEW tree, Typed(tree), NEW n \in DOMAIN tree
  PROVE  Links(tree, n) = {Target(tree, n, k) : k \in Places(tree, n)}
<1>1. Len(tree[n].arms) \in Nat /\ DOMAIN tree[n].arms = 1..Len(tree[n].arms)
  BY NodeFacts
<1>2. Places(tree, n) = {0} \cup 1..Len(tree[n].arms) /\ 0 \notin 1..Len(tree[n].arms)
  BY <1>1 DEF Places
<1>3. Target(tree, n, 0) = tree[n].next
      /\ \A k \in 1..Len(tree[n].arms) : Target(tree, n, k) = tree[n].arms[k].next
  BY <1>2 DEF Target
<1>4. {a.next : a \in Range(tree[n].arms)} = {tree[n].arms[k].next : k \in 1..Len(tree[n].arms)}
  BY <1>1 DEF Range
<1> QED
  BY <1>2, <1>3, <1>4 DEF Links

\* Closed under the links.
ClosedIn(tree, X) == \A n \in X : Links(tree, n) \ {Nil} \subseteq X

FromBy(tree, g) ==
  [n \in DOMAIN tree |-> {n} \cup UNION {g[m] : m \in Links(tree, n) \ {Nil}}]

FromOf(tree) == CHOOSE g : g = FromBy(tree, g)

\* A link leads deeper.
LEMMA LinkDeepens ==
  ASSUME NEW tree, Typed(tree), LeadsInside(tree), NEW depth, Deepens(tree, depth),
         NEW n \in DOMAIN tree, NEW m \in Links(tree, n) \ {Nil}
  PROVE  m \in DOMAIN tree /\ depth[n] < depth[m]
<1>1. PICK k \in Places(tree, n) : m = Target(tree, n, k)
  BY LinksAreTargets
<1> QED
  BY <1>1 DEF LeadsInside, Deepens

\* The walk from a node exists: it only looks deeper.
LEMMA WalkEquation ==
  ASSUME NEW tree, Typed(tree), LeadsInside(tree), Ranked(tree)
  PROVE  FromOf(tree) = FromBy(tree, FromOf(tree))
<1> DEFINE D == DOMAIN tree
           V == SUBSET D
           F == [g \in [D -> V] |-> FromBy(tree, g)]
<1>0. PICK b \in Nat : \E depth \in [D -> 0..b] : Deepens(tree, depth)
  BY DEF Ranked
<1>1. PICK depth \in [D -> 0..b] : Deepens(tree, depth)
  BY <1>0
<1> DEFINE mu == [n \in D |-> b - depth[n]]
           R == {p \in D \X D : p[1] \in Links(tree, p[2])}
<1>2. ASSUME NEW n \in D, NEW m \in Links(tree, n) \ {Nil}
      PROVE  m \in D /\ depth[n] < depth[m]
  BY <1>1, LinkDeepens
<1>3. HasMinima(R, D)
  <2>1. mu \in [D -> Nat]
    <3>1. \A n \in D : depth[n] \in 0..b
      BY <1>1
    <3> QED
      BY <3>1, <1>1
  <2>2. ASSUME NEW m \in D, NEW n \in D, <<m, n>> \in R PROVE mu[m] < mu[n]
    <3>1. m # Nil
      BY NodeFacts
    <3>2. depth[n] < depth[m]
      BY <2>2, <3>1, <1>2
    <3>3. depth[n] \in 0..b /\ depth[m] \in 0..b
      BY <1>1
    <3> QED
      BY <3>2, <3>3, <1>1
  <2> HIDE DEF R, mu
  <2> QED
    BY <2>1, <2>2, MeasureHasMinima
<1>4. \A g, n : n \in D => FromBy(tree, g)[n] = {n} \cup UNION {g[m] : m \in Links(tree, n) \ {Nil}}
  BY DEF FromBy
<1>5. F \in [[D -> V] -> [D -> V]]
  <2>1. ASSUME NEW g \in [D -> V] PROVE FromBy(tree, g) \in [D -> V]
    <3>1. ASSUME NEW n \in D PROVE FromBy(tree, g)[n] \in V
      <4>1. \A m \in Links(tree, n) \ {Nil} : g[m] \in SUBSET D
        BY <1>2
      <4> QED
        BY <4>1, <1>4
    <3> QED
      BY <3>1 DEF FromBy
  <2> QED
    BY <2>1
<1>6. LooksBelow(F, D, V, R)
  <2> SUFFICES ASSUME NEW g \in [D -> V], NEW h \in [D -> V], NEW n \in D,
                      \A m \in D : <<m, n>> \in R => g[m] = h[m]
               PROVE  F[g][n] = F[h][n]
    BY DEF LooksBelow
  <2>1. F[g] = FromBy(tree, g) /\ F[h] = FromBy(tree, h)
    OBVIOUS
  <2>2. \A m \in Links(tree, n) \ {Nil} : g[m] = h[m]
    BY <1>2
  <2>3. {g[m] : m \in Links(tree, n) \ {Nil}} = {h[m] : m \in Links(tree, n) \ {Nil}}
    BY <2>2
  <2>4. /\ FromBy(tree, g)[n] = {n} \cup UNION {g[m] : m \in Links(tree, n) \ {Nil}}
        /\ FromBy(tree, h)[n] = {n} \cup UNION {h[m] : m \in Links(tree, n) \ {Nil}}
    BY <1>4
  <2> HIDE DEF F
  <2> QED
    BY <2>1, <2>3, <2>4
<1> HIDE DEF F, R
<1>7. IsRecursion(F, D, V, R)
  <2>1. V # {}
    OBVIOUS
  <2> QED
    BY <2>1, <1>3, <1>5, <1>6 DEF IsRecursion
<1>8. PICK g \in [D -> V] : g = F[g]
  BY <1>7, RecursionHasSolution
<1>9. g = FromBy(tree, g)
  BY <1>8 DEF F
<1> QED
  BY <1>9 DEF FromOf

LEMMA WalkIsFrom ==
  ASSUME NEW tree, NEW first, first # Nil
  PROVE  Walk(tree, first) = FromOf(tree)[first]
BY DEF Walk, FromOf, FromBy

\* What a walk visits: its start and whatever is linked from what it visits, and no more.
LEMMA WalkFacts ==
  ASSUME NEW tree, Typed(tree), LeadsInside(tree), Ranked(tree), NEW first \in DOMAIN tree
  PROVE  /\ first \in Walk(tree, first) /\ Walk(tree, first) \subseteq DOMAIN tree
         /\ ClosedIn(tree, Walk(tree, first))
         /\ \A X : first \in X /\ X \subseteq DOMAIN tree /\ ClosedIn(tree, X)
                      => Walk(tree, first) \subseteq X
<1> DEFINE D == DOMAIN tree
           g == FromOf(tree)
           kids(n) == Links(tree, n) \ {Nil}
<1>0. PICK b \in Nat : \E depth \in [D -> 0..b] : Deepens(tree, depth)
  BY DEF Ranked
<1>1. PICK depth \in [D -> 0..b] : Deepens(tree, depth)
  BY <1>0
<1>2. ASSUME NEW n \in D, NEW m \in kids(n)
      PROVE  m \in D /\ depth[n] < depth[m]
  BY <1>1, LinkDeepens
<1>3. \A n \in D : g[n] = {n} \cup UNION {g[m] : m \in kids(n)}
  <2>1. g = FromBy(tree, g)
    BY WalkEquation
  <2> HIDE DEF g
  <2> QED
    BY <2>1 DEF FromBy
<1> DEFINE R == {p \in D \X D : p[1] \in kids(p[2])}
           mu == [n \in D |-> b - depth[n]]
<1>4. HasMinima(R, D)
  <2>1. mu \in [D -> Nat]
    <3>1. \A n \in D : depth[n] \in 0..b
      BY <1>1
    <3> QED
      BY <3>1, <1>0
  <2>2. ASSUME NEW m \in D, NEW n \in D, <<m, n>> \in R PROVE mu[m] < mu[n]
    <3>1. depth[n] < depth[m]
      BY <2>2, <1>2
    <3>2. depth[n] \in 0..b /\ depth[m] \in 0..b
      BY <1>1
    <3> QED
      BY <3>1, <3>2, <1>0
  <2> HIDE DEF R, mu
  <2> QED
    BY <2>1, <2>2, MeasureHasMinima
<1> HIDE DEF g, kids
<1>5. ASSUME NEW T \in SUBSET D, T # {}
      PROVE  \E n \in T : \A m \in kids(n) : m \in D /\ m \notin T
  <2>1. PICK n \in T : \A m \in T : <<m, n>> \notin R
    BY <1>4, <1>5 DEF HasMinima
  <2> QED
    BY <2>1, <1>2
<1>6. \A n \in D : n \in g[n] /\ \A m \in kids(n) : g[m] \subseteq g[n]
  BY <1>3
<1>7. \A n \in D : g[n] \subseteq D
  <2> DEFINE T == {n \in D : ~(g[n] \subseteq D)}
  <2> SUFFICES ASSUME T # {} PROVE FALSE
    OBVIOUS
  <2>1. PICK n \in T : \A m \in kids(n) : m \in D /\ m \notin T
    <3>1. T \in SUBSET D
      OBVIOUS
    <3> HIDE DEF T
    <3> QED
      BY <3>1, <1>5
  <2>2. \A m \in kids(n) : g[m] \subseteq D
    BY <2>1
  <2>3. g[n] = {n} \cup UNION {g[m] : m \in kids(n)}
    BY <1>3, <2>1
  <2> QED
    BY <2>1, <2>2, <2>3
<1>8. \A n \in D : \A x \in g[n] : kids(x) \subseteq g[n]
  <2> DEFINE T == {n \in D : ~(\A x \in g[n] : kids(x) \subseteq g[n])}
  <2> SUFFICES ASSUME T # {} PROVE FALSE
    OBVIOUS
  <2>1. PICK n \in T : \A m \in kids(n) : m \in D /\ m \notin T
    <3>1. T \in SUBSET D
      OBVIOUS
    <3> HIDE DEF T
    <3> QED
      BY <3>1, <1>5
  <2>2. n \in D
    BY <2>1
  <2>3. ASSUME NEW x \in g[n] PROVE kids(x) \subseteq g[n]
    <3>1. CASE x = n
      BY <3>1, <2>1, <2>2, <1>6
    <3>2. CASE x # n
      <4>1. PICK m \in kids(n) : x \in g[m]
        BY <3>2, <2>2, <1>3
      <4>2. kids(x) \subseteq g[m]
        BY <4>1, <2>1
      <4> QED
        BY <4>1, <4>2, <2>2, <1>6
    <3> QED
      BY <3>1, <3>2
  <2> QED
    BY <2>1, <2>3
<1>9. ASSUME NEW X, X \subseteq D, \A n \in X : kids(n) \subseteq X
      PROVE  \A n \in X : g[n] \subseteq X
  <2> DEFINE T == {n \in X : ~(g[n] \subseteq X)}
  <2> SUFFICES ASSUME T # {} PROVE FALSE
    OBVIOUS
  <2>1. PICK n \in T : \A m \in kids(n) : m \in D /\ m \notin T
    <3>1. T \in SUBSET D
      BY <1>9
    <3> HIDE DEF T
    <3> QED
      BY <3>1, <1>5
  <2>2. n \in X /\ n \in D
    BY <2>1, <1>9
  <2>3. \A m \in kids(n) : g[m] \subseteq X
    BY <2>1, <2>2, <1>9
  <2>4. g[n] = {n} \cup UNION {g[m] : m \in kids(n)}
    BY <1>3, <2>2
  <2> QED
    BY <2>1, <2>2, <2>3, <2>4
<1>10. Walk(tree, first) = g[first]
  <2>1. first # Nil
    BY NodeFacts
  <2> QED
    BY <2>1, WalkIsFrom DEF g
<1> QED
  BY <1>6, <1>7, <1>8, <1>9, <1>10 DEF ClosedIn, kids

------------------------------------------------------------------------------
\* A node but the start has exactly one link to it, and LinkTo finds it.
LEMMA LinkToFacts ==
  ASSUME NEW tree, Whole(tree), NEW n \in DOMAIN tree \ {Start}
  PROVE  /\ LinkTo(tree, n).of \in DOMAIN tree
         /\ LinkTo(tree, n).arm \in Places(tree, LinkTo(tree, n).of)
         /\ Target(tree, LinkTo(tree, n).of, LinkTo(tree, n).arm) = n
         /\ \A m \in DOMAIN tree : \A j \in Places(tree, m) :
              Target(tree, m, j) = n => LinkTo(tree, n) = [of |-> m, arm |-> j]
<1> DEFINE D == DOMAIN tree
           L == [of : D, arm : 0..(WfMaxArms + 1)]
           ok(l) == IF l.arm = 0 THEN tree[l.of].next = n
                    ELSE l.arm \in DOMAIN tree[l.of].arms /\ tree[l.of].arms[l.arm].next = n
           at(m, j) == [of |-> m, arm |-> j]
<1>1. Typed(tree) /\ OneWay(tree) /\ Reached(tree) /\ ArmsShaped(tree) /\ n # Nil
  BY NodeFacts DEF Whole
<1>2. ASSUME NEW m \in D
      PROVE  /\ Len(tree[m].arms) \in Nat /\ Len(tree[m].arms) <= WfMaxArms
             /\ DOMAIN tree[m].arms = 1..Len(tree[m].arms)
  BY <1>1, NodeFacts DEF ArmsShaped
<1>3. WfMaxArms \in Nat
  BY WfAssumption
<1>4. ASSUME NEW m \in D, NEW j \in Places(tree, m), Target(tree, m, j) = n
      PROVE  at(m, j) \in L /\ ok(at(m, j))
  <2>1. j \in 0..(WfMaxArms + 1) /\ (j # 0 => j \in DOMAIN tree[m].arms)
    BY <1>2, <1>3 DEF Places
  <2>2. IF j = 0 THEN tree[m].next = n ELSE tree[m].arms[j].next = n
    BY <1>4 DEF Target
  <2> QED
    BY <2>1, <2>2
<1>5. ASSUME NEW l \in L, ok(l)
      PROVE  l.of \in D /\ l.arm \in Places(tree, l.of) /\ Target(tree, l.of, l.arm) = n
             /\ l = at(l.of, l.arm)
  <2>1. l.of \in D /\ l.arm \in 0..(WfMaxArms + 1) /\ l = at(l.of, l.arm)
    OBVIOUS
  <2>2. l.arm \in Places(tree, l.of)
    BY <1>2, <1>5, <2>1 DEF Places
  <2>3. Target(tree, l.of, l.arm) = n
    BY <1>5 DEF Target
  <2> QED
    BY <2>1, <2>2, <2>3
<1>6. LinkTo(tree, n) = CHOOSE l \in L : ok(l)
  BY DEF LinkTo
<1>7. \E l \in L : ok(l)
  <2>1. PICK m \in D : \E j \in Places(tree, m) : Target(tree, m, j) = n
    BY <1>1 DEF Reached
  <2> HIDE DEF L, ok, at
  <2> QED
    BY <2>1, <1>4
<1> DEFINE k == LinkTo(tree, n)
<1>8. k \in L /\ ok(k)
  <2> HIDE DEF L, ok
  <2> QED
    BY <1>6, <1>7
<1>9. k.of \in D /\ k.arm \in Places(tree, k.of) /\ Target(tree, k.of, k.arm) = n /\ k = at(k.of, k.arm)
  <2> HIDE DEF L, ok, at, k
  <2> QED
    BY <1>5, <1>8
<1>10. ASSUME NEW m \in D, NEW j \in Places(tree, m), Target(tree, m, j) = n
       PROVE  k = at(m, j)
  <2> HIDE DEF k
  <2>1. k.of = m /\ k.arm = j
    BY <1>1, <1>9, <1>10 DEF OneWay
  <2> QED
    BY <2>1, <1>9
<1> QED
  BY <1>9, <1>10

\* A tree has depths: every link goes deeper, so LinkTo goes up.
LEMMA DepthFacts ==
  ASSUME NEW tree, Whole(tree)
  PROVE  \E depth \in [DOMAIN tree -> Nat] :
           /\ Deepens(tree, depth)
           /\ \A n \in DOMAIN tree \ {Start} :
                /\ LinkTo(tree, n).of \in DOMAIN tree
                /\ depth[LinkTo(tree, n).of] < depth[n]
<1>1. PICK b \in Nat : \E depth \in [DOMAIN tree -> 0..b] : Deepens(tree, depth)
  BY DEF Whole, Ranked
<1>2. PICK depth \in [DOMAIN tree -> 0..b] : Deepens(tree, depth)
  BY <1>1
<1>3. depth \in [DOMAIN tree -> Nat]
  <2>1. 0..b \subseteq Nat
    OBVIOUS
  <2> QED
    BY <1>2, <2>1
<1>4. ASSUME NEW n \in DOMAIN tree \ {Start}
      PROVE  LinkTo(tree, n).of \in DOMAIN tree /\ depth[LinkTo(tree, n).of] < depth[n]
  <2> DEFINE l == LinkTo(tree, n)
  <2>1. l.of \in DOMAIN tree /\ l.arm \in Places(tree, l.of) /\ Target(tree, l.of, l.arm) = n
    BY LinkToFacts
  <2>2. n # Nil
    BY NodeFacts DEF Whole
  <2> HIDE DEF l
  <2>3. depth[l.of] < depth[n]
    BY <1>2, <2>1, <2>2 DEF Deepens
  <2> QED
    BY <2>1, <2>3 DEF l
<1> QED
  BY <1>2, <1>3, <1>4

\* Of the nodes with a property there is a highest one.
LEMMA HighestNode ==
  ASSUME NEW tree, Whole(tree), NEW T \in SUBSET DOMAIN tree, T # {}
  PROVE  \E n \in T : n = Start \/ LinkTo(tree, n).of \in DOMAIN tree \ T
<1>1. PICK depth \in [DOMAIN tree -> Nat] :
         \A n \in DOMAIN tree \ {Start} :
           LinkTo(tree, n).of \in DOMAIN tree /\ depth[LinkTo(tree, n).of] < depth[n]
  BY DepthFacts
<1> DEFINE R == {p \in (DOMAIN tree) \X (DOMAIN tree) : depth[p[1]] < depth[p[2]]}
<1>2. HasMinima(R, DOMAIN tree)
  <2>1. \A m, n \in DOMAIN tree : <<m, n>> \in R => depth[m] < depth[n]
    OBVIOUS
  <2> HIDE DEF R
  <2> QED
    BY <2>1, <1>1, MeasureHasMinima
<1>3. PICK n \in T : \A m \in T : <<m, n>> \notin R
  <2> HIDE DEF R
  <2> QED
    BY <1>2 DEF HasMinima
<1>4. CASE n # Start
  <2>1. LinkTo(tree, n).of \in DOMAIN tree /\ depth[LinkTo(tree, n).of] < depth[n]
    BY <1>1, <1>4
  <2>2. LinkTo(tree, n).of \notin T
    BY <1>3, <2>1
  <2> QED
    BY <2>1, <2>2
<1> QED
  BY <1>4

ArmLink(tree, n, type) == LinkTo(tree, n).arm # 0 /\ tree[LinkTo(tree, n).of].type = type

\* A function that climbs the tree by LinkTo.
LEMMA ClimbsTree ==
  ASSUME NEW tree, Whole(tree), NEW stop, Start \in stop, NEW val
  PROVE  \E g : g = [n \in DOMAIN tree |-> IF n \in stop THEN val[n] ELSE g[LinkTo(tree, n).of]]
<1>1. PICK depth \in [DOMAIN tree -> Nat] :
         \A n \in DOMAIN tree \ {Start} :
           LinkTo(tree, n).of \in DOMAIN tree /\ depth[LinkTo(tree, n).of] < depth[n]
  BY DepthFacts
<1> DEFINE up == [n \in DOMAIN tree |-> LinkTo(tree, n).of]
<1>2. IsClimb(DOMAIN tree, stop, up)
  BY <1>1 DEF IsClimb
<1>3. \A n \in DOMAIN tree : up[n] = LinkTo(tree, n).of
  OBVIOUS
<1> HIDE DEF up
<1>4. PICK g : g = [n \in DOMAIN tree |-> IF n \in stop THEN val[n] ELSE g[up[n]]]
  BY <1>2, ClimbHasSolution
<1>5. g = [n \in DOMAIN tree |-> IF n \in stop THEN val[n] ELSE g[LinkTo(tree, n).of]]
  BY <1>3, <1>4
<1> QED
  BY <1>5

ArmBy(tree, g) ==
  [n \in DOMAIN tree |->
     IF n = Start THEN NoArm
     ELSE LET l == LinkTo(tree, n)
          IN IF l.arm # 0 /\ tree[l.of].type = "parallel" THEN l ELSE g[l.of]]

\* The parallel arm around a node is the one that leads to it, or that around its link.
LEMMA ArmEquation ==
  ASSUME NEW tree, Whole(tree), NEW n \in DOMAIN tree
  PROVE  EnclosingArm(tree, n) =
           IF n = Start THEN NoArm
           ELSE IF ArmLink(tree, n, "parallel") THEN LinkTo(tree, n)
           ELSE EnclosingArm(tree, LinkTo(tree, n).of)
<1> DEFINE stop == {m \in DOMAIN tree : m = Start \/ ArmLink(tree, m, "parallel")}
           val == [m \in DOMAIN tree |-> IF m = Start THEN NoArm ELSE LinkTo(tree, m)]
           h == CHOOSE g : g = ArmBy(tree, g)
<1>1. PICK g : g = [m \in DOMAIN tree |-> IF m \in stop THEN val[m] ELSE g[LinkTo(tree, m).of]]
  <2>1. Start \in stop
    BY DEF Whole
  <2> HIDE DEF stop, val
  <2> QED
    BY <2>1, ClimbsTree
<1>2. g = ArmBy(tree, g)
  BY <1>1 DEF ArmBy, ArmLink
<1>3. h = ArmBy(tree, h)
  <2> HIDE DEF stop, val
  <2> QED
    BY <1>2
<1>4. \A m : EnclosingArm(tree, m) = h[m]
  BY DEF EnclosingArm, ArmBy
<1> HIDE DEF h
<1>5. h[n] = IF n = Start THEN NoArm
             ELSE IF ArmLink(tree, n, "parallel") THEN LinkTo(tree, n) ELSE h[LinkTo(tree, n).of]
  BY <1>3 DEF ArmBy, ArmLink
<1> QED
  BY <1>4, <1>5

BranchBy(tree, g) ==
  [n \in DOMAIN tree |->
     IF n = Start THEN Nil
     ELSE LET l == LinkTo(tree, n)
          IN IF l.arm # 0 /\ tree[l.of].type = "branch" THEN l.of ELSE g[l.of]]

\* The branch around a node is the one an arm of which leads to it, or that around its link.
LEMMA BranchEquation ==
  ASSUME NEW tree, Whole(tree), NEW n \in DOMAIN tree
  PROVE  EnclosingBranch(tree, n) =
           IF n = Start THEN Nil
           ELSE IF ArmLink(tree, n, "branch") THEN LinkTo(tree, n).of
           ELSE EnclosingBranch(tree, LinkTo(tree, n).of)
<1> DEFINE stop == {m \in DOMAIN tree : m = Start \/ ArmLink(tree, m, "branch")}
           val == [m \in DOMAIN tree |-> IF m = Start THEN Nil ELSE LinkTo(tree, m).of]
           h == CHOOSE g : g = BranchBy(tree, g)
<1>1. PICK g : g = [m \in DOMAIN tree |-> IF m \in stop THEN val[m] ELSE g[LinkTo(tree, m).of]]
  <2>1. Start \in stop
    BY DEF Whole
  <2> HIDE DEF stop, val
  <2> QED
    BY <2>1, ClimbsTree
<1>2. g = BranchBy(tree, g)
  BY <1>1 DEF BranchBy, ArmLink
<1>3. h = BranchBy(tree, h)
  <2> HIDE DEF stop, val
  <2> QED
    BY <1>2
<1>4. \A m : EnclosingBranch(tree, m) = h[m]
  BY DEF EnclosingBranch, BranchBy
<1> HIDE DEF h
<1>5. h[n] = IF n = Start THEN Nil
             ELSE IF ArmLink(tree, n, "branch") THEN LinkTo(tree, n).of ELSE h[LinkTo(tree, n).of]
  BY <1>3 DEF BranchBy, ArmLink
<1> QED
  BY <1>4, <1>5

HeadBy(tree, g) ==
  [m \in DOMAIN tree |->
     IF m = Start \/ LinkTo(tree, m).arm # 0 THEN m ELSE g[LinkTo(tree, m).of]]

\* The head of the chain a node is in.
HeadOf(tree) == CHOOSE g : g = HeadBy(tree, g)

LEMMA HeadEquation ==
  ASSUME NEW tree, Whole(tree), NEW n \in DOMAIN tree
  PROVE  HeadOf(tree)[n] =
           IF n = Start \/ LinkTo(tree, n).arm # 0 THEN n ELSE HeadOf(tree)[LinkTo(tree, n).of]
<1> DEFINE stop == {m \in DOMAIN tree : m = Start \/ LinkTo(tree, m).arm # 0}
           val == [m \in DOMAIN tree |-> m]
           h == HeadOf(tree)
<1>1. PICK g : g = [m \in DOMAIN tree |-> IF m \in stop THEN val[m] ELSE g[LinkTo(tree, m).of]]
  <2>1. Start \in stop
    BY DEF Whole
  <2> HIDE DEF stop, val
  <2> QED
    BY <2>1, ClimbsTree
<1>2. g = HeadBy(tree, g)
  BY <1>1 DEF HeadBy
<1>3. h = HeadBy(tree, h)
  <2> HIDE DEF stop, val
  <2> QED
    BY <1>2 DEF HeadOf
<1> HIDE DEF h
<1>4. h[n] = IF n = Start \/ LinkTo(tree, n).arm # 0 THEN n ELSE h[LinkTo(tree, n).of]
  BY <1>3 DEF HeadBy
<1> QED
  BY <1>4 DEF h

\* What is around a node is around the head of its chain.
LEMMA HeadFacts ==
  ASSUME NEW tree, Whole(tree), NEW n \in DOMAIN tree
  PROVE  /\ HeadOf(tree)[n] \in DOMAIN tree
         /\ HeadOf(tree)[n] = Start \/ LinkTo(tree, HeadOf(tree)[n]).arm # 0
         /\ EnclosingArm(tree, n) = EnclosingArm(tree, HeadOf(tree)[n])
         /\ EnclosingBranch(tree, n) = EnclosingBranch(tree, HeadOf(tree)[n])
<1> DEFINE D == DOMAIN tree
           h == HeadOf(tree)
           ok(m) == /\ h[m] \in D /\ (h[m] = Start \/ LinkTo(tree, h[m]).arm # 0)
                    /\ EnclosingArm(tree, m) = EnclosingArm(tree, h[m])
                    /\ EnclosingBranch(tree, m) = EnclosingBranch(tree, h[m])
           T == {m \in D : ~ok(m)}
<1>1. ASSUME NEW m \in D
      PROVE  h[m] = IF m = Start \/ LinkTo(tree, m).arm # 0 THEN m ELSE h[LinkTo(tree, m).of]
  BY HeadEquation
<1>2. ASSUME NEW m \in D, m # Start, LinkTo(tree, m).arm = 0
      PROVE  /\ EnclosingArm(tree, m) = EnclosingArm(tree, LinkTo(tree, m).of)
             /\ EnclosingBranch(tree, m) = EnclosingBranch(tree, LinkTo(tree, m).of)
  <2>1. ~ArmLink(tree, m, "parallel") /\ ~ArmLink(tree, m, "branch")
    BY <1>2 DEF ArmLink
  <2> QED
    BY <1>2, <2>1, ArmEquation, BranchEquation
<1> HIDE DEF h
<1>3. ASSUME T # {} PROVE FALSE
  <2>1. PICK m \in T : m = Start \/ LinkTo(tree, m).of \in D \ T
    <3>1. T \in SUBSET D
      OBVIOUS
    <3> HIDE DEF T
    <3> QED
      BY <3>1, <1>3, HighestNode
  <2>2. m \in D /\ ~ok(m)
    OBVIOUS
  <2>3. CASE m = Start \/ LinkTo(tree, m).arm # 0
    <3>1. h[m] = m
      BY <2>2, <2>3, <1>1
    <3> QED
      BY <2>2, <2>3, <3>1
  <2>4. CASE m # Start /\ LinkTo(tree, m).arm = 0
    <3>1. h[m] = h[LinkTo(tree, m).of] /\ ok(LinkTo(tree, m).of)
      BY <1>1, <2>1, <2>2, <2>4
    <3> QED
      BY <1>2, <2>2, <2>4, <3>1
  <2> QED
    BY <2>3, <2>4
<1>4. ok(n)
  BY <1>3
<1> QED
  BY <1>4 DEF h

\* The branch around a node, and the construct its chain is an arm of, are higher.
LEMMA ClimbFacts ==
  ASSUME NEW tree, Whole(tree)
  PROVE  \E depth \in [DOMAIN tree -> Nat] : \A n \in DOMAIN tree :
           /\ EnclosingBranch(tree, n) # Nil =>
                /\ EnclosingBranch(tree, n) \in DOMAIN tree
                /\ tree[EnclosingBranch(tree, n)].type = "branch"
                /\ depth[EnclosingBranch(tree, n)] < depth[n]
           /\ HeadOf(tree)[n] # Start =>
                /\ LinkTo(tree, HeadOf(tree)[n]).of \in DOMAIN tree
                /\ depth[LinkTo(tree, HeadOf(tree)[n]).of] < depth[n]
<1> DEFINE D == DOMAIN tree
           h == HeadOf(tree)
           up(n) == LinkTo(tree, n).of
           eb(n) == EnclosingBranch(tree, n)
<1>1. PICK depth \in [D -> Nat] : \A n \in D \ {Start} : up(n) \in D /\ depth[up(n)] < depth[n]
  BY DepthFacts
<1> DEFINE ok(m) == /\ eb(m) # Nil => /\ eb(m) \in D /\ tree[eb(m)].type = "branch"
                                      /\ depth[eb(m)] < depth[m]
                    /\ h[m] # Start => up(h[m]) \in D /\ depth[up(h[m])] < depth[m]
           T == {m \in D : ~ok(m)}
<1>2. ASSUME NEW m \in D
      PROVE  h[m] = IF m = Start \/ LinkTo(tree, m).arm # 0 THEN m ELSE h[up(m)]
  BY HeadEquation
<1>3. ASSUME NEW m \in D
      PROVE  eb(m) = IF m = Start THEN Nil
                     ELSE IF ArmLink(tree, m, "branch") THEN up(m) ELSE eb(up(m))
  BY BranchEquation
<1>4. \A m : ArmLink(tree, m, "branch") => tree[up(m)].type = "branch"
  BY DEF ArmLink
<1> HIDE DEF h, eb, up
<1>5. ASSUME T # {} PROVE FALSE
  <2>1. PICK m \in T : m = Start \/ up(m) \in D \ T
    <3>1. T \in SUBSET D
      OBVIOUS
    <3> HIDE DEF T
    <3> QED
      BY <3>1, <1>5, HighestNode DEF up
  <2>2. m \in D /\ ~ok(m)
    OBVIOUS
  <2>3. CASE m = Start
    BY <2>2, <2>3, <1>2, <1>3
  <2>4. CASE m # Start
    <3>1. up(m) \in D /\ ok(up(m)) /\ depth[up(m)] < depth[m] /\ depth[m] \in Nat /\ depth[up(m)] \in Nat
      BY <1>1, <2>1, <2>2, <2>4
    <3>2. ASSUME eb(m) # Nil
          PROVE  eb(m) \in D /\ tree[eb(m)].type = "branch" /\ depth[eb(m)] < depth[m]
      <4>1. CASE ArmLink(tree, m, "branch")
        BY <4>1, <1>3, <1>4, <2>2, <2>4, <3>1
      <4>2. CASE ~ArmLink(tree, m, "branch")
        <5>1. eb(m) = eb(up(m)) /\ eb(up(m)) \in D
          BY <4>2, <1>3, <2>2, <2>4, <3>1, <3>2
        <5>2. depth[eb(up(m))] < depth[up(m)] /\ depth[eb(up(m))] \in Nat
          BY <5>1, <3>1, <3>2
        <5> QED
          BY <5>1, <5>2, <3>1, <3>2
      <4> QED
        BY <4>1, <4>2
    <3>3. ASSUME h[m] # Start
          PROVE  up(h[m]) \in D /\ depth[up(h[m])] < depth[m]
      <4>1. CASE LinkTo(tree, m).arm # 0
        BY <4>1, <1>2, <2>2, <3>1
      <4>2. CASE LinkTo(tree, m).arm = 0
        <5>1. h[m] = h[up(m)]
          BY <4>2, <1>2, <2>2, <2>4
        <5>2. up(h[m]) \in D /\ depth[up(h[m])] < depth[up(m)] /\ depth[up(h[m])] \in Nat
          BY <5>1, <3>1, <3>3
        <5> QED
          BY <5>2, <3>1
      <4> QED
        BY <4>1, <4>2
    <3> QED
      BY <2>2, <3>2, <3>3
  <2> QED
    BY <2>3, <2>4
<1>6. \A m \in D : ok(m)
  BY <1>5
<1> QED
  BY <1>6 DEF h, eb, up

OutBy(tree, g) ==
  [n \in DOMAIN tree |->
     IF tree[n].next # Nil THEN tree[n].next
     ELSE LET b == EnclosingBranch(tree, n) IN IF b = Nil THEN Nil ELSE g[b]]

\* The successor of a node, or that of the branch around it, and so on.
LEMMA MergeEquation ==
  ASSUME NEW tree, Whole(tree), NEW n \in DOMAIN tree
  PROVE  ResolveMergeTarget(tree, n) =
           IF tree[n].next # Nil THEN tree[n].next
           ELSE IF EnclosingBranch(tree, n) = Nil THEN Nil
           ELSE ResolveMergeTarget(tree, EnclosingBranch(tree, n))
<1> DEFINE D == DOMAIN tree
           stop == {m \in D : tree[m].next # Nil \/ EnclosingBranch(tree, m) = Nil}
           val == [m \in D |-> tree[m].next]
           up == [m \in D |-> EnclosingBranch(tree, m)]
           h == CHOOSE g : g = OutBy(tree, g)
<1>1. IsClimb(D, stop, up)
  <2>1. PICK depth \in [D -> Nat] : \A m \in D :
           EnclosingBranch(tree, m) # Nil =>
             EnclosingBranch(tree, m) \in D /\ depth[EnclosingBranch(tree, m)] < depth[m]
    BY ClimbFacts
  <2>2. \A m \in D \ stop : up[m] \in D /\ depth[up[m]] < depth[m]
    BY <2>1
  <2> HIDE DEF stop, up
  <2> QED
    BY <2>1, <2>2 DEF IsClimb
<1>2. PICK g : g = [m \in D |-> IF m \in stop THEN val[m] ELSE g[up[m]]]
  <2> HIDE DEF stop, val, up
  <2> QED
    BY <1>1, ClimbHasSolution
<1>3. g = OutBy(tree, g)
  BY <1>2 DEF OutBy
<1>4. h = OutBy(tree, h)
  BY <1>3
<1>5. \A m : ResolveMergeTarget(tree, m) = h[m]
  BY DEF ResolveMergeTarget, OutBy
<1> HIDE DEF h
<1>6. h[n] = IF tree[n].next # Nil THEN tree[n].next
             ELSE IF EnclosingBranch(tree, n) = Nil THEN Nil ELSE h[EnclosingBranch(tree, n)]
  BY <1>4 DEF OutBy
<1> QED
  BY <1>5, <1>6

UpBy(tree, g) ==
  [n \in DOMAIN tree |->
     IF tree[n].next # Nil THEN Enter(tree[n].next)
     ELSE LET h == HeadOf(tree)[n]
          IN IF h = Start THEN Enter(Nil)
             ELSE IF tree[LinkTo(tree, h).of].type = "parallel" THEN Join(LinkTo(tree, h).of)
             ELSE g[LinkTo(tree, h).of]]

\* What the drawing means for a node, from the head of its chain.
LEMMA ContinuationEquation ==
  ASSUME NEW tree, Whole(tree), NEW n \in DOMAIN tree
  PROVE  Continuation(tree, n) =
           IF tree[n].next # Nil THEN Enter(tree[n].next)
           ELSE IF HeadOf(tree)[n] = Start THEN Enter(Nil)
           ELSE IF tree[LinkTo(tree, HeadOf(tree)[n]).of].type = "parallel"
                THEN Join(LinkTo(tree, HeadOf(tree)[n]).of)
           ELSE Continuation(tree, LinkTo(tree, HeadOf(tree)[n]).of)
<1> DEFINE D == DOMAIN tree
           of(m) == LinkTo(tree, HeadOf(tree)[m]).of
           ends(m) == tree[m].next # Nil \/ HeadOf(tree)[m] = Start \/ tree[of(m)].type = "parallel"
           stop == {m \in D : ends(m)}
           val == [m \in D |-> IF tree[m].next # Nil THEN Enter(tree[m].next)
                               ELSE IF HeadOf(tree)[m] = Start THEN Enter(Nil) ELSE Join(of(m))]
           up == [m \in D |-> of(m)]
           h == CHOOSE g : g = UpBy(tree, g)
<1>1. IsClimb(D, stop, up)
  <2>1. PICK depth \in [D -> Nat] : \A m \in D :
           HeadOf(tree)[m] # Start => of(m) \in D /\ depth[of(m)] < depth[m]
    BY ClimbFacts
  <2>2. \A m \in D \ stop : up[m] \in D /\ depth[up[m]] < depth[m]
    BY <2>1
  <2> HIDE DEF stop, up
  <2> QED
    BY <2>1, <2>2 DEF IsClimb
<1>2. PICK g : g = [m \in D |-> IF m \in stop THEN val[m] ELSE g[up[m]]]
  <2> HIDE DEF stop, val, up
  <2> QED
    BY <1>1, ClimbHasSolution
<1>3. g = UpBy(tree, g)
  <2>1. ASSUME NEW m \in D
        PROVE  (IF m \in stop THEN val[m] ELSE g[up[m]]) = UpBy(tree, g)[m]
    BY DEF UpBy
  <2>2. g = [m \in D |-> UpBy(tree, g)[m]]
    BY <1>2, <2>1
  <2> QED
    BY <2>2 DEF UpBy
<1>4. h = UpBy(tree, h)
  BY <1>3
<1>5. \A m : Continuation(tree, m) = h[m]
  BY DEF Continuation, UpBy, HeadOf, HeadBy
<1> HIDE DEF h
<1>6. h[n] = IF tree[n].next # Nil THEN Enter(tree[n].next)
             ELSE IF HeadOf(tree)[n] = Start THEN Enter(Nil)
             ELSE IF tree[of(n)].type = "parallel" THEN Join(of(n)) ELSE h[of(n)]
  BY <1>4 DEF UpBy
<1> QED
  BY <1>5, <1>6

------------------------------------------------------------------------------
\* A parallel arm is one of a parallel node, and no parallel node lies in one.
LEMMA ArmFacts ==
  ASSUME NEW tree, Whole(tree), NEW n \in DOMAIN tree
  PROVE  /\ tree[n].type = "parallel" => EnclosingArm(tree, n) = NoArm
         /\ EnclosingArm(tree, n) # NoArm =>
              /\ EnclosingArm(tree, n).of \in DOMAIN tree
              /\ tree[EnclosingArm(tree, n).of].type = "parallel"
<1> DEFINE D == DOMAIN tree
           up(m) == LinkTo(tree, m).of
           ea(m) == EnclosingArm(tree, m)
<1>1. PICK Q \in SUBSET D : Spreads(tree, Q) /\ \A p \in Q : tree[p].type # "parallel"
  BY DEF Whole, Unnested
<1> DEFINE ok(m) == ea(m) # NoArm => /\ m \in Q /\ ea(m).of \in D
                                     /\ tree[ea(m).of].type = "parallel"
           T == {m \in D : ~ok(m)}
<1>2. ASSUME NEW m \in D
      PROVE  ea(m) = IF m = Start THEN NoArm
                     ELSE IF ArmLink(tree, m, "parallel") THEN LinkTo(tree, m) ELSE ea(up(m))
  BY ArmEquation
<1>3. ASSUME NEW m \in D \ {Start}
      PROVE  /\ up(m) \in D /\ LinkTo(tree, m).arm \in Places(tree, up(m))
             /\ Target(tree, up(m), LinkTo(tree, m).arm) = m
  BY LinkToFacts
<1>4. ASSUME NEW m \in D \ {Start}, up(m) \in Q \/ ArmLink(tree, m, "parallel")
      PROVE  m \in Q
  <2>1. m # Nil
    BY NodeFacts DEF Whole
  <2> DEFINE k == LinkTo(tree, m).arm
  <2>2. up(m) \in Q \/ (k # 0 /\ tree[up(m)].type = "parallel")
    BY <1>4 DEF ArmLink
  <2> HIDE DEF up, k
  <2> QED
    BY <1>1, <1>3, <2>1, <2>2 DEF Spreads, k
<1>5. \A m : ArmLink(tree, m, "parallel") => tree[up(m)].type = "parallel"
  BY DEF ArmLink
<1> HIDE DEF ea
<1>6. ASSUME T # {} PROVE FALSE
  <2>1. PICK m \in T : m = Start \/ up(m) \in D \ T
    <3>1. T \in SUBSET D
      OBVIOUS
    <3> HIDE DEF T
    <3> QED
      BY <3>1, <1>6, HighestNode
  <2>2. m \in D /\ ~ok(m)
    OBVIOUS
  <2>3. m # Start
    BY <2>2, <1>2
  <2>4. CASE ArmLink(tree, m, "parallel")
    BY <2>2, <2>3, <2>4, <1>2, <1>3, <1>4, <1>5
  <2>5. CASE ~ArmLink(tree, m, "parallel")
    <3>1. ea(m) = ea(up(m)) /\ ok(up(m))
      BY <2>1, <2>2, <2>3, <2>5, <1>2
    <3> QED
      BY <3>1, <2>2, <2>3, <1>4
  <2> QED
    BY <2>4, <2>5
<1>7. ok(n)
  BY <1>6
<1> QED
  BY <1>1, <1>7 DEF ea

\* What is outside the parallel arms stays outside when a branch around it is left.
LEMMA BranchStaysOut ==
  ASSUME NEW tree, Whole(tree), NEW n \in DOMAIN tree,
         EnclosingArm(tree, n) = NoArm, EnclosingBranch(tree, n) # Nil
  PROVE  EnclosingArm(tree, EnclosingBranch(tree, n)) = NoArm
<1> DEFINE D == DOMAIN tree
           up(m) == LinkTo(tree, m).of
           ea(m) == EnclosingArm(tree, m)
           eb(m) == EnclosingBranch(tree, m)
           ok(m) == ea(m) = NoArm /\ eb(m) # Nil => ea(eb(m)) = NoArm
           T == {m \in D : ~ok(m)}
<1>1. ASSUME NEW m \in D
      PROVE  ea(m) = IF m = Start THEN NoArm
                     ELSE IF ArmLink(tree, m, "parallel") THEN LinkTo(tree, m) ELSE ea(up(m))
  BY ArmEquation
<1>2. ASSUME NEW m \in D
      PROVE  eb(m) = IF m = Start THEN Nil
                     ELSE IF ArmLink(tree, m, "branch") THEN up(m) ELSE eb(up(m))
  BY BranchEquation
<1>3. ASSUME NEW m \in D \ {Start} PROVE LinkTo(tree, m) # NoArm
  <2>1. up(m) \in D
    BY LinkToFacts
  <2>2. up(m) # Nil
    BY <2>1, NodeFacts DEF Whole
  <2> QED
    BY <2>2 DEF NoArm
<1>4. \A m : ~(ArmLink(tree, m, "parallel") /\ ArmLink(tree, m, "branch"))
  BY DEF ArmLink
<1> HIDE DEF ea, eb
<1>5. ASSUME T # {} PROVE FALSE
  <2>1. PICK m \in T : m = Start \/ up(m) \in D \ T
    <3>1. T \in SUBSET D
      OBVIOUS
    <3> HIDE DEF T
    <3> QED
      BY <3>1, <1>5, HighestNode
  <2>2. m \in D /\ ~ok(m)
    OBVIOUS
  <2>3. m # Start
    BY <2>2, <1>2
  <2>4. ~ArmLink(tree, m, "parallel")
    BY <2>2, <2>3, <1>1, <1>3
  <2>5. ea(m) = ea(up(m)) /\ ok(up(m))
    BY <2>1, <2>2, <2>3, <2>4, <1>1
  <2>6. CASE ArmLink(tree, m, "branch")
    BY <2>2, <2>3, <2>5, <2>6, <1>2
  <2>7. CASE ~ArmLink(tree, m, "branch")
    BY <2>2, <2>3, <2>5, <2>7, <1>2
  <2> QED
    BY <2>6, <2>7
<1>6. ok(n)
  BY <1>5
<1> QED
  BY <1>6 DEF ea, eb

\* The successor of a node is in the same parallel arm.
LEMMA SuccessorFacts ==
  ASSUME NEW tree, Whole(tree), NEW n \in DOMAIN tree, tree[n].next # Nil
  PROVE  /\ tree[n].next \in DOMAIN tree
         /\ EnclosingArm(tree, tree[n].next) = EnclosingArm(tree, n)
<1> DEFINE t == tree[n].next
<1>1. 0 \in Places(tree, n) /\ Target(tree, n, 0) = t
  BY NodeFacts DEF Whole, Places, Target
<1>2. t \in DOMAIN tree /\ t # Start
  BY <1>1 DEF Whole, LeadsInside
<1> HIDE DEF t
<1>3. LinkTo(tree, t) = [of |-> n, arm |-> 0]
  BY <1>1, <1>2, LinkToFacts
<1>4. EnclosingArm(tree, t) = EnclosingArm(tree, LinkTo(tree, t).of)
  <2>1. ~ArmLink(tree, t, "parallel")
    BY <1>3 DEF ArmLink
  <2> QED
    BY <2>1, <1>2, ArmEquation
<1>5. EnclosingArm(tree, t) = EnclosingArm(tree, n)
  BY <1>3, <1>4
<1> QED
  BY <1>2, <1>5 DEF t

\* The search for the next node finds one of the tree, or none.
LEMMA MergeFacts ==
  ASSUME NEW tree, Whole(tree), NEW n \in DOMAIN tree, ResolveMergeTarget(tree, n) # Nil
  PROVE  /\ ResolveMergeTarget(tree, n) \in DOMAIN tree
         /\ EnclosingArm(tree, n) = NoArm
              => EnclosingArm(tree, ResolveMergeTarget(tree, n)) = NoArm
<1> DEFINE D == DOMAIN tree
           ea(m) == EnclosingArm(tree, m)
           eb(m) == EnclosingBranch(tree, m)
           out(m) == ResolveMergeTarget(tree, m)
           ok(m) == out(m) # Nil => out(m) \in D /\ (ea(m) = NoArm => ea(out(m)) = NoArm)
           T == {m \in D : ~ok(m)}
<1>1. PICK depth \in [D -> Nat] : \A m \in D : eb(m) # Nil => eb(m) \in D /\ depth[eb(m)] < depth[m]
  BY ClimbFacts
<1>2. ASSUME NEW m \in D
      PROVE  out(m) = IF tree[m].next # Nil THEN tree[m].next
                      ELSE IF eb(m) = Nil THEN Nil ELSE out(eb(m))
  BY MergeEquation
<1>3. ASSUME NEW m \in D, ea(m) = NoArm, eb(m) # Nil PROVE ea(eb(m)) = NoArm
  BY <1>3, BranchStaysOut
<1>4. ASSUME NEW m \in D, tree[m].next # Nil
      PROVE  tree[m].next \in D /\ ea(tree[m].next) = ea(m)
  BY <1>4, SuccessorFacts
<1> HIDE DEF ea, eb, out
<1>5. ASSUME T # {} PROVE FALSE
  <2>1. PICK m \in T : \A x \in T : depth[m] <= depth[x]
    <3>1. T \in SUBSET D
      OBVIOUS
    <3> HIDE DEF T
    <3> QED
      BY <3>1, <1>1, <1>5, LeastByMeasure
  <2>2. m \in D /\ ~ok(m)
    OBVIOUS
  <2>3. CASE tree[m].next # Nil
    BY <2>2, <2>3, <1>2, <1>4
  <2>4. CASE tree[m].next = Nil
    <3>1. eb(m) # Nil /\ out(m) = out(eb(m))
      BY <2>2, <2>4, <1>2
    <3>2. eb(m) \in D /\ depth[eb(m)] < depth[m] /\ depth[m] \in Nat /\ depth[eb(m)] \in Nat
      BY <1>1, <2>2, <3>1
    <3>3. ok(eb(m))
      BY <2>1, <3>2
    <3> QED
      BY <2>2, <3>1, <3>3, <1>3
  <2> QED
    BY <2>3, <2>4
<1>6. ok(n)
  BY <1>5
<1> QED
  BY <1>6 DEF ea, out

\* The engine goes where the drawing leads.
LEMMA EngineFollows ==
  ASSUME NEW tree, Whole(tree)
  PROVE  \A n \in DOMAIN tree : Transition(tree, n) = Continuation(tree, n)
<1> DEFINE D == DOMAIN tree
           ea(m) == EnclosingArm(tree, m)
           eb(m) == EnclosingBranch(tree, m)
           out(m) == ResolveMergeTarget(tree, m)
           hd(m) == HeadOf(tree)[m]
           of(m) == LinkTo(tree, hd(m)).of
           tr(m) == Transition(tree, m)
           co(m) == Continuation(tree, m)
           T == {m \in D : tr(m) # co(m)}
<1>1. PICK depth \in [D -> Nat] : \A m \in D : hd(m) # Start => of(m) \in D /\ depth[of(m)] < depth[m]
  BY ClimbFacts
<1>2. ASSUME NEW m \in D
      PROVE  /\ out(m) = IF tree[m].next # Nil THEN tree[m].next
                         ELSE IF eb(m) = Nil THEN Nil ELSE out(eb(m))
             /\ co(m) = IF tree[m].next # Nil THEN Enter(tree[m].next)
                        ELSE IF hd(m) = Start THEN Enter(Nil)
                        ELSE IF tree[of(m)].type = "parallel" THEN Join(of(m)) ELSE co(of(m))
  BY MergeEquation, ContinuationEquation
<1>3. ASSUME NEW m \in D
      PROVE  tr(m) = IF ea(m) # NoArm /\ (out(m) = Nil \/ ea(out(m)).of # ea(m).of)
                     THEN Join(ea(m).of) ELSE Enter(out(m))
  BY DEF Transition
<1>4. ASSUME NEW m \in D
      PROVE  /\ hd(m) \in D /\ (hd(m) = Start \/ LinkTo(tree, hd(m)).arm # 0)
             /\ ea(m) = ea(hd(m)) /\ eb(m) = eb(hd(m))
  BY HeadFacts
<1>5. ASSUME NEW m \in D
      PROVE  /\ ea(m) = IF m = Start THEN NoArm
                        ELSE IF ArmLink(tree, m, "parallel") THEN LinkTo(tree, m)
                        ELSE ea(LinkTo(tree, m).of)
             /\ eb(m) = IF m = Start THEN Nil
                        ELSE IF ArmLink(tree, m, "branch") THEN LinkTo(tree, m).of
                        ELSE eb(LinkTo(tree, m).of)
  BY ArmEquation, BranchEquation
<1>6. ASSUME NEW m \in D
      PROVE  /\ tree[m].type = "parallel" => ea(m) = NoArm
             /\ ea(m) = NoArm /\ eb(m) # Nil => ea(eb(m)) = NoArm
             /\ out(m) # Nil => out(m) \in D /\ (ea(m) = NoArm => ea(out(m)) = NoArm)
             /\ tree[m].next # Nil => tree[m].next \in D /\ ea(tree[m].next) = ea(m)
             /\ eb(m) # Nil => eb(m) \in D
             /\ m # Nil
  <2>1. eb(m) # Nil => eb(m) \in D
    BY ClimbFacts
  <2>2. m # Nil
    BY NodeFacts DEF Whole
  <2>3. tree[m].next # Nil => tree[m].next \in D /\ ea(tree[m].next) = ea(m)
    BY SuccessorFacts
  <2>4. out(m) # Nil => out(m) \in D /\ (ea(m) = NoArm => ea(out(m)) = NoArm)
    BY MergeFacts
  <2>5. ea(m) = NoArm /\ eb(m) # Nil => ea(eb(m)) = NoArm
    BY BranchStaysOut
  <2>6. tree[m].type = "parallel" => ea(m) = NoArm
    BY ArmFacts
  <2> QED
    BY <2>1, <2>2, <2>3, <2>4, <2>5, <2>6
<1>7. ASSUME NEW m \in D, hd(m) # Start
      PROVE  /\ of(m) \in D
             /\ \/ tree[of(m)].type = "parallel" /\ ArmLink(tree, hd(m), "parallel")
                \/ tree[of(m)].type = "branch" /\ ArmLink(tree, hd(m), "branch")
  <2> DEFINE l == LinkTo(tree, hd(m))
  <2>1. l.of \in D /\ l.arm \in Places(tree, l.of) /\ l.arm # 0
    BY <1>4, <1>7, LinkToFacts
  <2>2. Len(tree[l.of].arms) # 0
    <3>1. Len(tree[l.of].arms) \in Nat
      BY <2>1, NodeFacts DEF Whole
    <3> QED
      BY <2>1, <3>1 DEF Places
  <2>3. tree[l.of].type \in {"branch", "parallel"}
    BY <2>1, <2>2 DEF Whole, ArmsShaped
  <2> QED
    BY <2>1, <2>3 DEF ArmLink
<1>8. \A m : ~(ArmLink(tree, m, "parallel") /\ ArmLink(tree, m, "branch"))
  BY DEF ArmLink
<1>9. NoArm.of = Nil
  BY DEF NoArm
<1> HIDE DEF ea, eb, out, hd, tr, co
<1>10. ASSUME NEW m \in D, \A x \in D : depth[x] < depth[m] => tr(x) = co(x)
       PROVE  tr(m) = co(m)
  <2>1. CASE tree[m].next # Nil
    <3>1. out(m) = tree[m].next /\ ea(out(m)) = ea(m) /\ out(m) # Nil
      BY <2>1, <1>2, <1>6
    <3> QED
      BY <2>1, <3>1, <1>2, <1>3
  <2>2. CASE tree[m].next = Nil /\ hd(m) = Start
    <3>1. ea(m) = NoArm /\ eb(m) = Nil
      BY <2>2, <1>4, <1>5
    <3>2. out(m) = Nil
      BY <2>2, <3>1, <1>2
    <3> QED
      BY <2>2, <3>1, <3>2, <1>2, <1>3
  <2>3. CASE tree[m].next = Nil /\ hd(m) # Start /\ ArmLink(tree, hd(m), "parallel")
    <3> DEFINE p == of(m)
    <3>1. p \in D /\ tree[p].type = "parallel" /\ p # Nil
      BY <2>3, <1>6, <1>7, <1>8
    <3>2. ea(m) = LinkTo(tree, hd(m)) /\ ea(m).of = p
      BY <2>3, <1>4, <1>5
    <3>3. eb(m) = eb(p)
      BY <2>3, <1>4, <1>5, <1>8
    <3>4. ea(p) = NoArm
      BY <3>1, <1>6
    <3>5. ea(m) # NoArm
      BY <3>1, <3>2, <1>9
    <3>6. out(m) # Nil => ea(out(m)) = NoArm
      <4> SUFFICES ASSUME out(m) # Nil PROVE ea(out(m)) = NoArm
        OBVIOUS
      <4>1. eb(p) # Nil /\ out(m) = out(eb(p))
        BY <2>3, <3>3, <1>2
      <4>2. eb(p) \in D /\ ea(eb(p)) = NoArm
        BY <3>1, <3>4, <4>1, <1>6
      <4> QED
        BY <4>1, <4>2, <1>6
    <3>7. tr(m) = Join(p)
      <4>1. out(m) = Nil \/ ea(out(m)).of # p
        BY <3>1, <3>6, <1>9
      <4> HIDE DEF p
      <4> QED
        BY <3>2, <3>5, <4>1, <1>3
    <3>8. co(m) = Join(p)
      BY <2>3, <3>1, <1>2
    <3> QED
      BY <3>7, <3>8
  <2>4. CASE tree[m].next = Nil /\ hd(m) # Start /\ ArmLink(tree, hd(m), "branch")
    <3> DEFINE p == of(m)
    <3>1. p \in D /\ tree[p].type = "branch" /\ p # Nil
      BY <2>4, <1>6, <1>7, <1>8
    <3>2. ea(m) = ea(p) /\ eb(m) = p
      BY <2>4, <1>4, <1>5, <1>8
    <3>3. out(m) = out(p)
      BY <2>4, <3>1, <3>2, <1>2
    <3>4. tr(m) = tr(p)
      <4> HIDE DEF p
      <4> QED
        BY <3>1, <3>2, <3>3, <1>3
    <3>5. co(m) = co(p)
      BY <2>4, <3>1, <1>2
    <3>6. tr(p) = co(p)
      BY <2>4, <3>1, <1>1, <1>10
    <3> QED
      BY <3>4, <3>5, <3>6
  <2> QED
    BY <2>1, <2>2, <2>3, <2>4, <1>7
<1>11. ASSUME T # {} PROVE FALSE
  <2>1. PICK m \in T : \A x \in T : depth[m] <= depth[x]
    <3>1. T \in SUBSET D
      OBVIOUS
    <3> HIDE DEF T
    <3> QED
      BY <3>1, <1>1, <1>11, LeastByMeasure
  <2>2. ASSUME NEW x \in D, depth[x] < depth[m] PROVE tr(x) = co(x)
    <3>1. depth[x] \in Nat /\ depth[m] \in Nat
      BY <1>1
    <3>2. x \notin T
      BY <2>1, <2>2, <3>1
    <3> QED
      BY <3>2
  <2>3. m \in D /\ tr(m) # co(m)
    OBVIOUS
  <2> QED
    BY <2>2, <2>3, <1>10
<1>12. \A m \in D : tr(m) = co(m)
  BY <1>11
<1> QED
  BY <1>12 DEF tr, co

------------------------------------------------------------------------------
\* Everything is reached from the start, by one way.
LEMMA WholeIsReached ==
  ASSUME NEW tree, Whole(tree)
  PROVE  /\ Walk(tree, Start) = DOMAIN tree
         /\ \A n \in DOMAIN tree \ {Start} :
              Cardinality({l \in [of : DOMAIN tree, arm : 0..WfMaxArms] :
                 IF l.arm = 0 THEN tree[l.of].next = n
                 ELSE l.arm \in DOMAIN tree[l.of].arms /\ tree[l.of].arms[l.arm].next = n}) = 1
<1> DEFINE D == DOMAIN tree
           W == Walk(tree, Start)
           T == D \ W
<1>1. Start \in W /\ W \subseteq D /\ ClosedIn(tree, W)
  BY WalkFacts DEF Whole
<1>2. ASSUME T # {} PROVE FALSE
  <2>1. PICK n \in T : n = Start \/ LinkTo(tree, n).of \in D \ T
    <3>1. T \in SUBSET D
      OBVIOUS
    <3> HIDE DEF T
    <3> QED
      BY <3>1, <1>2, HighestNode
  <2>2. n \in D \ {Start} /\ n \notin W
    BY <1>1, <2>1
  <2> DEFINE l == LinkTo(tree, n)
  <2>3. l.of \in W /\ l.of \in D
    BY <2>1, <2>2
  <2>4. l.arm \in Places(tree, l.of) /\ Target(tree, l.of, l.arm) = n
    BY <2>2, LinkToFacts
  <2>5. n # Nil /\ Typed(tree)
    BY <2>2, NodeFacts DEF Whole
  <2> HIDE DEF l, W
  <2>6. n \in Links(tree, l.of)
    BY <2>3, <2>4, <2>5, LinksAreTargets
  <2> QED
    BY <1>1, <2>2, <2>3, <2>5, <2>6 DEF ClosedIn
<1>3. ASSUME NEW n \in D \ {Start}
      PROVE  Cardinality({l \in [of : D, arm : 0..WfMaxArms] :
                 IF l.arm = 0 THEN tree[l.of].next = n
                 ELSE l.arm \in DOMAIN tree[l.of].arms /\ tree[l.of].arms[l.arm].next = n}) = 1
  <2> DEFINE L == [of : D, arm : 0..WfMaxArms]
             ok(l) == IF l.arm = 0 THEN tree[l.of].next = n
                      ELSE l.arm \in DOMAIN tree[l.of].arms /\ tree[l.of].arms[l.arm].next = n
             k == LinkTo(tree, n)
  <2>1. /\ k.of \in D /\ k.arm \in Places(tree, k.of) /\ Target(tree, k.of, k.arm) = n
        /\ \A m \in D : \A j \in Places(tree, m) :
             Target(tree, m, j) = n => k = [of |-> m, arm |-> j]
    BY LinkToFacts
  <2>2. ASSUME NEW m \in D
        PROVE  /\ Len(tree[m].arms) \in Nat /\ Len(tree[m].arms) <= WfMaxArms
               /\ DOMAIN tree[m].arms = 1..Len(tree[m].arms)
    BY NodeFacts DEF Whole, ArmsShaped
  <2>3. ASSUME NEW l \in L, ok(l) PROVE l = k
    <3>1. l.of \in D /\ l.arm \in 0..WfMaxArms /\ l = [of |-> l.of, arm |-> l.arm]
      OBVIOUS
    <3>2. l.arm \in Places(tree, l.of)
      BY <2>2, <2>3, <3>1 DEF Places
    <3>3. Target(tree, l.of, l.arm) = n
      BY <2>3 DEF Target
    <3> HIDE DEF k
    <3> QED
      BY <2>1, <3>1, <3>2, <3>3
  <2>4. k \in L /\ ok(k)
    <3>1. k = [of |-> k.of, arm |-> k.arm]
      BY <2>1
    <3> HIDE DEF k
    <3>2. k.arm \in 0..WfMaxArms /\ (k.arm # 0 => k.arm \in DOMAIN tree[k.of].arms)
      BY <2>1, <2>2, WfAssumption DEF Places
    <3>3. ok(k)
      BY <2>1, <3>2 DEF Target
    <3> QED
      BY <2>1, <3>1, <3>2, <3>3
  <2>5. {l \in L : ok(l)} = {k}
    <3> HIDE DEF L, ok, k
    <3> QED
      BY <2>3, <2>4
  <2>6. Cardinality({k}) = 1
    <3> HIDE DEF k
    <3> QED
      BY FS_Singleton
  <2> QED
    BY <2>5, <2>6
<1> QED
  BY <1>1, <1>2, <1>3

\* Nothing in the arms of a parallel node is a parallel node.
LEMMA InsideParallel ==
  ASSUME NEW tree, Whole(tree), NEW p \in DOMAIN tree, tree[p].type = "parallel"
  PROVE  \A n \in Inside(tree, p) : n \in DOMAIN tree /\ tree[n].type # "parallel"
<1>1. PICK Q \in SUBSET DOMAIN tree : Spreads(tree, Q) /\ \A q \in Q : tree[q].type # "parallel"
  BY DEF Whole, Unnested
<1>2. Typed(tree) /\ LeadsInside(tree) /\ Ranked(tree)
  BY DEF Whole
<1>3. ClosedIn(tree, Q)
  <2> SUFFICES ASSUME NEW n \in Q, NEW m \in Links(tree, n) \ {Nil} PROVE m \in Q
    BY DEF ClosedIn
  <2>1. PICK k \in Places(tree, n) : m = Target(tree, n, k)
    BY <1>2, LinksAreTargets
  <2> QED
    BY <1>1, <2>1 DEF Spreads
<1>4. ASSUME NEW a \in Range(tree[p].arms), NEW n \in Walk(tree, a.next)
      PROVE  n \in Q
  <2>1. PICK k \in 1..Len(tree[p].arms) : a = tree[p].arms[k]
    BY <1>2, NodeFacts DEF Range
  <2>2. a.next # Nil
    BY <1>4 DEF Walk
  <2>3. k \in Places(tree, p) /\ k # 0 /\ Target(tree, p, k) = a.next
    BY <1>2, <2>1, NodeFacts DEF Places, Target
  <2>4. a.next \in Q
    BY <1>1, <2>2, <2>3 DEF Spreads
  <2>5. a.next \in DOMAIN tree
    BY <2>4, <1>1
  <2>6. Walk(tree, a.next) \subseteq Q
    BY <1>2, <1>3, <2>4, <2>5, WalkFacts
  <2> QED
    BY <2>6, <1>4
<1> QED
  BY <1>1, <1>4 DEF Inside

\* The default arm of a branch is one, and the last.
LEMMA DefaultIsLast ==
  ASSUME NEW tree, Whole(tree), NEW n \in DOMAIN tree, tree[n].type = "branch"
  PROVE  Defaults(tree, n) = 1 /\ Last(tree[n].arms).dflt
<1> DEFINE l == Len(tree[n].arms)
<1>1. l \in Nat /\ l > 0 /\ DOMAIN tree[n].arms = 1..l /\ \A k \in 1..l : tree[n].arms[k].dflt <=> k = l
  BY NodeFacts DEF Whole, ArmsShaped
<1>2. {k \in DOMAIN tree[n].arms : tree[n].arms[k].dflt} = {l}
  <2> HIDE DEF l
  <2> QED
    BY <1>1
<1>3. Cardinality({l}) = 1
  BY FS_Singleton
<1>4. tree[n].arms[l].dflt
  BY <1>1
<1> QED
  BY <1>2, <1>3, <1>4 DEF Defaults, Last

\* The two validations agree on a tree, but for what only the server looks at.
LEMMA ValidationsAgree ==
  ASSUME NEW tree, Whole(tree)
  PROVE  /\ FrontIssues(tree) = {} => BackReasons(tree) \subseteq BackOnly
         /\ BackReasons(tree) = {} => FrontIssues(tree) = {}
<1> DEFINE par == OfType(tree, {"parallel"})
           outside == \E n \in DOMAIN tree : /\ tree[n].reject \in DOMAIN tree
                                             /\ EnclosingArm(tree, n) # EnclosingArm(tree, tree[n].reject)
           noReject == \E n \in DOMAIN tree : Dangling(tree, tree[n].reject)
           noReturn == \E n \in DOMAIN tree : Dangling(tree, tree[n].back)
           noUser == \E n \in DOMAIN tree : tree[n].late
<1>1. ~ \E n \in par : EnclosingArm(tree, n) # NoArm
  BY ArmFacts DEF OfType
<1>2. ~ \E p, n \in par : n \in Inside(tree, p)
  BY InsideParallel DEF OfType
<1>3. FrontIssues(tree) = CommonIssues(tree) \cup {c \in {"rejectTargetOutsideArm"} : outside}
  BY <1>1 DEF FrontIssues
<1>4. BackReasons(tree) = CommonIssues(tree) \cup {c \in {"rejectToNodeIdInvalid"} : noReject}
                            \cup {c \in {"returnToNodeIdInvalid"} : noReturn}
                            \cup {c \in {"timeoutTransferUserIdInvalid"} : noUser}
                            \cup {c \in {"rejectToNodeOutsideParallelArm"} : outside}
  <2> DEFINE nested == \E p, n \in par : n \in Inside(tree, p)
  <2>1. ~nested
    BY <1>2
  <2>2. BackReasons(tree) = CommonIssues(tree) \cup
          {c \in BackOnly \cup {"nestedParallel", "rejectToNodeOutsideParallelArm"} :
             CASE c = "nestedParallel" -> nested
               [] c = "rejectToNodeIdInvalid" -> noReject
               [] c = "returnToNodeIdInvalid" -> noReturn
               [] c = "timeoutTransferUserIdInvalid" -> noUser
               [] c = "rejectToNodeOutsideParallelArm" -> outside}
    BY DEF BackReasons
  <2> HIDE DEF nested, noReject, noReturn, noUser, outside
  <2> QED
    BY <2>1, <2>2 DEF BackOnly
<1> HIDE DEF outside, noReject, noReturn, noUser
<1> QED
  BY <1>3, <1>4 DEF BackOnly

------------------------------------------------------------------------------
\* The arms and the type of a node, without where they lead and what is set.
SameNode(tree, new, n) ==
  /\ new[n].type = tree[n].type /\ Len(new[n].arms) = Len(tree[n].arms)
  /\ \A k \in 1..Len(tree[n].arms) : new[n].arms[k].dflt = tree[n].arms[k].dflt

SameShape(tree, new) ==
  /\ Typed(new) /\ DOMAIN new = DOMAIN tree
  /\ \A n \in DOMAIN tree :
       SameNode(tree, new, n) /\ \A k \in Places(tree, n) : Target(new, n, k) = Target(tree, n, k)

LEMMA SameShapeIsWhole ==
  ASSUME NEW tree, Whole(tree), NEW new, SameShape(tree, new)
  PROVE  Whole(new)
<1> DEFINE D == DOMAIN tree
<1>1. DOMAIN new = D /\ Typed(new)
  BY DEF SameShape
<1>2. ASSUME NEW n \in D
      PROVE  /\ Places(new, n) = Places(tree, n) /\ new[n].type = tree[n].type
             /\ \A k \in Places(tree, n) : Target(new, n, k) = Target(tree, n, k)
  BY DEF SameShape, SameNode, Places
<1>3. LeadsInside(new)
  BY <1>1, <1>2 DEF LeadsInside, Whole
<1>4. OneWay(new)
  BY <1>1, <1>2 DEF OneWay, Whole
<1>5. Reached(new)
  BY <1>1, <1>2 DEF Reached, Whole
<1>6. Ranked(new)
  <2>1. PICK b \in Nat : \E depth \in [D -> 0..b] : Deepens(tree, depth)
    BY DEF Whole, Ranked
  <2>2. PICK depth \in [D -> 0..b] : Deepens(tree, depth)
    BY <2>1
  <2>3. Deepens(new, depth)
    BY <1>1, <1>2, <2>2 DEF Deepens
  <2> QED
    BY <1>1, <2>2, <2>3 DEF Ranked
<1>7. ArmsShaped(new)
  <2> SUFFICES ASSUME NEW n \in D
               PROVE  /\ Len(new[n].arms) <= WfMaxArms
                      /\ new[n].type \notin {"branch", "parallel"} => Len(new[n].arms) = 0
                      /\ new[n].type = "branch" =>
                           /\ Len(new[n].arms) > 0
                           /\ \A k \in 1..Len(new[n].arms) : new[n].arms[k].dflt <=> k = Len(new[n].arms)
    BY <1>1 DEF ArmsShaped
  <2>1. SameNode(tree, new, n)
    BY DEF SameShape
  <2> QED
    BY <2>1 DEF Whole, ArmsShaped, SameNode
<1>8. Unnested(new)
  <2>1. PICK Q \in SUBSET D : Spreads(tree, Q) /\ \A p \in Q : tree[p].type # "parallel"
    BY DEF Whole, Unnested
  <2>2. Spreads(new, Q)
    BY <1>1, <1>2, <2>1 DEF Spreads
  <2> QED
    BY <1>1, <1>2, <2>1, <2>2 DEF Unnested
<1> QED
  BY <1>1, <1>3, <1>4, <1>5, <1>6, <1>7, <1>8 DEF Whole

------------------------------------------------------------------------------
\* What a walk visits after its start is linked from what it visits, and deeper.
LEMMA WalkIsLinked ==
  ASSUME NEW tree, Typed(tree), LeadsInside(tree), Ranked(tree), NEW first \in DOMAIN tree,
         NEW depth, \A n \in DOMAIN tree : depth[n] \in Nat, Deepens(tree, depth)
  PROVE  \A y \in Walk(tree, first) \ {first} :
           /\ \E m \in Walk(tree, first) : y \in Links(tree, m)
           /\ depth[first] < depth[y]
<1> DEFINE W == Walk(tree, first)
           X == {first} \cup {y \in W : (\E m \in W : y \in Links(tree, m)) /\ depth[first] < depth[y]}
<1>1. first \in W /\ W \subseteq DOMAIN tree /\ ClosedIn(tree, W)
  BY WalkFacts
<1> HIDE DEF W
<1>2. ClosedIn(tree, X)
  <2> SUFFICES ASSUME NEW m \in X, NEW y \in Links(tree, m) \ {Nil} PROVE y \in X
    BY DEF ClosedIn
  <2>1. m \in W /\ m \in DOMAIN tree /\ (m = first \/ depth[first] < depth[m])
    BY <1>1
  <2>2. y \in W /\ \E n \in W : y \in Links(tree, n)
    BY <1>1, <2>1 DEF ClosedIn
  <2>3. y \in DOMAIN tree /\ depth[m] < depth[y]
    BY <2>1, LinkDeepens
  <2>4. depth[first] < depth[y]
    <3>1. depth[first] \in Nat /\ depth[m] \in Nat /\ depth[y] \in Nat
      BY <2>1, <2>3
    <3> QED
      BY <2>1, <2>3, <3>1
  <2> QED
    BY <2>2, <2>4
<1>3. W \subseteq X
  <2>1. first \in X /\ X \subseteq DOMAIN tree
    BY <1>1
  <2> HIDE DEF X
  <2> QED
    BY <1>2, <2>1, WalkFacts DEF W
<1> QED
  BY <1>3 DEF W

\* The depths of a tree.
LEMMA RankedFacts ==
  ASSUME NEW tree, Ranked(tree)
  PROVE  \E depth \in [DOMAIN tree -> Nat] :
           Deepens(tree, depth) /\ \A n \in DOMAIN tree : depth[n] \in Nat
<1>1. PICK b \in Nat : \E depth \in [DOMAIN tree -> 0..b] : Deepens(tree, depth)
  BY DEF Ranked
<1>2. PICK depth \in [DOMAIN tree -> 0..b] : Deepens(tree, depth)
  BY <1>1
<1>3. 0..b \subseteq Nat
  OBVIOUS
<1>4. depth \in [DOMAIN tree -> Nat]
  BY <1>2, <1>3
<1> QED
  BY <1>2, <1>4

\* What is closed, and linked from itself up to the start, is what a walk from there visits.
LEMMA WalkIsAll ==
  ASSUME NEW tree, Typed(tree), LeadsInside(tree), Ranked(tree), Start \in DOMAIN tree,
         NEW X \in SUBSET DOMAIN tree, Start \in X, ClosedIn(tree, X),
         \A y \in X \ {Start} : \E m \in X : y \in Links(tree, m)
  PROVE  Walk(tree, Start) = X
<1>1. Start \in Walk(tree, Start) /\ ClosedIn(tree, Walk(tree, Start)) /\ Walk(tree, Start) \subseteq X
  BY WalkFacts
<1>2. PICK depth \in [DOMAIN tree -> Nat] : Deepens(tree, depth)
  BY RankedFacts
<1> DEFINE T == X \ Walk(tree, Start)
<1>3. ASSUME T # {} PROVE FALSE
  <2>1. PICK y \in T : \A z \in T : depth[y] <= depth[z]
    <3>1. T \in SUBSET DOMAIN tree
      OBVIOUS
    <3> HIDE DEF T
    <3> QED
      BY <3>1, <1>2, <1>3, LeastByMeasure
  <2>2. y \in X \ {Start} /\ y \notin Walk(tree, Start) /\ y # Nil
    BY <1>1, <2>1, NodeFacts
  <2>3. PICK m \in X : y \in Links(tree, m)
    BY <2>2
  <2>4. depth[m] < depth[y]
    BY <2>2, <2>3, <1>2, LinkDeepens
  <2>5. m \notin T
    <3>1. depth[m] \in Nat /\ depth[y] \in Nat
      BY <1>2, <2>2
    <3> QED
      BY <2>1, <2>4, <3>1
  <2> QED
    BY <1>1, <2>2, <2>3, <2>5 DEF ClosedIn
<1> QED
  BY <1>1, <1>3

\* The links of a part of a tree, from the nodes of the part only.
OneWayIn(tree, X) ==
  \A m, n \in X : \A j \in Places(tree, m) : \A k \in Places(tree, n) :
    Target(tree, m, j) = Target(tree, n, k) /\ Target(tree, m, j) # Nil => m = n /\ j = k

\* Serialising from the root makes a tree.
LEMMA CloneIsWhole ==
  ASSUME NEW tree, Typed(tree), LeadsInside(tree), Ranked(tree), Start \in DOMAIN tree,
         ArmsShaped(tree), Unnested(tree), OneWayIn(tree, Walk(tree, Start))
  PROVE  Whole(Clone(tree))
<1> DEFINE D == DOMAIN tree
           X == Walk(tree, Start)
           new == Clone(tree)
<1>1. Start \in X /\ X \subseteq D /\ ClosedIn(tree, X)
  BY WalkFacts
<1>2. DOMAIN new = X /\ \A n \in X : new[n] = tree[n]
  BY DEF Clone
<1>3. ASSUME NEW n \in X
      PROVE  /\ n \in D /\ Places(new, n) = Places(tree, n)
             /\ \A k : Target(new, n, k) = Target(tree, n, k)
  BY <1>1, <1>2 DEF Places, Target
<1> HIDE DEF X, new
<1>4. Typed(new)
  <2>1. X \in SUBSET NodeIds /\ \A n \in X : new[n] \in NodeRec
    BY <1>1, <1>2 DEF Typed
  <2>2. new = [n \in X |-> new[n]]
    BY DEF Clone, new, X
  <2> QED
    BY <1>2, <2>1, <2>2 DEF Typed
<1>5. LeadsInside(new)
  <2> SUFFICES ASSUME NEW n \in X, NEW k \in Places(tree, n), Target(tree, n, k) # Nil
               PROVE  Target(tree, n, k) \in X \ {Start}
    BY <1>2, <1>3 DEF LeadsInside
  <2>1. Target(tree, n, k) \in Links(tree, n)
    BY <1>3, LinksAreTargets
  <2> QED
    BY <1>1, <1>3, <2>1 DEF ClosedIn, LeadsInside
<1>6. OneWay(new)
  BY <1>2, <1>3 DEF OneWay, OneWayIn, X
<1>7. Reached(new)
  <2>1. PICK depth \in [D -> Nat] : Deepens(tree, depth) /\ \A n \in D : depth[n] \in Nat
    BY RankedFacts
  <2> SUFFICES ASSUME NEW n \in X \ {Start}
               PROVE  \E m \in X : \E j \in Places(tree, m) : Target(tree, m, j) = n
    BY <1>2, <1>3 DEF Reached
  <2>2. PICK m \in X : n \in Links(tree, m)
    BY <2>1, WalkIsLinked DEF X
  <2> QED
    BY <1>3, <2>2, LinksAreTargets
<1>8. Ranked(new)
  <2>1. PICK b \in Nat : \E depth \in [D -> 0..b] : Deepens(tree, depth)
    BY DEF Ranked
  <2>2. PICK depth \in [D -> 0..b] : Deepens(tree, depth)
    BY <2>1
  <2> DEFINE less == [n \in X |-> depth[n]]
  <2>3. less \in [X -> 0..b]
    BY <1>1, <2>2
  <2>4. Deepens(new, less)
    <3> SUFFICES ASSUME NEW n \in X, NEW k \in Places(tree, n), Target(tree, n, k) # Nil
                 PROVE  less[n] < less[Target(tree, n, k)]
      BY <1>2, <1>3 DEF Deepens
    <3>1. Target(tree, n, k) \in X
      BY <1>2, <1>3, <1>5 DEF LeadsInside
    <3>2. depth[n] < depth[Target(tree, n, k)]
      BY <1>3, <2>2 DEF Deepens
    <3> QED
      BY <3>1, <3>2
  <2> HIDE DEF less
  <2> QED
    BY <1>2, <2>3, <2>4 DEF Ranked
<1>9. ArmsShaped(new)
  <2>1. \A n \in X : n \in D /\ new[n] = tree[n]
    BY <1>2, <1>3
  <2> QED
    BY <1>2, <2>1 DEF ArmsShaped
<1>10. Unnested(new)
  <2>1. PICK Q \in SUBSET D : Spreads(tree, Q) /\ \A p \in Q : tree[p].type # "parallel"
    BY DEF Unnested
  <2>2. Spreads(new, Q \cap X)
    <3> SUFFICES ASSUME NEW n \in X, NEW k \in Places(tree, n), Target(tree, n, k) # Nil,
                        n \in Q \/ (k # 0 /\ tree[n].type = "parallel")
                 PROVE  Target(tree, n, k) \in Q \cap X
      BY <1>2, <1>3 DEF Spreads
    <3>1. Target(tree, n, k) \in X
      BY <1>2, <1>3, <1>5 DEF LeadsInside
    <3>2. Target(tree, n, k) \in Q
      BY <1>3, <2>1 DEF Spreads
    <3> QED
      BY <3>1, <3>2
  <2>3. \A p \in Q \cap X : new[p].type # "parallel"
    BY <1>2, <2>1
  <2> QED
    BY <1>2, <2>2, <2>3 DEF Unnested
<1> QED
  BY <1>1, <1>2, <1>4, <1>5, <1>6, <1>7, <1>8, <1>9, <1>10 DEF Whole, new

------------------------------------------------------------------------------
\* What lies in parallel arms is what has one around it.
InArms(tree) == {n \in DOMAIN tree : EnclosingArm(tree, n) # NoArm}

LEMMA InArmsSpreads ==
  ASSUME NEW tree, Whole(tree)
  PROVE  /\ Spreads(tree, InArms(tree))
         /\ \A p \in InArms(tree) : p \in DOMAIN tree /\ tree[p].type # "parallel"
<1> DEFINE D == DOMAIN tree
<1>1. ASSUME NEW n \in D, NEW k \in Places(tree, n), Target(tree, n, k) # Nil,
             n \in InArms(tree) \/ (k # 0 /\ tree[n].type = "parallel")
      PROVE  Target(tree, n, k) \in InArms(tree)
  <2> DEFINE z == Target(tree, n, k)
  <2>1. z \in D \ {Start}
    BY <1>1 DEF Whole, LeadsInside
  <2> HIDE DEF z
  <2>2. LinkTo(tree, z) = [of |-> n, arm |-> k]
    BY <2>1, LinkToFacts DEF z
  <2>3. EnclosingArm(tree, z) = IF ArmLink(tree, z, "parallel") THEN LinkTo(tree, z)
                                ELSE EnclosingArm(tree, LinkTo(tree, z).of)
    BY <2>1, ArmEquation
  <2>4. CASE ArmLink(tree, z, "parallel")
    <3>1. n # Nil
      BY NodeFacts DEF Whole
    <3>2. LinkTo(tree, z) # NoArm
      BY <2>2, <3>1 DEF NoArm
    <3>3. EnclosingArm(tree, z) # NoArm
      BY <2>3, <2>4, <3>2
    <3> QED
      BY <2>1, <3>3 DEF InArms, z
  <2>5. CASE ~ArmLink(tree, z, "parallel")
    <3>1. n \in InArms(tree)
      BY <1>1, <2>2, <2>5 DEF ArmLink
    <3>2. EnclosingArm(tree, z) = EnclosingArm(tree, n)
      BY <2>2, <2>3, <2>5
    <3> QED
      BY <2>1, <3>1, <3>2 DEF InArms, z
  <2> QED
    BY <2>4, <2>5
<1>2. Spreads(tree, InArms(tree))
  BY <1>1 DEF Spreads
<1>3. ASSUME NEW p \in InArms(tree) PROVE p \in D /\ tree[p].type # "parallel"
  BY ArmFacts DEF InArms
<1> QED
  BY <1>2, <1>3

\* The new tree has a node x more, between a place and where it led.
Inserted(tree, new, owner, k, x, type) ==
  /\ Typed(new) /\ DOMAIN new = DOMAIN tree \cup {x}
  /\ \A n \in DOMAIN tree :
       /\ SameNode(tree, new, n)
       /\ \A j \in Places(tree, n) :
            Target(new, n, j) = IF n = owner /\ j = k THEN x ELSE Target(tree, n, j)
  /\ new[x].type = type /\ Target(new, x, 0) = Target(tree, owner, k)
  /\ Len(new[x].arms) = (IF type \in {"branch", "parallel"} THEN 2 ELSE 0)
  /\ \A j \in 1..Len(new[x].arms) :
       Target(new, x, j) = Nil /\ (type = "branch" => (new[x].arms[j].dflt <=> j = 2))

LEMMA InsertIsWhole ==
  ASSUME NEW tree, Whole(tree), NEW new, NEW owner \in DOMAIN tree, NEW k \in Places(tree, owner),
         NEW x, x \notin DOMAIN tree, x \in NodeIds, NEW type,
         Inserted(tree, new, owner, k, x, type),
         type = "parallel" => AllowParallel(tree, owner, k)
  PROVE  Whole(new)
<1> DEFINE D == DOMAIN tree
           t == Target(tree, owner, k)
<1>1. Typed(new) /\ DOMAIN new = D \cup {x} /\ Typed(tree) /\ Start \in D
  BY DEF Inserted, Whole
<1>2. ASSUME NEW n \in D
      PROVE  /\ n # x /\ n # Nil /\ new[n].type = tree[n].type /\ Places(new, n) = Places(tree, n)
             /\ Len(new[n].arms) = Len(tree[n].arms) /\ Len(tree[n].arms) \in Nat
             /\ \A j \in Places(tree, n) :
                  Target(new, n, j) = IF n = owner /\ j = k THEN x ELSE Target(tree, n, j)
             /\ \A j \in 1..Len(tree[n].arms) : new[n].arms[j].dflt = tree[n].arms[j].dflt
  <2>1. SameNode(tree, new, n)
    BY DEF Inserted
  <2>2. n # Nil /\ Len(tree[n].arms) \in Nat
    BY <1>1, NodeFacts
  <2> QED
    BY <2>1, <2>2 DEF Inserted, SameNode, Places
<1>3. /\ x # Start /\ x # Nil /\ new[x].type = type /\ Target(new, x, 0) = t
      /\ Len(new[x].arms) \in {0, 2} /\ Places(new, x) = 0..Len(new[x].arms)
      /\ Len(new[x].arms) # 0 <=> type \in {"branch", "parallel"}
      /\ \A j \in Places(new, x) : j # 0 => Target(new, x, j) = Nil
      /\ \A j \in 1..Len(new[x].arms) : type = "branch" => (new[x].arms[j].dflt <=> j = 2)
  <2>1. x # Start /\ x # Nil
    BY <1>1, IdFacts
  <2>2. Len(new[x].arms) \in {0, 2} /\ (Len(new[x].arms) # 0 <=> type \in {"branch", "parallel"})
    BY DEF Inserted
  <2>3. \A j \in 0..Len(new[x].arms) : j # 0 => j \in 1..Len(new[x].arms)
    BY <2>2
  <2> QED
    BY <2>1, <2>2, <2>3 DEF Inserted, Places
<1>3a. /\ new[x].type = type /\ (Len(new[x].arms) = 0 \/ Len(new[x].arms) = 2)
       /\ type \notin {"branch", "parallel"} => Len(new[x].arms) = 0
  BY DEF Inserted
<1>4. ASSUME NEW n \in D, NEW j \in Places(tree, n), Target(tree, n, j) # Nil
      PROVE  Target(tree, n, j) \in D \ {Start}
  BY <1>4 DEF Whole, LeadsInside
<1>5. 0 \in Places(new, x)
  BY <1>3
<1> HIDE DEF t
<1>6. LeadsInside(new)
  <2> SUFFICES ASSUME NEW n \in D \cup {x}, NEW j \in Places(new, n), Target(new, n, j) # Nil
               PROVE  Target(new, n, j) \in (D \cup {x}) \ {Start}
    BY <1>1 DEF LeadsInside
  <2>1. CASE n \in D
    BY <2>1, <1>2, <1>3, <1>4
  <2>2. CASE n = x
    BY <2>2, <1>3, <1>4 DEF t
  <2> QED
    BY <2>1, <2>2
<1>7. OneWay(new)
  <2> SUFFICES ASSUME NEW m \in D \cup {x}, NEW n \in D \cup {x},
                      NEW i \in Places(new, m), NEW j \in Places(new, n),
                      Target(new, m, i) = Target(new, n, j), Target(new, m, i) # Nil
               PROVE  m = n /\ i = j
    BY <1>1 DEF OneWay
  <2>1. ASSUME NEW a \in D, NEW b \in D, NEW p \in Places(tree, a), NEW q \in Places(tree, b),
               Target(tree, a, p) = Target(tree, b, q), Target(tree, a, p) # Nil
        PROVE  a = b /\ p = q
    BY <2>1 DEF Whole, OneWay
  <2>2. CASE m \in D /\ n \in D
    <3>1. CASE m = owner /\ i = k
      BY <2>2, <3>1, <1>2, <1>4
    <3>2. CASE n = owner /\ j = k
      BY <2>2, <3>2, <1>2, <1>4
    <3>3. CASE ~(m = owner /\ i = k) /\ ~(n = owner /\ j = k)
      BY <2>1, <2>2, <3>3, <1>2
    <3> QED
      BY <3>1, <3>2, <3>3
  <2>3. CASE m = x /\ n \in D
    <3>1. i = 0 /\ Target(new, n, j) = t /\ t # Nil
      BY <2>3, <1>3
    <3>2. ~(n = owner /\ j = k)
      BY <2>3, <3>1, <1>2, <1>4 DEF t
    <3>3. Target(tree, n, j) = t /\ j \in Places(tree, n)
      BY <2>3, <3>1, <3>2, <1>2
    <3> QED
      BY <2>1, <2>3, <3>1, <3>2, <3>3 DEF t
  <2>4. CASE m \in D /\ n = x
    <3>1. j = 0 /\ Target(new, m, i) = t /\ t # Nil
      BY <2>4, <1>3
    <3>2. ~(m = owner /\ i = k)
      BY <2>4, <3>1, <1>2, <1>4 DEF t
    <3>3. Target(tree, m, i) = t /\ i \in Places(tree, m)
      BY <2>4, <3>1, <3>2, <1>2
    <3> QED
      BY <2>1, <2>4, <3>1, <3>2, <3>3 DEF t
  <2>5. CASE m = x /\ n = x
    BY <2>5, <1>3
  <2> QED
    BY <2>2, <2>3, <2>4, <2>5
<1>8. Reached(new)
  <2> SUFFICES ASSUME NEW y \in (D \cup {x}) \ {Start}
               PROVE  \E m \in D \cup {x} : \E j \in Places(new, m) : Target(new, m, j) = y
    BY <1>1 DEF Reached
  <2>1. CASE y = x
    <3>1. k \in Places(new, owner) /\ Target(new, owner, k) = x
      BY <1>2
    <3> QED
      BY <2>1, <3>1
  <2>2. CASE y \in D
    <3>1. PICK m \in D : \E j \in Places(tree, m) : Target(tree, m, j) = y
      BY <2>2 DEF Whole, Reached
    <3>2. PICK j \in Places(tree, m) : Target(tree, m, j) = y
      BY <3>1
    <3>3. CASE m = owner /\ j = k
      BY <3>2, <3>3, <1>3, <1>5 DEF t
    <3>4. CASE ~(m = owner /\ j = k)
      BY <3>2, <3>4, <1>2
    <3> QED
      BY <3>3, <3>4
  <2> QED
    BY <2>1, <2>2
<1>9. Ranked(new)
  <2>1. PICK b \in Nat : \E depth \in [D -> 0..b] : Deepens(tree, depth)
    BY DEF Whole, Ranked
  <2>2. PICK depth \in [D -> 0..b] : Deepens(tree, depth)
    BY <2>1
  <2> DEFINE more == [n \in D \cup {x} |-> IF n = x THEN 2 * depth[owner] + 1 ELSE 2 * depth[n]]
             c == 2 * b + 1
  <2>3. c \in Nat /\ \A n \in D : depth[n] \in 0..b
    BY <2>1, <2>2
  <2>4. more \in [D \cup {x} -> 0..c]
    <3>1. ASSUME NEW n \in D \cup {x}
          PROVE  (IF n = x THEN 2 * depth[owner] + 1 ELSE 2 * depth[n]) \in 0..c
      <4>1. CASE n = x
        <5>1. depth[owner] \in 0..b
          BY <2>3
        <5> QED
          BY <4>1, <5>1, <2>1
      <4>2. CASE n # x
        <5>1. depth[n] \in 0..b
          BY <4>2, <2>3
        <5> QED
          BY <4>2, <5>1, <2>1
      <4> QED
        BY <4>1, <4>2
    <3> QED
      BY <3>1
  <2>5. more[x] = 2 * depth[owner] + 1 /\ \A n \in D : more[n] = 2 * depth[n] /\ depth[n] \in Nat
    BY <1>2, <2>3
  <2>6. ASSUME NEW n \in D, NEW j \in Places(tree, n), Target(tree, n, j) # Nil
        PROVE  Target(tree, n, j) \in D /\ depth[n] < depth[Target(tree, n, j)]
    BY <1>4, <2>2, <2>6 DEF Deepens
  <2> HIDE DEF more, c
  <2>7. Deepens(new, more)
    <3> SUFFICES ASSUME NEW n \in D \cup {x}, NEW j \in Places(new, n), Target(new, n, j) # Nil
                 PROVE  more[n] < more[Target(new, n, j)]
      BY <1>1 DEF Deepens
    <3>1. CASE n = x
      <4>1. Target(new, n, j) = t /\ t # Nil
        BY <3>1, <1>3
      <4>2. t \in D /\ depth[owner] < depth[t]
        BY <4>1, <2>6 DEF t
      <4>3. more[n] = 2 * depth[owner] + 1 /\ more[t] = 2 * depth[t] /\ depth[owner] \in Nat /\ depth[t] \in Nat
        BY <3>1, <4>2, <2>5
      <4> QED
        BY <4>1, <4>2, <4>3
    <3>2. CASE n = owner /\ j = k
      <4>1. Target(new, n, j) = x
        BY <3>2, <1>2
      <4>2. more[n] = 2 * depth[owner] /\ more[x] = 2 * depth[owner] + 1 /\ depth[owner] \in Nat
        BY <3>2, <2>5
      <4> QED
        BY <4>1, <4>2
    <3>3. CASE n \in D /\ ~(n = owner /\ j = k)
      <4> DEFINE z == Target(tree, n, j)
      <4>1. Target(new, n, j) = z /\ j \in Places(tree, n) /\ z # Nil
        BY <3>3, <1>2
      <4>2. z \in D /\ depth[n] < depth[z]
        BY <3>3, <4>1, <2>6
      <4>3. more[n] = 2 * depth[n] /\ more[z] = 2 * depth[z] /\ depth[n] \in Nat /\ depth[z] \in Nat
        BY <3>3, <4>2, <2>5
      <4> HIDE DEF z
      <4> QED
        BY <4>1, <4>2, <4>3
    <3> QED
      BY <3>1, <3>2, <3>3
  <2> QED
    BY <1>1, <2>3, <2>4, <2>7 DEF Ranked
<1>10. ArmsShaped(new)
  <2> SUFFICES ASSUME NEW n \in D \cup {x}
               PROVE  /\ Len(new[n].arms) <= WfMaxArms
                      /\ new[n].type \notin {"branch", "parallel"} => Len(new[n].arms) = 0
                      /\ new[n].type = "branch" =>
                           /\ Len(new[n].arms) > 0
                           /\ \A j \in 1..Len(new[n].arms) : new[n].arms[j].dflt <=> j = Len(new[n].arms)
    BY <1>1 DEF ArmsShaped
  <2>1. CASE n \in D
    <3>1. /\ Len(tree[n].arms) <= WfMaxArms
          /\ tree[n].type \notin {"branch", "parallel"} => Len(tree[n].arms) = 0
          /\ tree[n].type = "branch" =>
               /\ Len(tree[n].arms) > 0
               /\ \A j \in 1..Len(tree[n].arms) : tree[n].arms[j].dflt <=> j = Len(tree[n].arms)
      BY <2>1 DEF Whole, ArmsShaped
    <3>2. /\ new[n].type = tree[n].type /\ Len(new[n].arms) = Len(tree[n].arms)
          /\ \A j \in 1..Len(tree[n].arms) : new[n].arms[j].dflt = tree[n].arms[j].dflt
      BY <2>1, <1>2
    <3> QED
      BY <3>1, <3>2
  <2>2. CASE n = x
    <3>1. WfMaxArms \in Nat /\ 2 <= WfMaxArms
      BY WfAssumption
    <3>2. Len(new[x].arms) <= WfMaxArms
      <4>1. 0 <= WfMaxArms /\ 2 <= WfMaxArms
        BY <3>1
      <4>2. Len(new[x].arms) = 0 \/ Len(new[x].arms) = 2
        BY <1>3a
      <4> QED
        BY <4>1, <4>2
    <3>3. new[x].type = type /\ (type \notin {"branch", "parallel"} => Len(new[x].arms) = 0)
      BY <1>3a
    <3>4. ASSUME type = "branch"
          PROVE  /\ Len(new[x].arms) > 0
                 /\ \A j \in 1..Len(new[x].arms) : new[x].arms[j].dflt <=> j = Len(new[x].arms)
      <4>1. Len(new[x].arms) = 2
        BY <3>4, <1>3
      <4>2. \A j \in 1..Len(new[x].arms) : new[x].arms[j].dflt <=> j = 2
        BY <3>4, <1>3
      <4> QED
        BY <4>1, <4>2
    <3> QED
      BY <2>2, <3>2, <3>3, <3>4
  <2> QED
    BY <2>1, <2>2
<1>11. Unnested(new)
  <2> DEFINE Q == InArms(tree)
             R == IF owner \in Q \/ (k # 0 /\ tree[owner].type = "parallel") THEN Q \cup {x} ELSE Q
  <2>1. Spreads(tree, Q) /\ \A p \in Q : p \in D /\ tree[p].type # "parallel"
    BY InArmsSpreads
  <2>2. x \in R => type # "parallel"
    BY <1>2, <2>1 DEF AllowParallel, InArms
  <2>3. ASSUME NEW n \in D, NEW j \in Places(tree, n), Target(tree, n, j) # Nil,
               n \in Q \/ (j # 0 /\ tree[n].type = "parallel")
        PROVE  Target(tree, n, j) \in Q
    BY <2>1, <2>3 DEF Spreads
  <2> HIDE DEF Q
  <2>4. Spreads(new, R)
    <3> SUFFICES ASSUME NEW n \in D \cup {x}, NEW j \in Places(new, n), Target(new, n, j) # Nil,
                        n \in R \/ (j # 0 /\ new[n].type = "parallel")
                 PROVE  Target(new, n, j) \in R
      BY <1>1 DEF Spreads
    <3>1. CASE n = x
      <4>1. j = 0 /\ Target(new, n, j) = t
        BY <3>1, <1>3
      <4>2. owner \in Q \/ (k # 0 /\ tree[owner].type = "parallel")
        BY <3>1, <4>1, <2>1
      <4> QED
        BY <4>1, <4>2, <2>3 DEF t
    <3>2. CASE n = owner /\ j = k
      BY <3>2, <1>2
    <3>3. CASE n \in D /\ ~(n = owner /\ j = k)
      <4>1. Target(new, n, j) = Target(tree, n, j) /\ j \in Places(tree, n) /\ new[n].type = tree[n].type
        BY <3>3, <1>2
      <4>2. n \in Q \/ (j # 0 /\ tree[n].type = "parallel")
        BY <3>3, <4>1, <1>2
      <4>3. Target(tree, n, j) \in Q
        BY <3>3, <4>1, <4>2, <2>3
      <4> QED
        BY <4>1, <4>3
    <3> QED
      BY <3>1, <3>2, <3>3
  <2>5. R \in SUBSET (D \cup {x}) /\ \A p \in R : new[p].type # "parallel"
    BY <2>1, <2>2, <1>2, <1>3
  <2> HIDE DEF R
  <2> QED
    BY <1>1, <2>4, <2>5 DEF Unnested
<1> QED
  BY <1>1, <1>6, <1>7, <1>8, <1>9, <1>10, <1>11 DEF Whole

LEMMA PairFacts ==
  ASSUME NEW S, NEW a \in S, NEW b \in S
  PROVE  /\ <<a, b>> \in Seq(S) /\ Len(<<a, b>>) = 2
         /\ <<a, b>>[1] = a /\ <<a, b>>[2] = b
OBVIOUS

\* A new node: its type, and the arms it comes with.
IsNew(r, type, t) ==
  /\ r \in NodeRec /\ r.type = type /\ r.next = t
  /\ Len(r.arms) = (IF type \in {"branch", "parallel"} THEN 2 ELSE 0)
  /\ \A j \in 1..Len(r.arms) :
       r.arms[j].next = Nil /\ (type = "branch" => (r.arms[j].dflt <=> j = 2))

LEMMA NewNodeFacts ==
  ASSUME NEW type \in NodeTypes, NEW t \in NodeIds \cup {Nil}
  PROVE  IsNew([NewNode(type) EXCEPT !.next = t], type, t)
<1>1. Arm(TRUE) \in ArmRec /\ Arm(FALSE) \in ArmRec
  BY DEF Arm, ArmRec
<1>2. /\ Arm(TRUE).next = Nil /\ Arm(TRUE).dflt = TRUE
      /\ Arm(FALSE).next = Nil /\ Arm(FALSE).dflt = FALSE
  BY DEF Arm
<1> DEFINE r == [NewNode(type) EXCEPT !.next = t]
           arms == CASE type = "branch" -> <<Arm(FALSE), Arm(TRUE)>>
                     [] type = "parallel" -> <<Arm(FALSE), Arm(FALSE)>>
                     [] OTHER -> <<>>
<1>3. /\ r.type = type /\ r.next = t /\ r.reject = Stays /\ r.set \in BOOLEAN /\ r.arms = arms
      /\ r.back = Stays /\ r.late = FALSE
      /\ r = [type |-> r.type, next |-> r.next, reject |-> r.reject, back |-> r.back,
              late |-> r.late, set |-> r.set, arms |-> r.arms]
  <2> DEFINE given == type # "cc"
             no == FALSE
  <2>1. NewNode(type) = [type |-> type, next |-> Nil, reject |-> Stays, back |-> Stays,
                         late |-> no, set |-> given, arms |-> arms]
    BY DEF NewNode
  <2>2. given \in BOOLEAN
    OBVIOUS
  <2> HIDE DEF arms, given, no
  <2>3. r = [type |-> type, next |-> t, reject |-> Stays, back |-> Stays,
             late |-> no, set |-> given, arms |-> arms]
    BY <2>1
  <2> HIDE DEF r
  <2> QED
    BY <2>2, <2>3 DEF no
<1> SUFFICES IsNew(r, type, t)
  OBVIOUS
<1> HIDE DEF r
<1>4. CASE type = "branch"
  <2>1. r.arms = <<Arm(FALSE), Arm(TRUE)>>
    BY <1>3, <1>4
  <2>2. r.arms \in Seq(ArmRec) /\ Len(r.arms) = 2 /\ r.arms[1] = Arm(FALSE) /\ r.arms[2] = Arm(TRUE)
    <3>1. /\ <<Arm(FALSE), Arm(TRUE)>> \in Seq(ArmRec) /\ Len(<<Arm(FALSE), Arm(TRUE)>>) = 2
          /\ <<Arm(FALSE), Arm(TRUE)>>[1] = Arm(FALSE) /\ <<Arm(FALSE), Arm(TRUE)>>[2] = Arm(TRUE)
      BY <1>1, PairFacts
    <3> HIDE DEF arms
    <3> QED
      BY <2>1, <3>1, Zenon
  <2>3. r \in NodeRec
    BY <1>3, <2>2 DEF NodeRec
  <2>4. ASSUME NEW j \in 1..2
        PROVE  r.arms[j].next = Nil /\ (type = "branch" => (r.arms[j].dflt <=> j = 2))
    <3>1. j = 1 \/ j = 2
      OBVIOUS
    <3> HIDE DEF arms
    <3> QED
      BY <3>1, <1>2, <1>4, <2>2
  <2>5. r.type = type /\ r.next = t
    BY <1>3
  <2> HIDE DEF arms
  <2> QED
    BY <1>4, <2>2, <2>3, <2>4, <2>5 DEF IsNew
<1>5. CASE type = "parallel"
  <2>1. r.arms = <<Arm(FALSE), Arm(FALSE)>>
    BY <1>3, <1>5
  <2>2. r.arms \in Seq(ArmRec) /\ Len(r.arms) = 2 /\ r.arms[1] = Arm(FALSE) /\ r.arms[2] = Arm(FALSE)
    <3>1. /\ <<Arm(FALSE), Arm(FALSE)>> \in Seq(ArmRec) /\ Len(<<Arm(FALSE), Arm(FALSE)>>) = 2
          /\ <<Arm(FALSE), Arm(FALSE)>>[1] = Arm(FALSE) /\ <<Arm(FALSE), Arm(FALSE)>>[2] = Arm(FALSE)
      BY <1>1, PairFacts
    <3> HIDE DEF arms
    <3> QED
      BY <2>1, <3>1, Zenon
  <2>3. r \in NodeRec
    BY <1>3, <2>2 DEF NodeRec
  <2>4. ASSUME NEW j \in 1..2
        PROVE  r.arms[j].next = Nil /\ (type = "branch" => (r.arms[j].dflt <=> j = 2))
    <3>1. j = 1 \/ j = 2
      OBVIOUS
    <3> HIDE DEF arms
    <3> QED
      BY <3>1, <1>2, <1>5, <2>2
  <2>5. r.type = type /\ r.next = t
    BY <1>3
  <2> HIDE DEF arms
  <2> QED
    BY <1>5, <2>2, <2>3, <2>4, <2>5 DEF IsNew
<1>6. CASE type \notin {"branch", "parallel"}
  <2>1. r.arms = <<>>
    BY <1>3, <1>6
  <2>2. r.arms \in Seq(ArmRec) /\ Len(r.arms) = 0
    <3>1. <<>> \in Seq(ArmRec) /\ Len(<<>>) = 0
      OBVIOUS
    <3> HIDE DEF arms
    <3> QED
      BY <2>1, <3>1, Zenon
  <2>3. r \in NodeRec
    BY <1>3, <2>2 DEF NodeRec
  <2>4. r.type = type /\ r.next = t
    BY <1>3
  <2>5. \A j \in 1..0 : FALSE
    OBVIOUS
  <2> HIDE DEF arms
  <2> QED
    BY <1>6, <2>2, <2>3, <2>4, <2>5 DEF IsNew
<1> QED
  BY <1>4, <1>5, <1>6

LEMMA InsertAfterInserts ==
  ASSUME NEW tree, Whole(tree), NEW owner \in DOMAIN tree, NEW x, x \notin DOMAIN tree, x \in NodeIds,
         NEW type \in NodeTypes
  PROVE  Inserted(tree, InsertAfter(tree, owner, x, type), owner, 0, x, type)
<1> DEFINE D == DOMAIN tree
           new == InsertAfter(tree, owner, x, type)
           r == [NewNode(type) EXCEPT !.next = tree[owner].next]
           one == [tree EXCEPT ![owner].next = x]
<1>1. Typed(tree) /\ tree[owner] \in NodeRec /\ tree[owner].next \in NodeIds \cup {Nil}
  BY NodeFacts DEF Whole
<1>2. /\ r \in NodeRec /\ r.type = type /\ r.next = tree[owner].next
      /\ Len(r.arms) = (IF type \in {"branch", "parallel"} THEN 2 ELSE 0)
      /\ \A j \in 1..Len(r.arms) :
           r.arms[j].next = Nil /\ (type = "branch" => (r.arms[j].dflt <=> j = 2))
  <2>1. tree[owner].next \in NodeIds \cup {Nil}
    BY <1>1
  <2>2. IsNew(r, type, tree[owner].next)
    BY <2>1, NewNodeFacts
  <2> HIDE DEF r
  <2> QED
    BY <2>2 DEF IsNew
<1> HIDE DEF r
<1>3. /\ one[owner] \in NodeRec /\ one[owner].next = x /\ one[owner].type = tree[owner].type
      /\ one[owner].arms = tree[owner].arms
      /\ \A n \in D : n # owner => one[n] = tree[n]
  BY <1>1 DEF NodeRec, Typed
<1>4. DOMAIN one = D /\ new = With(one, x, r)
  BY DEF InsertAfter, r
<1> HIDE DEF one, new
<1>5. new = [m \in D \cup {x} |-> IF m = x THEN r ELSE one[m]]
  BY <1>4 DEF With
<1>6. DOMAIN new = D \cup {x} /\ new[x] = r /\ \A n \in D : new[n] = one[n]
  BY <1>5
<1>7. Typed(new)
  <2>1. \A n \in D \cup {x} : new[n] \in NodeRec
    BY <1>1, <1>2, <1>3, <1>6 DEF Typed
  <2>2. D \cup {x} \in SUBSET NodeIds
    BY <1>1 DEF Typed
  <2>3. new \in [D \cup {x} -> NodeRec]
    BY <1>5, <1>6, <2>1
  <2> QED
    BY <1>6, <2>2, <2>3 DEF Typed
<1>8. ASSUME NEW n \in D
      PROVE  /\ SameNode(tree, new, n)
             /\ \A j \in Places(tree, n) :
                  Target(new, n, j) = IF n = owner /\ j = 0 THEN x ELSE Target(tree, n, j)
  <2>1. CASE n = owner
    BY <2>1, <1>3, <1>6 DEF SameNode, Target
  <2>2. CASE n # owner
    BY <2>2, <1>3, <1>6 DEF SameNode, Target
  <2> QED
    BY <2>1, <2>2
<1>9. Target(new, x, 0) = Target(tree, owner, 0)
  BY <1>2, <1>6 DEF Target
<1>10. \A j \in 1..Len(r.arms) : Target(new, x, j) = Nil
  <2>1. \A j \in 1..Len(r.arms) : j # 0
    BY <1>2
  <2> QED
    BY <1>2, <1>6, <2>1 DEF Target
<1> QED
  BY <1>2, <1>6, <1>7, <1>8, <1>9, <1>10 DEF Inserted, new

LEMMA InsertIntoArmInserts ==
  ASSUME NEW tree, Whole(tree), NEW owner \in DOMAIN tree, NEW k \in 1..Len(tree[owner].arms),
         NEW x, x \notin DOMAIN tree, x \in NodeIds, NEW type \in NodeTypes
  PROVE  Inserted(tree, InsertIntoArm(tree, owner, k, x, type), owner, k, x, type)
<1> DEFINE D == DOMAIN tree
           new == InsertIntoArm(tree, owner, k, x, type)
           r == [NewNode(type) EXCEPT !.next = tree[owner].arms[k].next]
           one == [tree EXCEPT ![owner].arms[k].next = x]
           l == Len(tree[owner].arms)
<1>1. /\ Typed(tree) /\ tree[owner] \in NodeRec /\ tree[owner].arms \in Seq(ArmRec) /\ l \in Nat
      /\ DOMAIN tree[owner].arms = 1..l
      /\ \A j \in 1..l : tree[owner].arms[j] \in ArmRec /\ tree[owner].arms[j].next \in NodeIds \cup {Nil}
  BY NodeFacts DEF Whole
<1>2. /\ r \in NodeRec /\ r.type = type /\ r.next = tree[owner].arms[k].next
      /\ Len(r.arms) = (IF type \in {"branch", "parallel"} THEN 2 ELSE 0)
      /\ \A j \in 1..Len(r.arms) :
           r.arms[j].next = Nil /\ (type = "branch" => (r.arms[j].dflt <=> j = 2))
  <2>1. tree[owner].arms[k].next \in NodeIds \cup {Nil}
    BY <1>1
  <2>2. IsNew(r, type, tree[owner].arms[k].next)
    BY <2>1, NewNodeFacts
  <2> HIDE DEF r
  <2> QED
    BY <2>2 DEF IsNew
<1> HIDE DEF r
<1> DEFINE a == [tree[owner].arms[k] EXCEPT !.next = x]
           arms == [tree[owner].arms EXCEPT ![k] = a]
<1>3. one = [tree EXCEPT ![owner] = [tree[owner] EXCEPT !.arms = arms]]
  OBVIOUS
<1>4. a \in ArmRec /\ a.next = x /\ a.dflt = tree[owner].arms[k].dflt
  <2>1. tree[owner].arms[k] \in ArmRec
    BY <1>1
  <2> QED
    BY <2>1 DEF ArmRec
<1>5. /\ arms \in Seq(ArmRec) /\ Len(arms) = l /\ arms[k] = a
      /\ \A j \in 1..l : j # k => arms[j] = tree[owner].arms[j]
  <2> HIDE DEF a
  <2> QED
    BY <1>1, <1>4
<1>6. one[owner].arms = arms /\ one[owner].next = tree[owner].next /\ one[owner].type = tree[owner].type
  <2> HIDE DEF one, arms
  <2> QED
    BY <1>1, <1>3 DEF NodeRec
<1>7. one[owner] \in NodeRec /\ \A n \in D : n # owner => one[n] = tree[n]
  <2>1. /\ one[owner] = [tree[owner] EXCEPT !.arms = arms]
        /\ \A n \in D : n # owner => one[n] = tree[n]
    BY <1>3
  <2> HIDE DEF arms, one
  <2> QED
    BY <2>1, <1>1, <1>5 DEF NodeRec
<1>8. DOMAIN one = D /\ new = With(one, x, r)
  BY DEF InsertIntoArm, r
<1> HIDE DEF one, new, arms, a
<1>9. new = [m \in D \cup {x} |-> IF m = x THEN r ELSE one[m]]
  BY <1>8 DEF With
<1>10. DOMAIN new = D \cup {x} /\ new[x] = r /\ \A n \in D : new[n] = one[n]
  BY <1>9
<1>11. Typed(new)
  <2>1. \A n \in D \cup {x} : new[n] \in NodeRec
    BY <1>1, <1>2, <1>7, <1>10 DEF Typed
  <2>2. D \cup {x} \in SUBSET NodeIds
    BY <1>1 DEF Typed
  <2>3. new \in [D \cup {x} -> NodeRec]
    BY <1>9, <1>10, <2>1
  <2> QED
    BY <1>10, <2>2, <2>3 DEF Typed
<1>12. ASSUME NEW n \in D
       PROVE  /\ SameNode(tree, new, n)
              /\ \A j \in Places(tree, n) :
                   Target(new, n, j) = IF n = owner /\ j = k THEN x ELSE Target(tree, n, j)
  <2>1. CASE n = owner
    <3>1. SameNode(tree, new, n)
      BY <2>1, <1>4, <1>5, <1>6, <1>10 DEF SameNode
    <3>2. ASSUME NEW j \in Places(tree, n)
          PROVE  Target(new, n, j) = IF n = owner /\ j = k THEN x ELSE Target(tree, n, j)
      <4>1. CASE j = 0
        BY <2>1, <4>1, <1>1, <1>6, <1>10 DEF Target
      <4>2. CASE j # 0
        <5>1. j \in 1..l
          BY <2>1, <4>2, <1>1 DEF Places
        <5>2. new[n].arms[j].next = IF j = k THEN x ELSE tree[n].arms[j].next
          BY <2>1, <5>1, <1>4, <1>5, <1>6, <1>10
        <5> QED
          BY <2>1, <4>2, <5>2 DEF Target
      <4> QED
        BY <4>1, <4>2
    <3> QED
      BY <3>1, <3>2
  <2>2. CASE n # owner
    BY <2>2, <1>7, <1>10 DEF SameNode, Target
  <2> QED
    BY <2>1, <2>2
<1>13. Target(new, x, 0) = Target(tree, owner, k)
  <2>1. k # 0
    BY <1>1
  <2> QED
    BY <2>1, <1>2, <1>10 DEF Target
<1>14. \A j \in 1..Len(r.arms) : Target(new, x, j) = Nil
  <2>1. \A j \in 1..Len(r.arms) : j # 0
    BY <1>2
  <2> QED
    BY <1>2, <1>10, <2>1 DEF Target
<1> QED
  BY <1>2, <1>10, <1>11, <1>12, <1>13, <1>14 DEF Inserted, new

------------------------------------------------------------------------------
\* The new tree has at each node the same arms or other ones.
HasArms(tree, new, n, arms) ==
  /\ Typed(new) /\ DOMAIN new = DOMAIN tree
  /\ new[n].arms = arms /\ new[n].next = tree[n].next /\ new[n].type = tree[n].type
  /\ \A m \in DOMAIN tree : m # n => new[m] = tree[m]

Rearmed(tree, n, arms) == [tree EXCEPT ![n] = [tree[n] EXCEPT !.arms = arms]]

LEMMA NewArms ==
  ASSUME NEW tree, Typed(tree), NEW n \in DOMAIN tree, NEW arms \in Seq(ArmRec)
  PROVE  HasArms(tree, Rearmed(tree, n, arms), n, arms)
<1> DEFINE r == [tree[n] EXCEPT !.arms = arms]
           new == [tree EXCEPT ![n] = r]
<1>1. tree[n] \in NodeRec /\ tree \in [DOMAIN tree -> NodeRec] /\ DOMAIN tree \in SUBSET NodeIds
  BY DEF Typed
<1>2. r \in NodeRec /\ r.arms = arms /\ r.next = tree[n].next /\ r.type = tree[n].type
  BY <1>1 DEF NodeRec
<1> SUFFICES HasArms(tree, new, n, arms)
  BY DEF Rearmed
<1> HIDE DEF r
<1>3. /\ DOMAIN new = DOMAIN tree /\ new[n] = r /\ \A m \in DOMAIN tree : m # n => new[m] = tree[m]
      /\ new \in [DOMAIN tree -> NodeRec]
  BY <1>1, <1>2
<1> HIDE DEF new
<1> QED
  BY <1>1, <1>2, <1>3 DEF HasArms, Typed

\* Every link of the new tree is one of the tree, from the same node.
FewerLinks(tree, new) ==
  /\ Typed(new) /\ DOMAIN new = DOMAIN tree
  /\ \A m \in DOMAIN tree :
       /\ new[m].type = tree[m].type
       /\ \A j \in Places(new, m) : Target(new, m, j) # Nil =>
            \E i \in Places(tree, m) : Target(tree, m, i) = Target(new, m, j) /\ (j # 0 => i # 0)

LEMMA FewerLinksFacts ==
  ASSUME NEW tree, Whole(tree), NEW new, FewerLinks(tree, new)
  PROVE  LeadsInside(new) /\ Ranked(new) /\ Unnested(new)
<1> DEFINE D == DOMAIN tree
<1>1. DOMAIN new = D
  BY DEF FewerLinks
<1>2. ASSUME NEW m \in D, NEW j \in Places(new, m), Target(new, m, j) # Nil
      PROVE  /\ new[m].type = tree[m].type
             /\ \E i \in Places(tree, m) : Target(tree, m, i) = Target(new, m, j) /\ (j # 0 => i # 0)
  BY <1>2 DEF FewerLinks
<1>3. LeadsInside(new)
  BY <1>1, <1>2 DEF LeadsInside, Whole
<1>4. Ranked(new)
  <2>1. PICK b \in Nat : \E depth \in [D -> 0..b] : Deepens(tree, depth)
    BY DEF Whole, Ranked
  <2>2. PICK depth \in [D -> 0..b] : Deepens(tree, depth)
    BY <2>1
  <2>3. Deepens(new, depth)
    BY <1>1, <1>2, <2>2 DEF Deepens
  <2> QED
    BY <1>1, <2>2, <2>3 DEF Ranked
<1>5. Unnested(new)
  <2>1. PICK Q \in SUBSET D : Spreads(tree, Q) /\ \A p \in Q : tree[p].type # "parallel"
    BY DEF Whole, Unnested
  <2>2. Spreads(new, Q)
    <3> SUFFICES ASSUME NEW m \in D, NEW j \in Places(new, m), Target(new, m, j) # Nil,
                        m \in Q \/ (j # 0 /\ new[m].type = "parallel")
                 PROVE  Target(new, m, j) \in Q
      BY <1>1 DEF Spreads
    <3>1. PICK i \in Places(tree, m) : Target(tree, m, i) = Target(new, m, j) /\ (j # 0 => i # 0)
      BY <1>2
    <3>2. m \in Q \/ (i # 0 /\ tree[m].type = "parallel")
      BY <1>2, <3>1
    <3> QED
      BY <2>1, <3>1, <3>2 DEF Spreads
  <2>3. \A p \in Q : new[p].type # "parallel"
    BY <2>1 DEF FewerLinks
  <2> QED
    BY <1>1, <2>1, <2>2, <2>3 DEF Unnested
<1> QED
  BY <1>3, <1>4, <1>5

------------------------------------------------------------------------------
\* A sequence with a member more, or one less.
Longer(S, s, i, e, r) ==
  /\ r \in Seq(S) /\ Len(r) = Len(s) + 1 /\ r[i] = e
  /\ \A j \in 1..(Len(s) + 1) : j < i => r[j] = s[j]
  /\ \A j \in 1..(Len(s) + 1) : j > i => r[j] = s[j - 1]

Shorter(S, s, i, r) ==
  /\ r \in Seq(S) /\ Len(r) = Len(s) - 1
  /\ \A j \in 1..(Len(s) - 1) : j < i => r[j] = s[j]
  /\ \A j \in 1..(Len(s) - 1) : j >= i => r[j] = s[j + 1]

LEMMA AppendFacts ==
  ASSUME NEW S, NEW s \in Seq(S), NEW e \in S
  PROVE  Longer(S, s, Len(s) + 1, e, Append(s, e))
<1>1. Append(s, e) \in Seq(S) /\ Len(Append(s, e)) = Len(s) + 1 /\ Append(s, e)[Len(s) + 1] = e
  OBVIOUS
<1>2. \A j \in 1..Len(s) : Append(s, e)[j] = s[j]
  OBVIOUS
<1>3. \A j \in 1..(Len(s) + 1) : ~(j > Len(s) + 1) /\ (j < Len(s) + 1 => j \in 1..Len(s))
  OBVIOUS
<1> QED
  BY <1>1, <1>2, <1>3 DEF Longer

LEMMA InsertAtFacts ==
  ASSUME NEW S, NEW s \in Seq(S), NEW e \in S, NEW i \in 1..(Len(s) + 1)
  PROVE  Longer(S, s, i, e, InsertAt(s, i, e))
<1> DEFINE a == SubSeq(s, 1, i - 1)
           b == SubSeq(s, i, Len(s))
<1>1. Len(s) \in Nat
  OBVIOUS
<1>2. a \in Seq(S) /\ Len(a) = i - 1 /\ \A j \in 1..(i - 1) : a[j] = s[j]
  BY <1>1
<1>3. b \in Seq(S) /\ Len(b) = Len(s) - i + 1 /\ \A j \in 1..(Len(s) - i + 1) : b[j] = s[i + j - 1]
  BY <1>1
<1>4. InsertAt(s, i, e) = a \o <<e>> \o b
  BY DEF InsertAt
<1> HIDE DEF a, b
<1>5. a \o <<e>> \in Seq(S) /\ Len(a \o <<e>>) = i
      /\ \A j \in 1..(i - 1) : (a \o <<e>>)[j] = s[j]
      /\ (a \o <<e>>)[i] = e
  BY <1>2
<1> DEFINE c == a \o <<e>>
<1> HIDE DEF c
<1>6. c \in Seq(S) /\ Len(c) = i /\ c[i] = e /\ \A j \in 1..(i - 1) : c[j] = s[j]
  BY <1>5 DEF c
<1>7. InsertAt(s, i, e) = c \o b
  BY <1>4 DEF c
<1>8. /\ c \o b \in Seq(S) /\ Len(c \o b) = Len(s) + 1
      /\ \A j \in 1..i : (c \o b)[j] = c[j]
      /\ \A j \in 1..(Len(s) + 1) : j > i => (c \o b)[j] = b[j - i]
  BY <1>1, <1>3, <1>6
<1>9. ASSUME NEW j \in 1..(Len(s) + 1), j > i PROVE b[j - i] = s[j - 1]
  <2>1. j - i \in 1..(Len(s) - i + 1)
    BY <1>1, <1>9
  <2>2. b[j - i] = s[i + (j - i) - 1]
    BY <1>3, <2>1
  <2>3. i + (j - i) - 1 = j - 1
    OBVIOUS
  <2> QED
    BY <2>2, <2>3
<1> QED
  BY <1>1, <1>6, <1>7, <1>8, <1>9 DEF Longer

LEMMA RemoveAtFacts ==
  ASSUME NEW S, NEW s \in Seq(S), NEW i \in 1..Len(s)
  PROVE  Shorter(S, s, i, RemoveAt(s, i))
<1> DEFINE a == SubSeq(s, 1, i - 1)
           b == SubSeq(s, i + 1, Len(s))
<1>1. Len(s) \in Nat
  OBVIOUS
<1>2. a \in Seq(S) /\ Len(a) = i - 1 /\ \A j \in 1..(i - 1) : a[j] = s[j]
  BY <1>1
<1>3. b \in Seq(S) /\ Len(b) = Len(s) - i /\ \A j \in 1..(Len(s) - i) : b[j] = s[i + j]
  BY <1>1
<1>4. RemoveAt(s, i) = a \o b
  BY DEF RemoveAt
<1> HIDE DEF a, b
<1>5. /\ a \o b \in Seq(S) /\ Len(a \o b) = Len(s) - 1
      /\ \A j \in 1..(i - 1) : (a \o b)[j] = a[j]
      /\ \A j \in 1..(Len(s) - 1) : j >= i => (a \o b)[j] = b[j - (i - 1)]
  <2>1. a \o b \in Seq(S) /\ Len(a \o b) = Len(s) - 1
    BY <1>1, <1>2, <1>3
  <2>2. \A j \in 1..(i - 1) : (a \o b)[j] = a[j]
    BY <1>1, <1>2, <1>3
  <2>3. ASSUME NEW j \in 1..(Len(s) - 1), j >= i PROVE (a \o b)[j] = b[j - (i - 1)]
    <3>1. j > Len(a) /\ j \in 1..(Len(a) + Len(b)) /\ Len(a) = i - 1
      BY <1>1, <1>2, <1>3, <2>3
    <3> QED
      BY <3>1, <1>2, <1>3
  <2> QED
    BY <2>1, <2>2, <2>3
<1>6. ASSUME NEW j \in 1..(Len(s) - 1), j >= i PROVE b[j - (i - 1)] = s[j + 1]
  <2>1. j - (i - 1) \in 1..(Len(s) - i)
    BY <1>1, <1>6
  <2>2. b[j - (i - 1)] = s[i + (j - (i - 1))]
    BY <1>3, <2>1
  <2>3. i + (j - (i - 1)) = j + 1
    OBVIOUS
  <2> QED
    BY <2>2, <2>3
<1>7. \A j \in 1..(Len(s) - 1) : j < i => (a \o b)[j] = s[j]
  <2>1. \A j \in 1..(Len(s) - 1) : j < i => j \in 1..(i - 1)
    BY <1>1
  <2> QED
    BY <2>1, <1>2, <1>5
<1>8. \A j \in 1..(Len(s) - 1) : j >= i => (a \o b)[j] = s[j + 1]
  BY <1>5, <1>6
<1> QED
  BY <1>4, <1>5, <1>7, <1>8 DEF Shorter

------------------------------------------------------------------------------
\* Where the new arm goes: before the default one, which is last, or to the end.
NewPlace(tree, n) ==
  IF tree[n].type = "branch" THEN Len(tree[n].arms) ELSE Len(tree[n].arms) + 1

ArmAdded(tree, n, arms) ==
  /\ HasArms(tree, AddArm(tree, n), n, arms)
  /\ NewPlace(tree, n) \in 1..(Len(tree[n].arms) + 1)
  /\ Longer(ArmRec, tree[n].arms, NewPlace(tree, n), Arm(FALSE), arms)

LEMMA AddArmArms ==
  ASSUME NEW tree, Whole(tree), NEW n \in DOMAIN tree, tree[n].type \in {"branch", "parallel"}
  PROVE  \E arms : ArmAdded(tree, n, arms)
<1> DEFINE old == tree[n].arms
           arms == IF tree[n].type = "branch"
                   THEN InsertAt(old, CHOOSE k \in DOMAIN old : old[k].dflt, Arm(FALSE))
                   ELSE Append(old, Arm(FALSE))
           i == NewPlace(tree, n)
<1>1. Typed(tree) /\ old \in Seq(ArmRec) /\ Len(old) \in Nat /\ DOMAIN old = 1..Len(old)
  BY NodeFacts DEF Whole
<1>2. Arm(FALSE) \in ArmRec
  BY DEF Arm, ArmRec
<1>3. AddArm(tree, n) = Rearmed(tree, n, arms)
  BY DEF AddArm, Rearmed
<1>4. ASSUME tree[n].type = "branch"
      PROVE  Longer(ArmRec, old, i, Arm(FALSE), arms) /\ i \in 1..(Len(old) + 1)
  <2>1. Len(old) > 0 /\ \A k \in 1..Len(old) : old[k].dflt <=> k = Len(old)
    BY <1>4 DEF Whole, ArmsShaped
  <2>2. (CHOOSE k \in DOMAIN old : old[k].dflt) = Len(old)
    <3> DEFINE c == CHOOSE k \in DOMAIN old : old[k].dflt
    <3>1. DOMAIN old = 1..Len(old) /\ Len(old) \in DOMAIN old
      BY <1>1, <2>1
    <3>2. old[Len(old)].dflt /\ \A k \in DOMAIN old : old[k].dflt => k = Len(old)
      BY <2>1, <3>1
    <3> HIDE DEF old
    <3>3. c \in DOMAIN old /\ old[c].dflt
      BY <3>1, <3>2
    <3> HIDE DEF c
    <3>4. c = Len(old)
      BY <3>2, <3>3
    <3> QED
      BY <3>4 DEF c
  <2>3. arms = InsertAt(old, Len(old), Arm(FALSE)) /\ i = Len(old)
    BY <1>4, <2>2 DEF NewPlace
  <2>4. Len(old) \in 1..(Len(old) + 1)
    BY <1>1, <2>1
  <2>5. Longer(ArmRec, old, i, Arm(FALSE), arms)
    <3>1. ASSUME NEW e \in ArmRec PROVE Longer(ArmRec, old, Len(old), e, InsertAt(old, Len(old), e))
      <4> HIDE DEF old
      <4> QED
        BY <1>1, <2>4, InsertAtFacts
    <3> HIDE DEF old, arms, i
    <3> QED
      BY <1>2, <2>3, <3>1
  <2> QED
    BY <2>3, <2>4, <2>5
<1>5. ASSUME tree[n].type # "branch"
      PROVE  Longer(ArmRec, old, i, Arm(FALSE), arms) /\ i \in 1..(Len(old) + 1)
  <2>1. arms = Append(old, Arm(FALSE)) /\ i = Len(old) + 1
    BY <1>5 DEF NewPlace
  <2>2. Longer(ArmRec, old, i, Arm(FALSE), arms)
    <3>1. ASSUME NEW e \in ArmRec PROVE Longer(ArmRec, old, Len(old) + 1, e, Append(old, e))
      <4> HIDE DEF old
      <4> QED
        BY <1>1, AppendFacts
    <3> HIDE DEF old, arms, i
    <3> QED
      BY <1>2, <2>1, <3>1
  <2>3. Len(old) + 1 \in 1..(Len(old) + 1)
    BY <1>1
  <2> QED
    BY <2>1, <2>2, <2>3
<1> HIDE DEF arms
<1>6. Longer(ArmRec, old, i, Arm(FALSE), arms) /\ i \in 1..(Len(old) + 1)
  BY <1>4, <1>5
<1>7. arms \in Seq(ArmRec)
  BY <1>6 DEF Longer
<1>8. HasArms(tree, AddArm(tree, n), n, arms)
  BY <1>1, <1>3, <1>7, NewArms
<1> QED
  BY <1>6, <1>8 DEF ArmAdded

LEMMA AddArmIsWhole ==
  ASSUME NEW tree, Whole(tree), NEW n \in DOMAIN tree, tree[n].type \in {"branch", "parallel"},
         Len(tree[n].arms) < WfMaxArms
  PROVE  Whole(AddArm(tree, n)) /\ DOMAIN AddArm(tree, n) = DOMAIN tree
<1> DEFINE D == DOMAIN tree
           new == AddArm(tree, n)
           i == NewPlace(tree, n)
           l == Len(tree[n].arms)
<1>0. PICK arms : ArmAdded(tree, n, arms)
  BY AddArmArms
<1>1. /\ HasArms(tree, new, n, arms)
      /\ Len(arms) = l + 1
      /\ i \in 1..Len(arms) /\ arms[i] = Arm(FALSE)
      /\ \A j \in 1..Len(arms) : j < i => arms[j] = tree[n].arms[j]
      /\ \A j \in 1..Len(arms) : j > i => arms[j] = tree[n].arms[j - 1]
  BY <1>0 DEF ArmAdded, Longer
<1>2. l \in Nat /\ Typed(tree) /\ i \in {l, l + 1} /\ (tree[n].type = "branch" <=> i = l)
  BY NodeFacts DEF Whole, NewPlace
<1> HIDE DEF new, i
<1>3. /\ Typed(new) /\ DOMAIN new = D /\ new[n].arms = arms
      /\ new[n].next = tree[n].next /\ new[n].type = tree[n].type
      /\ \A m \in D : m # n => new[m] = tree[m]
  BY <1>1 DEF HasArms
<1> DEFINE back(m, j) == IF m = n /\ j > i THEN j - 1 ELSE j
<1>4. Places(new, n) = 0..(l + 1) /\ Places(tree, n) = 0..l /\ i \in 1..(l + 1)
  BY <1>1, <1>3 DEF Places
<1>5. ASSUME NEW m \in D, NEW j \in Places(new, m), ~(m = n /\ j = i)
      PROVE  /\ back(m, j) \in Places(tree, m) /\ (j # 0 => back(m, j) # 0)
             /\ Target(new, m, j) = Target(tree, m, back(m, j))
  <2>1. CASE m # n
    BY <2>1, <1>3 DEF Places, Target
  <2>2. CASE m = n /\ j < i
    <3>1. j \in 0..l
      BY <2>2, <1>4, <1>2
    <3>2. j # 0 => j \in 1..Len(arms) /\ arms[j] = tree[n].arms[j]
      BY <2>2, <3>1, <1>1, <1>2
    <3>3. back(m, j) = j
      BY <2>2, <3>1, <1>2
    <3>4. Target(new, n, j) = Target(tree, n, j)
      BY <3>2, <1>3 DEF Target
    <3> QED
      BY <2>2, <3>1, <3>3, <3>4, <1>4
  <2>3. CASE m = n /\ j > i
    <3>1. j \in 0..(l + 1) /\ i \in Nat /\ i > 0
      BY <2>3, <1>4
    <3>2. j - 1 \in 0..l /\ j - 1 # 0 /\ j # 0 /\ j \in 1..Len(arms)
      BY <2>3, <3>1, <1>1, <1>2
    <3>3. arms[j] = tree[n].arms[j - 1]
      BY <2>3, <3>2, <1>1
    <3>4. back(m, j) = j - 1
      BY <2>3
    <3>5. Target(new, n, j) = Target(tree, n, j - 1)
      BY <3>2, <3>3, <1>3 DEF Target
    <3> QED
      BY <2>3, <3>2, <3>4, <3>5, <1>4
  <2>4. m # n \/ j < i \/ j > i
    BY <1>4, <1>5
  <2> QED
    BY <2>1, <2>2, <2>3, <2>4
<1>6. Target(new, n, i) = Nil
  <2>1. i # 0
    BY <1>4
  <2> QED
    BY <2>1, <1>1, <1>3 DEF Target, Arm
<1>7. FewerLinks(tree, new)
  <2>1. ASSUME NEW m \in D, NEW j \in Places(new, m), Target(new, m, j) # Nil
        PROVE  \E k \in Places(tree, m) : Target(tree, m, k) = Target(new, m, j) /\ (j # 0 => k # 0)
    <3> HIDE DEF back
    <3> QED
      BY <2>1, <1>5, <1>6
  <2>2. \A m \in D : new[m].type = tree[m].type
    BY <1>3
  <2> QED
    BY <2>1, <2>2, <1>3 DEF FewerLinks
<1>8. LeadsInside(new) /\ Ranked(new) /\ Unnested(new)
  BY <1>7, FewerLinksFacts
<1>9. OneWay(new)
  <2> SUFFICES ASSUME NEW a \in D, NEW b \in D, NEW p \in Places(new, a), NEW q \in Places(new, b),
                      Target(new, a, p) = Target(new, b, q), Target(new, a, p) # Nil
               PROVE  a = b /\ p = q
    BY <1>3 DEF OneWay
  <2>1. ~(a = n /\ p = i) /\ ~(b = n /\ q = i)
    BY <1>6
  <2>2. /\ back(a, p) \in Places(tree, a) /\ Target(new, a, p) = Target(tree, a, back(a, p))
        /\ back(b, q) \in Places(tree, b) /\ Target(new, b, q) = Target(tree, b, back(b, q))
    <3> HIDE DEF back
    <3> QED
      BY <2>1, <1>5
  <2>3. a = b /\ back(a, p) = back(b, q)
    <3>1. ASSUME NEW c \in D, NEW d \in D, NEW r \in Places(tree, c), NEW s \in Places(tree, d),
                 Target(tree, c, r) = Target(tree, d, s), Target(tree, c, r) # Nil
          PROVE  c = d /\ r = s
      BY <3>1 DEF Whole, OneWay
    <3> HIDE DEF back
    <3>2. /\ Target(tree, a, back(a, p)) = Target(tree, b, back(b, q))
          /\ Target(tree, a, back(a, p)) # Nil
      BY <2>2
    <3> QED
      BY <2>2, <3>1, <3>2, Zenon
  <2>4. CASE a = n
    <3>1. p \in Nat /\ q \in Nat /\ i \in Nat /\ p # i /\ q # i
      BY <2>1, <2>3, <2>4, <1>4
    <3> QED
      BY <2>3, <2>4, <3>1
  <2>5. CASE a # n
    BY <2>3, <2>5
  <2> QED
    BY <2>4, <2>5
<1>10. Reached(new)
  <2> SUFFICES ASSUME NEW y \in D \ {Start}
               PROVE  \E m \in D : \E j \in Places(new, m) : Target(new, m, j) = y
    BY <1>3 DEF Reached
  <2>1. PICK m \in D : \E j \in Places(tree, m) : Target(tree, m, j) = y
    BY DEF Whole, Reached
  <2>2. PICK j \in Places(tree, m) : Target(tree, m, j) = y
    BY <2>1
  <2>3. CASE m # n
    BY <2>2, <2>3, <1>3 DEF Places, Target
  <2>4. CASE m = n
    <3> DEFINE k == IF j < i THEN j ELSE j + 1
    <3>1. j \in 0..l /\ i \in 1..(l + 1)
      BY <2>2, <2>4, <1>4
    <3>2. k \in Places(new, n) /\ k # i /\ back(n, k) = j
      BY <3>1, <1>2, <1>4
    <3>3. Target(new, n, k) = y
      <4> HIDE DEF k, back
      <4> QED
        BY <2>2, <2>4, <3>2, <1>5
    <3> QED
      BY <2>4, <3>2, <3>3
  <2> QED
    BY <2>3, <2>4
<1>11. ArmsShaped(new)
  <2> SUFFICES ASSUME NEW m \in D
               PROVE  /\ Len(new[m].arms) <= WfMaxArms
                      /\ new[m].type \notin {"branch", "parallel"} => Len(new[m].arms) = 0
                      /\ new[m].type = "branch" =>
                           /\ Len(new[m].arms) > 0
                           /\ \A j \in 1..Len(new[m].arms) : new[m].arms[j].dflt <=> j = Len(new[m].arms)
    BY <1>3 DEF ArmsShaped
  <2>1. CASE m # n
    BY <2>1, <1>3 DEF Whole, ArmsShaped
  <2>2. CASE m = n
    <3>1. Len(new[m].arms) = l + 1 /\ l + 1 <= WfMaxArms /\ l + 1 > 0
      BY <2>2, <1>1, <1>2, <1>3, WfAssumption
    <3>2. new[m].type \in {"branch", "parallel"}
      BY <2>2, <1>3
    <3>3. ASSUME new[m].type = "branch", NEW j \in 1..(l + 1)
          PROVE  new[m].arms[j].dflt <=> j = l + 1
      <4>1. i = l /\ l > 0 /\ \A k \in 1..l : tree[n].arms[k].dflt <=> k = l
        BY <2>2, <3>3, <1>2, <1>3 DEF Whole, ArmsShaped
      <4>2. CASE j < l
        <5>1. arms[j] = tree[n].arms[j] /\ j \in 1..l
          BY <4>1, <4>2, <1>1, <1>2
        <5> QED
          BY <2>2, <4>1, <4>2, <5>1, <1>2, <1>3
      <4>3. CASE j = l
        <5>1. arms[j] = Arm(FALSE)
          BY <4>1, <4>3, <1>1
        <5> QED
          BY <2>2, <4>3, <5>1, <1>2, <1>3 DEF Arm
      <4>4. CASE j = l + 1
        <5>1. j > i /\ j \in 1..Len(arms)
          BY <4>1, <4>4, <1>1, <1>2
        <5>2. arms[j] = tree[n].arms[j - 1] /\ j - 1 = l
          BY <4>4, <5>1, <1>1, <1>2
        <5>3. l \in 1..l
          BY <4>1, <1>2
        <5> QED
          BY <2>2, <4>1, <4>4, <5>2, <5>3, <1>3
      <4> QED
        BY <4>2, <4>3, <4>4, <1>2
    <3> QED
      BY <3>1, <3>2, <3>3
  <2> QED
    BY <2>1, <2>2
<1>12. Start \in D
  BY DEF Whole
<1>13. Whole(new)
  BY <1>3, <1>8, <1>9, <1>10, <1>11, <1>12 DEF Whole
<1> QED
  BY <1>3, <1>13 DEF new

------------------------------------------------------------------------------
\* What is reached through one place of a node: nothing above it, and all below.
CutAt(tree, n, k, W) ==
  /\ W \subseteq DOMAIN tree /\ Start \notin W /\ n \notin W
  /\ \A m \in DOMAIN tree : \A i \in Places(tree, m) : Target(tree, m, i) # Nil =>
       (Target(tree, m, i) \in W <=> (m = n /\ i = k) \/ m \in W)

LEMMA CutFacts ==
  ASSUME NEW tree, Whole(tree), NEW n \in DOMAIN tree, NEW k \in Places(tree, n)
  PROVE  CutAt(tree, n, k, Walk(tree, Target(tree, n, k)))
<1> DEFINE D == DOMAIN tree
           h == Target(tree, n, k)
           W == Walk(tree, h)
<1>1. Typed(tree) /\ LeadsInside(tree) /\ Ranked(tree) /\ OneWay(tree) /\ Start \in D
  BY DEF Whole
<1>2. PICK depth \in [D -> Nat] : Deepens(tree, depth) /\ \A m \in D : depth[m] \in Nat
  BY <1>1, RankedFacts
<1>3. ASSUME NEW a \in D, NEW b \in D, NEW p \in Places(tree, a), NEW q \in Places(tree, b),
             Target(tree, a, p) = Target(tree, b, q), Target(tree, a, p) # Nil
      PROVE  a = b /\ p = q
  BY <1>1, <1>3 DEF OneWay
<1> HIDE DEF h
<1>4. CASE h = Nil
  <2>1. W = {}
    BY <1>4 DEF Walk
  <2>2. \A m \in D : \A i \in Places(tree, m) : Target(tree, m, i) # Nil => ~(m = n /\ i = k)
    BY <1>4 DEF h
  <2> QED
    BY <2>1, <2>2 DEF CutAt, h
<1>5. CASE h # Nil
  <2>1. h \in D \ {Start}
    BY <1>1, <1>5 DEF LeadsInside, h
  <2>2. h \in W /\ W \subseteq D /\ ClosedIn(tree, W)
    BY <1>1, <2>1, WalkFacts
  <2>3. \A y \in W \ {h} : (\E m \in W : y \in Links(tree, m)) /\ depth[h] < depth[y]
    BY <1>1, <1>2, <2>1, WalkIsLinked
  <2>4. depth[n] < depth[h]
    BY <1>2, <1>5 DEF Deepens, h
  <2> HIDE DEF W
  <2>5. n \notin W
    <3> SUFFICES ASSUME n \in W PROVE FALSE
      OBVIOUS
    <3>1. n # h => depth[h] < depth[n]
      BY <2>3
    <3>2. depth[n] \in Nat /\ depth[h] \in Nat
      BY <1>2, <2>1
    <3> QED
      BY <2>4, <3>1, <3>2
  <2>6. ASSUME NEW y \in W, y # h
        PROVE  \E m \in W : \E i \in Places(tree, m) : Target(tree, m, i) = y
    <3>1. PICK m \in W : y \in Links(tree, m)
      BY <2>3, <2>6
    <3> QED
      BY <1>1, <2>2, <3>1, LinksAreTargets
  <2>7. Start \notin W
    <3> SUFFICES ASSUME Start \in W PROVE FALSE
      OBVIOUS
    <3>1. PICK m \in W : \E i \in Places(tree, m) : Target(tree, m, i) = Start
      BY <2>1, <2>6
    <3>2. m \in D /\ Start # Nil
      BY <2>2, IdFacts
    <3> QED
      BY <1>1, <3>1, <3>2 DEF LeadsInside
  <2>8. ASSUME NEW m \in D, NEW i \in Places(tree, m), Target(tree, m, i) # Nil
        PROVE  Target(tree, m, i) \in W <=> (m = n /\ i = k) \/ m \in W
    <3> DEFINE y == Target(tree, m, i)
    <3>1. m = n /\ i = k => y \in W
      BY <2>2 DEF h
    <3>2. m \in W => y \in W
      <4>1. y \in Links(tree, m)
        BY <1>1, LinksAreTargets
      <4> HIDE DEF y
      <4> QED
        BY <2>2, <2>8, <4>1 DEF ClosedIn, y
    <3>3. ASSUME y \in W, y = h PROVE m = n /\ i = k
      BY <1>3, <2>8, <3>3 DEF h
    <3>4. ASSUME y \in W, y # h PROVE m \in W
      <4> HIDE DEF y
      <4>1. PICK a \in W : \E p \in Places(tree, a) : Target(tree, a, p) = y
        BY <2>6, <3>4
      <4>2. PICK p \in Places(tree, a) : Target(tree, a, p) = y
        BY <4>1
      <4>3. a \in D
        BY <2>2
      <4>4. a = m
        BY <1>3, <2>8, <4>2, <4>3 DEF y
      <4> QED
        BY <4>4
    <3> QED
      BY <3>1, <3>2, <3>3, <3>4
  <2> QED
    BY <2>2, <2>5, <2>7, <2>8 DEF CutAt, W, h
<1> QED
  BY <1>4, <1>5

\* An arm is removed with what it leads to, and the rest is a tree.
LEMMA RemoveArmIsWhole ==
  ASSUME NEW tree, Whole(tree), NEW n \in DOMAIN tree, NEW k \in 1..Len(tree[n].arms),
         Removable(tree, n, k)
  PROVE  /\ Whole(RemoveArm(tree, n, k))
         /\ DOMAIN RemoveArm(tree, n, k) = DOMAIN tree \ Walk(tree, tree[n].arms[k].next)
<1> DEFINE D == DOMAIN tree
           l == Len(tree[n].arms)
           arms == RemoveAt(tree[n].arms, k)
           new == Rearmed(tree, n, arms)
           W == Walk(tree, tree[n].arms[k].next)
           X == D \ W
<1>1. Typed(tree) /\ l \in Nat /\ tree[n].arms \in Seq(ArmRec) /\ Start \in D
  BY NodeFacts DEF Whole
<1>2. Shorter(ArmRec, tree[n].arms, k, arms)
  BY <1>1, RemoveAtFacts
<1>3. RemoveArm(tree, n, k) = Clone(new)
  BY DEF RemoveArm, Rearmed
<1> HIDE DEF arms
<1>4. HasArms(tree, new, n, arms)
  <2>1. arms \in Seq(ArmRec)
    BY <1>2 DEF Shorter
  <2> QED
    BY <1>1, <2>1, NewArms
<1> HIDE DEF new
<1>5. /\ Typed(new) /\ DOMAIN new = D /\ new[n].arms = arms
      /\ new[n].next = tree[n].next /\ new[n].type = tree[n].type
      /\ \A m \in D : m # n => new[m] = tree[m]
  BY <1>4 DEF HasArms
<1>6. /\ Len(arms) = l - 1 /\ k \in 1..l
      /\ \A j \in 1..(l - 1) : j < k => arms[j] = tree[n].arms[j]
      /\ \A j \in 1..(l - 1) : j >= k => arms[j] = tree[n].arms[j + 1]
  BY <1>2 DEF Shorter
<1>7. Places(new, n) = 0..(l - 1) /\ Places(tree, n) = 0..l /\ k # 0
  BY <1>5, <1>6 DEF Places
<1> DEFINE old(m, j) == IF m = n /\ j >= k THEN j + 1 ELSE j
<1>8. ASSUME NEW m \in D, NEW j \in Places(new, m)
      PROVE  /\ old(m, j) \in Places(tree, m) /\ (j # 0 => old(m, j) # 0)
             /\ ~(m = n /\ old(m, j) = k)
             /\ Target(new, m, j) = Target(tree, m, old(m, j))
  <2>1. CASE m # n
    BY <2>1, <1>5 DEF Places, Target
  <2>2. CASE m = n /\ j < k
    <3>1. j \in 0..l /\ old(m, j) = j /\ j # k
      BY <2>2, <1>1, <1>6, <1>7
    <3>2. j # 0 => j \in 1..(l - 1) /\ arms[j] = tree[n].arms[j]
      BY <2>2, <1>1, <1>6, <1>7
    <3>3. Target(new, n, j) = Target(tree, n, j)
      BY <3>2, <1>5 DEF Target
    <3> QED
      BY <2>2, <3>1, <3>3, <1>7
  <2>3. CASE m = n /\ j >= k
    <3>1. j \in 1..(l - 1) /\ j # 0 /\ j + 1 \in 0..l /\ j + 1 # 0 /\ j + 1 # k
      BY <2>3, <1>1, <1>6, <1>7
    <3>2. old(m, j) = j + 1
      BY <2>3
    <3>3. arms[j] = tree[n].arms[j + 1]
      BY <2>3, <3>1, <1>6
    <3>4. Target(new, n, j) = Target(tree, n, j + 1)
      BY <3>1, <3>3, <1>5 DEF Target
    <3> QED
      BY <2>3, <3>1, <3>2, <3>4, <1>7
  <2>4. m # n \/ j < k \/ j >= k
    BY <1>1, <1>6, <1>7, <1>8
  <2> QED
    BY <2>1, <2>2, <2>3, <2>4
<1>9. FewerLinks(tree, new)
  <2>1. ASSUME NEW m \in D, NEW j \in Places(new, m), Target(new, m, j) # Nil
        PROVE  \E i \in Places(tree, m) : Target(tree, m, i) = Target(new, m, j) /\ (j # 0 => i # 0)
    <3> HIDE DEF old
    <3> QED
      BY <1>8
  <2>2. \A m \in D : new[m].type = tree[m].type
    BY <1>5
  <2> QED
    BY <2>1, <2>2, <1>5 DEF FewerLinks
<1>10. LeadsInside(new) /\ Ranked(new) /\ Unnested(new)
  BY <1>9, FewerLinksFacts
<1>11. ASSUME NEW a \in D, NEW b \in D, NEW p \in Places(new, a), NEW q \in Places(new, b),
              Target(new, a, p) = Target(new, b, q), Target(new, a, p) # Nil
       PROVE  a = b /\ p = q
  <2>1. ASSUME NEW c \in D, NEW d \in D, NEW r \in Places(tree, c), NEW s \in Places(tree, d),
               Target(tree, c, r) = Target(tree, d, s), Target(tree, c, r) # Nil
        PROVE  c = d /\ r = s
    BY <2>1 DEF Whole, OneWay
  <2>2. a = b /\ old(a, p) = old(b, q)
    <3> HIDE DEF old
    <3>1. /\ old(a, p) \in Places(tree, a) /\ Target(new, a, p) = Target(tree, a, old(a, p))
          /\ old(b, q) \in Places(tree, b) /\ Target(new, b, q) = Target(tree, b, old(b, q))
      BY <1>8
    <3>2. /\ Target(tree, a, old(a, p)) = Target(tree, b, old(b, q))
          /\ Target(tree, a, old(a, p)) # Nil
      BY <3>1, <1>11
    <3> QED
      BY <2>1, <3>1, <3>2, Zenon
  <2>3. CASE a = n
    <3>1. p \in Nat /\ q \in Nat /\ k \in Nat
      BY <2>2, <2>3, <1>7
    <3> QED
      BY <2>2, <2>3, <3>1
  <2>4. CASE a # n
    BY <2>2, <2>4
  <2> QED
    BY <2>3, <2>4
<1>12. ArmsShaped(new)
  <2> SUFFICES ASSUME NEW m \in D
               PROVE  /\ Len(new[m].arms) <= WfMaxArms
                      /\ new[m].type \notin {"branch", "parallel"} => Len(new[m].arms) = 0
                      /\ new[m].type = "branch" =>
                           /\ Len(new[m].arms) > 0
                           /\ \A j \in 1..Len(new[m].arms) : new[m].arms[j].dflt <=> j = Len(new[m].arms)
    BY <1>5 DEF ArmsShaped
  <2>1. CASE m # n
    BY <2>1, <1>5 DEF Whole, ArmsShaped
  <2>2. CASE m = n
    <3>1. l <= WfMaxArms /\ (tree[n].type \notin {"branch", "parallel"} => l = 0)
      BY DEF Whole, ArmsShaped
    <3>2. /\ Len(new[m].arms) = l - 1 /\ l - 1 <= WfMaxArms /\ l # 0
          /\ new[m].type \in {"branch", "parallel"}
      BY <2>2, <3>1, <1>1, <1>5, <1>6, WfAssumption
    <3>3. ASSUME new[m].type = "branch"
          PROVE  l - 1 > 0 /\ \A j \in 1..(l - 1) : new[m].arms[j].dflt <=> j = l - 1
      <4>1. \A j \in 1..l : tree[n].arms[j].dflt <=> j = l
        BY <2>2, <3>3, <1>5 DEF Whole, ArmsShaped
      <4>2. k # l
        BY <2>2, <3>3, <4>1, <1>5, <1>6 DEF Removable
      <4>3. k < l /\ l - 1 > 0
        BY <4>2, <1>1, <1>6
      <4>4. ASSUME NEW j \in 1..(l - 1) PROVE arms[j].dflt <=> j = l - 1
        <5>1. CASE j < k
          <6>1. arms[j] = tree[n].arms[j] /\ j \in 1..l /\ j # l - 1 /\ j # l
            BY <5>1, <4>3, <1>1, <1>6
          <6> QED
            BY <6>1, <4>1
        <5>2. CASE j >= k
          <6>1. arms[j] = tree[n].arms[j + 1] /\ j + 1 \in 1..l /\ (j + 1 = l <=> j = l - 1)
            BY <5>2, <4>3, <1>1, <1>6
          <6> QED
            BY <6>1, <4>1
        <5> QED
          BY <5>1, <5>2, <1>1, <1>6
      <4> QED
        BY <2>2, <4>3, <4>4, <1>5
    <3> QED
      BY <3>2, <3>3
  <2> QED
    BY <2>1, <2>2
<1>13. CutAt(tree, n, k, W)
  <2>1. k \in Places(tree, n) /\ Target(tree, n, k) = tree[n].arms[k].next
    BY <1>1, <1>7 DEF Target
  <2>2. CutAt(tree, n, k, Walk(tree, Target(tree, n, k)))
    BY <2>1, CutFacts
  <2> QED
    BY <2>1, <2>2
<1> HIDE DEF W
<1>14. /\ W \subseteq D /\ Start \notin W
       /\ \A m \in D : \A i \in Places(tree, m) : Target(tree, m, i) # Nil =>
            (Target(tree, m, i) \in W <=> (m = n /\ i = k) \/ m \in W)
  BY <1>13 DEF CutAt
<1>15. Start \in X /\ X \in SUBSET D
  BY <1>1, <1>14
<1>16. ClosedIn(new, X)
  <2> SUFFICES ASSUME NEW m \in X, NEW y \in Links(new, m) \ {Nil} PROVE y \in X
    BY DEF ClosedIn
  <2>1. PICK j \in Places(new, m) : y = Target(new, m, j)
    BY <1>5, LinksAreTargets
  <2>2. /\ y = Target(tree, m, old(m, j)) /\ old(m, j) \in Places(tree, m)
        /\ ~(m = n /\ old(m, j) = k)
    <3> HIDE DEF old
    <3> QED
      BY <1>8, <2>1
  <2> HIDE DEF old
  <2>3. y \notin W
    BY <1>14, <2>2
  <2>4. y \in D
    BY <1>5, <1>10, <2>1 DEF LeadsInside
  <2> QED
    BY <2>3, <2>4
<1>17. ASSUME NEW y \in X \ {Start} PROVE \E m \in X : y \in Links(new, m)
  <2>1. PICK m \in D : \E i \in Places(tree, m) : Target(tree, m, i) = y
    BY DEF Whole, Reached
  <2>2. PICK i \in Places(tree, m) : Target(tree, m, i) = y
    BY <2>1
  <2>3. y # Nil
    BY <1>1, NodeFacts
  <2>4. m \in X /\ ~(m = n /\ i = k)
    BY <1>14, <2>2, <2>3
  <2> DEFINE j == IF m = n /\ i > k THEN i - 1 ELSE i
  <2>5. j \in Places(new, m) /\ old(m, j) = i
    <3>1. CASE m # n
      BY <3>1, <2>2, <1>5 DEF Places
    <3>2. CASE m = n
      <4>1. i \in 0..l /\ i # k
        BY <3>2, <2>2, <2>4, <1>7
      <4>2. j \in 0..(l - 1) /\ old(n, j) = i
        BY <3>2, <4>1, <1>1, <1>6
      <4> QED
        BY <3>2, <4>2, <1>7
    <3> QED
      BY <3>1, <3>2
  <2> HIDE DEF j, old
  <2>6. Target(new, m, j) = y
    BY <2>2, <2>5, <1>8
  <2>7. y \in Links(new, m)
    BY <2>5, <2>6, <1>5, LinksAreTargets
  <2> QED
    BY <2>4, <2>7
<1>18. Walk(new, Start) = X
  <2> HIDE DEF X
  <2> QED
    BY <1>5, <1>10, <1>1, <1>15, <1>16, <1>17, WalkIsAll
<1>19. OneWayIn(new, X)
  BY <1>11 DEF OneWayIn
<1>20. Whole(Clone(new))
  <2> HIDE DEF X
  <2> QED
    BY <1>1, <1>5, <1>10, <1>12, <1>18, <1>19, CloneIsWhole
<1>21. DOMAIN Clone(new) = X
  BY <1>18 DEF Clone
<1> QED
  BY <1>3, <1>20, <1>21 DEF W

------------------------------------------------------------------------------
\* What leads to n leads past it.
Past(tree, n, r) == [r EXCEPT !.next = IF @ = n THEN tree[n].next ELSE @]
Bypass(tree, n) ==
  [m \in DOMAIN tree |->
     [Past(tree, n, tree[m]) EXCEPT !.arms = [k \in DOMAIN @ |-> Past(tree, n, @[k])]]]

Closer(tree, n, y) == IF y = n THEN tree[n].next ELSE y

LEMMA BypassFacts ==
  ASSUME NEW tree, Whole(tree), NEW n \in DOMAIN tree, NEW m \in DOMAIN tree
  PROVE  /\ Bypass(tree, n)[m] \in NodeRec /\ SameNode(tree, Bypass(tree, n), m)
         /\ \A k \in Places(tree, m) :
              Target(Bypass(tree, n), m, k) = Closer(tree, n, Target(tree, m, k))
<1> DEFINE old == tree[m].arms
           l == Len(old)
           q == Past(tree, n, tree[m])
           arms == [k \in DOMAIN old |-> Past(tree, n, old[k])]
           r == [q EXCEPT !.arms = arms]
           new == Bypass(tree, n)
<1>1. /\ tree[m] \in NodeRec /\ old \in Seq(ArmRec) /\ l \in Nat /\ DOMAIN old = 1..l
      /\ tree[n].next \in NodeIds \cup {Nil}
      /\ \A k \in 1..l : old[k] \in ArmRec
  BY NodeFacts DEF Whole
<1>2. /\ q \in NodeRec /\ q.arms = old /\ q.type = tree[m].type
      /\ q.next = Closer(tree, n, tree[m].next)
  BY <1>1 DEF Past, NodeRec, Closer
<1>3. ASSUME NEW k \in 1..l
      PROVE  /\ Past(tree, n, old[k]) \in ArmRec
             /\ Past(tree, n, old[k]).next = Closer(tree, n, old[k].next)
             /\ Past(tree, n, old[k]).dflt = old[k].dflt
  <2>1. old[k] \in ArmRec
    BY <1>1
  <2> QED
    BY <2>1, <1>1 DEF Past, ArmRec, Closer
<1>4. new[m] = r
  <2>1. new[m] = [q EXCEPT !.arms = [k \in DOMAIN q.arms |-> Past(tree, n, q.arms[k])]]
    BY DEF Bypass
  <2> HIDE DEF q, new
  <2> QED
    BY <2>1, <1>2
<1> HIDE DEF q, new
<1>5. /\ arms \in Seq(ArmRec) /\ Len(arms) = l
      /\ \A k \in 1..l : arms[k] = Past(tree, n, old[k])
  <2>1. arms = [k \in 1..l |-> Past(tree, n, old[k])]
    BY <1>1
  <2> QED
    BY <2>1, <1>1, <1>3
<1> HIDE DEF arms
<1>6. r \in NodeRec /\ r.arms = arms /\ r.type = tree[m].type /\ r.next = Closer(tree, n, tree[m].next)
  BY <1>2, <1>5 DEF NodeRec
<1> HIDE DEF r
<1>7. SameNode(tree, new, m)
  BY <1>3, <1>4, <1>5, <1>6 DEF SameNode
<1>8. ASSUME NEW k \in Places(tree, m)
      PROVE  Target(new, m, k) = Closer(tree, n, Target(tree, m, k))
  <2>1. CASE k = 0
    BY <2>1, <1>4, <1>6 DEF Target
  <2>2. CASE k # 0
    <3>1. k \in 1..l
      BY <2>2, <1>1 DEF Places
    <3> QED
      BY <2>2, <3>1, <1>3, <1>4, <1>5, <1>6 DEF Target
  <2> QED
    BY <2>1, <2>2
<1> QED
  BY <1>4, <1>6, <1>7, <1>8 DEF new

\* What lies in the arms of a node: nothing above it, and all below its arms.
LEMMA InsideFacts ==
  ASSUME NEW tree, Whole(tree), NEW n \in DOMAIN tree
  PROVE  /\ Inside(tree, n) \subseteq DOMAIN tree
         /\ Start \notin Inside(tree, n) /\ n \notin Inside(tree, n)
         /\ \A m \in DOMAIN tree : \A i \in Places(tree, m) : Target(tree, m, i) # Nil =>
              (Target(tree, m, i) \in Inside(tree, n) <=> (m = n /\ i # 0) \/ m \in Inside(tree, n))
<1> DEFINE l == Len(tree[n].arms)
           W(k) == Walk(tree, Target(tree, n, k))
<1>1. l \in Nat /\ DOMAIN tree[n].arms = 1..l
  BY NodeFacts DEF Whole
<1>2. ASSUME NEW k \in 1..l PROVE k \in Places(tree, n) /\ k # 0 /\ Target(tree, n, k) = tree[n].arms[k].next
  BY <1>1 DEF Places, Target
<1>3. Inside(tree, n) = UNION {W(k) : k \in 1..l}
  <2>1. {Walk(tree, a.next) : a \in Range(tree[n].arms)}
          = {Walk(tree, tree[n].arms[k].next) : k \in 1..l}
    BY <1>1 DEF Range
  <2>2. {Walk(tree, tree[n].arms[k].next) : k \in 1..l} = {W(k) : k \in 1..l}
    BY <1>2
  <2> QED
    BY <2>1, <2>2 DEF Inside
<1>4. ASSUME NEW k \in 1..l PROVE CutAt(tree, n, k, W(k))
  BY <1>2, CutFacts
<1> HIDE DEF W
<1>5. \A y : y \in Inside(tree, n) <=> \E k \in 1..l : y \in W(k)
  BY <1>3
<1>6. ASSUME NEW m \in DOMAIN tree, NEW i \in Places(tree, m), Target(tree, m, i) # Nil
      PROVE  Target(tree, m, i) \in Inside(tree, n) <=> (m = n /\ i # 0) \/ m \in Inside(tree, n)
  <2>1. \A k \in 1..l : Target(tree, m, i) \in W(k) <=> (m = n /\ i = k) \/ m \in W(k)
    BY <1>4, <1>6 DEF CutAt
  <2>2. m = n /\ i # 0 => i \in 1..l
    BY <1>1 DEF Places
  <2>3. \A k \in 1..l : k # 0
    BY <1>1
  <2> QED
    BY <1>5, <2>1, <2>2, <2>3
<1> QED
  BY <1>4, <1>5, <1>6 DEF CutAt

\* A node is removed with what its arms lead to, and the chain closes.
LEMMA RemoveNodeIsWhole ==
  ASSUME NEW tree, Whole(tree), NEW n \in DOMAIN tree, n # Start
  PROVE  /\ Whole(RemoveNode(tree, n))
         /\ DOMAIN RemoveNode(tree, n) = DOMAIN tree \ ({n} \cup Inside(tree, n))
<1> DEFINE D == DOMAIN tree
           new == Bypass(tree, n)
           In == Inside(tree, n)
           X == D \ ({n} \cup In)
           t == tree[n].next
<1>1. Typed(tree) /\ LeadsInside(tree) /\ Ranked(tree) /\ OneWay(tree) /\ Reached(tree)
      /\ ArmsShaped(tree) /\ Start \in D
  BY DEF Whole
<1>2. RemoveNode(tree, n) = Clone(new)
  BY DEF RemoveNode, Bypass, Past
<1>3. DOMAIN new = D
  BY DEF Bypass
<1>4. ASSUME NEW m \in D
      PROVE  /\ new[m] \in NodeRec /\ SameNode(tree, new, m) /\ Places(new, m) = Places(tree, m)
             /\ \A k \in Places(tree, m) : Target(new, m, k) = Closer(tree, n, Target(tree, m, k))
  <2>1. SameNode(tree, new, m)
    BY BypassFacts
  <2>2. Places(new, m) = Places(tree, m)
    BY <2>1 DEF SameNode, Places
  <2> QED
    BY <2>1, <2>2, BypassFacts
<1>5. Typed(new)
  <2>1. new = [m \in D |-> new[m]]
    BY DEF Bypass
  <2> HIDE DEF new
  <2>2. new \in [D -> NodeRec]
    BY <2>1, <1>4
  <2> QED
    BY <2>2, <1>1, <1>3 DEF Typed
<1> HIDE DEF new
<1>6. 0 \in Places(tree, n) /\ Target(tree, n, 0) = t /\ n # Nil
  BY <1>1, NodeFacts DEF Places, Target
<1>7. PICK b \in Nat : \E depth \in [D -> 0..b] : Deepens(tree, depth)
  BY <1>1 DEF Ranked
<1>8. PICK depth \in [D -> 0..b] : Deepens(tree, depth)
  BY <1>7
<1>9. \A m \in D : depth[m] \in Nat
  <2>1. 0..b \subseteq Nat
    OBVIOUS
  <2> QED
    BY <1>8, <2>1
<1>10. t # Nil => t \in D \ {Start} /\ depth[n] < depth[t] /\ t # n
  <2> SUFFICES ASSUME t # Nil PROVE t \in D \ {Start} /\ depth[n] < depth[t] /\ t # n
    OBVIOUS
  <2>1. t \in D \ {Start} /\ depth[n] < depth[t]
    BY <1>1, <1>6, <1>8 DEF LeadsInside, Deepens
  <2>2. t # n
    BY <2>1, <1>9
  <2> QED
    BY <2>1, <2>2
<1>11. ASSUME NEW m \in D, NEW k \in Places(tree, m), Target(new, m, k) # Nil
       PROVE  /\ Target(tree, m, k) # Nil /\ Target(tree, m, k) \in D \ {Start}
              /\ depth[m] < depth[Target(tree, m, k)]
              /\ Target(tree, m, k) = n => Target(new, m, k) = t /\ t # Nil
              /\ Target(tree, m, k) # n => Target(new, m, k) = Target(tree, m, k)
  <2>1. Target(new, m, k) = Closer(tree, n, Target(tree, m, k))
    BY <1>4
  <2>2. Target(tree, m, k) # Nil
    BY <2>1, <1>6, <1>11 DEF Closer
  <2> QED
    BY <2>1, <2>2, <1>1, <1>8, <1>11 DEF Closer, LeadsInside, Deepens
<1> HIDE DEF t
<1>12. LeadsInside(new)
  <2> SUFFICES ASSUME NEW m \in D, NEW k \in Places(tree, m), Target(new, m, k) # Nil
               PROVE  Target(new, m, k) \in D \ {Start}
    BY <1>3, <1>4 DEF LeadsInside
  <2> QED
    BY <1>10, <1>11
<1>13. Ranked(new)
  <2>1. Deepens(new, depth)
    <3> SUFFICES ASSUME NEW m \in D, NEW k \in Places(tree, m), Target(new, m, k) # Nil
                 PROVE  depth[m] < depth[Target(new, m, k)]
      BY <1>3, <1>4 DEF Deepens
    <3>1. CASE Target(tree, m, k) = n
      <4>1. depth[m] < depth[n] /\ Target(new, m, k) = t /\ t \in D /\ depth[n] < depth[t]
        BY <3>1, <1>10, <1>11
      <4>2. depth[m] \in Nat /\ depth[n] \in Nat /\ depth[t] \in Nat
        BY <4>1, <1>9
      <4> QED
        BY <4>1, <4>2
    <3>2. CASE Target(tree, m, k) # n
      BY <3>2, <1>11
    <3> QED
      BY <3>1, <3>2
  <2> QED
    BY <2>1, <1>3, <1>7, <1>8 DEF Ranked
<1>14. ArmsShaped(new)
  <2> SUFFICES ASSUME NEW m \in D
               PROVE  /\ Len(new[m].arms) <= WfMaxArms
                      /\ new[m].type \notin {"branch", "parallel"} => Len(new[m].arms) = 0
                      /\ new[m].type = "branch" =>
                           /\ Len(new[m].arms) > 0
                           /\ \A j \in 1..Len(new[m].arms) : new[m].arms[j].dflt <=> j = Len(new[m].arms)
    BY <1>3 DEF ArmsShaped
  <2>1. SameNode(tree, new, m)
    BY <1>4
  <2> QED
    BY <2>1, <1>1 DEF ArmsShaped, SameNode
<1>15. Unnested(new)
  <2>1. PICK Q \in SUBSET D : Spreads(tree, Q) /\ \A p \in Q : tree[p].type # "parallel"
    BY DEF Whole, Unnested
  <2>2. ASSUME NEW m \in D, NEW k \in Places(tree, m), Target(tree, m, k) # Nil,
               m \in Q \/ (k # 0 /\ tree[m].type = "parallel")
        PROVE  Target(tree, m, k) \in Q
    BY <2>1, <2>2 DEF Spreads
  <2>3. Spreads(new, Q)
    <3> SUFFICES ASSUME NEW m \in D, NEW k \in Places(tree, m), Target(new, m, k) # Nil,
                        m \in Q \/ (k # 0 /\ new[m].type = "parallel")
                 PROVE  Target(new, m, k) \in Q
      BY <1>3, <1>4 DEF Spreads
    <3>1. new[m].type = tree[m].type
      BY <1>4 DEF SameNode
    <3>2. Target(tree, m, k) \in Q
      BY <2>2, <3>1, <1>11
    <3>3. CASE Target(tree, m, k) = n
      BY <2>2, <3>2, <3>3, <1>6, <1>11
    <3>4. CASE Target(tree, m, k) # n
      BY <3>2, <3>4, <1>11
    <3> QED
      BY <3>3, <3>4
  <2>4. \A p \in Q : new[p].type # "parallel"
    BY <2>1, <1>4 DEF SameNode
  <2> QED
    BY <1>3, <2>3, <2>4 DEF Unnested
<1>16. /\ In \subseteq D /\ Start \notin In /\ n \notin In
       /\ \A m \in D : \A i \in Places(tree, m) : Target(tree, m, i) # Nil =>
            (Target(tree, m, i) \in In <=> (m = n /\ i # 0) \/ m \in In)
  BY InsideFacts
<1> HIDE DEF In
<1>17. t \notin In \/ t = Nil
  BY <1>6, <1>16
<1>18. Start \in X /\ X \in SUBSET D
  BY <1>1, <1>16
<1>19. ClosedIn(new, X)
  <2> SUFFICES ASSUME NEW m \in X, NEW y \in Links(new, m) \ {Nil} PROVE y \in X
    BY DEF ClosedIn
  <2>1. PICK k \in Places(tree, m) : y = Target(new, m, k)
    BY <1>3, <1>4, <1>5, LinksAreTargets
  <2>2. CASE Target(tree, m, k) = n
    BY <2>1, <2>2, <1>10, <1>11, <1>17
  <2>3. CASE Target(tree, m, k) # n
    BY <2>1, <2>3, <1>11, <1>16
  <2> QED
    BY <2>2, <2>3
<1>20. ASSUME NEW y \in X \ {Start} PROVE \E m \in X : y \in Links(new, m)
  <2>1. PICK m \in D : \E i \in Places(tree, m) : Target(tree, m, i) = y
    BY <1>1 DEF Reached
  <2>2. PICK i \in Places(tree, m) : Target(tree, m, i) = y
    BY <2>1
  <2>3. y # Nil /\ y # n /\ y \notin In
    BY <1>1, NodeFacts
  <2>4. CASE m # n
    <3>1. m \in X
      BY <2>2, <2>3, <2>4, <1>16
    <3>2. Target(new, m, i) = y
      BY <2>2, <2>3, <1>4 DEF Closer
    <3>3. y \in Links(new, m)
      BY <3>2, <1>3, <1>4, <1>5, LinksAreTargets
    <3> QED
      BY <3>1, <3>3
  <2>5. CASE m = n
    <3>1. i = 0 /\ y = t
      BY <2>2, <2>3, <2>5, <1>6, <1>16
    <3>2. PICK p \in D : \E j \in Places(tree, p) : Target(tree, p, j) = n
      BY <1>1 DEF Reached
    <3>3. PICK j \in Places(tree, p) : Target(tree, p, j) = n
      BY <3>2
    <3>4. p \notin In
      BY <3>3, <1>6, <1>16
    <3>5. p # n
      <4>1. depth[p] < depth[n]
        BY <3>3, <1>6, <1>8 DEF Deepens
      <4> QED
        BY <4>1, <1>9
    <3>6. Target(new, p, j) = y
      BY <3>1, <3>3, <1>4 DEF Closer, t
    <3>7. y \in Links(new, p)
      BY <3>6, <1>3, <1>4, <1>5, LinksAreTargets
    <3> QED
      BY <3>4, <3>5, <3>7
  <2> QED
    BY <2>4, <2>5
<1>21. Walk(new, Start) = X
  <2> HIDE DEF X
  <2> QED
    BY <1>1, <1>3, <1>5, <1>12, <1>13, <1>18, <1>19, <1>20, WalkIsAll
<1>22. OneWayIn(new, X)
  <2> SUFFICES ASSUME NEW a \in X, NEW c \in X, NEW p \in Places(tree, a), NEW q \in Places(tree, c),
                      Target(new, a, p) = Target(new, c, q), Target(new, a, p) # Nil
               PROVE  a = c /\ p = q
    BY <1>4 DEF OneWayIn
  <2>1. ASSUME NEW d \in D, NEW e \in D, NEW r \in Places(tree, d), NEW s \in Places(tree, e),
               Target(tree, d, r) = Target(tree, e, s), Target(tree, d, r) # Nil
        PROVE  d = e /\ r = s
    BY <2>1, <1>1 DEF OneWay
  <2>2. CASE Target(tree, a, p) = Target(tree, c, q)
    BY <2>1, <2>2, <1>11
  <2>3. CASE Target(tree, a, p) = n /\ Target(tree, c, q) # n
    <3>1. Target(tree, c, q) = t /\ t # Nil
      BY <2>3, <1>11
    <3>2. c = n
      BY <2>1, <3>1, <1>6
    <3> QED
      BY <3>2
  <2>4. CASE Target(tree, a, p) # n /\ Target(tree, c, q) = n
    <3>1. Target(tree, a, p) = t /\ t # Nil
      BY <2>4, <1>11
    <3>2. a = n
      BY <2>1, <3>1, <1>6
    <3> QED
      BY <3>2
  <2>5. CASE Target(tree, a, p) # n /\ Target(tree, c, q) # n
    BY <2>1, <2>5, <1>11
  <2> QED
    BY <2>2, <2>3, <2>4, <2>5
<1>23. Whole(Clone(new))
  <2> HIDE DEF X
  <2> QED
    BY <1>1, <1>3, <1>5, <1>12, <1>13, <1>14, <1>15, <1>21, <1>22, CloneIsWhole
<1>24. DOMAIN Clone(new) = X
  BY <1>21 DEF Clone
<1> QED
  BY <1>2, <1>23, <1>24 DEF In

------------------------------------------------------------------------------
\* The drawer changes what is set, never a link.
LEMMA JumpsKeepShape ==
  ASSUME NEW tree, Whole(tree), NEW n \in DOMAIN tree, NEW late \in BOOLEAN,
         NEW reject \in DOMAIN tree \cup {Nil, Stays}, NEW back \in DOMAIN tree \cup {Nil, Stays}
  PROVE  SameShape(tree, Jumps(tree, n, reject, back, late))
<1> DEFINE new == Jumps(tree, n, reject, back, late)
           r == [tree[n] EXCEPT !.reject = reject, !.back = back, !.late = late]
<1>1. /\ Typed(tree) /\ tree \in [DOMAIN tree -> NodeRec] /\ tree[n] \in NodeRec
      /\ DOMAIN tree \in SUBSET NodeIds
  BY DEF Whole, Typed
<1>2. r \in NodeRec /\ r.type = tree[n].type /\ r.next = tree[n].next /\ r.arms = tree[n].arms
  BY <1>1 DEF NodeRec
<1>3. new = [tree EXCEPT ![n] = r]
  BY <1>1 DEF Jumps
<1> HIDE DEF r, new
<1>4. /\ DOMAIN new = DOMAIN tree /\ new \in [DOMAIN tree -> NodeRec] /\ new[n] = r
      /\ \A m \in DOMAIN tree : m # n => new[m] = tree[m]
  BY <1>1, <1>2, <1>3
<1>5. ASSUME NEW m \in DOMAIN tree
      PROVE  SameNode(tree, new, m) /\ \A k \in Places(tree, m) : Target(new, m, k) = Target(tree, m, k)
  BY <1>2, <1>4 DEF SameNode, Target
<1> QED
  BY <1>1, <1>4, <1>5 DEF SameShape, Typed, new

Configured(tree, n) ==
  [tree EXCEPT ![n].set = TRUE,
               ![n].arms = [k \in DOMAIN @ |-> [@[k] EXCEPT !.set = ~tree[n].arms[k].dflt]]]

LEMMA ConfigureKeepsShape ==
  ASSUME NEW tree, Whole(tree), NEW n \in DOMAIN tree
  PROVE  SameShape(tree, Configured(tree, n))
<1> DEFINE new == Configured(tree, n)
           old == tree[n].arms
           l == Len(old)
           set(a) == [a EXCEPT !.set = ~a.dflt]
           arms == [k \in DOMAIN old |-> [old[k] EXCEPT !.set = ~old[k].dflt]]
           q == [tree[n] EXCEPT !.set = TRUE]
           r == [q EXCEPT !.arms = arms]
<1>1. /\ Typed(tree) /\ tree \in [DOMAIN tree -> NodeRec] /\ tree[n] \in NodeRec
      /\ DOMAIN tree \in SUBSET NodeIds
      /\ old \in Seq(ArmRec) /\ l \in Nat /\ DOMAIN old = 1..l /\ \A k \in 1..l : old[k] \in ArmRec
  BY NodeFacts DEF Whole, Typed
<1>2. q \in NodeRec /\ q.type = tree[n].type /\ q.next = tree[n].next
  BY <1>1 DEF NodeRec
<1>3. ASSUME NEW k \in 1..l
      PROVE  /\ [old[k] EXCEPT !.set = ~old[k].dflt] \in ArmRec
             /\ [old[k] EXCEPT !.set = ~old[k].dflt].next = old[k].next
             /\ [old[k] EXCEPT !.set = ~old[k].dflt].dflt = old[k].dflt
  <2>1. old[k] \in ArmRec
    BY <1>1
  <2>2. (~old[k].dflt) \in BOOLEAN
    OBVIOUS
  <2> HIDE DEF old
  <2> QED
    BY <2>1, <2>2 DEF ArmRec
<1>4. /\ arms \in Seq(ArmRec) /\ Len(arms) = l
      /\ \A k \in 1..l : arms[k].next = old[k].next /\ arms[k].dflt = old[k].dflt
  <2>1. arms = [k \in 1..l |-> [old[k] EXCEPT !.set = ~old[k].dflt]]
    BY <1>1
  <2> HIDE DEF old
  <2>2. arms \in [1..l -> ArmRec] /\ \A k \in 1..l : arms[k] = [old[k] EXCEPT !.set = ~old[k].dflt]
    BY <2>1, <1>3
  <2> HIDE DEF arms
  <2>3. arms \in Seq(ArmRec) /\ Len(arms) = l
    BY <2>2, <1>1
  <2> QED
    BY <2>2, <2>3, <1>3
<1>5. new = [tree EXCEPT ![n] = r]
  BY DEF Configured
<1> HIDE DEF arms, q
<1>6. r \in NodeRec /\ r.type = tree[n].type /\ r.next = tree[n].next /\ r.arms = arms
  BY <1>2, <1>4 DEF NodeRec
<1> HIDE DEF r, new
<1>7. /\ DOMAIN new = DOMAIN tree /\ new \in [DOMAIN tree -> NodeRec] /\ new[n] = r
      /\ \A m \in DOMAIN tree : m # n => new[m] = tree[m]
  BY <1>1, <1>5, <1>6
<1>8. ASSUME NEW m \in DOMAIN tree
      PROVE  SameNode(tree, new, m) /\ \A k \in Places(tree, m) : Target(new, m, k) = Target(tree, m, k)
  <2>1. CASE m # n
    BY <2>1, <1>7 DEF SameNode, Target
  <2>2. CASE m = n
    <3>1. SameNode(tree, new, m)
      BY <2>2, <1>4, <1>6, <1>7 DEF SameNode
    <3>2. ASSUME NEW k \in Places(tree, m) PROVE Target(new, m, k) = Target(tree, m, k)
      <4>1. k # 0 => k \in 1..l
        BY <2>2, <1>1 DEF Places
      <4> QED
        BY <2>2, <4>1, <1>4, <1>6, <1>7 DEF Target
    <3> QED
      BY <3>1, <3>2
  <2> QED
    BY <2>1, <2>2
<1> QED
  BY <1>1, <1>7, <1>8 DEF SameShape, Typed, new

------------------------------------------------------------------------------
\* A draft is a tree, and so is what was saved before.
LEMMA DraftIsWhole ==
  Whole(Draft) /\ DOMAIN Draft = {Start} /\ Draft[Start].type = "start"
<1> DEFINE r == NewNode("start")
<1>1. r = [NewNode("start") EXCEPT !.next = Nil]
  <2> DEFINE arms == CASE "start" = "branch" -> <<Arm(FALSE), Arm(TRUE)>>
                       [] "start" = "parallel" -> <<Arm(FALSE), Arm(FALSE)>>
                       [] OTHER -> <<>>
  <2> DEFINE given == "start" # "cc"
             no == FALSE
  <2>1. r = [type |-> "start", next |-> Nil, reject |-> Stays, back |-> Stays,
             late |-> no, set |-> given, arms |-> arms]
    BY DEF NewNode
  <2> HIDE DEF arms, r, given, no
  <2>2. r = [r EXCEPT !.next = Nil]
    BY <2>1
  <2> QED
    BY <2>2 DEF r
<1>2. IsNew([NewNode("start") EXCEPT !.next = Nil], "start", Nil)
  BY NewNodeFacts DEF NodeTypes
<1>3. r \in NodeRec /\ r.type = "start" /\ r.next = Nil /\ Len(r.arms) = 0
  BY <1>1, <1>2 DEF IsNew
<1>4. Draft = [m \in {Start} |-> r]
  BY DEF Draft, With
<1> HIDE DEF r
<1>5. DOMAIN Draft = {Start} /\ Draft[Start] = r
  BY <1>4
<1>6. Places(Draft, Start) = {0} /\ Target(Draft, Start, 0) = Nil
  BY <1>3, <1>5 DEF Places, Target
<1>7. Typed(Draft)
  BY <1>3, <1>4, <1>5, IdFacts DEF Typed
<1>8. LeadsInside(Draft) /\ OneWay(Draft) /\ Reached(Draft)
  BY <1>5, <1>6 DEF LeadsInside, OneWay, Reached
<1>9. Ranked(Draft)
  <2> DEFINE depth == [m \in {Start} |-> 0]
  <2>1. depth \in [{Start} -> 0..0] /\ Deepens(Draft, depth)
    BY <1>5, <1>6 DEF Deepens
  <2> HIDE DEF depth
  <2> QED
    BY <2>1, <1>5 DEF Ranked
<1>10. ArmsShaped(Draft)
  BY <1>3, <1>5, WfAssumption DEF ArmsShaped
<1>11. Unnested(Draft)
  <2>1. Spreads(Draft, {})
    BY <1>5, <1>6 DEF Spreads
  <2> QED
    BY <2>1 DEF Unnested
<1> QED
  BY <1>3, <1>5, <1>7, <1>8, <1>9, <1>10, <1>11 DEF Whole

LEMMA SavedIsWhole ==
  Whole(Saved) /\ DOMAIN Saved = {0, 1, 2}
<1> DEFINE one == InsertAfter(Draft, Start, 1, "branch")
           two == InsertIntoArm(one, 1, 1, 2, "parallel")
<1>1. /\ Whole(Draft) /\ DOMAIN Draft = {Start} /\ Draft[Start].type = "start" /\ Start = 0
      /\ 1 \in NodeIds /\ 2 \in NodeIds
  BY DraftIsWhole, WfAssumption DEF NodeIds, Start
<1>2. Inserted(Draft, one, Start, 0, 1, "branch")
  BY <1>1, InsertAfterInserts DEF NodeTypes
<1> HIDE DEF one
<1>3. Whole(one)
  <2>1. 0 \in Places(Draft, Start)
    BY <1>1, NodeFacts DEF Whole, Places
  <2> QED
    BY <1>1, <1>2, <2>1, InsertIsWhole
<1>4. /\ DOMAIN one = {0, 1} /\ one[1].type = "branch" /\ Len(one[1].arms) = 2
      /\ one[0].type = "start"
  BY <1>1, <1>2 DEF Inserted, SameNode
<1>5. Inserted(one, two, 1, 1, 2, "parallel")
  <2>1. 1 \in 1..Len(one[1].arms) /\ 1 \in DOMAIN one /\ 2 \notin DOMAIN one
    BY <1>4
  <2> QED
    BY <1>1, <1>3, <2>1, InsertIntoArmInserts DEF NodeTypes
<1> HIDE DEF two
<1>6. AllowParallel(one, 1, 1)
  <2>1. EnclosingArm(one, 1) # NoArm =>
          /\ EnclosingArm(one, 1).of \in DOMAIN one
          /\ one[EnclosingArm(one, 1).of].type = "parallel"
    BY <1>3, <1>4, ArmFacts
  <2> QED
    BY <1>4, <2>1 DEF AllowParallel
<1>7. Whole(two)
  <2>1. 1 \in Places(one, 1) /\ 1 \in DOMAIN one /\ 2 \notin DOMAIN one
    BY <1>4 DEF Places
  <2> QED
    BY <1>1, <1>3, <1>5, <1>6, <2>1, InsertIsWhole
<1>8. DOMAIN two = {0, 1, 2}
  BY <1>4, <1>5 DEF Inserted
<1> QED
  BY <1>7, <1>8 DEF Saved, one, two

------------------------------------------------------------------------------
(* The inductive invariant: the model is a tree, its nodes are what the user *)
(* has inserted and not removed, and no id is given twice.                   *)
WfInv ==
  /\ Whole(wfTree) /\ wfWanted = DOMAIN wfTree
  /\ wfLastId \in NodeIds /\ DOMAIN wfTree \subseteq 0..wfLastId

LEMMA WfInitInv == WfInit => WfInv
<1> SUFFICES ASSUME WfInit PROVE WfInv
  OBVIOUS
<1>1. Whole(wfTree) /\ DOMAIN wfTree \subseteq {0, 1, 2}
  BY DraftIsWhole, SavedIsWhole DEF WfInit, Start
<1>2. 2 \in NodeIds /\ {0, 1, 2} \subseteq 0..2
  BY WfAssumption DEF NodeIds
<1> QED
  BY <1>1, <1>2 DEF WfInit, WfInv

LEMMA AddKeepsInv ==
  ASSUME WfInv, NEW owner \in DOMAIN wfTree, NEW k \in 0..WfMaxArms, NEW type \in NodeTypes \ {"start"},
         WfAdd(owner, k, type)
  PROVE  WfInv'
<1> DEFINE n == wfLastId + 1
<1>1. /\ Whole(wfTree) /\ wfWanted = DOMAIN wfTree /\ wfLastId \in Nat
      /\ DOMAIN wfTree \subseteq 0..wfLastId
  BY IdFacts DEF WfInv
<1>2. /\ n <= WfMaxNodes /\ k \in 0..Len(wfTree[owner].arms)
      /\ type = "parallel" => AllowParallel(wfTree, owner, k)
      /\ wfLastId' = n /\ wfWanted' = wfWanted \cup {n}
      /\ wfTree' = IF k = 0 THEN InsertAfter(wfTree, owner, n, type)
                            ELSE InsertIntoArm(wfTree, owner, k, n, type)
  BY DEF WfAdd
<1>3. n \in NodeIds /\ n \notin DOMAIN wfTree
  BY <1>1, <1>2, WfAssumption DEF NodeIds
<1> HIDE DEF n
<1>4. k \in Places(wfTree, owner)
  BY <1>2 DEF Places
<1>5. Inserted(wfTree, wfTree', owner, k, n, type)
  <2>1. CASE k = 0
    BY <2>1, <1>1, <1>2, <1>3, InsertAfterInserts
  <2>2. CASE k # 0
    <3>1. k \in 1..Len(wfTree[owner].arms)
      BY <2>2, <1>2
    <3> QED
      BY <2>2, <3>1, <1>1, <1>2, <1>3, InsertIntoArmInserts
  <2> QED
    BY <2>1, <2>2
<1>6. Whole(wfTree')
  BY <1>1, <1>2, <1>3, <1>4, <1>5, InsertIsWhole
<1>7. DOMAIN wfTree' = DOMAIN wfTree \cup {n}
  BY <1>5 DEF Inserted
<1>8. DOMAIN wfTree' \subseteq 0..n
  BY <1>1, <1>7 DEF n
<1> QED
  BY <1>1, <1>2, <1>3, <1>6, <1>7, <1>8 DEF WfInv

LEMMA RemoveKeepsInv ==
  ASSUME WfInv, NEW n \in DOMAIN wfTree, WfRemove(n)
  PROVE  WfInv'
<1>1. n # Start /\ wfTree' = RemoveNode(wfTree, n)
      /\ wfWanted' = wfWanted \ ({n} \cup Inside(wfTree, n)) /\ wfLastId' = wfLastId
  BY DEF WfRemove
<1>2. Whole(wfTree') /\ DOMAIN wfTree' = DOMAIN wfTree \ ({n} \cup Inside(wfTree, n))
  BY <1>1, RemoveNodeIsWhole DEF WfInv
<1> QED
  BY <1>1, <1>2 DEF WfInv

LEMMA RemoveArmKeepsInv ==
  ASSUME WfInv, NEW n \in DOMAIN wfTree, NEW k \in 1..WfMaxArms, WfRemoveArm(n, k)
  PROVE  WfInv'
<1>1. k \in DOMAIN wfTree[n].arms /\ Removable(wfTree, n, k) /\ wfTree' = RemoveArm(wfTree, n, k)
      /\ wfWanted' = wfWanted \ Walk(wfTree, wfTree[n].arms[k].next) /\ wfLastId' = wfLastId
  BY DEF WfRemoveArm
<1>2. k \in 1..Len(wfTree[n].arms)
  BY <1>1, NodeFacts DEF WfInv, Whole
<1>3. Whole(wfTree') /\ DOMAIN wfTree' = DOMAIN wfTree \ Walk(wfTree, wfTree[n].arms[k].next)
  BY <1>1, <1>2, RemoveArmIsWhole DEF WfInv
<1> QED
  BY <1>1, <1>3 DEF WfInv

LEMMA AddArmKeepsInv ==
  ASSUME WfInv, NEW n \in DOMAIN wfTree, WfAddArm(n)
  PROVE  WfInv'
<1>1. /\ wfTree[n].type \in {"branch", "parallel"} /\ Len(wfTree[n].arms) < WfMaxArms
      /\ wfTree' = AddArm(wfTree, n) /\ wfLastId' = wfLastId /\ wfWanted' = wfWanted
  BY DEF WfAddArm
<1>2. Whole(wfTree') /\ DOMAIN wfTree' = DOMAIN wfTree
  BY <1>1, AddArmIsWhole DEF WfInv
<1> QED
  BY <1>1, <1>2 DEF WfInv

LEMMA DrawerKeepsInv ==
  ASSUME WfInv, NEW n \in DOMAIN wfTree,
         \/ WfConfigure(n)
         \/ \E reject, back \in DOMAIN wfTree \cup {Nil, Stays}, late \in BOOLEAN : WfSetJumps(n, reject, back, late)
  PROVE  WfInv'
<1>1. SameShape(wfTree, wfTree') /\ wfLastId' = wfLastId /\ wfWanted' = wfWanted
  <2>1. CASE WfConfigure(n)
    <3>1. wfTree' = Configured(wfTree, n)
      BY <2>1 DEF WfConfigure, Configured
    <3>2. SameShape(wfTree, Configured(wfTree, n))
      BY ConfigureKeepsShape DEF WfInv
    <3>3. wfLastId' = wfLastId /\ wfWanted' = wfWanted
      BY <2>1 DEF WfConfigure
    <3> QED
      BY <3>1, <3>2, <3>3
  <2>2. CASE \E reject, back \in DOMAIN wfTree \cup {Nil, Stays}, late \in BOOLEAN : WfSetJumps(n, reject, back, late)
    <3>1. PICK reject \in DOMAIN wfTree \cup {Nil, Stays}, back \in DOMAIN wfTree \cup {Nil, Stays},
               late \in BOOLEAN : WfSetJumps(n, reject, back, late)
      BY <2>2
    <3>2. wfTree' = Jumps(wfTree, n, reject, back, late)
      BY <3>1 DEF WfSetJumps
    <3>3. SameShape(wfTree, Jumps(wfTree, n, reject, back, late))
      BY JumpsKeepShape DEF WfInv
    <3>4. wfLastId' = wfLastId /\ wfWanted' = wfWanted
      BY <3>1 DEF WfSetJumps
    <3> QED
      BY <3>2, <3>3, <3>4
  <2> QED
    BY <2>1, <2>2
<1>2. Whole(wfTree') /\ DOMAIN wfTree' = DOMAIN wfTree
  BY <1>1, SameShapeIsWhole DEF WfInv, SameShape
<1> QED
  BY <1>1, <1>2 DEF WfInv

LEMMA WfNextInv == WfInv /\ [WfNext]_wfVars => WfInv'
<1> SUFFICES ASSUME WfInv, [WfNext]_wfVars PROVE WfInv'
  OBVIOUS
<1>1. CASE WfNext
  <2>1. PICK n \in DOMAIN wfTree :
          \/ \E k \in 0..WfMaxArms, type \in NodeTypes \ {"start"} : WfAdd(n, k, type)
          \/ \E k \in 1..WfMaxArms : WfRemoveArm(n, k)
          \/ \E reject, back \in DOMAIN wfTree \cup {Nil, Stays}, late \in BOOLEAN : WfSetJumps(n, reject, back, late)
          \/ WfRemove(n) \/ WfAddArm(n) \/ WfConfigure(n)
    BY <1>1 DEF WfNext
  <2>2. CASE \E k \in 0..WfMaxArms, type \in NodeTypes \ {"start"} : WfAdd(n, k, type)
    BY <2>2, AddKeepsInv
  <2>3. CASE \E k \in 1..WfMaxArms : WfRemoveArm(n, k)
    BY <2>3, RemoveArmKeepsInv
  <2>4. CASE WfConfigure(n) \/ \E reject, back \in DOMAIN wfTree \cup {Nil, Stays}, late \in BOOLEAN : WfSetJumps(n, reject, back, late)
    BY <2>4, DrawerKeepsInv
  <2>5. CASE WfRemove(n)
    BY <2>5, RemoveKeepsInv
  <2>6. CASE WfAddArm(n)
    BY <2>6, AddArmKeepsInv
  <2> QED
    BY <2>1, <2>2, <2>3, <2>4, <2>5, <2>6
<1>2. CASE UNCHANGED wfVars
  BY <1>2 DEF wfVars, WfInv
<1> QED
  BY <1>1, <1>2

LEMMA WfInvHolds == WfInit /\ [][WfNext]_wfVars => []WfInv
  BY WfInitInv, WfNextInv, PTL

------------------------------------------------------------------------------
LEMMA WfInvKeepsTree == WfInv => WfEditsKeepTree
<1> SUFFICES ASSUME WfInv PROVE WfEditsKeepTree
  OBVIOUS
<1>1. Whole(wfTree) /\ wfWanted = DOMAIN wfTree
  BY DEF WfInv
<1>2. WfTreeIsWhole
  BY <1>1, WholeIsReached DEF WfTreeIsWhole
<1>3. \A n \in OfType(wfTree, {"branch"}) : Defaults(wfTree, n) = 1 /\ Last(wfTree[n].arms).dflt
  BY <1>1, DefaultIsLast DEF OfType
<1>4. \A p \in OfType(wfTree, {"parallel"}) : Inside(wfTree, p) \cap OfType(wfTree, {"parallel"}) = {}
  BY <1>1, InsideParallel DEF OfType
<1> QED
  BY <1>2, <1>3, <1>4 DEF WfEditsKeepTree, WfStaysRepairable

(* However many nodes and arms the definition has, no edit loses the rest of *)
(* a chain or reaches a node by two ways, every branch keeps one default     *)
(* arm, its last, and no parallel node comes to lie in a parallel arm        *)
(* (removeNode, cloneModel, addBranchArm, the allowParallel of the tree).    *)
THEOREM EditsKeepTree ==
  WfInit /\ [][WfNext]_wfVars => []WfEditsKeepTree
BY WfInvKeepsTree, WfInvHolds, PTL

(* However many nodes and arms: what validateModel accepts                   *)
(* ValidateModelForPublish publishes, and the other way round, but for a     *)
(* rejection or a return whose target is not there and a timeout that hands  *)
(* over to nobody.                                                           *)
THEOREM ServerAgrees ==
  WfInit /\ [][WfNext]_wfVars => []WfServerAgrees
<1>1. WfInv => WfServerAgrees
  BY ValidationsAgree DEF WfInv, WfServerAgrees
<1> QED
  BY <1>1, WfInvHolds, PTL

(* However deep branches and arms are nested: the search TakeTransitionOp    *)
(* makes for the next node comes out of exactly the construct the token is   *)
(* in, and never leaves a parallel arm without joining.                      *)
THEOREM EngineFollowsDrawing ==
  WfInit /\ [][WfNext]_wfVars => []WfEngineFollowsDrawing
<1>1. WfInv => WfEngineFollowsDrawing
  BY EngineFollows DEF WfInv, WfEngineFollowsDrawing
<1> QED
  BY <1>1, WfInvHolds, PTL
===============================================================================
