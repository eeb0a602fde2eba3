-------------------------------- MODULE WfModel --------------------------------
(***************************************************************************)
(* The workflow tree the designer edits (web/src/workflow/model and the    *)
(* tree component above it), its validation in the console and in          *)
(* WfDefinitionService, and the way a token of the engine finds its way    *)
(* through it (WfModelIndex, TakeTransitionOp).                            *)
(*                                                                         *)
(* A tree maps its node ids to records. A chain is linked by `next'; a     *)
(* branch or parallel node has arms, each the head of a chain of its own,  *)
(* and its `next' is where the arms come together. An arm is known by its  *)
(* place. An id is given once, in increasing order.                        *)
(***************************************************************************)
EXTENDS Naturals, Sequences, FiniteSets, SequencesExt

CONSTANTS WfMaxNodes,      \* bound of the nodes inserted
          WfMaxArms,       \* bound of the arms of a node
          WfMaxJumps       \* bound of the jumps and timeouts configured

\* There is room for the definition saved before; a new branch or parallel node has two arms.
ASSUME WfAssumption ==
  WfMaxNodes \in Nat \ {0, 1} /\ WfMaxArms \in Nat \ {0, 1} /\ WfMaxJumps \in Nat

VARIABLES wfTree,          \* the model the designer shows
          wfLastId,        \* the last id newNodeId has given
          wfWanted         \* history: what the user has inserted and not removed

wfVars == <<wfTree, wfLastId, wfWanted>>

Start   == 0
Nil     == WfMaxNodes + 1                  \* no node
Stays   == WfMaxNodes + 2                  \* no node is named: the default policy
NoArm   == [of |-> Nil, arm |-> 0]
NodeIds == 0..WfMaxNodes
NodeTypes == {"start", "approval", "cc", "branch", "parallel"}

WfTypeOK ==
  /\ Start \in DOMAIN wfTree /\ DOMAIN wfTree \subseteq 0..wfLastId /\ wfLastId \in NodeIds
  /\ \A n \in DOMAIN wfTree :
       /\ wfTree[n].type \in NodeTypes /\ wfTree[n].set \in BOOLEAN
       /\ wfTree[n].next \in NodeIds \cup {Nil}
       /\ wfTree[n].reject \in NodeIds \cup {Nil, Stays} /\ wfTree[n].back \in NodeIds \cup {Nil, Stays}
       /\ wfTree[n].late \in BOOLEAN
       /\ \A a \in Range(wfTree[n].arms) : a.next \in NodeIds \cup {Nil} /\ a.dflt \in BOOLEAN
  /\ wfWanted \subseteq NodeIds

------------------------------------------------------------------------------
\* createDefaultModel, createNode. A leader approves unless configured otherwise, a rejection
\* ends the instance, a return goes one node back; a copy has no receiver, a branch arm no
\* condition until the drawer gives them one. late: the timeout hands the task to nobody.
Arm(dflt) == [next |-> Nil, dflt |-> dflt, set |-> FALSE]
NewNode(type) ==
  [type |-> type, next |-> Nil, reject |-> Stays, back |-> Stays, late |-> FALSE, set |-> type # "cc",
   arms |-> CASE type = "branch" -> <<Arm(FALSE), Arm(TRUE)>>
              [] type = "parallel" -> <<Arm(FALSE), Arm(FALSE)>>
              [] OTHER -> <<>>]

\* walkTree from a node: the node, what its arms lead to, then its chain.
Links(tree, n) == {tree[n].next} \cup {a.next : a \in Range(tree[n].arms)}
Walk(tree, first) ==
  LET From[n \in DOMAIN tree] == {n} \cup UNION {From[m] : m \in Links(tree, n) \ {Nil}}
  IN IF first = Nil THEN {} ELSE From[first]

\* What a node takes with it when it is removed, and an arm.
Inside(tree, n) == UNION {Walk(tree, a.next) : a \in Range(tree[n].arms)}

\* What serialising the tree from its root keeps (cloneModel, cloneNode).
Clone(tree) == [n \in Walk(tree, Start) |-> tree[n]]

With(tree, n, record) == [m \in DOMAIN tree \cup {n} |-> IF m = n THEN record ELSE tree[m]]

InsertAfter(tree, after, n, type) ==
  With([tree EXCEPT ![after].next = n], n, [NewNode(type) EXCEPT !.next = tree[after].next])

\* insertIntoBranchArm, insertIntoParallelArm.
InsertIntoArm(tree, owner, k, n, type) ==
  With([tree EXCEPT ![owner].arms[k].next = n], n,
       [NewNode(type) EXCEPT !.next = tree[owner].arms[k].next])

\* removeNode: whatever leads to n now leads to its successor.
RemoveNode(tree, n) ==
  LET Past(r) == [r EXCEPT !.next = IF @ = n THEN tree[n].next ELSE @]
  IN Clone([m \in DOMAIN tree |->
              [Past(tree[m]) EXCEPT !.arms = [k \in DOMAIN @ |-> Past(@[k])]]])

\* addBranchArm puts the new arm before the default one, addParallelArm last.
AddArm(tree, n) ==
  [tree EXCEPT ![n].arms =
     IF tree[n].type = "branch"
     THEN InsertAt(@, CHOOSE k \in DOMAIN @ : @[k].dflt, Arm(FALSE))
     ELSE Append(@, Arm(FALSE))]

\* removeBranchArm leaves the default arm alone; removeParallelArm leaves none alone.
Removable(tree, n, k) == tree[n].type = "branch" => ~tree[n].arms[k].dflt
RemoveArm(tree, n, k) == Clone([tree EXCEPT ![n].arms = RemoveAt(@, k)])

------------------------------------------------------------------------------
\* The link that leads to a node: its predecessor in the chain (arm 0), or an arm.
LinkTo(tree, n) ==
  CHOOSE l \in [of : DOMAIN tree, arm : 0..(WfMaxArms + 1)] :
    IF l.arm = 0 THEN tree[l.of].next = n
    ELSE l.arm \in DOMAIN tree[l.of].arms /\ tree[l.of].arms[l.arm].next = n

\* walkTree's parallelArm, WfModelIndex's FindEnclosingParallel and ...ParallelArm.
EnclosingArm(tree, node) ==
  LET In[n \in DOMAIN tree] ==
        IF n = Start THEN NoArm
        ELSE LET l == LinkTo(tree, n)
             IN IF l.arm # 0 /\ tree[l.of].type = "parallel" THEN l ELSE In[l.of]
  IN In[node]

\* FindEnclosingBranch: a parallel arm passes on the branch around the parallel node.
EnclosingBranch(tree, node) ==
  LET In[n \in DOMAIN tree] ==
        IF n = Start THEN Nil
        ELSE LET l == LinkTo(tree, n)
             IN IF l.arm # 0 /\ tree[l.of].type = "branch" THEN l.of ELSE In[l.of]
  IN In[node]

\* Mutant of AllowParallel: only the arm itself is looked at, not what is around it.
AllowParallelMutant(tree, owner, k) == k = 0 \/ tree[owner].type # "parallel"

\* The allowParallel the tree passes down: none inside a parallel arm, at any depth.
AllowParallel(tree, owner, k) ==
  /\ EnclosingArm(tree, owner) = NoArm
  /\ k # 0 => tree[owner].type # "parallel"

\* ResolveMergeTarget: the successor, else that of the nearest branch around that has one.
ResolveMergeTarget(tree, from) ==
  LET Out[n \in DOMAIN tree] ==
        IF tree[n].next # Nil THEN tree[n].next
        ELSE LET b == EnclosingBranch(tree, n) IN IF b = Nil THEN Nil ELSE Out[b]
  IN Out[from]

Join(p) == [join |-> p]
Enter(n) == [enter |-> n]

\* Mutant of Transition: the end of a parallel arm is passed like that of a branch.
TransitionMutant(tree, from) == Enter(ResolveMergeTarget(tree, from))

\* TakeTransitionOp: a child token whose way leads out of its arm completes the arm.
Transition(tree, from) ==
  LET next == ResolveMergeTarget(tree, from)
      arm  == EnclosingArm(tree, from)
  IN IF arm # NoArm /\ (next = Nil \/ EnclosingArm(tree, next).of # arm.of)
     THEN Join(arm.of) ELSE Enter(next)

\* What the drawing means: at the end of an arm the token leaves the construct it is in.
Continuation(tree, from) ==
  LET Up[n \in DOMAIN tree] ==
        IF tree[n].next # Nil THEN Enter(tree[n].next)
        ELSE LET First[m \in DOMAIN tree] ==
                   IF m = Start \/ LinkTo(tree, m).arm # 0 THEN m ELSE First[LinkTo(tree, m).of]
                 h == First[n]
             IN IF h = Start THEN Enter(Nil)
                ELSE IF tree[LinkTo(tree, h).of].type = "parallel" THEN Join(LinkTo(tree, h).of)
                ELSE Up[LinkTo(tree, h).of]
  IN Up[from]

------------------------------------------------------------------------------
ArmsOk(tree, n) == \A a \in Range(tree[n].arms) : a.dflt \/ a.set
Defaults(tree, n) == Cardinality({k \in DOMAIN tree[n].arms : tree[n].arms[k].dflt})
OfType(tree, types) == {n \in DOMAIN tree : tree[n].type \in types}

\* What validateModel and ValidateModelForPublish test in the same way.
CommonIssues(tree) ==
  {c \in {"branchArm", "parallelArmCount", "assigneeUsersRequired", "approvalRequired"} :
     CASE c = "branchArm" -> \E n \in OfType(tree, {"branch"}) : ~ArmsOk(tree, n) \/ Defaults(tree, n) # 1
       [] c = "parallelArmCount" -> \E n \in OfType(tree, {"parallel"}) : Len(tree[n].arms) < 2
       [] c = "assigneeUsersRequired" -> \E n \in OfType(tree, {"cc"}) : ~tree[n].set
       [] c = "approvalRequired" -> OfType(tree, {"approval"}) = {}}

\* Mutant of FrontIssues: a rejection from outside into a parallel arm is accepted.
FrontIssuesMutant(tree) ==
  CommonIssues(tree) \cup
  {c \in {"nestedParallel", "rejectTargetOutsideArm"} :
     CASE c = "nestedParallel" -> \E n \in OfType(tree, {"parallel"}) : EnclosingArm(tree, n) # NoArm
       [] c = "rejectTargetOutsideArm" ->
            \E n \in DOMAIN tree : /\ tree[n].reject \in DOMAIN tree
                                   /\ EnclosingArm(tree, n) \notin {NoArm, EnclosingArm(tree, tree[n].reject)}}

\* validateModel: the codes of the issues it lists.
FrontIssues(tree) ==
  CommonIssues(tree) \cup
  {c \in {"nestedParallel", "rejectTargetOutsideArm"} :
     CASE c = "nestedParallel" -> \E n \in OfType(tree, {"parallel"}) : EnclosingArm(tree, n) # NoArm
       [] c = "rejectTargetOutsideArm" ->
            \E n \in DOMAIN tree : /\ tree[n].reject \in DOMAIN tree
                                   /\ EnclosingArm(tree, n) # EnclosingArm(tree, tree[n].reject)}

\* RequireNodeReference for the target n names, if it is to name one.
Dangling(tree, target) == target \notin DOMAIN tree \cup {Stays}

\* What ValidateNodeReferences refuses and validateModel does not look at.
BackOnly == {"rejectToNodeIdInvalid", "returnToNodeIdInvalid", "timeoutTransferUserIdInvalid"}

\* ValidateModelForPublish: the reasons for which it may refuse.
BackReasons(tree) ==
  CommonIssues(tree) \cup
  {c \in BackOnly \cup {"nestedParallel", "rejectToNodeOutsideParallelArm"} :
     CASE c = "nestedParallel" ->
            \E p, n \in OfType(tree, {"parallel"}) : n \in Inside(tree, p)
       [] c = "rejectToNodeIdInvalid" ->
            \E n \in DOMAIN tree : Dangling(tree, tree[n].reject)
       [] c = "returnToNodeIdInvalid" ->
            \E n \in DOMAIN tree : Dangling(tree, tree[n].back)
       [] c = "timeoutTransferUserIdInvalid" -> \E n \in DOMAIN tree : tree[n].late
       [] c = "rejectToNodeOutsideParallelArm" ->
            \E n \in DOMAIN tree : tree[n].reject \in DOMAIN tree
                                   /\ EnclosingArm(tree, n) # EnclosingArm(tree, tree[n].reject)}

------------------------------------------------------------------------------
\* A new draft, or a definition saved before: a parallel node in the arm of a branch.
Draft == With(<<>>, Start, NewNode("start"))
Saved == InsertIntoArm(InsertAfter(Draft, Start, 1, "branch"), 1, 1, 2, "parallel")

WfInit == wfTree \in {Draft, Saved} /\ wfLastId = 2 /\ wfWanted = DOMAIN wfTree

\* onAddAfter (k = 0), onAddAtArmHead; the menu hides the parallel node where it may not be.
WfAdd(owner, k, type) ==
  LET n == wfLastId + 1
  IN /\ n <= WfMaxNodes /\ k \in 0..Len(wfTree[owner].arms)
     /\ type = "parallel" => AllowParallel(wfTree, owner, k)
     /\ wfLastId' = n /\ wfWanted' = wfWanted \cup {n}
     /\ wfTree' = IF k = 0 THEN InsertAfter(wfTree, owner, n, type)
                           ELSE InsertIntoArm(wfTree, owner, k, n, type)

\* onRemoveNode: the chain closes, the arms go with the node.
WfRemove(n) ==
  /\ n # Start
  /\ wfTree' = RemoveNode(wfTree, n)
  /\ wfWanted' = wfWanted \ ({n} \cup Inside(wfTree, n)) /\ UNCHANGED wfLastId

WfAddArm(n) ==
  /\ wfTree[n].type \in {"branch", "parallel"} /\ Len(wfTree[n].arms) < WfMaxArms
  /\ wfTree' = AddArm(wfTree, n) /\ UNCHANGED <<wfLastId, wfWanted>>

WfRemoveArm(n, k) ==
  /\ k \in DOMAIN wfTree[n].arms /\ Removable(wfTree, n, k)
  /\ wfTree' = RemoveArm(wfTree, n, k)
  /\ wfWanted' = wfWanted \ Walk(wfTree, wfTree[n].arms[k].next) /\ UNCHANGED wfLastId

\* The drawer gives receivers to a copy, conditions to the arms of a branch.
WfConfigure(n) ==
  /\ wfTree[n].type \in {"cc", "branch"}
  /\ wfTree' = [wfTree EXCEPT ![n].set = TRUE,
                              ![n].arms = [k \in DOMAIN @ |-> [@[k] EXCEPT !.set = ~wfTree[n].arms[k].dflt]]]
  /\ UNCHANGED <<wfLastId, wfWanted>>

\* For an approval: where a rejection and a return jump to (any node but itself; Nil: not
\* chosen), and a timeout.
Jumps(tree, n, reject, back, late) ==
  [tree EXCEPT ![n].reject = reject, ![n].back = back, ![n].late = late]

WfSetJumps(n, reject, back, late) ==
  /\ wfTree[n].type = "approval" /\ n \notin {reject, back}
  /\ wfTree' = Jumps(wfTree, n, reject, back, late) /\ UNCHANGED <<wfLastId, wfWanted>>
  /\ Cardinality({m \in DOMAIN wfTree : wfTree'[m].reject # Stays})
       + Cardinality({m \in DOMAIN wfTree : wfTree'[m].back # Stays})
       + Cardinality({m \in DOMAIN wfTree : wfTree'[m].late}) <= WfMaxJumps

WfNext ==
  \E n \in DOMAIN wfTree :
    \/ \E k \in 0..WfMaxArms, type \in NodeTypes \ {"start"} : WfAdd(n, k, type)
    \/ \E k \in 1..WfMaxArms : WfRemoveArm(n, k)
    \/ \E reject, back \in DOMAIN wfTree \cup {Nil, Stays}, late \in BOOLEAN : WfSetJumps(n, reject, back, late)
    \/ WfRemove(n) \/ WfAddArm(n) \/ WfConfigure(n)

------------------------------------------------------------------------------
\* The nodes are those inserted and not removed, each reached by one way.
WfTreeIsWhole ==
  /\ DOMAIN wfTree = wfWanted /\ Walk(wfTree, Start) = wfWanted
  /\ \A n \in wfWanted \ {Start} :
       Cardinality({l \in [of : wfWanted, arm : 0..WfMaxArms] :
          IF l.arm = 0 THEN wfTree[l.of].next = n
          ELSE l.arm \in DOMAIN wfTree[l.of].arms /\ wfTree[l.of].arms[l.arm].next = n}) = 1

\* Every branch has one default arm, its last; no parallel node lies in a parallel arm.
WfStaysRepairable ==
  /\ \A n \in OfType(wfTree, {"branch"}) :
       Defaults(wfTree, n) = 1 /\ Last(wfTree[n].arms).dflt
  /\ \A p \in OfType(wfTree, {"parallel"}) : Inside(wfTree, p) \cap OfType(wfTree, {"parallel"}) = {}

(* Whatever is inserted and removed at any depth, no edit loses the rest of *)
(* a chain or reaches a node by two ways, and no sequence of edits makes a  *)
(* tree the user cannot repair in the drawer or with an arm more.           *)
WfEditsKeepTree == WfTreeIsWhole /\ WfStaysRepairable

(* What the console accepts the server publishes, and what the server       *)
(* publishes the console accepts, but for three things: the console does    *)
(* not see that the target of a rejection or of a return was never chosen   *)
(* or has been removed since, or that a timeout hands over to nobody.       *)
WfServerAgrees ==
  /\ FrontIssues(wfTree) = {} => BackReasons(wfTree) \subseteq BackOnly
  /\ BackReasons(wfTree) = {} => FrontIssues(wfTree) = {}

(* In every tree the editor can make, the engine's search for the next node *)
(* goes where the drawing leads: a token at the end of an arm, however deep *)
(* its branches are nested, comes out of exactly the construct it is in,    *)
(* and never leaves a parallel arm without joining.                         *)
WfEngineFollowsDrawing ==
  \A n \in DOMAIN wfTree : Transition(wfTree, n) = Continuation(wfTree, n)
==============================================================================
