------------------------------ MODULE MCConsole ------------------------------
(***************************************************************************)
(* The parts of the web console, one of them acting at a time. They share  *)
(* no state, so a behaviour of the console is one of each part, and the    *)
(* part in focus meets every state it can be in while the others rest in   *)
(* an initial state.                                                       *)
(***************************************************************************)
EXTENDS DictPage, SerialPoller, Realtime, Tabs, ChunkUpload, LoginPage, WfModel,
        ClientSession, RequestKey

VARIABLE focus     \* the part that acts

Parts == {"dict", "dictPage", "poller", "realtime", "tabs", "upload", "login", "designer",
          "session", "key"}

\* A part with several initial states rests in one of them.
AtRest ==
  /\ focus = "dictPage" \/ pFront = "vue"
  /\ focus = "realtime" \/ rtFront = "vue"
  /\ focus = "tabs" \/ (tbFront = "vue" /\ tbNav = tbHome)
  /\ focus = "login" \/ (lpFront = "vue" /\ ~lpLink)
  /\ focus = "designer" \/ wfTree = Draft
  /\ focus = "key" \/ (rkFront = "vue" /\ rkPage = "start")

ConsoleInit ==
  /\ focus \in Parts
  /\ DictPageInit /\ PollInit /\ RtInit /\ TabsInit /\ CuInit /\ LpInit /\ WfInit
  /\ SessionInit /\ RkInit
  /\ AtRest

\* What the actions of a part leave alone.
Others(part) ==
  /\ focus = part /\ UNCHANGED focus
  /\ IF part \in {"dict", "dictPage"} THEN TRUE ELSE UNCHANGED dictVars
  /\ IF part = "dictPage" THEN TRUE ELSE UNCHANGED pageVars
  /\ IF part = "poller"   THEN TRUE ELSE UNCHANGED pollVars
  /\ IF part = "realtime" THEN TRUE ELSE UNCHANGED rtVars
  /\ IF part = "tabs"     THEN TRUE ELSE UNCHANGED tabsVars
  /\ IF part = "upload"   THEN TRUE ELSE UNCHANGED cuVars
  /\ IF part = "login"    THEN TRUE ELSE UNCHANGED loginVars
  /\ IF part = "designer" THEN TRUE ELSE UNCHANGED wfVars
  /\ IF part = "session"  THEN TRUE ELSE UNCHANGED sessionVars
  /\ IF part = "key"      THEN TRUE ELSE UNCHANGED rkVars

ConsoleNext ==
  \/ Others("dict") /\ DictNext
  \/ Others("dictPage") /\ DictPageNext
  \/ Others("poller") /\ PollNext
  \/ Others("realtime") /\ RtNext
  \/ Others("tabs") /\ TabsNext
  \/ Others("upload") /\ CuNext
  \/ Others("login") /\ LpNext
  \/ Others("designer") /\ WfNext
  \/ Others("session") /\ SessionNext
  \/ Others("key") /\ RkNext

\* Bound: beside the page the selects of other pages make all requests but one, and
\* of the loads and edits of the page and these requests there are at most four.
PageReqs == focus = "dictPage" =>
  /\ dReq[CHOOSE r \in DictReqs : TRUE] = Unused
  /\ Len(pLoads) + Cardinality({e \in DictEdits : pEdits[e] # NoEdit})
       + Cardinality({r \in DictReqs : dReq[r] # Unused}) <= 4

\* Bound: one tab is pinned at a time.
OnePin == Cardinality({i \in DOMAIN tbTabs : tbTabs[i].pinned}) <= 1

\* Bound: a second captcha ticket or a second message, not both.
TicketsAndSends == lpIssued.tickets + lpIssued.sends <= 3

\* Bound: three submissions or three intents, not both.
TriesAndIntents == Len(rkTries) + rkIntent <= 5

\* The steps TLC takes: those of ConsoleNext within the bounds.
BoundedNext == ConsoleNext /\ (PageReqs /\ OnePin /\ TicketsAndSends /\ TriesAndIntents)'

\* Which edit or which application is which does not matter.
Symmetry == Permutations(DictEdits) \cup Permutations(TbHomes)

(* The types of the state of every part, with the relations between its     *)
(* variables that make each a state of the program.                         *)
ConsoleTypeOK ==
  /\ DictTypeOK /\ PollTypeOK /\ RtTypeOK /\ TabsTypeOK /\ CuTypeOK /\ LpTypeOK /\ WfTypeOK
  /\ SsTypeOK /\ RkTypeOK
==============================================================================
