--------------------------------- MODULE Tabs ---------------------------------
(***************************************************************************)
(* The tab bar of the console (stores/tabs) and the navigation it drives.  *)
(*                                                                         *)
(* In the Vue console a navigation is asynchronous: guards and lazy        *)
(* components run while the old page is still current, a newer navigation  *)
(* supersedes an older one, and the router's afterEach, which adds the     *)
(* tab, runs for the superseded and for the refused one too, though not    *)
(* for one that throws. In the React console the location changes at once  *)
(* and an effect adds the tab.                                             *)
(***************************************************************************)
EXTENDS Naturals, Sequences, FiniteSets

CONSTANTS TbHomes,       \* the home pages of the applications
          TbList,        \* a list page: where the back button of a detail page leads
          TbDetail,      \* a detail page
          TbBare,        \* a page that gets no tab: the choice of the application, a 404
          TbNone,        \* no page
          TbMaxStale     \* bound of the superseded navigations that have not settled

TbPaths == TbHomes \cup {TbList, TbDetail}
TbPages == TbPaths \cup {TbBare}

ASSUME TabsAssumption ==
  TbNone \notin TbPages /\ TbBare \notin TbPaths /\ TbHomes # {} /\ TbMaxStale \in Nat

VARIABLES tbFront,       \* "vue" or "react"
          tbTabs,        \* the tabs, in order
          tbCur,         \* path of the current route, TbNone before the first navigation
          tbNav,         \* target of the navigation under way
          tbBack,        \* it was begun by the back button of a detail page
          tbStale,       \* the superseded navigations that have not settled
          tbHome,        \* home page of the current application
          tbPick,        \* home page of the application whose menu is being loaded
          tbOrphan       \* history: the page shown lost its tab as TabsCurrentShown excepts

tabsVars == <<tbFront, tbTabs, tbCur, tbNav, tbBack, tbStale, tbHome, tbPick, tbOrphan>>

PathsOf(tabs) == {tabs[i].path : i \in DOMAIN tabs}
IndexOf(tabs, p) == CHOOSE i \in DOMAIN tabs : tabs[i].path = p
Fixed(t) == t.affix \/ t.pinned

TabsTypeOK ==
  /\ tbFront \in {"vue", "react"} /\ tbHome \in TbHomes
  /\ tbTabs \in Seq([path : TbPaths, affix : BOOLEAN, pinned : BOOLEAN])
  /\ \A i, j \in DOMAIN tbTabs : tbTabs[i].path = tbTabs[j].path => i = j
  /\ {tbCur, tbNav} \subseteq TbPages \cup {TbNone} /\ tbPick \in TbHomes \cup {TbNone}
  /\ tbStale \in [1..TbMaxStale -> [to : TbPages, back : BOOLEAN] \cup {TbNone}]
  /\ tbBack \in BOOLEAN /\ tbOrphan \in BOOLEAN

\* Mutant of AddTab: a path that has a tab gets another one.
AddTabMutant(tabs, p) == Append(tabs, [path |-> p, affix |-> p = tbHome, pinned |-> FALSE])

\* addTab: the application's home page gets a tab that cannot be closed.
AddTab(tabs, p) ==
  IF p \in PathsOf(tabs) \cup {TbBare} THEN tabs
  ELSE Append(tabs, [path |-> p, affix |-> p = tbHome, pinned |-> FALSE])

\* A navigation supersedes the one under way.
Superseded == IF tbNav = TbNone THEN TbNone ELSE [to |-> tbNav, back |-> tbBack]
Supersede ==
  IF tbNav = TbNone THEN UNCHANGED tbStale
  ELSE \E n \in 1..TbMaxStale :
         tbStale[n] = TbNone /\ tbStale' = [tbStale EXCEPT ![n] = Superseded]

\* router.push to p from page cur: afterEach runs at once when it is the current one.
UnderWay(cur, p) == IF p = cur THEN TbNone ELSE p
TabsAt(tabs, cur, p) == IF p = cur THEN AddTab(tabs, p) ELSE tabs

\* router.push / navigate to p with the given tabs; p = TbNone: no navigation.
GoTo(tabs, p) ==
  IF p = TbNone
  THEN /\ tbTabs' = tabs /\ tbOrphan' = (tbOrphan \/ tabs = <<>>)
       /\ UNCHANGED <<tbCur, tbNav, tbStale, tbBack>>
  ELSE IF tbFront = "vue"
  THEN /\ tbTabs' = TabsAt(tabs, tbCur, p) /\ tbNav' = UnderWay(tbCur, p) /\ tbBack' = FALSE
       /\ tbOrphan' = (tbOrphan /\ p # tbCur) /\ Supersede /\ UNCHANGED tbCur
  ELSE tbTabs' = AddTab(tabs, p) /\ tbCur' = p /\ tbOrphan' = FALSE /\ UNCHANGED <<tbNav, tbStale, tbBack>>

TabsInit ==
  /\ tbFront \in {"vue", "react"} /\ tbHome \in TbHomes
  /\ \E p \in TbPaths \ (TbHomes \ {tbHome}) :
       IF tbFront = "vue"
       THEN tbTabs = <<>> /\ tbCur = TbNone /\ tbNav = p
       ELSE tbTabs = <<[path |-> p, affix |-> p = tbHome, pinned |-> FALSE]>> /\ tbCur = p /\ tbNav = TbNone
  /\ tbStale = [n \in 1..TbMaxStale |-> TbNone] /\ tbBack = FALSE
  /\ tbPick = TbNone /\ tbOrphan = FALSE

\* A menu entry or a tab is clicked, or the browser goes back or forward; in Vue the entry
\* of the page shown cancels the navigation under way, in React it changes nothing.
TabsOpen(p) ==
  /\ tbCur # TbNone /\ p \notin TbHomes \ {tbHome} /\ (tbFront = "vue" \/ p # tbCur)
  /\ GoTo(tbTabs, p)
  /\ UNCHANGED <<tbFront, tbHome, tbPick>>

\* Array.filter: the tabs at the places of I, in order.
Keep(tabs, I) ==
  LET Kept[n \in 0..Len(tabs)] ==
        IF n = 0 THEN <<>>
        ELSE IF n \in I THEN Append(Kept[n - 1], tabs[n]) ELSE Kept[n - 1]
  IN Kept[Len(tabs)]

FixedIn(tabs) == {i \in DOMAIN tabs : Fixed(tabs[i])}

\* removeTab: the tabs it leaves, and the neighbour it navigates to from the active tab.
Without(tabs, p) == Keep(tabs, {i \in DOMAIN tabs : tabs[i].path # p})
Closable(tabs, p) == p \in PathsOf(tabs) /\ ~Fixed(tabs[IndexOf(tabs, p)])
Neighbour(tabs, p) ==
  LET rest == Without(tabs, p)
      i    == IndexOf(tabs, p)
  IN IF rest = <<>> THEN IF tbFront = "vue" THEN tbHome ELSE TbNone
     ELSE rest[IF i <= Len(rest) THEN i ELSE Len(rest)].path

\* Mutant of TabsRemove: the active tab goes and the page stays.
TabsRemoveMutant(p) ==
  /\ Closable(tbTabs, p)
  /\ GoTo(Without(tbTabs, p), TbNone)
  /\ UNCHANGED <<tbFront, tbHome, tbPick>>

TabsRemove(p) ==
  /\ Closable(tbTabs, p)
  /\ GoTo(Without(tbTabs, p), IF p = tbCur THEN Neighbour(tbTabs, p) ELSE TbNone)
  /\ UNCHANGED <<tbFront, tbHome, tbPick>>

\* _ensureActive: where to go when the current page has lost its tab.
EnsureActive(tabs, prefer) ==
  IF tbCur \in PathsOf(tabs) \/ tabs = <<>> THEN TbNone
  ELSE IF prefer \in PathsOf(tabs) THEN prefer ELSE tabs[Len(tabs)].path

Batch(tabs, prefer) ==
  /\ GoTo(tabs, EnsureActive(tabs, prefer))
  /\ UNCHANGED <<tbFront, tbHome, tbPick>>

TabsCloseOthers(p) == Batch(Keep(tbTabs, FixedIn(tbTabs) \cup {IndexOf(tbTabs, p)}), p)
TabsCloseAll == Batch(Keep(tbTabs, FixedIn(tbTabs)), tbHome)
TabsCloseLeft(p) ==
  LET i == IndexOf(tbTabs, p)
  IN i > 1 /\ Batch(Keep(tbTabs, FixedIn(tbTabs) \cup i..Len(tbTabs)), p)
TabsCloseRight(p) ==
  Batch(Keep(tbTabs, FixedIn(tbTabs) \cup 1..IndexOf(tbTabs, p)), p)

TabsTogglePin(p) ==
  /\ ~tbTabs[IndexOf(tbTabs, p)].affix
  /\ tbTabs' = [tbTabs EXCEPT ![IndexOf(tbTabs, p)].pinned = ~@]
  /\ UNCHANGED <<tbFront, tbCur, tbNav, tbStale, tbBack, tbHome, tbPick, tbOrphan>>

\* An application is chosen and its menu asked for, which may fail; the user may go on.
TabsPick(home) ==
  /\ tbCur = TbBare /\ tbPick = TbNone /\ tbPick' = home
  /\ UNCHANGED <<tbFront, tbTabs, tbCur, tbNav, tbBack, tbStale, tbHome, tbOrphan>>
TabsPickFails ==
  /\ tbPick # TbNone /\ tbPick' = TbNone
  /\ UNCHANGED <<tbFront, tbTabs, tbCur, tbNav, tbBack, tbStale, tbHome, tbOrphan>>

(* switchModule: with the menu there, the tabs are cleared and the new home  *)
(* page is navigated to. When React is there already, the effect has run for *)
(* the new menu before the tabs were cleared, or runs after.                 *)
TabsSwitch ==
  LET tab == [path |-> tbPick, affix |-> TRUE, pinned |-> FALSE]
  IN /\ tbPick # TbNone /\ tbHome' = tbPick /\ tbPick' = TbNone
     /\ IF tbFront = "vue"
        THEN /\ tbTabs' = (IF tbPick = tbCur THEN <<tab>> ELSE <<>>)
             /\ tbNav' = UnderWay(tbCur, tbPick) /\ tbBack' = FALSE /\ Supersede
             /\ UNCHANGED <<tbCur, tbOrphan>>
        ELSE /\ \E tabs \in {<<tab>>} \cup (IF tbPick = tbCur THEN {<<>>} ELSE {}) :
                  tbTabs' = tabs /\ tbOrphan' = (tabs = <<>>)
             /\ tbCur' = tbPick /\ UNCHANGED <<tbNav, tbStale, tbBack>>
     /\ UNCHANGED tbFront

\* The page is loaded again: the tabs come back from the session storage.
TabsReload ==
  /\ tbCur # TbNone /\ tbBack' = FALSE /\ tbPick' = TbNone
  /\ tbStale' = [n \in 1..TbMaxStale |-> TbNone]
  /\ IF tbFront = "vue"
     THEN tbCur' = TbNone /\ tbNav' = tbCur /\ UNCHANGED <<tbTabs, tbOrphan>>
     ELSE tbTabs' = AddTab(tbTabs, tbCur) /\ tbOrphan' = FALSE /\ UNCHANGED <<tbCur, tbNav>>
  /\ UNCHANGED <<tbFront, tbHome>>

(* The back button of the workflow detail page. React closes the tab of the *)
(* detail, then navigates; Vue navigates, and its `.then' removes the tab   *)
(* of route.path: the page navigated to by then, or, when the navigation    *)
(* was superseded or refused, whatever page is current.                     *)
TabsBackReact ==
  /\ tbFront = "react" /\ tbCur = TbDetail
  /\ GoTo(IF Closable(tbTabs, TbDetail) THEN Without(tbTabs, TbDetail) ELSE tbTabs, TbList)
  /\ UNCHANGED <<tbFront, tbHome, tbPick>>

TabsBackVue ==
  /\ tbFront = "vue" /\ tbCur = TbDetail
  /\ tbNav' = TbList /\ tbBack' = TRUE /\ Supersede
  /\ UNCHANGED <<tbFront, tbTabs, tbCur, tbHome, tbPick, tbOrphan>>

\* That `.then', at page cur: the tabs it leaves, and the navigation under way.
Closes(tabs, cur, back) == back /\ Closable(tabs, cur)
ThenTabs(tabs, cur, back) ==
  IF Closes(tabs, cur, back) THEN TabsAt(Without(tabs, cur), cur, Neighbour(tabs, cur)) ELSE tabs
ThenNav(tabs, cur, back, nav) ==
  IF Closes(tabs, cur, back) THEN UnderWay(cur, Neighbour(tabs, cur)) ELSE nav

\* The navigation under way is confirmed: afterEach, then the `.then'.
TabsArrive ==
  /\ tbNav # TbNone
  /\ LET tabs == AddTab(tbTabs, tbNav)
     IN /\ tbCur' = tbNav /\ tbOrphan' = FALSE /\ tbBack' = FALSE
        /\ tbTabs' = ThenTabs(tabs, tbNav, tbBack) /\ tbNav' = ThenNav(tabs, tbNav, tbBack, TbNone)
  /\ UNCHANGED <<tbFront, tbStale, tbHome, tbPick>>

\* A page refuses to be left: afterEach and the `.then' run all the same. A guard or a lazy
\* component throws: neither runs. The first navigation ends at the page for its errors.
TabsFail ==
  /\ tbNav # TbNone /\ tbCur # TbNone /\ tbBack' = FALSE
  /\ \/ LET tabs == AddTab(tbTabs, tbNav)
        IN /\ tbTabs' = ThenTabs(tabs, tbCur, tbBack) /\ tbNav' = ThenNav(tabs, tbCur, tbBack, TbNone)
     \/ tbNav' = TbNone /\ UNCHANGED tbTabs
  /\ tbOrphan' = (tbOrphan \/ (tbNav' = TbNone /\ tbCur \notin PathsOf(tbTabs)'))
  /\ UNCHANGED <<tbFront, tbCur, tbStale, tbHome, tbPick>>

\* A superseded navigation settles, with a failure that neither afterEach nor the `.then'
\* looks at, or by throwing.
TabsSettle(n) ==
  /\ tbStale[n] # TbNone
  /\ \/ LET tabs == AddTab(tbTabs, tbStale[n].to)
            back == tbStale[n].back
        IN /\ tbTabs' = ThenTabs(tabs, tbCur, back) /\ tbNav' = ThenNav(tabs, tbCur, back, tbNav)
           /\ tbBack' = (tbBack /\ ~Closes(tabs, tbCur, back))
           /\ tbStale' = [tbStale EXCEPT ![n] = IF Closes(tabs, tbCur, back) THEN Superseded ELSE TbNone]
     \/ tbStale' = [tbStale EXCEPT ![n] = TbNone] /\ UNCHANGED <<tbTabs, tbNav, tbBack>>
  /\ UNCHANGED <<tbFront, tbCur, tbHome, tbPick, tbOrphan>>

TabsNext ==
  \/ \E p \in TbPages : TabsOpen(p)
  \/ \E n \in 1..TbMaxStale : TabsSettle(n)
  \/ /\ tbCur # TbNone
     /\ \/ TabsCloseAll
        \/ \E p \in PathsOf(tbTabs) : \/ TabsRemove(p) \/ TabsTogglePin(p)
                                      \/ TabsCloseOthers(p) \/ TabsCloseLeft(p) \/ TabsCloseRight(p)
  \/ TabsBackReact \/ TabsBackVue \/ TabsArrive \/ TabsFail
  \/ \E home \in TbHomes : TabsPick(home)
  \/ TabsPickFails \/ TabsSwitch \/ TabsReload

------------------------------------------------------------------------------
(* Whatever is closed while navigations are under way, superseded, refused   *)
(* or settling late, the page shown has its tab once nothing is under way.   *)
(* The exceptions, until the next page is reached: the last tab was closed   *)
(* and the code navigated nowhere (with all others when none is fixed, and   *)
(* alone in React); the navigation away from a page whose tab was closed     *)
(* failed; and React was left at the home page whose tab a switch cleared.   *)
TabsCurrentShown == tbNav = TbNone /\ tbCur \in TbPaths /\ ~tbOrphan => tbCur \in PathsOf(tbTabs)
==============================================================================
