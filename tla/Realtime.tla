------------------------------- MODULE Realtime -------------------------------
(***************************************************************************)
(* The notification connection of the console (composables/useRealtime):   *)
(* one connection per page, opened when the shell is mounted and stopped   *)
(* when it is left, on logout, and when the server forces a logout.        *)
(*                                                                         *)
(* Opening takes a negotiation that is answered, refused or cut short by a *)
(* stop at any later time, when another connection may already exist. The  *)
(* React version waits for the negotiation before it stops, and delays the *)
(* stop of an unmounted shell by one task so that a shell mounted again at *)
(* once keeps its connection.                                              *)
(*                                                                         *)
(* A stopped connection delivers nothing any more: the transport removes   *)
(* its handlers first.                                                     *)
(***************************************************************************)
EXTENDS Naturals, Sequences

CONSTANTS RtMaxConns,     \* bound of the connections built
          RtMaxLogins     \* bound of the logins

ASSUME RtAssumption == RtMaxConns \in Nat /\ RtMaxLogins \in Nat

VARIABLES rtFront,        \* "vue" or "react"
          rtToken,        \* the user store holds an access token
          rtShell,        \* the authenticated shell is mounted
          rtConns,        \* the connections built, in order
          rtConn,         \* connection: index of the singleton, 0 for null
          rtRelease,      \* React's releaseTimer is armed
          rtVoluntary,    \* voluntaryLogout
          rtLogout,       \* logout(): "no", "asked" (the API call is out)
          rtLogin,        \* history: logins so far
          rtWarned        \* history: warnings of a forced logout this page had asked for itself

rtVars == <<rtFront, rtToken, rtShell, rtConns, rtConn, rtRelease, rtVoluntary, rtLogout,
            rtLogin, rtWarned>>

RtTypeOK ==
  /\ rtFront \in {"vue", "react"} /\ rtLogout \in {"no", "asked", "overtaken"}
  /\ rtConns \in Seq([st : {"negotiating", "live", "closed"}, stopping : BOOLEAN, push : BOOLEAN])
  /\ rtConn \in 0..Len(rtConns) /\ rtLogin \in Nat /\ rtWarned \in Nat
  /\ {rtToken, rtShell, rtRelease, rtVoluntary} \subseteq BOOLEAN

RtInit ==
  /\ rtFront \in {"vue", "react"}
  /\ rtToken = FALSE /\ rtShell = FALSE /\ rtConns = <<>> /\ rtConn = 0 /\ rtRelease = FALSE
  /\ rtVoluntary = FALSE /\ rtLogout = "no" /\ rtLogin = 0 /\ rtWarned = 0

\* stop: the singleton is given up at once and closed as soon as it can be. React waits
\* for a negotiation; Vue's stop closes it and lets its start fail.
Stopped(conns, c) ==
  IF c = 0 THEN conns
  ELSE IF conns[c].st = "live" THEN [conns EXCEPT ![c].st = "closed"]
  ELSE [conns EXCEPT ![c].stopping = TRUE]

Stop ==
  /\ rtConns' = Stopped(rtConns, rtConn) /\ rtConn' = 0 /\ rtRelease' = FALSE

(* start, when the shell is mounted. *)
RtMount ==
  /\ rtToken /\ ~rtShell
  /\ rtLogout' = IF rtLogout = "no" THEN "no" ELSE "overtaken"
  /\ rtShell' = TRUE /\ rtRelease' = FALSE
  /\ IF rtConn # 0
     THEN UNCHANGED <<rtConns, rtConn, rtVoluntary>>
     ELSE /\ Len(rtConns) < RtMaxConns
          /\ rtConns' = Append(rtConns, [st |-> "negotiating", stopping |-> FALSE, push |-> FALSE])
          /\ rtConn' = Len(rtConns) + 1
          /\ rtVoluntary' = FALSE
  /\ UNCHANGED <<rtFront, rtToken, rtLogin, rtWarned>>

\* The shell is left, for the application chooser or the login page: Vue stops, React
\* releases.
RtUnmount ==
  /\ rtShell /\ rtShell' = FALSE
  /\ IF rtFront = "vue"
     THEN Stop
     ELSE rtRelease' = TRUE /\ UNCHANGED <<rtConns, rtConn>>
  /\ UNCHANGED <<rtFront, rtToken, rtVoluntary, rtLogout, rtLogin, rtWarned>>

RtReleaseFires ==
  /\ rtRelease /\ Stop
  /\ UNCHANGED <<rtFront, rtToken, rtShell, rtVoluntary, rtLogout, rtLogin, rtWarned>>

\* The negotiation succeeds. React, which awaited it, stops the connection at once.
RtStartOk(c) ==
  /\ rtConns[c].st = "negotiating" /\ (rtFront = "vue" => ~rtConns[c].stopping)
  /\ rtConns' = [rtConns EXCEPT ![c].st = IF rtConns[c].stopping THEN "closed" ELSE "live"]
  /\ UNCHANGED <<rtFront, rtToken, rtShell, rtConn, rtRelease, rtVoluntary, rtLogout, rtLogin, rtWarned>>

\* Mutant of RtStartFail: any failure forgets the singleton.
RtStartFailMutant(c) ==
  /\ rtConns[c].st = "negotiating"
  /\ rtConns' = [rtConns EXCEPT ![c].st = "closed"]
  /\ rtConn' = 0
  /\ UNCHANGED <<rtFront, rtToken, rtShell, rtRelease, rtVoluntary, rtLogout, rtLogin, rtWarned>>

\* The negotiation fails, or Vue's stop has cut it short: only the singleton's own failure
\* forgets the singleton.
RtStartFail(c) ==
  /\ rtConns[c].st = "negotiating"
  /\ rtConns' = [rtConns EXCEPT ![c].st = "closed"]
  /\ rtConn' = IF rtConn = c THEN 0 ELSE rtConn
  /\ UNCHANGED <<rtFront, rtToken, rtShell, rtRelease, rtVoluntary, rtLogout, rtLogin, rtWarned>>

\* Automatic reconnection gives up: nobody is told.
RtDrop(c) ==
  /\ rtConns[c].st = "live"
  /\ rtConns' = [rtConns EXCEPT ![c].st = "closed"]
  /\ UNCHANGED <<rtFront, rtToken, rtShell, rtConn, rtRelease, rtVoluntary, rtLogout, rtLogin, rtWarned>>

\* The server pushes `force-logout' to the live connections of a revoked session.
Pushed(conns) == [c \in DOMAIN conns |-> IF conns[c].st = "live" THEN [conns[c] EXCEPT !.push = TRUE]
                                          ELSE conns[c]]

RtRevokedByOthers ==
  /\ rtToken /\ \E c \in DOMAIN rtConns : rtConns[c].st = "live" /\ ~rtConns[c].push
  /\ rtConns' = Pushed(rtConns)
  /\ UNCHANGED <<rtFront, rtToken, rtShell, rtConn, rtRelease, rtVoluntary, rtLogout, rtLogin, rtWarned>>

\* Mutant of RtLogout: the page does not note that it asked for it.
RtLogoutMutant ==
  /\ rtToken /\ rtShell /\ rtLogout = "no"
  /\ rtLogout' = "asked"
  /\ UNCHANGED <<rtFront, rtToken, rtShell, rtConns, rtConn, rtRelease, rtVoluntary, rtLogin, rtWarned>>

\* logout in the header: beginVoluntaryLogout, then the API call, then the local state.
RtLogout ==
  /\ rtToken /\ rtShell /\ rtLogout = "no"
  /\ rtVoluntary' = TRUE /\ Stop /\ rtLogout' = "asked"
  /\ UNCHANGED <<rtFront, rtToken, rtShell, rtLogin, rtWarned>>

RtLogoutServed ==
  /\ rtLogout # "no" /\ \E c \in DOMAIN rtConns : rtConns[c].st = "live" /\ ~rtConns[c].push
  /\ rtConns' = Pushed(rtConns)
  /\ UNCHANGED <<rtFront, rtToken, rtShell, rtConn, rtRelease, rtVoluntary, rtLogout, rtLogin, rtWarned>>

RtLogoutDone ==
  /\ rtLogout # "no" /\ rtLogout' = "no" /\ rtToken' = FALSE
  /\ UNCHANGED <<rtFront, rtShell, rtConns, rtConn, rtRelease, rtVoluntary, rtLogin, rtWarned>>

\* The handler of `force-logout'.
RtForced(c) ==
  /\ rtConns[c].st = "live" /\ rtConns[c].push
  /\ rtWarned' = IF ~rtVoluntary /\ rtLogout = "asked" THEN rtWarned + 1 ELSE rtWarned
  /\ rtVoluntary' = FALSE /\ rtToken' = FALSE
  /\ Stop
  /\ UNCHANGED <<rtFront, rtShell, rtLogout, rtLogin>>

\* A refresh that fails clears the session; the navigation to the login page follows.
RtExpire ==
  /\ rtToken /\ rtShell /\ rtLogout = "no" /\ rtToken' = FALSE
  /\ UNCHANGED <<rtFront, rtShell, rtConns, rtConn, rtRelease, rtVoluntary, rtLogout, rtLogin, rtWarned>>

\* A login takes a round trip: the zero-delay release timer has fired long before.
RtLoginDone ==
  /\ ~rtToken /\ ~rtShell /\ ~rtRelease /\ rtLogin < RtMaxLogins
  /\ rtToken' = TRUE /\ rtLogin' = rtLogin + 1
  /\ UNCHANGED <<rtFront, rtShell, rtConns, rtConn, rtRelease, rtVoluntary, rtLogout, rtWarned>>

RtNext ==
  \/ RtMount \/ RtUnmount \/ RtReleaseFires \/ RtRevokedByOthers
  \/ RtLogout \/ RtLogoutServed \/ RtLogoutDone \/ RtExpire \/ RtLoginDone
  \/ \E c \in DOMAIN rtConns : RtStartOk(c) \/ RtStartFail(c) \/ RtDrop(c) \/ RtForced(c)

RtSpec == RtInit /\ [][RtNext]_rtVars

------------------------------------------------------------------------------
(* No connection is left behind: one that is open or opening is either the  *)
(* singleton, which logout and unmount will stop, or already being stopped. *)
(* And a shell mounted again keeps its connection: no release of the shell  *)
(* before it is pending, and nothing is stopping the singleton.             *)
RtNoLeak ==
  /\ \A c \in DOMAIN rtConns : rtConns[c].st # "closed" => c = rtConn \/ rtConns[c].stopping
  /\ rtShell => ~rtRelease
  /\ rtConn # 0 => ~rtConns[rtConn].stopping

(* A user who logs out is not told that somebody forced it: between the     *)
(* logout call and its end this page shows no warning, unless the shell was *)
(* left and mounted again within it.                                        *)
RtVoluntaryIsSilent == rtWarned = 0
==============================================================================
