---------------------------- MODULE ConsoleProofs ----------------------------
(***************************************************************************)
(* The parts of the console, for any number of connections, types, requests, *)
(* loads, visits, tabs, chunks, workers, attempts, tickets and messages, and *)
(* the console as their composition. The HTTP client, the request keys and *)
(* the workflow designer have proof modules of their own.                  *)
(***************************************************************************)
EXTENDS MCConsole, HttpProofs, WfModelProofs

(***************************************************************************)
(* The realtime connection. A live connection is never being stopped:      *)
(* React closes one whose negotiation ends late, in Vue it cannot end well.*)
(* So while the page's logout is out, which has given the singleton up,    *)
(* nothing is left that could deliver the forced logout it provokes.       *)
(***************************************************************************)
LiveIsNotStopping == \A c \in DOMAIN rtConns : rtConns[c].st = "live" => ~rtConns[c].stopping

AskedHasNone == rtLogout = "asked" => rtConn = 0

Conn == [st : {"negotiating", "live", "closed"}, stopping : BOOLEAN, push : BOOLEAN]

ConnsTyped == rtConns \in Seq(Conn) /\ rtConn \in 0..Len(rtConns)

RtInv == ConnsTyped /\ RtNoLeak /\ LiveIsNotStopping /\ AskedHasNone /\ RtVoluntaryIsSilent

LEMMA RtInitInv == RtInit => RtInv
BY DEF RtInit, RtInv, ConnsTyped, RtNoLeak, LiveIsNotStopping, AskedHasNone, RtVoluntaryIsSilent

\* What stop does to the connections.
LEMMA StopFacts ==
  ASSUME RtInv, Stop
  PROVE  /\ rtConns' \in Seq(Conn) /\ DOMAIN rtConns' = DOMAIN rtConns /\ rtConn' = 0
         /\ Len(rtConns') = Len(rtConns)
         /\ \A c \in DOMAIN rtConns :
              /\ rtConns'[c].st # "closed" => rtConns'[c].stopping
              /\ rtConns'[c].st = "live" => ~rtConns'[c].stopping
<1>1. /\ rtConns \in Seq(Conn) /\ rtConn \in 0..Len(rtConns) /\ RtNoLeak /\ LiveIsNotStopping
      /\ DOMAIN rtConns = 1..Len(rtConns) /\ Len(rtConns) \in Nat
      /\ \A c \in DOMAIN rtConns : rtConns[c] \in Conn
  BY DEF RtInv, ConnsTyped
<1>2. CASE rtConn = 0
  BY <1>1, <1>2 DEF Stop, Stopped, RtNoLeak, LiveIsNotStopping
<1>3. CASE rtConn # 0
  <2>1. rtConn \in DOMAIN rtConns
    BY <1>1, <1>3
  <2>2. \/ /\ rtConns[rtConn].st = "live"
           /\ rtConns' = [rtConns EXCEPT ![rtConn] = [rtConns[rtConn] EXCEPT !.st = "closed"]]
        \/ /\ rtConns[rtConn].st # "live"
           /\ rtConns' = [rtConns EXCEPT ![rtConn] = [rtConns[rtConn] EXCEPT !.stopping = TRUE]]
    BY <1>3 DEF Stop, Stopped
  <2>3. /\ [rtConns[rtConn] EXCEPT !.st = "closed"] \in Conn
        /\ [rtConns[rtConn] EXCEPT !.stopping = TRUE] \in Conn
    BY <1>1, <2>1 DEF Conn
  <2>4. rtConns' \in Seq(Conn) /\ DOMAIN rtConns' = DOMAIN rtConns /\ Len(rtConns') = Len(rtConns)
    <3>1. PICK x \in Conn : rtConns' = [rtConns EXCEPT ![rtConn] = x]
      BY <2>2, <2>3
    <3>2. QED BY <1>1, <2>1, <3>1
  <2>5. \A c \in DOMAIN rtConns : c # rtConn => rtConns'[c] = rtConns[c]
    BY <1>1, <2>2
  <2>6. /\ rtConns'[rtConn].st # "closed" => rtConns'[rtConn].stopping
        /\ rtConns'[rtConn].st # "live"
    BY <1>1, <2>1, <2>2 DEF Conn
  <2>7. QED BY <1>1, <2>4, <2>5, <2>6 DEF Stop, RtNoLeak, LiveIsNotStopping
<1>4. QED BY <1>2, <1>3

\* A step that changes one connection only: it closes it, or its negotiation
\* ends while nothing stops it.
LEMMA OneConnKeepsInv ==
  ASSUME RtInv, NEW c \in DOMAIN rtConns,
         rtConns' \in Seq(Conn), Len(rtConns') = Len(rtConns),
         \A d \in DOMAIN rtConns : d # c => rtConns'[d] = rtConns[d],
         rtConns'[c].st # "closed" => rtConns[c].st # "closed" /\ ~rtConns[c].stopping,
         rtConns'[c].stopping = rtConns[c].stopping,
         rtConn' = rtConn \/ (rtConn' = 0 /\ rtConn = c /\ rtConns'[c].st = "closed"),
         UNCHANGED <<rtShell, rtRelease, rtLogout, rtWarned>>
  PROVE  RtInv'
<1>1. /\ rtConns \in Seq(Conn) /\ rtConn \in 0..Len(rtConns) /\ RtNoLeak /\ LiveIsNotStopping
      /\ DOMAIN rtConns = 1..Len(rtConns) /\ Len(rtConns) \in Nat /\ DOMAIN rtConns' = DOMAIN rtConns
  BY DEF RtInv, ConnsTyped
<1>2. ConnsTyped'
  BY <1>1 DEF ConnsTyped
<1>3. RtNoLeak'
  BY <1>1 DEF RtNoLeak
<1>4. LiveIsNotStopping' /\ AskedHasNone' /\ RtVoluntaryIsSilent'
  BY <1>1 DEF RtInv, LiveIsNotStopping, AskedHasNone, RtVoluntaryIsSilent
<1>5. QED BY <1>2, <1>3, <1>4 DEF RtInv

\* A push changes nothing but the flag of live connections.
LEMMA PushKeepsInv ==
  ASSUME RtInv, rtConns' = Pushed(rtConns),
         UNCHANGED <<rtFront, rtToken, rtShell, rtConn, rtRelease, rtVoluntary, rtLogout, rtLogin, rtWarned>>
  PROVE  RtInv'
<1>1. /\ rtConns \in Seq(Conn) /\ rtConn \in 0..Len(rtConns) /\ RtNoLeak /\ LiveIsNotStopping
      /\ DOMAIN rtConns = 1..Len(rtConns) /\ Len(rtConns) \in Nat
      /\ \A d \in DOMAIN rtConns : rtConns[d] \in Conn
  BY DEF RtInv, ConnsTyped
<1>2. rtConns' = [c \in 1..Len(rtConns) |-> IF rtConns[c].st = "live" THEN [rtConns[c] EXCEPT !.push = TRUE]
                                             ELSE rtConns[c]]
  BY <1>1 DEF Pushed
<1>3. ASSUME NEW c \in 1..Len(rtConns)
      PROVE  /\ rtConns'[c] \in Conn /\ rtConns'[c].st = rtConns[c].st
             /\ rtConns'[c].stopping = rtConns[c].stopping
  <2>1. CASE rtConns[c].st = "live"
    <3>1. rtConns'[c] = [rtConns[c] EXCEPT !.push = TRUE]
      BY <1>2, <2>1
    <3>2. QED BY <1>1, <3>1 DEF Conn
  <2>2. CASE rtConns[c].st # "live"
    <3>1. rtConns'[c] = rtConns[c]
      BY <1>2, <2>2
    <3>2. QED BY <1>1, <3>1
  <2>3. QED BY <2>1, <2>2
<1>4. rtConns' \in Seq(Conn) /\ DOMAIN rtConns' = DOMAIN rtConns /\ Len(rtConns') = Len(rtConns)
  BY <1>1, <1>2, <1>3
<1>5. ConnsTyped'
  BY <1>1, <1>4 DEF RtInv, ConnsTyped
<1>6. RtNoLeak'
  BY <1>1, <1>3, <1>4 DEF RtNoLeak
<1>7. LiveIsNotStopping' /\ AskedHasNone' /\ RtVoluntaryIsSilent'
  BY <1>1, <1>3, <1>4 DEF RtInv, LiveIsNotStopping, AskedHasNone, RtVoluntaryIsSilent
<1>8. QED BY <1>5, <1>6, <1>7 DEF RtInv

LEMMA MountKeepsInv == ASSUME RtInv, RtMount PROVE RtInv'
<1>1. /\ rtConns \in Seq(Conn) /\ rtConn \in 0..Len(rtConns) /\ RtNoLeak /\ LiveIsNotStopping
      /\ DOMAIN rtConns = 1..Len(rtConns) /\ Len(rtConns) \in Nat
      /\ rtShell' = TRUE /\ rtRelease' = FALSE /\ rtLogout' \in {"no", "overtaken"}
      /\ UNCHANGED <<rtFront, rtToken, rtLogin, rtWarned>>
  BY DEF RtInv, ConnsTyped, RtMount
<1>2. CASE rtConn # 0
  BY <1>1, <1>2 DEF RtMount, RtInv, ConnsTyped, RtNoLeak, LiveIsNotStopping, AskedHasNone,
                    RtVoluntaryIsSilent
<1>3. CASE rtConn = 0
  <2> DEFINE x == [st |-> "negotiating", stopping |-> FALSE, push |-> FALSE]
  <2>1. /\ rtConns' = Append(rtConns, x) /\ rtConn' = Len(rtConns) + 1 /\ rtVoluntary' = FALSE
        /\ x \in Conn
    BY <1>3 DEF RtMount, Conn
  <2>2. x.st = "negotiating" /\ x.stopping = FALSE
    OBVIOUS
  <2> HIDE DEF x
  <2>3. /\ rtConns' \in Seq(Conn) /\ DOMAIN rtConns' = 1..(Len(rtConns) + 1)
        /\ Len(rtConns') = Len(rtConns) + 1 /\ rtConns'[Len(rtConns) + 1] = x
        /\ \A c \in 1..Len(rtConns) : rtConns'[c] = rtConns[c]
    BY <1>1, <2>1
  <2>4. ConnsTyped'
    BY <1>1, <2>1, <2>3 DEF RtInv, ConnsTyped
  <2>5. RtNoLeak'
    BY <1>1, <1>3, <2>1, <2>2, <2>3 DEF RtNoLeak
  <2>6. LiveIsNotStopping' /\ AskedHasNone' /\ RtVoluntaryIsSilent'
    BY <1>1, <2>2, <2>3 DEF RtInv, LiveIsNotStopping, AskedHasNone, RtVoluntaryIsSilent
  <2>7. QED BY <2>4, <2>5, <2>6 DEF RtInv
<1>4. QED BY <1>2, <1>3

\* The steps that stop the singleton.
LEMMA StoppingKeepsInv ==
  ASSUME RtInv, Stop, rtWarned' = rtWarned, rtFront' = rtFront, rtLogin' = rtLogin,
         rtLogout' \in {"asked", rtLogout}
  PROVE  RtInv'
<1>1. /\ rtConns' \in Seq(Conn) /\ DOMAIN rtConns' = DOMAIN rtConns /\ rtConn' = 0
      /\ Len(rtConns') = Len(rtConns) /\ rtRelease' = FALSE /\ Len(rtConns) \in Nat
      /\ \A c \in DOMAIN rtConns :
           /\ rtConns'[c].st # "closed" => rtConns'[c].stopping
           /\ rtConns'[c].st = "live" => ~rtConns'[c].stopping
  <2>1. Len(rtConns) \in Nat /\ rtRelease' = FALSE
    BY DEF Stop, RtInv, ConnsTyped
  <2>2. QED BY <2>1, StopFacts
<1>2. ConnsTyped'
  BY <1>1 DEF RtInv, ConnsTyped
<1>3. RtNoLeak' /\ LiveIsNotStopping' /\ AskedHasNone' /\ RtVoluntaryIsSilent'
  BY <1>1 DEF RtInv, RtNoLeak, LiveIsNotStopping, AskedHasNone, RtVoluntaryIsSilent
<1>4. QED BY <1>2, <1>3 DEF RtInv

\* The forced logout reaches no page whose own logout is out.
LEMMA ForcedIsAnnounced ==
  ASSUME RtInv, NEW c \in DOMAIN rtConns, RtForced(c)
  PROVE  rtWarned' = rtWarned
<1>1. rtConns[c].st = "live"
  BY DEF RtForced
<1>2. c = rtConn /\ c # 0
  BY <1>1 DEF RtInv, ConnsTyped, RtNoLeak, LiveIsNotStopping
<1>3. rtLogout # "asked"
  BY <1>2 DEF RtInv, AskedHasNone
<1>4. QED BY <1>3 DEF RtForced

LEMMA RtNextInv == RtInv /\ [RtNext]_rtVars => RtInv'
<1> SUFFICES ASSUME RtInv, [RtNext]_rtVars PROVE RtInv'
  OBVIOUS
<1>1. rtConns \in Seq(Conn) /\ \A c \in DOMAIN rtConns : rtConns[c] \in Conn
  BY DEF RtInv, ConnsTyped
<1>2. CASE UNCHANGED rtVars
  BY <1>2 DEF rtVars, RtInv, ConnsTyped, RtNoLeak, LiveIsNotStopping, AskedHasNone, RtVoluntaryIsSilent
<1>3. CASE RtMount
  BY <1>3, MountKeepsInv
<1>4. CASE RtUnmount
  <2>1. CASE rtFront = "vue"
    BY <1>1, <1>4, <2>1, StoppingKeepsInv DEF RtUnmount
  <2>2. CASE rtFront # "vue"
    BY <1>4, <2>2 DEF RtUnmount, RtInv, ConnsTyped, RtNoLeak, LiveIsNotStopping, AskedHasNone,
                      RtVoluntaryIsSilent
  <2>3. QED BY <2>1, <2>2
<1>5. CASE RtReleaseFires
  BY <1>1, <1>5, StoppingKeepsInv DEF RtReleaseFires
<1>6. CASE RtRevokedByOthers \/ RtLogoutServed
  BY <1>6, PushKeepsInv DEF RtRevokedByOthers, RtLogoutServed
<1>7. CASE RtLogout
  BY <1>1, <1>7, StoppingKeepsInv DEF RtLogout
<1>8. CASE RtLogoutDone \/ RtExpire \/ RtLoginDone
  BY <1>8 DEF RtLogoutDone, RtExpire, RtLoginDone, RtInv, ConnsTyped, RtNoLeak, LiveIsNotStopping,
              AskedHasNone, RtVoluntaryIsSilent
<1>9. ASSUME NEW c \in DOMAIN rtConns, RtStartOk(c) PROVE RtInv'
  <2> DEFINE x == [rtConns[c] EXCEPT !.st = IF rtConns[c].stopping THEN "closed" ELSE "live"]
  <2>1. /\ rtConns' = [rtConns EXCEPT ![c] = x] /\ rtConns[c].st = "negotiating"
        /\ UNCHANGED <<rtShell, rtConn, rtRelease, rtLogout, rtWarned>>
    BY <1>9 DEF RtStartOk
  <2>2. x \in Conn /\ x.stopping = rtConns[c].stopping /\ (x.st # "closed" => ~rtConns[c].stopping)
    BY <1>1 DEF Conn
  <2> HIDE DEF x
  <2>3. /\ rtConns' \in Seq(Conn) /\ Len(rtConns') = Len(rtConns) /\ rtConns'[c] = x
        /\ \A d \in DOMAIN rtConns : d # c => rtConns'[d] = rtConns[d]
    BY <1>1, <2>1, <2>2
  <2>4. QED BY <2>1, <2>2, <2>3, OneConnKeepsInv
<1>10. ASSUME NEW c \in DOMAIN rtConns, RtStartFail(c) \/ RtDrop(c) PROVE RtInv'
  <2> DEFINE x == [rtConns[c] EXCEPT !.st = "closed"]
  <2>1. /\ rtConns' = [rtConns EXCEPT ![c] = x]
        /\ rtConn' = rtConn \/ (rtConn' = 0 /\ rtConn = c)
        /\ UNCHANGED <<rtShell, rtRelease, rtLogout, rtWarned>>
    BY <1>10 DEF RtStartFail, RtDrop
  <2>2. x \in Conn /\ x.stopping = rtConns[c].stopping /\ x.st = "closed"
    BY <1>1 DEF Conn
  <2> HIDE DEF x
  <2>3. /\ rtConns' \in Seq(Conn) /\ Len(rtConns') = Len(rtConns) /\ rtConns'[c] = x
        /\ \A d \in DOMAIN rtConns : d # c => rtConns'[d] = rtConns[d]
    BY <1>1, <2>1, <2>2
  <2>4. QED BY <2>1, <2>2, <2>3, OneConnKeepsInv
<1>11. ASSUME NEW c \in DOMAIN rtConns, RtForced(c) PROVE RtInv'
  BY <1>1, <1>11, ForcedIsAnnounced, StoppingKeepsInv DEF RtForced
<1>12. QED BY <1>2, <1>3, <1>4, <1>5, <1>6, <1>7, <1>8, <1>9, <1>10, <1>11 DEF RtNext

(* Whatever negotiations, stops, unmounts and remounts overlap, no          *)
(* connection is left that neither a logout nor an unmount will stop, and   *)
(* the singleton is never one that is being stopped (useRealtime).          *)
THEOREM NoLeak == RtSpec => []RtNoLeak
<1>1. RtInv => RtNoLeak
  BY DEF RtInv
<1>2. QED BY RtInitInv, RtNextInv, <1>1, PTL DEF RtSpec

(* A user who logs out is never told that somebody forced it.               *)
THEOREM VoluntaryIsSilent == RtSpec => []RtVoluntaryIsSilent
<1>1. RtInv => RtVoluntaryIsSilent
  BY DEF RtInv
<1>2. QED BY RtInitInv, RtNextInv, <1>1, PTL DEF RtSpec

(***************************************************************************)
(* The dictionary cache. What is cached follows from what is pending: an   *)
(* answer is written only by the request that is registered, and one       *)
(* registered now was asked for after the last invalidation, so that what  *)
(* the server read for it is not older.                                    *)
(***************************************************************************)
Alive    == {"asked", "read", "lost", "settling"}
Answered == {"read", "settling"}

FloorIsPast == \A t \in DictTypes : dFloor[t] <= dSrv[t]

PendingIsFresh ==
  \A t \in DictTypes : dPending[t] # DictNone =>
    /\ dReq[dPending[t]].type = t /\ dReq[dPending[t]].st \in Alive
    /\ dReq[dPending[t]].st \in Answered => dReq[dPending[t]].ver >= dFloor[t]

RequestHasType == \A r \in DictReqs : dReq[r].st \in Alive => dReq[r].type \in DictTypes
AskedIsServable ==
  \A r \in DictReqs : dReq[r].st = "asked" => dReq[r].want <= dSrv[dReq[r].type]
AnswerIsWanted == \A r \in DictReqs : dReq[r].st \in Answered => dReq[r].ver >= dReq[r].want

DictInv ==
  /\ DictTypeOK /\ FloorIsPast /\ DictCacheIsFresh /\ PendingIsFresh
  /\ RequestHasType /\ AskedIsServable /\ AnswerIsWanted

LEMMA DictInitInv == DictInit => DictInv
BY DictAssumption
   DEF DictInit, DictInv, DictTypeOK, FloorIsPast, DictCacheIsFresh, PendingIsFresh, RequestHasType,
       AskedIsServable, AnswerIsWanted, Unused, Alive, Answered

LEMMA LoadKeepsInv ==
  ASSUME DictInv, NEW t \in DictTypes, NEW r \in DictReqs, DictLoadJoin(t, r) \/ DictLoadAsk(t, r)
  PROVE  DictInv'
<1>1. CASE DictLoadJoin(t, r)
  BY <1>1, DictAssumption
     DEF DictLoadJoin, DictInv, DictTypeOK, FloorIsPast, DictCacheIsFresh, PendingIsFresh, RequestHasType,
         AskedIsServable, AnswerIsWanted, Alive, Answered
<1>2. CASE DictLoadAsk(t, r)
  BY <1>2, DictAssumption
     DEF DictLoadAsk, DictInv, DictTypeOK, FloorIsPast, DictCacheIsFresh, PendingIsFresh, RequestHasType,
         AskedIsServable, AnswerIsWanted, Alive, Answered
<1>3. QED BY <1>1, <1>2

LEMMA ServerKeepsInv ==
  ASSUME DictInv, NEW r \in DictReqs, DictServe(r) \/ DictLose(r)
  PROVE  DictInv'
<1>1. CASE DictServe(r)
  <2>1. dReq[r].type \in DictTypes /\ dSrv[dReq[r].type] \in Nat
    BY <1>1 DEF DictServe, DictInv, DictTypeOK, RequestHasType, Alive
  <2>2. dReq'[r] = [st |-> "read", type |-> dReq[r].type, ver |-> dSrv[dReq[r].type],
                    want |-> dReq[r].want]
    BY <1>1 DEF DictServe, DictInv, DictTypeOK
  <2>3. \A q \in DictReqs : q # r => dReq'[q] = dReq[q]
    BY <1>1 DEF DictServe, DictInv, DictTypeOK
  <2>4. DictTypeOK' /\ FloorIsPast' /\ DictCacheIsFresh'
    BY <1>1, <2>1 DEF DictServe, DictInv, DictTypeOK, FloorIsPast, DictCacheIsFresh
  <2>5. PendingIsFresh'
    <3> SUFFICES ASSUME NEW t \in DictTypes, dPending[t] # DictNone
                 PROVE  /\ dReq'[dPending[t]].type = t /\ dReq'[dPending[t]].st \in Alive
                        /\ dReq'[dPending[t]].st \in Answered => dReq'[dPending[t]].ver >= dFloor[t]
      BY <1>1 DEF DictServe, PendingIsFresh
    <3>1. dPending[t] \in DictReqs
      BY DEF DictInv, DictTypeOK
    <3>2. CASE dPending[t] = r
      BY <3>2, <2>1, <2>2 DEF DictInv, DictTypeOK, PendingIsFresh, FloorIsPast, Alive, Answered
    <3>3. CASE dPending[t] # r
      BY <3>1, <3>3, <2>3 DEF DictInv, PendingIsFresh
    <3>4. QED BY <3>2, <3>3
  <2>6. RequestHasType' /\ AskedIsServable' /\ AnswerIsWanted'
    BY <1>1, <2>1, <2>2, <2>3
       DEF DictServe, DictInv, DictTypeOK, RequestHasType, AskedIsServable, AnswerIsWanted, Alive, Answered
  <2>7. QED BY <2>4, <2>5, <2>6 DEF DictInv
<1>2. CASE DictLose(r)
  BY <1>2, DictAssumption
     DEF DictLose, DictInv, DictTypeOK, FloorIsPast, DictCacheIsFresh, PendingIsFresh, RequestHasType,
         AskedIsServable, AnswerIsWanted, Alive, Answered
<1>3. QED BY <1>1, <1>2

LEMMA DictAnswerKeepsInv ==
  ASSUME DictInv, NEW r \in DictReqs, DictThen(r) \/ DictFinally(r)
  PROVE  DictInv'
<1>1. CASE DictThen(r)
  BY <1>1, DictAssumption
     DEF DictThen, DictInv, DictTypeOK, FloorIsPast, DictCacheIsFresh, PendingIsFresh, RequestHasType,
         AskedIsServable, AnswerIsWanted, Alive, Answered
<1>2. CASE DictFinally(r)
  BY <1>2, DictAssumption
     DEF DictFinally, Unused, DictInv, DictTypeOK, FloorIsPast, DictCacheIsFresh, PendingIsFresh,
         RequestHasType, AskedIsServable, AnswerIsWanted, Alive, Answered
<1>3. QED BY <1>1, <1>2

LEMMA ChangeKeepsInv ==
  ASSUME DictInv, NEW t \in DictTypes, DictChange(t)
  PROVE  DictInv'
BY DictAssumption
   DEF DictChange, DictInv, DictTypeOK, FloorIsPast, DictCacheIsFresh, PendingIsFresh, RequestHasType,
       AskedIsServable, AnswerIsWanted, Alive, Answered

LEMMA InvalidateKeepsInv ==
  ASSUME DictInv, NEW S \in SUBSET DictTypes, DictInvalidate(S)
  PROVE  DictInv'
BY DictAssumption
   DEF DictInvalidate, DictInv, DictTypeOK, FloorIsPast, DictCacheIsFresh, PendingIsFresh,
       RequestHasType, AskedIsServable, AnswerIsWanted, Alive, Answered

LEMMA DictNextInv == DictInv /\ [DictNext]_dictVars => DictInv'
<1> SUFFICES ASSUME DictInv, [DictNext]_dictVars PROVE DictInv'
  OBVIOUS
<1>1. CASE UNCHANGED dictVars
  BY <1>1 DEF dictVars, DictInv, DictTypeOK, FloorIsPast, DictCacheIsFresh, PendingIsFresh,
              RequestHasType, AskedIsServable, AnswerIsWanted, Alive, Answered
<1>2. CASE \E t \in DictTypes, r \in DictReqs : DictLoadJoin(t, r) \/ DictLoadAsk(t, r)
  BY <1>2, LoadKeepsInv
<1>3. CASE \E r \in DictReqs : DictServe(r) \/ DictLose(r) \/ DictThen(r) \/ DictFinally(r)
  BY <1>3, ServerKeepsInv, DictAnswerKeepsInv
<1>4. CASE \E t \in DictTypes : DictChange(t) \/ DictInvalidate({t})
  <2>1. PICK t \in DictTypes : DictChange(t) \/ DictInvalidate({t})
    BY <1>4
  <2>2. {t} \in SUBSET DictTypes
    BY <2>1
  <2>3. QED BY <2>1, <2>2, ChangeKeepsInv, InvalidateKeepsInv
<1>5. CASE DictInvalidate(DictTypes)
  <2>1. DictTypes \in SUBSET DictTypes
    OBVIOUS
  <2>2. QED BY <1>5, <2>1, InvalidateKeepsInv
<1>6. QED BY <1>1, <1>2, <1>3, <1>4, <1>5 DEF DictNext

LEMMA DictInvariant == DictSpec => []DictInv
BY DictInitInv, DictNextInv, PTL DEF DictSpec

(* An answer that was read before an invalidation never comes back into the *)
(* cache after it, in whatever order answers and invalidations come.        *)
THEOREM CacheIsFresh == DictSpec => []DictCacheIsFresh
<1>1. DictInv => DictCacheIsFresh
  BY DEF DictInv
<1>2. QED BY <1>1, DictInvariant, PTL

(* A caller is never given items older than the last invalidation before    *)
(* its call, and never a request that is over.                              *)
THEOREM JoinIsFresh == DictSpec => []DictJoinIsFresh
<1>1. DictInv => DictJoinIsFresh
  BY DEF DictInv, DictJoinIsFresh, AnswerIsWanted, PendingIsFresh, Answered, Alive
<1>2. QED BY <1>1, DictInvariant, PTL

(***************************************************************************)
(* The dictionary page. While a type is selected the latest load is for    *)
(* it, but for an edit React confirmed of another type; and what it reads  *)
(* is not older than the edits of its type that loaded again. So what      *)
(* React shows, the answer of the latest load, is current; Vue compares    *)
(* the type only, and every change of the selection loads.                 *)
(***************************************************************************)
Loads == [type : DictTypes, st : {"asked", "read", "done"}, ver : Nat]
Shown == [type : DictTypes, ver : Nat] \cup {NoItems}
Edits == [kind : EditKinds, type : DictTypes, st : {"asked", "stored"}, ver : Nat, mask : BOOLEAN]

PageTyped ==
  /\ pFront \in {"vue", "react"} /\ pSel \in DictTypes \cup {DictNone}
  /\ pLoads \in Seq(Loads) /\ pItems \in Shown
  /\ pEdits \in [DictEdits -> Edits \cup {NoEdit, Over}]
  /\ pSaved \in [DictTypes -> Nat] /\ pReload \in [DictTypes -> Nat]

\* What was stored is on the server; what was confirmed, in the cache's floor.
StoredIsServed ==
  \A e \in DictEdits : pEdits[e].st = "stored" => pEdits[e].ver <= dSrv[pEdits[e].type]

SavedIsPast == \A t \in DictTypes : pSaved[t] <= dFloor[t] /\ pReload[t] <= dSrv[t]

LatestLoad == pLoads[Len(pLoads)]

LatestIsOfSelected ==
  pSel # DictNone => Len(pLoads) > 0 /\ (pFront = "vue" \/ ~pStray => LatestLoad.type = pSel)

LatestIsFresh ==
  Len(pLoads) > 0 /\ LatestLoad.st = "read" => LatestLoad.ver >= pReload[LatestLoad.type]

PageInv ==
  /\ DictInv /\ PageTyped /\ StoredIsServed /\ SavedIsPast /\ LatestIsOfSelected /\ LatestIsFresh
  /\ PageTableIsCurrent

LEMMA PageInitInv == DictPageInit => PageInv
<1> SUFFICES ASSUME DictPageInit PROVE PageInv
  OBVIOUS
<1>1. DictInv
  BY DictInitInv DEF DictPageInit
<1>2. PageTyped
  BY DEF DictPageInit, PageTyped, Shown
<1>3. StoredIsServed
  BY DEF DictPageInit, StoredIsServed, NoEdit
<1>4. SavedIsPast
  BY DEF DictPageInit, DictInit, SavedIsPast
<1>5. LatestIsOfSelected /\ LatestIsFresh /\ PageTableIsCurrent
  BY DEF DictPageInit, LatestIsOfSelected, LatestIsFresh, PageTableIsCurrent
<1>6. QED BY <1>1, <1>2, <1>3, <1>4, <1>5 DEF PageInv

\* A load that begins is the latest, and what the page shows is about to go.
LEMMA BeginLoadFacts ==
  ASSUME PageTyped, NEW t \in DictTypes \cup {DictNone}, BeginLoad(t)
  PROVE  /\ pLoads' \in Seq(Loads) /\ pItems' \in Shown
         /\ t = DictNone => pItems' = NoItems /\ pLoads' = pLoads
         /\ t # DictNone =>
              /\ Len(pLoads') > 0 /\ pLoads'[Len(pLoads')] = [type |-> t, st |-> "asked", ver |-> 0]
              /\ pLoading' = TRUE
<1>1. pLoads \in Seq(Loads) /\ pItems \in Shown
  BY DEF PageTyped
<1>2. CASE t = DictNone
  BY <1>1, <1>2 DEF BeginLoad, Shown
<1>3. CASE t # DictNone
  <2>1. [type |-> t, st |-> "asked", ver |-> 0] \in Loads
    BY <1>3 DEF Loads
  <2>2. QED BY <1>1, <1>3, <2>1 DEF BeginLoad
<1>4. QED BY <1>2, <1>3

\* The steps that begin a load for a type, or for none. What the edits of a
\* type that load again ask of the next load, only this load can be asked of.
LEMMA LoadingKeepsPage ==
  ASSUME PageTyped, PageTyped', LatestIsFresh, PageTableIsCurrent,
         NEW t \in DictTypes \cup {DictNone}, BeginLoad(t), pFront' = pFront,
         pSel' = t \/ (pFront = "react" /\ t # DictNone /\ pStray'),
         t = DictNone => pReload' = pReload
  PROVE  LatestIsOfSelected' /\ LatestIsFresh' /\ PageTableIsCurrent'
<1>1. /\ t = DictNone => pItems' = NoItems /\ pLoads' = pLoads
      /\ t # DictNone =>
           /\ Len(pLoads') > 0 /\ pLoads'[Len(pLoads')] = [type |-> t, st |-> "asked", ver |-> 0]
           /\ pLoading' = TRUE
  BY BeginLoadFacts
<1>2. CASE t = DictNone
  <2>1. pSel' = DictNone /\ pLoads' = pLoads /\ pReload' = pReload
    BY <1>1, <1>2
  <2>2. QED BY <2>1 DEF LatestIsOfSelected, LatestIsFresh, LatestLoad, PageTableIsCurrent
<1>3. CASE t # DictNone
  <2>1. /\ Len(pLoads') > 0 /\ pLoads'[Len(pLoads')].type = t
        /\ pLoads'[Len(pLoads')].st = "asked" /\ pLoading' = TRUE
    BY <1>1, <1>3
  <2>2. LatestIsOfSelected'
    BY <2>1 DEF LatestIsOfSelected, LatestLoad
  <2>3. LatestIsFresh'
    BY <2>1 DEF LatestIsFresh, LatestLoad
  <2>4. PageTableIsCurrent'
    BY <2>1 DEF PageTableIsCurrent
  <2>5. QED BY <2>2, <2>3, <2>4
<1>4. QED BY <1>2, <1>3

\* The requests of other pages touch neither what is on the server nor the
\* floor of the cache.
LEMMA OthersKeepPage == ASSUME PageInv, PageOthersRead PROVE PageInv'
<1>1. DictInv'
  <2>1. DictNext
    BY DictPageAssumption DEF PageOthersRead, DictNext
  <2>2. QED BY <2>1, DictNextInv DEF PageInv
<1>2. UNCHANGED pageVars /\ dSrv' = dSrv /\ dFloor' = dFloor
  BY DEF PageOthersRead, DictLoadAsk, DictServe, DictLose, DictThen, DictFinally
<1>3. QED
  BY <1>1, <1>2 DEF pageVars, PageInv, PageTyped, StoredIsServed, SavedIsPast, LatestIsOfSelected,
                    LatestIsFresh, LatestLoad, PageTableIsCurrent

\* The steps that leave the cache alone.
LEMMA DictUntouched == ASSUME DictInv, UNCHANGED dictVars PROVE DictInv'
BY DictNextInv

LEMMA SelectKeepsPage == ASSUME PageInv, NEW t \in DictTypes, PageSelect(t) PROVE PageInv'
<1>1. /\ pSel' = t /\ UNCHANGED <<pFront, pEdits, pSaved, pReload, dictVars>>
      /\ BeginLoad(t) /\ PageTyped /\ t # DictNone
  BY DictPageAssumption DEF PageSelect, PageInv
<1>2. pLoads' \in Seq(Loads) /\ pItems' \in Shown
  BY <1>1, BeginLoadFacts
<1>3. DictInv'
  BY <1>1, DictUntouched DEF PageInv
<1>4. PageTyped'
  BY <1>1, <1>2 DEF PageTyped
<1>5. StoredIsServed' /\ SavedIsPast'
  BY <1>1 DEF PageInv, StoredIsServed, SavedIsPast, dictVars
<1>6. LatestIsOfSelected' /\ LatestIsFresh' /\ PageTableIsCurrent'
  BY <1>1, <1>4, LoadingKeepsPage DEF PageInv
<1>7. QED BY <1>3, <1>4, <1>5, <1>6 DEF PageInv

\* What a load reads is not older than any edit made here.
LEMMA LoadServeKeepsPage ==
  ASSUME PageInv, NEW i \in DOMAIN pLoads, PageLoadServe(i)
  PROVE  PageInv'
<1> DEFINE t == pLoads[i].type
           x == [pLoads[i] EXCEPT !.st = "read", !.ver = dSrv[t]]
<1>1. /\ UNCHANGED <<pFront, pSel, pItems, pLoading, pEdits, pSaved, pReload, pStray, dictVars>>
      /\ pLoads' = [pLoads EXCEPT ![i] = x]
  BY DEF PageLoadServe
<1>2. /\ pLoads \in Seq(Loads) /\ pLoads[i] \in Loads /\ t \in DictTypes /\ dSrv[t] \in Nat
      /\ pReload[t] \in Nat /\ pReload[t] <= dSrv[t] /\ DictInv
  <2>1. pLoads \in Seq(Loads) /\ pLoads[i] \in Loads /\ DictInv /\ SavedIsPast /\ PageTyped
    BY DEF PageInv, PageTyped
  <2>2. t \in DictTypes
    BY <2>1 DEF Loads
  <2>3. QED BY <2>1, <2>2 DEF DictInv, DictTypeOK, SavedIsPast, PageTyped
<1>3. x \in Loads /\ x.type = t /\ x.ver = dSrv[t]
  BY <1>2 DEF Loads
<1> HIDE DEF x
<1>4. /\ pLoads' \in Seq(Loads) /\ Len(pLoads') = Len(pLoads) /\ pLoads'[i] = x
      /\ \A j \in DOMAIN pLoads : j # i => pLoads'[j] = pLoads[j]
  BY <1>1, <1>2, <1>3
<1>5. DictInv'
  BY <1>1, <1>2, DictUntouched
<1>6. PageTyped'
  BY <1>1, <1>4 DEF PageInv, PageTyped
<1>7. StoredIsServed' /\ SavedIsPast' /\ PageTableIsCurrent'
  BY <1>1 DEF PageInv, StoredIsServed, SavedIsPast, PageTableIsCurrent, dictVars
<1>8. DOMAIN pLoads = 1..Len(pLoads) /\ Len(pLoads) \in Nat
  BY <1>2
<1>9. LatestIsOfSelected'
  BY <1>1, <1>3, <1>4, <1>8 DEF PageInv, LatestIsOfSelected, LatestLoad
<1>10. LatestIsFresh'
  <2>1. LatestIsFresh /\ pReload' = pReload
    BY <1>1 DEF PageInv
  <2>2. CASE i = Len(pLoads)
    BY <1>2, <1>3, <1>4, <2>1, <2>2 DEF LatestIsFresh, LatestLoad
  <2>3. CASE i # Len(pLoads)
    BY <1>4, <1>8, <2>1, <2>3 DEF LatestIsFresh, LatestLoad
  <2>4. QED BY <2>2, <2>3
<1>11. QED BY <1>5, <1>6, <1>7, <1>9, <1>10 DEF PageInv

LEMMA LoadAnswerKeepsPage ==
  ASSUME PageInv, NEW i \in DOMAIN pLoads, PageLoadAnswer(i)
  PROVE  PageInv'
<1> DEFINE x == [pLoads[i] EXCEPT !.st = "done", !.ver = 0]
<1>1. /\ UNCHANGED <<pFront, pSel, pEdits, pSaved, pReload, pStray, dictVars>>
      /\ pLoads' = [pLoads EXCEPT ![i] = x]
  BY DEF PageLoadAnswer
<1>2. /\ pLoads \in Seq(Loads) /\ pLoads[i] \in Loads /\ DOMAIN pLoads = 1..Len(pLoads)
      /\ Len(pLoads) \in Nat /\ DictInv /\ LatestIsOfSelected /\ LatestIsFresh /\ PageTableIsCurrent
      /\ pFront \in {"vue", "react"}
  BY DEF PageInv, PageTyped
<1>3. x \in Loads /\ x.type = pLoads[i].type /\ x.st = "done"
  BY <1>2 DEF Loads
<1> HIDE DEF x
<1>4. /\ pLoads' \in Seq(Loads) /\ Len(pLoads') = Len(pLoads) /\ pLoads'[i] = x
      /\ \A j \in DOMAIN pLoads : j # i => pLoads'[j] = pLoads[j]
  BY <1>1, <1>2, <1>3
<1>5. DictInv'
  BY <1>1, <1>2, DictUntouched
<1>6. pItems' \in {pItems, NoItems, [type |-> pLoads[i].type, ver |-> pLoads[i].ver]}
  BY DEF PageLoadAnswer
<1>7. PageTyped'
  BY <1>1, <1>2, <1>4, <1>6 DEF PageInv, PageTyped, Shown, Loads
<1>8. StoredIsServed' /\ SavedIsPast'
  BY <1>1 DEF PageInv, StoredIsServed, SavedIsPast, dictVars
<1>9. LatestIsOfSelected' /\ LatestIsFresh'
  BY <1>1, <1>2, <1>3, <1>4 DEF LatestIsOfSelected, LatestIsFresh, LatestLoad
<1>10. PageTableIsCurrent'
  <2>1. CASE ~IsCurrentLoad(i)
    BY <1>1, <1>2, <2>1 DEF PageLoadAnswer, PageTableIsCurrent
  <2>2. CASE IsCurrentLoad(i) /\ pItems' = NoItems
    BY <2>2 DEF PageTableIsCurrent
  <2>3. CASE /\ IsCurrentLoad(i) /\ pLoads[i].st = "read"
             /\ pItems' = [type |-> pLoads[i].type, ver |-> pLoads[i].ver]
    BY <1>1, <1>2, <2>3 DEF PageTableIsCurrent, IsCurrentLoad, LatestIsOfSelected, LatestIsFresh, LatestLoad
  <2>4. QED BY <2>1, <2>2, <2>3 DEF PageLoadAnswer
<1>11. QED BY <1>5, <1>7, <1>8, <1>9, <1>10 DEF PageInv

\* The steps of an edit before its end.
LEMMA EditKeepsPage ==
  ASSUME PageInv, NEW e \in DictEdits,
         \/ PageLeave(e) \/ PageEditServe(e) \/ PageEditFail(e)
         \/ \E t \in DictTypes, kind \in EditKinds : PageEditBegin(e, t, kind)
  PROVE  PageInv'
<1>1. /\ PageTyped /\ DictInv
      /\ UNCHANGED <<pFront, pSel, pItems, pLoads, pLoading, pSaved, pReload, pStray>>
      /\ pEdits[e] \in Edits \cup {NoEdit, Over}
  BY DEF PageInv, PageTyped, PageEditServe, PageEditFail, PageEditBegin, PageLeave
<1>2. LatestIsOfSelected' /\ LatestIsFresh' /\ PageTableIsCurrent'
  BY <1>1 DEF PageInv, LatestIsOfSelected, LatestIsFresh, LatestLoad, PageTableIsCurrent
<1>3. ASSUME NEW x \in Edits \cup {NoEdit, Over}, pEdits' = [pEdits EXCEPT ![e] = x],
             x.st = "stored" => x.ver <= dSrv[x.type], UNCHANGED dictVars
      PROVE  PageInv'
  <2>1. DictInv'
    BY <1>1, <1>3, DictUntouched
  <2>2. PageTyped'
    BY <1>1, <1>3 DEF PageTyped
  <2>3. StoredIsServed' /\ SavedIsPast'
    BY <1>1, <1>3 DEF PageInv, PageTyped, StoredIsServed, SavedIsPast, dictVars
  <2>4. QED BY <1>2, <2>1, <2>2, <2>3 DEF PageInv
<1>4. ASSUME NEW t \in DictTypes, NEW kind \in EditKinds, PageEditBegin(e, t, kind) PROVE PageInv'
  <2> DEFINE x == [kind |-> kind, type |-> t, st |-> "asked", ver |-> 0,
                   mask |-> pFront = "react" /\ kind # "switch"]
  <2>1. x \in Edits /\ x.st # "stored"
    BY DEF Edits
  <2>2. pEdits' = [pEdits EXCEPT ![e] = x] /\ UNCHANGED dictVars
    BY <1>4 DEF PageEditBegin
  <2>3. QED BY <1>3, <2>1, <2>2
<1>5. CASE PageEditFail(e)
  <2>1. pEdits' = [pEdits EXCEPT ![e] = Over] /\ UNCHANGED dictVars /\ Over.st # "stored"
    BY <1>5 DEF PageEditFail, Over, NoEdit
  <2>2. QED BY <1>3, <2>1
<1>6. CASE PageLeave(e)
  <2> DEFINE x == [pEdits[e] EXCEPT !.mask = FALSE]
  <2>1. pEdits[e] \in Edits
    BY <1>1, <1>6 DEF PageLeave, NoEdit, Over
  <2>2. /\ x \in Edits /\ x.st = pEdits[e].st /\ x.ver = pEdits[e].ver /\ x.type = pEdits[e].type
    BY <2>1 DEF Edits
  <2>3. pEdits' = [pEdits EXCEPT ![e] = x] /\ UNCHANGED dictVars
    BY <1>6 DEF PageLeave
  <2>4. x.st = "stored" => x.ver <= dSrv[x.type]
    BY <2>2 DEF PageInv, StoredIsServed
  <2> HIDE DEF x
  <2>5. QED BY <1>3, <2>2, <2>3, <2>4
<1>7. CASE PageEditServe(e)
  <2> DEFINE t == pEdits[e].type
             x == [pEdits[e] EXCEPT !.st = "stored", !.ver = dSrv'[t]]
  <2>1. pEdits[e].st = "asked" /\ DictChange(t) /\ pEdits' = [pEdits EXCEPT ![e] = x]
    BY <1>7 DEF PageEditServe
  <2>2. pEdits[e] \in Edits /\ t \in DictTypes
    BY <1>1, <2>1 DEF NoEdit, Over, Edits
  <2>3. DictInv'
    BY <1>1, <2>1, <2>2, ChangeKeepsInv
  <2>4. /\ dSrv \in [DictTypes -> Nat] /\ dSrv' \in [DictTypes -> Nat]
        /\ dSrv' = [dSrv EXCEPT ![t] = @ + 1] /\ dFloor' = dFloor
    BY <1>1, <2>1, <2>3 DEF DictChange, DictInv, DictTypeOK
  <2>5. \A u \in DictTypes : dSrv[u] <= dSrv'[u] /\ dSrv[u] \in Nat /\ dSrv'[u] \in Nat
    BY <2>2, <2>4
  <2>6. x \in Edits /\ x.type = t /\ x.ver = dSrv'[t]
    BY <2>2, <2>5 DEF Edits
  <2> HIDE DEF x
  <2>7. PageTyped'
    BY <1>1, <2>1, <2>6 DEF PageTyped
  <2>8. StoredIsServed'
    <3> SUFFICES ASSUME NEW d \in DictEdits, pEdits'[d].st = "stored"
                 PROVE  pEdits'[d].ver <= dSrv'[pEdits'[d].type]
      BY DEF StoredIsServed
    <3>1. CASE d = e
      BY <1>1, <2>1, <2>2, <2>5, <2>6, <3>1 DEF PageTyped
    <3>2. CASE d # e
      <4>1. pEdits'[d] = pEdits[d]
        BY <1>1, <2>1, <3>2 DEF PageTyped
      <4>2. pEdits[d] \in Edits /\ pEdits[d].ver <= dSrv[pEdits[d].type]
        BY <1>1, <4>1 DEF PageTyped, PageInv, StoredIsServed, NoEdit, Over
      <4>3. pEdits[d].type \in DictTypes /\ pEdits[d].ver \in Nat
        BY <4>2 DEF Edits
      <4>4. QED BY <2>5, <4>1, <4>2, <4>3
    <3>3. QED BY <3>1, <3>2
  <2>9. SavedIsPast'
    BY <1>1, <2>4, <2>5 DEF PageInv, SavedIsPast, PageTyped
  <2>10. QED BY <1>2, <2>3, <2>7, <2>8, <2>9 DEF PageInv
<1>8. QED BY <1>4, <1>5, <1>6, <1>7

\* What the end of an edit does to the cache and to the page's memory of it:
\* it notes the edit only where it puts the floor behind it.
LEMMA DoneFacts ==
  ASSUME PageInv, NEW e \in DictEdits, NEW S \in SUBSET DictTypes, Confirmed(e), DictInvalidate(S),
         pSaved' = pSaved \/ (pSaved' = Noted(pSaved, e) /\ pEdits[e].type \in S),
         pReload' \in {pReload, Noted(pReload, e)}
  PROVE  /\ DictInv' /\ pEdits' \in [DictEdits -> Edits \cup {NoEdit, Over}]
         /\ pSaved' \in [DictTypes -> Nat] /\ pReload' \in [DictTypes -> Nat]
         /\ StoredIsServed' /\ SavedIsPast'
<1> DEFINE t == pEdits[e].type
           v == pEdits[e].ver
<1>1. /\ pEdits[e].st = "stored" /\ pEdits' = [pEdits EXCEPT ![e] = Over] /\ PageTyped /\ DictInv
      /\ pSaved \in [DictTypes -> Nat] /\ pReload \in [DictTypes -> Nat] /\ SavedIsPast
      /\ dSrv \in [DictTypes -> Nat] /\ dFloor \in [DictTypes -> Nat]
  BY DEF Confirmed, PageInv, PageTyped, DictInv, DictTypeOK
<1>2. pEdits[e] \in Edits
  <2>1. pEdits[e] \in Edits \cup {NoEdit, Over} /\ pEdits[e].st = "stored"
    BY <1>1 DEF PageTyped
  <2>2. NoEdit.st # "stored" /\ Over.st # "stored"
    BY DEF NoEdit, Over
  <2>3. QED BY <2>1, <2>2
<1>3. t \in DictTypes /\ v \in Nat /\ v <= dSrv[t]
  BY <1>1, <1>2 DEF Edits, PageInv, StoredIsServed
<1>4. DictInv'
  BY <1>1, InvalidateKeepsInv
<1>5. pEdits' \in [DictEdits -> Edits \cup {NoEdit, Over}]
  BY <1>1 DEF PageTyped
<1>6. /\ dSrv' = dSrv
      /\ \A u \in DictTypes : dFloor'[u] = (IF u \in S THEN dSrv[u] ELSE dFloor[u])
  BY DEF DictInvalidate
<1>7. StoredIsServed'
  BY <1>1, <1>6 DEF StoredIsServed, PageInv, PageTyped, Over, NoEdit
<1> HIDE DEF t, v
<1>8. ASSUME NEW h \in [DictTypes -> Nat]
      PROVE  /\ Noted(h, e) \in [DictTypes -> Nat]
             /\ \A u \in DictTypes : u # t => Noted(h, e)[u] = h[u]
             /\ Noted(h, e)[t] \in {h[t], v}
  <2>1. Noted(h, e) = [h EXCEPT ![t] = Later(@, v)]
    BY DEF Noted, t, v
  <2>2. Later(h[t], v) \in {h[t], v}
    BY DEF Later
  <2>3. Later(h[t], v) \in Nat
    BY <1>3, <2>2
  <2>4. QED BY <1>3, <2>1, <2>2, <2>3
<1>9. pSaved' \in [DictTypes -> Nat] /\ pReload' \in [DictTypes -> Nat]
  BY <1>1, <1>8
<1>10. SavedIsPast'
  <2> SUFFICES ASSUME NEW u \in DictTypes PROVE pSaved'[u] <= dFloor'[u] /\ pReload'[u] <= dSrv[u]
    BY <1>6 DEF SavedIsPast
  <2>1. /\ pSaved[u] <= dFloor[u] /\ pReload[u] <= dSrv[u] /\ dFloor[u] <= dSrv[u]
        /\ pSaved[u] \in Nat /\ pReload[u] \in Nat /\ dFloor[u] \in Nat /\ dSrv[u] \in Nat
    BY <1>1 DEF SavedIsPast, DictInv, FloorIsPast
  <2>2. pSaved'[u] \in {pSaved[u]} \/ (u = t /\ t \in S /\ pSaved'[u] = v)
    <3>1. CASE pSaved' = pSaved
      BY <3>1
    <3>2. CASE pSaved' = Noted(pSaved, e) /\ t \in S
      BY <1>1, <1>8, <3>2
    <3>3. QED BY <3>1, <3>2 DEF t
  <2>3. pReload'[u] \in {pReload[u]} \/ (u = t /\ pReload'[u] = v)
    <3>1. CASE pReload' = pReload
      BY <3>1
    <3>2. CASE pReload' = Noted(pReload, e)
      BY <1>1, <1>8, <3>2
    <3>3. QED BY <3>1, <3>2
  <2>4. dFloor'[u] = (IF u \in S THEN dSrv[u] ELSE dFloor[u])
    BY <1>6
  <2>5. QED BY <1>3, <2>1, <2>2, <2>3, <2>4
<1>11. QED BY <1>4, <1>5, <1>7, <1>9, <1>10

\* An edit that ends puts the floor of its type behind it; if it loads its
\* type again, that load is now the latest.
LEMMA EditDoneKeepsPage ==
  ASSUME PageInv, NEW e \in DictEdits,
         \/ PageItemSaved(e) \/ PageBatchDone(e) \/ PageTypeDeleted(e) \/ PageTypesDeleted(e)
         \/ PageSwitched(e)
  PROVE  PageInv'
<1>1. /\ Confirmed(e) /\ pFront' = pFront /\ PageTyped /\ LatestIsOfSelected /\ LatestIsFresh
      /\ PageTableIsCurrent /\ pSel \in DictTypes \cup {DictNone} /\ pEdits[e].st = "stored"
      /\ pFront \in {"vue", "react"}
  BY DEF PageItemSaved, PageBatchDone, PageTypeDeleted, PageTypesDeleted, PageSwitched, Confirmed,
         PageInv, PageTyped
<1>2. pEdits[e].type \in DictTypes
  <2>1. pEdits[e] \in Edits
    BY <1>1 DEF PageTyped, NoEdit, Over
  <2>2. QED BY <2>1 DEF Edits
<1>3. CASE PageItemSaved(e)
  <2> DEFINE load == IF pFront = "vue" THEN pSel ELSE pEdits[e].type
  <2>1. /\ DictInvalidate({pEdits[e].type}) /\ BeginLoad(load) /\ pStray' = (load # pSel)
        /\ pSaved' = Noted(pSaved, e) /\ pSel' = pSel
        /\ pReload' = IF load = pEdits[e].type THEN Noted(pReload, e) ELSE pReload
    BY <1>3 DEF PageItemSaved
  <2>2. load \in DictTypes \cup {DictNone} /\ (load = pSel \/ (pFront = "react" /\ load # DictNone))
    BY <1>1, <1>2, DictPageAssumption
  <2>3. load = DictNone => pReload' = pReload
    BY <1>2, <2>1, DictPageAssumption
  <2> HIDE DEF load
  <2>4. {pEdits[e].type} \in SUBSET DictTypes
    BY <1>2
  <2>5. /\ DictInv' /\ pEdits' \in [DictEdits -> Edits \cup {NoEdit, Over}]
        /\ pSaved' \in [DictTypes -> Nat] /\ pReload' \in [DictTypes -> Nat]
        /\ StoredIsServed' /\ SavedIsPast'
    BY <1>1, <2>1, <2>4, DoneFacts
  <2>6. pLoads' \in Seq(Loads) /\ pItems' \in Shown
    BY <1>1, <2>1, <2>2, BeginLoadFacts
  <2>7. PageTyped'
    BY <1>1, <2>1, <2>5, <2>6 DEF PageTyped
  <2>8. pSel' = load \/ (pFront = "react" /\ load # DictNone /\ pStray')
    BY <2>1, <2>2
  <2>9. LatestIsOfSelected' /\ LatestIsFresh' /\ PageTableIsCurrent'
    BY <1>1, <2>1, <2>2, <2>3, <2>7, <2>8, LoadingKeepsPage
  <2>10. QED BY <2>5, <2>7, <2>9 DEF PageInv
<1>4. CASE PageBatchDone(e)
  <2>1. /\ DictInvalidate(BatchOf) /\ BeginLoad(pSel) /\ pSel' = pSel
        /\ pSaved' = IF pFront = "react" /\ pEdits[e].type # pSel THEN pSaved ELSE Noted(pSaved, e)
        /\ pReload' = IF pSel = pEdits[e].type THEN Noted(pReload, e) ELSE pReload
    BY <1>4 DEF PageBatchDone
  <2>2. BatchOf \in SUBSET DictTypes
    BY <1>1 DEF BatchOf
  <2>3. pSaved' = pSaved \/ (pSaved' = Noted(pSaved, e) /\ pEdits[e].type \in BatchOf)
    BY <1>1, <1>2, <2>1 DEF BatchOf
  <2>4. pReload' \in {pReload, Noted(pReload, e)} /\ (pSel = DictNone => pReload' = pReload)
    BY <1>2, <2>1, DictPageAssumption
  <2>5. /\ DictInv' /\ pEdits' \in [DictEdits -> Edits \cup {NoEdit, Over}]
        /\ pSaved' \in [DictTypes -> Nat] /\ pReload' \in [DictTypes -> Nat]
        /\ StoredIsServed' /\ SavedIsPast'
    BY <1>1, <2>1, <2>2, <2>3, <2>4, DoneFacts
  <2>6. pLoads' \in Seq(Loads) /\ pItems' \in Shown
    BY <1>1, <2>1, BeginLoadFacts
  <2>7. PageTyped'
    BY <1>1, <2>1, <2>5, <2>6 DEF PageTyped
  <2>8. LatestIsOfSelected' /\ LatestIsFresh' /\ PageTableIsCurrent'
    BY <1>1, <2>1, <2>4, <2>7, LoadingKeepsPage
  <2>9. QED BY <2>5, <2>7, <2>8 DEF PageInv
<1>5. CASE PageTypeDeleted(e) \/ PageTypesDeleted(e) \/ PageSwitched(e)
  <2>1. /\ pSaved' = Noted(pSaved, e) /\ UNCHANGED <<pLoads, pLoading, pReload, pStray>>
        /\ (pSel' = pSel /\ pItems' = pItems) \/ (pSel' = DictNone /\ pItems' = NoItems)
    BY <1>5 DEF PageTypeDeleted, PageTypesDeleted, PageSwitched
  <2>2. PICK S \in SUBSET DictTypes : DictInvalidate(S) /\ pEdits[e].type \in S
    BY <1>2, <1>5 DEF PageTypeDeleted, PageTypesDeleted, PageSwitched
  <2>3. /\ DictInv' /\ pEdits' \in [DictEdits -> Edits \cup {NoEdit, Over}]
        /\ pSaved' \in [DictTypes -> Nat] /\ pReload' \in [DictTypes -> Nat]
        /\ StoredIsServed' /\ SavedIsPast'
    BY <1>1, <2>1, <2>2, DoneFacts
  <2>4. PageTyped'
    BY <1>1, <2>1, <2>3 DEF PageTyped, Shown
  <2>5. LatestIsOfSelected' /\ LatestIsFresh' /\ PageTableIsCurrent'
    BY <1>1, <2>1 DEF LatestIsOfSelected, LatestIsFresh, LatestLoad, PageTableIsCurrent
  <2>6. QED BY <2>3, <2>4, <2>5 DEF PageInv
<1>6. QED BY <1>3, <1>4, <1>5

LEMMA PageNextInv == PageInv /\ [DictPageNext]_dictPageVars => PageInv'
<1> SUFFICES ASSUME PageInv, [DictPageNext]_dictPageVars PROVE PageInv'
  OBVIOUS
<1>1. CASE UNCHANGED dictPageVars
  <2>1. DictInv'
    BY <1>1, DictUntouched DEF dictPageVars, PageInv
  <2>2. QED
    BY <1>1, <2>1 DEF dictPageVars, dictVars, pageVars, PageInv, PageTyped, StoredIsServed, SavedIsPast,
       LatestIsOfSelected, LatestIsFresh, LatestLoad, PageTableIsCurrent
<1>2. ASSUME NEW e \in DictEdits, PageEditNext(e) PROVE PageInv'
  BY <1>2, EditKeepsPage, EditDoneKeepsPage DEF PageEditNext
<1>3. QED
  BY <1>1, <1>2, OthersKeepPage, SelectKeepsPage, LoadServeKeepsPage, LoadAnswerKeepsPage
     DEF DictPageNext

(* Once nothing loads, the page shows items of the type selected by then,   *)
(* whatever was selected and edited meanwhile and in whatever order the     *)
(* answers came in (in React, but for an edit of a type not selected when   *)
(* it ends); and on the React page none older than the last edit that       *)
(* loaded their type again (PageTableIsCurrent of the runs).                *)
THEOREM TableShowsSelected == DictPageSpec => []PageTableIsCurrent
<1>1. PageInv => PageTableIsCurrent
  BY DEF PageInv
<1>2. QED BY PageInitInv, PageNextInv, <1>1, PTL DEF DictPageSpec

LEMMA PageReachesCache == PageInv => EditReachesCache
<1> SUFFICES ASSUME PageInv, NEW t \in DictTypes, dCache[t] # 0 PROVE dCache[t] >= pSaved[t]
  BY DEF EditReachesCache
<1>1. pSaved[t] <= dFloor[t] /\ dFloor[t] <= dCache[t]
  BY DEF PageInv, SavedIsPast, DictInv, DictCacheIsFresh
<1>2. pSaved[t] \in Nat /\ dFloor[t] \in Nat /\ dCache[t] \in Nat
  BY DEF PageInv, PageTyped, DictInv, DictTypeOK
<1>3. QED BY <1>1, <1>2

(* A select of another page that opens after an edit was confirmed finds it *)
(* in the cache, or finds the cache empty (EditReachesCache of the runs).   *)
THEOREM EditsReachCache == DictPageSpec => []EditReachesCache
BY PageInitInv, PageNextInv, PageReachesCache, PTL DEF DictPageSpec

(***************************************************************************)
(* The login form. What the busy flag covers is the login of a kind whose  *)
(* handler holds it, and in React the captcha load that follows a failure; *)
(* in Vue the load itself blocks the form, and no ticket is shown while a  *)
(* captcha is loading. A ticket shown that was used is the one of a login  *)
(* that is out, or of one that was accepted.                               *)
(***************************************************************************)
LpTyped ==
  /\ lpFront \in {"vue", "react"} /\ lpBusy \in BOOLEAN /\ lpRefresh \in BOOLEAN /\ lpLoads \in Nat
  /\ lpIssued \in [tickets : 1..LpMaxTickets, challenges : Nat, sends : Nat]
  /\ lpTicket \in 0..lpIssued.tickets
  /\ lpUsed \in [1..LpMaxTickets -> 0..2]

\* The logins of which the form has one at the server.
Guarded == IF lpFront = "vue" THEN Kinds ELSE {"account", "sms"}

OneLogin ==
  \A r, s \in lpReqs : r.kind \in Guarded /\ s.kind \in Guarded => r = s

BusyCovers ==
  /\ \A r \in lpReqs : HoldsBusy(r.kind) => lpBusy /\ ~lpRefresh
  /\ lpFront = "react" /\ lpRefresh => lpBusy

\* While the account login waits for the navigation home nothing else is at the server.
Awaits == lpHome = "awaited" =>
  lpFront = "vue" /\ lpBusy /\ ~lpRefresh /\ \A r \in lpReqs : r.kind \notin Kinds

VueTickets ==
  lpFront = "vue" =>
    /\ lpLoads <= 1 /\ ~(lpRefresh /\ lpLoads > 0)
    /\ Fetching => lpTicket = 0
    /\ lpTicket # 0 /\ lpUsed[lpTicket] # 0 =>
         lpTicket \in lpTaken \/ \E r \in lpReqs : r.kind = "account" /\ r.ticket = lpTicket
    /\ \A k \in 1..LpMaxTickets :
         (lpUsed[k] <= 1 \/ k \in lpTaken) /\ (k > lpIssued.tickets => lpUsed[k] = 0)

LpInv == LpTyped /\ OneLogin /\ BusyCovers /\ Awaits /\ VueTickets

LEMMA LpInitInv == LpInit => LpInv
<1> SUFFICES ASSUME LpInit PROVE LpInv
  OBVIOUS
<1>1. LpTyped
  <2>1. lpIssued.tickets = 1 /\ lpTicket = 1 /\ 1 \in 1..LpMaxTickets
    BY LoginAssumption DEF LpInit
  <2>2. lpIssued \in [tickets : 1..LpMaxTickets, challenges : Nat, sends : Nat]
    BY <2>1 DEF LpInit
  <2>3. lpUsed \in [1..LpMaxTickets -> 0..2]
    BY DEF LpInit
  <2>4. lpTicket \in 0..lpIssued.tickets
    BY <2>1
  <2>5. QED BY <2>2, <2>3, <2>4 DEF LpInit, LpTyped
<1>2. OneLogin /\ BusyCovers /\ Awaits
  BY DEF LpInit, OneLogin, BusyCovers, Awaits
<1>3. VueTickets
  BY LoginAssumption DEF LpInit, VueTickets, Fetching
<1>4. QED BY <1>1, <1>2, <1>3 DEF LpInv

LEMMA SubmitKeepsInv == ASSUME LpInv, NEW kind \in Kinds, LpSubmit(kind) PROVE LpInv'
<1> DEFINE r == Submit(kind, IF kind = "account" THEN lpTicket ELSE 0,
                       IF kind \in {"mfa", "totp"} THEN lpChallenge ELSE 0, 0)
<1>1. /\ ~Blocked(kind) /\ (kind = "account" /\ lpFront = "vue" => lpTicket # 0)
      /\ lpReqs' = lpReqs \cup {r} /\ lpBusy' = (lpBusy \/ HoldsBusy(kind))
      /\ lpUsed' = IF kind = "account" /\ lpTicket # 0
                   THEN [lpUsed EXCEPT ![lpTicket] = IF @ = 0 THEN 1 ELSE 2] ELSE lpUsed
      /\ UNCHANGED <<lpFront, lpMode, lpTicket, lpLoads, lpRefresh, lpHome, lpIssued, lpTaken>>
  BY DEF LpSubmit
<1>2. r.kind = kind /\ (kind = "account" => r.ticket = lpTicket)
  BY DEF Submit
<1> HIDE DEF r
<1>3. LpTyped /\ OneLogin /\ BusyCovers /\ Awaits /\ VueTickets
  BY DEF LpInv
<1>4. /\ lpTicket # 0 => lpTicket \in 1..LpMaxTickets
      /\ lpUsed \in [1..LpMaxTickets -> 0..2]
  BY <1>3, LoginAssumption DEF LpTyped
<1>5. LpTyped'
  BY <1>1, <1>3, <1>4 DEF LpTyped, HoldsBusy
<1>6. kind \in Guarded => \A s \in lpReqs : s.kind \notin Guarded
  BY <1>1, <1>3 DEF LpTyped, Blocked, BusyCovers, HoldsBusy, Guarded, Kinds, InFlight
<1>7. OneLogin'
  BY <1>1, <1>2, <1>3, <1>6 DEF OneLogin, Guarded
<1>8. HoldsBusy(kind) => ~lpRefresh
  BY <1>1, <1>3 DEF LpTyped, Blocked, BusyCovers, HoldsBusy, Fetching
<1>9. BusyCovers'
  BY <1>1, <1>2, <1>3, <1>8 DEF BusyCovers, HoldsBusy
<1>10. VueTickets'
  <2> SUFFICES ASSUME lpFront = "vue" PROVE VueTickets'
    BY <1>1 DEF VueTickets
  <2>1. ~Fetching /\ \A s \in lpReqs : s.kind \notin Kinds
    BY <1>1, <1>6 DEF Blocked, Guarded, Kinds
  <2>2. CASE kind = "account"
    <3>1. /\ lpTicket \in 1..LpMaxTickets /\ lpTicket <= lpIssued.tickets
          /\ lpUsed[lpTicket] = 0 \/ lpTicket \in lpTaken
      BY <1>1, <1>3, <1>4, <2>1, <2>2 DEF VueTickets, Kinds, LpTyped
    <3>2. lpUsed' = [lpUsed EXCEPT ![lpTicket] = IF @ = 0 THEN 1 ELSE 2]
      BY <1>1, <2>2, <3>1
    <3>3. \A k \in 1..LpMaxTickets :
            (lpUsed'[k] <= 1 \/ k \in lpTaken) /\ (k > lpIssued.tickets => lpUsed'[k] = 0)
      <4> TAKE k \in 1..LpMaxTickets
      <4>1. (lpUsed[k] <= 1 \/ k \in lpTaken) /\ (k > lpIssued.tickets => lpUsed[k] = 0)
        BY <1>3 DEF VueTickets
      <4>2. QED BY <1>3, <1>4, <3>1, <3>2, <4>1 DEF LpTyped
    <3>4. r \in lpReqs' /\ r.kind = "account" /\ r.ticket = lpTicket
      BY <1>1, <1>2, <2>2
    <3>5. QED BY <1>1, <1>3, <2>1, <3>3, <3>4 DEF VueTickets, Fetching
  <2>3. CASE kind # "account"
    BY <1>1, <1>3, <2>1, <2>3 DEF VueTickets, Fetching, Kinds
  <2>4. QED BY <2>2, <2>3
<1>12. Awaits'
  BY <1>1, <1>3 DEF Awaits, Blocked
<1>11. QED BY <1>5, <1>7, <1>9, <1>10, <1>12 DEF LpInv

\* A captcha load that begins takes Vue's ticket away.
LEMMA CaptchaFacts ==
  ASSUME LpInv, BeginCaptcha, lpFront' = lpFront, lpIssued' = lpIssued, lpRefresh' = lpRefresh
  PROVE  /\ lpLoads' \in Nat /\ lpTicket' \in {0, lpTicket}
         /\ lpFront = "vue" => lpLoads' <= 1 /\ ~(lpRefresh' /\ lpLoads' > 0) /\ lpTicket' = 0
<1>1. LpTyped /\ VueTickets
  BY DEF LpInv
<1>2. CASE lpFront = "vue"
  BY <1>1, <1>2 DEF LpTyped, VueTickets, BeginCaptcha, Fetching, TicketMeanwhile
<1>3. CASE lpFront # "vue"
  BY <1>1, <1>3 DEF LpTyped, BeginCaptcha, TicketMeanwhile
<1>4. QED BY <1>2, <1>3

LEMMA AcceptedKeepsInv == ASSUME LpInv, NEW r \in lpReqs, LpAccepted(r) PROVE LpInv'
<1>1. /\ r.kind \in Kinds /\ lpReqs' = lpReqs \ {r} /\ lpTaken' = lpTaken \cup ({r.ticket} \ {0})
      /\ lpHome' = "awaited" => lpFront = "vue" /\ r.kind = "account"
      /\ lpBusy' = (lpBusy /\ (lpHome' = "awaited" \/ ~HoldsBusy(r.kind)))
      /\ UNCHANGED <<lpFront, lpTicket, lpLoads, lpRefresh, lpIssued, lpUsed>>
  BY DEF LpAccepted
<1>2. LpTyped /\ OneLogin /\ BusyCovers /\ Awaits /\ VueTickets
  BY DEF LpInv
<1>3. LpTyped' /\ OneLogin'
  BY <1>1, <1>2 DEF LpTyped, OneLogin, Guarded
<1>4. BusyCovers'
  <2>1. \A s \in lpReqs' : HoldsBusy(s.kind) => ~HoldsBusy(r.kind) /\ lpBusy /\ ~lpRefresh
    BY <1>1, <1>2 DEF BusyCovers, OneLogin, HoldsBusy, Guarded, Kinds
  <2>2. lpFront = "react" /\ lpRefresh => lpBusy /\ ~HoldsBusy(r.kind)
    BY <1>2 DEF BusyCovers
  <2>3. QED BY <1>1, <2>1, <2>2 DEF BusyCovers, HoldsBusy
<1>5. VueTickets'
  <2> SUFFICES ASSUME lpFront = "vue" PROVE VueTickets'
    BY <1>1 DEF VueTickets
  <2>1. \A s \in lpReqs : s.kind = "account" => s = r
    BY <1>1, <1>2 DEF OneLogin, Guarded, Kinds
  <2>2. lpTicket # 0 /\ lpUsed[lpTicket] # 0 => lpTicket \in lpTaken'
    BY <1>1, <1>2, <2>1 DEF VueTickets
  <2>3. QED BY <1>1, <1>2, <2>2 DEF VueTickets, Fetching
<1>7. Awaits'
  <2> SUFFICES ASSUME lpHome' = "awaited" PROVE Awaits'
    BY DEF Awaits
  <2>1. lpFront = "vue" /\ r.kind = "account" /\ lpBusy /\ ~lpRefresh
    BY <1>1, <1>2 DEF BusyCovers, HoldsBusy
  <2>2. \A s \in lpReqs' : s.kind \notin Kinds
    BY <1>1, <1>2, <2>1 DEF OneLogin, Guarded, Kinds
  <2>3. lpBusy'
    BY <1>1, <2>1
  <2>4. QED BY <1>1, <2>1, <2>2, <2>3 DEF Awaits
<1>6. QED BY <1>3, <1>4, <1>5, <1>7 DEF LpInv

\* refreshAfterUse when no login of a kind that holds the flag is out any more.
LEMMA RefreshFacts ==
  ASSUME LpTyped, NEW kind, HoldsBusy(kind), RefreshAfterUse(kind), lpBusy, ~lpRefresh,
         lpFront = "vue" => /\ lpLoads <= 1 /\ (Fetching => lpTicket = 0)
  PROVE  /\ lpBusy' \in BOOLEAN /\ lpRefresh' \in BOOLEAN /\ lpTicket' \in {0, lpTicket}
         /\ lpFront = "react" => lpRefresh' /\ lpBusy'
         /\ lpFront = "vue" => lpTicket' = 0 /\ ~(lpRefresh' /\ lpLoads > 0)
<1>1. CASE lpFront = "vue" /\ Fetching
  BY <1>1 DEF RefreshAfterUse, LpTyped, Fetching
<1>2. CASE ~(lpFront = "vue" /\ Fetching)
  <2>1. lpRefresh' = TRUE /\ lpTicket' = TicketMeanwhile /\ lpBusy' = lpBusy
    BY <1>2 DEF RefreshAfterUse
  <2>2. QED BY <1>2, <2>1 DEF TicketMeanwhile, LpTyped, Fetching
<1>3. QED BY <1>1, <1>2

LEMMA HomeKeepsInv ==
  ASSUME LpInv, LpConfirmed \/ \E outcome : LpHomeEnds(outcome)
  PROVE  LpInv'
<1>1. LpTyped /\ OneLogin /\ BusyCovers /\ Awaits /\ VueTickets
  BY DEF LpInv
<1>2. /\ UNCHANGED <<lpFront, lpLoads, lpReqs, lpIssued, lpUsed, lpTaken>> /\ lpHome' # "awaited"
  BY DEF LpConfirmed, LpHomeEnds
<1>3. OneLogin' /\ Awaits'
  BY <1>1, <1>2 DEF OneLogin, Guarded, Awaits
<1>4. CASE lpHome = "awaited"
  <2>1. /\ lpFront = "vue" /\ lpBusy /\ ~lpRefresh /\ \A r \in lpReqs : r.kind \notin Kinds
    BY <1>1, <1>4 DEF Awaits
  <2>2. BusyCovers'
    BY <1>2, <2>1 DEF BusyCovers, HoldsBusy, Kinds
  <2>3. \/ RefreshAfterUse("account")
        \/ lpBusy' = FALSE /\ UNCHANGED <<lpTicket, lpRefresh>>
    BY <1>4 DEF LpConfirmed, LpHomeEnds
  <2>4. CASE RefreshAfterUse("account")
    <3>1. /\ lpBusy' \in BOOLEAN /\ lpRefresh' \in BOOLEAN /\ lpTicket' \in {0, lpTicket}
          /\ lpTicket' = 0 /\ ~(lpRefresh' /\ lpLoads > 0)
      BY <1>1, <2>1, <2>4, RefreshFacts DEF HoldsBusy, VueTickets
    <3>2. LpTyped'
      BY <1>1, <1>2, <3>1 DEF LpTyped
    <3>3. VueTickets'
      BY <1>1, <1>2, <3>1 DEF VueTickets
    <3>4. QED BY <1>3, <2>2, <3>2, <3>3 DEF LpInv
  <2>5. CASE lpBusy' = FALSE /\ UNCHANGED <<lpTicket, lpRefresh>>
    <3>1. LpTyped' /\ VueTickets'
      BY <1>1, <1>2, <2>5 DEF LpTyped, VueTickets, Fetching
    <3>2. QED BY <1>3, <2>2, <3>1 DEF LpInv
  <2>6. QED BY <2>3, <2>4, <2>5
<1>5. CASE lpHome # "awaited"
  <2>1. lpBusy' = lpBusy /\ UNCHANGED <<lpTicket, lpRefresh>>
    <3>1. lpBusy \in BOOLEAN
      BY <1>1 DEF LpTyped
    <3>2. QED BY <1>5, <3>1 DEF LpConfirmed, LpHomeEnds
  <2>2. QED BY <1>1, <1>2, <1>3, <2>1 DEF LpInv, LpTyped, BusyCovers, HoldsBusy, VueTickets, Fetching
<1>6. QED BY <1>4, <1>5

LEMMA RefusedKeepsInv == ASSUME LpInv, NEW r \in lpReqs, LpRefused(r) PROVE LpInv'
<1>1. /\ r.kind \in Kinds /\ lpReqs' = lpReqs \ {r} /\ RefreshAfterUse(r.kind)
      /\ UNCHANGED <<lpFront, lpLoads, lpHome, lpUsed, lpTaken>>
  BY DEF LpRefused
<1>2. LpTyped /\ OneLogin /\ BusyCovers /\ Awaits /\ VueTickets
  BY DEF LpInv
<1>3. lpIssued' = lpIssued \/ lpIssued' = [lpIssued EXCEPT !.challenges = @ + 1]
  BY DEF LpRefused
<1>4. /\ lpIssued' \in [tickets : 1..LpMaxTickets, challenges : Nat, sends : Nat]
      /\ lpIssued'.tickets = lpIssued.tickets
  BY <1>2, <1>3 DEF LpTyped
<1>8. OneLogin' /\ Awaits'
  <2>1. lpHome # "awaited"
    BY <1>1, <1>2 DEF Awaits
  <2>2. QED BY <1>1, <1>2, <2>1 DEF OneLogin, Guarded, Awaits
<1>5. CASE ~HoldsBusy(r.kind)
  <2>1. UNCHANGED <<lpTicket, lpRefresh, lpBusy>>
    BY <1>1, <1>5 DEF RefreshAfterUse
  <2>2. LpTyped' /\ BusyCovers'
    BY <1>1, <1>2, <1>4, <2>1 DEF LpTyped, BusyCovers, HoldsBusy
  <2>3. VueTickets'
    <3> SUFFICES ASSUME lpFront = "vue" PROVE VueTickets'
      BY <1>1 DEF VueTickets
    <3>1. \A s \in lpReqs : s.kind = "account" => s \in lpReqs'
      BY <1>1, <1>5 DEF HoldsBusy
    <3>2. QED BY <1>1, <1>2, <1>4, <2>1, <3>1 DEF VueTickets, Fetching
  <2>4. QED BY <1>8, <2>2, <2>3 DEF LpInv
<1>6. CASE HoldsBusy(r.kind)
  <2>1. lpBusy /\ ~lpRefresh /\ \A s \in lpReqs' : ~HoldsBusy(s.kind)
    BY <1>1, <1>2, <1>6 DEF BusyCovers, OneLogin, HoldsBusy, Guarded, Kinds
  <2>2. /\ lpBusy' \in BOOLEAN /\ lpRefresh' \in BOOLEAN /\ lpTicket' \in {0, lpTicket}
        /\ lpFront = "react" => lpRefresh' /\ lpBusy'
        /\ lpFront = "vue" => lpTicket' = 0 /\ ~(lpRefresh' /\ lpLoads > 0)
    BY <1>1, <1>2, <1>6, <2>1, RefreshFacts DEF VueTickets
  <2>3. LpTyped'
    BY <1>1, <1>2, <1>4, <2>2 DEF LpTyped
  <2>4. BusyCovers'
    BY <1>1, <2>1, <2>2 DEF BusyCovers, HoldsBusy
  <2>5. VueTickets'
    BY <1>1, <1>2, <1>4, <2>2 DEF VueTickets
  <2>6. QED BY <1>8, <2>3, <2>4, <2>5 DEF LpInv
<1>7. QED BY <1>5, <1>6

LEMMA SendsKeepInv ==
  ASSUME LpInv, LpSend \/ \E r \in lpReqs, ok \in BOOLEAN : LpSendAnswered(r, ok)
  PROVE  LpInv'
<1>1. LpTyped /\ OneLogin /\ BusyCovers /\ Awaits /\ VueTickets
  BY DEF LpInv
<1>2. CASE LpSend
  <2> DEFINE n == lpIssued.sends + 1
  <2>1. PICK x : lpReqs' = lpReqs \cup {x} /\ x.kind = "send"
    <3>1. Submit("send", lpTicket, 0, n).kind = "send" /\ Submit("send", 0, lpChallenge, n).kind = "send"
      BY DEF Submit
    <3>2. \/ lpReqs' = lpReqs \cup {Submit("send", lpTicket, 0, n)}
          \/ lpReqs' = lpReqs \cup {Submit("send", 0, lpChallenge, n)}
      BY <1>2 DEF LpSend
    <3>3. QED BY <3>1, <3>2
  <2>2. /\ lpIssued' = [lpIssued EXCEPT !.sends = n]
        /\ UNCHANGED <<lpFront, lpTicket, lpLoads, lpBusy, lpRefresh, lpHome, lpUsed, lpTaken>>
    BY <1>2 DEF LpSend
  <2>3. /\ lpIssued' \in [tickets : 1..LpMaxTickets, challenges : Nat, sends : Nat]
        /\ lpIssued'.tickets = lpIssued.tickets
    BY <1>1, <2>2 DEF LpTyped
  <2>4. LpTyped' /\ OneLogin' /\ BusyCovers' /\ Awaits'
    BY <1>1, <2>1, <2>2, <2>3 DEF LpTyped, OneLogin, Guarded, BusyCovers, HoldsBusy, Kinds, Awaits
  <2>5. VueTickets'
    BY <1>1, <2>1, <2>2, <2>3 DEF VueTickets, Fetching, Kinds
  <2>6. QED BY <2>4, <2>5 DEF LpInv
<1>3. ASSUME NEW r \in lpReqs, NEW ok \in BOOLEAN, LpSendAnswered(r, ok) PROVE LpInv'
  <2>1. /\ r.kind = "send" /\ lpReqs' = lpReqs \ {r}
        /\ UNCHANGED <<lpFront, lpBusy, lpRefresh, lpHome, lpIssued, lpUsed, lpTaken>>
        /\ BeginCaptcha \/ UNCHANGED <<lpLoads, lpTicket>>
    BY <1>3 DEF LpSendAnswered
  <2>2. OneLogin' /\ BusyCovers' /\ Awaits'
    BY <1>1, <2>1 DEF OneLogin, Guarded, BusyCovers, HoldsBusy, Awaits
  <2>3. CASE BeginCaptcha
    <3>1. /\ lpLoads' \in Nat /\ lpTicket' \in {0, lpTicket}
          /\ lpFront = "vue" => lpLoads' <= 1 /\ ~(lpRefresh' /\ lpLoads' > 0) /\ lpTicket' = 0
      BY <2>1, <2>3, CaptchaFacts
    <3>2. LpTyped'
      BY <1>1, <2>1, <3>1 DEF LpTyped
    <3>3. VueTickets'
      BY <1>1, <2>1, <3>1 DEF VueTickets, Fetching
    <3>4. QED BY <2>2, <3>2, <3>3 DEF LpInv
  <2>4. CASE UNCHANGED <<lpLoads, lpTicket>>
    <3>1. LpTyped' /\ VueTickets'
      BY <1>1, <2>1, <2>4 DEF LpTyped, VueTickets, Fetching
    <3>2. QED BY <2>2, <3>1 DEF LpInv
  <2>5. QED BY <2>1, <2>3, <2>4
<1>4. QED BY <1>2, <1>3

LEMMA CaptchaKeepsInv ==
  ASSUME LpInv, LpCaptchaClicked \/ \E own, ok \in BOOLEAN : LpCaptchaLoaded(own, ok)
  PROVE  LpInv'
<1>1. LpTyped /\ OneLogin /\ BusyCovers /\ Awaits /\ VueTickets
  BY DEF LpInv
<1>2. CASE LpCaptchaClicked
  <2>1. /\ BeginCaptcha
        /\ UNCHANGED <<lpFront, lpBusy, lpReqs, lpRefresh, lpHome, lpIssued, lpUsed, lpTaken>>
    BY <1>2 DEF LpCaptchaClicked
  <2>2. /\ lpLoads' \in Nat /\ lpTicket' \in {0, lpTicket}
        /\ lpFront = "vue" => lpLoads' <= 1 /\ ~(lpRefresh' /\ lpLoads' > 0) /\ lpTicket' = 0
    BY <2>1, CaptchaFacts
  <2>3. LpTyped' /\ OneLogin' /\ BusyCovers' /\ Awaits'
    BY <1>1, <2>1, <2>2 DEF LpTyped, OneLogin, Guarded, BusyCovers, HoldsBusy, Awaits
  <2>4. VueTickets'
    BY <1>1, <2>1, <2>2 DEF VueTickets, Fetching
  <2>5. QED BY <2>3, <2>4 DEF LpInv
<1>3. ASSUME NEW own \in BOOLEAN, NEW ok \in BOOLEAN, LpCaptchaLoaded(own, ok) PROVE LpInv'
  <2>1. /\ UNCHANGED <<lpFront, lpReqs, lpHome, lpUsed, lpTaken>>
        /\ \/ lpRefresh /\ lpRefresh' = FALSE /\ lpBusy' = FALSE /\ UNCHANGED lpLoads
           \/ lpLoads > 0 /\ lpLoads' = lpLoads - 1 /\ UNCHANGED <<lpRefresh, lpBusy>>
        /\ \/ UNCHANGED <<lpIssued, lpTicket>>
           \/ /\ lpIssued.tickets < LpMaxTickets
              /\ lpIssued' = [lpIssued EXCEPT !.tickets = @ + 1] /\ lpTicket' = lpIssued.tickets + 1
    BY <1>3 DEF LpCaptchaLoaded
  <2>2. OneLogin' /\ BusyCovers' /\ Awaits'
    BY <1>1, <2>1 DEF LpTyped, OneLogin, Guarded, BusyCovers, HoldsBusy, Awaits
  <2>6. lpLoads' \in Nat /\ lpBusy' \in BOOLEAN /\ lpRefresh' \in BOOLEAN
    <3>1. lpLoads \in Nat /\ lpBusy \in BOOLEAN /\ lpRefresh \in BOOLEAN
      BY <1>1 DEF LpTyped
    <3>2. \/ lpRefresh' = FALSE /\ lpBusy' = FALSE /\ lpLoads' = lpLoads
          \/ lpLoads > 0 /\ lpLoads' = lpLoads - 1 /\ lpRefresh' = lpRefresh /\ lpBusy' = lpBusy
      BY <2>1
    <3>3. lpLoads' \in Nat
      BY <3>1, <3>2
    <3>4. QED BY <3>1, <3>2, <3>3, Zenon
  <2>3. CASE UNCHANGED <<lpIssued, lpTicket>>
    <3>1. LpTyped'
      BY <1>1, <2>1, <2>3, <2>6 DEF LpTyped
    <3>2. VueTickets'
      BY <1>1, <2>1, <2>3 DEF LpTyped, VueTickets, Fetching
    <3>3. QED BY <2>2, <3>1, <3>2 DEF LpInv
  <2>4. CASE /\ lpIssued.tickets < LpMaxTickets
             /\ lpIssued' = [lpIssued EXCEPT !.tickets = @ + 1] /\ lpTicket' = lpIssued.tickets + 1
    <3>1. /\ lpIssued' \in [tickets : 1..LpMaxTickets, challenges : Nat, sends : Nat]
          /\ lpIssued'.tickets = lpIssued.tickets + 1 /\ lpIssued.tickets \in Nat
          /\ lpTicket' \in 1..LpMaxTickets
      BY <1>1, <2>4, LoginAssumption DEF LpTyped
    <3>2. LpTyped'
      BY <1>1, <2>1, <2>4, <2>6, <3>1 DEF LpTyped
    <3>3. lpFront = "vue" => lpUsed[lpTicket'] = 0
      BY <1>1, <2>4, <3>1 DEF VueTickets
    <3>4. VueTickets'
      BY <1>1, <2>1, <2>4, <3>1, <3>3 DEF LpTyped, VueTickets, Fetching
    <3>5. QED BY <2>2, <3>2, <3>4 DEF LpInv
  <2>5. QED BY <2>1, <2>3, <2>4
<1>4. QED BY <1>2, <1>3

LEMMA LpNextInv == LpInv /\ [LpNext]_loginVars => LpInv'
<1> SUFFICES ASSUME LpInv, [LpNext]_loginVars PROVE LpInv'
  OBVIOUS
<1>1. CASE LpCountdownEnds \/ LpToggle \/ LpBack \/ UNCHANGED loginVars
  <2>1. UNCHANGED <<lpFront, lpTicket, lpLoads, lpBusy, lpReqs, lpRefresh, lpHome, lpIssued, lpUsed, lpTaken>>
    BY <1>1 DEF LpCountdownEnds, LpToggle, LpBack, loginVars
  <2>2. QED
    BY <2>1 DEF LpInv, LpTyped, OneLogin, Guarded, BusyCovers, HoldsBusy, Awaits, VueTickets, Fetching
<1>2. QED
  BY <1>1, SubmitKeepsInv, AcceptedKeepsInv, HomeKeepsInv, RefusedKeepsInv, SendsKeepInv, CaptchaKeepsInv DEF LpNext

\* A set whose elements are all the same has at most one.
LEMMA AtMostOneElement ==
  ASSUME NEW S, \A x, y \in S : x = y
  PROVE  Cardinality(S) <= 1
<1>1. CASE S = {}
  BY <1>1, FS_EmptySet
<1>2. CASE S # {}
  <2>1. PICK x \in S : S = {x}
    BY <1>2
  <2>2. Cardinality({x}) = 1
    BY FS_Singleton
  <2>3. QED BY <2>1, <2>2
<1>3. QED BY <1>1, <1>2

LEMMA LpIsOnce == LpInv => LoginOnce
<1> SUFFICES ASSUME LpInv PROVE LoginOnce
  OBVIOUS
<1>1. \A x, y \in InFlight(Guarded) : x = y
  BY DEF LpInv, OneLogin, InFlight
<1>2. Cardinality(InFlight(Guarded)) <= 1
  BY <1>1, AtMostOneElement
<1>3. QED BY <1>2 DEF LoginOnce, Guarded, LpInv, VueTickets

(* However the user moves between the ways to log in, the Vue form has at   *)
(* most one login at the server and the React form at most one of its       *)
(* account and text-message logins; and the Vue form presents each captcha  *)
(* ticket once, but for the one of a login that was accepted, which the     *)
(* form goes on showing until it has left for home (LoginOnce of the runs). *)
THEOREM LogsInOnce == LpSpec => []LoginOnce
BY LpInitInv, LpNextInv, LpIsOnce, PTL DEF LpSpec

(***************************************************************************)
(* The chunked upload. Attempts at one file run side by side on one        *)
(* session. Each chunk the server lacks is behind the cursor of an attempt *)
(* or with a worker of it, unless parts were discarded since it began: the *)
(* others only add to what the server has.                                 *)
(***************************************************************************)
Below(S, c) == {d \in S : d < c}
Flight == [chunk : Chunks, worker : 1..CuConcurrency, stored : BOOLEAN]

LEMMA ChunksAreFinite ==
  /\ CuChunks \in Nat \ {0} /\ CuAttempts \in Nat \ {0} /\ Chunks \subseteq Nat
  /\ IsFiniteSet(Chunks) /\ Cardinality(Chunks) = CuChunks
<1>1. CuChunks \in Nat \ {0} /\ CuAttempts \in Nat \ {0}
  BY CuAssumption
<1>2. QED BY <1>1, FS_Interval DEF Chunks

\* The counts of a part of the chunks, and of what remains.
LEMMA PartFacts ==
  ASSUME NEW S \in SUBSET Chunks
  PROVE  /\ IsFiniteSet(S) /\ Cardinality(S) \in Nat
         /\ \A T \in SUBSET S : /\ IsFiniteSet(T) /\ Cardinality(T) \in Nat
                                /\ Cardinality(S \ T) + Cardinality(T) = Cardinality(S)
<1>1. IsFiniteSet(S) /\ Cardinality(S) \in Nat
  BY ChunksAreFinite, FS_Subset, FS_CardinalityType
<1>2. ASSUME NEW T \in SUBSET S
      PROVE  /\ IsFiniteSet(T) /\ Cardinality(T) \in Nat
             /\ Cardinality(S \ T) + Cardinality(T) = Cardinality(S)
  <2>1. IsFiniteSet(T) /\ IsFiniteSet(S \ T)
    BY <1>1, FS_Subset
  <2>2. Cardinality(T) \in Nat /\ Cardinality(S \ T) \in Nat
    BY <2>1, FS_CardinalityType
  <2>3. T \cup (S \ T) = S /\ T \cap (S \ T) = {}
    OBVIOUS
  <2>4. Cardinality(S) = Cardinality(T) + Cardinality(S \ T) - Cardinality({})
    BY <2>1, <2>3, FS_Union
  <2>5. QED BY <2>1, <2>2, <2>4, FS_EmptySet
<1>3. QED BY <1>1, <1>2

\* A set of chunks that is not empty has a first one: the cursor's choice is defined.
LEMMA FirstIsChosen ==
  ASSUME NEW S \in SUBSET Chunks, S # {}
  PROVE  FirstOf(S) \in S
<1> DEFINE T == {Below(S, c) : c \in S}
<1>1. IsFiniteSet(S) /\ S \subseteq Nat
  BY PartFacts, ChunksAreFinite
<1>2. FiniteSubsetsOf(S) = SUBSET S
  BY <1>1, FS_FiniteSubsetsOfFinite
<1>3. IsWellFoundedOn(StrictSubsetOrdering(S), SUBSET S)
  BY <1>2, FS_StrictSubsetOrderingWellFounded
<1>4. T \subseteq SUBSET S /\ T # {}
  BY DEF Below
<1>5. \E x \in T : \A y \in T : ~ (<<y, x>> \in StrictSubsetOrdering(S))
  <2> HIDE DEF T
  <2>1. QED BY <1>3, <1>4, WFMin
<1>6. PICK c \in S : \A d \in S : ~ (<<Below(S, d), Below(S, c)>> \in StrictSubsetOrdering(S))
  BY <1>5
<1>7. \A d \in S : c <= d
  <2> SUFFICES ASSUME NEW d \in S, d < c PROVE FALSE
    BY <1>1
  <2>1. Below(S, d) \subseteq Below(S, c) /\ d \in Below(S, c) /\ d \notin Below(S, d)
    <3>1. \A e \in S : e \in Nat
      BY <1>1
    <3>2. c \in Nat /\ d \in Nat /\ d < c /\ ~(d < d)
      BY <3>1
    <3>3. \A e \in S : e < d => e < c
      BY <3>1, <3>2
    <3>4. QED BY <3>2, <3>3, Zenon DEF Below
  <2>2. Below(S, d) \subseteq S /\ Below(S, c) \subseteq S
    BY DEF Below
  <2>3. <<Below(S, d), Below(S, c)>> \in StrictSubsetOrdering(S)
    BY <2>1, <2>2 DEF StrictSubsetOrdering
  <2>4. QED BY <1>6, <2>3
<1>8. QED BY <1>7 DEF FirstOf

\* What the first workers claim.
LEMMA ClaimFacts ==
  ASSUME NEW S \in SUBSET Chunks, NEW w, w = CuConcurrency
  PROVE  /\ NextOf(S, w) \in SUBSET S
         /\ Claims(S, w) \subseteq Flight
         /\ \A r \in Claims(S, w) : r.chunk \in NextOf(S, w)
         /\ \A r, s \in Claims(S, w) : r.chunk = s.chunk => r = s
         /\ \A c \in NextOf(S, w) : \E r \in Claims(S, w) : r.chunk = c /\ ~r.stored
         /\ IsFiniteSet(Claims(S, w)) /\ Cardinality(Claims(S, w)) = Cardinality(NextOf(S, w))
<1> DEFINE rec(c) == [chunk |-> c, worker |-> Cardinality({d \in S : d <= c}), stored |-> FALSE]
           N == NextOf(S, w)
           C == Claims(S, w)
           f == [c \in N |-> rec(c)]
<1>1. N \in SUBSET S /\ C = {rec(c) : c \in N}
  BY DEF NextOf, Claims
<1>2. ASSUME NEW c \in N PROVE Cardinality({d \in S : d <= c}) \in 1..CuConcurrency
  <2> DEFINE B == Below(S, c)
  <2>1. c \in S /\ Cardinality(B) < CuConcurrency /\ CuConcurrency \in Nat
    BY <1>1, CuAssumption DEF NextOf, Below
  <2>2. B \in SUBSET S /\ c \notin B /\ {d \in S : d <= c} = B \cup {c}
    <3>1. \A d \in S : d \in Nat
      BY ChunksAreFinite
    <3>2. QED BY <2>1, <3>1 DEF Below
  <2> HIDE DEF B
  <2>3. IsFiniteSet(B) /\ Cardinality(B) \in Nat
    BY <2>2, PartFacts
  <2>4. Cardinality(B \cup {c}) = Cardinality(B) + 1
    BY <2>2, <2>3, FS_AddElement
  <2>5. QED BY <2>1, <2>2, <2>3, <2>4
<1>3. \A c \in N : rec(c) \in Flight /\ rec(c).chunk = c /\ rec(c).stored = FALSE
  BY <1>1, <1>2 DEF Flight
<1> HIDE DEF rec, N, C
<1>4. /\ C \subseteq Flight
      /\ \A r \in C : r.chunk \in N
      /\ \A r, s \in C : r.chunk = s.chunk => r = s
      /\ \A c \in N : \E r \in C : r.chunk = c /\ ~r.stored
  BY <1>1, <1>3
<1>5. f \in Surjection(N, C) /\ f \in Injection(N, C)
  <2>1. f \in [N -> C] /\ \A c \in N : f[c] = rec(c)
    BY <1>1
  <2> HIDE DEF f
  <2>2. \A c, d \in N : f[c] = f[d] => c = d
    BY <1>3, <2>1
  <2>3. \A r \in C : \E c \in N : f[c] = r
    BY <1>1, <2>1
  <2>4. QED BY <2>1, <2>2, <2>3 DEF Surjection, Injection, IsInjective
<1>6. IsFiniteSet(N)
  BY <1>1, PartFacts
<1>7. IsFiniteSet(C) /\ Cardinality(C) = Cardinality(N)
  <2> HIDE DEF f
  <2>1. QED BY <1>5, <1>6, FS_Surjection
<1>8. QED BY <1>1, <1>4, <1>7 DEF N, C

Phases == {"no", "asked", "sending", "completing", "merging", "missing", "ok", "failed"}
Sends == {"sending", "completing", "merging"}

CuTyped ==
  /\ cuServer \in [file : BOOLEAN, has : SUBSET Chunks, late : SUBSET Chunks]
  /\ cuPhase \in [Attempts -> Phases]
  /\ cuLeft \in [Attempts -> SUBSET Chunks] /\ cuKnown \in [Attempts -> SUBSET Chunks]
  /\ cuFlights \in [Attempts -> SUBSET Flight] /\ cuUploaded \in [Attempts -> Nat]
  /\ cuWiped \in [Attempts -> BOOLEAN]

RestHasNoFlights ==
  \A a \in Attempts : cuPhase[a] \notin {"sending", "failed"} => cuFlights[a] = {}

\* Unless parts were discarded, each chunk the server lacks is behind the cursor or on its way.
RestIsSent ==
  \A a \in Attempts :
    cuPhase[a] = "sending" /\ ~cuWiped[a] =>
      \A c \in Chunks : \/ c \in cuServer.has \/ c \in cuLeft[a]
                        \/ \E f \in cuFlights[a] : f.chunk = c /\ ~f.stored

CompletesWhole ==
  \A a \in Attempts :
    /\ cuPhase[a] \in {"completing", "merging"} =>
         cuLeft[a] = {} /\ (cuServer.has = Chunks \/ cuWiped[a])
    /\ cuPhase[a] = "missing" => cuWiped[a]

\* What attempt a has behind the cursor, on its way and already counted.
SentOnce(a) ==
  /\ \A f, g \in cuFlights[a] : f.chunk = g.chunk => f = g
  /\ \A f \in cuFlights[a] : f.chunk \notin cuKnown[a] \cup cuLeft[a]
  /\ \A c \in cuLeft[a] : c \notin cuKnown[a]
  /\ IsFiniteSet(cuFlights[a])
  /\ cuUploaded[a] + Cardinality(cuLeft[a]) + Cardinality(cuFlights[a]) <= CuChunks
  /\ cuPhase[a] \in Sends =>
       cuUploaded[a] + Cardinality(cuLeft[a]) + Cardinality(cuFlights[a]) = CuChunks

CuInv ==
  /\ CuTyped /\ RestHasNoFlights /\ RestIsSent /\ CompletesWhole
  /\ \A a \in Attempts : SentOnce(a)

LEMMA CuInitInv == CuInit => CuInv
<1> SUFFICES ASSUME CuInit PROVE CuInv
  OBVIOUS
<1>1. CuTyped /\ RestHasNoFlights /\ RestIsSent /\ CompletesWhole
  BY DEF CuInit, CuTyped, Phases, RestHasNoFlights, RestIsSent, CompletesWhole
<1>2. ASSUME NEW a \in Attempts PROVE SentOnce(a)
  <2>1. cuLeft[a] = {} /\ cuFlights[a] = {} /\ cuUploaded[a] = 0
        /\ cuPhase[a] \notin Sends
    BY DEF CuInit, Sends
  <2>2. QED BY <2>1, FS_EmptySet, ChunksAreFinite DEF SentOnce
<1>3. QED BY <1>1, <1>2 DEF CuInv

\* What a step leaves alone of an attempt keeps what is said of it.
LEMMA SentOnceStays ==
  ASSUME NEW a \in Attempts, SentOnce(a), cuLeft'[a] = cuLeft[a], cuFlights'[a] = cuFlights[a],
         cuUploaded'[a] = cuUploaded[a], cuKnown'[a] = cuKnown[a],
         cuPhase'[a] \in Sends => cuPhase[a] \in Sends
  PROVE  SentOnce(a)'
BY DEF SentOnce

LEMMA AskKeepsInv == ASSUME CuInv, NEW a \in Attempts, CuAsk(a) PROVE CuInv'
<1>1. /\ CuTyped /\ RestHasNoFlights /\ RestIsSent /\ CompletesWhole
      /\ \A b \in Attempts : SentOnce(b)
  BY DEF CuInv
<1>2. /\ cuPhase[a] = "no" /\ UNCHANGED <<cuServer, cuLeft, cuFlights, cuUploaded, cuKnown, cuWiped>>
      /\ \E p \in {"ok", "asked", "failed"} : cuPhase' = [cuPhase EXCEPT ![a] = p]
  BY DEF CuAsk
<1>3. PICK p \in {"ok", "asked", "failed"} : cuPhase' = [cuPhase EXCEPT ![a] = p]
  BY <1>2
<1>4. /\ cuPhase' \in [Attempts -> Phases] /\ cuPhase'[a] = p
      /\ \A b \in Attempts \ {a} : cuPhase'[b] = cuPhase[b]
  BY <1>1, <1>3 DEF CuTyped, Phases
<1>5. CuTyped'
  BY <1>1, <1>2, <1>4 DEF CuTyped
<1>6. RestHasNoFlights' /\ RestIsSent' /\ CompletesWhole'
  BY <1>1, <1>2, <1>4 DEF RestHasNoFlights, RestIsSent, CompletesWhole
<1>7. \A b \in Attempts : cuPhase'[b] \in Sends => cuPhase[b] \in Sends
  BY <1>4 DEF Sends
<1>8. \A b \in Attempts : SentOnce(b)'
  BY <1>1, <1>2, <1>7, SentOnceStays
<1>9. QED BY <1>5, <1>6, <1>8 DEF CuInv

LEMMA BeginKeepsInv == ASSUME CuInv, NEW a \in Attempts, CuBegin(a) PROVE CuInv'
<1> DEFINE missing == Chunks \ cuServer.has
           next == NextOf(missing, CuConcurrency)
           claims == Claims(missing, CuConcurrency)
           p == IF missing = {} THEN "completing" ELSE "sending"
<1>1. /\ CuTyped /\ RestHasNoFlights /\ RestIsSent /\ CompletesWhole
      /\ \A b \in Attempts : SentOnce(b)
  BY DEF CuInv
<1>2. /\ cuPhase' = [cuPhase EXCEPT ![a] = p]
      /\ cuFlights' = [cuFlights EXCEPT ![a] = claims]
      /\ cuLeft' = [cuLeft EXCEPT ![a] = missing \ next]
      /\ cuUploaded' = [cuUploaded EXCEPT ![a] = Cardinality(cuServer.has)]
      /\ cuKnown' = [cuKnown EXCEPT ![a] = cuServer.has]
      /\ cuWiped' = [cuWiped EXCEPT ![a] = FALSE]
      /\ cuServer' = cuServer
  BY DEF CuBegin
<1>3. cuServer.has \in SUBSET Chunks /\ missing \in SUBSET Chunks
  BY <1>1 DEF CuTyped
<1>4. /\ next \in SUBSET missing /\ claims \subseteq Flight
      /\ \A r \in claims : r.chunk \in next
      /\ \A r, s \in claims : r.chunk = s.chunk => r = s
      /\ \A c \in next : \E r \in claims : r.chunk = c /\ ~r.stored
      /\ IsFiniteSet(claims) /\ Cardinality(claims) = Cardinality(next)
  BY <1>3, ClaimFacts
<1>5. /\ Cardinality(cuServer.has) \in Nat /\ Cardinality(next) \in Nat
      /\ Cardinality(missing \ next) \in Nat /\ CuChunks \in Nat
      /\ Cardinality(cuServer.has) + Cardinality(missing \ next) + Cardinality(next) = CuChunks
  <2>1. /\ Cardinality(cuServer.has) \in Nat /\ Cardinality(missing) \in Nat
        /\ Cardinality(Chunks \ cuServer.has) + Cardinality(cuServer.has) = Cardinality(Chunks)
    BY <1>3, PartFacts
  <2>2. /\ Cardinality(next) \in Nat /\ Cardinality(missing \ next) \in Nat
        /\ Cardinality(missing \ next) + Cardinality(next) = Cardinality(missing)
    BY <1>3, <1>4, PartFacts
  <2>3. Cardinality(Chunks) = CuChunks /\ CuChunks \in Nat
    BY ChunksAreFinite
  <2> HIDE DEF missing, next
  <2>4. Cardinality(missing) + Cardinality(cuServer.has) = CuChunks
    BY <2>1, <2>3 DEF missing
  <2>5. QED BY <2>1, <2>2, <2>3, <2>4
<1>6. /\ p \in {"completing", "sending"} /\ (p = "completing" => missing = {})
      /\ (missing = {} => claims = {} /\ missing \ next = {} /\ cuServer.has = Chunks)
  BY <1>3, <1>4
<1>7. cuPhase' \in [Attempts -> Phases] /\ cuLeft' \in [Attempts -> SUBSET Chunks]
  BY <1>1, <1>2 DEF CuTyped, Phases
<1>8. cuKnown' \in [Attempts -> SUBSET Chunks] /\ cuWiped' \in [Attempts -> BOOLEAN]
  BY <1>1, <1>2, <1>3 DEF CuTyped
<1> HIDE DEF next, claims, p, missing
<1>9. cuFlights' \in [Attempts -> SUBSET Flight] /\ cuUploaded' \in [Attempts -> Nat]
  BY <1>1, <1>2, <1>4, <1>5 DEF CuTyped
<1>10. CuTyped'
  BY <1>1, <1>2, <1>7, <1>8, <1>9 DEF CuTyped
<1>11. /\ cuPhase'[a] = p /\ cuFlights'[a] = claims /\ cuLeft'[a] = missing \ next
       /\ cuKnown'[a] = cuServer.has /\ cuUploaded'[a] = Cardinality(cuServer.has)
       /\ cuWiped'[a] = FALSE
  BY <1>1, <1>2 DEF CuTyped
<1>12. \A b \in Attempts \ {a} :
         /\ cuPhase'[b] = cuPhase[b] /\ cuFlights'[b] = cuFlights[b] /\ cuLeft'[b] = cuLeft[b]
         /\ cuKnown'[b] = cuKnown[b] /\ cuUploaded'[b] = cuUploaded[b] /\ cuWiped'[b] = cuWiped[b]
  BY <1>1, <1>2 DEF CuTyped
<1>13. RestHasNoFlights'
  BY <1>1, <1>6, <1>11, <1>12 DEF RestHasNoFlights
<1>14. RestIsSent'
  <2>1. \A c \in Chunks : \/ c \in cuServer.has \/ c \in missing \ next
                           \/ \E f \in claims : f.chunk = c /\ ~f.stored
    BY <1>4 DEF missing
  <2>2. QED BY <1>1, <1>2, <1>11, <1>12, <2>1 DEF RestIsSent
<1>15. CompletesWhole'
  BY <1>1, <1>2, <1>6, <1>11, <1>12 DEF CompletesWhole
<1>16. SentOnce(a)'
  <2>1. /\ \A f \in claims : f.chunk \notin cuServer.has \cup (missing \ next)
        /\ \A c \in missing \ next : c \notin cuServer.has
    BY <1>4 DEF missing
  <2>2. QED BY <1>4, <1>5, <1>11, <2>1 DEF SentOnce
<1>17. \A b \in Attempts : SentOnce(b)'
  BY <1>1, <1>12, <1>16, SentOnceStays
<1>18. QED BY <1>10, <1>13, <1>14, <1>15, <1>17 DEF CuInv

LEMMA StoreKeepsInv ==
  ASSUME CuInv, NEW a \in Attempts, NEW f \in cuFlights[a], CuStore(a, f)
  PROVE  CuInv'
<1> DEFINE g == [f EXCEPT !.stored = TRUE]
<1>1. /\ CuTyped /\ RestHasNoFlights /\ RestIsSent /\ CompletesWhole
      /\ \A b \in Attempts : SentOnce(b)
  BY DEF CuInv
<1>2. /\ ~f.stored /\ cuFlights' = [cuFlights EXCEPT ![a] = (cuFlights[a] \ {f}) \cup {g}]
      /\ cuServer' = [cuServer EXCEPT !.has = cuServer.has \cup {f.chunk}]
      /\ UNCHANGED <<cuPhase, cuLeft, cuUploaded, cuKnown, cuWiped>>
  BY DEF CuStore
<1>3. f \in Flight /\ g \in Flight /\ g.chunk = f.chunk /\ f.chunk \in Chunks
  <2>1. f \in Flight
    BY <1>1 DEF CuTyped
  <2>2. QED BY <2>1 DEF Flight
<1> HIDE DEF g
<1>4. /\ cuServer'.file = cuServer.file /\ cuServer'.has = cuServer.has \cup {f.chunk}
      /\ cuServer' \in [file : BOOLEAN, has : SUBSET Chunks, late : SUBSET Chunks]
  BY <1>1, <1>2, <1>3 DEF CuTyped
<1>5. /\ cuFlights' \in [Attempts -> SUBSET Flight]
      /\ cuFlights'[a] = (cuFlights[a] \ {f}) \cup {g}
      /\ \A b \in Attempts \ {a} : cuFlights'[b] = cuFlights[b]
  BY <1>1, <1>2, <1>3 DEF CuTyped
<1>6. CuTyped'
  BY <1>1, <1>2, <1>4, <1>5 DEF CuTyped
<1>7. RestHasNoFlights' /\ CompletesWhole'
  BY <1>1, <1>2, <1>3, <1>4, <1>5 DEF RestHasNoFlights, CompletesWhole, CuTyped
<1>8. RestIsSent'
  BY <1>1, <1>2, <1>4, <1>5 DEF RestIsSent
<1>9. SentOnce(a)'
  <2>1. /\ \A r, s \in cuFlights'[a] : r.chunk = s.chunk => r = s
        /\ \A r \in cuFlights'[a] : r.chunk \notin cuKnown'[a] \cup cuLeft'[a]
        /\ \A c \in cuLeft'[a] : c \notin cuKnown'[a]
    BY <1>1, <1>2, <1>3, <1>5 DEF SentOnce
  <2>2. IsFiniteSet(cuFlights[a]) /\ Cardinality(cuFlights[a]) \in Nat
    BY <1>1, FS_CardinalityType DEF SentOnce
  <2>3. /\ IsFiniteSet(cuFlights[a] \ {f})
        /\ Cardinality(cuFlights[a] \ {f}) = Cardinality(cuFlights[a]) - 1
    BY <2>2, FS_RemoveElement
  <2>4. IsFiniteSet(cuFlights'[a]) /\ Cardinality(cuFlights'[a]) = Cardinality(cuFlights[a])
    <3> DEFINE rest == cuFlights[a] \ {f}
    <3>1. IsFiniteSet(rest) /\ Cardinality(rest) = Cardinality(cuFlights[a]) - 1 /\ cuFlights'[a] = rest \cup {g}
      BY <1>5, <2>3
    <3>9. g \notin rest
      BY <1>1, <1>3 DEF SentOnce
    <3> HIDE DEF rest
    <3>2. /\ IsFiniteSet(rest \cup {g})
          /\ Cardinality(rest \cup {g}) = IF g \in rest THEN Cardinality(rest) ELSE Cardinality(rest) + 1
      BY <3>1, FS_AddElement
    <3>3. QED BY <2>2, <3>1, <3>2, <3>9
  <2>5. /\ Cardinality(cuFlights'[a]) \in Nat /\ Cardinality(cuLeft[a]) \in Nat
        /\ cuUploaded[a] \in Nat /\ CuChunks \in Nat
    BY <1>1, <2>4, FS_CardinalityType, PartFacts, ChunksAreFinite DEF CuTyped
  <2>6. /\ cuUploaded'[a] + Cardinality(cuLeft'[a]) + Cardinality(cuFlights'[a]) <= CuChunks
        /\ cuPhase'[a] \in Sends =>
             cuUploaded'[a] + Cardinality(cuLeft'[a]) + Cardinality(cuFlights'[a]) = CuChunks
    BY <1>1, <1>2, <2>2, <2>4, <2>5 DEF SentOnce
  <2>7. QED BY <2>1, <2>4, <2>6 DEF SentOnce
<1>10. \A b \in Attempts : SentOnce(b)'
  BY <1>1, <1>2, <1>5, <1>9, SentOnceStays
<1>11. QED BY <1>6, <1>7, <1>8, <1>10 DEF CuInv

LEMMA ChunkOkKeepsInv ==
  ASSUME CuInv, NEW a \in Attempts, NEW f \in cuFlights[a], CuChunkOk(a, f)
  PROVE  CuInv'
<1> DEFINE rest == cuFlights[a] \ {f}
<1>1. /\ CuTyped /\ RestHasNoFlights /\ RestIsSent /\ CompletesWhole
      /\ \A b \in Attempts : SentOnce(b)
  BY DEF CuInv
<1>2. /\ f.stored /\ cuUploaded' = [cuUploaded EXCEPT ![a] = cuUploaded[a] + 1]
      /\ UNCHANGED <<cuServer, cuKnown, cuWiped>>
  BY DEF CuChunkOk
<1>3. /\ cuUploaded[a] \in Nat /\ cuUploaded' \in [Attempts -> Nat]
      /\ cuUploaded'[a] = cuUploaded[a] + 1
      /\ \A b \in Attempts \ {a} : cuUploaded'[b] = cuUploaded[b]
  BY <1>1, <1>2 DEF CuTyped
<1>4. /\ IsFiniteSet(cuFlights[a]) /\ Cardinality(cuFlights[a]) \in Nat
      /\ IsFiniteSet(rest) /\ Cardinality(rest) \in Nat
      /\ Cardinality(rest) = Cardinality(cuFlights[a]) - 1
  BY <1>1, FS_CardinalityType, FS_RemoveElement DEF SentOnce
<1>5. /\ cuLeft[a] \in SUBSET Chunks /\ Cardinality(cuLeft[a]) \in Nat /\ CuChunks \in Nat
      /\ cuFlights[a] \in SUBSET Flight /\ f \in Flight
      /\ cuUploaded[a] + Cardinality(cuLeft[a]) + Cardinality(cuFlights[a]) <= CuChunks
      /\ cuPhase[a] \in Sends =>
           cuUploaded[a] + Cardinality(cuLeft[a]) + Cardinality(cuFlights[a]) = CuChunks
  BY <1>1, PartFacts, ChunksAreFinite DEF CuTyped, SentOnce
<1>6. cuPhase[a] \in {"sending", "failed"}
  BY <1>1 DEF RestHasNoFlights, CuTyped
<1>7. CASE cuLeft[a] # {}
  <2> DEFINE c == FirstOf(cuLeft[a])
             g == [chunk |-> c, worker |-> f.worker, stored |-> FALSE]
  <2>1. c \in cuLeft[a]
    BY <1>5, <1>7, FirstIsChosen
  <2>2. /\ cuFlights' = [cuFlights EXCEPT ![a] = rest \cup {g}]
        /\ cuLeft' = [cuLeft EXCEPT ![a] = cuLeft[a] \ {c}] /\ cuPhase' = cuPhase
    BY <1>7 DEF CuChunkOk
  <2>3. g \in Flight /\ g.chunk = c /\ ~g.stored
    BY <1>5, <2>1 DEF Flight
  <2> HIDE DEF c, g
  <2>4. /\ cuFlights' \in [Attempts -> SUBSET Flight] /\ cuFlights'[a] = rest \cup {g}
        /\ \A b \in Attempts \ {a} : cuFlights'[b] = cuFlights[b]
    BY <1>1, <1>5, <2>2, <2>3 DEF CuTyped
  <2>5. /\ cuLeft' \in [Attempts -> SUBSET Chunks] /\ cuLeft'[a] = cuLeft[a] \ {c}
        /\ \A b \in Attempts \ {a} : cuLeft'[b] = cuLeft[b]
    BY <1>1, <1>5, <2>2 DEF CuTyped
  <2>6. CuTyped'
    BY <1>1, <1>2, <1>3, <2>2, <2>4, <2>5 DEF CuTyped
  <2>7. RestHasNoFlights' /\ CompletesWhole'
    BY <1>1, <1>2, <1>6, <2>2, <2>4, <2>5 DEF RestHasNoFlights, CompletesWhole
  <2>8. RestIsSent'
    <3> SUFFICES ASSUME NEW b \in Attempts, cuPhase[b] = "sending", ~cuWiped[b], NEW d \in Chunks,
                        d \notin cuServer.has, d \notin cuLeft'[b]
                 PROVE  \E h \in cuFlights'[b] : h.chunk = d /\ ~h.stored
      BY <1>1, <1>2, <2>2 DEF RestIsSent
    <3>1. d \in cuLeft[b] \/ \E h \in cuFlights[b] : h.chunk = d /\ ~h.stored
      BY <1>1 DEF RestIsSent
    <3>2. CASE b = a
      BY <1>2, <2>3, <2>4, <2>5, <3>1, <3>2
    <3>3. CASE b # a
      BY <2>4, <2>5, <3>1, <3>3
    <3>4. QED BY <3>2, <3>3
  <2>9. SentOnce(a)'
    <3>1. \A r, s \in cuFlights'[a] : r.chunk = s.chunk => r = s
      BY <1>1, <2>1, <2>3, <2>4 DEF SentOnce
    <3>2. \A r \in cuFlights'[a] : r.chunk \notin cuKnown'[a] \cup cuLeft'[a]
      BY <1>1, <1>2, <2>1, <2>3, <2>4, <2>5 DEF SentOnce
    <3>3. \A d \in cuLeft'[a] : d \notin cuKnown'[a]
      BY <1>1, <1>2, <2>5 DEF SentOnce
    <3>4. /\ IsFiniteSet(cuFlights'[a]) /\ Cardinality(cuFlights'[a]) \in Nat
          /\ Cardinality(cuFlights'[a]) = Cardinality(cuFlights[a])
      <4>9. g \notin rest
        BY <1>1, <2>1, <2>3 DEF SentOnce
      <4> HIDE DEF rest
      <4>1. /\ IsFiniteSet(rest \cup {g})
            /\ Cardinality(rest \cup {g}) = IF g \in rest THEN Cardinality(rest) ELSE Cardinality(rest) + 1
        BY <1>4, FS_AddElement
      <4>2. QED BY <1>4, <2>4, <4>1, <4>9
    <3>5. Cardinality(cuLeft'[a]) = Cardinality(cuLeft[a]) - 1
      BY <1>5, <2>1, <2>5, PartFacts, FS_RemoveElement
    <3>6. /\ cuUploaded'[a] + Cardinality(cuLeft'[a]) + Cardinality(cuFlights'[a]) <= CuChunks
          /\ cuPhase'[a] \in Sends =>
               cuUploaded'[a] + Cardinality(cuLeft'[a]) + Cardinality(cuFlights'[a]) = CuChunks
      BY <1>3, <1>4, <1>5, <2>2, <3>4, <3>5
    <3>7. QED BY <3>1, <3>2, <3>3, <3>4, <3>6 DEF SentOnce
  <2>10. \A b \in Attempts : SentOnce(b)'
    BY <1>1, <1>2, <1>3, <2>2, <2>4, <2>5, <2>9, SentOnceStays
  <2>11. QED BY <2>6, <2>7, <2>8, <2>10 DEF CuInv
<1>8. CASE cuLeft[a] = {}
  <2> DEFINE p == IF rest = {} /\ cuPhase[a] = "sending" THEN "completing" ELSE cuPhase[a]
  <2>1. /\ cuFlights' = [cuFlights EXCEPT ![a] = rest] /\ cuLeft' = cuLeft
        /\ cuPhase' = [cuPhase EXCEPT ![a] = p]
    BY <1>8 DEF CuChunkOk
  <2>2. /\ p \in {"sending", "completing", "failed"}
        /\ p = "sending" => cuPhase[a] = "sending" 
        /\ p = "completing" => cuPhase[a] = "sending" /\ rest = {}
        /\ cuPhase[a] = "failed" => p = "failed"
    BY <1>6
  <2> HIDE DEF p
  <2>3. /\ cuFlights' \in [Attempts -> SUBSET Flight] /\ cuFlights'[a] = rest
        /\ \A b \in Attempts \ {a} : cuFlights'[b] = cuFlights[b]
    BY <1>1, <1>5, <2>1 DEF CuTyped
  <2>4. /\ cuPhase' \in [Attempts -> Phases]
        /\ cuPhase'[a] = p /\ \A b \in Attempts \ {a} : cuPhase'[b] = cuPhase[b]
    BY <1>1, <2>1, <2>2 DEF CuTyped, Phases
  <2>5. CuTyped'
    BY <1>1, <1>2, <1>3, <2>1, <2>3, <2>4 DEF CuTyped
  <2>7. RestHasNoFlights'
    BY <1>1, <2>2, <2>3, <2>4 DEF RestHasNoFlights
  <2>8. RestIsSent'
    <3> SUFFICES ASSUME NEW b \in Attempts, cuPhase'[b] = "sending", ~cuWiped[b], NEW d \in Chunks,
                        d \notin cuServer.has, d \notin cuLeft[b]
                 PROVE  \E h \in cuFlights'[b] : h.chunk = d /\ ~h.stored
      BY <1>1, <1>2, <2>1, <2>2, <2>4 DEF RestIsSent
    <3>1. \E h \in cuFlights[b] : h.chunk = d /\ ~h.stored
      BY <1>1, <2>2, <2>4 DEF RestIsSent
    <3>2. QED BY <1>2, <2>3, <3>1
  <2>9. CompletesWhole'
    <3>1. p = "completing" => cuServer.has = Chunks \/ cuWiped[a]
      <4> SUFFICES ASSUME p = "completing", ~cuWiped[a] PROVE Chunks \subseteq cuServer.has
        BY <1>1 DEF CuTyped
      <4>1. cuPhase[a] = "sending" /\ \A h \in cuFlights[a] : h = f
        BY <2>2
      <4>2. QED BY <1>1, <1>2, <1>8, <4>1 DEF RestIsSent
    <3>2. QED BY <1>1, <1>2, <1>8, <2>1, <2>2, <2>4, <3>1 DEF CompletesWhole
  <2>10. SentOnce(a)'
    <3>1. /\ \A r, s \in cuFlights'[a] : r.chunk = s.chunk => r = s
          /\ \A r \in cuFlights'[a] : r.chunk \notin cuKnown'[a] \cup cuLeft'[a]
          /\ \A d \in cuLeft'[a] : d \notin cuKnown'[a]
      BY <1>1, <1>2, <2>1, <2>3 DEF SentOnce
    <3>2. /\ cuUploaded'[a] + Cardinality(cuLeft'[a]) + Cardinality(cuFlights'[a]) <= CuChunks
          /\ cuPhase'[a] \in Sends =>
               cuUploaded'[a] + Cardinality(cuLeft'[a]) + Cardinality(cuFlights'[a]) = CuChunks
      <4>1. cuPhase'[a] \in Sends => cuPhase[a] \in Sends
        BY <2>2, <2>4 DEF Sends
      <4>2. QED BY <1>3, <1>4, <1>5, <2>1, <2>3, <4>1
    <3>3. QED BY <1>4, <2>3, <3>1, <3>2 DEF SentOnce
  <2>11. \A b \in Attempts : SentOnce(b)'
    BY <1>1, <1>2, <1>3, <2>1, <2>3, <2>4, <2>10, SentOnceStays
  <2>12. QED BY <2>5, <2>7, <2>8, <2>9, <2>11 DEF CuInv
<1>9. QED BY <1>7, <1>8

LEMMA ChunkFailKeepsInv ==
  ASSUME CuInv, NEW a \in Attempts, NEW f \in cuFlights[a], CuChunkFail(a, f)
  PROVE  CuInv'
<1> DEFINE rest == cuFlights[a] \ {f}
<1>1. /\ CuTyped /\ RestHasNoFlights /\ RestIsSent /\ CompletesWhole
      /\ \A b \in Attempts : SentOnce(b)
  BY DEF CuInv
<1>2. /\ cuFlights' = [cuFlights EXCEPT ![a] = rest] /\ cuPhase' = [cuPhase EXCEPT ![a] = "failed"]
      /\ UNCHANGED <<cuLeft, cuUploaded, cuKnown, cuWiped>>
      /\ \/ cuServer' = cuServer
         \/ cuServer' = [cuServer EXCEPT !.late = cuServer.late \cup {f.chunk}]
  BY DEF CuChunkFail
<1>10. f.chunk \in Chunks
  BY <1>1 DEF CuTyped, Flight
<1>11. cuServer' \in [file : BOOLEAN, has : SUBSET Chunks, late : SUBSET Chunks] /\ cuServer'.has = cuServer.has
  BY <1>1, <1>2, <1>10 DEF CuTyped
<1>3. /\ cuFlights' \in [Attempts -> SUBSET Flight] /\ cuFlights'[a] = rest
      /\ \A b \in Attempts \ {a} : cuFlights'[b] = cuFlights[b]
  BY <1>1, <1>2 DEF CuTyped
<1>4. /\ cuPhase' \in [Attempts -> Phases]
      /\ cuPhase'[a] = "failed" /\ \A b \in Attempts \ {a} : cuPhase'[b] = cuPhase[b]
  BY <1>1, <1>2 DEF CuTyped, Phases
<1>6. CuTyped'
  BY <1>1, <1>2, <1>3, <1>4, <1>11 DEF CuTyped
<1>7. RestHasNoFlights' /\ RestIsSent' /\ CompletesWhole'
  BY <1>1, <1>2, <1>3, <1>4, <1>11 DEF RestHasNoFlights, RestIsSent, CompletesWhole
<1>8. SentOnce(a)'
  <2>1. /\ \A r, s \in cuFlights'[a] : r.chunk = s.chunk => r = s
        /\ \A r \in cuFlights'[a] : r.chunk \notin cuKnown'[a] \cup cuLeft'[a]
        /\ \A d \in cuLeft'[a] : d \notin cuKnown'[a]
    BY <1>1, <1>2, <1>3 DEF SentOnce
  <2>2. /\ IsFiniteSet(rest) /\ Cardinality(rest) \in Nat /\ Cardinality(cuFlights[a]) \in Nat
        /\ Cardinality(rest) = Cardinality(cuFlights[a]) - 1
    BY <1>1, FS_CardinalityType, FS_RemoveElement DEF SentOnce
  <2>3. cuUploaded[a] \in Nat /\ Cardinality(cuLeft[a]) \in Nat /\ CuChunks \in Nat
    BY <1>1, PartFacts, ChunksAreFinite DEF CuTyped
  <2>4. cuUploaded'[a] + Cardinality(cuLeft'[a]) + Cardinality(cuFlights'[a]) <= CuChunks
    BY <1>1, <1>2, <1>3, <2>2, <2>3 DEF SentOnce
  <2>5. cuPhase'[a] \notin Sends
    BY <1>4 DEF Sends
  <2>6. QED BY <1>3, <2>1, <2>2, <2>4, <2>5 DEF SentOnce
<1>9. \A b \in Attempts : SentOnce(b)'
  BY <1>1, <1>2, <1>3, <1>4, <1>8, SentOnceStays
<1>12. QED BY <1>6, <1>7, <1>9 DEF CuInv

\* What a discard does: an attempt it does not mark as wiped lost nothing.
LEMMA DiscardFacts ==
  ASSUME CuTyped, NEW file \in BOOLEAN, Discard(file) \/ UNCHANGED <<cuServer, cuWiped>>
  PROVE  /\ cuServer' \in [file : BOOLEAN, has : SUBSET Chunks, late : SUBSET Chunks] /\ cuWiped' \in [Attempts -> BOOLEAN]
         /\ \A a \in Attempts : /\ cuWiped[a] => cuWiped'[a]
                                /\ ~cuWiped'[a] => cuServer'.has = cuServer.has
<1>1. CASE Discard(file)
  <2>1. cuServer' = [cuServer EXCEPT !.file = file, !.has = {}]
    BY <1>1 DEF Discard
  <2>2. cuServer'.has = {} /\ cuServer' \in [file : BOOLEAN, has : SUBSET Chunks, late : SUBSET Chunks]
    BY <2>1 DEF CuTyped
  <2>3. cuWiped' = [a \in Attempts |-> cuWiped[a] \/ cuServer.has # {}]
    BY <1>1 DEF Discard
  <2>4. QED BY <2>2, <2>3 DEF CuTyped
<1>2. CASE UNCHANGED <<cuServer, cuWiped>>
  BY <1>2 DEF CuTyped
<1>3. QED BY <1>1, <1>2

\* A complete that ends an attempt, or starts its merge, keeps the invariant.
LEMMA EndKeepsInv ==
  ASSUME CuInv, NEW a \in Attempts, cuPhase[a] \in {"completing", "merging"},
         NEW p \in {"ok", "failed", "merging", "missing"}, cuPhase' = [cuPhase EXCEPT ![a] = p],
         p = "missing" => cuServer.has # Chunks /\ UNCHANGED cuWiped,
         NEW file \in BOOLEAN, Discard(file) \/ UNCHANGED <<cuServer, cuWiped>>,
         UNCHANGED <<cuLeft, cuFlights, cuUploaded, cuKnown>>
  PROVE  CuInv'
<1>1. /\ CuTyped /\ RestHasNoFlights /\ RestIsSent /\ CompletesWhole
      /\ \A b \in Attempts : SentOnce(b)
  BY DEF CuInv
<1>2. /\ cuPhase' \in [Attempts -> Phases] /\ cuPhase'[a] = p
      /\ \A b \in Attempts \ {a} : cuPhase'[b] = cuPhase[b]
  BY <1>1 DEF CuTyped, Phases
<1>3. /\ cuServer' \in [file : BOOLEAN, has : SUBSET Chunks, late : SUBSET Chunks] /\ cuWiped' \in [Attempts -> BOOLEAN]
      /\ \A b \in Attempts : /\ cuWiped[b] => cuWiped'[b]
                             /\ ~cuWiped'[b] => cuServer'.has = cuServer.has
  BY <1>1, DiscardFacts
<1>4. CuTyped'
  BY <1>1, <1>2, <1>3 DEF CuTyped
<1>5. RestHasNoFlights'
  BY <1>1, <1>2 DEF RestHasNoFlights
<1>6. RestIsSent'
  <2> SUFFICES ASSUME NEW b \in Attempts, cuPhase'[b] = "sending", ~cuWiped'[b]
               PROVE  \A c \in Chunks : \/ c \in cuServer'.has \/ c \in cuLeft[b]
                                        \/ \E f \in cuFlights[b] : f.chunk = c /\ ~f.stored
    BY DEF RestIsSent
  <2>1. cuPhase[b] = "sending" /\ ~cuWiped[b] /\ cuServer'.has = cuServer.has
    BY <1>2, <1>3
  <2>2. QED BY <1>1, <2>1 DEF RestIsSent
<1>7. CompletesWhole'
  <2>1. cuLeft[a] = {} /\ (cuServer.has = Chunks \/ cuWiped[a])
    BY <1>1 DEF CompletesWhole
  <2>2. p = "missing" => cuWiped'[a]
    BY <1>3, <2>1
  <2>3. cuServer'.has = Chunks \/ cuWiped'[a]
    BY <1>3, <2>1
  <2>4. QED BY <1>1, <1>2, <1>3, <2>1, <2>2, <2>3 DEF CompletesWhole
<1>8. \A b \in Attempts : cuPhase'[b] \in Sends => cuPhase[b] \in Sends
  BY <1>2 DEF Sends
<1>9. \A b \in Attempts : SentOnce(b)'
  BY <1>1, <1>8, SentOnceStays
<1>10. QED BY <1>4, <1>5, <1>6, <1>7, <1>9 DEF CuInv

LEMMA CompleteKeepsInv == ASSUME CuInv, NEW a \in Attempts, CuComplete(a) PROVE CuInv'
<1>1. /\ cuPhase[a] = "completing" /\ UNCHANGED <<cuLeft, cuFlights, cuUploaded, cuKnown>>
      /\ Discard(TRUE) \/ UNCHANGED <<cuServer, cuWiped>>
      /\ \E p \in {"ok", "failed", "merging"} : cuPhase' = [cuPhase EXCEPT ![a] = p]
  BY DEF CuComplete
<1>2. PICK p \in {"ok", "failed", "merging"} : cuPhase' = [cuPhase EXCEPT ![a] = p]
  BY <1>1
<1>3. QED BY <1>1, <1>2, EndKeepsInv

LEMMA MergeKeepsInv == ASSUME CuInv, NEW a \in Attempts, CuMerge(a) PROVE CuInv'
<1>1. cuPhase[a] = "merging" /\ UNCHANGED <<cuLeft, cuFlights, cuUploaded, cuKnown>>
  BY DEF CuMerge
<1>2. cuServer.file \in BOOLEAN
  BY DEF CuInv, CuTyped
<1>3. CASE /\ cuServer.has # Chunks /\ UNCHANGED <<cuServer, cuWiped>>
           /\ \E p \in {"missing", "failed"} : cuPhase' = [cuPhase EXCEPT ![a] = p]
  <2>1. PICK p \in {"missing", "failed"} : cuPhase' = [cuPhase EXCEPT ![a] = p]
    BY <1>3
  <2>2. QED BY <1>1, <1>2, <1>3, <2>1, EndKeepsInv
<1>4. CASE Discard(TRUE) /\ \E p \in {"ok", "failed"} : cuPhase' = [cuPhase EXCEPT ![a] = p]
  <2>1. PICK p \in {"ok", "failed"} : cuPhase' = [cuPhase EXCEPT ![a] = p]
    BY <1>4
  <2>2. QED BY <1>1, <1>4, <2>1, EndKeepsInv
<1>5. CASE /\ Discard(cuServer.file) \/ UNCHANGED <<cuServer, cuWiped>>
           /\ cuPhase' = [cuPhase EXCEPT ![a] = "failed"]
  BY <1>1, <1>2, <1>5, EndKeepsInv
<1>6. QED BY <1>3, <1>4, <1>5 DEF CuMerge

LEMMA ServerStepKeepsInv == ASSUME CuInv, CuServer PROVE CuInv'
<1>1. /\ CuTyped /\ RestHasNoFlights /\ RestIsSent /\ CompletesWhole
      /\ \A b \in Attempts : SentOnce(b)
  BY DEF CuInv
<1>2. UNCHANGED <<cuPhase, cuLeft, cuFlights, cuUploaded, cuKnown>>
  BY DEF CuServer
<1>3. /\ cuServer' \in [file : BOOLEAN, has : SUBSET Chunks, late : SUBSET Chunks] /\ cuWiped' \in [Attempts -> BOOLEAN]
      /\ \A b \in Attempts : /\ cuWiped[b] => cuWiped'[b]
                             /\ ~cuWiped'[b] => cuServer.has \subseteq cuServer'.has
  <2>1. cuServer.file \in BOOLEAN
    BY <1>1 DEF CuTyped
  <2>2. CASE Discard(cuServer.file)
    BY <1>1, <2>1, <2>2, DiscardFacts
  <2>3. CASE cuServer' = [cuServer EXCEPT !.file = FALSE] /\ UNCHANGED cuWiped
    BY <1>1, <2>3 DEF CuTyped
  <2>4. CASE /\ UNCHANGED cuWiped
             /\ \E c \in cuServer.late :
                  cuServer' = [cuServer EXCEPT !.has = cuServer.has \cup {c}, !.late = cuServer.late \ {c}]
    <3>1. PICK c \in cuServer.late :
            cuServer' = [cuServer EXCEPT !.has = cuServer.has \cup {c}, !.late = cuServer.late \ {c}]
      BY <2>4
    <3>2. QED BY <1>1, <2>4, <3>1 DEF CuTyped
  <2>5. QED BY <2>2, <2>3, <2>4 DEF CuServer
<1>4. CuTyped' /\ RestHasNoFlights'
  BY <1>1, <1>2, <1>3 DEF CuTyped, RestHasNoFlights
<1>5. cuServer.has \subseteq Chunks /\ cuServer'.has \subseteq Chunks
  <2>1. cuServer.has \in SUBSET Chunks /\ cuServer'.has \in SUBSET Chunks
    BY <1>1, <1>3 DEF CuTyped
  <2>2. QED BY <2>1
<1>8. RestIsSent'
  <2> SUFFICES ASSUME NEW b \in Attempts, cuPhase[b] = "sending", ~cuWiped'[b], NEW c \in Chunks
               PROVE  \/ c \in cuServer'.has \/ c \in cuLeft[b]
                      \/ \E f \in cuFlights[b] : f.chunk = c /\ ~f.stored
    BY <1>2 DEF RestIsSent
  <2>1. ~cuWiped[b] /\ cuServer.has \subseteq cuServer'.has
    BY <1>3
  <2>2. QED BY <1>1, <2>1 DEF RestIsSent
<1>9. CompletesWhole'
  <2>1. ASSUME NEW b \in Attempts, cuPhase[b] \in {"completing", "merging"}
        PROVE  cuLeft[b] = {} /\ (cuServer'.has = Chunks \/ cuWiped'[b])
    <3>1. cuLeft[b] = {} /\ (cuServer.has = Chunks \/ cuWiped[b])
      BY <1>1, <2>1 DEF CompletesWhole
    <3>2. ~cuWiped'[b] => ~cuWiped[b] /\ cuServer.has \subseteq cuServer'.has
      BY <1>3
    <3>3. QED BY <1>5, <3>1, <3>2
  <2>2. ASSUME NEW b \in Attempts, cuPhase[b] = "missing" PROVE cuWiped'[b]
    BY <1>1, <1>3, <2>2 DEF CompletesWhole
  <2>3. QED BY <1>2, <2>1, <2>2 DEF CompletesWhole
<1>6. \A b \in Attempts : SentOnce(b)'
  BY <1>1, <1>2, SentOnceStays
<1>7. QED BY <1>4, <1>6, <1>8, <1>9 DEF CuInv

LEMMA CuNextInv == CuInv /\ [CuNext]_cuVars => CuInv'
<1> SUFFICES ASSUME CuInv, [CuNext]_cuVars PROVE CuInv'
  OBVIOUS
<1>1. CASE UNCHANGED cuVars
  <2>1. \A b \in Attempts : SentOnce(b)'
    BY <1>1, SentOnceStays DEF cuVars, CuInv
  <2>2. QED
    BY <1>1, <2>1 DEF cuVars, CuInv, CuTyped, RestHasNoFlights, RestIsSent, CompletesWhole
<1>2. QED
  BY <1>1, AskKeepsInv, BeginKeepsInv, StoreKeepsInv, ChunkOkKeepsInv, ChunkFailKeepsInv,
     CompleteKeepsInv, MergeKeepsInv, ServerStepKeepsInv DEF CuNext

LEMMA CuSendsMissing == CuInv => CuSendsWhatIsMissing
<1> SUFFICES ASSUME CuInv, NEW a \in Attempts
             PROVE  /\ cuPhase[a] = "missing" => cuWiped[a]
                    /\ cuPhase[a] \in {"completing", "merging"} => cuUploaded[a] = CuChunks
                    /\ cuUploaded[a] <= CuChunks
                    /\ \A f, g \in cuFlights[a] : f.chunk = g.chunk => f = g
                    /\ \A f \in cuFlights[a] : f.chunk \notin cuKnown[a] \cup cuLeft[a]
  BY DEF CuSendsWhatIsMissing
<1>1. CuTyped /\ SentOnce(a)
  BY DEF CuInv
<1>2. /\ Cardinality(cuFlights[a]) \in Nat /\ Cardinality(cuLeft[a]) \in Nat
      /\ cuUploaded[a] \in Nat /\ CuChunks \in Nat
  BY <1>1, FS_CardinalityType, PartFacts, ChunksAreFinite DEF CuTyped, SentOnce
<1>3. cuUploaded[a] <= CuChunks
  BY <1>1, <1>2 DEF SentOnce
<1>4. cuPhase[a] \in {"completing", "merging"} => cuUploaded[a] = CuChunks
  <2> SUFFICES ASSUME cuPhase[a] \in {"completing", "merging"} PROVE cuUploaded[a] = CuChunks
    OBVIOUS
  <2>1. cuFlights[a] = {} /\ cuLeft[a] = {}
    BY DEF CuInv, RestHasNoFlights, CompletesWhole
  <2>2. cuUploaded[a] + Cardinality(cuLeft[a]) + Cardinality(cuFlights[a]) = CuChunks
    BY <1>1 DEF SentOnce, Sends
  <2>3. QED BY <1>2, <2>1, <2>2, FS_EmptySet
<1>5. cuPhase[a] = "missing" => cuWiped[a]
  BY DEF CuInv, CompletesWhole
<1>6. QED BY <1>1, <1>3, <1>4, <1>5 DEF SentOnce

(* Whoever sends the same file at the same time, whatever fails and is begun *)
(* again while older workers are still sending: a complete is asked for only *)
(* once each chunk was named by init or acknowledged, the server misses one  *)
(* only if parts were discarded since, the progress never passes the number  *)
(* of chunks, and the workers of an attempt never send a chunk twice, nor    *)
(* one the server had when it began (CuSendsWhatIsMissing of the runs).      *)
THEOREM SendsWhatIsMissing == CuSpec => []CuSendsWhatIsMissing
BY CuInitInv, CuNextInv, CuSendsMissing, PTL DEF CuSpec

(***************************************************************************)
(* The serial poller. The flag inFlight counts the requests exactly, and the *)
(* generation of a request is the present one only within the visit it was *)
(* begun in; the rest of the promise follows by cases.                     *)
(***************************************************************************)
Fetch == [gen : Nat, loud : BOOLEAN, visit : Nat]

CountsFlights ==
  /\ plInFlight => Len(plFetches) = 1
  /\ ~plInFlight => Len(plFetches) = 0

GenIsOfVisit ==
  \A i \in DOMAIN plFetches :
    /\ plFetches[i].gen <= plGen
    /\ plFetches[i].gen = plGen => plFetches[i].visit = plVisit

PollInv ==
  /\ PollTypeOK /\ CountsFlights /\ GenIsOfVisit
  /\ PollShowsThisVisit /\ PollNeverDeaf /\ PollLoudIsKept

LEMMA PollInitInv == PollInit => PollInv
<1> SUFFICES ASSUME PollInit PROVE PollInv
  OBVIOUS
<1> USE DEF PollInit
<1>1. plShown \in [of : Nat, in : Nat] /\ plFetches \in Seq([gen : Nat, loud : BOOLEAN, visit : Nat])
  OBVIOUS
<1>2. PollTypeOK
  BY <1>1 DEF PollTypeOK
<1>3. Len(plFetches) = 0 /\ plInFlight = FALSE
  OBVIOUS
<1>4. CountsFlights
  BY <1>3 DEF CountsFlights
<1>5. GenIsOfVisit
  BY DEF GenIsOfVisit
<1>6. PollShowsThisVisit
  BY DEF PollShowsThisVisit
<1>7. PollNeverDeaf /\ PollLoudIsKept
  BY DEF PollNeverDeaf, PollLoudIsKept
<1>8. QED BY <1>2, <1>4, <1>5, <1>6, <1>7 DEF PollInv

LEMMA OnlyOne ==
  ASSUME NEW T, NEW s \in Seq(T), Len(s) = 0, NEW f \in T
  PROVE  Append(s, f) \in Seq(T) /\ Len(Append(s, f)) = 1 /\ Append(s, f)[1] = f
OBVIOUS

\* A request sent when none is in flight is the only one, and of the present visit.
LEMMA SendsOne ==
  ASSUME NEW others \in Seq(Fetch), Len(others) = 0,
         plGen' \in Nat, plVisit' \in Nat, NEW loud \in BOOLEAN,
         Send(others, plGen', plVisit', loud)
  PROVE  plFetches' \in Seq(Fetch) /\ CountsFlights' /\ GenIsOfVisit'
<1> DEFINE f == [gen |-> plGen', loud |-> loud, visit |-> plVisit']
<1>1. f \in Fetch
  BY DEF Fetch
<1>2. plFetches' = Append(others, f) /\ plInFlight' = TRUE
  BY DEF Send
<1>3. plFetches' \in Seq(Fetch) /\ Len(plFetches') = 1 /\ plFetches'[1] = f
  BY <1>1, <1>2, OnlyOne
<1>4. DOMAIN plFetches' = {1}
  BY <1>3
<1>5. CountsFlights'
  BY <1>2, <1>3 DEF CountsFlights
<1>6. GenIsOfVisit'
  BY <1>3, <1>4 DEF GenIsOfVisit
<1>7. QED BY <1>3, <1>5, <1>6

LEMMA PollTyped ==
  ASSUME PollTypeOK
  PROVE  /\ plActive \in BOOLEAN /\ plInFlight \in BOOLEAN /\ plTimer \in BOOLEAN /\ plOwed \in BOOLEAN
         /\ plGen \in Nat /\ plVisit \in Nat /\ plFetches \in Seq(Fetch)
         /\ plQueued \in {"null", "silent", "loud"} /\ plShown \in [of : Nat, in : Nat]
BY DEF PollTypeOK, Fetch

LEMMA StartKeepsInv == ASSUME PollInv, PollStart PROVE PollInv'
<1>1. PollTypeOK /\ CountsFlights /\ GenIsOfVisit /\ PollShowsThisVisit /\ PollNeverDeaf /\ PollLoudIsKept
  BY DEF PollInv
<1>2. /\ ~plActive /\ plActive' = TRUE /\ plGen' = plGen + 1 /\ plVisit' = plVisit + 1
      /\ plShown' = plShown
  BY DEF PollStart
<1>3. plGen' \in Nat /\ plVisit' \in Nat
  BY <1>1, <1>2, PollTyped
<1>4. ~plOwed /\ ~plTimer /\ plQueued = "null"
  BY <1>1, <1>2 DEF PollLoudIsKept, PollNeverDeaf
<1>5. PollShowsThisVisit'
  BY <1>1, <1>2 DEF PollShowsThisVisit
<1>6. CASE plInFlight
  <2>1. /\ plQueued' = "loud" /\ plOwed' = (plOwed \/ TRUE) /\ plTimer' = plTimer
        /\ plInFlight' = plInFlight /\ plFetches' = plFetches
    BY <1>6 DEF PollStart, Queue
  <2>2. CountsFlights' /\ plFetches' \in Seq(Fetch)
    BY <1>1, <2>1, PollTyped DEF CountsFlights
  <2>3. GenIsOfVisit'
    <3> SUFFICES ASSUME NEW i \in DOMAIN plFetches
                 PROVE  plFetches[i].gen <= plGen + 1 /\ plFetches[i].gen # plGen + 1
      BY <1>2, <2>1 DEF GenIsOfVisit
    <3>1. plFetches[i] \in Fetch /\ plFetches[i].gen <= plGen /\ plGen \in Nat
      BY <1>1, PollTyped DEF GenIsOfVisit
    <3>2. QED BY <3>1 DEF Fetch
  <2>4. PollNeverDeaf' /\ PollLoudIsKept'
    BY <1>2, <1>6, <2>1 DEF PollNeverDeaf, PollLoudIsKept
  <2>5. plOwed' \in BOOLEAN /\ plTimer' \in BOOLEAN /\ plInFlight' \in BOOLEAN
    BY <1>1, <2>1, PollTyped
  <2>6. PollTypeOK'
    BY <1>1, <1>2, <1>3, <2>1, <2>2, <2>5, PollTyped DEF PollTypeOK, Fetch
  <2>7. QED BY <1>5, <2>2, <2>3, <2>4, <2>6 DEF PollInv
<1>7. CASE ~plInFlight
  <2>1. Send(plFetches, plGen', plVisit', TRUE) /\ plQueued' = plQueued
    BY <1>2, <1>7 DEF PollStart
  <2>2. plFetches \in Seq(Fetch) /\ Len(plFetches) = 0
    BY <1>1, <1>7, PollTyped DEF CountsFlights
  <2>3. plFetches' \in Seq(Fetch) /\ CountsFlights' /\ GenIsOfVisit'
    BY <1>3, <2>1, <2>2, SendsOne
  <2>4. plTimer' = FALSE /\ plInFlight' = TRUE /\ plOwed' = FALSE
    BY <1>4, <2>1 DEF Send
  <2>5. PollNeverDeaf' /\ PollLoudIsKept'
    BY <1>2, <2>4 DEF PollNeverDeaf, PollLoudIsKept
  <2>6. PollTypeOK'
    BY <1>1, <1>2, <1>3, <2>1, <2>3, <2>4, PollTyped DEF PollTypeOK, Fetch
  <2>7. QED BY <1>5, <2>3, <2>5, <2>6 DEF PollInv
<1>8. QED BY <1>6, <1>7

LEMMA StopKeepsInv == ASSUME PollInv, PollStop PROVE PollInv'
<1>1. PollTypeOK /\ CountsFlights /\ GenIsOfVisit /\ PollShowsThisVisit
  BY DEF PollInv
<1>2. /\ plActive' = FALSE /\ plGen' = plGen + 1 /\ plQueued' = "null" /\ plTimer' = FALSE
      /\ plOwed' = FALSE /\ plInFlight' = plInFlight /\ plFetches' = plFetches
      /\ plVisit' = plVisit /\ plShown' = plShown
  BY DEF PollStop
<1>3. PollTypeOK'
  <2>1. plGen' \in Nat /\ plQueued' \in {"null", "silent", "loud"}
    BY <1>1, <1>2, PollTyped
  <2>2. QED BY <1>1, <1>2, <2>1, Zenon DEF PollTypeOK
<1>4. CountsFlights' /\ PollShowsThisVisit'
  BY <1>1, <1>2 DEF CountsFlights, PollShowsThisVisit
<1>5. GenIsOfVisit'
  <2> SUFFICES ASSUME NEW i \in DOMAIN plFetches
               PROVE  plFetches[i].gen <= plGen + 1 /\ plFetches[i].gen # plGen + 1
    BY <1>2 DEF GenIsOfVisit
  <2>1. plFetches[i] \in Fetch /\ plFetches[i].gen <= plGen /\ plGen \in Nat
    BY <1>1, PollTyped DEF GenIsOfVisit
  <2>2. QED BY <2>1 DEF Fetch
<1>6. PollNeverDeaf' /\ PollLoudIsKept'
  BY <1>2 DEF PollNeverDeaf, PollLoudIsKept
<1>7. QED BY <1>3, <1>4, <1>5, <1>6 DEF PollInv

LEMMA TimerKeepsInv == ASSUME PollInv, PollTimer PROVE PollInv'
<1>1. PollTypeOK /\ CountsFlights /\ GenIsOfVisit /\ PollShowsThisVisit /\ PollNeverDeaf /\ PollLoudIsKept
  BY DEF PollInv
<1>2. /\ plActive' = plActive /\ plGen' = plGen /\ plVisit' = plVisit /\ plShown' = plShown /\ plTimer
  BY DEF PollTimer
<1>3. plActive /\ plGen' \in Nat /\ plVisit' \in Nat
  BY <1>1, <1>2, PollTyped DEF PollNeverDeaf
<1>4. PollShowsThisVisit'
  BY <1>1, <1>2 DEF PollShowsThisVisit
<1>5. CASE ~plInFlight
  <2>1. Send(plFetches, plGen', plVisit', FALSE) /\ plQueued' = plQueued
    BY <1>2, <1>3, <1>5 DEF PollTimer
  <2>2. plFetches \in Seq(Fetch) /\ Len(plFetches) = 0 /\ ~plOwed
    BY <1>1, <1>5, PollTyped DEF CountsFlights, PollLoudIsKept
  <2>3. plFetches' \in Seq(Fetch) /\ CountsFlights' /\ GenIsOfVisit'
    BY <1>3, <2>1, <2>2, SendsOne
  <2>4. plTimer' = FALSE /\ plInFlight' = TRUE /\ plOwed' = FALSE
    BY <2>1, <2>2 DEF Send
  <2>5. PollNeverDeaf' /\ PollLoudIsKept'
    BY <1>2, <1>3, <2>4 DEF PollNeverDeaf, PollLoudIsKept
  <2>6. PollTypeOK'
    BY <1>1, <1>2, <2>1, <2>3, <2>4, PollTyped DEF PollTypeOK, Fetch
  <2>7. QED BY <1>4, <2>3, <2>5, <2>6 DEF PollInv
<1>6. CASE plInFlight
  <2>1. /\ plTimer' = FALSE /\ plInFlight' = plInFlight /\ plFetches' = plFetches /\ plOwed' = plOwed
        /\ plQueued' = IF plActive /\ plQueued = "null" THEN "silent" ELSE plQueued
    BY <1>6 DEF PollTimer
  <2>2. CountsFlights' /\ GenIsOfVisit'
    BY <1>1, <1>2, <2>1 DEF CountsFlights, GenIsOfVisit
  <2>3. plQueued' \in {"null", "silent", "loud"} /\ (plQueued = "loud" => plQueued' = "loud")
    BY <1>1, <2>1, PollTyped
  <2>4. PollNeverDeaf' /\ PollLoudIsKept'
    BY <1>1, <1>2, <1>3, <1>6, <2>1, <2>3 DEF PollNeverDeaf, PollLoudIsKept
  <2>5. PollTypeOK'
    BY <1>1, <1>2, <2>1, <2>3, PollTyped DEF PollTypeOK, Fetch
  <2>6. QED BY <1>4, <2>2, <2>4, <2>5 DEF PollInv
<1>7. QED BY <1>5, <1>6

LEMMA PollAnswerKeepsInv ==
  ASSUME PollInv, NEW i \in DOMAIN plFetches, NEW ok \in BOOLEAN, PollAnswer(i, ok)
  PROVE  PollInv'
<1> DEFINE f == plFetches[i]
           rest == [k \in 1..(Len(plFetches) - 1) |-> plFetches[IF k < i THEN k ELSE k + 1]]
<1>1. PollTypeOK /\ CountsFlights /\ GenIsOfVisit /\ PollShowsThisVisit /\ PollNeverDeaf /\ PollLoudIsKept
  BY DEF PollInv
<1>2. /\ plShown' = IF ok /\ IsValid(f) THEN [of |-> f.visit, in |-> plVisit] ELSE plShown
      /\ Finish(f, rest)
      /\ plActive' = plActive /\ plGen' = plGen /\ plVisit' = plVisit
  BY DEF PollAnswer
<1>3. plGen' \in Nat /\ plVisit' \in Nat /\ plFetches \in Seq(Fetch) /\ f \in Fetch
  BY <1>1, <1>2, PollTyped
<1>4. plInFlight /\ Len(plFetches) = 1
  BY <1>1, <1>3, PollTyped DEF CountsFlights
<1>5. rest \in Seq(Fetch) /\ Len(rest) = 0
  BY <1>3, <1>4
<1>6. f.visit \in Nat /\ (f.gen = plGen => f.visit = plVisit)
  BY <1>1, <1>3 DEF GenIsOfVisit, Fetch
<1>7. plShown' \in [of : Nat, in : Nat]
  BY <1>1, <1>2, <1>3, <1>6, PollTyped
<1>8. PollShowsThisVisit'
  BY <1>1, <1>2, <1>6 DEF IsValid, PollShowsThisVisit
<1> HIDE DEF rest
<1>9. ASSUME plFetches' = rest, plInFlight' = FALSE PROVE CountsFlights' /\ GenIsOfVisit'
  <2>1. Len(plFetches') = 0 /\ DOMAIN plFetches' = {}
    BY <1>5, <1>9
  <2>2. QED BY <1>9, <2>1 DEF CountsFlights, GenIsOfVisit
<1>10. CASE ~plActive
  <2>1. /\ plInFlight' = FALSE /\ plFetches' = rest /\ plTimer' = plTimer /\ plQueued' = plQueued
        /\ plOwed' = plOwed
    BY <1>2, <1>10 DEF Finish
  <2>2. PollNeverDeaf' /\ PollLoudIsKept'
    BY <1>1, <1>2, <1>10, <2>1 DEF PollNeverDeaf, PollLoudIsKept
  <2>3. PollTypeOK'
    BY <1>1, <1>2, <1>5, <1>7, <2>1, PollTyped DEF PollTypeOK, Fetch
  <2>4. QED BY <1>8, <1>9, <2>1, <2>2, <2>3 DEF PollInv
<1>11. CASE plActive /\ (f.gen # plGen \/ plQueued # "null")
  <2>1. plQueued' = "null" /\ Send(rest, plGen', plVisit', plQueued = "loud")
    BY <1>2, <1>11 DEF Finish
  <2>2. (plQueued = "loud") \in BOOLEAN
    OBVIOUS
  <2>3. plFetches' \in Seq(Fetch) /\ CountsFlights' /\ GenIsOfVisit'
    BY <1>3, <1>5, <2>1, <2>2, SendsOne
  <2>4. plTimer' = FALSE /\ plInFlight' = TRUE /\ plOwed' = (plOwed /\ plQueued # "loud")
    BY <2>1 DEF Send
  <2>5. plOwed' = FALSE
    BY <1>1, <2>4 DEF PollLoudIsKept
  <2>6. PollNeverDeaf' /\ PollLoudIsKept'
    BY <1>2, <1>11, <2>4, <2>5 DEF PollNeverDeaf, PollLoudIsKept
  <2>7. PollTypeOK'
    BY <1>1, <1>2, <1>7, <2>1, <2>3, <2>4, <2>5, PollTyped DEF PollTypeOK, Fetch
  <2>8. QED BY <1>8, <2>3, <2>6, <2>7 DEF PollInv
<1>12. CASE plActive /\ f.gen = plGen /\ plQueued = "null"
  <2>1. /\ plInFlight' = FALSE /\ plTimer' = TRUE /\ plFetches' = rest
        /\ plQueued' = plQueued /\ plOwed' = plOwed
    BY <1>2, <1>12 DEF Finish
  <2>2. PollNeverDeaf' /\ PollLoudIsKept'
    BY <1>1, <1>2, <1>12, <2>1 DEF PollNeverDeaf, PollLoudIsKept
  <2>3. PollTypeOK'
    BY <1>1, <1>2, <1>5, <1>7, <2>1, PollTyped DEF PollTypeOK, Fetch
  <2>4. QED BY <1>8, <1>9, <2>1, <2>2, <2>3 DEF PollInv
<1>13. QED BY <1>10, <1>11, <1>12

LEMMA PollNextInv == PollInv /\ [PollNext]_pollVars => PollInv'
<1> SUFFICES ASSUME PollInv, [PollNext]_pollVars PROVE PollInv'
  OBVIOUS
<1>1. CASE UNCHANGED pollVars
  BY <1>1, Zenon DEF pollVars, PollInv, PollTypeOK, CountsFlights, GenIsOfVisit, PollShowsThisVisit,
              PollNeverDeaf, PollLoudIsKept
<1>2. CASE PollStart
  BY <1>2, StartKeepsInv
<1>3. CASE PollStop
  BY <1>3, StopKeepsInv
<1>4. CASE PollTimer
  BY <1>4, TimerKeepsInv
<1>5. CASE \E i \in DOMAIN plFetches, ok \in BOOLEAN : PollAnswer(i, ok)
  BY <1>5, PollAnswerKeepsInv
<1>6. QED BY <1>1, <1>2, <1>3, <1>4, <1>5 DEF PollNext

LEMMA PollInvariant == PollSpec => []PollInv
BY PollInitInv, PollNextInv, PTL DEF PollSpec

LEMMA PollInvIsSerial == PollInv => PollSerial
<1>1. ASSUME NEW n \in Nat, n \in {0, 1} PROVE n <= 1
  BY <1>1
<1>2. PollInv => PollSingleFlight
  <2> SUFFICES ASSUME PollInv PROVE Len(plFetches) <= 1
    BY DEF PollSingleFlight
  <2>1. Len(plFetches) \in Nat
    BY PollTyped DEF PollInv
  <2>2. Len(plFetches) \in {0, 1}
    BY DEF PollInv, CountsFlights
  <2>3. QED BY <1>1, <2>1, <2>2
<1> QED
  BY <1>2 DEF PollInv, PollSerial

(* One request at a time, no answer of an earlier visit, always a next poll *)
(* while the page is shown and none once it is left, and the first failure  *)
(* of a visit reported, however often the page is left and entered.         *)
THEOREM PollerIsSerial == PollSpec => []PollSerial
BY PollInvIsSerial, PollInvariant, PTL

(***************************************************************************)
(* The tabs. What a filter of the bar keeps is shown by induction on the   *)
(* places; then every navigation ends at a page that has its tab, or finds *)
(* none left. In React nothing is ever under way.                          *)
(***************************************************************************)
Tab == [path : TbPaths, affix : BOOLEAN, pinned : BOOLEAN]

Unique(tabs) == \A i, j \in DOMAIN tabs : tabs[i].path = tabs[j].path => i = j

Bar == {tabs \in Seq(Tab) : Unique(tabs)}

ReactIsAtOnce ==
  tbFront = "react" => tbNav = TbNone /\ tbStale = [n \in 1..TbMaxStale |-> TbNone]

TabsInv == TabsTypeOK /\ ReactIsAtOnce /\ TabsCurrentShown

\* The function by which Keep is defined.
KeptBy(tabs, I, g) ==
  [n \in 0..Len(tabs) |->
     IF n = 0 THEN <<>>
     ELSE IF n \in I THEN Append(g[n - 1], tabs[n]) ELSE g[n - 1]]

LEMMA KeptExists ==
  ASSUME NEW tabs \in Seq(Tab), NEW I
  PROVE  \E g : g = KeptBy(tabs, I, g)
<1> DEFINE S == 0..Len(tabs)
           V == Seq(Tab)
           F == [g \in [S -> V] |-> KeptBy(tabs, I, g)]
<1>1. S \in SUBSET Nat /\ Len(tabs) \in Nat /\ <<>> \in V
  OBVIOUS
<1>2. ASSUME NEW g \in [S -> V], NEW n \in S
      PROVE  /\ KeptBy(tabs, I, g)[n] \in V
             /\ KeptBy(tabs, I, g)[n] = IF n = 0 THEN <<>>
                                        ELSE IF n \in I THEN Append(g[n - 1], tabs[n]) ELSE g[n - 1]
  <2>1. CASE n = 0
    BY <2>1, <1>1 DEF KeptBy
  <2>2. CASE n # 0
    <3>1. n - 1 \in S /\ n \in 1..Len(tabs)
      BY <1>1, <2>2
    <3>2. g[n - 1] \in Seq(Tab) /\ tabs[n] \in Tab
      BY <3>1
    <3>3. Append(g[n - 1], tabs[n]) \in Seq(Tab)
      BY <3>2
    <3> QED
      BY <2>2, <3>2, <3>3 DEF KeptBy
  <2> QED
    BY <2>1, <2>2
<1>3. F \in [[S -> V] -> [S -> V]]
  <2>1. ASSUME NEW g \in [S -> V] PROVE KeptBy(tabs, I, g) \in [S -> V]
    <3>1. \A n \in S : KeptBy(tabs, I, g)[n] \in V
      BY <1>2
    <3>2. KeptBy(tabs, I, g) = [n \in S |-> KeptBy(tabs, I, g)[n]]
      BY DEF KeptBy
    <3> QED
      BY <3>1, <3>2
  <2> QED
    BY <2>1
<1>4. LooksBelow(F, S, V, Less(S))
  <2> SUFFICES ASSUME NEW g \in [S -> V], NEW h \in [S -> V], NEW n \in S,
                      \A m \in S : <<m, n>> \in Less(S) => g[m] = h[m]
               PROVE  F[g][n] = F[h][n]
    BY DEF LooksBelow
  <2>1. F[g] = KeptBy(tabs, I, g) /\ F[h] = KeptBy(tabs, I, h)
    OBVIOUS
  <2>2. CASE n = 0
    BY <2>1, <2>2, <1>2
  <2>3. CASE n # 0
    <3>1. n - 1 \in S /\ n - 1 < n
      BY <1>1, <2>3
    <3>2. g[n - 1] = h[n - 1]
      BY <3>1 DEF Less
    <3> HIDE DEF F, S
    <3> QED
      BY <2>1, <2>3, <3>2, <1>2
  <2> QED
    BY <2>2, <2>3
<1>5. HasMinima(Less(S), S)
  BY <1>1, LessHasMinima
<1> HIDE DEF F, S, V
<1>6. IsRecursion(F, S, V, Less(S))
  BY <1>1, <1>3, <1>4, <1>5 DEF IsRecursion
<1>7. PICK g \in [S -> V] : g = F[g]
  BY <1>6, RecursionHasSolution
<1>8. F[g] = KeptBy(tabs, I, g)
  BY DEF F
<1> QED
  BY <1>7, <1>8

\* What the bar is after a filter: the tabs at the places kept, and no tab twice.
LEMMA KeepFacts ==
  ASSUME NEW tabs \in Bar, NEW I
  PROVE  /\ Keep(tabs, I) \in Bar
         /\ \A t : (\E k \in DOMAIN Keep(tabs, I) : Keep(tabs, I)[k] = t)
                     <=> (\E i \in DOMAIN tabs \cap I : tabs[i] = t)
<1> DEFINE S == 0..Len(tabs)
           g == CHOOSE g : g = KeptBy(tabs, I, g)
           Holds(s, n) == \A t : (\E k \in DOMAIN s : s[k] = t)
                                   <=> (\E i \in (1..n) \cap I : tabs[i] = t)
           P(n) == g[n] \in Bar /\ Holds(g[n], n)
<1>1. tabs \in Seq(Tab) /\ Unique(tabs) /\ Len(tabs) \in Nat /\ DOMAIN tabs = 1..Len(tabs)
  BY DEF Bar
<1>2. g = KeptBy(tabs, I, g)
  BY <1>1, KeptExists
<1>3. Keep(tabs, I) = g[Len(tabs)]
  BY DEF Keep, KeptBy
<1> HIDE DEF g
<1>4. \A n \in S : g[n] = IF n = 0 THEN <<>>
                          ELSE IF n \in I THEN Append(g[n - 1], tabs[n]) ELSE g[n - 1]
  BY <1>2 DEF KeptBy
<1>5. P(0)
  <2>1. g[0] = <<>>
    BY <1>1, <1>4
  <2>2. <<>> \in Bar /\ DOMAIN <<>> = {}
    BY DEF Bar, Unique
  <2>3. (1..0) \cap I = {}
    OBVIOUS
  <2> QED
    BY <2>1, <2>2, <2>3
<1>6. ASSUME NEW n \in 1..Len(tabs), P(n - 1) PROVE P(n)
  <2> DEFINE s == g[n - 1]
  <2>1. n \in S /\ n # 0 /\ tabs[n] \in Tab /\ 1..n = 1..(n - 1) \cup {n} /\ n \notin 1..(n - 1)
    BY <1>1
  <2>2. s \in Seq(Tab) /\ Unique(s) /\ Holds(s, n - 1)
    BY <1>6 DEF Bar
  <2>3. CASE n \notin I
    <3>1. g[n] = s
      BY <2>1, <2>3, <1>4
    <3>2. (1..n) \cap I = (1..(n - 1)) \cap I
      BY <2>1, <2>3
    <3> HIDE DEF s
    <3> QED
      BY <3>1, <3>2, <1>6 DEF s
  <2>4. CASE n \in I
    <3>1. g[n] = Append(s, tabs[n])
      BY <2>1, <2>4, <1>4
    <3> HIDE DEF s
    <3>2. /\ g[n] \in Seq(Tab) /\ Len(g[n]) = Len(s) + 1 /\ g[n][Len(s) + 1] = tabs[n]
          /\ \A k \in 1..Len(s) : g[n][k] = s[k]
          /\ DOMAIN g[n] = 1..Len(s) \cup {Len(s) + 1} /\ DOMAIN s = 1..Len(s)
          /\ Len(s) \in Nat
      BY <3>1, <2>1, <2>2
    <3>3. ASSUME NEW k \in 1..Len(s) PROVE s[k].path # tabs[n].path
      <4>1. PICK i \in (1..(n - 1)) \cap I : tabs[i] = s[k]
        BY <2>2, <3>2
      <4>2. i \in DOMAIN tabs /\ n \in DOMAIN tabs /\ i # n
        BY <1>1, <2>1
      <4> QED
        BY <4>1, <4>2, <1>1 DEF Unique
    <3>4. Unique(g[n])
      <4> SUFFICES ASSUME NEW i \in DOMAIN g[n], NEW j \in DOMAIN g[n],
                          g[n][i].path = g[n][j].path
                   PROVE  i = j
        BY DEF Unique
      <4>1. CASE i \in 1..Len(s) /\ j \in 1..Len(s)
        BY <4>1, <2>2, <3>2 DEF Unique
      <4>2. CASE i \in 1..Len(s) /\ j = Len(s) + 1
        BY <4>2, <3>2, <3>3
      <4>3. CASE j \in 1..Len(s) /\ i = Len(s) + 1
        BY <4>3, <3>2, <3>3
      <4> QED
        BY <4>1, <4>2, <4>3, <3>2
    <3>5. Holds(g[n], n)
      <4> SUFFICES ASSUME NEW t
                   PROVE  (\E k \in DOMAIN g[n] : g[n][k] = t)
                            <=> (\E i \in (1..n) \cap I : tabs[i] = t)
        OBVIOUS
      <4>1. (\E k \in DOMAIN g[n] : g[n][k] = t) <=> (\E k \in DOMAIN s : s[k] = t) \/ tabs[n] = t
        BY <3>2
      <4>2. (\E i \in (1..n) \cap I : tabs[i] = t)
              <=> (\E i \in (1..(n - 1)) \cap I : tabs[i] = t) \/ tabs[n] = t
        BY <2>1, <2>4
      <4> QED
        BY <4>1, <4>2, <2>2
    <3> QED
      BY <3>2, <3>4, <3>5 DEF Bar
  <2> QED
    BY <2>3, <2>4
<1>7. P(Len(tabs))
  <2> DEFINE T == {n \in S : ~P(n)}
  <2> SUFFICES ASSUME T # {} PROVE FALSE
    BY <1>1
  <2>1. PICK n \in T : \A m \in T : <<m, n>> \notin Less(S)
    <3>1. T \in SUBSET S /\ S \in SUBSET Nat
      BY <1>1
    <3> HIDE DEF T, S
    <3> QED
      BY <3>1, LessHasMinima DEF HasMinima
  <2>2. n \in S /\ ~P(n)
    BY <2>1
  <2>3. n # 0
    BY <2>2, <1>5
  <2>4. n \in 1..Len(tabs) /\ n - 1 \in S /\ <<n - 1, n>> \in Less(S)
    BY <2>2, <2>3, <1>1 DEF Less
  <2>5. P(n - 1)
    BY <2>1, <2>4
  <2> QED
    BY <2>2, <2>4, <2>5, <1>6
<1> QED
  BY <1>1, <1>3, <1>7

\* The paths of the tabs a filter keeps.
LEMMA KeepPaths ==
  ASSUME NEW tabs \in Bar, NEW I
  PROVE  PathsOf(Keep(tabs, I)) = {tabs[i].path : i \in DOMAIN tabs \cap I}
<1> DEFINE s == Keep(tabs, I)
<1>1. \A t : (\E k \in DOMAIN s : s[k] = t) <=> (\E i \in DOMAIN tabs \cap I : tabs[i] = t)
  BY KeepFacts
<1> HIDE DEF s
<1>2. PathsOf(s) \subseteq {tabs[i].path : i \in DOMAIN tabs \cap I}
  BY <1>1 DEF PathsOf
<1>3. {tabs[i].path : i \in DOMAIN tabs \cap I} \subseteq PathsOf(s)
  BY <1>1 DEF PathsOf
<1>4. QED BY <1>2, <1>3 DEF s

LEMMA BarFacts ==
  ASSUME NEW tabs \in Bar
  PROVE  /\ tabs \in Seq(Tab) /\ Len(tabs) \in Nat /\ DOMAIN tabs = 1..Len(tabs)
         /\ PathsOf(tabs) \subseteq TbPaths /\ TbNone \notin PathsOf(tabs)
         /\ tabs = <<>> <=> Len(tabs) = 0
         /\ \A p \in PathsOf(tabs) : IndexOf(tabs, p) \in DOMAIN tabs /\ tabs[IndexOf(tabs, p)].path = p
<1>1. tabs \in Seq(Tab) /\ Len(tabs) \in Nat /\ DOMAIN tabs = 1..Len(tabs)
  BY DEF Bar
<1>2. \A i \in DOMAIN tabs : tabs[i] \in Tab
  BY <1>1
<1>3. PathsOf(tabs) \subseteq TbPaths /\ TbNone \notin PathsOf(tabs)
  <2>1. PathsOf(tabs) \subseteq TbPaths
    BY <1>2 DEF PathsOf, Tab, TbPaths
  <2>2. TbNone \notin TbPaths
    BY TabsAssumption DEF TbPages
  <2> QED
    BY <2>1, <2>2
<1>4. tabs = <<>> <=> Len(tabs) = 0
  BY <1>1
<1>5. ASSUME NEW p \in PathsOf(tabs)
      PROVE  IndexOf(tabs, p) \in DOMAIN tabs /\ tabs[IndexOf(tabs, p)].path = p
  <2>1. \E i \in DOMAIN tabs : tabs[i].path = p
    BY DEF PathsOf
  <2> QED
    BY <2>1 DEF IndexOf
<1> QED
  BY <1>1, <1>3, <1>4, <1>5

\* A path gets a tab, unless it is a page that has none, and no path a second one.
LEMMA AddTabFacts ==
  ASSUME NEW tabs \in Bar, NEW p \in TbPages
  PROVE  /\ AddTab(tabs, p) \in Bar /\ PathsOf(tabs) \subseteq PathsOf(AddTab(tabs, p))
         /\ p \in TbPaths => p \in PathsOf(AddTab(tabs, p))
<1>1. CASE p \in PathsOf(tabs) \cup {TbBare}
  <2>1. AddTab(tabs, p) = tabs
    BY <1>1 DEF AddTab
  <2>2. p \in TbPaths => p \in PathsOf(tabs)
    BY <1>1, TabsAssumption
  <2> QED
    BY <2>1, <2>2
<1>2. CASE p \notin PathsOf(tabs) \cup {TbBare}
  <2> DEFINE t == [path |-> p, affix |-> p = tbHome, pinned |-> FALSE]
             s == Append(tabs, t)
  <2>1. AddTab(tabs, p) = s
    BY <1>2 DEF AddTab
  <2>2. t \in Tab /\ t.path = p
    <3>1. p \in TbPaths
      BY <1>2 DEF TbPages
    <3> QED
      BY <3>1 DEF Tab
  <2> HIDE DEF t
  <2>3. /\ s \in Seq(Tab) /\ Len(tabs) \in Nat /\ DOMAIN tabs = 1..Len(tabs)
        /\ DOMAIN s = 1..Len(tabs) \cup {Len(tabs) + 1} /\ s[Len(tabs) + 1] = t
        /\ \A k \in 1..Len(tabs) : s[k] = tabs[k]
    BY <2>2, BarFacts
  <2> HIDE DEF s
  <2>4. \A k \in 1..Len(tabs) : s[k].path # p
    BY <1>2, <2>3 DEF PathsOf
  <2>5. Unique(s)
    <3> SUFFICES ASSUME NEW i \in DOMAIN s, NEW j \in DOMAIN s, s[i].path = s[j].path
                 PROVE  i = j
      BY DEF Unique
    <3>1. CASE i \in 1..Len(tabs) /\ j \in 1..Len(tabs)
      BY <3>1, <2>3 DEF Unique, Bar
    <3>2. CASE i \in 1..Len(tabs) /\ j = Len(tabs) + 1
      BY <3>2, <2>2, <2>3, <2>4
    <3>3. CASE j \in 1..Len(tabs) /\ i = Len(tabs) + 1
      BY <3>3, <2>2, <2>3, <2>4
    <3> QED
      BY <3>1, <3>2, <3>3, <2>3
  <2>6. PathsOf(s) = PathsOf(tabs) \cup {p}
    BY <2>2, <2>3 DEF PathsOf
  <2> QED
    BY <2>1, <2>3, <2>5, <2>6 DEF Bar
<1> QED
  BY <1>1, <1>2

\* Where closing the active tab leads: to a tab that stays, or to the home page.
LEMMA NeighbourFacts ==
  ASSUME NEW tabs \in Bar, NEW p \in PathsOf(tabs), tbHome \in TbHomes
  PROVE  /\ Without(tabs, p) \in Bar
         /\ PathsOf(Without(tabs, p)) = PathsOf(tabs) \ {p}
         /\ \/ Neighbour(tabs, p) \in TbPaths
            \/ Neighbour(tabs, p) = TbNone /\ tbFront # "vue" /\ Without(tabs, p) = <<>>
<1> DEFINE rest == Without(tabs, p)
           i == IndexOf(tabs, p)
<1>1. rest \in Bar
  BY KeepFacts DEF Without
<1>2. PathsOf(rest) = PathsOf(tabs) \ {p}
  <2> DEFINE I == {k \in DOMAIN tabs : tabs[k].path # p}
  <2>1. PathsOf(Keep(tabs, I)) = {tabs[k].path : k \in DOMAIN tabs \cap I}
    BY KeepPaths
  <2>2. {tabs[k].path : k \in DOMAIN tabs \cap I} = PathsOf(tabs) \ {p}
    BY DEF PathsOf
  <2> QED
    BY <2>1, <2>2 DEF Without
<1>3. i \in Nat \ {0}
  BY BarFacts
<1> HIDE DEF rest, i
<1>4. CASE rest = <<>>
  <2>1. Neighbour(tabs, p) = IF tbFront = "vue" THEN tbHome ELSE TbNone
    BY <1>4 DEF Neighbour, rest
  <2> QED
    BY <1>1, <1>2, <1>4, <2>1 DEF TbPaths, rest
<1>5. CASE rest # <<>>
  <2> DEFINE k == IF i <= Len(rest) THEN i ELSE Len(rest)
  <2>1. Neighbour(tabs, p) = rest[k].path
    BY <1>5 DEF Neighbour, rest, i
  <2>2. k \in DOMAIN rest
    BY <1>1, <1>3, <1>5, BarFacts
  <2>3. rest[k].path \in PathsOf(rest)
    BY <2>2 DEF PathsOf
  <2> QED
    BY <1>1, <1>2, <2>1, <2>3, BarFacts DEF rest
<1> QED
  BY <1>4, <1>5

Nav == [to : TbPages, back : BOOLEAN]
Settled == [n \in 1..TbMaxStale |-> TbNone]

LEMMA TabsTypedFacts ==
  TabsTypeOK <=> /\ tbFront \in {"vue", "react"} /\ tbHome \in TbHomes
                 /\ tbTabs \in Bar /\ tbPick \in TbHomes \cup {TbNone}
                 /\ tbCur \in TbPages \cup {TbNone} /\ tbNav \in TbPages \cup {TbNone}
                 /\ tbStale \in [1..TbMaxStale -> Nav \cup {TbNone}]
                 /\ tbBack \in BOOLEAN /\ tbOrphan \in BOOLEAN
BY DEF TabsTypeOK, Bar, Unique, Tab, Nav

LEMMA TabsTypedFactsNext ==
  TabsTypeOK' <=> /\ tbFront' \in {"vue", "react"} /\ tbHome' \in TbHomes
                  /\ tbTabs' \in Bar /\ tbPick' \in TbHomes \cup {TbNone}
                  /\ tbCur' \in TbPages \cup {TbNone} /\ tbNav' \in TbPages \cup {TbNone}
                  /\ tbStale' \in [1..TbMaxStale -> Nav \cup {TbNone}]
                  /\ tbBack' \in BOOLEAN /\ tbOrphan' \in BOOLEAN
BY DEF TabsTypeOK, Bar, Unique, Tab, Nav

\* What the invariant says, in the words of the lemmas.
LEMMA TabsFacts ==
  ASSUME TabsInv
  PROVE  /\ tbFront \in {"vue", "react"} /\ tbHome \in TbHomes
         /\ tbTabs \in Bar /\ tbPick \in TbHomes \cup {TbNone}
         /\ tbCur \in TbPages \cup {TbNone} /\ tbNav \in TbPages \cup {TbNone}
         /\ tbStale \in [1..TbMaxStale -> Nav \cup {TbNone}]
         /\ tbBack \in BOOLEAN /\ tbOrphan \in BOOLEAN
         /\ tbFront = "react" => tbNav = TbNone /\ tbStale = Settled
         /\ tbNav = TbNone /\ tbCur \in TbPaths /\ ~tbOrphan => tbCur \in PathsOf(tbTabs)
BY TabsTypedFacts DEF TabsInv, ReactIsAtOnce, TabsCurrentShown, Settled

\* What a step has to show.
LEMMA TabsStep ==
  ASSUME TabsInv, tbFront' = tbFront, tbHome' \in TbHomes,
         tbTabs' \in Bar, tbPick' \in TbHomes \cup {TbNone},
         tbCur' \in TbPages \cup {TbNone}, tbNav' \in TbPages \cup {TbNone},
         tbStale' \in [1..TbMaxStale -> Nav \cup {TbNone}],
         tbBack' \in BOOLEAN, tbOrphan' \in BOOLEAN,
         tbFront = "react" => tbNav' = TbNone /\ tbStale' = Settled,
         tbNav' = TbNone /\ tbCur' \in TbPaths /\ ~tbOrphan' => tbCur' \in PathsOf(tbTabs')
  PROVE  TabsInv'
<1>1. TabsTypeOK'
  BY TabsFacts, TabsTypedFactsNext
<1>2. ReactIsAtOnce'
  BY DEF ReactIsAtOnce, Settled
<1>3. TabsCurrentShown'
  BY DEF TabsCurrentShown, PathsOf
<1>4. QED BY <1>1, <1>2, <1>3 DEF TabsInv

\* No page has the name of none, nor the page without a tab a path of one.
LEMMA PageFacts ==
  /\ TbPaths \subseteq TbPages /\ TbNone \notin TbPages /\ TbNone \notin TbPaths
  /\ TbHomes \subseteq TbPaths /\ TbList \in TbPaths /\ TbDetail \in TbPaths
BY TabsAssumption DEF TbPages, TbPaths

\* A navigation that is superseded is one that has not settled.
LEMMA SupersedeFacts ==
  ASSUME TabsInv
  PROVE  /\ Superseded \in Nav \cup {TbNone}
         /\ Supersede => tbStale' \in [1..TbMaxStale -> Nav \cup {TbNone}]
<1>1. Superseded \in Nav \cup {TbNone}
  BY TabsFacts DEF Superseded, Nav
<1>2. ASSUME Supersede PROVE tbStale' \in [1..TbMaxStale -> Nav \cup {TbNone}]
  BY <1>1, <1>2, TabsFacts DEF Supersede
<1>3. QED BY <1>1, <1>2

\* A push from cur: another page is under way, or cur has its tab again.
LEMMA PushFacts ==
  ASSUME NEW tabs \in Bar, NEW cur \in TbPages \cup {TbNone}, NEW p \in TbPages
  PROVE  /\ TabsAt(tabs, cur, p) \in Bar /\ UnderWay(cur, p) \in TbPages \cup {TbNone}
         /\ UnderWay(cur, p) = TbNone => p = cur
         /\ p = cur /\ cur \in TbPaths => cur \in PathsOf(TabsAt(tabs, cur, p))
<1>1. CASE p = cur
  BY <1>1, AddTabFacts DEF TabsAt, UnderWay
<1>2. CASE p # cur
  BY <1>2, PageFacts DEF TabsAt, UnderWay
<1>3. QED BY <1>1, <1>2

\* What the back button's `.then' leaves: a page that had its tab keeps it, or another one
\* is under way.
LEMMA ThenFacts ==
  ASSUME tbFront = "vue", tbHome \in TbHomes, NEW tabs \in Bar,
         NEW cur \in TbPages \cup {TbNone}, NEW back \in BOOLEAN, NEW nav \in TbPages \cup {TbNone}
  PROVE  /\ ThenTabs(tabs, cur, back) \in Bar
         /\ ThenNav(tabs, cur, back, nav) \in TbPages \cup {TbNone}
         /\ ThenNav(tabs, cur, back, nav) = TbNone =>
              (nav = TbNone \/ Closes(tabs, cur, back))
         /\ ThenNav(tabs, cur, back, nav) = TbNone /\ cur \in PathsOf(tabs) =>
              cur \in PathsOf(ThenTabs(tabs, cur, back))
         /\ Closes(tabs, cur, back) \in BOOLEAN /\ (Closes(tabs, cur, back) => cur \in PathsOf(tabs))
<1>1. Closes(tabs, cur, back) => cur \in PathsOf(tabs)
  BY DEF Closes, Closable
<1>2. Closes(tabs, cur, back) \in BOOLEAN
  BY DEF Closes
<1>3. CASE Closes(tabs, cur, back)
  <2> DEFINE rest == Without(tabs, cur)
             next == Neighbour(tabs, cur)
  <2>1. cur \in PathsOf(tabs) /\ rest \in Bar /\ next \in TbPaths
    BY <1>1, <1>3, NeighbourFacts
  <2>2. /\ ThenTabs(tabs, cur, back) = TabsAt(rest, cur, next)
        /\ ThenNav(tabs, cur, back, nav) = UnderWay(cur, next)
    BY <1>3 DEF ThenTabs, ThenNav
  <2> HIDE DEF rest, next
  <2>3. /\ TabsAt(rest, cur, next) \in Bar /\ UnderWay(cur, next) \in TbPages \cup {TbNone}
        /\ UnderWay(cur, next) = TbNone => cur \in PathsOf(TabsAt(rest, cur, next))
    BY <2>1, PushFacts, PageFacts
  <2> QED
    BY <1>1, <1>2, <1>3, <2>2, <2>3
<1>4. CASE ~Closes(tabs, cur, back)
  <2>1. ThenTabs(tabs, cur, back) = tabs /\ ThenNav(tabs, cur, back, nav) = nav
    BY <1>4 DEF ThenTabs, ThenNav
  <2> QED
    BY <1>1, <1>2, <1>4, <2>1
<1>5. QED BY <1>3, <1>4

(* A navigation to a page, or none; without one the page shown keeps its tab *)
(* unless the last tab is gone.                                              *)
LEMMA GoToKeepsInv ==
  ASSUME TabsInv, NEW tabs \in Bar, NEW p \in TbPages \cup {TbNone}, GoTo(tabs, p),
         UNCHANGED <<tbFront, tbHome, tbPick>>,
         p = TbNone /\ tabs # <<>> /\ tbCur \in PathsOf(tbTabs) => tbCur \in PathsOf(tabs)
  PROVE  TabsInv'
<1>1. CASE p = TbNone
  <2>1. /\ tbTabs' = tabs /\ tbOrphan' = (tbOrphan \/ tabs = <<>>)
        /\ UNCHANGED <<tbCur, tbNav, tbStale, tbBack>>
    BY <1>1 DEF GoTo
  <2>2. tbOrphan' \in BOOLEAN
    BY <2>1, TabsFacts
  <2>3. tbNav' = TbNone /\ tbCur' \in TbPaths /\ ~tbOrphan' => tbCur' \in PathsOf(tbTabs')
    BY <1>1, <2>1, TabsFacts
  <2> QED
    BY <2>1, <2>2, <2>3, TabsFacts, TabsStep
<1>2. CASE p # TbNone /\ tbFront = "vue"
  <2>1. /\ tbTabs' = TabsAt(tabs, tbCur, p) /\ tbNav' = UnderWay(tbCur, p) /\ tbBack' = FALSE
        /\ tbOrphan' = (tbOrphan /\ p # tbCur) /\ Supersede /\ UNCHANGED tbCur
    BY <1>2 DEF GoTo
  <2>2. /\ tbTabs' \in Bar /\ tbNav' \in TbPages \cup {TbNone}
        /\ tbNav' = TbNone => p = tbCur
        /\ p = tbCur /\ tbCur \in TbPaths => tbCur \in PathsOf(tbTabs')
    BY <1>2, <2>1, TabsFacts, PushFacts
  <2>3. tbStale' \in [1..TbMaxStale -> Nav \cup {TbNone}] /\ tbOrphan' \in BOOLEAN
    BY <2>1, SupersedeFacts, TabsFacts
  <2> QED
    BY <1>2, <2>1, <2>2, <2>3, TabsFacts, TabsStep
<1>3. CASE p # TbNone /\ tbFront # "vue"
  <2>1. /\ tbTabs' = AddTab(tabs, p) /\ tbCur' = p /\ tbOrphan' = FALSE
        /\ UNCHANGED <<tbNav, tbStale, tbBack>>
    BY <1>3 DEF GoTo
  <2>2. tbTabs' \in Bar /\ (p \in TbPaths => p \in PathsOf(tbTabs'))
    BY <1>3, <2>1, AddTabFacts
  <2> QED
    BY <2>1, <2>2, TabsFacts, TabsStep
<1> QED
  BY <1>1, <1>2, <1>3

\* Closing several tabs at once.
LEMMA BatchKeepsInv ==
  ASSUME TabsInv, NEW I, NEW p \in TbPaths, Batch(Keep(tbTabs, I), p)
  PROVE  TabsInv'
<1> DEFINE tabs == Keep(tbTabs, I)
           to == EnsureActive(tabs, p)
<1>1. tbTabs \in Bar
  BY TabsFacts
<1>2. tabs \in Bar
  BY <1>1, KeepFacts
<1>3. GoTo(tabs, to) /\ UNCHANGED <<tbFront, tbHome, tbPick>>
  BY DEF Batch
<1> HIDE DEF tabs
<1>4. CASE tbCur \in PathsOf(tabs) \/ tabs = <<>>
  <2>1. to = TbNone
    BY <1>4 DEF EnsureActive
  <2> HIDE DEF to
  <2> QED
    BY <1>2, <1>3, <1>4, <2>1, GoToKeepsInv
<1>5. CASE ~(tbCur \in PathsOf(tabs) \/ tabs = <<>>)
  <2>1. to \in PathsOf(tabs)
    <3>1. Len(tabs) \in DOMAIN tabs
      BY <1>2, <1>5, BarFacts
    <3> QED
      BY <3>1, <1>5 DEF EnsureActive, PathsOf
  <2>2. to \in TbPages /\ to # TbNone
    BY <1>2, <2>1, BarFacts, PageFacts
  <2> HIDE DEF to
  <2> QED
    BY <1>2, <1>3, <2>2, GoToKeepsInv
<1> QED
  BY <1>4, <1>5

LEMMA TabsInitInv == TabsInit => TabsInv
<1> SUFFICES ASSUME TabsInit PROVE TabsInv
  OBVIOUS
<1>1. PICK p \in TbPaths \ (TbHomes \ {tbHome}) :
        IF tbFront = "vue"
        THEN tbTabs = <<>> /\ tbCur = TbNone /\ tbNav = p
        ELSE tbTabs = <<[path |-> p, affix |-> p = tbHome, pinned |-> FALSE]>> /\ tbCur = p /\ tbNav = TbNone
  BY DEF TabsInit
<1>2. /\ tbFront \in {"vue", "react"} /\ tbHome \in TbHomes /\ tbPick = TbNone
      /\ tbStale = Settled /\ tbBack = FALSE /\ tbOrphan = FALSE
  BY DEF TabsInit, Settled
<1>3. p \in TbPaths /\ p \in TbPages /\ p # TbNone
  BY PageFacts
<1>4. tbStale \in [1..TbMaxStale -> Nav \cup {TbNone}]
  BY <1>2 DEF Settled
<1>5. CASE tbFront = "vue"
  <2>1. tbTabs = <<>> /\ tbCur = TbNone /\ tbNav = p
    BY <1>1, <1>5
  <2>2. tbTabs \in Bar
    BY <2>1 DEF Bar, Unique
  <2>3. TabsTypeOK
    BY <1>2, <1>3, <1>4, <2>1, <2>2, TabsTypedFacts
  <2> QED
    BY <1>3, <1>5, <2>1, <2>3 DEF TabsInv, ReactIsAtOnce, TabsCurrentShown
<1>6. CASE tbFront # "vue"
  <2> DEFINE t == [path |-> p, affix |-> p = tbHome, pinned |-> FALSE]
  <2>1. tbTabs = <<t>> /\ tbCur = p /\ tbNav = TbNone
    BY <1>1, <1>6
  <2>2. t \in Tab /\ t.path = p
    BY <1>3 DEF Tab
  <2> HIDE DEF t
  <2>3. tbTabs \in Bar /\ tbCur \in PathsOf(tbTabs)
    BY <2>1, <2>2 DEF Bar, Unique, PathsOf
  <2>4. TabsTypeOK
    BY <1>2, <1>3, <1>4, <2>1, <2>3, TabsTypedFacts
  <2>5. ReactIsAtOnce
    BY <1>2, <2>1 DEF ReactIsAtOnce, Settled
  <2> QED
    BY <2>3, <2>4, <2>5 DEF TabsInv, TabsCurrentShown
<1> QED
  BY <1>5, <1>6

\* The steps that change the bar and may navigate.
LEMMA CloseKeepsInv ==
  ASSUME TabsInv, NEW p \in PathsOf(tbTabs),
         \/ TabsRemove(p) \/ TabsCloseOthers(p) \/ TabsCloseLeft(p) \/ TabsCloseRight(p)
         \/ TabsCloseAll
  PROVE  TabsInv'
<1>1. tbTabs \in Bar /\ tbHome \in TbHomes
  BY TabsFacts
<1>2. p \in TbPaths /\ p # TbNone /\ tbHome \in TbPaths
  BY <1>1, BarFacts, PageFacts
<1>3. CASE TabsRemove(p)
  <2> DEFINE to == IF p = tbCur THEN Neighbour(tbTabs, p) ELSE TbNone
             rest == Without(tbTabs, p)
  <2>1. GoTo(rest, to) /\ UNCHANGED <<tbFront, tbHome, tbPick>>
    BY <1>3 DEF TabsRemove
  <2>2. /\ rest \in Bar /\ PathsOf(rest) = PathsOf(tbTabs) \ {p}
        /\ \/ Neighbour(tbTabs, p) \in TbPaths
           \/ Neighbour(tbTabs, p) = TbNone /\ rest = <<>>
    BY <1>1, NeighbourFacts
  <2>3. to \in TbPages \cup {TbNone}
    BY <2>2, PageFacts
  <2>4. to = TbNone /\ rest # <<>> /\ tbCur \in PathsOf(tbTabs) => tbCur \in PathsOf(rest)
    BY <2>2, PageFacts
  <2> HIDE DEF to, rest
  <2> QED
    BY <2>1, <2>2, <2>3, <2>4, GoToKeepsInv
<1>4. CASE TabsCloseOthers(p)
  BY <1>2, <1>4, BatchKeepsInv DEF TabsCloseOthers
<1>5. CASE TabsCloseLeft(p)
  BY <1>2, <1>5, BatchKeepsInv DEF TabsCloseLeft
<1>6. CASE TabsCloseRight(p)
  BY <1>2, <1>6, BatchKeepsInv DEF TabsCloseRight
<1>7. CASE TabsCloseAll
  BY <1>2, <1>7, BatchKeepsInv DEF TabsCloseAll
<1> QED
  BY <1>3, <1>4, <1>5, <1>6, <1>7

LEMMA OpenKeepsInv ==
  ASSUME TabsInv, NEW p \in TbPages, TabsOpen(p)
  PROVE  TabsInv'
<1>1. tbTabs \in Bar /\ p # TbNone
  BY TabsFacts, PageFacts
<1>2. GoTo(tbTabs, p) /\ UNCHANGED <<tbFront, tbHome, tbPick>>
  BY DEF TabsOpen
<1>3. QED BY <1>1, <1>2, GoToKeepsInv

LEMMA BackKeepsInv ==
  ASSUME TabsInv, TabsBackReact \/ TabsBackVue
  PROVE  TabsInv'
<1>1. TbList \in TbPages /\ TbList # TbNone
  BY PageFacts
<1>2. CASE TabsBackReact
  <2> DEFINE tabs == IF Closable(tbTabs, TbDetail) THEN Without(tbTabs, TbDetail) ELSE tbTabs
  <2>1. GoTo(tabs, TbList) /\ UNCHANGED <<tbFront, tbHome, tbPick>>
    BY <1>2 DEF TabsBackReact
  <2>2. tabs \in Bar
    BY TabsFacts, NeighbourFacts DEF Closable
  <2> HIDE DEF tabs
  <2> QED
    BY <1>1, <2>1, <2>2, GoToKeepsInv
<1>3. CASE TabsBackVue
  <2>1. /\ tbFront = "vue" /\ tbNav' = TbList /\ tbBack' = TRUE /\ Supersede
        /\ UNCHANGED <<tbFront, tbTabs, tbCur, tbHome, tbPick, tbOrphan>>
    BY <1>3 DEF TabsBackVue
  <2> QED
    BY <1>1, <2>1, SupersedeFacts, TabsFacts, TabsStep
<1> QED
  BY <1>2, <1>3

LEMMA TogglePinKeepsInv ==
  ASSUME TabsInv, NEW p \in PathsOf(tbTabs), TabsTogglePin(p)
  PROVE  TabsInv'
<1> DEFINE i == IndexOf(tbTabs, p)
           t == [tbTabs[i] EXCEPT !.pinned = ~tbTabs[i].pinned]
<1>1. /\ tbTabs' = [tbTabs EXCEPT ![i] = t]
      /\ UNCHANGED <<tbFront, tbCur, tbNav, tbStale, tbBack, tbHome, tbPick, tbOrphan>>
  BY DEF TabsTogglePin
<1>2. i \in DOMAIN tbTabs /\ tbTabs[i] \in Tab /\ tbTabs \in Seq(Tab) /\ Unique(tbTabs)
  BY TabsFacts, BarFacts DEF Bar
<1>3. t \in Tab /\ t.path = tbTabs[i].path
  BY <1>2 DEF Tab
<1> HIDE DEF i, t
<1>4. /\ tbTabs' \in Seq(Tab) /\ DOMAIN tbTabs' = DOMAIN tbTabs
      /\ \A k \in DOMAIN tbTabs : tbTabs'[k].path = tbTabs[k].path
  BY <1>1, <1>2, <1>3
<1>5. tbTabs' \in Bar /\ PathsOf(tbTabs') = PathsOf(tbTabs)
  BY <1>2, <1>4 DEF Bar, Unique, PathsOf
<1>6. QED BY <1>1, <1>5, TabsFacts, TabsStep

\* The choice of an application, and what it leads to.
LEMMA PickKeepsInv ==
  ASSUME TabsInv, (\E home \in TbHomes : TabsPick(home)) \/ TabsPickFails
  PROVE  TabsInv'
<1>1. /\ tbPick' \in TbHomes \cup {TbNone}
      /\ UNCHANGED <<tbFront, tbTabs, tbCur, tbNav, tbBack, tbStale, tbHome, tbOrphan>>
  BY DEF TabsPick, TabsPickFails
<1>2. QED BY <1>1, TabsFacts, TabsStep

LEMMA SwitchKeepsInv == ASSUME TabsInv, TabsSwitch PROVE TabsInv'
<1> DEFINE tab == [path |-> tbPick, affix |-> TRUE, pinned |-> FALSE]
<1>1. /\ tbPick \in TbHomes /\ tbPick \in TbPaths /\ tbPick \in TbPages /\ tbPick # TbNone
      /\ tbHome' = tbPick /\ tbPick' = TbNone /\ tbFront' = tbFront
  BY TabsFacts, PageFacts DEF TabsSwitch
<1>2. tab \in Tab /\ tab.path = tbPick
  BY <1>1 DEF Tab
<1>3. /\ tbFront = "vue" =>
           /\ tbTabs' = (IF tbPick = tbCur THEN <<tab>> ELSE <<>>)
           /\ tbNav' = UnderWay(tbCur, tbPick) /\ tbBack' = FALSE /\ Supersede
           /\ UNCHANGED <<tbCur, tbOrphan>>
      /\ tbFront # "vue" =>
           /\ \E tabs \in {<<tab>>, <<>>} : tbTabs' = tabs /\ tbOrphan' = (tabs = <<>>)
           /\ tbCur' = tbPick /\ UNCHANGED <<tbNav, tbStale, tbBack>>
  BY DEF TabsSwitch
<1> HIDE DEF tab
<1>4. /\ <<tab>> \in Bar /\ <<>> \in Bar /\ tbPick \in PathsOf(<<tab>>)
      /\ <<tab>> # <<>>
  BY <1>2 DEF Bar, Unique, PathsOf
<1>5. CASE tbFront = "vue"
  <2>1. /\ tbTabs' \in Bar /\ tbNav' \in TbPages \cup {TbNone}
        /\ tbNav' = TbNone => tbPick = tbCur
        /\ tbPick = tbCur => tbCur \in PathsOf(tbTabs')
    BY <1>1, <1>3, <1>4, <1>5 DEF UnderWay
  <2> QED
    BY <1>1, <1>3, <1>5, <2>1, SupersedeFacts, TabsFacts, TabsStep
<1>6. CASE tbFront # "vue"
  <2>1. PICK tabs \in {<<tab>>, <<>>} : tbTabs' = tabs /\ tbOrphan' = (tabs = <<>>)
    BY <1>3, <1>6
  <2>2. tbTabs' \in Bar /\ tbOrphan' \in BOOLEAN /\ (~tbOrphan' => tbPick \in PathsOf(tbTabs'))
    BY <1>4, <2>1
  <2> QED
    BY <1>1, <1>3, <1>6, <2>2, TabsFacts, TabsStep
<1> QED
  BY <1>5, <1>6

LEMMA ReloadKeepsInv == ASSUME TabsInv, TabsReload PROVE TabsInv'
<1>1. /\ tbCur # TbNone /\ tbBack' = FALSE /\ tbPick' = TbNone /\ tbStale' = Settled
      /\ UNCHANGED <<tbFront, tbHome>>
  BY DEF TabsReload, Settled
<1>2. tbCur \in TbPages /\ Settled \in [1..TbMaxStale -> Nav \cup {TbNone}]
  BY <1>1, TabsFacts DEF Settled
<1>3. CASE tbFront = "vue"
  <2>1. tbCur' = TbNone /\ tbNav' = tbCur /\ UNCHANGED <<tbTabs, tbOrphan>>
    BY <1>3 DEF TabsReload
  <2> QED
    BY <1>1, <1>2, <1>3, <2>1, TabsFacts, TabsStep
<1>4. CASE tbFront # "vue"
  <2>1. tbTabs' = AddTab(tbTabs, tbCur) /\ tbOrphan' = FALSE /\ UNCHANGED <<tbCur, tbNav>>
    BY <1>4 DEF TabsReload
  <2>2. tbTabs' \in Bar /\ (tbCur \in TbPaths => tbCur \in PathsOf(tbTabs'))
    BY <1>2, <2>1, TabsFacts, AddTabFacts
  <2> QED
    BY <1>1, <1>2, <2>1, <2>2, TabsFacts, TabsStep
<1> QED
  BY <1>3, <1>4

LEMMA ArriveKeepsInv == ASSUME TabsInv, TabsArrive PROVE TabsInv'
<1> DEFINE tabs == AddTab(tbTabs, tbNav)
<1>1. /\ tbNav # TbNone /\ tbCur' = tbNav /\ tbOrphan' = FALSE /\ tbBack' = FALSE
      /\ tbTabs' = ThenTabs(tabs, tbNav, tbBack) /\ tbNav' = ThenNav(tabs, tbNav, tbBack, TbNone)
      /\ UNCHANGED <<tbFront, tbStale, tbHome, tbPick>>
  BY DEF TabsArrive
<1>2. tbFront = "vue" /\ tbNav \in TbPages
  BY <1>1, TabsFacts
<1>3. tabs \in Bar /\ (tbNav \in TbPaths => tbNav \in PathsOf(tabs))
  BY <1>2, TabsFacts, AddTabFacts
<1> HIDE DEF tabs
<1>4. /\ tbTabs' \in Bar /\ tbNav' \in TbPages \cup {TbNone}
      /\ tbNav' = TbNone /\ tbNav \in PathsOf(tabs) => tbNav \in PathsOf(tbTabs')
  BY <1>1, <1>2, <1>3, TabsFacts, ThenFacts
<1>5. QED BY <1>1, <1>2, <1>3, <1>4, TabsFacts, TabsStep

LEMMA FailKeepsInv == ASSUME TabsInv, TabsFail PROVE TabsInv'
<1> DEFINE tabs == AddTab(tbTabs, tbNav)
<1>1. /\ tbNav # TbNone /\ tbBack' = FALSE
      /\ \/ tbTabs' = ThenTabs(tabs, tbCur, tbBack) /\ tbNav' = ThenNav(tabs, tbCur, tbBack, TbNone)
         \/ tbNav' = TbNone /\ UNCHANGED tbTabs
      /\ UNCHANGED <<tbFront, tbCur, tbStale, tbHome, tbPick>>
  BY DEF TabsFail
<1>2. tbOrphan' = (tbOrphan \/ (tbNav' = TbNone /\ tbCur \notin PathsOf(tbTabs')))
  BY <1>1 DEF TabsFail, PathsOf
<1>3. tbFront = "vue" /\ tbNav \in TbPages
  BY <1>1, TabsFacts
<1>4. tabs \in Bar
  BY <1>3, TabsFacts, AddTabFacts
<1> HIDE DEF tabs
<1>5. tbTabs' \in Bar /\ tbNav' \in TbPages \cup {TbNone}
  BY <1>1, <1>3, <1>4, TabsFacts, ThenFacts
<1>6. tbOrphan' \in BOOLEAN
  BY <1>2, TabsFacts
<1>7. tbNav' = TbNone /\ tbCur' \in TbPaths /\ ~tbOrphan' => tbCur' \in PathsOf(tbTabs')
  BY <1>1, <1>2
<1>8. QED BY <1>1, <1>3, <1>5, <1>6, <1>7, TabsFacts, TabsStep

LEMMA SettleKeepsInv ==
  ASSUME TabsInv, NEW n \in 1..TbMaxStale, TabsSettle(n)
  PROVE  TabsInv'
<1> DEFINE back == tbStale[n].back
           tabs == AddTab(tbTabs, tbStale[n].to)
           away == Closes(tabs, tbCur, back)
<1>1. tbStale[n] # TbNone /\ UNCHANGED <<tbFront, tbCur, tbHome, tbPick, tbOrphan>>
  BY DEF TabsSettle
<1>2. tbStale[n] \in Nav
  BY <1>1, TabsFacts
<1>3. back \in BOOLEAN /\ tbStale[n].to \in TbPages
  BY <1>2 DEF Nav
<1>4. tbFront = "vue"
  BY <1>1, TabsFacts DEF Settled
<1>5. tabs \in Bar /\ PathsOf(tbTabs) \subseteq PathsOf(tabs)
  BY <1>3, TabsFacts, AddTabFacts
<1>6. CASE tbStale' = [tbStale EXCEPT ![n] = TbNone] /\ UNCHANGED <<tbTabs, tbNav, tbBack>>
  <2>1. tbStale' \in [1..TbMaxStale -> Nav \cup {TbNone}]
    BY <1>6, TabsFacts
  <2> QED
    BY <1>1, <1>4, <1>6, <2>1, TabsFacts, TabsStep
<1>7. CASE /\ tbTabs' = ThenTabs(tabs, tbCur, back) /\ tbNav' = ThenNav(tabs, tbCur, back, tbNav)
           /\ tbBack' = (tbBack /\ ~away)
           /\ tbStale' = [tbStale EXCEPT ![n] = IF away THEN Superseded ELSE TbNone]
  <2> HIDE DEF tabs, back
  <2>1. /\ tbTabs' \in Bar /\ tbNav' \in TbPages \cup {TbNone}
        /\ tbNav' = TbNone => (tbNav = TbNone \/ away)
        /\ tbNav' = TbNone /\ tbCur \in PathsOf(tabs) => tbCur \in PathsOf(tbTabs')
        /\ away \in BOOLEAN /\ (away => tbCur \in PathsOf(tabs))
    BY <1>3, <1>4, <1>5, <1>7, TabsFacts, ThenFacts
  <2> HIDE DEF away
  <2>2. tbStale' \in [1..TbMaxStale -> Nav \cup {TbNone}] /\ tbBack' \in BOOLEAN
    BY <1>7, <2>1, SupersedeFacts, TabsFacts
  <2>3. tbNav' = TbNone /\ tbCur \in TbPaths /\ ~tbOrphan => tbCur \in PathsOf(tbTabs')
    BY <1>5, <2>1, TabsFacts
  <2> QED
    BY <1>1, <1>4, <2>1, <2>2, <2>3, TabsFacts, TabsStep
<1>8. QED BY <1>6, <1>7 DEF TabsSettle

LEMMA TabsNextInv == TabsInv /\ [TabsNext]_tabsVars => TabsInv'
<1> SUFFICES ASSUME TabsInv, [TabsNext]_tabsVars PROVE TabsInv'
  OBVIOUS
<1>1. CASE UNCHANGED tabsVars
  BY <1>1 DEF TabsInv, TabsTypeOK, ReactIsAtOnce, TabsCurrentShown, PathsOf, tabsVars
<1>2. ASSUME NEW p \in TbPages, TabsOpen(p) PROVE TabsInv'
  BY <1>2, OpenKeepsInv
<1>3. ASSUME NEW n \in 1..TbMaxStale, TabsSettle(n) PROVE TabsInv'
  BY <1>3, SettleKeepsInv
<1>4. ASSUME NEW p \in PathsOf(tbTabs),
             \/ TabsRemove(p) \/ TabsTogglePin(p)
             \/ TabsCloseOthers(p) \/ TabsCloseLeft(p) \/ TabsCloseRight(p)
      PROVE  TabsInv'
  BY <1>4, CloseKeepsInv, TogglePinKeepsInv
<1>5. CASE TabsCloseAll
  BY <1>5, TabsFacts, PageFacts, BatchKeepsInv DEF TabsCloseAll
<1>6. CASE TabsBackReact \/ TabsBackVue
  BY <1>6, BackKeepsInv
<1>7. CASE TabsArrive \/ TabsFail
  BY <1>7, ArriveKeepsInv, FailKeepsInv
<1>8. CASE (\E home \in TbHomes : TabsPick(home)) \/ TabsPickFails
  BY <1>8, PickKeepsInv
<1>9. CASE TabsSwitch \/ TabsReload
  BY <1>9, SwitchKeepsInv, ReloadKeepsInv
<1> QED
  BY <1>1, <1>2, <1>3, <1>4, <1>5, <1>6, <1>7, <1>8, <1>9 DEF TabsNext

(* However many navigations are superseded, refused or fail and whatever is *)
(* closed meanwhile, once nothing is under way the page shown has its tab,  *)
(* with the exceptions TabsCurrentShown names (stores/tabs.ts of both       *)
(* consoles with the router's afterEach, the back button and useTabSync).   *)
THEOREM TabsPageIsShown == TabsInit /\ [][TabsNext]_tabsVars => []TabsCurrentShown
<1>1. TabsInv => TabsCurrentShown
  BY DEF TabsInv
<1>2. QED BY TabsInitInv, TabsNextInv, <1>1, PTL


(***************************************************************************)
(* The types of what the invariants above leave open.                      *)
(***************************************************************************)
LEMMA RtKeepsTypes == RtInv /\ RtTypeOK /\ [RtNext]_rtVars => RtTypeOK'
<1> SUFFICES ASSUME RtInv, RtTypeOK, [RtNext]_rtVars PROVE RtTypeOK'
  OBVIOUS
<1>1. ConnsTyped' /\ rtWarned' = 0
  BY RtNextInv DEF RtInv, RtVoluntaryIsSilent
<1>2. /\ rtFront \in {"vue", "react"} /\ rtLogout \in {"no", "asked", "overtaken"}
      /\ rtLogin \in Nat /\ rtWarned \in Nat
      /\ rtToken \in BOOLEAN /\ rtShell \in BOOLEAN /\ rtRelease \in BOOLEAN /\ rtVoluntary \in BOOLEAN
  BY DEF RtTypeOK
<1> DEFINE Goal == /\ rtFront' \in {"vue", "react"} /\ rtLogout' \in {"no", "asked", "overtaken"}
                   /\ rtLogin' \in Nat /\ rtWarned' \in Nat
                   /\ rtToken' \in BOOLEAN /\ rtShell' \in BOOLEAN /\ rtRelease' \in BOOLEAN
                   /\ rtVoluntary' \in BOOLEAN
<1>3. Goal
  <2>1. CASE RtMount
    BY <1>2, <2>1 DEF RtMount
  <2>2. CASE RtUnmount \/ RtReleaseFires \/ RtLogout
    BY <1>2, <2>2 DEF RtUnmount, RtReleaseFires, RtLogout, Stop
  <2>3. CASE RtRevokedByOthers \/ RtLogoutServed
    <3>1. UNCHANGED <<rtFront, rtToken, rtShell, rtRelease, rtVoluntary, rtLogout, rtLogin, rtWarned>>
      BY <2>3 DEF RtRevokedByOthers, RtLogoutServed
    <3> QED
      BY <1>2, <3>1
  <2>6. CASE RtLogoutDone \/ RtExpire \/ RtLoginDone
    <3>1. /\ UNCHANGED <<rtFront, rtShell, rtRelease, rtVoluntary, rtWarned>>
          /\ rtToken' \in BOOLEAN /\ (rtLogout' = rtLogout \/ rtLogout' = "no")
          /\ rtLogin' = rtLogin \/ rtLogin' = rtLogin + 1
      BY <2>6 DEF RtLogoutDone, RtExpire, RtLoginDone
    <3> QED
      BY <1>2, <3>1
  <2>4. ASSUME NEW c \in DOMAIN rtConns, RtStartOk(c) \/ RtStartFail(c) \/ RtDrop(c) \/ RtForced(c)
        PROVE  Goal
    <3>1. CASE RtStartOk(c) \/ RtStartFail(c) \/ RtDrop(c)
      <4>1. UNCHANGED <<rtFront, rtToken, rtShell, rtRelease, rtVoluntary, rtLogout, rtLogin, rtWarned>>
        BY <3>1 DEF RtStartOk, RtStartFail, RtDrop
      <4> QED
        BY <1>2, <4>1
    <3>2. CASE RtForced(c)
      <4>1. /\ UNCHANGED <<rtFront, rtShell, rtLogout, rtLogin>>
            /\ rtVoluntary' = FALSE /\ rtToken' = FALSE /\ rtRelease' = FALSE
        BY <3>2 DEF RtForced, Stop
      <4>2. rtWarned' \in Nat
        BY <1>1
      <4> QED
        BY <1>2, <4>1, <4>2
    <3> QED
      BY <2>4, <3>1, <3>2
  <2>5. CASE UNCHANGED rtVars
    BY <1>2, <2>5 DEF rtVars
  <2> QED
    BY <2>1, <2>2, <2>3, <2>4, <2>5, <2>6 DEF RtNext
<1> QED
  BY <1>1, <1>3 DEF RtTypeOK, ConnsTyped, Conn

LEMMA RtInitTypes == RtInit => RtTypeOK
<1> SUFFICES ASSUME RtInit PROVE RtTypeOK
  OBVIOUS
<1>1. ConnsTyped
  BY RtInitInv DEF RtInv
<1> QED
  BY <1>1 DEF RtInit, RtTypeOK, ConnsTyped, Conn

LEMMA CuTypes == CuInv => CuTypeOK
BY DEF CuInv, CuTyped, CuTypeOK, Flight, Phases

\* What LpInv does not say of the login form.
LpRest ==
  /\ lpMode \in Kinds \cup {"in"} /\ lpCountdown \in BOOLEAN /\ lpLink \in BOOLEAN
  /\ lpHome \in {"no", "confirm", "awaited", "free"} /\ lpTaken \subseteq 1..LpMaxTickets
  /\ lpChallenge \in 0..LpMaxChallenges /\ lpIssued.challenges \in 0..LpMaxChallenges
  /\ lpIssued.tickets \in 0..LpMaxTickets
  /\ \A r \in lpReqs : r.kind \in Kinds \cup {"send"} /\ r.ticket \in 0..LpMaxTickets

LEMMA LpInitRest == LpInit => LpRest
<1> SUFFICES ASSUME LpInit PROVE LpRest
  OBVIOUS
<1>1. 0 \in 0..LpMaxChallenges /\ 1 \in 0..LpMaxTickets
  BY LoginAssumption
<1>2. lpIssued.tickets = 1 /\ lpIssued.challenges = 0 /\ lpReqs = {}
  BY DEF LpInit
<1> QED
  BY <1>1, <1>2 DEF LpInit, LpRest, Kinds

LEMMA LpKeepsRest == LpInv /\ LpRest /\ [LpNext]_loginVars => LpRest'
<1> SUFFICES ASSUME LpInv, LpRest, [LpNext]_loginVars PROVE LpRest'
  OBVIOUS
<1>1. /\ lpIssued \in [tickets : 1..LpMaxTickets, challenges : Nat, sends : Nat]
      /\ LpMaxTickets \in Nat /\ LpMaxChallenges \in Nat /\ lpTicket \in 0..LpMaxTickets
  BY LoginAssumption DEF LpInv, LpTyped
<1>2. ASSUME NEW kind \in Kinds, LpSubmit(kind) PROVE LpRest'
  BY <1>1, <1>2 DEF LpRest, LpSubmit, Submit, Kinds
<1>3. ASSUME NEW r \in lpReqs, LpAccepted(r) PROVE LpRest'
  <2>1. lpTaken' \subseteq 1..LpMaxTickets
    <3>1. r.ticket \in 0..LpMaxTickets /\ lpTaken \subseteq 1..LpMaxTickets
      BY DEF LpRest
    <3>2. {r.ticket} \ {0} \subseteq 1..LpMaxTickets
      BY <1>1, <3>1
    <3>3. lpTaken' = lpTaken \cup ({r.ticket} \ {0})
      BY <1>3 DEF LpAccepted
    <3> QED
      BY <3>1, <3>2, <3>3
  <2>2. lpHome' \in {"no", "confirm", "awaited", "free"}
    BY <1>3 DEF LpAccepted
  <2> QED
    BY <1>3, <2>1, <2>2 DEF LpRest, LpAccepted
<1>4. ASSUME NEW r \in lpReqs, LpRefused(r) PROVE LpRest'
  <2>1. lpReqs' = lpReqs \ {r} /\ UNCHANGED <<lpLink, lpHome, lpTaken>>
    BY <1>4 DEF LpRefused
  <2> DEFINE Asked == /\ lpIssued.challenges < LpMaxChallenges
                      /\ lpIssued' = [lpIssued EXCEPT !.challenges = lpIssued.challenges + 1]
                      /\ lpChallenge' = lpIssued.challenges + 1
                      /\ \/ lpMode' = "totp" /\ lpCountdown' = lpCountdown
                         \/ lpMode' = "mfa" /\ lpCountdown' = TRUE
             Same == UNCHANGED <<lpMode, lpChallenge, lpIssued, lpCountdown>>
  <2>4. Same \/ Asked
    BY <1>4 DEF LpRefused
  <2>2. CASE Same
    BY <2>1, <2>2 DEF LpRest
  <2>3. CASE Asked
    <3>1. Asked
      BY <2>3
    <3>2. lpIssued'.challenges = lpIssued.challenges + 1 /\ lpIssued'.tickets = lpIssued.tickets
      BY <1>1, <3>1
    <3>3. lpIssued'.challenges \in 0..LpMaxChallenges /\ lpChallenge' \in 0..LpMaxChallenges
      BY <1>1, <3>1, <3>2 DEF LpRest
    <3>4. lpMode' \in Kinds /\ lpCountdown' \in BOOLEAN
      BY <3>1 DEF LpRest, Kinds
    <3> HIDE DEF Asked
    <3> QED
      BY <2>1, <3>2, <3>3, <3>4 DEF LpRest
  <2> QED
    BY <2>2, <2>3, <2>4
<1>5. ASSUME NEW r \in lpReqs, NEW ok \in BOOLEAN, LpSendAnswered(r, ok) PROVE LpRest'
  <2>1. /\ lpReqs' = lpReqs \ {r} /\ lpCountdown' \in BOOLEAN
        /\ UNCHANGED <<lpMode, lpLink, lpHome, lpChallenge, lpIssued, lpTaken>>
    <3>1. lpCountdown' = (lpCountdown \/ (ok /\ (lpFront = "vue" => r.send = lpIssued.sends)))
      BY <1>5 DEF LpSendAnswered
    <3>2. lpCountdown' \in BOOLEAN
      BY <3>1
    <3> QED
      BY <1>5, <3>2 DEF LpSendAnswered
  <2> QED
    BY <2>1 DEF LpRest
<1>6. CASE LpSend
  <2>1. /\ UNCHANGED <<lpMode, lpLink, lpHome, lpCountdown, lpChallenge, lpTaken>>
        /\ lpIssued' = [lpIssued EXCEPT !.sends = lpIssued.sends + 1]
        /\ \E t \in {0, lpTicket} : \E c, n : lpReqs' = lpReqs \cup {Submit("send", t, c, n)}
    BY <1>6 DEF LpSend
  <2>2. lpIssued'.challenges = lpIssued.challenges /\ lpIssued'.tickets = lpIssued.tickets
    BY <1>1, <2>1
  <2>3. \A r \in lpReqs' : r \in lpReqs \/ (r.kind = "send" /\ r.ticket \in 0..LpMaxTickets)
    BY <1>1, <2>1 DEF Submit
  <2> QED
    BY <2>1, <2>2, <2>3 DEF LpRest
<1>7. CASE LpCountdownEnds \/ LpCaptchaClicked \/ LpToggle \/ LpBack
  <2>1. UNCHANGED <<lpReqs, lpLink, lpHome, lpIssued, lpTaken>>
    BY <1>7 DEF LpCountdownEnds, LpCaptchaClicked, LpToggle, LpBack
  <2>2. lpCountdown' = lpCountdown \/ lpCountdown' = FALSE
    BY <1>7 DEF LpCountdownEnds, LpCaptchaClicked, LpToggle, LpBack
  <2>3. lpChallenge' = lpChallenge \/ lpChallenge' = 0
    BY <1>7 DEF LpCountdownEnds, LpCaptchaClicked, LpToggle, LpBack
  <2>4. lpMode' \in {lpMode, "account", "sms"}
    BY <1>7 DEF LpCountdownEnds, LpCaptchaClicked, LpToggle, LpBack
  <2>5. lpMode' \in Kinds \cup {"in"} /\ lpCountdown' \in BOOLEAN
    BY <2>2, <2>4 DEF LpRest, Kinds
  <2>6. lpChallenge' \in 0..LpMaxChallenges
    BY <1>1, <2>3 DEF LpRest
  <2> QED
    BY <2>1, <2>5, <2>6 DEF LpRest
<1>8. ASSUME NEW own \in BOOLEAN, NEW ok \in BOOLEAN, LpCaptchaLoaded(own, ok) PROVE LpRest'
  BY <1>1, <1>8 DEF LpRest, LpCaptchaLoaded
<1>9. CASE UNCHANGED loginVars
  BY <1>9 DEF LpRest, loginVars
<1>10. CASE LpConfirmed \/ \E outcome : LpHomeEnds(outcome)
  <2>1. /\ UNCHANGED <<lpReqs, lpLink, lpCountdown, lpChallenge, lpIssued, lpTaken>>
        /\ lpMode' \in {lpMode, "in"} /\ lpHome' \in {"no", "free"}
    BY <1>10 DEF LpConfirmed, LpHomeEnds
  <2> QED
    BY <2>1 DEF LpRest
<1> QED
  BY <1>2, <1>3, <1>4, <1>5, <1>6, <1>7, <1>8, <1>9, <1>10 DEF LpNext

LEMMA LpTypes == LpInv /\ LpRest => LpTypeOK
<1> SUFFICES ASSUME LpInv, LpRest PROVE LpTypeOK
  OBVIOUS
<1>1. /\ lpFront \in {"vue", "react"} /\ lpBusy \in BOOLEAN /\ lpRefresh \in BOOLEAN /\ lpLoads \in Nat
      /\ lpTicket \in 0..lpIssued.tickets /\ lpUsed \in [1..LpMaxTickets -> 0..2]
      /\ LpMaxTickets \in Nat
  BY LoginAssumption DEF LpInv, LpTyped
<1>2. lpTicket \in 0..LpMaxTickets
  BY <1>1 DEF LpRest
<1> QED
  BY <1>1, <1>2 DEF LpRest, LpTypeOK

LEMMA WfTypes == WfInv => WfTypeOK
<1> SUFFICES ASSUME WfInv PROVE WfTypeOK
  OBVIOUS
<1>1. /\ Typed(wfTree) /\ wfTree \in [DOMAIN wfTree -> NodeRec] /\ Start \in DOMAIN wfTree
      /\ DOMAIN wfTree \subseteq NodeIds
  BY DEF WfInv, Whole, Typed
<1>2. ASSUME NEW n \in DOMAIN wfTree
      PROVE  /\ wfTree[n].type \in NodeTypes /\ wfTree[n].set \in BOOLEAN
             /\ wfTree[n].next \in NodeIds \cup {Nil} /\ wfTree[n].reject \in NodeIds \cup {Nil, Stays}
             /\ wfTree[n].back \in NodeIds \cup {Nil, Stays} /\ wfTree[n].late \in BOOLEAN
             /\ \A a \in Range(wfTree[n].arms) : a.next \in NodeIds \cup {Nil} /\ a.dflt \in BOOLEAN
  <2>1. wfTree[n] \in NodeRec
    BY <1>1
  <2>2. wfTree[n].arms \in Seq(ArmRec)
    BY <2>1 DEF NodeRec
  <2>3. \A a \in Range(wfTree[n].arms) : a \in ArmRec
    BY <2>2 DEF Range
  <2> QED
    BY <2>1, <2>3 DEF NodeRec, ArmRec
<1> QED
  BY <1>1, <1>2 DEF WfInv, WfTypeOK

\* The session: what each request waits for or was sent with was issued.
Requests ==
  [st : {"idle", "sent", "denied", "waiting", "replayed"}, tok : Nat, on : SsReqs \cup {SsNone}]

SsRest ==
  /\ ssReused \in BOOLEAN /\ ssLost \in BOOLEAN /\ ssRefreshing \in SsReqs \cup {SsNone}
  /\ ssReq \in [SsReqs -> Requests]
  /\ \A r \in SsReqs : ssReq[r].tok \in 0..Len(ssTokens)

LEMMA SsInitRest == SessionInit => SsRest
<1> SUFFICES ASSUME SessionInit PROVE SsRest
  OBVIOUS
<1>1. Resting \in Requests /\ Resting.tok = 0
  BY DEF Resting, Requests
<1>2. ssReq = [r \in SsReqs |-> Resting] /\ Len(ssTokens) = 0
  BY DEF SessionInit
<1> HIDE DEF Resting
<1>3. ssReq \in [SsReqs -> Requests] /\ \A r \in SsReqs : ssReq[r].tok \in 0..Len(ssTokens)
  BY <1>1, <1>2
<1> QED
  BY <1>3 DEF SessionInit, SsRest

LEMMA SsTypes == SsInv /\ SsRest => SsTypeOK
<1> SUFFICES ASSUME SsInv, SsRest PROVE SsTypeOK
  OBVIOUS
<1> DEFINE T == 0..Len(ssTokens)
           Q == [st : {"idle", "sent", "denied", "waiting", "replayed"}, tok : T, on : SsReqs \cup {SsNone}]
           F == [st : {"none", "asked", "read", "yes", "no", "error"}, tok : T, new : T]
<1>1. /\ ssTokens \in Seq([sid : Nat, status : {"active", "used", "revoked"}, valid : BOOLEAN])
      /\ ssRevoked \subseteq 1..ssLogins /\ ssLogins \in Nat /\ ssStore \in T
  BY DEF SsInv, TokensAreOpened, PageHoldsIssued, Token
<1>2. ssReq \in [SsReqs -> Q]
  <2>1. \A r \in SsReqs : ssReq[r] \in Requests /\ ssReq[r].tok \in T
    BY DEF SsRest
  <2>2. \A r \in SsReqs : ssReq[r] \in Q
    BY <2>1 DEF Requests
  <2> QED
    BY <2>2 DEF SsRest
<1>3. ssFlight \in [SsReqs -> F]
  <2>1. /\ ssFlight \in [SsReqs -> [st : Flights, tok : Nat, new : Nat]]
        /\ \A k \in SsReqs : ssFlight[k].tok \in T /\ ssFlight[k].new \in T
    BY DEF SsInv, PageHoldsIssued
  <2>2. \A k \in SsReqs : ssFlight[k] \in F
    <3> TAKE k \in SsReqs
    <3>1. ssFlight[k] \in [st : Flights, tok : Nat, new : Nat] /\ ssFlight[k].tok \in T /\ ssFlight[k].new \in T
      BY <2>1
    <3> QED
      BY <3>1 DEF Flights
  <2> QED
    BY <2>1, <2>2
<1> QED
  BY <1>1, <1>2, <1>3 DEF SsRest, SsTypeOK

LEMMA SsKeepsRest == SsInv /\ SsRest /\ [SessionNext]_sessionVars => SsRest'
<1> SUFFICES ASSUME SsInv, SsRest, [SessionNext]_sessionVars PROVE SsRest'
  OBVIOUS
<1>1. /\ ssTokens \in Seq(Token) /\ Len(ssTokens) \in Nat /\ ssStore \in 0..Len(ssTokens)
      /\ \A k \in SsReqs : ssFlight[k].tok \in 0..Len(ssTokens) /\ ssFlight[k].new \in 0..Len(ssTokens)
  BY DEF SsInv, TokensAreOpened, PageHoldsIssued
<1>2. /\ ssReused \in BOOLEAN /\ ssLost \in BOOLEAN /\ ssRefreshing \in SsReqs \cup {SsNone}
      /\ ssReq \in [SsReqs -> Requests]
      /\ \A r \in SsReqs : ssReq[r].tok \in 0..Len(ssTokens)
  BY DEF SsRest
<1>3. ASSUME Len(ssTokens') \in Nat, Len(ssTokens) <= Len(ssTokens'),
             UNCHANGED <<ssReused, ssLost, ssRefreshing, ssReq>>
      PROVE  SsRest'
  BY <1>1, <1>2, <1>3 DEF SsRest
<1>4. ASSUME UNCHANGED <<ssTokens, ssReused, ssLost>>, ssRefreshing' \in SsReqs \cup {SsNone},
             NEW r \in SsReqs, NEW q \in Requests, q.tok \in 0..Len(ssTokens),
             ssReq' = [ssReq EXCEPT ![r] = q]
      PROVE  SsRest'
  BY <1>1, <1>2, <1>4 DEF SsRest
<1>5. CASE SessionLogin
  <2>1. /\ ssTokens' = Issue(ssTokens, ssLogins + 1) /\ ssLogins \in Nat
        /\ UNCHANGED <<ssReused, ssLost, ssRefreshing, ssReq>>
    BY <1>5 DEF SessionLogin, historyVars, SsInv, TokensAreOpened
  <2>2. Len(ssTokens') = Len(ssTokens) + 1
    <3>1. PICK sid \in Nat : sid = ssLogins + 1
      BY <2>1
    <3>2. Len(Issue(ssTokens, sid)) = Len(ssTokens) + 1
      BY <1>1, IssueFacts
    <3> QED
      BY <2>1, <3>1, <3>2
  <2> QED
    BY <1>1, <1>3, <2>1, <2>2
<1>6. CASE PageClear
  BY <1>1, <1>3, <1>6 DEF PageClear, serverVars, historyVars
<1>7. ASSUME NEW sid \in 1..ssLogins, SessionRevoke(sid) PROVE SsRest'
  <2>1. ssTokens' = Revoked(ssTokens, sid) /\ UNCHANGED <<ssReused, ssLost, ssRefreshing, ssReq>>
    BY <1>7 DEF SessionRevoke, historyVars
  <2>2. sid \in Nat
    BY DEF SsInv, TokensAreOpened
  <2>3. Len(ssTokens') = Len(ssTokens)
    BY <1>1, <2>1, <2>2, RevokedFacts
  <2> QED
    BY <1>1, <1>3, <2>1, <2>3
<1>8. ASSUME NEW i \in DOMAIN ssTokens, AccessExpires(i) PROVE SsRest'
  <2>1. Len(ssTokens') = Len(ssTokens) /\ UNCHANGED <<ssReused, ssLost, ssRefreshing, ssReq>>
    BY <1>1, <1>8 DEF AccessExpires, historyVars
  <2> QED
    BY <1>1, <1>3, <2>1
<1>9. ASSUME NEW r \in SsReqs, RequestSend(r) PROVE SsRest'
  <2> DEFINE q == [ssReq[r] EXCEPT !.st = "sent", !.tok = ssStore]
  <2>1. ssReq' = [ssReq EXCEPT ![r] = q] /\ UNCHANGED <<ssTokens, ssReused, ssLost, ssRefreshing>>
    BY <1>9 DEF RequestSend, serverVars, historyVars
  <2>2. q \in Requests /\ q.tok = ssStore
    <3>1. ssReq[r] \in Requests
      BY <1>2
    <3>2. ssReq[r].on \in SsReqs \cup {SsNone} /\ ssStore \in Nat
      BY <1>1, <3>1 DEF Requests
    <3>3. q \in Requests
      BY <3>1, <3>2 DEF Requests
    <3>4. q.tok = ssStore
      BY <3>1 DEF Requests
    <3> QED
      BY <3>3, <3>4
  <2> HIDE DEF q
  <2> QED
    BY <1>1, <1>2, <1>4, <2>1, <2>2
<1>10. ASSUME NEW r \in SsReqs, RequestServe(r) PROVE SsRest'
  <2> DEFINE d == [ssReq[r] EXCEPT !.st = "denied"]
  <2>1. PICK q \in {Resting, d} :
          ssReq' = [ssReq EXCEPT ![r] = q] /\ UNCHANGED <<ssTokens, ssReused, ssLost, ssRefreshing>>
    BY <1>10 DEF RequestServe, serverVars, historyVars
  <2>2. q \in Requests /\ q.tok \in 0..Len(ssTokens)
    <3>1. ssReq[r] \in Requests /\ ssReq[r].tok \in 0..Len(ssTokens)
      BY <1>2
    <3>2. d \in Requests /\ d.tok \in 0..Len(ssTokens)
      BY <3>1 DEF Requests
    <3>3. Resting \in Requests /\ Resting.tok \in 0..Len(ssTokens)
      BY <1>1 DEF Resting, Requests
    <3> QED
      BY <3>2, <3>3
  <2> QED
    BY <1>2, <1>4, <2>1, <2>2
<1>11. ASSUME NEW r \in SsReqs, RefreshOnce(r) PROVE SsRest'
  <2> DEFINE w(k) == [ssReq[r] EXCEPT !.st = "waiting", !.on = k]
  <2>1. UNCHANGED <<ssTokens, ssReused, ssLost>> /\ ssRefreshing' \in SsReqs \cup {SsNone}
    BY <1>2, <1>11 DEF RefreshOnce, serverVars, historyVars
  <2>2. \/ ssReq' = [ssReq EXCEPT ![r] = Resting]
        \/ ssReq' = [ssReq EXCEPT ![r] = w(ssRefreshing)]
        \/ ssReq' = [ssReq EXCEPT ![r] = w(r)]
    BY <1>11 DEF RefreshOnce
  <2>3. ASSUME NEW k \in SsReqs \cup {SsNone} PROVE w(k) \in Requests /\ w(k).tok \in 0..Len(ssTokens)
    <3>1. ssReq[r] \in Requests /\ ssReq[r].tok \in 0..Len(ssTokens)
      BY <1>2
    <3> QED
      BY <3>1 DEF Requests
  <2>4. Resting \in Requests /\ Resting.tok \in 0..Len(ssTokens)
    BY <1>1 DEF Resting, Requests
  <2> HIDE DEF w
  <2>5. PICK q \in Requests : q.tok \in 0..Len(ssTokens) /\ ssReq' = [ssReq EXCEPT ![r] = q]
    BY <1>2, <2>2, <2>3, <2>4
  <2> QED
    BY <1>4, <2>1, <2>5
<1>12. ASSUME NEW k \in SsReqs, RefreshRead(k) PROVE SsRest'
  <2>1. /\ UNCHANGED <<ssReq, ssRefreshing, ssLost>>
        /\ ssReused' = (ssReused \/ ssTokens[ssFlight[k].tok].status = "used")
        /\ \/ ssTokens' = ssTokens
           \/ ssTokens' = Revoked(ssTokens, ssTokens[ssFlight[k].tok].sid) /\ ssFlight[k].st = "asked"
    BY <1>12 DEF RefreshRead
  <2>2. Len(ssTokens') = Len(ssTokens)
    <3>1. CASE ssTokens' # ssTokens
      <4>1. ssFlight[k].tok \in DOMAIN ssTokens
        BY <1>1, <2>1, <3>1 DEF SsInv, PageHoldsIssued
      <4>2. ssTokens[ssFlight[k].tok].sid \in Nat
        BY <4>1 DEF SsInv, TokensAreOpened
      <4> QED
        BY <1>1, <2>1, <3>1, <4>2, RevokedFacts
    <3> QED
      BY <3>1
  <2>3. ssReused' \in BOOLEAN
    BY <2>1
  <2> QED
    BY <1>2, <2>1, <2>2, <2>3 DEF SsRest
<1>13. ASSUME NEW k \in SsReqs, RefreshCommit(k) PROVE SsRest'
  <2> DEFINE i == ssFlight[k].tok
  <2>1. /\ UNCHANGED <<ssReq, ssRefreshing, ssReused, ssLost>> /\ ssFlight[k].st = "read"
        /\ \/ ssTokens' = ssTokens
           \/ ssTokens' = Issue([ssTokens EXCEPT ![i].status = "used"], ssTokens[i].sid)
    BY <1>13 DEF RefreshCommit, Rotate, historyVars
  <2>2. Len(ssTokens') \in Nat /\ Len(ssTokens) <= Len(ssTokens')
    <3>1. CASE ssTokens' # ssTokens
      <4>1. i \in DOMAIN ssTokens
        BY <1>1, <2>1 DEF SsInv, PageHoldsIssued
      <4>2. ssTokens[i].sid \in Nat /\ ssTokens[i] \in Token
        BY <1>1, <4>1 DEF SsInv, TokensAreOpened
      <4>3. [ssTokens[i] EXCEPT !.status = "used"] \in Token
        BY <4>2 DEF Token
      <4> DEFINE used == [ssTokens EXCEPT ![i].status = "used"]
      <4>4. used \in Seq(Token) /\ Len(used) = Len(ssTokens)
        BY <1>1, <4>1, <4>3
      <4>5. ssTokens' = Issue(used, ssTokens[i].sid)
        BY <2>1, <3>1
      <4> HIDE DEF used
      <4>6. Len(Issue(used, ssTokens[i].sid)) = Len(used) + 1
        BY <4>2, <4>4, IssueFacts
      <4> QED
        BY <1>1, <4>4, <4>5, <4>6
    <3> QED
      BY <1>1, <3>1
  <2> QED
    BY <1>3, <2>1, <2>2
<1>14. ASSUME NEW k \in SsReqs, RefreshLose(k) PROVE SsRest'
  BY <1>2, <1>14 DEF RefreshLose, SsRest, serverVars
<1>15. ASSUME NEW k \in SsReqs, RefreshAnswer(k) PROVE SsRest'
  <2> DEFINE replay == [st |-> "replayed", tok |-> ssFlight[k].new, on |-> SsNone]
  <2>1. /\ UNCHANGED <<ssTokens, ssReused, ssLost>> /\ ssRefreshing' \in {ssRefreshing, SsNone}
        /\ DOMAIN ssReq' = SsReqs /\ \A r \in SsReqs : ssReq'[r] \in {ssReq[r], replay, Resting}
        /\ ssReq' = [r \in SsReqs |-> ssReq'[r]]
    BY <1>15 DEF RefreshAnswer, serverVars, historyVars
  <2>2. /\ replay \in Requests /\ replay.tok \in 0..Len(ssTokens)
        /\ Resting \in Requests /\ Resting.tok \in 0..Len(ssTokens)
    BY <1>1 DEF Resting, Requests
  <2> HIDE DEF replay
  <2>3. \A r \in SsReqs : ssReq'[r] \in Requests /\ ssReq'[r].tok \in 0..Len(ssTokens)
    BY <1>2, <2>1, <2>2
  <2>4. ssReq' \in [SsReqs -> Requests]
    BY <2>1, <2>3
  <2> QED
    BY <1>2, <2>1, <2>3, <2>4 DEF SsRest
<1>16. CASE UNCHANGED sessionVars
  BY <1>16 DEF SsRest, sessionVars, serverVars, historyVars
<1> QED
  BY <1>5, <1>6, <1>7, <1>8, <1>9, <1>10, <1>11, <1>12, <1>13, <1>14, <1>15, <1>16 DEF SessionNext

\* The request keys: those handed out were generated, by the user's present intent or earlier.
RkRest ==
  /\ rkFront \in {"vue", "react"} /\ rkPage \in {"start", "dialog", "task"}
  /\ rkKeys \in Nat /\ rkKey \in 0..rkKeys /\ rkIntent \in 1..RkMaxIntents
  /\ rkVersion \in 1..RkMaxVersions
  /\ \A i \in DOMAIN rkTries : /\ rkTries[i].key \in 1..rkKeys /\ rkTries[i].intent \in 1..RkMaxIntents
                               /\ rkTries[i].target \in Targets

LEMMA TargetsHold ==
  ASSUME NEW k \in 0..RkMaxVersions, NEW b \in BOOLEAN PROVE <<k, b>> \in Targets
BY Zenon DEF Targets

LEMMA RkInitRest == RkInit => RkRest
<1> SUFFICES ASSUME RkInit PROVE RkRest
  OBVIOUS
<1>1. 1 \in 1..RkMaxIntents /\ 1 \in 1..RkMaxVersions
  BY RequestKeyAssumption
<1> QED
  BY <1>1 DEF RkInit, RkRest

LEMMA RkTypes == RkInv /\ RkRest => RkTypeOK
<1> SUFFICES ASSUME RkInv, RkRest PROVE RkTypeOK
  OBVIOUS
<1> DEFINE T == [key : 1..rkKeys, content : Contents, intent : 1..RkMaxIntents, gen : Nat, target : Targets,
                 client : {"waiting", "told", "refused", "gaveUp"},
                 server : {"out", "bound", "tran", "ok", "no", "never"}]
           E == [key : 1..rkKeys, content : Contents, intent : 1..RkMaxIntents,
                 target : Targets, try : DOMAIN rkTries]
<1>1. /\ rkTries \in Seq(Try) /\ rkBusy \in BOOLEAN /\ rkContent \in Contents /\ rkGen \in Nat
      /\ EffectsAreTries
  BY DEF RkInv, Shape, ServerInv
<1>2. ASSUME NEW i \in DOMAIN rkTries PROVE rkTries[i] \in T /\ rkTries[i].content \in Contents
  <2>1. rkTries[i] \in Try /\ rkTries[i].key \in 1..rkKeys /\ rkTries[i].intent \in 1..RkMaxIntents
        /\ rkTries[i].target \in Targets
    BY <1>1 DEF RkRest
  <2> QED
    BY <2>1 DEF Try, ServerState
<1>3. rkTries \in Seq(T)
  <2> HIDE DEF T
  <2>1. Len(rkTries) \in Nat /\ DOMAIN rkTries = 1..Len(rkTries) /\ rkTries = [i \in 1..Len(rkTries) |-> rkTries[i]]
    BY <1>1
  <2> QED
    BY <1>2, <2>1
<1>4. ASSUME NEW e \in rkEffects PROVE e \in E
  <2>1. /\ e.try \in DOMAIN rkTries
        /\ e = [key |-> rkTries[e.try].key, content |-> rkTries[e.try].content,
                intent |-> rkTries[e.try].intent, target |-> rkTries[e.try].target, try |-> e.try]
    BY <1>1 DEF EffectsAreTries
  <2>2. rkTries[e.try].key \in 1..rkKeys /\ rkTries[e.try].intent \in 1..RkMaxIntents
        /\ rkTries[e.try].content \in Contents /\ rkTries[e.try].target \in Targets
    BY <1>2, <2>1 DEF RkRest
  <2> QED
    BY <2>1, <2>2
<1> QED
  BY <1>1, <1>3, <1>4 DEF RkRest, RkTypeOK

LEMMA RkKeepsRest == RkInv /\ RkRest /\ [RkNext]_rkVars => RkRest'
<1> SUFFICES ASSUME RkInv, RkRest, [RkNext]_rkVars PROVE RkRest'
  OBVIOUS
<1>1. /\ rkFront \in {"vue", "react"} /\ rkPage \in {"start", "dialog", "task"}
      /\ rkKeys \in Nat /\ rkKey \in 0..rkKeys /\ rkIntent \in 1..RkMaxIntents
      /\ rkVersion \in 1..RkMaxVersions
      /\ \A i \in DOMAIN rkTries : /\ rkTries[i].key \in 1..rkKeys /\ rkTries[i].intent \in 1..RkMaxIntents
                                   /\ rkTries[i].target \in Targets
      /\ RkMaxIntents \in Nat /\ RkMaxVersions \in Nat
  BY RequestKeyAssumption DEF RkRest
<1>2. rkTries \in Seq(Try) /\ DOMAIN rkTries = 1..Len(rkTries) /\ Len(rkTries) \in Nat
  BY DEF RkInv, Shape
<1>3. NewIntent => rkIntent' \in 1..RkMaxIntents
  BY <1>1 DEF NewIntent
<1>4. ASSUME NEW i \in DOMAIN rkTries, NEW r, rkTries' = [rkTries EXCEPT ![i] = r],
             r.key = rkTries[i].key, r.intent = rkTries[i].intent, r.target \in Targets,
             UNCHANGED <<rkFront, rkPage, rkKeys, rkVersion>>, rkKey' \in 0..rkKeys, rkIntent' \in 1..RkMaxIntents
      PROVE  RkRest'
  <2>1. DOMAIN rkTries' = DOMAIN rkTries
        /\ \A j \in DOMAIN rkTries : /\ rkTries'[j].key = rkTries[j].key
                                     /\ rkTries'[j].intent = rkTries[j].intent
                                     /\ rkTries'[j].target \in Targets
    BY <1>1, <1>2, <1>4
  <2> QED
    BY <1>1, <1>4, <2>1 DEF RkRest
<1>5. CASE RkEdit \/ RkOpen \/ RkSwitch
  <2>1. /\ UNCHANGED <<rkFront, rkPage, rkKeys, rkTries, rkVersion>> /\ NewIntent /\ (rkKey' = rkKey \/ rkKey' = 0)
    BY <1>5 DEF RkEdit, RkOpen, RkSwitch
  <2>2. rkKey' \in 0..rkKeys
    BY <1>1, <2>1
  <2> QED
    BY <1>1, <1>3, <2>1, <2>2 DEF RkRest
<1>6. CASE RkSubmit
  <2> DEFINE new == [key |-> rkKey', content |-> rkContent, intent |-> rkIntent,
                     gen |-> rkGen, target |-> Unresolved, client |-> "waiting", server |-> "out"]
  <2>1. /\ UNCHANGED <<rkFront, rkPage, rkIntent, rkVersion>> /\ rkTries' = Append(rkTries, new)
        /\ rkKeys' = IF rkKey = 0 THEN rkKeys + 1 ELSE rkKeys
        /\ rkKey' = IF rkKey = 0 THEN rkKeys + 1 ELSE rkKey
    BY <1>6 DEF RkSubmit
  <2>2. rkKeys' \in Nat /\ rkKeys <= rkKeys' /\ rkKey' \in 1..rkKeys'
    BY <1>1, <2>1
  <2>3. new.key = rkKey' /\ new.intent = rkIntent /\ new.target \in Targets
    <3>1. 0 \in 0..RkMaxVersions /\ FALSE \in BOOLEAN
      BY <1>1
    <3>2. Unresolved \in Targets
      BY <3>1, TargetsHold, Zenon DEF Unresolved
    <3> QED
      BY <3>2
  <2> HIDE DEF new
  <2>4. DOMAIN rkTries' = 1..(Len(rkTries) + 1) /\ rkTries'[Len(rkTries) + 1] = new
        /\ \A i \in DOMAIN rkTries : rkTries'[i] = rkTries[i]
    BY <1>2, <2>1
  <2>5. ASSUME NEW i \in DOMAIN rkTries'
        PROVE  /\ rkTries'[i].key \in 1..rkKeys' /\ rkTries'[i].intent \in 1..RkMaxIntents
               /\ rkTries'[i].target \in Targets
    <3>1. CASE i \in DOMAIN rkTries
      BY <1>1, <2>2, <2>4, <3>1
    <3>2. CASE i = Len(rkTries) + 1
      BY <1>1, <2>2, <2>3, <2>4, <3>2
    <3> QED
      BY <1>2, <2>4, <3>1, <3>2
  <2> QED
    BY <1>1, <2>1, <2>2, <2>5 DEF RkRest
<1>7. ASSUME NEW i \in DOMAIN rkTries,
             \/ RkServeBegin(i) \/ RkLoseRequest(i)
             \/ \E refused \in BOOLEAN : RkResolve(i, refused)
             \/ \E committed \in BOOLEAN : RkServeEnd(i, committed)
      PROVE  RkRest'
  <2>1. /\ UNCHANGED <<rkFront, rkPage, rkKey, rkKeys, rkVersion, rkIntent>>
        /\ \E s : \E t \in {rkTries[i].target, TargetOf(rkTries[i].content)} :
             rkTries' = [rkTries EXCEPT ![i] = [rkTries[i] EXCEPT !.target = t, !.server = s]]
    <3>1. rkTries[i] \in Try
      BY <1>2
    <3>2. \A s : [rkTries[i] EXCEPT !.server = s] = [rkTries[i] EXCEPT !.target = rkTries[i].target, !.server = s]
      BY <3>1 DEF Try
    <3>3. CASE RkServeBegin(i) \/ RkLoseRequest(i) \/ \E committed \in BOOLEAN : RkServeEnd(i, committed)
      <4>1. /\ UNCHANGED <<rkFront, rkPage, rkKey, rkKeys, rkVersion, rkIntent>>
            /\ \E s : rkTries' = [rkTries EXCEPT ![i] = [rkTries[i] EXCEPT !.server = s]]
        BY <3>3 DEF RkServeBegin, TryBegin, RkLoseRequest, RkServeEnd
      <4> QED
        BY <3>2, <4>1
    <3>4. CASE \E refused \in BOOLEAN : RkResolve(i, refused)
      BY <3>4 DEF RkResolve
    <3> QED
      BY <1>7, <3>3, <3>4
  <2>2. PICK s : \E t \in {rkTries[i].target, TargetOf(rkTries[i].content)} :
          rkTries' = [rkTries EXCEPT ![i] = [rkTries[i] EXCEPT !.target = t, !.server = s]]
    BY <2>1, Zenon
  <2>7. PICK t \in {rkTries[i].target, TargetOf(rkTries[i].content)} :
          rkTries' = [rkTries EXCEPT ![i] = [rkTries[i] EXCEPT !.target = t, !.server = s]]
    BY <2>2, Zenon
  <2>3. rkTries[i] \in Try
    BY <1>2
  <2>4. t \in Targets
    <3>1. rkVersion \in 0..RkMaxVersions
      BY <1>1
    <3>2. (rkTries[i].content = 3) \in BOOLEAN
      OBVIOUS
    <3>3. TargetOf(rkTries[i].content) \in Targets
      BY <3>1, <3>2, TargetsHold, Zenon DEF TargetOf
    <3> QED
      BY <1>1, <2>7, <3>3
  <2> DEFINE r == [rkTries[i] EXCEPT !.target = t, !.server = s]
  <2>5. r.key = rkTries[i].key /\ r.intent = rkTries[i].intent /\ r.target = t
    BY <2>3 DEF Try
  <2>6. rkTries' = [rkTries EXCEPT ![i] = r]
    BY <2>7
  <2> HIDE DEF r
  <2> QED
    BY <1>1, <1>4, <2>1, <2>4, <2>5, <2>6
<1>8. ASSUME NEW i \in DOMAIN rkTries, RkAnswer(i) \/ RkGiveUp(i) PROVE RkRest'
  <2>1. PICK outcome : RkSettled(i, outcome) /\ (NewIntent \/ rkIntent' = rkIntent)
    BY <1>8 DEF RkAnswer, RkGiveUp
  <2> DEFINE r == [rkTries[i] EXCEPT !.client = outcome]
  <2>2. /\ UNCHANGED <<rkFront, rkPage, rkKeys, rkVersion>> /\ (rkKey' = 0 \/ rkKey' = rkKey)
        /\ rkTries' = [rkTries EXCEPT ![i] = r]
    BY <2>1 DEF RkSettled, Settle
  <2>3. rkTries[i] \in Try
    BY <1>2
  <2>4. r.key = rkTries[i].key /\ r.intent = rkTries[i].intent /\ r.target \in Targets
    BY <1>1, <2>3 DEF Try
  <2> HIDE DEF r
  <2>5. rkKey' \in 0..rkKeys /\ rkIntent' \in 1..RkMaxIntents
    BY <1>1, <1>3, <2>1, <2>2
  <2> QED
    BY <1>4, <2>2, <2>4, <2>5
<1>9. CASE UNCHANGED rkVars
  BY <1>9 DEF RkRest, rkVars
<1>10. CASE RkPublish
  <2>1. /\ UNCHANGED <<rkFront, rkPage, rkKey, rkKeys, rkTries, rkIntent>>
        /\ rkVersion' = rkVersion + 1 /\ rkVersion < RkMaxVersions
    BY <1>10 DEF RkPublish
  <2> QED
    BY <1>1, <2>1 DEF RkRest
<1> QED
  BY <1>5, <1>6, <1>7, <1>8, <1>9, <1>10 DEF RkNext

(***************************************************************************)
(* The console. A step of it is a step of the part in focus, and each part *)
(* goes by its own specification; the dictionary cache alone serves two,   *)
(* the selects of other pages and the dictionary page.                     *)
(***************************************************************************)
consoleVars == <<focus, dictVars, pageVars, pollVars, rtVars, tabsVars, cuVars, loginVars, wfVars,
                 sessionVars, rkVars>>

PartSteps ==
  /\ focus' = focus
  /\ focus = "dictPage" => [DictPageNext]_dictPageVars
  /\ focus # "dictPage" => [DictNext]_dictVars /\ UNCHANGED pageVars
  /\ [PollNext]_pollVars /\ [RtNext]_rtVars /\ [TabsNext]_tabsVars /\ [CuNext]_cuVars
  /\ [LpNext]_loginVars /\ [WfNext]_wfVars /\ [SessionNext]_sessionVars /\ [RkNext]_rkVars

LEMMA StepIsOfPart == [ConsoleNext]_consoleVars => PartSteps
<1> SUFFICES ASSUME [ConsoleNext]_consoleVars PROVE PartSteps
  OBVIOUS
<1>1. CASE Others("dict") /\ DictNext
  BY <1>1 DEF Others, PartSteps
<1>2. CASE Others("dictPage") /\ DictPageNext
  BY <1>2 DEF Others, PartSteps
<1>3. CASE Others("poller") /\ PollNext
  BY <1>3 DEF Others, PartSteps
<1>4. CASE Others("realtime") /\ RtNext
  BY <1>4 DEF Others, PartSteps
<1>5. CASE Others("tabs") /\ TabsNext
  BY <1>5 DEF Others, PartSteps
<1>6. CASE Others("upload") /\ CuNext
  BY <1>6 DEF Others, PartSteps
<1>7. CASE Others("login") /\ LpNext
  BY <1>7 DEF Others, PartSteps
<1>8. CASE Others("designer") /\ WfNext
  BY <1>8 DEF Others, PartSteps
<1>9. CASE Others("session") /\ SessionNext
  BY <1>9 DEF Others, PartSteps
<1>10. CASE Others("key") /\ RkNext
  BY <1>10 DEF Others, PartSteps
<1>11. CASE UNCHANGED consoleVars
  BY <1>11 DEF consoleVars, dictPageVars, PartSteps
<1> QED
  BY <1>1, <1>2, <1>3, <1>4, <1>5, <1>6, <1>7, <1>8, <1>9, <1>10, <1>11 DEF ConsoleNext

\* The dictionary page has not been opened.
PageRests == pSel = DictNone /\ pSaved = [t \in DictTypes |-> 0]

ConsoleInv ==
  /\ focus = "dictPage" => PageInv
  /\ focus # "dictPage" => DictInv /\ PageRests
  /\ PollInv /\ RtInv /\ RtTypeOK /\ TabsInv /\ CuInv /\ LpInv /\ LpRest /\ WfInv
  /\ ReuseInv /\ SsRest /\ RkInv /\ RkRest

LEMMA ConsoleInitInv == ConsoleInit => ConsoleInv
<1> SUFFICES ASSUME ConsoleInit PROVE ConsoleInv
  OBVIOUS
<1>1. /\ DictPageInit /\ PollInit /\ RtInit /\ TabsInit /\ CuInit /\ LpInit /\ WfInit
      /\ SessionInit /\ RkInit
  BY DEF ConsoleInit
<1>2. PageInv /\ DictInv /\ PageRests
  BY <1>1, PageInitInv, DictInitInv DEF DictPageInit, PageRests
<1>3. PollInv /\ RtInv /\ RtTypeOK /\ TabsInv /\ CuInv
  BY <1>1, PollInitInv, RtInitInv, RtInitTypes, TabsInitInv, CuInitInv
<1>4. LpInv /\ LpRest /\ WfInv /\ ReuseInv /\ SsRest /\ RkInv /\ RkRest
  BY <1>1, LpInitInv, LpInitRest, WfInitInv, ReuseInit, SsInitRest, RkInitInv, RkInitRest
<1> QED
  BY <1>2, <1>3, <1>4 DEF ConsoleInv

LEMMA ConsoleNextInv == ConsoleInv /\ [ConsoleNext]_consoleVars => ConsoleInv'
<1> SUFFICES ASSUME ConsoleInv, PartSteps PROVE ConsoleInv'
  BY StepIsOfPart
<1>1. focus' = focus
  BY DEF PartSteps
<1>2. focus = "dictPage" => PageInv'
  BY PageNextInv DEF ConsoleInv, PartSteps
<1>3. focus # "dictPage" => DictInv' /\ PageRests'
  <2> SUFFICES ASSUME focus # "dictPage" PROVE DictInv' /\ PageRests'
    OBVIOUS
  <2>1. DictInv /\ PageRests /\ [DictNext]_dictVars /\ UNCHANGED pageVars
    BY DEF ConsoleInv, PartSteps
  <2>2. DictInv'
    BY <2>1, DictNextInv
  <2>3. PageRests'
    BY <2>1 DEF PageRests, pageVars
  <2> QED
    BY <2>2, <2>3
<1>4. PollInv' /\ TabsInv' /\ CuInv'
  BY PollNextInv, TabsNextInv, CuNextInv DEF ConsoleInv, PartSteps
<1>5. RtInv' /\ RtTypeOK'
  BY RtNextInv, RtKeepsTypes DEF ConsoleInv, PartSteps
<1>6. LpInv' /\ LpRest' /\ WfInv'
  BY LpNextInv, LpKeepsRest, WfNextInv DEF ConsoleInv, PartSteps
<1>7. ReuseInv' /\ SsRest'
  BY ReuseStep, SsKeepsRest DEF ConsoleInv, PartSteps, ReuseInv
<1>8. RkInv' /\ RkRest'
  BY RkNextInv, RkKeepsRest DEF ConsoleInv, PartSteps
<1> QED
  BY <1>1, <1>2, <1>3, <1>4, <1>5, <1>6, <1>7, <1>8 DEF ConsoleInv

LEMMA ConsoleInvariant == ConsoleInit /\ [][ConsoleNext]_consoleVars => []ConsoleInv
BY ConsoleInitInv, ConsoleNextInv, PTL

(* Whatever the parts of the console do, the state of each keeps its type    *)
(* and the relations between its variables that make it a state of the       *)
(* program.                                                                  *)
THEOREM ConsoleKeepsTypes == ConsoleInit /\ [][ConsoleNext]_consoleVars => []ConsoleTypeOK
<1>1. ConsoleInv => ConsoleTypeOK
  <2> SUFFICES ASSUME ConsoleInv PROVE ConsoleTypeOK
    OBVIOUS
  <2>1. DictTypeOK
    BY DEF ConsoleInv, PageInv, DictInv
  <2>2. PollTypeOK /\ RtTypeOK /\ TabsTypeOK
    BY DEF ConsoleInv, PollInv, TabsInv
  <2>3. CuTypeOK /\ LpTypeOK /\ WfTypeOK
    BY CuTypes, LpTypes, WfTypes DEF ConsoleInv
  <2>4. SsTypeOK /\ RkTypeOK
    BY SsTypes, RkTypes DEF ConsoleInv, ReuseInv
  <2> QED
    BY <2>1, <2>2, <2>3, <2>4 DEF ConsoleTypeOK
<1> QED
  BY <1>1, ConsoleInvariant, PTL

(* What the theorems promise of each part alone holds of the console as a    *)
(* whole: no part can break what another one promises.                       *)
ConsoleSafe ==
  /\ DictCacheIsFresh /\ DictJoinIsFresh /\ PageTableIsCurrent /\ EditReachesCache
  /\ PollSerial /\ RtNoLeak /\ RtVoluntaryIsSilent /\ TabsCurrentShown
  /\ CuSendsWhatIsMissing /\ LoginOnce
  /\ WfEditsKeepTree /\ WfServerAgrees /\ WfEngineFollowsDrawing
  /\ SsNoSelfReuse /\ SsRevokedIsDead /\ RkOncePerIntent /\ RkSuccessIsTrue

(* Every promise of every part holds in every state of the console, whatever *)
(* the requests, timers and clicks of the other parts do in between.         *)
THEOREM ConsoleKeepsPromises == ConsoleInit /\ [][ConsoleNext]_consoleVars => []ConsoleSafe
<1>1. ConsoleInv => ConsoleSafe
  <2> SUFFICES ASSUME ConsoleInv PROVE ConsoleSafe
    OBVIOUS
  <2>1. DictInv
    BY DEF ConsoleInv, PageInv
  <2>2. DictCacheIsFresh
    BY <2>1 DEF DictInv
  <2>3. DictJoinIsFresh
    BY <2>1 DEF DictInv, DictJoinIsFresh, AnswerIsWanted, PendingIsFresh, Answered, Alive
  <2>4. PageTableIsCurrent /\ EditReachesCache
    <3>1. CASE focus = "dictPage"
      <4>1. PageInv
        BY <3>1 DEF ConsoleInv
      <4> QED
        BY <4>1, PageReachesCache DEF PageInv
    <3>2. CASE focus # "dictPage"
      <4>1. PageRests /\ \A t \in DictTypes : dCache[t] \in Nat
        BY <2>1, <3>2 DEF ConsoleInv, DictInv, DictTypeOK
      <4>2. \A t \in DictTypes : dCache[t] >= pSaved[t]
        BY <4>1 DEF PageRests
      <4> QED
        BY <4>1, <4>2 DEF PageRests, PageTableIsCurrent, EditReachesCache
    <3> QED
      BY <3>1, <3>2
  <2>5. PollSerial /\ RtNoLeak /\ RtVoluntaryIsSilent /\ TabsCurrentShown
    BY PollInvIsSerial DEF ConsoleInv, RtInv, TabsInv
  <2>6. CuSendsWhatIsMissing /\ LoginOnce
    BY CuSendsMissing, LpIsOnce DEF ConsoleInv
  <2>7. WfEditsKeepTree
    BY WfInvKeepsTree DEF ConsoleInv
  <2>8. WfServerAgrees /\ WfEngineFollowsDrawing
    BY ValidationsAgree, EngineFollows DEF ConsoleInv, WfInv, WfServerAgrees, WfEngineFollowsDrawing
  <2>9. SsNoSelfReuse /\ SsRevokedIsDead
    BY DEF ConsoleInv, ReuseInv, SsInv, NoReuse, SsNoSelfReuse
  <2>10. RkOncePerIntent
    BY RkInvOnce DEF ConsoleInv
  <2>11. RkSuccessIsTrue
    BY DEF ConsoleInv, RkInv, ServerInv, OkIsTrue, ToldIsOk, RkSuccessIsTrue
  <2> QED
    BY <2>2, <2>3, <2>4, <2>5, <2>6, <2>7, <2>8, <2>9, <2>10, <2>11 DEF ConsoleSafe
<1> QED
  BY <1>1, ConsoleInvariant, PTL
==============================================================================
