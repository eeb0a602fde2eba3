---------------------------- MODULE ClientSession ----------------------------
(***************************************************************************)
(* The session of one console page against the session service: requests   *)
(* answered 401, the refresh they share (api/client), the store of tokens  *)
(* (stores/user), and on the server the rotation of refresh tokens, the    *)
(* detection of a token presented twice, and revocation (SessionService).  *)
(*                                                                         *)
(* A token number stands for the pair of access and refresh token issued   *)
(* together. A refresh reads the token's row, and later commits in one     *)
(* transaction; a revocation may come in between.                          *)
(***************************************************************************)
EXTENDS Naturals, Sequences

CONSTANTS SsReqs,        \* requests that may be in flight together
          SsNone,        \* no refresh is under way
          SsMaxTokens,   \* bound of the pairs issued
          SsMaxLogins    \* bound of the logins

ASSUME SessionAssumption == SsNone \notin SsReqs /\ {SsMaxTokens, SsMaxLogins} \subseteq Nat

VARIABLES ssTokens,      \* the pairs issued: session, refresh status, access still valid
          ssRevoked,     \* sessions revoked
          ssLogins,      \* sessions opened
          ssStore,       \* the pair in the page's store, 0 for none
          ssReq,         \* the requests, and the refresh each one waits for
          ssFlight,      \* refresh begun by a request: pair presented and pair answered
          ssRefreshing,  \* client: the shared promise
          ssReused,      \* history: a used refresh token was presented
          ssLost         \* history: the answer of a refresh was lost

serverVars  == <<ssTokens, ssRevoked, ssLogins>>
historyVars == <<ssReused, ssLost>>
sessionVars == <<serverVars, ssStore, ssReq, ssFlight, ssRefreshing, historyVars>>

Quiet == [st |-> "none", tok |-> 0, new |-> 0]
Resting == [st |-> "idle", tok |-> 0, on |-> SsNone]

SsTypeOK ==
  /\ ssTokens \in Seq([sid : Nat, status : {"active", "used", "revoked"}, valid : BOOLEAN])
  /\ ssRevoked \subseteq 1..ssLogins /\ ssLogins \in Nat
  /\ ssStore \in 0..Len(ssTokens) /\ ssRefreshing \in SsReqs \cup {SsNone}
  /\ ssReq \in [SsReqs -> [st : {"idle", "sent", "denied", "waiting", "replayed"},
                           tok : 0..Len(ssTokens), on : SsReqs \cup {SsNone}]]
  /\ ssFlight \in [SsReqs -> [st : {"none", "asked", "read", "yes", "no", "error"},
                              tok : 0..Len(ssTokens), new : 0..Len(ssTokens)]]
  /\ ssReused \in BOOLEAN /\ ssLost \in BOOLEAN

SessionInit ==
  /\ ssTokens = <<>> /\ ssRevoked = {} /\ ssLogins = 0 /\ ssStore = 0
  /\ ssReq = [r \in SsReqs |-> Resting]
  /\ ssFlight = [r \in SsReqs |-> Quiet] /\ ssRefreshing = SsNone
  /\ ssReused = FALSE /\ ssLost = FALSE

Issue(tokens, sid) == Append(tokens, [sid |-> sid, status |-> "active", valid |-> TRUE])
IsActive(sid) == sid \notin ssRevoked

\* OpenAsync, and the client's setSession with its answer.
SessionLogin ==
  /\ ssStore = 0 /\ ssLogins < SsMaxLogins /\ Len(ssTokens) < SsMaxTokens
  /\ ssLogins' = ssLogins + 1
  /\ ssTokens' = Issue(ssTokens, ssLogins + 1)
  /\ ssStore' = Len(ssTokens) + 1
  /\ UNCHANGED <<ssRevoked, ssReq, ssFlight, ssRefreshing, historyVars>>

\* RevokeAsync: session and active refresh tokens in one transaction.
Revoked(tokens, sid) ==
  [i \in DOMAIN tokens |->
     IF tokens[i].sid = sid /\ tokens[i].status = "active"
     THEN [tokens[i] EXCEPT !.status = "revoked"] ELSE tokens[i]]

\* A logout request, a forced logout, the limit of sessions per user.
SessionRevoke(sid) ==
  /\ sid \in 1..ssLogins /\ IsActive(sid)
  /\ ssRevoked' = ssRevoked \cup {sid}
  /\ ssTokens' = Revoked(ssTokens, sid)
  /\ UNCHANGED <<ssLogins, ssStore, ssReq, ssFlight, ssRefreshing, historyVars>>

AccessExpires(i) ==
  /\ ssTokens[i].valid
  /\ ssTokens' = [ssTokens EXCEPT ![i].valid = FALSE]
  /\ UNCHANGED <<ssRevoked, ssLogins, ssStore, ssReq, ssFlight, ssRefreshing, historyVars>>

\* The page's logout ends with clear, whatever became of its request.
PageClear ==
  /\ ssStore # 0 /\ ssStore' = 0
  /\ UNCHANGED <<serverVars, ssReq, ssFlight, ssRefreshing, historyVars>>

RequestSend(r) ==
  /\ ssStore # 0 /\ ssReq[r].st = "idle"
  /\ ssReq' = [ssReq EXCEPT ![r].st = "sent", ![r].tok = ssStore]
  /\ UNCHANGED <<serverVars, ssStore, ssFlight, ssRefreshing, historyVars>>

\* A replay that is refused again is given to its caller as it is.
RequestServe(r) ==
  /\ ssReq[r].st \in {"sent", "replayed"}
  /\ LET t == ssTokens[ssReq[r].tok]
     IN ssReq' = [ssReq EXCEPT ![r] = IF ssReq[r].st = "replayed" \/ (t.valid /\ IsActive(t.sid))
                                      THEN Resting ELSE [@ EXCEPT !.st = "denied"]]
  /\ UNCHANGED <<serverVars, ssStore, ssFlight, ssRefreshing, historyVars>>

\* Mutant of RefreshOnce: every 401 begins a refresh of its own.
RefreshOnceMutant(r) ==
  /\ ssReq[r].st = "denied" /\ ssStore # 0
  /\ ssReq' = [ssReq EXCEPT ![r].st = "waiting", ![r].on = r]
  /\ ssFlight' = [ssFlight EXCEPT ![r] = [st |-> "asked", tok |-> ssStore, new |-> 0]]
  /\ UNCHANGED <<serverVars, ssStore, ssRefreshing, historyVars>>

\* The 401 reaches refreshOnce: begin a refresh, join the one under way, or give up.
RefreshOnce(r) ==
  /\ ssReq[r].st = "denied"
  /\ IF ssRefreshing # SsNone
     THEN /\ ssReq' = [ssReq EXCEPT ![r].st = "waiting", ![r].on = ssRefreshing]
          /\ UNCHANGED <<ssFlight, ssRefreshing>>
     ELSE IF ssStore = 0
     THEN ssReq' = [ssReq EXCEPT ![r] = Resting] /\ UNCHANGED <<ssFlight, ssRefreshing>>
     ELSE /\ ssReq' = [ssReq EXCEPT ![r].st = "waiting", ![r].on = r]
          /\ ssFlight' = [ssFlight EXCEPT ![r] = [st |-> "asked", tok |-> ssStore, new |-> 0]]
          /\ ssRefreshing' = r
  /\ UNCHANGED <<serverVars, ssStore, historyVars>>

\* RefreshAsync up to its transaction; a used token revokes its whole session.
RefreshRead(k) ==
  /\ ssFlight[k].st = "asked"
  /\ LET t == ssTokens[ssFlight[k].tok]
     IN /\ ssFlight' = [ssFlight EXCEPT ![k].st =
                          IF t.status = "active" /\ IsActive(t.sid) THEN "read" ELSE "no"]
        /\ ssReused' = (ssReused \/ t.status = "used")
        /\ IF t.status = "used" /\ IsActive(t.sid)
           THEN ssRevoked' = ssRevoked \cup {t.sid} /\ ssTokens' = Revoked(ssTokens, t.sid)
           ELSE UNCHANGED <<ssRevoked, ssTokens>>
  /\ UNCHANGED <<ssLogins, ssStore, ssReq, ssRefreshing, ssLost>>

\* Its transaction: renew the session, use the token up, insert the next.
Rotate(k, allowed) ==
  LET i == ssFlight[k].tok
  IN /\ ssFlight[k].st = "read" /\ (allowed => Len(ssTokens) < SsMaxTokens)
     /\ IF allowed
        THEN /\ ssTokens' = Issue([ssTokens EXCEPT ![i].status = "used"], ssTokens[i].sid)
             /\ ssFlight' = [ssFlight EXCEPT ![k].st = "yes", ![k].new = Len(ssTokens) + 1]
        ELSE ssFlight' = [ssFlight EXCEPT ![k].st = "no"] /\ UNCHANGED ssTokens
     /\ UNCHANGED <<ssRevoked, ssLogins, ssStore, ssReq, ssRefreshing, historyVars>>

\* Mutant of RefreshCommit: the transaction relies on what was read before it.
RefreshCommitMutant(k) == Rotate(k, TRUE)

RefreshCommit(k) ==
  Rotate(k, ssTokens[ssFlight[k].tok].status = "active" /\ IsActive(ssTokens[ssFlight[k].tok].sid))

RefreshLose(k) ==
  /\ ssFlight[k].st \in {"asked", "read", "yes", "no"}
  /\ ssFlight' = [ssFlight EXCEPT ![k].st = "error"] /\ ssLost' = TRUE
  /\ UNCHANGED <<serverVars, ssStore, ssReq, ssRefreshing, ssReused>>

\* doRefresh after its await, `.finally', and the requests that waited: they
\* are replayed with the new token, or end and log the page out, or just end.
RefreshAnswer(k) ==
  LET f == ssFlight[k]
      waiting == {r \in SsReqs : ssReq[r].st = "waiting" /\ ssReq[r].on = k}
  IN /\ f.st \in {"yes", "no", "error"}
     /\ ssFlight' = [ssFlight EXCEPT ![k] = Quiet]
     /\ ssRefreshing' = IF ssRefreshing = k THEN SsNone ELSE ssRefreshing
     /\ ssStore' = CASE f.st = "yes" -> f.new [] f.st = "no" -> 0 [] OTHER -> ssStore
     /\ ssReq' = [r \in SsReqs |->
                    CASE r \notin waiting -> ssReq[r]
                      [] r \in waiting /\ f.st = "yes" -> [st |-> "replayed", tok |-> f.new, on |-> SsNone]
                      [] OTHER -> Resting]
     /\ UNCHANGED <<serverVars, historyVars>>

SessionNext ==
  \/ SessionLogin \/ PageClear
  \/ \E sid \in 1..ssLogins : SessionRevoke(sid)
  \/ \E i \in DOMAIN ssTokens : AccessExpires(i)
  \/ \E r \in SsReqs : RequestSend(r) \/ RequestServe(r) \/ RefreshOnce(r)
  \/ \E k \in SsReqs : RefreshRead(k) \/ RefreshCommit(k) \/ RefreshLose(k) \/ RefreshAnswer(k)

SessionSpec == SessionInit /\ [][SessionNext]_sessionVars

------------------------------------------------------------------------------
(* The page never gets its own session revoked by presenting a refresh      *)
(* token twice, however many of its requests are answered 401 and however   *)
(* late; only an answer lost after the rotation can do that.                *)
SsNoSelfReuse == ssReused => ssLost

(* A refresh that overlaps a revocation never leaves the revoked session a  *)
(* refresh token that still works, nor gives a session two of them.         *)
SsRevokedIsDead ==
  \A i \in DOMAIN ssTokens : ssTokens[i].status = "active" =>
    /\ IsActive(ssTokens[i].sid)
    /\ \A j \in DOMAIN ssTokens : ssTokens[j].status = "active" /\ ssTokens[j].sid = ssTokens[i].sid => j = i
==============================================================================
