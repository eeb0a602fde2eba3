----------------------------- MODULE HttpProofs ------------------------------
(***************************************************************************)
(* What the console's HTTP client and its request keys promise, for any    *)
(* number of requests, logins, tokens, submissions and intents.            *)
(***************************************************************************)
EXTENDS ClientSession, RequestKey, TLAPS

(***************************************************************************)
(* The session. A revoked session has no refresh token that works. The     *)
(* transaction of a rotation uses up the one active token of its session   *)
(* before it issues the next, and finds the session revoked when a         *)
(* revocation has come first.                                              *)
(***************************************************************************)
Token   == [sid : Nat, status : {"active", "used", "revoked"}, valid : BOOLEAN]
Flights == {"none", "asked", "read", "yes", "no", "error"}

\* What is on the server: a token belongs to a session that was opened.
TokensAreOpened ==
  /\ ssTokens \in Seq(Token) /\ ssLogins \in Nat /\ ssRevoked \subseteq 1..ssLogins
  /\ \A i \in DOMAIN ssTokens : ssTokens[i].sid \in 1..ssLogins

\* What the page holds and what its refreshes present and bring was issued.
PageHoldsIssued ==
  /\ ssStore \in 0..Len(ssTokens)
  /\ ssFlight \in [SsReqs -> [st : Flights, tok : Nat, new : Nat]]
  /\ \A k \in SsReqs :
       /\ ssFlight[k].tok \in 0..Len(ssTokens) /\ ssFlight[k].new \in 0..Len(ssTokens)
       /\ ssFlight[k].st \in {"asked", "read"} => ssFlight[k].tok # 0

SsInv == TokensAreOpened /\ PageHoldsIssued /\ SsRevokedIsDead

LEMMA SessionInitInv == SessionInit => SsInv
<1> SUFFICES ASSUME SessionInit PROVE SsInv
  OBVIOUS
<1>1. TokensAreOpened
  BY DEF SessionInit, TokensAreOpened
<1>2. PageHoldsIssued
  BY DEF SessionInit, PageHoldsIssued, Quiet, Flights
<1>3. SsRevokedIsDead
  BY DEF SessionInit, SsRevokedIsDead
<1>4. QED BY <1>1, <1>2, <1>3 DEF SsInv

LEMMA IssueFacts ==
  ASSUME NEW tokens \in Seq(Token), NEW sid \in Nat
  PROVE  /\ Issue(tokens, sid) \in Seq(Token) /\ Len(Issue(tokens, sid)) = Len(tokens) + 1
         /\ DOMAIN Issue(tokens, sid) = 1..(Len(tokens) + 1)
         /\ \A i \in 1..Len(tokens) : Issue(tokens, sid)[i] = tokens[i]
         /\ Issue(tokens, sid)[Len(tokens) + 1] = [sid |-> sid, status |-> "active", valid |-> TRUE]
<1> DEFINE t == [sid |-> sid, status |-> "active", valid |-> TRUE]
<1>1. t \in Token
  BY DEF Token
<1>2. Issue(tokens, sid) = Append(tokens, t)
  BY DEF Issue
<1>3. QED BY <1>1, <1>2

LEMMA RevokedFacts ==
  ASSUME NEW tokens \in Seq(Token), NEW sid \in Nat
  PROVE  /\ Revoked(tokens, sid) \in Seq(Token) /\ Len(Revoked(tokens, sid)) = Len(tokens)
         /\ DOMAIN Revoked(tokens, sid) = 1..Len(tokens)
         /\ \A i \in 1..Len(tokens) :
              /\ Revoked(tokens, sid)[i].sid = tokens[i].sid
              /\ Revoked(tokens, sid)[i].status = "active" =>
                   tokens[i].status = "active" /\ tokens[i].sid # sid
<1> DEFINE rev == Revoked(tokens, sid)
<1>1. DOMAIN tokens = 1..Len(tokens) /\ \A i \in 1..Len(tokens) : tokens[i] \in Token
  OBVIOUS
<1>2. rev = [i \in 1..Len(tokens) |-> IF tokens[i].sid = sid /\ tokens[i].status = "active"
                                      THEN [tokens[i] EXCEPT !.status = "revoked"] ELSE tokens[i]]
  BY <1>1 DEF Revoked
<1>3. \A i \in 1..Len(tokens) :
        /\ rev[i] \in Token /\ rev[i].sid = tokens[i].sid
        /\ rev[i].status = "active" => tokens[i].status = "active" /\ tokens[i].sid # sid
  <2> TAKE i \in 1..Len(tokens)
  <2>1. tokens[i] \in Token
    BY <1>1
  <2>2. CASE tokens[i].sid = sid /\ tokens[i].status = "active"
    <3>1. rev[i] = [tokens[i] EXCEPT !.status = "revoked"]
      BY <1>2, <2>2
    <3>2. QED BY <2>1, <2>2, <3>1 DEF Token
  <2>3. CASE ~(tokens[i].sid = sid /\ tokens[i].status = "active")
    <3>1. rev[i] = tokens[i]
      BY <1>2, <2>3
    <3>2. QED BY <2>1, <2>3, <3>1
  <2>4. QED BY <2>2, <2>3
<1>4. rev \in Seq(Token) /\ Len(rev) = Len(tokens) /\ DOMAIN rev = 1..Len(tokens)
  BY <1>2, <1>3
<1>5. QED BY <1>3, <1>4

\* A revocation, asked for or because a token came twice.
LEMMA RevokingKeepsDead ==
  ASSUME SsInv, NEW sid \in 1..ssLogins,
         ssRevoked' = ssRevoked \cup {sid}, ssTokens' = Revoked(ssTokens, sid), ssLogins' = ssLogins
  PROVE  TokensAreOpened' /\ SsRevokedIsDead' /\ Len(ssTokens') = Len(ssTokens)
<1>1. ssTokens \in Seq(Token) /\ sid \in Nat /\ ssLogins \in Nat /\ DOMAIN ssTokens = 1..Len(ssTokens)
  BY DEF SsInv, TokensAreOpened
<1>2. /\ ssTokens' \in Seq(Token) /\ Len(ssTokens') = Len(ssTokens) /\ DOMAIN ssTokens' = DOMAIN ssTokens
      /\ \A i \in DOMAIN ssTokens :
           /\ ssTokens'[i].sid = ssTokens[i].sid
           /\ ssTokens'[i].status = "active" => ssTokens[i].status = "active" /\ ssTokens[i].sid # sid
  BY <1>1, RevokedFacts
<1>3. TokensAreOpened'
  BY <1>1, <1>2 DEF SsInv, TokensAreOpened
<1>4. SsRevokedIsDead'
  BY <1>2 DEF SsInv, SsRevokedIsDead, IsActive
<1>5. QED BY <1>2, <1>3, <1>4

LEMMA LoginKeepsInv == ASSUME SsInv, SessionLogin PROVE SsInv'
<1>1. /\ ssTokens \in Seq(Token) /\ ssLogins \in Nat /\ ssRevoked \subseteq 1..ssLogins
      /\ DOMAIN ssTokens = 1..Len(ssTokens) /\ Len(ssTokens) \in Nat
      /\ \A i \in DOMAIN ssTokens : ssTokens[i].sid \in 1..ssLogins
  BY DEF SsInv, TokensAreOpened
<1>2. /\ ssTokens' = Issue(ssTokens, ssLogins + 1) /\ ssLogins' = ssLogins + 1
      /\ ssStore' = Len(ssTokens) + 1 /\ ssRevoked' = ssRevoked /\ ssFlight' = ssFlight
  BY DEF SessionLogin
<1>3. /\ ssTokens' \in Seq(Token) /\ Len(ssTokens') = Len(ssTokens) + 1
      /\ DOMAIN ssTokens' = 1..(Len(ssTokens) + 1)
      /\ \A i \in 1..Len(ssTokens) : ssTokens'[i] = ssTokens[i]
      /\ ssTokens'[Len(ssTokens) + 1].sid = ssLogins + 1
  <2>1. ssLogins + 1 \in Nat
    BY <1>1
  <2>2. ssTokens'[Len(ssTokens) + 1] = [sid |-> ssLogins + 1, status |-> "active", valid |-> TRUE]
    BY <1>1, <1>2, <2>1, IssueFacts
  <2>3. QED BY <1>1, <1>2, <2>1, <2>2, IssueFacts
<1>4. TokensAreOpened'
  BY <1>1, <1>2, <1>3 DEF TokensAreOpened
<1>5. PageHoldsIssued'
  BY <1>1, <1>2, <1>3 DEF SsInv, PageHoldsIssued
<1>6. SsRevokedIsDead'
  <2> SUFFICES ASSUME NEW i \in DOMAIN ssTokens', ssTokens'[i].status = "active"
               PROVE  /\ ssTokens'[i].sid \notin ssRevoked
                      /\ \A j \in DOMAIN ssTokens' :
                           ssTokens'[j].status = "active" /\ ssTokens'[j].sid = ssTokens'[i].sid => j = i
    BY <1>2 DEF SsRevokedIsDead, IsActive
  <2> DEFINE n == Len(ssTokens) + 1
  <2>1. ssLogins + 1 \notin 1..ssLogins /\ ssLogins + 1 \notin ssRevoked
    BY <1>1
  <2>2. \A j \in DOMAIN ssTokens' :
          \/ j = n /\ ssTokens'[j].sid = ssLogins + 1
          \/ j \in DOMAIN ssTokens /\ ssTokens'[j] = ssTokens[j] /\ ssTokens[j].sid # ssLogins + 1
    BY <1>1, <1>3, <2>1
  <2>3. \A j \in DOMAIN ssTokens : ssTokens[j].status = "active" =>
          /\ ssTokens[j].sid \notin ssRevoked
          /\ \A l \in DOMAIN ssTokens :
               ssTokens[l].status = "active" /\ ssTokens[l].sid = ssTokens[j].sid => l = j
    BY DEF SsInv, SsRevokedIsDead, IsActive
  <2> HIDE DEF n
  <2>4. QED BY <2>1, <2>2, <2>3
<1>7. QED BY <1>4, <1>5, <1>6 DEF SsInv

LEMMA RevokeKeepsInv == ASSUME SsInv, NEW sid \in 1..ssLogins, SessionRevoke(sid) PROVE SsInv'
<1>1. /\ ssRevoked' = ssRevoked \cup {sid} /\ ssTokens' = Revoked(ssTokens, sid)
      /\ ssLogins' = ssLogins /\ ssStore' = ssStore /\ ssFlight' = ssFlight
  BY DEF SessionRevoke
<1>2. TokensAreOpened' /\ SsRevokedIsDead' /\ Len(ssTokens') = Len(ssTokens)
  BY <1>1, RevokingKeepsDead
<1>3. PageHoldsIssued'
  BY <1>1, <1>2 DEF SsInv, PageHoldsIssued
<1>4. QED BY <1>2, <1>3 DEF SsInv

LEMMA ExpiryKeepsInv == ASSUME SsInv, NEW i \in DOMAIN ssTokens, AccessExpires(i) PROVE SsInv'
<1>1. /\ ssTokens' = [ssTokens EXCEPT ![i].valid = FALSE] /\ ssLogins' = ssLogins
      /\ ssRevoked' = ssRevoked /\ ssStore' = ssStore /\ ssFlight' = ssFlight
  BY DEF AccessExpires
<1>2. ssTokens \in Seq(Token) /\ \A j \in DOMAIN ssTokens : ssTokens[j] \in Token
  BY DEF SsInv, TokensAreOpened
<1>3. /\ ssTokens' \in Seq(Token) /\ Len(ssTokens') = Len(ssTokens) /\ DOMAIN ssTokens' = DOMAIN ssTokens
      /\ \A j \in DOMAIN ssTokens :
           ssTokens'[j].sid = ssTokens[j].sid /\ ssTokens'[j].status = ssTokens[j].status
  <2>1. [ssTokens[i] EXCEPT !.valid = FALSE] \in Token
    BY <1>2 DEF Token
  <2>2. ssTokens' = [ssTokens EXCEPT ![i] = [ssTokens[i] EXCEPT !.valid = FALSE]]
    BY <1>1
  <2>3. ssTokens' \in Seq(Token) /\ Len(ssTokens') = Len(ssTokens) /\ DOMAIN ssTokens' = DOMAIN ssTokens
    BY <1>2, <2>1, <2>2
  <2>4. QED BY <1>2, <2>2, <2>3 DEF Token
<1>4. TokensAreOpened'
  BY <1>1, <1>3 DEF SsInv, TokensAreOpened
<1>5. PageHoldsIssued' /\ SsRevokedIsDead'
  BY <1>1, <1>3 DEF SsInv, PageHoldsIssued, SsRevokedIsDead, IsActive
<1>6. QED BY <1>4, <1>5 DEF SsInv

\* The page's own steps leave the server alone.
LEMMA PageKeepsInv ==
  ASSUME SsInv, UNCHANGED serverVars, PageHoldsIssued'
  PROVE  SsInv'
BY DEF SsInv, serverVars, TokensAreOpened, SsRevokedIsDead, IsActive

LEMMA RefreshReadKeepsInv == ASSUME SsInv, NEW k \in SsReqs, RefreshRead(k) PROVE SsInv'
<1> DEFINE t == ssTokens[ssFlight[k].tok]
<1>1. ssFlight[k].st = "asked" /\ ssStore' = ssStore /\ ssLogins' = ssLogins
  BY DEF RefreshRead
<1>2. ssFlight[k].tok \in DOMAIN ssTokens /\ t.sid \in 1..ssLogins
  BY <1>1 DEF SsInv, PageHoldsIssued, TokensAreOpened
<1>3. \E st \in Flights : ssFlight' = [ssFlight EXCEPT ![k].st = st] /\ st \in {"read", "no"}
  BY DEF RefreshRead, Flights
<1>4. ASSUME Len(ssTokens') = Len(ssTokens) PROVE PageHoldsIssued'
  BY <1>1, <1>3, <1>4 DEF SsInv, PageHoldsIssued
<1>5. CASE t.status = "used" /\ IsActive(t.sid)
  <2>1. ssRevoked' = ssRevoked \cup {t.sid} /\ ssTokens' = Revoked(ssTokens, t.sid)
    BY <1>5 DEF RefreshRead
  <2>2. TokensAreOpened' /\ SsRevokedIsDead' /\ Len(ssTokens') = Len(ssTokens)
    BY <1>1, <1>2, <2>1, RevokingKeepsDead
  <2>3. QED BY <1>4, <2>2 DEF SsInv
<1>6. CASE ~(t.status = "used" /\ IsActive(t.sid))
  <2>1. ssRevoked' = ssRevoked /\ ssTokens' = ssTokens
    BY <1>6 DEF RefreshRead
  <2>2. QED BY <1>1, <1>4, <2>1 DEF SsInv, TokensAreOpened, SsRevokedIsDead, IsActive
<1>7. QED BY <1>5, <1>6

LEMMA RefreshCommitKeepsInv == ASSUME SsInv, NEW k \in SsReqs, RefreshCommit(k) PROVE SsInv'
<1> DEFINE i == ssFlight[k].tok
           ok == ssTokens[i].status = "active" /\ IsActive(ssTokens[i].sid)
           spent == [ssTokens EXCEPT ![i].status = "used"]
<1>1. Rotate(k, ok)
  BY DEF RefreshCommit
<1>2. /\ ssFlight[k].st = "read" /\ ssStore' = ssStore /\ ssLogins' = ssLogins /\ ssRevoked' = ssRevoked
  BY <1>1 DEF Rotate
<1>3. /\ ssTokens \in Seq(Token) /\ DOMAIN ssTokens = 1..Len(ssTokens) /\ i \in DOMAIN ssTokens
      /\ ssTokens[i].sid \in 1..ssLogins /\ ssTokens[i].sid \in Nat
      /\ \A j \in DOMAIN ssTokens : ssTokens[j] \in Token
  BY <1>2 DEF SsInv, PageHoldsIssued, TokensAreOpened
<1>4. CASE ok
  <2>1. /\ ssTokens' = Issue(spent, ssTokens[i].sid)
        /\ ssFlight' = [ssFlight EXCEPT ![k].st = "yes", ![k].new = Len(ssTokens) + 1]
    BY <1>1, <1>4 DEF Rotate
  <2>2. /\ spent \in Seq(Token) /\ Len(spent) = Len(ssTokens)
        /\ \A j \in DOMAIN ssTokens : spent[j].sid = ssTokens[j].sid
        /\ \A j \in DOMAIN ssTokens : j # i => spent[j].status = ssTokens[j].status
        /\ spent[i].status = "used"
    BY <1>3 DEF Token
  <2> HIDE DEF spent
  <2>3. /\ ssTokens' \in Seq(Token) /\ Len(ssTokens') = Len(ssTokens) + 1
        /\ DOMAIN ssTokens' = 1..(Len(ssTokens) + 1)
        /\ \A j \in 1..Len(ssTokens) : ssTokens'[j] = spent[j]
        /\ ssTokens'[Len(ssTokens) + 1].sid = ssTokens[i].sid
    <3>1. ssTokens'[Len(spent) + 1] = [sid |-> ssTokens[i].sid, status |-> "active", valid |-> TRUE]
      BY <1>3, <2>1, <2>2, IssueFacts
    <3>2. /\ ssTokens' \in Seq(Token) /\ Len(ssTokens') = Len(spent) + 1
          /\ DOMAIN ssTokens' = 1..(Len(spent) + 1)
          /\ \A j \in 1..Len(spent) : ssTokens'[j] = spent[j]
      BY <1>3, <2>1, <2>2, IssueFacts
    <3>3. QED BY <2>2, <3>1, <3>2
  <2>4. TokensAreOpened'
    BY <1>2, <1>3, <2>2, <2>3 DEF SsInv, TokensAreOpened
  <2>5. PageHoldsIssued'
    <3> DEFINE F == [st : Flights, tok : Nat, new : Nat]
               r == [ssFlight[k] EXCEPT !.st = "yes", !.new = Len(ssTokens) + 1]
    <3>1. PageHoldsIssued /\ Len(ssTokens) \in Nat /\ ssFlight \in [SsReqs -> F]
      BY <1>3 DEF SsInv, PageHoldsIssued
    <3>2. r \in F /\ r.st = "yes" /\ r.tok = ssFlight[k].tok /\ r.new = Len(ssTokens) + 1
      <4>1. ssFlight[k] \in F /\ "yes" \in Flights /\ Len(ssTokens) + 1 \in Nat
        BY <3>1 DEF Flights
      <4>2. QED BY <4>1
    <3>3. ssFlight' = [ssFlight EXCEPT ![k] = r]
      BY <2>1
    <3> HIDE DEF F, r
    <3>4. /\ ssFlight' \in [SsReqs -> F] /\ ssFlight'[k] = r
          /\ \A m \in SsReqs : m # k => ssFlight'[m] = ssFlight[m]
      BY <3>1, <3>2, <3>3
    <3>5. \A m \in SsReqs :
            /\ ssFlight'[m].tok \in 0..Len(ssTokens') /\ ssFlight'[m].new \in 0..Len(ssTokens')
            /\ ssFlight'[m].st \in {"asked", "read"} => ssFlight'[m].tok # 0
      <4> TAKE m \in SsReqs
      <4>1. /\ ssFlight[m].tok \in 0..Len(ssTokens) /\ ssFlight[m].new \in 0..Len(ssTokens)
            /\ ssFlight[m].st \in {"asked", "read"} => ssFlight[m].tok # 0
        BY <3>1 DEF PageHoldsIssued
      <4>2. QED BY <2>3, <3>1, <3>2, <3>4, <4>1
    <3>6. ssStore' \in 0..Len(ssTokens')
      BY <1>2, <2>3, <3>1 DEF PageHoldsIssued
    <3>7. QED BY <3>4, <3>5, <3>6 DEF PageHoldsIssued, F
  <2>6. SsRevokedIsDead'
    <3> SUFFICES ASSUME NEW j \in DOMAIN ssTokens', ssTokens'[j].status = "active"
                 PROVE  /\ ssTokens'[j].sid \notin ssRevoked
                        /\ \A m \in DOMAIN ssTokens' :
                             ssTokens'[m].status = "active" /\ ssTokens'[m].sid = ssTokens'[j].sid => m = j
      BY <1>2 DEF SsRevokedIsDead, IsActive
    <3> DEFINE n == Len(ssTokens) + 1
    <3>1. \A m \in DOMAIN ssTokens : ssTokens[m].status = "active" =>
            /\ ssTokens[m].sid \notin ssRevoked
            /\ \A l \in DOMAIN ssTokens :
                 ssTokens[l].status = "active" /\ ssTokens[l].sid = ssTokens[m].sid => l = m
      BY DEF SsInv, SsRevokedIsDead, IsActive
    <3>2. \A m \in DOMAIN ssTokens' : m # n /\ ssTokens'[m].status = "active" =>
            /\ m \in DOMAIN ssTokens /\ m # i /\ ssTokens[m].status = "active"
            /\ ssTokens'[m].sid = ssTokens[m].sid /\ ssTokens[m].sid # ssTokens[i].sid
      BY <1>3, <1>4, <2>2, <2>3, <3>1
    <3>3. CASE j = n
      BY <1>4, <2>3, <3>2, <3>3 DEF IsActive
    <3>4. CASE j # n
      BY <2>3, <3>1, <3>2, <3>4
    <3>5. QED BY <3>3, <3>4
  <2>7. QED BY <2>4, <2>5, <2>6 DEF SsInv
<1>5. CASE ~ok
  <2>1. ssTokens' = ssTokens /\ ssFlight' = [ssFlight EXCEPT ![k].st = "no"]
    BY <1>1, <1>5 DEF Rotate
  <2>2. PageHoldsIssued'
    BY <1>2, <2>1 DEF SsInv, PageHoldsIssued, Flights
  <2>3. QED BY <1>2, <2>1, <2>2 DEF SsInv, TokensAreOpened, SsRevokedIsDead, IsActive
<1>6. QED BY <1>4, <1>5

LEMMA RefreshEndsKeepInv ==
  ASSUME SsInv, NEW k \in SsReqs, RefreshOnce(k) \/ RefreshLose(k) \/ RefreshAnswer(k)
  PROVE  SsInv'
<1>1. CASE RefreshOnce(k)
  <2>1. UNCHANGED serverVars
    BY <1>1 DEF RefreshOnce
  <2>2. PageHoldsIssued'
    <3>1. ssStore' = ssStore /\ ssTokens' = ssTokens
      BY <1>1 DEF RefreshOnce, serverVars
    <3>2. ssStore \in Nat /\ ssStore \in 0..Len(ssTokens) /\ 0 \in 0..Len(ssTokens)
      BY DEF SsInv, PageHoldsIssued, TokensAreOpened
    <3>3. CASE ssFlight' = ssFlight
      BY <3>1, <3>3 DEF SsInv, PageHoldsIssued
    <3>4. CASE ssStore # 0 /\ ssFlight' = [ssFlight EXCEPT ![k] = [st |-> "asked", tok |-> ssStore, new |-> 0]]
      BY <3>1, <3>2, <3>4 DEF SsInv, PageHoldsIssued, Flights
    <3>5. QED BY <1>1, <3>3, <3>4 DEF RefreshOnce
  <2>3. QED BY <2>1, <2>2, PageKeepsInv
<1>2. CASE RefreshLose(k)
  <2>1. UNCHANGED serverVars
    BY <1>2 DEF RefreshLose
  <2>2. PageHoldsIssued'
    BY <1>2 DEF RefreshLose, SsInv, PageHoldsIssued, serverVars, Flights
  <2>3. QED BY <2>1, <2>2, PageKeepsInv
<1>3. CASE RefreshAnswer(k)
  <2>1. UNCHANGED serverVars
    BY <1>3 DEF RefreshAnswer
  <2>2. ssFlight' = [ssFlight EXCEPT ![k] = Quiet]
    BY <1>3 DEF RefreshAnswer
  <2>3. ssStore' \in {ssFlight[k].new, 0, ssStore}
    BY <1>3 DEF RefreshAnswer
  <2>4. PageHoldsIssued'
    BY <2>1, <2>2, <2>3 DEF SsInv, PageHoldsIssued, serverVars, Quiet, Flights, TokensAreOpened
  <2>5. QED BY <2>1, <2>4, PageKeepsInv
<1>4. QED BY <1>1, <1>2, <1>3

LEMMA SessionNextInv == SsInv /\ [SessionNext]_sessionVars => SsInv'
<1> SUFFICES ASSUME SsInv, [SessionNext]_sessionVars PROVE SsInv'
  OBVIOUS
<1>1. CASE UNCHANGED sessionVars
  <2>1. UNCHANGED serverVars /\ ssStore' = ssStore /\ ssFlight' = ssFlight
    BY <1>1 DEF sessionVars
  <2>2. PageHoldsIssued'
    BY <2>1 DEF SsInv, PageHoldsIssued, serverVars
  <2>3. QED BY <2>1, <2>2, PageKeepsInv
<1>2. CASE SessionLogin
  BY <1>2, LoginKeepsInv
<1>3. CASE PageClear
  <2>1. UNCHANGED serverVars /\ ssStore' = 0 /\ ssFlight' = ssFlight
    BY <1>3 DEF PageClear
  <2>2. PageHoldsIssued'
    BY <2>1 DEF SsInv, PageHoldsIssued, serverVars, TokensAreOpened
  <2>3. QED BY <2>1, <2>2, PageKeepsInv
<1>4. CASE \E sid \in 1..ssLogins : SessionRevoke(sid)
  BY <1>4, RevokeKeepsInv
<1>5. CASE \E i \in DOMAIN ssTokens : AccessExpires(i)
  BY <1>5, ExpiryKeepsInv
<1>6. CASE \E r \in SsReqs : RequestSend(r) \/ RequestServe(r) \/ RefreshOnce(r)
  <2>1. PICK r \in SsReqs : RequestSend(r) \/ RequestServe(r) \/ RefreshOnce(r)
    BY <1>6
  <2>2. CASE RequestSend(r) \/ RequestServe(r)
    <3>1. UNCHANGED serverVars /\ ssStore' = ssStore /\ ssFlight' = ssFlight
      BY <2>2 DEF RequestSend, RequestServe
    <3>2. PageHoldsIssued'
      BY <3>1 DEF SsInv, PageHoldsIssued, serverVars
    <3>3. QED BY <3>1, <3>2, PageKeepsInv
  <2>3. CASE RefreshOnce(r)
    BY <2>3, RefreshEndsKeepInv
  <2>4. QED BY <2>1, <2>2, <2>3
<1>7. CASE \E k \in SsReqs : RefreshRead(k) \/ RefreshCommit(k) \/ RefreshLose(k) \/ RefreshAnswer(k)
  BY <1>7, RefreshReadKeepsInv, RefreshCommitKeepsInv, RefreshEndsKeepInv
<1>8. QED BY <1>1, <1>2, <1>3, <1>4, <1>5, <1>6, <1>7 DEF SessionNext

LEMMA SessionInvariant == SessionSpec => []SsInv
BY SessionInitInv, SessionNextInv, PTL DEF SessionSpec

(* A refresh that overlaps a revocation, and any number of refreshes that   *)
(* overlap each other, leave a revoked session without a refresh token that *)
(* works, and a session that lives with at most one.                        *)
THEOREM RevokedIsDead == SessionSpec => []SsRevokedIsDead
<1>1. SsInv => SsRevokedIsDead
  BY DEF SsInv
<1>2. QED BY <1>1, SessionInvariant, PTL

(***************************************************************************)
(* A token is presented once. One refresh is under way at a time, and it   *)
(* presents what the store holds; the store goes on holding it after the   *)
(* rotation has used it up, and until the answer comes the shared promise  *)
(* is what keeps a second refresh from presenting it. Only a lost answer   *)
(* leaves a used token in the store with no refresh under way.             *)
(***************************************************************************)
OneFlight == \A k \in SsReqs : ssFlight[k].st # "none" => ssRefreshing = k

IsUsed(i) == i # 0 /\ ssTokens[i].status = "used"

StoreIsFresh ==
  IsUsed(ssStore) => \E k \in SsReqs : ssFlight[k].st = "yes" /\ ssFlight[k].tok = ssStore

FlightIsFresh(f) ==
  /\ f.st \in {"asked", "read"} => ~IsUsed(f.tok)
  /\ f.st = "yes" => ~IsUsed(f.new)
  /\ f.st # "error"

NoReuse ==
  ~ssLost => /\ StoreIsFresh /\ ~ssReused
             /\ \A k \in SsReqs : FlightIsFresh(ssFlight[k])

ReuseInv == SsInv /\ OneFlight /\ NoReuse

LEMMA ReuseInit == SessionInit => ReuseInv
<1> SUFFICES ASSUME SessionInit PROVE ReuseInv
  OBVIOUS
<1>1. OneFlight /\ NoReuse
  BY DEF SessionInit, OneFlight, NoReuse, StoreIsFresh, FlightIsFresh, IsUsed, Quiet
<1>2. QED BY <1>1, SessionInitInv DEF ReuseInv

\* A step that uses no token up and leaves the refreshes alone.
LEMMA NothingUsed ==
  ASSUME ReuseInv, ssLost' = ssLost, ssReused' = ssReused,
         ssFlight' = ssFlight, ssRefreshing' = ssRefreshing,
         \A i \in DOMAIN ssTokens : ssTokens'[i].status = "used" => ssTokens[i].status = "used",
         ssStore' = ssStore \/ ssStore' = 0 \/ ssTokens'[ssStore'].status # "used"
  PROVE  OneFlight' /\ NoReuse'
<1>1. OneFlight'
  BY DEF ReuseInv, OneFlight
<1>2. NoReuse'
  <2> SUFFICES ASSUME ~ssLost PROVE NoReuse'
    BY DEF NoReuse
  <2>1. /\ StoreIsFresh /\ ~ssReused
        /\ \A k \in SsReqs : FlightIsFresh(ssFlight[k])
    BY DEF ReuseInv, NoReuse
  <2>2. ssStore \in 0..Len(ssTokens) /\ DOMAIN ssTokens = 1..Len(ssTokens) /\ Len(ssTokens) \in Nat
    BY DEF ReuseInv, SsInv, PageHoldsIssued, TokensAreOpened
  <2>3. \A i \in 0..Len(ssTokens) : IsUsed(i)' => IsUsed(i)
    BY <2>2 DEF IsUsed
  <2>4. StoreIsFresh'
    BY <2>1, <2>2, <2>3 DEF StoreIsFresh, IsUsed
  <2>5. \A k \in SsReqs : ssFlight[k].tok \in 0..Len(ssTokens) /\ ssFlight[k].new \in 0..Len(ssTokens)
    BY DEF ReuseInv, SsInv, PageHoldsIssued
  <2>6. \A k \in SsReqs : FlightIsFresh(ssFlight[k])'
    BY <2>1, <2>3, <2>5 DEF FlightIsFresh
  <2>7. QED BY <2>1, <2>4, <2>6 DEF NoReuse
<1>3. QED BY <1>1, <1>2

LEMMA ReuseStep == ReuseInv /\ [SessionNext]_sessionVars => ReuseInv'
<1> SUFFICES ASSUME ReuseInv, [SessionNext]_sessionVars PROVE OneFlight' /\ NoReuse'
  BY SessionNextInv DEF ReuseInv
<1>1. /\ ssTokens \in Seq(Token) /\ DOMAIN ssTokens = 1..Len(ssTokens) /\ Len(ssTokens) \in Nat
      /\ ssStore \in 0..Len(ssTokens) /\ ssLogins \in Nat
      /\ \A i \in DOMAIN ssTokens : ssTokens[i] \in Token /\ ssTokens[i].sid \in 1..ssLogins
      /\ ssFlight \in [SsReqs -> [st : Flights, tok : Nat, new : Nat]]
      /\ \A k \in SsReqs :
           /\ ssFlight[k].tok \in 0..Len(ssTokens) /\ ssFlight[k].new \in 0..Len(ssTokens)
           /\ ssFlight[k].st \in {"asked", "read"} => ssFlight[k].tok # 0
  BY DEF ReuseInv, SsInv, PageHoldsIssued, TokensAreOpened
<1>2. /\ OneFlight
      /\ ~ssLost => /\ StoreIsFresh /\ ~ssReused
                    /\ \A k \in SsReqs : FlightIsFresh(ssFlight[k])
  BY DEF ReuseInv, NoReuse
<1>3. CASE UNCHANGED <<ssTokens, ssStore, ssFlight, ssRefreshing, ssReused, ssLost>>
  BY <1>3, NothingUsed
<1>4. CASE SessionLogin
  <2>1. /\ ssTokens' = Issue(ssTokens, ssLogins + 1) /\ ssStore' = Len(ssTokens) + 1
        /\ ssFlight' = ssFlight /\ ssRefreshing' = ssRefreshing
        /\ ssReused' = ssReused /\ ssLost' = ssLost
    BY <1>4 DEF SessionLogin, historyVars
  <2>2. ssLogins + 1 \in Nat
    BY <1>1
  <2>3. /\ \A i \in 1..Len(ssTokens) : ssTokens'[i] = ssTokens[i]
        /\ ssTokens'[Len(ssTokens) + 1] = [sid |-> ssLogins + 1, status |-> "active", valid |-> TRUE]
    BY <1>1, <2>1, <2>2, IssueFacts
  <2>4. ssTokens'[ssStore'].status # "used"
    BY <2>1, <2>3
  <2>5. QED BY <1>1, <2>1, <2>3, <2>4, NothingUsed
<1>5. CASE PageClear
  BY <1>5, NothingUsed DEF PageClear, serverVars, historyVars
<1>6. ASSUME NEW sid \in 1..ssLogins, SessionRevoke(sid) PROVE OneFlight' /\ NoReuse'
  <2>1. \A i \in DOMAIN ssTokens : ssTokens'[i].status = "used" => ssTokens[i].status = "used"
    BY <1>1, <1>6 DEF SessionRevoke, Revoked
  <2>2. QED BY <1>6, <2>1, NothingUsed DEF SessionRevoke, historyVars
<1>7. ASSUME NEW i \in DOMAIN ssTokens, AccessExpires(i) PROVE OneFlight' /\ NoReuse'
  <2>1. \A j \in DOMAIN ssTokens : ssTokens'[j].status = "used" => ssTokens[j].status = "used"
    BY <1>1, <1>7 DEF AccessExpires, Token
  <2>2. QED BY <1>7, <2>1, NothingUsed DEF AccessExpires, historyVars
<1>8. ASSUME NEW r \in SsReqs, RequestSend(r) \/ RequestServe(r) PROVE OneFlight' /\ NoReuse'
  BY <1>3, <1>8 DEF RequestSend, RequestServe, serverVars, historyVars
<1>9. ASSUME NEW r \in SsReqs, RefreshOnce(r) PROVE OneFlight' /\ NoReuse'
  <2>1. UNCHANGED <<ssTokens, ssStore, ssReused, ssLost>>
    BY <1>9 DEF RefreshOnce, serverVars, historyVars
  <2>2. CASE UNCHANGED <<ssFlight, ssRefreshing>>
    BY <1>3, <2>1, <2>2
  <2>3. CASE ~UNCHANGED <<ssFlight, ssRefreshing>>
    <3>1. /\ ssRefreshing = SsNone /\ ssRefreshing' = r /\ ssStore # 0
          /\ ssFlight' = [ssFlight EXCEPT ![r] = [st |-> "asked", tok |-> ssStore, new |-> 0]]
      BY <1>9, <2>3 DEF RefreshOnce
    <3>2. \A k \in SsReqs : ssFlight[k].st = "none"
      BY <1>2, <3>1, SessionAssumption DEF OneFlight
    <3>3. OneFlight'
      BY <1>1, <3>1, <3>2 DEF OneFlight
    <3>4. ~ssLost => ~IsUsed(ssStore)
      BY <1>2, <3>2 DEF StoreIsFresh
    <3>5. ssFlight'[r] = [st |-> "asked", tok |-> ssStore, new |-> 0]
          /\ \A k \in SsReqs : k # r => ssFlight'[k] = ssFlight[k]
      BY <1>1, <3>1
    <3>6. NoReuse'
      BY <1>2, <2>1, <3>2, <3>4, <3>5 DEF NoReuse, StoreIsFresh, FlightIsFresh, IsUsed
    <3>7. QED BY <3>3, <3>6
  <2>4. QED BY <2>2, <2>3
<1>10. ASSUME NEW k \in SsReqs, RefreshRead(k) PROVE OneFlight' /\ NoReuse'
  <2>1. PICK st \in {"read", "no"} : ssFlight' = [ssFlight EXCEPT ![k].st = st]
    BY <1>10 DEF RefreshRead
  <2>2. /\ ssFlight[k].st = "asked" /\ UNCHANGED <<ssStore, ssRefreshing, ssLost>>
        /\ ssReused' = (ssReused \/ ssTokens[ssFlight[k].tok].status = "used")
    BY <1>10 DEF RefreshRead
  <2>3. /\ ssFlight'[k].st = st /\ ssFlight'[k].tok = ssFlight[k].tok
        /\ \A j \in SsReqs : j # k => ssFlight'[j] = ssFlight[j]
    BY <1>1, <2>1
  <2>4. OneFlight'
    BY <1>2, <2>2, <2>3 DEF OneFlight
  <2>5. \A i \in 0..Len(ssTokens) : IsUsed(i)' => IsUsed(i)
    <3>1. ssTokens' = ssTokens \/ \E sid \in 1..ssLogins : ssTokens' = Revoked(ssTokens, sid)
      BY <1>1, <1>10, <2>2 DEF RefreshRead
    <3>2. ASSUME NEW i \in 1..Len(ssTokens), ssTokens'[i].status = "used"
          PROVE  ssTokens[i].status = "used"
      <4>1. CASE ssTokens' = ssTokens
        BY <3>2, <4>1
      <4>2. ASSUME NEW sid \in 1..ssLogins, ssTokens' = Revoked(ssTokens, sid)
            PROVE  ssTokens[i].status = "used"
        BY <1>1, <3>2, <4>2 DEF Revoked
      <4>3. QED BY <3>1, <4>1, <4>2
    <3>3. QED BY <1>1, <3>2 DEF IsUsed
  <2>6. NoReuse'
    <3> SUFFICES ASSUME ~ssLost
                 PROVE  StoreIsFresh' /\ ~ssReused' /\ \A j \in SsReqs : FlightIsFresh(ssFlight[j])'
      BY <2>2 DEF NoReuse
    <3>1. ~IsUsed(ssFlight[k].tok)
      BY <1>2, <2>2 DEF FlightIsFresh
    <3>2. ~ssReused'
      BY <1>1, <1>2, <2>2, <3>1 DEF IsUsed
    <3>3. StoreIsFresh'
      <4> SUFFICES ASSUME IsUsed(ssStore)'
                   PROVE  \E j \in SsReqs : ssFlight'[j].st = "yes" /\ ssFlight'[j].tok = ssStore'
        BY DEF StoreIsFresh
      <4>1. IsUsed(ssStore)
        BY <1>1, <2>2, <2>5 DEF IsUsed
      <4>2. PICK j \in SsReqs : ssFlight[j].st = "yes" /\ ssFlight[j].tok = ssStore
        BY <1>2, <4>1 DEF StoreIsFresh
      <4>3. j # k
        BY <2>2, <4>2
      <4>4. QED BY <2>2, <2>3, <4>2, <4>3
    <3>4. ASSUME NEW j \in SsReqs PROVE FlightIsFresh(ssFlight[j])'
      <4>1. CASE j = k
        BY <1>1, <2>1, <2>3, <2>5, <3>1, <4>1 DEF FlightIsFresh, IsUsed
      <4>2. CASE j # k
        BY <1>1, <1>2, <2>3, <2>5, <4>2 DEF FlightIsFresh, IsUsed
      <4>3. QED BY <4>1, <4>2
    <3>5. QED BY <3>2, <3>3, <3>4
  <2>7. QED BY <2>4, <2>6
<1>11. ASSUME NEW k \in SsReqs, RefreshCommit(k) PROVE OneFlight' /\ NoReuse'
  <2> DEFINE i == ssFlight[k].tok
             n == Len(ssTokens) + 1
             spent == [ssTokens EXCEPT ![i].status = "used"]
  <2>1. ssFlight[k].st = "read" /\ UNCHANGED <<ssStore, ssRefreshing, ssReused, ssLost>>
    BY <1>11 DEF RefreshCommit, Rotate, historyVars
  <2>2. i \in DOMAIN ssTokens /\ \A j \in SsReqs : j # k => ssFlight[j].st = "none"
    BY <1>1, <1>2, <2>1 DEF OneFlight
  <2>3. CASE ssTokens' = ssTokens /\ ssFlight' = [ssFlight EXCEPT ![k].st = "no"]
    <3>1. /\ ssFlight'[k].st = "no" /\ ssFlight'[k].tok = i
          /\ \A j \in SsReqs : j # k => ssFlight'[j] = ssFlight[j]
      BY <1>1, <2>3
    <3>2. OneFlight'
      BY <1>2, <2>1, <3>1 DEF OneFlight
    <3>3. NoReuse'
      BY <1>2, <2>1, <2>2, <2>3, <3>1 DEF NoReuse, StoreIsFresh, FlightIsFresh, IsUsed
    <3>4. QED BY <3>2, <3>3
  <2>4. CASE /\ ssTokens' = Issue(spent, ssTokens[i].sid)
             /\ ssFlight' = [ssFlight EXCEPT ![k].st = "yes", ![k].new = n]
    <3>1. /\ spent \in Seq(Token) /\ Len(spent) = Len(ssTokens) /\ ssTokens[i].sid \in Nat
          /\ \A j \in DOMAIN ssTokens : j # i => spent[j].status = ssTokens[j].status
      <4>1. [ssTokens[i] EXCEPT !.status = "used"] \in Token /\ ssTokens[i].sid \in Nat
        BY <1>1, <2>2 DEF Token
      <4>2. spent = [ssTokens EXCEPT ![i] = [ssTokens[i] EXCEPT !.status = "used"]]
        OBVIOUS
      <4> HIDE DEF spent
      <4>3. QED BY <1>1, <2>2, <4>1, <4>2
    <3> HIDE DEF spent
    <3>2. /\ \A j \in DOMAIN ssTokens : j # i => ssTokens'[j].status = ssTokens[j].status
          /\ ssTokens'[n] = [sid |-> ssTokens[i].sid, status |-> "active", valid |-> TRUE]
      <4>1. /\ \A j \in 1..Len(spent) : ssTokens'[j] = spent[j]
            /\ ssTokens'[Len(spent) + 1] = [sid |-> ssTokens[i].sid, status |-> "active", valid |-> TRUE]
        BY <2>4, <3>1, IssueFacts
      <4>2. QED BY <1>1, <3>1, <4>1
    <3>3. /\ ssFlight'[k].st = "yes" /\ ssFlight'[k].tok = i /\ ssFlight'[k].new = n
          /\ \A j \in SsReqs : j # k => ssFlight'[j] = ssFlight[j]
      BY <1>1, <2>4
    <3>4. OneFlight'
      BY <1>2, <2>1, <3>3 DEF OneFlight
    <3>5. NoReuse'
      <4> SUFFICES ASSUME ~ssLost
                   PROVE  StoreIsFresh' /\ \A j \in SsReqs : FlightIsFresh(ssFlight[j])'
        BY <1>2, <2>1 DEF NoReuse
      <4>1. ~IsUsed(ssStore)
        BY <1>2, <2>1, <2>2 DEF StoreIsFresh
      <4>2. StoreIsFresh'
        BY <1>1, <2>1, <3>2, <3>3, <4>1 DEF StoreIsFresh, IsUsed
      <4>3. \A j \in SsReqs : FlightIsFresh(ssFlight[j])'
        BY <2>2, <3>2, <3>3 DEF FlightIsFresh, IsUsed
      <4>4. QED BY <4>2, <4>3
    <3>6. QED BY <3>4, <3>5
  <2>5. QED BY <1>11, <2>3, <2>4 DEF RefreshCommit, Rotate
<1>12. ASSUME NEW k \in SsReqs, RefreshLose(k) PROVE OneFlight' /\ NoReuse'
  <2>1. ssLost'
    BY <1>12 DEF RefreshLose
  <2>2. OneFlight'
    BY <1>1, <1>2, <1>12 DEF RefreshLose, OneFlight
  <2>3. QED BY <2>1, <2>2 DEF NoReuse
<1>13. ASSUME NEW k \in SsReqs, RefreshAnswer(k) PROVE OneFlight' /\ NoReuse'
  <2>1. /\ ssFlight[k].st \in {"yes", "no", "error"}
        /\ ssFlight' = [ssFlight EXCEPT ![k] = Quiet]
        /\ ssRefreshing' = IF ssRefreshing = k THEN SsNone ELSE ssRefreshing
        /\ ssStore' = CASE ssFlight[k].st = "yes" -> ssFlight[k].new
                        [] ssFlight[k].st = "no" -> 0 [] OTHER -> ssStore
        /\ ssTokens' = ssTokens /\ ssReused' = ssReused /\ ssLost' = ssLost
    BY <1>13 DEF RefreshAnswer, serverVars, historyVars
  <2>2. \A j \in SsReqs : ssFlight'[j].st = "none"
    BY <1>1, <1>2, <2>1 DEF OneFlight, Quiet
  <2>3. OneFlight'
    BY <2>2 DEF OneFlight
  <2>4. NoReuse'
    <3> SUFFICES ASSUME ~ssLost PROVE ~IsUsed(ssStore)'
      BY <1>2, <2>1, <2>2 DEF NoReuse, StoreIsFresh, FlightIsFresh
    <3>1. FlightIsFresh(ssFlight[k])
      BY <1>2
    <3>2. CASE ssFlight[k].st = "yes"
      BY <2>1, <3>1, <3>2 DEF FlightIsFresh, IsUsed
    <3>3. CASE ssFlight[k].st = "no"
      BY <2>1, <3>3 DEF IsUsed
    <3>4. QED BY <2>1, <3>1, <3>2, <3>3 DEF FlightIsFresh
  <2>5. QED BY <2>3, <2>4
<1>14. CASE UNCHANGED sessionVars
  BY <1>3, <1>14 DEF sessionVars, serverVars, historyVars
<1>15. QED
  BY <1>4, <1>5, <1>6, <1>7, <1>8, <1>9, <1>10, <1>11, <1>12, <1>13, <1>14 DEF SessionNext

(* However many requests are answered 401 and however late, whatever logins, *)
(* logouts and revocations come between, the page presents no refresh token  *)
(* twice unless the answer of a refresh was lost.                            *)
THEOREM NoSelfReuse == SessionSpec => []SsNoSelfReuse
<1>1. ReuseInv => SsNoSelfReuse
  BY DEF ReuseInv, NoReuse, SsNoSelfReuse
<1>2. QED BY ReuseInit, ReuseStep, <1>1, PTL DEF SessionSpec

(***************************************************************************)
(* The request keys. On the server an identity has at most one effect and, *)
(* before that, one transaction. In the page all submissions of one intent *)
(* carry one key and one content: a key is dropped only when an intent     *)
(* begins, or by the answer of the submission that kept the form busy ever *)
(* since. What a submission aims at then differs by the version alone.     *)
(***************************************************************************)
ServerState == {"out", "bound", "tran", "ok", "no", "never"}

Try == [key : Nat, content : Contents, intent : Nat, gen : Nat, target : Nat \X BOOLEAN,
        client : {"waiting", "told", "refused", "gaveUp"},
        server : ServerState]

Shape ==
  /\ rkTries \in Seq(Try) /\ rkBusy \in BOOLEAN /\ rkContent \in Contents
  /\ rkKey \in Nat /\ rkKeys \in Nat /\ rkGen \in Nat /\ rkIntent \in Nat
  /\ rkVersion \in Nat /\ (rkPage # "start" => rkVersion = 1)

\* The server: effects are those of submissions, one for an identity.
EffectsAreTries ==
  \A e \in rkEffects :
    /\ e.try \in DOMAIN rkTries /\ rkTries[e.try].server = "ok"
    /\ e = [key |-> rkTries[e.try].key, content |-> rkTries[e.try].content,
            intent |-> rkTries[e.try].intent, target |-> rkTries[e.try].target, try |-> e.try]
OneEffectPerIdentity == \A e, f \in rkEffects : Identity(e) = Identity(f) => e = f
TranIsFirst ==
  \A i \in DOMAIN rkTries : rkTries[i].server = "tran" =>
    /\ \A e \in rkEffects : Identity(e) # Identity(rkTries[i])
    /\ \A j \in DOMAIN rkTries :
         rkTries[j].server = "tran" /\ Identity(rkTries[j]) = Identity(rkTries[i]) => j = i
\* What is served has been resolved, by its content and the version of that moment.
TargetsFit ==
  \A i \in DOMAIN rkTries : rkTries[i].server \in {"bound", "tran", "ok"} =>
    \E v \in Nat : /\ rkTries[i].target = <<v, rkTries[i].content = 3>>
                   /\ rkPage # "start" => v = 1
OkIsTrue ==
  \A i \in DOMAIN rkTries : rkTries[i].server = "ok" =>
    \E e \in rkEffects : Identity(e) = Identity(rkTries[i]) /\ e.content = rkTries[i].content
ToldIsOk == \A i \in DOMAIN rkTries : rkTries[i].client = "told" => rkTries[i].server = "ok"

ServerInv ==
  EffectsAreTries /\ OneEffectPerIdentity /\ TranIsFirst /\ TargetsFit /\ OkIsTrue /\ ToldIsOk

\* The page: one key and content for the submissions of an intent, the page's for the present one.
IntentsGrow ==
  /\ \A i \in DOMAIN rkTries : rkTries[i].intent <= rkIntent /\ rkTries[i].gen <= rkGen
  /\ \A i, j \in DOMAIN rkTries : i <= j => rkTries[i].intent <= rkTries[j].intent
PresentHasKey ==
  \A i \in DOMAIN rkTries : rkTries[i].intent = rkIntent =>
    rkTries[i].key = rkKey /\ rkKey # 0 /\ rkTries[i].content = rkContent
OneKeyPerIntent ==
  \A i, j \in DOMAIN rkTries : rkTries[i].intent = rkTries[j].intent =>
    rkTries[i].key = rkTries[j].key /\ rkTries[i].content = rkTries[j].content
LastKeepsBusy ==
  \A i \in DOMAIN rkTries : rkTries[i].client = "waiting" /\ rkTries[i].gen = rkGen =>
    rkBusy /\ i = Len(rkTries)

KeyPageInv == IntentsGrow /\ PresentHasKey /\ OneKeyPerIntent /\ LastKeepsBusy

RkInv == Shape /\ ServerInv /\ KeyPageInv

LEMMA RkInitInv == RkInit => RkInv
<1> SUFFICES ASSUME RkInit PROVE RkInv
  OBVIOUS
<1>1. rkTries = <<>> /\ rkTries \in Seq(Try) /\ DOMAIN rkTries = {} /\ rkEffects = {}
  BY DEF RkInit
<1>2. Shape
  BY <1>1 DEF RkInit, Shape, Contents
<1>3. ServerInv
  BY <1>1 DEF ServerInv, EffectsAreTries, OneEffectPerIdentity, TranIsFirst, TargetsFit, OkIsTrue, ToldIsOk
<1>4. KeyPageInv
  BY <1>1 DEF KeyPageInv, IntentsGrow, PresentHasKey, OneKeyPerIntent, LastKeepsBusy
<1>5. QED BY <1>2, <1>3, <1>4 DEF RkInv

\* What Shape says of each submission.
LEMMA TriesTyped ==
  ASSUME RkInv
  PROVE  \A i \in DOMAIN rkTries : /\ rkTries[i].intent \in Nat /\ rkTries[i].gen \in Nat
                                   /\ rkTries[i].intent <= rkIntent /\ rkTries[i].gen <= rkGen
<1>1. \A i \in DOMAIN rkTries : rkTries[i] \in Try
  BY DEF RkInv, Shape
<1>2. \A i \in DOMAIN rkTries : rkTries[i].intent \in Nat /\ rkTries[i].gen \in Nat
  BY <1>1 DEF Try
<1>3. QED BY <1>2 DEF RkInv, KeyPageInv, IntentsGrow

\* A new intent, while nothing is sent or answered.
LEMMA NewIntentKeepsInv ==
  ASSUME RkInv, RkEdit \/ RkOpen \/ RkSwitch
  PROVE  RkInv'
<1>1. /\ rkTries' = rkTries /\ rkEffects' = rkEffects /\ rkKeys' = rkKeys
      /\ rkPage' = rkPage /\ rkVersion' = rkVersion
      /\ rkIntent' = rkIntent + 1
      /\ rkKey' \in {0, rkKey} /\ rkContent' \in Contents
  BY DEF RkEdit, RkOpen, RkSwitch, NewIntent, Contents, RkInv, Shape
<1>2. \/ rkGen' = rkGen /\ rkBusy' = rkBusy
      \/ rkGen' = rkGen + 1 /\ rkBusy' = FALSE
  BY DEF RkEdit, RkOpen, RkSwitch
<1>3. Shape'
  <2>1. rkBusy' \in BOOLEAN
    BY <1>2 DEF RkInv, Shape
  <2>2. rkGen' \in Nat /\ rkKey' \in Nat /\ rkIntent' \in Nat
    BY <1>1, <1>2 DEF RkInv, Shape
  <2>3. QED BY <1>1, <2>1, <2>2 DEF RkInv, Shape
<1>4. ServerInv'
  BY <1>1 DEF RkInv, ServerInv, EffectsAreTries, OneEffectPerIdentity, TranIsFirst, TargetsFit, OkIsTrue, ToldIsOk
<1>5. \A i \in DOMAIN rkTries : /\ rkTries[i].intent \in Nat /\ rkTries[i].gen \in Nat
                                /\ rkTries[i].intent <= rkIntent /\ rkTries[i].gen <= rkGen
  BY TriesTyped
<1>6. KeyPageInv'
  BY <1>1, <1>2, <1>5 DEF RkInv, Shape, KeyPageInv, IntentsGrow, PresentHasKey, OneKeyPerIntent, LastKeepsBusy
<1>7. QED BY <1>3, <1>4, <1>6 DEF RkInv

LEMMA KeySubmitKeepsInv ==
  ASSUME RkInv, RkSubmit
  PROVE  RkInv'
<1> DEFINE n == Len(rkTries) + 1
           new == [key |-> rkKey', content |-> rkContent, intent |-> rkIntent, gen |-> rkGen,
                   target |-> Unresolved, client |-> "waiting", server |-> "out"]
<1>1. /\ rkTries' = Append(rkTries, new) /\ rkBusy' = TRUE /\ rkBusy = FALSE
      /\ UNCHANGED <<rkPage, rkContent, rkGen, rkVersion, rkEffects, rkIntent>>
  BY DEF RkSubmit, RkInv, Shape
<1>2. /\ rkKey' \in Nat /\ rkKeys' \in Nat /\ rkKey' # 0
      /\ rkKey # 0 => rkKey' = rkKey
  BY DEF RkSubmit, RkInv, Shape
<1>3. new \in Try
  BY <1>2 DEF Try, ServerState, Unresolved, RkInv, Shape
<1>4. /\ rkTries' \in Seq(Try) /\ DOMAIN rkTries' = DOMAIN rkTries \cup {n} /\ Len(rkTries') = n
      /\ rkTries'[n] = new /\ \A i \in DOMAIN rkTries : rkTries'[i] = rkTries[i] /\ i < n
      /\ n \notin DOMAIN rkTries
  BY <1>1, <1>3 DEF RkInv, Shape
<1>5. Shape'
  BY <1>1, <1>2, <1>4 DEF RkInv, Shape
<1> HIDE DEF n
<1>6. ServerInv'
  BY <1>1, <1>4 DEF RkInv, ServerInv, EffectsAreTries, OneEffectPerIdentity, TranIsFirst, TargetsFit, OkIsTrue, ToldIsOk
<1>7. KeyPageInv'
  <2>1. IntentsGrow'
    <3>1. \A i \in DOMAIN rkTries : /\ rkTries[i].intent \in Nat /\ rkTries[i].gen \in Nat
                                    /\ rkTries[i].intent <= rkIntent /\ rkTries[i].gen <= rkGen
      BY TriesTyped
    <3>2. new.intent = rkIntent /\ new.gen = rkGen /\ rkIntent \in Nat /\ rkGen \in Nat
      BY DEF RkInv, Shape
    <3>3. DOMAIN rkTries \subseteq Nat /\ n \in Nat
      BY DEF RkInv, Shape, n
    <3> HIDE DEF new
    <3>4. QED BY <1>1, <1>4, <3>1, <3>2, <3>3 DEF RkInv, KeyPageInv, IntentsGrow
  <2>2. PresentHasKey'
    BY <1>1, <1>2, <1>4 DEF RkInv, KeyPageInv, PresentHasKey
  <2>3. OneKeyPerIntent'
    BY <1>1, <1>2, <1>4 DEF RkInv, KeyPageInv, PresentHasKey, OneKeyPerIntent
  <2>4. LastKeepsBusy'
    BY <1>1, <1>4 DEF RkInv, KeyPageInv, LastKeepsBusy
  <2>5. QED BY <2>1, <2>2, <2>3, <2>4 DEF KeyPageInv
<1>8. QED BY <1>5, <1>6, <1>7 DEF RkInv

\* A step of the server changes nothing the page goes by.
LEMMA ServerStepKeepsPage ==
  ASSUME RkInv, NEW i \in DOMAIN rkTries, NEW r \in Try, rkTries' = [rkTries EXCEPT ![i] = r],
         r.key = rkTries[i].key, r.content = rkTries[i].content, r.intent = rkTries[i].intent,
         r.gen = rkTries[i].gen, r.client = rkTries[i].client,
         UNCHANGED <<rkPage, rkKey, rkKeys, rkContent, rkGen, rkBusy, rkVersion, rkIntent>>
  PROVE  /\ Shape' /\ KeyPageInv' /\ DOMAIN rkTries' = DOMAIN rkTries
         /\ \A j \in DOMAIN rkTries : rkTries'[j] = IF j = i THEN r ELSE rkTries[j]
<1>1. rkTries \in Seq(Try)
  BY DEF RkInv, Shape
<1>2. /\ DOMAIN rkTries' = DOMAIN rkTries /\ Len(rkTries') = Len(rkTries)
      /\ \A j \in DOMAIN rkTries : rkTries'[j] = IF j = i THEN r ELSE rkTries[j]
  BY <1>1
<1>3. \A j \in DOMAIN rkTries : /\ rkTries'[j] \in Try
                                /\ rkTries'[j].key = rkTries[j].key
                                /\ rkTries'[j].content = rkTries[j].content
                                /\ rkTries'[j].intent = rkTries[j].intent
                                /\ rkTries'[j].gen = rkTries[j].gen
                                /\ rkTries'[j].client = rkTries[j].client
  BY <1>1, <1>2
<1>4. rkTries' \in Seq(Try)
  BY <1>1, <1>2, <1>3
<1>5. Shape'
  BY <1>4 DEF RkInv, Shape
<1>6. KeyPageInv'
  BY <1>2, <1>3 DEF RkInv, KeyPageInv, IntentsGrow, PresentHasKey, OneKeyPerIntent, LastKeepsBusy
<1>7. QED BY <1>2, <1>5, <1>6

\* A submission that has no effect and is not in its transaction is resolved, lost, or
\* answered by a receipt.
LEMMA ServeKeepsInv ==
  ASSUME RkInv, NEW i \in DOMAIN rkTries,
         RkServeBegin(i) \/ RkLoseRequest(i) \/ \E refused \in BOOLEAN : RkResolve(i, refused)
  PROVE  RkInv'
<1>1. rkTries \in Seq(Try) /\ rkTries[i] \in Try
  BY DEF RkInv, Shape
<1>2. PICK r \in Try :
        /\ rkTries' = [rkTries EXCEPT ![i] = r]
        /\ r.key = rkTries[i].key /\ r.content = rkTries[i].content /\ r.intent = rkTries[i].intent
        /\ r.gen = rkTries[i].gen /\ r.client = rkTries[i].client
        /\ rkTries[i].server \in {"out", "bound"}
        /\ r.server \in {"bound", "tran", "ok"} =>
             \E v \in Nat : r.target = <<v, r.content = 3>> /\ (rkPage # "start" => v = 1)
        /\ r.server = "tran" =>
             /\ \A e \in rkEffects : Identity(e) # Identity(r)
             /\ \A j \in DOMAIN rkTries : rkTries[j].server = "tran" => Identity(rkTries[j]) # Identity(r)
        /\ r.server = "ok" => \E e \in rkEffects : Identity(e) = Identity(r) /\ e.content = r.content
  <2>1. CASE RkLoseRequest(i)
    <3> DEFINE r == [rkTries[i] EXCEPT !.server = "never"]
    <3>1. r \in Try /\ r.server = "never"
      BY <1>1 DEF Try, ServerState
    <3>2. /\ r.key = rkTries[i].key /\ r.content = rkTries[i].content /\ r.intent = rkTries[i].intent
          /\ r.gen = rkTries[i].gen /\ r.client = rkTries[i].client
      BY <1>1 DEF Try
    <3>3. rkTries' = [rkTries EXCEPT ![i] = r] /\ rkTries[i].server = "out"
      BY <2>1 DEF RkLoseRequest
    <3> HIDE DEF r
    <3>4. QED BY <3>1, <3>2, <3>3
  <2>2. CASE \E refused \in BOOLEAN : RkResolve(i, refused)
    <3>1. PICK refused \in BOOLEAN : RkResolve(i, refused)
      BY <2>2
    <3> DEFINE aim == <<rkVersion, rkTries[i].content = 3>>
               r == [rkTries[i] EXCEPT !.target = aim, !.server = IF refused THEN "no" ELSE "bound"]
    <3>2. aim \in Nat \X BOOLEAN /\ rkVersion \in Nat /\ (rkPage # "start" => rkVersion = 1)
      BY DEF RkInv, Shape
    <3>3. rkTries' = [rkTries EXCEPT ![i] = r] /\ rkTries[i].server = "out"
      BY <3>1 DEF RkResolve, TargetOf
    <3>4. r.target = <<rkVersion, r.content = 3>>
      BY <1>1 DEF Try
    <3> HIDE DEF aim
    <3>5. r \in Try /\ r.server \in {"no", "bound"}
      BY <1>1, <3>2 DEF Try, ServerState
    <3>6. /\ r.key = rkTries[i].key /\ r.content = rkTries[i].content /\ r.intent = rkTries[i].intent
          /\ r.gen = rkTries[i].gen /\ r.client = rkTries[i].client
      BY <1>1 DEF Try
    <3> HIDE DEF r
    <3>7. QED BY <3>2, <3>3, <3>4, <3>5, <3>6
  <2>3. CASE RkServeBegin(i)
    <3> DEFINE hits == {e \in rkEffects : Identity(e) = Identity(rkTries[i])}
               answer == IF hits = {} THEN "tran" ELSE ReceiptAnswer(CHOOSE e \in hits : TRUE, rkTries[i])
               r == [rkTries[i] EXCEPT !.server = answer]
    <3>1. /\ rkTries' = [rkTries EXCEPT ![i] = r] /\ rkTries[i].server = "bound"
          /\ \A j \in DOMAIN rkTries : rkTries[j].server = "tran" => Identity(rkTries[j]) # Identity(rkTries[i])
      BY <2>3 DEF RkServeBegin, TryBegin
    <3>2. /\ answer \in {"tran", "ok", "no"}
          /\ answer = "tran" => \A e \in rkEffects : Identity(e) # Identity(rkTries[i])
          /\ answer = "ok" =>
               \E e \in rkEffects : Identity(e) = Identity(rkTries[i]) /\ e.content = rkTries[i].content
      <4>1. CASE hits = {}
        BY <4>1
      <4>2. CASE hits # {}
        <5>1. (CHOOSE e \in hits : TRUE) \in hits
          BY <4>2
        <5>2. QED BY <4>2, <5>1 DEF ReceiptAnswer
      <4>3. QED BY <4>1, <4>2
    <3> HIDE DEF answer
    <3>3. r \in Try /\ r.server = answer
      BY <1>1, <3>2 DEF Try, ServerState
    <3>4. /\ r.key = rkTries[i].key /\ r.content = rkTries[i].content /\ r.intent = rkTries[i].intent
          /\ r.gen = rkTries[i].gen /\ r.client = rkTries[i].client /\ r.target = rkTries[i].target
      BY <1>1 DEF Try
    <3> HIDE DEF r
    <3>5. Identity(r) = Identity(rkTries[i])
      BY <3>4 DEF Identity
    <3>6. \E v \in Nat : r.target = <<v, r.content = 3>> /\ (rkPage # "start" => v = 1)
      BY <3>1, <3>4 DEF RkInv, ServerInv, TargetsFit
    <3>7. QED BY <3>1, <3>2, <3>3, <3>4, <3>5, <3>6
  <2>4. QED BY <2>1, <2>2, <2>3
<1>3. /\ UNCHANGED <<rkPage, rkKey, rkKeys, rkContent, rkGen, rkBusy, rkVersion, rkIntent>>
      /\ rkEffects' = rkEffects
  BY DEF RkServeBegin, RkLoseRequest, RkResolve
<1>4. /\ Shape' /\ KeyPageInv' /\ DOMAIN rkTries' = DOMAIN rkTries
      /\ \A j \in DOMAIN rkTries : rkTries'[j] = IF j = i THEN r ELSE rkTries[j]
  BY <1>2, <1>3, ServerStepKeepsPage
<1>5. EffectsAreTries' /\ OneEffectPerIdentity'
  BY <1>2, <1>3, <1>4 DEF RkInv, ServerInv, EffectsAreTries, OneEffectPerIdentity
<1>6. TranIsFirst' /\ TargetsFit'
  <2>1. TranIsFirst'
    BY <1>2, <1>3, <1>4 DEF RkInv, ServerInv, TranIsFirst
  <2>2. TargetsFit'
    BY <1>2, <1>3, <1>4 DEF RkInv, ServerInv, TargetsFit
  <2>3. QED BY <2>1, <2>2
<1>7. OkIsTrue' /\ ToldIsOk'
  BY <1>2, <1>3, <1>4 DEF RkInv, ServerInv, OkIsTrue, ToldIsOk
<1>8. QED BY <1>4, <1>5, <1>6, <1>7 DEF RkInv, ServerInv

LEMMA ServeEndKeepsInv ==
  ASSUME RkInv, NEW i \in DOMAIN rkTries, NEW committed \in BOOLEAN, RkServeEnd(i, committed)
  PROVE  RkInv'
<1> DEFINE effect == [key |-> rkTries[i].key, content |-> rkTries[i].content,
                      intent |-> rkTries[i].intent, target |-> rkTries[i].target, try |-> i]
           r == [rkTries[i] EXCEPT !.server = IF committed THEN "ok" ELSE "no"]
<1>1. rkTries \in Seq(Try) /\ rkTries[i] \in Try
  BY DEF RkInv, Shape
<1>2. r \in Try /\ r.server = (IF committed THEN "ok" ELSE "no")
  BY <1>1 DEF Try, ServerState
<1>3. /\ r.key = rkTries[i].key /\ r.content = rkTries[i].content /\ r.intent = rkTries[i].intent
      /\ r.gen = rkTries[i].gen /\ r.client = rkTries[i].client /\ r.target = rkTries[i].target
  BY <1>1 DEF Try
<1>4. /\ rkTries' = [rkTries EXCEPT ![i] = r] /\ rkTries[i].server = "tran"
      /\ UNCHANGED <<rkPage, rkKey, rkKeys, rkContent, rkGen, rkBusy, rkVersion, rkIntent>>
      /\ rkEffects' = IF committed THEN rkEffects \cup {effect} ELSE rkEffects
  BY DEF RkServeEnd
<1> HIDE DEF r
<1>5. /\ Shape' /\ KeyPageInv' /\ DOMAIN rkTries' = DOMAIN rkTries
      /\ \A j \in DOMAIN rkTries : rkTries'[j] = IF j = i THEN r ELSE rkTries[j]
  BY <1>2, <1>3, <1>4, ServerStepKeepsPage
<1>6. /\ Identity(effect) = Identity(rkTries[i]) /\ Identity(r) = Identity(rkTries[i])
      /\ \A e \in rkEffects : Identity(e) # Identity(effect)
      /\ \A j \in DOMAIN rkTries : rkTries[j].server = "tran" /\ j # i => Identity(rkTries[j]) # Identity(effect)
  <2>1. Identity(effect) = Identity(rkTries[i]) /\ Identity(r) = Identity(rkTries[i])
    BY <1>3 DEF Identity
  <2> HIDE DEF effect
  <2>2. QED BY <1>4, <2>1 DEF RkInv, ServerInv, TranIsFirst
<1>7. EffectsAreTries'
  BY <1>2, <1>3, <1>4, <1>5 DEF RkInv, ServerInv, EffectsAreTries
<1>8. OneEffectPerIdentity'
  <2> HIDE DEF effect
  <2>1. QED BY <1>4, <1>6 DEF RkInv, ServerInv, OneEffectPerIdentity
<1>9. TranIsFirst'
  <2>1. \A j \in DOMAIN rkTries : rkTries'[j].server = "tran" =>
          j # i /\ rkTries[j].server = "tran" /\ rkTries'[j] = rkTries[j]
    BY <1>2, <1>5
  <2>2. \A e \in rkEffects' : e \in rkEffects \/ e = effect
    BY <1>4
  <2> HIDE DEF effect
  <2>3. QED BY <1>5, <1>6, <2>1, <2>2 DEF RkInv, ServerInv, TranIsFirst
<1>10. TargetsFit'
  BY <1>3, <1>4, <1>5 DEF RkInv, ServerInv, TargetsFit
<1>11. OkIsTrue' /\ ToldIsOk'
  <2>1. rkTries[i].client # "told"
    BY <1>4 DEF RkInv, ServerInv, ToldIsOk
  <2>2. ToldIsOk'
    BY <1>3, <1>5, <2>1 DEF RkInv, ServerInv, ToldIsOk
  <2>3. rkEffects \subseteq rkEffects'
    BY <1>4
  <2>4. committed => effect \in rkEffects' /\ effect.content = r.content
    BY <1>3, <1>4
  <2> HIDE DEF effect
  <2>5. OkIsTrue'
    BY <1>2, <1>5, <1>6, <2>3, <2>4 DEF RkInv, ServerInv, OkIsTrue
  <2>6. QED BY <2>2, <2>5
<1>12. QED BY <1>5, <1>7, <1>8, <1>9, <1>10, <1>11 DEF RkInv, ServerInv

LEMMA PublishKeepsInv ==
  ASSUME RkInv, RkPublish
  PROVE  RkInv'
<1>1. /\ rkPage = "start" /\ rkVersion' = rkVersion + 1
      /\ UNCHANGED <<rkPage, rkKey, rkKeys, rkContent, rkGen, rkBusy, rkTries, rkEffects, rkIntent>>
  BY DEF RkPublish
<1>2. Shape'
  BY <1>1 DEF RkInv, Shape
<1>3. ServerInv'
  BY <1>1 DEF RkInv, ServerInv, EffectsAreTries, OneEffectPerIdentity, TranIsFirst, TargetsFit, OkIsTrue, ToldIsOk
<1>4. KeyPageInv'
  BY <1>1 DEF RkInv, KeyPageInv, IntentsGrow, PresentHasKey, OneKeyPerIntent, LastKeepsBusy
<1>5. QED BY <1>2, <1>3, <1>4 DEF RkInv

LEMMA SettledKeepsInv ==
  ASSUME RkInv, NEW i \in DOMAIN rkTries, RkAnswer(i) \/ RkGiveUp(i)
  PROVE  RkInv'
<1>1. PICK outcome \in {"told", "refused", "gaveUp"} :
        /\ RkSettled(i, outcome)
        /\ outcome = "told" => rkTries[i].server = "ok"
        /\ rkIntent' \in {rkIntent, rkIntent + 1}
        /\ outcome # "gaveUp" /\ rkTries[i].intent = rkIntent => rkIntent' = rkIntent + 1
  BY DEF RkAnswer, RkGiveUp, NewIntent
<1>2. /\ rkTries[i].client = "waiting" /\ rkTries' = [rkTries EXCEPT ![i].client = outcome]
      /\ rkKey' = IF outcome # "gaveUp" /\ rkTries[i].gen = rkGen THEN 0 ELSE rkKey
      /\ rkBusy' = (rkBusy /\ rkTries[i].gen # rkGen)
      /\ UNCHANGED <<rkPage, rkKeys, rkContent, rkGen, rkVersion, rkEffects>>
  BY <1>1 DEF RkSettled, Settle
<1>3. rkTries \in Seq(Try) /\ \A j \in DOMAIN rkTries : rkTries[j] \in Try
  <2>1. rkTries \in Seq(Try)
    BY DEF RkInv, Shape
  <2>2. QED BY <2>1
<1>4. /\ DOMAIN rkTries' = DOMAIN rkTries /\ Len(rkTries') = Len(rkTries)
      /\ rkTries'[i] = [rkTries[i] EXCEPT !.client = outcome]
      /\ \A j \in DOMAIN rkTries : j # i => rkTries'[j] = rkTries[j]
  BY <1>2, <1>3
<1>5. \A j \in DOMAIN rkTries : /\ rkTries'[j] \in Try
                                /\ rkTries'[j].key = rkTries[j].key
                                /\ rkTries'[j].content = rkTries[j].content
                                /\ rkTries'[j].intent = rkTries[j].intent
                                /\ rkTries'[j].gen = rkTries[j].gen
                                /\ rkTries'[j].server = rkTries[j].server
                                /\ rkTries'[j].target = rkTries[j].target
                                /\ Identity(rkTries'[j]) = Identity(rkTries[j])
                                /\ rkTries'[j].client = IF j = i THEN outcome ELSE rkTries[j].client
  BY <1>3, <1>4 DEF Try, Identity
<1>6. Shape'
  <2>1. rkTries' \in Seq(Try)
    <3>1. [rkTries[i] EXCEPT !.client = outcome] \in Try
      BY <1>3, <1>1 DEF Try
    <3>2. rkTries' = [rkTries EXCEPT ![i] = [rkTries[i] EXCEPT !.client = outcome]]
      BY <1>2
    <3>3. QED BY <1>3, <3>1, <3>2
  <2>2. QED BY <1>1, <1>2, <2>1 DEF RkInv, Shape
<1>7. ServerInv'
  <2>1. EffectsAreTries'
    BY <1>2, <1>4, <1>5 DEF RkInv, ServerInv, EffectsAreTries
  <2>2. OneEffectPerIdentity'
    BY <1>2 DEF RkInv, ServerInv, OneEffectPerIdentity
  <2>3. TranIsFirst'
    BY <1>2, <1>4, <1>5 DEF RkInv, ServerInv, TranIsFirst
  <2>4. TargetsFit'
    BY <1>2, <1>4, <1>5 DEF RkInv, ServerInv, TargetsFit
  <2>5. OkIsTrue'
    BY <1>2, <1>4, <1>5 DEF RkInv, ServerInv, OkIsTrue
  <2>6. ToldIsOk'
    BY <1>1, <1>4, <1>5 DEF RkInv, ServerInv, ToldIsOk
  <2>7. QED BY <2>1, <2>2, <2>3, <2>4, <2>5, <2>6 DEF ServerInv
<1>8. KeyPageInv'
  <2>1. \A j \in DOMAIN rkTries : rkTries[j].intent \in Nat /\ rkTries[j].gen \in Nat
                                  /\ rkTries[j].intent <= rkIntent
    BY <1>3 DEF RkInv, KeyPageInv, IntentsGrow, Try
  <2>2. IntentsGrow' /\ OneKeyPerIntent'
    <3>1. IntentsGrow'
      BY <1>1, <1>2, <1>4, <1>5, <2>1 DEF RkInv, Shape, KeyPageInv, IntentsGrow
    <3>2. OneKeyPerIntent'
      BY <1>4, <1>5 DEF RkInv, KeyPageInv, OneKeyPerIntent
    <3>3. QED BY <3>1, <3>2
  <2>3. LastKeepsBusy'
    <3> SUFFICES ASSUME NEW j \in DOMAIN rkTries', rkTries'[j].client = "waiting", rkTries'[j].gen = rkGen'
                 PROVE  rkBusy' /\ j = Len(rkTries')
      BY DEF LastKeepsBusy
    <3>1. j \in DOMAIN rkTries /\ j # i /\ rkTries[j].client = "waiting" /\ rkTries[j].gen = rkGen
      BY <1>1, <1>2, <1>4, <1>5
    <3>2. rkBusy /\ j = Len(rkTries)
      BY <3>1 DEF RkInv, KeyPageInv, LastKeepsBusy
    <3>3. rkTries[i].gen # rkGen
      BY <1>2, <3>1, <3>2 DEF RkInv, KeyPageInv, LastKeepsBusy
    <3>4. QED BY <1>2, <1>4, <3>2, <3>3
  <2>4. PresentHasKey'
    <3>1. CASE rkIntent' = rkIntent + 1
      BY <1>4, <1>5, <2>1, <3>1 DEF RkInv, Shape, PresentHasKey
    <3>2. CASE rkIntent' = rkIntent /\ rkKey' = rkKey
      BY <1>2, <1>4, <1>5, <3>2 DEF RkInv, KeyPageInv, PresentHasKey
    <3>3. CASE rkIntent' = rkIntent /\ outcome # "gaveUp" /\ rkTries[i].gen = rkGen
      <4>1. rkTries[i].intent # rkIntent /\ i = Len(rkTries)
        BY <1>1, <1>2, <3>3 DEF RkInv, Shape, KeyPageInv, LastKeepsBusy
      <4>2. \A j \in DOMAIN rkTries : j <= i
        BY <1>3, <4>1
      <4>3. \A j \in DOMAIN rkTries : rkTries[j].intent <= rkTries[i].intent
        BY <4>2 DEF RkInv, KeyPageInv, IntentsGrow
      <4>4. \A j \in DOMAIN rkTries : rkTries[j].intent # rkIntent
        BY <2>1, <4>1, <4>3 DEF RkInv, Shape
      <4>5. QED BY <1>4, <1>5, <3>3, <4>4 DEF PresentHasKey
    <3>4. QED BY <1>1, <1>2, <3>1, <3>2, <3>3
  <2>5. QED BY <2>2, <2>3, <2>4 DEF KeyPageInv
<1>9. QED BY <1>6, <1>7, <1>8 DEF RkInv

LEMMA RkNextInv == RkInv /\ [RkNext]_rkVars => RkInv'
<1> SUFFICES ASSUME RkInv, [RkNext]_rkVars PROVE RkInv'
  OBVIOUS
<1>1. CASE RkEdit \/ RkOpen \/ RkSwitch
  BY <1>1, NewIntentKeepsInv
<1>2. CASE RkSubmit
  BY <1>2, KeySubmitKeepsInv
<1>3. ASSUME NEW i \in DOMAIN rkTries,
             RkServeBegin(i) \/ RkLoseRequest(i) \/ \E refused \in BOOLEAN : RkResolve(i, refused)
      PROVE  RkInv'
  BY <1>3, ServeKeepsInv
<1>4. ASSUME NEW i \in DOMAIN rkTries, NEW committed \in BOOLEAN, RkServeEnd(i, committed) PROVE RkInv'
  BY <1>4, ServeEndKeepsInv
<1>5. ASSUME NEW i \in DOMAIN rkTries, RkAnswer(i) \/ RkGiveUp(i) PROVE RkInv'
  BY <1>5, SettledKeepsInv
<1>6. CASE UNCHANGED rkVars
  BY <1>6 DEF rkVars, RkInv, Shape, ServerInv, KeyPageInv, EffectsAreTries, OneEffectPerIdentity, TranIsFirst, TargetsFit,
              OkIsTrue, ToldIsOk, IntentsGrow, PresentHasKey, OneKeyPerIntent, LastKeepsBusy
<1>7. CASE RkPublish
  BY <1>7, PublishKeepsInv
<1>8. QED BY <1>1, <1>2, <1>3, <1>4, <1>5, <1>6, <1>7 DEF RkNext

(* The inductive invariant: the server keeps one effect for an identity,    *)
(* the page one key and one content for an intent.                          *)
THEOREM KeysInvariant == RkSpec => []RkInv
BY RkInitInv, RkNextInv, PTL DEF RkSpec

LEMMA RkInvOnce == RkInv => RkOncePerIntent
<1> SUFFICES ASSUME RkInv, NEW e \in rkEffects, NEW f \in rkEffects, e.intent = f.intent, e # f
             PROVE  rkPage = "start" /\ e.target[1] # f.target[1]
  BY DEF RkOncePerIntent
<1>1. /\ e.try \in DOMAIN rkTries /\ rkTries[e.try].server = "ok" /\ e.target = rkTries[e.try].target
      /\ e.key = rkTries[e.try].key /\ e.intent = rkTries[e.try].intent
      /\ f.try \in DOMAIN rkTries /\ rkTries[f.try].server = "ok" /\ f.target = rkTries[f.try].target
      /\ f.key = rkTries[f.try].key /\ f.intent = rkTries[f.try].intent
  BY DEF RkInv, ServerInv, EffectsAreTries
<1>2. e.key = f.key /\ rkTries[e.try].content = rkTries[f.try].content
  BY <1>1 DEF RkInv, KeyPageInv, OneKeyPerIntent
<1>3. e.target # f.target
  BY <1>2 DEF RkInv, ServerInv, OneEffectPerIdentity, Identity
<1>4. PICK v \in Nat : e.target = <<v, rkTries[e.try].content = 3>> /\ (rkPage # "start" => v = 1)
  BY <1>1 DEF RkInv, ServerInv, TargetsFit
<1>5. PICK w \in Nat : f.target = <<w, rkTries[f.try].content = 3>> /\ (rkPage # "start" => w = 1)
  BY <1>1 DEF RkInv, ServerInv, TargetsFit
<1>6. v # w
  BY <1>2, <1>3, <1>4, <1>5
<1>7. QED BY <1>4, <1>5, <1>6

(* What the user wanted once happens at most once, but for a start whose    *)
(* definition was published in between (value, settle and reset of          *)
(* useRequestKey, the resolution in StartAsync, TryBeginAsync), for any     *)
(* number of submissions, versions and intents.                             *)
THEOREM OncePerIntent == RkSpec => []RkOncePerIntent
BY RkInvOnce, KeysInvariant, PTL

(* Success that is shown is success of what was submitted (TryBeginAsync    *)
(* compares the payload).                                                   *)
THEOREM SuccessIsTrue == RkSpec => []RkSuccessIsTrue
<1>1. RkInv => RkSuccessIsTrue
  BY DEF RkInv, ServerInv, OkIsTrue, ToldIsOk, RkSuccessIsTrue
<1>2. QED BY <1>1, KeysInvariant, PTL
==============================================================================
