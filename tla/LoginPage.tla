------------------------------- MODULE LoginPage -------------------------------
(***************************************************************************)
(* The login form of the two consoles (views/login/LoginForm): account,    *)
(* text-message code, and the two second factors a password login may be   *)
(* answered with. The captcha ticket is used up by the request it goes     *)
(* with; the Enter key, the button and the links of the form all work      *)
(* while requests are out, and the form is there until the navigation home *)
(* that follows a login has arrived, with the ticket that login used up.   *)
(*                                                                         *)
(* A request is known by its kind, the captcha ticket it carries (0 for    *)
(* none), its challenge for a second factor and, if it asks for a text     *)
(* message, its number.                                                    *)
(***************************************************************************)
EXTENDS Naturals, FiniteSets

CONSTANTS LpMaxTickets,    \* bound of the captcha tickets the server issues
          LpMaxChallenges, \* bound of the challenges it issues
          LpMaxSends       \* bound of the text messages sent

\* The form opens with a captcha.
ASSUME LoginAssumption ==
  LpMaxTickets \in Nat \ {0} /\ LpMaxChallenges \in Nat /\ LpMaxSends \in Nat

VARIABLES lpFront,         \* "vue" or "react"
          lpMode,          \* "account", "sms", "mfa", "totp", and "in" once logged in
          lpTicket,        \* the captcha ticket shown, 0 for none
          lpLoads,         \* captcha loads nobody waits for
          lpBusy,          \* Vue: accountLoading; React: accountSubmitBusyRef
          lpReqs,          \* requests the server has not answered to the page
          lpRefresh,       \* the load a failed login awaits in refreshAfterUse
          lpLink,          \* the visit came with an external identity to bind (pendingLink)
          lpHome,          \* after a login: "confirm" while the dialog asks about the binding;
                           \* "awaited" while its handler waits for the navigation home, "free"
                           \* when that navigation holds no flag; else "no"
          lpCountdown,     \* countdown > 0
          lpChallenge,     \* the challenge of the second factor, 0 for none
          lpIssued,        \* tickets and challenges issued, messages sent
          lpUsed,          \* history: how often an account login presented a ticket, up to 2
          lpTaken          \* history: the tickets of the account logins that were accepted

loginVars == <<lpFront, lpMode, lpTicket, lpLoads, lpBusy, lpReqs, lpRefresh, lpLink, lpHome,
               lpCountdown, lpChallenge, lpIssued, lpUsed, lpTaken>>

Kinds == {"account", "sms", "mfa", "totp"}
Submit(kind, ticket, challenge, send) ==
  [kind |-> kind, ticket |-> ticket, challenge |-> challenge, send |-> send]
InFlight(kinds) == {r \in lpReqs : r.kind \in kinds}

LpTypeOK ==
  /\ lpFront \in {"vue", "react"} /\ lpMode \in Kinds \cup {"in"}
  /\ lpTicket \in 0..LpMaxTickets /\ lpChallenge \in 0..LpMaxChallenges
  /\ {lpBusy, lpRefresh, lpCountdown, lpLink} \subseteq BOOLEAN /\ lpLoads \in Nat
  /\ lpHome \in {"no", "confirm", "awaited", "free"}
  /\ \A r \in lpReqs : r.kind \in Kinds \cup {"send"} /\ r.ticket \in 0..LpMaxTickets
  /\ lpUsed \in [1..LpMaxTickets -> 0..2] /\ lpTaken \subseteq 1..LpMaxTickets

\* A captcha has been loaded before anything is typed.
LpInit ==
  /\ lpFront \in {"vue", "react"} /\ lpMode = "account" /\ lpTicket = 1
  /\ lpLoads = 0 /\ lpBusy = FALSE /\ lpReqs = {} /\ lpRefresh = FALSE
  /\ lpLink \in BOOLEAN /\ lpHome = "no"
  /\ lpCountdown = FALSE /\ lpChallenge = 0 /\ lpTaken = {}
  /\ lpIssued = [tickets |-> 1, challenges |-> 0, sends |-> 0]
  /\ lpUsed = [k \in 1..LpMaxTickets |-> 0]

Fetching == lpLoads > 0 \/ lpRefresh

\* Mutant of Blocked: each form looks at its own requests only.
BlockedMutant(kind) == lpBusy \/ InFlight({kind}) # {}

\* Vue: the computed `loading' that guards onSubmit. React: the ref that guards onFinish,
\* which the Enter key of the second-factor inputs does not look at.
Blocked(kind) ==
  IF lpFront = "vue"
  THEN lpBusy \/ Fetching \/ InFlight({"sms", "mfa", "totp"}) # {}
  ELSE lpBusy /\ kind \in {"account", "sms"}

\* The kinds whose handler sets and clears the flag.
HoldsBusy(kind) == kind = "account" \/ (lpFront = "react" /\ kind = "sms")

\* What the user may work: the dialog is modal.
Works(kinds) == lpMode \in kinds /\ lpHome # "confirm"

\* onSubmit: the account login presents the ticket shown. Vue refuses without one; React
\* lets the server refuse.
LpSubmit(kind) ==
  /\ Works({kind}) /\ ~Blocked(kind)
  /\ kind = "account" /\ lpFront = "vue" => lpTicket # 0
  /\ kind \in {"mfa", "totp"} => lpChallenge # 0
  /\ lpReqs' = lpReqs \cup {Submit(kind, IF kind = "account" THEN lpTicket ELSE 0,
                                   IF kind \in {"mfa", "totp"} THEN lpChallenge ELSE 0, 0)}
  /\ lpBusy' = (lpBusy \/ HoldsBusy(kind))
  /\ lpUsed' = IF kind = "account" /\ lpTicket # 0 THEN [lpUsed EXCEPT ![lpTicket] = IF @ = 0 THEN 1 ELSE 2] ELSE lpUsed
  /\ UNCHANGED <<lpFront, lpMode, lpTicket, lpLoads, lpRefresh, lpLink, lpHome, lpCountdown,
                 lpChallenge, lpIssued, lpTaken>>

(* finishLogin: ask about the binding, or go home. Only Vue's account login *)
(* waits for the navigation; the others have cleared their flag before it.  *)
LpAccepted(r) ==
  /\ r.kind \in Kinds /\ lpReqs' = lpReqs \ {r}
  /\ lpTaken' = lpTaken \cup ({r.ticket} \ {0})
  /\ lpHome' = IF lpLink THEN "confirm"
               ELSE IF lpFront = "vue" /\ r.kind = "account" THEN "awaited" ELSE "free"
  /\ lpBusy' = (lpBusy /\ (lpHome' = "awaited" \/ ~HoldsBusy(r.kind)))
  /\ UNCHANGED <<lpFront, lpMode, lpTicket, lpLoads, lpRefresh, lpLink, lpCountdown, lpChallenge,
                 lpIssued, lpUsed>>

\* confirmPendingBind, whether or not the binding is claimed, and skipPendingBind. In Vue the
\* Escape key closes the dialog and nobody goes home.
LpConfirmed ==
  /\ lpHome = "confirm"
  /\ lpHome' = "free" \/ (lpFront = "vue" /\ lpHome' = "no")
  /\ UNCHANGED <<lpFront, lpMode, lpTicket, lpLoads, lpBusy, lpReqs, lpRefresh, lpLink, lpCountdown,
                 lpChallenge, lpIssued, lpUsed, lpTaken>>

\* A captcha load begins. Vue's load joins one under way and gives the ticket up before it
\* asks for another; React's keeps the ticket until another has come.
TicketMeanwhile == IF lpFront = "vue" THEN 0 ELSE lpTicket

BeginCaptcha ==
  IF lpFront = "vue" /\ Fetching
  THEN UNCHANGED <<lpLoads, lpTicket>>
  ELSE lpLoads' = lpLoads + 1 /\ lpTicket' = TicketMeanwhile

\* refreshAfterUse, awaited by the handler of a failed login of this kind.
RefreshAfterUse(kind) ==
  IF ~HoldsBusy(kind)
  THEN UNCHANGED <<lpTicket, lpRefresh, lpBusy>>
  ELSE IF lpFront = "vue" /\ Fetching
  THEN lpBusy' = FALSE /\ UNCHANGED <<lpTicket, lpRefresh>>
  ELSE lpRefresh' = TRUE /\ lpTicket' = TicketMeanwhile /\ UNCHANGED lpBusy

(* The navigation home leaves the page; or it is superseded or led back to  *)
(* the login page; or it fails, which the handler that waits for it takes   *)
(* for a failed login.                                                      *)
LpHomeEnds(outcome) ==
  /\ lpHome \in {"awaited", "free"} /\ lpHome' = "no"
  /\ lpMode' = IF outcome = "left" THEN "in" ELSE lpMode
  /\ IF lpHome = "awaited" /\ outcome = "failed"
     THEN RefreshAfterUse("account")
     ELSE lpBusy' = (lpBusy /\ lpHome = "free") /\ UNCHANGED <<lpTicket, lpRefresh>>
  /\ UNCHANGED <<lpFront, lpLoads, lpReqs, lpLink, lpCountdown, lpChallenge, lpIssued, lpUsed, lpTaken>>

\* The account login fails, or asks for a second factor (40018, 40009).
LpRefused(r) ==
  /\ r.kind \in Kinds /\ lpReqs' = lpReqs \ {r}
  /\ \/ UNCHANGED <<lpMode, lpChallenge, lpIssued, lpCountdown>>
     \/ /\ r.kind = "account" /\ lpIssued.challenges < LpMaxChallenges
        /\ lpIssued' = [lpIssued EXCEPT !.challenges = @ + 1]
        /\ lpChallenge' = lpIssued.challenges + 1
        /\ \/ lpMode' = "totp" /\ UNCHANGED lpCountdown
           \/ lpMode' = "mfa" /\ lpCountdown' = TRUE
  /\ RefreshAfterUse(r.kind)
  /\ UNCHANGED <<lpFront, lpLoads, lpLink, lpHome, lpUsed, lpTaken>>

\* onSendSmsCode and onMfaResend: only the countdown holds them back.
LpSend ==
  LET n == lpIssued.sends + 1
  IN /\ ~lpCountdown /\ n <= LpMaxSends
     /\ \/ Works({"sms"}) /\ lpTicket # 0 /\ lpReqs' = lpReqs \cup {Submit("send", lpTicket, 0, n)}
        \/ Works({"mfa"}) /\ lpReqs' = lpReqs \cup {Submit("send", 0, lpChallenge, n)}
     /\ lpIssued' = [lpIssued EXCEPT !.sends = n]
     /\ UNCHANGED <<lpFront, lpMode, lpTicket, lpLoads, lpBusy, lpRefresh, lpLink, lpHome, lpCountdown,
                    lpChallenge, lpUsed, lpTaken>>

\* Vue ignores what a send that is not the last one says of the countdown.
LpSendAnswered(r, ok) ==
  /\ r.kind = "send" /\ lpReqs' = lpReqs \ {r}
  /\ lpCountdown' = (lpCountdown \/ (ok /\ (lpFront = "vue" => r.send = lpIssued.sends)))
  /\ IF r.challenge = 0 THEN BeginCaptcha ELSE UNCHANGED <<lpLoads, lpTicket>>
  /\ UNCHANGED <<lpFront, lpMode, lpBusy, lpRefresh, lpLink, lpHome, lpChallenge, lpIssued, lpUsed, lpTaken>>

LpCountdownEnds ==
  /\ lpCountdown /\ lpCountdown' = FALSE
  /\ UNCHANGED <<lpFront, lpMode, lpTicket, lpLoads, lpBusy, lpReqs, lpRefresh, lpLink, lpHome,
                 lpChallenge, lpIssued, lpUsed, lpTaken>>

\* A captcha arrives, or not; `own': it is the one a failed login waited for.
LpCaptchaLoaded(own, ok) ==
  /\ IF own THEN lpRefresh /\ lpRefresh' = FALSE /\ lpBusy' = FALSE /\ UNCHANGED lpLoads
            ELSE lpLoads > 0 /\ lpLoads' = lpLoads - 1 /\ UNCHANGED <<lpRefresh, lpBusy>>
  /\ IF ok
     THEN /\ lpIssued.tickets < LpMaxTickets
          /\ lpIssued' = [lpIssued EXCEPT !.tickets = @ + 1] /\ lpTicket' = lpIssued.tickets + 1
     ELSE UNCHANGED <<lpIssued, lpTicket>>
  /\ UNCHANGED <<lpFront, lpMode, lpReqs, lpLink, lpHome, lpCountdown, lpChallenge, lpUsed, lpTaken>>

\* A click on the picture, or on "retry", loads another one.
LpCaptchaClicked ==
  /\ Works({"account", "sms"}) /\ lpLoads = 0 /\ BeginCaptcha
  /\ UNCHANGED <<lpFront, lpMode, lpBusy, lpReqs, lpRefresh, lpLink, lpHome, lpCountdown, lpChallenge,
                 lpIssued, lpUsed, lpTaken>>

\* The links of the form: another way to log in, and back from the second factor.
LpToggle ==
  /\ Works({"account", "sms"})
  /\ lpMode' = IF lpMode = "account" THEN "sms" ELSE "account"
  /\ UNCHANGED <<lpFront, lpTicket, lpLoads, lpBusy, lpReqs, lpRefresh, lpLink, lpHome, lpCountdown,
                 lpChallenge, lpIssued, lpUsed, lpTaken>>

LpBack ==
  /\ Works({"mfa", "totp"}) /\ lpMode' = "account" /\ lpChallenge' = 0
  /\ UNCHANGED <<lpFront, lpTicket, lpLoads, lpBusy, lpReqs, lpRefresh, lpLink, lpHome, lpCountdown,
                 lpIssued, lpUsed, lpTaken>>

\* Once the page is left nothing more happens to it.
LpNext ==
  /\ lpMode # "in"
  /\ \/ \E kind \in Kinds : LpSubmit(kind)
     \/ \E r \in lpReqs : \/ LpAccepted(r) \/ LpRefused(r)
                          \/ \E ok \in BOOLEAN : LpSendAnswered(r, ok)
     \/ LpSend \/ LpCountdownEnds \/ LpCaptchaClicked \/ LpToggle \/ LpBack \/ LpConfirmed
     \/ \E outcome \in {"left", "stayed", "failed"} : LpHomeEnds(outcome)
     \/ \E own, ok \in BOOLEAN : LpCaptchaLoaded(own, ok)

LpSpec == LpInit /\ [][LpNext]_loginVars

------------------------------------------------------------------------------
(* However the user switches between the ways to log in while a request is  *)
(* out, the Vue form never has two logins at the server, and the React form *)
(* never two of its account and text-message logins. And the Vue form       *)
(* presents no captcha ticket twice, but for the one of a login that was    *)
(* accepted, which is still shown on a form that has not left for home yet. *)
(* The React form presents one again whenever the next cannot be loaded.    *)
LoginOnce ==
  /\ Cardinality(InFlight(IF lpFront = "vue" THEN Kinds ELSE {"account", "sms"})) <= 1
  /\ lpFront = "vue" => \A k \in 1..LpMaxTickets \ lpTaken : lpUsed[k] <= 1
==============================================================================
