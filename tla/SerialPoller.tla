----------------------------- MODULE SerialPoller -----------------------------
(***************************************************************************)
(* The serial poller of the job monitor (views/system/job-monitor/         *)
(* poller): one request at a time, a timer between two of them, and        *)
(* start/stop as the page is shown and left. Stopping does not abort the   *)
(* request in flight: it only makes its answer void.                       *)
(*                                                                         *)
(* A request carries the generation it was begun in, whether its failure   *)
(* may be shown (loud), and, as history, the visit of the page.            *)
(***************************************************************************)
EXTENDS Naturals, Sequences

CONSTANT PollMaxVisits     \* bound of the page's visits

ASSUME PollAssumption == PollMaxVisits \in Nat

VARIABLES plActive, plGen, plInFlight, plQueued, plTimer,
          plFetches,       \* the requests the server has not answered
          plVisit,         \* history: visits so far
          plShown,         \* history: visit of the snapshot shown, and visit it was applied in
          plOwed           \* history: a loud refresh nobody has sent yet

pollVars == <<plActive, plGen, plInFlight, plQueued, plTimer, plFetches, plVisit, plShown, plOwed>>

PollTypeOK ==
  /\ plActive \in BOOLEAN /\ plInFlight \in BOOLEAN /\ plTimer \in BOOLEAN /\ plOwed \in BOOLEAN
  /\ plGen \in Nat /\ plVisit \in Nat
  /\ plQueued \in {"null", "silent", "loud"}
  /\ plShown \in [of : Nat, in : Nat]
  /\ plFetches \in Seq([gen : Nat, loud : BOOLEAN, visit : Nat])

PollInit ==
  /\ plActive = FALSE /\ plGen = 0 /\ plInFlight = FALSE /\ plQueued = "null" /\ plTimer = FALSE
  /\ plFetches = <<>> /\ plVisit = 0 /\ plShown = [of |-> 0, in |-> 0] /\ plOwed = FALSE

\* refresh up to its await, when nothing is in flight; others: the rest of plFetches.
Send(others, gen, visit, loud) ==
  /\ plTimer' = FALSE /\ plInFlight' = TRUE
  /\ plFetches' = Append(others, [gen |-> gen, loud |-> loud, visit |-> visit])
  /\ plOwed' = (plOwed /\ ~loud)

\* refresh while a request is in flight: a loud wish outlives a silent one.
Queue(loud) ==
  /\ plQueued' = IF loud \/ plQueued = "loud" THEN "loud" ELSE "silent"
  /\ plOwed' = (plOwed \/ loud)
  /\ UNCHANGED <<plTimer, plInFlight, plFetches>>

\* start(false): the page is mounted or activated again.
PollStart ==
  /\ ~plActive /\ plVisit < PollMaxVisits
  /\ plActive' = TRUE /\ plGen' = plGen + 1 /\ plVisit' = plVisit + 1
  /\ IF plInFlight
     THEN Queue(TRUE)
     ELSE Send(plFetches, plGen + 1, plVisit + 1, TRUE) /\ UNCHANGED plQueued
  /\ UNCHANGED plShown

\* stop: deactivated or unmounted.
PollStop ==
  /\ plActive
  /\ plActive' = FALSE /\ plGen' = plGen + 1 /\ plQueued' = "null" /\ plTimer' = FALSE
  /\ plOwed' = FALSE
  /\ UNCHANGED <<plInFlight, plFetches, plVisit, plShown>>

\* The timer calls refresh(true), whose first line drops the call of a stopped poller.
PollTimer ==
  /\ plTimer
  /\ IF plActive /\ ~plInFlight
     THEN Send(plFetches, plGen, plVisit, FALSE) /\ UNCHANGED plQueued
     ELSE /\ plTimer' = FALSE
          /\ plQueued' = IF plActive /\ plQueued = "null" THEN "silent" ELSE plQueued
          /\ UNCHANGED <<plInFlight, plFetches, plOwed>>
  /\ UNCHANGED <<plActive, plGen, plVisit, plShown>>

\* Whether the answer of fetch f still concerns the page.
IsValid(f) == plActive /\ f.gen = plGen

\* Mutant of Finish: a queued wish to report a failure is forgotten.
FinishMutant(f, rest) ==
  IF ~plActive
  THEN plInFlight' = FALSE /\ plFetches' = rest /\ UNCHANGED <<plTimer, plQueued, plOwed>>
  ELSE IF f.gen # plGen \/ plQueued # "null"
  THEN plQueued' = "null" /\ Send(rest, plGen, plVisit, FALSE)
  ELSE plInFlight' = FALSE /\ plTimer' = TRUE /\ plFetches' = rest /\ UNCHANGED <<plQueued, plOwed>>

\* The `finally' of refresh, with `rest' the other requests in flight.
Finish(f, rest) ==
  IF ~plActive
  THEN plInFlight' = FALSE /\ plFetches' = rest /\ UNCHANGED <<plTimer, plQueued, plOwed>>
  ELSE IF f.gen # plGen \/ plQueued # "null"
  THEN plQueued' = "null" /\ Send(rest, plGen, plVisit, plQueued = "loud")
  ELSE plInFlight' = FALSE /\ plTimer' = TRUE /\ plFetches' = rest /\ UNCHANGED <<plQueued, plOwed>>

PollAnswer(i, ok) ==
  LET f == plFetches[i]
      rest == [k \in 1..(Len(plFetches) - 1) |-> plFetches[IF k < i THEN k ELSE k + 1]]
  IN /\ plShown' = IF ok /\ IsValid(f) THEN [of |-> f.visit, in |-> plVisit] ELSE plShown
     /\ Finish(f, rest)
     /\ UNCHANGED <<plActive, plGen, plVisit>>

PollNext ==
  \/ PollStart \/ PollStop \/ PollTimer
  \/ \E i \in DOMAIN plFetches, ok \in BOOLEAN : PollAnswer(i, ok)

PollSpec == PollInit /\ [][PollNext]_pollVars

------------------------------------------------------------------------------
\* Never two requests at the server.
PollSingleFlight == Len(plFetches) <= 1

\* What an answer puts on the page was asked for during the same visit.
PollShowsThisVisit == plShown.of = plShown.in

\* A page shown is never without a next poll; a page left has no timer and no wish.
PollNeverDeaf == IF plActive THEN plInFlight \/ plTimer ELSE ~plTimer /\ plQueued = "null"

\* The first request of a visit reports its failure even when it has to wait.
PollLoudIsKept == plOwed => plActive /\ plInFlight /\ plQueued = "loud"

(* However often the page is left and entered again while a request is      *)
(* slow: never two requests at once, never an answer of the visit before,   *)
(* never a page without a next poll, no traffic for a page that was         *)
(* left, and never a first request whose failure nobody is told.            *)
PollSerial == PollSingleFlight /\ PollShowsThisVisit /\ PollNeverDeaf /\ PollLoudIsKept
==============================================================================
