--------------------------- MODULE JobOccurrence ---------------------------
(***************************************************************************)
(* What the scheduler promises about one job, without replicas, leases or  *)
(* a database: at most one occurrence is armed, an armed occurrence is     *)
(* later than every occurrence handed out before, and handing one out      *)
(* takes it away.  So none is handed out twice.                            *)
(***************************************************************************)
EXTENDS Integers

VARIABLES
    armed,      \* the occurrence waiting to be handed out, or NoOccurrence
    handedOut   \* the occurrences handed out so far

vars == <<armed, handedOut>>

NoOccurrence == -1

IsLater(t, S) == \A u \in S : t > u

Init ==
    /\ armed \in Nat \cup {NoOccurrence}
    /\ handedOut = {}

\* Arm, re-arm (an administrator changed the trigger) or disarm.
Arm ==
    /\ handedOut' = handedOut
    /\ armed' \in Nat \cup {NoOccurrence}
    /\ armed' # NoOccurrence => IsLater(armed', handedOut)

HandOut ==
    /\ armed # NoOccurrence
    /\ armed \notin handedOut
    /\ handedOut' = handedOut \cup {armed}
    /\ armed' \in Nat \cup {NoOccurrence}
    /\ armed' # NoOccurrence => IsLater(armed', handedOut')

Next == Arm \/ HandOut

Spec == Init /\ [][Next]_vars
=============================================================================
