-------------------------- MODULE MCJobScheduler --------------------------
(***************************************************************************)
(* Small instances of JobScheduler.  The runs differ in the trigger, in    *)
(* the administrative requests made and in the clocks.                     *)
(***************************************************************************)
EXTENDS JobScheduler, TLC

CONSTANTS n1, n2, a1, a2

NoTrigger == [kind |-> "Cron", fires |-> {}, period |-> 1, at |-> 0,
              start |-> NoTime, end |-> NoTime]

\* Every second, for as long as the clock of this instance runs.
EverySecond == [NoTrigger EXCEPT !.fires = 1..(MaxTime + 2)]
Interval2   == [NoTrigger EXCEPT !.kind = "Interval", !.period = 2]
Once        == [NoTrigger EXCEPT !.kind = "OneShot", !.at = 1]

CronOnly      == {EverySecond}
CronOrInterval == {EverySecond, Interval2}
\* A window that closed before the clock of the instance started.
Over        == [EverySecond EXCEPT !.end = 0]
CronOrOver    == {EverySecond, Over}
OnceOnly      == {Once}

Admins == Permutations({a1, a2})
Nodes  == Permutations({n1, n2})

NoSkew  == [n \in Node |-> 0]
Drifted == [n \in Node |-> IF n = n1 THEN 0 ELSE 1]
=============================================================================
