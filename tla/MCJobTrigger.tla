--------------------------- MODULE MCJobTrigger ---------------------------
(***************************************************************************)
(* Checks JobTrigger against reference definitions.  A state is a job      *)
(* configuration and an instant; a step follows the chain of occurrences   *)
(* the way the scheduler does, from one ComputeNext to the next.           *)
(***************************************************************************)
EXTENDS JobTrigger

CONSTANT LastInstant     \* bound: the last second of the exploration

ASSUME LastInstantAssumption == LastInstant \in Nat

VARIABLES job, expected, now

vars == <<job, expected, now>>

Instants == 0..LastInstant

\* What JobService.ApplyInput lets through: a window that is not empty.
Jobs ==
    {j \in TriggerOf(Instants \ {0}) :
        /\ j.start # NoTime /\ j.end # NoTime => j.end > j.start
        /\ j.kind # "Cron" => j.fires = {}
        /\ j.kind = "Cron" => j.fires # {}
        /\ j.kind # "Interval" => j.period = 1
        /\ j.kind # "OneShot" => j.at = 1}

Init ==
    /\ job \in Jobs
    /\ now \in Instants
    /\ expected = NoTime           \* a new job, not armed yet

\* A tick at now moves the job to its next occurrence; the next tick comes at
\* that instant or later.
Advance ==
    /\ ComputeNext(job, now) \in Instants
    /\ expected' = ComputeNext(job, now)
    /\ now' \in ComputeNext(job, now)..LastInstant
    /\ UNCHANGED job

Next == Advance

Spec == Init /\ [][Next]_vars

(***************************************************************************)
(* Reference definitions: the window as a set, with no search in it.       *)
(***************************************************************************)
InWindow(j, t) ==
    /\ j.start # NoTime => j.start <= t
    /\ j.end # NoTime => t <= j.end

LeastOf(S) == IF S = {} THEN NoTime ELSE CHOOSE t \in S : \A u \in S : t <= u

\* For a cron job, ComputeNext returns the first match inside the effective
\* window strictly after the given instant, StartTime and EndTime included
\* (JobTrigger.cs:17-29: the search starts at StartTime - 1 s).
CronNextIsFirstInWindow ==
    job.kind = "Cron" =>
        ComputeNext(job, now)
            = LeastOf({t \in job.fires : t > now /\ InWindow(job, t)})

\* For a job with no EndTime, the number of missed occurrences written into
\* a MissedSkipped row is the number of instants in [expected, now] at which
\* the job was due, up to the cap (JobTrigger.cs:33-53): the expected one is
\* the first that was missed and counts, although the comment at
\* JobTrigger.cs:32 says "(expected, now]", which would leave it out.
MissedCountsTheDueInstants ==
    expected # NoTime /\ job.end = NoTime =>
        LET due == CASE job.kind = "Cron" ->
                            {t \in job.fires : expected <= t /\ t <= now}
                     [] job.kind = "Interval" ->
                            {t \in expected..now : (t - expected) % job.period = 0}
                     [] OTHER -> {expected}
        IN  CountMissed(job, expected, now) = MinOf(Cardinality(due), MissedCap)
=============================================================================
