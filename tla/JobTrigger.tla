---------------------------- MODULE JobTrigger ----------------------------
(***************************************************************************)
(* The pure functions of JobTrigger.cs: when a job fires next, and how     *)
(* many occurrences a late tick has missed.                                *)
(*                                                                         *)
(* Instants are whole seconds (JobTime.Truncate), counted from an          *)
(* arbitrary origin.  A cron expression is the set of instants it          *)
(* matches; parsing it and searching the calendar belong to                *)
(* CronExpression.cs.  A nullable DateTime is an integer or NoTime.        *)
(***************************************************************************)
EXTENDS Integers, FiniteSets

CONSTANT MissedCap      \* the 1000 at which CountMissed stops counting

ASSUME MissedCapAssumption == MissedCap \in Nat \ {0}

\* The null of a nullable DateTime; never an instant, since those are in Nat.
NoTime == -1

MinOf(a, b) == IF a <= b THEN a ELSE b

\* The columns of SysJob that say when a job fires.  The table holds all of
\* them for every kind; the ones its kind does not use are ignored.
TriggerOf(instants) ==
    [kind   : {"Cron", "Interval", "OneShot"},
     fires  : SUBSET instants,             \* CronExpression: instants it matches
     period : instants,                    \* IntervalSeconds
     at     : instants,                    \* OneShotTime
     start  : instants \cup {NoTime},      \* StartTime
     end    : instants \cup {NoTime}]      \* EndTime

IsNextIn(fires, from, t) ==
    /\ t \in fires
    /\ t > from
    /\ \A u \in fires : u > from => t <= u

\* CronExpression.GetNextOccurrence: the first match strictly after from.
GetNextOccurrence(fires, from) ==
    IF \E t \in fires : IsNextIn(fires, from, t)
    THEN CHOOSE t \in fires : IsNextIn(fires, from, t)
    ELSE NoTime

\* Mutant of SearchFrom: the search starts at StartTime and misses it.
SearchFromMutant(job, after) ==
    IF job.start # NoTime /\ job.start > after THEN job.start ELSE after

\* Before the effective window opens the search starts one second ahead of
\* StartTime, so that StartTime itself is a candidate.
SearchFrom(job, after) ==
    IF job.start # NoTime /\ job.start > after THEN job.start - 1 ELSE after

Candidate(job, after) ==
    CASE job.kind = "Cron"     -> GetNextOccurrence(job.fires, SearchFrom(job, after))
      [] job.kind = "Interval" -> IF job.period > 0
                                  THEN SearchFrom(job, after) + job.period
                                  ELSE NoTime
      [] job.kind = "OneShot"  -> IF job.at > after THEN job.at ELSE NoTime

ComputeNext(job, after) ==
    LET next == Candidate(job, after)
    IN  IF next # NoTime /\ job.end # NoTime /\ next > job.end THEN NoTime ELSE next

\* Mutant of CronWalk: the occurrence due at this very instant is not counted.
CronWalkMutant(job, expected, now) ==
    LET walk[p \in (1..MissedCap) \X ({expected} \cup job.fires)] ==
            LET next == GetNextOccurrence(job.fires, p[2])
            IN  IF p[1] < MissedCap /\ next # NoTime /\ next < now
                THEN walk[<<p[1] + 1, next>>]
                ELSE p[1]
    IN  walk[<<1, expected>>]

\* The cron branch of CountMissed walks from expected to now one match at a
\* time, the first one (expected itself) already counted, at most MissedCap.
\* A pair is the count so far and the cursor.
CronWalk(job, expected, now) ==
    LET walk[p \in (1..MissedCap) \X ({expected} \cup job.fires)] ==
            LET next == GetNextOccurrence(job.fires, p[2])
            IN  IF p[1] < MissedCap /\ next # NoTime /\ next <= now
                THEN walk[<<p[1] + 1, next>>]
                ELSE p[1]
    IN  walk[<<1, expected>>]

CountMissed(job, expected, now) ==
    CASE job.kind = "Interval" /\ job.period > 0 ->
             MinOf((now - expected) \div job.period + 1, MissedCap)
      [] job.kind = "Cron" -> CronWalk(job, expected, now)
      [] OTHER             -> 1
=============================================================================
