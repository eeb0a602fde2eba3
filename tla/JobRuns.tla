------------------------------ MODULE JobRuns ------------------------------
(***************************************************************************)
(* What becomes of a fire: JobExecutor.cs and the log rows (sys_job_log)   *)
(* it writes, the heartbeat rows (sys_job_node), the leader that closes    *)
(* the rows of dead processes (ReapOrphanRunsAsync), "run once" and "kill" *)
(* requests, and the drain of a host that stops.                           *)
(*                                                                         *)
(* Which occurrences are claimed, and that each is claimed once, belongs   *)
(* to JobScheduler: here any scheduling replica may reserve a slot, and    *)
(* its claim succeeds or fails.  Every action is one database statement,   *)
(* or one critical section under _fireGate, and the local computation      *)
(* around it.  Clocks agree in this module.                                *)
(***************************************************************************)
EXTENDS Integers, FiniteSets, FiniteSetsExt

CONSTANTS
    Node,
    Scheduling,         \* the replicas with SchedulerEnabled
    Job,
    SerialSkip,         \* the jobs whose ConcurrencyMode is SerialSkip
    MaxConcurrentRuns,
    RetryCount,
    FailAlertThreshold,
    HeartbeatSeconds,
    LeaseSeconds,
    Events,             \* which of "manual", "kill", "timeout", "crash", "stop",
                        \* "closeFails", "enable" happen
    MaxFires,           \* bound: fires in one behaviour
    MaxTime,            \* bound: time stops here
    CrashBefore,        \* bound: crashes, stops and failed statements come before this instant
    MaxRestarts         \* bound: how often a replica crashes or stops

ASSUME JobRunsAssumption ==
    /\ Scheduling \subseteq Node /\ SerialSkip \subseteq Job
    /\ "none" \notin Node                      \* stands for no replica
    /\ Events \subseteq {"manual", "kill", "timeout", "crash", "stop", "closeFails", "enable"}
    /\ MaxConcurrentRuns \in Nat \ {0} /\ RetryCount \in Nat /\ FailAlertThreshold \in Nat \ {0}
    /\ HeartbeatSeconds \in Nat \ {0} /\ LeaseSeconds \in Nat
    /\ LeaseSeconds > 2 * HeartbeatSeconds      \* AdminJobsOptionsValidation
    /\ MaxFires \in Nat \ {0} /\ MaxTime \in Nat /\ CrashBefore \in Nat
    /\ MaxRestarts \in Nat

VARIABLES
    clock,
    mode,       \* the process of each replica: up, draining, hardStop, stopped, crashed
    inst,       \* its InstanceId
    beat,       \* the sys_job_node rows: [inst, at]
    tick,       \* the scheduler loop of each replica: [pc, now, alive, orphans]
    fires,      \* the fires in _fires and those gone
    logs,       \* sys_job_log: one row for each attempt of each fire
    kill,       \* a kill request in progress
    job         \* the columns of sys_job a finished fire writes, and the alerts sent

vars == <<clock, mode, inst, beat, tick, fires, logs, kill, job>>

Fire    == 1..MaxFires
Attempt == 0..RetryCount

NoFire == [pc |-> "none", job |-> "none", at |-> "none", by |-> "none", attempt |-> 0,
           cancelled |-> FALSE, timedOut |-> FALSE, outcome |-> "none"]
NoLog  == [status |-> "none", job |-> "none", node |-> "none", inst |-> 0, start |-> 0,
           kill |-> FALSE]
NoKill == [pc |-> "idle", log |-> <<0, 0>>, at |-> "none"]
IdleTick(t) == [pc |-> "idle", now |-> t, alive |-> {}, orphans |-> {}]

\* EndTime is null.
Open(l) == logs[l].status = "Running"
OpenRowsOf(j) == {l \in Fire \X Attempt : Open(l) /\ logs[l].job = j}

\* A row once it is closed: nothing reads its other columns any more.
ClosedAs(status) == [NoLog EXCEPT !.status = status]

\* In _busyJobs: launched and not finished.  A reservation is in _fires only.
Launched == {"starting", "inserted", "running", "closing", "waiting",
             "finishing", "judging", "panicking"}
Reserved == {"reserved", "claimed", "checked"}

FiresOf(n, pcs) == {f \in Fire : fires[f].at = n /\ fires[f].pc \in pcs}
Busy(n, j)      == \E f \in FiresOf(n, Launched) : fires[f].job = j

\* Mutant of InFlight: a reservation does not count until it is launched.
InFlightMutant(n) == FiresOf(n, Launched)

\* The keys of _fires.
InFlight(n) == FiresOf(n, Launched \cup Reserved)

IsUp(n)       == mode[n] \in {"up", "draining", "hardStop"}
IsDraining(n) == mode[n] \in {"draining", "hardStop"}

Init ==
    /\ clock = 0
    /\ mode = [n \in Node |-> "up"]
    /\ inst = [n \in Node |-> 1]
    /\ beat = [n \in Node |-> [inst |-> 0, at |-> 0]]    \* no row yet
    /\ tick = [n \in Node |-> IdleTick(0)]
    /\ fires = [f \in Fire |-> NoFire]
    /\ logs = [l \in Fire \X Attempt |-> NoLog]
    /\ kill = NoKill
    /\ job = [j \in Job |-> [status |-> "Ready", errors |-> 0, alerts |-> 0]]

\* SleepUntilNextBeatAsync sleeps HeartbeatSeconds at most, and a tick does
\* not outlast that: a running scheduler is never later than this.
OnTime(n) == n \in Scheduling /\ mode[n] = "up" => clock < tick[n].now + HeartbeatSeconds

ClockTick ==
    /\ clock < MaxTime
    /\ \A n \in Node : OnTime(n)
    /\ clock' = clock + 1
    /\ UNCHANGED <<mode, inst, beat, tick, fires, logs, kill, job>>

(***************************************************************************)
(* The tick: heartbeat, orphans, dispatch.                                 *)
(***************************************************************************)

\* Mutant of Heartbeat: the UPDATE branch of the upsert leaves InstanceId out.
HeartbeatMutant(n) ==
    /\ n \in Scheduling /\ mode[n] = "up" /\ tick[n].pc = "idle"
    /\ beat' = [beat EXCEPT ![n] = [inst |-> IF @.inst = 0 THEN inst[n] ELSE @.inst,
                                    at |-> clock]]
    /\ \E pc \in {"alive", "idle"} : tick' = [tick EXCEPT ![n].pc = pc, ![n].now = clock]
    /\ UNCHANGED <<clock, mode, inst, fires, logs, kill, job>>

\* UpsertNodeAsync.  Whether this replica then leads is JobScheduler's matter.
Heartbeat(n) ==
    /\ n \in Scheduling /\ mode[n] = "up" /\ tick[n].pc = "idle"
    /\ beat' = [beat EXCEPT ![n] = [inst |-> inst[n], at |-> clock]]
    /\ \E pc \in {"alive", "idle"} : tick' = [tick EXCEPT ![n].pc = pc, ![n].now = clock]
    /\ UNCHANGED <<clock, mode, inst, fires, logs, kill, job>>

\* Both SELECTs and the UPDATE of ReapOrphanRunsAsync look this far back.
Deadline(n) == tick[n].now - 2 * LeaseSeconds

ReadAlive(n) ==
    /\ tick[n].pc = "alive"
    /\ tick' = [tick EXCEPT ![n].pc = "orphans",
                            ![n].alive = {<<m, beat[m].inst>> :
                                            m \in {x \in Node : beat[x].at > Deadline(n)}}]
    /\ UNCHANGED <<clock, mode, inst, beat, fires, logs, kill, job>>

\* Mutant of IsOrphan: the liveness test by node name alone that
\* JobSchedulerService.cs:137 warns about.
IsOrphanMutant(n, l) ==
    /\ Open(l) /\ logs[l].start < Deadline(n)
    /\ logs[l].node \notin {k[1] : k \in tick[n].alive}

IsOrphan(n, l) ==
    /\ Open(l) /\ logs[l].start < Deadline(n)
    /\ <<logs[l].node, logs[l].inst>> \notin tick[n].alive

ReadOrphans(n) ==
    /\ tick[n].pc = "orphans"
    /\ LET found == {l \in Fire \X Attempt : IsOrphan(n, l)}
       IN  tick' = [tick EXCEPT ![n].pc = IF found = {} THEN "dispatch" ELSE "reap",
                                ![n].alive = {}, ![n].orphans = found]
    /\ UNCHANGED <<clock, mode, inst, beat, fires, logs, kill, job>>

CloseOrphans(n) ==
    /\ tick[n].pc = "reap"
    /\ logs' = [l \in Fire \X Attempt |->
                   IF l \in tick[n].orphans /\ Open(l)
                   THEN ClosedAs("Cancelled") ELSE logs[l]]
    /\ tick' = [tick EXCEPT ![n].pc = "dispatch", ![n].orphans = {}]
    /\ UNCHANGED <<clock, mode, inst, beat, fires, kill, job>>

EndTick(n) ==
    /\ tick[n].pc = "dispatch"
    /\ FiresOf(n, Reserved) = {}
    /\ tick' = [tick EXCEPT ![n].pc = "idle"]
    /\ UNCHANGED <<clock, mode, inst, beat, fires, logs, kill, job>>

(***************************************************************************)
(* Launching a fire.                                                       *)
(***************************************************************************)
Unused == {f \in Fire : fires[f].pc = "none"}

NewFire(n, j, by, pc) ==
    /\ Unused # {}
    /\ fires' = [fires EXCEPT ![Min(Unused)] =
                    [NoFire EXCEPT !.pc = pc, !.job = j, !.at = n, !.by = by]]

Goto(f, pc) == fires' = [fires EXCEPT ![f].pc = pc]
Forget(f)   == fires' = [fires EXCEPT ![f] = NoFire]

\* The fire leaves _fires and _busyJobs.
Ended       == [NoFire EXCEPT !.pc = "gone"]
Leave(f)    == fires' = [fires EXCEPT ![f] = Ended]

\* TryReserveFire, for one due occurrence of one job in the leader's cache.
Reserve(n) ==
    /\ tick[n].pc = "dispatch" /\ FiresOf(n, Reserved) = {}
    /\ ~IsDraining(n) /\ Cardinality(InFlight(n)) < MaxConcurrentRuns
    /\ \E j \in Job : NewFire(n, j, "Schedule", "reserved")
    /\ UNCHANGED <<clock, mode, inst, beat, tick, logs, kill, job>>

\* ClaimAsync; a SerialSkip job then asks the database for open rows.
ClaimWins(f) ==
    /\ fires[f].pc = "reserved" /\ job[fires[f].job].status = "Ready"
    /\ Goto(f, IF fires[f].job \in SerialSkip THEN "claimed" ELSE "checked")
    /\ UNCHANGED <<clock, mode, inst, beat, tick, logs, kill, job>>

\* The reservation is disposed.
ClaimLoses(f) ==
    /\ fires[f].pc = "reserved"
    /\ Forget(f)
    /\ UNCHANGED <<clock, mode, inst, beat, tick, logs, kill, job>>

\* An open row of whatever node: this occurrence is recorded as Skipped.
CheckOpenRows(f) ==
    /\ fires[f].pc = "claimed"
    /\ IF OpenRowsOf(fires[f].job) = {} THEN Goto(f, "checked") ELSE Forget(f)
    /\ UNCHANGED <<clock, mode, inst, beat, tick, logs, kill, job>>

\* Refused by SerialSkip: the job is in _busyJobs of this process.
BusyHere(f) == fires[f].job \in SerialSkip /\ Busy(fires[f].at, fires[f].job)

\* TryFireAndTrack with the reservation in hand asks for nothing else.
TryFire(f) ==
    /\ fires[f].pc = "checked"
    /\ IF BusyHere(f) THEN Forget(f) ELSE Goto(f, "starting")
    /\ UNCHANGED <<clock, mode, inst, beat, tick, logs, kill, job>>

\* RunOnceAsync: the SELECT for open rows found none.
Ask(n) ==
    /\ "manual" \in Events /\ IsUp(n)
    /\ \E j \in Job :
           /\ j \in SerialSkip => OpenRowsOf(j) = {}
           /\ NewFire(n, j, "Manual", "asked")
    /\ UNCHANGED <<clock, mode, inst, beat, tick, logs, kill, job>>

\* Mutant of TryFireManual: SerialSkip relies on the SELECT alone.
TryFireManualMutant(f) ==
    /\ fires[f].pc = "asked"
    /\ LET n == fires[f].at
       IN  IF IsDraining(n) \/ Cardinality(InFlight(n)) >= MaxConcurrentRuns
           THEN Forget(f) ELSE Goto(f, "starting")
    /\ UNCHANGED <<clock, mode, inst, beat, tick, logs, kill, job>>

\* TryFireAndTrack without a reservation.
TryFireManual(f) ==
    /\ fires[f].pc = "asked"
    /\ LET n == fires[f].at
       IN  IF IsDraining(n) \/ BusyHere(f) \/ Cardinality(InFlight(n)) >= MaxConcurrentRuns
           THEN Forget(f) ELSE Goto(f, "starting")
    /\ UNCHANGED <<clock, mode, inst, beat, tick, logs, kill, job>>

(***************************************************************************)
(* RunFireAsync and RunAttemptAsync.                                       *)
(***************************************************************************)

\* The INSERT of the Running row, with a fresh killCts and timeoutCts.
BeginAttempt(f) ==
    /\ fires[f].pc = "starting"
    /\ fires' = [fires EXCEPT ![f].pc = "inserted",
                              ![f].cancelled = FALSE, ![f].timedOut = FALSE]
    /\ logs' = [logs EXCEPT ![<<f, fires[f].attempt>>] =
                   [status |-> "Running", job |-> fires[f].job, node |-> fires[f].at,
                    inst |-> inst[fires[f].at], start |-> clock, kill |-> FALSE]]
    /\ UNCHANGED <<clock, mode, inst, beat, tick, kill, job>>

\* Into _running: from here on a local kill or a hard stop reaches the attempt.
Register(f) ==
    /\ fires[f].pc = "inserted"
    /\ Goto(f, "running")
    /\ UNCHANGED <<clock, mode, inst, beat, tick, logs, kill, job>>

TimesOut(f) ==
    /\ "timeout" \in Events
    /\ fires[f].pc = "running" /\ ~fires[f].timedOut
    /\ fires' = [fires EXCEPT ![f].timedOut = TRUE]
    /\ UNCHANGED <<clock, mode, inst, beat, tick, logs, kill, job>>

Interpret(f) == IF fires[f].timedOut THEN "Timeout" ELSE "Cancelled"

\* The handler returns or throws.  One that was told to stop either heeds the
\* token, or ends as if it had not been told: returning is then not a success,
\* but an exception of its own is a failure like any other.
HandlerEnds(f) ==
    /\ fires[f].pc = "running"
    /\ \E outcome \in IF fires[f].cancelled \/ fires[f].timedOut
                      THEN {Interpret(f), "Failed"} ELSE {"Success", "Failed"} :
           fires' = [fires EXCEPT ![f].pc = "closing", ![f].outcome = outcome]
    /\ UNCHANGED <<clock, mode, inst, beat, tick, logs, kill, job>>

\* The handler is not registered: a failure that is not retried.
HandlerMissing(f) ==
    /\ fires[f].pc = "running"
    /\ fires' = [fires EXCEPT ![f].pc = "closing", ![f].outcome = "Missing"]
    /\ UNCHANGED <<clock, mode, inst, beat, tick, logs, kill, job>>

StatusOf(outcome) == IF outcome = "Missing" THEN "Failed" ELSE outcome

\* Mutant of MayRetry: off by one.
MayRetryMutant(f) == fires[f].outcome = "Failed" /\ fires[f].attempt <= RetryCount

MayRetry(f) == fires[f].outcome = "Failed" /\ fires[f].attempt < RetryCount

\* CloseLogAsync goes by the row's id, whatever the row says.
CloseLog(f) ==
    /\ fires[f].pc = "closing"
    /\ logs' = [logs EXCEPT ![<<f, fires[f].attempt>>] = ClosedAs(StatusOf(fires[f].outcome))]
    /\ Goto(f, IF MayRetry(f) THEN "waiting" ELSE "finishing")
    /\ UNCHANGED <<clock, mode, inst, beat, tick, kill, job>>

\* The UPDATE fails: RunFireAsync swallows the exception and the fire is over.
CloseFails(f) ==
    /\ "closeFails" \in Events /\ clock < CrashBefore
    /\ fires[f].pc = "closing"
    /\ fires' = [fires EXCEPT ![f] = [Ended EXCEPT !.outcome = "unwritten"]]
    /\ UNCHANGED <<clock, mode, inst, beat, tick, logs, kill, job>>

\* The wait before a retry ends; a hard stop interrupts it and is asked about
\* once more after it.
Retry(f) ==
    /\ fires[f].pc = "waiting"
    /\ fires' = IF mode[fires[f].at] = "hardStop"
                THEN [fires EXCEPT ![f].pc = "finishing"]
                ELSE [fires EXCEPT ![f].pc = "starting", ![f].attempt = @ + 1]
    /\ UNCHANGED <<clock, mode, inst, beat, tick, logs, kill, job>>

(***************************************************************************)
(* OnFireCompletedAsync, up to the alert.  ConsecutiveErrors above the     *)
(* threshold are all alike and are not counted further.                    *)
(***************************************************************************)
FinishQuietly(f) ==
    /\ fires[f].pc = "finishing" /\ fires[f].outcome \in {"Success", "Cancelled"}
    /\ Leave(f)
    /\ job' = IF fires[f].outcome = "Success"
              THEN [job EXCEPT ![fires[f].job].errors = 0] ELSE job
    /\ UNCHANGED <<clock, mode, inst, beat, tick, logs, kill>>

CountError(f) ==
    /\ fires[f].pc = "finishing" /\ fires[f].outcome \in {"Failed", "Missing", "Timeout"}
    /\ Goto(f, "judging")
    /\ job' = [job EXCEPT ![fires[f].job].errors = Min({@ + 1, FailAlertThreshold})]
    /\ UNCHANGED <<clock, mode, inst, beat, tick, logs, kill>>

Judge(f) ==
    /\ fires[f].pc = "judging"
    /\ IF job[fires[f].job].errors < FailAlertThreshold THEN Leave(f) ELSE Goto(f, "panicking")
    /\ UNCHANGED <<clock, mode, inst, beat, tick, logs, kill, job>>

\* Mutant of Panic: the CAS does not ask for Ready.
PanicMutant(f) ==
    /\ fires[f].pc = "panicking"
    /\ Leave(f)
    /\ job' = [job EXCEPT ![fires[f].job].status = "Panic", ![fires[f].job].alerts = @ + 1]
    /\ UNCHANGED <<clock, mode, inst, beat, tick, logs, kill>>

\* Only the CAS that takes the job out of Ready sends the alert.
Panic(f) ==
    /\ fires[f].pc = "panicking"
    /\ Leave(f)
    /\ job' = IF job[fires[f].job].status = "Ready"
              THEN [job EXCEPT ![fires[f].job].status = "Panic", ![fires[f].job].alerts = @ + 1]
              ELSE job
    /\ UNCHANGED <<clock, mode, inst, beat, tick, logs, kill>>

\* SetEnabledAsync(true) on a job in Panic.
Enable(j) ==
    /\ "enable" \in Events /\ job[j].status = "Panic"
    /\ job' = [job EXCEPT ![j] = [status |-> "Ready", errors |-> 0, alerts |-> 0]]
    /\ UNCHANGED <<clock, mode, inst, beat, tick, fires, logs, kill>>

(***************************************************************************)
(* KillAsync: read the row, raise the flag, and cancel at once if the      *)
(* attempt runs in this process; elsewhere PollKillFlagAsync finds it.     *)
(***************************************************************************)
KillRead(n) ==
    /\ "kill" \in Events /\ IsUp(n) /\ kill.pc = "idle"
    /\ \E l \in Fire \X Attempt : Open(l) /\ kill' = [pc |-> "flag", log |-> l, at |-> n]
    /\ UNCHANGED <<clock, mode, inst, beat, tick, fires, logs, job>>

KillFlag ==
    /\ kill.pc = "flag"
    /\ logs' = [logs EXCEPT ![kill.log].kill = TRUE]
    /\ LET f == kill.log[1]
           here == /\ fires[f].pc = "running" /\ fires[f].at = kill.at
                   /\ fires[f].attempt = kill.log[2]
       IN  fires' = IF here THEN [fires EXCEPT ![f].cancelled = TRUE] ELSE fires
    /\ kill' = NoKill
    /\ UNCHANGED <<clock, mode, inst, beat, tick, job>>

PollKillFlag(f) ==
    /\ fires[f].pc = "running" /\ ~fires[f].cancelled
    /\ logs[<<f, fires[f].attempt>>].kill
    /\ fires' = [fires EXCEPT ![f].cancelled = TRUE]
    /\ UNCHANGED <<clock, mode, inst, beat, tick, logs, kill, job>>

(***************************************************************************)
(* A host that stops, and a process that dies.                             *)
(***************************************************************************)

\* StopAsync and the first half of DrainAsync.  It waits for the tick in
\* progress only until the grace period is over, so a tick may still be.
Stop(n) ==
    /\ "stop" \in Events /\ clock < CrashBefore /\ inst[n] <= MaxRestarts
    /\ mode[n] = "up"
    /\ mode' = [mode EXCEPT ![n] = "draining"]
    /\ UNCHANGED <<clock, inst, beat, tick, fires, logs, kill, job>>

\* The grace period is over: _drainCts, then every registration in _running.
HardStop(n) ==
    /\ mode[n] = "draining" /\ InFlight(n) # {}
    /\ mode' = [mode EXCEPT ![n] = "hardStop"]
    /\ fires' = [f \in Fire |->
                    IF f \in FiresOf(n, {"running"})
                    THEN [fires[f] EXCEPT !.cancelled = TRUE] ELSE fires[f]]
    /\ UNCHANGED <<clock, inst, beat, tick, logs, kill, job>>

\* Mutant of Drained: the drain waits for the registered attempts only.
DrainedMutant(n) == FiresOf(n, {"running", "closing"}) = {}

\* The drain waits for everything in _fires.
Drained(n) == InFlight(n) = {}

Gone(n) == [f \in Fire |-> IF fires[f].at # n THEN fires[f]
                           ELSE IF fires[f].pc \in Launched THEN Ended
                           ELSE NoFire]

Exit(n) ==
    /\ IsDraining(n) /\ Drained(n)
    /\ mode' = [mode EXCEPT ![n] = "stopped"]
    /\ fires' = Gone(n)
    /\ tick' = [tick EXCEPT ![n] = IdleTick(0)]
    /\ kill' = IF kill.at = n THEN NoKill ELSE kill
    /\ UNCHANGED <<clock, inst, beat, logs, job>>

Crash(n) ==
    /\ "crash" \in Events /\ clock < CrashBefore /\ inst[n] <= MaxRestarts
    /\ IsUp(n)
    /\ mode' = [mode EXCEPT ![n] = "crashed"]
    /\ fires' = Gone(n)
    /\ tick' = [tick EXCEPT ![n] = IdleTick(0)]
    /\ kill' = IF kill.at = n THEN NoKill ELSE kill
    /\ UNCHANGED <<clock, inst, beat, logs, job>>

\* A new process with the same node name.
Restart(n) ==
    /\ ~IsUp(n)
    /\ mode' = [mode EXCEPT ![n] = "up"]
    /\ inst' = [inst EXCEPT ![n] = @ + 1]
    /\ tick' = [tick EXCEPT ![n] = IdleTick(clock)]
    /\ UNCHANGED <<clock, beat, fires, logs, kill, job>>

Tick(n) ==
    \/ Heartbeat(n) \/ ReadAlive(n) \/ ReadOrphans(n) \/ CloseOrphans(n)
    \/ Reserve(n) \/ EndTick(n)

Launch(f) ==
    \/ ClaimWins(f) \/ ClaimLoses(f) \/ CheckOpenRows(f) \/ TryFire(f) \/ TryFireManual(f)

Run(f) ==
    \/ BeginAttempt(f) \/ Register(f) \/ HandlerEnds(f) \/ HandlerMissing(f)
    \/ CloseLog(f) \/ Retry(f)
    \/ FinishQuietly(f) \/ CountError(f) \/ Judge(f) \/ Panic(f)

Next ==
    \/ ClockTick
    \/ \E n \in Node :
           \/ Tick(n) \/ Ask(n) \/ KillRead(n)
           \/ Stop(n) \/ HardStop(n) \/ Exit(n) \/ Crash(n) \/ Restart(n)
    \/ \E f \in Fire :
           \/ Launch(f) \/ Run(f)
           \/ TimesOut(f) \/ CloseFails(f) \/ PollKillFlag(f)
    \/ \E j \in Job : Enable(j)
    \/ KillFlag

Spec == Init /\ [][Next]_vars

\* Time passes, the loops go on, a handler comes to an end, a dead process is
\* started again, and some replica leads: the leader's part of the tick is
\* reached again and again.
Leads(n) == Heartbeat(n) /\ tick'[n].pc = "alive"

Fairness ==
    /\ WF_vars(ClockTick)
    /\ \A n \in Node :
           /\ WF_vars(Tick(n)) /\ SF_vars(Leads(n)) /\ SF_vars(EndTick(n))
           /\ WF_vars(Restart(n)) /\ WF_vars(HardStop(n) \/ Exit(n))
    /\ \A f \in Fire : WF_vars(Launch(f)) /\ WF_vars(Run(f))

FairSpec == Spec /\ Fairness

(***************************************************************************)
(* Properties.                                                             *)
(***************************************************************************)
Fires == [pc        : {"none", "asked", "gone"} \cup Reserved \cup Launched,
          job       : Job \cup {"none"},
          at        : Node \cup {"none"},
          by        : {"none", "Schedule", "Manual"},
          attempt   : Attempt,
          cancelled : BOOLEAN,
          timedOut  : BOOLEAN,
          outcome   : {"none", "Success", "Failed", "Missing", "Timeout", "Cancelled",
                      "unwritten"}]

Logs == [status : {"none", "Running", "Success", "Failed", "Timeout", "Cancelled"},
         job    : Job \cup {"none"},
         node   : Node \cup {"none"},
         inst   : Nat,
         start  : Nat,
         kill   : BOOLEAN]

Ticks == [pc      : {"idle", "alive", "orphans", "reap", "dispatch"},
          now     : Nat,
          alive   : SUBSET (Node \X Nat),
          orphans : SUBSET (Fire \X Attempt)]

\* Besides the types: a fire in progress belongs to a process that is up, and
\* the loop of one that is not is not in a tick.
TypeOK ==
    /\ clock \in Nat
    /\ mode \in [Node -> {"up", "draining", "hardStop", "stopped", "crashed"}]
    /\ inst \in [Node -> Nat]
    /\ beat \in [Node -> [inst : Nat, at : Nat]]
    /\ tick \in [Node -> Ticks]
    /\ fires \in [Fire -> Fires]
    /\ logs \in [Fire \X Attempt -> Logs]
    /\ kill \in [pc : {"idle", "flag"}, log : {<<0, 0>>} \cup (Fire \X Attempt),
                 at : Node \cup {"none"}]
    /\ job \in [Job -> [status : {"Ready", "Panic"}, errors : 0..FailAlertThreshold,
                        alerts : Nat]]
    /\ \A f \in Fire :
           fires[f].pc \in {"asked"} \cup Reserved \cup Launched
           => fires[f].at \in Node /\ fires[f].job \in Job /\ IsUp(fires[f].at)
    /\ \A n \in Node : ~IsUp(n) => tick[n].pc = "idle"

\* A SerialSkip job runs at most once in one process, however the scheduler
\* and "run once" requests interleave: both look for open rows first, but what
\* decides is the look at _busyJobs under _fireGate (JobExecutor.cs:107-134).
OneRunPerNode ==
    \A n \in Node, j \in SerialSkip :
        Cardinality({f \in FiresOf(n, Launched) : fires[f].job = j}) <= 1

\* No more than MaxConcurrentRuns fires run in one process, although a claimed
\* occurrence is launched without asking again: its slot was reserved before
\* the claim (JobExecutor.cs:77-101).
WithinCapacity ==
    \A n \in Node : Cardinality(FiresOf(n, Launched)) <= MaxConcurrentRuns

\* The row of an attempt in progress is open for as long as the scheduler of its
\* process runs: no leader takes a living process for a dead one and closes its
\* rows (ReapOrphanRunsAsync).
LiveRunIsOpen ==
    \A f \in Fire :
        /\ fires[f].pc \in {"inserted", "running", "closing"}
        /\ fires[f].at \in Scheduling /\ mode[fires[f].at] = "up"
        => Open(<<f, fires[f].attempt>>)

\* One alert at most is sent between two times somebody enables the job,
\* however many fires fail at once (JobExecutor.cs:400-443).
AlertOnce == \A j \in Job : job[j].alerts <= 1

\* A process that drained before it ended left no open row, but for one whose
\* closing UPDATE had failed: nothing else of it is left for the leader to
\* guess about (DrainAsync).
OrderlyStopClosesItsRuns ==
    \A n \in Node, l \in Fire \X Attempt :
        mode[n] = "stopped" /\ Open(l) /\ fires[l[1]].outcome # "unwritten"
        => <<logs[l].node, logs[l].inst>> # <<n, inst[n]>>

\* Every row is closed in the end, by the fire or, when its process is dead,
\* by a leader: also when a new process of the same name is beating
\* (JobSchedulerService.cs:133-139).  A row whose closing UPDATE failed is the
\* exception: it stays open for as long as its process lives.
EveryRunCloses ==
    \A l \in Fire \X Attempt :
        Open(l) ~> ~Open(l) \/ fires[l[1]].outcome = "unwritten"

\* A replica that does not schedule runs "run once" requests like any other
\* (AdminJobsOptions.cs:17): the leader leaves the rows of its runs alone.
ApiReplicaRunsStayOpen ==
    \A f \in Fire :
        /\ fires[f].at \in Node \ Scheduling
        /\ fires[f].pc \in {"inserted", "running", "closing"}
        => Open(<<f, fires[f].attempt>>)

\* A SerialSkip occurrence is skipped while the fire before it has not ended
\* (scheduling-ledger.md:84), and that includes one that waits for its retry.
RetryingFireIsSeen ==
    [][\A f \in Fire :
          fires[f].pc = "claimed" /\ fires'[f].pc = "checked"
          => ~\E g \in Fire : fires[g].pc = "waiting" /\ fires[g].job = fires[f].job]_vars
=============================================================================
