--------------------------- MODULE JobScheduler ---------------------------
(***************************************************************************)
(* One row of sys_job, the single row of sys_job_lock, and the scheduler   *)
(* loops of several replicas over them (JobSchedulerService.cs), together  *)
(* with the administrative requests that write the same job row            *)
(* (JobService.cs, RecycleBinController.cs) and the end of a fire, which   *)
(* writes it too (JobExecutor.OnFireCompletedAsync).                       *)
(*                                                                         *)
(* Every action is one database statement and the local computation around *)
(* it.  A replica captures `now' once, at the start of its tick, and goes  *)
(* on using it however long it is paused between two statements: that is   *)
(* how a stalled former leader is represented.  What happens to a claimed  *)
(* occurrence afterwards (log rows, SerialSkip, retries) belongs to        *)
(* JobRuns and JobExecutor.                                                *)
(***************************************************************************)
EXTENDS JobTrigger, Sequences

CONSTANTS
    Node,               \* replicas that run the scheduler
    Skew,               \* Skew[n]: what the clock of n is ahead of true time
    Admin,              \* administrative requests that can be in progress at once
    AdminOps,           \* which of them are made
    Triggers,           \* trigger configurations an administrator may save
    InitTriggers,       \* those the job may be created with
    LeaseSeconds,
    ReloadSeconds,
    MisfireThreshold,   \* MisfireThresholdSeconds
    MisfireSkip,        \* MisfireStrategy: TRUE is Skip, FALSE is FireOnceNow
    MaxConcurrentRuns,
    MaxTime,            \* bound: true time stops here
    CrashBefore         \* bound: processes die and ticks fail before this instant only

ASSUME SchedulerAssumption ==
    /\ Skew \in [Node -> Nat]
    /\ AdminOps \subseteq {"update", "enable", "enableReady", "pause", "delete", "restore"}
    /\ Triggers \subseteq TriggerOf(Nat) /\ InitTriggers \subseteq TriggerOf(Nat)
    /\ LeaseSeconds \in Nat /\ ReloadSeconds \in Nat /\ MisfireThreshold \in Nat
    /\ MisfireSkip \in BOOLEAN
    /\ MaxConcurrentRuns \in Nat /\ MaxTime \in Nat
    /\ CrashBefore \in Nat

VARIABLES
    clock,      \* true time
    row,        \* the sys_job row
    lock,       \* the sys_job_lock row: [owner, until]
    pc,         \* where in its tick each replica is
    now,        \* the instant captured at the start of that tick
    leader,     \* _isLeader
    dirty,      \* _dirty
    lastReload, \* _lastReload
    cache,      \* _cache, restricted to this job
    loaded,     \* the list a reload builds before it becomes _cache, likewise
    admin,      \* the administrative requests in progress
    claims      \* history: every successful claim, in order

lockVars  == <<lock>>
tickVars  == <<pc, now, leader, dirty, lastReload, cache, loaded>>
vars      == <<clock, row, lock, pc, now, leader, dirty, lastReload, cache, loaded, admin, claims>>

Nobody == "nobody"      \* OwnerNodeName = ""
NoRow  == [trig |-> [kind |-> "none"], status |-> "none", next |-> NoTime,
           deleted |-> FALSE, runs |-> 0]        \* the job is not in _cache
IdleRequest == [pc |-> "idle", op |-> "none", at |-> Nobody, snap |-> NoRow, next |-> NoTime]

Local(n) == clock + Skew[n]

Ready == row.status = "Ready"

\* A claim and what became of it.  "claimed": the UPDATE succeeded and the tick
\* has not got further; "missed": recorded as MissedSkipped; "running": handed
\* to the executor; "done"; "lost": the process died holding it.
InFlight(n) == Cardinality({i \in 1..Len(claims) :
                               claims[i].by = n /\ claims[i].st \in {"claimed", "running"}})

Init ==
    /\ clock = 0
    \* A seed row has no NextRunTime yet; AddAsync computes it.
    /\ \E t \in InitTriggers : \E next \in {NoTime, ComputeNext(t, 0)} :
           row = [trig |-> t, status |-> "Ready", next |-> next, deleted |-> FALSE, runs |-> 0]
    /\ lock = [owner |-> Nobody, until |-> -1]
    /\ pc = [n \in Node |-> "idle"]
    /\ now = [n \in Node |-> NoTime]
    /\ leader = [n \in Node |-> FALSE]
    /\ dirty = [n \in Node |-> TRUE]
    /\ lastReload = [n \in Node |-> NoTime]
    /\ cache = [n \in Node |-> NoRow]
    /\ loaded = [n \in Node |-> NoRow]
    /\ admin = [a \in Admin |-> IdleRequest]
    /\ claims = <<>>

ClockTick ==
    /\ clock < MaxTime
    /\ clock' = clock + 1
    /\ UNCHANGED <<row, lock, tickVars, admin, claims>>

Goto(n, label) == pc' = [pc EXCEPT ![n] = label]

\* The tick is over; its captured instant is not used again.
EndTick(n) == Goto(n, "idle") /\ now' = [now EXCEPT ![n] = NoTime]

(***************************************************************************)
(* TickAsync, one statement after another.                                 *)
(***************************************************************************)
TickStart(n) ==
    /\ pc[n] = "idle"
    /\ now' = [now EXCEPT ![n] = Local(n)]
    /\ Goto(n, "elect")
    /\ UNCHANGED <<clock, row, lock, leader, dirty, lastReload, cache, loaded, admin, claims>>

\* Mutant of Renew: a leader whose renewal fails notices, but finishes its tick.
RenewMutant(n) ==
    /\ pc[n] = "elect" /\ leader[n]
    /\ IF lock.owner = n
       THEN /\ lock' = [lock EXCEPT !.until = now[n] + LeaseSeconds]
            /\ UNCHANGED leader
       ELSE /\ leader' = [leader EXCEPT ![n] = FALSE]
            /\ UNCHANGED lock
    /\ Goto(n, "scan")
    /\ UNCHANGED <<clock, row, now, dirty, lastReload, cache, loaded, admin, claims>>

\* HeartbeatAsync of a leader: renew by name, or step down at once.
Renew(n) ==
    /\ pc[n] = "elect" /\ leader[n]
    /\ IF lock.owner = n
       THEN /\ lock' = [lock EXCEPT !.until = now[n] + LeaseSeconds]
            /\ Goto(n, "scan")
            /\ UNCHANGED <<now, leader>>
       ELSE /\ leader' = [leader EXCEPT ![n] = FALSE]
            /\ EndTick(n)
            /\ UNCHANGED lock
    /\ UNCHANGED <<clock, row, dirty, lastReload, cache, loaded, admin, claims>>

\* Mutants of LeaseIsFree: off by one at the expiry; the lease of a dead owner
\* is never taken over.
LeaseIsFreeMutant(n) == lock.until <= now[n] \/ lock.owner = n
LeaseIsFreeMutant2(n) == lock.owner \in {n, Nobody}

LeaseIsFree(n) == lock.until < now[n] \/ lock.owner = n

\* HeartbeatAsync of a standby: take the lease when it has run out, or when
\* it already carries this node's name.
Acquire(n) ==
    /\ pc[n] = "elect" /\ ~leader[n]
    /\ IF LeaseIsFree(n)
       THEN /\ lock' = [owner |-> n, until |-> now[n] + LeaseSeconds]
            /\ leader' = [leader EXCEPT ![n] = TRUE]
            /\ dirty' = [dirty EXCEPT ![n] = TRUE]
            /\ Goto(n, "scan")
            /\ UNCHANGED now
       ELSE /\ EndTick(n)
            /\ UNCHANGED <<lock, leader, dirty>>
    /\ UNCHANGED <<clock, row, lastReload, cache, loaded, admin, claims>>

NeedsReload(n) ==
    dirty[n] \/ lastReload[n] = NoTime \/ now[n] >= lastReload[n] + ReloadSeconds

\* The SELECT of ReloadJobsAsync.  The global filter hides a deleted row.
Reload(n) ==
    /\ pc[n] = "scan" /\ NeedsReload(n)
    /\ dirty' = [dirty EXCEPT ![n] = FALSE]
    /\ lastReload' = [lastReload EXCEPT ![n] = now[n]]
    /\ IF Ready /\ ~row.deleted /\ row.next = NoTime
       THEN /\ loaded' = [loaded EXCEPT ![n] = row]
            /\ Goto(n, "backfill")
            /\ UNCHANGED cache
       ELSE /\ cache' = [cache EXCEPT ![n] = IF Ready /\ ~row.deleted THEN row ELSE NoRow]
            /\ Goto(n, "dispatch")
            /\ UNCHANGED loaded
    /\ UNCHANGED <<clock, row, lock, now, leader, admin, claims>>

KeepCache(n) ==
    /\ pc[n] = "scan" /\ ~NeedsReload(n)
    /\ Goto(n, "dispatch")
    /\ UNCHANGED <<clock, row, lock, now, leader, dirty, lastReload, cache, loaded, admin, claims>>

\* Mutants of StillUnarmed: the UPDATEs ask for the status only, or for the
\* missing NextRunTime only.
StillUnarmedMutant == Ready
StillUnarmedMutant2 == row.next = NoTime

\* The UPDATEs of ReloadJobsAsync on a Ready row without NextRunTime both ask
\* for this.
StillUnarmed == Ready /\ row.next = NoTime

\* Compute the missing NextRunTime from this tick's instant and write it.
Backfill(n) ==
    /\ pc[n] = "backfill"
    /\ LET next == ComputeNext(loaded[n].trig, now[n])
       IN  /\ next # NoTime
           /\ IF StillUnarmed
              THEN /\ row' = [row EXCEPT !.next = next]
                   /\ loaded' = [loaded EXCEPT ![n].next = next]
                   /\ Goto(n, "assign")
              ELSE Goto(n, "reread") /\ UNCHANGED <<row, loaded>>
    /\ UNCHANGED <<clock, lock, now, leader, dirty, lastReload, cache, admin, claims>>

\* No future instant: the job is finished.
Exhaust(n) ==
    /\ pc[n] = "backfill"
    /\ ComputeNext(loaded[n].trig, now[n]) = NoTime
    /\ row' = IF StillUnarmed THEN [row EXCEPT !.status = "Completed"] ELSE row
    /\ loaded' = [loaded EXCEPT ![n] = NoRow]
    /\ Goto(n, "assign")
    /\ UNCHANGED <<clock, lock, now, leader, dirty, lastReload, cache, admin, claims>>

\* Another replica armed the row first: read what it wrote.
Reread(n) ==
    /\ pc[n] = "reread"
    /\ loaded' = [loaded EXCEPT ![n] =
                     IF Ready /\ ~row.deleted /\ row.next # NoTime THEN row ELSE NoRow]
    /\ Goto(n, "assign")
    /\ UNCHANGED <<clock, row, lock, now, leader, dirty, lastReload, cache, admin, claims>>

\* The list becomes _cache only now: a statement that fails before leaves the
\* old one.
Assign(n) ==
    /\ pc[n] = "assign"
    /\ cache' = [cache EXCEPT ![n] = loaded[n]]
    /\ loaded' = [loaded EXCEPT ![n] = NoRow]
    /\ Goto(n, "dispatch")
    /\ UNCHANGED <<clock, row, lock, now, leader, dirty, lastReload, admin, claims>>

IsDue(n) == cache[n] # NoRow /\ cache[n].next # NoTime /\ cache[n].next <= now[n]

IsMisfire(n) == now[n] - cache[n].next > MisfireThreshold

\* DispatchDueJobsAsync finds nothing due, or no free slot for a fire.
NothingToDispatch(n) ==
    /\ pc[n] = "dispatch"
    /\ ~IsDue(n) \/ InFlight(n) >= MaxConcurrentRuns
    /\ EndTick(n)
    /\ UNCHANGED <<clock, row, lock, leader, dirty, lastReload, cache, loaded, admin, claims>>

\* Mutant of ClaimMatches: the half sentence JobSchedulerService.cs:380 warns
\* about, NextRunTime = @expected, is missing.
ClaimMatchesMutant(n) == Ready /\ ~row.deleted

\* The WHERE clause of ClaimAsync.
ClaimMatches(n) == row.next = cache[n].next /\ Ready /\ ~row.deleted

Outcome(n) == IF IsMisfire(n) /\ MisfireSkip THEN "missed" ELSE "claimed"

\* ClaimAsync affects one row: the occurrence is this replica's.
Claim(n) ==
    /\ pc[n] = "dispatch" /\ IsDue(n) /\ InFlight(n) < MaxConcurrentRuns
    /\ ClaimMatches(n)
    /\ LET next == ComputeNext(cache[n].trig, now[n])
       IN  /\ row' = [row EXCEPT !.next = next, !.runs = @ + 1]
           /\ cache' = [cache EXCEPT ![n] =
                           IF next = NoTime THEN NoRow ELSE [@ EXCEPT !.next = next]]
    /\ claims' = Append(claims, [at |-> cache[n].next, by |-> n, st |-> Outcome(n),
                                 kind |-> cache[n].trig.kind])
    /\ IF Outcome(n) = "missed"
       THEN EndTick(n)
       ELSE Goto(n, "launch") /\ UNCHANGED now
    /\ UNCHANGED <<clock, lock, leader, dirty, lastReload, loaded, admin>>

\* ClaimAsync affects none: somebody else moved the row.
ClaimFails(n) ==
    /\ pc[n] = "dispatch" /\ IsDue(n) /\ InFlight(n) < MaxConcurrentRuns
    /\ ~ClaimMatches(n)
    /\ Goto(n, "refresh")
    /\ UNCHANGED <<clock, row, lock, now, leader, dirty, lastReload, cache, loaded, admin, claims>>

\* RefreshSingleAsync.
Refresh(n) ==
    /\ pc[n] = "refresh"
    /\ cache' = [cache EXCEPT ![n] = IF Ready /\ ~row.deleted THEN row ELSE NoRow]
    /\ EndTick(n)
    /\ UNCHANGED <<clock, row, lock, leader, dirty, lastReload, loaded, admin, claims>>

\* TryFireAndTrack, or the Skipped row when SerialSkip finds the job running:
\* JobRuns decides which, here either may happen.
Launch(n) ==
    /\ pc[n] = "launch"
    /\ \E i \in 1..Len(claims), st \in {"running", "done"} :
           /\ claims[i].by = n /\ claims[i].st = "claimed"
           /\ claims' = [claims EXCEPT ![i].st = st]
    /\ EndTick(n)
    /\ UNCHANGED <<clock, row, lock, leader, dirty, lastReload, cache, loaded, admin>>

(***************************************************************************)
(* The end of a fire: JobExecutor.OnFireCompletedAsync.                    *)
(***************************************************************************)
RunningOf(n) == {i \in 1..Len(claims) : claims[i].by = n /\ claims[i].st = "running"}

Finished(i) == claims' = [claims EXCEPT ![i].st = "done"]

\* Both CAS updates at the end of a fire: only a Ready row leaves Ready.
LeaveReady(status) ==
    row' = IF Ready THEN [row EXCEPT !.status = status, !.next = NoTime] ELSE row

FireSucceeds(n) ==
    \E i \in RunningOf(n) :
        /\ Finished(i)
        /\ IF claims[i].kind = "OneShot" THEN LeaveReady("Completed") ELSE UNCHANGED row
        /\ UNCHANGED <<clock, lock, tickVars, admin>>

\* Cancelled, or failed without reaching FailAlertThreshold in a row.
FireEndsWithoutEffect(n) ==
    \E i \in RunningOf(n) :
        /\ Finished(i)
        /\ UNCHANGED <<clock, row, lock, tickVars, admin>>

\* The failure that reaches FailAlertThreshold.
FirePanics(n) ==
    \E i \in RunningOf(n) :
        /\ Finished(i)
        /\ LeaveReady("Panic")
        /\ UNCHANGED <<clock, lock, tickVars, admin>>

(***************************************************************************)
(* A statement fails and ExecuteAsync swallows the exception; a process    *)
(* dies, at any point of its tick, and starts again.                       *)
(***************************************************************************)
InTick(n) == pc[n] \notin {"down", "idle"}

\* What n had claimed and not launched yet, or everything it held.
Losing(n, held) ==
    claims' = [i \in 1..Len(claims) |->
                  IF claims[i].by = n /\ claims[i].st \in held
                  THEN [claims[i] EXCEPT !.st = "lost"] ELSE claims[i]]

\* The rest of the tick is skipped.  A statement that failed after it took
\* effect is the same: what it did is the action before this one (after a claim
\* the code's _cache still has the old instant, whose next claim matches no row).
TickFails(n) ==
    /\ InTick(n) /\ clock < CrashBefore
    /\ EndTick(n)
    /\ loaded' = [loaded EXCEPT ![n] = NoRow]
    /\ Losing(n, {"claimed"})
    /\ UNCHANGED <<clock, row, lock, leader, dirty, lastReload, cache, admin>>

\* ReloadJobsAsync clears the flag before the SELECT, or a statement about
\* another job, that then fails.
ReloadFails(n) ==
    /\ pc[n] = "scan" /\ NeedsReload(n) /\ clock < CrashBefore
    /\ dirty' = [dirty EXCEPT ![n] = FALSE]
    /\ lastReload' = [lastReload EXCEPT ![n] = now[n]]
    /\ EndTick(n)
    /\ UNCHANGED <<clock, row, lock, leader, cache, loaded, admin, claims>>

Crash(n) ==
    /\ pc[n] # "down" /\ clock < CrashBefore
    /\ pc' = [pc EXCEPT ![n] = "down"]
    /\ now' = [now EXCEPT ![n] = NoTime]
    /\ leader' = [leader EXCEPT ![n] = FALSE]
    /\ dirty' = [dirty EXCEPT ![n] = TRUE]
    /\ lastReload' = [lastReload EXCEPT ![n] = NoTime]
    /\ cache' = [cache EXCEPT ![n] = NoRow]
    /\ loaded' = [loaded EXCEPT ![n] = NoRow]
    /\ admin' = [a \in Admin |-> IF admin[a].at = n THEN IdleRequest ELSE admin[a]]
    /\ Losing(n, {"claimed", "running"})
    /\ UNCHANGED <<clock, row, lock>>

Restart(n) ==
    /\ pc[n] = "down"
    /\ Goto(n, "idle")
    /\ UNCHANGED <<clock, row, lock, now, leader, dirty, lastReload, cache, loaded, admin, claims>>

(***************************************************************************)
(* Administrative requests.  One that is refused changes nothing and is    *)
(* not an action.                                                          *)
(***************************************************************************)
AdminGoto(a, label) == admin' = [admin EXCEPT ![a].pc = label]

AdminDone(a) == admin' = [admin EXCEPT ![a] = IdleRequest]

FirstStep == [update |-> "write", enable |-> "compute", enableReady |-> "compute",
              pause |-> "store", delete |-> "delete", restore |-> "undelete"]

\* SetEnabledAsync(true) on a stopped job, and on one that is Ready already:
\* the console offers the first only, the endpoint takes both.
Enabling(a) == admin[a].op \in {"enable", "enableReady"}

\* Every operation begins by reading the row: GetAsync sees a live one only,
\* RestoreAsync a deleted one only.
AdminRead(a) ==
    /\ admin[a].pc = "idle"
    /\ \E op \in AdminOps, n \in Node :
           /\ pc[n] # "down"
           /\ row.deleted <=> op = "restore"
           /\ op = "enable" => ~Ready
           /\ op = "enableReady" => Ready
           /\ admin' = [admin EXCEPT ![a] = [pc |-> FirstStep[op], op |-> op, at |-> n,
                                            snap |-> row, next |-> NoTime]]
    /\ UNCHANGED <<clock, row, lock, tickVars, claims>>

\* Mutants of UpdateWrite: a column is forgotten in the IgnoreColumns list and
\* goes back to what was read.
UpdateWriteForgetting(a, stale) ==
    /\ admin[a].pc = "write"
    /\ \E t \in Triggers :
           /\ t.kind = "OneShot" => t.at > Local(admin[a].at)
           /\ row' = [stale EXCEPT !.trig = t]
           /\ admin' = [admin EXCEPT
                  ![a].snap.trig = t,
                  ![a].pc = IF admin[a].snap.status = "Ready" THEN "compute" ELSE "publish"]
    /\ UNCHANGED <<clock, lock, tickVars, claims>>
UpdateWriteMutant(a) == UpdateWriteForgetting(a, [row EXCEPT !.deleted = admin[a].snap.deleted])
UpdateWriteMutant2(a) == UpdateWriteForgetting(a, [row EXCEPT !.runs = admin[a].snap.runs])

\* UpdateAsync: the configuration columns, and none of the running state.
UpdateWrite(a) ==
    /\ admin[a].pc = "write"
    /\ \E t \in Triggers :
           /\ t.kind = "OneShot" => t.at > Local(admin[a].at)
           /\ row' = [row EXCEPT !.trig = t]
           /\ admin' = [admin EXCEPT
                  ![a].snap.trig = t,
                  ![a].pc = IF admin[a].snap.status = "Ready" THEN "compute" ELSE "publish"]
    /\ UNCHANGED <<clock, lock, tickVars, claims>>

\* ComputeNext(entity, Now); enabling a job that has no future is refused.
AdminCompute(a) ==
    /\ admin[a].pc = "compute"
    /\ LET next == ComputeNext(admin[a].snap.trig, Local(admin[a].at))
       IN  IF Enabling(a) /\ next = NoTime
           THEN AdminDone(a)
           ELSE admin' = [admin EXCEPT
                    ![a].next = next,
                    ![a].pc = IF Enabling(a) THEN "store" ELSE "cas"]
    /\ UNCHANGED <<clock, row, lock, tickVars, claims>>

\* Mutant of UpdateCas: the new instant is written unconditionally.
UpdateCasMutant(a) ==
    /\ admin[a].pc = "cas"
    /\ row' = IF Ready THEN [row EXCEPT !.next = admin[a].next] ELSE row
    /\ AdminGoto(a, IF admin[a].next = NoTime THEN "finish" ELSE "publish")
    /\ UNCHANGED <<clock, lock, tickVars, claims>>

\* UpdateAsync: the new NextRunTime, unless the scheduler has moved it since.
UpdateCas(a) ==
    /\ admin[a].pc = "cas"
    /\ row' = IF Ready /\ row.next = admin[a].snap.next
              THEN [row EXCEPT !.next = admin[a].next] ELSE row
    /\ AdminGoto(a, IF admin[a].next = NoTime THEN "finish" ELSE "publish")
    /\ UNCHANGED <<clock, lock, tickVars, claims>>

UpdateFinish(a) ==
    /\ admin[a].pc = "finish"
    /\ row' = IF StillUnarmed THEN [row EXCEPT !.status = "Completed"] ELSE row
    /\ AdminGoto(a, "publish")
    /\ UNCHANGED <<clock, lock, tickVars, claims>>

\* SetEnabledAsync writes every column of the row it read.
SetEnabled(a) ==
    /\ admin[a].pc = "store"
    /\ row' = IF Enabling(a)
              THEN [admin[a].snap EXCEPT !.status = "Ready", !.next = admin[a].next]
              ELSE [admin[a].snap EXCEPT !.status = "Paused", !.next = NoTime]
    /\ AdminGoto(a, "publish")
    /\ UNCHANGED <<clock, lock, tickVars, claims>>

Delete(a) ==
    /\ admin[a].pc = "delete"
    /\ row' = [row EXCEPT !.deleted = TRUE]
    /\ AdminGoto(a, "publish")
    /\ UNCHANGED <<clock, lock, tickVars, claims>>

\* RestoreJobAsync: RestoreAsync brings the row back as it was ...
Undelete(a) ==
    /\ admin[a].pc = "undelete"
    /\ row' = [row EXCEPT !.deleted = FALSE]
    /\ AdminGoto(a, "park")
    /\ UNCHANGED <<clock, lock, tickVars, claims>>

\* ... and a second statement pauses it.  No event is published.
Park(a) ==
    /\ admin[a].pc = "park"
    /\ row' = [row EXCEPT !.status = "Paused", !.next = NoTime]
    /\ AdminDone(a)
    /\ UNCHANGED <<clock, lock, tickVars, claims>>

\* JobChangedEvent reaches the scheduler of the same process only.
Publish(a) ==
    /\ admin[a].pc = "publish"
    /\ dirty' = [dirty EXCEPT ![admin[a].at] = TRUE]
    /\ AdminDone(a)
    /\ UNCHANGED <<clock, row, lock, pc, now, leader, lastReload, cache, loaded, claims>>

Tick(n) ==
    \/ TickStart(n) \/ Renew(n) \/ Acquire(n)
    \/ Reload(n) \/ KeepCache(n) \/ Backfill(n) \/ Exhaust(n) \/ Reread(n) \/ Assign(n)
    \/ NothingToDispatch(n) \/ Claim(n) \/ ClaimFails(n) \/ Refresh(n) \/ Launch(n)

FireEnds(n) == FireSucceeds(n) \/ FireEndsWithoutEffect(n) \/ FirePanics(n)

Request(a) ==
    \/ AdminRead(a) \/ UpdateWrite(a) \/ AdminCompute(a) \/ UpdateCas(a) \/ UpdateFinish(a)
    \/ SetEnabled(a) \/ Delete(a) \/ Undelete(a) \/ Park(a) \/ Publish(a)

Next ==
    \/ ClockTick
    \/ \E n \in Node :
           \/ Tick(n) \/ FireEnds(n)
           \/ TickFails(n) \/ ReloadFails(n) \/ Crash(n) \/ Restart(n)
    \/ \E a \in Admin : Request(a)

Spec == Init /\ [][Next]_vars

AllDown == \A n \in Node : pc[n] = "down"

\* ExecuteAsync repeats the tick until the host stops and survives a tick
\* that fails; every fire comes to an end (a handler without TimeoutSeconds is
\* trusted to), time passes.  A dead replica may stay dead: only when all are,
\* one of them is started again.
Fairness ==
    /\ WF_vars(ClockTick)
    /\ \A n \in Node : WF_vars(Tick(n)) /\ WF_vars(FireEnds(n))
    /\ WF_vars(AllDown /\ \E n \in Node : Restart(n))

FairSpec == Spec /\ Fairness

(***************************************************************************)
(* Properties.                                                             *)
(***************************************************************************)
Scanning == {"scan", "backfill", "reread", "assign", "dispatch", "refresh", "launch"}

Rows == [trig    : Triggers \cup InitTriggers,
         status  : {"Ready", "Paused", "Completed", "Panic"},
         next    : Nat \cup {NoTime},
         deleted : BOOLEAN,
         runs    : Nat]

Requests == [pc   : {"idle", "write", "compute", "cas", "finish", "store",
                     "delete", "undelete", "park", "publish"},
             op   : AdminOps \cup {"none"},
             at   : Node \cup {Nobody},
             snap : Rows \cup {NoRow},
             next : Nat \cup {NoTime}]

Claims == [at : Nat, by : Node, st : {"claimed", "missed", "running", "done", "lost"},
           kind : {"Cron", "Interval", "OneShot"}]

\* Besides the types: an instant is captured exactly while a tick is under
\* way, only a leader gets past its heartbeat (TickAsync returns at once
\* otherwise), and a request in progress has read the row.
TypeOK ==
    /\ clock \in Nat
    /\ row \in Rows
    /\ lock \in [owner : Node \cup {Nobody}, until : Int]
    /\ pc \in [Node -> {"down", "idle", "elect"} \cup Scanning]
    /\ now \in [Node -> Nat \cup {NoTime}]
    /\ leader \in [Node -> BOOLEAN]
    /\ dirty \in [Node -> BOOLEAN]
    /\ lastReload \in [Node -> Nat \cup {NoTime}]
    /\ cache \in [Node -> Rows \cup {NoRow}] /\ loaded \in [Node -> Rows \cup {NoRow}]
    /\ admin \in [Admin -> Requests]
    /\ claims \in Seq(Claims)
    /\ \A n \in Node :
           /\ pc[n] \in {"elect"} \cup Scanning => now[n] \in Nat
           /\ pc[n] \in Scanning => leader[n]
           /\ pc[n] = "backfill" => loaded[n] \in Rows
    /\ \A a \in Admin :
           admin[a].pc # "idle" => admin[a].at \in Node /\ admin[a].snap \in Rows

\* An occurrence is claimed at most once, by whatever replica, leader or not,
\* stalled or not (JobSchedulerService.cs:13-15, ClaimAsync).
AtMostOnce ==
    \A i, j \in 1..Len(claims) : claims[i].at = claims[j].at => i = j

\* A row that waits to be claimed waits for an instant later than everything
\* claimed before: no writer of NextRunTime ever takes it backwards.
NextIsFresh ==
    Ready /\ row.next # NoTime => \A i \in 1..Len(claims) : claims[i].at < row.next

\* Until somebody's clock has passed the lease a leader took or renewed at the
\* start of its tick, nobody else holds it: two replicas scan at the same time
\* only when one of them was stalled for longer than LeaseSeconds less the
\* difference of their clocks (HeartbeatAsync).
LeaseExcludesOthers ==
    \A n \in Node :
        /\ pc[n] \in Scanning
        /\ \A m \in Node : Local(m) <= now[n] + LeaseSeconds
        => lock.owner = n

\* A job that is not Ready has no NextRunTime (scheduling-ledger.md 2.2): no
\* interleaving of reload, completion, panic and administration leaves one.
StoppedJobIsDisarmed == row.status # "Ready" => row.next = NoTime

\* An edit, a deletion or a restore takes no claim back from NumberOfRuns: it
\* writes no column the claim owns (JobService.cs:87-103).  SetEnabledAsync,
\* which writes them all, is the exception.
ClaimsAreNotUncounted ==
    [][row'.runs < row.runs => \E a \in Admin : admin[a].pc = "store"]_vars

\* A claim hands the occurrence out exactly as JobOccurrence says.
Occurrences == INSTANCE JobOccurrence WITH
    armed     <- IF Ready THEN row.next ELSE NoTime,
    handedOut <- {claims[i].at : i \in 1..Len(claims)}

HandsOutOnce == Occurrences!Spec

\* A deleted job stays deleted until somebody restores it, or a pause or an
\* enable that had read it before writes the whole row back.
DeletedStaysDeleted ==
    [][row.deleted /\ ~row'.deleted
       => \E a \in Admin : admin[a].pc \in {"undelete", "store"}]_vars

\* Whatever replica is leading, stalled or dead, an occurrence that has come
\* due does not wait for ever: it is claimed, or the job is stopped, deleted
\* or moved to another instant.  (A change published in another process is
\* seen ReloadSeconds later: this instance's clock must still go that far.)
DueIsClaimed ==
    \A t \in 0..MaxTime :
        (Ready /\ ~row.deleted /\ row.next = t /\ clock >= t /\ clock + ReloadSeconds <= MaxTime)
            ~> ~(Ready /\ ~row.deleted /\ row.next = t)
=============================================================================
