# TenonAdmin: a verification project

TLA+ models of TenonAdmin's concurrent parts, of its server and of its web
console, the TLC configurations that check them on small instances, and theorems
checked by TLAPS.  Paths are relative to the repository root;
`backend/src/TenonAdmin.Services/` is written `Services/`, `web/src/` (Vue) and
`web-react/src/` (React) hold the two consoles.

Run a model with `tlc -config MCJobScheduler.cfg MCJobScheduler.tla`, a proof
with `tlapm JobSchedulerProofs.tla`.  `PROJECT.json` lists the components, the
runs with the properties each checks, one mutant for each property (a plausible
bug that breaks it), the source lines every definition stands for, the hazards
and the theorems.

## 1. Inventory

TenonAdmin is an ASP.NET Core administration framework.  Several replicas of
one process share a database and, optionally, a Redis cache; there is no other
channel between them.  Everything that must be exclusive is therefore decided
by a conditional UPDATE (its WHERE clause and the number of rows affected), and
everything else is a race that the code claims to be harmless.

The console exists twice, in Vue and in React, over the same HTTP API.  A page
runs in one thread, so what races there is everything between two `await`s: the
answers of requests, timers, server pushes and the user, who goes on clicking.

| Component | State | Operations | Hard behaviours |
|---|---|---|---|
| Job scheduler (`Services/Jobs/JobSchedulerService.cs`) | rows `sys_job`, `sys_job_lock`, `sys_job_node`; per process `_isLeader`, `_dirty`, `_cache`, `_lastReload` | one tick: heartbeat, lease, reap, reload, backfill, dispatch, claim | stalled former leaders, clock drift, a death between claim and launch, stale caches |
| Job trigger (`JobTrigger.cs`, `Core/Scheduling/CronExpression.cs`) | none | `ComputeNext`, `CountMissed` | both ends of the effective window, the cap |
| Job executor (`JobExecutor.cs`) | `_fires`, `_busyJobs`, `_running` under `_fireGate`; rows `sys_job_log` | reserve, launch, attempt, retry, close, complete, poll kill flag, drain | capacity, SerialSkip, stop in the middle, one alert for many failures |
| Job administration (`JobService.cs`, `RecycleBinController.cs`) | the same `sys_job` row | add, update, enable, pause, delete, restore, run once, kill | every one of them races the scheduler |
| Snowflake ids and the worker-id lease (`Core/Ids`, `Jobs/DbWorkerId*.cs`, `WorkerIdLeaseGuard.cs`) | rows `sys_worker_lease`, a file lock per machine; per process a state and a local deadline | claim a slot, renew, suspend, revive, release | late answers, takeover, two processes with one id |
| Sessions (`Services/Session`) | rows `sys_session`, `sys_refresh_token`, a cache entry | open, refresh, revoke, limit | concurrent logins, token reuse, revocation against rotation |
| Login, lockout, MFA, re-authentication (`Services/Auth`, `Mfa`) | cache counters and challenges | login, challenge, verify | single use of a challenge |
| Integration delivery (`TenonAdmin.Integration/Delivery`) | rows `integration_delivery`, fence, attempts | claim, send, query, confirm, recover, expire, administrate | death after the send, callbacks against queries |
| Workflow engine and jobs (`TenonAdmin.Workflow`) | instances, tokens, tasks, node executions, outbox | commands, agenda, timeouts, dispatch | parallel branches, returns, leases of node executions |
| Cache, event bus, repository | key/value with expiry; an in-process channel; SQL | | used by all of the above |
| Files, import/export, RBAC, organisation, dictionaries, notices, HTTP layer | tables, disk | CRUD | little that interleaves |
| Console: dictionary cache and page (`stores/dict.ts`, `views/system/dict`) | `cache`, `pending`; selected type, items | load, join, invalidate; select, edit | answers later than an invalidation, or in another order |
| Console: job-monitor poller (`views/system/job-monitor/poller.ts`) | `active`, `inFlight`, `queued`, `generation`, a timer | start, stop, refresh | a visit that ends and begins again while a request is out |
| Console: realtime (`composables/useRealtime.ts`) | one connection, `voluntaryLogout` | start, stop, release, forced logout | negotiation against stop, push against logout |
| Console: tabs (`stores/tabs.ts`, router) | the tabs, the navigation under way | add, remove, close others/left/right/all, pin, switch application, reload | navigations that are superseded, refused or fail, and settle late |
| Console: chunked upload (`utils/chunkUpload.ts`, and the session it fills in `FileService.cs`, `ChunkStorage.cs`) | per attempt a cursor and the chunks on their way; the parts stored | init, send, complete; merge, discard, sweep | several attempts at one hash at once, a failed attempt whose workers go on |
| Console: login form (`views/login`) | mode, captcha ticket, challenge, countdown, the binding dialog | submit, second factor, send, toggle, back, confirm | two requests at once, a ticket used twice, the form after the login |
| Console: workflow designer (`workflow/model.ts`) | the definition, a tree with arms | insert, remove, add and remove arms, configure, validate | long sequences of edits; agreement with the server |
| Console: HTTP client (`api/client.ts`, `stores/user.ts`) | the token pair, the shared refresh | send, refresh, replay, log out | many 401s around one refresh |
| Console: request keys (`workflow/useRequestKey.ts`) | the key of the user's present action | submit, settle, reset | a lost answer, repeated while the first still runs |

How they interact: an administrative request writes the job row and publishes
`JobChangedEvent`, which reaches the scheduler of the *same* process only;
other processes learn of it from the database.  The scheduler reserves a slot
in the executor, claims the row and launches.  The executor writes log rows,
which the scheduler of any replica reads for SerialSkip and closes when their
process is dead, and at the end it writes the job row again.

What makes each correct:

- scheduler: an occurrence is claimed at most once whatever the leases say; a
  due occurrence is claimed in the end; the row is coherent (a stopped job has
  no next instant, no writer takes another's write back);
- trigger: the next instant is the first one of the effective window;
- executor: never more than `MaxConcurrentRuns`; a serial job once per process;
  every row is closed, and not before its run is over; one alert;
- worker ids: never two processes that may issue ids with one worker id;
- sessions: at most N live sessions in the end; a refresh token works once; a
  revoked session never comes back, and a page does not end its own;
- console: what is shown and cached is never older than the last edit; one
  request, connection or login where one is meant; nothing the user wants once
  happens twice; the tree the user draws is the one that is saved, accepted and
  followed by the engine;
- delivery: what is not idempotent is never sent again without knowing that it
  did not arrive; every final state is reached once;
- workflow: each task is completed once, a join fires once, no result of a
  lost lease is written.

## 2. Plan

Done, in this order:

1. **JobTrigger, JobScheduler, JobOccurrence**, **JobTriggerProofs** (both
   searches against their reference definitions) and **JobSchedulerProofs** (all
   of its safety properties and the refinement as theorems).
2. **JobRuns**: the executor and the reaper; **JobRunsProofs**: all of its
   safety properties as theorems.
3. **WorkerIdLease**, **WorkerIdOwnership** and **WorkerIdLeaseProofs**: type
   correctness, exclusion, and the refinement as theorems.
4. **The console**: DictStore, DictPage, SerialPoller, Realtime, Tabs,
   ChunkUpload, LoginPage, WfModel, ClientSession and RequestKey, composed in
   MCConsole; **HttpProofs** (session and request keys), **WfModelProofs** (the
   designer) and **ConsoleProofs** (the other parts, and the console they make
   together).
   ClientSession, RequestKey and WfModel reach into the server: rotation and
   revocation of sessions, the operation receipts, the checks before publishing
   and the search for the next node.

Left: the limit of sessions per user on top of ClientSession; integration
delivery (`DeliveryStateMachine` as operators; dispatcher, callback and
administrator as processes); running workflow instances (node executions with
their fence, the outbox, tokens and joins).

JobScheduler decides *which* occurrence is claimed and JobRuns what becomes of
*one that is*; they meet at the claim, which JobRuns lets succeed or fail, and
at the launch, whose outcome JobScheduler leaves open.  Abstract
specifications: `JobOccurrence` (what the scheduler promises about one job) and
`WorkerIdOwnership` (what the lease promises the id generators).  DictPage
extends DictStore, whose cache it invalidates; the other parts of the console
share no state with one another and are put side by side in MCConsole.

## 3. Modules

| Module | Models | Kind |
|---|---|---|
| `JobTrigger` | `JobTrigger.cs` as operators; a cron expression is the set of instants it matches | operators |
| `JobOccurrence` | one armed occurrence, later than all handed out before | abstract specification |
| `JobScheduler` | one job row, the lease, the ticks of several replicas, administrators, the end of a fire | state machine |
| `JobRuns` | fires, attempts, log rows, heartbeats, reaping, kill, drain, panic | state machine |
| `WorkerIdOwnership` | each worker id has an owner, nobody else begins to issue with it, and it changes hands only while no process issues | abstract specification |
| `WorkerIdLease` | rows, file locks, claims, renewals and deadlines of several processes | state machine |
| `DictStore` | the dictionary cache: shared loads, answers, invalidation; versions stand for items | state machine |
| `DictPage` | the dictionary page over it: selection, item loads, several edits at once, of either console | state machine |
| `SerialPoller` | `createSerialPoller` and the visits to its page | state machine |
| `Realtime` | the singleton connection, both consoles | state machine |
| `Tabs` | the tab bar and navigations that are superseded, refused or fail | state machine |
| `ChunkUpload` | concurrent attempts at one file, each with its pool of workers, and the server's upload session | state machine |
| `LoginPage` | the login form: kinds of login, captcha ticket, challenge, countdown, and what is left of it after the login | state machine |
| `WfModel` | the tree of the designer and its edits, both validators, the engine's next node | state machine and operators |
| `ClientSession` | requests, the shared refresh, and the session service behind it | state machine |
| `RequestKey` | the key of a submission, and the receipts of the engine | state machine |
| `MCJobTrigger`, `MCJobScheduler`, `MCJobRuns`, `MCWorkerIdLease`, `MCConsole` | instances for TLC | |
| `JobTriggerProofs`, `JobSchedulerProofs`, `JobRunsProofs`, `WorkerIdLeaseProofs`, `WfModelProofs` | theorems about the module each is named for | proofs |
| `HttpProofs` | theorems about `ClientSession` and `RequestKey` | proofs |
| `ConsoleProofs` | theorems about `Realtime`, `DictStore`, `DictPage`, `LoginPage`, `ChunkUpload`, `SerialPoller` and `Tabs`, and about the console of `MCConsole` | proofs |
| `RecursionTheorems` | when a function defined by recursion exists | lemmas |

**JobScheduler.**  Each action is one SQL statement with the computation around
it, so any two statements of two processes interleave.  `now[n]` is the instant
a tick captured at its start (`TickAsync`) and keeps however long the process
is paused; that is how a stalled former leader arises, without a special
action.  `TickFails` is an exception of any statement (`ExecuteAsync` swallows
it), `ReloadFails` the one place where state was changed before; a reload builds
`loaded[n]` and makes it the cache only at its end (`Assign`).  `Crash` ends a
process between any two statements.  `Skew[n]` is the error of a replica's
clock.  Administrators: `AdminRead` is the SELECT every operation begins with,
and the snapshot it took is carried along, so lost updates are representable.
A fire's end writes the row by `LeaveReady`.  `claims` is a history variable.

**JobRuns.**  A critical section under `_fireGate` is one action, a statement
outside it another.  A fire goes reserved -> claimed -> checked -> starting ->
inserted -> running -> closing -> waiting (for a retry) or finishing ->
judging -> panicking -> gone; `asked` is a run-once request between its SELECT
and its launch.  `mode` is the life of a process (up, draining, hardStop,
stopped, crashed), `inst` its InstanceId.  A handler may end in every way the
code distinguishes, whether it was told to stop or not.  Clocks agree here, and
`OnTime` says that a scheduler that is up does not sleep past its next
heartbeat; without it a living process is reaped, as the code's own comment
accepts for stalls of more than twice `LeaseSeconds`.

**WorkerIdLease.**  Every statement of `TryOwnSlot` and `ConfirmOnceAsync`, every
look at a clock and every section under `_stateSync` is an action of its own,
and the clock may tick between any two.  `now` is the monotonic clock the
processes measure durations with (they compare only differences, so one clock
serves all); `dbNow` is what `SELECT CURRENT_TIMESTAMP` returns, cut down by
less than `Second`.  `pc[p]` is the life of a process: probe -> clock -> look
-> insert or update -> owned (-> locked) -> attaching -> up -> stopping ->
released -> dead, with taken (the next slot), undo (the file is locked) and
failed aside; `attempt[p]` is the `ConfirmOnceAsync` in progress, one at a time
because of `_confirmationGate`.  A restart is another element of `Proc`: it has
a new token and so a new NodeName, which is all an owner is recognised by.
`MayIssue(p)` is what the last `EnsureActive` of `NextId` asks.  The same
machine means that a dead owner is recognised (`OwnerProcessIsGone`); on
another machine only the expiry helps.

**The console modules.**  An action is the code from one `await`, callback, timer
or event to the next, which is what JavaScript runs without interruption; a
request is a record that is asked, served and answered in steps of its own, so
answers come late, in any order, or as errors.  Where Vue and React differ a
variable such as `pFront` says which console it is, chosen in the initial state;
where they are the same the map names one of the two files (`workflow/model.ts`,
`workflow/configuration.ts`, `utils/chunkUpload.ts` and `useRequestKey.ts` are
twins).

- `DictStore`: `dSrv[t]` is the version the server holds, a request carries the
  version it was served, and `want` is the version of the last invalidation when
  a caller joined: what it must get at least.
- `DictPage`: `pEdits` holds the edits whose request is out, of six kinds (item
  form, item deletion, batch, type deletion, batch of types, switch).  `mask`
  says whether one covers the page: in React all but a switch do, in Vue none
  (its deletions are popovers), so anything may be selected and edited meanwhile.
  Vue then loads the type selected by then, React that of the edit; a switch
  loads nothing.  `pLoads` holds every load begun, so answers come in any order.
- `SerialPoller`: `plVisit` counts the visits to the page, which the code does
  not have; `generation` is the code's own means to tell them apart.
- `Realtime`: a connection is negotiating, live or closed; `stopping` is a stop
  that has been asked for.  Vue's stop makes a negotiation fail, React's waits.
- `Tabs`: `tbStale` holds the superseded navigations that have not settled, with
  whether the back button of a detail page began them: `afterEach` runs for them
  when they do, and so does the `.then` of that button, on the page current by
  then.  `TabsFail` is a navigation that a page refuses (`onBeforeRouteLeave`:
  `afterEach` and `.then` run) or that throws (a guard, a lazy component: neither
  does).  `TbBare` stands for the pages without a tab (choice of the application,
  404, personal), `tbPick` for the application whose menu is being loaded.
  `Keep(tabs, I)` is the `filter` of the batch operations, as a recursive function
  of the position.
- `ChunkUpload`: the server's session belongs to the hash, so all attempts of a
  page, of other pages and of other users share `cuServer`.  Per attempt `cuLeft`
  holds the chunks not claimed yet, `cuFlights` those a worker is sending; a chunk
  may be stored although its sender is told it failed, and later still
  (`cuServer.late`).  A complete looks for the file, merges and discards in steps of
  its own; the sweep may discard at any time.
- `LoginPage`: `lpHome` is the time after a login, when the form is still there:
  the dialog about the external identity (`confirm`, which is modal), then the
  navigation home, which only Vue's account login waits for with its flag set
  (`awaited`, else `free`) and which may arrive, be superseded or fail.
- `WfModel`: a function from node ids to a type, a successor, arms, where a
  rejection and a return lead, and whether a timeout hands over to nobody.  Walk and the other searches are recursive functions of the node.
  Continuation is what the drawing means, the reference `Transition` is compared
  with.
- `ClientSession`: a number stands for a pair of tokens issued together;
  `ssFlight` is a refresh, which reads first and commits later, so that a
  revocation falls in between.
- `RequestKey`: `rkIntent` counts what the user wants; editing, opening and
  switching begin a new one, repeating does not.  A submission is out, resolved to
  its target, in its transaction, or done on the server, whatever the page knows
  of it.  The engine recognises it by `Identity`: key and target, where the target
  of a start is the version of the definition `StartAsync` resolves anew for every
  submission (`RkPublish` may change it in between), and a receipt of another
  payload is refused.

## 4. Runs

| Run | Instance | Shows |
|---|---|---|
| `trigger` | all triggers over a few instants | `CronNextIsFirstInWindow`, `MissedCountsTheDueInstants`: the searches agree with definitions that do not search |
| `scheduler` | two replicas, clocks one second apart, stalls, failing ticks, deaths before instant 3 of 4; cron or interval | `AtMostOnce`, `NextIsFresh` (no writer takes NextRunTime back), `LeaseExcludesOthers`, `TypeOK` |
| `scheduler_handout` | two replicas, one administrator who updates, enables and pauses; an endless cron trigger | `HandsOutOnce` (JobScheduler implements JobOccurrence) |
| `scheduler_admin` | one replica, two administrators who update, delete and restore; the trigger fires every second or its window is already closed | `StoppedJobIsDisarmed`, `ClaimsAreNotUncounted`, `DeletedStaysDeleted` |
| `scheduler_live` | two replicas, one may die for good, panic and enable | `DueIsClaimed` |
| `scheduler_oneshot` | a one-shot job and a stalled leader | **violation** of `AtMostOnce`, see section 7 |
| `runs` | one process, a serial and a parallel job, two slots, three fires, run once, enable, stop | `WithinCapacity`, `OneRunPerNode`, `AlertOnce`, `OrderlyStopClosesItsRuns` |
| `runs_live` | one process that dies and restarts under its name, one fire with a retry, kill, timeout, a failing close | `LiveRunIsOpen` (no row of an attempt is closed while the scheduler of its process runs), `EveryRunCloses`, `TypeOK` |
| `runs_api_replica` | a replica with `SchedulerEnabled=false` | **violation** of `ApiReplicaRunsStayOpen` |
| `runs_retry_gap` | two replicas, a retry | **violation** of `RetryingFireIsSeen` |
| `worker_id` | two processes on one machine, one with a configured id and one that scans; one slot; failures and deaths at instant 0 | `ExclusiveWorkerId`, `ImplementsOwnership` (WorkerIdLease implements WorkerIdOwnership), `SuspensionEnds`, `TypeOK` |
| `console` | every part of the console, both versions | the table below, and `ConsoleTypeOK` |

| Part | Bounds | Property |
|---|---|---|
| dictionary cache | two types, two requests, two changes | `DictCacheIsFresh`: nothing older than the last invalidation is cached; `DictJoinIsFresh`: nor given to a caller that joins |
| dictionary page | three loads, two edits, two changes | `PageTableIsCurrent`: the table shows the selected type and, in React, nothing older than the last edit that loaded it again; `EditReachesCache`: what other pages read next is as new as the edit |
| poller | four visits | `PollSerial`: one request, only this visit's answer, always a next poll, no traffic afterwards, no first failure kept silent |
| realtime | three connections, two logins | `RtNoLeak`: what is open is the singleton or is being stopped; `RtVoluntaryIsSilent`: no warning for one's own logout |
| tabs | two applications, a list, a detail page, a page without tab, one superseded navigation | `TabsCurrentShown`: the page shown has its tab |
| upload | three chunks, two workers, two attempts at once | `CuSendsWhatIsMissing`: an attempt sends nothing twice, and completes only when nothing is missing but what was discarded meanwhile |
| login | two tickets, one challenge, two messages | `LoginOnce`: one login at a time, no ticket twice but that of an accepted login |
| designer | four nodes besides the start, two arms, one jump or timeout | `WfEditsKeepTree`: no edit loses or doubles a node, or makes a tree that cannot be repaired; `WfServerAgrees`: console and server accept the same, but for three things; `WfEngineFollowsDrawing`: the engine goes where the drawing leads |
| session | two requests, three pairs, two logins | `SsNoSelfReuse`: a page never gets its own session revoked, unless an answer was lost; `SsRevokedIsDead`: a revoked session keeps no working token |
| request key | three submissions, three intents, two versions | `RkOncePerIntent`: what is wanted once happens at most once, unless a version was published in between; `RkSuccessIsTrue`: success is shown of what was submitted |

**Bounds.**  `MaxTime` stops the clock, `CrashBefore` the failures, `MaxFires`,
`MaxRestarts` and the cap on ConsecutiveErrors the counters; `MissedCap` stands
for 1000.  Two replicas are enough for every race of two statements, since a
statement is atomic and the row is the only shared state; the clock runs long
enough for a lease (1 s) to expire, be taken over and expire again while a
stalled tick still holds its instant, and in JobRuns for 2 x LeaseSeconds to
pass after a death.  The replicas of `scheduler_handout` and the
administrators of `scheduler_admin` are interchangeable (permutation symmetry;
no liveness is checked there), and clocks of two and one instants are enough
for a claim to fall between any two statements of an edit.  The two runs share
the administrative races: a claim against an edit needs one administrator, and
an edit against a deletion or a restore needs two but no second replica.
`scheduler_handout` keeps to one trigger that never ends and to one
administrator, because outside of that the code does hand an occurrence out
twice (section 7: one-shot jobs, closed windows, ABA, two enables).

In `worker_id` a TTL of 3 with a cut-off of 2 leaves a local deadline of 1, and
the clock reaches 3: long enough for a row to expire, be taken over while a
renewal of the old owner is still unanswered, and for a suspended process to
renew again.  `FailBefore` confines failing statements and deaths to the first
instant, the rest of the run has only delays; the theorems of section 5 need
none of these bounds.  One slot is where contention happens; that a scan goes on
to the next slot is in the specification and, with any number of slots, in the
theorems.

In `console` the variable `focus` names the part that acts, chosen in the
initial state, and the others rest: they share no state, so every behaviour of
the console is one of each of its parts, and side by side their state spaces add
up instead of multiplying.  The two parts of the dictionary share the cache and
act together when the page has the focus.  TLC takes the steps of `BoundedNext`:
those of `ConsoleNext` (which the proofs are about) that stay within four bounds.
`PageReqs` leaves the other pages all requests but one, and allows at most four
of the page's loads, its edits and these requests together; `OnePin` allows one
pinned tab at a time, `TicketsAndSends` a second captcha ticket or a second
message, and `TriesAndIntents` three submissions or three intents, not both.  The
edits and the applications are interchangeable (permutation symmetry).  The bounds leave room for each race
and one more step: a second load, visit, connection or attempt while the first
is out and a third after it; a branch in an arm of a branch and a parallel node
in the arm of a branch; two requests around one refresh and another refresh
after it.  These parts may stop (a page is left, a bound is reached), so
deadlock is not checked there, and no fairness is assumed: nothing in a page
must happen if no answer comes.

**Fairness.**  `scheduler_live`: a tick that has begun goes on and the next one
begins (`ExecuteAsync` loops until the host stops), fires end, time passes.  A
dead replica may stay dead; only if all are dead is one started again.
`DueIsClaimed` is claimed while the clock still has `ReloadSeconds` to go,
because a change published in another process is seen that much later and the
clock of an instance ends.  `runs_live`: in addition the process is started
again (the supervisor) and its ticks reach the leader's part again and again
(`Leads`), which is what `DueIsClaimed`'s leadership amounts to.  No fairness
is assumed of administrators, failures or kills.  `worker_id`: the renewal loop
goes round and the database answers in the end (`WF(ConfirmOnce)`); nothing is
assumed about how fast, and nothing about the clock.  When the clock has
stopped a request can no longer be late, which stands for a database that
answers within the TTL at least once after the outage.

## 5. Proofs

`JobSchedulerProofs` proves for any number of replicas, administrators,
triggers, clocks and bounds, from `JobTrigger`'s and `JobScheduler`'s
assumptions:

- `TypeCorrect`: `Spec => []TypeOK`.  `TypeOK` also holds the facts that make it
  inductive: a captured instant exactly during a tick, only leaders past the
  heartbeat, a request in progress has a snapshot.
- `LeaseIsExclusive`: `Spec => []LeaseExcludesOthers`.  `LeaseInv` adds that the
  instant a tick captured was not ahead of its replica's clock, and that the
  lease it took then is still in the row: whoever takes it over waits until the
  row has expired on a clock of its own, which is later than what the property
  supposes of every clock.
- `StoppedIsDisarmed`, `RunsAreCounted` and `DeletedIsKept`: every write of
  every process, the whole-row writes of `SetEnabledAsync` included.
- `ClaimedAtMostOnce` and `ArmedIsFresh`: `Spec => []AtMostOnce` and
  `=> []NextIsFresh`, assuming `Endless` (every trigger has a next instant after
  every instant: no one-shot jobs, no end of the window) and `NoRearming`
  (administrators make no request that computes a NextRunTime), whatever the
  clocks.  The invariant `OnceInv` says that claims are made in increasing
  order, that an armed row is later than every claim, and that a row without a
  next instant has no claims yet.  A claim moves the row to an instant after the
  tick's `now`, which is at least the claimed one; every other writer either
  disarms or leaves the column.
- `ClaimedAtMostOnceUnderEdits` and `ArmedIsFreshUnderEdits`: the same with
  edits, enables, pauses, deletions and restores, assuming `Endless` and
  `Orderly`: the clocks agree, one request is in progress at a time, and no job
  that is Ready is enabled (section 7 says what the code does outside of that).
  The clocks matter because a request computes NextRunTime from the clock of its
  own replica.  `EditInv` joins `OnceInv`'s claims with `LeaseInv` and
  `ClaimsArePast` (whatever was claimed is past on every clock), and says of each
  request in progress (`RequestIsFresh`) that the instant it has computed is
  later than all claims if the row it will compare with is still the one it read:
  a row only moves forward, so an edit whose comparison succeeds has missed no
  claim.
- `ImplementsJobOccurrence` and `ImplementsJobOccurrenceUnderEdits`:
  `Spec => HandsOutOnce` under either pair of assumptions.  One lemma maps every
  step: an edit, an enable or a backfill to an Arm, a claim to a hand-out, what
  stops or deletes to a Disarm, everything else to a stutter, by either
  invariant.

`JobRunsProofs` proves for any replicas, jobs, fires, retries and set of failures
that may happen, from `JobRunsAssumption` alone.  One inductive invariant `Inv`
carries all of it (`Safety`: `Spec => []Inv`); its parts are:

- `TypeCorrect`: `TypeOK`, with `FireShape`: what the program counter of a fire
  says of its other fields.
- `CapacityHolds` and `OneRunHolds`: `WithinCapacity` and `OneRunPerNode`.  The
  first is not inductive, because a claimed occurrence is launched without
  counting again; `Capacity` counts the reserved slots too.
- `OneAlert`: `AlertOnce` from `AlertsAreOwed`: a job owes an alert exactly while
  it is not Ready, since of the fires that fail at once only one moves the row
  out of Ready.
- `OrderlyStop`: `OrderlyStopClosesItsRuns`.  `RowsAreAnsweredFor` says who
  answers for an open row of a process that has not crashed: its fire, in that
  very attempt, or nobody when the closing UPDATE failed.  That needs
  `RowsComeLater` (no row of an attempt that has not begun), `RowsAreSigned` and
  `AttemptsSign` (who wrote it, under which InstanceId).  A drained process has no
  fires left.
- `LiveRunsAreSpared`: `LiveRunIsOpen`, about a reaper that reads heartbeats and
  rows in two statements and closes them in others.  `BeatsAreFresh` bounds the
  age of the last heartbeat of a scheduler that runs by `HeartbeatSeconds`;
  `RowsBeforeFirstBeat` covers a process that restarted under its name and whose
  heartbeat row still carries the old InstanceId: its rows are younger than its
  first tick.  Then the list of the living which the reaper holds has every
  living process, or all its rows are younger than the reaper's deadline
  (`ListsTheLiving`), and no row it has selected belongs to one
  (`OrphansAreNotLiving`).  The arithmetic is 2 x LeaseSeconds > HeartbeatSeconds,
  which the validation of the options guarantees.

`WorkerIdLeaseProofs` proves for any number of processes, machines and worker
ids, any TTL and any cut-off shorter than it, with failures and deaths at any
time, from `LeaseAssumption` alone:

- `TypeCorrect`: `Spec => []TypeOK`.
- `LeaseInvariant`: `Spec => []LeaseInv`.  The exclusion is not inductive: it says
  nothing of a process whose UPDATE has been sent but not answered.  `Covered(p,
  start)` is what a confirmation begun at `start` is worth: either the deadline
  `start + LocalConfirmedTtl` has passed, or the row is p's and expires after
  it.  `LeaseInv` has it of the claim, of the lifetime and of an answered
  renewal, and orders the clocks: `start` was sampled before the database's
  clock, so the row expires later than `start` plus the TTL less the cut-off.  A
  takeover reads a row that had expired (then every deadline that row covered
  has passed), is its own, or belongs to a dead process.
- `Exclusive`: `Spec => []ExclusiveWorkerId`, since whoever may issue owns its row.
- `Refines`: `Spec => ImplementsOwnership`.  The refinement maps `issuing` to the
  pairs of worker id and process that may issue now, so that Resume is a step of
  the row's owner only.  A step that leaves this set is a Take, a Release or a
  stutter, because an issuer owns its row before and after; a step that leaves
  the owners is a Resume, a Suspend or a stutter.

`HttpProofs`, for any number of requests, tokens, logins, submissions and intents:

- `RevokedIsDead`: `SessionSpec => []SsRevokedIsDead`.  The invariant adds
  `TokensAreOpened` (a pair belongs to a session that was opened) and
  `PageHoldsIssued` (the page and its refreshes hold pairs that were issued).
  Rotation keeps the number of working tokens of a session because it looks
  again, inside its transaction, at what was read before it.
- `NoSelfReuse`: `SessionSpec => []SsNoSelfReuse`.  The store goes on holding a
  pair that was used up until the answer of the rotation comes; `ReuseInv` says
  that this is so only while the one refresh the shared promise stands for
  (`OneFlight`) has been committed and not answered (`StoreIsFresh`), and that a
  refresh under way presents a pair that is not used up (`FlightIsFresh`).
- `OncePerIntent` and `SuccessIsTrue`: `RkSpec => []RkOncePerIntent` and
  `=> []RkSuccessIsTrue`.  `RkInv` joins two arguments.  `ServerInv`: an identity
  (key and target) has at most one effect and, before it, at most one
  transaction, so a later submission of the same identity waits or meets the
  receipt.  `KeyPageInv`: the submissions of one intent carry one key and one
  content, because a key is dropped only when an intent begins or by the answer
  of a submission of the dialog's present generation, and that one is the last
  submission, having kept the form busy ever since (`LastKeepsBusy`).  Two effects
  of one intent can therefore differ in the target only, and there in what a
  start was resolved to: the exception the property names.

`ConsoleProofs`, for any number of connections, types, loads, visits, tabs,
chunks, workers, attempts, tickets and messages:

- `NoLeak` and `VoluntaryIsSilent`: `RtSpec => []RtNoLeak` and
  `=> []RtVoluntaryIsSilent`.  `RtInv` adds that a live connection is never being
  stopped (React closes one whose negotiation ends after the stop, in Vue it
  cannot end well), so that a page whose logout is out, which has given the
  singleton up (`AskedHasNone`), has nothing left that could deliver the forced
  logout it provokes.
- `CacheIsFresh` and `JoinIsFresh`: `DictSpec => []DictCacheIsFresh` and
  `=> []DictJoinIsFresh`.  Neither is inductive: a request on its way will write
  the cache later.  `DictInv` adds that whatever is registered as pending for a
  type was asked since its last invalidation, so that its answer, served at any
  time after, is fresh; `.then` writes only if it is still the one registered,
  and `.finally` removes only itself.
- `TableShowsSelected` and `EditsReachCache`: `DictPageSpec =>
  []PageTableIsCurrent` and `=> []EditReachesCache`, with any number of edits out at
  once.  `PageInv` extends `DictInv` by what the page's own requests carry: the
  latest load, whose answer alone counts in React, is of the selected type (in
  React unless `pStray`) and has read nothing older than the last edit that loaded
  its type again; and the cache's floor has reached every edit that is confirmed.
  What is
  stated is what holds in spite of edits that do not mask the page: a React
  switch loads nothing, and in Vue an edit confirmed after another selection
  loads the type selected by then (section 7).
- `SendsWhatIsMissing`: `CuSpec => []CuSendsWhatIsMissing`, with all attempts at
  one hash running at once.  Other attempts only add chunks, unless somebody
  discards them, so `CuInv` says of each attempt: unless its session was wiped
  (`cuWiped`), each chunk the server lacks is behind its cursor or with one of its
  workers, so that when the last worker runs out nothing is missing; and what it
  has counted, on its way and behind its cursor makes up the file, a sum of
  cardinalities that each answer only moves, whatever the server has meanwhile.
- `LogsInOnce`: `LpSpec => []LoginOnce`.  `LpInv` says what the busy flag stands for
  in each console (`BusyCovers`), that of a login waiting for the navigation home
  included, and, for Vue, that no ticket is shown while a captcha is loading and
  that a ticket that was presented is shown only while its login is out or once
  that login was accepted (`VueTickets`).  The exception, the ticket of an
  accepted login, is what the code leaves on the form (section 7).
- `PollerIsSerial`: `PollSpec => []PollSerial`.  The invariant adds
  `CountsFlights` (`inFlight` is set exactly while a request is out, whichever
  visit sent it) and `GenIsOfVisit` (a request of the present generation was
  sent in the present visit), the two facts the code's flags stand for.
- `TabsPageIsShown`: `TabsInit /\ [][TabsNext]_tabsVars => []TabsCurrentShown`.
  `TabsInv` adds that the paths in the bar differ (`Unique`, part of the type),
  which makes `findIndex` and `filter` agree, and that a React navigation ends at
  once.  Every way a tab goes ends in a navigation or in an exception the
  property names: a `.then` that removes the tab of the page current by then
  begins a navigation to its neighbour, whatever was under way.  `Keep` is
  recursive; that it keeps exactly the tabs of the given positions, in their
  order, is shown by induction on the position (`KeptExists` and the lemmas after
  it).
- `ConsoleKeepsTypes` and `ConsoleKeepsPromises`: `ConsoleInit /\
  [][ConsoleNext]_consoleVars => []ConsoleTypeOK` and `=> []ConsoleSafe`, the
  conjunction of the seventeen other invariants of the `console` run.
  `StepIsOfPart` says what the composition is: a step of the console is, for
  every part, a step of that part or a stutter (`PartSteps`).  `ConsoleInv` is
  then the conjunction of the parts' invariants, with the types of what those
  leave open.  Only the dictionary cache serves two parts: while the page over it
  has the focus the cache goes by `PageInv`, otherwise the page has selected and
  edited nothing (`PageRests`).

**Recursive functions.**  The models define their searches as functions
`f[n] == ... f[m] ...`, which in TLA+ is `CHOOSE f : f = [n |-> ...]`; until a
solution is known to exist, nothing can be said of `f`.  `RecursionTheorems`
proves that one does (`RecursionHasSolution`), for any function of functions
that looks only below its argument in a relation whose non-empty sets have
minima: the largest of the partial solutions is everywhere.  The provers cannot
take an operator as a parameter, so the recursion is a *function* of functions,
which they can; what such a recursion computes is then shown from the equation
by taking a least (or a last) counterexample.

`JobTriggerProofs`, for any job that `ApplyInput` lets through, any instant, any
cap and any horizon:

- `CronNextIsFirst`: `Spec => []CronNextIsFirstInWindow`.  `ComputeNext` starts one
  second before StartTime and rejects what is after EndTime; that it finds
  the first instant of the window itself is a case distinction over where the
  first match lies.
- `MissedCountsAll`: `Spec => []MissedCountsTheDueInstants`.  `TriggerInv` adds that
  an armed cron job was armed for an instant its expression matches.  `WalkCounts`
  says of the walk that it returns what it has counted plus what is still ahead,
  cut at the cap; an interval's count is the number of multiples of its period
  (`MultiplesCounted`).

`WfModelProofs`, for definitions of any number of nodes, arms and rejections:

- `EditsKeepTree`: `WfInit /\ [][WfNext]_wfVars => []WfEditsKeepTree`.  The property
  speaks of `Walk`, which is recursive, and is not inductive: it says nothing of
  nodes outside the walk, nor of cycles.  `Whole(tree)` says without any
  recursion what a tree is: links lead inside (`LeadsInside`), no node has two
  ways to it (`OneWay`), every node but the start has one (`Reached`), some depth
  grows along every link (`Ranked`), arms are where they belong, the default arm
  last (`ArmsShaped`), and the nodes inside parallel arms, taken as any set closed
  under links, contain no parallel node (`Unnested`).  There is one lemma for each
  edit (`InsertIsWhole`, `AddArmIsWhole`, `RemoveArmIsWhole`, `RemoveNodeIsWhole`,
  `CloneIsWhole`), and `WholeIsReached` brings the walk back: in a whole tree it
  reaches every node.
- `ServerAgrees`: `=> []WfServerAgrees`.  The server's index and the console's checks
  look for the same faults with different searches; `ValidationsAgree` compares
  them fault by fault, but for the three the console does not look for
  (`BackOnly`).
- `EngineFollowsDrawing`: `=> []WfEngineFollowsDrawing`.  The engine climbs from
  branch to branch (`ResolveMergeTarget`), the drawing is followed from arm to arm
  (`Continuation`).  Both are recursions upwards, on the depth a node has; every
  one of them is given its equation first (`MergeEquation`,
  `ContinuationEquation`), then what they find is compared from the top down
  (`EngineFollows`).

Fairness and ENABLED are out of the provers' reach.  Every invariant and every
action property of the passing runs is stated by a theorem; liveness is
model-checked only (`DueIsClaimed`, `EveryRunCloses`, `SuspensionEnds`).  Most
theorems hold under the named assumptions on constants alone; those of
JobScheduler about claims (`AtMostOnce`, `NextIsFresh`, `HandsOutOnce`) assume
`Endless` with `NoRearming` or `Orderly`, since outside of them the code does hand
an occurrence out twice (section 7).  The cron triggers of `scheduler` and
`scheduler_handout` are endless as far as the clock of the instance goes.

Some constants have assumptions that the proofs need, all of what the program has
anyway: `DictNone`, the page's selection before the first, is not a type; the
login form opens with a captcha (`LpMaxTickets` is at least 1); the user of a
workflow page wants something (`RkMaxIntents` is at least 1); a definition has
room for the three nodes of a saved one and a branch for two arms (`WfMaxNodes`,
`WfMaxArms`).  The horizon of `MCJobTrigger` is a natural number.  In the models
themselves, three definitions are written so that the proofs can take them up,
with the same meaning: `CronWalk` recurs on the pair of instant and count,
`Keep` is a function of the position, and `RemoveNode` names what a link past the
removed node becomes.

## 6. Not modelled

Parsing and calendar arithmetic of cron expressions (a fixed set of instants
stands for it); creation of a job; `ClearAsync`; handlers; the sleep between
ticks except for its upper bound; time zones; what section 2 lists as left, and
the components `PROJECT.json` lists as not_modelled with their reasons.

Of the server: the limit of sessions per user (`SessionService.cs:83`, two logins
that insert first and then each revoke all but the newest), integration delivery
and running workflow instances.  The last two are larger than everything
modelled here; half of either would prove little, since their guards rest on
each other.

Of the console: the greater part is tables, forms and dialogs over one request
at a time, endpoint lists, translations and styles, with no state that outlives
the request and nothing to be said that the code does not say itself.  Left out
although they have some: the designer page around WfModel (load, save, publish),
the guards of the router and the shell (their races end behind a spinner or a
new navigation), the notice bell, the remote selects, the import wizard, the
re-authentication dialog, several browser tabs over one local storage, the React
job monitor (an interval and a flag, no poller), the React task dialog (its key
goes with every background refresh, section 7), webhook and AI nodes, and the
form schema of a definition.

Of worker ids: the arithmetic of an id, the creation of the table, a lease
attached to an assignment made elsewhere (`ActivateAssignment`), and the parsing
of file-lock directories.  The model assumes that `CURRENT_TIMESTAMP` does not
jump (where it is local time, a change to daylight saving time ends every lease
at once or makes it last an hour longer), and that a process id names one
process of a machine name: containers that share a hostname but not their
process ids would be taken for dead (`OwnerProcessIsGone`).

## 7. Deviations met

Shown by a run:

- **A one-shot job can be claimed twice** (`scheduler_oneshot`).  From its claim
  to the end of its run the row is Ready with NextRunTime null, which is also
  what an unarmed row looks like; a leader that stalled before OneShotTime
  arms it again from its old `now`.  The same holds at the end of an effective
  window: after its last claim such a job too is Ready with no next instant, so
  a stalled leader arms it again, and a reload that read it so may complete it
  while an administrator is opening the window.
- **Runs on an API-only replica look orphaned** (`runs_api_replica`): such a
  replica never writes a heartbeat row.
- **SerialSkip does not see a fire between two attempts** (`runs_retry_gap`): it
  has no open row then.

Met while modelling, without a run of their own:

- `ComputeNext` lets a one-shot job fire before StartTime, and `CountMissed`
  counts instants after EndTime (`JobTrigger.cs:22`, `:45`).
- `CountMissed` counts the occurrence it is given: its comment says
  "(expected, now] 内本应触发的次数" (`JobTrigger.cs:32`), the code starts at one
  for cron and adds one for interval jobs (`:38`, `:42`), so the interval is
  [expected, now].  `MissedCountsTheDueInstants` states the code's count: the
  expected occurrence is the one that was missed.
- `SetEnabledAsync` writes the whole row it read (`JobService.cs:176`): enabling
  a job that is Ready, or two administrators enabling at once, can put back a
  claimed occurrence, and a pause or an enable that read the row before a
  deletion brings it back.  `ClaimsAreNotUncounted` and `DeletedStaysDeleted`
  except it by name.
- The conditional UPDATE of an edit compares NextRunTime only; when two
  administrators alternate between two triggers it can find the old value again
  after a claim (ABA) and arm a past instant.  This is why `scheduler_handout`
  has one trigger and one administrator.
- A restored job is visible with its old status until the second statement
  pauses it (`RecycleBinController.cs:100`), and can be claimed in between.
- A drain longer than 2 x LeaseSeconds is reaped while alive, since a draining
  process no longer heartbeats; `CloseLogAsync` then overwrites the row.
- A row whose closing UPDATE failed stays open while its process lives, and
  SerialSkip skips the job meanwhile; `EveryRunCloses` excepts it by name.
- A fire launched but not yet registered when a hard stop comes starts its first
  attempt afterwards; a killed handler that throws an exception of its own is
  recorded Failed and retried.
- Exclusive worker ids do not by themselves make ids unique across owners: the
  lease keeps no last timestamp, so a successor whose wall clock is behind the
  predecessor's (another machine, or a clock set back before a restart) can
  compose an id that was issued before (`SnowflakeIdGenerator.cs:103` compares
  with this process's own last timestamp only).

Of the console:

- The comment of `validateModel` calls it aligned with
  `ValidateModelForPublish` (`workflow/model.ts:364`); it accepts a rejection or
  a return whose target was never chosen or was removed since, and a timeout
  that transfers to nobody, all of which the server refuses
  (`WfDefinitionService.cs:714-741`).  `WfServerAgrees` excepts these three by name.
- The Vue dictionary page recognises its answer by the selected type only, so an
  older load of the same type can overwrite a newer one; React counts its loads.
  `PageTableIsCurrent` promises freshness for React alone.
- The status switch of an item patches its row, invalidates the cache and loads
  nothing, in both consoles, and does not cover the page; a load begun before it
  may answer after it and show the old status (React: `dict/index.tsx:175-180`).
  `PageTableIsCurrent` speaks of edits that load again (`pReload`).
- A React edit loads the items of *its* type when it is confirmed.  Its type may
  no longer be the selected one: a form closes when its page is left and shown
  again while its request goes on (`FormContainer.tsx:58-74`), and rows can be
  reached by keyboard under the spinner; the items then appear under another type
  until the next selection (`pStray`).  A Vue edit loads the type selected by then.
- The React batch of items invalidates the selected type only
  (`dict/index.tsx:65`), though checked rows may be of a type shown before; the
  page's comment (`dict/index.tsx:3`, like `dict/index.vue:4`) promises that every
  change invalidates.  `EditReachesCache` excepts it.  In the model the items of
  one batch are of one type.
- Closing all tabs when none is fixed, and in React closing the last tab,
  navigates nowhere: the page shown has no tab.  `removeTab`, the batch operations
  and a switch of application take tabs away before they navigate, so a
  navigation that then fails (a guard, a lazy component, `router/index.ts:22`)
  leaves the page without one; and a React user who goes home while his choice
  of that application is loading finds the bar cleared (`useModule.ts:18-24`
  clears it after the effect has run).  `tbOrphan` marks these, which
  `TabsCurrentShown` excepts.
- The back button of the Vue instance page removes the tab of the *list* it has
  just gone to (`views/workflow/instance/detail.vue:537` reads `route.path` after
  the push).  A push that is superseded or refused resolves too: then it is the
  page shown by then that loses its tab, and the navigation to the neighbour
  which `removeTab` begins overrides the one the user wants.
- vue-router calls `afterEach` for superseded and refused navigations too, so a
  page never shown can get a tab.
- In the model of the tabs nobody logs out, and one application is being chosen
  at a time.
- Login: the Vue form does not hold back a second text message while the first
  is being asked for; the Enter key of React's second factor does not look at
  the busy flag; React keeps showing a captcha ticket that was used up when the
  next one cannot be loaded.  `LoginOnce` is stated accordingly.
- After a login the form is live again with the ticket it has used up
  (`LoginForm.vue:131-180`): while the binding dialog has been answered and the
  navigation home is on its way, after a text-message or second-factor login,
  which clear their flag before it, after Escape in the dialog, and when the
  navigation is superseded.  The ticket can be presented a second time there,
  although the guard of `onSubmit` says "避免重复消耗一次性验证码"
  (`LoginForm.vue:183`); the server refuses it.  `LoginOnce` excepts the ticket of
  an accepted login.
- Session: a refresh answered after a logout puts the old session's pair back
  into the store, and one that fails late clears a newer login; an answer lost
  after the rotation makes the next refresh look like theft and revokes the
  session (`SsNoSelfReuse` excepts it); a replay after re-authentication that is
  answered 401 again fails on its consumed body.
- Upload: nothing keeps a second attempt at one hash from beginning while the
  first is sending (the button stays enabled, and other users share the session),
  so both may send a chunk, and one may overwrite it while the other's complete
  is merging it; the hash then differs and all chunks are discarded.  A complete
  that is refused for good, that finds the file there, or the sweep discards the
  chunks under the other attempt (`FileService.cs:147-183`), whose complete is
  answered ChunkMissing although it has sent everything, and which must begin
  again.  `CuSendsWhatIsMissing` allows that answer after a discard only.  A merge
  is one step of the model (the file `.merged` it writes is shared, too), and the
  file records of several users for one stored file are not told apart.
- Request keys: the receipt of a start is found by the version of the definition
  it was resolved to (`WfInstanceService.cs:177-189`, `WorkflowEngine.cs:119-141`).
  When a version is published, or the user changes his organisation, between a
  lost answer and its repetition, the repetition misses the receipt and starts a
  second instance; the comment of `useRequestKey.ts:3-5` says that the receipt
  covers a success whose answer was lost.  `RkOncePerIntent` excepts it.
- Request keys: a Vue form keeps its key after an edit, so a repeated submission
  with other content is refused once and taken as a new action by the next
  click; a React form drops it, so editing after a lost answer can act twice.
  Both are new intents in `RkOncePerIntent`, and so is a Vue delegation dialog
  that is closed and opened while it submits.  The React task dialog drops the key
  when a background refresh replaces its task, between two tries of one action.
- Designer page: React's publish loads the definition id of an earlier render,
  and in both consoles edits made while a publish is under way are overwritten
  by the load after it.
