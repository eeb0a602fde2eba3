---------------------------- MODULE JobRunsProofs ----------------------------
(***************************************************************************)
(* What becomes of a fire, for any number of replicas, jobs, fires and     *)
(* retries and any mixture of crashes, drains, kills and timeouts: the     *)
(* limits of one process, one alert, rows that are open exactly while      *)
(* somebody answers for them, and a reaper that closes nothing of a        *)
(* process whose scheduler runs.                                           *)
(***************************************************************************)
EXTENDS JobRuns, TLAPS, FiniteSetTheorems

InAttempt == {"inserted", "running", "closing"}
Outcomes  == {"Success", "Failed", "Missing", "Timeout", "Cancelled"}

(***************************************************************************)
(* The inductive invariant.                                                *)
(***************************************************************************)

\* What a fire's program counter says of its other fields.
FireShape ==
    \A f \in Fire :
        /\ fires[f].pc \in {"none", "gone"} => fires[f].at = "none"
        /\ fires[f].pc = "closing" => fires[f].outcome \in Outcomes
        /\ fires[f].pc = "waiting" => fires[f].attempt < RetryCount
        /\ fires[f].outcome = "unwritten" => fires[f].pc = "gone"

KillShape == kill.pc = "flag" => kill.log \in Fire \X Attempt

\* A slot counts from the reservation on.
Capacity == \A n \in Node : Cardinality(InFlight(n)) <= MaxConcurrentRuns

OneLaunched ==
    \A f, g \in Fire :
        /\ fires[f].pc \in Launched /\ fires[g].pc \in Launched
        /\ fires[f].at = fires[g].at /\ fires[f].job = fires[g].job /\ fires[f].job \in SerialSkip
        => f = g

AlertsAreOwed == \A j \in Job : job[j].alerts = IF job[j].status = "Ready" THEN 0 ELSE 1

\* A row is written when its attempt begins.
Before == {"none", "asked"} \cup Reserved

ComesLater(f, a) ==
    \/ fires[f].pc \in Before
    \/ fires[f].pc = "starting" /\ a >= fires[f].attempt
    \/ fires[f].pc \in InAttempt \cup {"waiting"} /\ a > fires[f].attempt

RowsComeLater ==
    \A f \in Fire, a \in Attempt : ComesLater(f, a) => logs[<<f, a>>].status = "none"

\* An open row names the process that wrote it, and while that process lives
\* its fire is in that attempt, unless the closing UPDATE failed.
RowsAreSigned ==
    \A l \in Fire \X Attempt :
        Open(l) => logs[l].node \in Node /\ logs[l].inst <= inst[logs[l].node]

AttemptsSign ==
    \A f \in Fire :
        LET l == <<f, fires[f].attempt>>
        IN  fires[f].pc \in InAttempt /\ Open(l)
            => logs[l].node = fires[f].at /\ logs[l].inst = inst[fires[f].at]

Answers(f, a) ==
    \/ fires[f].outcome = "unwritten"
    \/ fires[f].pc \in InAttempt /\ fires[f].attempt = a

RowsAreAnsweredFor ==
    \A f \in Fire, a \in Attempt :
        LET l == <<f, a>>
        IN  Open(l) /\ logs[l].inst = inst[logs[l].node] /\ mode[logs[l].node] # "crashed"
            => Answers(f, a)

\* Heartbeats: a scheduler that runs beat at its last tick, and not long ago.
Beats(n) == n \in Scheduling /\ mode[n] = "up"

NothingIsAhead ==
    /\ \A n \in Node : tick[n].now <= clock /\ beat[n].inst <= inst[n]
    /\ \A l \in Fire \X Attempt : logs[l].start <= clock

BeatsAreFresh ==
    \A n \in Node : Beats(n) =>
        /\ clock <= tick[n].now + HeartbeatSeconds
        /\ beat[n].inst = inst[n] => beat[n].at = tick[n].now

\* The open rows of the process that runs on replica m now.
RowsOf(m) == {l \in Fire \X Attempt : Open(l) /\ logs[l].node = m /\ logs[l].inst = inst[m]}

RowsBeforeFirstBeat ==
    \A m \in Node : Beats(m) /\ beat[m].inst # inst[m] =>
        \A l \in RowsOf(m) : logs[l].start >= tick[m].now

\* The reaper: the living are on its list, or their rows are too young.
ListsTheLiving ==
    \A n, m \in Node : tick[n].pc = "orphans" /\ Beats(m) =>
        \/ <<m, inst[m]>> \in tick[n].alive
        \/ \A l \in RowsOf(m) : logs[l].start >= Deadline(n)

OrphansAreNotLiving ==
    \A n \in Node : \A l \in tick[n].orphans :
        /\ logs[l].status # "none"
        /\ \A m \in Node : Beats(m) => l \notin RowsOf(m)

Local == FireShape /\ KillShape
Rows  == RowsComeLater /\ RowsAreSigned /\ AttemptsSign /\ RowsAreAnsweredFor
Reaper == NothingIsAhead /\ BeatsAreFresh /\ RowsBeforeFirstBeat /\ ListsTheLiving
          /\ OrphansAreNotLiving /\ LiveRunIsOpen

Inv == TypeOK /\ Local /\ Capacity /\ OneLaunched /\ AlertsAreOwed /\ Rows /\ Reaper

(***************************************************************************)
(* Lemmas about the operators.                                             *)
(***************************************************************************)
LEMMA MinInSet ==
    ASSUME NEW n \in Nat, NEW S \in SUBSET (1..n), S # {}
    PROVE  Min(S) \in S
<1> DEFINE T == {1..x : x \in S}
<1>1. IsFiniteSet(1..n)
  BY FS_Interval
<1>2. IsWellFoundedOn(StrictSubsetOrdering(1..n), FiniteSubsetsOf(1..n))
  BY FS_StrictSubsetOrderingWellFounded
<1>3. T \subseteq FiniteSubsetsOf(1..n) /\ T # {}
  <2>1. \A x \in S : 1..x \subseteq 1..n /\ IsFiniteSet(1..x)
    BY <1>1, FS_Subset, FS_Interval
  <2> QED
    BY <2>1 DEF FiniteSubsetsOf
<1>4. PICK t \in T : \A u \in T : ~(<<u, t>> \in StrictSubsetOrdering(1..n))
  BY <1>2, <1>3, WFMin
<1>5. PICK x \in S : t = 1..x
  BY <1>4
<1>6. ASSUME NEW y \in S, y < x PROVE FALSE
  <2>1. <<1..y, 1..x>> \notin StrictSubsetOrdering(1..n)
    BY <1>4, <1>5
  <2>2. 1..y \subseteq 1..x /\ x \in 1..x /\ x \notin 1..y /\ 1..x \subseteq 1..n
    BY <1>6
  <2>3. 1..y # 1..x /\ 1..y \subseteq 1..n
    BY <2>2
  <2> QED
    BY <2>1, <2>2, <2>3 DEF StrictSubsetOrdering
<1>7. \A y \in S : x <= y
  BY <1>6
<1> QED
  BY <1>7 DEF Min

LEMMA MinOfTwo ==
    ASSUME NEW a \in Nat, NEW b \in Nat
    PROVE  Min({a, b}) = IF a <= b THEN a ELSE b
<1>1. Min({a, b}) = CHOOSE x \in {a, b} : \A y \in {a, b} : x <= y
  BY DEF Min
<1>2. \E x \in {a, b} : \A y \in {a, b} : x <= y
  OBVIOUS
<1>3. Min({a, b}) \in {a, b} /\ Min({a, b}) <= a /\ Min({a, b}) <= b
  BY <1>1, <1>2
<1> QED
  BY <1>3

LEMMA AFireIsUnused ==
    ASSUME Unused # {}
    PROVE  Min(Unused) \in Fire /\ fires[Min(Unused)].pc = "none"
<1>1. Unused \in SUBSET (1..MaxFires) /\ MaxFires \in Nat
  BY JobRunsAssumption DEF Unused, Fire
<1>2. Min(Unused) \in Unused
  BY <1>1, MinInSet
<1> QED
  BY <1>2 DEF Unused

(***************************************************************************)
(* Type correctness.                                                       *)
(***************************************************************************)
LEMMA InitTyped == Init => TypeOK /\ Local
<1> SUFFICES ASSUME Init PROVE TypeOK /\ Local
  OBVIOUS
<1>1. NoFire \in Fires /\ NoLog \in Logs /\ IdleTick(0) \in Ticks
  BY JobRunsAssumption DEF NoFire, NoLog, IdleTick, Fires, Logs, Ticks, Attempt
<1>2. \A f \in Fire : fires[f] = NoFire
  BY DEF Init
<1>3. TypeOK
  BY <1>1, <1>2, JobRunsAssumption DEF Init, TypeOK, NoKill, NoFire, IsUp, Reserved, Launched, NoLog
<1>4. Local
  BY <1>2 DEF Init, Local, FireShape, KillShape, NoFire, NoKill
<1> QED
  BY <1>3, <1>4
\* A fire that is well formed while the processes are as they are.
InProgress == {"asked"} \cup Reserved \cup Launched

GoodFire(r) ==
    /\ r \in Fires
    /\ r.pc \in InProgress => r.at \in Node /\ r.job \in Job /\ IsUp(r.at)
    /\ r.pc \in {"none", "gone"} => r.at = "none"
    /\ r.pc = "closing" => r.outcome \in Outcomes
    /\ r.pc = "waiting" => r.attempt < RetryCount
    /\ r.outcome = "unwritten" => r.pc = "gone"

GoodFires == fires \in [Fire -> Fires] /\ \A f \in Fire : GoodFire(fires[f])

LEMMA FiresAreGood == TypeOK /\ FireShape => GoodFires
  BY DEF TypeOK, FireShape, GoodFires, GoodFire, InProgress

LEMMA OneFire ==
    ASSUME GoodFires, NEW f \in Fire, NEW r, GoodFire(r),
           fires' = [fires EXCEPT ![f] = r], UNCHANGED mode
    PROVE  GoodFires'
<1>1. r \in Fires
  BY DEF GoodFire
<1>2. fires' \in [Fire -> Fires] /\ fires'[f] = r /\ \A g \in Fire : g # f => fires'[g] = fires[g]
  BY <1>1 DEF GoodFires
<1>3. \A g \in Fire : GoodFire(fires'[g])
  BY <1>2 DEF GoodFires
<1> QED
  BY <1>2, <1>3 DEF GoodFires, GoodFire, IsUp

LEMMA LaunchKeepsFires ==
    ASSUME GoodFires, NEW f \in Fire, Launch(f)
    PROVE  GoodFires'
<1> USE DEF InProgress, Launched, Reserved
<1>1. GoodFire(fires[f])
  BY DEF GoodFires
<1>2. GoodFire(NoFire)
  BY JobRunsAssumption DEF GoodFire, NoFire, Fires, Attempt
<1>3. UNCHANGED mode /\ fires[f].pc \in {"asked", "reserved", "claimed", "checked"}
  BY DEF Launch, ClaimWins, ClaimLoses, CheckOpenRows, TryFire, TryFireManual
<1>4. \E pc \in {"claimed", "checked", "starting"} : Goto(f, pc) \/ Forget(f)
  BY DEF Launch, ClaimWins, ClaimLoses, CheckOpenRows, TryFire, TryFireManual
<1>5. ASSUME NEW pc \in {"claimed", "checked", "starting"}, Goto(f, pc)
      PROVE  GoodFires'
  <2> DEFINE r == [fires[f] EXCEPT !.pc = pc]
  <2>1. GoodFire(r)
    BY <1>1, <1>3 DEF GoodFire, Fires
  <2>2. fires' = [fires EXCEPT ![f] = r]
    BY <1>5 DEF Goto
  <2> HIDE DEF r
  <2> QED
    BY <2>1, <2>2, <1>3, OneFire
<1>6. CASE Forget(f)
  BY <1>2, <1>3, <1>6, OneFire DEF Forget
<1> QED
  BY <1>4, <1>5, <1>6
\* The records a fire starts and ends with.
LEMMA EndsAreGood ==
    /\ GoodFire(NoFire) /\ GoodFire(Ended)
    /\ GoodFire([Ended EXCEPT !.outcome = "unwritten"])
<1>1. NoFire \in Fires
  BY JobRunsAssumption DEF NoFire, Fires, Attempt
<1>2. Ended \in Fires /\ [Ended EXCEPT !.outcome = "unwritten"] \in Fires
  BY <1>1 DEF Ended, Fires
<1>3. NoFire.pc = "none" /\ NoFire.at = "none" /\ NoFire.outcome = "none"
  BY DEF NoFire
<1>4. Ended.pc = "gone" /\ Ended.at = "none" /\ Ended.outcome = "none"
  BY DEF Ended, NoFire
<1>5. [Ended EXCEPT !.outcome = "unwritten"].pc = "gone" /\ [Ended EXCEPT !.outcome = "unwritten"].at = "none"
  BY DEF Ended, NoFire
<1> QED
  BY <1>1, <1>2, <1>3, <1>4, <1>5 DEF GoodFire, InProgress, Launched, Reserved

LEMMA RunKeepsFires ==
    ASSUME GoodFires, NEW f \in Fire,
           Run(f) \/ TimesOut(f) \/ CloseFails(f) \/ PollKillFlag(f)
    PROVE  GoodFires'
<1> USE DEF InProgress, Launched, Reserved
<1> DEFINE r0 == fires[f]
<1>1. GoodFire(r0)
  BY DEF GoodFires
<1>2. GoodFire(Ended) /\ GoodFire([Ended EXCEPT !.outcome = "unwritten"])
  BY EndsAreGood
<1>3. UNCHANGED mode
  BY DEF Run, BeginAttempt, Register, HandlerEnds, HandlerMissing, CloseLog, Retry, FinishQuietly,
         CountError, Judge, Panic, TimesOut, CloseFails, PollKillFlag
<1>4. CASE BeginAttempt(f)
  <2>1. GoodFire([r0 EXCEPT !.pc = "inserted", !.cancelled = FALSE, !.timedOut = FALSE])
    BY <1>1, <1>4 DEF BeginAttempt, GoodFire, Fires
  <2>2. fires' = [fires EXCEPT ![f] = [r0 EXCEPT !.pc = "inserted", !.cancelled = FALSE,
                                                 !.timedOut = FALSE]]
    BY <1>4 DEF BeginAttempt, GoodFires
  <2> QED
    BY <2>1, <2>2, <1>3, OneFire
<1>5. CASE HandlerEnds(f) \/ HandlerMissing(f)
  <2>1. PICK outcome \in Outcomes :
           r0.pc = "running" /\ fires' = [fires EXCEPT ![f].pc = "closing", ![f].outcome = outcome]
    BY <1>5 DEF HandlerEnds, HandlerMissing, Interpret, Outcomes
  <2>2. GoodFire([r0 EXCEPT !.pc = "closing", !.outcome = outcome])
    BY <1>1, <2>1 DEF GoodFire, Fires, Outcomes
  <2>3. fires' = [fires EXCEPT ![f] = [r0 EXCEPT !.pc = "closing", !.outcome = outcome]]
    BY <2>1 DEF GoodFires
  <2> QED
    BY <2>2, <2>3, <1>3, OneFire
<1>6. CASE Retry(f)
  <2>1. r0.attempt \in Nat /\ r0.attempt < RetryCount /\ r0.attempt + 1 \in Attempt
    BY <1>1, <1>6, JobRunsAssumption DEF Retry, GoodFire, Fires, Attempt
  <2>2. /\ GoodFire([r0 EXCEPT !.pc = "finishing"])
        /\ GoodFire([r0 EXCEPT !.pc = "starting", !.attempt = r0.attempt + 1])
    BY <1>1, <1>6, <2>1 DEF Retry, GoodFire, Fires
  <2>3. \/ fires' = [fires EXCEPT ![f] = [r0 EXCEPT !.pc = "finishing"]]
        \/ fires' = [fires EXCEPT ![f] = [r0 EXCEPT !.pc = "starting", !.attempt = r0.attempt + 1]]
    BY <1>6 DEF Retry, GoodFires
  <2> QED
    BY <2>2, <2>3, <1>3, OneFire
<1>7. CASE CloseLog(f)
  <2>1. MayRetry(f) => r0.attempt < RetryCount
    BY DEF MayRetry
  <2>2. GoodFire([r0 EXCEPT !.pc = IF MayRetry(f) THEN "waiting" ELSE "finishing"])
    BY <1>1, <1>7, <2>1 DEF CloseLog, GoodFire, Fires
  <2> QED
    BY <2>2, <1>3, <1>7, OneFire DEF CloseLog, Goto
<1>8. CASE Register(f) \/ CountError(f) \/ (Judge(f) /\ Goto(f, "panicking"))
  <2>1. PICK pc \in {"running", "judging", "panicking"} : Goto(f, pc)
    BY <1>8 DEF Register, CountError
  <2>2. r0.pc \in {"inserted", "finishing", "judging"}
    BY <1>8 DEF Register, CountError, Judge
  <2>3. GoodFire([r0 EXCEPT !.pc = pc])
    BY <1>1, <2>2 DEF GoodFire, Fires
  <2> QED
    BY <2>1, <2>3, <1>3, OneFire DEF Goto
<1>9. CASE TimesOut(f) \/ PollKillFlag(f)
  <2>4. r0.pc = "running"
    BY <1>9 DEF TimesOut, PollKillFlag
  <2>1. GoodFire([r0 EXCEPT !.timedOut = TRUE])
    BY <1>1, <2>4 DEF GoodFire, Fires
  <2>3. GoodFire([r0 EXCEPT !.cancelled = TRUE])
    BY <1>1, <2>4 DEF GoodFire, Fires
  <2>2. \/ fires' = [fires EXCEPT ![f] = [r0 EXCEPT !.timedOut = TRUE]]
        \/ fires' = [fires EXCEPT ![f] = [r0 EXCEPT !.cancelled = TRUE]]
    BY <1>9 DEF TimesOut, PollKillFlag
  <2> QED
    BY <2>1, <2>2, <2>3, <1>3, OneFire
<1>10. CASE Leave(f) \/ CloseFails(f)
  BY <1>2, <1>3, <1>10, OneFire DEF Leave, CloseFails
<1>11. FinishQuietly(f) \/ Panic(f) => Leave(f)
  BY DEF FinishQuietly, Panic
<1>12. Judge(f) => Leave(f) \/ (Judge(f) /\ Goto(f, "panicking"))
  BY DEF Judge
<1> QED
  BY <1>4, <1>5, <1>6, <1>7, <1>8, <1>9, <1>10, <1>11, <1>12 DEF Run

\* What the end of a process leaves of the fires.
LEMMA GoneKeepsFires ==
    ASSUME GoodFires, NEW n \in Node, fires' = Gone(n), NEW m, mode' = [mode EXCEPT ![n] = m]
    PROVE  GoodFires'
<1>1. GoodFire(NoFire) /\ GoodFire(Ended)
  BY EndsAreGood
<1>2. \A f \in Fire : \/ fires'[f] \in {NoFire, Ended}
                      \/ fires'[f] = fires[f] /\ fires[f].at # n
  <2>1. \A f \in Fire : fires'[f] = IF fires[f].at # n THEN fires[f]
                                    ELSE IF fires[f].pc \in Launched THEN Ended ELSE NoFire
    BY DEF Gone
  <2> QED
    BY <2>1
<1>3. fires' \in [Fire -> Fires]
  BY <1>1, <1>2 DEF Gone, GoodFires, GoodFire
<1>4. \A f \in Fire : fires'[f].pc \in InProgress => fires[f].at # n /\ fires'[f] = fires[f]
  BY <1>2 DEF NoFire, Ended, InProgress, Launched, Reserved
<1>5. \A x \in Node : x # n /\ IsUp(x) => IsUp(x)'
  BY DEF IsUp
<1> QED
  BY <1>1, <1>2, <1>3, <1>4, <1>5 DEF GoodFires, GoodFire
\* A step that only raises cancellation.
LEMMA CancellingKeepsFires ==
    ASSUME GoodFires, NEW S \in SUBSET Fire,
           \A f \in S : fires[f].pc = "running",
           fires' = [f \in Fire |-> IF f \in S THEN [fires[f] EXCEPT !.cancelled = TRUE] ELSE fires[f]],
           \A n \in Node : IsUp(n)' = IsUp(n)
    PROVE  GoodFires'
<1>1. ASSUME NEW f \in Fire
      PROVE  /\ GoodFire(fires[f]) /\ fires'[f] \in Fires
             /\ fires'[f].pc = fires[f].pc /\ fires'[f].at = fires[f].at
             /\ fires'[f].job = fires[f].job /\ fires'[f].outcome = fires[f].outcome
             /\ fires'[f].attempt = fires[f].attempt
  <2>1. GoodFire(fires[f])
    BY DEF GoodFires
  <2>2. fires'[f] = [fires[f] EXCEPT !.cancelled = TRUE] \/ fires'[f] = fires[f]
    OBVIOUS
  <2> QED
    BY <2>1, <2>2 DEF GoodFire, Fires
<1>2. fires' \in [Fire -> Fires]
  BY <1>1
<1>3. \A f \in Fire : fires'[f].pc \in InProgress =>
          /\ fires'[f].at \in Node /\ fires'[f].job \in Job
          /\ mode'[fires'[f].at] \in {"up", "draining", "hardStop"}
  BY <1>1 DEF GoodFire, IsUp
<1> QED
  BY <1>1, <1>2, <1>3 DEF GoodFires, GoodFire, IsUp

LEMMA NewFireIsGood ==
    ASSUME GoodFires, NEW n \in Node, IsUp(n), NEW j \in Job, NEW by \in {"Schedule", "Manual"},
           NEW pc \in {"reserved", "asked"}, NewFire(n, j, by, pc), UNCHANGED mode
    PROVE  GoodFires'
<1> DEFINE r == [NoFire EXCEPT !.pc = pc, !.job = j, !.at = n, !.by = by]
<1>1. NoFire \in Fires /\ NoFire.outcome = "none"
  BY EndsAreGood DEF GoodFire, NoFire
<1>2. r \in Fires /\ r.pc = pc /\ r.job = j /\ r.at = n /\ r.outcome = "none"
  BY <1>1 DEF Fires, Reserved
<1>3. Min(Unused) \in Fire /\ fires' = [fires EXCEPT ![Min(Unused)] = r]
  BY AFireIsUnused DEF NewFire
<1> HIDE DEF r
<1>4. GoodFire(r)
  BY <1>2 DEF GoodFire
<1> QED
  BY <1>3, <1>4, OneFire

LEMMA FiresKept ==
    ASSUME TypeOK, Local, Next
    PROVE  GoodFires'
<1>1. GoodFires
  BY FiresAreGood DEF Local
<1>2. ASSUME UNCHANGED fires, \A n \in Node : IsUp(n) => IsUp(n)'
      PROVE  GoodFires'
  BY <1>1, <1>2 DEF GoodFires, GoodFire
<1>3. ASSUME UNCHANGED <<fires, mode>> PROVE GoodFires'
  BY <1>3, <1>2 DEF IsUp
<1>4. CASE \/ ClockTick \/ \E j \in Job : Enable(j)
           \/ \E n \in Node : \/ Heartbeat(n) \/ ReadAlive(n) \/ ReadOrphans(n) \/ CloseOrphans(n)
                              \/ EndTick(n) \/ KillRead(n)
  BY <1>4, <1>3 DEF ClockTick, Enable, Heartbeat, ReadAlive, ReadOrphans, CloseOrphans, EndTick, KillRead
<1>5. ASSUME NEW n \in Node, Stop(n) \/ Restart(n) PROVE GoodFires'
  <2>1. UNCHANGED fires /\ \A m \in Node : IsUp(m) => IsUp(m)'
    BY <1>5 DEF Stop, Restart, IsUp, TypeOK
  <2> QED
    BY <2>1, <1>2
<1>6. ASSUME NEW n \in Node, Reserve(n) PROVE GoodFires'
  <2>1. IsUp(n) /\ UNCHANGED mode
    BY <1>6 DEF Reserve, TypeOK
  <2>2. PICK j \in Job : NewFire(n, j, "Schedule", "reserved")
    BY <1>6 DEF Reserve
  <2> QED
    BY <1>1, <2>1, <2>2, NewFireIsGood
<1>7. ASSUME NEW n \in Node, Ask(n) PROVE GoodFires'
  <2>1. IsUp(n) /\ UNCHANGED mode
    BY <1>7 DEF Ask
  <2>2. PICK j \in Job : NewFire(n, j, "Manual", "asked")
    BY <1>7 DEF Ask
  <2> QED
    BY <1>1, <2>1, <2>2, NewFireIsGood
<1>8. ASSUME NEW n \in Node, HardStop(n) PROVE GoodFires'
  <2>1. \A m \in Node : IsUp(m)' = IsUp(m)
    BY <1>8 DEF HardStop, IsUp, TypeOK
  <2>2. /\ FiresOf(n, {"running"}) \in SUBSET Fire
        /\ \A f \in FiresOf(n, {"running"}) : fires[f].pc = "running"
    BY DEF FiresOf
  <2>3. fires' = [f \in Fire |-> IF f \in FiresOf(n, {"running"})
                                 THEN [fires[f] EXCEPT !.cancelled = TRUE] ELSE fires[f]]
    BY <1>8 DEF HardStop
  <2> QED
    BY <1>1, <2>1, <2>2, <2>3, CancellingKeepsFires
<1>9. CASE KillFlag
  <2>1. \E S \in SUBSET Fire :
           /\ \A f \in S : fires[f].pc = "running"
           /\ fires' = [f \in Fire |-> IF f \in S THEN [fires[f] EXCEPT !.cancelled = TRUE]
                                       ELSE fires[f]]
    <3> DEFINE f == kill.log[1]
    <3>1. f \in Fire /\ fires \in [Fire -> Fires]
      BY <1>9 DEF KillFlag, Local, KillShape, TypeOK
    <3> DEFINE Cancel(S) == [g \in Fire |-> IF g \in S THEN [fires[g] EXCEPT !.cancelled = TRUE]
                                            ELSE fires[g]]
    <3>2. CASE fires' = fires
      <4>1. fires' = Cancel({})
        BY <3>1, <3>2
      <4> WITNESS {} \in SUBSET Fire
      <4> QED
        BY <4>1
    <3>3. CASE fires[f].pc = "running" /\ fires' = [fires EXCEPT ![f].cancelled = TRUE]
      <4>1. fires' = Cancel({f})
        BY <3>1, <3>3
      <4>2. {f} \in SUBSET Fire
        BY <3>1
      <4> HIDE DEF f
      <4> WITNESS {f} \in SUBSET Fire
      <4> QED
        BY <4>1, <3>3
    <3> QED
      BY <3>2, <3>3, <1>9 DEF KillFlag
  <2>2. \A m \in Node : IsUp(m)' = IsUp(m)
    BY <1>9 DEF KillFlag, IsUp
  <2> QED
    BY <1>1, <2>1, <2>2, CancellingKeepsFires
<1>10. ASSUME NEW n \in Node, Exit(n) \/ Crash(n) PROVE GoodFires'
  <2>1. fires' = Gone(n) /\ \E m : mode' = [mode EXCEPT ![n] = m]
    BY <1>10 DEF Exit, Crash
  <2> QED
    BY <1>1, <2>1, GoneKeepsFires
<1> QED
  BY <1>1, <1>4, <1>5, <1>6, <1>7, <1>8, <1>9, <1>10, LaunchKeepsFires, RunKeepsFires DEF Next, Tick
LEMMA LogsTyped ==
    ASSUME TypeOK, Local, Next
    PROVE  logs' \in [Fire \X Attempt -> Logs]
<1> USE JobRunsAssumption
<1>1. logs \in [Fire \X Attempt -> Logs] /\ GoodFires
  BY FiresAreGood DEF TypeOK, Local
<1>2. CASE UNCHANGED logs
  BY <1>1, <1>2
<1>3. ASSUME NEW status \in {"Success", "Failed", "Timeout", "Cancelled"}
      PROVE  ClosedAs(status) \in Logs
  BY DEF ClosedAs, NoLog, Logs
<1>4. ASSUME NEW l, NEW r \in Logs, logs' = [logs EXCEPT ![l] = r]
      PROVE  logs' \in [Fire \X Attempt -> Logs]
  BY <1>1, <1>4
<1>5. ASSUME NEW n \in Node, CloseOrphans(n)
      PROVE  logs' \in [Fire \X Attempt -> Logs]
  <2>1. ClosedAs("Cancelled") \in Logs
    BY <1>3
  <2> QED
    BY <1>1, <1>5, <2>1 DEF CloseOrphans
<1>6. ASSUME NEW f \in Fire, BeginAttempt(f)
      PROVE  logs' \in [Fire \X Attempt -> Logs]
  <2>1. fires[f].at \in Node /\ fires[f].job \in Job /\ inst[fires[f].at] \in Nat /\ clock \in Nat
    BY <1>6 DEF BeginAttempt, TypeOK, Launched
  <2>2. [status |-> "Running", job |-> fires[f].job, node |-> fires[f].at,
         inst |-> inst[fires[f].at], start |-> clock, kill |-> FALSE] \in Logs
    BY <2>1 DEF Logs
  <2> QED
    BY <1>4, <1>6, <2>2 DEF BeginAttempt
<1>7. ASSUME NEW f \in Fire, CloseLog(f)
      PROVE  logs' \in [Fire \X Attempt -> Logs]
  <2>1. fires[f].outcome \in Outcomes
    BY <1>1, <1>7 DEF CloseLog, GoodFires, GoodFire
  <2>2. StatusOf(fires[f].outcome) \in {"Success", "Failed", "Timeout", "Cancelled"}
    BY <2>1 DEF StatusOf, Outcomes
  <2> QED
    BY <1>3, <1>4, <1>7, <2>2 DEF CloseLog
<1>8. CASE KillFlag
  <2>1. kill.log \in Fire \X Attempt
    BY <1>8 DEF KillFlag, Local, KillShape
  <2>2. [logs[kill.log] EXCEPT !.kill = TRUE] \in Logs
    <3>1. logs[kill.log] \in Logs
      BY <1>1, <2>1
    <3> QED
      BY <3>1 DEF Logs
  <2> QED
    BY <1>1, <1>8, <2>2 DEF KillFlag
<1>9. ASSUME NEW f \in Fire,
             \/ Launch(f) \/ TimesOut(f) \/ CloseFails(f) \/ PollKillFlag(f)
             \/ (Run(f) /\ ~BeginAttempt(f) /\ ~CloseLog(f))
      PROVE  UNCHANGED logs
  BY <1>9 DEF Launch, ClaimWins, ClaimLoses, CheckOpenRows, TryFire, TryFireManual, TimesOut, CloseFails,
              PollKillFlag, Run, Register, HandlerEnds, HandlerMissing, Retry, FinishQuietly, CountError,
              Judge, Panic
<1>10. ASSUME NEW n \in Node,
              \/ Heartbeat(n) \/ ReadAlive(n) \/ ReadOrphans(n) \/ EndTick(n) \/ Reserve(n)
              \/ Ask(n) \/ KillRead(n) \/ Stop(n) \/ HardStop(n) \/ Exit(n) \/ Crash(n) \/ Restart(n)
       PROVE  UNCHANGED logs
  BY <1>10 DEF Heartbeat, ReadAlive, ReadOrphans, EndTick, Reserve, Ask, KillRead, Stop, HardStop, Exit,
               Crash, Restart
<1>11. ClockTick \/ (\E j \in Job : Enable(j)) => UNCHANGED logs
  BY DEF ClockTick, Enable
<1> QED
  BY <1>2, <1>5, <1>6, <1>7, <1>8, <1>9, <1>10, <1>11 DEF Next, Tick, Run
\* Who changes mode, inst, tick, kill and job.
LEMMA OthersTyped ==
    ASSUME TypeOK, Local, Next
    PROVE  /\ clock' \in Nat
           /\ mode' \in [Node -> {"up", "draining", "hardStop", "stopped", "crashed"}]
           /\ inst' \in [Node -> Nat]
           /\ beat' \in [Node -> [inst : Nat, at : Nat]]
           /\ job' \in [Job -> [status : {"Ready", "Panic"}, errors : 0..FailAlertThreshold,
                                alerts : Nat]]
<1> USE JobRunsAssumption
<1>1. clock' \in Nat
  <2>1. clock' = clock \/ ClockTick
    BY DEF Next, Tick, Heartbeat, ReadAlive, ReadOrphans, CloseOrphans, EndTick, Reserve, Ask, KillRead,
           Stop, HardStop, Exit, Crash, Restart, Launch, ClaimWins, ClaimLoses, CheckOpenRows, TryFire,
           TryFireManual, Run, BeginAttempt, Register, HandlerEnds, HandlerMissing, CloseLog, Retry,
           FinishQuietly, CountError, Judge, Panic, TimesOut, CloseFails, PollKillFlag, Enable, KillFlag
  <2> QED
    BY <2>1 DEF ClockTick, TypeOK
<1>2. mode' \in [Node -> {"up", "draining", "hardStop", "stopped", "crashed"}] /\ inst' \in [Node -> Nat]
  <2>1. \/ UNCHANGED <<mode, inst>>
        \/ \E n \in Node : Stop(n) \/ HardStop(n) \/ Exit(n) \/ Crash(n) \/ Restart(n)
    BY DEF Next, Tick, ClockTick, Heartbeat, ReadAlive, ReadOrphans, CloseOrphans, EndTick, Reserve, Ask,
           KillRead, Launch, ClaimWins, ClaimLoses, CheckOpenRows, TryFire,
           TryFireManual, Run, BeginAttempt, Register, HandlerEnds, HandlerMissing, CloseLog, Retry,
           FinishQuietly, CountError, Judge, Panic, TimesOut, CloseFails, PollKillFlag, Enable, KillFlag
  <2> QED
    BY <2>1 DEF Stop, HardStop, Exit, Crash, Restart, TypeOK
<1>3. beat' \in [Node -> [inst : Nat, at : Nat]]
  <2>1. beat' = beat \/ \E n \in Node : Heartbeat(n)
    BY DEF Next, Tick, ClockTick, ReadAlive, ReadOrphans, CloseOrphans, EndTick, Reserve, Ask, KillRead,
           Stop, HardStop, Exit, Crash, Restart, Launch, ClaimWins, ClaimLoses, CheckOpenRows, TryFire,
           TryFireManual, Run, BeginAttempt, Register, HandlerEnds, HandlerMissing, CloseLog, Retry,
           FinishQuietly, CountError, Judge, Panic, TimesOut, CloseFails, PollKillFlag, Enable, KillFlag
  <2> QED
    <3>1. ASSUME NEW n \in Node, Heartbeat(n)
          PROVE  beat' \in [Node -> [inst : Nat, at : Nat]]
      <4>1. [inst |-> inst[n], at |-> clock] \in [inst : Nat, at : Nat]
        BY DEF TypeOK
      <4>2. beat' = [beat EXCEPT ![n] = [inst |-> inst[n], at |-> clock]]
        BY <3>1 DEF Heartbeat
      <4> QED
        BY <4>1, <4>2 DEF TypeOK
    <3> QED
      BY <2>1, <3>1 DEF TypeOK
<1>4. job' \in [Job -> [status : {"Ready", "Panic"}, errors : 0..FailAlertThreshold, alerts : Nat]]
  <2> DEFINE JobRow == [status : {"Ready", "Panic"}, errors : 0..FailAlertThreshold, alerts : Nat]
  <2>1. \/ job' = job
        \/ \E f \in Fire : FinishQuietly(f) \/ CountError(f) \/ Panic(f)
        \/ \E j \in Job : Enable(j)
    BY DEF Next, Tick, ClockTick, Heartbeat, ReadAlive, ReadOrphans, CloseOrphans, EndTick, Reserve, Ask,
           KillRead, Stop, HardStop, Exit, Crash, Restart, Launch, ClaimWins, ClaimLoses, CheckOpenRows,
           TryFire, TryFireManual, Run, BeginAttempt, Register, HandlerEnds, HandlerMissing, CloseLog,
           Retry, Judge, TimesOut, CloseFails, PollKillFlag, KillFlag
  <2>2. \A j \in Job : job[j] \in JobRow
    BY DEF TypeOK
  <2>3. \A j \in Job : Min({job[j].errors + 1, FailAlertThreshold}) \in 0..FailAlertThreshold
    <3> TAKE j \in Job
    <3>1. job[j].errors + 1 \in Nat /\ FailAlertThreshold \in Nat
      BY <2>2
    <3>2. Min({job[j].errors + 1, FailAlertThreshold}) =
              IF job[j].errors + 1 <= FailAlertThreshold THEN job[j].errors + 1 ELSE FailAlertThreshold
      BY <3>1, MinOfTwo
    <3> QED
      BY <3>1, <3>2
  <2>10. ASSUME NEW x \in JobRow, NEW m \in 0..FailAlertThreshold
         PROVE  /\ [x EXCEPT !.errors = m] \in JobRow
                /\ [x EXCEPT !.status = "Panic", !.alerts = x.alerts + 1] \in JobRow
    <3>1. [x EXCEPT !.errors = m] \in JobRow
      OBVIOUS
    <3>2. x.alerts + 1 \in Nat
      OBVIOUS
    <3> QED
      BY <3>1, <3>2
  <2>4. \A j \in Job : /\ [job[j] EXCEPT !.errors = 0] \in JobRow
                       /\ [job[j] EXCEPT !.errors = Min({job[j].errors + 1, FailAlertThreshold})] \in JobRow
                       /\ [job[j] EXCEPT !.status = "Panic", !.alerts = job[j].alerts + 1] \in JobRow
    <3> TAKE j \in Job
    <3>1. job[j] \in JobRow /\ 0 \in 0..FailAlertThreshold
      BY <2>2
    <3> HIDE DEF JobRow
    <3> QED
      BY <2>3, <2>10, <3>1
  <2>5. ASSUME NEW j, NEW r \in JobRow, job' = [job EXCEPT ![j] = r]
        PROVE  job' \in [Job -> JobRow]
    BY <2>5 DEF TypeOK
  <2>6. \A f \in Fire : FinishQuietly(f) \/ CountError(f) \/ Panic(f) => fires[f].job \in Job
    BY DEF FinishQuietly, CountError, Panic, TypeOK, Launched
  <2>7. ASSUME NEW f \in Fire, FinishQuietly(f) \/ CountError(f) \/ Panic(f)
        PROVE  job' \in [Job -> JobRow]
    <3> DEFINE j == fires[f].job
    <3>1. \/ job' = job
          \/ job' = [job EXCEPT ![j] = [job[j] EXCEPT !.errors = 0]]
          \/ job' = [job EXCEPT ![j] = [job[j] EXCEPT !.errors = Min({job[j].errors + 1,
                                                                       FailAlertThreshold})]]
          \/ job' = [job EXCEPT ![j] = [job[j] EXCEPT !.status = "Panic", !.alerts = job[j].alerts + 1]]
      BY <2>6, <2>7 DEF FinishQuietly, CountError, Panic, TypeOK
    <3>2. j \in Job
      BY <2>6, <2>7
    <3>3. job \in [Job -> JobRow]
      BY DEF TypeOK
    <3> QED
      BY <2>4, <2>5, <3>1, <3>2, <3>3
  <2>8. ASSUME NEW j \in Job, Enable(j)
        PROVE  job' \in [Job -> JobRow]
    <3>1. [status |-> "Ready", errors |-> 0, alerts |-> 0] \in JobRow
      OBVIOUS
    <3>2. job' = [job EXCEPT ![j] = [status |-> "Ready", errors |-> 0, alerts |-> 0]]
      BY <2>8 DEF Enable
    <3> QED
      BY <2>5, <3>1, <3>2
  <2>9. CASE job' = job
    BY <2>9 DEF TypeOK
  <2> QED
    BY <2>1, <2>7, <2>8, <2>9
<1> QED
  BY <1>1, <1>2, <1>3, <1>4
\* A replica that is not up is not in a tick.
LEMMA TickTyped ==
    ASSUME TypeOK, Local, Next
    PROVE  /\ tick' \in [Node -> Ticks]
           /\ \A n \in Node : ~IsUp(n)' => tick'[n].pc = "idle"
<1> USE JobRunsAssumption
<1> DEFINE Sound == /\ tick' \in [Node -> Ticks]
                    /\ \A n \in Node : ~IsUp(n)' => tick'[n].pc = "idle"
<1>1. tick \in [Node -> Ticks] /\ \A n \in Node : ~IsUp(n) => tick[n].pc = "idle"
  BY DEF TypeOK
<1>2. ASSUME NEW n \in Node, NEW r \in Ticks, tick' = [tick EXCEPT ![n] = r],
             \A m \in Node : m # n => (~IsUp(m)' => ~IsUp(m)), ~IsUp(n)' => r.pc = "idle"
      PROVE  Sound
  BY <1>1, <1>2
<1>3. ASSUME UNCHANGED tick, \A m \in Node : ~IsUp(m)' => ~IsUp(m)
      PROVE  Sound
  BY <1>1, <1>3
<1>4. ASSUME NEW n \in Node, Tick(n)
      PROVE  Sound
  <2>1. UNCHANGED mode
    BY <1>4 DEF Tick, Heartbeat, ReadAlive, ReadOrphans, CloseOrphans, Reserve, EndTick
  <2>2. \A m \in Node : IsUp(m)' = IsUp(m)
    BY <2>1 DEF IsUp
  <2>3. IsUp(n)
    BY <1>4, <1>1 DEF Tick, Heartbeat, ReadAlive, ReadOrphans, CloseOrphans, Reserve, EndTick, IsUp
  <2>4. ASSUME NEW r \in Ticks, tick' = [tick EXCEPT ![n] = r]
        PROVE  Sound
    BY <2>2, <2>3, <2>4, <1>2
  <2>5. tick[n] \in Ticks /\ clock \in Nat
    BY <1>1 DEF TypeOK
  <2>6. CASE Heartbeat(n)
    <3>1. PICK pc \in {"alive", "idle"} : tick' = [tick EXCEPT ![n] = [tick[n] EXCEPT !.pc = pc,
                                                                                    !.now = clock]]
      BY <2>6, <1>1 DEF Heartbeat
    <3>2. [tick[n] EXCEPT !.pc = pc, !.now = clock] \in Ticks
      BY <2>5 DEF Ticks
    <3> QED
      BY <3>1, <3>2, <2>4
  <2>7. CASE ReadAlive(n)
    <3> DEFINE seen == {<<m, beat[m].inst>> : m \in {x \in Node : beat[x].at > Deadline(n)}}
    <3>1. seen \in SUBSET (Node \X Nat)
      BY DEF TypeOK
    <3>2. tick' = [tick EXCEPT ![n] = [tick[n] EXCEPT !.pc = "orphans", !.alive = seen]]
      BY <2>7, <1>1 DEF ReadAlive
    <3> HIDE DEF seen
    <3>3. [tick[n] EXCEPT !.pc = "orphans", !.alive = seen] \in Ticks
      BY <2>5, <3>1 DEF Ticks
    <3> QED
      BY <3>2, <3>3, <2>4
  <2>8. CASE ReadOrphans(n)
    <3> DEFINE found == {l \in Fire \X Attempt : IsOrphan(n, l)}
               pc == IF found = {} THEN "dispatch" ELSE "reap"
    <3>1. found \in SUBSET (Fire \X Attempt) /\ pc \in {"dispatch", "reap"}
      OBVIOUS
    <3>2. tick' = [tick EXCEPT ![n] = [tick[n] EXCEPT !.pc = pc, !.alive = {}, !.orphans = found]]
      BY <2>8, <1>1 DEF ReadOrphans
    <3> HIDE DEF found, pc
    <3>3. [tick[n] EXCEPT !.pc = pc, !.alive = {}, !.orphans = found] \in Ticks
      BY <2>5, <3>1 DEF Ticks
    <3> QED
      BY <3>2, <3>3, <2>4
  <2>9. CASE CloseOrphans(n) \/ EndTick(n)
    <3>1. [tick[n] EXCEPT !.pc = "dispatch", !.orphans = {}] \in Ticks
      BY <2>5 DEF Ticks
    <3>2. [tick[n] EXCEPT !.pc = "idle"] \in Ticks
      BY <2>5 DEF Ticks
    <3>3. \/ tick' = [tick EXCEPT ![n] = [tick[n] EXCEPT !.pc = "dispatch", !.orphans = {}]]
          \/ tick' = [tick EXCEPT ![n] = [tick[n] EXCEPT !.pc = "idle"]]
      BY <2>9, <1>1 DEF CloseOrphans, EndTick
    <3> QED
      BY <3>1, <3>2, <3>3, <2>4
  <2>10. CASE Reserve(n)
    BY <2>2, <2>10, <1>3 DEF Reserve
  <2> QED
    BY <1>4, <2>6, <2>7, <2>8, <2>9, <2>10 DEF Tick
<1>5. ASSUME NEW n \in Node, Stop(n) \/ HardStop(n)
      PROVE  Sound
  <2>1. UNCHANGED tick /\ \A m \in Node : ~IsUp(m)' => ~IsUp(m)
    BY <1>5 DEF Stop, HardStop, IsUp, TypeOK
  <2> QED
    BY <2>1, <1>3
<1>6. ASSUME NEW n \in Node, Exit(n) \/ Crash(n) \/ Restart(n)
      PROVE  Sound
  <2>1. PICK t \in Nat : tick' = [tick EXCEPT ![n] = IdleTick(t)]
    BY <1>6 DEF Exit, Crash, Restart, TypeOK
  <2>2. IdleTick(t) \in Ticks /\ IdleTick(t).pc = "idle"
    BY DEF IdleTick, Ticks
  <2>3. \A m \in Node : m # n => (~IsUp(m)' => ~IsUp(m))
    BY <1>6 DEF Exit, Crash, Restart, IsUp, TypeOK
  <2> QED
    BY <2>1, <2>2, <2>3, <1>2
<1>7. \/ UNCHANGED <<mode, tick>>
      \/ \E n \in Node : Tick(n) \/ Stop(n) \/ HardStop(n) \/ Exit(n) \/ Crash(n) \/ Restart(n)
  BY DEF Next, ClockTick, Ask, KillRead, Launch, ClaimWins, ClaimLoses, CheckOpenRows, TryFire,
         TryFireManual, Run, BeginAttempt, Register, HandlerEnds, HandlerMissing, CloseLog, Retry,
         FinishQuietly, CountError, Judge, Panic, TimesOut, CloseFails, PollKillFlag, Enable, KillFlag
<1>8. CASE UNCHANGED <<mode, tick>>
  BY <1>3, <1>8 DEF IsUp
<1> QED
  BY <1>4, <1>5, <1>6, <1>7, <1>8

LEMMA KillTyped ==
    ASSUME TypeOK, Local, Next
    PROVE  /\ kill' \in [pc : {"idle", "flag"}, log : {<<0, 0>>} \cup (Fire \X Attempt),
                         at : Node \cup {"none"}]
           /\ KillShape'
<1>1. \/ kill' = kill
      \/ kill' = NoKill
      \/ \E l \in Fire \X Attempt, n \in Node : kill' = [pc |-> "flag", log |-> l, at |-> n]
  BY DEF Next, Tick, ClockTick, Heartbeat, ReadAlive, ReadOrphans, CloseOrphans, EndTick, Reserve, Ask,
         KillRead, Stop, HardStop, Exit, Crash, Restart, Launch, ClaimWins, ClaimLoses, CheckOpenRows,
         TryFire, TryFireManual, Run, BeginAttempt, Register, HandlerEnds, HandlerMissing, CloseLog,
         Retry, FinishQuietly, CountError, Judge, Panic, TimesOut, CloseFails, PollKillFlag, Enable,
         KillFlag
<1> QED
  BY <1>1 DEF NoKill, KillShape, Local, TypeOK

LEMMA TypesKept ==
    ASSUME TypeOK, Local, [Next]_vars
    PROVE  TypeOK' /\ Local'
<1>1. CASE Next
  <2>1. GoodFires'
    BY <1>1, FiresKept
  <2>2. Local'
    BY <1>1, <2>1, KillTyped DEF Local, FireShape, GoodFires, GoodFire
  <2>3. \A f \in Fire : fires'[f].pc \in {"asked"} \cup Reserved \cup Launched =>
            fires'[f].at \in Node /\ fires'[f].job \in Job
            /\ mode'[fires'[f].at] \in {"up", "draining", "hardStop"}
    BY <2>1 DEF GoodFires, GoodFire, InProgress, IsUp
  <2>4. fires' \in [Fire -> Fires]
    BY <2>1 DEF GoodFires
  <2>5. TypeOK'
    BY <1>1, <2>3, <2>4, LogsTyped, OthersTyped, TickTyped, KillTyped DEF TypeOK, IsUp
  <2> QED
    BY <2>2, <2>5
<1>2. CASE UNCHANGED vars
  BY <1>2 DEF vars, TypeOK, Local, FireShape, KillShape, IsUp
<1> QED
  BY <1>1, <1>2

(* The types, and that a fire in progress belongs to a process that is up.    *)
THEOREM TypeCorrect == Spec => []TypeOK
<1>1. Spec => [](TypeOK /\ Local)
  BY InitTyped, TypesKept, PTL DEF Spec
<1> QED
  BY <1>1, PTL
(***************************************************************************)
(* The alert.                                                              *)
(***************************************************************************)
LEMMA AlertsKept ==
    ASSUME TypeOK, AlertsAreOwed, [Next]_vars
    PROVE  AlertsAreOwed'
<1>1. \/ job' = job
      \/ \E f \in Fire : FinishQuietly(f) \/ CountError(f) \/ Panic(f)
      \/ \E j \in Job : Enable(j)
  BY DEF vars, Next, Tick, ClockTick, Heartbeat, ReadAlive, ReadOrphans, CloseOrphans, EndTick, Reserve,
         Ask, KillRead, Stop, HardStop, Exit, Crash, Restart, Launch, ClaimWins, ClaimLoses,
         CheckOpenRows, TryFire, TryFireManual, Run, BeginAttempt, Register, HandlerEnds, HandlerMissing,
         CloseLog, Retry, Judge, TimesOut, CloseFails, PollKillFlag, KillFlag
<1>2. job \in [Job -> [status : {"Ready", "Panic"}, errors : 0..FailAlertThreshold, alerts : Nat]]
  BY DEF TypeOK
<1>3. CASE job' = job
  BY <1>3 DEF AlertsAreOwed
<1>4. ASSUME NEW f \in Fire, FinishQuietly(f) \/ CountError(f) PROVE AlertsAreOwed'
  <2>1. \A j \in Job : job'[j].status = job[j].status /\ job'[j].alerts = job[j].alerts
    BY <1>2, <1>4 DEF FinishQuietly, CountError
  <2> QED
    BY <2>1 DEF AlertsAreOwed
<1>5. ASSUME NEW f \in Fire, Panic(f) PROVE AlertsAreOwed'
  BY <1>2, <1>5 DEF Panic, AlertsAreOwed
<1>6. ASSUME NEW j \in Job, Enable(j) PROVE AlertsAreOwed'
  BY <1>2, <1>6 DEF Enable, AlertsAreOwed
<1> QED
  BY <1>1, <1>3, <1>4, <1>5, <1>6

(* However many fires of a job fail at once, on whatever replicas: one alert  *)
(* until somebody enables the job again (OnFireCompletedAsync).               *)
THEOREM OneAlert == Spec => []AlertOnce
<1>1. Init => AlertsAreOwed
  BY DEF Init, AlertsAreOwed
<1>2. AlertsAreOwed => AlertOnce
  BY DEF AlertsAreOwed, AlertOnce
<1> QED
  BY <1>1, <1>2, TypeCorrect, AlertsKept, PTL DEF Spec

(***************************************************************************)
(* The limits of one process.                                              *)
(***************************************************************************)
Slots == Launched \cup Reserved

\* No fire takes a slot, and none is launched.
Steady ==
    \A f \in Fire :
        /\ fires'[f].pc \in Slots => fires[f].pc \in Slots
        /\ fires'[f].pc \in Launched => fires[f].pc \in Launched
        /\ fires'[f].pc \in Slots => fires'[f].at = fires[f].at /\ fires'[f].job = fires[f].job

LEMMA OneFireSteady ==
    ASSUME NEW f \in Fire,
           \A g \in Fire : g # f => fires'[g] = fires[g],
           \/ fires'[f].pc \notin Slots
           \/ /\ fires[f].pc \in Slots /\ (fires'[f].pc \in Launched => fires[f].pc \in Launched)
              /\ fires'[f].at = fires[f].at /\ fires'[f].job = fires[f].job
    PROVE  Steady
  BY DEF Steady, Slots

LEMMA LaunchSteady ==
    ASSUME TypeOK, NEW f \in Fire, ClaimWins(f) \/ ClaimLoses(f) \/ CheckOpenRows(f)
    PROVE  Steady
<1>1. fires \in [Fire -> Fires] /\ fires[f] \in Fires
  BY DEF TypeOK
<1>2. fires[f].pc \in Slots /\ NoFire.pc \notin Slots
  BY DEF ClaimWins, ClaimLoses, CheckOpenRows, Slots, Reserved, Launched, NoFire
<1>3. \A g \in Fire : g # f => fires'[g] = fires[g]
  BY <1>1 DEF ClaimWins, ClaimLoses, CheckOpenRows, Goto, Forget
<1>4. \/ fires'[f] = NoFire
      \/ \E pc \in Reserved : fires'[f] = [fires[f] EXCEPT !.pc = pc]
  BY <1>1 DEF ClaimWins, ClaimLoses, CheckOpenRows, Goto, Forget, Reserved
<1>5. ASSUME NEW pc \in Reserved, fires'[f] = [fires[f] EXCEPT !.pc = pc]
      PROVE  fires'[f].pc \notin Launched /\ fires'[f].at = fires[f].at /\ fires'[f].job = fires[f].job
  BY <1>1, <1>5 DEF Fires, Reserved, Launched
<1> QED
  BY <1>2, <1>3, <1>4, <1>5, OneFireSteady

LEMMA RunSteady ==
    ASSUME TypeOK, NEW f \in Fire,
           Run(f) \/ TimesOut(f) \/ CloseFails(f) \/ PollKillFlag(f)
    PROVE  Steady
<1>1. fires \in [Fire -> Fires] /\ fires[f] \in Fires
  BY DEF TypeOK
<1>2. fires[f].pc \in Launched
  BY DEF Launched, Run, BeginAttempt, Register, HandlerEnds, HandlerMissing, CloseLog, Retry, FinishQuietly,
         CountError, Judge, Panic, TimesOut, CloseFails, PollKillFlag
<1>3. \A g \in Fire : g # f => fires'[g] = fires[g]
  BY <1>1 DEF Run, BeginAttempt, Register, HandlerEnds, HandlerMissing, CloseLog, Retry, FinishQuietly,
         CountError, Judge, Panic, TimesOut, CloseFails, PollKillFlag, Goto, Leave
<1>4. fires'[f].pc = "gone" \/ (fires'[f].at = fires[f].at /\ fires'[f].job = fires[f].job)
  <2>1. CASE HandlerEnds(f) \/ HandlerMissing(f) \/ BeginAttempt(f) \/ Retry(f)
    BY <1>1, <2>1 DEF BeginAttempt, HandlerEnds, HandlerMissing, Retry, Fires
  <2>2. CASE TimesOut(f) \/ PollKillFlag(f) \/ Register(f) \/ CloseLog(f) \/ CountError(f)
    BY <1>1, <2>2 DEF TimesOut, PollKillFlag, Register, CloseLog, CountError, Goto, Fires
  <2>3. CASE CloseFails(f)
    BY <1>1, <2>3 DEF CloseFails, Ended, NoFire
  <2>4. CASE FinishQuietly(f) \/ Judge(f) \/ Panic(f)
    BY <1>1, <2>4 DEF FinishQuietly, Judge, Panic, Leave, Goto, Ended, NoFire, Fires
  <2> QED
    BY <2>1, <2>2, <2>3, <2>4 DEF Run
<1>5. "gone" \notin Slots /\ Launched \subseteq Slots
  BY DEF Slots, Launched, Reserved
<1> QED
  BY <1>2, <1>3, <1>4, <1>5, OneFireSteady
\* Whatever the fires do by themselves or a process does to them.
LEMMA RestSteady ==
    ASSUME TypeOK, Local, [Next]_vars,
           ~(\E n \in Node : Reserve(n)), ~(\E f \in Fire : TryFire(f) \/ TryFireManual(f))
    PROVE  Steady
<1>1. fires \in [Fire -> Fires]
  BY DEF TypeOK
<1>2. CASE UNCHANGED fires
  BY <1>2 DEF Steady
<1>3. CASE \/ ClockTick \/ \E j \in Job : Enable(j)
           \/ \E n \in Node : \/ Heartbeat(n) \/ ReadAlive(n) \/ ReadOrphans(n) \/ CloseOrphans(n)
                              \/ EndTick(n) \/ KillRead(n) \/ Stop(n) \/ Restart(n)
  BY <1>2, <1>3 DEF ClockTick, Enable, Heartbeat, ReadAlive, ReadOrphans, CloseOrphans, EndTick, KillRead,
                    Stop, Restart
<1>4. ASSUME NEW n \in Node, Ask(n) PROVE Steady
  <2>1. PICK j \in Job : NewFire(n, j, "Manual", "asked")
    BY <1>4 DEF Ask
  <2>2. Min(Unused) \in Fire
    BY <2>1, AFireIsUnused DEF NewFire
  <2> DEFINE r == [NoFire EXCEPT !.pc = "asked", !.job = j, !.at = n, !.by = "Manual"]
  <2>3. fires' = [fires EXCEPT ![Min(Unused)] = r] /\ r.pc = "asked"
    BY <2>1 DEF NewFire, NoFire
  <2>4. "asked" \notin Slots
    BY DEF Slots, Launched, Reserved
  <2> HIDE DEF r
  <2> QED
    BY <1>1, <2>2, <2>3, <2>4, OneFireSteady
<1>5. ASSUME \A f \in Fire : \/ fires'[f] = [fires[f] EXCEPT !.cancelled = TRUE]
                             \/ fires'[f] = fires[f]
      PROVE  Steady
  <2>1. \A f \in Fire : /\ fires'[f].pc = fires[f].pc /\ fires'[f].at = fires[f].at
                        /\ fires'[f].job = fires[f].job
    BY <1>1, <1>5 DEF Fires
  <2> QED
    BY <2>1 DEF Steady
<1>6. CASE KillFlag \/ \E n \in Node : HardStop(n)
  <2>1. \A f \in Fire : \/ fires'[f] = [fires[f] EXCEPT !.cancelled = TRUE]
                        \/ fires'[f] = fires[f]
    BY <1>1, <1>6 DEF KillFlag, HardStop
  <2> QED
    BY <1>5, <2>1
<1>7. ASSUME NEW n \in Node, Exit(n) \/ Crash(n) PROVE Steady
  <2>1. fires' = Gone(n)
    BY <1>7 DEF Exit, Crash
  <2>2. \A f \in Fire : fires'[f] = IF fires[f].at # n THEN fires[f]
                                    ELSE IF fires[f].pc \in Launched THEN Ended ELSE NoFire
    BY <2>1 DEF Gone
  <2>3. Ended.pc \notin Slots /\ NoFire.pc \notin Slots /\ Launched \subseteq Slots
    BY DEF Ended, NoFire, Slots, Launched, Reserved
  <2> QED
    BY <2>2, <2>3 DEF Steady
<1>8. ASSUME NEW f \in Fire, Launch(f) PROVE Steady
  BY <1>8, LaunchSteady DEF Launch
<1>9. CASE UNCHANGED vars
  BY <1>2, <1>9 DEF vars
<1> QED
  BY <1>3, <1>4, <1>6, <1>7, <1>8, <1>9, RunSteady DEF Next, Tick

LEMMA FireIsFinite ==
    ASSUME NEW S \in SUBSET Fire
    PROVE  IsFiniteSet(S) /\ Cardinality(S) \in Nat
<1>1. IsFiniteSet(Fire)
  BY JobRunsAssumption, FS_Interval DEF Fire
<1> QED
  BY <1>1, FS_Subset, FS_CardinalityType

LEMMA SteadyKeepsCapacity ==
    ASSUME Capacity, Steady
    PROVE  Capacity'
<1> SUFFICES ASSUME NEW n \in Node PROVE Cardinality(InFlight(n)') <= MaxConcurrentRuns
  BY DEF Capacity
<1>1. InFlight(n)' \subseteq InFlight(n) /\ InFlight(n) \in SUBSET Fire
  BY DEF Steady, InFlight, FiresOf, Slots
<1>2. Cardinality(InFlight(n)') <= Cardinality(InFlight(n))
  BY <1>1, FireIsFinite, FS_Subset
<1>3. Cardinality(InFlight(n)) \in Nat /\ Cardinality(InFlight(n)') \in Nat
  BY <1>1, FireIsFinite
<1> QED
  BY <1>2, <1>3, JobRunsAssumption DEF Capacity

\* A fire takes a slot only where one is free.
LEMMA OneMoreKeepsCapacity ==
    ASSUME Capacity, NEW f \in Fire, NEW n \in Node, fires'[f].at = n,
           \A g \in Fire : g # f => fires'[g] = fires[g],
           f \in InFlight(n) \/ Cardinality(InFlight(n)) < MaxConcurrentRuns
    PROVE  Capacity'
<1> SUFFICES ASSUME NEW m \in Node PROVE Cardinality(InFlight(m)') <= MaxConcurrentRuns
  BY DEF Capacity
<1>1. InFlight(m)' \in SUBSET Fire /\ InFlight(m) \in SUBSET Fire
  BY DEF InFlight, FiresOf
<1>2. /\ Cardinality(InFlight(m)) \in Nat /\ Cardinality(InFlight(m)') \in Nat
      /\ IsFiniteSet(InFlight(m)) /\ IsFiniteSet(InFlight(m) \cup {f})
  BY <1>1, FireIsFinite
<1>3. Cardinality(InFlight(m)) <= MaxConcurrentRuns
  BY DEF Capacity
<1>4. CASE m # n \/ f \in InFlight(n)
  <2>1. InFlight(m)' \subseteq InFlight(m)
    BY <1>4 DEF InFlight, FiresOf
  <2>2. Cardinality(InFlight(m)') <= Cardinality(InFlight(m))
    BY <1>2, <2>1, FS_Subset
  <2> QED
    BY <1>2, <1>3, <2>2, JobRunsAssumption
<1>5. CASE m = n /\ f \notin InFlight(n)
  <2>1. InFlight(m)' \subseteq InFlight(m) \cup {f}
    BY <1>5 DEF InFlight, FiresOf
  <2>2. /\ Cardinality(InFlight(m)') <= Cardinality(InFlight(m) \cup {f})
        /\ Cardinality(InFlight(m) \cup {f}) = Cardinality(InFlight(m)) + 1
    BY <1>2, <1>5, <2>1, FS_Subset, FS_AddElement
  <2> QED
    BY <1>2, <1>5, <2>2, JobRunsAssumption
<1> QED
  BY <1>4, <1>5

LEMMA SteadyKeepsOneLaunched == OneLaunched /\ Steady => OneLaunched'
<1>1. Launched \subseteq Slots
  BY DEF Slots
<1> QED
  BY <1>1 DEF OneLaunched, Steady
LEMMA LimitsKept ==
    ASSUME TypeOK, Local, Capacity, OneLaunched, [Next]_vars
    PROVE  Capacity' /\ OneLaunched'
<1>1. fires \in [Fire -> Fires] /\ \A f \in Fire : fires[f] \in Fires
  BY DEF TypeOK
<1>2. ASSUME NEW n \in Node, Reserve(n) PROVE Capacity' /\ OneLaunched'
  <2>1. PICK j \in Job : NewFire(n, j, "Schedule", "reserved")
    BY <1>2 DEF Reserve
  <2> DEFINE f == Min(Unused)
             r == [NoFire EXCEPT !.pc = "reserved", !.job = j, !.at = n, !.by = "Schedule"]
  <2>2. f \in Fire /\ fires[f].pc = "none"
    BY <2>1, AFireIsUnused DEF NewFire
  <2>3. fires' = [fires EXCEPT ![f] = r] /\ r.at = n /\ r.pc = "reserved"
    BY <2>1 DEF NewFire, NoFire
  <2>4. Cardinality(InFlight(n)) < MaxConcurrentRuns
    BY <1>2 DEF Reserve
  <2> HIDE DEF f, r
  <2>5. fires'[f].at = n /\ fires'[f].pc = "reserved" /\ \A g \in Fire : g # f => fires'[g] = fires[g]
    BY <1>1, <2>2, <2>3
  <2>6. Capacity'
    BY <2>2, <2>4, <2>5, OneMoreKeepsCapacity
  <2>7. OneLaunched'
    BY <2>2, <2>5 DEF OneLaunched, Launched
  <2> QED
    BY <2>6, <2>7
<1>3. ASSUME NEW f \in Fire, TryFire(f) \/ TryFireManual(f) PROVE Capacity' /\ OneLaunched'
  <2> DEFINE n == fires[f].at
  <2>1. n \in Node /\ \A g \in Fire : g # f => fires'[g] = fires[g]
    BY <1>1, <1>3 DEF TryFire, TryFireManual, Goto, Forget, TypeOK, Reserved
  <2>2. CASE Forget(f)
    <3>1. fires'[f].pc \notin Slots
      BY <1>1, <2>2 DEF Forget, NoFire, Slots, Launched, Reserved
    <3>2. Steady
      BY <2>1, <3>1, OneFireSteady
    <3> QED
      BY <3>2, SteadyKeepsCapacity, SteadyKeepsOneLaunched
  <2>3. CASE Goto(f, "starting")
    <3>1. fires'[f].pc = "starting" /\ fires'[f].at = n /\ fires'[f].job = fires[f].job
      BY <1>1, <2>3 DEF Goto, Fires
    <3>2. ~BusyHere(f) \/ ~Goto(f, "starting")
      BY <1>1, <1>3 DEF TryFire, TryFireManual, Forget, Goto, Fires, NoFire
    <3>3. f \in InFlight(n) \/ Cardinality(InFlight(n)) < MaxConcurrentRuns
      <4>1. CASE TryFire(f)
        BY <4>1 DEF TryFire, InFlight, FiresOf, Reserved
      <4>2. CASE TryFireManual(f)
        <5>1. ~Forget(f)
          BY <1>1, <2>3 DEF Forget, Goto, NoFire
        <5>2. ~(Cardinality(InFlight(n)) >= MaxConcurrentRuns)
          BY <4>2, <5>1 DEF TryFireManual
        <5>3. Cardinality(InFlight(n)) \in Nat
          BY FireIsFinite DEF InFlight, FiresOf
        <5> QED
          BY <5>2, <5>3, JobRunsAssumption
      <4> QED
        BY <1>3, <4>1, <4>2
    <3>4. Capacity'
      BY <2>1, <3>1, <3>3, OneMoreKeepsCapacity
    <3>5. \A g \in Fire : fires[g].pc \in Launched /\ fires[g].at = n /\ fires[g].job = fires[f].job
                          => fires[f].job \notin SerialSkip
      BY <2>3, <3>2 DEF BusyHere, Busy, FiresOf
    <3>6. OneLaunched'
      BY <2>1, <3>1, <3>5 DEF OneLaunched
    <3> QED
      BY <3>4, <3>6
  <2> QED
    BY <1>3, <2>2, <2>3 DEF TryFire, TryFireManual
<1>4. CASE ~(\E n \in Node : Reserve(n)) /\ ~(\E f \in Fire : TryFire(f) \/ TryFireManual(f))
  BY <1>4, RestSteady, SteadyKeepsCapacity, SteadyKeepsOneLaunched
<1> QED
  BY <1>2, <1>3, <1>4

LEMMA InitLimits == Init => Capacity /\ OneLaunched
<1> SUFFICES ASSUME Init PROVE Capacity /\ OneLaunched
  OBVIOUS
<1>1. \A f \in Fire : fires[f].pc = "none"
  BY DEF Init, NoFire
<1>2. \A n \in Node : InFlight(n) = {}
  BY <1>1 DEF InFlight, FiresOf, Launched, Reserved
<1>3. Capacity
  BY <1>2, FS_EmptySet, JobRunsAssumption DEF Capacity
<1>4. OneLaunched
  BY <1>1 DEF OneLaunched, Launched
<1> QED
  BY <1>3, <1>4

LEMMA Limits == Spec => [](Capacity /\ OneLaunched)
<1>1. Init => TypeOK /\ Local /\ Capacity /\ OneLaunched
  BY InitTyped, InitLimits
<1>2. TypeOK /\ Local /\ Capacity /\ OneLaunched /\ [Next]_vars
          => (TypeOK /\ Local /\ Capacity /\ OneLaunched)'
  BY TypesKept, LimitsKept
<1> QED
  BY <1>1, <1>2, PTL DEF Spec

(* Reservations and "run once" requests together never run more fires in one  *)
(* process than it may (TryReserveFire, TryFireAndTrack).                     *)
THEOREM CapacityHolds == Spec => []WithinCapacity
<1>1. Capacity => WithinCapacity
  <2> SUFFICES ASSUME Capacity, NEW n \in Node
               PROVE  Cardinality(FiresOf(n, Launched)) <= MaxConcurrentRuns
    BY DEF WithinCapacity
  <2>1. FiresOf(n, Launched) \subseteq InFlight(n) /\ InFlight(n) \in SUBSET Fire
    BY DEF InFlight, FiresOf
  <2>2. /\ Cardinality(FiresOf(n, Launched)) <= Cardinality(InFlight(n))
        /\ Cardinality(FiresOf(n, Launched)) \in Nat /\ Cardinality(InFlight(n)) \in Nat
    BY <2>1, FireIsFinite, FS_Subset
  <2> QED
    BY <2>2, JobRunsAssumption DEF Capacity
<1> QED
  BY <1>1, Limits, PTL

(* A SerialSkip job runs once at a time in a process, since the look at       *)
(* _busyJobs and the launch are one critical section (TryFireAndTrack).       *)
THEOREM OneRunHolds == Spec => []OneRunPerNode
<1>1. OneLaunched => OneRunPerNode
  <2> SUFFICES ASSUME OneLaunched, NEW n \in Node, NEW j \in SerialSkip
               PROVE  Cardinality({f \in FiresOf(n, Launched) : fires[f].job = j}) <= 1
    BY DEF OneRunPerNode
  <2> DEFINE S == {f \in FiresOf(n, Launched) : fires[f].job = j}
  <2>1. \A f, g \in S : f = g
    BY DEF OneLaunched, FiresOf
  <2>2. CASE S = {}
    BY <2>2, FS_EmptySet
  <2>3. CASE S # {}
    <3>1. PICK f \in S : S = {f}
      BY <2>1, <2>3
    <3>2. Cardinality({f}) = 1
      BY FS_Singleton
    <3> HIDE DEF S
    <3>3. Cardinality(S) <= 1
      BY <3>1, <3>2
    <3> QED
      BY <3>3 DEF S
  <2> QED
    BY <2>2, <2>3
<1> QED
  BY <1>1, Limits, PTL
(***************************************************************************)
(* The rows.  Few steps write one or change who answers for it.            *)
(***************************************************************************)
SameFire(f) ==
    /\ \A a \in Attempt : /\ ComesLater(f, a)' => ComesLater(f, a)
                          /\ Answers(f, a) => Answers(f, a)'
    /\ fires'[f].pc \in InAttempt
       => /\ fires[f].pc \in InAttempt
          /\ fires'[f].attempt = fires[f].attempt /\ fires'[f].at = fires[f].at

SameRow(l) ==
    /\ logs'[l].status = logs[l].status /\ logs'[l].node = logs[l].node
    /\ logs'[l].inst = logs[l].inst /\ logs'[l].start = logs[l].start

LEMMA AFireStaysTheSame ==
    ASSUME TypeOK, FireShape, NEW f \in Fire,
           \/ fires'[f] = fires[f]
           \/ fires[f].pc \in Before /\ fires'[f].pc \in Before \cup {"starting"}
           \/ /\ fires[f].pc \in InAttempt /\ fires'[f].pc \in InAttempt
              /\ fires'[f].attempt = fires[f].attempt /\ fires'[f].at = fires[f].at
           \/ /\ fires[f].pc = "waiting" /\ fires'[f].pc = "starting"
              /\ fires'[f].attempt = fires[f].attempt + 1
           \/ /\ fires[f].pc \notin InAttempt \cup {"gone"}
              /\ fires'[f].pc \in {"finishing", "judging", "panicking", "gone"}
           \/ fires[f].pc \in InAttempt /\ fires'[f].pc = "gone" /\ fires'[f].outcome = "unwritten"
    PROVE  SameFire(f)
<1> USE DEF Before, InAttempt, Reserved
<1>1. fires[f].outcome = "unwritten" => fires[f].pc = "gone"
  BY DEF FireShape
<1>2. ASSUME fires'[f] = fires[f] PROVE SameFire(f)
  BY <1>2 DEF SameFire, ComesLater, Answers
<1>3. ASSUME fires[f].pc \in Before, fires'[f].pc \in Before \cup {"starting"} PROVE SameFire(f)
  BY <1>1, <1>3 DEF SameFire, ComesLater, Answers
<1>4. ASSUME fires[f].pc \in InAttempt, fires'[f].pc \in InAttempt,
             fires'[f].attempt = fires[f].attempt, fires'[f].at = fires[f].at
      PROVE  SameFire(f)
  BY <1>1, <1>4 DEF SameFire, ComesLater, Answers
<1>5. ASSUME fires[f].pc = "waiting", fires'[f].pc = "starting",
             fires'[f].attempt = fires[f].attempt + 1
      PROVE  SameFire(f)
  <2>1. fires[f].attempt \in Nat /\ Attempt \subseteq Nat
    BY JobRunsAssumption DEF TypeOK, Fires, Attempt
  <2> QED
    BY <1>1, <1>5, <2>1 DEF SameFire, ComesLater, Answers
<1>6. ASSUME fires[f].pc \notin InAttempt \cup {"gone"},
             fires'[f].pc \in {"finishing", "judging", "panicking", "gone"}
      PROVE  SameFire(f)
  BY <1>1, <1>6 DEF SameFire, ComesLater, Answers
<1>7. ASSUME fires[f].pc \in InAttempt, fires'[f].pc = "gone", fires'[f].outcome = "unwritten"
      PROVE  SameFire(f)
  BY <1>7 DEF SameFire, ComesLater, Answers
<1> QED
  BY <1>2, <1>3, <1>4, <1>5, <1>6, <1>7

LEMMA LaunchIsQuiet ==
    ASSUME TypeOK, FireShape, NEW f \in Fire, Launch(f), NEW g \in Fire
    PROVE  SameFire(g)
<1>1. fires \in [Fire -> Fires] /\ fires[f] \in Fires
  BY DEF TypeOK
<1>2. fires[f].pc \in Before
  BY DEF Launch, ClaimWins, ClaimLoses, CheckOpenRows, TryFire, TryFireManual, Before, Reserved
<1>3. \E pc \in {"claimed", "checked", "starting"} : Goto(f, pc) \/ Forget(f)
  BY DEF Launch, ClaimWins, ClaimLoses, CheckOpenRows, TryFire, TryFireManual
<1>4. g # f => fires'[g] = fires[g]
  BY <1>1, <1>3 DEF Goto, Forget
<1>5. fires'[f].pc \in Before \cup {"starting"}
  <2>1. NoFire.pc \in Before /\ {"claimed", "checked"} \subseteq Before
    BY DEF NoFire, Before, Reserved
  <2>2. fires'[f] = NoFire \/ fires'[f].pc \in {"claimed", "checked", "starting"}
    BY <1>1, <1>3 DEF Goto, Forget, Fires
  <2> QED
    BY <2>1, <2>2
<1> QED
  BY <1>2, <1>4, <1>5, AFireStaysTheSame

LEMMA RunIsQuiet ==
    ASSUME TypeOK, FireShape, NEW f \in Fire,
           Run(f) \/ TimesOut(f) \/ CloseFails(f) \/ PollKillFlag(f),
           ~BeginAttempt(f), ~CloseLog(f), NEW g \in Fire
    PROVE  SameFire(g)
<1> DEFINE r == fires[f]
           s == fires'[f]
<1>1. fires \in [Fire -> Fires] /\ r \in Fires
  BY DEF TypeOK
<1>2. g # f => fires'[g] = fires[g]
  BY <1>1 DEF Run, Register, HandlerEnds, HandlerMissing, Retry, FinishQuietly, CountError, Judge, Panic,
         TimesOut, CloseFails, PollKillFlag, Goto, Leave
<1>3. CASE Register(f) \/ HandlerEnds(f) \/ HandlerMissing(f) \/ TimesOut(f) \/ PollKillFlag(f)
  <2>1. r.pc \in InAttempt
    BY <1>3 DEF Register, HandlerEnds, HandlerMissing, TimesOut, PollKillFlag, InAttempt
  <2>2. s.pc \in InAttempt /\ s.attempt = r.attempt /\ s.at = r.at
    <3>1. CASE Register(f)
      BY <1>1, <3>1 DEF Register, Goto, InAttempt, Fires
    <3>2. CASE HandlerEnds(f) \/ HandlerMissing(f)
      BY <1>1, <3>2 DEF HandlerEnds, HandlerMissing, InAttempt, Fires
    <3>3. CASE TimesOut(f) \/ PollKillFlag(f)
      BY <1>1, <3>3 DEF TimesOut, PollKillFlag, InAttempt, Fires
    <3> QED
      BY <1>3, <3>1, <3>2, <3>3
  <2> QED
    BY <1>2, <2>1, <2>2, AFireStaysTheSame
<1>4. CASE Retry(f)
  <2>1. r.pc = "waiting" /\ (s.pc = "finishing" \/ (s.pc = "starting" /\ s.attempt = r.attempt + 1))
    BY <1>1, <1>4 DEF Retry, Fires
  <2>2. "waiting" \notin InAttempt \cup {"gone"}
    BY DEF InAttempt
  <2> QED
    BY <1>2, <2>1, <2>2, AFireStaysTheSame
<1>5. CASE FinishQuietly(f) \/ CountError(f) \/ Judge(f) \/ Panic(f)
  <2>1. r.pc \notin InAttempt \cup {"gone"}
    BY <1>5 DEF FinishQuietly, CountError, Judge, Panic, InAttempt
  <2>2. Leave(f) \/ Goto(f, "judging") \/ Goto(f, "panicking")
    BY <1>5 DEF FinishQuietly, CountError, Judge, Panic
  <2>3. s.pc \in {"finishing", "judging", "panicking", "gone"}
    BY <1>1, <2>2 DEF Leave, Goto, Ended, NoFire, Fires
  <2> QED
    BY <1>2, <2>1, <2>3, AFireStaysTheSame
<1>6. CASE CloseFails(f)
  <2>1. r.pc \in InAttempt /\ s.pc = "gone" /\ s.outcome = "unwritten"
    BY <1>1, <1>6 DEF CloseFails, InAttempt, Ended, NoFire
  <2> QED
    BY <1>2, <2>1, AFireStaysTheSame
<1> QED
  BY <1>3, <1>4, <1>5, <1>6 DEF Run
\* Every step but four leaves each fire answering for the rows it answers for.
LEMMA FiresAreQuiet ==
    ASSUME TypeOK, Local, [Next]_vars, NEW g \in Fire,
           ~(\E f \in Fire : BeginAttempt(f) \/ CloseLog(f)), ~(\E n \in Node : Crash(n))
    PROVE  SameFire(g)
<1>1. fires \in [Fire -> Fires] /\ FireShape /\ \A f \in Fire : fires[f] \in Fires
  BY DEF TypeOK, Local
<1>2. CASE UNCHANGED fires
  BY <1>1, <1>2, AFireStaysTheSame
<1>3. CASE \/ ClockTick \/ \E j \in Job : Enable(j)
           \/ \E n \in Node : \/ Heartbeat(n) \/ ReadAlive(n) \/ ReadOrphans(n) \/ CloseOrphans(n)
                              \/ EndTick(n) \/ KillRead(n) \/ Stop(n) \/ Restart(n)
  BY <1>2, <1>3 DEF ClockTick, Enable, Heartbeat, ReadAlive, ReadOrphans, CloseOrphans, EndTick, KillRead,
                    Stop, Restart
<1>4. ASSUME NEW n \in Node, Reserve(n) \/ Ask(n) PROVE SameFire(g)
  <2>1. PICK j \in Job, by \in {"Schedule", "Manual"}, pc \in {"reserved", "asked"} : NewFire(n, j, by, pc)
    BY <1>4 DEF Reserve, Ask
  <2>2. Min(Unused) \in Fire /\ fires[Min(Unused)].pc = "none"
    BY <2>1, AFireIsUnused DEF NewFire
  <2> DEFINE r == [NoFire EXCEPT !.pc = pc, !.job = j, !.at = n, !.by = by]
  <2>3. fires' = [fires EXCEPT ![Min(Unused)] = r] /\ r.pc = pc
    BY <2>1 DEF NewFire, NoFire
  <2>4. "none" \in Before /\ pc \in Before
    BY DEF Before, Reserved
  <2> HIDE DEF r
  <2>5. \/ fires'[g] = fires[g]
        \/ fires[g].pc \in Before /\ fires'[g].pc \in Before
    BY <1>1, <2>2, <2>3, <2>4
  <2> QED
    BY <1>1, <2>5, AFireStaysTheSame
<1>5. CASE KillFlag \/ \E n \in Node : HardStop(n)
  <2>1. \/ fires'[g] = fires[g]
        \/ fires[g].pc = "running" /\ fires'[g] = [fires[g] EXCEPT !.cancelled = TRUE]
    BY <1>1, <1>5 DEF KillFlag, HardStop, FiresOf
  <2>2. \/ fires'[g] = fires[g]
        \/ /\ fires[g].pc \in InAttempt /\ fires'[g].pc \in InAttempt
           /\ fires'[g].attempt = fires[g].attempt /\ fires'[g].at = fires[g].at
    BY <1>1, <2>1 DEF InAttempt, Fires
  <2> QED
    BY <1>1, <2>2, AFireStaysTheSame
<1>6. ASSUME NEW n \in Node, Exit(n) PROVE SameFire(g)
  <2>1. fires'[g] = IF fires[g].at # n THEN fires[g]
                    ELSE IF fires[g].pc \in Launched THEN Ended ELSE NoFire
    BY <1>6 DEF Exit, Gone
  <2>2. fires[g].at = n => fires[g].pc = "asked"
    <3>1. fires[g].at = n => fires[g].pc \notin Launched \cup Reserved
      BY <1>6 DEF Exit, Drained, InFlight, FiresOf
    <3>2. fires[g].at = n => fires[g].pc \notin {"none", "gone"}
      BY <1>1, JobRunsAssumption DEF FireShape
    <3> QED
      BY <1>1, <3>1, <3>2 DEF Fires
  <2>3. "asked" \notin Launched /\ "asked" \in Before /\ NoFire.pc \in Before
    BY DEF Launched, NoFire, Before
  <2> QED
    BY <1>1, <2>1, <2>2, <2>3, AFireStaysTheSame
<1>7. ASSUME NEW f \in Fire, Launch(f) PROVE SameFire(g)
  BY <1>1, <1>7, LaunchIsQuiet
<1>8. ASSUME NEW f \in Fire, Run(f) \/ TimesOut(f) \/ CloseFails(f) \/ PollKillFlag(f)
      PROVE  SameFire(g)
  BY <1>1, <1>8, RunIsQuiet
<1>9. CASE UNCHANGED vars
  BY <1>2, <1>9 DEF vars
<1> QED
  BY <1>3, <1>4, <1>5, <1>6, <1>7, <1>8, <1>9 DEF Next, Tick

\* Three kinds of step write a row.
LEMMA RowsAreQuiet ==
    ASSUME TypeOK, Local, [Next]_vars, NEW l \in Fire \X Attempt,
           ~(\E f \in Fire : BeginAttempt(f) \/ CloseLog(f)), ~(\E n \in Node : CloseOrphans(n))
    PROVE  SameRow(l)
<1>1. CASE UNCHANGED logs
  BY <1>1 DEF SameRow
<1>2. CASE KillFlag
  <2>1. logs'[l] = logs[l] \/ logs'[l] = [logs[l] EXCEPT !.kill = TRUE]
    BY <1>2 DEF KillFlag, TypeOK
  <2>2. logs[l] \in Logs
    BY DEF TypeOK
  <2> QED
    BY <2>1, <2>2 DEF SameRow, Logs
<1>3. UNCHANGED logs \/ KillFlag
  BY DEF Next, Tick, ClockTick, Enable, Heartbeat, ReadAlive, ReadOrphans, EndTick, Reserve, Ask, KillRead,
         Stop, HardStop, Exit, Crash, Restart, Launch, ClaimWins, ClaimLoses, CheckOpenRows, TryFire,
         TryFireManual, TimesOut, CloseFails, PollKillFlag, Run, Register, HandlerEnds, HandlerMissing,
         Retry, FinishQuietly, CountError, Judge, Panic, vars
<1> QED
  BY <1>1, <1>2, <1>3

\* A process is replaced by a restart only, and dies in a crash only.
LEMMA ProcessesAreQuiet ==
    ASSUME TypeOK, [Next]_vars, ~(\E n \in Node : Restart(n))
    PROVE  /\ inst' = inst
           /\ \A n \in Node : mode'[n] # "crashed" => mode[n] # "crashed"
           /\ \A n \in Node : Beats(n)' => Beats(n)
<1>1. CASE UNCHANGED <<inst, mode>>
  BY <1>1 DEF Beats
<1>2. ASSUME NEW n \in Node, Stop(n) \/ HardStop(n) \/ Exit(n) \/ Crash(n)
      PROVE  /\ inst' = inst
             /\ \A m \in Node : mode'[m] # "crashed" => mode[m] # "crashed"
             /\ \A m \in Node : mode'[m] = "up" => mode[m] = "up"
  BY <1>2 DEF Stop, HardStop, Exit, Crash, IsUp, IsDraining, TypeOK
<1>3. \/ UNCHANGED <<inst, mode>>
      \/ \E n \in Node : Stop(n) \/ HardStop(n) \/ Exit(n) \/ Crash(n)
  BY DEF Next, Tick, ClockTick, Enable, Heartbeat, ReadAlive, ReadOrphans, CloseOrphans, EndTick, Reserve,
         Ask, KillRead, Launch, ClaimWins, ClaimLoses, CheckOpenRows, TryFire, TryFireManual, TimesOut,
         CloseFails, PollKillFlag, Run, BeginAttempt, CloseLog, Register, HandlerEnds, HandlerMissing,
         Retry, FinishQuietly, CountError, Judge, Panic, KillFlag, vars
<1> QED
  BY <1>1, <1>2, <1>3 DEF Beats
\* What all steps but the two that sign rows, or make a signature old, leave
\* of a row and of the fire that answers for it.
StaysInAttempt(f) ==
    fires'[f].pc \in InAttempt
    => /\ fires[f].pc \in InAttempt
       /\ fires'[f].attempt = fires[f].attempt /\ fires'[f].at = fires[f].at

QuietRow(f, a) ==
    LET l == <<f, a>>
    IN  /\ ComesLater(f, a)'
           => ComesLater(f, a) /\ (logs[l].status = "none" => logs'[l].status = "none")
        /\ logs'[l].status = "none" => logs[l].status = "none"
        /\ Open(l)' =>
              /\ Open(l) /\ SameRow(l)
              /\ /\ logs[l].inst = inst[logs[l].node] /\ mode'[logs[l].node] # "crashed"
                 /\ Answers(f, a)
                 => Answers(f, a)'

LEMMA SameIsQuiet ==
    ASSUME NEW f \in Fire, NEW a \in Attempt, SameFire(f), SameRow(<<f, a>>)
    PROVE  QuietRow(f, a) /\ StaysInAttempt(f)
  BY DEF SameFire, SameRow, QuietRow, StaysInAttempt, Open

LEMMA CloseOrphansIsQuiet ==
    ASSUME TypeOK, Local, NEW n \in Node, CloseOrphans(n), NEW f \in Fire, NEW a \in Attempt
    PROVE  QuietRow(f, a) /\ StaysInAttempt(f)
<1> DEFINE l == <<f, a>>
<1>1. SameFire(f)
  BY AFireStaysTheSame DEF CloseOrphans, Local
<1>2. logs'[l] = logs[l] \/ (Open(l) /\ logs'[l] = ClosedAs("Cancelled"))
  BY DEF CloseOrphans
<1>3. ClosedAs("Cancelled").status = "Cancelled"
  BY DEF ClosedAs, NoLog
<1>4. CASE logs'[l] = logs[l]
  BY <1>1, <1>4, SameIsQuiet DEF SameRow
<1>5. CASE Open(l) /\ logs'[l] = ClosedAs("Cancelled")
  BY <1>1, <1>3, <1>5 DEF QuietRow, StaysInAttempt, SameFire, Open, ComesLater
<1> QED
  BY <1>2, <1>4, <1>5

LEMMA CloseLogIsQuiet ==
    ASSUME TypeOK, Local, Rows, NEW f \in Fire, CloseLog(f), NEW g \in Fire, NEW a \in Attempt
    PROVE  QuietRow(g, a) /\ StaysInAttempt(g)
<1> DEFINE r == fires[f]
           s == fires'[f]
<1>1. fires \in [Fire -> Fires] /\ r \in Fires /\ logs \in [Fire \X Attempt -> Logs]
  BY DEF TypeOK
<1>2. r.pc = "closing" /\ s.pc \in {"waiting", "finishing"} /\ s.attempt = r.attempt
  BY <1>1 DEF CloseLog, Goto, Fires
<1>3. g # f => fires'[g] = fires[g]
  BY <1>1 DEF CloseLog, Goto
<1>4. <<g, a>> # <<f, r.attempt>> => logs'[<<g, a>>] = logs[<<g, a>>]
  BY <1>1 DEF CloseLog
<1>5. CASE g # f
  <2>1. SameFire(g)
    BY <1>3, <1>5, AFireStaysTheSame DEF Local
  <2> QED
    BY <1>4, <1>5, <2>1, SameIsQuiet DEF SameRow
<1>6. CASE g = f
  <2>1. ComesLater(f, a)' => ComesLater(f, a) /\ a # r.attempt
    <3>1. r.attempt \in Nat /\ a \in Nat
      BY <1>1, JobRunsAssumption DEF Fires, Attempt
    <3> QED
      BY <1>2, <3>1 DEF ComesLater, Before, InAttempt, Reserved
  <2>2. Answers(f, a) => a = r.attempt
    BY <1>2 DEF Answers, Local, FireShape
  <2>3. s.pc \notin InAttempt
    BY <1>2 DEF InAttempt
  <2>4. r.attempt \in Attempt /\ r.outcome \in Outcomes
    BY <1>1, <1>2 DEF Fires, Local, FireShape
  <2>5. logs'[<<f, r.attempt>>] = ClosedAs(StatusOf(r.outcome))
    BY <1>1, <2>4 DEF CloseLog
  <2>6. logs'[<<f, r.attempt>>].status \notin {"none", "Running"}
    BY <2>4, <2>5 DEF ClosedAs, NoLog, StatusOf, Outcomes
  <2>7. CASE a = r.attempt
    BY <1>6, <2>1, <2>3, <2>6, <2>7 DEF QuietRow, StaysInAttempt, Open
  <2>8. CASE a # r.attempt
    BY <1>4, <1>6, <2>1, <2>2, <2>3, <2>8 DEF QuietRow, StaysInAttempt, Open, SameRow
  <2> QED
    BY <2>7, <2>8
<1> QED
  BY <1>5, <1>6

LEMMA CrashIsQuiet ==
    ASSUME TypeOK, Local, Rows, NEW n \in Node, Crash(n), NEW f \in Fire, NEW a \in Attempt
    PROVE  QuietRow(f, a) /\ StaysInAttempt(f)
<1> DEFINE l == <<f, a>>
<1>1. fires \in [Fire -> Fires] /\ fires[f] \in Fires /\ logs' = logs /\ mode'[n] = "crashed"
  BY DEF TypeOK, Crash
<1>2. CASE fires[f].at # n
  <2>1. fires'[f] = fires[f]
    BY <1>2 DEF Crash, Gone
  <2>2. SameFire(f)
    BY <2>1, AFireStaysTheSame DEF Local
  <2> QED
    BY <1>1, <2>2, SameIsQuiet DEF SameRow
<1>3. CASE fires[f].at = n
  <2>1. fires'[f] = IF fires[f].pc \in Launched THEN Ended ELSE NoFire
    BY <1>3 DEF Crash, Gone
  <2>2. fires[f].pc \notin {"none", "gone"} /\ fires[f].outcome # "unwritten"
    BY <1>3, JobRunsAssumption DEF Local, FireShape
  <2>3. ComesLater(f, a)' => ComesLater(f, a)
    <3>1. fires[f].pc \notin Launched => fires[f].pc \in Before
      BY <1>1, <2>2 DEF Fires, Before
    <3>2. Ended.pc = "gone"
      BY DEF Ended, NoFire
    <3>3. fires[f].pc \in Launched => ~ComesLater(f, a)'
      BY <2>1, <3>2 DEF ComesLater, Before, Reserved, InAttempt
    <3> QED
      BY <3>1, <3>3 DEF ComesLater
  <2>4. fires'[f].pc \notin InAttempt
    BY <2>1 DEF InAttempt, Ended, NoFire
  <2>5. Open(l) /\ Answers(f, a) => logs[l].node = n
    BY <1>3, <2>2 DEF Answers, Rows, AttemptsSign
  <2> QED
    BY <1>1, <2>3, <2>4, <2>5 DEF QuietRow, StaysInAttempt, SameRow, Open
<1> QED
  BY <1>2, <1>3

LEMMA StepsAreQuiet ==
    ASSUME TypeOK, Local, Rows, [Next]_vars, ~(\E f \in Fire : BeginAttempt(f)),
           NEW f \in Fire, NEW a \in Attempt
    PROVE  QuietRow(f, a) /\ StaysInAttempt(f)
<1>1. ASSUME NEW n \in Node, CloseOrphans(n) \/ Crash(n) PROVE QuietRow(f, a) /\ StaysInAttempt(f)
  BY <1>1, CloseOrphansIsQuiet, CrashIsQuiet
<1>2. ASSUME NEW g \in Fire, CloseLog(g) PROVE QuietRow(f, a) /\ StaysInAttempt(f)
  BY <1>2, CloseLogIsQuiet
<1>3. CASE /\ ~(\E g \in Fire : BeginAttempt(g) \/ CloseLog(g))
           /\ ~(\E n \in Node : CloseOrphans(n) \/ Crash(n))
  <2>1. SameFire(f) /\ SameRow(<<f, a>>)
    BY <1>3, FiresAreQuiet, RowsAreQuiet
  <2> QED
    BY <2>1, SameIsQuiet
<1> QED
  BY <1>1, <1>2, <1>3
LEMMA QuietKeepsRows ==
    ASSUME TypeOK, Rows, inst' = inst,
           \A f \in Fire, a \in Attempt : QuietRow(f, a) /\ StaysInAttempt(f),
           \A n \in Node : mode'[n] # "crashed" => mode[n] # "crashed"
    PROVE  Rows'
<1>1. RowsComeLater'
  BY DEF Rows, RowsComeLater, QuietRow
<1>2. RowsAreSigned'
  <2> SUFFICES ASSUME NEW l \in Fire \X Attempt, Open(l)'
               PROVE  logs'[l].node \in Node /\ logs'[l].inst <= inst'[logs'[l].node]
    BY DEF RowsAreSigned
  <2>1. PICK f \in Fire, a \in Attempt : l = <<f, a>>
    OBVIOUS
  <2>2. Open(l) /\ SameRow(l)
    BY <2>1 DEF QuietRow
  <2> QED
    BY <2>2 DEF Rows, RowsAreSigned, SameRow
<1>3. AttemptsSign'
  <2> SUFFICES ASSUME NEW f \in Fire, fires'[f].pc \in InAttempt, Open(<<f, fires[f].attempt>>)'
               PROVE  /\ logs'[<<f, fires[f].attempt>>].node = fires[f].at
                      /\ logs'[<<f, fires[f].attempt>>].inst = inst[fires[f].at]
    <3>1. 0 \in Attempt
      BY JobRunsAssumption DEF Attempt
    <3>2. \A f \in Fire : fires'[f].pc \in InAttempt
                          => fires'[f].attempt = fires[f].attempt /\ fires'[f].at = fires[f].at
      BY <3>1 DEF StaysInAttempt
    <3> QED
      BY <3>2 DEF AttemptsSign, Open
  <2>1. fires[f].attempt \in Attempt
    BY DEF TypeOK, Fires
  <2>2. QuietRow(f, fires[f].attempt) /\ fires[f].pc \in InAttempt
    BY <2>1 DEF StaysInAttempt
  <2> QED
    BY <2>2 DEF QuietRow, SameRow, Rows, AttemptsSign
<1>4. RowsAreAnsweredFor'
  <2> SUFFICES ASSUME NEW f \in Fire, NEW a \in Attempt, Open(<<f, a>>)',
                      logs'[<<f, a>>].inst = inst'[logs'[<<f, a>>].node],
                      mode'[logs'[<<f, a>>].node] # "crashed"
               PROVE  Answers(f, a)'
    BY DEF RowsAreAnsweredFor
  <2>1. Open(<<f, a>>) /\ SameRow(<<f, a>>)
    BY DEF QuietRow
  <2>2. logs[<<f, a>>].node \in Node
    BY <2>1 DEF Rows, RowsAreSigned
  <2>3. /\ logs[<<f, a>>].inst = inst[logs[<<f, a>>].node]
        /\ mode[logs[<<f, a>>].node] # "crashed" /\ mode'[logs[<<f, a>>].node] # "crashed"
    BY <2>1, <2>2 DEF SameRow
  <2>4. Answers(f, a)
    BY <2>1, <2>3 DEF Rows, RowsAreAnsweredFor
  <2> QED
    BY <2>1, <2>3, <2>4 DEF QuietRow
<1> QED
  BY <1>1, <1>2, <1>3, <1>4 DEF Rows

\* What the INSERT of BeginAttempt does.
LEMMA AnAttemptBegins ==
    ASSUME TypeOK, Local, Rows, NEW f \in Fire, BeginAttempt(f)
    PROVE  LET l == <<f, fires[f].attempt>>
           IN  /\ l \in Fire \X Attempt /\ fires[f].at \in Node /\ IsUp(fires[f].at)
               /\ logs[l].status = "none"
               /\ Open(l)' /\ logs'[l].node = fires[f].at
               /\ logs'[l].inst = inst[fires[f].at] /\ logs'[l].start = clock
               /\ fires'[f].pc = "inserted" /\ fires'[f].attempt = fires[f].attempt
               /\ fires'[f].at = fires[f].at
               /\ \A k \in Fire \X Attempt : k # l => logs'[k] = logs[k]
               /\ \A g \in Fire : g # f => fires'[g] = fires[g]
<1> DEFINE l == <<f, fires[f].attempt>>
<1>1. /\ fires \in [Fire -> Fires] /\ fires[f] \in Fires /\ logs \in [Fire \X Attempt -> Logs]
      /\ fires[f].pc = "starting"
  BY DEF TypeOK, BeginAttempt
<1>2. fires[f].attempt \in Attempt /\ fires[f].at \in Node /\ IsUp(fires[f].at)
  BY <1>1 DEF Fires, TypeOK, Launched
<1>3. logs[l].status = "none"
  <2>1. fires[f].attempt \in Nat
    BY <1>2, JobRunsAssumption DEF Attempt
  <2>2. ComesLater(f, fires[f].attempt)
    BY <1>1, <2>1 DEF ComesLater
  <2> QED
    BY <1>2, <2>2 DEF Rows, RowsComeLater
<1>4. logs'[l] = [status |-> "Running", job |-> fires[f].job, node |-> fires[f].at,
                  inst |-> inst[fires[f].at], start |-> clock, kill |-> FALSE]
  BY <1>1, <1>2 DEF BeginAttempt
<1>5. \A k \in Fire \X Attempt : k # l => logs'[k] = logs[k]
  BY <1>1 DEF BeginAttempt
<1>6. \A g \in Fire : g # f => fires'[g] = fires[g]
  BY <1>1 DEF BeginAttempt
<1>7. fires'[f] = [fires[f] EXCEPT !.pc = "inserted", !.cancelled = FALSE, !.timedOut = FALSE]
  BY <1>1 DEF BeginAttempt
<1>8. fires'[f].pc = "inserted" /\ fires'[f].attempt = fires[f].attempt /\ fires'[f].at = fires[f].at
  BY <1>1, <1>7 DEF Fires
<1> QED
  BY <1>2, <1>3, <1>4, <1>5, <1>6, <1>8 DEF Open

LEMMA BeginAttemptKeepsRows ==
    ASSUME TypeOK, Local, Rows, NEW f \in Fire, BeginAttempt(f)
    PROVE  Rows'
<1> DEFINE a == fires[f].attempt
           l == <<f, a>>
<1>1. /\ l \in Fire \X Attempt /\ fires[f].at \in Node
      /\ Open(l)' /\ logs'[l].node = fires[f].at /\ logs'[l].inst = inst[fires[f].at]
      /\ fires'[f].pc = "inserted" /\ fires'[f].attempt = a /\ fires'[f].at = fires[f].at
      /\ \A k \in Fire \X Attempt : k # l => logs'[k] = logs[k]
      /\ \A g \in Fire : g # f => fires'[g] = fires[g]
  BY AnAttemptBegins
<1>2. inst' = inst /\ mode' = mode /\ fires[f].pc = "starting" /\ fires[f].outcome # "unwritten"
  BY DEF BeginAttempt, Local, FireShape
<1>3. a \in Nat /\ inst[fires[f].at] \in Nat /\ Attempt \subseteq Nat
  BY <1>1, JobRunsAssumption DEF TypeOK, Attempt
<1>4. \A b \in Attempt : ComesLater(f, b)' => ComesLater(f, b) /\ b # a
  BY <1>1, <1>2, <1>3 DEF ComesLater, Before, Reserved, InAttempt
<1>5. \A b \in Attempt : b # a => ~Answers(f, b)
  BY <1>2 DEF Answers, InAttempt
<1> HIDE DEF a
<1>6. RowsComeLater'
  <2> SUFFICES ASSUME NEW g \in Fire, NEW b \in Attempt, ComesLater(g, b)'
               PROVE  logs'[<<g, b>>].status = "none"
    BY DEF RowsComeLater
  <2>1. ComesLater(g, b) /\ <<g, b>> # l
    BY <1>1, <1>4 DEF ComesLater
  <2> QED
    BY <1>1, <2>1 DEF Rows, RowsComeLater
<1>7. RowsAreSigned'
  BY <1>1, <1>2, <1>3 DEF Rows, RowsAreSigned, Open
<1>8. AttemptsSign'
  <2> SUFFICES ASSUME NEW g \in Fire, fires'[g].pc \in InAttempt,
                      logs'[<<g, fires'[g].attempt>>].status = "Running"
               PROVE  /\ logs'[<<g, fires'[g].attempt>>].node = fires'[g].at
                      /\ logs'[<<g, fires'[g].attempt>>].inst = inst'[fires'[g].at]
    BY DEF AttemptsSign, Open
  <2>1. CASE g = f
    BY <1>1, <1>2, <2>1
  <2>2. CASE g # f
    <3>1. fires[g].attempt \in Attempt /\ fires'[g] = fires[g]
      BY <1>1, <2>2 DEF TypeOK, Fires
    <3>2. logs'[<<g, fires[g].attempt>>] = logs[<<g, fires[g].attempt>>]
      BY <1>1, <2>2, <3>1
    <3> QED
      BY <1>2, <3>1, <3>2 DEF Rows, AttemptsSign, Open
  <2> QED
    BY <2>1, <2>2
<1>9. RowsAreAnsweredFor'
  <2> SUFFICES ASSUME NEW g \in Fire, NEW b \in Attempt, Open(<<g, b>>)',
                      logs'[<<g, b>>].inst = inst'[logs'[<<g, b>>].node],
                      mode'[logs'[<<g, b>>].node] # "crashed"
               PROVE  Answers(g, b)'
    BY DEF RowsAreAnsweredFor
  <2>1. CASE <<g, b>> = l
    BY <1>1, <2>1 DEF Answers, InAttempt
  <2>2. CASE <<g, b>> # l
    <3>1. logs'[<<g, b>>] = logs[<<g, b>>]
      BY <1>1, <2>2
    <3>2. Answers(g, b)
      BY <1>2, <3>1 DEF Rows, RowsAreAnsweredFor, Open
    <3>3. g # f
      BY <1>5, <2>2, <3>2
    <3> QED
      BY <1>1, <3>2, <3>3 DEF Answers
  <2> QED
    BY <2>1, <2>2
<1> QED
  BY <1>6, <1>7, <1>8, <1>9 DEF Rows
LEMMA RestartKeepsRows ==
    ASSUME TypeOK, Local, Rows, NEW n \in Node, Restart(n)
    PROVE  Rows'
<1>1. /\ UNCHANGED <<fires, logs>> /\ mode[n] \notin {"up", "draining", "hardStop"}
      /\ inst' = [inst EXCEPT ![n] = inst[n] + 1] /\ mode' = [mode EXCEPT ![n] = "up"]
  BY DEF Restart, IsUp
<1>2. \A m \in Node : /\ inst[m] \in Nat /\ inst'[m] \in Nat /\ inst'[m] >= inst[m]
                      /\ m # n => inst'[m] = inst[m] /\ mode'[m] = mode[m]
  BY <1>1 DEF TypeOK
<1>3. inst'[n] > inst[n]
  BY <1>1, <1>2 DEF TypeOK
<1>4. RowsComeLater'
  BY <1>1 DEF Rows, RowsComeLater, ComesLater
<1>5. RowsAreSigned'
  <2> SUFFICES ASSUME NEW l \in Fire \X Attempt, Open(l)
               PROVE  logs[l].node \in Node /\ logs[l].inst <= inst'[logs[l].node]
    BY <1>1 DEF RowsAreSigned, Open
  <2>1. logs[l].node \in Node /\ logs[l].inst <= inst[logs[l].node] /\ logs[l].inst \in Nat
    BY DEF Rows, RowsAreSigned, TypeOK, Logs
  <2> QED
    BY <1>2, <2>1
<1>6. AttemptsSign'
  <2>1. \A f \in Fire : fires[f].pc \in InAttempt => fires[f].at # n /\ fires[f].at \in Node
    BY <1>1 DEF TypeOK, InAttempt, Launched, IsUp
  <2> QED
    BY <1>1, <1>2, <2>1 DEF Rows, AttemptsSign, Open
<1>7. RowsAreAnsweredFor'
  <2> SUFFICES ASSUME NEW f \in Fire, NEW a \in Attempt, Open(<<f, a>>),
                      logs[<<f, a>>].inst = inst'[logs[<<f, a>>].node],
                      mode'[logs[<<f, a>>].node] # "crashed"
               PROVE  Answers(f, a)
    BY <1>1 DEF RowsAreAnsweredFor, Open, Answers
  <2>1. logs[<<f, a>>].node \in Node /\ logs[<<f, a>>].inst <= inst[logs[<<f, a>>].node]
        /\ logs[<<f, a>>].inst \in Nat
    BY DEF Rows, RowsAreSigned, TypeOK, Logs
  <2>2. logs[<<f, a>>].node # n
    BY <1>2, <1>3, <2>1
  <2> QED
    BY <1>2, <2>1, <2>2 DEF Rows, RowsAreAnsweredFor
<1> QED
  BY <1>4, <1>5, <1>6, <1>7 DEF Rows

LEMMA RowsKept ==
    ASSUME TypeOK, Local, Rows, [Next]_vars
    PROVE  Rows'
<1>1. CASE \E f \in Fire : BeginAttempt(f)
  BY <1>1, BeginAttemptKeepsRows
<1>2. CASE \E n \in Node : Restart(n)
  BY <1>2, RestartKeepsRows
<1>3. CASE ~(\E f \in Fire : BeginAttempt(f)) /\ ~(\E n \in Node : Restart(n))
  <2>1. \A f \in Fire, a \in Attempt : QuietRow(f, a) /\ StaysInAttempt(f)
    BY <1>3, StepsAreQuiet
  <2> QED
    BY <1>3, <2>1, ProcessesAreQuiet, QuietKeepsRows
<1> QED
  BY <1>1, <1>2, <1>3

LEMMA InitRows == Init => Rows
<1> SUFFICES ASSUME Init PROVE Rows
  OBVIOUS
<1>1. \A l \in Fire \X Attempt : logs[l].status = "none"
  BY DEF Init, NoLog
<1>2. \A f \in Fire : fires[f].pc = "none"
  BY DEF Init, NoFire
<1> QED
  BY <1>1, <1>2 DEF Rows, RowsComeLater, RowsAreSigned, AttemptsSign, RowsAreAnsweredFor, Open, InAttempt

LEMMA SignedRows == Spec => [](TypeOK /\ Local /\ Rows)
<1>1. TypeOK /\ Local /\ Rows /\ [Next]_vars => (TypeOK /\ Local /\ Rows)'
  BY TypesKept, RowsKept
<1> QED
  BY <1>1, InitTyped, InitRows, PTL DEF Spec

(* A process that drained and stopped left no open row of its own, however    *)
(* its runs were killed, timed out, retried or cut short by the hard stop: an *)
(* open row of a process that has not crashed always has a fire in that       *)
(* attempt, and the drain waits for every fire (DrainAsync).                  *)
THEOREM OrderlyStop == Spec => []OrderlyStopClosesItsRuns
<1>1. TypeOK /\ Local /\ Rows => OrderlyStopClosesItsRuns
  <2> SUFFICES ASSUME TypeOK, Local, Rows, NEW n \in Node, NEW l \in Fire \X Attempt,
                      mode[n] = "stopped", Open(l), fires[l[1]].outcome # "unwritten",
                      logs[l].node = n, logs[l].inst = inst[n]
               PROVE  FALSE
    BY DEF OrderlyStopClosesItsRuns
  <2>1. PICK f \in Fire, a \in Attempt : l = <<f, a>>
    OBVIOUS
  <2>2. Answers(f, a) /\ fires[f].outcome # "unwritten"
    BY <2>1 DEF Rows, RowsAreAnsweredFor
  <2>3. fires[f].pc \in InAttempt /\ fires[f].attempt = a
    BY <2>2 DEF Answers
  <2>4. fires[f].at = n
    BY <2>1, <2>3 DEF Rows, AttemptsSign
  <2>5. IsUp(n)
    BY <2>3, <2>4 DEF TypeOK, InAttempt, Launched
  <2> QED
    BY <2>5 DEF IsUp
<1> QED
  BY <1>1, SignedRows, PTL
(***************************************************************************)
(* The reaper.                                                             *)
(***************************************************************************)
\* Whatever is written is written with the clock.
LEMMA ClockOnlyGrows ==
    ASSUME TypeOK, [Next]_vars
    PROVE  clock' \in Nat /\ clock' >= clock /\ (clock' = clock \/ ClockTick)
<1>1. clock' = clock \/ ClockTick
  BY DEF Next, Tick, Heartbeat, ReadAlive, ReadOrphans, CloseOrphans, EndTick, Reserve, Ask, KillRead,
         Stop, HardStop, Exit, Crash, Restart, Launch, ClaimWins, ClaimLoses, CheckOpenRows, TryFire,
         TryFireManual, Run, BeginAttempt, Register, HandlerEnds, HandlerMissing, CloseLog, Retry,
         FinishQuietly, CountError, Judge, Panic, TimesOut, CloseFails, PollKillFlag, Enable, KillFlag, vars
<1> QED
  BY <1>1 DEF ClockTick, TypeOK

\* Who changes a heartbeat row or what a tick knows.
LEMMA HeartbeatsAreQuiet ==
    ASSUME TypeOK, [Next]_vars, NEW n \in Node, ~Heartbeat(n)
    PROVE  beat'[n] = beat[n]
<1>1. beat' = beat \/ \E m \in Node : Heartbeat(m)
  BY DEF Next, Tick, ClockTick, ReadAlive, ReadOrphans, CloseOrphans, EndTick, Reserve, Ask, KillRead,
         Stop, HardStop, Exit, Crash, Restart, Launch, ClaimWins, ClaimLoses, CheckOpenRows, TryFire,
         TryFireManual, Run, BeginAttempt, Register, HandlerEnds, HandlerMissing, CloseLog, Retry,
         FinishQuietly, CountError, Judge, Panic, TimesOut, CloseFails, PollKillFlag, Enable, KillFlag, vars
<1> QED
  BY <1>1 DEF Heartbeat, TypeOK

LEMMA TicksAreQuiet ==
    ASSUME TypeOK, [Next]_vars, NEW n \in Node, ~Heartbeat(n), ~Exit(n), ~Crash(n), ~Restart(n)
    PROVE  /\ tick'[n].now = tick[n].now
           /\ ~ReadAlive(n) /\ tick'[n].pc = "orphans"
              => tick[n].pc = "orphans" /\ tick'[n].alive = tick[n].alive
           /\ ~ReadOrphans(n) => tick'[n].orphans \subseteq tick[n].orphans
<1>1. \/ UNCHANGED tick
      \/ \E m \in Node : \/ Heartbeat(m) \/ ReadAlive(m) \/ ReadOrphans(m) \/ CloseOrphans(m) \/ EndTick(m)
                         \/ Exit(m) \/ Crash(m) \/ Restart(m)
  BY DEF Next, Tick, ClockTick, Reserve, Ask, KillRead,
         Stop, HardStop, Launch, ClaimWins, ClaimLoses, CheckOpenRows, TryFire,
         TryFireManual, Run, BeginAttempt, Register, HandlerEnds, HandlerMissing, CloseLog, Retry,
         FinishQuietly, CountError, Judge, Panic, TimesOut, CloseFails, PollKillFlag, Enable, KillFlag, vars
<1>2. tick \in [Node -> Ticks] /\ tick[n] \in Ticks
  BY DEF TypeOK
<1>3. CASE tick'[n] = tick[n]
  BY <1>3
<1>4. ASSUME NEW m \in Node, m # n,
             \/ Heartbeat(m) \/ ReadAlive(m) \/ ReadOrphans(m) \/ CloseOrphans(m) \/ EndTick(m)
             \/ Exit(m) \/ Crash(m) \/ Restart(m)
      PROVE  tick'[n] = tick[n]
  BY <1>2, <1>4 DEF Heartbeat, ReadAlive, ReadOrphans, CloseOrphans, EndTick, Exit, Crash, Restart
<1>5. CASE ReadAlive(n)
  <2> DEFINE seen == {<<m, beat[m].inst>> : m \in {x \in Node : beat[x].at > Deadline(n)}}
  <2>1. tick'[n] = [tick[n] EXCEPT !.pc = "orphans", !.alive = seen]
    BY <1>2, <1>5 DEF ReadAlive
  <2> HIDE DEF seen
  <2>2. tick'[n].now = tick[n].now /\ tick'[n].orphans = tick[n].orphans
    BY <1>2, <2>1 DEF Ticks
  <2> QED
    BY <1>5, <2>2
<1>6. CASE ReadOrphans(n)
  <2>1. PICK pc \in {"dispatch", "reap"} : \E found :
            tick'[n] = [tick[n] EXCEPT !.pc = pc, !.alive = {}, !.orphans = found]
    BY <1>2, <1>6 DEF ReadOrphans
  <2>2. tick'[n].now = tick[n].now /\ tick'[n].pc # "orphans"
    BY <1>2, <2>1 DEF Ticks
  <2> QED
    BY <1>6, <2>2
<1>7. CASE CloseOrphans(n) \/ EndTick(n)
  <2>1. PICK pc \in {"dispatch", "idle"}, left \in {{}, tick[n].orphans} :
            tick'[n] = [tick[n] EXCEPT !.pc = pc, !.orphans = left]
    <3>1. CASE CloseOrphans(n)
      BY <1>2, <3>1 DEF CloseOrphans
    <3>2. CASE EndTick(n)
      <4>1. tick'[n] = [tick[n] EXCEPT !.pc = "idle", !.orphans = tick[n].orphans]
        BY <1>2, <3>2 DEF EndTick, Ticks
      <4> QED
        BY <4>1
    <3> QED
      BY <1>7, <3>1, <3>2
  <2>2. tick'[n].now = tick[n].now /\ tick'[n].pc # "orphans" /\ tick'[n].orphans \subseteq tick[n].orphans
    BY <1>2, <2>1 DEF Ticks
  <2> QED
    BY <2>2
<1> QED
  BY <1>1, <1>3, <1>4, <1>5, <1>6, <1>7
LEMMA AHeartbeat ==
    ASSUME TypeOK, NEW n \in Node, Heartbeat(n)
    PROVE  /\ beat'[n].inst = inst[n] /\ beat'[n].at = clock
           /\ tick'[n].now = clock /\ tick'[n].pc # "orphans" /\ tick'[n].orphans = tick[n].orphans
           /\ inst' = inst
<1>1. tick \in [Node -> Ticks] /\ tick[n] \in Ticks
  BY DEF TypeOK
<1>2. PICK pc \in {"alive", "idle"} : tick'[n] = [tick[n] EXCEPT !.pc = pc, !.now = clock]
  BY <1>1 DEF Heartbeat
<1>3. tick'[n].now = clock /\ tick'[n].pc # "orphans" /\ tick'[n].orphans = tick[n].orphans
  BY <1>1, <1>2 DEF Ticks
<1>4. beat'[n] = [inst |-> inst[n], at |-> clock]
  BY DEF Heartbeat, TypeOK
<1> QED
  BY <1>3, <1>4 DEF Heartbeat

LEMMA AProcessEnds ==
    ASSUME TypeOK, NEW n \in Node, Exit(n) \/ Crash(n)
    PROVE  /\ tick'[n].now = 0 /\ tick'[n].pc = "idle" /\ tick'[n].orphans = {}
           /\ inst' = inst /\ ~Beats(n)'
<1>1. tick'[n] = IdleTick(0) /\ mode'[n] \in {"stopped", "crashed"}
  BY DEF TypeOK, Exit, Crash
<1> QED
  BY <1>1 DEF IdleTick, Beats, Exit, Crash

LEMMA AProcessStarts ==
    ASSUME TypeOK, NEW n \in Node, Restart(n)
    PROVE  /\ tick'[n].now = clock /\ tick'[n].pc = "idle" /\ tick'[n].orphans = {}
           /\ inst'[n] = inst[n] + 1 /\ \A m \in Node : m # n => inst'[m] = inst[m] /\ mode'[m] = mode[m]
           /\ UNCHANGED <<clock, fires, logs, beat>> /\ mode[n] # "up" /\ ~IsUp(n)
<1>1. tick'[n] = IdleTick(clock)
  BY DEF TypeOK, Restart
<1>2. tick'[n].now = clock /\ tick'[n].pc = "idle" /\ tick'[n].orphans = {}
  BY <1>1 DEF IdleTick
<1> QED
  BY <1>2 DEF TypeOK, Restart, IsUp

\* Rows of a living process come of a step that begins an attempt.
LEMMA RowsOfTheLiving ==
    ASSUME TypeOK, Local, Rows, [Next]_vars, NEW m \in Node, ~Restart(m),
           NEW l \in Fire \X Attempt, l \in RowsOf(m)'
    PROVE  \/ l \in RowsOf(m) /\ logs'[l].start = logs[l].start
           \/ logs[l].status = "none" /\ logs'[l].start = clock
<1>1. PICK f \in Fire, a \in Attempt : l = <<f, a>>
  OBVIOUS
<1>2. ASSUME NEW g \in Fire, BeginAttempt(g)
      PROVE  \/ l \in RowsOf(m) /\ logs'[l].start = logs[l].start
             \/ logs[l].status = "none" /\ logs'[l].start = clock
  <2>1. inst' = inst
    BY <1>2 DEF BeginAttempt
  <2> DEFINE k == <<g, fires[g].attempt>>
  <2>2. /\ logs[k].status = "none" /\ logs'[k].start = clock
        /\ l # k => logs'[l] = logs[l]
    BY <1>2, AnAttemptBegins
  <2> QED
    BY <2>1, <2>2 DEF RowsOf, Open
<1>3. ASSUME NEW k \in Node, Restart(k)
      PROVE  l \in RowsOf(m) /\ logs'[l].start = logs[l].start
  BY <1>3, AProcessStarts DEF RowsOf, Open
<1>4. CASE ~(\E g \in Fire : BeginAttempt(g)) /\ ~(\E k \in Node : Restart(k))
  <2>1. QuietRow(f, a) /\ inst' = inst
    BY <1>4, StepsAreQuiet, ProcessesAreQuiet
  <2> QED
    BY <1>1, <2>1 DEF QuietRow, RowsOf, SameRow, Open
<1> QED
  BY <1>2, <1>3, <1>4

\* A new process has no rows yet.
LEMMA ANewProcessHasNoRows ==
    ASSUME TypeOK, Rows, NEW m \in Node, Restart(m)
    PROVE  RowsOf(m)' = {}
<1> SUFFICES ASSUME NEW l \in Fire \X Attempt, Open(l)', logs'[l].node = m, logs'[l].inst = inst'[m]
             PROVE  FALSE
  BY DEF RowsOf
<1>1. logs' = logs /\ inst'[m] = inst[m] + 1 /\ inst[m] \in Nat
  BY AProcessStarts DEF TypeOK
<1>2. logs[l].inst <= inst[m] /\ logs[l].inst \in Nat
  BY <1>1 DEF Rows, RowsAreSigned, Open, TypeOK, Logs
<1> QED
  BY <1>1, <1>2

LEMMA StartsAreKnown ==
    ASSUME TypeOK, Local, [Next]_vars, NEW l \in Fire \X Attempt
    PROVE  logs'[l].start \in {logs[l].start, clock, 0}
<1>1. \A status : ClosedAs(status).start = 0
  BY DEF ClosedAs, NoLog
<1>2. logs \in [Fire \X Attempt -> Logs]
  BY DEF TypeOK
<1>3. ASSUME NEW n \in Node, CloseOrphans(n) PROVE logs'[l].start \in {logs[l].start, clock, 0}
  BY <1>1, <1>3 DEF CloseOrphans
<1>4. ASSUME NEW f \in Fire, CloseLog(f) PROVE logs'[l].start \in {logs[l].start, clock, 0}
  BY <1>1, <1>2, <1>4 DEF CloseLog
<1>5. ASSUME NEW f \in Fire, BeginAttempt(f) PROVE logs'[l].start \in {logs[l].start, clock, 0}
  BY <1>2, <1>5 DEF BeginAttempt
<1>6. CASE /\ ~(\E f \in Fire : BeginAttempt(f) \/ CloseLog(f))
           /\ ~(\E n \in Node : CloseOrphans(n))
  BY <1>6, RowsAreQuiet DEF SameRow
<1> QED
  BY <1>3, <1>4, <1>5, <1>6

LEMMA NothingIsAheadKept ==
    ASSUME TypeOK, Local, NothingIsAhead, [Next]_vars
    PROVE  NothingIsAhead'
<1>1. clock \in Nat /\ clock' \in Nat /\ clock' >= clock
  BY ClockOnlyGrows DEF TypeOK
<1>2. ASSUME NEW n \in Node PROVE tick'[n].now <= clock'
  <2>1. tick'[n].now \in {tick[n].now, clock, 0}
    BY TicksAreQuiet, AHeartbeat, AProcessEnds, AProcessStarts
  <2>2. tick[n].now \in Nat /\ tick[n].now <= clock
    BY DEF TypeOK, Ticks, NothingIsAhead
  <2> QED
    BY <1>1, <2>1, <2>2
<1>3. ASSUME NEW n \in Node PROVE beat'[n].inst <= inst'[n]
  <2>1. beat[n].inst \in Nat /\ inst[n] \in Nat /\ beat[n].inst <= inst[n]
    BY DEF TypeOK, NothingIsAhead
  <2>2. inst'[n] \in {inst[n], inst[n] + 1}
    BY ProcessesAreQuiet, AProcessStarts
  <2>3. CASE Heartbeat(n)
    BY <2>1, <2>3, AHeartbeat
  <2>4. CASE ~Heartbeat(n)
    BY <2>1, <2>2, <2>4, HeartbeatsAreQuiet
  <2> QED
    BY <2>3, <2>4
<1>4. ASSUME NEW l \in Fire \X Attempt PROVE logs'[l].start <= clock'
  <2>1. logs[l].start \in Nat /\ logs[l].start <= clock
    BY DEF TypeOK, Logs, NothingIsAhead
  <2> QED
    BY <1>1, <2>1, StartsAreKnown
<1> QED
  BY <1>2, <1>3, <1>4 DEF NothingIsAhead
LEMMA ARunningSchedulerRan ==
    ASSUME TypeOK, [Next]_vars, NEW n \in Node, Beats(n)', ~Restart(n)
    PROVE  Beats(n) /\ inst'[n] = inst[n] /\ ~Exit(n) /\ ~Crash(n)
<1>1. ~Exit(n) /\ ~Crash(n)
  BY AProcessEnds
<1>2. ASSUME NEW k \in Node, Restart(k) PROVE Beats(n) /\ inst'[n] = inst[n]
  BY <1>2, AProcessStarts DEF Beats
<1>3. CASE ~(\E k \in Node : Restart(k))
  BY <1>1, <1>3, ProcessesAreQuiet
<1> QED
  BY <1>1, <1>2, <1>3

LEMMA BeatsAreFreshKept ==
    ASSUME TypeOK, NothingIsAhead, BeatsAreFresh, [Next]_vars
    PROVE  BeatsAreFresh'
<1> SUFFICES ASSUME NEW n \in Node, Beats(n)'
             PROVE  /\ clock' <= tick'[n].now + HeartbeatSeconds
                    /\ beat'[n].inst = inst'[n] => beat'[n].at = tick'[n].now
  BY DEF BeatsAreFresh
<1>1. clock \in Nat /\ HeartbeatSeconds \in Nat /\ HeartbeatSeconds > 0
  BY JobRunsAssumption DEF TypeOK
<1>2. CASE Heartbeat(n)
  <2>1. clock' = clock
    BY <1>2 DEF Heartbeat
  <2> QED
    BY <1>1, <1>2, <2>1, AHeartbeat
<1>3. CASE Restart(n)
  <2>1. beat'[n].inst = beat[n].inst /\ inst'[n] = inst[n] + 1 /\ clock' = clock /\ tick'[n].now = clock
    BY <1>3, AProcessStarts
  <2>2. beat[n].inst <= inst[n] /\ inst[n] \in Nat /\ beat[n].inst \in Nat
    BY DEF NothingIsAhead, TypeOK
  <2> QED
    BY <1>1, <2>1, <2>2
<1>4. CASE ~Heartbeat(n) /\ ~Restart(n)
  <2>1. Beats(n) /\ inst'[n] = inst[n] /\ ~Exit(n) /\ ~Crash(n)
    BY <1>4, ARunningSchedulerRan
  <2>2. beat'[n] = beat[n] /\ tick'[n].now = tick[n].now
    BY <1>4, <2>1, HeartbeatsAreQuiet, TicksAreQuiet
  <2>3. /\ clock <= tick[n].now + HeartbeatSeconds
        /\ beat[n].inst = inst[n] => beat[n].at = tick[n].now
    BY <2>1 DEF BeatsAreFresh
  <2>4. clock' <= tick[n].now + HeartbeatSeconds
    <3>1. CASE clock' = clock
      BY <2>3, <3>1
    <3>2. CASE ClockTick
      <4>1. clock' = clock + 1 /\ clock < tick[n].now + HeartbeatSeconds
        BY <2>1, <3>2 DEF ClockTick, OnTime, Beats
      <4>2. tick[n].now \in Nat
        BY DEF TypeOK, Ticks
      <4> QED
        BY <1>1, <4>1, <4>2
    <3> QED
      BY <3>1, <3>2, ClockOnlyGrows
  <2> QED
    BY <2>1, <2>2, <2>3, <2>4
<1> QED
  BY <1>2, <1>3, <1>4

LEMMA RowsBeforeFirstBeatKept ==
    ASSUME TypeOK, Local, Rows, NothingIsAhead, RowsBeforeFirstBeat, [Next]_vars
    PROVE  RowsBeforeFirstBeat'
<1> SUFFICES ASSUME NEW m \in Node, Beats(m)', beat'[m].inst # inst'[m],
                    NEW l \in Fire \X Attempt, l \in RowsOf(m)'
             PROVE  logs'[l].start >= tick'[m].now
  BY DEF RowsBeforeFirstBeat, RowsOf
<1>1. ~Restart(m)
  BY ANewProcessHasNoRows
<1>2. ~Heartbeat(m)
  BY AHeartbeat
<1>3. Beats(m) /\ inst'[m] = inst[m] /\ ~Exit(m) /\ ~Crash(m)
  BY <1>1, ARunningSchedulerRan
<1>4. beat'[m] = beat[m] /\ tick'[m].now = tick[m].now
  BY <1>1, <1>2, <1>3, HeartbeatsAreQuiet, TicksAreQuiet
<1>5. CASE l \in RowsOf(m) /\ logs'[l].start = logs[l].start
  BY <1>3, <1>4, <1>5 DEF RowsBeforeFirstBeat
<1>6. CASE logs'[l].start = clock
  <2>1. tick[m].now <= clock /\ tick[m].now \in Nat /\ clock \in Nat
    BY DEF NothingIsAhead, TypeOK, Ticks
  <2> QED
    BY <1>4, <1>6, <2>1
<1> QED
  BY <1>1, <1>5, <1>6, RowsOfTheLiving

\* The arithmetic of the deadline: a scheduler that runs has beaten within a
\* heartbeat, and the reaper looks two leases back.
LEMMA TheLivingHaveBeaten ==
    ASSUME TypeOK, NothingIsAhead, BeatsAreFresh, NEW n \in Node, NEW m \in Node, Beats(m)
    PROVE  Deadline(n) < tick[m].now
<1>1. clock <= tick[m].now + HeartbeatSeconds /\ tick[n].now <= clock
  BY DEF BeatsAreFresh, NothingIsAhead
<1>2. clock \in Nat /\ tick[m].now \in Nat /\ tick[n].now \in Nat
  BY DEF TypeOK, Ticks
<1>3. HeartbeatSeconds \in Nat /\ LeaseSeconds \in Nat /\ LeaseSeconds > 2 * HeartbeatSeconds
  BY JobRunsAssumption
<1> QED
  BY <1>1, <1>2, <1>3 DEF Deadline

LEMMA ListsTheLivingKept ==
    ASSUME TypeOK, Local, Rows, NothingIsAhead, BeatsAreFresh, RowsBeforeFirstBeat, ListsTheLiving,
           [Next]_vars
    PROVE  ListsTheLiving'
<1> SUFFICES ASSUME NEW n \in Node, NEW m \in Node, tick'[n].pc = "orphans", Beats(m)',
                    <<m, inst'[m]>> \notin tick'[n].alive,
                    NEW l \in Fire \X Attempt, l \in RowsOf(m)'
             PROVE  logs'[l].start >= tick'[n].now - 2 * LeaseSeconds
  BY DEF ListsTheLiving, RowsOf, Deadline
<1>1. ~Restart(m)
  BY ANewProcessHasNoRows
<1>2. Beats(m) /\ inst'[m] = inst[m]
  BY <1>1, ARunningSchedulerRan
<1>3. ~Heartbeat(n) /\ ~Exit(n) /\ ~Crash(n) /\ ~Restart(n)
  BY AHeartbeat, AProcessEnds, AProcessStarts
<1>4. tick'[n].now = tick[n].now
  BY <1>3, TicksAreQuiet
<1>5. clock \in Nat /\ tick[n].now \in Nat /\ tick[n].now <= clock /\ LeaseSeconds \in Nat
      /\ tick[m].now \in Nat /\ logs[l].start \in Nat
  BY JobRunsAssumption DEF TypeOK, Ticks, Logs, NothingIsAhead
<1>6. CASE logs'[l].start = clock
  BY <1>4, <1>5, <1>6
<1>7. CASE l \in RowsOf(m) /\ logs'[l].start = logs[l].start
  <2>1. CASE ReadAlive(n)
    <3>1. tick'[n].alive = {<<x, beat[x].inst>> : x \in {y \in Node : beat[y].at > Deadline(n)}}
      BY <2>1 DEF ReadAlive, TypeOK, Ticks
    <3>2. Deadline(n) < tick[m].now
      BY <1>2, TheLivingHaveBeaten
    <3>3. beat[m].inst # inst[m]
      <4>1. ASSUME beat[m].inst = inst[m] PROVE FALSE
        <5>1. beat[m].at = tick[m].now
          BY <1>2, <4>1 DEF BeatsAreFresh
        <5>2. beat[m].at > Deadline(n)
          BY <1>5, <3>2, <5>1 DEF Deadline
        <5>3. <<m, beat[m].inst>> \in tick'[n].alive
          BY <3>1, <5>2
        <5> QED
          BY <1>2, <4>1, <5>3
      <4> QED
        BY <4>1
    <3>4. logs[l].start >= tick[m].now
      BY <1>2, <1>7, <3>3 DEF RowsBeforeFirstBeat
    <3> QED
      BY <1>4, <1>5, <1>7, <3>2, <3>4 DEF Deadline
  <2>2. CASE ~ReadAlive(n)
    <3>1. tick[n].pc = "orphans" /\ tick'[n].alive = tick[n].alive
      BY <1>3, <2>2, TicksAreQuiet
    <3>2. logs[l].start >= Deadline(n)
      BY <1>2, <1>7, <3>1 DEF ListsTheLiving
    <3> QED
      BY <1>4, <1>7, <3>2 DEF Deadline
  <2> QED
    BY <2>1, <2>2
<1> QED
  BY <1>1, <1>6, <1>7, RowsOfTheLiving
LEMMA NoRowVanishes ==
    ASSUME TypeOK, Local, Rows, [Next]_vars, NEW l \in Fire \X Attempt, logs[l].status # "none"
    PROVE  logs'[l].status # "none"
<1>1. PICK f \in Fire, a \in Attempt : l = <<f, a>>
  OBVIOUS
<1>2. CASE ~(\E g \in Fire : BeginAttempt(g))
  BY <1>1, <1>2, StepsAreQuiet DEF QuietRow
<1>3. ASSUME NEW g \in Fire, BeginAttempt(g) PROVE logs'[l].status # "none"
  BY <1>3, AnAttemptBegins
<1> QED
  BY <1>2, <1>3

LEMMA OrphansAreNotLivingKept ==
    ASSUME TypeOK, Local, Rows, ListsTheLiving, OrphansAreNotLiving, [Next]_vars
    PROVE  OrphansAreNotLiving'
<1> SUFFICES ASSUME NEW n \in Node, NEW l \in tick'[n].orphans
             PROVE  /\ logs'[l].status # "none"
                    /\ \A m \in Node : Beats(m)' => l \notin RowsOf(m)'
  BY DEF OrphansAreNotLiving
<1>1. ~Exit(n) /\ ~Crash(n) /\ ~Restart(n)
  BY AProcessEnds, AProcessStarts
<1>2. CASE ReadOrphans(n)
  <2>1. tick'[n].orphans = {k \in Fire \X Attempt : IsOrphan(n, k)}
    <3> DEFINE found == {k \in Fire \X Attempt : IsOrphan(n, k)}
               pc == IF found = {} THEN "dispatch" ELSE "reap"
    <3>1. tick \in [Node -> Ticks] /\ tick[n] \in Ticks
      BY DEF TypeOK
    <3>2. tick'[n] = [tick[n] EXCEPT !.pc = pc, !.alive = {}, !.orphans = found]
      BY <1>2, <3>1 DEF ReadOrphans
    <3> HIDE DEF found, pc
    <3>3. tick'[n].orphans = found
      BY <3>1, <3>2 DEF Ticks
    <3> QED
      BY <3>3 DEF found
  <2>2. /\ l \in Fire \X Attempt /\ Open(l) /\ logs[l].start < Deadline(n)
        /\ <<logs[l].node, logs[l].inst>> \notin tick[n].alive /\ tick[n].pc = "orphans"
    BY <1>2, <2>1 DEF IsOrphan, ReadOrphans
  <2>3. logs' = logs /\ inst' = inst /\ mode' = mode
    BY <1>2 DEF ReadOrphans
  <2>4. logs[l].start \in Nat /\ Deadline(n) \in Int
    BY <2>2, JobRunsAssumption DEF TypeOK, Logs, Ticks, Deadline
  <2>5. ASSUME NEW m \in Node, Beats(m), l \in RowsOf(m) PROVE FALSE
    <3>1. <<m, inst[m]>> \notin tick[n].alive
      BY <2>2, <2>5 DEF RowsOf
    <3>2. logs[l].start >= Deadline(n)
      BY <2>2, <2>5, <3>1 DEF ListsTheLiving
    <3> QED
      BY <2>2, <2>4, <3>2
  <2> QED
    BY <2>2, <2>3, <2>5 DEF Open, Beats, RowsOf
<1>3. CASE ~ReadOrphans(n)
  <2>1. l \in tick[n].orphans /\ l \in Fire \X Attempt
    <3>1. l \in tick[n].orphans
      BY <1>1, <1>3, AHeartbeat, TicksAreQuiet
    <3> QED
      BY <3>1 DEF TypeOK, Ticks
  <2>2. logs[l].status # "none" /\ \A m \in Node : Beats(m) => l \notin RowsOf(m)
    BY <2>1 DEF OrphansAreNotLiving
  <2>3. ASSUME NEW m \in Node, Beats(m)', l \in RowsOf(m)' PROVE FALSE
    <3>1. ~Restart(m)
      BY <2>3, ANewProcessHasNoRows
    <3>2. Beats(m)
      BY <2>3, <3>1, ARunningSchedulerRan
    <3> QED
      BY <2>1, <2>2, <2>3, <3>1, <3>2, RowsOfTheLiving
  <2> QED
    BY <2>1, <2>2, <2>3, NoRowVanishes
<1> QED
  BY <1>2, <1>3

LEMMA LiveRunsKept ==
    ASSUME TypeOK, Local, Rows, OrphansAreNotLiving, LiveRunIsOpen, [Next]_vars
    PROVE  LiveRunIsOpen'
<1> SUFFICES ASSUME NEW f \in Fire, fires'[f].pc \in InAttempt,
                    fires'[f].at \in Scheduling, mode'[fires'[f].at] = "up"
             PROVE  logs'[<<f, fires'[f].attempt>>].status = "Running"
  BY DEF LiveRunIsOpen, Open, InAttempt
<1> DEFINE l == <<f, fires[f].attempt>>
<1>1. fires \in [Fire -> Fires] /\ fires[f] \in Fires
  BY DEF TypeOK
<1>2. ASSUME NEW g \in Fire, BeginAttempt(g)
      PROVE  logs'[<<f, fires'[f].attempt>>].status = "Running"
  <2> DEFINE k == <<g, fires[g].attempt>>
  <2>1. /\ Open(k)' /\ fires'[g].attempt = fires[g].attempt
        /\ \A x \in Fire \X Attempt : x # k => logs'[x] = logs[x]
        /\ \A h \in Fire : h # g => fires'[h] = fires[h]
    BY <1>2, AnAttemptBegins
  <2>2. CASE f = g
    BY <2>1, <2>2 DEF Open
  <2>3. CASE f # g
    <3>1. fires'[f] = fires[f] /\ mode' = mode /\ l \in Fire \X Attempt
      BY <1>1, <1>2, <2>1, <2>3 DEF BeginAttempt, Fires
    <3>2. Open(l) /\ logs'[l] = logs[l]
      BY <2>1, <2>3, <3>1 DEF LiveRunIsOpen, InAttempt
    <3> QED
      BY <3>1, <3>2 DEF Open
  <2> QED
    BY <2>2, <2>3
<1>3. CASE ~(\E g \in Fire : BeginAttempt(g))
  <2>1. fires[f].attempt \in Attempt
    BY <1>1 DEF Fires
  <2>2. StaysInAttempt(f)
    BY <1>3, <2>1, StepsAreQuiet
  <2>3. /\ fires[f].pc \in InAttempt
        /\ fires'[f].attempt = fires[f].attempt /\ fires'[f].at = fires[f].at
    BY <2>2 DEF StaysInAttempt
  <2>0. fires[f].at \in Node /\ IsUp(fires[f].at) /\ l \in Fire \X Attempt
    BY <2>1, <2>3 DEF TypeOK, InAttempt, Launched
  <2>4. PICK n \in Node : n = fires[f].at /\ IsUp(n) /\ l \in Fire \X Attempt
    BY <2>0
  <2>5. Beats(n)
    <3>1. ~Restart(n)
      BY <2>4 DEF Restart
    <3>2. Beats(n)'
      BY <2>3, <2>4 DEF Beats
    <3> QED
      BY <3>1, <3>2, ARunningSchedulerRan
  <2>6. Open(l)
    BY <2>3, <2>4, <2>5 DEF LiveRunIsOpen, Beats, InAttempt
  <2>7. CASE ~(\E g \in Fire : CloseLog(g)) /\ ~(\E k \in Node : CloseOrphans(k))
    BY <1>3, <2>3, <2>4, <2>6, <2>7, RowsAreQuiet DEF SameRow, Open
  <2>8. ASSUME NEW g \in Fire, CloseLog(g) PROVE logs'[l].status = "Running"
    <3>1. g # f
      BY <1>1, <2>8 DEF CloseLog, Goto, InAttempt, Fires
    <3>2. logs'[l] = logs[l]
      BY <2>4, <2>8, <3>1 DEF CloseLog, TypeOK
    <3> QED
      BY <2>6, <3>2 DEF Open
  <2>9. ASSUME NEW k \in Node, CloseOrphans(k) PROVE logs'[l].status = "Running"
    <3>1. logs[l].node = n /\ logs[l].inst = inst[n]
      BY <2>3, <2>4, <2>6 DEF Rows, AttemptsSign
    <3>2. l \in RowsOf(n)
      BY <2>4, <2>6, <3>1 DEF RowsOf
    <3>3. l \notin tick[k].orphans
      BY <2>4, <2>5, <3>2 DEF OrphansAreNotLiving
    <3> QED
      BY <2>4, <2>6, <2>9, <3>3 DEF CloseOrphans, Open
  <2> QED
    BY <2>3, <2>7, <2>8, <2>9
<1> QED
  BY <1>2, <1>3

LEMMA InitReaper == Init => Reaper
<1> SUFFICES ASSUME Init PROVE Reaper
  OBVIOUS
<1>1. \A l \in Fire \X Attempt : logs[l].status = "none" /\ logs[l].start = 0
  BY DEF Init, NoLog
<1>2. \A f \in Fire : fires[f].pc = "none"
  BY DEF Init, NoFire
<1>3. \A n \in Node : /\ tick[n].now = 0 /\ tick[n].pc = "idle" /\ tick[n].orphans = {}
                      /\ beat[n].inst = 0 /\ inst[n] = 1
  BY DEF Init, IdleTick
<1>4. NothingIsAhead /\ BeatsAreFresh
  BY <1>1, <1>3, JobRunsAssumption DEF Init, NothingIsAhead, BeatsAreFresh
<1>5. RowsBeforeFirstBeat /\ ListsTheLiving /\ OrphansAreNotLiving
  BY <1>1, <1>3 DEF RowsBeforeFirstBeat, ListsTheLiving, OrphansAreNotLiving, RowsOf, Open
<1>6. LiveRunIsOpen
  BY <1>2 DEF LiveRunIsOpen
<1> QED
  BY <1>4, <1>5, <1>6 DEF Reaper

LEMMA ReaperKept ==
    ASSUME TypeOK, Local, Rows, Reaper, [Next]_vars
    PROVE  Reaper'
  BY NothingIsAheadKept, BeatsAreFreshKept, RowsBeforeFirstBeatKept, ListsTheLivingKept,
     OrphansAreNotLivingKept, LiveRunsKept DEF Reaper

(* No leader closes the row of an attempt whose process still runs its        *)
(* scheduler, whatever the leader knew when it read the heartbeats: between   *)
(* the two SELECTs and the UPDATE of ReapOrphanRunsAsync processes may die,   *)
(* restart under the same name and begin attempts.                            *)
THEOREM LiveRunsAreSpared == Spec => []LiveRunIsOpen
<1>1. TypeOK /\ Local /\ Rows /\ Reaper /\ [Next]_vars => (TypeOK /\ Local /\ Rows /\ Reaper)'
  BY TypesKept, RowsKept, ReaperKept
<1>2. Reaper => LiveRunIsOpen
  BY DEF Reaper
<1> QED
  BY <1>1, <1>2, InitTyped, InitRows, InitReaper, PTL DEF Spec
(* All of it, as one inductive invariant.                                     *)
THEOREM Safety == Spec => []Inv
<1>1. Init => Inv
  <2>1. Init => AlertsAreOwed
    BY DEF Init, AlertsAreOwed
  <2> QED
    BY <2>1, InitTyped, InitLimits, InitRows, InitReaper DEF Inv
<1>2. Inv /\ [Next]_vars => Inv'
  BY TypesKept, LimitsKept, AlertsKept, RowsKept, ReaperKept DEF Inv
<1> QED
  BY <1>1, <1>2, PTL DEF Spec
==============================================================================
