------------------------ MODULE JobSchedulerProofs ------------------------
(***************************************************************************)
(* JobScheduler for any number of replicas, administrators and triggers:   *)
(* its types; that an occurrence is claimed at most once and no writer     *)
(* takes NextRunTime back, with any clocks while nobody re-arms the job,   *)
(* and on one clock with requests that do; that it implements              *)
(* JobOccurrence; the lease; and what administrators may rely on.          *)
(***************************************************************************)
EXTENDS JobScheduler, TLAPS

AllTriggers == Triggers \cup InitTriggers

\* ComputeNext yields an instant strictly after the given one, or null.
LEMMA ComputeNextLater ==
    ASSUME NEW job \in TriggerOf(Nat), NEW after \in Nat
    PROVE  /\ ComputeNext(job, after) \in Nat \cup {NoTime}
           /\ ComputeNext(job, after) # NoTime => ComputeNext(job, after) > after
<1> DEFINE from == SearchFrom(job, after)
<1>1. from \in Nat /\ from >= after
  BY DEF SearchFrom, NoTime, TriggerOf
<1>2. ASSUME GetNextOccurrence(job.fires, from) # NoTime
      PROVE  /\ GetNextOccurrence(job.fires, from) \in Nat
             /\ GetNextOccurrence(job.fires, from) > from
  <2>1. \E t \in job.fires : IsNextIn(job.fires, from, t)
    BY <1>2 DEF GetNextOccurrence
  <2>2. GetNextOccurrence(job.fires, from) = CHOOSE t \in job.fires : IsNextIn(job.fires, from, t)
    BY <2>1 DEF GetNextOccurrence
  <2>3. IsNextIn(job.fires, from, GetNextOccurrence(job.fires, from))
    BY <2>1, <2>2
  <2> QED
    BY <2>3 DEF IsNextIn, TriggerOf
<1>3. Candidate(job, after) # NoTime =>
          Candidate(job, after) \in Nat /\ Candidate(job, after) > after
  <2>1. CASE job.kind = "Cron"
    <3>1. Candidate(job, after) = GetNextOccurrence(job.fires, from)
      BY <2>1 DEF Candidate
    <3> QED
      BY <3>1, <1>1, <1>2
  <2>2. CASE job.kind = "Interval"
    <3>1. Candidate(job, after) = IF job.period > 0 THEN from + job.period ELSE NoTime
      BY <2>2 DEF Candidate
    <3> QED
      BY <3>1, <1>1 DEF TriggerOf
  <2>3. CASE job.kind = "OneShot"
    BY <2>3 DEF Candidate, TriggerOf
  <2> QED
    BY <2>1, <2>2, <2>3 DEF TriggerOf
<1> QED
  BY <1>3 DEF ComputeNext, NoTime

LEMMA TriggersTyped == AllTriggers \subseteq TriggerOf(Nat)
  BY SchedulerAssumption DEF AllTriggers

LEMMA NextTyped ==
    ASSUME NEW r \in Rows, NEW after \in Nat
    PROVE  /\ ComputeNext(r.trig, after) \in Nat \cup {NoTime}
           /\ ComputeNext(r.trig, after) # NoTime => ComputeNext(r.trig, after) > after
<1>1. r.trig \in TriggerOf(Nat)
  BY TriggersTyped DEF Rows, AllTriggers
<1> QED
  BY <1>1, ComputeNextLater

\* Field updates stay inside the record sets.
LEMMA RowNextUpdate ==
    ASSUME NEW r \in Rows, NEW next \in Nat \cup {NoTime}
    PROVE  /\ [r EXCEPT !.next = next] \in Rows
           /\ [r EXCEPT !.next = next, !.runs = @ + 1] \in Rows
<1>1. [r EXCEPT !.next = next] \in Rows
  BY DEF Rows
<1>2. r.runs + 1 \in Nat
  BY DEF Rows
<1>3. [r EXCEPT !.next = next, !.runs = r.runs + 1] \in Rows
  BY <1>2 DEF Rows
<1> QED
  BY <1>1, <1>3

LEMMA RowStatusUpdate ==
    ASSUME NEW r \in Rows, NEW next \in Nat \cup {NoTime},
           NEW status \in {"Ready", "Paused", "Completed", "Panic"}
    PROVE  /\ [r EXCEPT !.status = status] \in Rows
           /\ [r EXCEPT !.status = status, !.next = next] \in Rows
  BY DEF Rows

LEMMA RowTrigUpdate ==
    ASSUME NEW r \in Rows, NEW trig \in AllTriggers
    PROVE  [r EXCEPT !.trig = trig] \in Rows
  BY DEF Rows, AllTriggers

LEMMA RowDeletedUpdate ==
    ASSUME NEW r \in Rows, NEW deleted \in BOOLEAN
    PROVE  [r EXCEPT !.deleted = deleted] \in Rows
  BY DEF Rows

LEMMA ClaimUpdate ==
    ASSUME NEW c \in Claims, NEW st \in {"claimed", "missed", "running", "done", "lost"}
    PROVE  [c EXCEPT !.st = st] \in Claims
  BY DEF Claims

LEMMA ClaimAt ==
    ASSUME TypeOK, NEW i \in 1..Len(claims)
    PROVE  claims[i] \in Claims
  BY DEF TypeOK

(***************************************************************************)
(* Type correctness.                                                       *)
(***************************************************************************)
LEMMA InitTyped == Init => TypeOK
<1> SUFFICES ASSUME Init PROVE TypeOK
  OBVIOUS
<1>1. row \in Rows
  <2>1. PICK t \in InitTriggers : \E next \in {NoTime, ComputeNext(t, 0)} :
           row = [trig |-> t, status |-> "Ready", next |-> next, deleted |-> FALSE, runs |-> 0]
    BY DEF Init
  <2>2. ComputeNext(t, 0) \in Nat \cup {NoTime}
    BY ComputeNextLater, TriggersTyped DEF AllTriggers
  <2> QED
    BY <2>1, <2>2 DEF Rows
<1>2. IdleRequest \in Requests
  BY DEF IdleRequest, Requests
<1> QED
  BY <1>1, <1>2 DEF Init, TypeOK, Claims, IdleRequest, Scanning

LEMMA RequestTyped ==
    ASSUME TypeOK, NEW a \in Admin, Request(a)
    PROVE  TypeOK'
<1> USE DEF NoTime
<1> DEFINE Started(r) == r.pc # "idle" => r.at \in Node /\ r.snap \in Rows
<1>1. ASSUME NEW r \in Requests, Started(r), admin' = [admin EXCEPT ![a] = r]
      PROVE  /\ admin' \in [Admin -> Requests]
             /\ \A b \in Admin : Started(admin'[b])
  BY <1>1 DEF TypeOK
<1>2. ASSUME NEW r \in Requests, Started(r), admin' = [admin EXCEPT ![a] = r],
             row' \in Rows, UNCHANGED <<clock, lock, tickVars, claims>>
      PROVE  TypeOK'
  BY <1>2, <1>1 DEF TypeOK, tickVars
<1>3. admin[a] \in Requests /\ Started(admin[a]) /\ row \in Rows
  BY DEF TypeOK
<1>4. IdleRequest \in Requests /\ Started(IdleRequest)
  BY DEF IdleRequest, Requests
<1>5. ASSUME NEW label \in {"finish", "store", "publish", "park", "cas"}, admin[a].pc # "idle"
      PROVE  [admin[a] EXCEPT !.pc = label] \in Requests /\ Started([admin[a] EXCEPT !.pc = label])
  BY <1>3, <1>5 DEF Requests
<1>6. CASE AdminRead(a)
  <2>1. PICK op \in AdminOps, n \in Node :
           admin' = [admin EXCEPT ![a] = [pc |-> FirstStep[op], op |-> op, at |-> n,
                                          snap |-> row, next |-> NoTime]]
    BY <1>6 DEF AdminRead
  <2>2. FirstStep[op] \in {"write", "compute", "store", "delete", "undelete"}
    BY SchedulerAssumption DEF FirstStep
  <2> DEFINE r == [pc |-> FirstStep[op], op |-> op, at |-> n, snap |-> row, next |-> NoTime]
  <2>3. r \in Requests /\ Started(r)
    BY <2>2, <1>3 DEF Requests
  <2> QED
    BY <1>6, <2>1, <2>3, <1>2, <1>3 DEF AdminRead
<1>7. CASE UpdateWrite(a)
  <2>1. PICK t \in Triggers :
           /\ row' = [row EXCEPT !.trig = t]
           /\ admin' = [admin EXCEPT
                  ![a].snap.trig = t,
                  ![a].pc = IF admin[a].snap.status = "Ready" THEN "compute" ELSE "publish"]
    BY <1>7 DEF UpdateWrite
  <2> DEFINE label == IF admin[a].snap.status = "Ready" THEN "compute" ELSE "publish"
  <2> DEFINE r == [admin[a] EXCEPT !.snap = [admin[a].snap EXCEPT !.trig = t], !.pc = label]
  <2>2. admin[a].snap \in Rows /\ admin[a].at \in Node
    BY <1>7, <1>3 DEF UpdateWrite
  <2>3. [admin[a].snap EXCEPT !.trig = t] \in Rows /\ [row EXCEPT !.trig = t] \in Rows
    BY <2>2, <1>3, RowTrigUpdate DEF AllTriggers
  <2>4. r \in Requests /\ Started(r)
    BY <1>3, <2>2, <2>3 DEF Requests
  <2>5. admin' = [admin EXCEPT ![a] = r]
    BY <2>1, <1>3 DEF TypeOK
  <2>6. row' \in Rows /\ UNCHANGED <<clock, lock, tickVars, claims>>
    BY <1>7, <2>1, <2>3 DEF UpdateWrite
  <2> HIDE DEF r
  <2> QED
    BY <2>4, <2>5, <2>6, <1>2
<1>8. CASE AdminCompute(a)
  <2> DEFINE next == ComputeNext(admin[a].snap.trig, Local(admin[a].at))
  <2>1. admin[a].snap \in Rows /\ Local(admin[a].at) \in Nat
    BY <1>8, <1>3, SchedulerAssumption DEF AdminCompute, Local, TypeOK
  <2>2. next \in Nat \cup {NoTime}
    BY <2>1, NextTyped
  <2> HIDE DEF next
  <2>3. CASE Enabling(a) /\ next = NoTime
    BY <1>8, <2>3, <1>2, <1>3, <1>4 DEF AdminCompute, AdminDone, next
  <2>4. CASE ~(Enabling(a) /\ next = NoTime)
    <3> DEFINE label == IF Enabling(a) THEN "store" ELSE "cas"
    <3> DEFINE r == [admin[a] EXCEPT !.next = next, !.pc = label]
    <3>1. admin' = [admin EXCEPT ![a] = r]
      BY <1>8, <2>4 DEF AdminCompute, TypeOK, next
    <3>2. r \in Requests
      BY <1>3, <2>2 DEF Requests
    <3>3. Started(r)
      BY <1>3, <1>8 DEF Requests, AdminCompute
    <3> QED
      BY <1>8, <3>1, <3>2, <3>3, <1>2, <1>3 DEF AdminCompute
  <2> QED
    BY <2>3, <2>4
<1>9. ASSUME NEW label \in {"finish", "store", "publish", "park", "cas"},
             AdminGoto(a, label), admin[a].pc # "idle",
             row' \in Rows, UNCHANGED <<clock, lock, tickVars, claims>>
      PROVE  TypeOK'
  <2>1. admin' = [admin EXCEPT ![a] = [admin[a] EXCEPT !.pc = label]]
    BY <1>9 DEF AdminGoto, TypeOK
  <2> QED
    BY <2>1, <1>9, <1>5, <1>2
<1>10. CASE UpdateCas(a)
  <2>1. admin[a].next \in Nat \cup {NoTime}
    BY <1>3 DEF Requests
  <2>2. row' \in Rows
    BY <1>10, <2>1, <1>3, RowNextUpdate DEF UpdateCas
  <2>3. \E label \in {"finish", "store", "publish", "park", "cas"} : AdminGoto(a, label)
    BY <1>10 DEF UpdateCas
  <2> QED
    BY <1>10, <2>2, <2>3, <1>9 DEF UpdateCas
<1>11. CASE UpdateFinish(a)
  <2>1. row' \in Rows
    BY <1>11, <1>3, RowStatusUpdate DEF UpdateFinish
  <2> QED
    BY <1>11, <2>1, <1>9 DEF UpdateFinish
<1>12. CASE SetEnabled(a)
  <2>1. admin[a].next \in Nat \cup {NoTime} /\ admin[a].snap \in Rows
    BY <1>3, <1>12 DEF Requests, SetEnabled
  <2>2. row' \in Rows
    BY <1>12, <2>1, RowStatusUpdate DEF SetEnabled
  <2> QED
    BY <1>12, <2>2, <1>9 DEF SetEnabled
<1>13. CASE Delete(a)
  <2>1. row' \in Rows
    BY <1>13, <1>3, RowDeletedUpdate DEF Delete
  <2> QED
    BY <1>13, <2>1, <1>9 DEF Delete
<1>14. CASE Undelete(a)
  <2>1. row' \in Rows
    BY <1>14, <1>3, RowDeletedUpdate DEF Undelete
  <2> QED
    BY <1>14, <2>1, <1>9 DEF Undelete
<1>15. CASE Park(a)
  <2>1. row' \in Rows
    BY <1>15, <1>3, RowStatusUpdate DEF Park
  <2> QED
    BY <1>15, <2>1, <1>4, <1>2 DEF Park, AdminDone
<1>16. CASE Publish(a)
  <2>1. admin[a].at \in Node
    BY <1>16, <1>3 DEF Publish
  <2>2. dirty' \in [Node -> BOOLEAN]
    BY <1>16, <2>1 DEF Publish, TypeOK
  <2>3. admin' \in [Admin -> Requests] /\ \A b \in Admin : Started(admin'[b])
    BY <1>16, <1>4, <1>1 DEF Publish, AdminDone
  <2> QED
    BY <1>16, <2>2, <2>3 DEF Publish, TypeOK
<1> QED
  BY <1>6, <1>7, <1>8, <1>10, <1>11, <1>12, <1>13, <1>14, <1>15, <1>16 DEF Request

\* Losing changes what became of claims, never a claim.
LEMMA LosingTyped ==
    ASSUME TypeOK, NEW n \in Node, NEW held, Losing(n, held)
    PROVE  /\ claims' \in Seq(Claims)
           /\ Len(claims') = Len(claims)
           /\ \A i \in 1..Len(claims) : claims'[i].at = claims[i].at
<1>1. \A i \in 1..Len(claims) :
          claims[i] \in Claims /\ [claims[i] EXCEPT !.st = "lost"] \in Claims
  BY ClaimAt, ClaimUpdate
<1>2. claims \in Seq(Claims)
  BY DEF TypeOK
<1> QED
  BY <1>1, <1>2 DEF Losing, Claims

LEMMA StepTyped == TypeOK /\ [Next]_vars => TypeOK'
<1> SUFFICES ASSUME TypeOK, [Next]_vars PROVE TypeOK'
  OBVIOUS
<1> USE DEF NoTime
<1>1. CASE UNCHANGED vars
  BY <1>1 DEF TypeOK, vars
<1>2. CASE ClockTick
  BY <1>2 DEF TypeOK, ClockTick, tickVars
<1>3. ASSUME NEW n \in Node, TickStart(n) PROVE TypeOK'
  <2>1. Local(n) \in Nat
    BY SchedulerAssumption DEF TypeOK, Local
  <2> QED
    BY <1>3, <2>1 DEF TypeOK, TickStart, Goto, Scanning
<1>4. ASSUME NEW n \in Node, Renew(n) PROVE TypeOK'
  <2>1. lock' \in [owner : Node \cup {Nobody}, until : Int]
    <3>1. now[n] + LeaseSeconds \in Int
      BY <1>4, SchedulerAssumption DEF TypeOK, Renew
    <3>2. [lock EXCEPT !.until = now[n] + LeaseSeconds] \in [owner : Node \cup {Nobody}, until : Int]
      BY <3>1 DEF TypeOK
    <3> QED
      BY <1>4, <3>2 DEF Renew, TypeOK
  <2>2. leader' \in [Node -> BOOLEAN]
    BY <1>4 DEF TypeOK, Renew
  <2>3. pc' \in [Node -> {"down", "idle", "elect"} \cup Scanning]
    <3>1. pc' = [pc EXCEPT ![n] = "scan"] \/ pc' = [pc EXCEPT ![n] = "idle"]
      BY <1>4 DEF Renew, Goto, EndTick
    <3>2. pc \in [Node -> {"down", "idle", "elect"} \cup Scanning]
      BY DEF TypeOK
    <3> QED
      BY <3>1, <3>2 DEF Scanning
  <2>5. now' \in [Node -> Nat \cup {NoTime}]
    BY <1>4 DEF TypeOK, Renew, EndTick
  <2>4. \A m \in Node : /\ pc'[m] \in {"elect"} \cup Scanning => now'[m] \in Nat
                        /\ pc'[m] \in Scanning => leader'[m]
                        /\ pc'[m] = "backfill" => loaded'[m] \in Rows
    BY <1>4 DEF TypeOK, Renew, Goto, EndTick, Scanning
  <2> QED
    BY <1>4, <2>1, <2>2, <2>3, <2>4, <2>5 DEF TypeOK, Renew
<1>5. ASSUME NEW n \in Node, Acquire(n) PROVE TypeOK'
  <2>1. lock' \in [owner : Node \cup {Nobody}, until : Int]
    BY <1>5, SchedulerAssumption DEF TypeOK, Acquire
  <2>2. leader' \in [Node -> BOOLEAN] /\ dirty' \in [Node -> BOOLEAN]
    BY <1>5 DEF TypeOK, Acquire
  <2>3. /\ pc' \in [Node -> {"down", "idle", "elect"} \cup Scanning]
        /\ now' \in [Node -> Nat \cup {NoTime}]
    <3>1. /\ pc' = [pc EXCEPT ![n] = "scan"] \/ pc' = [pc EXCEPT ![n] = "idle"]
          /\ now' = now \/ now' = [now EXCEPT ![n] = NoTime]
      BY <1>5 DEF Acquire, Goto, EndTick
    <3>2. /\ pc \in [Node -> {"down", "idle", "elect"} \cup Scanning]
          /\ now \in [Node -> Nat \cup {NoTime}]
      BY DEF TypeOK
    <3> QED
      BY <3>1, <3>2 DEF Scanning
  <2>4. \A m \in Node : /\ pc'[m] \in {"elect"} \cup Scanning => now'[m] \in Nat
                        /\ pc'[m] \in Scanning => leader'[m]
                        /\ pc'[m] = "backfill" => loaded'[m] \in Rows
    BY <1>5 DEF TypeOK, Acquire, Goto, EndTick, Scanning
  <2> QED
    BY <1>5, <2>1, <2>2, <2>3, <2>4 DEF TypeOK, Acquire
<1>6. ASSUME NEW n \in Node, Reload(n) PROVE TypeOK'
  BY <1>6 DEF TypeOK, Reload, Goto, Scanning, Ready
<1>7. ASSUME NEW n \in Node, KeepCache(n) PROVE TypeOK'
  BY <1>7 DEF TypeOK, KeepCache, Goto, Scanning
<1>8. ASSUME NEW n \in Node, Backfill(n) PROVE TypeOK'
  <2> DEFINE next == ComputeNext(loaded[n].trig, now[n])
  <2>1. loaded[n] \in Rows /\ now[n] \in Nat
    BY <1>8 DEF Backfill, TypeOK, Scanning
  <2>2. next \in Nat
    BY <2>1, <1>8, NextTyped DEF Backfill
  <2>3. [row EXCEPT !.next = next] \in Rows /\ [loaded[n] EXCEPT !.next = next] \in Rows
    BY <2>1, <2>2 DEF Rows, TypeOK
  <2> HIDE DEF next
  <2>4. row' \in Rows /\ loaded' \in [Node -> Rows \cup {NoRow}]
    BY <1>8, <2>3 DEF Backfill, TypeOK, next
  <2> QED
    BY <1>8, <2>4 DEF TypeOK, Backfill, Goto, Scanning
<1>9. ASSUME NEW n \in Node, Exhaust(n) PROVE TypeOK'
  <2>1. row' \in Rows
    BY <1>9 DEF Exhaust, Rows, TypeOK
  <2> QED
    BY <1>9, <2>1 DEF TypeOK, Exhaust, Goto, Scanning
<1>10. ASSUME NEW n \in Node, Reread(n) PROVE TypeOK'
  BY <1>10 DEF TypeOK, Reread, Assign, Goto, Scanning
<1>24. ASSUME NEW n \in Node, Assign(n) PROVE TypeOK'
  BY <1>24 DEF TypeOK, Assign, Goto, Scanning
<1>11. ASSUME NEW n \in Node, NothingToDispatch(n) PROVE TypeOK'
  BY <1>11 DEF TypeOK, NothingToDispatch, Goto, EndTick, Scanning
<1>12. ASSUME NEW n \in Node, Claim(n) PROVE TypeOK'
  <2> DEFINE next == ComputeNext(cache[n].trig, now[n])
  <2>1. cache[n] \in Rows /\ now[n] \in Nat
    BY <1>12 DEF Claim, IsDue, TypeOK, Scanning
  <2>2. next \in Nat \cup {NoTime}
    BY <2>1, NextTyped
  <2>3. /\ [row EXCEPT !.next = next, !.runs = @ + 1] \in Rows
        /\ [cache[n] EXCEPT !.next = next] \in Rows
    BY <2>1, <2>2, RowNextUpdate DEF TypeOK
  <2> HIDE DEF next
  <2>4. row' \in Rows /\ cache' \in [Node -> Rows \cup {NoRow}]
    BY <1>12, <2>3 DEF Claim, TypeOK, next
  <2>5. [at |-> cache[n].next, by |-> n, st |-> Outcome(n),
         kind |-> cache[n].trig.kind] \in Claims
    <3>1. cache[n].trig \in TriggerOf(Nat)
      BY <2>1, TriggersTyped DEF Rows, AllTriggers
    <3>2. cache[n].next \in Nat
      BY <2>1, <1>12 DEF Claim, IsDue, Rows
    <3> QED
      BY <3>1, <3>2 DEF Outcome, Claims, TriggerOf
  <2>6. claims' \in Seq(Claims)
    BY <1>12, <2>5 DEF Claim, TypeOK
  <2> QED
    <3>1. /\ pc' \in [Node -> {"down", "idle", "elect"} \cup Scanning]
          /\ now' \in [Node -> Nat \cup {NoTime}]
      BY <1>12 DEF TypeOK, Claim, Goto, EndTick, Scanning
    <3>2. \A m \in Node : /\ pc'[m] \in {"elect"} \cup Scanning => now'[m] \in Nat
                          /\ pc'[m] \in Scanning => leader'[m]
                          /\ pc'[m] = "backfill" => loaded'[m] \in Rows
      BY <1>12 DEF TypeOK, Claim, Goto, EndTick, Scanning
    <3> QED
      BY <1>12, <2>4, <2>6, <3>1, <3>2 DEF TypeOK, Claim
<1>13. ASSUME NEW n \in Node, ClaimFails(n) PROVE TypeOK'
  BY <1>13 DEF TypeOK, ClaimFails, Goto, Scanning
<1>14. ASSUME NEW n \in Node, Refresh(n) PROVE TypeOK'
  BY <1>14 DEF TypeOK, Refresh, Goto, EndTick, Scanning
<1>15. ASSUME NEW i \in 1..Len(claims), NEW st \in {"running", "done", "lost"},
              claims' = [claims EXCEPT ![i].st = st]
       PROVE  claims' \in Seq(Claims)
  <2>1. [claims[i] EXCEPT !.st = st] \in Claims
    BY ClaimAt, ClaimUpdate
  <2> QED
    BY <1>15, <2>1 DEF TypeOK
<1>16. ASSUME NEW n \in Node, Launch(n) PROVE TypeOK'
  <2>1. claims' \in Seq(Claims)
    BY <1>16, <1>15 DEF Launch
  <2> QED
    BY <1>16, <2>1 DEF TypeOK, Launch, Goto, EndTick, Scanning
<1>17. ASSUME NEW status \in {"Completed", "Panic"}, LeaveReady(status) PROVE row' \in Rows
  BY <1>17 DEF LeaveReady, Rows, TypeOK
<1>18. ASSUME NEW n \in Node, FireEnds(n) PROVE TypeOK'
  <2>1. claims' \in Seq(Claims)
    BY <1>18, <1>15 DEF FireEnds, FireSucceeds, FireEndsWithoutEffect, FirePanics, Finished, RunningOf
  <2>2. row' \in Rows
    BY <1>18, <1>17 DEF FireEnds, FireSucceeds, FireEndsWithoutEffect, FirePanics, TypeOK
  <2>3. UNCHANGED <<clock, lock, tickVars, admin>>
    BY <1>18 DEF FireEnds, FireSucceeds, FireEndsWithoutEffect, FirePanics
  <2> QED
    BY <2>1, <2>2, <2>3 DEF TypeOK, tickVars
<1>19. ASSUME NEW n \in Node, Crash(n) PROVE TypeOK'
  <2>1. claims' \in Seq(Claims)
    BY <1>19, LosingTyped DEF Crash
  <2>2. admin' \in [Admin -> Requests]
    BY <1>19 DEF Crash, TypeOK, IdleRequest, Requests
  <2>3. \A a \in Admin : admin'[a].pc # "idle" => admin'[a].at \in Node /\ admin'[a].snap \in Rows
    BY <1>19 DEF Crash, TypeOK, IdleRequest
  <2> QED
    BY <1>19, <2>1, <2>2, <2>3 DEF TypeOK, Crash, Scanning
<1>20. ASSUME NEW n \in Node, Restart(n) PROVE TypeOK'
  BY <1>20 DEF TypeOK, Restart, Goto, Scanning
<1>21. ASSUME NEW a \in Admin, Request(a) PROVE TypeOK'
  BY <1>21, RequestTyped
<1>22. ASSUME NEW n \in Node, TickFails(n) PROVE TypeOK'
  <2>1. claims' \in Seq(Claims)
    BY <1>22, LosingTyped DEF TickFails
  <2> QED
    BY <1>22, <2>1 DEF TypeOK, TickFails, Goto, EndTick, Scanning
<1>23. ASSUME NEW n \in Node, ReloadFails(n) PROVE TypeOK'
  BY <1>23 DEF TypeOK, ReloadFails, Goto, EndTick, Scanning
<1> QED
  BY <1>1, <1>2, <1>3, <1>4, <1>5, <1>6, <1>7, <1>8, <1>9, <1>10, <1>11, <1>12, <1>13,
     <1>14, <1>16, <1>18, <1>19, <1>20, <1>21, <1>22, <1>23, <1>24 DEF Next, Tick

\* Every reachable state is well typed: TypeOK of the runs, for every number of
\* replicas, clocks, administrators and triggers.
THEOREM TypeCorrect == Spec => []TypeOK
<1>1. Init => TypeOK
  BY InitTyped
<1>2. TypeOK /\ [Next]_vars => TypeOK'
  BY StepTyped
<1> QED
  BY <1>1, <1>2, PTL DEF Spec

(***************************************************************************)
(* At most one claim per occurrence.                                       *)
(*                                                                         *)
(* A trigger is endless when it never runs out of instants; a cron         *)
(* expression without EndTime and an interval are.  For these the row is   *)
(* never left Ready and disarmed after a claim, so the only writer that    *)
(* does not compare NextRunTime with what it read, Backfill, has nothing   *)
(* to write.                                                               *)
(***************************************************************************)
Endless ==
    \A t \in AllTriggers : \A i \in Nat : ComputeNext(t, i) # NoTime

\* Claims are made in increasing order of their occurrences.
ClaimsIncrease ==
    \A i, j \in 1..Len(claims) : i < j => claims[i].at < claims[j].at

\* Only a row that has never been claimed is Ready without NextRunTime.
DisarmedIsUnclaimed == Ready /\ row.next = NoTime => Len(claims) = 0

ClaimInv ==
    /\ TypeOK
    /\ ClaimsIncrease
    /\ NextIsFresh
    /\ DisarmedIsUnclaimed

LEMMA InitClaimInv == Init => ClaimInv
<1> SUFFICES ASSUME Init PROVE ClaimInv
  OBVIOUS
<1>1. Len(claims) = 0
  BY DEF Init
<1> QED
  BY <1>1, InitTyped DEF ClaimInv, ClaimsIncrease, NextIsFresh, DisarmedIsUnclaimed

LEMMA ClaimInvIsAtMostOnce == ClaimInv => AtMostOnce
<1> SUFFICES ASSUME ClaimInv, NEW i \in 1..Len(claims), NEW j \in 1..Len(claims),
                    claims[i].at = claims[j].at
             PROVE  i = j
  BY DEF AtMostOnce
<1>1. claims[i].at \in Nat
  BY ClaimAt DEF ClaimInv, Claims
<1>2. ~(i < j) /\ ~(j < i)
  BY <1>1 DEF ClaimInv, ClaimsIncrease
<1> QED
  BY <1>2 DEF ClaimInv, TypeOK

\* A step that claims nothing and leaves a Ready row as it was, or not Ready.
LEMMA QuietStep ==
    ASSUME ClaimInv, TypeOK',
           Len(claims') = Len(claims),
           \A i \in 1..Len(claims) : claims'[i].at = claims[i].at,
           Ready' => Ready /\ row'.next = row.next
    PROVE  ClaimInv'
<1>1. ClaimsIncrease'
  BY DEF ClaimInv, ClaimsIncrease
<1>2. NextIsFresh'
  BY DEF ClaimInv, NextIsFresh
<1>3. DisarmedIsUnclaimed'
  BY DEF ClaimInv, DisarmedIsUnclaimed
<1> QED
  BY <1>1, <1>2, <1>3 DEF ClaimInv

\* Backfill arms a row that has never been claimed.
LEMMA BackfillOnce ==
    ASSUME ClaimInv, TypeOK', NEW n \in Node, Backfill(n)
    PROVE  ClaimInv'
<1>1. CASE StillUnarmed
  <2>1. Len(claims) = 0 /\ claims' = claims
    BY <1>1 DEF ClaimInv, DisarmedIsUnclaimed, StillUnarmed, Backfill
  <2>2. row'.next # NoTime
    BY <1>1 DEF Backfill, ClaimInv, TypeOK, Rows
  <2> QED
    BY <2>1, <2>2 DEF ClaimInv, ClaimsIncrease, NextIsFresh, DisarmedIsUnclaimed
<1>2. CASE ~StillUnarmed
  BY <1>2, QuietStep DEF Backfill, Ready
<1> QED
  BY <1>1, <1>2

\* A claim takes an occurrence later than all before it, and moves the row
\* beyond the tick's instant, which is at or after that occurrence.
LEMMA ClaimOnce ==
    ASSUME ClaimInv, Endless, TypeOK', NEW n \in Node, Claim(n)
    PROVE  ClaimInv'
<1> DEFINE expected == cache[n].next
<1> DEFINE next == ComputeNext(cache[n].trig, now[n])
<1> DEFINE L == Len(claims)
<1>1. cache[n] \in Rows /\ now[n] \in Nat /\ claims \in Seq(Claims) /\ row \in Rows
  BY DEF ClaimInv, TypeOK, Claim, IsDue, Scanning
<1>2. expected \in Nat /\ expected <= now[n] /\ row.next = expected /\ Ready
  BY <1>1 DEF Claim, IsDue, ClaimMatches, Rows
<1>3. next \in Nat /\ next > now[n]
  <2>1. cache[n].trig \in AllTriggers
    BY <1>1 DEF Rows, AllTriggers
  <2> QED
    BY <2>1, <1>1, NextTyped DEF Endless
<1>4. \A i \in 1..L : claims[i].at < expected
  BY <1>2 DEF ClaimInv, NextIsFresh, NoTime
<1>5. /\ Len(claims') = L + 1
      /\ \A i \in 1..L : claims'[i].at = claims[i].at
      /\ claims'[L + 1].at = expected
  BY <1>1 DEF Claim
<1>6. row'.next = next
  BY <1>1 DEF Claim, Rows
<1>7. L \in Nat /\ \A i \in 1..L : claims[i].at \in Nat
  BY <1>1, ClaimAt DEF ClaimInv, Claims
<1> HIDE DEF expected, next, L
<1>8. ClaimsIncrease'
  <2> SUFFICES ASSUME NEW i \in 1..(L + 1), NEW j \in 1..(L + 1), i < j
               PROVE  claims'[i].at < claims'[j].at
    BY <1>5 DEF ClaimsIncrease
  <2>1. CASE j = L + 1
    BY <2>1, <1>4, <1>5, <1>7
  <2>2. CASE j # L + 1
    <3>1. i \in 1..L /\ j \in 1..L
      BY <2>2, <1>7
    <3> QED
      BY <3>1, <1>5 DEF ClaimInv, ClaimsIncrease, L
  <2> QED
    BY <2>1, <2>2
<1>9. NextIsFresh'
  <2> SUFFICES ASSUME NEW i \in 1..(L + 1) PROVE claims'[i].at < next
    BY <1>5, <1>6 DEF NextIsFresh
  <2>1. CASE i = L + 1
    BY <2>1, <1>1, <1>2, <1>3, <1>5
  <2>2. CASE i # L + 1
    <3>1. i \in 1..L
      BY <2>2, <1>7
    <3>2. claims'[i].at = claims[i].at /\ claims[i].at < expected /\ claims[i].at \in Nat
      BY <3>1, <1>4, <1>5, <1>7
    <3> QED
      BY <3>2, <1>1, <1>2, <1>3
  <2> QED
    BY <2>1, <2>2
<1>10. DisarmedIsUnclaimed'
  BY <1>3, <1>6 DEF DisarmedIsUnclaimed, NoTime
<1> QED
  BY <1>8, <1>9, <1>10 DEF ClaimInv

\* All that is not an administrative request.
LEMMA SchedulerStepOnce ==
    ASSUME Endless, ClaimInv, [Next]_vars, ~(\E a \in Admin : Request(a))
    PROVE  ClaimInv'
<1>1. TypeOK'
  BY StepTyped DEF ClaimInv
<1>3. claims \in Seq(Claims) /\ row \in Rows
  BY DEF ClaimInv, TypeOK
<1>4. CASE UNCHANGED <<row, claims>>
  BY <1>1, <1>4, QuietStep DEF Ready
<1>5. ASSUME NEW n \in Node, Tick(n) PROVE ClaimInv'
  <2>1. CASE Backfill(n)
    BY <2>1, <1>1, BackfillOnce
  <2>2. CASE Claim(n)
    BY <2>2, <1>1, ClaimOnce
  <2>3. CASE Exhaust(n)
    <3>1. Ready' => Ready /\ row'.next = row.next
      BY <2>3, <1>3 DEF Exhaust, Ready, Rows, StillUnarmed
    <3> QED
      BY <2>3, <3>1, <1>1, QuietStep DEF Exhaust
  <2>4. CASE Launch(n)
    <3>1. /\ Len(claims') = Len(claims)
          /\ \A i \in 1..Len(claims) : claims'[i].at = claims[i].at
      BY <2>4, <1>3, ClaimAt DEF Launch, Claims, ClaimInv
    <3> QED
      BY <2>4, <3>1, <1>1, QuietStep DEF Launch, Ready
  <2> QED
    BY <1>5, <1>4, <2>1, <2>2, <2>3, <2>4 DEF Tick, TickStart, Renew, Acquire, Reload, KeepCache,
       Reread, Assign, NothingToDispatch, ClaimFails, Refresh
<1>6. ASSUME NEW n \in Node, FireEnds(n) PROVE ClaimInv'
  <2>1. PICK i \in 1..Len(claims) : Finished(i)
    BY <1>6 DEF FireEnds, FireSucceeds, FireEndsWithoutEffect, FirePanics, RunningOf
  <2>2. /\ Len(claims') = Len(claims)
        /\ \A j \in 1..Len(claims) : claims'[j].at = claims[j].at
    BY <2>1, <1>3, ClaimAt DEF Finished, Claims, ClaimInv
  <2>3. Ready' => Ready /\ row'.next = row.next
    BY <1>6, <1>3 DEF FireEnds, FireSucceeds, FireEndsWithoutEffect, FirePanics, LeaveReady, Ready, Rows
  <2> QED
    BY <2>2, <2>3, <1>1, QuietStep
<1>7. ASSUME NEW n \in Node, Crash(n) \/ TickFails(n) PROVE ClaimInv'
  <2>1. /\ Len(claims') = Len(claims)
        /\ \A i \in 1..Len(claims) : claims'[i].at = claims[i].at
    BY <1>7, LosingTyped DEF Crash, TickFails, ClaimInv
  <2>2. UNCHANGED row
    BY <1>7 DEF Crash, TickFails
  <2> QED
    BY <2>1, <2>2, <1>1, QuietStep DEF Ready
<1> QED
  BY <1>4, <1>5, <1>6, <1>7 DEF Next, vars, ClockTick, Restart, ReloadFails

(***************************************************************************)
(* Nobody arms the row but the scheduler.  The clocks may be whatever they *)
(* are: only requests that set NextRunTime from the clock of the           *)
(* administrator's own replica are excluded.                               *)
(***************************************************************************)
NoRearming == AdminOps \cap {"update", "enable", "enableReady"} = {}

\* Requests in progress are of the kinds NoRearming leaves.
RequestsDoNotArm ==
    \A a \in Admin :
        /\ admin[a].pc \in {"idle", "store", "delete", "undelete", "park", "publish"}
        /\ ~Enabling(a)

OnceInv == ClaimInv /\ RequestsDoNotArm

LEMMA InitOnce == Init => OnceInv
<1>1. Init => RequestsDoNotArm
  BY DEF Init, IdleRequest, RequestsDoNotArm, Enabling
<1> QED
  BY <1>1, InitClaimInv DEF OnceInv

LEMMA RequestsStep ==
    ASSUME NoRearming, OnceInv, [Next]_vars
    PROVE  RequestsDoNotArm'
<1> DEFINE Harmless(r) == /\ r.pc \in {"idle", "store", "delete", "undelete", "park", "publish"}
                         /\ r.op \notin {"enable", "enableReady"}
<1>1. \A a \in Admin : Harmless(admin[a])
  BY DEF OnceInv, RequestsDoNotArm, Enabling
<1>2. Harmless(IdleRequest)
  BY DEF IdleRequest
<1>3. SUFFICES \A a \in Admin : Harmless(admin'[a])
  BY DEF RequestsDoNotArm, Enabling
<1>4. admin \in [Admin -> Requests]
  BY DEF OnceInv, ClaimInv, TypeOK
<1>5. CASE UNCHANGED admin
  BY <1>5, <1>1
<1>6. ASSUME NEW n \in Node, Crash(n) PROVE \A a \in Admin : Harmless(admin'[a])
  BY <1>6, <1>1, <1>2 DEF Crash
<1>7. ASSUME NEW a \in Admin, Request(a) PROVE \A b \in Admin : Harmless(admin'[b])
  <2>1. SUFFICES /\ Harmless(admin'[a])
                 /\ \A b \in Admin \ {a} : admin'[b] = admin[b]
    BY <1>1
  <2>2. CASE AdminRead(a)
    <3>1. PICK op \in AdminOps, n \in Node :
             admin' = [admin EXCEPT ![a] = [pc |-> FirstStep[op], op |-> op, at |-> n,
                                            snap |-> row, next |-> NoTime]]
      BY <2>2 DEF AdminRead
    <3>2. op \in {"pause", "delete", "restore"}
      BY SchedulerAssumption DEF NoRearming
    <3>3. FirstStep[op] \in {"store", "delete", "undelete"}
      BY <3>2 DEF FirstStep
    <3> QED
      BY <3>1, <3>2, <3>3, <1>4
  <2>3. CASE AdminGoto(a, "publish") \/ AdminGoto(a, "park")
    BY <2>3, <1>1, <1>4 DEF AdminGoto, Requests
  <2>4. CASE AdminDone(a)
    BY <2>4, <1>2, <1>4 DEF AdminDone
  <2>5. ~UpdateWrite(a) /\ ~AdminCompute(a) /\ ~UpdateCas(a) /\ ~UpdateFinish(a)
    BY <1>1 DEF UpdateWrite, AdminCompute, UpdateCas, UpdateFinish
  <2> QED
    BY <1>7, <2>2, <2>3, <2>4, <2>5 DEF Request, SetEnabled, Delete, Undelete, Park, Publish
<1>8. ASSUME NEW n \in Node,
             Tick(n) \/ FireEnds(n) \/ TickFails(n) \/ ReloadFails(n) \/ Restart(n)
      PROVE  UNCHANGED admin
  BY <1>8 DEF Tick, TickStart, Renew, Acquire, Reload, KeepCache, Backfill, Exhaust, Reread, Assign,
     NothingToDispatch, Claim, ClaimFails, Refresh, Launch, FireEnds, FireSucceeds,
     FireEndsWithoutEffect, FirePanics, TickFails, ReloadFails, Restart
<1> QED
  BY <1>5, <1>6, <1>7, <1>8 DEF Next, vars, ClockTick

LEMMA StepOnce ==
    ASSUME NoRearming, Endless, OnceInv, [Next]_vars
    PROVE  OnceInv'
<1>1. TypeOK' /\ RequestsDoNotArm'
  BY StepTyped, RequestsStep DEF OnceInv, ClaimInv
<1>2. row \in Rows /\ ClaimInv
  BY DEF OnceInv, ClaimInv, TypeOK
<1>3. ASSUME NEW a \in Admin, Request(a) PROVE ClaimInv'
  <2>1. /\ admin[a].pc \in {"idle", "store", "delete", "undelete", "park", "publish"}
        /\ ~Enabling(a)
        /\ admin[a].pc # "idle" => admin[a].snap \in Rows
    BY DEF OnceInv, ClaimInv, RequestsDoNotArm, TypeOK
  <2>2. UNCHANGED claims
    BY <1>3 DEF Request, AdminRead, UpdateWrite, AdminCompute, UpdateCas, UpdateFinish, SetEnabled,
       Delete, Undelete, Park, Publish, tickVars
  <2>3. Ready' => Ready /\ row'.next = row.next
    BY <1>3, <2>1, <1>2 DEF Request, AdminRead, UpdateWrite, AdminCompute, UpdateCas, UpdateFinish,
       SetEnabled, Delete, Undelete, Park, Publish, Ready, Rows
  <2> QED
    BY <2>2, <2>3, <1>1, <1>2, QuietStep
<1> QED
  BY <1>1, <1>2, <1>3, SchedulerStepOnce DEF OnceInv

\* An occurrence is claimed at most once (AtMostOnce of the runs), by however
\* many replicas, with whatever clocks, stalls and deaths.
THEOREM ClaimedAtMostOnce ==
    ASSUME Endless, NoRearming
    PROVE  Spec => []AtMostOnce
<1>1. Init => OnceInv
  BY InitOnce
<1>2. OnceInv /\ [Next]_vars => OnceInv'
  BY StepOnce
<1>3. OnceInv => AtMostOnce
  BY ClaimInvIsAtMostOnce DEF OnceInv
<1> QED
  BY <1>1, <1>2, <1>3, PTL DEF Spec

\* And every NextRunTime is later than all that was claimed, whatever the
\* clocks of the replicas that write it.
THEOREM ArmedIsFresh ==
    ASSUME Endless, NoRearming
    PROVE  Spec => []NextIsFresh
<1>1. Init => OnceInv
  BY InitOnce
<1>2. OnceInv /\ [Next]_vars => OnceInv'
  BY StepOnce
<1>3. OnceInv => NextIsFresh
  BY DEF OnceInv, ClaimInv
<1> QED
  BY <1>1, <1>2, <1>3, PTL DEF Spec

(***************************************************************************)
(* The lease.  A replica past its heartbeat took or renewed the lease at   *)
(* the instant it captured, and that instant was not ahead of its clock.   *)
(***************************************************************************)
NowIsPast == \A n \in Node : pc[n] \in {"elect"} \cup Scanning => now[n] <= Local(n)

LeaseOutlives(n) == \A m \in Node : Local(m) <= now[n] + LeaseSeconds

LeaseIsHeld ==
    \A n \in Node :
        pc[n] \in Scanning /\ LeaseOutlives(n)
        => lock.owner = n /\ lock.until >= now[n] + LeaseSeconds

LeaseInv == TypeOK /\ NowIsPast /\ LeaseIsHeld

\* The steps that touch neither the lease nor the start of a tick.
LEMMA LeaseUntouched ==
    ASSUME LeaseInv, NEW k, lock' = lock, clock' = clock,
           \A n \in Node : n # k => pc'[n] = pc[n] /\ now'[n] = now[n],
           k \in Node => \/ pc'[k] \notin {"elect"} \cup Scanning
                         \/ now'[k] = now[k] /\ pc[k] \in Scanning
    PROVE  NowIsPast' /\ LeaseIsHeld'
<1>1. ASSUME NEW n \in Node, pc'[n] \in {"elect"} \cup Scanning
      PROVE  /\ pc[n] \in {"elect"} \cup Scanning /\ now'[n] = now[n]
             /\ pc'[n] \in Scanning => pc[n] \in Scanning
  BY <1>1
<1>2. NowIsPast'
  BY <1>1 DEF LeaseInv, NowIsPast, Local
<1>3. LeaseIsHeld'
  <2> SUFFICES ASSUME NEW n \in Node, pc'[n] \in Scanning,
                      \A m \in Node : clock' + Skew[m] <= now'[n] + LeaseSeconds
               PROVE  lock'.owner = n /\ lock'.until >= now'[n] + LeaseSeconds
    BY DEF LeaseIsHeld, LeaseOutlives, Local
  <2>1. pc[n] \in Scanning /\ now'[n] = now[n]
    BY <1>1
  <2> QED
    BY <2>1 DEF LeaseInv, LeaseIsHeld, LeaseOutlives, Local
<1> QED
  BY <1>2, <1>3

\* A replica takes or renews the lease: nobody else's is still running.
LEMMA LeaseTaken ==
    ASSUME LeaseInv, NEW n \in Node, pc[n] = "elect", clock' = clock, now' = now,
           lock.owner = n \/ lock.until < now[n],
           lock'.owner = n, lock'.until = now[n] + LeaseSeconds,
           pc' = [pc EXCEPT ![n] = "scan"]
    PROVE  NowIsPast' /\ LeaseIsHeld'
<1>1. pc \in [Node -> {"down", "idle", "elect"} \cup Scanning] /\ now[n] \in Nat /\ lock.until \in Int
  BY DEF LeaseInv, TypeOK
<1>2. \A m \in Node : m # n => pc'[m] = pc[m]
  BY <1>1
<1>3. NowIsPast'
  BY <1>2 DEF LeaseInv, NowIsPast, Local
<1>4. LeaseIsHeld'
  <2> SUFFICES ASSUME NEW m \in Node, pc'[m] \in Scanning,
                      \A x \in Node : Local(x) <= now[m] + LeaseSeconds
               PROVE  lock'.owner = m /\ lock'.until >= now[m] + LeaseSeconds
    BY DEF LeaseIsHeld, LeaseOutlives, Local
  <2>1. CASE m = n
    BY <1>1, <2>1, SchedulerAssumption
  <2>2. CASE m # n
    <3>1. lock.owner = m /\ lock.until >= now[m] + LeaseSeconds
      BY <1>2, <2>2 DEF LeaseInv, LeaseIsHeld, LeaseOutlives
    <3>2. now[n] <= Local(n) /\ Local(n) <= now[m] + LeaseSeconds
      BY DEF LeaseInv, NowIsPast
    <3>3. now[m] \in Nat /\ clock \in Nat
      BY <1>2, <2>2 DEF LeaseInv, TypeOK
    <3>4. Local(n) \in Int /\ LeaseSeconds \in Nat
      BY <3>3, SchedulerAssumption DEF Local
    <3> QED
      BY <1>1, <2>2, <3>1, <3>2, <3>3, <3>4
  <2> QED
    BY <2>1, <2>2
<1> QED
  BY <1>3, <1>4

LEMMA LeaseStep ==
    ASSUME LeaseInv, [Next]_vars
    PROVE  LeaseInv'
<1>1. TypeOK /\ TypeOK'
  BY StepTyped DEF LeaseInv
<1>2. pc \in [Node -> {"down", "idle", "elect"} \cup Scanning] /\ now \in [Node -> Nat \cup {NoTime}]
  BY DEF LeaseInv, TypeOK
<1> SUFFICES NowIsPast' /\ LeaseIsHeld'
  BY <1>1 DEF LeaseInv
<1>3. CASE UNCHANGED <<clock, lock, pc, now>>
  BY <1>3 DEF LeaseInv, NowIsPast, LeaseIsHeld, LeaseOutlives, Local
<1>4. CASE ClockTick
  <2>1. clock' = clock + 1 /\ clock \in Nat /\ UNCHANGED <<lock, pc, now>>
    BY <1>1, <1>4 DEF ClockTick, tickVars, TypeOK
  <2>2. \A n \in Node : Skew[n] \in Nat
    BY SchedulerAssumption
  <2>3. NowIsPast'
    <3> SUFFICES ASSUME NEW n \in Node, pc[n] \in {"elect"} \cup Scanning
                 PROVE  now[n] <= clock + 1 + Skew[n]
      BY <2>1 DEF NowIsPast, Local
    <3>1. now[n] \in Nat /\ now[n] <= clock + Skew[n]
      BY <1>1 DEF TypeOK, LeaseInv, NowIsPast, Local
    <3> QED
      BY <2>1, <2>2, <3>1
  <2>4. LeaseIsHeld'
    <3> SUFFICES ASSUME NEW n \in Node, pc[n] \in Scanning,
                        \A m \in Node : clock + 1 + Skew[m] <= now[n] + LeaseSeconds
                 PROVE  lock.owner = n /\ lock.until >= now[n] + LeaseSeconds
      BY <2>1 DEF LeaseIsHeld, LeaseOutlives, Local
    <3>1. now[n] \in Nat /\ LeaseSeconds \in Nat
      BY <1>1, SchedulerAssumption DEF TypeOK
    <3>2. \A m \in Node : clock + Skew[m] <= now[n] + LeaseSeconds
      BY <2>1, <2>2, <3>1
    <3> QED
      BY <3>2 DEF LeaseInv, LeaseIsHeld, LeaseOutlives, Local
  <2> QED
    BY <2>3, <2>4
<1>5. ASSUME NEW n \in Node, TickStart(n) PROVE NowIsPast' /\ LeaseIsHeld'
  <2>1. /\ pc'[n] = "elect" /\ now'[n] = Local(n) /\ clock' = clock /\ lock' = lock
        /\ \A m \in Node : m # n => pc'[m] = pc[m] /\ now'[m] = now[m]
    BY <1>2, <1>5 DEF TickStart, Goto
  <2>2. Local(n) \in Nat /\ "elect" \notin Scanning
    BY <1>1, SchedulerAssumption DEF Local, TypeOK, Scanning
  <2>3. NowIsPast'
    BY <2>1, <2>2 DEF LeaseInv, NowIsPast, Local
  <2>4. LeaseIsHeld'
    BY <2>1, <2>2 DEF LeaseInv, LeaseIsHeld, LeaseOutlives, Local
  <2> QED
    BY <2>3, <2>4
<1>6. ASSUME NEW n \in Node, Renew(n) \/ Acquire(n) PROVE NowIsPast' /\ LeaseIsHeld'
  <2>1. clock' = clock /\ pc[n] = "elect"
    BY <1>6 DEF Renew, Acquire
  <2>2. CASE EndTick(n)
    <3>1. lock' = lock
      BY <1>6, <2>2, <1>2 DEF Renew, Acquire, EndTick, Goto
    <3>2. /\ pc'[n] = "idle"
          /\ \A m \in Node : m # n => pc'[m] = pc[m] /\ now'[m] = now[m]
      BY <1>2, <2>2 DEF EndTick, Goto
    <3>3. "idle" \notin {"elect"} \cup Scanning
      BY DEF Scanning
    <3> QED
      BY <2>1, <3>1, <3>2, <3>3, LeaseUntouched
  <2>3. CASE ~EndTick(n)
    <3>1. lock \in [owner : Node \cup {Nobody}, until : Int]
      BY <1>1 DEF TypeOK
    <3>2. /\ lock.owner = n \/ lock.until < now[n]
          /\ lock'.owner = n /\ lock'.until = now[n] + LeaseSeconds
          /\ now' = now /\ pc' = [pc EXCEPT ![n] = "scan"]
      BY <1>6, <2>3, <3>1 DEF Renew, Acquire, LeaseIsFree, Goto
    <3> QED
      BY <2>1, <3>2, LeaseTaken
  <2> QED
    BY <2>2, <2>3
<1>7. ASSUME NEW n \in Node,
             \/ Reload(n) \/ KeepCache(n) \/ Backfill(n) \/ Exhaust(n) \/ Reread(n) \/ Assign(n)
             \/ NothingToDispatch(n) \/ Claim(n) \/ ClaimFails(n) \/ Refresh(n) \/ Launch(n)
             \/ TickFails(n) \/ ReloadFails(n) \/ Crash(n) \/ Restart(n)
      PROVE  NowIsPast' /\ LeaseIsHeld'
  <2>1. lock' = lock /\ clock' = clock
    BY <1>7 DEF Reload, KeepCache, Backfill, Exhaust, Reread, Assign, NothingToDispatch, Claim, ClaimFails, Refresh,
           Launch, TickFails, ReloadFails, Crash, Restart
  <2>2. \A m \in Node : m # n => pc'[m] = pc[m] /\ now'[m] = now[m]
    BY <1>2, <1>7 DEF Reload, KeepCache, Backfill, Exhaust, Reread, Assign, NothingToDispatch, Claim, ClaimFails,
           Refresh, Launch, TickFails, ReloadFails, Crash, Restart, Goto, EndTick
  <2>3. \/ pc'[n] \in {"idle", "down"}
        \/ now' = now /\ pc[n] \in Scanning
    BY <1>2, <1>7 DEF Reload, KeepCache, Backfill, Exhaust, Reread, Assign, NothingToDispatch, Claim, ClaimFails,
           Refresh, Launch, TickFails, ReloadFails, Crash, Restart, Goto, EndTick, Scanning
  <2>4. "idle" \notin {"elect"} \cup Scanning /\ "down" \notin {"elect"} \cup Scanning
    BY DEF Scanning
  <2> QED
    BY <2>1, <2>2, <2>3, <2>4, LeaseUntouched
<1>8. ASSUME NEW a \in Admin, Request(a) PROVE UNCHANGED <<clock, lock, pc, now>>
  BY <1>8 DEF Request, AdminRead, UpdateWrite, AdminCompute, UpdateCas, UpdateFinish, SetEnabled, Delete,
         Undelete, Park, Publish, tickVars
<1>9. ASSUME NEW n \in Node, FireEnds(n) PROVE UNCHANGED <<clock, lock, pc, now>>
  BY <1>9 DEF FireEnds, FireSucceeds, FireEndsWithoutEffect, FirePanics, tickVars
<1> QED
  BY <1>3, <1>4, <1>5, <1>6, <1>7, <1>8, <1>9 DEF Next, Tick, vars

\* Two replicas are past their heartbeats at the same time only when one of
\* them has been stalled for longer than the lease: for any number of
\* replicas, any clocks, and whatever fails (HeartbeatAsync).
THEOREM LeaseIsExclusive == Spec => []LeaseExcludesOthers
<1>1. Init => LeaseInv
  <2>1. Init => NowIsPast /\ LeaseIsHeld
    BY DEF Init, NowIsPast, LeaseIsHeld, Scanning
  <2> QED
    BY <2>1, InitTyped DEF LeaseInv
<1>2. LeaseInv => LeaseExcludesOthers
  BY DEF LeaseInv, LeaseIsHeld, LeaseOutlives, LeaseExcludesOthers
<1> QED
  BY <1>1, <1>2, LeaseStep, PTL DEF Spec

(***************************************************************************)
(* The job row.                                                            *)
(***************************************************************************)
\* Who writes the row: nobody else changes it.
LEMMA RowWriters ==
    ASSUME [Next]_vars,
           ~(\E n \in Node : Backfill(n) \/ Exhaust(n) \/ Claim(n) \/ FireSucceeds(n) \/ FirePanics(n)),
           ~(\E a \in Admin : \/ UpdateWrite(a) \/ UpdateCas(a) \/ UpdateFinish(a) \/ SetEnabled(a)
                              \/ Delete(a) \/ Undelete(a) \/ Park(a))
    PROVE  UNCHANGED row
<1>1. ASSUME NEW n \in Node, Tick(n) PROVE UNCHANGED row
  BY <1>1 DEF Tick, TickStart, Renew, Acquire, Reload, KeepCache, Reread, Assign, NothingToDispatch, ClaimFails,
         Refresh, Launch
<1>2. ASSUME NEW n \in Node, FireEnds(n) \/ TickFails(n) \/ ReloadFails(n) \/ Crash(n) \/ Restart(n)
      PROVE  UNCHANGED row
  BY <1>2 DEF FireEnds, FireEndsWithoutEffect, TickFails, ReloadFails, Crash, Restart
<1>3. ASSUME NEW a \in Admin, Request(a) PROVE UNCHANGED row
  BY <1>3 DEF Request, AdminRead, AdminCompute, Publish
<1> QED
  BY <1>1, <1>2, <1>3 DEF Next, ClockTick, vars

\* A job that is stopped, by whatever writer in whatever interleaving, is not
\* armed (StoppedJobIsDisarmed of the runs): every writer either asks for a
\* Ready row or clears NextRunTime in the same statement.
THEOREM StoppedIsDisarmed == Spec => []StoppedJobIsDisarmed
<1>1. Init => StoppedJobIsDisarmed
  BY DEF Init, StoppedJobIsDisarmed
<1>2. ASSUME TypeOK, StoppedJobIsDisarmed, [Next]_vars
      PROVE  StoppedJobIsDisarmed'
  <2>1. row \in Rows
    BY <1>2 DEF TypeOK
  <2>2. CASE UNCHANGED row
    BY <1>2, <2>2 DEF StoppedJobIsDisarmed
  <2>3. ASSUME NEW n \in Node,
               Backfill(n) \/ Exhaust(n) \/ Claim(n) \/ FireSucceeds(n) \/ FirePanics(n)
        PROVE  StoppedJobIsDisarmed'
    BY <1>2, <2>1, <2>3 DEF StoppedJobIsDisarmed, Backfill, Exhaust, Claim, ClaimMatches, FireSucceeds,
           FirePanics, LeaveReady, StillUnarmed, Ready, Rows
  <2>4. ASSUME NEW a \in Admin, SetEnabled(a)
        PROVE  StoppedJobIsDisarmed'
    <3>1. admin[a].snap \in Rows
      BY <1>2, <2>4 DEF TypeOK, SetEnabled
    <3> QED
      BY <2>4, <3>1 DEF SetEnabled, Rows, StoppedJobIsDisarmed
  <2>5. ASSUME NEW a \in Admin,
               \/ UpdateWrite(a) \/ UpdateCas(a) \/ UpdateFinish(a)
               \/ Delete(a) \/ Undelete(a) \/ Park(a)
        PROVE  StoppedJobIsDisarmed'
    BY <1>2, <2>1, <2>5 DEF StoppedJobIsDisarmed, UpdateWrite, UpdateCas, UpdateFinish, Delete, Undelete,
           Park, StillUnarmed, Ready, Rows
  <2> QED
    BY <1>2, <2>2, <2>3, <2>4, <2>5, RowWriters
<1> QED
  BY <1>1, <1>2, TypeCorrect, PTL DEF Spec

\* Only SetEnabledAsync, which writes back every column it has read, can take
\* a claim out of NumberOfRuns (ClaimsAreNotUncounted of the runs).
THEOREM RunsAreCounted == Spec => ClaimsAreNotUncounted
<1>1. ASSUME TypeOK, [Next]_vars
      PROVE  [row'.runs < row.runs => \E a \in Admin : admin[a].pc = "store"]_vars
  <2>1. row \in Rows /\ row.runs \in Nat
    BY <1>1 DEF TypeOK, Rows
  <2>2. SUFFICES ASSUME ~(\E a \in Admin : admin[a].pc = "store")
                 PROVE  ~(row'.runs < row.runs)
    OBVIOUS
  <2>3. CASE UNCHANGED row
    BY <2>1, <2>3
  <2>4. ASSUME NEW n \in Node, Claim(n) PROVE ~(row'.runs < row.runs)
    <3>1. row'.runs = row.runs + 1
      BY <2>1, <2>4 DEF Claim, Rows
    <3> QED
      BY <2>1, <3>1
  <2>5. ASSUME NEW n \in Node, Backfill(n) \/ Exhaust(n) \/ FireSucceeds(n) \/ FirePanics(n)
        PROVE  row'.runs = row.runs
    BY <2>1, <2>5 DEF Backfill, Exhaust, FireSucceeds, FirePanics, LeaveReady, Rows
  <2>6. ASSUME NEW a \in Admin,
               \/ UpdateWrite(a) \/ UpdateCas(a) \/ UpdateFinish(a)
               \/ Delete(a) \/ Undelete(a) \/ Park(a)
        PROVE  row'.runs = row.runs
    BY <2>1, <2>6 DEF UpdateWrite, UpdateCas, UpdateFinish, Delete, Undelete, Park, Rows
  <2>7. ~(\E a \in Admin : SetEnabled(a))
    BY <2>2 DEF SetEnabled
  <2> QED
    BY <1>1, <2>1, <2>3, <2>4, <2>5, <2>6, <2>7, RowWriters
<1> QED
  BY <1>1, TypeCorrect, PTL DEF Spec, ClaimsAreNotUncounted

\* A deleted job comes back by a restore, or by a pause or an enable that read
\* it before it was deleted (DeletedStaysDeleted of the runs).
THEOREM DeletedIsKept == Spec => DeletedStaysDeleted
<1>1. ASSUME TypeOK, [Next]_vars
      PROVE  [row.deleted /\ ~row'.deleted
              => \E a \in Admin : admin[a].pc \in {"undelete", "store"}]_vars
  <2>1. row \in Rows
    BY <1>1 DEF TypeOK
  <2>2. SUFFICES ASSUME ~(\E a \in Admin : admin[a].pc \in {"undelete", "store"})
                 PROVE  row.deleted => row'.deleted
    OBVIOUS
  <2>3. ASSUME NEW n \in Node,
               Backfill(n) \/ Exhaust(n) \/ Claim(n) \/ FireSucceeds(n) \/ FirePanics(n)
        PROVE  row.deleted => row'.deleted
    BY <2>1, <2>3 DEF Backfill, Exhaust, Claim, FireSucceeds, FirePanics, LeaveReady, Rows
  <2>4. ASSUME NEW a \in Admin, UpdateWrite(a) \/ UpdateCas(a) \/ UpdateFinish(a) \/ Delete(a) \/ Park(a)
        PROVE  row.deleted => row'.deleted
    BY <2>1, <2>4 DEF UpdateWrite, UpdateCas, UpdateFinish, Delete, Park, Rows
  <2>5. ~(\E a \in Admin : SetEnabled(a) \/ Undelete(a))
    BY <2>2 DEF SetEnabled, Undelete
  <2> QED
    BY <1>1, <2>3, <2>4, <2>5, RowWriters
<1> QED
  BY <1>1, TypeCorrect, PTL DEF Spec, DeletedStaysDeleted

(***************************************************************************)
(* The abstract specification: one armed occurrence, handed out once.      *)
(***************************************************************************)
LEMMA InitHandsOut == Init => Occurrences!Init
<1> SUFFICES ASSUME Init PROVE Occurrences!Init
  OBVIOUS
<1>1. row \in Rows /\ Len(claims) = 0
  BY InitTyped DEF TypeOK, Init
<1> QED
  BY <1>1 DEF Occurrences!Init, Occurrences!NoOccurrence, Rows, NoTime

\* A claim is HandOut; every other step arms, re-arms or disarms.
LEMMA StepHandsOut ==
    ASSUME ClaimInv, ClaimInv', [Next]_vars
    PROVE  [Occurrences!Next]_Occurrences!vars
<1> DEFINE armed == IF Ready THEN row.next ELSE NoTime
           handed == {claims[i].at : i \in 1..Len(claims)}
<1> USE DEF NoTime
<1>1. row' \in Rows /\ claims \in Seq(Claims)
  BY DEF ClaimInv, TypeOK
<1>2. armed' \in Nat \cup {-1}
  BY <1>1 DEF Rows
<1>3. armed' # -1 => \A u \in handed' : armed' > u
  <2> SUFFICES ASSUME armed' # -1, NEW i \in 1..Len(claims') PROVE armed' > claims'[i].at
    OBVIOUS
  <2>1. Ready' /\ armed' = row'.next /\ row'.next # NoTime
    OBVIOUS
  <2>2. claims'[i].at < row'.next
    BY <2>1 DEF ClaimInv, NextIsFresh
  <2>3. claims'[i].at \in Nat /\ row'.next \in Nat
    <3>1. claims'[i] \in Claims
      BY DEF ClaimInv, TypeOK
    <3> QED
      BY <3>1, <1>1, <2>1 DEF Claims, Rows
  <2> QED
    BY <2>1, <2>2, <2>3
<1>4. ASSUME handed' = handed PROVE [Occurrences!Next]_Occurrences!vars
  BY <1>2, <1>3, <1>4 DEF Occurrences!Next, Occurrences!Arm, Occurrences!IsLater,
     Occurrences!NoOccurrence
<1>5. ASSUME Len(claims') = Len(claims), \A i \in 1..Len(claims) : claims'[i].at = claims[i].at
      PROVE  handed' = handed
  BY <1>5
<1>6. ASSUME NEW n \in Node, Claim(n) PROVE [Occurrences!Next]_Occurrences!vars
  <2>1. /\ cache[n].next # NoTime /\ row.next = cache[n].next /\ Ready
        /\ claims' = Append(claims, [at |-> cache[n].next, by |-> n, st |-> Outcome(n),
                                     kind |-> cache[n].trig.kind])
    BY <1>6 DEF Claim, IsDue, ClaimMatches
  <2>2. handed' = handed \cup {armed}
    <3>1. /\ Len(claims') = Len(claims) + 1 /\ Len(claims) \in Nat
          /\ claims'[Len(claims) + 1].at = cache[n].next
          /\ \A i \in 1..Len(claims) : claims'[i] = claims[i]
      BY <1>1, <2>1
    <3> QED
      BY <2>1, <3>1
  <2>3. armed # -1 /\ armed \notin handed
    <3>1. row.next \in Nat /\ \A i \in 1..Len(claims) : claims[i].at < row.next
      BY <2>1 DEF ClaimInv, TypeOK, Rows, NextIsFresh
    <3>2. \A i \in 1..Len(claims) : claims[i].at \in Nat
      BY ClaimAt DEF ClaimInv, Claims
    <3> QED
      BY <2>1, <3>1, <3>2
  <2> QED
    BY <1>2, <1>3, <2>2, <2>3 DEF Occurrences!Next, Occurrences!HandOut, Occurrences!IsLater,
       Occurrences!NoOccurrence
<1>7. ASSUME NEW n \in Node, Tick(n), ~Claim(n) PROVE handed' = handed
  <2>1. CASE Launch(n)
    <3>1. /\ Len(claims') = Len(claims)
          /\ \A i \in 1..Len(claims) : claims'[i].at = claims[i].at
      BY <2>1, <1>1, ClaimAt DEF Launch, Claims, ClaimInv
    <3> QED
      BY <3>1, <1>5
  <2>2. CASE ~Launch(n)
    BY <1>7, <2>2 DEF Tick, TickStart, Renew, Acquire, Reload, KeepCache, Backfill, Exhaust,
       Reread, Assign, NothingToDispatch, ClaimFails, Refresh
  <2> QED
    BY <2>1, <2>2
<1>8. ASSUME NEW n \in Node, FireEnds(n) \/ Crash(n) \/ TickFails(n) PROVE handed' = handed
  <2>1. /\ Len(claims') = Len(claims)
        /\ \A i \in 1..Len(claims) : claims'[i].at = claims[i].at
    <3>1. CASE Crash(n) \/ TickFails(n)
      BY <3>1, LosingTyped DEF Crash, TickFails, ClaimInv
    <3>2. CASE FireEnds(n)
      <4>1. PICK i \in 1..Len(claims) : Finished(i)
        BY <3>2 DEF FireEnds, FireSucceeds, FireEndsWithoutEffect, FirePanics, RunningOf
      <4> QED
        BY <4>1, <1>1, ClaimAt DEF Finished, Claims, ClaimInv
    <3> QED
      BY <1>8, <3>1, <3>2
  <2> QED
    BY <2>1, <1>5
<1>9. ASSUME NEW a \in Admin, Request(a) PROVE handed' = handed
  BY <1>9 DEF Request, AdminRead, UpdateWrite, AdminCompute, UpdateCas, UpdateFinish, SetEnabled,
     Delete, Undelete, Park, Publish, tickVars
<1>10. ASSUME NEW n \in Node, ReloadFails(n) \/ Restart(n) PROVE handed' = handed
  BY <1>10 DEF ReloadFails, Restart
<1>11. CASE ClockTick \/ UNCHANGED vars
  BY <1>4, <1>11 DEF ClockTick, vars
<1> QED
  BY <1>4, <1>6, <1>7, <1>8, <1>9, <1>10, <1>11 DEF Next

(***************************************************************************)
(* Administration.  An edit and an enable compute NextRunTime from the     *)
(* clock of their own replica, so they keep the promise when the clocks    *)
(* agree and one request is in progress at a time.  Enabling a job that is *)
(* Ready already overwrites what the scheduler does meanwhile and is       *)
(* excluded.                                                               *)
(***************************************************************************)
OneClock   == \A m, n \in Node : Skew[m] = Skew[n]
OneRequest == \A a, b \in Admin : a = b
Orderly    == OneClock /\ OneRequest /\ "enableReady" \notin AdminOps

ClaimsArePast == \A i \in 1..Len(claims), n \in Node : claims[i].at <= Local(n)

\* A request that has computed an instant did so when everything claimed so
\* far was past, and the row it compares with has only moved forward since.
RequestIsFresh(a) ==
    LET q == admin[a]
    IN  /\ q.op # "enableReady" /\ q.pc # "finish"
        /\ q.pc \in {"write", "cas"} => ~Enabling(a)
        /\ q.pc \in {"compute", "store"} /\ Enabling(a) => ~Ready
        /\ q.pc \in {"write", "compute", "cas"} /\ Ready => row.next >= q.snap.next
        /\ q.pc = "cas" \/ (q.pc = "store" /\ Enabling(a)) => q.next \in Nat
        /\ \/ q.pc = "cas" /\ Ready /\ row.next = q.snap.next
           \/ q.pc = "store" /\ Enabling(a)
           => \A i \in 1..Len(claims) : claims[i].at < q.next

RequestsAreFresh == \A a \in Admin : RequestIsFresh(a)

EditInv == ClaimInv /\ LeaseInv /\ ClaimsArePast /\ RequestsAreFresh

\* The scheduler moves the row forward, and claims only by moving it.
MovesForward ==
    /\ Ready' => Ready /\ (row'.next = row.next \/ row'.next > row.next)
    /\ \/ /\ Len(claims') = Len(claims)
          /\ \A i \in 1..Len(claims) : claims'[i].at = claims[i].at
       \/ Ready /\ (Ready' => row'.next > row.next)

LEMMA SchedulerMovesForward ==
    ASSUME Endless, ClaimInv, [Next]_vars, ~(\E a \in Admin : Request(a))
    PROVE  MovesForward
<1>1. claims \in Seq(Claims) /\ row \in Rows
  BY DEF ClaimInv, TypeOK
<1>2. CASE UNCHANGED <<row, claims>>
  BY <1>2 DEF MovesForward, Ready
<1>3. ASSUME NEW n \in Node, Tick(n) PROVE MovesForward
  <2>1. CASE Backfill(n)
    <3>1. CASE StillUnarmed
      <4>1. /\ row.next = -1 /\ claims' = claims /\ Ready
            /\ row'.next = ComputeNext(loaded[n].trig, now[n])
        BY <2>1, <3>1, <1>1 DEF Backfill, StillUnarmed, Rows, NoTime
      <4>2. row'.next \in Nat
        <5>1. loaded[n] \in Rows /\ now[n] \in Nat
          BY <2>1 DEF Backfill, ClaimInv, TypeOK, Scanning
        <5> QED
          BY <2>1, <4>1, <5>1, NextTyped DEF Backfill
      <4> QED
        BY <4>1, <4>2 DEF MovesForward
    <3>2. CASE ~StillUnarmed
      BY <2>1, <3>2, <1>2 DEF Backfill
    <3> QED
      BY <3>1, <3>2
  <2>2. CASE Claim(n)
    <3>1. cache[n] \in Rows /\ now[n] \in Nat
      BY <2>2 DEF ClaimInv, TypeOK, Claim, IsDue, Scanning
    <3>2. cache[n].next \in Nat /\ cache[n].next <= now[n] /\ row.next = cache[n].next /\ Ready
      BY <2>2, <3>1 DEF Claim, IsDue, ClaimMatches, Rows
    <3>3. row'.next = ComputeNext(cache[n].trig, now[n])
      BY <2>2, <1>1 DEF Claim, Rows
    <3>4. row'.next \in Nat /\ row'.next > now[n]
      <4>1. cache[n].trig \in AllTriggers
        BY <3>1 DEF Rows, AllTriggers
      <4> QED
        BY <3>1, <3>3, <4>1, NextTyped DEF Endless
    <3> QED
      BY <3>1, <3>2, <3>4 DEF MovesForward
  <2>3. CASE Exhaust(n)
    <3>1. loaded[n] \in Rows /\ now[n] \in Nat
      BY <2>3 DEF ClaimInv, TypeOK, Exhaust, Scanning
    <3>2. loaded[n].trig \in AllTriggers
      BY <3>1 DEF Rows, AllTriggers
    <3> QED
      BY <2>3, <3>1, <3>2 DEF Exhaust, Endless
  <2>4. CASE Launch(n)
    <3>1. /\ Len(claims') = Len(claims)
          /\ \A i \in 1..Len(claims) : claims'[i].at = claims[i].at
      BY <2>4, <1>1, ClaimAt DEF Launch, Claims, ClaimInv
    <3> QED
      BY <2>4, <3>1 DEF Launch, MovesForward, Ready
  <2> QED
    BY <1>2, <1>3, <2>1, <2>2, <2>3, <2>4 DEF Tick, TickStart, Renew, Acquire, Reload, KeepCache,
       Reread, Assign, NothingToDispatch, ClaimFails, Refresh
<1>4. ASSUME NEW n \in Node, FireEnds(n) PROVE MovesForward
  <2>1. PICK i \in 1..Len(claims) : Finished(i)
    BY <1>4 DEF FireEnds, FireSucceeds, FireEndsWithoutEffect, FirePanics, RunningOf
  <2>2. /\ Len(claims') = Len(claims)
        /\ \A j \in 1..Len(claims) : claims'[j].at = claims[j].at
    BY <2>1, <1>1, ClaimAt DEF Finished, Claims, ClaimInv
  <2>3. Ready' => Ready /\ row'.next = row.next
    BY <1>1, <1>4 DEF FireEnds, FireSucceeds, FireEndsWithoutEffect, FirePanics, LeaveReady, Ready, Rows
  <2> QED
    BY <2>2, <2>3 DEF MovesForward
<1>5. ASSUME NEW n \in Node, Crash(n) \/ TickFails(n) PROVE MovesForward
  <2>1. /\ Len(claims') = Len(claims)
        /\ \A i \in 1..Len(claims) : claims'[i].at = claims[i].at
    BY <1>5, LosingTyped DEF Crash, TickFails, ClaimInv
  <2>2. UNCHANGED row
    BY <1>5 DEF Crash, TickFails
  <2> QED
    BY <2>1, <2>2 DEF MovesForward, Ready
<1> QED
  BY <1>2, <1>3, <1>4, <1>5 DEF Next, vars, ClockTick, Restart, ReloadFails

LEMMA SchedulerKeepsRequests ==
    ASSUME [Next]_vars, ~(\E a \in Admin : Request(a)), NEW a \in Admin
    PROVE  admin'[a] = admin[a] \/ admin'[a] = IdleRequest
<1>1. ASSUME NEW n \in Node, Crash(n) PROVE admin'[a] = admin[a] \/ admin'[a] = IdleRequest
  BY <1>1 DEF Crash
<1>2. ASSUME NEW n \in Node,
             Tick(n) \/ FireEnds(n) \/ TickFails(n) \/ ReloadFails(n) \/ Restart(n)
      PROVE  UNCHANGED admin
  BY <1>2 DEF Tick, TickStart, Renew, Acquire, Reload, KeepCache, Backfill, Exhaust, Reread, Assign,
     NothingToDispatch, Claim, ClaimFails, Refresh, Launch, FireEnds, FireSucceeds,
     FireEndsWithoutEffect, FirePanics, TickFails, ReloadFails, Restart
<1> QED
  BY <1>1, <1>2 DEF Next, vars, ClockTick

LEMMA IdleIsFresh ==
    ASSUME NEW a \in Admin, admin'[a] = IdleRequest
    PROVE  RequestIsFresh(a)'
  BY DEF RequestIsFresh, IdleRequest, Enabling

LEMMA SchedulerKeepsFresh ==
    ASSUME Endless, EditInv, [Next]_vars, ~(\E a \in Admin : Request(a))
    PROVE  RequestsAreFresh'
<1> SUFFICES ASSUME NEW a \in Admin, admin'[a] = admin[a] PROVE RequestIsFresh(a)'
  BY SchedulerKeepsRequests, IdleIsFresh DEF RequestsAreFresh
<1>1. MovesForward
  BY SchedulerMovesForward DEF EditInv
<1>2. RequestIsFresh(a)
  BY DEF EditInv, RequestsAreFresh
<1>3. /\ admin[a].pc # "idle" => admin[a].snap.next \in Int
      /\ row.next \in Int /\ row'.next \in Int
  <2>1. row \in Rows /\ row' \in Rows /\ (admin[a].pc # "idle" => admin[a].snap \in Rows)
    BY StepTyped DEF EditInv, ClaimInv, TypeOK
  <2> QED
    BY <2>1 DEF Rows, NoTime
<1>4. Enabling(a)' = Enabling(a)
  BY DEF Enabling
<1>5. CASE /\ Len(claims') = Len(claims)
           /\ \A i \in 1..Len(claims) : claims'[i].at = claims[i].at
  BY <1>1, <1>2, <1>3, <1>4, <1>5 DEF MovesForward, RequestIsFresh
<1>6. CASE Ready /\ (Ready' => row'.next > row.next)
  BY <1>1, <1>2, <1>3, <1>4, <1>6 DEF MovesForward, RequestIsFresh
<1> QED
  BY <1>1, <1>5, <1>6 DEF MovesForward

\* Of the steps of a request, the two that arm the row write a fresh instant.
LEMMA RequestOnce ==
    ASSUME Orderly, Endless, EditInv, [Next]_vars, NEW a \in Admin, Request(a)
    PROVE  ClaimInv'
<1>1. TypeOK' /\ row \in Rows /\ claims \in Seq(Claims)
  BY StepTyped DEF EditInv, ClaimInv, TypeOK
<1>2. RequestIsFresh(a) /\ ClaimInv /\ (admin[a].pc # "idle" => admin[a].snap \in Rows)
  BY DEF EditInv, RequestsAreFresh, ClaimInv, TypeOK
<1>3. UNCHANGED claims
  BY DEF Request, AdminRead, UpdateWrite, AdminCompute, UpdateCas, UpdateFinish, SetEnabled,
     Delete, Undelete, Park, Publish, tickVars
<1>4. ASSUME row'.next \in Nat, \A i \in 1..Len(claims) : claims[i].at < row'.next
      PROVE  ClaimInv'
  BY <1>1, <1>2, <1>3, <1>4 DEF ClaimInv, ClaimsIncrease, NextIsFresh, DisarmedIsUnclaimed, NoTime
<1>5. ASSUME Ready' => Ready /\ row'.next = row.next PROVE ClaimInv'
  BY <1>1, <1>2, <1>3, <1>5, QuietStep
<1>6. CASE UpdateCas(a)
  <2>1. CASE Ready /\ row.next = admin[a].snap.next
    <3>1. row'.next = admin[a].next
      BY <1>6, <2>1, <1>1 DEF UpdateCas, Rows
    <3>2. admin[a].pc = "cas"
      BY <1>6 DEF UpdateCas
    <3> QED
      BY <1>2, <1>4, <2>1, <3>1, <3>2 DEF RequestIsFresh
  <2>2. CASE ~(Ready /\ row.next = admin[a].snap.next)
    BY <1>5, <1>6, <2>2 DEF UpdateCas, Ready
  <2> QED
    BY <2>1, <2>2
<1>7. CASE SetEnabled(a)
  <2>1. admin[a].pc = "store" /\ admin[a].snap \in Rows
    BY <1>2, <1>7 DEF SetEnabled
  <2>2. CASE Enabling(a)
    <3>1. row'.next = admin[a].next
      BY <1>7, <2>1, <2>2 DEF SetEnabled, Rows
    <3> QED
      BY <1>2, <1>4, <2>1, <2>2, <3>1 DEF RequestIsFresh
  <2>3. CASE ~Enabling(a)
    <3>1. ~Ready'
      BY <1>7, <2>1, <2>3 DEF SetEnabled, Ready, Rows
    <3> QED
      BY <1>5, <3>1
  <2> QED
    BY <2>2, <2>3
<1>8. CASE ~UpdateCas(a) /\ ~SetEnabled(a)
  <2>1. ~UpdateFinish(a)
    BY <1>2 DEF RequestIsFresh, UpdateFinish
  <2>2. Ready' => Ready /\ row'.next = row.next
    BY <1>1, <1>8, <2>1 DEF Request, AdminRead, UpdateWrite, AdminCompute, Delete, Undelete, Park,
       Publish, Ready, Rows
  <2> QED
    BY <1>5, <2>2
<1> QED
  BY <1>6, <1>7, <1>8

LEMMA RequestKeepsFresh ==
    ASSUME Orderly, Endless, EditInv, [Next]_vars, NEW a \in Admin, Request(a)
    PROVE  RequestsAreFresh'
<1>1. SUFFICES RequestIsFresh(a)'
  BY DEF Orderly, OneRequest, RequestsAreFresh
<1>2. /\ RequestIsFresh(a) /\ row \in Rows /\ admin \in [Admin -> Requests]
      /\ admin[a].pc # "idle" => admin[a].at \in Node /\ admin[a].snap \in Rows
  BY DEF EditInv, RequestsAreFresh, ClaimInv, TypeOK
<1>3. UNCHANGED claims
  BY DEF Request, AdminRead, UpdateWrite, AdminCompute, UpdateCas, UpdateFinish, SetEnabled,
     Delete, Undelete, Park, Publish, tickVars
<1>4. ASSUME admin'[a].pc \in {"publish", "park", "delete", "undelete"},
             admin'[a].op # "enableReady"
      PROVE  RequestIsFresh(a)'
  BY <1>4 DEF RequestIsFresh
<1>5. admin[a].op # "enableReady"
  BY <1>2 DEF RequestIsFresh
<1>6. CASE AdminRead(a)
  <2>1. PICK op \in AdminOps, n \in Node :
           /\ op = "enable" => ~Ready
           /\ admin' = [admin EXCEPT ![a] = [pc |-> FirstStep[op], op |-> op, at |-> n,
                                            snap |-> row, next |-> NoTime]]
    BY <1>6 DEF AdminRead
  <2>2. /\ admin'[a] = [pc |-> FirstStep[op], op |-> op, at |-> n, snap |-> row, next |-> NoTime]
        /\ row' = row
    BY <1>2, <1>6, <2>1 DEF AdminRead
  <2>3. op \in {"update", "enable", "pause", "delete", "restore"}
    BY SchedulerAssumption DEF Orderly
  <2>4. row.next \in Int
    BY <1>2 DEF Rows, NoTime
  <2>5. CASE op = "update"
    BY <2>2, <2>4, <2>5 DEF RequestIsFresh, Enabling, FirstStep, Ready
  <2>6. CASE op = "enable"
    BY <2>1, <2>2, <2>4, <2>6 DEF RequestIsFresh, Enabling, FirstStep, Ready
  <2>7. CASE op \in {"pause", "delete", "restore"}
    BY <2>2, <2>7 DEF RequestIsFresh, Enabling, FirstStep
  <2> QED
    BY <2>3, <2>5, <2>6, <2>7
<1>7. CASE UpdateWrite(a)
  <2>1. PICK t \in Triggers :
           /\ row' = [row EXCEPT !.trig = t]
           /\ admin' = [admin EXCEPT
                  ![a].snap.trig = t,
                  ![a].pc = IF admin[a].snap.status = "Ready" THEN "compute" ELSE "publish"]
    BY <1>7 DEF UpdateWrite
  <2>2. admin[a].pc = "write" /\ admin[a].snap \in Rows /\ admin[a] \in Requests
    BY <1>2, <1>7 DEF UpdateWrite
  <2>3. /\ admin'[a].op = admin[a].op /\ admin'[a].snap.next = admin[a].snap.next
        /\ admin'[a].pc \in {"compute", "publish"}
    BY <1>2, <2>1, <2>2 DEF Requests, Rows
  <2>4. Ready' = Ready /\ row'.next = row.next
    BY <1>2, <2>1 DEF Ready, Rows
  <2> QED
    BY <1>2, <2>2, <2>3, <2>4 DEF RequestIsFresh, Enabling
<1>8. CASE AdminCompute(a)
  <2> DEFINE next == ComputeNext(admin[a].snap.trig, Local(admin[a].at))
  <2>1. /\ admin[a].pc = "compute" /\ admin[a].snap \in Rows /\ admin[a].at \in Node
        /\ admin[a] \in Requests /\ row' = row
    BY <1>2, <1>8 DEF AdminCompute
  <2>2. Local(admin[a].at) \in Nat
    BY <2>1, SchedulerAssumption DEF EditInv, ClaimInv, TypeOK, Local
  <2>3. next \in Nat /\ next > Local(admin[a].at)
    <3>1. admin[a].snap.trig \in AllTriggers
      BY <2>1 DEF Rows, AllTriggers
    <3> QED
      BY <2>1, <2>2, <3>1, NextTyped DEF Endless
  <2>4. \A i \in 1..Len(claims) : claims[i].at < next
    <3> SUFFICES ASSUME NEW i \in 1..Len(claims) PROVE claims[i].at < next
      OBVIOUS
    <3>1. claims[i].at \in Nat
      BY ClaimAt DEF EditInv, ClaimInv, Claims
    <3>2. claims[i].at <= Local(admin[a].at)
      BY <2>1 DEF EditInv, ClaimsArePast
    <3> QED
      BY <3>1, <3>2, <2>2, <2>3
  <2>5. admin' = [admin EXCEPT ![a].next = next, ![a].pc = IF Enabling(a) THEN "store" ELSE "cas"]
    BY <1>8, <2>3 DEF AdminCompute, NoTime
  <2> HIDE DEF next
  <2>6. /\ admin'[a].op = admin[a].op /\ admin'[a].snap = admin[a].snap /\ admin'[a].next = next
        /\ admin'[a].pc = IF Enabling(a) THEN "store" ELSE "cas"
    BY <1>2, <2>1, <2>5 DEF Requests
  <2> QED
    BY <1>2, <1>3, <2>1, <2>3, <2>4, <2>6 DEF RequestIsFresh, Enabling, Ready
<1>9. CASE AdminDone(a)
  BY <1>2, <1>9, IdleIsFresh DEF AdminDone
<1>10. CASE AdminGoto(a, "publish") \/ AdminGoto(a, "park")
  BY <1>2, <1>4, <1>5, <1>10 DEF AdminGoto, Requests
<1>11. CASE UpdateCas(a)
  <2>1. admin[a].next # NoTime
    BY <1>2, <1>11 DEF RequestIsFresh, UpdateCas, NoTime
  <2> QED
    BY <1>10, <1>11, <2>1 DEF UpdateCas
<1> QED
  BY <1>6, <1>7, <1>8, <1>9, <1>10, <1>11 DEF Request, UpdateFinish, SetEnabled, Delete, Undelete,
     Park, Publish

\* With one clock, what a replica claims is past on every replica.
LEMMA ClaimsStayPast ==
    ASSUME Orderly, EditInv, [Next]_vars
    PROVE  ClaimsArePast'
<1>1. /\ ClaimsArePast /\ TypeOK /\ NowIsPast /\ claims \in Seq(Claims) /\ clock \in Nat
  BY DEF EditInv, ClaimInv, LeaseInv, TypeOK
<1>2. \A n \in Node : Skew[n] \in Nat
  BY SchedulerAssumption
<1>3. \A i \in 1..Len(claims) : claims[i].at \in Nat
  BY <1>1, ClaimAt DEF Claims
<1>4. clock' \in Nat /\ clock' >= clock
  <2>1. ASSUME NEW n \in Node, Tick(n) PROVE clock' = clock
    BY <2>1 DEF Tick, TickStart, Renew, Acquire, Reload, KeepCache, Backfill, Exhaust, Reread, Assign,
       NothingToDispatch, Claim, ClaimFails, Refresh, Launch
  <2>2. ASSUME NEW n \in Node,
               FireEnds(n) \/ TickFails(n) \/ ReloadFails(n) \/ Crash(n) \/ Restart(n)
        PROVE  clock' = clock
    BY <2>2 DEF FireEnds, FireSucceeds, FireEndsWithoutEffect, FirePanics, TickFails, ReloadFails,
       Crash, Restart
  <2>3. ASSUME NEW a \in Admin, Request(a) PROVE clock' = clock
    BY <2>3 DEF Request, AdminRead, UpdateWrite, AdminCompute, UpdateCas, UpdateFinish, SetEnabled,
       Delete, Undelete, Park, Publish
  <2>4. \/ clock' = clock
        \/ ClockTick
    BY <2>1, <2>2, <2>3 DEF Next, vars
  <2> QED
    BY <1>1, <2>4 DEF ClockTick
<1>5. ASSUME Len(claims') = Len(claims), \A i \in 1..Len(claims) : claims'[i].at = claims[i].at
      PROVE  ClaimsArePast'
  <2> SUFFICES ASSUME NEW i \in 1..Len(claims), NEW n \in Node
               PROVE  claims[i].at <= clock' + Skew[n]
    BY <1>5 DEF ClaimsArePast, Local
  <2>1. claims[i].at <= clock + Skew[n]
    BY <1>1 DEF ClaimsArePast, Local
  <2> QED
    BY <2>1, <1>1, <1>2, <1>3, <1>4
<1>6. ASSUME NEW n \in Node, Claim(n) PROVE ClaimsArePast'
  <2>1. /\ cache[n].next <= now[n] /\ now[n] <= Local(n) /\ clock' = clock
        /\ cache[n] \in Rows /\ now[n] \in Nat
    BY <1>1, <1>6 DEF Claim, IsDue, NowIsPast, TypeOK, Scanning
  <2>2. /\ Len(claims') = Len(claims) + 1 /\ Len(claims) \in Nat
        /\ claims'[Len(claims) + 1].at = cache[n].next
        /\ \A i \in 1..Len(claims) : claims'[i] = claims[i]
    BY <1>1, <1>6 DEF Claim
  <2>3. cache[n].next \in Int
    BY <2>1 DEF Rows, NoTime
  <2>4. \A m \in Node : cache[n].next <= clock + Skew[m]
    <3> SUFFICES ASSUME NEW m \in Node PROVE cache[n].next <= clock + Skew[m]
      OBVIOUS
    <3>1. Skew[m] = Skew[n]
      BY DEF Orderly, OneClock
    <3> QED
      BY <3>1, <2>1, <2>3, <1>1, <1>2 DEF Local
  <2> SUFFICES ASSUME NEW i \in 1..(Len(claims) + 1), NEW m \in Node
               PROVE  claims'[i].at <= clock + Skew[m]
    BY <2>1, <2>2 DEF ClaimsArePast, Local
  <2>5. CASE i = Len(claims) + 1
    BY <2>2, <2>4, <2>5
  <2>6. CASE i \in 1..Len(claims)
    BY <2>2, <2>6, <1>1 DEF ClaimsArePast, Local
  <2> QED
    BY <2>2, <2>5, <2>6
<1>7. ASSUME NEW a \in Admin, Request(a) PROVE UNCHANGED claims
  BY <1>7 DEF Request, AdminRead, UpdateWrite, AdminCompute, UpdateCas, UpdateFinish, SetEnabled,
     Delete, Undelete, Park, Publish, tickVars
<1>8. ASSUME NEW n \in Node, Tick(n), ~Claim(n)
      PROVE  Len(claims') = Len(claims) /\ \A i \in 1..Len(claims) : claims'[i].at = claims[i].at
  <2>1. CASE Launch(n)
    BY <2>1, <1>1, ClaimAt DEF Launch, Claims
  <2>2. CASE ~Launch(n)
    BY <1>8, <2>2 DEF Tick, TickStart, Renew, Acquire, Reload, KeepCache, Backfill, Exhaust,
       Reread, Assign, NothingToDispatch, ClaimFails, Refresh
  <2> QED
    BY <2>1, <2>2
<1>9. ASSUME NEW n \in Node, FireEnds(n)
      PROVE  Len(claims') = Len(claims) /\ \A i \in 1..Len(claims) : claims'[i].at = claims[i].at
  <2>1. PICK i \in 1..Len(claims) : Finished(i)
    BY <1>9 DEF FireEnds, FireSucceeds, FireEndsWithoutEffect, FirePanics, RunningOf
  <2> QED
    BY <2>1, <1>1, ClaimAt DEF Finished, Claims
<1>10. ASSUME NEW n \in Node, Crash(n) \/ TickFails(n)
       PROVE  Len(claims') = Len(claims) /\ \A i \in 1..Len(claims) : claims'[i].at = claims[i].at
  BY <1>1, <1>10, LosingTyped DEF Crash, TickFails
<1>11. CASE UNCHANGED claims
  BY <1>5, <1>11
<1> QED
  BY <1>5, <1>6, <1>7, <1>8, <1>9, <1>10, <1>11 DEF Next, vars, ClockTick, ReloadFails, Restart

LEMMA InitEdit == Init => EditInv
<1> SUFFICES ASSUME Init PROVE EditInv
  OBVIOUS
<1>1. TypeOK /\ ClaimInv
  BY InitTyped, InitClaimInv
<1>2. LeaseInv
  BY <1>1 DEF Init, LeaseInv, NowIsPast, LeaseIsHeld, Scanning
<1>3. ClaimsArePast
  BY DEF Init, ClaimsArePast
<1>4. RequestsAreFresh
  BY DEF Init, RequestsAreFresh, RequestIsFresh, IdleRequest, Enabling
<1> QED
  BY <1>1, <1>2, <1>3, <1>4 DEF EditInv

LEMMA EditStep ==
    ASSUME Orderly, Endless, EditInv, [Next]_vars
    PROVE  EditInv'
<1>1. LeaseInv' /\ ClaimsArePast'
  BY LeaseStep, ClaimsStayPast DEF EditInv
<1>2. CASE \E a \in Admin : Request(a)
  BY <1>1, <1>2, RequestOnce, RequestKeepsFresh DEF EditInv
<1>3. CASE ~(\E a \in Admin : Request(a))
  BY <1>1, <1>3, SchedulerStepOnce, SchedulerKeepsFresh DEF EditInv
<1> QED
  BY <1>2, <1>3

\* Edits, enables, pauses, deletions and restores, in whatever order with the
\* scheduler's steps: still no occurrence is claimed twice (AtMostOnce of the
\* runs).
THEOREM ClaimedAtMostOnceUnderEdits ==
    ASSUME Endless, Orderly
    PROVE  Spec => []AtMostOnce
<1>1. EditInv /\ [Next]_vars => EditInv'
  BY EditStep
<1>2. EditInv => AtMostOnce
  BY ClaimInvIsAtMostOnce DEF EditInv
<1> QED
  BY InitEdit, <1>1, <1>2, PTL DEF Spec

\* And no edit or enable arms the row for an instant that was claimed, or one
\* before it (NextIsFresh of the runs).
THEOREM ArmedIsFreshUnderEdits ==
    ASSUME Endless, Orderly
    PROVE  Spec => []NextIsFresh
<1>1. EditInv /\ [Next]_vars => EditInv'
  BY EditStep
<1>2. EditInv => NextIsFresh
  BY DEF EditInv, ClaimInv
<1> QED
  BY InitEdit, <1>1, <1>2, PTL DEF Spec

(***************************************************************************)
(* The scheduler implements JobOccurrence, by either invariant.            *)
(***************************************************************************)
\* Whatever the clocks, when nobody re-arms the job: every step of any replica
\* is a step of one armed occurrence handed out once, or none (HandsOutOnce of
\* the runs).
THEOREM ImplementsJobOccurrence ==
    ASSUME Endless, NoRearming
    PROVE  Spec => HandsOutOnce
<1>1. OnceInv /\ [Next]_vars => OnceInv'
  BY StepOnce
<1>2. OnceInv /\ OnceInv' /\ [Next]_vars => [Occurrences!Next]_Occurrences!vars
  BY StepHandsOut DEF OnceInv
<1> QED
  BY InitOnce, InitHandsOut, <1>1, <1>2, PTL DEF Spec, HandsOutOnce, Occurrences!Spec

\* The same with edits and enables, one at a time and on one clock
\* (HandsOutOnce of the runs): an edit is an Arm, whatever the scheduler did
\* between its statements.
THEOREM ImplementsJobOccurrenceUnderEdits ==
    ASSUME Endless, Orderly
    PROVE  Spec => HandsOutOnce
<1>1. EditInv /\ [Next]_vars => EditInv'
  BY EditStep
<1>2. EditInv /\ EditInv' /\ [Next]_vars => [Occurrences!Next]_Occurrences!vars
  BY StepHandsOut DEF EditInv
<1> QED
  BY InitEdit, InitHandsOut, <1>1, <1>2, PTL DEF Spec, HandsOutOnce, Occurrences!Spec
=============================================================================
