--------------------------- MODULE WorkerIdLease ---------------------------
(***************************************************************************)
(* The lease on a snowflake worker id: rows of sys_worker_lease, the claim *)
(* of a slot (DbWorkerIdSlotClaimer.cs), the file lock of a machine        *)
(* (WorkerIdLease.cs), and the renewal with its local deadline             *)
(* (DbWorkerIdLeaseLifetime.cs).                                           *)
(*                                                                         *)
(* Every action is one statement, one look at a clock or one critical      *)
(* section under _stateSync, and any amount of time passes between two.    *)
(* `now' is the monotonic clock the processes measure durations with; the  *)
(* database cuts its own down to whole seconds, so dbNow is behind by less *)
(* than one.  A process that is started again is another element of Proc:  *)
(* it has a new token and so a new NodeName.                               *)
(***************************************************************************)
EXTENDS Integers, FiniteSets

CONSTANTS
    Proc,
    Machine,        \* Machine[p]: the machine p runs on (Environment.MachineName)
    LastSlot,       \* SnowflakeIdGenerator.MaxWorkerId
    Fixed,          \* Fixed[p]: the configured TenonAdmin:Id:WorkerId, or Scan
    LeaseTtl,       \* 3 * Max(HeartbeatSeconds, 2) seconds
    Second,         \* one second, in the unit of `now'
    MaxLockConflictAttempts,
    MaxTime,        \* bound: the clock stops here
    FailBefore      \* bound: statements fail and processes die before this instant only

Slot == 0..LastSlot
Scan == -1

ASSUME LeaseAssumption ==
    /\ LastSlot \in Nat
    /\ Fixed \in [Proc -> Slot \cup {Scan}]
    /\ Second \in Nat \ {0} /\ LeaseTtl \in Nat /\ LeaseTtl > Second
    /\ MaxLockConflictAttempts \in Nat \ {0} /\ MaxTime \in Nat /\ FailBefore \in Nat
    /\ "nobody" \notin Proc

VARIABLES
    now,        \* the monotonic clock
    dbNow,      \* SELECT CURRENT_TIMESTAMP
    row,        \* sys_worker_lease by WorkerId: [owner, expires]; no owner, no row
    file,       \* file[m, s]: who holds worker-s.lock on m
    pc,         \* where each process is between its start and its end
    slot,       \* the slot it claims or has claimed
    tries,      \* lock conflicts at this slot so far
    started,    \* confirmedStartedAt of the claim
    read,       \* `now' of TryOwnSlot: the database clock it read
    seen,       \* `existing' of TryOwnSlot
    state,      \* LeaseState; "none" before there is a lifetime
    confirmed,  \* _confirmedStartedAt
    attempt     \* the ConfirmOnceAsync in progress

claimVars == <<slot, tries, started, read, seen>>
leaseVars == <<state, confirmed, attempt>>
vars == <<now, dbNow, row, file, pc, slot, tries, started, read, seen, state, confirmed, attempt>>

Nobody   == "nobody"
Outsider == "outsider"  \* a host that uses the file lock alone (WorkerIdAssignment.Resolve)
LockFiles == {Machine[p] : p \in Proc} \X Slot
NoRow  == [owner |-> Nobody, expires |-> 0]
NoAttempt == [at |-> "idle", recovery |-> FALSE, start |-> 0, expires |-> 0,
              confirmed |-> FALSE, finish |-> 0]

\* Mutant of LocalConfirmedTtl: the whole TTL.
LocalConfirmedTtlMutant == LeaseTtl

\* The local deadline is a second shorter: the database may have cut off as much.
LocalConfirmedTtl == LeaseTtl - Second

Init ==
    /\ now = 0 /\ dbNow = 0
    /\ row = [s \in Slot |-> NoRow]
    /\ file \in [LockFiles -> {Nobody, Outsider}]
    /\ pc = [p \in Proc |-> "probe"]
    /\ slot = [p \in Proc |-> IF Fixed[p] = Scan THEN 0 ELSE Fixed[p]]
    /\ tries = [p \in Proc |-> 1]
    /\ started = [p \in Proc |-> 0]
    /\ read = [p \in Proc |-> 0]
    /\ seen = [p \in Proc |-> NoRow]
    /\ state = [p \in Proc |-> "none"]
    /\ confirmed = [p \in Proc |-> 0]
    /\ attempt = [p \in Proc |-> NoAttempt]

ClockTick ==
    /\ now < MaxTime
    /\ now' = now + 1
    /\ dbNow' \in {t \in {dbNow, now + 1} : t > now + 1 - Second}
    /\ UNCHANGED <<row, file, pc, claimVars, leaseVars>>

Goto(p, label) == pc' = [pc EXCEPT ![p] = label]

\* The local variables of TryOwnSlot and of its retries end with them.
ForgetRead(p) ==
    /\ read' = [read EXCEPT ![p] = 0]
    /\ seen' = [seen EXCEPT ![p] = NoRow]

Return(p, label) ==
    /\ Goto(p, label)
    /\ ForgetRead(p)
    /\ tries' = [tries EXCEPT ![p] = 1]
    /\ started' = [started EXCEPT ![p] = IF label = "owned" THEN @ ELSE 0]

Owns(p) == row[slot[p]].owner = p

\* DELETE ... WHERE WorkerId AND NodeName.
DeleteOwn(p) == row' = IF Owns(p) THEN [row EXCEPT ![slot[p]] = NoRow] ELSE row

(***************************************************************************)
(* DbWorkerIdSlotClaimer.TryOwnSlot.                                       *)
(***************************************************************************)
Sample(p) ==
    /\ pc[p] = "probe"
    /\ started' = [started EXCEPT ![p] = now]
    /\ Goto(p, "clock")
    /\ UNCHANGED <<now, dbNow, row, file, slot, tries, read, seen, leaseVars>>

ReadClock(p) ==
    /\ pc[p] = "clock"
    /\ read' = [read EXCEPT ![p] = dbNow]
    /\ Goto(p, "look")
    /\ UNCHANGED <<now, dbNow, row, file, slot, tries, started, seen, leaseVars>>

\* A pid is only looked up on the machine it belongs to.
OwnerProcessIsGone(p, q) == Machine[q] = Machine[p] /\ pc[q] = "dead"

LiveOther(p, r) ==
    r.expires > read[p] /\ r.owner # p /\ ~OwnerProcessIsGone(p, r.owner)

Look(p) ==
    /\ pc[p] = "look"
    /\ LET existing == row[slot[p]] IN
       IF existing.owner # Nobody /\ LiveOther(p, existing)
       THEN Return(p, "taken")
       ELSE /\ seen' = [seen EXCEPT ![p] = existing]
            /\ Goto(p, IF existing.owner = Nobody THEN "insert" ELSE "update")
            /\ UNCHANGED <<read, tries, started>>
    /\ UNCHANGED <<now, dbNow, row, file, slot, leaseVars>>

MyRow(p) == [owner |-> p, expires |-> read[p] + LeaseTtl]

\* The unique key lets one INSERT through; the loser asks once more whether
\* there is a row, and rethrows when it has gone again.
Insert(p) ==
    /\ pc[p] = "insert"
    /\ IF row[slot[p]] = NoRow
       THEN row' = [row EXCEPT ![slot[p]] = MyRow(p)] /\ Return(p, "owned")
       ELSE row' = row /\ Goto(p, "recheck") /\ UNCHANGED <<tries, started, read, seen>>
    /\ UNCHANGED <<now, dbNow, file, slot, leaseVars>>

Recheck(p) ==
    /\ pc[p] = "recheck"
    /\ Return(p, IF row[slot[p]] # NoRow THEN "taken" ELSE "failed")
    /\ UNCHANGED <<now, dbNow, row, file, slot, leaseVars>>

\* Mutant of TakesOver: the UPDATE names the slot and its owner only.
TakesOverMutant(p) == row[slot[p]].owner = seen[p].owner

TakesOver(p) == row[slot[p]] = seen[p]

Update(p) ==
    /\ pc[p] = "update"
    /\ IF TakesOver(p)
       THEN row' = [row EXCEPT ![slot[p]] = MyRow(p)] /\ Return(p, "owned")
       ELSE row' = row /\ Return(p, "taken")
    /\ UNCHANGED <<now, dbNow, file, slot, leaseVars>>

\* RetryOnLockConflict: the statement was rolled back, TryOwnSlot starts over.
LockConflict(p) ==
    /\ pc[p] \in {"clock", "look", "insert", "recheck", "update"} /\ now < FailBefore
    /\ IF tries[p] < MaxLockConflictAttempts
       THEN tries' = [tries EXCEPT ![p] = @ + 1] /\ ForgetRead(p) /\ Goto(p, "probe") /\ UNCHANGED started
       ELSE Return(p, IF Fixed[p] = Scan THEN "taken" ELSE "failed")
    /\ UNCHANGED <<now, dbNow, row, file, slot, leaseVars>>

CloseFiles(p) == file' = [f \in DOMAIN file |-> IF file[f] = p THEN Nobody ELSE file[f]]

\* Any other exception ends the start of the process; a row already written
\* stays until it expires, unless the handler could still delete it.
ClaimThrows(p) ==
    /\ now < FailBefore
    /\ \/ pc[p] \in {"clock", "look", "insert", "recheck", "update", "owned", "locked", "undo"} /\ row' = row
       \/ pc[p] \in {"owned", "locked"} /\ DeleteOwn(p)
    /\ CloseFiles(p)
    /\ Return(p, "failed")
    /\ UNCHANGED <<now, dbNow, slot, leaseVars>>

\* Claim: the next slot, or none is left; a configured id has no other.
NextSlot(p) ==
    /\ pc[p] = "taken"
    /\ IF Fixed[p] = Scan /\ slot[p] < LastSlot
       THEN /\ slot' = [slot EXCEPT ![p] = @ + 1]
            /\ Goto(p, "probe")
       ELSE UNCHANGED slot /\ Goto(p, "failed")
    /\ UNCHANGED <<now, dbNow, row, file, tries, started, read, seen, leaseVars>>

\* WorkerIdLease.TryAcquire: only a process without a configured id takes the
\* lock, and gives its row back when another holds the file.
LockFile(p) ==
    /\ pc[p] = "owned" /\ Fixed[p] = Scan
    /\ LET f == <<Machine[p], slot[p]>> IN
       IF file[f] = Nobody
       THEN file' = [file EXCEPT ![f] = p] /\ Goto(p, "locked")
       ELSE file' = file /\ Goto(p, "undo")
    /\ UNCHANGED <<now, dbNow, row, claimVars, leaseVars>>

\* ReleaseOwnedSlot.
Undo(p) ==
    /\ pc[p] = "undo"
    /\ DeleteOwn(p)
    /\ Return(p, "taken")
    /\ UNCHANGED <<now, dbNow, file, slot, leaseVars>>

(***************************************************************************)
(* DbWorkerIdLeaseLifetime.  It is constructed Active and its loop begins  *)
(* at once; AttachLifetime then insists on a lease that is still good.     *)
(***************************************************************************)
PastDeadline(p) == now - confirmed[p] >= LocalConfirmedTtl

\* SuspendIfPastConfirmedDeadlineLocked.
StateNow(p) == IF state[p] = "Active" /\ PastDeadline(p) THEN "Suspended" ELSE state[p]

Construct(p) ==
    /\ pc[p] = IF Fixed[p] = Scan THEN "locked" ELSE "owned"
    /\ state' = [state EXCEPT ![p] = "Active"]
    /\ confirmed' = [confirmed EXCEPT ![p] = started[p]]
    /\ started' = [started EXCEPT ![p] = 0]
    /\ Goto(p, "attaching")
    /\ UNCHANGED <<now, dbNow, row, file, slot, tries, read, seen, attempt>>

Attach(p) ==
    /\ pc[p] = "attaching"
    /\ IF StateNow(p) = "Active"
       THEN UNCHANGED state /\ Goto(p, "up")
       ELSE state' = [state EXCEPT ![p] = "Disposed"] /\ Goto(p, "stopping")
    /\ UNCHANGED <<now, dbNow, row, file, claimVars, confirmed, attempt>>

\* EnsureActive, which NextId calls, does not throw.
EnsuresActive(p) == StateNow(p) = "Active"

\* EnsureActive on the hot path, or the loop after a failed attempt.
Notice(p) ==
    /\ pc[p] \in {"attaching", "up"}
    /\ state[p] # StateNow(p)
    /\ state' = [state EXCEPT ![p] = StateNow(p)]
    /\ UNCHANGED <<now, dbNow, row, file, pc, claimVars, confirmed, attempt>>

(***************************************************************************)
(* ConfirmOnceAsync, one at a time (_confirmationGate), for the loop and   *)
(* for ConfirmFreshAsync alike.                                            *)
(***************************************************************************)
Step(p, a) == attempt' = [attempt EXCEPT ![p] = a]

Begin(p) ==
    /\ pc[p] \in {"attaching", "up"} /\ attempt[p].at = "idle"
    /\ state[p] \in {"Active", "Suspended"}
    /\ state' = [state EXCEPT ![p] = StateNow(p)]
    /\ Step(p, [NoAttempt EXCEPT !.at = "clock", !.start = now, !.recovery = StateNow(p) = "Suspended"])
    /\ UNCHANGED <<now, dbNow, row, file, pc, claimVars, confirmed>>

AskClock(p) ==
    /\ attempt[p].at = "clock"
    /\ Step(p, [attempt[p] EXCEPT !.at = "update", !.expires = dbNow + LeaseTtl])
    /\ UNCHANGED <<now, dbNow, row, file, pc, claimVars, state, confirmed>>

\* MySQL reports no affected row when the value was there already.
Renew(p) ==
    /\ attempt[p].at = "update"
    /\ \/ /\ Owns(p)
          /\ row' = [row EXCEPT ![slot[p]].expires = attempt[p].expires]
          /\ Step(p, [attempt[p] EXCEPT !.at = "answer", !.confirmed = TRUE])
       \/ /\ Owns(p) => row[slot[p]].expires = attempt[p].expires
          /\ row' = row
          /\ Step(p, [attempt[p] EXCEPT !.at = "readback"])
    /\ UNCHANGED <<now, dbNow, file, pc, claimVars, state, confirmed>>

ReadBack(p) ==
    /\ attempt[p].at = "readback"
    /\ Step(p, [attempt[p] EXCEPT !.at = "answer",
                    !.confirmed = Owns(p) /\ row[slot[p]].expires >= attempt[p].expires])
    /\ UNCHANGED <<now, dbNow, row, file, pc, claimVars, state, confirmed>>

Answer(p) ==
    /\ attempt[p].at = "answer"
    /\ Step(p, [attempt[p] EXCEPT !.at = "settle", !.finish = now])
    /\ UNCHANGED <<now, dbNow, row, file, pc, claimVars, state, confirmed>>

\* An exception, before or after the statement took effect.
AttemptThrows(p) ==
    /\ attempt[p].at \in {"clock", "update", "readback", "answer"}
    /\ now < FailBefore
    /\ Step(p, NoAttempt)
    /\ state' = [state EXCEPT ![p] = StateNow(p)]
    /\ UNCHANGED <<now, dbNow, row, file, pc, claimVars, confirmed>>

TookTooLong(a) == a.finish - a.start >= LocalConfirmedTtl

\* Mutant of Revives: only a lease that never lapsed is confirmed.
RevivesMutant(p) == ~TookTooLong(attempt[p]) /\ StateNow(p) = "Active"

\* A request begun before the deadline does not revive a lease that has passed
\* it meanwhile; one begun afterwards does.
Revives(p) == ~TookTooLong(attempt[p]) /\ (attempt[p].recovery \/ StateNow(p) = "Active")

Settle(p) ==
    /\ attempt[p].at = "settle"
    /\ \/ /\ state[p] \in {"Lost", "Disposed"}
          /\ UNCHANGED <<state, confirmed>>
       \/ /\ state[p] \in {"Active", "Suspended"} /\ ~attempt[p].confirmed
          /\ state' = [state EXCEPT ![p] = "Lost"]
          /\ UNCHANGED confirmed
       \/ /\ state[p] \in {"Active", "Suspended"} /\ attempt[p].confirmed
          /\ Revives(p)
          /\ state' = [state EXCEPT ![p] = "Active"]
          /\ confirmed' = [confirmed EXCEPT ![p] = attempt[p].start]
       \/ /\ state[p] \in {"Active", "Suspended"} /\ attempt[p].confirmed
          /\ ~Revives(p)
          /\ state' = [state EXCEPT ![p] = IF TookTooLong(attempt[p]) THEN "Suspended" ELSE StateNow(p)]
          /\ UNCHANGED confirmed
    /\ Step(p, NoAttempt)
    /\ UNCHANGED <<now, dbNow, row, file, pc, claimVars>>

(***************************************************************************)
(* The end: Dispose, the exit of the process, or its death.                *)
(***************************************************************************)
Stop(p) ==
    /\ pc[p] = "up"
    /\ state' = [state EXCEPT ![p] = "Disposed"]
    /\ Goto(p, "stopping")
    /\ UNCHANGED <<now, dbNow, row, file, claimVars, confirmed, attempt>>

\* Mutant of DeleteRow: Dispose does not wait for a request on its way.
DeleteRowMutant(p) ==
    /\ pc[p] = "stopping"
    /\ DeleteOwn(p)
    /\ Goto(p, "released")
    /\ UNCHANGED <<now, dbNow, file, claimVars, leaseVars>>

\* Dispose waits for the loop and for the gate; a DELETE that fails is let go.
DeleteRow(p) ==
    /\ pc[p] = "stopping" /\ attempt[p].at = "idle"
    /\ DeleteOwn(p) \/ (now < FailBefore /\ row' = row)
    /\ Goto(p, "released")
    /\ UNCHANGED <<now, dbNow, file, claimVars, leaseVars>>

\* The process ends: its memory is gone, its file handles are closed.
End(p) ==
    /\ CloseFiles(p)
    /\ Return(p, "dead")
    /\ state' = [state EXCEPT ![p] = "none"]
    /\ confirmed' = [confirmed EXCEPT ![p] = 0]
    /\ attempt' = [attempt EXCEPT ![p] = NoAttempt]
    /\ UNCHANGED <<now, dbNow, row, slot>>

Exit(p) == pc[p] \in {"released", "failed"} /\ End(p)

Die(p) == pc[p] # "dead" /\ now < FailBefore /\ End(p)

Claim(p) ==
    \/ Sample(p) \/ ReadClock(p) \/ Look(p) \/ Insert(p) \/ Recheck(p) \/ Update(p)
    \/ NextSlot(p) \/ LockFile(p) \/ Undo(p) \/ Construct(p) \/ Attach(p)

ConfirmOnce(p) ==
    Begin(p) \/ AskClock(p) \/ Renew(p) \/ ReadBack(p) \/ Answer(p) \/ Settle(p)

Next ==
    \/ ClockTick
    \/ \E p \in Proc :
          \/ Claim(p) \/ LockConflict(p) \/ ClaimThrows(p)
          \/ ConfirmOnce(p) \/ AttemptThrows(p) \/ Notice(p)
          \/ Stop(p) \/ DeleteRow(p) \/ Exit(p) \/ Die(p)

Spec == Init /\ [][Next]_vars

\* The loop goes round (Task.Delay ends) and the database answers in the end;
\* once the clock has stopped an answer is never late again.
FairSpec ==
    /\ Spec
    /\ \A p \in Proc : WF_vars(ConfirmOnce(p))

(***************************************************************************)
(* Properties.                                                             *)
(***************************************************************************)
ClaimPc == {"probe", "clock", "look", "insert", "recheck", "update", "owned", "undo", "taken", "locked"}
Rows == {NoRow} \cup [owner : Proc, expires : Nat]
Attempts ==
    [at : {"idle", "clock", "update", "readback", "answer", "settle"}, recovery : BOOLEAN,
     start : Nat, expires : Nat, confirmed : BOOLEAN, finish : Nat]

\* Types, and what makes them inductive: a lifetime exactly from its
\* construction on, and no request on the way once the row has been deleted.
TypeOK ==
    /\ now \in Nat /\ dbNow \in Nat /\ dbNow <= now /\ now - dbNow < Second
    /\ row \in [Slot -> Rows]
    /\ file \in [LockFiles -> Proc \cup {Nobody, Outsider}]
    /\ pc \in [Proc -> ClaimPc \cup {"attaching", "up", "stopping", "released", "failed", "dead"}]
    /\ slot \in [Proc -> Slot]
    /\ tries \in [Proc -> 1..MaxLockConflictAttempts]
    /\ started \in [Proc -> Nat] /\ read \in [Proc -> Nat]
    /\ seen \in [Proc -> Rows]
    /\ state \in [Proc -> {"none", "Active", "Suspended", "Lost", "Disposed"}]
    /\ confirmed \in [Proc -> Nat]
    /\ attempt \in [Proc -> Attempts]
    /\ \A p \in Proc :
          /\ pc[p] \in ClaimPc \cup {"failed", "dead"} => state[p] = "none" /\ attempt[p].at = "idle"
          /\ pc[p] \in {"attaching", "up"} => state[p] \in {"Active", "Suspended", "Lost"}
          /\ pc[p] \in {"stopping", "released"} => state[p] = "Disposed"
          /\ pc[p] = "released" => attempt[p].at = "idle"

\* The generator of p returns ids (SnowflakeIdGenerator.NextId).
MayIssue(p) == pc[p] = "up" /\ EnsuresActive(p)
Issuers == {p \in Proc : MayIssue(p)}

\* No two processes issue ids with one worker id, whatever the database clock
\* cuts off, however late an answer is, and although rows are taken over from
\* the expired and the dead (SysWorkerLease.cs:7).
ExclusiveWorkerId ==
    \A p, q \in Issuers : slot[p] = slot[q] => p = q

Ownership == INSTANCE WorkerIdOwnership WITH
    owner   <- [s \in Slot |-> row[s].owner],
    issuing <- {<<slot[p], p>> : p \in Issuers}

\* A process begins to issue with a worker id only while the row of that id
\* names it, and no row changes hands while a process issues with its id: the
\* protocol implements WorkerIdOwnership.
ImplementsOwnership == Ownership!OwnershipSpec

\* A slow database costs a process its ids for a while, not for good: once the
\* database answers, a suspended lease is Active again, or it is known to be
\* lost (WorkerIdLeaseRecoveryTests, "Same_owner_recovers_only_after_a_fresh
\* confirmation_following_lock_timeout").
SuspensionEnds ==
    \A p \in Proc : (pc[p] = "up" /\ state[p] = "Suspended")
                       ~> (pc[p] # "up" \/ state[p] \in {"Active", "Lost"})
=============================================================================
