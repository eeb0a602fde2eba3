------------------------ MODULE WorkerIdLeaseProofs ------------------------
(***************************************************************************)
(* Theorems about WorkerIdLease, for any number of processes, machines and *)
(* worker ids, any TTL and any rounding of the database clock.             *)
(***************************************************************************)
EXTENDS WorkerIdLease, TLAPS

\* What a lifetime relies on: while its deadline has not passed, the row is its
\* own and expires later than the deadline.
Covered(p, start) ==
    \/ Owns(p) /\ row[slot[p]].expires > start + LocalConfirmedTtl
    \/ now >= start + LocalConfirmedTtl

\* A claim reads the local clock before the database's, and takes over what has
\* expired, is its own, or belongs to the dead.
ClaimInv(p) ==
    /\ started[p] <= now
    /\ pc[p] \in {"look", "insert", "update"} =>
          read[p] <= dbNow /\ read[p] + Second > started[p]
    /\ pc[p] = "update" =>
          /\ seen[p].owner # Nobody
          /\ seen[p].expires <= read[p] \/ seen[p].owner = p \/ pc[seen[p].owner] = "dead"
    /\ pc[p] \in {"owned", "locked"} => Covered(p, started[p])

\* So does a renewal, and the newest confirmation is the latest to have begun.
LifetimeInv(p) ==
    /\ confirmed[p] <= now
    /\ state[p] = "Active" => Covered(p, confirmed[p])
    /\ attempt[p].at # "idle" => confirmed[p] <= attempt[p].start /\ attempt[p].start <= now
    /\ attempt[p].at \in {"update", "readback"} =>
          attempt[p].expires > attempt[p].start + LocalConfirmedTtl
    /\ attempt[p].at \in {"answer", "settle"} /\ attempt[p].confirmed =>
          Covered(p, attempt[p].start)

LeaseInv == \A p \in Proc : ClaimInv(p) /\ LifetimeInv(p)

LEMMA Durations ==
    /\ LeaseTtl \in Nat /\ Second \in Nat /\ Second > 0 /\ LeaseTtl > Second
    /\ LocalConfirmedTtl \in Nat /\ LocalConfirmedTtl = LeaseTtl - Second
    /\ LastSlot \in Nat /\ Nobody \notin Proc
  BY LeaseAssumption DEF LocalConfirmedTtl, Nobody

(***************************************************************************)
(* Type correctness.                                                       *)
(***************************************************************************)
LEMMA InitTyped == Init => TypeOK
<1> SUFFICES ASSUME Init PROVE TypeOK
  OBVIOUS
<1>1. 0 \in Slot /\ Scan \notin Slot
  BY LeaseAssumption DEF Slot, Scan
<1>2. slot \in [Proc -> Slot]
  BY <1>1, LeaseAssumption DEF Init
<1>3. NoAttempt \in Attempts /\ NoAttempt.at = "idle"
  BY DEF NoAttempt, Attempts
<1>4. tries \in [Proc -> 1..MaxLockConflictAttempts]
  BY LeaseAssumption DEF Init
<1> QED
  BY <1>2, <1>3, <1>4, LeaseAssumption DEF Init, TypeOK, Rows, ClaimPc

\* Field updates stay inside the record sets.
LEMMA RowsTyped ==
    ASSUME TypeOK, NEW p \in Proc
    PROVE  /\ slot[p] \in Slot /\ row[slot[p]] \in Rows
           /\ MyRow(p) \in Rows
           /\ DeleteOwn(p) => row' \in [Slot -> Rows]
           /\ \A r \in Rows : [row EXCEPT ![slot[p]] = r] \in [Slot -> Rows]
           /\ Owns(p) => \A e \in Nat : [row EXCEPT ![slot[p]].expires = e] \in [Slot -> Rows]
<1>1. slot[p] \in Slot /\ row[slot[p]] \in Rows
  BY DEF TypeOK
<1>2. MyRow(p) \in Rows
  BY LeaseAssumption DEF TypeOK, MyRow, Rows
<1>3. \A r \in Rows : [row EXCEPT ![slot[p]] = r] \in [Slot -> Rows]
  BY <1>1 DEF TypeOK
<1>4. NoRow \in Rows
  BY DEF Rows
<1>5. ASSUME Owns(p), NEW e \in Nat
      PROVE  [row EXCEPT ![slot[p]].expires = e] \in [Slot -> Rows]
  <2>1. row[slot[p]] \in [owner : Proc, expires : Nat]
    BY <1>1, <1>5, LeaseAssumption DEF Owns, Rows, NoRow, Nobody
  <2>2. [row[slot[p]] EXCEPT !.expires = e] \in Rows
    BY <2>1 DEF Rows
  <2> QED
    BY <2>2, <1>1 DEF TypeOK
<1> QED
  BY <1>1, <1>2, <1>3, <1>4, <1>5 DEF DeleteOwn, TypeOK

LEMMA ReturnTyped ==
    ASSUME TypeOK, NEW p \in Proc, NEW label, Return(p, label)
    PROVE  /\ read' \in [Proc -> Nat] /\ seen' \in [Proc -> Rows]
           /\ tries' \in [Proc -> 1..MaxLockConflictAttempts] /\ started' \in [Proc -> Nat]
<1>1. NoRow \in Rows /\ 1 \in 1..MaxLockConflictAttempts
  BY LeaseAssumption DEF Rows
<1> QED
  BY <1>1 DEF TypeOK, Return, ForgetRead

LEMMA FilesTyped ==
    ASSUME TypeOK, NEW p \in Proc, CloseFiles(p)
    PROVE  file' \in [LockFiles -> Proc \cup {Nobody, Outsider}]
  BY DEF TypeOK, CloseFiles

LEMMA ReturnKeepsTypes ==
    ASSUME TypeOK, NEW p \in Proc, pc[p] \in ClaimPc, NEW label \in ClaimPc \cup {"failed"},
           Return(p, label), row' \in [Slot -> Rows],
           UNCHANGED <<now, dbNow, file, slot, leaseVars>>
    PROVE  TypeOK'
<1>1. /\ read' \in [Proc -> Nat] /\ seen' \in [Proc -> Rows]
      /\ tries' \in [Proc -> 1..MaxLockConflictAttempts] /\ started' \in [Proc -> Nat]
  BY ReturnTyped
<1>2. pc' = [pc EXCEPT ![p] = label]
  BY DEF Return, Goto
<1>3. pc' \in [Proc -> ClaimPc \cup {"attaching", "up", "stopping", "released", "failed", "dead"}]
  BY <1>2 DEF TypeOK
<1>4. state[p] = "none" /\ attempt[p].at = "idle"
  BY DEF TypeOK
<1>5. state' = state /\ attempt' = attempt /\ confirmed' = confirmed
  BY DEF leaseVars
<1>6. \A q \in Proc :
          /\ pc'[q] \in ClaimPc \cup {"failed", "dead"} => state'[q] = "none" /\ attempt'[q].at = "idle"
          /\ pc'[q] \in {"attaching", "up"} => state'[q] \in {"Active", "Suspended", "Lost"}
          /\ pc'[q] \in {"stopping", "released"} => state'[q] = "Disposed"
          /\ pc'[q] = "released" => attempt'[q].at = "idle"
  BY <1>2, <1>4, <1>5 DEF TypeOK, ClaimPc
<1> QED
  BY <1>1, <1>3, <1>5, <1>6 DEF TypeOK

LEMMA ClaimTyped == ASSUME TypeOK, NEW p \in Proc, Claim(p) PROVE TypeOK'
<1> USE DEF ClaimPc, claimVars, leaseVars, Goto
<1>1. CASE Sample(p)
  BY <1>1 DEF Sample, TypeOK
<1>2. CASE ReadClock(p)
  BY <1>2 DEF ReadClock, TypeOK
<1>3. CASE Look(p)
  <2>1. CASE row[slot[p]].owner # Nobody /\ LiveOther(p, row[slot[p]])
    <3>1. /\ pc[p] \in ClaimPc /\ "taken" \in ClaimPc /\ Return(p, "taken")
          /\ row' = row /\ UNCHANGED <<now, dbNow, file, slot, leaseVars>>
      BY <1>3, <2>1 DEF Look
    <3>2. row' \in [Slot -> Rows]
      BY <3>1 DEF TypeOK
    <3> QED
      BY <3>1, <3>2, ReturnKeepsTypes
  <2>2. CASE ~(row[slot[p]].owner # Nobody /\ LiveOther(p, row[slot[p]]))
    BY <1>3, <2>2, RowsTyped DEF Look, TypeOK
  <2> QED
    BY <2>1, <2>2
<1>4. CASE Insert(p)
  <2>1. row' \in [Slot -> Rows]
    BY <1>4, RowsTyped DEF Insert, TypeOK
  <2>2. CASE Return(p, "owned")
    <3>1. /\ pc[p] \in ClaimPc /\ "owned" \in ClaimPc
          /\ UNCHANGED <<now, dbNow, file, slot, leaseVars>>
      BY <1>4 DEF Insert
    <3> QED
      BY <2>1, <2>2, <3>1, ReturnKeepsTypes
  <2>3. CASE pc' = [pc EXCEPT ![p] = "recheck"] /\ UNCHANGED <<tries, started, read, seen>>
    BY <1>4, <2>1, <2>3 DEF Insert, TypeOK
  <2> QED
    BY <1>4, <2>2, <2>3 DEF Insert
<1>5. CASE Recheck(p)
  <2>1. /\ pc[p] \in ClaimPc /\ {"taken", "failed"} \subseteq ClaimPc \cup {"failed"}
        /\ Return(p, "taken") \/ Return(p, "failed")
        /\ row' = row /\ UNCHANGED <<now, dbNow, file, slot, leaseVars>>
    BY <1>5 DEF Recheck
  <2>2. row' \in [Slot -> Rows]
    BY <2>1 DEF TypeOK
  <2> QED
    BY <2>1, <2>2, ReturnKeepsTypes
<1>6. CASE Update(p)
  <2>1. /\ pc[p] \in ClaimPc /\ {"owned", "taken"} \subseteq ClaimPc
        /\ Return(p, "owned") \/ Return(p, "taken")
        /\ UNCHANGED <<now, dbNow, file, slot, leaseVars>>
    BY <1>6 DEF Update
  <2>2. row' = row \/ row' = [row EXCEPT ![slot[p]] = MyRow(p)]
    BY <1>6 DEF Update
  <2>3. row' \in [Slot -> Rows]
    BY <2>2, RowsTyped DEF TypeOK
  <2> QED
    BY <2>1, <2>3, ReturnKeepsTypes
<1>7. CASE NextSlot(p)
  <2>1. slot' \in [Proc -> Slot]
    <3>1. slot[p] \in Slot /\ slot \in [Proc -> Slot]
      BY DEF TypeOK
    <3>2. slot[p] < LastSlot => slot[p] + 1 \in Slot
      BY <3>1, Durations DEF Slot
    <3> QED
      BY <1>7, <3>1, <3>2 DEF NextSlot
  <2> QED
    BY <1>7, <2>1 DEF NextSlot, TypeOK
<1>8. CASE LockFile(p)
  BY <1>8 DEF LockFile, TypeOK
<1>9. CASE Undo(p)
  BY <1>9, RowsTyped, ReturnTyped DEF Undo, Return, TypeOK
<1>10. CASE Construct(p)
  BY <1>10 DEF Construct, TypeOK
<1>11. CASE Attach(p)
  BY <1>11 DEF Attach, StateNow, TypeOK
<1> QED
  BY <1>1, <1>2, <1>3, <1>4, <1>5, <1>6, <1>7, <1>8, <1>9, <1>10, <1>11 DEF Claim

LEMMA ConfirmTyped ==
    ASSUME TypeOK, NEW p \in Proc, ConfirmOnce(p) \/ AttemptThrows(p)
    PROVE  TypeOK'
<1> USE DEF ClaimPc, claimVars, leaseVars, Goto, Step
<1>0. attempt[p] \in Attempts /\ NoAttempt \in Attempts
  BY DEF TypeOK, NoAttempt, Attempts
<1>1. CASE Begin(p)
  <2>1. [NoAttempt EXCEPT !.at = "clock", !.start = now, !.recovery = StateNow(p) = "Suspended"] \in Attempts
    BY DEF TypeOK, NoAttempt, Attempts
  <2> QED
    BY <1>1, <2>1 DEF Begin, StateNow, TypeOK
<1>2. CASE AskClock(p)
  <2>1. [attempt[p] EXCEPT !.at = "update", !.expires = dbNow + LeaseTtl] \in Attempts
    <3>1. dbNow + LeaseTtl \in Nat
      BY Durations DEF TypeOK
    <3> QED
      BY <1>0, <3>1 DEF Attempts
  <2> QED
    BY <1>2, <2>1 DEF AskClock, TypeOK
<1>3. CASE Renew(p)
  <2>1. /\ [attempt[p] EXCEPT !.at = "answer", !.confirmed = TRUE] \in Attempts
        /\ [attempt[p] EXCEPT !.at = "readback"] \in Attempts
        /\ attempt[p].expires \in Nat
    BY <1>0 DEF Attempts
  <2>2. row' \in [Slot -> Rows]
    <3>1. row \in [Slot -> Rows]
      BY DEF TypeOK
    <3>2. CASE Owns(p) /\ row' = [row EXCEPT ![slot[p]].expires = attempt[p].expires]
      BY <3>2, <2>1, RowsTyped
    <3> QED
      BY <1>3, <3>1, <3>2 DEF Renew
  <2> QED
    BY <1>3, <2>1, <2>2 DEF Renew, TypeOK
<1>4. CASE ReadBack(p)
  <2>1. [attempt[p] EXCEPT !.at = "answer",
           !.confirmed = Owns(p) /\ row[slot[p]].expires >= attempt[p].expires] \in Attempts
    BY <1>0 DEF Attempts
  <2> QED
    BY <1>4, <2>1 DEF ReadBack, TypeOK
<1>5. CASE Answer(p)
  <2>1. [attempt[p] EXCEPT !.at = "settle", !.finish = now] \in Attempts
    BY <1>0 DEF TypeOK, Attempts
  <2> QED
    BY <1>5, <2>1 DEF Answer, TypeOK
<1>6. CASE Settle(p)
  <2>1. attempt[p].start \in Nat
    BY <1>0 DEF Attempts
  <2> QED
    BY <1>6, <1>0, <2>1 DEF Settle, StateNow, NoAttempt, TypeOK
<1>7. CASE AttemptThrows(p)
  BY <1>7, <1>0 DEF AttemptThrows, StateNow, NoAttempt, TypeOK
<1> QED
  BY <1>1, <1>2, <1>3, <1>4, <1>5, <1>6, <1>7 DEF ConfirmOnce

LEMMA NextTyped == TypeOK /\ [Next]_vars => TypeOK'
<1> SUFFICES ASSUME TypeOK, [Next]_vars PROVE TypeOK'
  OBVIOUS
<1> USE DEF ClaimPc, claimVars, leaseVars, Goto
<1>1. CASE ClockTick
  <2>1. /\ now' = now + 1 /\ dbNow' \in {dbNow, now + 1} /\ dbNow' > now + 1 - Second
        /\ UNCHANGED <<row, file, pc, slot, tries, started, read, seen, state, confirmed, attempt>>
    BY <1>1 DEF ClockTick
  <2>2. now' \in Nat /\ dbNow' \in Nat /\ dbNow' <= now' /\ now' - dbNow' < Second
    <3>1. now \in Nat /\ dbNow \in Nat /\ dbNow <= now
      BY DEF TypeOK
    <3> QED
      <4>1. Second \in Nat /\ Second > 0
        BY Durations
      <4>2. CASE dbNow' = dbNow
        BY <2>1, <3>1, <4>1, <4>2
      <4>3. CASE dbNow' = now + 1
        BY <2>1, <3>1, <4>1, <4>3
      <4> QED
        BY <2>1, <4>2, <4>3
  <2> QED
    BY <2>1, <2>2 DEF TypeOK
<1>2. ASSUME NEW p \in Proc, Claim(p) PROVE TypeOK'
  BY <1>2, ClaimTyped
<1>3. ASSUME NEW p \in Proc, ConfirmOnce(p) \/ AttemptThrows(p) PROVE TypeOK'
  BY <1>3, ConfirmTyped
<1>4. ASSUME NEW p \in Proc, LockConflict(p) PROVE TypeOK'
  <2>1. NoRow \in Rows /\ tries[p] \in 1..MaxLockConflictAttempts
    BY DEF Rows, TypeOK
  <2>2. CASE tries[p] < MaxLockConflictAttempts
    BY <1>4, <2>1, <2>2, LeaseAssumption DEF LockConflict, ForgetRead, TypeOK
  <2>3. CASE ~(tries[p] < MaxLockConflictAttempts)
    BY <1>4, <2>3, ReturnTyped DEF LockConflict, Return, TypeOK
  <2> QED
    BY <2>2, <2>3
<1>5. ASSUME NEW p \in Proc, ClaimThrows(p) PROVE TypeOK'
  BY <1>5, ReturnTyped, RowsTyped, FilesTyped DEF ClaimThrows, Return, TypeOK
<1>6. ASSUME NEW p \in Proc, Notice(p) PROVE TypeOK'
  BY <1>6 DEF Notice, StateNow, TypeOK
<1>7. ASSUME NEW p \in Proc, Stop(p) PROVE TypeOK'
  BY <1>7 DEF Stop, TypeOK
<1>8. ASSUME NEW p \in Proc, DeleteRow(p) PROVE TypeOK'
  BY <1>8, RowsTyped DEF DeleteRow, TypeOK
<1>9. ASSUME NEW p \in Proc, Exit(p) \/ Die(p) PROVE TypeOK'
  <2>1. End(p)
    BY <1>9 DEF Exit, Die
  <2>2. NoAttempt \in Attempts /\ NoAttempt.at = "idle"
    BY DEF NoAttempt, Attempts
  <2> QED
    BY <2>1, <2>2, ReturnTyped, FilesTyped DEF End, Return, TypeOK
<1>10. CASE UNCHANGED vars
  BY <1>10 DEF vars, TypeOK
<1> QED
  BY <1>1, <1>2, <1>3, <1>4, <1>5, <1>6, <1>7, <1>8, <1>9, <1>10 DEF Next

\* Every field keeps its type, a lifetime lasts exactly from its construction
\* to the end of the process, and Dispose deletes the row only when no renewal
\* of it is on its way (DbWorkerIdLeaseLifetime.cs, Dispose).
THEOREM TypeCorrect == Spec => []TypeOK
<1>1. Init => TypeOK
  BY InitTyped
<1>2. TypeOK /\ [Next]_vars => TypeOK'
  BY NextTyped
<1> QED
  BY <1>1, <1>2, PTL DEF Spec

(***************************************************************************)
(* The inductive invariant.                                                *)
(***************************************************************************)
\* q takes no part in a step that leaves its variables alone.
Same(q) ==
    /\ pc'[q] = pc[q] /\ slot'[q] = slot[q] /\ started'[q] = started[q] /\ read'[q] = read[q]
    /\ seen'[q] = seen[q] /\ state'[q] = state[q] /\ confirmed'[q] = confirmed[q]
    /\ attempt'[q] = attempt[q]

\* A step leaves q what it has of its lease.
Keeps(q) == \A start \in Nat : pc[q] # "dead" /\ Covered(q, start) => Covered(q, start)'

LEMMA FieldsTyped ==
    ASSUME TypeOK, NEW q \in Proc
    PROVE  /\ now \in Nat /\ dbNow \in Nat /\ dbNow <= now /\ now - dbNow < Second
           /\ slot[q] \in Slot /\ row[slot[q]] \in Rows /\ row[slot[q]].expires \in Nat
           /\ started[q] \in Nat /\ read[q] \in Nat /\ confirmed[q] \in Nat
           /\ seen[q] \in Rows /\ seen[q].expires \in Nat
           /\ seen[q].owner # Nobody => seen[q].owner \in Proc
           /\ attempt[q].at \in {"idle", "clock", "update", "readback", "answer", "settle"}
           /\ attempt[q].start \in Nat /\ attempt[q].expires \in Nat
           /\ attempt[q].confirmed \in BOOLEAN
<1>1. \A r \in Rows : r.expires \in Nat /\ (r.owner # Nobody => r.owner \in Proc)
  BY DEF Rows, NoRow
<1>2. \A a \in Attempts :
         /\ a.at \in {"idle", "clock", "update", "readback", "answer", "settle"}
         /\ a.start \in Nat /\ a.expires \in Nat /\ a.confirmed \in BOOLEAN
  BY DEF Attempts
<1>3. row[slot[q]] \in Rows /\ seen[q] \in Rows /\ attempt[q] \in Attempts
  BY DEF TypeOK
<1> QED
  BY <1>1, <1>2, <1>3 DEF TypeOK

LEMMA RowOwnerTyped ==
    ASSUME TypeOK, NEW q \in Proc, row[slot[q]].owner # Nobody
    PROVE  row[slot[q]].owner \in Proc
<1>1. row[slot[q]] \in Rows
  BY DEF TypeOK
<1> QED
  BY <1>1 DEF Rows, NoRow

LEMMA IdleTyped ==
    ASSUME TypeOK, NEW q \in Proc
    PROVE  /\ pc[q] \in ClaimPc \cup {"failed", "dead"} => state[q] = "none" /\ attempt[q].at = "idle"
           /\ pc[q] \in {"attaching", "up"} => state[q] \in {"Active", "Suspended", "Lost"}
           /\ pc[q] \in {"stopping", "released"} => state[q] = "Disposed"
           /\ pc[q] = "released" => attempt[q].at = "idle"
           /\ pc[q] \in ClaimPc \cup {"attaching", "up", "stopping", "released", "failed", "dead"}
  BY DEF TypeOK

LEMMA Bystander ==
    ASSUME TypeOK, LeaseInv, NEW q \in Proc, Same(q), Keeps(q),
           now' \in Nat, dbNow' \in Nat, now' >= now, dbNow' >= dbNow,
           \A r \in Proc : pc[r] = "dead" => pc'[r] = "dead"
    PROVE  ClaimInv(q)' /\ LifetimeInv(q)'
<1>1. ClaimInv(q) /\ LifetimeInv(q)
  BY DEF LeaseInv
<1>2. ClaimInv(q)'
  <2>1. started'[q] <= now'
    BY <1>1, FieldsTyped DEF ClaimInv, Same
  <2>2. pc'[q] \in {"look", "insert", "update"} =>
            read'[q] <= dbNow' /\ read'[q] + Second > started'[q]
    BY <1>1, FieldsTyped DEF ClaimInv, Same
  <2>3. pc'[q] = "update" =>
            /\ seen'[q].owner # Nobody
            /\ seen'[q].expires <= read'[q] \/ seen'[q].owner = q \/ pc'[seen'[q].owner] = "dead"
    BY <1>1, FieldsTyped DEF ClaimInv, Same
  <2>4. pc'[q] \in {"owned", "locked"} => Covered(q, started[q])'
    BY <1>1, FieldsTyped DEF ClaimInv, Same, Keeps, Covered
  <2> QED
    BY <2>1, <2>2, <2>3, <2>4 DEF ClaimInv
<1>3. LifetimeInv(q)'
  <2>1. /\ confirmed'[q] <= now'
        /\ attempt'[q].at # "idle" => confirmed'[q] <= attempt'[q].start /\ attempt'[q].start <= now'
    BY <1>1, FieldsTyped DEF LifetimeInv, Same
  <2>2. attempt'[q].at \in {"update", "readback"} =>
            attempt'[q].expires > attempt'[q].start + LocalConfirmedTtl
    BY <1>1 DEF LifetimeInv, Same
  <2>3. state'[q] = "Active" => Covered(q, confirmed[q])'
    BY <1>1, FieldsTyped, IdleTyped DEF LifetimeInv, Same, Keeps, Covered
  <2>4. attempt'[q].at \in {"answer", "settle"} /\ attempt'[q].confirmed =>
            Covered(q, attempt[q].start)'
    BY <1>1, FieldsTyped, IdleTyped DEF LifetimeInv, Same, Keeps, Covered
  <2> QED
    BY <2>1, <2>2, <2>3, <2>4 DEF LifetimeInv
<1> QED
  BY <1>2, <1>3

\* A step that leaves the rows, or writes one that is p's or nobody's, takes
\* nothing from another process.
LEMMA RowKeeps ==
    ASSUME TypeOK, NEW p \in Proc, NEW q \in Proc, now' \in Nat, now' >= now, slot'[q] = slot[q],
           \/ row' = row
           \/ /\ q # p /\ row[slot[p]].owner \in {p, Nobody}
              /\ \E r : row' = [row EXCEPT ![slot[p]] = r]
    PROVE  Keeps(q)
<1> SUFFICES ASSUME NEW start \in Nat, Covered(q, start) PROVE Covered(q, start)'
  BY DEF Keeps
<1>1. CASE now >= start + LocalConfirmedTtl
  BY <1>1, FieldsTyped, Durations DEF Covered
<1>2. CASE Owns(q) /\ row[slot[q]].expires > start + LocalConfirmedTtl
  <2>1. row'[slot[q]] = row[slot[q]]
    BY <1>2, FieldsTyped, Durations DEF Owns, TypeOK
  <2> QED
    BY <1>2, <2>1 DEF Covered, Owns
<1> QED
  BY <1>1, <1>2 DEF Covered

LEMMA InitLease == Init => LeaseInv
  BY Durations DEF Init, LeaseInv, ClaimInv, LifetimeInv, NoAttempt

\* A process between its start and the construction of the lifetime.
LEMMA ClaimLease ==
    ASSUME TypeOK, TypeOK', LeaseInv, NEW p \in Proc,
           Claim(p) \/ LockConflict(p) \/ ClaimThrows(p)
    PROVE  LeaseInv'
<1> USE DEF Goto, claimVars, leaseVars
<1>1. ClaimInv(p) /\ LifetimeInv(p)
  BY DEF LeaseInv
<1>2. now' = now /\ dbNow' = dbNow
  BY DEF Claim, Sample, ReadClock, Look, Insert, Recheck, Update, NextSlot, LockFile, Undo,
         Construct, Attach, LockConflict, ClaimThrows
<1>3. pc[p] # "dead"
  BY DEF Claim, Sample, ReadClock, Look, Insert, Recheck, Update, NextSlot, LockFile, Undo,
         Construct, Attach, LockConflict, ClaimThrows
<1>4. \A r \in Proc : pc[r] = "dead" => pc'[r] = "dead"
  <2>1. \E label : pc' = [pc EXCEPT ![p] = label]
    BY DEF Claim, Sample, ReadClock, Look, Insert, Recheck, Update, NextSlot, LockFile, Undo,
           Construct, Attach, LockConflict, ClaimThrows, Return
  <2> QED
    BY <2>1, <1>3 DEF TypeOK
<1>5. ASSUME NEW q \in Proc, q # p PROVE ClaimInv(q)' /\ LifetimeInv(q)'
  <2>1. Same(q)
    BY <1>5 DEF Same, Claim, Sample, ReadClock, Look, Insert, Recheck, Update, NextSlot, LockFile,
           Undo, Construct, Attach, LockConflict, ClaimThrows, Return, ForgetRead, TypeOK
  <2>2. Keeps(q)
    <3>1. CASE row' = row
      BY <3>1, <2>1, <1>2, FieldsTyped, RowKeeps DEF Same
    <3>2. CASE Insert(p) /\ row' # row
      <4>1. row[slot[p]] = NoRow /\ row' = [row EXCEPT ![slot[p]] = MyRow(p)]
        BY <3>2 DEF Insert
      <4>2. row[slot[p]].owner \in {p, Nobody} /\ \E r : row' = [row EXCEPT ![slot[p]] = r]
        <5>1. NoRow.owner = Nobody
          BY DEF NoRow
        <5> QED
          BY <4>1, <5>1
      <4>3. now' \in Nat /\ now' >= now /\ slot'[q] = slot[q]
        BY <2>1, <1>2, FieldsTyped DEF Same
      <4> QED
        BY <4>2, <4>3, <1>5, RowKeeps
    <3>3. CASE (Undo(p) \/ ClaimThrows(p)) /\ row' # row
      <4>1. Owns(p) /\ row' = [row EXCEPT ![slot[p]] = NoRow]
        BY <3>3 DEF Undo, ClaimThrows, DeleteOwn
      <4>2. row[slot[p]].owner \in {p, Nobody} /\ \E r : row' = [row EXCEPT ![slot[p]] = r]
        BY <4>1 DEF Owns
      <4>3. now' \in Nat /\ now' >= now /\ slot'[q] = slot[q]
        BY <2>1, <1>2, FieldsTyped DEF Same
      <4> QED
        BY <4>2, <4>3, <1>5, RowKeeps
    <3>4. CASE Update(p) /\ row' # row
      <4> SUFFICES ASSUME NEW start \in Nat, pc[q] # "dead", Covered(q, start) PROVE Covered(q, start)'
        BY DEF Keeps
      <4>1. CASE now >= start + LocalConfirmedTtl
        BY <4>1, <1>2 DEF Covered
      <4>2. CASE Owns(q) /\ row[slot[q]].expires > start + LocalConfirmedTtl
        <5>1. CASE slot[q] # slot[p]
          BY <5>1, <4>2, <3>4, <2>1, FieldsTyped DEF Update, Covered, Owns, Same, TypeOK
        <5>2. CASE slot[q] = slot[p]
          <6>1. row[slot[p]] = seen[p] /\ pc[p] = "update"
            BY <3>4 DEF Update, TakesOver
          <6>2. seen[p].owner = q /\ seen[p].expires > start + LocalConfirmedTtl
            BY <6>1, <5>2, <4>2 DEF Owns
          <6>3. seen[p].expires <= read[p] /\ read[p] <= dbNow
            BY <6>1, <6>2, <1>1, <1>5 DEF ClaimInv
          <6> QED
            BY <6>2, <6>3, <1>2, FieldsTyped, Durations DEF Covered
        <5> QED
          BY <5>1, <5>2
      <4> QED
        BY <4>1, <4>2 DEF Covered
    <3> QED
      BY <3>1, <3>2, <3>3, <3>4 DEF Claim, Sample, ReadClock, Look, Recheck, NextSlot, LockFile,
           Construct, Attach, LockConflict
  <2> QED
    BY <2>1, <2>2, <1>2, <1>4, FieldsTyped, Bystander
<1>6. ClaimInv(p)' /\ LifetimeInv(p)'
  <2>0. /\ now \in Nat /\ dbNow \in Nat /\ dbNow <= now /\ now - dbNow < Second
        /\ started[p] \in Nat /\ started[p] <= now /\ read[p] \in Nat
    BY <1>1, FieldsTyped DEF ClaimInv
  <2>1. ASSUME pc'[p] \in ClaimPc \cup {"failed"}, confirmed' = confirmed PROVE LifetimeInv(p)'
    <3>1. state'[p] = "none" /\ attempt'[p].at = "idle"
      BY <2>1 DEF TypeOK
    <3> QED
      BY <2>1, <3>1, <1>1, <1>2 DEF LifetimeInv
  <2>2. ASSUME pc'[p] \in {"probe", "clock", "recheck", "taken", "failed", "undo"} \cup {"attaching", "up", "stopping"},
               started'[p] \in {started[p], 0, now}
        PROVE  ClaimInv(p)'
    BY <2>0, <2>2, <1>2 DEF ClaimInv
  <2>3. pc \in [Proc -> ClaimPc \cup {"attaching", "up", "stopping", "released", "failed", "dead"}]
        /\ started \in [Proc -> Nat] /\ read \in [Proc -> Nat] /\ seen \in [Proc -> Rows]
    BY DEF TypeOK
  <2>4. CASE Sample(p)
    BY <2>4, <2>1, <2>2, <2>3 DEF Sample, ClaimPc
  <2>5. CASE ReadClock(p)
    <3>1. pc'[p] = "look" /\ read'[p] = dbNow /\ started'[p] = started[p]
      BY <2>5, <2>3 DEF ReadClock
    <3>2. ClaimInv(p)'
      BY <3>1, <2>0, <1>2, Durations DEF ClaimInv
    <3> QED
      BY <3>1, <3>2, <2>1, <2>5 DEF ReadClock, ClaimPc
  <2>6. CASE Look(p)
    <3>1. CASE pc'[p] = "taken"
      BY <3>1, <2>6, <2>1, <2>2, <2>3 DEF Look, Return, ClaimPc
    <3>2. CASE pc'[p] # "taken"
      <4>1. /\ pc[p] = "look"
            /\ ~(row[slot[p]].owner # Nobody /\ LiveOther(p, row[slot[p]]))
            /\ seen' = [seen EXCEPT ![p] = row[slot[p]]]
            /\ pc' = [pc EXCEPT ![p] = IF row[slot[p]].owner = Nobody THEN "insert" ELSE "update"]
            /\ UNCHANGED <<read, tries, started, confirmed>>
        BY <2>6, <3>2, <2>3 DEF Look, Return
      <4>2. read[p] <= dbNow /\ read[p] + Second > started[p]
        BY <4>1, <1>1 DEF ClaimInv
      <4>3. row[slot[p]].owner # Nobody =>
                \/ row[slot[p]].expires <= read[p] \/ row[slot[p]].owner = p
                \/ pc[row[slot[p]].owner] = "dead"
        BY <4>1, <2>0, FieldsTyped DEF LiveOther, OwnerProcessIsGone
      <4>4. seen'[p] = row[slot[p]] /\ pc'[p] = IF row[slot[p]].owner = Nobody THEN "insert" ELSE "update"
        BY <4>1, <2>3
      <4>5. ClaimInv(p)'
        BY <4>1, <4>2, <4>3, <4>4, <2>0, <1>2, <1>4, FieldsTyped, RowOwnerTyped DEF ClaimInv
      <4> QED
        BY <4>5, <4>1, <4>4, <2>1 DEF ClaimPc
    <3> QED
      BY <3>1, <3>2
  <2>7. CASE Insert(p) \/ Update(p)
    <3>1. CASE pc'[p] = "owned"
      <4>1. /\ pc[p] \in {"insert", "update"} /\ row' = [row EXCEPT ![slot[p]] = MyRow(p)]
            /\ Return(p, "owned") /\ UNCHANGED <<slot, confirmed>>
        BY <2>7, <3>1, <2>3 DEF Insert, Update, Return
      <4>2. started'[p] = started[p] /\ slot'[p] = slot[p] /\ row'[slot[p]] = MyRow(p)
        BY <4>1, <2>3, FieldsTyped DEF Return, TypeOK
      <4>3. read[p] + Second > started[p]
        BY <4>1, <1>1 DEF ClaimInv
      <4>4. MyRow(p).owner = p /\ MyRow(p).expires > started[p] + LocalConfirmedTtl
        BY <4>3, <2>0, Durations DEF MyRow
      <4>5. ClaimInv(p)'
        BY <3>1, <4>2, <4>4, <2>0, <1>2 DEF ClaimInv, Covered, Owns
      <4> QED
        BY <4>1, <4>5, <3>1, <2>1 DEF ClaimPc
    <3>2. CASE pc'[p] # "owned"
      BY <3>2, <2>7, <2>1, <2>2, <2>3 DEF Insert, Update, Return, ClaimPc
    <3> QED
      BY <3>1, <3>2
  <2>8. CASE Recheck(p) \/ NextSlot(p) \/ Undo(p) \/ LockConflict(p) \/ ClaimThrows(p)
    <3>1. pc'[p] \in {"probe", "taken", "failed"} /\ confirmed' = confirmed
      BY <2>8, <2>3 DEF Recheck, NextSlot, Undo, LockConflict, ClaimThrows, Return
    <3>2. started'[p] \in {started[p], 0}
      BY <2>8, <2>3 DEF Recheck, NextSlot, Undo, LockConflict, ClaimThrows, Return
    <3> QED
      BY <3>1, <3>2, <2>1, <2>2 DEF ClaimPc
  <2>9. CASE LockFile(p)
    <3>1. /\ pc[p] = "owned" /\ pc'[p] \in {"locked", "undo"}
          /\ UNCHANGED <<row, slot, started, confirmed>>
      BY <2>9, <2>3 DEF LockFile
    <3>2. ClaimInv(p)'
      BY <3>1, <1>1, <1>2, <2>0 DEF ClaimInv, Covered, Owns
    <3> QED
      BY <3>1, <3>2, <2>1 DEF ClaimPc
  <2>10. CASE Construct(p)
    <3>1. /\ pc[p] \in {"owned", "locked"} /\ pc'[p] = "attaching" /\ started'[p] = 0
          /\ confirmed'[p] = started[p] /\ UNCHANGED <<row, slot, attempt>>
      BY <2>10, <2>3, FieldsTyped DEF Construct, TypeOK
    <3>2. ClaimInv(p)'
      BY <3>1, <2>2
    <3>3. LifetimeInv(p)'
      BY <3>1, <1>1, <1>2, <2>0, IdleTyped DEF ClaimInv, LifetimeInv, Covered, Owns, ClaimPc
    <3> QED
      BY <3>2, <3>3
  <2>11. CASE Attach(p)
    <3>1. /\ pc'[p] \in {"up", "stopping"} /\ state'[p] \in {state[p], "Disposed"}
          /\ UNCHANGED <<row, slot, started, confirmed, attempt>>
      BY <2>11, <2>3 DEF Attach, TypeOK
    <3>2. ClaimInv(p)'
      BY <3>1, <2>2
    <3>3. LifetimeInv(p)'
      BY <3>1, <1>1, <1>2 DEF LifetimeInv, Covered, Owns
    <3> QED
      BY <3>2, <3>3
  <2> QED
    BY <2>4, <2>5, <2>6, <2>7, <2>8, <2>9, <2>10, <2>11 DEF Claim
<1> QED
  BY <1>5, <1>6 DEF LeaseInv

\* A process with a lifetime, and its end.
LEMMA LifetimeLease ==
    ASSUME TypeOK, TypeOK', LeaseInv, NEW p \in Proc,
           \/ ConfirmOnce(p) \/ AttemptThrows(p) \/ Notice(p)
           \/ Stop(p) \/ DeleteRow(p) \/ Exit(p) \/ Die(p)
    PROVE  LeaseInv'
<1> USE DEF Goto, Step, claimVars, leaseVars
<1>1. ClaimInv(p) /\ LifetimeInv(p)
  BY DEF LeaseInv
<1>2. now' = now /\ dbNow' = dbNow
  BY DEF ConfirmOnce, Begin, AskClock, Renew, ReadBack, Answer, Settle, AttemptThrows, Notice,
         Stop, DeleteRow, Exit, Die, End
<1>3. \A r \in Proc : pc[r] = "dead" => pc'[r] = "dead"
  <2>1. pc' = pc \/ \E label : pc[p] # "dead" /\ pc' = [pc EXCEPT ![p] = label]
    BY DEF ConfirmOnce, Begin, AskClock, Renew, ReadBack, Answer, Settle, AttemptThrows, Notice,
           Stop, DeleteRow, Exit, Die, End, Return
  <2> QED
    BY <2>1 DEF TypeOK
<1>4. slot' = slot
  BY DEF ConfirmOnce, Begin, AskClock, Renew, ReadBack, Answer, Settle, AttemptThrows, Notice,
         Stop, DeleteRow, Exit, Die, End
<1>5. ASSUME NEW q \in Proc, q # p PROVE ClaimInv(q)' /\ LifetimeInv(q)'
  <2>1. Same(q)
    BY <1>5 DEF Same, ConfirmOnce, Begin, AskClock, Renew, ReadBack, Answer, Settle, AttemptThrows,
           Notice, Stop, DeleteRow, Exit, Die, End, Return, ForgetRead, TypeOK
  <2>2. row' = row \/ (Owns(p) /\ \E r : row' = [row EXCEPT ![slot[p]] = r])
    <3>1. CASE Renew(p)
      BY <3>1 DEF Renew
    <3>2. CASE DeleteRow(p)
      BY <3>2 DEF DeleteRow, DeleteOwn
    <3> QED
      BY <3>1, <3>2 DEF ConfirmOnce, Begin, AskClock, ReadBack, Answer, Settle, AttemptThrows,
           Notice, Stop, Exit, Die, End
  <2>3. Keeps(q)
    <3>1. now' \in Nat /\ now' >= now /\ slot'[q] = slot[q]
      BY <1>2, <1>4, FieldsTyped
    <3>2. CASE row' = row
      BY <3>1, <3>2, RowKeeps
    <3>3. CASE Owns(p) /\ \E r : row' = [row EXCEPT ![slot[p]] = r]
      <4>1. row[slot[p]].owner \in {p, Nobody}
        BY <3>3 DEF Owns
      <4> QED
        BY <3>1, <3>3, <4>1, <1>5, RowKeeps
    <3> QED
      BY <2>2, <3>2, <3>3
  <2> QED
    BY <2>1, <2>3, <1>2, <1>3, FieldsTyped, Bystander
<1>6. ClaimInv(p)' /\ LifetimeInv(p)'
  <2>0. /\ now \in Nat /\ dbNow \in Nat /\ dbNow <= now /\ now - dbNow < Second
        /\ started[p] \in Nat /\ started[p] <= now /\ confirmed[p] \in Nat /\ confirmed[p] <= now
        /\ attempt[p].start \in Nat /\ attempt[p].expires \in Nat
        /\ attempt[p].confirmed \in BOOLEAN
    BY <1>1, FieldsTyped DEF ClaimInv, LifetimeInv
  <2>1. /\ pc \in [Proc -> ClaimPc \cup {"attaching", "up", "stopping", "released", "failed", "dead"}]
        /\ started \in [Proc -> Nat] /\ state \in [Proc -> {"none", "Active", "Suspended", "Lost", "Disposed"}]
        /\ confirmed \in [Proc -> Nat] /\ attempt \in [Proc -> Attempts]
    BY DEF TypeOK
  <2>2. ASSUME pc'[p] \in {"attaching", "up", "stopping", "released", "dead"},
               started'[p] \in {started[p], 0}
        PROVE  ClaimInv(p)'
    BY <2>0, <2>2, <1>2 DEF ClaimInv
  <2>3. CASE Notice(p) \/ Stop(p)
    <3>1. /\ pc'[p] \in {"attaching", "up", "stopping"} /\ state'[p] \in {state[p], "Suspended", "Disposed"}
          /\ UNCHANGED <<row, slot, started, confirmed, attempt>>
      BY <2>3, <2>1 DEF Notice, Stop, StateNow
    <3> QED
      BY <3>1, <2>2, <1>1, <1>2 DEF LifetimeInv, Covered, Owns
  <2>4. CASE DeleteRow(p)
    <3>1. /\ pc'[p] = "released" /\ UNCHANGED <<slot, started, confirmed, attempt, state>>
          /\ pc[p] = "stopping" /\ attempt[p].at = "idle"
      BY <2>4, <2>1 DEF DeleteRow
    <3>2. state[p] = "Disposed"
      BY <3>1, IdleTyped
    <3> QED
      BY <3>1, <3>2, <2>2, <1>1, <1>2 DEF LifetimeInv
  <2>5. CASE Exit(p) \/ Die(p)
    <3>1. pc'[p] = "dead" /\ started'[p] = 0 /\ confirmed'[p] = 0
      BY <2>5, <2>1 DEF Exit, Die, End, Return
    <3>2. state'[p] = "none" /\ attempt'[p].at = "idle"
      BY <3>1 DEF TypeOK
    <3> QED
      BY <3>1, <3>2, <2>0, <2>2, <1>2 DEF LifetimeInv
  <2>6. CASE ConfirmOnce(p) \/ AttemptThrows(p)
    <3>1. UNCHANGED <<pc, slot, tries, started, read, seen>>
      BY <2>6 DEF ConfirmOnce, Begin, AskClock, Renew, ReadBack, Answer, Settle, AttemptThrows
    <3>2. pc[p] \in {"attaching", "up", "stopping", "released"}
      BY <2>6, IdleTyped DEF ConfirmOnce, Begin, AskClock, Renew, ReadBack, Answer, Settle, AttemptThrows
    <3>3. ClaimInv(p)'
      BY <3>1, <3>2, <2>2
    <3>4. LifetimeInv(p)'
      <4>1. CASE Begin(p)
        <5>1. /\ attempt'[p].at = "clock" /\ attempt'[p].start = now
              /\ state'[p] \in {state[p], "Suspended"} /\ UNCHANGED <<row, slot, confirmed>>
          BY <4>1, <2>1 DEF Begin, StateNow, NoAttempt
        <5> QED
          BY <5>1, <1>1, <1>2, <2>0 DEF LifetimeInv, Covered, Owns
      <4>2. CASE AskClock(p)
        <5>1. /\ attempt[p].at = "clock" /\ attempt'[p].at = "update"
              /\ attempt'[p].start = attempt[p].start /\ attempt'[p].expires = dbNow + LeaseTtl
              /\ UNCHANGED <<row, slot, confirmed, state>>
          BY <4>2, <2>1 DEF AskClock, Attempts
        <5>2. attempt'[p].expires > attempt'[p].start + LocalConfirmedTtl
          BY <5>1, <1>1, <2>0, Durations DEF LifetimeInv
        <5> QED
          BY <5>1, <5>2, <1>1, <1>2 DEF LifetimeInv, Covered, Owns
      <4>3. CASE Renew(p)
        <5>0. /\ attempt[p].at = "update" /\ UNCHANGED <<slot, confirmed, state>>
              /\ \/ row' = row /\ attempt'[p] = [attempt[p] EXCEPT !.at = "readback"]
                 \/ /\ Owns(p) /\ row' = [row EXCEPT ![slot[p]].expires = attempt[p].expires]
                    /\ attempt'[p] = [attempt[p] EXCEPT !.at = "answer", !.confirmed = TRUE]
          BY <4>3, <2>1 DEF Renew
        <5>1. /\ attempt[p].at = "update" /\ attempt'[p].start = attempt[p].start
              /\ attempt'[p].expires = attempt[p].expires /\ UNCHANGED <<slot, confirmed, state>>
              /\ \/ row' = row /\ attempt'[p].at = "readback"
                 \/ /\ Owns(p) /\ attempt'[p].at = "answer"
                    /\ row' = [row EXCEPT ![slot[p]].expires = attempt[p].expires]
          <6>1. attempt[p] \in Attempts
            BY <2>1
          <6> QED
            BY <6>1, <5>0 DEF Attempts
        <5>2. CASE row' = row /\ attempt'[p].at = "readback"
          BY <5>1, <5>2, <1>1, <1>2 DEF LifetimeInv, Covered, Owns
        <5>3. CASE /\ Owns(p) /\ attempt'[p].at = "answer"
                   /\ row' = [row EXCEPT ![slot[p]].expires = attempt[p].expires]
          <6>1. row'[slot[p]].owner = p /\ row'[slot[p]].expires = attempt[p].expires
            BY <5>3, FieldsTyped DEF Owns, TypeOK, Rows, NoRow
          <6>2. Covered(p, attempt[p].start)' /\ Covered(p, confirmed[p])'
            BY <6>1, <5>1, <2>0, <1>1, Durations DEF LifetimeInv, Covered, Owns
          <6> QED
            BY <5>1, <5>3, <6>2, <1>1, <1>2 DEF LifetimeInv, Covered, Owns
        <5> QED
          BY <5>1, <5>2, <5>3
      <4>4. CASE ReadBack(p)
        <5>1. /\ attempt[p].at = "readback" /\ attempt'[p].at = "answer"
              /\ attempt'[p].start = attempt[p].start
              /\ attempt'[p].confirmed => Owns(p) /\ row[slot[p]].expires >= attempt[p].expires
              /\ UNCHANGED <<row, slot, confirmed, state>>
          BY <4>4, <2>1 DEF ReadBack, Attempts
        <5>2. attempt'[p].confirmed => Covered(p, attempt[p].start)
          BY <5>1, <2>0, <1>1, FieldsTyped, Durations DEF LifetimeInv, Covered
        <5> QED
          BY <5>1, <5>2, <1>1, <1>2 DEF LifetimeInv, Covered, Owns
      <4>5. CASE Answer(p)
        <5>1. /\ attempt[p].at = "answer" /\ attempt'[p].at = "settle"
              /\ attempt'[p].start = attempt[p].start /\ attempt'[p].confirmed = attempt[p].confirmed
              /\ UNCHANGED <<row, slot, confirmed, state>>
          BY <4>5, <2>1 DEF Answer, Attempts
        <5> QED
          BY <5>1, <1>1, <1>2 DEF LifetimeInv, Covered, Owns
      <4>6. CASE Settle(p)
        <5>1. attempt[p].at = "settle" /\ attempt'[p].at = "idle" /\ UNCHANGED <<row, slot>>
          BY <4>6, <2>1 DEF Settle, NoAttempt
        <5>2. \/ confirmed' = confirmed /\ (state'[p] = "Active" => state[p] = "Active")
              \/ attempt[p].confirmed /\ confirmed'[p] = attempt[p].start
          BY <4>6, <2>1 DEF Settle, StateNow
        <5> QED
          BY <5>1, <5>2, <1>1, <1>2, <2>0 DEF LifetimeInv, Covered, Owns
      <4>7. CASE AttemptThrows(p)
        <5>1. /\ attempt'[p].at = "idle" /\ state'[p] \in {state[p], "Suspended"}
              /\ UNCHANGED <<row, slot, confirmed>>
          BY <4>7, <2>1 DEF AttemptThrows, StateNow, NoAttempt
        <5> QED
          BY <5>1, <1>1, <1>2 DEF LifetimeInv, Covered, Owns
      <4> QED
        BY <2>6, <4>1, <4>2, <4>3, <4>4, <4>5, <4>6, <4>7 DEF ConfirmOnce
    <3> QED
      BY <3>3, <3>4
  <2> QED
    BY <2>3, <2>4, <2>5, <2>6
<1> QED
  BY <1>5, <1>6 DEF LeaseInv

LEMMA ClockLease == TypeOK /\ LeaseInv /\ ClockTick => LeaseInv'
<1> SUFFICES ASSUME TypeOK, LeaseInv, ClockTick, NEW q \in Proc
             PROVE  ClaimInv(q)' /\ LifetimeInv(q)'
  BY DEF LeaseInv
<1>1. now \in Nat /\ dbNow \in Nat /\ dbNow <= now
  BY DEF TypeOK
<1>2. now' \in Nat /\ dbNow' \in Nat /\ now' >= now /\ dbNow' >= dbNow
  <2>1. now' = now + 1 /\ dbNow' \in {dbNow, now + 1}
    BY DEF ClockTick
  <2> QED
    BY <2>1, <1>1
<1>3. Same(q) /\ row' = row /\ pc' = pc
  BY DEF ClockTick, Same, claimVars, leaseVars
<1>4. Keeps(q)
  BY <1>2, <1>3, RowKeeps DEF Same
<1> QED
  BY <1>2, <1>3, <1>4, Bystander

LEMMA NextLease == TypeOK /\ TypeOK' /\ LeaseInv /\ [Next]_vars => LeaseInv'
<1> SUFFICES ASSUME TypeOK, TypeOK', LeaseInv, [Next]_vars PROVE LeaseInv'
  OBVIOUS
<1>1. CASE UNCHANGED vars
  BY <1>1 DEF vars, LeaseInv, ClaimInv, LifetimeInv, Covered, Owns
<1> QED
  BY <1>1, ClockLease, ClaimLease, LifetimeLease DEF Next

\* Whoever may issue has not lost the row, and while it has the row to itself
\* the local deadline comes before the row expires.
THEOREM LeaseInvariant == Spec => []LeaseInv
<1>1. Init => LeaseInv
  BY InitLease
<1>2. TypeOK /\ TypeOK' /\ LeaseInv /\ [Next]_vars => LeaseInv'
  BY NextLease
<1> QED
  BY <1>1, <1>2, TypeCorrect, PTL DEF Spec

LEMMA IssuersAre ==
    Issuers = {p \in Proc : pc[p] = "up" /\ state[p] = "Active" /\ ~(now - confirmed[p] >= LocalConfirmedTtl)}
  BY DEF Issuers, MayIssue, EnsuresActive, StateNow, PastDeadline

LEMMA IssuerOwns ==
    TypeOK /\ LeaseInv => \A p \in Issuers : Owns(p) /\ slot[p] \in Slot
<1> SUFFICES ASSUME TypeOK, LeaseInv, NEW p \in Issuers
             PROVE  Owns(p) /\ slot[p] \in Slot
  OBVIOUS
<1>1. p \in Proc /\ state[p] = "Active" /\ ~(now - confirmed[p] >= LocalConfirmedTtl)
  BY DEF Issuers, MayIssue, EnsuresActive, StateNow, PastDeadline
<1>2. Covered(p, confirmed[p])
  BY <1>1 DEF LeaseInv, LifetimeInv
<1>3. ~(now >= confirmed[p] + LocalConfirmedTtl)
  BY <1>1, FieldsTyped, Durations
<1> QED
  BY <1>1, <1>2, <1>3, FieldsTyped DEF Covered

\* Two processes never issue ids with one worker id at the same time
\* (SysWorkerLease.cs; WorkerIdAlreadyInUseException is for this case only).
THEOREM Exclusive == Spec => []ExclusiveWorkerId
<1>1. TypeOK /\ LeaseInv => ExclusiveWorkerId
  BY IssuerOwns DEF ExclusiveWorkerId, Owns
<1> QED
  BY <1>1, TypeCorrect, LeaseInvariant, PTL

(***************************************************************************)
(* The protocol implements WorkerIdOwnership.                              *)
(***************************************************************************)
OwnerNow   == [s \in Slot |-> row[s].owner]
IssuingNow == {<<slot[p], p>> : p \in Issuers}

\* A step of p that leaves the owners: p may begin to issue, with a row it owns,
\* or some processes may no longer.
LEMMA IssuingStep ==
    ASSUME \A q \in Issuers' : row'[slot'[q]].owner = q /\ slot'[q] \in Slot,
           NEW p, p \in Issuers' => p \in Proc,
           OwnerNow' = OwnerNow, slot \in [Proc -> Slot],
           Issuers' \subseteq Issuers \cup {p}, slot' = slot,
           p \in Issuers' => Issuers \subseteq Issuers'
    PROVE  Ownership!OwnershipNext
<1>1. CASE p \in Issuers'
  <2>1. Issuers' = Issuers \cup {p}
    BY <1>1
  <2>2. IssuingNow' = IssuingNow \cup {<<slot[p], p>>}
    BY <2>1 DEF IssuingNow
  <2>3. p \in Proc /\ slot[p] \in Slot /\ OwnerNow[slot[p]] = p
    BY <1>1 DEF OwnerNow
  <2>4. Ownership!Resume(slot[p], p)
    BY <2>2, <2>3 DEF Ownership!Resume, OwnerNow, IssuingNow
  <2> QED
    BY <2>3, <2>4 DEF Ownership!OwnershipNext, Ownership!Resume
<1>2. CASE p \notin Issuers'
  <2>1. Issuers' \subseteq Issuers
    BY <1>2
  <2> DEFINE S == {i \in Slot \X Proc : i \in IssuingNow /\ i \notin IssuingNow'}
  <2>2. IssuingNow' \subseteq IssuingNow
    BY <2>1 DEF IssuingNow
  <2>3. IssuingNow \subseteq Slot \X Proc
    BY DEF IssuingNow, Issuers
  <2>4. S \in SUBSET (Slot \X Proc) /\ IssuingNow' = IssuingNow \ S
    BY <2>2, <2>3
  <2>5. Ownership!Suspend(S)
    BY <2>4 DEF Ownership!Suspend, OwnerNow, IssuingNow
  <2> QED
    BY <2>4, <2>5 DEF Ownership!OwnershipNext, Ownership!Suspend
<1> QED
  BY <1>1, <1>2

\* A step that leaves who may issue: a row it rewrites changes hands only if its
\* owner may not issue, for an issuer owns its row before and after.
LEMMA OwnerStep ==
    ASSUME \A q \in Issuers : row[slot[q]].owner = q,
           \A q \in Issuers' : row'[slot'[q]].owner = q /\ slot'[q] \in Slot,
           Issuers' = Issuers, \A q \in Issuers : slot'[q] = slot[q],
           row \in [Slot -> Rows],
           NEW s \in Slot, NEW r \in Rows, row' = row \/ row' = [row EXCEPT ![s] = r]
    PROVE  [Ownership!OwnershipNext]_(Ownership!ownershipVars)
<1>1. IssuingNow' = IssuingNow
  BY DEF IssuingNow
<1>2. CASE OwnerNow' = OwnerNow
  BY <1>1, <1>2 DEF Ownership!ownershipVars, OwnerNow, IssuingNow
<1>3. CASE OwnerNow' # OwnerNow
  <2>1. OwnerNow' = [OwnerNow EXCEPT ![s] = r.owner]
    BY <1>3 DEF OwnerNow
  <2>2. ~Ownership!InUse(s)
    <3> SUFFICES ASSUME NEW q \in Issuers, slot[q] = s PROVE FALSE
      BY DEF Ownership!InUse, IssuingNow
    <3>1. row[s].owner = q /\ row'[s].owner = q
      OBVIOUS
    <3>2. OwnerNow'[s] = OwnerNow[s]
      BY <3>1 DEF OwnerNow
    <3> QED
      BY <3>2, <2>1, <1>3 DEF OwnerNow
  <2>3. r.owner \in Proc \/ r.owner = Nobody
    BY DEF Rows, NoRow
  <2>4. CASE r.owner \in Proc
    <3>1. Ownership!Take(s, r.owner)
      BY <1>1, <2>1, <2>2 DEF Ownership!Take, OwnerNow, IssuingNow
    <3> QED
      BY <3>1, <2>4 DEF Ownership!OwnershipNext, Ownership!Take
  <2>5. CASE r.owner = Nobody
    <3>1. Ownership!Release(s)
      BY <1>1, <2>1, <2>2, <2>5 DEF Ownership!Release, Ownership!Nobody, Nobody, OwnerNow, IssuingNow
    <3> QED
      BY <3>1 DEF Ownership!OwnershipNext, Ownership!Release
  <2> QED
    BY <2>3, <2>4, <2>5
<1> QED
  BY <1>2, <1>3

LEMMA IssuersOf ==
    ASSUME NEW p, \A q \in Proc : q # p =>
               pc'[q] = pc[q] /\ state'[q] = state[q] /\ confirmed'[q] = confirmed[q],
           now' = now
    PROVE  /\ Issuers' \subseteq Issuers \cup {p}
           /\ p \in Issuers' => Issuers \subseteq Issuers'
           /\ pc[p] # "up" /\ pc'[p] # "up" => Issuers' = Issuers
           /\ Issuers \subseteq Proc /\ Issuers' \subseteq Proc
  BY DEF Issuers, MayIssue, EnsuresActive, StateNow, PastDeadline

LEMMA IssuersOwn ==
    ASSUME TypeOK, TypeOK', LeaseInv, LeaseInv'
    PROVE  /\ \A q \in Issuers : row[slot[q]].owner = q /\ slot[q] \in Slot
           /\ \A q \in Issuers' : row'[slot'[q]].owner = q /\ slot'[q] \in Slot
<1>1. (TypeOK /\ LeaseInv => \A p \in Issuers : Owns(p) /\ slot[p] \in Slot)'
  BY IssuerOwns, PTL
<1> QED
  BY <1>1, IssuerOwns DEF Owns

LEMMA StepRefines ==
    ASSUME TypeOK, TypeOK', LeaseInv, LeaseInv', [Next]_vars
    PROVE  [Ownership!OwnershipNext]_(Ownership!ownershipVars)
<1> USE DEF Goto, Step, claimVars, leaseVars
<1>1. CASE UNCHANGED vars
  BY <1>1 DEF vars, Ownership!ownershipVars, Issuers, MayIssue, EnsuresActive, StateNow, PastDeadline
<1>2. CASE ClockTick
  <2>1. UNCHANGED <<row, slot, pc, state, confirmed>> /\ now' = now + 1
    BY <1>2 DEF ClockTick
  <2>2. Issuers' \subseteq Issuers /\ Issuers \subseteq Proc
    BY <2>1, Durations DEF TypeOK, Issuers, MayIssue, EnsuresActive, StateNow, PastDeadline
  <2>3. OwnerNow' = OwnerNow /\ slot \in [Proc -> Slot] /\ Nobody \notin Issuers'
    BY <2>1, <2>2, Durations DEF OwnerNow, TypeOK
  <2> QED
    BY <2>1, <2>2, <2>3, IssuersOwn, IssuingStep
<1>3. ASSUME NEW p \in Proc, \/ ConfirmOnce(p) \/ AttemptThrows(p) \/ Notice(p) \/ Stop(p)
                             \/ Exit(p) \/ Die(p) \/ Attach(p)
      PROVE  Ownership!OwnershipNext
  <2>1. now' = now /\ slot' = slot /\ \A q \in Proc : q # p =>
            pc'[q] = pc[q] /\ state'[q] = state[q] /\ confirmed'[q] = confirmed[q]
    BY <1>3 DEF ConfirmOnce, Begin, AskClock, Renew, ReadBack, Answer, Settle, AttemptThrows,
         Notice, Stop, Exit, Die, End, Return, Attach, TypeOK
  <2>2. OwnerNow' = OwnerNow
    <3>1. CASE row' = row
      BY <3>1 DEF OwnerNow
    <3>2. CASE Renew(p) /\ row' # row
      <4>1. row' = [row EXCEPT ![slot[p]].expires = attempt[p].expires] /\ slot[p] \in Slot
        BY <3>2 DEF Renew, TypeOK
      <4> QED
        BY <4>1 DEF OwnerNow, TypeOK, Rows, NoRow
    <3> QED
      BY <1>3, <3>1, <3>2 DEF ConfirmOnce, Begin, AskClock, ReadBack, Answer, Settle, AttemptThrows,
           Notice, Stop, Exit, Die, End, Attach
  <2>3. slot \in [Proc -> Slot]
    BY DEF TypeOK
  <2> QED
    BY <2>1, <2>2, <2>3, IssuersOf, IssuersOwn, IssuingStep
<1>4. ASSUME NEW p \in Proc, \/ (Claim(p) /\ ~Attach(p)) \/ LockConflict(p) \/ ClaimThrows(p)
                             \/ DeleteRow(p)
      PROVE  [Ownership!OwnershipNext]_(Ownership!ownershipVars)
  <2>1. /\ now' = now /\ pc[p] # "up" /\ pc'[p] # "up"
        /\ \A q \in Proc : q # p =>
              pc'[q] = pc[q] /\ state'[q] = state[q] /\ confirmed'[q] = confirmed[q] /\ slot'[q] = slot[q]
    BY <1>4 DEF Claim, Sample, ReadClock, Look, Insert, Recheck, Update, NextSlot, LockFile, Undo,
         Construct, LockConflict, ClaimThrows, DeleteRow, Return, TypeOK
  <2>2. Issuers' = Issuers /\ \A q \in Issuers : slot'[q] = slot[q]
    <3>1. p \notin Issuers
      BY <2>1 DEF Issuers, MayIssue
    <3> QED
      BY <2>1, <3>1, IssuersOf
  <2>3. \E r \in Rows : row' = row \/ row' = [row EXCEPT ![slot[p]] = r]
    <3>1. NoRow \in Rows /\ MyRow(p) \in Rows
      BY RowsTyped DEF Rows
    <3> QED
      BY <1>4, <3>1 DEF Claim, Sample, ReadClock, Look, Insert, Recheck, Update, NextSlot, LockFile, Undo,
         Construct, LockConflict, ClaimThrows, DeleteRow, DeleteOwn
  <2>4. row \in [Slot -> Rows] /\ slot[p] \in Slot
    BY DEF TypeOK
  <2> QED
    BY <2>2, <2>3, <2>4, IssuersOwn, OwnerStep
<1> QED
  BY <1>1, <1>2, <1>3, <1>4 DEF Next, Claim

\* A worker id changes hands only while no process may issue with it, and none
\* but the process its row names begins to: the lease of
\* DbWorkerIdSlotClaimer and DbWorkerIdLeaseLifetime implements the ownership
\* that SnowflakeIdGenerator relies on.
THEOREM Refines == Spec => ImplementsOwnership
<1>1. Init => Ownership!OwnershipInit
  BY DEF Init, NoRow, Ownership!OwnershipInit, Ownership!Nobody, Nobody, Issuers, MayIssue
<1>2. TypeOK /\ TypeOK' /\ LeaseInv /\ LeaseInv' /\ [Next]_vars =>
          [Ownership!OwnershipNext]_(Ownership!ownershipVars)
  BY StepRefines
<1> QED
  BY <1>1, <1>2, TypeCorrect, LeaseInvariant, PTL DEF Spec, ImplementsOwnership, Ownership!OwnershipSpec
=============================================================================
