------------------------- MODULE WorkerIdOwnership -------------------------
(***************************************************************************)
(* What the lease on sys_worker_lease promises the id generators: a worker *)
(* id has one owner at most, no process but the owner begins to issue ids  *)
(* with it, and it changes hands only while no process issues with it, so  *)
(* that whoever issues is its owner.  How that is brought about with two   *)
(* clocks, late answers and dead processes is WorkerIdLease's matter.      *)
(***************************************************************************)
CONSTANTS Slot,     \* worker ids
          Proc      \* processes, each with a token of its own

VARIABLES owner,    \* owner[s]: the process whose row it is, or Nobody
          issuing   \* who may issue at this moment, and with which worker id

ownershipVars == <<owner, issuing>>

Nobody == "nobody"

OwnershipInit ==
    /\ owner = [s \in Slot |-> Nobody]
    /\ issuing = {}

InUse(s) == \E p \in Proc : <<s, p>> \in issuing

Take(s, p) ==
    /\ ~InUse(s)
    /\ owner' = [owner EXCEPT ![s] = p]
    /\ UNCHANGED issuing

Release(s) ==
    /\ ~InUse(s)
    /\ owner' = [owner EXCEPT ![s] = Nobody]
    /\ UNCHANGED issuing

Resume(s, p) ==
    /\ owner[s] = p
    /\ issuing' = issuing \cup {<<s, p>>}
    /\ UNCHANGED owner

Suspend(S) ==
    /\ issuing' = issuing \ S
    /\ UNCHANGED owner

OwnershipNext ==
    \/ \E s \in Slot : Release(s) \/ \E p \in Proc : Take(s, p) \/ Resume(s, p)
    \/ \E S \in SUBSET (Slot \X Proc) : Suspend(S)

OwnershipSpec == OwnershipInit /\ [][OwnershipNext]_ownershipVars
=============================================================================
