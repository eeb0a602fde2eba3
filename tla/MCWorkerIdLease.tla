-------------------------- MODULE MCWorkerIdLease --------------------------
(***************************************************************************)
(* Small instances of WorkerIdLease.                                       *)
(***************************************************************************)
EXTENDS WorkerIdLease, TLC

CONSTANTS p1, p2

OneMachine  == [p \in Proc |-> "m1"]
Mixed       == [p \in Proc |-> IF p = p1 THEN 0 ELSE Scan]
=============================================================================
