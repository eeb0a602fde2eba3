----------------------------- MODULE MCJobRuns -----------------------------
(***************************************************************************)
(* Small instances of JobRuns.                                             *)
(***************************************************************************)
EXTENDS JobRuns, TLC

CONSTANTS n1, n2, serial, parallel

OneNode   == {n1}
TwoNodes  == {n1, n2}
OneJob    == {serial}
NoJob     == {}
OneParallel == {parallel}
TwoJobs   == {serial, parallel}
=============================================================================
