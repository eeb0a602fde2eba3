------------------------------ MODULE DictStore ------------------------------
(***************************************************************************)
(* The dictionary cache of the web console (stores/dict): a memory cache   *)
(* per type code, a table of the requests in flight that callers share,    *)
(* and the invalidation the dictionary pages call after a change.          *)
(*                                                                         *)
(* A request's `.then' and `.finally' are two microtasks, so other         *)
(* callbacks run between them; the server may answer requests in any       *)
(* order, and a request it has read may stay on the wire for long.         *)
(***************************************************************************)
EXTENDS Naturals, FiniteSets

CONSTANTS DictTypes,     \* type codes
          DictReqs,      \* requests, each used once
          DictNone,      \* no request
          DictMaxVer     \* bound of the content versions on the server

ASSUME DictAssumption == DictNone \notin DictReqs /\ DictMaxVer \in Nat

VARIABLES dSrv,          \* version of a type's items in the database
          dCache,        \* version cached, 0 when the type is not cached
          dPending,      \* the shared request of a type
          dReq,          \* the requests
          dFloor         \* history: dSrv when the type was last invalidated

dictVars == <<dSrv, dCache, dPending, dReq, dFloor>>

Unused == [st |-> "unused", type |-> DictNone, ver |-> 0, want |-> 0]

DictTypeOK ==
  /\ dSrv \in [DictTypes -> Nat] /\ dCache \in [DictTypes -> Nat]
  /\ dPending \in [DictTypes -> DictReqs \cup {DictNone}]
  /\ dFloor \in [DictTypes -> Nat]
  /\ dReq \in [DictReqs -> [st : {"unused", "asked", "read", "lost", "settling", "done"},
                            type : DictTypes \cup {DictNone}, ver : Nat, want : Nat]]

DictInit ==
  /\ dSrv = [t \in DictTypes |-> 1]
  /\ dCache = [t \in DictTypes |-> 0]
  /\ dPending = [t \in DictTypes |-> DictNone]
  /\ dReq = [r \in DictReqs |-> Unused]
  /\ dFloor = [t \in DictTypes |-> 0]

(* load: a hit needs no step. `want' remembers what the latest caller of    *)
(* the request may expect: nothing older than the last invalidation.        *)
DictLoadJoin(t, r) ==
  /\ dCache[t] = 0 /\ dPending[t] = r
  /\ dReq' = [dReq EXCEPT ![r].want = dFloor[t]]
  /\ UNCHANGED <<dSrv, dCache, dPending, dFloor>>

DictLoadAsk(t, r) ==
  /\ dCache[t] = 0 /\ dPending[t] = DictNone /\ dReq[r].st = "unused"
  /\ dReq' = [dReq EXCEPT ![r] = [st |-> "asked", type |-> t, ver |-> 0, want |-> dFloor[t]]]
  /\ dPending' = [dPending EXCEPT ![t] = r]
  /\ UNCHANGED <<dSrv, dCache, dFloor>>

\* The server reads the items; the answer may be lost before or after that.
DictServe(r) ==
  /\ dReq[r].st = "asked"
  /\ dReq' = [dReq EXCEPT ![r].st = "read", ![r].ver = dSrv[dReq[r].type]]
  /\ UNCHANGED <<dSrv, dCache, dPending, dFloor>>

DictLose(r) ==
  /\ dReq[r].st \in {"asked", "read"}
  /\ dReq' = [dReq EXCEPT ![r].st = "lost"]
  /\ UNCHANGED <<dSrv, dCache, dPending, dFloor>>

\* Mutant of DictThen: an answer is cached whoever is registered.
DictThenMutant(r) ==
  /\ dReq[r].st = "read"
  /\ dReq' = [dReq EXCEPT ![r].st = "settling"]
  /\ dCache' = [dCache EXCEPT ![dReq[r].type] = dReq[r].ver]
  /\ UNCHANGED <<dSrv, dPending, dFloor>>

\* .then: only the request still registered writes the cache.
DictThen(r) ==
  /\ dReq[r].st = "read"
  /\ dReq' = [dReq EXCEPT ![r].st = "settling"]
  /\ dCache' = IF dPending[dReq[r].type] = r
               THEN [dCache EXCEPT ![dReq[r].type] = dReq[r].ver]
               ELSE dCache
  /\ UNCHANGED <<dSrv, dPending, dFloor>>

\* Mutant of DictFinally: a failed request stays in the table.
DictFinallyMutant(r) ==
  /\ dReq[r].st \in {"settling", "lost"}
  /\ dReq' = [dReq EXCEPT ![r] = [Unused EXCEPT !.st = "done"]]
  /\ dPending' = IF dPending[dReq[r].type] = r /\ dReq[r].st = "settling"
                 THEN [dPending EXCEPT ![dReq[r].type] = DictNone]
                 ELSE dPending
  /\ UNCHANGED <<dSrv, dCache, dFloor>>

\* .finally: after the answer or after the failure, which `.then' skips.
DictFinally(r) ==
  /\ dReq[r].st \in {"settling", "lost"}
  /\ dReq' = [dReq EXCEPT ![r] = [Unused EXCEPT !.st = "done"]]
  /\ dPending' = IF dPending[dReq[r].type] = r
                 THEN [dPending EXCEPT ![dReq[r].type] = DictNone]
                 ELSE dPending
  /\ UNCHANGED <<dSrv, dCache, dFloor>>

\* Somebody, in this page or in another, changes the items of a type.
DictChange(t) ==
  /\ dSrv[t] < DictMaxVer
  /\ dSrv' = [dSrv EXCEPT ![t] = @ + 1]
  /\ UNCHANGED <<dCache, dPending, dReq, dFloor>>

\* Mutant of DictInvalidate: the request in flight stays shared.
DictInvalidateMutant(S) ==
  /\ dCache' = [t \in DictTypes |-> IF t \in S THEN 0 ELSE dCache[t]]
  /\ dFloor' = [t \in DictTypes |-> IF t \in S THEN dSrv[t] ELSE dFloor[t]]
  /\ UNCHANGED <<dSrv, dPending, dReq>>

\* invalidate(typeCode), and invalidate() for S = DictTypes.
DictInvalidate(S) ==
  /\ dCache' = [t \in DictTypes |-> IF t \in S THEN 0 ELSE dCache[t]]
  /\ dPending' = [t \in DictTypes |-> IF t \in S THEN DictNone ELSE dPending[t]]
  /\ dFloor' = [t \in DictTypes |-> IF t \in S THEN dSrv[t] ELSE dFloor[t]]
  /\ UNCHANGED <<dSrv, dReq>>

DictNext ==
  \/ \E t \in DictTypes, r \in DictReqs : DictLoadJoin(t, r) \/ DictLoadAsk(t, r)
  \/ \E r \in DictReqs : DictServe(r) \/ DictLose(r) \/ DictThen(r) \/ DictFinally(r)
  \/ \E t \in DictTypes : DictChange(t) \/ DictInvalidate({t})
  \/ DictInvalidate(DictTypes)

DictSpec == DictInit /\ [][DictNext]_dictVars

------------------------------------------------------------------------------
(* What is cached is never older than the last invalidation: an answer that *)
(* was read before it, and arrives after it, is not written back.           *)
DictCacheIsFresh == \A t \in DictTypes : dCache[t] # 0 => dCache[t] >= dFloor[t]

(* A caller that joins a shared request never receives items read before    *)
(* an invalidation that preceded its call, and never joins one that is      *)
(* over: a failed request leaves the table.                                 *)
DictJoinIsFresh ==
  /\ \A r \in DictReqs : dReq[r].st \in {"read", "settling"} => dReq[r].ver >= dReq[r].want
  /\ \A t \in DictTypes : dPending[t] # DictNone => dReq[dPending[t]].st # "done"
==============================================================================
