------------------------------ MODULE ChunkUpload ------------------------------
(***************************************************************************)
(* The chunked upload of the console (utils/chunkUpload) and the server's  *)
(* session it fills (FileService, ChunkStorage): ask the server which      *)
(* chunks it has, send the others with a few concurrent workers that share *)
(* a cursor, then complete. A chunk that fails rejects the whole upload at *)
(* once, but the other workers go on. The upload id is the file's hash:    *)
(* whoever else sends the same file, in this page, in another or as        *)
(* another user, works on the same session at the same time, and a         *)
(* complete or the sweep discards its chunks under all of them.            *)
(***************************************************************************)
EXTENDS Naturals, FiniteSets

CONSTANTS CuChunks,        \* number of chunks of the file
          CuConcurrency,   \* CONCURRENCY
          CuAttempts       \* bound of the attempts

ASSUME CuAssumption == {CuChunks, CuConcurrency, CuAttempts} \subseteq Nat \ {0}

VARIABLES cuServer,        \* whether a file of this hash exists, the parts the session has,
                           \* and those of given-up requests it may still get
          cuPhase,         \* the attempts: see CuTypeOK
          cuLeft,          \* per attempt: the chunks behind the cursor
          cuFlights,       \* per attempt: the requests of its workers
          cuUploaded,      \* per attempt: the counter of the progress bar
          cuKnown,         \* history, per attempt: the chunks its init answer named
          cuWiped          \* history, per attempt: chunks were discarded since that answer

cuVars == <<cuServer, cuPhase, cuLeft, cuFlights, cuUploaded, cuKnown, cuWiped>>

Chunks == 0..(CuChunks - 1)
Attempts == 1..CuAttempts

CuTypeOK ==
  /\ cuServer.file \in BOOLEAN /\ cuServer.has \subseteq Chunks /\ cuServer.late \subseteq Chunks
  /\ cuPhase \in [Attempts -> {"no", "asked", "sending", "completing", "merging",
                           "missing", "ok", "failed"}]
  /\ cuLeft \in [Attempts -> SUBSET Chunks] /\ cuKnown \in [Attempts -> SUBSET Chunks]
  /\ cuFlights \in [Attempts -> SUBSET [chunk : Chunks, worker : 1..CuConcurrency, stored : BOOLEAN]]
  /\ cuUploaded \in [Attempts -> Nat] /\ cuWiped \in [Attempts -> BOOLEAN]

CuInit ==
  /\ cuServer = [file |-> FALSE, has |-> {}, late |-> {}]
  /\ cuPhase = [a \in Attempts |-> "no"]
  /\ cuLeft = [a \in Attempts |-> {}] /\ cuFlights = [a \in Attempts |-> {}]
  /\ cuUploaded = [a \in Attempts |-> 0] /\ cuKnown = [a \in Attempts |-> {}]
  /\ cuWiped = [a \in Attempts |-> FALSE]

\* The workers of S, each with the next chunk behind the cursor.
FirstOf(S) == CHOOSE c \in S : \A d \in S : c <= d
NextOf(S, w) == {c \in S : Cardinality({d \in S : d < c}) < w}

Claims(S, w) ==
  {[chunk |-> c, worker |-> Cardinality({d \in S : d <= c}), stored |-> FALSE] : c \in NextOf(S, w)}

\* DiscardAsync: the parts go, under every attempt that relied on them.
Discard(file) ==
  /\ cuServer' = [cuServer EXCEPT !.file = file, !.has = {}]
  /\ cuWiped' = [a \in Attempts |-> cuWiped[a] \/ cuServer.has # {}]

\* chunkInit looks for the file; attempts are numbered as they begin, whatever became of
\* the earlier ones.
CuAsk(a) ==
  /\ cuPhase[a] = "no" /\ \A b \in 1..(a - 1) : cuPhase[b] # "no"
  /\ \E p \in {IF cuServer.file THEN "ok" ELSE "asked", "failed"} : cuPhase' = [cuPhase EXCEPT ![a] = p]
  /\ UNCHANGED <<cuServer, cuLeft, cuFlights, cuUploaded, cuKnown, cuWiped>>

\* It lists the parts it has, and with its answer the workers start on the others.
CuBegin(a) ==
  LET missing == Chunks \ cuServer.has
  IN /\ cuPhase[a] = "asked"
     /\ cuPhase' = [cuPhase EXCEPT ![a] = IF missing = {} THEN "completing" ELSE "sending"]
     /\ cuFlights' = [cuFlights EXCEPT ![a] = Claims(missing, CuConcurrency)]
     /\ cuLeft' = [cuLeft EXCEPT ![a] = missing \ NextOf(missing, CuConcurrency)]
     /\ cuUploaded' = [cuUploaded EXCEPT ![a] = Cardinality(cuServer.has)]
     /\ cuKnown' = [cuKnown EXCEPT ![a] = cuServer.has]
     /\ cuWiped' = [cuWiped EXCEPT ![a] = FALSE]
     /\ UNCHANGED cuServer

\* SaveChunkAsync: the part is there, whole or not yet.
CuStore(a, f) ==
  /\ ~f.stored /\ cuFlights' = [cuFlights EXCEPT ![a] = (@ \ {f}) \cup {[f EXCEPT !.stored = TRUE]}]
  /\ cuServer' = [cuServer EXCEPT !.has = @ \cup {f.chunk}]
  /\ UNCHANGED <<cuPhase, cuLeft, cuUploaded, cuKnown, cuWiped>>

\* Mutant of CuChunkOk: the first worker that runs out of chunks completes.
CuChunkOkMutant(a, f) ==
  /\ f.stored /\ cuUploaded' = [cuUploaded EXCEPT ![a] = @ + 1]
  /\ LET rest == cuFlights[a] \ {f}
     IN IF cuLeft[a] # {}
        THEN /\ cuFlights' = [cuFlights EXCEPT
                  ![a] = rest \cup {[chunk |-> FirstOf(cuLeft[a]), worker |-> f.worker, stored |-> FALSE]}]
             /\ cuLeft' = [cuLeft EXCEPT ![a] = @ \ {FirstOf(@)}]
             /\ UNCHANGED cuPhase
        ELSE /\ cuFlights' = [cuFlights EXCEPT ![a] = rest]
             /\ cuPhase' = [cuPhase EXCEPT ![a] = IF @ = "sending" THEN "completing" ELSE @]
             /\ UNCHANGED cuLeft
  /\ UNCHANGED <<cuServer, cuKnown, cuWiped>>

\* A worker's answer: it claims the next chunk, whether or not the attempt has failed
\* meanwhile; the attempt completes when the last worker has run out of chunks.
CuChunkOk(a, f) ==
  /\ f.stored /\ cuUploaded' = [cuUploaded EXCEPT ![a] = @ + 1]
  /\ LET rest == cuFlights[a] \ {f}
     IN IF cuLeft[a] # {}
        THEN /\ cuFlights' = [cuFlights EXCEPT
                  ![a] = rest \cup {[chunk |-> FirstOf(cuLeft[a]), worker |-> f.worker, stored |-> FALSE]}]
             /\ cuLeft' = [cuLeft EXCEPT ![a] = @ \ {FirstOf(@)}]
             /\ UNCHANGED cuPhase
        ELSE /\ cuFlights' = [cuFlights EXCEPT ![a] = rest]
             /\ cuPhase' = [cuPhase EXCEPT ![a] = IF rest = {} /\ @ = "sending" THEN "completing" ELSE @]
             /\ UNCHANGED cuLeft
  /\ UNCHANGED <<cuServer, cuKnown, cuWiped>>

\* A worker fails, and the upload rejects: the chunk is stored already, never, or later.
CuChunkFail(a, f) ==
  /\ cuFlights' = [cuFlights EXCEPT ![a] = @ \ {f}]
  /\ cuPhase' = [cuPhase EXCEPT ![a] = "failed"]
  /\ \/ UNCHANGED cuServer
     \/ ~f.stored /\ cuServer' = [cuServer EXCEPT !.late = @ \cup {f.chunk}]
  /\ UNCHANGED <<cuLeft, cuUploaded, cuKnown, cuWiped>>

\* chunkComplete: a file of this hash that exists by now is the answer.
CuComplete(a) ==
  /\ cuPhase[a] = "completing"
  /\ IF cuServer.file
     THEN /\ Discard(TRUE) /\ \E p \in {"ok", "failed"} : cuPhase' = [cuPhase EXCEPT ![a] = p]
     ELSE /\ \E p \in {"merging", "failed"} : cuPhase' = [cuPhase EXCEPT ![a] = p]
          /\ UNCHANGED <<cuServer, cuWiped>>
  /\ UNCHANGED <<cuLeft, cuFlights, cuUploaded, cuKnown>>

(* MergeAsync and what follows it: a part that is not there refuses the      *)
(* complete and keeps the others; a hash that does not match (a part half    *)
(* written), a size or an extension refuses it for good and discards them;   *)
(* any other failure keeps them. The answer may be lost.                     *)
CuMerge(a) ==
  /\ cuPhase[a] = "merging"
  /\ \/ /\ cuServer.has # Chunks /\ UNCHANGED <<cuServer, cuWiped>>
        /\ \E p \in {"missing", "failed"} : cuPhase' = [cuPhase EXCEPT ![a] = p]
     \/ /\ cuServer.has = Chunks /\ Discard(TRUE)
        /\ \E p \in {"ok", "failed"} : cuPhase' = [cuPhase EXCEPT ![a] = p]
     \/ /\ cuServer.has = Chunks /\ (Discard(cuServer.file) \/ UNCHANGED <<cuServer, cuWiped>>)
        /\ cuPhase' = [cuPhase EXCEPT ![a] = "failed"]
  /\ UNCHANGED <<cuLeft, cuFlights, cuUploaded, cuKnown>>

\* The server on its own: the sweep of sessions no part was written to for long, the last
\* file of this hash deleted, and the chunk of a request its worker has given up.
CuServer ==
  /\ \/ cuServer.has # {} /\ Discard(cuServer.file)
     \/ cuServer.file /\ cuServer' = [cuServer EXCEPT !.file = FALSE] /\ UNCHANGED cuWiped
     \/ /\ \E c \in cuServer.late :
             cuServer' = [cuServer EXCEPT !.has = @ \cup {c}, !.late = @ \ {c}]
        /\ UNCHANGED cuWiped
  /\ UNCHANGED <<cuPhase, cuLeft, cuFlights, cuUploaded, cuKnown>>

CuNext ==
  \/ CuServer
  \/ \E a \in Attempts :
       \/ CuAsk(a) \/ CuBegin(a) \/ CuComplete(a) \/ CuMerge(a)
       \/ \E f \in cuFlights[a] : CuStore(a, f) \/ CuChunkOk(a, f) \/ CuChunkFail(a, f)

CuSpec == CuInit /\ [][CuNext]_cuVars

------------------------------------------------------------------------------
(* Whoever sends the same file at the same time, whatever fails and is begun *)
(* again while older workers are still sending: a complete is asked for only *)
(* once each chunk was named by init or acknowledged, and the server misses  *)
(* one only if parts were discarded since that init; and the workers of an   *)
(* attempt never send a chunk twice, nor one the server had when it began.   *)
CuSendsWhatIsMissing ==
  \A a \in Attempts :
    /\ cuPhase[a] = "missing" => cuWiped[a]
    /\ cuPhase[a] \in {"completing", "merging"} => cuUploaded[a] = CuChunks
    /\ cuUploaded[a] <= CuChunks
    /\ \A f, g \in cuFlights[a] : f.chunk = g.chunk => f = g
    /\ \A f \in cuFlights[a] : f.chunk \notin cuKnown[a] \cup cuLeft[a]
==============================================================================
