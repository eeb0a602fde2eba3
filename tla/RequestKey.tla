------------------------------ MODULE RequestKey ------------------------------
(***************************************************************************)
(* The request keys of the workflow pages (workflow/useRequestKey) against *)
(* the operation receipts of the engine: a submission whose answer is lost *)
(* may be repeated, and the engine recognises it by its key and its target *)
(* (the version of the definition, the user or the task it is about). The  *)
(* pages are the start page, the delegation dialog (opened anew for every  *)
(* rule) and the task dialog, which may be moved to another instance while *)
(* a submission is out.                                                    *)
(*                                                                         *)
(* The client gives up on a submission without knowing how far it came: it *)
(* may still be on its way, inside its transaction, or committed.          *)
(***************************************************************************)
EXTENDS Naturals, Sequences

CONSTANTS RkMaxTries,    \* bound of the submissions
          RkMaxIntents,  \* bound of what the user wants, one thing after another
          RkMaxVersions  \* bound of the versions of a definition

ASSUME RequestKeyAssumption == RkMaxTries \in Nat /\ RkMaxIntents \in Nat \ {0} /\ RkMaxVersions \in Nat \ {0}

VARIABLES rkFront,       \* "vue" or "react"
          rkPage,        \* "start", "dialog" or "task"
          rkKey,         \* the page's key, 0 for null
          rkKeys,        \* keys generated so far
          rkContent,     \* what the form holds
          rkGen,         \* generation of the task dialog
          rkBusy,        \* submitting
          rkTries,       \* the submissions
          rkVersion,     \* what a start resolves its definition to: version and organisation
          rkEffects,     \* committed operations with their receipts
          rkIntent       \* history: number of the user's present intent

rkVars == <<rkFront, rkPage, rkKey, rkKeys, rkContent, rkGen, rkBusy, rkTries, rkVersion, rkEffects, rkIntent>>

\* Of the contents the third is also another command, or about another definition or user.
Contents == {1, 2, 3}
Targets == (0..RkMaxVersions) \X BOOLEAN
Unresolved == <<0, FALSE>>
TargetOf(content) == <<rkVersion, content = 3>>

\* What a receipt is found by: scope, command, target, actor and key. The payload is not of it.
Identity(x) == <<x.key, x.target>>

RkTypeOK ==
  /\ rkFront \in {"vue", "react"} /\ rkPage \in {"start", "dialog", "task"}
  /\ rkKeys \in Nat /\ rkKey \in 0..rkKeys /\ rkContent \in Contents
  /\ rkGen \in Nat /\ rkBusy \in BOOLEAN /\ rkIntent \in 1..RkMaxIntents
  /\ rkVersion \in 1..RkMaxVersions
  /\ rkTries \in Seq([key : 1..rkKeys, content : Contents, intent : 1..RkMaxIntents, gen : Nat, target : Targets,
                      client : {"waiting", "told", "refused", "gaveUp"},
                      server : {"out", "bound", "tran", "ok", "no", "never"}])
  /\ rkEffects \subseteq [key : 1..rkKeys, content : Contents, intent : 1..RkMaxIntents,
                           target : Targets, try : DOMAIN rkTries]

RkInit ==
  /\ rkFront \in {"vue", "react"}
  /\ rkPage \in {"start", "dialog"} \cup (IF rkFront = "vue" THEN {"task"} ELSE {})
  /\ rkKey = 0 /\ rkKeys = 0 /\ rkContent = 1 /\ rkGen = 0 /\ rkBusy = FALSE
  /\ rkTries = <<>> /\ rkVersion = 1 /\ rkEffects = {} /\ rkIntent = 1

NewIntent == rkIntent < RkMaxIntents /\ rkIntent' = rkIntent + 1

\* The user edits the form: React's onValuesChange resets the key, Vue keeps it.
RkEdit ==
  /\ NewIntent
  /\ rkContent' \in Contents \ {rkContent}
  /\ rkKey' = IF rkFront = "react" THEN 0 ELSE rkKey
  /\ UNCHANGED <<rkFront, rkPage, rkKeys, rkGen, rkBusy, rkTries, rkVersion, rkEffects>>

\* open, openForm and resetForm: a new action takes a new key. Only the task dialog refuses
\* while a submission is out; the other is closed by its cancel (Vue) or with its page (React).
RkOpen ==
  /\ rkPage = "dialog" \/ (rkPage = "task" /\ ~rkBusy)
  /\ NewIntent
  /\ rkKey' = 0
  /\ UNCHANGED <<rkFront, rkPage, rkKeys, rkContent, rkGen, rkBusy, rkTries, rkVersion, rkEffects>>

\* invalidateInstance: the page shows another instance.
RkSwitch ==
  /\ rkPage = "task" /\ NewIntent
  /\ rkGen' = rkGen + 1 /\ rkKey' = 0 /\ rkBusy' = FALSE
  /\ UNCHANGED <<rkFront, rkPage, rkKeys, rkContent, rkTries, rkVersion, rkEffects>>

\* submit, with value(): the key is generated when it is first asked for. What the forms
\* validate before is decided without waiting for anything.
RkSubmit ==
  /\ ~rkBusy /\ Len(rkTries) < RkMaxTries
  /\ rkKeys' = IF rkKey = 0 THEN rkKeys + 1 ELSE rkKeys
  /\ rkKey' = IF rkKey = 0 THEN rkKeys + 1 ELSE rkKey
  /\ rkTries' = Append(rkTries, [key |-> rkKey', content |-> rkContent, intent |-> rkIntent,
                                 gen |-> rkGen, target |-> Unresolved,
                                 client |-> "waiting", server |-> "out"])
  /\ rkBusy' = TRUE
  /\ UNCHANGED <<rkFront, rkPage, rkContent, rkGen, rkVersion, rkEffects, rkIntent>>

\* Mutant of ReceiptAnswer: the payload is not compared.
ReceiptAnswerMutant(e, try) == "ok"

\* A receipt is found: the first result, unless it is of another payload.
ReceiptAnswer(e, try) == IF e.content = try.content THEN "ok" ELSE "no"

\* A version of the definition is published, or the user changes the organisation.
RkPublish ==
  /\ rkPage = "start" /\ rkVersion < RkMaxVersions
  /\ rkVersion' = rkVersion + 1
  /\ UNCHANGED <<rkFront, rkPage, rkKey, rkKeys, rkContent, rkGen, rkBusy, rkTries, rkEffects, rkIntent>>

\* StartAsync and its likes: every submission is resolved anew when it is served, or refused.
RkResolve(i, refused) ==
  /\ rkTries[i].server = "out"
  /\ rkTries' = [rkTries EXCEPT ![i].target = TargetOf(rkTries[i].content),
                                ![i].server = IF refused THEN "no" ELSE "bound"]
  /\ UNCHANGED <<rkFront, rkPage, rkKey, rkKeys, rkContent, rkGen, rkBusy, rkVersion, rkEffects, rkIntent>>

\* TryBeginAsync: the placeholder of a running transaction of the same identity blocks.
TryBegin(i) ==
  LET hits == {e \in rkEffects : Identity(e) = Identity(rkTries[i])}
  IN /\ rkTries[i].server = "bound"
     /\ \A j \in DOMAIN rkTries : rkTries[j].server = "tran" => Identity(rkTries[j]) # Identity(rkTries[i])
     /\ rkTries' = [rkTries EXCEPT ![i].server =
          IF hits = {} THEN "tran" ELSE ReceiptAnswer(CHOOSE e \in hits : TRUE, rkTries[i])]

RkServeBegin(i) ==
  /\ TryBegin(i)
  /\ UNCHANGED <<rkFront, rkPage, rkKey, rkKeys, rkContent, rkGen, rkBusy, rkVersion, rkEffects, rkIntent>>

\* The operation and its receipt commit together, or a failure rolls both back.
RkServeEnd(i, committed) ==
  /\ rkTries[i].server = "tran"
  /\ rkTries' = [rkTries EXCEPT ![i].server = IF committed THEN "ok" ELSE "no"]
  /\ rkEffects' = IF ~committed THEN rkEffects ELSE rkEffects \cup
       {[key |-> rkTries[i].key, content |-> rkTries[i].content, intent |-> rkTries[i].intent,
         target |-> rkTries[i].target, try |-> i]}
  /\ UNCHANGED <<rkFront, rkPage, rkKey, rkKeys, rkContent, rkGen, rkBusy, rkVersion, rkIntent>>

RkLoseRequest(i) ==
  /\ rkTries[i].server = "out"
  /\ rkTries' = [rkTries EXCEPT ![i].server = "never"]
  /\ UNCHANGED <<rkFront, rkPage, rkKey, rkKeys, rkContent, rkGen, rkBusy, rkVersion, rkEffects, rkIntent>>

\* Mutant of Settle: an unknown outcome drops the key too.
SettleMutant(try, outcome) == IF try.gen = rkGen THEN 0 ELSE rkKey

\* settle: only an answer drops the key, and only of the dialog's present generation.
Settle(try, outcome) == IF outcome # "gaveUp" /\ try.gen = rkGen THEN 0 ELSE rkKey

RkSettled(i, outcome) ==
  /\ rkTries[i].client = "waiting"
  /\ rkTries' = [rkTries EXCEPT ![i].client = outcome]
  /\ rkKey' = Settle(rkTries[i], outcome)
  /\ rkBusy' = (rkBusy /\ rkTries[i].gen # rkGen)
  /\ UNCHANGED <<rkFront, rkPage, rkKeys, rkContent, rkGen, rkVersion, rkEffects>>

\* An answer ends the intent it belongs to, success or not.
RkAnswer(i) ==
  /\ rkTries[i].server \in {"ok", "no"}
  /\ RkSettled(i, IF rkTries[i].server = "ok" THEN "told" ELSE "refused")
  /\ IF rkTries[i].intent = rkIntent THEN NewIntent ELSE UNCHANGED rkIntent

\* classifyOutcome's `network': no answer, whatever the server has done or will do.
RkGiveUp(i) == RkSettled(i, "gaveUp") /\ UNCHANGED rkIntent

RkNext ==
  \/ RkEdit \/ RkOpen \/ RkSwitch \/ RkSubmit \/ RkPublish
  \/ \E i \in DOMAIN rkTries :
       \/ RkServeBegin(i) \/ RkLoseRequest(i) \/ RkAnswer(i) \/ RkGiveUp(i)
       \/ \E refused \in BOOLEAN : RkResolve(i, refused)
       \/ \E committed \in BOOLEAN : RkServeEnd(i, committed)

RkSpec == RkInit /\ [][RkNext]_rkVars

------------------------------------------------------------------------------
(* What the user wanted once happens at most once, however often he repeats *)
(* a submission whose answer was lost, and even while the first one is      *)
(* still running on the server; but for a start, which happens again when   *)
(* a version of the definition was published between two submissions        *)
(* (StartAsync resolves each of them anew).                                 *)
RkOncePerIntent ==
  \A e, f \in rkEffects : e.intent = f.intent =>
    e = f \/ (rkPage = "start" /\ e.target[1] # f.target[1])

(* Success shown to the user is success of what he submitted: a repetition  *)
(* under the same key with other content is refused, never answered with    *)
(* the result of the first.                                                 *)
RkSuccessIsTrue ==
  \A i \in DOMAIN rkTries : rkTries[i].client = "told" =>
    \E e \in rkEffects : Identity(e) = Identity(rkTries[i]) /\ e.content = rkTries[i].content
==============================================================================
