------------------------------ MODULE DictPage -------------------------------
(***************************************************************************)
(* The dictionary page of the console (views/system/dict): the type        *)
(* selected on the left, its items on the right, and the edits that        *)
(* invalidate the cache and load items again. Several edits may be out at  *)
(* once: a status switch never masks the page, and in Vue neither does a   *)
(* deletion. The two pages guard a late answer differently, Vue by the     *)
(* selected type code and React by the number of the latest load, and load *)
(* again for a different type: Vue for the one selected by then, React for *)
(* the one the edit was of.                                                *)
(***************************************************************************)
EXTENDS DictStore, Sequences

CONSTANTS DictMaxLoads,   \* bound of the item loads of a behaviour
          DictEdits,      \* the edits, each made once
          DictPageRead    \* the types other pages read meanwhile

ASSUME DictPageAssumption ==
  DictMaxLoads \in Nat /\ DictPageRead \subseteq DictTypes /\ DictNone \notin DictTypes

VARIABLES pFront,         \* "vue" or "react"
          pSel,           \* the selected type, DictNone for none
          pItems,         \* the items shown: of which type, at which version
          pLoads,         \* the loads begun, in order
          pLoading,       \* itemsLoading
          pEdits,         \* the edits whose request is out
          pSaved,         \* history: version after the last edit of a type confirmed
          pReload,        \* history: the same, of the edits that load their type again
          pStray          \* history: React loaded last for an edit of another type

pageVars == <<pFront, pSel, pItems, pLoads, pLoading, pEdits, pSaved, pReload, pStray>>
dictPageVars == <<dictVars, pageVars>>

EditKinds == {"form", "delete", "batch", "type", "typeBatch", "switch"}
NoItems == [type |-> DictNone, ver |-> 0]
NoEdit  == [kind |-> "none", type |-> DictNone, st |-> "idle", ver |-> 0, mask |-> FALSE]
Over    == [NoEdit EXCEPT !.st = "over"]

DictPageInit ==
  /\ DictInit
  /\ pFront \in {"vue", "react"}
  /\ pSel = DictNone /\ pItems = NoItems /\ pLoads = <<>> /\ pLoading = FALSE
  /\ pEdits = [e \in DictEdits |-> NoEdit]
  /\ pSaved = [t \in DictTypes |-> 0] /\ pReload = [t \in DictTypes |-> 0] /\ pStray = FALSE

\* loadItems up to its await; without a type it empties the table.
BeginLoad(t) ==
  IF t = DictNone
  THEN pItems' = NoItems /\ UNCHANGED <<pLoads, pLoading>>
  ELSE /\ Len(pLoads) < DictMaxLoads
       /\ pLoads' = Append(pLoads, [type |-> t, st |-> "asked", ver |-> 0])
       /\ pLoading' = TRUE /\ UNCHANGED pItems

\* React's confirmations and forms cover the page; Vue's model needs no mask.
Masked == \E e \in DictEdits : pEdits[e].mask

\* selectType, of the selected row too.
PageSelect(t) ==
  /\ ~Masked
  /\ pSel' = t /\ BeginLoad(t) /\ pStray' = FALSE
  /\ UNCHANGED <<pFront, pEdits, pSaved, pReload, dictVars>>

PageLoadServe(i) ==
  /\ pLoads[i].st = "asked"
  /\ pLoads' = [pLoads EXCEPT ![i].st = "read", ![i].ver = dSrv[pLoads[i].type]]
  /\ UNCHANGED <<pFront, pSel, pItems, pLoading, pEdits, pSaved, pReload, pStray, dictVars>>

\* Mutant of IsCurrentLoad: React too compares the selected code only.
IsCurrentLoadMutant(i) == pSel = pLoads[i].type

\* Vue recognises its answer by the selected code, React by the sequence number.
IsCurrentLoad(i) ==
  IF pFront = "vue" THEN pSel = pLoads[i].type ELSE i = Len(pLoads)

\* loadItems after its await: the list, or an error that empties the table.
PageLoadAnswer(i) ==
  /\ pLoads[i].st \in {"asked", "read"}
  /\ pLoads' = [pLoads EXCEPT ![i].st = "done", ![i].ver = 0]
  /\ IF IsCurrentLoad(i)
     THEN /\ \/ pItems' = NoItems
             \/ pLoads[i].st = "read" /\ pItems' = [type |-> pLoads[i].type, ver |-> pLoads[i].ver]
          /\ pLoading' = FALSE
     ELSE UNCHANGED <<pItems, pLoading>>
  /\ UNCHANGED <<pFront, pSel, pEdits, pSaved, pReload, pStray, dictVars>>

(* An edit is submitted: the form or the deletion of an item (of a row      *)
(* shown, or a new one of the selected type), the batch (whose checked rows *)
(* may be of a type shown before), the deletion of a type, that of several, *)
(* or what changes a type or a row in place (its switch, the type's form).  *)
PageEditBegin(e, t, kind) ==
  /\ ~Masked /\ pEdits[e] = NoEdit
  /\ kind \in {"form", "delete", "batch"} => pSel # DictNone
  /\ kind = "form"   => t \in {pSel, pItems.type}
  /\ kind = "delete" => t = pItems.type
  /\ kind = "batch"  => \E i \in DOMAIN pLoads : pLoads[i].type = t
  /\ pEdits' = [pEdits EXCEPT ![e] = [kind |-> kind, type |-> t, st |-> "asked", ver |-> 0,
                                      mask |-> pFront = "react" /\ kind # "switch"]]
  /\ UNCHANGED <<pFront, pSel, pItems, pLoads, pLoading, pSaved, pReload, pStray, dictVars>>

\* The page is left and shown again (cached): a form closes, its request goes on.
PageLeave(e) ==
  /\ pEdits[e].kind = "form" /\ pEdits' = [pEdits EXCEPT ![e].mask = FALSE]
  /\ UNCHANGED <<pFront, pSel, pItems, pLoads, pLoading, pSaved, pReload, pStray, dictVars>>

PageEditServe(e) ==
  /\ pEdits[e].st = "asked" /\ DictChange(pEdits[e].type)
  /\ pEdits' = [pEdits EXCEPT ![e].st = "stored", ![e].ver = dSrv'[pEdits[e].type]]
  /\ UNCHANGED <<pFront, pSel, pItems, pLoads, pLoading, pSaved, pReload, pStray>>

\* Refused, or the answer is lost: nothing is invalidated.
PageEditFail(e) ==
  /\ pEdits[e].st \in {"asked", "stored"} /\ pEdits' = [pEdits EXCEPT ![e] = Over]
  /\ UNCHANGED <<pFront, pSel, pItems, pLoads, pLoading, pSaved, pReload, pStray, dictVars>>

Later(a, b) == IF a > b THEN a ELSE b

\* The edit's success reaches the page, which tells the user so.
Confirmed(e) ==
  /\ pEdits[e].st = "stored" /\ pEdits' = [pEdits EXCEPT ![e] = Over]
  /\ UNCHANGED pFront

Noted(hist, e) == [hist EXCEPT ![pEdits[e].type] = Later(@, pEdits[e].ver)]

\* saveItem, deleteItem after their await.
PageItemSaved(e) ==
  LET loaded == IF pFront = "vue" THEN pSel ELSE pEdits[e].type IN
  /\ pEdits[e].kind \in {"form", "delete"} /\ Confirmed(e)
  /\ DictInvalidate({pEdits[e].type}) /\ BeginLoad(loaded) /\ pStray' = (loaded # pSel)
  /\ pSaved' = Noted(pSaved, e)
  /\ pReload' = IF loaded = pEdits[e].type THEN Noted(pReload, e) ELSE pReload
  /\ UNCHANGED pSel

\* Vue's batch invalidates every type, React's the selected one.
BatchOf == IF pFront = "vue" \/ pSel = DictNone THEN DictTypes ELSE {pSel}

PageBatchDone(e) ==
  /\ pEdits[e].kind = "batch" /\ Confirmed(e)
  /\ DictInvalidate(BatchOf) /\ BeginLoad(pSel) /\ pStray' = FALSE
  /\ pSaved' = IF pFront = "react" /\ pEdits[e].type # pSel THEN pSaved ELSE Noted(pSaved, e)
  /\ pReload' = IF pSel = pEdits[e].type THEN Noted(pReload, e) ELSE pReload
  /\ UNCHANGED pSel

\* Deletion of a type: of the selected one it clears the right side.
PageTypeDeleted(e) ==
  /\ pEdits[e].kind = "type" /\ Confirmed(e)
  /\ DictInvalidate({pEdits[e].type}) /\ pSaved' = Noted(pSaved, e)
  /\ IF pSel = pEdits[e].type THEN pSel' = DictNone /\ pItems' = NoItems
     ELSE UNCHANGED <<pSel, pItems>>
  /\ UNCHANGED <<pLoads, pLoading, pReload, pStray>>

PageTypesDeleted(e) ==
  /\ pEdits[e].kind = "typeBatch" /\ Confirmed(e)
  /\ DictInvalidate(DictTypes) /\ pSaved' = Noted(pSaved, e)
  /\ pSel' = DictNone /\ pItems' = NoItems
  /\ UNCHANGED <<pLoads, pLoading, pReload, pStray>>

\* A switch patches its row, and loads nothing.
PageSwitched(e) ==
  /\ pEdits[e].kind = "switch" /\ Confirmed(e)
  /\ DictInvalidate({pEdits[e].type}) /\ pSaved' = Noted(pSaved, e)
  /\ UNCHANGED <<pSel, pItems, pLoads, pLoading, pReload, pStray>>

\* Meanwhile the selects of other pages read the cache (DictStore's actions).
PageOthersRead ==
  /\ UNCHANGED pageVars
  /\ \E r \in DictReqs :
       \/ \E t \in DictPageRead : DictLoadAsk(t, r)
       \/ DictServe(r) \/ DictLose(r) \/ DictThen(r) \/ DictFinally(r)

PageEditNext(e) ==
  \/ \E t \in DictTypes, kind \in EditKinds : PageEditBegin(e, t, kind)
  \/ PageLeave(e) \/ PageEditServe(e) \/ PageEditFail(e)
  \/ PageItemSaved(e) \/ PageBatchDone(e) \/ PageTypeDeleted(e) \/ PageTypesDeleted(e)
  \/ PageSwitched(e)

DictPageNext ==
  \/ PageOthersRead
  \/ \E t \in DictTypes : PageSelect(t)
  \/ \E i \in DOMAIN pLoads : PageLoadServe(i) \/ PageLoadAnswer(i)
  \/ \E e \in DictEdits : PageEditNext(e)

DictPageSpec == DictPageInit /\ [][DictPageNext]_dictPageVars

------------------------------------------------------------------------------
(* Once the spinner is gone the items shown are those of the selected type, *)
(* whatever was selected and edited while loads and edits were out, and in  *)
(* whatever order the answers came in. In React they are also never older   *)
(* than the last edit that loaded their type again (Vue takes an older load *)
(* of the same type for the current one; a switch loads nothing); but an    *)
(* edit of a type that is not selected when it is confirmed shows its own   *)
(* items there: pStray, until the next selection.                           *)
PageTableIsCurrent ==
  pSel # DictNone /\ ~pLoading /\ pItems # NoItems =>
    /\ pFront = "vue" \/ ~pStray => pItems.type = pSel
    /\ pFront = "react" => pItems.ver >= pReload[pItems.type]

(* An edit confirmed to the user has reached the cache: what the selects of *)
(* the other pages read next is not older than the edit. It does not for a  *)
(* batch of React whose checked rows are of a type shown before: only the   *)
(* selected type is invalidated there.                                      *)
EditReachesCache == \A t \in DictTypes : dCache[t] # 0 => dCache[t] >= pSaved[t]
==============================================================================
