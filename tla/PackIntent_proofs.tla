------------------------- MODULE PackIntent_proofs --------------------------
(***************************************************************************)
(* Proofs about what the user asked of the transaction of a Pack           *)
(* (PreparedChanges): which MODs are pinned, to which release, and whether *)
(* what becomes the source of the Pack is what was resolved, verified and  *)
(* shown, for every Pack, selection, offer of the providers, bound on      *)
(* faults and number of tries.                                             *)
(*                                                                         *)
(* An update and an import keep an invariant about the staged source of    *)
(* their own, on top of the one that PackTransaction_proofs shows of their *)
(* threads and screens; so does an exact selection about the stack of the  *)
(* selections that were accepted, which a rollback goes back along.        *)
(***************************************************************************)
EXTENDS PackTransaction_proofs, Sequences, TLAPS

-----------------------------------------------------------------------------
(* Updates of MODs: the pins of the Pack, and its locked MODs, survive the *)
(* update.                                                                 *)

(* A staged source that may be applied: the MODs that are locked stay      *)
(* locked, a MOD that was pinned is pinned to the release it has, and a    *)
(* locked one to the release it had.                                       *)
UpdateSound(pack) ==
  /\ DOMAIN pack = {"mods", "pin", "locked", "roots", "fixed"}
  /\ pack.locked = tx.start.locked
  /\ \A m \in Update.Mods : tx.start.pin[m] # 0 =>
       /\ pack.pin[m] = pack.mods[m] /\ pack.mods[m] # 0
       /\ m \in tx.start.locked => pack.pin[m] = tx.start.pin[m]

(* What the preparation has validated: the source it goes back to when the *)
(* selection changes, or the staged one as long as it has not kept any.    *)
UpdateBase == IF tx.base = <<>> THEN UpdateSound(tx.staged) ELSE UpdateSound(Head(tx.base))

(* The preparation has gone past the validation of the Pack and has not    *)
(* failed.                                                                 *)
UpdateValidated ==
  \/ prep.pc \in {"normalize", "resolve"}
  \/ prep.pc \in {"finally", "end"} /\ prep.started /\ ~prep.error /\ ~prep.cancelled
  \/ ui.holds \/ work.pc # "idle"

(* The inductive invariant of the pins: until the Pack is validated the    *)
(* staged source is the one the preparation started from; afterwards the   *)
(* source it goes back to is sound, and so is the staged one while the     *)
(* worker is about to apply it.                                            *)
UpdateKeeping ==
  /\ DOMAIN tx.start = {"mods", "pin", "locked", "roots", "fixed"}
  /\ prep.pc \in {"new", "create", "classify"} => tx.staged = tx.start /\ tx.base = <<>>
  /\ prep.done /\ ~prep.started => prep.cancelled
  /\ ui.holds \/ work.pc # "idle" => prep.started
  /\ UpdateValidated => UpdateBase
  /\ work.pc \in {"stage", "apply"} => UpdateSound(tx.staged) /\ tx.base # <<>>
  /\ U!IntentIsKept

(* A step that leaves the staged source alone, and begins nothing that     *)
(* needs it to be sound.                                                   *)
UpdateQuiet ==
  /\ tx'.start = tx.start /\ tx'.staged = tx.staged /\ tx'.base = tx.base
  /\ tx'.real = tx.real /\ (tx'.state = "applied" => tx.state = "applied")
  /\ prep'.pc \in {"new", "create", "classify"} => prep.pc \in {"new", "create", "classify"}
  /\ prep'.done /\ ~prep'.started => prep'.cancelled
  /\ ui'.holds \/ work'.pc # "idle" => prep'.started
  /\ UpdateValidated' => UpdateValidated
  /\ work'.pc \in {"stage", "apply"} => work.pc \in {"stage", "apply"}

(* The invariant holds at first. *)
LEMMA UpdateKeepsInitially == U!Init => UpdateKeeping
BY UpdatesAssumption DEF U!Init, UpdateKeeping, UpdateValidated, U!IntentIsKept

(* A quiet step keeps the invariant. *)
LEMMA UpdateQuietKeeps == ASSUME UpdateKeeping, UpdateQuiet PROVE UpdateKeeping'
<1>1. UpdateBase => UpdateBase' BY DEF UpdateQuiet, UpdateBase, UpdateSound
<1>2. UpdateSound(tx.staged) => UpdateSound(tx.staged)' BY DEF UpdateQuiet, UpdateSound
<1>3. U!IntentIsKept' BY DEF UpdateQuiet, UpdateKeeping, U!IntentIsKept
<1>4. QED BY <1>1, <1>2, <1>3 DEF UpdateQuiet, UpdateKeeping

(* A discard leaves the sources alone. *)
LEMMA UpdateDiscardQuiet ==
  ASSUME UpdateTx, U!DiscardTx
  PROVE  /\ tx'.start = tx.start /\ tx'.staged = tx.staged /\ tx'.base = tx.base
         /\ tx'.real = tx.real /\ (tx'.state = "applied" => tx.state = "applied")
<1>1. DOMAIN tx = {"state", "start", "real", "staged", "base"}
  BY DEF UpdateTx
<1>2. \E s : tx' = [tx EXCEPT !.state = s] /\ (s = "applied" => tx.state = "applied")
  BY DEF U!DiscardTx
<1>3. QED BY <1>1, <1>2

(* Every step of the preparing thread but the classification and its       *)
(* finally block is quiet.                                                 *)
LEMMA UpdatePrepQuiet ==
  ASSUME UpdateControl, UpdateKeeping,
         \/ U!PrepStart \/ U!PrepCreate \/ U!PrepCancelled \/ U!PrepRefused \/ U!PrepNormalize
         \/ U!PrepResolve \/ U!PrepConclude
  PROVE  UpdateQuiet
<1> USE DEF UpdateControl, UpdateFields, UpdateTx, UpdatePrep, UpdateThread, UpdateKeeping,
    UpdateQuiet, UpdateValidated
<1>1. CASE U!PrepStart BY <1>1 DEF U!PrepStart
<1>2. CASE U!PrepCreate
  <2>1. /\ UNCHANGED <<work, ui>> /\ prep.pc = "create" /\ prep.started
        /\ tx' = [tx EXCEPT !.state = "active"] \/ UNCHANGED tx
        /\ \/ prep' = [prep EXCEPT !.pc = "classify"]
           \/ prep' = [prep EXCEPT !.pc = "finally", !.error = TRUE]
           \/ prep' = [prep EXCEPT !.pc = "finally", !.cancelled = TRUE]
    BY <1>2 DEF U!PrepCreate
  <2>2. /\ prep'.pc \in {"classify", "finally"} /\ prep'.started /\ prep'.done = prep.done
        /\ prep'.pc = "finally" => prep'.error \/ prep'.cancelled
    BY <2>1
  <2>3. ~prep.done BY <2>1
  <2>4. /\ tx'.start = tx.start /\ tx'.staged = tx.staged /\ tx'.base = tx.base
        /\ tx'.real = tx.real /\ (tx'.state = "applied" => tx.state = "applied")
    BY <2>1
  <2>5. QED BY <2>1, <2>2, <2>3, <2>4
<1>3. CASE U!PrepCancelled BY <1>3 DEF U!PrepCancelled
<1>4. CASE U!PrepRefused BY <1>4 DEF U!PrepRefused
<1>5. CASE U!PrepNormalize
  <2>1. /\ UNCHANGED <<tx, work, ui>> /\ prep.pc = "normalize"
        /\ \/ prep' = [prep EXCEPT !.pc = "finally"]
           \/ prep' = [prep EXCEPT !.pc = "resolve"]
           \/ \E c : prep' = [prep EXCEPT !.pc = "finally", !.cands = c]
    BY <1>5 DEF U!PrepNormalize
  <2>2. /\ prep'.pc \in {"resolve", "finally"} /\ prep'.started = prep.started
        /\ prep'.done = prep.done
    BY <2>1
  <2>3. QED BY <2>1, <2>2
<1>6. CASE U!PrepResolve BY <1>6 DEF U!PrepResolve
<1>7. CASE U!PrepConclude BY <1>7 DEF U!PrepConclude
<1>8. QED BY <1>1, <1>2, <1>3, <1>4, <1>5, <1>6, <1>7

(* The finally block of the preparing thread is quiet. *)
LEMMA UpdateFinallyQuiet ==
  ASSUME UpdateControl, UpdateKeeping, U!PrepFinally PROVE UpdateQuiet
<1>1. /\ tx'.start = tx.start /\ tx'.staged = tx.staged /\ tx'.base = tx.base
      /\ tx'.real = tx.real /\ (tx'.state = "applied" => tx.state = "applied")
  BY UpdateDiscardQuiet DEF U!PrepFinally, UpdateControl, UpdateFields
<1>2. /\ prep'.pc = "end" /\ prep'.started = prep.started
      /\ prep.cancelled => prep'.cancelled
      /\ prep.error => prep'.error
  <2>1. CASE prep' = [prep EXCEPT !.cancelled = @ \/ prep.event, !.discarded = TRUE,
                        !.error = @ \/ tx'.state = "closing", !.done = TRUE, !.pc = "end"]
    BY <2>1 DEF UpdateControl, UpdateFields, UpdatePrep
  <2>2. CASE prep' = [prep EXCEPT !.done = TRUE, !.pc = "end"]
    BY <2>2 DEF UpdateControl, UpdateFields, UpdatePrep
  <2>3. QED BY <2>1, <2>2 DEF U!PrepFinally
<1>3. prep.pc = "finally" /\ prep.started /\ UNCHANGED <<work, ui>>
  BY DEF U!PrepFinally, UpdateControl, UpdateThread
<1>4. QED BY <1>1, <1>2, <1>3 DEF UpdateQuiet, UpdateKeeping, UpdateValidated

(* The classification validates the staged source. *)
LEMMA UpdatePrepClassifyKeeps ==
  ASSUME UpdateControl, UpdateKeeping, U!PrepClassify PROVE UpdateKeeping'
<1>1. UpdateSound(tx.staged) /\ tx.base = <<>>
  BY DEF U!PrepClassify, U!Validated, UpdateKeeping, UpdateSound
<1>2. UNCHANGED <<tx, work, ui>> /\ prep'.pc = "normalize" /\ prep'.done = prep.done
      /\ prep'.started = prep.started /\ prep'.cancelled = prep.cancelled
  BY DEF U!PrepClassify, UpdateControl, UpdateFields, UpdatePrep
<1>3. UpdateBase' /\ UpdateSound(tx.staged)'
  BY <1>1, <1>2 DEF UpdateBase, UpdateSound
<1>4. QED BY <1>2, <1>3 DEF UpdateKeeping, U!IntentIsKept

(* The applying thread stages a selection on the validated source and      *)
(* applies no other.                                                       *)
LEMMA UpdateWorkKeeps ==
  ASSUME UpdateControl, UpdateKeeping, U!WorkNext PROVE UpdateKeeping'
<1>0. work.pc # "idle" /\ prep.started /\ prep.pc \notin {"new", "create", "classify"}
    /\ UpdateBase
  <2>1. work.pc # "idle"
    BY DEF U!WorkNext, U!Merge, U!MergeFails, U!Stage, U!StageFails, U!Apply, U!WorkFinally
  <2>2. prep.done BY <2>1 DEF UpdateControl, UpdateScreen
  <2>3. QED BY <2>1, <2>2 DEF UpdateKeeping, UpdateControl, UpdateThread, UpdateValidated
<1>1. CASE U!Merge
  <2>1. /\ tx' = [tx EXCEPT !.base = <<U!Base>>, !.staged = U!Base]
        /\ work'.pc = "stage" /\ UNCHANGED <<prep, ui>>
    BY <1>1 DEF U!Merge, U!BackTo, UpdateControl, UpdateFields, UpdateWork
  <2>2. /\ tx'.start = tx.start /\ tx'.staged = U!Base /\ tx'.base = <<U!Base>>
        /\ tx'.real = tx.real /\ tx'.state = tx.state
    BY <2>1 DEF UpdateControl, UpdateFields, UpdateTx
  <2>3. UpdateSound(U!Base) BY <1>0 DEF UpdateBase, U!Base
  <2>4. UpdateSound(tx.staged)' BY <2>2, <2>3 DEF UpdateSound
  <2>5. Head(tx'.base) = U!Base /\ tx'.base # <<>> BY <2>2
  <2>6. UpdateBase' BY <2>2, <2>3, <2>5 DEF UpdateBase, UpdateSound
  <2>7. U!IntentIsKept' BY <2>2 DEF UpdateKeeping, U!IntentIsKept
  <2>8. QED BY <1>0, <2>1, <2>2, <2>4, <2>6, <2>7 DEF UpdateKeeping
<1>2. CASE U!MergeFails
  <2>1. /\ tx' = [tx EXCEPT !.base = <<U!Base>>] \/ tx' = tx
        /\ work'.pc = "finally" /\ UNCHANGED <<prep, ui>>
    BY <1>2 DEF U!MergeFails, UpdateControl, UpdateFields, UpdateWork
  <2>2. /\ tx'.start = tx.start /\ tx'.staged = tx.staged
        /\ tx'.base = <<U!Base>> \/ tx'.base = tx.base
        /\ tx'.real = tx.real /\ tx'.state = tx.state
    BY <2>1 DEF UpdateControl, UpdateFields, UpdateTx
  <2>3. UpdateSound(U!Base) BY <1>0 DEF UpdateBase, U!Base
  <2>6. UpdateBase'
    <3>1. CASE tx'.base = <<U!Base>>
      <4>1. Head(tx'.base) = U!Base /\ tx'.base # <<>> BY <3>1
      <4>2. QED BY <2>2, <2>3, <4>1 DEF UpdateBase, UpdateSound
    <3>2. CASE tx'.base = tx.base BY <1>0, <2>2, <3>2 DEF UpdateBase, UpdateSound
    <3>3. QED BY <2>2, <3>1, <3>2
  <2>7. U!IntentIsKept' BY <2>2 DEF UpdateKeeping, U!IntentIsKept
  <2>8. QED BY <1>0, <2>1, <2>2, <2>6, <2>7 DEF UpdateKeeping
<1>3. CASE U!Stage
  <2>1. /\ tx' = [tx EXCEPT !.staged.mods = work.merged, !.staged.pin = U!Followed]
        /\ work'.pc = "apply" /\ UNCHANGED <<prep, ui>> /\ UpdateSound(tx.staged)
        /\ U!Orphaned = {} /\ U!Drifted = {} /\ tx.base # <<>>
    BY <1>3 DEF U!Stage, UpdateControl, UpdateFields, UpdateWork, UpdateKeeping
  <2>2. /\ tx'.start = tx.start /\ tx'.base = tx.base
        /\ tx'.real = tx.real /\ tx'.state = tx.state
        /\ tx'.staged = [tx.staged EXCEPT !.mods = work.merged, !.pin = U!Followed]
    BY <2>1 DEF UpdateControl, UpdateFields, UpdateTx
  <2>3. /\ DOMAIN tx'.staged = DOMAIN tx.staged /\ tx'.staged.mods = work.merged
        /\ tx'.staged.pin = U!Followed /\ tx'.staged.locked = tx.staged.locked
    <3>1. DOMAIN tx.staged = {"mods", "pin", "locked", "roots", "fixed"}
      BY <2>1 DEF UpdateSound
    <3>2. QED BY <2>2, <3>1
  <2>4. ASSUME NEW m \in Update.Mods, tx.start.pin[m] # 0
        PROVE  /\ U!Followed[m] = work.merged[m] /\ work.merged[m] # 0
               /\ m \in tx.start.locked => work.merged[m] = tx.start.pin[m]
    <3>1. /\ tx.staged.pin[m] = tx.staged.mods[m] /\ tx.staged.mods[m] # 0
          /\ m \in tx.start.locked => tx.staged.pin[m] = tx.start.pin[m]
          /\ tx.staged.locked = tx.start.locked
      BY <2>1, <2>4 DEF UpdateSound
    <3>2. CASE m \in U!Touched
      BY <2>1, <3>1, <3>2 DEF U!Followed, U!Orphaned, U!Drifted, U!Intents
    <3>3. CASE m \notin U!Touched
      BY <3>1, <3>3 DEF U!Followed, U!Touched
    <3>4. QED BY <3>2, <3>3
  <2>5. UpdateSound(tx.staged)' BY <2>1, <2>2, <2>3, <2>4 DEF UpdateSound
  <2>6. UpdateBase' BY <1>0, <2>2, <2>5 DEF UpdateBase, UpdateSound
  <2>7. U!IntentIsKept' BY <2>2 DEF UpdateKeeping, U!IntentIsKept
  <2>8. QED BY <1>0, <2>1, <2>2, <2>5, <2>6, <2>7 DEF UpdateKeeping
<1>4. CASE U!StageFails
  <2>1. /\ work'.pc = "finally" /\ UNCHANGED <<prep, ui>>
        /\ \/ tx' = [tx EXCEPT !.staged = work.prior]
           \/ tx' = [tx EXCEPT !.staged.mods = work.merged]
    BY <1>4 DEF U!StageFails, U!BackTo, UpdateControl, UpdateFields, UpdateWork
  <2>2. /\ tx'.start = tx.start /\ tx'.base = tx.base
        /\ tx'.real = tx.real /\ tx'.state = tx.state
    BY <2>1 DEF UpdateControl, UpdateFields, UpdateTx
  <2>3. tx.base # <<>>
    BY <1>4 DEF U!StageFails, UpdateKeeping
  <2>6. UpdateBase' BY <1>0, <2>2, <2>3 DEF UpdateBase, UpdateSound
  <2>7. U!IntentIsKept' BY <2>2 DEF UpdateKeeping, U!IntentIsKept
  <2>8. QED BY <1>0, <2>1, <2>2, <2>6, <2>7 DEF UpdateKeeping
<1>5. CASE U!Apply
  <2>1. /\ work'.pc = "finally" /\ UNCHANGED <<prep, ui>> /\ UpdateSound(tx.staged)
        /\ tx' = [tx EXCEPT !.state = "applied", !.real = tx.staged] \/ tx' = tx
    BY <1>5 DEF U!Apply, UpdateControl, UpdateFields, UpdateWork, UpdateKeeping
  <2>2. /\ tx'.start = tx.start /\ tx'.base = tx.base /\ tx'.staged = tx.staged
        /\ tx'.real = tx.staged \/ (tx'.real = tx.real /\ tx'.state = tx.state)
    BY <2>1 DEF UpdateControl, UpdateFields, UpdateTx
  <2>6. UpdateBase' BY <1>0, <2>2 DEF UpdateBase, UpdateSound
  <2>7. U!IntentIsKept' BY <2>1, <2>2 DEF UpdateKeeping, U!IntentIsKept, UpdateSound
  <2>8. QED BY <1>0, <2>1, <2>2, <2>6, <2>7 DEF UpdateKeeping
<1>6. CASE U!WorkFinally
  <2>1. work'.pc = "done" /\ UNCHANGED <<prep, ui>>
    BY <1>6 DEF U!WorkFinally, UpdateControl, UpdateFields, UpdateWork
  <2>2. /\ tx'.start = tx.start /\ tx'.staged = tx.staged /\ tx'.base = tx.base
        /\ tx'.real = tx.real /\ (tx'.state = "applied" => tx.state = "applied")
    BY <1>6, UpdateDiscardQuiet DEF U!WorkFinally, UpdateControl, UpdateFields
  <2>3. UpdateQuiet BY <1>0, <2>1, <2>2 DEF UpdateQuiet, UpdateKeeping, UpdateValidated
  <2>4. QED BY <2>3, UpdateQuietKeeps
<1>7. QED BY <1>1, <1>2, <1>3, <1>4, <1>5, <1>6 DEF U!WorkNext

(* A cancel is quiet. *)
LEMMA UpdateCancelQuiet ==
  ASSUME UpdateControl, UpdateKeeping, U!Cancel, UNCHANGED work, ui'.holds = ui.holds
  PROVE  UpdateQuiet
<1>1. prep'.pc = prep.pc /\ prep'.started = prep.started /\ prep'.cancelled
  BY DEF U!Cancel, UpdateControl, UpdateFields, UpdatePrep
<1>2. U!DiscardTx \/ UNCHANGED tx
  BY DEF U!Cancel
<1>3. /\ tx'.start = tx.start /\ tx'.staged = tx.staged /\ tx'.base = tx.base
      /\ tx'.real = tx.real /\ (tx'.state = "applied" => tx.state = "applied")
  BY <1>2, UpdateDiscardQuiet DEF UpdateControl, UpdateFields
<1>4. QED BY <1>1, <1>3 DEF UpdateKeeping, UpdateQuiet, UpdateValidated

(* What the user does on the screens is quiet. *)
LEMMA UpdateUiQuiet ==
  ASSUME UpdateControl, UpdateKeeping, U!UiNext PROVE UpdateQuiet
<1>1. CASE U!PollPreparation
  <2>1. UNCHANGED <<tx, work>> /\ prep.done
    BY <1>1 DEF U!PollPreparation
  <2>2. /\ prep'.pc = prep.pc /\ prep'.started = prep.started /\ prep'.done = prep.done
        /\ prep'.error = prep.error /\ prep'.cancelled = prep.cancelled
    BY <1>1 DEF U!PollPreparation, UpdateControl, UpdateFields, UpdatePrep
  <2>3. ui'.holds => ui.holds \/ (~prep.error /\ ~prep.cancelled)
    BY <1>1 DEF U!PollPreparation, UpdateControl, UpdateFields, UpdateUi
  <2>4. ~prep.cancelled => prep.pc = "end" /\ prep.started
    BY <2>1 DEF UpdateControl, UpdateThread, UpdateKeeping
  <2>5. QED BY <2>1, <2>2, <2>3, <2>4 DEF UpdateKeeping, UpdateQuiet, UpdateValidated
<1>2. CASE U!QuitPreparing
  BY <1>2, UpdateCancelQuiet DEF U!QuitPreparing, UpdateControl, UpdateFields, UpdateUi
<1>3. CASE U!Toggle \/ U!QuitApplying
  BY <1>3 DEF U!Toggle, U!QuitApplying, U!SameThreads, UpdateControl, UpdateFields,
     UpdatePrep, UpdateUi, UpdateKeeping, UpdateQuiet, UpdateValidated
<1>4. CASE U!Confirm
  BY <1>4 DEF U!Confirm, UpdateControl, UpdateFields, UpdateUi, UpdateKeeping, UpdateQuiet,
     UpdateValidated
<1>5. CASE U!PollApply
  BY <1>5 DEF U!PollApply, U!Leave, UpdateControl, UpdateFields, UpdateWork, UpdateUi,
     UpdateKeeping, UpdateQuiet, UpdateValidated
<1>6. CASE U!QuitChoosing
  BY <1>6 DEF U!QuitChoosing, U!Leave, U!SameThreads, UpdateControl, UpdateFields, UpdateUi,
     UpdateKeeping, UpdateQuiet, UpdateValidated
<1>7. CASE U!PollDiscard
  BY <1>7 DEF U!PollDiscard, U!SameThreads, UpdateControl, UpdateFields, UpdateUi,
     UpdateKeeping, UpdateQuiet, UpdateValidated
<1>8. CASE U!Discard
  BY <1>8, UpdateDiscardQuiet DEF U!Discard, U!SameThreads, UpdateControl, UpdateFields,
     UpdateUi, UpdateKeeping, UpdateQuiet, UpdateValidated
<1>9. CASE U!Unmount
  <2>1. ui'.holds = ui.holds /\ UNCHANGED work
    BY <1>9 DEF U!Unmount, U!SameThreads, UpdateControl, UpdateFields, UpdateUi
  <2>2. CASE U!Cancel BY <2>1, <2>2, UpdateCancelQuiet
  <2>3. CASE UNCHANGED <<tx, prep>>
    BY <2>1, <2>3 DEF UpdateKeeping, UpdateQuiet, UpdateValidated
  <2>4. CASE UNCHANGED tx /\ prep' = [prep EXCEPT !.event = TRUE]
    BY <2>1, <2>4 DEF UpdateControl, UpdateFields, UpdatePrep, UpdateKeeping, UpdateQuiet,
       UpdateValidated
  <2>5. QED BY <1>9, <2>2, <2>3, <2>4 DEF U!Unmount, U!SameThreads
<1>10. CASE U!Shutdown
  BY <1>10 DEF U!Shutdown, UpdateControl, UpdateFields, UpdatePrep, UpdateUi, UpdateKeeping,
     UpdateQuiet, UpdateValidated
<1>11. CASE U!Drain
  BY <1>11, UpdateDiscardQuiet DEF U!Drain, U!SameThreads, UpdateControl, UpdateFields,
     UpdateUi, UpdateKeeping, UpdateQuiet, UpdateValidated
<1>12. QED
  BY <1>1, <1>2, <1>3, <1>4, <1>5, <1>6, <1>7, <1>8, <1>9, <1>10, <1>11 DEF U!UiNext

(* Every action keeps the invariant. *)
LEMMA UpdateKeeps ==
  ASSUME UpdateControl, UpdateKeeping, U!Next PROVE UpdateKeeping'
<1>1. CASE U!PrepNext
  BY <1>1, UpdatePrepQuiet, UpdateFinallyQuiet, UpdateQuietKeeps, UpdatePrepClassifyKeeps
     DEF U!PrepNext
<1>2. CASE U!WorkNext BY <1>2, UpdateWorkKeeps
<1>3. CASE U!UiNext BY <1>3, UpdateUiQuiet, UpdateQuietKeeps
<1>4. QED BY <1>1, <1>2, <1>3 DEF U!Next

-----------------------------------------------------------------------------
(* Exact selections: the evidence of a selection is never stale, as long   *)
(* as nobody writes to the staged source from outside.                     *)

(* An optional value is a sequence of at most one. *)
ExactOne(s) == s = <<>> \/ s = <<Head(s)>>
(* What evidence records. *)
ExactEvidence(s) == s # <<>> => DOMAIN Head(s) = {"source", "before", "gen"}

(* The fields of the records the selections keep. *)
ExactShapes ==
  /\ DOMAIN count = {"changes", "faults", "outside", "selects"} /\ count.outside \in Nat
  /\ DOMAIN op = {"step", "sel", "before", "checkpoint", "cancel"}
  /\ op.step \in {"none", "checkpoint", "resolve", "verify", "fails", "stuck"}
  /\ ExactOne(op.before)
  /\ ExactOne(pending) /\ ExactEvidence(pending)
  /\ ExactOne(accepted) /\ ExactEvidence(accepted)
  /\ \E T : stages \in Seq(T)
  /\ \A i \in 1..Len(stages) :
       /\ DOMAIN stages[i] = {"evidence", "prior", "overrides", "verify"}
       /\ ExactOne(stages[i].prior) /\ ExactEvidence(stages[i].prior)

(* A selection that is being prepared has kept the source it has found,    *)
(* which is the staged one until the resolver has changed it.              *)
ExactPreparing ==
  /\ op.step # "none" => op.before # <<>>
  /\ op.step \in {"checkpoint", "resolve"} => src = Head(op.before)
  /\ op.step = "checkpoint" => op.checkpoint = <<>>
  /\ op.step \in {"resolve", "verify"} => op.checkpoint = op.before
  /\ op.step \in {"resolve", "verify"} => op.checkpoint # <<>>
  /\ op.step = "fails" =>
       \/ op.checkpoint = <<>> /\ src = Head(op.before)
       \/ op.checkpoint = op.before /\ op.checkpoint # <<>>

(* The source the next evidence is about: the one before the selection     *)
(* that is being prepared, or is not yet accepted.                         *)
ExactKnown ==
  IF op.step # "none" THEN Head(op.before)
  ELSE IF pending # <<>> THEN Head(pending).before ELSE src

(* The evidence that waits for the user is about the staged source, and    *)
(* the accepted one about the source before it.                            *)
ExactFresh ==
  /\ pending # <<>> =>
       /\ op.step = "none" /\ Head(pending).gen = gen /\ Head(pending).source = src
  /\ accepted # <<>> => Head(accepted).gen = gen /\ Head(accepted).source = ExactKnown

(* The stack of the accepted selections: each starts from the source its   *)
(* predecessor has left, and has kept the predecessor's evidence.          *)
ExactChain ==
  /\ accepted # <<>> <=> stages # <<>>
  /\ stages # <<>> => /\ stages[Len(stages)].evidence = Head(accepted)
                      /\ stages[1].prior = <<>>
  /\ \A i \in 2..Len(stages) :
       /\ stages[i].evidence.before = stages[i - 1].evidence.source
       /\ stages[i].prior # <<>>
       /\ Head(stages[i].prior).source = stages[i - 1].evidence.source
       /\ Head(stages[i].prior).before = stages[i - 1].evidence.before

(* The inductive invariant of the evidence. *)
ExactKeeping ==
  ExactShapes /\ (count.outside = 0 => ExactPreparing /\ ExactFresh /\ ExactChain)

(* The invariant holds at first. *)
LEMMA ExactKeepsInitially == X!Init => ExactKeeping
<1> SUFFICES ASSUME X!Init PROVE ExactKeeping
  OBVIOUS
<1>1. stages = <<>> /\ stages \in Seq({}) /\ Len(stages) = 0
  BY DEF X!Init
<1>2. ExactShapes
  BY <1>1 DEF X!Init, X!NoOperation, ExactShapes, ExactOne, ExactEvidence
<1>3. ExactPreparing /\ ExactFresh /\ ExactChain
  BY <1>1 DEF X!Init, X!NoOperation, ExactPreparing, ExactFresh, ExactChain
<1>4. QED BY <1>2, <1>3 DEF ExactKeeping

(* The invariant is enough for what a run checks. *)
LEMMA ExactIsFresh == ExactKeeping => X!EvidenceIsFresh
<1> SUFFICES ASSUME ExactKeeping, count.outside = 0, op.step = "none"
             PROVE  /\ IF X!Prepared THEN X!Valid(Head(pending))
                       ELSE \A e \in X!ToSet(accepted) : X!Valid(e)
                    /\ stages # <<>> => accepted = <<X!Last(stages).evidence>>
                    /\ X!Prepared /\ accepted # <<>> =>
                         Head(pending).before = Head(accepted).source
                    /\ \A i \in 2..Len(stages) :
                         stages[i].evidence.before = stages[i - 1].evidence.source
  BY DEF X!EvidenceIsFresh
<1>1. ExactFresh /\ ExactChain /\ ExactOne(accepted) BY DEF ExactKeeping, ExactShapes
<1>2. ASSUME ~X!Prepared, NEW e \in X!ToSet(accepted) PROVE X!Valid(e)
  <2>1. accepted = <<Head(accepted)>> /\ accepted # <<>>
    BY <1>1, <1>2 DEF ExactOne, X!ToSet
  <2>2. e = Head(accepted) BY <1>2, <2>1 DEF X!ToSet
  <2>3. QED BY <1>1, <1>2, <2>1, <2>2 DEF ExactFresh, ExactKnown, X!Prepared, X!Valid
<1>3. X!Prepared => X!Valid(Head(pending))
  BY <1>1 DEF ExactFresh, X!Prepared, X!Valid
<1>4. stages # <<>> => accepted = <<X!Last(stages).evidence>>
  BY <1>1 DEF ExactChain, ExactOne, X!Last
<1>5. X!Prepared /\ accepted # <<>> => Head(pending).before = Head(accepted).source
  BY <1>1 DEF ExactFresh, ExactKnown, X!Prepared
<1>6. QED BY <1>1, <1>2, <1>3, <1>4, <1>5 DEF ExactChain

(* Counting a fault or a change leaves the outside writes as they are. *)
LEMMA ExactCounts ==
  ASSUME ExactShapes, NEW field \in {"changes", "faults", "selects"}, NEW max,
         X!Count(field, max)
  PROVE  DOMAIN count' = DOMAIN count /\ count'.outside = count.outside
BY DEF ExactShapes, X!Count

(* A selection begins with the source it has found, while nothing waits    *)
(* for the user.                                                           *)
LEMMA ExactBegins ==
  ASSUME ExactShapes, X!PrepareBegins
  PROVE  /\ DOMAIN op' = DOMAIN op /\ op'.step = "checkpoint" /\ op'.before = <<src>>
         /\ op'.checkpoint = <<>> /\ UNCHANGED src /\ pending = <<>> /\ op.step = "none"
<1>1. PICK m \in Exact.Mods, r \in Exact.Releases :
        op' = [X!NoOperation EXCEPT !.step = "checkpoint", !.sel = <<m, r>>,
            !.before = <<src>>]
  BY DEF X!PrepareBegins
<1>2. DOMAIN op = {"step", "sel", "before", "checkpoint", "cancel"}
  BY DEF ExactShapes
<1>3. QED BY <1>1, <1>2 DEF X!PrepareBegins, X!NoOperation, X!Usable, X!Prepared

(* Every action keeps the invariant. *)
LEMMA ExactPreparesKeeps ==
  ASSUME ExactKeeping,
         \/ X!PrepareBegins \/ X!PrepareCheckpoints \/ X!PrepareFails \/ X!PrepareRestores
         \/ X!CancelPrepare
  PROVE  ExactKeeping'
<1>0. ExactShapes BY DEF ExactKeeping
<1>1. UNCHANGED <<gen, pending, accepted, stages>>
  BY DEF X!PrepareBegins, X!PrepareCheckpoints, X!PrepareFails, X!PrepareRestores,
     X!CancelPrepare
<1>2. DOMAIN count' = DOMAIN count /\ count'.outside = count.outside
  BY <1>0, ExactCounts DEF X!PrepareBegins, X!PrepareCheckpoints, X!PrepareFails,
     X!PrepareRestores, X!CancelPrepare
<1>3. /\ DOMAIN op' = DOMAIN op /\ ExactOne(op'.before)
      /\ op'.step \in {"none", "checkpoint", "resolve", "verify", "fails", "stuck"}
      /\ count.outside = 0 => ExactPreparing' /\ ExactFresh'
  <2>1. count.outside = 0 => ExactPreparing /\ ExactFresh
    BY DEF ExactKeeping
  <2>2. CASE X!PrepareBegins
    <3>1. ExactOne(op'.before) BY <1>0, <2>2, ExactBegins DEF ExactOne
    <3>2. Head(op'.before) = src /\ op'.before # <<>>
      <4>1. op'.before = <<src>> BY <1>0, <2>2, ExactBegins
      <4>2. QED BY <4>1
    <3>3. QED
      BY <1>0, <1>1, <2>1, <2>2, <3>1, <3>2, ExactBegins DEF ExactPreparing, ExactFresh,
         ExactKnown
  <2>3. CASE X!PrepareCheckpoints
    <3>1. CASE src = Head(op.before)
      <4>1. /\ op'.step = "resolve" /\ op'.checkpoint = <<src>> /\ op'.before = op.before
            /\ UNCHANGED src /\ DOMAIN op' = DOMAIN op /\ op.step = "checkpoint"
        BY <1>0, <2>3, <3>1 DEF X!PrepareCheckpoints, ExactShapes
      <4>2. count.outside = 0 => <<src>> = op.before
        BY <1>0, <2>1, <3>1, <4>1 DEF ExactShapes, ExactOne, ExactPreparing
      <4>3. QED
        BY <1>0, <1>1, <2>1, <3>1, <4>1, <4>2 DEF ExactShapes, ExactOne, ExactPreparing,
           ExactFresh, ExactKnown
    <3>2. CASE src # Head(op.before)
      <4>1. /\ op'.step = "fails" /\ op'.before = op.before
            /\ UNCHANGED src /\ DOMAIN op' = DOMAIN op /\ op.step = "checkpoint"
        BY <1>0, <2>3, <3>2 DEF X!PrepareCheckpoints, ExactShapes
      <4>2. QED BY <1>0, <2>1, <3>2, <4>1 DEF ExactShapes, ExactOne, ExactPreparing
    <3>3. QED BY <3>1, <3>2
  <2>4. CASE X!PrepareFails
    <3>1. /\ op'.step = "fails" /\ op'.before = op.before /\ op'.checkpoint = op.checkpoint
          /\ UNCHANGED src /\ DOMAIN op' = DOMAIN op /\ op.step \in {"checkpoint",
             "resolve", "verify"}
      BY <1>0, <2>4 DEF X!PrepareFails, ExactShapes
    <3>2. QED
      BY <1>0, <1>1, <2>1, <3>1 DEF ExactShapes, ExactOne, ExactPreparing, ExactFresh,
         ExactKnown
  <2>5. CASE X!PrepareRestores
    <3>1. CASE op' = X!NoOperation
        /\ src' = IF op.checkpoint = <<>> THEN src ELSE Head(op.checkpoint)
      <4>1. /\ DOMAIN op' = DOMAIN op /\ op'.step = "none" /\ op'.before = <<>>
            /\ op.step = "fails"
        BY <1>0, <2>5, <3>1 DEF X!PrepareRestores, X!NoOperation, ExactShapes
      <4>2. count.outside = 0 => src' = Head(op.before)
        BY <2>1, <3>1, <4>1 DEF ExactPreparing
      <4>3. QED
        BY <1>1, <2>1, <4>1, <4>2 DEF ExactOne, ExactPreparing, ExactFresh, ExactKnown
    <3>2. CASE op' = [op EXCEPT !.step = "stuck"]
      <4>1. /\ DOMAIN op' = DOMAIN op /\ op'.step = "stuck" /\ op'.before = op.before
            /\ op.step = "fails"
        BY <1>0, <2>5, <3>2 DEF X!PrepareRestores, ExactShapes
      <4>2. QED
        BY <1>0, <1>1, <2>1, <4>1 DEF ExactShapes, ExactOne, ExactPreparing, ExactFresh,
           ExactKnown
    <3>3. QED BY <2>5, <3>1, <3>2 DEF X!PrepareRestores
  <2>6. CASE X!CancelPrepare
    <3>1. /\ op'.step = op.step /\ op'.before = op.before /\ op'.checkpoint = op.checkpoint
          /\ UNCHANGED src /\ DOMAIN op' = DOMAIN op
      BY <1>0, <2>6 DEF X!CancelPrepare, ExactShapes
    <3>2. QED
      BY <1>0, <1>1, <2>1, <3>1 DEF ExactShapes, ExactOne, ExactPreparing, ExactFresh,
         ExactKnown
  <2>7. QED BY <2>2, <2>3, <2>4, <2>5, <2>6
<1>4. ExactShapes'
  BY <1>0, <1>1, <1>2, <1>3 DEF ExactShapes, ExactOne, ExactEvidence
<1>6. ExactChain => ExactChain' BY <1>1 DEF ExactChain
<1>7. QED BY <1>2, <1>3, <1>4, <1>6 DEF ExactKeeping

LEMMA ExactStagesKeeps ==
  ASSUME ExactKeeping, X!PrepareStages \/ X!PrepareSucceeds PROVE ExactKeeping'
<1>1. UNCHANGED <<gen, accepted, stages, count>>
  BY DEF X!PrepareStages, X!PrepareSucceeds
<1>2. CASE X!PrepareStages
  <2>1. UNCHANGED pending /\ op' = [op EXCEPT !.step = "verify"] /\ op.step = "resolve"
    BY <1>2 DEF X!PrepareStages
  <2>2. ExactShapes' BY <1>1, <2>1 DEF ExactKeeping, ExactShapes, ExactOne, ExactEvidence
  <2>3. ASSUME count.outside = 0 PROVE ExactPreparing' /\ ExactFresh' /\ ExactChain'
    BY <1>1, <2>1, <2>3 DEF ExactKeeping, ExactShapes, ExactPreparing, ExactFresh,
       ExactKnown, ExactChain
  <2>4. QED BY <1>1, <2>2, <2>3 DEF ExactKeeping
<1>3. CASE X!PrepareSucceeds
  <2>1. /\ op.step = "verify" /\ op' = X!NoOperation /\ UNCHANGED src
        /\ pending' = <<[source |-> src, before |-> Head(op.before), gen |-> gen]>>
    BY <1>3 DEF X!PrepareSucceeds
  <2>2. /\ pending' # <<>> /\ pending' = <<Head(pending')>>
        /\ Head(pending') = [source |-> src, before |-> Head(op.before), gen |-> gen]
    BY <2>1
  <2>3. ExactShapes'
    BY <1>1, <2>1, <2>2 DEF ExactKeeping, ExactShapes, ExactOne, ExactEvidence,
       X!NoOperation
  <2>4. ASSUME count.outside = 0 PROVE ExactPreparing' /\ ExactFresh' /\ ExactChain'
    BY <1>1, <2>1, <2>2, <2>4 DEF ExactKeeping, ExactPreparing, ExactFresh, ExactKnown,
       ExactChain, X!NoOperation
  <2>5. QED BY <1>1, <2>3, <2>4 DEF ExactKeeping
<1>4. QED BY <1>2, <1>3

LEMMA ExactChangesKeeps ==
  ASSUME ExactKeeping, X!Change \/ X!ChangeIntent PROVE ExactKeeping'
<1>1. UNCHANGED <<pending, op>> /\ pending = <<>> /\ op.step = "none"
  BY DEF X!Change, X!ChangeIntent, X!Usable, X!Prepared
<1>2. DOMAIN count' = DOMAIN count /\ count'.outside = count.outside
  BY ExactCounts DEF ExactKeeping, X!Change, X!ChangeIntent
<1>3. CASE accepted' = <<>> /\ stages' = <<>>
  <2>1. stages' \in Seq({}) /\ Len(stages') = 0 BY <1>3
  <2>2. ExactShapes'
    BY <1>1, <1>2, <1>3, <2>1 DEF ExactKeeping, ExactShapes, ExactOne, ExactEvidence
  <2>3. ExactPreparing' /\ ExactFresh' /\ ExactChain'
    BY <1>1, <1>3, <2>1 DEF ExactPreparing, ExactFresh, ExactChain
  <2>4. QED BY <2>2, <2>3 DEF ExactKeeping
<1>4. CASE UNCHANGED <<gen, accepted, stages, src>>
  <2>1. ExactShapes'
    BY <1>1, <1>2, <1>4 DEF ExactKeeping, ExactShapes, ExactOne, ExactEvidence
  <2>2. QED
    BY <1>1, <1>2, <1>4, <2>1 DEF ExactKeeping, ExactPreparing, ExactFresh, ExactKnown,
       ExactChain
<1>5. QED BY <1>3, <1>4 DEF X!Change, X!ChangeIntent, X!Records

LEMMA ExactOutsideKeeps == ASSUME ExactKeeping, X!Outside PROVE ExactKeeping'
<1>1. DOMAIN count' = DOMAIN count /\ count'.outside = count.outside + 1
  BY DEF ExactKeeping, ExactShapes, X!Outside, X!Count
<1>2. ExactShapes'
  BY <1>1 DEF ExactKeeping, ExactShapes, ExactOne, ExactEvidence, X!Outside
<1>3. QED BY <1>1, <1>2 DEF ExactKeeping, ExactShapes

LEMMA ExactEndsKeeps ==
  ASSUME ExactKeeping, X!Apply \/ X!Discard \/ UNCHANGED exactly PROVE ExactKeeping'
<1>1. UNCHANGED <<src, gen, pending, accepted, stages, op, count>>
  BY DEF X!Apply, X!Discard, exactly
<1>2. ExactShapes' BY <1>1 DEF ExactKeeping, ExactShapes, ExactOne, ExactEvidence
<1>3. QED BY <1>1, <1>2 DEF ExactKeeping, ExactPreparing, ExactFresh, ExactKnown, ExactChain

LEMMA ExactRollbackPendingKeeps ==
  ASSUME ExactKeeping, X!RollbackPending PROVE ExactKeeping'
<1>1. /\ UNCHANGED <<gen, accepted, stages, op, count>> /\ pending' = <<>>
      /\ op.step = "none"
      /\ src' = Head(pending).before /\ pending # <<>>
  BY DEF X!RollbackPending, X!Usable, X!Prepared
<1>2. ExactShapes' BY <1>1 DEF ExactKeeping, ExactShapes, ExactOne, ExactEvidence
<1>3. QED BY <1>1, <1>2 DEF ExactKeeping, ExactPreparing, ExactFresh, ExactKnown, ExactChain

(* A sequence over a set is one over a larger set. *)
LEMMA ExactWider ==
  ASSUME NEW T, NEW s \in Seq(T), NEW x PROVE s \in Seq(T \cup {x})
OBVIOUS

(* The stack when a selection is put on it. *)
LEMMA ExactAppended ==
  ASSUME NEW T, NEW s \in Seq(T), NEW x
  PROVE  /\ Append(s, x) \in Seq(T \cup {x}) /\ Len(Append(s, x)) = Len(s) + 1
         /\ Len(s) \in Nat
         /\ \A i \in 1..Len(s) : Append(s, x)[i] = s[i]
         /\ Append(s, x)[Len(s) + 1] = x
BY ExactWider

(* The stack when its last selection is taken off. *)
LEMMA ExactFront ==
  ASSUME NEW T, NEW s \in Seq(T), s # <<>>
  PROVE  /\ X!Front(s) \in Seq(T) /\ Len(s) \in Nat \ {0} /\ Len(X!Front(s)) = Len(s) - 1
         /\ \A i \in 1..(Len(s) - 1) : X!Front(s)[i] = s[i]
BY DEF X!Front

(* A sequence one of whose elements is replaced. *)
LEMMA ExactReplaced ==
  ASSUME NEW T, NEW s \in Seq(T), NEW n \in 1..Len(s), NEW x,
         NEW t, t = [s EXCEPT ![n] = x]
  PROVE  /\ t \in Seq(T \cup {x}) /\ Len(t) = Len(s) /\ t[n] = x
         /\ \A i \in 1..Len(s) : i # n => t[i] = s[i]
BY ExactWider

(* What accepting does to the stack and the evidence. *)
LEMMA ExactAccepts ==
  ASSUME ExactShapes, X!Accept
  PROVE  LET e == Head(pending)
             n == Len(stages)
         IN /\ UNCHANGED <<state, src, real, op, count>> /\ state = "active"
            /\ pending' = <<>> /\ pending # <<>> /\ op.step = "none"
            /\ accepted' # <<>> /\ ExactOne(accepted') /\ ExactEvidence(accepted')
            /\ Head(accepted').source = e.source /\ Head(accepted').before = e.before
            /\ Head(accepted').gen = gen'
            /\ \E T : stages' \in Seq(T)
            /\ n \in Nat /\ Len(stages') = n + 1 /\ (stages = <<>> <=>
               n = 0) /\ stages' # <<>>
            /\ \A i \in 1..n : stages'[i] = stages[i]
            /\ DOMAIN stages'[n + 1] = {"evidence", "prior", "overrides", "verify"}
            /\ stages'[n + 1].evidence = Head(accepted') /\ stages'[n + 1].prior = accepted
            /\ stages'[n + 1].verify = flags.verify
<1> DEFINE e == Head(pending)
           a == [e EXCEPT !.gen = gen']
           new == [evidence |-> a, prior |-> accepted,
                   overrides |-> flags.overrides, verify |-> flags.verify]
           n == Len(stages)
<1>1. /\ UNCHANGED <<state, src, real, op, count>> /\ state = "active"
      /\ pending' = <<>> /\ pending # <<>> /\ op.step = "none"
      /\ accepted' = <<a>> /\ stages' = Append(stages, new)
  BY DEF X!Accept, X!Usable, X!Prepared, X!Stamped
<1>2. /\ DOMAIN a = {"source", "before", "gen"} /\ a.source = e.source
      /\ a.before = e.before
      /\ a.gen = gen'
  BY <1>1 DEF ExactShapes, ExactEvidence
<1>3. accepted' # <<>> /\ Head(accepted') = a /\ ExactOne(accepted')
    /\ ExactEvidence(accepted')
  BY <1>1, <1>2 DEF ExactOne, ExactEvidence
<1>4. PICK T : stages \in Seq(T) BY DEF ExactShapes
<1>5. /\ new.evidence = a /\ new.prior = accepted /\ new.verify = flags.verify
      /\ DOMAIN new = {"evidence", "prior", "overrides", "verify"}
  OBVIOUS
<1> HIDE DEF e, a, new
<1>6. /\ stages' \in Seq(T \cup {new}) /\ Len(stages') = n + 1 /\ n \in Nat
      /\ \A i \in 1..n : stages'[i] = stages[i]
      /\ stages'[n + 1] = new
  BY <1>1, <1>4, ExactAppended
<1>7. (stages = <<>> <=> n = 0) /\ stages' # <<>> BY <1>4, <1>6
<1>8. QED BY <1>1, <1>2, <1>3, <1>5, <1>6, <1>7 DEF e

LEMMA ExactAcceptKeeps == ASSUME ExactKeeping, X!Accept PROVE ExactKeeping'
<1> DEFINE e == Head(pending)
           n == Len(stages)
<1>0. ExactShapes BY DEF ExactKeeping
<1>1. /\ UNCHANGED <<src, op, count>> /\ pending' = <<>> /\ pending # <<>>
      /\ op.step = "none"
      /\ accepted' # <<>> /\ ExactOne(accepted') /\ ExactEvidence(accepted')
      /\ Head(accepted').source = e.source /\ Head(accepted').before = e.before
      /\ Head(accepted').gen = gen'
      /\ \E T : stages' \in Seq(T)
      /\ n \in Nat /\ Len(stages') = n + 1 /\ (stages = <<>> <=> n = 0) /\ stages' # <<>>
      /\ \A i \in 1..n : stages'[i] = stages[i]
      /\ DOMAIN stages'[n + 1] = {"evidence", "prior", "overrides", "verify"}
      /\ stages'[n + 1].evidence = Head(accepted') /\ stages'[n + 1].prior = accepted
  BY <1>0, ExactAccepts
<1>2. ExactShapes'
  <2>1. ASSUME NEW i \in 1..Len(stages')
        PROVE  /\ DOMAIN stages'[i] = {"evidence", "prior", "overrides", "verify"}
               /\ ExactOne(stages'[i].prior) /\ ExactEvidence(stages'[i].prior)
    <3>1. CASE i \in 1..n BY <1>0, <1>1, <3>1 DEF ExactShapes
    <3>2. CASE i = n + 1 BY <1>0, <1>1, <3>2 DEF ExactShapes
    <3>3. QED BY <1>1, <3>1, <3>2
  <2>2. ExactOne(pending') /\ ExactEvidence(pending') BY <1>1 DEF ExactOne, ExactEvidence
  <2>3. QED BY <1>0, <1>1, <2>1, <2>2 DEF ExactShapes
<1>3. ASSUME count.outside = 0 PROVE ExactPreparing' /\ ExactFresh' /\ ExactChain'
  <2>1. ExactPreparing /\ ExactFresh /\ ExactChain BY <1>3 DEF ExactKeeping
  <2>2. ExactPreparing' BY <1>1 DEF ExactPreparing
  <2>3. e.source = src BY <1>1, <2>1 DEF ExactFresh
  <2>4. ExactFresh' BY <1>1, <2>3 DEF ExactFresh, ExactKnown
  <2>5. accepted # <<>> => Head(accepted).source = e.before
    BY <1>1, <2>1 DEF ExactFresh, ExactKnown
  <2>6. stages'[1].prior = <<>>
    <3>1. CASE n = 0 BY <1>1, <2>1, <3>1 DEF ExactChain
    <3>2. CASE n # 0 BY <1>1, <2>1, <3>2 DEF ExactChain
    <3>3. QED BY <3>1, <3>2
  <2>7. ASSUME NEW i \in 2..Len(stages')
        PROVE  /\ stages'[i].evidence.before = stages'[i - 1].evidence.source
               /\ stages'[i].prior # <<>>
               /\ Head(stages'[i].prior).source = stages'[i - 1].evidence.source
               /\ Head(stages'[i].prior).before = stages'[i - 1].evidence.before
    <3>1. CASE i \in 2..n
      <4>1. i \in 1..n /\ i - 1 \in 1..n BY <1>1, <3>1
      <4>2. stages'[i] = stages[i] /\ stages'[i - 1] = stages[i - 1] BY <1>1, <4>1
      <4>3. QED BY <2>1, <3>1, <4>2 DEF ExactChain
    <3>2. CASE i = n + 1
      <4>1. n \in 1..n /\ n # 0 /\ i - 1 = n BY <1>1, <3>2
      <4>2. stages'[i - 1] = stages[n] BY <1>1, <4>1
      <4>3. stages # <<>> /\ accepted # <<>> /\ stages[n].evidence = Head(accepted)
        BY <1>1, <2>1, <4>1 DEF ExactChain
      <4>4. QED BY <1>1, <2>5, <3>2, <4>2, <4>3
    <3>3. QED BY <1>1, <3>1, <3>2
  <2>8. QED BY <1>1, <2>2, <2>4, <2>6, <2>7 DEF ExactChain
<1>4. QED BY <1>1, <1>2, <1>3 DEF ExactKeeping

(* What a rollback of an accepted selection does to the stack and the      *)
(* evidence.                                                               *)
LEMMA ExactRollsBack ==
  ASSUME ExactShapes, X!RollbackAccepted
  PROVE  LET n == Len(stages)
             stage == stages[n]
         IN /\ UNCHANGED <<state, real, pending, op, count>> /\ state = "active"
            /\ pending = <<>> /\ op.step = "none" /\ stages # <<>>
            /\ src' = stage.evidence.before /\ n \in Nat \ {0} /\ Len(stages') = n - 1
            /\ accepted' = <<>> <=> stage.prior = <<>>
            /\ accepted' # <<>> => /\ Head(accepted').gen = gen'
                                   /\ Head(accepted').source = Head(stage.prior).source
                                   /\ Head(accepted').before = Head(stage.prior).before
            /\ ExactOne(accepted') /\ ExactEvidence(accepted')
            /\ \E T : stages' \in Seq(T)
            /\ \A i \in 1..(n - 1) :
                 /\ i # n - 1 \/ accepted' = <<>> => stages'[i] = stages[i]
                 /\ i = n - 1 /\ accepted' # <<>> => stages'[i].evidence = Head(accepted')
                 /\ DOMAIN stages'[i] = {"evidence", "prior", "overrides", "verify"}
                 /\ stages'[i].prior = stages[i].prior /\ stages'[i].verify = stages[i].verify
<1> DEFINE n == Len(stages)
           stage == stages[n]
           front == X!Front(stages)
           prior == [Head(stage.prior) EXCEPT !.gen = gen']
<1>1. /\ UNCHANGED <<state, real, pending, op, count>> /\ pending = <<>> /\ op.step = "none"
      /\ state = "active" /\ stages # <<>> /\ src' = stage.evidence.before
      /\ accepted' = IF stage.prior = <<>> THEN <<>> ELSE <<prior>>
      /\ stages' = IF accepted' = <<>> \/ n = 1 THEN front
                   ELSE [front EXCEPT ![n - 1].evidence = Head(accepted')]
  BY DEF X!RollbackAccepted, X!Usable, X!Prepared, X!Last, X!Prior, X!Stamped
<1>2. PICK T : stages \in Seq(T) BY DEF ExactShapes
<1>3. /\ front \in Seq(T) /\ n \in Nat \ {0} /\ Len(front) = n - 1
      /\ \A i \in 1..(n - 1) : front[i] = stages[i]
  BY <1>1, <1>2, ExactFront
<1>4. DOMAIN stage = {"evidence", "prior", "overrides", "verify"}
    /\ ExactEvidence(stage.prior)
  BY <1>3 DEF ExactShapes
<1> HIDE DEF front
<1>5. stage.prior # <<>> =>
        /\ accepted' = <<prior>> /\ accepted' # <<>> /\ Head(accepted') = prior
        /\ prior.gen = gen' /\ prior.source = Head(stage.prior).source
        /\ prior.before = Head(stage.prior).before /\ DOMAIN prior = {"source", "before",
           "gen"}
  BY <1>1, <1>4 DEF ExactEvidence
<1>6. ExactOne(accepted') /\ ExactEvidence(accepted')
    /\ (accepted' = <<>> <=> stage.prior = <<>>)
  BY <1>1, <1>5 DEF ExactOne, ExactEvidence
<1> HIDE DEF prior
<1>7. /\ \E S : stages' \in Seq(S)
      /\ Len(stages') = n - 1
      /\ \A i \in 1..(n - 1) :
           /\ i # n - 1 \/ accepted' = <<>> => stages'[i] = stages[i]
           /\ i = n - 1 /\ accepted' # <<>> => stages'[i].evidence = Head(accepted')
           /\ DOMAIN stages'[i] = {"evidence", "prior", "overrides", "verify"}
           /\ stages'[i].prior = stages[i].prior /\ stages'[i].verify = stages[i].verify
  <2>1. CASE accepted' = <<>> \/ n = 1
    <3>1. stages' = front BY <1>1, <2>1
    <3>2. \A i \in 1..(n - 1) : DOMAIN stages[i] = {"evidence", "prior", "overrides",
        "verify"}
      BY <1>3 DEF ExactShapes
    <3>3. QED BY <1>3, <2>1, <3>1, <3>2
  <2>2. CASE accepted' # <<>> /\ n # 1
    <3> DEFINE below == [front[n - 1] EXCEPT !.evidence = prior]
    <3>1. n - 1 \in 1..Len(front) /\ n - 1 \in 1..n BY <1>3, <2>2
    <3>2. stages' = [front EXCEPT ![n - 1] = below] BY <1>1, <1>5, <2>2, <3>1
    <3>3. /\ DOMAIN stages[n - 1] = {"evidence", "prior", "overrides", "verify"}
          /\ front[n - 1] = stages[n - 1]
      BY <1>3, <3>1 DEF ExactShapes
    <3>4. /\ DOMAIN below = {"evidence", "prior", "overrides", "verify"}
          /\ below.prior = stages[n - 1].prior /\ below.evidence = prior
          /\ below.verify = stages[n - 1].verify
      BY <3>3
    <3> HIDE DEF below
    <3>5. /\ stages' \in Seq(T \cup {below}) /\ Len(stages') = Len(front)
          /\ stages'[n - 1] = below
          /\ \A i \in 1..Len(front) : i # n - 1 => stages'[i] = front[i]
      BY <1>3, <3>1, <3>2, ExactReplaced
    <3>6. \A i \in 1..(n - 1) : DOMAIN stages[i] = {"evidence", "prior", "overrides",
        "verify"}
      BY <1>3 DEF ExactShapes
    <3>7. prior = Head(accepted') BY <1>5, <1>6, <2>2
    <3>8. QED BY <1>3, <2>2, <3>4, <3>5, <3>6, <3>7
  <2>3. QED BY <2>1, <2>2
<1>8. accepted' # <<>> => /\ Head(accepted').gen = gen'
                         /\ Head(accepted').source = Head(stage.prior).source
                         /\ Head(accepted').before = Head(stage.prior).before
  BY <1>5, <1>6
<1>9. QED BY <1>1, <1>3, <1>6, <1>7, <1>8

LEMMA ExactRollbackKeeps == ASSUME ExactKeeping, X!RollbackAccepted PROVE ExactKeeping'
<1> DEFINE n == Len(stages)
           stage == stages[n]
<1>0. ExactShapes BY DEF ExactKeeping
<1>1. /\ UNCHANGED <<pending, op, count>> /\ pending = <<>> /\ op.step = "none"
      /\ stages # <<>>
      /\ src' = stage.evidence.before /\ n \in Nat \ {0} /\ Len(stages') = n - 1
      /\ accepted' = <<>> <=> stage.prior = <<>>
      /\ accepted' # <<>> => /\ Head(accepted').gen = gen'
                             /\ Head(accepted').source = Head(stage.prior).source
                             /\ Head(accepted').before = Head(stage.prior).before
      /\ ExactOne(accepted') /\ ExactEvidence(accepted')
      /\ \E T : stages' \in Seq(T)
  BY <1>0, ExactRollsBack
<1>2. \A i \in 1..(n - 1) :
        /\ i # n - 1 \/ accepted' = <<>> => stages'[i] = stages[i]
        /\ i = n - 1 /\ accepted' # <<>> => stages'[i].evidence = Head(accepted')
        /\ DOMAIN stages'[i] = {"evidence", "prior", "overrides", "verify"}
        /\ stages'[i].prior = stages[i].prior
  BY <1>0, ExactRollsBack
<1>3. ExactShapes'
  <2>1. \A i \in 1..Len(stages') : i \in 1..n BY <1>1
  <2>2. QED BY <1>0, <1>1, <1>2, <2>1 DEF ExactShapes
<1>4. ASSUME count.outside = 0 PROVE ExactPreparing' /\ ExactFresh' /\ ExactChain'
  <2>1. ExactPreparing /\ ExactFresh /\ ExactChain BY <1>4 DEF ExactKeeping
  <2>2. ExactPreparing' BY <1>1 DEF ExactPreparing
  <2>3. CASE n = 1
    <3>1. accepted' = <<>> /\ stages' = <<>> BY <1>1, <2>1, <2>3 DEF ExactChain
    <3>2. QED BY <1>1, <2>2, <2>3, <3>1 DEF ExactFresh, ExactChain
  <2>4. CASE n # 1
    <3>1. /\ stage.evidence.before = stages[n - 1].evidence.source /\ stage.prior # <<>>
          /\ Head(stage.prior).source = stages[n - 1].evidence.source
          /\ Head(stage.prior).before = stages[n - 1].evidence.before
      BY <1>1, <2>1, <2>4 DEF ExactChain
    <3>2. ExactFresh' BY <1>1, <3>1 DEF ExactFresh, ExactKnown
    <3>3. n - 1 \in 1..(n - 1) /\ 1 \in 1..(n - 1) /\ stages' # <<>> BY <1>1, <2>4
    <3>4. stages'[Len(stages')].evidence = Head(accepted') /\ stages'[1].prior = <<>>
      BY <1>1, <1>2, <2>1, <3>1, <3>3 DEF ExactChain
    <3>5. ASSUME NEW i \in 2..Len(stages')
          PROVE  /\ stages'[i].evidence.before = stages'[i - 1].evidence.source
                 /\ stages'[i].prior # <<>>
                 /\ Head(stages'[i].prior).source = stages'[i - 1].evidence.source
                 /\ Head(stages'[i].prior).before = stages'[i - 1].evidence.before
      <4>1. i \in 2..n /\ i \in 1..(n - 1) /\ i - 1 \in 1..(n - 1) /\ i - 1 # n - 1
        BY <1>1, <3>5
      <4>2. stages'[i - 1] = stages[i - 1] BY <1>2, <4>1
      <4>3. /\ stages[i].evidence.before = stages[i - 1].evidence.source
            /\ stages[i].prior # <<>>
            /\ Head(stages[i].prior).source = stages[i - 1].evidence.source
            /\ Head(stages[i].prior).before = stages[i - 1].evidence.before
        BY <2>1, <4>1 DEF ExactChain
      <4>4. stages'[i].evidence.before = stages[i].evidence.before
        BY <1>1, <1>2, <3>1, <4>1
      <4>5. QED BY <1>2, <4>1, <4>2, <4>3, <4>4
    <3>6. QED BY <1>1, <2>2, <3>1, <3>2, <3>3, <3>4, <3>5 DEF ExactChain
  <2>5. QED BY <2>3, <2>4
<1>5. QED BY <1>1, <1>3, <1>4 DEF ExactKeeping

LEMMA ExactKeeps == ASSUME ExactKeeping, X!Next \/ UNCHANGED exactly PROVE ExactKeeping'
BY ExactPreparesKeeps, ExactStagesKeeps, ExactChangesKeeps, ExactOutsideKeeps,
   ExactEndsKeeps,
   ExactRollbackPendingKeeps, ExactAcceptKeeps, ExactRollbackKeeps
   DEF X!Next

-----------------------------------------------------------------------------
(* Exact selections: what is applied was verified, whoever writes to the   *)
(* staged source.                                                          *)

(* The fields of a source. *)
ExactSource(s) == DOMAIN s = {"mods", "intent", "other"}

(* While nothing is accepted and no verification is owed, the MODs are     *)
(* those the transaction has started with.                                 *)
ExactOrigins ==
  /\ DOMAIN flags = {"overrides", "verify", "intentOnly",
     "recorded"} /\ flags.verify \in BOOLEAN
  /\ ExactSource(src)
  /\ accepted = <<>> /\ ~flags.verify => ExactKnown.mods = X!Untouched.mods

(* A selection that fails can go back to the source it has found. *)
ExactReturns ==
  /\ op.step # "none" => op.before # <<>> /\ pending = <<>> /\ ExactSource(Head(op.before))
  /\ op.checkpoint # <<>> => op.checkpoint = op.before
  /\ op.step \in {"resolve", "verify"} => op.checkpoint # <<>>
  /\ op.step = "checkpoint" => op.checkpoint = <<>>
  /\ op.step \in {"checkpoint", "resolve"} \/ (op.step = "fails" /\ op.checkpoint = <<>>) =>
       src.mods = Head(op.before).mods
  /\ pending # <<>> => ExactSource(Head(pending).before)

(* The stack of the accepted selections remembers where each has started,  *)
(* and whether a verification was already owed then.                       *)
ExactStack ==
  /\ accepted # <<>> <=> stages # <<>>
  /\ stages # <<>> => /\ Head(accepted).before = stages[Len(stages)].evidence.before
                      /\ stages[1].prior = <<>>
  /\ \A i \in 1..Len(stages) :
       /\ ExactSource(stages[i].evidence.before) /\ stages[i].verify \in BOOLEAN
       /\ stages[i].prior = <<>> /\ ~stages[i].verify =>
            stages[i].evidence.before.mods = X!Untouched.mods
  /\ \A i \in 2..Len(stages) :
       /\ stages[i].prior # <<>>
       /\ Head(stages[i].prior).before = stages[i - 1].evidence.before

(* The inductive invariant of the verification. *)
ExactTracing ==
  /\ ExactOrigins /\ ExactReturns /\ ExactStack
  /\ state = "applied" => op.step = "none" /\ X!AppliedIsVerified

(* The invariant holds at first. *)
LEMMA ExactTracesInitially == X!Init => ExactTracing
<1> SUFFICES ASSUME X!Init PROVE ExactTracing
  OBVIOUS
<1>1. stages = <<>> /\ Len(stages) = 0
  BY DEF X!Init
<1>2. DOMAIN X!Untouched = {"mods", "intent", "other"} BY DEF X!Untouched
<1>3. QED BY <1>1, <1>2 DEF X!Init, X!NoOperation, ExactTracing, ExactOrigins, ExactReturns,
  ExactStack, ExactSource, ExactKnown

(* What is applied stays verified. *)
LEMMA ExactAppliedStays ==
  ASSUME ExactTracing, UNCHANGED <<state, real>>, state # "applied" \/ UNCHANGED <<pending,
      accepted, op>>
  PROVE  state' = "applied" => op'.step = "none" /\ X!AppliedIsVerified'
BY DEF ExactTracing, X!AppliedIsVerified, X!Evidence, X!ToSet

(* Every action keeps the invariant. *)
LEMMA ExactPreparesTraces ==
  ASSUME ExactShapes, ExactTracing,
         \/ X!PrepareBegins \/ X!PrepareCheckpoints \/ X!PrepareFails \/ X!PrepareRestores
         \/ X!CancelPrepare
  PROVE  ExactTracing'
<1>1. UNCHANGED <<state, real, pending, accepted, stages, flags>> /\ state # "applied"
  BY DEF X!PrepareBegins, X!PrepareCheckpoints, X!PrepareFails, X!PrepareRestores,
     X!CancelPrepare, X!Usable, ExactTracing
<1>2. state' = "applied" => op'.step = "none" /\ X!AppliedIsVerified'
  BY <1>1
<1>3. ExactStack' BY <1>1 DEF ExactTracing, ExactStack
<1>4. ExactReturns' /\ ExactSource(src') /\ ExactKnown'.mods = ExactKnown.mods
  <2>0. ExactReturns /\ ExactSource(src) BY DEF ExactTracing, ExactOrigins
  <2>2. CASE X!PrepareBegins
    <3>1. /\ DOMAIN op' = DOMAIN op /\ op'.step = "checkpoint" /\ op'.before = <<src>>
          /\ op'.checkpoint = <<>> /\ UNCHANGED src /\ pending = <<>> /\ op.step = "none"
      BY <2>2, ExactBegins
    <3>2. Head(op'.before) = src /\ op'.before # <<>> BY <3>1
    <3>3. QED BY <1>1, <2>0, <3>1, <3>2 DEF ExactReturns, ExactKnown
  <2>3. CASE X!PrepareCheckpoints
    <3>1. /\ op'.before = op.before /\ UNCHANGED src /\ op.step = "checkpoint"
          /\ \/ /\ op'.step = "resolve" /\ op'.checkpoint = <<src>> /\ src = Head(op.before)
             \/ op'.step = "fails" /\ op'.checkpoint = op.checkpoint
      BY <2>3 DEF X!PrepareCheckpoints, ExactShapes
    <3>2. src = Head(op.before) => <<src>> = op.before
      BY <2>0, <3>1 DEF ExactReturns, ExactShapes, ExactOne
    <3>3. QED BY <1>1, <2>0, <3>1, <3>2 DEF ExactReturns, ExactKnown
  <2>4. CASE X!PrepareFails
    <3>1. /\ op'.step = "fails" /\ op'.before = op.before /\ op'.checkpoint = op.checkpoint
          /\ UNCHANGED src /\ op.step \in {"checkpoint", "resolve", "verify"}
      BY <2>4 DEF X!PrepareFails, ExactShapes
    <3>2. QED BY <1>1, <2>0, <3>1 DEF ExactReturns, ExactKnown
  <2>5. CASE X!PrepareRestores
    <3>1. CASE op' = X!NoOperation
        /\ src' = IF op.checkpoint = <<>> THEN src ELSE Head(op.checkpoint)
      <4>1. op'.step = "none" /\ op'.checkpoint = <<>> /\ op.step = "fails"
        BY <2>5, <3>1 DEF X!PrepareRestores, X!NoOperation
      <4>2. src'.mods = Head(op.before).mods /\ ExactSource(src')
        BY <2>0, <3>1, <4>1 DEF ExactReturns
      <4>3. QED BY <1>1, <2>0, <4>1, <4>2 DEF ExactReturns, ExactKnown
    <3>2. CASE op' = [op EXCEPT !.step = "stuck"]
        /\ src' = IF op.checkpoint = <<>> THEN src ELSE Head(op.checkpoint)
      <4>1. /\ op'.step = "stuck" /\ op'.before = op.before
            /\ op'.checkpoint = op.checkpoint
            /\ op.step = "fails"
        BY <2>5, <3>2 DEF X!PrepareRestores, ExactShapes
      <4>2. ExactSource(src')
        BY <2>0, <3>2, <4>1 DEF ExactReturns
      <4>3. QED BY <1>1, <2>0, <4>1, <4>2 DEF ExactReturns, ExactKnown
    <3>3. CASE op' = [op EXCEPT !.step = "stuck"] /\ UNCHANGED src
      <4>1. /\ op'.step = "stuck" /\ op'.before = op.before
            /\ op'.checkpoint = op.checkpoint
            /\ op.step = "fails"
        BY <2>5, <3>3 DEF X!PrepareRestores, ExactShapes
      <4>2. QED BY <1>1, <2>0, <3>3, <4>1 DEF ExactReturns, ExactKnown
    <3>4. QED BY <2>5, <3>1, <3>2, <3>3 DEF X!PrepareRestores
  <2>6. CASE X!CancelPrepare
    <3>1. /\ op'.step = op.step /\ op'.before = op.before /\ op'.checkpoint = op.checkpoint
          /\ UNCHANGED src
      BY <2>6 DEF X!CancelPrepare, ExactShapes
    <3>2. QED BY <1>1, <2>0, <3>1 DEF ExactReturns, ExactKnown
  <2>7. QED BY <2>2, <2>3, <2>4, <2>5, <2>6
<1>5. QED BY <1>1, <1>2, <1>3, <1>4 DEF ExactTracing, ExactOrigins

LEMMA ExactStagesTraces ==
  ASSUME ExactShapes, ExactTracing, X!PrepareStages \/ X!PrepareSucceeds PROVE ExactTracing'
<1>0. ExactOrigins /\ ExactReturns /\ ExactStack BY DEF ExactTracing
<1>1. UNCHANGED <<state, real, accepted, stages, flags>> /\ state # "applied"
  BY DEF X!PrepareStages, X!PrepareSucceeds, ExactTracing
<1>2. ExactStack' BY <1>0, <1>1 DEF ExactStack
<1>3. CASE X!PrepareStages
  <2>1. /\ UNCHANGED pending /\ op' = [op EXCEPT !.step = "verify"] /\ op.step = "resolve"
        /\ DOMAIN src' = DOMAIN src
    BY <1>3 DEF X!PrepareStages
  <2>2. op'.step = "verify" /\ op'.before = op.before /\ op'.checkpoint = op.checkpoint
    BY <2>1 DEF ExactShapes
  <2>3. ExactOrigins' /\ ExactReturns'
    BY <1>0, <1>1, <2>1, <2>2 DEF ExactOrigins, ExactReturns, ExactKnown, ExactSource
  <2>4. QED BY <1>1, <1>2, <2>3 DEF ExactTracing
<1>4. CASE X!PrepareSucceeds
  <2>1. /\ op.step = "verify" /\ op' = X!NoOperation /\ UNCHANGED src
        /\ pending' = <<[source |-> src, before |-> Head(op.before), gen |-> gen]>>
    BY <1>4 DEF X!PrepareSucceeds
  <2>2. pending' # <<>> /\ Head(pending').before = Head(op.before)
    BY <2>1
  <2>3. op'.step = "none" /\ op'.checkpoint = <<>> BY <2>1 DEF X!NoOperation
  <2>4. ExactOrigins' /\ ExactReturns'
    BY <1>0, <1>1, <2>1, <2>2, <2>3 DEF ExactOrigins, ExactReturns, ExactKnown
  <2>5. QED BY <1>1, <1>2, <2>4 DEF ExactTracing
<1>5. QED BY <1>3, <1>4

LEMMA ExactChangesTraces ==
  ASSUME ExactShapes, ExactTracing, X!Change \/ X!ChangeIntent PROVE ExactTracing'
<1>0. ExactOrigins /\ ExactReturns /\ ExactStack BY DEF ExactTracing
<1>1. /\ UNCHANGED <<state, real, pending, op>> /\ pending = <<>> /\ op.step = "none"
      /\ state = "active"
  BY DEF X!Change, X!ChangeIntent, X!Usable, X!Prepared
<1>2. src'.mods = src.mods /\ ExactSource(src')
  <2>1. CASE X!Change BY <1>0, <2>1 DEF X!Change, ExactOrigins, ExactSource
  <2>2. CASE X!ChangeIntent
    <3>1. \E m, i : src' = [src EXCEPT !.intent[m] = i] BY <2>2 DEF X!ChangeIntent
    <3>2. QED BY <1>0, <3>1 DEF ExactOrigins, ExactSource
  <2>3. QED BY <2>1, <2>2
<1>3. ExactReturns' BY <1>0, <1>1 DEF ExactReturns
<1>4. CASE /\ accepted' = <<>> /\ stages' = <<>> /\ DOMAIN flags' = DOMAIN flags
           /\ flags'.verify = (flags.verify \/ accepted # <<>>)
  <2>1. Len(stages') = 0 BY <1>4
  <2>2. ExactStack' BY <1>4, <2>1 DEF ExactStack
  <2>3. ExactOrigins' BY <1>0, <1>1, <1>2, <1>4 DEF ExactOrigins, ExactKnown
  <2>4. QED BY <1>1, <1>3, <2>2, <2>3 DEF ExactTracing
<1>5. CASE UNCHANGED <<accepted, stages>> /\ DOMAIN flags' = DOMAIN flags
    /\ flags'.verify = flags.verify
  <2>1. ExactStack' BY <1>0, <1>5 DEF ExactStack
  <2>2. ExactOrigins' BY <1>0, <1>1, <1>2, <1>5 DEF ExactOrigins, ExactKnown
  <2>3. QED BY <1>1, <1>3, <2>1, <2>2 DEF ExactTracing
<1>6. QED
  <2>1. CASE X!Change
    <3>1. accepted' = <<>> /\ stages' = <<>>
          /\ \E x : flags' = [flags EXCEPT !.verify = @ \/ accepted # <<>>,
             !.intentOnly = x, !.recorded = TRUE]
      BY <2>1 DEF X!Change, X!Records
    <3>2. QED BY <1>0, <1>4, <3>1 DEF ExactOrigins
  <2>2. CASE X!ChangeIntent
    <3>1. \/ accepted' = <<>> /\ stages' = <<>>
             /\ \E x : flags' = [flags EXCEPT !.verify = @ \/ accepted # <<>>,
                !.overrides = TRUE, !.intentOnly = x, !.recorded = TRUE]
          \/ UNCHANGED <<accepted,
             stages>> /\ \E x : flags' = [flags EXCEPT !.intentOnly = x]
      BY <2>2 DEF X!ChangeIntent
    <3>2. QED BY <1>0, <1>4, <1>5, <3>1 DEF ExactOrigins
  <2>3. QED BY <2>1, <2>2

LEMMA ExactOutsideTraces == ASSUME ExactShapes, ExactTracing, X!Outside PROVE ExactTracing'
<1>0. ExactOrigins /\ ExactReturns /\ ExactStack BY DEF ExactTracing
<1>1. /\ UNCHANGED <<state, real, pending, accepted, stages, flags, op>> /\ state = "active"
      /\ src' = [src EXCEPT !.other = @ + 1]
  BY DEF X!Outside
<1>2. src'.mods = src.mods /\ ExactSource(src') BY <1>0, <1>1 DEF ExactOrigins, ExactSource
<1>3. ExactOrigins' BY <1>0, <1>1, <1>2 DEF ExactOrigins, ExactKnown
<1>4. ExactReturns' BY <1>0, <1>1, <1>2 DEF ExactReturns
<1>5. ExactStack' BY <1>0, <1>1 DEF ExactStack
<1>6. QED BY <1>1, <1>3, <1>4, <1>5 DEF ExactTracing

LEMMA ExactApplyTraces == ASSUME ExactShapes, ExactTracing, X!Apply PROVE ExactTracing'
<1>0. ExactOrigins /\ ExactReturns /\ ExactStack BY DEF ExactTracing
<1>1. /\ UNCHANGED <<src, pending, accepted, stages, flags, op>> /\ real' = src
      /\ op.step = "none" /\ X!Admissible
  BY DEF X!Apply, X!Usable
<1>2. ExactOrigins' /\ ExactReturns' /\ ExactStack'
  BY <1>0, <1>1 DEF ExactOrigins, ExactReturns, ExactStack, ExactKnown
<1>3. X!AppliedIsVerified'
  <2>1. CASE pending # <<>>
    <3>1. pending = <<Head(pending)>> BY <2>1 DEF ExactShapes, ExactOne
    <3>2. Head(pending) \in X!ToSet(pending) BY <3>1 DEF X!ToSet
    <3>3. Head(pending).source = src
      BY <1>1, <2>1 DEF X!Admissible, X!Prepared, X!Valid
    <3>4. QED BY <1>1, <3>2, <3>3 DEF X!AppliedIsVerified, X!Evidence, X!ToSet
  <2>2. CASE pending = <<>> /\ accepted # <<>>
    <3>1. accepted = <<Head(accepted)>> BY <2>2 DEF ExactShapes, ExactOne
    <3>2. Head(accepted) \in X!ToSet(accepted) BY <3>1 DEF X!ToSet
    <3>3. Head(accepted).source = src
      BY <1>1, <2>2 DEF X!Admissible, X!Prepared, X!Valid
    <3>4. QED BY <1>1, <3>2, <3>3 DEF X!AppliedIsVerified, X!Evidence, X!ToSet
  <2>3. CASE pending = <<>> /\ accepted = <<>>
    <3>1. ~flags.verify BY <1>1, <2>3 DEF X!Admissible, X!Prepared
    <3>2. src.mods = X!Untouched.mods
      BY <1>0, <1>1, <2>3, <3>1 DEF ExactOrigins, ExactKnown
    <3>3. QED BY <1>1, <3>2 DEF X!AppliedIsVerified
  <2>4. QED BY <2>1, <2>2, <2>3
<1>4. QED BY <1>1, <1>2, <1>3 DEF ExactTracing

LEMMA ExactRestTraces ==
  ASSUME ExactShapes, ExactTracing, X!Discard \/ UNCHANGED exactly PROVE ExactTracing'
<1>1. UNCHANGED <<src, real, pending, accepted, stages, flags, op>>
    /\ (state' = "applied" => state = "applied")
  BY DEF X!Discard, exactly
<1>2. QED BY <1>1 DEF ExactTracing, ExactOrigins, ExactReturns, ExactStack, ExactKnown,
  X!AppliedIsVerified, X!Evidence, X!ToSet

LEMMA ExactRollbackPendingTraces ==
  ASSUME ExactShapes, ExactTracing, X!RollbackPending PROVE ExactTracing'
<1>0. ExactOrigins /\ ExactReturns /\ ExactStack BY DEF ExactTracing
<1>1. /\ UNCHANGED <<state, accepted, stages, flags, op>> /\ state = "active"
      /\ pending' = <<>> /\ op.step = "none" /\ src' = Head(pending).before /\ pending # <<>>
  BY DEF X!RollbackPending, X!Usable, X!Prepared
<1>2. ExactOrigins' BY <1>0, <1>1 DEF ExactOrigins, ExactReturns, ExactKnown
<1>3. ExactReturns' BY <1>0, <1>1 DEF ExactReturns
<1>4. ExactStack' BY <1>0, <1>1 DEF ExactStack
<1>5. QED BY <1>1, <1>2, <1>3, <1>4 DEF ExactTracing

LEMMA ExactAcceptTraces ==
  ASSUME ExactShapes, ExactTracing, X!Accept PROVE ExactTracing'
<1> DEFINE e == Head(pending)
           n == Len(stages)
<1>0. ExactOrigins /\ ExactReturns /\ ExactStack BY DEF ExactTracing
<1>1. /\ UNCHANGED <<state, src, op>> /\ state = "active"
      /\ pending' = <<>> /\ pending # <<>> /\ op.step = "none"
      /\ accepted' # <<>> /\ Head(accepted').before = e.before
      /\ n \in Nat /\ Len(stages') = n + 1 /\ (stages = <<>> <=> n = 0) /\ stages' # <<>>
      /\ \A i \in 1..n : stages'[i] = stages[i]
      /\ stages'[n + 1].evidence = Head(accepted') /\ stages'[n + 1].prior = accepted
      /\ stages'[n + 1].verify = flags.verify
  BY ExactAccepts
<1>2. flags' = [flags EXCEPT !.overrides = TRUE, !.verify = FALSE] BY DEF X!Accept
<1>3. ExactOrigins' BY <1>0, <1>1, <1>2 DEF ExactOrigins
<1>4. ExactReturns' BY <1>0, <1>1 DEF ExactReturns
<1>5. ExactSource(e.before) /\ (accepted = <<>>
    /\ ~flags.verify => e.before.mods = X!Untouched.mods)
  BY <1>0, <1>1 DEF ExactReturns, ExactOrigins, ExactKnown
<1>6. ASSUME NEW i \in 1..Len(stages')
      PROVE  /\ ExactSource(stages'[i].evidence.before) /\ stages'[i].verify \in BOOLEAN
             /\ stages'[i].prior = <<>> /\ ~stages'[i].verify =>
                  stages'[i].evidence.before.mods = X!Untouched.mods
  <2>1. CASE i \in 1..n BY <1>0, <1>1, <2>1 DEF ExactStack
  <2>2. CASE i = n + 1 BY <1>0, <1>1, <1>5, <2>2 DEF ExactOrigins
  <2>3. QED BY <1>1, <2>1, <2>2
<1>7. ASSUME NEW i \in 2..Len(stages')
      PROVE  /\ stages'[i].prior # <<>>
             /\ Head(stages'[i].prior).before = stages'[i - 1].evidence.before
  <2>1. CASE i \in 2..n
    <3>1. i \in 1..n /\ i - 1 \in 1..n BY <1>1, <2>1
    <3>2. QED BY <1>0, <1>1, <2>1, <3>1 DEF ExactStack
  <2>2. CASE i = n + 1
    <3>1. n \in 1..n /\ n # 0 /\ i - 1 = n BY <1>1, <2>2
    <3>2. QED BY <1>0, <1>1, <2>2, <3>1 DEF ExactStack
  <2>3. QED BY <1>1, <2>1, <2>2
<1>8. stages'[1].prior = <<>>
  <2>1. CASE n = 0 BY <1>0, <1>1, <2>1 DEF ExactStack
  <2>2. CASE n # 0 BY <1>0, <1>1, <2>2 DEF ExactStack
  <2>3. QED BY <2>1, <2>2
<1>9. ExactStack' BY <1>1, <1>6, <1>7, <1>8 DEF ExactStack
<1>10. QED BY <1>1, <1>3, <1>4, <1>9 DEF ExactTracing

LEMMA ExactRollbackTraces ==
  ASSUME ExactShapes, ExactTracing, X!RollbackAccepted PROVE ExactTracing'
<1> DEFINE n == Len(stages)
           stage == stages[n]
<1>0. ExactOrigins /\ ExactReturns /\ ExactStack BY DEF ExactTracing
<1>1. /\ UNCHANGED <<state, pending, op>> /\ state = "active" /\ pending = <<>>
      /\ op.step = "none" /\ stages # <<>>
      /\ src' = stage.evidence.before /\ n \in Nat \ {0} /\ Len(stages') = n - 1
      /\ accepted' = <<>> <=> stage.prior = <<>>
      /\ accepted' # <<>> => Head(accepted').before = Head(stage.prior).before
      /\ \E T : stages' \in Seq(T)
  BY ExactRollsBack
<1>2. \A i \in 1..(n - 1) :
        /\ i # n - 1 \/ accepted' = <<>> => stages'[i] = stages[i]
        /\ i = n - 1 /\ accepted' # <<>> => stages'[i].evidence = Head(accepted')
        /\ stages'[i].prior = stages[i].prior /\ stages'[i].verify = stages[i].verify
  BY ExactRollsBack
<1>3. /\ DOMAIN flags' = DOMAIN flags /\ flags'.verify = stage.verify
      /\ stage.verify \in BOOLEAN /\ ExactSource(stage.evidence.before)
      /\ stage.prior = <<>> /\ ~stage.verify =>
         stage.evidence.before.mods = X!Untouched.mods
  <2>1. flags' = [flags EXCEPT !.overrides = stage.overrides, !.verify = stage.verify]
    BY DEF X!RollbackAccepted, X!Last
  <2>2. n \in 1..n BY <1>1
  <2>3. QED BY <1>0, <2>1, <2>2 DEF ExactOrigins, ExactStack
<1>4. ExactOrigins' BY <1>1, <1>3, <1>0 DEF ExactOrigins, ExactKnown
<1>5. ExactReturns' BY <1>0, <1>1 DEF ExactReturns
<1>6. stage.prior = <<>> <=> n = 1
  BY <1>0, <1>1 DEF ExactStack
<1>7. n # 1 => Head(accepted').before = stages[n - 1].evidence.before /\ accepted' # <<>>
  BY <1>0, <1>1, <1>6 DEF ExactStack
<1>8. \A i \in 1..(n - 1) : stages'[i].evidence.before = stages[i].evidence.before
  BY <1>1, <1>2, <1>7
<1>9. stages' # <<>> <=> n # 1 BY <1>1
<1>10. ExactStack'
  <2>1. accepted' # <<>> <=> stages' # <<>> BY <1>1, <1>6, <1>9
  <2>2. ASSUME n # 1
        PROVE  /\ Head(accepted').before = stages'[Len(stages')].evidence.before
               /\ stages'[1].prior = <<>>
    <3>1. n - 1 \in 1..(n - 1) /\ 1 \in 1..(n - 1) BY <1>1, <2>2
    <3>2. QED BY <1>0, <1>1, <1>2, <1>7, <1>8, <2>2, <3>1 DEF ExactStack
  <2>3. ASSUME NEW i \in 1..Len(stages')
        PROVE  /\ ExactSource(stages'[i].evidence.before) /\ stages'[i].verify \in BOOLEAN
               /\ stages'[i].prior = <<>> /\ ~stages'[i].verify =>
                    stages'[i].evidence.before.mods = X!Untouched.mods
    <3>1. i \in 1..n /\ i \in 1..(n - 1) BY <1>1
    <3>2. QED BY <1>0, <1>2, <1>8, <3>1 DEF ExactStack
  <2>4. ASSUME NEW i \in 2..Len(stages')
        PROVE  /\ stages'[i].prior # <<>>
               /\ Head(stages'[i].prior).before = stages'[i - 1].evidence.before
    <3>1. i \in 2..n /\ i \in 1..(n - 1) /\ i - 1 \in 1..(n - 1) BY <1>1
    <3>2. QED BY <1>0, <1>2, <1>8, <3>1 DEF ExactStack
  <2>5. QED BY <1>9, <2>1, <2>2, <2>3, <2>4 DEF ExactStack
<1>11. QED BY <1>1, <1>4, <1>5, <1>10 DEF ExactTracing

LEMMA ExactTraces ==
  ASSUME ExactShapes, ExactTracing, X!Next \/ UNCHANGED exactly PROVE ExactTracing'
BY ExactPreparesTraces, ExactStagesTraces, ExactChangesTraces, ExactOutsideTraces,
   ExactApplyTraces, ExactRestTraces, ExactRollbackPendingTraces, ExactAcceptTraces,
   ExactRollbackTraces
   DEF X!Next

-----------------------------------------------------------------------------
(* The import of Templates: the intents the user has taken over, and the   *)
(* locks and pins of the Pack.                                             *)

(* A source keeps what is asked of it: each intent that was taken over has *)
(* its exact release and is pinned to it, a locked MOD the release it was  *)
(* pinned to, and a pinned one its pin.                                    *)
ImportHolds(pack, pick) ==
  /\ \A i \in I!ActiveIntents(tx.world, pick) :
       pack.mods[i.mod] = i.exact /\ pack.pin[i.mod] = i.exact
  /\ \A m \in tx.world.pack.locked : pack.mods[m] = tx.world.pack.pin[m]
  /\ \A m \in I!Pinned(pack) : pack.pin[m] = pack.mods[m]

(* The inductive invariant of the intents: the staged source is that of    *)
(* the Pack until the resolved one is staged, which holds to the intents,  *)
(* and so does the source of the Pack when the import is applied.          *)
ImportKeeping ==
  /\ tx.world \in Import.Worlds
  /\ tx.state # "applied" => tx.real = tx.world.pack
  /\ tx.state = "applied" => work.apply # "none" /\ ImportHolds(tx.real, work.pick)
  /\ work.pc \in {"none", "new", "check", "resolve"} => tx.staged = tx.world.pack
  /\ work.pc = "new" /\ work.done => work.cancelled
  /\ work.pc \in {"stage", "verify"} => ImportHolds(Head(work.graph), work.pick)
  /\ work.pc \in {"finally", "ending", "end"} /\ ~work.error /\ ~work.cancelled =>
       ImportHolds(tx.staged, work.pick)
  /\ work.apply \in {"check", "publish"} => ImportHolds(tx.staged, work.pick)

(* A step that leaves the sources and the chosen intents alone, and begins *)
(* nothing that needs the staged source to hold to them.                   *)
ImportQuiet ==
  /\ tx'.world = tx.world /\ tx'.staged = tx.staged /\ tx'.real = tx.real
  /\ tx'.state = "applied" <=> tx.state = "applied"
  /\ work'.pick = work.pick /\ work'.graph = work.graph
  /\ work'.pc \in {"none", "new", "check", "resolve"} =>
       work.pc \in {"none", "new", "check", "resolve"}
  /\ work'.pc = "new" /\ work'.done => work'.cancelled
  /\ work'.pc \in {"stage", "verify"} => work.pc \in {"stage", "verify"}
  /\ work'.pc \in {"finally", "ending", "end"} /\ ~work'.error /\ ~work'.cancelled =>
       work.pc \in {"finally", "ending", "end"} /\ ~work.error /\ ~work.cancelled
  /\ work'.apply \in {"check", "publish"} =>
       \/ work.apply \in {"check", "publish"}
       \/ work.pc = "end" /\ ~work.error /\ ~work.cancelled
  /\ work.apply # "none" => work'.apply # "none"

(* The invariant is enough for what a run checks. *)
LEMMA ImportKeepsIntent == ImportKeeping => I!IntentIsKept
BY DEF ImportKeeping, ImportHolds, I!IntentIsKept, I!World, I!Pack

(* The invariant holds at first. *)
LEMMA ImportKeepsInitially == I!Init => ImportKeeping
BY DEF I!Init, I!Operation, ImportKeeping

(* A quiet step keeps the invariant. *)
LEMMA ImportQuietKeeps == ASSUME ImportKeeping, ImportQuiet PROVE ImportKeeping'
BY DEF ImportQuiet, ImportKeeping, ImportHolds

(* What the exact resolver returns holds to the intents. *)
LEMMA ImportExactHolds ==
  ASSUME tx.world \in Import.Worlds, NEW pick, NEW sides,
         NEW p \in I!ExactResults(tx.world.pack, pick, sides)
  PROVE  ImportHolds(p, pick)
<1> DEFINE pack == tx.world.pack
           intents == I!ActiveIntents(tx.world, pick)
           pins == I!Pins(pack, intents)
           task == I!Task(pack, pick, sides)
           staged(t) ==
             {[pack EXCEPT !.mods = g.mods, !.side = g.side, !.manifest = TRUE,
                 !.recorded = [m \in Import.Ids |-> IF m \in I!Roots(t) THEN t.roots[m] ELSE {}],
                 !.pin = pins] : g \in I!Solutions(t)}
<1>1. /\ I!Unanimous(intents) /\ I!Admissible(pack, task.roots, intents)
      /\ p \in staged(task)
  <2>1. p \in UNION {staged(t) : t \in {u \in {task} :
                 I!Authoritative(pack) /\ I!Unanimous(intents)
                     /\ I!Admissible(pack, u.roots, intents)}}
    BY DEF I!ExactResults, I!World
  <2> HIDE DEF staged, task, pins, pack
  <2>2. QED BY <2>1
<1>2. PICK g \in I!Solutions(task) :
           p = [pack EXCEPT !.mods = g.mods, !.side = g.side, !.manifest = TRUE,
                  !.recorded = [m \in Import.Ids |->
                                  IF m \in I!Roots(task) THEN task.roots[m] ELSE {}],
                  !.pin = pins]
  BY <1>1
<1>3. DOMAIN pack = {"mods", "side", "manifest", "recorded", "pin", "locked"}
  BY ImportsAssumption
<1>4. p.mods = g.mods /\ p.pin = pins
  <2> HIDE DEF pack, pins, task
  <2>1. QED BY <1>2, <1>3
<1>5. I!Answers(task, g.mods)
  <2> HIDE DEF task
  <2>1. QED BY DEF I!Solutions
<1>6. task.fixed = [m \in {n \in Import.Ids : pins[n] # 0} |-> pins[m]]
  BY DEF I!Task, I!World
<1>7. \A d \in DOMAIN task.fixed : g.mods[d] = task.fixed[d]
  BY <1>5 DEF I!Answers
<1>8. \A m \in Import.Ids : pins[m] # 0 => p.mods[m] = pins[m]
  <2> HIDE DEF task, pins
  <2>1. QED BY <1>4, <1>6, <1>7
<1>9. ASSUME NEW i \in intents PROVE i.mod \in Import.Ids /\ i.exact # 0
    /\ pins[i.mod] = i.exact
  <2>1. i.mod \in Import.Ids /\ i.exact # 0
    BY <1>9, ImportsAssumption DEF I!ActiveIntents
  <2> DEFINE j == CHOOSE k \in intents : k.mod = i.mod
  <2>2. j \in intents /\ j.mod = i.mod BY <1>9
  <2>3. j.exact = i.exact BY <1>1, <2>2 DEF I!Unanimous
  <2>4. pins[i.mod] = j.exact BY <2>1 DEF I!Pins
  <2>5. QED BY <2>1, <2>3, <2>4
<1>10. ASSUME NEW m \in pack.locked PROVE p.mods[m] = pack.pin[m]
  <2>1. m \in Import.Ids /\ pack.pin[m] # 0
    BY ImportsAssumption
  <2>2. CASE \E i \in intents : i.mod = m
    <3>1. PICK i \in intents : i.mod = m BY <2>2
    <3>2. pack.pin[m] = i.exact BY <1>1, <3>1 DEF I!Admissible
    <3>3. QED BY <1>8, <1>9, <2>1, <3>1, <3>2
  <2>3. CASE ~\E i \in intents : i.mod = m
    <3>1. pins[m] = pack.pin[m] BY <2>1, <2>3 DEF I!Pins
    <3>2. QED BY <1>8, <2>1, <3>1
  <2>4. QED BY <2>2, <2>3
<1>11. \A m \in I!Pinned(p) : p.pin[m] = p.mods[m]
  BY <1>4, <1>8 DEF I!Pinned
<1>12. \A i \in intents : p.mods[i.mod] = i.exact /\ p.pin[i.mod] = i.exact
  BY <1>4, <1>8, <1>9
<1>13. QED BY <1>10, <1>11, <1>12 DEF ImportHolds

(* What the plain resolver returns holds to the intents; it is used when   *)
(* there is none.                                                          *)
LEMMA ImportPlainHolds ==
  ASSUME tx.world \in Import.Worlds, NEW pick, NEW sides, ~I!ExactAware(tx.world),
         NEW p \in I!PlainResults(tx.world.pack, pick, sides)
  PROVE  ImportHolds(p, pick)
<1> DEFINE pack == tx.world.pack
<1>1. PICK q : p = I!Sided(pack, q, sides)
  BY DEF I!PlainResults
<1>2. DOMAIN pack = {"mods", "side", "manifest", "recorded", "pin", "locked"}
  BY ImportsAssumption
<1>3. p.pin = pack.pin
  <2> HIDE DEF pack
  <2>1. QED BY <1>1, <1>2 DEF I!Sided
<1>4. tx.world.intents = {} /\ I!Pinned(pack) = {}
  BY DEF I!ExactAware
<1>5. pack.locked = {}
  BY <1>4, ImportsAssumption DEF I!Pinned
<1>6. I!Pinned(p) = {} BY <1>3, <1>4 DEF I!Pinned
<1>7. I!ActiveIntents(tx.world, pick) = {} BY <1>4 DEF I!ActiveIntents
<1>8. QED BY <1>5, <1>6, <1>7 DEF ImportHolds

LEMMA ImportResultsHold ==
  ASSUME tx.world \in Import.Worlds, NEW pick, NEW sides,
         NEW p \in I!Results(tx.world.pack, pick, sides)
  PROVE  ImportHolds(p, pick)
BY ImportExactHolds, ImportPlainHolds DEF I!Results, I!World

(* A discard leaves the sources alone. *)
LEMMA ImportDiscardQuiet ==
  ASSUME ImportTx, I!DiscardTx \/ UNCHANGED tx \/ I!DiscardOnce
  PROVE  /\ tx'.world = tx.world /\ tx'.staged = tx.staged /\ tx'.real = tx.real
         /\ tx'.state = "applied" <=> tx.state = "applied"
<1>1. CASE \E s \in {"discarded", "closing"} : I!Held /\ tx' = [tx EXCEPT !.state = s]
  BY <1>1 DEF ImportTx, I!Held
<1>2. CASE tx' = [tx EXCEPT !.state = tx.state] \/ UNCHANGED tx
  BY <1>2 DEF ImportTx
<1>3. QED BY <1>1, <1>2 DEF I!DiscardTx, I!DiscardOnce

(* Every action keeps the invariant. *)
LEMMA ImportPlanKeeps ==
  ASSUME ImportControl, ImportKeeping, I!PlanNext PROVE ImportKeeping'
<1>1. CASE I!PlanCreate
  <2>1. work.pc = "none" /\ work.apply = "none" /\ tx.state # "applied" /\ UNCHANGED work
    BY <1>1 DEF I!PlanCreate, ImportControl, ImportPlanning, ImportRunning, ImportKeeping
  <2>2. tx' = [tx EXCEPT !.state = "active", !.staged = tx.real] \/ tx' = tx
    BY <1>1 DEF I!PlanCreate
  <2>3. /\ tx'.world = tx.world /\ tx'.real = tx.world.pack /\ tx'.staged = tx.world.pack
        /\ tx'.state # "applied"
    BY <2>1, <2>2 DEF ImportControl, ImportFields, ImportTx, ImportKeeping
  <2>4. QED BY <2>1, <2>3 DEF ImportKeeping
<1>2. CASE ~I!PlanCreate
  <2>1. UNCHANGED work /\ (I!DiscardTx \/ UNCHANGED tx)
    BY <1>2 DEF I!PlanNext, I!PlanVerify, I!PlanUndo, I!PlanSettle, I!PlanDone
  <2>2. ImportQuiet
    BY <2>1, ImportDiscardQuiet DEF ImportControl, ImportFields, ImportKeeping, ImportQuiet
  <2>3. QED BY <2>2, ImportQuietKeeps
<1>3. QED BY <1>1, <1>2

LEMMA ImportRunQuiet ==
  ASSUME ImportControl, ImportKeeping,
         \/ I!RunStart \/ I!RunCancelled \/ I!RunFails \/ I!RunCheck \/ I!RunDone
         \/ I!RunFinally
  PROVE  ImportQuiet
<1> USE DEF ImportControl, ImportFields, ImportRun, ImportRunning, ImportKeeping,
    ImportQuiet
<1>1. CASE I!RunStart BY <1>1 DEF I!RunStart
<1>2. CASE I!RunCancelled BY <1>2 DEF I!RunCancelled
<1>3. CASE I!RunFails BY <1>3 DEF I!RunFails, I!Raises
<1>4. CASE I!RunCheck
  <2>1. /\ work.pc = "check" /\ UNCHANGED tx
        /\ \/ work' = [work EXCEPT !.pc = "finally", !.error = TRUE]
           \/ work' = [work EXCEPT !.pc = "resolve"]
    BY <1>4 DEF I!RunCheck, I!Raises
  <2>2. QED BY <2>1
<1>5. CASE I!RunDone BY <1>5 DEF I!RunDone
<1>6. CASE I!RunFinally
  <2>1. /\ tx'.world = tx.world /\ tx'.staged = tx.staged /\ tx'.real = tx.real
        /\ tx'.state = "applied" <=> tx.state = "applied"
    BY <1>6, ImportDiscardQuiet DEF I!RunFinally
  <2>2. /\ work.pc = "finally" /\ work'.pc = "ending" /\ work'.apply = work.apply
        /\ work'.pick = work.pick /\ work'.graph = work.graph
        /\ work'.cancelled = work.cancelled
        /\ work.error => work'.error
    <3>1. CASE work' = [work EXCEPT !.pc = "ending", !.finished = I!Closed,
        !.closed = I!Closed,
                          !.error = @ \/ ~I!Closed]
      BY <1>6, <3>1 DEF I!RunFinally
    <3>2. CASE work' = [work EXCEPT !.pc = "ending"]
      BY <1>6, <3>2 DEF I!RunFinally
    <3>3. QED BY <1>6, <3>1, <3>2 DEF I!RunFinally
  <2>3. QED BY <2>1, <2>2
<1>7. QED BY <1>1, <1>2, <1>3, <1>4, <1>5, <1>6

LEMMA ImportRunKeeps ==
  ASSUME ImportControl, ImportKeeping, I!RunNext PROVE ImportKeeping'
<1> USE DEF ImportControl, ImportFields, ImportRun
<1>1. CASE I!RunResolve
  <2>1. /\ UNCHANGED tx /\ work.pc = "resolve" /\ work.apply = "none"
        /\ tx.state # "applied"
        /\ tx.staged = tx.world.pack
    BY <1>1 DEF I!RunResolve, ImportRunning, ImportKeeping
  <2>2. CASE I!Raises
    <3>1. work' = [work EXCEPT !.pc = "finally", !.error = TRUE] BY <2>2 DEF I!Raises
    <3>2. ImportQuiet BY <2>1, <3>1 DEF ImportQuiet
    <3>3. QED BY <3>2, ImportQuietKeeps
  <2>3. CASE \E p \in I!Results(tx.staged, work.pick, work.sides) :
               work' = [work EXCEPT !.pc = "stage", !.graph = <<p>>]
    <3>1. PICK p \in I!Results(tx.staged, work.pick, work.sides) :
               work' = [work EXCEPT !.pc = "stage", !.graph = <<p>>]
      BY <2>3
    <3>2. ImportHolds(p, work.pick)
      BY <2>1, ImportResultsHold DEF ImportKeeping
    <3>3. /\ Head(work'.graph) = p /\ work'.pick = work.pick /\ work'.pc = "stage"
          /\ work'.apply = "none"
      BY <2>1, <3>1
    <3>4. ImportHolds(Head(work.graph), work.pick)'
      BY <2>1, <3>2, <3>3 DEF ImportHolds
    <3>5. QED BY <2>1, <3>3, <3>4 DEF ImportKeeping
  <2>4. I!Raises \/ \E p \in I!Results(tx.staged, work.pick, work.sides) :
                          work' = [work EXCEPT !.pc = "stage", !.graph = <<p>>]
    <3>1. PICK results \in {I!Results(tx.staged, work.pick, work.sides)} :
            IF results = {} THEN I!Raises
            ELSE \E p \in results : work' = [work EXCEPT !.pc = "stage", !.graph = <<p>>]
      BY <1>1 DEF I!RunResolve
    <3>2. QED BY <3>1
  <2>5. QED BY <2>2, <2>3, <2>4
<1>2. CASE I!RunStage
  <2>1. /\ work.pc = "stage" /\ work.apply = "none" /\ tx.state # "applied"
        /\ work' = [work EXCEPT !.pc = "verify"]
        /\ \E p : tx' = [tx EXCEPT !.staged = p]
    BY <1>2 DEF I!RunStage, ImportRunning, ImportKeeping
  <2>2. /\ tx'.world = tx.world /\ tx'.real = tx.real /\ tx'.state = tx.state
        /\ work'.pc = "verify" /\ work'.apply = "none" /\ work'.pick = work.pick
        /\ work'.graph = work.graph
    BY <2>1 DEF ImportTx
  <2>3. QED BY <2>1, <2>2 DEF ImportKeeping, ImportHolds
<1>3. CASE I!RunVerify
  <2>1. UNCHANGED tx /\ work.pc = "verify" /\ work.apply = "none" /\ tx.state # "applied"
    BY <1>3 DEF I!RunVerify, ImportRunning, ImportKeeping
  <2>2. CASE I!Raises
    <3>1. work' = [work EXCEPT !.pc = "finally", !.error = TRUE] BY <2>2 DEF I!Raises
    <3>2. ImportQuiet BY <2>1, <3>1 DEF ImportQuiet
    <3>3. QED BY <3>2, ImportQuietKeeps
  <2>3. CASE ~I!Raises
    <3>1. /\ tx.staged = Head(work.graph)
          /\ work' = [work EXCEPT !.pc = "finally", !.preview = TRUE]
      BY <1>3, <2>3 DEF I!RunVerify
    <3>2. work'.pc = "finally" /\ work'.apply = "none" /\ work'.pick = work.pick
      BY <2>1, <3>1
    <3>3. QED BY <2>1, <3>1, <3>2 DEF ImportKeeping, ImportHolds
  <2>4. QED BY <2>2, <2>3
<1>4. CASE ~I!RunResolve /\ ~I!RunStage /\ ~I!RunVerify
  BY <1>4, ImportRunQuiet, ImportQuietKeeps DEF I!RunNext
<1>5. QED BY <1>1, <1>2, <1>3, <1>4

LEMMA ImportApplyKeeps ==
  ASSUME ImportControl, ImportKeeping, I!ApplyNext PROVE ImportKeeping'
<1> USE DEF ImportControl, ImportFields, ImportRun
<1>0. work.apply # "none" /\ work.done /\ work.pc \in {"new", "end"}
  BY DEF I!ApplyNext, I!ApplyBegin, I!ApplyCheck, I!ApplyPublish, I!ApplyUndo,
     ImportApplying,
     ImportRunning
<1>1. CASE I!ApplyPublish /\ UNCHANGED tx
  <2>1. /\ work'.apply \in {"undo", "done"} /\ work'.pc = work.pc /\ work'.pick = work.pick
        /\ work'.graph = work.graph /\ work'.done = work.done
        /\ work'.cancelled = work.cancelled /\ work'.error = work.error
    BY <1>1 DEF I!ApplyPublish
  <2>2. ImportQuiet
    BY <1>0, <1>1, <2>1 DEF ImportQuiet, ImportKeeping
  <2>3. QED BY <2>2, ImportQuietKeeps
<1>2. CASE I!ApplyPublish /\ tx' # tx
  <2>1. /\ work.apply = "publish"
        /\ tx' = [tx EXCEPT !.state = "applied", !.real = tx.staged]
        /\ work' = [work EXCEPT !.apply = "done", !.applying = FALSE, !.finished = TRUE,
           !.closed = TRUE]
    BY <1>2 DEF I!ApplyPublish
  <2>2. /\ tx'.world = tx.world /\ tx'.real = tx.staged /\ tx'.staged = tx.staged
        /\ tx'.state = "applied"
    BY <2>1 DEF ImportTx
  <2>3. /\ work'.pc = work.pc /\ work'.apply = "done" /\ work'.pick = work.pick
        /\ work'.done = work.done /\ work'.cancelled = work.cancelled
        /\ work'.error = work.error
    BY <2>1
  <2>4. ImportHolds(tx.real, work.pick)'
    BY <2>1, <2>2, <2>3 DEF ImportKeeping, ImportHolds
  <2>5. QED BY <1>0, <2>2, <2>3, <2>4 DEF ImportKeeping, ImportHolds
<1>3. CASE I!ApplyBegin
  <2>1. ImportQuiet
    BY <1>0, <1>3 DEF I!ApplyBegin, I!Applicable, ImportQuiet, ImportKeeping
  <2>2. QED BY <2>1, ImportQuietKeeps
<1>4. CASE I!ApplyCheck
  <2>1. ImportQuiet
    BY <1>0, <1>4 DEF I!ApplyCheck, ImportQuiet, ImportKeeping
  <2>2. QED BY <2>1, ImportQuietKeeps
<1>5. CASE I!ApplyUndo
  <2>1. ImportQuiet
    BY <1>0, <1>5, ImportDiscardQuiet DEF I!ApplyUndo, ImportQuiet, ImportKeeping
  <2>2. QED BY <2>1, ImportQuietKeeps
<1>6. QED BY <1>1, <1>2, <1>3, <1>4, <1>5 DEF I!ApplyNext

LEMMA ImportCancelQuiet ==
  ASSUME ImportControl, ImportKeeping, I!CancelRun PROVE ImportQuiet
<1> USE DEF ImportControl, ImportFields, ImportRun
<1>1. /\ tx'.world = tx.world /\ tx'.staged = tx.staged /\ tx'.real = tx.real
      /\ tx'.state = "applied" <=> tx.state = "applied"
  BY ImportDiscardQuiet DEF I!CancelRun
<1>2. /\ work'.pc = work.pc /\ work'.pick = work.pick /\ work'.graph = work.graph
      /\ work'.cancelled /\ work'.error = work.error /\ work'.apply = work.apply
  BY DEF I!CancelRun
<1>3. QED BY <1>1, <1>2 DEF ImportQuiet

LEMMA ImportUiQuiet ==
  ASSUME ImportControl, ImportKeeping,
         \/ I!StartPlanning \/ I!PollPlanning \/ I!LeaveSelection \/ I!BackToConflicts
         \/ I!QuitConflicts \/ I!PollRun \/ I!Confirm \/ I!ConfirmAgain \/ I!PollApply
         \/ I!QuitApplying \/ I!QuitRunning \/ I!QuitPreview
         \/ I!UnmountSelection \/ I!UnmountIdle \/ I!UnmountBusy \/ I!Drain \/ I!Edit
  PROVE  ImportQuiet
<1> USE DEF ImportControl, ImportFields, ImportRun
<1>1. CASE UNCHANGED work /\ (I!DiscardTx \/ UNCHANGED tx)
  BY <1>1, ImportDiscardQuiet DEF ImportKeeping, ImportQuiet
<1>2. CASE I!CancelRun BY <1>2, ImportCancelQuiet
<1>3. CASE /\ I!DiscardOnce \/ UNCHANGED tx
           /\ \/ work' = [work EXCEPT !.closed = I!Closed]
              \/ work' = [work EXCEPT !.finished = I!Closed, !.closed = I!Closed]
  <2>1. /\ work'.pc = work.pc /\ work'.pick = work.pick /\ work'.graph = work.graph
        /\ work'.cancelled = work.cancelled /\ work'.error = work.error
        /\ work'.apply = work.apply /\ work'.done = work.done
    BY <1>3
  <2>2. QED BY <1>3, <2>1, ImportDiscardQuiet DEF ImportKeeping, ImportQuiet
<1>4. CASE /\ UNCHANGED tx
           /\ \/ work' = [work EXCEPT !.apply = "new", !.stale = extra]
              \/ work' = [work EXCEPT !.apply = "new", !.failed = FALSE, !.stale = extra]
  <2>1. /\ work'.pc = work.pc /\ work'.pick = work.pick /\ work'.graph = work.graph
        /\ work'.cancelled = work.cancelled /\ work'.error = work.error
        /\ work'.apply = "new" /\ work'.done = work.done
    BY <1>4
  <2>2. QED BY <1>4, <2>1 DEF ImportKeeping, ImportQuiet
<1>5. CASE I!QuitConflicts \/ I!QuitPreview \/ I!UnmountIdle
  BY <1>1, <1>3, <1>5 DEF I!QuitConflicts, I!QuitPreview, I!UnmountIdle
<1>6. CASE I!Confirm \/ I!ConfirmAgain
  BY <1>4, <1>6 DEF I!Confirm, I!ConfirmAgain
<1>7. CASE I!QuitRunning \/ I!UnmountBusy
  BY <1>1, <1>2, <1>7 DEF I!QuitRunning, I!UnmountBusy
<1>8. CASE \/ I!StartPlanning \/ I!PollPlanning \/ I!LeaveSelection \/ I!BackToConflicts
           \/ I!PollRun \/ I!PollApply \/ I!QuitApplying \/ I!UnmountSelection \/ I!Drain
           \/ I!Edit
  BY <1>1, <1>8 DEF I!StartPlanning, I!PollPlanning, I!LeaveSelection, I!BackToConflicts,
     I!PollRun, I!PollApply, I!QuitApplying, I!UnmountSelection, I!Drain, I!Edit,
     I!SameThreads, I!DiscardPlan
<1>9. QED BY <1>5, <1>6, <1>7, <1>8

LEMMA ImportExecutionKeeps ==
  ASSUME ImportControl, ImportKeeping, I!Continue \/ I!Execute PROVE ImportKeeping'
<1>1. UNCHANGED tx /\ work.pc = "none" /\ work.apply = "none" /\ ~work.done
  BY DEF I!Continue, I!Execute, ImportControl, ImportPlanning, ImportRunning
<1>2. \/ \E pick : work' = [work EXCEPT !.pick = pick]
      \/ \E pick, sides : work' = I!Execution(pick, sides)
  BY DEF I!Continue, I!Execute
<1>3. /\ work'.pc \in {"none", "new"} /\ work'.apply = "none" /\ ~work'.done
  BY <1>1, <1>2 DEF I!Execution, I!Operation, ImportControl, ImportFields, ImportRun
<1>4. QED BY <1>1, <1>3 DEF ImportKeeping

LEMMA ImportKeeps == ASSUME ImportControl, ImportKeeping, I!Next PROVE ImportKeeping'
BY ImportPlanKeeps, ImportRunKeeps, ImportApplyKeeps, ImportUiQuiet, ImportQuietKeeps,
   ImportExecutionKeeps
   DEF I!Next, I!ScreenNext

-----------------------------------------------------------------------------
(* Whatever works on the transaction. *)

(* The inductive invariant: that of the kind of work, and what it knows of *)
(* the sources.                                                            *)
IntentControl ==
  /\ PreparedControl
  /\ kind = "update" => UpdateKeeping
  /\ kind = "exact" => ExactKeeping /\ ExactTracing
  /\ kind = "import" => ImportKeeping

(* What becomes the source of the Pack is the very source the preview of a *)
(* migration has shown, or one that was verified as a whole, when an exact *)
(* selection is in it.                                                     *)
AppliedIsVerified ==
  /\ kind = "loader" => L!AppliedIsPreviewed
  /\ kind = "exact" => X!AppliedIsVerified

(* The steps of other kinds of work leave these invariants alone. *)
LEMMA UpdateKeepingStutters == ASSUME UpdateKeeping, UNCHANGED threads PROVE UpdateKeeping'
BY UpdateQuietKeeps DEF threads, UpdateQuiet, UpdateKeeping, UpdateValidated
LEMMA ImportKeepingStutters == ASSUME ImportKeeping, UNCHANGED threads PROVE ImportKeeping'
BY ImportQuietKeeps DEF threads, ImportQuiet, ImportKeeping

(* The invariant holds at first, and every step keeps it. *)
LEMMA IntentInitially == Init => IntentControl
<1> SUFFICES ASSUME Init PROVE IntentControl
  OBVIOUS
<1>1. PreparedControl BY ControlInitially
<1>2. kind = "update" => UpdateKeeping BY UpdateKeepsInitially DEF Init
<1>3. kind = "exact" => ExactKeeping /\ ExactTracing
  BY ExactKeepsInitially, ExactTracesInitially DEF Init
<1>4. kind = "import" => ImportKeeping BY ImportKeepsInitially DEF Init
<1>5. QED BY <1>1, <1>2, <1>3, <1>4 DEF IntentControl

LEMMA IntentNext == ASSUME IntentControl, [Next]_vars PROVE IntentControl'
<1>0. PreparedControl /\ PreparedControl' /\ kind' = kind
  BY ControlNext DEF IntentControl, Next, Adding, Selecting, Working, vars
<1>1. ASSUME kind = "update" PROVE UpdateKeeping'
  <2>1. UpdateKeeping /\ UpdateControl BY <1>0, <1>1 DEF IntentControl, PreparedControl
  <2>2. U!Next \/ UNCHANGED threads BY <1>1 DEF Next, Adding, Selecting, Working, vars
  <2>3. QED BY <2>1, <2>2, UpdateKeeps, UpdateKeepingStutters
<1>2. ASSUME kind = "exact" PROVE ExactKeeping' /\ ExactTracing'
  <2>1. ExactKeeping /\ ExactTracing BY <1>2 DEF IntentControl
  <2>2. X!Next \/ UNCHANGED exactly BY <1>2 DEF Next, Adding, Selecting, Working, vars
  <2>3. ExactShapes BY <2>1 DEF ExactKeeping
  <2>4. QED BY <2>1, <2>2, <2>3, ExactKeeps, ExactTraces
<1>3. ASSUME kind = "import" PROVE ImportKeeping'
  <2>1. ImportKeeping /\ ImportControl BY <1>0, <1>3 DEF IntentControl, PreparedControl
  <2>2. I!Next \/ UNCHANGED threads BY <1>3 DEF Next, Adding, Selecting, Working, vars
  <2>3. QED BY <2>1, <2>2, ImportKeeps, ImportKeepingStutters
<1>4. QED BY <1>0, <1>1, <1>2, <1>3 DEF IntentControl

(* The invariant holds always. *)
THEOREM IntentControlled == Spec => []IntentControl
<1>1. Init => IntentControl BY IntentInitially
<1>2. IntentControl /\ [Next]_vars => IntentControl' BY IntentNext
<1>3. QED BY <1>1, <1>2, PTL DEF Spec

(* What the user has asked for outlives what the resolvers answer: an      *)
(* update keeps the pins and locks of the Pack, an import the exact        *)
(* releases of the intents that were taken over, and the evidence an exact *)
(* selection rests on is never stale unless the staged source was written  *)
(* from outside.                                                           *)
THEOREM IntentsAreKept == Spec => []IntentIsKept
<1>1. IntentControl => IntentIsKept
  BY ExactIsFresh, ImportKeepsIntent DEF IntentControl, IntentIsKept, UpdateKeeping
<1>2. QED BY <1>1, IntentControlled, PTL

(* A migration applies the source it has shown; exact selections apply one *)
(* that was verified as a whole, or the MODs they have started with, also  *)
(* after rollbacks, failures and outside writes.                           *)
THEOREM VerifiedIsApplied == Spec => []AppliedIsVerified
<1>1. IntentControl => AppliedIsVerified
  <2>1. ASSUME IntentControl, kind = "loader" PROVE L!AppliedIsPreviewed
    BY <2>1 DEF IntentControl, PreparedControl, LoaderControl
  <2>2. ASSUME IntentControl, kind = "exact" PROVE X!AppliedIsVerified
    <3>1. ExactTracing BY <2>2 DEF IntentControl
    <3>2. QED BY <3>1 DEF ExactTracing, X!AppliedIsVerified
  <2>3. QED BY <2>1, <2>2 DEF AppliedIsVerified
<1>2. QED BY <1>1, IntentControlled, PTL
=============================================================================
