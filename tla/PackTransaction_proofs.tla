----------------------- MODULE PackTransaction_proofs -----------------------
(***************************************************************************)
(* Proofs about whatever works on the transaction of a Pack                *)
(* (PreparedChanges) and about the publication of its source               *)
(* (SourcePublication), for every Pack, selection, offer of the providers, *)
(* bound on faults and number of tries.                                    *)
(*                                                                         *)
(* Each kind of work has an inductive invariant of its own, in parts that  *)
(* are named for what they speak about: the fields of its records, what    *)
(* its threads may do, and what its screens still hold.  One lemma for     *)
(* each action shows that every part survives the action, and what the     *)
(* action does to the state of the transaction and to the source of the    *)
(* Pack.                                                                   *)
(***************************************************************************)
EXTENDS PreparedChanges, SourcePublication, TLAPS

-----------------------------------------------------------------------------
(* Updates of MODs: the thread that prepares, the thread that applies, and *)
(* the screens.                                                            *)

UpdateTx ==
  /\ DOMAIN tx = {"state", "start", "real", "staged", "base"}
  /\ tx.state \in {"none", "active", "closing", "applied", "discarded"}

UpdatePrep ==
  /\ DOMAIN prep = {"pc", "started", "done", "cancelled", "event", "error", "discarded",
                    "claimed", "cands"}
  /\ prep.pc \in {"new", "create", "classify", "normalize", "resolve", "finally", "end"}
  /\ prep.started \in BOOLEAN /\ prep.done \in BOOLEAN /\ prep.cancelled \in BOOLEAN
  /\ prep.event \in BOOLEAN /\ prep.error \in BOOLEAN /\ prep.discarded \in BOOLEAN
  /\ prep.claimed \in BOOLEAN

UpdateWork ==
  /\ DOMAIN work = {"pc", "error", "chosen", "merged", "prior"}
  /\ work.pc \in {"idle", "merge", "stage", "apply", "finally", "done"}
  /\ work.error \in BOOLEAN

UpdateUi ==
  /\ DOMAIN ui = {"at", "sel", "leave", "dest", "holds", "listed", "discard", "down",
     "tries"}
  /\ ui.at \in {"preparing", "choosing", "applying", "discarding", "left"}
  /\ ui.holds \in BOOLEAN /\ ui.listed \in BOOLEAN
  /\ ui.discard \in {"none", "running", "done", "failed"}
  /\ ui.down \in {"no", "unmounted", "draining", "over"}

(* The preparing thread: it has begun before it does anything, holds no    *)
(* transaction before it has created one, and reports an error or a cancel *)
(* only when the transaction is open no more.                              *)
UpdateThread ==
  /\ prep.pc \notin {"new", "end"} => prep.started /\ ~prep.done
  /\ prep.pc = "new" => ~prep.started
  /\ prep.pc \in {"new", "create"} => ~U!Held
  /\ prep.discarded => prep.done /\ tx.state # "active"
  /\ prep.done /\ (prep.error \/ prep.cancelled) => tx.state # "active"

(* The screens: nobody but the preparing thread has the transaction while  *)
(* the preparation is shown; afterwards an open one is in the hands of a   *)
(* screen that is not left, and is listed with the application.            *)
UpdateScreen ==
  /\ IF ui.at = "preparing" THEN ~prep.claimed /\ ~ui.holds /\ ui.discard = "none"
     ELSE prep.done
  /\ ui.at = "preparing" /\ ui.down # "no" => prep.cancelled
  /\ work.pc # "idle" <=> ui.at = "applying"
  /\ tx.state = "active" /\ ui.at # "preparing" => ui.holds /\ ui.at # "left"
  /\ ui.discard \in {"done", "failed"} => tx.state # "active"
  /\ work.pc \in {"finally", "done"} /\ ~work.error => tx.state # "active"
  /\ ui.holds /\ ui.down # "over" => ui.listed

UpdateFields == UpdateTx /\ UpdatePrep /\ UpdateWork /\ UpdateUi
UpdateControl == UpdateFields /\ UpdateThread /\ UpdateScreen /\ U!NothingForgotten

(* What a step may do to the transaction and to the source of the Pack. *)
UpdateStep ==
  \/ UNCHANGED <<tx.state, tx.real>>
  \/ ~U!Held /\ tx'.state = "active" /\ tx'.real = tx.real
  \/ tx.state = "active" /\ tx'.state = "applied"
  \/ U!Held /\ tx'.state \in {"closing", "discarded"} /\ tx'.real = tx.real

(* The invariant holds at first. *)
LEMMA UpdateInitially == U!Init => UpdateControl
BY DEF U!Init, UpdateControl, UpdateFields, UpdateTx, UpdatePrep, UpdateWork, UpdateUi,
   UpdateThread, UpdateScreen, U!NothingForgotten, U!Held

(* A discard, of the thread, the screen or the application, leaves no open *)
(* transaction and the source as it was.                                   *)
LEMMA UpdateDiscards ==
  ASSUME UpdateTx, U!DiscardTx
  PROVE  /\ UpdateTx' /\ tx'.state # "active" /\ tx'.real = tx.real
         /\ tx'.state = tx.state \/ (U!Held /\ tx'.state \in {"closing", "discarded"})
<1>1. CASE U!Held /\ tx' = [tx EXCEPT !.state = "discarded"]
  BY <1>1 DEF UpdateTx, U!Held
<1>3. CASE ~U!Held /\ tx' = [tx EXCEPT !.state = tx.state]
  <2>1. /\ DOMAIN tx = {"state", "start", "real", "staged", "base"}
        /\ tx.state \in {"none", "active", "closing", "applied", "discarded"}
    BY DEF UpdateTx
  <2>2. tx.state \notin {"active", "closing"} BY <1>3 DEF U!Held
  <2>3. DOMAIN tx' = DOMAIN tx /\ tx'.state = tx.state /\ tx'.real = tx.real
    BY <1>3, <2>1
  <2>4. UpdateTx' BY <2>1, <2>3 DEF UpdateTx
  <2> QED BY <2>2, <2>3, <2>4
<1>2. CASE U!Held /\ tx' = [tx EXCEPT !.state = "closing"]
  BY <1>2 DEF UpdateTx, U!Held
<1> QED BY <1>1, <1>2, <1>3 DEF U!DiscardTx

LEMMA UpdateCancels ==
  ASSUME UpdateTx, UpdatePrep, UpdateThread, ~prep.claimed, U!Cancel
  PROVE  /\ UpdateTx' /\ UpdatePrep' /\ UpdateThread'
         /\ prep'.cancelled /\ ~prep'.claimed /\ prep'.pc = prep.pc
         /\ prep.done => prep'.done
         /\ ~prep'.done \/ tx'.state # "active"
         /\ tx'.real = tx.real
         /\ tx'.state = tx.state \/ (U!Held /\ tx'.state \in {"closing", "discarded"})
<1>1. CASE (~prep.started \/ prep.done) /\ prep.discarded
  <2>1. /\ UNCHANGED <<tx, faults>>
        /\ prep' = [prep EXCEPT !.cancelled = TRUE, !.event = TRUE, !.discarded = TRUE,
                      !.error = prep.error \/ (~prep.discarded /\ tx'.state = "closing"),
                      !.done = TRUE]
    BY <1>1 DEF U!Cancel
  <2>2. UpdatePrep' BY <2>1 DEF UpdatePrep
  <2>3. UpdateThread' BY <1>1, <2>1, <2>2 DEF UpdatePrep, UpdateThread, U!Held
  <2>4. prep'.cancelled /\ ~prep'.claimed /\ prep'.pc = prep.pc /\ prep'.done
    BY <2>1 DEF UpdatePrep
  <2>5. UpdateTx' BY <2>1 DEF UpdateTx
  <2>6. tx'.state # "active" BY <1>1, <2>1 DEF UpdateThread
  <2>7. tx'.real = tx.real /\ tx'.state = tx.state BY <2>1
  <2>8. prep.done => prep'.done BY <2>4
  <2>9. ~prep'.done \/ tx'.state # "active" BY <2>6
  <2> QED BY <2>2, <2>3, <2>4, <2>5, <2>7, <2>8, <2>9, Zenon
<1>2. CASE (~prep.started \/ prep.done) /\ ~prep.discarded
  <2>1. /\ U!DiscardTx
        /\ prep' = [prep EXCEPT !.cancelled = TRUE, !.event = TRUE, !.discarded = TRUE,
                      !.error = prep.error \/ (~prep.discarded /\ tx'.state = "closing"),
                      !.done = TRUE]
    BY <1>2 DEF U!Cancel
  <2>2. UpdatePrep' BY <2>1 DEF UpdatePrep
  <2>3. UpdateThread'
    BY <1>2, <2>1, <2>2, UpdateDiscards DEF UpdatePrep, UpdateThread, U!Held
  <2> QED BY <1>2, <2>1, <2>2, <2>3, UpdateDiscards DEF UpdatePrep, UpdateThread
<1>3. CASE prep.started /\ ~prep.done
  <2>1. prep' = [prep EXCEPT !.cancelled = TRUE, !.event = TRUE] /\ UNCHANGED tx
    BY <1>3 DEF U!Cancel
  <2>2. UpdatePrep' /\ UpdateTx' BY <2>1 DEF UpdatePrep, UpdateTx
  <2>3. UpdateThread' BY <1>3, <2>1 DEF UpdatePrep, UpdateThread, U!Held
  <2>4. prep'.cancelled /\ ~prep'.claimed /\ prep'.pc = prep.pc /\ ~prep'.done
    BY <1>3, <2>1 DEF UpdatePrep
  <2>5. tx'.real = tx.real /\ tx'.state = tx.state BY <2>1
  <2>6. prep.done => prep'.done BY <1>3
  <2>7. ~prep'.done \/ tx'.state # "active" BY <2>4
  <2> QED BY <2>2, <2>3, <2>4, <2>5, <2>6, <2>7, Zenon
<1> QED BY <1>1, <1>2, <1>3 DEF UpdatePrep

(* Every action keeps the invariant. *)
LEMMA UpdatePrepStart ==
  ASSUME UpdateControl, U!PrepStart
  PROVE  UpdateControl' /\ UpdateStep
<1> USE DEF U!PrepStart, UpdateControl, UpdateFields, U!Fault, U!NoFault, U!DiscardTx,
    U!Cancel, U!Leave, U!Open, U!SameThreads, U!Unfinished, U!Owed, U!Mark, U!BackTo,
    U!Available, U!Held
<1>1. UpdateTx' BY DEF UpdateTx
<1>2. UpdatePrep' BY DEF UpdateTx, UpdatePrep
<1>3. UpdateWork' BY DEF UpdateWork
<1>4. UpdateUi' BY DEF UpdateTx, UpdateUi
<1>5. UpdateThread' /\ UpdateScreen' /\ U!NothingForgotten'
  BY DEF UpdateTx, UpdatePrep, UpdateThread, UpdateScreen, UpdateWork, UpdateUi,
     U!NothingForgotten
<1>8. UpdateStep BY DEF UpdateTx, UpdateThread, UpdateStep
<1>9. QED BY <1>1, <1>2, <1>3, <1>4, <1>5, <1>8

LEMMA UpdatePrepCreate ==
  ASSUME UpdateControl, U!PrepCreate
  PROVE  UpdateControl' /\ UpdateStep
<1>1. UNCHANGED <<work, ui>> /\ prep.pc = "create" BY DEF U!PrepCreate
<1>2. CASE /\ tx' = [tx EXCEPT !.state = "active"] /\ ~prep.event
           /\ prep' = [prep EXCEPT !.pc = "classify"]
  BY <1>1, <1>2 DEF UpdateControl, UpdateFields, U!Held, UpdateTx, UpdateWork, UpdatePrep,
     UpdateUi, UpdateThread, UpdateScreen, U!NothingForgotten, UpdateStep
<1>3. CASE UNCHANGED tx /\ prep' = [prep EXCEPT !.pc = "finally", !.error = TRUE]
  BY <1>1, <1>3 DEF UpdateControl, UpdateFields, U!Held, UpdateTx, UpdateWork, UpdatePrep,
     UpdateUi, UpdateThread, UpdateScreen, U!NothingForgotten, UpdateStep
<1>4. CASE UNCHANGED tx /\ prep' = [prep EXCEPT !.pc = "finally", !.cancelled = TRUE]
  BY <1>1, <1>4 DEF UpdateControl, UpdateFields, U!Held, UpdateTx, UpdateWork, UpdatePrep,
     UpdateUi, UpdateThread, UpdateScreen, U!NothingForgotten, UpdateStep
<1> QED BY <1>2, <1>3, <1>4 DEF U!PrepCreate

LEMMA UpdatePrepCancelled ==
  ASSUME UpdateControl, U!PrepCancelled
  PROVE  UpdateControl' /\ UpdateStep
<1> USE DEF U!PrepCancelled, UpdateControl, UpdateFields, U!Fault, U!NoFault, U!DiscardTx,
    U!Cancel, U!Leave, U!Open, U!SameThreads, U!Unfinished, U!Owed, U!Mark, U!BackTo,
    U!Available, U!Held
<1>1. UpdateTx' BY DEF UpdateTx
<1>2. UpdatePrep' BY DEF UpdateTx, UpdatePrep
<1>3. UpdateWork' BY DEF UpdateWork
<1>4. UpdateUi' BY DEF UpdateTx, UpdateUi
<1>5. UpdateThread' /\ UpdateScreen' /\ U!NothingForgotten'
  BY DEF UpdateTx, UpdatePrep, UpdateThread, UpdateScreen, UpdateWork, UpdateUi,
     U!NothingForgotten
<1>8. UpdateStep BY DEF UpdateTx, UpdateThread, UpdateStep
<1>9. QED BY <1>1, <1>2, <1>3, <1>4, <1>5, <1>8

LEMMA UpdatePrepRefused ==
  ASSUME UpdateControl, U!PrepRefused
  PROVE  UpdateControl' /\ UpdateStep
<1> USE DEF U!PrepRefused, UpdateControl, UpdateFields, U!Fault, U!NoFault, U!DiscardTx,
    U!Cancel, U!Leave, U!Open, U!SameThreads, U!Unfinished, U!Owed, U!Mark, U!BackTo,
    U!Available, U!Held
<1>1. UpdateTx' BY DEF UpdateTx
<1>2. UpdatePrep' BY DEF UpdateTx, UpdatePrep
<1>3. UpdateWork' BY DEF UpdateWork
<1>4. UpdateUi' BY DEF UpdateTx, UpdateUi
<1>5. UpdateThread' /\ UpdateScreen' /\ U!NothingForgotten'
  BY DEF UpdateTx, UpdatePrep, UpdateThread, UpdateScreen, UpdateWork, UpdateUi,
     U!NothingForgotten
<1>8. UpdateStep BY DEF UpdateTx, UpdateThread, UpdateStep
<1>9. QED BY <1>1, <1>2, <1>3, <1>4, <1>5, <1>8

LEMMA UpdatePrepClassify ==
  ASSUME UpdateControl, U!PrepClassify
  PROVE  UpdateControl' /\ UpdateStep
BY DEF U!PrepClassify, UpdateControl, UpdateFields, U!Fault, U!NoFault, U!DiscardTx,
   U!Cancel, U!Leave, U!Open, U!SameThreads, U!Unfinished, U!Owed, U!Mark, U!BackTo,
   U!Available, U!Held, UpdateTx, UpdatePrep, UpdateWork, UpdateUi, UpdateThread,
   UpdateScreen, U!NothingForgotten, UpdateStep

LEMMA UpdatePrepNormalize ==
  ASSUME UpdateControl, U!PrepNormalize
  PROVE  UpdateControl' /\ UpdateStep
<1>1. UNCHANGED <<tx, work, ui>> /\ prep.pc = "normalize" BY DEF U!PrepNormalize
<1>2. CASE \E place \in {"finally", "resolve"} : prep' = [prep EXCEPT !.pc = place]
  BY <1>1, <1>2 DEF UpdateControl, UpdateFields, U!Held, UpdateTx, UpdateWork, UpdatePrep,
     UpdateUi, UpdateThread, UpdateScreen, U!NothingForgotten, UpdateStep
<1>3. CASE \E s \in {"error", "deadline"} :
             prep' = [prep EXCEPT !.pc = "finally", !.cands = U!Mark(U!Pending, s)]
  <2> QED
    BY <1>1, <1>3 DEF UpdateControl, UpdateFields, U!Held, UpdateTx, UpdateWork, UpdatePrep,
       UpdateUi, UpdateThread, UpdateScreen, U!NothingForgotten, UpdateStep
<1> QED BY <1>2, <1>3 DEF U!PrepNormalize

LEMMA UpdatePrepResolve ==
  ASSUME UpdateControl, U!PrepResolve
  PROVE  UpdateControl' /\ UpdateStep
BY DEF U!PrepResolve, UpdateControl, UpdateFields, U!Fault, U!NoFault, U!DiscardTx,
   U!Cancel, U!Leave, U!Open, U!SameThreads, U!Unfinished, U!Owed, U!Mark, U!BackTo,
   U!Available, U!Held, UpdateTx, UpdatePrep, UpdateWork, UpdateUi, UpdateThread,
   UpdateScreen, U!NothingForgotten, UpdateStep

LEMMA UpdatePrepConclude ==
  ASSUME UpdateControl, U!PrepConclude
  PROVE  UpdateControl' /\ UpdateStep
BY DEF U!PrepConclude, UpdateControl, UpdateFields, U!Fault, U!NoFault, U!DiscardTx,
   U!Cancel, U!Leave, U!Open, U!SameThreads, U!Unfinished, U!Owed, U!Mark, U!BackTo,
   U!Available, U!Held, UpdateTx, UpdatePrep, UpdateWork, UpdateUi, UpdateThread,
   UpdateScreen, U!NothingForgotten, UpdateStep

LEMMA UpdatePrepFinally ==
  ASSUME UpdateControl, U!PrepFinally
  PROVE  UpdateControl' /\ UpdateStep
<1> USE DEF UpdateControl, UpdateFields
<1>1. CASE U!Owed
  <2>1. /\ U!DiscardTx /\ UNCHANGED <<work, ui>> /\ prep.pc = "finally"
        /\ prep' = [prep EXCEPT !.cancelled = prep.cancelled \/ prep.event,
           !.discarded = TRUE,
                        !.error = prep.error \/ tx'.state = "closing",
                        !.done = TRUE, !.pc = "end"]
    BY <1>1 DEF U!PrepFinally
  <2>2. UpdatePrep' BY <2>1 DEF UpdatePrep
  <2>3. UpdateThread' BY <2>1, <2>2, UpdateDiscards DEF UpdatePrep, UpdateThread, U!Held
  <2>4. UpdateScreen' /\ U!NothingForgotten'
    BY <2>1, <2>2, UpdateDiscards DEF UpdatePrep, UpdateUi, UpdateScreen, UpdateThread,
       U!NothingForgotten
  <2>5. UpdateStep BY <2>1, UpdateDiscards DEF UpdateStep
  <2> QED BY <2>1, <2>2, <2>3, <2>4, <2>5, UpdateDiscards DEF UpdateWork, UpdateUi
<1>2. CASE ~U!Owed
  <2>1. /\ UNCHANGED <<tx, work, ui>> /\ prep.pc = "finally"
        /\ prep' = [prep EXCEPT !.done = TRUE, !.pc = "end"]
    BY <1>2 DEF U!PrepFinally
  <2>2. UpdatePrep' BY <2>1 DEF UpdatePrep
  <2>3. UpdateThread' BY <1>2, <2>1, <2>2 DEF UpdatePrep, UpdateThread, U!Held, U!Owed
  <2>4. UpdateScreen' /\ U!NothingForgotten'
    BY <1>2, <2>1, <2>2 DEF UpdatePrep, UpdateUi, UpdateScreen, UpdateThread,
       U!NothingForgotten, U!Owed
  <2> QED BY <2>1, <2>2, <2>3, <2>4 DEF UpdateWork, UpdateUi, UpdateTx, UpdateStep
<1> QED BY <1>1, <1>2

LEMMA UpdateMerge == ASSUME UpdateControl, U!Merge PROVE UpdateControl' /\ UpdateStep
BY DEF U!Merge, UpdateControl, UpdateFields, U!Fault, U!NoFault, U!DiscardTx, U!Cancel,
   U!Leave, U!Open, U!SameThreads, U!Unfinished, U!Owed, U!Mark, U!BackTo, U!Available,
   U!Held, UpdateTx, UpdatePrep, UpdateWork, UpdateUi, UpdateThread, UpdateScreen,
   U!NothingForgotten, UpdateStep

LEMMA UpdateMergeFails ==
  ASSUME UpdateControl, U!MergeFails
  PROVE  UpdateControl' /\ UpdateStep
BY DEF U!MergeFails, UpdateControl, UpdateFields, U!Fault, U!NoFault, U!DiscardTx, U!Cancel,
   U!Leave, U!Open, U!SameThreads, U!Unfinished, U!Owed, U!Mark, U!BackTo, U!Available,
   U!Held, UpdateTx, UpdatePrep, UpdateWork, UpdateUi, UpdateThread, UpdateScreen,
   U!NothingForgotten, UpdateStep

LEMMA UpdateStage == ASSUME UpdateControl, U!Stage PROVE UpdateControl' /\ UpdateStep
BY DEF U!Stage, UpdateControl, UpdateFields, U!Fault, U!NoFault, U!DiscardTx, U!Cancel,
   U!Leave, U!Open, U!SameThreads, U!Unfinished, U!Owed, U!Mark, U!BackTo, U!Available,
   U!Held, UpdateTx, UpdatePrep, UpdateWork, UpdateUi, UpdateThread, UpdateScreen,
   U!NothingForgotten, UpdateStep

LEMMA UpdateStageFails ==
  ASSUME UpdateControl, U!StageFails
  PROVE  UpdateControl' /\ UpdateStep
BY DEF U!StageFails, UpdateControl, UpdateFields, U!Fault, U!NoFault, U!DiscardTx, U!Cancel,
   U!Leave, U!Open, U!SameThreads, U!Unfinished, U!Owed, U!Mark, U!BackTo, U!Available,
   U!Held, UpdateTx, UpdatePrep, UpdateWork, UpdateUi, UpdateThread, UpdateScreen,
   U!NothingForgotten, UpdateStep

LEMMA UpdateApply == ASSUME UpdateControl, U!Apply PROVE UpdateControl' /\ UpdateStep
<1>1. UNCHANGED <<prep, ui>> /\ work.pc = "apply" BY DEF U!Apply
<1>2. CASE /\ tx.state = "active"
    /\ tx' = [tx EXCEPT !.state = "applied", !.real = tx.staged]
           /\ work' = [work EXCEPT !.pc = "finally"]
  BY <1>1, <1>2 DEF UpdateControl, UpdateFields, U!Held, UpdateTx, UpdateWork, UpdatePrep,
     UpdateUi, UpdateThread, UpdateScreen, U!NothingForgotten, UpdateStep
<1>3. CASE UNCHANGED tx /\ work' = [work EXCEPT !.pc = "finally", !.error = TRUE]
  BY <1>1, <1>3 DEF UpdateControl, UpdateFields, U!Held, UpdateTx, UpdateWork, UpdatePrep,
     UpdateUi, UpdateThread, UpdateScreen, U!NothingForgotten, UpdateStep
<1> QED BY <1>2, <1>3 DEF U!Apply

LEMMA UpdateWorkFinally ==
  ASSUME UpdateControl, U!WorkFinally
  PROVE  UpdateControl' /\ UpdateStep
BY DEF U!WorkFinally, UpdateControl, UpdateFields, U!Fault, U!NoFault, U!DiscardTx,
   U!Cancel, U!Leave, U!Open, U!SameThreads, U!Unfinished, U!Owed, U!Mark, U!BackTo,
   U!Available, U!Held, UpdateTx, UpdatePrep, UpdateWork, UpdateUi, UpdateThread,
   UpdateScreen, U!NothingForgotten, UpdateStep

LEMMA UpdatePollPreparation ==
  ASSUME UpdateControl, U!PollPreparation
  PROVE  UpdateControl' /\ UpdateStep
<1> USE DEF UpdateControl, UpdateFields
<1>1. CASE prep.error \/ prep.cancelled
  <2>1. /\ prep.done /\ ui.at = "preparing" /\ UNCHANGED <<tx, work, prep>>
        /\ ui' = [ui EXCEPT !.at = IF ui.leave THEN "left" ELSE "choosing", !.leave = FALSE]
    BY <1>1 DEF U!PollPreparation, U!Open
  <2>2. UpdatePrep' /\ UpdateUi' /\ UpdateTx' /\ UpdateWork'
    <3>1. UpdatePrep' BY <2>1 DEF UpdatePrep
    <3>2. UpdateUi' BY <2>1 DEF UpdateUi
    <3>3. UpdateTx' /\ UpdateWork' BY <2>1 DEF UpdateTx, UpdateWork
    <3> QED BY <3>1, <3>2, <3>3
  <2>3. UpdateThread' BY <2>1 DEF UpdatePrep, UpdateThread, U!Held
  <2>4. UpdateScreen' /\ U!NothingForgotten'
    BY <1>1, <2>1, <2>2 DEF UpdatePrep, UpdateUi, UpdateWork, UpdateThread, UpdateScreen,
       U!NothingForgotten
  <2> QED BY <2>1, <2>2, <2>3, <2>4 DEF UpdateStep
<1>2. CASE ~(prep.error \/ prep.cancelled)
  <2>1. /\ prep.done /\ ui.at = "preparing" /\ UNCHANGED <<tx, work>>
        /\ prep' = [prep EXCEPT !.claimed = TRUE]
        /\ ui' = [ui EXCEPT !.at = "choosing", !.holds = TRUE, !.listed = TRUE,
                      !.sel = U!Available]
    BY <1>2 DEF U!PollPreparation, U!Open
  <2>2. UpdatePrep' /\ UpdateUi' /\ UpdateTx' /\ UpdateWork'
    <3>1. UpdatePrep' BY <2>1 DEF UpdatePrep
    <3>2. UpdateUi' BY <2>1 DEF UpdateUi
    <3>3. UpdateTx' /\ UpdateWork' BY <2>1 DEF UpdateTx, UpdateWork
    <3> QED BY <3>1, <3>2, <3>3
  <2>3. UpdateThread' BY <2>1 DEF UpdatePrep, UpdateThread, U!Held
  <2>4. UpdateScreen' /\ U!NothingForgotten'
    BY <1>2, <2>1, <2>2 DEF UpdatePrep, UpdateUi, UpdateWork, UpdateThread, UpdateScreen,
       U!NothingForgotten
  <2> QED BY <2>1, <2>2, <2>3, <2>4 DEF UpdateStep
<1> QED BY <1>1, <1>2

LEMMA UpdateQuitPreparing ==
  ASSUME UpdateControl, U!QuitPreparing
  PROVE  UpdateControl' /\ UpdateStep
<1> USE DEF UpdateControl, UpdateFields
<1>1. /\ ui.at = "preparing" /\ U!Cancel /\ ~prep.claimed
      /\ ui' = [ui EXCEPT !.leave = TRUE] /\ UNCHANGED work
  BY DEF U!QuitPreparing, UpdateScreen
<1>2. UpdateUi' /\ UpdateWork' BY <1>1 DEF UpdateUi, UpdateWork
<1>3. UpdateScreen' /\ U!NothingForgotten'
  BY <1>1, <1>2, UpdateCancels DEF UpdatePrep, UpdateUi, UpdateWork, UpdateScreen,
     U!NothingForgotten
<1>4. UpdateStep BY <1>1, UpdateCancels DEF UpdateStep
<1> QED BY <1>1, <1>2, <1>3, <1>4, UpdateCancels

LEMMA UpdateToggle == ASSUME UpdateControl, U!Toggle PROVE UpdateControl' /\ UpdateStep
BY DEF U!Toggle, UpdateControl, UpdateFields, U!Fault, U!NoFault, U!DiscardTx, U!Cancel,
   U!Leave, U!Open, U!SameThreads, U!Unfinished, U!Owed, U!Mark, U!BackTo, U!Available,
   U!Held, UpdateTx, UpdatePrep, UpdateWork, UpdateUi, UpdateThread, UpdateScreen,
   U!NothingForgotten, UpdateStep

LEMMA UpdateConfirm == ASSUME UpdateControl, U!Confirm PROVE UpdateControl' /\ UpdateStep
<1> USE DEF U!Confirm, UpdateControl, UpdateFields, U!Fault, U!NoFault, U!DiscardTx,
    U!Cancel, U!Leave, U!Open, U!SameThreads, U!Unfinished, U!Owed, U!Mark, U!BackTo,
    U!Available, U!Held
<1>1. UpdateTx' BY DEF UpdateTx
<1>2. UpdatePrep' BY DEF UpdateTx, UpdatePrep
<1>3. UpdateWork' BY DEF UpdateWork
<1>4. UpdateUi' BY DEF UpdateTx, UpdateUi
<1>5. UpdateThread' /\ UpdateScreen' /\ U!NothingForgotten'
  BY DEF UpdateTx, UpdatePrep, UpdateThread, UpdateScreen, UpdateWork, UpdateUi,
     U!NothingForgotten
<1>8. UpdateStep BY DEF UpdateTx, UpdateThread, UpdateStep
<1>9. QED BY <1>1, <1>2, <1>3, <1>4, <1>5, <1>8

LEMMA UpdateQuitApplying ==
  ASSUME UpdateControl, U!QuitApplying
  PROVE  UpdateControl' /\ UpdateStep
BY DEF U!QuitApplying, UpdateControl, UpdateFields, U!Fault, U!NoFault, U!DiscardTx,
   U!Cancel, U!Leave, U!Open, U!SameThreads, U!Unfinished, U!Owed, U!Mark, U!BackTo,
   U!Available, U!Held, UpdateTx, UpdatePrep, UpdateWork, UpdateUi, UpdateThread,
   UpdateScreen, U!NothingForgotten, UpdateStep

LEMMA UpdatePollApply ==
  ASSUME UpdateControl, U!PollApply
  PROVE  UpdateControl' /\ UpdateStep
<1>1. /\ ui.at = "applying" /\ work.pc = "done" /\ ui.down = "no"
      /\ work' = [work EXCEPT !.pc = "idle"] /\ UNCHANGED <<tx, prep>>
  BY DEF U!PollApply, U!Open
<1>2. CASE /\ ui.holds /\ tx.state = "active"
           /\ ui' = [ui EXCEPT !.at = "discarding", !.discard = "running", !.dest = TRUE]
  <2> USE <1>1, <1>2 DEF UpdateControl, UpdateFields, U!Held
  <2>a. UpdateTx' /\ UpdateWork' BY DEF UpdateTx, UpdateWork
  <2>b. UpdatePrep' BY DEF UpdatePrep
  <2>c. UpdateUi' BY DEF UpdateUi
  <2>d. UpdateThread'
    BY DEF UpdateTx, UpdatePrep, UpdateWork, UpdateUi, UpdateThread, UpdateScreen
  <2>e. UpdateScreen' /\ U!NothingForgotten'
    BY DEF UpdateTx, UpdatePrep, UpdateWork, UpdateUi, UpdateThread, UpdateScreen,
       U!NothingForgotten
  <2>f. UpdateStep
    BY DEF UpdateTx, UpdatePrep, UpdateWork, UpdateUi, UpdateThread, UpdateScreen,
       UpdateStep
  <2> QED BY <2>a, <2>b, <2>c, <2>d, <2>e, <2>f
<1>3. CASE ui' = [ui EXCEPT !.at = "choosing"]
  BY <1>1, <1>3 DEF UpdateControl, UpdateFields, U!Held, UpdateTx, UpdateWork, UpdatePrep,
     UpdateUi, UpdateThread, UpdateScreen, U!NothingForgotten, UpdateStep
<1>4. CASE /\ ui.dest /\ ~(ui.holds /\ tx.state = "active")
           /\ ui' = [ui EXCEPT !.at = "left", !.holds = FALSE, !.listed = FALSE,
              !.dest = FALSE]
  BY <1>1, <1>4 DEF UpdateControl, UpdateFields, U!Held, UpdateTx, UpdateWork, UpdatePrep,
     UpdateUi, UpdateThread, UpdateScreen, U!NothingForgotten, UpdateStep
<1>5. CASE ~work.error /\ ui' = [ui EXCEPT !.at = "left", !.holds = FALSE, !.listed = FALSE]
  BY <1>1, <1>5 DEF UpdateControl, UpdateFields, U!Held, UpdateTx, UpdateWork, UpdatePrep,
     UpdateUi, UpdateThread, UpdateScreen, U!NothingForgotten, UpdateStep
<1> QED BY <1>2, <1>3, <1>4, <1>5 DEF U!PollApply, U!Leave

LEMMA UpdateQuitChoosing ==
  ASSUME UpdateControl, U!QuitChoosing
  PROVE  UpdateControl' /\ UpdateStep
<1>1. ui.at = "choosing" /\ work.pc = "idle" /\ ui.down = "no"
    /\ UNCHANGED <<tx, prep, work>>
  BY DEF U!QuitChoosing, U!Open, U!SameThreads
<1>2. CASE /\ ui.holds
           /\ ui' = [ui EXCEPT !.at = "discarding", !.discard = "running", !.dest = TRUE]
  <2> USE <1>1, <1>2 DEF UpdateControl, UpdateFields, U!Held
  <2>a. UpdateTx' /\ UpdateWork' BY DEF UpdateTx, UpdateWork
  <2>b. UpdatePrep' BY DEF UpdatePrep
  <2>c. UpdateUi' BY DEF UpdateUi
  <2>d. UpdateThread'
    BY DEF UpdateTx, UpdatePrep, UpdateWork, UpdateUi, UpdateThread, UpdateScreen
  <2>e. UpdateScreen' /\ U!NothingForgotten'
    BY DEF UpdateTx, UpdatePrep, UpdateWork, UpdateUi, UpdateThread, UpdateScreen,
       U!NothingForgotten
  <2>f. UpdateStep
    BY DEF UpdateTx, UpdatePrep, UpdateWork, UpdateUi, UpdateThread, UpdateScreen,
       UpdateStep
  <2> QED BY <2>a, <2>b, <2>c, <2>d, <2>e, <2>f
<1>3. CASE ui' = [ui EXCEPT !.at = "choosing"]
  BY <1>1, <1>3 DEF UpdateControl, UpdateFields, U!Held, UpdateTx, UpdateWork, UpdatePrep,
     UpdateUi, UpdateThread, UpdateScreen, U!NothingForgotten, UpdateStep
<1>4. CASE /\ ~ui.holds
           /\ ui' = [ui EXCEPT !.at = "left", !.holds = FALSE, !.listed = FALSE,
              !.dest = FALSE]
  BY <1>1, <1>4 DEF UpdateControl, UpdateFields, U!Held, UpdateTx, UpdateWork, UpdatePrep,
     UpdateUi, UpdateThread, UpdateScreen, U!NothingForgotten, UpdateStep
<1> QED BY <1>2, <1>3, <1>4 DEF U!QuitChoosing, U!Leave

LEMMA UpdateDiscard == ASSUME UpdateControl, U!Discard PROVE UpdateControl' /\ UpdateStep
BY DEF U!Discard, UpdateControl, UpdateFields, U!Fault, U!NoFault, U!DiscardTx, U!Cancel,
   U!Leave, U!Open, U!SameThreads, U!Unfinished, U!Owed, U!Mark, U!BackTo, U!Available,
   U!Held, UpdateTx, UpdatePrep, UpdateWork, UpdateUi, UpdateThread, UpdateScreen,
   U!NothingForgotten, UpdateStep

LEMMA UpdatePollDiscard ==
  ASSUME UpdateControl, U!PollDiscard
  PROVE  UpdateControl' /\ UpdateStep
<1> USE DEF U!PollDiscard, UpdateControl, UpdateFields, U!Fault, U!NoFault, U!DiscardTx,
    U!Cancel, U!Leave, U!Open, U!SameThreads, U!Unfinished, U!Owed, U!Mark, U!BackTo,
    U!Available, U!Held
<1>1. UpdateTx' BY DEF UpdateTx
<1>2. UpdatePrep' BY DEF UpdateTx, UpdatePrep
<1>3. UpdateWork' BY DEF UpdateWork
<1>4. UpdateUi' BY DEF UpdateTx, UpdateUi
<1>5. UpdateThread' /\ UpdateScreen' /\ U!NothingForgotten'
  BY DEF UpdateTx, UpdatePrep, UpdateThread, UpdateScreen, UpdateWork, UpdateUi,
     U!NothingForgotten
<1>8. UpdateStep BY DEF UpdateTx, UpdateThread, UpdateStep
<1>9. QED BY <1>1, <1>2, <1>3, <1>4, <1>5, <1>8

LEMMA UpdateUnmount == ASSUME UpdateControl, U!Unmount PROVE UpdateControl' /\ UpdateStep
<1> USE DEF UpdateControl, UpdateFields
<1>1. CASE ui.at = "preparing"
  <2>1. /\ U!Cancel /\ ~prep.claimed
        /\ ui' = [ui EXCEPT !.down = "unmounted"] /\ UNCHANGED work
    BY <1>1 DEF U!Unmount, UpdateScreen
  <2>2. UpdateUi' /\ UpdateWork' BY <2>1 DEF UpdateUi, UpdateWork
  <2>3. UpdateScreen' /\ U!NothingForgotten'
    BY <1>1, <2>1, <2>2, UpdateCancels DEF UpdatePrep, UpdateUi, UpdateWork, UpdateScreen,
       U!NothingForgotten
  <2>4. UpdateStep BY <2>1, UpdateCancels DEF UpdateStep
  <2> QED BY <2>1, <2>2, <2>3, <2>4, UpdateCancels
<1>2. CASE ui.at = "applying"
  <2>1. /\ prep' = [prep EXCEPT !.event = TRUE] /\ ui' = [ui EXCEPT !.down = "unmounted"]
        /\ UNCHANGED <<tx, work>> /\ ui.down = "no"
    BY <1>2 DEF U!Unmount, U!Open
  <2>2. UpdatePrep' /\ UpdateUi' /\ UpdateTx' /\ UpdateWork'
    <3>1. UpdatePrep' /\ UpdateUi' /\ UpdateTx' /\ UpdateWork'
      BY <2>1 DEF UpdatePrep, UpdateUi, UpdateTx, UpdateWork
    <3> QED BY <3>1
  <2>3. UpdateThread' BY <2>1 DEF UpdatePrep, UpdateThread, U!Held
  <2>4. UpdateScreen' /\ U!NothingForgotten'
    BY <1>2, <2>1, <2>2 DEF UpdatePrep, UpdateUi, UpdateWork, UpdateScreen,
       U!NothingForgotten
  <2> QED BY <2>1, <2>2, <2>3, <2>4 DEF UpdateStep
<1>3. CASE /\ ui.at \notin {"preparing", "applying"} /\ ui.holds
           /\ ui' = [ui EXCEPT !.down = "unmounted", !.discard = "running"]
  <2>1. UNCHANGED <<prep, work, tx>> /\ ui.down = "no"
    BY <1>3 DEF U!Unmount, U!SameThreads, U!Open
  <2> USE <1>3, <2>1 DEF UpdateControl, UpdateFields, U!Held
  <2>a. UpdateTx' /\ UpdateWork' BY DEF UpdateTx, UpdateWork
  <2>b. UpdatePrep' BY DEF UpdatePrep
  <2>c. UpdateUi' BY DEF UpdateUi
  <2>d. UpdateThread'
    BY DEF UpdateTx, UpdatePrep, UpdateWork, UpdateUi, UpdateThread, UpdateScreen
  <2>e. UpdateScreen' /\ U!NothingForgotten'
    BY DEF UpdateTx, UpdatePrep, UpdateWork, UpdateUi, UpdateThread, UpdateScreen,
       U!NothingForgotten
  <2>f. UpdateStep
    BY DEF UpdateTx, UpdatePrep, UpdateWork, UpdateUi, UpdateThread, UpdateScreen,
       UpdateStep
  <2> QED BY <2>a, <2>b, <2>c, <2>d, <2>e, <2>f
<1>4. CASE ui.at \notin {"preparing", "applying"} /\ ui' = [ui EXCEPT !.down = "unmounted"]
  <2>1. UNCHANGED <<prep, work, tx>> /\ ui.down = "no"
    BY <1>4 DEF U!Unmount, U!SameThreads, U!Open
  <2> QED
    BY <1>4, <2>1 DEF UpdateControl, UpdateFields, U!Held, UpdateTx, UpdateWork, UpdatePrep,
       UpdateUi, UpdateThread, UpdateScreen, U!NothingForgotten, UpdateStep
<1> QED BY <1>1, <1>2, <1>3, <1>4 DEF U!Unmount

LEMMA UpdateShutdown == ASSUME UpdateControl, U!Shutdown PROVE UpdateControl' /\ UpdateStep
<1> USE DEF U!Shutdown, UpdateControl, UpdateFields, U!Fault, U!NoFault, U!DiscardTx,
    U!Cancel, U!Leave, U!Open, U!SameThreads, U!Unfinished, U!Owed, U!Mark, U!BackTo,
    U!Available, U!Held
<1>1. UpdateTx' BY DEF UpdateTx
<1>2. UpdatePrep' BY DEF UpdateTx, UpdatePrep
<1>3. UpdateWork' BY DEF UpdateWork
<1>4. UpdateUi' BY DEF UpdateTx, UpdateUi
<1>5. UpdateThread' /\ UpdateScreen' /\ U!NothingForgotten'
  BY DEF UpdateTx, UpdatePrep, UpdateThread, UpdateScreen, UpdateWork, UpdateUi,
     U!NothingForgotten
<1>8. UpdateStep BY DEF UpdateTx, UpdateThread, UpdateStep
<1>9. QED BY <1>1, <1>2, <1>3, <1>4, <1>5, <1>8

LEMMA UpdateDrain == ASSUME UpdateControl, U!Drain PROVE UpdateControl' /\ UpdateStep
<1>1. ui.down = "draining" /\ UNCHANGED <<prep, work>> BY DEF U!Drain, U!SameThreads
<1>2. CASE /\ U!DiscardTx
           /\ ui' = [ui EXCEPT !.down = "over", !.listed = tx'.state = "closing"]
  <2>1. /\ UpdateTx' /\ tx'.state # "active" /\ tx'.real = tx.real
        /\ tx'.state = tx.state \/ (U!Held /\ tx'.state \in {"closing", "discarded"})
    BY <1>2, UpdateDiscards DEF UpdateControl, UpdateFields
  <2>2. UpdateUi' /\ ui'.at = ui.at /\ ui'.holds = ui.holds /\ ui'.discard = ui.discard
      /\ ui'.down = "over"
    BY <1>2 DEF UpdateControl, UpdateFields, UpdateUi
  <2>3. UpdatePrep' /\ UpdateWork'
    BY <1>1 DEF UpdateControl, UpdateFields, UpdatePrep, UpdateWork
  <2>4. UpdateThread' BY <1>1, <2>1 DEF UpdateControl, UpdateFields, UpdateThread, U!Held
  <2>5. UpdateScreen' /\ U!NothingForgotten'
    BY <1>1, <2>1, <2>2 DEF UpdateControl, UpdateFields, UpdateScreen, U!NothingForgotten
  <2>6. UpdateStep BY <2>1 DEF UpdateStep
  <2> QED BY <2>1, <2>2, <2>3, <2>4, <2>5, <2>6 DEF UpdateControl, UpdateFields
<1>3. CASE /\ U!Unfinished \/ ~ui.listed
           /\ ui' = [ui EXCEPT !.down = "over"] /\ UNCHANGED tx
  BY <1>1, <1>3 DEF UpdateControl, UpdateFields, U!Held, U!Unfinished, UpdateTx, UpdateWork,
     UpdatePrep, UpdateUi, UpdateThread, UpdateScreen, U!NothingForgotten, UpdateStep
<1> QED BY <1>2, <1>3 DEF U!Drain

LEMMA UpdateNext ==
  ASSUME UpdateControl, U!Next PROVE UpdateControl' /\ UpdateStep
BY UpdatePrepStart, UpdatePrepCreate, UpdatePrepCancelled, UpdatePrepRefused,
   UpdatePrepClassify,
   UpdatePrepNormalize, UpdatePrepResolve, UpdatePrepConclude, UpdatePrepFinally,
       UpdateMerge,
   UpdateMergeFails, UpdateStage, UpdateStageFails, UpdateApply, UpdateWorkFinally,
   UpdatePollPreparation, UpdateQuitPreparing, UpdateToggle, UpdateConfirm,
       UpdateQuitApplying,
   UpdatePollApply, UpdateQuitChoosing, UpdateDiscard, UpdatePollDiscard, UpdateUnmount,
   UpdateShutdown, UpdateDrain
   DEF U!Next, U!PrepNext, U!WorkNext, U!UiNext

-----------------------------------------------------------------------------
(* Loader migration: one thread, its preview and its screen.  The source   *)
(* stays as it was until the very source that was previewed is applied.    *)

LoaderTx ==
  /\ DOMAIN tx = {"state", "real", "staged"}
  /\ tx.state \in {"none", "active", "closing", "applied", "discarded"}

LoaderPrep ==
  /\ DOMAIN prep = {"pc", "started", "done", "cancelled", "event", "error", "finished",
     "owns",
                    "preview"}
  /\ prep.pc \in {"new", "create", "migrate", "refresh", "check", "finally", "ending",
     "end"}
  /\ prep.started \in BOOLEAN /\ prep.done \in BOOLEAN /\ prep.cancelled \in BOOLEAN
  /\ prep.event \in BOOLEAN /\ prep.error \in BOOLEAN /\ prep.finished \in BOOLEAN
  /\ prep.owns \in BOOLEAN

LoaderUi ==
  /\ DOMAIN ui = {"at", "operation", "leave", "down", "tries"}
  /\ ui.at \in {"form", "preview", "left"}
  /\ ui.operation \in BOOLEAN /\ ui.leave \in BOOLEAN /\ ui.down \in BOOLEAN

(* The thread owns what it has created, and reports an error only when the *)
(* transaction is open no more.                                            *)
LoaderThread ==
  /\ prep.pc = "new" => ~prep.started /\ ~prep.owns
  /\ prep.pc = "new" /\ ~prep.done => ~prep.finished
  /\ prep.pc \notin {"new", "end"} => prep.started /\ ~prep.done
  /\ prep.pc \notin {"new", "end", "ending"} => ~prep.finished
  /\ prep.pc \in {"new", "create"} => ~prep.owns
  /\ prep.pc \in {"migrate", "refresh", "check"} => prep.owns /\ tx.state = "active"
  /\ tx.state = "active" => prep.owns /\ ~prep.finished
  /\ prep.pc \notin {"end", "ending"} /\ tx.state = "active" => prep.owns
  /\ prep.error /\ prep.pc \in {"ending", "end"} => tx.state # "active"
  /\ prep.done /\ ~prep.cancelled => prep.started
  /\ prep.cancelled <=> prep.event

(* A thread that came to its end without an error or a cancel has an open  *)
(* transaction, whose staged source it previewed and found admissible.     *)
LoaderReady ==
  /\ prep.started /\ ~prep.error /\ ~prep.cancelled /\ ~prep.finished
  /\ prep.pc \in {"finally", "ending", "end"}
  => /\ tx.state = "active" /\ prep.owns
     /\ prep.preview = <<tx.staged>> /\ L!Admissible

(* The source is touched by the apply only, which ends everything else. *)
LoaderSource ==
  /\ tx.state # "applied" => tx.real = Loader.Source
  /\ tx.state = "applied" => ui.at = "left" /\ prep.pc = "end" /\ ~ui.operation

(* The screens: a preview is shown of a thread that has ended well, and a  *)
(* thread whose screen is gone has been told to stop.                      *)
LoaderScreen ==
  /\ ui.operation /\ prep.pc = "end" => prep.done
  /\ ui.at = "preview" /\ ~ui.down =>
       /\ ui.operation /\ prep.pc = "end" /\ prep.started
       /\ ~prep.error /\ ~prep.cancelled /\ ~prep.finished
  /\ prep.finished /\ (prep.pc = "ending" \/ (ui.operation /\ prep.pc = "end" /\ ~ui.down)) =>
       prep.cancelled \/ prep.error
  /\ ui.at = "preview" => ui.operation
  /\ prep.cancelled /\ prep.pc = "new" => prep.done
  /\ prep.cancelled /\ ui.operation => ui.leave \/ ui.down
  /\ ~ui.operation /\ tx.state = "active" => prep.cancelled /\ ui.at = "left"
  /\ ui.down /\ tx.state = "active" => prep.cancelled
  /\ prep.pc # "end" /\ ~ui.operation => ui.at = "left"
  /\ prep.pc # "end" /\ (~ui.operation \/ ui.down) => prep.cancelled
  /\ prep.pc \in {"ending", "end"} /\ tx.state = "active" => prep.preview # <<>>

LoaderFields == LoaderTx /\ LoaderPrep /\ LoaderUi
LoaderControl ==
  LoaderFields /\ LoaderThread /\ LoaderReady /\ LoaderSource /\ L!AppliedIsPreviewed
      /\ LoaderScreen

(* What a step may do to the transaction and to the source of the Pack. *)
LoaderStep ==
  \/ UNCHANGED <<tx.state, tx.real>>
  \/ ~L!Held /\ tx'.state = "active" /\ tx'.real = tx.real
  \/ tx.state = "active" /\ tx'.state = "applied"
  \/ L!Held /\ tx'.state \in {"closing", "discarded"} /\ tx'.real = tx.real

(* The invariant holds at first. *)
LEMMA LoaderInitially == L!Init => LoaderControl
BY DEF L!Init, L!Operation, LoaderControl, LoaderFields, LoaderTx, LoaderPrep, LoaderUi,
   LoaderThread, LoaderReady, LoaderSource, L!AppliedIsPreviewed, LoaderScreen

(* The invariant leaves no open transaction without a thread or a screen. *)
LEMMA LoaderKeepsHold == LoaderControl => L!NothingForgotten
BY DEF LoaderControl, LoaderFields, LoaderTx, LoaderPrep, LoaderUi, LoaderThread,
   LoaderScreen, L!NothingForgotten, L!MissedCancel

(* Every action keeps the invariant. *)
LEMMA LoaderRunStart == ASSUME LoaderControl, L!RunStart PROVE LoaderControl' /\ LoaderStep
BY DEF L!RunStart, LoaderControl, LoaderFields, L!Fault, L!NoFault, L!DiscardOnce,
   L!DiscardPreview, L!Cancel, L!Open, L!Held, L!Settles, L!Raises, L!Operation, LoaderTx,
   LoaderPrep, LoaderUi, LoaderThread, LoaderScreen, LoaderReady, L!Admissible,
   LoaderSource, L!AppliedIsPreviewed, LoaderStep

(* A step of the thread that raises goes on with the finally block. *)
LEMMA LoaderRaises ==
  ASSUME LoaderControl, prep.pc \in {"create", "migrate", "refresh", "check"},
         UNCHANGED <<tx, ui>>, prep' = [prep EXCEPT !.pc = "finally", !.error = TRUE]
  PROVE  LoaderControl' /\ LoaderStep
<1> USE DEF LoaderControl, LoaderFields
<1>1. LoaderFields' BY DEF LoaderTx, LoaderPrep, LoaderUi
<1>2. LoaderThread' BY DEF LoaderTx, LoaderPrep, LoaderUi, LoaderThread, LoaderScreen
<1>3. LoaderReady' /\ LoaderSource' /\ L!AppliedIsPreviewed'
  BY DEF LoaderTx, LoaderPrep, LoaderUi, LoaderThread, LoaderScreen, LoaderReady,
     LoaderSource, L!AppliedIsPreviewed, L!Admissible
<1>4. LoaderScreen' BY DEF LoaderTx, LoaderPrep, LoaderUi, LoaderThread, LoaderScreen
<1>5. LoaderStep BY DEF LoaderStep
<1> QED BY <1>1, <1>2, <1>3, <1>4, <1>5

LEMMA LoaderRunCreate ==
  ASSUME LoaderControl, L!RunCreate
  PROVE  LoaderControl' /\ LoaderStep
<1> DEFINE Raised == UNCHANGED tx /\ prep' = [prep EXCEPT !.pc = "finally", !.error = TRUE]
<1>1. UNCHANGED ui /\ prep.pc = "create" BY DEF L!RunCreate
<1>2. CASE /\ ~prep.event /\ ~L!Held
             /\ tx' = [tx EXCEPT !.state = "active", !.staged = tx.real]
             /\ prep' = [prep EXCEPT !.pc = "migrate", !.owns = TRUE]
  BY <1>1, <1>2 DEF LoaderControl, LoaderFields, L!Held, LoaderTx, LoaderPrep, LoaderUi,
     LoaderThread, LoaderScreen, LoaderReady, L!Admissible, LoaderSource,
     L!AppliedIsPreviewed, LoaderStep
<1>3. CASE Raised BY <1>1, <1>3, LoaderRaises
<1> QED BY <1>2, <1>3 DEF L!RunCreate, L!Raises

LEMMA LoaderRunCancelled ==
  ASSUME LoaderControl, L!RunCancelled
  PROVE  LoaderControl' /\ LoaderStep
<1> USE DEF L!RunCancelled, LoaderControl, LoaderFields, L!Fault, L!NoFault, L!DiscardOnce,
    L!DiscardPreview, L!Cancel, L!Open, L!Held, L!Settles, L!Raises, L!Operation
<1>1. LoaderTx' BY DEF LoaderTx
<1>2. LoaderPrep' BY DEF LoaderTx, LoaderPrep
<1>3. LoaderUi' BY DEF LoaderPrep, LoaderUi
<1>4. LoaderThread' BY DEF LoaderTx, LoaderPrep, LoaderUi, LoaderThread, LoaderScreen
<1>5. LoaderReady'
  BY DEF LoaderTx, LoaderPrep, LoaderUi, LoaderThread, LoaderScreen, LoaderReady,
     L!Admissible
<1>6. LoaderSource' /\ L!AppliedIsPreviewed'
  BY DEF LoaderTx, LoaderPrep, LoaderUi, LoaderThread, LoaderScreen, LoaderReady,
     LoaderSource, L!AppliedIsPreviewed, L!Admissible
<1>7. LoaderScreen'
  BY DEF LoaderTx, LoaderPrep, LoaderUi, LoaderThread, LoaderScreen, LoaderReady
<1>8. LoaderStep
  BY DEF LoaderTx, LoaderPrep, LoaderUi, LoaderThread, LoaderScreen, LoaderReady, LoaderStep
<1>9. QED BY <1>1, <1>2, <1>3, <1>4, <1>5, <1>6, <1>7, <1>8

LEMMA LoaderRunMigrate ==
  ASSUME LoaderControl, L!RunMigrate
  PROVE  LoaderControl' /\ LoaderStep
<1> DEFINE Raised == UNCHANGED tx /\ prep' = [prep EXCEPT !.pc = "finally", !.error = TRUE]
<1>1. UNCHANGED ui /\ prep.pc = "migrate" BY DEF L!RunMigrate
<1>2. CASE /\ ~prep.event /\ \E s \in Loader.Outcomes : tx' = [tx EXCEPT !.staged = s]
             /\ prep' = [prep EXCEPT !.pc = "refresh"]
  <2> USE <1>1, <1>2 DEF LoaderControl, LoaderFields
  <2>a. LoaderFields' BY DEF LoaderTx, LoaderPrep, LoaderUi
  <2>b. LoaderThread' BY DEF LoaderTx, LoaderPrep, LoaderUi, LoaderThread, LoaderScreen
  <2>c. LoaderReady'
    BY DEF LoaderTx, LoaderPrep, LoaderUi, LoaderThread, LoaderScreen, LoaderReady,
       L!Admissible
  <2>d. LoaderSource' /\ L!AppliedIsPreviewed'
    BY DEF LoaderTx, LoaderPrep, LoaderUi, LoaderThread, LoaderScreen, LoaderReady,
       LoaderSource, L!AppliedIsPreviewed, L!Admissible
  <2>e. LoaderScreen'
    BY DEF LoaderTx, LoaderPrep, LoaderUi, LoaderThread, LoaderScreen, LoaderReady
  <2>f. LoaderStep
    BY DEF LoaderTx, LoaderPrep, LoaderUi, LoaderThread, LoaderScreen, LoaderReady,
       LoaderStep
  <2> QED BY <2>a, <2>b, <2>c, <2>d, <2>e, <2>f
<1>3. CASE Raised BY <1>1, <1>3, LoaderRaises
<1> QED BY <1>2, <1>3 DEF L!RunMigrate, L!Raises

LEMMA LoaderRunRefresh ==
  ASSUME LoaderControl, L!RunRefresh
  PROVE  LoaderControl' /\ LoaderStep
<1> DEFINE Raised == UNCHANGED tx /\ prep' = [prep EXCEPT !.pc = "finally", !.error = TRUE]
<1>1. UNCHANGED ui /\ prep.pc = "refresh" BY DEF L!RunRefresh
<1>2. CASE UNCHANGED tx /\ prep' = [prep EXCEPT !.pc = "check"]
  BY <1>1, <1>2 DEF LoaderControl, LoaderFields, LoaderTx, LoaderPrep, LoaderUi,
     LoaderThread, LoaderScreen, LoaderReady, L!Admissible, LoaderSource,
     L!AppliedIsPreviewed, LoaderStep
<1>3. CASE Raised BY <1>1, <1>3, LoaderRaises
<1> QED BY <1>2, <1>3 DEF L!RunRefresh, L!Raises

LEMMA LoaderRunCheck == ASSUME LoaderControl, L!RunCheck PROVE LoaderControl' /\ LoaderStep
<1> DEFINE Raised == UNCHANGED tx /\ prep' = [prep EXCEPT !.pc = "finally", !.error = TRUE]
<1>1. UNCHANGED ui /\ prep.pc = "check" BY DEF L!RunCheck
<1>2. CASE /\ UNCHANGED tx /\ ~prep.event /\ L!Admissible
             /\ prep' = [prep EXCEPT !.pc = "finally", !.preview = <<tx.staged>>]
  BY <1>1, <1>2 DEF LoaderControl, LoaderFields, LoaderTx, LoaderPrep, LoaderUi,
     LoaderThread, LoaderScreen, LoaderReady, L!Admissible, LoaderSource,
     L!AppliedIsPreviewed, LoaderStep
<1>3. CASE Raised BY <1>1, <1>3, LoaderRaises
<1> QED BY <1>2, <1>3 DEF L!RunCheck, L!Raises

(* A discard leaves no open transaction and the source as it was. *)
LEMMA LoaderDiscards ==
  ASSUME LoaderTx, LoaderPrep, LoaderThread, L!DiscardOnce
  PROVE  /\ LoaderTx' /\ tx'.state # "active" /\ tx'.real = tx.real
         /\ tx'.state = tx.state \/ (L!Held /\ tx'.state \in {"closing", "discarded"})
<1>1. CASE UNCHANGED tx /\ (prep.finished \/ ~prep.owns)
  BY <1>1 DEF LoaderTx, LoaderThread
<1>2. CASE L!Held /\ tx' = [tx EXCEPT !.state = "discarded"]
  BY <1>2 DEF LoaderTx, L!Held
<1>3. CASE ~L!Held /\ tx' = [tx EXCEPT !.state = tx.state]
  <2>1. DOMAIN tx' = DOMAIN tx /\ tx'.state = tx.state /\ tx'.real = tx.real
    BY <1>3 DEF LoaderTx
  <2> QED BY <1>3, <2>1 DEF LoaderTx, L!Held
<1>4. CASE L!Held /\ tx' = [tx EXCEPT !.state = "closing"]
  BY <1>4 DEF LoaderTx, L!Held
<1> QED BY <1>1, <1>2, <1>3, <1>4 DEF L!DiscardOnce

LEMMA LoaderRunFinally ==
  ASSUME LoaderControl, L!RunFinally
  PROVE  LoaderControl' /\ LoaderStep
<1> DEFINE read == [prep EXCEPT !.cancelled = @ \/ prep.event, !.pc = "ending"]
<1>1. CASE L!Settles(read)
  <2>1. L!DiscardOnce /\ UNCHANGED ui /\ prep.pc = "finally"
    BY <1>1 DEF L!RunFinally
  <2>2. /\ LoaderTx' /\ tx'.state # "active" /\ tx'.real = tx.real
        /\ tx'.state = tx.state \/ (L!Held /\ tx'.state \in {"closing", "discarded"})
    BY <2>1, LoaderDiscards DEF LoaderControl, LoaderFields
  <2>3. /\ DOMAIN prep' = DOMAIN prep /\ prep'.pc = "ending" /\ prep'.finished
        /\ prep'.started = prep.started /\ prep'.done = prep.done /\ prep'.owns = prep.owns
        /\ prep'.event = prep.event
    BY <1>1 DEF L!RunFinally, LoaderControl, LoaderFields, LoaderPrep
  <2>4. /\ prep'.cancelled = (prep.cancelled \/ prep.event)
    BY <1>1 DEF L!RunFinally, LoaderControl, LoaderFields, LoaderPrep
  <2>5. prep'.error \in BOOLEAN /\ (prep'.cancelled \/ prep'.error)
    BY <1>1 DEF L!RunFinally, L!Settles, LoaderControl, LoaderFields, LoaderPrep
  <2> USE <2>1, <2>2, <2>3, <2>4, <2>5 DEF LoaderControl, LoaderFields, L!Held
  <2>a. LoaderFields' BY DEF LoaderTx, LoaderPrep, LoaderUi
  <2>b. LoaderThread' BY DEF LoaderTx, LoaderPrep, LoaderUi, LoaderThread, LoaderScreen
  <2>c. LoaderReady'
    BY DEF LoaderTx, LoaderPrep, LoaderUi, LoaderThread, LoaderScreen, LoaderReady,
       L!Admissible
  <2>d. LoaderSource' /\ L!AppliedIsPreviewed'
    BY DEF LoaderTx, LoaderPrep, LoaderUi, LoaderThread, LoaderScreen, LoaderReady,
       LoaderSource, L!AppliedIsPreviewed, L!Admissible
  <2>e. LoaderScreen'
    BY DEF LoaderTx, LoaderPrep, LoaderUi, LoaderThread, LoaderScreen, LoaderReady
  <2>f. LoaderStep
    BY DEF LoaderTx, LoaderPrep, LoaderUi, LoaderThread, LoaderScreen, LoaderReady,
       LoaderStep
  <2> QED BY <2>a, <2>b, <2>c, <2>d, <2>e, <2>f
<1>2. CASE ~L!Settles(read)
  <2>1. UNCHANGED <<tx, ui>> /\ prep.pc = "finally" /\ prep' = read
    BY <1>2 DEF L!RunFinally
  <2>2. ~prep.cancelled /\ ~prep.event /\ ~prep.error
    BY <1>2 DEF L!Settles, LoaderControl, LoaderFields, LoaderPrep
  <2>3. prep' = [prep EXCEPT !.pc = "ending"]
    BY <2>1, <2>2 DEF LoaderControl, LoaderFields, LoaderPrep
  <2> USE <2>1, <2>2, <2>3 DEF LoaderControl, LoaderFields
  <2>a. LoaderFields' BY DEF LoaderTx, LoaderPrep, LoaderUi
  <2>b. LoaderThread' BY DEF LoaderTx, LoaderPrep, LoaderUi, LoaderThread, LoaderScreen
  <2>c. LoaderReady'
    BY DEF LoaderTx, LoaderPrep, LoaderUi, LoaderThread, LoaderScreen, LoaderReady,
       L!Admissible
  <2>d. LoaderSource' /\ L!AppliedIsPreviewed'
    BY DEF LoaderTx, LoaderPrep, LoaderUi, LoaderThread, LoaderScreen, LoaderReady,
       LoaderSource, L!AppliedIsPreviewed, L!Admissible
  <2>e. LoaderScreen'
    BY DEF LoaderTx, LoaderPrep, LoaderUi, LoaderThread, LoaderScreen, LoaderReady
  <2>f. LoaderStep
    BY DEF LoaderTx, LoaderPrep, LoaderUi, LoaderThread, LoaderScreen, LoaderReady,
       LoaderStep
  <2> QED BY <2>a, <2>b, <2>c, <2>d, <2>e, <2>f
<1> QED BY <1>1, <1>2

LEMMA LoaderRunDone == ASSUME LoaderControl, L!RunDone PROVE LoaderControl' /\ LoaderStep
<1> USE DEF L!RunDone, LoaderControl, LoaderFields, L!Fault, L!NoFault, L!DiscardOnce,
    L!DiscardPreview, L!Cancel, L!Open, L!Held, L!Settles, L!Raises, L!Operation
<1>1. LoaderFields' BY DEF LoaderTx, LoaderPrep, LoaderUi
<1>4. LoaderThread' BY DEF LoaderTx, LoaderPrep, LoaderUi, LoaderThread, LoaderScreen
<1>5. LoaderReady'
  BY DEF LoaderTx, LoaderPrep, LoaderUi, LoaderThread, LoaderScreen, LoaderReady,
     L!Admissible
<1>6. LoaderSource' /\ L!AppliedIsPreviewed'
  BY DEF LoaderTx, LoaderPrep, LoaderUi, LoaderThread, LoaderScreen, LoaderReady,
     LoaderSource, L!AppliedIsPreviewed, L!Admissible
<1>7. LoaderScreen'
  BY DEF LoaderTx, LoaderPrep, LoaderUi, LoaderThread, LoaderScreen, LoaderReady
<1>8. LoaderStep
  BY DEF LoaderTx, LoaderPrep, LoaderUi, LoaderThread, LoaderScreen, LoaderReady, LoaderStep
<1>9. QED BY <1>1, <1>4, <1>5, <1>6, <1>7, <1>8

(* Who cancels tells a running thread to stop, and discards for one that   *)
(* has not begun or is done.                                               *)
LEMMA LoaderCancels ==
  ASSUME LoaderTx, LoaderPrep, LoaderThread, L!Cancel
  PROVE  /\ LoaderTx' /\ LoaderPrep' /\ LoaderThread'
         /\ prep'.cancelled /\ prep'.pc = prep.pc
         /\ prep'.preview = prep.preview
         /\ prep.done => prep'.done
         /\ prep.pc = "new" => prep'.done
         /\ tx'.state = "active" => tx.state = "active"
<1>1. CASE prep.done \/ ~prep.started
  <2>1. /\ L!DiscardOnce
        /\ prep' = [prep EXCEPT !.cancelled = TRUE, !.event = TRUE, !.finished = TRUE,
                      !.done = TRUE]
    BY <1>1 DEF L!Cancel
  <2>2. LoaderTx' /\ tx'.state # "active" BY <2>1, LoaderDiscards
  <2>3. LoaderPrep' BY <2>1 DEF LoaderPrep
  <2>4. /\ prep'.cancelled /\ prep'.event /\ prep'.finished /\ prep'.done
        /\ prep'.pc = prep.pc /\ prep'.started = prep.started /\ prep'.owns = prep.owns
        /\ prep'.error = prep.error /\ prep'.preview = prep.preview
    BY <2>1 DEF LoaderPrep
  <2>5. LoaderThread' BY <1>1, <2>2, <2>4 DEF LoaderPrep, LoaderThread
  <2> QED BY <2>2, <2>3, <2>4, <2>5
<1>2. CASE ~prep.done /\ prep.started
  <2>1. prep' = [prep EXCEPT !.cancelled = TRUE, !.event = TRUE] /\ UNCHANGED tx
    BY <1>2 DEF L!Cancel
  <2>2. LoaderTx' /\ LoaderPrep' BY <2>1 DEF LoaderTx, LoaderPrep
  <2>4. /\ prep'.cancelled /\ prep'.event /\ prep'.finished = prep.finished
        /\ prep'.done = prep.done
        /\ prep'.pc = prep.pc /\ prep'.started = prep.started /\ prep'.owns = prep.owns
        /\ prep'.error = prep.error /\ prep'.preview = prep.preview
    BY <2>1 DEF LoaderPrep
  <2>5. LoaderThread' BY <1>2, <2>1, <2>4 DEF LoaderPrep, LoaderThread
  <2>6. prep.pc # "new" BY <1>2 DEF LoaderThread
  <2> QED BY <1>2, <2>1, <2>2, <2>4, <2>5, <2>6
<1> QED BY <1>1, <1>2 DEF LoaderPrep

LEMMA LoaderPrepare == ASSUME LoaderControl, L!Prepare PROVE LoaderControl' /\ LoaderStep
BY DEF L!Prepare, LoaderControl, LoaderFields, L!Fault, L!NoFault, L!DiscardOnce,
   L!DiscardPreview, L!Cancel, L!Open, L!Held, L!Settles, L!Raises, L!Operation, LoaderTx,
   LoaderPrep, LoaderUi, LoaderThread, LoaderScreen, LoaderReady, L!Admissible,
   LoaderSource, L!AppliedIsPreviewed, LoaderStep

LEMMA LoaderPoll == ASSUME LoaderControl, L!Poll PROVE LoaderControl' /\ LoaderStep
<1> USE DEF L!Poll, LoaderControl, LoaderFields, L!Fault, L!NoFault, L!DiscardOnce,
    L!DiscardPreview, L!Cancel, L!Open, L!Held, L!Settles, L!Raises, L!Operation
<1>1. LoaderTx' BY DEF LoaderTx
<1>2. LoaderPrep' BY DEF LoaderTx, LoaderPrep
<1>3. LoaderUi' BY DEF LoaderPrep, LoaderUi
<1>4. LoaderThread' BY DEF LoaderTx, LoaderPrep, LoaderUi, LoaderThread, LoaderScreen
<1>5. LoaderReady'
  BY DEF LoaderTx, LoaderPrep, LoaderUi, LoaderThread, LoaderScreen, LoaderReady,
     L!Admissible
<1>6. LoaderSource' /\ L!AppliedIsPreviewed'
  BY DEF LoaderTx, LoaderPrep, LoaderUi, LoaderThread, LoaderScreen, LoaderReady,
     LoaderSource, L!AppliedIsPreviewed, L!Admissible
<1>7. LoaderScreen'
  BY DEF LoaderTx, LoaderPrep, LoaderUi, LoaderThread, LoaderScreen, LoaderReady
<1>8. LoaderStep
  BY DEF LoaderTx, LoaderPrep, LoaderUi, LoaderThread, LoaderScreen, LoaderReady, LoaderStep
<1>9. QED BY <1>1, <1>2, <1>3, <1>4, <1>5, <1>6, <1>7, <1>8

LEMMA LoaderPreviewConfirmed ==
  ASSUME LoaderControl, L!PreviewConfirmed
  PROVE  LoaderControl' /\ LoaderStep
<1>1. /\ ui.at = "preview" /\ ~ui.down /\ prep' = [prep EXCEPT !.finished = TRUE]
      /\ tx.state = "active" /\ prep.preview = <<tx.staged>> /\ L!Admissible
  BY DEF L!PreviewConfirmed, L!Open, LoaderControl, LoaderFields, LoaderPrep, LoaderScreen,
     LoaderReady
<1>2. CASE /\ tx' = [tx EXCEPT !.state = "discarded"]
           /\ \E place \in {"left", "form"} : ui' = [ui EXCEPT !.operation = FALSE,
              !.at = place]
  <2> USE <1>1, <1>2 DEF LoaderControl, LoaderFields, L!Held
  <2>a. LoaderFields' BY DEF LoaderTx, LoaderPrep, LoaderUi
  <2>b. LoaderThread' BY DEF LoaderTx, LoaderPrep, LoaderUi, LoaderThread, LoaderScreen
  <2>c. LoaderReady'
    BY DEF LoaderTx, LoaderPrep, LoaderUi, LoaderThread, LoaderScreen, LoaderReady,
       L!Admissible
  <2>d. LoaderSource' /\ L!AppliedIsPreviewed'
    BY DEF LoaderTx, LoaderPrep, LoaderUi, LoaderThread, LoaderScreen, LoaderReady,
       LoaderSource, L!AppliedIsPreviewed, L!Admissible
  <2>e. LoaderScreen'
    BY DEF LoaderTx, LoaderPrep, LoaderUi, LoaderThread, LoaderScreen, LoaderReady
  <2>f. LoaderStep
    BY DEF LoaderTx, LoaderPrep, LoaderUi, LoaderThread, LoaderScreen, LoaderReady,
       LoaderStep
  <2> QED BY <2>a, <2>b, <2>c, <2>d, <2>e, <2>f
<1>3. CASE /\ tx' = [tx EXCEPT !.state = "applied", !.real = tx.staged]
           /\ ui' = [ui EXCEPT !.operation = FALSE, !.at = "left"]
  <2> USE <1>1, <1>3 DEF LoaderControl, LoaderFields
  <2>a. LoaderFields' BY DEF LoaderTx, LoaderPrep, LoaderUi
  <2>b. LoaderThread' BY DEF LoaderTx, LoaderPrep, LoaderUi, LoaderThread, LoaderScreen
  <2>c. LoaderReady'
    BY DEF LoaderTx, LoaderPrep, LoaderUi, LoaderThread, LoaderScreen, LoaderReady,
       L!Admissible
  <2>d. LoaderSource' /\ L!AppliedIsPreviewed'
    BY DEF LoaderTx, LoaderPrep, LoaderUi, LoaderThread, LoaderScreen, LoaderReady,
       LoaderSource, L!AppliedIsPreviewed, L!Admissible
  <2>e. LoaderScreen'
    BY DEF LoaderTx, LoaderPrep, LoaderUi, LoaderThread, LoaderScreen, LoaderReady
  <2>f. LoaderStep
    BY DEF LoaderTx, LoaderPrep, LoaderUi, LoaderThread, LoaderScreen, LoaderReady,
       LoaderStep
  <2> QED BY <2>a, <2>b, <2>c, <2>d, <2>e, <2>f
<1> QED BY <1>2, <1>3 DEF L!PreviewConfirmed

(* A preview that is declined, or left, is discarded. *)
LEMMA LoaderDiscardsPreview ==
  ASSUME LoaderControl, L!DiscardOnce, prep' = [prep EXCEPT !.finished = TRUE],
         ui.operation, prep.done, ~ui.down,
         \/ ui.at # "left" /\ ui' = [ui EXCEPT !.down = TRUE]
         \/ ui' = [ui EXCEPT !.operation = FALSE, !.at = "left"]
         \/ ui.at = "preview" /\ ui' = [ui EXCEPT !.operation = FALSE, !.at = "form"]
  PROVE  LoaderControl' /\ LoaderStep
<1>1. /\ LoaderTx' /\ tx'.state # "active" /\ tx'.real = tx.real
      /\ tx'.state = tx.state \/ (L!Held /\ tx'.state \in {"closing", "discarded"})
  BY LoaderDiscards DEF LoaderControl, LoaderFields
<1>2. LoaderPrep' /\ LoaderUi' BY DEF LoaderControl, LoaderFields, LoaderPrep, LoaderUi
<1>3. /\ prep'.finished /\ prep'.started = prep.started /\ prep'.done = prep.done
      /\ prep'.owns = prep.owns /\ prep'.cancelled = prep.cancelled /\ prep'.event = prep.event
      /\ prep'.error = prep.error /\ prep'.pc = prep.pc
  BY DEF LoaderControl, LoaderFields, LoaderPrep
<1>4. prep.pc \in {"new", "end"}
  BY DEF LoaderControl, LoaderFields, LoaderPrep, LoaderThread
<1>5. LoaderThread'
  BY <1>1, <1>3, <1>4 DEF LoaderControl, LoaderFields, LoaderPrep, LoaderThread
<1>6. LoaderReady' BY <1>3 DEF LoaderReady
<1>7. ui'.down \/ ~ui'.operation BY DEF LoaderControl, LoaderFields, LoaderUi
<1>8. LoaderSource' /\ L!AppliedIsPreviewed'
  BY <1>1 DEF LoaderControl, LoaderSource, L!AppliedIsPreviewed, L!Held
<1>9. LoaderScreen'
  BY <1>1, <1>3, <1>4, <1>7 DEF LoaderControl, LoaderFields, LoaderPrep, LoaderUi,
     LoaderThread, LoaderScreen
<1>10. LoaderStep BY <1>1 DEF LoaderStep, LoaderControl, LoaderFields, LoaderTx, L!Held
<1> QED BY <1>1, <1>2, <1>5, <1>6, <1>8, <1>9, <1>10 DEF LoaderControl, LoaderFields

LEMMA LoaderPreviewDeclined ==
  ASSUME LoaderControl, L!PreviewDeclined
  PROVE  LoaderControl' /\ LoaderStep
<1>1. /\ ui.at = "preview" /\ ~ui.down /\ L!DiscardOnce
      /\ prep' = [prep EXCEPT !.finished = TRUE]
      /\ ui' = [ui EXCEPT !.operation = FALSE, !.at = "form"]
  BY DEF L!PreviewDeclined, L!Open, L!DiscardPreview
<1>2. ui.operation /\ prep.done BY <1>1 DEF LoaderControl, LoaderScreen
<1> QED BY <1>1, <1>2, LoaderDiscardsPreview

(* Leaving the form, and the end of the screen, while the thread runs. *)
LEMMA LoaderLeaves ==
  ASSUME LoaderControl, L!Cancel, ui.operation, ~prep.done, prep.pc # "end",
         \/ ui.at = "form" /\ ui' = [ui EXCEPT !.leave = TRUE]
         \/ ui' = [ui EXCEPT !.down = TRUE]
  PROVE  LoaderControl' /\ LoaderStep
<1>1. /\ LoaderTx' /\ LoaderPrep' /\ LoaderThread' /\ prep'.cancelled /\ prep'.pc = prep.pc
      /\ prep'.preview = prep.preview
      /\ prep.pc = "new" => prep'.done
      /\ tx'.state = "active" => tx.state = "active"
  BY LoaderCancels DEF LoaderControl, LoaderFields
<1>2. /\ tx'.real = tx.real
      /\ tx'.state = tx.state \/ (L!Held /\ tx'.state \in {"closing", "discarded"})
  BY LoaderDiscards DEF L!Cancel, LoaderControl, LoaderFields
<1>3. LoaderUi' BY DEF LoaderControl, LoaderFields, LoaderUi
<1>4. ui'.operation /\ (ui'.leave \/ ui'.down) /\ (ui'.at = "preview" => ui'.down)
  BY DEF LoaderControl, LoaderFields, LoaderUi
<1>5. LoaderReady' BY <1>1 DEF LoaderReady
<1>6. LoaderSource' /\ L!AppliedIsPreviewed'
  BY <1>1, <1>2, <1>4 DEF LoaderControl, LoaderSource, L!AppliedIsPreviewed, L!Held
<1>7. LoaderScreen' BY <1>1, <1>4 DEF LoaderControl, LoaderScreen
<1>8. LoaderStep BY <1>1, <1>2 DEF LoaderStep, LoaderControl, LoaderFields, LoaderTx, L!Held
<1> QED BY <1>1, <1>3, <1>5, <1>6, <1>7, <1>8 DEF LoaderControl, LoaderFields

LEMMA LoaderBack == ASSUME LoaderControl, L!Back PROVE LoaderControl' /\ LoaderStep
<1>1. ui.at = "form" /\ ~ui.down /\ ~ui.leave BY DEF L!Back, L!Open
<1>2. CASE ui.operation /\ ~prep.done
  <2>1. L!Cancel /\ ui' = [ui EXCEPT !.leave = TRUE] BY <1>2 DEF L!Back
  <2>2. prep.pc # "end" BY <1>2 DEF LoaderControl, LoaderScreen
  <2> QED BY <1>1, <1>2, <2>1, <2>2, LoaderLeaves
<1>3. CASE ui.operation /\ prep.done
  <2>1. /\ L!DiscardOnce /\ prep' = [prep EXCEPT !.finished = TRUE]
        /\ ui' = [ui EXCEPT !.operation = FALSE, !.at = "left"]
    BY <1>3 DEF L!Back, L!DiscardPreview
  <2> QED BY <1>1, <1>3, <2>1, LoaderDiscardsPreview
<1>4. CASE ~ui.operation
  <2>1. UNCHANGED <<tx, prep>> /\ ui' = [ui EXCEPT !.operation = FALSE, !.at = "left"]
    BY <1>4 DEF L!Back
  <2> USE <1>1, <1>4, <2>1 DEF LoaderControl, LoaderFields
  <2>a. LoaderFields' BY DEF LoaderTx, LoaderPrep, LoaderUi
  <2>b. LoaderThread' BY DEF LoaderTx, LoaderPrep, LoaderUi, LoaderThread, LoaderScreen
  <2>c. LoaderReady'
    BY DEF LoaderTx, LoaderPrep, LoaderUi, LoaderThread, LoaderScreen, LoaderReady,
       L!Admissible
  <2>d. LoaderSource' /\ L!AppliedIsPreviewed'
    BY DEF LoaderTx, LoaderPrep, LoaderUi, LoaderThread, LoaderScreen, LoaderReady,
       LoaderSource, L!AppliedIsPreviewed, L!Admissible
  <2>e. LoaderScreen'
    BY DEF LoaderTx, LoaderPrep, LoaderUi, LoaderThread, LoaderScreen, LoaderReady
  <2>f. LoaderStep
    BY DEF LoaderTx, LoaderPrep, LoaderUi, LoaderThread, LoaderScreen, LoaderReady,
       LoaderStep
  <2> QED BY <2>a, <2>b, <2>c, <2>d, <2>e, <2>f
<1> QED BY <1>2, <1>3, <1>4 DEF LoaderControl, LoaderFields, LoaderUi, LoaderPrep

LEMMA LoaderUnmount == ASSUME LoaderControl, L!Unmount PROVE LoaderControl' /\ LoaderStep
<1>1. ui.at # "left" /\ ~ui.down /\ ui' = [ui EXCEPT !.down = TRUE] BY DEF L!Unmount, L!Open
<1>2. CASE ui.operation /\ ~prep.done
  <2>1. L!Cancel BY <1>2 DEF L!Unmount
  <2>2. prep.pc # "end" BY <1>2 DEF LoaderControl, LoaderScreen
  <2> QED BY <1>1, <1>2, <2>1, <2>2, LoaderLeaves
<1>3. CASE ui.operation /\ prep.done
  <2>1. L!DiscardOnce /\ prep' = [prep EXCEPT !.finished = TRUE]
    BY <1>3 DEF L!Unmount, L!DiscardPreview
  <2> QED BY <1>1, <1>3, <2>1, LoaderDiscardsPreview
<1>4. CASE ~ui.operation
  <2>1. UNCHANGED <<tx, prep>> BY <1>4 DEF L!Unmount
  <2> USE <1>1, <1>4, <2>1 DEF LoaderControl, LoaderFields
  <2>a. LoaderFields' BY DEF LoaderTx, LoaderPrep, LoaderUi
  <2>b. LoaderThread' BY DEF LoaderTx, LoaderPrep, LoaderUi, LoaderThread, LoaderScreen
  <2>c. LoaderReady'
    BY DEF LoaderTx, LoaderPrep, LoaderUi, LoaderThread, LoaderScreen, LoaderReady,
       L!Admissible
  <2>d. LoaderSource' /\ L!AppliedIsPreviewed'
    BY DEF LoaderTx, LoaderPrep, LoaderUi, LoaderThread, LoaderScreen, LoaderReady,
       LoaderSource, L!AppliedIsPreviewed, L!Admissible
  <2>e. LoaderScreen'
    BY DEF LoaderTx, LoaderPrep, LoaderUi, LoaderThread, LoaderScreen, LoaderReady
  <2>f. LoaderStep
    BY DEF LoaderTx, LoaderPrep, LoaderUi, LoaderThread, LoaderScreen, LoaderReady,
       LoaderStep
  <2> QED BY <2>a, <2>b, <2>c, <2>d, <2>e, <2>f
<1> QED BY <1>2, <1>3, <1>4 DEF LoaderControl, LoaderFields, LoaderUi, LoaderPrep

LEMMA LoaderNext ==
  ASSUME LoaderControl, L!Next PROVE LoaderControl' /\ LoaderStep
BY LoaderRunStart, LoaderRunCreate, LoaderRunCancelled, LoaderRunMigrate, LoaderRunRefresh,
   LoaderRunCheck, LoaderRunFinally, LoaderRunDone, LoaderPrepare, LoaderPoll,
   LoaderPreviewConfirmed, LoaderPreviewDeclined, LoaderBack, LoaderUnmount
   DEF L!Next, L!RunNext, L!ScreenNext

-----------------------------------------------------------------------------
(* The screens of the installed MODs: one worker at a time, the details,   *)
(* the catalog of versions, and the table of the transactions the          *)
(* application keeps.                                                      *)

VersionTx ==
  /\ DOMAIN tx = {"state", "table", "opens"}
  /\ tx.state \in {"none", "active", "discarding", "discarded", "failed", "applied"}
  /\ tx.table \in BOOLEAN

VersionWorker ==
  /\ DOMAIN prep = {"kind", "pc", "cancel", "error", "mine", "ref"}
  /\ prep.kind \in {"none", "provenance", "prepare", "apply"}
  /\ prep.pc \in {"create", "prepare", "finally", "run", "end"}
  /\ prep.cancel \in BOOLEAN /\ prep.error \in BOOLEAN /\ prep.mine \in BOOLEAN
  /\ prep.ref \in BOOLEAN

VersionUi ==
  /\ DOMAIN ui = {"at", "tx", "preview", "discard", "leave", "selection", "catalog", "busy"}
  /\ ui.tx \in BOOLEAN /\ ui.discard \in BOOLEAN /\ ui.leave \in BOOLEAN /\ ui.busy \in BOOLEAN
  /\ ui.selection \in BOOLEAN
  /\ extra \in {"up", "down", "table", "end", "late"}

(* The worker: which steps it may be at, and that a screen that is gone    *)
(* has no worker or has told it to stop.                                   *)
VersionThread ==
  /\ prep.kind = "none" => prep.pc = "end" /\ ~prep.mine /\ ~prep.ref
  /\ prep.kind \in {"provenance", "apply"} => prep.pc \in {"run", "end"}
  /\ prep.kind = "prepare" => prep.pc # "run"
  /\ extra # "up" => ~prep.mine /\ (prep.kind = "none" \/ prep.cancel)
  /\ extra \in {"table", "end"} => prep.pc = "end"

(* The details: when they show a transaction it is open or being           *)
(* discarded, or was just applied by their own worker.                     *)
VersionScreen ==
  /\ prep.mine \/ ui.tx \/ ui.busy => ui.at = "details" /\ extra = "up"
  /\ ui.tx => prep.kind = "none" \/ (prep.mine /\ prep.kind # "provenance")
  /\ ui.discard => ui.tx /\ tx.state \in {"discarding", "discarded", "failed"}
  /\ ui.tx => \/ tx.state \in {"active", "discarding", "discarded", "failed"}
              \/ tx.state = "applied" /\ V!Own("apply") /\ prep.pc = "end" /\ ~prep.error
  /\ V!Own("prepare") => ~ui.discard /\ (ui.tx => prep.pc # "create" /\ tx.state = "active")
  /\ V!Own("prepare") /\ (prep.pc = "prepare" \/ (prep.pc \in {"finally",
     "end"} /\ ~prep.error))
       => ui.tx
  /\ V!Own("apply") /\ prep.pc = "end" /\ ~prep.error => tx.state # "active"

(* An open transaction the details show is in the table, or their worker   *)
(* is just preparing it, or about to look for it.                          *)
VersionKnown ==
  tx.state = "active" =>
    /\ extra = "table" => tx.table
    /\ extra # "end"
    /\ ui.tx /\ prep.kind # "prepare" => tx.table
    /\ prep.kind = "prepare" /\ prep.pc = "create" => tx.table \/ extra = "late"
    /\ prep.kind = "prepare" /\ prep.pc \in {"prepare", "finally"} =>
       tx.table \/ V!Getter \/ extra = "late"

VersionFields == VersionTx /\ VersionWorker /\ VersionUi
VersionControl ==
  VersionFields /\ VersionThread /\ VersionScreen /\ VersionKnown /\ V!NothingForgotten

(* What a step may do to the transaction and to the source of the Pack. *)
VersionStep ==
  \/ UNCHANGED tx.state
  \/ ~V!Held /\ tx'.state = "active"
  \/ tx.state = "active" /\ tx'.state = "applied"
  \/ V!Held /\ tx'.state \in {"discarding", "failed", "discarded"}

(* The invariant holds at first. *)
LEMMA VersionInitially == V!Init => VersionControl
BY DEF V!Init, V!NoWorker, V!NoCatalog, V!Screen, VersionControl, VersionFields, VersionTx,
   VersionWorker, VersionUi, VersionThread, VersionScreen, VersionKnown, V!NothingForgotten,
   V!Own

LEMMA VersionOrphans ==
  ASSUME VersionWorker, VersionUi, prep' = V!Orphaned(prep)
  PROVE  /\ VersionWorker' /\ ~prep'.mine /\ prep'.kind = prep.kind /\ prep'.pc = prep.pc
         /\ prep'.cancel = prep.cancel /\ prep'.error = prep.error
         /\ prep.mine => prep'.ref = ui.tx
         /\ ~prep.mine => prep'.ref = prep.ref
<1>1. CASE prep.mine
  <2>1. prep' = [prep EXCEPT !.mine = FALSE, !.ref = ui.tx] BY <1>1 DEF V!Orphaned
  <2> QED BY <1>1, <2>1 DEF VersionWorker, VersionUi
<1>2. CASE ~prep.mine
  <2>1. prep' = [prep EXCEPT !.mine = FALSE, !.ref = prep.ref] BY <1>2 DEF V!Orphaned
  <2> QED BY <1>2, <2>1 DEF VersionWorker, VersionUi
<1> QED BY <1>1, <1>2 DEF VersionWorker

(* Every action keeps the invariant. *)
LEMMA VersionProvenanceRuns ==
  ASSUME VersionControl, V!ProvenanceRuns
  PROVE  VersionControl' /\ VersionStep
<1>1. UNCHANGED <<tx, work, ui, extra>> /\ prep.kind = "provenance"
  BY DEF V!ProvenanceRuns
<1>2. \E error \in BOOLEAN : prep' = [prep EXCEPT !.pc = "end", !.error = error]
  BY DEF V!ProvenanceRuns, V!Ends
<1> QED
  BY <1>1, <1>2 DEF VersionControl, VersionFields, V!Held, V!Own, V!Getter, VersionTx,
     VersionWorker, VersionUi, VersionThread, VersionScreen, VersionKnown,
     V!NothingForgotten, VersionStep

LEMMA VersionPrepareCreates ==
  ASSUME VersionControl, V!PrepareCreates
  PROVE  VersionControl' /\ VersionStep
<1>1. UNCHANGED <<work, extra>> /\ prep.kind = "prepare" /\ prep.pc = "create"
  BY DEF V!PrepareCreates
<1>2. CASE UNCHANGED <<tx, ui>> /\ prep' = [prep EXCEPT !.pc = "finally", !.error = TRUE]
  BY <1>1, <1>2 DEF VersionControl, VersionFields, V!Held, V!Own, V!Getter, VersionTx,
     VersionWorker, VersionUi, VersionThread, VersionScreen, VersionKnown,
     V!NothingForgotten, VersionStep
<1>3. CASE /\ ~prep.cancel /\ ~V!Held
           /\ tx' = [tx EXCEPT !.state = "active", !.table = FALSE]
           /\ prep' = [prep EXCEPT !.pc = "prepare", !.ref = TRUE]
           /\ ui' = [ui EXCEPT !.tx = prep.mine]
  BY <1>1, <1>3 DEF VersionControl, VersionFields, V!Held, V!Own, V!Getter, VersionTx,
     VersionWorker, VersionUi, VersionThread, VersionScreen, VersionKnown,
     V!NothingForgotten, VersionStep
<1> QED BY <1>2, <1>3 DEF V!PrepareCreates

LEMMA VersionPrepares ==
  ASSUME VersionControl, V!Prepares
  PROVE  VersionControl' /\ VersionStep
<1>1. UNCHANGED <<tx, work, ui, extra>> /\ prep.kind = "prepare" /\ prep.pc = "prepare"
  BY DEF V!Prepares
<1>2. CASE ~prep.cancel /\ prep' = [prep EXCEPT !.pc = "finally"]
  BY <1>1, <1>2 DEF VersionControl, VersionFields, V!Held, V!Own, V!Getter, VersionTx,
     VersionWorker, VersionUi, VersionThread, VersionScreen, VersionKnown,
     V!NothingForgotten, VersionStep
<1>3. CASE prep' = [prep EXCEPT !.pc = "finally", !.error = TRUE]
  BY <1>1, <1>3 DEF VersionControl, VersionFields, V!Held, V!Own, V!Getter, VersionTx,
     VersionWorker, VersionUi, VersionThread, VersionScreen, VersionKnown,
     V!NothingForgotten, VersionStep
<1> QED BY <1>2, <1>3 DEF V!Prepares

LEMMA VersionPrepareFinally ==
  ASSUME VersionControl, V!PrepareFinally
  PROVE  VersionControl' /\ VersionStep
BY DEF V!PrepareFinally, VersionControl, VersionFields, V!Fault, V!NoFault, V!NoWorker,
   V!NoCatalog, V!Screen, V!Held, V!Own, V!Up, V!Details, V!Getter, V!Ends, V!Discarded,
   V!DiscardFails, V!Applies, V!Orphaned, V!Mount, V!Started, V!Free, V!BeginDiscard,
   V!Waits, V!Browser, VersionTx, VersionWorker, VersionUi, VersionThread, VersionScreen,
   VersionKnown, V!NothingForgotten, VersionStep

LEMMA VersionApplyRuns ==
  ASSUME VersionControl, V!ApplyRuns
  PROVE  VersionControl' /\ VersionStep
<1>1. UNCHANGED <<work, ui, extra>> /\ prep.kind = "apply" /\ prep.pc = "run"
  BY DEF V!ApplyRuns
<1>2. CASE /\ tx.state = "active" /\ tx' = [tx EXCEPT !.state = "applied"]
           /\ prep' = [prep EXCEPT !.pc = "end", !.error = FALSE]
  BY <1>1, <1>2 DEF VersionControl, VersionFields, V!Held, V!Own, V!Getter, VersionTx,
     VersionWorker, VersionUi, VersionThread, VersionScreen, VersionKnown,
     V!NothingForgotten, VersionStep
<1>3. CASE UNCHANGED tx /\ prep' = [prep EXCEPT !.pc = "end", !.error = TRUE]
  BY <1>1, <1>3 DEF VersionControl, VersionFields, V!Held, V!Own, V!Getter, VersionTx,
     VersionWorker, VersionUi, VersionThread, VersionScreen, VersionKnown,
     V!NothingForgotten, VersionStep
<1> QED BY <1>2, <1>3 DEF V!ApplyRuns, V!Applies, V!Ends

LEMMA VersionDiscardRuns ==
  ASSUME VersionControl, V!DiscardRuns
  PROVE  VersionControl' /\ VersionStep
BY DEF V!DiscardRuns, VersionControl, VersionFields, V!Fault, V!NoFault, V!NoWorker,
   V!NoCatalog, V!Screen, V!Held, V!Own, V!Up, V!Details, V!Getter, V!Ends, V!Discarded,
   V!DiscardFails, V!Applies, V!Orphaned, V!Mount, V!Started, V!Free, V!BeginDiscard,
   V!Waits, V!Browser, VersionTx, VersionWorker, VersionUi, VersionThread, VersionScreen,
   VersionKnown, V!NothingForgotten, VersionStep

LEMMA VersionLoadRuns ==
  ASSUME VersionControl, V!LoadRuns
  PROVE  VersionControl' /\ VersionStep
BY DEF V!LoadRuns, VersionControl, VersionFields, V!Fault, V!NoFault, V!NoWorker,
   V!NoCatalog, V!Screen, V!Held, V!Own, V!Up, V!Details, V!Getter, V!Ends, V!Discarded,
   V!DiscardFails, V!Applies, V!Orphaned, V!Mount, V!Started, V!Free, V!BeginDiscard,
   V!Waits, V!Browser, VersionTx, VersionWorker, VersionUi, VersionThread, VersionScreen,
   VersionKnown, V!NothingForgotten, VersionStep

LEMMA VersionPollProvenance ==
  ASSUME VersionControl, V!PollProvenance
  PROVE  VersionControl' /\ VersionStep
<1> USE DEF VersionControl, VersionFields
<1>1. extra = "up" /\ ~ui.busy /\ ui.at = "details" /\ prep.kind = "provenance" /\ prep.mine
    /\ prep.pc = "end" /\ ui' = [ui EXCEPT !.busy = TRUE, !.selection = FALSE]
    /\ UNCHANGED <<work, extra, faults>>
  BY DEF V!PollProvenance, V!Details, V!Up, V!Browser, V!Own, VersionScreen
<1>2. CASE prep' = V!Started("prepare", "create") /\ tx' = [tx EXCEPT !.opens = @ + 1]
  BY <1>1, <1>2 DEF V!NoWorker, V!Screen, V!Held, V!Own, V!Getter, V!Started, VersionTx,
     VersionWorker, VersionUi, VersionThread, VersionScreen, VersionKnown,
     V!NothingForgotten, VersionStep
<1>3. CASE prep' = V!NoWorker /\ UNCHANGED tx
  BY <1>1, <1>3 DEF V!NoWorker, V!Screen, V!Held, V!Own, V!Getter, V!Started, VersionTx,
     VersionWorker, VersionUi, VersionThread, VersionScreen, VersionKnown,
     V!NothingForgotten, VersionStep
<1> QED
  BY <1>1, <1>2, <1>3 DEF V!PollProvenance, V!BeginDiscard, V!Waits, V!Own, VersionTx,
     VersionUi, VersionWorker, VersionScreen

LEMMA VersionProvenancePolled ==
  ASSUME VersionControl, V!ProvenancePolled
  PROVE  VersionControl' /\ VersionStep
<1> USE DEF VersionControl, VersionFields
<1>1. extra = "up" /\ ui.busy /\ UNCHANGED <<tx, work, extra, faults>>
  BY DEF V!ProvenancePolled, V!Details, V!Up, V!Browser, V!Own, VersionScreen
<1>2. CASE ~ui.tx /\ ui' = V!Screen("list") /\ prep' = V!Orphaned(prep)
  <2>9. /\ VersionWorker' /\ ~prep'.mine /\ prep'.kind = prep.kind /\ prep'.pc = prep.pc
        /\ prep'.cancel = prep.cancel /\ prep'.error = prep.error
        /\ prep.mine => prep'.ref = ui.tx
        /\ ~prep.mine => prep'.ref = prep.ref
    BY <1>2, VersionOrphans
  <2> QED
    BY <1>1, <1>2, <2>9 DEF V!NoWorker, V!Screen, V!Held, V!Own, V!Getter, V!Started,
       VersionTx, VersionWorker, VersionUi, VersionThread, VersionScreen, VersionKnown,
       V!NothingForgotten, VersionStep
<1>3. CASE ui' = [ui EXCEPT !.busy = FALSE] /\ UNCHANGED prep
  BY <1>1, <1>3 DEF V!NoWorker, V!Screen, V!Held, V!Own, V!Getter, V!Started, VersionTx,
     VersionWorker, VersionUi, VersionThread, VersionScreen, VersionKnown,
     V!NothingForgotten, VersionStep
<1> QED
  BY <1>1, <1>2, <1>3 DEF V!ProvenancePolled, V!BeginDiscard, V!Waits, V!Own, VersionTx,
     VersionUi, VersionWorker, VersionScreen

LEMMA VersionPollPrepare ==
  ASSUME VersionControl, V!PollPrepare
  PROVE  VersionControl' /\ VersionStep
<1> USE DEF VersionControl, VersionFields
<1>1. extra = "up" /\ ~ui.busy /\ ui.at = "details" /\ prep.kind = "prepare" /\ prep.mine
    /\ prep.pc = "end" /\ prep' = V!NoWorker /\ UNCHANGED <<work, extra, faults>>
  BY DEF V!PollPrepare, V!Details, V!Up, V!Browser, V!Own, VersionScreen
<1>2. CASE ~ui.tx /\ UNCHANGED tx /\ ui' = V!Screen("list")
  BY <1>1, <1>2 DEF V!NoWorker, V!Screen, V!Held, V!Own, V!Getter, V!Started, VersionTx,
     VersionWorker, VersionUi, VersionThread, VersionScreen, VersionKnown,
     V!NothingForgotten, VersionStep
<1>3. CASE ~ui.tx /\ UNCHANGED <<tx, ui>>
  BY <1>1, <1>3 DEF V!NoWorker, V!Screen, V!Held, V!Own, V!Getter, V!Started, VersionTx,
     VersionWorker, VersionUi, VersionThread, VersionScreen, VersionKnown,
     V!NothingForgotten, VersionStep
<1>4. CASE ui.tx /\ tx' = [tx EXCEPT !.table = tx.table \/ (ui.tx
    /\ tx.state = "active"), !.state = "discarding"] /\ ui' = [ui EXCEPT !.discard = TRUE]
  <2> USE <1>1, <1>4 DEF V!NoWorker, V!Screen, V!Held, V!Own, V!Getter, V!Started
  <2>1. VersionTx' BY DEF VersionTx
  <2>2. VersionWorker' BY DEF VersionWorker
  <2>3. VersionUi' BY DEF VersionUi
  <2>4. VersionThread' /\ VersionScreen' /\ VersionKnown' /\ V!NothingForgotten'
    BY DEF VersionTx, VersionWorker, VersionUi, VersionThread, VersionScreen, VersionKnown,
       V!NothingForgotten
  <2>8. VersionStep
    BY DEF VersionTx, VersionWorker, VersionUi, VersionThread, VersionScreen, VersionStep
  <2> QED BY <2>1, <2>2, <2>3, <2>4, <2>8
<1>5. CASE ui.tx /\ tx' = [tx EXCEPT !.table = tx.table \/ (ui.tx /\ tx.state = "active")]
    /\ ui' = [ui EXCEPT !.preview = TRUE]
  BY <1>1, <1>5 DEF V!NoWorker, V!Screen, V!Held, V!Own, V!Getter, V!Started, VersionTx,
     VersionWorker, VersionUi, VersionThread, VersionScreen, VersionKnown,
     V!NothingForgotten, VersionStep
<1> QED
  BY <1>1, <1>2, <1>3, <1>4, <1>5 DEF V!PollPrepare, V!BeginDiscard, V!Waits, V!Own,
     VersionTx, VersionUi, VersionWorker, VersionScreen

LEMMA VersionPollApply ==
  ASSUME VersionControl, V!PollApply
  PROVE  VersionControl' /\ VersionStep
<1> USE DEF VersionControl, VersionFields
<1>1. extra = "up" /\ ~ui.busy /\ ui.at = "details" /\ prep.kind = "apply" /\ prep.mine
    /\ prep.pc = "end" /\ prep' = V!NoWorker /\ UNCHANGED <<work, extra, faults>>
  BY DEF V!PollApply, V!Details, V!Up, V!Browser, V!Own, VersionScreen
<1>2. CASE ~ui.tx /\ prep.error /\ UNCHANGED tx /\ ui' = V!Screen("list")
  BY <1>1, <1>2 DEF V!NoWorker, V!Screen, V!Held, V!Own, V!Getter, V!Started, VersionTx,
     VersionWorker, VersionUi, VersionThread, VersionScreen, VersionKnown,
     V!NothingForgotten, VersionStep
<1>3. CASE prep.error /\ (ui.discard \/ ~ui.tx) /\ UNCHANGED tx
    /\ ui' = [ui EXCEPT !.preview = FALSE]
  BY <1>1, <1>3 DEF V!NoWorker, V!Screen, V!Held, V!Own, V!Getter, V!Started, VersionTx,
     VersionWorker, VersionUi, VersionThread, VersionScreen, VersionKnown,
     V!NothingForgotten, VersionStep
<1>4. CASE prep.error /\ ui.tx /\ tx.state = "discarded"
    /\ tx' = [tx EXCEPT !.state = tx.state]
    /\ ui' = [ui EXCEPT !.preview = FALSE, !.discard = TRUE]
  BY <1>1, <1>4 DEF V!NoWorker, V!Screen, V!Held, V!Own, V!Getter, V!Started, VersionTx,
     VersionWorker, VersionUi, VersionThread, VersionScreen, VersionKnown,
     V!NothingForgotten, VersionStep
<1>5. CASE prep.error /\ ui.tx /\ tx.state # "discarded"
    /\ tx' = [tx EXCEPT !.state = "discarding"]
    /\ ui' = [ui EXCEPT !.preview = FALSE, !.discard = TRUE]
  BY <1>1, <1>5 DEF V!NoWorker, V!Screen, V!Held, V!Own, V!Getter, V!Started, VersionTx,
     VersionWorker, VersionUi, VersionThread, VersionScreen, VersionKnown,
     V!NothingForgotten, VersionStep
<1>6. CASE ~prep.error /\ tx' = [tx EXCEPT !.table = FALSE] /\ ui' = V!Screen("list")
  BY <1>1, <1>6 DEF V!NoWorker, V!Screen, V!Held, V!Own, V!Getter, V!Started, VersionTx,
     VersionWorker, VersionUi, VersionThread, VersionScreen, VersionKnown,
     V!NothingForgotten, VersionStep
<1> QED
  BY <1>1, <1>2, <1>3, <1>4, <1>5, <1>6 DEF V!PollApply, V!BeginDiscard, V!Waits, V!Own,
     VersionTx, VersionUi, VersionWorker, VersionScreen

LEMMA VersionPollDiscard ==
  ASSUME VersionControl, V!PollDiscard
  PROVE  VersionControl' /\ VersionStep
<1> USE DEF VersionControl, VersionFields
<1>1. extra = "up" /\ ~ui.busy /\ ui.at = "details" /\ ui.discard /\ ui.tx
    /\ UNCHANGED <<work, extra, faults>>
  BY DEF V!PollDiscard, V!Details, V!Up, V!Browser, V!Own, VersionScreen
<1>2. CASE tx.state = "failed" /\ UNCHANGED <<tx, prep>>
    /\ ui' = [ui EXCEPT !.discard = FALSE]
  <2> USE <1>1, <1>2 DEF V!NoWorker, V!Screen, V!Held, V!Own, V!Getter, V!Started
  <2>1. VersionTx' BY DEF VersionTx
  <2>2. VersionWorker' BY DEF VersionWorker
  <2>3. VersionUi' BY DEF VersionUi
  <2>4. VersionThread' /\ VersionScreen' /\ VersionKnown' /\ V!NothingForgotten'
    BY DEF VersionTx, VersionWorker, VersionUi, VersionThread, VersionScreen, VersionKnown,
       V!NothingForgotten
  <2>8. VersionStep
    BY DEF VersionTx, VersionWorker, VersionUi, VersionThread, VersionScreen, VersionStep
  <2> QED BY <2>1, <2>2, <2>3, <2>4, <2>8
<1>3. CASE tx.state = "discarded" /\ tx' = [tx EXCEPT !.table = FALSE]
    /\ ui' = V!Screen("list") /\ prep' = V!Orphaned(prep)
  <2>9. /\ VersionWorker' /\ ~prep'.mine /\ prep'.kind = prep.kind /\ prep'.pc = prep.pc
        /\ prep'.cancel = prep.cancel /\ prep'.error = prep.error
        /\ prep.mine => prep'.ref = ui.tx
        /\ ~prep.mine => prep'.ref = prep.ref
    BY <1>3, VersionOrphans
  <2> QED
    BY <1>1, <1>3, <2>9 DEF V!NoWorker, V!Screen, V!Held, V!Own, V!Getter, V!Started,
       VersionTx, VersionWorker, VersionUi, VersionThread, VersionScreen, VersionKnown,
       V!NothingForgotten, VersionStep
<1>4. CASE tx.state = "discarded" /\ tx' = [tx EXCEPT !.table = FALSE]
    /\ ui' = [ui EXCEPT !.discard = FALSE, !.tx = FALSE, !.preview = FALSE]
    /\ UNCHANGED prep
  BY <1>1, <1>4 DEF V!NoWorker, V!Screen, V!Held, V!Own, V!Getter, V!Started, VersionTx,
     VersionWorker, VersionUi, VersionThread, VersionScreen, VersionKnown,
     V!NothingForgotten, VersionStep
<1> QED
  BY <1>1, <1>2, <1>3, <1>4 DEF V!PollDiscard, V!BeginDiscard, V!Waits, V!Own, VersionTx,
     VersionUi, VersionWorker, VersionScreen

LEMMA VersionPollLoad ==
  ASSUME VersionControl, V!PollLoad
  PROVE  VersionControl' /\ VersionStep
<1> USE DEF VersionControl, VersionFields
<1>1. extra = "up" /\ ~ui.busy /\ ui.at = "browser" /\ UNCHANGED <<tx, extra, faults>>
  BY DEF V!PollLoad, V!Details, V!Up, V!Browser, V!Own, VersionScreen
<1>2. CASE prep.kind = "none" /\ ui' = V!Screen("details")
    /\ prep' = V!Started("provenance", "run")
  BY <1>1, <1>2 DEF V!NoWorker, V!Screen, V!Held, V!Own, V!Getter, V!Started, VersionTx,
     VersionWorker, VersionUi, VersionThread, VersionScreen, VersionKnown,
     V!NothingForgotten, VersionStep
<1>3. CASE prep.kind # "none" /\ ui' = V!Screen("details") /\ UNCHANGED prep
  BY <1>1, <1>3 DEF V!NoWorker, V!Screen, V!Held, V!Own, V!Getter, V!Started, VersionTx,
     VersionWorker, VersionUi, VersionThread, VersionScreen, VersionKnown,
     V!NothingForgotten, VersionStep
<1>4. CASE ui' = [ui EXCEPT !.catalog = ~work.error] /\ UNCHANGED prep
  BY <1>1, <1>4 DEF V!NoWorker, V!Screen, V!Held, V!Own, V!Getter, V!Started, VersionTx,
     VersionWorker, VersionUi, VersionThread, VersionScreen, VersionKnown,
     V!NothingForgotten, VersionStep
<1> QED
  BY <1>1, <1>2, <1>3, <1>4 DEF V!PollLoad, V!BeginDiscard, V!Waits, V!Own, VersionTx,
     VersionUi, VersionWorker, VersionScreen

LEMMA VersionOpenDetails ==
  ASSUME VersionControl, V!OpenDetails
  PROVE  VersionControl' /\ VersionStep
<1> USE DEF V!OpenDetails, VersionControl, VersionFields, V!Fault, V!NoFault, V!NoWorker,
    V!NoCatalog, V!Screen, V!Held, V!Own, V!Up, V!Details, V!Getter, V!Ends, V!Discarded,
    V!DiscardFails, V!Applies, V!Orphaned, V!Mount, V!Started, V!Free, V!BeginDiscard,
    V!Waits, V!Browser
<1>1. VersionTx' BY DEF VersionTx
<1>2. VersionWorker' BY DEF VersionWorker, VersionUi
<1>3. VersionUi' BY DEF VersionWorker, VersionUi
<1>4. VersionThread' /\ VersionScreen' /\ VersionKnown' /\ V!NothingForgotten'
  BY DEF VersionTx, VersionWorker, VersionUi, VersionThread, VersionScreen, VersionKnown,
     V!NothingForgotten
<1>8. VersionStep
  BY DEF VersionTx, VersionWorker, VersionUi, VersionThread, VersionScreen, VersionStep
<1>9. QED BY <1>1, <1>2, <1>3, <1>4, <1>8

LEMMA VersionStartPrepare ==
  ASSUME VersionControl, V!StartPrepare
  PROVE  VersionControl' /\ VersionStep
BY DEF V!StartPrepare, VersionControl, VersionFields, V!Fault, V!NoFault, V!NoWorker,
   V!NoCatalog, V!Screen, V!Held, V!Own, V!Up, V!Details, V!Getter, V!Ends, V!Discarded,
   V!DiscardFails, V!Applies, V!Orphaned, V!Mount, V!Started, V!Free, V!BeginDiscard,
   V!Waits, V!Browser, VersionTx, VersionWorker, VersionUi, VersionThread, VersionScreen,
   VersionKnown, V!NothingForgotten, VersionStep

LEMMA VersionApplyPreview ==
  ASSUME VersionControl, V!ApplyPreview
  PROVE  VersionControl' /\ VersionStep
<1> USE DEF V!ApplyPreview, VersionControl, VersionFields, V!Fault, V!NoFault, V!NoWorker,
    V!NoCatalog, V!Screen, V!Held, V!Own, V!Up, V!Details, V!Getter, V!Ends, V!Discarded,
    V!DiscardFails, V!Applies, V!Orphaned, V!Mount, V!Started, V!Free, V!BeginDiscard,
    V!Waits, V!Browser
<1>1. VersionTx' BY DEF VersionTx
<1>2. VersionWorker' BY DEF VersionWorker, VersionUi
<1>3. VersionUi' BY DEF VersionWorker, VersionUi
<1>4. VersionThread' /\ VersionScreen' /\ VersionKnown' /\ V!NothingForgotten'
  BY DEF VersionTx, VersionWorker, VersionUi, VersionThread, VersionScreen, VersionKnown,
     V!NothingForgotten
<1>8. VersionStep
  BY DEF VersionTx, VersionWorker, VersionUi, VersionThread, VersionScreen, VersionStep
<1>9. QED BY <1>1, <1>2, <1>3, <1>4, <1>8

LEMMA VersionCancelAndNavigate ==
  ASSUME VersionControl, V!CancelAndNavigate
  PROVE  VersionControl' /\ VersionStep
<1> USE DEF VersionControl, VersionFields
<1>1. extra = "up" /\ ~ui.busy /\ ui.at = "details" /\ UNCHANGED <<work, extra, faults>>
  BY DEF V!CancelAndNavigate, V!Details, V!Up, V!Browser, V!Own, VersionScreen
<1>2. CASE prep' = [prep EXCEPT !.cancel = TRUE] /\ ui' = [ui EXCEPT !.leave = TRUE]
    /\ UNCHANGED tx
  BY <1>1, <1>2 DEF V!NoWorker, V!Screen, V!Held, V!Own, V!Getter, V!Started, VersionTx,
     VersionWorker, VersionUi, VersionThread, VersionScreen, VersionKnown,
     V!NothingForgotten, VersionStep
<1>3. CASE UNCHANGED <<tx, prep>> /\ ui' = [ui EXCEPT !.leave = TRUE]
  BY <1>1, <1>3 DEF V!NoWorker, V!Screen, V!Held, V!Own, V!Getter, V!Started, VersionTx,
     VersionWorker, VersionUi, VersionThread, VersionScreen, VersionKnown,
     V!NothingForgotten, VersionStep
<1>4. CASE ~ui.tx /\ UNCHANGED tx /\ ui' = V!Screen("list") /\ prep' = V!Orphaned(prep)
  <2>9. /\ VersionWorker' /\ ~prep'.mine /\ prep'.kind = prep.kind /\ prep'.pc = prep.pc
        /\ prep'.cancel = prep.cancel /\ prep'.error = prep.error
        /\ prep.mine => prep'.ref = ui.tx
        /\ ~prep.mine => prep'.ref = prep.ref
    BY <1>4, VersionOrphans
  <2> QED
    BY <1>1, <1>4, <2>9 DEF V!NoWorker, V!Screen, V!Held, V!Own, V!Getter, V!Started,
       VersionTx, VersionWorker, VersionUi, VersionThread, VersionScreen, VersionKnown,
       V!NothingForgotten, VersionStep
<1>5. CASE ~V!Own("apply") /\ ~V!Own("prepare") /\ ui.tx /\ tx.state = "discarded"
    /\ UNCHANGED prep /\ tx' = [tx EXCEPT !.state = tx.state]
    /\ ui' = [ui EXCEPT !.discard = TRUE, !.leave = TRUE]
  <2> USE <1>1, <1>5 DEF V!NoWorker, V!Screen, V!Held, V!Own, V!Getter, V!Started
  <2>1. VersionTx' BY DEF VersionTx
  <2>2. VersionWorker' BY DEF VersionWorker
  <2>3. VersionUi' BY DEF VersionUi
  <2>4. VersionThread' /\ VersionScreen' /\ VersionKnown' /\ V!NothingForgotten'
    BY DEF VersionTx, VersionWorker, VersionUi, VersionThread, VersionScreen, VersionKnown,
       V!NothingForgotten
  <2>8. VersionStep
    BY DEF VersionTx, VersionWorker, VersionUi, VersionThread, VersionScreen, VersionStep
  <2> QED BY <2>1, <2>2, <2>3, <2>4, <2>8
<1>6. CASE ~V!Own("apply") /\ ~V!Own("prepare") /\ ui.tx /\ tx.state # "discarded"
    /\ UNCHANGED prep /\ tx' = [tx EXCEPT !.state = "discarding"]
    /\ ui' = [ui EXCEPT !.discard = TRUE, !.leave = TRUE]
  <2> USE <1>1, <1>6 DEF V!NoWorker, V!Screen, V!Held, V!Own, V!Getter, V!Started
  <2>1. VersionTx' BY DEF VersionTx
  <2>2. VersionWorker' BY DEF VersionWorker
  <2>3. VersionUi' BY DEF VersionUi
  <2>4. VersionThread' /\ VersionScreen' /\ VersionKnown' /\ V!NothingForgotten'
    BY DEF VersionTx, VersionWorker, VersionUi, VersionThread, VersionScreen, VersionKnown,
       V!NothingForgotten
  <2>8. VersionStep
    BY DEF VersionTx, VersionWorker, VersionUi, VersionThread, VersionScreen, VersionStep
  <2> QED BY <2>1, <2>2, <2>3, <2>4, <2>8
<1>7. CASE V!Waits
  BY <1>1, <1>2, <1>7 DEF V!CancelAndNavigate
<1>8. CASE ~V!Waits
  <2>1. /\ V!BeginDiscard(TRUE) /\ ~V!Own("apply") /\ ~V!Own("prepare")
        /\ prep' = IF ui'.at = "details" THEN prep ELSE V!Orphaned(prep)
    BY <1>8 DEF V!CancelAndNavigate, V!Waits
  <2>2. CASE ui.discard
    <3>1. ui' = [ui EXCEPT !.leave = TRUE] /\ UNCHANGED tx
      BY <2>1, <2>2 DEF V!BeginDiscard
    <3>2. ui'.at = "details" BY <1>1, <3>1 DEF VersionUi
    <3> QED BY <1>3, <2>1, <3>1, <3>2
  <2>3. CASE ~ui.discard /\ ~ui.tx
    <3>1. ui' = V!Screen("list") /\ UNCHANGED tx
      BY <2>1, <2>3 DEF V!BeginDiscard
    <3>2. ui'.at # "details" BY <3>1 DEF V!Screen
    <3> QED BY <1>4, <2>1, <2>3, <3>1, <3>2
  <2>4. CASE ~ui.discard /\ ui.tx
    <3>1. /\ ui' = [ui EXCEPT !.discard = TRUE, !.leave = TRUE]
          /\ \/ tx.state = "discarded" /\ tx' = [tx EXCEPT !.state = tx.state]
             \/ tx.state # "discarded" /\ tx' = [tx EXCEPT !.state = "discarding"]
      BY <2>1, <2>4 DEF V!BeginDiscard
    <3>2. ui'.at = "details" BY <1>1, <3>1 DEF VersionUi
    <3> QED BY <1>5, <1>6, <2>1, <2>4, <3>1, <3>2
  <2> QED BY <2>2, <2>3, <2>4
<1> QED BY <1>7, <1>8

LEMMA VersionBrowseVersions ==
  ASSUME VersionControl, V!BrowseVersions
  PROVE  VersionControl' /\ VersionStep
BY DEF V!BrowseVersions, VersionControl, VersionFields, V!Fault, V!NoFault, V!NoWorker,
   V!NoCatalog, V!Screen, V!Held, V!Own, V!Up, V!Details, V!Getter, V!Ends, V!Discarded,
   V!DiscardFails, V!Applies, V!Orphaned, V!Mount, V!Started, V!Free, V!BeginDiscard,
   V!Waits, V!Browser, VersionTx, VersionWorker, VersionUi, VersionThread, VersionScreen,
   VersionKnown, V!NothingForgotten, VersionStep

LEMMA VersionReload == ASSUME VersionControl, V!Reload PROVE VersionControl' /\ VersionStep
BY DEF V!Reload, VersionControl, VersionFields, V!Fault, V!NoFault, V!NoWorker, V!NoCatalog,
   V!Screen, V!Held, V!Own, V!Up, V!Details, V!Getter, V!Ends, V!Discarded, V!DiscardFails,
   V!Applies, V!Orphaned, V!Mount, V!Started, V!Free, V!BeginDiscard, V!Waits, V!Browser,
   VersionTx, VersionWorker, VersionUi, VersionThread, VersionScreen, VersionKnown,
   V!NothingForgotten, VersionStep

LEMMA VersionBrowserBack ==
  ASSUME VersionControl, V!BrowserBack
  PROVE  VersionControl' /\ VersionStep
<1>1. UNCHANGED <<tx, extra>> /\ ui.at = "browser" /\ extra = "up" /\ ~ui.busy
  BY DEF V!BrowserBack, V!Browser, V!Up
<1>2. CASE UNCHANGED prep /\ ui' = [ui EXCEPT !.leave = TRUE]
  BY <1>1, <1>2 DEF VersionControl, VersionFields, V!Held, V!Own, V!Getter, VersionTx,
     VersionWorker, VersionUi, VersionThread, VersionScreen, VersionKnown,
     V!NothingForgotten, VersionStep
<1>3. CASE V!Mount(FALSE)
  <2> DEFINE shown == [V!Screen("details") EXCEPT !.selection = FALSE]
  <2>1. ui' = shown BY <1>3 DEF V!Mount
  <2>2. /\ VersionUi' /\ ui'.at = "details" /\ ~ui'.tx /\ ~ui'.discard /\ ~ui'.busy
        /\ ~ui.tx /\ ~prep.mine
    BY <1>1, <2>1 DEF V!Screen, VersionControl, VersionFields, VersionUi, VersionScreen
  <2>3. CASE prep.kind = "none"
      /\ prep' = [V!NoWorker EXCEPT !.kind = "provenance", !.pc = "run", !.mine = TRUE]
    BY <1>1, <2>2, <2>3 DEF VersionControl, VersionFields, V!Held, V!Own, V!Getter,
       V!NoWorker, VersionTx, VersionWorker, VersionUi, VersionThread, VersionScreen,
       VersionKnown, V!NothingForgotten, VersionStep
  <2>4. CASE prep' = V!Orphaned(prep)
    <3>1. /\ VersionWorker' /\ ~prep'.mine /\ prep'.kind = prep.kind /\ prep'.pc = prep.pc
          /\ prep'.cancel = prep.cancel /\ prep'.error = prep.error /\ prep'.ref = prep.ref
      BY <2>2, <2>4, VersionOrphans DEF VersionControl, VersionFields
    <3> QED
      BY <1>1, <2>2, <3>1 DEF VersionControl, VersionFields, V!Held, V!Own, V!Getter,
         VersionTx, VersionWorker, VersionUi, VersionThread, VersionScreen, VersionKnown,
         V!NothingForgotten, VersionStep
  <2> QED BY <1>3, <2>3, <2>4 DEF V!Mount
<1> QED BY <1>2, <1>3 DEF V!BrowserBack

LEMMA VersionSelectVersion ==
  ASSUME VersionControl, V!SelectVersion
  PROVE  VersionControl' /\ VersionStep
<1> USE DEF V!SelectVersion, VersionControl, VersionFields, V!Fault, V!NoFault, V!NoWorker,
    V!NoCatalog, V!Screen, V!Held, V!Own, V!Up, V!Details, V!Getter, V!Ends, V!Discarded,
    V!DiscardFails, V!Applies, V!Orphaned, V!Mount, V!Started, V!Free, V!BeginDiscard,
    V!Waits, V!Browser
<1>1. VersionTx' BY DEF VersionTx
<1>2. VersionWorker' BY DEF VersionWorker, VersionUi
<1>3. VersionUi' BY DEF VersionWorker, VersionUi
<1>4. VersionThread' /\ VersionScreen' /\ VersionKnown' /\ V!NothingForgotten'
  BY DEF VersionTx, VersionWorker, VersionUi, VersionThread, VersionScreen, VersionKnown,
     V!NothingForgotten
<1>8. VersionStep
  BY DEF VersionTx, VersionWorker, VersionUi, VersionThread, VersionScreen, VersionStep
<1>9. QED BY <1>1, <1>2, <1>3, <1>4, <1>8

LEMMA VersionOpenInstall ==
  ASSUME VersionControl, V!OpenInstall
  PROVE  VersionControl' /\ VersionStep
BY DEF V!OpenInstall, VersionControl, VersionFields, V!Fault, V!NoFault, V!NoWorker,
   V!NoCatalog, V!Screen, V!Held, V!Own, V!Up, V!Details, V!Getter, V!Ends, V!Discarded,
   V!DiscardFails, V!Applies, V!Orphaned, V!Mount, V!Started, V!Free, V!BeginDiscard,
   V!Waits, V!Browser, VersionTx, VersionWorker, VersionUi, VersionThread, VersionScreen,
   VersionKnown, V!NothingForgotten, VersionStep

LEMMA VersionInstallStages ==
  ASSUME VersionControl, V!InstallStages
  PROVE  VersionControl' /\ VersionStep
BY DEF V!InstallStages, VersionControl, VersionFields, V!Fault, V!NoFault, V!NoWorker,
   V!NoCatalog, V!Screen, V!Held, V!Own, V!Up, V!Details, V!Getter, V!Ends, V!Discarded,
   V!DiscardFails, V!Applies, V!Orphaned, V!Mount, V!Started, V!Free, V!BeginDiscard,
   V!Waits, V!Browser, VersionTx, VersionWorker, VersionUi, VersionThread, VersionScreen,
   VersionKnown, V!NothingForgotten, VersionStep

LEMMA VersionInstallApplies ==
  ASSUME VersionControl, V!InstallApplies
  PROVE  VersionControl' /\ VersionStep
BY DEF V!InstallApplies, VersionControl, VersionFields, V!Fault, V!NoFault, V!NoWorker,
   V!NoCatalog, V!Screen, V!Held, V!Own, V!Up, V!Details, V!Getter, V!Ends, V!Discarded,
   V!DiscardFails, V!Applies, V!Orphaned, V!Mount, V!Started, V!Free, V!BeginDiscard,
   V!Waits, V!Browser, VersionTx, VersionWorker, VersionUi, VersionThread, VersionScreen,
   VersionKnown, V!NothingForgotten, VersionStep

LEMMA VersionLeaveInstall ==
  ASSUME VersionControl, V!LeaveInstall
  PROVE  VersionControl' /\ VersionStep
BY DEF V!LeaveInstall, VersionControl, VersionFields, V!Fault, V!NoFault, V!NoWorker,
   V!NoCatalog, V!Screen, V!Held, V!Own, V!Up, V!Details, V!Getter, V!Ends, V!Discarded,
   V!DiscardFails, V!Applies, V!Orphaned, V!Mount, V!Started, V!Free, V!BeginDiscard,
   V!Waits, V!Browser, VersionTx, VersionWorker, VersionUi, VersionThread, VersionScreen,
   VersionKnown, V!NothingForgotten, VersionStep

LEMMA VersionExit == ASSUME VersionControl, V!Exit PROVE VersionControl' /\ VersionStep
<1> USE DEF V!Exit, VersionControl, VersionFields, V!Fault, V!NoFault, V!NoWorker,
    V!NoCatalog, V!Screen, V!Held, V!Own, V!Up, V!Details, V!Getter, V!Ends, V!Discarded,
    V!DiscardFails, V!Applies, V!Orphaned, V!Mount, V!Started, V!Free, V!BeginDiscard,
    V!Waits, V!Browser
<1>1. VersionFields' BY DEF VersionTx, VersionWorker, VersionUi
<1>4. VersionThread'
  BY DEF VersionTx, VersionWorker, VersionUi, VersionThread, VersionScreen
<1>5. VersionScreen'
  BY DEF VersionTx, VersionWorker, VersionUi, VersionThread, VersionScreen
<1>6. VersionKnown'
  BY DEF VersionTx, VersionWorker, VersionUi, VersionThread, VersionScreen, VersionKnown,
     V!NothingForgotten
<1>7. V!NothingForgotten'
  BY DEF VersionTx, VersionWorker, VersionUi, VersionThread, VersionScreen, VersionKnown,
     V!NothingForgotten
<1>8. VersionStep
  BY DEF VersionTx, VersionWorker, VersionUi, VersionThread, VersionScreen, VersionStep
<1>9. QED BY <1>1, <1>4, <1>5, <1>6, <1>7, <1>8

LEMMA VersionDrainWorkers ==
  ASSUME VersionControl, V!DrainWorkers
  PROVE  VersionControl' /\ VersionStep
BY DEF V!DrainWorkers, VersionControl, VersionFields, V!Fault, V!NoFault, V!NoWorker,
   V!NoCatalog, V!Screen, V!Held, V!Own, V!Up, V!Details, V!Getter, V!Ends, V!Discarded,
   V!DiscardFails, V!Applies, V!Orphaned, V!Mount, V!Started, V!Free, V!BeginDiscard,
   V!Waits, V!Browser, VersionTx, VersionWorker, VersionUi, VersionThread, VersionScreen,
   VersionKnown, V!NothingForgotten, VersionStep

LEMMA VersionDrainTimeout ==
  ASSUME VersionControl, V!DrainTimeout
  PROVE  VersionControl' /\ VersionStep
BY DEF V!DrainTimeout, VersionControl, VersionFields, V!Fault, V!NoFault, V!NoWorker,
   V!NoCatalog, V!Screen, V!Held, V!Own, V!Up, V!Details, V!Getter, V!Ends, V!Discarded,
   V!DiscardFails, V!Applies, V!Orphaned, V!Mount, V!Started, V!Free, V!BeginDiscard,
   V!Waits, V!Browser, VersionTx, VersionWorker, VersionUi, VersionThread, VersionScreen,
   VersionKnown, V!NothingForgotten, VersionStep

LEMMA VersionDrainTable ==
  ASSUME VersionControl, V!DrainTable
  PROVE  VersionControl' /\ VersionStep
BY DEF V!DrainTable, VersionControl, VersionFields, V!Fault, V!NoFault, V!NoWorker,
   V!NoCatalog, V!Screen, V!Held, V!Own, V!Up, V!Details, V!Getter, V!Ends, V!Discarded,
   V!DiscardFails, V!Applies, V!Orphaned, V!Mount, V!Started, V!Free, V!BeginDiscard,
   V!Waits, V!Browser, VersionTx, VersionWorker, VersionUi, VersionThread, VersionScreen,
   VersionKnown, V!NothingForgotten, VersionStep

LEMMA VersionNext ==
  ASSUME VersionControl, V!Next PROVE VersionControl' /\ VersionStep
BY VersionProvenanceRuns, VersionPrepareCreates, VersionPrepares, VersionPrepareFinally,
   VersionApplyRuns, VersionDiscardRuns, VersionLoadRuns, VersionPollProvenance,
   VersionProvenancePolled, VersionPollPrepare, VersionPollApply, VersionPollDiscard,
   VersionPollLoad, VersionOpenDetails, VersionStartPrepare, VersionApplyPreview,
   VersionCancelAndNavigate, VersionBrowseVersions, VersionReload, VersionBrowserBack,
   VersionSelectVersion, VersionOpenInstall, VersionInstallStages, VersionInstallApplies,
   VersionLeaveInstall, VersionExit, VersionDrainWorkers, VersionDrainTimeout,
   VersionDrainTable
   DEF V!Next, V!ThreadNext, V!PollNext

-----------------------------------------------------------------------------
(* The import of Templates: the thread that plans, the thread that         *)
(* resolves and stages, the thread that applies, and four screens.         *)

ImportTx ==
  /\ DOMAIN tx = {"state", "world", "real", "staged"}
  /\ tx.state \in {"none", "active", "closing", "applied", "discarded"}

ImportPlan ==
  /\ DOMAIN prep = {"pc", "event", "done", "error", "session"}
  /\ prep.pc \in {"create", "verify", "undo", "settle", "ending", "end"}
  /\ prep.event \in BOOLEAN /\ prep.done \in BOOLEAN /\ prep.session \in BOOLEAN
  /\ prep.error \in {"none", "error", "integrity"}

ImportRun ==
  /\ DOMAIN work = {"pc", "started", "done", "cancelled", "error", "finished", "applying",
     "closed",
                    "preview", "apply", "failed", "pick", "sides", "graph", "stale"}
  /\ work.pc \in {"none", "new", "check", "resolve", "stage", "verify", "finally", "ending",
     "end"}
  /\ work.apply \in {"none", "new", "check", "publish", "undo", "done"}
  /\ work.started \in BOOLEAN /\ work.done \in BOOLEAN /\ work.cancelled \in BOOLEAN
  /\ work.error \in BOOLEAN /\ work.finished \in BOOLEAN /\ work.applying \in BOOLEAN
  /\ work.closed \in BOOLEAN /\ work.preview \in BOOLEAN /\ work.failed \in BOOLEAN

ImportUi ==
  /\ DOMAIN ui = {"at", "busy", "leave", "down", "tries", "owner", "settled", "missed"}
  /\ ui.at \in {"select", "conflicts", "sides", "exec", "left"}
  /\ ui.down \in {"no", "unmounted", "over"}
  /\ ui.busy \in BOOLEAN /\ ui.leave \in BOOLEAN /\ ui.owner \in BOOLEAN
  /\ ui.settled \in BOOLEAN /\ ui.missed \in BOOLEAN

(* The planning thread: while it runs its screen is busy and nothing is    *)
(* executed; a transaction it leaves open is handed on with its session.   *)
ImportPlanning ==
  /\ prep.pc # "end" =>
       /\ ui.at = "select" /\ ~prep.done /\ work.pc = "none"
       /\ ui.busy
  /\ prep.pc # "end" /\ ui.down # "no" /\ prep.pc # "ending" => prep.event
  /\ prep.pc = "create" => tx.state # "active"
  /\ prep.pc \in {"create", "verify", "settle"} => prep.error = "none"
  /\ prep.pc = "settle" => prep.session
  /\ prep.pc \in {"ending", "end"} /\ ui.at = "select" /\ tx.state = "active" =>
       \/ ui.missed
       \/ prep.session /\ prep.error = "none" /\ ui.busy /\ ui.down = "no"
  /\ ui.at \in {"select", "conflicts", "sides"} => work.pc = "none"
  /\ ui.at = "exec" => work.pc # "none"
  /\ ui.at = "select" /\ ui.busy /\ prep.pc = "end" => prep.done
  /\ ui.missed => ui.down # "no" \/ ui.at \in {"exec", "left"}

(* The running thread: it starts under a busy execution screen, and        *)
(* reports an error or a cancel only when the transaction is open no more, *)
(* unless the answer was missed.                                           *)
ImportRunning ==
  /\ work.pc = "none" => ~work.started /\ ~work.done /\ work.apply = "none"
  /\ ui.at = "select" => ~work.finished /\ ~work.closed
  /\ work.pc = "new" => ~work.started /\ ~work.preview /\ (work.done \/ work.cancelled =>
     tx.state # "active")
  /\ work.pc \in {"check", "resolve", "stage", "verify", "finally", "ending"} =>
     work.started /\ ~work.done
  /\ work.pc = "end" => work.done
  /\ work.finished \/ work.closed => tx.state # "active"
  /\ work.pc \notin {"none", "end"} => ui.at \in {"exec", "left"} /\ work.apply = "none"
  /\ work.pc \in {"ending",
     "end"} /\ (work.cancelled \/ work.error) /\ tx.state = "active" => ui.missed
  /\ work.pc \notin {"none", "end"} /\ ~work.done => ui.at = "exec" /\ ui.busy
  /\ work.pc \notin {"none", "end", "ending"} /\ ~work.done /\ ui.down # "no" => prep.event
  /\ work.pc \in {"ending"} /\ ui.down # "no" /\ tx.state = "active" => ui.missed

(* The applying thread: it runs after the other one, under a busy screen   *)
(* that owns the transaction.                                              *)
ImportApplying ==
  /\ work.apply # "none" => work.done /\ ui.at \in {"exec", "left"}
  /\ work.apply \notin {"none", "done"} => ui.at = "exec" /\ ui.busy /\ ui.owner
  /\ work.apply = "new" /\ tx.state = "active" => I!Applicable \/ ui.missed
  /\ work.apply = "done" /\ tx.state = "active" => ui.missed
  /\ work.apply = "none" => ~work.applying
  /\ work.apply = "none" => ~ui.owner

(* Who has left, or has been shut down, has left no open transaction       *)
(* behind, unless the answer was missed.                                   *)
ImportLeaving ==
  /\ ui.settled => ui.at \in {"exec", "left"}
  /\ ui.settled /\ tx.state = "active" => ui.missed
  /\ ui.at = "left" /\ tx.state = "active" => ui.missed
  /\ ui.at = "exec" /\ ~ui.busy => work.done
  /\ ui.down # "no" /\ tx.state = "active" /\ prep.pc = "end" /\ work.pc \in {"none",
     "end"} /\ work.apply = "none" => ui.missed

ImportFields == ImportTx /\ ImportPlan /\ ImportRun /\ ImportUi
ImportControl ==
  ImportFields /\ ImportPlanning /\ ImportRunning /\ ImportApplying /\ ImportLeaving
  /\ I!NothingForgotten

(* What a step may do to the transaction and to the source of the Pack. *)
ImportStep ==
  \/ UNCHANGED <<tx.state, tx.real>>
  \/ ~I!Held /\ tx'.state = "active" /\ tx'.real = tx.real
  \/ tx.state = "active" /\ tx'.state = "applied"
  \/ I!Held /\ tx'.state \in {"closing", "discarded"} /\ tx'.real = tx.real

(* The invariant holds at first. *)
LEMMA ImportInitially == I!Init => ImportControl
BY DEF I!Init, I!Planning, I!Operation, ImportControl, ImportFields, ImportTx, ImportPlan,
   ImportRun, ImportUi, ImportPlanning, ImportRunning, ImportApplying, ImportLeaving,
   I!NothingForgotten

(* A discard leaves no open transaction and the source as it was; so does  *)
(* one that is made once only.                                             *)
LEMMA ImportDiscards ==
  ASSUME ImportTx, I!DiscardTx
  PROVE  /\ ImportTx' /\ tx'.state # "active" /\ tx'.real = tx.real
         /\ tx'.state = tx.state \/ (I!Held /\ tx'.state \in {"closing", "discarded"})
<1>1. CASE I!Held /\ tx' = [tx EXCEPT !.state = "discarded"]
  BY <1>1 DEF ImportTx, I!Held
<1>2. CASE ~I!Held /\ tx' = [tx EXCEPT !.state = tx.state]
  <2>1. DOMAIN tx' = DOMAIN tx /\ tx'.state = tx.state /\ tx'.real = tx.real
    BY <1>2 DEF ImportTx
  <2> QED BY <1>2, <2>1 DEF ImportTx, I!Held
<1>3. CASE I!Held /\ tx' = [tx EXCEPT !.state = "closing"]
  BY <1>3 DEF ImportTx, I!Held
<1> QED BY <1>1, <1>2, <1>3 DEF I!DiscardTx

LEMMA ImportDiscardsOnce ==
  ASSUME ImportTx, ImportRun, ImportRunning, I!DiscardOnce
  PROVE  /\ ImportTx' /\ tx'.state # "active" /\ tx'.real = tx.real
         /\ tx'.state = tx.state \/ (I!Held /\ tx'.state \in {"closing", "discarded"})
<1>1. CASE work.finished \/ work.closed
  <2>1. UNCHANGED tx /\ tx.state # "active" BY <1>1 DEF I!DiscardOnce, ImportRunning
  <2> QED BY <2>1 DEF ImportTx
<1>2. CASE ~(work.finished \/ work.closed)
  <2>1. I!DiscardTx BY <1>2 DEF I!DiscardOnce
  <2> QED BY <2>1, ImportDiscards
<1> QED BY <1>1, <1>2

(* Every action keeps the invariant. *)
LEMMA ImportPlanCreate ==
  ASSUME ImportControl, I!PlanCreate
  PROVE  ImportControl' /\ ImportStep
<1> USE DEF ImportControl, ImportFields
<1>1. prep.pc = "create" /\ UNCHANGED <<work, ui>>
  BY DEF I!PlanCreate, I!Open, I!SameThreads
<1>2. CASE ~prep.event /\ ~I!Held
    /\ tx' = [tx EXCEPT !.state = "active", !.staged = tx.real]
    /\ prep' = [prep EXCEPT !.pc = "verify"]
  BY <1>1, <1>2 DEF I!Left, I!Held, I!Planning, I!Operation, I!Execution, ImportTx,
     ImportPlan, ImportRun, ImportUi, ImportPlanning, ImportRunning, ImportApplying,
     ImportLeaving, I!Applicable, I!NothingForgotten, ImportStep
<1>3. CASE prep' = [prep EXCEPT !.pc = "end", !.done = TRUE, !.error = "error"]
    /\ UNCHANGED tx
  BY <1>1, <1>3 DEF I!Left, I!Held, I!Planning, I!Operation, I!Execution, ImportTx,
     ImportPlan, ImportRun, ImportUi, ImportPlanning, ImportRunning, ImportApplying,
     ImportLeaving, I!Applicable, I!NothingForgotten, ImportStep
<1> QED
  BY <1>1, <1>2, <1>3 DEF I!PlanCreate, I!Raises, I!Owed, I!Discards, I!Closed, ImportTx,
     ImportPlan, ImportRun, ImportUi

LEMMA ImportPlanVerify ==
  ASSUME ImportControl, I!PlanVerify
  PROVE  ImportControl' /\ ImportStep
<1> USE DEF ImportControl, ImportFields
<1>1. prep.pc = "verify" /\ UNCHANGED <<tx, work, ui>>
  BY DEF I!PlanVerify, I!Open, I!SameThreads
<1>2. CASE ~prep.event /\ prep' = [prep EXCEPT !.pc = "settle", !.session = TRUE]
  BY <1>1, <1>2 DEF I!Left, I!Held, I!Planning, I!Operation, I!Execution, ImportTx,
     ImportPlan, ImportRun, ImportUi, ImportPlanning, ImportRunning, ImportApplying,
     ImportLeaving, I!Applicable, I!NothingForgotten, ImportStep
<1>3. CASE prep' = [prep EXCEPT !.pc = "undo", !.error = "error"]
  BY <1>1, <1>3 DEF I!Left, I!Held, I!Planning, I!Operation, I!Execution, ImportTx,
     ImportPlan, ImportRun, ImportUi, ImportPlanning, ImportRunning, ImportApplying,
     ImportLeaving, I!Applicable, I!NothingForgotten, ImportStep
<1> QED
  BY <1>1, <1>2, <1>3 DEF I!PlanVerify, I!Raises, I!Owed, I!Discards, I!Closed, ImportTx,
     ImportPlan, ImportRun, ImportUi

LEMMA ImportPlanUndo == ASSUME ImportControl, I!PlanUndo PROVE ImportControl' /\ ImportStep
BY DEF I!PlanUndo, ImportControl, ImportFields, I!Fault, I!NoFault, I!Planning, I!Operation,
   I!Held, I!DiscardTx, I!Discards, I!Raises, I!DiscardOnce, I!Closed, I!Owed, I!Open,
   I!SameThreads, I!Left, I!DiscardPlan, I!Execution, I!CancelRun, I!Deaf, I!Asks, I!Down,
   ImportTx, ImportPlan, ImportRun, I!Applicable, ImportUi, ImportPlanning, ImportRunning,
   ImportApplying, ImportLeaving, I!NothingForgotten, ImportStep

LEMMA ImportPlanSettle ==
  ASSUME ImportControl, I!PlanSettle
  PROVE  ImportControl' /\ ImportStep
<1> USE DEF ImportControl, ImportFields
<1>1. prep.pc = "settle" /\ UNCHANGED <<work, ui>>
  BY DEF I!PlanSettle, I!Open, I!SameThreads
<1>2. CASE I!DiscardTx
    /\ prep' = [prep EXCEPT !.pc = "ending", !.session = FALSE, !.error = prep.error]
  <2>20. /\ ImportTx' /\ tx'.state # "active" /\ tx'.real = tx.real
         /\ tx'.state = tx.state \/ (I!Held /\ tx'.state \in {"closing", "discarded"})
    BY <1>2, ImportDiscards
  <2> QED
    BY <2>20, <1>1, <1>2 DEF I!Left, I!Held, I!Planning, I!Operation, I!Execution,
       ImportPlan, ImportRun, ImportUi, ImportTx, ImportPlanning, ImportRunning,
       ImportApplying, ImportLeaving, I!Applicable, I!NothingForgotten, ImportStep
<1>3. CASE I!DiscardTx
    /\ prep' = [prep EXCEPT !.pc = "ending", !.session = TRUE, !.error = "error"]
  <2>20. /\ ImportTx' /\ tx'.state # "active" /\ tx'.real = tx.real
         /\ tx'.state = tx.state \/ (I!Held /\ tx'.state \in {"closing", "discarded"})
    BY <1>3, ImportDiscards
  <2> QED
    BY <2>20, <1>1, <1>3 DEF I!Left, I!Held, I!Planning, I!Operation, I!Execution,
       ImportPlan, ImportRun, ImportUi, ImportTx, ImportPlanning, ImportRunning,
       ImportApplying, ImportLeaving, I!Applicable, I!NothingForgotten, ImportStep
<1>4. CASE ~prep.event /\ prep' = [prep EXCEPT !.pc = "ending"] /\ UNCHANGED tx
  BY <1>1, <1>4 DEF I!Left, I!Held, I!Planning, I!Operation, I!Execution, ImportTx,
     ImportPlan, ImportRun, ImportUi, ImportPlanning, ImportRunning, ImportApplying,
     ImportLeaving, I!Applicable, I!NothingForgotten, ImportStep
<1> QED
  BY <1>1, <1>2, <1>3, <1>4 DEF I!PlanSettle, I!Raises, I!Owed, I!Discards, I!Closed,
     ImportTx, ImportPlan, ImportRun, ImportUi

LEMMA ImportPlanDone == ASSUME ImportControl, I!PlanDone PROVE ImportControl' /\ ImportStep
BY DEF I!PlanDone, ImportControl, ImportFields, I!Fault, I!NoFault, I!Planning, I!Operation,
   I!Held, I!DiscardTx, I!Discards, I!Raises, I!DiscardOnce, I!Closed, I!Owed, I!Open,
   I!SameThreads, I!Left, I!DiscardPlan, I!Execution, I!CancelRun, I!Deaf, I!Asks, I!Down,
   ImportTx, ImportPlan, ImportRun, I!Applicable, ImportUi, ImportPlanning, ImportRunning,
   ImportApplying, ImportLeaving, I!NothingForgotten, ImportStep

LEMMA ImportRunStart == ASSUME ImportControl, I!RunStart PROVE ImportControl' /\ ImportStep
<1> USE DEF I!RunStart, ImportControl, ImportFields, I!Fault, I!NoFault, I!Planning,
    I!Operation, I!Held, I!DiscardTx, I!Discards, I!Raises, I!DiscardOnce, I!Closed, I!Owed,
    I!Open, I!SameThreads, I!Left, I!DiscardPlan, I!Execution, I!CancelRun, I!Deaf, I!Asks,
    I!Down
<1>1. ImportTx' BY DEF ImportTx
<1>2. ImportPlan' BY DEF ImportPlan, ImportTx
<1>3. ImportRun' BY DEF ImportRun, ImportTx, I!Applicable
<1>4. ImportUi' BY DEF ImportUi, ImportTx, ImportPlan, ImportRun
<1>5. ImportPlanning' /\ ImportRunning' /\ ImportApplying' /\ ImportLeaving'
    /\ I!NothingForgotten'
  BY DEF ImportTx, ImportPlan, ImportRun, ImportUi, ImportPlanning, ImportRunning,
     ImportApplying, ImportLeaving, I!Applicable, I!NothingForgotten
<1>10. ImportStep BY DEF ImportTx, ImportPlan, ImportRun, ImportUi, ImportStep
<1> QED BY <1>1, <1>2, <1>3, <1>4, <1>5, <1>10

LEMMA ImportRunCancelled ==
  ASSUME ImportControl, I!RunCancelled
  PROVE  ImportControl' /\ ImportStep
<1> USE DEF I!RunCancelled, ImportControl, ImportFields, I!Fault, I!NoFault, I!Planning,
    I!Operation, I!Held, I!DiscardTx, I!Discards, I!Raises, I!DiscardOnce, I!Closed, I!Owed,
    I!Open, I!SameThreads, I!Left, I!DiscardPlan, I!Execution, I!CancelRun, I!Deaf, I!Asks,
    I!Down
<1>1. ImportTx' BY DEF ImportTx
<1>2. ImportPlan' BY DEF ImportPlan, ImportTx
<1>3. ImportRun' BY DEF ImportRun, ImportTx, I!Applicable
<1>4. ImportUi' BY DEF ImportUi, ImportTx, ImportPlan, ImportRun
<1>5. ImportPlanning' /\ ImportRunning' /\ ImportApplying' /\ ImportLeaving'
    /\ I!NothingForgotten'
  BY DEF ImportTx, ImportPlan, ImportRun, ImportUi, ImportPlanning, ImportRunning,
     ImportApplying, ImportLeaving, I!Applicable, I!NothingForgotten
<1>10. ImportStep BY DEF ImportTx, ImportPlan, ImportRun, ImportUi, ImportStep
<1> QED BY <1>1, <1>2, <1>3, <1>4, <1>5, <1>10

LEMMA ImportRunFails == ASSUME ImportControl, I!RunFails PROVE ImportControl' /\ ImportStep
BY DEF I!RunFails, ImportControl, ImportFields, I!Fault, I!NoFault, I!Planning, I!Operation,
   I!Held, I!DiscardTx, I!Discards, I!Raises, I!DiscardOnce, I!Closed, I!Owed, I!Open,
   I!SameThreads, I!Left, I!DiscardPlan, I!Execution, I!CancelRun, I!Deaf, I!Asks, I!Down,
   ImportTx, ImportPlan, ImportRun, I!Applicable, ImportUi, ImportPlanning, ImportRunning,
   ImportApplying, ImportLeaving, I!NothingForgotten, ImportStep

LEMMA ImportRunCheck ==
  ASSUME ImportControl, I!RunCheck
  PROVE  ImportControl' /\ ImportStep
<1> USE DEF ImportControl, ImportFields
<1>1. work.pc = "check" /\ UNCHANGED <<tx, prep, ui>>
  BY DEF I!RunCheck, I!Open, I!SameThreads
<1>2. CASE work' = [work EXCEPT !.pc = "finally", !.error = TRUE]
  BY <1>1, <1>2 DEF I!Left, I!Held, I!Planning, I!Operation, I!Execution, ImportTx,
     ImportPlan, ImportRun, ImportUi, ImportPlanning, ImportRunning, ImportApplying,
     ImportLeaving, I!Applicable, I!NothingForgotten, ImportStep
<1>3. CASE work' = [work EXCEPT !.pc = "resolve"]
  BY <1>1, <1>3 DEF I!Left, I!Held, I!Planning, I!Operation, I!Execution, ImportTx,
     ImportPlan, ImportRun, ImportUi, ImportPlanning, ImportRunning, ImportApplying,
     ImportLeaving, I!Applicable, I!NothingForgotten, ImportStep
<1> QED
  BY <1>1, <1>2, <1>3 DEF I!RunCheck, I!Raises, I!Owed, I!Discards, I!Closed, ImportTx,
     ImportPlan, ImportRun, ImportUi

LEMMA ImportRunResolve ==
  ASSUME ImportControl, I!RunResolve
  PROVE  ImportControl' /\ ImportStep
<1> USE DEF ImportControl, ImportFields
<1>1. work.pc = "resolve" /\ UNCHANGED <<tx, prep, ui>>
  BY DEF I!RunResolve, I!Open, I!SameThreads
<1>2. CASE work' = [work EXCEPT !.pc = "finally", !.error = TRUE]
  BY <1>1, <1>2 DEF I!Left, I!Held, I!Planning, I!Operation, I!Execution, ImportTx,
     ImportPlan, ImportRun, ImportUi, ImportPlanning, ImportRunning, ImportApplying,
     ImportLeaving, I!Applicable, I!NothingForgotten, ImportStep
<1>3. CASE \E p : work' = [work EXCEPT !.pc = "stage", !.graph = <<p>>]
  BY <1>1, <1>3 DEF I!Left, I!Held, I!Planning, I!Operation, I!Execution, ImportTx,
     ImportPlan, ImportRun, ImportUi, ImportPlanning, ImportRunning, ImportApplying,
     ImportLeaving, I!Applicable, I!NothingForgotten, ImportStep
<1> QED BY <1>2, <1>3 DEF I!RunResolve, I!Raises

LEMMA ImportRunStage == ASSUME ImportControl, I!RunStage PROVE ImportControl' /\ ImportStep
BY DEF I!RunStage, ImportControl, ImportFields, I!Fault, I!NoFault, I!Planning, I!Operation,
   I!Held, I!DiscardTx, I!Discards, I!Raises, I!DiscardOnce, I!Closed, I!Owed, I!Open,
   I!SameThreads, I!Left, I!DiscardPlan, I!Execution, I!CancelRun, I!Deaf, I!Asks, I!Down,
   ImportTx, ImportPlan, ImportRun, I!Applicable, ImportUi, ImportPlanning, ImportRunning,
   ImportApplying, ImportLeaving, I!NothingForgotten, ImportStep

LEMMA ImportRunVerify ==
  ASSUME ImportControl, I!RunVerify
  PROVE  ImportControl' /\ ImportStep
<1> USE DEF ImportControl, ImportFields
<1>1. work.pc = "verify" /\ UNCHANGED <<tx, prep, ui>>
  BY DEF I!RunVerify, I!Open, I!SameThreads
<1>2. CASE work' = [work EXCEPT !.pc = "finally", !.error = TRUE]
  BY <1>1, <1>2 DEF I!Left, I!Held, I!Planning, I!Operation, I!Execution, ImportTx,
     ImportPlan, ImportRun, ImportUi, ImportPlanning, ImportRunning, ImportApplying,
     ImportLeaving, I!Applicable, I!NothingForgotten, ImportStep
<1>3. CASE work' = [work EXCEPT !.pc = "finally", !.preview = TRUE]
  BY <1>1, <1>3 DEF I!Left, I!Held, I!Planning, I!Operation, I!Execution, ImportTx,
     ImportPlan, ImportRun, ImportUi, ImportPlanning, ImportRunning, ImportApplying,
     ImportLeaving, I!Applicable, I!NothingForgotten, ImportStep
<1> QED
  BY <1>1, <1>2, <1>3 DEF I!RunVerify, I!Raises, I!Owed, I!Discards, I!Closed, ImportTx,
     ImportPlan, ImportRun, ImportUi

LEMMA ImportRunFinally ==
  ASSUME ImportControl, I!RunFinally
  PROVE  ImportControl' /\ ImportStep
<1> USE DEF ImportControl, ImportFields
<1>1. work.pc = "finally" /\ UNCHANGED <<prep, ui>>
  BY DEF I!RunFinally, I!Open, I!SameThreads
<1>2. CASE I!DiscardOnce /\ work' = [work EXCEPT !.pc = "ending", !.finished = TRUE,
    !.closed = TRUE, !.error = work.error \/ FALSE]
  <2>20. /\ ImportTx' /\ tx'.state # "active" /\ tx'.real = tx.real
         /\ tx'.state = tx.state \/ (I!Held /\ tx'.state \in {"closing", "discarded"})
    BY <1>2, ImportDiscardsOnce
  <2> QED
    BY <2>20, <1>1, <1>2 DEF I!Left, I!Held, I!Owed, ImportPlan, ImportRun, ImportUi,
       ImportTx, ImportPlanning, ImportRunning, ImportApplying, ImportLeaving, I!Applicable,
       I!NothingForgotten, ImportStep
<1>3. CASE I!DiscardOnce /\ work' = [work EXCEPT !.pc = "ending", !.finished = FALSE,
    !.closed = FALSE, !.error = work.error \/ TRUE]
  <2>20. /\ ImportTx' /\ tx'.state # "active" /\ tx'.real = tx.real
         /\ tx'.state = tx.state \/ (I!Held /\ tx'.state \in {"closing", "discarded"})
    BY <1>3, ImportDiscardsOnce
  <2> QED
    BY <2>20, <1>1, <1>3 DEF I!Left, I!Held, I!Owed, ImportPlan, ImportRun, ImportUi,
       ImportTx, ImportPlanning, ImportRunning, ImportApplying, ImportLeaving, I!Applicable,
       I!NothingForgotten, ImportStep
<1>4. CASE ~I!Owed /\ work' = [work EXCEPT !.pc = "ending"] /\ UNCHANGED tx
  BY <1>1, <1>4 DEF I!Left, I!Held, I!Owed, ImportTx, ImportPlan, ImportRun, ImportUi,
     ImportPlanning, ImportRunning, ImportApplying, ImportLeaving, I!Applicable,
     I!NothingForgotten, ImportStep
<1> QED
  BY <1>1, <1>2, <1>3, <1>4 DEF I!RunFinally, I!Raises, I!Owed, I!Discards, I!Closed,
     ImportTx, ImportPlan, ImportRun, ImportUi

LEMMA ImportRunDone == ASSUME ImportControl, I!RunDone PROVE ImportControl' /\ ImportStep
BY DEF I!RunDone, ImportControl, ImportFields, I!Fault, I!NoFault, I!Planning, I!Operation,
   I!Held, I!DiscardTx, I!Discards, I!Raises, I!DiscardOnce, I!Closed, I!Owed, I!Open,
   I!SameThreads, I!Left, I!DiscardPlan, I!Execution, I!CancelRun, I!Deaf, I!Asks, I!Down,
   ImportTx, ImportPlan, ImportRun, I!Applicable, ImportUi, ImportPlanning, ImportRunning,
   ImportApplying, ImportLeaving, I!NothingForgotten, ImportStep

LEMMA ImportApplyBegin ==
  ASSUME ImportControl, I!ApplyBegin
  PROVE  ImportControl' /\ ImportStep
<1> USE DEF I!ApplyBegin, ImportControl, ImportFields, I!Fault, I!NoFault, I!Planning,
    I!Operation, I!Held, I!DiscardTx, I!Discards, I!Raises, I!DiscardOnce, I!Closed, I!Owed,
    I!Open, I!SameThreads, I!Left, I!DiscardPlan, I!Execution, I!CancelRun, I!Deaf, I!Asks,
    I!Down
<1>1. ImportTx' BY DEF ImportTx
<1>2. ImportPlan' BY DEF ImportPlan, ImportTx
<1>3. ImportRun' BY DEF ImportRun, ImportTx, I!Applicable
<1>4. ImportUi' BY DEF ImportUi, ImportTx, ImportPlan, ImportRun
<1>5. ImportPlanning' /\ ImportRunning' /\ ImportApplying' /\ ImportLeaving'
    /\ I!NothingForgotten'
  BY DEF ImportTx, ImportPlan, ImportRun, ImportUi, ImportPlanning, ImportRunning,
     ImportApplying, ImportLeaving, I!Applicable, I!NothingForgotten
<1>10. ImportStep BY DEF ImportTx, ImportPlan, ImportRun, ImportUi, ImportStep
<1> QED BY <1>1, <1>2, <1>3, <1>4, <1>5, <1>10

LEMMA ImportApplyCheck ==
  ASSUME ImportControl, I!ApplyCheck
  PROVE  ImportControl' /\ ImportStep
BY DEF I!ApplyCheck, ImportControl, ImportFields, I!Fault, I!NoFault, I!Planning,
   I!Operation, I!Held, I!DiscardTx, I!Discards, I!Raises, I!DiscardOnce, I!Closed, I!Owed,
   I!Open, I!SameThreads, I!Left, I!DiscardPlan, I!Execution, I!CancelRun, I!Deaf, I!Asks,
   I!Down, ImportTx, ImportPlan, ImportRun, I!Applicable, ImportUi, ImportPlanning,
   ImportRunning, ImportApplying, ImportLeaving, I!NothingForgotten, ImportStep

LEMMA ImportApplyPublish ==
  ASSUME ImportControl, I!ApplyPublish
  PROVE  ImportControl' /\ ImportStep
<1> USE DEF ImportControl, ImportFields
<1>1. work.apply = "publish" /\ UNCHANGED <<prep, ui>>
  BY DEF I!ApplyPublish, I!Open, I!SameThreads
<1>2. CASE tx.state = "active" /\ tx' = [tx EXCEPT !.state = "applied", !.real = tx.staged]
    /\ work' = [work EXCEPT !.apply = "done", !.applying = FALSE, !.finished = TRUE,
    !.closed = TRUE]
  BY <1>1, <1>2 DEF I!Left, I!Held, I!Planning, I!Operation, I!Execution, ImportTx,
     ImportPlan, ImportRun, ImportUi, ImportPlanning, ImportRunning, ImportApplying,
     ImportLeaving, I!Applicable, I!NothingForgotten, ImportStep
<1>3. CASE work' = [work EXCEPT !.apply = "undo"] /\ UNCHANGED tx
  BY <1>1, <1>3 DEF I!Left, I!Held, I!Planning, I!Operation, I!Execution, ImportTx,
     ImportPlan, ImportRun, ImportUi, ImportPlanning, ImportRunning, ImportApplying,
     ImportLeaving, I!Applicable, I!NothingForgotten, ImportStep
<1> QED
  BY <1>1, <1>2, <1>3 DEF I!ApplyPublish, I!Raises, I!Owed, I!Discards, I!Closed, ImportTx,
     ImportPlan, ImportRun, ImportUi

LEMMA ImportApplyUndo ==
  ASSUME ImportControl, I!ApplyUndo
  PROVE  ImportControl' /\ ImportStep
BY DEF I!ApplyUndo, ImportControl, ImportFields, I!Fault, I!NoFault, I!Planning,
   I!Operation, I!Held, I!DiscardTx, I!Discards, I!Raises, I!DiscardOnce, I!Closed, I!Owed,
   I!Open, I!SameThreads, I!Left, I!DiscardPlan, I!Execution, I!CancelRun, I!Deaf, I!Asks,
   I!Down, ImportTx, ImportPlan, ImportRun, I!Applicable, ImportUi, ImportPlanning,
   ImportRunning, ImportApplying, ImportLeaving, I!NothingForgotten, ImportStep

LEMMA ImportStartPlanning ==
  ASSUME ImportControl, I!StartPlanning
  PROVE  ImportControl' /\ ImportStep
BY DEF I!StartPlanning, ImportControl, ImportFields, I!Fault, I!NoFault, I!Planning,
   I!Operation, I!Held, I!DiscardTx, I!Discards, I!Raises, I!DiscardOnce, I!Closed, I!Owed,
   I!Open, I!SameThreads, I!Left, I!DiscardPlan, I!Execution, I!CancelRun, I!Deaf, I!Asks,
   I!Down, ImportTx, ImportPlan, ImportRun, I!Applicable, ImportUi, ImportPlanning,
   ImportRunning, ImportApplying, ImportLeaving, I!NothingForgotten, ImportStep

LEMMA ImportDiscardPlan ==
  ASSUME ImportControl, ui.at = "select", prep.pc = "end", ui.down = "no", UNCHANGED work,
      I!DiscardPlan
  PROVE  ImportControl' /\ ImportStep
<1> USE DEF ImportControl, ImportFields
<1>1. ui.at = "select" /\ prep.pc = "end" /\ ui.down = "no" /\ UNCHANGED work
  BY DEF I!DiscardPlan, I!Open, I!SameThreads
<1>2. CASE I!DiscardTx /\ ui' = I!Left
    /\ prep' = [prep EXCEPT !.session = FALSE, !.error = "none"]
  <2>20. /\ ImportTx' /\ tx'.state # "active" /\ tx'.real = tx.real
         /\ tx'.state = tx.state \/ (I!Held /\ tx'.state \in {"closing", "discarded"})
    BY <1>2, ImportDiscards
  <2> QED
    BY <2>20, <1>1, <1>2 DEF I!Left, I!Held, I!Planning, I!Operation, I!Execution,
       ImportPlan, ImportRun, ImportUi, ImportTx, ImportPlanning, ImportRunning,
       ImportApplying, ImportLeaving, I!Applicable, I!NothingForgotten, ImportStep
<1>3. CASE I!DiscardTx /\ ui' = [ui EXCEPT !.busy = FALSE]
    /\ prep' = [prep EXCEPT !.error = "error"]
  <2>20. /\ ImportTx' /\ tx'.state # "active" /\ tx'.real = tx.real
         /\ tx'.state = tx.state \/ (I!Held /\ tx'.state \in {"closing", "discarded"})
    BY <1>3, ImportDiscards
  <2> QED
    BY <2>20, <1>1, <1>3 DEF I!Left, I!Held, I!Planning, I!Operation, I!Execution,
       ImportPlan, ImportRun, ImportUi, ImportTx, ImportPlanning, ImportRunning,
       ImportApplying, ImportLeaving, I!Applicable, I!NothingForgotten, ImportStep
<1>4. CASE I!DiscardTx /\ ui' = [ui EXCEPT !.busy = FALSE] /\ UNCHANGED prep
  <2>20. /\ ImportTx' /\ tx'.state # "active" /\ tx'.real = tx.real
         /\ tx'.state = tx.state \/ (I!Held /\ tx'.state \in {"closing", "discarded"})
    BY <1>4, ImportDiscards
  <2> QED
    BY <2>20, <1>1, <1>4 DEF I!Left, I!Held, I!Planning, I!Operation, I!Execution,
       ImportPlan, ImportRun, ImportUi, ImportTx, ImportPlanning, ImportRunning,
       ImportApplying, ImportLeaving, I!Applicable, I!NothingForgotten, ImportStep
<1>5. CASE ~prep.session /\ ui' = I!Left /\ UNCHANGED <<tx, prep>>
  BY <1>1, <1>5 DEF I!Left, I!Held, I!Planning, I!Operation, I!Execution, ImportTx,
     ImportPlan, ImportRun, ImportUi, ImportPlanning, ImportRunning, ImportApplying,
     ImportLeaving, I!Applicable, I!NothingForgotten, ImportStep
<1> QED
  BY <1>1, <1>2, <1>3, <1>4, <1>5 DEF I!DiscardPlan, I!Raises, I!Owed, I!Discards, I!Closed,
     ImportTx, ImportPlan, ImportRun, ImportUi

LEMMA ImportPollPlanning ==
  ASSUME ImportControl, I!PollPlanning
  PROVE  ImportControl' /\ ImportStep
<1> USE DEF ImportControl, ImportFields
<1>1. ui.at = "select" /\ ui.down = "no" /\ ui.busy /\ prep.done /\ prep.pc = "end"
    /\ UNCHANGED work
  BY DEF I!PollPlanning, I!Open, I!SameThreads, ImportPlan, ImportPlanning
<1>2. CASE UNCHANGED <<tx, prep>> /\ ui' = [ui EXCEPT !.busy = FALSE, !.at = "conflicts"]
  <2> USE <1>1, <1>2 DEF I!Left, I!Held, I!Planning, I!Operation, I!Execution
  <2>1. ImportTx' BY DEF ImportTx
  <2>2. ImportPlan' BY DEF ImportPlan
  <2>3. ImportRun' BY DEF ImportRun
  <2>4. ImportUi' BY DEF ImportUi
  <2>5. ImportPlanning' /\ ImportRunning' /\ ImportApplying' /\ ImportLeaving'
      /\ I!NothingForgotten'
    BY DEF ImportTx, ImportPlan, ImportRun, ImportUi, ImportPlanning, ImportRunning,
       ImportApplying, ImportLeaving, I!Applicable, I!NothingForgotten
  <2>10. ImportStep BY DEF ImportTx, ImportPlan, ImportRun, ImportUi, ImportStep
  <2> QED BY <2>1, <2>2, <2>3, <2>4, <2>5, <2>10
<1>3. CASE (prep.error # "none" \/ ~prep.session) /\ UNCHANGED <<tx, prep>>
    /\ ui' = [ui EXCEPT !.busy = FALSE, !.at = ui.at]
  <2> USE <1>1, <1>3 DEF I!Left, I!Held, I!Planning, I!Operation, I!Execution
  <2>1. ImportTx' BY DEF ImportTx
  <2>2. ImportPlan' BY DEF ImportPlan
  <2>3. ImportRun' BY DEF ImportRun
  <2>4. ImportUi' BY DEF ImportUi
  <2>5. ImportPlanning' /\ ImportRunning' /\ ImportApplying' /\ ImportLeaving'
      /\ I!NothingForgotten'
    BY DEF ImportTx, ImportPlan, ImportRun, ImportUi, ImportPlanning, ImportRunning,
       ImportApplying, ImportLeaving, I!Applicable, I!NothingForgotten
  <2>10. ImportStep BY DEF ImportTx, ImportPlan, ImportRun, ImportUi, ImportStep
  <2> QED BY <2>1, <2>2, <2>3, <2>4, <2>5, <2>10
<1>4. CASE I!DiscardPlan BY <1>1, <1>4, ImportDiscardPlan
<1> QED
  BY <1>1, <1>4, <1>2, <1>3 DEF I!PollPlanning, I!Raises, I!Owed, I!Discards, I!Closed,
     ImportTx, ImportPlan, ImportRun, ImportUi

LEMMA ImportLeaveSelection ==
  ASSUME ImportControl, I!LeaveSelection
  PROVE  ImportControl' /\ ImportStep
<1> USE DEF ImportControl, ImportFields
<1>1. ui.at = "select" /\ ui.down = "no" /\ UNCHANGED work
  BY DEF I!LeaveSelection, I!Open, I!SameThreads
<1>2. CASE ui.busy /\ UNCHANGED tx /\ prep' = [prep EXCEPT !.event = TRUE]
    /\ ui' = [ui EXCEPT !.leave = TRUE]
  <2> USE <1>1, <1>2 DEF I!Left, I!Held, I!Planning, I!Operation, I!Execution
  <2>1. ImportTx' BY DEF ImportTx
  <2>2. ImportPlan' BY DEF ImportPlan
  <2>3. ImportRun' BY DEF ImportRun
  <2>4. ImportUi' BY DEF ImportUi
  <2>5. ImportPlanning' /\ ImportRunning' /\ ImportApplying' /\ ImportLeaving'
      /\ I!NothingForgotten'
    BY DEF ImportTx, ImportPlan, ImportRun, ImportUi, ImportPlanning, ImportRunning,
       ImportApplying, ImportLeaving, I!Applicable, I!NothingForgotten
  <2>10. ImportStep BY DEF ImportTx, ImportPlan, ImportRun, ImportUi, ImportStep
  <2> QED BY <2>1, <2>2, <2>3, <2>4, <2>5, <2>10
<1>3. CASE ~ui.busy /\ I!DiscardPlan
  <2>1. prep.pc = "end" BY <1>3 DEF ImportPlanning, ImportPlan
  <2> QED BY <1>1, <1>3, <2>1, ImportDiscardPlan
<1> QED
  BY <1>1, <1>3, <1>2 DEF I!LeaveSelection, I!Raises, I!Owed, I!Discards, I!Closed,
     ImportTx, ImportPlan, ImportRun, ImportUi

LEMMA ImportContinue ==
  ASSUME ImportControl, I!Continue
  PROVE  ImportControl' /\ ImportStep
<1> USE DEF ImportControl, ImportFields
<1>1. ui.at = "conflicts" /\ ui.down = "no" /\ UNCHANGED <<tx, prep>>
  BY DEF I!Continue, I!Open, I!SameThreads
<1>2. CASE (\E pick : work' = [work EXCEPT !.pick = pick])
    /\ ui' = [ui EXCEPT !.at = "sides"]
  BY <1>1, <1>2 DEF I!Left, I!Held, I!Planning, I!Operation, I!Execution, ImportTx,
     ImportPlan, ImportRun, ImportUi, ImportPlanning, ImportRunning, ImportApplying,
     ImportLeaving, I!Applicable, I!NothingForgotten, ImportStep
<1>3. CASE (\E pick, sides : work' = I!Execution(pick, sides))
    /\ ui' = [ui EXCEPT !.at = "exec", !.busy = TRUE]
  BY <1>1, <1>3 DEF I!Left, I!Held, I!Planning, I!Operation, I!Execution, ImportTx,
     ImportPlan, ImportRun, ImportUi, ImportPlanning, ImportRunning, ImportApplying,
     ImportLeaving, I!Applicable, I!NothingForgotten, ImportStep
<1> QED
  BY <1>1, <1>2, <1>3 DEF I!Continue, I!Raises, I!Owed, I!Discards, I!Closed, ImportTx,
     ImportPlan, ImportRun, ImportUi

LEMMA ImportExecute == ASSUME ImportControl, I!Execute PROVE ImportControl' /\ ImportStep
BY DEF I!Execute, ImportControl, ImportFields, I!Fault, I!NoFault, I!Planning, I!Operation,
   I!Held, I!DiscardTx, I!Discards, I!Raises, I!DiscardOnce, I!Closed, I!Owed, I!Open,
   I!SameThreads, I!Left, I!DiscardPlan, I!Execution, I!CancelRun, I!Deaf, I!Asks, I!Down,
   ImportTx, ImportPlan, ImportRun, I!Applicable, ImportUi, ImportPlanning, ImportRunning,
   ImportApplying, ImportLeaving, I!NothingForgotten, ImportStep

LEMMA ImportBackToConflicts ==
  ASSUME ImportControl, I!BackToConflicts
  PROVE  ImportControl' /\ ImportStep
BY DEF I!BackToConflicts, ImportControl, ImportFields, I!Fault, I!NoFault, I!Planning,
   I!Operation, I!Held, I!DiscardTx, I!Discards, I!Raises, I!DiscardOnce, I!Closed, I!Owed,
   I!Open, I!SameThreads, I!Left, I!DiscardPlan, I!Execution, I!CancelRun, I!Deaf, I!Asks,
   I!Down, ImportTx, ImportPlan, ImportRun, I!Applicable, ImportUi, ImportPlanning,
   ImportRunning, ImportApplying, ImportLeaving, I!NothingForgotten, ImportStep

LEMMA ImportQuitConflicts ==
  ASSUME ImportControl, I!QuitConflicts
  PROVE  ImportControl' /\ ImportStep
<1> USE DEF I!QuitConflicts, ImportControl, ImportFields, I!Fault, I!NoFault, I!Planning,
    I!Operation, I!Held, I!DiscardTx, I!Discards, I!Raises, I!DiscardOnce, I!Closed, I!Owed,
    I!Open, I!SameThreads, I!Left, I!DiscardPlan, I!Execution, I!CancelRun, I!Deaf, I!Asks,
    I!Down
<1>1. ImportTx' BY DEF ImportTx
<1>2. ImportPlan' BY DEF ImportPlan, ImportTx
<1>3. ImportRun' BY DEF ImportRun, ImportTx, I!Applicable
<1>4. ImportUi' BY DEF ImportUi, ImportTx, ImportPlan, ImportRun
<1>5. ImportPlanning' /\ ImportRunning' /\ ImportApplying' /\ ImportLeaving'
    /\ I!NothingForgotten'
  BY DEF ImportTx, ImportPlan, ImportRun, ImportUi, ImportPlanning, ImportRunning,
     ImportApplying, ImportLeaving, I!Applicable, I!NothingForgotten
<1>10. ImportStep BY DEF ImportTx, ImportPlan, ImportRun, ImportUi, ImportStep
<1> QED BY <1>1, <1>2, <1>3, <1>4, <1>5, <1>10

LEMMA ImportPollRun == ASSUME ImportControl, I!PollRun PROVE ImportControl' /\ ImportStep
<1> USE DEF I!PollRun, ImportControl, ImportFields, I!Fault, I!NoFault, I!Planning,
    I!Operation, I!Held, I!DiscardTx, I!Discards, I!Raises, I!DiscardOnce, I!Closed, I!Owed,
    I!Open, I!SameThreads, I!Left, I!DiscardPlan, I!Execution, I!CancelRun, I!Deaf, I!Asks,
    I!Down
<1>1. ImportTx' BY DEF ImportTx
<1>2. ImportPlan' BY DEF ImportPlan, ImportTx
<1>3. ImportRun' BY ZenonT(30) DEF ImportRun, ImportTx, I!Applicable
<1>4. ImportUi' BY DEF ImportUi, ImportTx, ImportPlan, ImportRun
<1>5. ImportPlanning' /\ ImportRunning' /\ ImportApplying' /\ ImportLeaving'
    /\ I!NothingForgotten'
  BY DEF ImportTx, ImportPlan, ImportRun, ImportUi, ImportPlanning, ImportRunning,
     ImportApplying, ImportLeaving, I!Applicable, I!NothingForgotten
<1>10. ImportStep BY DEF ImportTx, ImportPlan, ImportRun, ImportUi, ImportStep
<1> QED BY <1>1, <1>2, <1>3, <1>4, <1>5, <1>10

LEMMA ImportConfirm == ASSUME ImportControl, I!Confirm PROVE ImportControl' /\ ImportStep
<1> USE DEF I!Confirm, ImportControl, ImportFields, I!Fault, I!NoFault, I!Planning,
    I!Operation, I!Held, I!DiscardTx, I!Discards, I!Raises, I!DiscardOnce, I!Closed, I!Owed,
    I!Open, I!SameThreads, I!Left, I!DiscardPlan, I!Execution, I!CancelRun, I!Deaf, I!Asks,
    I!Down
<1>1. ImportTx' BY DEF ImportTx
<1>2. ImportPlan' BY DEF ImportPlan, ImportTx
<1>3. ImportRun' BY DEF ImportRun, ImportTx, I!Applicable
<1>4. ImportUi' BY DEF ImportUi, ImportTx, ImportPlan, ImportRun
<1>5. ImportPlanning' /\ ImportRunning' /\ ImportApplying' /\ ImportLeaving'
    /\ I!NothingForgotten'
  BY DEF ImportTx, ImportPlan, ImportRun, ImportUi, ImportPlanning, ImportRunning,
     ImportApplying, ImportLeaving, I!Applicable, I!NothingForgotten
<1>10. ImportStep BY DEF ImportTx, ImportPlan, ImportRun, ImportUi, ImportStep
<1> QED BY <1>1, <1>2, <1>3, <1>4, <1>5, <1>10

LEMMA ImportConfirmAgain ==
  ASSUME ImportControl, I!ConfirmAgain
  PROVE  ImportControl' /\ ImportStep
BY DEF I!ConfirmAgain, ImportControl, ImportFields, I!Fault, I!NoFault, I!Planning,
   I!Operation, I!Held, I!DiscardTx, I!Discards, I!Raises, I!DiscardOnce, I!Closed, I!Owed,
   I!Open, I!SameThreads, I!Left, I!DiscardPlan, I!Execution, I!CancelRun, I!Deaf, I!Asks,
   I!Down, ImportTx, ImportPlan, ImportRun, I!Applicable, ImportUi, ImportPlanning,
   ImportRunning, ImportApplying, ImportLeaving, I!NothingForgotten, ImportStep

LEMMA ImportPollApply ==
  ASSUME ImportControl, I!PollApply
  PROVE  ImportControl' /\ ImportStep
<1> USE DEF I!PollApply, ImportControl, ImportFields, I!Fault, I!NoFault, I!Planning,
    I!Operation, I!Held, I!DiscardTx, I!Discards, I!Raises, I!DiscardOnce, I!Closed, I!Owed,
    I!Open, I!SameThreads, I!Left, I!DiscardPlan, I!Execution, I!CancelRun, I!Deaf, I!Asks,
    I!Down
<1>1. ImportTx' BY DEF ImportTx
<1>2. ImportPlan' BY DEF ImportPlan, ImportTx
<1>3. ImportRun' BY DEF ImportRun, ImportTx, I!Applicable
<1>4. ImportUi' BY ZenonT(30) DEF ImportUi, ImportTx, ImportPlan, ImportRun
<1>5. ImportPlanning' /\ ImportRunning' /\ ImportApplying' /\ ImportLeaving'
    /\ I!NothingForgotten'
  BY DEF ImportTx, ImportPlan, ImportRun, ImportUi, ImportPlanning, ImportRunning,
     ImportApplying, ImportLeaving, I!Applicable, I!NothingForgotten
<1>10. ImportStep BY DEF ImportTx, ImportPlan, ImportRun, ImportUi, ImportStep
<1> QED BY <1>1, <1>2, <1>3, <1>4, <1>5, <1>10

LEMMA ImportQuitApplying ==
  ASSUME ImportControl, I!QuitApplying
  PROVE  ImportControl' /\ ImportStep
<1> USE DEF I!QuitApplying, ImportControl, ImportFields, I!Fault, I!NoFault, I!Planning,
    I!Operation, I!Held, I!DiscardTx, I!Discards, I!Raises, I!DiscardOnce, I!Closed, I!Owed,
    I!Open, I!SameThreads, I!Left, I!DiscardPlan, I!Execution, I!CancelRun, I!Deaf, I!Asks,
    I!Down
<1>1. ImportTx' BY DEF ImportTx
<1>2. ImportPlan' BY DEF ImportPlan, ImportTx
<1>3. ImportRun' BY DEF ImportRun, ImportTx, I!Applicable
<1>4. ImportUi' BY DEF ImportUi, ImportTx, ImportPlan, ImportRun
<1>5. ImportPlanning' /\ ImportRunning' /\ ImportApplying' /\ ImportLeaving'
    /\ I!NothingForgotten'
  BY DEF ImportTx, ImportPlan, ImportRun, ImportUi, ImportPlanning, ImportRunning,
     ImportApplying, ImportLeaving, I!Applicable, I!NothingForgotten
<1>10. ImportStep BY DEF ImportTx, ImportPlan, ImportRun, ImportUi, ImportStep
<1> QED BY <1>1, <1>2, <1>3, <1>4, <1>5, <1>10

LEMMA ImportCancelsRun ==
  ASSUME ImportFields, ImportRunning, ~work.done, work.apply = "none", I!CancelRun
  PROVE  /\ ImportTx' /\ ImportPlan' /\ ImportRun'
         /\ prep'.event /\ prep'.pc = prep.pc /\ prep'.done = prep.done
         /\ prep'.session = prep.session /\ prep'.error = prep.error
         /\ work'.pc = work.pc /\ work'.started = work.started /\ work'.cancelled
         /\ work'.error = work.error /\ work'.preview = work.preview /\ work'.apply = work.apply
         /\ work'.applying = work.applying
         /\ \/ /\ work.started /\ tx'.state = tx.state /\ tx'.real = tx.real /\ ~work'.done
               /\ work'.finished = work.finished /\ work'.closed = work.closed
            \/ /\ ~work.started /\ tx'.state # "active" /\ tx'.real = tx.real
               /\ tx'.state = tx.state \/ (I!Held /\ tx'.state \in {"closing", "discarded"})
<1> USE DEF ImportFields
<1>1. prep' = [prep EXCEPT !.event = TRUE] BY DEF I!CancelRun
<1>2. /\ ImportPlan' /\ prep'.event /\ prep'.pc = prep.pc /\ prep'.done = prep.done
      /\ prep'.session = prep.session /\ prep'.error = prep.error
  BY <1>1 DEF ImportPlan
<1>3. CASE work.started
  <2>1. work' = [work EXCEPT !.cancelled = TRUE] /\ UNCHANGED tx BY <1>3 DEF I!CancelRun
  <2>2. ImportTx' /\ ImportRun' BY <2>1 DEF ImportTx, ImportRun
  <2>3. /\ work'.pc = work.pc /\ work'.started = work.started /\ work'.cancelled
        /\ work'.error = work.error /\ work'.preview = work.preview /\ work'.apply = work.apply
        /\ work'.applying = work.applying /\ ~work'.done
        /\ work'.finished = work.finished /\ work'.closed = work.closed
    BY <2>1 DEF ImportRun
  <2>4. tx'.state = tx.state /\ tx'.real = tx.real BY <2>1
  <2> QED BY <1>2, <1>3, <2>2, <2>3, <2>4
<1>4. CASE ~work.started
  <2>1. /\ I!DiscardOnce
        /\ \/ work' = [work EXCEPT !.cancelled = TRUE, !.finished = TRUE, !.closed = TRUE,
              !.done = work.done \/ TRUE]
           \/ work' = [work EXCEPT !.cancelled = TRUE, !.finished = FALSE, !.closed = FALSE,
              !.done = work.done \/ FALSE]
    BY <1>4 DEF I!CancelRun, I!Closed, I!Discards
  <2>2. /\ ImportTx' /\ tx'.state # "active" /\ tx'.real = tx.real
        /\ tx'.state = tx.state \/ (I!Held /\ tx'.state \in {"closing", "discarded"})
    BY <2>1, ImportDiscardsOnce
  <2>3. ImportRun' BY <2>1 DEF ImportRun
  <2>4. /\ work'.pc = work.pc /\ work'.started = work.started /\ work'.cancelled
        /\ work'.error = work.error /\ work'.preview = work.preview /\ work'.apply = work.apply
        /\ work'.applying = work.applying
    BY <2>1 DEF ImportRun
  <2> QED BY <1>2, <1>4, <2>2, <2>3, <2>4
<1> QED BY <1>3, <1>4 DEF ImportRun

LEMMA ImportQuitRunning ==
  ASSUME ImportControl, I!QuitRunning
  PROVE  ImportControl' /\ ImportStep
<1> USE DEF ImportControl, ImportFields
<1>1. /\ ui.at = "exec" /\ ui.down = "no" /\ ui.busy /\ work.apply = "none" /\ ~work.done
      /\ I!CancelRun
      /\ ui' = [ui EXCEPT !.leave = TRUE,
         !.missed = ui.missed \/ (work.pc = "ending" /\ ~work.closed)]
  BY DEF I!QuitRunning, I!Open, I!Asks, I!Down, I!Deaf
<1>2. /\ ImportTx' /\ ImportPlan' /\ ImportRun'
      /\ prep'.event /\ prep'.pc = prep.pc /\ prep'.done = prep.done
      /\ prep'.session = prep.session /\ prep'.error = prep.error
      /\ work'.pc = work.pc /\ work'.started = work.started /\ work'.cancelled
      /\ work'.error = work.error /\ work'.preview = work.preview /\ work'.apply = work.apply
      /\ work'.applying = work.applying
      /\ \/ /\ work.started /\ tx'.state = tx.state /\ tx'.real = tx.real /\ ~work'.done
            /\ work'.finished = work.finished /\ work'.closed = work.closed
         \/ /\ ~work.started /\ tx'.state # "active" /\ tx'.real = tx.real
            /\ tx'.state = tx.state \/ (I!Held /\ tx'.state \in {"closing", "discarded"})
  BY <1>1, ImportCancelsRun
<1>3. /\ ImportUi' /\ ui'.at = "exec" /\ ui'.busy
      /\ ui'.owner = ui.owner /\ ui'.settled = ui.settled
      /\ ui'.missed <=> (ui.missed \/ (work.pc = "ending" /\ ~work.closed))
      /\ ui'.down = "no"
  BY <1>1 DEF ImportUi, ImportRun
<1>4. ImportPlanning' /\ ImportRunning' /\ ImportApplying' /\ ImportLeaving'
    /\ I!NothingForgotten'
  BY <1>1, <1>2, <1>3 DEF ImportTx, ImportPlan, ImportRun, ImportUi, ImportPlanning,
     ImportRunning, ImportApplying, ImportLeaving, I!Applicable, I!NothingForgotten
<1>9. ImportStep BY <1>1, <1>2 DEF ImportTx, ImportPlan, ImportRun, ImportUi, ImportStep
<1> QED BY <1>2, <1>3, <1>4, <1>9

LEMMA ImportQuitPreview ==
  ASSUME ImportControl, I!QuitPreview
  PROVE  ImportControl' /\ ImportStep
<1> USE DEF ImportControl, ImportFields
<1>1. ui.at = "exec" /\ ui.down = "no" /\ ~ui.busy /\ UNCHANGED prep
  BY DEF I!QuitPreview, I!Open, I!SameThreads
<1>2. CASE ui.settled /\ UNCHANGED <<tx, work>> /\ ui' = [I!Left EXCEPT !.settled = TRUE]
  BY <1>1, <1>2 DEF I!Left, I!Held, I!Planning, I!Operation, I!Execution, ImportTx,
     ImportPlan, ImportRun, ImportUi, ImportPlanning, ImportRunning, ImportApplying,
     ImportLeaving, I!Applicable, I!NothingForgotten, ImportStep
<1>3. CASE I!DiscardOnce /\ work' = [work EXCEPT !.finished = TRUE, !.closed = TRUE]
    /\ ui' = [I!Left EXCEPT !.settled = TRUE]
  <2>20. /\ ImportTx' /\ tx'.state # "active" /\ tx'.real = tx.real
         /\ tx'.state = tx.state \/ (I!Held /\ tx'.state \in {"closing", "discarded"})
    BY <1>3, ImportDiscardsOnce
  <2> QED
    BY <2>20, <1>1, <1>3 DEF I!Left, I!Held, I!Planning, I!Operation, I!Execution,
       ImportPlan, ImportRun, ImportUi, ImportTx, ImportPlanning, ImportRunning,
       ImportApplying, ImportLeaving, I!Applicable, I!NothingForgotten, ImportStep
<1>4. CASE I!DiscardOnce /\ work' = [work EXCEPT !.finished = FALSE, !.closed = FALSE]
    /\ UNCHANGED ui
  <2>20. /\ ImportTx' /\ tx'.state # "active" /\ tx'.real = tx.real
         /\ tx'.state = tx.state \/ (I!Held /\ tx'.state \in {"closing", "discarded"})
    BY <1>4, ImportDiscardsOnce
  <2> QED
    BY <2>20, <1>1, <1>4 DEF I!Left, I!Held, I!Planning, I!Operation, I!Execution,
       ImportPlan, ImportRun, ImportUi, ImportTx, ImportPlanning, ImportRunning,
       ImportApplying, ImportLeaving, I!Applicable, I!NothingForgotten, ImportStep
<1> QED
  BY <1>1, <1>2, <1>3, <1>4, Zenon DEF I!QuitPreview, I!Raises, I!Owed, I!Discards,
     I!Closed, ImportTx, ImportPlan, ImportRun, ImportUi

LEMMA ImportUnmountSelection ==
  ASSUME ImportControl, I!UnmountSelection
  PROVE  ImportControl' /\ ImportStep
<1> USE DEF ImportControl, ImportFields
<1>1. ui.at = "select" /\ ui.down = "no" /\ UNCHANGED work
  BY DEF I!UnmountSelection, I!Open, I!SameThreads
<1>2. CASE ui.busy /\ UNCHANGED tx /\ prep' = [prep EXCEPT !.event = TRUE]
    /\ ui' = [ui EXCEPT !.down = "unmounted", !.missed = ui.missed \/ (prep.session
    /\ prep.pc \in {"ending", "end"})]
  <2> USE <1>1, <1>2 DEF I!Left, I!Held, I!Planning, I!Operation, I!Execution
  <2>1. ImportTx' BY DEF ImportTx
  <2>2. ImportPlan' BY DEF ImportPlan
  <2>3. ImportRun' BY DEF ImportRun
  <2>4. ImportUi' BY DEF ImportUi
  <2>5. ImportPlanning' /\ ImportRunning' /\ ImportApplying' /\ ImportLeaving'
      /\ I!NothingForgotten'
    BY DEF ImportTx, ImportPlan, ImportRun, ImportUi, ImportPlanning, ImportRunning,
       ImportApplying, ImportLeaving, I!Applicable, I!NothingForgotten
  <2>10. ImportStep BY DEF ImportTx, ImportPlan, ImportRun, ImportUi, ImportStep
  <2> QED BY <2>1, <2>2, <2>3, <2>4, <2>5, <2>10
<1>3. CASE ~ui.busy /\ I!DiscardTx /\ UNCHANGED prep
    /\ ui' = [ui EXCEPT !.down = "unmounted", !.missed = ui.missed \/ FALSE]
  <2>20. /\ ImportTx' /\ tx'.state # "active" /\ tx'.real = tx.real
         /\ tx'.state = tx.state \/ (I!Held /\ tx'.state \in {"closing", "discarded"})
    BY <1>3, ImportDiscards
  <2> QED
    BY <2>20, <1>1, <1>3 DEF I!Left, I!Held, I!Planning, I!Operation, I!Execution,
       ImportPlan, ImportRun, ImportUi, ImportTx, ImportPlanning, ImportRunning,
       ImportApplying, ImportLeaving, I!Applicable, I!NothingForgotten, ImportStep
<1>4. CASE ~ui.busy /\ UNCHANGED <<tx, prep>>
    /\ ui' = [ui EXCEPT !.down = "unmounted", !.missed = ui.missed \/ FALSE]
  BY <1>1, <1>4 DEF I!Left, I!Held, I!Planning, I!Operation, I!Execution, ImportTx,
     ImportPlan, ImportRun, ImportUi, ImportPlanning, ImportRunning, ImportApplying,
     ImportLeaving, I!Applicable, I!NothingForgotten, ImportStep
<1> QED
  BY <1>1, <1>2, <1>3, <1>4 DEF I!UnmountSelection, I!Raises, I!Owed, I!Discards, I!Closed,
     I!Down, ImportTx, ImportPlan, ImportRun, ImportUi

LEMMA ImportUnmountIdle ==
  ASSUME ImportControl, I!UnmountIdle
  PROVE  ImportControl' /\ ImportStep
<1> USE DEF I!UnmountIdle, ImportControl, ImportFields, I!Fault, I!NoFault, I!Planning,
    I!Operation, I!Held, I!DiscardTx, I!Discards, I!Raises, I!DiscardOnce, I!Closed, I!Owed,
    I!Open, I!SameThreads, I!Left, I!DiscardPlan, I!Execution, I!CancelRun, I!Deaf, I!Asks,
    I!Down
<1>1. ImportTx' BY DEF ImportTx
<1>2. ImportPlan' BY DEF ImportPlan, ImportTx
<1>3. ImportRun' BY ZenonT(30) DEF ImportRun, ImportTx, I!Applicable
<1>4. ImportUi' BY DEF ImportUi, ImportTx, ImportPlan, ImportRun
<1>5. ImportPlanning' /\ ImportRunning' /\ ImportApplying' /\ ImportLeaving'
    /\ I!NothingForgotten'
  BY DEF ImportTx, ImportPlan, ImportRun, ImportUi, ImportPlanning, ImportRunning,
     ImportApplying, ImportLeaving, I!Applicable, I!NothingForgotten
<1>10. ImportStep BY DEF ImportTx, ImportPlan, ImportRun, ImportUi, ImportStep
<1> QED BY <1>1, <1>2, <1>3, <1>4, <1>5, <1>10

LEMMA ImportUnmountBusy ==
  ASSUME ImportControl, I!UnmountBusy
  PROVE  ImportControl' /\ ImportStep
<1> USE DEF ImportControl, ImportFields
<1>1. ui.at = "exec" /\ ui.down = "no" /\ ui.busy
  BY DEF I!UnmountBusy, I!Open, I!SameThreads
<1>2. CASE work.apply # "none" /\ UNCHANGED <<tx, work>>
    /\ prep' = [prep EXCEPT !.event = TRUE]
    /\ ui' = [ui EXCEPT !.down = "unmounted", !.missed = ui.missed \/ FALSE]
  <2> USE <1>1, <1>2 DEF I!Left, I!Held, I!Planning, I!Operation, I!Execution
  <2>1. ImportTx' BY DEF ImportTx
  <2>2. ImportPlan' BY DEF ImportPlan
  <2>3. ImportRun' BY DEF ImportRun
  <2>4. ImportUi' BY DEF ImportUi
  <2>5. ImportPlanning' /\ ImportRunning' /\ ImportApplying' /\ ImportLeaving'
      /\ I!NothingForgotten'
    BY DEF ImportTx, ImportPlan, ImportRun, ImportUi, ImportPlanning, ImportRunning,
       ImportApplying, ImportLeaving, I!Applicable, I!NothingForgotten
  <2>10. ImportStep BY DEF ImportTx, ImportPlan, ImportRun, ImportUi, ImportStep
  <2> QED BY <2>1, <2>2, <2>3, <2>4, <2>5, <2>10
<1>3. CASE work.apply = "none" /\ ~work.done
  <2>1. /\ ui.at = "exec" /\ ui.down = "no" /\ ui.busy /\ work.apply = "none" /\ ~work.done
        /\ I!CancelRun
        /\ ui' = [ui EXCEPT !.down = "unmounted",
           !.missed = ui.missed \/ (work.pc = "ending" /\ ~work.closed)]
    BY <1>3 DEF I!UnmountBusy, I!Open, I!Asks, I!Down, I!Deaf
  <2>2. /\ ImportTx' /\ ImportPlan' /\ ImportRun'
        /\ prep'.event /\ prep'.pc = prep.pc /\ prep'.done = prep.done
        /\ prep'.session = prep.session /\ prep'.error = prep.error
        /\ work'.pc = work.pc /\ work'.started = work.started /\ work'.cancelled
        /\ work'.error = work.error /\ work'.preview = work.preview /\ work'.apply = work.apply
        /\ work'.applying = work.applying
        /\ \/ /\ work.started /\ tx'.state = tx.state /\ tx'.real = tx.real /\ ~work'.done
              /\ work'.finished = work.finished /\ work'.closed = work.closed
           \/ /\ ~work.started /\ tx'.state # "active" /\ tx'.real = tx.real
              /\ tx'.state = tx.state \/ (I!Held /\ tx'.state \in {"closing", "discarded"})
    BY <2>1, ImportCancelsRun
  <2>3. /\ ImportUi' /\ ui'.at = "exec" /\ ui'.busy
        /\ ui'.owner = ui.owner /\ ui'.settled = ui.settled
        /\ ui'.missed <=> (ui.missed \/ (work.pc = "ending" /\ ~work.closed))
        /\ ui'.down = "unmounted"
    BY <2>1 DEF ImportUi, ImportRun
  <2>4. ImportPlanning' /\ ImportRunning' /\ ImportApplying' /\ ImportLeaving'
      /\ I!NothingForgotten'
    BY <2>1, <2>2, <2>3 DEF ImportTx, ImportPlan, ImportRun, ImportUi, ImportPlanning,
       ImportRunning, ImportApplying, ImportLeaving, I!Applicable, I!NothingForgotten
  <2>9. ImportStep BY <2>1, <2>2 DEF ImportTx, ImportPlan, ImportRun, ImportUi, ImportStep
  <2> QED BY <2>2, <2>3, <2>4, <2>9
<1>4. CASE work.apply = "none" /\ work.done /\ UNCHANGED <<tx, work, prep>>
    /\ ui' = [ui EXCEPT !.down = "unmounted", !.missed = ui.missed \/ ~work.closed]
  <2> USE <1>1, <1>4 DEF I!Left, I!Held, I!Planning, I!Operation, I!Execution
  <2>1. ImportTx' BY DEF ImportTx
  <2>2. ImportPlan' BY DEF ImportPlan
  <2>3. ImportRun' BY ZenonT(30) DEF ImportRun
  <2>4. ImportUi' BY DEF ImportUi
  <2>5. ImportPlanning'
    BY DEF ImportTx, ImportPlan, ImportRun, ImportUi, ImportPlanning, ImportRunning,
       ImportApplying, ImportLeaving, I!Applicable
  <2>6. ImportRunning'
    BY DEF ImportTx, ImportPlan, ImportRun, ImportUi, ImportPlanning, ImportRunning,
       ImportApplying, ImportLeaving, I!Applicable
  <2>7. ImportApplying'
    BY DEF ImportTx, ImportPlan, ImportRun, ImportUi, ImportPlanning, ImportRunning,
       ImportApplying, ImportLeaving, I!Applicable
  <2>8. ImportLeaving'
    BY Zenon DEF ImportTx, ImportPlan, ImportRun, ImportUi, ImportPlanning, ImportRunning,
       ImportApplying, ImportLeaving, I!Applicable
  <2>9. I!NothingForgotten'
    BY Zenon DEF ImportTx, ImportPlan, ImportRun, ImportUi, ImportPlanning, ImportRunning,
       ImportApplying, ImportLeaving, I!Applicable, I!NothingForgotten
  <2>10. ImportStep BY DEF ImportTx, ImportPlan, ImportRun, ImportUi, ImportStep
  <2> QED BY <2>1, <2>2, <2>3, <2>4, <2>5, <2>6, <2>7, <2>8, <2>9, <2>10
<1> QED
  BY <1>1, <1>2, <1>3, <1>4 DEF I!UnmountBusy, I!Raises, I!Owed, I!Discards, I!Closed,
     I!Down, ImportTx, ImportPlan, ImportRun, ImportUi

LEMMA ImportDrain == ASSUME ImportControl, I!Drain PROVE ImportControl' /\ ImportStep
BY DEF I!Drain, ImportControl, ImportFields, I!Fault, I!NoFault, I!Planning, I!Operation,
   I!Held, I!DiscardTx, I!Discards, I!Raises, I!DiscardOnce, I!Closed, I!Owed, I!Open,
   I!SameThreads, I!Left, I!DiscardPlan, I!Execution, I!CancelRun, I!Deaf, I!Asks, I!Down,
   ImportTx, ImportPlan, ImportRun, I!Applicable, ImportUi, ImportPlanning, ImportRunning,
   ImportApplying, ImportLeaving, I!NothingForgotten, ImportStep

LEMMA ImportEdit == ASSUME ImportControl, I!Edit PROVE ImportControl' /\ ImportStep
BY DEF I!Edit, ImportControl, ImportFields, I!Fault, I!NoFault, I!Planning, I!Operation,
   I!Held, I!DiscardTx, I!Discards, I!Raises, I!DiscardOnce, I!Closed, I!Owed, I!Open,
   I!SameThreads, I!Left, I!DiscardPlan, I!Execution, I!CancelRun, I!Deaf, I!Asks, I!Down,
   ImportTx, ImportPlan, ImportRun, I!Applicable, ImportUi, ImportPlanning, ImportRunning,
   ImportApplying, ImportLeaving, I!NothingForgotten, ImportStep

LEMMA ImportNext ==
  ASSUME ImportControl, I!Next PROVE ImportControl' /\ ImportStep
BY ImportPlanCreate, ImportPlanVerify, ImportPlanUndo, ImportPlanSettle, ImportPlanDone,
   ImportRunStart, ImportRunCancelled, ImportRunFails, ImportRunCheck, ImportRunResolve,
   ImportRunStage, ImportRunVerify, ImportRunFinally, ImportRunDone, ImportApplyBegin,
   ImportApplyCheck, ImportApplyPublish, ImportApplyUndo, ImportStartPlanning,
   ImportPollPlanning, ImportLeaveSelection, ImportContinue, ImportExecute,
   ImportBackToConflicts, ImportQuitConflicts, ImportPollRun, ImportConfirm,
   ImportConfirmAgain, ImportPollApply, ImportQuitApplying, ImportQuitRunning,
   ImportQuitPreview, ImportUnmountSelection, ImportUnmountIdle, ImportUnmountBusy,
   ImportDrain, ImportEdit
   DEF I!Next, I!PlanNext, I!RunNext, I!ApplyNext, I!ScreenNext

-----------------------------------------------------------------------------
(* The application of profiles, exact selections and interactive adds,     *)
(* which need little: the next step says what the state of the transaction *)
(* is.                                                                     *)

(* Profiles: the transaction is open from its creation to the apply or the *)
(* discard.                                                                *)
ProfilesControl ==
  /\ DOMAIN tx = {"state", "start", "real", "staged"}
  /\ DOMAIN prep = {"pc", "entries", "done", "error", "task", "graph"}
  /\ tx.state \in {"none", "active", "applied", "discarded"}
  /\ prep.pc \in {"create", "collect", "stage", "refresh", "check", "entries", "apply",
                  "finally", "end"}
  /\ prep.pc = "create" => tx.state = "none"
  /\ prep.pc \notin {"create", "finally", "end"} => tx.state = "active"

ProfilesStep ==
  \/ UNCHANGED <<tx.state, tx.real>>
  \/ tx.state = "none" /\ tx'.state = "active" /\ tx'.real = tx.real
  \/ tx.state = "active" /\ tx'.state = "applied"
  \/ tx.state = "active" /\ tx'.state = "discarded" /\ tx'.real = tx.real

LEMMA ProfilesInitially == P!Init => ProfilesControl
BY DEF P!Init, P!Idle, ProfilesControl

LEMMA ProfilesNext == ASSUME ProfilesControl, P!Next PROVE ProfilesControl' /\ ProfilesStep
<1> USE DEF ProfilesControl, ProfilesStep, P!Goes, P!Raises
<1>1. CASE P!Create
  BY <1>1 DEF P!Create
<1>2. CASE P!Interrupted
  BY <1>2 DEF P!Interrupted
<1>3. CASE P!Collect
  <2>1. CASE prep.pc = "collect" /\ UNCHANGED tx
      /\ prep' = [prep EXCEPT !.pc = "finally", !.error = TRUE]
    BY <2>1
  <2>2. CASE prep.pc = "collect" /\ UNCHANGED tx
      /\ \E g : prep' = [prep EXCEPT !.pc = "stage", !.task = <<P!Task(tx.staged)>>,
      !.graph = <<g>>]
    BY <2>2
  <2>3. QED BY <1>3, <2>1, <2>2 DEF P!Collect
<1>4. CASE P!Stage
  BY <1>4 DEF P!Stage
<1>5. CASE P!Refresh
  BY <1>5 DEF P!Refresh
<1>6. CASE P!Check
  BY <1>6 DEF P!Check
<1>7. CASE P!Entry
  <2>1. CASE prep.pc = "entries" /\ UNCHANGED tx
      /\ prep' = [prep EXCEPT !.pc = "finally", !.error = TRUE]
    BY <2>1
  <2>2. CASE prep.pc = "entries" /\ prep' = [prep EXCEPT !.done = @ + 1]
      /\ \E p : tx' = [tx EXCEPT !.staged = p]
    BY <2>2
  <2>3. QED BY <1>7, <2>1, <2>2 DEF P!Entry
<1>8. CASE P!Merge
  BY <1>8 DEF P!Merge
<1>9. CASE P!Apply
  BY <1>9 DEF P!Apply
<1>10. CASE P!Discard
  BY <1>10 DEF P!Discard
<1>11. QED BY <1>1, <1>2, <1>3, <1>4, <1>5, <1>6, <1>7, <1>8, <1>9, <1>10 DEF P!Next

ExactState == state \in {"active", "applied", "discarded"}

ExactStep ==
  \/ UNCHANGED <<state, real>>
  \/ state = "active" /\ state' = "applied"
  \/ state = "active" /\ state' = "discarded" /\ real' = real

LEMMA ExactStateInitially == X!Init => ExactState
BY DEF X!Init, ExactState

LEMMA ExactStateNext == ASSUME ExactState, X!Next PROVE ExactState' /\ ExactStep
<1> USE DEF ExactState, ExactStep
<1>1. CASE X!Apply
  BY <1>1 DEF X!Apply, X!Usable
<1>2. CASE X!Discard
  BY <1>2 DEF X!Discard
<1>3. CASE ~X!Apply /\ ~X!Discard
  <2>1. UNCHANGED <<state, real>>
    BY <1>3 DEF X!Next, X!PrepareBegins, X!PrepareCheckpoints, X!PrepareStages,
       X!PrepareSucceeds,
       X!PrepareFails, X!PrepareRestores, X!CancelPrepare, X!Accept, X!RollbackPending,
       X!RollbackAccepted, X!Change, X!ChangeIntent, X!Outside
  <2>2. QED BY <2>1
<1>4. QED BY <1>1, <1>2, <1>3

(* An add: the transaction is open as long as nobody has asked for the     *)
(* discard, which the discarding thread alone ends.                        *)
AddControl ==
  /\ active \in BOOLEAN
  /\ discard \in {"active", "discarding", "discarded", "failed"}
  /\ active <=> discard = "active"
  /\ dpc \notin {"none", "done"} => discard = "discarding"

AddStep ==
  \/ UNCHANGED <<active, discard>>
  \/ active /\ ~active' /\ discard' \in {"discarding", "discarded"}
  \/ discard \in {"discarding", "failed"} /\ ~active /\ ~active'
     /\ discard' \in {"discarding", "failed", "discarded"}

LEMMA AddInitially == A!Init => AddControl
BY DEF A!Init, AddControl

(* Cancelling an add neither opens nor closes the transaction, nor does    *)
(* any step of the adding worker.                                          *)
LEMMA AddCancels ==
  ASSUME NEW o, NEW b, A!CancelOperation(o, b) PROVE UNCHANGED <<active, discard>>
BY DEF A!CancelOperation

LEMMA AddOperates ==
  ASSUME NEW o \in Adds.Op,
         A!BeginAdd(o) \/ A!StartAdd(o) \/ A!StartFails(o) \/ A!UserCancels(o)
         \/ A!CancelMenu(o) \/ A!GroupExits(o) \/ A!WorkerStep(o)
  PROVE  UNCHANGED <<active, discard, dpc>>
<1>1. CASE A!UserCancels(o)
  BY <1>1, AddCancels DEF A!UserCancels, A!closer
<1>2. CASE A!BeginAdd(o) \/ A!StartAdd(o) \/ A!StartFails(o) \/ A!CancelMenu(o) \/ A!GroupExits(o)
  BY <1>2 DEF A!BeginAdd, A!StartAdd, A!StartFails, A!CancelMenu, A!GroupExits, A!tx,
     A!closer
<1>3. CASE A!WorkerStep(o)
  BY <1>3 DEF A!WorkerStep, A!Prepare, A!Copied, A!Launch, A!SessionEnds, A!Record,
     A!Finish,
     A!Merge, A!Commit, A!Rollback, A!Settle, A!Complete, A!tx, A!closer
<1>4. QED BY <1>1, <1>2, <1>3

LEMMA AddNext == ASSUME AddControl, A!Next PROVE AddControl' /\ AddStep
<1> USE DEF AddControl, AddStep
<1>1. CASE \E o \in Adds.Op : \/ A!BeginAdd(o) \/ A!StartAdd(o) \/ A!StartFails(o)
                         \/ A!UserCancels(o) \/ A!CancelMenu(o) \/ A!GroupExits(o) \/ A!WorkerStep(o)
  <2>1. UNCHANGED <<active, discard, dpc>>
    BY <1>1, AddOperates
  <2>2. QED BY <2>1
<1>2. CASE A!ApplyStarts
  BY <1>2 DEF A!ApplyStarts, A!tx
<1>3. CASE A!ApplyEnds
  <2>1. CASE UNCHANGED <<active, discard, dpc>>
    BY <2>1
  <2>2. CASE active /\ active' = FALSE /\ discard' = "discarded" /\ UNCHANGED dpc
    BY <2>2
  <2>3. QED BY <1>3, <2>1, <2>2 DEF A!ApplyEnds, A!closer
<1>4. CASE A!BeginDiscard
  BY <1>4 DEF A!BeginDiscard, A!Discarder
<1>5. CASE A!DiscardStep
  <2>1. CASE A!DiscardStarts \/ A!Look \/ A!Enter \/ A!Await \/ A!Judge
    BY <2>1 DEF A!DiscardStarts, A!Look, A!Enter, A!Await, A!Judge, A!Discarder, A!tx
  <2>2. CASE A!CancelFirst \/ A!CancelAgain
    BY <2>2, AddCancels DEF A!CancelFirst, A!CancelAgain, A!CancelRunning, A!Discarder, A!tx
  <2>3. CASE A!RetryCleanup
    BY <2>3, AddCancels DEF A!RetryCleanup, A!Discarder, A!tx
  <2>4. CASE A!FinishDiscard
    BY <2>4 DEF A!FinishDiscard, A!Discarder
  <2>5. CASE A!DiscardFails
    BY <2>5 DEF A!DiscardFails, A!Discarder
  <2>6. QED BY <1>5, <2>1, <2>2, <2>3, <2>4, <2>5 DEF A!DiscardStep
<1>6. QED BY <1>1, <1>2, <1>3, <1>4, <1>5 DEF A!Next

-----------------------------------------------------------------------------
(* Whatever works on the transaction. *)

(* The inductive invariant: that of the kind of work the transaction       *)
(* belongs to.                                                             *)
PreparedControl ==
  /\ kind \in {"add", "exact", "update", "loader", "profiles", "import", "versions"}
  /\ kind = "add" => AddControl
  /\ kind = "exact" => ExactState
  /\ kind = "update" => UpdateControl
  /\ kind = "loader" => LoaderControl
  /\ kind = "profiles" => ProfilesControl
  /\ kind = "import" => ImportControl
  /\ kind = "versions" => VersionControl

ControlledChange == [Change!Next]_<<TransactionState, Source>>

(* The invariant holds at first, every step keeps it, and every step is a  *)
(* step of PreparedChange or leaves the state and the source as they are.  *)
LEMMA ControlInitially == Init => PreparedControl /\ Change!Init
<1> SUFFICES ASSUME Init PROVE PreparedControl /\ Change!Init
  OBVIOUS
<1> USE DEF Init, PreparedControl, Change!Init, TransactionState
<1>1. CASE kind = "add" /\ A!Init
  BY <1>1, AddInitially DEF A!Init
<1>2. CASE kind = "exact" /\ X!Init
  BY <1>2, ExactStateInitially DEF X!Init
<1>3. CASE kind = "update" /\ U!Init
  BY <1>3, UpdateInitially DEF U!Init
<1>4. CASE kind = "loader" /\ L!Init
  BY <1>4, LoaderInitially DEF L!Init
<1>5. CASE kind = "profiles" /\ P!Init
  BY <1>5, ProfilesInitially DEF P!Init
<1>6. CASE kind = "import" /\ I!Init
  BY <1>6, ImportInitially DEF I!Init
<1>7. CASE kind = "versions" /\ V!Init
  BY <1>7, VersionInitially DEF V!Init
<1>8. QED BY <1>1, <1>2, <1>3, <1>4, <1>5, <1>6, <1>7

LEMMA AddStutters == ASSUME AddControl, UNCHANGED adding PROVE AddControl'
BY DEF adding, AddControl
LEMMA ExactStutters == ASSUME ExactState, UNCHANGED exactly PROVE ExactState'
BY DEF exactly, ExactState
LEMMA UpdateStutters == ASSUME UpdateControl, UNCHANGED threads PROVE UpdateControl'
BY DEF threads, UpdateControl, UpdateFields, UpdateTx, UpdatePrep, UpdateWork, UpdateUi,
   UpdateThread, UpdateScreen, U!NothingForgotten, U!Held
LEMMA LoaderStutters == ASSUME LoaderControl, UNCHANGED threads PROVE LoaderControl'
<1> USE DEF LoaderControl, threads
<1>1. LoaderFields'
  BY DEF LoaderFields, LoaderTx, LoaderPrep, LoaderUi
<1>2. LoaderThread' /\ LoaderSource' /\ LoaderScreen'
  BY DEF LoaderThread, LoaderSource, LoaderScreen
<1>3. LoaderReady' /\ L!AppliedIsPreviewed'
  BY DEF LoaderReady, L!AppliedIsPreviewed, L!Admissible
<1>4. QED BY <1>1, <1>2, <1>3
LEMMA ProfilesStutters == ASSUME ProfilesControl, UNCHANGED threads PROVE ProfilesControl'
BY DEF threads, ProfilesControl
LEMMA ImportStutters == ASSUME ImportControl, UNCHANGED threads PROVE ImportControl'
BY DEF threads, ImportControl, ImportFields, ImportTx, ImportPlan, ImportRun, ImportUi,
   ImportPlanning, ImportRunning, ImportApplying, ImportLeaving, I!NothingForgotten,
   I!Applicable
LEMMA VersionStutters == ASSUME VersionControl, UNCHANGED threads PROVE VersionControl'
BY DEF threads, VersionControl, VersionFields, VersionTx, VersionWorker, VersionUi,
   VersionThread, VersionScreen, VersionKnown, V!NothingForgotten, V!Own, V!Getter

LEMMA ControlNext ==
  ASSUME PreparedControl, [Next]_vars PROVE PreparedControl' /\ ControlledChange
<1> USE DEF PreparedControl, ControlledChange
<1>1. CASE UNCHANGED vars
  <2>1. kind' = kind /\ UNCHANGED threads /\ UNCHANGED exactly /\ UNCHANGED adding
    BY <1>1 DEF vars
  <2>2. PreparedControl'
    BY <2>1, AddStutters, ExactStutters, UpdateStutters, LoaderStutters, ProfilesStutters,
       ImportStutters, VersionStutters
  <2>3. UNCHANGED <<TransactionState, Source>>
    BY <2>1 DEF threads, exactly, adding, TransactionState, Source
  <2>4. QED BY <2>2, <2>3
<1>2. CASE Adding /\ A!Next
  <2>1. AddControl' /\ AddStep /\ kind = "add" /\ kind' = "add" /\ AddControl
    BY <1>2, AddNext DEF Adding
  <2>2. Change!Next \/ UNCHANGED <<TransactionState, Source>>
    BY <2>1 DEF AddControl, AddStep, TransactionState, Source, Change!Next, Change!Begin,
       Change!Apply, Change!Close
  <2>3. QED BY <2>1, <2>2
<1>3. CASE Selecting /\ X!Next
  <2>1. ExactState' /\ ExactStep /\ kind = "exact" /\ kind' = "exact" /\ ExactState
    BY <1>3, ExactStateNext DEF Selecting
  <2>2. Change!Next \/ UNCHANGED <<TransactionState, Source>>
    BY <2>1 DEF ExactState, ExactStep, TransactionState, Source, Change!Next, Change!Begin,
       Change!Apply, Change!Close
  <2>3. QED BY <2>1, <2>2
<1>4. CASE Working("update") /\ U!Next
  <2>1. UpdateControl' /\ UpdateStep /\ kind = "update" /\ kind' = "update" /\ UpdateControl
    BY <1>4, UpdateNext DEF Working
  <2>2. UpdateTx /\ UpdateTx'
    BY <2>1 DEF UpdateControl, UpdateFields
  <2>3. Change!Next \/ UNCHANGED <<TransactionState, Source>>
    BY <2>1, <2>2 DEF UpdateTx, UpdateStep, U!Held, TransactionState, Source, Change!Next,
       Change!Begin, Change!Apply, Change!Close
  <2>4. QED BY <2>1, <2>3
<1>5. CASE Working("loader") /\ L!Next
  <2>1. LoaderControl' /\ LoaderStep /\ kind = "loader" /\ kind' = "loader" /\ LoaderControl
    BY <1>5, LoaderNext DEF Working
  <2>2. LoaderTx /\ LoaderTx'
    BY <2>1 DEF LoaderControl, LoaderFields
  <2>3. Change!Next \/ UNCHANGED <<TransactionState, Source>>
    BY <2>1, <2>2 DEF LoaderTx, LoaderStep, L!Held, TransactionState, Source, Change!Next,
       Change!Begin, Change!Apply, Change!Close
  <2>4. QED BY <2>1, <2>3
<1>6. CASE Working("profiles") /\ P!Next
  <2>1. ProfilesControl' /\ ProfilesStep /\ kind = "profiles" /\ kind' = "profiles"
        /\ ProfilesControl
    BY <1>6, ProfilesNext DEF Working
  <2>2. Change!Next \/ UNCHANGED <<TransactionState, Source>>
    BY <2>1 DEF ProfilesControl, ProfilesStep, TransactionState, Source, Change!Next,
       Change!Begin, Change!Apply, Change!Close
  <2>3. QED BY <2>1, <2>2
<1>7. CASE Working("import") /\ I!Next
  <2>1. ImportControl' /\ ImportStep /\ kind = "import" /\ kind' = "import" /\ ImportControl
    BY <1>7, ImportNext DEF Working
  <2>2. ImportTx /\ ImportTx'
    BY <2>1 DEF ImportControl, ImportFields
  <2>3. Change!Next \/ UNCHANGED <<TransactionState, Source>>
    BY <2>1, <2>2 DEF ImportTx, ImportStep, I!Held, TransactionState, Source, Change!Next,
       Change!Begin, Change!Apply, Change!Close
  <2>4. QED BY <2>1, <2>3
<1>8. CASE Working("versions") /\ V!Next
  <2>1. VersionControl' /\ VersionStep /\ kind = "versions" /\ kind' = "versions"
        /\ VersionControl
    BY <1>8, VersionNext DEF Working
  <2>2. VersionTx /\ VersionTx'
    BY <2>1 DEF VersionControl, VersionFields
  <2>3. Change!Next \/ UNCHANGED <<TransactionState, Source>>
    BY <2>1, <2>2 DEF VersionTx, VersionStep, V!Held, TransactionState, Source, Change!Next,
       Change!Begin, Change!Apply, Change!Close
  <2>4. QED BY <2>1, <2>3
<1>9. QED BY <1>1, <1>2, <1>3, <1>4, <1>5, <1>6, <1>7, <1>8 DEF Next

(* The invariant holds always. *)
THEOREM Controlled == Spec => []PreparedControl
<1>1. Init => PreparedControl
  BY ControlInitially
<1>2. PreparedControl /\ [Next]_vars => PreparedControl'
  BY ControlNext
<1>3. QED BY <1>1, <1>2, PTL DEF Spec

(* A transaction that is neither applied nor discarded is in the hands of  *)
(* a thread, a screen or the application, whatever step failed or was      *)
(* cancelled; but not when a discard failed, when the exit stopped waiting *)
(* for a thread, or when the cancel came after its thread's last look.     *)
THEOREM TransactionsAreHeld == Spec => []NothingForgotten
<1>1. PreparedControl => NothingForgotten
  BY LoaderKeepsHold DEF PreparedControl, NothingForgotten, UpdateControl, ImportControl,
     VersionControl
<1>2. QED BY <1>1, Controlled, PTL

(* Whatever works on the transaction implements PreparedChange: the source *)
(* of the Pack changes only when an open transaction is applied, and one   *)
(* that is being discarded is neither applied nor opened again.            *)
THEOREM PreparedImplementsChange == Spec => ImplementsPrepared
<1>1. Init => Change!Init
  BY ControlInitially
<1>2. PreparedControl /\ [Next]_vars => [Change!Next]_<<TransactionState, Source>>
  BY ControlNext DEF ControlledChange
<1>3. QED BY <1>1, <1>2, Controlled, PTL DEF Spec, ImplementsPrepared, Change!Spec

-----------------------------------------------------------------------------
(* The publication itself, for any set of outside directories and any      *)
(* number of outside edits and interrupts.                                 *)

(* A directory is at one place at most. *)
Apart == \A p, q \in Place : p # q /\ at[p] = at[q] => at[p] = None

(* The original never gets behind the names of the staged copy, so setting *)
(* the copy aside cannot set the original aside.                           *)
OrigStaysApart ==
  /\ Stage \notin seen
  /\ at["staged"] # Orig /\ pin.staged # Orig
  /\ at["failed"] # Orig
  /\ step = "setAside" => at["real"] # Orig
  /\ step \in {"idle", "copy"} => \A p \in Place : at[p] # Stage

(* What the steps between two checks rely on. *)
PinsHold ==
  /\ step \in {"compare", "move", "checkBackup"} => pin.real # None
  /\ step = "putBack" /\ ~cleaned => at["backup"] = pin.real
  /\ step \in {"checkStaged", "install", "checkInstalled", "finish", "done"} /\ ~cleaned =>
       at["backup"] = pin.real /\ pin.real # None /\ content[at["backup"]] = base.source

IInv == TypeOK /\ NothingLost /\ Apart /\ OrigStaysApart /\ PinsHold

USE DirAssumption, BoundsAssumption

LEMMA InitIInv == PublicationInit => IInv
<1> SUFFICES ASSUME PublicationInit PROVE IInv
  OBVIOUS
<1> USE DEF PublicationInit, Place, Dir
<1>1. TypeOK
  <2>1. 0 \in 0..MaxStamp /\ 0 \in 0..MaxStops
    OBVIOUS
  <2>2. at \in [Place -> Dir \cup {None}]
    OBVIOUS
  <2>3. /\ base \in [source : 0..MaxStamp, config : 0..MaxStamp]
        /\ pin \in [staged : Dir \cup {None}, real : Dir \cup {None}]
    BY <2>1
  <2> QED BY <2>1, <2>2, <2>3 DEF TypeOK, Phase
<1>2. at["real"] = Orig /\ \A p \in Place : p # "real" => at[p] = None
  OBVIOUS
<1>3. NothingLost
  BY <1>2 DEF NothingLost
<1>4. Apart
  BY <1>2 DEF Apart
<1>5. OrigStaysApart /\ PinsHold
  BY <1>2 DEF OrigStaysApart, PinsHold
<1> QED BY <1>1, <1>3, <1>4, <1>5 DEF IInv

LEMMA NextTypeOK == TypeOK /\ [PublicationNext]_publicationVars => TypeOK'
<1> SUFFICES ASSUME TypeOK, [PublicationNext]_publicationVars PROVE TypeOK'
  OBVIOUS
<1> USE DEF Goto, Keep, Raise, MoveOrRaise, CanRename, Renamed, Unchanged, DropTransaction,
    Bystanders, NewStamp, Reachable, fs
<1>1. ASSUME Snapshot PROVE TypeOK'
  BY <1>1 DEF Snapshot, TypeOK, Place, Dir, Phase
<1>2. ASSUME Copy PROVE TypeOK'
  BY <1>2 DEF Copy, TypeOK, Place, Dir, Phase
<1>3. ASSUME CheckCopy PROVE TypeOK'
  BY <1>3 DEF CheckCopy, TypeOK, Place, Dir, Phase
<1>4. ASSUME Verify PROVE TypeOK'
  BY <1>4 DEF Verify, TypeOK, Place, Dir, Phase
<1>5. ASSUME BeginApply PROVE TypeOK'
  BY <1>5 DEF BeginApply, TypeOK, Place, Dir, Phase
<1>6. ASSUME PinReal PROVE TypeOK'
  BY <1>6 DEF PinReal, TypeOK, Place, Dir, Phase
<1>7. ASSUME Compare PROVE TypeOK'
  BY <1>7 DEF Compare, TypeOK, Place, Dir, Phase
<1>8. ASSUME MoveOriginal PROVE TypeOK'
  BY <1>8 DEF MoveOriginal, TypeOK, Place, Dir, Phase
<1>9. ASSUME CheckBackup PROVE TypeOK'
  BY <1>9 DEF CheckBackup, TypeOK, Place, Dir, Phase
<1>10. ASSUME CheckStaged PROVE TypeOK'
  BY <1>10 DEF CheckStaged, TypeOK, Place, Dir, Phase
<1>11. ASSUME Install PROVE TypeOK'
  BY <1>11 DEF Install, TypeOK, Place, Dir, Phase
<1>12. ASSUME CheckInstalled PROVE TypeOK'
  BY <1>12 DEF CheckInstalled, TypeOK, Place, Dir, Phase
<1>13. ASSUME Finish PROVE TypeOK'
  BY <1>13 DEF Finish, TypeOK, Place, Dir, Phase
<1>14. ASSUME Handle PROVE TypeOK'
  BY <1>14 DEF Handle, TypeOK, Place, Dir, Phase
<1>15. ASSUME Rollback PROVE TypeOK'
  BY <1>15 DEF Rollback, TypeOK, Place, Dir, Phase
<1>16. ASSUME SetAside PROVE TypeOK'
  BY <1>16 DEF SetAside, TypeOK, Place, Dir, Phase
<1>17. ASSUME CheckAside PROVE TypeOK'
  BY <1>17 DEF CheckAside, TypeOK, Place, Dir, Phase
<1>18. ASSUME Restore PROVE TypeOK'
  BY <1>18 DEF Restore, TypeOK, Place, Dir, Phase
<1>19. ASSUME PutBack PROVE TypeOK'
  BY <1>19 DEF PutBack, TypeOK, Place, Dir, Phase
<1>20. ASSUME Stop PROVE TypeOK'
  BY <1>20 DEF Stop, TypeOK, Place, Dir, Phase
<1>21. ASSUME Discard PROVE TypeOK'
  BY <1>21 DEF Discard, TypeOK, Place, Dir, Phase
<1>22. ASSUME Crash PROVE TypeOK'
  BY <1>22 DEF Crash, TypeOK, Place, Dir, Phase
<1>23. ASSUME CleanState PROVE TypeOK'
  BY <1>23 DEF CleanState, TypeOK, Place, Dir, Phase
<1>24. ASSUME EditSource PROVE TypeOK'
  BY <1>24 DEF EditSource, TypeOK, Place, Dir, Phase
<1>25. ASSUME EditConfig PROVE TypeOK'
  BY <1>25 DEF EditConfig, TypeOK, Place, Dir, Phase
<1>26. ASSUME NEW p \in Reachable, TakeAway(p) PROVE TypeOK'
  BY <1>26 DEF TakeAway, TypeOK, Place, Dir, Phase
<1>27. ASSUME NEW p \in Reachable, NEW x \in Ext, Bring(p, x) PROVE TypeOK'
  BY <1>27 DEF Bring, TypeOK, Place, Dir, Phase
<1>28. CASE UNCHANGED publicationVars
  BY <1>28 DEF publicationVars, TypeOK, Place, Dir, Phase
<1> QED
  BY <1>1, <1>2, <1>3, <1>4, <1>5, <1>6, <1>7, <1>8, <1>9, <1>10, <1>11,
     <1>12, <1>13, <1>14, <1>15, <1>16, <1>17, <1>18, <1>19, <1>20, <1>21,
     <1>22, <1>23, <1>24, <1>25, <1>26, <1>27, <1>28
     DEF PublicationNext, Publish, Undo, Outside

LEMMA NextIInv == IInv /\ [PublicationNext]_publicationVars => IInv'
<1> SUFFICES ASSUME IInv, [PublicationNext]_publicationVars PROVE IInv'
  OBVIOUS
<1>0. TypeOK'
  BY NextTypeOK DEF IInv
<1> DEFINE Rel == NothingLost /\ Apart /\ OrigStaysApart /\ PinsHold
<1> SUFFICES Rel'
  BY <1>0 DEF IInv
<1> USE <1>0 DEF IInv
<1> USE DEF Goto, Keep, Raise, MoveOrRaise, CanRename, Renamed, Unchanged, DropTransaction,
    Bystanders, NewStamp, Reachable, fs
<1>1. ASSUME Snapshot PROVE Rel'
  <2> USE <1>1 DEF Snapshot
  <2>1. NothingLost'
    BY DEF NothingLost, Apart, OrigStaysApart, TypeOK, Place, Dir
  <2>2. Apart'
    BY DEF Apart, TypeOK, Place, Dir
  <2>3. OrigStaysApart'
    BY DEF OrigStaysApart, Apart, TypeOK, Place, Dir
  <2>4. PinsHold'
    BY DEF PinsHold, Apart, TypeOK, Place, Dir
  <2> QED BY <2>1, <2>2, <2>3, <2>4
<1>2. ASSUME Copy PROVE Rel'
  <2> USE <1>2 DEF Copy
  <2>1. NothingLost'
    BY DEF NothingLost, Apart, OrigStaysApart, TypeOK, Place, Dir
  <2>2. Apart'
    BY DEF Apart, OrigStaysApart, TypeOK, Place, Dir
  <2>3. OrigStaysApart'
    BY DEF OrigStaysApart, Apart, TypeOK, Place, Dir
  <2>4. PinsHold'
    BY DEF PinsHold, Apart, TypeOK, Place, Dir
  <2> QED BY <2>1, <2>2, <2>3, <2>4
<1>3. ASSUME CheckCopy PROVE Rel'
  <2> USE <1>3 DEF CheckCopy
  <2>1. NothingLost'
    BY DEF NothingLost, Apart, OrigStaysApart, TypeOK, Place, Dir
  <2>2. Apart'
    BY DEF Apart, TypeOK, Place, Dir
  <2>3. OrigStaysApart'
    BY DEF OrigStaysApart, Apart, TypeOK, Place, Dir
  <2>4. PinsHold'
    BY DEF PinsHold, Apart, TypeOK, Place, Dir
  <2> QED BY <2>1, <2>2, <2>3, <2>4
<1>4. ASSUME Verify PROVE Rel'
  <2> USE <1>4 DEF Verify
  <2>1. NothingLost'
    BY DEF NothingLost, Apart, OrigStaysApart, TypeOK, Place, Dir
  <2>2. Apart'
    BY DEF Apart, TypeOK, Place, Dir
  <2>3. OrigStaysApart'
    BY DEF OrigStaysApart, Apart, TypeOK, Place, Dir
  <2>4. PinsHold'
    BY DEF PinsHold, Apart, TypeOK, Place, Dir
  <2> QED BY <2>1, <2>2, <2>3, <2>4
<1>5. ASSUME BeginApply PROVE Rel'
  <2> USE <1>5 DEF BeginApply
  <2>1. NothingLost'
    BY DEF NothingLost, Apart, OrigStaysApart, TypeOK, Place, Dir
  <2>2. Apart'
    BY DEF Apart, TypeOK, Place, Dir
  <2>3. OrigStaysApart'
    BY DEF OrigStaysApart, Apart, TypeOK, Place, Dir
  <2>4. PinsHold'
    BY DEF PinsHold, Apart, TypeOK, Place, Dir
  <2> QED BY <2>1, <2>2, <2>3, <2>4
<1>6. ASSUME PinReal PROVE Rel'
  <2> USE <1>6 DEF PinReal
  <2>1. NothingLost'
    BY DEF NothingLost, Apart, OrigStaysApart, TypeOK, Place, Dir
  <2>2. Apart'
    BY DEF Apart, TypeOK, Place, Dir
  <2>3. OrigStaysApart'
    BY DEF OrigStaysApart, Apart, TypeOK, Place, Dir
  <2>4. PinsHold'
    BY DEF PinsHold, Apart, TypeOK, Place, Dir
  <2> QED BY <2>1, <2>2, <2>3, <2>4
<1>7. ASSUME Compare PROVE Rel'
  <2> USE <1>7 DEF Compare
  <2>1. NothingLost'
    BY DEF NothingLost, Apart, OrigStaysApart, TypeOK, Place, Dir
  <2>2. Apart'
    BY DEF Apart, TypeOK, Place, Dir
  <2>3. OrigStaysApart'
    BY DEF OrigStaysApart, Apart, TypeOK, Place, Dir
  <2>4. PinsHold'
    BY DEF PinsHold, Apart, TypeOK, Place, Dir
  <2> QED BY <2>1, <2>2, <2>3, <2>4
<1>8. ASSUME MoveOriginal PROVE Rel'
  <2> USE <1>8 DEF MoveOriginal
  <2>1. NothingLost'
    BY DEF NothingLost, Apart, OrigStaysApart, TypeOK, Place, Dir
  <2>2. Apart'
    BY DEF Apart, TypeOK, Place, Dir
  <2>3. OrigStaysApart'
    BY DEF OrigStaysApart, Apart, TypeOK, Place, Dir
  <2>4. PinsHold'
    BY DEF PinsHold, Apart, TypeOK, Place, Dir
  <2> QED BY <2>1, <2>2, <2>3, <2>4
<1>9. ASSUME CheckBackup PROVE Rel'
  <2> USE <1>9 DEF CheckBackup
  <2>1. NothingLost'
    BY DEF NothingLost, Apart, OrigStaysApart, TypeOK, Place, Dir
  <2>2. Apart'
    BY DEF Apart, TypeOK, Place, Dir
  <2>3. OrigStaysApart'
    BY DEF OrigStaysApart, Apart, TypeOK, Place, Dir
  <2>4. PinsHold'
    BY DEF PinsHold, Apart, TypeOK, Place, Dir
  <2> QED BY <2>1, <2>2, <2>3, <2>4
<1>10. ASSUME CheckStaged PROVE Rel'
  <2> USE <1>10 DEF CheckStaged
  <2>1. NothingLost'
    BY DEF NothingLost, Apart, OrigStaysApart, TypeOK, Place, Dir
  <2>2. Apart'
    BY DEF Apart, TypeOK, Place, Dir
  <2>3. OrigStaysApart'
    BY DEF OrigStaysApart, Apart, TypeOK, Place, Dir
  <2>4. PinsHold'
    BY DEF PinsHold, Apart, TypeOK, Place, Dir
  <2> QED BY <2>1, <2>2, <2>3, <2>4
<1>11. ASSUME Install PROVE Rel'
  <2> USE <1>11 DEF Install
  <2>1. NothingLost'
    BY DEF NothingLost, Apart, OrigStaysApart, TypeOK, Place, Dir
  <2>2. Apart'
    BY DEF Apart, TypeOK, Place, Dir
  <2>3. OrigStaysApart'
    BY DEF OrigStaysApart, Apart, TypeOK, Place, Dir
  <2>4. PinsHold'
    BY DEF PinsHold, Apart, TypeOK, Place, Dir
  <2> QED BY <2>1, <2>2, <2>3, <2>4
<1>12. ASSUME CheckInstalled PROVE Rel'
  <2> USE <1>12 DEF CheckInstalled
  <2>1. NothingLost'
    BY DEF NothingLost, Apart, OrigStaysApart, TypeOK, Place, Dir
  <2>2. Apart'
    BY DEF Apart, TypeOK, Place, Dir
  <2>3. OrigStaysApart'
    BY DEF OrigStaysApart, Apart, TypeOK, Place, Dir
  <2>4. PinsHold'
    BY DEF PinsHold, Apart, TypeOK, Place, Dir
  <2> QED BY <2>1, <2>2, <2>3, <2>4
<1>13. ASSUME Finish PROVE Rel'
  <2> USE <1>13 DEF Finish
  <2>1. NothingLost'
    BY DEF NothingLost, Apart, OrigStaysApart, TypeOK, Place, Dir
  <2>2. Apart'
    BY DEF Apart, TypeOK, Place, Dir
  <2>3. OrigStaysApart'
    BY DEF OrigStaysApart, Apart, TypeOK, Place, Dir
  <2>4. PinsHold'
    BY DEF PinsHold, Apart, TypeOK, Place, Dir
  <2> QED BY <2>1, <2>2, <2>3, <2>4
<1>14. ASSUME Handle PROVE Rel'
  <2> USE <1>14 DEF Handle
  <2>1. NothingLost'
    BY DEF NothingLost, Apart, OrigStaysApart, TypeOK, Place, Dir
  <2>2. Apart'
    BY DEF Apart, TypeOK, Place, Dir
  <2>3. OrigStaysApart'
    BY DEF OrigStaysApart, Apart, TypeOK, Place, Dir
  <2>4. PinsHold'
    BY DEF PinsHold, Apart, TypeOK, Place, Dir
  <2> QED BY <2>1, <2>2, <2>3, <2>4
<1>15. ASSUME Rollback PROVE Rel'
  <2> USE <1>15 DEF Rollback
  <2>1. NothingLost'
    BY DEF NothingLost, Apart, OrigStaysApart, TypeOK, Place, Dir
  <2>2. Apart'
    BY DEF Apart, TypeOK, Place, Dir
  <2>3. OrigStaysApart'
    BY DEF OrigStaysApart, Apart, TypeOK, Place, Dir
  <2>4. PinsHold'
    BY DEF PinsHold, Apart, TypeOK, Place, Dir
  <2> QED BY <2>1, <2>2, <2>3, <2>4
<1>16. ASSUME SetAside PROVE Rel'
  <2> USE <1>16 DEF SetAside
  <2>1. NothingLost'
    BY DEF NothingLost, Apart, OrigStaysApart, TypeOK, Place, Dir
  <2>2. Apart'
    BY DEF Apart, TypeOK, Place, Dir
  <2>3. OrigStaysApart'
    BY DEF OrigStaysApart, Apart, TypeOK, Place, Dir
  <2>4. PinsHold'
    BY DEF PinsHold, Apart, TypeOK, Place, Dir
  <2> QED BY <2>1, <2>2, <2>3, <2>4
<1>17. ASSUME CheckAside PROVE Rel'
  <2> USE <1>17 DEF CheckAside
  <2>1. NothingLost'
    BY DEF NothingLost, Apart, OrigStaysApart, TypeOK, Place, Dir
  <2>2. Apart'
    BY DEF Apart, TypeOK, Place, Dir
  <2>3. OrigStaysApart'
    BY DEF OrigStaysApart, Apart, TypeOK, Place, Dir
  <2>4. PinsHold'
    BY DEF PinsHold, Apart, TypeOK, Place, Dir
  <2> QED BY <2>1, <2>2, <2>3, <2>4
<1>18. ASSUME Restore PROVE Rel'
  <2> USE <1>18 DEF Restore
  <2>1. NothingLost'
    BY DEF NothingLost, Apart, OrigStaysApart, TypeOK, Place, Dir
  <2>2. Apart'
    BY DEF Apart, TypeOK, Place, Dir
  <2>3. OrigStaysApart'
    BY DEF OrigStaysApart, Apart, TypeOK, Place, Dir
  <2>4. PinsHold'
    BY DEF PinsHold, Apart, TypeOK, Place, Dir
  <2> QED BY <2>1, <2>2, <2>3, <2>4
<1>19. ASSUME PutBack PROVE Rel'
  <2> USE <1>19 DEF PutBack
  <2>1. NothingLost'
    BY DEF NothingLost, Apart, OrigStaysApart, TypeOK, Place, Dir
  <2>2. Apart'
    BY DEF Apart, TypeOK, Place, Dir
  <2>3. OrigStaysApart'
    BY DEF OrigStaysApart, Apart, TypeOK, Place, Dir
  <2>4. PinsHold'
    BY DEF PinsHold, Apart, TypeOK, Place, Dir
  <2> QED BY <2>1, <2>2, <2>3, <2>4
<1>20. ASSUME Stop PROVE Rel'
  <2> USE <1>20 DEF Stop
  <2>1. NothingLost'
    BY DEF NothingLost, Apart, OrigStaysApart, TypeOK, Place, Dir
  <2>2. Apart'
    BY DEF Apart, TypeOK, Place, Dir
  <2>3. OrigStaysApart'
    BY DEF OrigStaysApart, Apart, TypeOK, Place, Dir
  <2>4. PinsHold'
    BY DEF PinsHold, Apart, TypeOK, Place, Dir
  <2> QED BY <2>1, <2>2, <2>3, <2>4
<1>21. ASSUME Discard PROVE Rel'
  <2> USE <1>21 DEF Discard
  <2>1. NothingLost'
    BY DEF NothingLost, Apart, OrigStaysApart, TypeOK, Place, Dir
  <2>2. Apart'
    BY DEF Apart, TypeOK, Place, Dir
  <2>3. OrigStaysApart'
    BY DEF OrigStaysApart, Apart, TypeOK, Place, Dir
  <2>4. PinsHold'
    BY DEF PinsHold, Apart, TypeOK, Place, Dir
  <2> QED BY <2>1, <2>2, <2>3, <2>4
<1>22. ASSUME Crash PROVE Rel'
  <2> USE <1>22 DEF Crash
  <2>1. NothingLost'
    BY DEF NothingLost, Apart, OrigStaysApart, TypeOK, Place, Dir
  <2>2. Apart'
    BY DEF Apart, TypeOK, Place, Dir
  <2>3. OrigStaysApart'
    BY DEF OrigStaysApart, Apart, TypeOK, Place, Dir
  <2>4. PinsHold'
    BY DEF PinsHold, Apart, TypeOK, Place, Dir
  <2> QED BY <2>1, <2>2, <2>3, <2>4
<1>23. ASSUME CleanState PROVE Rel'
  <2> USE <1>23 DEF CleanState
  <2>1. NothingLost'
    BY DEF NothingLost, Apart, OrigStaysApart, TypeOK, Place, Dir
  <2>2. Apart'
    BY DEF Apart, TypeOK, Place, Dir
  <2>3. OrigStaysApart'
    BY DEF OrigStaysApart, Apart, TypeOK, Place, Dir
  <2>4. PinsHold'
    BY DEF PinsHold, Apart, TypeOK, Place, Dir
  <2> QED BY <2>1, <2>2, <2>3, <2>4
<1>24. ASSUME EditSource PROVE Rel'
  <2> USE <1>24 DEF EditSource
  <2>1. NothingLost'
    BY DEF NothingLost, Apart, OrigStaysApart, TypeOK, Place, Dir
  <2>2. Apart'
    BY DEF Apart, TypeOK, Place, Dir
  <2>3. OrigStaysApart'
    BY DEF OrigStaysApart, Apart, TypeOK, Place, Dir
  <2>4. PinsHold'
    BY DEF PinsHold, Apart, TypeOK, Place, Dir
  <2> QED BY <2>1, <2>2, <2>3, <2>4
<1>25. ASSUME EditConfig PROVE Rel'
  <2> USE <1>25 DEF EditConfig
  <2>1. NothingLost'
    BY DEF NothingLost, Apart, OrigStaysApart, TypeOK, Place, Dir
  <2>2. Apart'
    BY DEF Apart, TypeOK, Place, Dir
  <2>3. OrigStaysApart'
    BY DEF OrigStaysApart, Apart, TypeOK, Place, Dir
  <2>4. PinsHold'
    BY DEF PinsHold, Apart, TypeOK, Place, Dir
  <2> QED BY <2>1, <2>2, <2>3, <2>4
<1>26. ASSUME NEW p \in Reachable, TakeAway(p) PROVE Rel'
  <2> USE <1>26 DEF TakeAway
  <2>1. NothingLost'
    BY DEF NothingLost, Apart, OrigStaysApart, TypeOK, Place, Dir
  <2>2. Apart'
    BY DEF Apart, TypeOK, Place, Dir
  <2>3. OrigStaysApart'
    BY DEF OrigStaysApart, Apart, TypeOK, Place, Dir
  <2>4. PinsHold'
    BY DEF PinsHold, Apart, TypeOK, Place, Dir
  <2> QED BY <2>1, <2>2, <2>3, <2>4
<1>27. ASSUME NEW p \in Reachable, NEW x \in Ext, Bring(p, x) PROVE Rel'
  <2> USE <1>27 DEF Bring
  <2>1. NothingLost'
    BY DEF NothingLost, Apart, OrigStaysApart, TypeOK, Place, Dir
  <2>2. Apart'
    BY DEF Apart, TypeOK, Place, Dir
  <2>3. OrigStaysApart'
    BY DEF OrigStaysApart, Apart, TypeOK, Place, Dir
  <2>4. PinsHold'
    BY DEF PinsHold, Apart, TypeOK, Place, Dir
  <2> QED BY <2>1, <2>2, <2>3, <2>4
<1>28. ASSUME UNCHANGED publicationVars PROVE Rel'
  <2> USE <1>28 DEF publicationVars
  <2>1. NothingLost'
    BY DEF NothingLost, Apart, OrigStaysApart, TypeOK, Place, Dir
  <2>2. Apart'
    BY DEF Apart, TypeOK, Place, Dir
  <2>3. OrigStaysApart'
    BY DEF OrigStaysApart, Apart, TypeOK, Place, Dir
  <2>4. PinsHold'
    BY DEF PinsHold, Apart, TypeOK, Place, Dir
  <2> QED BY <2>1, <2>2, <2>3, <2>4
<1> QED
  BY <1>1, <1>2, <1>3, <1>4, <1>5, <1>6, <1>7, <1>8, <1>9, <1>10, <1>11,
     <1>12, <1>13, <1>14, <1>15, <1>16, <1>17, <1>18, <1>19, <1>20, <1>21,
     <1>22, <1>23, <1>24, <1>25, <1>26, <1>27, <1>28
     DEF PublicationNext, Publish, Undo, Outside


(* The inductive invariant holds in every reachable state. *)
THEOREM PublicationInvariant == PublicationSpec => []IInv
BY InitIInv, NextIInv, PTL DEF PublicationSpec

(* Type correctness of the publication model. *)
THEOREM TypeCorrect == PublicationSpec => []TypeOK
BY PublicationInvariant, PTL DEF IInv

(* No interleaving, failure, interrupt or crash makes the transaction lose *)
(* the original source or a directory of an outside writer.                *)
THEOREM KeepsEverything == PublicationSpec => []NothingLost
BY PublicationInvariant, PTL DEF IInv

LEMMA PinsGiveBaseline == IInv => ReplacedIsBaseline
BY DEF IInv, PinsHold, ReplacedIsBaseline

(* A publication replaces exactly the content the transaction started from. *)
THEOREM NoLostUpdate == PublicationSpec => []ReplacedIsBaseline
BY PublicationInvariant, PinsGiveBaseline, PTL

LEMMA StepRestores ==
  IInv /\ [PublicationNext]_publicationVars =>
    ((at["backup"] # None /\ at'["backup"] = None /\ ~cleaned') =>
       at["backup"] = pin.real /\ at["real"] = None /\ at'["real"] = pin.real)
<1> SUFFICES ASSUME IInv, [PublicationNext]_publicationVars, at["backup"] # None,
                    at'["backup"] = None, ~cleaned'
             PROVE  at["backup"] = pin.real /\ at["real"] = None
                      /\ at'["real"] = pin.real
  OBVIOUS
<1> USE DEF IInv, TypeOK, Place, Goto, Keep, Raise, MoveOrRaise, CanRename, Renamed,
            DropTransaction, Bystanders, Reachable, fs
<1>1. CASE PutBack
  BY <1>1 DEF PutBack, PinsHold
<1>2. CASE Publish
  BY <1>2 DEF Publish, Snapshot, Copy, CheckCopy, Verify, BeginApply, PinReal,
              Compare, MoveOriginal, CheckBackup, CheckStaged, Install,
              CheckInstalled, Finish
<1>3. CASE Handle \/ Rollback \/ SetAside \/ CheckAside \/ Restore
  BY <1>3 DEF Handle, Rollback, SetAside, CheckAside, Restore
<1>4. CASE Stop \/ Discard \/ Crash \/ CleanState \/ Outside \/ UNCHANGED publicationVars
  BY <1>4 DEF Stop, Discard, Crash, CleanState, Outside, EditSource, EditConfig,
              TakeAway, Bring, publicationVars
<1> QED BY <1>1, <1>2, <1>3, <1>4 DEF PublicationNext, Undo

(* Rollback puts back the pinned original only, and onto a free path only. *)
THEOREM RollbackIsExact == PublicationSpec => RestoresOnlyTheOriginal
BY PublicationInvariant, StepRestores, PTL DEF PublicationSpec, RestoresOnlyTheOriginal

-----------------------------------------------------------------------------
(* Without outside writers *)

Laid(r, s, b, f) ==
  /\ at["real"] = r /\ at["staged"] = s
  /\ at["backup"] = b /\ at["failed"] = f

(* The layouts a transaction goes through: both directories at their       *)
(* places, the original moved, the copy installed, the copy set aside, the *)
(* original back.                                                          *)
Ready    == Laid(Orig, Stage, None, None)
Moved    == Laid(None, Stage, Orig, None)
Swapped  == Laid(Stage, None, Orig, None)
Aside    == Laid(None, None, Orig, Stage)
Restored == Laid(Orig, None, None, Stage)

Swapping == {"pinReal", "compare", "move", "checkBackup", "checkStaged", "install",
    "checkInstalled"}
Undoing == {"rollback", "setAside", "checkAside", "restore", "putBack"}

(* Which layout each step finds when nobody else moves or edits anything.  *)
(* Nothing but an interrupt leads into the handler then, so an interrupt   *)
(* of the handler itself is a second one.                                  *)
LayoutOfStep ==
  Undisturbed =>
    /\ \A d \in Dir : content[d] = 0
    /\ config = 0 /\ base.source = 0 /\ base.config = 0
    /\ cleaned => step \in Ended
    /\ step \in {"idle", "copy"} => Laid(Orig, None, None, None)
    /\ step \in {"copied", "verify", "pinReal", "compare", "move"} => Ready
    /\ step = "copied" => pin.real = Orig
    /\ step \in Swapping \ {"pinReal"} => pin.real = Orig
    /\ step \in Swapping \cup {"except"} \cup Undoing =>
       pin.staged = Stage /\ outcome = "none"
    /\ step \in Swapping \cup {"except"} => level = "try"
    /\ step \in {"checkBackup", "checkStaged", "install"} => Moved
    /\ step \in {"checkInstalled", "finish", "setAside"} => Swapped
    /\ step = "except" => Ready \/ Moved \/ Swapped
    /\ step = "except" /\ ~Ready => pin.real = Orig
    /\ step = "rollback" => Moved \/ Swapped
    /\ step = "checkAside" => Aside
    /\ step \in {"restore", "putBack"} => Moved \/ Aside
    /\ step \in Undoing => pin.real = Orig /\ level = "handler"
    /\ step \in {"except"} \cup Undoing => stops > 0
    /\ step = "finish" => outcome = "published"
    /\ step = "open" => Ready \/ Moved \/ Swapped \/ Aside \/ Restored
    /\ step = "open" /\ outcome = "published" => Swapped
    /\ step = "open" /\ outcome # "published" /\ stops <= 1 => Ready \/ Restored
    /\ outcome = "published" => step \in {"finish", "open"} \cup Ended

LEMMA InitLayout == PublicationInit => LayoutOfStep /\ AllOrNothing
<1> SUFFICES ASSUME PublicationInit PROVE LayoutOfStep /\ AllOrNothing
  OBVIOUS
<1>1. Laid(Orig, None, None, None)
  BY DEF PublicationInit, Laid, Place
<1>2. step = "idle" /\ level = "try" /\ outcome = "none" /\ stops = 0 /\ cleaned = FALSE
  BY DEF PublicationInit
<1>3. config = 0 /\ base.source = 0 /\ base.config = 0 /\ \A d \in Dir : content[d] = 0
  BY DEF PublicationInit
<1>4. step \notin Swapping \cup Undoing \cup Ended \cup {"except"}
  BY <1>2 DEF Swapping, Undoing, Ended
<1>5. LayoutOfStep
  BY <1>1, <1>2, <1>3, <1>4 DEF LayoutOfStep
<1>6. AllOrNothing
  BY <1>2 DEF AllOrNothing
<1> QED BY <1>5, <1>6

(* Every step leads from the layout its phase finds to the one the next    *)
(* phase expects.                                                          *)
LEMMA NextLayout ==
  TypeOK /\ LayoutOfStep /\ AllOrNothing
      /\ [PublicationNext]_publicationVars => LayoutOfStep' /\ AllOrNothing'
<1> SUFFICES ASSUME TypeOK, LayoutOfStep, AllOrNothing, [PublicationNext]_publicationVars
             PROVE  LayoutOfStep' /\ AllOrNothing'
  OBVIOUS
<1> DEFINE Lay == LayoutOfStep /\ AllOrNothing
<1> USE DEF TypeOK, LayoutOfStep, AllOrNothing, Undisturbed, Ready, Moved, Swapped, Aside,
    Restored, Laid, Swapping, Undoing, Ended, Place, Dir
<1> USE DEF Goto, Keep, Raise, MoveOrRaise, CanRename, Renamed, Unchanged, DropTransaction,
    Bystanders, NewStamp, Reachable, fs
<1>1. CASE Snapshot
  BY <1>1 DEF Snapshot
<1>2. CASE Copy
  BY <1>2 DEF Copy
<1>3. CASE CheckCopy
  BY <1>3 DEF CheckCopy
<1>4. CASE Verify
  BY <1>4 DEF Verify
<1>5. CASE BeginApply
  BY <1>5 DEF BeginApply
<1>6. CASE PinReal
  BY <1>6 DEF PinReal
<1>7. CASE Compare
  BY <1>7 DEF Compare
<1>8. CASE MoveOriginal
  BY <1>8 DEF MoveOriginal
<1>9. CASE CheckBackup
  BY <1>9 DEF CheckBackup
<1>10. CASE CheckStaged
  BY <1>10 DEF CheckStaged
<1>11. CASE Install
  BY <1>11 DEF Install
<1>12. CASE CheckInstalled
  BY <1>12 DEF CheckInstalled
<1>13. CASE Finish
  BY <1>13 DEF Finish
<1>14. CASE Handle
  BY <1>14 DEF Handle
<1>15. CASE Rollback
  BY <1>15 DEF Rollback
<1>16. CASE SetAside
  BY <1>16 DEF SetAside
<1>17. CASE CheckAside
  BY <1>17 DEF CheckAside
<1>18. CASE Restore
  BY <1>18 DEF Restore
<1>19. CASE PutBack
  BY <1>19 DEF PutBack
<1>20. CASE Stop
  <2>0. UNCHANGED fs /\ UNCHANGED <<base, pin, level, cleaned>> /\ stops' = stops + 1
    BY <1>20 DEF Stop
  <2>1. ASSUME Undisturbed', step \in Swapping PROVE step' = "except" /\ outcome' = outcome
    BY <1>20, <2>1 DEF Stop
  <2>2. ASSUME Undisturbed', step \in Undoing \cup {"except"} PROVE step' = "open"
      /\ stops' > 1 /\ outcome' = "failed"
    BY <1>20, <2>2 DEF Stop
  <2>3. step \in Swapping \cup Undoing \cup {"except"}
    BY <1>20 DEF Stop
  <2>4. CASE step \in Swapping
    BY <2>0, <2>1, <2>4
  <2>5. CASE step \in Undoing \cup {"except"}
    BY <2>0, <2>2, <2>5
  <2> QED BY <2>3, <2>4, <2>5
<1>21. CASE Discard
  BY <1>21 DEF Discard
<1>22. CASE Crash
  BY <1>22 DEF Crash
<1>23. CASE CleanState
  BY <1>23 DEF CleanState
<1>24. CASE EditSource
  BY <1>24 DEF EditSource
<1>25. CASE EditConfig
  BY <1>25 DEF EditConfig
<1>26. ASSUME NEW p \in Reachable, TakeAway(p) PROVE Lay'
  BY <1>26 DEF TakeAway
<1>27. ASSUME NEW p \in Reachable, NEW x \in Ext, Bring(p, x) PROVE Lay'
  BY <1>27 DEF Bring
<1>28. CASE UNCHANGED publicationVars
  BY <1>28 DEF publicationVars
<1> QED
  BY <1>1, <1>2, <1>3, <1>4, <1>5, <1>6, <1>7, <1>8, <1>9, <1>10, <1>11, <1>12, <1>13,
     <1>14, <1>15, <1>16, <1>17, <1>18, <1>19, <1>20, <1>21, <1>22, <1>23, <1>24, <1>25,
     <1>26, <1>27, <1>28 DEF PublicationNext, Publish, Undo, Outside

(* Without outside writers a publication swaps the two directories, or on  *)
(* any error and for one interrupt at any step leaves everything as it was. *)
THEOREM SwapsOrRestores == PublicationSpec => []AllOrNothing
<1>1. TypeOK /\ LayoutOfStep /\ AllOrNothing /\ [PublicationNext]_publicationVars
        => (LayoutOfStep /\ AllOrNothing)'
  BY NextLayout
<1> QED BY InitLayout, <1>1, TypeCorrect, PTL DEF PublicationSpec
=============================================================================
