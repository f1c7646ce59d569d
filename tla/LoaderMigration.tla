--------------------------- MODULE LoaderMigration --------------------------
(***************************************************************************)
(* Changing the loader version of a Pack (huroshiki_core.py:               *)
(* LoaderMigrationOperation; huroshiki.py: VersionsScreen).                *)
(*                                                                         *)
(* A thread migrates and refreshes the staged source with Packwiz, checks  *)
(* what came out and keeps a preview; the screen polls it, shows the       *)
(* preview and applies it in the event loop.  The operation is not in the  *)
(* application's tables: only the screen knows it.                         *)
(*                                                                         *)
(* A source is what Packwiz records of the game: Minecraft, the loader and *)
(* the loader's version ("" when it wrote none).                           *)
(***************************************************************************)
EXTENDS Naturals

CONSTANTS Outcomes,  \* what `packwiz migrate loader' may make of the source
          Source,    \* the source at the start
          MaxFaults, \* bound on failing steps
          MaxTries   \* bound on migrations started on one screen

VARIABLES tx,    \* the transaction
          prep,  \* LoaderMigrationOperation and its thread
          ui,    \* the screen
          faults

loaderVars == <<tx, prep, ui, faults>>

Operation == [pc |-> "new", started |-> FALSE, done |-> FALSE, cancelled |-> FALSE,
              event |-> FALSE, error |-> FALSE, finished |-> FALSE, owns |-> FALSE,
              preview |-> <<>>]

Init ==
  /\ tx = [state |-> "none", real |-> Source, staged |-> Source]
  /\ prep = [Operation EXCEPT !.pc = "end"]
  /\ ui = [at |-> "form", operation |-> FALSE, leave |-> FALSE, down |-> FALSE, tries |-> 0]
  /\ faults = 0

Fault == faults < MaxFaults /\ faults' = faults + 1
NoFault == UNCHANGED faults

-----------------------------------------------------------------------------
(* The thread *)

RunStart ==
  /\ prep.pc = "new"
  /\ prep' = IF prep.done THEN [prep EXCEPT !.pc = "end"]
             ELSE [prep EXCEPT !.pc = "create", !.started = TRUE]
  /\ UNCHANGED <<tx, ui, faults>>

Raises(step) == prep' = [prep EXCEPT !.pc = "finally", !.error = TRUE]

\* a transaction that is neither applied nor discarded has the project's locks
Held == tx.state \in {"active", "closing"}

(* The project is locked while an earlier transaction has it. *)
RunCreate ==
  /\ prep.pc = "create"
  /\ \/ /\ ~prep.event /\ ~Held /\ NoFault
        /\ tx' = [tx EXCEPT !.state = "active", !.staged = tx.real]
        /\ prep' = [prep EXCEPT !.pc = "migrate", !.owns = TRUE]
     \/ Held /\ NoFault /\ Raises("create") /\ UNCHANGED tx
     \/ ~Held /\ Fault /\ Raises("create") /\ UNCHANGED tx
  /\ UNCHANGED ui

(* _checkpoint, and a process that was stopped because of the event. *)
RunCancelled ==
  /\ prep.pc \in {"create", "migrate", "refresh", "check"} /\ prep.event
  /\ prep' = [prep EXCEPT !.pc = "finally", !.cancelled = TRUE]
  /\ UNCHANGED <<tx, ui, faults>>

(* A process that fails, times out or cannot be stopped is an error. *)
RunMigrate ==
  /\ prep.pc = "migrate"
  /\ \/ /\ ~prep.event /\ NoFault
        /\ \E s \in Outcomes : tx' = [tx EXCEPT !.staged = s]
        /\ prep' = [prep EXCEPT !.pc = "refresh"]
     \/ Fault /\ Raises("migrate") /\ UNCHANGED tx
  /\ UNCHANGED ui

RunRefresh ==
  /\ prep.pc = "refresh"
  /\ \/ ~prep.event /\ NoFault /\ prep' = [prep EXCEPT !.pc = "check"]
     \/ Fault /\ Raises("refresh")
  /\ UNCHANGED <<tx, ui>>

\* mutant: the Minecraft version is not compared
AdmissibleLoader ==
  tx.staged.loader = tx.real.loader /\ tx.staged.version # ""

Admissible ==
  /\ tx.staged.minecraft = tx.real.minecraft /\ tx.staged.loader = tx.real.loader
  /\ tx.staged.version # ""

RunCheck ==
  /\ prep.pc = "check" /\ ~prep.event
  /\ IF Admissible THEN prep' = [prep EXCEPT !.pc = "finally", !.preview = <<tx.staged>>]
                   ELSE Raises("check")
  /\ UNCHANGED <<tx, ui, faults>>

(* transaction.discard, once for an operation. *)
DiscardOnce ==
  IF prep.finished \/ ~prep.owns THEN UNCHANGED <<tx, faults>>
  ELSE \/ tx' = [tx EXCEPT !.state = IF Held THEN "discarded" ELSE @] /\ NoFault
       \/ Held /\ Fault /\ tx' = [tx EXCEPT !.state = "closing"]

\* mutant: a failed migration keeps its transaction
SettlesCancelled(op) == op.cancelled

(* The finally block: the flags are read, then a cancelled or failed       *)
(* operation is discarded, and only then it is done.                       *)
Settles(op) == op.cancelled \/ op.error

RunFinally ==
  /\ prep.pc = "finally"
  /\ LET op == [prep EXCEPT !.cancelled = @ \/ prep.event, !.pc = "ending"]
     IN IF Settles(op)
        THEN /\ DiscardOnce
             /\ prep' = [op EXCEPT !.finished = TRUE, !.error = @ \/ faults' # faults]
        ELSE prep' = op /\ UNCHANGED <<tx, faults>>
  /\ UNCHANGED ui

RunDone ==
  /\ prep.pc = "ending"
  /\ prep' = [prep EXCEPT !.pc = "end", !.done = TRUE]
  /\ UNCHANGED <<tx, ui, faults>>

RunNext == \/ RunStart \/ RunCreate \/ RunCancelled \/ RunMigrate \/ RunRefresh \/ RunCheck
           \/ RunFinally \/ RunDone

-----------------------------------------------------------------------------
(* The screen *)

Open == ui.at # "left" /\ ~ui.down

Prepare ==
  /\ Open /\ ui.at = "form" /\ ~ui.operation /\ ui.tries < MaxTries /\ prep.pc = "end"
  /\ prep' = [Operation EXCEPT !.pc = "new"]
  /\ ui' = [ui EXCEPT !.operation = TRUE, !.tries = @ + 1]
  /\ UNCHANGED <<tx, faults>>

(* LoaderMigrationOperation.cancel: the thread discards what it has begun. *)
Cancel ==
  IF prep.done \/ ~prep.started
  THEN /\ DiscardOnce
       /\ prep' = [prep EXCEPT !.cancelled = TRUE, !.event = TRUE, !.finished = TRUE,
                     !.done = TRUE]
  ELSE prep' = [prep EXCEPT !.cancelled = TRUE, !.event = TRUE] /\ UNCHANGED <<tx, faults>>

DiscardPreview == DiscardOnce /\ prep' = [prep EXCEPT !.finished = TRUE]

Poll ==
  /\ Open /\ ui.at = "form" /\ ui.operation /\ prep.done
  /\ ui' = IF prep.error \/ prep.cancelled
           THEN [ui EXCEPT !.operation = FALSE, !.at = IF ui.leave THEN "left" ELSE @,
                   !.leave = FALSE]
           ELSE [ui EXCEPT !.at = "preview"]
  /\ UNCHANGED <<tx, prep, faults>>

(* apply runs in the event loop; an application that fails is discarded.   *)
PreviewConfirmed ==
  /\ Open /\ ui.at = "preview"
  /\ prep' = [prep EXCEPT !.finished = TRUE]
  /\ \/ /\ NoFault
        /\ tx' = IF tx.staged = tx.real THEN [tx EXCEPT !.state = "discarded"]
                 ELSE [tx EXCEPT !.state = "applied", !.real = tx.staged]
        /\ ui' = [ui EXCEPT !.operation = FALSE, !.at = "left"]
     \/ /\ Fault /\ tx' = [tx EXCEPT !.state = "discarded"]
        /\ ui' = [ui EXCEPT !.operation = FALSE, !.at = "form"]

PreviewDeclined ==
  /\ Open /\ ui.at = "preview"
  /\ DiscardPreview
  /\ ui' = [ui EXCEPT !.operation = FALSE, !.at = "form"]

Back ==
  /\ Open /\ ui.at = "form" /\ ~ui.leave
  /\ IF ui.operation /\ ~prep.done
     THEN Cancel /\ ui' = [ui EXCEPT !.leave = TRUE]
     ELSE /\ IF ui.operation THEN DiscardPreview ELSE UNCHANGED <<tx, prep, faults>>
          /\ ui' = [ui EXCEPT !.operation = FALSE, !.at = "left"]

Unmount ==
  /\ Open
  /\ IF ~ui.operation THEN UNCHANGED <<tx, prep, faults>>
     ELSE IF prep.done THEN DiscardPreview ELSE Cancel
  /\ ui' = [ui EXCEPT !.down = TRUE]

ScreenNext == \/ Prepare \/ Poll \/ PreviewConfirmed \/ PreviewDeclined \/ Back \/ Unmount

Next == RunNext \/ ScreenNext

Fairness == WF_loaderVars(RunNext) /\ WF_loaderVars(Poll)

Spec == Init /\ [][Next]_loaderVars /\ Fairness

-----------------------------------------------------------------------------
(* Only the version of the loader changes, to what the confirmed preview   *)
(* showed, whatever Packwiz made of the staged source.                     *)
AppliedIsPreviewed ==
  tx.state = "applied" =>
    /\ prep.preview = <<tx.real>>
    /\ tx.real.minecraft = Source.minecraft /\ tx.real.loader = Source.loader
    /\ tx.real.version # ""

(* The cancel came between the end of the thread's last look at the flag   *)
(* and done: the operation is cancelled and was not discarded.             *)
MissedCancel == prep.cancelled /\ prep.preview # <<>> /\ ~prep.finished

(* An active transaction has a thread or a screen that will finish it,     *)
(* unless a step failed or the cancel was missed.                          *)
NothingForgotten ==
  tx.state = "active" =>
    \/ prep.pc # "end"
    \/ ui.operation /\ ~ui.down
    \/ MissedCancel

(* Who asks to leave the screen leaves it. *)
Answered == ~ui.leave \/ ui.down
LeavingEnds == []<>Answered
=============================================================================
