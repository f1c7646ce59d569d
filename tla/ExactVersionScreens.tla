------------------------- MODULE ExactVersionScreens ------------------------
(***************************************************************************)
(* Selecting an exact version of an installed MOD, returning it to         *)
(* Automatic and pinning it (huroshiki.py: InstalledModDetailsScreen,      *)
(* InstalledModVersionBrowserScreen, InstalledModVersionCandidateScreen,   *)
(* the part of InstallScreen that works on the transaction it finds, and   *)
(* HuroshikiApp.on_unmount).                                               *)
(*                                                                         *)
(* Every screen lives in the event loop and starts threads: one loads what *)
(* is known of the MOD, one prepares a selection on a new transaction, one *)
(* applies it, one discards it, one loads the catalog of versions.  Timers *)
(* of the screen poll them and stop with the screen; the application keeps *)
(* a registry of the threads and a table of the transactions, for other    *)
(* screens and for the exit.                                               *)
(*                                                                         *)
(* One Pack, and of its screens those of one MOD.                          *)
(***************************************************************************)
EXTENDS Naturals

CONSTANTS MaxFaults, \* bound on failing steps
          MaxOpens   \* bound on prepared selections

VARIABLES tx,     \* the transaction, and whether it is in app.transactions
          worker, \* the entry of app.exact_version_workers and its thread
          cat,    \* the entry of app.version_catalog_workers and its thread
          ui,     \* the screen that is shown
          app,    \* the application: "up", then the steps of on_unmount
          faults

versionVars == <<tx, worker, cat, ui, app, faults>>

NoWorker == [kind |-> "none", pc |-> "end", cancel |-> FALSE, error |-> FALSE,
             mine |-> FALSE, ref |-> FALSE]
NoCatalog == [pc |-> "none", cancel |-> FALSE, error |-> FALSE]
Screen(at) == [at |-> at, tx |-> FALSE, preview |-> FALSE, discard |-> FALSE, leave |-> FALSE,
               selection |-> FALSE, catalog |-> FALSE, busy |-> FALSE]

Init ==
  /\ tx = [state |-> "none", table |-> FALSE, opens |-> 0]
  /\ worker = NoWorker /\ cat = NoCatalog /\ ui = Screen("list") /\ app = "up" /\ faults = 0

Fault == faults < MaxFaults /\ faults' = faults + 1
NoFault == UNCHANGED faults

\* it has the locks of the project
Held == tx.state \in {"active", "discarding", "failed"}

(* A thread of the screen that is shown.  The registry has one entry for a *)
(* project, and every start looks there first.                             *)
Own(kind) == worker.kind = kind /\ worker.mine
Up == app = "up" /\ ~ui.busy
Details == Up /\ ui.at = "details"

(* What the getter in the registry returns: the transaction of the screen  *)
(* that started the thread, shown or not.                                  *)
Getter == worker.kind \in {"prepare", "apply"} /\ IF worker.mine THEN ui.tx ELSE worker.ref

-----------------------------------------------------------------------------
(* The threads *)

Ends(error) == worker' = [worker EXCEPT !.pc = "end", !.error = error]

(* _run_provenance *)
ProvenanceRuns ==
  /\ worker.kind = "provenance" /\ worker.pc = "run"
  /\ \/ ~worker.cancel /\ Ends(FALSE) /\ NoFault
     \/ worker.cancel /\ Ends(TRUE) /\ NoFault
     \/ Fault /\ Ends(TRUE)
  /\ UNCHANGED <<tx, cat, ui, app>>

(* _run_prepare and _run_intent_prepare: while another transaction has the *)
(* locks none is created.                                                  *)
PrepareCreates ==
  /\ worker.kind = "prepare" /\ worker.pc = "create"
  /\ IF worker.cancel \/ Held
     THEN /\ worker' = [worker EXCEPT !.pc = "finally", !.error = TRUE]
          /\ UNCHANGED <<tx, ui, faults>>
     ELSE \/ /\ NoFault
             /\ tx' = [tx EXCEPT !.state = "active", !.table = FALSE]
             /\ worker' = [worker EXCEPT !.pc = "prepare", !.ref = TRUE]
             /\ ui' = [ui EXCEPT !.tx = worker.mine]
          \/ /\ Fault /\ worker' = [worker EXCEPT !.pc = "finally", !.error = TRUE]
             /\ UNCHANGED <<tx, ui>>
  /\ UNCHANGED <<cat, app>>

Prepares ==
  /\ worker.kind = "prepare" /\ worker.pc = "prepare"
  /\ \/ /\ ~worker.cancel /\ NoFault
        /\ worker' = [worker EXCEPT !.pc = "finally"]
     \/ /\ worker.cancel /\ NoFault
        /\ worker' = [worker EXCEPT !.pc = "finally", !.error = TRUE]
     \/ Fault /\ worker' = [worker EXCEPT !.pc = "finally", !.error = TRUE]
  /\ UNCHANGED <<tx, cat, ui, app>>

Discarded == tx' = [tx EXCEPT !.state = "discarded"] /\ NoFault
DiscardFails == Fault /\ tx' = [tx EXCEPT !.state = "failed"]

(* The finally block discards only while the application shuts down.       *)
PrepareFinally ==
  /\ worker.kind = "prepare" /\ worker.pc = "finally"
  /\ worker' = [worker EXCEPT !.pc = "end"]
  /\ IF app # "up" /\ worker.ref /\ tx.state = "active" THEN Discarded \/ DiscardFails
     ELSE UNCHANGED <<tx, faults>>
  /\ UNCHANGED <<cat, ui, app>>

\* mutant: apply does not ask whether the transaction is still active
AppliesAnyway(state) == state # "applied"

(* PackTransaction.apply refuses a transaction whose discard has begun.    *)
Applies(state) == state = "active"

ApplyRuns ==
  /\ worker.kind = "apply" /\ worker.pc = "run"
  /\ \/ /\ Applies(tx.state) /\ ~worker.cancel /\ NoFault
        /\ tx' = [tx EXCEPT !.state = "applied"] /\ Ends(FALSE)
     \/ (worker.cancel \/ ~Applies(tx.state)) /\ NoFault /\ Ends(TRUE) /\ UNCHANGED tx
     \/ Fault /\ Ends(TRUE) /\ UNCHANGED tx
  /\ UNCHANGED <<cat, ui, app>>

(* TransactionDiscardOperation *)
DiscardRuns ==
  /\ tx.state = "discarding"
  /\ Discarded \/ DiscardFails
  /\ UNCHANGED <<worker, cat, ui, app>>

(* InstalledModVersionBrowserScreen._run_load *)
LoadRuns ==
  /\ cat.pc = "run"
  /\ \/ cat' = [cat EXCEPT !.pc = "end", !.error = cat.cancel] /\ NoFault
     \/ Fault /\ cat' = [cat EXCEPT !.pc = "end", !.error = TRUE]
  /\ UNCHANGED <<tx, worker, ui, app>>

ThreadNext == \/ ProvenanceRuns \/ PrepareCreates \/ Prepares \/ PrepareFinally
              \/ ApplyRuns \/ DiscardRuns \/ LoadRuns

-----------------------------------------------------------------------------
(* The details *)

(* A thread of a screen that goes away keeps its entry in the registry.    *)
Orphaned(w) == [w EXCEPT !.mine = FALSE, !.ref = IF w.mine THEN ui.tx ELSE @]

(* InstalledModDetailsScreen.on_mount: while the registries have an entry  *)
(* of the project the details stay unavailable.                            *)
Mount(selection) ==
  /\ ui' = [Screen("details") EXCEPT !.selection = selection]
  /\ worker' = IF worker.kind = "none" /\ cat.pc = "none"
               THEN [NoWorker EXCEPT !.kind = "provenance", !.pc = "run", !.mine = TRUE]
               ELSE Orphaned(worker)

OpenDetails ==
  /\ Up /\ ui.at = "list"
  /\ Mount(FALSE)
  /\ UNCHANGED <<tx, cat, app, faults>>

Started(kind, pc) ==
  [NoWorker EXCEPT !.kind = kind, !.pc = pc, !.mine = TRUE]

(* start_exact_selection and start_intent_prepare *)
Free == worker.kind = "none" /\ cat.pc = "none" /\ ~ui.tx /\ tx.opens < MaxOpens

StartPrepare ==
  /\ Details /\ Free
  /\ worker' = Started("prepare", "create")
  /\ ui' = [ui EXCEPT !.preview = FALSE]
  /\ tx' = [tx EXCEPT !.opens = @ + 1]
  /\ UNCHANGED <<cat, app, faults>>

(* A selection that was made in the catalog starts with the details; then, *)
(* in the same step of the event loop, a screen that was asked to be left  *)
(* is left unless it has a transaction by now.                             *)
PollProvenance ==
  /\ Details /\ Own("provenance") /\ worker.pc = "end"
  /\ ui' = [ui EXCEPT !.busy = TRUE, !.selection = FALSE]
  /\ IF ui.selection /\ tx.opens < MaxOpens
     THEN worker' = Started("prepare", "create") /\ tx' = [tx EXCEPT !.opens = @ + 1]
     ELSE worker' = NoWorker /\ UNCHANGED tx
  /\ UNCHANGED <<cat, app, faults>>

ProvenancePolled ==
  /\ app = "up" /\ ui.busy
  /\ IF ui.leave /\ ~ui.tx
     THEN ui' = Screen("list") /\ worker' = Orphaned(worker)
     ELSE ui' = [ui EXCEPT !.busy = FALSE] /\ UNCHANGED worker
  /\ UNCHANGED <<tx, cat, app, faults>>

(* _begin_discard: nothing to discard, a discard that runs, or a new one.  *)
BeginDiscard(leave) ==
  \/ /\ ui.discard
     /\ ui' = [ui EXCEPT !.leave = leave] /\ UNCHANGED tx
  \/ /\ ~ui.discard /\ ~ui.tx
     /\ ui' = (IF leave THEN Screen("list") ELSE ui) /\ UNCHANGED tx
  \/ /\ ~ui.discard /\ ui.tx
     /\ ui' = [ui EXCEPT !.discard = TRUE, !.leave = leave]
     /\ tx' = [tx EXCEPT !.state = IF @ = "discarded" THEN @ ELSE "discarding"]

PollPrepare ==
  /\ Details /\ Own("prepare") /\ worker.pc = "end"
  /\ worker' = NoWorker
  /\ LET known == [tx EXCEPT !.table = @ \/ (ui.tx /\ tx.state = "active")]
     IN IF worker.error /\ ~ui.tx
        THEN tx' = tx /\ ui' = IF ui.leave THEN Screen("list") ELSE ui
        ELSE IF worker.error \/ ui.leave
        THEN /\ tx' = [known EXCEPT !.state = "discarding"]
             /\ ui' = [ui EXCEPT !.discard = TRUE]
        ELSE tx' = known /\ ui' = [ui EXCEPT !.preview = TRUE]
  /\ UNCHANGED <<cat, app, faults>>

(* apply_preview does not look whether the transaction is being discarded. *)
ApplyPreview ==
  /\ Details /\ ui.preview /\ ui.tx /\ worker.kind = "none"
  /\ worker' = Started("apply", "run")
  /\ UNCHANGED <<tx, cat, ui, app, faults>>

PollApply ==
  /\ Details /\ Own("apply") /\ worker.pc = "end"
  /\ worker' = NoWorker
  /\ IF worker.error
     THEN \/ /\ ui.discard \/ ~ui.tx
             /\ ui' = (IF ui.leave /\ ~ui.tx THEN Screen("list")
                       ELSE [ui EXCEPT !.preview = FALSE])
             /\ UNCHANGED tx
          \/ /\ ~ui.discard /\ ui.tx
             /\ ui' = [ui EXCEPT !.preview = FALSE, !.discard = TRUE]
             /\ tx' = [tx EXCEPT !.state = IF @ = "discarded" THEN @ ELSE "discarding"]
     ELSE ui' = Screen("list") /\ tx' = [tx EXCEPT !.table = FALSE]
  /\ UNCHANGED <<cat, app, faults>>

(* A thread that loads is waited for, one that prepares or applies until   *)
(* its end has been polled.                                                *)
Waits == Own("prepare") \/ Own("apply") \/ (Own("provenance") /\ worker.pc # "end")

(* cancel_and_navigate.  Details that have been loaded and not yet polled  *)
(* are left at once, and their entry stays in the registry.                *)
CancelAndNavigate ==
  /\ Details
  /\ IF Waits
     THEN /\ worker' = [worker EXCEPT !.cancel = TRUE]
          /\ ui' = [ui EXCEPT !.leave = TRUE] /\ UNCHANGED tx
     ELSE /\ BeginDiscard(TRUE)
          /\ worker' = IF ui'.at = "details" THEN worker ELSE Orphaned(worker)
  /\ UNCHANGED <<cat, app, faults>>

(* The timer of the discard also runs while an apply thread does.          *)
PollDiscard ==
  /\ Details /\ ui.discard /\ tx.state \in {"discarded", "failed"}
  /\ IF tx.state = "failed"
     THEN ui' = [ui EXCEPT !.discard = FALSE] /\ UNCHANGED <<tx, worker>>
     ELSE /\ tx' = [tx EXCEPT !.table = FALSE]
          /\ IF ui.leave
             THEN ui' = Screen("list") /\ worker' = Orphaned(worker)
             ELSE /\ ui' = [ui EXCEPT !.discard = FALSE, !.tx = FALSE, !.preview = FALSE]
                  /\ UNCHANGED worker
  /\ UNCHANGED <<cat, app, faults>>

-----------------------------------------------------------------------------
(* The catalog of versions *)

(* action_browse_versions asks for the threads, not for the transaction:   *)
(* one with a preview stays in the application's table.                    *)
BrowseVersions ==
  /\ Details /\ worker.kind = "none" /\ cat.pc = "none"
  /\ ui' = Screen("browser")
  /\ cat' = [NoCatalog EXCEPT !.pc = "run"]
  /\ UNCHANGED <<tx, worker, app, faults>>

Browser == Up /\ ui.at = "browser"

(* A pending way back is taken when the load has ended. *)
PollLoad ==
  /\ Browser /\ cat.pc = "end"
  /\ cat' = NoCatalog
  /\ IF ui.leave
     THEN /\ ui' = Screen("details")
          /\ worker' = IF worker.kind = "none" THEN Started("provenance", "run") ELSE worker
     ELSE ui' = [ui EXCEPT !.catalog = ~cat.error] /\ UNCHANGED worker
  /\ UNCHANGED <<tx, app, faults>>

(* action_reload and action_toggle_prerelease *)
Reload ==
  /\ Browser /\ cat.pc = "none" /\ worker.kind = "none"
  /\ cat' = [NoCatalog EXCEPT !.pc = "run"]
  /\ ui' = [ui EXCEPT !.catalog = FALSE]
  /\ UNCHANGED <<tx, worker, app, faults>>

BrowserBack ==
  /\ Browser
  /\ \/ /\ cat.pc = "run"
        /\ cat' = [cat EXCEPT !.cancel = TRUE] /\ ui' = [ui EXCEPT !.leave = TRUE]
        /\ UNCHANGED worker
     \/ cat.pc = "none" /\ Mount(FALSE) /\ UNCHANGED cat
  /\ UNCHANGED <<tx, app, faults>>

(* InstalledModVersionCandidateScreen.action_select_version *)
SelectVersion ==
  /\ Browser /\ cat.pc = "none" /\ ui.catalog
  /\ Mount(TRUE)
  /\ UNCHANGED <<tx, cat, app, faults>>

-----------------------------------------------------------------------------
(* Another screen of the Pack: Install works on the transaction it finds   *)
(* in the table, or on a new one, and leaves it there.                     *)

OpenInstall ==
  /\ Up /\ ui.at = "list" /\ ui' = Screen("install")
  /\ UNCHANGED <<tx, worker, cat, app, faults>>

InstallStages ==
  /\ Up /\ ui.at = "install" /\ ~Held /\ tx.opens < MaxOpens
  /\ tx' = [state |-> "active", table |-> TRUE, opens |-> tx.opens + 1]
  /\ UNCHANGED <<worker, cat, ui, app, faults>>

InstallApplies ==
  /\ Up /\ ui.at = "install" /\ tx.table /\ tx.state = "active"
  /\ tx' = [tx EXCEPT !.state = "applied", !.table = FALSE]
  /\ UNCHANGED <<worker, cat, ui, app, faults>>

LeaveInstall ==
  /\ Up /\ ui.at = "install" /\ ui' = Screen("list")
  /\ UNCHANGED <<tx, worker, cat, app, faults>>

-----------------------------------------------------------------------------
(* The exit *)

(* The screens are unmounted, then on_unmount cancels every registered     *)
(* thread.                                                                 *)
Exit ==
  /\ Up
  /\ app' = "down"
  /\ worker' = Orphaned([worker EXCEPT !.cancel = worker.kind # "none"])
  /\ cat' = [cat EXCEPT !.cancel = cat.pc # "none"]
  /\ ui' = Screen("none")
  /\ UNCHANGED <<tx, faults>>

(* A registered thread is waited for; then what its getter returns is      *)
(* discarded.                                                              *)
DrainWorkers ==
  /\ app = "down" /\ cat.pc # "run" /\ worker.pc = "end"
  /\ app' = "table"
  /\ IF Getter /\ tx.state = "active" THEN Discarded \/ DiscardFails
     ELSE UNCHANGED <<tx, faults>>
  /\ UNCHANGED <<worker, cat, ui>>

\* the wait ends at the deadline; the transaction of the project is left alone
DrainTimeout ==
  /\ app = "down" /\ worker.pc # "end"
  /\ Fault /\ app' = "late"
  /\ UNCHANGED <<tx, worker, cat, ui>>

(* What the table has is discarded; one that is being discarded is waited  *)
(* for.                                                                    *)
DrainTable ==
  /\ app = "table" /\ ~(tx.table /\ tx.state = "discarding")
  /\ app' = "end"
  /\ IF tx.table /\ Held THEN Discarded \/ DiscardFails ELSE UNCHANGED <<tx, faults>>
  /\ UNCHANGED <<worker, cat, ui>>

PollNext == \/ PollProvenance \/ ProvenancePolled \/ PollPrepare \/ PollApply \/ PollDiscard
            \/ PollLoad

Next ==
  \/ ThreadNext \/ PollNext
  \/ OpenDetails \/ StartPrepare \/ ApplyPreview \/ CancelAndNavigate
  \/ BrowseVersions \/ Reload \/ BrowserBack \/ SelectVersion
  \/ OpenInstall \/ InstallStages \/ InstallApplies \/ LeaveInstall
  \/ Exit \/ DrainWorkers \/ DrainTimeout \/ DrainTable

(* Threads run and the timers of the screen fire. *)
Fairness == WF_versionVars(ThreadNext) /\ WF_versionVars(PollNext)

Spec == Init /\ [][Next]_versionVars /\ Fairness

-----------------------------------------------------------------------------
(* A transaction that is neither applied nor discarded is known to         *)
(* somebody who will finish it: the shown screen, the table, the registry  *)
(* or a thread; after the exit only failures and late threads leave one.   *)
NothingForgotten ==
  tx.state = "active" =>
    \/ app = "up" /\ ui.tx
    \/ app \in {"up", "down", "table"} /\ tx.table
    \/ app \in {"up", "down"} /\ Getter
    \/ worker.kind = "prepare" /\ worker.pc # "end"
    \/ app = "late"

(* Who asks to leave the details or the catalog leaves them, unless the    *)
(* discard failed.                                                         *)
Answered == ~ui.leave \/ app # "up" \/ tx.state = "failed"
LeavingEnds == []<>Answered
=============================================================================
