----------------------- MODULE TemplateImportScreens ------------------------
(***************************************************************************)
(* The screens of a Template import (huroshiki.py: TemplateImportSelection,*)
(* -Conflict, -SideConflict and -ExecutionScreen) and the end of the       *)
(* application (on_unmount), with the threads of TemplateImport.           *)
(*                                                                         *)
(* The event loop runs keys and the 50 ms polls between any two steps of   *)
(* the threads.  ui.at is the screen; ui.busy: a thread is not polled yet; *)
(* ui.owner: the application's table has the thread that applies;          *)
(* ui.settled: the screen has nothing more to discard; ui.missed: a cancel *)
(* came after the last look of the thread it was meant for.                *)
(***************************************************************************)
EXTENDS TemplateImport

Open == ui.at # "left" /\ ui.down = "no"
SameThreads == UNCHANGED <<plan, run, edited>>
Left == [ui EXCEPT !.at = "left", !.busy = FALSE]

-----------------------------------------------------------------------------
(* Selecting Templates and planning *)

(* What an earlier plan left behind is no longer known here. *)
StartPlanning ==
  /\ Open /\ ui.at = "select" /\ ~ui.busy /\ ui.tries < MaxPlans
  /\ plan' = Planning
  /\ ui' = [ui EXCEPT !.busy = TRUE, !.tries = @ + 1]
  /\ UNCHANGED <<tx, run, edited, faults>>

(* _discard_planning_owner: the session, or the transaction that the error *)
(* of the plan has; when it fails the screen stays.                        *)
DiscardPlan ==
  IF plan.session \/ plan.error = "integrity"
  THEN /\ DiscardTx
       /\ ui' = IF Discards THEN Left ELSE [ui EXCEPT !.busy = FALSE]
       /\ plan' = IF Discards THEN [plan EXCEPT !.session = FALSE, !.error = "none"]
                  ELSE IF plan.session THEN [plan EXCEPT !.error = "error"] ELSE plan
  ELSE ui' = Left /\ UNCHANGED <<tx, plan, faults>>

PollPlanning ==
  /\ Open /\ ui.at = "select" /\ ui.busy /\ plan.done
  /\ IF ui.leave THEN DiscardPlan
     ELSE /\ ui' = [ui EXCEPT !.busy = FALSE,
                      !.at = IF plan.error = "none" /\ plan.session THEN "conflicts" ELSE @]
          /\ UNCHANGED <<tx, plan, faults>>
  /\ UNCHANGED <<run, edited>>

LeaveSelection ==
  /\ Open /\ ui.at = "select"
  /\ IF ui.busy
     THEN /\ ~ui.leave
          /\ plan' = [plan EXCEPT !.event = TRUE] /\ ui' = [ui EXCEPT !.leave = TRUE]
          /\ UNCHANGED <<tx, faults>>
     ELSE DiscardPlan
  /\ UNCHANGED <<run, edited>>

-----------------------------------------------------------------------------
(* Resolving conflicts *)

Execution(pick, sides) == [Operation EXCEPT !.pc = "new", !.pick = pick, !.sides = sides,
                             !.closed = run.closed]

\* what may be resolved, by the world
Resolutions == [w \in Worlds |-> Picks(w)]

(* Both screens resolve the plan; the execution screen starts the thread. *)
Continue ==
  /\ Open /\ ui.at = "conflicts"
  /\ \E pick \in Resolutions[World] :
       IF SideConflicts(World) # {}
       THEN ui' = [ui EXCEPT !.at = "sides"] /\ run' = [run EXCEPT !.pick = pick]
       ELSE /\ ui' = [ui EXCEPT !.at = "exec", !.busy = TRUE]
            /\ \E sides \in SideChanges(World, pick) : run' = Execution(pick, sides)
  /\ UNCHANGED <<tx, plan, edited, faults>>

Execute ==
  /\ Open /\ ui.at = "sides"
  /\ \E sides \in SideChanges(World, run.pick) : run' = Execution(run.pick, sides)
  /\ ui' = [ui EXCEPT !.at = "exec", !.busy = TRUE]
  /\ UNCHANGED <<tx, plan, edited, faults>>

BackToConflicts ==
  /\ Open /\ ui.at = "sides"
  /\ ui' = [ui EXCEPT !.at = "conflicts"]
  /\ UNCHANGED <<tx, faults>> /\ SameThreads

(* A discard that fails here is an exception of the screen. *)
QuitConflicts ==
  /\ Open /\ ui.at = "conflicts"
  /\ DiscardOnce
  /\ run' = [run EXCEPT !.closed = Closed]
  /\ ui' = IF Closed THEN Left ELSE ui
  /\ UNCHANGED <<plan, edited>>

-----------------------------------------------------------------------------
(* Execution, preview and application *)

(* TemplateImportOperation.cancel: the thread discards what it has begun. *)
CancelRun ==
  /\ plan' = [plan EXCEPT !.event = TRUE]
  /\ IF run.done \/ ~run.started
     THEN /\ DiscardOnce
          /\ run' = [run EXCEPT !.cancelled = TRUE, !.finished = Closed, !.closed = Closed,
                       !.done = @ \/ Closed]
     ELSE run' = [run EXCEPT !.cancelled = TRUE] /\ UNCHANGED <<tx, faults>>

\* the thread that runs is past its last look at the event
Deaf == run.pc = "ending" /\ ~run.closed

PollRun ==
  /\ Open /\ ui.at = "exec" /\ ui.busy /\ run.apply = "none" /\ run.done
  /\ ui' = [ui EXCEPT !.busy = FALSE,
              !.settled = IF run.error THEN run.closed ELSE run.cancelled,
              !.at = IF ui.leave /\ (IF run.error THEN run.closed ELSE run.cancelled)
                     THEN "left" ELSE @]
  /\ UNCHANGED <<tx, faults>> /\ SameThreads

(* The preview is confirmed; after a failed application once more. *)
Confirm ==
  /\ Open /\ ui.at = "exec" /\ ~ui.busy /\ run.done /\ run.preview /\ ~run.error /\ ~run.failed
  /\ run' = [run EXCEPT !.apply = "new", !.stale = edited]
  /\ ui' = [ui EXCEPT !.busy = TRUE, !.leave = FALSE, !.owner = TRUE]
  /\ UNCHANGED <<tx, plan, edited, faults>>

(* After a failed application the preview can be confirmed again.  *)
ConfirmAgain ==
  /\ Open /\ ui.at = "exec" /\ ~ui.busy /\ run.apply = "done" /\ run.failed
  /\ run' = [run EXCEPT !.apply = "new", !.failed = FALSE, !.stale = edited]
  /\ ui' = [ui EXCEPT !.busy = TRUE, !.leave = FALSE, !.owner = TRUE]
  /\ UNCHANGED <<tx, plan, edited, faults>>

PollApply ==
  /\ Open /\ ui.at = "exec" /\ ui.busy /\ run.apply = "done"
  /\ ui' = IF run.failed THEN [ui EXCEPT !.busy = FALSE, !.owner = FALSE, !.leave = FALSE,
                                 !.settled = run.closed]
           ELSE [Left EXCEPT !.owner = FALSE]
  /\ UNCHANGED <<tx, faults>> /\ SameThreads

Asks == [ui EXCEPT !.leave = TRUE]

(* discard_and_leave, by a key or because the preview is declined: the     *)
(* threads are asked to stop, a finished operation is discarded.           *)
QuitApplying ==
  /\ Open /\ ui.at = "exec" /\ ui.busy /\ run.apply # "none" /\ ~ui.leave
  /\ plan' = [plan EXCEPT !.event = TRUE] /\ ui' = Asks
  /\ UNCHANGED <<tx, run, edited, faults>>

QuitRunning ==
  /\ Open /\ ui.at = "exec" /\ ui.busy /\ run.apply = "none" /\ ~run.done /\ ~ui.leave
  /\ CancelRun
  /\ ui' = [Asks EXCEPT !.missed = @ \/ Deaf]
  /\ UNCHANGED edited

QuitPreview ==
  /\ Open /\ ui.at = "exec" /\ ~ui.busy
  /\ IF ui.settled THEN UNCHANGED <<tx, run, faults>>
     ELSE DiscardOnce /\ run' = [run EXCEPT !.finished = Closed, !.closed = Closed]
  /\ ui' = IF ui.settled \/ Closed THEN [Left EXCEPT !.settled = TRUE] ELSE ui
  /\ UNCHANGED <<plan, edited>>

-----------------------------------------------------------------------------
(* The end of the application: the screen is unmounted, then on_unmount    *)
(* waits for the thread that applies and discards what it left.            *)

Down(missed) == ui' = [ui EXCEPT !.down = "unmounted", !.missed = @ \/ missed]

UnmountSelection ==
  /\ Open /\ ui.at = "select"
  /\ IF ui.busy
     THEN /\ plan' = [plan EXCEPT !.event = TRUE] /\ UNCHANGED <<tx, faults>>
          /\ Down(plan.session /\ plan.pc \in {"ending", "end"})
     ELSE /\ IF plan.session \/ plan.error = "integrity" THEN DiscardTx ELSE UNCHANGED <<tx, faults>>
          /\ Down(FALSE) /\ UNCHANGED plan
  /\ UNCHANGED <<run, edited>>

UnmountIdle ==
  /\ Open /\ ui.at \in {"conflicts", "sides", "exec"} /\ ~ui.busy
  /\ IF ui.settled THEN UNCHANGED <<tx, run, faults>>
     ELSE DiscardOnce /\ run' = [run EXCEPT !.closed = Closed]
  /\ Down(FALSE) /\ UNCHANGED <<plan, edited>>

UnmountBusy ==
  /\ Open /\ ui.at = "exec" /\ ui.busy
  /\ IF run.apply # "none"
     THEN plan' = [plan EXCEPT !.event = TRUE] /\ Down(FALSE) /\ UNCHANGED <<tx, run, faults>>
     ELSE IF run.done THEN Down(~run.closed) /\ UNCHANGED <<tx, plan, run, faults>>
     ELSE CancelRun /\ Down(Deaf)
  /\ UNCHANGED edited

(* The deadline may pass before the thread is done. *)
Drain ==
  /\ ui.down = "unmounted"
  /\ IF ui.owner /\ run.apply = "done" /\ ~run.closed THEN DiscardTx ELSE UNCHANGED <<tx, faults>>
  /\ ui' = [ui EXCEPT !.down = "over"]
  /\ SameThreads

ScreenNext ==
  \/ StartPlanning \/ PollPlanning \/ LeaveSelection \/ Continue \/ Execute \/ BackToConflicts
  \/ QuitConflicts \/ PollRun \/ Confirm \/ ConfirmAgain \/ PollApply
  \/ QuitApplying \/ QuitRunning \/ QuitPreview
  \/ UnmountSelection \/ UnmountIdle \/ UnmountBusy \/ Drain

Next == PlanNext \/ RunNext \/ ApplyNext \/ ScreenNext \/ Edit

(* The threads run; the timers of the event loop fire until they stop. *)
Fairness ==
  /\ WF_importVars(PlanNext) /\ WF_importVars(RunNext) /\ WF_importVars(ApplyNext)
  /\ WF_importVars(PollPlanning) /\ WF_importVars(PollRun) /\ WF_importVars(PollApply)

Spec == Init /\ [][Next]_importVars /\ Fairness

-----------------------------------------------------------------------------
Pack == World.pack

(* What is applied is what the user resolved, from Templates nobody edited *)
(* before the confirmation: every chosen MOD is there in what it was       *)
(* verified to be, on its side; what gave way is gone, unless it is chosen *)
(* in its own place or an exact intent keeps it; the decisions on sides    *)
(* hold, except that an import into a Pack with exact intents ignores them *)
(* for a MOD the Pack does not record as a root                            *)
(* (_template_import_final_roots); no other root of the Pack is lost.      *)
AppliedIsChosen ==
  tx.state = "applied" =>
    LET real == tx.real IN
    /\ ~run.stale
    /\ \A c \in Chosen(run.pick) : /\ real.mods[c.actual] # 0
                                   /\ c.url # 0 => real.mods[c.actual] = c.url
    /\ \A c \in NewRoots(run.pick) : c.side \subseteq real.side[c.actual]
    /\ \A m \in Dropped(World, run.pick) \ Pinned(Pack) :
         real.mods[m] = 0 \/ \E c \in Chosen(run.pick) : c.actual = m
    /\ \A m \in DOMAIN run.sides :
         real.side[m] = run.sides[m] \/ (ExactAware(World) /\ m \notin Recorded(Pack))
    /\ \A m \in Recorded(Pack) \ Dropped(World, run.pick) : real.mods[m] # 0

(* The exact versions the chosen Templates intend are installed and named  *)
(* by intents; a lock of the Pack holds; no intent names anything that is  *)
(* not installed.                                                          *)
IntentIsKept ==
  tx.state = "applied" =>
    LET real == tx.real IN
    /\ \A i \in ActiveIntents(World, run.pick) :
         real.mods[i.mod] = i.exact /\ real.pin[i.mod] = i.exact
    /\ \A m \in Pack.locked : real.mods[m] = Pack.pin[m]
    /\ \A m \in Pinned(real) : real.pin[m] = real.mods[m]

(* An active transaction is always in the hands of a thread, a screen or   *)
(* the application's table, whatever step failed, unless a cancel came     *)
(* after its thread's last look.                                           *)
NothingForgotten ==
  tx.state = "active" =>
    \/ plan.pc # "end" \/ run.pc \notin {"none", "end"} \/ run.apply \notin {"none", "done"}
    \/ ui.down = "no" /\ (ui.at \in {"conflicts", "sides"} \/ ui.busy \/ (ui.at = "exec" /\ ~ui.settled))
    \/ ui.owner /\ ui.down # "over"
    \/ ui.missed

(* Who asks to leave a screen leaves it, or is back on it and told why. *)
Answered == ~(ui.leave /\ ui.busy) \/ ui.down # "no"
LeavingEnds == []<>Answered
=============================================================================
