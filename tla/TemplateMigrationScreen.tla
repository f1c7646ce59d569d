----------------------- MODULE TemplateMigrationScreen -----------------------
(***************************************************************************)
(* The screen of a copy migration of a Template and its owner in the       *)
(* application (huroshiki.py: TemplateCopyMigrationScreen,                 *)
(* TemplateCopyMigrationOwner, its part of on_unmount) around the worker   *)
(* of TemplateMigration.  Unlike the screen of a Pack's migration it       *)
(* decides by the session's state; a cleanup that failed is tried again    *)
(* with r.                                                                 *)
(***************************************************************************)
EXTENDS TemplateMigration

VARIABLE scr \* phase, preview, dialogs open, left, released, the shutdown

vars == <<template, disk, plan, session, cancel, thr, own, faults, outside, scr>>

Thread == {"none", "start", "resolve", "publish", "cleanup", "shutdown"}
Choices == UNION {[d -> DOMAIN Identity \cup {Remove}] : d \in SUBSET DOMAIN template.roots}

TypeOK ==
  /\ disk.target \in {"none", "ours", "foreign"}
  /\ disk.tree \in {"absent", "full", "emptied", "bare"}
  /\ disk.staging \in {"none", "tree", "moved", "gone", "swept"}
  /\ {disk.altered, disk.moved, disk.staged, plan.held, plan.tx, plan.locks, plan.committed,
      plan.stuck, plan.cleaned, plan.removing, cancel, own.error, own.orig, own.stuck,
      own.cleaned, own.nav, scr.modal, scr.left, scr.released} \subseteq BOOLEAN
  /\ {plan.roots, disk.roots} \subseteq Choices
  /\ {plan.pins, disk.pins} \subseteq SUBSET template.pins
  /\ plan.pub \in {"not-published", "uncertain", "published"}
  /\ plan.res.status \in {"none", "required", "resolved"}
  /\ session \in {"planning", "resolving", "resolution-required", "resolved", "publishing",
                  "published", "discarding", "discarded", "retrying-cleanup", "cleanup-pending",
                  "publication-uncertain", "cancelled", "failed"}
  /\ thr.job \in Thread /\ thr.choice \in Choices
  /\ scr.phase \in {"starting", "conflicts", "resolving", "preview", "publishing", "complete"}
  /\ scr.quitting \in {"no", "waiting", "cleaning", "over"}
  /\ plan.attempt \in Nat /\ faults \in 0..MaxFaults /\ outside \in 0..MaxOutside

(* _start_template_copy_migration has made session and owner; the screen   *)
(* mounts and starts its first worker.                                     *)
Init ==
  /\ Start
  /\ scr = [phase |-> "starting", preview |-> NoResult, modal |-> FALSE, left |-> FALSE,
            released |-> FALSE, quitting |-> "no"]

-----------------------------------------------------------------------------
(* Shapes *)

Idle == At("dead")
Usable == ~scr.left /\ scr.quitting = "no"
CanType == Usable /\ ~scr.modal
World == <<template, disk, plan, session>>

(* _start_worker: nothing happens while a thread is alive.  A thread that  *)
(* cannot be started is an error of the operation or of the cleanup.       *)
Spawn(o, job, pc, choice) ==
  IF ~Idle THEN thr' = thr /\ own' = o /\ NoFault
  ELSE \/ /\ thr' = [job |-> job, pc |-> pc, choice |-> choice, before |-> 0]
          /\ own' = [o EXCEPT !.error = FALSE] /\ NoFault
       \/ /\ Fault /\ UNCHANGED thr
          /\ own' = IF job = "cleanup" THEN [o EXCEPT !.error = FALSE, !.stuck = TRUE,
                                                      !.cleaned = TRUE]
                    ELSE [o EXCEPT !.error = TRUE, !.orig = TRUE]

Clean(o) == Spawn([o EXCEPT !.cleaned = FALSE], "cleanup", "cleanup", Empty)

(* _finish_cleanup: leave once nothing failed and nothing is uncertain.    *)
\* mutant: a cleanup that failed does not keep the owner
FinishAnyway ==
  /\ own' = [own EXCEPT !.nav = FALSE]
  /\ scr' = [scr EXCEPT !.phase = "complete", !.left = TRUE, !.released = TRUE]
Finish ==
  IF own.stuck \/ ~(session \in {"discarded", "published"} \/ Lifecycle = "committed")
  THEN UNCHANGED <<own, scr>>
  ELSE /\ own' = [own EXCEPT !.nav = FALSE]
       /\ scr' = [scr EXCEPT !.phase = "complete", !.left = TRUE, !.released = TRUE]

-----------------------------------------------------------------------------
(* The poll *)

\* mutant: the cleanup waits until there is no error to show
PollLeavingClean ==
  own.nav /\ ~own.cleaned /\ ~own.error /\ Clean(own) /\ UNCHANGED scr

(* Somebody wants to leave: clean up, unless that has been done.           *)
PollLeaving == own.nav /\ ~own.cleaned /\ Clean(own) /\ UNCHANGED scr

Settled == ~(own.nav /\ ~own.cleaned)

(* A conflict round that failed: choose again.                             *)
PollRetry ==
  /\ Settled /\ own.error /\ session = "resolution-required"
  /\ own' = [own EXCEPT !.error = FALSE, !.orig = FALSE]
  /\ scr' = [scr EXCEPT !.phase = "conflicts"]
  /\ UNCHANGED thr /\ NoFault

(* Anything else that failed is cleaned up before it is told.              *)
PollError ==
  /\ Settled /\ own.error
  /\ session \notin {"resolution-required", "publication-uncertain", "published"}
  /\ ~own.cleaned
  /\ Clean([own EXCEPT !.nav = TRUE]) /\ UNCHANGED scr

PollFinish ==
  /\ own.nav /\ own.cleaned
  /\ \/ own.error /\ session # "resolution-required"
     \/ ~own.error /\ (own.orig \/ own.stuck \/ session \in {"cleanup-pending", "discarded"})
  /\ Finish /\ UNCHANGED thr /\ NoFault

Quiet == Settled /\ ~own.error /\ ~(own.nav /\ (own.orig \/ own.stuck))

PollState ==
  /\ Quiet
  /\ \/ session = "resolution-required" /\ scr' = [scr EXCEPT !.phase = "conflicts"]
     \/ session = "resolved"
        /\ scr' = [scr EXCEPT !.phase = "preview", !.preview = plan.res]
     \/ session = "published"
        /\ scr' = [scr EXCEPT !.phase = "complete", !.left = TRUE, !.released = TRUE]
  /\ UNCHANGED <<own, thr>> /\ NoFault

Poll ==
  /\ Usable /\ Idle
  /\ PollLeaving \/ PollRetry \/ PollError \/ PollFinish \/ PollState
  /\ UNCHANGED <<World, cancel>>

-----------------------------------------------------------------------------
(* The user *)

(* Enter with a choice for at least one of the conflicts.                  *)
Resolves ==
  /\ CanType /\ scr.phase = "conflicts" /\ plan.attempt + outside <= MaxAttempts
  /\ plan.attempt * Cardinality(DOMAIN template.roots) <= MaxDecisions
  /\ \E d \in (SUBSET DOMAIN plan.res.open) \ {{}} :
       \E c \in [d -> Offers \cup {Remove}] :
         /\ \A i \in d : plan.res.open[i].replace \/ c[i] = Remove
         /\ Spawn(own, "resolve", "request", c)
  /\ scr' = [scr EXCEPT !.phase = "resolving"]
  /\ UNCHANGED <<World, cancel>>

(* Enter on the preview opens the dialogs.                                 *)
AskConfirmation ==
  /\ CanType /\ scr.phase = "preview"
  /\ scr' = [scr EXCEPT !.modal = TRUE]
  /\ UNCHANGED <<World, cancel, thr, own, Bounds>>

Confirm ==
  /\ Usable /\ scr.modal
  /\ scr' = [scr EXCEPT !.modal = FALSE, !.phase = "publishing"]
  /\ Spawn(own, "publish", "prepare", Empty)
  /\ UNCHANGED <<World, cancel>>

Decline ==
  /\ Usable /\ scr.modal
  /\ scr' = [scr EXCEPT !.modal = FALSE]
  /\ UNCHANGED <<World, cancel, thr, own, Bounds>>

(* r *)
RetryCleanup ==
  /\ CanType /\ Lifecycle # "uncertain"
  /\ session = "cleanup-pending" \/ (own.stuck /\ own.nav)
  /\ Clean([own EXCEPT !.stuck = FALSE])
  /\ UNCHANGED <<World, cancel, scr>>

(* q or Escape *)
Leave ==
  /\ CanType
  /\ cancel' = TRUE
  /\ IF Idle THEN Clean([own EXCEPT !.nav = TRUE])
             ELSE own' = [own EXCEPT !.nav = TRUE] /\ UNCHANGED <<thr, Bounds>>
  /\ UNCHANGED <<World, scr>>

-----------------------------------------------------------------------------
(* The end of the application *)

SameUi == UNCHANGED <<World, own>>
Quitting(q) == scr' = [scr EXCEPT !.quitting = q]

(* on_unmount cancels the migration and waits for its thread; the screen   *)
(* is gone.                                                                *)
Quit ==
  /\ scr.quitting = "no" /\ ~scr.released
  /\ cancel' = TRUE
  /\ scr' = [scr EXCEPT !.quitting = "waiting", !.phase = "starting", !.modal = FALSE]
  /\ own' = [own EXCEPT !.nav = FALSE]
  /\ UNCHANGED <<World, thr, Bounds>>

QuitTimeout ==
  /\ scr.quitting \in {"waiting", "cleaning"} /\ ~Idle
  /\ Quitting("over") /\ SameUi /\ UNCHANGED <<cancel, thr, Bounds>>

LetGo == scr' = [scr EXCEPT !.quitting = "over", !.released = TRUE]

(* Nothing is left to clean, or it has been tried: the owner is let go,    *)
(* unless a cleanup failed or the outcome is not known.                    *)
Released == ~own.stuck /\ session # "publication-uncertain" /\ LetGo
Kept == (own.stuck \/ session = "publication-uncertain") /\ Quitting("over")

NeedsCleaning == \/ Lifecycle = "precommit"
                 \/ Lifecycle = "committed" /\ session = "cleanup-pending"

(* A published migration is let go even with the error of a cleanup.       *)
QuitCleans ==
  /\ scr.quitting = "waiting" /\ Idle
  /\ \/ session = "published" /\ LetGo /\ UNCHANGED thr
     \/ /\ session # "published" /\ NeedsCleaning
        /\ thr' = [job |-> "shutdown", pc |-> "cleanup", choice |-> Empty, before |-> 0]
        /\ Quitting("cleaning")
     \/ /\ session # "published" /\ ~NeedsCleaning
        /\ Released \/ Kept
        /\ UNCHANGED thr
  /\ SameUi /\ UNCHANGED <<cancel, Bounds>>

QuitEnds ==
  /\ scr.quitting = "cleaning" /\ Idle
  /\ Released \/ Kept
  /\ SameUi /\ UNCHANGED <<cancel, thr, Bounds>>

-----------------------------------------------------------------------------
(* Other programs: the source is edited, somebody makes, takes or edits a  *)
(* directory at the target, the clean-up of state removes the transaction. *)

Elsewhere ==
  /\ outside < MaxOutside /\ plan.attempt + outside <= MaxAttempts
  /\ outside' = outside + 1 /\ UNCHANGED faults
  /\ \/ disk' = [disk EXCEPT !.moved = TRUE]
     \/ \E t \in {"none", "foreign"} \ {disk.target} : disk' = [disk EXCEPT !.target = t]
     \/ disk.target = "ours" /\ disk' = [disk EXCEPT !.altered = TRUE]
     \/ disk.tree # "absent"
        /\ disk' = [disk EXCEPT !.tree = "absent",
                                !.staging = IF @ = "tree" THEN "swept" ELSE @]
  /\ UNCHANGED <<template, plan, session, cancel, thr, own, scr>>

WorkerStep == UNCHANGED scr /\ Worker
User == Resolves \/ AskConfirmation \/ Confirm \/ Decline \/ RetryCleanup \/ Leave
Shutdown == QuitTimeout \/ QuitCleans \/ QuitEnds

Next == WorkerStep \/ Poll \/ User \/ Quit \/ Shutdown \/ Elsewhere

-----------------------------------------------------------------------------
(* What CopyMigrations states of both kinds of migration *)

(* The manifest that was published is the one of the preview on the        *)
(* screen; every root of the source is in it under its identity, or listed *)
(* as removed or replaced, every fixed version of a root is in it with its *)
(* root or listed with the root that was removed, and no two of its roots  *)
(* are one MOD.                                                            *)
PublishedIsConfirmed ==
  LET shown == scr.preview IN
  /\ disk.staging = "moved" =>
       disk.staged /\ disk.roots = shown.roots /\ disk.pins = shown.pins
  /\ shown.status = "resolved" =>
       /\ \A i \in DOMAIN template.roots :
            \/ i \in DOMAIN shown.removed
            \/ /\ i \in DOMAIN shown.roots
               /\ i \in DOMAIN shown.replaced
                  \/ shown.roots[i] = Identity[template.roots[i]]
       /\ \A i, j \in DOMAIN shown.roots : shown.roots[i] = shown.roots[j] => i = j
       /\ \A p \in template.pins :
            \/ p \in shown.pins /\ \E i \in DOMAIN shown.roots : shown.roots[i] = p
            \/ \E i \in DOMAIN shown.removed : p \in shown.removed[i]

(* What is staged is there as long as the outcome of the publication is    *)
(* open, and the locks are held as long as something is staged.            *)
LocksOutliveTree ==
  /\ disk.tree \in {"full", "emptied"} => plan.locks
  /\ plan.held /\ Lifecycle = "uncertain" =>
       plan.locks /\ disk.staging \in {"tree", "moved", "swept"} /\ ~scr.released

(* Published and discarded mean what they say and leave nothing behind.    *)
(* The owner is let go only then, with one exception: a cleanup after the  *)
(* commit failed and r was pressed between the worker's two assignments,   *)
(* which erases the error; the session then still says cleanup-pending.    *)
OutcomeIsTrue ==
  LET over == disk.tree \in {"absent", "bare"} /\ ~plan.locks IN
  /\ TypeOK
  /\ session = "published" => plan.committed /\ over
  /\ session = "discarded" => ~plan.committed /\ over /\ disk.staging # "moved"
  /\ scr.released => \/ over /\ (disk.staging = "moved" <=> plan.committed)
                     \/ plan.committed /\ session = "cleanup-pending"

Stopping ==
  \/ /\ own.nav /\ ~scr.left /\ scr.quitting = "no"
     /\ ~own.stuck /\ session \notin {"publication-uncertain", "cleanup-pending"}
  \/ scr.quitting \in {"waiting", "cleaning"}
=============================================================================
