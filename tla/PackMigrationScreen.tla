------------------------ MODULE PackMigrationScreen -------------------------
(***************************************************************************)
(* The screen of a copy migration and its owner in the application         *)
(* (huroshiki.py: PackCopyMigrationScreen, PackCopyMigrationOwner, the     *)
(* owner table and the migration part of on_unmount) around the worker of  *)
(* PackMigration.                                                          *)
(*                                                                         *)
(* The event loop runs one callback at a time: a key, the 50 ms poll, the  *)
(* end of a dialog, the shutdown.  Between two of them the worker may be   *)
(* anywhere.  The application keeps the owner, and with it both projects,  *)
(* until the screen or the shutdown releases it.                           *)
(***************************************************************************)
EXTENDS PackMigration

VARIABLES phase,    \* the screen's phase
          preview,  \* screen.preview: what the user is shown and confirms
          modal,    \* the confirmation dialogs are open
          left,     \* the screen has navigated away
          released, \* the application has dropped the owner
          quitting  \* on_unmount: "no", "waiting", "cleaning", "over"

Screen == <<phase, preview, modal, left, released, quitting>>
vars == <<Disk, manifest, Resolution, Outcome, Owner, Thread, hold, session, cancel, Bounds, Screen>>

Phase == {"start", "roots", "conflicts", "resolving", "preview", "publish", "discard",
          "failure-cleanup", "failure-cleaned"}

TypeOK ==
  /\ target \in {"none", "ours", "foreign"} /\ altered \in {"no", "staged", "published"}
  /\ staging \in {"none", "tree", "moved", "gone"}
  /\ staged \in [resolved : BOOLEAN, roots : SUBSET Id, pins : SUBSET Pins]
  /\ tree \in {"absent", "full", "emptied"} /\ sourceMoved \in BOOLEAN
  /\ manifest \in BOOLEAN
  /\ state \in {"none", "planning", "staged", "resolving", "resolution-required", "resolved",
                "ready", "applying", "applied", "failed", "discarding", "discarded"}
  /\ pub \in {"not-published", "uncertain", "published"}
  /\ {committed, stuck, locks, hold, cancel, error, retained, published, completed, nav,
      forFailure, modal, left, released} \subseteq BOOLEAN
  /\ attempt \in 0..MaxAttempts /\ base \in SUBSET Source /\ removed \in SUBSET Id
  /\ replaced \in SUBSET (Id \X Id)
  /\ session \in {"new", "planning", "provenance-required", "resolving", "resolution-required",
                  "resolved", "publishing", "published", "discarding", "discarded",
                  "retrying-cleanup", "cleanup-pending", "publication-uncertain", "cancelled",
                  "failed"}
  /\ job \in Job /\ pc \in Step /\ phase \in Phase
  /\ quitting \in {"no", "waiting", "cleaning", "over"}
  /\ faults \in 0..MaxFaults /\ outside \in 0..MaxOutside

(* open_pack_copy_migration has made session and owner; the screen mounts  *)
(* and starts its first worker.                                            *)
Init ==
  /\ manifest \in BOOLEAN
  /\ target = "none" /\ altered = "no" /\ staging = "none" /\ staged = Copied
  /\ tree = "absent" /\ sourceMoved = FALSE
  /\ attempt = 0 /\ base = {} /\ work = [roots |-> {}, pins |-> {}]
  /\ res = Nothing /\ removed = {} /\ replaced = {}
  /\ state = "none" /\ pub = "not-published" /\ committed = FALSE /\ stuck = FALSE
  /\ locks = FALSE
  /\ hold = FALSE /\ session = "planning" /\ cancel = FALSE
  /\ job = "start" /\ pc = "planning" /\ choice = <<>>
  /\ pending = Nothing /\ error = FALSE /\ retained = FALSE /\ published = FALSE
  /\ completed = FALSE /\ nav = FALSE /\ forFailure = FALSE
  /\ faults = 0 /\ outside = 0
  /\ phase = "start" /\ preview = Nothing /\ modal = FALSE /\ left = FALSE
  /\ released = FALSE /\ quitting = "no"

-----------------------------------------------------------------------------
(* Shapes *)

Idle == pc = "dead"                \* the thread is not alive
Done == pc \in {"dead", "ending"}  \* owner.done is set
Usable == ~left /\ quitting = "no"

SameWorld == UNCHANGED <<Disk, manifest, Resolution, Outcome, hold, Bounds>>

(* _start_worker: nothing happens while a thread is still alive. *)
Spawn(j, l, c) ==
  IF Idle THEN job' = j /\ pc' = l /\ choice' = c /\ error' = FALSE
          ELSE UNCHANGED <<Thread, error>>

(* session operations claim the session before they do anything; the       *)
(* claims of the worker of a migration that is being discarded fail.       *)
Enters(states, l) == IF session \in states THEN l ELSE "refused"

Navigate == left' = TRUE /\ released' = TRUE

-----------------------------------------------------------------------------
(* The poll *)

\* mutant: an error of the worker is shown before anything else
PollLeavingClean ==
  /\ nav /\ phase # "discard" /\ ~completed /\ ~error
  /\ phase' = "discard"
  /\ Spawn("discard", "cleanup", <<>>)
  /\ UNCHANGED <<preview, modal, left, released, quitting, session, cancel, pending, retained,
                 published, completed, nav, forFailure>>

(* Something asked to leave: clean up once more unless that has been done. *)
PollLeaving ==
  /\ nav /\ phase # "discard" /\ ~completed
  /\ phase' = "discard"
  /\ Spawn("discard", "cleanup", <<>>)
  /\ UNCHANGED <<preview, modal, left, released, quitting, session, cancel, pending, retained,
                 published, completed, nav, forFailure>>

PollDiscarded ==
  /\ phase = "discard" \/ (nav /\ completed)
  /\ phase' = "discard"
  /\ IF retained THEN UNCHANGED <<left, released>> ELSE Navigate
  /\ UNCHANGED <<preview, modal, quitting, session, cancel, Owner, Thread>>

PollFailureCleanup ==
  /\ ~nav /\ phase = "failure-cleanup" /\ ~retained
  /\ phase' = "failure-cleaned" /\ released' = TRUE
  /\ UNCHANGED <<preview, modal, left, quitting, session, cancel, Owner, Thread>>

Working == ~nav /\ phase \notin {"discard", "failure-cleanup", "failure-cleaned"}

(* A worker failed: after the commit the owner is kept, before it the      *)
(* transaction is discarded.                                               *)
PollError ==
  /\ Working /\ error
  /\ IF Lifecycle \in {"committed", "uncertain"}
     THEN /\ retained' = TRUE
          /\ published' = (published \/ Lifecycle = "committed")
          /\ UNCHANGED <<phase, forFailure, error, Thread>>
     ELSE /\ forFailure' = TRUE /\ phase' = "failure-cleanup"
          /\ Spawn("failure", "cleanup", <<>>)
          /\ UNCHANGED <<retained, published>>
  /\ UNCHANGED <<preview, modal, left, released, quitting, session, cancel, pending, completed,
                 nav>>

(* A result is routed to the phase that asks the next question. *)
PollResult ==
  /\ Working /\ ~error /\ pending # Nothing
  /\ pending' = Nothing
  /\ phase' = CASE pending.kind = "provenance" -> "roots"
                [] pending.kind = "unresolved" -> "conflicts"
                [] OTHER -> "preview"
  /\ preview' = IF pending.kind = "resolved" THEN pending ELSE preview
  /\ UNCHANGED <<modal, left, released, quitting, session, cancel, error, retained, published,
                 completed, nav, forFailure, Thread>>

PollPublished ==
  /\ Working /\ ~error /\ pending = Nothing
  /\ phase = "publish" /\ published /\ ~retained
  /\ Navigate
  /\ UNCHANGED <<phase, preview, modal, quitting, session, cancel, Owner, Thread>>

Poll ==
  /\ Usable /\ Idle
  /\ \/ PollLeaving \/ PollDiscarded \/ PollFailureCleanup \/ PollError \/ PollResult
     \/ PollPublished
  /\ SameWorld

-----------------------------------------------------------------------------
(* The user *)

CanType == Usable /\ ~modal

(* Enter with some candidates selected. *)
ChooseRoots ==
  /\ CanType /\ phase = "roots" /\ Done
  /\ phase' = "resolving"
  /\ \E roots \in (SUBSET Source) \ {{}} :
       /\ Spawn("select", Enters({"provenance-required"}, "authority"), [i \in roots |-> i])
       /\ session' = IF Idle /\ session = "provenance-required" THEN "resolving" ELSE session
  /\ UNCHANGED <<preview, modal, left, released, quitting, cancel, pending, retained, published,
                 completed, nav, forFailure>>
  /\ SameWorld

(* Enter with a choice for every unresolved root; a blocked version cannot *)
(* be resolved here.                                                       *)
ResolveConflicts ==
  /\ CanType /\ phase = "conflicts" /\ Done
  /\ ~res.blocked /\ attempt + outside < MaxAttempts
  /\ (attempt + 1) * Cardinality(base) <= MaxDecisions
  /\ phase' = "resolving"
  /\ \E c \in [res.bad -> Id \cup {Remove}] :
       /\ \A i \in res.bad : c[i] # i
       /\ Spawn("resolve", Enters({"resolution-required"}, "request"), c)
       /\ session' = IF Idle /\ session = "resolution-required" THEN "resolving" ELSE session
  /\ UNCHANGED <<preview, modal, left, released, quitting, cancel, pending, retained, published,
                 completed, nav, forFailure>>
  /\ SameWorld

(* Enter on the preview opens the dialogs that acknowledge the warnings    *)
(* and confirm.                                                            *)
AskConfirmation ==
  /\ CanType /\ phase = "preview" /\ Done
  /\ modal' = TRUE
  /\ UNCHANGED <<phase, preview, left, released, quitting, session, cancel, Owner, Thread>>
  /\ SameWorld

Confirm ==
  /\ Usable /\ modal
  /\ modal' = FALSE
  /\ phase' = "publish"
  /\ Spawn("publish", "prepare", <<>>)
  /\ UNCHANGED <<preview, left, released, quitting, session, cancel, pending, retained, published,
                 completed, nav, forFailure>>
  /\ SameWorld

Decline ==
  /\ Usable /\ modal
  /\ modal' = FALSE
  /\ UNCHANGED <<phase, preview, left, released, quitting, session, cancel, Owner, Thread>>
  /\ SameWorld

(* r *)
RetryCleanup ==
  /\ CanType /\ retained /\ Idle
  /\ Spawn("retry", "cleanup", <<>>)
  /\ UNCHANGED <<Screen, session, cancel, pending, retained, published, completed, nav,
                 forFailure>>
  /\ SameWorld

(* q or Escape *)
Leave ==
  /\ CanType
  /\ IF phase = "failure-cleaned"
     THEN /\ Navigate
          /\ UNCHANGED <<forFailure, nav, cancel, Thread, error>>
     ELSE /\ forFailure' = FALSE /\ nav' = TRUE /\ cancel' = TRUE
          /\ Spawn("discard", "cleanup", <<>>)
          /\ UNCHANGED <<left, released>>
  /\ UNCHANGED <<phase, preview, modal, quitting, session, pending, retained, published,
                 completed>>
  /\ SameWorld

-----------------------------------------------------------------------------
(* The end of the application *)

(* on_unmount of the application and of the screen: everything is cancelled, *)
(* and the screen is gone.                                                   *)
Quit ==
  /\ quitting = "no" /\ ~released
  /\ quitting' = "waiting" /\ cancel' = TRUE
  /\ phase' = "start" /\ modal' = FALSE
  /\ UNCHANGED <<preview, left, released, session, Owner, Thread>>
  /\ SameWorld

(* The worker did not stop before the deadline: the owner is kept. *)
QuitTimeout ==
  /\ quitting = "waiting" /\ ~Idle
  /\ quitting' = "over"
  /\ UNCHANGED <<phase, preview, modal, left, released, session, cancel, Owner, Thread>>
  /\ SameWorld

QuitCleans ==
  /\ quitting = "waiting" /\ Idle
  /\ IF Lifecycle = "precommit" \/ (Lifecycle = "committed" /\ retained)
     THEN /\ quitting' = "cleaning"
          /\ job' = "shutdown" /\ pc' = "cleanup" /\ choice' = <<>>
          /\ UNCHANGED <<retained, released>>
     ELSE /\ quitting' = "over"
          /\ retained' = (retained \/ Lifecycle = "uncertain")
          /\ released' = ~retained'
          /\ UNCHANGED Thread
  /\ UNCHANGED <<phase, preview, modal, left, session, cancel, pending, error, published,
                 completed, nav, forFailure>>
  /\ SameWorld

(* _run_migration_shutdown_cleanup: the cleanup has ended, or its deadline *)
(* has passed and the thread goes on alone.                                *)
QuitEnds ==
  /\ quitting = "cleaning"
  /\ quitting' = "over"
  /\ IF Idle THEN released' = ~retained /\ UNCHANGED retained
             ELSE retained' = TRUE /\ UNCHANGED released
  /\ UNCHANGED <<phase, preview, modal, left, session, cancel, pending, error, published,
                 completed, nav, forFailure, Thread>>
  /\ SameWorld

-----------------------------------------------------------------------------
(* Other programs *)

Elsewhere ==
  /\ outside < MaxOutside /\ attempt + outside < MaxAttempts
  /\ outside' = outside + 1 /\ UNCHANGED faults
  /\ \/ sourceMoved' = TRUE /\ UNCHANGED <<target, altered>>
     \/ target' \in {"none", "foreign"} \ {target} /\ UNCHANGED <<altered, sourceMoved>>
     \/ /\ altered = "no"
        /\ \/ staging = "tree" /\ altered' = "staged"
           \/ target = "ours" /\ altered' = "published"
        /\ UNCHANGED <<target, sourceMoved>>
  /\ UNCHANGED <<staging, staged, tree, manifest, Resolution, Outcome, Owner, Thread, hold, session,
                 cancel, Screen>>

WorkerStep == UNCHANGED <<manifest, Screen>> /\ Worker
User == ChooseRoots \/ ResolveConflicts \/ AskConfirmation \/ Confirm \/ Decline \/ RetryCleanup
        \/ Leave
Shutdown == QuitTimeout \/ QuitCleans \/ QuitEnds

Next == WorkerStep \/ Poll \/ User \/ Quit \/ Shutdown \/ Elsewhere

-----------------------------------------------------------------------------
(* What CopyMigrations states of both kinds of migration *)

(* The target project is what the user confirmed: the directory that was   *)
(* published holds a complete resolution with exactly the roots and fixed  *)
(* versions of the preview on the screen, whichever rounds of selection,   *)
(* conflict and retry came before (PackCopyMigrationScreen._route_view,    *)
(* prepare_pack_migration_publication, _exchange_target_source).  And no   *)
(* root or fixed version of the source disappears without a word: each is  *)
(* in the preview's result or in what the preview lists as removed or      *)
(* replaced; only a migration without any root left drops the fixed        *)
(* versions of dependencies (validate_resolution_request,                  *)
(* _resolve_effective_root_set, cumulative_removed, cumulative_replaced).  *)
(* Nor is it said to be published when another program changed the staged  *)
(* source tree on the way, be it between the last check and the rename     *)
(* (_matches_validated_target).                                            *)
PublishedIsConfirmed ==
  /\ staging = "moved" =>
       /\ staged.resolved
       /\ staged.roots = preview.roots /\ staged.pins = preview.pins
  /\ session = "published" => altered # "staged"
  /\ preview.kind = "resolved" =>
       LET told == preview.roots \cup preview.removed \cup {p[1] : p \in preview.replaced} IN
       /\ Originals \subseteq told
       /\ preview.roots # {} => Pins \subseteq preview.pins \cup told

(* The locks outlive the transaction tree and any publication whose        *)
(* outcome is not known: as long as there is something to recover, no      *)
(* other operation may work on either project, and nothing staged has been *)
(* deleted while it may be the only copy (discard_pack_migration_plan,     *)
(* _finish_committed_publication, plan_pack_copy_migration_at).            *)
LocksOutliveTree ==
  /\ tree # "absent" => locks
  /\ hold /\ Lifecycle = "uncertain" => locks /\ staging \in {"tree", "moved"} /\ ~released

(* What the session and the application say is true: published means the   *)
(* rename is committed and nothing is left behind, discarded means it      *)
(* never happened and nothing is left behind, and the owner is let go only *)
(* in one of these two cases (PackCopyMigrationSession,                    *)
(* release_pack_copy_migration).                                           *)
OutcomeIsTrue ==
  LET over == tree = "absent" /\ (hold => ~locks) IN
  /\ TypeOK
  /\ session = "published" => committed /\ over
  /\ session = "discarded" => staging \in {"none", "gone"} /\ ~committed /\ over
  /\ released => over /\ (staging = "moved" <=> committed)

(* A migration that was asked to stop comes to an end by itself: the       *)
(* screen leaves, or says that something is retained and waits for the     *)
(* user; and the application gets through its shutdown (_poll, on_unmount, *)
(* _run_migration_shutdown_cleanup).                                       *)
Stopping == \/ nav /\ ~left /\ ~retained /\ quitting = "no"
            \/ quitting \in {"waiting", "cleaning"}
=============================================================================
