---------------------------- MODULE PackMigration ----------------------------
(***************************************************************************)
(* One copy migration of a Pack (pack_migration.py, _resolution.py,        *)
(* _conflicts.py and PackCopyMigrationSession): the plan that holds both   *)
(* project locks and a private transaction tree, the resolution of its     *)
(* root MODs against the new target, the rename that publishes the staged  *)
(* directory as packs/<target>, and the cleanup before or after it.        *)
(*                                                                         *)
(* All of it runs in one worker thread at a time; which job that thread is *)
(* given next is decided by the screen (PackMigrationScreen).  Programs    *)
(* that take no lock may write to packs/ between any two steps.            *)
(*                                                                         *)
(* A MOD is a number: the code handles root identities in sorted order.    *)
(***************************************************************************)
EXTENDS Naturals, FiniteSets

CONSTANTS Source,      \* root MODs the source Pack declares
          Spare,       \* other MODs, offered as replacements
          Deps,        \* MODs a closure may pull in
          Pins,        \* MODs whose version the source fixes
          MaxAttempts, \* how many conflict rounds, with the steps of other programs
          MaxDecisions, \* how many decisions on roots, rounds by roots
          MaxFaults,   \* how many errors besides cancellation
          MaxOutside   \* how many steps of other programs

Id == Source \cup Spare
Remove == 0

VARIABLES
  target,      \* what is at packs/<target>
  altered,     \* where our directory was when somebody changed it, or "no"
  staging,     \* where the staged target directory is
  staged,      \* what its source tree holds
  tree,        \* the transaction tree on disk
  sourceMoved, \* the source Pack changed since it was snapshotted
  manifest,    \* the source Pack has a root manifest
  state,       \* plan._state
  pub,         \* plan._publication_state
  committed,   \* plan._publication_committed
  stuck,       \* plan.cleanup_error
  attempt,     \* plan._resolution_attempt
  base,        \* the original roots: manifest or selection
  work,        \* the resolver workspace: effective roots and pins
  res,         \* plan.resolution
  removed,     \* plan._conflict_removed_roots
  replaced,    \* plan._conflict_replaced_roots
  locks,       \* the project locks of source and target are held
  hold,        \* session._plan is set
  session,     \* session._state
  cancel,      \* the cancel event
  job, pc,     \* what the worker thread runs and how far it is
  choice,      \* the roots selected, or what to do with unresolved ones
  pending,     \* owner.pending_view and pending_preview
  error,       \* owner.error
  retained,    \* owner.cleanup_retained
  published,   \* owner.published
  completed,   \* owner.cleanup_completed
  nav,         \* owner.navigation_pending
  forFailure,  \* owner.cleanup_for_failure
  faults, outside

Disk == <<target, altered, staging, staged, tree, sourceMoved>>
Resolution == <<attempt, base, work, res, removed, replaced>>
Outcome == <<state, pub, committed, stuck, locks>>
Owner == <<pending, error, retained, published, completed, nav, forFailure>>
Thread == <<job, pc, choice>>
Bounds == <<faults, outside>>

Nothing == [kind |-> "none", roots |-> {}, pins |-> {}, removed |-> {}, replaced |-> {},
            bad |-> {}, blocked |-> FALSE]
Copied == [resolved |-> FALSE, roots |-> {}, pins |-> {}]

Job == {"none", "start", "select", "resolve", "publish", "discard", "failure", "retry",
        "shutdown"}
Step == {"dead", "ending", "planning", "copying", "planCleanup", "planRelease", "authority",
         "materialize", "request", "selectors", "resolving", "closures", "finalize", "exchange",
         "deliver", "prepare", "apply", "rename", "reconcile", "renamed", "verify",
         "reverify", "finish", "rmdir", "release", "raise", "cleanup", "removeTree",
         "discardRelease", "cleaned", "uncleaned", "refused"}

-----------------------------------------------------------------------------
(* Shapes *)

Goto(l) == pc' = l /\ UNCHANGED <<job, choice>>
At(l) == pc = l

(* A step that may be stopped: at a checkpoint by the cancel event, or by  *)
(* an error of its own.                                                    *)
Fault == faults < MaxFaults /\ faults' = faults + 1 /\ UNCHANGED outside
Interrupted == Fault \/ (cancel /\ UNCHANGED Bounds)
NoFault == UNCHANGED Bounds

SourceFresh == ~sourceMoved

(* publication_lifecycle of the session's plan *)
Lifecycle == CASE ~hold -> "none"
               [] hold /\ committed -> "committed"
               [] hold /\ ~committed /\ pub = "uncertain" -> "uncertain"
               [] hold /\ ~committed /\ pub # "uncertain" /\ state = "discarded" -> "discarded"
               [] OTHER -> "precommit"

(* The handler around a resolution or a publication: the plan is failed.   *)
PlanFails == state' = "failed" /\ stuck' = TRUE /\ UNCHANGED <<pub, committed, locks>>
SamePlan == UNCHANGED <<Outcome, Resolution>>
SameSession == UNCHANGED <<hold, session, cancel>>

Raise == Goto("raise")

-----------------------------------------------------------------------------
(* start: snapshot, plan, first resolution *)

(* plan_pack_copy_migration_at up to the transaction root.  Anything that  *)
(* goes wrong here leaves no plan; giving the locks back may itself fail.  *)
PlanBegin ==
  /\ At("planning")
  /\ \/ /\ SourceFresh /\ target = "none" /\ NoFault
        /\ locks' = TRUE /\ tree' = "full" /\ state' = "planning"
        /\ UNCHANGED <<pub, committed, stuck>>
        /\ Goto("copying")
     \/ /\ (sourceMoved \/ target # "none") /\ NoFault
        /\ Raise /\ UNCHANGED <<tree, Outcome>>
     \/ /\ Interrupted
        /\ Raise /\ UNCHANGED <<tree, Outcome>>
     \/ /\ (cancel \/ sourceMoved \/ target # "none") /\ Fault
        /\ locks' = TRUE
        /\ Raise /\ UNCHANGED <<tree, state, pub, committed, stuck>>
  /\ UNCHANGED <<target, altered, staging, staged, sourceMoved, manifest, Resolution, Owner>>
  /\ SameSession

(* Source snapshot and staging are copied, the target's configuration is   *)
(* rewritten; the session then keeps the plan.                             *)
PlanCopies ==
  /\ At("copying")
  /\ \/ /\ NoFault
        /\ staging' = "tree" /\ staged' = Copied
        /\ state' = "staged" /\ hold' = TRUE
        /\ Goto("resolving")
     \/ /\ Interrupted
        /\ staging' \in {"none", "tree"} /\ staged' = Copied
        /\ state' = "failed" /\ UNCHANGED hold
        /\ Goto("planCleanup")
  /\ UNCHANGED <<target, altered, tree, sourceMoved, pub, committed, stuck, locks, session,
                 cancel, manifest, Resolution, Owner>>

(* Its error path: remove the tree, then release the locks; a failure of   *)
(* either hands the plan to the session with the error.                    *)
PlanCleansUp ==
  /\ At("planCleanup")
  /\ \/ /\ NoFault
        /\ tree' = "absent" /\ staging' = IF staging = "tree" THEN "gone" ELSE staging
        /\ Goto("planRelease") /\ UNCHANGED <<hold, stuck>>
     \/ /\ Fault
        /\ staging' \in {staging, IF staging = "tree" THEN "gone" ELSE staging}
        /\ stuck' = TRUE /\ hold' = TRUE
        /\ Raise /\ UNCHANGED tree
  /\ UNCHANGED <<target, altered, staged, sourceMoved, state, pub, committed, locks, session,
                 cancel, manifest, Resolution, Owner>>

PlanReleases ==
  /\ At("planRelease")
  /\ \/ /\ NoFault /\ locks' = FALSE /\ UNCHANGED <<hold, stuck>>
     \/ /\ Fault /\ stuck' = TRUE /\ hold' = TRUE /\ UNCHANGED locks
  /\ Raise
  /\ UNCHANGED <<Disk, state, pub, committed, session, cancel, manifest, Resolution, Owner>>

-----------------------------------------------------------------------------
(* Root selection for a Pack without a manifest *)

(* _create_root_selection_authority: nothing has changed when it raises.   *)
SelectAuthority ==
  /\ At("authority")
  /\ \/ /\ state = "resolution-required" /\ res.kind = "provenance" /\ base = {}
        /\ NoFault /\ Goto("materialize")
     \/ Interrupted /\ Raise
  /\ UNCHANGED <<Disk, manifest, Owner>> /\ SamePlan /\ SameSession

(* select_pack_migration_roots_at: the selection becomes a manifest of the *)
(* migration's own copy and the plan starts over from "staged".            *)
SelectMaterializes ==
  /\ At("materialize")
  /\ \/ /\ SourceFresh /\ NoFault
        /\ base' = DOMAIN choice /\ res' = Nothing /\ state' = "staged"
        /\ Goto("resolving")
        /\ UNCHANGED <<pub, committed, stuck, locks>>
     \/ /\ (Interrupted \/ (sourceMoved /\ NoFault))
        /\ PlanFails /\ Raise /\ UNCHANGED <<base, res>>
  /\ UNCHANGED <<Disk, attempt, work, removed, replaced, manifest, Owner>> /\ SameSession

-----------------------------------------------------------------------------
(* Resolution *)

(* validate_resolution_request works through the unresolved roots in       *)
(* order: a root leaves, and its replacement must not be there then.       *)
Collides ==
  \E i \in res.bad :
    /\ choice[i] # Remove
    /\ \/ choice[i] \in res.roots \ {j \in res.bad : j <= i}
       \/ \E j \in res.bad : j < i /\ choice[j] = choice[i]

Effective == (res.roots \ res.bad) \cup {choice[i] : i \in {j \in res.bad : choice[j] # Remove}}

(* create_pack_migration_resolution_request; a refusal changes nothing.    *)
ConflictRequest ==
  /\ At("request")
  /\ IF /\ state = "resolution-required" /\ res.kind = "unresolved"
        /\ ~res.blocked /\ DOMAIN choice = res.bad /\ ~Collides
     THEN Goto("selectors") ELSE Raise
  /\ NoFault
  /\ UNCHANGED <<Disk, manifest, Owner>> /\ SamePlan /\ SameSession

(* resolve_pack_migration_conflicts_at up to the fresh resolution: a       *)
(* replacement that is not canonical is refused with nothing changed.      *)
ConflictBegins ==
  /\ At("selectors")
  /\ \/ /\ Fault /\ Raise /\ UNCHANGED <<Outcome, Resolution>>
     \/ /\ Interrupted /\ PlanFails /\ Raise /\ UNCHANGED Resolution
     \/ /\ altered # "no" /\ NoFault /\ PlanFails /\ Raise /\ UNCHANGED Resolution
     \/ /\ altered = "no" /\ NoFault
        /\ attempt' = attempt + 1 /\ state' = "resolving"
        /\ work' = [roots |-> Effective, pins |-> {}]
        /\ Goto("resolving")
        /\ UNCHANGED <<base, res, removed, replaced, pub, committed, stuck, locks>>
  /\ UNCHANGED <<Disk, manifest, Owner>> /\ SameSession

Originals == IF manifest THEN Source ELSE base

(* _resolve_effective_root_set: validation of plan, locks, source and      *)
(* detached copy, then the roots; without a manifest it stops and asks.    *)
ResolveBegins ==
  /\ At("resolving")
  /\ LET conflict == job = "resolve" IN
     \/ /\ state = IF conflict THEN "resolving" ELSE "staged"
        /\ locks /\ SourceFresh /\ NoFault
        /\ IF manifest \/ base # {}
           THEN /\ state' = "resolving"
                /\ base' = Originals
                /\ work' = IF conflict THEN work ELSE [roots |-> Originals, pins |-> {}]
                /\ Goto("closures") /\ UNCHANGED res
           ELSE /\ state' = "resolution-required"
                /\ res' = [Nothing EXCEPT !.kind = "provenance"]
                /\ Goto("deliver") /\ UNCHANGED <<base, work>>
        /\ UNCHANGED <<pub, committed, stuck, locks>>
     \/ /\ (Interrupted \/ (sourceMoved /\ NoFault))
        /\ PlanFails /\ Raise /\ UNCHANGED <<base, work, res>>
  /\ UNCHANGED <<Disk, attempt, removed, replaced, manifest, Owner>> /\ SameSession

(* What the conflict round adds to the plan's cumulative record: keyed by  *)
(* the identity that left.                                                 *)
Left == {i \in DOMAIN choice : choice[i] = Remove}
Swapped == {<<i, choice[i]>> : i \in DOMAIN choice \ Left}
\* mutant: a round reports only what is left of its own roots
AccumulateNothing(r) == r
Accumulate(r) ==
  IF job = "resolve"
  THEN [r EXCEPT !.removed = removed \cup Left,
                 !.replaced = {p \in replaced : p[1] \notin {q[1] : q \in Swapped}}
                              \cup Swapped]
  ELSE r

(* Every root is resolved against the target by itself, with its closure   *)
(* of dependencies, or is left unresolved.                                 *)
Unresolvable == SUBSET work.roots
Closures(bad) == IF work.roots = bad THEN {{}} ELSE SUBSET Deps

(* Members of two closures that collide send the roots that own them back  *)
(* to the unresolved ones.                                                 *)
Colliding(bad) == SUBSET (work.roots \ bad)

(* A fixed version blocks when it cannot be met, or when no closure needs  *)
(* it and its MOD is not a root that has just been given up; what is kept  *)
(* is what the closures and the roots name.                                *)
Retired == IF job = "resolve" THEN base \ work.roots ELSE {}
Blocked(graph, unmet) ==
  work.roots # {} /\ Pins # {} /\ (unmet \/ ~ Pins \subseteq graph \cup Retired)
Kept(graph) == Pins \cap (graph \cup work.roots)

Unresolved(bad, blocked) ==
  [Nothing EXCEPT !.kind = "unresolved", !.roots = work.roots, !.bad = bad, !.blocked = blocked]
Resolved == [Nothing EXCEPT !.kind = "resolved", !.roots = work.roots, !.pins = work.pins]

ResolveRoots ==
  /\ At("closures")
  /\ \/ /\ SourceFresh /\ NoFault
        /\ \E bad \in Unresolvable, unmet \in BOOLEAN :
           \E needed \in Closures(bad), hit \in Colliding(bad) :
             LET graph == (work.roots \ bad) \cup needed
                 open == bad \cup hit # {} \/ Blocked(graph, unmet)
             IN \/ /\ open
                   /\ res' = Accumulate(Unresolved(bad \cup hit, Blocked(graph, unmet)))
                   /\ removed' = res'.removed /\ replaced' = res'.replaced
                   /\ state' = "resolution-required"
                   /\ Goto("deliver")
                   /\ UNCHANGED work
                \/ /\ ~open
                   /\ work' = [work EXCEPT !.pins = Kept(graph)]
                   /\ Goto("finalize")
                   /\ UNCHANGED <<res, removed, replaced, state>>
        /\ UNCHANGED <<pub, committed, stuck, locks>>
     \/ /\ (Interrupted \/ (sourceMoved /\ NoFault))
        /\ PlanFails /\ Raise /\ UNCHANGED <<work, res, removed, replaced>>
  /\ UNCHANGED <<Disk, attempt, base, manifest, Owner>> /\ SameSession

(* The merged source gets the root manifest and the fixed versions, is     *)
(* refreshed by packwiz and must then declare exactly the resolved roots.  *)
Finalize ==
  /\ At("finalize")
  /\ \/ /\ SourceFresh /\ NoFault
        /\ Goto("exchange") /\ UNCHANGED Outcome
     \/ /\ (Interrupted \/ (sourceMoved /\ NoFault))
        /\ PlanFails /\ Raise
  /\ UNCHANGED <<Disk, Resolution, manifest, Owner>> /\ SameSession

\* mutant: the exchange is not verified afterwards
ExchangeUnverified ==
  /\ At("exchange")
  /\ \/ /\ SourceFresh /\ altered = "no" /\ NoFault
        /\ staged' \in {staged, [resolved |-> TRUE, roots |-> work.roots, pins |-> work.pins]}
        /\ res' = Accumulate(Resolved)
        /\ removed' = res'.removed /\ replaced' = res'.replaced
        /\ state' = "resolved" /\ Goto("deliver")
        /\ UNCHANGED <<pub, committed, stuck, locks>>
     \/ /\ Interrupted \/ ((sourceMoved \/ altered # "no") /\ NoFault)
        /\ PlanFails /\ Raise /\ UNCHANGED <<staged, res, removed, replaced>>
  /\ UNCHANGED <<target, altered, staging, tree, sourceMoved, attempt, base, work, manifest, Owner>>
  /\ SameSession

(* _exchange_target_source: the resolved source goes into the staged       *)
(* directory, which nobody may have changed, nor what comes out of the     *)
(* exchange; a failure puts the old source back, or cannot.                *)
ExchangeSource ==
  /\ At("exchange")
  /\ LET resolved == [resolved |-> TRUE, roots |-> work.roots, pins |-> work.pins] IN
     \/ /\ SourceFresh /\ altered = "no" /\ NoFault
        /\ staged' = resolved
        /\ res' = Accumulate(Resolved)
        /\ removed' = res'.removed /\ replaced' = res'.replaced
        /\ state' = "resolved"
        /\ UNCHANGED <<pub, committed, stuck, locks>>
        /\ Goto("deliver")
     \/ /\ Interrupted \/ ((sourceMoved \/ altered # "no") /\ NoFault)
        /\ staged' \in {staged, resolved}
        /\ PlanFails /\ Raise /\ UNCHANGED <<res, removed, replaced>>
  /\ UNCHANGED <<target, altered, staging, tree, sourceMoved, attempt, base, work, manifest, Owner>>
  /\ SameSession

-----------------------------------------------------------------------------
(* Publication *)

(* The source is as it was copied, the staged source tree as it was        *)
(* resolved, and nothing is at the target.                                 *)
Publishable == SourceFresh /\ altered = "no" /\ target = "none"

(* prepare_pack_migration_publication: the plan stays as it is when it     *)
(* refuses; the handoff it returns is claimed by session.publish.          *)
Prepare ==
  /\ At("prepare")
  /\ IF session # "resolved"
     THEN /\ NoFault /\ Goto("refused")
          /\ UNCHANGED <<state, session>>
     ELSE \/ /\ state = "resolved" /\ res.kind = "resolved" /\ locks
             /\ Publishable /\ NoFault
             /\ state' = "ready" /\ session' = "publishing"
             /\ Goto("apply")
          \/ /\ Interrupted \/ (~Publishable /\ NoFault)
             /\ Raise /\ UNCHANGED <<state, session>>
  /\ UNCHANGED <<Disk, pub, committed, stuck, locks, Resolution, hold, cancel, manifest, Owner>>

(* _apply_pack_copy_migration_raw, the checks before anything is touched.  *)
ApplyChecks ==
  /\ At("apply")
  /\ \/ /\ Publishable /\ NoFault
        /\ state' = "applying" /\ Goto("rename")
        /\ UNCHANGED <<pub, committed, stuck, locks>>
     \/ /\ Interrupted \/ (~Publishable /\ NoFault)
        /\ PlanFails /\ Raise
  /\ UNCHANGED <<Disk, Resolution, manifest, Owner>> /\ SameSession

\* mutant: a rename that replaces what is at the target
RenameOver ==
  /\ At("rename") /\ NoFault
  /\ pub' = "uncertain" /\ target' = "ours" /\ staging' = "moved"
  /\ Goto("renamed")
  /\ UNCHANGED <<state, committed, stuck, locks, altered, staged, tree, sourceMoved, Resolution,
                 manifest, Owner>>
  /\ SameSession

(* The last checkpoint, then renameat2 with RENAME_NOREPLACE.  The call    *)
(* may report an error although the rename took place.                     *)
Rename ==
  /\ At("rename")
  /\ \/ /\ Interrupted
        /\ PlanFails /\ Raise /\ UNCHANGED <<target, staging>>
     \/ /\ pub' = "uncertain"
        /\ UNCHANGED <<state, committed, stuck, locks>>
        /\ \/ /\ target = "none"
              /\ target' = "ours" /\ staging' = "moved"
              /\ \/ NoFault /\ Goto("renamed")
                 \/ Fault /\ Goto("reconcile")
           \/ /\ \/ target = "none" /\ Fault
                 \/ target # "none" /\ NoFault
              /\ Goto("reconcile") /\ UNCHANGED <<target, staging>>
  /\ UNCHANGED <<altered, staged, tree, sourceMoved, Resolution, manifest, Owner>> /\ SameSession

\* mutant: an error of the rename means that it did not happen
ReconcileByError ==
  /\ At("reconcile") /\ NoFault
  /\ pub' = "not-published" /\ state' = "failed" /\ stuck' = TRUE
  /\ UNCHANGED <<committed, locks>>
  /\ Raise
  /\ UNCHANGED <<Disk, Resolution, manifest, Owner>> /\ SameSession

(* After an error: look at both names to find out.                         *)
Reconcile ==
  /\ At("reconcile")
  /\ \/ /\ target = "ours" /\ staging = "moved" /\ NoFault
        /\ pub' = "published" /\ Goto("renamed")
        /\ UNCHANGED <<state, committed, stuck, locks>>
     \/ /\ ~(target = "ours" /\ staging = "moved") /\ NoFault
        /\ pub' = IF target = "none" /\ staging = "tree" THEN "not-published" ELSE pub
        /\ state' = "failed" /\ stuck' = TRUE /\ UNCHANGED <<committed, locks>>
        /\ Raise
     \/ /\ Fault /\ PlanFails /\ Raise
  /\ UNCHANGED <<Disk, Resolution, manifest, Owner>> /\ SameSession

(* What is at the target now must be the staged directory.                 *)
Commit ==
  /\ At("renamed")
  /\ \/ /\ target = "ours" /\ NoFault
        /\ committed' = TRUE /\ pub' = "published"
        /\ UNCHANGED <<state, stuck, locks>>
        /\ Goto("verify")
     \/ /\ \/ target # "ours" /\ NoFault
           \/ Fault
        /\ PlanFails /\ Raise
  /\ UNCHANGED <<Disk, Resolution, manifest, Owner>> /\ SameSession

\* mutant: what was published is known by its identity alone
VerifyIdentity ==
  /\ pc \in {"verify", "reverify"}
  /\ LET fails == IF pc = "verify" THEN "raise" ELSE "uncleaned" IN
     \/ /\ target = "ours" /\ NoFault
        /\ Goto("finish") /\ UNCHANGED Outcome
     \/ /\ Fault \/ (target # "ours" /\ NoFault)
        /\ PlanFails /\ Goto(fails)
  /\ UNCHANGED <<Disk, Resolution, manifest, Owner>> /\ SameSession

(* The published snapshot must match; before a cleanup retry again.        *)
Verify ==
  /\ pc \in {"verify", "reverify"}
  /\ LET fails == IF pc = "verify" THEN "raise" ELSE "uncleaned" IN
     \/ /\ target = "ours" /\ altered = "no" /\ NoFault
        /\ Goto("finish") /\ UNCHANGED Outcome
     \/ /\ Fault \/ ((target # "ours" \/ altered # "no") /\ NoFault)
        /\ PlanFails /\ Goto(fails)
  /\ UNCHANGED <<Disk, Resolution, manifest, Owner>> /\ SameSession

(* _finish_committed_publication: empty the tree, remove it, give the      *)
(* locks back.  When that fails a tree with the diagnostic is retained,    *)
(* a new one if there is none.                                             *)
FinishFails ==
  /\ PlanFails
  /\ tree' \in IF tree = "absent" THEN {"emptied", "absent"} ELSE {tree}
  /\ Goto(IF job = "publish" THEN "raise" ELSE "uncleaned")

FinishEmpties ==
  /\ At("finish")
  /\ \/ /\ tree # "absent" /\ NoFault
        /\ tree' = "emptied" /\ Goto("rmdir") /\ UNCHANGED Outcome
     \/ /\ (Fault \/ (tree = "absent" /\ NoFault))
        /\ FinishFails
  /\ UNCHANGED <<target, altered, staging, staged, sourceMoved, Resolution, manifest, Owner>>
  /\ SameSession

FinishRemoves ==
  /\ At("rmdir")
  /\ \/ /\ NoFault /\ tree' = "absent" /\ Goto("release") /\ UNCHANGED Outcome
     \/ Fault /\ FinishFails
  /\ UNCHANGED <<target, altered, staging, staged, sourceMoved, Resolution, manifest, Owner>>
  /\ SameSession

FinishReleases ==
  /\ At("release")
  /\ \/ /\ NoFault
        /\ locks' = FALSE /\ state' = "applied" /\ stuck' = FALSE
        /\ UNCHANGED <<pub, committed, tree>>
        /\ session' = "published" /\ published' = TRUE
        /\ Goto(IF job = "publish" THEN "ending" ELSE "cleaned")
     \/ /\ Fault /\ FinishFails
        /\ UNCHANGED <<session, published>>
  /\ UNCHANGED <<target, altered, staging, staged, sourceMoved, Resolution, hold, cancel, manifest,
                 pending, error, retained, completed, nav, forFailure>>

-----------------------------------------------------------------------------
(* How a job ends *)

(* The session classifies the result and the screen's worker stores it.    *)
Deliver ==
  /\ At("deliver")
  /\ session' = CASE res.kind = "provenance" -> "provenance-required"
                  [] res.kind = "unresolved" -> "resolution-required"
                  [] OTHER -> "resolved"
  /\ pending' = res
  /\ Goto("ending") /\ NoFault
  /\ UNCHANGED <<Disk, hold, cancel, manifest, error, retained, published, completed, nav,
                 forFailure>>
  /\ SamePlan

(* The except clause of _publish asks what became of the publication; the  *)
(* other workers only keep the error.                                      *)
MarksPublication ==
  IF job = "publish"
  THEN /\ published' = (Lifecycle = "committed")
       /\ retained' = (Lifecycle \in {"committed", "uncertain"})
  ELSE UNCHANGED <<published, retained>>

(* _record_failure, then the worker's except clause. *)
Fails ==
  /\ At("raise")
  /\ session' = CASE Lifecycle = "committed" -> "cleanup-pending"
                  [] Lifecycle = "uncertain" -> "publication-uncertain"
                  [] OTHER -> IF cancel THEN "cancelled" ELSE "failed"
  /\ error' = TRUE
  /\ MarksPublication
  /\ Goto("ending") /\ NoFault
  /\ UNCHANGED <<Disk, hold, cancel, manifest, pending, completed, nav, forFailure>>
  /\ SamePlan

(* A job that the session refuses to begin: only the worker's except       *)
(* clause, the session does not change.                                    *)
Refused ==
  /\ At("refused")
  /\ error' = TRUE
  /\ MarksPublication
  /\ Goto("ending") /\ NoFault
  /\ UNCHANGED <<Disk, manifest, pending, completed, nav, forFailure>>
  /\ SamePlan /\ SameSession

-----------------------------------------------------------------------------
(* Cleanup: _migration_cleanup over session.discard and retry_cleanup *)

(* What was resolved for a migration that is discarded is not read again:  *)
(* the model drops it, but for what decides whether conflicts can be sent. *)
Forgotten ==
  /\ base' = {} /\ work' = [roots |-> {}, pins |-> {}] /\ removed' = {} /\ replaced' = {}
  /\ res' = [Nothing EXCEPT !.blocked = res.blocked] /\ UNCHANGED attempt

(* A committed publication is only cleaned up when something of it failed; *)
(* an uncertain one is left alone; anything else is discarded.             *)
CleanupBegins ==
  /\ At("cleanup") /\ NoFault
  /\ \/ /\ Lifecycle = "none"
        /\ session' = "discarded" /\ Goto("cleaned")
        /\ UNCHANGED <<state, retained, Resolution>>
     \/ /\ Lifecycle = "committed"
        /\ IF stuck THEN session' = "retrying-cleanup" /\ Goto("reverify")
                    ELSE UNCHANGED session /\ Goto("uncleaned")
        /\ UNCHANGED <<state, retained, Resolution>>
     \/ /\ Lifecycle = "uncertain"
        /\ retained' = TRUE /\ Goto("ending")
        /\ UNCHANGED <<state, session, Resolution>>
     \/ /\ Lifecycle \in {"precommit", "discarded"}
        /\ CASE pub # "not-published" \/ state \in {"applied", "applying"} ->
                  Goto("uncleaned") /\ UNCHANGED <<state, session, Resolution>>
             [] pub = "not-published" /\ state = "discarded" ->
                  Goto("cleaned") /\ session' = "discarded" /\ UNCHANGED <<state, Resolution>>
             [] OTHER ->
                  /\ Goto("removeTree") /\ session' = "discarding" /\ state' = "discarding"
                  /\ Forgotten
        /\ UNCHANGED retained
  /\ UNCHANGED <<Disk, pub, committed, stuck, locks, hold, cancel, manifest, pending,
                 error, published, completed, nav, forFailure>>

\* mutant: the locks are given back although the tree could not be removed
DiscardRemovesIgnored ==
  /\ At("removeTree")
  /\ \/ NoFault /\ tree' = "absent"
     \/ Fault /\ UNCHANGED tree
  /\ staging' = IF staging = "tree" THEN "gone" ELSE staging
  /\ Goto("discardRelease")
  /\ UNCHANGED <<target, altered, staged, sourceMoved, Outcome, Resolution, manifest, Owner>>
  /\ SameSession

(* discard_pack_migration_plan: the resolver's processes, then the tree,   *)
(* and only then the locks.                                                *)
DiscardRemoves ==
  /\ At("removeTree")
  /\ LET gone == IF staging = "tree" THEN "gone" ELSE staging IN
     \/ /\ NoFault
        /\ tree' = "absent" /\ staging' = gone
        /\ staged' = IF staging = "tree" THEN Copied ELSE staged
        /\ Goto("discardRelease") /\ UNCHANGED Outcome
     \/ /\ Fault
        /\ staging' \in {staging, gone}
        /\ PlanFails /\ Goto("uncleaned") /\ UNCHANGED <<tree, staged>>
  /\ UNCHANGED <<target, altered, sourceMoved, Resolution, manifest, Owner>> /\ SameSession

DiscardReleases ==
  /\ At("discardRelease")
  /\ \/ /\ NoFault
        /\ locks' = FALSE /\ state' = "discarded" /\ stuck' = FALSE
        /\ session' = "discarded"
        /\ Goto("cleaned") /\ UNCHANGED <<pub, committed>>
     \/ /\ Fault
        /\ PlanFails /\ Goto("uncleaned") /\ UNCHANGED session
  /\ UNCHANGED <<Disk, Resolution, hold, cancel, manifest, Owner>>

(* The end of _migration_cleanup and of the worker that called it.         *)
Cleaned ==
  /\ At("cleaned") /\ NoFault
  /\ retained' = FALSE
  /\ IF job = "shutdown" THEN UNCHANGED <<completed, error, nav>>
     ELSE /\ completed' = TRUE
          /\ error' = IF job = "retry" THEN FALSE ELSE error
          /\ nav' = IF job = "retry" /\ ~forFailure THEN TRUE ELSE nav
  /\ Goto("ending")
  /\ UNCHANGED <<Disk, manifest, pending, published, forFailure>> /\ SamePlan /\ SameSession

Uncleaned ==
  /\ At("uncleaned") /\ NoFault
  /\ session' = "cleanup-pending" /\ retained' = TRUE
  /\ Goto("ending")
  /\ UNCHANGED <<Disk, hold, cancel, manifest, pending, error, published, completed, nav,
                 forFailure>>
  /\ SamePlan

(* The worker has set owner.done; the thread is gone a little later.       *)
ThreadEnds ==
  /\ At("ending")
  /\ pc' = "dead" /\ job' = "none" /\ choice' = <<>> /\ NoFault
  /\ UNCHANGED <<Disk, manifest, Owner>> /\ SamePlan /\ SameSession

Worker ==
  \/ PlanBegin \/ PlanCopies \/ PlanCleansUp \/ PlanReleases
  \/ SelectAuthority \/ SelectMaterializes
  \/ ConflictRequest \/ ConflictBegins \/ ResolveBegins \/ ResolveRoots \/ Finalize
  \/ ExchangeSource
  \/ Prepare \/ ApplyChecks \/ Rename \/ Reconcile \/ Commit \/ Verify
  \/ FinishEmpties \/ FinishRemoves \/ FinishReleases
  \/ Deliver \/ Fails \/ Refused
  \/ CleanupBegins \/ DiscardRemoves \/ DiscardReleases \/ Cleaned \/ Uncleaned
  \/ ThreadEnds
=============================================================================
