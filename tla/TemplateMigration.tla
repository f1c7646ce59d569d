-------------------------- MODULE TemplateMigration --------------------------
(***************************************************************************)
(* One copy migration of a Template (template_migration.py,                *)
(* template_migration_conflicts.py and TemplateCopyMigrationSession): the  *)
(* plan that holds both project locks and a transaction directory, rounds  *)
(* of resolution with an explicit choice for some of the unresolved roots, *)
(* the rename that publishes templates/<target>, and the cleanup.          *)
(*                                                                         *)
(* One worker thread at a time; TemplateMigrationScreen decides what it is *)
(* given next.  Programs that take no lock may act between two steps.      *)
(*                                                                         *)
(* A root is a slot (its source_index) that holds a selector; what a       *)
(* selector names is its identity, which for a Modrinth project is known   *)
(* only after it was looked up.  Identities are selectors too.             *)
(***************************************************************************)
EXTENDS Naturals, FiniteSets

CONSTANTS Templates,   \* the Templates to copy: roots, pins of roots, pins of dependencies
          Identity,    \* the identity of every selector
          CurseForge,  \* selectors that are canonical CurseForge numbers
          Urls,        \* selectors that are URLs
          Offers,      \* what the user may type as a replacement
          MaxAttempts, \* how many conflict rounds, with the steps of other programs
          MaxDecisions, \* how many decisions on roots, rounds by roots
          MaxFaults,   \* how many errors besides cancellation
          MaxOutside   \* how many steps of other programs

Remove == 0
Unknown == 0

VARIABLES
  template, \* the source Template as it was snapshotted
  disk,     \* the target, the transaction directory, what is staged in it
  plan,     \* TemplateMigrationPlan and its _State
  session,  \* session._state
  cancel,   \* the cancel event
  thr,      \* the worker: its job, how far it is, its choices, what to restore
  own,      \* the owner: error, original error, cleanup_error, cleanup_done; nav
  faults, outside

Bounds == <<faults, outside>>
Empty == [i \in {} |-> 0]
NoResult == [status |-> "none", roots |-> Empty, pins |-> {}, open |-> Empty, source |-> Empty,
             blocked |-> FALSE, removed |-> Empty, replaced |-> Empty]

Start ==
  /\ template \in Templates
  /\ disk = [target |-> "none", altered |-> FALSE, moved |-> FALSE, tree |-> "absent",
             staging |-> "none", staged |-> FALSE, roots |-> Empty, pins |-> {}]
  /\ plan = [held |-> FALSE, tx |-> FALSE, locks |-> FALSE, roots |-> template.roots,
             pins |-> template.pins, removed |-> Empty, replaced |-> Empty, res |-> NoResult,
             attempt |-> 0, pub |-> "not-published", committed |-> FALSE, stuck |-> FALSE,
             cleaned |-> FALSE, removing |-> FALSE]
  /\ session = "planning" /\ cancel = FALSE
  /\ thr = [job |-> "start", pc |-> "planning", choice |-> Empty, before |-> 0]
  /\ own = [error |-> FALSE, orig |-> FALSE, stuck |-> FALSE, cleaned |-> FALSE, nav |-> FALSE]
  /\ faults = 0 /\ outside = 0

-----------------------------------------------------------------------------
(* Shapes *)

Goto(l) == thr' = [thr EXCEPT !.pc = l]
At(l) == thr.pc = l
Fault == faults < MaxFaults /\ faults' = faults + 1 /\ UNCHANGED outside
NoFault == UNCHANGED Bounds

(* A checkpoint finds the cancel event, or something else goes wrong.      *)
Interrupted == Fault \/ (cancel /\ NoFault)
Same == UNCHANGED <<template, session, cancel, own>>

(* plan.publication_lifecycle as the session's view has it *)
Lifecycle == CASE ~plan.held -> "none"
               [] plan.held /\ plan.pub = "uncertain" -> "uncertain"
               [] plan.held /\ plan.pub = "published" -> "committed"
               [] OTHER -> "precommit"

SourceFresh == ~disk.moved
TreeIntact == disk.tree = "full"

-----------------------------------------------------------------------------
(* start: snapshot and plan *)

(* The locks; when only some can be given back after a failure the plan    *)
(* keeps them with the error.                                              *)
Acquire ==
  /\ At("planning")
  /\ \/ NoFault /\ plan' = [plan EXCEPT !.locks = TRUE] /\ Goto("checking")
     \/ Interrupted /\ UNCHANGED plan /\ Goto("raise")
     \/ /\ Fault /\ Goto("raise")
        /\ plan' = [plan EXCEPT !.locks = TRUE, !.stuck = TRUE, !.held = TRUE]
  /\ UNCHANGED disk /\ Same

(* The target must be free and the source what it was; then the directory  *)
(* of the transaction.  A failure before the plan knows of the directory   *)
(* leaves it behind, with nothing in it.                                   *)
MakeTransaction ==
  /\ At("checking")
  /\ \/ /\ disk.target = "none" /\ SourceFresh /\ NoFault
        /\ disk' = [disk EXCEPT !.tree = "full", !.staging = "tree"]
        /\ plan' = [plan EXCEPT !.tx = TRUE]
        /\ Goto("copying")
     \/ /\ \/ (disk.target # "none" \/ ~SourceFresh) /\ NoFault
           \/ Interrupted
        /\ UNCHANGED <<disk, plan>> /\ Goto("unlock")
     \/ /\ Fault
        /\ disk' = [disk EXCEPT !.tree = "bare"] /\ UNCHANGED plan
        /\ Goto("unlock")
  /\ Same

(* The detached copy; the session then has the plan.                       *)
CopySource ==
  /\ At("copying")
  /\ \/ /\ NoFault /\ plan' = [plan EXCEPT !.held = TRUE]
        /\ session' = "resolving" /\ Goto("resolving")
     \/ Fault /\ UNCHANGED <<plan, session>> /\ Goto("empty")
  /\ UNCHANGED <<disk, template, cancel, own>>

-----------------------------------------------------------------------------
(* A choice for some of the unresolved roots *)

Chosen == DOMAIN thr.choice
Left == {i \in Chosen : thr.choice[i] = Remove}
Swapped == Chosen \ Left

(* The identity under which the last result knows an unresolved root.      *)
Old(r, i) == IF r.open[i].id # Unknown THEN r.open[i].id ELSE r.roots[i]

(* No identity may belong to two roots: of the resolved ones counts what   *)
(* they were, of the others what is known.                                 *)
OwnershipClear(r) ==
  LET named == {<<i, r.source[i]>> : i \in DOMAIN r.source}
               \cup {<<i, r.open[i].id>> : i \in {j \in DOMAIN r.open : r.open[j].id # Unknown}}
  IN \A a, b \in named : a[2] = b[2] => a[1] = b[1]

(* A root of a CurseForge number must not be there under another index     *)
(* when the choices before it have been made.                              *)
Taken(r, i) ==
  \E j \in DOMAIN r.roots \ {i} :
    IF j \in Chosen /\ j < i THEN thr.choice[j] = thr.choice[i] ELSE r.roots[j] = thr.choice[i]

(* validate_template_migration_resolution_request *)
Accepted(r) ==
  /\ r.status = "required" /\ Chosen # {} /\ Chosen \subseteq DOMAIN r.open
  /\ OwnershipClear(r)
  /\ \A i \in Swapped :
       /\ r.open[i].replace /\ Old(r, i) \notin plan.pins
       /\ thr.choice[i] \in CurseForge => thr.choice[i] # Old(r, i) /\ ~Taken(r, i)

(* resolve_choices up to the fresh resolution: a request that would not be *)
(* accepted is refused before the session is claimed.                      *)
Choose ==
  /\ At("request") /\ NoFault
  /\ \/ /\ ~(session = "resolution-required" /\ Accepted(plan.res))
        /\ Goto("refused") /\ UNCHANGED <<session, plan>>
     \/ /\ session = "resolution-required" /\ Accepted(plan.res)
        /\ session' = "resolving"
        /\ thr' = [thr EXCEPT !.pc = "resolving", !.before = plan]
        /\ LET r == plan.res
               dropped(i) == plan.pins \cap {Old(r, i)}
           IN plan' = [plan EXCEPT
                !.roots = [i \in DOMAIN r.roots \ Left |->
                             IF i \in Swapped THEN thr.choice[i] ELSE r.roots[i]],
                !.pins = @ \ UNION {dropped(i) : i \in Left},
                !.removed = [i \in DOMAIN @ \cup Left |->
                               IF i \in Left THEN dropped(i) ELSE @[i]],
                !.replaced = [i \in DOMAIN @ \cup Swapped |->
                                IF i \in DOMAIN @ THEN @[i] ELSE Old(r, i)]]
  /\ UNCHANGED <<disk, template, cancel, own>>

-----------------------------------------------------------------------------
(* Resolution *)

\* mutant: a round that fails keeps what it has changed
RestoreNothing == plan
(* A conflict round that fails puts back all but the number of attempts.   *)
Restore == IF thr.job = "resolve" THEN [thr.before EXCEPT !.attempt = plan.attempt] ELSE plan

Fails(p) == plan' = p /\ Goto("raise")

(* A replacement is compared with the artifact of the root it replaced;    *)
(* the lookup of one that never had an identity fails.                     *)
NoBaseline == {i \in Swapped : Identity[plan.replaced[i]] # plan.replaced[i]}

(* A replacement that names the root it should replace.                    *)
Renamed == {i \in Swapped : Identity[plan.roots[i]] = Old(thr.before.res, i)}

Modrinth(s) == s \notin CurseForge \cup Urls

(* Every root is looked up, then resolved for the old and the new target;  *)
(* `needs' are the fixed dependencies in its closure, `unmet' the roots    *)
(* whose closure cannot have the fixed artifact.                           *)
Outcomes ==
  LET all == DOMAIN plan.roots IN
  {o \in [lost : SUBSET {i \in all : Modrinth(plan.roots[i])}, bad : SUBSET all,
          needs : [all -> SUBSET template.deps], unmet : SUBSET all] :
     /\ o.lost \cap o.bad = {} /\ NoBaseline \subseteq o.lost \cup o.bad
     /\ \A i \in all : (o.needs[i] = {} => i \notin o.unmet)
                       /\ (i \in o.lost \cup o.bad => o.needs[i] = {})}

Owned(o) == DOMAIN plan.roots \ (o.lost \cup o.bad)

\* mutant: roots that turn out to be one MOD go through
TwinsPass(o) == {}
(* Roots that turn out to be one MOD.                                      *)
Twins(o) == {i \in Owned(o) : \E j \in Owned(o) \ {i} :
                                Identity[plan.roots[i]] = Identity[plan.roots[j]]}

Whole(o) == (Owned(o) \ Twins(o)) \ o.unmet

(* A fixed version that no root or closure is left for.                    *)
Blocked(o) ==
  \/ \E p \in plan.pins : \A i \in Whole(o) : Identity[plan.roots[i]] # p
  \/ \E d \in template.deps : \A i \in Whole(o) : d \notin o.needs[i]

Complete(o) == Whole(o) = DOMAIN plan.roots /\ ~Blocked(o)

(* The roots by the identities that are now known; URLs stay.              *)
Canonical(o) == [i \in DOMAIN plan.roots |->
                   IF i \in o.lost THEN plan.roots[i] ELSE Identity[plan.roots[i]]]

(* The result of a round in which the closures of `hit' cannot be merged.  *)
Required(o, hit) ==
  LET ok == Whole(o) \ hit IN
  [NoResult EXCEPT
     !.status = "required", !.roots = Canonical(o), !.pins = plan.pins,
     !.blocked = Blocked(o),
     !.open = [i \in DOMAIN plan.roots \ ok |->
                 [id |-> IF i \in o.lost THEN Unknown ELSE Identity[plan.roots[i]],
                  replace |-> /\ plan.roots[i] \notin Urls
                              /\ ~(i \in o.unmet \ Twins(o))
                              /\ ~(i \in o.bad /\ Identity[plan.roots[i]] \in plan.pins)]],
     !.source = [i \in ok |-> IF i \in Swapped THEN plan.replaced[i] ELSE Canonical(o)[i]],
     !.removed = plan.removed, !.replaced = plan.replaced]

(* resolve_template_migration_plan_at: what was staged before is removed   *)
(* first; with every root resolved the closures are merged.                *)
Resolve ==
  /\ At("resolving")
  /\ \/ /\ (Interrupted \/ (~TreeIntact /\ NoFault))
        /\ \/ UNCHANGED disk /\ Fails(Restore)
           \/ /\ disk' = [disk EXCEPT !.staged = FALSE]
              /\ Fails([Restore EXCEPT !.attempt = @ + 1])
        /\ UNCHANGED session
     \/ /\ TreeIntact /\ NoFault
        /\ disk' = [disk EXCEPT !.staged = FALSE]
        /\ \E o \in Outcomes :
             IF ~(Renamed \subseteq o.lost)
             THEN Fails([Restore EXCEPT !.attempt = @ + 1]) /\ UNCHANGED session
             ELSE LET next == [plan EXCEPT !.attempt = @ + 1, !.roots = Canonical(o)] IN
                  \/ /\ Complete(o)
                     /\ plan' = next /\ Goto("writing") /\ UNCHANGED session
                  \/ \E hit \in IF Complete(o) THEN (SUBSET Whole(o)) \ {{}} ELSE {{}} :
                       /\ plan' = [next EXCEPT !.res = Required(o, hit)]
                       /\ session' = "resolution-required" /\ Goto("ending")
  /\ UNCHANGED <<template, cancel, own>>

(* The manifest of the new Template; one that fixes as a dependency what   *)
(* it has as a root is refused.                                            *)
WriteManifest ==
  /\ At("writing")
  /\ LET valid == \A i \in DOMAIN plan.roots : plan.roots[i] \notin template.deps
         written == [disk EXCEPT !.staged = TRUE, !.roots = plan.roots, !.pins = plan.pins]
     IN \/ /\ valid /\ TreeIntact /\ NoFault
           /\ disk' = written
           /\ plan' = [plan EXCEPT !.res =
                [NoResult EXCEPT !.status = "resolved", !.roots = plan.roots, !.pins = plan.pins,
                                 !.removed = plan.removed, !.replaced = plan.replaced]]
           /\ session' = "resolved" /\ Goto("ending")
        \/ /\ ((~valid \/ ~TreeIntact) /\ NoFault) \/ Fault
           /\ disk' \in {disk} \cup (IF valid /\ TreeIntact THEN {written} ELSE {})
           /\ Fails(Restore) /\ UNCHANGED session
  /\ UNCHANGED <<template, cancel, own>>

-----------------------------------------------------------------------------
(* Publication *)

Verified == /\ plan.res.status = "resolved" /\ plan.locks /\ SourceFresh
            /\ TreeIntact /\ disk.target = "none"
            /\ disk.staged /\ disk.roots = plan.res.roots /\ disk.pins = plan.res.pins

(* prepare_publication, and at once publish.  The preview is the current   *)
(* one: after a complete resolution there is no other.                     *)
Prepare ==
  /\ At("prepare")
  /\ IF session # "resolved" THEN Goto("refused") /\ NoFault /\ UNCHANGED session
     ELSE \/ Verified /\ NoFault /\ session' = "publishing" /\ Goto("apply")
          \/ (Interrupted \/ (~Verified /\ NoFault)) /\ Goto("raise") /\ UNCHANGED session
  /\ UNCHANGED <<disk, plan, template, cancel, own>>

(* apply_template_migration_publication up to the last checkpoint.         *)
Apply ==
  /\ At("apply")
  /\ \/ Verified /\ NoFault /\ plan' = [plan EXCEPT !.pub = "uncertain"] /\ Goto("rename")
     \/ (Interrupted \/ (~Verified /\ NoFault)) /\ Goto("raise") /\ UNCHANGED plan
  /\ UNCHANGED disk /\ Same

\* mutant: the rename replaces what is at the target
RenameOver ==
  /\ At("rename") /\ NoFault
  /\ disk' = [disk EXCEPT !.target = "ours", !.staging = "moved"]
  /\ Goto("reconcile") /\ UNCHANGED plan /\ Same

(* renameat2 with RENAME_NOREPLACE, then fsync: whether it reports an      *)
(* error or not, what it did is looked up afterwards.                      *)
Rename ==
  /\ At("rename")
  /\ LET possible == disk.target = "none" /\ disk.staging = "tree" IN
     \/ /\ possible /\ (NoFault \/ Fault)
        /\ disk' = [disk EXCEPT !.target = "ours", !.staging = "moved"]
     \/ (Fault \/ (~possible /\ NoFault)) /\ UNCHANGED disk
  /\ Goto("reconcile") /\ UNCHANGED plan /\ Same

Reconcile ==
  /\ At("reconcile")
  /\ \/ /\ NoFault
        /\ \/ /\ disk.target = "ours" /\ disk.staging = "moved"
              /\ plan' = [plan EXCEPT !.pub = "published", !.committed = TRUE]
              /\ Goto("verify")
           \/ /\ disk.staging = "tree"
              /\ plan' = [plan EXCEPT !.pub = "not-published"] /\ Goto("raise")
           \/ /\ disk.target # "ours" /\ disk.staging # "tree"
              /\ UNCHANGED plan /\ Goto("raise")
     \/ Fault /\ UNCHANGED plan /\ Goto("raise")
  /\ UNCHANGED disk /\ Same

(* What is published must be what was staged: with the event of the        *)
(* migration after the rename, with a fresh one before a cleanup is tried  *)
(* again.                                                                  *)
Verify ==
  /\ thr.pc \in {"verify", "reverify"}
  /\ LET again == thr.pc = "reverify"
         right == disk.target = "ours" /\ ~disk.altered
     IN \/ right /\ NoFault /\ Goto("empty") /\ UNCHANGED plan
        \/ /\ Fault \/ (~right /\ NoFault) \/ (cancel /\ ~again /\ NoFault)
           /\ plan' = [plan EXCEPT !.stuck = TRUE]
           /\ Goto(IF again THEN "unfinished" ELSE "raise")
  /\ UNCHANGED disk /\ Same

-----------------------------------------------------------------------------
(* _cleanup: the transaction directory, then the locks *)

CleanupFails ==
  /\ plan' = [plan EXCEPT !.stuck = TRUE, !.held = TRUE]
  /\ Goto(IF thr.job \in {"start", "publish"} THEN "raise" ELSE "unfinished")

\* mutant: the locks are given back although the directory is still there
EmptyIgnored ==
  /\ At("empty")
  /\ \/ NoFault /\ disk' = [disk EXCEPT !.tree = "emptied"] /\ Goto("rmdir")
     \/ Fault /\ UNCHANGED disk /\ Goto("unlock")
  /\ UNCHANGED plan /\ Same

EmptyTransaction ==
  /\ At("empty")
  /\ LET gone == IF disk.staging # "tree" THEN disk
                 ELSE [disk EXCEPT !.staging = "gone", !.staged = FALSE, !.roots = Empty,
                                   !.pins = {}]
     IN
     \/ /\ plan.tx /\ disk.tree # "absent" /\ NoFault
        /\ disk' = [gone EXCEPT !.tree = "emptied"] /\ Goto("rmdir") /\ UNCHANGED plan
     \/ /\ plan.tx /\ disk.tree # "absent" /\ Fault
        /\ disk' \in {disk, gone} /\ CleanupFails
     \/ /\ plan.tx /\ disk.tree = "absent" /\ NoFault /\ UNCHANGED disk
        /\ \/ plan.removing /\ Goto("sync") /\ UNCHANGED plan
           \/ ~plan.removing /\ plan.cleaned /\ Goto("unlock") /\ UNCHANGED plan
           \/ ~plan.removing /\ ~plan.cleaned /\ CleanupFails
     \/ ~plan.tx /\ NoFault /\ Goto("unlock") /\ UNCHANGED <<disk, plan>>
  /\ Same

RemoveTransaction ==
  /\ At("rmdir")
  /\ \/ /\ disk.tree = "emptied" /\ NoFault
        /\ disk' = [disk EXCEPT !.tree = "absent"]
        /\ plan' = [plan EXCEPT !.removing = TRUE] /\ Goto("sync")
     \/ (Fault \/ (disk.tree # "emptied" /\ NoFault)) /\ UNCHANGED disk /\ CleanupFails
  /\ Same

SyncRemoval ==
  /\ At("sync")
  /\ \/ /\ NoFault
        /\ plan' = [plan EXCEPT !.cleaned = TRUE, !.removing = FALSE] /\ Goto("unlock")
     \/ Fault /\ CleanupFails
  /\ UNCHANGED disk /\ Same

ReleaseLocks ==
  /\ At("unlock")
  /\ \/ /\ NoFault
        /\ plan' = [plan EXCEPT !.locks = FALSE, !.stuck = FALSE]
        /\ CASE thr.job = "start" -> Goto("raise") /\ UNCHANGED session
             [] thr.job = "publish" -> Goto("ending") /\ session' = "published"
             [] OTHER -> Goto("cleaned")
                         /\ session' = IF plan.committed THEN "published" ELSE "discarded"
     \/ Fault /\ CleanupFails /\ UNCHANGED session
  /\ UNCHANGED <<disk, template, cancel, own>>

-----------------------------------------------------------------------------
(* How a job ends *)

Failed ==
  CASE Lifecycle = "uncertain" -> "publication-uncertain"
    [] Lifecycle = "committed" \/ (Lifecycle = "precommit" /\ plan.stuck) -> "cleanup-pending"
    [] OTHER -> IF cancel THEN "cancelled" ELSE "failed"

(* A conflict round that failed may be tried again, unless the migration   *)
(* is cancelled or its deadline has passed; every other failure is final.  *)
Raised ==
  /\ At("raise")
  /\ own' = [own EXCEPT !.error = TRUE, !.orig = TRUE]
  /\ \/ thr.job = "resolve" /\ ~cancel /\ NoFault /\ session' = "resolution-required"
     \/ thr.job = "resolve" /\ ~cancel /\ Fault /\ session' = Failed
     \/ (thr.job # "resolve" \/ cancel) /\ NoFault /\ session' = Failed
  /\ Goto("ending") /\ UNCHANGED <<disk, plan, template, cancel>>

(* The session does not take the request, or is not in a state for it.     *)
Refused ==
  /\ At("refused") /\ NoFault
  /\ own' = [own EXCEPT !.error = TRUE, !.orig = TRUE]
  /\ Goto("ending") /\ UNCHANGED <<disk, plan, template, session, cancel>>

(* What was resolved for a migration that is discarded is not read again:  *)
(* the model drops it, but for which roots the screen still lists.         *)
Forgotten ==
  [plan EXCEPT
     !.roots = Empty, !.pins = {}, !.removed = Empty, !.replaced = Empty,
     !.res = [NoResult EXCEPT
                !.open = [i \in DOMAIN plan.res.open |->
                            [id |-> Unknown, replace |-> FALSE]]]]

(* _cleanup of the screen, and the shutdown's: the session is asked        *)
(* according to how far the publication is.                                *)
CleanupBegins ==
  /\ At("cleanup") /\ NoFault
  /\ own' = IF thr.job = "shutdown" THEN own ELSE [own EXCEPT !.stuck = FALSE]
  /\ CASE Lifecycle = "committed" /\ session = "cleanup-pending" ->
            session' = "retrying-cleanup" /\ Goto("reverify") /\ UNCHANGED plan
       [] Lifecycle = "none" /\ session # "discarded" ->
            session' = "discarded" /\ Goto("cleaned") /\ UNCHANGED plan
       [] Lifecycle = "precommit" /\ (session # "discarded" \/ thr.job = "shutdown") ->
            session' = "discarding" /\ Goto("empty") /\ plan' = Forgotten
       [] OTHER -> Goto("cleaned") /\ UNCHANGED <<session, plan>>
  /\ UNCHANGED <<disk, template, cancel>>

(* discard or retry_cleanup raises; the worker stores the error, and then  *)
(* says that it is done.                                                   *)
Unfinished ==
  /\ At("unfinished") /\ NoFault
  /\ session' = "cleanup-pending" /\ Goto("storing")
  /\ UNCHANGED <<disk, plan, template, cancel, own>>

StoreError ==
  /\ At("storing") /\ NoFault
  /\ own' = [own EXCEPT !.stuck = TRUE] /\ Goto("cleaned")
  /\ UNCHANGED <<disk, plan, template, session, cancel>>

Cleaned ==
  /\ At("cleaned") /\ NoFault
  /\ own' = IF thr.job = "shutdown" THEN own ELSE [own EXCEPT !.cleaned = TRUE]
  /\ Goto("ending") /\ UNCHANGED <<disk, plan, template, session, cancel>>

ThreadEnds ==
  /\ At("ending") /\ NoFault
  /\ thr' = [job |-> "none", pc |-> "dead", choice |-> Empty, before |-> 0]
  /\ UNCHANGED <<disk, plan>> /\ Same

Worker ==
  \/ Acquire \/ MakeTransaction \/ CopySource \/ Choose \/ Resolve \/ WriteManifest
  \/ Prepare \/ Apply \/ Rename \/ Reconcile \/ Verify
  \/ EmptyTransaction \/ RemoveTransaction \/ SyncRemoval \/ ReleaseLocks
  \/ Raised \/ Refused \/ CleanupBegins \/ Unfinished \/ StoreError \/ Cleaned \/ ThreadEnds
=============================================================================
