----------------------- MODULE CopyMigrations_proofs ------------------------
(***************************************************************************)
(* Proofs about CopyMigrations, for every set of root MODs, Template,      *)
(* bound and interleaving: that what is published was confirmed, that the  *)
(* locks outlive the transaction tree, that published and discarded are    *)
(* true, and that both migrations implement CopyPublication.               *)
(*                                                                         *)
(* First the migration of a Pack, then the one of a Template; each has an  *)
(* inductive invariant of its own, in parts that are named for what they   *)
(* speak about.  The steps of the modules are first brought into forms     *)
(* that say what they change, and each part is shown to survive each form. *)
(***************************************************************************)
EXTENDS CopyMigrations, TLAPS

-----------------------------------------------------------------------------
(* The migration of a Pack: what its variables hold                        *)

Result == [kind : {"none", "provenance", "unresolved", "resolved"}, roots : SUBSET P!Id,
           pins : SUBSET Pins, removed : SUBSET P!Id, replaced : SUBSET (P!Id \X P!Id),
           bad : SUBSET P!Id, blocked : BOOLEAN]

PlaceTypes ==
  /\ target \in {"none", "ours", "foreign"}
  /\ staging \in {"none", "tree", "moved", "gone"}
  /\ tree \in {"absent", "full", "emptied"}
  /\ state \in {"none", "planning", "staged", "resolving", "resolution-required", "resolved",
                "ready", "applying", "applied", "failed", "discarding", "discarded"}
  /\ pub \in {"not-published", "uncertain", "published"}
  /\ quitting \in {"no", "waiting", "cleaning", "over"}

StepTypes ==
  /\ session \in {"new", "planning", "provenance-required", "resolving", "resolution-required",
                  "resolved", "publishing", "published", "discarding", "discarded",
                  "retrying-cleanup", "cleanup-pending", "publication-uncertain", "cancelled",
                  "failed"}
  /\ job \in P!Job /\ pc \in P!Step /\ phase \in P!Phase

PlanFlags ==
  /\ altered \in {"no", "staged", "published"} /\ sourceMoved \in BOOLEAN /\ manifest \in BOOLEAN
  /\ committed \in BOOLEAN /\ stuck \in BOOLEAN /\ locks \in BOOLEAN /\ hold \in BOOLEAN
OwnerFlags ==
  /\ cancel \in BOOLEAN /\ error \in BOOLEAN /\ retained \in BOOLEAN /\ published \in BOOLEAN
  /\ completed \in BOOLEAN /\ nav \in BOOLEAN /\ forFailure \in BOOLEAN
  /\ modal \in BOOLEAN /\ left \in BOOLEAN /\ released \in BOOLEAN

Flags == <<cancel, error, retained, published, completed, nav, forFailure, modal, left, released>>

PlainTypes == PlaceTypes /\ StepTypes /\ PlanFlags /\ OwnerFlags
BoundTypes ==
  /\ attempt \in 0..MaxAttempts /\ faults \in 0..MaxFaults /\ outside \in 0..MaxOutside
  /\ pc \in {"request", "selectors"} => attempt < MaxAttempts

Staged == [resolved : BOOLEAN, roots : SUBSET P!Id, pins : SUBSET Pins]
Workspace == [roots : SUBSET P!Id, pins : SUBSET Pins]
DataTypes ==
  /\ staged \in Staged /\ work \in Workspace
  /\ base \in SUBSET Source /\ removed \in SUBSET P!Id /\ replaced \in SUBSET (P!Id \X P!Id)
  /\ res \in Result /\ pending \in Result /\ preview \in Result
  /\ pc \in {"authority", "materialize"} => DOMAIN choice \in SUBSET Source
  /\ job = "resolve" /\ pc \notin {"refused", "ending"} =>
       /\ DOMAIN choice \in SUBSET P!Id
       /\ \A i \in DOMAIN choice : choice[i] \in P!Id \cup {P!Remove}

Starting == {"planning", "copying", "planCleanup", "planRelease"}
Resolving == {"authority", "materialize", "request", "selectors", "resolving", "closures",
              "finalize", "exchange", "deliver"}
Finishing == {"finish", "rmdir", "release"}
Publishing == {"apply", "rename", "reconcile", "renamed", "verify"}
Cleaners == {"discard", "failure", "retry", "shutdown"}
Asking == {"provenance-required", "resolution-required", "resolving", "resolved"}

(* Which worker runs, how far it is, and which state of the session the    *)
(* screen sees meanwhile.                                                  *)
JobShape ==
  /\ pc = "dead" <=> job = "none"
  /\ pc \in Starting => job = "start" /\ session = "planning"
  /\ pc \in {"authority", "materialize"} => job = "select"
  /\ pc \in {"request", "selectors"} => job = "resolve"
  /\ pc \in Resolving => /\ job \in {"start", "select", "resolve"}
                         /\ session = IF job = "start" THEN "planning" ELSE "resolving"
  /\ pc \in Publishing => job = "publish" /\ session = "publishing"
  /\ pc \in Finishing \cup {"reverify"} =>
       \/ job \in Cleaners /\ session = "retrying-cleanup"
       \/ job = "publish" /\ pc # "reverify" /\ session = "publishing"
  /\ pc \in {"removeTree", "discardRelease"} => job \in Cleaners /\ session = "discarding"
  /\ pc = "prepare" => job = "publish"
  /\ pc \in {"cleanup", "cleaned", "uncleaned"} => job \in Cleaners
  /\ pc = "raise" => job \in {"start", "select", "resolve", "publish"}
  /\ pc = "refused" => job \in {"select", "resolve", "publish"}

(* What each step of a worker relies on: which locks are held, where the   *)
(* staged tree is, and what is known of the publication.  A step that      *)
(* renames, removes or releases is safe only where this says so.           *)
PlanShape ==
  /\ tree # "absent" => locks
  /\ pc = "planning" => ~locks /\ staging = "none" /\ tree = "absent"
  /\ pc \in Starting \ {"planning"} => locks
  /\ pc = "copying" => staging = "none"
  /\ pc = "planRelease" => tree = "absent"
  /\ pc \in Starting => ~hold
  /\ ~hold => pub = "not-published" /\ ~committed /\ state # "discarded"
  /\ ~hold /\ pc # "planCleanup" => staging # "tree"
  /\ ~hold /\ pc \notin Starting => tree = "absent"
  /\ committed => hold /\ pub = "published" /\ staging = "moved"
  /\ staging = "moved" => pub # "not-published"
  /\ pub # "not-published" /\ ~committed => hold /\ locks /\ staging \in {"tree", "moved"}
  /\ pub # "not-published" => session \notin Asking /\ pc \notin Resolving
  /\ pub # "not-published" /\ ~committed => pc \in {"reconcile", "renamed"} \/ pc \notin Publishing
  /\ committed /\ stuck => locks
  /\ pc = "raise" /\ job # "publish" => pub = "not-published"
  /\ pc = "refused" /\ job # "publish" => ~committed
  /\ session \in Asking \/ pc \in Resolving \cup {"apply", "rename"} =>
       hold /\ locks /\ staging = "tree" /\ pub = "not-published"
  /\ pc \in {"reconcile", "renamed"} => pub # "not-published" /\ ~committed
  /\ pc = "reconcile" => pub = "uncertain"
  /\ pc = "renamed" => staging = "moved"
  /\ pc \in {"verify", "reverify"} \cup Finishing => committed /\ locks
  /\ pc = "release" => tree = "absent"
  /\ pc \in {"removeTree", "discardRelease"} => hold /\ pub = "not-published"
  /\ pc = "discardRelease" => tree = "absent" /\ staging # "tree"
  /\ state = "discarded" => tree = "absent" /\ ~locks /\ staging # "tree" /\ pub = "not-published"
  /\ session = "published" => committed /\ tree = "absent" /\ ~locks
  /\ altered = "staged" => pc \notin Finishing /\ session # "published"
  /\ session = "discarded" => /\ hold => state = "discarded"
                              /\ pc \notin Starting

(* Nothing is left to recover.                                             *)
Ended == /\ tree = "absent" /\ (hold => ~locks) /\ (staging = "moved" <=> committed)
         /\ pc \notin Starting

Resting == pc \in {"dead", "ending"} /\ ~retained

(* The owner is let go only when nothing is left, whoever removed it: the  *)
(* screen, its retry or the exit.                                          *)
OwnerShape ==
  /\ completed \/ released \/ pc = "cleaned" \/ phase = "failure-cleaned" => Ended
  /\ published /\ ~retained => Ended
  /\ (committed \/ quitting = "cleaning" \/ phase \in {"discard", "failure-cleanup"}) /\ Resting => Ended
  /\ phase \in {"discard", "failure-cleanup"} => job \in Cleaners \cup {"none"}
  /\ quitting = "cleaning" => job \in {"shutdown", "none"}

(* What a resolution says of the roots and fixed versions of the source:   *)
(* each is kept, removed or replaced.                                      *)
Dom(pairs) == {p[1] : p \in pairs}
Told(r) == r.roots \cup r.removed \cup Dom(r.replaced)
Accounted(r) == /\ P!Originals \subseteq Told(r)
                /\ r.kind = "resolved" /\ r.roots # {} => Pins \subseteq r.pins \cup Told(r)
Answered == IF job = "resolve" THEN DOMAIN choice ELSE {}
Known == work.roots \cup removed \cup Dom(replaced) \cup Answered

(* What a round of conflicts knows of the rounds before it.                *)
RoundShape ==
  /\ res.kind = "unresolved" \/ pc \in {"closures", "finalize", "exchange"}
       \/ (pc = "resolving" /\ job = "resolve") => manifest \/ base # {}
  /\ pc \in {"authority", "materialize"} => DOMAIN choice # {}
  /\ session = "provenance-required" \/ res.kind = "provenance" \/ pc \in Starting
       \/ (pc \in Resolving /\ job # "resolve") => removed = {} /\ replaced = {}
  /\ pc = "deliver" => res.kind # "none"
  /\ pc = "selectors" => res.kind = "unresolved" /\ DOMAIN choice = res.bad
  /\ pc \in {"closures", "finalize", "exchange"} => base = P!Originals

(* No round loses sight of a root or of a fixed version.                   *)
ResultShape ==
  /\ res.kind \in {"unresolved", "resolved"} =>
       Accounted(res) /\ removed = res.removed /\ replaced = res.replaced
  /\ (pc = "resolving" /\ job = "resolve") \/ pc \in {"closures", "finalize", "exchange"} =>
       P!Originals \subseteq Known
  /\ pc \in {"finalize", "exchange"} /\ work.roots # {} => Pins \subseteq work.pins \cup Known
  /\ pending.kind = "resolved" => Accounted(pending)
  /\ preview.kind = "resolved" => Accounted(preview)

(* A result is read by the screen once: it is pending, or shown.           *)
Asks == {"start", "select", "resolve"}
RoutedOnce ==
  /\ modal \/ phase \in {"preview", "publish", "roots", "conflicts"} =>
       pending = P!Nothing /\ job \notin Asks
  /\ (job = "publish") \/ (job \in Asks /\ pc # "ending") => pending = P!Nothing
  /\ preview.kind = "resolved" =>
       /\ pending = P!Nothing /\ job \notin Asks /\ phase \notin {"roots", "conflicts", "resolving"}
       /\ phase = "start" => quitting # "no"

(* What is staged is what the preview shows.                               *)
Matches(r) == r.kind = "resolved" /\ staged = [resolved |-> TRUE, roots |-> r.roots, pins |-> r.pins]
StagedIsShown ==
  /\ pc = "deliver" /\ res.kind = "resolved" => Matches(res)
  /\ session = "resolved" =>
       Matches(res) /\ (pending = res \/ (pending = P!Nothing /\ preview = res))
  /\ pc \in {"apply", "rename"} \/ staging = "moved" => Matches(preview) /\ pending = P!Nothing

PackIInv ==
  /\ PlainTypes /\ BoundTypes /\ DataTypes
  /\ JobShape /\ PlanShape /\ OwnerShape
  /\ RoundShape /\ ResultShape /\ RoutedOnce /\ StagedIsShown

-----------------------------------------------------------------------------
(* The migration of a Pack: what its steps change                          *)

Rest == UNCHANGED <<manifest, P!Screen>>
Polled == P!Usable /\ P!Idle /\ P!SameWorld
Ticks == P!Fault \/ P!NoFault

GivesUp ==
  /\ pc \in {"materialize", "selectors", "resolving", "closures", "finalize", "exchange", "apply",
             "rename", "reconcile", "renamed", "verify"}
  /\ P!PlanFails /\ P!Raise
  /\ \/ staged' = staged
     \/ pc = "exchange" /\ staged' = [resolved |-> TRUE, roots |-> work.roots, pins |-> work.pins]
  /\ UNCHANGED <<target, altered, staging, tree, sourceMoved, P!Resolution, P!Owner>>
  /\ P!SameSession /\ Rest /\ Ticks

Selects ==
  /\ pc = "materialize" /\ P!Goto("resolving")
  /\ base' = DOMAIN choice /\ res' = P!Nothing /\ state' = "staged"
  /\ UNCHANGED <<P!Disk, pub, committed, stuck, locks, attempt, work, removed, replaced, P!Owner>>
  /\ P!SameSession /\ Rest /\ Ticks

RoundRefused ==
  /\ pc = "selectors" /\ P!Raise
  /\ UNCHANGED <<P!Disk, P!Outcome, P!Resolution, P!Owner>> /\ P!SameSession /\ Rest /\ Ticks

RoundBegins ==
  /\ pc = "selectors" /\ P!Goto("resolving")
  /\ attempt' = attempt + 1 /\ state' = "resolving"
  /\ work' = [roots |-> P!Effective, pins |-> {}]
  /\ UNCHANGED <<P!Disk, base, res, removed, replaced, pub, committed, stuck, locks, P!Owner>>
  /\ P!SameSession /\ Rest /\ Ticks

AsksRoots ==
  /\ pc = "resolving" /\ P!Goto("deliver")
  /\ ~manifest /\ base = {}
  /\ state' = "resolution-required" /\ res' = [P!Nothing EXCEPT !.kind = "provenance"]
  /\ UNCHANGED <<P!Disk, base, work, removed, replaced, pub, committed, stuck, locks, attempt, P!Owner>>
  /\ P!SameSession /\ Rest /\ Ticks

Looks ==
  /\ pc = "resolving" /\ P!Goto("closures")
  /\ manifest \/ base # {}
  /\ state' = "resolving" /\ base' = P!Originals
  /\ work' = IF job = "resolve" THEN work ELSE [roots |-> P!Originals, pins |-> {}]
  /\ UNCHANGED <<P!Disk, res, removed, replaced, pub, committed, stuck, locks, attempt, P!Owner>>
  /\ P!SameSession /\ Rest /\ Ticks

LeavesOpen ==
  /\ pc = "closures" /\ P!Goto("deliver")
  /\ \E bad \in SUBSET work.roots, blocked \in BOOLEAN : res' = P!Accumulate(P!Unresolved(bad, blocked))
  /\ removed' = res'.removed /\ replaced' = res'.replaced
  /\ state' = "resolution-required"
  /\ UNCHANGED <<P!Disk, base, work, pub, committed, stuck, locks, attempt, P!Owner>>
  /\ P!SameSession /\ Rest /\ Ticks

Closes ==
  /\ pc = "closures" /\ P!Goto("finalize")
  /\ \E graph : /\ work' = [work EXCEPT !.pins = P!Kept(graph)]
                /\ work.roots # {} => Pins \subseteq graph \cup P!Retired
  /\ UNCHANGED <<P!Disk, base, res, removed, replaced, P!Outcome, attempt, P!Owner>>
  /\ P!SameSession /\ Rest /\ Ticks

Finalizes ==
  /\ pc = "finalize" /\ P!Goto("exchange")
  /\ UNCHANGED <<P!Disk, P!Resolution, P!Outcome, P!Owner>> /\ P!SameSession /\ Rest /\ Ticks

Exchanges ==
  /\ pc = "exchange" /\ P!Goto("deliver")
  /\ staged' = [resolved |-> TRUE, roots |-> work.roots, pins |-> work.pins]
  /\ res' = P!Accumulate(P!Resolved)
  /\ removed' = res'.removed /\ replaced' = res'.replaced
  /\ state' = "resolved"
  /\ UNCHANGED <<target, altered, staging, tree, sourceMoved, pub, committed, stuck, locks, attempt, base,
                 work, P!Owner>>
  /\ P!SameSession /\ Rest /\ Ticks

Applies ==
  /\ pc = "apply" /\ P!Goto("rename")
  /\ state' = "applying"
  /\ UNCHANGED <<P!Disk, P!Resolution, pub, committed, stuck, locks, P!Owner>>
  /\ P!SameSession /\ Rest /\ Ticks

Renames ==
  /\ pc = "rename" /\ pub' = "uncertain" /\ target = "none"
  /\ target' = "ours" /\ staging' = "moved" /\ (P!Goto("renamed") \/ P!Goto("reconcile"))
  /\ UNCHANGED <<altered, staged, tree, sourceMoved, state, committed, stuck, locks, P!Resolution, P!Owner>>
  /\ P!SameSession /\ Rest /\ Ticks

RenamesNot ==
  /\ pc = "rename" /\ pub' = "uncertain" /\ P!Goto("reconcile")
  /\ UNCHANGED <<P!Disk, state, committed, stuck, locks, P!Resolution, P!Owner>>
  /\ P!SameSession /\ Rest /\ Ticks

Finds ==
  /\ pc = "reconcile" /\ target = "ours" /\ staging = "moved"
  /\ pub' = "published" /\ P!Goto("renamed")
  /\ UNCHANGED <<P!Disk, state, committed, stuck, locks, P!Resolution, P!Owner>>
  /\ P!SameSession /\ Rest /\ Ticks

FindsNot ==
  /\ pc = "reconcile" /\ P!Raise
  /\ pub' = pub \/ (pub' = "not-published" /\ staging = "tree")
  /\ state' = "failed" /\ stuck' = TRUE
  /\ UNCHANGED <<P!Disk, committed, locks, P!Resolution, P!Owner>> /\ P!SameSession /\ Rest /\ Ticks

Commits ==
  /\ pc = "renamed" /\ P!Goto("verify") /\ committed' = TRUE /\ pub' = "published"
  /\ UNCHANGED <<P!Disk, state, stuck, locks, P!Resolution, P!Owner>>
  /\ P!SameSession /\ Rest /\ Ticks

Verifies ==
  /\ pc \in {"verify", "reverify"} /\ P!Goto("finish") /\ altered = "no"
  /\ UNCHANGED <<P!Disk, P!Outcome, P!Resolution, P!Owner>> /\ P!SameSession /\ Rest /\ Ticks

VerifiesNot ==
  /\ pc = "reverify" /\ P!Goto("uncleaned") /\ P!PlanFails
  /\ UNCHANGED <<P!Disk, P!Resolution, P!Owner>> /\ P!SameSession /\ Rest /\ Ticks

FinishStays ==
  /\ pc \in {"finish", "rmdir", "release"} /\ P!FinishFails
  /\ UNCHANGED <<target, altered, staging, staged, sourceMoved, P!Resolution, P!Owner>>
  /\ P!SameSession /\ Rest /\ Ticks

FinishGoes ==
  /\ \/ pc = "finish" /\ tree # "absent" /\ tree' = "emptied" /\ P!Goto("rmdir")
     \/ pc = "rmdir" /\ tree' = "absent" /\ P!Goto("release")
  /\ UNCHANGED <<target, altered, staging, staged, sourceMoved, P!Outcome, P!Resolution, P!Owner>>
  /\ P!SameSession /\ Rest /\ Ticks

Releases ==
  /\ pc = "release"
  /\ locks' = FALSE /\ state' = "applied" /\ stuck' = FALSE
  /\ session' = "published" /\ published' = TRUE
  /\ P!Goto(IF job = "publish" THEN "ending" ELSE "cleaned")
  /\ UNCHANGED <<P!Disk, pub, committed, P!Resolution, hold, cancel, pending, error, retained, completed, nav,
                 forFailure>>
  /\ Rest /\ Ticks

ErrorKept ==
  /\ P!Working /\ error /\ hold /\ (committed \/ pub = "uncertain")
  /\ retained' = TRUE /\ published' = (published \/ committed)
  /\ UNCHANGED <<P!Screen, session, cancel, pending, error, completed, nav, forFailure, P!Thread>>
  /\ P!SameWorld /\ P!Usable /\ P!Idle

ErrorCleans ==
  /\ P!Working /\ error /\ (hold => ~committed /\ pub # "uncertain")
  /\ forFailure' = TRUE /\ phase' = "failure-cleanup" /\ P!Spawn("failure", "cleanup", <<>>)
  /\ UNCHANGED <<preview, modal, left, released, quitting, session, cancel, pending, retained,
                 published, completed, nav>>
  /\ P!SameWorld /\ P!Usable /\ P!Idle

USE DEF P!Disk, P!Resolution, P!Outcome, P!Owner, P!Thread, P!Bounds, P!Screen, P!Goto, P!At,
    P!Fault, P!Interrupted, P!NoFault, P!SourceFresh, P!PlanFails, P!SamePlan, P!SameSession,
    P!Raise, P!FinishFails, P!SameWorld, P!Idle, P!Done, P!Usable, P!CanType, P!Spawn, P!Enters,
    P!Navigate, P!Working, P!Forgotten, P!MarksPublication, P!Publishable, Rest

LEMMA WorkerCases ==
  ASSUME P!Worker, Rest
  PROVE  /\ P!SelectMaterializes => GivesUp \/ Selects
         /\ P!ConflictBegins => GivesUp \/ RoundRefused \/ RoundBegins
         /\ P!ResolveBegins => GivesUp \/ AsksRoots \/ Looks
         /\ P!ResolveRoots => GivesUp \/ LeavesOpen \/ Closes
         /\ P!Finalize => GivesUp \/ Finalizes
         /\ P!ExchangeSource => GivesUp \/ Exchanges
         /\ P!ApplyChecks => GivesUp \/ Applies
         /\ P!Rename => GivesUp \/ Renames \/ RenamesNot
         /\ P!Reconcile => GivesUp \/ Finds \/ FindsNot
         /\ P!Commit => GivesUp \/ Commits
         /\ P!Verify => GivesUp \/ Verifies \/ VerifiesNot
         /\ P!FinishEmpties \/ P!FinishRemoves => FinishGoes \/ FinishStays
         /\ P!FinishReleases => FinishStays \/ Releases
<1> USE DEF GivesUp, Ticks
<1>1. P!SelectMaterializes => GivesUp \/ Selects
  BY Zenon DEF P!SelectMaterializes, Selects
<1>2. P!ConflictBegins => GivesUp \/ RoundRefused \/ RoundBegins
  BY Zenon DEF P!ConflictBegins, RoundRefused, RoundBegins
<1>3. P!ResolveBegins => GivesUp \/ AsksRoots \/ Looks
  BY DEF P!ResolveBegins, AsksRoots, Looks
<1>4. P!ResolveRoots => GivesUp \/ LeavesOpen \/ Closes
  <2>1. ASSUME P!ResolveRoots, ~GivesUp PROVE LeavesOpen \/ Closes
    <3>1. PICK bad \in SUBSET work.roots, unmet \in BOOLEAN :
            \E needed \in P!Closures(bad), hit \in P!Colliding(bad) :
             LET graph == (work.roots \ bad) \cup needed
                 open == bad \cup hit # {} \/ P!Blocked(graph, unmet)
             IN \/ /\ open
                   /\ res' = P!Accumulate(P!Unresolved(bad \cup hit, P!Blocked(graph, unmet)))
                   /\ removed' = res'.removed /\ replaced' = res'.replaced
                   /\ state' = "resolution-required"
                   /\ P!Goto("deliver")
                   /\ UNCHANGED work
                \/ /\ ~open
                   /\ work' = [work EXCEPT !.pins = P!Kept(graph)]
                   /\ P!Goto("finalize")
                   /\ UNCHANGED <<res, removed, replaced, state>>
      BY <2>1, Zenon DEF P!ResolveRoots, P!Unresolvable
    <3>2. /\ pc = "closures"
          /\ UNCHANGED <<pub, committed, stuck, locks, P!Disk, attempt, base, manifest, P!Owner, P!Screen>>
          /\ P!SameSession /\ Ticks
      BY <2>1, Zenon DEF P!ResolveRoots
    <3>3. PICK needed \in P!Closures(bad), hit \in SUBSET work.roots :
             LET graph == (work.roots \ bad) \cup needed
                 open == bad \cup hit # {} \/ P!Blocked(graph, unmet)
             IN \/ /\ open
                   /\ res' = P!Accumulate(P!Unresolved(bad \cup hit, P!Blocked(graph, unmet)))
                   /\ removed' = res'.removed /\ replaced' = res'.replaced
                   /\ state' = "resolution-required"
                   /\ P!Goto("deliver")
                   /\ UNCHANGED work
                \/ /\ ~open
                   /\ work' = [work EXCEPT !.pins = P!Kept(graph)]
                   /\ P!Goto("finalize")
                   /\ UNCHANGED <<res, removed, replaced, state>>
      BY <3>1 DEF P!Colliding
    <3> DEFINE graph == (work.roots \ bad) \cup needed
    <3>4. bad \cup hit \in SUBSET work.roots /\ P!Blocked(graph, unmet) \in BOOLEAN
      BY DEF P!Blocked
    <3>5. ~P!Blocked(graph, unmet) /\ work.roots # {} => Pins \subseteq graph \cup P!Retired
      BY DEF P!Blocked
    <3>6. CASE P!Goto("deliver")
      BY <3>2, <3>3, <3>4, <3>6 DEF LeavesOpen
    <3>7. CASE ~P!Goto("deliver")
      BY <3>2, <3>3, <3>5, <3>7, Zenon DEF Closes
    <3> QED
      BY <3>6, <3>7
  <2> QED
    BY <2>1
<1>5. P!Finalize => GivesUp \/ Finalizes
  BY Zenon DEF P!Finalize, Finalizes
<1>6. P!ExchangeSource => GivesUp \/ Exchanges
  BY DEF P!ExchangeSource, Exchanges
<1>7. P!ApplyChecks => GivesUp \/ Applies
  BY Zenon DEF P!ApplyChecks, Applies
<1>8. P!Rename => GivesUp \/ Renames \/ RenamesNot
  BY DEF P!Rename, Renames, RenamesNot
<1>9. P!Reconcile => GivesUp \/ Finds \/ FindsNot
  BY DEF P!Reconcile, Finds, FindsNot
<1>10. P!Commit => GivesUp \/ Commits
  BY Zenon DEF P!Commit, Commits
<1>11. P!Verify => GivesUp \/ Verifies \/ VerifiesNot
  BY DEF P!Verify, Verifies, VerifiesNot
<1>12. P!FinishEmpties \/ P!FinishRemoves => FinishGoes \/ FinishStays
  BY Zenon DEF P!FinishEmpties, P!FinishRemoves, FinishGoes, FinishStays
<1>13. P!FinishReleases => FinishStays \/ Releases
  BY Zenon DEF P!FinishReleases, FinishStays, Releases
<1> QED
  BY <1>1, <1>2, <1>3, <1>4, <1>5, <1>6, <1>7, <1>8, <1>9, <1>10, <1>11, <1>12, <1>13

LEMMA Lifecycles ==
  /\ P!Lifecycle = "none" <=> ~hold
  /\ P!Lifecycle = "committed" <=> hold /\ committed
  /\ P!Lifecycle = "uncertain" <=> hold /\ ~committed /\ pub = "uncertain"
  /\ P!Lifecycle = "discarded" <=> hold /\ ~committed /\ pub # "uncertain" /\ state = "discarded"
  /\ P!Lifecycle = "precommit" <=> hold /\ ~committed /\ pub # "uncertain" /\ state # "discarded"
BY DEF P!Lifecycle

LEMMA PollErrorCases == ASSUME P!PollError, Polled PROVE ErrorKept \/ ErrorCleans
<1>1. CASE P!Lifecycle \in {"committed", "uncertain"}
  BY <1>1, Lifecycles, Zenon DEF P!PollError, ErrorKept, Polled
<1>2. CASE P!Lifecycle \notin {"committed", "uncertain"}
  <2>1. hold => ~committed /\ pub # "uncertain"
    BY <1>2, Lifecycles
  <2> QED
    BY <1>2, <2>1, Zenon DEF P!PollError, ErrorCleans, Polled
<1> QED
  BY <1>1, <1>2

LEMMA DataFacts ==
  /\ P!Nothing \in Result /\ P!Copied \in Staged
  /\ \A b \in BOOLEAN : [P!Nothing EXCEPT !.blocked = b] \in Result
  /\ \A S \in SUBSET P!Id : [roots |-> S, pins |-> {}] \in Workspace
  /\ [P!Nothing EXCEPT !.kind = "provenance"] \in Result
BY DEF P!Nothing, Result, P!Copied, Staged, Workspace

LEMMA ResultFacts ==
  ASSUME NEW r \in Result
  PROVE  /\ r.roots \in SUBSET P!Id /\ r.pins \in SUBSET Pins /\ r.bad \in SUBSET P!Id
         /\ r.removed \in SUBSET P!Id /\ r.replaced \in SUBSET (P!Id \X P!Id) /\ r.blocked \in BOOLEAN
BY DEF Result

LEMMA EffectiveRoots ==
  ASSUME res \in Result, DOMAIN choice = res.bad,
         \A i \in DOMAIN choice : choice[i] \in P!Id \cup {P!Remove}
  PROVE  P!Effective \in SUBSET P!Id /\ res.roots \subseteq P!Effective \cup DOMAIN choice
BY ResultFacts DEF P!Effective

LEMMA WorkFacts ==
  ASSUME work \in Workspace
  PROVE  /\ work.roots \in SUBSET P!Id /\ work.pins \in SUBSET Pins
         /\ [resolved |-> TRUE, roots |-> work.roots, pins |-> work.pins] \in Staged
         /\ P!Resolved \in Result /\ P!Resolved.kind = "resolved" /\ P!Resolved.roots = work.roots
         /\ P!Resolved.pins = work.pins /\ P!Resolved.removed = {} /\ P!Resolved.replaced = {}
         /\ \A bad \in SUBSET work.roots, b \in BOOLEAN :
              /\ P!Unresolved(bad, b) \in Result /\ P!Unresolved(bad, b).kind = "unresolved"
              /\ P!Unresolved(bad, b).roots = work.roots /\ P!Unresolved(bad, b).bad = bad
              /\ P!Unresolved(bad, b).removed = {} /\ P!Unresolved(bad, b).replaced = {}
         /\ \A graph : /\ [work EXCEPT !.pins = P!Kept(graph)] \in Workspace
                       /\ [work EXCEPT !.pins = P!Kept(graph)].roots = work.roots
                       /\ [work EXCEPT !.pins = P!Kept(graph)].pins = P!Kept(graph)
BY DEF Workspace, Staged, Result, P!Resolved, P!Unresolved, P!Nothing, P!Kept

(* What a result reports as removed and replaced: in a conflict round the  *)
(* record so far and the round's own choices, otherwise nothing.           *)
LEMMA Accumulating ==
  ASSUME NEW r \in Result, removed \in SUBSET P!Id, replaced \in SUBSET (P!Id \X P!Id),
         job = "resolve" => /\ DOMAIN choice \in SUBSET P!Id
                            /\ \A i \in DOMAIN choice : choice[i] \in P!Id \cup {P!Remove}
  PROVE  /\ P!Accumulate(r) \in Result
         /\ P!Accumulate(r).kind = r.kind /\ P!Accumulate(r).roots = r.roots
         /\ P!Accumulate(r).pins = r.pins /\ P!Accumulate(r).bad = r.bad
         /\ job # "resolve" => P!Accumulate(r) = r
         /\ job = "resolve" =>
              /\ removed \cup Dom(replaced) \cup DOMAIN choice
                    \subseteq P!Accumulate(r).removed \cup Dom(P!Accumulate(r).replaced)
<1>1. CASE job # "resolve"
  BY <1>1 DEF P!Accumulate
<1>2. CASE job = "resolve"
  <2> DEFINE gone == removed \cup P!Left
             new == {p \in replaced : p[1] \notin {q[1] : q \in P!Swapped}} \cup P!Swapped
  <2>1. P!Left \in SUBSET DOMAIN choice /\ P!Left \in SUBSET P!Id
    BY <1>2 DEF P!Left
  <2>2. \A i \in DOMAIN choice \ P!Left : choice[i] \in P!Id
    BY <1>2 DEF P!Left
  <2>3. P!Swapped \in SUBSET (P!Id \X P!Id)
    BY <1>2, <2>2 DEF P!Swapped
  <2>4. DOMAIN choice \ P!Left \subseteq Dom(P!Swapped)
    <3>1. ASSUME NEW i \in DOMAIN choice \ P!Left PROVE i \in Dom(P!Swapped)
      <4>1. <<i, choice[i]>> \in P!Swapped /\ <<i, choice[i]>>[1] = i
        BY DEF P!Swapped
      <4> QED
        BY <4>1 DEF Dom
    <3> QED
      BY <3>1
  <2>5. Dom(replaced) \cup Dom(P!Swapped) \subseteq Dom(new)
    BY DEF Dom
  <2>6. gone \in SUBSET P!Id /\ new \in SUBSET (P!Id \X P!Id)
    BY <2>1, <2>3
  <2>7. P!Accumulate(r) = [r EXCEPT !.removed = gone, !.replaced = new]
    BY <1>2, Zenon DEF P!Accumulate
  <2> HIDE DEF gone, new
  <2>8. /\ P!Accumulate(r) \in Result
        /\ P!Accumulate(r).kind = r.kind /\ P!Accumulate(r).roots = r.roots
        /\ P!Accumulate(r).pins = r.pins /\ P!Accumulate(r).bad = r.bad
        /\ P!Accumulate(r).removed = gone /\ P!Accumulate(r).replaced = new
    BY <2>6, <2>7 DEF Result
  <2>9. removed \subseteq gone /\ P!Left \subseteq gone
    BY DEF gone
  <2> QED
    BY <1>2, <2>4, <2>5, <2>8, <2>9
<1> QED
  BY <1>1, <1>2

(* One step of CopyPublication, or none: from target, made and held to     *)
(* target2, made2 and held2.                                               *)
Copies(target1, made1, held1, target2, made2, held2) ==
  \/ ~held1 /\ ~made1 /\ held2 /\ target2 = target1 /\ ~made2
  \/ held1 /\ ~made1 /\ target1 = "none" /\ target2 = "ours" /\ made2 /\ held2
  \/ held1 /\ ~held2 /\ target2 = target1 /\ (made1 <=> made2)
  \/ target2 \in {"none", "foreign"} /\ (made1 <=> made2) /\ (held1 <=> held2)
  \/ target2 = target1 /\ (made1 <=> made2) /\ (held1 <=> held2)

PackCopies == Copies(target, staging = "moved", locks, target', staging' = "moved", locks')

LEMMA PlaceTypesStep == ASSUME PackIInv, P!Next PROVE PlaceTypes'
<1> USE DEF PackIInv, PlaceTypes, PlainTypes
<1>1. CASE GivesUp
  BY <1>1, SMTT(20) DEF GivesUp
<1>2. CASE (P!PlanBegin \/ P!PlanCopies \/ P!PlanCleansUp \/ P!PlanReleases) /\ Rest
  BY <1>2, SMTT(20) DEF P!PlanBegin, P!PlanCopies, P!PlanCleansUp, P!PlanReleases
<1>3. CASE (P!SelectAuthority /\ Rest) \/ Selects
  BY <1>3, SMTT(20) DEF P!SelectAuthority, Selects
<1>4. CASE (P!ConflictRequest /\ Rest) \/ RoundRefused \/ RoundBegins
  BY <1>4, SMTT(20) DEF P!ConflictRequest, RoundRefused, RoundBegins
<1>5. CASE AsksRoots \/ Looks
  BY <1>5, SMTT(20) DEF AsksRoots, Looks
<1>6. CASE LeavesOpen \/ Closes
  BY <1>6, SMTT(20) DEF LeavesOpen, Closes
<1>7. CASE Finalizes \/ Exchanges
  BY <1>7, SMTT(20) DEF Finalizes, Exchanges
<1>8. CASE (P!Prepare /\ Rest) \/ Applies
  BY <1>8, SMTT(20) DEF P!Prepare, Applies
<1>9. CASE Renames \/ RenamesNot
  BY <1>9, SMTT(20) DEF Renames, RenamesNot
<1>10. CASE Finds \/ FindsNot \/ Commits
  BY <1>10, SMTT(20) DEF Finds, FindsNot, Commits
<1>11. CASE Verifies \/ VerifiesNot
  BY <1>11, SMTT(20) DEF Verifies, VerifiesNot
<1>12. CASE FinishGoes \/ FinishStays \/ Releases
  BY <1>12, SMTT(20) DEF FinishGoes, FinishStays, Releases
<1>13. CASE (P!Deliver \/ P!Fails \/ P!Refused) /\ Rest
  BY <1>13, Lifecycles, SMTT(20) DEF P!Deliver, P!Fails, P!Refused
<1>14. CASE (P!CleanupBegins \/ P!DiscardRemoves \/ P!DiscardReleases) /\ Rest
  BY <1>14, Lifecycles, SMTT(20) DEF P!CleanupBegins, P!DiscardRemoves, P!DiscardReleases
<1>15. CASE P!Cleaned /\ Rest
  BY <1>15, SMTT(20) DEF P!Cleaned
<1>16. CASE (P!Uncleaned \/ P!ThreadEnds) /\ Rest
  BY <1>16, SMTT(20) DEF P!Uncleaned, P!ThreadEnds
<1>17. CASE ((P!PollLeaving \/ P!PollDiscarded \/ P!PollFailureCleanup \/ P!PollResult
            \/ P!PollPublished) /\ Polled) \/ ErrorKept \/ ErrorCleans
  BY <1>17, SMTT(20) DEF P!PollLeaving, P!PollDiscarded, P!PollFailureCleanup, ErrorKept,
     ErrorCleans, P!PollResult, P!PollPublished, Polled
<1>18. CASE P!ChooseRoots \/ P!ResolveConflicts \/ P!AskConfirmation \/ P!Confirm \/ P!Decline
  BY <1>18, SMTT(20) DEF P!ChooseRoots, P!ResolveConflicts, P!AskConfirmation, P!Confirm, P!Decline
<1>19. CASE P!RetryCleanup \/ P!Leave
  BY <1>19, SMTT(20) DEF P!RetryCleanup, P!Leave
<1>20. CASE P!Quit \/ P!QuitTimeout \/ P!QuitCleans \/ P!QuitEnds
  BY <1>20, Lifecycles, SMTT(20) DEF P!Quit, P!QuitTimeout, P!QuitCleans, P!QuitEnds
<1>21. CASE P!Elsewhere
  BY <1>21, SMTT(20) DEF P!Elsewhere
<1> QED
  BY <1>1, <1>2, <1>3, <1>4, <1>5, <1>6, <1>7, <1>8, <1>9, <1>10, <1>11, <1>12, <1>13, <1>14,
     <1>15, <1>16, <1>17, <1>18, <1>19, <1>20, <1>21,
     WorkerCases, PollErrorCases
  DEF P!Next, P!WorkerStep, P!Worker, P!User, P!Shutdown, P!Poll, Polled

LEMMA StepTypesStep == ASSUME PackIInv, P!Next PROVE StepTypes'
<1> USE DEF PackIInv, StepTypes, PlainTypes, JobShape, P!Phase, P!Job, P!Step, Starting,
       Resolving, Publishing, Finishing, Cleaners
<1>1. CASE GivesUp
  BY <1>1, SMTT(20) DEF GivesUp
<1>2. CASE (P!PlanBegin \/ P!PlanCopies \/ P!PlanCleansUp \/ P!PlanReleases) /\ Rest
  BY <1>2, SMTT(20) DEF P!PlanBegin, P!PlanCopies, P!PlanCleansUp, P!PlanReleases
<1>3. CASE (P!SelectAuthority /\ Rest) \/ Selects
  BY <1>3, SMTT(20) DEF P!SelectAuthority, Selects
<1>4. CASE (P!ConflictRequest /\ Rest) \/ RoundRefused \/ RoundBegins
  BY <1>4, SMTT(20) DEF P!ConflictRequest, RoundRefused, RoundBegins
<1>5. CASE AsksRoots \/ Looks
  BY <1>5, SMTT(20) DEF AsksRoots, Looks
<1>6. CASE LeavesOpen \/ Closes
  BY <1>6, SMTT(20) DEF LeavesOpen, Closes
<1>7. CASE Finalizes \/ Exchanges
  BY <1>7, SMTT(20) DEF Finalizes, Exchanges
<1>8. CASE (P!Prepare /\ Rest) \/ Applies
  BY <1>8, SMTT(20) DEF P!Prepare, Applies
<1>9. CASE Renames \/ RenamesNot
  BY <1>9, SMTT(20) DEF Renames, RenamesNot
<1>10. CASE Finds \/ FindsNot \/ Commits
  BY <1>10, SMTT(20) DEF Finds, FindsNot, Commits
<1>11. CASE Verifies \/ VerifiesNot
  BY <1>11, SMTT(20) DEF Verifies, VerifiesNot
<1>12. CASE FinishGoes \/ FinishStays \/ Releases
  BY <1>12, SMTT(20) DEF FinishGoes, FinishStays, Releases
<1>13. CASE (P!Deliver \/ P!Fails \/ P!Refused) /\ Rest
  BY <1>13, Lifecycles, SMTT(20) DEF P!Deliver, P!Fails, P!Refused
<1>14. CASE (P!CleanupBegins \/ P!DiscardRemoves \/ P!DiscardReleases) /\ Rest
  BY <1>14, Lifecycles, SMTT(20) DEF P!CleanupBegins, P!DiscardRemoves, P!DiscardReleases
<1>15. CASE P!Cleaned /\ Rest
  BY <1>15, SMTT(20) DEF P!Cleaned
<1>16. CASE (P!Uncleaned \/ P!ThreadEnds) /\ Rest
  BY <1>16, SMTT(20) DEF P!Uncleaned, P!ThreadEnds
<1>17. CASE ((P!PollLeaving \/ P!PollDiscarded \/ P!PollFailureCleanup \/ P!PollResult
            \/ P!PollPublished) /\ Polled) \/ ErrorKept \/ ErrorCleans
  BY <1>17, SMTT(20) DEF P!PollLeaving, P!PollDiscarded, P!PollFailureCleanup, ErrorKept,
     ErrorCleans, P!PollResult, P!PollPublished, Polled
<1>18. CASE P!ChooseRoots \/ P!ResolveConflicts \/ P!AskConfirmation \/ P!Confirm \/ P!Decline
  BY <1>18, SMTT(20) DEF P!ChooseRoots, P!ResolveConflicts, P!AskConfirmation, P!Confirm, P!Decline
<1>19. CASE P!RetryCleanup \/ P!Leave
  BY <1>19, SMTT(20) DEF P!RetryCleanup, P!Leave
<1>20. CASE P!Quit \/ P!QuitTimeout \/ P!QuitCleans \/ P!QuitEnds
  BY <1>20, Lifecycles, SMTT(20) DEF P!Quit, P!QuitTimeout, P!QuitCleans, P!QuitEnds
<1>21. CASE P!Elsewhere
  BY <1>21, SMTT(20) DEF P!Elsewhere
<1> QED
  BY <1>1, <1>2, <1>3, <1>4, <1>5, <1>6, <1>7, <1>8, <1>9, <1>10, <1>11, <1>12, <1>13, <1>14,
     <1>15, <1>16, <1>17, <1>18, <1>19, <1>20, <1>21,
     WorkerCases, PollErrorCases
  DEF P!Next, P!WorkerStep, P!Worker, P!User, P!Shutdown, P!Poll, Polled

LEMMA PlanFlagsStep == ASSUME PackIInv, P!Next PROVE PlanFlags'
<1> USE DEF PackIInv, PlanFlags, PlainTypes
<1>1. CASE GivesUp
  BY <1>1, ZenonT(20) DEF GivesUp
<1>2. CASE (P!PlanBegin \/ P!PlanCopies \/ P!PlanCleansUp \/ P!PlanReleases) /\ Rest
  BY <1>2, ZenonT(20) DEF P!PlanBegin, P!PlanCopies, P!PlanCleansUp, P!PlanReleases
<1>3. CASE (P!SelectAuthority /\ Rest) \/ Selects
  BY <1>3, ZenonT(20) DEF P!SelectAuthority, Selects
<1>4. CASE (P!ConflictRequest /\ Rest) \/ RoundRefused \/ RoundBegins
  BY <1>4, ZenonT(20) DEF P!ConflictRequest, RoundRefused, RoundBegins
<1>5. CASE AsksRoots \/ Looks
  BY <1>5, ZenonT(20) DEF AsksRoots, Looks
<1>6. CASE LeavesOpen \/ Closes
  BY <1>6, ZenonT(20) DEF LeavesOpen, Closes
<1>7. CASE Finalizes \/ Exchanges
  BY <1>7, ZenonT(20) DEF Finalizes, Exchanges
<1>8. CASE (P!Prepare /\ Rest) \/ Applies
  BY <1>8, ZenonT(20) DEF P!Prepare, Applies
<1>9. CASE Renames \/ RenamesNot
  BY <1>9, ZenonT(20) DEF Renames, RenamesNot
<1>10. CASE Finds \/ FindsNot \/ Commits
  BY <1>10, ZenonT(20) DEF Finds, FindsNot, Commits
<1>11. CASE Verifies \/ VerifiesNot
  BY <1>11, ZenonT(20) DEF Verifies, VerifiesNot
<1>12. CASE FinishGoes \/ FinishStays \/ Releases
  BY <1>12, ZenonT(20) DEF FinishGoes, FinishStays, Releases
<1>13. CASE P!Fails /\ Rest
  BY <1>13, Lifecycles, SMTT(20) DEF P!Fails
<1>14. CASE P!Refused /\ Rest
  BY <1>14, Lifecycles, SMTT(20) DEF P!Refused
<1>15. CASE P!Deliver /\ Rest
  BY <1>15, ZenonT(20) DEF P!Deliver
<1>16. CASE (P!CleanupBegins \/ P!DiscardRemoves \/ P!DiscardReleases) /\ Rest
  BY <1>16, Lifecycles, ZenonT(20) DEF P!CleanupBegins, P!DiscardRemoves, P!DiscardReleases
<1>17. CASE P!Cleaned /\ Rest
  BY <1>17, ZenonT(20) DEF P!Cleaned
<1>18. CASE (P!Uncleaned \/ P!ThreadEnds) /\ Rest
  BY <1>18, ZenonT(20) DEF P!Uncleaned, P!ThreadEnds
<1>19. CASE ((P!PollLeaving \/ P!PollDiscarded \/ P!PollFailureCleanup \/ P!PollResult
            \/ P!PollPublished) /\ Polled) \/ ErrorKept \/ ErrorCleans
  BY <1>19, ZenonT(20) DEF P!PollLeaving, P!PollDiscarded, P!PollFailureCleanup, ErrorKept,
     ErrorCleans, P!PollResult, P!PollPublished, Polled
<1>20. CASE P!ChooseRoots \/ P!ResolveConflicts \/ P!AskConfirmation \/ P!Confirm \/ P!Decline
  BY <1>20, ZenonT(20) DEF P!ChooseRoots, P!ResolveConflicts, P!AskConfirmation, P!Confirm,
     P!Decline
<1>21. CASE P!RetryCleanup \/ P!Leave
  BY <1>21, ZenonT(20) DEF P!RetryCleanup, P!Leave
<1>22. CASE P!Quit \/ P!QuitTimeout \/ P!QuitCleans \/ P!QuitEnds
  BY <1>22, Lifecycles, ZenonT(20) DEF P!Quit, P!QuitTimeout, P!QuitCleans, P!QuitEnds
<1>23. CASE P!Elsewhere
  BY <1>23, ZenonT(20) DEF P!Elsewhere
<1> QED
  BY <1>1, <1>2, <1>3, <1>4, <1>5, <1>6, <1>7, <1>8, <1>9, <1>10, <1>11, <1>12, <1>13, <1>14,
     <1>15, <1>16, <1>17, <1>18, <1>19, <1>20, <1>21, <1>22, <1>23,
     WorkerCases, PollErrorCases
  DEF P!Next, P!WorkerStep, P!Worker, P!User, P!Shutdown, P!Poll, Polled

LEMMA OwnerFlagsStep == ASSUME PackIInv, P!Next PROVE OwnerFlags'
<1>0. ASSUME UNCHANGED Flags PROVE OwnerFlags'
  BY <1>0, Zenon DEF Flags, PackIInv, PlainTypes, OwnerFlags
<1>1. CASE GivesUp
  <2>1. UNCHANGED Flags
    BY <1>1, ZenonT(20) DEF GivesUp, Flags
  <2> QED
    BY <2>1, <1>0
<1>2. CASE (P!PlanBegin \/ P!PlanCopies \/ P!PlanCleansUp \/ P!PlanReleases) /\ Rest
  <2>1. UNCHANGED Flags
    BY <1>2, ZenonT(20) DEF P!PlanBegin, P!PlanCopies, P!PlanCleansUp, P!PlanReleases, Flags
  <2> QED
    BY <2>1, <1>0
<1>3. CASE (P!SelectAuthority /\ Rest) \/ Selects
  <2>1. UNCHANGED Flags
    BY <1>3, ZenonT(20) DEF P!SelectAuthority, Selects, Flags
  <2> QED
    BY <2>1, <1>0
<1>4. CASE P!ConflictRequest /\ Rest
  <2>1. UNCHANGED Flags
    BY <1>4, ZenonT(20) DEF P!ConflictRequest, Flags
  <2> QED
    BY <2>1, <1>0
<1>5. CASE RoundRefused
  <2>1. UNCHANGED Flags
    BY <1>5, ZenonT(20) DEF RoundRefused, Flags
  <2> QED
    BY <2>1, <1>0
<1>6. CASE RoundBegins
  <2>1. UNCHANGED Flags
    BY <1>6, ZenonT(20) DEF RoundBegins, Flags
  <2> QED
    BY <2>1, <1>0
<1>7. CASE AsksRoots \/ Looks
  <2>1. UNCHANGED Flags
    BY <1>7, ZenonT(20) DEF AsksRoots, Looks, Flags
  <2> QED
    BY <2>1, <1>0
<1>8. CASE LeavesOpen \/ Closes
  <2>1. UNCHANGED Flags
    BY <1>8, ZenonT(20) DEF LeavesOpen, Closes, Flags
  <2> QED
    BY <2>1, <1>0
<1>9. CASE Finalizes \/ Exchanges
  <2>1. UNCHANGED Flags
    BY <1>9, ZenonT(20) DEF Finalizes, Exchanges, Flags
  <2> QED
    BY <2>1, <1>0
<1>10. CASE (P!Prepare /\ Rest) \/ Applies
  <2>1. UNCHANGED Flags
    BY <1>10, ZenonT(20) DEF P!Prepare, Applies, Flags
  <2> QED
    BY <2>1, <1>0
<1>11. CASE Renames \/ RenamesNot
  <2>1. UNCHANGED Flags
    BY <1>11, ZenonT(20) DEF Renames, RenamesNot, Flags
  <2> QED
    BY <2>1, <1>0
<1>12. CASE Finds
  <2>1. UNCHANGED Flags
    BY <1>12, ZenonT(20) DEF Finds, Flags
  <2> QED
    BY <2>1, <1>0
<1>13. CASE FindsNot
  <2>1. UNCHANGED Flags
    BY <1>13, ZenonT(20) DEF FindsNot, Flags
  <2> QED
    BY <2>1, <1>0
<1>14. CASE Commits
  <2>1. UNCHANGED Flags
    BY <1>14, ZenonT(20) DEF Commits, Flags
  <2> QED
    BY <2>1, <1>0
<1>15. CASE Verifies \/ VerifiesNot
  <2>1. UNCHANGED Flags
    BY <1>15, ZenonT(20) DEF Verifies, VerifiesNot, Flags
  <2> QED
    BY <2>1, <1>0
<1>16. CASE FinishGoes
  <2>1. UNCHANGED Flags
    BY <1>16, ZenonT(20) DEF FinishGoes, Flags
  <2> QED
    BY <2>1, <1>0
<1>17. CASE FinishStays
  <2>1. UNCHANGED Flags
    BY <1>17, ZenonT(20) DEF FinishStays, Flags
  <2> QED
    BY <2>1, <1>0
<1> USE DEF PackIInv, OwnerFlags, PlainTypes
<1>18. CASE Releases
  BY <1>18, ZenonT(20) DEF Releases
<1>19. CASE (P!Fails \/ P!Refused) /\ Rest
  <2>1. CASE job = "publish"
    <3>1. published' = (P!Lifecycle = "committed") /\ retained' = (P!Lifecycle \in {"committed", "uncertain"})
      BY <1>19, <2>1, Zenon DEF P!Fails, P!Refused
    <3>2. published' \in BOOLEAN /\ retained' \in BOOLEAN
      BY <3>1, SMT
    <3> QED
      BY <1>19, <3>2, ZenonT(20) DEF P!Fails, P!Refused
  <2>2. CASE job # "publish"
    BY <1>19, <2>2, ZenonT(20) DEF P!Fails, P!Refused
  <2> QED
    BY <2>1, <2>2
<1>21. CASE P!Deliver /\ Rest
  BY <1>21, ZenonT(20) DEF P!Deliver
<1>22. CASE (P!CleanupBegins \/ P!DiscardRemoves \/ P!DiscardReleases) /\ Rest
  BY <1>22, Lifecycles, ZenonT(20) DEF P!CleanupBegins, P!DiscardRemoves, P!DiscardReleases
<1>23. CASE P!Cleaned /\ Rest
  BY <1>23, ZenonT(20) DEF P!Cleaned
<1>24. CASE P!ThreadEnds /\ Rest
  <2>1. UNCHANGED Flags
    BY <1>24, ZenonT(20) DEF P!ThreadEnds, Flags
  <2> QED
    BY <2>1, <1>0
<1>30. CASE P!Uncleaned /\ Rest
  BY <1>30, ZenonT(20) DEF P!Uncleaned
<1>25. CASE ((P!PollLeaving \/ P!PollDiscarded \/ P!PollFailureCleanup \/ P!PollResult
            \/ P!PollPublished) /\ Polled) \/ ErrorKept \/ ErrorCleans
  BY <1>25, ZenonT(20) DEF P!PollLeaving, P!PollDiscarded, P!PollFailureCleanup, ErrorKept,
     ErrorCleans, P!PollResult, P!PollPublished, Polled
<1>20. CASE P!ChooseRoots \/ P!ResolveConflicts
  <2>1. /\ UNCHANGED <<cancel, retained, published, completed, nav, forFailure, modal, left, released>>
        /\ error' = FALSE \/ error' = error
    BY <1>20, ZenonT(20) DEF P!ChooseRoots, P!ResolveConflicts
  <2> QED
    BY <2>1, Zenon
<1>26. CASE P!AskConfirmation \/ P!Confirm \/ P!Decline
  BY <1>26, ZenonT(20) DEF P!AskConfirmation, P!Confirm, P!Decline
<1>27. CASE P!RetryCleanup \/ P!Leave
  BY <1>27, ZenonT(20) DEF P!RetryCleanup, P!Leave
<1>28. CASE P!Quit
  <2>1. /\ cancel' = TRUE /\ modal' = FALSE
        /\ UNCHANGED <<error, retained, published, completed, nav, forFailure, left, released>>
    BY <1>28, Zenon DEF P!Quit
  <2> QED
    BY <2>1, Zenon
<1>33. CASE P!QuitTimeout
  <2>1. UNCHANGED Flags
    BY <1>33, Zenon DEF P!QuitTimeout, Flags
  <2> QED
    BY <2>1, <1>0
<1>31. CASE P!QuitCleans
  BY <1>31, ZenonT(20) DEF P!QuitCleans
<1>32. CASE P!QuitEnds
  BY <1>32, ZenonT(20) DEF P!QuitEnds
<1>29. CASE P!Elsewhere
  BY <1>29, ZenonT(20) DEF P!Elsewhere
<1> QED
  BY <1>1, <1>2, <1>3, <1>4, <1>5, <1>6, <1>7, <1>8, <1>9, <1>10, <1>11, <1>12, <1>13, <1>14,
     <1>15, <1>16, <1>17, <1>18, <1>19, <1>20, <1>21, <1>22, <1>23, <1>24, <1>25, <1>26, <1>27,
     <1>28, <1>29, <1>30, <1>31, <1>32, <1>33,
     WorkerCases, PollErrorCases
  DEF P!Next, P!WorkerStep, P!Worker, P!User, P!Shutdown, P!Poll, Polled

LEMMA BoundTypesStep == ASSUME PackIInv, P!Next PROVE BoundTypes'
<1> USE DEF PackIInv, BoundTypes, Ticks, JobShape, StepTypes, PlainTypes
<1>1. CASE GivesUp
  BY <1>1, BoundsAssumption, SMTT(20) DEF GivesUp
<1>2. CASE (P!PlanBegin \/ P!PlanCopies \/ P!PlanCleansUp \/ P!PlanReleases) /\ Rest
  BY <1>2, BoundsAssumption, SMTT(20) DEF P!PlanBegin, P!PlanCopies, P!PlanCleansUp, P!PlanReleases
<1>3. CASE (P!SelectAuthority /\ Rest) \/ Selects
  BY <1>3, BoundsAssumption, SMTT(20) DEF P!SelectAuthority, Selects
<1>4. CASE (P!ConflictRequest /\ Rest) \/ RoundRefused \/ RoundBegins
  BY <1>4, BoundsAssumption, SMTT(20) DEF P!ConflictRequest, RoundRefused, RoundBegins
<1>5. CASE AsksRoots \/ Looks
  BY <1>5, BoundsAssumption, SMTT(20) DEF AsksRoots, Looks
<1>6. CASE LeavesOpen \/ Closes
  BY <1>6, BoundsAssumption, SMTT(20) DEF LeavesOpen, Closes
<1>7. CASE Finalizes \/ Exchanges
  BY <1>7, BoundsAssumption, SMTT(20) DEF Finalizes, Exchanges
<1>8. CASE (P!Prepare /\ Rest) \/ Applies
  BY <1>8, BoundsAssumption, SMTT(20) DEF P!Prepare, Applies
<1>9. CASE Renames \/ RenamesNot
  BY <1>9, BoundsAssumption, SMTT(20) DEF Renames, RenamesNot
<1>10. CASE Finds \/ FindsNot \/ Commits
  BY <1>10, BoundsAssumption, SMTT(20) DEF Finds, FindsNot, Commits
<1>11. CASE Verifies \/ VerifiesNot
  BY <1>11, BoundsAssumption, SMTT(20) DEF Verifies, VerifiesNot
<1>12. CASE FinishGoes \/ FinishStays \/ Releases
  BY <1>12, BoundsAssumption, SMTT(20) DEF FinishGoes, FinishStays, Releases
<1>13. CASE (P!Deliver \/ P!Fails \/ P!Refused) /\ Rest
  BY <1>13, Lifecycles, BoundsAssumption, SMTT(20) DEF P!Deliver, P!Fails, P!Refused
<1>14. CASE (P!CleanupBegins \/ P!DiscardRemoves \/ P!DiscardReleases) /\ Rest
  BY <1>14, Lifecycles, BoundsAssumption, SMTT(20) DEF P!CleanupBegins, P!DiscardRemoves,
     P!DiscardReleases
<1>15. CASE P!Cleaned /\ Rest
  BY <1>15, BoundsAssumption, SMTT(20) DEF P!Cleaned
<1>16. CASE (P!Uncleaned \/ P!ThreadEnds) /\ Rest
  BY <1>16, BoundsAssumption, SMTT(20) DEF P!Uncleaned, P!ThreadEnds
<1>17. CASE ((P!PollLeaving \/ P!PollDiscarded \/ P!PollFailureCleanup \/ P!PollResult
            \/ P!PollPublished) /\ Polled) \/ ErrorKept \/ ErrorCleans
  BY <1>17, BoundsAssumption, SMTT(20) DEF P!PollLeaving, P!PollDiscarded, P!PollFailureCleanup,
     ErrorKept, ErrorCleans, P!PollResult, P!PollPublished, Polled
<1>18. CASE P!ChooseRoots \/ P!ResolveConflicts \/ P!AskConfirmation \/ P!Confirm \/ P!Decline
  BY <1>18, BoundsAssumption, SMTT(20) DEF P!ChooseRoots, P!ResolveConflicts, P!AskConfirmation,
     P!Confirm, P!Decline
<1>19. CASE P!RetryCleanup \/ P!Leave
  BY <1>19, BoundsAssumption, SMTT(20) DEF P!RetryCleanup, P!Leave
<1>20. CASE P!Quit \/ P!QuitTimeout \/ P!QuitCleans \/ P!QuitEnds
  BY <1>20, Lifecycles, BoundsAssumption, SMTT(20) DEF P!Quit, P!QuitTimeout, P!QuitCleans,
     P!QuitEnds
<1>21. CASE P!Elsewhere
  BY <1>21, BoundsAssumption, SMTT(20) DEF P!Elsewhere
<1> QED
  BY <1>1, <1>2, <1>3, <1>4, <1>5, <1>6, <1>7, <1>8, <1>9, <1>10, <1>11, <1>12, <1>13, <1>14,
     <1>15, <1>16, <1>17, <1>18, <1>19, <1>20, <1>21,
     WorkerCases, PollErrorCases
  DEF P!Next, P!WorkerStep, P!Worker, P!User, P!Shutdown, P!Poll, Polled

LEMMA DataTypesStep == ASSUME PackIInv, P!Next PROVE DataTypes'
<1> USE DEF PackIInv, DataTypes, P!Id, PlainTypes, StepTypes, P!Job, P!Step, JobShape, Starting,
       Resolving, Publishing, Finishing, Cleaners
<1>1. CASE GivesUp
  <2>1. staged' \in Staged
    BY <1>1, WorkFacts DEF GivesUp
  <2> QED
    BY <1>1, <2>1 DEF GivesUp
<1>2. CASE (P!PlanBegin \/ P!PlanCopies \/ P!PlanCleansUp \/ P!PlanReleases) /\ Rest
  BY <1>2, DataFacts, WorkFacts, SMTT(20) DEF P!PlanBegin, P!PlanCopies, P!PlanCleansUp,
     P!PlanReleases
<1>3. CASE (P!SelectAuthority /\ Rest) \/ Selects
  BY <1>3, DataFacts, WorkFacts, SMTT(20) DEF P!SelectAuthority, Selects
<1>4. CASE RoundBegins
  <2>1. P!Effective \in SUBSET P!Id
    BY <1>4, EffectiveRoots DEF RoundBegins, RoundShape
  <2>2. work' \in Workspace
    BY <1>4, <2>1, DataFacts DEF RoundBegins
  <2> QED
    BY <1>4, <2>2 DEF RoundBegins
<1>5. CASE (P!ConflictRequest /\ Rest) \/ RoundRefused
  BY <1>5, DataFacts, WorkFacts, SMTT(20) DEF P!ConflictRequest, RoundRefused
<1>6. CASE Looks
  <2>1. P!Originals \in SUBSET Source
    BY DEF P!Originals
  <2>2. work' \in Workspace
    BY <1>6, <2>1, DataFacts DEF Looks
  <2> QED
    BY <1>6, <2>1, <2>2 DEF Looks
<1>7. CASE AsksRoots
  BY <1>7, DataFacts, WorkFacts, SMTT(20) DEF AsksRoots
<1>8. CASE LeavesOpen
  <2>1. PICK bad \in SUBSET work.roots, blocked \in BOOLEAN : res' = P!Accumulate(P!Unresolved(bad, blocked))
    BY <1>8 DEF LeavesOpen
  <2>2. P!Unresolved(bad, blocked) \in Result
    BY WorkFacts
  <2>3. res' \in Result
    BY <1>8, <2>1, <2>2, Accumulating DEF LeavesOpen
  <2> QED
    BY <1>8, <2>3, ResultFacts DEF LeavesOpen
<1>9. CASE Closes
  BY <1>9, DataFacts, WorkFacts, SMTT(20) DEF Closes
<1>10. CASE Exchanges
  <2>1. res' \in Result
    BY <1>10, WorkFacts, Accumulating DEF Exchanges
  <2>2. staged' \in Staged
    BY <1>10, WorkFacts DEF Exchanges
  <2> QED
    BY <1>10, <2>1, <2>2, ResultFacts DEF Exchanges
<1>11. CASE Finalizes
  BY <1>11, DataFacts, WorkFacts, SMTT(20) DEF Finalizes
<1>12. CASE (P!Prepare /\ Rest) \/ Applies
  BY <1>12, DataFacts, WorkFacts, SMTT(20) DEF P!Prepare, Applies
<1>13. CASE Renames \/ RenamesNot
  BY <1>13, DataFacts, WorkFacts, SMTT(20) DEF Renames, RenamesNot
<1>14. CASE Finds \/ FindsNot \/ Commits
  BY <1>14, DataFacts, WorkFacts, SMTT(20) DEF Finds, FindsNot, Commits
<1>15. CASE Verifies \/ VerifiesNot
  BY <1>15, DataFacts, WorkFacts, SMTT(20) DEF Verifies, VerifiesNot
<1>16. CASE FinishGoes \/ FinishStays \/ Releases
  BY <1>16, DataFacts, WorkFacts, SMTT(20) DEF FinishGoes, FinishStays, Releases
<1>17. CASE (P!Deliver \/ P!Fails \/ P!Refused) /\ Rest
  BY <1>17, Lifecycles, DataFacts, WorkFacts, SMTT(20) DEF P!Deliver, P!Fails, P!Refused
<1>18. CASE P!CleanupBegins /\ Rest
  <2>1. res' \in Result /\ work' \in Workspace /\ base' \in SUBSET Source
      /\ removed' \in SUBSET P!Id /\ replaced' \in SUBSET (P!Id \X P!Id) /\ UNCHANGED <<pending, preview, staged, choice, job>>
      /\ pc' \notin {"authority", "materialize"}
    BY <1>18, DataFacts, ResultFacts DEF P!CleanupBegins
  <2>2. job # "resolve"
    BY <1>18 DEF P!CleanupBegins
  <2> QED
    BY <2>1, <2>2
<1>19. CASE (P!DiscardRemoves \/ P!DiscardReleases) /\ Rest
  BY <1>19, DataFacts, WorkFacts, SMTT(20) DEF P!DiscardRemoves, P!DiscardReleases
<1>20. CASE P!Cleaned /\ Rest
  BY <1>20, DataFacts, WorkFacts, SMTT(20) DEF P!Cleaned
<1>21. CASE (P!Uncleaned \/ P!ThreadEnds) /\ Rest
  BY <1>21, DataFacts, WorkFacts, SMTT(20) DEF P!Uncleaned, P!ThreadEnds
<1>22. CASE ((P!PollLeaving \/ P!PollDiscarded \/ P!PollFailureCleanup \/ P!PollResult
            \/ P!PollPublished) /\ Polled) \/ ErrorKept \/ ErrorCleans
  BY <1>22, DataFacts, WorkFacts, SMTT(20) DEF P!PollLeaving, P!PollDiscarded,
     P!PollFailureCleanup, ErrorKept, ErrorCleans, P!PollResult, P!PollPublished, Polled
<1>23. CASE P!ResolveConflicts
  <2>1. res.bad \in SUBSET P!Id
    BY ResultFacts
  <2> QED
    BY <1>23, <2>1 DEF P!ResolveConflicts
<1>24. CASE P!ChooseRoots \/ P!AskConfirmation \/ P!Confirm \/ P!Decline
  BY <1>24, DataFacts, WorkFacts, SMTT(20) DEF P!ChooseRoots, P!AskConfirmation, P!Confirm,
     P!Decline
<1>25. CASE P!RetryCleanup \/ P!Leave
  BY <1>25, DataFacts, WorkFacts, SMTT(20) DEF P!RetryCleanup, P!Leave
<1>26. CASE P!Quit \/ P!QuitTimeout \/ P!QuitCleans \/ P!QuitEnds
  BY <1>26, Lifecycles, DataFacts, WorkFacts, SMTT(20) DEF P!Quit, P!QuitTimeout, P!QuitCleans,
     P!QuitEnds
<1>27. CASE P!Elsewhere
  BY <1>27, DataFacts, WorkFacts, SMTT(20) DEF P!Elsewhere
<1> QED
  BY <1>1, <1>2, <1>3, <1>4, <1>5, <1>6, <1>7, <1>8, <1>9, <1>10, <1>11, <1>12, <1>13, <1>14,
     <1>15, <1>16, <1>17, <1>18, <1>19, <1>20, <1>21, <1>22, <1>23, <1>24, <1>25, <1>26, <1>27,
     WorkerCases, PollErrorCases
  DEF P!Next, P!WorkerStep, P!Worker, P!User, P!Shutdown, P!Poll, Polled

LEMMA JobShapeStep == ASSUME PackIInv, P!Next PROVE JobShape'
<1> USE DEF PackIInv, JobShape, PlainTypes, StepTypes, P!Job, P!Step, Starting, Resolving,
       Publishing, Finishing, Cleaners
<1>1. CASE GivesUp
  BY <1>1, SMTT(20) DEF GivesUp
<1>2. CASE (P!PlanBegin \/ P!PlanCopies \/ P!PlanCleansUp \/ P!PlanReleases) /\ Rest
  BY <1>2, SMTT(20) DEF P!PlanBegin, P!PlanCopies, P!PlanCleansUp, P!PlanReleases
<1>3. CASE (P!SelectAuthority /\ Rest) \/ Selects
  BY <1>3, SMTT(20) DEF P!SelectAuthority, Selects
<1>4. CASE (P!ConflictRequest /\ Rest) \/ RoundRefused \/ RoundBegins
  BY <1>4, SMTT(20) DEF P!ConflictRequest, RoundRefused, RoundBegins
<1>5. CASE AsksRoots \/ Looks
  BY <1>5, SMTT(20) DEF AsksRoots, Looks
<1>6. CASE LeavesOpen \/ Closes
  BY <1>6, SMTT(20) DEF LeavesOpen, Closes
<1>7. CASE Finalizes \/ Exchanges
  BY <1>7, SMTT(20) DEF Finalizes, Exchanges
<1>8. CASE (P!Prepare /\ Rest) \/ Applies
  BY <1>8, SMTT(20) DEF P!Prepare, Applies
<1>9. CASE Renames \/ RenamesNot
  BY <1>9, SMTT(20) DEF Renames, RenamesNot
<1>10. CASE Finds \/ FindsNot \/ Commits
  BY <1>10, SMTT(20) DEF Finds, FindsNot, Commits
<1>11. CASE Verifies \/ VerifiesNot
  BY <1>11, SMTT(20) DEF Verifies, VerifiesNot
<1>12. CASE FinishGoes \/ FinishStays \/ Releases
  BY <1>12, SMTT(20) DEF FinishGoes, FinishStays, Releases
<1>13. CASE (P!Deliver \/ P!Fails \/ P!Refused) /\ Rest
  BY <1>13, Lifecycles, SMTT(20) DEF P!Deliver, P!Fails, P!Refused
<1>14. CASE (P!CleanupBegins \/ P!DiscardRemoves \/ P!DiscardReleases) /\ Rest
  BY <1>14, Lifecycles, SMTT(20) DEF P!CleanupBegins, P!DiscardRemoves, P!DiscardReleases
<1>15. CASE P!Cleaned /\ Rest
  BY <1>15, SMTT(20) DEF P!Cleaned
<1>16. CASE (P!Uncleaned \/ P!ThreadEnds) /\ Rest
  BY <1>16, SMTT(20) DEF P!Uncleaned, P!ThreadEnds
<1>17. CASE ((P!PollLeaving \/ P!PollDiscarded \/ P!PollFailureCleanup \/ P!PollResult
            \/ P!PollPublished) /\ Polled) \/ ErrorKept \/ ErrorCleans
  BY <1>17, SMTT(20) DEF P!PollLeaving, P!PollDiscarded, P!PollFailureCleanup, ErrorKept,
     ErrorCleans, P!PollResult, P!PollPublished, Polled
<1>18. CASE P!ChooseRoots \/ P!ResolveConflicts \/ P!AskConfirmation \/ P!Confirm \/ P!Decline
  BY <1>18, SMTT(20) DEF P!ChooseRoots, P!ResolveConflicts, P!AskConfirmation, P!Confirm, P!Decline
<1>19. CASE P!RetryCleanup \/ P!Leave
  BY <1>19, SMTT(20) DEF P!RetryCleanup, P!Leave
<1>20. CASE P!Quit \/ P!QuitTimeout \/ P!QuitCleans \/ P!QuitEnds
  BY <1>20, Lifecycles, SMTT(20) DEF P!Quit, P!QuitTimeout, P!QuitCleans, P!QuitEnds
<1>21. CASE P!Elsewhere
  BY <1>21, SMTT(20) DEF P!Elsewhere
<1> QED
  BY <1>1, <1>2, <1>3, <1>4, <1>5, <1>6, <1>7, <1>8, <1>9, <1>10, <1>11, <1>12, <1>13, <1>14,
     <1>15, <1>16, <1>17, <1>18, <1>19, <1>20, <1>21,
     WorkerCases, PollErrorCases
  DEF P!Next, P!WorkerStep, P!Worker, P!User, P!Shutdown, P!Poll, Polled

LEMMA PlanShapeStep == ASSUME PackIInv, P!Next PROVE PlanShape'
<1> USE DEF PackIInv, PlanShape, PlainTypes, PlaceTypes, StepTypes, P!Job, P!Step, Asking,
       JobShape, Starting, Resolving, Publishing, Finishing, Cleaners
<1>1. CASE GivesUp
  BY <1>1, SMTT(20) DEF GivesUp
<1>2. CASE (P!PlanBegin \/ P!PlanCopies \/ P!PlanCleansUp \/ P!PlanReleases) /\ Rest
  BY <1>2, SMTT(20) DEF P!PlanBegin, P!PlanCopies, P!PlanCleansUp, P!PlanReleases
<1>3. CASE (P!SelectAuthority /\ Rest) \/ Selects
  BY <1>3, SMTT(20) DEF P!SelectAuthority, Selects
<1>4. CASE (P!ConflictRequest /\ Rest) \/ RoundRefused \/ RoundBegins
  BY <1>4, SMTT(20) DEF P!ConflictRequest, RoundRefused, RoundBegins
<1>5. CASE AsksRoots \/ Looks
  BY <1>5, SMTT(20) DEF AsksRoots, Looks
<1>6. CASE LeavesOpen \/ Closes
  BY <1>6, SMTT(20) DEF LeavesOpen, Closes
<1>7. CASE Finalizes \/ Exchanges
  BY <1>7, SMTT(20) DEF Finalizes, Exchanges
<1>8. CASE (P!Prepare /\ Rest) \/ Applies
  BY <1>8, SMTT(20) DEF P!Prepare, Applies
<1>9. CASE Renames \/ RenamesNot
  BY <1>9, SMTT(20) DEF Renames, RenamesNot
<1>10. CASE Finds \/ FindsNot \/ Commits
  BY <1>10, SMTT(20) DEF Finds, FindsNot, Commits
<1>11. CASE Verifies \/ VerifiesNot
  BY <1>11, SMTT(20) DEF Verifies, VerifiesNot
<1>12. CASE FinishGoes \/ FinishStays \/ Releases
  BY <1>12, SMTT(20) DEF FinishGoes, FinishStays, Releases
<1>13. CASE (P!Deliver \/ P!Fails \/ P!Refused) /\ Rest
  BY <1>13, Lifecycles, SMTT(20) DEF P!Deliver, P!Fails, P!Refused
<1>14. CASE (P!CleanupBegins \/ P!DiscardRemoves \/ P!DiscardReleases) /\ Rest
  BY <1>14, Lifecycles, SMTT(20) DEF P!CleanupBegins, P!DiscardRemoves, P!DiscardReleases
<1>15. CASE P!Cleaned /\ Rest
  BY <1>15, SMTT(20) DEF P!Cleaned
<1>16. CASE (P!Uncleaned \/ P!ThreadEnds) /\ Rest
  BY <1>16, SMTT(20) DEF P!Uncleaned, P!ThreadEnds
<1>17. CASE ((P!PollLeaving \/ P!PollDiscarded \/ P!PollFailureCleanup \/ P!PollResult
            \/ P!PollPublished) /\ Polled) \/ ErrorKept \/ ErrorCleans
  BY <1>17, SMTT(20) DEF P!PollLeaving, P!PollDiscarded, P!PollFailureCleanup, ErrorKept,
     ErrorCleans, P!PollResult, P!PollPublished, Polled
<1>18. CASE P!AskConfirmation \/ P!Confirm \/ P!Decline
  BY <1>18, SMTT(20) DEF P!AskConfirmation, P!Confirm, P!Decline
<1>22. CASE P!ChooseRoots \/ P!ResolveConflicts
  <2>1. phase \in {"roots", "conflicts"}
    BY <1>22, Zenon DEF P!ChooseRoots, P!ResolveConflicts
  <2>2. ~committed
    BY <2>1 DEF StagedIsShown, Matches, RoutedOnce
  <2> QED
    BY <1>22, <2>2, SMTT(20) DEF P!ChooseRoots, P!ResolveConflicts
<1>19. CASE P!RetryCleanup \/ P!Leave
  BY <1>19, SMTT(20) DEF P!RetryCleanup, P!Leave
<1>20. CASE P!Quit \/ P!QuitTimeout \/ P!QuitCleans \/ P!QuitEnds
  BY <1>20, Lifecycles, SMTT(20) DEF P!Quit, P!QuitTimeout, P!QuitCleans, P!QuitEnds
<1>21. CASE P!Elsewhere
  BY <1>21, SMTT(20) DEF P!Elsewhere
<1> QED
  BY <1>1, <1>2, <1>3, <1>4, <1>5, <1>6, <1>7, <1>8, <1>9, <1>10, <1>11, <1>12, <1>13, <1>14,
     <1>15, <1>16, <1>17, <1>18, <1>19, <1>20, <1>21, <1>22,
     WorkerCases, PollErrorCases
  DEF P!Next, P!WorkerStep, P!Worker, P!User, P!Shutdown, P!Poll, Polled

LEMMA OwnerShapeStep == ASSUME PackIInv, P!Next PROVE OwnerShape'
<1> USE DEF PackIInv, OwnerShape, PlainTypes, PlaceTypes, StepTypes, P!Job, P!Step, Asking,
       JobShape, PlanShape, Ended, Resting, P!Phase, Starting, Resolving, Publishing, Finishing,
       Cleaners
<1>1. CASE GivesUp
  BY <1>1, SMTT(20) DEF GivesUp
<1>2. CASE (P!PlanBegin \/ P!PlanCopies \/ P!PlanCleansUp \/ P!PlanReleases) /\ Rest
  BY <1>2, SMTT(20) DEF P!PlanBegin, P!PlanCopies, P!PlanCleansUp, P!PlanReleases
<1>3. CASE (P!SelectAuthority /\ Rest) \/ Selects
  BY <1>3, SMTT(20) DEF P!SelectAuthority, Selects
<1>4. CASE (P!ConflictRequest /\ Rest) \/ RoundRefused \/ RoundBegins
  BY <1>4, SMTT(20) DEF P!ConflictRequest, RoundRefused, RoundBegins
<1>5. CASE AsksRoots \/ Looks
  BY <1>5, SMTT(20) DEF AsksRoots, Looks
<1>6. CASE LeavesOpen \/ Closes
  BY <1>6, SMTT(20) DEF LeavesOpen, Closes
<1>7. CASE Finalizes \/ Exchanges
  BY <1>7, SMTT(20) DEF Finalizes, Exchanges
<1>8. CASE (P!Prepare /\ Rest) \/ Applies
  BY <1>8, SMTT(20) DEF P!Prepare, Applies
<1>9. CASE Renames \/ RenamesNot
  BY <1>9, SMTT(20) DEF Renames, RenamesNot
<1>10. CASE Finds \/ FindsNot \/ Commits
  BY <1>10, SMTT(20) DEF Finds, FindsNot, Commits
<1>11. CASE Verifies \/ VerifiesNot
  BY <1>11, SMTT(20) DEF Verifies, VerifiesNot
<1>12. CASE FinishGoes \/ FinishStays \/ Releases
  BY <1>12, SMTT(20) DEF FinishGoes, FinishStays, Releases
<1>13. CASE (P!Fails \/ P!Refused) /\ Rest
  <2>1. /\ UNCHANGED <<P!Disk, P!Outcome, hold, cancel, manifest, P!Screen, completed, job>>
        /\ pc' = "ending" /\ pc \in {"raise", "refused"}
    BY <1>13, Zenon DEF P!Fails, P!Refused
  <2>2. \/ /\ retained' <=> P!Lifecycle \in {"committed", "uncertain"}
           /\ published' <=> P!Lifecycle = "committed"
        \/ UNCHANGED <<published, retained>> /\ job # "publish"
    BY <1>13, Zenon DEF P!Fails, P!Refused
  <2>3. CASE UNCHANGED <<published, retained>> /\ job # "publish"
    BY <2>1, <2>3, SMTT(20)
  <2>4. CASE (retained' <=> hold /\ (committed \/ pub = "uncertain")) /\ (published' <=> hold /\ committed)
    BY <2>1, <2>4, SMTT(20)
  <2> QED
    BY <2>2, <2>3, <2>4, Lifecycles
<1>15. CASE P!Deliver /\ Rest
  BY <1>15, SMTT(20) DEF P!Deliver
<1>16. CASE (P!CleanupBegins \/ P!DiscardRemoves \/ P!DiscardReleases) /\ Rest
  BY <1>16, Lifecycles, SMTT(20) DEF P!CleanupBegins, P!DiscardRemoves, P!DiscardReleases
<1>17. CASE P!Cleaned /\ Rest
  BY <1>17, SMTT(20) DEF P!Cleaned
<1>18. CASE (P!Uncleaned \/ P!ThreadEnds) /\ Rest
  BY <1>18, SMTT(20) DEF P!Uncleaned, P!ThreadEnds
<1>19. CASE ((P!PollLeaving \/ P!PollDiscarded \/ P!PollFailureCleanup \/ P!PollResult
            \/ P!PollPublished) /\ Polled) \/ ErrorKept \/ ErrorCleans
  BY <1>19, SMTT(20) DEF P!PollLeaving, P!PollDiscarded, P!PollFailureCleanup, ErrorKept,
     ErrorCleans, P!PollResult, P!PollPublished, Polled
<1>20. CASE P!ChooseRoots \/ P!ResolveConflicts \/ P!AskConfirmation \/ P!Confirm \/ P!Decline
  BY <1>20, SMTT(20) DEF P!ChooseRoots, P!ResolveConflicts, P!AskConfirmation, P!Confirm, P!Decline
<1>21. CASE P!RetryCleanup \/ P!Leave
  BY <1>21, SMTT(20) DEF P!RetryCleanup, P!Leave
<1>22. CASE P!QuitCleans
  <2>1. /\ UNCHANGED <<P!Disk, manifest, P!Resolution, P!Outcome, hold, session, cancel, pending, error, published,
                       completed, nav, forFailure, phase>>
        /\ quitting = "waiting" /\ pc = "dead"
    BY <1>22, Zenon DEF P!QuitCleans
  <2>2. CASE P!Lifecycle = "precommit" \/ (P!Lifecycle = "committed" /\ retained)
    <3>1. quitting' = "cleaning" /\ job' = "shutdown" /\ pc' = "cleanup" /\ UNCHANGED <<retained, released>>
      BY <1>22, <2>2, Zenon DEF P!QuitCleans
    <3> QED
      BY <2>1, <3>1, SMTT(20)
  <2>3. CASE ~(P!Lifecycle = "precommit" \/ (P!Lifecycle = "committed" /\ retained))
    <3>1. /\ quitting' = "over" /\ UNCHANGED P!Thread
          /\ (retained => retained')
          /\ (released' => ~retained /\ P!Lifecycle # "uncertain")
      BY <1>22, <2>3, Zenon DEF P!QuitCleans
    <3>2. CASE released'
      <4>1. ~retained /\ P!Lifecycle \in {"none", "committed", "discarded"}
        BY <2>3, <3>1, <3>2, Lifecycles
      <4>2. Ended
        BY <2>1, <4>1, Lifecycles, SMTT(20)
      <4> QED
        BY <2>1, <3>1, <4>1, <4>2, SMTT(20)
    <3>3. CASE ~released'
      BY <2>1, <3>1, <3>3, SMTT(20)
    <3> QED
      BY <3>2, <3>3
  <2> QED
    BY <2>2, <2>3
<1>23. CASE P!QuitEnds
  <2>1. /\ UNCHANGED <<P!Disk, manifest, P!Resolution, P!Outcome, hold, session, cancel, pending, error, published,
                       completed, nav, forFailure, P!Thread, phase>>
        /\ quitting = "cleaning" /\ quitting' = "over" /\ (retained => retained')
    BY <1>23, Zenon DEF P!QuitEnds
  <2>2. CASE P!Idle /\ ~retained
    BY <1>23, <2>1, <2>2, SMTT(20)
  <2>3. CASE ~(P!Idle /\ ~retained)
    <3>1. released' => released
      BY <1>23, <2>3, Zenon DEF P!QuitEnds
    <3> QED
      BY <2>1, <3>1, SMTT(20)
  <2> QED
    BY <2>2, <2>3
<1>24. CASE P!Quit \/ P!QuitTimeout
  BY <1>24, SMTT(20) DEF P!Quit, P!QuitTimeout
<1>25. CASE P!Elsewhere
  BY <1>25, SMTT(20) DEF P!Elsewhere
<1> QED
  BY <1>1, <1>2, <1>3, <1>4, <1>5, <1>6, <1>7, <1>8, <1>9, <1>10, <1>11, <1>12, <1>13,
     <1>15, <1>16, <1>17, <1>18, <1>19, <1>20, <1>21, <1>22, <1>23, <1>24, <1>25,
     WorkerCases, PollErrorCases
  DEF P!Next, P!WorkerStep, P!Worker, P!User, P!Shutdown, P!Poll, Polled

LEMMA RoundShapeStep == ASSUME PackIInv, P!Next PROVE RoundShape'
<1> USE DEF PackIInv, RoundShape, PlainTypes, PlaceTypes, StepTypes, P!Job, P!Step, JobShape,
       DataTypes, P!Nothing, P!Originals, P!Phase, Starting, Resolving, Publishing, Finishing,
       Cleaners
<1>1. CASE GivesUp
  BY <1>1, SMTT(20) DEF GivesUp
<1>2. CASE (P!PlanBegin \/ P!PlanCopies \/ P!PlanCleansUp \/ P!PlanReleases) /\ Rest
  BY <1>2, SMTT(20) DEF P!PlanBegin, P!PlanCopies, P!PlanCleansUp, P!PlanReleases
<1>3. CASE (P!SelectAuthority /\ Rest) \/ Selects
  BY <1>3, SMTT(20) DEF P!SelectAuthority, Selects
<1>4. CASE (P!ConflictRequest /\ Rest) \/ RoundRefused \/ RoundBegins
  BY <1>4, SMTT(20) DEF P!ConflictRequest, RoundRefused, RoundBegins
<1>5. CASE AsksRoots \/ Looks
  BY <1>5, SMTT(20) DEF AsksRoots, Looks
<1>6. CASE LeavesOpen
  <2>1. PICK bad \in SUBSET work.roots, blocked \in BOOLEAN : res' = P!Accumulate(P!Unresolved(bad, blocked))
    BY <1>6 DEF LeavesOpen
  <2> DEFINE r == P!Unresolved(bad, blocked)
  <2>2. r \in Result /\ r.kind = "unresolved" /\ r.roots = work.roots /\ r.bad = bad /\ r.removed = {} /\ r.replaced = {}
    <3>1. work \in Workspace
      BY DEF PackIInv, DataTypes
    <3> HIDE DEF PackIInv
    <3>2. bad \in SUBSET work.roots /\ blocked \in BOOLEAN
      OBVIOUS
    <3>3. /\ P!Unresolved(bad, blocked) \in Result /\ P!Unresolved(bad, blocked).kind = "unresolved"
          /\ P!Unresolved(bad, blocked).roots = work.roots /\ P!Unresolved(bad, blocked).bad = bad
          /\ P!Unresolved(bad, blocked).removed = {} /\ P!Unresolved(bad, blocked).replaced = {}
      BY <3>1, <3>2, WorkFacts
    <3> QED
      BY <3>3
  <2> HIDE DEF r
  <2>3. /\ res'.kind = "unresolved" /\ res'.roots = work.roots
        /\ job # "resolve" => removed' = {} /\ replaced' = {}
    BY <1>6, <2>1, <2>2, Accumulating DEF LeavesOpen, r
  <2> QED
    BY <1>6, <2>3 DEF LeavesOpen
<1>7. CASE Closes
  BY <1>7, SMTT(20) DEF Closes
<1>8. CASE Exchanges
  <2>1. P!Resolved \in Result /\ P!Resolved.kind = "resolved" /\ P!Resolved.removed = {} /\ P!Resolved.replaced = {}
    BY WorkFacts
  <2>2. res'.kind = "resolved" /\ (job # "resolve" => removed' = {} /\ replaced' = {})
    BY <1>8, <2>1, Accumulating DEF Exchanges
  <2> QED
    BY <1>8, <2>2 DEF Exchanges
<1>9. CASE Finalizes
  BY <1>9, SMTT(20) DEF Finalizes
<1>10. CASE (P!Prepare /\ Rest) \/ Applies
  BY <1>10, SMTT(20) DEF P!Prepare, Applies
<1>11. CASE Renames \/ RenamesNot
  BY <1>11, SMTT(20) DEF Renames, RenamesNot
<1>12. CASE Finds \/ FindsNot \/ Commits
  BY <1>12, SMTT(20) DEF Finds, FindsNot, Commits
<1>13. CASE Verifies \/ VerifiesNot
  BY <1>13, SMTT(20) DEF Verifies, VerifiesNot
<1>14. CASE FinishGoes \/ FinishStays \/ Releases
  BY <1>14, SMTT(20) DEF FinishGoes, FinishStays, Releases
<1>15. CASE (P!Deliver \/ P!Fails \/ P!Refused) /\ Rest
  BY <1>15, Lifecycles, SMTT(20) DEF P!Deliver, P!Fails, P!Refused
<1>16. CASE (P!CleanupBegins \/ P!DiscardRemoves \/ P!DiscardReleases) /\ Rest
  BY <1>16, Lifecycles, SMTT(20) DEF P!CleanupBegins, P!DiscardRemoves, P!DiscardReleases
<1>17. CASE P!Cleaned /\ Rest
  BY <1>17, SMTT(20) DEF P!Cleaned
<1>18. CASE (P!Uncleaned \/ P!ThreadEnds) /\ Rest
  BY <1>18, SMTT(20) DEF P!Uncleaned, P!ThreadEnds
<1>19. CASE ((P!PollLeaving \/ P!PollDiscarded \/ P!PollFailureCleanup \/ P!PollResult
            \/ P!PollPublished) /\ Polled) \/ ErrorKept \/ ErrorCleans
  BY <1>19, SMTT(20) DEF P!PollLeaving, P!PollDiscarded, P!PollFailureCleanup, ErrorKept,
     ErrorCleans, P!PollResult, P!PollPublished, Polled
<1>20. CASE P!ChooseRoots \/ P!ResolveConflicts \/ P!AskConfirmation \/ P!Confirm \/ P!Decline
  BY <1>20, SMTT(20) DEF P!ChooseRoots, P!ResolveConflicts, P!AskConfirmation, P!Confirm, P!Decline
<1>21. CASE P!RetryCleanup \/ P!Leave
  BY <1>21, SMTT(20) DEF P!RetryCleanup, P!Leave
<1>22. CASE P!Quit \/ P!QuitTimeout \/ P!QuitCleans \/ P!QuitEnds
  BY <1>22, Lifecycles, SMTT(20) DEF P!Quit, P!QuitTimeout, P!QuitCleans, P!QuitEnds
<1>23. CASE P!Elsewhere
  BY <1>23, SMTT(20) DEF P!Elsewhere
<1> QED
  BY <1>1, <1>2, <1>3, <1>4, <1>5, <1>6, <1>7, <1>8, <1>9, <1>10, <1>11, <1>12, <1>13, <1>14,
     <1>15, <1>16, <1>17, <1>18, <1>19, <1>20, <1>21, <1>22, <1>23,
     WorkerCases, PollErrorCases
  DEF P!Next, P!WorkerStep, P!Worker, P!User, P!Shutdown, P!Poll, Polled

LEMMA ResultShapeStep == ASSUME PackIInv, P!Next PROVE ResultShape'
<1> USE DEF PackIInv, ResultShape, RoundShape, PlainTypes, PlaceTypes, StepTypes, P!Job, P!Step,
       JobShape, DataTypes, P!Nothing, P!Originals, P!Phase, Starting, Resolving, Publishing,
       Finishing, Cleaners
<1>1. CASE GivesUp
  BY <1>1, SMTT(20) DEF GivesUp, Accounted, Told, Dom, Known, Answered
<1>2. CASE (P!PlanBegin \/ P!PlanCopies \/ P!PlanCleansUp \/ P!PlanReleases) /\ Rest
  BY <1>2, SMTT(20) DEF P!PlanBegin, P!PlanCopies, P!PlanCleansUp, P!PlanReleases, Accounted,
     Told, Dom, Known, Answered
<1>3. CASE Selects
  <2>1. /\ res'.kind = "none" /\ pc' = "resolving" /\ pc = "materialize" /\ job = "select"
        /\ UNCHANGED <<pending, preview, manifest, job>>
    BY <1>3 DEF Selects
  <2>2. pending.kind # "resolved" /\ preview.kind # "resolved"
    BY <2>1 DEF RoutedOnce, Asks
  <2> QED
    BY <2>1, <2>2
<1>4. CASE P!SelectAuthority /\ Rest
  BY <1>4, SMTT(20) DEF P!SelectAuthority, Accounted, Told, Dom, Known, Answered
<1>5. CASE RoundBegins
  <2>1. P!Effective \in SUBSET P!Id /\ res.roots \subseteq P!Effective \cup DOMAIN choice
    BY <1>5, EffectiveRoots DEF RoundBegins
  <2>2. work'.roots = P!Effective
    BY <1>5 DEF RoundBegins
  <2>3. /\ UNCHANGED <<res, removed, replaced, pending, preview, manifest, base, choice, job>>
        /\ pc = "selectors" /\ pc' = "resolving" /\ job = "resolve" /\ P!Originals' = P!Originals
    BY <1>5 DEF RoundBegins
  <2>4. P!Originals \subseteq res.roots \cup removed \cup Dom(replaced)
    BY <2>3 DEF Accounted, Told
  <2>5. P!Originals \subseteq Known'
    BY <2>1, <2>2, <2>3, <2>4 DEF Known, Answered, Dom
  <2> QED
    BY <2>3, <2>5 DEF Accounted, Told
<1>6. CASE (P!ConflictRequest /\ Rest) \/ RoundRefused
  BY <1>6, SMTT(20) DEF P!ConflictRequest, RoundRefused, Accounted, Told, Dom, Known, Answered
<1>7. CASE Looks
  <2>1. /\ pc = "resolving" /\ pc' = "closures" /\ P!Originals' = P!Originals
        /\ UNCHANGED <<res, removed, replaced, pending, preview, manifest, job, choice>>
    BY <1>7 DEF Looks
  <2>2. CASE job = "resolve"
    <3>1. Known' = Known
      BY <1>7, <2>1, <2>2 DEF Looks, Known, Answered
    <3> QED
      BY <2>1, <2>2, <3>1 DEF Accounted, Told
  <2>3. CASE job # "resolve"
    <3>1. work'.roots = P!Originals
      BY <1>7, <2>3 DEF Looks
    <3> QED
      BY <2>1, <3>1 DEF Accounted, Told, Known
  <2> QED
    BY <2>2, <2>3
<1>8. CASE AsksRoots
  BY <1>8, SMTT(20) DEF AsksRoots, Accounted, Told, Dom, Known, Answered
<1>9. CASE LeavesOpen
  <2>1. PICK bad \in SUBSET work.roots, blocked \in BOOLEAN : res' = P!Accumulate(P!Unresolved(bad, blocked))
    BY <1>9 DEF LeavesOpen
  <2> DEFINE r == P!Unresolved(bad, blocked)
  <2>2. r \in Result /\ r.kind = "unresolved" /\ r.roots = work.roots /\ r.bad = bad /\ r.removed = {} /\ r.replaced = {}
    <3>1. work \in Workspace
      BY DEF PackIInv, DataTypes
    <3> HIDE DEF PackIInv
    <3>2. bad \in SUBSET work.roots /\ blocked \in BOOLEAN
      OBVIOUS
    <3>3. /\ P!Unresolved(bad, blocked) \in Result /\ P!Unresolved(bad, blocked).kind = "unresolved"
          /\ P!Unresolved(bad, blocked).roots = work.roots /\ P!Unresolved(bad, blocked).bad = bad
          /\ P!Unresolved(bad, blocked).removed = {} /\ P!Unresolved(bad, blocked).replaced = {}
      BY <3>1, <3>2, WorkFacts
    <3> QED
      BY <3>3
  <2> HIDE DEF r
  <2>3. /\ res' \in Result /\ res'.kind = "unresolved" /\ res'.roots = work.roots
        /\ removed' = res'.removed /\ replaced' = res'.replaced
        /\ job # "resolve" => res' = r
        /\ job = "resolve" => removed \cup Dom(replaced) \cup DOMAIN choice
                                 \subseteq res'.removed \cup Dom(res'.replaced)
    BY <1>9, <2>1, <2>2, Accumulating DEF LeavesOpen, r
  <2>4. /\ pc = "closures" /\ pc' = "deliver" /\ P!Originals' = P!Originals
        /\ UNCHANGED <<pending, preview, manifest, job>>
    BY <1>9 DEF LeavesOpen
  <2>5. job # "resolve" => removed = {} /\ replaced = {}
    BY <2>4
  <2>6. P!Originals \subseteq Known
    BY <2>4
  <2>7. Known \subseteq Told(res')
    BY <2>2, <2>3, <2>5 DEF Known, Told, Answered, Dom
  <2> QED
    BY <2>3, <2>4, <2>6, <2>7 DEF Accounted, Told
<1>10. CASE Closes
  <2>1. PICK graph : /\ work' = [work EXCEPT !.pins = P!Kept(graph)]
                     /\ work.roots # {} => Pins \subseteq graph \cup P!Retired
    BY <1>10 DEF Closes
  <2>2. work'.roots = work.roots /\ work'.pins = P!Kept(graph)
    BY <2>1, WorkFacts
  <2>3. UNCHANGED <<base, res, removed, replaced, pending, preview, manifest, job, choice>>
      /\ pc = "closures" /\ pc' = "finalize" /\ P!Originals' = P!Originals
    BY <1>10 DEF Closes
  <2>4. Known' = Known
    BY <2>2, <2>3 DEF Known, Answered
  <2>5. work.roots # {} => Pins \subseteq P!Kept(graph) \cup Known
    BY <2>1, <2>3 DEF P!Kept, P!Retired, Known
  <2> QED
    BY <2>2, <2>3, <2>4, <2>5 DEF Accounted, Told
<1>11. CASE Exchanges
  <2>1. /\ P!Resolved \in Result /\ P!Resolved.kind = "resolved" /\ P!Resolved.roots = work.roots
        /\ P!Resolved.pins = work.pins /\ P!Resolved.removed = {} /\ P!Resolved.replaced = {}
    BY WorkFacts
  <2>2. /\ res'.kind = "resolved" /\ res'.roots = work.roots /\ res'.pins = work.pins
        /\ removed' = res'.removed /\ replaced' = res'.replaced
        /\ job # "resolve" => res' = P!Resolved
        /\ job = "resolve" => removed \cup Dom(replaced) \cup DOMAIN choice
                                 \subseteq res'.removed \cup Dom(res'.replaced)
    BY <1>11, <2>1, Accumulating DEF Exchanges
  <2>3. UNCHANGED <<base, pending, preview, manifest, job>> /\ pc = "exchange" /\ pc' = "deliver" /\ P!Originals' = P!Originals
    BY <1>11 DEF Exchanges
  <2>4. job # "resolve" => removed = {} /\ replaced = {}
    BY <2>3
  <2>5. /\ P!Originals \subseteq Known
        /\ work.roots # {} => Pins \subseteq work.pins \cup Known
    BY <2>3
  <2>6. Known \subseteq Told(res')
    BY <2>1, <2>2, <2>4 DEF Known, Told, Answered, Dom
  <2>7. Accounted(res)'
    BY <2>2, <2>3, <2>5, <2>6 DEF Accounted
  <2> QED
    BY <2>2, <2>3, <2>7 DEF Accounted, Told
<1>12. CASE Finalizes
  BY <1>12, SMTT(20) DEF Finalizes, Accounted, Told, Dom, Known, Answered
<1>13. CASE (P!Prepare /\ Rest) \/ Applies
  BY <1>13, SMTT(20) DEF P!Prepare, Applies, Accounted, Told, Dom, Known, Answered
<1>14. CASE Renames \/ RenamesNot
  BY <1>14, SMTT(20) DEF Renames, RenamesNot, Accounted, Told, Dom, Known, Answered
<1>15. CASE Finds \/ FindsNot \/ Commits
  BY <1>15, SMTT(20) DEF Finds, FindsNot, Commits, Accounted, Told, Dom, Known, Answered
<1>16. CASE Verifies \/ VerifiesNot
  BY <1>16, SMTT(20) DEF Verifies, VerifiesNot, Accounted, Told, Dom, Known, Answered
<1>17. CASE FinishGoes \/ FinishStays \/ Releases
  BY <1>17, SMTT(20) DEF FinishGoes, FinishStays, Releases, Accounted, Told, Dom, Known, Answered
<1>18. CASE (P!Deliver \/ P!Fails \/ P!Refused) /\ Rest
  BY <1>18, Lifecycles, SMTT(20) DEF P!Deliver, P!Fails, P!Refused, Accounted, Told, Dom, Known,
     Answered
<1>19. CASE (P!CleanupBegins \/ P!DiscardRemoves \/ P!DiscardReleases) /\ Rest
  BY <1>19, Lifecycles, SMTT(20) DEF P!CleanupBegins, P!DiscardRemoves, P!DiscardReleases,
     Accounted, Told, Dom, Known, Answered
<1>20. CASE P!Cleaned /\ Rest
  BY <1>20, SMTT(20) DEF P!Cleaned, Accounted, Told, Dom, Known, Answered
<1>21. CASE (P!Uncleaned \/ P!ThreadEnds) /\ Rest
  BY <1>21, SMTT(20) DEF P!Uncleaned, P!ThreadEnds, Accounted, Told, Dom, Known, Answered
<1>22. CASE ((P!PollLeaving \/ P!PollDiscarded \/ P!PollFailureCleanup \/ P!PollResult
            \/ P!PollPublished) /\ Polled) \/ ErrorKept \/ ErrorCleans
  BY <1>22, SMTT(20) DEF P!PollLeaving, P!PollDiscarded, P!PollFailureCleanup, ErrorKept,
     ErrorCleans, P!PollResult, P!PollPublished, Polled, Accounted, Told, Dom, Known, Answered
<1>23. CASE P!ChooseRoots \/ P!ResolveConflicts \/ P!AskConfirmation \/ P!Confirm \/ P!Decline
  BY <1>23, SMTT(20) DEF P!ChooseRoots, P!ResolveConflicts, P!AskConfirmation, P!Confirm,
     P!Decline, Accounted, Told, Dom, Known, Answered
<1>24. CASE P!RetryCleanup \/ P!Leave
  BY <1>24, SMTT(20) DEF P!RetryCleanup, P!Leave, Accounted, Told, Dom, Known, Answered
<1>25. CASE P!Quit \/ P!QuitTimeout \/ P!QuitCleans \/ P!QuitEnds
  BY <1>25, Lifecycles, SMTT(20) DEF P!Quit, P!QuitTimeout, P!QuitCleans, P!QuitEnds, Accounted,
     Told, Dom, Known, Answered
<1>26. CASE P!Elsewhere
  BY <1>26, SMTT(20) DEF P!Elsewhere, Accounted, Told, Dom, Known, Answered
<1> QED
  BY <1>1, <1>2, <1>3, <1>4, <1>5, <1>6, <1>7, <1>8, <1>9, <1>10, <1>11, <1>12, <1>13, <1>14,
     <1>15, <1>16, <1>17, <1>18, <1>19, <1>20, <1>21, <1>22, <1>23, <1>24, <1>25, <1>26,
     WorkerCases, PollErrorCases
  DEF P!Next, P!WorkerStep, P!Worker, P!User, P!Shutdown, P!Poll, Polled

LEMMA RoutedOnceStep == ASSUME PackIInv, P!Next PROVE RoutedOnce'
<1> USE DEF PackIInv, RoutedOnce, PlainTypes, PlaceTypes, StepTypes, P!Job, P!Step, JobShape,
       Asks, P!Nothing, DataTypes, Result, P!Phase, Starting, Resolving, Publishing, Finishing,
       Cleaners
<1>1. CASE GivesUp
  BY <1>1, SMTT(20) DEF GivesUp
<1>2. CASE (P!PlanBegin \/ P!PlanCopies \/ P!PlanCleansUp \/ P!PlanReleases) /\ Rest
  BY <1>2, SMTT(20) DEF P!PlanBegin, P!PlanCopies, P!PlanCleansUp, P!PlanReleases
<1>3. CASE (P!SelectAuthority /\ Rest) \/ Selects
  BY <1>3, SMTT(20) DEF P!SelectAuthority, Selects
<1>4. CASE (P!ConflictRequest /\ Rest) \/ RoundRefused \/ RoundBegins
  BY <1>4, SMTT(20) DEF P!ConflictRequest, RoundRefused, RoundBegins
<1>5. CASE AsksRoots \/ Looks
  BY <1>5, SMTT(20) DEF AsksRoots, Looks
<1>6. CASE LeavesOpen \/ Closes
  BY <1>6, SMTT(20) DEF LeavesOpen, Closes
<1>7. CASE Finalizes \/ Exchanges
  BY <1>7, SMTT(20) DEF Finalizes, Exchanges
<1>8. CASE (P!Prepare /\ Rest) \/ Applies
  BY <1>8, SMTT(20) DEF P!Prepare, Applies
<1>9. CASE Renames \/ RenamesNot
  BY <1>9, SMTT(20) DEF Renames, RenamesNot
<1>10. CASE Finds \/ FindsNot \/ Commits
  BY <1>10, SMTT(20) DEF Finds, FindsNot, Commits
<1>11. CASE Verifies \/ VerifiesNot
  BY <1>11, SMTT(20) DEF Verifies, VerifiesNot
<1>12. CASE FinishGoes \/ FinishStays \/ Releases
  BY <1>12, SMTT(20) DEF FinishGoes, FinishStays, Releases
<1>13. CASE (P!Deliver \/ P!Fails \/ P!Refused) /\ Rest
  BY <1>13, Lifecycles, SMTT(20) DEF P!Deliver, P!Fails, P!Refused
<1>14. CASE (P!CleanupBegins \/ P!DiscardRemoves \/ P!DiscardReleases) /\ Rest
  BY <1>14, Lifecycles, SMTT(20) DEF P!CleanupBegins, P!DiscardRemoves, P!DiscardReleases
<1>15. CASE P!Cleaned /\ Rest
  BY <1>15, SMTT(20) DEF P!Cleaned
<1>16. CASE (P!Uncleaned \/ P!ThreadEnds) /\ Rest
  BY <1>16, SMTT(20) DEF P!Uncleaned, P!ThreadEnds
<1>17. CASE ((P!PollLeaving \/ P!PollDiscarded \/ P!PollFailureCleanup \/ P!PollResult
            \/ P!PollPublished) /\ Polled) \/ ErrorKept \/ ErrorCleans
  BY <1>17, SMTT(20) DEF P!PollLeaving, P!PollDiscarded, P!PollFailureCleanup, ErrorKept,
     ErrorCleans, P!PollResult, P!PollPublished, Polled
<1>18. CASE P!ChooseRoots \/ P!ResolveConflicts \/ P!AskConfirmation \/ P!Confirm \/ P!Decline
  BY <1>18, SMTT(20) DEF P!ChooseRoots, P!ResolveConflicts, P!AskConfirmation, P!Confirm, P!Decline
<1>19. CASE P!RetryCleanup \/ P!Leave
  BY <1>19, SMTT(20) DEF P!RetryCleanup, P!Leave
<1>20. CASE P!Quit \/ P!QuitTimeout \/ P!QuitCleans \/ P!QuitEnds
  BY <1>20, Lifecycles, SMTT(20) DEF P!Quit, P!QuitTimeout, P!QuitCleans, P!QuitEnds
<1>21. CASE P!Elsewhere
  BY <1>21, SMTT(20) DEF P!Elsewhere
<1> QED
  BY <1>1, <1>2, <1>3, <1>4, <1>5, <1>6, <1>7, <1>8, <1>9, <1>10, <1>11, <1>12, <1>13, <1>14,
     <1>15, <1>16, <1>17, <1>18, <1>19, <1>20, <1>21,
     WorkerCases, PollErrorCases
  DEF P!Next, P!WorkerStep, P!Worker, P!User, P!Shutdown, P!Poll, Polled

LEMMA StagedIsShownStep == ASSUME PackIInv, P!Next PROVE StagedIsShown'
<1> USE DEF PackIInv, StagedIsShown, PlainTypes, PlaceTypes, StepTypes, P!Job, P!Step, JobShape,
       PlanShape, Asking, Asks, Matches, P!Nothing, P!Copied, RoutedOnce, DataTypes, P!Phase,
       Starting, Resolving, Publishing, Finishing, Cleaners
<1>1. CASE GivesUp
  BY <1>1, SMTT(20) DEF GivesUp
<1>2. CASE (P!PlanBegin \/ P!PlanCopies \/ P!PlanCleansUp \/ P!PlanReleases) /\ Rest
  BY <1>2, SMTT(20) DEF P!PlanBegin, P!PlanCopies, P!PlanCleansUp, P!PlanReleases
<1>3. CASE (P!SelectAuthority /\ Rest) \/ Selects
  BY <1>3, SMTT(20) DEF P!SelectAuthority, Selects
<1>4. CASE (P!ConflictRequest /\ Rest) \/ RoundRefused \/ RoundBegins
  BY <1>4, SMTT(20) DEF P!ConflictRequest, RoundRefused, RoundBegins
<1>5. CASE AsksRoots \/ Looks
  BY <1>5, SMTT(20) DEF AsksRoots, Looks
<1>6. CASE LeavesOpen
  <2>1. PICK bad \in SUBSET work.roots, blocked \in BOOLEAN : res' = P!Accumulate(P!Unresolved(bad, blocked))
    BY <1>6 DEF LeavesOpen
  <2> DEFINE r == P!Unresolved(bad, blocked)
  <2>2. r \in Result /\ r.kind = "unresolved" /\ r.roots = work.roots /\ r.bad = bad /\ r.removed = {} /\ r.replaced = {}
    <3>1. work \in Workspace
      BY DEF PackIInv, DataTypes
    <3> HIDE DEF PackIInv
    <3>2. bad \in SUBSET work.roots /\ blocked \in BOOLEAN
      OBVIOUS
    <3>3. /\ P!Unresolved(bad, blocked) \in Result /\ P!Unresolved(bad, blocked).kind = "unresolved"
          /\ P!Unresolved(bad, blocked).roots = work.roots /\ P!Unresolved(bad, blocked).bad = bad
          /\ P!Unresolved(bad, blocked).removed = {} /\ P!Unresolved(bad, blocked).replaced = {}
      BY <3>1, <3>2, WorkFacts
    <3> QED
      BY <3>3
  <2> HIDE DEF r
  <2>3. res'.kind = "unresolved"
    BY <1>6, <2>1, <2>2, Accumulating DEF LeavesOpen, r
  <2>4. UNCHANGED <<session, staging>> /\ pc' = "deliver" /\ session # "resolved" /\ staging = "tree"
    BY <1>6 DEF LeavesOpen
  <2> QED
    BY <2>3, <2>4
<1>7. CASE Closes
  BY <1>7, SMTT(20) DEF Closes
<1>8. CASE Exchanges
  <2>1. P!Resolved \in Result /\ P!Resolved.kind = "resolved" /\ P!Resolved.roots = work.roots /\ P!Resolved.pins = work.pins
    BY WorkFacts
  <2>2. res'.kind = "resolved" /\ res'.roots = work.roots /\ res'.pins = work.pins
    BY <1>8, <2>1, Accumulating DEF Exchanges
  <2>3. Matches(res)'
    BY <1>8, <2>2 DEF Exchanges
  <2>4. UNCHANGED <<session, staging>> /\ pc' = "deliver" /\ session # "resolved" /\ staging = "tree"
    BY <1>8 DEF Exchanges
  <2> QED
    BY <2>3, <2>4
<1>9. CASE Finalizes
  BY <1>9, SMTT(20) DEF Finalizes
<1>10. CASE (P!Prepare /\ Rest) \/ Applies
  BY <1>10, SMTT(20) DEF P!Prepare, Applies
<1>11. CASE Renames \/ RenamesNot
  BY <1>11, SMTT(20) DEF Renames, RenamesNot
<1>12. CASE Finds \/ FindsNot \/ Commits
  BY <1>12, SMTT(20) DEF Finds, FindsNot, Commits
<1>13. CASE Verifies \/ VerifiesNot
  BY <1>13, SMTT(20) DEF Verifies, VerifiesNot
<1>14. CASE FinishGoes \/ FinishStays \/ Releases
  BY <1>14, SMTT(20) DEF FinishGoes, FinishStays, Releases
<1>15. CASE P!Deliver /\ Rest
  <2>1. session' = "resolved" => res.kind = "resolved"
    BY <1>15 DEF P!Deliver, RoundShape, DataTypes, Result
  <2>2. pending' = res /\ UNCHANGED <<P!Disk, res, preview>> /\ pc = "deliver" /\ pc' = "ending"
    BY <1>15 DEF P!Deliver
  <2>3. staging = "tree"
    BY <2>2 DEF PlanShape
  <2> QED
    BY <2>1, <2>2, <2>3
<1>16. CASE (P!Fails \/ P!Refused) /\ Rest
  BY <1>16, Lifecycles, SMTT(20) DEF P!Fails, P!Refused
<1>17. CASE (P!CleanupBegins \/ P!DiscardRemoves \/ P!DiscardReleases) /\ Rest
  BY <1>17, Lifecycles, SMTT(20) DEF P!CleanupBegins, P!DiscardRemoves, P!DiscardReleases
<1>18. CASE P!Cleaned /\ Rest
  BY <1>18, SMTT(20) DEF P!Cleaned
<1>19. CASE (P!Uncleaned \/ P!ThreadEnds) /\ Rest
  BY <1>19, SMTT(20) DEF P!Uncleaned, P!ThreadEnds
<1>20. CASE ((P!PollLeaving \/ P!PollDiscarded \/ P!PollFailureCleanup \/ P!PollResult
            \/ P!PollPublished) /\ Polled) \/ ErrorKept \/ ErrorCleans
  BY <1>20, SMTT(20) DEF P!PollLeaving, P!PollDiscarded, P!PollFailureCleanup, ErrorKept,
     ErrorCleans, P!PollResult, P!PollPublished, Polled
<1>21. CASE P!ChooseRoots \/ P!ResolveConflicts \/ P!AskConfirmation \/ P!Confirm \/ P!Decline
  BY <1>21, SMTT(20) DEF P!ChooseRoots, P!ResolveConflicts, P!AskConfirmation, P!Confirm, P!Decline
<1>22. CASE P!RetryCleanup \/ P!Leave
  BY <1>22, SMTT(20) DEF P!RetryCleanup, P!Leave
<1>23. CASE P!Quit \/ P!QuitTimeout \/ P!QuitCleans \/ P!QuitEnds
  BY <1>23, Lifecycles, SMTT(20) DEF P!Quit, P!QuitTimeout, P!QuitCleans, P!QuitEnds
<1>24. CASE P!Elsewhere
  BY <1>24, SMTT(20) DEF P!Elsewhere
<1> QED
  BY <1>1, <1>2, <1>3, <1>4, <1>5, <1>6, <1>7, <1>8, <1>9, <1>10, <1>11, <1>12, <1>13, <1>14,
     <1>15, <1>16, <1>17, <1>18, <1>19, <1>20, <1>21, <1>22, <1>23, <1>24,
     WorkerCases, PollErrorCases
  DEF P!Next, P!WorkerStep, P!Worker, P!User, P!Shutdown, P!Poll, Polled

LEMMA PackCopiesStep == ASSUME PackIInv, P!Next PROVE PackCopies
<1> USE DEF PackIInv, PackCopies, PlainTypes, PlaceTypes, PlanFlags, StepTypes, P!Job, P!Step,
       JobShape, PlanShape, Copies, Asking, Starting, Resolving, Publishing, Finishing, Cleaners
<1>1. CASE GivesUp
  BY <1>1, SMTT(20) DEF GivesUp
<1>2. CASE (P!PlanBegin \/ P!PlanCopies \/ P!PlanCleansUp \/ P!PlanReleases) /\ Rest
  BY <1>2, SMTT(20) DEF P!PlanBegin, P!PlanCopies, P!PlanCleansUp, P!PlanReleases
<1>3. CASE (P!SelectAuthority /\ Rest) \/ Selects
  BY <1>3, SMTT(20) DEF P!SelectAuthority, Selects
<1>4. CASE (P!ConflictRequest /\ Rest) \/ RoundRefused \/ RoundBegins
  BY <1>4, SMTT(20) DEF P!ConflictRequest, RoundRefused, RoundBegins
<1>5. CASE AsksRoots \/ Looks
  BY <1>5, SMTT(20) DEF AsksRoots, Looks
<1>6. CASE LeavesOpen \/ Closes
  BY <1>6, SMTT(20) DEF LeavesOpen, Closes
<1>7. CASE Finalizes \/ Exchanges
  BY <1>7, SMTT(20) DEF Finalizes, Exchanges
<1>8. CASE (P!Prepare /\ Rest) \/ Applies
  BY <1>8, SMTT(20) DEF P!Prepare, Applies
<1>9. CASE Renames \/ RenamesNot
  BY <1>9, SMTT(20) DEF Renames, RenamesNot
<1>10. CASE Finds \/ FindsNot \/ Commits
  BY <1>10, SMTT(20) DEF Finds, FindsNot, Commits
<1>11. CASE Verifies \/ VerifiesNot
  BY <1>11, SMTT(20) DEF Verifies, VerifiesNot
<1>12. CASE FinishGoes \/ FinishStays \/ Releases
  BY <1>12, SMTT(20) DEF FinishGoes, FinishStays, Releases
<1>13. CASE (P!Deliver \/ P!Fails \/ P!Refused) /\ Rest
  BY <1>13, Lifecycles, SMTT(20) DEF P!Deliver, P!Fails, P!Refused
<1>14. CASE (P!CleanupBegins \/ P!DiscardRemoves \/ P!DiscardReleases) /\ Rest
  BY <1>14, Lifecycles, SMTT(20) DEF P!CleanupBegins, P!DiscardRemoves, P!DiscardReleases
<1>15. CASE P!Cleaned /\ Rest
  BY <1>15, SMTT(20) DEF P!Cleaned
<1>16. CASE (P!Uncleaned \/ P!ThreadEnds) /\ Rest
  BY <1>16, SMTT(20) DEF P!Uncleaned, P!ThreadEnds
<1>17. CASE ((P!PollLeaving \/ P!PollDiscarded \/ P!PollFailureCleanup \/ P!PollResult
            \/ P!PollPublished) /\ Polled) \/ ErrorKept \/ ErrorCleans
  BY <1>17, SMTT(20) DEF P!PollLeaving, P!PollDiscarded, P!PollFailureCleanup, ErrorKept,
     ErrorCleans, P!PollResult, P!PollPublished, Polled
<1>18. CASE P!ChooseRoots \/ P!ResolveConflicts \/ P!AskConfirmation \/ P!Confirm \/ P!Decline
  BY <1>18, SMTT(20) DEF P!ChooseRoots, P!ResolveConflicts, P!AskConfirmation, P!Confirm, P!Decline
<1>19. CASE P!RetryCleanup \/ P!Leave
  BY <1>19, SMTT(20) DEF P!RetryCleanup, P!Leave
<1>20. CASE P!Quit \/ P!QuitTimeout \/ P!QuitCleans \/ P!QuitEnds
  BY <1>20, Lifecycles, SMTT(20) DEF P!Quit, P!QuitTimeout, P!QuitCleans, P!QuitEnds
<1>21. CASE P!Elsewhere
  BY <1>21, SMTT(20) DEF P!Elsewhere
<1> QED
  BY <1>1, <1>2, <1>3, <1>4, <1>5, <1>6, <1>7, <1>8, <1>9, <1>10, <1>11, <1>12, <1>13, <1>14,
     <1>15, <1>16, <1>17, <1>18, <1>19, <1>20, <1>21,
     WorkerCases, PollErrorCases
  DEF P!Next, P!WorkerStep, P!Worker, P!User, P!Shutdown, P!Poll, Polled

LEMMA PackInit == P!Init => PackIInv
<1> SUFFICES ASSUME P!Init PROVE PackIInv
  OBVIOUS
<1> USE DEF P!Init
<1>1. PlainTypes
  BY DEF PlainTypes, PlaceTypes, StepTypes, PlanFlags, OwnerFlags, P!Job, P!Step, P!Phase
<1>2. BoundTypes
  BY BoundsAssumption DEF BoundTypes
<1>3. DataTypes
  BY DataFacts DEF DataTypes, Workspace
<1>4. JobShape /\ PlanShape /\ OwnerShape
  BY DEF JobShape, PlanShape, OwnerShape, Starting, Resolving, Finishing, Publishing, Cleaners,
         Asking, Ended, Resting
<1>5. RoundShape /\ ResultShape /\ RoutedOnce /\ StagedIsShown
  BY DEF RoundShape, ResultShape, RoutedOnce, StagedIsShown, P!Nothing, Starting, Resolving, Asks,
         Matches
<1> QED
  BY <1>1, <1>2, <1>3, <1>4, <1>5 DEF PackIInv

LEMMA PackStutter == PackIInv /\ UNCHANGED P!vars => PackIInv'
<1> SUFFICES ASSUME PackIInv, UNCHANGED P!vars PROVE PackIInv'
  OBVIOUS
<1> USE DEF PackIInv, P!vars
<1>1. PlainTypes'
  BY DEF PlainTypes, PlaceTypes, StepTypes, PlanFlags, OwnerFlags
<1>2. BoundTypes'
  BY DEF BoundTypes
<1>3. DataTypes'
  BY DEF DataTypes
<1>4. JobShape' /\ PlanShape' /\ OwnerShape'
  BY DEF JobShape, PlanShape, OwnerShape, Ended, Resting
<1>5. RoundShape' /\ RoutedOnce' /\ StagedIsShown'
  BY DEF RoundShape, RoutedOnce, StagedIsShown, Matches, P!Originals
<1>6. ResultShape'
  BY DEF ResultShape, Accounted, Told, Known, Answered, P!Originals
<1> QED
  BY <1>1, <1>2, <1>3, <1>4, <1>5, <1>6

LEMMA PackProperties == PackIInv => P!PublishedIsConfirmed /\ P!LocksOutliveTree /\ P!OutcomeIsTrue
<1> SUFFICES ASSUME PackIInv PROVE P!PublishedIsConfirmed /\ P!LocksOutliveTree /\ P!OutcomeIsTrue
  OBVIOUS
<1>1. P!PublishedIsConfirmed
  BY DEF PackIInv, P!PublishedIsConfirmed, StagedIsShown, Matches, ResultShape, Accounted, Told, Dom,
     PlanShape
<1>2. P!LocksOutliveTree
  BY Lifecycles DEF PackIInv, P!LocksOutliveTree, PlanShape, OwnerShape, Ended
<1>3. P!TypeOK
  <2>1. {committed, stuck, locks, hold, cancel, error, retained, published, completed, nav,
         forFailure, modal, left, released} \subseteq BOOLEAN
    <3>1. PlanFlags /\ OwnerFlags
      BY DEF PackIInv, PlainTypes
    <3> QED
      BY <3>1 DEF PlanFlags, OwnerFlags
  <2>2. staged \in Staged /\ base \in SUBSET Source /\ removed \in SUBSET P!Id
        /\ replaced \in SUBSET (P!Id \X P!Id) /\ BoundTypes /\ PlaceTypes /\ StepTypes
        /\ altered \in {"no", "staged", "published"} /\ sourceMoved \in BOOLEAN /\ manifest \in BOOLEAN
    BY Zenon DEF PackIInv, PlainTypes, PlanFlags, DataTypes
  <2> QED
    BY <2>1, <2>2, Zenon DEF PlaceTypes, StepTypes, BoundTypes, P!TypeOK, Staged
<1>4. session = "published" => committed /\ tree = "absent" /\ (hold => ~locks)
  BY DEF PackIInv, PlanShape
<1>5. session = "discarded" => staging \in {"none", "gone"} /\ ~committed /\ tree = "absent"
                              /\ (hold => ~locks)
  BY DEF PackIInv, PlanShape, PlainTypes, PlaceTypes, Starting
<1>6. released => tree = "absent" /\ (hold => ~locks) /\ (staging = "moved" <=> committed)
  BY DEF PackIInv, OwnerShape, Ended
<1>7. P!OutcomeIsTrue
  BY <1>3, <1>4, <1>5, <1>6, Zenon DEF P!OutcomeIsTrue
<1> QED
  BY <1>1, <1>2, <1>7

-----------------------------------------------------------------------------
(* The migration of a Template: what its variables hold                    *)

Dropped == UNION {[d -> SUBSET template.pins] : d \in SUBSET DOMAIN template.roots}
Slots == UNION {[d -> DOMAIN Identity] : d \in SUBSET DOMAIN template.roots}
Questions == UNION {[d -> [id : DOMAIN Identity \cup {T!Unknown}, replace : BOOLEAN]] :
                      d \in SUBSET DOMAIN template.roots}
TemplateResult == [status : {"none", "required", "resolved"}, roots : Slots, pins : SUBSET template.pins,
           open : Questions, source : Slots, blocked : BOOLEAN, removed : Dropped, replaced : Slots]
Plan == [held : BOOLEAN, tx : BOOLEAN, locks : BOOLEAN, roots : Slots, pins : SUBSET template.pins,
         removed : Dropped, replaced : Slots, res : TemplateResult, attempt : Nat,
         pub : {"not-published", "uncertain", "published"}, committed : BOOLEAN, stuck : BOOLEAN,
         cleaned : BOOLEAN, removing : BOOLEAN]
Disk == [target : {"none", "ours", "foreign"}, altered : BOOLEAN, moved : BOOLEAN,
         tree : {"absent", "full", "emptied", "bare"},
         staging : {"none", "tree", "moved", "gone", "swept"}, staged : BOOLEAN, roots : Slots,
         pins : SUBSET template.pins]
Pcs == {"dead", "ending", "planning", "checking", "copying", "request", "resolving", "writing", "prepare",
        "apply", "rename", "reconcile", "verify", "reverify", "empty", "rmdir", "sync", "unlock", "raise",
        "refused", "cleanup", "unfinished", "storing", "cleaned"}
Step == [job : T!Thread, pc : Pcs, choice : T!Choices, before : Plan \cup {0}]
Owner == [error : BOOLEAN, orig : BOOLEAN, stuck : BOOLEAN, cleaned : BOOLEAN, nav : BOOLEAN]
Screen == [phase : {"starting", "conflicts", "resolving", "preview", "publishing", "complete"},
           preview : TemplateResult, modal : BOOLEAN, left : BOOLEAN, released : BOOLEAN,
           quitting : {"no", "waiting", "cleaning", "over"}]
Sessions == {"planning", "resolving", "resolution-required", "resolved", "publishing",
                  "published", "discarding", "discarded", "retrying-cleanup", "cleanup-pending",
                  "publication-uncertain", "cancelled", "failed"}
DiskTypes == disk \in Disk
PlanTypes == plan \in Plan /\ template \in Templates
TemplateStepTypes == thr \in Step /\ session \in Sessions /\ cancel \in BOOLEAN
OwnerTypes == own \in Owner
ScreenTypes == scr \in Screen
TemplateBoundTypes == faults \in 0..MaxFaults /\ outside \in 0..MaxOutside
Types == DiskTypes /\ PlanTypes /\ TemplateStepTypes /\ OwnerTypes /\ ScreenTypes /\ TemplateBoundTypes
Plans == {"planning", "checking", "copying"}
Clears == {"empty", "rmdir", "sync", "unlock"}
Publishes == {"apply", "rename", "reconcile", "verify"}
TemplateCleaners == {"cleanup", "shutdown"}

(* Worker, step and session, as for a Pack.                                *)
TemplateJobShape ==
  LET at == thr.pc IN
  /\ at = "dead" <=> thr.job = "none"
  /\ at \in Plans => thr.job = "start" /\ session = "planning"
  /\ at = "request" => thr.job = "resolve"
  /\ at \in {"resolving", "writing"} => thr.job \in {"start", "resolve"} /\ session = "resolving"
  /\ at \in Publishes => thr.job = "publish" /\ session = "publishing"
  /\ at = "prepare" => thr.job = "publish"
  /\ at \in Clears => \/ thr.job = "start" /\ session = "planning"
                      \/ thr.job = "publish" /\ session = "publishing"
                      \/ thr.job \in TemplateCleaners /\ session \in {"discarding", "retrying-cleanup"}
  /\ at = "reverify" => thr.job \in TemplateCleaners /\ session = "retrying-cleanup"
  /\ at \in {"cleanup", "unfinished", "storing", "cleaned"} => thr.job \in TemplateCleaners
  /\ at = "raise" => \/ thr.job = "start" /\ session \in {"planning", "resolving"}
                     \/ thr.job = "resolve" /\ session = "resolving"
                     \/ thr.job = "publish" /\ session \in {"resolved", "publishing"}
  /\ at = "refused" => thr.job \in {"resolve", "publish"}
  /\ session = "discarding" => at \in Clears \cup {"unfinished"}
  /\ session = "retrying-cleanup" => at \in Clears \cup {"unfinished", "reverify"}
  /\ session = "publishing" => at \in Publishes \cup Clears \cup {"raise"}
  /\ session = "planning" => at \in Plans \cup Clears \cup {"raise"}
  /\ session = "resolving" => at \in {"resolving", "writing", "raise"}

TemplateAsking == {"resolution-required", "resolved", "resolving"}

(* Locks, tree and publication at each step, as for a Pack.                *)
TemplatePlanShape ==
  LET at == thr.pc IN
  /\ disk.tree \in {"full", "emptied"} => plan.locks
  /\ at = "planning" => ~plan.locks
  /\ at \in {"planning", "checking"} => ~plan.tx /\ disk.tree = "absent"
  /\ at \in Plans => ~plan.held /\ plan.pub = "not-published"
  /\ at \in {"planning", "checking"} => disk.staging = "none"
  /\ at \in {"checking", "copying"} => plan.locks
  /\ at = "copying" => plan.tx
  /\ plan.tx => disk.tree # "bare"
  /\ ~plan.tx => disk.tree \in {"absent", "bare"}
  /\ disk.staging = "tree" => disk.tree = "full"
  /\ plan.committed <=> plan.pub = "published"
  /\ disk.staging = "moved" => plan.pub # "not-published"
  /\ plan.committed => disk.staging = "moved"
  /\ plan.pub # "not-published" => plan.held /\ plan.tx
  /\ at \in {"copying", "apply"} \/ session \in TemplateAsking =>
       plan.tx /\ disk.staging \in {"tree", "swept"}
  /\ at \in {"resolving", "writing"} \/ session \in TemplateAsking =>
       plan.held /\ plan.locks /\ plan.pub = "not-published"
  /\ plan.pub = "uncertain" => plan.locks /\ disk.staging \in {"tree", "moved", "swept"}
  /\ at \in {"rename", "reconcile"} => plan.pub = "uncertain"
  /\ at = "rename" => disk.staging \in {"tree", "swept"}
  /\ at = "apply" => plan.pub = "not-published" /\ plan.held /\ plan.locks
  /\ at \in {"verify", "reverify"} => plan.committed
  /\ at \in Clears => /\ plan.pub # "uncertain"
                      /\ thr.job = "publish" \/ session = "retrying-cleanup" => plan.committed
                      /\ thr.job = "start" \/ session = "discarding" => ~plan.committed
  /\ at = "unfinished" => plan.pub # "uncertain"
  /\ at = "rmdir" => plan.tx
  /\ at \in {"sync", "unlock"} => disk.tree \in {"absent", "bare"}
  /\ at = "unlock" => disk.staging # "tree"
  /\ at = "prepare" /\ session = "resolved" => plan.held
  /\ session = "published" => plan.committed /\ disk.tree = "absent" /\ ~plan.locks
  /\ session = "discarded" => ~plan.committed /\ disk.tree \in {"absent", "bare"} /\ ~plan.locks
  /\ session = "publication-uncertain" <=> plan.pub = "uncertain" /\ at \notin {"rename", "reconcile", "raise"}
  /\ ~plan.held => disk.tree \in {"absent", "bare"} \/ at \in {"copying"} \cup Clears
  /\ ~plan.held => ~plan.locks \/ at \in Plans \cup Clears

(* When the owner is let go.  A clean-up error erased by a retry is the    *)
(* exception: the copy is committed, its tree and locks stay.              *)
TemplateOwnerShape ==
  /\ scr.released => /\ thr.pc = "dead" /\ ((scr.left /\ scr.quitting = "no") \/ scr.quitting = "over")
                     /\ \/ disk.tree \in {"absent", "bare"} /\ ~plan.locks
                        \/ plan.committed /\ session = "cleanup-pending"
                     /\ plan.pub # "uncertain"
  /\ plan.committed /\ thr.pc \in {"dead", "ending", "cleaned", "storing", "cleanup", "refused",
                                   "request", "prepare"} =>
        session \in {"published", "cleanup-pending"}
  /\ scr.quitting = "cleaning" => thr.job \in {"shutdown", "none"}
  /\ scr.quitting = "cleaning" /\ thr.pc \in {"dead", "ending", "cleaned"} /\ ~own.stuck =>
       session \in {"discarded", "published", "publication-uncertain"}

(* Every root of the Template is kept, replaced or removed, every fixed    *)
(* version is kept or goes with a root that was removed, and after a       *)
(* complete resolution no two roots are one MOD.                           *)
Listed(roots, gone, swapped) ==
  \A i \in DOMAIN template.roots :
    \/ i \in DOMAIN gone
    \/ /\ i \in DOMAIN roots
       /\ i \in DOMAIN swapped \/ Identity[roots[i]] = Identity[template.roots[i]]
PinsKept(pins, gone) ==
  \A p \in template.pins : p \in pins \/ \E i \in DOMAIN gone : p \in gone[i]
Sound(p) == /\ Listed(p.roots, p.removed, p.replaced) /\ PinsKept(p.pins, p.removed)
           /\ DOMAIN p.roots \cap DOMAIN p.removed = {}
Canon(p) == /\ \A i \in DOMAIN p.roots : Identity[p.roots[i]] = p.roots[i]
            /\ \A i, j \in DOMAIN p.roots : p.roots[i] = p.roots[j] => i = j
            /\ \A d \in p.pins : \E i \in DOMAIN p.roots : p.roots[i] = d
TemplateAccounted(r) == Listed(r.roots, r.removed, r.replaced) /\ PinsKept(r.pins, r.removed) /\ Canon(r)
Fresh(p) == /\ p.res.status = "required" =>
                 /\ p.res.roots = p.roots /\ Sound(p) /\ DOMAIN p.res.open \subseteq DOMAIN p.roots
            /\ p.res.status = "resolved" =>
                 /\ p.res.roots = p.roots /\ p.res.pins = p.pins
                 /\ p.res.removed = p.removed /\ p.res.replaced = p.replaced
                 /\ Sound(p) /\ Canon(p)

(* What a round of conflicts has left as it was. *)
Since(p) == /\ p.held = plan.held /\ p.tx = plan.tx /\ p.locks = plan.locks /\ p.pub = plan.pub
            /\ p.committed = plan.committed /\ p.res = plan.res
Working == thr.pc \in {"resolving", "writing"}

(* The result of the last round describes the plan, except while a round   *)
(* works; then the plan before it does, to which a failure returns.        *)
TemplateRoundShape ==
  /\ ~Working \/ thr.job = "start" => Fresh(plan)
  /\ thr.pc \in Plans => plan.res = T!NoResult
  /\ Working /\ thr.job = "start" => plan.res.status = "none"
  /\ Working /\ thr.job = "resolve" => thr.before \in Plan /\ Fresh(thr.before)
       /\ Since(thr.before) /\ thr.before.res.status = "required" /\ T!Swapped \subseteq DOMAIN plan.replaced
  /\ thr.job # "resolve" => thr.choice = T!Empty
  /\ Working \/ thr.pc \in Plans => Sound(plan)
  /\ thr.pc = "writing" => Canon(plan)
  /\ session = "resolved" => plan.res.status = "resolved"

(* What is confirmed, staged and published is what the preview shows.      *)
ShownShape ==
  /\ scr.modal \/ scr.phase \in {"preview", "publishing"} \/ thr.job = "publish" =>
       /\ thr.job \notin {"start", "resolve"}
       /\ plan.res.status = "resolved" => scr.preview = plan.res
  /\ thr.pc = "rename" => /\ disk.staging = "tree" => disk.staged
                          /\ disk.roots = plan.res.roots /\ disk.pins = plan.res.pins
                          /\ plan.res.status = "resolved"
  /\ disk.staging = "moved" => disk.staged /\ disk.roots = scr.preview.roots /\ disk.pins = scr.preview.pins
  /\ scr.preview.status = "resolved" => TemplateAccounted(scr.preview)

TemplateIInv ==
  /\ Types
  /\ TemplateJobShape /\ TemplatePlanShape /\ TemplateOwnerShape
  /\ TemplateRoundShape /\ ShownShape

-----------------------------------------------------------------------------
(* The migration of a Template: what its steps change                      *)

USE DEF T!Bounds, T!Goto, T!At, T!Fault, T!NoFault, T!Interrupted, T!Same, T!SourceFresh,
    T!TreeIntact, T!CleanupFails, T!Idle, T!Usable, T!CanType, T!World, T!SameUi, T!Quitting

LEMMA TemplateLifecycles ==
  /\ plan.held \in BOOLEAN => (T!Lifecycle = "none" <=> ~plan.held)
  /\ T!Lifecycle = "uncertain" <=> plan.held /\ plan.pub = "uncertain"
  /\ T!Lifecycle = "committed" <=> plan.held /\ plan.pub = "published"
  /\ T!Lifecycle = "precommit" <=> plan.held /\ plan.pub \notin {"uncertain", "published"}
BY DEF T!Lifecycle

Moves(l) == /\ thr'.pc = l /\ thr'.job = thr.job /\ thr'.choice = thr.choice
            /\ thr'.before = thr.before
Ctl(h, x, l, u, c) == /\ plan'.held = h /\ plan'.tx = x /\ plan'.locks = l /\ plan'.pub = u
                      /\ plan'.committed = c
SameCtl == Ctl(plan.held, plan.tx, plan.locks, plan.pub, plan.committed)
SameData == /\ plan'.roots = plan.roots /\ plan'.pins = plan.pins
            /\ plan'.removed = plan.removed /\ plan'.replaced = plan.replaced
            /\ plan'.res = plan.res
Laid(t, s) == disk'.tree = t /\ disk'.staging = s
SameStaged == disk'.staged = disk.staged /\ disk'.roots = disk.roots /\ disk'.pins = disk.pins
SameTarget == disk'.target = disk.target
Quietly == UNCHANGED <<template, session, own, scr>>

Locks ==
  /\ thr.pc = "planning" /\ Moves("checking") /\ Ctl(plan.held, plan.tx, TRUE, plan.pub, plan.committed)
  /\ SameData /\ UNCHANGED disk /\ Quietly
LocksNot ==
  /\ thr.pc = "planning" /\ Moves("raise") /\ UNCHANGED plan /\ UNCHANGED disk /\ Quietly
LocksStay ==
  /\ thr.pc = "planning" /\ Moves("raise") /\ Ctl(TRUE, plan.tx, TRUE, plan.pub, plan.committed)
  /\ SameData /\ UNCHANGED disk /\ Quietly
Makes ==
  /\ thr.pc = "checking" /\ Moves("copying") /\ Ctl(plan.held, TRUE, plan.locks, plan.pub, plan.committed)
  /\ SameData /\ Laid("full", "tree") /\ SameStaged /\ SameTarget /\ Quietly
MakesNot ==
  /\ thr.pc = "checking" /\ Moves("unlock") /\ UNCHANGED plan
  /\ disk'.tree \in {disk.tree, "bare"} /\ disk'.staging = disk.staging /\ SameStaged /\ SameTarget
  /\ Quietly
CopiesSource ==
  /\ thr.pc = "copying" /\ Moves("resolving") /\ Ctl(TRUE, plan.tx, plan.locks, plan.pub, plan.committed)
  /\ SameData /\ UNCHANGED disk /\ session' = "resolving" /\ UNCHANGED <<template, own, scr>>
CopiesNot ==
  /\ thr.pc = "copying" /\ Moves("empty") /\ UNCHANGED plan /\ UNCHANGED disk /\ Quietly
TemplateApplies ==
  /\ thr.pc = "apply" /\ T!Verified /\ Moves("rename")
  /\ Ctl(plan.held, plan.tx, plan.locks, "uncertain", plan.committed) /\ SameData
  /\ UNCHANGED disk /\ Quietly
AppliesNot ==
  /\ thr.pc = "apply" /\ Moves("raise") /\ UNCHANGED plan /\ UNCHANGED disk /\ Quietly
TemplateRenames ==
  /\ thr.pc = "rename" /\ Moves("reconcile") /\ UNCHANGED plan
  /\ disk.target = "none" /\ disk.staging = "tree"
  /\ disk'.target = "ours" /\ Laid(disk.tree, "moved") /\ SameStaged /\ Quietly
TemplateRenamesNot ==
  /\ thr.pc = "rename" /\ Moves("reconcile") /\ UNCHANGED plan /\ UNCHANGED disk /\ Quietly
TemplateFinds ==
  /\ thr.pc = "reconcile" /\ disk.staging = "moved" /\ Moves("verify")
  /\ Ctl(plan.held, plan.tx, plan.locks, "published", TRUE) /\ SameData /\ UNCHANGED disk /\ Quietly
FindsStaged ==
  /\ thr.pc = "reconcile" /\ disk.staging = "tree" /\ Moves("raise")
  /\ Ctl(plan.held, plan.tx, plan.locks, "not-published", plan.committed) /\ SameData
  /\ UNCHANGED disk /\ Quietly
FindsNeither ==
  /\ thr.pc = "reconcile" /\ Moves("raise") /\ UNCHANGED plan /\ UNCHANGED disk /\ Quietly
TemplateVerifies ==
  /\ thr.pc \in {"verify", "reverify"} /\ Moves("empty") /\ UNCHANGED plan /\ UNCHANGED disk /\ Quietly
TemplateVerifiesNot ==
  /\ \/ thr.pc = "verify" /\ Moves("raise")
     \/ thr.pc = "reverify" /\ Moves("unfinished")
  /\ SameCtl /\ SameData /\ UNCHANGED disk /\ Quietly

(* Cleaning up: the directory becomes empty, goes, its removal is made     *)
(* durable, the locks go; what fails keeps the plan.                       *)
Stuck == /\ Ctl(TRUE, plan.tx, plan.locks, plan.pub, plan.committed) /\ SameData
         /\ Moves(IF thr.job \in {"start", "publish"} THEN "raise" ELSE "unfinished")
Swept == IF disk.staging = "tree" THEN "gone" ELSE disk.staging
SweptWith == disk.staging # "tree" => SameStaged
Empties ==
  /\ thr.pc = "empty" /\ plan.tx /\ Moves("rmdir") /\ UNCHANGED plan
  /\ Laid("emptied", Swept) /\ disk.tree # "absent" /\ SweptWith /\ SameTarget /\ Quietly
EmptiesNot ==
  /\ thr.pc = "empty" /\ plan.tx /\ Stuck
  /\ disk'.tree = disk.tree /\ disk'.staging \in {disk.staging, Swept} /\ SweptWith /\ SameTarget
  /\ Quietly
FindsEmpty ==
  /\ thr.pc = "empty" /\ (Moves("sync") \/ Moves("unlock"))
  /\ plan.tx => disk.tree = "absent"
  /\ UNCHANGED plan /\ UNCHANGED disk /\ Quietly
Removes ==
  /\ thr.pc = "rmdir" /\ disk.tree = "emptied" /\ Moves("sync") /\ SameCtl /\ SameData
  /\ Laid("absent", disk.staging) /\ SameStaged /\ SameTarget /\ Quietly
ClearStuck ==
  /\ thr.pc \in {"rmdir", "sync", "unlock"} /\ Stuck /\ UNCHANGED disk /\ Quietly
Syncs == thr.pc = "sync" /\ Moves("unlock") /\ SameCtl /\ SameData /\ UNCHANGED disk /\ Quietly
TemplateReleases ==
  /\ thr.pc = "unlock" /\ Ctl(plan.held, plan.tx, FALSE, plan.pub, plan.committed) /\ SameData
  /\ \/ thr.job = "start" /\ Moves("raise") /\ UNCHANGED session
     \/ thr.job = "publish" /\ Moves("ending") /\ session' = "published"
     \/ /\ thr.job \notin {"start", "publish"} /\ Moves("cleaned")
        /\ session' = IF plan.committed THEN "published" ELSE "discarded"
  /\ UNCHANGED disk /\ UNCHANGED <<template, own, scr>>

(* A round of conflicts. *)
SamePlace == Laid(disk.tree, disk.staging) /\ SameTarget
ChooseNot ==
  /\ thr.pc = "request" /\ Moves("refused") /\ UNCHANGED plan /\ UNCHANGED disk /\ Quietly
Reopens ==
  /\ thr.pc = "request" /\ session = "resolution-required" /\ session' = "resolving"
  /\ thr'.pc = "resolving" /\ thr'.job = thr.job /\ thr'.choice = thr.choice /\ thr'.before = plan
  /\ SameCtl /\ plan'.res = plan.res /\ plan.res.status = "required"
  /\ Sound(plan') /\ T!Swapped \subseteq DOMAIN plan'.replaced
  /\ UNCHANGED disk /\ UNCHANGED <<template, own, scr>>
TemplateGivesUp ==
  /\ thr.pc \in {"resolving", "writing"} /\ Moves("raise")
  /\ SameCtl /\ Fresh(plan') /\ SamePlace /\ Quietly
Completes ==
  /\ thr.pc = "resolving" /\ Moves("writing")
  /\ SameCtl /\ plan'.res = plan.res /\ plan'.replaced = plan.replaced /\ Sound(plan') /\ Canon(plan')
  /\ SamePlace /\ Quietly
Requires ==
  /\ thr.pc = "resolving" /\ Moves("ending") /\ session' = "resolution-required"
  /\ SameCtl /\ Fresh(plan') /\ plan'.res.status = "required"
  /\ SamePlace /\ UNCHANGED <<template, own, scr>>
Writes ==
  /\ thr.pc = "writing" /\ Moves("ending") /\ session' = "resolved"
  /\ SameCtl /\ Fresh(plan') /\ plan'.res.status = "resolved"
  /\ SamePlace /\ UNCHANGED <<template, own, scr>>

(* How jobs begin and end. *)
Prepares ==
  /\ thr.pc = "prepare" /\ session = "resolved" /\ Moves("apply") /\ session' = "publishing"
  /\ UNCHANGED plan /\ UNCHANGED disk /\ UNCHANGED <<template, own, scr>>
PreparesNot ==
  /\ thr.pc = "prepare" /\ (Moves("refused") \/ (session = "resolved" /\ Moves("raise")))
  /\ UNCHANGED plan /\ UNCHANGED disk /\ Quietly
SameOwner == own'.stuck = own.stuck /\ UNCHANGED <<disk, template, scr>>
AsksAgain ==
  /\ thr.pc = "raise" /\ thr.job = "resolve" /\ Moves("ending")
  /\ session' = "resolution-required" /\ UNCHANGED plan /\ SameOwner
Raises ==
  /\ thr.pc = "raise" /\ Moves("ending") /\ UNCHANGED plan /\ SameOwner
  /\ session' \in {"publication-uncertain", "cleanup-pending", "cancelled", "failed"}
  /\ session' = "publication-uncertain" <=> plan.held /\ plan.pub = "uncertain"
  /\ plan.held /\ plan.pub = "published" => session' = "cleanup-pending"
Refuses ==
  /\ thr.pc = "refused" /\ Moves("ending") /\ UNCHANGED plan /\ UNCHANGED session /\ SameOwner
CleaningUp == /\ thr.pc = "cleanup" /\ UNCHANGED <<disk, template, scr>>
              /\ thr.job = "shutdown" => own' = own
Retries ==
  /\ CleaningUp /\ session = "cleanup-pending" /\ plan.held /\ plan.pub = "published"
  /\ session' = "retrying-cleanup" /\ Moves("reverify") /\ UNCHANGED plan
Discarded ==
  /\ CleaningUp /\ ~plan.held
  /\ session' = "discarded" /\ Moves("cleaned") /\ UNCHANGED plan
Discards ==
  /\ CleaningUp /\ plan.held /\ plan.pub = "not-published"
  /\ session' = "discarding" /\ Moves("empty") /\ SameCtl /\ plan'.res.status = "none"
CleansNot ==
  /\ CleaningUp /\ Moves("cleaned") /\ UNCHANGED <<session, plan>>
  /\ ~plan.held => session = "discarded"
  /\ plan.held /\ plan.pub = "published" => session # "cleanup-pending"
  /\ plan.held /\ plan.pub = "not-published" => session = "discarded" /\ thr.job # "shutdown"
Pends ==
  /\ thr.pc = "unfinished" /\ Moves("storing") /\ session' = "cleanup-pending"
  /\ UNCHANGED <<disk, plan, template, own, scr>>
Stores ==
  /\ thr.pc = "storing" /\ Moves("cleaned") /\ own'.stuck = TRUE
  /\ UNCHANGED <<disk, plan, template, session, scr>>
Tells ==
  /\ thr.pc = "cleaned" /\ Moves("ending") /\ UNCHANGED <<plan, session>> /\ SameOwner
Dies ==
  /\ thr.pc = "ending" /\ thr'.job = "none" /\ thr'.pc = "dead" /\ thr'.choice = T!Empty
  /\ UNCHANGED plan /\ UNCHANGED disk /\ Quietly

(* The event loop. *)
Begins(j, l) == /\ thr.pc = "dead" /\ thr'.job = j /\ thr'.pc = l
                /\ j # "resolve" => thr'.choice = T!Empty
Shows(p, m) == /\ scr'.phase = p /\ scr'.modal = m /\ scr'.preview = scr.preview
               /\ scr'.left = scr.left /\ scr'.released = scr.released
               /\ scr'.quitting = scr.quitting
Letsgo == /\ scr'.left = TRUE /\ scr'.released = TRUE /\ scr'.quitting = scr.quitting
          /\ scr'.modal = scr.modal /\ scr'.preview = scr.preview /\ scr'.phase = "complete"
Quits(r, q) == /\ scr'.quitting = q /\ scr'.released = r /\ scr'.left = scr.left
               /\ scr'.modal = scr.modal /\ scr'.preview = scr.preview /\ scr'.phase = scr.phase
AskedToClean ==
  /\ T!Usable /\ UNCHANGED <<T!World, scr>> /\ (UNCHANGED thr \/ Begins("cleanup", "cleanup"))
AskedAgain ==
  /\ T!Usable /\ T!Idle /\ Shows("conflicts", scr.modal) /\ UNCHANGED <<T!World, thr>>
Finishes ==
  /\ T!Usable /\ T!Idle /\ UNCHANGED <<T!World, thr>>
  /\ \/ UNCHANGED scr
     \/ /\ Letsgo
        /\ session \in {"discarded", "published"} \/ (plan.held /\ plan.pub = "published")
ShowsPreview ==
  /\ T!Usable /\ T!Idle /\ session = "resolved" /\ UNCHANGED <<T!World, thr>>
  /\ scr'.phase = "preview" /\ scr'.preview = plan.res /\ scr'.modal = scr.modal
  /\ scr'.left = scr.left /\ scr'.released = scr.released /\ scr'.quitting = scr.quitting
SendsChoices ==
  /\ T!Usable /\ ~scr.modal /\ Shows("resolving", FALSE) /\ UNCHANGED T!World
  /\ UNCHANGED thr \/ Begins("resolve", "request")
OpensDialog ==
  /\ T!Usable /\ scr.phase = "preview" /\ Shows("preview", TRUE) /\ UNCHANGED <<T!World, thr>>
Confirms ==
  /\ T!Usable /\ scr.modal /\ Shows("publishing", FALSE) /\ UNCHANGED T!World
  /\ UNCHANGED thr \/ Begins("publish", "prepare")
Declines ==
  /\ T!Usable /\ scr.modal /\ Shows(scr.phase, FALSE) /\ UNCHANGED <<T!World, thr>>
Unmounts ==
  /\ scr.quitting = "no" /\ ~scr.released /\ UNCHANGED <<T!World, thr>>
  /\ scr'.quitting = "waiting" /\ scr'.phase = "starting" /\ scr'.modal = FALSE
  /\ scr'.preview = scr.preview /\ scr'.left = scr.left /\ scr'.released = scr.released
GoesOn ==
  /\ scr.quitting \in {"waiting", "cleaning"} /\ ~T!Idle /\ Quits(scr.released, "over")
  /\ UNCHANGED <<T!World, own, thr>>
CleansLast ==
  /\ scr.quitting = "waiting" /\ T!Idle /\ Quits(scr.released, "cleaning")
  /\ plan.held /\ thr'.job = "shutdown" /\ thr'.pc = "cleanup" /\ thr'.choice = T!Empty
  /\ UNCHANGED <<T!World, own>>
LetsGoLast ==
  /\ scr.quitting \in {"waiting", "cleaning"} /\ T!Idle
  /\ scr.quitting = "waiting" =>
       \/ session = "published" \/ ~plan.held \/ plan.pub = "uncertain"
       \/ plan.pub = "published" /\ session # "cleanup-pending"
  /\ \/ session = "published" /\ Quits(TRUE, "over")
     \/ ~own.stuck /\ session # "publication-uncertain" /\ Quits(TRUE, "over")
     \/ (own.stuck \/ session = "publication-uncertain") /\ Quits(scr.released, "over")
  /\ UNCHANGED <<T!World, own, thr>>
Intrudes ==
  /\ UNCHANGED <<template, plan, session, thr, own, scr>> /\ SameStaged
  /\ \/ Laid(disk.tree, disk.staging)
     \/ Laid("absent", IF disk.staging = "tree" THEN "swept" ELSE disk.staging)
  /\ SameTarget \/ disk'.target \in {"none", "foreign"}

KeptTypes ==
  /\ disk' \in Disk /\ plan' \in Plan /\ thr' \in Step /\ own' \in Owner /\ scr' \in Screen
  /\ session' \in Sessions /\ cancel' \in BOOLEAN /\ UNCHANGED template
  /\ UNCHANGED outside \/ (outside < MaxOutside /\ outside' = outside + 1)
  /\ UNCHANGED faults \/ (faults < MaxFaults /\ faults' = faults + 1)

LEMMA Kinds ==
  UNCHANGED template => /\ Disk' = Disk /\ Plan' = Plan /\ Step' = Step /\ Screen' = Screen
                        /\ TemplateResult' = TemplateResult /\ Slots' = Slots /\ Dropped' = Dropped /\ T!Choices' = T!Choices
BY DEF Disk, Plan, Step, Screen, TemplateResult, Slots, Dropped, Questions, T!Choices

LEMMA Going ==
  ASSUME thr \in Step, NEW l \in Pcs, thr' = [thr EXCEPT !.pc = l]
  PROVE  thr' \in Step /\ Moves(l)
BY DEF Step, Moves

LEMMA Updates ==
  ASSUME plan \in Plan
  PROVE
    /\ plan' = [plan EXCEPT !.locks = TRUE] =>
         plan' \in Plan /\ Ctl(plan.held, plan.tx, TRUE, plan.pub, plan.committed) /\ SameData
    /\ plan' = [plan EXCEPT !.locks = TRUE, !.stuck = TRUE, !.held = TRUE] =>
         plan' \in Plan /\ Ctl(TRUE, plan.tx, TRUE, plan.pub, plan.committed) /\ SameData
    /\ plan' = [plan EXCEPT !.tx = TRUE] =>
         plan' \in Plan /\ Ctl(plan.held, TRUE, plan.locks, plan.pub, plan.committed) /\ SameData
    /\ plan' = [plan EXCEPT !.held = TRUE] =>
         plan' \in Plan /\ Ctl(TRUE, plan.tx, plan.locks, plan.pub, plan.committed) /\ SameData
    /\ plan' = [plan EXCEPT !.pub = "uncertain"] =>
         plan' \in Plan /\ Ctl(plan.held, plan.tx, plan.locks, "uncertain", plan.committed) /\ SameData
    /\ plan' = [plan EXCEPT !.pub = "published", !.committed = TRUE] =>
         plan' \in Plan /\ Ctl(plan.held, plan.tx, plan.locks, "published", TRUE) /\ SameData
    /\ plan' = [plan EXCEPT !.pub = "not-published"] =>
         plan' \in Plan /\ Ctl(plan.held, plan.tx, plan.locks, "not-published", plan.committed) /\ SameData
    /\ plan' = [plan EXCEPT !.stuck = TRUE] =>
         plan' \in Plan /\ Ctl(plan.held, plan.tx, plan.locks, plan.pub, plan.committed) /\ SameData
    /\ plan' = [plan EXCEPT !.stuck = TRUE, !.held = TRUE] =>
         plan' \in Plan /\ Ctl(TRUE, plan.tx, plan.locks, plan.pub, plan.committed) /\ SameData
    /\ plan' = [plan EXCEPT !.removing = TRUE] =>
         plan' \in Plan /\ Ctl(plan.held, plan.tx, plan.locks, plan.pub, plan.committed) /\ SameData
    /\ plan' = [plan EXCEPT !.cleaned = TRUE, !.removing = FALSE] =>
         plan' \in Plan /\ Ctl(plan.held, plan.tx, plan.locks, plan.pub, plan.committed) /\ SameData
    /\ plan' = [plan EXCEPT !.locks = FALSE, !.stuck = FALSE] =>
         plan' \in Plan /\ Ctl(plan.held, plan.tx, FALSE, plan.pub, plan.committed) /\ SameData
<1>1. plan' = [plan EXCEPT !.locks = TRUE] =>
       plan' \in Plan /\ Ctl(plan.held, plan.tx, TRUE, plan.pub, plan.committed) /\ SameData
  BY ZenonT(20) DEF Plan, Ctl, SameData
<1>2. plan' = [plan EXCEPT !.locks = TRUE, !.stuck = TRUE, !.held = TRUE] =>
       plan' \in Plan /\ Ctl(TRUE, plan.tx, TRUE, plan.pub, plan.committed) /\ SameData
  BY ZenonT(20) DEF Plan, Ctl, SameData
<1>3. plan' = [plan EXCEPT !.tx = TRUE] =>
       plan' \in Plan /\ Ctl(plan.held, TRUE, plan.locks, plan.pub, plan.committed) /\ SameData
  BY ZenonT(20) DEF Plan, Ctl, SameData
<1>4. plan' = [plan EXCEPT !.held = TRUE] =>
       plan' \in Plan /\ Ctl(TRUE, plan.tx, plan.locks, plan.pub, plan.committed) /\ SameData
  BY ZenonT(20) DEF Plan, Ctl, SameData
<1>5. plan' = [plan EXCEPT !.pub = "uncertain"] =>
       plan' \in Plan /\ Ctl(plan.held, plan.tx, plan.locks, "uncertain", plan.committed) /\ SameData
  BY ZenonT(20) DEF Plan, Ctl, SameData
<1>6. plan' = [plan EXCEPT !.pub = "published", !.committed = TRUE] =>
       plan' \in Plan /\ Ctl(plan.held, plan.tx, plan.locks, "published", TRUE) /\ SameData
  BY ZenonT(20) DEF Plan, Ctl, SameData
<1>7. plan' = [plan EXCEPT !.pub = "not-published"] =>
       plan' \in Plan /\ Ctl(plan.held, plan.tx, plan.locks, "not-published", plan.committed) /\ SameData
  BY ZenonT(20) DEF Plan, Ctl, SameData
<1>8. plan' = [plan EXCEPT !.stuck = TRUE] =>
       plan' \in Plan /\ Ctl(plan.held, plan.tx, plan.locks, plan.pub, plan.committed) /\ SameData
  BY ZenonT(20) DEF Plan, Ctl, SameData
<1>9. plan' = [plan EXCEPT !.stuck = TRUE, !.held = TRUE] =>
       plan' \in Plan /\ Ctl(TRUE, plan.tx, plan.locks, plan.pub, plan.committed) /\ SameData
  BY ZenonT(20) DEF Plan, Ctl, SameData
<1>10. plan' = [plan EXCEPT !.removing = TRUE] =>
       plan' \in Plan /\ Ctl(plan.held, plan.tx, plan.locks, plan.pub, plan.committed) /\ SameData
  BY ZenonT(20) DEF Plan, Ctl, SameData
<1>11. plan' = [plan EXCEPT !.cleaned = TRUE, !.removing = FALSE] =>
       plan' \in Plan /\ Ctl(plan.held, plan.tx, plan.locks, plan.pub, plan.committed) /\ SameData
  BY ZenonT(20) DEF Plan, Ctl, SameData
<1>12. plan' = [plan EXCEPT !.locks = FALSE, !.stuck = FALSE] =>
       plan' \in Plan /\ Ctl(plan.held, plan.tx, FALSE, plan.pub, plan.committed) /\ SameData
  BY ZenonT(20) DEF Plan, Ctl, SameData
<1> QED
  BY <1>1, <1>2, <1>3, <1>4, <1>5, <1>6, <1>7, <1>8, <1>9, <1>10, <1>11, <1>12, Zenon

LEMMA DiskUpdates ==
  ASSUME disk \in Disk
  PROVE
    /\ disk' = [disk EXCEPT !.tree = "full", !.staging = "tree"] =>
         disk' \in Disk /\ Laid("full", "tree") /\ SameStaged /\ SameTarget
    /\ disk' = [disk EXCEPT !.tree = "bare"] =>
         disk' \in Disk /\ Laid("bare", disk.staging) /\ SameStaged /\ SameTarget
    /\ disk' = [disk EXCEPT !.staged = FALSE] => disk' \in Disk /\ SamePlace
    /\ disk' = [disk EXCEPT !.target = "ours", !.staging = "moved"] =>
         disk' \in Disk /\ Laid(disk.tree, "moved") /\ SameStaged /\ disk'.target = "ours"
    /\ disk' = [disk EXCEPT !.tree = "emptied"] =>
         disk' \in Disk /\ Laid("emptied", disk.staging) /\ SameStaged /\ SameTarget
    /\ disk' = [disk EXCEPT !.tree = "absent"] =>
         disk' \in Disk /\ Laid("absent", disk.staging) /\ SameStaged /\ SameTarget
    /\ disk' = [disk EXCEPT !.moved = TRUE] => disk' \in Disk /\ SamePlace /\ SameStaged
    /\ disk' = [disk EXCEPT !.altered = TRUE] => disk' \in Disk /\ SamePlace /\ SameStaged
    /\ \A t \in {"none", "foreign"} : disk' = [disk EXCEPT !.target = t] =>
         disk' \in Disk /\ Laid(disk.tree, disk.staging) /\ SameStaged /\ disk'.target = t
<1> USE DEF Disk, Laid, SameStaged, SameTarget, SamePlace
<1>1. disk' = [disk EXCEPT !.tree = "full", !.staging = "tree"] =>
        disk' \in Disk /\ Laid("full", "tree") /\ SameStaged /\ SameTarget
  BY ZenonT(20)
<1>2. disk' = [disk EXCEPT !.tree = "bare"] =>
        disk' \in Disk /\ Laid("bare", disk.staging) /\ SameStaged /\ SameTarget
  BY ZenonT(20)
<1>3. disk' = [disk EXCEPT !.staged = FALSE] => disk' \in Disk /\ SamePlace
  BY ZenonT(20)
<1>4. disk' = [disk EXCEPT !.target = "ours", !.staging = "moved"] =>
        disk' \in Disk /\ Laid(disk.tree, "moved") /\ SameStaged /\ disk'.target = "ours"
  BY ZenonT(20)
<1>5. disk' = [disk EXCEPT !.tree = "emptied"] =>
        disk' \in Disk /\ Laid("emptied", disk.staging) /\ SameStaged /\ SameTarget
  BY ZenonT(20)
<1>6. disk' = [disk EXCEPT !.tree = "absent"] =>
        disk' \in Disk /\ Laid("absent", disk.staging) /\ SameStaged /\ SameTarget
  BY ZenonT(20)
<1>7. disk' = [disk EXCEPT !.moved = TRUE] => disk' \in Disk /\ SamePlace /\ SameStaged
  BY ZenonT(20)
<1>8. disk' = [disk EXCEPT !.altered = TRUE] => disk' \in Disk /\ SamePlace /\ SameStaged
  BY ZenonT(20)
<1>9. \A t \in {"none", "foreign"} : disk' = [disk EXCEPT !.target = t] =>
        disk' \in Disk /\ Laid(disk.tree, disk.staging) /\ SameStaged /\ disk'.target = t
  BY ZenonT(20)
<1> HIDE DEF Disk, Laid, SameStaged, SameTarget, SamePlace
<1> QED
  BY <1>1, <1>2, <1>3, <1>4, <1>5, <1>6, <1>7, <1>8, <1>9, Zenon

LEMMA AcquireCases ==
  ASSUME Types, T!Acquire, UNCHANGED scr
  PROVE  KeptTypes /\ (Locks \/ LocksNot \/ LocksStay)
<1> USE DEF Types, DiskTypes, PlanTypes, TemplateStepTypes, OwnerTypes, ScreenTypes,
       TemplateBoundTypes, KeptTypes
<1>0. thr.pc = "planning" /\ UNCHANGED disk /\ Quietly /\ UNCHANGED cancel
  BY Zenon DEF T!Acquire, Quietly
<1>1. CASE T!NoFault /\ plan' = [plan EXCEPT !.locks = TRUE] /\ T!Goto("checking")
  BY <1>0, <1>1, Updates, Going, ZenonT(20) DEF Locks, Quietly, Pcs
<1>2. CASE T!Interrupted /\ UNCHANGED plan /\ T!Goto("raise")
  BY <1>0, <1>2, Updates, Going, ZenonT(20) DEF LocksNot, Quietly, Pcs
<1>3. CASE /\ T!Fault /\ T!Goto("raise")
           /\ plan' = [plan EXCEPT !.locks = TRUE, !.stuck = TRUE, !.held = TRUE]
  BY <1>0, <1>3, Updates, Going, ZenonT(20) DEF LocksStay, Quietly, Pcs
<1> QED
  BY <1>0, <1>1, <1>2, <1>3, Zenon DEF T!Acquire

LEMMA MakeTransactionCases ==
  ASSUME Types, T!MakeTransaction, UNCHANGED scr
  PROVE  KeptTypes /\ (Makes \/ MakesNot)
<1> USE DEF Types, DiskTypes, PlanTypes, TemplateStepTypes, OwnerTypes, ScreenTypes,
       TemplateBoundTypes, KeptTypes
<1>0. thr.pc = "checking" /\ Quietly /\ UNCHANGED cancel
  BY Zenon DEF T!MakeTransaction, Quietly
<1>1. CASE /\ T!NoFault /\ T!Goto("copying") /\ plan' = [plan EXCEPT !.tx = TRUE]
           /\ disk' = [disk EXCEPT !.tree = "full", !.staging = "tree"]
  BY <1>0, <1>1, Updates, Going, DiskUpdates, ZenonT(20) DEF Makes, Quietly, Pcs, SamePlace
<1>2. CASE (T!NoFault \/ T!Interrupted) /\ UNCHANGED <<disk, plan>> /\ T!Goto("unlock")
  BY <1>0, <1>2, Updates, Going, ZenonT(20) DEF MakesNot, Quietly, Pcs, SameStaged, SameTarget, Laid
<1>3. CASE /\ T!Fault /\ T!Goto("unlock") /\ UNCHANGED plan
           /\ disk' = [disk EXCEPT !.tree = "bare"]
  BY <1>0, <1>3, Updates, Going, DiskUpdates, ZenonT(20) DEF MakesNot, Quietly, Pcs, SameStaged,
     SameTarget, Laid, SamePlace
<1> QED
  BY <1>0, <1>1, <1>2, <1>3, Zenon DEF T!MakeTransaction

LEMMA ApplyCases ==
  ASSUME Types, T!Apply, UNCHANGED scr
  PROVE  KeptTypes /\ (TemplateApplies \/ AppliesNot)
<1> USE DEF Types, DiskTypes, PlanTypes, TemplateStepTypes, OwnerTypes, ScreenTypes,
       TemplateBoundTypes, KeptTypes
<1>0. thr.pc = "apply" /\ UNCHANGED disk /\ Quietly /\ UNCHANGED cancel
  BY Zenon DEF T!Apply, Quietly
<1>1. CASE /\ T!Verified /\ T!NoFault /\ T!Goto("rename") /\ plan' = [plan EXCEPT !.pub = "uncertain"]
  BY <1>0, <1>1, Updates, Going, ZenonT(20) DEF TemplateApplies, Quietly, Pcs
<1>2. CASE (T!Interrupted \/ T!NoFault) /\ T!Goto("raise") /\ UNCHANGED plan
  BY <1>0, <1>2, Updates, Going, ZenonT(20) DEF AppliesNot, Quietly, Pcs
<1> QED
  BY <1>0, <1>1, <1>2, Zenon DEF T!Apply

LEMMA RenameCases ==
  ASSUME Types, T!Rename, UNCHANGED scr
  PROVE  KeptTypes /\ (TemplateRenames \/ TemplateRenamesNot)
<1> USE DEF Types, DiskTypes, PlanTypes, TemplateStepTypes, OwnerTypes, ScreenTypes,
       TemplateBoundTypes, KeptTypes
<1>0. thr.pc = "rename" /\ T!Goto("reconcile") /\ UNCHANGED plan /\ Quietly /\ UNCHANGED cancel
  BY Zenon DEF T!Rename, Quietly
<1>1. CASE /\ disk.target = "none" /\ disk.staging = "tree" /\ (T!NoFault \/ T!Fault)
           /\ disk' = [disk EXCEPT !.target = "ours", !.staging = "moved"]
  BY <1>0, <1>1, Updates, Going, DiskUpdates, ZenonT(20) DEF TemplateRenames, Quietly, Pcs,
     SamePlace
<1>2. CASE (T!Fault \/ T!NoFault) /\ UNCHANGED disk
  BY <1>0, <1>2, Updates, Going, ZenonT(20) DEF TemplateRenamesNot, Quietly, Pcs
<1> QED
  BY <1>0, <1>1, <1>2, Zenon DEF T!Rename

LEMMA ReconcileCases ==
  ASSUME Types, T!Reconcile, UNCHANGED scr
  PROVE  KeptTypes /\ (TemplateFinds \/ FindsStaged \/ FindsNeither)
<1> USE DEF Types, DiskTypes, PlanTypes, TemplateStepTypes, OwnerTypes, ScreenTypes,
       TemplateBoundTypes, KeptTypes
<1>0. thr.pc = "reconcile" /\ UNCHANGED disk /\ Quietly /\ UNCHANGED cancel
  BY Zenon DEF T!Reconcile, Quietly
<1>1. CASE /\ disk.staging = "moved" /\ T!NoFault /\ T!Goto("verify")
           /\ plan' = [plan EXCEPT !.pub = "published", !.committed = TRUE]
  BY <1>0, <1>1, Updates, Going, ZenonT(20) DEF TemplateFinds, Quietly, Pcs
<1>2. CASE /\ disk.staging = "tree" /\ T!NoFault /\ T!Goto("raise")
           /\ plan' = [plan EXCEPT !.pub = "not-published"]
  BY <1>0, <1>2, Updates, Going, ZenonT(20) DEF FindsStaged, Quietly, Pcs
<1>3. CASE (T!Fault \/ T!NoFault) /\ UNCHANGED plan /\ T!Goto("raise")
  BY <1>0, <1>3, Updates, Going, ZenonT(20) DEF FindsNeither, Quietly, Pcs
<1> QED
  BY <1>0, <1>1, <1>2, <1>3, Zenon DEF T!Reconcile

LEMMA VerifyCases ==
  ASSUME Types, T!Verify, UNCHANGED scr
  PROVE  KeptTypes /\ (TemplateVerifies \/ TemplateVerifiesNot)
<1> USE DEF Types, DiskTypes, PlanTypes, TemplateStepTypes, OwnerTypes, ScreenTypes,
       TemplateBoundTypes, KeptTypes
<1>0. thr.pc \in {"verify", "reverify"} /\ UNCHANGED disk /\ Quietly /\ UNCHANGED cancel
  BY Zenon DEF T!Verify, Quietly
<1>1. CASE T!NoFault /\ T!Goto("empty") /\ UNCHANGED plan
  BY <1>0, <1>1, Updates, Going, ZenonT(20) DEF TemplateVerifies, Quietly, Pcs
<1>2. CASE /\ thr.pc = "verify" /\ (T!NoFault \/ T!Fault) /\ T!Goto("raise")
           /\ plan' = [plan EXCEPT !.stuck = TRUE]
  BY <1>0, <1>2, Updates, Going, ZenonT(20) DEF TemplateVerifiesNot, Quietly, Pcs, SameCtl
<1>3. CASE /\ thr.pc = "reverify" /\ (T!NoFault \/ T!Fault) /\ T!Goto("unfinished")
           /\ plan' = [plan EXCEPT !.stuck = TRUE]
  BY <1>0, <1>3, Updates, Going, ZenonT(20) DEF TemplateVerifiesNot, Quietly, Pcs, SameCtl
<1> QED
  BY <1>0, <1>1, <1>2, <1>3, Zenon DEF T!Verify

LEMMA RemoveTransactionCases ==
  ASSUME Types, T!RemoveTransaction, UNCHANGED scr
  PROVE  KeptTypes /\ (Removes \/ ClearStuck)
<1> USE DEF Types, DiskTypes, PlanTypes, TemplateStepTypes, OwnerTypes, ScreenTypes,
       TemplateBoundTypes, KeptTypes
<1>0. thr.pc = "rmdir" /\ Quietly /\ UNCHANGED cancel
  BY Zenon DEF T!RemoveTransaction, Quietly
<1>1. CASE /\ disk.tree = "emptied" /\ T!NoFault /\ T!Goto("sync")
           /\ disk' = [disk EXCEPT !.tree = "absent"] /\ plan' = [plan EXCEPT !.removing = TRUE]
  BY <1>0, <1>1, Updates, Going, DiskUpdates, ZenonT(20) DEF Removes, Quietly, Pcs, SameCtl,
     SamePlace
<1>2. CASE (T!Fault \/ T!NoFault) /\ UNCHANGED disk /\ T!CleanupFails
  BY <1>0, <1>2, Updates, Going, ZenonT(20) DEF ClearStuck, Quietly, Pcs, Stuck
<1> QED
  BY <1>0, <1>1, <1>2, Zenon DEF T!RemoveTransaction

LEMMA SyncRemovalCases ==
  ASSUME Types, T!SyncRemoval, UNCHANGED scr
  PROVE  KeptTypes /\ (Syncs \/ ClearStuck)
<1> USE DEF Types, DiskTypes, PlanTypes, TemplateStepTypes, OwnerTypes, ScreenTypes,
       TemplateBoundTypes, KeptTypes
<1>0. thr.pc = "sync" /\ UNCHANGED disk /\ Quietly /\ UNCHANGED cancel
  BY Zenon DEF T!SyncRemoval, Quietly
<1>1. CASE /\ T!NoFault /\ T!Goto("unlock")
           /\ plan' = [plan EXCEPT !.cleaned = TRUE, !.removing = FALSE]
  BY <1>0, <1>1, Updates, Going, ZenonT(20) DEF Syncs, Quietly, Pcs, SameCtl
<1>2. CASE T!Fault /\ T!CleanupFails
  BY <1>0, <1>2, Updates, Going, ZenonT(20) DEF ClearStuck, Quietly, Pcs, Stuck
<1> QED
  BY <1>0, <1>1, <1>2, Zenon DEF T!SyncRemoval

LEMMA EmptySlots == T!Empty \in Slots /\ T!Empty \in Dropped /\ T!Empty \in Questions /\ T!Empty \in T!Choices
<1>1. \A S : T!Empty \in [{} -> S]
  BY DEF T!Empty
<1>2. {} \in SUBSET DOMAIN template.roots
  OBVIOUS
<1> QED
  BY <1>1, <1>2, Zenon DEF Slots, Dropped, Questions, T!Choices

LEMMA CopySourceCases ==
  ASSUME Types, T!CopySource, UNCHANGED scr
  PROVE  KeptTypes /\ (CopiesSource \/ CopiesNot)
<1> USE DEF Types, DiskTypes, PlanTypes, TemplateStepTypes, OwnerTypes, ScreenTypes,
       TemplateBoundTypes, KeptTypes
<1>0. thr.pc = "copying" /\ UNCHANGED <<disk, template, cancel, own, scr>>
  BY Zenon DEF T!CopySource
<1>1. CASE T!NoFault /\ plan' = [plan EXCEPT !.held = TRUE] /\ session' = "resolving" /\ T!Goto("resolving")
  BY <1>0, <1>1, Updates, Going, ZenonT(20) DEF CopiesSource, Sessions, Pcs
<1>2. CASE T!Fault /\ UNCHANGED <<plan, session>> /\ T!Goto("empty")
  BY <1>0, <1>2, Going, ZenonT(20) DEF CopiesNot, Quietly, Pcs
<1> QED
  BY <1>1, <1>2, Zenon DEF T!CopySource

LEMMA PrepareCases ==
  ASSUME Types, T!Prepare, UNCHANGED scr
  PROVE  KeptTypes /\ (Prepares \/ PreparesNot)
<1> USE DEF Types, DiskTypes, PlanTypes, TemplateStepTypes, OwnerTypes, ScreenTypes,
       TemplateBoundTypes, KeptTypes
<1>0. thr.pc = "prepare" /\ UNCHANGED <<disk, plan, template, cancel, own, scr>>
  BY Zenon DEF T!Prepare
<1>1. CASE T!Goto("refused") /\ T!NoFault /\ UNCHANGED session
  BY <1>0, <1>1, Going, ZenonT(20) DEF PreparesNot, Quietly, Pcs
<1>2. CASE session = "resolved" /\ T!NoFault /\ session' = "publishing" /\ T!Goto("apply")
  BY <1>0, <1>2, Going, ZenonT(20) DEF Prepares, Sessions, Pcs
<1>3. CASE /\ session = "resolved" /\ (T!Interrupted \/ T!NoFault) /\ T!Goto("raise")
           /\ UNCHANGED session
  BY <1>0, <1>3, Going, ZenonT(20) DEF PreparesNot, Quietly, Pcs
<1> QED
  BY <1>1, <1>2, <1>3, Zenon DEF T!Prepare

(* CleanupFails keeps the plan, which is stuck. *)
LEMMA FailedCleanup ==
  ASSUME plan \in Plan, thr \in Step, T!CleanupFails
  PROVE  Stuck /\ plan' \in Plan /\ thr' \in Step
<1>1. CASE thr.job \in {"start", "publish"}
  BY <1>1, Updates, Going, ZenonT(20) DEF Stuck, Pcs
<1>2. CASE thr.job \notin {"start", "publish"}
  BY <1>2, Updates, Going, ZenonT(20) DEF Stuck, Pcs
<1> QED
  BY <1>1, <1>2

LEMMA EmptyTransactionCases ==
  ASSUME Types, T!EmptyTransaction, UNCHANGED scr
  PROVE  KeptTypes /\ (Empties \/ EmptiesNot \/ FindsEmpty)
<1> USE DEF Types, DiskTypes, PlanTypes, TemplateStepTypes, OwnerTypes, ScreenTypes,
       TemplateBoundTypes, KeptTypes
<1>0. thr.pc = "empty" /\ Quietly /\ UNCHANGED cancel
  BY Zenon DEF T!EmptyTransaction, Quietly
<1> DEFINE gone == IF disk.staging # "tree" THEN disk
                   ELSE [disk EXCEPT !.staging = "gone", !.staged = FALSE, !.roots = T!Empty,
                                     !.pins = {}]
<1>1. /\ gone \in Disk /\ gone.tree = disk.tree /\ gone.staging = Swept
      /\ gone.target = disk.target
      /\ disk.staging # "tree" => gone = disk
  BY EmptySlots, ZenonT(20) DEF Disk, Swept
<1> HIDE DEF gone
<1>2. CASE /\ plan.tx /\ disk.tree # "absent" /\ T!NoFault /\ UNCHANGED plan
           /\ disk' = [gone EXCEPT !.tree = "emptied"] /\ T!Goto("rmdir")
  <2>1. /\ disk' \in Disk /\ disk'.tree = "emptied" /\ disk'.staging = gone.staging
        /\ disk'.target = gone.target /\ disk'.staged = gone.staged /\ disk'.roots = gone.roots
        /\ disk'.pins = gone.pins
    BY <1>1, <1>2, ZenonT(20) DEF Disk
  <2> QED
    BY <1>0, <1>1, <1>2, <2>1, Going, ZenonT(20)
    DEF Empties, Laid, SweptWith, SameStaged, SameTarget, Quietly, Pcs
<1>3. CASE plan.tx /\ T!Fault /\ disk' \in {disk, gone} /\ T!CleanupFails
  BY <1>0, <1>1, <1>3, FailedCleanup, ZenonT(20)
  DEF EmptiesNot, SweptWith, SameStaged, SameTarget, Quietly, Swept
<1>4. CASE /\ plan.tx /\ disk.tree = "absent" /\ T!NoFault /\ UNCHANGED <<disk, plan>>
           /\ T!Goto("sync") \/ T!Goto("unlock")
  BY <1>0, <1>4, Going, ZenonT(20) DEF FindsEmpty, Quietly, Pcs
<1>5. CASE plan.tx /\ disk.tree = "absent" /\ T!NoFault /\ UNCHANGED disk /\ T!CleanupFails
  BY <1>0, <1>5, FailedCleanup, ZenonT(20)
  DEF EmptiesNot, SweptWith, SameStaged, SameTarget, Quietly
<1>6. CASE ~plan.tx /\ T!NoFault /\ T!Goto("unlock") /\ UNCHANGED <<disk, plan>>
  BY <1>0, <1>6, Going, ZenonT(20) DEF FindsEmpty, Quietly, Pcs
<1> QED
  BY <1>2, <1>3, <1>4, <1>5, <1>6, Zenon DEF T!EmptyTransaction, gone

LEMMA ReleaseLocksCases ==
  ASSUME Types, T!ReleaseLocks, UNCHANGED scr
  PROVE  KeptTypes /\ (TemplateReleases \/ ClearStuck)
<1> USE DEF Types, DiskTypes, PlanTypes, TemplateStepTypes, OwnerTypes, ScreenTypes,
       TemplateBoundTypes, KeptTypes
<1>0. thr.pc = "unlock" /\ UNCHANGED <<disk, template, cancel, own, scr>>
  BY Zenon DEF T!ReleaseLocks
<1>1. CASE /\ T!NoFault /\ plan' = [plan EXCEPT !.locks = FALSE, !.stuck = FALSE]
           /\ thr.job = "start" /\ T!Goto("raise") /\ UNCHANGED session
  BY <1>0, <1>1, Updates, Going, ZenonT(20) DEF TemplateReleases, Pcs
<1>2. CASE /\ T!NoFault /\ plan' = [plan EXCEPT !.locks = FALSE, !.stuck = FALSE]
           /\ thr.job = "publish" /\ T!Goto("ending") /\ session' = "published"
  BY <1>0, <1>2, Updates, Going, ZenonT(20) DEF TemplateReleases, Pcs, Sessions
<1>3. CASE /\ T!NoFault /\ plan' = [plan EXCEPT !.locks = FALSE, !.stuck = FALSE]
           /\ thr.job \notin {"start", "publish"} /\ T!Goto("cleaned")
           /\ session' = IF plan.committed THEN "published" ELSE "discarded"
  BY <1>0, <1>3, Updates, Going, ZenonT(20) DEF TemplateReleases, Pcs, Sessions
<1>4. CASE T!Fault /\ T!CleanupFails /\ UNCHANGED session
  BY <1>0, <1>4, FailedCleanup, ZenonT(20) DEF ClearStuck, Quietly
<1> QED
  BY <1>1, <1>2, <1>3, <1>4 DEF T!ReleaseLocks

LEMMA RaisedCases ==
  ASSUME Types, T!Raised, UNCHANGED scr
  PROVE  KeptTypes /\ (AsksAgain \/ Raises)
<1> USE DEF Types, DiskTypes, PlanTypes, TemplateStepTypes, OwnerTypes, ScreenTypes,
       TemplateBoundTypes, KeptTypes
<1>0. /\ thr.pc = "raise" /\ T!Goto("ending") /\ UNCHANGED <<disk, plan, template, cancel>>
      /\ own' = [own EXCEPT !.error = TRUE, !.orig = TRUE] /\ (T!NoFault \/ T!Fault)
  BY Zenon DEF T!Raised
<1>1. own' \in Owner /\ own'.stuck = own.stuck
  BY <1>0, ZenonT(20) DEF Owner
<1>2. CASE thr.job = "resolve" /\ session' = "resolution-required"
  BY <1>0, <1>1, <1>2, Going, ZenonT(20) DEF AsksAgain, SameOwner, Sessions, Pcs
<1>3. CASE session' = T!Failed
  <2>1. plan.held \in BOOLEAN
    BY Zenon DEF Plan
  <2>2. /\ T!Failed \in {"publication-uncertain", "cleanup-pending", "cancelled", "failed"}
        /\ T!Failed = "publication-uncertain" <=> plan.held /\ plan.pub = "uncertain"
        /\ plan.held /\ plan.pub = "published" => T!Failed = "cleanup-pending"
    BY TemplateLifecycles, <2>1 DEF T!Failed
  <2> QED
    BY <1>0, <1>1, <1>3, <2>2, Going, ZenonT(20) DEF Raises, SameOwner, Sessions, Pcs
<1> QED
  BY <1>2, <1>3, Zenon DEF T!Raised

LEMMA EndingCases ==
  ASSUME Types, T!Refused \/ T!Unfinished \/ T!StoreError \/ T!Cleaned \/ T!ThreadEnds, UNCHANGED scr
  PROVE  KeptTypes /\ (Refuses \/ Pends \/ Stores \/ Tells \/ Dies)
<1> USE DEF Types, DiskTypes, PlanTypes, TemplateStepTypes, OwnerTypes, ScreenTypes,
       TemplateBoundTypes, KeptTypes
<1>1. CASE T!Refused
  <2>1. own' \in Owner /\ own'.stuck = own.stuck
    BY <1>1, ZenonT(20) DEF T!Refused, Owner
  <2> QED
    BY <1>1, <2>1, Going, ZenonT(20) DEF T!Refused, Refuses, SameOwner, Pcs
<1>2. CASE T!Unfinished
  BY <1>2, Going, ZenonT(20) DEF T!Unfinished, Pends, Sessions, Pcs
<1>3. CASE T!StoreError
  <2>1. own' \in Owner /\ own'.stuck = TRUE
    BY <1>3, ZenonT(20) DEF T!StoreError, Owner
  <2> QED
    BY <1>3, <2>1, Going, ZenonT(20) DEF T!StoreError, Stores, Pcs
<1>4. CASE T!Cleaned
  <2>1. own' \in Owner /\ own'.stuck = own.stuck
    BY <1>4, ZenonT(20) DEF T!Cleaned, Owner
  <2> QED
    BY <1>4, <2>1, Going, ZenonT(20) DEF T!Cleaned, Tells, SameOwner, Pcs
<1>5. CASE T!ThreadEnds
  <2>1. thr' = [job |-> "none", pc |-> "dead", choice |-> T!Empty, before |-> 0]
    BY <1>5 DEF T!ThreadEnds
  <2>2. thr' \in Step /\ thr'.job = "none" /\ thr'.pc = "dead" /\ thr'.choice = T!Empty
    BY <2>1, EmptySlots, ZenonT(20) DEF Step, Pcs, T!Thread
  <2> QED
    BY <1>5, <2>2, ZenonT(20) DEF T!ThreadEnds, Dies, Quietly
<1> QED
  BY <1>1, <1>2, <1>3, <1>4, <1>5

LEMMA ForgottenPlan ==
  ASSUME plan \in Plan, TemplateRoundShape, ~Working, plan' = T!Forgotten
  PROVE  plan' \in Plan /\ SameCtl /\ plan'.res.status = "none"
<1> DEFINE asked == [i \in DOMAIN plan.res.open |-> [id |-> T!Unknown, replace |-> FALSE]]
           result == [T!NoResult EXCEPT !.open = asked]
<1>1. plan.res \in TemplateResult
  BY Zenon DEF Plan
<1>2. plan.res.open \in Questions
  BY <1>1, Zenon DEF TemplateResult
<1>3. PICK d \in SUBSET DOMAIN template.roots :
        plan.res.open \in [d -> [id : DOMAIN Identity \cup {T!Unknown}, replace : BOOLEAN]]
  BY <1>2, Zenon DEF Questions
<1>4. asked \in [d -> [id : DOMAIN Identity \cup {T!Unknown}, replace : BOOLEAN]]
  BY <1>3
<1>5. asked \in Questions
  BY <1>4, Zenon DEF Questions
<1> HIDE DEF asked
<1>6. result \in TemplateResult /\ result.status = "none"
  BY <1>5, EmptySlots, ZenonT(20) DEF TemplateResult, T!NoResult
<1> HIDE DEF result
<1>7. plan' = [plan EXCEPT !.roots = T!Empty, !.pins = {}, !.removed = T!Empty, !.replaced = T!Empty,
                           !.res = result]
  <2>1. T!Forgotten = [plan EXCEPT !.roots = T!Empty, !.pins = {}, !.removed = T!Empty,
                                 !.replaced = T!Empty, !.res = result]
    BY Zenon DEF T!Forgotten, result, asked
  <2> QED
    BY <2>1
<1> QED
  BY <1>6, <1>7, EmptySlots, ZenonT(20) DEF Plan, SameCtl, Ctl

LEMMA CleanupBeginsCases ==
  ASSUME Types, TemplateRoundShape, T!CleanupBegins, UNCHANGED scr
  PROVE  KeptTypes /\ (Retries \/ Discarded \/ Discards \/ CleansNot)
<1> USE DEF Types, DiskTypes, PlanTypes, TemplateStepTypes, OwnerTypes, ScreenTypes,
       TemplateBoundTypes, KeptTypes
<1>0. thr.pc = "cleanup" /\ T!NoFault /\ UNCHANGED <<disk, template, cancel>>
  BY Zenon DEF T!CleanupBegins
<1>1. own' \in Owner /\ (thr.job = "shutdown" => own' = own)
  BY ZenonT(20) DEF T!CleanupBegins, Owner
<1>2. plan.held \in BOOLEAN /\ plan.pub \in {"not-published", "uncertain", "published"}
  BY Zenon DEF Plan
<1>3. CASE /\ T!Lifecycle = "committed" /\ session = "cleanup-pending"
           /\ session' = "retrying-cleanup" /\ T!Goto("reverify") /\ UNCHANGED plan
  BY <1>0, <1>1, <1>3, TemplateLifecycles, Going, ZenonT(20) DEF Retries, CleaningUp, Sessions, Pcs
<1>4. CASE /\ T!Lifecycle = "none" /\ session' = "discarded" /\ T!Goto("cleaned")
           /\ UNCHANGED plan
  BY <1>0, <1>1, <1>2, <1>4, TemplateLifecycles, Going, ZenonT(20) DEF Discarded, CleaningUp,
     Sessions, Pcs
<1>5. CASE /\ T!Lifecycle = "precommit" /\ session' = "discarding" /\ T!Goto("empty")
           /\ plan' = T!Forgotten
  <2>1. plan.held /\ plan.pub = "not-published"
    BY <1>2, <1>5, TemplateLifecycles
  <2>2. ~Working
    BY <1>0 DEF Working
  <2> QED
    BY <1>0, <1>1, <1>5, <2>1, <2>2, ForgottenPlan, Going, ZenonT(20)
    DEF Discards, CleaningUp, Sessions, Pcs
<1>6. CASE /\ ~(T!Lifecycle = "committed" /\ session = "cleanup-pending")
           /\ ~(T!Lifecycle = "none" /\ session # "discarded")
           /\ ~(T!Lifecycle = "precommit" /\ (session # "discarded" \/ thr.job = "shutdown"))
           /\ T!Goto("cleaned") /\ UNCHANGED <<session, plan>>
  <2>1. /\ ~plan.held => session = "discarded"
        /\ plan.held /\ plan.pub = "published" => session # "cleanup-pending"
        /\ plan.held /\ plan.pub = "not-published" => session = "discarded" /\ thr.job # "shutdown"
    BY <1>2, <1>6, TemplateLifecycles
  <2> QED
    BY <1>0, <1>1, <1>6, <2>1, Going, ZenonT(20) DEF CleansNot, CleaningUp, Pcs
<1> QED
  <2>1. \/ T!Lifecycle = "committed" /\ session = "cleanup-pending"
             /\ session' = "retrying-cleanup" /\ T!Goto("reverify") /\ UNCHANGED plan
        \/ T!Lifecycle = "none" /\ session' = "discarded" /\ T!Goto("cleaned") /\ UNCHANGED plan
        \/ T!Lifecycle = "precommit" /\ session' = "discarding" /\ T!Goto("empty") /\ plan' = T!Forgotten
        \/ /\ ~(T!Lifecycle = "committed" /\ session = "cleanup-pending")
           /\ ~(T!Lifecycle = "none" /\ session # "discarded")
           /\ ~(T!Lifecycle = "precommit" /\ (session # "discarded" \/ thr.job = "shutdown"))
           /\ T!Goto("cleaned") /\ UNCHANGED <<session, plan>>
    BY DEF T!CleanupBegins
  <2> QED
    BY <1>3, <1>4, <1>5, <1>6, <2>1, Zenon

LEMMA SlotFacts ==
  /\ \A f \in Slots : DOMAIN f \subseteq DOMAIN template.roots /\ \A i \in DOMAIN f : f[i] \in DOMAIN Identity
  /\ \A f \in Dropped : /\ DOMAIN f \subseteq DOMAIN template.roots
                        /\ \A i \in DOMAIN f : f[i] \in SUBSET template.pins
  /\ \A f \in Questions :
       /\ DOMAIN f \subseteq DOMAIN template.roots
       /\ \A i \in DOMAIN f : /\ f[i].id \in DOMAIN Identity \cup {T!Unknown}
                              /\ f[i].replace \in BOOLEAN
  /\ \A f \in T!Choices : /\ DOMAIN f \subseteq DOMAIN template.roots
                        /\ \A i \in DOMAIN f : f[i] \in DOMAIN Identity \cup {T!Remove}
  /\ \A d \in SUBSET DOMAIN template.roots :
       /\ [d -> DOMAIN Identity] \subseteq Slots
       /\ [d -> SUBSET template.pins] \subseteq Dropped
       /\ [d -> [id : DOMAIN Identity \cup {T!Unknown}, replace : BOOLEAN]] \subseteq Questions
<1>1. \A f \in Slots : DOMAIN f \subseteq DOMAIN template.roots /\ \A i \in DOMAIN f : f[i] \in DOMAIN Identity
  BY DEF Slots
<1>2. \A f \in Dropped : /\ DOMAIN f \subseteq DOMAIN template.roots
                         /\ \A i \in DOMAIN f : f[i] \in SUBSET template.pins
  BY DEF Dropped
<1>3. \A f \in Questions :
        /\ DOMAIN f \subseteq DOMAIN template.roots
        /\ \A i \in DOMAIN f : /\ f[i].id \in DOMAIN Identity \cup {T!Unknown}
                               /\ f[i].replace \in BOOLEAN
  BY DEF Questions
<1>4. \A f \in T!Choices : /\ DOMAIN f \subseteq DOMAIN template.roots
                         /\ \A i \in DOMAIN f : f[i] \in DOMAIN Identity \cup {T!Remove}
  BY DEF T!Choices
<1>5. \A d \in SUBSET DOMAIN template.roots :
        /\ [d -> DOMAIN Identity] \subseteq Slots
        /\ [d -> SUBSET template.pins] \subseteq Dropped
        /\ [d -> [id : DOMAIN Identity \cup {T!Unknown}, replace : BOOLEAN]] \subseteq Questions
  BY DEF Slots, Dropped, Questions
<1> QED
  BY <1>1, <1>2, <1>3, <1>4, <1>5

LEMMA PlanParts ==
  ASSUME NEW p \in Plan
  PROVE  /\ p.roots \in Slots /\ p.removed \in Dropped /\ p.replaced \in Slots
         /\ p.pins \in SUBSET template.pins /\ p.res \in TemplateResult
         /\ p.res.roots \in Slots /\ p.res.pins \in SUBSET template.pins /\ p.res.open \in Questions
<1>1. /\ p.roots \in Slots /\ p.removed \in Dropped /\ p.replaced \in Slots
      /\ p.pins \in SUBSET template.pins /\ p.res \in TemplateResult
  BY Zenon DEF Plan
<1>2. \A r \in TemplateResult : r.roots \in Slots /\ r.pins \in SUBSET template.pins /\ r.open \in Questions
  BY Zenon DEF TemplateResult
<1> QED
  BY <1>1, <1>2

(* A choice keeps account of every root and every fixed version.           *)
LEMMA ChooseCases ==
  ASSUME Types, TemplateRoundShape, TemplateJobShape, T!Choose, UNCHANGED scr
  PROVE  KeptTypes /\ (ChooseNot \/ Reopens)
<1> USE DEF Types, DiskTypes, PlanTypes, TemplateStepTypes, OwnerTypes, ScreenTypes,
       TemplateBoundTypes, KeptTypes
<1>0. thr.pc = "request" /\ T!NoFault /\ UNCHANGED <<disk, template, cancel, own>>
  BY Zenon DEF T!Choose
<1>1. CASE T!Goto("refused") /\ UNCHANGED <<session, plan>>
  BY <1>0, <1>1, Going, ZenonT(20) DEF ChooseNot, Quietly, Pcs
<1>2. CASE ~(T!Goto("refused") /\ UNCHANGED <<session, plan>>)
  <2> DEFINE r == plan.res
             dropped(i) == plan.pins \cap {T!Old(r, i)}
             roots == [i \in DOMAIN r.roots \ T!Left |-> IF i \in T!Swapped THEN thr.choice[i] ELSE r.roots[i]]
             pins == plan.pins \ UNION {dropped(i) : i \in T!Left}
             gone == [i \in DOMAIN plan.removed \cup T!Left |->
                           IF i \in T!Left THEN dropped(i) ELSE plan.removed[i]]
             swapped == [i \in DOMAIN plan.replaced \cup T!Swapped |->
                            IF i \in DOMAIN plan.replaced THEN plan.replaced[i] ELSE T!Old(r, i)]
  <2>1. /\ session = "resolution-required" /\ T!Accepted(r) /\ session' = "resolving"
        /\ thr' = [thr EXCEPT !.pc = "resolving", !.before = plan]
        /\ plan' = [plan EXCEPT !.roots = roots, !.pins = pins, !.removed = gone,
                                !.replaced = swapped]
    BY <1>2, Zenon DEF T!Choose
  <2>2. /\ r.status = "required" /\ T!Chosen \subseteq DOMAIN r.open
        /\ r.roots = plan.roots /\ Sound(plan) /\ DOMAIN r.open \subseteq DOMAIN plan.roots
    BY <1>0, <2>1 DEF T!Accepted, TemplateRoundShape, Fresh, Working
  <2>3. /\ plan.roots \in Slots /\ plan.removed \in Dropped /\ plan.replaced \in Slots
        /\ plan.pins \in SUBSET template.pins /\ r.open \in Questions
        /\ thr.choice \in T!Choices
    <3>1. thr.choice \in T!Choices
      BY Zenon DEF Step
    <3> QED
      BY <3>1, PlanParts, Zenon
  <2>4. /\ T!Left \subseteq DOMAIN r.open /\ T!Swapped \subseteq DOMAIN r.open
        /\ \A i \in T!Swapped : thr.choice[i] \in DOMAIN Identity
        /\ T!Left \cup T!Swapped \subseteq DOMAIN template.roots
    BY <2>2, <2>3, SlotFacts DEF T!Left, T!Swapped, T!Chosen
  <2>5. \A i \in DOMAIN r.open : T!Old(r, i) \in DOMAIN Identity
    BY <2>2, <2>3, SlotFacts DEF T!Old
  <2>6. roots \in Slots
    <3>1. \A i \in DOMAIN r.roots \ T!Left :
            (IF i \in T!Swapped THEN thr.choice[i] ELSE r.roots[i]) \in DOMAIN Identity
      BY <2>2, <2>3, <2>4, SlotFacts
    <3>2. roots \in [DOMAIN r.roots \ T!Left -> DOMAIN Identity]
      BY <3>1
    <3>3. DOMAIN r.roots \ T!Left \in SUBSET DOMAIN template.roots
      BY <2>2, <2>3, SlotFacts
    <3> QED
      BY <3>2, <3>3, SlotFacts
  <2>7. gone \in Dropped
    <3>1. \A i \in DOMAIN plan.removed \cup T!Left :
            (IF i \in T!Left THEN dropped(i) ELSE plan.removed[i]) \in SUBSET template.pins
      BY <2>3, SlotFacts
    <3>2. gone \in [DOMAIN plan.removed \cup T!Left -> SUBSET template.pins]
      BY <3>1
    <3>3. DOMAIN plan.removed \cup T!Left \in SUBSET DOMAIN template.roots
      BY <2>3, <2>4, SlotFacts
    <3> QED
      BY <3>2, <3>3, SlotFacts
  <2>8. swapped \in Slots
    <3>1. \A i \in DOMAIN plan.replaced \cup T!Swapped :
            (IF i \in DOMAIN plan.replaced THEN plan.replaced[i] ELSE T!Old(r, i)) \in DOMAIN Identity
      BY <2>3, <2>4, <2>5, SlotFacts
    <3>2. swapped \in [DOMAIN plan.replaced \cup T!Swapped -> DOMAIN Identity]
      BY <3>1
    <3>3. DOMAIN plan.replaced \cup T!Swapped \in SUBSET DOMAIN template.roots
      BY <2>3, <2>4, SlotFacts
    <3> QED
      BY <3>2, <3>3, SlotFacts
  <2>9. pins \in SUBSET template.pins
    BY <2>3
  <2>10. /\ Listed(roots, gone, swapped) /\ PinsKept(pins, gone)
         /\ DOMAIN roots \cap DOMAIN gone = {} /\ T!Swapped \subseteq DOMAIN swapped
    <3>1. /\ DOMAIN roots = DOMAIN plan.roots \ T!Left /\ DOMAIN gone = DOMAIN plan.removed \cup T!Left
          /\ DOMAIN swapped = DOMAIN plan.replaced \cup T!Swapped
          /\ \A i \in DOMAIN roots \ T!Swapped : roots[i] = plan.roots[i]
          /\ \A i \in T!Left : gone[i] = dropped(i)
          /\ \A i \in DOMAIN plan.removed \ T!Left : gone[i] = plan.removed[i]
      BY <2>2
    <3>2. T!Left \cap DOMAIN plan.removed = {}
      BY <2>2, <2>4 DEF Sound
    <3>3. Listed(roots, gone, swapped)
      BY <2>2, <3>1 DEF Listed, Sound
    <3>4. PinsKept(pins, gone)
      <4> SUFFICES ASSUME NEW p \in template.pins, p \notin pins
                   PROVE  \E i \in DOMAIN gone : p \in gone[i]
        BY DEF PinsKept
      <4>1. CASE p \in plan.pins
        BY <3>1, <4>1
      <4>2. CASE p \notin plan.pins
        <5>1. PICK i \in DOMAIN plan.removed : p \in plan.removed[i]
          BY <2>2, <4>2 DEF Sound, PinsKept
        <5> QED
          BY <3>1, <3>2, <5>1
      <4> QED
        BY <4>1, <4>2
    <3> QED
      BY <2>2, <3>1, <3>2, <3>3, <3>4 DEF Sound
  <2> HIDE DEF roots, pins, gone, swapped, r
  <2>11. /\ plan' \in Plan /\ SameCtl /\ plan'.res = plan.res /\ plan'.roots = roots
         /\ plan'.pins = pins /\ plan'.removed = gone /\ plan'.replaced = swapped
    BY <2>1, <2>6, <2>7, <2>8, <2>9, ZenonT(20) DEF Plan, SameCtl, Ctl
  <2>12. /\ thr' \in Step /\ thr'.pc = "resolving" /\ thr'.job = thr.job
         /\ thr'.choice = thr.choice /\ thr'.before = plan
    BY <2>1, ZenonT(20) DEF Step, Pcs
  <2> QED
    BY <1>0, <2>1, <2>2, <2>10, <2>11, <2>12, ZenonT(20) DEF Reopens, Sound, Sessions, r
<1> QED
  BY <1>1, <1>2

(* What a round that fails restores. *)
LEMMA Restored ==
  ASSUME Types, TemplateRoundShape, Working, TemplateJobShape
  PROVE  /\ T!Restore \in Plan /\ Fresh(T!Restore)
         /\ T!Restore.held = plan.held /\ T!Restore.tx = plan.tx /\ T!Restore.locks = plan.locks
         /\ T!Restore.pub = plan.pub /\ T!Restore.committed = plan.committed
<1> USE DEF Types, DiskTypes, PlanTypes, TemplateStepTypes, OwnerTypes, ScreenTypes,
       TemplateBoundTypes
<1>1. CASE thr.job = "resolve"
  <2>1. thr.before \in Plan /\ Fresh(thr.before) /\ Since(thr.before)
    BY <1>1 DEF TemplateRoundShape
  <2>2. plan.attempt \in Nat
    BY Zenon DEF Plan
  <2>3. T!Restore = [thr.before EXCEPT !.attempt = plan.attempt]
    BY <1>1, Zenon DEF T!Restore
  <2>4. /\ T!Restore \in Plan /\ T!Restore.roots = thr.before.roots /\ T!Restore.pins = thr.before.pins
        /\ T!Restore.removed = thr.before.removed /\ T!Restore.replaced = thr.before.replaced
        /\ T!Restore.res = thr.before.res
        /\ T!Restore.held = thr.before.held /\ T!Restore.tx = thr.before.tx
        /\ T!Restore.locks = thr.before.locks /\ T!Restore.pub = thr.before.pub
        /\ T!Restore.committed = thr.before.committed
    BY <2>1, <2>2, <2>3, ZenonT(20) DEF Plan
  <2>5. Fresh(T!Restore)
    BY <2>1, <2>4 DEF Fresh, Sound, Canon
  <2> QED
    BY <2>1, <2>4, <2>5, Zenon DEF Since
<1>2. CASE thr.job # "resolve"
  <2>1. T!Restore = plan /\ thr.job = "start"
    BY <1>2 DEF T!Restore, TemplateJobShape, Working
  <2> QED
    BY <2>1 DEF TemplateRoundShape
<1> QED
  BY <1>1, <1>2

(* Giving up: the plan as before, perhaps with an attempt more.            *)
LEMMA GivenUp ==
  ASSUME Types, TemplateRoundShape, Working, TemplateJobShape,
         T!Goto("raise"), plan' \in {T!Restore, [T!Restore EXCEPT !.attempt = @ + 1]},
         disk' \in Disk /\ SamePlace, Quietly
  PROVE  plan' \in Plan /\ thr' \in Step /\ TemplateGivesUp
<1>1. /\ T!Restore \in Plan /\ Fresh(T!Restore)
      /\ T!Restore.held = plan.held /\ T!Restore.tx = plan.tx /\ T!Restore.locks = plan.locks
      /\ T!Restore.pub = plan.pub /\ T!Restore.committed = plan.committed
  BY Restored, Zenon
<1>2. \A n \in Nat : n + 1 \in Nat
  OBVIOUS
<1>3. T!Restore.attempt + 1 \in Nat
  BY <1>1, <1>2, Zenon DEF Plan
<1>4. /\ plan' \in Plan /\ plan'.roots = T!Restore.roots /\ plan'.pins = T!Restore.pins
      /\ plan'.removed = T!Restore.removed /\ plan'.replaced = T!Restore.replaced
      /\ plan'.res = T!Restore.res /\ SameCtl
  <2>1. CASE plan' = T!Restore
    BY <1>1, <2>1, ZenonT(20) DEF SameCtl, Ctl
  <2>2. CASE plan' = [T!Restore EXCEPT !.attempt = @ + 1]
    <3> DEFINE p == T!Restore
               n == T!Restore.attempt + 1
    <3>1. plan' = [p EXCEPT !.attempt = n]
      BY <2>2
    <3>2. p \in Plan /\ n \in Nat
      BY <1>1, <1>3
    <3>3. /\ p.held = plan.held /\ p.tx = plan.tx /\ p.locks = plan.locks
          /\ p.pub = plan.pub /\ p.committed = plan.committed
      BY <1>1, Zenon
    <3> HIDE DEF p, n
    <3>4. /\ plan' \in Plan /\ plan'.roots = p.roots /\ plan'.pins = p.pins
          /\ plan'.removed = p.removed /\ plan'.replaced = p.replaced /\ plan'.res = p.res /\ SameCtl
      BY <3>1, <3>2, <3>3, ZenonT(20) DEF Plan, SameCtl, Ctl
    <3> QED
      BY <3>4, Zenon DEF p
  <2> QED
    BY <2>1, <2>2
<1>5. Fresh(plan')
  BY <1>1, <1>4 DEF Fresh, Sound, Canon
<1>6. thr' \in Step /\ Moves("raise")
  BY Going, ZenonT(20) DEF Types, DiskTypes, PlanTypes, TemplateStepTypes, OwnerTypes,
     ScreenTypes, TemplateBoundTypes, Pcs
<1> QED
  BY <1>4, <1>5, <1>6, Zenon DEF TemplateGivesUp, Working, SamePlace

LEMMA OutcomeFacts ==
  ASSUME NEW o \in T!Outcomes
  PROVE  /\ o.lost \subseteq DOMAIN plan.roots /\ o.bad \subseteq DOMAIN plan.roots
         /\ o.unmet \subseteq DOMAIN plan.roots
         /\ T!Whole(o) \subseteq DOMAIN plan.roots \ (o.lost \cup o.bad)
BY DEF T!Outcomes, T!Whole, T!Owned

LEMMA Canonicals ==
  ASSUME Types, Sound(plan), NEW o \in T!Outcomes
  PROVE  /\ T!Canonical(o) \in Slots /\ DOMAIN T!Canonical(o) = DOMAIN plan.roots
         /\ Listed(T!Canonical(o), plan.removed, plan.replaced)
<1> USE DEF Types, DiskTypes, PlanTypes, TemplateStepTypes, OwnerTypes, ScreenTypes,
       TemplateBoundTypes
<1>1. plan.roots \in Slots
  BY PlanParts, Zenon
<1>2. /\ DOMAIN plan.roots \in SUBSET DOMAIN template.roots
      /\ \A i \in DOMAIN plan.roots : plan.roots[i] \in DOMAIN Identity
  BY <1>1, SlotFacts
<1>3. \A s \in DOMAIN Identity : Identity[s] \in DOMAIN Identity /\ Identity[Identity[s]] = Identity[s]
  BY SelectorAssumption
<1>4. /\ T!Canonical(o) \in [DOMAIN plan.roots -> DOMAIN Identity]
      /\ \A i \in DOMAIN plan.roots : T!Canonical(o)[i] \in {plan.roots[i], Identity[plan.roots[i]]}
  BY <1>2, <1>3 DEF T!Canonical
<1>5. T!Canonical(o) \in Slots /\ DOMAIN T!Canonical(o) = DOMAIN plan.roots
  BY <1>2, <1>4, SlotFacts
<1>6. \A i \in DOMAIN plan.roots : Identity[T!Canonical(o)[i]] = Identity[plan.roots[i]]
  BY <1>2, <1>3, <1>4
<1> QED
  BY <1>5, <1>6 DEF Listed, Sound

(* With every root resolved the roots are canonical and distinct, and      *)
(* every fixed version has one.                                            *)
LEMMA CompleteRoots ==
  ASSUME Types, NEW o \in T!Outcomes, T!Complete(o)
  PROVE  /\ \A i \in DOMAIN plan.roots : Identity[T!Canonical(o)[i]] = T!Canonical(o)[i]
         /\ \A i, j \in DOMAIN plan.roots : T!Canonical(o)[i] = T!Canonical(o)[j] => i = j
         /\ \A d \in plan.pins : \E i \in DOMAIN plan.roots : T!Canonical(o)[i] = d
<1> USE DEF Types, DiskTypes, PlanTypes, TemplateStepTypes, OwnerTypes, ScreenTypes,
       TemplateBoundTypes
<1>1. \A i \in DOMAIN plan.roots : plan.roots[i] \in DOMAIN Identity
  BY PlanParts, SlotFacts
<1>2. o.lost = {} /\ T!Owned(o) = DOMAIN plan.roots /\ T!Twins(o) = {}
  <2> DEFINE all == DOMAIN plan.roots
  <2>1. (T!Owned(o) \ T!Twins(o)) \ o.unmet = all
    BY Zenon DEF T!Complete, T!Whole
  <2>2. T!Owned(o) = all \ (o.lost \cup o.bad) /\ o.lost \subseteq all
    BY OutcomeFacts, Zenon DEF T!Owned
  <2>3. T!Twins(o) \subseteq T!Owned(o)
    BY Zenon DEF T!Twins
  <2> HIDE DEF all
  <2>4. o.lost = {} /\ T!Owned(o) = all /\ T!Twins(o) = {}
    BY <2>1, <2>2, <2>3
  <2> QED
    BY <2>4, Zenon DEF all
<1>3. \A i \in DOMAIN plan.roots : T!Canonical(o)[i] = Identity[plan.roots[i]]
  BY <1>2 DEF T!Canonical
<1>4. \A i, j \in DOMAIN plan.roots : Identity[plan.roots[i]] = Identity[plan.roots[j]] => i = j
  BY <1>2 DEF T!Twins
<1>5. \A d \in plan.pins : \E i \in DOMAIN plan.roots : Identity[plan.roots[i]] = d
  BY DEF T!Complete, T!Blocked
<1> QED
  BY <1>1, <1>3, <1>4, <1>5, SelectorAssumption

(* The result that asks for choices. *)
LEMMA RequiredResult ==
  ASSUME Types, TemplateRoundShape, Working, Sound(plan), NEW o \in T!Outcomes, NEW hit,
         thr.job = "resolve" => T!Swapped \subseteq DOMAIN plan.replaced
  PROVE  /\ T!Required(o, hit) \in TemplateResult /\ T!Required(o, hit).status = "required"
         /\ T!Required(o, hit).roots = T!Canonical(o)
         /\ DOMAIN T!Required(o, hit).open \subseteq DOMAIN plan.roots
<1> USE DEF Types, DiskTypes, PlanTypes, TemplateStepTypes, OwnerTypes, ScreenTypes,
       TemplateBoundTypes
<1> DEFINE ok == T!Whole(o) \ hit
           open == [i \in DOMAIN plan.roots \ ok |->
                      [id |-> IF i \in o.lost THEN T!Unknown ELSE Identity[plan.roots[i]],
                       replace |-> /\ plan.roots[i] \notin Urls
                                   /\ ~(i \in o.unmet \ T!Twins(o))
                                   /\ ~(i \in o.bad /\ Identity[plan.roots[i]] \in plan.pins)]]
           source == [i \in ok |-> IF i \in T!Swapped THEN plan.replaced[i] ELSE T!Canonical(o)[i]]
<1>1. /\ plan.roots \in Slots /\ plan.replaced \in Slots /\ plan.removed \in Dropped
      /\ plan.pins \in SUBSET template.pins /\ T!Canonical(o) \in Slots
      /\ DOMAIN T!Canonical(o) = DOMAIN plan.roots
  BY PlanParts, Canonicals, Zenon
<1>2. T!Swapped \subseteq DOMAIN plan.replaced
  BY DEF TemplateRoundShape, T!Swapped, T!Left, T!Chosen, T!Empty
<1>3. ok \subseteq DOMAIN plan.roots
  BY OutcomeFacts
<1>4. open \in Questions
  <2>1. \A i \in DOMAIN plan.roots \ ok :
          (IF i \in o.lost THEN T!Unknown ELSE Identity[plan.roots[i]]) \in DOMAIN Identity \cup {T!Unknown}
    BY <1>1, SlotFacts, SelectorAssumption
  <2>2. \A i \in DOMAIN plan.roots \ ok :
          open[i] \in [id : DOMAIN Identity \cup {T!Unknown}, replace : BOOLEAN]
    BY <2>1, ZenonT(20)
  <2>3. open \in [DOMAIN plan.roots \ ok ->
                    [id : DOMAIN Identity \cup {T!Unknown}, replace : BOOLEAN]]
    BY <2>2
  <2>4. DOMAIN plan.roots \ ok \in SUBSET DOMAIN template.roots
    BY <1>1, SlotFacts
  <2> QED
    BY <2>3, <2>4, SlotFacts
<1>5. source \in Slots
  <2>1. \A i \in ok : (IF i \in T!Swapped THEN plan.replaced[i] ELSE T!Canonical(o)[i]) \in DOMAIN Identity
    BY <1>1, <1>2, <1>3, SlotFacts
  <2>2. source \in [ok -> DOMAIN Identity]
    BY <2>1
  <2>3. ok \in SUBSET DOMAIN template.roots
    BY <1>1, <1>3, SlotFacts
  <2> QED
    BY <2>2, <2>3, SlotFacts
<1>6. T!Blocked(o) \in BOOLEAN
  BY DEF T!Blocked
<1>7. DOMAIN open \subseteq DOMAIN plan.roots
  OBVIOUS
<1>8. T!Required(o, hit) = [T!NoResult EXCEPT
        !.status = "required", !.roots = T!Canonical(o), !.pins = plan.pins, !.blocked = T!Blocked(o),
        !.open = open, !.source = source, !.removed = plan.removed, !.replaced = plan.replaced]
  BY Zenon DEF T!Required
<1> HIDE DEF ok, open, source
<1>9. /\ T!Required(o, hit) \in TemplateResult /\ T!Required(o, hit).status = "required"
      /\ T!Required(o, hit).roots = T!Canonical(o) /\ T!Required(o, hit).open = open
  BY <1>1, <1>4, <1>5, <1>6, <1>8, EmptySlots, ZenonT(20) DEF TemplateResult, T!NoResult
<1> QED
  BY <1>7, <1>9

(* A round: it fails, resolves every root, or asks again.                  *)
LEMMA ResolveCases ==
  ASSUME Types, TemplateRoundShape, TemplateJobShape, T!Resolve, UNCHANGED scr
  PROVE  KeptTypes /\ (TemplateGivesUp \/ Completes \/ Requires)
<1> USE DEF Types, DiskTypes, PlanTypes, TemplateStepTypes, OwnerTypes, ScreenTypes,
       TemplateBoundTypes, KeptTypes
<1>0. /\ thr.pc = "resolving" /\ UNCHANGED <<template, cancel, own>> /\ Working
  BY Zenon DEF T!Resolve, Working
<1>1. Sound(plan) /\ (thr.job = "resolve" => T!Swapped \subseteq DOMAIN plan.replaced)
  BY <1>0 DEF TemplateRoundShape
<1>2. disk' = disk \/ disk' = [disk EXCEPT !.staged = FALSE] => disk' \in Disk /\ SamePlace
  BY DiskUpdates, Zenon DEF SamePlace, Laid, SameTarget
<1>3. ASSUME UNCHANGED disk \/ disk' = [disk EXCEPT !.staged = FALSE], UNCHANGED session,
             UNCHANGED T!Bounds \/ (faults < MaxFaults /\ faults' = faults + 1 /\ UNCHANGED outside),
             T!Fails(T!Restore) \/ T!Fails([T!Restore EXCEPT !.attempt = @ + 1])
      PROVE  KeptTypes /\ TemplateGivesUp
  <2>1. T!Goto("raise") /\ plan' \in {T!Restore, [T!Restore EXCEPT !.attempt = @ + 1]} /\ Quietly
    BY <1>0, <1>3, Zenon DEF T!Fails, Quietly
  <2>2. plan' \in Plan /\ thr' \in Step /\ TemplateGivesUp
    BY <1>0, <1>2, <1>3, <2>1, GivenUp, Zenon
  <2> QED
    BY <1>0, <1>2, <1>3, <2>2, ZenonT(20)
<1>4. CASE (T!Interrupted \/ (~T!TreeIntact /\ T!NoFault)) /\ UNCHANGED session /\
           \/ UNCHANGED disk /\ T!Fails(T!Restore)
           \/ disk' = [disk EXCEPT !.staged = FALSE] /\ T!Fails([T!Restore EXCEPT !.attempt = @ + 1])
  BY <1>3, <1>4, Zenon
<1>5. CASE /\ T!NoFault /\ disk' = [disk EXCEPT !.staged = FALSE]
           /\ \E o \in T!Outcomes :
                IF ~(T!Renamed \subseteq o.lost)
                THEN T!Fails([T!Restore EXCEPT !.attempt = @ + 1]) /\ UNCHANGED session
                ELSE LET next == [plan EXCEPT !.attempt = @ + 1, !.roots = T!Canonical(o)] IN
                     \/ T!Complete(o) /\ plan' = next /\ T!Goto("writing") /\ UNCHANGED session
                     \/ \E hit \in IF T!Complete(o) THEN (SUBSET T!Whole(o)) \ {{}} ELSE {{}} :
                          /\ plan' = [next EXCEPT !.res = T!Required(o, hit)]
                          /\ session' = "resolution-required" /\ T!Goto("ending")
  <2>1. PICK o \in T!Outcomes :
          IF ~(T!Renamed \subseteq o.lost)
          THEN T!Fails([T!Restore EXCEPT !.attempt = @ + 1]) /\ UNCHANGED session
          ELSE LET next == [plan EXCEPT !.attempt = @ + 1, !.roots = T!Canonical(o)] IN
               \/ T!Complete(o) /\ plan' = next /\ T!Goto("writing") /\ UNCHANGED session
               \/ \E hit \in IF T!Complete(o) THEN (SUBSET T!Whole(o)) \ {{}} ELSE {{}} :
                    /\ plan' = [next EXCEPT !.res = T!Required(o, hit)]
                    /\ session' = "resolution-required" /\ T!Goto("ending")
    BY <1>5, Zenon
  <2> DEFINE n == plan.attempt + 1
             roots == T!Canonical(o)
             next == [plan EXCEPT !.attempt = n, !.roots = roots]
  <2>2. n \in Nat
    <3>1. plan.attempt \in Nat
      BY Zenon DEF Plan
    <3> QED
      BY <3>1
  <2>3. /\ roots \in Slots /\ DOMAIN roots = DOMAIN plan.roots
        /\ Listed(roots, plan.removed, plan.replaced)
    BY <1>1, Canonicals, Zenon
  <2>4. CASE T!Fails([T!Restore EXCEPT !.attempt = @ + 1]) /\ UNCHANGED session
    BY <1>3, <1>5, <2>4, Zenon
  <2>5. CASE T!Complete(o) /\ plan' = next /\ T!Goto("writing") /\ UNCHANGED session
    <3>1. /\ \A i \in DOMAIN plan.roots : Identity[roots[i]] = roots[i]
          /\ \A i, j \in DOMAIN plan.roots : roots[i] = roots[j] => i = j
          /\ \A d \in plan.pins : \E i \in DOMAIN plan.roots : roots[i] = d
      BY <2>5, CompleteRoots, Zenon
    <3> HIDE DEF roots, n
    <3>2. /\ plan' \in Plan /\ SameCtl /\ plan'.res = plan.res /\ plan'.replaced = plan.replaced
          /\ plan'.removed = plan.removed /\ plan'.pins = plan.pins /\ plan'.roots = roots
      BY <2>2, <2>3, <2>5, ZenonT(20) DEF Plan, SameCtl, Ctl
    <3>3. Sound(plan') /\ Canon(plan')
      BY <1>1, <2>3, <3>1, <3>2 DEF Sound, Canon
    <3>4. thr' \in Step /\ Moves("writing")
      BY <2>5, Going, ZenonT(20) DEF Pcs
    <3> QED
      BY <1>0, <1>2, <1>5, <2>5, <3>2, <3>3, <3>4, ZenonT(20) DEF Completes, Quietly
  <2>6. CASE \E hit \in IF T!Complete(o) THEN (SUBSET T!Whole(o)) \ {{}} ELSE {{}} :
               /\ plan' = [next EXCEPT !.res = T!Required(o, hit)]
               /\ session' = "resolution-required" /\ T!Goto("ending")
    <3>1. PICK hit : /\ plan' = [next EXCEPT !.res = T!Required(o, hit)]
                     /\ session' = "resolution-required" /\ T!Goto("ending")
      BY <2>6, Zenon
    <3> DEFINE r == T!Required(o, hit)
    <3>2. /\ r \in TemplateResult /\ r.status = "required" /\ r.roots = roots
          /\ DOMAIN r.open \subseteq DOMAIN plan.roots
      BY <1>0, <1>1, RequiredResult, Zenon
    <3>3. plan' = [next EXCEPT !.res = r]
      BY <3>1, Zenon
    <3> HIDE DEF r, roots, n
    <3>4. /\ plan' \in Plan /\ SameCtl /\ plan'.res = r /\ plan'.replaced = plan.replaced
          /\ plan'.removed = plan.removed /\ plan'.pins = plan.pins /\ plan'.roots = roots
      BY <2>2, <2>3, <3>2, <3>3, ZenonT(20) DEF Plan, SameCtl, Ctl
    <3>5. Fresh(plan') /\ plan'.res.status = "required"
      BY <1>1, <2>3, <3>2, <3>4 DEF Fresh, Sound
    <3>6. thr' \in Step /\ Moves("ending")
      BY <3>1, Going, ZenonT(20) DEF Pcs
    <3> QED
      BY <1>0, <1>2, <1>5, <3>1, <3>4, <3>5, <3>6, ZenonT(20) DEF Requires, Sessions
  <2> HIDE DEF next, roots, n
  <2>7. n = plan.attempt + 1
    BY Zenon DEF n
  <2> QED
    BY <2>1, <2>4, <2>5, <2>6, Zenon DEF next, roots, n
<1> QED
  BY <1>4, <1>5, Zenon DEF T!Resolve

(* The manifest is written, or the round fails.                            *)
LEMMA WriteManifestCases ==
  ASSUME Types, TemplateRoundShape, TemplateJobShape, T!WriteManifest, UNCHANGED scr
  PROVE  KeptTypes /\ (TemplateGivesUp \/ Writes)
<1> USE DEF Types, DiskTypes, PlanTypes, TemplateStepTypes, OwnerTypes, ScreenTypes,
       TemplateBoundTypes, KeptTypes
<1>0. thr.pc = "writing" /\ UNCHANGED <<template, cancel, own>> /\ Working
  BY Zenon DEF T!WriteManifest, Working
<1>1. Sound(plan) /\ Canon(plan)
  BY <1>0 DEF TemplateRoundShape
<1> DEFINE written == [disk EXCEPT !.staged = TRUE, !.roots = plan.roots, !.pins = plan.pins]
           r == [T!NoResult EXCEPT !.status = "resolved", !.roots = plan.roots, !.pins = plan.pins,
                                 !.removed = plan.removed, !.replaced = plan.replaced]
<1>2. /\ plan.roots \in Slots /\ plan.removed \in Dropped /\ plan.replaced \in Slots
      /\ plan.pins \in SUBSET template.pins
  BY PlanParts, Zenon
<1>3. disk' \in {disk, written} => disk' \in Disk /\ SamePlace
  BY <1>2, ZenonT(20) DEF Disk, SamePlace, Laid, SameTarget
<1>4. CASE T!NoFault /\ disk' = written /\ plan' = [plan EXCEPT !.res = r]
           /\ session' = "resolved" /\ T!Goto("ending")
  <2>1. /\ r \in TemplateResult /\ r.status = "resolved" /\ r.roots = plan.roots /\ r.pins = plan.pins
        /\ r.removed = plan.removed /\ r.replaced = plan.replaced
    BY <1>2, EmptySlots, ZenonT(20) DEF TemplateResult, T!NoResult
  <2> HIDE DEF r
  <2>2. /\ plan' \in Plan /\ SameCtl /\ plan'.res = r /\ plan'.replaced = plan.replaced
        /\ plan'.removed = plan.removed /\ plan'.pins = plan.pins /\ plan'.roots = plan.roots
    BY <1>4, <2>1, ZenonT(20) DEF Plan, SameCtl, Ctl
  <2>3. Fresh(plan') /\ plan'.res.status = "resolved"
    BY <1>1, <2>1, <2>2 DEF Fresh, Sound, Canon
  <2>4. thr' \in Step /\ Moves("ending")
    BY <1>4, Going, ZenonT(20) DEF Pcs
  <2>5. disk' \in Disk /\ SamePlace
    BY <1>3, <1>4, Zenon
  <2> HIDE DEF written
  <2> QED
    BY <1>0, <1>4, <2>2, <2>3, <2>4, <2>5, ZenonT(20) DEF Writes, Sessions
<1>5. CASE /\ T!NoFault \/ T!Fault
           /\ disk' \in {disk, written} /\ T!Fails(T!Restore) /\ UNCHANGED session
  <2>1. disk' \in Disk /\ SamePlace
    BY <1>3, <1>5, Zenon
  <2>2. T!Goto("raise") /\ plan' \in {T!Restore, [T!Restore EXCEPT !.attempt = @ + 1]} /\ Quietly
    BY <1>0, <1>5, Zenon DEF T!Fails, Quietly
  <2>3. plan' \in Plan /\ thr' \in Step /\ TemplateGivesUp
    BY <1>0, <2>1, <2>2, GivenUp, Zenon
  <2> HIDE DEF written
  <2> QED
    BY <1>0, <1>5, <2>1, <2>3, ZenonT(20)
<1> QED
  BY <1>4, <1>5 DEF T!WriteManifest

-----------------------------------------------------------------------------
(* The migration of a Template: each step in its form                      *)

LEMMA Spawned ==
  ASSUME thr \in Step, NEW o \in Owner, NEW task \in T!Thread, NEW at \in Pcs, NEW chosen \in T!Choices,
         T!Spawn(o, task, at, chosen)
  PROVE  /\ thr' \in Step /\ own' \in Owner
         /\ \/ UNCHANGED thr
            \/ thr.pc = "dead" /\ thr'.job = task /\ thr'.pc = at /\ thr'.choice = chosen
         /\ UNCHANGED outside
         /\ UNCHANGED faults \/ (faults < MaxFaults /\ faults' = faults + 1)
<1>1. CASE ~T!Idle
  BY <1>1, Zenon DEF T!Spawn
<1>2. CASE T!Idle /\ thr' = [job |-> task, pc |-> at, choice |-> chosen, before |-> 0]
           /\ own' = [o EXCEPT !.error = FALSE] /\ T!NoFault
  BY <1>2, ZenonT(20) DEF Step, Owner
<1>3. CASE /\ T!Idle /\ T!Fault /\ UNCHANGED thr /\ task = "cleanup"
           /\ own' = [o EXCEPT !.error = FALSE, !.stuck = TRUE, !.cleaned = TRUE]
  BY <1>3, ZenonT(20) DEF Step, Owner
<1>4. CASE /\ T!Idle /\ T!Fault /\ UNCHANGED thr /\ task # "cleanup"
           /\ own' = [o EXCEPT !.error = TRUE, !.orig = TRUE]
  BY <1>4, ZenonT(20) DEF Step, Owner
<1> QED
  BY <1>1, <1>2, <1>3, <1>4, Zenon DEF T!Spawn

LEMMA AskedToCleanFor ==
  ASSUME thr \in Step, NEW o \in Owner, T!Clean(o)
  PROVE  /\ thr' \in Step /\ own' \in Owner
         /\ UNCHANGED thr \/ Begins("cleanup", "cleanup")
         /\ UNCHANGED outside
         /\ UNCHANGED faults \/ (faults < MaxFaults /\ faults' = faults + 1)
<1>1. [o EXCEPT !.cleaned = FALSE] \in Owner
  BY ZenonT(20) DEF Owner
<1>2. "cleanup" \in T!Thread /\ "cleanup" \in Pcs /\ T!Empty \in T!Choices
  BY EmptySlots, Zenon DEF T!Thread, Pcs
<1> DEFINE q == [o EXCEPT !.cleaned = FALSE]
<1>3. q \in Owner /\ T!Spawn(q, "cleanup", "cleanup", T!Empty)
  BY <1>1, Zenon DEF T!Clean
<1> HIDE DEF q
<1>4. /\ thr' \in Step /\ own' \in Owner
      /\ \/ UNCHANGED thr
         \/ thr.pc = "dead" /\ thr'.job = "cleanup" /\ thr'.pc = "cleanup" /\ thr'.choice = T!Empty
      /\ UNCHANGED outside
      /\ UNCHANGED faults \/ (faults < MaxFaults /\ faults' = faults + 1)
  BY <1>2, <1>3, Spawned, Zenon
<1> QED
  BY <1>4, Zenon DEF Begins

LEMMA ScreenUpdates ==
  ASSUME scr \in Screen
  PROVE
    /\ \A p \in {"conflicts", "resolving"} :
         scr' = [scr EXCEPT !.phase = p] => scr' \in Screen /\ Shows(p, scr.modal)
    /\ \A r \in TemplateResult : scr' = [scr EXCEPT !.phase = "preview", !.preview = r] =>
         /\ scr' \in Screen /\ scr'.phase = "preview" /\ scr'.preview = r /\ scr'.modal = scr.modal
         /\ scr'.left = scr.left /\ scr'.released = scr.released /\ scr'.quitting = scr.quitting
    /\ scr' = [scr EXCEPT !.phase = "complete", !.left = TRUE, !.released = TRUE] =>
         scr' \in Screen /\ Letsgo
    /\ scr' = [scr EXCEPT !.modal = TRUE] => scr' \in Screen /\ Shows(scr.phase, TRUE)
    /\ scr' = [scr EXCEPT !.modal = FALSE] => scr' \in Screen /\ Shows(scr.phase, FALSE)
    /\ scr' = [scr EXCEPT !.modal = FALSE, !.phase = "publishing"] =>
         scr' \in Screen /\ Shows("publishing", FALSE)
    /\ scr' = [scr EXCEPT !.quitting = "waiting", !.phase = "starting", !.modal = FALSE] =>
         /\ scr' \in Screen /\ scr'.quitting = "waiting" /\ scr'.phase = "starting"
         /\ scr'.modal = FALSE /\ scr'.preview = scr.preview /\ scr'.left = scr.left
         /\ scr'.released = scr.released
    /\ \A q \in {"over", "cleaning"} : scr' = [scr EXCEPT !.quitting = q] =>
         scr' \in Screen /\ Quits(scr.released, q)
    /\ scr' = [scr EXCEPT !.quitting = "over", !.released = TRUE] =>
         scr' \in Screen /\ Quits(TRUE, "over")
<1> USE DEF Screen, Shows, Letsgo, Quits
<1>1. \A p \in {"conflicts", "resolving"} :
        scr' = [scr EXCEPT !.phase = p] => scr' \in Screen /\ Shows(p, scr.modal)
  BY ZenonT(20)
<1>2. \A r \in TemplateResult : scr' = [scr EXCEPT !.phase = "preview", !.preview = r] =>
        /\ scr' \in Screen /\ scr'.phase = "preview" /\ scr'.preview = r /\ scr'.modal = scr.modal
        /\ scr'.left = scr.left /\ scr'.released = scr.released /\ scr'.quitting = scr.quitting
  BY ZenonT(20)
<1>3. scr' = [scr EXCEPT !.phase = "complete", !.left = TRUE, !.released = TRUE] =>
        scr' \in Screen /\ Letsgo
  BY ZenonT(20)
<1>4. scr' = [scr EXCEPT !.modal = TRUE] => scr' \in Screen /\ Shows(scr.phase, TRUE)
  BY ZenonT(20)
<1>5. scr' = [scr EXCEPT !.modal = FALSE] => scr' \in Screen /\ Shows(scr.phase, FALSE)
  BY ZenonT(20)
<1>6. scr' = [scr EXCEPT !.modal = FALSE, !.phase = "publishing"] =>
        scr' \in Screen /\ Shows("publishing", FALSE)
  BY ZenonT(20)
<1>7. scr' = [scr EXCEPT !.quitting = "waiting", !.phase = "starting", !.modal = FALSE] =>
        /\ scr' \in Screen /\ scr'.quitting = "waiting" /\ scr'.phase = "starting"
        /\ scr'.modal = FALSE /\ scr'.preview = scr.preview /\ scr'.left = scr.left
        /\ scr'.released = scr.released
  BY ZenonT(20)
<1>8. \A q \in {"over", "cleaning"} : scr' = [scr EXCEPT !.quitting = q] =>
        scr' \in Screen /\ Quits(scr.released, q)
  BY ZenonT(20)
<1>9. scr' = [scr EXCEPT !.quitting = "over", !.released = TRUE] =>
        scr' \in Screen /\ Quits(TRUE, "over")
  BY ZenonT(20)
<1> HIDE DEF Screen, Shows, Letsgo, Quits
<1> QED
  BY <1>1, <1>2, <1>3, <1>4, <1>5, <1>6, <1>7, <1>8, <1>9, Zenon

LEMMA OwnerUpdates ==
  ASSUME own \in Owner
  PROVE  /\ [own EXCEPT !.nav = TRUE] \in Owner /\ [own EXCEPT !.nav = FALSE] \in Owner
         /\ [own EXCEPT !.stuck = FALSE] \in Owner
         /\ [own EXCEPT !.error = FALSE, !.orig = FALSE] \in Owner
<1>1. [own EXCEPT !.nav = TRUE] \in Owner /\ [own EXCEPT !.nav = FALSE] \in Owner
  BY ZenonT(20) DEF Owner
<1>2. [own EXCEPT !.stuck = FALSE] \in Owner
  BY ZenonT(20) DEF Owner
<1>3. [own EXCEPT !.error = FALSE, !.orig = FALSE] \in Owner
  BY ZenonT(20) DEF Owner
<1> QED
  BY <1>1, <1>2, <1>3, Zenon

LEMMA PollCases ==
  ASSUME Types, T!Poll
  PROVE  KeptTypes /\ (AskedToClean \/ AskedAgain \/ Finishes \/ ShowsPreview)
<1> USE DEF Types, DiskTypes, PlanTypes, TemplateStepTypes, OwnerTypes, ScreenTypes,
       TemplateBoundTypes, KeptTypes
<1>0. T!Usable /\ T!Idle /\ UNCHANGED <<T!World, cancel>>
  BY Zenon DEF T!Poll
<1>1. ASSUME NEW o \in Owner, T!Clean(o), UNCHANGED scr
      PROVE  KeptTypes /\ AskedToClean
  BY <1>0, <1>1, AskedToCleanFor, ZenonT(20) DEF AskedToClean
<1>2. CASE T!PollLeaving
  BY <1>1, <1>2, Zenon DEF T!PollLeaving
<1>3. CASE T!PollRetry
  BY <1>0, <1>3, OwnerUpdates, ScreenUpdates, ZenonT(20) DEF T!PollRetry, AskedAgain
<1>4. CASE T!PollError
  BY <1>1, <1>4, OwnerUpdates, Zenon DEF T!PollError
<1>5. CASE T!PollFinish
  <2>1. T!NoFault /\ UNCHANGED thr
    BY <1>5, Zenon DEF T!PollFinish
  <2>2. CASE UNCHANGED <<own, scr>>
    BY <1>0, <2>1, <2>2, ZenonT(20) DEF Finishes
  <2>3. CASE /\ session \in {"discarded", "published"} \/ T!Lifecycle = "committed"
             /\ own' = [own EXCEPT !.nav = FALSE]
             /\ scr' = [scr EXCEPT !.phase = "complete", !.left = TRUE, !.released = TRUE]
    BY <1>0, <2>1, <2>3, OwnerUpdates, ScreenUpdates, TemplateLifecycles, ZenonT(20) DEF Finishes
  <2> QED
    BY <1>5, <2>2, <2>3, Zenon DEF T!PollFinish, T!Finish
<1>6. CASE T!PollState
  <2>1. T!NoFault /\ UNCHANGED <<own, thr>>
    BY <1>6, Zenon DEF T!PollState
  <2>2. CASE scr' = [scr EXCEPT !.phase = "conflicts"]
    BY <1>0, <2>1, <2>2, ScreenUpdates, ZenonT(20) DEF AskedAgain
  <2>3. CASE session = "resolved" /\ scr' = [scr EXCEPT !.phase = "preview", !.preview = plan.res]
    <3>1. plan.res \in TemplateResult
      BY PlanParts, Zenon
    <3> QED
      BY <1>0, <2>1, <2>3, <3>1, ScreenUpdates, ZenonT(20) DEF ShowsPreview
  <2>4. CASE /\ session = "published"
             /\ scr' = [scr EXCEPT !.phase = "complete", !.left = TRUE, !.released = TRUE]
    BY <1>0, <2>1, <2>4, ScreenUpdates, ZenonT(20) DEF Finishes
  <2> QED
    BY <1>6, <2>2, <2>3, <2>4, Zenon DEF T!PollState
<1> QED
  BY <1>2, <1>3, <1>4, <1>5, <1>6, Zenon DEF T!Poll

LEMMA UserCases ==
  ASSUME Types, T!User
  PROVE  KeptTypes /\ (AskedToClean \/ SendsChoices \/ OpensDialog \/ Confirms \/ Declines)
<1> USE DEF Types, DiskTypes, PlanTypes, TemplateStepTypes, OwnerTypes, ScreenTypes,
       TemplateBoundTypes, KeptTypes
<1>1. CASE T!Resolves
  <2>1. T!Usable /\ ~scr.modal /\ UNCHANGED <<T!World, cancel>> /\ scr' = [scr EXCEPT !.phase = "resolving"]
    BY <1>1, Zenon DEF T!Resolves
  <2>2. PICK d \in (SUBSET DOMAIN plan.res.open) \ {{}} :
             \E c \in [d -> Offers \cup {T!Remove}] : T!Spawn(own, "resolve", "request", c)
    BY <1>1, Zenon DEF T!Resolves
  <2>3. PICK c \in [d -> Offers \cup {T!Remove}] : T!Spawn(own, "resolve", "request", c)
    BY <2>2, Zenon
  <2>4. c \in T!Choices
    <3>1. plan.res.open \in Questions
      BY PlanParts, Zenon
    <3>2. d \in SUBSET DOMAIN template.roots
      BY <3>1, SlotFacts
    <3>3. c \in [d -> DOMAIN Identity \cup {T!Remove}]
      BY <2>3, SelectorAssumption
    <3> QED
      BY <3>2, <3>3, Zenon DEF T!Choices
  <2>5. "resolve" \in T!Thread /\ "request" \in Pcs
    BY Zenon DEF T!Thread, Pcs
  <2>6. /\ thr' \in Step /\ own' \in Owner
        /\ \/ UNCHANGED thr
           \/ thr.pc = "dead" /\ thr'.job = "resolve" /\ thr'.pc = "request" /\ thr'.choice = c
        /\ UNCHANGED outside
        /\ UNCHANGED faults \/ (faults < MaxFaults /\ faults' = faults + 1)
    BY <2>3, <2>4, <2>5, Spawned, Zenon
  <2>7. scr' \in Screen /\ Shows("resolving", FALSE)
    BY <2>1, ScreenUpdates, ZenonT(20) DEF Screen
  <2> QED
    BY <2>1, <2>6, <2>7, ZenonT(20) DEF SendsChoices, Begins
<1>2. CASE T!AskConfirmation
  BY <1>2, ScreenUpdates, ZenonT(20) DEF T!AskConfirmation, OpensDialog
<1>3. CASE T!Confirm
  <2>1. /\ T!Usable /\ scr.modal /\ UNCHANGED <<T!World, cancel>>
        /\ scr' = [scr EXCEPT !.modal = FALSE, !.phase = "publishing"]
        /\ T!Spawn(own, "publish", "prepare", T!Empty)
    BY <1>3, Zenon DEF T!Confirm
  <2>2. "publish" \in T!Thread /\ "prepare" \in Pcs /\ T!Empty \in T!Choices
    BY EmptySlots, Zenon DEF T!Thread, Pcs
  <2>3. /\ thr' \in Step /\ own' \in Owner
        /\ \/ UNCHANGED thr
           \/ thr.pc = "dead" /\ thr'.job = "publish" /\ thr'.pc = "prepare" /\ thr'.choice = T!Empty
        /\ UNCHANGED outside
        /\ UNCHANGED faults \/ (faults < MaxFaults /\ faults' = faults + 1)
    BY <2>1, <2>2, Spawned, Zenon
  <2> QED
    BY <2>1, <2>3, ScreenUpdates, ZenonT(20) DEF Confirms, Begins
<1>4. CASE T!Decline
  BY <1>4, ScreenUpdates, ZenonT(20) DEF T!Decline, Declines
<1>5. CASE T!RetryCleanup
  <2>1. T!Usable /\ T!Clean([own EXCEPT !.stuck = FALSE]) /\ UNCHANGED <<T!World, cancel, scr>>
    BY <1>5, Zenon DEF T!RetryCleanup
  <2> DEFINE o == [own EXCEPT !.stuck = FALSE]
  <2>2. o \in Owner /\ T!Clean(o)
    BY <2>1, OwnerUpdates, Zenon
  <2> HIDE DEF o
  <2> QED
    BY <2>1, <2>2, AskedToCleanFor, ZenonT(20) DEF AskedToClean
<1>6. CASE T!Leave
  <2>1. T!Usable /\ cancel' = TRUE /\ UNCHANGED <<T!World, scr>>
    BY <1>6, Zenon DEF T!Leave
  <2> DEFINE o == [own EXCEPT !.nav = TRUE]
  <2>2. o \in Owner
    BY OwnerUpdates, Zenon
  <2>3. T!Clean(o) \/ (own' = o /\ UNCHANGED <<thr, T!Bounds>>)
    BY <1>6, Zenon DEF T!Leave
  <2> HIDE DEF o
  <2>4. CASE T!Clean(o)
    BY <2>1, <2>2, <2>4, AskedToCleanFor, ZenonT(20) DEF AskedToClean
  <2>5. CASE own' = o /\ UNCHANGED <<thr, T!Bounds>>
    BY <2>1, <2>2, <2>5, ZenonT(20) DEF AskedToClean
  <2> QED
    BY <2>3, <2>4, <2>5, Zenon
<1> QED
  BY <1>1, <1>2, <1>3, <1>4, <1>5, <1>6, Zenon DEF T!User

LEMMA EndCases ==
  ASSUME Types, T!Quit \/ T!Shutdown
  PROVE  KeptTypes /\ (Unmounts \/ GoesOn \/ CleansLast \/ LetsGoLast)
<1> USE DEF Types, DiskTypes, PlanTypes, TemplateStepTypes, OwnerTypes, ScreenTypes,
       TemplateBoundTypes, KeptTypes
<1>1. CASE T!Quit
  BY <1>1, OwnerUpdates, ScreenUpdates, ZenonT(20) DEF T!Quit, Unmounts
<1>2. CASE T!QuitTimeout
  BY <1>2, ScreenUpdates, ZenonT(20) DEF T!QuitTimeout, GoesOn
<1>3. ASSUME T!Released \/ T!Kept
      PROVE  /\ scr' \in Screen
             /\ \/ ~own.stuck /\ session # "publication-uncertain" /\ Quits(TRUE, "over")
                \/ (own.stuck \/ session = "publication-uncertain") /\ Quits(scr.released, "over")
  <2>1. CASE T!Released
    BY <2>1, ScreenUpdates, ZenonT(20) DEF T!Released, T!LetGo
  <2>2. CASE T!Kept
    BY <2>2, ScreenUpdates, ZenonT(20) DEF T!Kept
  <2> QED
    BY <1>3, <2>1, <2>2
<1>4. CASE T!QuitCleans
  <2>1. /\ scr.quitting = "waiting" /\ T!Idle /\ T!SameUi /\ UNCHANGED <<cancel, T!Bounds>>
    BY <1>4, Zenon DEF T!QuitCleans
  <2>2. CASE session = "published" /\ T!LetGo /\ UNCHANGED thr
    BY <2>1, <2>2, ScreenUpdates, ZenonT(20) DEF LetsGoLast, T!LetGo
  <2>3. CASE /\ T!NeedsCleaning
             /\ thr' = [job |-> "shutdown", pc |-> "cleanup", choice |-> T!Empty, before |-> 0]
             /\ T!Quitting("cleaning")
    <3>1. thr' \in Step /\ thr'.job = "shutdown" /\ thr'.pc = "cleanup" /\ thr'.choice = T!Empty
      BY <2>3, EmptySlots, ZenonT(20) DEF Step, T!Thread, Pcs
    <3>2. plan.held
      BY <2>3, TemplateLifecycles, Zenon DEF T!NeedsCleaning, Plan
    <3> QED
      BY <2>1, <2>3, <3>1, <3>2, ScreenUpdates, ZenonT(20) DEF CleansLast
  <2>4. CASE ~T!NeedsCleaning /\ (T!Released \/ T!Kept) /\ UNCHANGED thr
    <3>1. plan.pub \in {"not-published", "uncertain", "published"} /\ plan.held \in BOOLEAN
      BY Zenon DEF Plan
    <3>2. ~plan.held \/ plan.pub = "uncertain" \/ (plan.pub = "published" /\ session # "cleanup-pending")
      BY <2>4, <3>1, TemplateLifecycles, Zenon DEF T!NeedsCleaning
    <3> QED
      BY <1>3, <2>1, <2>4, <3>2, ZenonT(20) DEF LetsGoLast
  <2> QED
    BY <1>4, <2>2, <2>3, <2>4, Zenon DEF T!QuitCleans
<1>5. CASE T!QuitEnds
  BY <1>3, <1>5, ZenonT(20) DEF T!QuitEnds, LetsGoLast
<1> QED
  BY <1>1, <1>2, <1>4, <1>5, Zenon DEF T!Shutdown

LEMMA ElsewhereCases ==
  ASSUME Types, T!Elsewhere
  PROVE  KeptTypes /\ Intrudes
<1> USE DEF Types, DiskTypes, PlanTypes, TemplateStepTypes, OwnerTypes, ScreenTypes,
       TemplateBoundTypes, KeptTypes
<1>0. /\ outside < MaxOutside /\ outside' = outside + 1 /\ UNCHANGED faults
      /\ UNCHANGED <<template, plan, session, cancel, thr, own, scr>>
  BY Zenon DEF T!Elsewhere
<1>1. CASE disk' = [disk EXCEPT !.moved = TRUE]
  BY <1>0, <1>1, DiskUpdates, ZenonT(20) DEF Intrudes, SamePlace
<1>2. CASE \E t \in {"none", "foreign"} \ {disk.target} : disk' = [disk EXCEPT !.target = t]
  BY <1>0, <1>2, DiskUpdates, ZenonT(20) DEF Intrudes
<1>3. CASE disk' = [disk EXCEPT !.altered = TRUE]
  BY <1>0, <1>3, DiskUpdates, ZenonT(20) DEF Intrudes, SamePlace
<1>4. CASE disk' = [disk EXCEPT !.tree = "absent",
                                !.staging = IF @ = "tree" THEN "swept" ELSE @]
  <2>1. /\ disk' \in Disk /\ SameStaged /\ SameTarget
        /\ Laid("absent", IF disk.staging = "tree" THEN "swept" ELSE disk.staging)
    BY <1>4, ZenonT(20) DEF Disk, SameStaged, SameTarget, Laid
  <2> QED
    BY <1>0, <2>1, ZenonT(20) DEF Intrudes
<1> QED
  BY <1>1, <1>2, <1>3, <1>4, Zenon DEF T!Elsewhere

-----------------------------------------------------------------------------
(* The migration of a Template: each part survives each form               *)

LEMMA TypesKept ==
  ASSUME Types, KeptTypes
  PROVE  Types'
<1> USE DEF Types, DiskTypes, PlanTypes, TemplateStepTypes, OwnerTypes, ScreenTypes,
       TemplateBoundTypes, KeptTypes
<1>1. Disk' = Disk /\ Plan' = Plan /\ Step' = Step /\ Screen' = Screen
  BY Kinds, Zenon
<1>2. Sessions' = Sessions /\ Owner' = Owner
  BY DEF Sessions, Owner
<1>3. faults' \in 0..MaxFaults /\ outside' \in 0..MaxOutside
  BY BoundsAssumption
<1> QED
  BY <1>1, <1>2, <1>3, Zenon

Planned == Locks \/ LocksNot \/ LocksStay \/ Makes \/ MakesNot \/ CopiesSource \/ CopiesNot
Round == ChooseNot \/ Reopens \/ TemplateGivesUp \/ Completes \/ Requires \/ Writes
Publication == \/ Prepares \/ PreparesNot \/ TemplateApplies \/ AppliesNot \/ TemplateRenames \/ TemplateRenamesNot
               \/ TemplateFinds \/ FindsStaged \/ FindsNeither \/ TemplateVerifies \/ TemplateVerifiesNot
Clearing == \/ Empties \/ EmptiesNot \/ FindsEmpty \/ Removes \/ ClearStuck \/ Syncs \/ TemplateReleases
Ends == \/ AsksAgain \/ Raises \/ Refuses \/ Retries \/ Discarded \/ Discards \/ CleansNot
        \/ Pends \/ Stores \/ Tells \/ Dies
Asked == \/ AskedToClean \/ AskedAgain \/ Finishes \/ ShowsPreview \/ SendsChoices \/ OpensDialog
         \/ Confirms \/ Declines
Departing == Unmounts \/ GoesOn \/ CleansLast \/ LetsGoLast \/ Intrudes
Effect == Planned \/ Round \/ Publication \/ Clearing \/ Ends \/ Asked \/ Departing

LEMMA Effects ==
  ASSUME Types, TemplateJobShape, TemplateRoundShape, T!Next
  PROVE  KeptTypes /\ Effect
<1>1. CASE T!Poll \/ T!User
  BY <1>1, PollCases, UserCases, Zenon DEF Effect, Asked
<1>2. CASE T!Quit \/ T!Shutdown \/ T!Elsewhere
  BY <1>2, EndCases, ElsewhereCases, Zenon DEF Effect, Departing
<1>3. CASE T!WorkerStep
  <2> UNCHANGED scr
    BY <1>3, Zenon DEF T!WorkerStep
  <2>1. CASE T!Acquire \/ T!MakeTransaction \/ T!CopySource
    BY <2>1, AcquireCases, MakeTransactionCases, CopySourceCases, Zenon DEF Effect, Planned
  <2>2. CASE T!Choose \/ T!Resolve \/ T!WriteManifest
    BY <2>2, ChooseCases, ResolveCases, WriteManifestCases, Zenon DEF Effect, Round
  <2>3. CASE T!Prepare \/ T!Apply \/ T!Rename \/ T!Reconcile \/ T!Verify
    BY <2>3, PrepareCases, ApplyCases, RenameCases, ReconcileCases, VerifyCases, Zenon
    DEF Effect, Publication
  <2>4. CASE T!EmptyTransaction \/ T!RemoveTransaction \/ T!SyncRemoval \/ T!ReleaseLocks
    BY <2>4, EmptyTransactionCases, RemoveTransactionCases, SyncRemovalCases, ReleaseLocksCases,
       Zenon DEF Effect, Clearing
  <2>5. CASE T!Raised \/ T!Refused \/ T!CleanupBegins \/ T!Unfinished \/ T!StoreError \/ T!Cleaned \/ T!ThreadEnds
    BY <2>5, RaisedCases, EndingCases, CleanupBeginsCases, Zenon DEF Effect, Ends
  <2> QED
    BY <1>3, <2>1, <2>2, <2>3, <2>4, <2>5, Zenon DEF T!WorkerStep, T!Worker
<1> QED
  BY <1>1, <1>2, <1>3, Zenon DEF T!Next

LEMMA TemplateJobShapeKept ==
  ASSUME Types, TemplateJobShape, KeptTypes, Effect
  PROVE  TemplateJobShape'
<1> USE DEF Moves, Ctl, SameCtl, SameData, Laid, SameStaged, SameTarget, Quietly, Stuck, Swept,
       SweptWith, SamePlace, SameOwner, CleaningUp, Begins, Shows, Letsgo, Quits
<1>1. CASE Planned
  <2>1. CASE Locks
    BY <2>1, SMTT(20) DEF Locks, TemplateJobShape, Plans, Clears, Publishes, TemplateCleaners
  <2>2. CASE LocksNot
    BY <2>2, SMTT(20) DEF LocksNot, TemplateJobShape, Plans, Clears, Publishes, TemplateCleaners
  <2>3. CASE LocksStay
    BY <2>3, SMTT(20) DEF LocksStay, TemplateJobShape, Plans, Clears, Publishes, TemplateCleaners
  <2>4. CASE Makes
    BY <2>4, SMTT(20) DEF Makes, TemplateJobShape, Plans, Clears, Publishes, TemplateCleaners
  <2>5. CASE MakesNot
    BY <2>5, SMTT(20) DEF MakesNot, TemplateJobShape, Plans, Clears, Publishes, TemplateCleaners
  <2>6. CASE CopiesSource
    BY <2>6, SMTT(20) DEF CopiesSource, TemplateJobShape, Plans, Clears, Publishes, TemplateCleaners
  <2>7. CASE CopiesNot
    BY <2>7, SMTT(20) DEF CopiesNot, TemplateJobShape, Plans, Clears, Publishes, TemplateCleaners
  <2> QED
    BY <1>1, <2>1, <2>2, <2>3, <2>4, <2>5, <2>6, <2>7, Zenon DEF Planned
<1>2. CASE Round
  <2>1. CASE ChooseNot
    BY <2>1, SMTT(20) DEF ChooseNot, TemplateJobShape, Plans, Clears, Publishes, TemplateCleaners
  <2>2. CASE Reopens
    BY <2>2, SMTT(20) DEF Reopens, TemplateJobShape, Plans, Clears, Publishes, TemplateCleaners
  <2>3. CASE TemplateGivesUp
    BY <2>3, SMTT(20) DEF TemplateGivesUp, TemplateJobShape, Plans, Clears, Publishes,
       TemplateCleaners
  <2>4. CASE Completes
    BY <2>4, SMTT(20) DEF Completes, TemplateJobShape, Plans, Clears, Publishes, TemplateCleaners
  <2>5. CASE Requires
    BY <2>5, SMTT(20) DEF Requires, TemplateJobShape, Plans, Clears, Publishes, TemplateCleaners
  <2>6. CASE Writes
    BY <2>6, SMTT(20) DEF Writes, TemplateJobShape, Plans, Clears, Publishes, TemplateCleaners
  <2> QED
    BY <1>2, <2>1, <2>2, <2>3, <2>4, <2>5, <2>6, Zenon DEF Round
<1>3. CASE Publication
  <2>1. CASE Prepares
    BY <2>1, SMTT(20) DEF Prepares, TemplateJobShape, Plans, Clears, Publishes, TemplateCleaners
  <2>2. CASE PreparesNot
    BY <2>2, SMTT(20) DEF PreparesNot, TemplateJobShape, Plans, Clears, Publishes, TemplateCleaners
  <2>3. CASE TemplateApplies
    BY <2>3, SMTT(20) DEF TemplateApplies, TemplateJobShape, Plans, Clears, Publishes,
       TemplateCleaners
  <2>4. CASE AppliesNot
    BY <2>4, SMTT(20) DEF AppliesNot, TemplateJobShape, Plans, Clears, Publishes, TemplateCleaners
  <2>5. CASE TemplateRenames
    BY <2>5, SMTT(20) DEF TemplateRenames, TemplateJobShape, Plans, Clears, Publishes,
       TemplateCleaners
  <2>6. CASE TemplateRenamesNot
    BY <2>6, SMTT(20) DEF TemplateRenamesNot, TemplateJobShape, Plans, Clears, Publishes,
       TemplateCleaners
  <2>7. CASE TemplateFinds
    BY <2>7, SMTT(20) DEF TemplateFinds, TemplateJobShape, Plans, Clears, Publishes,
       TemplateCleaners
  <2>8. CASE FindsStaged
    BY <2>8, SMTT(20) DEF FindsStaged, TemplateJobShape, Plans, Clears, Publishes, TemplateCleaners
  <2>9. CASE FindsNeither
    BY <2>9, SMTT(20) DEF FindsNeither, TemplateJobShape, Plans, Clears, Publishes, TemplateCleaners
  <2>10. CASE TemplateVerifies
    BY <2>10, SMTT(20) DEF TemplateVerifies, TemplateJobShape, Plans, Clears, Publishes,
       TemplateCleaners
  <2>11. CASE TemplateVerifiesNot
    BY <2>11, SMTT(20) DEF TemplateVerifiesNot, TemplateJobShape, Plans, Clears, Publishes,
       TemplateCleaners
  <2> QED
    BY <1>3, <2>1, <2>2, <2>3, <2>4, <2>5, <2>6, <2>7, <2>8, <2>9, <2>10, <2>11,
       Zenon DEF Publication
<1>4. CASE Clearing
  <2>1. CASE Empties
    BY <2>1, SMTT(20) DEF Empties, TemplateJobShape, Plans, Clears, Publishes, TemplateCleaners
  <2>2. CASE EmptiesNot
    BY <2>2, SMTT(20) DEF EmptiesNot, TemplateJobShape, Plans, Clears, Publishes, TemplateCleaners
  <2>3. CASE FindsEmpty
    BY <2>3, SMTT(20) DEF FindsEmpty, TemplateJobShape, Plans, Clears, Publishes, TemplateCleaners
  <2>4. CASE Removes
    BY <2>4, SMTT(20) DEF Removes, TemplateJobShape, Plans, Clears, Publishes, TemplateCleaners
  <2>5. CASE ClearStuck
    BY <2>5, SMTT(20) DEF ClearStuck, TemplateJobShape, Plans, Clears, Publishes, TemplateCleaners
  <2>6. CASE Syncs
    BY <2>6, SMTT(20) DEF Syncs, TemplateJobShape, Plans, Clears, Publishes, TemplateCleaners
  <2>7. CASE TemplateReleases
    BY <2>7, SMTT(20) DEF TemplateReleases, TemplateJobShape, Plans, Clears, Publishes,
       TemplateCleaners
  <2> QED
    BY <1>4, <2>1, <2>2, <2>3, <2>4, <2>5, <2>6, <2>7, Zenon DEF Clearing
<1>5. CASE Ends
  <2>1. CASE AsksAgain
    BY <2>1, SMTT(20) DEF AsksAgain, TemplateJobShape, Plans, Clears, Publishes, TemplateCleaners
  <2>2. CASE Raises
    BY <2>2, SMTT(20) DEF Raises, TemplateJobShape, Plans, Clears, Publishes, TemplateCleaners
  <2>3. CASE Refuses
    BY <2>3, SMTT(20) DEF Refuses, TemplateJobShape, Plans, Clears, Publishes, TemplateCleaners
  <2>4. CASE Retries
    BY <2>4, SMTT(20) DEF Retries, TemplateJobShape, Plans, Clears, Publishes, TemplateCleaners
  <2>5. CASE Discarded
    BY <2>5, SMTT(20) DEF Discarded, TemplateJobShape, Plans, Clears, Publishes, TemplateCleaners
  <2>6. CASE Discards
    BY <2>6, SMTT(20) DEF Discards, TemplateJobShape, Plans, Clears, Publishes, TemplateCleaners
  <2>7. CASE CleansNot
    BY <2>7, SMTT(20) DEF CleansNot, TemplateJobShape, Plans, Clears, Publishes, TemplateCleaners
  <2>8. CASE Pends
    BY <2>8, SMTT(20) DEF Pends, TemplateJobShape, Plans, Clears, Publishes, TemplateCleaners
  <2>9. CASE Stores
    BY <2>9, SMTT(20) DEF Stores, TemplateJobShape, Plans, Clears, Publishes, TemplateCleaners
  <2>10. CASE Tells
    BY <2>10, SMTT(20) DEF Tells, TemplateJobShape, Plans, Clears, Publishes, TemplateCleaners
  <2>11. CASE Dies
    BY <2>11, SMTT(20) DEF Dies, TemplateJobShape, Plans, Clears, Publishes, TemplateCleaners
  <2> QED
    BY <1>5, <2>1, <2>2, <2>3, <2>4, <2>5, <2>6, <2>7, <2>8, <2>9, <2>10, <2>11, Zenon DEF Ends
<1>6. CASE Asked
  <2>1. CASE AskedToClean
    BY <2>1, SMTT(20) DEF AskedToClean, TemplateJobShape, Plans, Clears, Publishes, TemplateCleaners
  <2>2. CASE AskedAgain
    BY <2>2, SMTT(20) DEF AskedAgain, TemplateJobShape, Plans, Clears, Publishes, TemplateCleaners
  <2>3. CASE Finishes
    BY <2>3, SMTT(20) DEF Finishes, TemplateJobShape, Plans, Clears, Publishes, TemplateCleaners
  <2>4. CASE ShowsPreview
    BY <2>4, SMTT(20) DEF ShowsPreview, TemplateJobShape, Plans, Clears, Publishes, TemplateCleaners
  <2>5. CASE SendsChoices
    BY <2>5, SMTT(20) DEF SendsChoices, TemplateJobShape, Plans, Clears, Publishes, TemplateCleaners
  <2>6. CASE OpensDialog
    BY <2>6, SMTT(20) DEF OpensDialog, TemplateJobShape, Plans, Clears, Publishes, TemplateCleaners
  <2>7. CASE Confirms
    BY <2>7, SMTT(20) DEF Confirms, TemplateJobShape, Plans, Clears, Publishes, TemplateCleaners
  <2>8. CASE Declines
    BY <2>8, SMTT(20) DEF Declines, TemplateJobShape, Plans, Clears, Publishes, TemplateCleaners
  <2> QED
    BY <1>6, <2>1, <2>2, <2>3, <2>4, <2>5, <2>6, <2>7, <2>8, Zenon DEF Asked
<1>7. CASE Departing
  <2>1. CASE Unmounts
    BY <2>1, SMTT(20) DEF Unmounts, TemplateJobShape, Plans, Clears, Publishes, TemplateCleaners
  <2>2. CASE GoesOn
    BY <2>2, SMTT(20) DEF GoesOn, TemplateJobShape, Plans, Clears, Publishes, TemplateCleaners
  <2>3. CASE CleansLast
    BY <2>3, SMTT(20) DEF CleansLast, TemplateJobShape, Plans, Clears, Publishes, TemplateCleaners
  <2>4. CASE LetsGoLast
    BY <2>4, SMTT(20) DEF LetsGoLast, TemplateJobShape, Plans, Clears, Publishes, TemplateCleaners
  <2>5. CASE Intrudes
    BY <2>5, SMTT(20) DEF Intrudes, TemplateJobShape, Plans, Clears, Publishes, TemplateCleaners
  <2> QED
    BY <1>7, <2>1, <2>2, <2>3, <2>4, <2>5, Zenon DEF Departing
<1> QED
  BY <1>1, <1>2, <1>3, <1>4, <1>5, <1>6, <1>7, Zenon DEF Effect

LEMMA TemplatePlanShapeKept ==
  ASSUME Types, TemplatePlanShape, TemplateJobShape, KeptTypes, Effect
  PROVE  TemplatePlanShape'
<1> /\ disk.tree \in {"absent", "full", "emptied", "bare"}
    /\ disk.staging \in {"none", "tree", "moved", "gone", "swept"}
  BY Zenon DEF Types, DiskTypes, PlanTypes, TemplateStepTypes, OwnerTypes, ScreenTypes,
     TemplateBoundTypes, Disk
<1> plan.pub \in {"not-published", "uncertain", "published"}
  BY Zenon DEF Types, DiskTypes, PlanTypes, TemplateStepTypes, OwnerTypes, ScreenTypes,
     TemplateBoundTypes, Plan
<1> USE DEF Moves, Ctl, SameCtl, SameData, Laid, SameStaged, SameTarget, Quietly, Stuck, Swept,
       SweptWith, SamePlace, SameOwner, CleaningUp, Begins, Shows, Letsgo, Quits
<1>1. CASE Planned
  <2>1. CASE Locks
    BY <2>1, SMTT(20) DEF Locks, TemplatePlanShape, TemplateJobShape, Plans, Clears, Publishes,
       TemplateCleaners, TemplateAsking
  <2>2. CASE LocksNot
    BY <2>2, SMTT(20) DEF LocksNot, TemplatePlanShape, TemplateJobShape, Plans, Clears, Publishes,
       TemplateCleaners, TemplateAsking
  <2>3. CASE LocksStay
    BY <2>3, SMTT(20) DEF LocksStay, TemplatePlanShape, TemplateJobShape, Plans, Clears,
       Publishes, TemplateCleaners, TemplateAsking
  <2>4. CASE Makes
    BY <2>4, SMTT(20) DEF Makes, TemplatePlanShape, TemplateJobShape, Plans, Clears, Publishes,
       TemplateCleaners, TemplateAsking
  <2>5. CASE MakesNot
    BY <2>5, SMTT(20) DEF MakesNot, TemplatePlanShape, TemplateJobShape, Plans, Clears, Publishes,
       TemplateCleaners, TemplateAsking
  <2>6. CASE CopiesSource
    BY <2>6, SMTT(20) DEF CopiesSource, TemplatePlanShape, TemplateJobShape, Plans, Clears,
       Publishes, TemplateCleaners, TemplateAsking
  <2>7. CASE CopiesNot
    BY <2>7, SMTT(20) DEF CopiesNot, TemplatePlanShape, TemplateJobShape, Plans, Clears,
       Publishes, TemplateCleaners, TemplateAsking
  <2> QED
    BY <1>1, <2>1, <2>2, <2>3, <2>4, <2>5, <2>6, <2>7, Zenon DEF Planned
<1>2. CASE Round
  <2>1. CASE ChooseNot
    BY <2>1, SMTT(20) DEF ChooseNot, TemplatePlanShape, TemplateJobShape, Plans, Clears,
       Publishes, TemplateCleaners, TemplateAsking
  <2>2. CASE Reopens
    BY <2>2, SMTT(20) DEF Reopens, TemplatePlanShape, TemplateJobShape, Plans, Clears, Publishes,
       TemplateCleaners, TemplateAsking
  <2>3. CASE TemplateGivesUp
    BY <2>3, SMTT(20) DEF TemplateGivesUp, TemplatePlanShape, TemplateJobShape, Plans, Clears,
       Publishes, TemplateCleaners, TemplateAsking
  <2>4. CASE Completes
    BY <2>4, SMTT(20) DEF Completes, TemplatePlanShape, TemplateJobShape, Plans, Clears,
       Publishes, TemplateCleaners, TemplateAsking
  <2>5. CASE Requires
    BY <2>5, SMTT(20) DEF Requires, TemplatePlanShape, TemplateJobShape, Plans, Clears, Publishes,
       TemplateCleaners, TemplateAsking
  <2>6. CASE Writes
    BY <2>6, SMTT(20) DEF Writes, TemplatePlanShape, TemplateJobShape, Plans, Clears, Publishes,
       TemplateCleaners, TemplateAsking
  <2> QED
    BY <1>2, <2>1, <2>2, <2>3, <2>4, <2>5, <2>6, Zenon DEF Round
<1>3. CASE Publication
  <2>1. CASE Prepares
    BY <2>1, SMTT(20) DEF Prepares, TemplatePlanShape, TemplateJobShape, Plans, Clears, Publishes,
       TemplateCleaners, TemplateAsking
  <2>2. CASE PreparesNot
    BY <2>2, SMTT(20) DEF PreparesNot, TemplatePlanShape, TemplateJobShape, Plans, Clears,
       Publishes, TemplateCleaners, TemplateAsking
  <2>3. CASE TemplateApplies
    BY <2>3, SMTT(20) DEF TemplateApplies, TemplatePlanShape, TemplateJobShape, Plans, Clears,
       Publishes, TemplateCleaners, TemplateAsking
  <2>4. CASE AppliesNot
    BY <2>4, SMTT(20) DEF AppliesNot, TemplatePlanShape, TemplateJobShape, Plans, Clears,
       Publishes, TemplateCleaners, TemplateAsking
  <2>5. CASE TemplateRenames
    BY <2>5, SMTT(20) DEF TemplateRenames, TemplatePlanShape, TemplateJobShape, Plans, Clears,
       Publishes, TemplateCleaners, TemplateAsking
  <2>6. CASE TemplateRenamesNot
    BY <2>6, SMTT(20) DEF TemplateRenamesNot, TemplatePlanShape, TemplateJobShape, Plans, Clears,
       Publishes, TemplateCleaners, TemplateAsking
  <2>7. CASE TemplateFinds
    BY <2>7, SMTT(20) DEF TemplateFinds, TemplatePlanShape, TemplateJobShape, Plans, Clears,
       Publishes, TemplateCleaners, TemplateAsking
  <2>8. CASE FindsStaged
    BY <2>8, SMTT(20) DEF FindsStaged, TemplatePlanShape, TemplateJobShape, Plans, Clears,
       Publishes, TemplateCleaners, TemplateAsking
  <2>9. CASE FindsNeither
    BY <2>9, SMTT(20) DEF FindsNeither, TemplatePlanShape, TemplateJobShape, Plans, Clears,
       Publishes, TemplateCleaners, TemplateAsking
  <2>10. CASE TemplateVerifies
    BY <2>10, SMTT(20) DEF TemplateVerifies, TemplatePlanShape, TemplateJobShape, Plans, Clears,
       Publishes, TemplateCleaners, TemplateAsking
  <2>11. CASE TemplateVerifiesNot
    BY <2>11, SMTT(20) DEF TemplateVerifiesNot, TemplatePlanShape, TemplateJobShape, Plans,
       Clears, Publishes, TemplateCleaners, TemplateAsking
  <2> QED
    BY <1>3, <2>1, <2>2, <2>3, <2>4, <2>5, <2>6, <2>7, <2>8, <2>9, <2>10, <2>11,
       Zenon DEF Publication
<1>4. CASE Clearing
  <2>1. CASE Empties
    BY <2>1, SMTT(20) DEF Empties, TemplatePlanShape, TemplateJobShape, Plans, Clears, Publishes,
       TemplateCleaners, TemplateAsking
  <2>2. CASE EmptiesNot
    BY <2>2, SMTT(20) DEF EmptiesNot, TemplatePlanShape, TemplateJobShape, Plans, Clears,
       Publishes, TemplateCleaners, TemplateAsking
  <2>3. CASE FindsEmpty
    BY <2>3, SMTT(20) DEF FindsEmpty, TemplatePlanShape, TemplateJobShape, Plans, Clears,
       Publishes, TemplateCleaners, TemplateAsking
  <2>4. CASE Removes
    BY <2>4, SMTT(20) DEF Removes, TemplatePlanShape, TemplateJobShape, Plans, Clears, Publishes,
       TemplateCleaners, TemplateAsking
  <2>5. CASE ClearStuck
    BY <2>5, SMTT(20) DEF ClearStuck, TemplatePlanShape, TemplateJobShape, Plans, Clears,
       Publishes, TemplateCleaners, TemplateAsking
  <2>6. CASE Syncs
    BY <2>6, SMTT(20) DEF Syncs, TemplatePlanShape, TemplateJobShape, Plans, Clears, Publishes,
       TemplateCleaners, TemplateAsking
  <2>7. CASE TemplateReleases
    BY <2>7, SMTT(20) DEF TemplateReleases, TemplatePlanShape, TemplateJobShape, Plans, Clears,
       Publishes, TemplateCleaners, TemplateAsking
  <2> QED
    BY <1>4, <2>1, <2>2, <2>3, <2>4, <2>5, <2>6, <2>7, Zenon DEF Clearing
<1>5. CASE Ends
  <2>1. CASE AsksAgain
    BY <2>1, SMTT(20) DEF AsksAgain, TemplatePlanShape, TemplateJobShape, Plans, Clears,
       Publishes, TemplateCleaners, TemplateAsking
  <2>2. CASE Raises
    BY <2>2, SMTT(20) DEF Raises, TemplatePlanShape, TemplateJobShape, Plans, Clears, Publishes,
       TemplateCleaners, TemplateAsking
  <2>3. CASE Refuses
    BY <2>3, SMTT(20) DEF Refuses, TemplatePlanShape, TemplateJobShape, Plans, Clears, Publishes,
       TemplateCleaners, TemplateAsking
  <2>4. CASE Retries
    BY <2>4, SMTT(20) DEF Retries, TemplatePlanShape, TemplateJobShape, Plans, Clears, Publishes,
       TemplateCleaners, TemplateAsking
  <2>5. CASE Discarded
    BY <2>5, SMTT(20) DEF Discarded, TemplatePlanShape, TemplateJobShape, Plans, Clears,
       Publishes, TemplateCleaners, TemplateAsking
  <2>6. CASE Discards
    BY <2>6, SMTT(20) DEF Discards, TemplatePlanShape, TemplateJobShape, Plans, Clears, Publishes,
       TemplateCleaners, TemplateAsking
  <2>7. CASE CleansNot
    BY <2>7, SMTT(20) DEF CleansNot, TemplatePlanShape, TemplateJobShape, Plans, Clears,
       Publishes, TemplateCleaners, TemplateAsking
  <2>8. CASE Pends
    BY <2>8, SMTT(20) DEF Pends, TemplatePlanShape, TemplateJobShape, Plans, Clears, Publishes,
       TemplateCleaners, TemplateAsking
  <2>9. CASE Stores
    BY <2>9, SMTT(20) DEF Stores, TemplatePlanShape, TemplateJobShape, Plans, Clears, Publishes,
       TemplateCleaners, TemplateAsking
  <2>10. CASE Tells
    BY <2>10, SMTT(20) DEF Tells, TemplatePlanShape, TemplateJobShape, Plans, Clears, Publishes,
       TemplateCleaners, TemplateAsking
  <2>11. CASE Dies
    BY <2>11, SMTT(20) DEF Dies, TemplatePlanShape, TemplateJobShape, Plans, Clears, Publishes,
       TemplateCleaners, TemplateAsking
  <2> QED
    BY <1>5, <2>1, <2>2, <2>3, <2>4, <2>5, <2>6, <2>7, <2>8, <2>9, <2>10, <2>11, Zenon DEF Ends
<1>6. CASE Asked
  <2>1. CASE AskedToClean
    BY <2>1, SMTT(20) DEF AskedToClean, TemplatePlanShape, TemplateJobShape, Plans, Clears,
       Publishes, TemplateCleaners, TemplateAsking
  <2>2. CASE AskedAgain
    BY <2>2, SMTT(20) DEF AskedAgain, TemplatePlanShape, TemplateJobShape, Plans, Clears,
       Publishes, TemplateCleaners, TemplateAsking
  <2>3. CASE Finishes
    BY <2>3, SMTT(20) DEF Finishes, TemplatePlanShape, TemplateJobShape, Plans, Clears, Publishes,
       TemplateCleaners, TemplateAsking
  <2>4. CASE ShowsPreview
    BY <2>4, SMTT(20) DEF ShowsPreview, TemplatePlanShape, TemplateJobShape, Plans, Clears,
       Publishes, TemplateCleaners, TemplateAsking
  <2>5. CASE SendsChoices
    BY <2>5, SMTT(20) DEF SendsChoices, TemplatePlanShape, TemplateJobShape, Plans, Clears,
       Publishes, TemplateCleaners, TemplateAsking
  <2>6. CASE OpensDialog
    BY <2>6, SMTT(20) DEF OpensDialog, TemplatePlanShape, TemplateJobShape, Plans, Clears,
       Publishes, TemplateCleaners, TemplateAsking
  <2>7. CASE Confirms
    BY <2>7, SMTT(20) DEF Confirms, TemplatePlanShape, TemplateJobShape, Plans, Clears, Publishes,
       TemplateCleaners, TemplateAsking
  <2>8. CASE Declines
    BY <2>8, SMTT(20) DEF Declines, TemplatePlanShape, TemplateJobShape, Plans, Clears, Publishes,
       TemplateCleaners, TemplateAsking
  <2> QED
    BY <1>6, <2>1, <2>2, <2>3, <2>4, <2>5, <2>6, <2>7, <2>8, Zenon DEF Asked
<1>7. CASE Departing
  <2>1. CASE Unmounts
    BY <2>1, SMTT(20) DEF Unmounts, TemplatePlanShape, TemplateJobShape, Plans, Clears, Publishes,
       TemplateCleaners, TemplateAsking
  <2>2. CASE GoesOn
    BY <2>2, SMTT(20) DEF GoesOn, TemplatePlanShape, TemplateJobShape, Plans, Clears, Publishes,
       TemplateCleaners, TemplateAsking
  <2>3. CASE CleansLast
    BY <2>3, SMTT(20) DEF CleansLast, TemplatePlanShape, TemplateJobShape, Plans, Clears,
       Publishes, TemplateCleaners, TemplateAsking
  <2>4. CASE LetsGoLast
    BY <2>4, SMTT(20) DEF LetsGoLast, TemplatePlanShape, TemplateJobShape, Plans, Clears,
       Publishes, TemplateCleaners, TemplateAsking
  <2>5. CASE Intrudes
    BY <2>5, SMTT(20) DEF Intrudes, TemplatePlanShape, TemplateJobShape, Plans, Clears, Publishes,
       TemplateCleaners, TemplateAsking
  <2> QED
    BY <1>7, <2>1, <2>2, <2>3, <2>4, <2>5, Zenon DEF Departing
<1> QED
  BY <1>1, <1>2, <1>3, <1>4, <1>5, <1>6, <1>7, Zenon DEF Effect

LEMMA TemplateOwnerShapeKept ==
  ASSUME Types, TemplateOwnerShape, TemplateJobShape, TemplatePlanShape, KeptTypes, Effect
  PROVE  TemplateOwnerShape'
<1> plan.pub \in {"not-published", "uncertain", "published"}
  BY Zenon DEF Types, DiskTypes, PlanTypes, TemplateStepTypes, OwnerTypes, ScreenTypes,
     TemplateBoundTypes, Plan
<1> USE DEF Moves, Ctl, SameCtl, SameData, Laid, SameStaged, SameTarget, Quietly, Stuck, Swept,
       SweptWith, SamePlace, SameOwner, CleaningUp, Begins, Shows, Letsgo, Quits
<1>1. CASE Planned
  <2>1. CASE Locks
    BY <2>1, SMTT(20) DEF Locks, TemplateOwnerShape, TemplateJobShape, TemplatePlanShape, Plans,
       Clears, Publishes, TemplateCleaners, TemplateAsking
  <2>2. CASE LocksNot
    BY <2>2, SMTT(20) DEF LocksNot, TemplateOwnerShape, TemplateJobShape, TemplatePlanShape,
       Plans, Clears, Publishes, TemplateCleaners, TemplateAsking
  <2>3. CASE LocksStay
    BY <2>3, SMTT(20) DEF LocksStay, TemplateOwnerShape, TemplateJobShape, TemplatePlanShape,
       Plans, Clears, Publishes, TemplateCleaners, TemplateAsking
  <2>4. CASE Makes
    BY <2>4, SMTT(20) DEF Makes, TemplateOwnerShape, TemplateJobShape, TemplatePlanShape, Plans,
       Clears, Publishes, TemplateCleaners, TemplateAsking
  <2>5. CASE MakesNot
    BY <2>5, SMTT(20) DEF MakesNot, TemplateOwnerShape, TemplateJobShape, TemplatePlanShape,
       Plans, Clears, Publishes, TemplateCleaners, TemplateAsking
  <2>6. CASE CopiesSource
    BY <2>6, SMTT(20) DEF CopiesSource, TemplateOwnerShape, TemplateJobShape, TemplatePlanShape,
       Plans, Clears, Publishes, TemplateCleaners, TemplateAsking
  <2>7. CASE CopiesNot
    BY <2>7, SMTT(20) DEF CopiesNot, TemplateOwnerShape, TemplateJobShape, TemplatePlanShape,
       Plans, Clears, Publishes, TemplateCleaners, TemplateAsking
  <2> QED
    BY <1>1, <2>1, <2>2, <2>3, <2>4, <2>5, <2>6, <2>7, Zenon DEF Planned
<1>2. CASE Round
  <2>1. CASE ChooseNot
    BY <2>1, SMTT(20) DEF ChooseNot, TemplateOwnerShape, TemplateJobShape, TemplatePlanShape,
       Plans, Clears, Publishes, TemplateCleaners, TemplateAsking
  <2>2. CASE Reopens
    BY <2>2, SMTT(20) DEF Reopens, TemplateOwnerShape, TemplateJobShape, TemplatePlanShape, Plans,
       Clears, Publishes, TemplateCleaners, TemplateAsking
  <2>3. CASE TemplateGivesUp
    BY <2>3, SMTT(20) DEF TemplateGivesUp, TemplateOwnerShape, TemplateJobShape,
       TemplatePlanShape, Plans, Clears, Publishes, TemplateCleaners, TemplateAsking
  <2>4. CASE Completes
    BY <2>4, SMTT(20) DEF Completes, TemplateOwnerShape, TemplateJobShape, TemplatePlanShape,
       Plans, Clears, Publishes, TemplateCleaners, TemplateAsking
  <2>5. CASE Requires
    BY <2>5, SMTT(20) DEF Requires, TemplateOwnerShape, TemplateJobShape, TemplatePlanShape,
       Plans, Clears, Publishes, TemplateCleaners, TemplateAsking
  <2>6. CASE Writes
    BY <2>6, SMTT(20) DEF Writes, TemplateOwnerShape, TemplateJobShape, TemplatePlanShape, Plans,
       Clears, Publishes, TemplateCleaners, TemplateAsking
  <2> QED
    BY <1>2, <2>1, <2>2, <2>3, <2>4, <2>5, <2>6, Zenon DEF Round
<1>3. CASE Publication
  <2>1. CASE Prepares
    BY <2>1, SMTT(20) DEF Prepares, TemplateOwnerShape, TemplateJobShape, TemplatePlanShape,
       Plans, Clears, Publishes, TemplateCleaners, TemplateAsking
  <2>2. CASE PreparesNot
    BY <2>2, SMTT(20) DEF PreparesNot, TemplateOwnerShape, TemplateJobShape, TemplatePlanShape,
       Plans, Clears, Publishes, TemplateCleaners, TemplateAsking
  <2>3. CASE TemplateApplies
    BY <2>3, SMTT(20) DEF TemplateApplies, TemplateOwnerShape, TemplateJobShape,
       TemplatePlanShape, Plans, Clears, Publishes, TemplateCleaners, TemplateAsking
  <2>4. CASE AppliesNot
    BY <2>4, SMTT(20) DEF AppliesNot, TemplateOwnerShape, TemplateJobShape, TemplatePlanShape,
       Plans, Clears, Publishes, TemplateCleaners, TemplateAsking
  <2>5. CASE TemplateRenames
    BY <2>5, SMTT(20) DEF TemplateRenames, TemplateOwnerShape, TemplateJobShape,
       TemplatePlanShape, Plans, Clears, Publishes, TemplateCleaners, TemplateAsking
  <2>6. CASE TemplateRenamesNot
    BY <2>6, SMTT(20) DEF TemplateRenamesNot, TemplateOwnerShape, TemplateJobShape,
       TemplatePlanShape, Plans, Clears, Publishes, TemplateCleaners, TemplateAsking
  <2>7. CASE TemplateFinds
    BY <2>7, SMTT(20) DEF TemplateFinds, TemplateOwnerShape, TemplateJobShape, TemplatePlanShape,
       Plans, Clears, Publishes, TemplateCleaners, TemplateAsking
  <2>8. CASE FindsStaged
    BY <2>8, SMTT(20) DEF FindsStaged, TemplateOwnerShape, TemplateJobShape, TemplatePlanShape,
       Plans, Clears, Publishes, TemplateCleaners, TemplateAsking
  <2>9. CASE FindsNeither
    BY <2>9, SMTT(20) DEF FindsNeither, TemplateOwnerShape, TemplateJobShape, TemplatePlanShape,
       Plans, Clears, Publishes, TemplateCleaners, TemplateAsking
  <2>10. CASE TemplateVerifies
    BY <2>10, SMTT(20) DEF TemplateVerifies, TemplateOwnerShape, TemplateJobShape,
       TemplatePlanShape, Plans, Clears, Publishes, TemplateCleaners, TemplateAsking
  <2>11. CASE TemplateVerifiesNot
    BY <2>11, SMTT(20) DEF TemplateVerifiesNot, TemplateOwnerShape, TemplateJobShape,
       TemplatePlanShape, Plans, Clears, Publishes, TemplateCleaners, TemplateAsking
  <2> QED
    BY <1>3, <2>1, <2>2, <2>3, <2>4, <2>5, <2>6, <2>7, <2>8, <2>9, <2>10, <2>11,
       Zenon DEF Publication
<1>4. CASE Clearing
  <2>1. CASE Empties
    BY <2>1, SMTT(20) DEF Empties, TemplateOwnerShape, TemplateJobShape, TemplatePlanShape, Plans,
       Clears, Publishes, TemplateCleaners, TemplateAsking
  <2>2. CASE EmptiesNot
    BY <2>2, SMTT(20) DEF EmptiesNot, TemplateOwnerShape, TemplateJobShape, TemplatePlanShape,
       Plans, Clears, Publishes, TemplateCleaners, TemplateAsking
  <2>3. CASE FindsEmpty
    BY <2>3, SMTT(20) DEF FindsEmpty, TemplateOwnerShape, TemplateJobShape, TemplatePlanShape,
       Plans, Clears, Publishes, TemplateCleaners, TemplateAsking
  <2>4. CASE Removes
    BY <2>4, SMTT(20) DEF Removes, TemplateOwnerShape, TemplateJobShape, TemplatePlanShape, Plans,
       Clears, Publishes, TemplateCleaners, TemplateAsking
  <2>5. CASE ClearStuck
    BY <2>5, SMTT(20) DEF ClearStuck, TemplateOwnerShape, TemplateJobShape, TemplatePlanShape,
       Plans, Clears, Publishes, TemplateCleaners, TemplateAsking
  <2>6. CASE Syncs
    BY <2>6, SMTT(20) DEF Syncs, TemplateOwnerShape, TemplateJobShape, TemplatePlanShape, Plans,
       Clears, Publishes, TemplateCleaners, TemplateAsking
  <2>7. CASE TemplateReleases
    BY <2>7, SMTT(20) DEF TemplateReleases, TemplateOwnerShape, TemplateJobShape,
       TemplatePlanShape, Plans, Clears, Publishes, TemplateCleaners, TemplateAsking
  <2> QED
    BY <1>4, <2>1, <2>2, <2>3, <2>4, <2>5, <2>6, <2>7, Zenon DEF Clearing
<1>5. CASE Ends
  <2>1. CASE AsksAgain
    BY <2>1, SMTT(20) DEF AsksAgain, TemplateOwnerShape, TemplateJobShape, TemplatePlanShape,
       Plans, Clears, Publishes, TemplateCleaners, TemplateAsking
  <2>2. CASE Raises
    BY <2>2, SMTT(20) DEF Raises, TemplateOwnerShape, TemplateJobShape, TemplatePlanShape, Plans,
       Clears, Publishes, TemplateCleaners, TemplateAsking
  <2>3. CASE Refuses
    BY <2>3, SMTT(20) DEF Refuses, TemplateOwnerShape, TemplateJobShape, TemplatePlanShape, Plans,
       Clears, Publishes, TemplateCleaners, TemplateAsking
  <2>4. CASE Retries
    BY <2>4, SMTT(20) DEF Retries, TemplateOwnerShape, TemplateJobShape, TemplatePlanShape, Plans,
       Clears, Publishes, TemplateCleaners, TemplateAsking
  <2>5. CASE Discarded
    BY <2>5, SMTT(20) DEF Discarded, TemplateOwnerShape, TemplateJobShape, TemplatePlanShape,
       Plans, Clears, Publishes, TemplateCleaners, TemplateAsking
  <2>6. CASE Discards
    BY <2>6, SMTT(20) DEF Discards, TemplateOwnerShape, TemplateJobShape, TemplatePlanShape,
       Plans, Clears, Publishes, TemplateCleaners, TemplateAsking
  <2>7. CASE CleansNot
    BY <2>7, SMTT(20) DEF CleansNot, TemplateOwnerShape, TemplateJobShape, TemplatePlanShape,
       Plans, Clears, Publishes, TemplateCleaners, TemplateAsking
  <2>8. CASE Pends
    BY <2>8, SMTT(20) DEF Pends, TemplateOwnerShape, TemplateJobShape, TemplatePlanShape, Plans,
       Clears, Publishes, TemplateCleaners, TemplateAsking
  <2>9. CASE Stores
    BY <2>9, SMTT(20) DEF Stores, TemplateOwnerShape, TemplateJobShape, TemplatePlanShape, Plans,
       Clears, Publishes, TemplateCleaners, TemplateAsking
  <2>10. CASE Tells
    BY <2>10, SMTT(20) DEF Tells, TemplateOwnerShape, TemplateJobShape, TemplatePlanShape, Plans,
       Clears, Publishes, TemplateCleaners, TemplateAsking
  <2>11. CASE Dies
    BY <2>11, SMTT(20) DEF Dies, TemplateOwnerShape, TemplateJobShape, TemplatePlanShape, Plans,
       Clears, Publishes, TemplateCleaners, TemplateAsking
  <2> QED
    BY <1>5, <2>1, <2>2, <2>3, <2>4, <2>5, <2>6, <2>7, <2>8, <2>9, <2>10, <2>11, Zenon DEF Ends
<1>6. CASE Asked
  <2>1. CASE AskedToClean
    BY <2>1, SMTT(20) DEF AskedToClean, TemplateOwnerShape, TemplateJobShape, TemplatePlanShape,
       Plans, Clears, Publishes, TemplateCleaners, TemplateAsking
  <2>2. CASE AskedAgain
    BY <2>2, SMTT(20) DEF AskedAgain, TemplateOwnerShape, TemplateJobShape, TemplatePlanShape,
       Plans, Clears, Publishes, TemplateCleaners, TemplateAsking
  <2>3. CASE Finishes
    BY <2>3, SMTT(20) DEF Finishes, TemplateOwnerShape, TemplateJobShape, TemplatePlanShape,
       Plans, Clears, Publishes, TemplateCleaners, TemplateAsking
  <2>4. CASE ShowsPreview
    BY <2>4, SMTT(20) DEF ShowsPreview, TemplateOwnerShape, TemplateJobShape, TemplatePlanShape,
       Plans, Clears, Publishes, TemplateCleaners, TemplateAsking
  <2>5. CASE SendsChoices
    BY <2>5, SMTT(20) DEF SendsChoices, TemplateOwnerShape, TemplateJobShape, TemplatePlanShape,
       Plans, Clears, Publishes, TemplateCleaners, TemplateAsking
  <2>6. CASE OpensDialog
    BY <2>6, SMTT(20) DEF OpensDialog, TemplateOwnerShape, TemplateJobShape, TemplatePlanShape,
       Plans, Clears, Publishes, TemplateCleaners, TemplateAsking
  <2>7. CASE Confirms
    BY <2>7, SMTT(20) DEF Confirms, TemplateOwnerShape, TemplateJobShape, TemplatePlanShape,
       Plans, Clears, Publishes, TemplateCleaners, TemplateAsking
  <2>8. CASE Declines
    BY <2>8, SMTT(20) DEF Declines, TemplateOwnerShape, TemplateJobShape, TemplatePlanShape,
       Plans, Clears, Publishes, TemplateCleaners, TemplateAsking
  <2> QED
    BY <1>6, <2>1, <2>2, <2>3, <2>4, <2>5, <2>6, <2>7, <2>8, Zenon DEF Asked
<1>7. CASE Departing
  <2>1. CASE Unmounts
    BY <2>1, SMTT(20) DEF Unmounts, TemplateOwnerShape, TemplateJobShape, TemplatePlanShape,
       Plans, Clears, Publishes, TemplateCleaners, TemplateAsking
  <2>2. CASE GoesOn
    BY <2>2, SMTT(20) DEF GoesOn, TemplateOwnerShape, TemplateJobShape, TemplatePlanShape, Plans,
       Clears, Publishes, TemplateCleaners, TemplateAsking
  <2>3. CASE CleansLast
    BY <2>3, SMTT(20) DEF CleansLast, TemplateOwnerShape, TemplateJobShape, TemplatePlanShape,
       Plans, Clears, Publishes, TemplateCleaners, TemplateAsking
  <2>4. CASE LetsGoLast
    BY <2>4, SMTT(20) DEF LetsGoLast, TemplateOwnerShape, TemplateJobShape, TemplatePlanShape,
       Plans, Clears, Publishes, TemplateCleaners, TemplateAsking
  <2>5. CASE Intrudes
    BY <2>5, SMTT(20) DEF Intrudes, TemplateOwnerShape, TemplateJobShape, TemplatePlanShape,
       Plans, Clears, Publishes, TemplateCleaners, TemplateAsking
  <2> QED
    BY <1>7, <2>1, <2>2, <2>3, <2>4, <2>5, Zenon DEF Departing
<1> QED
  BY <1>1, <1>2, <1>3, <1>4, <1>5, <1>6, <1>7, Zenon DEF Effect

LEMMA TemplateKept ==
  ASSUME UNCHANGED template
  PROVE  /\ Fresh(plan)' <=> Fresh(plan')
         /\ Sound(plan)' <=> Sound(plan')
         /\ Canon(plan)' <=> Canon(plan')
         /\ Fresh(thr.before)' <=> Fresh(thr'.before)
         /\ TemplateAccounted(scr.preview)' <=> TemplateAccounted(scr'.preview)
<1>1. Canon(plan)' <=> Canon(plan')
  BY DEF Canon
<1>2. Sound(plan)' <=> Sound(plan')
  BY DEF Sound, Listed, PinsKept
<1>3. Fresh(plan)' <=> Fresh(plan')
  BY <1>1, <1>2 DEF Fresh
<1>4. Fresh(thr.before)' <=> Fresh(thr'.before)
  BY DEF Fresh, Sound, Canon, Listed, PinsKept
<1>5. TemplateAccounted(scr.preview)' <=> TemplateAccounted(scr'.preview)
  BY DEF TemplateAccounted, Canon, Listed, PinsKept
<1> QED
  BY <1>1, <1>2, <1>3, <1>4, <1>5, Zenon

LEMMA DataKept ==
  ASSUME SameData
  PROVE  (Fresh(plan') <=> Fresh(plan)) /\ (Sound(plan') <=> Sound(plan)) /\ (Canon(plan') <=> Canon(plan))
BY DEF SameData, Fresh, Sound, Canon

LEMMA NothingAsked ==
  /\ plan.res.status = "none" => Fresh(plan)
  /\ plan'.res.status = "none" => Fresh(plan')
  /\ T!NoResult.status = "none"
BY DEF Fresh, T!NoResult

LEMMA FreshResults ==
  Fresh(plan) /\ plan.res.status = "resolved" => TemplateAccounted(plan.res)
BY DEF Fresh, Sound, Canon, TemplateAccounted

LEMMA TemplateRoundShapeKept ==
  ASSUME Types, TemplateRoundShape, TemplateJobShape, KeptTypes, Effect
  PROVE  TemplateRoundShape'
<1> USE DEF Moves, Ctl, SameCtl, Laid, SameStaged, SameTarget, Quietly, Stuck, Swept, SweptWith,
       SamePlace, SameOwner, CleaningUp, Begins, Shows, Letsgo, Quits
<1>0. UNCHANGED template /\ plan \in Plan /\ thr \in Step /\ Plan' = Plan
  BY Kinds, Zenon DEF KeptTypes, Types, DiskTypes, PlanTypes, TemplateStepTypes, OwnerTypes,
     ScreenTypes, TemplateBoundTypes
<1>. (UNCHANGED plan => SameData) /\ (SameData => plan'.res = plan.res)
  BY DEF SameData
<1>1. CASE Planned
  <2>1. CASE Locks
    BY <1>0, <2>1, TemplateKept, DataKept, NothingAsked, SMTT(20) DEF Locks, TemplateRoundShape,
       Working, TemplateJobShape, Plans, Clears, Publishes, TemplateCleaners, Since, T!Swapped,
       T!Left, T!Chosen
  <2>2. CASE LocksNot
    BY <1>0, <2>2, TemplateKept, DataKept, NothingAsked, SMTT(20) DEF LocksNot,
       TemplateRoundShape, Working, TemplateJobShape, Plans, Clears, Publishes, TemplateCleaners,
       Since, T!Swapped, T!Left, T!Chosen
  <2>3. CASE LocksStay
    BY <1>0, <2>3, TemplateKept, DataKept, NothingAsked, SMTT(20) DEF LocksStay,
       TemplateRoundShape, Working, TemplateJobShape, Plans, Clears, Publishes, TemplateCleaners,
       Since, T!Swapped, T!Left, T!Chosen
  <2>4. CASE Makes
    BY <1>0, <2>4, TemplateKept, DataKept, NothingAsked, SMTT(20) DEF Makes, TemplateRoundShape,
       Working, TemplateJobShape, Plans, Clears, Publishes, TemplateCleaners, Since, T!Swapped,
       T!Left, T!Chosen
  <2>5. CASE MakesNot
    BY <1>0, <2>5, TemplateKept, DataKept, NothingAsked, SMTT(20) DEF MakesNot,
       TemplateRoundShape, Working, TemplateJobShape, Plans, Clears, Publishes, TemplateCleaners,
       Since, T!Swapped, T!Left, T!Chosen
  <2>6. CASE CopiesSource
    BY <1>0, <2>6, TemplateKept, DataKept, NothingAsked, SMTT(20) DEF CopiesSource,
       TemplateRoundShape, Working, TemplateJobShape, Plans, Clears, Publishes, TemplateCleaners,
       Since, T!Swapped, T!Left, T!Chosen
  <2>7. CASE CopiesNot
    BY <1>0, <2>7, TemplateKept, DataKept, NothingAsked, SMTT(20) DEF CopiesNot,
       TemplateRoundShape, Working, TemplateJobShape, Plans, Clears, Publishes, TemplateCleaners,
       Since, T!Swapped, T!Left, T!Chosen
  <2> QED
    BY <1>1, <2>1, <2>2, <2>3, <2>4, <2>5, <2>6, <2>7, Zenon DEF Planned
<1>2. CASE Round
  <2>1. CASE ChooseNot
    BY <1>0, <2>1, TemplateKept, DataKept, NothingAsked, SMTT(20) DEF ChooseNot,
       TemplateRoundShape, Working, TemplateJobShape, Plans, Clears, Publishes, TemplateCleaners,
       Since, T!Swapped, T!Left, T!Chosen
  <2>2. CASE Reopens
    BY <1>0, <2>2, TemplateKept, DataKept, NothingAsked, SMTT(20) DEF Reopens, TemplateRoundShape,
       Working, TemplateJobShape, Plans, Clears, Publishes, TemplateCleaners, Since, T!Swapped,
       T!Left, T!Chosen
  <2>3. CASE TemplateGivesUp
    BY <1>0, <2>3, TemplateKept, DataKept, NothingAsked, SMTT(20) DEF TemplateGivesUp,
       TemplateRoundShape, Working, TemplateJobShape, Plans, Clears, Publishes, TemplateCleaners,
       Since, T!Swapped, T!Left, T!Chosen
  <2>4. CASE Completes
    BY <1>0, <2>4, TemplateKept, DataKept, NothingAsked, SMTT(20) DEF Completes,
       TemplateRoundShape, Working, TemplateJobShape, Plans, Clears, Publishes, TemplateCleaners,
       Since, T!Swapped, T!Left, T!Chosen
  <2>5. CASE Requires
    BY <1>0, <2>5, TemplateKept, DataKept, NothingAsked, SMTT(20) DEF Requires,
       TemplateRoundShape, Working, TemplateJobShape, Plans, Clears, Publishes, TemplateCleaners,
       Since, T!Swapped, T!Left, T!Chosen
  <2>6. CASE Writes
    BY <1>0, <2>6, TemplateKept, DataKept, NothingAsked, SMTT(20) DEF Writes, TemplateRoundShape,
       Working, TemplateJobShape, Plans, Clears, Publishes, TemplateCleaners, Since, T!Swapped,
       T!Left, T!Chosen
  <2> QED
    BY <1>2, <2>1, <2>2, <2>3, <2>4, <2>5, <2>6, Zenon DEF Round
<1>3. CASE Publication
  <2>1. CASE Prepares
    BY <1>0, <2>1, TemplateKept, DataKept, NothingAsked, SMTT(20) DEF Prepares,
       TemplateRoundShape, Working, TemplateJobShape, Plans, Clears, Publishes, TemplateCleaners,
       Since, T!Swapped, T!Left, T!Chosen
  <2>2. CASE PreparesNot
    BY <1>0, <2>2, TemplateKept, DataKept, NothingAsked, SMTT(20) DEF PreparesNot,
       TemplateRoundShape, Working, TemplateJobShape, Plans, Clears, Publishes, TemplateCleaners,
       Since, T!Swapped, T!Left, T!Chosen
  <2>3. CASE TemplateApplies
    BY <1>0, <2>3, TemplateKept, DataKept, NothingAsked, SMTT(20) DEF TemplateApplies,
       TemplateRoundShape, Working, TemplateJobShape, Plans, Clears, Publishes, TemplateCleaners,
       Since, T!Swapped, T!Left, T!Chosen
  <2>4. CASE AppliesNot
    BY <1>0, <2>4, TemplateKept, DataKept, NothingAsked, SMTT(20) DEF AppliesNot,
       TemplateRoundShape, Working, TemplateJobShape, Plans, Clears, Publishes, TemplateCleaners,
       Since, T!Swapped, T!Left, T!Chosen
  <2>5. CASE TemplateRenames
    BY <1>0, <2>5, TemplateKept, DataKept, NothingAsked, SMTT(20) DEF TemplateRenames,
       TemplateRoundShape, Working, TemplateJobShape, Plans, Clears, Publishes, TemplateCleaners,
       Since, T!Swapped, T!Left, T!Chosen
  <2>6. CASE TemplateRenamesNot
    BY <1>0, <2>6, TemplateKept, DataKept, NothingAsked, SMTT(20) DEF TemplateRenamesNot,
       TemplateRoundShape, Working, TemplateJobShape, Plans, Clears, Publishes, TemplateCleaners,
       Since, T!Swapped, T!Left, T!Chosen
  <2>7. CASE TemplateFinds
    BY <1>0, <2>7, TemplateKept, DataKept, NothingAsked, SMTT(20) DEF TemplateFinds,
       TemplateRoundShape, Working, TemplateJobShape, Plans, Clears, Publishes, TemplateCleaners,
       Since, T!Swapped, T!Left, T!Chosen
  <2>8. CASE FindsStaged
    BY <1>0, <2>8, TemplateKept, DataKept, NothingAsked, SMTT(20) DEF FindsStaged,
       TemplateRoundShape, Working, TemplateJobShape, Plans, Clears, Publishes, TemplateCleaners,
       Since, T!Swapped, T!Left, T!Chosen
  <2>9. CASE FindsNeither
    BY <1>0, <2>9, TemplateKept, DataKept, NothingAsked, SMTT(20) DEF FindsNeither,
       TemplateRoundShape, Working, TemplateJobShape, Plans, Clears, Publishes, TemplateCleaners,
       Since, T!Swapped, T!Left, T!Chosen
  <2>10. CASE TemplateVerifies
    BY <1>0, <2>10, TemplateKept, DataKept, NothingAsked, SMTT(20) DEF TemplateVerifies,
       TemplateRoundShape, Working, TemplateJobShape, Plans, Clears, Publishes, TemplateCleaners,
       Since, T!Swapped, T!Left, T!Chosen
  <2>11. CASE TemplateVerifiesNot
    BY <1>0, <2>11, TemplateKept, DataKept, NothingAsked, SMTT(20) DEF TemplateVerifiesNot,
       TemplateRoundShape, Working, TemplateJobShape, Plans, Clears, Publishes, TemplateCleaners,
       Since, T!Swapped, T!Left, T!Chosen
  <2> QED
    BY <1>3, <2>1, <2>2, <2>3, <2>4, <2>5, <2>6, <2>7, <2>8, <2>9, <2>10, <2>11,
       Zenon DEF Publication
<1>4. CASE Clearing
  <2>1. CASE Empties
    BY <1>0, <2>1, TemplateKept, DataKept, NothingAsked, SMTT(20) DEF Empties, TemplateRoundShape,
       Working, TemplateJobShape, Plans, Clears, Publishes, TemplateCleaners, Since, T!Swapped,
       T!Left, T!Chosen
  <2>2. CASE EmptiesNot
    BY <1>0, <2>2, TemplateKept, DataKept, NothingAsked, SMTT(20) DEF EmptiesNot,
       TemplateRoundShape, Working, TemplateJobShape, Plans, Clears, Publishes, TemplateCleaners,
       Since, T!Swapped, T!Left, T!Chosen
  <2>3. CASE FindsEmpty
    BY <1>0, <2>3, TemplateKept, DataKept, NothingAsked, SMTT(20) DEF FindsEmpty,
       TemplateRoundShape, Working, TemplateJobShape, Plans, Clears, Publishes, TemplateCleaners,
       Since, T!Swapped, T!Left, T!Chosen
  <2>4. CASE Removes
    BY <1>0, <2>4, TemplateKept, DataKept, NothingAsked, SMTT(20) DEF Removes, TemplateRoundShape,
       Working, TemplateJobShape, Plans, Clears, Publishes, TemplateCleaners, Since, T!Swapped,
       T!Left, T!Chosen
  <2>5. CASE ClearStuck
    BY <1>0, <2>5, TemplateKept, DataKept, NothingAsked, SMTT(20) DEF ClearStuck,
       TemplateRoundShape, Working, TemplateJobShape, Plans, Clears, Publishes, TemplateCleaners,
       Since, T!Swapped, T!Left, T!Chosen
  <2>6. CASE Syncs
    BY <1>0, <2>6, TemplateKept, DataKept, NothingAsked, SMTT(20) DEF Syncs, TemplateRoundShape,
       Working, TemplateJobShape, Plans, Clears, Publishes, TemplateCleaners, Since, T!Swapped,
       T!Left, T!Chosen
  <2>7. CASE TemplateReleases
    BY <1>0, <2>7, TemplateKept, DataKept, NothingAsked, SMTT(20) DEF TemplateReleases,
       TemplateRoundShape, Working, TemplateJobShape, Plans, Clears, Publishes, TemplateCleaners,
       Since, T!Swapped, T!Left, T!Chosen
  <2> QED
    BY <1>4, <2>1, <2>2, <2>3, <2>4, <2>5, <2>6, <2>7, Zenon DEF Clearing
<1>5. CASE Ends
  <2>1. CASE AsksAgain
    BY <1>0, <2>1, TemplateKept, DataKept, NothingAsked, SMTT(20) DEF AsksAgain,
       TemplateRoundShape, Working, TemplateJobShape, Plans, Clears, Publishes, TemplateCleaners,
       Since, T!Swapped, T!Left, T!Chosen
  <2>2. CASE Raises
    BY <1>0, <2>2, TemplateKept, DataKept, NothingAsked, SMTT(20) DEF Raises, TemplateRoundShape,
       Working, TemplateJobShape, Plans, Clears, Publishes, TemplateCleaners, Since, T!Swapped,
       T!Left, T!Chosen
  <2>3. CASE Refuses
    BY <1>0, <2>3, TemplateKept, DataKept, NothingAsked, SMTT(20) DEF Refuses, TemplateRoundShape,
       Working, TemplateJobShape, Plans, Clears, Publishes, TemplateCleaners, Since, T!Swapped,
       T!Left, T!Chosen
  <2>4. CASE Retries
    BY <1>0, <2>4, TemplateKept, DataKept, NothingAsked, SMTT(20) DEF Retries, TemplateRoundShape,
       Working, TemplateJobShape, Plans, Clears, Publishes, TemplateCleaners, Since, T!Swapped,
       T!Left, T!Chosen
  <2>5. CASE Discarded
    BY <1>0, <2>5, TemplateKept, DataKept, NothingAsked, SMTT(20) DEF Discarded,
       TemplateRoundShape, Working, TemplateJobShape, Plans, Clears, Publishes, TemplateCleaners,
       Since, T!Swapped, T!Left, T!Chosen
  <2>6. CASE Discards
    BY <1>0, <2>6, TemplateKept, DataKept, NothingAsked, SMTT(20) DEF Discards,
       TemplateRoundShape, Working, TemplateJobShape, Plans, Clears, Publishes, TemplateCleaners,
       Since, T!Swapped, T!Left, T!Chosen
  <2>7. CASE CleansNot
    BY <1>0, <2>7, TemplateKept, DataKept, NothingAsked, SMTT(20) DEF CleansNot,
       TemplateRoundShape, Working, TemplateJobShape, Plans, Clears, Publishes, TemplateCleaners,
       Since, T!Swapped, T!Left, T!Chosen
  <2>8. CASE Pends
    BY <1>0, <2>8, TemplateKept, DataKept, NothingAsked, SMTT(20) DEF Pends, TemplateRoundShape,
       Working, TemplateJobShape, Plans, Clears, Publishes, TemplateCleaners, Since, T!Swapped,
       T!Left, T!Chosen
  <2>9. CASE Stores
    BY <1>0, <2>9, TemplateKept, DataKept, NothingAsked, SMTT(20) DEF Stores, TemplateRoundShape,
       Working, TemplateJobShape, Plans, Clears, Publishes, TemplateCleaners, Since, T!Swapped,
       T!Left, T!Chosen
  <2>10. CASE Tells
    BY <1>0, <2>10, TemplateKept, DataKept, NothingAsked, SMTT(20) DEF Tells, TemplateRoundShape,
       Working, TemplateJobShape, Plans, Clears, Publishes, TemplateCleaners, Since, T!Swapped,
       T!Left, T!Chosen
  <2>11. CASE Dies
    BY <1>0, <2>11, TemplateKept, DataKept, NothingAsked, SMTT(20) DEF Dies, TemplateRoundShape,
       Working, TemplateJobShape, Plans, Clears, Publishes, TemplateCleaners, Since, T!Swapped,
       T!Left, T!Chosen
  <2> QED
    BY <1>5, <2>1, <2>2, <2>3, <2>4, <2>5, <2>6, <2>7, <2>8, <2>9, <2>10, <2>11, Zenon DEF Ends
<1>6. CASE Asked
  <2>1. CASE AskedToClean
    BY <1>0, <2>1, TemplateKept, DataKept, NothingAsked, SMTT(20) DEF AskedToClean,
       TemplateRoundShape, Working, TemplateJobShape, Plans, Clears, Publishes, TemplateCleaners,
       Since, T!Swapped, T!Left, T!Chosen
  <2>2. CASE AskedAgain
    BY <1>0, <2>2, TemplateKept, DataKept, NothingAsked, SMTT(20) DEF AskedAgain,
       TemplateRoundShape, Working, TemplateJobShape, Plans, Clears, Publishes, TemplateCleaners,
       Since, T!Swapped, T!Left, T!Chosen
  <2>3. CASE Finishes
    BY <1>0, <2>3, TemplateKept, DataKept, NothingAsked, SMTT(20) DEF Finishes,
       TemplateRoundShape, Working, TemplateJobShape, Plans, Clears, Publishes, TemplateCleaners,
       Since, T!Swapped, T!Left, T!Chosen
  <2>4. CASE ShowsPreview
    BY <1>0, <2>4, TemplateKept, DataKept, NothingAsked, SMTT(20) DEF ShowsPreview,
       TemplateRoundShape, Working, TemplateJobShape, Plans, Clears, Publishes, TemplateCleaners,
       Since, T!Swapped, T!Left, T!Chosen
  <2>5. CASE SendsChoices
    BY <1>0, <2>5, TemplateKept, DataKept, NothingAsked, SMTT(20) DEF SendsChoices,
       TemplateRoundShape, Working, TemplateJobShape, Plans, Clears, Publishes, TemplateCleaners,
       Since, T!Swapped, T!Left, T!Chosen
  <2>6. CASE OpensDialog
    BY <1>0, <2>6, TemplateKept, DataKept, NothingAsked, SMTT(20) DEF OpensDialog,
       TemplateRoundShape, Working, TemplateJobShape, Plans, Clears, Publishes, TemplateCleaners,
       Since, T!Swapped, T!Left, T!Chosen
  <2>7. CASE Confirms
    BY <1>0, <2>7, TemplateKept, DataKept, NothingAsked, SMTT(20) DEF Confirms,
       TemplateRoundShape, Working, TemplateJobShape, Plans, Clears, Publishes, TemplateCleaners,
       Since, T!Swapped, T!Left, T!Chosen
  <2>8. CASE Declines
    BY <1>0, <2>8, TemplateKept, DataKept, NothingAsked, SMTT(20) DEF Declines,
       TemplateRoundShape, Working, TemplateJobShape, Plans, Clears, Publishes, TemplateCleaners,
       Since, T!Swapped, T!Left, T!Chosen
  <2> QED
    BY <1>6, <2>1, <2>2, <2>3, <2>4, <2>5, <2>6, <2>7, <2>8, Zenon DEF Asked
<1>7. CASE Departing
  <2>1. CASE Unmounts
    BY <1>0, <2>1, TemplateKept, DataKept, NothingAsked, SMTT(20) DEF Unmounts,
       TemplateRoundShape, Working, TemplateJobShape, Plans, Clears, Publishes, TemplateCleaners,
       Since, T!Swapped, T!Left, T!Chosen
  <2>2. CASE GoesOn
    BY <1>0, <2>2, TemplateKept, DataKept, NothingAsked, SMTT(20) DEF GoesOn, TemplateRoundShape,
       Working, TemplateJobShape, Plans, Clears, Publishes, TemplateCleaners, Since, T!Swapped,
       T!Left, T!Chosen
  <2>3. CASE CleansLast
    BY <1>0, <2>3, TemplateKept, DataKept, NothingAsked, SMTT(20) DEF CleansLast,
       TemplateRoundShape, Working, TemplateJobShape, Plans, Clears, Publishes, TemplateCleaners,
       Since, T!Swapped, T!Left, T!Chosen
  <2>4. CASE LetsGoLast
    BY <1>0, <2>4, TemplateKept, DataKept, NothingAsked, SMTT(20) DEF LetsGoLast,
       TemplateRoundShape, Working, TemplateJobShape, Plans, Clears, Publishes, TemplateCleaners,
       Since, T!Swapped, T!Left, T!Chosen
  <2>5. CASE Intrudes
    BY <1>0, <2>5, TemplateKept, DataKept, NothingAsked, SMTT(20) DEF Intrudes,
       TemplateRoundShape, Working, TemplateJobShape, Plans, Clears, Publishes, TemplateCleaners,
       Since, T!Swapped, T!Left, T!Chosen
  <2> QED
    BY <1>7, <2>1, <2>2, <2>3, <2>4, <2>5, Zenon DEF Departing
<1> QED
  BY <1>1, <1>2, <1>3, <1>4, <1>5, <1>6, <1>7, Zenon DEF Effect

LEMMA ShownShapeKept ==
  ASSUME Types, ShownShape, TemplateJobShape, TemplatePlanShape, TemplateRoundShape, KeptTypes, Effect
  PROVE  ShownShape'
<1> USE DEF Moves, Ctl, SameCtl, Laid, SameStaged, SameTarget, Quietly, Stuck, Swept, SweptWith,
       SamePlace, SameOwner, CleaningUp, Begins, Shows, Letsgo, Quits, SameData
<1>0. UNCHANGED template /\ plan \in Plan /\ thr \in Step /\ Plan' = Plan
  BY Kinds, Zenon DEF KeptTypes, Types, DiskTypes, PlanTypes, TemplateStepTypes, OwnerTypes,
     ScreenTypes, TemplateBoundTypes
<1>1. CASE Planned
  <2>1. CASE Locks
    BY <1>0, <2>1, TemplateKept, FreshResults, SMTT(20) DEF Locks, ShownShape, TemplateRoundShape,
       Working, TemplateJobShape, TemplatePlanShape, Plans, Clears, Publishes, TemplateCleaners,
       TemplateAsking, T!Verified
  <2>2. CASE LocksNot
    BY <1>0, <2>2, TemplateKept, FreshResults, SMTT(20) DEF LocksNot, ShownShape,
       TemplateRoundShape, Working, TemplateJobShape, TemplatePlanShape, Plans, Clears, Publishes,
       TemplateCleaners, TemplateAsking, T!Verified
  <2>3. CASE LocksStay
    BY <1>0, <2>3, TemplateKept, FreshResults, SMTT(20) DEF LocksStay, ShownShape,
       TemplateRoundShape, Working, TemplateJobShape, TemplatePlanShape, Plans, Clears, Publishes,
       TemplateCleaners, TemplateAsking, T!Verified
  <2>4. CASE Makes
    BY <1>0, <2>4, TemplateKept, FreshResults, SMTT(20) DEF Makes, ShownShape, TemplateRoundShape,
       Working, TemplateJobShape, TemplatePlanShape, Plans, Clears, Publishes, TemplateCleaners,
       TemplateAsking, T!Verified
  <2>5. CASE MakesNot
    BY <1>0, <2>5, TemplateKept, FreshResults, SMTT(20) DEF MakesNot, ShownShape,
       TemplateRoundShape, Working, TemplateJobShape, TemplatePlanShape, Plans, Clears, Publishes,
       TemplateCleaners, TemplateAsking, T!Verified
  <2>6. CASE CopiesSource
    BY <1>0, <2>6, TemplateKept, FreshResults, SMTT(20) DEF CopiesSource, ShownShape,
       TemplateRoundShape, Working, TemplateJobShape, TemplatePlanShape, Plans, Clears, Publishes,
       TemplateCleaners, TemplateAsking, T!Verified
  <2>7. CASE CopiesNot
    BY <1>0, <2>7, TemplateKept, FreshResults, SMTT(20) DEF CopiesNot, ShownShape,
       TemplateRoundShape, Working, TemplateJobShape, TemplatePlanShape, Plans, Clears, Publishes,
       TemplateCleaners, TemplateAsking, T!Verified
  <2> QED
    BY <1>1, <2>1, <2>2, <2>3, <2>4, <2>5, <2>6, <2>7, Zenon DEF Planned
<1>2. CASE Round
  <2>1. CASE ChooseNot
    BY <1>0, <2>1, TemplateKept, FreshResults, SMTT(20) DEF ChooseNot, ShownShape,
       TemplateRoundShape, Working, TemplateJobShape, TemplatePlanShape, Plans, Clears, Publishes,
       TemplateCleaners, TemplateAsking, T!Verified
  <2>2. CASE Reopens
    BY <1>0, <2>2, TemplateKept, FreshResults, SMTT(20) DEF Reopens, ShownShape,
       TemplateRoundShape, Working, TemplateJobShape, TemplatePlanShape, Plans, Clears, Publishes,
       TemplateCleaners, TemplateAsking, T!Verified
  <2>3. CASE TemplateGivesUp
    BY <1>0, <2>3, TemplateKept, FreshResults, SMTT(20) DEF TemplateGivesUp, ShownShape,
       TemplateRoundShape, Working, TemplateJobShape, TemplatePlanShape, Plans, Clears, Publishes,
       TemplateCleaners, TemplateAsking, T!Verified
  <2>4. CASE Completes
    BY <1>0, <2>4, TemplateKept, FreshResults, SMTT(20) DEF Completes, ShownShape,
       TemplateRoundShape, Working, TemplateJobShape, TemplatePlanShape, Plans, Clears, Publishes,
       TemplateCleaners, TemplateAsking, T!Verified
  <2>5. CASE Requires
    BY <1>0, <2>5, TemplateKept, FreshResults, SMTT(20) DEF Requires, ShownShape,
       TemplateRoundShape, Working, TemplateJobShape, TemplatePlanShape, Plans, Clears, Publishes,
       TemplateCleaners, TemplateAsking, T!Verified
  <2>6. CASE Writes
    BY <1>0, <2>6, TemplateKept, FreshResults, SMTT(20) DEF Writes, ShownShape,
       TemplateRoundShape, Working, TemplateJobShape, TemplatePlanShape, Plans, Clears, Publishes,
       TemplateCleaners, TemplateAsking, T!Verified
  <2> QED
    BY <1>2, <2>1, <2>2, <2>3, <2>4, <2>5, <2>6, Zenon DEF Round
<1>3. CASE Publication
  <2>1. CASE Prepares
    BY <1>0, <2>1, TemplateKept, FreshResults, SMTT(20) DEF Prepares, ShownShape,
       TemplateRoundShape, Working, TemplateJobShape, TemplatePlanShape, Plans, Clears, Publishes,
       TemplateCleaners, TemplateAsking, T!Verified
  <2>2. CASE PreparesNot
    BY <1>0, <2>2, TemplateKept, FreshResults, SMTT(20) DEF PreparesNot, ShownShape,
       TemplateRoundShape, Working, TemplateJobShape, TemplatePlanShape, Plans, Clears, Publishes,
       TemplateCleaners, TemplateAsking, T!Verified
  <2>3. CASE TemplateApplies
    BY <1>0, <2>3, TemplateKept, FreshResults, SMTT(20) DEF TemplateApplies, ShownShape,
       TemplateRoundShape, Working, TemplateJobShape, TemplatePlanShape, Plans, Clears, Publishes,
       TemplateCleaners, TemplateAsking, T!Verified
  <2>4. CASE AppliesNot
    BY <1>0, <2>4, TemplateKept, FreshResults, SMTT(20) DEF AppliesNot, ShownShape,
       TemplateRoundShape, Working, TemplateJobShape, TemplatePlanShape, Plans, Clears, Publishes,
       TemplateCleaners, TemplateAsking, T!Verified
  <2>5. CASE TemplateRenames
    BY <1>0, <2>5, TemplateKept, FreshResults, SMTT(20) DEF TemplateRenames, ShownShape,
       TemplateRoundShape, Working, TemplateJobShape, TemplatePlanShape, Plans, Clears, Publishes,
       TemplateCleaners, TemplateAsking, T!Verified
  <2>6. CASE TemplateRenamesNot
    BY <1>0, <2>6, TemplateKept, FreshResults, SMTT(20) DEF TemplateRenamesNot, ShownShape,
       TemplateRoundShape, Working, TemplateJobShape, TemplatePlanShape, Plans, Clears, Publishes,
       TemplateCleaners, TemplateAsking, T!Verified
  <2>7. CASE TemplateFinds
    BY <1>0, <2>7, TemplateKept, FreshResults, SMTT(20) DEF TemplateFinds, ShownShape,
       TemplateRoundShape, Working, TemplateJobShape, TemplatePlanShape, Plans, Clears, Publishes,
       TemplateCleaners, TemplateAsking, T!Verified
  <2>8. CASE FindsStaged
    BY <1>0, <2>8, TemplateKept, FreshResults, SMTT(20) DEF FindsStaged, ShownShape,
       TemplateRoundShape, Working, TemplateJobShape, TemplatePlanShape, Plans, Clears, Publishes,
       TemplateCleaners, TemplateAsking, T!Verified
  <2>9. CASE FindsNeither
    BY <1>0, <2>9, TemplateKept, FreshResults, SMTT(20) DEF FindsNeither, ShownShape,
       TemplateRoundShape, Working, TemplateJobShape, TemplatePlanShape, Plans, Clears, Publishes,
       TemplateCleaners, TemplateAsking, T!Verified
  <2>10. CASE TemplateVerifies
    BY <1>0, <2>10, TemplateKept, FreshResults, SMTT(20) DEF TemplateVerifies, ShownShape,
       TemplateRoundShape, Working, TemplateJobShape, TemplatePlanShape, Plans, Clears, Publishes,
       TemplateCleaners, TemplateAsking, T!Verified
  <2>11. CASE TemplateVerifiesNot
    BY <1>0, <2>11, TemplateKept, FreshResults, SMTT(20) DEF TemplateVerifiesNot, ShownShape,
       TemplateRoundShape, Working, TemplateJobShape, TemplatePlanShape, Plans, Clears, Publishes,
       TemplateCleaners, TemplateAsking, T!Verified
  <2> QED
    BY <1>3, <2>1, <2>2, <2>3, <2>4, <2>5, <2>6, <2>7, <2>8, <2>9, <2>10, <2>11,
       Zenon DEF Publication
<1>4. CASE Clearing
  <2>1. CASE Empties
    BY <1>0, <2>1, TemplateKept, FreshResults, SMTT(20) DEF Empties, ShownShape,
       TemplateRoundShape, Working, TemplateJobShape, TemplatePlanShape, Plans, Clears, Publishes,
       TemplateCleaners, TemplateAsking, T!Verified
  <2>2. CASE EmptiesNot
    BY <1>0, <2>2, TemplateKept, FreshResults, SMTT(20) DEF EmptiesNot, ShownShape,
       TemplateRoundShape, Working, TemplateJobShape, TemplatePlanShape, Plans, Clears, Publishes,
       TemplateCleaners, TemplateAsking, T!Verified
  <2>3. CASE FindsEmpty
    BY <1>0, <2>3, TemplateKept, FreshResults, SMTT(20) DEF FindsEmpty, ShownShape,
       TemplateRoundShape, Working, TemplateJobShape, TemplatePlanShape, Plans, Clears, Publishes,
       TemplateCleaners, TemplateAsking, T!Verified
  <2>4. CASE Removes
    BY <1>0, <2>4, TemplateKept, FreshResults, SMTT(20) DEF Removes, ShownShape,
       TemplateRoundShape, Working, TemplateJobShape, TemplatePlanShape, Plans, Clears, Publishes,
       TemplateCleaners, TemplateAsking, T!Verified
  <2>5. CASE ClearStuck
    BY <1>0, <2>5, TemplateKept, FreshResults, SMTT(20) DEF ClearStuck, ShownShape,
       TemplateRoundShape, Working, TemplateJobShape, TemplatePlanShape, Plans, Clears, Publishes,
       TemplateCleaners, TemplateAsking, T!Verified
  <2>6. CASE Syncs
    BY <1>0, <2>6, TemplateKept, FreshResults, SMTT(20) DEF Syncs, ShownShape, TemplateRoundShape,
       Working, TemplateJobShape, TemplatePlanShape, Plans, Clears, Publishes, TemplateCleaners,
       TemplateAsking, T!Verified
  <2>7. CASE TemplateReleases
    BY <1>0, <2>7, TemplateKept, FreshResults, SMTT(20) DEF TemplateReleases, ShownShape,
       TemplateRoundShape, Working, TemplateJobShape, TemplatePlanShape, Plans, Clears, Publishes,
       TemplateCleaners, TemplateAsking, T!Verified
  <2> QED
    BY <1>4, <2>1, <2>2, <2>3, <2>4, <2>5, <2>6, <2>7, Zenon DEF Clearing
<1>5. CASE Ends
  <2>1. CASE AsksAgain
    BY <1>0, <2>1, TemplateKept, FreshResults, SMTT(20) DEF AsksAgain, ShownShape,
       TemplateRoundShape, Working, TemplateJobShape, TemplatePlanShape, Plans, Clears, Publishes,
       TemplateCleaners, TemplateAsking, T!Verified
  <2>2. CASE Raises
    BY <1>0, <2>2, TemplateKept, FreshResults, SMTT(20) DEF Raises, ShownShape,
       TemplateRoundShape, Working, TemplateJobShape, TemplatePlanShape, Plans, Clears, Publishes,
       TemplateCleaners, TemplateAsking, T!Verified
  <2>3. CASE Refuses
    BY <1>0, <2>3, TemplateKept, FreshResults, SMTT(20) DEF Refuses, ShownShape,
       TemplateRoundShape, Working, TemplateJobShape, TemplatePlanShape, Plans, Clears, Publishes,
       TemplateCleaners, TemplateAsking, T!Verified
  <2>4. CASE Retries
    BY <1>0, <2>4, TemplateKept, FreshResults, SMTT(20) DEF Retries, ShownShape,
       TemplateRoundShape, Working, TemplateJobShape, TemplatePlanShape, Plans, Clears, Publishes,
       TemplateCleaners, TemplateAsking, T!Verified
  <2>5. CASE Discarded
    BY <1>0, <2>5, TemplateKept, FreshResults, SMTT(20) DEF Discarded, ShownShape,
       TemplateRoundShape, Working, TemplateJobShape, TemplatePlanShape, Plans, Clears, Publishes,
       TemplateCleaners, TemplateAsking, T!Verified
  <2>6. CASE Discards
    BY <1>0, <2>6, TemplateKept, FreshResults, SMTT(20) DEF Discards, ShownShape,
       TemplateRoundShape, Working, TemplateJobShape, TemplatePlanShape, Plans, Clears, Publishes,
       TemplateCleaners, TemplateAsking, T!Verified
  <2>7. CASE CleansNot
    BY <1>0, <2>7, TemplateKept, FreshResults, SMTT(20) DEF CleansNot, ShownShape,
       TemplateRoundShape, Working, TemplateJobShape, TemplatePlanShape, Plans, Clears, Publishes,
       TemplateCleaners, TemplateAsking, T!Verified
  <2>8. CASE Pends
    BY <1>0, <2>8, TemplateKept, FreshResults, SMTT(20) DEF Pends, ShownShape, TemplateRoundShape,
       Working, TemplateJobShape, TemplatePlanShape, Plans, Clears, Publishes, TemplateCleaners,
       TemplateAsking, T!Verified
  <2>9. CASE Stores
    BY <1>0, <2>9, TemplateKept, FreshResults, SMTT(20) DEF Stores, ShownShape,
       TemplateRoundShape, Working, TemplateJobShape, TemplatePlanShape, Plans, Clears, Publishes,
       TemplateCleaners, TemplateAsking, T!Verified
  <2>10. CASE Tells
    BY <1>0, <2>10, TemplateKept, FreshResults, SMTT(20) DEF Tells, ShownShape,
       TemplateRoundShape, Working, TemplateJobShape, TemplatePlanShape, Plans, Clears, Publishes,
       TemplateCleaners, TemplateAsking, T!Verified
  <2>11. CASE Dies
    BY <1>0, <2>11, TemplateKept, FreshResults, SMTT(20) DEF Dies, ShownShape, TemplateRoundShape,
       Working, TemplateJobShape, TemplatePlanShape, Plans, Clears, Publishes, TemplateCleaners,
       TemplateAsking, T!Verified
  <2> QED
    BY <1>5, <2>1, <2>2, <2>3, <2>4, <2>5, <2>6, <2>7, <2>8, <2>9, <2>10, <2>11, Zenon DEF Ends
<1>6. CASE Asked
  <2>1. CASE AskedToClean
    BY <1>0, <2>1, TemplateKept, FreshResults, SMTT(20) DEF AskedToClean, ShownShape,
       TemplateRoundShape, Working, TemplateJobShape, TemplatePlanShape, Plans, Clears, Publishes,
       TemplateCleaners, TemplateAsking, T!Verified
  <2>2. CASE AskedAgain
    BY <1>0, <2>2, TemplateKept, FreshResults, SMTT(20) DEF AskedAgain, ShownShape,
       TemplateRoundShape, Working, TemplateJobShape, TemplatePlanShape, Plans, Clears, Publishes,
       TemplateCleaners, TemplateAsking, T!Verified
  <2>3. CASE Finishes
    BY <1>0, <2>3, TemplateKept, FreshResults, SMTT(20) DEF Finishes, ShownShape,
       TemplateRoundShape, Working, TemplateJobShape, TemplatePlanShape, Plans, Clears, Publishes,
       TemplateCleaners, TemplateAsking, T!Verified
  <2>4. CASE ShowsPreview
    BY <1>0, <2>4, TemplateKept, FreshResults, SMTT(20) DEF ShowsPreview, ShownShape,
       TemplateRoundShape, Working, TemplateJobShape, TemplatePlanShape, Plans, Clears, Publishes,
       TemplateCleaners, TemplateAsking, T!Verified
  <2>5. CASE SendsChoices
    BY <1>0, <2>5, TemplateKept, FreshResults, SMTT(20) DEF SendsChoices, ShownShape,
       TemplateRoundShape, Working, TemplateJobShape, TemplatePlanShape, Plans, Clears, Publishes,
       TemplateCleaners, TemplateAsking, T!Verified
  <2>6. CASE OpensDialog
    BY <1>0, <2>6, TemplateKept, FreshResults, SMTT(20) DEF OpensDialog, ShownShape,
       TemplateRoundShape, Working, TemplateJobShape, TemplatePlanShape, Plans, Clears, Publishes,
       TemplateCleaners, TemplateAsking, T!Verified
  <2>7. CASE Confirms
    BY <1>0, <2>7, TemplateKept, FreshResults, SMTT(20) DEF Confirms, ShownShape,
       TemplateRoundShape, Working, TemplateJobShape, TemplatePlanShape, Plans, Clears, Publishes,
       TemplateCleaners, TemplateAsking, T!Verified
  <2>8. CASE Declines
    BY <1>0, <2>8, TemplateKept, FreshResults, SMTT(20) DEF Declines, ShownShape,
       TemplateRoundShape, Working, TemplateJobShape, TemplatePlanShape, Plans, Clears, Publishes,
       TemplateCleaners, TemplateAsking, T!Verified
  <2> QED
    BY <1>6, <2>1, <2>2, <2>3, <2>4, <2>5, <2>6, <2>7, <2>8, Zenon DEF Asked
<1>7. CASE Departing
  <2>1. CASE Unmounts
    BY <1>0, <2>1, TemplateKept, FreshResults, SMTT(20) DEF Unmounts, ShownShape,
       TemplateRoundShape, Working, TemplateJobShape, TemplatePlanShape, Plans, Clears, Publishes,
       TemplateCleaners, TemplateAsking, T!Verified
  <2>2. CASE GoesOn
    BY <1>0, <2>2, TemplateKept, FreshResults, SMTT(20) DEF GoesOn, ShownShape,
       TemplateRoundShape, Working, TemplateJobShape, TemplatePlanShape, Plans, Clears, Publishes,
       TemplateCleaners, TemplateAsking, T!Verified
  <2>3. CASE CleansLast
    BY <1>0, <2>3, TemplateKept, FreshResults, SMTT(20) DEF CleansLast, ShownShape,
       TemplateRoundShape, Working, TemplateJobShape, TemplatePlanShape, Plans, Clears, Publishes,
       TemplateCleaners, TemplateAsking, T!Verified
  <2>4. CASE LetsGoLast
    BY <1>0, <2>4, TemplateKept, FreshResults, SMTT(20) DEF LetsGoLast, ShownShape,
       TemplateRoundShape, Working, TemplateJobShape, TemplatePlanShape, Plans, Clears, Publishes,
       TemplateCleaners, TemplateAsking, T!Verified
  <2>5. CASE Intrudes
    BY <1>0, <2>5, TemplateKept, FreshResults, SMTT(20) DEF Intrudes, ShownShape,
       TemplateRoundShape, Working, TemplateJobShape, TemplatePlanShape, Plans, Clears, Publishes,
       TemplateCleaners, TemplateAsking, T!Verified
  <2> QED
    BY <1>7, <2>1, <2>2, <2>3, <2>4, <2>5, Zenon DEF Departing
<1> QED
  BY <1>1, <1>2, <1>3, <1>4, <1>5, <1>6, <1>7, Zenon DEF Effect

TemplateCopies == Copies(disk.target, disk.staging = "moved", plan.locks,
                           disk'.target, disk'.staging = "moved", plan'.locks)

LEMMA TemplateCopiesStep ==
  ASSUME Types, TemplateJobShape, TemplatePlanShape, KeptTypes, Effect
  PROVE  TemplateCopies
<1> USE DEF Moves, Ctl, SameCtl, Laid, SameStaged, SameTarget, Quietly, Stuck, Swept, SweptWith,
       SamePlace, SameOwner, CleaningUp, Begins, Shows, Letsgo, Quits, Copies, TemplateCopies
<1>0. plan.locks \in BOOLEAN /\ plan'.locks \in BOOLEAN
  BY Zenon DEF KeptTypes, Types, DiskTypes, PlanTypes, TemplateStepTypes, OwnerTypes, ScreenTypes,
     TemplateBoundTypes, Plan
<1>1. CASE Planned
  <2>1. CASE Locks
    BY <1>0, <2>1, SMTT(20) DEF Locks, TemplateJobShape, TemplatePlanShape, Plans, Clears,
       Publishes, TemplateCleaners, TemplateAsking
  <2>2. CASE LocksNot
    BY <1>0, <2>2, SMTT(20) DEF LocksNot, TemplateJobShape, TemplatePlanShape, Plans, Clears,
       Publishes, TemplateCleaners, TemplateAsking
  <2>3. CASE LocksStay
    BY <1>0, <2>3, SMTT(20) DEF LocksStay, TemplateJobShape, TemplatePlanShape, Plans, Clears,
       Publishes, TemplateCleaners, TemplateAsking
  <2>4. CASE Makes
    BY <1>0, <2>4, SMTT(20) DEF Makes, TemplateJobShape, TemplatePlanShape, Plans, Clears,
       Publishes, TemplateCleaners, TemplateAsking
  <2>5. CASE MakesNot
    BY <1>0, <2>5, SMTT(20) DEF MakesNot, TemplateJobShape, TemplatePlanShape, Plans, Clears,
       Publishes, TemplateCleaners, TemplateAsking
  <2>6. CASE CopiesSource
    BY <1>0, <2>6, SMTT(20) DEF CopiesSource, TemplateJobShape, TemplatePlanShape, Plans, Clears,
       Publishes, TemplateCleaners, TemplateAsking
  <2>7. CASE CopiesNot
    BY <1>0, <2>7, SMTT(20) DEF CopiesNot, TemplateJobShape, TemplatePlanShape, Plans, Clears,
       Publishes, TemplateCleaners, TemplateAsking
  <2> QED
    BY <1>1, <2>1, <2>2, <2>3, <2>4, <2>5, <2>6, <2>7, Zenon DEF Planned
<1>2. CASE Round
  <2>1. CASE ChooseNot
    BY <1>0, <2>1, SMTT(20) DEF ChooseNot, TemplateJobShape, TemplatePlanShape, Plans, Clears,
       Publishes, TemplateCleaners, TemplateAsking
  <2>2. CASE Reopens
    BY <1>0, <2>2, SMTT(20) DEF Reopens, TemplateJobShape, TemplatePlanShape, Plans, Clears,
       Publishes, TemplateCleaners, TemplateAsking
  <2>3. CASE TemplateGivesUp
    BY <1>0, <2>3, SMTT(20) DEF TemplateGivesUp, TemplateJobShape, TemplatePlanShape, Plans,
       Clears, Publishes, TemplateCleaners, TemplateAsking
  <2>4. CASE Completes
    BY <1>0, <2>4, SMTT(20) DEF Completes, TemplateJobShape, TemplatePlanShape, Plans, Clears,
       Publishes, TemplateCleaners, TemplateAsking
  <2>5. CASE Requires
    BY <1>0, <2>5, SMTT(20) DEF Requires, TemplateJobShape, TemplatePlanShape, Plans, Clears,
       Publishes, TemplateCleaners, TemplateAsking
  <2>6. CASE Writes
    BY <1>0, <2>6, SMTT(20) DEF Writes, TemplateJobShape, TemplatePlanShape, Plans, Clears,
       Publishes, TemplateCleaners, TemplateAsking
  <2> QED
    BY <1>2, <2>1, <2>2, <2>3, <2>4, <2>5, <2>6, Zenon DEF Round
<1>3. CASE Publication
  <2>1. CASE Prepares
    BY <1>0, <2>1, SMTT(20) DEF Prepares, TemplateJobShape, TemplatePlanShape, Plans, Clears,
       Publishes, TemplateCleaners, TemplateAsking
  <2>2. CASE PreparesNot
    BY <1>0, <2>2, SMTT(20) DEF PreparesNot, TemplateJobShape, TemplatePlanShape, Plans, Clears,
       Publishes, TemplateCleaners, TemplateAsking
  <2>3. CASE TemplateApplies
    BY <1>0, <2>3, SMTT(20) DEF TemplateApplies, TemplateJobShape, TemplatePlanShape, Plans,
       Clears, Publishes, TemplateCleaners, TemplateAsking
  <2>4. CASE AppliesNot
    BY <1>0, <2>4, SMTT(20) DEF AppliesNot, TemplateJobShape, TemplatePlanShape, Plans, Clears,
       Publishes, TemplateCleaners, TemplateAsking
  <2>5. CASE TemplateRenames
    BY <1>0, <2>5, SMTT(20) DEF TemplateRenames, TemplateJobShape, TemplatePlanShape, Plans,
       Clears, Publishes, TemplateCleaners, TemplateAsking
  <2>6. CASE TemplateRenamesNot
    BY <1>0, <2>6, SMTT(20) DEF TemplateRenamesNot, TemplateJobShape, TemplatePlanShape, Plans,
       Clears, Publishes, TemplateCleaners, TemplateAsking
  <2>7. CASE TemplateFinds
    BY <1>0, <2>7, SMTT(20) DEF TemplateFinds, TemplateJobShape, TemplatePlanShape, Plans, Clears,
       Publishes, TemplateCleaners, TemplateAsking
  <2>8. CASE FindsStaged
    BY <1>0, <2>8, SMTT(20) DEF FindsStaged, TemplateJobShape, TemplatePlanShape, Plans, Clears,
       Publishes, TemplateCleaners, TemplateAsking
  <2>9. CASE FindsNeither
    BY <1>0, <2>9, SMTT(20) DEF FindsNeither, TemplateJobShape, TemplatePlanShape, Plans, Clears,
       Publishes, TemplateCleaners, TemplateAsking
  <2>10. CASE TemplateVerifies
    BY <1>0, <2>10, SMTT(20) DEF TemplateVerifies, TemplateJobShape, TemplatePlanShape, Plans,
       Clears, Publishes, TemplateCleaners, TemplateAsking
  <2>11. CASE TemplateVerifiesNot
    BY <1>0, <2>11, SMTT(20) DEF TemplateVerifiesNot, TemplateJobShape, TemplatePlanShape, Plans,
       Clears, Publishes, TemplateCleaners, TemplateAsking
  <2> QED
    BY <1>3, <2>1, <2>2, <2>3, <2>4, <2>5, <2>6, <2>7, <2>8, <2>9, <2>10, <2>11,
       Zenon DEF Publication
<1>4. CASE Clearing
  <2>1. CASE Empties
    BY <1>0, <2>1, SMTT(20) DEF Empties, TemplateJobShape, TemplatePlanShape, Plans, Clears,
       Publishes, TemplateCleaners, TemplateAsking
  <2>2. CASE EmptiesNot
    BY <1>0, <2>2, SMTT(20) DEF EmptiesNot, TemplateJobShape, TemplatePlanShape, Plans, Clears,
       Publishes, TemplateCleaners, TemplateAsking
  <2>3. CASE FindsEmpty
    BY <1>0, <2>3, SMTT(20) DEF FindsEmpty, TemplateJobShape, TemplatePlanShape, Plans, Clears,
       Publishes, TemplateCleaners, TemplateAsking
  <2>4. CASE Removes
    BY <1>0, <2>4, SMTT(20) DEF Removes, TemplateJobShape, TemplatePlanShape, Plans, Clears,
       Publishes, TemplateCleaners, TemplateAsking
  <2>5. CASE ClearStuck
    BY <1>0, <2>5, SMTT(20) DEF ClearStuck, TemplateJobShape, TemplatePlanShape, Plans, Clears,
       Publishes, TemplateCleaners, TemplateAsking
  <2>6. CASE Syncs
    BY <1>0, <2>6, SMTT(20) DEF Syncs, TemplateJobShape, TemplatePlanShape, Plans, Clears,
       Publishes, TemplateCleaners, TemplateAsking
  <2>7. CASE TemplateReleases
    BY <1>0, <2>7, SMTT(20) DEF TemplateReleases, TemplateJobShape, TemplatePlanShape, Plans,
       Clears, Publishes, TemplateCleaners, TemplateAsking
  <2> QED
    BY <1>4, <2>1, <2>2, <2>3, <2>4, <2>5, <2>6, <2>7, Zenon DEF Clearing
<1>5. CASE Ends
  <2>1. CASE AsksAgain
    BY <1>0, <2>1, SMTT(20) DEF AsksAgain, TemplateJobShape, TemplatePlanShape, Plans, Clears,
       Publishes, TemplateCleaners, TemplateAsking
  <2>2. CASE Raises
    BY <1>0, <2>2, SMTT(20) DEF Raises, TemplateJobShape, TemplatePlanShape, Plans, Clears,
       Publishes, TemplateCleaners, TemplateAsking
  <2>3. CASE Refuses
    BY <1>0, <2>3, SMTT(20) DEF Refuses, TemplateJobShape, TemplatePlanShape, Plans, Clears,
       Publishes, TemplateCleaners, TemplateAsking
  <2>4. CASE Retries
    BY <1>0, <2>4, SMTT(20) DEF Retries, TemplateJobShape, TemplatePlanShape, Plans, Clears,
       Publishes, TemplateCleaners, TemplateAsking
  <2>5. CASE Discarded
    BY <1>0, <2>5, SMTT(20) DEF Discarded, TemplateJobShape, TemplatePlanShape, Plans, Clears,
       Publishes, TemplateCleaners, TemplateAsking
  <2>6. CASE Discards
    BY <1>0, <2>6, SMTT(20) DEF Discards, TemplateJobShape, TemplatePlanShape, Plans, Clears,
       Publishes, TemplateCleaners, TemplateAsking
  <2>7. CASE CleansNot
    BY <1>0, <2>7, SMTT(20) DEF CleansNot, TemplateJobShape, TemplatePlanShape, Plans, Clears,
       Publishes, TemplateCleaners, TemplateAsking
  <2>8. CASE Pends
    BY <1>0, <2>8, SMTT(20) DEF Pends, TemplateJobShape, TemplatePlanShape, Plans, Clears,
       Publishes, TemplateCleaners, TemplateAsking
  <2>9. CASE Stores
    BY <1>0, <2>9, SMTT(20) DEF Stores, TemplateJobShape, TemplatePlanShape, Plans, Clears,
       Publishes, TemplateCleaners, TemplateAsking
  <2>10. CASE Tells
    BY <1>0, <2>10, SMTT(20) DEF Tells, TemplateJobShape, TemplatePlanShape, Plans, Clears,
       Publishes, TemplateCleaners, TemplateAsking
  <2>11. CASE Dies
    BY <1>0, <2>11, SMTT(20) DEF Dies, TemplateJobShape, TemplatePlanShape, Plans, Clears,
       Publishes, TemplateCleaners, TemplateAsking
  <2> QED
    BY <1>5, <2>1, <2>2, <2>3, <2>4, <2>5, <2>6, <2>7, <2>8, <2>9, <2>10, <2>11, Zenon DEF Ends
<1>6. CASE Asked
  <2>1. CASE AskedToClean
    BY <1>0, <2>1, SMTT(20) DEF AskedToClean, TemplateJobShape, TemplatePlanShape, Plans, Clears,
       Publishes, TemplateCleaners, TemplateAsking
  <2>2. CASE AskedAgain
    BY <1>0, <2>2, SMTT(20) DEF AskedAgain, TemplateJobShape, TemplatePlanShape, Plans, Clears,
       Publishes, TemplateCleaners, TemplateAsking
  <2>3. CASE Finishes
    BY <1>0, <2>3, SMTT(20) DEF Finishes, TemplateJobShape, TemplatePlanShape, Plans, Clears,
       Publishes, TemplateCleaners, TemplateAsking
  <2>4. CASE ShowsPreview
    BY <1>0, <2>4, SMTT(20) DEF ShowsPreview, TemplateJobShape, TemplatePlanShape, Plans, Clears,
       Publishes, TemplateCleaners, TemplateAsking
  <2>5. CASE SendsChoices
    BY <1>0, <2>5, SMTT(20) DEF SendsChoices, TemplateJobShape, TemplatePlanShape, Plans, Clears,
       Publishes, TemplateCleaners, TemplateAsking
  <2>6. CASE OpensDialog
    BY <1>0, <2>6, SMTT(20) DEF OpensDialog, TemplateJobShape, TemplatePlanShape, Plans, Clears,
       Publishes, TemplateCleaners, TemplateAsking
  <2>7. CASE Confirms
    BY <1>0, <2>7, SMTT(20) DEF Confirms, TemplateJobShape, TemplatePlanShape, Plans, Clears,
       Publishes, TemplateCleaners, TemplateAsking
  <2>8. CASE Declines
    BY <1>0, <2>8, SMTT(20) DEF Declines, TemplateJobShape, TemplatePlanShape, Plans, Clears,
       Publishes, TemplateCleaners, TemplateAsking
  <2> QED
    BY <1>6, <2>1, <2>2, <2>3, <2>4, <2>5, <2>6, <2>7, <2>8, Zenon DEF Asked
<1>7. CASE Departing
  <2>1. CASE Unmounts
    BY <1>0, <2>1, SMTT(20) DEF Unmounts, TemplateJobShape, TemplatePlanShape, Plans, Clears,
       Publishes, TemplateCleaners, TemplateAsking
  <2>2. CASE GoesOn
    BY <1>0, <2>2, SMTT(20) DEF GoesOn, TemplateJobShape, TemplatePlanShape, Plans, Clears,
       Publishes, TemplateCleaners, TemplateAsking
  <2>3. CASE CleansLast
    BY <1>0, <2>3, SMTT(20) DEF CleansLast, TemplateJobShape, TemplatePlanShape, Plans, Clears,
       Publishes, TemplateCleaners, TemplateAsking
  <2>4. CASE LetsGoLast
    BY <1>0, <2>4, SMTT(20) DEF LetsGoLast, TemplateJobShape, TemplatePlanShape, Plans, Clears,
       Publishes, TemplateCleaners, TemplateAsking
  <2>5. CASE Intrudes
    BY <1>0, <2>5, SMTT(20) DEF Intrudes, TemplateJobShape, TemplatePlanShape, Plans, Clears,
       Publishes, TemplateCleaners, TemplateAsking
  <2> QED
    BY <1>7, <2>1, <2>2, <2>3, <2>4, <2>5, Zenon DEF Departing
<1> QED
  BY <1>1, <1>2, <1>3, <1>4, <1>5, <1>6, <1>7, Zenon DEF Effect

LEMMA TemplateStart == T!Init => TemplateIInv
<1> SUFFICES ASSUME T!Init PROVE TemplateIInv
  OBVIOUS
<1> DEFINE p == [held |-> FALSE, tx |-> FALSE, locks |-> FALSE, roots |-> template.roots,
                 pins |-> template.pins, removed |-> T!Empty, replaced |-> T!Empty, res |-> T!NoResult,
                 attempt |-> 0, pub |-> "not-published", committed |-> FALSE, stuck |-> FALSE,
                 cleaned |-> FALSE, removing |-> FALSE]
<1>1. /\ template \in Templates /\ plan = p /\ session = "planning" /\ cancel = FALSE
      /\ faults = 0 /\ outside = 0
      /\ disk = [target |-> "none", altered |-> FALSE, moved |-> FALSE, tree |-> "absent",
                 staging |-> "none", staged |-> FALSE, roots |-> T!Empty, pins |-> {}]
      /\ thr = [job |-> "start", pc |-> "planning", choice |-> T!Empty, before |-> 0]
      /\ own = [error |-> FALSE, orig |-> FALSE, stuck |-> FALSE, cleaned |-> FALSE, nav |-> FALSE]
      /\ scr = [phase |-> "starting", preview |-> T!NoResult, modal |-> FALSE, left |-> FALSE,
                released |-> FALSE, quitting |-> "no"]
  BY Zenon DEF T!Init, T!Start
<1>2. template.roots \in Slots
  BY <1>1, TemplatesAssumption, SlotFacts
<1>3. T!NoResult \in TemplateResult
  BY EmptySlots, ZenonT(20) DEF TemplateResult, T!NoResult
<1>4. 0 \in Nat /\ faults \in 0..MaxFaults /\ outside \in 0..MaxOutside
  BY <1>1, BoundsAssumption
<1>5. p \in Plan
  BY <1>2, <1>3, <1>4, EmptySlots, ZenonT(20) DEF Plan
<1>6. /\ plan.held = FALSE /\ plan.tx = FALSE /\ plan.locks = FALSE /\ plan.roots = template.roots
      /\ plan.pins = template.pins /\ plan.removed = T!Empty /\ plan.replaced = T!Empty
      /\ plan.res = T!NoResult /\ plan.pub = "not-published" /\ plan.committed = FALSE
  BY <1>1, Zenon
<1>7. plan \in Plan
  BY <1>1, <1>5, Zenon
<1> HIDE DEF p
<1>8. disk \in Disk /\ thr \in Step /\ own \in Owner /\ scr \in Screen
  BY <1>1, <1>3, EmptySlots, ZenonT(20) DEF Disk, Step, Owner, Screen, T!Thread, Pcs
<1>9. Types
  BY <1>1, <1>4, <1>7, <1>8, Zenon DEF Types, DiskTypes, PlanTypes, TemplateStepTypes, OwnerTypes,
     ScreenTypes, TemplateBoundTypes, Sessions
<1>10. /\ thr.pc = "planning" /\ thr.job = "start" /\ thr.choice = T!Empty
       /\ disk.tree = "absent" /\ disk.staging = "none" /\ scr.modal = FALSE
       /\ scr.phase = "starting" /\ scr.released = FALSE /\ scr.quitting = "no"
       /\ scr.preview = T!NoResult
  BY <1>1
<1>11. TemplateJobShape
  BY <1>1, <1>10 DEF TemplateJobShape, Plans, Clears, Publishes, TemplateCleaners
<1>12. TemplatePlanShape /\ TemplateOwnerShape
  BY <1>1, <1>6, <1>10 DEF TemplatePlanShape, TemplateOwnerShape, Plans, Clears, TemplateAsking
<1>13. Sound(plan)
  BY <1>6 DEF Sound, Listed, PinsKept, T!Empty
<1>14. T!NoResult.status = "none"
  BY NothingAsked
<1>15. Fresh(plan)
  BY <1>6, <1>14, NothingAsked
<1>16. TemplateRoundShape
  BY <1>1, <1>6, <1>10, <1>13, <1>15 DEF TemplateRoundShape, Working, Plans
<1>17. ShownShape
  BY <1>1, <1>6, <1>10, <1>14 DEF ShownShape
<1> QED
  BY <1>9, <1>11, <1>12, <1>16, <1>17 DEF TemplateIInv

LEMMA TemplateStutter == TemplateIInv /\ UNCHANGED T!vars => TemplateIInv'
<1> SUFFICES ASSUME TemplateIInv, UNCHANGED T!vars PROVE TemplateIInv'
  OBVIOUS
<1>1. UNCHANGED <<template, disk, plan, session, cancel, thr, own, faults, outside, scr>>
  BY Zenon DEF T!vars
<1>2. KeptTypes
  BY <1>1, Zenon DEF TemplateIInv, KeptTypes, Types, DiskTypes, PlanTypes, TemplateStepTypes,
     OwnerTypes, ScreenTypes, TemplateBoundTypes
<1>3. Types'
  BY <1>2, TypesKept, Zenon DEF TemplateIInv
<1>4. TemplateJobShape' /\ TemplatePlanShape' /\ TemplateOwnerShape'
  BY <1>1 DEF TemplateIInv, TemplateJobShape, TemplatePlanShape, TemplateOwnerShape
<1>5. Plan' = Plan
  BY <1>1, Kinds, Zenon
<1>6. TemplateRoundShape'
  BY <1>1, <1>5, TemplateKept DEF TemplateIInv, TemplateRoundShape, Working, Since, T!Swapped,
     T!Left, T!Chosen
<1>7. ShownShape'
  BY <1>1, TemplateKept DEF TemplateIInv, ShownShape
<1> QED
  BY <1>3, <1>4, <1>6, <1>7, Zenon DEF TemplateIInv

LEMMA TemplateStep == TemplateIInv /\ T!Next => TemplateIInv' /\ TemplateCopies
<1> SUFFICES ASSUME TemplateIInv, T!Next PROVE TemplateIInv' /\ TemplateCopies
  OBVIOUS
<1>1. Types /\ TemplateJobShape /\ TemplatePlanShape /\ TemplateOwnerShape /\ TemplateRoundShape /\ ShownShape
  BY Zenon DEF TemplateIInv
<1>2. KeptTypes /\ Effect
  BY <1>1, Effects, Zenon
<1>3. Types' /\ TemplateJobShape' /\ TemplatePlanShape' /\ TemplateOwnerShape'
  BY <1>1, <1>2, TypesKept, TemplateJobShapeKept, TemplatePlanShapeKept, TemplateOwnerShapeKept,
     Zenon
<1>4. TemplateRoundShape' /\ ShownShape' /\ TemplateCopies
  BY <1>1, <1>2, TemplateRoundShapeKept, ShownShapeKept, TemplateCopiesStep, Zenon
<1> QED
  BY <1>3, <1>4, Zenon DEF TemplateIInv

LEMMA TemplateProperties == TemplateIInv => T!PublishedIsConfirmed /\ T!LocksOutliveTree /\ T!OutcomeIsTrue
<1> SUFFICES ASSUME TemplateIInv PROVE T!PublishedIsConfirmed /\ T!LocksOutliveTree /\ T!OutcomeIsTrue
  OBVIOUS
<1> USE DEF TemplateIInv
<1>0. plan.pub \in {"not-published", "uncertain", "published"}
  BY Zenon DEF Types, DiskTypes, PlanTypes, TemplateStepTypes, OwnerTypes, ScreenTypes,
     TemplateBoundTypes, Plan
<1>1. T!PublishedIsConfirmed
  <2> DEFINE shown == scr.preview
  <2>1. disk.staging = "moved" => disk.staged /\ disk.roots = shown.roots /\ disk.pins = shown.pins
    BY DEF ShownShape
  <2>2. ASSUME shown.status = "resolved"
        PROVE  /\ \A i \in DOMAIN template.roots :
                    \/ i \in DOMAIN shown.removed
                    \/ /\ i \in DOMAIN shown.roots
                       /\ \/ i \in DOMAIN shown.replaced
                          \/ shown.roots[i] = Identity[template.roots[i]]
               /\ \A i, j \in DOMAIN shown.roots : shown.roots[i] = shown.roots[j] => i = j
               /\ \A p \in template.pins :
                    \/ p \in shown.pins /\ \E i \in DOMAIN shown.roots : shown.roots[i] = p
                    \/ \E i \in DOMAIN shown.removed : p \in shown.removed[i]
    <3>1. TemplateAccounted(shown)
      BY <2>2 DEF ShownShape
    <3> HIDE DEF shown, TemplateIInv
    <3> QED
      BY <3>1 DEF TemplateAccounted, Listed, PinsKept, Canon
  <2> QED
    BY <2>1, <2>2, Zenon DEF T!PublishedIsConfirmed
<1>2. T!LocksOutliveTree
  BY TemplateLifecycles DEF T!LocksOutliveTree, TemplatePlanShape, TemplateOwnerShape
<1>3. T!TypeOK
  <2>1. /\ disk.target \in {"none", "ours", "foreign"}
        /\ disk.tree \in {"absent", "full", "emptied", "bare"}
        /\ disk.staging \in {"none", "tree", "moved", "gone", "swept"}
        /\ disk.altered \in BOOLEAN /\ disk.moved \in BOOLEAN /\ disk.staged \in BOOLEAN
        /\ disk.roots \in Slots /\ disk.pins \in SUBSET template.pins
    BY Zenon DEF Types, DiskTypes, PlanTypes, TemplateStepTypes, OwnerTypes, ScreenTypes,
       TemplateBoundTypes, Disk
  <2>2. /\ plan.held \in BOOLEAN /\ plan.tx \in BOOLEAN /\ plan.locks \in BOOLEAN
        /\ plan.committed \in BOOLEAN /\ plan.stuck \in BOOLEAN /\ plan.cleaned \in BOOLEAN
        /\ plan.removing \in BOOLEAN /\ plan.roots \in Slots /\ plan.pins \in SUBSET template.pins
        /\ plan.attempt \in Nat /\ plan.res \in TemplateResult
    BY Zenon DEF Types, DiskTypes, PlanTypes, TemplateStepTypes, OwnerTypes, ScreenTypes,
       TemplateBoundTypes, Plan
  <2>3. plan.res.status \in {"none", "required", "resolved"}
    BY <2>2, Zenon DEF TemplateResult
  <2>4. /\ own.error \in BOOLEAN /\ own.orig \in BOOLEAN /\ own.stuck \in BOOLEAN
        /\ own.cleaned \in BOOLEAN /\ own.nav \in BOOLEAN
    BY Zenon DEF Types, DiskTypes, PlanTypes, TemplateStepTypes, OwnerTypes, ScreenTypes,
       TemplateBoundTypes, Owner
  <2>5. /\ scr.modal \in BOOLEAN /\ scr.left \in BOOLEAN /\ scr.released \in BOOLEAN
        /\ scr.phase \in {"starting", "conflicts", "resolving", "preview", "publishing", "complete"}
        /\ scr.quitting \in {"no", "waiting", "cleaning", "over"}
    BY Zenon DEF Types, DiskTypes, PlanTypes, TemplateStepTypes, OwnerTypes, ScreenTypes,
       TemplateBoundTypes, Screen
  <2>6. thr.job \in T!Thread /\ thr.choice \in T!Choices /\ cancel \in BOOLEAN
        /\ session \in Sessions /\ faults \in 0..MaxFaults /\ outside \in 0..MaxOutside
    BY Zenon DEF Types, DiskTypes, PlanTypes, TemplateStepTypes, OwnerTypes, ScreenTypes,
       TemplateBoundTypes, Step
  <2>7. Slots \subseteq T!Choices
    BY DEF Slots, T!Choices
  <2>8. {disk.altered, disk.moved, disk.staged, plan.held, plan.tx, plan.locks, plan.committed,
         plan.stuck, plan.cleaned, plan.removing, cancel, own.error, own.orig, own.stuck,
         own.cleaned, own.nav, scr.modal, scr.left, scr.released} \subseteq BOOLEAN
    BY <2>1, <2>2, <2>4, <2>5, <2>6, Zenon
  <2>9. {plan.roots, disk.roots} \subseteq T!Choices /\ {plan.pins, disk.pins} \subseteq SUBSET template.pins
    BY <2>1, <2>2, <2>7
  <2> QED
    BY <1>0, <2>1, <2>2, <2>3, <2>5, <2>6, <2>8, <2>9, Zenon DEF T!TypeOK, Sessions
<1>4. session = "published" => /\ plan.committed /\ disk.tree = "absent" /\ ~plan.locks
  BY DEF TemplatePlanShape
<1>5. session = "discarded" =>
        /\ ~plan.committed /\ disk.tree \in {"absent", "bare"} /\ ~plan.locks /\ disk.staging # "moved"
  BY <1>0 DEF TemplatePlanShape
<1>6. scr.released => \/ /\ disk.tree \in {"absent", "bare"} /\ ~plan.locks
                         /\ disk.staging = "moved" <=> plan.committed
                      \/ plan.committed /\ session = "cleanup-pending"
  BY <1>0 DEF TemplatePlanShape, TemplateOwnerShape
<1>7. T!OutcomeIsTrue
  BY <1>3, <1>4, <1>5, <1>6 DEF T!OutcomeIsTrue
<1> QED
  BY <1>1, <1>2, <1>7

-----------------------------------------------------------------------------
(* Both                                                                    *)

IInv == /\ kind \in {"pack", "template"}
        /\ kind = "pack" => PackIInv
        /\ kind = "template" => TemplateIInv

LEMMA PackStep == PackIInv /\ P!Next => PackIInv' /\ PackCopies
<1> SUFFICES ASSUME PackIInv, P!Next PROVE PackIInv' /\ PackCopies
  OBVIOUS
<1>1. PlaceTypes' /\ StepTypes' /\ PlanFlags' /\ OwnerFlags' /\ BoundTypes' /\ DataTypes'
  BY PlaceTypesStep, StepTypesStep, PlanFlagsStep, OwnerFlagsStep, BoundTypesStep, DataTypesStep,
     Zenon
<1>2. JobShape' /\ PlanShape' /\ OwnerShape' /\ RoundShape'
  BY JobShapeStep, PlanShapeStep, OwnerShapeStep, RoundShapeStep, Zenon
<1>3. ResultShape' /\ RoutedOnce' /\ StagedIsShown' /\ PackCopies
  BY ResultShapeStep, RoutedOnceStep, StagedIsShownStep, PackCopiesStep, Zenon
<1> QED
  BY <1>1, <1>2, <1>3, Zenon DEF PackIInv, PlainTypes

LEMMA InitIInv == Init => IInv
<1> SUFFICES ASSUME Init PROVE IInv
  OBVIOUS
<1>1. CASE kind = "pack" /\ P!Init
  BY <1>1, PackInit DEF IInv
<1>2. CASE kind = "template" /\ T!Init
  BY <1>2, TemplateStart DEF IInv
<1> QED
  BY <1>1, <1>2, Zenon DEF Init

LEMMA SameVars ==
  UNCHANGED vars => UNCHANGED P!vars /\ UNCHANGED T!vars /\ UNCHANGED kind
BY DEF vars, shared, ofPack, ofTemplate, P!vars, T!vars, P!Disk, P!Resolution, P!Outcome, P!Owner,
       P!Thread, P!Bounds, P!Screen

LEMMA IInvStep == IInv /\ [Next]_vars => IInv'
<1> SUFFICES ASSUME IInv, [Next]_vars PROVE IInv'
  OBVIOUS
<1>1. CASE OfPack /\ P!Next
  BY <1>1, PackStep DEF IInv, OfPack
<1>2. CASE OfTemplate /\ T!Next
  BY <1>2, TemplateStep DEF IInv, OfTemplate
<1>3. CASE UNCHANGED vars
  BY <1>3, SameVars, PackStutter, TemplateStutter DEF IInv
<1> QED
  BY <1>1, <1>2, <1>3, Zenon DEF Next

(* The inductive invariant holds in every state of every migration.        *)
THEOREM MigrationInvariant == Spec => []IInv
<1>1. Init => IInv
  BY InitIInv
<1>2. IInv /\ [Next]_vars => IInv'
  BY IInvStep
<1> QED
  BY <1>1, <1>2, PTL DEF Spec

LEMMA IInvProperties == IInv => PublishedIsConfirmed /\ LocksOutliveTree /\ OutcomeIsTrue
BY PackProperties, TemplateProperties
DEF IInv, PublishedIsConfirmed, LocksOutliveTree, OutcomeIsTrue

(* What was published is what the user saw and confirmed, and no root or   *)
(* fixed version of the source was lost without a word.                    *)
THEOREM Confirmed == Spec => []PublishedIsConfirmed
<1>1. IInv => PublishedIsConfirmed
  BY IInvProperties
<1> QED
  BY <1>1, MigrationInvariant, PTL

(* As long as there is something to recover, the locks are held.           *)
THEOREM LocksLast == Spec => []LocksOutliveTree
<1>1. IInv => LocksOutliveTree
  BY IInvProperties
<1> QED
  BY <1>1, MigrationInvariant, PTL

(* Published and discarded are said only when they are true, and an owner  *)
(* is let go only then.                                                    *)
THEOREM OutcomesHold == Spec => []OutcomeIsTrue
<1>1. IInv => OutcomeIsTrue
  BY IInvProperties
<1> QED
  BY <1>1, MigrationInvariant, PTL

(* Both migrations implement the abstract publication: the new project     *)
(* appears at once, at most once, over nothing, under the locks.           *)
THEOREM MigrationsImplementCopy == Spec => ImplementsCopy
<1>1. Init => Copy!Init
  <2>1. CASE kind = "pack" /\ P!Init
    BY <2>1 DEF P!Init, Copy!Init
  <2>2. CASE kind = "template" /\ T!Init
    BY <2>2 DEF T!Init, T!Start, Copy!Init
  <2> QED
    BY <2>1, <2>2, Zenon DEF Init
<1>2. IInv /\ [Next]_vars => [Copy!Next]_(Copy!vars)
  <2> SUFFICES ASSUME IInv, [Next]_vars PROVE [Copy!Next]_(Copy!vars)
    OBVIOUS
  <2>1. CASE OfPack /\ P!Next
    <3>1. kind = "pack" /\ kind' = "pack" /\ PackCopies
      BY <2>1, PackStep DEF IInv, OfPack
    <3>2. locks \in BOOLEAN /\ locks' \in BOOLEAN
      BY <2>1, <3>1, PackStep DEF IInv, PackIInv, PlainTypes, PlanFlags
    <3> QED
      BY <3>1, <3>2 DEF PackCopies, Copies, Copy!Next, Copy!vars, Copy!Acquire, Copy!Publish,
                        Copy!Release, Copy!Outside
  <2>2. CASE OfTemplate /\ T!Next
    <3>1. kind = "template" /\ kind' = "template" /\ TemplateIInv /\ TemplateIInv' /\ TemplateCopies
      BY <2>2, TemplateStep DEF IInv, OfTemplate
    <3>2. plan.locks \in BOOLEAN /\ plan'.locks \in BOOLEAN
      <4>1. plan \in Plan /\ (plan \in Plan)'
        BY <3>1, Zenon DEF TemplateIInv, Types, PlanTypes
      <4> QED
        BY <4>1, Zenon DEF Plan
    <3> QED
      BY <3>1, <3>2 DEF TemplateCopies, Copies, Copy!Next, Copy!vars, Copy!Acquire,
                        Copy!Publish, Copy!Release, Copy!Outside
  <2>3. CASE UNCHANGED vars
    BY <2>3 DEF vars, shared, ofPack, ofTemplate, Copy!vars
  <2> QED
    BY <2>1, <2>2, <2>3, Zenon DEF Next
<1> QED
  BY <1>1, <1>2, MigrationInvariant, PTL DEF Spec, ImplementsCopy, Copy!Spec
=============================================================================
