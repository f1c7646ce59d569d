# Huroshiki and MATOI in TLA+

Huroshiki (the terminal interface) and MATOI (the command line `packctl`) manage
Packwiz modpacks: a project is a directory `packs/<id>` or `templates/<id>` with a
configuration and a Packwiz source tree; operations prepare a change in a private
transaction directory under the state directory and publish it with a rename; a
publication copies two generations (client and server) to a remote host by SSH and
switches a symlink there. The implementation is Python, in
`src/shared/scripts`; the paths below are relative to it.

None of this state is in a database. It is directories, files, flocks, symlinks and
processes, which other programs may touch at any time, and every operation must end
well when it is interrupted, cancelled, killed, or when a step of its own clean-up
fails. That is what the modules are about.

## 1. Inventory

| Component | State it keeps | Operations | Hard behaviour | Correct when |
|---|---|---|---|---|
| Project locks (`project_locks.py`, `packctl.acquire_project_locks`) | one lock file per project key: a kernel flock and the owner's record in the file | acquire, set acquisition, release, inspection | flock and record are two steps; release fails; owners die; inspectors take the same flock | one owner per project; the record names it; sets cannot deadlock |
| Pack transaction (`PackTransaction` in `huroshiki_core.py`) | staged source, backup, baseline digests, remembered inodes | create, apply with rollback, discard | outside writers between any two steps, interrupts in the handler, a crash between the renames | nothing is lost, no update is overwritten, apply is all or nothing |
| Transaction lifecycle (`PackTransaction` slots and locks, `PackwizAddOperation`, `packwiz_pty.py`, `process_runner.py`) | operation slot, discard state, process group, staged source and its batches | begin, run, cancel an add; apply; discard and its retries | threads that race for the slots, process groups that outlive their parent, waits with deadlines | no process outlives the lock unnoticed; a failed add leaves no trace; discards end |
| Configuration writer (`packctl._write_yaml_atomic`) | the file, a temporary and up to two recovery copies | one write | an editor that saves between any two steps, undoing the exchange, second failures | nothing is lost, an editor's file is not overwritten |
| State retention and trash (`packctl.py`) | transaction directories, trash entries, projects | classify, clean, trash, restore, purge | decisions on old classifications; names that do not tell the project | active transactions stay; a restored project survives |
| Publish transfer (`publish_transfer.py`) | local workspace, remote stage and generation, plan state | prepare, execute, discard, retry; remote transfer, status, cleanup | lost requests, streams and answers; late and killed helpers | a generation is whole or absent; no stage is forgotten |
| Publish activation (`publish_activation.py`) | `current` symlink, receipt, temporary symlink | activate, status, cleanup, verification | lost answers, late helpers, somebody repoints `current` | a reported outcome stays true, nothing stays behind |
| Publish orchestration and restart (`publish_orchestration.py`, `publish_restart.py`) | plan state, result of each side, owners of what is to be cleaned | plan, execute, retry clean-up | clean-up of one side fails, cancellation at any step, restart with unknown outcome | the result says what is true on the host; no owner is dropped |
| Content operations (`content_operations.py`) | plan state, staged tree, exchange in progress | plan, preview, apply, discard | discard during apply, edit during exchange, failing lock release | the content is the old or the new, and never somebody's lost edit |
| Pack migration (`pack_migration*.py`, its screen) | plan state, two project locks, transaction directory, publication record, the screen's phase and owner | plan, select roots, resolve, replace, publish, retry clean-up, discard, shut down | ambiguous rename, clean-up after commit, keys and timers between the worker's steps | what is published is what was confirmed; the locks outlive the tree; leaving ends |
| Updates (`UpdatePreparationOperation`, `select_updates`, `UpdateScreen`) | staged source and selection baseline, candidates, threads, the screen | prepare, select, confirm, apply, discard, shut down | a failed attempt must be undone before the next; cancellation against two threads and three timers | only the chosen closures change; version intents follow |
| Loader migration (`LoaderMigrationOperation`, `VersionsScreen`) | operation, transaction, preview | prepare, apply, cancel, discard | cancellation against a running subprocess | a cancelled operation changes nothing |
| Exact versions (selection in `huroshiki_core.py`, `mod_version_overrides.py`, the screens of installed MODs) | staged source, evidence, checkpoints; threads of the screens | prepare, accept, roll back, other changes, apply; browse, select, pin | evidence that a later change makes worthless; screens that leave while threads run | what is applied is what was verified; intents name what is installed |
| Profiles (`apply_profiles`) | one transaction | apply exactly or by merging | contradicting entries, Packwiz that changes the source | the Pack has what the profiles ask for |
| Template import (`template_import.py`, `TemplateImportOperation`, four screens) | worlds of candidates, session, operation, resolutions | plan, resolve, stage, apply, cancel, shut down | three threads with one event; the Templates change meanwhile | what is applied is what was resolved; intents and roots are kept |
| Template migration (`template_migration.py`, `template_migration_conflicts.py`, its screen) | plan with two project locks and a transaction directory, effective roots and fixed versions, publication state, owner of the worker | plan, resolve, choose for some of the roots, publish, retry clean-up, discard, shut down | failed rounds are rolled back, slugs turn out to be one MOD, ambiguous rename, clean-up errors against keys and polls | what is published is what was shown; no root disappears; the locks outlive the tree; leaving ends |
| Policies and parsers (`overlay_policy.py`, `pack_tree_policy.py`, `portable_paths.py`, `packwiz_parser.py`) | none | validation | — | candidates for operators |
| Providers and artifacts (`url_*.py`, `provider_*.py`, `dependency_equivalence.py`) | none that is shared | lookups, downloads | network | outcomes are nondeterministic results in the modules that use them |
| Build, serve, deploy (`packctl.py`, `deploy_support.py`) | build directory | build, swap, deploy | swap of two directories | previous build survives a failure |
| Terminal interface (`huroshiki.py`, `content_workers.py`) | owners of worker threads | start, cancel, shut down | shutdown while workers run | no owner is dropped |

How they interact. Every operation on a project holds its project lock from before it
reads the project until its transaction directory is gone, so the locks
(`ProjectLocks`) are what the other modules take for granted between operations of
*this* program: each of them models one operation, or the operations that do meet,
under the lock, together with the programs that take no lock (editors, shells, git).
A transaction publishes a Pack's source by two renames (`SourcePublication`) and a
configuration through the configuration writer (`ConfigWrite`). The worker thread of
an add, the thread that discards and the user's cancellation meet in
`TransactionLifecycle`; an update, a change of the loader, exact selections, profiles and an import
of Templates each work on a transaction of the same kind, with a screen that starts their threads
and polls them every 50 ms (`PreparedChanges`). Retention reads and deletes the directories the others own
(`StateRetention`). A publication calls transfer, then activation, for each of two
sides, then restarts the service; the remote host serialises helpers with one lock.

`PROJECT.json` lists the hazards at the lines where they bite, with the properties
that would catch each going wrong.

## 2. Modules

Every module models the code line by line in *control* (each system call that changes
state is a step, each early return and handler is there) and abstracts data: a file
or a directory is an identity (inode) with a content stamp, a digest comparison is
equality of stamps, a generation is a model value.

### ProjectExclusion, ProjectLocks, MCProjectLocks

`ProjectExclusion` is the promise: who owns a project, acquired when free and given
back. `ProjectLocks` is the code: `kernel[k]` is the flock on a key's file,
`record[k]` the owner written in the file, `pc`, `want`, `owned`, `pending` what
`ProjectLock.acquire`, `acquire_project_locks` and `release` have done so far;
`probe` is the inspector's flock in `inspect_lock_path`. Locking, truncating and
writing the record are steps of their own, as are the releases of a set one by one;
a process may die in every one of them (the kernel then drops its flocks, the record
stays). `acquire` fails at once on a busy key; `acquire_project_locks` polls keys in
sorted order and may give up at every poll.

### SourcePublication

One transaction: `Snapshot`, `Copy`, `CheckCopy` and `Verify` (create), `BeginApply` to
`Finish` (`_apply`; what the operations staged before does not matter to it), the handler with
`Restore`/`SetAside`/`CheckAside`/`PutBack`, and `Discard`, which only releases: every directory stays where it is. `at[p]` is the directory at the real path and at the three names in the
transaction directory; `content[d]` its stamp; `pin` the inodes the code remembers.
Outside writers may edit, take away, or put a directory at the real path between any
two steps; interrupts may come at every step including those of the handler; a crash
at every step; state clean-up may afterwards remove the transaction directory.

### TransactionLifecycle, MCTransactionLifecycle

The threads of one transaction: each add operation (`BeginAdd` to `Complete`, with
its PTY session and process group), the user's cancellation, one apply at a time,
and `discard` with the two attempts to cancel, the wait with a deadline, the retry of
unfinished process clean-up, and release. `mutex` is the transaction's lifecycle
lock, `active`/`operation` its slot, `held` the project lock. Process groups drain
when they like; stopping one is a step that reports `drained` or `undrained`.

### StateRetention, MCStateRetention

Transaction directories (one for each *sort* of directory name: a name that gives the
project, a name that does not but with a `plan.json`, neither), the trash with
stamped entries, one cleaner that classifies, selects, locks and deletes item by item
(`clean_state`, `_transaction_active`), and trash, restore and purge.

### ConfigWrite, MCConfigWrite

`_write_yaml_atomic` step by step: temporary, recovery copies, the guard that compares
with what was read, `renameat2(EXCHANGE)` or `link`, the checks after it, the removal of the
temporaries, and the handler that classifies, quarantines and relinks. `entry[n]` is the
file a name leads to, `content[f]` what is in it. Outside writers edit in place, replace or remove.

### PublishTransfer, MCPublishTransfer

The remote helper (`TakeLock`, `Reuse`, `MakeStage`, `Receive`, `Verify`, `Commit`,
`Clean`), the remote cleanup and status requests, and the publisher's plan
(`execute_publish_transfer`, `discard_publish_transfer_plan`, retry). The connection
loses requests, cuts streams and loses answers; a helper may run long after its
publisher gave up, and may be killed at any step.

### PublishActivation, MCPublishActivation

The remote helper that writes a receipt, makes a temporary symlink, exchanges it with
`current`, compares what it exchanged out and may undo; status and cleanup requests;
the publisher's decision from answers, status and verification, its cleanup and
`retry_publish_activation_cleanup`. One repointing of `current` by somebody else is
explored.

### PublishOrchestration, MCPublishOrchestration

`execute_pack_publish` with its handler and its `finally` block: the calls for client and
server in their order, each with every outcome the modules above give it, the restart with
an outcome that may stay unknown, what is remembered of each side (`transfers`,
`activations`, the restart), the discard and clean-up of what is left, the result that is
kept, and `retry_pack_publish_cleanup` by several callers at once. Cancellation and
interrupts may come between any two calls.

### ContentOperation, MCContentOperation

`apply_content_changes`, `_rollback_publication` and the discard of a content plan. `at[p]`
is the directory at the content path and at the four names in the transaction directory,
`content[d]` its digest; `active`, `committed` and `name` are the plan's
`_publication_active`, `_publication_committed` and `_original_exchange_name`; `mutex` is
`plan._lock`, under which applying and discarding run. The exchange is one rename and is
verified afterwards; the rollback, `Look` to `CheckRestored`, is one sequence of steps for
both threads. Outside writers edit, replace or remove the directory between any two steps;
errors, interrupts, deadlines and a failing thread start or lock release come anywhere.

### CopyPublication, PackMigration, PackMigrationScreen

`CopyPublication` is the promise: the new project appears once, whole, over nothing, while both
project locks are held. `PackMigration` is the worker: planning (`PlanBegin` to `PlanReleases`), the
choice of the roots, resolution in rounds (`ResolveRoots`, with conflicts the user answers by a
replacement or a removal, `ConflictBegins`), the exchange of the staged source, `Prepare`,
`ApplyChecks`, the `Rename` whose error does not say whether it happened, `Reconcile` by identities,
`Verify` by contents, and the clean-up after or instead of it. `altered` says where the directory was when another program
changed it, staged or published; what is staged is compared before and after the exchange, by `Prepare` and
`ApplyChecks`, and once more when it has been published. `PackMigrationScreen` is the event loop around it: keys, the
dialogs, the 50 ms poll with its branches, the application's table of owners, and `on_unmount`. The
resolver's answer (the closure, what is unresolvable, what collides) is an outcome.

### TemplateMigration, TemplateMigrationScreen

The same protocol in another implementation, with its own plan, session and screen. `template` is the
snapshot, `disk` the target, the transaction directory and what is staged in it, `plan` the plan and
its `_State`, `thr` the worker, `own` the owner. `Acquire` to `CopySource` plan; `Choose` is
`resolve_template_migration_conflicts_at` with its validation (`Accepted`); `Resolve` is one round:
every root's slug is looked up, its closure resolved, roots that turn out to be one MOD (`Twins`) and
closures that cannot have a fixed dependency are unresolved, and the roots become canonical; a round
that fails puts back what it had changed (`Restore`). A root is a slot with a selector, and
`Identity` says what MOD a selector means. `Prepare` to `Verify` publish; `EmptyTransaction` to
`ReleaseLocks` are `_cleanup`, which discard, publication, a failed planning and the retry share. The screen decides by the
session's state rather than by phases of its own, stores a clean-up error in two steps (`StoreError`,
`Cleaned`), and tries it again with a key.

### CopyMigrations, MCCopyMigrations

Both migrations, one `kind` in a behaviour: their shared constants, the specification with its
fairness, and the properties, which each screen module states of its own state. It maps both to
`CopyPublication`.

### PreparedChange, PreparedChanges, MCPreparedChanges

`PreparedChange` is what everything that works on a Pack transaction promises: the source changes
only when an open transaction is applied, and one that is being closed is never applied or opened
again. `PreparedChanges` is the seven modules that keep it, one `kind` in a behaviour:
`TransactionLifecycle` (an add), `PackUpdate`, `LoaderMigration`, `ExactSelection`,
`ProfileApplication`, `TemplateImportScreens` and `ExactVersionScreens`. It has one set of variables
(`tx`, `prep`, `work`, `ui`, `extra` for the thread-and-screen modules), an initial state for each
kind, and states the common properties once: what is applied is what was chosen, intents are kept,
no transaction is forgotten, leaving ends. The refinement maps the states of every kind to *none,
open, closing, applied, closed*. The kinds do not meet: they hold the same project lock, which is what
`ProjectLocks` is about. Each module's constants are one record of `PreparedChanges`.

### ModClosure, PackUpdate

`ModClosure` holds the operators of `merge_metadata_closure` and of `dependency_equivalence.py`: what
a provider installs for one MOD, whose file an installed MOD of another provider already is (*twins*),
which of the two stays, with which side, and what the root manifest records. `PackUpdate` is the
preparation thread (classification, one resolution for each MOD in a copy of the staged source), the
selection with the agreement of its closures and the reconstruction of locked ones
(`Merge`, `Reconstructions`), staging with the version intents, application, and `UpdateScreen`.

### LoaderMigration

The thread that runs `packwiz migrate loader` and the refresh and checks what came out, and
`VersionsScreen`: preview, application in the event loop, cancellation at every step.

### ExactGraph, ExactSelection

`ExactGraph` is the rebuilding of a whole dependency graph from roots, pins and locks as operators:
expansion to a fixed point, what makes it fail, and how the result is written with its sides.
`ExactSelection` is the protocol around it: `PrepareBegins` to `PrepareSucceeds` with the checkpoint
and its restoration, the evidence with the generation of the source it verified, acceptance on top of
acceptance, their rollback one by one, and every other change of the staged source.

### ProfileApplication

`apply_profiles` from the command line: exact when an entry or an override of the Pack asks for a
version, otherwise entry by entry, with the check that nothing but the planned change is staged.

### TemplateSelection, TemplateImport, TemplateImportScreens

`TemplateSelection` is what the Templates propose: candidates by selector, options by what
verification found, conflicts of identity, name and side, and what a resolution picks.
`TemplateImport` has the three threads (planning, staging, application) with both ways of staging;
`TemplateImportScreens` the four screens and the exit.

### ExactVersionScreens

The details, catalog and candidate screens of an installed MOD, their threads, the registry of
workers, the table of transactions that other screens see, and the exit, with every timer that stops
when its screen goes.

## 3. Runs

| Run | Bounds | Distinct states | Shows |
|---|---|---|---|
| `locks` | 3 operations, 1 inspector, 2 keys | 217,998 | ownership, records, no circular wait, and refinement of `ProjectExclusion` |
| `publication` | 2 outside directories, 3 edits, 2 interrupts, 1 crash | 555,426 | no loss, no lost update, all or nothing |
| `lifecycle` | 2 adds, 1 apply, discards without bound | 1,228,175 | no orphans unnoticed, results are true, nothing changes after release |
| `lifecycle_orphan` | 1 add | violation | a living group survives a discard when the session ended by an exception |
| `retention` | 1 project, 3 transactions (one of each sort), 2 trash entries | 253,878 | live transactions and restored projects survive clean-up |
| `config_write` | 2 outside files, 3 edits, 2 interrupts | 21,389 | no loss, all or nothing, recovery is complete |
| `transfer` | 2 transfers of the same or different generations, 2 discards each | 686,013 | generations are whole, discards complete |
| `activation` | 2 activations, 3 generations, 1 retry, 1 repointing | 835,860 | reported outcomes stay true, no residue, no blind switch |
| `orchestration` | both sides, 2 callers that retry, 2 interrupts | 105,097 | the result says what is true on the host, nothing that needs clean-up is forgotten |
| `content` | 2 outside directories, 3 outside changes, 3 errors, 3 discards | 72,994 | no loss, no lost update, exact and complete rollback, the lock is not released in the middle |
| `migration` | of a Pack: 2 root MODs, 1 replacement, 1 dependency with a fixed version; of 3 Templates: a slug and a CurseForge root with a pin, a slug with a fixed dependency, a URL with a fixed dependency; 2 conflict rounds with one root or 1 with two, the second instead of the outside step; 1 error | 758,559 | what is published was confirmed, locks outlive the tree, outcomes are true, leaving ends, and refinement of `CopyPublication` by both |
| `prepared` | 1 add with 2 applies; 7 Packs of 4 MODs to update; 5 outcomes of a loader migration; 2 MODs with 2 releases to select exactly; 5 Packs and all selections of at most 2 profile entries; 8 worlds of Templates; 1 error each, 2 tries each | 244,442 | what is applied was chosen, intents are kept, nothing is forgotten, leaving ends, and refinement of `PreparedChange` |

The type invariants of `ProjectLocks` and `SourcePublication` are proved and not checked again; in
the other modules the type invariant, where there is one, is a conjunct of a checked invariant
(such as `OutcomeIsTrue` in both migrations). Mutual exclusion of locks is not checked on its own: it follows from
`OwnedExactlyFlocked` and from the refinement, and is proved. `PROJECT.json` names for every property
at least one plausible mistake in the code, a definition marked *Mutant* in the module, that the run
finds; for a property that says several things, one for each of them.

Why the bounds are enough. Three lock users are the fewest of which two can wait while
one holds, and two keys the fewest with a cycle. In publication and configuration
an outside directory can be put down, taken, and another put down, which is every way
the two compared identities (the one remembered and the one found) can differ; three
edits let each compared content differ from both others; two interrupts reach the
handler and interrupt the handler once more. In a migration two roots are the fewest of which one conflicts while the other does not, the
replacement can be the other's, and two conflict rounds follow each other, so that what
the rounds accumulate is told apart from what the last one says, and a round that fails after another one
has taken something away has that to restore. Two rounds are explored with one root (`MaxDecisions` bounds rounds
times roots) and without the step of another program (`MaxAttempts` bounds rounds and those steps together);
any number of each is proved (`Confirmed`). Of the Templates one can get two
roots that mean one MOD, and each provider is there. What a migration resolved is dropped when
its discard begins (`Forgotten`), as are the phase of a screen at the exit and the contents of a removed
tree: nothing reads them again, and states that differ only in them would be counted apart. With a second error or outside step the graph does not
fit into the time of one run. Of the Packs to update one has a
dependency both roots share, one a locked one, one a pinned root, and the newest releases of one
combination do not work together. The worlds of Templates are one for each source of a conflict: twins,
an installed side, two URLs, one title for two MODs, exact intents, a pin, a lock.
Two tries let a failed attempt be followed by one on the same transaction.
Two adds are the fewest where one
discard meets a first operation's end and a second one's begin. One directory of
each sort is every branch of the classification. Two transfers and two activations
meet in one publication root in every order; three generations are old, new and
somebody else's. Two callers are the fewest that can race for a retry, and two interrupts
reach the handler of an orchestration and its `finally` block. For content, the third
error lets a rollback fail, its retry by a discard fail as well, and the next one succeed. Where `CHECK_DEADLOCK FALSE` is set, the operation really ends.

**Fairness.** `migration` and `prepared` have liveness properties. The steps of a started thread are
weakly fair: it is a thread of a live process, and every wait in it has a deadline
(`_CLEANUP_TIMEOUT`, the discard's deadline, the PTY session's stop, the timeouts of the
subprocesses), so it can always go on. The poll of a screen is fair since it is a 50 ms timer of the event
loop that runs as long as the screen is mounted. In `migration` the poll is strongly fair: a key may disable it for a
moment, but the timer fires between keys, however many there are. The shutdown is weakly fair; it is one
callback. In `prepared` each thread and each timer has a condition of its own, since one
that goes on must not excuse another that stops. Nothing is assumed of the user, of process groups,
or of new operations: *leaving ends* holds because the code polls and discards, not because the user waits.

**The violation run** checks what a test and the README of the repository
say and the code does not do; the quotes are in `PROJECT.json` under `findings`.

## 4. Proofs

Eight modules hold the theorems. Each `<module>_proofs` extends the module it is about;
`ProjectLocks_proofs` proves about `StateRetention`, `ConfigWrite` and `PublishTransfer` as well,
`PackTransaction_proofs` about `PreparedChanges` and `SourcePublication`, and `PackIntent_proofs`, which extends
it, about what `PreparedChanges` does with the wishes of the user. The theorems hold for any number of operations,
keys, projects, transfers, activations, Templates, MODs, outside files and directories, edits, interrupts, errors, retries
and trash entries. They assume only what the modules' `ASSUME`s say, which no code could break: the names of
actors, files and missing values are different, one generation or receipt is not taken for `None` or for a
torn one, bounds are naturals, a directory's project is a project, MODs are numbered, Packs and Templates
have the fields they are written with, and, as the readers of these records demand, a locked MOD is one that is pinned
and an intent names a release. Every theorem rests on one
inductive invariant, `IInv`, proved action by action; the lemma or theorem `...Invariant` of the module
says that it holds.

*Locks.* `IInv`: types; an operation owns a key exactly while
the kernel flock is its own (`OwnedExactlyFlocked`, with the key it is acquiring as the
exception the phases name); the record of an owned lock is its owner's; what each phase
says of `want`, `owned` and `pending` (`PhaseOK`); and an inspector's probe is a kernel
flock (`ProbesFlocked`). Ownership alone is not inductive: a step that writes a
record is safe only since the phase says whose flock it is under. Mutual exclusion
follows, since the kernel has one holder per key. `NoCircularWait` takes the highest
key somebody waits for in the cycle: its holder waits for a higher one, since keys are
taken in order. `LocksImplementExclusion` maps `owned` to the abstract owner: every
step is an acquire, a release or a stutter.

*Retention.* `RetentionIInv` is `ProjectStays` with `LiveHasLock` (a transaction that works has the lock
of its project), `TargetIsLocked` (what clean-up is about to remove is locked by it, if its name
tells a project) and `PlansArePlanned`. Whoever finds a project's lock free knows that no transaction
works on the project, and everything that moves a project looks at its lock. That only leftovers go
(`LeftoversOnly`) is shown of single steps: a listing may be as old as it likes, since `Delete`
removes what is at the path only under the lock of the project the name tells.

*Changes of a Pack.* `PreparedControl` is, for each kind of work, an invariant about control: `UpdateControl`,
`LoaderControl`, `ImportControl` and `VersionControl` relate the threads, the screens and the transaction;
`ProfilesControl`, `ExactState` and `AddControl` say what the state of the transaction may be at a step.
That somebody holds an open transaction (`TransactionsAreHeld`) is not inductive: a hand-over is safe only
since the one who hands over is known to be done and the one who takes over is known to look. So the parts
say of every thread when it has begun, may still write, and what it owes when it ends (`UpdateThread`,
`LoaderThread`, `LoaderReady`, `ImportPlanning`, `ImportRunning`, `ImportApplying`, `VersionThread`), and of every
screen which of them it waits for and what it has left (`UpdateScreen`, `LoaderScreen`, `VersionScreen`,
`VersionKnown`, `ImportLeaving`). One lemma for each action shows that the parts survive it and what it does to
the transaction and the source (`UpdateStep`, `LoaderStep`, ...); the second half makes
`PreparedImplementsChange`, in which every step of every kind is a begin, an apply, a close or a stutter.
Nothing is assumed here of the Packs, the offers of the providers, the selections and the bounds: what is staged and chosen is
opaque to these proofs. `NothingForgotten` names its exceptions, a failed discard, an exit that stopped waiting for a thread, and a
missed cancel, and the theorem holds with them: it says nothing of the window of the missed cancels (section 5).

*Intents.* `IntentControl` is `PreparedControl` and, for the three kinds of work that have to keep what the user
has asked for, an invariant about what is staged. `UpdateKeeping`: a Pack whose overrides do not name what is
installed is refused before anything is resolved (`Validated`), and from then on the source to go back to is
sound, whatever the closures bring, since a pin follows its MOD and the closures leave a locked one alone.
`ImportKeeping`: the staged source is the Pack's until a resolution is staged, and every resolution, of the exact or
of the plain resolver, holds to the intents (`ImportExactHolds`, `ImportPlainHolds`). `ExactKeeping`: as long as nobody
writes to the staged source from outside, the accepted selections are a stack in which each starts from the
source of the one below it, whose evidence it has kept; so a rollback finds evidence that is valid again. From
these `IntentsAreKept`. That only a verified source is applied (`VerifiedIsApplied`) must not depend
on outside writes: `ExactTracing` says instead that the MODs are those of the start whenever
nothing is accepted and no verification is owed, and that the stack remembers when one was. The two assumptions
are `UpdatesAssumption` and `ImportsAssumption` of `PreparedChanges`.

*Publication.* `IInv` is `TypeOK`, `NothingLost`, `Apart` (the four places hold
different directories), `OrigStaysApart` (the original never gets behind the names of
the staged copy, so setting the copy aside cannot set the original aside) and `PinsHold`
(what the steps between two comparisons rely on: which directory was remembered, and
that the backup is that directory with the content of the baseline). `NothingLost` needs `Apart`: moving a directory to an empty name loses
nothing only when no other name meant the same one. `ReplacedIsBaseline` and
`RestoresOnlyTheOriginal` are action properties proved from `IInv`. `AllOrNothing` needs a second
invariant, `LayoutOfStep`: as long as no outside writer has interfered, each step says which directory is at which
place, and how many interrupts there have been.

*Configuration.* `WriteIInv` is `NothingLost`, `AllOrNothing`, `HiddenNames` (the temporary names lead to
the write's own files, or to what it took away and checked; no step unlinks anything else), `CheckedOut`
(from its check on, what was taken away is the file that was read, and nobody reaches it by the
configuration's name) and `Undisturbed` (without outside writers: which file has which name at every step,
so that each branch of the handler puts back exactly what its step had changed).

*Content.* `IInv` is `TypeOK`, `NothingLost`, `Apart`, `Phases` (who works holds `plan._lock`;
which flags and names each step relies on, so that no step renames from a name that was
never set), `OrigKept` (from its verification on, what was exchanged out is the original
with the planned content, and nobody reaches it any more), `StageOut` (the staged tree is
canonical only while the publication is active), `LockTrue` (a free lock means committed, or
undone with no apply to come), `PlannedIsStage` and `Exact`. `Exact` is what makes the
rollback exact: as long as nobody disturbs the exchange the plan is either `Exchanging`, with
the staged tree canonical and the remembered name leading to what was taken, or `Restored`,
and one rename leads from the one to the other. `PlannedIsStage` says that nobody else
writes the planned content; the rollback recognises its own tree by that content. That a failed apply to
which one thing happened has undone its exchange (`RollbacksComplete`) needs a second invariant, `Completing`, that
sets what has gone wrong so far against how far the rollback is.

*Lifecycle.* `IInv` is `TypeOK`, `NoOrphans`, `StatesFollowSteps`, `SlotIsKept` (an operation has the
transaction's slot until nothing of it is left: no step to take, no checkpoint, no failed rollback, no
process group), `SourceShape` and `ResultShape` (the staged source is the committed batches and at most
the merged operation, whose checkpoint is what to return to), `GroupsAreReported` (a group that outlived
its step is written down somewhere a discard looks), `DiscardShape` and `ReleasedIsOver`. It never mentions `mutex`: it is the slot
that keeps the workers apart. The exception `raised` is the finding of `lifecycle_orphan`:
a session that raised gives the slot back over a living group, so *every* group being reported is not
invariant, and the theorem says precisely for which it is.

*Transfer.* `IInv` is `GenerationsAreWhole`, `StageStaysUnderHelper`, and what makes them inductive
over lost and late messages: the helper that has the remote lock and how far its stage is (`RunShape`,
`StageFollowsRun`), the one request a publisher waits for (`CallShape`), that a request runs at most once
(`RunsOnce`), that an answer was true when given and stays so (`AnswersAreTrue`, `CleanedIsClean`), and that whatever is or may still get
to the host is under the recovery path, in question, or a stray (`Remembered`, `PlanShape`).

*Activation.* `IInv` is `DecidedIsFinal` with the analogous parts about helper, requests and receipts, and `OutsideIsKept`: what
somebody else made current is not what a running activation has read as the previous generation, and is
current or kept as a temporary symlink. A receipt says that something else was current
before (`ReceiptsAreOthers`), which is why the status read from the receipt and the symlink together is final.

*Orchestration.* `IInv` is `TypeOK`, `Progress` (the states and the program counter),
`FactsFollowCalls` (the achieved facts are those of the calls made so far), `HostFollows` (and the host is as
they say, up to a late activation of the side that was asked last), `OutcomeSays` (a result exists when the plan
has left the executor without an interrupt, and repeats facts and clean-up), `Owned`, `MarksAreRecorded`, `OneCleaner`
(one caller at a time is in the cleaning part of a retry) and `EndsClean`. `EndsForGood` and
`ClientBeforeServer` are action properties proved from it.

*Copy migrations.* `IInv` is `PackIInv` or `TemplateIInv`, by the kind of migration. Each has parts about
the worker and the session (`JobShape`, `TemplateJobShape`), about what a step relies on (`PlanShape`,
`TemplatePlanShape`: which locks it holds, where the staged tree is, what is known of the publication), about the owner
(`OwnerShape`: it is let go only when nothing is left, whoever removed it), about the rounds of conflicts
(`RoundShape`, `ResultShape`, `TemplateRoundShape`: every root and every fixed version of the source is kept,
removed or replaced in every result, whatever a failed round had already rewritten) and about what is shown
(`RoutedOnce`, `StagedIsShown`, `ShownShape`: what is staged is what the preview shows). `PublishedIsConfirmed`
needs the last two groups, `LocksOutliveTree` the second, `OutcomeIsTrue` all of the first three.
A step of the code changes a few of some forty variables in several branches; so each is first brought into
forms that say what it changes (`GivesUp`, `Selects`, `Renames`, ...), and each part is shown to survive each form.
`MigrationsImplementCopy` maps each form to an acquire, a publication, a release, a step of somebody else, or a
stutter. The one assumption that is particular to it says that a Template's roots are selectors the
model knows an identity for (`TemplatesAssumption`).

**Only model-checked**: `AppliedIsChosen` of `PreparedChanges`, except for its parts about loader migrations and exact
selections, which are `VerifiedIsApplied`; and `LeavingEnds` of it and of `CopyMigrations`. Liveness and `ENABLED` are out
of the prover's reach and stay with TLC, and so would induction over data and recursive operators. `AppliedIsChosen` does
not hold of every offer one can write down: a chosen MOD may be at its offered release already, so that
only its dependencies change, while the closure of another chosen MOD changes it. The code excludes no such
offer, and a theorem would need an assumption that does; the run checks
the property for the offers of `MCPreparedChanges`, where two closures share a dependency and may disagree about it.
For profiles and imports the property compares the result with a closure that is computed by folds over the
entries in their order, which is an induction over data.

## 5. What is left out, and why

* *Publication*: empty directories, and the template branch (one configuration, written
  by the configuration writer). The contents of an edit are one stamp.
* *Lifecycle*: `ResolvedAddOperation` shares the rules of the slot; dependency-equivalence
  subprocesses; `__del__`; a failing rename-back in
  `_rollback_add`; the stop of a session by `cancel` is one step.
* *Retention*: logs and deploy snapshots, which nothing else uses.
* *Activation*: the verification of a generation is one step that may fail; at most one
  repointing by somebody else, and none that puts back what was there.
* *Transfer*: preparation is one step; the comparisons with the Pack and the target are
  outcomes; the final rename cannot find the name taken, since helpers run under the
  remote lock; nobody damages a committed generation; discards of one plan do not run
  concurrently.
* *Orchestration*: a transfer, an activation and a restart are one step each, with the
  outcomes `PublishTransfer` and `PublishActivation` justify; planning is a precondition. An
  interrupt in the handler itself leaves the plan `executing`, and an activation that is
  interrupted by an exception of its own is not recorded: both are behaviours of the model.
* *Content*: planning is the initial state; the identities of the project root and of the
  transaction directory do not change; nobody else writes into the transaction directory.
  The code leaves three plans that no discard can finish, which the properties allow: content
  that somebody creates where there was none, between the last comparison and the rename, or
  edits after the exchange, keeps the rollback from starting; an error between the exchange that gives back somebody
  else's directory and its verification makes every later rollback refuse it; an interrupt
  between the renaming of the original and the remembering of its new name makes the rollback
  look under the old one. In each the trees are kept and the lock is held.
  A discard that comes late may set an applied plan to `failed`, which the next one corrects.
* *Configuration*: the temporary is written and read back in one step; the guard reads
  the file at one instant; nobody edits the hidden temporary after its last check.
* Some situations are excluded by the wording of a property rather than by the model, and the
  README or CHANGELOG of the repository promises more: a conflicting directory that is put at
  the real path after the last comparison of `_apply` is moved into the transaction directory
  and stays there (`NothingLost` holds: it is kept, but not at the real path); an edit of the
  configuration between the last comparison and the exchange ends under the temporary name,
  and one made while an exchange is undone is unlinked with its file, which is identified by its inode;
  a transfer whose request raises forgets the stage its helper may leave (`stray` in
  `DiscardedIsGone`). A helper killed between the exchange of `current` and the unlink leaves a
  temporary symlink to the previous generation, which its own cleanup refuses.
* *Migration*: the resolver's graph is an outcome (any closure, any unresolvable or colliding roots);
  the manifest's text, the artifacts and the configuration of the new project; the
  non-interactive migration of the command line, which is the same session without a screen. Another
  program may edit the staged source tree at any moment. An edit of the rest of the staged directory before
  `Prepare` is not a step: the code scans that directory there (`pack_migration.py:1713-1719`) and publishes
  what it finds, whatever it was before. Nor does anybody edit what is staged for a Template.
* *Prepared changes*: a thread or timer that cannot be started; what a catalog of versions holds; what
  providers offer does not change during a behaviour; that Packwiz's refresh alters the source is
  modelled where the code checks for it (exact staging and profiles). The crash of a
  preparation leaves an unpublished transaction directory, which is retention's matter.
  The exact graph of a `selection` is its rebuilding as one step; `ProfileApplication` and
  `TemplateImport` have it in detail.
* *Template migration*: what a closure holds is an outcome; the warnings' text and their acknowledgement;
  the preview is the current one, since after a complete resolution there is no other; progress lines.
* *Terminal interface*: the screens of contents, publications, settings and Template editing; `app.exit` kills nothing that
  `on_unmount` does not name.
* *Manifest and target, overlay and tree policies, portable paths*: validation of one tree
  without shared state. *Build and deploy*: mostly calls of external programs.
* Pure I/O, argument parsing, rendering and network access are not modelled.

### Where the code and its documents part

Found while modelling. Those with a run are named; the others are behaviours of the models
that the properties allow in so many words (`MissedCancel`, `ui.missed`, `stray`, `retained`), or were read off the code.

* *Retention.* The repository's `README.md:277-278` says "Active transactions and locks are never selected for
  deletion"; `packctl.py:5472` selects an active transaction whose directory name tells no project and
  which has no `plan.json` yet: a copy of a Template, a publish transfer, a migration that still plans.
* *Lifecycle* (run `lifecycle_orphan`). A session that ends by an exception gives its slot back before its incomplete
  clean-up is recorded.
* *Missed cancels.* `LoaderMigrationOperation` (`huroshiki_core.py:10799-10813`) and `TemplateImportOperation` (17561-17567,
  17619-17624): a cancel between the last look of the thread's `finally` at the flags and `done` leaves an
  active transaction that nobody discards.
* *Loader migration.* `_run_packwiz` (10671-10740) gives no result callback, so an incomplete
  termination is an ordinary error, and the discard releases the lock over a group that may live.
* *Updates.* An earlier resolver whose termination was incomplete does not keep the directory of the
  resolvers from being removed (around 11528 and 11656). A discard that could not start leaves the pending
  destination of the screen; the discard of a failed preparation is not tried again before the exit. With a
  locked override, an update re-resolves unlocked dependencies of roots that were not selected.
* *Pack migration.* When leaving is asked after the last checkpoint of the publishing worker, the
  session is committed, its clean-up is refused since there is no clean-up error
  (`pack_migration.py:1790`), and the screen says for ever that the transaction is retained. The cumulative
  record of replacements is keyed by the old identity, so a chain of replacements may lose
  one. A failing release of the locks before there is a plan leaves them held.
* *Template migration.* When two roots turn out to be one MOD, both are unresolved with one identity
  (`template_migration.py:584-604`), and the next choice is refused because "Root identity ownership is ambiguous"
  (`template_migration_conflicts.py:247-258`), whatever is chosen: only leaving works, though the screen offers
  the removal and the repository's `CHANGELOG.md:47` names an explicit Remove/Replace resolution. `tests/test_template_migration_conflicts.py:419` reaches that state and stops there.
  The replacement of a slug whose lookup failed can never resolve, since its baseline is looked up by the
  slug as if it were the canonical id (542-560, `NoBaseline`). The retry key pressed between the worker's
  two assignments at `huroshiki.py:3066-3068` erases the clean-up error; after a commit the screen then leaves and
  the owner is released while the clean-up is pending and the locks are held (the exception in
  `OutcomeIsTrue`). An error between the making of the transaction directory and the plan's
  knowledge of it (362-364) leaves an empty directory (`bare`). State clean-up may remove the
  directory of an active copy, whose own clean-up then fails for ever and keeps the locks (1053-1054). The exit's clean-up
  does not reset an earlier clean-up error, so the owner stays though nothing is left.
* *Template import.* Without exact versions, an import into a Pack with a root manifest leaves the new
  roots out of it (16450-16480). With them, the choice of a side is ignored for a MOD that is installed only as a
  dependency (16685-16690), though the repository's `README.md:394-395` says that conflicts "default to keeping the installed pack
  side". Planning anew after an integrity error drops the reference to the held transaction; at the exit
  a finished thread that was not polled is neither discarded nor handed over. A MOD behind a URL cannot be
  added by an exact import or profile (9373-9379).
* *Exact versions.* Leaving while something loads or is discarded may leave a worker's entry in the
  registry, which refuses further work on that MOD until the exit (`huroshiki.py:9424-9531`).

## 6. Plan

Written, in the order of importance: locks, publication, lifecycle, retention, configuration,
transfer, activation, orchestration, content; then `PackMigration` with its screen, `PackUpdate`,
`LoaderMigration`, `ExactSelection`, `ProfileApplication`, `TemplateImport` and
`ExactVersionScreens` under `PreparedChanges`; `TemplateMigration` with its screen, under `CopyMigrations`.

Still to be written: the screens of contents and publications; `BuildSwap`; manifest and target.

Theorems to come: what is left of `AppliedIsChosen`, for offers whose closures agree on what is chosen, kind by kind, from
`IntentControl` and lemmas about the operators of `ModClosure` and `TemplateSelection`.
