--------------------------- MODULE CopyMigrations ---------------------------
(***************************************************************************)
(* The two copy migrations of the program, of a Pack and of a Template:    *)
(* two implementations of one protocol (a plan that holds the locks of     *)
(* both projects, rounds of resolution, one rename that publishes, the     *)
(* cleanup), each with a session, an owner and a screen of its own.  A     *)
(* behaviour is one migration of one `kind'.  What both promise is stated  *)
(* once, and both implement CopyPublication.                               *)
(***************************************************************************)
EXTENDS Naturals

CONSTANTS
  Source, Spare, Deps, Pins,                     \* of PackMigration
  Templates, Identity, CurseForge, Urls, Offers, \* of TemplateMigration
  MaxAttempts, MaxDecisions, MaxFaults, MaxOutside \* bounds of both

ASSUME RootAssumption ==
  /\ Source \cup Spare \cup Deps \cup Pins \subseteq Nat \ {0}
  /\ Source # {} /\ Source \cap Spare = {}
ASSUME SelectorAssumption ==
  /\ DOMAIN Identity \subseteq Nat \ {0} /\ Offers \subseteq DOMAIN Identity
  /\ \A s \in DOMAIN Identity : /\ Identity[s] \in DOMAIN Identity
                               /\ Identity[Identity[s]] = Identity[s]
ASSUME TemplatesAssumption ==
  \A t \in Templates : t.roots \in [DOMAIN t.roots -> DOMAIN Identity]
ASSUME BoundsAssumption == {MaxAttempts, MaxDecisions, MaxFaults, MaxOutside} \subseteq Nat

VARIABLES
  kind,
  session, cancel, faults, outside, \* of either
  template, disk, plan, thr, own, scr,
  target, altered, staging, staged, tree, sourceMoved, manifest, state, pub, committed, stuck,
  attempt, base, work, res, removed, replaced, locks, hold, job, pc, choice, pending, error,
  retained, published, completed, nav, forFailure, phase, preview, modal, left, released, quitting

shared == <<session, cancel, faults, outside>>
ofTemplate == <<template, disk, plan, thr, own, scr>>
ofPack == <<target, altered, staging, staged, tree, sourceMoved, manifest, state, pub, committed,
            stuck, attempt, base, work, res, removed, replaced, locks, hold, job, pc, choice,
            pending, error, retained, published, completed, nav, forFailure, phase, preview, modal,
            left, released, quitting>>
vars == <<kind, shared, ofTemplate, ofPack>>

P == INSTANCE PackMigrationScreen
T == INSTANCE TemplateMigrationScreen
-----------------------------------------------------------------------------
Unused == 0

NoTemplate ==
  /\ template = Unused /\ disk = Unused /\ plan = Unused /\ thr = Unused /\ own = Unused
  /\ scr = Unused

NoPack ==
  /\ target = Unused /\ altered = Unused /\ staging = Unused /\ staged = Unused /\ tree = Unused
  /\ sourceMoved = Unused /\ manifest = Unused /\ state = Unused /\ pub = Unused
  /\ committed = Unused /\ stuck = Unused /\ attempt = Unused /\ base = Unused /\ work = Unused
  /\ res = Unused /\ removed = Unused /\ replaced = Unused /\ locks = Unused /\ hold = Unused
  /\ job = Unused /\ pc = Unused /\ choice = Unused /\ pending = Unused /\ error = Unused
  /\ retained = Unused /\ published = Unused /\ completed = Unused /\ nav = Unused
  /\ forFailure = Unused /\ phase = Unused /\ preview = Unused /\ modal = Unused
  /\ left = Unused /\ released = Unused /\ quitting = Unused

Init ==
  \/ kind = "pack" /\ P!Init /\ NoTemplate
  \/ kind = "template" /\ T!Init /\ NoPack

OfPack == kind = "pack" /\ UNCHANGED <<kind, ofTemplate>>
OfTemplate == kind = "template" /\ UNCHANGED <<kind, ofPack>>

Next == (OfPack /\ P!Next) \/ (OfTemplate /\ T!Next)

Thread == (OfPack /\ P!WorkerStep) \/ (OfTemplate /\ T!WorkerStep)
Timer == (OfPack /\ P!Poll) \/ (OfTemplate /\ T!Poll)
Shutdown == (OfPack /\ P!Shutdown) \/ (OfTemplate /\ T!Shutdown)

(* Threads run, the shutdown that waits for them goes on, and the poll     *)
(* timer cannot be kept from finding a finished worker for ever, however   *)
(* often a key is pressed; the user owes nothing.                          *)
Spec == Init /\ [][Next]_vars /\ WF_vars(Thread \/ Shutdown) /\ SF_vars(Timer)

-----------------------------------------------------------------------------
(* Correctness *)

(* The project that was published is the one the user confirmed: it holds  *)
(* a complete resolution with the roots and fixed versions of the preview  *)
(* on the screen, whichever rounds of selection, conflict and retry came   *)
(* before; and no root or fixed version of the source disappears without   *)
(* a word.                                                                 *)
PublishedIsConfirmed ==
  /\ kind = "pack" => P!PublishedIsConfirmed
  /\ kind = "template" => T!PublishedIsConfirmed

(* The locks outlive the transaction tree and any publication whose        *)
(* outcome is not known: as long as there is something to recover, no      *)
(* other operation may work on either project.                             *)
LocksOutliveTree ==
  /\ kind = "pack" => P!LocksOutliveTree
  /\ kind = "template" => T!LocksOutliveTree

(* Published and discarded are said only when they are true and nothing is *)
(* left behind, and the application lets the owner go only then.           *)
OutcomeIsTrue ==
  /\ kind = "pack" => P!OutcomeIsTrue
  /\ kind = "template" => T!OutcomeIsTrue

(* A migration that was asked to stop comes to an end by itself: the       *)
(* screen leaves, or says that something is retained and waits for the     *)
(* user; and the application gets through its shutdown.                    *)
LeavingEnds ==
  []<>~(/\ kind = "pack" => P!Stopping
        /\ kind = "template" => T!Stopping)

(* Both implement what CopyPublication promises about the target project   *)
(* and the locks.                                                          *)
Copy == INSTANCE CopyPublication
          WITH Ours <- "ours", Foreign <- "foreign", None <- "none",
               target <- IF kind = "pack" THEN target ELSE disk.target,
               made <- (IF kind = "pack" THEN staging ELSE disk.staging) = "moved",
               held <- IF kind = "pack" THEN locks ELSE plan.locks

ImplementsCopy == Copy!Spec
=============================================================================
