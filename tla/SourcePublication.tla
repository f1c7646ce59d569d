------------------------- MODULE SourcePublication -------------------------
(***************************************************************************)
(* How a PackTransaction replaces packs/<id>/source (huroshiki_core.py:    *)
(* create, apply, _apply, discard), step by step against the filesystem.   *)
(*                                                                         *)
(* The transaction copies the real source, works on the copy, and swaps    *)
(* the two directories with renames.  The project lock keeps out other     *)
(* transactions, not editors, shells and git: an outside writer may edit,  *)
(* remove or replace a directory between any two steps, and the process    *)
(* may be interrupted or die between any two steps.  The code notices by   *)
(* comparing inodes and digests, and then tries to put the original back.  *)
(*                                                                         *)
(* A directory is an inode with a content; the digests the code compares   *)
(* are equal exactly when the contents are.  Directories are not empty, so *)
(* a rename onto an occupied name fails.                                   *)
(***************************************************************************)
EXTENDS Naturals

CONSTANTS Orig,        \* the directory at the real path before anything runs
          Stage,       \* the directory the transaction creates
          Ext,         \* directories an outside writer may bring
          None,        \* no directory
          MaxStamp,    \* how many distinct outside edits are explored
          MaxStops     \* how many interrupts and cancellations are explored

Dir == {Orig, Stage} \cup Ext

ASSUME DirAssumption == /\ Orig # Stage /\ {Orig, Stage} \cap Ext = {}
                        /\ None \notin Dir
ASSUME BoundsAssumption == MaxStamp \in Nat /\ MaxStops \in Nat

(* real: packs/<id>/source.  The others are in the transaction directory:  *)
(* source, replaced-source and failed-staged-source.                       *)
Place == {"real", "staged", "backup", "failed"}

VARIABLES
  at,        \* at[p]: the directory at place p
  content,   \* content[d]: content of d; the copy carries that of its source
  config,    \* content of pack.yaml and pack.local.yaml
  stamp,     \* the last content number used by an outside writer
  seen,      \* Orig and the directories outside writers put at the real path
  taken,     \* directories an outside writer moved away
  base,      \* real_source_baseline and pack_config_baseline
  pin,       \* inodes remembered: staged_metadata and original_metadata
  step,      \* the next step of the transaction
  level,     \* does an exception reach the handler of _apply or its caller
  outcome,   \* how the last apply ended
  stops,     \* interrupts and cancellations so far
  cleaned    \* state cleanup removed the transaction directory

fs == <<at, content, config, stamp, seen, taken>>
publicationVars == <<fs, base, pin, step, level, outcome, stops, cleaned>>

Phase == {"idle", "copy", "copied", "verify", "open", "pinReal", "compare",
          "move", "checkBackup", "checkStaged", "install", "checkInstalled",
          "restore", "putBack", "rollback", "setAside", "checkAside",
          "except", "finish", "done", "discarded", "refused", "crashed"}

(* The project lock is free again. *)
Ended == {"done", "discarded", "refused", "crashed"}

TypeOK == /\ at \in [Place -> Dir \cup {None}]
          /\ content \in [Dir -> 0..MaxStamp]
          /\ config \in 0..MaxStamp
          /\ stamp \in 0..MaxStamp
          /\ seen \in SUBSET Dir
          /\ taken \in SUBSET Dir
          /\ base \in [source : 0..MaxStamp, config : 0..MaxStamp]
          /\ pin \in [staged : Dir \cup {None}, real : Dir \cup {None}]
          /\ step \in Phase
          /\ level \in {"try", "handler"}
          /\ outcome \in {"none", "failed", "published"}
          /\ stops \in 0..MaxStops
          /\ cleaned \in BOOLEAN

PublicationInit ==
  /\ at = [p \in Place |-> IF p = "real" THEN Orig ELSE None]
  /\ content = [d \in Dir |-> 0]
  /\ config = 0
  /\ stamp = 0
  /\ seen = {Orig}
  /\ taken = {}
  /\ base = [source |-> 0, config |-> 0]
  /\ pin = [staged |-> None, real |-> None]
  /\ step = "idle"
  /\ level = "try"
  /\ outcome = "none"
  /\ stops = 0
  /\ cleaned = FALSE

-----------------------------------------------------------------------------
(* Shapes shared by the steps *)

CanRename(p, q) == at[p] # None /\ at[q] = None
Renamed(p, q) == [at EXCEPT ![p] = None, ![q] = at[p]]

Goto(l) == step' = l
Keep == UNCHANGED <<fs, base, pin, level, outcome, stops, cleaned>>

(* An exception: inside the try block of _apply it reaches the handler,    *)
(* raised by the handler it ends apply; the transaction stays open.        *)
Raise == IF level = "try" THEN /\ step' = "except" /\ UNCHANGED outcome
                          ELSE /\ step' = "open" /\ outcome' = "failed"

MoveOrRaise(p, q, next) ==
  \/ /\ CanRename(p, q)
     /\ at' = Renamed(p, q) /\ Goto(next) /\ UNCHANGED outcome
  \/ /\ ~CanRename(p, q)
     /\ Raise /\ UNCHANGED at

(* The source and the configuration are still what the transaction saw. *)
Unchanged(d) == content[d] = base.source /\ config = base.config

-----------------------------------------------------------------------------
(* create: the baseline, the copy, and the check that nothing moved *)

Snapshot ==
  /\ step = "idle"
  /\ IF at["real"] = None
     THEN Goto("refused") /\ UNCHANGED base
     ELSE /\ base' = [source |-> content[at["real"]], config |-> config]
          /\ Goto("copy")
  /\ UNCHANGED <<fs, pin, level, outcome, stops, cleaned>>

Copy ==
  /\ step = "copy"
  /\ IF at["real"] = None \/ at["staged"] # None
     THEN Goto("refused") /\ UNCHANGED <<at, content, pin>>
     ELSE /\ at' = [at EXCEPT !["staged"] = Stage]
          /\ content' = [content EXCEPT ![Stage] = content[at["real"]]]
          /\ pin' = [pin EXCEPT !.real = at["real"]]
          /\ Goto("copied")
  /\ UNCHANGED <<config, stamp, seen, taken, base, level, outcome, stops, cleaned>>

(* A failed create removes the transaction directory. *)
DropTransaction == at' = [at EXCEPT !["staged"] = None]

(* copy_transaction_source compares inodes and digests once more. *)
CheckCopy ==
  /\ step = "copied"
  /\ IF /\ at["real"] = pin.real /\ at["staged"] = Stage
        /\ content[pin.real] = content[Stage]
     THEN Goto("verify") /\ UNCHANGED at
     ELSE Goto("refused") /\ DropTransaction
  /\ UNCHANGED <<content, config, stamp, seen, taken, base, pin, level, outcome,
                 stops, cleaned>>

Verify ==
  /\ step = "verify"
  /\ IF /\ at["real"] # None /\ at["staged"] # None
        /\ Unchanged(at["real"]) /\ content[at["staged"]] = base.source
     THEN Goto("open") /\ UNCHANGED at
     ELSE Goto("refused") /\ DropTransaction
  /\ UNCHANGED <<content, config, stamp, seen, taken, base, pin, level, outcome,
                 stops, cleaned>>

-----------------------------------------------------------------------------
(* _apply: pin both directories, compare, swap, verify *)

(* ensure_active, the free backup name and the pinned staged directory. *)
BeginApply ==
  /\ step = "open"
  /\ at["staged"] # None /\ at["backup"] = None
  /\ pin' = [staged |-> at["staged"], real |-> None]
  /\ level' = "try"
  /\ outcome' = "none"
  /\ Goto("pinReal")
  /\ UNCHANGED <<fs, base, stops, cleaned>>

PinReal ==
  /\ step = "pinReal"
  /\ IF at["real"] = None
     THEN Raise /\ UNCHANGED pin
     ELSE /\ pin' = [pin EXCEPT !.real = at["real"]]
          /\ Goto("compare") /\ UNCHANGED outcome
  /\ UNCHANGED <<fs, base, level, stops, cleaned>>

Compare ==
  /\ step = "compare"
  /\ IF Unchanged(pin.real) THEN Goto("move") /\ UNCHANGED outcome ELSE Raise
  /\ UNCHANGED <<fs, base, pin, level, stops, cleaned>>

(* real_source.rename(backup): moves whatever is at the path by now. *)
MoveOriginal ==
  /\ step = "move"
  /\ MoveOrRaise("real", "backup", "checkBackup")
  /\ UNCHANGED <<content, config, stamp, seen, taken, base, pin, level, stops, cleaned>>

(* Mutant: the moved directory is identified, its content is not compared. *)
CheckBackupInode ==
  /\ step = "checkBackup"
  /\ Goto(IF at["backup"] = pin.real THEN "checkStaged" ELSE "restore")
  /\ Keep

CheckBackup ==
  /\ step = "checkBackup"
  /\ Goto(IF at["backup"] = pin.real /\ Unchanged(at["backup"])
          THEN "checkStaged" ELSE "restore")
  /\ Keep

CheckStaged ==
  /\ step = "checkStaged"
  /\ IF at["staged"] = None
     THEN Raise /\ UNCHANGED <<fs, base, pin, level, stops, cleaned>>
     ELSE /\ Goto(IF at["staged"] = pin.staged THEN "install" ELSE "restore")
          /\ Keep

(* source.rename(real_source) *)
Install ==
  /\ step = "install"
  /\ MoveOrRaise("staged", "real", "checkInstalled")
  /\ UNCHANGED <<content, config, stamp, seen, taken, base, pin, level, stops, cleaned>>

CheckInstalled ==
  /\ step = "checkInstalled"
  /\ IF at["real"] = pin.staged
     THEN Goto("finish") /\ outcome' = "published"
     ELSE Goto("rollback") /\ UNCHANGED outcome
  /\ UNCHANGED <<fs, base, pin, level, stops, cleaned>>

(* _finish_state: the marker and the lock; releasing the lock may fail,    *)
(* and then apply raises although the source is published.                 *)
Finish ==
  /\ step = "finish"
  /\ Goto("done") \/ Goto("open")
  /\ Keep

-----------------------------------------------------------------------------
(* The exception handler of _apply, rollback and restore *)

(* Mutant: an exception between the two renames is not rolled back. *)
HandleNoRollback ==
  /\ step = "except"
  /\ level' = "handler"
  /\ Goto("open") /\ outcome' = "failed"
  /\ UNCHANGED <<fs, base, pin, stops, cleaned>>

Handle ==
  /\ step = "except"
  /\ level' = "handler"
  /\ IF at["backup"] = None
     THEN Goto("open") /\ outcome' = "failed"
     ELSE Goto("rollback") /\ UNCHANGED outcome
  /\ UNCHANGED <<fs, base, pin, stops, cleaned>>

(* _rollback_source_publication: only the staged directory is set aside,   *)
(* an outside directory at the real path stays where it is.                *)
Rollback ==
  /\ step = "rollback"
  /\ CASE at["real"] = None -> Goto("restore") /\ UNCHANGED outcome
       [] at["real"] = pin.staged /\ at["failed"] = None ->
            Goto("setAside") /\ UNCHANGED outcome
       [] OTHER -> Raise
  /\ UNCHANGED <<fs, base, pin, level, stops, cleaned>>

(* real_source.rename(failed_staged) *)
SetAside ==
  /\ step = "setAside"
  /\ MoveOrRaise("real", "failed", "checkAside")
  /\ UNCHANGED <<content, config, stamp, seen, taken, base, pin, level, stops, cleaned>>

(* If an outside directory was moved by mistake it is renamed back, unless *)
(* the path is occupied again; both ways the rollback gives up.            *)
CheckAside ==
  /\ step = "checkAside"
  /\ IF at["failed"] = pin.staged
     THEN Goto("restore") /\ UNCHANGED <<at, outcome>>
     ELSE /\ Raise
          /\ at' = IF CanRename("failed", "real") THEN Renamed("failed", "real")
                                                  ELSE at
  /\ UNCHANGED <<content, config, stamp, seen, taken, base, pin, level, stops, cleaned>>

(* Mutant: whatever is called the backup is restored. *)
RestoreAnything ==
  /\ step = "restore"
  /\ IF at["backup"] # None /\ at["real"] = None
     THEN Goto("putBack") /\ UNCHANGED outcome ELSE Raise
  /\ UNCHANGED <<fs, base, pin, level, stops, cleaned>>

(* _restore_source_backup: the exact original, and onto a free path only. *)
Restore ==
  /\ step = "restore"
  /\ IF at["backup"] = pin.real /\ at["real"] = None
     THEN Goto("putBack") /\ UNCHANGED outcome ELSE Raise
  /\ UNCHANGED <<fs, base, pin, level, stops, cleaned>>

(* backup.rename(real_source); apply fails in any case. *)
PutBack ==
  /\ step = "putBack"
  /\ Raise
  /\ at' = IF CanRename("backup", "real") THEN Renamed("backup", "real") ELSE at
  /\ UNCHANGED <<content, config, stamp, seen, taken, base, pin, level, stops, cleaned>>

(* KeyboardInterrupt, cancellation or the deadline between two steps.  In  *)
(* the handler itself it ends apply before anything was put back.          *)
Stop ==
  /\ step \in {"pinReal", "compare", "move", "checkBackup", "checkStaged",
               "install", "checkInstalled", "restore", "putBack", "rollback",
               "setAside", "checkAside", "except"}
  /\ stops < MaxStops
  /\ stops' = stops + 1
  /\ IF step = "except" THEN Goto("open") /\ outcome' = "failed" ELSE Raise
  /\ UNCHANGED <<fs, base, pin, level, cleaned>>

-----------------------------------------------------------------------------
(* The end of the transaction *)

(* Mutant: discard removes the transaction directory. *)
DiscardRemoves ==
  /\ step = "open"
  /\ at' = [p \in Place |-> IF p = "real" THEN at[p] ELSE None]
  /\ Goto("discarded")
  /\ UNCHANGED <<content, config, stamp, seen, taken, base, pin, level, outcome,
                 stops, cleaned>>

(* discard releases the lock and leaves every directory where it is. *)
Discard ==
  /\ step = "open"
  /\ Goto("discarded") /\ Keep

(* The process dies; the kernel frees the lock. *)
Crash ==
  /\ step \notin Ended
  /\ Goto("crashed") /\ Keep

(* Much later, clean-huroshiki-state removes the transaction directory. *)
CleanState ==
  /\ step \in Ended /\ ~cleaned
  /\ cleaned' = TRUE
  /\ at' = [p \in Place |-> IF p = "real" THEN at[p] ELSE None]
  /\ UNCHANGED <<content, config, stamp, seen, taken, base, pin, step, level, outcome, stops>>

-----------------------------------------------------------------------------
(* Outside writers: they edit the real source in place, move a directory   *)
(* away, bring another one, and edit the pack configuration.               *)

Reachable == {"real", "staged"}
NewStamp == stamp < MaxStamp /\ stamp' = stamp + 1
Bystanders == UNCHANGED <<base, pin, step, level, outcome, stops, cleaned>>

EditSource ==
  /\ at["real"] # None
  /\ NewStamp
  /\ content' = [content EXCEPT ![at["real"]] = stamp + 1]
  /\ UNCHANGED <<at, config, seen, taken>> /\ Bystanders

EditConfig ==
  /\ NewStamp
  /\ config' = stamp + 1
  /\ UNCHANGED <<at, content, seen, taken>> /\ Bystanders

TakeAway(p) ==
  /\ at[p] # None
  /\ taken' = taken \cup {at[p]}
  /\ at' = [at EXCEPT ![p] = None]
  /\ UNCHANGED <<content, config, stamp, seen>> /\ Bystanders

Bring(p, x) ==
  /\ at[p] = None
  /\ step \in {"idle", "refused"} => p = "real"
  /\ x \notin taken /\ \A q \in Place : at[q] # x
  /\ ~cleaned
  /\ NewStamp
  /\ at' = [at EXCEPT ![p] = x]
  /\ content' = [content EXCEPT ![x] = stamp + 1]
  /\ seen' = IF p = "real" THEN seen \cup {x} ELSE seen
  /\ UNCHANGED <<config, taken>> /\ Bystanders

Outside == \/ EditSource \/ EditConfig
           \/ \E p \in Reachable : TakeAway(p) \/ \E x \in Ext : Bring(p, x)

Publish == \/ Snapshot \/ Copy \/ CheckCopy \/ Verify
           \/ BeginApply \/ PinReal \/ Compare \/ MoveOriginal \/ CheckBackup
           \/ CheckStaged \/ Install \/ CheckInstalled \/ Finish

Undo == Handle \/ Rollback \/ SetAside \/ CheckAside \/ Restore \/ PutBack

PublicationNext == Publish \/ Undo \/ Stop \/ Discard \/ Crash \/ CleanState \/ Outside

PublicationSpec == PublicationInit /\ [][PublicationNext]_publicationVars
-----------------------------------------------------------------------------
(* Correctness *)

(* Nothing that was ever the source of the pack is destroyed or misplaced  *)
(* by the transaction, whatever interleaves, fails or dies: the original   *)
(* is at its path or is the backup, a directory of an outside writer is at *)
(* the path or kept in the transaction directory.  Only later state        *)
(* cleanup removes retained directories.                                   *)
NothingLost ==
  ~cleaned =>
    /\ Orig \in taken \/ \E p \in {"real", "backup"} : at[p] = Orig
    /\ \A x \in seen \ taken : \E p \in {"real", "backup", "failed"} : at[p] = x

(* No lost update: what a publication replaced is the pinned directory     *)
(* with the very content the transaction was derived from; an edit made    *)
(* through the real path meanwhile makes apply fail.                       *)
ReplacedIsBaseline ==
  step \in {"install", "checkInstalled", "finish", "done"} /\ ~cleaned =>
    /\ at["backup"] = pin.real
    /\ content[at["backup"]] = base.source

Undisturbed == stamp = 0 /\ taken = {}

(* All or nothing: without outside writers, apply either swaps the two     *)
(* directories or, on any error and for one interrupt at any step, leaves  *)
(* the original at the real path and no backup behind.                     *)
AllOrNothing ==
  Undisturbed =>
    /\ outcome = "published" =>
         at["real"] = Stage /\ (cleaned \/ at["backup"] = Orig)
    /\ step \in {"open", "discarded"} /\ outcome # "published" /\ stops <= 1 =>
         at["real"] = Orig /\ at["backup"] = None

(* A rollback never puts anything but the pinned original at the real      *)
(* path, and only when the path is free.                                   *)
RestoresOnlyTheOriginal ==
  [][(at["backup"] # None /\ at'["backup"] = None /\ ~cleaned') =>
       at["backup"] = pin.real /\ at["real"] = None /\ at'["real"] = pin.real]_publicationVars
=============================================================================
