----------------------------- MODULE ConfigWrite -----------------------------
(***************************************************************************)
(* How a settings command replaces one configuration file of a project     *)
(* (_write_yaml_atomic in packctl.py), step by step against the directory. *)
(*                                                                         *)
(* The command has read the file and its companion, and prepares the new   *)
(* content in a temporary file with a recovery copy next to it.  A file    *)
(* that existed is exchanged with the temporary one, a new file is renamed *)
(* onto the free name; then everything is compared with what was read, and *)
(* on any difference or error the exchange is undone by moves that never   *)
(* replace anything.  Editors and other programs do not know the project   *)
(* lock: they may edit, replace or remove the file between any two steps,  *)
(* or move the whole directory away, which the pinned descriptor follows.  *)
(*                                                                         *)
(* A file is an inode with a content; a snapshot is both.  The temporary   *)
(* file is written and read back in one step.  Nobody edits it between its *)
(* last check and its removal, which no code could notice.                 *)
(***************************************************************************)
EXTENDS Naturals

CONSTANTS Orig,      \* the configuration file, if there is one
          New,       \* the temporary file with the new content
          Copy,      \* its recovery copy
          Ext,       \* files that outside writers may bring
          NoFile,
          MaxStamp,  \* how many outside edits are explored
          MaxStops   \* how many interrupts and system errors are explored

File == {Orig, New, Copy} \cup Ext

ASSUME FileAssumption == /\ NoFile \notin File
                         /\ Orig # New /\ Orig # Copy /\ New # Copy
                         /\ {Orig, New, Copy} \cap Ext = {}
ASSUME BoundsAssumption == MaxStamp \in Nat /\ MaxStops \in Nat

(* The configuration file and the hidden files of one write. *)
Name == {"canonical", "temporary", "staged", "rollback", "exchanged"}

(* Contents: what was read, what is written, and what outsiders write.     *)
Old == 0
Fresh == 1
Content == 0..(MaxStamp + 1)

VARIABLES
  entry,      \* entry[n]: the file with that name
  content,    \* content[f]
  existed,    \* expected_snapshot.exists
  companion,  \* the companion file is no longer what was read
  moved,      \* the path no longer leads to the pinned directory
  step,       \* the next step of the write
  seen,       \* the handler's snapshot of the temporary file
  checked,    \* every check after publication has passed
  outcome,    \* how the write ended
  stops,      \* interrupts and system errors so far
  stamp,      \* outside edits so far
  dropped     \* files whose last name an outsider has taken

directory == <<entry, content, companion, moved>>
outsiders == <<stamp, dropped>>
writeVars == <<directory, existed, step, seen, checked, outcome, stops, outsiders>>

WriteTypeOK ==
  /\ entry \in [Name -> File \cup {NoFile}]
  /\ content \in [File -> Content]
  /\ existed \in BOOLEAN /\ companion \in BOOLEAN /\ moved \in BOOLEAN
  /\ step \in {"create", "copy", "guard", "publish", "checkNew", "checkOld",
               "checkCompanion", "dropTemporary", "dropStaged", "handle", "classify",
               "quarantine", "inspect", "link", "putBack", "dropRollback",
               "relink", "finally", "done"}
  /\ seen \in [file : File \cup {NoFile}, content : Content]
  /\ checked \in BOOLEAN
  /\ outcome \in {"none", "committed", "failed", "crashed"}
  /\ stops \in 0..MaxStops
  /\ stamp \in 0..MaxStamp
  /\ dropped \in SUBSET File

WriteInit ==
  /\ existed \in BOOLEAN
  /\ entry = [n \in Name |-> IF n = "canonical" /\ existed THEN Orig ELSE NoFile]
  /\ content = [f \in File |-> Old]
  /\ companion = FALSE /\ moved = FALSE
  /\ step = "create"
  /\ seen = [file |-> NoFile, content |-> Old]
  /\ checked = FALSE /\ outcome = "none" /\ stops = 0
  /\ stamp = 0 /\ dropped = {}

-----------------------------------------------------------------------------
(* Shapes shared by the steps *)

Goto(l) == step' = l
Is(n, f, c) == entry[n] = f /\ f # NoFile /\ content[f] = c

(* The target is what was read before: the same file, or still no file.    *)
AsExpected == IF existed THEN Is("canonical", Orig, Old) ELSE entry["canonical"] = NoFile

(* An exception: before publication only the finally block runs, later the *)
(* handler; inside the handler it ends the write and keeps every file.     *)
Raise ==
  CASE step \in {"create", "copy", "guard"} -> Goto("finally") /\ UNCHANGED outcome
    [] step \in {"publish", "checkNew", "checkOld", "checkCompanion",
                 "dropTemporary", "dropStaged"} -> Goto("handle") /\ UNCHANGED outcome
    [] OTHER -> Goto("done") /\ outcome' = "failed"

Goes(l) == Goto(l) /\ UNCHANGED outcome
Fails == Goto("done") /\ outcome' = "failed"

(* rename with RENAME_NOREPLACE *)
MoveOrRaise(p, q, next) ==
  \/ /\ entry[p] # NoFile /\ entry[q] = NoFile
     /\ entry' = [entry EXCEPT ![p] = NoFile, ![q] = entry[p]]
     /\ Goes(next)
  \/ /\ entry[p] = NoFile \/ entry[q] # NoFile
     /\ Raise /\ UNCHANGED entry

Unlink(n) == entry' = [entry EXCEPT ![n] = NoFile]

Same == UNCHANGED <<existed, companion, moved, stops, outsiders>>
Look == UNCHANGED <<entry, content, seen>> /\ Same

-----------------------------------------------------------------------------
(* Preparation *)

Create ==
  /\ step = "create"
  /\ \/ /\ ~moved
        /\ entry' = [entry EXCEPT !["temporary"] = New]
        /\ content' = [content EXCEPT ![New] = Fresh]
        /\ Goes("copy")
     \/ /\ moved
        /\ Fails /\ UNCHANGED <<entry, content>>
  /\ UNCHANGED <<seen, checked>> /\ Same

MakeCopy ==
  /\ step = "copy"
  /\ entry' = [entry EXCEPT !["staged"] = Copy]
  /\ content' = [content EXCEPT ![Copy] = Fresh]
  /\ Goes("guard")
  /\ UNCHANGED <<seen, checked>> /\ Same

Guard ==
  /\ step = "guard"
  /\ IF ~moved /\ ~companion /\ AsExpected THEN Goes("publish") ELSE Raise
  /\ UNCHANGED checked /\ Look

-----------------------------------------------------------------------------
(* Publication and its checks *)

(* A file that is missing by now cannot be exchanged. *)
Exchange ==
  /\ step = "publish" /\ existed
  /\ \/ /\ ~moved /\ entry["canonical"] # NoFile /\ entry["temporary"] # NoFile
        /\ entry' = [entry EXCEPT !["canonical"] = entry["temporary"],
                                  !["temporary"] = entry["canonical"]]
        /\ Goes("checkNew")
     \/ /\ moved \/ entry["canonical"] = NoFile \/ entry["temporary"] = NoFile
        /\ Raise /\ UNCHANGED entry
  /\ UNCHANGED <<content, seen, checked>> /\ Same

Place ==
  /\ step = "publish" /\ ~existed
  /\ IF moved THEN Raise /\ UNCHANGED entry
              ELSE MoveOrRaise("temporary", "canonical", "checkNew")
  /\ UNCHANGED <<content, seen, checked>> /\ Same

CheckNew ==
  /\ step = "checkNew"
  /\ IF ~moved /\ Is("canonical", New, Fresh)
     THEN Goes(IF existed THEN "checkOld" ELSE "checkCompanion") ELSE Raise
  /\ UNCHANGED checked /\ Look

(* Mutant: the file that was exchanged out is identified, not compared. *)
CheckOldFile ==
  /\ step = "checkOld"
  /\ IF entry["temporary"] = Orig THEN Goes("checkCompanion") ELSE Raise
  /\ UNCHANGED checked /\ Look

CheckOld ==
  /\ step = "checkOld"
  /\ IF Is("temporary", Orig, Old) THEN Goes("checkCompanion") ELSE Raise
  /\ UNCHANGED checked /\ Look

CheckCompanion ==
  /\ step = "checkCompanion"
  /\ IF ~companion /\ ~moved
     THEN /\ checked' = TRUE
          /\ Goes(IF existed THEN "dropTemporary" ELSE "dropStaged")
     ELSE Raise /\ UNCHANGED checked
  /\ Look

(* _cleanup_committed_config_artifacts: a file that cannot be unlinked is  *)
(* left with a warning.                                                    *)
Drop(n, l) ==
  /\ \/ Unlink(n) /\ UNCHANGED stops
     \/ stops < MaxStops /\ stops' = stops + 1 /\ UNCHANGED entry
  /\ Goto(l)
  /\ outcome' = IF l = "done" THEN "committed" ELSE outcome
  /\ UNCHANGED <<content, seen, existed, companion, moved, checked, outsiders>>

(* Mutant: the recovery copy is dropped before the original. *)
DropCopyFirst == step = "dropTemporary" /\ Drop("staged", "dropStaged")

DropTemporary == step = "dropTemporary" /\ Drop("temporary", "dropStaged")
DropStaged == step = "dropStaged" /\ Drop("staged", "done")

-----------------------------------------------------------------------------
(* The exception handlers: undo only what is surely one's own *)

(* Mutant: a failed exchange is not undone. *)
HandleKeepsBoth ==
  /\ step = "handle"
  /\ IF entry["temporary"] = New THEN Goes("finally") ELSE Fails
  /\ UNCHANGED checked /\ Look

(* Nothing is published while the temporary name still has the new file; a *)
(* missing one has been dropped by a finished exchange, or placed.         *)
Handle ==
  /\ step = "handle"
  /\ LET t == entry["temporary"]
     IN  IF t = New \/ (existed /\ t = NoFile)
         THEN Goes("finally") /\ UNCHANGED seen
         ELSE /\ Goes("classify")
              /\ seen' = [file |-> t, content |-> IF t = NoFile THEN Old ELSE content[t]]
  /\ UNCHANGED <<entry, content, checked>> /\ Same

(* classify_exchange_state: only an intact exchange is undone; a new file  *)
(* is taken back when it is still the published one.                       *)
ClassifyExchange ==
  /\ step = "classify"
  /\ IF \/ existed /\ Is("canonical", New, Fresh)
                   /\ seen = [file |-> Orig, content |-> Old]
        \/ ~existed /\ entry["canonical"] = New
     THEN Goes("quarantine") ELSE Fails
  /\ UNCHANGED checked /\ Look

Quarantine ==
  /\ step = "quarantine"
  /\ MoveOrRaise("canonical", "rollback", "inspect")
  /\ UNCHANGED <<content, seen, checked>> /\ Same

(* Mutant: whatever was moved is taken for the own file. *)
InspectNothing ==
  /\ step = "inspect"
  /\ Goes(IF existed THEN "link" ELSE "dropRollback")
  /\ UNCHANGED checked /\ Look

(* What was moved is identified by its inode. *)
Inspect ==
  /\ step = "inspect"
  /\ Goes(IF entry["rollback"] # New THEN "relink"
          ELSE IF existed THEN "link" ELSE "dropRollback")
  /\ UNCHANGED checked /\ Look

Link ==
  /\ step = "link"
  /\ IF entry["temporary"] = NoFile
     THEN Raise /\ UNCHANGED entry
     ELSE entry' = [entry EXCEPT !["exchanged"] = entry["temporary"]] /\ Goes("putBack")
  /\ UNCHANGED <<content, seen, checked>> /\ Same

PutBack ==
  /\ step = "putBack"
  /\ MoveOrRaise("temporary", "canonical", "dropRollback")
  /\ UNCHANGED <<content, seen, checked>> /\ Same

DropRollback ==
  /\ step = "dropRollback"
  /\ Unlink("rollback") /\ Fails
  /\ UNCHANGED <<content, seen, checked>> /\ Same

(* Somebody else's file was moved: it gets its name back if that is free,  *)
(* and keeps the other one.                                                *)
Relink ==
  /\ step = "relink"
  /\ entry' = IF entry["canonical"] = NoFile
              THEN [entry EXCEPT !["canonical"] = entry["rollback"]] ELSE entry
  /\ Fails
  /\ UNCHANGED <<content, seen, checked>> /\ Same

(* The finally block of a write that keeps nothing. *)
Finally ==
  /\ step = "finally"
  /\ entry' = [entry EXCEPT !["temporary"] = NoFile, !["staged"] = NoFile,
                            !["exchanged"] = NoFile]
  /\ Fails
  /\ UNCHANGED <<content, seen, checked>> /\ Same

-----------------------------------------------------------------------------
(* Interrupts, system errors and crashes *)

Stop ==
  /\ step \notin {"create", "finally", "done"}
  /\ stops < MaxStops
  /\ stops' = stops + 1
  /\ Raise
  /\ UNCHANGED <<directory, existed, seen, checked, outsiders>>

Crash ==
  /\ step # "done"
  /\ Goto("done") /\ outcome' = "crashed"
  /\ UNCHANGED <<directory, existed, seen, checked, stops, outsiders>>

-----------------------------------------------------------------------------
(* Outside writers, who reach the directory by its path *)

Bystander == UNCHANGED <<existed, step, seen, checked, outcome, stops>>
NewStamp == step # "done" /\ ~moved /\ stamp < MaxStamp /\ stamp' = stamp + 1
LastName(f) == \A n \in Name : entry[n] = f => n = "canonical"

(* What an outsider removes from the canonical name is its own loss.       *)
Takes(f) ==
  dropped' = IF f # NoFile /\ LastName(f) THEN dropped \cup {f} ELSE dropped

EditCanonical ==
  /\ entry["canonical"] # NoFile /\ NewStamp
  /\ content' = [content EXCEPT ![entry["canonical"]] = stamp + 2]
  /\ UNCHANGED <<entry, companion, moved, dropped>> /\ Bystander

Replace(x) ==
  /\ NewStamp
  /\ x \notin dropped /\ \A n \in Name : entry[n] # x
  /\ entry' = [entry EXCEPT !["canonical"] = x]
  /\ content' = [content EXCEPT ![x] = stamp + 2]
  /\ Takes(entry["canonical"])
  /\ UNCHANGED <<companion, moved>> /\ Bystander

Remove ==
  /\ entry["canonical"] # NoFile /\ NewStamp
  /\ entry' = [entry EXCEPT !["canonical"] = NoFile]
  /\ Takes(entry["canonical"])
  /\ UNCHANGED <<content, companion, moved>> /\ Bystander

EditTemporary ==
  /\ step \in {"guard", "publish", "checkNew", "checkOld", "handle"} /\ ~checked
  /\ entry["temporary"] # NoFile /\ NewStamp
  /\ content' = [content EXCEPT ![entry["temporary"]] = stamp + 2]
  /\ UNCHANGED <<entry, companion, moved, dropped>> /\ Bystander

EditCompanion ==
  /\ step # "done" /\ ~moved /\ ~companion
  /\ companion' = TRUE
  /\ UNCHANGED <<entry, content, moved, outsiders>> /\ Bystander

MoveDirectory ==
  /\ step # "done" /\ ~moved
  /\ moved' = TRUE
  /\ UNCHANGED <<entry, content, companion, outsiders>> /\ Bystander

Write == \/ Create \/ MakeCopy \/ Guard \/ Exchange \/ Place \/ CheckNew \/ CheckOld
         \/ CheckCompanion \/ DropTemporary \/ DropStaged

Undo == \/ Handle \/ ClassifyExchange \/ Quarantine \/ Inspect \/ Link \/ PutBack
        \/ DropRollback \/ Relink \/ Finally

Outside == \/ EditCanonical \/ (\E x \in Ext : Replace(x)) \/ Remove
           \/ EditTemporary \/ EditCompanion \/ MoveDirectory

WriteNext == Write \/ Undo \/ Stop \/ Crash \/ Outside

WriteSpec == WriteInit /\ [][WriteNext]_writeVars

-----------------------------------------------------------------------------
(* Correctness *)

HasName(f) == \E n \in Name : entry[n] = f

(* No file is ever lost: the original, until the new one has passed every  *)
(* check, and every file an outside writer brings keep a name in the       *)
(* directory, unless an outside writer itself took their last one; and a   *)
(* failed write that leaves the original under a recovery name leaves the  *)
(* configuration that was to be written as well.                           *)
NothingLost ==
  /\ WriteTypeOK
  /\ existed /\ ~checked /\ Orig \notin dropped => HasName(Orig)
  /\ \A x \in Ext \ dropped : content[x] # Old => HasName(x)
  /\ step = "done" /\ outcome = "failed"
     /\ (\E n \in {"temporary", "exchanged"} : entry[n] = Orig)
     => entry["staged"] = Copy

(* All or nothing: a write is committed only over the very file and        *)
(* content that was read before (no update is lost); when no outside       *)
(* writer touches the file, the write ends with the new file in place or,  *)
(* after a conflict, an interrupt or one system error, with the old state; *)
(* an interrupt while the write tidies up after its last check may find it *)
(* complete.                                                               *)
Untouched == stamp = 0
OneFault == stops = 0 \/ (stops = 1 /\ ~companion /\ ~moved)
AllOrNothing ==
  /\ existed /\ (step \in {"dropTemporary", "dropStaged"} \/ outcome = "committed") =>
       entry["temporary"] \in {NoFile, Orig} /\ content[Orig] = Old
  /\ step = "done" /\ Untouched /\ OneFault =>
       /\ outcome = "committed" => entry["canonical"] = New
       /\ outcome = "failed" =>
            \/ entry["canonical"] = IF existed THEN Orig ELSE NoFile
            \/ checked /\ entry["canonical"] = New
=============================================================================
