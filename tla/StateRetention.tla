--------------------------- MODULE StateRetention ---------------------------
(***************************************************************************)
(* Retained state and its clean-up (packctl.py: classify_state,            *)
(* clean_state, trash_project, restore_trash, purge_trash) next to live    *)
(* transactions.                                                           *)
(*                                                                         *)
(* clean_state first lists everything under .huroshiki, asking for each    *)
(* transaction directory whether the project it belongs to is locked, and  *)
(* then deletes item by item, taking the project lock of an item that has  *)
(* one.  Which project a directory belongs to is read from its name or     *)
(* from the plan.json inside, not remembered anywhere, and there are       *)
(* directories of each sort:                                               *)
(*   named    pack-<id>-<random>: the name gives the locked project        *)
(*   planned  the name does not, a plan.json written late does             *)
(*            (pack-<source>-to-<target>-<random>)                         *)
(*   unnamed  neither does (template-copy-<hex>, publish-transfer)         *)
(*                                                                         *)
(* The specification's names are its own (RetentionSpec, Nil, ...), so     *)
(* that a module may extend this one together with ProjectLocks.           *)
(***************************************************************************)
EXTENDS Naturals

CONSTANTS Project,    \* project keys
          Dir,        \* transaction directories that may come to exist
          Sort,       \* Sort[d]: "named", "planned" or "unnamed"
          ProjectOf,  \* ProjectOf[d]: the project its transaction locks
          MaxTrash,   \* how many times a project is moved to the trash
          Nil,        \* no owner, no item
          Cleaner     \* the clean-up, as an owner of locks

ASSUME SortAssumption == /\ Sort \in [Dir -> {"named", "planned", "unnamed"}]
                         /\ ProjectOf \in [Dir -> Project]
ASSUME TrashAssumption == MaxTrash \in Nat
ASSUME NamesAssumption == /\ {Cleaner, Nil} \cap Dir = {}
                          /\ Nil # Cleaner

VARIABLES
  lock,      \* lock[p]: who holds the project lock of p
  dir,       \* dir[d]: the transaction directory d
  plan,      \* plan[d]: plan.json has been written in d
  home,      \* home[p]: Root, the number of its trash entry, or Gone
  entries,   \* entries[p]: how often p has been moved to the trash
  todo,      \* what classify_state has still to look at
  picked,    \* candidates found so far
  target,    \* the item being removed, under its project lock if it has one
  cpc,       \* the next step of the clean-up
  finds      \* trash operations that have found their entry

transactions == <<dir, plan>>
trash == <<home, entries, finds>>
cleanup == <<todo, picked, target, cpc>>
retentionVars == <<lock, transactions, trash, cleanup>>

Root == 0
Gone == MaxTrash + 1
InTrash(p) == home[p] \in 1..MaxTrash

TrashPath == Project \X (1..MaxTrash)
Item == Dir \cup TrashPath

RetentionTypeOK ==
  /\ lock \in [Project -> Dir \cup {Nil, Cleaner}]
  /\ dir \in [Dir -> {"absent", "open", "marked", "leftover", "completed", "removed"}]
  /\ plan \in [Dir -> BOOLEAN]
  /\ home \in [Project -> Root..Gone]
  /\ entries \in [Project -> 0..MaxTrash]
  /\ todo \in SUBSET Item /\ picked \in SUBSET Item
  /\ target \in Item \cup {Nil}
  /\ cpc \in {"idle", "classify", "select", "remove", "delete"}
  /\ finds \in SUBSET [kind : {"restore", "purge"}, path : TrashPath]

RetentionInit ==
  /\ lock = [p \in Project |-> Nil]
  /\ dir = [d \in Dir |-> "absent"]
  /\ plan = [d \in Dir |-> FALSE]
  /\ home = [p \in Project |-> Root]
  /\ entries = [p \in Project |-> 0]
  /\ todo = {} /\ picked = {} /\ target = Nil
  /\ cpc = "idle" /\ finds = {}

-----------------------------------------------------------------------------
(* Transactions: the lock before the directory, the marker before the      *)
(* lock is released.                                                       *)

Live(d) == dir[d] \in {"open", "marked"}

Open(d) ==
  /\ dir[d] = "absent"
  /\ lock[ProjectOf[d]] = Nil /\ home[ProjectOf[d]] = Root
  /\ lock' = [lock EXCEPT ![ProjectOf[d]] = d]
  /\ dir' = [dir EXCEPT ![d] = "open"]
  /\ UNCHANGED <<plan, trash, cleanup>>

WritePlan(d) ==
  /\ dir[d] = "open" /\ Sort[d] = "planned" /\ ~plan[d]
  /\ plan' = [plan EXCEPT ![d] = TRUE]
  /\ UNCHANGED <<lock, dir, trash, cleanup>>

(* _finish_state touches .completed. *)
Mark(d) ==
  /\ dir[d] = "open"
  /\ dir' = [dir EXCEPT ![d] = "marked"]
  /\ UNCHANGED <<lock, plan, trash, cleanup>>

(* The lock is released, by the end of the transaction, a discard that     *)
(* keeps the directory, an owner that removes it, or the owner's death.    *)
Close(d) ==
  /\ Live(d)
  /\ lock' = [lock EXCEPT ![ProjectOf[d]] = Nil]
  /\ \/ dir' = [dir EXCEPT ![d] = IF dir[d] = "marked" THEN "completed" ELSE "leftover"]
     \/ dir' = [dir EXCEPT ![d] = "removed"]
  /\ UNCHANGED <<plan, trash, cleanup>>

-----------------------------------------------------------------------------
(* Trash *)

(* Mutant: a project is moved to the trash without its lock. *)
TrashUnlocked(p) ==
  /\ home[p] = Root /\ entries[p] < MaxTrash
  /\ entries' = [entries EXCEPT ![p] = @ + 1]
  /\ home' = [home EXCEPT ![p] = entries[p] + 1]
  /\ UNCHANGED <<lock, transactions, finds, cleanup>>

(* trash_project: one rename under the project lock. *)
TrashProject(p) ==
  /\ lock[p] = Nil /\ home[p] = Root /\ entries[p] < MaxTrash
  /\ entries' = [entries EXCEPT ![p] = @ + 1]
  /\ home' = [home EXCEPT ![p] = entries[p] + 1]
  /\ UNCHANGED <<lock, transactions, finds, cleanup>>

(* restore_trash and purge_trash find the entry before they have the lock. *)
FindEntry(p) ==
  /\ InTrash(p)
  /\ \E kind \in {"restore", "purge"} :
       finds' = finds \cup {[kind |-> kind, path |-> <<p, home[p]>>]}
  /\ UNCHANGED <<lock, transactions, home, entries, cleanup>>

(* Mutant: the entry found before the lock is trusted. *)
UseStaleEntry(t) ==
  /\ t \in finds /\ lock[t.path[1]] = Nil
  /\ home' = [home EXCEPT ![t.path[1]] = IF t.kind = "restore" THEN Root ELSE Gone]
  /\ finds' = finds \ {t}
  /\ UNCHANGED <<lock, transactions, entries, cleanup>>

(* Under the lock the path is looked at again: an entry that has left the  *)
(* trash meanwhile makes the operation fail.                               *)
UseEntry(t) ==
  /\ t \in finds /\ lock[t.path[1]] = Nil
  /\ home' = IF home[t.path[1]] = t.path[2]
             THEN [home EXCEPT ![t.path[1]] = IF t.kind = "restore" THEN Root ELSE Gone]
             ELSE home
  /\ finds' = finds \ {t}
  /\ UNCHANGED <<lock, transactions, entries, cleanup>>

EntryBusy(t) ==
  /\ t \in finds /\ lock[t.path[1]] # Nil
  /\ finds' = finds \ {t}
  /\ UNCHANGED <<lock, transactions, home, entries, cleanup>>

-----------------------------------------------------------------------------
(* Clean-up *)

Exists(i) == IF i \in Dir THEN dir[i] \notin {"absent", "removed"}
                          ELSE home[i[1]] = i[2]

(* The projects _transaction_active asks about; a trash entry has its own. *)
Named(i) == IF i \notin Dir THEN {i[1]}
            ELSE IF Sort[i] = "named" THEN {ProjectOf[i]} ELSE {}
(* Mutant: plan.json is not read. *)
KnownByName(i) == Named(i)

Known(i) == Named(i) \cup IF i \in Dir /\ Sort[i] = "planned" /\ plan[i]
                          THEN {ProjectOf[i]} ELSE {}

Inactive(i) == \A p \in Known(i) : lock[p] = Nil

BeginCleanup ==
  /\ cpc = "idle"
  /\ todo' = {i \in Item : Exists(i)} /\ picked' = {}
  /\ cpc' = "classify"
  /\ UNCHANGED <<lock, transactions, trash, target>>

(* Retention days, --keep and --project decide which inactive items are    *)
(* candidates: any may be.                                                 *)
Classify ==
  /\ cpc = "classify" /\ todo # {}
  /\ \E i \in todo :
       /\ todo' = todo \ {i}
       /\ \/ UNCHANGED picked
          \/ /\ Exists(i) /\ Inactive(i)
             /\ picked' = picked \cup {i}
  /\ UNCHANGED <<lock, transactions, trash, target, cpc>>

(* A dry run ends here.  An applying run goes on, or stops because the     *)
(* candidates are not the ones the user confirmed after an earlier run.    *)
Select ==
  /\ cpc = "classify" /\ todo = {}
  /\ \/ cpc' = "remove" /\ UNCHANGED picked
     \/ cpc' = "idle" /\ picked' = {}
  /\ UNCHANGED <<lock, transactions, trash, todo, target>>

(* The lock of an item whose name tells the project; a busy one is skipped. *)
Lock(i) ==
  /\ cpc = "remove" /\ i \in picked
  /\ picked' = picked \ {i}
  /\ \/ /\ \A p \in Named(i) : lock[p] = Nil
        /\ lock' = [p \in Project |-> IF p \in Named(i) THEN Cleaner ELSE lock[p]]
        /\ target' = i
        /\ cpc' = "delete"
     \/ /\ \E p \in Named(i) : lock[p] # Nil
        /\ UNCHANGED <<lock, target, cpc>>
  /\ UNCHANGED <<transactions, trash, todo>>

(* rmtree of whatever is at the path now, then the lock. *)
Delete ==
  /\ cpc = "delete"
  /\ dir' = IF target \in Dir /\ Exists(target)
            THEN [dir EXCEPT ![target] = "removed"] ELSE dir
  /\ home' = IF target \notin Dir /\ Exists(target)
             THEN [home EXCEPT ![target[1]] = Gone] ELSE home
  /\ lock' = [p \in Project |-> IF p \in Named(target) THEN Nil ELSE lock[p]]
  /\ target' = Nil
  /\ cpc' = "remove"
  /\ UNCHANGED <<plan, entries, finds, todo, picked>>

EndCleanup ==
  /\ cpc = "remove" /\ picked = {}
  /\ cpc' = "idle"
  /\ UNCHANGED <<lock, transactions, trash, todo, picked, target>>

RetentionNext ==
  \/ \E d \in Dir : Open(d) \/ WritePlan(d) \/ Mark(d) \/ Close(d)
  \/ \E p \in Project : TrashProject(p) \/ FindEntry(p)
  \/ \E t \in finds : UseEntry(t) \/ EntryBusy(t)
  \/ BeginCleanup \/ Classify \/ Select \/ Delete \/ EndCleanup
  \/ \E i \in Item : Lock(i)

RetentionSpec == RetentionInit /\ [][RetentionNext]_retentionVars

-----------------------------------------------------------------------------
(* Correctness *)

(* Clean-up and purge destroy leftovers only.  A live transaction is safe  *)
(* when its directory tells the project: no listing selects one whose name *)
(* or plan.json does, and one whose name does is not removed either,       *)
(* however old the listing is.  A project goes only out of the trash: one  *)
(* that was restored after it was listed survives, its new trash entry as  *)
(* well.                                                                   *)
OnlyLeftoversGo ==
  [][/\ \A d \in Dir : Live(d) =>
          /\ d \in picked' \ picked => Named(d) = {} /\ ~plan[d]
          /\ dir'[d] = "removed" /\ lock'[ProjectOf[d]] = d => Named(d) = {}
     /\ \A p \in Project : home'[p] = Gone /\ home[p] # Gone =>
          /\ InTrash(p)
          /\ \/ \E t \in finds \ finds' : t.kind = "purge" /\ t.path = <<p, home[p]>>
             \/ target = <<p, home[p]>>]_retentionVars

(* A project stays at its path while a transaction works on it: it is not  *)
(* moved to the trash under a transaction, nor purged, nor is its path     *)
(* taken by a restore.                                                     *)
ProjectStays == RetentionTypeOK /\ \A d \in Dir : Live(d) => home[ProjectOf[d]] = Root
=============================================================================
