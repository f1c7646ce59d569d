-------------------------- MODULE CopyPublication ---------------------------
(***************************************************************************)
(* What a copy migration promises about packs/<target>: the new project    *)
(* appears there in one step, whole, at most once, never over something    *)
(* that is already there, and only while the migration holds both project  *)
(* locks; once the locks are given up nothing happens any more.            *)
(***************************************************************************)
CONSTANTS Ours,     \* the directory the migration makes
          Foreign,  \* a directory somebody else makes
          None      \* no directory

VARIABLES target,   \* what is at packs/<target>
          made,     \* the migration has published
          held      \* the migration holds the project locks

vars == <<target, made, held>>

Init == target = None /\ made = FALSE /\ held = FALSE

Acquire == ~held /\ ~made /\ held' = TRUE /\ UNCHANGED <<target, made>>

Publish ==
  /\ held /\ ~made /\ target = None
  /\ target' = Ours /\ made' = TRUE
  /\ UNCHANGED held

Release == held /\ held' = FALSE /\ UNCHANGED <<target, made>>

(* Programs that take no lock may create, remove or replace the directory. *)
Outside ==
  /\ target' \in {None, Foreign}
  /\ UNCHANGED <<made, held>>

Next == Acquire \/ Publish \/ Release \/ Outside

Spec == Init /\ [][Next]_vars
=============================================================================
