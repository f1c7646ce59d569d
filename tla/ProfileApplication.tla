------------------------- MODULE ProfileApplication -------------------------
(***************************************************************************)
(* Applying profiles to a Pack from the command line (huroshiki_core.py:   *)
(* apply_profiles, _apply_exact_profiles, _apply_profile_entry).           *)
(*                                                                         *)
(* A profile is a list of MODs, some with an exact version, some of those  *)
(* only as dependencies.  The selected profiles are one transaction: with  *)
(* an exact version among them, or a version override in the Pack, the     *)
(* whole graph is rebuilt, otherwise the entries are merged one by one.    *)
(***************************************************************************)
EXTENDS ExactGraph

CONSTANTS Packs,      \* the Packs one may start from
          Selections, \* sequences of entries [mod, scope, exact, side]
          MaxFaults   \* bound on failing steps and on changes by Packwiz

VARIABLES tx,    \* the transaction: [state, start, real, staged]
          apply, \* the operation: [pc, entries, error, graph]
          faults

profileVars == <<tx, apply, faults>>

Idle == [pc |-> "create", entries |-> <<>>, done |-> 0, error |-> FALSE, task |-> <<>>,
         graph |-> <<>>]

Init ==
  /\ \E p \in Packs : tx = [state |-> "none", start |-> p, real |-> p, staged |-> p]
  /\ \E e \in Selections : apply = [Idle EXCEPT !.entries = e]
  /\ faults = 0

Fault == faults < MaxFaults /\ faults' = faults + 1
NoFault == UNCHANGED faults
Goes(pc) == apply' = [apply EXCEPT !.pc = pc]
Raises == apply' = [apply EXCEPT !.pc = "finally", !.error = TRUE]

Entries == ToSet(apply.entries)
AskedExactly == {e \in Entries : e.exact # 0}
AskedRoots == {e \in Entries : e.scope = "root"}
Pinned(pack) == {m \in Ids : pack.pin[m] # 0}

ExactMode == (\E e \in Entries : e.exact # 0 \/ e.scope = "dependency") \/ Pinned(tx.staged) # {}

Create ==
  /\ apply.pc = "create"
  /\ \/ /\ tx' = [tx EXCEPT !.state = "active"] /\ NoFault
        /\ Goes(IF ExactMode THEN "collect" ELSE "entries")
     \/ Fault /\ Raises /\ UNCHANGED tx

(* Cancelled, past the deadline, or a process that failed. *)
Interrupted ==
  /\ apply.pc \in {"collect", "stage", "refresh", "check", "entries", "apply"}
  /\ Fault /\ Raises
  /\ UNCHANGED tx

-----------------------------------------------------------------------------
(* With exact versions *)

(* The roots are taken from the manifest only when it agrees with the      *)
(* metadata, and the overrides name what is installed.                     *)
Authoritative(pack) ==
  /\ Installed(pack) # {} => pack.manifest
  /\ \A m \in Recorded(pack) : pack.mods[m] # 0 /\ pack.recorded[m] = pack.side[m]
  /\ \A m \in Pinned(pack) : pack.pin[m] = pack.mods[m]

(* Two versions of one MOD, a dependency that is a root, and a version     *)
(* other than the one that is locked cannot be had.                        *)
Contradictory(pack) ==
  \/ \E e, f \in AskedExactly : e.mod = f.mod /\ e.exact # f.exact
  \/ \E e \in Entries : e.scope = "dependency" /\
       (e.mod \in Recorded(pack) \/ \E f \in AskedRoots : f.mod = e.mod)
  \/ \E e \in AskedExactly : e.mod \in pack.locked /\ pack.pin[e.mod] # e.exact

RootSides(pack) ==
  [m \in Recorded(pack) \cup {e.mod : e \in AskedRoots} |->
     pack.recorded[m] \cup UNION {e.side : e \in {f \in AskedRoots : f.mod = m}}]

AskedRelease(m) == (CHOOSE e \in AskedExactly : e.mod = m).exact
Constraints(pack) ==
  [m \in {e.mod : e \in AskedExactly} \cup Pinned(pack) |->
     IF \E e \in AskedExactly : e.mod = m THEN AskedRelease(m) ELSE pack.pin[m]]

Task(pack) ==
  [base |-> pack.mods, side |-> pack.side, roots |-> RootSides(pack),
   fixed |-> Constraints(pack),
   wants |-> Restrict(Constraints(pack), DOMAIN Constraints(pack) \cap DOMAIN RootSides(pack)),
   cached |-> [m \in {} |-> <<>>], forbidden |-> {}, replaced |-> {}]

Collect ==
  /\ apply.pc = "collect" /\ NoFault
  /\ IF Authoritative(tx.staged) /\ ~Contradictory(tx.staged)
        /\ Solutions(Task(tx.staged)) # {}
     THEN \E g \in Solutions(Task(tx.staged)) :
            apply' = [apply EXCEPT !.pc = "stage", !.task = <<Task(tx.staged)>>, !.graph = <<g>>]
     ELSE Raises
  /\ UNCHANGED tx

Graphed(pack, graph, task) ==
  [pack EXCEPT !.mods = graph.mods, !.side = graph.side, !.manifest = TRUE,
     !.recorded = [m \in Ids |-> IF m \in Roots(task) THEN task.roots[m] ELSE {}],
     !.pin = [m \in Ids |-> IF m \in DOMAIN task.fixed THEN task.fixed[m] ELSE 0]]

(* The graph is staged only on the source it was made for. *)
Stage ==
  /\ apply.pc = "stage" /\ NoFault
  /\ IF tx.staged = tx.start
     THEN tx' = [tx EXCEPT !.staged = Graphed(@, Head(apply.graph), Head(apply.task))]
          /\ Goes("refresh")
     ELSE Raises /\ UNCHANGED tx

(* Packwiz may do more to the source than to write its index. *)
Altered(pack) ==
  {[pack EXCEPT !.mods[m] = 0, !.side[m] = {}] : m \in Installed(pack)} \cup
  {[pack EXCEPT !.side[m] = Sides] : m \in Installed(pack)} \cup
  {[pack EXCEPT !.other = @ + 1]}

Refresh ==
  /\ apply.pc = "refresh"
  /\ \/ UNCHANGED tx /\ NoFault
     \/ Fault /\ \E p \in Altered(tx.staged) : tx' = [tx EXCEPT !.staged = p]
  /\ Goes("check")

\* mutant: the staged graph is not compared after the refresh
UncheckedAsExpected(pack) ==
  /\ pack.other = tx.start.other
  /\ \A m \in Recorded(pack) : pack.mods[m] # 0

(* MODs, other metadata and roots are as they were solved. *)
AsExpected(pack) ==
  /\ pack.mods = Head(apply.graph).mods /\ pack.side = Head(apply.graph).side
  /\ pack.other = tx.start.other
  /\ pack.recorded = [m \in Ids |-> IF m \in Roots(Head(apply.task))
                                    THEN Head(apply.task).roots[m] ELSE {}]
  /\ \A m \in Recorded(pack) : pack.mods[m] # 0 /\ pack.recorded[m] = pack.side[m]

Check ==
  /\ apply.pc = "check" /\ NoFault /\ UNCHANGED tx
  /\ IF AsExpected(tx.staged) THEN Goes("apply") ELSE Raises

-----------------------------------------------------------------------------
(* Without *)

Entry ==
  /\ apply.pc = "entries" /\ apply.done < Len(apply.entries) /\ NoFault
  /\ LET e == apply.entries[apply.done + 1]
         results == Merged(tx.staged, e.mod, Resolved(e.mod, Newest[e.mod]), e.side, FALSE,
                           [m \in {} |-> {}])
     IN IF \E p \in results : p.mods[e.mod] # 0
        THEN /\ \E p \in results : tx' = [tx EXCEPT !.staged = p]
             /\ apply' = [apply EXCEPT !.done = @ + 1]
        ELSE Raises /\ UNCHANGED tx

Merge ==
  /\ apply.pc = "entries" /\ apply.done = Len(apply.entries) /\ NoFault
  /\ Goes("apply") /\ UNCHANGED tx

-----------------------------------------------------------------------------
Apply ==
  /\ apply.pc = "apply" /\ NoFault
  /\ tx' = [tx EXCEPT !.state = "applied", !.real = tx.staged]
  /\ Goes("finally")

(* The transaction is discarded in any case. *)
Discard ==
  /\ apply.pc = "finally" /\ NoFault
  /\ tx' = [tx EXCEPT !.state = IF @ = "active" THEN "discarded" ELSE @]
  /\ Goes("end")

Next == \/ Create \/ Interrupted \/ Collect \/ Stage \/ Refresh \/ Check \/ Entry \/ Merge
        \/ Apply \/ Discard

Spec == Init /\ [][Next]_profileVars

-----------------------------------------------------------------------------
(* What is applied is every entry of every selected profile at once: the   *)
(* exact versions with an intent that names them, the roots on the record, *)
(* on their sides; no locked version, no root of before and no side one    *)
(* had was lost to them, neither in the solver nor in Packwiz's refresh.   *)
ProfilesAreApplied ==
  tx.state = "applied" =>
    LET real == tx.real IN
    /\ \A e \in Entries : /\ real.mods[e.mod] # 0
                          /\ e.exact # 0 => /\ real.mods[e.mod] = e.exact
                                            /\ real.pin[e.mod] = e.exact
                          /\ e.scope = "root" => /\ e.side \subseteq real.side[e.mod]
                                                 /\ real.manifest => e.mod \in Recorded(real)
    /\ \A m \in tx.start.locked : real.mods[m] = tx.start.pin[m]
    /\ \A m \in Recorded(tx.start) :
         m \in Recorded(real) /\ tx.start.recorded[m] \subseteq real.side[m]
    /\ \A m \in Pinned(real) : real.pin[m] = real.mods[m]
=============================================================================
