----------------------------- MODULE ExactGraph -----------------------------
(***************************************************************************)
(* Rebuilding the graph of a Pack in which some MODs have an exact version *)
(* (huroshiki_core.py: _solve_exact_mod_graph, resolve_exact_mod_closure,  *)
(* _verify_exact_closure_artifacts, _build_exact_dependency_graph,         *)
(* _validate_exact_dependency_graph).                                      *)
(*                                                                         *)
(* Every root is resolved in a source of its own, the roots that need a    *)
(* constrained dependency once more with that release installed first; the *)
(* closures are merged, and what the files themselves say of the MODs they *)
(* need is compared with what came out.                                    *)
(***************************************************************************)
EXTENDS ModClosure, SequencesExt

CONSTANTS Name,     \* Name[m][v]: the MOD id the file of the release declares
          Demands,  \* Demands[m][v]: from MOD ids it requires to the releases it accepts
          Unreadable \* the pairs <<m, v>> whose file does not say what it requires

(* What the parts of an operation work with:                               *)
(*   base       the installed releases, with their sides in `side'         *)
(*   roots      a function from the roots to their sides                   *)
(*   wants      the exact releases some roots were asked for               *)
(*   fixed      every exact release somebody asked for                     *)
(*   cached     closures that were verified before                         *)
(*   forbidden  MODs that must not come back                               *)
(*   replaced   URL files that were chosen anew                            *)
Roots(task) == DOMAIN task.roots

\* the release of a root, 0 when the provider may choose
Choice(task, r) == IF r \in DOMAIN task.wants THEN task.wants[r] ELSE task.base[r]

First(task, r) ==
  IF r \in DOMAIN task.cached THEN task.cached[r]
  ELSE IF r \in Opaque THEN [m \in {r} |-> task.base[r]]
  ELSE Resolved(r, IF Choice(task, r) # 0 THEN Choice(task, r) ELSE Newest[r])

\* what an installed root that is asked for another release had installed
Former(task, r) ==
  IF r \notin Opaque /\ task.base[r] \notin {0, Choice(task, r)}
  THEN DOMAIN Resolved(r, task.base[r]) ELSE {}

Owners(task, d) == {r \in Roots(task) : d \in DOMAIN First(task, r)}
Affected(task) ==
  UNION {DOMAIN First(task, r) \cup Former(task, r) : r \in Roots(task)}

\* the constraints on MODs that are no roots
Loose(task) == DOMAIN task.fixed \ Roots(task)

(* `packwiz add' in a source where the constrained dependencies are: what  *)
(* is there already stays.                                                 *)
Constrained(task, r) ==
  LET seeds == {d \in Loose(task) : r \in Owners(task, d)}
      first == First(task, r)
      under == UNION {DOMAIN Needs[d][task.fixed[d]] : d \in seeds}
  IN [m \in {r} \cup seeds \cup under \cup DOMAIN Needs[r][first[r]] |->
        IF m = r THEN first[r]
        ELSE IF m \in seeds THEN task.fixed[m]
        ELSE IF m \in under
             THEN Needs[CHOOSE d \in seeds : m \in DOMAIN Needs[d][task.fixed[d]]]
                       [task.fixed[CHOOSE d \in seeds : m \in DOMAIN Needs[d][task.fixed[d]]]][m]
        ELSE Needs[r][first[r]][m]]

Final(task, r) ==
  IF \E d \in Loose(task) : r \in Owners(task, d) THEN Constrained(task, r) ELSE First(task, r)

(* What is refused before anything is merged. *)
Hopeless(task) ==
  \/ Roots(task) \cap task.forbidden # {}
  \/ \E r \in Roots(task) \cap Opaque : r \notin DOMAIN task.cached /\ task.base[r] = 0
  \/ \E r \in Roots(task) \cap DOMAIN task.cached :
       Choice(task, r) # 0 /\ r \notin Opaque /\ task.cached[r][r] # Choice(task, r)
  \/ \E r \in Roots(task) : DOMAIN First(task, r) \cap task.forbidden # {}
  \/ \E d \in Loose(task) : Owners(task, d) = {} \/ Owners(task, d) \cap Opaque # {}
  \/ \E r \in Roots(task) : DOMAIN Final(task, r) \cap task.forbidden # {}

Nothing == [mods |-> [m \in Ids |-> 0], side |-> [m \in Ids |-> {}], manifest |-> FALSE,
            recorded |-> [m \in Ids |-> {}]]

Aggregates(task) ==
  FoldLeft(LAMBDA packs, r :
             UNION {Merged(p, r, Final(task, r), task.roots[r], TRUE, task.roots) : p \in packs},
           {Nothing}, SetToSortSeq(Roots(task), <))

(* Installed MODs that no root of before or after accounts for stay.       *)
Kept(task, mods) ==
  {m \in Ids : mods[m] = 0 /\ task.base[m] # 0} \ (Affected(task) \cup task.forbidden)
Desired(task, mods) == [m \in Ids |-> IF m \in Kept(task, mods) THEN task.base[m] ELSE mods[m]]

-----------------------------------------------------------------------------
(* Verification: the files of the desired MODs *)

Present(mods) == {m \in Ids \ Opaque : mods[m] # 0}
Declares(mods, m) == Name[m][mods[m]]
Requires(mods, m) == Demands[m][mods[m]]

Edges(mods) ==
  {e \in Present(mods) \X Present(mods) : Declares(mods, e[2]) \in DOMAIN Requires(mods, e[1])}

Reached(task, mods) ==
  FoldLeft(LAMBDA seen, m : seen \cup {c \in Present(mods) : \E p \in seen : <<p, c>> \in Edges(mods)},
           Roots(task) \cap Present(mods), SetToSeq(Present(mods)))

(* Each MOD id has one file, every required one is bound, a file keeps its *)
(* MOD id, and what is reached from a root is readable and accepted.       *)
Coherent(task, mods) ==
  /\ \A m, n \in Present(mods) : Declares(mods, m) = Declares(mods, n) => m = n
  /\ \A m \in Present(mods) : task.base[m] # 0 => Name[m][task.base[m]] = Declares(mods, m)
  /\ \A m \in Present(mods) :
       <<m, mods[m]>> \notin Unreadable =>
         \A id \in DOMAIN Requires(mods, m) : \E c \in Present(mods) : Declares(mods, c) = id
  /\ Roots(task) \ Opaque \subseteq Present(mods)
  /\ \A m \in Reached(task, mods) : <<m, mods[m]>> \notin Unreadable
  /\ \A e \in Edges(mods) : e[1] \in Reached(task, mods) =>
       mods[e[2]] \in Requires(mods, e[1])[Declares(mods, e[2])]

(* No URL file is added, one is replaced only by choice; every constraint  *)
(* is met, and a constrained dependency is required by a reached MOD.      *)
Answers(task, mods) ==
  /\ \A m \in Opaque : mods[m] # 0 => m \in task.replaced \/ mods[m] = task.base[m]
  /\ \A d \in DOMAIN task.fixed : d \notin Opaque /\ mods[d] = task.fixed[d]
  /\ \A d \in Loose(task) : \E e \in Edges(mods) :
       e[2] = d /\ e[1] \in Reached(task, mods)

(* The resulting graphs: at most one, none when it cannot be solved.       *)
Solutions(task) ==
  IF Hopeless(task) THEN {}
  ELSE {[mods |-> s.mods,
         side |-> [m \in Ids |-> IF m \in Kept(task, s.a.mods) THEN task.side[m] ELSE s.a.side[m]]] :
        s \in {g \in {[a |-> b, mods |-> Desired(task, b.mods)] : b \in Aggregates(task)} :
                 /\ \A m \in task.forbidden : g.mods[m] = 0
                 /\ \A m \in task.replaced : g.a.mods[m] # 0
                 /\ \A m \in Opaque \ task.replaced :
                      g.a.mods[m] # 0 => g.a.side[m] = task.side[m]
                 /\ Coherent(task, g.mods) /\ Answers(task, g.mods)}}
=============================================================================
