--------------------------- MODULE TemplateImport ---------------------------
(***************************************************************************)
(* Importing Templates into a Pack (huroshiki_core.py:                     *)
(* TemplateImportSession, TemplateImportOperation and what they stage;     *)
(* huroshiki.py: the four TemplateImport screens and their part of         *)
(* on_unmount).                                                            *)
(*                                                                         *)
(* One thread plans: it opens the transaction and verifies the candidates. *)
(* The user resolves the conflicts, a second thread stages the result and  *)
(* a third applies it.  The screens hand the session on; one event cancels *)
(* all three.  Without version intents the new roots are merged into the   *)
(* staged source one after the other, with them the graph is rebuilt.      *)
(***************************************************************************)
EXTENDS TemplateSelection

CONSTANTS Worlds,    \* the Packs with the Templates to import
          MaxFaults, \* bound on failing steps and on changes by Packwiz
          MaxPlans   \* bound on plans made on one screen

VARIABLES tx,    \* the transaction, with the world it works on
          plan,  \* the thread that plans, and its session
          run,   \* TemplateImportOperation with the threads that run and apply it
          ui,    \* the screens
          edited, \* the Templates changed since the plan read them
          faults

importVars == <<tx, plan, run, ui, edited, faults>>

Planning == [pc |-> "create", event |-> FALSE, done |-> FALSE, error |-> "none",
             session |-> FALSE]
Operation == [pc |-> "none", started |-> FALSE, done |-> FALSE, cancelled |-> FALSE,
              error |-> FALSE, finished |-> FALSE, applying |-> FALSE, closed |-> FALSE,
              preview |-> FALSE, apply |-> "none", failed |-> FALSE,
              pick |-> {}, sides |-> <<>>, graph |-> <<>>, stale |-> FALSE]

Init ==
  /\ \E w \in Worlds :
       tx = [state |-> "none", world |-> w, real |-> w.pack, staged |-> w.pack]
  /\ plan = [Planning EXCEPT !.pc = "end"]
  /\ run = Operation
  /\ ui = [at |-> "select", busy |-> FALSE, leave |-> FALSE, down |-> "no", tries |-> 0,
           owner |-> FALSE, settled |-> FALSE, missed |-> FALSE]
  /\ edited = FALSE /\ faults = 0

World == tx.world
Fault == faults < MaxFaults /\ faults' = faults + 1
NoFault == UNCHANGED faults

Held == tx.state \in {"active", "closing"}

(* A discard that fails leaves the transaction good for another discard.   *)
DiscardTx ==
  \/ tx' = [tx EXCEPT !.state = IF Held THEN "discarded" ELSE @] /\ NoFault
  \/ Held /\ Fault /\ tx' = [tx EXCEPT !.state = "closing"]
Discards == tx'.state # "closing"

(* Somebody edits a Template. *)
Edit ==
  /\ ~edited /\ Held
  /\ edited' = TRUE
  /\ UNCHANGED <<tx, plan, run, ui, faults>>

-----------------------------------------------------------------------------
(* The thread that plans: create_session and TemplateImportSession.create *)

PlanCreate ==
  /\ plan.pc = "create"
  /\ \/ /\ ~plan.event /\ ~Held /\ NoFault
        /\ tx' = [tx EXCEPT !.state = "active", !.staged = tx.real]
        /\ plan' = [plan EXCEPT !.pc = "verify"] /\ edited' = FALSE
     \/ /\ \/ (plan.event \/ Held) /\ NoFault
           \/ ~Held /\ Fault
        /\ plan' = [plan EXCEPT !.pc = "end", !.done = TRUE, !.error = "error"]
        /\ UNCHANGED <<tx, edited>>
  /\ UNCHANGED <<run, ui>>

PlanVerify ==
  /\ plan.pc = "verify"
  /\ \/ /\ ~plan.event /\ ~edited /\ ~Unplannable(World) /\ NoFault
        /\ plan' = [plan EXCEPT !.pc = "settle", !.session = TRUE]
     \/ /\ \/ (plan.event \/ edited \/ Unplannable(World)) /\ NoFault
           \/ Fault
        /\ plan' = [plan EXCEPT !.pc = "undo", !.error = "error"]
  /\ UNCHANGED <<tx, run, ui, edited>>

(* A failed plan discards; when that fails the error has the transaction.  *)
PlanUndo ==
  /\ plan.pc = "undo"
  /\ DiscardTx
  /\ plan' = [plan EXCEPT !.pc = "end", !.done = TRUE,
                !.error = IF Discards THEN "error" ELSE "integrity"]
  /\ UNCHANGED <<run, ui, edited>>

PlanSettle ==
  /\ plan.pc = "settle"
  /\ IF plan.event
     THEN /\ DiscardTx
          /\ plan' = [plan EXCEPT !.pc = "ending", !.session = ~Discards,
                        !.error = IF Discards THEN @ ELSE "error"]
     ELSE plan' = [plan EXCEPT !.pc = "ending"] /\ UNCHANGED <<tx, faults>>
  /\ UNCHANGED <<run, ui, edited>>

PlanDone ==
  /\ plan.pc = "ending"
  /\ plan' = [plan EXCEPT !.pc = "end", !.done = TRUE]
  /\ UNCHANGED <<tx, run, ui, edited, faults>>

PlanNext == PlanCreate \/ PlanVerify \/ PlanUndo \/ PlanSettle \/ PlanDone

-----------------------------------------------------------------------------
(* What is staged without version intents *)

(* The closure of a new root: the verified file of a URL, otherwise what   *)
(* the provider offers now.                                                *)
Closure(c) == IF c.url # 0 THEN [m \in {c.actual} |-> c.url] ELSE Resolved(c.actual, Newest[c.actual])

(* The metadata of the dropped MODs goes, the record of roots stays. *)
Cleared(pack, gone) ==
  [pack EXCEPT !.mods = [m \in Ids |-> IF m \in gone THEN 0 ELSE @[m]],
               !.side = [m \in Ids |-> IF m \in gone THEN {} ELSE @[m]]]

(* _assert_removed_identities_absent *)
Absent(pack, gone) == Installed(pack) \cap gone = {}

(* The Pack with what the merges made of its MODs, their sides and the     *)
(* record of roots, and with the decisions on sides.                       *)
Sided(pack, merged, sides) ==
  [pack EXCEPT !.mods = merged.mods, !.recorded = merged.recorded,
     !.side = [m \in Ids |-> IF m \in DOMAIN sides THEN sides[m] ELSE merged.side[m]]]

(* _removed_identity_requirements, then the preflight and the application  *)
(* of one computation; the new roots come in the order of the Templates.   *)
PlainResults(pack, pick, sides) ==
  LET gone == Dropped(World, pick)
      merged(order) ==
        FoldLeft(LAMBDA packs, c :
                   UNION {Merged(p, c.actual, Closure(c), c.side, FALSE, [m \in {} |-> {}]) : p \in packs},
                 {Cleared(pack, gone)}, order)
  IN IF \E c \in NewRoots(pick) : DOMAIN Closure(c) \cap gone # {} THEN {}
     ELSE {Sided(pack, p, sides) : p \in {q \in UNION {merged(o) : o \in SetToSeqs(NewRoots(pick))} :
             /\ Absent(q, gone)
             /\ DOMAIN sides \subseteq Installed(q)
             /\ \A c \in NewRoots(pick) : q.mods[c.actual] # 0}}

-----------------------------------------------------------------------------
(* What is staged with version intents: _execute_exact_template_import *)

(* The pinned releases are installed, and the record of roots agrees with  *)
(* the metadata.                                                           *)
Authoritative(pack) ==
  /\ \A m \in Pinned(pack) : pack.pin[m] = pack.mods[m]
  /\ Installed(pack) # {} => pack.manifest
  /\ \A m \in Recorded(pack) : pack.mods[m] # 0 /\ pack.recorded[m] = pack.side[m]

\* mutant: a root that is imported again loses the side it has
FinalRootsAnew(pack, pick, sides) ==
  [m \in (Recorded(pack) \ Dropped(World, pick)) \cup {c.actual : c \in Chosen(pick)} |->
     IF \E c \in Chosen(pick) : c.actual = m THEN (CHOOSE c \in Chosen(pick) : c.actual = m).side
     ELSE pack.recorded[m]]

(* _template_import_final_roots *)
FinalRoots(pack, pick, sides) ==
  LET kept == Recorded(pack) \ Dropped(World, pick)
      chosen == {c.actual : c \in Chosen(pick)}
  IN [m \in kept \cup chosen |->
        IF m \in kept THEN (IF m \in chosen \cap DOMAIN sides THEN sides[m] ELSE pack.recorded[m])
        ELSE (CHOOSE c \in Chosen(pick) : c.actual = m).side]

\* mutant: a lock of the Pack yields to the intent of a Template
AdmissibleUnlocked(pack, roots, active) ==
  \A i \in active : (i.scope = "root") = (i.mod \in DOMAIN roots)

(* An intent for a root is for a root, one for a dependency is not, and a  *)
(* locked version stays.                                                   *)
Admissible(pack, roots, active) ==
  \A i \in active :
    /\ (i.scope = "root") = (i.mod \in DOMAIN roots)
    /\ i.mod \in pack.locked => pack.pin[i.mod] = i.exact

Pins(pack, active) ==
  [m \in Ids |-> IF \E i \in active : i.mod = m THEN (CHOOSE i \in active : i.mod = m).exact
                 ELSE pack.pin[m]]

Task(pack, pick, sides) ==
  LET roots == FinalRoots(pack, pick, sides)
      pins == Pins(pack, ActiveIntents(World, pick))
      fixed == [m \in {n \in Ids : pins[n] # 0} |-> pins[m]]
      gone == Dropped(World, pick)
      chosen(m) == CHOOSE c \in Chosen(pick) : c.actual = m
  IN [base |-> pack.mods, side |-> pack.side, roots |-> roots, fixed |-> fixed,
      wants |-> Restrict(fixed, DOMAIN fixed \cap DOMAIN roots),
      cached |-> [m \in {c.actual : c \in Chosen(pick)} |->
                    IF chosen(m).url # 0 THEN [d \in {m} |-> chosen(m).url]
                    ELSE Resolved(m, VerifiedRelease(World, Selector(chosen(m))))],
      forbidden |-> gone \ (DOMAIN roots \cup Pinned(pack)),
      replaced |-> gone \cap DOMAIN roots \cap Opaque]

ExactResults(pack, pick, sides) ==
  LET active == ActiveIntents(World, pick)
      staged(task) ==
        {[pack EXCEPT !.mods = g.mods, !.side = g.side, !.manifest = TRUE,
            !.recorded = [m \in Ids |-> IF m \in Roots(task) THEN task.roots[m] ELSE {}],
            !.pin = Pins(pack, active)] : g \in Solutions(task)}
  IN UNION {staged(task) : task \in
              {t \in {Task(pack, pick, sides)} :
                 Authoritative(pack) /\ Unanimous(active) /\ Admissible(pack, t.roots, active)}}

Results(pack, pick, sides) ==
  IF ExactAware(World) THEN ExactResults(pack, pick, sides) ELSE PlainResults(pack, pick, sides)

-----------------------------------------------------------------------------
(* The thread that stages: TemplateImportOperation.run *)

RunStart ==
  /\ run.pc = "new"
  /\ run' = IF run.done THEN [run EXCEPT !.pc = "end"]
            ELSE [run EXCEPT !.pc = "check", !.started = TRUE]
  /\ UNCHANGED <<tx, plan, ui, edited, faults>>

Raises == run' = [run EXCEPT !.pc = "finally", !.error = TRUE]

(* _checkpoint, and a process that was stopped because of the event. *)
RunCancelled ==
  /\ run.pc \in {"check", "resolve", "stage", "verify"} /\ plan.event
  /\ run' = [run EXCEPT !.pc = "finally", !.cancelled = TRUE]
  /\ UNCHANGED <<tx, plan, ui, edited, faults>>

(* A process that fails, the deadline, a failing preflight. *)
RunFails ==
  /\ run.pc \in {"check", "resolve", "stage", "verify"}
  /\ Fault /\ Raises
  /\ UNCHANGED <<tx, plan, ui, edited>>

RunCheck ==
  /\ run.pc = "check" /\ ~plan.event
  /\ IF edited \/ tx.state # "active" THEN Raises ELSE run' = [run EXCEPT !.pc = "resolve"]
  /\ UNCHANGED <<tx, plan, ui, edited, faults>>

RunResolve ==
  /\ run.pc = "resolve" /\ ~plan.event
  /\ \E results \in {Results(tx.staged, run.pick, run.sides)} :
       IF results = {} THEN Raises
       ELSE \E p \in results : run' = [run EXCEPT !.pc = "stage", !.graph = <<p>>]
  /\ UNCHANGED <<tx, plan, ui, edited, faults>>

(* Packwiz refreshes what was staged and may do more than write its index. *)
(* Only the exact path compares what comes out of it.                      *)
Altered(pack) ==
  {[pack EXCEPT !.mods[m] = 0, !.side[m] = {}] : m \in Installed(pack)} \cup
  {[pack EXCEPT !.side[m] = Sides] : m \in Installed(pack)}

RunStage ==
  /\ run.pc = "stage" /\ ~plan.event
  /\ \/ tx' = [tx EXCEPT !.staged = Head(run.graph)] /\ NoFault
     \/ /\ ExactAware(World) /\ Fault
        /\ \E p \in Altered(Head(run.graph)) : tx' = [tx EXCEPT !.staged = p]
  /\ run' = [run EXCEPT !.pc = "verify"]
  /\ UNCHANGED <<plan, ui, edited>>

RunVerify ==
  /\ run.pc = "verify" /\ ~plan.event
  /\ IF edited \/ tx.staged # Head(run.graph) THEN Raises
     ELSE run' = [run EXCEPT !.pc = "finally", !.preview = TRUE]
  /\ UNCHANGED <<tx, plan, ui, edited, faults>>

(* TemplateImportOperation.discard: the session's, once. *)
DiscardOnce ==
  IF run.finished \/ run.closed THEN UNCHANGED <<tx, faults>> ELSE DiscardTx
Closed == run.finished \/ run.closed \/ Discards

\* mutant: only an error discards
OwedOnError == run.error

Owed == run.cancelled \/ run.error \/ plan.event

(* The finally block reads the flags, discards, and is done only then. *)
RunFinally ==
  /\ run.pc = "finally"
  /\ IF Owed
     THEN /\ DiscardOnce
          /\ run' = [run EXCEPT !.pc = "ending", !.finished = Closed, !.closed = Closed,
                       !.error = @ \/ ~Closed]
     ELSE run' = [run EXCEPT !.pc = "ending"] /\ UNCHANGED <<tx, faults>>
  /\ UNCHANGED <<plan, ui, edited>>

RunDone ==
  /\ run.pc = "ending"
  /\ run' = [run EXCEPT !.pc = "end", !.done = TRUE]
  /\ UNCHANGED <<tx, plan, ui, edited, faults>>

RunNext == \/ RunStart \/ RunCancelled \/ RunFails \/ RunCheck \/ RunResolve \/ RunStage
           \/ RunVerify \/ RunFinally \/ RunDone

-----------------------------------------------------------------------------
(* The thread that applies: TemplateImportOperation.apply *)

Applicable == run.done /\ ~run.cancelled /\ ~run.error /\ ~run.finished /\ ~run.applying

ApplyBegin ==
  /\ run.apply = "new"
  /\ run' = IF Applicable THEN [run EXCEPT !.apply = "check", !.applying = TRUE]
            ELSE [run EXCEPT !.apply = "done", !.failed = TRUE]
  /\ UNCHANGED <<tx, plan, ui, edited, faults>>

Current == ~edited

ApplyCheck ==
  /\ run.apply = "check"
  /\ run' = [run EXCEPT !.apply = IF Current /\ ~plan.event THEN "publish" ELSE "undo"]
  /\ UNCHANGED <<tx, plan, ui, edited, faults>>

ApplyPublish ==
  /\ run.apply = "publish"
  /\ \/ /\ ~plan.event /\ tx.state = "active" /\ NoFault
        /\ tx' = [tx EXCEPT !.state = "applied", !.real = tx.staged]
        /\ run' = [run EXCEPT !.apply = "done", !.applying = FALSE, !.finished = TRUE, !.closed = TRUE]
     \/ /\ \/ (plan.event \/ tx.state # "active") /\ NoFault
           \/ Fault
        /\ run' = [run EXCEPT !.apply = "undo"] /\ UNCHANGED tx
  /\ UNCHANGED <<plan, ui, edited>>

ApplyUndo ==
  /\ run.apply = "undo"
  /\ DiscardOnce
  /\ run' = [run EXCEPT !.apply = "done", !.applying = FALSE, !.failed = TRUE,
               !.finished = Closed, !.closed = Closed]
  /\ UNCHANGED <<plan, ui, edited>>

ApplyNext == ApplyBegin \/ ApplyCheck \/ ApplyPublish \/ ApplyUndo
=============================================================================
