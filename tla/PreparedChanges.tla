-------------------------- MODULE PreparedChanges --------------------------
(***************************************************************************)
(* Whatever works on the transaction of a Pack: an interactive add, an     *)
(* update, a migration of the loader, a selection of exact versions, the   *)
(* application of profiles, the import of Templates, and the screens of    *)
(* the installed MODs.  A transaction belongs to one of them (`kind').     *)
(* What all of them promise is stated once, and all of them implement      *)
(* PreparedChange.                                                         *)
(***************************************************************************)
EXTENDS Naturals

CONSTANTS Adds, Update, Loader, Exact, Profiles, Import, Versions \* constants of each

VARIABLES
  kind,                               \* what works on the transaction
  tx, prep, work, ui, extra, faults,  \* of the updates, migrations, profiles and screens
  state, src, real, gen, pending, accepted, stages, flags, restored, op, count,
  active, discard, held, operation, mutex, life, source, batches, st, pc, pty, cancel, copy,
  saved, alive, returned, term, opTerm, incomplete, resolver, result, broken, raised, spawned,
  dpc, dop, applies

threads == <<tx, prep, work, ui, extra, faults>>
exactly == <<state, src, real, gen, pending, accepted, stages, flags, restored, op, count>>
adding == <<active, discard, held, operation, mutex, life, source, batches, st, pc, pty, cancel,
            copy, saved, alive, returned, term, opTerm, incomplete, resolver, result, broken,
            raised, spawned, dpc, dop, applies>>
vars == <<kind, threads, exactly, adding>>

A == INSTANCE TransactionLifecycle WITH
       Op <- Adds.Op, None <- Adds.None, MaxApplies <- Adds.MaxApplies
U == INSTANCE PackUpdate WITH
       Mods <- Update.Mods, Newest <- Update.Newest, Needs <- Update.Needs,
       Refused <- Update.Refused, Twins <- Update.Twins, Packs <- Update.Packs,
       MaxFaults <- Update.MaxFaults, MaxApplies <- Update.MaxApplies
L == INSTANCE LoaderMigration WITH
       Outcomes <- Loader.Outcomes, Source <- Loader.Source,
       MaxFaults <- Loader.MaxFaults, MaxTries <- Loader.MaxTries
X == INSTANCE ExactSelection WITH
       Mods <- Exact.Mods, Releases <- Exact.Releases, Roots <- Exact.Roots,
       MaxChanges <- Exact.MaxChanges, MaxFaults <- Exact.MaxFaults,
       MaxOutside <- Exact.MaxOutside, MaxSelects <- Exact.MaxSelects
P == INSTANCE ProfileApplication WITH
       apply <- prep,
       Ids <- Profiles.Ids, Opaque <- Profiles.Opaque, Newest <- Profiles.Newest,
       Needs <- Profiles.Needs, Twins <- Profiles.Twins, Clashes <- Profiles.Clashes,
       Natural <- Profiles.Natural, Name <- Profiles.Name, Demands <- Profiles.Demands,
       Unreadable <- Profiles.Unreadable, Packs <- Profiles.Packs,
       Selections <- Profiles.Selections, MaxFaults <- Profiles.MaxFaults
I == INSTANCE TemplateImportScreens WITH
       plan <- prep, run <- work, edited <- extra,
       Ids <- Import.Ids, Opaque <- Import.Opaque, Newest <- Import.Newest,
       Needs <- Import.Needs, Twins <- Import.Twins, Clashes <- Import.Clashes,
       Natural <- Import.Natural, Name <- Import.Name, Demands <- Import.Demands,
       Unreadable <- Import.Unreadable, Title <- Import.Title, Actual <- Import.Actual,
       Worlds <- Import.Worlds, MaxFaults <- Import.MaxFaults, MaxPlans <- Import.MaxPlans
V == INSTANCE ExactVersionScreens WITH
       worker <- prep, cat <- work, app <- extra,
       MaxFaults <- Versions.MaxFaults, MaxOpens <- Versions.MaxOpens

(* The Packs and Templates are records of what their modules say; a        *)
(* version intent names a MOD and a release, and so does a locked one.     *)
ASSUME UpdatesAssumption ==
  \A pack \in Update.Packs : DOMAIN pack = {"mods", "pin", "locked", "roots", "fixed"}

ASSUME ImportsAssumption ==
  \A world \in Import.Worlds :
    /\ DOMAIN world.pack = {"mods", "side", "manifest", "recorded", "pin", "locked"}
    /\ world.pack.locked \subseteq {m \in Import.Ids : world.pack.pin[m] # 0}
    /\ \A i \in world.intents : i.mod \in Import.Ids /\ i.exact # 0

-----------------------------------------------------------------------------
Unused == 0

NoExact ==
  /\ state = Unused /\ src = Unused /\ real = Unused /\ gen = Unused /\ pending = Unused
  /\ accepted = Unused /\ stages = Unused /\ flags = Unused /\ restored = Unused /\ op = Unused
  /\ count = Unused

NoAdding ==
  /\ active = Unused /\ discard = Unused /\ held = Unused /\ operation = Unused
  /\ mutex = Unused /\ life = Unused /\ source = Unused /\ batches = Unused /\ st = Unused
  /\ pc = Unused /\ pty = Unused /\ cancel = Unused /\ copy = Unused /\ saved = Unused
  /\ alive = Unused /\ returned = Unused /\ term = Unused /\ opTerm = Unused
  /\ incomplete = Unused /\ resolver = Unused /\ result = Unused /\ broken = Unused
  /\ raised = Unused /\ spawned = Unused /\ dpc = Unused /\ dop = Unused /\ applies = Unused

NoThreads ==
  /\ tx = Unused /\ prep = Unused /\ work = Unused /\ ui = Unused /\ extra = Unused
  /\ faults = Unused

Init ==
  \/ kind = "add" /\ A!Init /\ NoThreads /\ NoExact
  \/ kind = "exact" /\ X!Init /\ NoThreads /\ NoAdding
  \/ /\ NoExact /\ NoAdding
     /\ \/ kind = "update" /\ U!Init /\ extra = Unused
        \/ kind = "loader" /\ L!Init /\ work = Unused /\ extra = Unused
        \/ kind = "profiles" /\ P!Init /\ work = Unused /\ ui = Unused /\ extra = Unused
        \/ kind = "import" /\ I!Init
        \/ kind = "versions" /\ V!Init

Adding   == kind = "add" /\ UNCHANGED <<kind, threads, exactly>>
Selecting == kind = "exact" /\ UNCHANGED <<kind, threads, adding>>
Working(k) == kind = k /\ UNCHANGED <<kind, exactly, adding>>

Next ==
  \/ Adding /\ A!Next
  \/ Selecting /\ X!Next
  \/ Working("update") /\ U!Next /\ UNCHANGED extra
  \/ Working("loader") /\ L!Next /\ UNCHANGED <<work, extra>>
  \/ Working("profiles") /\ P!Next /\ UNCHANGED <<work, ui, extra>>
  \/ Working("import") /\ I!Next
  \/ Working("versions") /\ V!Next

(* The fairness of the one that works: each of its threads, its discard,   *)
(* and each timer of its screens.                                          *)
Thread ==
  \/ Adding /\ \E o \in Adds.Op : A!WorkerStep(o)
  \/ Working("update") /\ U!PrepNext /\ UNCHANGED extra
  \/ Working("loader") /\ L!RunNext /\ UNCHANGED <<work, extra>>
  \/ Working("import") /\ I!PlanNext
  \/ Working("versions") /\ V!ThreadNext

Second ==
  \/ Adding /\ A!ApplyEnds
  \/ Working("update") /\ U!WorkNext /\ UNCHANGED extra
  \/ Working("import") /\ I!RunNext

Third ==
  \/ Adding /\ A!DiscardStep
  \/ Working("update") /\ U!Discard /\ UNCHANGED extra
  \/ Working("import") /\ I!ApplyNext

FirstTimer ==
  \/ Working("update") /\ U!PollPreparation /\ UNCHANGED extra
  \/ Working("loader") /\ L!Poll /\ UNCHANGED <<work, extra>>
  \/ Working("import") /\ I!PollPlanning
  \/ Working("versions") /\ V!PollNext

SecondTimer ==
  \/ Working("update") /\ U!PollApply /\ UNCHANGED extra
  \/ Working("import") /\ I!PollRun

ThirdTimer ==
  \/ Working("update") /\ U!PollDiscard /\ UNCHANGED extra
  \/ Working("import") /\ I!PollApply

Fairness ==
  /\ WF_vars(Thread) /\ WF_vars(Second) /\ WF_vars(Third)
  /\ WF_vars(FirstTimer) /\ WF_vars(SecondTimer) /\ WF_vars(ThirdTimer)

Spec == Init /\ [][Next]_vars /\ Fairness

-----------------------------------------------------------------------------
(* Correctness *)

(* What is applied is what was selected, previewed or resolved, and was    *)
(* verified as a whole, also after earlier attempts on the same            *)
(* transaction failed, were undone or were selected anew.                  *)
AppliedIsChosen ==
  /\ kind = "update" => U!AppliedIsChosen
  /\ kind = "loader" => L!AppliedIsPreviewed
  /\ kind = "exact" => X!AppliedIsVerified
  /\ kind = "profiles" => P!ProfilesAreApplied
  /\ kind = "import" => I!AppliedIsChosen

(* The intent of the user for exact versions is kept by every change of a  *)
(* Pack and names what is installed, and the evidence that an exact        *)
(* selection was verified is evidence for the source the transaction has.  *)
IntentIsKept ==
  /\ kind = "update" => U!IntentIsKept
  /\ kind = "exact" => X!EvidenceIsFresh
  /\ kind = "import" => I!IntentIsKept

(* A transaction that is neither applied nor discarded is in the hands of  *)
(* a thread, a screen or the application, whatever step failed; but not    *)
(* when a discard failed, when the exit stopped waiting for a thread, or   *)
(* when a cancel came after its thread's last look.                        *)
NothingForgotten ==
  /\ kind = "update" => U!NothingForgotten
  /\ kind = "loader" => L!NothingForgotten
  /\ kind = "import" => I!NothingForgotten
  /\ kind = "versions" => V!NothingForgotten

(* Who asks to leave a screen leaves it or is told why not; an add that    *)
(* was started and a discard that was asked for end.                       *)
LeavingEnds ==
  []<>(/\ kind = "update" => U!Answered
       /\ kind = "loader" => L!Answered
       /\ kind = "import" => I!Answered
       /\ kind = "versions" => V!Answered
       /\ kind = "add" => A!Answered)

(* The state of the transaction and the Pack's source, by what works on it. *)
TransactionState ==
  LET s == IF kind = "add" THEN IF active THEN "active" ELSE discard
           ELSE IF kind = "exact" THEN state ELSE tx.state
  IN CASE s = "active" -> "open"
       [] s \in {"closing", "discarding", "failed"} -> "closing"
       [] s = "discarded" -> "closed"
       [] OTHER -> s

Source ==
  IF kind = "exact" THEN real ELSE IF kind \in {"add", "versions"} THEN Unused ELSE tx.real

Change == INSTANCE PreparedChange WITH state <- TransactionState, real <- Source

(* Whatever works on the transaction: the Pack changes only when an open   *)
(* transaction is applied, and one that is being discarded is never        *)
(* applied.                                                                *)
ImplementsPrepared == Change!Spec
=============================================================================
