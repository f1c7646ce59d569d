------------------------ MODULE TransactionLifecycle ------------------------
(***************************************************************************)
(* The threads around one PackTransaction (huroshiki_core.py): workers     *)
(* that run PackwizAddOperations, a thread that applies, a thread that     *)
(* discards, and users who cancel.                                         *)
(*                                                                         *)
(* A worker copies the staged source as its checkpoint, runs Packwiz in a  *)
(* process group of its own, merges the result into the staged source      *)
(* under transaction._lock and commits a batch; whatever fails, it restores*)
(* the checkpoint.  The transaction holds the project lock and gives it up *)
(* when apply or discard is over: nothing of the transaction may write or  *)
(* run after that.  Cancellation does not take _lock, so it can arrive     *)
(* between any two steps of a worker.                                      *)
(*                                                                         *)
(* The staged source is the set of operations merged into it.  A deadline  *)
(* may have passed at any checkpoint, so every checkpoint may raise.       *)
(***************************************************************************)
EXTENDS Naturals

CONSTANTS Op,          \* add operations
          None,        \* no operation
          MaxApplies   \* how many calls of apply are explored

ASSUME OpAssumption == None \notin Op /\ "apply" \notin Op /\ "discard" \notin Op
ASSUME AppliesAssumption == MaxApplies \in Nat

VARIABLES
  active,      \* PackTransaction.active
  discard,     \* PackTransaction._discard_state
  held,        \* the project lock is held by the transaction
  operation,   \* PackTransaction._operation
  mutex,       \* who is inside a long region of _lock
  life,        \* who holds _lifecycle_lock
  source,      \* operations merged into the staged source
  batches,     \* operations with a committed batch
  st,          \* st[o]: _AddOperationLifecycle._state
  pc,          \* pc[o]: the next step of the worker
  pty,         \* pty[o]: the add runs Packwiz in a PTY (a URL add does not)
  cancel,      \* cancel[o]: cancel_event
  copy,        \* copy[o]: the checkpoint directory
  saved,       \* saved[o]: what the checkpoint copied
  alive,       \* alive[o]: process groups of the operation with live members
  returned,    \* returned[o]: what PtyResult says of the session
  term,        \* term[o]: PackwizPtySession._termination_result
  opTerm,      \* opTerm[o]: PackwizAddOperation.termination_result
  incomplete,  \* incomplete[o]: PackwizAddOperation.termination_incomplete
  resolver,    \* resolver[o]: resolver_termination_incomplete
  result,      \* result[o]: the AddOperationResult
  broken,      \* broken[o]: cleanup_error
  raised,      \* raised[o]: PackwizPtySession.run ended by an exception
  spawned,     \* spawned[o]: PackwizPtySession.process is set
  dpc,         \* the next step of the discarding thread
  dop,         \* the operation it looks at
  applies      \* calls of apply so far

tx     == <<active, discard, held, operation>>
locks  == <<mutex, life>>
data   == <<source, batches, copy, saved>>
worker == <<st, pc, pty, result, broken, raised, spawned>>
procs  == <<cancel, alive, returned, term, opTerm, incomplete, resolver>>
closer == <<dpc, dop, applies>>
vars   == <<tx, locks, data, worker, procs, closer>>

Report == {"none", "drained", "undrained"}

TypeOK ==
  /\ active \in BOOLEAN /\ held \in BOOLEAN
  /\ discard \in {"active", "discarding", "discarded", "failed"}
  /\ operation \in Op \cup {None}
  /\ mutex \in Op \cup {None, "apply"}
  /\ life \in {None, "apply", "discard"}
  /\ source \in SUBSET Op /\ batches \in SUBSET Op
  /\ st \in [Op -> {"new", "created", "running", "done"}]
  /\ pc \in [Op -> {"idle", "prepare", "copying", "launch", "session", "record",
                    "finish", "merge", "commit", "rollback", "settle", "complete"}]
  /\ pty \in [Op -> BOOLEAN]
  /\ cancel \in [Op -> BOOLEAN]
  /\ copy \in [Op -> {"none", "partial", "full"}]
  /\ saved \in [Op -> SUBSET Op]
  /\ alive \in [Op -> SUBSET {"session", "resolver"}]
  /\ returned \in [Op -> {"ok", "failed", "incomplete"}]
  /\ term \in [Op -> Report] /\ opTerm \in [Op -> Report]
  /\ incomplete \in [Op -> BOOLEAN] /\ resolver \in [Op -> BOOLEAN]
  /\ result \in [Op -> {"none", "staged", "failed"}]
  /\ broken \in [Op -> BOOLEAN] /\ raised \in [Op -> BOOLEAN]
  /\ spawned \in [Op -> BOOLEAN]
  /\ dpc \in {"none", "created", "look", "cancel", "enter", "cancelAgain",
              "wait", "retry", "judge", "finish", "fail", "done"}
  /\ dop \in Op \cup {None}
  /\ applies \in 0..MaxApplies

Init ==
  /\ active = TRUE /\ held = TRUE /\ discard = "active" /\ operation = None
  /\ mutex = None /\ life = None
  /\ source = {} /\ batches = {}
  /\ st = [o \in Op |-> "new"] /\ pc = [o \in Op |-> "idle"]
  /\ pty = [o \in Op |-> FALSE] /\ cancel = [o \in Op |-> FALSE]
  /\ copy = [o \in Op |-> "none"] /\ saved = [o \in Op |-> {}]
  /\ alive = [o \in Op |-> {}] /\ returned = [o \in Op |-> "ok"]
  /\ term = [o \in Op |-> "none"] /\ opTerm = [o \in Op |-> "none"]
  /\ incomplete = [o \in Op |-> FALSE] /\ resolver = [o \in Op |-> FALSE]
  /\ result = [o \in Op |-> "none"]
  /\ broken = [o \in Op |-> FALSE] /\ raised = [o \in Op |-> FALSE]
  /\ spawned = [o \in Op |-> FALSE]
  /\ dpc = "none" /\ dop = None /\ applies = 0

-----------------------------------------------------------------------------
(* Shapes shared by the steps *)

At(o, l) == pc[o] = l
Goto(o, l) == pc' = [pc EXCEPT ![o] = l]
Unlocked == mutex = None
Owns(o) == active /\ operation = o

(* Mutant: only the last PtyResult counts. *)
IncompleteReported(o) == returned[o] = "incomplete"

(* _add_termination_incomplete *)
Incomplete(o) == incomplete[o] \/ resolver[o] \/ opTerm[o] = "undrained"

Worker == <<st, pty, result, broken, raised, spawned>>

(* Mutant: _lock is not released on the way to the handler. *)
RaiseLocked(o) == Goto(o, "rollback") /\ UNCHANGED mutex

(* An exception leaves the with-block, so _lock is free, on its way to the *)
(* handler of run.                                                         *)
Raise(o) == Goto(o, "rollback") /\ mutex' = IF mutex = o THEN None ELSE mutex

-----------------------------------------------------------------------------
(* A worker: prepare, run Packwiz, record what became of its processes *)

(* begin_add: one operation at a time. *)
BeginAdd(o) ==
  /\ st[o] = "new" /\ active /\ operation = None /\ Unlocked
  /\ operation' = o
  /\ st' = [st EXCEPT ![o] = "created"]
  /\ \E b \in BOOLEAN : pty' = [pty EXCEPT ![o] = b]
  /\ UNCHANGED <<active, discard, held, locks, data, pc, result, broken, raised,
                 spawned, procs, closer>>

(* run: _mark_started *)
StartAdd(o) ==
  /\ st[o] = "created"
  /\ st' = [st EXCEPT ![o] = "running"]
  /\ Goto(o, "prepare")
  /\ UNCHANGED <<tx, locks, data, pty, result, broken, raised, spawned, procs, closer>>

(* _prepare: the checkpoint is created first and completed later. *)
Prepare(o) ==
  /\ At(o, "prepare") /\ Unlocked
  /\ \/ /\ Owns(o) /\ ~cancel[o]
        /\ copy' = [copy EXCEPT ![o] = "partial"]
        /\ Goto(o, "copying") /\ UNCHANGED mutex
     \/ Raise(o) /\ UNCHANGED copy
  /\ UNCHANGED <<tx, life, source, batches, saved, Worker, procs, closer>>

Copied(o) ==
  /\ At(o, "copying") /\ Unlocked
  /\ \/ /\ Owns(o) /\ ~cancel[o]
        /\ Goto(o, "launch") /\ UNCHANGED mutex
        /\ copy' = [copy EXCEPT ![o] = "full"]
        /\ saved' = [saved EXCEPT ![o] = source]
     \/ /\ Raise(o)
        /\ \/ UNCHANGED <<copy, saved>>
           \/ /\ copy' = [copy EXCEPT ![o] = "full"]
              /\ saved' = [saved EXCEPT ![o] = source]
  /\ UNCHANGED <<tx, life, source, batches, Worker, procs, closer>>

(* PackwizPtySession.run: nothing is started for a cancelled operation. *)
Launch(o) ==
  /\ At(o, "launch")
  /\ \/ Raise(o) /\ UNCHANGED <<alive, returned, spawned>>
     \/ /\ ~pty[o] /\ ~cancel[o]
        /\ Goto(o, "finish") /\ UNCHANGED <<mutex, alive, returned, spawned>>
     \/ /\ pty[o] /\ UNCHANGED mutex
        /\ IF cancel[o]
           THEN /\ returned' = [returned EXCEPT ![o] = "failed"]
                /\ Goto(o, "record") /\ UNCHANGED <<alive, spawned>>
           ELSE /\ alive' = [alive EXCEPT ![o] = @ \cup {"session"}]
                /\ spawned' = [spawned EXCEPT ![o] = TRUE]
                /\ Goto(o, "session") /\ UNCHANGED returned
  /\ UNCHANGED <<tx, life, data, st, pty, result, broken, raised, cancel, term, opTerm,
                 incomplete, resolver, closer>>

(* The process group is gone at the end of stop_process_group, or not. *)
Stopped(o, which, done) ==
  alive' = [alive EXCEPT ![o] = IF done THEN @ \ {which} ELSE @]

(* The session ends: the process exits by itself; or the group is stopped  *)
(* after cancellation, the deadline or the parent's exit; or reading the   *)
(* PTY or handling an event raises, and the group is stopped on the way.   *)
SessionEnds(o) ==
  /\ At(o, "session")
  /\ \/ /\ Stopped(o, "session", TRUE)
        /\ \E r \in {"ok", "failed"} : returned' = [returned EXCEPT ![o] = r]
        /\ Goto(o, "record") /\ UNCHANGED <<mutex, term, raised>>
     \/ \E done \in BOOLEAN :
          /\ "session" \notin alive[o] => done
          /\ Stopped(o, "session", done)
          /\ term' = [term EXCEPT ![o] = IF done THEN "drained" ELSE "undrained"]
          /\ \/ /\ returned' = [returned EXCEPT ![o] = IF done THEN "failed"
                                                               ELSE "incomplete"]
                /\ Goto(o, "record") /\ UNCHANGED <<mutex, raised>>
             \/ /\ Raise(o) /\ UNCHANGED returned
                /\ raised' = [raised EXCEPT ![o] = TRUE]
  /\ UNCHANGED <<tx, life, data, st, pty, result, broken, spawned, cancel, opTerm,
                 incomplete, resolver, closer>>

(* run takes the PtyResult over, then looks at the deadline and the        *)
(* cancellation.                                                           *)
Record(o) ==
  /\ At(o, "record")
  /\ opTerm' = [opTerm EXCEPT ![o] = term[o]]
  /\ incomplete' = [incomplete EXCEPT ![o] = returned[o] = "incomplete"]
  /\ \/ ~cancel[o] /\ Goto(o, "finish") /\ UNCHANGED mutex
     \/ Raise(o)
  /\ UNCHANGED <<tx, life, data, Worker, cancel, alive, returned, term, resolver,
                 closer>>

-----------------------------------------------------------------------------
(* A worker: _finish_add and _finish_url_add, which keep _lock throughout  *)

(* Mutant: the batch is removed, the staged source is not restored. *)
RolledBackBatchOnly(o) ==
  /\ batches' = batches \ {o}
  /\ source' = source
  /\ copy' = [copy EXCEPT ![o] = "none"]

(* Mutant: the batch stays. *)
RolledBackSourceOnly(o) ==
  /\ batches' = batches
  /\ source' = IF copy[o] = "full" THEN saved[o] ELSE source
  /\ copy' = [copy EXCEPT ![o] = "none"]

(* _rollback_add when every rename works. *)
RolledBack(o) ==
  /\ batches' = batches \ {o}
  /\ source' = IF copy[o] = "full" THEN saved[o] ELSE source
  /\ copy' = [copy EXCEPT ![o] = "none"]

(* A worker without a usable result rolls back inside _lock and returns; a *)
(* group that is still there keeps the transaction's only operation slot.  *)
Finish(o) ==
  /\ At(o, "finish") /\ Unlocked
  /\ \/ Raise(o) /\ UNCHANGED <<operation, data>>
     \/ /\ ~cancel[o] /\ Owns(o) /\ (pty[o] => returned[o] = "ok")
        /\ mutex' = o
        /\ Goto(o, "merge") /\ UNCHANGED <<operation, data>>
     \/ /\ ~cancel[o] /\ pty[o] /\ (~Owns(o) \/ returned[o] # "ok")
        /\ RolledBack(o) /\ UNCHANGED <<saved, mutex>>
        /\ operation' = IF returned[o] = "incomplete" THEN o
                        ELSE IF operation = o /\ ~Incomplete(o) THEN None
                        ELSE operation
        /\ Goto(o, "settle")
  /\ UNCHANGED <<active, discard, held, life, Worker, procs, closer>>

(* The merge starts helper processes, whose cleanup is recorded at once,   *)
(* and fails in the middle or reaches its last checkpoint.                 *)
Merge(o) ==
  /\ At(o, "merge")
  /\ \/ /\ ~cancel[o]
        /\ source' = source \cup {o}
        /\ Goto(o, "commit") /\ UNCHANGED <<mutex, alive, resolver, incomplete>>
     \/ /\ Raise(o)
        /\ source' \in {source, source \cup {o}}
        /\ \/ UNCHANGED <<alive, resolver, incomplete>>
           \/ /\ pty[o]
              /\ alive' = [alive EXCEPT ![o] = @ \cup {"resolver"}]
              /\ resolver' = [resolver EXCEPT ![o] = TRUE]
              /\ incomplete' = [incomplete EXCEPT ![o] = TRUE]
  /\ UNCHANGED <<tx, life, batches, copy, saved, Worker, cancel, returned, term,
                 opTerm, closer>>

(* The batch, the checkpoint and the slot; moving the checkpoint may fail. *)
Commit(o) ==
  /\ At(o, "commit")
  /\ batches' = batches \cup {o}
  /\ \/ /\ copy' = [copy EXCEPT ![o] = "none"]
        /\ operation' = None
        /\ result' = [result EXCEPT ![o] = "staged"]
        /\ mutex' = None /\ Goto(o, "settle")
     \/ Raise(o) /\ UNCHANGED <<copy, operation, result>>
  /\ UNCHANGED <<active, discard, held, life, source, saved, st, pty, broken, raised,
                 spawned, procs, closer>>

(* The handler of run calls _rollback_add, which may fail to restore.      *)
Rollback(o) ==
  /\ At(o, "rollback") /\ Unlocked
  /\ \/ /\ RolledBack(o)
        /\ operation' = IF operation = o /\ ~Incomplete(o) THEN None ELSE operation
        /\ UNCHANGED broken
     \/ /\ \/ RolledBack(o)
           \/ batches' = batches \ {o} /\ UNCHANGED <<source, copy>>
        /\ broken' = [broken EXCEPT ![o] = TRUE]
        /\ UNCHANGED operation
  /\ Goto(o, "settle")
  /\ UNCHANGED <<active, discard, held, locks, saved, st, pty, result, raised, spawned,
                 procs, closer>>

(* The finally block of run. *)
Settle(o) ==
  /\ At(o, "settle")
  /\ IF pty[o] /\ term[o] # "none"
     THEN /\ opTerm' = [opTerm EXCEPT ![o] = term[o]]
          /\ incomplete' = [incomplete EXCEPT ![o] = term[o] = "undrained" \/ resolver[o]]
     ELSE UNCHANGED <<opTerm, incomplete>>
  /\ result' = [result EXCEPT ![o] = IF @ = "none" THEN "failed" ELSE @]
  /\ Goto(o, "complete")
  /\ UNCHANGED <<tx, locks, data, st, pty, broken, raised, spawned, cancel, alive,
                 returned, term, resolver, closer>>

Complete(o) ==
  /\ At(o, "complete") /\ st[o] = "running"
  /\ st' = [st EXCEPT ![o] = "done"]
  /\ UNCHANGED <<tx, locks, data, pc, pty, result, broken, raised, spawned, procs, closer>>

(* Processes that survived their cleanup may end later. *)
GroupExits(o) ==
  /\ ~At(o, "session")
  /\ \E g \in alive[o] : Stopped(o, g, TRUE)
  /\ UNCHANGED <<tx, locks, data, worker, cancel, returned, term, opTerm, incomplete,
                 resolver, closer>>

-----------------------------------------------------------------------------
(* Cancellation *)

(* fail_operation_start: an operation nobody runs yet ends here.           *)
Aborted(o) ==
  /\ st' = [st EXCEPT ![o] = "done"]
  /\ result' = [result EXCEPT ![o] = "failed"]
  /\ operation' = IF operation = o THEN None ELSE operation

(* PackwizAddOperation.cancel of an operation somebody runs.  Of a finished*)
(* operation it first stops the resolver's process group once more, when   *)
(* the caller gives a deadline; then the session, once its process exists, *)
(* until that deadline or the operation's own.                             *)
StopProcesses(o, bounded) ==
  \E drainedR, drainedS \in BOOLEAN :
    LET retry   == /\ bounded /\ resolver[o] /\ st[o] = "done"
                   /\ incomplete[o] \/ opTerm[o] = "undrained"
        session == pty[o] /\ pc[o] \notin {"idle", "prepare", "copying"}
        gone    == "session" \notin alive[o]
        wait    == session /\ spawned[o]
    IN  /\ gone => drainedS
        /\ resolver' = [resolver EXCEPT ![o] = @ /\ ~(retry /\ drainedR)]
        /\ term' = [term EXCEPT ![o] = IF ~wait THEN @
                                       ELSE IF drainedS THEN "drained" ELSE "undrained"]
        /\ alive' = [alive EXCEPT ![o] =
                       @ \ ((IF retry /\ drainedR THEN {"resolver"} ELSE {})
                            \cup (IF wait /\ drainedS THEN {"session"} ELSE {}))]
        /\ opTerm' = [opTerm EXCEPT ![o] = IF session THEN term'[o] ELSE @]
        /\ incomplete' = [incomplete EXCEPT ![o] =
             IF session /\ term'[o] # "none"
             THEN term'[o] = "undrained" \/ resolver'[o]
             ELSE @ /\ (session \/ resolver'[o])]

(* Once the processes are gone a finished operation gives its slot back.   *)
CancelOperation(o, bounded) ==
  /\ st[o] \in {"created", "done"} => Unlocked
  /\ cancel' = [cancel EXCEPT ![o] = TRUE]
  /\ \/ /\ st[o] = "created" /\ Aborted(o)
        /\ UNCHANGED <<alive, term, opTerm, incomplete, resolver>>
     \/ /\ st[o] # "created" /\ StopProcesses(o, bounded)
        /\ operation' = IF /\ operation = o /\ st[o] = "done" /\ ~broken[o]
                           /\ ~(incomplete'[o] \/ resolver'[o])
                           /\ opTerm'[o] # "undrained"
                        THEN None ELSE operation
        /\ UNCHANGED <<st, result>>
  /\ UNCHANGED <<active, discard, held, locks, data, pc, pty, broken, raised, spawned,
                 returned>>

UserCancels(o) ==
  /\ st[o] # "new"
  /\ \E bounded \in BOOLEAN : CancelOperation(o, bounded)
  /\ UNCHANGED closer

(* cancel_menu: the event, and "0" for the menu Packwiz shows. *)
CancelMenu(o) ==
  /\ st[o] = "running" /\ ~cancel[o]
  /\ cancel' = [cancel EXCEPT ![o] = TRUE]
  /\ UNCHANGED <<tx, locks, data, worker, alive, returned, term, opTerm, incomplete,
                 resolver, closer>>

(* The worker thread could not be started. *)
StartFails(o) ==
  /\ st[o] = "created" /\ Unlocked
  /\ Aborted(o)
  /\ UNCHANGED <<active, discard, held, locks, data, pc, pty, broken, raised, spawned,
                 procs, closer>>

-----------------------------------------------------------------------------
(* apply holds both locks from its first check to its last step *)

ApplyStarts ==
  /\ life = None /\ Unlocked /\ applies < MaxApplies
  /\ life' = "apply" /\ mutex' = "apply"
  /\ applies' = applies + 1
  /\ UNCHANGED <<tx, data, worker, procs, dpc, dop>>

(* Refused, failed, or published; releasing the project lock may fail when *)
(* the source is published already, and then the transaction stays open.   *)
ApplyEnds ==
  /\ life = "apply"
  /\ life' = None /\ mutex' = None
  /\ \/ UNCHANGED <<active, discard, held>>
     \/ /\ active /\ operation = None
        /\ active' = FALSE /\ discard' = "discarded" /\ held' = FALSE
  /\ UNCHANGED <<operation, data, worker, procs, closer>>

-----------------------------------------------------------------------------
(* discard: one operation at a time, retried after a failure *)

Discarder(l) == dpc' = l

BeginDiscard ==
  /\ Unlocked /\ discard \in {"active", "failed"} /\ dpc \in {"none", "done"}
  /\ active' = FALSE /\ discard' = "discarding"
  /\ Discarder("created")
  /\ UNCHANGED <<held, operation, locks, data, worker, procs, dop, applies>>

DiscardStarts ==
  /\ dpc = "created"
  /\ Discarder("look") \/ Discarder("fail")
  /\ UNCHANGED <<tx, locks, data, worker, procs, dop, applies>>

(* Whether _operation is still running is asked outside _lock. *)
Look ==
  /\ dpc = "look" /\ Unlocked
  /\ dop' = operation
  /\ Discarder("cancel")
  /\ UNCHANGED <<tx, locks, data, worker, procs, applies>>

Running(o) == o # None /\ st[o] # "done"

(* A deadline is always given. *)
CancelRunning(here, next) ==
  /\ dpc = here
  /\ IF Running(dop)
     THEN /\ CancelOperation(dop, TRUE) /\ Discarder(next)
     ELSE /\ Discarder(next)
          /\ UNCHANGED <<tx, locks, data, worker, procs>>
  /\ UNCHANGED <<dop, applies>>

CancelFirst == CancelRunning("cancel", "enter")
CancelAgain == CancelRunning("cancelAgain", "wait")

Enter ==
  /\ dpc = "enter" /\ life = None /\ Unlocked
  /\ IF ~held /\ discard = "discarded"
     THEN Discarder("done") /\ UNCHANGED <<life, dop>>
     ELSE /\ life' = "discard" /\ dop' = operation
          /\ Discarder("cancelAgain")
  /\ UNCHANGED <<tx, mutex, data, worker, procs, applies>>

(* Mutant: the deadline is taken for the end of the operation. *)
AwaitNothing ==
  /\ dpc = "wait"
  /\ Discarder("retry")
  /\ UNCHANGED <<tx, locks, data, worker, procs, dop, applies>>

(* The operation ends, or the deadline comes first. *)
Await ==
  /\ dpc = "wait"
  /\ \/ ~Running(dop) /\ Discarder("retry")
     \/ Running(dop) /\ Discarder("fail")
  /\ UNCHANGED <<tx, locks, data, worker, procs, dop, applies>>

RetryCleanup ==
  /\ dpc = "retry"
  /\ Discarder("judge")
  /\ IF dop # None /\ Incomplete(dop)
     THEN CancelOperation(dop, TRUE)
     ELSE UNCHANGED <<tx, locks, data, worker, procs>>
  /\ UNCHANGED <<dop, applies>>

(* Broken rollback, processes left, or the deadline: the discard fails.    *)
Judge ==
  /\ dpc = "judge"
  /\ \/ Discarder("fail")
     \/ /\ dop # None => ~broken[dop] /\ ~Incomplete(dop)
        /\ Discarder("finish")
  /\ UNCHANGED <<tx, locks, data, worker, procs, dop, applies>>

FinishDiscard ==
  /\ dpc = "finish" /\ Unlocked
  /\ \/ Discarder("fail") /\ UNCHANGED <<discard, held, life>>
     \/ /\ held' = FALSE /\ discard' = "discarded" /\ life' = None
        /\ Discarder("done")
  /\ UNCHANGED <<active, operation, mutex, data, worker, procs, dop, applies>>

(* Mutant: a failed discard keeps _lifecycle_lock. *)
DiscardFailsLocked ==
  /\ dpc = "fail" /\ Unlocked
  /\ discard' = "failed"
  /\ Discarder("done")
  /\ UNCHANGED <<active, held, operation, locks, data, worker, procs, dop, applies>>

(* The transaction keeps its project lock. *)
DiscardFails ==
  /\ dpc = "fail" /\ Unlocked
  /\ discard' = "failed"
  /\ life' = IF life = "discard" THEN None ELSE life
  /\ Discarder("done")
  /\ UNCHANGED <<active, held, operation, mutex, data, worker, procs, dop, applies>>

WorkerStep(o) == \/ Prepare(o) \/ Copied(o) \/ Launch(o) \/ SessionEnds(o)
                 \/ Record(o) \/ Finish(o) \/ Merge(o) \/ Commit(o)
                 \/ Rollback(o) \/ Settle(o) \/ Complete(o)

DiscardStep == \/ DiscardStarts \/ Look \/ CancelFirst \/ Enter \/ CancelAgain
               \/ Await \/ RetryCleanup \/ Judge \/ FinishDiscard \/ DiscardFails

Next == \/ \E o \in Op : \/ BeginAdd(o) \/ StartAdd(o) \/ StartFails(o)
                         \/ UserCancels(o) \/ CancelMenu(o) \/ GroupExits(o) \/ WorkerStep(o)
        \/ ApplyStarts \/ ApplyEnds
        \/ BeginDiscard \/ DiscardStep

(* Threads that run are scheduled; all their waits end by a deadline.      *)
Fairness == /\ \A o \in Op : WF_vars(WorkerStep(o))
            /\ WF_vars(ApplyEnds) /\ WF_vars(DiscardStep)

Spec == Init /\ [][Next]_vars /\ Fairness

-----------------------------------------------------------------------------
(* Correctness *)

(* No process of the transaction outlives its project lock: the lock is    *)
(* given up only when no process group of any add operation is left, apart *)
(* from sessions that ended by an exception (see NothingOutlivesTheLock).  *)
NoOrphans == held \/ \A o \in Op : raised[o] \/ alive[o] = {}

(* A transaction without a current operation is consistent: its staged     *)
(* source is exactly what its committed batches say, whatever failed, was  *)
(* cancelled or is still cleaning up.  This is what apply publishes.       *)
SourceIsCommitted ==
  /\ TypeOK
  /\ operation = None => source = batches /\ \A o \in Op : copy[o] # "full"

(* An add that reports failure has left nothing in the staged source, and  *)
(* one that reports success is in it, unless it reports a broken rollback. *)
ResultsAreTrue ==
  \A o \in Op : st[o] = "done" /\ ~broken[o] =>
                  (result[o] = "staged" <=> o \in source) /\ (o \in source <=> o \in batches)

(* After the project lock is given up no thread of the transaction changes *)
(* its staged source any more.                                             *)
SealedAfterRelease == [][~held => UNCHANGED <<source, batches, copy>>]_vars

(* A discard that was asked for ends, in either way, whatever the add and  *)
(* apply threads are doing, and every add that was started ends and        *)
(* reports: no thread waits for another one forever.                       *)
Answered == discard # "discarding" /\ \A o \in Op : st[o] # "running"
LeavingEnds == []<>Answered

(* Documented: an undrained process group is an integrity failure and the  *)
(* project lock is kept.                                                   *)
NothingOutlivesTheLock == held \/ \A o \in Op : alive[o] = {}
=============================================================================
