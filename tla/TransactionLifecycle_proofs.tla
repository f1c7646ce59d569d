-------------------- MODULE TransactionLifecycle_proofs --------------------
(***************************************************************************)
(* Proofs about TransactionLifecycle, for any number of add operations and *)
(* of calls of apply.                                                      *)
(***************************************************************************)
EXTENDS TransactionLifecycle, TLAPS

(* A worker before its last two steps: it may still change the staged      *)
(* source or start processes.                                              *)
Working(o) == pc[o] \notin {"idle", "settle", "complete"}

(* How far a worker is says in which state its operation is.               *)
StatesFollowSteps ==
  \A o \in Op :
    /\ st[o] \in {"new", "created"} => pc[o] = "idle"
    /\ st[o] = "running" => pc[o] # "idle"
    /\ st[o] = "done" => pc[o] \in {"idle", "complete"}
    /\ raised[o] => pc[o] \in {"rollback", "settle", "complete"}
    /\ pc[o] \in {"merge", "commit"} /\ pty[o] => returned[o] = "ok"

(* An operation owns the transaction's only slot until it has ended, and   *)
(* for as long as something of it is left: its checkpoint, a rollback that *)
(* failed, or a process group.                                             *)
SlotIsKept ==
  \A o \in Op :
    /\ Working(o) \/ st[o] = "created" => operation = o
    /\ copy[o] # "none" \/ broken[o] => operation = o
    /\ alive[o] # {} /\ ~raised[o] => operation = o

(* The staged source differs from the committed batches by the operation   *)
(* that is merged at most, and its checkpoint is what to return to.        *)
SourceShape ==
  \A o \in Op :
    /\ operation # o => (o \in source <=> o \in batches)
    /\ copy[o] = "full" => saved[o] = batches \ {o}
    /\ pc[o] \in {"idle", "prepare"} => copy[o] = "none"
    /\ pc[o] = "copying" => copy[o] = "partial"
    /\ pc[o] \in {"launch", "session", "record", "finish", "merge", "commit"} => copy[o] = "full"
    /\ pc[o] \notin {"commit", "rollback", "settle", "complete"} => o \notin source \cup batches
    /\ pc[o] = "commit" => o \in source /\ o \notin batches
    /\ pc[o] = "rollback" /\ copy[o] # "full" => o \notin source \cup batches
    /\ pc[o] \in {"settle", "complete"} /\ ~broken[o] =>
         copy[o] = "none" /\ (o \in source <=> o \in batches)
    /\ broken[o] => pc[o] \in {"settle", "complete"}

(* A result is known only at the end, and it is what became of the source. *)
ResultShape ==
  \A o \in Op :
    /\ pc[o] \notin {"settle", "complete"} => result[o] # "staged"
    /\ pc[o] \in {"settle", "complete"} /\ ~broken[o] => (result[o] = "staged" <=> o \in source)

(* A process group that outlives its step is reported.                     *)
GroupsAreReported ==
  \A o \in Op :
    /\ "resolver" \in alive[o] =>
         resolver[o] /\ pc[o] \in {"rollback", "settle", "complete"}
    /\ "session" \in alive[o] =>
         /\ spawned[o] /\ pty[o]
         /\ pc[o] \notin {"idle", "prepare", "copying", "launch"}
         /\ pc[o] # "session" => term[o] = "undrained"
         /\ ~raised[o] /\ pc[o] # "session" => returned[o] = "incomplete"
         /\ ~raised[o] /\ pc[o] \notin {"session", "record"} => opTerm[o] = "undrained"

(* A discard looks at the operation that owns the slot, waits for its end  *)
(* and for its process groups.                                             *)
DiscardShape ==
  /\ dpc \notin {"none", "done"} => ~active
  /\ dpc \in {"cancelAgain", "wait", "retry", "judge", "finish"} => operation \in {None, dop}
  /\ dpc \in {"retry", "judge", "finish"} /\ dop # None => st[dop] = "done"
  /\ dpc = "finish" /\ dop # None => raised[dop] \/ alive[dop] = {}

(* Without the project lock no worker is left that could do anything.      *)
ReleasedIsOver ==
  ~held => ~active /\ \A o \in Op : ~Working(o) /\ st[o] # "created"

IInv == /\ TypeOK /\ NoOrphans
        /\ StatesFollowSteps /\ SlotIsKept
        /\ SourceShape /\ ResultShape /\ GroupsAreReported
        /\ DiscardShape /\ ReleasedIsOver

USE OpAssumption, AppliesAssumption

LEMMA InitIInv == Init => IInv
<1> SUFFICES ASSUME Init PROVE IInv
  OBVIOUS
<1> USE DEF Init
<1>1. TypeOK /\ NoOrphans
  BY DEF TypeOK, Report, NoOrphans
<1>2. StatesFollowSteps /\ SlotIsKept
  BY DEF StatesFollowSteps, SlotIsKept, Working
<1>3. SourceShape /\ ResultShape
  BY DEF SourceShape, ResultShape
<1>4. GroupsAreReported /\ DiscardShape /\ ReleasedIsOver
  BY DEF GroupsAreReported, DiscardShape, ReleasedIsOver
<1> QED BY <1>1, <1>2, <1>3, <1>4 DEF IInv

(* Stopping the groups of an operation only removes groups, those that are *)
(* left are known to be left, and nothing else is touched.                 *)
LEMMA StopEffect ==
  ASSUME TypeOK, NEW o \in Op, NEW bounded \in BOOLEAN, StopProcesses(o, bounded)
  PROVE  /\ alive' \in [Op -> SUBSET {"session", "resolver"}]
         /\ term' \in [Op -> Report] /\ opTerm' \in [Op -> Report]
         /\ incomplete' \in [Op -> BOOLEAN] /\ resolver' \in [Op -> BOOLEAN]
         /\ \A p \in Op \ {o} :
              /\ alive'[p] = alive[p] /\ term'[p] = term[p] /\ opTerm'[p] = opTerm[p]
              /\ incomplete'[p] = incomplete[p] /\ resolver'[p] = resolver[p]
         /\ alive'[o] \subseteq alive[o]
         /\ "resolver" \in alive'[o] /\ resolver[o] => resolver'[o]
         /\ /\ "session" \in alive'[o] /\ spawned[o] /\ pty[o]
            /\ pc[o] \notin {"idle", "prepare", "copying"}
            => term'[o] = "undrained" /\ opTerm'[o] = "undrained"
<1> DEFINE retry == /\ bounded /\ resolver[o] /\ st[o] = "done"
                    /\ incomplete[o] \/ opTerm[o] = "undrained"
           session == pty[o] /\ pc[o] \notin {"idle", "prepare", "copying"}
           wait == session /\ spawned[o]
<1>1. PICK drainedR \in BOOLEAN, drainedS \in BOOLEAN :
        /\ "session" \notin alive[o] => drainedS
        /\ resolver' = [resolver EXCEPT ![o] = @ /\ ~(retry /\ drainedR)]
        /\ term' = [term EXCEPT ![o] = IF ~wait THEN @
                                       ELSE IF drainedS THEN "drained" ELSE "undrained"]
        /\ alive' = [alive EXCEPT ![o] =
                       @ \ ((IF retry /\ drainedR THEN {"resolver"} ELSE {})
                            \cup (IF wait /\ drainedS THEN {"session"} ELSE {}))]
        /\ opTerm' = [opTerm EXCEPT ![o] = IF session THEN term'[o] ELSE @]
        /\ incomplete' = [incomplete EXCEPT ![o] =
             IF session /\ term'[o] # "none"
             THEN term'[o] = "undrained" \/ resolver'[o]
             ELSE @ /\ (session \/ resolver'[o])]
  BY DEF StopProcesses
<1>2. session \in BOOLEAN /\ wait \in BOOLEAN /\ retry \in BOOLEAN
  BY DEF TypeOK
<1> HIDE DEF session, wait, retry
<1>3. /\ alive' \in [Op -> SUBSET {"session", "resolver"}] /\ alive'[o] \subseteq alive[o]
      /\ term' \in [Op -> Report] /\ resolver' \in [Op -> BOOLEAN]
  BY <1>1, <1>2 DEF TypeOK, Report
<1>4. opTerm' \in [Op -> Report]
  BY <1>1, <1>2, <1>3 DEF TypeOK
<1>5. incomplete' \in [Op -> BOOLEAN]
  BY <1>1, <1>2, <1>3 DEF TypeOK
<1>6. \A p \in Op \ {o} :
        /\ alive'[p] = alive[p] /\ term'[p] = term[p] /\ opTerm'[p] = opTerm[p]
        /\ incomplete'[p] = incomplete[p] /\ resolver'[p] = resolver[p]
  BY <1>1 DEF TypeOK
<1>7. "resolver" \in alive'[o] /\ resolver[o] => resolver'[o]
  BY <1>1, <1>2 DEF TypeOK
<1>8. "session" \in alive'[o] /\ wait => term'[o] = "undrained" /\ opTerm'[o] = "undrained"
  BY <1>1, <1>2 DEF TypeOK, wait
<1> QED BY <1>3, <1>4, <1>5, <1>6, <1>7, <1>8 DEF wait, session

(* A cancellation keeps what holds of workers, slot, source and groups.    *)
LEMMA CancelKeeps ==
  ASSUME IInv, NEW o \in Op, NEW bounded \in BOOLEAN, CancelOperation(o, bounded)
  PROVE  /\ StatesFollowSteps' /\ ResultShape' /\ SlotIsKept' /\ SourceShape'
         /\ GroupsAreReported' /\ ReleasedIsOver' /\ NoOrphans'
         /\ active' = active /\ operation' \in {operation, None}
         /\ \A p \in Op : /\ st[p] = "done" => st'[p] = "done"
                          /\ raised'[p] = raised[p] /\ alive'[p] \subseteq alive[p]
<1> USE DEF IInv, tx, locks, data, worker, procs, closer
<1>0. UNCHANGED <<active, held, source, batches, copy, saved, pc, pty, broken, raised, spawned, returned>>
  BY DEF CancelOperation
<1>1. CASE st[o] = "created"
  <2>1. /\ st' = [st EXCEPT ![o] = "done"] /\ result' = [result EXCEPT ![o] = "failed"]
        /\ operation' = IF operation = o THEN None ELSE operation
        /\ UNCHANGED <<alive, term, opTerm, resolver>>
    BY <1>1 DEF CancelOperation, Aborted
  <2>2. pc[o] = "idle" /\ copy[o] = "none" /\ ~broken[o] /\ alive[o] = {}
    BY <1>1 DEF StatesFollowSteps, SourceShape, GroupsAreReported, TypeOK
  <2>3. StatesFollowSteps' /\ ResultShape'
    BY <1>0, <2>1, <2>2 DEF StatesFollowSteps, ResultShape, TypeOK
  <2>4. SlotIsKept'
    BY <1>0, <2>1, <2>2 DEF SlotIsKept, Working, TypeOK
  <2>5. SourceShape' /\ GroupsAreReported'
    BY <1>0, <2>1, <2>2 DEF SourceShape, GroupsAreReported, TypeOK
  <2>6. ReleasedIsOver' /\ NoOrphans'
    BY <1>0, <2>1 DEF ReleasedIsOver, NoOrphans, Working, TypeOK
  <2> QED BY <1>0, <2>1, <2>3, <2>4, <2>5, <2>6 DEF TypeOK
<1>2. CASE st[o] # "created"
  <2>1. /\ StopProcesses(o, bounded) /\ UNCHANGED <<st, result>>
        /\ operation' = IF /\ operation = o /\ st[o] = "done" /\ ~broken[o]
                           /\ ~(incomplete'[o] \/ resolver'[o])
                           /\ opTerm'[o] # "undrained"
                        THEN None ELSE operation
    BY <1>2 DEF CancelOperation
  <2>2. \A p \in Op : /\ alive'[p] \subseteq alive[p]
                      /\ p # o => /\ alive'[p] = alive[p] /\ term'[p] = term[p]
                                  /\ opTerm'[p] = opTerm[p] /\ resolver'[p] = resolver[p]
    BY <2>1, StopEffect
  <2>3. StatesFollowSteps' /\ ResultShape'
    BY <1>0, <2>1 DEF StatesFollowSteps, ResultShape
  <2>4. GroupsAreReported'
    <3>1. "resolver" \in alive'[o] => resolver'[o]
      BY <2>1, <2>2, StopEffect DEF GroupsAreReported
    <3>2. "session" \in alive'[o] => term'[o] = "undrained" /\ opTerm'[o] = "undrained"
      BY <2>1, <2>2, StopEffect DEF GroupsAreReported
    <3> QED BY <1>0, <2>2, <3>1, <3>2 DEF GroupsAreReported
  <2>5. SourceShape'
    <3>1. CASE operation' = operation
      BY <1>0, <2>1, <3>1 DEF SourceShape
    <3>2. CASE operation' # operation
      <4>1. operation = o /\ st[o] = "done" /\ ~broken[o]
        BY <2>1, <3>2
      <4>2. o \in source <=> o \in batches
        BY <4>1 DEF StatesFollowSteps, SourceShape
      <4> QED BY <1>0, <2>1, <4>1, <4>2 DEF SourceShape
    <3> QED BY <3>1, <3>2
  <2>6. SlotIsKept'
    <3>1. CASE operation' = operation
      BY <1>0, <2>1, <2>2, <3>1 DEF SlotIsKept, Working
    <3>2. CASE operation' # operation
      <4>1. /\ operation = o /\ st[o] = "done" /\ ~broken[o]
            /\ ~resolver'[o] /\ opTerm'[o] # "undrained"
        BY <2>1, <3>2
      <4>2. pc[o] \in {"idle", "complete"} /\ copy[o] = "none"
        BY <4>1 DEF StatesFollowSteps, SourceShape
      <4>3. raised[o] \/ alive'[o] = {}
        BY <1>0, <2>4, <4>1, <4>2, StopEffect, <2>1 DEF GroupsAreReported
      <4> QED BY <1>0, <2>1, <2>2, <4>1, <4>2, <4>3 DEF SlotIsKept, Working
    <3> QED BY <3>1, <3>2
  <2>7. ReleasedIsOver' /\ NoOrphans'
    BY <1>0, <2>1, <2>2 DEF ReleasedIsOver, NoOrphans, Working
  <2> QED BY <1>0, <2>1, <2>2, <2>3, <2>4, <2>5, <2>6, <2>7
<1> QED BY <1>1, <1>2

Phase == {"idle", "prepare", "copying", "launch", "session", "record", "finish", "merge",
          "commit", "rollback", "settle", "complete"}

(* A worker goes on from one phase to another, or to the handler.          *)
LEMMA WorkerGoes ==
  ASSUME TypeOK, NEW o \in Op, NEW l \in Phase,
         (Goto(o, l) /\ mutex' \in {mutex, None, o}) \/ Raise(o)
  PROVE  mutex' \in Op \cup {None, "apply"} /\ pc' \in [Op -> Phase]
<1>1. mutex \in Op \cup {None, "apply"} /\ pc \in [Op -> Phase]
  BY DEF TypeOK, Phase
<1>2. mutex' \in Op \cup {None, "apply"}
  BY <1>1 DEF Raise
<1>3. PICK k \in Phase : pc' = [pc EXCEPT ![o] = k]
  BY DEF Goto, Raise, Phase
<1> QED BY <1>1, <1>2, <1>3

(* It keeps the types, whatever the discarding thread does next.           *)
LEMMA CancelTypes ==
  ASSUME TypeOK, NEW o \in Op, NEW bounded \in BOOLEAN, CancelOperation(o, bounded),
         UNCHANGED <<dop, applies>>,
         dpc' \in {dpc, "enter", "wait", "judge"}
  PROVE  TypeOK'
<1> USE DEF TypeOK, tx, locks, data, worker, procs, closer
<1>1. CASE st[o] = "created"
  BY <1>1 DEF CancelOperation, Aborted
<1>2. CASE st[o] # "created"
  <2>1. StopProcesses(o, bounded) /\ UNCHANGED <<st, result>>
    BY <1>2 DEF CancelOperation
  <2>2. operation' \in {operation, None} /\ cancel' \in [Op -> BOOLEAN]
    BY <1>2 DEF CancelOperation
  <2>3. /\ alive' \in [Op -> SUBSET {"session", "resolver"}]
        /\ term' \in [Op -> Report] /\ opTerm' \in [Op -> Report]
        /\ incomplete' \in [Op -> BOOLEAN] /\ resolver' \in [Op -> BOOLEAN]
    BY <2>1, StopEffect
  <2>4. UNCHANGED <<active, discard, held, locks, data, pc, pty, broken, raised, spawned, returned>>
    BY DEF CancelOperation
  <2> QED BY <2>1, <2>2, <2>3, <2>4
<1> QED BY <1>1, <1>2


LEMMA NextTypeOK == IInv /\ [Next]_vars => TypeOK'
<1> SUFFICES ASSUME IInv, [Next]_vars PROVE TypeOK'
  OBVIOUS
<1> USE DEF At, Goto, Unlocked, Owns, Raise, Worker, Stopped, Discarder, Aborted, tx, locks, data, worker, procs, closer
<1>0. TypeOK
  BY DEF IInv
<1>1. ASSUME NEW o \in Op, BeginAdd(o) PROVE TypeOK'
  BY <1>0, <1>1 DEF BeginAdd, TypeOK, Report
<1>2. ASSUME NEW o \in Op, StartAdd(o) PROVE TypeOK'
  BY <1>0, <1>2 DEF StartAdd, TypeOK, Report
<1>3. ASSUME NEW o \in Op, StartFails(o) PROVE TypeOK'
  BY <1>0, <1>3 DEF StartFails, TypeOK, Report
<1>4. ASSUME NEW o \in Op, CancelMenu(o) PROVE TypeOK'
  BY <1>0, <1>4 DEF CancelMenu, TypeOK, Report
<1>5. ASSUME NEW o \in Op, GroupExits(o) PROVE TypeOK'
  BY <1>0, <1>5 DEF GroupExits, TypeOK, Report
<1>6. ASSUME NEW o \in Op, Prepare(o) PROVE TypeOK'
  BY <1>0, <1>6 DEF Prepare, TypeOK, Report
<1>7. ASSUME NEW o \in Op, Copied(o) PROVE TypeOK'
  <2>1. mutex' \in Op \cup {None, "apply"} /\ pc' \in [Op -> Phase]
    BY <1>0, <1>7, WorkerGoes DEF Copied, Phase
  <2>2. copy' \in [Op -> {"none", "partial", "full"}] /\ saved' \in [Op -> SUBSET Op]
    BY <1>0, <1>7 DEF Copied, TypeOK
  <2>3. UNCHANGED <<tx, life, source, batches, Worker, procs, closer>>
    BY <1>7 DEF Copied
  <2> QED BY <1>0, <2>1, <2>2, <2>3 DEF TypeOK, Phase
<1>8. ASSUME NEW o \in Op, Launch(o) PROVE TypeOK'
  <2>1. mutex' \in Op \cup {None, "apply"} /\ pc' \in [Op -> Phase]
    BY <1>0, <1>8, WorkerGoes DEF Launch, Phase
  <2>2. alive' \in [Op -> SUBSET {"session", "resolver"}]
    <3>1. alive[o] \cup {"session"} \in SUBSET {"session", "resolver"}
      BY <1>0 DEF TypeOK
    <3>2. alive' = alive \/ alive' = [alive EXCEPT ![o] = alive[o] \cup {"session"}]
      BY <1>8 DEF Launch
    <3> QED BY <1>0, <3>1, <3>2 DEF TypeOK
  <2>3. spawned' \in [Op -> BOOLEAN] /\ returned' \in [Op -> {"ok", "failed", "incomplete"}]
    <3>1. /\ spawned' = spawned \/ spawned' = [spawned EXCEPT ![o] = TRUE]
          /\ returned' = returned \/ returned' = [returned EXCEPT ![o] = "failed"]
      BY <1>8 DEF Launch
    <3>2. spawned' \in [Op -> BOOLEAN]
      BY <1>0, <3>1 DEF TypeOK
    <3>3. returned' \in [Op -> {"ok", "failed", "incomplete"}]
      BY <1>0, <3>1 DEF TypeOK
    <3> QED BY <3>2, <3>3
  <2>4. UNCHANGED <<tx, life, data, st, pty, result, broken, raised, cancel, term, opTerm,
                   incomplete, resolver, closer>>
    BY <1>8 DEF Launch
  <2> QED BY <1>0, <2>1, <2>2, <2>3, <2>4 DEF TypeOK, Phase
<1>9. ASSUME NEW o \in Op, SessionEnds(o) PROVE TypeOK'
  <2>1. mutex' \in Op \cup {None, "apply"} /\ pc' \in [Op -> Phase]
    BY <1>0, <1>9, WorkerGoes DEF SessionEnds, Phase
  <2>2. alive' \in [Op -> SUBSET {"session", "resolver"}]
    BY <1>0, <1>9 DEF SessionEnds, TypeOK
  <2>3. returned' \in [Op -> {"ok", "failed", "incomplete"}]
    BY <1>0, <1>9 DEF SessionEnds, TypeOK
  <2>4. term' \in [Op -> Report]
    BY <1>0, <1>9 DEF SessionEnds, TypeOK, Report
  <2>5. raised' \in [Op -> BOOLEAN]
    <3>1. raised' = raised \/ raised' = [raised EXCEPT ![o] = TRUE]
      BY <1>9 DEF SessionEnds
    <3> QED BY <1>0, <3>1 DEF TypeOK
  <2>6. UNCHANGED <<tx, life, data, st, pty, result, broken, spawned, cancel, opTerm,
                   incomplete, resolver, closer>>
    BY <1>9 DEF SessionEnds
  <2> QED BY <1>0, <2>1, <2>2, <2>3, <2>4, <2>5, <2>6 DEF TypeOK, Phase
<1>10. ASSUME NEW o \in Op, Record(o) PROVE TypeOK'
  <2>1. mutex' \in Op \cup {None, "apply"} /\ pc' \in [Op -> Phase]
    BY <1>0, <1>10, WorkerGoes DEF Record, Phase
  <2>2. opTerm' \in [Op -> Report] /\ incomplete' \in [Op -> BOOLEAN]
    BY <1>0, <1>10 DEF Record, TypeOK
  <2>3. UNCHANGED <<tx, life, data, Worker, cancel, alive, returned, term, resolver, closer>>
    BY <1>10 DEF Record
  <2> QED BY <1>0, <2>1, <2>2, <2>3 DEF TypeOK, Phase
<1>11. ASSUME NEW o \in Op, Finish(o) PROVE TypeOK'
  <2>1. mutex' \in Op \cup {None, "apply"} /\ pc' \in [Op -> Phase]
    BY <1>0, <1>11, WorkerGoes DEF Finish, Phase
  <2>2. operation' \in Op \cup {None}
    BY <1>0, <1>11 DEF Finish, TypeOK
  <2>3. /\ source' \in SUBSET Op /\ batches' \in SUBSET Op /\ saved' = saved
        /\ copy' \in [Op -> {"none", "partial", "full"}]
    BY <1>0, <1>11 DEF Finish, RolledBack, TypeOK
  <2>4. UNCHANGED <<active, discard, held, life, Worker, procs, closer>>
    BY <1>11 DEF Finish
  <2> QED BY <1>0, <2>1, <2>2, <2>3, <2>4 DEF TypeOK, Phase
<1>12. ASSUME NEW o \in Op, Merge(o) PROVE TypeOK'
  <2>1. mutex' \in Op \cup {None, "apply"} /\ pc' \in [Op -> Phase]
    BY <1>0, <1>12, WorkerGoes DEF Merge, Phase
  <2>2. source' \in SUBSET Op
    BY <1>0, <1>12 DEF Merge, TypeOK
  <2>3. alive' \in [Op -> SUBSET {"session", "resolver"}]
    <3>1. alive[o] \cup {"resolver"} \in SUBSET {"session", "resolver"}
      BY <1>0 DEF TypeOK
    <3>2. alive' = alive \/ alive' = [alive EXCEPT ![o] = alive[o] \cup {"resolver"}]
      BY <1>12 DEF Merge
    <3> QED BY <1>0, <3>1, <3>2 DEF TypeOK
  <2>4. resolver' \in [Op -> BOOLEAN] /\ incomplete' \in [Op -> BOOLEAN]
    <3>1. /\ resolver' = resolver \/ resolver' = [resolver EXCEPT ![o] = TRUE]
          /\ incomplete' = incomplete \/ incomplete' = [incomplete EXCEPT ![o] = TRUE]
      BY <1>12 DEF Merge
    <3> QED BY <1>0, <3>1 DEF TypeOK
  <2>5. UNCHANGED <<tx, life, batches, copy, saved, Worker, cancel, returned, term, opTerm,
                   closer>>
    BY <1>12 DEF Merge
  <2> QED BY <1>0, <2>1, <2>2, <2>3, <2>4, <2>5 DEF TypeOK, Phase
<1>13. ASSUME NEW o \in Op, Commit(o) PROVE TypeOK'
  <2>1. mutex' \in Op \cup {None, "apply"} /\ pc' \in [Op -> Phase]
    BY <1>0, <1>13, WorkerGoes DEF Commit, Phase
  <2>2. operation' \in Op \cup {None} /\ batches' \in SUBSET Op
    BY <1>0, <1>13 DEF Commit, TypeOK
  <2>3. copy' \in [Op -> {"none", "partial", "full"}] /\ result' \in [Op -> {"none", "staged", "failed"}]
    BY <1>0, <1>13 DEF Commit, TypeOK
  <2>4. UNCHANGED <<active, discard, held, life, source, saved, st, pty, broken, raised,
                   spawned, procs, closer>>
    BY <1>13 DEF Commit
  <2> QED BY <1>0, <2>1, <2>2, <2>3, <2>4 DEF TypeOK, Phase
<1>14. ASSUME NEW o \in Op, Rollback(o) PROVE TypeOK'
  <2>1. /\ source' \in SUBSET Op /\ batches' \in SUBSET Op
        /\ copy' \in [Op -> {"none", "partial", "full"}]
    BY <1>0, <1>14 DEF Rollback, TypeOK, RolledBack
  <2>2. broken' \in [Op -> BOOLEAN] /\ operation' \in Op \cup {None}
    BY <1>0, <1>14 DEF Rollback, TypeOK
  <2>3. pc' \in [Op -> Phase]
    BY <1>0, <1>14 DEF Rollback, TypeOK, Phase
  <2>4. /\ UNCHANGED <<active, discard, held, locks, saved, st, pty, result, raised, spawned>>
        /\ UNCHANGED <<procs, closer>>
    BY <1>14 DEF Rollback
  <2> QED BY <1>0, <2>1, <2>2, <2>3, <2>4 DEF TypeOK, Phase
<1>15. ASSUME NEW o \in Op, Settle(o) PROVE TypeOK'
  <2>1. mutex' \in Op \cup {None, "apply"} /\ pc' \in [Op -> Phase]
    <3>1. pc' = [pc EXCEPT ![o] = "complete"] /\ mutex' = mutex
      BY <1>15 DEF Settle
    <3> QED BY <1>0, <3>1, WorkerGoes DEF Phase
  <2>2. opTerm' \in [Op -> Report] /\ incomplete' \in [Op -> BOOLEAN]
    <3>1. opTerm \in [Op -> Report] /\ incomplete \in [Op -> BOOLEAN] /\ term[o] \in Report
      BY <1>0 DEF TypeOK
    <3>2. \E b \in BOOLEAN :
            \/ UNCHANGED <<opTerm, incomplete>>
            \/ /\ opTerm' = [opTerm EXCEPT ![o] = term[o]]
               /\ incomplete' = [incomplete EXCEPT ![o] = b]
      BY <1>0, <1>15 DEF Settle, TypeOK
    <3> QED BY <3>1, <3>2
  <2>3. result' \in [Op -> {"none", "staged", "failed"}]
    BY <1>0, <1>15 DEF Settle, TypeOK
  <2>4. UNCHANGED <<tx, locks, data, st, pty, broken, raised, spawned, cancel, alive, returned,
                   term, resolver, closer>>
    BY <1>15 DEF Settle
  <2> QED BY <1>0, <2>1, <2>2, <2>3, <2>4 DEF TypeOK, Phase
<1>16. ASSUME NEW o \in Op, Complete(o) PROVE TypeOK'
  BY <1>0, <1>16 DEF Complete, TypeOK, Report
<1>17. CASE ApplyStarts
  BY <1>0, <1>17 DEF ApplyStarts, TypeOK, Report
<1>18. CASE ApplyEnds
  <2>1. /\ UNCHANGED <<operation, data, worker, procs, closer>>
        /\ active' \in BOOLEAN /\ held' \in BOOLEAN /\ discard' \in {discard, "discarded"}
        /\ mutex' = None /\ life' = None
    BY <1>0, <1>18 DEF ApplyEnds, TypeOK
  <2> QED BY <1>0, <2>1 DEF TypeOK
<1>19. CASE BeginDiscard
  BY <1>0, <1>19 DEF BeginDiscard, TypeOK, Report
<1>20. CASE DiscardStarts
  BY <1>0, <1>20 DEF DiscardStarts, TypeOK, Report
<1>21. CASE Look
  BY <1>0, <1>21 DEF Look, TypeOK, Report
<1>22. CASE Enter
  BY <1>0, <1>22 DEF Enter, TypeOK, Report
<1>23. CASE Await
  BY <1>0, <1>23 DEF Await, TypeOK, Report
<1>24. CASE Judge
  BY <1>0, <1>24 DEF Judge, TypeOK, Report
<1>25. CASE FinishDiscard
  <2>1. /\ UNCHANGED <<active, operation, mutex, data, worker, procs, dop, applies>>
        /\ held' \in BOOLEAN /\ discard' \in {discard, "discarded"} /\ life' \in {life, None}
        /\ dpc' \in {"fail", "done"}
    BY <1>0, <1>25 DEF FinishDiscard, TypeOK
  <2> QED BY <1>0, <2>1 DEF TypeOK
<1>26. CASE DiscardFails
  BY <1>0, <1>26 DEF DiscardFails, TypeOK, Report
<1>27. CASE UNCHANGED vars
  BY <1>0, <1>27 DEF vars, TypeOK, Report
<1>28. ASSUME NEW o \in Op, UserCancels(o) PROVE TypeOK'
  BY <1>0, <1>28, CancelTypes DEF UserCancels
<1>29. CASE CancelFirst \/ CancelAgain
  <2>1. CASE Running(dop)
    <3>1. dop \in Op /\ CancelOperation(dop, TRUE) /\ UNCHANGED <<dop, applies>> /\ dpc' \in {"enter", "wait"}
      BY <1>0, <1>29, <2>1 DEF CancelFirst, CancelAgain, CancelRunning, Running, TypeOK
    <3> QED BY <1>0, <3>1, CancelTypes
  <2>2. CASE ~Running(dop)
    BY <1>0, <1>29, <2>2 DEF CancelFirst, CancelAgain, CancelRunning, TypeOK
  <2> QED BY <2>1, <2>2
<1>30. CASE RetryCleanup
  <2>1. CASE dop # None /\ Incomplete(dop)
    <3>1. dop \in Op /\ CancelOperation(dop, TRUE) /\ UNCHANGED <<dop, applies>> /\ dpc' = "judge"
      BY <1>0, <1>30, <2>1 DEF RetryCleanup, TypeOK
    <3> QED BY <1>0, <3>1, CancelTypes
  <2>2. CASE ~(dop # None /\ Incomplete(dop))
    <3>1. UNCHANGED <<tx, locks, data, worker, procs, dop, applies>> /\ dpc' = "judge"
      BY <1>30, <2>2 DEF RetryCleanup
    <3> QED BY <1>0, <3>1 DEF TypeOK
  <2> QED BY <2>1, <2>2
<1> QED
  BY <1>1, <1>2, <1>3, <1>4, <1>5, <1>6, <1>7, <1>8, <1>9, <1>10, <1>11, <1>12,
     <1>13, <1>14, <1>15, <1>16, <1>17, <1>18, <1>19, <1>20, <1>21, <1>22,
     <1>23, <1>24, <1>25, <1>26, <1>27, <1>28, <1>29, <1>30 DEF Next,
     WorkerStep, DiscardStep

(* The invariant is inductive. *)
LEMMA NextIInv == IInv /\ [Next]_vars => IInv'
<1> SUFFICES ASSUME IInv, [Next]_vars PROVE IInv'
  OBVIOUS
<1> USE DEF At, Goto, Unlocked, Owns, Raise, Worker, Stopped, Discarder, Aborted, tx, locks, data, worker, procs, closer
<1>0. TypeOK /\ TypeOK'
  BY NextTypeOK DEF IInv
<1>1. ASSUME NEW o \in Op, BeginAdd(o) PROVE IInv'
  <2> USE <1>0, <1>1 DEF BeginAdd, TypeOK, IInv
  <2>1. StatesFollowSteps' /\ ResultShape'
    BY DEF StatesFollowSteps, ResultShape, SourceShape, SlotIsKept, Working
  <2>2. SlotIsKept'
    BY DEF SlotIsKept, StatesFollowSteps, SourceShape, GroupsAreReported, Working, Incomplete, RolledBack
  <2>3. SourceShape'
    BY DEF SourceShape, SlotIsKept, StatesFollowSteps, Working, RolledBack
  <2>4. GroupsAreReported'
    BY DEF GroupsAreReported, StatesFollowSteps
  <2>5. DiscardShape'
    BY DEF DiscardShape, SlotIsKept, StatesFollowSteps, Working
  <2>6. ReleasedIsOver' /\ NoOrphans'
    BY DEF ReleasedIsOver, NoOrphans, SlotIsKept, StatesFollowSteps, DiscardShape, Working
  <2> QED BY <2>1, <2>2, <2>3, <2>4, <2>5, <2>6
<1>2. ASSUME NEW o \in Op, StartAdd(o) PROVE IInv'
  <2> USE <1>0, <1>2 DEF StartAdd, TypeOK, IInv
  <2>1. StatesFollowSteps' /\ ResultShape'
    BY DEF StatesFollowSteps, ResultShape, SourceShape, SlotIsKept, Working
  <2>2. SlotIsKept'
    BY DEF SlotIsKept, StatesFollowSteps, SourceShape, GroupsAreReported, Working, Incomplete, RolledBack
  <2>3. SourceShape'
    BY DEF SourceShape, SlotIsKept, StatesFollowSteps, Working, RolledBack
  <2>4. GroupsAreReported'
    BY DEF GroupsAreReported, StatesFollowSteps
  <2>5. DiscardShape'
    BY DEF DiscardShape, SlotIsKept, StatesFollowSteps, Working
  <2>6. ReleasedIsOver' /\ NoOrphans'
    BY DEF ReleasedIsOver, NoOrphans, SlotIsKept, StatesFollowSteps, DiscardShape, Working
  <2> QED BY <2>1, <2>2, <2>3, <2>4, <2>5, <2>6
<1>3. ASSUME NEW o \in Op, StartFails(o) PROVE IInv'
  <2> USE <1>0, <1>3 DEF StartFails, TypeOK, IInv
  <2>1. StatesFollowSteps' /\ ResultShape'
    BY DEF StatesFollowSteps, ResultShape, SourceShape, SlotIsKept, Working
  <2>2. SlotIsKept'
    BY DEF SlotIsKept, StatesFollowSteps, SourceShape, GroupsAreReported, Working, Incomplete, RolledBack
  <2>3. SourceShape'
    BY DEF SourceShape, SlotIsKept, StatesFollowSteps, Working, RolledBack
  <2>4. GroupsAreReported'
    BY DEF GroupsAreReported, StatesFollowSteps
  <2>5. DiscardShape'
    BY DEF DiscardShape, SlotIsKept, StatesFollowSteps, Working
  <2>6. ReleasedIsOver' /\ NoOrphans'
    BY DEF ReleasedIsOver, NoOrphans, SlotIsKept, StatesFollowSteps, DiscardShape, Working
  <2> QED BY <2>1, <2>2, <2>3, <2>4, <2>5, <2>6
<1>4. ASSUME NEW o \in Op, CancelMenu(o) PROVE IInv'
  <2> USE <1>0, <1>4 DEF CancelMenu, TypeOK, IInv
  <2>1. StatesFollowSteps' /\ ResultShape'
    BY DEF StatesFollowSteps, ResultShape, SourceShape, SlotIsKept, Working
  <2>2. SlotIsKept'
    BY DEF SlotIsKept, StatesFollowSteps, SourceShape, GroupsAreReported, Working, Incomplete, RolledBack
  <2>3. SourceShape'
    BY DEF SourceShape, SlotIsKept, StatesFollowSteps, Working, RolledBack
  <2>4. GroupsAreReported'
    BY DEF GroupsAreReported, StatesFollowSteps
  <2>5. DiscardShape'
    BY DEF DiscardShape, SlotIsKept, StatesFollowSteps, Working
  <2>6. ReleasedIsOver' /\ NoOrphans'
    BY DEF ReleasedIsOver, NoOrphans, SlotIsKept, StatesFollowSteps, DiscardShape, Working
  <2> QED BY <2>1, <2>2, <2>3, <2>4, <2>5, <2>6
<1>5. ASSUME NEW o \in Op, GroupExits(o) PROVE IInv'
  <2> USE <1>0, <1>5 DEF GroupExits, TypeOK, IInv
  <2>1. StatesFollowSteps' /\ ResultShape'
    BY DEF StatesFollowSteps, ResultShape, SourceShape, SlotIsKept, Working
  <2>2. SlotIsKept'
    BY DEF SlotIsKept, StatesFollowSteps, SourceShape, GroupsAreReported, Working, Incomplete, RolledBack
  <2>3. SourceShape'
    BY DEF SourceShape, SlotIsKept, StatesFollowSteps, Working, RolledBack
  <2>4. GroupsAreReported'
    BY DEF GroupsAreReported, StatesFollowSteps
  <2>5. DiscardShape'
    BY DEF DiscardShape, SlotIsKept, StatesFollowSteps, Working
  <2>6. ReleasedIsOver' /\ NoOrphans'
    BY DEF ReleasedIsOver, NoOrphans, SlotIsKept, StatesFollowSteps, DiscardShape, Working
  <2> QED BY <2>1, <2>2, <2>3, <2>4, <2>5, <2>6
<1>6. ASSUME NEW o \in Op, Prepare(o) PROVE IInv'
  <2> USE <1>0, <1>6 DEF Prepare, TypeOK, IInv
  <2>1. StatesFollowSteps' /\ ResultShape'
    BY DEF StatesFollowSteps, ResultShape, SourceShape, SlotIsKept, Working
  <2>2. SlotIsKept'
    BY DEF SlotIsKept, StatesFollowSteps, SourceShape, GroupsAreReported, Working, Incomplete, RolledBack
  <2>3. SourceShape'
    BY DEF SourceShape, SlotIsKept, StatesFollowSteps, Working, RolledBack
  <2>4. GroupsAreReported'
    BY DEF GroupsAreReported, StatesFollowSteps
  <2>5. DiscardShape'
    BY DEF DiscardShape, SlotIsKept, StatesFollowSteps, Working
  <2>6. ReleasedIsOver' /\ NoOrphans'
    BY DEF ReleasedIsOver, NoOrphans, SlotIsKept, StatesFollowSteps, DiscardShape, Working
  <2> QED BY <2>1, <2>2, <2>3, <2>4, <2>5, <2>6
<1>7. ASSUME NEW o \in Op, Copied(o) PROVE IInv'
  <2> USE <1>0, <1>7 DEF Copied, TypeOK, IInv
  <2>1. StatesFollowSteps' /\ ResultShape'
    BY DEF StatesFollowSteps, ResultShape, SourceShape, SlotIsKept, Working
  <2>2. SlotIsKept'
    BY DEF SlotIsKept, StatesFollowSteps, SourceShape, GroupsAreReported, Working, Incomplete, RolledBack
  <2>3. SourceShape'
    BY DEF SourceShape, SlotIsKept, StatesFollowSteps, Working, RolledBack
  <2>4. GroupsAreReported'
    BY DEF GroupsAreReported, StatesFollowSteps
  <2>5. DiscardShape'
    BY DEF DiscardShape, SlotIsKept, StatesFollowSteps, Working
  <2>6. ReleasedIsOver' /\ NoOrphans'
    BY DEF ReleasedIsOver, NoOrphans, SlotIsKept, StatesFollowSteps, DiscardShape, Working
  <2> QED BY <2>1, <2>2, <2>3, <2>4, <2>5, <2>6
<1>8. ASSUME NEW o \in Op, Launch(o) PROVE IInv'
  <2> USE <1>0, <1>8 DEF Launch, TypeOK, IInv
  <2>1. StatesFollowSteps' /\ ResultShape'
    BY DEF StatesFollowSteps, ResultShape, SourceShape, SlotIsKept, Working
  <2>2. SlotIsKept'
    BY DEF SlotIsKept, StatesFollowSteps, SourceShape, GroupsAreReported, Working, Incomplete, RolledBack
  <2>3. SourceShape'
    BY DEF SourceShape, SlotIsKept, StatesFollowSteps, Working, RolledBack
  <2>4. GroupsAreReported'
    BY DEF GroupsAreReported, StatesFollowSteps
  <2>5. DiscardShape'
    BY DEF DiscardShape, SlotIsKept, StatesFollowSteps, Working
  <2>6. ReleasedIsOver' /\ NoOrphans'
    BY DEF ReleasedIsOver, NoOrphans, SlotIsKept, StatesFollowSteps, DiscardShape, Working
  <2> QED BY <2>1, <2>2, <2>3, <2>4, <2>5, <2>6
<1>9. ASSUME NEW o \in Op, SessionEnds(o) PROVE IInv'
  <2> USE <1>0, <1>9 DEF SessionEnds, TypeOK, IInv
  <2>1. StatesFollowSteps' /\ ResultShape'
    BY DEF StatesFollowSteps, ResultShape, SourceShape, SlotIsKept, Working
  <2>2. SlotIsKept'
    BY DEF SlotIsKept, StatesFollowSteps, SourceShape, GroupsAreReported, Working, Incomplete, RolledBack
  <2>3. SourceShape'
    BY DEF SourceShape, SlotIsKept, StatesFollowSteps, Working, RolledBack
  <2>4. GroupsAreReported'
    BY DEF GroupsAreReported, StatesFollowSteps
  <2>5. DiscardShape'
    BY DEF DiscardShape, SlotIsKept, StatesFollowSteps, Working
  <2>6. ReleasedIsOver' /\ NoOrphans'
    BY DEF ReleasedIsOver, NoOrphans, SlotIsKept, StatesFollowSteps, DiscardShape, Working
  <2> QED BY <2>1, <2>2, <2>3, <2>4, <2>5, <2>6
<1>10. ASSUME NEW o \in Op, Record(o) PROVE IInv'
  <2> USE <1>0, <1>10 DEF Record, TypeOK, IInv
  <2>1. StatesFollowSteps' /\ ResultShape'
    BY DEF StatesFollowSteps, ResultShape, SourceShape, SlotIsKept, Working
  <2>2. SlotIsKept'
    BY DEF SlotIsKept, StatesFollowSteps, SourceShape, GroupsAreReported, Working, Incomplete, RolledBack
  <2>3. SourceShape'
    BY DEF SourceShape, SlotIsKept, StatesFollowSteps, Working, RolledBack
  <2>4. GroupsAreReported'
    BY DEF GroupsAreReported, StatesFollowSteps
  <2>5. DiscardShape'
    BY DEF DiscardShape, SlotIsKept, StatesFollowSteps, Working
  <2>6. ReleasedIsOver' /\ NoOrphans'
    BY DEF ReleasedIsOver, NoOrphans, SlotIsKept, StatesFollowSteps, DiscardShape, Working
  <2> QED BY <2>1, <2>2, <2>3, <2>4, <2>5, <2>6
<1>11. ASSUME NEW o \in Op, Finish(o) PROVE IInv'
  <2> USE <1>0, <1>11 DEF Finish, TypeOK, IInv
  <2>1. StatesFollowSteps' /\ ResultShape'
    <3>1. StatesFollowSteps'
      BY DEF StatesFollowSteps
    <3>2. ResultShape'
      <4> SUFFICES ASSUME NEW p \in Op
                   PROVE  /\ pc'[p] \notin {"settle", "complete"} => result'[p] # "staged"
                          /\ pc'[p] \in {"settle", "complete"} /\ ~broken'[p] =>
                               (result'[p] = "staged" <=> p \in source')
        BY DEF ResultShape
      <4>1. CASE p = o
        BY <4>1 DEF ResultShape, SourceShape, RolledBack
      <4>2. CASE p # o
        <5>1. operation = o
          BY DEF SlotIsKept, Working
        <5>2. p \in source' <=> p \in source
          BY <4>2, <5>1 DEF SourceShape, RolledBack
        <5> QED BY <4>2, <5>2 DEF ResultShape
      <4> QED BY <4>1, <4>2
    <3> QED BY <3>1, <3>2
  <2>2. SlotIsKept'
    BY DEF SlotIsKept, StatesFollowSteps, SourceShape, GroupsAreReported, Working, Incomplete, RolledBack
  <2>3. SourceShape'
    BY DEF SourceShape, SlotIsKept, StatesFollowSteps, Working, RolledBack
  <2>4. GroupsAreReported'
    BY DEF GroupsAreReported, StatesFollowSteps
  <2>5. DiscardShape'
    BY DEF DiscardShape, SlotIsKept, StatesFollowSteps, Working
  <2>6. ReleasedIsOver' /\ NoOrphans'
    BY DEF ReleasedIsOver, NoOrphans, SlotIsKept, StatesFollowSteps, DiscardShape, Working
  <2> QED BY <2>1, <2>2, <2>3, <2>4, <2>5, <2>6
<1>12. ASSUME NEW o \in Op, Merge(o) PROVE IInv'
  <2> USE <1>0, <1>12 DEF Merge, TypeOK, IInv
  <2>1. StatesFollowSteps' /\ ResultShape'
    BY DEF StatesFollowSteps, ResultShape, SourceShape, SlotIsKept, Working
  <2>2. SlotIsKept'
    BY DEF SlotIsKept, StatesFollowSteps, SourceShape, GroupsAreReported, Working, Incomplete, RolledBack
  <2>3. SourceShape'
    BY DEF SourceShape, SlotIsKept, StatesFollowSteps, Working, RolledBack
  <2>4. GroupsAreReported'
    BY DEF GroupsAreReported, StatesFollowSteps
  <2>5. DiscardShape'
    BY DEF DiscardShape, SlotIsKept, StatesFollowSteps, Working
  <2>6. ReleasedIsOver' /\ NoOrphans'
    BY DEF ReleasedIsOver, NoOrphans, SlotIsKept, StatesFollowSteps, DiscardShape, Working
  <2> QED BY <2>1, <2>2, <2>3, <2>4, <2>5, <2>6
<1>13. ASSUME NEW o \in Op, Commit(o) PROVE IInv'
  <2> USE <1>0, <1>13 DEF Commit, TypeOK, IInv
  <2>1. StatesFollowSteps' /\ ResultShape'
    <3>1. StatesFollowSteps'
      BY DEF StatesFollowSteps
    <3>2. ResultShape'
      <4> SUFFICES ASSUME NEW p \in Op
                   PROVE  /\ pc'[p] \notin {"settle", "complete"} => result'[p] # "staged"
                          /\ pc'[p] \in {"settle", "complete"} /\ ~broken'[p] =>
                               (result'[p] = "staged" <=> p \in source')
        BY DEF ResultShape
      <4>1. CASE p = o
        BY <4>1 DEF ResultShape, SourceShape, RolledBack
      <4>2. CASE p # o
        <5>1. operation = o
          BY DEF SlotIsKept, Working
        <5>2. p \in source' <=> p \in source
          BY <4>2, <5>1 DEF SourceShape, RolledBack
        <5> QED BY <4>2, <5>2 DEF ResultShape
      <4> QED BY <4>1, <4>2
    <3> QED BY <3>1, <3>2
  <2>2. SlotIsKept'
    BY DEF SlotIsKept, StatesFollowSteps, SourceShape, GroupsAreReported, Working, Incomplete, RolledBack
  <2>3. SourceShape'
    BY DEF SourceShape, SlotIsKept, StatesFollowSteps, Working, RolledBack
  <2>4. GroupsAreReported'
    BY DEF GroupsAreReported, StatesFollowSteps
  <2>5. DiscardShape'
    BY DEF DiscardShape, SlotIsKept, StatesFollowSteps, Working
  <2>6. ReleasedIsOver' /\ NoOrphans'
    BY DEF ReleasedIsOver, NoOrphans, SlotIsKept, StatesFollowSteps, DiscardShape, Working
  <2> QED BY <2>1, <2>2, <2>3, <2>4, <2>5, <2>6
<1>14. ASSUME NEW o \in Op, Rollback(o) PROVE IInv'
  <2> USE <1>0, <1>14 DEF Rollback, TypeOK, IInv
  <2>1. StatesFollowSteps' /\ ResultShape'
    <3>1. StatesFollowSteps'
      BY DEF StatesFollowSteps
    <3>2. ResultShape'
      <4> SUFFICES ASSUME NEW p \in Op
                   PROVE  /\ pc'[p] \notin {"settle", "complete"} => result[p] # "staged"
                          /\ pc'[p] \in {"settle", "complete"} /\ ~broken'[p] =>
                               (result[p] = "staged" <=> p \in source')
        BY DEF ResultShape
      <4>1. CASE p = o
        <5>1. result[o] # "staged" /\ ~broken[o]
          BY DEF ResultShape, SourceShape
        <5>2. RolledBack(o) => o \notin source'
          BY DEF SourceShape, RolledBack
        <5> QED BY <4>1, <5>1, <5>2
      <4>2. CASE p # o
        <5>1. operation = o
          BY DEF SlotIsKept, Working
        <5>2. p \in source' <=> p \in source
          BY <4>2, <5>1 DEF SourceShape, RolledBack
        <5> QED BY <4>2, <5>2 DEF ResultShape
      <4> QED BY <4>1, <4>2
    <3> QED BY <3>1, <3>2
  <2>2. SlotIsKept'
    BY DEF SlotIsKept, StatesFollowSteps, SourceShape, GroupsAreReported, Working, Incomplete, RolledBack
  <2>3. SourceShape'
    BY DEF SourceShape, SlotIsKept, StatesFollowSteps, Working, RolledBack
  <2>4. GroupsAreReported'
    BY DEF GroupsAreReported, StatesFollowSteps
  <2>5. DiscardShape'
    BY DEF DiscardShape, SlotIsKept, StatesFollowSteps, Working
  <2>6. ReleasedIsOver' /\ NoOrphans'
    BY DEF ReleasedIsOver, NoOrphans, SlotIsKept, StatesFollowSteps, DiscardShape, Working
  <2> QED BY <2>1, <2>2, <2>3, <2>4, <2>5, <2>6
<1>15. ASSUME NEW o \in Op, Settle(o) PROVE IInv'
  <2> USE <1>0, <1>15 DEF Settle, TypeOK, IInv
  <2>1. StatesFollowSteps' /\ ResultShape'
    BY DEF StatesFollowSteps, ResultShape, SourceShape, SlotIsKept, Working
  <2>2. SlotIsKept'
    BY DEF SlotIsKept, StatesFollowSteps, SourceShape, GroupsAreReported, Working, Incomplete, RolledBack
  <2>3. SourceShape'
    BY DEF SourceShape, SlotIsKept, StatesFollowSteps, Working, RolledBack
  <2>4. GroupsAreReported'
    BY DEF GroupsAreReported, StatesFollowSteps
  <2>5. DiscardShape'
    BY DEF DiscardShape, SlotIsKept, StatesFollowSteps, Working
  <2>6. ReleasedIsOver' /\ NoOrphans'
    BY DEF ReleasedIsOver, NoOrphans, SlotIsKept, StatesFollowSteps, DiscardShape, Working
  <2> QED BY <2>1, <2>2, <2>3, <2>4, <2>5, <2>6
<1>16. ASSUME NEW o \in Op, Complete(o) PROVE IInv'
  <2> USE <1>0, <1>16 DEF Complete, TypeOK, IInv
  <2>1. StatesFollowSteps' /\ ResultShape'
    BY DEF StatesFollowSteps, ResultShape, SourceShape, SlotIsKept, Working
  <2>2. SlotIsKept'
    BY DEF SlotIsKept, StatesFollowSteps, SourceShape, GroupsAreReported, Working, Incomplete, RolledBack
  <2>3. SourceShape'
    BY DEF SourceShape, SlotIsKept, StatesFollowSteps, Working, RolledBack
  <2>4. GroupsAreReported'
    BY DEF GroupsAreReported, StatesFollowSteps
  <2>5. DiscardShape'
    BY DEF DiscardShape, SlotIsKept, StatesFollowSteps, Working
  <2>6. ReleasedIsOver' /\ NoOrphans'
    BY DEF ReleasedIsOver, NoOrphans, SlotIsKept, StatesFollowSteps, DiscardShape, Working
  <2> QED BY <2>1, <2>2, <2>3, <2>4, <2>5, <2>6
<1>17. CASE ApplyStarts
  <2> USE <1>0, <1>17 DEF ApplyStarts, TypeOK, IInv
  <2>1. StatesFollowSteps' /\ ResultShape'
    BY DEF StatesFollowSteps, ResultShape, SourceShape, SlotIsKept, Working
  <2>2. SlotIsKept'
    BY DEF SlotIsKept, StatesFollowSteps, SourceShape, GroupsAreReported, Working, Incomplete, RolledBack
  <2>3. SourceShape'
    BY DEF SourceShape, SlotIsKept, StatesFollowSteps, Working, RolledBack
  <2>4. GroupsAreReported'
    BY DEF GroupsAreReported, StatesFollowSteps
  <2>5. DiscardShape'
    BY DEF DiscardShape, SlotIsKept, StatesFollowSteps, Working
  <2>6. ReleasedIsOver' /\ NoOrphans'
    BY DEF ReleasedIsOver, NoOrphans, SlotIsKept, StatesFollowSteps, DiscardShape, Working
  <2> QED BY <2>1, <2>2, <2>3, <2>4, <2>5, <2>6
<1>18. CASE ApplyEnds
  <2> USE <1>0, <1>18 DEF ApplyEnds, TypeOK, IInv
  <2>1. StatesFollowSteps' /\ ResultShape'
    BY DEF StatesFollowSteps, ResultShape, SourceShape, SlotIsKept, Working
  <2>2. SlotIsKept'
    BY DEF SlotIsKept, StatesFollowSteps, SourceShape, GroupsAreReported, Working, Incomplete, RolledBack
  <2>3. SourceShape'
    BY DEF SourceShape, SlotIsKept, StatesFollowSteps, Working, RolledBack
  <2>4. GroupsAreReported'
    BY DEF GroupsAreReported, StatesFollowSteps
  <2>5. DiscardShape'
    BY DEF DiscardShape, SlotIsKept, StatesFollowSteps, Working
  <2>6. ReleasedIsOver' /\ NoOrphans'
    BY DEF ReleasedIsOver, NoOrphans, SlotIsKept, StatesFollowSteps, DiscardShape, Working
  <2> QED BY <2>1, <2>2, <2>3, <2>4, <2>5, <2>6
<1>19. CASE BeginDiscard
  <2> USE <1>0, <1>19 DEF BeginDiscard, TypeOK, IInv
  <2>1. StatesFollowSteps' /\ ResultShape'
    BY DEF StatesFollowSteps, ResultShape, SourceShape, SlotIsKept, Working
  <2>2. SlotIsKept'
    BY DEF SlotIsKept, StatesFollowSteps, SourceShape, GroupsAreReported, Working, Incomplete, RolledBack
  <2>3. SourceShape'
    BY DEF SourceShape, SlotIsKept, StatesFollowSteps, Working, RolledBack
  <2>4. GroupsAreReported'
    BY DEF GroupsAreReported, StatesFollowSteps
  <2>5. DiscardShape'
    BY DEF DiscardShape, SlotIsKept, StatesFollowSteps, Working
  <2>6. ReleasedIsOver' /\ NoOrphans'
    BY DEF ReleasedIsOver, NoOrphans, SlotIsKept, StatesFollowSteps, DiscardShape, Working
  <2> QED BY <2>1, <2>2, <2>3, <2>4, <2>5, <2>6
<1>20. CASE DiscardStarts
  <2> USE <1>0, <1>20 DEF DiscardStarts, TypeOK, IInv
  <2>1. StatesFollowSteps' /\ ResultShape'
    BY DEF StatesFollowSteps, ResultShape, SourceShape, SlotIsKept, Working
  <2>2. SlotIsKept'
    BY DEF SlotIsKept, StatesFollowSteps, SourceShape, GroupsAreReported, Working, Incomplete, RolledBack
  <2>3. SourceShape'
    BY DEF SourceShape, SlotIsKept, StatesFollowSteps, Working, RolledBack
  <2>4. GroupsAreReported'
    BY DEF GroupsAreReported, StatesFollowSteps
  <2>5. DiscardShape'
    BY DEF DiscardShape, SlotIsKept, StatesFollowSteps, Working
  <2>6. ReleasedIsOver' /\ NoOrphans'
    BY DEF ReleasedIsOver, NoOrphans, SlotIsKept, StatesFollowSteps, DiscardShape, Working
  <2> QED BY <2>1, <2>2, <2>3, <2>4, <2>5, <2>6
<1>21. CASE Look
  <2> USE <1>0, <1>21 DEF Look, TypeOK, IInv
  <2>1. StatesFollowSteps' /\ ResultShape'
    BY DEF StatesFollowSteps, ResultShape, SourceShape, SlotIsKept, Working
  <2>2. SlotIsKept'
    BY DEF SlotIsKept, StatesFollowSteps, SourceShape, GroupsAreReported, Working, Incomplete, RolledBack
  <2>3. SourceShape'
    BY DEF SourceShape, SlotIsKept, StatesFollowSteps, Working, RolledBack
  <2>4. GroupsAreReported'
    BY DEF GroupsAreReported, StatesFollowSteps
  <2>5. DiscardShape'
    BY DEF DiscardShape, SlotIsKept, StatesFollowSteps, Working
  <2>6. ReleasedIsOver' /\ NoOrphans'
    BY DEF ReleasedIsOver, NoOrphans, SlotIsKept, StatesFollowSteps, DiscardShape, Working
  <2> QED BY <2>1, <2>2, <2>3, <2>4, <2>5, <2>6
<1>22. CASE Enter
  <2> USE <1>0, <1>22 DEF Enter, TypeOK, IInv
  <2>1. StatesFollowSteps' /\ ResultShape'
    BY DEF StatesFollowSteps, ResultShape, SourceShape, SlotIsKept, Working
  <2>2. SlotIsKept'
    BY DEF SlotIsKept, StatesFollowSteps, SourceShape, GroupsAreReported, Working, Incomplete, RolledBack
  <2>3. SourceShape'
    BY DEF SourceShape, SlotIsKept, StatesFollowSteps, Working, RolledBack
  <2>4. GroupsAreReported'
    BY DEF GroupsAreReported, StatesFollowSteps
  <2>5. DiscardShape'
    BY DEF DiscardShape, SlotIsKept, StatesFollowSteps, Working
  <2>6. ReleasedIsOver' /\ NoOrphans'
    BY DEF ReleasedIsOver, NoOrphans, SlotIsKept, StatesFollowSteps, DiscardShape, Working
  <2> QED BY <2>1, <2>2, <2>3, <2>4, <2>5, <2>6
<1>23. CASE Await
  <2> USE <1>0, <1>23 DEF Await, TypeOK, IInv
  <2>1. StatesFollowSteps' /\ ResultShape'
    BY DEF StatesFollowSteps, ResultShape, SourceShape, SlotIsKept, Working
  <2>2. SlotIsKept'
    BY DEF SlotIsKept, StatesFollowSteps, SourceShape, GroupsAreReported, Working, Incomplete, RolledBack
  <2>3. SourceShape'
    BY DEF SourceShape, SlotIsKept, StatesFollowSteps, Working, RolledBack
  <2>4. GroupsAreReported'
    BY DEF GroupsAreReported, StatesFollowSteps
  <2>5. DiscardShape'
    BY DEF DiscardShape, Running
  <2>6. ReleasedIsOver' /\ NoOrphans'
    BY DEF ReleasedIsOver, NoOrphans, SlotIsKept, StatesFollowSteps, DiscardShape, Working
  <2> QED BY <2>1, <2>2, <2>3, <2>4, <2>5, <2>6
<1>24. CASE Judge
  <2> USE <1>0, <1>24 DEF Judge, TypeOK, IInv
  <2>1. StatesFollowSteps' /\ ResultShape'
    BY DEF StatesFollowSteps, ResultShape, SourceShape, SlotIsKept, Working
  <2>2. SlotIsKept'
    BY DEF SlotIsKept, StatesFollowSteps, SourceShape, GroupsAreReported, Working, Incomplete, RolledBack
  <2>3. SourceShape'
    BY DEF SourceShape, SlotIsKept, StatesFollowSteps, Working, RolledBack
  <2>4. GroupsAreReported'
    BY DEF GroupsAreReported, StatesFollowSteps
  <2>5. DiscardShape'
    <3>1. CASE dop # None /\ dpc' = "finish"
      <4>1. dop \in Op /\ st[dop] = "done" /\ ~Incomplete(dop)
        BY <3>1 DEF DiscardShape
      <4>2. raised[dop] \/ alive[dop] = {}
        BY <4>1 DEF Incomplete, GroupsAreReported, StatesFollowSteps
      <4> QED BY <4>1, <4>2 DEF DiscardShape
    <3>2. CASE ~(dop # None /\ dpc' = "finish")
      BY <3>2 DEF DiscardShape
    <3> QED BY <3>1, <3>2
  <2>6. ReleasedIsOver' /\ NoOrphans'
    BY DEF ReleasedIsOver, NoOrphans, SlotIsKept, StatesFollowSteps, DiscardShape, Working
  <2> QED BY <2>1, <2>2, <2>3, <2>4, <2>5, <2>6
<1>25. CASE FinishDiscard
  <2> USE <1>0, <1>25 DEF FinishDiscard, TypeOK, IInv
  <2>1. StatesFollowSteps' /\ ResultShape'
    BY DEF StatesFollowSteps, ResultShape, SourceShape, SlotIsKept, Working
  <2>2. SlotIsKept'
    BY DEF SlotIsKept, StatesFollowSteps, SourceShape, GroupsAreReported, Working, Incomplete, RolledBack
  <2>3. SourceShape'
    BY DEF SourceShape, SlotIsKept, StatesFollowSteps, Working, RolledBack
  <2>4. GroupsAreReported'
    BY DEF GroupsAreReported, StatesFollowSteps
  <2>5. DiscardShape'
    BY DEF DiscardShape, SlotIsKept, StatesFollowSteps, Working
  <2>6. ReleasedIsOver' /\ NoOrphans'
    BY DEF ReleasedIsOver, NoOrphans, SlotIsKept, StatesFollowSteps, DiscardShape, Working
  <2> QED BY <2>1, <2>2, <2>3, <2>4, <2>5, <2>6
<1>26. CASE DiscardFails
  <2> USE <1>0, <1>26 DEF DiscardFails, TypeOK, IInv
  <2>1. StatesFollowSteps' /\ ResultShape'
    BY DEF StatesFollowSteps, ResultShape, SourceShape, SlotIsKept, Working
  <2>2. SlotIsKept'
    BY DEF SlotIsKept, StatesFollowSteps, SourceShape, GroupsAreReported, Working, Incomplete, RolledBack
  <2>3. SourceShape'
    BY DEF SourceShape, SlotIsKept, StatesFollowSteps, Working, RolledBack
  <2>4. GroupsAreReported'
    BY DEF GroupsAreReported, StatesFollowSteps
  <2>5. DiscardShape'
    BY DEF DiscardShape, SlotIsKept, StatesFollowSteps, Working
  <2>6. ReleasedIsOver' /\ NoOrphans'
    BY DEF ReleasedIsOver, NoOrphans, SlotIsKept, StatesFollowSteps, DiscardShape, Working
  <2> QED BY <2>1, <2>2, <2>3, <2>4, <2>5, <2>6
<1>27. CASE UNCHANGED vars
  <2> USE <1>0, <1>27 DEF vars, TypeOK, IInv
  <2>1. StatesFollowSteps' /\ ResultShape'
    BY DEF StatesFollowSteps, ResultShape, SourceShape, SlotIsKept, Working
  <2>2. SlotIsKept'
    BY DEF SlotIsKept, StatesFollowSteps, SourceShape, GroupsAreReported, Working, Incomplete, RolledBack
  <2>3. SourceShape'
    BY DEF SourceShape, SlotIsKept, StatesFollowSteps, Working, RolledBack
  <2>4. GroupsAreReported'
    BY DEF GroupsAreReported, StatesFollowSteps
  <2>5. DiscardShape'
    BY DEF DiscardShape, SlotIsKept, StatesFollowSteps, Working
  <2>6. ReleasedIsOver' /\ NoOrphans'
    BY DEF ReleasedIsOver, NoOrphans, SlotIsKept, StatesFollowSteps, DiscardShape, Working
  <2> QED BY <2>1, <2>2, <2>3, <2>4, <2>5, <2>6
<1>28. ASSUME NEW o \in Op, UserCancels(o) PROVE IInv'
  <2>1. PICK bounded \in BOOLEAN : CancelOperation(o, bounded)
    BY <1>28 DEF UserCancels
  <2>2. UNCHANGED closer
    BY <1>28 DEF UserCancels
  <2>3. DiscardShape'
    BY <1>0, <2>1, <2>2, CancelKeeps DEF IInv, DiscardShape, TypeOK
  <2> QED BY <1>0, <2>1, <2>3, CancelKeeps DEF IInv
<1>29. CASE CancelFirst \/ CancelAgain
  <2>1. CASE Running(dop)
    <3>1. /\ dop \in Op /\ CancelOperation(dop, TRUE) /\ dop' = dop
          /\ (dpc = "cancel" /\ dpc' = "enter") \/ (dpc = "cancelAgain" /\ dpc' = "wait")
      BY <1>0, <1>29, <2>1 DEF CancelFirst, CancelAgain, CancelRunning, Running, TypeOK
    <3>2. DiscardShape'
      BY <3>1, CancelKeeps DEF IInv, DiscardShape
    <3> QED BY <1>0, <3>1, <3>2, CancelKeeps DEF IInv
  <2>2. CASE ~Running(dop)
    <3>1. UNCHANGED <<tx, locks, data, worker, procs, dop, applies>> /\ dpc' \in {"enter", "wait"}
      BY <1>29, <2>2 DEF CancelFirst, CancelAgain, CancelRunning
    <3>2. DiscardShape'
      BY <1>29, <2>2 DEF DiscardShape, CancelFirst, CancelAgain, CancelRunning, IInv
    <3> USE <1>0, <3>1 DEF IInv
    <3>3. StatesFollowSteps' /\ ResultShape' /\ SlotIsKept' /\ SourceShape'
      BY DEF StatesFollowSteps, ResultShape, SlotIsKept, SourceShape, Working
    <3>4. GroupsAreReported' /\ ReleasedIsOver' /\ NoOrphans'
      BY DEF GroupsAreReported, ReleasedIsOver, NoOrphans, Working
    <3> QED BY <3>2, <3>3, <3>4
  <2> QED BY <2>1, <2>2
<1>30. CASE RetryCleanup
  <2>1. CASE dop # None /\ Incomplete(dop)
    <3>1. dop \in Op /\ CancelOperation(dop, TRUE) /\ dop' = dop /\ dpc = "retry" /\ dpc' = "judge"
      BY <1>0, <1>30, <2>1 DEF RetryCleanup, TypeOK
    <3>2. DiscardShape'
      BY <3>1, CancelKeeps DEF IInv, DiscardShape
    <3> QED BY <1>0, <3>1, <3>2, CancelKeeps DEF IInv
  <2>2. CASE ~(dop # None /\ Incomplete(dop))
    <3>1. UNCHANGED <<tx, locks, data, worker, procs, dop, applies>> /\ dpc = "retry" /\ dpc' = "judge"
      BY <1>30, <2>2 DEF RetryCleanup
    <3> USE <1>0, <3>1 DEF IInv
    <3>2. DiscardShape'
      BY DEF DiscardShape
    <3>3. StatesFollowSteps' /\ ResultShape' /\ SlotIsKept' /\ SourceShape'
      BY DEF StatesFollowSteps, ResultShape, SlotIsKept, SourceShape, Working
    <3>4. GroupsAreReported' /\ ReleasedIsOver' /\ NoOrphans'
      BY DEF GroupsAreReported, ReleasedIsOver, NoOrphans, Working
    <3> QED BY <3>2, <3>3, <3>4
  <2> QED BY <2>1, <2>2
<1> QED
  BY <1>1, <1>2, <1>3, <1>4, <1>5, <1>6, <1>7, <1>8, <1>9, <1>10, <1>11, <1>12,
     <1>13, <1>14, <1>15, <1>16, <1>17, <1>18, <1>19, <1>20, <1>21, <1>22,
     <1>23, <1>24, <1>25, <1>26, <1>27, <1>28, <1>29, <1>30 DEF Next,
     WorkerStep, DiscardStep

(* The inductive invariant holds in every reachable state. *)
THEOREM LifecycleInvariant == Spec => []IInv
  BY InitIInv, NextIInv, PTL DEF Spec

(* The project lock is given up only when no process group of any add      *)
(* operation is left, apart from sessions that ended by an exception.      *)
THEOREM LockOutlivesGroups == Spec => []NoOrphans
<1>1. IInv => NoOrphans
  BY DEF IInv
<1> QED BY <1>1, LifecycleInvariant, PTL

(* A transaction without a current operation is consistent: its staged     *)
(* source is what its committed batches say.  IInv does not mention _lock: *)
(* between their steps it is the slot that keeps workers out of each       *)
(* other's way.                                                            *)
THEOREM SourceStaysCommitted == Spec => []SourceIsCommitted
<1>1. IInv => SourceIsCommitted
  <2> SUFFICES ASSUME IInv, operation = None
               PROVE  source = batches /\ \A o \in Op : copy[o] # "full"
    BY DEF SourceIsCommitted, IInv
  <2>1. \A o \in Op : o \in source <=> o \in batches
    BY DEF IInv, SourceShape
  <2>2. source = batches
    BY <2>1 DEF IInv, TypeOK
  <2>3. \A o \in Op : copy[o] # "full"
    BY DEF IInv, SlotIsKept
  <2> QED BY <2>2, <2>3
<1> QED BY <1>1, LifecycleInvariant, PTL

(* What an add reports is what became of the staged source.                *)
THEOREM ResultsStayTrue == Spec => []ResultsAreTrue
<1>1. IInv => ResultsAreTrue
  <2> SUFFICES ASSUME IInv, NEW o \in Op, st[o] = "done", ~broken[o]
               PROVE  (result[o] = "staged" <=> o \in source) /\ (o \in source <=> o \in batches)
    BY DEF ResultsAreTrue
  <2>1. pc[o] \in {"idle", "complete"}
    BY DEF IInv, StatesFollowSteps
  <2> QED BY <2>1 DEF IInv, ResultShape, SourceShape
<1> QED BY <1>1, LifecycleInvariant, PTL

(* Only a working add changes the staged source.                           *)
LEMMA SourceChangesByWorkers ==
  ASSUME [Next]_vars, ~ UNCHANGED <<source, batches, copy>>
  PROVE  \E o \in Op : Working(o)
<1> USE DEF At, Worker, Stopped, Discarder, tx, locks, data, worker, procs, closer
<1>1. CASE \E o \in Op : Prepare(o) \/ Copied(o) \/ Finish(o) \/ Merge(o) \/ Commit(o) \/ Rollback(o)
  BY <1>1 DEF Prepare, Copied, Finish, Merge, Commit, Rollback, Working
<1>2. ASSUME NEW o \in Op, UserCancels(o) PROVE FALSE
  BY <1>2 DEF UserCancels, CancelOperation
<1>3. CASE CancelFirst \/ CancelAgain \/ RetryCleanup
  BY <1>3 DEF CancelFirst, CancelAgain, CancelRunning, RetryCleanup, CancelOperation
<1>4. ASSUME NEW o \in Op,
             \/ BeginAdd(o) \/ StartAdd(o) \/ StartFails(o) \/ CancelMenu(o) \/ GroupExits(o)
             \/ Launch(o) \/ SessionEnds(o) \/ Record(o) \/ Settle(o) \/ Complete(o)
      PROVE  FALSE
  BY <1>4 DEF BeginAdd, StartAdd, StartFails, CancelMenu, GroupExits, Launch, SessionEnds, Record, Settle, Complete
<1>5. CASE \/ ApplyStarts \/ ApplyEnds \/ BeginDiscard \/ DiscardStarts \/ Look \/ Enter
           \/ Await \/ Judge \/ FinishDiscard \/ DiscardFails \/ UNCHANGED vars
  BY <1>5 DEF ApplyStarts, ApplyEnds, BeginDiscard, DiscardStarts, Look, Enter, Await, Judge, FinishDiscard,
              DiscardFails, vars
<1> QED BY <1>1, <1>2, <1>3, <1>4, <1>5 DEF Next, WorkerStep, DiscardStep

(* After the project lock is given up no thread of the transaction changes *)
(* its staged source any more.                                             *)
THEOREM SourceIsSealed == Spec => SealedAfterRelease
<1>1. IInv /\ [Next]_vars => [~held => UNCHANGED <<source, batches, copy>>]_vars
  BY SourceChangesByWorkers DEF IInv, ReleasedIsOver
<1> QED BY <1>1, LifecycleInvariant, PTL DEF Spec, SealedAfterRelease

=============================================================================
