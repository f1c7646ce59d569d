--------------------------- MODULE PublishTransfer ---------------------------
(***************************************************************************)
(* Transfer of a generation to the publication root (publish_transfer.py): *)
(* a publisher materialises the files in a local workspace and streams     *)
(* them over SSH to a helper, which writes them into a stage directory of  *)
(* its own, verifies them, and renames the stage to the generation's name. *)
(* A generation that is there already is verified and reused.              *)
(*                                                                         *)
(* As in PublishActivation, helpers take turns by a lock file, the         *)
(* connection can be lost at any time, and a helper that waits for its     *)
(* turn does not notice; it sees the end of a cut stream.  A helper can    *)
(* be killed between two steps and can fail to remove its stage.  What     *)
(* may be left on the host is remembered as the plan's recovery path, and  *)
(* discarding the plan removes it.                                         *)
(*                                                                         *)
(* The source and the target may change at any time before the transfer;   *)
(* each comparison with the plan may therefore fail.                       *)
(***************************************************************************)
EXTENDS Naturals

CONSTANTS Op,         \* transfers, each with a fresh operation id
          Gen,        \* generation ids: what is published, and where
          Nothing,    \* no transfer, no request, no response
          MaxDiscards \* how often discarding a plan is tried

Request == [op : Op, kind : {"transfer", "cleanup"}]
Response == {"committed", "reused", "cleaned", "error", "retained"}

ASSUME NothingAssumption == /\ Nothing \notin Gen /\ Nothing \notin Op
                            /\ Nothing \notin Request /\ Nothing \notin Response
ASSUME DiscardsAssumption == MaxDiscards \in Nat

Transfer(o) == [op |-> o, kind |-> "transfer"]
Cleanup(o) == [op |-> o, kind |-> "cleanup"]

(* A directory on the host: how much of the files it holds. *)
Tree == {"absent", "partial", "full"}

VARIABLES
  gen,        \* gen[o]: the generation o transfers
  final,      \* final[g]: the directory generations/<g>
  stage,      \* stage[o]: the stage directory of o
  stream,     \* stream[o]: what has been sent of the files
  queue,      \* requests on their way or waiting for the remote lock
  run,        \* the transfer that holds the remote lock, and its step
  stray,      \* stray[o]: nobody learns what the helper of o does
  state,      \* state[o]: PublishTransferPlan._state
  recovery,   \* recovery[o]: PublishTransferPlan._recovery_path is set
  workspace,  \* workspace[o]: the local workspace exists
  publisher,  \* publisher[o]: the next step of o's publisher
  wait,       \* wait[o]: the request it waits for
  answer,     \* answer[o]: the response to it
  result,     \* result[o]: how execute_publish_transfer ended
  discards    \* discards[o]: attempts to discard so far

host == <<final, stage, run, stray>>
planVars == <<state, recovery, workspace, result, discards>>
call == <<publisher, wait, answer>>
transferVars == <<gen, host, stream, queue, planVars, call>>

Idle == [op |-> Nothing, step |-> "none"]

TransferTypeOK ==
  /\ gen \in [Op -> Gen]
  /\ final \in [Gen -> Tree]
  /\ stage \in [Op -> Tree]
  /\ stream \in [Op -> {"none", "open", "sent", "cut"}]
  /\ queue \in SUBSET Request
  /\ run \in [op : Op \cup {Nothing},
              step : {"none", "reuse", "mkdir", "receive", "verify", "commit", "clean"}]
  /\ stray \in [Op -> BOOLEAN]
  /\ state \in [Op -> {"none", "ready", "executing", "executed", "failed",
                       "uncertain", "discarding", "discarded", "cleanup-pending"}]
  /\ recovery \in [Op -> BOOLEAN] /\ workspace \in [Op -> BOOLEAN]
  /\ publisher \in [Op -> {"prepare", "ready", "waiting", "asking", "cleaning", "owned",
                           "discarding", "removing", "gone"}]
  /\ wait \in [Op -> Request \cup {Nothing}]
  /\ answer \in [Op -> Response \cup {Nothing}]
  /\ result \in [Op -> {"none", "staged", "failed"}]
  /\ discards \in [Op -> 0..MaxDiscards]

TransferInit ==
  /\ gen \in [Op -> Gen]
  /\ final = [g \in Gen |-> "absent"] /\ stage = [o \in Op |-> "absent"]
  /\ stream = [o \in Op |-> "none"] /\ queue = {} /\ run = Idle
  /\ stray = [o \in Op |-> FALSE]
  /\ state = [o \in Op |-> "none"] /\ recovery = [o \in Op |-> FALSE]
  /\ workspace = [o \in Op |-> FALSE]
  /\ publisher = [o \in Op |-> "prepare"] /\ wait = [o \in Op |-> Nothing]
  /\ answer = [o \in Op |-> Nothing]
  /\ result = [o \in Op |-> "none"] /\ discards = [o \in Op |-> 0]

-----------------------------------------------------------------------------
(* The host: the lock and the steps of a transfer *)

Free == run = Idle
At(l) == run.step = l
Advance(l) == run' = [run EXCEPT !.step = l]
Becomes(o, t) == stage' = [stage EXCEPT ![o] = t]

(* A response reaches a publisher that still waits for it. *)
Respond(r, a) == answer' = IF wait[r.op] = r THEN [answer EXCEPT ![r.op] = a]
                                             ELSE answer

Ends(a) == run' = Idle /\ Respond(Transfer(run.op), a)
Quiet == UNCHANGED <<gen, stream, queue, stray, planVars, publisher, wait>>

TakeLock(o) ==
  /\ Free /\ Transfer(o) \in queue
  /\ queue' = queue \ {Transfer(o)}
  /\ run' = [op |-> o, step |-> IF final[gen[o]] = "absent" THEN "mkdir" ELSE "reuse"]
  /\ stray' = [stray EXCEPT ![o] = @ \/ wait[o] # Transfer(o)]
  /\ UNCHANGED <<gen, final, stage, stream, planVars, call>>

(* The files are read from the stream and thrown away. *)
Reuse ==
  /\ At("reuse")
  /\ \/ final[gen[run.op]] = "full" /\ stream[run.op] = "sent" /\ Ends("reused")
     \/ stream[run.op] = "cut" /\ Advance("clean") /\ UNCHANGED answer
  /\ UNCHANGED <<final, stage>> /\ Quiet

(* Mutant: the files are written into the generation's own directory. *)
MakeInPlace ==
  /\ At("mkdir")
  /\ final' = [final EXCEPT ![gen[run.op]] = "partial"]
  /\ Becomes(run.op, "partial")
  /\ Advance("receive")
  /\ UNCHANGED answer /\ Quiet

MakeStage ==
  /\ At("mkdir")
  /\ stage[run.op] = "absent"
  /\ Becomes(run.op, "partial")
  /\ Advance("receive")
  /\ UNCHANGED <<final, answer>> /\ Quiet

Receive ==
  /\ At("receive")
  /\ \/ stream[run.op] = "sent" /\ Becomes(run.op, "full") /\ Advance("verify")
     \/ stream[run.op] = "cut" /\ Advance("clean") /\ UNCHANGED stage
  /\ UNCHANGED <<final, answer>> /\ Quiet

Verify ==
  /\ At("verify")
  /\ Advance(IF stage[run.op] = "full" THEN "commit" ELSE "clean")
  /\ UNCHANGED <<final, stage, answer>> /\ Quiet

Commit ==
  /\ At("commit")
  /\ final[gen[run.op]] = "absent"
  /\ final' = [final EXCEPT ![gen[run.op]] = stage[run.op]]
  /\ Becomes(run.op, "absent")
  /\ Ends("committed")
  /\ Quiet

(* Any step may fail. *)
StepFails ==
  /\ run.step \in {"reuse", "mkdir", "receive", "verify", "commit"}
  /\ Advance("clean")
  /\ UNCHANGED <<final, stage, answer>> /\ Quiet

(* The stage is removed; if that fails too, the response names it. *)
Clean ==
  /\ At("clean")
  /\ \/ Becomes(run.op, "absent") /\ Ends("error")
     \/ stage[run.op] # "absent" /\ Ends("retained") /\ UNCHANGED stage
  /\ UNCHANGED final /\ Quiet

(* The helper is killed, or the host goes down; the lock is free. *)
Kill ==
  /\ ~Free
  /\ run' = Idle
  /\ UNCHANGED <<final, stage, answer>> /\ Quiet

(* Mutant: cleanup does not wait for the remote lock. *)
CleanupUnlocked(o) ==
  /\ Cleanup(o) \in queue
  /\ queue' = queue \ {Cleanup(o)}
  /\ \/ Becomes(o, "absent") /\ Respond(Cleanup(o), "cleaned")
     \/ Respond(Cleanup(o), "error") /\ UNCHANGED stage
  /\ UNCHANGED <<gen, final, stream, run, stray, planVars, publisher, wait>>

CleanupRuns(o) ==
  /\ Free /\ Cleanup(o) \in queue
  /\ queue' = queue \ {Cleanup(o)}
  /\ \/ Becomes(o, "absent") /\ Respond(Cleanup(o), "cleaned")
     \/ Respond(Cleanup(o), "error") /\ UNCHANGED stage
  /\ UNCHANGED <<gen, final, stream, run, stray, planVars, publisher, wait>>

(* A request that never reaches the host. *)
Lose(r) ==
  /\ r \in queue
  /\ queue' = queue \ {r}
  /\ UNCHANGED <<gen, host, stream, planVars, call>>

-----------------------------------------------------------------------------
(* The publisher: preparation *)

Step(o, l) == publisher' = [publisher EXCEPT ![o] = l]
State(o, s) == state' = [state EXCEPT ![o] = s]
Waits(o, r) == wait' = [wait EXCEPT ![o] = r] /\ answer' = [answer EXCEPT ![o] = Nothing]
Ask(o, r) == queue' = queue \cup {r} /\ Waits(o, r)
Outcome(o, v) == result' = [result EXCEPT ![o] = v]
Recovery(o, b) == recovery' = [recovery EXCEPT ![o] = b]

(* A preparation that fails removes its workspace; if that fails the       *)
(* caller gets the plan to discard it later.                               *)
Prepare(o) ==
  /\ publisher[o] = "prepare"
  /\ \/ Step(o, "ready") /\ State(o, "ready") /\ workspace' = [workspace EXCEPT ![o] = TRUE]
     \/ Step(o, "gone") /\ State(o, "discarded") /\ UNCHANGED workspace
     \/ /\ Step(o, "owned") /\ State(o, "cleanup-pending")
        /\ workspace' = [workspace EXCEPT ![o] = TRUE]
  /\ UNCHANGED <<gen, host, stream, queue, recovery, result, discards, wait, answer>>

-----------------------------------------------------------------------------
(* The publisher: execute_publish_transfer *)

(* The connection is given up: what was not sent will not come. *)
HangUp(o) == stream' = [stream EXCEPT ![o] = IF @ = "open" THEN "cut" ELSE @]

(* The end of execute_publish_transfer. *)
Returns(o, s, v) == Step(o, "owned") /\ State(o, s) /\ Outcome(o, v)

StartTransfer(o) ==
  /\ publisher[o] = "ready"
  /\ Step(o, "waiting") /\ State(o, "executing") /\ Ask(o, Transfer(o))
  /\ stream' = [stream EXCEPT ![o] = "open"]
  /\ UNCHANGED <<gen, host, recovery, workspace, result, discards>>

(* The Pack or the target is not what was planned, or the user cancelled.  *)
Stale(o) ==
  /\ publisher[o] = "ready"
  /\ Returns(o, "failed", "failed")
  /\ UNCHANGED <<gen, host, stream, queue, recovery, workspace, discards, wait, answer>>

Sent(o) ==
  /\ publisher[o] = "waiting" /\ stream[o] = "open"
  /\ stream' = [stream EXCEPT ![o] = "sent"]
  /\ UNCHANGED <<gen, host, queue, planVars, call>>

Transferred(o) ==
  /\ publisher[o] = "waiting" /\ answer[o] \in {"committed", "reused"}
  /\ Returns(o, "executed", "staged") /\ Waits(o, Nothing)
  /\ UNCHANGED <<gen, host, stream, queue, recovery, workspace, discards>>

(* An error, a lost connection, the deadline or a cancellation: the status *)
(* of the generation decides.                                              *)
NotTransferred(o) ==
  /\ publisher[o] = "waiting"
  /\ Recovery(o, recovery[o] \/ answer[o] = "retained")
  /\ Step(o, "asking") /\ Waits(o, Nothing) /\ HangUp(o)
  /\ UNCHANGED <<gen, host, queue, state, workspace, result, discards>>

(* Mutant: an uncertain transfer is not remembered. *)
UncertainForgets(o) ==
  /\ \/ publisher[o] = "asking" \/ publisher[o] = "waiting"
  /\ Returns(o, "uncertain", "failed") /\ Waits(o, Nothing) /\ HangUp(o)
  /\ UNCHANGED <<gen, host, queue, recovery, workspace, discards, stream>>

(* The local SSH process could not be brought down, the response is not    *)
(* about this transfer, or the status cannot be had.                       *)
Uncertain(o) ==
  /\ \/ publisher[o] = "asking" \/ publisher[o] = "waiting"
  /\ Returns(o, "uncertain", "failed") /\ Waits(o, Nothing) /\ HangUp(o)
  /\ Recovery(o, TRUE)
  /\ UNCHANGED <<gen, host, queue, workspace, discards>>

(* An interrupt or an error of the request itself, not of the host.        *)
Interrupted(o) ==
  /\ publisher[o] = "waiting"
  /\ Returns(o, "failed", "failed") /\ Waits(o, Nothing) /\ HangUp(o)
  /\ stray' = [stray EXCEPT ![o] = TRUE]
  /\ UNCHANGED <<gen, final, stage, run, queue, recovery, workspace, discards>>

(* Mutant: a complete stage counts as a commit. *)
CommittedByStage(o) == final[gen[o]] = "full" \/ stage[o] = "full"

Committed(o) == final[gen[o]] = "full"

(* process_status, under the remote lock, reports a stage as well; result  *)
(* keeps what it said while the stage is cleaned.                          *)
AskStatus(o) ==
  /\ publisher[o] = "asking" /\ Free /\ final[gen[o]] # "partial"
  /\ LET known == recovery[o] \/ stage[o] # "absent"
     IN  /\ Recovery(o, known)
         /\ IF Committed(o) /\ ~known
            THEN Returns(o, "executed", "staged") /\ UNCHANGED <<queue, wait, answer>>
            ELSE /\ Step(o, "cleaning") /\ Ask(o, Cleanup(o))
                 /\ Outcome(o, IF Committed(o) THEN "staged" ELSE "failed")
                 /\ UNCHANGED state
  /\ UNCHANGED <<gen, host, stream, workspace, discards>>

(* _cleanup_remote_publish_stage within execute_publish_transfer *)
StageCleaned(o) ==
  /\ publisher[o] = "cleaning" /\ answer[o] = "cleaned"
  /\ Returns(o, IF result[o] = "staged" THEN "executed" ELSE "failed", result[o])
  /\ Recovery(o, FALSE) /\ Waits(o, Nothing)
  /\ UNCHANGED <<gen, host, stream, queue, workspace, discards>>

(* The transfer fails even when the generation is committed. *)
StageRemains(o) ==
  /\ publisher[o] = "cleaning"
  /\ Returns(o, "cleanup-pending", "failed") /\ Waits(o, Nothing)
  /\ UNCHANGED <<gen, host, stream, queue, recovery, workspace, discards>>

-----------------------------------------------------------------------------
(* The publisher: discard_publish_transfer_plan *)

Discard(o) ==
  /\ publisher[o] \in {"ready", "owned"} /\ discards[o] < MaxDiscards
  /\ discards' = [discards EXCEPT ![o] = @ + 1]
  /\ State(o, "discarding")
  /\ IF recovery[o] THEN Step(o, "discarding") /\ Ask(o, Cleanup(o))
                    ELSE Step(o, "removing") /\ UNCHANGED <<queue, wait, answer>>
  /\ UNCHANGED <<gen, host, stream, recovery, workspace, result>>

(* Mutant: the workspace is removed whatever the host answers. *)
RemoteDiscarded(o) ==
  /\ publisher[o] = "discarding" /\ answer[o] = "cleaned"
  /\ Recovery(o, FALSE) /\ Waits(o, Nothing)
  /\ Step(o, "removing")
  /\ UNCHANGED <<gen, host, stream, queue, state, workspace, result, discards>>

WorkspaceRemoved(o) ==
  /\ publisher[o] = "removing"
  /\ workspace' = [workspace EXCEPT ![o] = FALSE]
  /\ State(o, "discarded") /\ Step(o, "gone")
  /\ UNCHANGED <<gen, host, stream, queue, recovery, result, discards, wait, answer>>

(* No answer, an error, or a workspace that cannot be removed.             *)
DiscardFails(o) ==
  /\ publisher[o] \in {"discarding", "removing"}
  /\ State(o, "cleanup-pending") /\ Step(o, "owned") /\ Waits(o, Nothing)
  /\ UNCHANGED <<gen, host, stream, queue, recovery, workspace, result, discards>>

Helper == \/ \E o \in Op : TakeLock(o) \/ CleanupRuns(o)
          \/ Reuse \/ MakeStage \/ Receive \/ Verify \/ Commit \/ StepFails \/ Clean \/ Kill

Publisher(o) == \/ Prepare(o) \/ StartTransfer(o) \/ Stale(o) \/ Sent(o)
                \/ Transferred(o) \/ NotTransferred(o) \/ Uncertain(o) \/ Interrupted(o)
                \/ AskStatus(o) \/ StageCleaned(o) \/ StageRemains(o)
                \/ Discard(o) \/ RemoteDiscarded(o) \/ WorkspaceRemoved(o) \/ DiscardFails(o)

TransferNext == \/ Helper
                \/ \E r \in queue : Lose(r)
                \/ \E o \in Op : Publisher(o)

TransferSpec == TransferInit /\ [][TransferNext]_transferVars

-----------------------------------------------------------------------------
(* Correctness *)

(* Under its final name a generation is complete, whatever was cut off,    *)
(* failed or killed: web clients and later reuse never see half of one;    *)
(* and a transfer that was reported as executed has its generation on the  *)
(* host, also when that was learnt from the status only.                   *)
GenerationsAreWhole ==
  /\ TransferTypeOK
  /\ \A g \in Gen : final[g] # "partial"
  /\ \A o \in Op : state[o] = "executed" => final[gen[o]] = "full"

(* A cleanup never takes the stage away under the helper that fills it,    *)
(* although the publisher asks for it while the helper may still run.      *)
StageStaysUnderHelper ==
  run.step \in {"receive", "verify", "commit"} => stage[run.op] # "absent"

(* A discarded plan has left nothing behind, locally or on the host: the   *)
(* recovery path is remembered on every way a transfer can end.  Except    *)
(* for strays: helpers that started after the publisher had given up, and  *)
(* transfers ended by an interrupt.                                        *)
DiscardedIsGone ==
  \A o \in Op : state[o] = "discarded" =>
    ~workspace[o] /\ (stage[o] # "absent" => stray[o])
=============================================================================
