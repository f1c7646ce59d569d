------------------------ MODULE PublishOrchestration ------------------------
(***************************************************************************)
(* The publication of a pack (publish_orchestration.py and                 *)
(* publish_restart.py): both variants are prepared, transferred and        *)
(* verified, then the client and after it the server is activated and      *)
(* verified, then the server is restarted; whatever happens, the transfers *)
(* are discarded and a result is recorded that says what was achieved.     *)
(* What cannot be cleaned up keeps the plan "cleanup-pending", and callers *)
(* may retry the cleanup, also at the same time.                           *)
(*                                                                         *)
(* A transfer, an activation and a restart are single steps here.  Their   *)
(* outcomes are those PublishTransfer and PublishActivation establish step *)
(* by step: a decided outcome is true and final, an uncertain one may take *)
(* effect later, when its helper gets to run.                              *)
(***************************************************************************)
EXTENDS Naturals, Sequences

CONSTANTS Caller,    \* threads that retry the cleanup
          None,      \* no result yet
          MaxStops   \* how many interrupts are explored

ASSUME BoundsAssumption == MaxStops \in Nat

Side == {"client", "server"}

(* Mutant: the restart comes before the server is verified. *)
CallsRestartEarly == << <<"prepare", "client">>, <<"prepare", "server">>,
            <<"transfer", "client">>, <<"transfer", "server">>,
            <<"verify", "client">>, <<"verify", "server">>,
            <<"activate", "client">>, <<"verifyActive", "client">>,
            <<"activate", "server">>, <<"restart", "server">>,
            <<"verifyActive", "server">> >>

(* The calls of execute_pack_publish, in order. *)
Calls == << <<"prepare", "client">>, <<"prepare", "server">>,
            <<"transfer", "client">>, <<"transfer", "server">>,
            <<"verify", "client">>, <<"verify", "server">>,
            <<"activate", "client">>, <<"verifyActive", "client">>,
            <<"activate", "server">>, <<"verifyActive", "server">>,
            <<"restart", "server">> >>

VARIABLES
  current,     \* current[s]: the host serves this publication's generation
  late,        \* late[s]: a helper that was given up may still activate it
  marks,       \* marks[s]: what an activation left beside current
  restart,     \* what became of the restart command on the server
  workspace,   \* workspace[s]: the transfer plan exists and is not discarded
  state,       \* plan._state
  stopped,     \* the cancel event is set or the deadline has passed
  pos,         \* the next call
  begun,       \* its checkpoint is passed and its phase is set
  pc,          \* where execute_pack_publish is
  facts,       \* facts[s]: what is known to be achieved for the side
  owners,      \* sides whose transfer plan is still to be discarded
  activations, \* plan._activation_cleanup: how the activation ended
  transfers,   \* plan._transfer_cleanup_pending
  primary,     \* the error that ended the execution
  result,      \* plan._result
  outcome,     \* plan._terminal_result and the result being built
  rpc,         \* rpc[c]: where the retry of caller c is
  todo,        \* todo[c]: sides it has still to visit
  trouble,     \* trouble[c]: it met an error
  stops        \* interrupts so far

host == <<current, late, marks, restart>>
plan == <<state, activations, transfers, primary, result, outcome>>
run == <<pos, begun, pc, facts, owners>>
retry == <<rpc, todo, trouble>>
vars == <<host, workspace, plan, run, retry, stopped, stops>>

Fact == {"transferred", "remote_verified", "activated", "active_verified"}
Final == {"published", "publication_failed", "restart_failed", "restart_uncertain",
          "restart_not_started", "cancelled", "cleanup_pending"}
Result == [facts : [Side -> SUBSET Fact],
           restart : {"not_started", "succeeded", "failed", "uncertain"},
           final : Final, pending : SUBSET Side]

TypeOK ==
  /\ current \in [Side -> BOOLEAN] /\ late \in [Side -> BOOLEAN]
  /\ marks \in [Side -> SUBSET {"temp", "receipt"}]
  /\ restart \in {"none", "launched", "failed", "restarted"}
  /\ workspace \in [Side -> BOOLEAN]
  /\ state \in {"planned", "executing", "cleanup-pending", "cleaning", "completed", "failed"}
  /\ stopped \in BOOLEAN /\ begun \in BOOLEAN
  /\ pos \in 1..Len(Calls)
  /\ pc \in {"planned", "run", "return", "except", "finally", "discard", "over"}
  /\ facts \in [Side -> SUBSET Fact]
  /\ owners \in SUBSET Side /\ transfers \in SUBSET Side
  /\ activations \in [Side -> {"none", "activated", "unfinished"}]
  /\ primary \in {"none", "cancelled", "failed", "uncertain", "interrupt"}
  /\ result \in Result \cup {None} /\ outcome \in Result \cup {None}
  /\ rpc \in [Caller -> {"idle", "activations", "transfers", "publishResult"}]
  /\ todo \in [Caller -> SUBSET Side] /\ trouble \in [Caller -> BOOLEAN]
  /\ stops \in 0..MaxStops

Init ==
  /\ current \in [Side -> BOOLEAN] /\ late = [s \in Side |-> FALSE]
  /\ marks = [s \in Side |-> {}] /\ restart = "none"
  /\ workspace = [s \in Side |-> FALSE]
  /\ state = "planned" /\ stopped = FALSE
  /\ pos = 1 /\ begun = FALSE /\ pc = "planned"
  /\ facts = [s \in Side |-> {}] /\ owners = {}
  /\ activations = [s \in Side |-> "none"] /\ transfers = {}
  /\ primary = "none" /\ result = None /\ outcome = None
  /\ rpc = [c \in Caller |-> "idle"] /\ todo = [c \in Caller |-> {}]
  /\ trouble = [c \in Caller |-> FALSE]
  /\ stops = 0

-----------------------------------------------------------------------------
(* The record of a result, and what its constructor accepts *)

Achieved(f) == \A s \in Side : f \in facts[s]

ResultOf(status, final) ==
  [facts |-> facts, restart |-> status, final |-> final, pending |-> {}]

Everywhere(r, f) == \A s \in Side : f \in r.facts[s]

Valid(r) ==
  LET succeeded == Everywhere(r, "active_verified")
      attempted == r.restart # "not_started"
  IN /\ \A s \in Side :
          /\ "remote_verified" \in r.facts[s] => "transferred" \in r.facts[s]
          /\ "activated" \in r.facts[s] => "remote_verified" \in r.facts[s]
          /\ "active_verified" \in r.facts[s] => "activated" \in r.facts[s]
     /\ attempted => succeeded
     /\ CASE r.final = "published" -> succeeded /\ r.restart = "succeeded"
          [] r.final = "publication_failed" -> ~succeeded /\ ~attempted
          [] r.final = "restart_failed" -> succeeded /\ r.restart = "failed"
          [] r.final = "restart_uncertain" -> succeeded /\ r.restart = "uncertain"
          [] r.final = "restart_not_started" -> succeeded /\ ~attempted
          [] OTHER -> TRUE

-----------------------------------------------------------------------------
(* execute_pack_publish: the try block *)

Execute ==
  /\ state = "planned" /\ pc = "planned"
  /\ state' = "executing" /\ pc' = "run"
  /\ UNCHANGED <<host, workspace, activations, transfers, primary, result, outcome,
                 pos, begun, facts, owners, retry, stopped, stops>>

Raises(e) == primary' = e /\ pc' = "except"
Kept == UNCHANGED <<state, transfers, result, outcome, retry, stopped>>

(* _checkpoint before each call; then the phase is set. *)
Checkpoint ==
  /\ pc = "run" /\ ~begun
  /\ IF stopped THEN Raises("cancelled") /\ UNCHANGED begun
                ELSE begun' = TRUE /\ UNCHANGED <<primary, pc>>
  /\ UNCHANGED <<host, workspace, activations, pos, facts, owners, stops>> /\ Kept

At(call, s) == pc = "run" /\ begun /\ Calls[pos] = <<call, s>>

Continues == /\ pos' = pos + 1 /\ begun' = FALSE
             /\ UNCHANGED <<primary, pc>>

Achieves(s, f) == facts' = [facts EXCEPT ![s] = @ \cup {f}]

(* A call that fails: by an error, by noticing the cancellation or the     *)
(* deadline, without knowing what the host did, or by an interrupt.        *)
Fails(e) ==
  /\ e = "cancelled" => stopped
  /\ e = "interrupt" => stops < MaxStops
  /\ stops' = IF e = "interrupt" THEN stops + 1 ELSE stops
  /\ Raises(e)
  /\ UNCHANGED <<pos, begun>>

Returns == Continues /\ UNCHANGED stops

(* prepare_publish_transfer either leaves nothing or hands over the plan   *)
(* it could not clean up, with the error that came first.                  *)
Prepare(s) ==
  /\ At("prepare", s)
  /\ \/ /\ Returns
        /\ workspace' = [workspace EXCEPT ![s] = TRUE] /\ owners' = owners \cup {s}
     \/ \E e \in {"failed", "cancelled", "interrupt"} :
          /\ Fails(e)
          /\ \/ UNCHANGED <<workspace, owners>>
             \/ /\ workspace' = [workspace EXCEPT ![s] = TRUE]
                /\ owners' = owners \cup {s}
  /\ UNCHANGED <<host, activations, facts>> /\ Kept

Transfer(s) ==
  /\ At("transfer", s)
  /\ \/ Returns /\ Achieves(s, "transferred")
     \/ \E e \in {"failed", "cancelled", "uncertain", "interrupt"} : Fails(e) /\ UNCHANGED facts
  /\ UNCHANGED <<host, workspace, activations, owners>> /\ Kept

Verify(s) ==
  /\ At("verify", s)
  /\ \/ Returns /\ Achieves(s, "remote_verified")
     \/ \E e \in {"failed", "cancelled", "uncertain", "interrupt"} : Fails(e) /\ UNCHANGED facts
  /\ UNCHANGED <<host, workspace, activations, owners>> /\ Kept

Switched(s) == current' = [current EXCEPT ![s] = TRUE]
Leaves(s, m) == marks' = [marks EXCEPT ![s] = m]
Records(s, how) == activations' = [activations EXCEPT ![s] = how]

(* The outcomes of activate_publish_generation.                            *)
CleanupPends(s) ==
  /\ Fails("failed") /\ Switched(s)
  /\ \E m \in {{"receipt"}, {"temp", "receipt"}} : Leaves(s, m)
  /\ Records(s, "activated")
  /\ Achieves(s, "activated") /\ UNCHANGED late

Refused(s) ==
  /\ \E e \in {"failed", "cancelled"} : Fails(e)
  /\ UNCHANGED <<current, late, marks, activations, facts>>

RefusalPends(s) ==
  /\ Fails("failed")
  /\ \E m \in {{"receipt"}, {"temp", "receipt"}} : Leaves(s, m)
  /\ Records(s, "unfinished")
  /\ UNCHANGED <<current, late, facts>>

(* The answer does not settle it: the helper is over or may still run.     *)
(* An error without the identifier of the activation, which a response     *)
(* that does not bind raises, is not recorded; nor is an interrupt.        *)
Undecided(s) ==
  /\ \/ Fails("uncertain") /\ (Records(s, "unfinished") \/ UNCHANGED activations)
     \/ Fails("interrupt") /\ UNCHANGED activations
  /\ \E done, running \in BOOLEAN :
       /\ current' = [current EXCEPT ![s] = @ \/ done]
       /\ late' = [late EXCEPT ![s] = running]
  /\ \E m \in SUBSET {"temp", "receipt"} : Leaves(s, m)
  /\ UNCHANGED facts

Activate(s) ==
  /\ At("activate", s)
  /\ \/ /\ Returns /\ Switched(s) /\ Achieves(s, "activated")
        /\ UNCHANGED <<late, marks, activations>>
     \/ CleanupPends(s) \/ Refused(s) \/ RefusalPends(s) \/ Undecided(s)
  /\ UNCHANGED <<restart, workspace, owners>> /\ Kept

VerifyActive(s) ==
  /\ At("verifyActive", s)
  /\ \/ Returns /\ Achieves(s, "active_verified")
     \/ \E e \in {"failed", "cancelled", "uncertain", "interrupt"} : Fails(e) /\ UNCHANGED facts
  /\ UNCHANGED <<host, workspace, activations, owners>> /\ Kept

(* restart_activated_publish fails before SSH is launched, or answers, or  *)
(* is uncertain once SSH was launched; then the result is built.           *)
Restart ==
  /\ At("restart", "server")
  /\ \/ /\ restart' = "restarted" /\ outcome' = ResultOf("succeeded", "published")
        /\ pc' = "return"
        /\ UNCHANGED <<pos, begun, primary, stops>>
     \/ /\ restart' = "failed" /\ outcome' = ResultOf("failed", "restart_failed")
        /\ pc' = "return" /\ primary' = "failed"
        /\ UNCHANGED <<pos, begun, stops>>
     \/ /\ \E e \in {"failed", "cancelled"} : Fails(e)
        /\ UNCHANGED <<restart, outcome>>
     \/ /\ Fails("uncertain") /\ restart' \in {"launched", "failed", "restarted"}
        /\ UNCHANGED outcome
     \/ /\ Fails("interrupt") /\ restart' \in {"none", "launched", "failed", "restarted"}
        /\ UNCHANGED outcome
  /\ UNCHANGED <<current, late, marks, workspace, activations, facts, owners,
                 state, transfers, result, retry, stopped>>

-----------------------------------------------------------------------------
(* The handler and the finally block *)

Restarting == begun /\ pos = Len(Calls)

(* Mutant: an unexpected error of the restart is taken for one that comes  *)
(* before the launch.                                                      *)
FailureKnown ==
  IF Restarting /\ primary = "uncertain"
  THEN ResultOf("uncertain", IF stopped THEN "cancelled" ELSE "restart_uncertain")
  ELSE ResultOf("not_started",
         IF primary = "cancelled" \/ stopped THEN "cancelled"
         ELSE IF Achieved("active_verified") THEN "restart_not_started"
                                             ELSE "publication_failed")

Failure ==
  IF Restarting /\ primary \in {"uncertain", "interrupt"}
  THEN ResultOf("uncertain", IF stopped THEN "cancelled" ELSE "restart_uncertain")
  ELSE ResultOf("not_started",
         IF primary = "cancelled" \/ stopped THEN "cancelled"
         ELSE IF Achieved("active_verified") THEN "restart_not_started"
                                             ELSE "publication_failed")

(* A result the constructor refuses leaves the finally block without one:  *)
(* it raises at once, and the plan stays "executing".                      *)
Except ==
  /\ pc = "except"
  /\ IF Valid(Failure) THEN outcome' = Failure /\ pc' = "finally"
                       ELSE pc' = "over" /\ UNCHANGED outcome
  /\ UNCHANGED <<host, workspace, state, activations, transfers, primary, result,
                 pos, begun, facts, owners, retry, stopped, stops>>

Finally ==
  /\ pc \in {"return", "finally"} /\ pc' = "discard"
  /\ UNCHANGED <<host, workspace, plan, pos, begun, facts, owners, retry, stopped, stops>>

(* discard_publish_transfer_plan; every error, also an interrupt, is kept  *)
(* for the retry.                                                          *)
Discard(s) ==
  /\ pc = "discard" /\ s \in owners
  /\ owners' = owners \ {s}
  /\ \/ workspace' = [workspace EXCEPT ![s] = FALSE] /\ UNCHANGED transfers
     \/ transfers' = transfers \cup {s} /\ UNCHANGED workspace
  /\ UNCHANGED <<host, state, activations, primary, result, outcome,
                 pos, begun, pc, facts, retry, stopped, stops>>

Unfinished == {s \in Side : activations[s] # "none"} \cup transfers

(* Mutant: only failed discards keep the plan pending. *)
SettleTransfers ==
  /\ pc = "discard" /\ owners = {} /\ pc' = "over"
  /\ IF transfers # {}
     THEN /\ result' = [outcome EXCEPT !.final = "cleanup_pending", !.pending = Unfinished]
          /\ state' = "cleanup-pending"
     ELSE /\ result' = outcome
          /\ state' = IF primary = "none" THEN "completed" ELSE "failed"
  /\ UNCHANGED <<host, workspace, activations, transfers, primary, outcome,
                 pos, begun, facts, owners, retry, stopped, stops>>

Settle ==
  /\ pc = "discard" /\ owners = {} /\ pc' = "over"
  /\ IF Unfinished # {}
     THEN /\ result' = [outcome EXCEPT !.final = "cleanup_pending", !.pending = Unfinished]
          /\ state' = "cleanup-pending"
     ELSE /\ result' = outcome
          /\ state' = IF primary = "none" THEN "completed" ELSE "failed"
  /\ UNCHANGED <<host, workspace, activations, transfers, primary, outcome,
                 pos, begun, facts, owners, retry, stopped, stops>>

(* An interrupt in the handler or between the calls of the finally block   *)
(* leaves the plan "executing".                                            *)
HandlerInterrupted ==
  /\ pc \in {"except", "finally", "discard"} /\ stops < MaxStops
  /\ stops' = stops + 1 /\ pc' = "over"
  /\ UNCHANGED <<host, workspace, plan, pos, begun, facts, owners, retry, stopped>>

(* An interrupt between two calls, or after the last one, reaches the      *)
(* handler.                                                                *)
Interrupted ==
  /\ pc = "return" \/ (pc = "run" /\ ~begun)
  /\ Fails("interrupt")
  /\ UNCHANGED <<host, workspace, activations, facts, owners>> /\ Kept

-----------------------------------------------------------------------------
(* retry_pack_publish_cleanup *)

Goes(c, l) == rpc' = [rpc EXCEPT ![c] = l]
Visits(c, S) == todo' = [todo EXCEPT ![c] = S]

(* Mutant: a plan that is being cleaned can be cleaned again. *)
RetryAlways(c) ==
  /\ rpc[c] = "idle" /\ state \in {"cleanup-pending", "cleaning"}
  /\ state' = "cleaning" /\ Goes(c, "activations")
  /\ Visits(c, {s \in Side : activations[s] # "none"})
  /\ trouble' = [trouble EXCEPT ![c] = FALSE]
  /\ UNCHANGED <<host, workspace, activations, transfers, primary, result, outcome,
                 run, stopped, stops>>

Retry(c) ==
  /\ rpc[c] = "idle" /\ state = "cleanup-pending"
  /\ state' = "cleaning" /\ Goes(c, "activations")
  /\ Visits(c, {s \in Side : activations[s] # "none"})
  /\ trouble' = [trouble EXCEPT ![c] = FALSE]
  /\ UNCHANGED <<host, workspace, activations, transfers, primary, result, outcome,
                 run, stopped, stops>>

(* retry_publish_activation_cleanup removes the temporary symlink, and the *)
(* receipt when the activation is known to have succeeded.                 *)
RetryActivation(c, s) ==
  /\ rpc[c] = "activations" /\ s \in todo[c]
  /\ Visits(c, todo[c] \ {s})
  /\ \/ /\ marks' = [marks EXCEPT ![s] = IF activations[s] = "activated"
                                         THEN {} ELSE @ \ {"temp"}]
        /\ activations' = [activations EXCEPT ![s] = "none"]
        /\ UNCHANGED trouble
     \/ trouble' = [trouble EXCEPT ![c] = TRUE] /\ UNCHANGED <<marks, activations>>
  /\ UNCHANGED <<current, late, restart, workspace, state, transfers, primary, result,
                 outcome, run, rpc, stopped, stops>>

RetryTransfers(c) ==
  /\ rpc[c] = "activations" /\ todo[c] = {}
  /\ Goes(c, "transfers") /\ Visits(c, transfers)
  /\ UNCHANGED <<host, workspace, plan, run, trouble, stopped, stops>>

RetryDiscard(c, s) ==
  /\ rpc[c] = "transfers" /\ s \in todo[c]
  /\ Visits(c, todo[c] \ {s})
  /\ \/ /\ workspace' = [workspace EXCEPT ![s] = FALSE]
        /\ transfers' = transfers \ {s} /\ UNCHANGED trouble
     \/ trouble' = [trouble EXCEPT ![c] = TRUE] /\ UNCHANGED <<workspace, transfers>>
  /\ UNCHANGED <<host, state, activations, primary, result, outcome, run, rpc, stopped, stops>>

RetryEnds(c) ==
  /\ rpc[c] = "transfers" /\ todo[c] = {}
  /\ IF trouble[c]
     THEN state' = "cleanup-pending" /\ Goes(c, "idle")
     ELSE /\ state' = IF primary = "none" THEN "completed" ELSE "failed"
          /\ Goes(c, "publishResult")
  /\ UNCHANGED <<host, workspace, activations, transfers, primary, result, outcome,
                 run, todo, trouble, stopped, stops>>

(* The state is written before the result. *)
RestoreResult(c) ==
  /\ rpc[c] = "publishResult" /\ Goes(c, "idle")
  /\ result' = outcome
  /\ UNCHANGED <<host, workspace, state, activations, transfers, primary, outcome,
                 run, todo, trouble, stopped, stops>>

(* An interrupt outside the guarded calls leaves the plan "cleaning". *)
RetryInterrupted(c) ==
  /\ rpc[c] \notin {"idle", "publishResult"} /\ stops < MaxStops
  /\ stops' = stops + 1 /\ Goes(c, "idle")
  /\ UNCHANGED <<host, workspace, plan, run, todo, trouble, stopped>>

-----------------------------------------------------------------------------
(* Outside: the user cancels or time passes; a late helper activates *)

Stop == /\ ~stopped /\ stopped' = TRUE
        /\ UNCHANGED <<host, workspace, plan, run, retry, stops>>

LateHelper(s) ==
  /\ late[s] /\ late' = [late EXCEPT ![s] = FALSE]
  /\ current' = [current EXCEPT ![s] = TRUE]
  /\ UNCHANGED <<marks, restart, workspace, plan, run, retry, stopped, stops>>

Call == \/ \E s \in Side : \/ Prepare(s) \/ Transfer(s) \/ Verify(s)
                           \/ Activate(s) \/ VerifyActive(s)
        \/ Restart

Handler == Except \/ Finally \/ (\E s \in Side : Discard(s)) \/ Settle

Retries(c) == \/ Retry(c) \/ RetryTransfers(c) \/ RetryEnds(c)
              \/ RestoreResult(c) \/ RetryInterrupted(c)
              \/ \E s \in Side : RetryActivation(c, s) \/ RetryDiscard(c, s)

Next == \/ Execute \/ Checkpoint \/ Call \/ Handler
        \/ Interrupted \/ HandlerInterrupted
        \/ \E c \in Caller : Retries(c)
        \/ Stop \/ \E s \in Side : LateHelper(s)

Spec == Init /\ [][Next]_vars

-----------------------------------------------------------------------------
(* Correctness *)

Terminal == {"completed", "failed"}

(* A result exists and is true.  Only an interrupt can end                 *)
(* execute_pack_publish without one: every other end records one its       *)
(* constructor accepts.  What it calls active is current on the host, a    *)
(* restart it calls not started was never launched, one it calls succeeded *)
(* or failed has done so.  The end is true as well: a completed or failed  *)
(* plan has discarded both transfers and removed what its activations      *)
(* left, unless its error says that the host's state is not known (the     *)
(* receipt of a refused activation may stay); after any number of cleanups *)
(* it tells how the execution ended, and it is completed exactly when the  *)
(* pack was published.                                                     *)
Clean(s) == /\ ~workspace[s]
            /\ primary \notin {"uncertain", "interrupt"} =>
                 /\ "temp" \notin marks[s]
                 /\ "activated" \in facts[s] => marks[s] = {}
ResultIsTrue ==
  /\ TypeOK
  /\ pc = "over" /\ state = "executing" => stops > 0
  /\ \A r \in {result, outcome} \ {None} :
       /\ \A s \in Side : "activated" \in r.facts[s] => current[s]
       /\ r.restart = "not_started" => restart = "none"
       /\ r.restart = "succeeded" => restart = "restarted"
       /\ r.restart = "failed" => restart = "failed"
       /\ r.final = "published" => \A s \in Side : current[s]
  /\ state \in Terminal =>
       /\ \A s \in Side : Clean(s)
       /\ (\A c \in Caller : rpc[c] # "publishResult") =>
            /\ result = outcome
            /\ state = "completed" <=> result.final = "published"

(* A plan that has ended stays so, however many callers retry.             *)
TerminalIsFinal == [][(state \in Terminal) => (state' = state)]_vars

(* The server is switched only after the client was verified active, and   *)
(* restarted only after both were; a late helper changes nothing in this.  *)
OrderedSides ==
  [][/\ current'["server"] /\ ~current["server"] => "active_verified" \in facts["client"]
     /\ restart' # restart => Achieved("active_verified")]_vars
=============================================================================
