--------------------- MODULE PublishOrchestration_proofs ---------------------
(***************************************************************************)
(* Proofs about PublishOrchestration, for any callers that retry the       *)
(* cleanup and any number of interrupts.                                   *)
(*                                                                         *)
(* What the result says is read from facts, and the position in the order  *)
(* of the calls tells which facts there can be; the rest of the invariant  *)
(* ties the host, the record of what is left to clean up and the retries   *)
(* to the same execution.                                                  *)
(***************************************************************************)
EXTENDS PublishOrchestration, TLAPS

(* The order of the sides within a round of calls. *)
Turn(s) == IF s = "client" THEN 0 ELSE 1

(* An execution that has ended with a result; one that is under way.       *)
Over == pc = "over" /\ state # "executing"
Acting == pc \in {"run", "return", "except", "finally", "discard"}

(* The state of the plan goes with the place in execute_pack_publish, and  *)
(* only an interrupt ends it without a result.                             *)
Progress ==
  /\ pc = "planned" <=> state = "planned"
  /\ pc = "planned" => pos = 1
  /\ Acting => state = "executing"
  /\ pc \in {"planned", "run"} => primary = "none"
  /\ pc = "except" => primary # "none"
  /\ pc = "return" => Restarting
  /\ pc = "over" /\ state = "executing" => stops > 0

(* The facts are those of the calls that have returned.  Only an           *)
(* activation whose cleanup is pending is a fact before its call returns:  *)
(* it raises.                                                              *)
FactsFollowCalls ==
  \A s \in Side :
    /\ "transferred" \in facts[s] <=> pos > 3 + Turn(s)
    /\ "remote_verified" \in facts[s] <=> pos > 5 + Turn(s)
    /\ pos > 7 + 2 * Turn(s) => "activated" \in facts[s]
    /\ "activated" \in facts[s] =>
         pos > 7 + 2 * Turn(s) \/ (pos = 7 + 2 * Turn(s) /\ pc # "run")
    /\ "active_verified" \in facts[s] <=> pos > 8 + 2 * Turn(s)

(* What the facts say of the host is so.  A helper can be late only once   *)
(* its activation was called, and the restart was launched only by the     *)
(* last call; an error that claims to know the end of it came before.      *)
HostFollows ==
  /\ \A s \in Side : "activated" \in facts[s] => current[s]
  /\ \A s \in Side : late[s] => pos >= 7 + 2 * Turn(s)
  /\ pc \in {"planned", "run"} => restart = "none"
  /\ restart # "none" => Restarting
  /\ pc = "except" /\ restart # "none" => primary \in {"uncertain", "interrupt"}

(* A result that is true, and that tells the facts. *)
Said(r) ==
  /\ r \in Result /\ r.facts = facts
  /\ r.restart = "not_started" => restart = "none"
  /\ r.restart = "succeeded" => restart = "restarted"
  /\ r.restart = "failed" => restart = "failed"
  /\ r.final = "published" => Achieved("activated")

(* Every result is of that kind, and published exactly when nothing went   *)
(* wrong.                                                                  *)
OutcomeSays ==
  /\ pc \in {"planned", "run"} => outcome = None
  /\ outcome = None \/ Said(outcome)
  /\ pc \in {"return", "finally", "discard"} \/ Over =>
       /\ Said(outcome)
       /\ outcome.final = "published" <=> primary = "none"
  /\ result = None \/ (Over /\ Said(result))

(* A transfer that was not discarded is still in somebody's charge. *)
Owned ==
  /\ \A s \in Side : workspace[s] => s \in owners \cup transfers
  /\ Over => owners = {}

(* What an activation leaves beside current is recorded for the cleanup,   *)
(* unless it ended in doubt or by an interrupt.                            *)
MarksAreRecorded ==
  /\ pc \in {"planned", "run"} => \A s \in Side : marks[s] = {} /\ activations[s] = "none"
  /\ \A s \in Side : activations[s] = "activated" => "activated" \in facts[s]
  /\ primary \notin {"uncertain", "interrupt"} =>
       \A s \in Side :
         /\ activations[s] = "none" =>
              "temp" \notin marks[s] /\ ("activated" \in facts[s] => marks[s] = {})
         /\ activations[s] = "unfinished" => "activated" \notin facts[s]

Cleaning(c) == rpc[c] \in {"activations", "transfers"}

(* One caller cleans up at a time, and one without trouble has visited, or *)
(* has still to visit, whatever is pending.                                *)
OneCleaner ==
  /\ \A c \in Caller : Cleaning(c) => state = "cleaning"
  /\ \A c, d \in Caller : Cleaning(c) /\ Cleaning(d) => c = d
  /\ \A c \in Caller : rpc[c] = "publishResult" => state \in Terminal
  /\ \A c \in Caller : rpc[c] = "activations" /\ ~trouble[c] =>
       \A s \in Side : activations[s] # "none" => s \in todo[c]
  /\ \A c \in Caller : rpc[c] = "transfers" /\ ~trouble[c] =>
       (\A s \in Side : activations[s] = "none") /\ transfers \subseteq todo[c]

(* A plan ends with nothing pending, and its result is the outcome of the  *)
(* execution, or a caller is about to write that.                          *)
EndsClean ==
  state \in Terminal =>
    /\ transfers = {} /\ \A s \in Side : activations[s] = "none"
    /\ state = "completed" <=> primary = "none"
    /\ (\E c \in Caller : rpc[c] = "publishResult") \/ result = outcome

IInv == TypeOK /\ Progress /\ FactsFollowCalls /\ HostFollows /\ OutcomeSays
        /\ Owned /\ MarksAreRecorded /\ OneCleaner /\ EndsClean

USE BoundsAssumption

(* The calls, one by one. *)
LEMMA CallOrder ==
  /\ Len(Calls) = 11
  /\ Calls[1] = <<"prepare", "client">> /\ Calls[2] = <<"prepare", "server">>
  /\ Calls[3] = <<"transfer", "client">> /\ Calls[4] = <<"transfer", "server">>
  /\ Calls[5] = <<"verify", "client">> /\ Calls[6] = <<"verify", "server">>
  /\ Calls[7] = <<"activate", "client">> /\ Calls[8] = <<"verifyActive", "client">>
  /\ Calls[9] = <<"activate", "server">> /\ Calls[10] = <<"verifyActive", "server">>
  /\ Calls[11] = <<"restart", "server">>
  BY DEF Calls

(* When a call is made. *)
LEMMA CallIsAt ==
  ASSUME TypeOK, NEW s \in Side
  PROVE  /\ At("prepare", s) => pos = 1 + Turn(s)
         /\ At("transfer", s) => pos = 3 + Turn(s)
         /\ At("verify", s) => pos = 5 + Turn(s)
         /\ At("activate", s) => pos = 7 + 2 * Turn(s)
         /\ At("verifyActive", s) => pos = 8 + 2 * Turn(s)
         /\ At("restart", s) => pos = 11
<1>1. pos \in {1, 2, 3, 4, 5, 6, 7, 8, 9, 10, 11}
  BY CallOrder DEF TypeOK
<1> QED BY <1>1, CallOrder DEF At, Side, Turn

-----------------------------------------------------------------------------
(* The invariant *)

LEMMA InitIInv == Init => IInv
<1> SUFFICES ASSUME Init PROVE IInv
  OBVIOUS
<1>1. TypeOK
  <2>1. pos \in 1..Len(Calls)
    BY CallOrder DEF Init
  <2>2. /\ current \in [Side -> BOOLEAN] /\ late \in [Side -> BOOLEAN]
        /\ workspace \in [Side -> BOOLEAN] /\ marks \in [Side -> SUBSET {"temp", "receipt"}]
        /\ facts \in [Side -> SUBSET Fact]
    BY DEF Init
  <2>3. activations \in [Side -> {"none", "activated", "unfinished"}]
    BY DEF Init
  <2>4. /\ rpc \in [Caller -> {"idle", "activations", "transfers", "publishResult"}]
        /\ todo \in [Caller -> SUBSET Side] /\ trouble \in [Caller -> BOOLEAN]
    BY DEF Init
  <2>5. /\ restart \in {"none", "launched", "failed", "restarted"}
        /\ state \in {"planned", "executing", "cleanup-pending", "cleaning", "completed", "failed"}
        /\ pc \in {"planned", "run", "return", "except", "finally", "discard", "over"}
        /\ primary \in {"none", "cancelled", "failed", "uncertain", "interrupt"}
    BY DEF Init
  <2>6. stopped \in BOOLEAN /\ begun \in BOOLEAN
    BY DEF Init
  <2>8. stops \in 0..MaxStops
    BY BoundsAssumption DEF Init
  <2>7. /\ owners \in SUBSET Side /\ transfers \in SUBSET Side
        /\ result \in Result \cup {None} /\ outcome \in Result \cup {None}
    BY DEF Init
  <2> QED BY <2>1, <2>2, <2>3, <2>4, <2>5, <2>6, <2>7, <2>8 DEF TypeOK
<1>2. Progress /\ HostFollows /\ OutcomeSays /\ Owned /\ MarksAreRecorded
  BY DEF Init, Progress, HostFollows, OutcomeSays, Owned, MarksAreRecorded, Acting, Over
<1>3. FactsFollowCalls
  BY DEF Init, FactsFollowCalls, Turn, Side
<1>4. OneCleaner /\ EndsClean
  BY DEF Init, OneCleaner, EndsClean, Cleaning, Terminal
<1> QED BY <1>1, <1>2, <1>3, <1>4 DEF IInv

(* What the calls have in common: each returns, or leads to the handler.   *)
LEMMA CallEffect ==
  ASSUME TypeOK, NEW s \in Side,
         Prepare(s) \/ Transfer(s) \/ Verify(s) \/ Activate(s) \/ VerifyActive(s)
  PROVE  /\ pc = "run" /\ begun /\ pos + 1 \in 1..Len(Calls)
         /\ UNCHANGED <<state, transfers, result, outcome, retry, stopped, restart>>
         /\ \/ /\ pc' = "run" /\ pos' = pos + 1 /\ begun' = FALSE
               /\ UNCHANGED <<primary, stops>>
            \/ /\ pc' = "except" /\ UNCHANGED <<pos, begun>>
               /\ primary' \in {"cancelled", "failed", "uncertain", "interrupt"}
               /\ stops' \in 0..MaxStops
<1>1. pos + 1 \in 1..Len(Calls)
  BY CallIsAt, CallOrder DEF Prepare, Transfer, Verify, Activate, VerifyActive, CleanupPends,
     Refused, RefusalPends, Undecided, TypeOK, Turn
<1>2. pc = "run" /\ begun
  BY DEF Prepare, Transfer, Verify, Activate, VerifyActive, At
<1>3. UNCHANGED <<state, transfers, result, outcome, retry, stopped, restart>>
  BY DEF Kept, host, Prepare, Transfer, Verify, Activate, VerifyActive
<1>4. Returns \/ \E e \in {"cancelled", "failed", "uncertain", "interrupt"} : Fails(e)
  BY DEF Prepare, Transfer, Verify, Activate, VerifyActive, CleanupPends, Refused,
     RefusalPends, Undecided
<1>5. stops \in Nat /\ stops \in 0..MaxStops
  BY DEF TypeOK
<1>6. ASSUME NEW e \in {"cancelled", "failed", "uncertain", "interrupt"}, Fails(e)
      PROVE  stops' \in 0..MaxStops
  BY <1>5, <1>6 DEF Fails
<1> QED BY <1>1, <1>2, <1>3, <1>4, <1>6 DEF Returns, Continues, Fails, Raises

(* A result has the parts it was built from. *)
LEMMA ResultOfSays ==
  ASSUME TypeOK, NEW h \in {"not_started", "succeeded", "failed", "uncertain"}, NEW f \in Final
  PROVE  /\ ResultOf(h, f) \in Result
         /\ ResultOf(h, f).facts = facts /\ ResultOf(h, f).restart = h
         /\ ResultOf(h, f).final = f
  BY DEF ResultOf, Result, TypeOK

(* What the handler reports is accepted and true. *)
LEMMA FailureIsTrue ==
  ASSUME IInv, pc = "except"
  PROVE  Valid(Failure) /\ Said(Failure) /\ Failure.final # "published"
<1>0. TypeOK /\ Progress /\ FactsFollowCalls /\ HostFollows
  BY DEF IInv
<1>1. \A s \in Side :
        /\ "remote_verified" \in facts[s] => "transferred" \in facts[s]
        /\ "activated" \in facts[s] => "remote_verified" \in facts[s]
        /\ "active_verified" \in facts[s] => "activated" \in facts[s]
  BY <1>0, CallOrder DEF FactsFollowCalls, Side, Turn, TypeOK
<1>2. Restarting => Achieved("active_verified")
  BY <1>0, CallOrder DEF Restarting, Achieved, FactsFollowCalls, Side, Turn
<1>3. CASE Restarting /\ primary \in {"uncertain", "interrupt"}
  <2>1. PICK f \in {"cancelled", "restart_uncertain"} : Failure = ResultOf("uncertain", f)
    BY <1>3 DEF Failure
  <2>2. /\ Failure \in Result /\ Failure.facts = facts /\ Failure.restart = "uncertain"
        /\ Failure.final = f
    BY <1>0, <2>1, ResultOfSays DEF Final
  <2> QED BY <1>1, <1>2, <1>3, <2>1, <2>2 DEF Valid, Said, Everywhere, Achieved
<1>4. CASE ~(Restarting /\ primary \in {"uncertain", "interrupt"})
  <2>1. PICK f \in {"cancelled", "restart_not_started", "publication_failed"} :
          /\ Failure = ResultOf("not_started", f)
          /\ f = "restart_not_started" => Achieved("active_verified")
          /\ f = "publication_failed" => ~Achieved("active_verified")
    BY <1>4 DEF Failure
  <2>2. /\ Failure \in Result /\ Failure.facts = facts /\ Failure.restart = "not_started"
        /\ Failure.final = f
    BY <1>0, <2>1, ResultOfSays DEF Final
  <2>3. restart = "none"
    BY <1>0, <1>4 DEF HostFollows, Restarting
  <2> QED BY <1>1, <2>1, <2>2, <2>3 DEF Valid, Said, Everywhere, Achieved
<1> QED BY <1>3, <1>4

(* The restart builds the result, or raises an error; one that says it     *)
(* failed before the launch is right.                                      *)
LEMMA RestartEffect ==
  ASSUME IInv, Restart
  PROVE  /\ pc = "run" /\ Restarting /\ Restarting' /\ primary = "none"
         /\ UNCHANGED <<current, late, marks, workspace, activations, facts, owners, state,
                        transfers, result, retry, stopped, pos, begun>>
         /\ restart' \in {"none", "launched", "failed", "restarted"} /\ stops' \in 0..MaxStops
         /\ primary' \in {"none", "cancelled", "failed", "uncertain", "interrupt"}
         /\ \/ /\ pc' = "return" /\ Said(outcome)'
               /\ outcome'.final = "published" <=> primary' = "none"
            \/ /\ pc' = "except" /\ primary' # "none" /\ UNCHANGED outcome
               /\ primary' \in {"failed", "cancelled"} => restart' = "none"
<1>0. TypeOK /\ Progress /\ FactsFollowCalls /\ HostFollows
  BY DEF IInv
<1>1. At("restart", "server") /\ pc = "run" /\ begun /\ primary = "none" /\ restart = "none"
  BY <1>0 DEF Restart, At, Progress, HostFollows
<1>2. pos = Len(Calls)
  BY <1>0, <1>1, CallIsAt, CallOrder DEF Side
<1>3. UNCHANGED <<current, late, marks, workspace, activations, facts, owners, state,
                  transfers, result, retry, stopped, pos, begun>>
  BY DEF Restart, Fails, Raises
<1>4. /\ restart' \in {"none", "launched", "failed", "restarted"} /\ stops' \in 0..MaxStops
      /\ primary' \in {"none", "cancelled", "failed", "uncertain", "interrupt"}
  <2>1. stops \in 0..MaxStops
    BY <1>0 DEF TypeOK
  <2>2. restart' \in {"none", "launched", "failed", "restarted"}
    BY <1>1 DEF Restart
  <2>3. UNCHANGED stops \/ \E e \in {"failed", "cancelled", "uncertain", "interrupt"} : Fails(e)
    BY DEF Restart
  <2>4. stops' \in 0..MaxStops
    BY <2>1, <2>3 DEF Fails
  <2>5. primary' \in {"none", "cancelled", "failed", "uncertain", "interrupt"}
    BY <1>1 DEF Restart, Fails, Raises
  <2> QED BY <2>2, <2>4, <2>5
<1>5. \/ /\ pc' = "return" /\ restart' = "restarted" /\ primary' = "none"
         /\ outcome' = ResultOf("succeeded", "published")
      \/ /\ pc' = "return" /\ restart' = "failed" /\ primary' = "failed"
         /\ outcome' = ResultOf("failed", "restart_failed")
      \/ /\ pc' = "except" /\ primary' # "none" /\ UNCHANGED outcome
         /\ primary' \in {"failed", "cancelled"} => restart' = "none"
  BY <1>1 DEF Restart, Fails, Raises
<1>6. Achieved("activated")
  BY <1>0, <1>2, CallOrder DEF Achieved, FactsFollowCalls, Side, Turn
<1>7. pc' = "return" => Said(outcome)' /\ (outcome'.final = "published" <=> primary' = "none")
  <2>1. /\ ResultOf("succeeded", "published") \in Result
        /\ ResultOf("succeeded", "published").facts = facts
        /\ ResultOf("succeeded", "published").restart = "succeeded"
        /\ ResultOf("succeeded", "published").final = "published"
    BY <1>0, ResultOfSays DEF Final
  <2>2. /\ ResultOf("failed", "restart_failed") \in Result
        /\ ResultOf("failed", "restart_failed").facts = facts
        /\ ResultOf("failed", "restart_failed").restart = "failed"
        /\ ResultOf("failed", "restart_failed").final = "restart_failed"
    BY <1>0, ResultOfSays DEF Final
  <2>3. facts' = facts
    BY <1>3
  <2> QED BY <1>5, <1>6, <2>1, <2>2, <2>3 DEF Said, Achieved
<1> QED BY <1>1, <1>2, <1>3, <1>4, <1>5, <1>7 DEF Restarting

(* So the state has its type when the variables of the call keep theirs.   *)
LEMMA CallKeepsTypes ==
  ASSUME TypeOK, NEW s \in Side,
         Prepare(s) \/ Transfer(s) \/ Verify(s) \/ Activate(s) \/ VerifyActive(s),
         current' \in [Side -> BOOLEAN], late' \in [Side -> BOOLEAN],
         marks' \in [Side -> SUBSET {"temp", "receipt"}],
         workspace' \in [Side -> BOOLEAN], owners' \in SUBSET Side,
         facts' \in [Side -> SUBSET Fact],
         activations' \in [Side -> {"none", "activated", "unfinished"}]
  PROVE  TypeOK'
<1>1. /\ UNCHANGED <<state, transfers, result, outcome, retry, stopped, restart>>
      /\ pos' \in {pos, pos + 1} /\ pos + 1 \in 1..Len(Calls) /\ begun' \in {begun, FALSE}
      /\ pc' \in {"run", "except"}
      /\ primary' \in {primary, "cancelled", "failed", "uncertain", "interrupt"}
      /\ stops' = stops \/ stops' \in 0..MaxStops
  BY CallEffect
<1>2. pos' \in 1..Len(Calls) /\ begun' \in BOOLEAN /\ stops' \in 0..MaxStops
  BY <1>1 DEF TypeOK
<1>3. /\ pc' \in {"planned", "run", "return", "except", "finally", "discard", "over"}
      /\ primary' \in {"none", "cancelled", "failed", "uncertain", "interrupt"}
  BY <1>1 DEF TypeOK
<1>4. UNCHANGED <<state, transfers, result, outcome, rpc, todo, trouble, stopped, restart>>
  BY <1>1 DEF retry
<1> QED BY <1>2, <1>3, <1>4 DEF TypeOK

LEMMA NextTypeOK == IInv /\ [Next]_vars => TypeOK'
<1> SUFFICES ASSUME IInv, [Next]_vars PROVE TypeOK'
  OBVIOUS
<1>0. TypeOK
  BY DEF IInv
<1> USE DEF host, plan, run, retry
<1>1. CASE Execute
  BY <1>0, <1>1 DEF Execute, TypeOK
<1>2. CASE Checkpoint
  <2>1. /\ begun' \in BOOLEAN /\ primary' \in {primary, "cancelled"}
        /\ pc' \in {"run", "except"}
    BY <1>0, <1>2 DEF Checkpoint, Raises, TypeOK
  <2>2. /\ UNCHANGED <<host, workspace, activations, pos, facts, owners, stops>>
        /\ UNCHANGED <<state, transfers, result, outcome, retry, stopped>>
    BY <1>2 DEF Checkpoint, Kept
  <2> QED BY <1>0, <2>1, <2>2 DEF TypeOK
<1>3. ASSUME NEW s \in Side, Prepare(s) PROVE TypeOK'
  <2>1. UNCHANGED <<current, late, marks, activations, facts>>
    BY <1>3 DEF Prepare
  <2>2. workspace' \in [Side -> BOOLEAN] /\ owners' \in SUBSET Side
    BY <1>0, <1>3 DEF Prepare, TypeOK
  <2> QED BY <1>0, <1>3, <2>1, <2>2, CallKeepsTypes DEF TypeOK
<1>4. ASSUME NEW s \in Side, Transfer(s) \/ Verify(s) \/ VerifyActive(s) PROVE TypeOK'
  <2>1. UNCHANGED <<current, late, marks, workspace, activations, owners>>
    BY <1>4 DEF Transfer, Verify, VerifyActive
  <2>2. UNCHANGED facts \/ \E f \in Fact : Achieves(s, f)
    BY <1>4 DEF Transfer, Verify, VerifyActive, Fact
  <2>3. facts' \in [Side -> SUBSET Fact]
    BY <1>0, <2>2 DEF Achieves, TypeOK
  <2> QED BY <1>0, <1>4, <2>1, <2>3, CallKeepsTypes DEF TypeOK
<1>5. ASSUME NEW s \in Side, Activate(s) PROVE TypeOK'
  <2> USE DEF Activate, CleanupPends, Refused, RefusalPends, Undecided
  <2>1. UNCHANGED <<workspace, owners>>
    BY <1>5
  <2>2. UNCHANGED facts \/ Achieves(s, "activated")
    BY <1>5
  <2>3. facts' \in [Side -> SUBSET Fact]
    BY <1>0, <2>2 DEF Achieves, TypeOK, Fact
  <2>4. current' \in [Side -> BOOLEAN] /\ late' \in [Side -> BOOLEAN]
    BY <1>0, <1>5 DEF Switched, TypeOK
  <2>5. UNCHANGED marks \/ \E m \in SUBSET {"temp", "receipt"} : Leaves(s, m)
    BY <1>5
  <2>6. marks' \in [Side -> SUBSET {"temp", "receipt"}]
    <3> DEFINE Marks == SUBSET {"temp", "receipt"}
    <3>1. marks \in [Side -> Marks] /\ (UNCHANGED marks \/ \E m \in Marks : Leaves(s, m))
      BY <1>0, <2>5 DEF TypeOK
    <3> HIDE DEF Marks
    <3>2. marks' \in [Side -> Marks]
      BY <3>1 DEF Leaves
    <3> QED BY <3>2 DEF Marks
  <2>7. activations' \in [Side -> {"none", "activated", "unfinished"}]
    BY <1>0, <1>5 DEF Records, TypeOK
  <2>8. workspace' \in [Side -> BOOLEAN] /\ owners' \in SUBSET Side
    BY <1>0, <2>1 DEF TypeOK
  <2> HIDE DEF Activate, host, plan, run, retry
  <2> QED BY <1>0, <1>5, <2>3, <2>4, <2>6, <2>7, <2>8, CallKeepsTypes
<1>6. CASE Restart
  BY <1>0, <1>6, RestartEffect DEF TypeOK, Said
<1>7. CASE Except
  <2>1. UNCHANGED outcome \/ outcome' \in Result
    BY <1>7, FailureIsTrue DEF Except, Said
  <2> QED BY <1>0, <1>7, <2>1 DEF Except, TypeOK
<1>8. CASE Finally
  BY <1>0, <1>8 DEF Finally, TypeOK
<1>9. ASSUME NEW s \in Side, Discard(s) PROVE TypeOK'
  <2>1. workspace' \in [Side -> BOOLEAN]
    BY <1>0, <1>9 DEF Discard, TypeOK
  <2>2. owners' \in SUBSET Side /\ transfers' \in SUBSET Side
    BY <1>0, <1>9 DEF Discard, TypeOK
  <2> QED BY <1>0, <1>9, <2>1, <2>2 DEF Discard, TypeOK
<1>10. CASE Settle
  <2>1. outcome \in Result
    BY <1>10 DEF IInv, OutcomeSays, Said, Settle
  <2>2. Unfinished \in SUBSET Side
    BY <1>0 DEF Unfinished, TypeOK
  <2>3. [outcome EXCEPT !.final = "cleanup_pending", !.pending = Unfinished] \in Result
    BY <2>1, <2>2 DEF Result, Final
  <2>4. result' \in Result
    BY <1>10, <2>1, <2>3 DEF Settle
  <2>5. state' \in {"cleanup-pending", "completed", "failed"} /\ pc' = "over"
    BY <1>10 DEF Settle
  <2> QED BY <1>0, <1>10, <2>4, <2>5 DEF Settle, TypeOK
<1>11. CASE Interrupted
  BY <1>0, <1>11 DEF Interrupted, Fails, Raises, Kept, TypeOK
<1>12. CASE HandlerInterrupted
  BY <1>0, <1>12 DEF HandlerInterrupted, TypeOK
<1>13. ASSUME NEW c \in Caller, Retry(c) PROVE TypeOK'
  <2>1. rpc' \in [Caller -> {"idle", "activations", "transfers", "publishResult"}]
    BY <1>0, <1>13 DEF Retry, Goes, TypeOK
  <2>2. todo' \in [Caller -> SUBSET Side] /\ trouble' \in [Caller -> BOOLEAN]
    BY <1>0, <1>13 DEF Retry, Visits, TypeOK
  <2> QED BY <1>0, <1>13, <2>1, <2>2 DEF Retry, TypeOK
<1>14. ASSUME NEW c \in Caller, NEW s \in Side, RetryActivation(c, s) PROVE TypeOK'
  <2>1. todo' \in [Caller -> SUBSET Side] /\ trouble' \in [Caller -> BOOLEAN]
    BY <1>0, <1>14 DEF RetryActivation, Visits, TypeOK
  <2>2. UNCHANGED marks \/ \E m \in SUBSET {"temp", "receipt"} : Leaves(s, m)
    BY <1>0, <1>14 DEF RetryActivation, Leaves, TypeOK
  <2>3. marks' \in [Side -> SUBSET {"temp", "receipt"}]
    <3> DEFINE Marks == SUBSET {"temp", "receipt"}
    <3>1. marks \in [Side -> Marks] /\ (UNCHANGED marks \/ \E m \in Marks : Leaves(s, m))
      BY <1>0, <2>2 DEF TypeOK
    <3> HIDE DEF Marks
    <3>2. marks' \in [Side -> Marks]
      BY <3>1 DEF Leaves
    <3> QED BY <3>2 DEF Marks
  <2>4. activations' \in [Side -> {"none", "activated", "unfinished"}]
    BY <1>0, <1>14 DEF RetryActivation, TypeOK
  <2> QED BY <1>0, <1>14, <2>1, <2>3, <2>4 DEF RetryActivation, TypeOK
<1>15. ASSUME NEW c \in Caller, RetryTransfers(c) PROVE TypeOK'
  BY <1>0, <1>15 DEF RetryTransfers, Goes, Visits, TypeOK
<1>16. ASSUME NEW c \in Caller, NEW s \in Side, RetryDiscard(c, s) PROVE TypeOK'
  <2>1. todo' \in [Caller -> SUBSET Side] /\ trouble' \in [Caller -> BOOLEAN]
    BY <1>0, <1>16 DEF RetryDiscard, Visits, TypeOK
  <2>2. workspace' \in [Side -> BOOLEAN] /\ transfers' \in SUBSET Side
    BY <1>0, <1>16 DEF RetryDiscard, TypeOK
  <2> QED BY <1>0, <1>16, <2>1, <2>2 DEF RetryDiscard, TypeOK
<1>17. ASSUME NEW c \in Caller, RetryEnds(c) PROVE TypeOK'
  BY <1>0, <1>17 DEF RetryEnds, Goes, TypeOK
<1>18. ASSUME NEW c \in Caller, RestoreResult(c) PROVE TypeOK'
  BY <1>0, <1>18 DEF RestoreResult, Goes, TypeOK
<1>19. ASSUME NEW c \in Caller, RetryInterrupted(c) PROVE TypeOK'
  BY <1>0, <1>19 DEF RetryInterrupted, Goes, TypeOK
<1>20. CASE Stop
  BY <1>0, <1>20 DEF Stop, TypeOK
<1>21. ASSUME NEW s \in Side, LateHelper(s) PROVE TypeOK'
  BY <1>0, <1>21 DEF LateHelper, TypeOK
<1>22. CASE UNCHANGED vars
  BY <1>0, <1>22 DEF vars, TypeOK
<1> QED BY <1>1, <1>2, <1>3, <1>4, <1>5, <1>6, <1>7, <1>8, <1>9, <1>10, <1>11, <1>12, <1>13,
    <1>14, <1>15, <1>16, <1>17, <1>18, <1>19, <1>20, <1>21, <1>22
    DEF Next, Call, Handler, Retries

(* The invariant is inductive.  The calls share their effect on the        *)
(* control, and the retries exclude each other by the state "cleaning".    *)
LEMMA NextIInv == IInv /\ [Next]_vars => IInv'
<1> SUFFICES ASSUME IInv, [Next]_vars PROVE IInv'
  OBVIOUS
<1>0. /\ TypeOK /\ TypeOK'
      /\ Progress /\ FactsFollowCalls /\ HostFollows /\ OutcomeSays /\ Owned
      /\ MarksAreRecorded /\ OneCleaner /\ EndsClean
  BY NextTypeOK DEF IInv
<1> USE DEF host, plan, run, retry
<1>1. CASE Execute
  <2> USE <1>0, <1>1 DEF Execute
  <2>1. Progress' /\ HostFollows'
    BY DEF Progress, HostFollows, Acting, Restarting
  <2>2. FactsFollowCalls'
    <3>1. pos = 1 /\ \A s \in Side : Turn(s) \in {0, 1}
      BY DEF Progress, Turn
    <3> QED BY <3>1 DEF FactsFollowCalls
  <2>3. OutcomeSays' /\ Owned' /\ MarksAreRecorded'
    BY DEF OutcomeSays, Owned, MarksAreRecorded, Over, Progress
  <2>4. OneCleaner' /\ EndsClean'
    BY DEF OneCleaner, EndsClean, Cleaning, Terminal
  <2> QED BY <2>1, <2>2, <2>3, <2>4 DEF IInv
<1>2. CASE Checkpoint
  <2> USE <1>0, <1>2 DEF Checkpoint, Raises, Kept
  <2>1. Progress' /\ HostFollows'
    BY DEF Progress, HostFollows, Acting, Restarting
  <2>2. FactsFollowCalls'
    BY DEF FactsFollowCalls
  <2>3. OutcomeSays' /\ Owned' /\ MarksAreRecorded'
    BY DEF OutcomeSays, Owned, MarksAreRecorded, Over, Progress, Acting
  <2>4. OneCleaner' /\ EndsClean'
    BY DEF OneCleaner, EndsClean, Cleaning, Terminal, Progress, Acting
  <2> QED BY <2>1, <2>2, <2>3, <2>4 DEF IInv
<1>3. ASSUME NEW s \in Side,
             Prepare(s) \/ Transfer(s) \/ Verify(s) \/ Activate(s) \/ VerifyActive(s)
      PROVE  IInv'
  <2>0. /\ pc = "run" /\ begun /\ pos + 1 \in 1..Len(Calls)
        /\ UNCHANGED <<state, transfers, result, outcome, retry, stopped, restart>>
        /\ \/ /\ pc' = "run" /\ pos' = pos + 1 /\ begun' = FALSE
              /\ UNCHANGED <<primary, stops>>
           \/ /\ pc' = "except" /\ UNCHANGED <<pos, begun>>
              /\ primary' \in {"cancelled", "failed", "uncertain", "interrupt"}
              /\ stops' \in 0..MaxStops
    BY <1>0, <1>3, CallEffect
  <2>1. Progress'
    BY <1>0, <2>0 DEF Progress, Acting
  <2>2. FactsFollowCalls'
    BY <1>0, <1>3, CallIsAt DEF FactsFollowCalls, Prepare, Transfer, Verify, Activate, VerifyActive,
       CleanupPends, Refused, RefusalPends, Undecided, Returns, Continues, Fails, Raises,
       Achieves, Turn, Side, TypeOK
  <2>3. HostFollows'
    <3>1. \A p \in Side : "activated" \in facts'[p] => current'[p]
      <4>1. CASE UNCHANGED facts
        <5>1. UNCHANGED current \/ \E b \in BOOLEAN : current' = [current EXCEPT ![s] = @ \/ b]
          BY <1>3, <4>1 DEF Prepare, Transfer, Verify, Activate, VerifyActive, CleanupPends,
             Refused, RefusalPends, Undecided, Switched, host
        <5> QED BY <1>0, <4>1, <5>1 DEF HostFollows, TypeOK
      <4>2. CASE UNCHANGED current /\ \E f \in Fact \ {"activated"} : Achieves(s, f)
        BY <1>0, <4>2 DEF HostFollows, Achieves, TypeOK
      <4>3. CASE Switched(s) /\ Achieves(s, "activated")
        BY <1>0, <4>3 DEF HostFollows, Achieves, Switched, TypeOK
      <4>4. Transfer(s) \/ Verify(s) \/ VerifyActive(s) =>
              \/ UNCHANGED facts
              \/ UNCHANGED current /\ \E f \in Fact \ {"activated"} : Achieves(s, f)
        BY DEF Transfer, Verify, VerifyActive, host, Fact
      <4>5. Prepare(s) \/ Refused(s) \/ RefusalPends(s) \/ Undecided(s) => UNCHANGED facts
        BY DEF Prepare, Refused, RefusalPends, Undecided
      <4>6. CleanupPends(s) => Switched(s) /\ Achieves(s, "activated")
        BY DEF CleanupPends
      <4>7. Activate(s) => \/ Switched(s) /\ Achieves(s, "activated")
                          \/ CleanupPends(s) \/ Refused(s) \/ RefusalPends(s) \/ Undecided(s)
        BY DEF Activate
      <4> QED BY <1>3, <4>1, <4>2, <4>3, <4>4, <4>5, <4>6, <4>7
    <3>2. \A p \in Side : late'[p] => pos' >= 7 + 2 * Turn(p)
      <4>1. late' = late \/ (Activate(s) /\ \E r \in BOOLEAN : late' = [late EXCEPT ![s] = r])
        BY <1>3 DEF Prepare, Transfer, Verify, Activate, VerifyActive, CleanupPends, Refused,
           RefusalPends, Undecided
      <4>2. pos \in Nat
        BY <1>0, CallOrder DEF TypeOK
      <4>5. pos' = pos + 1 \/ pos' = pos
        BY <2>0
      <4>3. Activate(s) => pos = 7 + 2 * Turn(s)
        BY <1>0, CallIsAt DEF Activate
      <4> QED BY <1>0, <4>1, <4>2, <4>5, <4>3 DEF HostFollows, TypeOK, Turn
    <3>3. restart' = "none"
      BY <1>0, <2>0 DEF HostFollows
    <3> QED BY <3>1, <3>2, <3>3 DEF HostFollows
  <2>4. OutcomeSays'
    BY <1>0, <2>0 DEF OutcomeSays, Over, Progress, Acting
  <2>5. Owned'
    <3>1. \/ UNCHANGED <<workspace, owners>>
          \/ workspace' = [workspace EXCEPT ![s] = TRUE] /\ owners' = owners \cup {s}
      BY <1>3 DEF Prepare, Transfer, Verify, Activate, VerifyActive
    <3>2. ~Over' /\ transfers' = transfers
      BY <2>0 DEF Over
    <3>3. \A p \in Side : workspace'[p] => p \in owners' \cup transfers
      BY <1>0, <3>1 DEF Owned, TypeOK
    <3> QED BY <3>2, <3>3 DEF Owned
  <2>6. MarksAreRecorded'
    <3>1. \A p \in Side : marks[p] = {} /\ activations[p] = "none"
      BY <1>0, <2>0 DEF MarksAreRecorded
    <3>2. CASE UNCHANGED <<marks, activations>>
      BY <3>1, <3>2 DEF MarksAreRecorded
    <3>3. CASE CleanupPends(s)
      <4>1. "activated" \in facts'[s] /\ activations' = [activations EXCEPT ![s] = "activated"]
        BY <1>0, <3>3 DEF CleanupPends, Records, Achieves, TypeOK
      <4>2. \A p \in Side \ {s} : marks'[p] = marks[p]
        BY <1>0, <3>3 DEF CleanupPends, Leaves, TypeOK
      <4>3. pc' = "except"
        BY <3>3 DEF CleanupPends, Fails, Raises
      <4>4. \A p \in Side : /\ p = s => activations'[p] = "activated"
                            /\ p # s => activations'[p] = "none" /\ marks'[p] = {}
        BY <1>0, <3>1, <4>1, <4>2 DEF TypeOK
      <4> QED BY <4>1, <4>3, <4>4 DEF MarksAreRecorded
    <3>4. CASE Activate(s) /\ RefusalPends(s)
      <4>1. "activated" \notin facts[s]
        BY <1>0, <2>0, <3>4, CallIsAt DEF FactsFollowCalls, Activate, Turn
      <4> QED BY <1>0, <2>0, <3>1, <3>4, <4>1 DEF RefusalPends, MarksAreRecorded, Leaves, Records,
         Fails, Raises, TypeOK
    <3>5. CASE Undecided(s)
      <4>1. pc' = "except" /\ primary' \in {"uncertain", "interrupt"}
        BY <3>5 DEF Undecided, Fails, Raises
      <4>2. \A p \in Side : activations'[p] # "activated"
        BY <1>0, <3>1, <3>5 DEF Undecided, Records, TypeOK
      <4> QED BY <4>1, <4>2 DEF MarksAreRecorded
    <3> QED BY <1>3, <3>2, <3>3, <3>4, <3>5 DEF Prepare, Transfer, Verify, Activate, VerifyActive,
         Refused
  <2>7. OneCleaner' /\ EndsClean'
    BY <1>0, <2>0 DEF OneCleaner, EndsClean, Cleaning, Terminal, Progress, Acting
  <2> QED BY <1>0, <2>1, <2>2, <2>3, <2>4, <2>5, <2>6, <2>7 DEF IInv
<1>4. CASE Restart
  <2>0. /\ pc = "run" /\ Restarting /\ Restarting' /\ primary = "none"
        /\ UNCHANGED <<current, late, marks, workspace, activations, facts, owners, state,
                       transfers, result, retry, stopped, pos, begun>>
        /\ restart' \in {"none", "launched", "failed", "restarted"} /\ stops' \in 0..MaxStops
        /\ primary' \in {"none", "cancelled", "failed", "uncertain", "interrupt"}
        /\ \/ /\ pc' = "return" /\ Said(outcome)'
              /\ outcome'.final = "published" <=> primary' = "none"
           \/ /\ pc' = "except" /\ primary' # "none" /\ UNCHANGED outcome
              /\ primary' \in {"failed", "cancelled"} => restart' = "none"
    BY <1>4, RestartEffect
  <2>1. Progress' /\ HostFollows'
    BY <1>0, <2>0 DEF Progress, HostFollows, Acting
  <2>2. FactsFollowCalls'
    BY <1>0, <2>0 DEF FactsFollowCalls
  <2>3. OutcomeSays'
    BY <1>0, <2>0 DEF OutcomeSays, Over, Progress, Acting
  <2>4. Owned' /\ MarksAreRecorded'
    BY <1>0, <2>0 DEF Owned, MarksAreRecorded, Over
  <2>5. OneCleaner' /\ EndsClean'
    BY <1>0, <2>0 DEF OneCleaner, EndsClean, Cleaning, Terminal, Progress, Acting
  <2> QED BY <1>0, <2>1, <2>2, <2>3, <2>4, <2>5 DEF IInv
<1>5. CASE Except
  <2>0. /\ pc = "except" /\ pc' = "finally" /\ Said(outcome') /\ outcome'.final # "published"
        /\ UNCHANGED <<host, workspace, state, activations, transfers, primary, result,
                       pos, begun, facts, owners, retry, stopped, stops>>
    BY <1>5, FailureIsTrue DEF Except
  <2>1. Progress' /\ HostFollows'
    BY <1>0, <2>0 DEF Progress, HostFollows, Acting, Restarting
  <2>2. FactsFollowCalls'
    BY <1>0, <2>0 DEF FactsFollowCalls
  <2>3. OutcomeSays'
    BY <1>0, <2>0 DEF OutcomeSays, Over, Progress, Acting, Said, Achieved
  <2>4. Owned' /\ MarksAreRecorded'
    BY <1>0, <2>0 DEF Owned, MarksAreRecorded, Over
  <2>5. OneCleaner' /\ EndsClean'
    BY <1>0, <2>0 DEF OneCleaner, EndsClean, Cleaning, Terminal, Progress, Acting
  <2> QED BY <1>0, <2>1, <2>2, <2>3, <2>4, <2>5 DEF IInv
<1>6. CASE Finally
  <2> USE <1>0, <1>6 DEF Finally
  <2>1. Progress' /\ HostFollows' /\ FactsFollowCalls'
    BY DEF Progress, HostFollows, FactsFollowCalls, Acting, Restarting
  <2>2. OutcomeSays'
    BY DEF OutcomeSays, Over, Progress, Acting, Said, Achieved
  <2>3. Owned' /\ MarksAreRecorded'
    BY DEF Owned, MarksAreRecorded, Over
  <2>4. OneCleaner' /\ EndsClean'
    BY DEF OneCleaner, EndsClean, Cleaning, Terminal, Progress, Acting
  <2> QED BY <2>1, <2>2, <2>3, <2>4 DEF IInv
<1>7. ASSUME NEW s \in Side, Discard(s) PROVE IInv'
  <2>0. /\ pc = "discard" /\ owners' = owners \ {s}
        /\ UNCHANGED <<host, state, activations, primary, result, outcome,
                       pos, begun, pc, facts, retry, stopped, stops>>
    BY <1>7 DEF Discard
  <2>1. Progress' /\ HostFollows' /\ FactsFollowCalls' /\ MarksAreRecorded'
    BY <1>0, <2>0 DEF Progress, HostFollows, FactsFollowCalls, MarksAreRecorded, Acting, Restarting
  <2>2. OutcomeSays'
    BY <1>0, <2>0 DEF OutcomeSays, Over, Progress, Acting, Said, Achieved
  <2>3. Owned'
    BY <1>0, <1>7 DEF Owned, Over, Discard, TypeOK
  <2>4. OneCleaner' /\ EndsClean'
    BY <1>0, <2>0 DEF OneCleaner, EndsClean, Cleaning, Terminal, Progress, Acting
  <2> QED BY <1>0, <2>1, <2>2, <2>3, <2>4 DEF IInv
<1>8. CASE Settle
  <2>0. /\ pc = "discard" /\ state = "executing" /\ owners = {} /\ pc' = "over"
        /\ UNCHANGED <<host, workspace, activations, transfers, primary, outcome,
                       pos, begun, facts, owners, retry, stopped, stops>>
    BY <1>0, <1>8 DEF Settle, Progress, Acting
  <2>1. Said(outcome) /\ (outcome.final = "published" <=> primary = "none")
    BY <1>0, <2>0 DEF OutcomeSays
  <2>2. \/ /\ state' = "cleanup-pending"
           /\ result' = [outcome EXCEPT !.final = "cleanup_pending", !.pending = Unfinished]
        \/ /\ Unfinished = {} /\ result' = outcome
           /\ state' = IF primary = "none" THEN "completed" ELSE "failed"
    BY <1>8 DEF Settle
  <2>3. Said(result)'
    <3>1. CASE result' = outcome
      BY <2>0, <2>1, <3>1 DEF Said, Achieved
    <3>2. CASE result' = [outcome EXCEPT !.final = "cleanup_pending", !.pending = Unfinished]
      <4>1. outcome \in Result
        BY <2>1 DEF Said
      <4>2. /\ result'.facts = outcome.facts /\ result'.restart = outcome.restart
            /\ result'.final = "cleanup_pending"
        BY <3>2, <4>1 DEF Result
      <4>3. result' \in Result
        <5>1. Unfinished \in SUBSET Side
          BY <1>0 DEF Unfinished, TypeOK
        <5> QED BY <3>2, <4>1, <5>1 DEF Result, Final
      <4> QED BY <2>0, <2>1, <4>2, <4>3 DEF Said
    <3> QED BY <2>2, <3>1, <3>2
  <2>4. Progress' /\ HostFollows' /\ FactsFollowCalls'
    BY <1>0, <2>0, <2>2 DEF Progress, HostFollows, FactsFollowCalls, Acting, Restarting
  <2>5. OutcomeSays'
    BY <2>0, <2>1, <2>2, <2>3 DEF OutcomeSays, Over, Said, Achieved
  <2>6. Owned' /\ MarksAreRecorded'
    BY <1>0, <2>0 DEF Owned, MarksAreRecorded
  <2>7. OneCleaner'
    BY <1>0, <2>0 DEF OneCleaner, Cleaning, Terminal
  <2>8. EndsClean'
    BY <2>0, <2>2 DEF EndsClean, Terminal, Unfinished
  <2> QED BY <1>0, <2>4, <2>5, <2>6, <2>7, <2>8 DEF IInv
<1>9. CASE Interrupted
  <2>0. /\ pc = "return" \/ (pc = "run" /\ ~begun)
        /\ pc' = "except" /\ primary' = "interrupt"
        /\ UNCHANGED <<host, workspace, activations, facts, owners, state, transfers, result,
                       outcome, retry, stopped, pos, begun>>
    BY <1>9 DEF Interrupted, Fails, Raises, Kept
  <2>1. Progress' /\ HostFollows' /\ FactsFollowCalls'
    BY <1>0, <2>0 DEF Progress, HostFollows, FactsFollowCalls, Acting, Restarting
  <2>2. OutcomeSays'
    BY <1>0, <2>0 DEF OutcomeSays, Over, Progress, Acting, Said, Achieved
  <2>3. Owned' /\ MarksAreRecorded'
    BY <1>0, <2>0 DEF Owned, MarksAreRecorded, Over
  <2>4. OneCleaner' /\ EndsClean'
    BY <1>0, <2>0 DEF OneCleaner, EndsClean, Cleaning, Terminal, Progress, Acting
  <2> QED BY <1>0, <2>1, <2>2, <2>3, <2>4 DEF IInv
<1>10. CASE HandlerInterrupted
  <2>0. /\ pc \in {"except", "finally", "discard"} /\ pc' = "over" /\ stops' > 0
        /\ UNCHANGED <<host, workspace, plan, pos, begun, facts, owners, retry, stopped>>
    BY <1>0, <1>10 DEF HandlerInterrupted, TypeOK
  <2>1. Progress' /\ HostFollows' /\ FactsFollowCalls'
    BY <1>0, <2>0 DEF Progress, HostFollows, FactsFollowCalls, Acting, Restarting
  <2>2. OutcomeSays'
    BY <1>0, <2>0 DEF OutcomeSays, Over, Progress, Acting, Said, Achieved
  <2>3. Owned' /\ MarksAreRecorded'
    BY <1>0, <2>0 DEF Owned, MarksAreRecorded, Over, Progress, Acting
  <2>4. OneCleaner' /\ EndsClean'
    BY <1>0, <2>0 DEF OneCleaner, EndsClean, Cleaning, Terminal, Progress, Acting
  <2> QED BY <1>0, <2>1, <2>2, <2>3, <2>4 DEF IInv
<1>11. ASSUME NEW c \in Caller, Retry(c) PROVE IInv'
  <2>0. /\ rpc[c] = "idle" /\ state = "cleanup-pending" /\ state' = "cleaning"
        /\ rpc' = [rpc EXCEPT ![c] = "activations"]
        /\ todo' = [todo EXCEPT ![c] = {s \in Side : activations[s] # "none"}]
        /\ UNCHANGED <<host, workspace, activations, transfers, primary, result, outcome,
                       run, stopped, stops>>
    BY <1>11 DEF Retry, Goes, Visits
  <2>1. Progress' /\ HostFollows' /\ FactsFollowCalls'
    BY <1>0, <2>0 DEF Progress, HostFollows, FactsFollowCalls, Acting, Restarting
  <2>2. OutcomeSays'
    BY <1>0, <2>0 DEF OutcomeSays, Over, Progress, Acting, Said, Achieved
  <2>3. Owned' /\ MarksAreRecorded'
    BY <1>0, <2>0 DEF Owned, MarksAreRecorded, Over
  <2>4. OneCleaner'
    BY <1>0, <2>0 DEF OneCleaner, Cleaning, Terminal, TypeOK
  <2>5. EndsClean'
    BY <2>0 DEF EndsClean, Terminal
  <2> QED BY <1>0, <2>1, <2>2, <2>3, <2>4, <2>5 DEF IInv
<1>12. ASSUME NEW c \in Caller, NEW s \in Side, RetryActivation(c, s) PROVE IInv'
  <2>0. /\ rpc[c] = "activations" /\ s \in todo[c] /\ state = "cleaning"
        /\ todo' = [todo EXCEPT ![c] = todo[c] \ {s}]
        /\ UNCHANGED <<current, late, restart, workspace, state, transfers, primary, result,
                       outcome, run, rpc, stopped, stops>>
    BY <1>0, <1>12 DEF RetryActivation, Visits, OneCleaner, Cleaning
  <2>1. Progress' /\ HostFollows' /\ FactsFollowCalls'
    BY <1>0, <2>0 DEF Progress, HostFollows, FactsFollowCalls, Acting, Restarting
  <2>2. OutcomeSays'
    BY <1>0, <2>0 DEF OutcomeSays, Over, Progress, Acting, Said, Achieved
  <2>3. Owned'
    BY <1>0, <2>0 DEF Owned, Over
  <2>4. pc \notin {"planned", "run"}
    BY <1>0, <2>0 DEF Progress, Acting
  <2>5. MarksAreRecorded'
    BY <1>0, <1>12, <2>0, <2>4 DEF MarksAreRecorded, RetryActivation, TypeOK
  <2>6. OneCleaner'
    <3>1. \A d \in Caller : Cleaning(d) => d = c
      BY <1>0, <2>0 DEF OneCleaner, Cleaning
    <3>2. \A p \in Side : ~trouble'[c] /\ activations'[p] # "none" => p \in todo'[c]
      BY <1>0, <1>12, <2>0 DEF OneCleaner, RetryActivation, TypeOK
    <3>3. \A d \in Caller : d # c => rpc[d] \notin {"activations", "transfers"}
      BY <3>1 DEF Cleaning
    <3> QED BY <1>0, <2>0, <3>2, <3>3 DEF OneCleaner, Cleaning, Terminal
  <2>7. EndsClean'
    BY <2>0 DEF EndsClean, Terminal
  <2> QED BY <1>0, <2>1, <2>2, <2>3, <2>5, <2>6, <2>7 DEF IInv
<1>13. ASSUME NEW c \in Caller, RetryTransfers(c) PROVE IInv'
  <2>0. /\ rpc[c] = "activations" /\ todo[c] = {} /\ state = "cleaning"
        /\ rpc' = [rpc EXCEPT ![c] = "transfers"] /\ todo' = [todo EXCEPT ![c] = transfers]
        /\ UNCHANGED <<host, workspace, plan, run, trouble, stopped, stops>>
    BY <1>0, <1>13 DEF RetryTransfers, Goes, Visits, OneCleaner, Cleaning
  <2>1. Progress' /\ HostFollows' /\ FactsFollowCalls'
    BY <1>0, <2>0 DEF Progress, HostFollows, FactsFollowCalls, Acting, Restarting
  <2>2. OutcomeSays' /\ Owned' /\ MarksAreRecorded'
    BY <1>0, <2>0 DEF OutcomeSays, Over, Progress, Acting, Said, Achieved, Owned, MarksAreRecorded
  <2>3. OneCleaner'
    BY <1>0, <2>0 DEF OneCleaner, Cleaning, Terminal, TypeOK
  <2>4. EndsClean'
    BY <2>0 DEF EndsClean, Terminal
  <2> QED BY <1>0, <2>1, <2>2, <2>3, <2>4 DEF IInv
<1>14. ASSUME NEW c \in Caller, NEW s \in Side, RetryDiscard(c, s) PROVE IInv'
  <2>0. /\ rpc[c] = "transfers" /\ s \in todo[c] /\ state = "cleaning"
        /\ todo' = [todo EXCEPT ![c] = todo[c] \ {s}]
        /\ UNCHANGED <<host, state, activations, primary, result, outcome, run, rpc, stopped, stops>>
    BY <1>0, <1>14 DEF RetryDiscard, Visits, OneCleaner, Cleaning
  <2>1. Progress' /\ HostFollows' /\ FactsFollowCalls' /\ MarksAreRecorded'
    BY <1>0, <2>0 DEF Progress, HostFollows, FactsFollowCalls, MarksAreRecorded, Acting, Restarting
  <2>2. OutcomeSays'
    BY <1>0, <2>0 DEF OutcomeSays, Over, Progress, Acting, Said, Achieved
  <2>3. Owned'
    BY <1>0, <1>14, <2>0 DEF Owned, Over, RetryDiscard, TypeOK
  <2>4. OneCleaner'
    <3>1. \A d \in Caller : d # c => rpc[d] \notin {"activations", "transfers"}
      BY <1>0, <2>0 DEF OneCleaner, Cleaning
    <3>2. ~trouble'[c] => (\A p \in Side : activations[p] = "none") /\ transfers' \subseteq todo'[c]
      BY <1>0, <1>14, <2>0 DEF OneCleaner, RetryDiscard, TypeOK
    <3> QED BY <1>0, <2>0, <3>1, <3>2 DEF OneCleaner, Cleaning, Terminal
  <2>5. EndsClean'
    BY <2>0 DEF EndsClean, Terminal
  <2> QED BY <1>0, <2>1, <2>2, <2>3, <2>4, <2>5 DEF IInv
<1>15. ASSUME NEW c \in Caller, RetryEnds(c) PROVE IInv'
  <2>0. /\ rpc[c] = "transfers" /\ todo[c] = {} /\ state = "cleaning"
        /\ \/ /\ state' = "cleanup-pending" /\ rpc' = [rpc EXCEPT ![c] = "idle"]
           \/ /\ ~trouble[c] /\ rpc' = [rpc EXCEPT ![c] = "publishResult"]
              /\ state' = IF primary = "none" THEN "completed" ELSE "failed"
        /\ UNCHANGED <<host, workspace, activations, transfers, primary, result, outcome,
                       run, todo, trouble, stopped, stops>>
    BY <1>0, <1>15 DEF RetryEnds, Goes, OneCleaner, Cleaning
  <2>1. state' \in {"cleanup-pending", "completed", "failed"}
    BY <2>0
  <2>2. Progress' /\ HostFollows' /\ FactsFollowCalls'
    BY <1>0, <2>0, <2>1 DEF Progress, HostFollows, FactsFollowCalls, Acting, Restarting
  <2>3. Over /\ Over'
    BY <1>0, <2>0, <2>1 DEF Over, Progress, Acting, TypeOK
  <2>4. OutcomeSays'
    BY <1>0, <2>0, <2>3 DEF OutcomeSays, Said, Achieved
  <2>5. Owned' /\ MarksAreRecorded'
    BY <1>0, <2>0, <2>3 DEF Owned, MarksAreRecorded
  <2>6. OneCleaner'
    <3>1. \A d \in Caller : d # c => rpc[d] \notin {"activations", "transfers"}
      BY <1>0, <2>0 DEF OneCleaner, Cleaning
    <3>2. \A d \in Caller : rpc[d] # "publishResult"
      BY <1>0, <2>0 DEF OneCleaner, Terminal
    <3> QED BY <1>0, <2>0, <2>1, <3>1, <3>2 DEF OneCleaner, Cleaning, Terminal, TypeOK
  <2>7. EndsClean'
    BY <1>0, <2>0 DEF EndsClean, OneCleaner, Terminal, TypeOK
  <2> QED BY <1>0, <2>2, <2>4, <2>5, <2>6, <2>7 DEF IInv
<1>16. ASSUME NEW c \in Caller, RestoreResult(c) PROVE IInv'
  <2>0. /\ rpc[c] = "publishResult" /\ rpc' = [rpc EXCEPT ![c] = "idle"] /\ result' = outcome
        /\ UNCHANGED <<host, workspace, state, activations, transfers, primary, outcome,
                       run, todo, trouble, stopped, stops>>
        /\ state \in Terminal
    BY <1>0, <1>16 DEF RestoreResult, Goes, OneCleaner
  <2>1. Progress' /\ HostFollows' /\ FactsFollowCalls'
    BY <1>0, <2>0 DEF Progress, HostFollows, FactsFollowCalls, Acting, Restarting
  <2>2. Over
    BY <1>0, <2>0 DEF Over, Progress, Acting, TypeOK, Terminal
  <2>3. OutcomeSays'
    BY <1>0, <2>0, <2>2 DEF OutcomeSays, Said, Achieved, Over
  <2>4. Owned' /\ MarksAreRecorded'
    BY <1>0, <2>0 DEF Owned, MarksAreRecorded, Over
  <2>5. OneCleaner'
    BY <1>0, <2>0 DEF OneCleaner, Cleaning, TypeOK
  <2>6. EndsClean'
    BY <1>0, <2>0 DEF EndsClean
  <2> QED BY <1>0, <2>1, <2>3, <2>4, <2>5, <2>6 DEF IInv
<1>17. ASSUME NEW c \in Caller, RetryInterrupted(c) PROVE IInv'
  <2>0. /\ rpc[c] \notin {"idle", "publishResult"} /\ rpc' = [rpc EXCEPT ![c] = "idle"]
        /\ stops' = stops + 1
        /\ UNCHANGED <<host, workspace, plan, run, todo, trouble, stopped>>
    BY <1>17 DEF RetryInterrupted, Goes
  <2>1. Progress' /\ HostFollows' /\ FactsFollowCalls'
    BY <1>0, <2>0 DEF Progress, HostFollows, FactsFollowCalls, Acting, Restarting, TypeOK
  <2>2. OutcomeSays' /\ Owned' /\ MarksAreRecorded'
    BY <1>0, <2>0 DEF OutcomeSays, Over, Said, Achieved, Owned, MarksAreRecorded
  <2>3. OneCleaner'
    BY <1>0, <2>0 DEF OneCleaner, Cleaning, TypeOK
  <2>4. state \notin Terminal
    BY <1>0, <2>0 DEF OneCleaner, Cleaning, Terminal, TypeOK
  <2>5. EndsClean'
    BY <2>0, <2>4 DEF EndsClean
  <2> QED BY <1>0, <2>1, <2>2, <2>3, <2>5 DEF IInv
<1>18. CASE Stop \/ UNCHANGED vars
  <2>0. UNCHANGED <<host, workspace, plan, run, retry, stops>>
    BY <1>18 DEF Stop, vars
  <2>1. Progress' /\ HostFollows' /\ FactsFollowCalls' /\ OutcomeSays'
    BY <1>0, <2>0 DEF Progress, HostFollows, FactsFollowCalls, Acting, Restarting, OutcomeSays,
       Over, Said, Achieved
  <2>2. Owned' /\ MarksAreRecorded' /\ OneCleaner' /\ EndsClean'
    BY <1>0, <2>0 DEF Owned, MarksAreRecorded, OneCleaner, EndsClean, Over, Cleaning
  <2> QED BY <1>0, <2>1, <2>2 DEF IInv
<1>19. ASSUME NEW s \in Side, LateHelper(s) PROVE IInv'
  <2>0. /\ late' = [late EXCEPT ![s] = FALSE] /\ current' = [current EXCEPT ![s] = TRUE]
        /\ UNCHANGED <<marks, restart, workspace, plan, run, retry, stopped, stops>>
    BY <1>19 DEF LateHelper
  <2>1. HostFollows'
    BY <1>0, <2>0 DEF HostFollows, Restarting, TypeOK
  <2>2. Progress' /\ FactsFollowCalls' /\ OutcomeSays'
    BY <1>0, <2>0 DEF Progress, FactsFollowCalls, Acting, Restarting, OutcomeSays,
       Over, Said, Achieved
  <2>3. Owned' /\ MarksAreRecorded' /\ OneCleaner' /\ EndsClean'
    BY <1>0, <2>0 DEF Owned, MarksAreRecorded, OneCleaner, EndsClean, Over, Cleaning
  <2> QED BY <1>0, <2>1, <2>2, <2>3 DEF IInv
<1> QED BY <1>1, <1>2, <1>3, <1>4, <1>5, <1>6, <1>7, <1>8, <1>9, <1>10, <1>11, <1>12, <1>13,
    <1>14, <1>15, <1>16, <1>17, <1>18, <1>19 DEF Next, Call, Handler, Retries

-----------------------------------------------------------------------------
(* What follows *)

(* The inductive invariant holds in every reachable state. *)
THEOREM OrchestrationInvariant == Spec => []IInv
<1>1. IInv /\ UNCHANGED vars => IInv'
  BY NextIInv
<1> QED BY InitIInv, NextIInv, PTL DEF Spec

(* A result exists unless an interrupt came between, and what it says of   *)
(* the host, of the restart and of the cleanup is so, after any number of  *)
(* retries.                                                                *)
THEOREM ResultsTellTheTruth == Spec => []ResultIsTrue
<1>1. IInv => ResultIsTrue
  <2> SUFFICES ASSUME IInv PROVE ResultIsTrue
    OBVIOUS
  <2>0. /\ TypeOK /\ Progress /\ HostFollows /\ OutcomeSays /\ Owned /\ MarksAreRecorded
        /\ EndsClean
    BY DEF IInv
  <2>1. pc = "over" /\ state = "executing" => stops > 0
    BY <2>0 DEF Progress
  <2>2. ASSUME NEW r \in {result, outcome} \ {None}
        PROVE  /\ \A s \in Side : "activated" \in r.facts[s] => current[s]
               /\ r.restart = "not_started" => restart = "none"
               /\ r.restart = "succeeded" => restart = "restarted"
               /\ r.restart = "failed" => restart = "failed"
               /\ r.final = "published" => \A s \in Side : current[s]
    BY <2>0, <2>2 DEF OutcomeSays, Said, HostFollows, Achieved
  <2>3. ASSUME state \in Terminal
        PROVE  /\ \A s \in Side : Clean(s)
               /\ (\A c \in Caller : rpc[c] # "publishResult") =>
                    /\ result = outcome
                    /\ state = "completed" <=> result.final = "published"
    <3>1. /\ transfers = {} /\ \A s \in Side : activations[s] = "none"
          /\ state = "completed" <=> primary = "none"
          /\ (\E c \in Caller : rpc[c] = "publishResult") \/ result = outcome
      BY <2>0, <2>3 DEF EndsClean
    <3>2. Over
      BY <2>0, <2>3 DEF Over, Progress, Acting, Terminal, TypeOK
    <3>3. \A s \in Side : Clean(s)
      BY <2>0, <3>1, <3>2 DEF Clean, Owned, MarksAreRecorded
    <3>4. outcome.final = "published" <=> primary = "none"
      BY <2>0, <3>2 DEF OutcomeSays
    <3> QED BY <3>1, <3>3, <3>4
  <2> QED BY <2>0, <2>1, <2>2, <2>3 DEF ResultIsTrue
<1> QED BY <1>1, OrchestrationInvariant, PTL

(* A completed or failed plan stays so: no caller that retries finds it    *)
(* pending again.                                                          *)
THEOREM EndsForGood == Spec => TerminalIsFinal
<1>1. IInv /\ [Next]_vars => [(state \in Terminal => state' = state)]_vars
  <2> SUFFICES ASSUME IInv, Next, state \in Terminal PROVE state' = state
    OBVIOUS
  <2>0. TypeOK /\ Progress /\ OneCleaner
    BY DEF IInv
  <2>1. pc = "over" /\ state \notin {"planned", "executing", "cleanup-pending", "cleaning"}
    BY <2>0 DEF Progress, Acting, Terminal, TypeOK
  <2>2. CASE Execute \/ Checkpoint \/ Call \/ Handler \/ Interrupted \/ HandlerInterrupted
    BY <2>1, <2>2 DEF Execute, Checkpoint, Call, Handler, Prepare, Transfer, Verify, Activate,
       VerifyActive, Restart, At, Except, Finally, Discard, Settle, Interrupted, HandlerInterrupted
  <2>3. ASSUME NEW c \in Caller, Retries(c) PROVE state' = state
    <3>1. rpc[c] \notin {"activations", "transfers"}
      BY <2>0, <2>1 DEF OneCleaner, Cleaning
    <3> QED BY <2>1, <2>3, <3>1 DEF Retries, Retry, RetryTransfers, RetryEnds, RestoreResult,
       RetryInterrupted, RetryActivation, RetryDiscard, plan
  <2>4. CASE Stop \/ \E s \in Side : LateHelper(s)
    BY <2>4 DEF Stop, LateHelper, plan
  <2> QED BY <2>2, <2>3, <2>4 DEF Next
<1> QED BY <1>1, OrchestrationInvariant, PTL DEF Spec, TerminalIsFinal

(* The server is switched only after the client was verified active, also  *)
(* by a helper that runs late, and restarted only after both were.         *)
THEOREM ClientBeforeServer == Spec => OrderedSides
<1>1. IInv /\ [Next]_vars =>
        [/\ current'["server"] /\ ~current["server"] => "active_verified" \in facts["client"]
         /\ restart' # restart => Achieved("active_verified")]_vars
  <2> SUFFICES ASSUME IInv, Next
               PROVE  /\ current'["server"] /\ ~current["server"] =>
                           "active_verified" \in facts["client"]
                      /\ restart' # restart => Achieved("active_verified")
    OBVIOUS
  <2>0. TypeOK /\ FactsFollowCalls /\ HostFollows
    BY DEF IInv
  <2>1. pos >= 9 => "active_verified" \in facts["client"]
    BY <2>0, CallOrder DEF FactsFollowCalls, Side, Turn, TypeOK
  <2>2. pos = 11 => Achieved("active_verified")
    BY <2>0 DEF FactsFollowCalls, Side, Turn, Achieved
  <2>3. ASSUME NEW s \in Side, Activate(s) \/ LateHelper(s)
        PROVE  current'["server"] /\ ~current["server"] => pos >= 9 /\ restart' = restart
    <3>1. CASE s = "client"
      <4>1. LateHelper(s) => current'["server"] = current["server"]
        BY <2>0, <3>1 DEF LateHelper, TypeOK, Side
      <4>2. ASSUME Activate(s) PROVE current'["server"] = current["server"]
        <5>1. \/ UNCHANGED current \/ current' = [current EXCEPT !["client"] = TRUE]
              \/ \E done \in BOOLEAN : current' = [current EXCEPT !["client"] = @ \/ done]
          BY <4>2, <3>1 DEF Activate, CleanupPends, Refused, RefusalPends, Undecided, Switched
        <5> QED BY <2>0, <5>1 DEF TypeOK, Side
      <4> QED BY <2>3, <4>1, <4>2
    <3>2. CASE s = "server"
      <4>1. pos >= 9
        BY <2>0, <2>3, <3>2, CallIsAt DEF HostFollows, Activate, LateHelper, Turn, Side
      <4> QED BY <2>3, <4>1 DEF Activate, LateHelper
    <3> QED BY <3>1, <3>2 DEF Side
  <2>4. \/ \E s \in Side : Activate(s) \/ LateHelper(s)
        \/ Restart \/ UNCHANGED <<current, restart>>
    <3> USE DEF host
    <3>1. ASSUME Handler \/ Execute \/ Checkpoint \/ Interrupted \/ HandlerInterrupted \/ Stop
          PROVE  UNCHANGED <<current, restart>>
      BY <3>1 DEF Handler, Except, Finally, Discard, Settle, Execute, Checkpoint, Interrupted,
         HandlerInterrupted, Stop
    <3>2. ASSUME NEW c \in Caller, Retries(c) PROVE UNCHANGED <<current, restart>>
      BY <3>2 DEF Retries, Retry, RetryTransfers, RetryEnds, RestoreResult,
         RetryInterrupted, RetryActivation, RetryDiscard
    <3>3. ASSUME NEW s \in Side, Prepare(s) \/ Transfer(s) \/ Verify(s) \/ VerifyActive(s)
          PROVE  UNCHANGED <<current, restart>>
      BY <3>3 DEF Prepare, Transfer, Verify, VerifyActive
    <3> QED BY <3>1, <3>2, <3>3 DEF Next, Call
  <2>5. CASE Restart
    BY <2>0, <2>2, <2>5, CallIsAt DEF Restart, Side
  <2>6. \A s \in Side : Activate(s) \/ LateHelper(s) => restart' = restart
    BY DEF Activate, LateHelper
  <2> QED BY <2>1, <2>3, <2>4, <2>5, <2>6
<1> QED BY <1>1, OrchestrationInvariant, PTL DEF Spec, OrderedSides

=============================================================================
