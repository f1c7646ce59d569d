-------------------------- MODULE PublishActivation --------------------------
(***************************************************************************)
(* Activation of a published generation (publish_activation.py and the     *)
(* remote helper in publish_transfer.py): a publisher asks the remote host *)
(* over SSH to point the symlink `current' at its generation.              *)
(*                                                                         *)
(* Every request starts a helper process on the remote host.  Helpers take *)
(* turns by a lock file, but the connection can be lost at any time, and a *)
(* helper does not notice: it may still wait for its turn when the         *)
(* publisher has given up, and act later.  It may also be killed between   *)
(* two steps.  So before it switches, an activation leaves a receipt of    *)
(* what it is about to do; a publisher that got no answer asks for the     *)
(* status, which the receipt and `current' decide; and the receipt is      *)
(* removed only once an outcome is known.  Somebody without the lock may   *)
(* repoint `current' too, and the helper's compare-and-swap gives way.     *)
(*                                                                         *)
(* Generations are verified and never removed here.  Status requests only  *)
(* read, so they happen at one instant.                                    *)
(***************************************************************************)
EXTENDS Naturals

CONSTANTS Op,          \* activations, each with a fresh operation id
          Gen,         \* generations in the publication root
          None,
          Torn,        \* a receipt that was not written to its end
          MaxRetries,  \* how often cleanup is retried
          MaxOutside   \* how often somebody else repoints current

Decided == {"activated", "reused", "not_activated"}

Activation(o) == [op |-> o, kind |-> "activate"]
Cleanup(o, v) == [op |-> o, kind |-> "cleanup", expected |-> v]
Request == UNION { {Activation(o)} \cup {Cleanup(o, v) : v \in Decided \cup {"none"}} : o \in Op }

Receipt == [previous : Gen \cup {None}, preexisting : BOOLEAN]

Response == {"activated", "reused", "cleaned", "error"}

ASSUME NoneAssumption == /\ None \notin Gen /\ None \notin Op
                         /\ None \notin Request /\ None \notin Response
                         /\ None \notin Receipt
ASSUME TornAssumption == Torn \notin Receipt /\ Torn # None
ASSUME BoundsAssumption == MaxRetries \in Nat /\ MaxOutside \in Nat

VARIABLES
  gen,      \* gen[o]: the generation o activates
  current,  \* where the symlink points
  receipt,  \* receipt[o]: None, Torn, or what the receipt file says
  temp,     \* temp[o]: where o's temporary symlink points
  queue,    \* requests on their way or waiting for the remote lock
  run,      \* the activation that holds the remote lock
  outside,  \* what somebody else made current and no activation has read yet
  changes,  \* how often somebody else has repointed current
  pc,       \* pc[o]: the next step of the publisher
  wait,     \* wait[o]: the request it waits for
  answer,   \* answer[o]: the response to that request
  verdict,  \* verdict[o]: the outcome it has learnt
  pending,  \* pending[o]: cleanup is recorded as pending
  retries   \* retries[o]: cleanup retries so far

remote == <<current, receipt, temp, queue, run, outside>>
publisher == <<pc, wait, answer, verdict, pending, retries>>
vars == <<gen, remote, changes, publisher>>

Idle == [op |-> None, step |-> "none", previous |-> None]

TypeOK ==
  /\ gen \in [Op -> Gen]
  /\ current \in Gen \cup {None}
  /\ receipt \in [Op -> {None, Torn} \cup Receipt]
  /\ temp \in [Op -> Gen \cup {None}]
  /\ queue \in SUBSET Request
  /\ run \in [op : Op \cup {None}, previous : Gen \cup {None},
              step : {"none", "begin", "reuse", "receipt", "link", "switch",
                      "compare", "undo", "check"}]
  /\ outside \in Gen \cup {None}
  /\ changes \in 0..MaxOutside
  /\ pc \in [Op -> {"idle", "activating", "asking", "cleaning", "retrying", "done"}]
  /\ wait \in [Op -> Request \cup {None}]
  /\ answer \in [Op -> Response \cup {None}]
  /\ verdict \in [Op -> Decided \cup {"none", "uncertain"}]
  /\ pending \in [Op -> BOOLEAN]
  /\ retries \in [Op -> 0..MaxRetries]

Init ==
  /\ gen \in [Op -> Gen]
  /\ current \in Gen \cup {None}
  /\ receipt = [o \in Op |-> None] /\ temp = [o \in Op |-> None]
  /\ queue = {} /\ run = Idle
  /\ outside = None /\ changes = 0
  /\ pc = [o \in Op |-> "idle"] /\ wait = [o \in Op |-> None]
  /\ answer = [o \in Op |-> None]
  /\ verdict = [o \in Op |-> "none"] /\ pending = [o \in Op |-> FALSE]
  /\ retries = [o \in Op |-> 0]

-----------------------------------------------------------------------------
(* The remote host: the lock and the steps of an activation *)

Free == run = Idle
At(l) == run.step = l
Goto(l) == run' = [run EXCEPT !.step = l]

(* A response reaches a publisher that still waits for it. *)
Respond(r, a) == answer' = IF wait[r.op] = r THEN [answer EXCEPT ![r.op] = a]
                                             ELSE answer

Ends(a) == run' = Idle /\ Respond(Activation(run.op), a)
Quiet == UNCHANGED <<gen, queue, changes, pc, wait, verdict, pending, retries>>

TakeLock(o) ==
  /\ Free /\ Activation(o) \in queue
  /\ queue' = queue \ {Activation(o)}
  /\ run' = [Idle EXCEPT !.op = o, !.step = "begin"]
  /\ UNCHANGED <<gen, current, receipt, temp, outside, changes, publisher>>

(* current is read: from here on the helper expects to find it again. *)
Begin ==
  /\ At("begin")
  /\ outside' = None
  /\ run' = [run EXCEPT !.previous = IF current = gen[run.op] THEN None ELSE current,
                        !.step = IF current = gen[run.op] THEN "reuse" ELSE "receipt"]
  /\ UNCHANGED <<current, receipt, temp, answer>> /\ Quiet

(* The receipt file is new; a failed or interrupted write leaves it torn.  *)
WriteReceipt(preexisting) ==
  receipt' = [receipt EXCEPT ![run.op] = [previous |-> run.previous,
                                          preexisting |-> preexisting]]

Reuse ==
  /\ At("reuse")
  /\ WriteReceipt(TRUE)
  /\ Ends("reused")
  /\ UNCHANGED <<current, temp, outside>> /\ Quiet

LeaveReceipt ==
  /\ At("receipt")
  /\ WriteReceipt(FALSE)
  /\ Goto("link")
  /\ UNCHANGED <<current, temp, outside, answer>> /\ Quiet

Link ==
  /\ At("link")
  /\ temp' = [temp EXCEPT ![run.op] = gen[run.op]]
  /\ Goto("switch")
  /\ UNCHANGED <<current, receipt, outside, answer>> /\ Quiet

(* rename_noreplace when there was no current, rename_exchange otherwise.  *)
Switch ==
  /\ At("switch")
  /\ current = None <=> run.previous = None
  /\ current' = gen[run.op]
  /\ temp' = [temp EXCEPT ![run.op] = current]
  /\ Goto(IF run.previous = None THEN "check" ELSE "compare")
  /\ UNCHANGED <<receipt, outside, answer>> /\ Quiet

(* Mutant: the exchanged-out symlink is unlinked without a look at it. *)
CompareNothing ==
  /\ At("compare")
  /\ temp' = [temp EXCEPT ![run.op] = None]
  /\ Goto("check")
  /\ UNCHANGED <<current, receipt, outside, answer>> /\ Quiet

(* The symlink that was exchanged out must be the one read before. *)
Compare ==
  /\ At("compare")
  /\ \/ /\ temp[run.op] = run.previous
        /\ temp' = [temp EXCEPT ![run.op] = None]
        /\ Goto("check")
     \/ Goto("undo") /\ UNCHANGED temp
  /\ UNCHANGED <<current, receipt, outside, answer>> /\ Quiet

(* The exchange back; what it brings is removed if it is the own symlink.  *)
Undo ==
  /\ At("undo")
  /\ current' = temp[run.op]
  /\ temp' = [temp EXCEPT ![run.op] = IF current = gen[run.op] THEN None ELSE current]
  /\ Ends("error")
  /\ UNCHANGED <<receipt, outside>> /\ Quiet

Check ==
  /\ At("check")
  /\ Ends(IF current = gen[run.op] THEN "activated" ELSE "error")
  /\ UNCHANGED <<current, receipt, temp, outside>> /\ Quiet

(* Any other error: the own temporary symlink is removed before the        *)
(* response; the receipt stays, torn if its writing failed.                *)
StepFails ==
  /\ run.step \in {"begin", "reuse", "receipt", "link", "switch", "check"}
  /\ \/ UNCHANGED receipt
     \/ /\ run.step \in {"reuse", "receipt"}
        /\ receipt' = [receipt EXCEPT ![run.op] = Torn]
  /\ temp' = IF At("switch") THEN [temp EXCEPT ![run.op] = None] ELSE temp
  /\ Ends("error")
  /\ UNCHANGED <<current, outside>> /\ Quiet

(* The helper is killed, or the remote host goes down; the lock is free.   *)
Kill ==
  /\ ~Free
  /\ \/ UNCHANGED receipt
     \/ /\ run.step \in {"reuse", "receipt"}
        /\ receipt' = [receipt EXCEPT ![run.op] = Torn]
  /\ run' = Idle
  /\ UNCHANGED <<current, temp, outside, answer>> /\ Quiet

(* A request that never reaches the remote host. *)
Lose(r) ==
  /\ r \in queue
  /\ queue' = queue \ {r}
  /\ UNCHANGED <<gen, current, receipt, temp, run, outside, changes, publisher>>

(* Somebody repoints current by hand.  To repoint it back to what the      *)
(* helper has read cannot be told from having done nothing.                *)
Repoint(g) ==
  /\ changes < MaxOutside /\ g # current
  /\ changes' = changes + 1
  /\ current' = g
  /\ outside' = IF g = run.previous THEN None ELSE g
  /\ UNCHANGED <<gen, receipt, temp, queue, run, publisher>>

-----------------------------------------------------------------------------
(* The remote host: status and cleanup *)

(* Mutant: an activation without a receipt is judged by current alone. *)
StatusByCurrent(o) ==
  IF receipt[o] \in {None, Torn}
  THEN IF current = gen[o] THEN "activated" ELSE "not_activated"
  ELSE CASE receipt[o].preexisting /\ current = gen[o] -> "reused"
         [] ~receipt[o].preexisting /\ current = gen[o] -> "activated"
         [] ~receipt[o].preexisting /\ current = receipt[o].previous -> "not_activated"
         [] OTHER -> "uncertain"

(* What the receipt and current say about an activation. *)
Status(o) ==
  IF receipt[o] \in {None, Torn} THEN "uncertain"
  ELSE CASE receipt[o].preexisting /\ current = gen[o] -> "reused"
         [] ~receipt[o].preexisting /\ current = gen[o] -> "activated"
         [] ~receipt[o].preexisting /\ current = receipt[o].previous -> "not_activated"
         [] OTHER -> "uncertain"

(* Mutant: the receipt's presence is enough to confirm an outcome. *)
ConfirmedByReceipt(o, v) == v = "none" \/ receipt[o] \notin {None, Torn}

(* A cleanup that removes the receipt must find the outcome it was told;   *)
(* without a receipt it may only confirm what is current.                  *)
Confirmed(o, v) ==
  \/ v = "none"
  \/ receipt[o] = None /\ v \in {"activated", "reused"} /\ current = gen[o]
  \/ receipt[o] \notin {None, Torn} /\ Status(o) = v

(* Only the operation's own temporary symlink is removed. *)
TempSafe(o) == temp[o] \in {None, gen[o]}

CleanupRuns(r) ==
  /\ Free /\ r \in queue /\ r.kind = "cleanup"
  /\ queue' = queue \ {r}
  /\ IF Confirmed(r.op, r.expected) /\ TempSafe(r.op)
     THEN /\ temp' = [temp EXCEPT ![r.op] = None]
          /\ \/ /\ receipt' = IF r.expected = "none" THEN receipt
                              ELSE [receipt EXCEPT ![r.op] = None]
                /\ Respond(r, "cleaned")
             \/ UNCHANGED <<receipt, answer>>
     ELSE Respond(r, "error") /\ UNCHANGED <<temp, receipt>>
  /\ UNCHANGED <<gen, current, run, outside, changes, pc, wait, verdict, pending, retries>>

-----------------------------------------------------------------------------
(* The publisher *)

Waits(o, r) == wait' = [wait EXCEPT ![o] = r] /\ answer' = [answer EXCEPT ![o] = None]
Ask(o, r) == queue' = queue \cup {r} /\ Waits(o, r)
Step(o, l) == pc' = [pc EXCEPT ![o] = l]
Learns(o, v) == verdict' = [verdict EXCEPT ![o] = v]
Host == <<gen, current, receipt, temp, run, outside, changes>>

Activate(o) ==
  /\ pc[o] = "idle"
  /\ Step(o, "activating") /\ Ask(o, Activation(o))
  /\ UNCHANGED <<Host, verdict, pending, retries>>

(* A decided outcome is cleaned up with its receipt, a doubtful one        *)
(* without.                                                                *)
Settle(o, v) ==
  /\ Learns(o, v)
  /\ Step(o, "cleaning")
  /\ Ask(o, Cleanup(o, IF v = "uncertain" THEN "none" ELSE v))

Activated(o) ==
  /\ pc[o] = "activating" /\ answer[o] \in {"activated", "reused"}
  /\ Settle(o, answer[o])
  /\ UNCHANGED <<Host, pending, retries>>

(* An error, a lost connection, the deadline or a cancellation: the        *)
(* publisher does not know what happened, or will happen.                  *)
Unanswered(o) ==
  /\ pc[o] = "activating"
  /\ Step(o, "asking") /\ Waits(o, None)
  /\ UNCHANGED <<Host, queue, verdict, pending, retries>>

(* The local SSH process could not be brought down: nothing more is asked. *)
ProcessLeft(o) ==
  /\ pc[o] \in {"activating", "asking"}
  /\ Step(o, "done") /\ Waits(o, None)
  /\ Learns(o, "uncertain")
  /\ pending' = [pending EXCEPT ![o] = TRUE]
  /\ UNCHANGED <<Host, queue, retries>>

(* The request itself raises: it is not recorded that anything may remain. *)
RequestRaises(o) ==
  /\ pc[o] = "activating"
  /\ Step(o, "done") /\ Waits(o, None)
  /\ UNCHANGED <<Host, queue, verdict, pending, retries>>

AskStatus(o) ==
  /\ pc[o] = "asking" /\ Free
  /\ Settle(o, Status(o))
  /\ UNCHANGED <<Host, pending, retries>>

StatusLost(o) ==
  /\ pc[o] = "asking"
  /\ Settle(o, "uncertain")
  /\ UNCHANGED <<Host, pending, retries>>

(* An uncertain outcome stays pending even when its cleanup succeeded.     *)
Cleaned(o) ==
  /\ pc[o] = "cleaning" /\ answer[o] = "cleaned"
  /\ Step(o, "done") /\ Waits(o, None)
  /\ pending' = [pending EXCEPT ![o] = verdict[o] = "uncertain"]
  /\ UNCHANGED <<Host, queue, verdict, retries>>

CleaningFails(o) ==
  /\ pc[o] = "cleaning"
  /\ Step(o, "done") /\ Waits(o, None)
  /\ pending' = [pending EXCEPT ![o] = TRUE]
  /\ UNCHANGED <<Host, queue, verdict, retries>>

(* Mutant: the retry never removes a receipt. *)
RetryTempOnly(o) ==
  /\ pc[o] = "done" /\ pending[o] /\ retries[o] < MaxRetries
  /\ retries' = [retries EXCEPT ![o] = @ + 1]
  /\ Step(o, "retrying")
  /\ Ask(o, Cleanup(o, "none"))
  /\ UNCHANGED <<Host, verdict, pending>>

(* retry_pack_publish_cleanup removes the receipt of an activation it      *)
(* knows to be done, and of no other.                                      *)
Retry(o) ==
  /\ pc[o] = "done" /\ pending[o] /\ retries[o] < MaxRetries
  /\ retries' = [retries EXCEPT ![o] = @ + 1]
  /\ Step(o, "retrying")
  /\ Ask(o, Cleanup(o, IF verdict[o] \in {"activated", "reused"} THEN verdict[o]
                                                                 ELSE "none"))
  /\ UNCHANGED <<Host, verdict, pending>>

Retried(o) ==
  /\ pc[o] = "retrying"
  /\ Step(o, "done") /\ Waits(o, None)
  /\ \/ UNCHANGED pending
     \/ answer[o] = "cleaned" /\ pending' = [pending EXCEPT ![o] = FALSE]
  /\ UNCHANGED <<Host, queue, verdict, retries>>

Helper == \/ \E o \in Op : TakeLock(o)
          \/ Begin \/ Reuse \/ LeaveReceipt \/ Link \/ Switch \/ Compare \/ Undo
          \/ Check \/ StepFails \/ Kill
          \/ \E r \in queue : CleanupRuns(r)

Publisher(o) == \/ Activate(o) \/ Activated(o) \/ Unanswered(o) \/ ProcessLeft(o)
                \/ RequestRaises(o) \/ AskStatus(o) \/ StatusLost(o)
                \/ Cleaned(o) \/ CleaningFails(o) \/ Retry(o) \/ Retried(o)

Next == \/ Helper
        \/ \E r \in queue : Lose(r)
        \/ \E g \in Gen : Repoint(g)
        \/ \E o \in Op : Publisher(o)

Spec == Init /\ [][Next]_vars

-----------------------------------------------------------------------------
(* Correctness *)

Acting(o) == Activation(o) \in queue \/ run.op = o

(* A decided outcome is final: once a publisher has learnt that its        *)
(* generation was activated, reused or not activated, no helper of that    *)
(* activation is left that could still change anything.  Only an uncertain *)
(* outcome may take effect later.  An outcome without pending cleanup left *)
(* nothing behind, and nothing comes back later.                           *)
DecidedIsFinal ==
  /\ TypeOK
  /\ \A o \in Op :
       /\ verdict[o] \in Decided => ~Acting(o)
       /\ pc[o] = "done" /\ verdict[o] \in {"activated", "reused"} /\ ~pending[o] =>
            receipt[o] = None /\ temp[o] = None

(* A receipt is removed only by a cleanup that confirms, under the remote  *)
(* lock, the outcome the publisher has learnt; before that, status can be  *)
(* asked again.                                                            *)
ReceiptUntilDecided ==
  [][\A o \in Op : receipt[o] # None /\ receipt'[o] = None =>
       /\ verdict[o] \in Decided
       /\ current = gen[o] <=> verdict[o] # "not_activated"]_vars

(* No activation overwrites a repointing it has not seen: what somebody    *)
(* else made current stays current, or is kept as a temporary symlink when *)
(* the helper died in the middle.  (A repointing to the generation that is *)
(* being activated cannot be told from the activation itself.)             *)
NoBlindSwitch ==
  Free /\ outside # None /\ (\A o \in Op : gen[o] # outside) =>
    current = outside \/ \E o \in Op : temp[o] = outside
=============================================================================
