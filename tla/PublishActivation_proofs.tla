---------------------- MODULE PublishActivation_proofs ----------------------
(***************************************************************************)
(* Proofs about PublishActivation, for any activations of any generations, *)
(* any number of outside repointings and of cleanup retries.               *)
(***************************************************************************)
EXTENDS PublishActivation, TLAPS

(* The activation that holds the remote lock is one of the publishers'.    *)
(* What it has read is not its own generation.                             *)
RunShape ==
  /\ run = Idle \/ (run.op \in Op /\ run.step # "none")
  /\ run.op \in Op => run.previous # gen[run.op]

(* An activation starts without a temporary symlink and switches with its  *)
(* own in place.                                                           *)
TempFollowsRun ==
  /\ run.step \in {"begin", "reuse", "receipt", "link"} => temp[run.op] = None
  /\ run.step = "switch" => temp[run.op] = gen[run.op]

(* A publisher waits for one request at a time; before it asks for a       *)
(* cleanup it has learnt the outcome, which does not change any more.      *)
CallShape ==
  \A o \in Op :
    /\ pc[o] = "activating" <=> wait[o] = Activation(o)
    /\ answer[o] \in {"activated", "reused"} => wait[o] = Activation(o)
    /\ pc[o] = "cleaning" =>
         wait[o] = Cleanup(o, IF verdict[o] = "uncertain" THEN "none" ELSE verdict[o])
    /\ pc[o] = "retrying" =>
         wait[o] = Cleanup(o, IF verdict[o] \in {"activated", "reused"} THEN verdict[o] ELSE "none")
    /\ pc[o] \in {"idle", "asking", "done"} => wait[o] = None /\ answer[o] = None
    /\ pc[o] \in {"idle", "activating", "asking"} => verdict[o] = "none" /\ ~pending[o]
    /\ pc[o] = "cleaning" => verdict[o] # "none"
    /\ pc[o] = "retrying" => pending[o]

(* A cleanup on its way to the host expects the outcome that was learnt.   *)
CleanupsExpectVerdict ==
  \A o \in Op, v \in Decided \cup {"none"} :
    Cleanup(o, v) \in queue =>
      pc[o] \in {"cleaning", "retrying", "done"} /\ (v # "none" => verdict[o] = v)

(* An activation runs at most once: nothing of it is on the host before    *)
(* its request is taken, and nothing of its request when it is answered.   *)
RunsOnce ==
  \A o \in Op :
    /\ pc[o] = "idle" => Activation(o) \notin queue
    /\ pc[o] = "idle" \/ Activation(o) \in queue =>
         run.op # o /\ receipt[o] = None /\ temp[o] = None
    /\ answer[o] \in {"activated", "reused"} => ~Acting(o)

(* A receipt says what was current before, which was something else.       *)
ReceiptsAreOthers ==
  \A o \in Op : receipt[o] \in Receipt => receipt[o].previous # gen[o]

(* A cleanup that was confirmed has left nothing behind. *)
CleanedIsClean ==
  \A o \in Op : answer[o] = "cleaned" /\ verdict[o] \in {"activated", "reused"} =>
                  receipt[o] = None /\ temp[o] = None

(* What somebody else made current is current or a temporary symlink, also *)
(* while an activation is under way.                                       *)
OutsideIsKept ==
  /\ outside # None => outside # run.previous
  /\ outside # None /\ (\A o \in Op : gen[o] # outside) =>
       current = outside \/ \E o \in Op : temp[o] = outside

IInv == /\ DecidedIsFinal /\ OutsideIsKept
        /\ RunShape /\ TempFollowsRun
        /\ CallShape /\ CleanupsExpectVerdict /\ RunsOnce
        /\ ReceiptsAreOthers /\ CleanedIsClean

USE NoneAssumption, TornAssumption, BoundsAssumption

(* Activations and cleanups are different requests, each of one activation. *)
LEMMA Requests ==
  /\ \A o \in Op : Activation(o) \in Request /\ Activation(o) # None
  /\ \A o \in Op : Activation(o).op = o /\ Activation(o).kind = "activate"
  /\ \A o, p \in Op : Activation(o) = Activation(p) => o = p
  /\ \A o \in Op, v \in Decided \cup {"none"} :
       /\ Cleanup(o, v) \in Request /\ Cleanup(o, v) # None
       /\ Cleanup(o, v).op = o /\ Cleanup(o, v).kind = "cleanup" /\ Cleanup(o, v).expected = v
  /\ \A o, p \in Op : \A v \in Decided \cup {"none"} : Activation(o) # Cleanup(p, v)
  /\ \A o, p \in Op : \A v, w \in Decided \cup {"none"} :
       Cleanup(o, v) = Cleanup(p, w) => o = p /\ v = w
<1>1. \A o \in Op : Activation(o) \in Request
  BY DEF Request
<1>2. \A o \in Op, v \in Decided \cup {"none"} : Cleanup(o, v) \in Request
  BY DEF Request
<1>3. \A o \in Op : Activation(o).op = o /\ Activation(o).kind = "activate"
  BY DEF Activation
<1>4. \A o \in Op, v \in Decided \cup {"none"} :
        Cleanup(o, v).op = o /\ Cleanup(o, v).kind = "cleanup" /\ Cleanup(o, v).expected = v
  BY DEF Cleanup
<1>5. \A o, p \in Op : \A v \in Decided \cup {"none"} : Activation(o) # Cleanup(p, v)
  BY <1>3, <1>4
<1>6. \A o, p \in Op : \A v, w \in Decided \cup {"none"} :
        Cleanup(o, v) = Cleanup(p, w) => o = p /\ v = w
  BY <1>4
<1>7. \A o, p \in Op : Activation(o) = Activation(p) => o = p
  BY <1>3
<1> QED BY <1>1, <1>2, <1>3, <1>4, <1>5, <1>6, <1>7

(* A cleanup request is one of an activation, with an outcome to expect.   *)
LEMMA CleanupRequests ==
  \A r \in Request : r.kind = "cleanup" =>
    /\ r.op \in Op /\ r.expected \in Decided \cup {"none"}
    /\ r = Cleanup(r.op, r.expected)
<1> SUFFICES ASSUME NEW r \in Request, r.kind = "cleanup"
             PROVE  /\ r.op \in Op /\ r.expected \in Decided \cup {"none"}
                    /\ r = Cleanup(r.op, r.expected)
  OBVIOUS
<1>1. PICK o \in Op : r = Activation(o) \/ \E v \in Decided \cup {"none"} : r = Cleanup(o, v)
  BY DEF Request
<1>2. r # Activation(o)
  BY DEF Activation
<1>3. PICK v \in Decided \cup {"none"} : r = Cleanup(o, v)
  BY <1>1, <1>2
<1> QED BY <1>3, Requests

(* A status is an outcome, decided only with a whole receipt.              *)
LEMMA StatusType ==
  ASSUME NEW o \in Op, TypeOK
  PROVE  /\ Status(o) \in Decided \cup {"uncertain"}
         /\ Status(o) \in Decided => receipt[o] \in Receipt
<1>1. receipt[o] \in {None, Torn} \/ receipt[o] \in Receipt
  BY DEF TypeOK
<1>2. CASE receipt[o] \in {None, Torn}
  BY <1>2 DEF Status, Decided
<1>3. CASE receipt[o] \in Receipt
  <2>1. receipt[o].preexisting \in BOOLEAN
    BY <1>3 DEF Receipt
  <2> QED BY <1>3, <2>1 DEF Status, Decided
<1> QED BY <1>1, <1>2, <1>3

LEMMA InitIInv == Init => IInv
<1> SUFFICES ASSUME Init PROVE IInv
  OBVIOUS
<1> USE DEF Init, Idle
<1>1. TypeOK
  BY DEF TypeOK, Decided
<1>2. DecidedIsFinal /\ CleanedIsClean /\ ReceiptsAreOthers
  BY <1>1 DEF DecidedIsFinal, CleanedIsClean, ReceiptsAreOthers, Decided
<1>3. OutsideIsKept /\ RunShape /\ TempFollowsRun
  BY DEF OutsideIsKept, RunShape, TempFollowsRun
<1>4. CallShape /\ CleanupsExpectVerdict /\ RunsOnce
  BY Requests DEF CallShape, CleanupsExpectVerdict, RunsOnce, Response
<1> QED BY <1>2, <1>3, <1>4 DEF IInv

LEMMA NextTypeOK == IInv /\ [Next]_vars => TypeOK'
<1> SUFFICES ASSUME IInv, [Next]_vars PROVE TypeOK'
  OBVIOUS
<1> USE DEF Free, At, Goto, Respond, Ends, Quiet, Waits, Ask, Step, Learns, Settle, WriteReceipt, Host, remote, publisher
<1>0. TypeOK /\ RunShape
  BY DEF IInv, DecidedIsFinal
<1>1. ASSUME NEW o \in Op, TakeLock(o) PROVE TypeOK'
  BY <1>0, <1>1 DEF TakeLock, TypeOK, RunShape, Idle, Response, Receipt, Decided
<1>2. CASE Begin
  BY <1>0, <1>2 DEF Begin, TypeOK, RunShape, Idle, Response, Receipt, Decided
<1>3. CASE Reuse
  BY <1>0, <1>3 DEF Reuse, TypeOK, RunShape, Idle, Response, Receipt, Decided
<1>4. CASE LeaveReceipt
  BY <1>0, <1>4 DEF LeaveReceipt, TypeOK, RunShape, Idle, Response, Receipt, Decided
<1>5. CASE Link
  BY <1>0, <1>5 DEF Link, TypeOK, RunShape, Idle, Response, Receipt, Decided
<1>6. CASE Switch
  BY <1>0, <1>6 DEF Switch, TypeOK, RunShape, Idle, Response, Receipt, Decided
<1>7. CASE Compare
  BY <1>0, <1>7 DEF Compare, TypeOK, RunShape, Idle, Response, Receipt, Decided
<1>8. CASE Undo
  <2>1. run.op \in Op
    BY <1>0, <1>8 DEF Undo, RunShape, Idle
  <2>2. current' \in Gen \cup {None} /\ temp' \in [Op -> Gen \cup {None}]
    BY <1>0, <1>8, <2>1 DEF Undo, TypeOK
  <2>3. answer' \in [Op -> Response \cup {None}]
    BY <1>0, <1>8, <2>1 DEF Undo, TypeOK, Response
  <2> QED BY <1>0, <1>8, <2>2, <2>3 DEF Undo, TypeOK, Idle
<1>9. CASE Check
  BY <1>0, <1>9 DEF Check, TypeOK, RunShape, Idle, Response, Receipt, Decided
<1>10. CASE StepFails
  BY <1>0, <1>10 DEF StepFails, TypeOK, RunShape, Idle, Response, Receipt, Decided
<1>11. CASE Kill
  BY <1>0, <1>11 DEF Kill, TypeOK, RunShape, Idle, Response, Receipt, Decided
<1>12. ASSUME NEW r \in queue, CleanupRuns(r) PROVE TypeOK'
  BY <1>0, <1>12 DEF CleanupRuns, TypeOK, RunShape, Idle, Response, Receipt, Decided
<1>13. ASSUME NEW r \in queue, Lose(r) PROVE TypeOK'
  BY <1>0, <1>13 DEF Lose, TypeOK, RunShape, Idle, Response, Receipt, Decided
<1>14. ASSUME NEW g \in Gen, Repoint(g) PROVE TypeOK'
  BY <1>0, <1>14 DEF Repoint, TypeOK, RunShape, Idle, Response, Receipt, Decided
<1>15. ASSUME NEW o \in Op, Activate(o) PROVE TypeOK'
  <2>1. Activation(o) \in Request
    BY Requests
  <2> QED BY <1>0, <1>15, <2>1 DEF Activate, TypeOK
<1>16. ASSUME NEW o \in Op, Activated(o) PROVE TypeOK'
  <2>1. answer[o] \in Decided /\ Cleanup(o, answer[o]) \in Request
    BY <1>16, Requests DEF Activated, Decided
  <2>2. answer[o] # "uncertain"
    BY <1>16 DEF Activated
  <2> QED BY <1>0, <1>16, <2>1, <2>2 DEF Activated, TypeOK
<1>17. ASSUME NEW o \in Op, Unanswered(o) PROVE TypeOK'
  BY <1>0, <1>17 DEF Unanswered, TypeOK, RunShape, Idle, Response, Receipt, Decided
<1>18. ASSUME NEW o \in Op, ProcessLeft(o) PROVE TypeOK'
  BY <1>0, <1>18 DEF ProcessLeft, TypeOK, RunShape, Idle, Response, Receipt, Decided
<1>19. ASSUME NEW o \in Op, RequestRaises(o) PROVE TypeOK'
  BY <1>0, <1>19 DEF RequestRaises, TypeOK, RunShape, Idle, Response, Receipt, Decided
<1>20. ASSUME NEW o \in Op, AskStatus(o) PROVE TypeOK'
  <2>1. Status(o) \in Decided \cup {"uncertain"}
    BY <1>0, StatusType
  <2>2. Cleanup(o, IF Status(o) = "uncertain" THEN "none" ELSE Status(o)) \in Request
    BY <2>1, Requests
  <2> QED BY <1>0, <1>20, <2>1, <2>2 DEF AskStatus, TypeOK
<1>21. ASSUME NEW o \in Op, StatusLost(o) PROVE TypeOK'
  <2>1. Cleanup(o, "none") \in Request
    BY Requests
  <2> QED BY <1>0, <1>21, <2>1 DEF StatusLost, TypeOK
<1>22. ASSUME NEW o \in Op, Cleaned(o) PROVE TypeOK'
  BY <1>0, <1>22 DEF Cleaned, TypeOK, RunShape, Idle, Response, Receipt, Decided
<1>23. ASSUME NEW o \in Op, CleaningFails(o) PROVE TypeOK'
  BY <1>0, <1>23 DEF CleaningFails, TypeOK, RunShape, Idle, Response, Receipt, Decided
<1>24. ASSUME NEW o \in Op, Retry(o) PROVE TypeOK'
  <2>1. Cleanup(o, IF verdict[o] \in {"activated", "reused"} THEN verdict[o] ELSE "none") \in Request
    BY Requests DEF Decided
  <2>2. retries' \in [Op -> 0..MaxRetries]
    BY <1>0, <1>24 DEF Retry, TypeOK
  <2> QED BY <1>0, <1>24, <2>1, <2>2 DEF Retry, TypeOK
<1>25. ASSUME NEW o \in Op, Retried(o) PROVE TypeOK'
  BY <1>0, <1>25 DEF Retried, TypeOK, RunShape, Idle, Response, Receipt, Decided
<1>26. CASE UNCHANGED vars
  BY <1>0, <1>26 DEF vars, TypeOK, RunShape, Idle, Response, Receipt, Decided
<1> QED
  BY <1>1, <1>2, <1>3, <1>4, <1>5, <1>6, <1>7, <1>8, <1>9, <1>10, <1>11, <1>12,
     <1>13, <1>14, <1>15, <1>16, <1>17, <1>18, <1>19, <1>20, <1>21, <1>22,
     <1>23, <1>24, <1>25, <1>26 DEF Next, Helper, Publisher

(* The invariant is inductive. *)
LEMMA NextIInv == IInv /\ [Next]_vars => IInv'
<1> SUFFICES ASSUME IInv, [Next]_vars PROVE IInv'
  OBVIOUS
<1> USE DEF Free, At, Goto, Respond, Ends, Quiet, Waits, Ask, Step, Learns, Settle, WriteReceipt, Host, remote, publisher
<1>0. TypeOK /\ TypeOK'
  BY NextTypeOK DEF IInv, DecidedIsFinal
<1>1. ASSUME NEW o \in Op, TakeLock(o) PROVE IInv'
  <2> USE <1>0, <1>1 DEF TakeLock, TypeOK, Response, IInv
  <2>1. CallShape'
    BY Requests DEF CallShape, RunShape, Idle
  <2>2. CleanupsExpectVerdict'
    BY Requests DEF CleanupsExpectVerdict, CallShape
  <2>3. RunsOnce'
    BY Requests DEF RunsOnce, CallShape, RunShape, Acting, Idle
  <2>4. RunShape' /\ TempFollowsRun'
    BY DEF RunShape, TempFollowsRun, RunsOnce, Idle
  <2>5. ReceiptsAreOthers' /\ CleanedIsClean'
    BY DEF ReceiptsAreOthers, CleanedIsClean, RunShape, CallShape, DecidedIsFinal, Acting, Decided, Receipt, Idle
  <2>6. OutsideIsKept'
    BY DEF OutsideIsKept, RunShape, TempFollowsRun, Idle
  <2>7. DecidedIsFinal'
    BY DEF DecidedIsFinal, Acting, RunShape, CallShape, RunsOnce, CleanedIsClean, Idle
  <2> QED BY <2>1, <2>2, <2>3, <2>4, <2>5, <2>6, <2>7
<1>2. CASE Begin
  <2> USE <1>0, <1>2 DEF Begin, TypeOK, Response, IInv
  <2>1. CallShape'
    BY Requests DEF CallShape, RunShape, Idle
  <2>2. CleanupsExpectVerdict'
    BY Requests DEF CleanupsExpectVerdict, CallShape
  <2>3. RunsOnce'
    BY Requests DEF RunsOnce, CallShape, RunShape, Acting, Idle
  <2>4. RunShape' /\ TempFollowsRun'
    BY DEF RunShape, TempFollowsRun, RunsOnce, Idle
  <2>5. ReceiptsAreOthers' /\ CleanedIsClean'
    BY DEF ReceiptsAreOthers, CleanedIsClean, RunShape, CallShape, DecidedIsFinal, Acting, Decided, Receipt, Idle
  <2>6. OutsideIsKept'
    BY DEF OutsideIsKept, RunShape, TempFollowsRun, Idle
  <2>7. DecidedIsFinal'
    BY DEF DecidedIsFinal, Acting, RunShape, CallShape, RunsOnce, CleanedIsClean, Idle
  <2> QED BY <2>1, <2>2, <2>3, <2>4, <2>5, <2>6, <2>7
<1>3. CASE Reuse
  <2> USE <1>0, <1>3 DEF Reuse, TypeOK, Response, IInv
  <2>1. CallShape'
    BY Requests DEF CallShape, RunShape, Idle
  <2>2. CleanupsExpectVerdict'
    BY Requests DEF CleanupsExpectVerdict, CallShape
  <2>3. RunsOnce'
    BY Requests DEF RunsOnce, CallShape, RunShape, Acting, Idle
  <2>4. RunShape' /\ TempFollowsRun'
    BY DEF RunShape, TempFollowsRun, RunsOnce, Idle
  <2>5. ReceiptsAreOthers' /\ CleanedIsClean'
    BY Requests DEF ReceiptsAreOthers, CleanedIsClean, RunShape, CallShape, DecidedIsFinal, Acting, Decided, Receipt, Idle
  <2>6. OutsideIsKept'
    BY DEF OutsideIsKept, RunShape, TempFollowsRun, Idle
  <2>7. DecidedIsFinal'
    BY Requests DEF DecidedIsFinal, Acting, RunShape, CallShape, RunsOnce, CleanedIsClean, Idle
  <2> QED BY <2>1, <2>2, <2>3, <2>4, <2>5, <2>6, <2>7
<1>4. CASE LeaveReceipt
  <2> USE <1>0, <1>4 DEF LeaveReceipt, TypeOK, Response, IInv
  <2>1. CallShape'
    BY Requests DEF CallShape, RunShape, Idle
  <2>2. CleanupsExpectVerdict'
    BY Requests DEF CleanupsExpectVerdict, CallShape
  <2>3. RunsOnce'
    BY Requests DEF RunsOnce, CallShape, RunShape, Acting, Idle
  <2>4. RunShape' /\ TempFollowsRun'
    BY DEF RunShape, TempFollowsRun, RunsOnce, Idle
  <2>5. ReceiptsAreOthers' /\ CleanedIsClean'
    BY DEF ReceiptsAreOthers, CleanedIsClean, RunShape, CallShape, DecidedIsFinal, Acting, Decided, Receipt, Idle
  <2>6. OutsideIsKept'
    BY DEF OutsideIsKept, RunShape, TempFollowsRun, Idle
  <2>7. DecidedIsFinal'
    BY DEF DecidedIsFinal, Acting, RunShape, CallShape, RunsOnce, CleanedIsClean, Idle
  <2> QED BY <2>1, <2>2, <2>3, <2>4, <2>5, <2>6, <2>7
<1>5. CASE Link
  <2> USE <1>0, <1>5 DEF Link, TypeOK, Response, IInv
  <2>1. CallShape'
    BY Requests DEF CallShape, RunShape, Idle
  <2>2. CleanupsExpectVerdict'
    BY Requests DEF CleanupsExpectVerdict, CallShape
  <2>3. RunsOnce'
    BY Requests DEF RunsOnce, CallShape, RunShape, Acting, Idle
  <2>4. RunShape' /\ TempFollowsRun'
    BY DEF RunShape, TempFollowsRun, RunsOnce, Idle
  <2>5. ReceiptsAreOthers' /\ CleanedIsClean'
    BY DEF ReceiptsAreOthers, CleanedIsClean, RunShape, CallShape, DecidedIsFinal, Acting, Decided, Receipt, Idle
  <2>6. OutsideIsKept'
    BY DEF OutsideIsKept, RunShape, TempFollowsRun, Idle
  <2>7. DecidedIsFinal'
    BY DEF DecidedIsFinal, Acting, RunShape, CallShape, RunsOnce, CleanedIsClean, Idle
  <2> QED BY <2>1, <2>2, <2>3, <2>4, <2>5, <2>6, <2>7
<1>6. CASE Switch
  <2> USE <1>0, <1>6 DEF Switch, TypeOK, Response, IInv
  <2>1. CallShape'
    BY Requests DEF CallShape, RunShape, Idle
  <2>2. CleanupsExpectVerdict'
    BY Requests DEF CleanupsExpectVerdict, CallShape
  <2>3. RunsOnce'
    BY Requests DEF RunsOnce, CallShape, RunShape, Acting, Idle
  <2>4. RunShape' /\ TempFollowsRun'
    BY DEF RunShape, TempFollowsRun, RunsOnce, Idle
  <2>5. ReceiptsAreOthers' /\ CleanedIsClean'
    BY DEF ReceiptsAreOthers, CleanedIsClean, RunShape, CallShape, DecidedIsFinal, Acting, Decided, Receipt, Idle
  <2>6. OutsideIsKept'
    BY DEF OutsideIsKept, RunShape, TempFollowsRun, Idle
  <2>7. DecidedIsFinal'
    BY DEF DecidedIsFinal, Acting, RunShape, CallShape, RunsOnce, CleanedIsClean, Idle
  <2> QED BY <2>1, <2>2, <2>3, <2>4, <2>5, <2>6, <2>7
<1>7. CASE Compare
  <2> USE <1>0, <1>7 DEF Compare, TypeOK, Response, IInv
  <2>1. CallShape'
    BY Requests DEF CallShape, RunShape, Idle
  <2>2. CleanupsExpectVerdict'
    BY Requests DEF CleanupsExpectVerdict, CallShape
  <2>3. RunsOnce'
    BY Requests DEF RunsOnce, CallShape, RunShape, Acting, Idle
  <2>4. RunShape' /\ TempFollowsRun'
    BY DEF RunShape, TempFollowsRun, RunsOnce, Idle
  <2>5. ReceiptsAreOthers' /\ CleanedIsClean'
    BY DEF ReceiptsAreOthers, CleanedIsClean, RunShape, CallShape, DecidedIsFinal, Acting, Decided, Receipt, Idle
  <2>6. OutsideIsKept'
    BY DEF OutsideIsKept, RunShape, TempFollowsRun, Idle
  <2>7. DecidedIsFinal'
    BY DEF DecidedIsFinal, Acting, RunShape, CallShape, RunsOnce, CleanedIsClean, Idle
  <2> QED BY <2>1, <2>2, <2>3, <2>4, <2>5, <2>6, <2>7
<1>8. CASE Undo
  <2> USE <1>0, <1>8 DEF Undo, TypeOK, Response, IInv
  <2>1. CallShape'
    BY Requests DEF CallShape, RunShape, Idle
  <2>2. CleanupsExpectVerdict'
    BY Requests DEF CleanupsExpectVerdict, CallShape
  <2>3. RunsOnce'
    BY Requests DEF RunsOnce, CallShape, RunShape, Acting, Idle
  <2>4. RunShape' /\ TempFollowsRun'
    BY DEF RunShape, TempFollowsRun, RunsOnce, Idle
  <2>5. ReceiptsAreOthers' /\ CleanedIsClean'
    BY Requests DEF ReceiptsAreOthers, CleanedIsClean, RunShape, CallShape, DecidedIsFinal, Acting, Decided, Receipt, Idle
  <2>6. OutsideIsKept'
    BY DEF OutsideIsKept, RunShape, TempFollowsRun, Idle
  <2>7. DecidedIsFinal'
    BY Requests DEF DecidedIsFinal, Acting, RunShape, CallShape, RunsOnce, CleanedIsClean, Idle
  <2> QED BY <2>1, <2>2, <2>3, <2>4, <2>5, <2>6, <2>7
<1>9. CASE Check
  <2> USE <1>0, <1>9 DEF Check, TypeOK, Response, IInv
  <2>1. CallShape'
    BY Requests DEF CallShape, RunShape, Idle
  <2>2. CleanupsExpectVerdict'
    BY Requests DEF CleanupsExpectVerdict, CallShape
  <2>3. RunsOnce'
    BY Requests DEF RunsOnce, CallShape, RunShape, Acting, Idle
  <2>4. RunShape' /\ TempFollowsRun'
    BY DEF RunShape, TempFollowsRun, RunsOnce, Idle
  <2>5. ReceiptsAreOthers' /\ CleanedIsClean'
    BY Requests DEF ReceiptsAreOthers, CleanedIsClean, RunShape, CallShape, DecidedIsFinal, Acting, Decided, Receipt, Idle
  <2>6. OutsideIsKept'
    BY DEF OutsideIsKept, RunShape, TempFollowsRun, Idle
  <2>7. DecidedIsFinal'
    BY Requests DEF DecidedIsFinal, Acting, RunShape, CallShape, RunsOnce, CleanedIsClean, Idle
  <2> QED BY <2>1, <2>2, <2>3, <2>4, <2>5, <2>6, <2>7
<1>10. CASE StepFails
  <2> USE <1>0, <1>10 DEF StepFails, TypeOK, Response, IInv
  <2>1. CallShape'
    BY Requests DEF CallShape, RunShape, Idle
  <2>2. CleanupsExpectVerdict'
    BY Requests DEF CleanupsExpectVerdict, CallShape
  <2>3. RunsOnce'
    BY Requests DEF RunsOnce, CallShape, RunShape, Acting, Idle
  <2>4. RunShape' /\ TempFollowsRun'
    BY DEF RunShape, TempFollowsRun, RunsOnce, Idle
  <2>5. ReceiptsAreOthers' /\ CleanedIsClean'
    BY Requests DEF ReceiptsAreOthers, CleanedIsClean, RunShape, CallShape, DecidedIsFinal, Acting, Decided, Receipt, Idle
  <2>6. OutsideIsKept'
    BY DEF OutsideIsKept, RunShape, TempFollowsRun, Idle
  <2>7. DecidedIsFinal'
    BY Requests DEF DecidedIsFinal, Acting, RunShape, CallShape, RunsOnce, CleanedIsClean, Idle
  <2> QED BY <2>1, <2>2, <2>3, <2>4, <2>5, <2>6, <2>7
<1>11. CASE Kill
  <2> USE <1>0, <1>11 DEF Kill, TypeOK, Response, IInv
  <2>1. CallShape'
    BY Requests DEF CallShape, RunShape, Idle
  <2>2. CleanupsExpectVerdict'
    BY Requests DEF CleanupsExpectVerdict, CallShape
  <2>3. RunsOnce'
    BY Requests DEF RunsOnce, CallShape, RunShape, Acting, Idle
  <2>4. RunShape' /\ TempFollowsRun'
    BY DEF RunShape, TempFollowsRun, RunsOnce, Idle
  <2>5. ReceiptsAreOthers' /\ CleanedIsClean'
    BY DEF ReceiptsAreOthers, CleanedIsClean, RunShape, CallShape, DecidedIsFinal, Acting, Decided, Receipt, Idle
  <2>6. OutsideIsKept'
    BY DEF OutsideIsKept, RunShape, TempFollowsRun, Idle
  <2>7. DecidedIsFinal'
    BY DEF DecidedIsFinal, Acting, RunShape, CallShape, RunsOnce, CleanedIsClean, Idle
  <2> QED BY <2>1, <2>2, <2>3, <2>4, <2>5, <2>6, <2>7
<1>12. ASSUME NEW r \in queue, CleanupRuns(r) PROVE IInv'
  <2> USE <1>0, <1>12 DEF CleanupRuns, TypeOK, Response, IInv
  <2>1. CallShape'
    BY Requests DEF CallShape, RunShape, Idle
  <2>2. CleanupsExpectVerdict'
    BY Requests DEF CleanupsExpectVerdict, CallShape
  <2>3. RunsOnce'
    BY Requests DEF RunsOnce, CallShape, RunShape, Acting, Idle
  <2>4. RunShape' /\ TempFollowsRun'
    BY DEF RunShape, TempFollowsRun, RunsOnce, Idle
  <2>5. ReceiptsAreOthers' /\ CleanedIsClean'
    <3>1. r.op \in Op /\ r.expected \in Decided \cup {"none"} /\ r = Cleanup(r.op, r.expected)
      BY CleanupRequests
    <3>2. ReceiptsAreOthers'
      BY <3>1 DEF ReceiptsAreOthers
    <3>3. CleanedIsClean'
      <4> SUFFICES ASSUME NEW o \in Op, answer'[o] = "cleaned", verdict[o] \in {"activated", "reused"}
                   PROVE  receipt'[o] = None /\ temp'[o] = None
        BY DEF CleanedIsClean
      <4>1. CASE answer[o] = "cleaned"
        BY <3>1, <4>1 DEF CleanedIsClean
      <4>2. CASE answer[o] # "cleaned"
        <5>1. o = r.op /\ wait[o] = r
          BY <3>1, <4>2
        <5>2. temp'[o] = None /\ (r.expected # "none" => receipt'[o] = None)
          BY <3>1, <4>2, <5>1
        <5>3. wait[o] # None /\ wait[o] # Activation(o)
          BY <3>1, <5>1, Requests
        <5>4. pc[o] \in {"cleaning", "retrying"}
          BY <5>3 DEF CallShape
        <5>5. wait[o] = Cleanup(o, verdict[o])
          BY <5>4 DEF CallShape
        <5>6. r.expected = verdict[o]
          BY <3>1, <5>1, <5>5, Requests DEF Decided
        <5> QED BY <5>2, <5>6
      <4> QED BY <4>1, <4>2
    <3> QED BY <3>2, <3>3
  <2>6. OutsideIsKept'
    <3>1. r.op \in Op
      BY CleanupRequests
    <3>2. \A p \in Op : temp'[p] = temp[p] \/ temp[p] \in {None, gen[p]}
      BY <3>1 DEF TempSafe
    <3> QED BY <3>2 DEF OutsideIsKept
  <2>7. DecidedIsFinal'
    BY Requests DEF DecidedIsFinal, Acting, RunShape, CallShape, RunsOnce, CleanedIsClean, Idle
  <2> QED BY <2>1, <2>2, <2>3, <2>4, <2>5, <2>6, <2>7
<1>13. ASSUME NEW r \in queue, Lose(r) PROVE IInv'
  <2> USE <1>0, <1>13 DEF Lose, TypeOK, Response, IInv
  <2>1. CallShape'
    BY Requests DEF CallShape, RunShape, Idle
  <2>2. CleanupsExpectVerdict'
    BY Requests DEF CleanupsExpectVerdict, CallShape
  <2>3. RunsOnce'
    BY Requests DEF RunsOnce, CallShape, RunShape, Acting, Idle
  <2>4. RunShape' /\ TempFollowsRun'
    BY DEF RunShape, TempFollowsRun, RunsOnce, Idle
  <2>5. ReceiptsAreOthers' /\ CleanedIsClean'
    BY DEF ReceiptsAreOthers, CleanedIsClean, RunShape, CallShape, DecidedIsFinal, Acting, Decided, Receipt, Idle
  <2>6. OutsideIsKept'
    BY DEF OutsideIsKept, RunShape, TempFollowsRun, Idle
  <2>7. DecidedIsFinal'
    BY DEF DecidedIsFinal, Acting, RunShape, CallShape, RunsOnce, CleanedIsClean, Idle
  <2> QED BY <2>1, <2>2, <2>3, <2>4, <2>5, <2>6, <2>7
<1>14. ASSUME NEW g \in Gen, Repoint(g) PROVE IInv'
  <2> USE <1>0, <1>14 DEF Repoint, TypeOK, Response, IInv
  <2>1. CallShape'
    BY Requests DEF CallShape, RunShape, Idle
  <2>2. CleanupsExpectVerdict'
    BY Requests DEF CleanupsExpectVerdict, CallShape
  <2>3. RunsOnce'
    BY Requests DEF RunsOnce, CallShape, RunShape, Acting, Idle
  <2>4. RunShape' /\ TempFollowsRun'
    BY DEF RunShape, TempFollowsRun, RunsOnce, Idle
  <2>5. ReceiptsAreOthers' /\ CleanedIsClean'
    BY DEF ReceiptsAreOthers, CleanedIsClean, RunShape, CallShape, DecidedIsFinal, Acting, Decided, Receipt, Idle
  <2>6. OutsideIsKept'
    BY DEF OutsideIsKept, RunShape, TempFollowsRun, Idle
  <2>7. DecidedIsFinal'
    BY DEF DecidedIsFinal, Acting, RunShape, CallShape, RunsOnce, CleanedIsClean, Idle
  <2> QED BY <2>1, <2>2, <2>3, <2>4, <2>5, <2>6, <2>7
<1>15. ASSUME NEW o \in Op, Activate(o) PROVE IInv'
  <2> USE <1>0, <1>15 DEF Activate, TypeOK, Response, IInv
  <2>1. CallShape'
    BY Requests DEF CallShape, RunShape, Idle
  <2>2. CleanupsExpectVerdict'
    BY Requests DEF CleanupsExpectVerdict, CallShape
  <2>3. RunsOnce'
    BY Requests DEF RunsOnce, CallShape, RunShape, Acting, Idle
  <2>4. RunShape' /\ TempFollowsRun'
    BY DEF RunShape, TempFollowsRun, RunsOnce, Idle
  <2>5. ReceiptsAreOthers' /\ CleanedIsClean'
    BY Requests DEF ReceiptsAreOthers, CleanedIsClean, RunShape, CallShape, DecidedIsFinal, Acting, Decided, Receipt, Idle
  <2>6. OutsideIsKept'
    BY DEF OutsideIsKept, RunShape, TempFollowsRun, Idle
  <2>7. DecidedIsFinal'
    <3> SUFFICES ASSUME NEW p \in Op
                 PROVE  /\ verdict'[p] \in Decided => ~Acting(p)'
                        /\ pc'[p] = "done" /\ verdict'[p] \in {"activated", "reused"} /\ ~pending'[p] =>
                             receipt'[p] = None /\ temp'[p] = None
      BY DEF DecidedIsFinal
    <3>1. CASE p # o
      <4>1. Acting(p)' <=> Acting(p)
        BY <3>1, Requests DEF Acting, Decided
      <4> QED BY <3>1, <4>1 DEF DecidedIsFinal
    <3>2. CASE p = o
      BY <3>2 DEF CallShape, Decided
    <3> QED BY <3>1, <3>2
  <2> QED BY <2>1, <2>2, <2>3, <2>4, <2>5, <2>6, <2>7
<1>16. ASSUME NEW o \in Op, Activated(o) PROVE IInv'
  <2> USE <1>0, <1>16 DEF Activated, TypeOK, Response, IInv
  <2>1. CallShape'
    BY Requests DEF CallShape, RunShape, Idle
  <2>2. CleanupsExpectVerdict'
    BY Requests DEF CleanupsExpectVerdict, CallShape
  <2>3. RunsOnce'
    BY Requests DEF RunsOnce, CallShape, RunShape, Acting, Idle
  <2>4. RunShape' /\ TempFollowsRun'
    BY DEF RunShape, TempFollowsRun, RunsOnce, Idle
  <2>5. ReceiptsAreOthers' /\ CleanedIsClean'
    BY Requests DEF ReceiptsAreOthers, CleanedIsClean, RunShape, CallShape, DecidedIsFinal, Acting, Decided, Receipt, Idle
  <2>6. OutsideIsKept'
    BY DEF OutsideIsKept, RunShape, TempFollowsRun, Idle
  <2>7. DecidedIsFinal'
    BY Requests DEF DecidedIsFinal, Acting, RunShape, CallShape, RunsOnce, CleanedIsClean, Idle
  <2> QED BY <2>1, <2>2, <2>3, <2>4, <2>5, <2>6, <2>7
<1>17. ASSUME NEW o \in Op, Unanswered(o) PROVE IInv'
  <2> USE <1>0, <1>17 DEF Unanswered, TypeOK, Response, IInv
  <2>1. CallShape'
    BY Requests DEF CallShape, RunShape, Idle
  <2>2. CleanupsExpectVerdict'
    BY Requests DEF CleanupsExpectVerdict, CallShape
  <2>3. RunsOnce'
    BY Requests DEF RunsOnce, CallShape, RunShape, Acting, Idle
  <2>4. RunShape' /\ TempFollowsRun'
    BY DEF RunShape, TempFollowsRun, RunsOnce, Idle
  <2>5. ReceiptsAreOthers' /\ CleanedIsClean'
    BY DEF ReceiptsAreOthers, CleanedIsClean, RunShape, CallShape, DecidedIsFinal, Acting, Decided, Receipt, Idle
  <2>6. OutsideIsKept'
    BY DEF OutsideIsKept, RunShape, TempFollowsRun, Idle
  <2>7. DecidedIsFinal'
    BY DEF DecidedIsFinal, Acting, RunShape, CallShape, RunsOnce, CleanedIsClean, Idle
  <2> QED BY <2>1, <2>2, <2>3, <2>4, <2>5, <2>6, <2>7
<1>18. ASSUME NEW o \in Op, ProcessLeft(o) PROVE IInv'
  <2> USE <1>0, <1>18 DEF ProcessLeft, TypeOK, Response, IInv
  <2>1. CallShape'
    BY Requests DEF CallShape, RunShape, Idle
  <2>2. CleanupsExpectVerdict'
    BY Requests DEF CleanupsExpectVerdict, CallShape
  <2>3. RunsOnce'
    BY Requests DEF RunsOnce, CallShape, RunShape, Acting, Idle
  <2>4. RunShape' /\ TempFollowsRun'
    BY DEF RunShape, TempFollowsRun, RunsOnce, Idle
  <2>5. ReceiptsAreOthers' /\ CleanedIsClean'
    BY DEF ReceiptsAreOthers, CleanedIsClean, RunShape, CallShape, DecidedIsFinal, Acting, Decided, Receipt, Idle
  <2>6. OutsideIsKept'
    BY DEF OutsideIsKept, RunShape, TempFollowsRun, Idle
  <2>7. DecidedIsFinal'
    <3> SUFFICES ASSUME NEW p \in Op
                 PROVE  /\ verdict'[p] \in Decided => ~Acting(p)'
                        /\ pc'[p] = "done" /\ verdict'[p] \in {"activated", "reused"} /\ ~pending'[p] =>
                             receipt'[p] = None /\ temp'[p] = None
      BY DEF DecidedIsFinal
    <3>1. CASE p # o
      <4>1. Acting(p)' <=> Acting(p)
        BY <3>1, Requests DEF Acting, Decided
      <4> QED BY <3>1, <4>1 DEF DecidedIsFinal
    <3>2. CASE p = o
      BY <3>2 DEF Decided
    <3> QED BY <3>1, <3>2
  <2> QED BY <2>1, <2>2, <2>3, <2>4, <2>5, <2>6, <2>7
<1>19. ASSUME NEW o \in Op, RequestRaises(o) PROVE IInv'
  <2> USE <1>0, <1>19 DEF RequestRaises, TypeOK, Response, IInv
  <2>1. CallShape'
    BY Requests DEF CallShape, RunShape, Idle
  <2>2. CleanupsExpectVerdict'
    BY Requests DEF CleanupsExpectVerdict, CallShape
  <2>3. RunsOnce'
    BY Requests DEF RunsOnce, CallShape, RunShape, Acting, Idle
  <2>4. RunShape' /\ TempFollowsRun'
    BY DEF RunShape, TempFollowsRun, RunsOnce, Idle
  <2>5. ReceiptsAreOthers' /\ CleanedIsClean'
    BY DEF ReceiptsAreOthers, CleanedIsClean, RunShape, CallShape, DecidedIsFinal, Acting, Decided, Receipt, Idle
  <2>6. OutsideIsKept'
    BY DEF OutsideIsKept, RunShape, TempFollowsRun, Idle
  <2>7. DecidedIsFinal'
    BY DEF DecidedIsFinal, Acting, RunShape, CallShape, RunsOnce, CleanedIsClean, Idle
  <2> QED BY <2>1, <2>2, <2>3, <2>4, <2>5, <2>6, <2>7
<1>20. ASSUME NEW o \in Op, AskStatus(o) PROVE IInv'
  <2> USE <1>0, <1>20 DEF AskStatus, TypeOK, Response, IInv
  <2>1. CallShape'
    <3>1. Status(o) \in Decided \cup {"uncertain"}
      BY StatusType
    <3> QED BY <3>1, Requests DEF CallShape, Decided
  <2>2. CleanupsExpectVerdict'
    BY Requests DEF CleanupsExpectVerdict, CallShape
  <2>3. RunsOnce'
    BY Requests DEF RunsOnce, CallShape, RunShape, Acting, Idle
  <2>4. RunShape' /\ TempFollowsRun'
    BY DEF RunShape, TempFollowsRun, RunsOnce, Idle
  <2>5. ReceiptsAreOthers' /\ CleanedIsClean'
    BY Requests DEF ReceiptsAreOthers, CleanedIsClean, RunShape, CallShape, DecidedIsFinal, Acting, Decided, Receipt, Idle
  <2>6. OutsideIsKept'
    BY DEF OutsideIsKept, RunShape, TempFollowsRun, Idle
  <2>7. DecidedIsFinal'
    <3> SUFFICES ASSUME NEW p \in Op
                 PROVE  /\ verdict'[p] \in Decided => ~Acting(p)'
                        /\ pc'[p] = "done" /\ verdict'[p] \in {"activated", "reused"} /\ ~pending'[p] =>
                             receipt'[p] = None /\ temp'[p] = None
      BY DEF DecidedIsFinal
    <3>1. CASE p # o
      <4>1. Acting(p)' <=> Acting(p)
        BY <3>1, Requests DEF Acting, Decided
      <4> QED BY <3>1, <4>1 DEF DecidedIsFinal
    <3>2. CASE p = o
      <4>1. run.op # o
        BY DEF RunShape, Idle
      <4>2. Status(o) \in Decided => receipt[o] # None
        BY StatusType
      <4> QED BY <3>2, <4>1, <4>2, Requests DEF Acting, RunsOnce, Decided
    <3> QED BY <3>1, <3>2
  <2> QED BY <2>1, <2>2, <2>3, <2>4, <2>5, <2>6, <2>7
<1>21. ASSUME NEW o \in Op, StatusLost(o) PROVE IInv'
  <2> USE <1>0, <1>21 DEF StatusLost, TypeOK, Response, IInv
  <2>1. CallShape'
    BY Requests DEF CallShape, RunShape, Idle
  <2>2. CleanupsExpectVerdict'
    BY Requests DEF CleanupsExpectVerdict, CallShape
  <2>3. RunsOnce'
    BY Requests DEF RunsOnce, CallShape, RunShape, Acting, Idle
  <2>4. RunShape' /\ TempFollowsRun'
    BY DEF RunShape, TempFollowsRun, RunsOnce, Idle
  <2>5. ReceiptsAreOthers' /\ CleanedIsClean'
    BY Requests DEF ReceiptsAreOthers, CleanedIsClean, RunShape, CallShape, DecidedIsFinal, Acting, Decided, Receipt, Idle
  <2>6. OutsideIsKept'
    BY DEF OutsideIsKept, RunShape, TempFollowsRun, Idle
  <2>7. DecidedIsFinal'
    <3> SUFFICES ASSUME NEW p \in Op
                 PROVE  /\ verdict'[p] \in Decided => ~Acting(p)'
                        /\ pc'[p] = "done" /\ verdict'[p] \in {"activated", "reused"} /\ ~pending'[p] =>
                             receipt'[p] = None /\ temp'[p] = None
      BY DEF DecidedIsFinal
    <3>1. CASE p # o
      <4>1. Acting(p)' <=> Acting(p)
        BY <3>1, Requests DEF Acting, Decided
      <4> QED BY <3>1, <4>1 DEF DecidedIsFinal
    <3>2. CASE p = o
      BY <3>2 DEF Decided
    <3> QED BY <3>1, <3>2
  <2> QED BY <2>1, <2>2, <2>3, <2>4, <2>5, <2>6, <2>7
<1>22. ASSUME NEW o \in Op, Cleaned(o) PROVE IInv'
  <2> USE <1>0, <1>22 DEF Cleaned, TypeOK, Response, IInv
  <2>1. CallShape'
    BY Requests DEF CallShape, RunShape, Idle
  <2>2. CleanupsExpectVerdict'
    BY Requests DEF CleanupsExpectVerdict, CallShape
  <2>3. RunsOnce'
    BY Requests DEF RunsOnce, CallShape, RunShape, Acting, Idle
  <2>4. RunShape' /\ TempFollowsRun'
    BY DEF RunShape, TempFollowsRun, RunsOnce, Idle
  <2>5. ReceiptsAreOthers' /\ CleanedIsClean'
    BY DEF ReceiptsAreOthers, CleanedIsClean, RunShape, CallShape, DecidedIsFinal, Acting, Decided, Receipt, Idle
  <2>6. OutsideIsKept'
    BY DEF OutsideIsKept, RunShape, TempFollowsRun, Idle
  <2>7. DecidedIsFinal'
    BY DEF DecidedIsFinal, Acting, RunShape, CallShape, RunsOnce, CleanedIsClean, Idle
  <2> QED BY <2>1, <2>2, <2>3, <2>4, <2>5, <2>6, <2>7
<1>23. ASSUME NEW o \in Op, CleaningFails(o) PROVE IInv'
  <2> USE <1>0, <1>23 DEF CleaningFails, TypeOK, Response, IInv
  <2>1. CallShape'
    BY Requests DEF CallShape, RunShape, Idle
  <2>2. CleanupsExpectVerdict'
    BY Requests DEF CleanupsExpectVerdict, CallShape
  <2>3. RunsOnce'
    BY Requests DEF RunsOnce, CallShape, RunShape, Acting, Idle
  <2>4. RunShape' /\ TempFollowsRun'
    BY DEF RunShape, TempFollowsRun, RunsOnce, Idle
  <2>5. ReceiptsAreOthers' /\ CleanedIsClean'
    BY DEF ReceiptsAreOthers, CleanedIsClean, RunShape, CallShape, DecidedIsFinal, Acting, Decided, Receipt, Idle
  <2>6. OutsideIsKept'
    BY DEF OutsideIsKept, RunShape, TempFollowsRun, Idle
  <2>7. DecidedIsFinal'
    BY DEF DecidedIsFinal, Acting, RunShape, CallShape, RunsOnce, CleanedIsClean, Idle
  <2> QED BY <2>1, <2>2, <2>3, <2>4, <2>5, <2>6, <2>7
<1>24. ASSUME NEW o \in Op, Retry(o) PROVE IInv'
  <2> USE <1>0, <1>24 DEF Retry, TypeOK, Response, IInv
  <2>1. CallShape'
    BY Requests DEF CallShape, RunShape, Idle
  <2>2. CleanupsExpectVerdict'
    BY Requests DEF CleanupsExpectVerdict, CallShape
  <2>3. RunsOnce'
    BY Requests DEF RunsOnce, CallShape, RunShape, Acting, Idle
  <2>4. RunShape' /\ TempFollowsRun'
    BY DEF RunShape, TempFollowsRun, RunsOnce, Idle
  <2>5. ReceiptsAreOthers' /\ CleanedIsClean'
    BY Requests DEF ReceiptsAreOthers, CleanedIsClean, RunShape, CallShape, DecidedIsFinal, Acting, Decided, Receipt, Idle
  <2>6. OutsideIsKept'
    BY DEF OutsideIsKept, RunShape, TempFollowsRun, Idle
  <2>7. DecidedIsFinal'
    BY Requests DEF DecidedIsFinal, Acting, RunShape, CallShape, RunsOnce, CleanedIsClean, Idle
  <2> QED BY <2>1, <2>2, <2>3, <2>4, <2>5, <2>6, <2>7
<1>25. ASSUME NEW o \in Op, Retried(o) PROVE IInv'
  <2> USE <1>0, <1>25 DEF Retried, TypeOK, Response, IInv
  <2>1. CallShape'
    BY Requests DEF CallShape, RunShape, Idle
  <2>2. CleanupsExpectVerdict'
    BY Requests DEF CleanupsExpectVerdict, CallShape
  <2>3. RunsOnce'
    BY Requests DEF RunsOnce, CallShape, RunShape, Acting, Idle
  <2>4. RunShape' /\ TempFollowsRun'
    BY DEF RunShape, TempFollowsRun, RunsOnce, Idle
  <2>5. ReceiptsAreOthers' /\ CleanedIsClean'
    BY DEF ReceiptsAreOthers, CleanedIsClean, RunShape, CallShape, DecidedIsFinal, Acting, Decided, Receipt, Idle
  <2>6. OutsideIsKept'
    BY DEF OutsideIsKept, RunShape, TempFollowsRun, Idle
  <2>7. DecidedIsFinal'
    BY DEF DecidedIsFinal, Acting, RunShape, CallShape, RunsOnce, CleanedIsClean, Idle
  <2> QED BY <2>1, <2>2, <2>3, <2>4, <2>5, <2>6, <2>7
<1>26. CASE UNCHANGED vars
  <2> USE <1>0, <1>26 DEF vars, TypeOK, Response, IInv
  <2>1. CallShape'
    BY Requests DEF CallShape, RunShape, Idle
  <2>2. CleanupsExpectVerdict'
    BY Requests DEF CleanupsExpectVerdict, CallShape
  <2>3. RunsOnce'
    BY Requests DEF RunsOnce, CallShape, RunShape, Acting, Idle
  <2>4. RunShape' /\ TempFollowsRun'
    BY DEF RunShape, TempFollowsRun, RunsOnce, Idle
  <2>5. ReceiptsAreOthers' /\ CleanedIsClean'
    BY DEF ReceiptsAreOthers, CleanedIsClean, RunShape, CallShape, DecidedIsFinal, Acting, Decided, Receipt, Idle
  <2>6. OutsideIsKept'
    BY DEF OutsideIsKept, RunShape, TempFollowsRun, Idle
  <2>7. DecidedIsFinal'
    BY DEF DecidedIsFinal, Acting, RunShape, CallShape, RunsOnce, CleanedIsClean, Idle
  <2> QED BY <2>1, <2>2, <2>3, <2>4, <2>5, <2>6, <2>7
<1> QED
  BY <1>1, <1>2, <1>3, <1>4, <1>5, <1>6, <1>7, <1>8, <1>9, <1>10, <1>11, <1>12,
     <1>13, <1>14, <1>15, <1>16, <1>17, <1>18, <1>19, <1>20, <1>21, <1>22,
     <1>23, <1>24, <1>25, <1>26 DEF Next, Helper, Publisher

(* The inductive invariant holds in every reachable state. *)
THEOREM ActivationInvariant == Spec => []IInv
  BY InitIInv, NextIInv, PTL DEF Spec

(* A decided outcome is final: once a publisher has learnt that its        *)
(* generation was activated, reused or not activated, no helper of that    *)
(* activation is left that could still change anything, and an outcome     *)
(* without pending cleanup leaves nothing behind.                          *)
THEOREM DecisionsAreFinal == Spec => []DecidedIsFinal
<1>1. IInv => DecidedIsFinal
  BY DEF IInv
<1> QED BY <1>1, ActivationInvariant, PTL

(* No activation overwrites a repointing that it has not seen.             *)
THEOREM SwitchesAreSeen == Spec => []NoBlindSwitch
<1>1. IInv => NoBlindSwitch
  BY DEF IInv, OutsideIsKept, NoBlindSwitch
<1> QED BY <1>1, ActivationInvariant, PTL

(* Only a cleanup that expects an outcome removes a receipt.               *)
LEMMA ReceiptGoesWithCleanup ==
  ASSUME IInv, [Next]_vars,
         NEW o \in Op, receipt[o] # None, receipt'[o] = None
  PROVE  \E r \in queue : /\ CleanupRuns(r) /\ r.op = o /\ r.expected # "none"
                          /\ Confirmed(o, r.expected)
<1> USE DEF Free, At, Goto, Respond, Ends, Quiet, Waits, Ask, Step, Learns, Settle, WriteReceipt, Host, remote, publisher
<1>0. TypeOK
  BY DEF IInv, DecidedIsFinal
<1>1. CASE \E r \in queue : CleanupRuns(r)
  <2>1. PICK r \in queue : CleanupRuns(r)
    BY <1>1
  <2>2. r.op = o /\ r.expected # "none" /\ Confirmed(r.op, r.expected)
    BY <1>0, <2>1 DEF CleanupRuns, TypeOK
  <2> QED BY <2>1, <2>2
<1>2. CASE Reuse \/ LeaveReceipt
  <2>1. run.previous \in Gen \cup {None}
    BY <1>0 DEF TypeOK
  <2>2. \A b \in BOOLEAN : [previous |-> run.previous, preexisting |-> b] \in Receipt
    BY <2>1 DEF Receipt
  <2>3. PICK b \in BOOLEAN : receipt' = [receipt EXCEPT ![run.op] = [previous |-> run.previous, preexisting |-> b]]
    <3>1. CASE Reuse
      <4>1. receipt' = [receipt EXCEPT ![run.op] = [previous |-> run.previous, preexisting |-> TRUE]]
        BY <3>1 DEF Reuse
      <4> QED BY <4>1
    <3>2. CASE LeaveReceipt
      <4>1. receipt' = [receipt EXCEPT ![run.op] = [previous |-> run.previous, preexisting |-> FALSE]]
        BY <3>2 DEF LeaveReceipt
      <4> QED BY <4>1
    <3> QED BY <1>2, <3>1, <3>2
  <2>4. receipt'[o] = receipt[o] \/ receipt'[o] \in Receipt
    BY <1>0, <2>2, <2>3 DEF TypeOK
  <2> QED BY <2>4
<1>3. CASE StepFails \/ Kill
  <2>1. receipt'[o] \in {receipt[o], Torn}
    BY <1>0, <1>3 DEF StepFails, Kill, TypeOK
  <2> QED BY <2>1
<1>4. CASE UNCHANGED receipt
  BY <1>4
<1>5. \/ \E r \in queue : CleanupRuns(r)
      \/ Reuse \/ LeaveReceipt \/ StepFails \/ Kill
      \/ UNCHANGED receipt
  <2>1. ASSUME Helper, ~Reuse, ~LeaveReceipt, ~StepFails, ~Kill,
               ~\E r \in queue : CleanupRuns(r)
        PROVE  UNCHANGED receipt
    BY <2>1 DEF Helper, TakeLock, Begin, Link, Switch, Compare, Undo, Check
  <2>2. ASSUME NEW p \in Op, Publisher(p) PROVE UNCHANGED receipt
    BY <2>2 DEF Publisher, Activate, Activated, Unanswered, ProcessLeft, RequestRaises,
       AskStatus, StatusLost, Cleaned, CleaningFails, Retry, Retried
  <2>3. ASSUME UNCHANGED vars \/ (\E r \in queue : Lose(r)) \/ \E g \in Gen : Repoint(g)
        PROVE  UNCHANGED receipt
    BY <2>3 DEF Lose, Repoint, vars
  <2> QED BY <2>1, <2>2, <2>3 DEF Next
<1> QED BY <1>1, <1>2, <1>3, <1>4, <1>5

(* What is confirmed is what current says.                                 *)
LEMMA ConfirmedIsCurrent ==
  ASSUME IInv, NEW o \in Op, NEW v \in Decided, Confirmed(o, v), receipt[o] # None
  PROVE  current = gen[o] <=> v # "not_activated"
<1>1. receipt[o] \in Receipt /\ Status(o) = v
  BY StatusType DEF Confirmed, Decided, IInv, DecidedIsFinal, TypeOK
<1>2. receipt[o].previous # gen[o] /\ receipt[o].preexisting \in BOOLEAN
  BY <1>1 DEF IInv, ReceiptsAreOthers, Receipt
<1> QED BY <1>1, <1>2 DEF Status, Decided

(* A receipt is removed only by a cleanup that confirms, under the remote  *)
(* lock, the outcome that the publisher has learnt.                        *)
THEOREM ReceiptsUntilDecided == Spec => ReceiptUntilDecided
<1>1. IInv /\ [Next]_vars =>
        [\A o \in Op : receipt[o] # None /\ receipt'[o] = None =>
           /\ verdict[o] \in Decided
           /\ current = gen[o] <=> verdict[o] # "not_activated"]_vars
  <2> SUFFICES ASSUME IInv, [Next]_vars, NEW o \in Op, receipt[o] # None, receipt'[o] = None
               PROVE  /\ verdict[o] \in Decided
                      /\ current = gen[o] <=> verdict[o] # "not_activated"
    OBVIOUS
  <2>1. PICK r \in queue : /\ CleanupRuns(r) /\ r.op = o /\ r.expected # "none"
                           /\ Confirmed(o, r.expected)
    BY ReceiptGoesWithCleanup
  <2>2. r.expected \in Decided /\ r = Cleanup(o, r.expected)
    BY <2>1, CleanupRequests DEF CleanupRuns, IInv, DecidedIsFinal, TypeOK
  <2>3. verdict[o] = r.expected
    BY <2>1, <2>2 DEF IInv, CleanupsExpectVerdict
  <2> QED BY <2>1, <2>2, <2>3, ConfirmedIsCurrent
<1> QED BY <1>1, ActivationInvariant, PTL DEF Spec, ReceiptUntilDecided

=============================================================================
