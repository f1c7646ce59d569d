--------------------------- MODULE PreparedChange --------------------------
(***************************************************************************)
(* What every change prepared on a Pack transaction promises: the source   *)
(* of the Pack changes in one step only, the application of a transaction  *)
(* that is open; a transaction that has begun to close is never applied    *)
(* and never opened again, and no other one opens before it has closed.    *)
(***************************************************************************)
VARIABLES state,  \* of the project's transaction
          real    \* the source of the Pack

Init == state \in {"none", "open"}

Begin == state \notin {"open", "closing"} /\ state' = "open" /\ UNCHANGED real

Apply == state = "open" /\ state' = "applied"

Close == state \in {"open", "closing"} /\ state' \in {"closing", "closed"} /\ UNCHANGED real

Next == Begin \/ Apply \/ Close

Spec == Init /\ [][Next]_<<state, real>>
=============================================================================
