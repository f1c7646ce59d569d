-------------------------- MODULE ProjectExclusion --------------------------
(***************************************************************************)
(* What the project locks of Huroshiki promise: a project key has at most  *)
(* one owning operation, an owner appears only on a free key, and a key    *)
(* becomes free only because its owner gave it up or its process died.     *)
(* ProjectLocks is the detailed specification that implements this one.    *)
(***************************************************************************)
CONSTANTS Client,   \* operations that own projects
          Key,      \* project keys
          None      \* no owner

VARIABLE owner      \* owner[k] is the client that owns k, or None

Init == owner = [k \in Key |-> None]

Acquire(c, k) == /\ owner[k] = None
                 /\ owner' = [owner EXCEPT ![k] = c]

Release(c, k) == /\ owner[k] = c
                 /\ owner' = [owner EXCEPT ![k] = None]

(* A dying process gives up everything it owns at once. *)
Vanish(c) == owner' = [k \in Key |-> IF owner[k] = c THEN None ELSE owner[k]]

Next == \E c \in Client : \/ \E k \in Key : Acquire(c, k) \/ Release(c, k)
                          \/ Vanish(c)

Spec == Init /\ [][Next]_owner
=============================================================================
