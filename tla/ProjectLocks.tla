---------------------------- MODULE ProjectLocks ----------------------------
(***************************************************************************)
(* Project locks: one advisory flock per project key, taken by operations  *)
(* (project_locks.py, acquire_project_locks in packctl.py) and probed by   *)
(* state inspection (inspect_lock_path).                                   *)
(*                                                                         *)
(* An operation asks for one key (ProjectLock.acquire: one attempt, an     *)
(* error when busy) or for a set of keys (acquire_project_locks: the keys  *)
(* in sorted order, each polled until it is free, cancelled or too late).  *)
(* The kernel lock and the owner record in the lock file are separate      *)
(* state: the record is truncated and rewritten after the flock is held,   *)
(* and is left behind by release.  An inspector takes the same flock for a *)
(* moment to learn whether somebody else has it.                           *)
(***************************************************************************)
EXTENDS Naturals

CONSTANTS Client,      \* operations, one process each
          Inspector,   \* processes running inspect_lock_path
          Keys,        \* how many project keys there are
          None         \* nobody

ASSUME AgentsAssumption == /\ Client \cap Inspector = {}
                           /\ None \notin Client \cup Inspector \cup Nat
ASSUME KeysAssumption == Keys \in Nat

(* Project keys are sorted strings; only their order matters. *)
Key == 1..Keys

VARIABLES
  kernel,   \* kernel[k]: who holds the flock on k's lock file
  record,   \* record[k]: the owner written in k's lock file
  pc,       \* pc[c]: where the operation is
  polls,    \* polls[c]: TRUE for acquire_project_locks, FALSE for acquire
  want,     \* want[c]: keys still to be acquired
  owned,    \* owned[c]: keys whose ProjectLock._handle is set
  pending,  \* pending[c]: keys the current release() has still to visit
  probe     \* probe[i]: the key inspector i holds the flock on

vars == <<kernel, record, pc, polls, want, owned, pending, probe>>

Agent == Client \cup Inspector

Phase == {"idle", "acquiring", "flocked", "truncated", "holding",
          "releasing", "retained", "dead"}

TypeOK == /\ kernel \in [Key -> Agent \cup {None}]
          /\ record \in [Key -> Client \cup {None}]
          /\ pc \in [Client -> Phase]
          /\ polls \in [Client -> BOOLEAN]
          /\ want \in [Client -> SUBSET Key]
          /\ owned \in [Client -> SUBSET Key]
          /\ pending \in [Client -> SUBSET Key]
          /\ probe \in [Inspector -> Key \cup {None}]

Init == /\ kernel = [k \in Key |-> None]
        /\ record = [k \in Key |-> None]
        /\ pc = [c \in Client |-> "idle"]
        /\ polls = [c \in Client |-> FALSE]
        /\ want = [c \in Client |-> {}]
        /\ owned = [c \in Client |-> {}]
        /\ pending = [c \in Client |-> {}]
        /\ probe = [i \in Inspector |-> None]

-----------------------------------------------------------------------------
(* Acquisition *)

(* Mutant: keys taken in any order. *)
FirstUnsorted(S, k) == k \in S

(* Keys are acquired in sorted order and released in the reverse order. *)
First(S, k) == k \in S /\ \A j \in S : k <= j
Last(S, k)  == k \in S /\ \A j \in S : j <= k

Start(c) ==
  /\ pc[c] = "idle"
  /\ \E S \in SUBSET Key, b \in BOOLEAN :
       /\ S # {}
       /\ b \/ \E k \in Key : S = {k}
       /\ want' = [want EXCEPT ![c] = S]
       /\ polls' = [polls EXCEPT ![c] = b]
  /\ pc' = [pc EXCEPT ![c] = "acquiring"]
  /\ UNCHANGED <<kernel, record, owned, pending, probe>>

(* flock(LOCK_EX | LOCK_NB) succeeds. *)
Flock(c) ==
  /\ pc[c] = "acquiring"
  /\ \E k \in Key : /\ First(want[c], k)
                    /\ kernel[k] = None
                    /\ kernel' = [kernel EXCEPT ![k] = c]
  /\ pc' = [pc EXCEPT ![c] = "flocked"]
  /\ UNCHANGED <<record, polls, want, owned, pending, probe>>

(* ProjectLockBusy: a single acquisition fails; a polling one sleeps and   *)
(* tries again, which changes nothing here.                                *)
Busy(c) ==
  /\ pc[c] = "acquiring" /\ ~polls[c]
  /\ \E k \in Key : First(want[c], k) /\ kernel[k] # None
  /\ want' = [want EXCEPT ![c] = {}]
  /\ pc' = [pc EXCEPT ![c] = "idle"]
  /\ UNCHANGED <<kernel, record, polls, owned, pending, probe>>

Truncate(c) ==
  /\ pc[c] = "flocked"
  /\ \E k \in Key : /\ First(want[c], k)
                    /\ record' = [record EXCEPT ![k] = None]
  /\ pc' = [pc EXCEPT ![c] = "truncated"]
  /\ UNCHANGED <<kernel, polls, want, owned, pending, probe>>

(* Mutant: the truncated record is never written. *)
WriteNothing(c) ==
  /\ pc[c] = "truncated"
  /\ \E k \in Key :
       /\ First(want[c], k)
       /\ want' = [want EXCEPT ![c] = @ \ {k}]
       /\ owned' = [owned EXCEPT ![c] = @ \cup {k}]
       /\ pc' = [pc EXCEPT ![c] = IF want[c] = {k} THEN "holding" ELSE "acquiring"]
  /\ UNCHANGED <<kernel, record, polls, pending, probe>>

(* Mutant: the whole set counts as owned after its first key. *)
WriteRecordOwnsSet(c) ==
  /\ pc[c] = "truncated"
  /\ \E k \in Key : First(want[c], k) /\ record' = [record EXCEPT ![k] = c]
  /\ owned' = [owned EXCEPT ![c] = @ \cup want[c]]
  /\ want' = [want EXCEPT ![c] = {}]
  /\ pc' = [pc EXCEPT ![c] = "holding"]
  /\ UNCHANGED <<kernel, polls, pending, probe>>

(* The record is written and synced; only then is the lock owned. *)
WriteRecord(c) ==
  /\ pc[c] = "truncated"
  /\ \E k \in Key :
       /\ First(want[c], k)
       /\ record' = [record EXCEPT ![k] = c]
       /\ want' = [want EXCEPT ![c] = @ \ {k}]
       /\ owned' = [owned EXCEPT ![c] = @ \cup {k}]
       /\ pc' = [pc EXCEPT ![c] = IF want[c] = {k} THEN "holding"
                                                   ELSE "acquiring"]
  /\ UNCHANGED <<kernel, polls, pending, probe>>

(* Mutant: a failed acquisition keeps the handle open. *)
RecordFailsOpen(c) ==
  /\ pc[c] \in {"flocked", "truncated"}
  /\ want' = [want EXCEPT ![c] = {}]
  /\ pending' = [pending EXCEPT ![c] = owned[c]]
  /\ pc' = [pc EXCEPT ![c] = "releasing"]
  /\ UNCHANGED <<kernel, record, polls, owned, probe>>

(* Any error after the flock closes the handle, which drops the flock; a   *)
(* lock set then rolls back the locks it already owns.                     *)
RecordFails(c) ==
  /\ pc[c] \in {"flocked", "truncated"}
  /\ \E k \in Key : /\ First(want[c], k)
                    /\ kernel' = [kernel EXCEPT ![k] = None]
  /\ want' = [want EXCEPT ![c] = {}]
  /\ pending' = [pending EXCEPT ![c] = owned[c]]
  /\ pc' = [pc EXCEPT ![c] = "releasing"]
  /\ UNCHANGED <<record, polls, owned, probe>>

(* Cancellation or the deadline, seen by a polling acquisition between two *)
(* attempts: the locks acquired so far are rolled back.                    *)
GiveUp(c) ==
  /\ pc[c] = "acquiring" /\ polls[c]
  /\ want' = [want EXCEPT ![c] = {}]
  /\ pending' = [pending EXCEPT ![c] = owned[c]]
  /\ pc' = [pc EXCEPT ![c] = "releasing"]
  /\ UNCHANGED <<kernel, record, polls, owned, probe>>

-----------------------------------------------------------------------------
(* Release *)

(* The operation is over, or retries a release that failed before. *)
BeginRelease(c) ==
  /\ pc[c] \in {"holding", "retained"}
  /\ pending' = [pending EXCEPT ![c] = owned[c]]
  /\ pc' = [pc EXCEPT ![c] = "releasing"]
  /\ UNCHANGED <<kernel, record, polls, want, owned, probe>>

(* One iteration of ProjectLockSet.release: flock(LOCK_UN) works and the   *)
(* handle is dropped, or it fails and the lock stays owned.  The record    *)
(* stays in the file either way.                                           *)
ReleaseOne(c) ==
  /\ pc[c] = "releasing"
  /\ \E k \in Key :
       /\ Last(pending[c], k)
       /\ pending' = [pending EXCEPT ![c] = @ \ {k}]
       /\ \/ /\ kernel' = [kernel EXCEPT ![k] = None]
             /\ owned' = [owned EXCEPT ![c] = @ \ {k}]
          \/ UNCHANGED <<kernel, owned>>
  /\ UNCHANGED <<record, pc, polls, want, probe>>

(* ProjectLockSetError hands the still-owned locks to the caller. *)
EndRelease(c) ==
  /\ pc[c] = "releasing" /\ pending[c] = {}
  /\ pc' = [pc EXCEPT ![c] = IF owned[c] = {} THEN "idle" ELSE "retained"]
  /\ UNCHANGED <<kernel, record, polls, want, owned, pending, probe>>

-----------------------------------------------------------------------------
(* Processes *)

(* The kernel closes the files of a dead process; nothing else cleans up. *)
Die(c) ==
  /\ pc[c] # "dead"
  /\ kernel' = [k \in Key |-> IF kernel[k] = c THEN None ELSE kernel[k]]
  /\ want' = [want EXCEPT ![c] = {}]
  /\ owned' = [owned EXCEPT ![c] = {}]
  /\ pending' = [pending EXCEPT ![c] = {}]
  /\ pc' = [pc EXCEPT ![c] = "dead"]
  /\ UNCHANGED <<record, polls, probe>>

Restart(c) ==
  /\ pc[c] = "dead"
  /\ pc' = [pc EXCEPT ![c] = "idle"]
  /\ UNCHANGED <<kernel, record, polls, want, owned, pending, probe>>

(* inspect_lock_path finds the key busy (no change) or holds it briefly. *)
ProbeFree(i) ==
  /\ probe[i] = None
  /\ \E k \in Key : /\ kernel[k] = None
                    /\ kernel' = [kernel EXCEPT ![k] = i]
                    /\ probe' = [probe EXCEPT ![i] = k]
  /\ UNCHANGED <<record, pc, polls, want, owned, pending>>

ProbeDone(i) ==
  /\ probe[i] # None
  /\ kernel' = [kernel EXCEPT ![probe[i]] = None]
  /\ probe' = [probe EXCEPT ![i] = None]
  /\ UNCHANGED <<record, pc, polls, want, owned, pending>>

Next ==
  \/ \E c \in Client : \/ Start(c) \/ Flock(c) \/ Busy(c) \/ Truncate(c)
                       \/ WriteRecord(c) \/ RecordFails(c) \/ GiveUp(c)
                       \/ BeginRelease(c) \/ ReleaseOne(c) \/ EndRelease(c)
                       \/ Die(c) \/ Restart(c)
  \/ \E i \in Inspector : ProbeFree(i) \/ ProbeDone(i)

Spec == Init /\ [][Next]_vars

-----------------------------------------------------------------------------
(* Correctness *)

(* The kernel lock and the Python objects agree: an owned key is flocked   *)
(* by its owner, and every flock a client holds belongs to a key it owns   *)
(* or is just acquiring.  So a failed acquisition, a rolled back set and a *)
(* finished release leave no flock behind.                                 *)
OwnedExactlyFlocked ==
  \A c \in Client, k \in Key :
    /\ k \in owned[c] => kernel[k] = c
    /\ kernel[k] = c => \/ k \in owned[c]
                        \/ pc[c] \in {"flocked", "truncated"} /\ First(want[c], k)

(* Two operations never own the same project, a lock set that failed to    *)
(* release included.                                                       *)
MutualExclusion ==
  \A c, d \in Client : c # d => owned[c] \cap owned[d] = {}

(* The record in the file of an owned lock names its owner, although stale *)
(* records of released and dead owners stay in the files.                  *)
OwnerIsRecorded ==
  \A c \in Client : \A k \in owned[c] : record[k] = c

(* A client waits for k while another client has its flock. *)
Blocked(c, d) == /\ pc[c] = "acquiring"
                 /\ \E k \in Key : First(want[c], k) /\ kernel[k] = d

(* No set of polling operations waits for itself, whatever projects they   *)
(* were asked to lock together: acquisition is in sorted order.            *)
NoCircularWait ==
  \A B \in SUBSET Client : B # {} => ~ \A c \in B : \E d \in B : Blocked(c, d)

(* The promise: owner[k] is the client whose ProjectLock on k is owned. *)
OwnerOf(k) == IF \E c \in Client : k \in owned[c]
              THEN CHOOSE c \in Client : k \in owned[c]
              ELSE None

Exclusion == INSTANCE ProjectExclusion WITH owner <- [k \in Key |-> OwnerOf(k)]

(* Every behaviour of the locks is one the promise allows. *)
ImplementsExclusion == Exclusion!Spec
=============================================================================
