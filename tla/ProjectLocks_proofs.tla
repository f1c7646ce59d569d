------------------------ MODULE ProjectLocks_proofs ------------------------
(***************************************************************************)
(* Proofs about ProjectLocks, for any number of operations, inspectors and *)
(* project keys; then about StateRetention, whose trash and clean-up go by *)
(* these locks; about ConfigWrite, the step of a lock's holder whose       *)
(* rivals do not know the lock, for any files of outside writers and any   *)
(* number of outside edits, interrupts and system errors; and at the end   *)
(* about PublishTransfer, whose helpers take turns by the lock of the      *)
(* remote host, for any transfers of any generations and any number of     *)
(* attempts to discard a plan.                                             *)
(***************************************************************************)
EXTENDS ProjectLocks, StateRetention, ConfigWrite, PublishTransfer, TLAPS,
        WellFoundedInduction

(* Where an operation is determines what it wants, owns and has left to    *)
(* release; the keys it owns come before the keys it still wants.          *)
PhaseOK ==
  \A c \in Client :
    /\ pending[c] \subseteq owned[c]
    /\ pc[c] \notin {"acquiring", "flocked", "truncated"} => want[c] = {}
    /\ pc[c] \in {"idle", "dead"} => owned[c] = {}
    /\ pc[c] \in {"acquiring", "flocked", "truncated"} /\ ~polls[c] =>
         owned[c] = {} /\ \E k \in Key : want[c] = {k}
    /\ \A k \in owned[c], j \in want[c] : k < j
    /\ pc[c] \in {"flocked", "truncated"} =>
         \E k \in Key : First(want[c], k) /\ kernel[k] = c

(* An inspector holds exactly the flock it is probing. *)
ProbesFlocked == \A i \in Inspector, k \in Key : kernel[k] = i <=> probe[i] = k

IInv == /\ TypeOK
        /\ OwnedExactlyFlocked
        /\ OwnerIsRecorded
        /\ PhaseOK
        /\ ProbesFlocked

LEMMA FirstUnique ==
  ASSUME NEW S \in SUBSET Key, NEW j, NEW k, First(S, j), First(S, k)
  PROVE  j = k
BY KeysAssumption DEF First, Key

LEMMA LastInSet ==
  ASSUME NEW S, NEW k, Last(S, k)
  PROVE  k \in S
BY DEF Last

USE AgentsAssumption, KeysAssumption

LEMMA InitIInv == Init => IInv
BY DEF Init, IInv, TypeOK, OwnedExactlyFlocked, OwnerIsRecorded, PhaseOK,
       ProbesFlocked, Agent, Phase, Key

LEMMA NextTypeOK == TypeOK /\ [Next]_vars => TypeOK'
<1> SUFFICES ASSUME TypeOK, [Next]_vars PROVE TypeOK'
  OBVIOUS
<1> USE DEF TypeOK, Agent, Phase
<1>1. ASSUME NEW c \in Client, Start(c) PROVE TypeOK'
  BY <1>1 DEF Start
<1>2. ASSUME NEW c \in Client, Flock(c) PROVE TypeOK'
  BY <1>2 DEF Flock
<1>3. ASSUME NEW c \in Client, Busy(c) PROVE TypeOK'
  BY <1>3 DEF Busy
<1>4. ASSUME NEW c \in Client, Truncate(c) PROVE TypeOK'
  BY <1>4 DEF Truncate
<1>5. ASSUME NEW c \in Client, WriteRecord(c) PROVE TypeOK'
  BY <1>5 DEF WriteRecord
<1>6. ASSUME NEW c \in Client, RecordFails(c) PROVE TypeOK'
  BY <1>6 DEF RecordFails
<1>7. ASSUME NEW c \in Client, GiveUp(c) PROVE TypeOK'
  BY <1>7 DEF GiveUp
<1>8. ASSUME NEW c \in Client, BeginRelease(c) PROVE TypeOK'
  BY <1>8 DEF BeginRelease
<1>9. ASSUME NEW c \in Client, ReleaseOne(c) PROVE TypeOK'
  BY <1>9 DEF ReleaseOne
<1>10. ASSUME NEW c \in Client, EndRelease(c) PROVE TypeOK'
  BY <1>10 DEF EndRelease
<1>11. ASSUME NEW c \in Client, Die(c) PROVE TypeOK'
  BY <1>11 DEF Die
<1>12. ASSUME NEW c \in Client, Restart(c) PROVE TypeOK'
  BY <1>12 DEF Restart
<1>13. ASSUME NEW i \in Inspector, ProbeFree(i) PROVE TypeOK'
  BY <1>13 DEF ProbeFree
<1>14. ASSUME NEW i \in Inspector, ProbeDone(i) PROVE TypeOK'
  BY <1>14 DEF ProbeDone
<1>15. CASE UNCHANGED vars
  BY <1>15 DEF vars
<1> QED
  BY <1>1, <1>2, <1>3, <1>4, <1>5, <1>6, <1>7, <1>8, <1>9, <1>10, <1>11,
     <1>12, <1>13, <1>14, <1>15 DEF Next

(* Only the actions that touch a flock, an owner record or an ownership    *)
(* set can disturb the four relational conjuncts.                          *)
LEMMA NextIInv == IInv /\ [Next]_vars => IInv'
<1> SUFFICES ASSUME IInv, [Next]_vars PROVE IInv'
  OBVIOUS
<1>0. TypeOK'
  BY NextTypeOK DEF IInv
<1> DEFINE Rel == OwnedExactlyFlocked /\ OwnerIsRecorded /\ PhaseOK /\ ProbesFlocked
<1> SUFFICES Rel'
  BY <1>0 DEF IInv
<1> USE <1>0 DEF IInv, TypeOK, Agent, Phase
<1>1. ASSUME NEW c \in Client, Start(c) PROVE Rel'
  <2> USE <1>1 DEF Start
  <2>1. OwnedExactlyFlocked'
    BY FirstUnique, LastInSet DEF OwnedExactlyFlocked, PhaseOK, ProbesFlocked, First, Key
  <2>2. OwnerIsRecorded'
    BY FirstUnique DEF OwnedExactlyFlocked, OwnerIsRecorded, PhaseOK, First, Key
  <2>3. PhaseOK'
    <3>1. PICK S \in SUBSET Key, b \in BOOLEAN :
            /\ S # {}
            /\ b \/ \E k \in Key : S = {k}
            /\ want' = [want EXCEPT ![c] = S]
            /\ polls' = [polls EXCEPT ![c] = b]
      OBVIOUS
    <3>2. owned[c] = {}
      BY DEF PhaseOK
    <3>3. ~polls'[c] => \E k \in Key : want'[c] = {k}
      BY <3>1
    <3> QED BY <3>1, <3>2, <3>3 DEF PhaseOK
  <2>4. ProbesFlocked'
    BY FirstUnique, LastInSet DEF OwnedExactlyFlocked, PhaseOK, ProbesFlocked, Key
  <2> QED BY <2>1, <2>2, <2>3, <2>4
<1>2. ASSUME NEW c \in Client, Flock(c) PROVE Rel'
  <2> USE <1>2 DEF Flock
  <2>1. OwnedExactlyFlocked'
    BY FirstUnique, LastInSet DEF OwnedExactlyFlocked, PhaseOK, ProbesFlocked, First, Key
  <2>2. OwnerIsRecorded'
    BY FirstUnique DEF OwnedExactlyFlocked, OwnerIsRecorded, PhaseOK, First, Key
  <2>3. PhaseOK'
    BY FirstUnique, LastInSet DEF OwnedExactlyFlocked, PhaseOK, ProbesFlocked, First, Key
  <2>4. ProbesFlocked'
    BY FirstUnique, LastInSet DEF OwnedExactlyFlocked, PhaseOK, ProbesFlocked, Key
  <2> QED BY <2>1, <2>2, <2>3, <2>4
<1>3. ASSUME NEW c \in Client, Busy(c) PROVE Rel'
  <2> USE <1>3 DEF Busy
  <2>1. OwnedExactlyFlocked'
    BY FirstUnique, LastInSet DEF OwnedExactlyFlocked, PhaseOK, ProbesFlocked, First, Key
  <2>2. OwnerIsRecorded'
    BY FirstUnique DEF OwnedExactlyFlocked, OwnerIsRecorded, PhaseOK, First, Key
  <2>3. PhaseOK'
    BY FirstUnique, LastInSet DEF OwnedExactlyFlocked, PhaseOK, ProbesFlocked, First, Key
  <2>4. ProbesFlocked'
    BY FirstUnique, LastInSet DEF OwnedExactlyFlocked, PhaseOK, ProbesFlocked, Key
  <2> QED BY <2>1, <2>2, <2>3, <2>4
<1>4. ASSUME NEW c \in Client, Truncate(c) PROVE Rel'
  <2> USE <1>4 DEF Truncate
  <2>1. OwnedExactlyFlocked'
    BY FirstUnique, LastInSet DEF OwnedExactlyFlocked, PhaseOK, ProbesFlocked, First, Key
  <2>2. OwnerIsRecorded'
    BY FirstUnique DEF OwnedExactlyFlocked, OwnerIsRecorded, PhaseOK, First, Key
  <2>3. PhaseOK'
    BY FirstUnique, LastInSet DEF OwnedExactlyFlocked, PhaseOK, ProbesFlocked, First, Key
  <2>4. ProbesFlocked'
    BY FirstUnique, LastInSet DEF OwnedExactlyFlocked, PhaseOK, ProbesFlocked, Key
  <2> QED BY <2>1, <2>2, <2>3, <2>4
<1>5. ASSUME NEW c \in Client, WriteRecord(c) PROVE Rel'
  <2> USE <1>5 DEF WriteRecord
  <2>1. OwnedExactlyFlocked'
    BY FirstUnique, LastInSet DEF OwnedExactlyFlocked, PhaseOK, ProbesFlocked, First, Key
  <2>2. OwnerIsRecorded'
    BY FirstUnique DEF OwnedExactlyFlocked, OwnerIsRecorded, PhaseOK, First, Key
  <2>3. PhaseOK'
    <3>1. PICK k \in Key :
            /\ First(want[c], k)
            /\ want' = [want EXCEPT ![c] = @ \ {k}]
            /\ owned' = [owned EXCEPT ![c] = @ \cup {k}]
            /\ pc' = [pc EXCEPT ![c] = IF want[c] = {k} THEN "holding"
                                                        ELSE "acquiring"]
      OBVIOUS
    <3>2. \A j \in owned'[c], l \in want'[c] : j < l
      BY <3>1 DEF PhaseOK, First, Key
    <3>3. ~polls[c] => want[c] = {k}
      BY <3>1 DEF PhaseOK, First
    <3>4. k \in want[c]
      BY <3>1 DEF First
    <3> QED BY <3>1, <3>2, <3>3, <3>4 DEF PhaseOK
  <2>4. ProbesFlocked'
    BY FirstUnique, LastInSet DEF OwnedExactlyFlocked, PhaseOK, ProbesFlocked, Key
  <2> QED BY <2>1, <2>2, <2>3, <2>4
<1>6. ASSUME NEW c \in Client, RecordFails(c) PROVE Rel'
  <2> USE <1>6 DEF RecordFails
  <2>1. OwnedExactlyFlocked'
    BY FirstUnique, LastInSet DEF OwnedExactlyFlocked, PhaseOK, ProbesFlocked, First, Key
  <2>2. OwnerIsRecorded'
    BY FirstUnique DEF OwnedExactlyFlocked, OwnerIsRecorded, PhaseOK, First, Key
  <2>3. PhaseOK'
    BY FirstUnique, LastInSet DEF OwnedExactlyFlocked, PhaseOK, ProbesFlocked, First, Key
  <2>4. ProbesFlocked'
    BY FirstUnique, LastInSet DEF OwnedExactlyFlocked, PhaseOK, ProbesFlocked, Key
  <2> QED BY <2>1, <2>2, <2>3, <2>4
<1>7. ASSUME NEW c \in Client, GiveUp(c) PROVE Rel'
  <2> USE <1>7 DEF GiveUp
  <2>1. OwnedExactlyFlocked'
    BY FirstUnique, LastInSet DEF OwnedExactlyFlocked, PhaseOK, ProbesFlocked, First, Key
  <2>2. OwnerIsRecorded'
    BY FirstUnique DEF OwnedExactlyFlocked, OwnerIsRecorded, PhaseOK, First, Key
  <2>3. PhaseOK'
    BY FirstUnique, LastInSet DEF OwnedExactlyFlocked, PhaseOK, ProbesFlocked, First, Key
  <2>4. ProbesFlocked'
    BY FirstUnique, LastInSet DEF OwnedExactlyFlocked, PhaseOK, ProbesFlocked, Key
  <2> QED BY <2>1, <2>2, <2>3, <2>4
<1>8. ASSUME NEW c \in Client, BeginRelease(c) PROVE Rel'
  <2> USE <1>8 DEF BeginRelease
  <2>1. OwnedExactlyFlocked'
    BY FirstUnique, LastInSet DEF OwnedExactlyFlocked, PhaseOK, ProbesFlocked, First, Key
  <2>2. OwnerIsRecorded'
    BY FirstUnique DEF OwnedExactlyFlocked, OwnerIsRecorded, PhaseOK, First, Key
  <2>3. PhaseOK'
    BY FirstUnique, LastInSet DEF OwnedExactlyFlocked, PhaseOK, ProbesFlocked, First, Key
  <2>4. ProbesFlocked'
    BY FirstUnique, LastInSet DEF OwnedExactlyFlocked, PhaseOK, ProbesFlocked, Key
  <2> QED BY <2>1, <2>2, <2>3, <2>4
<1>9. ASSUME NEW c \in Client, ReleaseOne(c) PROVE Rel'
  <2>. PICK k \in Key :
         /\ Last(pending[c], k)
         /\ pending' = [pending EXCEPT ![c] = @ \ {k}]
         /\ \/ /\ kernel' = [kernel EXCEPT ![k] = None]
               /\ owned' = [owned EXCEPT ![c] = @ \ {k}]
            \/ UNCHANGED <<kernel, owned>>
    BY <1>9 DEF ReleaseOne
  <2>0. pc[c] = "releasing" /\ UNCHANGED <<record, pc, polls, want, probe>>
    BY <1>9 DEF ReleaseOne
  <2>1. \A d \in Client : /\ owned'[d] \subseteq owned[d]
                          /\ d # c => owned'[d] = owned[d] /\ pending'[d] = pending[d]
    OBVIOUS
  <2>2. kernel[k] = c
    BY LastInSet DEF OwnedExactlyFlocked, PhaseOK
  <2>3. \A j \in Key \ {k} : kernel'[j] = kernel[j]
    OBVIOUS
  <2>4. OwnedExactlyFlocked'
    BY <2>0, <2>2 DEF OwnedExactlyFlocked
  <2>5. OwnerIsRecorded'
    BY <2>0, <2>1 DEF OwnerIsRecorded
  <2>6. pending'[c] \subseteq owned'[c]
    BY DEF PhaseOK
  <2>7. PhaseOK'
    <3> SUFFICES ASSUME NEW d \in Client PROVE PhaseOK!(d)'
      BY DEF PhaseOK
    <3>1. CASE d = c
      BY <2>0, <2>1, <2>6, <3>1 DEF PhaseOK
    <3>2. CASE d # c
      <4>1. \A j \in Key : kernel[j] = d => kernel'[j] = d
        BY <2>2, <2>3, <3>2
      <4> QED BY <2>0, <2>1, <3>2, <4>1 DEF PhaseOK
    <3> QED BY <3>1, <3>2
  <2>8. ProbesFlocked'
    BY <2>0, <2>2 DEF ProbesFlocked
  <2> QED BY <2>4, <2>5, <2>7, <2>8
<1>10. ASSUME NEW c \in Client, EndRelease(c) PROVE Rel'
  <2> USE <1>10 DEF EndRelease
  <2>1. OwnedExactlyFlocked'
    BY FirstUnique, LastInSet DEF OwnedExactlyFlocked, PhaseOK, ProbesFlocked, First, Key
  <2>2. OwnerIsRecorded'
    BY FirstUnique DEF OwnedExactlyFlocked, OwnerIsRecorded, PhaseOK, First, Key
  <2>3. PhaseOK'
    BY FirstUnique, LastInSet DEF OwnedExactlyFlocked, PhaseOK, ProbesFlocked, First, Key
  <2>4. ProbesFlocked'
    BY FirstUnique, LastInSet DEF OwnedExactlyFlocked, PhaseOK, ProbesFlocked, Key
  <2> QED BY <2>1, <2>2, <2>3, <2>4
<1>11. ASSUME NEW c \in Client, Die(c) PROVE Rel'
  <2> USE <1>11 DEF Die
  <2>1. OwnedExactlyFlocked'
    BY FirstUnique, LastInSet DEF OwnedExactlyFlocked, PhaseOK, ProbesFlocked, First, Key
  <2>2. OwnerIsRecorded'
    BY FirstUnique DEF OwnedExactlyFlocked, OwnerIsRecorded, PhaseOK, First, Key
  <2>3. PhaseOK'
    BY FirstUnique, LastInSet DEF OwnedExactlyFlocked, PhaseOK, ProbesFlocked, First, Key
  <2>4. ProbesFlocked'
    BY FirstUnique, LastInSet DEF OwnedExactlyFlocked, PhaseOK, ProbesFlocked, Key
  <2> QED BY <2>1, <2>2, <2>3, <2>4
<1>12. ASSUME NEW c \in Client, Restart(c) PROVE Rel'
  <2> USE <1>12 DEF Restart
  <2>1. OwnedExactlyFlocked'
    BY FirstUnique, LastInSet DEF OwnedExactlyFlocked, PhaseOK, ProbesFlocked, First, Key
  <2>2. OwnerIsRecorded'
    BY FirstUnique DEF OwnedExactlyFlocked, OwnerIsRecorded, PhaseOK, First, Key
  <2>3. PhaseOK'
    BY FirstUnique, LastInSet DEF OwnedExactlyFlocked, PhaseOK, ProbesFlocked, First, Key
  <2>4. ProbesFlocked'
    BY FirstUnique, LastInSet DEF OwnedExactlyFlocked, PhaseOK, ProbesFlocked, Key
  <2> QED BY <2>1, <2>2, <2>3, <2>4
<1>13. ASSUME NEW i \in Inspector, ProbeFree(i) PROVE Rel'
  <2> USE <1>13 DEF ProbeFree
  <2>1. OwnedExactlyFlocked'
    BY FirstUnique, LastInSet DEF OwnedExactlyFlocked, PhaseOK, ProbesFlocked, First, Key
  <2>2. OwnerIsRecorded'
    BY FirstUnique DEF OwnedExactlyFlocked, OwnerIsRecorded, PhaseOK, First, Key
  <2>3. PhaseOK'
    BY FirstUnique, LastInSet DEF OwnedExactlyFlocked, PhaseOK, ProbesFlocked, First, Key
  <2>4. ProbesFlocked'
    BY FirstUnique, LastInSet DEF OwnedExactlyFlocked, PhaseOK, ProbesFlocked, Key
  <2> QED BY <2>1, <2>2, <2>3, <2>4
<1>14. ASSUME NEW i \in Inspector, ProbeDone(i) PROVE Rel'
  <2> USE <1>14 DEF ProbeDone
  <2>1. OwnedExactlyFlocked'
    BY FirstUnique, LastInSet DEF OwnedExactlyFlocked, PhaseOK, ProbesFlocked, First, Key
  <2>2. OwnerIsRecorded'
    BY FirstUnique DEF OwnedExactlyFlocked, OwnerIsRecorded, PhaseOK, First, Key
  <2>3. PhaseOK'
    BY FirstUnique, LastInSet DEF OwnedExactlyFlocked, PhaseOK, ProbesFlocked, First, Key
  <2>4. ProbesFlocked'
    BY FirstUnique, LastInSet DEF OwnedExactlyFlocked, PhaseOK, ProbesFlocked, Key
  <2> QED BY <2>1, <2>2, <2>3, <2>4
<1>15. CASE UNCHANGED vars
  BY <1>15 DEF vars, OwnedExactlyFlocked, OwnerIsRecorded, PhaseOK, ProbesFlocked, First
<1> QED
  BY <1>1, <1>2, <1>3, <1>4, <1>5, <1>6, <1>7, <1>8, <1>9, <1>10, <1>11, <1>12, <1>13, <1>14, <1>15 DEF Next

(* The state predicates below hold in every reachable state, whatever the  *)
(* number of operations, inspectors and project keys.                      *)
THEOREM LockInvariant == Spec => []IInv
BY InitIInv, NextIInv, PTL DEF Spec

(* Type correctness of the lock model. *)
THEOREM TypeCorrect == Spec => []TypeOK
BY LockInvariant, PTL DEF IInv

(* The kernel's flocks and the operations' lock objects never diverge: no  *)
(* failed acquisition, rollback or release leaves a flock behind.          *)
THEOREM FlocksMatchOwners == Spec => []OwnedExactlyFlocked
BY LockInvariant, PTL DEF IInv

(* The owner record of an owned lock names its owner. *)
THEOREM RecordNamesOwner == Spec => []OwnerIsRecorded
BY LockInvariant, PTL DEF IInv

LEMMA FlockedApart == IInv => MutualExclusion
BY DEF IInv, TypeOK, OwnedExactlyFlocked, MutualExclusion

(* Two operations never own the same project. *)
THEOREM Exclusive == Spec => []MutualExclusion
BY LockInvariant, FlockedApart, PTL

(* In a set of clients that all wait for members of the set, the one       *)
(* waiting for the highest key waits for somebody who waits higher still.  *)
LEMMA SortedNoCycle == IInv => NoCircularWait
<1> SUFFICES ASSUME IInv, NEW B \in SUBSET Client, B # {},
                    \A c \in B : \E d \in B : Blocked(c, d)
             PROVE  FALSE
  BY DEF NoCircularWait
<1> USE DEF IInv, TypeOK
<1> DEFINE T == {Keys - k : k \in {j \in Key : \E c \in B : pc[c] = "acquiring"
                                                      /\ First(want[c], j)}}
<1>0. PICK d0 \in B, k0 \in Key : pc[d0] = "acquiring" /\ First(want[d0], k0)
  BY DEF Blocked
<1>1. T \subseteq Nat /\ Keys - k0 \in T
  BY <1>0 DEF Key
<1>2. PICK x \in T : \A y \in T : ~ (<<y, x>> \in OpToRel(<, Nat))
  BY <1>1, WFMin, NatLessThanWellFounded, ZenonT(30)
<1>3. PICK k \in Key, c \in B : x = Keys - k /\ pc[c] = "acquiring" /\ First(want[c], k)
  BY <1>2, ZenonT(30)
<1>4. PICK d \in B, j \in Key : First(want[c], j) /\ kernel[j] = d
  BY <1>3 DEF Blocked
<1>5. kernel[k] = d
  BY <1>3, <1>4, FirstUnique
<1>6. PICK e \in B, l \in Key : pc[d] = "acquiring" /\ First(want[d], l) /\ kernel[l] = e
  BY DEF Blocked
<1>7. k \in owned[d]
  BY <1>5, <1>6 DEF OwnedExactlyFlocked
<1>8. k < l
  BY <1>6, <1>7 DEF PhaseOK, First
<1>9. Keys - l \in T /\ Keys - l < Keys - k /\ Keys - l \in Nat /\ Keys - k \in Nat
  BY <1>6, <1>8 DEF Key
<1> QED BY <1>2, <1>3, <1>9 DEF OpToRel

(* Operations that poll for several projects never wait in a circle. *)
THEOREM NoDeadlockedSets == Spec => []NoCircularWait
BY LockInvariant, SortedNoCycle, PTL

(* With exclusive ownership, OwnerOf names the client that owns a key. *)
Names(who, k, sets) == /\ who \in Client \cup {None}
                       /\ \A c \in Client : who = c <=> k \in sets[c]

LEMMA OwnerIs ==
  ASSUME MutualExclusion, NEW k \in Key, owned \in [Client -> SUBSET Key]
  PROVE  Names(OwnerOf(k), k, owned)
BY Zenon DEF MutualExclusion, OwnerOf, Names

(* A step that leaves the ownership sets alone is a stutter of the promise. *)
LEMMA SameOwners ==
  ASSUME owned' = owned
  PROVE  UNCHANGED [k \in Key |-> OwnerOf(k)]
BY DEF OwnerOf

LEMMA StepImplements ==
  IInv /\ IInv' /\ [Next]_vars => [Exclusion!Next]_[k \in Key |-> OwnerOf(k)]
<1> SUFFICES ASSUME IInv, IInv', [Next]_vars
             PROVE  Exclusion!Next \/ UNCHANGED [k \in Key |-> OwnerOf(k)]
  OBVIOUS
<1> DEFINE own == [k \in Key |-> OwnerOf(k)]
           new == [k \in Key |-> OwnerOf(k)']
<1>0. MutualExclusion /\ MutualExclusion'
  BY FlockedApart DEF IInv, TypeOK, OwnedExactlyFlocked, MutualExclusion
<1>1. owned \in [Client -> SUBSET Key] /\ owned' \in [Client -> SUBSET Key]
  BY DEF IInv, TypeOK
<1>2. \A k \in Key : Names(own[k], k, owned)
  BY <1>0, <1>1, OwnerIs
<1>3. \A k \in Key : Names(new[k], k, owned')
  BY <1>0, <1>1 DEF MutualExclusion, OwnerOf, Names
<1>4. own' = new /\ DOMAIN own = Key /\ DOMAIN new = Key
  OBVIOUS
<1> HIDE DEF own, new
<1>5. own \in [Key -> Client \cup {None}] /\ new \in [Key -> Client \cup {None}]
  BY <1>2, <1>3, <1>4 DEF Names, own, new
<1>6. ASSUME NEW c \in Client, WriteRecord(c) PROVE Exclusion!Next
  <2>1. PICK k \in Key : /\ First(want[c], k)
                         /\ owned' = [owned EXCEPT ![c] = @ \cup {k}]
    BY <1>6 DEF WriteRecord
  <2>2. \A d \in Client : k \notin owned[d]
    <3>1. pc[c] = "truncated" /\ kernel[k] = c
      BY <1>6, <2>1, FirstUnique DEF WriteRecord, IInv, PhaseOK, TypeOK
    <3>2. k \notin owned[c]
      BY <2>1 DEF IInv, PhaseOK, First, Key
    <3> QED BY <3>1, <3>2 DEF IInv, OwnedExactlyFlocked
  <2>3. own[k] = None
    BY <1>2, <2>2 DEF Names
  <2>4. \A j \in Key : new[j] = IF j = k THEN c ELSE own[j]
    BY <1>1, <1>2, <1>3, <2>1, <2>2 DEF Names
  <2>5. new = [own EXCEPT ![k] = c]
    BY <1>5, <2>4
  <2> QED BY <1>4, <2>3, <2>5 DEF Exclusion!Next, Exclusion!Acquire, own
<1>7. ASSUME NEW c \in Client, ReleaseOne(c) PROVE Exclusion!Next \/ new = own
  <2>1. PICK k \in Key : /\ k \in owned[c]
                         /\ \/ owned' = [owned EXCEPT ![c] = @ \ {k}]
                            \/ owned' = owned
    BY <1>7 DEF ReleaseOne, IInv, PhaseOK, Last
  <2>2. CASE owned' = owned
    BY <1>4, <2>2, SameOwners DEF own
  <2>3. CASE owned' = [owned EXCEPT ![c] = @ \ {k}]
    <3>1. own[k] = c
      BY <1>2, <2>1 DEF Names
    <3>2. \A d \in Client : d # c => k \notin owned[d]
      BY <1>0, <2>1 DEF MutualExclusion
    <3>3. \A j \in Key : new[j] = IF j = k THEN None ELSE own[j]
      BY <1>1, <1>2, <1>3, <2>1, <2>3, <3>2 DEF Names
    <3>4. new = [own EXCEPT ![k] = None]
      BY <1>5, <3>3
    <3> QED BY <1>4, <3>1, <3>4 DEF Exclusion!Next, Exclusion!Release, own
  <2> QED BY <2>1, <2>2, <2>3
<1>8. ASSUME NEW c \in Client, Die(c) PROVE Exclusion!Next
  <2>1. owned' = [owned EXCEPT ![c] = {}]
    BY <1>8 DEF Die
  <2>2. \A k \in Key : new[k] = IF own[k] = c THEN None ELSE own[k]
    BY <1>1, <1>2, <1>3, <2>1 DEF Names
  <2>3. new = [k \in Key |-> IF own[k] = c THEN None ELSE own[k]]
    BY <1>5, <2>2
  <2> QED BY <1>4, <2>3 DEF Exclusion!Next, Exclusion!Vanish, own
<1>9. ASSUME owned' = owned PROVE new = own
  BY <1>4, <1>9, SameOwners DEF own
<1> QED
  BY <1>4, <1>6, <1>7, <1>8, <1>9
     DEF Next, vars, Start, Flock, Busy, Truncate, RecordFails, GiveUp,
         BeginRelease, EndRelease, Restart, ProbeFree, ProbeDone, own

(* The detailed locks implement the promise of ProjectExclusion. *)
THEOREM LocksImplementExclusion == Spec => ImplementsExclusion
<1>1. Init => Exclusion!Init
  BY DEF Init, Exclusion!Init, OwnerOf
<1>2. IInv /\ IInv' /\ [Next]_vars => [Exclusion!Next]_[k \in Key |-> OwnerOf(k)]
  BY StepImplements
<1> QED BY <1>1, <1>2, LockInvariant, PTL DEF Spec, ImplementsExclusion, Exclusion!Spec

-----------------------------------------------------------------------------
(* State retention: the trash and the clean-up of StateRetention, for any  *)
(* projects, any transaction directories of the three sorts and any number *)
(* of trash entries.  Its lock says who has the lock of a project, which   *)
(* is what the first part shows of the owners.                             *)

(* A live transaction has the lock of its project.  A leftover lock of a   *)
(* directory that was removed under its owner may outlive the directory.   *)
LiveHasLock == \A d \in Dir : Live(d) => lock[ProjectOf[d]] = d

(* What the clean-up is about to remove is an item it found, and it has    *)
(* the lock of the project that the item's name tells.                     *)
TargetIsLocked ==
  cpc = "delete" => target \in Item /\ \A p \in Named(target) : lock[p] = Cleaner

(* Only a transaction that writes a plan.json has one. *)
PlansArePlanned == \A d \in Dir : plan[d] => Sort[d] = "planned"

(* The invariant of StateRetention: the property, and what carries it. *)
RetentionIInv == ProjectStays /\ LiveHasLock /\ TargetIsLocked /\ PlansArePlanned

USE SortAssumption, TrashAssumption, NamesAssumption

(* An item that is no transaction directory is a trash entry. *)
LEMMA ItemType ==
  ASSUME NEW i \in Item, i \notin Dir
  PROVE  /\ i \in TrashPath /\ i[1] \in Project /\ i[2] \in 1..MaxTrash
         /\ i = <<i[1], i[2]>> /\ Named(i) = {i[1]}
  BY DEF Item, TrashPath, Named

(* Whoever finds the lock of a project free, or has it for the clean-up,   *)
(* knows that no transaction works on the project.                         *)
LEMMA LockKeepsOut ==
  ASSUME RetentionIInv, NEW p \in Project, lock[p] \in {Nil, Cleaner},
         NEW d \in Dir, ProjectOf[d] = p
  PROVE  ~Live(d)
  BY DEF RetentionIInv, LiveHasLock

(* It holds at first, and the state keeps its type. *)
LEMMA RetentionStarts == RetentionInit => RetentionIInv
  BY DEF RetentionInit, RetentionIInv, ProjectStays, RetentionTypeOK, LiveHasLock,
     TargetIsLocked, PlansArePlanned, Live, Root, Gone, Item

LEMMA RetentionTypes == RetentionIInv /\ [RetentionNext]_retentionVars => RetentionTypeOK'
<1> SUFFICES ASSUME RetentionIInv, [RetentionNext]_retentionVars PROVE RetentionTypeOK'
  OBVIOUS
<1>0. RetentionTypeOK
  BY DEF RetentionIInv, ProjectStays
<1> USE DEF transactions, trash, cleanup, Root, Gone
<1>1. ASSUME NEW d \in Dir, Open(d) PROVE RetentionTypeOK'
  BY <1>0, <1>1 DEF Open, RetentionTypeOK
<1>2. ASSUME NEW d \in Dir, WritePlan(d) PROVE RetentionTypeOK'
  BY <1>0, <1>2 DEF WritePlan, RetentionTypeOK
<1>3. ASSUME NEW d \in Dir, Mark(d) PROVE RetentionTypeOK'
  BY <1>0, <1>3 DEF Mark, RetentionTypeOK
<1>4. ASSUME NEW d \in Dir, Close(d) PROVE RetentionTypeOK'
  BY <1>0, <1>4 DEF Close, RetentionTypeOK
<1>5. ASSUME NEW p \in Project, TrashProject(p) PROVE RetentionTypeOK'
  BY <1>0, <1>5 DEF TrashProject, RetentionTypeOK
<1>6. ASSUME NEW p \in Project, FindEntry(p) PROVE RetentionTypeOK'
  BY <1>0, <1>6 DEF FindEntry, RetentionTypeOK, InTrash, TrashPath
<1>7. ASSUME NEW t \in finds, UseEntry(t) PROVE RetentionTypeOK'
  BY <1>0, <1>7 DEF UseEntry, RetentionTypeOK, TrashPath
<1>8. ASSUME NEW t \in finds, EntryBusy(t) PROVE RetentionTypeOK'
  BY <1>0, <1>8 DEF EntryBusy, RetentionTypeOK
<1>9. CASE BeginCleanup
  BY <1>0, <1>9 DEF BeginCleanup, RetentionTypeOK
<1>10. CASE Classify
  BY <1>0, <1>10 DEF Classify, RetentionTypeOK
<1>11. CASE Select
  BY <1>0, <1>11 DEF Select, RetentionTypeOK
<1>12. ASSUME NEW i \in Item, Lock(i) PROVE RetentionTypeOK'
  BY <1>0, <1>12 DEF Lock, RetentionTypeOK
<1>13. CASE Delete
  <2>1. home' \in [Project -> Root..Gone]
    <3>1. target \notin Dir => target[1] \in Project
      BY <1>0, <1>13, ItemType DEF Delete, RetentionIInv, TargetIsLocked
    <3> QED BY <1>0, <1>13, <3>1 DEF Delete, RetentionTypeOK
  <2>2. dir' \in [Dir -> {"absent", "open", "marked", "leftover", "completed", "removed"}]
    BY <1>0, <1>13 DEF Delete, RetentionTypeOK
  <2> QED BY <1>0, <1>13, <2>1, <2>2 DEF Delete, RetentionTypeOK
<1>14. CASE EndCleanup
  BY <1>0, <1>14 DEF EndCleanup, RetentionTypeOK
<1>15. CASE UNCHANGED retentionVars
  BY <1>0, <1>15 DEF retentionVars, RetentionTypeOK
<1> QED
  BY <1>1, <1>2, <1>3, <1>4, <1>5, <1>6, <1>7, <1>8, <1>9, <1>10, <1>11, <1>12,
     <1>13, <1>14, <1>15 DEF RetentionNext

(* The invariant is inductive: the steps that move a project or give up a  *)
(* lock are the ones that can disturb it.                                  *)
LEMMA RetentionSteps == RetentionIInv /\ [RetentionNext]_retentionVars => RetentionIInv'
<1> SUFFICES ASSUME RetentionIInv, [RetentionNext]_retentionVars PROVE RetentionIInv'
  OBVIOUS
<1> USE DEF transactions, trash, cleanup, Live
<1>0. RetentionTypeOK /\ RetentionTypeOK'
  BY RetentionTypes DEF RetentionIInv, ProjectStays
<1> DEFINE Stays == \A d \in Dir : Live(d) => home[ProjectOf[d]] = Root
<1>1. ASSUME NEW d \in Dir, Open(d) PROVE RetentionIInv'
  <2>1. Stays' /\ LiveHasLock'
    <3> SUFFICES ASSUME NEW e \in Dir, Live(e)'
                 PROVE home'[ProjectOf[e]] = Root /\ lock'[ProjectOf[e]] = e
      BY DEF LiveHasLock
    <3>1. CASE e = d
      BY <1>0, <1>1, <3>1 DEF Open, RetentionTypeOK
    <3>2. CASE e # d
      <4>1. Live(e)
        BY <1>0, <1>1, <3>2 DEF Open, RetentionTypeOK
      <4>2. ProjectOf[e] # ProjectOf[d]
        BY <1>1, <4>1, LockKeepsOut DEF Open
      <4> QED BY <1>0, <1>1, <4>1, <4>2 DEF Open, RetentionTypeOK, RetentionIInv,
                 ProjectStays, LiveHasLock
    <3> QED BY <3>1, <3>2
  <2>2. TargetIsLocked'
    BY <1>0, <1>1 DEF Open, RetentionTypeOK, RetentionIInv, TargetIsLocked, Named
  <2>3. PlansArePlanned'
    BY <1>1 DEF Open, RetentionIInv, PlansArePlanned
  <2> QED BY <1>0, <2>1, <2>2, <2>3 DEF RetentionIInv, ProjectStays
<1>2. ASSUME NEW d \in Dir, WritePlan(d) PROVE RetentionIInv'
  BY <1>0, <1>2 DEF WritePlan, RetentionTypeOK, RetentionIInv, ProjectStays,
     LiveHasLock, TargetIsLocked, PlansArePlanned
<1>3. ASSUME NEW d \in Dir, Mark(d) PROVE RetentionIInv'
  BY <1>0, <1>3 DEF Mark, RetentionTypeOK, RetentionIInv, ProjectStays, LiveHasLock,
     TargetIsLocked, PlansArePlanned
<1>4. ASSUME NEW d \in Dir, Close(d) PROVE RetentionIInv'
  <2>1. Stays' /\ LiveHasLock'
    <3> SUFFICES ASSUME NEW e \in Dir, Live(e)'
                 PROVE home'[ProjectOf[e]] = Root /\ lock'[ProjectOf[e]] = e
      BY DEF LiveHasLock
    <3>1. e # d /\ Live(e)
      BY <1>0, <1>4 DEF Close, RetentionTypeOK
    <3>2. ProjectOf[e] # ProjectOf[d]
      BY <1>4, <3>1 DEF Close, RetentionIInv, LiveHasLock
    <3> QED BY <1>0, <1>4, <3>1, <3>2 DEF Close, RetentionTypeOK, RetentionIInv,
               ProjectStays, LiveHasLock
  <2>2. TargetIsLocked'
    <3> SUFFICES ASSUME cpc = "delete", NEW p \in Named(target)
                 PROVE lock'[p] = Cleaner
      BY <1>4 DEF Close, RetentionIInv, TargetIsLocked, Named
    <3>1. lock[p] = Cleaner
      BY DEF RetentionIInv, TargetIsLocked
    <3>2. lock[ProjectOf[d]] = d
      BY <1>4 DEF Close, RetentionIInv, LiveHasLock
    <3> QED BY <1>0, <1>4, <3>1, <3>2 DEF Close, RetentionTypeOK
  <2>3. PlansArePlanned'
    BY <1>4 DEF Close, RetentionIInv, PlansArePlanned
  <2> QED BY <1>0, <2>1, <2>2, <2>3 DEF RetentionIInv, ProjectStays
<1>5. ASSUME NEW p \in Project, TrashProject(p) PROVE RetentionIInv'
  <2>1. Stays'
    <3> SUFFICES ASSUME NEW e \in Dir, Live(e) PROVE home'[ProjectOf[e]] = Root
      BY <1>5 DEF TrashProject
    <3>1. ProjectOf[e] # p
      BY <1>5, LockKeepsOut DEF TrashProject
    <3> QED BY <1>0, <1>5, <3>1 DEF TrashProject, RetentionTypeOK, RetentionIInv,
               ProjectStays
  <2> QED BY <1>0, <1>5, <2>1 DEF TrashProject, RetentionIInv, ProjectStays,
             LiveHasLock, TargetIsLocked, PlansArePlanned, Named
<1>6. ASSUME NEW p \in Project, FindEntry(p) PROVE RetentionIInv'
  BY <1>0, <1>6 DEF FindEntry, RetentionIInv, ProjectStays, LiveHasLock,
     TargetIsLocked, PlansArePlanned, Named
<1>7. ASSUME NEW t \in finds, UseEntry(t) PROVE RetentionIInv'
  <2>0. t.path[1] \in Project
    BY <1>0 DEF RetentionTypeOK, TrashPath
  <2>1. Stays'
    <3> SUFFICES ASSUME NEW e \in Dir, Live(e) PROVE home'[ProjectOf[e]] = Root
      BY <1>7 DEF UseEntry
    <3>1. ProjectOf[e] # t.path[1]
      BY <1>7, <2>0, LockKeepsOut DEF UseEntry
    <3> QED BY <1>0, <1>7, <2>0, <3>1 DEF UseEntry, RetentionTypeOK, RetentionIInv,
               ProjectStays
  <2> QED BY <1>0, <1>7, <2>1 DEF UseEntry, RetentionIInv, ProjectStays,
             LiveHasLock, TargetIsLocked, PlansArePlanned, Named
<1>8. ASSUME NEW t \in finds, EntryBusy(t) PROVE RetentionIInv'
  BY <1>0, <1>8 DEF EntryBusy, RetentionIInv, ProjectStays, LiveHasLock,
     TargetIsLocked, PlansArePlanned, Named
<1>9. CASE BeginCleanup
  BY <1>0, <1>9 DEF BeginCleanup, RetentionIInv, ProjectStays, LiveHasLock,
     TargetIsLocked, PlansArePlanned, Named
<1>10. CASE Classify
  BY <1>0, <1>10 DEF Classify, RetentionIInv, ProjectStays, LiveHasLock,
     TargetIsLocked, PlansArePlanned, Named
<1>11. CASE Select
  BY <1>0, <1>11 DEF Select, RetentionIInv, ProjectStays, LiveHasLock,
     TargetIsLocked, PlansArePlanned, Named
<1>12. ASSUME NEW i \in Item, Lock(i) PROVE RetentionIInv'
  <2>1. LiveHasLock'
    <3> SUFFICES ASSUME NEW e \in Dir, Live(e) PROVE lock'[ProjectOf[e]] = e
      BY <1>12 DEF Lock, LiveHasLock
    <3>1. lock[ProjectOf[e]] = e /\ e # Nil
      BY DEF RetentionIInv, LiveHasLock
    <3>2. CASE UNCHANGED lock
      BY <3>1, <3>2
    <3>3. CASE /\ \A p \in Named(i) : lock[p] = Nil
               /\ lock' = [p \in Project |-> IF p \in Named(i) THEN Cleaner ELSE lock[p]]
      BY <3>1, <3>3
    <3> QED BY <1>12, <3>2, <3>3 DEF Lock
  <2>2. TargetIsLocked'
    <3>1. Named(i) \in SUBSET Project
      BY ItemType DEF Named
    <3> QED BY <1>12, <3>1 DEF Lock, RetentionIInv, TargetIsLocked, Named
  <2> QED BY <1>0, <1>12, <2>1, <2>2 DEF Lock, RetentionIInv, ProjectStays,
             PlansArePlanned
<1>13. CASE Delete
  <2>0. target \in Item /\ \A p \in Named(target) : lock[p] = Cleaner
    BY <1>13 DEF Delete, RetentionIInv, TargetIsLocked
  <2>1. Stays' /\ LiveHasLock'
    <3> SUFFICES ASSUME NEW e \in Dir, Live(e)'
                 PROVE home'[ProjectOf[e]] = Root /\ lock'[ProjectOf[e]] = e
      BY DEF LiveHasLock
    <3>1. Live(e)
      BY <1>0, <1>13 DEF Delete, RetentionTypeOK
    <3>2. home[ProjectOf[e]] = Root /\ lock[ProjectOf[e]] = e
      BY <3>1 DEF RetentionIInv, ProjectStays, LiveHasLock
    <3>3. ProjectOf[e] \notin Named(target)
      BY <2>0, <3>2
    <3>4. home'[ProjectOf[e]] = Root
      BY <1>0, <1>13, <2>0, <3>2, <3>3, ItemType DEF Delete, RetentionTypeOK
    <3> QED BY <1>13, <3>2, <3>3, <3>4 DEF Delete
  <2> QED BY <1>0, <1>13, <2>1 DEF Delete, RetentionIInv, ProjectStays,
             TargetIsLocked, PlansArePlanned
<1>14. CASE EndCleanup
  BY <1>0, <1>14 DEF EndCleanup, RetentionIInv, ProjectStays, LiveHasLock,
     TargetIsLocked, PlansArePlanned, Named
<1>15. CASE UNCHANGED retentionVars
  BY <1>0, <1>15 DEF retentionVars, RetentionIInv, ProjectStays, LiveHasLock,
     TargetIsLocked, PlansArePlanned, Named
<1> QED
  BY <1>1, <1>2, <1>3, <1>4, <1>5, <1>6, <1>7, <1>8, <1>9, <1>10, <1>11, <1>12,
     <1>13, <1>14, <1>15 DEF RetentionNext

LEMMA RetentionInvariant == RetentionSpec => []RetentionIInv
  BY RetentionStarts, RetentionSteps, PTL DEF RetentionSpec

(* The state has its type, and a project stays at its path while a         *)
(* transaction works on it, whatever is trashed, restored, purged and      *)
(* cleaned up next to it.                                                  *)
THEOREM StaysUnderTransactions == RetentionSpec => []ProjectStays
<1>1. RetentionIInv => ProjectStays
  BY DEF RetentionIInv
<1> QED BY <1>1, RetentionInvariant, PTL

-----------------------------------------------------------------------------
(* What one step may take *)

(* A transaction that works is not listed when its directory tells the     *)
(* project, and not removed when the directory's name does.                *)
LEMMA LiveIsSpared ==
  ASSUME RetentionIInv, RetentionNext, NEW d \in Dir, Live(d)
  PROVE  /\ d \in picked' \ picked => Named(d) = {} /\ ~plan[d]
         /\ dir'[d] = "removed" /\ lock'[ProjectOf[d]] = d => Named(d) = {}
<1> USE DEF transactions, trash, cleanup
<1>0. RetentionTypeOK /\ lock[ProjectOf[d]] = d /\ dir[d] # "removed"
  BY DEF RetentionIInv, ProjectStays, LiveHasLock, Live
<1>1. ASSUME d \in picked' \ picked PROVE Named(d) = {} /\ ~plan[d]
  <2>1. Inactive(d)
    BY <1>1 DEF RetentionNext, Open, WritePlan, Mark, Close, TrashProject,
                FindEntry, UseEntry, EntryBusy,
                BeginCleanup, Classify, Select, Lock, Delete, EndCleanup
  <2>2. ProjectOf[d] \notin Known(d)
    BY <1>0, <2>1 DEF Inactive
  <2> QED BY <2>2 DEF Known, Named, RetentionIInv, PlansArePlanned
<1>2. ASSUME dir'[d] = "removed", lock'[ProjectOf[d]] = d, Named(d) # {} PROVE FALSE
  <2>1. Named(d) = {ProjectOf[d]}
    BY <1>2 DEF Named
  <2>2. ASSUME NEW e \in Dir, Close(e) PROVE FALSE
    <3>1. e = d
      BY <1>0, <1>2, <2>2 DEF Close, RetentionTypeOK
    <3> QED BY <1>0, <1>2, <2>2, <3>1 DEF Close, RetentionTypeOK
  <2>3. ASSUME NEW e \in Dir, Open(e) \/ Mark(e) PROVE FALSE
    BY <1>0, <1>2, <2>3 DEF Open, Mark, RetentionTypeOK
  <2>4. CASE Delete
    <3>1. target = d
      BY <1>0, <1>2, <2>4 DEF Delete, RetentionTypeOK
    <3> QED BY <1>0, <1>2, <2>1, <2>4, <3>1 DEF Delete, RetentionTypeOK
  <2>5. CASE UNCHANGED dir
    BY <1>0, <1>2, <2>5
  <2> QED
    BY <2>2, <2>3, <2>4, <2>5
       DEF RetentionNext, WritePlan, TrashProject, FindEntry, UseEntry, EntryBusy,
           BeginCleanup, Classify, Select, Lock, EndCleanup
<1> QED BY <1>1, <1>2

(* A project is destroyed only out of the trash, by a purge or a clean-up  *)
(* of the very entry it is in.                                             *)
LEMMA ProjectGoesFromTrash ==
  ASSUME RetentionIInv, RetentionNext, NEW p \in Project,
         home'[p] = Gone, home[p] # Gone
  PROVE  /\ InTrash(p)
         /\ \/ \E t \in finds \ finds' : t.kind = "purge" /\ t.path = <<p, home[p]>>
            \/ target = <<p, home[p]>>
<1> USE DEF transactions, trash, cleanup
<1>0. RetentionTypeOK
  BY DEF RetentionIInv, ProjectStays
<1>1. ASSUME NEW q \in Project, TrashProject(q) PROVE FALSE
  BY <1>0, <1>1 DEF TrashProject, RetentionTypeOK, Root, Gone
<1>2. ASSUME NEW t \in finds, UseEntry(t)
      PROVE InTrash(p) /\ t \in finds \ finds' /\ t.kind = "purge" /\ t.path = <<p, home[p]>>
  <2>1. /\ t.path[1] \in Project /\ t.path[2] \in 1..MaxTrash
        /\ t.path = <<t.path[1], t.path[2]>>
        /\ t.kind \in {"restore", "purge"}
    BY <1>0 DEF RetentionTypeOK, TrashPath
  <2>2. home[t.path[1]] = t.path[2] /\ p = t.path[1]
    BY <1>0, <1>2, <2>1 DEF UseEntry, RetentionTypeOK
  <2>3. t.kind = "purge"
    BY <1>0, <1>2, <2>1, <2>2 DEF UseEntry, RetentionTypeOK, Root, Gone
  <2> QED BY <1>2, <2>1, <2>2, <2>3 DEF UseEntry, InTrash
<1>3. CASE Delete
  <2>1. target \in Item /\ target \notin Dir /\ Exists(target)
    BY <1>3 DEF Delete, RetentionIInv, TargetIsLocked
  <2>2. home[target[1]] = target[2] /\ p = target[1]
    BY <1>0, <1>3, <2>1, ItemType DEF Delete, RetentionTypeOK, Exists
  <2> QED BY <2>1, <2>2, ItemType DEF InTrash
<1>4. CASE UNCHANGED home
  BY <1>4
<1> QED
  BY <1>1, <1>2, <1>3, <1>4
     DEF RetentionNext, Open, WritePlan, Mark, Close, FindEntry, EntryBusy,
         BeginCleanup, Classify, Select, Lock, EndCleanup

(* Clean-up and purge destroy leftovers only: no live transaction that its *)
(* directory tells, and no project outside the trash entry that was named. *)
THEOREM LeftoversOnly == RetentionSpec => OnlyLeftoversGo
<1> DEFINE Going ==
      /\ \A d \in Dir : Live(d) =>
           /\ d \in picked' \ picked => Named(d) = {} /\ ~plan[d]
           /\ dir'[d] = "removed" /\ lock'[ProjectOf[d]] = d => Named(d) = {}
      /\ \A p \in Project : home'[p] = Gone /\ home[p] # Gone =>
           /\ InTrash(p)
           /\ \/ \E t \in finds \ finds' : t.kind = "purge" /\ t.path = <<p, home[p]>>
              \/ target = <<p, home[p]>>
<1>1. RetentionIInv /\ [RetentionNext]_retentionVars => [Going]_retentionVars
  BY LiveIsSpared, ProjectGoesFromTrash
<1> QED BY <1>1, RetentionInvariant, PTL DEF RetentionSpec, OnlyLeftoversGo

-----------------------------------------------------------------------------
(* The configuration writer *)

(* The steps before the write gives up, and those of its handler. *)
Preparing == {"create", "copy", "guard"}
Publishing == {"publish", "checkNew", "checkOld", "checkCompanion", "dropTemporary", "dropStaged"}
Undoing == {"handle", "classify", "quarantine", "inspect", "link", "putBack", "dropRollback", "relink"}

(* The hidden names lead to the files of this write, or to what it has     *)
(* exchanged out and checked; outside writers do not know them.  So no     *)
(* step overwrites or drops a file that is not the write's own.            *)
HiddenNames ==
  /\ step = "create" => entry["temporary"] = NoFile
  /\ step \in {"copy", "guard", "publish"} => entry["temporary"] = New
  /\ step \in {"create", "copy"} => entry["staged"] = NoFile
  /\ step \in {"guard"} \cup Publishing \cup Undoing => entry["staged"] = Copy
  /\ step \in {"link", "putBack", "dropRollback"} => entry["rollback"] = New
  /\ step \notin {"putBack", "dropRollback", "relink", "done"} => entry["exchanged"] = NoFile
  /\ step = "finally" => entry["temporary"] \in {New, NoFile} /\ entry["staged"] \in {Copy, NoFile}

(* After the checks the file that was exchanged out is the one that was    *)
(* read, and nobody reaches it by the configuration's name.                *)
CheckedOut ==
  /\ step \in {"checkOld", "dropTemporary", "link", "putBack"} => existed
  /\ step \in {"dropTemporary", "dropStaged"} => checked
  /\ outcome = "committed" => step = "done"
  /\ existed /\ step \in {"checkCompanion", "dropTemporary"} => entry["temporary"] = Orig
  /\ existed /\ step = "dropStaged" => entry["temporary"] \in {Orig, NoFile}
  /\ existed /\ (step \in {"checkCompanion", "dropTemporary", "dropStaged"} \/ outcome = "committed") =>
       content[Orig] = Old
  /\ existed /\ outcome = "committed" => entry["temporary"] \in {Orig, NoFile}
  /\ existed /\ step \in {"checkCompanion", "dropTemporary", "dropStaged"} => entry["canonical"] # Orig
  /\ step # "done" /\ entry["temporary"] = Orig => entry["canonical"] # Orig

(* The file that had the configuration's name when it was read, if any.    *)
Original == IF existed THEN Orig ELSE NoFile

(* Where the files are at each step as long as no outside writer touches   *)
(* them.  The handler runs only after a fault, so a second one is more     *)
(* than a single interrupt or system error.                                *)
Undisturbed ==
  stamp = 0 =>
    /\ content[Orig] = Old
    /\ step \notin {"create", "done"} => content[New] = Fresh
    /\ step \in Preparing \cup {"publish"} => entry["canonical"] = Original
    /\ step \in {"checkNew", "checkOld", "checkCompanion", "dropTemporary", "classify", "quarantine"} =>
         entry["canonical"] = New /\ entry["temporary"] = Original
    /\ step = "dropStaged" => entry["canonical"] = New /\ entry["temporary"] \in {Original, NoFile}
    /\ step = "handle" => \/ entry["canonical"] = Original /\ entry["temporary"] = New
                          \/ entry["canonical"] = New /\ entry["temporary"] = Original
                          \/ checked /\ entry["canonical"] = New /\ entry["temporary"] = NoFile
    /\ step = "classify" /\ existed => seen = [file |-> Orig, content |-> Old]
    /\ step \in Preparing \cup Publishing \cup {"handle", "classify", "quarantine"} => entry["rollback"] = NoFile
    /\ step = "inspect" => entry["rollback"] = New
    /\ step \in {"inspect", "link", "putBack"} => entry["canonical"] = NoFile /\ entry["temporary"] = Original
    /\ step = "dropRollback" => entry["canonical"] = Original
    /\ step # "relink"
    /\ step = "finally" => \/ entry["canonical"] = Original
                           \/ checked /\ entry["canonical"] = New
    /\ step \in Undoing => stops > 0 \/ companion \/ moved

WriteIInv == NothingLost /\ AllOrNothing /\ HiddenNames /\ CheckedOut /\ Undisturbed

USE FileAssumption, BoundsAssumption

LEMMA WriteStarts == WriteInit => WriteIInv
<1> SUFFICES ASSUME WriteInit PROVE WriteIInv
  OBVIOUS
<1> USE DEF WriteInit, Name, File, Old
<1>1. WriteTypeOK
  <2>1. entry \in [Name -> File \cup {NoFile}]
    OBVIOUS
  <2>2. /\ content \in [File -> Content]
        /\ seen \in [file : File \cup {NoFile}, content : Content]
        /\ 0 \in 0..MaxStamp /\ 0 \in 0..MaxStops
    BY DEF Content
  <2> QED BY <2>1, <2>2 DEF WriteTypeOK
<1>2. entry["canonical"] = Original /\ \A n \in Name : n # "canonical" => entry[n] = NoFile
  BY DEF Original
<1>3. NothingLost
  BY <1>1, <1>2 DEF NothingLost, HasName, Original
<1>4. AllOrNothing
  BY <1>1, <1>2 DEF AllOrNothing
<1>5. HiddenNames
  BY <1>1, <1>2 DEF HiddenNames, Publishing, Undoing
<1>6. CheckedOut
  BY <1>1, <1>2 DEF CheckedOut
<1>7. Undisturbed
  BY <1>1, <1>2 DEF Undisturbed, Preparing, Publishing, Undoing
<1> QED BY <1>3, <1>4, <1>5, <1>6, <1>7 DEF WriteIInv

LEMMA WriteTypes == WriteTypeOK /\ [WriteNext]_writeVars => WriteTypeOK'
<1> SUFFICES ASSUME WriteTypeOK, [WriteNext]_writeVars PROVE WriteTypeOK'
  OBVIOUS
<1> USE DEF Goto, Goes, Fails, Is, AsExpected, Raise, MoveOrRaise, Unlink, Same, Look, Drop, Bystander, NewStamp, Takes, LastName, directory, outsiders
<1>1. CASE Create
  BY <1>1 DEF Create, WriteTypeOK, Name, File, Content, Old, Fresh
<1>2. CASE MakeCopy
  BY <1>2 DEF MakeCopy, WriteTypeOK, Name, File, Content, Old, Fresh
<1>3. CASE Guard
  BY <1>3 DEF Guard, WriteTypeOK, Name, File, Content, Old, Fresh
<1>4. CASE Exchange
  BY <1>4 DEF Exchange, WriteTypeOK, Name, File, Content, Old, Fresh
<1>5. CASE Place
  BY <1>5 DEF Place, WriteTypeOK, Name, File, Content, Old, Fresh
<1>6. CASE CheckNew
  BY <1>6 DEF CheckNew, WriteTypeOK, Name, File, Content, Old, Fresh
<1>7. CASE CheckOld
  BY <1>7 DEF CheckOld, WriteTypeOK, Name, File, Content, Old, Fresh
<1>8. CASE CheckCompanion
  BY <1>8 DEF CheckCompanion, WriteTypeOK, Name, File, Content, Old, Fresh
<1>9. CASE DropTemporary
  BY <1>9 DEF DropTemporary, WriteTypeOK, Name, File, Content, Old, Fresh
<1>10. CASE DropStaged
  BY <1>10 DEF DropStaged, WriteTypeOK, Name, File, Content, Old, Fresh
<1>11. CASE Handle
  BY <1>11 DEF Handle, WriteTypeOK, Name, File, Content, Old, Fresh
<1>12. CASE ClassifyExchange
  BY <1>12 DEF ClassifyExchange, WriteTypeOK, Name, File, Content, Old, Fresh
<1>13. CASE Quarantine
  BY <1>13 DEF Quarantine, WriteTypeOK, Name, File, Content, Old, Fresh
<1>14. CASE Inspect
  BY <1>14 DEF Inspect, WriteTypeOK, Name, File, Content, Old, Fresh
<1>15. CASE Link
  BY <1>15 DEF Link, WriteTypeOK, Name, File, Content, Old, Fresh
<1>16. CASE PutBack
  BY <1>16 DEF PutBack, WriteTypeOK, Name, File, Content, Old, Fresh
<1>17. CASE DropRollback
  BY <1>17 DEF DropRollback, WriteTypeOK, Name, File, Content, Old, Fresh
<1>18. CASE Relink
  BY <1>18 DEF Relink, WriteTypeOK, Name, File, Content, Old, Fresh
<1>19. CASE Finally
  BY <1>19 DEF Finally, WriteTypeOK, Name, File, Content, Old, Fresh
<1>20. CASE Stop
  BY <1>20 DEF Stop, WriteTypeOK, Name, File, Content, Old, Fresh
<1>21. CASE Crash
  BY <1>21 DEF Crash, WriteTypeOK, Name, File, Content, Old, Fresh
<1>22. CASE EditCanonical
  BY <1>22 DEF EditCanonical, WriteTypeOK, Name, File, Content, Old, Fresh
<1>23. ASSUME NEW x \in Ext, Replace(x) PROVE WriteTypeOK'
  BY <1>23 DEF Replace, WriteTypeOK, Name, File, Content, Old, Fresh
<1>24. CASE Remove
  BY <1>24 DEF Remove, WriteTypeOK, Name, File, Content, Old, Fresh
<1>25. CASE EditTemporary
  BY <1>25 DEF EditTemporary, WriteTypeOK, Name, File, Content, Old, Fresh
<1>26. CASE EditCompanion
  BY <1>26 DEF EditCompanion, WriteTypeOK, Name, File, Content, Old, Fresh
<1>27. CASE MoveDirectory
  BY <1>27 DEF MoveDirectory, WriteTypeOK, Name, File, Content, Old, Fresh
<1>28. CASE UNCHANGED writeVars
  BY <1>28 DEF writeVars, WriteTypeOK, Name, File, Content, Old, Fresh
<1> QED
  BY <1>1, <1>2, <1>3, <1>4, <1>5, <1>6, <1>7, <1>8, <1>9, <1>10, <1>11, <1>12,
     <1>13, <1>14, <1>15, <1>16, <1>17, <1>18, <1>19, <1>20, <1>21, <1>22,
     <1>23, <1>24, <1>25, <1>26, <1>27, <1>28 DEF WriteNext, Write, Undo, Outside

(* The invariant is inductive. *)
LEMMA WriteSteps == WriteIInv /\ [WriteNext]_writeVars => WriteIInv'
<1> SUFFICES ASSUME WriteIInv, [WriteNext]_writeVars PROVE WriteIInv'
  OBVIOUS
<1> USE DEF Goto, Goes, Fails, Is, AsExpected, Raise, MoveOrRaise, Unlink, Same, Look, Drop, Bystander, NewStamp, Takes, LastName, directory, outsiders
<1>0. WriteTypeOK /\ WriteTypeOK'
  BY WriteTypes DEF WriteIInv, NothingLost
<1>1. CASE Create
  <2> USE <1>0, <1>1 DEF Create, WriteTypeOK, WriteIInv, Name, File, Old, Fresh, Content
  <2>1. NothingLost'
    BY DEF NothingLost, HiddenNames, CheckedOut, HasName, Name, Publishing, Undoing
  <2>2. AllOrNothing'
    BY DEF AllOrNothing, CheckedOut, Undisturbed, HiddenNames, Untouched, OneFault, Original, Preparing, Publishing, Undoing
  <2>3. HiddenNames'
    BY DEF HiddenNames, Publishing, Undoing
  <2>4. CheckedOut'
    BY DEF CheckedOut, HiddenNames, Publishing, Undoing
  <2>5. Undisturbed'
    BY DEF Undisturbed, HiddenNames, CheckedOut, Original, Preparing, Publishing, Undoing
  <2> QED BY <2>1, <2>2, <2>3, <2>4, <2>5 DEF WriteIInv
<1>2. CASE MakeCopy
  <2> USE <1>0, <1>2 DEF MakeCopy, WriteTypeOK, WriteIInv, Name, File, Old, Fresh, Content
  <2>1. NothingLost'
    BY DEF NothingLost, HiddenNames, CheckedOut, HasName, Name, Publishing, Undoing
  <2>2. AllOrNothing'
    BY DEF AllOrNothing, CheckedOut, Undisturbed, HiddenNames, Untouched, OneFault, Original, Preparing, Publishing, Undoing
  <2>3. HiddenNames'
    BY DEF HiddenNames, Publishing, Undoing
  <2>4. CheckedOut'
    BY DEF CheckedOut, HiddenNames, Publishing, Undoing
  <2>5. Undisturbed'
    BY DEF Undisturbed, HiddenNames, CheckedOut, Original, Preparing, Publishing, Undoing
  <2> QED BY <2>1, <2>2, <2>3, <2>4, <2>5 DEF WriteIInv
<1>3. CASE Guard
  <2> USE <1>0, <1>3 DEF Guard, WriteTypeOK, WriteIInv, Name, File, Old, Fresh, Content
  <2>1. NothingLost'
    BY DEF NothingLost, HiddenNames, CheckedOut, HasName, Name, Publishing, Undoing
  <2>2. AllOrNothing'
    BY DEF AllOrNothing, CheckedOut, Undisturbed, HiddenNames, Untouched, OneFault, Original, Preparing, Publishing, Undoing
  <2>3. HiddenNames'
    BY DEF HiddenNames, Publishing, Undoing
  <2>4. CheckedOut'
    BY DEF CheckedOut, HiddenNames, Publishing, Undoing
  <2>5. Undisturbed'
    BY DEF Undisturbed, HiddenNames, CheckedOut, Original, Preparing, Publishing, Undoing
  <2> QED BY <2>1, <2>2, <2>3, <2>4, <2>5 DEF WriteIInv
<1>4. CASE Exchange
  <2> USE <1>0, <1>4 DEF Exchange, WriteTypeOK, WriteIInv, Name, File, Old, Fresh, Content
  <2>1. NothingLost'
    BY DEF NothingLost, HiddenNames, CheckedOut, HasName, Name, Publishing, Undoing
  <2>2. AllOrNothing'
    BY DEF AllOrNothing, CheckedOut, Undisturbed, HiddenNames, Untouched, OneFault, Original, Preparing, Publishing, Undoing
  <2>3. HiddenNames'
    BY DEF HiddenNames, Publishing, Undoing
  <2>4. CheckedOut'
    BY DEF CheckedOut, HiddenNames, Publishing, Undoing
  <2>5. Undisturbed'
    BY DEF Undisturbed, HiddenNames, CheckedOut, Original, Preparing, Publishing, Undoing
  <2> QED BY <2>1, <2>2, <2>3, <2>4, <2>5 DEF WriteIInv
<1>5. CASE Place
  <2> USE <1>0, <1>5 DEF Place, WriteTypeOK, WriteIInv, Name, File, Old, Fresh, Content
  <2>1. NothingLost'
    BY DEF NothingLost, HiddenNames, CheckedOut, HasName, Name, Publishing, Undoing
  <2>2. AllOrNothing'
    BY DEF AllOrNothing, CheckedOut, Undisturbed, HiddenNames, Untouched, OneFault, Original, Preparing, Publishing, Undoing
  <2>3. HiddenNames'
    BY DEF HiddenNames, Publishing, Undoing
  <2>4. CheckedOut'
    BY DEF CheckedOut, HiddenNames, Publishing, Undoing
  <2>5. Undisturbed'
    BY DEF Undisturbed, HiddenNames, CheckedOut, Original, Preparing, Publishing, Undoing
  <2> QED BY <2>1, <2>2, <2>3, <2>4, <2>5 DEF WriteIInv
<1>6. CASE CheckNew
  <2> USE <1>0, <1>6 DEF CheckNew, WriteTypeOK, WriteIInv, Name, File, Old, Fresh, Content
  <2>1. NothingLost'
    BY DEF NothingLost, HiddenNames, CheckedOut, HasName, Name, Publishing, Undoing
  <2>2. AllOrNothing'
    BY DEF AllOrNothing, CheckedOut, Undisturbed, HiddenNames, Untouched, OneFault, Original, Preparing, Publishing, Undoing
  <2>3. HiddenNames'
    BY DEF HiddenNames, Publishing, Undoing
  <2>4. CheckedOut'
    BY DEF CheckedOut, HiddenNames, Publishing, Undoing
  <2>5. Undisturbed'
    BY DEF Undisturbed, HiddenNames, CheckedOut, Original, Preparing, Publishing, Undoing
  <2> QED BY <2>1, <2>2, <2>3, <2>4, <2>5 DEF WriteIInv
<1>7. CASE CheckOld
  <2> USE <1>0, <1>7 DEF CheckOld, WriteTypeOK, WriteIInv, Name, File, Old, Fresh, Content
  <2>1. NothingLost'
    BY DEF NothingLost, HiddenNames, CheckedOut, HasName, Name, Publishing, Undoing
  <2>2. AllOrNothing'
    BY DEF AllOrNothing, CheckedOut, Undisturbed, HiddenNames, Untouched, OneFault, Original, Preparing, Publishing, Undoing
  <2>3. HiddenNames'
    BY DEF HiddenNames, Publishing, Undoing
  <2>4. CheckedOut'
    BY DEF CheckedOut, HiddenNames, Publishing, Undoing
  <2>5. Undisturbed'
    BY DEF Undisturbed, HiddenNames, CheckedOut, Original, Preparing, Publishing, Undoing
  <2> QED BY <2>1, <2>2, <2>3, <2>4, <2>5 DEF WriteIInv
<1>8. CASE CheckCompanion
  <2> USE <1>0, <1>8 DEF CheckCompanion, WriteTypeOK, WriteIInv, Name, File, Old, Fresh, Content
  <2>1. NothingLost'
    BY DEF NothingLost, HiddenNames, CheckedOut, HasName, Name, Publishing, Undoing
  <2>2. AllOrNothing'
    BY DEF AllOrNothing, CheckedOut, Undisturbed, HiddenNames, Untouched, OneFault, Original, Preparing, Publishing, Undoing
  <2>3. HiddenNames'
    BY DEF HiddenNames, Publishing, Undoing
  <2>4. CheckedOut'
    BY DEF CheckedOut, HiddenNames, Publishing, Undoing
  <2>5. Undisturbed'
    BY DEF Undisturbed, HiddenNames, CheckedOut, Original, Preparing, Publishing, Undoing
  <2> QED BY <2>1, <2>2, <2>3, <2>4, <2>5 DEF WriteIInv
<1>9. CASE DropTemporary
  <2> USE <1>0, <1>9 DEF DropTemporary, WriteTypeOK, WriteIInv, Name, File, Old, Fresh, Content
  <2>1. NothingLost'
    BY DEF NothingLost, HiddenNames, CheckedOut, HasName, Name, Publishing, Undoing
  <2>2. AllOrNothing'
    BY DEF AllOrNothing, CheckedOut, Undisturbed, HiddenNames, Untouched, OneFault, Original, Preparing, Publishing, Undoing
  <2>3. HiddenNames'
    BY DEF HiddenNames, Publishing, Undoing
  <2>4. CheckedOut'
    BY DEF CheckedOut, HiddenNames, Publishing, Undoing
  <2>5. Undisturbed'
    BY DEF Undisturbed, HiddenNames, CheckedOut, Original, Preparing, Publishing, Undoing
  <2> QED BY <2>1, <2>2, <2>3, <2>4, <2>5 DEF WriteIInv
<1>10. CASE DropStaged
  <2> USE <1>0, <1>10 DEF DropStaged, WriteTypeOK, WriteIInv, Name, File, Old, Fresh, Content
  <2>1. NothingLost'
    BY DEF NothingLost, HiddenNames, CheckedOut, HasName, Name, Publishing, Undoing
  <2>2. AllOrNothing'
    BY DEF AllOrNothing, CheckedOut, Undisturbed, HiddenNames, Untouched, OneFault, Original, Preparing, Publishing, Undoing
  <2>3. HiddenNames'
    BY DEF HiddenNames, Publishing, Undoing
  <2>4. CheckedOut'
    BY DEF CheckedOut, HiddenNames, Publishing, Undoing
  <2>5. Undisturbed'
    BY DEF Undisturbed, HiddenNames, CheckedOut, Original, Preparing, Publishing, Undoing
  <2> QED BY <2>1, <2>2, <2>3, <2>4, <2>5 DEF WriteIInv
<1>11. CASE Handle
  <2> USE <1>0, <1>11 DEF Handle, WriteTypeOK, WriteIInv, Name, File, Old, Fresh, Content
  <2>1. NothingLost'
    BY DEF NothingLost, HiddenNames, CheckedOut, HasName, Name, Publishing, Undoing
  <2>2. AllOrNothing'
    BY DEF AllOrNothing, CheckedOut, Undisturbed, HiddenNames, Untouched, OneFault, Original, Preparing, Publishing, Undoing
  <2>3. HiddenNames'
    BY DEF HiddenNames, Publishing, Undoing
  <2>4. CheckedOut'
    BY DEF CheckedOut, HiddenNames, Publishing, Undoing
  <2>5. Undisturbed'
    BY DEF Undisturbed, HiddenNames, CheckedOut, Original, Preparing, Publishing, Undoing
  <2> QED BY <2>1, <2>2, <2>3, <2>4, <2>5 DEF WriteIInv
<1>12. CASE ClassifyExchange
  <2> USE <1>0, <1>12 DEF ClassifyExchange, WriteTypeOK, WriteIInv, Name, File, Old, Fresh, Content
  <2>1. NothingLost'
    BY DEF NothingLost, HiddenNames, CheckedOut, HasName, Name, Publishing, Undoing
  <2>2. AllOrNothing'
    BY DEF AllOrNothing, CheckedOut, Undisturbed, HiddenNames, Untouched, OneFault, Original, Preparing, Publishing, Undoing
  <2>3. HiddenNames'
    BY DEF HiddenNames, Publishing, Undoing
  <2>4. CheckedOut'
    BY DEF CheckedOut, HiddenNames, Publishing, Undoing
  <2>5. Undisturbed'
    BY DEF Undisturbed, HiddenNames, CheckedOut, Original, Preparing, Publishing, Undoing
  <2> QED BY <2>1, <2>2, <2>3, <2>4, <2>5 DEF WriteIInv
<1>13. CASE Quarantine
  <2> USE <1>0, <1>13 DEF Quarantine, WriteTypeOK, WriteIInv, Name, File, Old, Fresh, Content
  <2>1. NothingLost'
    BY DEF NothingLost, HiddenNames, CheckedOut, HasName, Name, Publishing, Undoing
  <2>2. AllOrNothing'
    BY DEF AllOrNothing, CheckedOut, Undisturbed, HiddenNames, Untouched, OneFault, Original, Preparing, Publishing, Undoing
  <2>3. HiddenNames'
    BY DEF HiddenNames, Publishing, Undoing
  <2>4. CheckedOut'
    BY DEF CheckedOut, HiddenNames, Publishing, Undoing
  <2>5. Undisturbed'
    BY DEF Undisturbed, HiddenNames, CheckedOut, Original, Preparing, Publishing, Undoing
  <2> QED BY <2>1, <2>2, <2>3, <2>4, <2>5 DEF WriteIInv
<1>14. CASE Inspect
  <2> USE <1>0, <1>14 DEF Inspect, WriteTypeOK, WriteIInv, Name, File, Old, Fresh, Content
  <2>1. NothingLost'
    BY DEF NothingLost, HiddenNames, CheckedOut, HasName, Name, Publishing, Undoing
  <2>2. AllOrNothing'
    BY DEF AllOrNothing, CheckedOut, Undisturbed, HiddenNames, Untouched, OneFault, Original, Preparing, Publishing, Undoing
  <2>3. HiddenNames'
    BY DEF HiddenNames, Publishing, Undoing
  <2>4. CheckedOut'
    BY DEF CheckedOut, HiddenNames, Publishing, Undoing
  <2>5. Undisturbed'
    BY DEF Undisturbed, HiddenNames, CheckedOut, Original, Preparing, Publishing, Undoing
  <2> QED BY <2>1, <2>2, <2>3, <2>4, <2>5 DEF WriteIInv
<1>15. CASE Link
  <2> USE <1>0, <1>15 DEF Link, WriteTypeOK, WriteIInv, Name, File, Old, Fresh, Content
  <2>1. NothingLost'
    BY DEF NothingLost, HiddenNames, CheckedOut, HasName, Name, Publishing, Undoing
  <2>2. AllOrNothing'
    BY DEF AllOrNothing, CheckedOut, Undisturbed, HiddenNames, Untouched, OneFault, Original, Preparing, Publishing, Undoing
  <2>3. HiddenNames'
    BY DEF HiddenNames, Publishing, Undoing
  <2>4. CheckedOut'
    BY DEF CheckedOut, HiddenNames, Publishing, Undoing
  <2>5. Undisturbed'
    BY DEF Undisturbed, HiddenNames, CheckedOut, Original, Preparing, Publishing, Undoing
  <2> QED BY <2>1, <2>2, <2>3, <2>4, <2>5 DEF WriteIInv
<1>16. CASE PutBack
  <2> USE <1>0, <1>16 DEF PutBack, WriteTypeOK, WriteIInv, Name, File, Old, Fresh, Content
  <2>1. NothingLost'
    BY DEF NothingLost, HiddenNames, CheckedOut, HasName, Name, Publishing, Undoing
  <2>2. AllOrNothing'
    BY DEF AllOrNothing, CheckedOut, Undisturbed, HiddenNames, Untouched, OneFault, Original, Preparing, Publishing, Undoing
  <2>3. HiddenNames'
    BY DEF HiddenNames, Publishing, Undoing
  <2>4. CheckedOut'
    BY DEF CheckedOut, HiddenNames, Publishing, Undoing
  <2>5. Undisturbed'
    BY DEF Undisturbed, HiddenNames, CheckedOut, Original, Preparing, Publishing, Undoing
  <2> QED BY <2>1, <2>2, <2>3, <2>4, <2>5 DEF WriteIInv
<1>17. CASE DropRollback
  <2> USE <1>0, <1>17 DEF DropRollback, WriteTypeOK, WriteIInv, Name, File, Old, Fresh, Content
  <2>1. NothingLost'
    BY DEF NothingLost, HiddenNames, CheckedOut, HasName, Name, Publishing, Undoing
  <2>2. AllOrNothing'
    BY DEF AllOrNothing, CheckedOut, Undisturbed, HiddenNames, Untouched, OneFault, Original, Preparing, Publishing, Undoing
  <2>3. HiddenNames'
    BY DEF HiddenNames, Publishing, Undoing
  <2>4. CheckedOut'
    BY DEF CheckedOut, HiddenNames, Publishing, Undoing
  <2>5. Undisturbed'
    BY DEF Undisturbed, HiddenNames, CheckedOut, Original, Preparing, Publishing, Undoing
  <2> QED BY <2>1, <2>2, <2>3, <2>4, <2>5 DEF WriteIInv
<1>18. CASE Relink
  <2> USE <1>0, <1>18 DEF Relink, WriteTypeOK, WriteIInv, Name, File, Old, Fresh, Content
  <2>1. NothingLost'
    BY DEF NothingLost, HiddenNames, CheckedOut, HasName, Name, Publishing, Undoing
  <2>2. AllOrNothing'
    BY DEF AllOrNothing, CheckedOut, Undisturbed, HiddenNames, Untouched, OneFault, Original, Preparing, Publishing, Undoing
  <2>3. HiddenNames'
    BY DEF HiddenNames, Publishing, Undoing
  <2>4. CheckedOut'
    BY DEF CheckedOut, HiddenNames, Publishing, Undoing
  <2>5. Undisturbed'
    BY DEF Undisturbed, HiddenNames, CheckedOut, Original, Preparing, Publishing, Undoing
  <2> QED BY <2>1, <2>2, <2>3, <2>4, <2>5 DEF WriteIInv
<1>19. CASE Finally
  <2> USE <1>0, <1>19 DEF Finally, WriteTypeOK, WriteIInv, Name, File, Old, Fresh, Content
  <2>1. NothingLost'
    BY DEF NothingLost, HiddenNames, CheckedOut, HasName, Name, Publishing, Undoing
  <2>2. AllOrNothing'
    BY DEF AllOrNothing, CheckedOut, Undisturbed, HiddenNames, Untouched, OneFault, Original, Preparing, Publishing, Undoing
  <2>3. HiddenNames'
    BY DEF HiddenNames, Publishing, Undoing
  <2>4. CheckedOut'
    BY DEF CheckedOut, HiddenNames, Publishing, Undoing
  <2>5. Undisturbed'
    BY DEF Undisturbed, HiddenNames, CheckedOut, Original, Preparing, Publishing, Undoing
  <2> QED BY <2>1, <2>2, <2>3, <2>4, <2>5 DEF WriteIInv
<1>20. CASE Stop
  <2> USE <1>0, <1>20 DEF Stop, WriteTypeOK, WriteIInv, Name, File, Old, Fresh, Content
  <2>1. NothingLost'
    BY DEF NothingLost, HiddenNames, CheckedOut, HasName, Name, Publishing, Undoing
  <2>2. AllOrNothing'
    BY DEF AllOrNothing, CheckedOut, Undisturbed, HiddenNames, Untouched, OneFault, Original, Preparing, Publishing, Undoing
  <2>3. HiddenNames'
    BY DEF HiddenNames, Publishing, Undoing
  <2>4. CheckedOut'
    BY DEF CheckedOut, HiddenNames, Publishing, Undoing
  <2>5. Undisturbed'
    BY DEF Undisturbed, HiddenNames, CheckedOut, Original, Preparing, Publishing, Undoing
  <2> QED BY <2>1, <2>2, <2>3, <2>4, <2>5 DEF WriteIInv
<1>21. CASE Crash
  <2> USE <1>0, <1>21 DEF Crash, WriteTypeOK, WriteIInv, Name, File, Old, Fresh, Content
  <2>1. NothingLost'
    BY DEF NothingLost, HiddenNames, CheckedOut, HasName, Name, Publishing, Undoing
  <2>2. AllOrNothing'
    BY DEF AllOrNothing, CheckedOut, Undisturbed, HiddenNames, Untouched, OneFault, Original, Preparing, Publishing, Undoing
  <2>3. HiddenNames'
    BY DEF HiddenNames, Publishing, Undoing
  <2>4. CheckedOut'
    BY DEF CheckedOut, HiddenNames, Publishing, Undoing
  <2>5. Undisturbed'
    BY DEF Undisturbed, HiddenNames, CheckedOut, Original, Preparing, Publishing, Undoing
  <2> QED BY <2>1, <2>2, <2>3, <2>4, <2>5 DEF WriteIInv
<1>22. CASE EditCanonical
  <2> USE <1>0, <1>22 DEF EditCanonical, WriteTypeOK, WriteIInv, Name, File, Old, Fresh, Content
  <2>1. NothingLost'
    BY DEF NothingLost, HiddenNames, CheckedOut, HasName, Name, Publishing, Undoing
  <2>2. AllOrNothing'
    BY DEF AllOrNothing, CheckedOut, Undisturbed, HiddenNames, Untouched, OneFault, Original, Preparing, Publishing, Undoing
  <2>3. HiddenNames'
    BY DEF HiddenNames, Publishing, Undoing
  <2>4. CheckedOut'
    BY DEF CheckedOut, HiddenNames, Publishing, Undoing
  <2>5. Undisturbed'
    BY DEF Undisturbed, HiddenNames, CheckedOut, Original, Preparing, Publishing, Undoing
  <2> QED BY <2>1, <2>2, <2>3, <2>4, <2>5 DEF WriteIInv
<1>23. ASSUME NEW x \in Ext, Replace(x) PROVE WriteIInv'
  <2> USE <1>0, <1>23 DEF Replace, WriteTypeOK, WriteIInv, Name, File, Old, Fresh, Content
  <2>1. NothingLost'
    BY DEF NothingLost, HiddenNames, CheckedOut, HasName, Name, Publishing, Undoing
  <2>2. AllOrNothing'
    BY DEF AllOrNothing, CheckedOut, Undisturbed, HiddenNames, Untouched, OneFault, Original, Preparing, Publishing, Undoing
  <2>3. HiddenNames'
    BY DEF HiddenNames, Publishing, Undoing
  <2>4. CheckedOut'
    BY DEF CheckedOut, HiddenNames, Publishing, Undoing
  <2>5. Undisturbed'
    BY DEF Undisturbed, HiddenNames, CheckedOut, Original, Preparing, Publishing, Undoing
  <2> QED BY <2>1, <2>2, <2>3, <2>4, <2>5 DEF WriteIInv
<1>24. CASE Remove
  <2> USE <1>0, <1>24 DEF Remove, WriteTypeOK, WriteIInv, Name, File, Old, Fresh, Content
  <2>1. NothingLost'
    BY DEF NothingLost, HiddenNames, CheckedOut, HasName, Name, Publishing, Undoing
  <2>2. AllOrNothing'
    BY DEF AllOrNothing, CheckedOut, Undisturbed, HiddenNames, Untouched, OneFault, Original, Preparing, Publishing, Undoing
  <2>3. HiddenNames'
    BY DEF HiddenNames, Publishing, Undoing
  <2>4. CheckedOut'
    BY DEF CheckedOut, HiddenNames, Publishing, Undoing
  <2>5. Undisturbed'
    BY DEF Undisturbed, HiddenNames, CheckedOut, Original, Preparing, Publishing, Undoing
  <2> QED BY <2>1, <2>2, <2>3, <2>4, <2>5 DEF WriteIInv
<1>25. CASE EditTemporary
  <2> USE <1>0, <1>25 DEF EditTemporary, WriteTypeOK, WriteIInv, Name, File, Old, Fresh, Content
  <2>1. NothingLost'
    BY DEF NothingLost, HiddenNames, CheckedOut, HasName, Name, Publishing, Undoing
  <2>2. AllOrNothing'
    BY DEF AllOrNothing, CheckedOut, Undisturbed, HiddenNames, Untouched, OneFault, Original, Preparing, Publishing, Undoing
  <2>3. HiddenNames'
    BY DEF HiddenNames, Publishing, Undoing
  <2>4. CheckedOut'
    BY DEF CheckedOut, HiddenNames, Publishing, Undoing
  <2>5. Undisturbed'
    BY DEF Undisturbed, HiddenNames, CheckedOut, Original, Preparing, Publishing, Undoing
  <2> QED BY <2>1, <2>2, <2>3, <2>4, <2>5 DEF WriteIInv
<1>26. CASE EditCompanion
  <2> USE <1>0, <1>26 DEF EditCompanion, WriteTypeOK, WriteIInv, Name, File, Old, Fresh, Content
  <2>1. NothingLost'
    BY DEF NothingLost, HiddenNames, CheckedOut, HasName, Name, Publishing, Undoing
  <2>2. AllOrNothing'
    BY DEF AllOrNothing, CheckedOut, Undisturbed, HiddenNames, Untouched, OneFault, Original, Preparing, Publishing, Undoing
  <2>3. HiddenNames'
    BY DEF HiddenNames, Publishing, Undoing
  <2>4. CheckedOut'
    BY DEF CheckedOut, HiddenNames, Publishing, Undoing
  <2>5. Undisturbed'
    BY DEF Undisturbed, HiddenNames, CheckedOut, Original, Preparing, Publishing, Undoing
  <2> QED BY <2>1, <2>2, <2>3, <2>4, <2>5 DEF WriteIInv
<1>27. CASE MoveDirectory
  <2> USE <1>0, <1>27 DEF MoveDirectory, WriteTypeOK, WriteIInv, Name, File, Old, Fresh, Content
  <2>1. NothingLost'
    BY DEF NothingLost, HiddenNames, CheckedOut, HasName, Name, Publishing, Undoing
  <2>2. AllOrNothing'
    BY DEF AllOrNothing, CheckedOut, Undisturbed, HiddenNames, Untouched, OneFault, Original, Preparing, Publishing, Undoing
  <2>3. HiddenNames'
    BY DEF HiddenNames, Publishing, Undoing
  <2>4. CheckedOut'
    BY DEF CheckedOut, HiddenNames, Publishing, Undoing
  <2>5. Undisturbed'
    BY DEF Undisturbed, HiddenNames, CheckedOut, Original, Preparing, Publishing, Undoing
  <2> QED BY <2>1, <2>2, <2>3, <2>4, <2>5 DEF WriteIInv
<1>28. CASE UNCHANGED writeVars
  <2> USE <1>0, <1>28 DEF writeVars, WriteTypeOK, WriteIInv, Name, File, Old, Fresh, Content
  <2>1. NothingLost'
    BY DEF NothingLost, HiddenNames, CheckedOut, HasName, Name, Publishing, Undoing
  <2>2. AllOrNothing'
    BY DEF AllOrNothing, CheckedOut, Undisturbed, HiddenNames, Untouched, OneFault, Original, Preparing, Publishing, Undoing
  <2>3. HiddenNames'
    BY DEF HiddenNames, Publishing, Undoing
  <2>4. CheckedOut'
    BY DEF CheckedOut, HiddenNames, Publishing, Undoing
  <2>5. Undisturbed'
    BY DEF Undisturbed, HiddenNames, CheckedOut, Original, Preparing, Publishing, Undoing
  <2> QED BY <2>1, <2>2, <2>3, <2>4, <2>5 DEF WriteIInv
<1> QED
  BY <1>1, <1>2, <1>3, <1>4, <1>5, <1>6, <1>7, <1>8, <1>9, <1>10, <1>11, <1>12,
     <1>13, <1>14, <1>15, <1>16, <1>17, <1>18, <1>19, <1>20, <1>21, <1>22,
     <1>23, <1>24, <1>25, <1>26, <1>27, <1>28 DEF WriteNext, Write, Undo, Outside

(* The inductive invariant holds in every reachable state. *)
THEOREM WriteInvariant == WriteSpec => []WriteIInv
  BY WriteStarts, WriteSteps, PTL DEF WriteSpec

(* No file is ever lost but by an outside writer: the original until every *)
(* check has passed, what others bring, and what was to be written next to *)
(* an original that a failed write leaves under a recovery name.           *)
THEOREM NoFileLost == WriteSpec => []NothingLost
<1>1. WriteIInv => NothingLost
  BY DEF WriteIInv
<1> QED BY <1>1, WriteInvariant, PTL

(* A write is committed only over what was read before, and undisturbed by *)
(* outside writers it ends with the new file, or after one fault with the  *)
(* old state.                                                              *)
THEOREM WholeWrite == WriteSpec => []AllOrNothing
<1>1. WriteIInv => AllOrNothing
  BY DEF WriteIInv
<1> QED BY <1>1, WriteInvariant, PTL

-----------------------------------------------------------------------------
(* The transfer of a generation to the publication root, whose helpers     *)
(* know no project key: the lock of the remote host orders them.           *)

(* The helper of o has the remote lock. *)
Runs(o) == run.op = o

(* A transfer that has the lock is one of the publisher's. *)
RunShape == run = Idle \/ (run.op \in Op /\ run.step # "none")

(* The stage is made once, filled under the lock, and complete when it is  *)
(* about to get the generation's name.                                     *)
StageFollowsRun ==
  /\ run.step \in {"reuse", "mkdir"} => stage[run.op] = "absent"
  /\ run.step = "commit" => stage[run.op] = "full"

(* The publisher waits for one request at a time, and an answer is the     *)
(* answer to that request.                                                 *)
CallShape ==
  \A o \in Op :
    /\ publisher[o] = "waiting" <=> wait[o] = Transfer(o)
    /\ wait[o] \in {Nothing, Transfer(o), Cleanup(o)}
    /\ answer[o] \in {"committed", "reused"} => wait[o] = Transfer(o)
    /\ answer[o] = "cleaned" => wait[o] = Cleanup(o)

(* What the publisher was told, or found out, about its generation. *)
AnswersAreTrue ==
  \A o \in Op : answer[o] \in {"committed", "reused"} \/ result[o] = "staged" =>
                  final[gen[o]] = "full"

(* A transfer runs at most once: nothing of it is on the host before its   *)
(* request is taken, and nothing of its request is left when it is         *)
(* answered.                                                               *)
RunsOnce ==
  \A o \in Op :
    /\ publisher[o] \in {"prepare", "ready"} => Transfer(o) \notin queue
    /\ publisher[o] \in {"prepare", "ready"} \/ Transfer(o) \in queue =>
         stage[o] = "absent" /\ ~Runs(o)
    /\ answer[o] \in {"committed", "reused"} =>
         stage[o] = "absent" /\ ~Runs(o) /\ Transfer(o) \notin queue

(* A cleanup that succeeded is undone only by a stray helper. *)
CleanedIsClean ==
  \A o \in Op : answer[o] = "cleaned" => stray[o] \/ (stage[o] = "absent" /\ ~Runs(o))

(* What is on the host, or may still get there, is under the recovery      *)
(* path, still in question, or a stray.                                    *)
Remembered ==
  \A o \in Op : stage[o] # "absent" \/ Runs(o) =>
                  stray[o] \/ recovery[o] \/ publisher[o] \in {"waiting", "asking"}

(* The end of a plan: the recovery path is given up before the workspace.  *)
PlanShape ==
  \A o \in Op :
    /\ publisher[o] \in {"prepare", "ready", "removing", "gone"} => ~recovery[o]
    /\ publisher[o] = "prepare" => ~workspace[o]
    /\ state[o] = "discarded" => publisher[o] = "gone" /\ ~workspace[o]

TransferIInv ==
  /\ GenerationsAreWhole /\ StageStaysUnderHelper
  /\ RunShape /\ StageFollowsRun
  /\ CallShape /\ AnswersAreTrue /\ RunsOnce
  /\ CleanedIsClean /\ Remembered /\ PlanShape

USE NothingAssumption, DiscardsAssumption

(* A transfer and a cleanup are different requests, each of one transfer.  *)
LEMMA Requests ==
  \A o, p \in Op :
    /\ Transfer(o) \in Request /\ Cleanup(o) \in Request
    /\ Transfer(o) # Cleanup(p) /\ Transfer(o) # Nothing /\ Cleanup(o) # Nothing
    /\ Transfer(o) = Transfer(p) => o = p
    /\ Cleanup(o) = Cleanup(p) => o = p
    /\ Transfer(o).op = o /\ Cleanup(o).op = o
  BY DEF Transfer, Cleanup, Request

LEMMA InitTransferIInv == TransferInit => TransferIInv
<1> SUFFICES ASSUME TransferInit PROVE TransferIInv
  OBVIOUS
<1> USE DEF TransferInit
<1>1. TransferTypeOK
  BY DEF TransferTypeOK, Tree, Idle
<1>2. GenerationsAreWhole /\ StageStaysUnderHelper /\ RunShape /\ StageFollowsRun
  BY <1>1 DEF GenerationsAreWhole, StageStaysUnderHelper, RunShape, StageFollowsRun, Idle
<1>3. CallShape /\ AnswersAreTrue /\ RunsOnce /\ CleanedIsClean /\ Remembered /\ PlanShape
  BY Requests DEF CallShape, AnswersAreTrue, RunsOnce, CleanedIsClean, Remembered,
     PlanShape, Runs, Idle, Response
<1> QED BY <1>2, <1>3 DEF TransferIInv

LEMMA NextTransferTypeOK == TransferIInv /\ [TransferNext]_transferVars => TransferTypeOK'
<1> SUFFICES ASSUME TransferIInv, [TransferNext]_transferVars PROVE TransferTypeOK'
  OBVIOUS
<1> USE DEF Free, At, Advance, Becomes, Respond, Ends, Quiet, Idle, Step, State, Waits, Ask,
    Outcome, Recovery, HangUp, Returns, Committed, host, planVars, call
<1>0. TransferTypeOK /\ RunShape
  BY DEF TransferIInv, GenerationsAreWhole
<1>1. ASSUME NEW o \in Op, TakeLock(o) PROVE TransferTypeOK'
  BY <1>0, <1>1 DEF TakeLock, TransferTypeOK, RunShape, Tree, Response
<1>2. ASSUME NEW o \in Op, CleanupRuns(o) PROVE TransferTypeOK'
  <2>1. [stage EXCEPT ![o] = "absent"] \in [Op -> Tree]
    BY <1>0 DEF TransferTypeOK, Tree
  <2>2. stage' \in [Op -> Tree]
    BY <1>0, <1>2, <2>1 DEF CleanupRuns, TransferTypeOK
  <2>3. answer' \in [Op -> Response \cup {Nothing}]
    BY <1>0, <1>2 DEF CleanupRuns, TransferTypeOK, Response
  <2> QED BY <1>0, <1>2, <2>2, <2>3 DEF CleanupRuns, TransferTypeOK
<1>3. CASE Reuse
  <2>1. answer' \in [Op -> Response \cup {Nothing}]
    BY <1>0, <1>3 DEF Reuse, TransferTypeOK, RunShape, Tree, Response
  <2> QED BY <1>0, <1>3, <2>1 DEF Reuse, TransferTypeOK, RunShape
<1>4. CASE MakeStage
  BY <1>0, <1>4 DEF MakeStage, TransferTypeOK, RunShape, Tree, Response
<1>5. CASE Receive
  <2>1. stage' \in [Op -> Tree]
    BY <1>0, <1>5 DEF Receive, TransferTypeOK, RunShape, Tree
  <2> QED BY <1>0, <1>5, <2>1 DEF Receive, TransferTypeOK, RunShape
<1>6. CASE Verify
  BY <1>0, <1>6 DEF Verify, TransferTypeOK, RunShape, Tree, Response
<1>7. CASE Commit
  <2>1. final' \in [Gen -> Tree]
    BY <1>0, <1>7 DEF Commit, TransferTypeOK, RunShape, Tree
  <2>2. stage' \in [Op -> Tree] /\ answer' \in [Op -> Response \cup {Nothing}]
    BY <1>0, <1>7 DEF Commit, TransferTypeOK, RunShape, Tree, Response
  <2> QED BY <1>0, <1>7, <2>1, <2>2 DEF Commit, TransferTypeOK
<1>8. CASE StepFails
  BY <1>0, <1>8 DEF StepFails, TransferTypeOK, RunShape, Tree, Response
<1>9. CASE Clean
  <2>1. stage' \in [Op -> Tree]
    BY <1>0, <1>9 DEF Clean, TransferTypeOK, RunShape, Tree
  <2>2. answer' \in [Op -> Response \cup {Nothing}]
    BY <1>0, <1>9 DEF Clean, TransferTypeOK, RunShape, Response
  <2> QED BY <1>0, <1>9, <2>1, <2>2 DEF Clean, TransferTypeOK, RunShape
<1>10. CASE Kill
  BY <1>0, <1>10 DEF Kill, TransferTypeOK, RunShape, Tree, Response
<1>11. ASSUME NEW r \in queue, Lose(r) PROVE TransferTypeOK'
  BY <1>0, <1>11 DEF Lose, TransferTypeOK, RunShape, Tree, Response
<1>12. ASSUME NEW o \in Op, Prepare(o) PROVE TransferTypeOK'
  <2>1. [workspace EXCEPT ![o] = TRUE] \in [Op -> BOOLEAN]
    BY <1>0 DEF TransferTypeOK
  <2>2. workspace' \in [Op -> BOOLEAN]
    BY <1>0, <1>12, <2>1 DEF Prepare, TransferTypeOK
  <2> QED BY <1>0, <1>12, <2>2 DEF Prepare, TransferTypeOK
<1>13. ASSUME NEW o \in Op, StartTransfer(o) PROVE TransferTypeOK'
  BY <1>0, <1>13, Requests DEF StartTransfer, TransferTypeOK
<1>14. ASSUME NEW o \in Op, Stale(o) PROVE TransferTypeOK'
  BY <1>0, <1>14 DEF Stale, TransferTypeOK, RunShape, Tree, Response
<1>15. ASSUME NEW o \in Op, Sent(o) PROVE TransferTypeOK'
  BY <1>0, <1>15 DEF Sent, TransferTypeOK, RunShape, Tree, Response
<1>16. ASSUME NEW o \in Op, Transferred(o) PROVE TransferTypeOK'
  BY <1>0, <1>16 DEF Transferred, TransferTypeOK, RunShape, Tree, Response
<1>17. ASSUME NEW o \in Op, NotTransferred(o) PROVE TransferTypeOK'
  BY <1>0, <1>17 DEF NotTransferred, TransferTypeOK, RunShape, Tree, Response
<1>18. ASSUME NEW o \in Op, Uncertain(o) PROVE TransferTypeOK'
  BY <1>0, <1>18 DEF Uncertain, TransferTypeOK, RunShape, Tree, Response
<1>19. ASSUME NEW o \in Op, Interrupted(o) PROVE TransferTypeOK'
  BY <1>0, <1>19 DEF Interrupted, TransferTypeOK, RunShape, Tree, Response
<1>20. ASSUME NEW o \in Op, AskStatus(o) PROVE TransferTypeOK'
  <2> DEFINE known == recovery[o] \/ stage[o] # "absent"
  <2>1. recovery' \in [Op -> BOOLEAN]
    BY <1>0, <1>20 DEF AskStatus, TransferTypeOK
  <2>2. Cleanup(o) \in Request
    BY Requests
  <2>3. CASE Committed(o) /\ ~known
    BY <1>0, <1>20, <2>1, <2>3 DEF AskStatus, TransferTypeOK
  <2>4. CASE ~(Committed(o) /\ ~known)
    BY <1>0, <1>20, <2>1, <2>2, <2>4 DEF AskStatus, TransferTypeOK
  <2> QED BY <2>3, <2>4
<1>21. ASSUME NEW o \in Op, StageCleaned(o) PROVE TransferTypeOK'
  BY <1>0, <1>21 DEF StageCleaned, TransferTypeOK, RunShape, Tree, Response
<1>22. ASSUME NEW o \in Op, StageRemains(o) PROVE TransferTypeOK'
  BY <1>0, <1>22 DEF StageRemains, TransferTypeOK, RunShape, Tree, Response
<1>23. ASSUME NEW o \in Op, Discard(o) PROVE TransferTypeOK'
  <2>0. Cleanup(o) \in Request
    BY Requests
  <2>1. CASE recovery[o]
    BY <1>0, <1>23, <2>0, <2>1 DEF Discard, TransferTypeOK
  <2>2. CASE ~recovery[o]
    BY <1>0, <1>23, <2>2 DEF Discard, TransferTypeOK
  <2> QED BY <2>1, <2>2
<1>24. ASSUME NEW o \in Op, RemoteDiscarded(o) PROVE TransferTypeOK'
  BY <1>0, <1>24 DEF RemoteDiscarded, TransferTypeOK, RunShape, Tree, Response
<1>25. ASSUME NEW o \in Op, WorkspaceRemoved(o) PROVE TransferTypeOK'
  BY <1>0, <1>25 DEF WorkspaceRemoved, TransferTypeOK, RunShape, Tree, Response
<1>26. ASSUME NEW o \in Op, DiscardFails(o) PROVE TransferTypeOK'
  BY <1>0, <1>26 DEF DiscardFails, TransferTypeOK, RunShape, Tree, Response
<1>27. CASE UNCHANGED transferVars
  BY <1>0, <1>27 DEF transferVars, TransferTypeOK, RunShape, Tree, Response
<1> QED
  BY <1>1, <1>2, <1>3, <1>4, <1>5, <1>6, <1>7, <1>8, <1>9, <1>10, <1>11, <1>12,
     <1>13, <1>14, <1>15, <1>16, <1>17, <1>18, <1>19, <1>20, <1>21, <1>22,
     <1>23, <1>24, <1>25, <1>26, <1>27 DEF TransferNext, Helper, Publisher

(* The invariant is inductive. *)
LEMMA NextTransferIInv == TransferIInv /\ [TransferNext]_transferVars => TransferIInv'
<1> SUFFICES ASSUME TransferIInv, [TransferNext]_transferVars PROVE TransferIInv'
  OBVIOUS
<1> USE Requests DEF Free, At, Advance, Becomes, Respond, Ends, Quiet, Step, State, Waits,
    Ask, Outcome, Recovery, HangUp, Returns, Committed, Runs, host, planVars, call
<1>0. TransferTypeOK /\ TransferTypeOK'
  BY NextTransferTypeOK DEF TransferIInv, GenerationsAreWhole
<1>1. ASSUME NEW o \in Op, TakeLock(o) PROVE TransferIInv'
  <2> USE <1>0, <1>1 DEF TakeLock, TransferTypeOK, Response, TransferIInv
  <2>1. GenerationsAreWhole' /\ AnswersAreTrue'
    BY DEF GenerationsAreWhole, AnswersAreTrue, StageFollowsRun, CallShape, RunShape, Idle
  <2>2. StageStaysUnderHelper' /\ RunShape' /\ StageFollowsRun'
    BY DEF StageStaysUnderHelper, RunShape, StageFollowsRun, RunsOnce, Idle
  <2>3. CallShape'
    BY DEF CallShape, RunShape, Idle
  <2>4. RunsOnce'
    BY DEF RunsOnce, CallShape, RunShape, StageFollowsRun, Idle
  <2>5. CleanedIsClean'
    <3> SUFFICES ASSUME NEW p \in Op, answer[p] = "cleaned"
                 PROVE stray'[p] \/ (stage[p] = "absent" /\ run'.op # p)
      BY DEF CleanedIsClean
    <3>1. CASE p = o
      <4>1. wait[o] # Transfer(o)
        BY <3>1 DEF CallShape
      <4> QED BY <3>1, <4>1
    <3>2. CASE p # o
      BY <3>2 DEF CleanedIsClean
    <3> QED BY <3>1, <3>2
  <2>6. Remembered' /\ PlanShape'
    <3>1. Remembered'
      <4> SUFFICES ASSUME NEW p \in Op, stage[p] # "absent" \/ run'.op = p
                   PROVE stray'[p] \/ recovery[p] \/ publisher[p] \in {"waiting", "asking"}
        BY DEF Remembered
      <4>1. CASE p = o
        BY <4>1 DEF CallShape
      <4>2. CASE p # o
        BY <4>2 DEF Remembered
      <4> QED BY <4>1, <4>2
    <3>2. PlanShape'
      BY DEF PlanShape
    <3> QED BY <3>1, <3>2
  <2> QED BY <2>1, <2>2, <2>3, <2>4, <2>5, <2>6
<1>2. ASSUME NEW o \in Op, CleanupRuns(o) PROVE TransferIInv'
  <2> USE <1>0, <1>2 DEF CleanupRuns, TransferTypeOK, Response, TransferIInv
  <2>1. GenerationsAreWhole' /\ AnswersAreTrue'
    BY DEF GenerationsAreWhole, AnswersAreTrue, StageFollowsRun, CallShape, RunShape, Idle
  <2>2. StageStaysUnderHelper' /\ RunShape' /\ StageFollowsRun'
    BY DEF StageStaysUnderHelper, RunShape, StageFollowsRun, RunsOnce, Idle
  <2>3. CallShape'
    BY DEF CallShape, RunShape, Idle
  <2>4. RunsOnce'
    BY DEF RunsOnce, CallShape, RunShape, StageFollowsRun, Idle
  <2>5. CleanedIsClean'
    BY DEF CleanedIsClean, CallShape, RunShape, Idle
  <2>6. Remembered' /\ PlanShape'
    BY DEF Remembered, PlanShape, CallShape, RunShape, RunsOnce, CleanedIsClean,
       StageFollowsRun, Idle
  <2> QED BY <2>1, <2>2, <2>3, <2>4, <2>5, <2>6
<1>3. CASE Reuse
  <2> USE <1>0, <1>3 DEF Reuse, TransferTypeOK, Response, TransferIInv
  <2>1. GenerationsAreWhole' /\ AnswersAreTrue'
    BY DEF GenerationsAreWhole, AnswersAreTrue, StageFollowsRun, CallShape, RunShape, Idle
  <2>2. StageStaysUnderHelper' /\ RunShape' /\ StageFollowsRun'
    BY DEF StageStaysUnderHelper, RunShape, StageFollowsRun, RunsOnce, Idle
  <2>3. CallShape'
    BY DEF CallShape, RunShape, Idle
  <2>4. RunsOnce'
    BY DEF RunsOnce, CallShape, RunShape, StageFollowsRun, Idle
  <2>5. CleanedIsClean'
    BY DEF CleanedIsClean, CallShape, RunShape, Idle
  <2>6. Remembered' /\ PlanShape'
    BY DEF Remembered, PlanShape, CallShape, RunShape, RunsOnce, CleanedIsClean,
       StageFollowsRun, Idle
  <2> QED BY <2>1, <2>2, <2>3, <2>4, <2>5, <2>6
<1>4. CASE MakeStage
  <2> USE <1>0, <1>4 DEF MakeStage, TransferTypeOK, Response, TransferIInv
  <2>1. GenerationsAreWhole' /\ AnswersAreTrue'
    BY DEF GenerationsAreWhole, AnswersAreTrue, StageFollowsRun, CallShape, RunShape, Idle
  <2>2. StageStaysUnderHelper' /\ RunShape' /\ StageFollowsRun'
    BY DEF StageStaysUnderHelper, RunShape, StageFollowsRun, RunsOnce, Idle
  <2>3. CallShape'
    BY DEF CallShape, RunShape, Idle
  <2>4. RunsOnce'
    BY DEF RunsOnce, CallShape, RunShape, StageFollowsRun, Idle
  <2>5. CleanedIsClean'
    BY DEF CleanedIsClean, CallShape, RunShape, Idle
  <2>6. Remembered' /\ PlanShape'
    BY DEF Remembered, PlanShape, CallShape, RunShape, RunsOnce, CleanedIsClean,
       StageFollowsRun, Idle
  <2> QED BY <2>1, <2>2, <2>3, <2>4, <2>5, <2>6
<1>5. CASE Receive
  <2> USE <1>0, <1>5 DEF Receive, TransferTypeOK, Response, TransferIInv
  <2>1. GenerationsAreWhole' /\ AnswersAreTrue'
    BY DEF GenerationsAreWhole, AnswersAreTrue, StageFollowsRun, CallShape, RunShape, Idle
  <2>2. StageStaysUnderHelper' /\ RunShape' /\ StageFollowsRun'
    BY DEF StageStaysUnderHelper, RunShape, StageFollowsRun, RunsOnce, Idle
  <2>3. CallShape'
    BY DEF CallShape, RunShape, Idle
  <2>4. RunsOnce'
    BY DEF RunsOnce, CallShape, RunShape, StageFollowsRun, Idle
  <2>5. CleanedIsClean'
    BY DEF CleanedIsClean, CallShape, RunShape, Idle
  <2>6. Remembered' /\ PlanShape'
    BY DEF Remembered, PlanShape, CallShape, RunShape, RunsOnce, CleanedIsClean,
       StageFollowsRun, Idle
  <2> QED BY <2>1, <2>2, <2>3, <2>4, <2>5, <2>6
<1>6. CASE Verify
  <2> USE <1>0, <1>6 DEF Verify, TransferTypeOK, Response, TransferIInv
  <2>1. GenerationsAreWhole' /\ AnswersAreTrue'
    BY DEF GenerationsAreWhole, AnswersAreTrue, StageFollowsRun, CallShape, RunShape, Idle
  <2>2. StageStaysUnderHelper' /\ RunShape' /\ StageFollowsRun'
    BY DEF StageStaysUnderHelper, RunShape, StageFollowsRun, RunsOnce, Idle
  <2>3. CallShape'
    BY DEF CallShape, RunShape, Idle
  <2>4. RunsOnce'
    BY DEF RunsOnce, CallShape, RunShape, StageFollowsRun, Idle
  <2>5. CleanedIsClean'
    BY DEF CleanedIsClean, CallShape, RunShape, Idle
  <2>6. Remembered' /\ PlanShape'
    BY DEF Remembered, PlanShape, CallShape, RunShape, RunsOnce, CleanedIsClean,
       StageFollowsRun, Idle
  <2> QED BY <2>1, <2>2, <2>3, <2>4, <2>5, <2>6
<1>7. CASE Commit
  <2> USE <1>0, <1>7 DEF Commit, TransferTypeOK, Response, TransferIInv
  <2>1. GenerationsAreWhole' /\ AnswersAreTrue'
    BY DEF GenerationsAreWhole, AnswersAreTrue, StageFollowsRun, CallShape, RunShape, Idle
  <2>2. StageStaysUnderHelper' /\ RunShape' /\ StageFollowsRun'
    BY DEF StageStaysUnderHelper, RunShape, StageFollowsRun, RunsOnce, Idle
  <2>3. CallShape'
    BY DEF CallShape, RunShape, Idle
  <2>4. RunsOnce'
    BY DEF RunsOnce, CallShape, RunShape, StageFollowsRun, Idle
  <2>5. CleanedIsClean'
    BY DEF CleanedIsClean, CallShape, RunShape, Idle
  <2>6. Remembered' /\ PlanShape'
    BY DEF Remembered, PlanShape, CallShape, RunShape, RunsOnce, CleanedIsClean,
       StageFollowsRun, Idle
  <2> QED BY <2>1, <2>2, <2>3, <2>4, <2>5, <2>6
<1>8. CASE StepFails
  <2> USE <1>0, <1>8 DEF StepFails, TransferTypeOK, Response, TransferIInv
  <2>1. GenerationsAreWhole' /\ AnswersAreTrue'
    BY DEF GenerationsAreWhole, AnswersAreTrue, StageFollowsRun, CallShape, RunShape, Idle
  <2>2. StageStaysUnderHelper' /\ RunShape' /\ StageFollowsRun'
    BY DEF StageStaysUnderHelper, RunShape, StageFollowsRun, RunsOnce, Idle
  <2>3. CallShape'
    BY DEF CallShape, RunShape, Idle
  <2>4. RunsOnce'
    BY DEF RunsOnce, CallShape, RunShape, StageFollowsRun, Idle
  <2>5. CleanedIsClean'
    BY DEF CleanedIsClean, CallShape, RunShape, Idle
  <2>6. Remembered' /\ PlanShape'
    BY DEF Remembered, PlanShape, CallShape, RunShape, RunsOnce, CleanedIsClean,
       StageFollowsRun, Idle
  <2> QED BY <2>1, <2>2, <2>3, <2>4, <2>5, <2>6
<1>9. CASE Clean
  <2> USE <1>0, <1>9 DEF Clean, TransferTypeOK, Response, TransferIInv
  <2>1. GenerationsAreWhole' /\ AnswersAreTrue'
    BY DEF GenerationsAreWhole, AnswersAreTrue, StageFollowsRun, CallShape, RunShape, Idle
  <2>2. StageStaysUnderHelper' /\ RunShape' /\ StageFollowsRun'
    BY DEF StageStaysUnderHelper, RunShape, StageFollowsRun, RunsOnce, Idle
  <2>3. CallShape'
    BY DEF CallShape, RunShape, Idle
  <2>4. RunsOnce'
    BY DEF RunsOnce, CallShape, RunShape, StageFollowsRun, Idle
  <2>5. CleanedIsClean'
    BY DEF CleanedIsClean, CallShape, RunShape, Idle
  <2>6. Remembered' /\ PlanShape'
    BY DEF Remembered, PlanShape, CallShape, RunShape, RunsOnce, CleanedIsClean,
       StageFollowsRun, Idle
  <2> QED BY <2>1, <2>2, <2>3, <2>4, <2>5, <2>6
<1>10. CASE Kill
  <2> USE <1>0, <1>10 DEF Kill, TransferTypeOK, Response, TransferIInv
  <2>1. GenerationsAreWhole' /\ AnswersAreTrue'
    BY DEF GenerationsAreWhole, AnswersAreTrue, StageFollowsRun, CallShape, RunShape, Idle
  <2>2. StageStaysUnderHelper' /\ RunShape' /\ StageFollowsRun'
    BY DEF StageStaysUnderHelper, RunShape, StageFollowsRun, RunsOnce, Idle
  <2>3. CallShape'
    BY DEF CallShape, RunShape, Idle
  <2>4. RunsOnce'
    BY DEF RunsOnce, CallShape, RunShape, StageFollowsRun, Idle
  <2>5. CleanedIsClean'
    BY DEF CleanedIsClean, CallShape, RunShape, Idle
  <2>6. Remembered' /\ PlanShape'
    BY DEF Remembered, PlanShape, CallShape, RunShape, RunsOnce, CleanedIsClean,
       StageFollowsRun, Idle
  <2> QED BY <2>1, <2>2, <2>3, <2>4, <2>5, <2>6
<1>11. ASSUME NEW r \in queue, Lose(r) PROVE TransferIInv'
  <2> USE <1>0, <1>11 DEF Lose, TransferTypeOK, Response, TransferIInv
  <2>1. GenerationsAreWhole' /\ AnswersAreTrue'
    BY DEF GenerationsAreWhole, AnswersAreTrue, StageFollowsRun, CallShape, RunShape, Idle
  <2>2. StageStaysUnderHelper' /\ RunShape' /\ StageFollowsRun'
    BY DEF StageStaysUnderHelper, RunShape, StageFollowsRun, RunsOnce, Idle
  <2>3. CallShape'
    BY DEF CallShape, RunShape, Idle
  <2>4. RunsOnce'
    BY DEF RunsOnce, CallShape, RunShape, StageFollowsRun, Idle
  <2>5. CleanedIsClean'
    BY DEF CleanedIsClean, CallShape, RunShape, Idle
  <2>6. Remembered' /\ PlanShape'
    BY DEF Remembered, PlanShape, CallShape, RunShape, RunsOnce, CleanedIsClean,
       StageFollowsRun, Idle
  <2> QED BY <2>1, <2>2, <2>3, <2>4, <2>5, <2>6
<1>12. ASSUME NEW o \in Op, Prepare(o) PROVE TransferIInv'
  <2> USE <1>0, <1>12 DEF Prepare, TransferTypeOK, Response, TransferIInv
  <2>1. GenerationsAreWhole' /\ AnswersAreTrue'
    BY DEF GenerationsAreWhole, AnswersAreTrue, StageFollowsRun, CallShape
  <2>2. StageStaysUnderHelper' /\ RunShape' /\ StageFollowsRun'
    BY DEF StageStaysUnderHelper, RunShape, StageFollowsRun, RunsOnce, Idle
  <2>3. CallShape'
    BY DEF CallShape
  <2>4. RunsOnce'
    BY DEF RunsOnce, CallShape, RunShape, StageFollowsRun, Idle
  <2>5. CleanedIsClean'
    BY DEF CleanedIsClean, CallShape, RunShape, Idle
  <2>6. Remembered' /\ PlanShape'
    <3>1. Remembered'
      BY DEF Remembered, RunsOnce
    <3>2. PlanShape'
      <4> SUFFICES ASSUME NEW p \in Op PROVE PlanShape!(p)'
        BY DEF PlanShape
      <4>1. CASE p = o
        BY <4>1 DEF PlanShape
      <4>2. CASE p # o
        BY <4>2 DEF PlanShape
      <4> QED BY <4>1, <4>2
    <3> QED BY <3>1, <3>2
  <2> QED BY <2>1, <2>2, <2>3, <2>4, <2>5, <2>6
<1>13. ASSUME NEW o \in Op, StartTransfer(o) PROVE TransferIInv'
  <2> USE <1>0, <1>13 DEF StartTransfer, TransferTypeOK, Response, TransferIInv
  <2>1. GenerationsAreWhole' /\ AnswersAreTrue'
    BY DEF GenerationsAreWhole, AnswersAreTrue, StageFollowsRun, CallShape
  <2>2. StageStaysUnderHelper' /\ RunShape' /\ StageFollowsRun'
    BY DEF StageStaysUnderHelper, RunShape, StageFollowsRun, RunsOnce, Idle
  <2>3. CallShape'
    BY DEF CallShape
  <2>4. RunsOnce'
    BY DEF RunsOnce, CallShape, RunShape, StageFollowsRun, Idle
  <2>5. CleanedIsClean'
    BY DEF CleanedIsClean, CallShape, RunShape, Idle
  <2>6. Remembered' /\ PlanShape'
    BY DEF Remembered, PlanShape, CallShape, RunShape, RunsOnce, CleanedIsClean,
       StageFollowsRun, Idle
  <2> QED BY <2>1, <2>2, <2>3, <2>4, <2>5, <2>6
<1>14. ASSUME NEW o \in Op, Stale(o) PROVE TransferIInv'
  <2> USE <1>0, <1>14 DEF Stale, TransferTypeOK, Response, TransferIInv
  <2>1. GenerationsAreWhole' /\ AnswersAreTrue'
    BY DEF GenerationsAreWhole, AnswersAreTrue, StageFollowsRun, CallShape
  <2>2. StageStaysUnderHelper' /\ RunShape' /\ StageFollowsRun'
    BY DEF StageStaysUnderHelper, RunShape, StageFollowsRun, RunsOnce, Idle
  <2>3. CallShape'
    BY DEF CallShape
  <2>4. RunsOnce'
    BY DEF RunsOnce, CallShape, RunShape, StageFollowsRun, Idle
  <2>5. CleanedIsClean'
    BY DEF CleanedIsClean, CallShape, RunShape, Idle
  <2>6. Remembered' /\ PlanShape'
    BY DEF Remembered, PlanShape, CallShape, RunShape, RunsOnce, CleanedIsClean,
       StageFollowsRun, Idle
  <2> QED BY <2>1, <2>2, <2>3, <2>4, <2>5, <2>6
<1>15. ASSUME NEW o \in Op, Sent(o) PROVE TransferIInv'
  <2> USE <1>0, <1>15 DEF Sent, TransferTypeOK, Response, TransferIInv
  <2>1. GenerationsAreWhole' /\ AnswersAreTrue'
    BY DEF GenerationsAreWhole, AnswersAreTrue, StageFollowsRun, CallShape
  <2>2. StageStaysUnderHelper' /\ RunShape' /\ StageFollowsRun'
    BY DEF StageStaysUnderHelper, RunShape, StageFollowsRun, RunsOnce, Idle
  <2>3. CallShape'
    BY DEF CallShape
  <2>4. RunsOnce'
    BY DEF RunsOnce, CallShape, RunShape, StageFollowsRun, Idle
  <2>5. CleanedIsClean'
    BY DEF CleanedIsClean, CallShape, RunShape, Idle
  <2>6. Remembered' /\ PlanShape'
    BY DEF Remembered, PlanShape, CallShape, RunShape, RunsOnce, CleanedIsClean,
       StageFollowsRun, Idle
  <2> QED BY <2>1, <2>2, <2>3, <2>4, <2>5, <2>6
<1>16. ASSUME NEW o \in Op, Transferred(o) PROVE TransferIInv'
  <2> USE <1>0, <1>16 DEF Transferred, TransferTypeOK, Response, TransferIInv
  <2>1. GenerationsAreWhole' /\ AnswersAreTrue'
    BY DEF GenerationsAreWhole, AnswersAreTrue, StageFollowsRun, CallShape
  <2>2. StageStaysUnderHelper' /\ RunShape' /\ StageFollowsRun'
    BY DEF StageStaysUnderHelper, RunShape, StageFollowsRun, RunsOnce, Idle
  <2>3. CallShape'
    BY DEF CallShape
  <2>4. RunsOnce'
    BY DEF RunsOnce, CallShape, RunShape, StageFollowsRun, Idle
  <2>5. CleanedIsClean'
    BY DEF CleanedIsClean, CallShape, RunShape, Idle
  <2>6. Remembered' /\ PlanShape'
    BY DEF Remembered, PlanShape, CallShape, RunShape, RunsOnce, CleanedIsClean,
       StageFollowsRun, Idle
  <2> QED BY <2>1, <2>2, <2>3, <2>4, <2>5, <2>6
<1>17. ASSUME NEW o \in Op, NotTransferred(o) PROVE TransferIInv'
  <2> USE <1>0, <1>17 DEF NotTransferred, TransferTypeOK, Response, TransferIInv
  <2>1. GenerationsAreWhole' /\ AnswersAreTrue'
    BY DEF GenerationsAreWhole, AnswersAreTrue, StageFollowsRun, CallShape
  <2>2. StageStaysUnderHelper' /\ RunShape' /\ StageFollowsRun'
    BY DEF StageStaysUnderHelper, RunShape, StageFollowsRun, RunsOnce, Idle
  <2>3. CallShape'
    BY DEF CallShape
  <2>4. RunsOnce'
    BY DEF RunsOnce, CallShape, RunShape, StageFollowsRun, Idle
  <2>5. CleanedIsClean'
    BY DEF CleanedIsClean, CallShape, RunShape, Idle
  <2>6. Remembered' /\ PlanShape'
    BY DEF Remembered, PlanShape, CallShape, RunShape, RunsOnce, CleanedIsClean,
       StageFollowsRun, Idle
  <2> QED BY <2>1, <2>2, <2>3, <2>4, <2>5, <2>6
<1>18. ASSUME NEW o \in Op, Uncertain(o) PROVE TransferIInv'
  <2> USE <1>0, <1>18 DEF Uncertain, TransferTypeOK, Response, TransferIInv
  <2>1. GenerationsAreWhole' /\ AnswersAreTrue'
    BY DEF GenerationsAreWhole, AnswersAreTrue, StageFollowsRun, CallShape
  <2>2. StageStaysUnderHelper' /\ RunShape' /\ StageFollowsRun'
    BY DEF StageStaysUnderHelper, RunShape, StageFollowsRun, RunsOnce, Idle
  <2>3. CallShape'
    BY DEF CallShape
  <2>4. RunsOnce'
    BY DEF RunsOnce, CallShape, RunShape, StageFollowsRun, Idle
  <2>5. CleanedIsClean'
    BY DEF CleanedIsClean, CallShape, RunShape, Idle
  <2>6. Remembered' /\ PlanShape'
    BY DEF Remembered, PlanShape, CallShape, RunShape, RunsOnce, CleanedIsClean,
       StageFollowsRun, Idle
  <2> QED BY <2>1, <2>2, <2>3, <2>4, <2>5, <2>6
<1>19. ASSUME NEW o \in Op, Interrupted(o) PROVE TransferIInv'
  <2> USE <1>0, <1>19 DEF Interrupted, TransferTypeOK, Response, TransferIInv
  <2>1. GenerationsAreWhole' /\ AnswersAreTrue'
    BY DEF GenerationsAreWhole, AnswersAreTrue, StageFollowsRun, CallShape
  <2>2. StageStaysUnderHelper' /\ RunShape' /\ StageFollowsRun'
    BY DEF StageStaysUnderHelper, RunShape, StageFollowsRun, RunsOnce, Idle
  <2>3. CallShape'
    BY DEF CallShape
  <2>4. RunsOnce'
    BY DEF RunsOnce, CallShape, RunShape, StageFollowsRun, Idle
  <2>5. CleanedIsClean'
    BY DEF CleanedIsClean, CallShape, RunShape, Idle
  <2>6. Remembered' /\ PlanShape'
    BY DEF Remembered, PlanShape, CallShape, RunShape, RunsOnce, CleanedIsClean,
       StageFollowsRun, Idle
  <2> QED BY <2>1, <2>2, <2>3, <2>4, <2>5, <2>6
<1>20. ASSUME NEW o \in Op, AskStatus(o) PROVE TransferIInv'
  <2> USE <1>0, <1>20 DEF AskStatus, TransferTypeOK, Response, TransferIInv
  <2>1. GenerationsAreWhole' /\ AnswersAreTrue'
    BY DEF GenerationsAreWhole, AnswersAreTrue, StageFollowsRun, CallShape
  <2>2. StageStaysUnderHelper' /\ RunShape' /\ StageFollowsRun'
    BY DEF StageStaysUnderHelper, RunShape, StageFollowsRun, RunsOnce, Idle
  <2>3. CallShape'
    BY DEF CallShape
  <2>4. RunsOnce'
    BY DEF RunsOnce, CallShape, RunShape, StageFollowsRun, Idle
  <2>5. CleanedIsClean'
    BY DEF CleanedIsClean, CallShape, RunShape, Idle
  <2>6. Remembered' /\ PlanShape'
    <3>1. Remembered'
      <4> SUFFICES ASSUME NEW p \in Op, stage[p] # "absent"
                   PROVE stray[p] \/ recovery'[p] \/ publisher'[p] \in {"waiting", "asking"}
        BY DEF Remembered, Idle
      <4>1. CASE p = o
        <5>1. recovery'[o] = (recovery[o] \/ stage[o] # "absent")
          OBVIOUS
        <5> QED BY <4>1, <5>1
      <4>2. CASE p # o
        BY <4>2 DEF Remembered
      <4> QED BY <4>1, <4>2
    <3>2. PlanShape'
      BY DEF PlanShape
    <3> QED BY <3>1, <3>2
  <2> QED BY <2>1, <2>2, <2>3, <2>4, <2>5, <2>6
<1>21. ASSUME NEW o \in Op, StageCleaned(o) PROVE TransferIInv'
  <2> USE <1>0, <1>21 DEF StageCleaned, TransferTypeOK, Response, TransferIInv
  <2>1. GenerationsAreWhole' /\ AnswersAreTrue'
    BY DEF GenerationsAreWhole, AnswersAreTrue, StageFollowsRun, CallShape
  <2>2. StageStaysUnderHelper' /\ RunShape' /\ StageFollowsRun'
    BY DEF StageStaysUnderHelper, RunShape, StageFollowsRun, RunsOnce, Idle
  <2>3. CallShape'
    BY DEF CallShape
  <2>4. RunsOnce'
    BY DEF RunsOnce, CallShape, RunShape, StageFollowsRun, Idle
  <2>5. CleanedIsClean'
    BY DEF CleanedIsClean, CallShape, RunShape, Idle
  <2>6. Remembered' /\ PlanShape'
    BY DEF Remembered, PlanShape, CallShape, RunShape, RunsOnce, CleanedIsClean,
       StageFollowsRun, Idle
  <2> QED BY <2>1, <2>2, <2>3, <2>4, <2>5, <2>6
<1>22. ASSUME NEW o \in Op, StageRemains(o) PROVE TransferIInv'
  <2> USE <1>0, <1>22 DEF StageRemains, TransferTypeOK, Response, TransferIInv
  <2>1. GenerationsAreWhole' /\ AnswersAreTrue'
    BY DEF GenerationsAreWhole, AnswersAreTrue, StageFollowsRun, CallShape
  <2>2. StageStaysUnderHelper' /\ RunShape' /\ StageFollowsRun'
    BY DEF StageStaysUnderHelper, RunShape, StageFollowsRun, RunsOnce, Idle
  <2>3. CallShape'
    BY DEF CallShape
  <2>4. RunsOnce'
    BY DEF RunsOnce, CallShape, RunShape, StageFollowsRun, Idle
  <2>5. CleanedIsClean'
    BY DEF CleanedIsClean, CallShape, RunShape, Idle
  <2>6. Remembered' /\ PlanShape'
    BY DEF Remembered, PlanShape, CallShape, RunShape, RunsOnce, CleanedIsClean,
       StageFollowsRun, Idle
  <2> QED BY <2>1, <2>2, <2>3, <2>4, <2>5, <2>6
<1>23. ASSUME NEW o \in Op, Discard(o) PROVE TransferIInv'
  <2> USE <1>0, <1>23 DEF Discard, TransferTypeOK, Response, TransferIInv
  <2>1. GenerationsAreWhole' /\ AnswersAreTrue'
    BY DEF GenerationsAreWhole, AnswersAreTrue, StageFollowsRun, CallShape
  <2>2. StageStaysUnderHelper' /\ RunShape' /\ StageFollowsRun'
    BY DEF StageStaysUnderHelper, RunShape, StageFollowsRun, RunsOnce, Idle
  <2>3. CallShape'
    <3>1. CASE recovery[o]
      BY <3>1 DEF CallShape
    <3>2. CASE ~recovery[o]
      BY <3>2 DEF CallShape
    <3> QED BY <3>1, <3>2
  <2>4. RunsOnce'
    BY DEF RunsOnce, CallShape, RunShape, StageFollowsRun, Idle
  <2>5. CleanedIsClean'
    BY DEF CleanedIsClean, CallShape, RunShape, Idle
  <2>6. PlanShape'
    BY DEF PlanShape
  <2>7. Remembered'
    <3>1. CASE recovery[o]
      BY <3>1 DEF Remembered
    <3>2. CASE ~recovery[o]
      BY <3>2 DEF Remembered
    <3> QED BY <3>1, <3>2
  <2> QED BY <2>1, <2>2, <2>3, <2>4, <2>5, <2>6, <2>7
<1>24. ASSUME NEW o \in Op, RemoteDiscarded(o) PROVE TransferIInv'
  <2> USE <1>0, <1>24 DEF RemoteDiscarded, TransferTypeOK, Response, TransferIInv
  <2>1. GenerationsAreWhole' /\ AnswersAreTrue'
    BY DEF GenerationsAreWhole, AnswersAreTrue, StageFollowsRun, CallShape
  <2>2. StageStaysUnderHelper' /\ RunShape' /\ StageFollowsRun'
    BY DEF StageStaysUnderHelper, RunShape, StageFollowsRun, RunsOnce, Idle
  <2>3. CallShape'
    BY DEF CallShape
  <2>4. RunsOnce'
    BY DEF RunsOnce, CallShape, RunShape, StageFollowsRun, Idle
  <2>5. CleanedIsClean'
    BY DEF CleanedIsClean, CallShape, RunShape, Idle
  <2>6. Remembered' /\ PlanShape'
    BY DEF Remembered, PlanShape, CallShape, RunShape, RunsOnce, CleanedIsClean,
       StageFollowsRun, Idle
  <2> QED BY <2>1, <2>2, <2>3, <2>4, <2>5, <2>6
<1>25. ASSUME NEW o \in Op, WorkspaceRemoved(o) PROVE TransferIInv'
  <2> USE <1>0, <1>25 DEF WorkspaceRemoved, TransferTypeOK, Response, TransferIInv
  <2>1. GenerationsAreWhole' /\ AnswersAreTrue'
    BY DEF GenerationsAreWhole, AnswersAreTrue, StageFollowsRun, CallShape
  <2>2. StageStaysUnderHelper' /\ RunShape' /\ StageFollowsRun'
    BY DEF StageStaysUnderHelper, RunShape, StageFollowsRun, RunsOnce, Idle
  <2>3. CallShape'
    BY DEF CallShape
  <2>4. RunsOnce'
    BY DEF RunsOnce, CallShape, RunShape, StageFollowsRun, Idle
  <2>5. CleanedIsClean'
    BY DEF CleanedIsClean, CallShape, RunShape, Idle
  <2>6. Remembered' /\ PlanShape'
    BY DEF Remembered, PlanShape, CallShape, RunShape, RunsOnce, CleanedIsClean,
       StageFollowsRun, Idle
  <2> QED BY <2>1, <2>2, <2>3, <2>4, <2>5, <2>6
<1>26. ASSUME NEW o \in Op, DiscardFails(o) PROVE TransferIInv'
  <2> USE <1>0, <1>26 DEF DiscardFails, TransferTypeOK, Response, TransferIInv
  <2>1. GenerationsAreWhole' /\ AnswersAreTrue'
    BY DEF GenerationsAreWhole, AnswersAreTrue, StageFollowsRun, CallShape
  <2>2. StageStaysUnderHelper' /\ RunShape' /\ StageFollowsRun'
    BY DEF StageStaysUnderHelper, RunShape, StageFollowsRun, RunsOnce, Idle
  <2>3. CallShape'
    BY DEF CallShape
  <2>4. RunsOnce'
    BY DEF RunsOnce, CallShape, RunShape, StageFollowsRun, Idle
  <2>5. CleanedIsClean'
    BY DEF CleanedIsClean, CallShape, RunShape, Idle
  <2>6. Remembered' /\ PlanShape'
    BY DEF Remembered, PlanShape, CallShape, RunShape, RunsOnce, CleanedIsClean,
       StageFollowsRun, Idle
  <2> QED BY <2>1, <2>2, <2>3, <2>4, <2>5, <2>6
<1>27. CASE UNCHANGED transferVars
  <2> USE <1>0, <1>27 DEF transferVars, TransferTypeOK, Response, TransferIInv
  <2>1. GenerationsAreWhole' /\ AnswersAreTrue'
    BY DEF GenerationsAreWhole, AnswersAreTrue, StageFollowsRun, CallShape
  <2>2. StageStaysUnderHelper' /\ RunShape' /\ StageFollowsRun'
    BY DEF StageStaysUnderHelper, RunShape, StageFollowsRun, RunsOnce, Idle
  <2>3. CallShape'
    BY DEF CallShape
  <2>4. RunsOnce'
    BY DEF RunsOnce, CallShape, RunShape, StageFollowsRun, Idle
  <2>5. CleanedIsClean'
    BY DEF CleanedIsClean, CallShape, RunShape, Idle
  <2>6. Remembered' /\ PlanShape'
    BY DEF Remembered, PlanShape, CallShape, RunShape, RunsOnce, CleanedIsClean,
       StageFollowsRun, Idle
  <2> QED BY <2>1, <2>2, <2>3, <2>4, <2>5, <2>6
<1> QED
  BY <1>1, <1>2, <1>3, <1>4, <1>5, <1>6, <1>7, <1>8, <1>9, <1>10, <1>11, <1>12,
     <1>13, <1>14, <1>15, <1>16, <1>17, <1>18, <1>19, <1>20, <1>21, <1>22,
     <1>23, <1>24, <1>25, <1>26, <1>27 DEF TransferNext, Helper, Publisher

(* The inductive invariant holds in every reachable state. *)
THEOREM TransferInvariant == TransferSpec => []TransferIInv
  BY InitTransferIInv, NextTransferIInv, PTL DEF TransferSpec

(* Under its final name a generation is complete, whatever was cut off,    *)
(* failed or killed, and a transfer reported as executed has it there.     *)
THEOREM WholeGenerations == TransferSpec => []GenerationsAreWhole
<1>1. TransferIInv => GenerationsAreWhole
  BY DEF TransferIInv
<1> QED BY <1>1, TransferInvariant, PTL

(* No cleanup takes the stage away under the helper that fills it.         *)
THEOREM StageStays == TransferSpec => []StageStaysUnderHelper
<1>1. TransferIInv => StageStaysUnderHelper
  BY DEF TransferIInv
<1> QED BY <1>1, TransferInvariant, PTL

(* A discarded plan has left nothing behind, locally or on the host, but   *)
(* for strays: its recovery path was known on every way it can end.        *)
THEOREM DiscardLeavesNothing == TransferSpec => []DiscardedIsGone
<1>1. TransferIInv => DiscardedIsGone
  BY DEF TransferIInv, DiscardedIsGone, PlanShape, Remembered
<1> QED BY <1>1, TransferInvariant, PTL
=============================================================================
