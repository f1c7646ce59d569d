-------------------------- MODULE ContentOperation --------------------------
(***************************************************************************)
(* How a ContentChangePlan replaces packs/<id>/content                     *)
(* (content_operations.py: apply_content_changes, _rollback_publication,   *)
(* begin_discard, _run_discard), step by step against the filesystem.      *)
(*                                                                         *)
(* The plan holds the project lock and a staged copy of the content tree.  *)
(* Applying it exchanges the two directories in one rename and looks       *)
(* afterwards whether what it got was what the plan was made for.  If not, *)
(* or if anything fails, the exchange is undone, now or by a later         *)
(* discard.  Applying and discarding are threads; plan._lock is held for   *)
(* the whole of either, so one waits for the other.  Programs that take no *)
(* lock may edit, remove or replace the directory between any two steps.   *)
(*                                                                         *)
(* A directory is an inode with a content; snapshot digests are equal      *)
(* exactly when the contents are.  Nobody else writes into the transaction *)
(* directory.                                                              *)
(***************************************************************************)
EXTENDS Naturals

CONSTANTS Orig,        \* the content directory the plan was made for
          Stage,       \* the staged copy with the planned changes
          Ext,         \* directories an outside writer may bring
          None,        \* no directory, no holder
          MaxStamp,    \* how many distinct outside edits are explored
          MaxStops,    \* how many errors, interrupts, cancellations
          MaxDiscards  \* how many discards are asked for

Dir == {Orig, Stage} \cup Ext

ASSUME DirAssumption == /\ Orig # Stage /\ {Orig, Stage} \cap Ext = {}
                        /\ None \notin Dir
ASSUME NoneAssumption == None \notin {"apply", "discard", "staging", "retained"}
ASSUME BoundsAssumption == {MaxStamp, MaxStops, MaxDiscards} \subseteq Nat

(* packs/<id>/content; in the transaction directory: staging-content,      *)
(* retained-original-content, retained-failed-content and                  *)
(* retained-discarded-content.                                             *)
Place == {"canonical", "staging", "retained", "failed", "discarded"}

Base == 0     \* the content of baseline_snapshot
Planned == 1  \* the content of result_snapshot

VARIABLES
  at,         \* at[p]: the directory at place p
  content,    \* content[d]
  stamp,      \* the last outside edit
  seen,       \* directories that have been canonical, except Stage
  taken,      \* directories an outside writer moved away
  existed,    \* the project had a content directory when planned
  state,      \* plan.state
  active,     \* plan._publication_active
  committed,  \* plan._publication_committed
  name,       \* plan._original_exchange_name
  lock,       \* the project lock is held
  mutex,      \* the thread that holds plan._lock
  pc,         \* pc[t]: where the thread is
  before,     \* what the exchange took from the canonical place
  disturbed,  \* an outside writer acted after the exchange
  discards,   \* discards asked for so far
  stops       \* errors, interrupts and cancellations so far

fs == <<at, content, stamp, seen, taken>>
plan == <<existed, state, active, committed, name, lock, before, disturbed>>
vars == <<fs, plan, mutex, pc, discards, stops>>

Thread == {"apply", "discard"}
Rollback == {"look", "original", "back", "setAside", "external", "checkExternal",
             "withdraw", "checkRestored"}
Phase == [apply |-> {"idle", "check", "activate", "exchange", "verify", "verifyOriginal",
                     "retain", "name", "mark", "commit", "release", "except", "over",
                     "crashed"} \cup Rollback,
          discard |-> {"idle", "begun", "entered", "stageAside", "release", "crashed"}
                      \cup Rollback]

TypeOK ==
  /\ at \in [Place -> Dir \cup {None}]
  /\ content \in [Dir -> 0..(MaxStamp + 1)]
  /\ stamp \in 1..(MaxStamp + 1)
  /\ seen \in SUBSET Dir /\ taken \in SUBSET Dir
  /\ state \in {"ready", "applying", "applied", "failed", "discarded"}
  /\ existed \in BOOLEAN /\ active \in BOOLEAN /\ committed \in BOOLEAN
  /\ lock \in BOOLEAN /\ disturbed \in BOOLEAN
  /\ name \in {None, "staging", "retained"}
  /\ mutex \in Thread \cup {None}
  /\ DOMAIN pc = Thread /\ pc["apply"] \in Phase.apply /\ pc["discard"] \in Phase.discard
  /\ before \in Dir \cup {None}
  /\ discards \in 0..MaxDiscards
  /\ stops \in 0..MaxStops

(* plan_content_changes_at has copied the tree under the lock and checked  *)
(* that it did not change meanwhile.                                       *)
Init ==
  /\ existed \in BOOLEAN
  /\ at = [p \in Place |-> CASE p = "canonical" /\ existed -> Orig
                             [] p = "staging" -> Stage
                             [] OTHER -> None]
  /\ content = [d \in Dir |-> IF d = Stage THEN Planned ELSE Base]
  /\ stamp = Planned
  /\ seen = IF existed THEN {Orig} ELSE {}
  /\ taken = {}
  /\ state = "ready" /\ active = FALSE /\ committed = FALSE /\ name = None
  /\ lock = TRUE /\ mutex = None
  /\ pc = [t \in Thread |-> "idle"]
  /\ before = None /\ disturbed = FALSE
  /\ discards = 0 /\ stops = 0

-----------------------------------------------------------------------------
(* Shapes shared by the steps *)

Goto(t, l) == pc' = [pc EXCEPT ![t] = l]
In(t, l) == pc[t] = l /\ mutex = t

Renamed(p, q) == [at EXCEPT ![p] = None, ![q] = at[p]]
Exchanged(p, q) == [at EXCEPT ![p] = at[q], ![q] = at[p]]
CanRename(p, q) == at[p] # None /\ at[q] = None
CanExchange(p, q) == at[p] # None /\ at[q] # None

Holds(p, d, c) == at[p] = d /\ (d # None => content[d] = c)

(* _same_baseline: the directory itself and everything in it. *)
Baseline == Holds("canonical", IF existed THEN Orig ELSE None, Base)

(* Where an exception leads.  In apply it reaches the handler, and what    *)
(* the handler's rollback raises is kept as cleanup_error; in a discard it *)
(* ends the discard and the plan stays as it is.                           *)
Fail(t) ==
  IF t = "apply" /\ pc["apply"] \notin Rollback
  THEN Goto(t, "except") /\ UNCHANGED <<state, mutex>>
  ELSE IF t = "apply"
  THEN Goto(t, "over") /\ state' = "failed" /\ mutex' = None
  ELSE Goto(t, "idle") /\ mutex' = None /\ UNCHANGED state

Proceed(t, l) == Goto(t, l) /\ UNCHANGED <<state, mutex>>
Same == UNCHANGED <<content, stamp, seen, taken, existed, before, disturbed, discards, stops>>

CheckThen(t, ok, l) ==
  /\ IF ok THEN Proceed(t, l) ELSE Fail(t)
  /\ UNCHANGED <<at, active, committed, name, lock>> /\ Same

RenameThen(t, p, q, l) ==
  /\ IF CanRename(p, q) THEN at' = Renamed(p, q) /\ Proceed(t, l)
                        ELSE Fail(t) /\ UNCHANGED at
  /\ UNCHANGED <<active, committed, name, lock>> /\ Same

ExchangeThen(t, p, q, l) ==
  /\ IF CanExchange(p, q) THEN at' = Exchanged(p, q) /\ Proceed(t, l)
                          ELSE Fail(t) /\ UNCHANGED at
  /\ UNCHANGED <<active, committed, name, lock>> /\ Same

-----------------------------------------------------------------------------
(* apply_content_changes *)

StartApply ==
  /\ pc["apply"] = "idle" /\ mutex = None
  /\ state = "ready"
  /\ state' = "applying" /\ mutex' = "apply" /\ Goto("apply", "check")
  /\ UNCHANGED <<at, active, committed, name, lock>> /\ Same

Check == /\ In("apply", "check")
         /\ CheckThen("apply", Baseline /\ Holds("staging", Stage, Planned), "activate")

(* Mutant: the publication counts as active only after the rename. *)
ActivateLater ==
  /\ In("apply", "activate") /\ Proceed("apply", "exchange")
  /\ UNCHANGED <<at, active, committed, name, lock>> /\ Same

Activate ==
  /\ In("apply", "activate") /\ Proceed("apply", "exchange")
  /\ active' = TRUE /\ name' = IF existed THEN "staging" ELSE None
  /\ UNCHANGED <<at, committed, lock>> /\ Same

Exchange ==
  /\ In("apply", "exchange")
  /\ \/ /\ existed /\ CanExchange("staging", "canonical")
        /\ at' = Exchanged("staging", "canonical")
     \/ /\ ~existed /\ CanRename("staging", "canonical")
        /\ at' = Renamed("staging", "canonical")
  /\ before' = at["canonical"] /\ disturbed' = FALSE
  /\ Proceed("apply", "verify")
  /\ UNCHANGED <<content, stamp, seen, taken, existed, active, committed, name, lock,
                 discards, stops>>

ExchangeFails ==
  /\ In("apply", "exchange")
  /\ ~IF existed THEN CanExchange("staging", "canonical") ELSE CanRename("staging", "canonical")
  /\ CheckThen("apply", FALSE, "verify")

Verify == /\ In("apply", "verify")
          /\ CheckThen("apply", Holds("canonical", Stage, Planned),
                       IF existed THEN "verifyOriginal" ELSE "mark")

(* Mutant: only the identity of what was exchanged out is verified. *)
VerifyOriginalInode ==
  /\ In("apply", "verifyOriginal")
  /\ CheckThen("apply", at["staging"] = Orig, "retain")

VerifyOriginal ==
  /\ In("apply", "verifyOriginal")
  /\ CheckThen("apply", Holds("staging", Orig, Base), "retain")

(* Mutant: the original is deleted once its successor is in place. *)
RetainNothing ==
  /\ In("apply", "retain") /\ Proceed("apply", "name")
  /\ at' = [at EXCEPT !["staging"] = None]
  /\ UNCHANGED <<active, committed, name, lock>> /\ Same

Retain == In("apply", "retain") /\ RenameThen("apply", "staging", "retained", "name")

Name ==
  /\ In("apply", "name") /\ Proceed("apply", "mark")
  /\ name' = "retained"
  /\ UNCHANGED <<at, active, committed, lock>> /\ Same

Mark == In("apply", "mark") /\ CheckThen("apply", TRUE, "commit")

Commit ==
  /\ In("apply", "commit") /\ Proceed("apply", "release")
  /\ committed' = TRUE
  /\ UNCHANGED <<at, active, name, lock>> /\ Same

ApplyReleases ==
  /\ In("apply", "release")
  /\ lock' = FALSE /\ state' = "applied" /\ mutex' = None /\ Goto("apply", "over")
  /\ UNCHANGED <<at, active, committed, name>> /\ Same

(* The handler: undo what is not committed, then the plan has failed. *)
Handle ==
  /\ In("apply", "except")
  /\ IF active /\ ~committed
     THEN Proceed("apply", "look")
     ELSE Goto("apply", "over") /\ state' = "failed" /\ mutex' = None
  /\ UNCHANGED <<at, active, committed, name, lock>> /\ Same

-----------------------------------------------------------------------------
(* _rollback_publication, called by apply's handler and by a discard *)

(* The end of a rollback: apply has failed, a discard goes on. *)
Undone(t) ==
  /\ active' = FALSE /\ name' = None
  /\ IF t = "apply" THEN Goto(t, "over") /\ state' = "failed" /\ mutex' = None
                    ELSE Proceed(t, "stageAside")

Look(t) ==
  /\ In(t, "look")
  /\ \/ /\ Baseline /\ Undone(t)
        /\ UNCHANGED <<at, committed, lock>> /\ Same
     \/ /\ ~Baseline
        /\ CheckThen(t, at["canonical"] # None /\ content[at["canonical"]] = Planned,
                     IF existed THEN "original" ELSE "withdraw")

(* Mutant: whatever was exchanged out is taken for the original. *)
OriginalAny(t) ==
  /\ In(t, "original")
  /\ CheckThen(t, TRUE, "back")

(* What was exchanged out is the original, or somebody else's directory    *)
(* that must become canonical again.                                       *)
Original(t) ==
  /\ In(t, "original")
  /\ CheckThen(t, TRUE, IF Holds(name, Orig, Base) THEN "back" ELSE "external")

Back(t) == In(t, "back") /\ ExchangeThen(t, name, "canonical", "setAside")
SetAside(t) == In(t, "setAside") /\ RenameThen(t, name, "failed", "checkRestored")
Withdraw(t) == In(t, "withdraw") /\ RenameThen(t, "canonical", "failed", "checkRestored")
External(t) == In(t, "external") /\ ExchangeThen(t, name, "canonical", "checkExternal")

(* The external directory is canonical again, as it was when exchanged. *)
CheckExternal(t) ==
  /\ In(t, "checkExternal")
  /\ \/ /\ at["canonical"] = before /\ ~disturbed
        /\ Undone(t) /\ UNCHANGED <<at, committed, lock>> /\ Same
     \/ disturbed /\ CheckThen(t, FALSE, "checkExternal")

CheckRestored(t) ==
  /\ In(t, "checkRestored")
  /\ \/ /\ Baseline
        /\ Undone(t) /\ UNCHANGED <<at, committed, lock>> /\ Same
     \/ ~Baseline /\ CheckThen(t, FALSE, "checkRestored")

RollbackStep(t) == \/ Look(t) \/ Original(t) \/ Back(t) \/ SetAside(t)
                   \/ Withdraw(t) \/ External(t) \/ CheckExternal(t) \/ CheckRestored(t)

-----------------------------------------------------------------------------
(* begin_discard and _run_discard *)

(* Nothing is to be done for a plan that has given its lock back; a busy   *)
(* plan may be given up at the deadline.                                   *)
BeginDiscard ==
  /\ pc["discard"] = "idle" /\ discards < MaxDiscards
  /\ mutex = None
  /\ ~(state \in {"discarded", "applied"} /\ ~lock)
  /\ discards' = discards + 1 /\ Goto("discard", "begun")
  /\ UNCHANGED <<fs, plan, mutex, stops>>

(* The discard has waited for plan._lock; it may be too late by now.       *)
Enter ==
  /\ pc["discard"] = "begun" /\ mutex = None
  /\ mutex' = "discard" /\ Goto("discard", "entered")
  /\ UNCHANGED <<fs, plan, discards, stops>>

Refuse ==
  /\ In("discard", "entered")
  /\ \/ state = "applying" /\ UNCHANGED stops
     \/ stops < MaxStops /\ stops' = stops + 1
  /\ state' = "failed" /\ Goto("discard", "idle") /\ mutex' = None
  /\ UNCHANGED <<fs, existed, active, committed, name, lock, before, disturbed, discards>>

(* Mutant: the plan's tree is dropped without undoing its publication. *)
AcceptUnrolled ==
  /\ In("discard", "entered") /\ state # "applying"
  /\ CheckThen("discard", TRUE, "stageAside")

(* The thread of the discard cannot be started: the plan counts as failed, *)
(* whoever is at work on it, for nothing is held here.                     *)
StartFails ==
  /\ pc["discard"] = "begun" /\ stops < MaxStops
  /\ stops' = stops + 1
  /\ state' = "failed" /\ Goto("discard", "idle")
  /\ UNCHANGED <<fs, existed, active, committed, name, lock, before, disturbed,
                 mutex, discards>>

Accept ==
  /\ In("discard", "entered") /\ state # "applying"
  /\ CheckThen("discard", TRUE, IF active /\ ~committed THEN "look" ELSE "stageAside")

StageAside ==
  /\ In("discard", "stageAside")
  /\ at' = IF CanRename("staging", "discarded") THEN Renamed("staging", "discarded") ELSE at
  /\ Proceed("discard", "release")
  /\ UNCHANGED <<active, committed, name, lock>> /\ Same

DiscardReleases ==
  /\ In("discard", "release")
  /\ lock' = FALSE
  /\ state' = IF committed THEN "applied" ELSE "discarded"
  /\ Goto("discard", "idle") /\ mutex' = None
  /\ UNCHANGED <<at, active, committed, name>> /\ Same

-----------------------------------------------------------------------------
(* An error, an interrupt, a cancellation or a deadline at any step.  The  *)
(* release of the project lock may fail before or after it took effect;    *)
(* that ends a discard with the plan failed.                               *)
Stop(t) ==
  /\ stops < MaxStops /\ mutex = t
  /\ stops' = stops + 1
  /\ pc[t] \notin {"except", "entered"}
  /\ \/ t = "apply" /\ Fail(t)
     \/ t = "discard" /\ pc[t] # "release" /\ Fail(t)
     \/ /\ t = "discard" /\ pc[t] = "release"
        /\ state' = "failed" /\ Goto(t, "idle") /\ mutex' = None
  /\ lock' \in IF pc[t] = "release" THEN {lock, FALSE} ELSE {lock}
  /\ UNCHANGED <<fs, existed, active, committed, name, before, disturbed, discards>>

(* An interrupt in the handler itself leaves the plan "applying". *)
HandlerInterrupted ==
  /\ In("apply", "except") /\ stops < MaxStops
  /\ stops' = stops + 1 /\ mutex' = None /\ Goto("apply", "over")
  /\ UNCHANGED <<fs, plan, discards>>

Crash ==
  /\ pc["apply"] # "crashed"
  /\ pc' = [t \in Thread |-> "crashed"]
  /\ lock' = FALSE /\ mutex' = None
  /\ UNCHANGED <<fs, existed, state, active, committed, name, before, disturbed,
                 discards, stops>>

-----------------------------------------------------------------------------
(* Outside writers *)

Bystander ==
  /\ disturbed' = TRUE
  /\ UNCHANGED <<existed, state, active, committed, name, lock, before,
                 mutex, pc, discards, stops>>

Edit ==
  /\ at["canonical"] # None /\ stamp <= MaxStamp
  /\ stamp' = stamp + 1
  /\ content' = [content EXCEPT ![at["canonical"]] = stamp + 1]
  /\ UNCHANGED <<at, seen, taken>> /\ Bystander

Unused(x) == x \notin taken /\ \A p \in Place : at[p] # x

Replace(x) ==
  /\ Unused(x) /\ stamp <= MaxStamp
  /\ stamp' = stamp + 1
  /\ at' = [at EXCEPT !["canonical"] = x]
  /\ content' = [content EXCEPT ![x] = stamp + 1]
  /\ seen' = seen \cup {x}
  /\ taken' = IF at["canonical"] = None THEN taken ELSE taken \cup {at["canonical"]}
  /\ Bystander

Remove ==
  /\ at["canonical"] # None /\ stamp <= MaxStamp
  /\ stamp' = stamp + 1
  /\ at' = [at EXCEPT !["canonical"] = None]
  /\ taken' = taken \cup {at["canonical"]}
  /\ UNCHANGED <<content, seen>> /\ Bystander

Apply == \/ StartApply \/ Check \/ Activate \/ Exchange \/ ExchangeFails \/ Verify
         \/ VerifyOriginal \/ Retain \/ Name \/ Mark \/ Commit \/ ApplyReleases \/ Handle

Discard == \/ BeginDiscard \/ StartFails \/ Enter \/ Refuse \/ Accept \/ StageAside
           \/ DiscardReleases

Outside == Edit \/ Remove \/ \E x \in Ext : Replace(x)

Next == \/ Apply \/ Discard
        \/ \E t \in Thread : RollbackStep(t) \/ Stop(t)
        \/ HandlerInterrupted \/ Crash
        \/ Outside

Spec == Init /\ [][Next]_vars

-----------------------------------------------------------------------------
(* Correctness *)

Crashed == pc["apply"] = "crashed"

(* No tree is lost: the original and every directory that somebody put at  *)
(* the canonical place is there or in the transaction directory, unless    *)
(* somebody moved it away, whatever fails and however often.               *)
NothingLost ==
  \A d \in (seen \cup {Stage}) \ taken : \E p \in Place : at[p] = d

(* No lost update: a committed change replaced the very directory and the  *)
(* content the plan was made for.                                          *)
ReplacedIsBaseline ==
  committed /\ existed => Holds("retained", Orig, Base)

(* The project lock is not given back in the middle: when it is free,      *)
(* either the change is committed or the staged tree is out of the         *)
(* canonical place for good, and the state says which: a later discard     *)
(* does not turn an applied plan into a discarded one.                     *)
SettledWhenReleased ==
  /\ TypeOK
  /\ ~lock /\ ~Crashed =>
       \/ committed /\ state # "discarded"
       \/ ~committed /\ ~active /\ at["canonical"] # Stage /\ state # "applied"

(* A rollback that has ended gives back what was canonical right before    *)
(* the exchange, also when that was somebody else's directory.             *)
RollbackIsExact ==
  before # None /\ ~committed /\ ~active /\ ~disturbed /\ ~Crashed => at["canonical"] = before

(* The rollback does end: when only one thing went wrong, an error, an     *)
(* interrupt or a writer before the exchange, a failed apply has undone    *)
(* its exchange by itself, also when it had to give back somebody else's   *)
(* directory.  The one exception is an interrupt after the original was    *)
(* renamed and before its new name was remembered.                         *)
RollbackCompletes ==
  LET wrong == stops + (IF stamp = Planned THEN 0 ELSE 1)
  IN  wrong <= 1 /\ ~disturbed /\ pc["apply"] = "over" /\ active /\ ~committed =>
        state = "applying" \/ (at["retained"] = Orig /\ name = "staging")
=============================================================================
