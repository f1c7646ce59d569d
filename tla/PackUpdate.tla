----------------------------- MODULE PackUpdate -----------------------------
(***************************************************************************)
(* Updating the MODs of a Pack (huroshiki_core.py:                         *)
(* UpdatePreparationOperation, PackTransaction.prepare_updates and         *)
(* select_updates, the resolution and the merging of update closures;      *)
(* huroshiki.py: UpdateScreen and the update part of on_unmount).          *)
(*                                                                         *)
(* One thread prepares: it asks Packwiz, MOD by MOD in copies of the       *)
(* staged source, what an update would change.  The user selects; a second *)
(* thread merges the selected closures into the staged source, carries the *)
(* version overrides along and applies.  The event loop runs keys and the  *)
(* 50 ms polls between any two steps of the threads.                       *)
(*                                                                         *)
(* A MOD is a number, in the order of the metadata paths; a release is a   *)
(* number, 0 for "not there".  A Pack is the function from MODs to         *)
(* releases with the version overrides its metadata carries.  What the     *)
(* providers offer does not change during a behaviour.                     *)
(***************************************************************************)
EXTENDS Naturals, Sequences, FiniteSetsExt, Functions, TLC

CONSTANTS Mods,      \* 1..n
          Newest,    \* Newest[m]: the release a provider offers of m
          Needs,     \* Needs[m][v]: the dependencies of release v, a function to releases
          Refused,   \* tuples <<m, v, d, w>>: release v of m does not work with release w of d
          Twins,     \* pairs of MODs with one file, of two providers
          Packs,     \* the Packs one may start from
          MaxFaults, \* bound on failing steps
          MaxApplies \* bound on confirmed applications

VARIABLES tx,    \* the transaction: real and staged source, selection baseline
          prep,  \* UpdatePreparationOperation and its thread
          work,  \* the thread that selects and applies
          ui,    \* the screen and the application
          faults

updateVars == <<tx, prep, work, ui, faults>>

(* [mods, pin: release an override asks for or 0, locked, roots, fixed: the *)
(* MODs that are not eligible for another reason]                          *)
Present(pack) == {m \in Mods : pack.mods[m] # 0}
NoChange == [m \in {} |-> 0]
Candidate == [status : {"absent", "pending", "error", "deadline", "pinned", "version-locked",
                        "version-blocked", "unavailable", "current", "update"},
              changes : {c : c \in {NoChange}} \cup UNION {[S -> 0..2] : S \in SUBSET Mods},
              target : 0..2]
NoCandidate == [status |-> "absent", changes |-> NoChange, target |-> 0]

Init ==
  /\ \E p \in Packs : tx = [state |-> "none", start |-> p, real |-> p, staged |-> p, base |-> <<>>]
  /\ prep = [pc |-> "new", started |-> FALSE, done |-> FALSE, cancelled |-> FALSE,
             event |-> FALSE, error |-> FALSE, discarded |-> FALSE, claimed |-> FALSE,
             cands |-> [m \in Mods |-> NoCandidate]]
  /\ work = [pc |-> "idle", error |-> FALSE, chosen |-> {}, merged |-> <<>>, prior |-> <<>>]
  /\ ui = [at |-> "preparing", sel |-> {}, leave |-> FALSE, dest |-> FALSE, holds |-> FALSE,
           listed |-> FALSE, discard |-> "none", down |-> "no", tries |-> 0]
  /\ faults = 0

-----------------------------------------------------------------------------
(* Merging update closures *)

Collisions(mods) == {t \in Twins : \A m \in t : mods[m] # 0}

(* Of two providers' records of one file an explicit root is kept before a *)
(* dependency, an installed MOD before a new one, then the first in order; *)
(* two roots cannot be merged.                                             *)
Keeps(pack, t) ==
  CASE \E m \in t : m \in pack.roots -> CHOOSE m \in t : m \in pack.roots
    [] \E m \in t : t \cap Present(pack) = {m} -> CHOOSE m \in t : m \in Present(pack)
    [] OTHER -> Min(t)

(* The merged MODs; none when two roots collide. *)
Settled(pack, mods) ==
  IF \E t \in Collisions(mods) : t \subseteq pack.roots THEN {}
  ELSE LET lost == UNION {t \ {Keeps(pack, t)} : t \in Collisions(mods)}
       IN {[m \in Mods |-> IF m \in lost THEN 0 ELSE mods[m]]}

(* Two closures that touch the same MOD must want the same of it: a        *)
(* deletion against an update and two releases are conflicts.              *)
Agree(closures) ==
  \A c, d \in closures : \A m \in DOMAIN c \cap DOMAIN d : c[m] = d[m]

Union(mods, closures) ==
  [m \in Mods |-> IF \E c \in closures : m \in DOMAIN c
                  THEN (CHOOSE c \in closures : m \in DOMAIN c)[m] ELSE mods[m]]

(* The result of merging; none when it fails. *)
MergeClosures(pack, closures) ==
  IF Agree(closures) THEN Settled(pack, Union(pack.mods, closures)) ELSE {}

-----------------------------------------------------------------------------
(* Rebuilding the graph under locked versions: every root is resolved      *)
(* again, with the locked and the selected dependencies fixed.             *)

Locks(pack) == pack.locked \cap Present(pack)
RootArtifact(pack, wanted, r) == IF r \in DOMAIN wanted THEN wanted[r] ELSE pack.mods[r]
Fixed(pack, wanted) ==
  [d \in Locks(pack) \cup (DOMAIN wanted \ pack.roots) |->
     IF d \in Locks(pack) THEN pack.pin[d] ELSE wanted[d]]
ReachedBy(pack, wanted, d) ==
  {r \in pack.roots : d = r \/ d \in DOMAIN Needs[r][RootArtifact(pack, wanted, r)]}
Resolves(pack, wanted, r, d) ==
  IF d \in DOMAIN Fixed(pack, wanted) THEN Fixed(pack, wanted)[d]
  ELSE Needs[r][RootArtifact(pack, wanted, r)][d]

IntentConflict(pack, wanted) ==
  \/ \E m \in DOMAIN wanted \cap Locks(pack) : wanted[m] # pack.pin[m]
  \/ \E d \in Locks(pack) : ReachedBy(pack, wanted, d) = {}

Incompatible(pack, wanted) ==
  \E r \in pack.roots : \E d \in DOMAIN Fixed(pack, wanted) \ {r} :
    <<r, RootArtifact(pack, wanted, r), d, Fixed(pack, wanted)[d]>> \in Refused

Ungraphed(pack, wanted) ==
  \/ \E d \in DOMAIN wanted \ pack.roots : ReachedBy(pack, wanted, d) = {}
  \/ \E r, s \in pack.roots : \E d \in DOMAIN Needs[r][RootArtifact(pack, wanted, r)] :
       \/ d = s /\ Resolves(pack, wanted, r, d) # RootArtifact(pack, wanted, s)
       \/ /\ d \in DOMAIN Needs[s][RootArtifact(pack, wanted, s)]
          /\ Resolves(pack, wanted, r, d) # Resolves(pack, wanted, s, d)

Aggregate(pack, wanted) ==
  [m \in Mods |->
     IF m \in pack.roots THEN RootArtifact(pack, wanted, m)
     ELSE LET by == ReachedBy(pack, wanted, m)
          IN IF by = {} THEN 0 ELSE Resolves(pack, wanted, CHOOSE r \in by : TRUE, m)]

Reconstructions(pack, wanted) ==
  IF IntentConflict(pack, wanted) \/ Incompatible(pack, wanted) \/ Ungraphed(pack, wanted)
  THEN {} ELSE Settled(pack, Aggregate(pack, wanted))

-----------------------------------------------------------------------------
(* The preparation thread *)

Fault == faults < MaxFaults /\ faults' = faults + 1
NoFault == UNCHANGED faults

\* a transaction that is neither applied nor discarded has the project's locks
Held == tx.state \in {"active", "closing"}

(* The transaction's discard: nothing once it is applied or discarded; it  *)
(* fails when a process group or a directory resists, and the transaction  *)
(* is then good for nothing but another discard.                           *)
DiscardTx ==
  \/ tx' = [tx EXCEPT !.state = IF Held THEN "discarded" ELSE @] /\ NoFault
  \/ Held /\ Fault /\ tx' = [tx EXCEPT !.state = "closing"]

Pending == {m \in Mods : prep.cands[m].status = "pending"}
Mark(S, status) == [m \in Mods |-> IF m \in S THEN [prep.cands[m] EXCEPT !.status = status]
                                             ELSE prep.cands[m]]

PrepStart ==
  /\ prep.pc = "new"
  /\ prep' = IF prep.done THEN [prep EXCEPT !.pc = "end"]
             ELSE [prep EXCEPT !.pc = "create", !.started = TRUE]
  /\ UNCHANGED <<tx, work, ui, faults>>

PrepCreate ==
  /\ prep.pc = "create"
  /\ \/ /\ ~prep.event /\ NoFault
        /\ tx' = [tx EXCEPT !.state = "active"]
        /\ prep' = [prep EXCEPT !.pc = "classify"]
     \/ /\ ~prep.event /\ Fault
        /\ prep' = [prep EXCEPT !.pc = "finally", !.error = TRUE] /\ UNCHANGED tx
     \/ /\ prep.event /\ NoFault
        /\ prep' = [prep EXCEPT !.pc = "finally", !.cancelled = TRUE] /\ UNCHANGED tx
  /\ UNCHANGED <<work, ui>>

(* check_cancel, at every step of the preparation. *)
PrepCancelled ==
  /\ prep.pc \in {"classify", "normalize", "resolve", "conclude"} /\ prep.event
  /\ prep' = [prep EXCEPT !.pc = "finally", !.cancelled = TRUE]
  /\ UNCHANGED <<tx, work, ui, faults>>

(* _validated_version_overrides: what a version override names is          *)
(* installed in that release.                                              *)
Validated(pack) == \A m \in Mods : pack.pin[m] # 0 => pack.pin[m] = pack.mods[m]

PrepRefused ==
  /\ prep.pc = "classify" /\ ~prep.event /\ ~Validated(tx.staged)
  /\ prep' = [prep EXCEPT !.pc = "finally", !.error = TRUE]
  /\ UNCHANGED <<tx, work, ui, faults>>

Classified(m) ==
  LET pack == tx.staged
  IN [NoCandidate EXCEPT !.status =
        IF pack.mods[m] = 0 THEN "absent"
        ELSE IF pack.fixed[m] \in {"error", "pinned"} THEN pack.fixed[m]
        ELSE IF m \in pack.locked THEN "version-locked"
        ELSE IF pack.fixed[m] = "unavailable" THEN "unavailable" ELSE "pending"]

PrepClassify ==
  /\ prep.pc = "classify" /\ ~prep.event /\ Validated(tx.staged)
  /\ prep' = [prep EXCEPT !.cands = [m \in Mods |-> Classified(m)], !.pc = "normalize"]
  /\ UNCHANGED <<tx, work, ui, faults>>

(* The disposable copy is refreshed; when that fails, or the deadline has  *)
(* passed, every eligible MOD is an error.                                 *)
PrepNormalize ==
  /\ prep.pc = "normalize"
  /\ \/ Pending = {} /\ prep' = [prep EXCEPT !.pc = "finally"] /\ NoFault
     \/ Pending # {} /\ ~prep.event /\ prep' = [prep EXCEPT !.pc = "resolve"] /\ NoFault
     \/ /\ Pending # {} /\ Fault
        /\ \E s \in {"error", "deadline"} :
             prep' = [prep EXCEPT !.pc = "finally", !.cands = Mark(Pending, s)]
  /\ UNCHANGED <<tx, work, ui>>

(* What `packwiz update' makes of MOD m in a copy: the newest release and  *)
(* the dependencies it needs.                                              *)
Offer(pack, m) == (m :> Newest[m]) @@ Needs[m][Newest[m]]
Changed(before, after) ==
  [m \in {n \in Mods : before[n] # after[n]} |-> after[m]]
OverPack(pack, f) == [m \in Mods |-> IF m \in DOMAIN f THEN f[m] ELSE pack.mods[m]]

(* The results a candidate can be given, with a locked version or without. *)
Closures(pack, m) ==
  IF Locks(pack) = {} THEN {Changed(pack.mods, OverPack(pack, Offer(pack, m)))}
  ELSE {Changed(pack.mods, after) : after \in Reconstructions(pack, m :> Newest[m])}

Resolution(m, c) ==
  [status |-> IF c = NoChange THEN "current" ELSE "update", changes |-> c,
   target |-> Newest[m]]

PrepResolve ==
  /\ prep.pc = "resolve" /\ ~prep.event /\ Pending # {}
  /\ LET m == Min(Pending)
     IN \/ /\ \E c \in Closures(tx.staged, m) :
                prep' = [prep EXCEPT !.cands[m] = Resolution(m, c)]
           /\ NoFault
        \/ /\ Closures(tx.staged, m) = {} /\ NoFault
           /\ \E s \in (IF IntentConflict(tx.staged, m :> Newest[m]) THEN {"version-blocked"}
                        ELSE IF Incompatible(tx.staged, m :> Newest[m])
                        THEN {"version-blocked", "error"} ELSE {"error"}) :
                prep' = [prep EXCEPT !.cands = Mark({m}, s)]
        \/ Fault /\ prep' = [prep EXCEPT !.cands = Mark({m}, "error")]
        \/ Fault /\ prep' = [prep EXCEPT !.cands = Mark(Pending, "deadline")]
  /\ UNCHANGED <<tx, work, ui>>

PrepConclude ==
  /\ prep.pc = "resolve" /\ ~prep.event /\ Pending = {}
  /\ prep' = [prep EXCEPT !.pc = "finally"]
  /\ UNCHANGED <<tx, work, ui, faults>>

\* mutant: only an error discards
OwedOnError == prep.error

Owed == prep.cancelled \/ prep.error \/ prep.event

(* The finally block, under the state lock: a cancelled or failed          *)
(* preparation discards its transaction before it is done.                 *)
PrepFinally ==
  /\ prep.pc = "finally"
  /\ IF Owed
     THEN /\ DiscardTx
          /\ prep' = [prep EXCEPT !.cancelled = @ \/ prep.event, !.discarded = TRUE,
                        !.error = @ \/ tx'.state = "closing",
                        !.done = TRUE, !.pc = "end"]
     ELSE UNCHANGED <<tx, faults>> /\ prep' = [prep EXCEPT !.done = TRUE, !.pc = "end"]
  /\ UNCHANGED <<work, ui>>

PrepNext == \/ PrepStart \/ PrepCreate \/ PrepCancelled \/ PrepRefused \/ PrepClassify
            \/ PrepNormalize \/ PrepResolve \/ PrepConclude \/ PrepFinally

-----------------------------------------------------------------------------
(* The thread that selects and applies *)

\* mutant: the version overrides are not restored
BackToMods(pack) == [pack EXCEPT !.pin = tx.staged.pin]

(* What is restored is the whole staged source, overrides included. *)
BackTo(pack) == pack

\* mutant: a further selection starts from what is staged
BaseStaged == tx.staged

Base == IF tx.base = <<>> THEN tx.staged ELSE Head(tx.base)
Wanted(chosen) == [m \in chosen |-> prep.cands[m].target]

(* Back to the first selection's baseline, then the merged closures of     *)
(* this selection; any failure restores what was staged before.            *)
Merge ==
  /\ work.pc = "merge" /\ ~prep.event /\ tx.state = "active"
  /\ LET from == BackTo(Base)
         results == IF Locks(Base) # {} THEN Reconstructions(from, Wanted(work.chosen))
                    ELSE MergeClosures(from, {prep.cands[m].changes : m \in work.chosen})
     IN \E mods \in results :
          /\ work' = [work EXCEPT !.pc = "stage", !.merged = mods, !.prior = tx.staged]
          /\ tx' = [tx EXCEPT !.base = <<Base>>, !.staged = from]
  /\ UNCHANGED <<prep, ui, faults>>

MergeFails ==
  /\ work.pc = "merge"
  /\ \/ NoFault /\ (prep.event \/ tx.state # "active")
     \/ NoFault /\ IF Locks(Base) # {} THEN Reconstructions(Base, Wanted(work.chosen)) = {}
                   ELSE MergeClosures(Base, {prep.cands[m].changes : m \in work.chosen}) = {}
     \/ Fault
  /\ tx' = IF tx.state = "active" THEN [tx EXCEPT !.base = <<Base>>] ELSE tx
  /\ work' = [work EXCEPT !.pc = "finally", !.error = TRUE]
  /\ UNCHANGED <<prep, ui>>

Touched == {m \in Mods : work.merged[m] # tx.staged.mods[m]}
Intents == {m \in Mods : tx.staged.pin[m] # 0}

Orphaned == {m \in Touched \cap Intents : work.merged[m] = 0}

Drifted == {m \in Touched \cap Intents \cap tx.staged.locked :
              work.merged[m] \notin {0, tx.staged.pin[m]}}

(* An unlocked intent follows the artifact that was selected. *)
Followed == [m \in Mods |-> IF m \in Touched \cap Intents THEN work.merged[m]
                                                        ELSE tx.staged.pin[m]]

Stage ==
  /\ work.pc = "stage" /\ Orphaned = {} /\ Drifted = {}
  /\ tx' = [tx EXCEPT !.staged.mods = work.merged, !.staged.pin = Followed]
  /\ work' = [work EXCEPT !.pc = "apply"]
  /\ UNCHANGED <<prep, ui, faults>>

(* The staged source is put back as it was; when that fails too it is left *)
(* as it is.                                                               *)
StageFails ==
  /\ work.pc = "stage"
  /\ \/ /\ Orphaned \cup Drifted # {} /\ NoFault
        /\ tx' = [tx EXCEPT !.staged = BackTo(work.prior)]
     \/ /\ Fault
        /\ \/ tx' = [tx EXCEPT !.staged = BackTo(work.prior)]
           \/ tx' = [tx EXCEPT !.staged.mods = work.merged]
  /\ work' = [work EXCEPT !.pc = "finally", !.error = TRUE]
  /\ UNCHANGED <<prep, ui>>

(* PackTransaction.apply: all or nothing, and not once it is cancelled. *)
Apply ==
  /\ work.pc = "apply"
  /\ \/ /\ ~prep.event /\ tx.state = "active" /\ NoFault
        /\ tx' = [tx EXCEPT !.state = "applied", !.real = tx.staged]
        /\ work' = [work EXCEPT !.pc = "finally"]
     \/ /\ \/ (prep.event \/ tx.state # "active") /\ NoFault
           \/ Fault
        /\ work' = [work EXCEPT !.pc = "finally", !.error = TRUE] /\ UNCHANGED tx
  /\ UNCHANGED <<prep, ui>>

(* While the application shuts down nobody else discards for the thread. *)
WorkFinally ==
  /\ work.pc = "finally"
  /\ IF ui.down \in {"draining", "over"} THEN DiscardTx ELSE UNCHANGED <<tx, faults>>
  /\ work' = [work EXCEPT !.pc = "done"]
  /\ UNCHANGED <<prep, ui>>

WorkNext == Merge \/ MergeFails \/ Stage \/ StageFails \/ Apply \/ WorkFinally

-----------------------------------------------------------------------------
(* The screen *)

Open == ui.at \notin {"left", "closed"} /\ ui.down = "no"
SameThreads == UNCHANGED <<prep, work>>

(* UpdatePreparationOperation.cancel: who cancels before the thread starts *)
(* or after it is done discards, unless the transaction was claimed.       *)
Cancel ==
  IF (~prep.started \/ prep.done) /\ ~prep.claimed
  THEN /\ IF prep.discarded THEN UNCHANGED <<tx, faults>> ELSE DiscardTx
       /\ prep' = [prep EXCEPT !.cancelled = TRUE, !.event = TRUE, !.discarded = TRUE,
                     !.error = @ \/ (~prep.discarded /\ tx'.state = "closing"),
                     !.done = TRUE]
  ELSE prep' = [prep EXCEPT !.cancelled = TRUE, !.event = TRUE] /\ UNCHANGED <<tx, faults>>

Available == {m \in Mods : prep.cands[m].status = "update"}

PollPreparation ==
  /\ Open /\ ui.at = "preparing" /\ prep.done
  /\ IF prep.error \/ prep.cancelled
     THEN /\ ui' = [ui EXCEPT !.at = IF ui.leave THEN "left" ELSE "choosing", !.leave = FALSE]
          /\ UNCHANGED prep
     ELSE /\ prep' = [prep EXCEPT !.claimed = TRUE]
          /\ ui' = [ui EXCEPT !.at = "choosing", !.holds = TRUE, !.listed = TRUE,
                      !.sel = Available]
  /\ UNCHANGED <<tx, work, faults>>

QuitPreparing ==
  /\ Open /\ ui.at = "preparing" /\ ~ui.leave
  /\ Cancel /\ ui' = [ui EXCEPT !.leave = TRUE]
  /\ UNCHANGED work

Toggle ==
  /\ Open /\ ui.at = "choosing" /\ work.pc = "idle"
  /\ \E m \in Available :
       ui' = [ui EXCEPT !.sel = IF m \in @ THEN @ \ {m} ELSE @ \cup {m}]
  /\ UNCHANGED <<tx, faults>> /\ SameThreads

(* The dialog shows the selection and is confirmed. *)
Confirm ==
  /\ Open /\ ui.at = "choosing" /\ ui.sel # {} /\ ui.holds /\ work.pc = "idle"
  /\ ui.tries < MaxApplies
  /\ work' = [pc |-> "merge", error |-> FALSE, chosen |-> ui.sel, merged |-> <<>>,
              prior |-> <<>>]
  /\ ui' = [ui EXCEPT !.at = "applying", !.tries = @ + 1]
  /\ UNCHANGED <<tx, prep, faults>>

QuitApplying ==
  /\ Open /\ ui.at = "applying" /\ ~ui.dest
  /\ prep' = [prep EXCEPT !.event = TRUE]
  /\ ui' = [ui EXCEPT !.dest = TRUE]
  /\ UNCHANGED <<tx, work, faults>>

(* Leaving discards; the screen goes only after the discard succeeded. *)
Leave(mine) ==
  IF mine
  THEN \/ ui' = [ui EXCEPT !.at = "discarding", !.discard = "running", !.dest = TRUE] /\ NoFault
       \/ ui' = [ui EXCEPT !.at = "choosing"] /\ Fault
  ELSE /\ ui' = [ui EXCEPT !.at = "left", !.holds = FALSE, !.listed = FALSE, !.dest = FALSE]
       /\ NoFault

PollApply ==
  /\ Open /\ ui.at = "applying" /\ work.pc = "done"
  /\ work' = [work EXCEPT !.pc = "idle"]
  /\ IF ui.dest THEN Leave(ui.holds /\ tx.state = "active")
     ELSE IF work.error THEN ui' = [ui EXCEPT !.at = "choosing"] /\ NoFault
     ELSE /\ ui' = [ui EXCEPT !.at = "left", !.holds = FALSE, !.listed = FALSE]
          /\ NoFault
  /\ UNCHANGED <<tx, prep>>

QuitChoosing ==
  /\ Open /\ ui.at = "choosing" /\ work.pc = "idle"
  /\ Leave(ui.holds)
  /\ UNCHANGED tx /\ SameThreads

Discard ==
  /\ ui.discard = "running"
  /\ DiscardTx
  /\ ui' = [ui EXCEPT !.discard = IF tx'.state = "closing" THEN "failed" ELSE "done"]
  /\ SameThreads

\* mutant: only a discard that succeeded is noticed
PollDiscardDone ==
  /\ Open /\ ui.at = "discarding" /\ ui.discard = "done"
  /\ ui' = [ui EXCEPT !.at = "left", !.dest = FALSE, !.discard = "none", !.holds = FALSE,
              !.listed = FALSE]
  /\ UNCHANGED <<tx, faults>> /\ SameThreads

PollDiscard ==
  /\ Open /\ ui.at = "discarding" /\ ui.discard \in {"done", "failed"}
  /\ ui' = IF ui.discard = "failed"
           THEN [ui EXCEPT !.at = "choosing", !.dest = FALSE, !.discard = "none"]
           ELSE [ui EXCEPT !.at = "left", !.dest = FALSE, !.discard = "none", !.holds = FALSE,
                   !.listed = FALSE]
  /\ UNCHANGED <<tx, faults>> /\ SameThreads

-----------------------------------------------------------------------------
(* The end of the application: the screen is unmounted, then on_unmount    *)
(* cancels the worker, waits for it and discards what is still listed.     *)

Unmount ==
  /\ Open
  /\ CASE ui.at = "preparing" -> Cancel /\ UNCHANGED work /\ ui' = [ui EXCEPT !.down = "unmounted"]
       [] ui.at = "applying" -> /\ prep' = [prep EXCEPT !.event = TRUE]
                                /\ ui' = [ui EXCEPT !.down = "unmounted"]
                                /\ UNCHANGED <<tx, work, faults>>
       [] OTHER -> /\ SameThreads /\ UNCHANGED tx
                   /\ IF ui.holds /\ ui.discard = "none"
                      THEN \/ NoFault /\ ui' = [ui EXCEPT !.down = "unmounted",
                                                          !.discard = "running"]
                           \/ Fault /\ ui' = [ui EXCEPT !.down = "unmounted"]
                      ELSE ui' = [ui EXCEPT !.down = "unmounted"] /\ NoFault

Shutdown ==
  /\ ui.down = "unmounted"
  /\ ui' = [ui EXCEPT !.down = "draining"]
  /\ prep' = IF ui.at = "applying" THEN [prep EXCEPT !.event = TRUE] ELSE prep
  /\ UNCHANGED <<tx, work, faults>>

Unfinished == ui.at = "applying" /\ work.pc # "done"

(* The deadline may pass before the worker is done: its transaction is     *)
(* then left to it.                                                        *)
Drain ==
  /\ ui.down = "draining"
  /\ \/ /\ ~Unfinished /\ ui.listed
        /\ DiscardTx
        /\ ui' = [ui EXCEPT !.down = "over", !.listed = tx'.state = "closing"]
     \/ /\ Unfinished \/ ~ui.listed
        /\ ui' = [ui EXCEPT !.down = "over"] /\ UNCHANGED <<tx, faults>>
  /\ SameThreads

UiNext == \/ PollPreparation \/ QuitPreparing \/ Toggle \/ Confirm \/ QuitApplying \/ PollApply
          \/ QuitChoosing \/ Discard \/ PollDiscard \/ Unmount \/ Shutdown \/ Drain

Next == PrepNext \/ WorkNext \/ UiNext

(* The threads run; the event loop's timers fire until they are stopped    *)
(* and find what the threads left.                                         *)
Fairness ==
  /\ WF_updateVars(PrepNext) /\ WF_updateVars(WorkNext) /\ WF_updateVars(Discard)
  /\ WF_updateVars(PollPreparation) /\ WF_updateVars(PollApply) /\ WF_updateVars(PollDiscard)

Spec == Init /\ [][Next]_updateVars /\ Fairness

-----------------------------------------------------------------------------
Targets == [m \in work.chosen |-> prep.cands[m].target]
InClosures == UNION {DOMAIN prep.cands[m].changes : m \in work.chosen}

(* What is applied is what was selected and shown, also after an           *)
(* application of another selection failed: a selected MOD has the release *)
(* that was offered, unless an equivalent file of the other provider took  *)
(* its place; nothing else changed but what the selected closures show,    *)
(* and under a locked version no root that was not selected.               *)
AppliedIsChosen ==
  tx.state = "applied" =>
    \A m \in Mods :
      LET replaced == tx.real.mods[m] = 0 /\ m \in UNION Twins \ tx.start.roots
      IN /\ m \in work.chosen => tx.real.mods[m] = Targets[m] \/ replaced
         /\ tx.real.mods[m] # tx.start.mods[m] /\ m \notin work.chosen =>
              \/ replaced
              \/ IF Locks(tx.start) = {} THEN m \in InClosures ELSE m \notin tx.start.roots

(* A version override survives every update of the Pack: a locked MOD      *)
(* keeps the release it is locked to, any other override names the release *)
(* that is installed.                                                      *)
IntentIsKept ==
  tx.state = "applied" =>
    \A m \in Mods : tx.start.pin[m] # 0 =>
      /\ tx.real.pin[m] = tx.real.mods[m] /\ tx.real.mods[m] # 0
      /\ m \in tx.start.locked => tx.real.pin[m] = tx.start.pin[m]

(* An active transaction, and with it the project lock, is always in       *)
(* somebody's hands who will finish it, whatever step failed.              *)
NothingForgotten ==
  tx.state = "active" =>
    \/ ~prep.done
    \/ ui.down = "no" /\ (ui.holds \/ ui.at = "preparing")
    \/ ui.discard = "running" \/ ui.listed \/ work.pc \notin {"idle", "done"}

(* Who asks to leave a screen leaves it, or is back on it and told why. *)
Stopping == (ui.leave /\ ui.at = "preparing") \/ (ui.dest /\ ui.at \in {"applying", "discarding"})
Answered == ~Stopping \/ ui.down # "no"
LeavingEnds == []<>Answered
=============================================================================
