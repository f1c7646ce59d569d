--------------------------- MODULE ExactSelection ---------------------------
(***************************************************************************)
(* Exact MOD versions in one Pack transaction (huroshiki_core.py:          *)
(* PackTransaction.prepare_exact_mod_version, accept_exact_mod_version,    *)
(* rollback_exact_mod_version, prepare_mod_version_pin and _automatic,     *)
(* _record_source_mutation and the exact part of _apply).                  *)
(*                                                                         *)
(* Preparing a selection rebuilds the whole dependency graph of the staged *)
(* source, verifies every artifact and keeps evidence of what it verified, *)
(* with a checkpoint of the source before.  Selections can be accepted one *)
(* on top of the other and undone in turn; every other change of the       *)
(* staged source makes the evidence worthless.  Only a source that the     *)
(* evidence describes, or that no accepted selection is in, may be         *)
(* applied.                                                                *)
(*                                                                         *)
(* A source is the releases of its MODs, the version intents, and a count  *)
(* of what else was done to it.                                            *)
(***************************************************************************)
EXTENDS Naturals, Sequences, SequencesExt

CONSTANTS Mods, Releases,
          Roots,      \* the explicit roots
          MaxChanges, \* bound on other changes of the staged source
          MaxFaults,  \* bound on failing steps
          MaxOutside, \* bound on changes by another program
          MaxSelects  \* bound on prepared selections

VARIABLES state,    \* of the transaction
          src,      \* the staged source
          real,     \* the Pack's source
          gen,      \* _mutation_generation
          pending,  \* <<evidence>> of a prepared selection, or <<>>
          accepted, \* <<evidence>> of the latest accepted one, or <<>>
          stages,   \* _accepted_exact_stages
          flags,    \* what apply decides by
          restored, \* _rollback_source_digest: <<source>> or <<>>
          op,       \* the operation that prepares
          count     \* the bounds

exactVars == <<state, src, real, gen, pending, accepted, stages, flags, restored, op, count>>

Intent == {"automatic", "user", "locked"}
Source == [mods : [Mods -> Releases], intent : [Mods -> Intent], other : Nat]
Untouched == [mods |-> [m \in Mods |-> CHOOSE r \in Releases : TRUE],
              intent |-> [m \in Mods |-> "automatic"], other |-> 0]
NoOperation == [step |-> "none", sel |-> <<>>, before |-> <<>>, checkpoint |-> <<>>,
                cancel |-> FALSE]

Init ==
  /\ state = "active" /\ src = Untouched /\ real = Untouched /\ gen = 0
  /\ pending = <<>> /\ accepted = <<>> /\ stages = <<>> /\ restored = <<>>
  /\ flags = [overrides |-> FALSE, verify |-> FALSE, intentOnly |-> FALSE, recorded |-> FALSE]
  /\ op = NoOperation
  /\ count = [changes |-> 0, faults |-> 0, outside |-> 0, selects |-> 0]

Count(field, max) == count[field] < max /\ count' = [count EXCEPT ![field] = @ + 1]
Usable == state = "active" /\ op.step = "none"
Prepared == pending # <<>>

-----------------------------------------------------------------------------
(* Preparing a selection *)

Constrained(source) == {m \in Mods : source.intent[m] # "automatic"}

PrepareBegins ==
  /\ Usable /\ ~Prepared /\ Count("selects", MaxSelects)
  /\ \E m \in Mods, r \in Releases :
       op' = [NoOperation EXCEPT !.step = "checkpoint", !.sel = <<m, r>>, !.before = <<src>>]
  /\ UNCHANGED <<state, src, real, gen, pending, accepted, stages, flags, restored>>

(* The source is copied; a copy that does not match is no checkpoint. *)
PrepareCheckpoints ==
  /\ op.step = "checkpoint" /\ ~op.cancel
  /\ IF src = Head(op.before)
     THEN op' = [op EXCEPT !.step = "resolve", !.checkpoint = <<src>>]
     ELSE op' = [op EXCEPT !.step = "fails"]
  /\ UNCHANGED <<state, src, real, gen, pending, accepted, stages, flags, restored, count>>

(* The rebuilt graph: the selection, every root and every version that     *)
(* somebody asked for stay exactly as they are; other dependencies are     *)
(* what the providers resolve.                                             *)
Rebuilt(source, sel) ==
  {mods \in [Mods -> Releases] :
     /\ mods[sel[1]] = sel[2]
     /\ \A m \in Mods \ {sel[1]} :
          m \in Roots \cup Constrained(source) => mods[m] = source.mods[m]}

PrepareStages ==
  /\ op.step = "resolve" /\ ~op.cancel /\ src = Head(op.before)
  /\ \E mods \in Rebuilt(src, op.sel) :
       src' = [src EXCEPT !.mods = mods,
                 !.intent[op.sel[1]] = IF @ = "locked" THEN "locked" ELSE "user"]
  /\ op' = [op EXCEPT !.step = "verify"]
  /\ UNCHANGED <<state, real, gen, pending, accepted, stages, flags, restored, count>>

PrepareSucceeds ==
  /\ op.step = "verify" /\ ~op.cancel
  /\ pending' = <<[source |-> src, before |-> Head(op.before), gen |-> gen]>>
  /\ restored' = <<>> /\ op' = NoOperation
  /\ UNCHANGED <<state, src, real, gen, accepted, stages, flags, count>>

PrepareFails ==
  /\ op.step \in {"checkpoint", "resolve", "verify"}
  /\ \/ op.cancel /\ UNCHANGED count
     \/ op.step = "resolve" /\ src # Head(op.before) /\ UNCHANGED count
     \/ Count("faults", MaxFaults)
  /\ op' = [op EXCEPT !.step = "fails"]
  /\ UNCHANGED <<state, src, real, gen, pending, accepted, stages, flags, restored>>

(* The checkpoint takes the place of the source.  When that fails the      *)
(* operation is kept, and with it the transaction, for the discard.        *)
PrepareRestores ==
  /\ op.step = "fails"
  /\ \/ /\ src' = IF op.checkpoint = <<>> THEN src ELSE Head(op.checkpoint)
        /\ IF op.checkpoint = <<>> \/ Head(op.checkpoint) = Head(op.before)
           THEN op' = NoOperation ELSE op' = [op EXCEPT !.step = "stuck"]
        /\ UNCHANGED count
     \/ /\ op.checkpoint # <<>> /\ Count("faults", MaxFaults)
        /\ op' = [op EXCEPT !.step = "stuck"] /\ UNCHANGED src
  /\ UNCHANGED <<state, real, gen, pending, accepted, stages, flags, restored>>

CancelPrepare ==
  /\ op.step \in {"checkpoint", "resolve", "verify"} /\ ~op.cancel
  /\ op' = [op EXCEPT !.cancel = TRUE]
  /\ UNCHANGED <<state, src, real, gen, pending, accepted, stages, flags, restored, count>>

-----------------------------------------------------------------------------
(* Accepting and undoing *)

(* _validate_exact_selection_stage *)
Valid(evidence) == evidence.gen = gen /\ evidence.source = src

Stamped(evidence, g) == [evidence EXCEPT !.gen = g]

Accept ==
  /\ Usable /\ Prepared /\ Valid(Head(pending))
  /\ gen' = gen + 1
  /\ accepted' = <<Stamped(Head(pending), gen')>>
  /\ stages' = Append(stages, [evidence |-> Head(accepted'), prior |-> accepted,
                               overrides |-> flags.overrides, verify |-> flags.verify])
  /\ flags' = [flags EXCEPT !.overrides = TRUE, !.verify = FALSE]
  /\ pending' = <<>>
  /\ UNCHANGED <<state, src, real, restored, op, count>>

(* The checkpoint of a prepared selection comes back. *)
RollbackPending ==
  /\ Usable /\ Prepared
  /\ src' = Head(pending).before /\ restored' = <<src'>>
  /\ pending' = <<>>
  /\ UNCHANGED <<state, real, gen, accepted, stages, flags, op, count>>

\* mutant: the earlier evidence keeps its old generation
PriorUnstamped(stage, g) == stage.prior

(* The evidence of the selection below holds again, for a new generation. *)
Prior(stage, g) == IF stage.prior = <<>> THEN <<>> ELSE <<Stamped(Head(stage.prior), g)>>

RollbackAccepted ==
  /\ Usable /\ ~Prepared /\ stages # <<>>
  /\ LET stage == Last(stages) IN
       /\ src' = stage.evidence.before /\ restored' = <<src'>>
       /\ gen' = gen + 1
       /\ accepted' = Prior(stage, gen')
       /\ stages' = IF accepted' = <<>> \/ Len(stages) = 1 THEN Front(stages)
                    ELSE [Front(stages) EXCEPT ![Len(stages) - 1].evidence = Head(accepted')]
       /\ flags' = [flags EXCEPT !.overrides = stage.overrides, !.verify = stage.verify]
  /\ UNCHANGED <<state, real, pending, op, count>>

-----------------------------------------------------------------------------
(* Other changes of the staged source *)

(* _record_source_mutation *)
Records(intentOnly) ==
  /\ gen' = gen + 1 /\ accepted' = <<>> /\ stages' = <<>> /\ restored' = <<>>
  /\ flags' = [flags EXCEPT !.verify = @ \/ accepted # <<>>,
                 !.intentOnly = intentOnly /\ (~flags.recorded \/ @), !.recorded = TRUE]

(* remove, set_side, select_updates and their like. *)
Change ==
  /\ Usable /\ ~Prepared /\ Count("changes", MaxChanges)
  /\ src' = [src EXCEPT !.other = @ + 1]
  /\ Records(FALSE)
  /\ UNCHANGED <<state, real, pending, op>>

(* prepare_mod_version_automatic and prepare_mod_version_pin write the     *)
(* version intents only; writing what is there already changes nothing.    *)
ChangeIntent ==
  /\ Usable /\ ~Prepared /\ Count("changes", MaxChanges)
  /\ \E m \in Mods : \E i \in (IF src.intent[m] = "automatic" THEN {"automatic"} ELSE Intent) :
       /\ src' = [src EXCEPT !.intent[m] = i]
       /\ IF src' # src
          THEN /\ gen' = gen + 1 /\ accepted' = <<>> /\ stages' = <<>> /\ restored' = <<>>
               /\ flags' = [flags EXCEPT !.verify = @ \/ accepted # <<>>, !.overrides = TRUE,
                              !.intentOnly = ~flags.recorded \/ @, !.recorded = TRUE]
          ELSE /\ flags' = [flags EXCEPT !.intentOnly = @ \/ ~flags.recorded]
               /\ UNCHANGED <<gen, accepted, stages, restored>>
  /\ UNCHANGED <<state, real, pending, op>>

(* Another program changes the staged source. *)
Outside ==
  /\ state = "active" /\ Count("outside", MaxOutside)
  /\ src' = [src EXCEPT !.other = @ + 1]
  /\ UNCHANGED <<state, real, gen, pending, accepted, stages, flags, restored, op>>

-----------------------------------------------------------------------------
(* The end of the transaction *)

\* mutant: without evidence nothing has to be verified
AdmissibleUnverified ==
  LET evidence == IF Prepared THEN pending ELSE accepted
  IN IF evidence = <<>> THEN TRUE ELSE Valid(Head(evidence))

(* What apply requires: evidence that describes the source, or none and no *)
(* selection that would need it; after a rollback the restored source.     *)
Admissible ==
  LET evidence == IF Prepared THEN pending ELSE accepted
  IN /\ IF evidence # <<>> THEN Valid(Head(evidence)) ELSE ~flags.verify
     /\ restored # <<>> => src = Head(restored)

Apply ==
  /\ Usable /\ Admissible
  /\ state' = "applied" /\ real' = src
  /\ UNCHANGED <<src, gen, pending, accepted, stages, flags, restored, op, count>>

Discard ==
  /\ state = "active" /\ op.step \in {"none", "stuck"}
  /\ state' = "discarded"
  /\ UNCHANGED <<src, real, gen, pending, accepted, stages, flags, restored, op, count>>

Next ==
  \/ PrepareBegins \/ PrepareCheckpoints \/ PrepareStages \/ PrepareSucceeds \/ PrepareFails
  \/ PrepareRestores \/ CancelPrepare \/ Accept \/ RollbackPending \/ RollbackAccepted
  \/ Change \/ ChangeIntent \/ Outside \/ Apply \/ Discard

Spec == Init /\ [][Next]_exactVars

-----------------------------------------------------------------------------
Evidence == ToSet(pending) \cup ToSet(accepted)

(* What is applied is a source somebody verified as a whole, or one that   *)
(* no exact selection is in: neither a change after the acceptance nor any *)
(* chain of undone selections makes an unverified graph pass.              *)
AppliedIsVerified ==
  state = "applied" =>
    \/ \E evidence \in Evidence : evidence.source = real
    \/ real.mods = Untouched.mods

(* The evidence the transaction holds is evidence for the source it has,   *)
(* and the accepted selections form a chain: undoing one leads to the      *)
(* source the one below it verified, whose evidence then holds again.      *)
EvidenceIsFresh ==
  count.outside = 0 /\ op.step = "none" =>
    /\ IF Prepared THEN Valid(Head(pending)) ELSE \A e \in ToSet(accepted) : Valid(e)
    /\ stages # <<>> => accepted = <<Last(stages).evidence>>
    /\ Prepared /\ accepted # <<>> => Head(pending).before = Head(accepted).source
    /\ \A i \in 2..Len(stages) :
         stages[i].evidence.before = stages[i - 1].evidence.source
=============================================================================
