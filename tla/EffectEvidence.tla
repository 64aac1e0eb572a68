--------------------------- MODULE EffectEvidence ---------------------------
(***************************************************************************)
(* The verifiers over target effects, capability_result and change_set,    *)
(* after src/runtime/kernel/effect_evidence.py: what a completion contract *)
(* concludes about the target from the Task's journal and its retained     *)
(* receipts alone, beside what TargetEffects says really happened there.   *)
(*                                                                         *)
(* The Task has one workspace and one path, so a verifier selects by       *)
(* operation class, and effects are numbered in the order of admission.    *)
(* The receipt an entry refers to is the one the effect's status was set   *)
(* from.  What a process printed and whether the before and after evidence *)
(* of a write is complete are data.                                        *)
(***************************************************************************)
EXTENDS TargetEffects

(* records: the target effects that were dispatched or closed, *)
Records == {op \in facts.admitted : op \in facts.dispatched \cup facts.observed
                                    /\ class[op] \in LifecycleClasses}

(* each with the status its observation and its reconciliations give it. *)
RecordedStatus(op) ==
  CASE op \notin facts.observed -> "in_flight"
    [] op \in facts.observed \cap facts.uncertain -> "uncertain"
    [] OTHER -> status[op]

(* A dispatch without a deployed provider retains an outcome where records   *)
(* expects a receipt with a state, and no effect verifier has evidence then  *)
(* (load_journal).                                                           *)
Unreadable ==
  \E op \in Records : op \in facts.dispatched /\ RecordedStatus(op) = "not_dispatched"

Unknown == {"uncertain", "different_state", "in_flight"}

LastOf(op, S) == op \in S /\ \A other \in S : other <= op
FirstOf(op, S) == op \in S /\ \A other \in S : op <= other

(* select: the effects of a class that are not known never to have run. *)
Select(c) ==
  {op \in Records : class[op] = c /\ RecordedStatus(op) \notin {"not_dispatched", "not_applied"}}

(* result_after_last_change: no write was dispatched later that may have     *)
(* changed something.                                                        *)
AfterLastChange(op) ==
  \A w \in Records : class[w] = "write" /\ w \in facts.dispatched /\ w > op =>
    RecordedStatus(w) \in {"not_applied", "conflict", "rejected"}

(* capability_result: the latest matching effect has the state, and if asked *)
(* for, is later than every change.                                          *)
VerifyResult(c, state, fresh) ==
  LET latest(P(_)) == \E op \in Select(c) : LastOf(op, Select(c)) /\ P(op)
      unknown(op) == RecordedStatus(op) \in Unknown
      holds(op) == RecordedStatus(op) = state /\ (fresh => AfterLastChange(op))
  IN CASE Unreadable -> "unknown"
       [] ~Unreadable /\ Select(c) = {} -> "pending"
       [] ~Unreadable /\ latest(unknown) -> "unknown"
       [] ~Unreadable /\ ~latest(unknown) /\ latest(holds) -> "satisfied"
       [] OTHER -> "failed"

Writes == {op \in Records : class[op] = "write" /\ op \in facts.dispatched}
Applied == {op \in Writes : RecordedStatus(op) = "applied"}

(* Mutant of OpenWrites: only what has no outcome yet. *)
OpenInFlight == {op \in Writes : RecordedStatus(op) = "in_flight"}

(* The writes of unknown outcome that no later applied write overtook. *)
OpenWrites ==
  {op \in Writes : RecordedStatus(op) \in Unknown /\ \A other \in Applied : other < op}

(* The net change of a set of applied writes: the first one's before against *)
(* the last one's after.                                                     *)
Changes(S, content) ==
  \E first, last \in S : FirstOf(first, S) /\ LastOf(last, S) /\ last # pre[first] /\ content = last
Changed(S) == \E content \in Ops : Changes(S, content)

(* change_set: expected_content for the path, *)
VerifyContent(content) ==
  CASE Unreadable -> "unknown"
    [] ~Unreadable /\ Changed(Applied) /\ ~Changes(Applied, content) -> "failed"
    [] ~Unreadable /\ ~(Changed(Applied) /\ ~Changes(Applied, content)) /\ OpenWrites # {} -> "unknown"
    [] OTHER -> IF Changed(Applied) THEN "satisfied" ELSE "pending"

(* and only_paths where the path is not allowed. *)
VerifyUntouched ==
  CASE Unreadable -> "unknown"
    [] ~Unreadable /\ Changed(Applied) -> "failed"
    [] OTHER -> IF OpenWrites # {} THEN "unknown" ELSE "satisfied"

-----------------------------------------------------------------------------
(* A write that changed nothing and never will. *)
Idle(w) == receipt[w] # "applied" /\ w \notin inflight

(* What the verifiers take for demonstrated is so on the target, whatever    *)
(* replies were lost and whatever reconciliation concluded: an expected      *)
(* content was applied and no later write was or will be; a path is          *)
(* untouched because none was or will be, unless the applied ones undid each *)
(* other; a result after the last change ended as it says, no later write    *)
(* was or will be applied, and none of the earlier ones can still arrive but *)
(* one that reconciliation closed as DIFFERENT_STATE (records,               *)
(* verify_result, verify_change_set).                                        *)
EvidenceIsTrue ==
  StrongAbsence =>
    /\ \A op \in Ops : VerifyContent(op) = "satisfied" =>
         /\ receipt[op] = "applied"
         /\ \A w \in Ops : class[w] = "write" /\ w > op => Idle(w)
    /\ VerifyUntouched = "satisfied" /\ Applied = {} =>
         \A w \in Ops : class[w] = "write" => Idle(w)
    /\ VerifyResult("exec", "completed", TRUE) = "satisfied" =>
         \E op \in Ops :
           /\ class[op] = "exec" /\ receipt[op] = "completed"
           /\ \A w \in Ops : class[w] = "write" =>
                /\ w > op => Idle(w)
                /\ w < op /\ w \in inflight => status[w] = "different_state"
=============================================================================
