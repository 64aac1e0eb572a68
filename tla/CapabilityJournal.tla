------------------------- MODULE CapabilityJournal -------------------------
(***************************************************************************)
(* The capability journal of a Task, runtime/kernel/journal.py.            *)
(*                                                                         *)
(* The journal is an append-only hash chain, and every verdict about it is *)
(* taken from journal.analyze, a left fold over its entries.  The models   *)
(* keep that fold, so appending an entry is one application of Analyze.    *)
(* An entry is a record with a phase and an operation:                     *)
(*   admitted    class: the operation class PolicyGate admitted            *)
(*   dispatched                                                            *)
(*   observed    outcome: success, failure, uncertain, not_dispatched      *)
(*   reconciled  state: APPLIED, NOT_APPLIED, DIFFERENT_STATE,             *)
(*               STILL_UNKNOWN                                             *)
(*   denied      (no operation: a refused proposal)                        *)
(***************************************************************************)
EXTENDS Naturals, FiniteSets

(***************************************************************************)
(* Operation classes, one per effect scope and shape: the two lifecycle    *)
(* classes, an older target effect that is only admitted and observed      *)
(* (worker.run, fixture.effect, anything unreviewed), a target read and    *)
(* internal Task work.                                                     *)
(***************************************************************************)
LifecycleClasses == {"write", "exec"}
TargetEffectClasses == LifecycleClasses \cup {"worker"}
OperationClasses == TargetEffectClasses \cup {"read", "internal"}

Outcomes == {"success", "failure", "uncertain", "not_dispatched"}
ReconcileStates == {"APPLIED", "NOT_APPLIED", "DIFFERENT_STATE", "STILL_UNKNOWN"}

(* The integrity problems analyze can report. *)
Problems == {"admitted twice", "outside authority", "dispatched without admission",
             "dispatched out of order", "observed without admission",
             "observed inconsistently", "observed twice", "reconciled without uncertainty"}

(* The facts of the empty journal. *)
EmptyJournal ==
  [admitted |-> {}, lifecycle |-> {}, target |-> {}, dispatched |-> {},
   observed |-> {}, uncertain |-> {}, problems |-> {}, length |-> 0]

JournalFacts(Ops) ==
  [admitted : SUBSET Ops, lifecycle : SUBSET Ops, target : SUBSET Ops,
   dispatched : SUBSET Ops, observed : SUBSET Ops, uncertain : SUBSET Ops,
   problems : SUBSET Problems, length : Nat]

If(condition, problem) == IF condition THEN {problem} ELSE {}

AnalyzeAdmitted(f, op, class, authority) ==
  [f EXCEPT !.admitted = @ \cup {op},
            !.lifecycle = IF class \in LifecycleClasses THEN @ \cup {op} ELSE @ \ {op},
            !.target = IF class \in TargetEffectClasses THEN @ \cup {op} ELSE @ \ {op},
            !.problems = @ \cup If(op \in f.admitted, "admitted twice")
                           \cup If(class \notin authority, "outside authority"),
            !.length = @ + 1]

AnalyzeDispatched(f, op) ==
  [f EXCEPT !.dispatched = @ \cup {op},
            !.problems = @ \cup If(op \notin f.admitted \cap f.lifecycle,
                                   "dispatched without admission")
                           \cup If(op \in f.dispatched \cup f.observed,
                                   "dispatched out of order"),
            !.length = @ + 1]

AnalyzeObserved(f, op, outcome) ==
  [f EXCEPT !.observed = @ \cup {op},
            !.uncertain = IF outcome = "uncertain" THEN @ \cup {op} ELSE @,
            !.problems = @ \cup If(op \notin f.admitted, "observed without admission")
                           \cup If(/\ op \in f.admitted \cap f.lifecycle
                                   /\ (op \in f.dispatched) = (outcome = "not_dispatched"),
                                   "observed inconsistently")
                           \cup If(op \in f.observed, "observed twice"),
            !.length = @ + 1]

AnalyzeReconciled(f, op, state) ==
  [f EXCEPT !.uncertain = IF state = "STILL_UNKNOWN" THEN @ ELSE @ \ {op},
            !.problems = @ \cup If(op \notin f.uncertain, "reconciled without uncertainty"),
            !.length = @ + 1]

AnalyzeDenied(f) == [f EXCEPT !.length = @ + 1]

(* Mutant: an uncertain outcome counts as an outcome. *)
UnresolvedForgetsUncertain(f) == f.admitted \cap f.target \cap (f.dispatched \ f.observed)

(***************************************************************************)
(* unresolved_effects: target effects whose outcome is not established,    *)
(* dispatched without an observation or uncertain and not yet concluded.   *)
(***************************************************************************)
Unresolved(f) ==
  f.admitted \cap f.target \cap ((f.dispatched \ f.observed) \cup f.uncertain)
=============================================================================
