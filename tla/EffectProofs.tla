---------------------------- MODULE EffectProofs ----------------------------
(***************************************************************************)
(* Machine-checked theorems about target effects, for every value of the   *)
(* constants of TargetEffects and EffectEvidence, in four parts that build *)
(* on one another: what is on the books, what a record says of the effect, *)
(* what a completion may rely on, and the journal a Task leaves.           *)
(***************************************************************************)
EXTENDS EffectEvidence, FiniteSetTheorems, TLAPS

(***************************************************************************)
(* Part 1.  The books: the journal's facts, the Task's state and the       *)
(* provider's, typed and in step (TargetEffects).                          *)
(***************************************************************************)
-----------------------------------------------------------------------------
(* Appending an entry keeps the shape of the journal's facts: one lemma per *)
(* phase of journal.analyze.                                                *)

(* An admitted entry. *)
LEMMA AdmittedTyped ==
  ASSUME NEW f \in JournalFacts(Ops), NEW op \in Ops, NEW c, NEW authority
  PROVE  AnalyzeAdmitted(f, op, c, authority) \in JournalFacts(Ops)
<1> DEFINE problems == f.problems \cup If(op \in f.admitted, "admitted twice")
                                  \cup If(c \notin authority, "outside authority")
           lifecycle1 == IF c \in LifecycleClasses THEN f.lifecycle \cup {op}
                                                   ELSE f.lifecycle \ {op}
           target1 == IF c \in TargetEffectClasses THEN f.target \cup {op}
                                                   ELSE f.target \ {op}
<1>1. problems \in SUBSET Problems
  BY DEF JournalFacts, Problems, If
<1>2. /\ lifecycle1 \in SUBSET Ops
      /\ target1 \in SUBSET Ops
      /\ f.admitted \cup {op} \in SUBSET Ops
      /\ f.length + 1 \in Nat
  BY DEF JournalFacts
<1> HIDE DEF problems, lifecycle1, target1
<1>3. [f EXCEPT !.admitted = @ \cup {op}, !.lifecycle = lifecycle1, !.target = target1,
                !.problems = problems, !.length = @ + 1] \in JournalFacts(Ops)
  BY <1>1, <1>2 DEF JournalFacts
<1> QED BY <1>3 DEF problems, lifecycle1, target1, AnalyzeAdmitted

(* A dispatched entry. *)
LEMMA DispatchedTyped ==
  ASSUME NEW f \in JournalFacts(Ops), NEW op \in Ops
  PROVE  AnalyzeDispatched(f, op) \in JournalFacts(Ops)
<1> DEFINE problems == f.problems \cup If(op \notin f.admitted \cap f.lifecycle,
                                          "dispatched without admission")
                                  \cup If(op \in f.dispatched \cup f.observed,
                                          "dispatched out of order")
<1>1. problems \in SUBSET Problems
  BY DEF JournalFacts, Problems, If
<1>2. f.dispatched \cup {op} \in SUBSET Ops /\ f.length + 1 \in Nat
  BY DEF JournalFacts
<1> HIDE DEF problems
<1>3. [f EXCEPT !.dispatched = @ \cup {op}, !.problems = problems,
                !.length = @ + 1] \in JournalFacts(Ops)
  BY <1>1, <1>2 DEF JournalFacts
<1> QED BY <1>3 DEF problems, AnalyzeDispatched

(* An observed entry. *)
LEMMA ObservedTyped ==
  ASSUME NEW f \in JournalFacts(Ops), NEW op \in Ops, NEW outcome
  PROVE  AnalyzeObserved(f, op, outcome) \in JournalFacts(Ops)
<1> DEFINE problems == f.problems \cup If(op \notin f.admitted, "observed without admission")
                                  \cup If(/\ op \in f.admitted \cap f.lifecycle

        /\ (op \in f.dispatched) = (outcome = "not_dispatched"),
                                          "observed inconsistently")
                                  \cup If(op \in f.observed, "observed twice")
           uncertain == IF outcome = "uncertain" THEN f.uncertain \cup {op} ELSE f.uncertain
<1>1. problems \in SUBSET Problems
  BY DEF JournalFacts, Problems, If
<1>2. /\ uncertain \in SUBSET Ops
      /\ f.observed \cup {op} \in SUBSET Ops
      /\ f.length + 1 \in Nat
  BY DEF JournalFacts
<1> HIDE DEF problems, uncertain
<1>3. [f EXCEPT !.observed = @ \cup {op}, !.uncertain = uncertain, !.problems = problems,
                !.length = @ + 1] \in JournalFacts(Ops)
  BY <1>1, <1>2 DEF JournalFacts
<1> QED BY <1>3 DEF problems, uncertain, AnalyzeObserved

(* A reconciled entry. *)
LEMMA ReconciledTyped ==
  ASSUME NEW f \in JournalFacts(Ops), NEW op \in Ops, NEW state
  PROVE  AnalyzeReconciled(f, op, state) \in JournalFacts(Ops)
<1> DEFINE problems == f.problems \cup If(op \notin f.uncertain, "reconciled without uncertainty")
           uncertain == IF state = "STILL_UNKNOWN" THEN f.uncertain ELSE f.uncertain \ {op}
<1>1. problems \in SUBSET Problems
  BY DEF JournalFacts, Problems, If
<1>2. uncertain \in SUBSET Ops /\ f.length + 1 \in Nat
  BY DEF JournalFacts
<1> HIDE DEF problems, uncertain
<1>3. [f EXCEPT !.uncertain = uncertain, !.problems = problems,
                !.length = @ + 1] \in JournalFacts(Ops)
  BY <1>1, <1>2 DEF JournalFacts
<1> QED BY <1>3 DEF problems, uncertain, AnalyzeReconciled

(* A denied entry. *)
LEMMA DeniedTyped ==
  ASSUME NEW f \in JournalFacts(Ops)
  PROVE  AnalyzeDenied(f) \in JournalFacts(Ops)
BY DEF AnalyzeDenied, JournalFacts

(* The empty journal. *)
LEMMA EmptyTyped == EmptyJournal \in JournalFacts(Ops)
BY DEF EmptyJournal, JournalFacts

-----------------------------------------------------------------------------
(* The inductive invariant.                                                *)

(* Where a Task that is stopping can stand: close_effects and the final records. *)
StopPoints == {"close", "closed", "taskStop", "receipt", "observe", "reconcile",
               "reconciled", "finish", "emit", "done", "raised"}

(* Where perform_target handles the operation of the present turn. *)
RequestPoints == {"request", "ask", "approval", "dispatch", "attempt", "send", "reply"}

(* The present turn has not decided its operation yet, or has not dispatched it. *)
Fresh ==
  ~Stopping /\ (\/ pc \in {"boundary", "decide", "admit", "request", "ask"}
                \/ ret = "boundary" /\ pc \in {"reconcile", "reconciled", "settle"})

(* What perform_target established before it records the dispatch of op. *)
Authorized(op) ==
  /\ op \in facts.admitted
  /\ class[op] \in Authority
  /\ class[op] \in AskBefore => answer[op] = "APPROVE"

(* The local variables where the next await reads them. *)
ControlInv ==
  /\ pc = "supervise" => tick < MaxPolls
  /\ pc = "receipt" => reply \in {"uncertain", "not_dispatched"} \cup TerminalReceipts
  /\ turn = 0 => /\ pc \in {"settle", "completed", "finish", "emit", "done", "raised"}
                 /\ ret = "outcome"
                 /\ \A op \in Ops : status[op] = "none"
  /\ Stopping => pc \in StopPoints
  /\ pc \in {"close", "taskStop"} => Stopping
  /\ pc \in RequestPoints => focus = turn

(* Everything sent, and everything about to be sent, was authorized first. *)
AuthorityInv ==
  /\ pc = "admit" => class[turn] \in Authority
  /\ pc \in RequestPoints => focus \in facts.admitted /\ class[focus] \in Authority
  /\ pc \in {"dispatch", "attempt", "send", "reply"} => Authorized(focus)
  /\ pc \in {"attempt", "send", "reply"} => focus \in facts.dispatched
  /\ \A op \in sent : op <= turn /\ Authorized(op) /\ op \in facts.dispatched
  /\ Fresh => turn \notin sent

Inv == TypeOK /\ ControlInv /\ AuthorityInv

(* Types hold initially. *)
LEMMA InitTyped == Init => TypeOK
<1> SUFFICES ASSUME Init PROVE TypeOK
  OBVIOUS
<1>1. 1 \in Ops /\ 0 \in Contents /\ turn \in 0..MaxTurns /\ tick \in 0..MaxPolls
      /\ crashes \in 0..MaxCrashes /\ failures \in 0..MaxFailures
  BY TargetEffectsAssumption DEF Ops, Contents, ThirdParty, Init
<1>2. status \in [Ops -> Statuses] /\ pre \in [Ops -> Contents]
  BY <1>1 DEF Init, Statuses
<1>3. facts \in JournalFacts(Ops)
  BY EmptyTyped DEF Init
<1> QED BY <1>1, <1>2, <1>3 DEF Init, TypeOK, Points, Lifecycles

(* What the provider can be asked: an answer is a receipt or one of three others. *)
LEMMA QueryTyped ==
  ASSUME TypeOK, NEW op \in Ops, NEW a \in Query(op)
  PROVE  a \in {"raise", "unknown", "absent"} \cup ReceiptStates
BY DEF TypeOK, Query

(* What effects.reconcile can conclude. *)
LEMMA ReconciliationTyped ==
  ASSUME TypeOK, NEW op \in Ops, NEW v \in Reconciliation(op)
  PROVE  v.state \in ReconcileStates /\ v.status \in Statuses
<1> DEFINE unknown == [state |-> "STILL_UNKNOWN", status |-> "uncertain"]
           none == [state |-> "NOT_APPLIED", status |-> "not_applied"]
           other == [state |-> "DIFFERENT_STATE", status |-> "different_state"]
<1>1. \/ v \in {unknown, none, other}
      \/ \E a \in TerminalReceipts : v = [state |-> "APPLIED", status |-> a]
  BY DEF Reconciliation
<1> QED BY <1>1 DEF ReconcileStates, Statuses

(* The effects reconcile_effects and close_effects visit are operations. *)
LEMMA VisitedTyped ==
  /\ Uncertain \subseteq Ops
  /\ {op \in Ops : status[op] # "none"} \subseteq Ops
BY DEF Uncertain

(* The bounds. *)
LEMMA Bounds ==
  /\ MaxTurns \in Nat /\ MaxPolls \in Nat /\ MaxCrashes \in Nat /\ MaxFailures \in Nat
  /\ MaxTurns >= 1 /\ MaxPolls >= 1 /\ Preconditions \subseteq Contents
BY TargetEffectsAssumption DEF Contents, ThirdParty

(* Where a stop, or an error that escapes the run, leaves the control variables. *)
LEMMA StopTyped ==
  ASSUME TypeOK, NEW kind \in {"FAILED", "CANCELLED"}, Stop(kind) \/ Escape
  PROVE  /\ pc' \in Points
         /\ lifecycle' \in Lifecycles
         /\ todo' \subseteq Ops
         /\ concluded' \in BOOLEAN
         /\ tick' \in 0..MaxPolls
         /\ reply' \in {"none", reply}
<1>1. CASE Stop(kind)
  <2>1. todo' \subseteq Ops
    BY <1>1, VisitedTyped DEF Stop
  <2>2. pc' \in {"finish", "close"}
    BY <1>1, <2>1 DEF Stop
  <2>3. /\ lifecycle' \in Lifecycles
        /\ concluded' \in BOOLEAN
        /\ reply' \in {"none", reply}
    BY <1>1 DEF Stop, Lifecycles
  <2>4. tick' \in 0..MaxPolls
    BY <1>1, Bounds DEF Stop
  <2> QED BY <2>1, <2>2, <2>3, <2>4 DEF Points
<1>2. CASE Escape
  BY <1>2 DEF Escape, TypeOK, Points
<1> QED BY <1>1, <1>2

(* Every action keeps the types. *)
LEMMA TypeStep == Inv /\ Next => TypeOK'
<1> SUFFICES ASSUME Inv, Next PROVE TypeOK'
  OBVIOUS
<1>1. CASE Lower
  BY <1>1, Bounds DEF Inv, TypeOK, Lower, LowerRefused, Lowered, Set, Points, Statuses,
    signals, world, bounds
<1>2. CASE Ask
  BY <1>2 DEF Inv, TypeOK, Ask, Set, Points, Statuses, Lifecycles, world, bounds
<1>3. CASE AwaitApproval
  BY <1>3 DEF Inv, TypeOK, AwaitApproval, Set, Points, Statuses, Lifecycles, signals,
    world, bounds
<1>4. CASE RecordClosed
  BY <1>4, ObservedTyped DEF Inv, TypeOK, RecordClosed, Record, Points, signals, world,
    bounds
<1>5. CASE RecordDispatch
  BY <1>5, DispatchedTyped DEF Inv, TypeOK, RecordDispatch, Record, Set, Points,
    Statuses, signals, world, bounds
<1>6. CASE Attempt
  BY <1>6, QueryTyped, Bounds DEF Inv, TypeOK, Attempt, Outcome, Deliver, Set, Points,
    Statuses,
    TerminalReceipts, signals, world, bounds
<1>7. CASE Send
  BY <1>7 DEF Inv, TypeOK, Send, Points, task, signals, bounds
<1>8. CASE Reply
  BY <1>8, Bounds DEF Inv, TypeOK, Reply, Deliver, Set, Points, Statuses,
    TerminalReceipts, signals, world, bounds
<1>9. CASE Poll
  BY <1>9, QueryTyped, Bounds DEF Inv, TypeOK, Poll, PollAnswers, Outcome, ControlInv,
    Points,
    TerminalReceipts, task, signals, world, bounds
<1>10. CASE StopRequested
  BY <1>10 DEF Inv, TypeOK, StopRequested, Points, task, signals, world, bounds
<1>11. CASE StopProcess
  BY <1>11, Bounds DEF Inv, TypeOK, StopProcess, AfterStop, StoppedState, StopAnswer,
    Points, TerminalReceipts, ReceiptStates, WriteStates, ExecStates, task, signals
<1>12. CASE SettleEffect
  BY <1>12, Bounds DEF Inv, TypeOK, SettleEffect, ControlInv, Set, Points, Statuses,
    signals, world, bounds
<1>13. CASE Observe
  BY <1>13, ObservedTyped, VisitedTyped DEF Inv, TypeOK, Observe, Record, Points,
    signals, world, bounds
<1>14. CASE Reconcile
  BY <1>14, ReconciliationTyped DEF Inv, TypeOK, Reconcile, Set, First, Points, signals,
    world, bounds
<1>15. CASE RecordReconciled
  BY <1>15, ReconciledTyped DEF Inv, TypeOK, RecordReconciled, Record, Points, signals,
    world, bounds
<1>16. CASE ReconcileDone
  BY <1>16 DEF Inv, TypeOK, ReconcileDone, Points, signals, world, bounds
<1>17. CASE SettleCompleted
  BY <1>17 DEF Inv, TypeOK, SettleCompleted, Points, Lifecycles, signals, world, bounds
<1>18. CASE SettleIrrecoverable
  <2>1. /\ pc' \in Points /\ lifecycle' \in Lifecycles /\ todo' \subseteq Ops
        /\ concluded' \in BOOLEAN /\ tick' \in 0..MaxPolls /\ reply' \in {"none", reply}
    BY <1>18, StopTyped DEF Inv, SettleIrrecoverable
  <2> QED BY <1>18, <2>1 DEF Inv, TypeOK, SettleIrrecoverable, Lifecycles, signals,
    world, bounds
<1>19. CASE SettleContinue
  BY <1>19, Bounds DEF Inv, TypeOK, SettleContinue, Points, Lifecycles, signals, world,
    bounds
<1>20. CASE Boundary
  BY <1>20, VisitedTyped DEF Inv, TypeOK, Boundary, Points, task, signals, world, bounds
<1>21. CASE Decide
  BY <1>21, DeniedTyped, Bounds DEF Inv, TypeOK, Decide, ControlInv, Record, Points,
    Ops, signals, world, bounds
<1>22. CASE Admit
  BY <1>22, AdmittedTyped, Bounds DEF Inv, TypeOK, Admit, ControlInv, Record, Points,
    Ops, signals, world, bounds
<1>23. CASE Capability
  BY <1>23, ObservedTyped DEF Inv, TypeOK, Capability, Record, Points, signals, world,
    bounds
<1>24. CASE Completed
  BY <1>24 DEF Inv, TypeOK, Completed, Points, task, signals, world, bounds
<1>25. CASE Close
  BY <1>25 DEF Inv, TypeOK, Close, First, Set, Points, Statuses, signals, world, bounds
<1>26. CASE CloseDone
  BY <1>26, VisitedTyped DEF Inv, TypeOK, CloseDone, Points, task, signals, world,
    bounds
<1>27. CASE TaskStop
  BY <1>27, QueryTyped, Bounds DEF Inv, TypeOK, TaskStop, StopAnswer, Points,
    TerminalReceipts, ReceiptStates, WriteStates, ExecStates, task, signals
<1>28. CASE Finish
  BY <1>28 DEF Inv, TypeOK, Finish, Points, signals, world, bounds
<1>29. CASE EmitCompletion
  BY <1>29 DEF Inv, TypeOK, EmitCompletion, Points, task, signals, world, bounds
<1>30. CASE DeliverCancel
  <2>1. /\ pc' \in Points /\ lifecycle' \in Lifecycles /\ todo' \subseteq Ops
        /\ concluded' \in BOOLEAN /\ tick' \in 0..MaxPolls /\ reply' \in {"none", reply}
    BY <1>30, StopTyped DEF Inv, DeliverCancel
  <2> QED BY <1>30, <2>1 DEF Inv, TypeOK, DeliverCancel, world, bounds
<1>31. CASE StepFails
  <2>1. /\ pc' \in Points /\ lifecycle' \in Lifecycles /\ todo' \subseteq Ops
        /\ concluded' \in BOOLEAN /\ tick' \in 0..MaxPolls /\ reply' \in {"none", reply}
    BY <1>31, StopTyped DEF Inv, StepFails
  <2> QED BY <1>31, <2>1, Bounds DEF Inv, TypeOK, StepFails, signals, world
<1>32. CASE Crash
  BY <1>32, Bounds DEF Inv, TypeOK, Crash, Points, task, signals, world
<1>33. CASE CancelTask
  BY <1>33 DEF Inv, TypeOK, CancelTask, control, task, world, bounds
<1>34. CASE ThirdPartyWrites
  BY <1>34, Bounds DEF Inv, TypeOK, ThirdPartyWrites, ThirdParty, Contents, control,
    task, signals, bounds
<1>35. CASE Terminated
  BY <1>35 DEF Inv, TypeOK, Terminated, vars, vars, control, task, signals, world,
    bounds
<1>36. ASSUME NEW op \in Ops, SubmitHumanResponse(op) PROVE TypeOK'
  BY <1>36 DEF Inv, TypeOK, SubmitHumanResponse, control, task, world, bounds
<1>37. ASSUME NEW op \in Ops, CancelEffect(op) PROVE TypeOK'
  BY <1>37 DEF Inv, TypeOK, CancelEffect, control, task, world, bounds
<1>38. ASSUME NEW op \in Ops, ProviderReceives(op) PROVE TypeOK'
  <2>1. target' \in Contents
    BY <1>38, Bounds DEF ProviderReceives, Inv, TypeOK, Contents, ThirdParty, Ops
  <2>2. receipt' \in [Ops -> ReceiptStates \cup {"none"}]
    BY <1>38 DEF ProviderReceives, Inv, TypeOK, ReceiptStates, WriteStates, ExecStates
  <2> QED BY <1>38, <2>1, <2>2 DEF ProviderReceives, Inv, TypeOK, control, task, signals,
    bounds
<1>39. ASSUME NEW op \in Ops, RequestLost(op) PROVE TypeOK'
  BY <1>39 DEF Inv, TypeOK, RequestLost, control, task, signals, bounds
<1>40. ASSUME NEW op \in Ops, ProcessEnds(op) PROVE TypeOK'
  BY <1>40 DEF Inv, TypeOK, ProcessEnds, ReceiptStates, ExecStates, control, task,
    signals, bounds
<1> QED
  BY <1>1, <1>2, <1>3, <1>4, <1>5, <1>6, <1>7, <1>8, <1>9, <1>10, <1>11, <1>12, <1>13,
    <1>14, <1>15, <1>16, <1>17, <1>18, <1>19, <1>20, <1>21, <1>22, <1>23, <1>24, <1>25,
    <1>26, <1>27, <1>28, <1>29, <1>30, <1>31, <1>32, <1>33, <1>34, <1>35, <1>36, <1>37,
    <1>38, <1>39, <1>40 DEF Next, Workflow, PerformTarget, Loop, Interrupt, Handlers,
    Provider

(* Every action keeps the local variables and the stop points consistent. *)
LEMMA ControlStep == Inv /\ Next => ControlInv'
<1> SUFFICES ASSUME Inv, Next PROVE ControlInv'
  OBVIOUS
<1>1. CASE Lower
  BY <1>1 DEF Inv, TypeOK, ControlInv, StopPoints, RequestPoints, Stopping, Lower,
    LowerRefused, Lowered, Set,
    signals, world, bounds
<1>2. CASE Ask
  BY <1>2 DEF Inv, TypeOK, ControlInv, StopPoints, RequestPoints, Stopping, Ask, Set,
    world, bounds
<1>3. CASE AwaitApproval
  BY <1>3 DEF Inv, TypeOK, ControlInv, StopPoints, RequestPoints, Stopping,
    AwaitApproval, Set, signals, world, bounds
<1>4. CASE RecordClosed
  BY <1>4 DEF Inv, TypeOK, ControlInv, StopPoints, RequestPoints, Stopping,
    RecordClosed, Record, signals, world, bounds
<1>5. CASE RecordDispatch
  BY <1>5 DEF Inv, TypeOK, ControlInv, StopPoints, RequestPoints, Stopping,
    RecordDispatch, Record, Set, signals, world, bounds
<1>6. CASE Attempt
  BY <1>6, QueryTyped, Bounds DEF Inv, TypeOK, ControlInv, StopPoints, RequestPoints,
    Stopping, Attempt, Outcome, Deliver, Set, TerminalReceipts, signals, world, bounds
<1>7. CASE Send
  BY <1>7 DEF Inv, TypeOK, ControlInv, StopPoints, RequestPoints, Stopping, Send, task,
    signals, bounds
<1>8. CASE Reply
  BY <1>8, Bounds DEF Inv, TypeOK, ControlInv, StopPoints, RequestPoints, Stopping,
    Reply, Deliver, Set, TerminalReceipts, signals, world, bounds
<1>9. CASE Poll
  BY <1>9, QueryTyped, Bounds DEF Inv, TypeOK, ControlInv, StopPoints, RequestPoints,
    Stopping, Poll, PollAnswers, Outcome, TerminalReceipts, task, signals, world, bounds
<1>10. CASE StopRequested
  BY <1>10 DEF Inv, TypeOK, ControlInv, StopPoints, RequestPoints, Stopping,
    StopRequested, task, signals, world, bounds
<1>11. CASE StopProcess
  BY <1>11 DEF Inv, TypeOK, ControlInv, StopPoints, RequestPoints, Stopping,
    StopProcess, AfterStop, StoppedState, StopAnswer, TerminalReceipts, ReceiptStates,
    ExecStates, task, signals
<1>12. CASE SettleEffect
  BY <1>12 DEF Inv, TypeOK, ControlInv, StopPoints, RequestPoints, Stopping,
    SettleEffect, Set, signals, world, bounds
<1>13. CASE Observe
  BY <1>13 DEF Inv, TypeOK, ControlInv, StopPoints, RequestPoints, Stopping, Observe,
    Record, signals, world, bounds
<1>14. CASE Reconcile
  BY <1>14 DEF Inv, TypeOK, ControlInv, StopPoints, RequestPoints, Stopping, Reconcile,
    Set, First, signals, world, bounds
<1>15. CASE RecordReconciled
  BY <1>15 DEF Inv, TypeOK, ControlInv, StopPoints, RequestPoints, Stopping,
    RecordReconciled, Record, signals, world, bounds
<1>16. CASE ReconcileDone
  <2>1. CASE Stopping
    BY <1>16, <2>1 DEF Inv, ControlInv, StopPoints, RequestPoints, Stopping, ReconcileDone
  <2>2. CASE ~Stopping
    <3>1. pc' \in {"decide", "settle"}
      BY <1>16, <2>2 DEF ReconcileDone
    <3> QED BY <1>16, <2>2, <3>1 DEF Inv, ControlInv, RequestPoints, Stopping, ReconcileDone
  <2> QED BY <2>1, <2>2
<1>17. CASE SettleCompleted
  BY <1>17 DEF Inv, TypeOK, ControlInv, StopPoints, RequestPoints, Stopping,
    SettleCompleted, signals, world, bounds
<1>18. CASE SettleIrrecoverable
  BY <1>18 DEF Inv, TypeOK, ControlInv, StopPoints, RequestPoints, Stopping,
    SettleIrrecoverable, Stop, signals, world, bounds
<1>19. CASE SettleContinue
  BY <1>19, Bounds DEF Inv, TypeOK, ControlInv, StopPoints, RequestPoints, Stopping,
    SettleContinue, signals, world, bounds
<1>20. CASE Boundary
  BY <1>20 DEF Inv, TypeOK, ControlInv, StopPoints, RequestPoints, Stopping, Boundary,
    task, signals, world, bounds
<1>21. CASE Decide
  BY <1>21 DEF Inv, TypeOK, ControlInv, StopPoints, RequestPoints, Stopping, Decide,
    Record, signals, world, bounds
<1>22. CASE Admit
  BY <1>22 DEF Inv, TypeOK, ControlInv, StopPoints, RequestPoints, Stopping, Admit,
    Record, signals, world, bounds
<1>23. CASE Capability
  BY <1>23 DEF Inv, TypeOK, ControlInv, StopPoints, RequestPoints, Stopping, Capability,
    Record, signals, world, bounds
<1>24. CASE Completed
  BY <1>24 DEF Inv, TypeOK, ControlInv, StopPoints, RequestPoints, Stopping, Completed,
    task, signals, world, bounds
<1>25. CASE Close
  BY <1>25 DEF Inv, TypeOK, ControlInv, StopPoints, RequestPoints, Stopping, Close,
    First, Set, signals, world, bounds
<1>26. CASE CloseDone
  BY <1>26 DEF Inv, TypeOK, ControlInv, StopPoints, RequestPoints, Stopping, CloseDone,
    task, signals, world, bounds
<1>27. CASE TaskStop
  BY <1>27, QueryTyped DEF Inv, TypeOK, ControlInv, StopPoints, RequestPoints, Stopping,
    TaskStop, StopAnswer, TerminalReceipts, ReceiptStates, ExecStates, task, signals
<1>28. CASE Finish
  BY <1>28 DEF Inv, TypeOK, ControlInv, StopPoints, RequestPoints, Stopping, Finish,
    signals, world, bounds
<1>29. CASE EmitCompletion
  BY <1>29 DEF Inv, TypeOK, ControlInv, StopPoints, RequestPoints, Stopping,
    EmitCompletion, task, signals, world, bounds
<1>30. CASE DeliverCancel
  BY <1>30 DEF Inv, TypeOK, ControlInv, StopPoints, RequestPoints, Stopping,
    DeliverCancel, Stop, Escape, world, bounds
<1>31. CASE StepFails
  BY <1>31 DEF Inv, TypeOK, ControlInv, StopPoints, RequestPoints, Stopping, StepFails,
    Stop, Escape, signals, world
<1>32. CASE Crash
  BY <1>32 DEF Inv, TypeOK, ControlInv, StopPoints, RequestPoints, Stopping, Crash,
    task, signals, world
<1>33. CASE CancelTask
  BY <1>33 DEF Inv, TypeOK, ControlInv, StopPoints, RequestPoints, Stopping, CancelTask,
    control, task, world, bounds
<1>34. CASE ThirdPartyWrites
  BY <1>34 DEF Inv, TypeOK, ControlInv, StopPoints, RequestPoints, Stopping,
    ThirdPartyWrites, control, task, signals, bounds
<1>35. CASE Terminated
  BY <1>35 DEF Inv, TypeOK, ControlInv, StopPoints, RequestPoints, Stopping, Terminated,
    vars, vars, control, task, signals, world, bounds
<1>36. ASSUME NEW op \in Ops, SubmitHumanResponse(op) PROVE ControlInv'
  BY <1>36 DEF Inv, TypeOK, ControlInv, StopPoints, RequestPoints, Stopping,
    SubmitHumanResponse, control, task, world, bounds
<1>37. ASSUME NEW op \in Ops, CancelEffect(op) PROVE ControlInv'
  BY <1>37 DEF Inv, TypeOK, ControlInv, StopPoints, RequestPoints, Stopping,
    CancelEffect, control, task, world, bounds
<1>38. ASSUME NEW op \in Ops, ProviderReceives(op) PROVE ControlInv'
  BY <1>38 DEF Inv, TypeOK, ControlInv, StopPoints, RequestPoints, Stopping,
    ProviderReceives, control, task, signals, bounds
<1>39. ASSUME NEW op \in Ops, RequestLost(op) PROVE ControlInv'
  BY <1>39 DEF Inv, TypeOK, ControlInv, StopPoints, RequestPoints, Stopping,
    RequestLost, control, task, signals, bounds
<1>40. ASSUME NEW op \in Ops, ProcessEnds(op) PROVE ControlInv'
  BY <1>40 DEF Inv, TypeOK, ControlInv, StopPoints, RequestPoints, Stopping,
    ProcessEnds, control, task, signals, bounds
<1> QED
  BY <1>1, <1>2, <1>3, <1>4, <1>5, <1>6, <1>7, <1>8, <1>9, <1>10, <1>11, <1>12, <1>13,
    <1>14, <1>15, <1>16, <1>17, <1>18, <1>19, <1>20, <1>21, <1>22, <1>23, <1>24, <1>25,
    <1>26, <1>27, <1>28, <1>29, <1>30, <1>31, <1>32, <1>33, <1>34, <1>35, <1>36, <1>37,
    <1>38, <1>39, <1>40 DEF Next, Workflow, PerformTarget, Loop, Interrupt, Handlers,
    Provider

(* What an entry does to the operations the journal shows as admitted and dispatched: *)
(* admitted and dispatched entries add one, the others none (journal.analyze).        *)
LEMMA AdmittedKeeps ==
  ASSUME NEW f \in JournalFacts(Ops), NEW op, NEW c, NEW authority
  PROVE  /\ AnalyzeAdmitted(f, op, c, authority).admitted = f.admitted \cup {op}
         /\ AnalyzeAdmitted(f, op, c, authority).dispatched = f.dispatched
BY DEF JournalFacts, AnalyzeAdmitted

(* A dispatched entry adds a dispatched operation. *)
LEMMA DispatchedKeeps ==
  ASSUME NEW f \in JournalFacts(Ops), NEW op
  PROVE  /\ AnalyzeDispatched(f, op).admitted = f.admitted
         /\ AnalyzeDispatched(f, op).dispatched = f.dispatched \cup {op}
BY DEF JournalFacts, AnalyzeDispatched

(* An observed entry adds neither. *)
LEMMA ObservedKeeps ==
  ASSUME NEW f \in JournalFacts(Ops), NEW op, NEW outcome
  PROVE  /\ AnalyzeObserved(f, op, outcome).admitted = f.admitted
         /\ AnalyzeObserved(f, op, outcome).dispatched = f.dispatched
BY DEF JournalFacts, AnalyzeObserved

(* A reconciled entry adds neither. *)
LEMMA ReconciledKeeps ==
  ASSUME NEW f \in JournalFacts(Ops), NEW op, NEW state
  PROVE  /\ AnalyzeReconciled(f, op, state).admitted = f.admitted
         /\ AnalyzeReconciled(f, op, state).dispatched = f.dispatched
BY DEF JournalFacts, AnalyzeReconciled

(* A denied entry adds neither. *)
LEMMA DeniedKeeps ==
  ASSUME NEW f \in JournalFacts(Ops)
  PROVE  /\ AnalyzeDenied(f).admitted = f.admitted
         /\ AnalyzeDenied(f).dispatched = f.dispatched
BY DEF JournalFacts, AnalyzeDenied

(* A step that only records an outcome does not touch what authorizes a dispatch. *)
LEMMA JournalOnly ==
  ASSUME Inv, facts'.admitted = facts.admitted, facts'.dispatched = facts.dispatched,
         sent' = sent, turn' = turn, focus' = focus, class' = class, answer' = answer,
         pc' \in {"close", "settle", "reconcile"},
         (~Stopping)' => \/ ret' # "boundary"
                        \/ /\ ret = "boundary" /\ ~Stopping
                           /\ pc \in {"reconcile", "reconciled", "settle", "decide"}
  PROVE  AuthorityInv'
BY DEF Inv, AuthorityInv, Authorized, Fresh, RequestPoints, Stopping

(* Every action keeps what was sent, and what is about to be sent, authorized. *)
LEMMA AuthorityStep == Inv /\ Next => AuthorityInv'
<1> SUFFICES ASSUME Inv, Next PROVE AuthorityInv'
  OBVIOUS
<1>1. CASE Lower
  BY <1>1 DEF Inv, TypeOK, ControlInv, AuthorityInv, Authorized, Fresh, RequestPoints,
    StopPoints, Stopping, Lower, LowerRefused, Lowered, Set, signals, world, bounds
<1>2. CASE Ask
  BY <1>2 DEF Inv, TypeOK, ControlInv, AuthorityInv, Authorized, Fresh, RequestPoints,
    StopPoints, Stopping, Ask, Set, world, bounds
<1>3. CASE AwaitApproval
  BY <1>3 DEF Inv, TypeOK, ControlInv, AuthorityInv, Authorized, Fresh, RequestPoints,
    StopPoints, Stopping, AwaitApproval, Set, signals, world, bounds
<1>4. CASE RecordClosed
  <2>1. facts'.admitted = facts.admitted /\ facts'.dispatched = facts.dispatched
    BY <1>4, ObservedKeeps DEF Inv, TypeOK, RecordClosed, Record
  <2>2. pc' \in {"close", "settle", "reconcile"}
    BY <1>4 DEF RecordClosed
  <2> QED BY <1>4, <2>1, <2>2, JournalOnly DEF RecordClosed, Stopping, signals, world
<1>5. CASE RecordDispatch
  BY <1>5, DispatchedKeeps DEF Inv, TypeOK, ControlInv, AuthorityInv, Authorized, Fresh,
    RequestPoints, StopPoints, Stopping, RecordDispatch, Record, Set, signals, world,
    bounds
<1>6. CASE Attempt
  BY <1>6 DEF Inv, TypeOK, ControlInv, AuthorityInv, Authorized, Fresh, RequestPoints,
    StopPoints, Stopping, Attempt, Outcome, Deliver, Set, signals, world, bounds
<1>7. CASE Send
  BY <1>7 DEF Inv, TypeOK, ControlInv, AuthorityInv, Authorized, Fresh, RequestPoints,
    StopPoints, Stopping, Send, task, signals, bounds
<1>8. CASE Reply
  BY <1>8 DEF Inv, TypeOK, ControlInv, AuthorityInv, Authorized, Fresh, RequestPoints,
    StopPoints, Stopping, Reply, Deliver, Set, signals, world, bounds
<1>9. CASE Poll
  BY <1>9 DEF Inv, TypeOK, ControlInv, AuthorityInv, Authorized, Fresh, RequestPoints,
    StopPoints, Stopping, Poll, PollAnswers, Outcome, task, signals, world, bounds
<1>10. CASE StopRequested
  BY <1>10 DEF Inv, TypeOK, ControlInv, AuthorityInv, Authorized, Fresh, RequestPoints,
    StopPoints, Stopping, StopRequested, task, signals, world, bounds
<1>11. CASE StopProcess
  BY <1>11 DEF Inv, TypeOK, ControlInv, AuthorityInv, Authorized, Fresh, RequestPoints,
    StopPoints, Stopping, StopProcess, task, signals
<1>12. CASE SettleEffect
  BY <1>12 DEF Inv, TypeOK, ControlInv, AuthorityInv, Authorized, Fresh, RequestPoints,
    StopPoints, Stopping, SettleEffect, Set, signals, world, bounds
<1>13. CASE Observe
  <2>1. facts'.admitted = facts.admitted /\ facts'.dispatched = facts.dispatched
    BY <1>13, ObservedKeeps DEF Inv, TypeOK, Observe, Record
  <2>2. pc' \in {"close", "settle", "reconcile"}
    BY <1>13 DEF Observe
  <2> QED BY <1>13, <2>1, <2>2, JournalOnly DEF Observe, Stopping, signals, world
<1>14. CASE Reconcile
  BY <1>14 DEF Inv, TypeOK, ControlInv, AuthorityInv, Authorized, Fresh, RequestPoints,
    StopPoints, Stopping, Reconcile, Set, First, signals, world, bounds
<1>15. CASE RecordReconciled
  <2>1. facts'.admitted = facts.admitted /\ facts'.dispatched = facts.dispatched
    BY <1>15, ReconciledKeeps DEF Inv, TypeOK, RecordReconciled, Record
  <2>2. pc' \in {"close", "settle", "reconcile"}
    BY <1>15 DEF RecordReconciled
  <2> QED BY <1>15, <2>1, <2>2, JournalOnly DEF RecordReconciled, Stopping, signals, world
<1>16. CASE ReconcileDone
  BY <1>16 DEF Inv, TypeOK, ControlInv, AuthorityInv, Authorized, Fresh, RequestPoints,
    StopPoints, Stopping, ReconcileDone, signals, world, bounds
<1>17. CASE SettleCompleted
  BY <1>17 DEF Inv, TypeOK, ControlInv, AuthorityInv, Authorized, Fresh, RequestPoints,
    StopPoints, Stopping, SettleCompleted, signals, world, bounds
<1>18. CASE SettleIrrecoverable
  BY <1>18 DEF Inv, TypeOK, ControlInv, AuthorityInv, Authorized, Fresh, RequestPoints,
    StopPoints, Stopping, SettleIrrecoverable, Stop, signals, world, bounds
<1>19. CASE SettleContinue
  <2>1. pc' \in {"decide", "settle", "boundary", "finish"} /\ turn' \in {turn, turn + 1}
    BY <1>19 DEF SettleContinue
  <2>2. \A op \in sent : op <= turn'
    BY <1>19, <2>1, Bounds DEF Inv, AuthorityInv, TypeOK, Ops
  <2>3. Fresh' => turn' \notin sent'
    BY <1>19, Bounds DEF Inv, AuthorityInv, TypeOK, Ops, Fresh, SettleContinue, Stopping,
    world,
      ControlInv, StopPoints
  <2> QED
    BY <1>19, <2>1, <2>2, <2>3
    DEF Inv, AuthorityInv, Authorized, RequestPoints, SettleContinue, signals, world
<1>20. CASE Boundary
  BY <1>20 DEF Inv, TypeOK, ControlInv, AuthorityInv, Authorized, Fresh, RequestPoints,
    StopPoints, Stopping, Boundary, task, signals, world, bounds
<1>21. CASE Decide
  <2>1. facts'.admitted = facts.admitted /\ facts'.dispatched = facts.dispatched
    BY <1>21, DeniedKeeps, Bounds DEF Inv, TypeOK, Decide, Record
  <2>2. turn \in Ops /\ turn \notin sent
    BY <1>21, Bounds
    DEF Inv, TypeOK, ControlInv, AuthorityInv, Fresh, Decide, Ops, Stopping, StopPoints
  <2>3. pc' \in {"admit", "settle"}
    BY <1>21 DEF Decide
  <2>4. \A op \in sent : class'[op] = class[op]
    BY <1>21, <2>2 DEF Inv, TypeOK, Decide
  <2>5. pc' = "admit" => class'[turn] \in Authority
    BY <1>21, <2>2 DEF Inv, TypeOK, Decide, PolicyGate
  <2>6. Fresh' => turn' \notin sent'
    BY <1>21, <2>2 DEF Decide, world
  <2> QED
    BY <1>21, <2>1, <2>3, <2>4, <2>5, <2>6
    DEF Inv, AuthorityInv, Authorized, RequestPoints, Decide, signals, world
<1>22. CASE Admit
  <2>1. facts'.admitted = facts.admitted \cup {turn} /\ facts'.dispatched = facts.dispatched
    BY <1>22, AdmittedKeeps DEF Inv, TypeOK, Admit, Record
  <2>2. pc' \in {"request", "capability"}
    BY <1>22 DEF Admit
  <2> QED
    BY <1>22, <2>1, <2>2
    DEF Inv, AuthorityInv, Authorized, Fresh, RequestPoints, Stopping, Admit, signals, world
<1>23. CASE Capability
  <2>1. facts'.admitted = facts.admitted /\ facts'.dispatched = facts.dispatched
    BY <1>23, ObservedKeeps DEF Inv, TypeOK, Capability, Record
  <2>2. pc' \in {"close", "settle", "reconcile"}
    BY <1>23 DEF Capability
  <2> QED BY <1>23, <2>1, <2>2, JournalOnly DEF Capability, Stopping, signals, world
<1>24. CASE Completed
  BY <1>24 DEF Inv, TypeOK, ControlInv, AuthorityInv, Authorized, Fresh, RequestPoints,
    StopPoints, Stopping, Completed, task, signals, world, bounds
<1>25. CASE Close
  BY <1>25 DEF Inv, TypeOK, ControlInv, AuthorityInv, Authorized, Fresh, RequestPoints,
    StopPoints, Stopping, Close, First, Set, signals, world, bounds
<1>26. CASE CloseDone
  BY <1>26 DEF Inv, TypeOK, ControlInv, AuthorityInv, Authorized, Fresh, RequestPoints,
    StopPoints, Stopping, CloseDone, task, signals, world, bounds
<1>27. CASE TaskStop
  BY <1>27 DEF Inv, TypeOK, ControlInv, AuthorityInv, Authorized, Fresh, RequestPoints,
    StopPoints, Stopping, TaskStop, task, signals
<1>28. CASE Finish
  BY <1>28 DEF Inv, TypeOK, ControlInv, AuthorityInv, Authorized, Fresh, RequestPoints,
    StopPoints, Stopping, Finish, signals, world, bounds
<1>29. CASE EmitCompletion
  BY <1>29 DEF Inv, TypeOK, ControlInv, AuthorityInv, Authorized, Fresh, RequestPoints,
    StopPoints, Stopping, EmitCompletion, task, signals, world, bounds
<1>30. CASE DeliverCancel
  BY <1>30 DEF Inv, TypeOK, ControlInv, AuthorityInv, Authorized, Fresh, RequestPoints,
    StopPoints, Stopping, DeliverCancel, Stop, Escape, world, bounds
<1>31. CASE StepFails
  BY <1>31 DEF Inv, TypeOK, ControlInv, AuthorityInv, Authorized, Fresh, RequestPoints,
    StopPoints, Stopping, StepFails, Stop, Escape, signals, world
<1>32. CASE Crash
  BY <1>32 DEF Inv, TypeOK, ControlInv, AuthorityInv, Authorized, Fresh, RequestPoints,
    StopPoints, Stopping, Crash, task, signals, world
<1>33. CASE CancelTask
  BY <1>33 DEF Inv, TypeOK, ControlInv, AuthorityInv, Authorized, Fresh, RequestPoints,
    StopPoints, Stopping, CancelTask, control, task, world, bounds
<1>34. CASE ThirdPartyWrites
  BY <1>34 DEF Inv, TypeOK, ControlInv, AuthorityInv, Authorized, Fresh, RequestPoints,
    StopPoints, Stopping, ThirdPartyWrites, control, task, signals, bounds
<1>35. CASE Terminated
  BY <1>35 DEF Inv, TypeOK, ControlInv, AuthorityInv, Authorized, Fresh, RequestPoints,
    StopPoints, Stopping, Terminated, vars, vars, control, task, signals, world, bounds
<1>36. ASSUME NEW op \in Ops, SubmitHumanResponse(op) PROVE AuthorityInv'
  BY <1>36 DEF Inv, TypeOK, ControlInv, AuthorityInv, Authorized, Fresh, RequestPoints,
    StopPoints, Stopping, SubmitHumanResponse, control, task, world, bounds
<1>37. ASSUME NEW op \in Ops, CancelEffect(op) PROVE AuthorityInv'
  BY <1>37 DEF Inv, TypeOK, ControlInv, AuthorityInv, Authorized, Fresh, RequestPoints,
    StopPoints, Stopping, CancelEffect, control, task, world, bounds
<1>38. ASSUME NEW op \in Ops, ProviderReceives(op) PROVE AuthorityInv'
  BY <1>38 DEF Inv, TypeOK, ControlInv, AuthorityInv, Authorized, Fresh, RequestPoints,
    StopPoints, Stopping, ProviderReceives, control, task, signals, bounds
<1>39. ASSUME NEW op \in Ops, RequestLost(op) PROVE AuthorityInv'
  BY <1>39 DEF Inv, TypeOK, ControlInv, AuthorityInv, Authorized, Fresh, RequestPoints,
    StopPoints, Stopping, RequestLost, control, task, signals, bounds
<1>40. ASSUME NEW op \in Ops, ProcessEnds(op) PROVE AuthorityInv'
  BY <1>40 DEF Inv, TypeOK, ControlInv, AuthorityInv, Authorized, Fresh, RequestPoints,
    StopPoints, Stopping, ProcessEnds, control, task, signals, bounds
<1> QED
  BY <1>1, <1>2, <1>3, <1>4, <1>5, <1>6, <1>7, <1>8, <1>9, <1>10, <1>11, <1>12, <1>13,
    <1>14, <1>15, <1>16, <1>17, <1>18, <1>19, <1>20, <1>21, <1>22, <1>23, <1>24, <1>25,
    <1>26, <1>27, <1>28, <1>29, <1>30, <1>31, <1>32, <1>33, <1>34, <1>35, <1>36, <1>37,
    <1>38, <1>39, <1>40 DEF Next, Workflow, PerformTarget, Loop, Interrupt, Handlers,
    Provider

-----------------------------------------------------------------------------
(* The theorems.                                                           *)

(* The invariant holds in every state of every Task. *)
THEOREM Invariance == Spec => []Inv
<1>1. Init => Inv
  <2> SUFFICES ASSUME Init PROVE ControlInv /\ AuthorityInv
    BY InitTyped DEF Inv
  <2> QED BY DEF Init, ControlInv, AuthorityInv, Authorized, Fresh, RequestPoints,
    StopPoints,
                Stopping
<1>2. Inv /\ UNCHANGED vars => Inv'
  <2> SUFFICES ASSUME Inv, UNCHANGED vars PROVE Inv'
    OBVIOUS
  <2>1. TypeOK'
    BY DEF Inv, TypeOK, vars, control, task, signals, world, bounds
  <2>2. ControlInv'
    BY DEF Inv, ControlInv, Stopping, vars, control, task, signals, world, bounds
  <2>3. AuthorityInv'
    BY DEF Inv, AuthorityInv, Authorized, Fresh, Stopping, vars, control, task, signals,
           world, bounds
  <2> QED BY <2>1, <2>2, <2>3 DEF Inv
<1>3. Inv /\ Next => Inv'
  BY TypeStep, ControlStep, AuthorityStep DEF Inv
<1> QED BY <1>1, <1>2, <1>3, PTL DEF Spec

(* The TaskState, the promises and the receipts keep their shape, whatever the turn limit, *)
(* the grant and the number of crashes and failures.                                       *)
THEOREM TypeCorrect == Spec => []TypeOK
<1>1. Inv => TypeOK
  BY DEF Inv
<1> QED BY <1>1, Invariance, PTL

(* perform_target: nothing leaves for the target before the journal shows its admission *)
(* and its dispatch, outside the authority, or without the approval it needs.           *)
THEOREM DispatchAuthorized == Spec => []DispatchIsAuthorized
<1>1. Inv => DispatchIsAuthorized
  BY DEF Inv, TypeOK, AuthorityInv, Authorized, DispatchIsAuthorized
<1> QED BY <1>1, Invariance, PTL

(* The except block and close_effects: a Task that is stopping admits, dispatches and *)
(* sends nothing more.                                                                *)
THEOREM QuietAfterStop == Spec => NoEffectAfterStop
<1> DEFINE Quiet == Stopping => /\ sent' = sent
                                /\ facts'.admitted = facts.admitted
                                /\ facts'.dispatched = facts.dispatched
<1>1. Inv /\ Next => Quiet
  <2> SUFFICES ASSUME Inv, Next, Stopping PROVE Quiet
    OBVIOUS
  <2>1. pc \in StopPoints
    BY DEF Inv, ControlInv
  <2>2. sent' = sent
    <3>1. ~Send
      BY <2>1 DEF Send, StopPoints
    <3> QED
      BY <3>1 DEF Next, Workflow, PerformTarget, Loop, Interrupt, Handlers, Provider,
        Lower, LowerRefused, Lowered, Ask,
        AwaitApproval, RecordClosed, RecordDispatch, Attempt, Send, Reply, Poll,
        PollAnswers, Outcome,
        StopRequested, StopProcess, SettleEffect, Observe, Reconcile,
        RecordReconciled, ReconcileDone, SettleCompleted, SettleIrrecoverable,
        SettleContinue, Boundary, Decide, Admit, Capability, Completed, Close,
        CloseDone, TaskStop, Finish, EmitCompletion, DeliverCancel, StepFails,
        Crash, CancelTask, ThirdPartyWrites, Terminated, SubmitHumanResponse,
        CancelEffect, ProviderReceives, RequestLost, ProcessEnds, vars, control,
        task, world
  <2>3. facts' = facts \/ RecordClosed \/ Observe \/ RecordReconciled
    BY <2>1 DEF Next, Workflow, PerformTarget, Loop, Interrupt, Handlers, Provider,
    Lower, LowerRefused, Lowered, Ask,
        AwaitApproval, RecordClosed, RecordDispatch, Attempt, Send, Reply, Poll,
        PollAnswers, Outcome,
        StopRequested, StopProcess, SettleEffect, Observe, Reconcile,
        RecordReconciled, ReconcileDone, SettleCompleted, SettleIrrecoverable,
        SettleContinue, Boundary, Decide, Admit, Capability, Completed, Close,
        CloseDone, TaskStop, Finish, EmitCompletion, DeliverCancel, StepFails,
        Crash, CancelTask, ThirdPartyWrites, Terminated, SubmitHumanResponse,
        CancelEffect, ProviderReceives, RequestLost, ProcessEnds, vars, control,
        task, world, StopPoints
  <2>4. facts'.admitted = facts.admitted /\ facts'.dispatched = facts.dispatched
    BY <2>3, ObservedKeeps, ReconciledKeeps
    DEF Inv, TypeOK, RecordClosed, Observe, RecordReconciled, Record
  <2> QED BY <2>2, <2>4
<1>2. Inv /\ UNCHANGED vars => Quiet
  BY DEF vars, world, task
<1> QED BY <1>1, <1>2, Invariance, PTL DEF Spec, NoEffectAfterStop

-----------------------------------------------------------------------------
(***************************************************************************)
(* Part 2.  What the Task records of an effect is what happened to it, and *)
(* no dispatch is sent twice.                                              *)
(***************************************************************************)
(***************************************************************************)
(* The two properties are not inductive alone.  A receipt or a request in  *)
(* flight exists only for an operation that was sent; an operation that is *)
(* still before its dispatch was not sent; and the result that is about to *)
(* be settled is still the one the provider holds.                         *)
(***************************************************************************)
TruthInv ==
  /\ OutcomeTruthful
  /\ NoDuplicateDispatch
  /\ \A op \in Ops : receipt[op] # "none" \/ op \in inflight => op \in sent
  /\ \A op \in Ops : status[op] \in {"none", "admitted", "awaiting_approval"} => op \notin sent
  /\ pc \in {"request", "ask", "approval", "dispatch"} => focus \notin sent
  /\ pc \in {"attempt", "send", "reply"} => status[focus] = "dispatched"
  /\ pc \in {"send", "reply"} => deployed
  /\ ~deployed => sent = {}
  /\ pc = "receipt" =>
       /\ reply \in TerminalReceipts => receipt[focus] = reply
       /\ reply = "not_dispatched" => focus \notin sent

(* What an answer of the provider says of the receipt and the request. *)
LEMMA QueryFacts ==
  ASSUME TypeOK, NEW op \in Ops, NEW a \in Query(op)
  PROVE  /\ a \in ReceiptStates => receipt[op] = a
         /\ a = "absent" => receipt[op] = "none" /\ (StrongAbsence => op \notin inflight)
         /\ a \in {"raise", "unknown", "absent"} \cup ReceiptStates
BY DEF TypeOK, Query, ReceiptStates, WriteStates, ExecStates

(* effects.reconcile concludes a receipt that is held or an absence that is certain. *)
LEMMA ReconciliationFacts ==
  ASSUME TypeOK, NEW op \in Ops, NEW v \in Reconciliation(op)
  PROVE  \/ v.status \in {"uncertain", "different_state"}
         \/ v.status \in TerminalReceipts /\ receipt[op] = v.status
         \/ /\ v.status = "not_applied" /\ receipt[op] = "none"
            /\ StrongAbsence => op \notin inflight
<1>1. \/ v.status \in {"uncertain", "different_state"}
      \/ \E a \in Query(op) \cap TerminalReceipts : v.status = a
      \/ "absent" \in Query(op) /\ v.status = "not_applied"
  BY DEF Reconciliation
<1> QED BY <1>1, QueryFacts DEF TerminalReceipts

(* Every action keeps the records true. *)
LEMMA TruthStep == Inv /\ TruthInv /\ Next => TruthInv'
<1> SUFFICES ASSUME Inv, TruthInv, Next PROVE TruthInv'
  OBVIOUS
<1> USE DEF Inv, TypeOK, TruthInv, OutcomeTruthful, NoDuplicateDispatch
<1>1. CASE Lower
  BY <1>1 DEF Lower, LowerRefused, Lowered, Set, TerminalReceipts, ReceiptStates,
    WriteStates, ExecStates,
    signals, world, bounds
<1>2. CASE Ask
  BY <1>2 DEF Ask, Set, TerminalReceipts, ReceiptStates, WriteStates, ExecStates, world,
    bounds
<1>3. CASE AwaitApproval
  BY <1>3 DEF AwaitApproval, Set, TerminalReceipts, ReceiptStates, WriteStates,
    ExecStates, signals, world, bounds
<1>4. CASE RecordClosed
  BY <1>4 DEF RecordClosed, signals, world, bounds
<1>5. CASE RecordDispatch
  BY <1>5 DEF RecordDispatch, Set, TerminalReceipts, ReceiptStates, WriteStates,
    ExecStates, signals, world, bounds
<1>6. CASE Attempt
  BY <1>6, QueryFacts DEF Attempt, Outcome, Deliver, Set, TerminalReceipts, ReceiptStates,
    WriteStates, ExecStates, signals, world, bounds
<1>7. CASE Send
  BY <1>7 DEF Send, TerminalReceipts, ReceiptStates, WriteStates, ExecStates, task,
    signals, bounds
<1>8. CASE Reply
  BY <1>8 DEF Reply, Deliver, Set, TerminalReceipts, ReceiptStates, WriteStates,
    ExecStates, signals, world, bounds
<1>9. CASE Poll
  BY <1>9, QueryFacts DEF Poll, PollAnswers, Outcome, TerminalReceipts, ReceiptStates,
    WriteStates,
    ExecStates, task, signals, world, bounds
<1>10. CASE StopRequested
  BY <1>10 DEF StopRequested, task, signals, world, bounds
<1>11. CASE StopProcess
  BY <1>11 DEF StopProcess, AfterStop, StoppedState, StopAnswer, TerminalReceipts,
    ReceiptStates, WriteStates, ExecStates, task, signals
<1>12. CASE SettleEffect
  BY <1>12 DEF SettleEffect, ControlInv, Set, TerminalReceipts, ReceiptStates,
    WriteStates, ExecStates, signals, world, bounds
<1>13. CASE Observe
  BY <1>13 DEF Observe, signals, world, bounds
<1>14. CASE Reconcile
  BY <1>14, ReconciliationFacts DEF Reconcile, Set, First, TerminalReceipts,
    ReceiptStates, WriteStates, ExecStates, signals, world, bounds
<1>15. CASE RecordReconciled
  BY <1>15 DEF RecordReconciled, signals, world, bounds
<1>16. CASE ReconcileDone
  BY <1>16 DEF ReconcileDone, signals, world, bounds
<1>17. CASE SettleCompleted
  BY <1>17 DEF SettleCompleted, signals, world, bounds
<1>18. CASE SettleIrrecoverable
  BY <1>18 DEF SettleIrrecoverable, Stop, signals, world, bounds
<1>19. CASE SettleContinue
  BY <1>19 DEF SettleContinue, signals, world, bounds
<1>20. CASE Boundary
  BY <1>20 DEF Boundary, task, signals, world, bounds
<1>21. CASE Decide
  BY <1>21 DEF Decide, signals, world, bounds
<1>22. CASE Admit
  BY <1>22 DEF Admit, ControlInv, AuthorityInv, Fresh, Stopping, StopPoints, signals,
    world, bounds
<1>23. CASE Capability
  BY <1>23 DEF Capability, signals, world, bounds
<1>24. CASE Completed
  BY <1>24 DEF Completed, task, signals, world, bounds
<1>25. CASE Close
  BY <1>25 DEF Close, First, Set, TerminalReceipts, ReceiptStates, WriteStates,
    ExecStates, signals, world, bounds
<1>26. CASE CloseDone
  BY <1>26 DEF CloseDone, task, signals, world, bounds
<1>27. CASE TaskStop
  BY <1>27, QueryFacts DEF TaskStop, StopAnswer, TerminalReceipts, ReceiptStates,
    WriteStates, ExecStates, task, signals
<1>28. CASE Finish
  BY <1>28 DEF Finish, signals, world, bounds
<1>29. CASE EmitCompletion
  BY <1>29 DEF EmitCompletion, task, signals, world, bounds
<1>30. CASE DeliverCancel
  BY <1>30 DEF DeliverCancel, Stop, Escape, world, bounds
<1>31. CASE StepFails
  BY <1>31 DEF StepFails, Stop, Escape, signals, world
<1>32. CASE Crash
  BY <1>32 DEF Crash, task, signals, world
<1>33. CASE CancelTask
  BY <1>33 DEF CancelTask, control, task, world, bounds
<1>34. CASE ThirdPartyWrites
  BY <1>34 DEF ThirdPartyWrites, control, task, signals, bounds
<1>35. CASE Terminated
  BY <1>35 DEF Terminated, vars, control, task, signals, world, bounds
<1>36. ASSUME NEW op \in Ops, SubmitHumanResponse(op) PROVE TruthInv'
  BY <1>36 DEF SubmitHumanResponse, control, task, world, bounds
<1>37. ASSUME NEW op \in Ops, CancelEffect(op) PROVE TruthInv'
  BY <1>37 DEF CancelEffect, control, task, world, bounds
<1>38. ASSUME NEW op \in Ops, ProviderReceives(op) PROVE TruthInv'
  BY <1>38 DEF ProviderReceives, TerminalReceipts, ReceiptStates, WriteStates,
    ExecStates, control, task, signals, bounds
<1>39. ASSUME NEW op \in Ops, RequestLost(op) PROVE TruthInv'
  BY <1>39 DEF RequestLost, control, task, signals, bounds
<1>40. ASSUME NEW op \in Ops, ProcessEnds(op) PROVE TruthInv'
  BY <1>40 DEF ProcessEnds, TerminalReceipts, ReceiptStates, WriteStates, ExecStates,
    control, task, signals, bounds
<1> QED
  BY <1>1, <1>2, <1>3, <1>4, <1>5, <1>6, <1>7, <1>8, <1>9, <1>10, <1>11, <1>12, <1>13,
    <1>14, <1>15, <1>16, <1>17, <1>18, <1>19, <1>20, <1>21, <1>22, <1>23, <1>24, <1>25,
    <1>26, <1>27, <1>28, <1>29, <1>30, <1>31, <1>32, <1>33, <1>34, <1>35, <1>36, <1>37,
    <1>38, <1>39, <1>40 DEF Next, Workflow, PerformTarget, Loop, Interrupt, Handlers,
    Provider

(* The records are true in every state of every Task. *)
THEOREM TruthInvariance == Spec => []TruthInv
<1>1. Init => TruthInv
  BY DEF Init, TruthInv, OutcomeTruthful, NoDuplicateDispatch, TerminalReceipts,
    ReceiptStates,
         WriteStates, ExecStates
<1>2. TruthInv /\ UNCHANGED vars => TruthInv'
  BY DEF TruthInv, OutcomeTruthful, NoDuplicateDispatch, vars, control, task, world
<1> QED BY <1>1, <1>2, TruthStep, Invariance, PTL DEF Spec

(* settle_effect, reconcile_effects and close_effects: a terminal status is the receipt  *)
(* the provider holds; "not dispatched" and "not applied" mean that it never happened.   *)
THEOREM OutcomesTruthful == Spec => []OutcomeTruthful
<1>1. TruthInv => OutcomeTruthful
  BY DEF TruthInv
<1> QED BY <1>1, TruthInvariance, PTL

(* effects.attempt: a provider whose absence is authoritative is never sent a request   *)
(* whose predecessor was executed or is still on its way, however often the step reruns. *)
THEOREM DispatchedOnce == Spec => []NoDuplicateDispatch
<1>1. TruthInv => NoDuplicateDispatch
  BY DEF TruthInv
<1> QED BY <1>1, TruthInvariance, PTL

-----------------------------------------------------------------------------
(***************************************************************************)
(* Part 3.  What a completion may rely on: once COMPLETED is published     *)
(* nothing of the Task happens on the target any more, and the verifiers   *)
(* over target effects are right about it (EffectEvidence).                *)
(***************************************************************************)
(* The statuses of an effect that may still change. *)
Open == Cancellable \cup {"uncertain"}

(* The awaits of perform_target at which its effect is open. *)
Performing == {"ask", "approval", "dispatch", "attempt", "send", "reply", "supervise",
               "stop", "receipt"}

(* The present turn has no effect yet. *)
TurnStarts ==
  ~Stopping /\ (\/ pc \in {"boundary", "decide", "admit", "request"}
                \/ ret = "boundary" /\ pc \in {"reconcile", "reconciled", "settle"})

(* An operation that was answered is not asked for again. *)
OneRequest ==
  StrongAbsence => \A op \in Ops : receipt[op] # "none" => op \notin inflight

(* Effects belong to turns that were reached, one each. *)
EffectsReached == \A op \in Ops : status[op] # "none" \/ op \in facts.observed => op <= turn
TurnIsNew == TurnStarts => status[turn] = "none" /\ turn \notin facts.observed
TodoStarted == \A op \in todo : status[op] # "none"

FocusReached == pc \in {"closed", "observe", "capability"} => focus <= turn

TurnInv == EffectsReached /\ TurnIsNew /\ TodoStarted /\ FocusReached

(* The effect the workflow works on is open until its outcome is known, and  *)
(* its outcome is journaled once.                                            *)
FocusOpen == pc \in Performing \cup {"taskStop"} => status[focus] \in Cancellable
FocusIsTurn ==
  pc \in Performing \cup {"request", "observe", "capability"} /\ ~Stopping => focus = turn
FocusUnobserved ==
  pc \in {"closed", "observe", "capability"} =>
    status[focus] \notin Cancellable /\ focus \notin facts.observed
ObservedClosed == \A op \in Ops : op \in facts.observed => status[op] \notin Cancellable

FocusInv == FocusOpen /\ FocusIsTurn /\ FocusUnobserved /\ ObservedClosed

(* A turn starts an effect only when those of the earlier turns are settled. *)
OnlyTheTurnOpen ==
  ~Stopping => \A op \in Ops : status[op] \in Cancellable => op = turn /\ pc \in Performing
EarlierSettled ==
  \A op, other \in Ops : other < op /\ status[op] # "none" => status[other] \notin Open
RequestAlone ==
  pc = "request" \/ (pc = "admit" /\ class[turn] \in LifecycleClasses) =>
    \A op \in Ops : status[op] # "uncertain"
TodoUncertain == pc \in {"reconcile", "reconciled"} => \A op \in todo : status[op] = "uncertain"

SettledInv == OnlyTheTurnOpen /\ EarlierSettled /\ RequestAlone /\ TodoUncertain

(* The journal knows what is uncertain, and a published completion is of     *)
(* settled effects.                                                          *)
UncertaintyJournaled ==
  ~Stopping => \A op \in Ops : status[op] = "uncertain" =>
    (pc = "observe" /\ focus = op) \/ op \in facts.admitted \cap facts.target \cap facts.uncertain
FocusAdmitted ==
  pc \in Performing \cup {"request", "observe"} /\ ~Stopping =>
    focus \in facts.admitted \cap facts.target
VerdictKept == pc = "reconciled" => (reply = "STILL_UNKNOWN" <=> status[focus] = "uncertain")
ClassKept ==
  \A op \in Ops : /\ status[op] = "different_state" => class[op] = "write"
                  /\ receipt[op] = "running" => class[op] = "exec"
CompletedSettled ==
  shown = "COMPLETED" \/ lifecycle = "COMPLETED" =>
    /\ \A op \in Ops : status[op] \notin Open
    /\ ~Stopping => pc \in {"completed", "finish", "emit", "done", "raised"}

QuietInv ==
  UncertaintyJournaled /\ FocusAdmitted /\ VerdictKept /\ ClassKept /\ CompletedSettled

EvidenceInv == OneRequest /\ TurnInv /\ FocusInv /\ SettledInv /\ QuietInv

(* What the entry an action records changes in the facts of the journal. *)
(* admitted: *)
LEMMA AdmitFacts ==
  ASSUME TypeOK, Admit
  PROVE  /\ facts'.admitted = facts.admitted \cup {turn}
         /\ facts'.target = (IF class[turn] \in TargetEffectClasses
                               THEN facts.target \cup {turn} ELSE facts.target \ {turn})
         /\ facts'.dispatched = facts.dispatched
         /\ facts'.observed = facts.observed
         /\ facts'.uncertain = facts.uncertain
         /\ facts'.lifecycle = (IF class[turn] \in LifecycleClasses
                                  THEN facts.lifecycle \cup {turn} ELSE facts.lifecycle \ {turn})
         /\ facts'.length = facts.length + 1
BY DEF TypeOK, JournalFacts, AnalyzeAdmitted, Admit, Record

(* dispatched: a target effect leaves. *)
LEMMA DispatchFacts ==
  ASSUME TypeOK, RecordDispatch
  PROVE  /\ facts'.admitted = facts.admitted
         /\ facts'.target = facts.target
         /\ facts'.dispatched = facts.dispatched \cup {focus}
         /\ facts'.observed = facts.observed
         /\ facts'.uncertain = facts.uncertain
         /\ facts'.lifecycle = facts.lifecycle
         /\ facts'.length = facts.length + 1
BY DEF TypeOK, JournalFacts, AnalyzeDispatched, RecordDispatch, Record

(* observed: with the outcome of the status. *)
LEMMA ObserveFacts ==
  ASSUME TypeOK, Observe
  PROVE  /\ facts'.admitted = facts.admitted
         /\ facts'.target = facts.target
         /\ facts'.dispatched = facts.dispatched
         /\ facts'.observed = facts.observed \cup {focus}
         /\ facts'.uncertain = facts.uncertain \cup (IF status[focus] = "uncertain"
                                                       THEN {focus} ELSE {})
         /\ facts'.lifecycle = facts.lifecycle
         /\ facts'.length = facts.length + 1
BY DEF TypeOK, JournalFacts, AnalyzeObserved, ObservedOutcome, Observe, Record

(* observed: closed before dispatch, or a capability that is no effect. *)
LEMMA ClosedFacts ==
  ASSUME TypeOK, RecordClosed \/ Capability
  PROVE  /\ facts'.admitted = facts.admitted
         /\ facts'.target = facts.target
         /\ facts'.dispatched = facts.dispatched
         /\ facts'.observed = facts.observed \cup {focus}
         /\ facts'.uncertain = facts.uncertain
         /\ facts'.lifecycle = facts.lifecycle
         /\ facts'.length = facts.length + 1
<1>1. PICK outcome \in {"success", "failure", "not_dispatched"} :
        facts' = AnalyzeObserved(facts, focus, outcome)
  BY DEF RecordClosed, Capability, Record
<1> QED BY <1>1 DEF TypeOK, JournalFacts, AnalyzeObserved

(* reconciled: with the conclusion. *)
LEMMA ReconcileFacts ==
  ASSUME TypeOK, RecordReconciled
  PROVE  /\ facts'.admitted = facts.admitted
         /\ facts'.target = facts.target
         /\ facts'.dispatched = facts.dispatched
         /\ facts'.observed = facts.observed
         /\ facts'.uncertain = facts.uncertain \ (IF reply = "STILL_UNKNOWN" THEN {} ELSE {focus})
         /\ facts'.lifecycle = facts.lifecycle
         /\ facts'.length = facts.length + 1
BY DEF TypeOK, JournalFacts, AnalyzeReconciled, RecordReconciled, Record

(* denied, or nothing. *)
LEMMA DecideFacts ==
  ASSUME TypeOK, Decide
  PROVE  /\ facts'.admitted = facts.admitted
         /\ facts'.target = facts.target
         /\ facts'.dispatched = facts.dispatched
         /\ facts'.observed = facts.observed
         /\ facts'.uncertain = facts.uncertain
         /\ facts'.lifecycle = facts.lifecycle
         /\ facts'.length \in {facts.length, facts.length + 1}
         /\ pc' = "admit" => facts' = facts
BY DEF TypeOK, JournalFacts, AnalyzeDenied, Decide, Record

(* A reconciliation is undecided exactly if the effect stays uncertain, and it *)
(* never opens an effect again.                                                *)
LEMMA ReconciliationVerdicts ==
  ASSUME TypeOK, NEW op \in Ops, NEW v \in Reconciliation(op)
  PROVE  /\ v.state = "STILL_UNKNOWN" <=> v.status = "uncertain"
         /\ v.status \notin Cancellable \cup {"none"}
         /\ v.status = "different_state" => class[op] = "write"
<1> DEFINE unknown == [state |-> "STILL_UNKNOWN", status |-> "uncertain"]
           none == [state |-> "NOT_APPLIED", status |-> "not_applied"]
           other == [state |-> "DIFFERENT_STATE", status |-> "different_state"]
<1>1. \/ v \in {unknown, none}
      \/ v = other /\ class[op] = "write"
      \/ \E a \in TerminalReceipts : v = [state |-> "APPLIED", status |-> a]
  BY DEF Reconciliation
<1> QED BY <1>1 DEF Cancellable, TerminalReceipts, ReceiptStates, WriteStates,
  ExecStates

(* Only a process runs. *)
LEMMA RunningIsExec ==
  ASSUME TypeOK, ClassKept, TaskStop \/ StopProcess \/ \E op \in Ops : ProviderReceives(op)
  PROVE  ClassKept'
<1>1. CASE TaskStop
  BY <1>1 DEF TypeOK, ClassKept, TaskStop, task
<1>2. CASE StopProcess
  BY <1>2 DEF TypeOK, ClassKept, StopProcess, AfterStop, StoppedState, task
<1>3. CASE \E op \in Ops : ProviderReceives(op)
  BY <1>3 DEF TypeOK, ClassKept, ProviderReceives, task
<1> QED BY <1>1, <1>2, <1>3

(* No step sends an answered request again. *)
LEMMA OneRequestStep == Inv /\ TruthInv /\ EvidenceInv /\ Next => OneRequest'
<1> SUFFICES ASSUME Inv, TruthInv, EvidenceInv, Next PROVE OneRequest'
  OBVIOUS
<1> USE DEF Inv, TypeOK, ControlInv, AuthorityInv, TruthInv, EvidenceInv, StopPoints,
  RequestPoints, OneRequest, NoDuplicateDispatch, TerminalReceipts, ReceiptStates,
  WriteStates, ExecStates
<1>1. CASE Lower
  BY <1>1 DEF Lower, LowerRefused, Lowered, Set, signals, world, bounds
<1>2. CASE Ask
  BY <1>2 DEF Ask, Set, world, bounds
<1>3. CASE AwaitApproval
  BY <1>3 DEF AwaitApproval, Set, signals, world, bounds
<1>4. CASE RecordClosed
  BY <1>4, ClosedFacts DEF RecordClosed, Record, signals, world, bounds
<1>5. CASE RecordDispatch
  BY <1>5, DispatchFacts DEF RecordDispatch, Record, Set, signals, world, bounds
<1>6. CASE Attempt
  BY <1>6, QueryFacts DEF Attempt, Outcome, Deliver, Set, signals, world, bounds
<1>7. CASE Send
  BY <1>7 DEF Send, task, signals, bounds
<1>8. CASE Reply
  BY <1>8 DEF Reply, Deliver, Set, signals, world, bounds
<1>9. CASE Poll
  BY <1>9, QueryFacts DEF Poll, PollAnswers, Outcome, task, signals, world, bounds
<1>10. CASE StopRequested
  BY <1>10 DEF StopRequested, task, signals, world, bounds
<1>11. CASE StopProcess
  BY <1>11 DEF StopProcess, AfterStop, StoppedState, StopAnswer, task, signals
<1>12. CASE SettleEffect
  BY <1>12 DEF SettleEffect, Set, signals, world, bounds
<1>13. CASE Observe
  BY <1>13, ObserveFacts DEF Observe, Record, Uncertain, signals, world, bounds
<1>14. CASE Reconcile
  BY <1>14, ReconciliationVerdicts DEF Reconcile, Set, First, signals, world, bounds
<1>15. CASE RecordReconciled
  BY <1>15, ReconcileFacts DEF RecordReconciled, Record, signals, world, bounds
<1>16. CASE ReconcileDone
  BY <1>16 DEF ReconcileDone, signals, world, bounds
<1>17. CASE SettleCompleted
  BY <1>17 DEF SettleCompleted, Legal, Unresolved, signals, world, bounds
<1>18. CASE SettleIrrecoverable
  BY <1>18 DEF SettleIrrecoverable, Stop, signals, world, bounds
<1>19. CASE SettleContinue
  BY <1>19 DEF SettleContinue, signals, world, bounds
<1>20. CASE Boundary
  BY <1>20 DEF Boundary, Uncertain, task, signals, world, bounds
<1>21. CASE Decide
  BY <1>21, DecideFacts DEF Decide, Record, PolicyGate, Uncertain, signals, world,
    bounds
<1>22. CASE Admit
  BY <1>22, AdmitFacts DEF Admit, Record, LifecycleClasses, TargetEffectClasses,
    signals, world, bounds
<1>23. CASE Capability
  BY <1>23, ClosedFacts DEF Capability, Record, signals, world, bounds
<1>24. CASE Completed
  BY <1>24 DEF Completed, task, signals, world, bounds
<1>25. CASE Close
  BY <1>25 DEF Close, First, Set, signals, world, bounds
<1>26. CASE CloseDone
  BY <1>26 DEF CloseDone, Uncertain, task, signals, world, bounds
<1>27. CASE TaskStop
  BY <1>27, QueryFacts DEF TaskStop, StopAnswer, task, signals
<1>28. CASE Finish
  BY <1>28 DEF Finish, signals, world, bounds
<1>29. CASE EmitCompletion
  BY <1>29 DEF EmitCompletion, task, signals, world, bounds
<1>30. CASE DeliverCancel
  BY <1>30 DEF DeliverCancel, Stop, Escape, world, bounds
<1>31. CASE StepFails
  BY <1>31 DEF StepFails, Stop, Escape, signals, world
<1>32. CASE Crash
  BY <1>32 DEF Crash, task, signals, world
<1>33. CASE CancelTask
  BY <1>33 DEF CancelTask, control, task, world, bounds
<1>34. CASE ThirdPartyWrites
  BY <1>34 DEF ThirdPartyWrites, control, task, signals, bounds
<1>35. CASE Terminated
  BY <1>35 DEF Terminated, vars, control, task, signals, world, bounds
<1>36. ASSUME NEW op \in Ops, SubmitHumanResponse(op) PROVE OneRequest'
  BY <1>36 DEF SubmitHumanResponse, control, task, world, bounds
<1>37. ASSUME NEW op \in Ops, CancelEffect(op) PROVE OneRequest'
  BY <1>37 DEF CancelEffect, control, task, world, bounds
<1>38. ASSUME NEW op \in Ops, ProviderReceives(op) PROVE OneRequest'
  BY <1>38 DEF ProviderReceives, control, task, signals, bounds
<1>39. ASSUME NEW op \in Ops, RequestLost(op) PROVE OneRequest'
  BY <1>39 DEF RequestLost, control, task, signals, bounds
<1>40. ASSUME NEW op \in Ops, ProcessEnds(op) PROVE OneRequest'
  BY <1>40 DEF ProcessEnds, control, task, signals, bounds
<1> QED BY <1>1, <1>2, <1>3, <1>4, <1>5, <1>6, <1>7, <1>8, <1>9, <1>10, <1>11, <1>12,
  <1>13, <1>14, <1>15, <1>16, <1>17, <1>18, <1>19, <1>20, <1>21, <1>22, <1>23, <1>24,
  <1>25, <1>26, <1>27, <1>28, <1>29, <1>30, <1>31, <1>32, <1>33, <1>34, <1>35, <1>36,
  <1>37, <1>38, <1>39, <1>40 DEF Next, Workflow, PerformTarget, Loop, Interrupt,
  Handlers, Provider

(* No step starts a second effect of a turn, or one of a later turn. *)
LEMMA TurnInvStep == Inv /\ TruthInv /\ EvidenceInv /\ Next => TurnInv'
<1> SUFFICES ASSUME Inv, TruthInv, EvidenceInv, Next PROVE TurnInv'
  OBVIOUS
<1> USE DEF Inv, TypeOK, ControlInv, AuthorityInv, TruthInv, EvidenceInv, StopPoints,
  RequestPoints, TurnInv, EffectsReached, TurnIsNew, TodoStarted, FocusReached,
  FocusInv, FocusOpen, FocusIsTurn, FocusUnobserved, ObservedClosed, TurnStarts,
  Performing, Cancellable, Stopping, TerminalReceipts, ReceiptStates, WriteStates,
  ExecStates
<1>1. CASE Lower
  <2>1. EffectsReached'
    BY <1>1 DEF Lower, LowerRefused, Lowered, Set, signals, world, bounds
  <2>2. TurnIsNew'
    BY <1>1 DEF Lower, LowerRefused, Lowered, Set, signals, world, bounds
  <2>3. TodoStarted'
    BY <1>1 DEF Lower, LowerRefused, Lowered, Set, signals, world, bounds
  <2>4. FocusReached'
    BY <1>1 DEF Lower, LowerRefused, Lowered, Set, signals, world, bounds
  <2> QED BY <2>1, <2>2, <2>3, <2>4 DEF TurnInv
<1>2. CASE Ask
  BY <1>2 DEF Ask, Set, world, bounds
<1>3. CASE AwaitApproval
  BY <1>3 DEF AwaitApproval, Set, signals, world, bounds
<1>4. CASE RecordClosed
  <2>1. EffectsReached'
    BY <1>4, ClosedFacts DEF RecordClosed, Record, signals, world, bounds
  <2>2. TurnIsNew'
    BY <1>4, ClosedFacts DEF RecordClosed, Record, signals, world, bounds
  <2>3. TodoStarted'
    BY <1>4, ClosedFacts DEF RecordClosed, Record, signals, world, bounds
  <2>4. FocusReached'
    BY <1>4, ClosedFacts DEF RecordClosed, Record, signals, world, bounds
  <2> QED BY <2>1, <2>2, <2>3, <2>4 DEF TurnInv
<1>5. CASE RecordDispatch
  BY <1>5, DispatchFacts DEF RecordDispatch, Record, Set, signals, world, bounds
<1>6. CASE Attempt
  BY <1>6, QueryFacts DEF Attempt, Outcome, Deliver, Set, signals, world, bounds
<1>7. CASE Send
  BY <1>7 DEF Send, task, signals, bounds
<1>8. CASE Reply
  BY <1>8 DEF Reply, Deliver, Set, signals, world, bounds
<1>9. CASE Poll
  BY <1>9, QueryFacts DEF Poll, PollAnswers, Outcome, task, signals, world, bounds
<1>10. CASE StopRequested
  BY <1>10 DEF StopRequested, task, signals, world, bounds
<1>11. CASE StopProcess
  BY <1>11 DEF StopProcess, AfterStop, StoppedState, StopAnswer, task, signals
<1>12. CASE SettleEffect
  <2>1. EffectsReached'
    BY <1>12 DEF SettleEffect, Set, signals, world, bounds
  <2>2. TurnIsNew'
    BY <1>12 DEF SettleEffect, Set, signals, world, bounds
  <2>3. TodoStarted'
    BY <1>12 DEF SettleEffect, Set, signals, world, bounds
  <2>4. FocusReached'
    BY <1>12 DEF SettleEffect, Set, signals, world, bounds
  <2> QED BY <2>1, <2>2, <2>3, <2>4 DEF TurnInv
<1>13. CASE Observe
  <2>1. EffectsReached'
    BY <1>13, ObserveFacts DEF Observe, Record, Uncertain, signals, world, bounds
  <2>2. TurnIsNew'
    BY <1>13, ObserveFacts DEF Observe, Record, Uncertain, signals, world, bounds
  <2>3. TodoStarted'
    BY <1>13, ObserveFacts DEF Observe, Record, Uncertain, signals, world, bounds
  <2>4. FocusReached'
    BY <1>13, ObserveFacts DEF Observe, Record, Uncertain, signals, world, bounds
  <2> QED BY <2>1, <2>2, <2>3, <2>4 DEF TurnInv
<1>14. CASE Reconcile
  BY <1>14, ReconciliationVerdicts DEF Reconcile, Set, First, signals, world, bounds
<1>15. CASE RecordReconciled
  <2>1. EffectsReached'
    BY <1>15, ReconcileFacts DEF RecordReconciled, Record, signals, world, bounds
  <2>2. TurnIsNew'
    BY <1>15, ReconcileFacts DEF RecordReconciled, Record, signals, world, bounds
  <2>3. TodoStarted'
    BY <1>15, ReconcileFacts DEF RecordReconciled, Record, signals, world, bounds
  <2>4. FocusReached'
    BY <1>15, ReconcileFacts DEF RecordReconciled, Record, signals, world, bounds
  <2> QED BY <2>1, <2>2, <2>3, <2>4 DEF TurnInv
<1>16. CASE ReconcileDone
  BY <1>16 DEF ReconcileDone, signals, world, bounds
<1>17. CASE SettleCompleted
  BY <1>17 DEF SettleCompleted, Legal, Unresolved, signals, world, bounds
<1>18. CASE SettleIrrecoverable
  BY <1>18 DEF SettleIrrecoverable, Stop, signals, world, bounds
<1>19. CASE SettleContinue
  <2>1. EffectsReached'
    BY <1>19, Bounds DEF Ops, SettleContinue, signals, world, bounds
  <2>2. TurnIsNew'
    BY <1>19, Bounds DEF Ops, SettleContinue, signals, world, bounds
  <2>3. TodoStarted'
    BY <1>19 DEF SettleContinue, signals, world, bounds
  <2>4. FocusReached'
    BY <1>19 DEF SettleContinue, signals, world, bounds
  <2> QED BY <2>1, <2>2, <2>3, <2>4 DEF TurnInv
<1>20. CASE Boundary
  BY <1>20 DEF Boundary, Uncertain, task, signals, world, bounds
<1>21. CASE Decide
  BY <1>21, DecideFacts DEF Decide, Record, PolicyGate, Uncertain, signals, world,
    bounds
<1>22. CASE Admit
  <2>1. EffectsReached'
    BY <1>22, AdmitFacts DEF Admit, Record, LifecycleClasses, TargetEffectClasses,
      signals, world, bounds
  <2>2. TurnIsNew'
    BY <1>22, AdmitFacts DEF Admit, Record, LifecycleClasses, TargetEffectClasses,
      signals, world, bounds
  <2>3. TodoStarted'
    BY <1>22, AdmitFacts DEF Admit, Record, LifecycleClasses, TargetEffectClasses,
      signals, world, bounds
  <2>4. FocusReached'
    BY <1>22, AdmitFacts DEF Admit, Record, LifecycleClasses, TargetEffectClasses,
      signals, world, bounds
  <2> QED BY <2>1, <2>2, <2>3, <2>4 DEF TurnInv
<1>23. CASE Capability
  <2>1. EffectsReached'
    BY <1>23, ClosedFacts DEF Capability, Record, signals, world, bounds
  <2>2. TurnIsNew'
    BY <1>23, ClosedFacts DEF Capability, Record, signals, world, bounds
  <2>3. TodoStarted'
    BY <1>23, ClosedFacts DEF Capability, Record, signals, world, bounds
  <2>4. FocusReached'
    BY <1>23, ClosedFacts DEF Capability, Record, signals, world, bounds
  <2> QED BY <2>1, <2>2, <2>3, <2>4 DEF TurnInv
<1>24. CASE Completed
  BY <1>24 DEF Completed, task, signals, world, bounds
<1>25. CASE Close
  BY <1>25 DEF Close, First, Set, signals, world, bounds
<1>26. CASE CloseDone
  BY <1>26 DEF CloseDone, Uncertain, task, signals, world, bounds
<1>27. CASE TaskStop
  BY <1>27, QueryFacts DEF TaskStop, StopAnswer, task, signals
<1>28. CASE Finish
  BY <1>28 DEF Finish, signals, world, bounds
<1>29. CASE EmitCompletion
  BY <1>29 DEF EmitCompletion, task, signals, world, bounds
<1>30. CASE DeliverCancel
  BY <1>30 DEF DeliverCancel, Stop, Escape, world, bounds
<1>31. CASE StepFails
  BY <1>31 DEF StepFails, Stop, Escape, signals, world
<1>32. CASE Crash
  BY <1>32 DEF Crash, task, signals, world
<1>33. CASE CancelTask
  BY <1>33 DEF CancelTask, control, task, world, bounds
<1>34. CASE ThirdPartyWrites
  BY <1>34 DEF ThirdPartyWrites, control, task, signals, bounds
<1>35. CASE Terminated
  BY <1>35 DEF Terminated, vars, control, task, signals, world, bounds
<1>36. ASSUME NEW op \in Ops, SubmitHumanResponse(op) PROVE TurnInv'
  BY <1>36 DEF SubmitHumanResponse, control, task, world, bounds
<1>37. ASSUME NEW op \in Ops, CancelEffect(op) PROVE TurnInv'
  BY <1>37 DEF CancelEffect, control, task, world, bounds
<1>38. ASSUME NEW op \in Ops, ProviderReceives(op) PROVE TurnInv'
  BY <1>38 DEF ProviderReceives, control, task, signals, bounds
<1>39. ASSUME NEW op \in Ops, RequestLost(op) PROVE TurnInv'
  BY <1>39 DEF RequestLost, control, task, signals, bounds
<1>40. ASSUME NEW op \in Ops, ProcessEnds(op) PROVE TurnInv'
  BY <1>40 DEF ProcessEnds, control, task, signals, bounds
<1> QED BY <1>1, <1>2, <1>3, <1>4, <1>5, <1>6, <1>7, <1>8, <1>9, <1>10, <1>11, <1>12,
  <1>13, <1>14, <1>15, <1>16, <1>17, <1>18, <1>19, <1>20, <1>21, <1>22, <1>23, <1>24,
  <1>25, <1>26, <1>27, <1>28, <1>29, <1>30, <1>31, <1>32, <1>33, <1>34, <1>35, <1>36,
  <1>37, <1>38, <1>39, <1>40 DEF Next, Workflow, PerformTarget, Loop, Interrupt,
  Handlers, Provider

(* No step leaves an effect open that the workflow does not work on. *)
LEMMA FocusInvStep == Inv /\ TruthInv /\ EvidenceInv /\ Next => FocusInv'
<1> SUFFICES ASSUME Inv, TruthInv, EvidenceInv, Next PROVE FocusInv'
  OBVIOUS
<1> USE DEF Inv, TypeOK, ControlInv, AuthorityInv, TruthInv, EvidenceInv, StopPoints,
  RequestPoints, FocusInv, FocusOpen, FocusIsTurn, FocusUnobserved, ObservedClosed,
  TurnInv, EffectsReached, TurnIsNew, TodoStarted, FocusReached, TurnStarts, Performing,
  Cancellable, Stopping, TerminalReceipts, ReceiptStates, WriteStates, ExecStates
<1>1. CASE Lower
  <2>1. FocusOpen'
    BY <1>1 DEF Lower, LowerRefused, Lowered, Set, signals, world, bounds
  <2>2. FocusIsTurn'
    BY <1>1 DEF Lower, LowerRefused, Lowered, Set, signals, world, bounds
  <2>3. FocusUnobserved'
    BY <1>1 DEF Lower, LowerRefused, Lowered, Set, signals, world, bounds
  <2>4. ObservedClosed'
    BY <1>1 DEF Lower, LowerRefused, Lowered, Set, signals, world, bounds
  <2> QED BY <2>1, <2>2, <2>3, <2>4 DEF FocusInv
<1>2. CASE Ask
  BY <1>2 DEF Ask, Set, world, bounds
<1>3. CASE AwaitApproval
  <2>1. FocusOpen'
    BY <1>3 DEF AwaitApproval, Set, signals, world, bounds
  <2>2. FocusIsTurn'
    BY <1>3 DEF AwaitApproval, Set, signals, world, bounds
  <2>3. FocusUnobserved'
    BY <1>3 DEF AwaitApproval, Set, signals, world, bounds
  <2>4. ObservedClosed'
    BY <1>3 DEF AwaitApproval, Set, signals, world, bounds
  <2> QED BY <2>1, <2>2, <2>3, <2>4 DEF FocusInv
<1>4. CASE RecordClosed
  <2>1. FocusOpen'
    BY <1>4, ClosedFacts DEF RecordClosed, Record, signals, world, bounds
  <2>2. FocusIsTurn'
    BY <1>4, ClosedFacts DEF RecordClosed, Record, signals, world, bounds
  <2>3. FocusUnobserved'
    BY <1>4, ClosedFacts DEF RecordClosed, Record, signals, world, bounds
  <2>4. ObservedClosed'
    BY <1>4, ClosedFacts DEF RecordClosed, Record, signals, world, bounds
  <2> QED BY <2>1, <2>2, <2>3, <2>4 DEF FocusInv
<1>5. CASE RecordDispatch
  <2>1. FocusOpen'
    BY <1>5, DispatchFacts DEF RecordDispatch, Record, Set, signals, world, bounds
  <2>2. FocusIsTurn'
    BY <1>5, DispatchFacts DEF RecordDispatch, Record, Set, signals, world, bounds
  <2>3. FocusUnobserved'
    BY <1>5, DispatchFacts DEF RecordDispatch, Record, Set, signals, world, bounds
  <2>4. ObservedClosed'
    BY <1>5, DispatchFacts DEF RecordDispatch, Record, Set, signals, world, bounds
  <2> QED BY <2>1, <2>2, <2>3, <2>4 DEF FocusInv
<1>6. CASE Attempt
  <2>1. FocusOpen'
    BY <1>6, QueryFacts DEF Attempt, Outcome, Deliver, Set, signals, world, bounds
  <2>2. FocusIsTurn'
    BY <1>6, QueryFacts DEF Attempt, Outcome, Deliver, Set, signals, world, bounds
  <2>3. FocusUnobserved'
    BY <1>6, QueryFacts DEF Attempt, Outcome, Deliver, Set, signals, world, bounds
  <2>4. ObservedClosed'
    BY <1>6, QueryFacts DEF Attempt, Outcome, Deliver, Set, signals, world, bounds
  <2> QED BY <2>1, <2>2, <2>3, <2>4 DEF FocusInv
<1>7. CASE Send
  BY <1>7 DEF Send, task, signals, bounds
<1>8. CASE Reply
  <2>1. FocusOpen'
    BY <1>8 DEF Reply, Deliver, Set, signals, world, bounds
  <2>2. FocusIsTurn'
    BY <1>8 DEF Reply, Deliver, Set, signals, world, bounds
  <2>3. FocusUnobserved'
    BY <1>8 DEF Reply, Deliver, Set, signals, world, bounds
  <2>4. ObservedClosed'
    BY <1>8 DEF Reply, Deliver, Set, signals, world, bounds
  <2> QED BY <2>1, <2>2, <2>3, <2>4 DEF FocusInv
<1>9. CASE Poll
  BY <1>9, QueryFacts DEF Poll, PollAnswers, Outcome, task, signals, world, bounds
<1>10. CASE StopRequested
  BY <1>10 DEF StopRequested, task, signals, world, bounds
<1>11. CASE StopProcess
  BY <1>11 DEF StopProcess, AfterStop, StoppedState, StopAnswer, task, signals
<1>12. CASE SettleEffect
  <2>1. FocusOpen'
    BY <1>12 DEF SettleEffect, Set, signals, world, bounds
  <2>2. FocusIsTurn'
    BY <1>12 DEF SettleEffect, Set, signals, world, bounds
  <2>3. FocusUnobserved'
    BY <1>12 DEF SettleEffect, Set, signals, world, bounds
  <2>4. ObservedClosed'
    BY <1>12 DEF SettleEffect, Set, signals, world, bounds
  <2> QED BY <2>1, <2>2, <2>3, <2>4 DEF FocusInv
<1>13. CASE Observe
  <2>1. FocusOpen'
    BY <1>13, ObserveFacts DEF Observe, Record, Uncertain, signals, world, bounds
  <2>2. FocusIsTurn'
    BY <1>13, ObserveFacts DEF Observe, Record, Uncertain, signals, world, bounds
  <2>3. FocusUnobserved'
    BY <1>13, ObserveFacts DEF Observe, Record, Uncertain, signals, world, bounds
  <2>4. ObservedClosed'
    BY <1>13, ObserveFacts DEF Observe, Record, Uncertain, signals, world, bounds
  <2> QED BY <2>1, <2>2, <2>3, <2>4 DEF FocusInv
<1>14. CASE Reconcile
  BY <1>14, ReconciliationVerdicts DEF Reconcile, Set, First, signals, world, bounds
<1>15. CASE RecordReconciled
  <2>1. FocusOpen'
    BY <1>15, ReconcileFacts DEF RecordReconciled, Record, signals, world, bounds
  <2>2. FocusIsTurn'
    BY <1>15, ReconcileFacts DEF RecordReconciled, Record, signals, world, bounds
  <2>3. FocusUnobserved'
    BY <1>15, ReconcileFacts DEF RecordReconciled, Record, signals, world, bounds
  <2>4. ObservedClosed'
    BY <1>15, ReconcileFacts DEF RecordReconciled, Record, signals, world, bounds
  <2> QED BY <2>1, <2>2, <2>3, <2>4 DEF FocusInv
<1>16. CASE ReconcileDone
  BY <1>16 DEF ReconcileDone, signals, world, bounds
<1>17. CASE SettleCompleted
  BY <1>17 DEF SettleCompleted, Legal, Unresolved, signals, world, bounds
<1>18. CASE SettleIrrecoverable
  BY <1>18 DEF SettleIrrecoverable, Stop, signals, world, bounds
<1>19. CASE SettleContinue
  BY <1>19 DEF SettleContinue, signals, world, bounds
<1>20. CASE Boundary
  BY <1>20 DEF Boundary, Uncertain, task, signals, world, bounds
<1>21. CASE Decide
  BY <1>21, DecideFacts DEF Decide, Record, PolicyGate, Uncertain, signals, world,
    bounds
<1>22. CASE Admit
  <2>1. FocusOpen'
    BY <1>22, AdmitFacts DEF Admit, Record, LifecycleClasses, TargetEffectClasses,
      signals, world, bounds
  <2>2. FocusIsTurn'
    BY <1>22, AdmitFacts DEF Admit, Record, LifecycleClasses, TargetEffectClasses,
      signals, world, bounds
  <2>3. FocusUnobserved'
    BY <1>22, AdmitFacts DEF Admit, Record, LifecycleClasses, TargetEffectClasses,
      signals, world, bounds
  <2>4. ObservedClosed'
    BY <1>22, AdmitFacts DEF Admit, Record, LifecycleClasses, TargetEffectClasses,
      signals, world, bounds
  <2> QED BY <2>1, <2>2, <2>3, <2>4 DEF FocusInv
<1>23. CASE Capability
  <2>1. FocusOpen'
    BY <1>23, ClosedFacts DEF Capability, Record, signals, world, bounds
  <2>2. FocusIsTurn'
    BY <1>23, ClosedFacts DEF Capability, Record, signals, world, bounds
  <2>3. FocusUnobserved'
    BY <1>23, ClosedFacts DEF Capability, Record, signals, world, bounds
  <2>4. ObservedClosed'
    BY <1>23, ClosedFacts DEF Capability, Record, signals, world, bounds
  <2> QED BY <2>1, <2>2, <2>3, <2>4 DEF FocusInv
<1>24. CASE Completed
  BY <1>24 DEF Completed, task, signals, world, bounds
<1>25. CASE Close
  <2>1. FocusOpen'
    BY <1>25 DEF Close, First, Set, signals, world, bounds
  <2>2. FocusIsTurn'
    BY <1>25 DEF Close, First, Set, signals, world, bounds
  <2>3. FocusUnobserved'
    BY <1>25 DEF Close, First, Set, signals, world, bounds
  <2>4. ObservedClosed'
    BY <1>25 DEF Close, First, Set, signals, world, bounds
  <2> QED BY <2>1, <2>2, <2>3, <2>4 DEF FocusInv
<1>26. CASE CloseDone
  BY <1>26 DEF CloseDone, Uncertain, task, signals, world, bounds
<1>27. CASE TaskStop
  BY <1>27, QueryFacts DEF TaskStop, StopAnswer, task, signals
<1>28. CASE Finish
  BY <1>28 DEF Finish, signals, world, bounds
<1>29. CASE EmitCompletion
  BY <1>29 DEF EmitCompletion, task, signals, world, bounds
<1>30. CASE DeliverCancel
  BY <1>30 DEF DeliverCancel, Stop, Escape, world, bounds
<1>31. CASE StepFails
  BY <1>31 DEF StepFails, Stop, Escape, signals, world
<1>32. CASE Crash
  BY <1>32 DEF Crash, task, signals, world
<1>33. CASE CancelTask
  BY <1>33 DEF CancelTask, control, task, world, bounds
<1>34. CASE ThirdPartyWrites
  BY <1>34 DEF ThirdPartyWrites, control, task, signals, bounds
<1>35. CASE Terminated
  BY <1>35 DEF Terminated, vars, control, task, signals, world, bounds
<1>36. ASSUME NEW op \in Ops, SubmitHumanResponse(op) PROVE FocusInv'
  BY <1>36 DEF SubmitHumanResponse, control, task, world, bounds
<1>37. ASSUME NEW op \in Ops, CancelEffect(op) PROVE FocusInv'
  BY <1>37 DEF CancelEffect, control, task, world, bounds
<1>38. ASSUME NEW op \in Ops, ProviderReceives(op) PROVE FocusInv'
  BY <1>38 DEF ProviderReceives, control, task, signals, bounds
<1>39. ASSUME NEW op \in Ops, RequestLost(op) PROVE FocusInv'
  BY <1>39 DEF RequestLost, control, task, signals, bounds
<1>40. ASSUME NEW op \in Ops, ProcessEnds(op) PROVE FocusInv'
  BY <1>40 DEF ProcessEnds, control, task, signals, bounds
<1> QED BY <1>1, <1>2, <1>3, <1>4, <1>5, <1>6, <1>7, <1>8, <1>9, <1>10, <1>11, <1>12,
  <1>13, <1>14, <1>15, <1>16, <1>17, <1>18, <1>19, <1>20, <1>21, <1>22, <1>23, <1>24,
  <1>25, <1>26, <1>27, <1>28, <1>29, <1>30, <1>31, <1>32, <1>33, <1>34, <1>35, <1>36,
  <1>37, <1>38, <1>39, <1>40 DEF Next, Workflow, PerformTarget, Loop, Interrupt,
  Handlers, Provider

(* No step starts an effect while an earlier one may still change. *)
LEMMA SettledInvStep == Inv /\ TruthInv /\ EvidenceInv /\ Next => SettledInv'
<1> SUFFICES ASSUME Inv, TruthInv, EvidenceInv, Next PROVE SettledInv'
  OBVIOUS
<1> USE DEF Inv, TypeOK, ControlInv, AuthorityInv, TruthInv, EvidenceInv, StopPoints,
  RequestPoints, SettledInv, OnlyTheTurnOpen, EarlierSettled, RequestAlone,
  TodoUncertain, FocusInv, FocusOpen, FocusIsTurn, FocusUnobserved, ObservedClosed,
  TurnInv, EffectsReached, TurnIsNew, TodoStarted, FocusReached, TurnStarts, Performing,
  Open, Cancellable, Stopping, TerminalReceipts, ReceiptStates, WriteStates, ExecStates
<1>1. CASE Lower
  <2>1. OnlyTheTurnOpen'
    BY <1>1 DEF Lower, LowerRefused, Lowered, Set, signals, world, bounds
  <2>2. EarlierSettled'
    <3>1. pc = "request" /\ focus = turn /\ turn \in Ops /\ ~Stopping
      BY <1>1, Bounds DEF Lower
    <3>2. \A other \in Ops : status[other] \notin Open
      BY <3>1
    <3>3. \A op \in Ops : op # turn => status'[op] = status[op]
      BY <1>1, <3>1 DEF Lower, LowerRefused, Lowered, Set
    <3>4. ASSUME NEW op \in Ops, NEW other \in Ops, other < op, status'[op] # "none"
          PROVE  status'[other] \notin Open
      <4>1. op <= turn
        BY <3>1, <3>3, <3>4 DEF Ops
      <4>2. other # turn
        BY <3>1, <3>4, <4>1 DEF Ops
      <4> QED BY <3>2, <3>3, <4>2
    <3> QED BY <3>4 DEF EarlierSettled
  <2>3. RequestAlone'
    BY <1>1 DEF Lower, LowerRefused, Lowered, Set, signals, world, bounds
  <2>4. TodoUncertain'
    BY <1>1 DEF Lower, LowerRefused, Lowered, Set, signals, world, bounds
  <2> QED BY <2>1, <2>2, <2>3, <2>4 DEF SettledInv
<1>2. CASE Ask
  BY <1>2 DEF Ask, Set, world, bounds
<1>3. CASE AwaitApproval
  BY <1>3 DEF AwaitApproval, Set, signals, world, bounds
<1>4. CASE RecordClosed
  BY <1>4, ClosedFacts DEF RecordClosed, Record, signals, world, bounds
<1>5. CASE RecordDispatch
  BY <1>5, DispatchFacts DEF RecordDispatch, Record, Set, signals, world, bounds
<1>6. CASE Attempt
  BY <1>6, QueryFacts DEF Attempt, Outcome, Deliver, Set, signals, world, bounds
<1>7. CASE Send
  BY <1>7 DEF Send, task, signals, bounds
<1>8. CASE Reply
  BY <1>8 DEF Reply, Deliver, Set, signals, world, bounds
<1>9. CASE Poll
  BY <1>9, QueryFacts DEF Poll, PollAnswers, Outcome, task, signals, world, bounds
<1>10. CASE StopRequested
  BY <1>10 DEF StopRequested, task, signals, world, bounds
<1>11. CASE StopProcess
  BY <1>11 DEF StopProcess, AfterStop, StoppedState, StopAnswer, task, signals
<1>12. CASE SettleEffect
  BY <1>12 DEF SettleEffect, Set, signals, world, bounds
<1>13. CASE Observe
  BY <1>13, ObserveFacts DEF Observe, Record, Uncertain, signals, world, bounds
<1>14. CASE Reconcile
  BY <1>14, ReconciliationVerdicts DEF Reconcile, Set, First, signals, world, bounds
<1>15. CASE RecordReconciled
  BY <1>15, ReconcileFacts DEF RecordReconciled, Record, signals, world, bounds
<1>16. CASE ReconcileDone
  BY <1>16 DEF ReconcileDone, signals, world, bounds
<1>17. CASE SettleCompleted
  BY <1>17 DEF SettleCompleted, Legal, Unresolved, signals, world, bounds
<1>18. CASE SettleIrrecoverable
  BY <1>18 DEF SettleIrrecoverable, Stop, signals, world, bounds
<1>19. CASE SettleContinue
  BY <1>19 DEF SettleContinue, signals, world, bounds
<1>20. CASE Boundary
  BY <1>20 DEF Boundary, Uncertain, task, signals, world, bounds
<1>21. CASE Decide
  <2>1. OnlyTheTurnOpen'
    BY <1>21, DecideFacts DEF Decide, Record, PolicyGate, Uncertain, signals, world,
      bounds
  <2>2. EarlierSettled'
    BY <1>21, DecideFacts DEF Decide, Record, PolicyGate, Uncertain, signals, world,
      bounds
  <2>3. RequestAlone'
    <3>1. turn \in Ops
      BY <1>21 DEF Decide, Ops
    <3>2. pc' = "admit" /\ class'[turn] \in LifecycleClasses => Uncertain = {}
      BY <1>21, <3>1 DEF Decide, PolicyGate
    <3> QED BY <1>21, <3>2 DEF Decide, Uncertain
  <2>4. TodoUncertain'
    BY <1>21, DecideFacts DEF Decide, Record, PolicyGate, Uncertain, signals, world,
      bounds
  <2> QED BY <2>1, <2>2, <2>3, <2>4 DEF SettledInv
<1>22. CASE Admit
  BY <1>22, AdmitFacts DEF Admit, Record, LifecycleClasses, TargetEffectClasses,
    signals, world, bounds
<1>23. CASE Capability
  BY <1>23, ClosedFacts DEF Capability, Record, signals, world, bounds
<1>24. CASE Completed
  BY <1>24 DEF Completed, task, signals, world, bounds
<1>25. CASE Close
  <2>1. OnlyTheTurnOpen'
    BY <1>25 DEF Close, First, Set, signals, world, bounds
  <2>2. EarlierSettled'
    BY <1>25 DEF Close, First, Set, signals, world, bounds
  <2>3. RequestAlone'
    BY <1>25 DEF Close, First, Set, signals, world, bounds
  <2>4. TodoUncertain'
    BY <1>25 DEF Close, First, Set, signals, world, bounds
  <2> QED BY <2>1, <2>2, <2>3, <2>4 DEF SettledInv
<1>26. CASE CloseDone
  BY <1>26 DEF CloseDone, Uncertain, task, signals, world, bounds
<1>27. CASE TaskStop
  BY <1>27, QueryFacts DEF TaskStop, StopAnswer, task, signals
<1>28. CASE Finish
  BY <1>28 DEF Finish, signals, world, bounds
<1>29. CASE EmitCompletion
  BY <1>29 DEF EmitCompletion, task, signals, world, bounds
<1>30. CASE DeliverCancel
  BY <1>30 DEF DeliverCancel, Stop, Escape, world, bounds
<1>31. CASE StepFails
  BY <1>31 DEF StepFails, Stop, Escape, signals, world
<1>32. CASE Crash
  BY <1>32 DEF Crash, task, signals, world
<1>33. CASE CancelTask
  BY <1>33 DEF CancelTask, control, task, world, bounds
<1>34. CASE ThirdPartyWrites
  BY <1>34 DEF ThirdPartyWrites, control, task, signals, bounds
<1>35. CASE Terminated
  BY <1>35 DEF Terminated, vars, control, task, signals, world, bounds
<1>36. ASSUME NEW op \in Ops, SubmitHumanResponse(op) PROVE SettledInv'
  BY <1>36 DEF SubmitHumanResponse, control, task, world, bounds
<1>37. ASSUME NEW op \in Ops, CancelEffect(op) PROVE SettledInv'
  BY <1>37 DEF CancelEffect, control, task, world, bounds
<1>38. ASSUME NEW op \in Ops, ProviderReceives(op) PROVE SettledInv'
  BY <1>38 DEF ProviderReceives, control, task, signals, bounds
<1>39. ASSUME NEW op \in Ops, RequestLost(op) PROVE SettledInv'
  BY <1>39 DEF RequestLost, control, task, signals, bounds
<1>40. ASSUME NEW op \in Ops, ProcessEnds(op) PROVE SettledInv'
  BY <1>40 DEF ProcessEnds, control, task, signals, bounds
<1> QED BY <1>1, <1>2, <1>3, <1>4, <1>5, <1>6, <1>7, <1>8, <1>9, <1>10, <1>11, <1>12,
  <1>13, <1>14, <1>15, <1>16, <1>17, <1>18, <1>19, <1>20, <1>21, <1>22, <1>23, <1>24,
  <1>25, <1>26, <1>27, <1>28, <1>29, <1>30, <1>31, <1>32, <1>33, <1>34, <1>35, <1>36,
  <1>37, <1>38, <1>39, <1>40 DEF Next, Workflow, PerformTarget, Loop, Interrupt,
  Handlers, Provider

(* No step loses an uncertainty, or publishes COMPLETED beside one. *)
LEMMA QuietInvStep == Inv /\ TruthInv /\ EvidenceInv /\ Next => QuietInv'
<1> SUFFICES ASSUME Inv, TruthInv, EvidenceInv, Next PROVE QuietInv'
  OBVIOUS
<1> USE DEF Inv, TypeOK, ControlInv, AuthorityInv, TruthInv, EvidenceInv, StopPoints,
  RequestPoints, QuietInv, UncertaintyJournaled, FocusAdmitted, VerdictKept, ClassKept,
  CompletedSettled, SettledInv, OnlyTheTurnOpen, EarlierSettled, RequestAlone,
  TodoUncertain, FocusInv, FocusOpen, FocusIsTurn, FocusUnobserved, ObservedClosed,
  TurnInv, EffectsReached, TurnIsNew, TodoStarted, FocusReached, TurnStarts, Performing,
  Open, Cancellable, Stopping, TerminalReceipts, ReceiptStates, WriteStates, ExecStates
<1>1. CASE Lower
  <2>1. UncertaintyJournaled'
    BY <1>1 DEF Lower, LowerRefused, Lowered, Set, signals, world, bounds
  <2>2. FocusAdmitted'
    BY <1>1 DEF Lower, LowerRefused, Lowered, Set, signals, world, bounds
  <2>3. VerdictKept'
    BY <1>1 DEF Lower, LowerRefused, Lowered, Set, signals, world, bounds
  <2>4. ClassKept'
    BY <1>1 DEF Lower, LowerRefused, Lowered, Set, signals, world, bounds
  <2>5. CompletedSettled'
    BY <1>1 DEF Lower, LowerRefused, Lowered, Set, signals, world, bounds
  <2> QED BY <2>1, <2>2, <2>3, <2>4, <2>5 DEF QuietInv
<1>2. CASE Ask
  BY <1>2 DEF Ask, Set, world, bounds
<1>3. CASE AwaitApproval
  BY <1>3 DEF AwaitApproval, Set, signals, world, bounds
<1>4. CASE RecordClosed
  <2>1. UncertaintyJournaled'
    BY <1>4, ClosedFacts DEF RecordClosed, Record, signals, world, bounds
  <2>2. FocusAdmitted'
    BY <1>4, ClosedFacts DEF RecordClosed, Record, signals, world, bounds
  <2>3. VerdictKept'
    BY <1>4, ClosedFacts DEF RecordClosed, Record, signals, world, bounds
  <2>4. ClassKept'
    BY <1>4, ClosedFacts DEF RecordClosed, Record, signals, world, bounds
  <2>5. CompletedSettled'
    BY <1>4, ClosedFacts DEF RecordClosed, Record, signals, world, bounds
  <2> QED BY <2>1, <2>2, <2>3, <2>4, <2>5 DEF QuietInv
<1>5. CASE RecordDispatch
  <2>1. UncertaintyJournaled'
    BY <1>5, DispatchFacts DEF RecordDispatch, Record, Set, signals, world, bounds
  <2>2. FocusAdmitted'
    BY <1>5, DispatchFacts DEF RecordDispatch, Record, Set, signals, world, bounds
  <2>3. VerdictKept'
    BY <1>5, DispatchFacts DEF RecordDispatch, Record, Set, signals, world, bounds
  <2>4. ClassKept'
    BY <1>5, DispatchFacts DEF RecordDispatch, Record, Set, signals, world, bounds
  <2>5. CompletedSettled'
    BY <1>5, DispatchFacts DEF RecordDispatch, Record, Set, signals, world, bounds
  <2> QED BY <2>1, <2>2, <2>3, <2>4, <2>5 DEF QuietInv
<1>6. CASE Attempt
  BY <1>6, QueryFacts DEF Attempt, Outcome, Deliver, Set, signals, world, bounds
<1>7. CASE Send
  BY <1>7 DEF Send, task, signals, bounds
<1>8. CASE Reply
  BY <1>8 DEF Reply, Deliver, Set, signals, world, bounds
<1>9. CASE Poll
  BY <1>9, QueryFacts DEF Poll, PollAnswers, Outcome, task, signals, world, bounds
<1>10. CASE StopRequested
  BY <1>10 DEF StopRequested, task, signals, world, bounds
<1>11. CASE StopProcess
  BY <1>11 DEF StopProcess, AfterStop, StoppedState, StopAnswer, task, signals
<1>12. CASE SettleEffect
  BY <1>12 DEF SettleEffect, Set, signals, world, bounds
<1>13. CASE Observe
  <2>1. UncertaintyJournaled'
    BY <1>13, ObserveFacts DEF Observe, Record, Uncertain, signals, world, bounds
  <2>2. FocusAdmitted'
    BY <1>13, ObserveFacts DEF Observe, Record, Uncertain, signals, world, bounds
  <2>3. VerdictKept'
    BY <1>13, ObserveFacts DEF Observe, Record, Uncertain, signals, world, bounds
  <2>4. ClassKept'
    BY <1>13, ObserveFacts DEF Observe, Record, Uncertain, signals, world, bounds
  <2>5. CompletedSettled'
    BY <1>13, ObserveFacts DEF Observe, Record, Uncertain, signals, world, bounds
  <2> QED BY <2>1, <2>2, <2>3, <2>4, <2>5 DEF QuietInv
<1>14. CASE Reconcile
  BY <1>14, ReconciliationVerdicts DEF Reconcile, Set, First, signals, world, bounds
<1>15. CASE RecordReconciled
  <2>1. UncertaintyJournaled'
    BY <1>15, ReconcileFacts DEF RecordReconciled, Record, signals, world, bounds
  <2>2. FocusAdmitted'
    BY <1>15, ReconcileFacts DEF RecordReconciled, Record, signals, world, bounds
  <2>3. VerdictKept'
    BY <1>15, ReconcileFacts DEF RecordReconciled, Record, signals, world, bounds
  <2>4. ClassKept'
    BY <1>15, ReconcileFacts DEF RecordReconciled, Record, signals, world, bounds
  <2>5. CompletedSettled'
    BY <1>15, ReconcileFacts DEF RecordReconciled, Record, signals, world, bounds
  <2> QED BY <2>1, <2>2, <2>3, <2>4, <2>5 DEF QuietInv
<1>16. CASE ReconcileDone
  BY <1>16 DEF ReconcileDone, signals, world, bounds
<1>17. CASE SettleCompleted
  BY <1>17 DEF SettleCompleted, Legal, Unresolved, signals, world, bounds
<1>18. CASE SettleIrrecoverable
  BY <1>18 DEF SettleIrrecoverable, Stop, signals, world, bounds
<1>19. CASE SettleContinue
  BY <1>19 DEF SettleContinue, signals, world, bounds
<1>20. CASE Boundary
  BY <1>20 DEF Boundary, Uncertain, task, signals, world, bounds
<1>21. CASE Decide
  <2>1. UncertaintyJournaled'
    BY <1>21, DecideFacts DEF Decide, Record, PolicyGate, Uncertain, signals, world,
      bounds
  <2>2. FocusAdmitted'
    BY <1>21, DecideFacts DEF Decide, Record, PolicyGate, Uncertain, signals, world,
      bounds
  <2>3. VerdictKept'
    BY <1>21, DecideFacts DEF Decide, Record, PolicyGate, Uncertain, signals, world,
      bounds
  <2>4. ClassKept'
    BY <1>21, DecideFacts DEF Decide, Record, PolicyGate, Uncertain, signals, world,
      bounds
  <2>5. CompletedSettled'
    BY <1>21, DecideFacts DEF Decide, Record, PolicyGate, Uncertain, signals, world,
      bounds
  <2> QED BY <2>1, <2>2, <2>3, <2>4, <2>5 DEF QuietInv
<1>22. CASE Admit
  <2>1. UncertaintyJournaled'
    BY <1>22, AdmitFacts DEF Admit, Record, LifecycleClasses, TargetEffectClasses,
      signals, world, bounds
  <2>2. FocusAdmitted'
    BY <1>22, AdmitFacts DEF Admit, Record, LifecycleClasses, TargetEffectClasses,
      signals, world, bounds
  <2>3. VerdictKept'
    BY <1>22, AdmitFacts DEF Admit, Record, LifecycleClasses, TargetEffectClasses,
      signals, world, bounds
  <2>4. ClassKept'
    BY <1>22, AdmitFacts DEF Admit, Record, LifecycleClasses, TargetEffectClasses,
      signals, world, bounds
  <2>5. CompletedSettled'
    BY <1>22, AdmitFacts DEF Admit, Record, LifecycleClasses, TargetEffectClasses,
      signals, world, bounds
  <2> QED BY <2>1, <2>2, <2>3, <2>4, <2>5 DEF QuietInv
<1>23. CASE Capability
  <2>1. UncertaintyJournaled'
    BY <1>23, ClosedFacts DEF Capability, Record, signals, world, bounds
  <2>2. FocusAdmitted'
    BY <1>23, ClosedFacts DEF Capability, Record, signals, world, bounds
  <2>3. VerdictKept'
    BY <1>23, ClosedFacts DEF Capability, Record, signals, world, bounds
  <2>4. ClassKept'
    BY <1>23, ClosedFacts DEF Capability, Record, signals, world, bounds
  <2>5. CompletedSettled'
    BY <1>23, ClosedFacts DEF Capability, Record, signals, world, bounds
  <2> QED BY <2>1, <2>2, <2>3, <2>4, <2>5 DEF QuietInv
<1>24. CASE Completed
  BY <1>24 DEF Completed, task, signals, world, bounds
<1>25. CASE Close
  BY <1>25 DEF Close, First, Set, signals, world, bounds
<1>26. CASE CloseDone
  BY <1>26 DEF CloseDone, Uncertain, task, signals, world, bounds
<1>27. CASE TaskStop
  <2>1. UncertaintyJournaled'
    BY <1>27, QueryFacts DEF TaskStop, StopAnswer, task, signals
  <2>2. FocusAdmitted'
    BY <1>27, QueryFacts DEF TaskStop, StopAnswer, task, signals
  <2>3. VerdictKept'
    BY <1>27, QueryFacts DEF TaskStop, StopAnswer, task, signals
  <2>4. ClassKept'
    BY <1>27, RunningIsExec
  <2>5. CompletedSettled'
    BY <1>27, QueryFacts DEF TaskStop, StopAnswer, task, signals
  <2> QED BY <2>1, <2>2, <2>3, <2>4, <2>5 DEF QuietInv
<1>28. CASE Finish
  <2>1. UncertaintyJournaled'
    BY <1>28 DEF Finish, signals, world, bounds
  <2>2. FocusAdmitted'
    BY <1>28 DEF Finish, signals, world, bounds
  <2>3. VerdictKept'
    BY <1>28 DEF Finish, signals, world, bounds
  <2>4. ClassKept'
    BY <1>28 DEF Finish, signals, world, bounds
  <2>5. CompletedSettled'
    BY <1>28 DEF Finish, signals, world, bounds
  <2> QED BY <2>1, <2>2, <2>3, <2>4, <2>5 DEF QuietInv
<1>29. CASE EmitCompletion
  BY <1>29 DEF EmitCompletion, task, signals, world, bounds
<1>30. CASE DeliverCancel
  BY <1>30 DEF DeliverCancel, Stop, Escape, world, bounds
<1>31. CASE StepFails
  BY <1>31 DEF StepFails, Stop, Escape, signals, world
<1>32. CASE Crash
  BY <1>32 DEF Crash, task, signals, world
<1>33. CASE CancelTask
  BY <1>33 DEF CancelTask, control, task, world, bounds
<1>34. CASE ThirdPartyWrites
  BY <1>34 DEF ThirdPartyWrites, control, task, signals, bounds
<1>35. CASE Terminated
  BY <1>35 DEF Terminated, vars, control, task, signals, world, bounds
<1>36. ASSUME NEW op \in Ops, SubmitHumanResponse(op) PROVE QuietInv'
  BY <1>36 DEF SubmitHumanResponse, control, task, world, bounds
<1>37. ASSUME NEW op \in Ops, CancelEffect(op) PROVE QuietInv'
  BY <1>37 DEF CancelEffect, control, task, world, bounds
<1>38. ASSUME NEW op \in Ops, ProviderReceives(op) PROVE QuietInv'
  <2>1. UncertaintyJournaled'
    BY <1>38 DEF ProviderReceives, control, task, signals, bounds
  <2>2. FocusAdmitted'
    BY <1>38 DEF ProviderReceives, control, task, signals, bounds
  <2>3. VerdictKept'
    BY <1>38 DEF ProviderReceives, control, task, signals, bounds
  <2>4. ClassKept'
    BY <1>38, RunningIsExec
  <2>5. CompletedSettled'
    BY <1>38 DEF ProviderReceives, control, task, signals, bounds
  <2> QED BY <2>1, <2>2, <2>3, <2>4, <2>5 DEF QuietInv
<1>39. ASSUME NEW op \in Ops, RequestLost(op) PROVE QuietInv'
  BY <1>39 DEF RequestLost, control, task, signals, bounds
<1>40. ASSUME NEW op \in Ops, ProcessEnds(op) PROVE QuietInv'
  BY <1>40 DEF ProcessEnds, control, task, signals, bounds
<1> QED BY <1>1, <1>2, <1>3, <1>4, <1>5, <1>6, <1>7, <1>8, <1>9, <1>10, <1>11, <1>12,
  <1>13, <1>14, <1>15, <1>16, <1>17, <1>18, <1>19, <1>20, <1>21, <1>22, <1>23, <1>24,
  <1>25, <1>26, <1>27, <1>28, <1>29, <1>30, <1>31, <1>32, <1>33, <1>34, <1>35, <1>36,
  <1>37, <1>38, <1>39, <1>40 DEF Next, Workflow, PerformTarget, Loop, Interrupt,
  Handlers, Provider

(* The invariant of every Task. *)
THEOREM EvidenceInvariance == Spec => []EvidenceInv
<1>1. Init => EvidenceInv
  <2> SUFFICES ASSUME Init PROVE EvidenceInv
    OBVIOUS
  <2>1. facts.observed = {}
    BY DEF Init, EmptyJournal
  <2> QED BY <2>1, Bounds DEF Init, EvidenceInv, OneRequest, TurnInv, EffectsReached,
    TurnIsNew, TodoStarted, FocusReached, FocusInv, FocusOpen, FocusIsTurn, FocusUnobserved,
    ObservedClosed, SettledInv, OnlyTheTurnOpen, EarlierSettled, RequestAlone,
    TodoUncertain, QuietInv, UncertaintyJournaled, FocusAdmitted, VerdictKept, ClassKept,
    CompletedSettled, TurnStarts, Performing, Open, Cancellable
<1>2. EvidenceInv /\ UNCHANGED vars => EvidenceInv'
  BY DEF EvidenceInv, OneRequest, TurnInv, EffectsReached, TurnIsNew, TodoStarted,
    FocusReached, FocusInv, FocusOpen, FocusIsTurn, FocusUnobserved, ObservedClosed,
    SettledInv, OnlyTheTurnOpen, EarlierSettled, RequestAlone, TodoUncertain, QuietInv,
    UncertaintyJournaled, FocusAdmitted, VerdictKept, ClassKept, CompletedSettled,
    TurnStarts, Stopping, vars, control, task, world
<1>3. Inv /\ TruthInv /\ EvidenceInv /\ Next => EvidenceInv'
  BY OneRequestStep, TurnInvStep, FocusInvStep, SettledInvStep, QuietInvStep DEF
    EvidenceInv
<1> QED BY <1>1, <1>2, <1>3, Invariance, TruthInvariance, PTL DEF Spec

(* The status of an effect that is neither open nor closed as DIFFERENT_STATE *)
(* says what the provider holds, and no request of it is on its way.          *)
LEMMA ClosedIsKnown ==
  ASSUME Inv, TruthInv, EvidenceInv, StrongAbsence, NEW op \in Ops,
         status[op] \notin Open \cup {"different_state"}
  PROVE  /\ op \notin inflight
         /\ receipt[op] # "none" => receipt[op] = status[op]
<1>1. status[op] \in {"none", "not_dispatched", "not_applied"} \cup TerminalReceipts
  BY DEF Inv, TypeOK, Open, Cancellable, Statuses
<1>2. CASE status[op] \in {"none", "not_dispatched", "not_applied"}
  BY <1>2 DEF TruthInv, OutcomeTruthful
<1>3. CASE status[op] \in TerminalReceipts
  BY <1>3 DEF TruthInv, OutcomeTruthful, EvidenceInv, OneRequest, TerminalReceipts,
    ReceiptStates, WriteStates, ExecStates
<1> QED BY <1>1, <1>2, <1>3

(* completion.legality: once COMPLETED is published no process of the Task runs on the  *)
(* target and no request of it is on its way, except a write closed as DIFFERENT_STATE. *)
THEOREM CompletionQuiescent == Spec => []CompletionIsQuiescent
<1>1. Inv /\ TruthInv /\ EvidenceInv => CompletionIsQuiescent
  <2> SUFFICES ASSUME Inv, TruthInv, EvidenceInv, shown = "COMPLETED", StrongAbsence,
                      NEW op \in Ops
               PROVE  /\ receipt[op] # "running"
                      /\ op \in inflight => status[op] = "different_state"
    BY DEF CompletionIsQuiescent
  <2>1. status[op] \notin Open
    BY DEF EvidenceInv, QuietInv, CompletedSettled
  <2>2. CASE status[op] = "different_state"
    BY <2>2 DEF EvidenceInv, QuietInv, ClassKept
  <2>3. CASE status[op] # "different_state"
    BY <2>1, <2>3, ClosedIsKnown DEF Inv, TypeOK, Statuses, TerminalReceipts,
      ReceiptStates, WriteStates, ExecStates, Open, Cancellable
  <2> QED BY <2>2, <2>3
<1> QED BY <1>1, Invariance, TruthInvariance, EvidenceInvariance, PTL

(* A write that reached the target, or can, is among the writes the verifiers see. *)
LEMMA SentIsSeen ==
  ASSUME Inv, TruthInv, NEW w \in Ops, class[w] = "write", ~Idle(w)
  PROVE  w \in Writes
BY DEF Inv, AuthorityInv, Authorized, TruthInv, Idle, Writes, Records, LifecycleClasses

(* What the verifiers read of an effect is its status, and that is final. *)
LEMMA RecordedIsKnown ==
  ASSUME Inv, TruthInv, EvidenceInv, StrongAbsence, NEW op \in Ops,
         RecordedStatus(op) \notin Unknown
  PROVE  /\ RecordedStatus(op) = status[op]
         /\ op \notin inflight
         /\ receipt[op] # "none" => receipt[op] = status[op]
<1>1. op \in facts.observed /\ RecordedStatus(op) = status[op]
  BY DEF RecordedStatus, Unknown
<1>2. status[op] \notin Open \cup {"different_state"}
  BY <1>1 DEF EvidenceInv, FocusInv, ObservedClosed, Open, Unknown
<1> QED BY <1>1, <1>2, ClosedIsKnown

(* An effect recorded as applied or completed is. *)
LEMMA RecordedHappened ==
  ASSUME TruthInv, NEW op \in Ops, RecordedStatus(op) \in {"applied", "completed"}
  PROVE  receipt[op] = RecordedStatus(op) /\ status[op] = RecordedStatus(op)
BY DEF TruthInv, OutcomeTruthful, RecordedStatus, TerminalReceipts, ReceiptStates,
  WriteStates, ExecStates

(* A write that is neither open nor applied for the verifiers, nor overtaken, is idle. *)
LEMMA UnseenIsIdle ==
  ASSUME Inv, TruthInv, EvidenceInv, StrongAbsence, OpenWrites = {},
         NEW w \in Ops, class[w] = "write", \A other \in Applied : other < w
  PROVE  Idle(w)
<1> SUFFICES ASSUME ~Idle(w) PROVE FALSE
  OBVIOUS
<1>1. w \in Writes
  BY SentIsSeen
<1>2. RecordedStatus(w) \notin Unknown
  BY <1>1 DEF OpenWrites
<1>3. RecordedStatus(w) = "applied"
  BY <1>2, RecordedIsKnown DEF Idle
<1>4. w \in Applied /\ ~(w < w)
  BY <1>1, <1>3 DEF Applied, Ops
<1> QED BY <1>4

(* effect_evidence: what the verifiers over target effects take for demonstrated is so  *)
(* on the target.                                                                       *)
THEOREM EvidenceTrue == Spec => []EvidenceIsTrue
<1>1. Inv /\ TruthInv /\ EvidenceInv => EvidenceIsTrue
  <2> SUFFICES ASSUME Inv, TruthInv, EvidenceInv, StrongAbsence PROVE EvidenceIsTrue
    BY DEF EvidenceIsTrue
  <2>1. ASSUME NEW op \in Ops, VerifyContent(op) = "satisfied"
        PROVE  /\ receipt[op] = "applied"
               /\ \A w \in Ops : class[w] = "write" /\ w > op => Idle(w)
    <3>1. OpenWrites = {} /\ Changes(Applied, op)
      BY <2>1 DEF VerifyContent
    <3>2. op \in Applied /\ \A other \in Applied : other <= op
      BY <3>1 DEF Changes, LastOf
    <3>3. receipt[op] = "applied"
      BY <3>2, RecordedHappened DEF Applied
    <3>4. ASSUME NEW w \in Ops, class[w] = "write", w > op PROVE Idle(w)
      <4>1. Applied \subseteq Ops
        BY DEF Applied, Writes, Records, Inv, TypeOK, JournalFacts
      <4>2. \A other \in Applied : other < w
        BY <3>2, <3>4, <4>1, Bounds DEF Ops
      <4> QED BY <3>1, <3>4, <4>2, UnseenIsIdle
    <3> QED BY <3>3, <3>4
  <2>2. ASSUME VerifyUntouched = "satisfied", Applied = {}, NEW w \in Ops, class[w] =
    "write"
        PROVE  Idle(w)
    <3>1. OpenWrites = {}
      BY <2>2 DEF VerifyUntouched
    <3> QED BY <2>2, <3>1, UnseenIsIdle
  <2>3. ASSUME VerifyResult("exec", "completed", TRUE) = "satisfied"
        PROVE  \E op \in Ops :
                 /\ class[op] = "exec" /\ receipt[op] = "completed"
                 /\ \A w \in Ops : class[w] = "write" =>
                      /\ w > op => Idle(w)
                      /\ w < op /\ w \in inflight => status[w] = "different_state"
    <3>1. PICK op \in Select("exec") : RecordedStatus(op) = "completed" /\
      AfterLastChange(op)
      BY <2>3 DEF VerifyResult
    <3>2. op \in Ops /\ class[op] = "exec"
      BY DEF Select, Records, Inv, TypeOK, JournalFacts
    <3>3. receipt[op] = "completed" /\ status[op] = "completed"
      BY <3>1, <3>2, RecordedHappened
    <3>4. ASSUME NEW w \in Ops, class[w] = "write", w > op PROVE Idle(w)
      <4> SUFFICES ASSUME ~Idle(w) PROVE FALSE
        OBVIOUS
      <4>1. w \in Writes
        BY <3>4, SentIsSeen
      <4>2. RecordedStatus(w) \in {"not_applied", "conflict", "rejected"}
        BY <3>1, <3>4, <4>1 DEF AfterLastChange, Writes
      <4> QED BY <4>2, RecordedIsKnown DEF Unknown, Idle
    <3>5. ASSUME NEW w \in Ops, w < op, w \in inflight PROVE status[w] =
      "different_state"
      <4>1. status[w] \notin Open
        BY <3>2, <3>3, <3>5 DEF EvidenceInv, SettledInv, EarlierSettled
      <4> QED BY <3>5, <4>1, ClosedIsKnown
    <3> QED BY <3>2, <3>3, <3>4, <3>5
  <2> QED BY <2>1, <2>2, <2>3 DEF EvidenceIsTrue
<1> QED BY <1>1, Invariance, TruthInvariance, EvidenceInvariance, PTL

-----------------------------------------------------------------------------
(***************************************************************************)
(* Part 4.  The journal a Task leaves and the way it stops:                *)
(* journal.analyze finds nothing wrong in what the workflow records, the   *)
(* chain stays short, and a stop closes every effect.                      *)
(***************************************************************************)
(* Before dispatch, and after it. *)
Before == {"admitted", "awaiting_approval"}
After == {"dispatched", "running"}

(* close_effects has visited what is not in todo, but for the effect it     *)
(* works on; an open effect is closed before anything else is recorded.     *)
StopInv ==
  Stopping /\ pc # "raised" =>
    \A op \in Ops : status[op] \in Cancellable =>
      \/ pc = "close" /\ op \in todo
      \/ pc \in {"taskStop", "receipt"} /\ op = focus

(* An operation is admitted in its turn, before anything else is recorded of it. *)
AdmittedInTurn ==
  /\ \A op \in facts.admitted : op <= turn
  /\ facts.dispatched \subseteq facts.admitted
  /\ TurnStarts /\ pc # "request" => turn \notin facts.admitted

(* The statuses say how far the journal is. *)
StatusJournaled ==
  \A op \in Ops :
    /\ status[op] \in Before => op \in (facts.admitted \cap facts.lifecycle) \ facts.dispatched
    /\ status[op] \in After => op \in facts.admitted \cap facts.lifecycle \cap facts.dispatched

(* So does the await at which the workflow stands. *)
FocusJournaled ==
  /\ pc \in {"ask", "approval", "dispatch"} => status[focus] \in Before
  /\ pc \in {"attempt", "send", "reply", "supervise", "stop", "receipt", "taskStop"} =>
       status[focus] \in After
  /\ pc = "request" => focus \in (facts.admitted \cap facts.lifecycle) \ facts.dispatched
  /\ pc = "closed" => focus \in facts.admitted \ facts.dispatched
  /\ pc = "observe" => focus \in facts.admitted \cap facts.dispatched
  /\ pc = "capability" => focus \in facts.admitted \ facts.lifecycle
  /\ pc = "reconciled" /\ ~Stopping => focus \in facts.uncertain
  /\ pc = "reconciled" => todo = {}

(* What analyze may object to. *)
NoProblems ==
  facts.problems \subseteq (IF Stopping THEN {"reconciled without uncertainty"} ELSE {})

(* The entries a turn may still add before its five are used, *)
TurnEntries ==
  ~Stopping =>
    /\ facts.length <= 5 * turn
    /\ pc = "boundary" => facts.length + 5 <= 5 * turn
    /\ ret = "boundary" /\ (pc = "reconciled" \/ (pc = "reconcile" /\ todo # {})) =>
         facts.length + 5 <= 5 * turn
    /\ ret = "boundary" /\ pc \in {"reconcile", "settle"} => facts.length + 4 <= 5 * turn
    /\ pc \in {"decide", "admit"} => facts.length + 4 <= 5 * turn
    /\ pc \in {"request", "ask", "approval", "dispatch", "closed", "capability"} =>
         facts.length + 3 <= 5 * turn
    /\ pc \in Performing \cup {"observe"} => facts.length + 2 <= 5 * turn
    /\ pc = "reconciled" \/ (pc = "reconcile" /\ todo # {}) => facts.length + 1 <= 5 * turn

(* and those a stop may still add before its two are. *)
StopEntries ==
  Stopping =>
    /\ facts.length <= 5 * turn + 2
    /\ pc \in {"closed", "taskStop", "receipt", "observe"} => facts.length <= 5 * turn
    /\ pc = "close" /\ (\E op \in Ops : status[op] \in Cancellable) => facts.length <= 5 * turn
    /\ pc \in {"close", "reconciled"} \/ (pc = "reconcile" /\ todo # {}) =>
         facts.length + 1 <= 5 * turn + 2

JournalInv ==
  AdmittedInTurn /\ StatusJournaled /\ FocusJournaled /\ NoProblems /\ TurnEntries /\ StopEntries

(* The handlers, the provider and a run that is over leave the workflow alone. *)
LEMMA OutsideKeeps == Handlers \/ Provider \/ Terminated => UNCHANGED <<control, task>>
BY DEF Handlers, SubmitHumanResponse, CancelEffect, CancelTask, Provider,
  ProviderReceives,
  RequestLost, ProcessEnds, ThirdPartyWrites, Terminated, vars

(* Two effects are never open at once. *)
LEMMA OneOpen ==
  ASSUME TypeOK, EvidenceInv, NEW op \in Ops, NEW other \in Ops,
         status[op] \in Open, status[other] \in Open
  PROVE  op = other
<1>1. ~(op < other) /\ ~(other < op)
  BY DEF EvidenceInv, SettledInv, EarlierSettled, Open, Cancellable
<1> QED BY <1>1, Bounds DEF Ops

(* A stop is final. *)
LEMMA StopStays == Inv /\ Next /\ Stopping => Stopping'
<1> SUFFICES ASSUME Inv, Next, Stopping PROVE Stopping'
  OBVIOUS
<1> USE DEF Inv, ControlInv, StopPoints, Stopping
<1>1. CASE Ask
  BY <1>1 DEF Ask, Stop, Escape
<1>2. CASE AwaitApproval
  BY <1>2 DEF AwaitApproval, Stop, Escape
<1>3. CASE SettleCompleted
  BY <1>3 DEF SettleCompleted, Stop, Escape
<1>4. CASE SettleIrrecoverable
  BY <1>4 DEF SettleIrrecoverable, Stop, Escape
<1>5. CASE SettleContinue
  BY <1>5 DEF SettleContinue, Stop, Escape
<1>6. CASE DeliverCancel
  BY <1>6 DEF DeliverCancel, Stop, Escape
<1>7. CASE StepFails
  BY <1>7 DEF StepFails, Stop, Escape
<1>8. CASE Handlers \/ Provider \/ Terminated
  BY <1>8, OutsideKeeps DEF task
<1>9. CASE lifecycle' = lifecycle
  BY <1>9
<1> QED BY <1>1, <1>2, <1>3, <1>4, <1>5, <1>6, <1>7, <1>8, <1>9 DEF Next, Workflow,
  PerformTarget, Loop, Interrupt, Lower, RecordClosed, RecordDispatch, Attempt, Send,
  Reply, Poll, StopRequested, StopProcess, SettleEffect, Observe, Reconcile,
  RecordReconciled, ReconcileDone, Boundary, Decide, Admit, Capability, Completed,
  Close, CloseDone, TaskStop, Finish, EmitCompletion, Crash, task

(* close_effects leaves no effect open behind it. *)
LEMMA StopInvStep == Inv /\ TruthInv /\ EvidenceInv /\ StopInv /\ Next => StopInv'
<1> SUFFICES ASSUME Inv, TruthInv, EvidenceInv, StopInv, Next PROVE StopInv'
  OBVIOUS
<1> USE DEF Inv, TypeOK, ControlInv, EvidenceInv, StopPoints, RequestPoints, StopInv,
  FocusInv, FocusOpen, FocusIsTurn, FocusUnobserved, ObservedClosed, TurnInv,
  EffectsReached, TurnIsNew, TodoStarted, FocusReached, SettledInv, OnlyTheTurnOpen,
  EarlierSettled, RequestAlone, TodoUncertain, QuietInv, UncertaintyJournaled,
  FocusAdmitted, VerdictKept, TurnStarts, Performing, Cancellable, Open, Stopping,
  TerminalReceipts, ReceiptStates, WriteStates, ExecStates
<1>1. CASE Lower
  BY <1>1 DEF Lower, LowerRefused, Lowered, Set, signals, world, bounds
<1>2. CASE Ask
  BY <1>2 DEF Ask, Set, world, bounds
<1>3. CASE AwaitApproval
  BY <1>3 DEF AwaitApproval, Set, signals, world, bounds
<1>4. CASE RecordClosed
  BY <1>4, ClosedFacts DEF RecordClosed, Record, signals, world, bounds
<1>5. CASE RecordDispatch
  BY <1>5, DispatchFacts DEF RecordDispatch, Record, Set, signals, world, bounds
<1>6. CASE Attempt
  BY <1>6, QueryFacts DEF Attempt, Outcome, Deliver, Set, signals, world, bounds
<1>7. CASE Send
  BY <1>7 DEF Send, task, signals, bounds
<1>8. CASE Reply
  BY <1>8 DEF Reply, Deliver, Set, signals, world, bounds
<1>9. CASE Poll
  BY <1>9, QueryFacts DEF Poll, PollAnswers, Outcome, task, signals, world, bounds
<1>10. CASE StopRequested
  BY <1>10 DEF StopRequested, task, signals, world, bounds
<1>11. CASE StopProcess
  BY <1>11 DEF StopProcess, AfterStop, StoppedState, StopAnswer, task, signals
<1>12. CASE SettleEffect
  BY <1>12 DEF SettleEffect, Set, signals, world, bounds
<1>13. CASE Observe
  BY <1>13, ObserveFacts DEF Observe, Record, Uncertain, signals, world, bounds
<1>14. CASE Reconcile
  BY <1>14, ReconciliationVerdicts DEF Reconcile, Set, First, signals, world, bounds
<1>15. CASE RecordReconciled
  BY <1>15, ReconcileFacts DEF RecordReconciled, Record, signals, world, bounds
<1>16. CASE ReconcileDone
  BY <1>16 DEF ReconcileDone, signals, world, bounds
<1>17. CASE SettleCompleted
  BY <1>17 DEF SettleCompleted, Legal, Unresolved, signals, world, bounds
<1>18. CASE SettleIrrecoverable
  BY <1>18 DEF SettleIrrecoverable, Stop, signals, world, bounds
<1>19. CASE SettleContinue
  BY <1>19 DEF SettleContinue, signals, world, bounds
<1>20. CASE Boundary
  BY <1>20 DEF Boundary, Uncertain, task, signals, world, bounds
<1>21. CASE Decide
  BY <1>21, DecideFacts DEF Decide, Record, PolicyGate, Uncertain, signals, world,
    bounds
<1>22. CASE Admit
  BY <1>22, AdmitFacts DEF Admit, Record, LifecycleClasses, TargetEffectClasses,
    signals, world, bounds
<1>23. CASE Capability
  BY <1>23, ClosedFacts DEF Capability, Record, signals, world, bounds
<1>24. CASE Completed
  BY <1>24 DEF Completed, task, signals, world, bounds
<1>25. CASE Close
  <2>1. PICK op \in Ops :
          /\ First(op, todo) /\ focus' = op /\ todo' = todo \ {op}
          /\ \/ status'[op] \notin Cancellable /\ pc' \in {"close", "closed"}
             \/ status[op] \in Cancellable /\ pc' = "taskStop"
          /\ status[op] \notin Cancellable => pc' = "close"
          /\ \A other \in Ops \ {op} : status'[other] = status[other]
    BY <1>25 DEF Close, Set
  <2>2. ASSUME NEW other \in Ops, status'[other] \in Cancellable, other # op
        PROVE  pc' = "close" /\ other \in todo'
    BY <1>25, <2>1, <2>2, OneOpen DEF Close
  <2> QED BY <2>1, <2>2
<1>26. CASE CloseDone
  BY <1>26 DEF CloseDone, Uncertain, task, signals, world, bounds
<1>27. CASE TaskStop
  BY <1>27, QueryFacts DEF TaskStop, StopAnswer, task, signals
<1>28. CASE Finish
  BY <1>28 DEF Finish, signals, world, bounds
<1>29. CASE EmitCompletion
  BY <1>29 DEF EmitCompletion, task, signals, world, bounds
<1>30. CASE DeliverCancel
  BY <1>30 DEF DeliverCancel, Stop, Escape, world, bounds
<1>31. CASE StepFails
  BY <1>31 DEF StepFails, Stop, Escape, signals, world
<1>32. CASE Crash
  BY <1>32 DEF Crash, task, signals, world
<1>33. CASE Handlers \/ Provider \/ Terminated
  BY <1>33, OutsideKeeps DEF control, task
<1> QED BY <1>1, <1>2, <1>3, <1>4, <1>5, <1>6, <1>7, <1>8, <1>9, <1>10, <1>11, <1>12,
  <1>13, <1>14, <1>15, <1>16, <1>17, <1>18, <1>19, <1>20, <1>21, <1>22, <1>23, <1>24,
  <1>25, <1>26, <1>27, <1>28, <1>29, <1>30, <1>31, <1>32, <1>33 DEF Next, Workflow,
  PerformTarget, Loop, Interrupt

(* The journal follows the statuses. *)
LEMMA AdmittedInTurnStep == Inv /\ TruthInv /\ EvidenceInv /\ JournalInv /\ Next => AdmittedInTurn'
<1> SUFFICES ASSUME Inv, TruthInv, EvidenceInv, JournalInv, Next PROVE AdmittedInTurn'
  OBVIOUS
<1> USE DEF Inv, TypeOK, ControlInv, EvidenceInv, StopPoints, RequestPoints, JournalInv,
  AdmittedInTurn, StatusJournaled, FocusJournaled, FocusInv, FocusOpen, FocusIsTurn,
  FocusUnobserved, ObservedClosed, TurnInv, EffectsReached, TurnIsNew, TodoStarted,
  FocusReached, SettledInv, OnlyTheTurnOpen, EarlierSettled, RequestAlone,
  TodoUncertain, QuietInv, UncertaintyJournaled, FocusAdmitted, VerdictKept, TurnStarts,
  Performing, Cancellable, Open, Stopping
<1>1. CASE Lower
  BY <1>1 DEF Lower, LowerRefused, Lowered, Set, signals, world, bounds
<1>2. CASE Ask
  BY <1>2 DEF Ask, Set, world, bounds
<1>3. CASE AwaitApproval
  BY <1>3 DEF AwaitApproval, Set, signals, world, bounds
<1>4. CASE RecordClosed
  BY <1>4, ClosedFacts DEF RecordClosed, Record, signals, world, bounds
<1>5. CASE RecordDispatch
  BY <1>5, DispatchFacts DEF RecordDispatch, Record, Set, signals, world, bounds
<1>6. CASE Attempt
  BY <1>6, QueryFacts DEF Attempt, Outcome, Deliver, Set, signals, world, bounds
<1>7. CASE Send
  BY <1>7 DEF Send, task, signals, bounds
<1>8. CASE Reply
  BY <1>8 DEF Reply, Deliver, Set, signals, world, bounds
<1>9. CASE Poll
  BY <1>9, QueryFacts DEF Poll, PollAnswers, Outcome, task, signals, world, bounds
<1>10. CASE StopRequested
  BY <1>10 DEF StopRequested, task, signals, world, bounds
<1>11. CASE StopProcess
  BY <1>11 DEF StopProcess, AfterStop, StoppedState, StopAnswer, task, signals
<1>12. CASE SettleEffect
  BY <1>12 DEF SettleEffect, Set, signals, world, bounds
<1>13. CASE Observe
  BY <1>13, ObserveFacts DEF Observe, Record, Uncertain, signals, world, bounds
<1>14. CASE Reconcile
  BY <1>14, ReconciliationVerdicts DEF Reconcile, Set, First, signals, world, bounds
<1>15. CASE RecordReconciled
  BY <1>15, ReconcileFacts DEF RecordReconciled, Record, signals, world, bounds
<1>16. CASE ReconcileDone
  BY <1>16 DEF ReconcileDone, signals, world, bounds
<1>17. CASE SettleCompleted
  BY <1>17 DEF SettleCompleted, Legal, Unresolved, signals, world, bounds
<1>18. CASE SettleIrrecoverable
  BY <1>18 DEF SettleIrrecoverable, Stop, signals, world, bounds
<1>19. CASE SettleContinue
  <2>1. facts' = facts /\ facts.admitted \subseteq Ops
    BY <1>19 DEF SettleContinue, JournalFacts
  <2>2. turn' \in {turn, turn + 1} /\ (TurnStarts' => TurnStarts \/ turn' = turn + 1)
    BY <1>19 DEF SettleContinue
  <2> QED BY <1>19, <2>1, <2>2, Bounds DEF SettleContinue, Ops
<1>20. CASE Boundary
  BY <1>20 DEF Boundary, Uncertain, task, signals, world, bounds
<1>21. CASE Decide
  BY <1>21, DecideFacts DEF Decide, Record, PolicyGate, Uncertain, signals, world,
    bounds
<1>22. CASE Admit
  BY <1>22, AdmitFacts DEF Admit, Record, LifecycleClasses, TargetEffectClasses,
    signals, world, bounds
<1>23. CASE Capability
  BY <1>23, ClosedFacts DEF Capability, Record, signals, world, bounds
<1>24. CASE Completed
  BY <1>24 DEF Completed, task, signals, world, bounds
<1>25. CASE Close
  BY <1>25 DEF Close, First, Set, signals, world, bounds
<1>26. CASE CloseDone
  BY <1>26 DEF CloseDone, Uncertain, task, signals, world, bounds
<1>27. CASE TaskStop
  BY <1>27, QueryFacts DEF TaskStop, StopAnswer, task, signals
<1>28. CASE Finish
  BY <1>28 DEF Finish, signals, world, bounds
<1>29. CASE EmitCompletion
  BY <1>29 DEF EmitCompletion, task, signals, world, bounds
<1>30. CASE DeliverCancel
  BY <1>30 DEF DeliverCancel, Stop, Escape, world, bounds
<1>31. CASE StepFails
  BY <1>31 DEF StepFails, Stop, Escape, signals, world
<1>32. CASE Crash
  BY <1>32 DEF Crash, task, signals, world
<1>33. CASE Handlers \/ Provider \/ Terminated
  BY <1>33, OutsideKeeps DEF control, task
<1> QED BY <1>1, <1>2, <1>3, <1>4, <1>5, <1>6, <1>7, <1>8, <1>9, <1>10, <1>11, <1>12,
  <1>13, <1>14, <1>15, <1>16, <1>17, <1>18, <1>19, <1>20, <1>21, <1>22, <1>23, <1>24,
  <1>25, <1>26, <1>27, <1>28, <1>29, <1>30, <1>31, <1>32, <1>33 DEF Next, Workflow,
  PerformTarget, Loop, Interrupt

LEMMA StatusJournaledStep == Inv /\ TruthInv /\ EvidenceInv /\ JournalInv /\ Next => StatusJournaled'
<1> SUFFICES ASSUME Inv, TruthInv, EvidenceInv, JournalInv, Next PROVE StatusJournaled'
  OBVIOUS
<1> USE DEF Inv, TypeOK, ControlInv, EvidenceInv, StopPoints, RequestPoints, JournalInv,
  Before, After, AdmittedInTurn, StatusJournaled, FocusJournaled, FocusInv, FocusOpen,
  FocusIsTurn, FocusUnobserved, ObservedClosed, TurnInv, EffectsReached, TurnIsNew,
  TodoStarted, FocusReached, SettledInv, OnlyTheTurnOpen, EarlierSettled, RequestAlone,
  TodoUncertain, QuietInv, UncertaintyJournaled, FocusAdmitted, VerdictKept, TurnStarts,
  Performing, Cancellable, Open, Stopping, TerminalReceipts, ReceiptStates, WriteStates,
  ExecStates
<1>1. CASE Lower
  BY <1>1 DEF Lower, LowerRefused, Lowered, Set, signals, world, bounds
<1>2. CASE Ask
  BY <1>2 DEF Ask, Set, world, bounds
<1>3. CASE AwaitApproval
  BY <1>3 DEF AwaitApproval, Set, signals, world, bounds
<1>4. CASE RecordClosed
  BY <1>4, ClosedFacts DEF RecordClosed, Record, signals, world, bounds
<1>5. CASE RecordDispatch
  BY <1>5, DispatchFacts DEF RecordDispatch, Record, Set, signals, world, bounds
<1>6. CASE Attempt
  BY <1>6, QueryFacts DEF Attempt, Outcome, Deliver, Set, signals, world, bounds
<1>7. CASE Send
  BY <1>7 DEF Send, task, signals, bounds
<1>8. CASE Reply
  BY <1>8 DEF Reply, Deliver, Set, signals, world, bounds
<1>9. CASE Poll
  BY <1>9, QueryFacts DEF Poll, PollAnswers, Outcome, task, signals, world, bounds
<1>10. CASE StopRequested
  BY <1>10 DEF StopRequested, task, signals, world, bounds
<1>11. CASE StopProcess
  BY <1>11 DEF StopProcess, AfterStop, StoppedState, StopAnswer, task, signals
<1>12. CASE SettleEffect
  BY <1>12 DEF SettleEffect, Set, signals, world, bounds
<1>13. CASE Observe
  BY <1>13, ObserveFacts DEF Observe, Record, Uncertain, signals, world, bounds
<1>14. CASE Reconcile
  BY <1>14, ReconciliationVerdicts DEF Reconcile, Set, First, signals, world, bounds
<1>15. CASE RecordReconciled
  BY <1>15, ReconcileFacts DEF RecordReconciled, Record, signals, world, bounds
<1>16. CASE ReconcileDone
  BY <1>16 DEF ReconcileDone, signals, world, bounds
<1>17. CASE SettleCompleted
  BY <1>17 DEF SettleCompleted, Legal, Unresolved, signals, world, bounds
<1>18. CASE SettleIrrecoverable
  BY <1>18 DEF SettleIrrecoverable, Stop, signals, world, bounds
<1>19. CASE SettleContinue
  BY <1>19 DEF SettleContinue, signals, world, bounds
<1>20. CASE Boundary
  BY <1>20 DEF Boundary, Uncertain, task, signals, world, bounds
<1>21. CASE Decide
  BY <1>21, DecideFacts DEF Decide, Record, PolicyGate, Uncertain, signals, world,
    bounds
<1>22. CASE Admit
  BY <1>22, AdmitFacts DEF Admit, Record, LifecycleClasses, TargetEffectClasses,
    signals, world, bounds
<1>23. CASE Capability
  BY <1>23, ClosedFacts DEF Capability, Record, signals, world, bounds
<1>24. CASE Completed
  BY <1>24 DEF Completed, task, signals, world, bounds
<1>25. CASE Close
  BY <1>25 DEF Close, First, Set, signals, world, bounds
<1>26. CASE CloseDone
  BY <1>26 DEF CloseDone, Uncertain, task, signals, world, bounds
<1>27. CASE TaskStop
  BY <1>27, QueryFacts DEF TaskStop, StopAnswer, task, signals
<1>28. CASE Finish
  BY <1>28 DEF Finish, signals, world, bounds
<1>29. CASE EmitCompletion
  BY <1>29 DEF EmitCompletion, task, signals, world, bounds
<1>30. CASE DeliverCancel
  BY <1>30 DEF DeliverCancel, Stop, Escape, world, bounds
<1>31. CASE StepFails
  BY <1>31 DEF StepFails, Stop, Escape, signals, world
<1>32. CASE Crash
  BY <1>32 DEF Crash, task, signals, world
<1>33. CASE Handlers \/ Provider \/ Terminated
  BY <1>33, OutsideKeeps DEF control, task
<1> QED BY <1>1, <1>2, <1>3, <1>4, <1>5, <1>6, <1>7, <1>8, <1>9, <1>10, <1>11, <1>12,
  <1>13, <1>14, <1>15, <1>16, <1>17, <1>18, <1>19, <1>20, <1>21, <1>22, <1>23, <1>24,
  <1>25, <1>26, <1>27, <1>28, <1>29, <1>30, <1>31, <1>32, <1>33 DEF Next, Workflow,
  PerformTarget, Loop, Interrupt

LEMMA FocusJournaledStep == Inv /\ TruthInv /\ EvidenceInv /\ JournalInv /\ Next => FocusJournaled'
<1> SUFFICES ASSUME Inv, TruthInv, EvidenceInv, JournalInv, Next PROVE FocusJournaled'
  OBVIOUS
<1> USE DEF Inv, TypeOK, ControlInv, EvidenceInv, StopPoints, RequestPoints, JournalInv,
  Before, After, AdmittedInTurn, StatusJournaled, FocusJournaled, FocusInv, FocusOpen,
  FocusIsTurn, FocusUnobserved, ObservedClosed, TurnInv, EffectsReached, TurnIsNew,
  TodoStarted, FocusReached, SettledInv, OnlyTheTurnOpen, EarlierSettled, RequestAlone,
  TodoUncertain, QuietInv, UncertaintyJournaled, FocusAdmitted, VerdictKept, TurnStarts,
  Performing, Cancellable, Open, Stopping, TerminalReceipts, ReceiptStates, WriteStates,
  ExecStates
<1>1. CASE Lower
  BY <1>1 DEF Lower, LowerRefused, Lowered, Set, signals, world, bounds
<1>2. CASE Ask
  BY <1>2 DEF Ask, Set, world, bounds
<1>3. CASE AwaitApproval
  BY <1>3 DEF AwaitApproval, Set, signals, world, bounds
<1>4. CASE RecordClosed
  BY <1>4, ClosedFacts DEF RecordClosed, Record, signals, world, bounds
<1>5. CASE RecordDispatch
  BY <1>5, DispatchFacts DEF RecordDispatch, Record, Set, signals, world, bounds
<1>6. CASE Attempt
  BY <1>6, QueryFacts DEF Attempt, Outcome, Deliver, Set, signals, world, bounds
<1>7. CASE Send
  BY <1>7 DEF Send, task, signals, bounds
<1>8. CASE Reply
  BY <1>8 DEF Reply, Deliver, Set, signals, world, bounds
<1>9. CASE Poll
  BY <1>9, QueryFacts DEF Poll, PollAnswers, Outcome, task, signals, world, bounds
<1>10. CASE StopRequested
  BY <1>10 DEF StopRequested, task, signals, world, bounds
<1>11. CASE StopProcess
  BY <1>11 DEF StopProcess, AfterStop, StoppedState, StopAnswer, task, signals
<1>12. CASE SettleEffect
  BY <1>12 DEF SettleEffect, Set, signals, world, bounds
<1>13. CASE Observe
  BY <1>13, ObserveFacts DEF Observe, Record, Uncertain, signals, world, bounds
<1>14. CASE Reconcile
  <2>1. PICK op \in Ops : op \in todo /\ todo' = todo \ {op} /\ focus' = op
    BY <1>14 DEF Reconcile, First
  <2>2. \A other \in todo : other = op
    BY <1>14, <2>1, OneOpen DEF Reconcile
  <2>3. ~Stopping => op \in facts.uncertain
    BY <1>14, <2>1 DEF Reconcile
  <2> QED BY <1>14, <2>1, <2>2, <2>3 DEF Reconcile
<1>15. CASE RecordReconciled
  BY <1>15, ReconcileFacts DEF RecordReconciled, Record, signals, world, bounds
<1>16. CASE ReconcileDone
  BY <1>16 DEF ReconcileDone, signals, world, bounds
<1>17. CASE SettleCompleted
  BY <1>17 DEF SettleCompleted, Legal, Unresolved, signals, world, bounds
<1>18. CASE SettleIrrecoverable
  BY <1>18 DEF SettleIrrecoverable, Stop, signals, world, bounds
<1>19. CASE SettleContinue
  BY <1>19 DEF SettleContinue, signals, world, bounds
<1>20. CASE Boundary
  BY <1>20 DEF Boundary, Uncertain, task, signals, world, bounds
<1>21. CASE Decide
  BY <1>21, DecideFacts DEF Decide, Record, PolicyGate, Uncertain, signals, world,
    bounds
<1>22. CASE Admit
  BY <1>22, AdmitFacts DEF Admit, Record, LifecycleClasses, TargetEffectClasses,
    signals, world, bounds
<1>23. CASE Capability
  BY <1>23, ClosedFacts DEF Capability, Record, signals, world, bounds
<1>24. CASE Completed
  BY <1>24 DEF Completed, task, signals, world, bounds
<1>25. CASE Close
  BY <1>25 DEF Close, First, Set, signals, world, bounds
<1>26. CASE CloseDone
  BY <1>26 DEF CloseDone, Uncertain, task, signals, world, bounds
<1>27. CASE TaskStop
  BY <1>27, QueryFacts DEF TaskStop, StopAnswer, task, signals
<1>28. CASE Finish
  BY <1>28 DEF Finish, signals, world, bounds
<1>29. CASE EmitCompletion
  BY <1>29 DEF EmitCompletion, task, signals, world, bounds
<1>30. CASE DeliverCancel
  BY <1>30 DEF DeliverCancel, Stop, Escape, world, bounds
<1>31. CASE StepFails
  BY <1>31 DEF StepFails, Stop, Escape, signals, world
<1>32. CASE Crash
  BY <1>32 DEF Crash, task, signals, world
<1>33. CASE Handlers \/ Provider \/ Terminated
  BY <1>33, OutsideKeeps DEF control, task
<1> QED BY <1>1, <1>2, <1>3, <1>4, <1>5, <1>6, <1>7, <1>8, <1>9, <1>10, <1>11, <1>12,
  <1>13, <1>14, <1>15, <1>16, <1>17, <1>18, <1>19, <1>20, <1>21, <1>22, <1>23, <1>24,
  <1>25, <1>26, <1>27, <1>28, <1>29, <1>30, <1>31, <1>32, <1>33 DEF Next, Workflow,
  PerformTarget, Loop, Interrupt

LEMMA TurnEntriesStep == Inv /\ TruthInv /\ EvidenceInv /\ JournalInv /\ Next => TurnEntries'
<1> SUFFICES ASSUME Inv, TruthInv, EvidenceInv, JournalInv, Next PROVE TurnEntries'
  OBVIOUS
<1> USE DEF Inv, TypeOK, ControlInv, EvidenceInv, StopPoints, RequestPoints, JournalInv,
  TurnEntries, JournalFacts, AdmittedInTurn, StatusJournaled, FocusJournaled, FocusInv,
  FocusOpen, FocusIsTurn, FocusUnobserved, ObservedClosed, TurnInv, EffectsReached,
  TurnIsNew, TodoStarted, FocusReached, SettledInv, OnlyTheTurnOpen, EarlierSettled,
  RequestAlone, TodoUncertain, QuietInv, UncertaintyJournaled, FocusAdmitted,
  VerdictKept, TurnStarts, Performing, Cancellable, Open, Stopping
<1>1. CASE Lower
  BY <1>1 DEF Lower, LowerRefused, Lowered, Set, signals, world, bounds
<1>2. CASE Ask
  BY <1>2 DEF Ask, Set, world, bounds
<1>3. CASE AwaitApproval
  BY <1>3 DEF AwaitApproval, Set, signals, world, bounds
<1>4. CASE RecordClosed
  BY <1>4, ClosedFacts DEF RecordClosed, Record, signals, world, bounds
<1>5. CASE RecordDispatch
  BY <1>5, DispatchFacts DEF RecordDispatch, Record, Set, signals, world, bounds
<1>6. CASE Attempt
  BY <1>6, QueryFacts DEF Attempt, Outcome, Deliver, Set, signals, world, bounds
<1>7. CASE Send
  BY <1>7 DEF Send, task, signals, bounds
<1>8. CASE Reply
  BY <1>8 DEF Reply, Deliver, Set, signals, world, bounds
<1>9. CASE Poll
  BY <1>9, QueryFacts DEF Poll, PollAnswers, Outcome, task, signals, world, bounds
<1>10. CASE StopRequested
  BY <1>10 DEF StopRequested, task, signals, world, bounds
<1>11. CASE StopProcess
  BY <1>11 DEF StopProcess, AfterStop, StoppedState, StopAnswer, task, signals
<1>12. CASE SettleEffect
  BY <1>12 DEF SettleEffect, Set, signals, world, bounds
<1>13. CASE Observe
  <2>1. /\ facts.length \in Nat /\ facts'.length = facts.length + 1
        /\ UNCHANGED <<turn, lifecycle>> /\ ret' = "effect"
        /\ pc' \in {"close", "reconcile", "settle"}
    BY <1>13, ObserveFacts DEF Observe
  <2>2. ~Stopping => facts.length + 2 <= 5 * turn
    BY <1>13 DEF Observe
  <2> QED BY <2>1, <2>2
<1>14. CASE Reconcile
  BY <1>14, ReconciliationVerdicts DEF Reconcile, Set, First, signals, world, bounds
<1>15. CASE RecordReconciled
  BY <1>15, ReconcileFacts DEF RecordReconciled, Record, signals, world, bounds
<1>16. CASE ReconcileDone
  BY <1>16 DEF ReconcileDone, signals, world, bounds
<1>17. CASE SettleCompleted
  BY <1>17 DEF SettleCompleted, Legal, Unresolved, signals, world, bounds
<1>18. CASE SettleIrrecoverable
  BY <1>18 DEF SettleIrrecoverable, Stop, signals, world, bounds
<1>19. CASE SettleContinue
  BY <1>19 DEF SettleContinue, signals, world, bounds
<1>20. CASE Boundary
  BY <1>20 DEF Boundary, Uncertain, task, signals, world, bounds
<1>21. CASE Decide
  BY <1>21, DecideFacts DEF Decide, Record, PolicyGate, Uncertain, signals, world,
    bounds
<1>22. CASE Admit
  BY <1>22, AdmitFacts DEF Admit, Record, LifecycleClasses, TargetEffectClasses,
    signals, world, bounds
<1>23. CASE Capability
  BY <1>23, ClosedFacts DEF Capability, Record, signals, world, bounds
<1>24. CASE Completed
  BY <1>24 DEF Completed, task, signals, world, bounds
<1>25. CASE Close
  BY <1>25 DEF Close, First, Set, signals, world, bounds
<1>26. CASE CloseDone
  BY <1>26 DEF CloseDone, Uncertain, task, signals, world, bounds
<1>27. CASE TaskStop
  BY <1>27, QueryFacts DEF TaskStop, StopAnswer, task, signals
<1>28. CASE Finish
  BY <1>28 DEF Finish, signals, world, bounds
<1>29. CASE EmitCompletion
  BY <1>29 DEF EmitCompletion, task, signals, world, bounds
<1>30. CASE DeliverCancel
  BY <1>30 DEF DeliverCancel, Stop, Escape, world, bounds
<1>31. CASE StepFails
  BY <1>31 DEF StepFails, Stop, Escape, signals, world
<1>32. CASE Crash
  BY <1>32 DEF Crash, task, signals, world
<1>33. CASE Handlers \/ Provider \/ Terminated
  BY <1>33, OutsideKeeps DEF control, task
<1> QED BY <1>1, <1>2, <1>3, <1>4, <1>5, <1>6, <1>7, <1>8, <1>9, <1>10, <1>11, <1>12,
  <1>13, <1>14, <1>15, <1>16, <1>17, <1>18, <1>19, <1>20, <1>21, <1>22, <1>23, <1>24,
  <1>25, <1>26, <1>27, <1>28, <1>29, <1>30, <1>31, <1>32, <1>33 DEF Next, Workflow,
  PerformTarget, Loop, Interrupt

LEMMA StopEntriesStep == Inv /\ TruthInv /\ EvidenceInv /\ StopInv /\ JournalInv /\ Next => StopEntries'
<1> SUFFICES ASSUME Inv, TruthInv, EvidenceInv, StopInv, JournalInv, Next PROVE
  StopEntries'
  OBVIOUS
<1> USE DEF Inv, TypeOK, ControlInv, EvidenceInv, StopPoints, RequestPoints, JournalInv,
  StopInv, TurnEntries, StopEntries, JournalFacts, AdmittedInTurn, StatusJournaled,
  FocusJournaled, FocusInv, FocusOpen, FocusIsTurn, FocusUnobserved, ObservedClosed,
  TurnInv, EffectsReached, TurnIsNew, TodoStarted, FocusReached, SettledInv,
  OnlyTheTurnOpen, EarlierSettled, RequestAlone, TodoUncertain, QuietInv,
  UncertaintyJournaled, FocusAdmitted, VerdictKept, TurnStarts, Performing, Cancellable,
  Open, Stopping, TerminalReceipts, ReceiptStates, WriteStates, ExecStates
<1>1. CASE Lower
  BY <1>1 DEF Lower, LowerRefused, Lowered, Set, signals, world, bounds
<1>2. CASE Ask
  BY <1>2 DEF Ask, Set, world, bounds
<1>3. CASE AwaitApproval
  BY <1>3 DEF AwaitApproval, Set, signals, world, bounds
<1>4. CASE RecordClosed
  BY <1>4, ClosedFacts DEF RecordClosed, Record, signals, world, bounds
<1>5. CASE RecordDispatch
  BY <1>5, DispatchFacts DEF RecordDispatch, Record, Set, signals, world, bounds
<1>6. CASE Attempt
  BY <1>6, QueryFacts DEF Attempt, Outcome, Deliver, Set, signals, world, bounds
<1>7. CASE Send
  BY <1>7 DEF Send, task, signals, bounds
<1>8. CASE Reply
  BY <1>8 DEF Reply, Deliver, Set, signals, world, bounds
<1>9. CASE Poll
  BY <1>9, QueryFacts DEF Poll, PollAnswers, Outcome, task, signals, world, bounds
<1>10. CASE StopRequested
  BY <1>10 DEF StopRequested, task, signals, world, bounds
<1>11. CASE StopProcess
  BY <1>11 DEF StopProcess, AfterStop, StoppedState, StopAnswer, task, signals
<1>12. CASE SettleEffect
  BY <1>12 DEF SettleEffect, Set, signals, world, bounds
<1>13. CASE Observe
  <2>1. /\ facts.length \in Nat /\ facts'.length = facts.length + 1
        /\ UNCHANGED <<turn, lifecycle, status>>
        /\ Stopping => pc' = "close"
    BY <1>13, ObserveFacts DEF Observe
  <2>2. Stopping => facts.length <= 5 * turn /\ \A op \in Ops : status[op] \notin Cancellable
    BY <1>13 DEF Observe
  <2> QED BY <2>1, <2>2
<1>14. CASE Reconcile
  BY <1>14, ReconciliationVerdicts DEF Reconcile, Set, First, signals, world, bounds
<1>15. CASE RecordReconciled
  BY <1>15, ReconcileFacts DEF RecordReconciled, Record, signals, world, bounds
<1>16. CASE ReconcileDone
  BY <1>16 DEF ReconcileDone, signals, world, bounds
<1>17. CASE SettleCompleted
  BY <1>17 DEF SettleCompleted, Legal, Unresolved, signals, world, bounds
<1>18. CASE SettleIrrecoverable
  BY <1>18 DEF SettleIrrecoverable, Stop, signals, world, bounds
<1>19. CASE SettleContinue
  BY <1>19 DEF SettleContinue, signals, world, bounds
<1>20. CASE Boundary
  BY <1>20 DEF Boundary, Uncertain, task, signals, world, bounds
<1>21. CASE Decide
  BY <1>21, DecideFacts DEF Decide, Record, PolicyGate, Uncertain, signals, world,
    bounds
<1>22. CASE Admit
  BY <1>22, AdmitFacts DEF Admit, Record, LifecycleClasses, TargetEffectClasses,
    signals, world, bounds
<1>23. CASE Capability
  BY <1>23, ClosedFacts DEF Capability, Record, signals, world, bounds
<1>24. CASE Completed
  BY <1>24 DEF Completed, task, signals, world, bounds
<1>25. CASE Close
  BY <1>25 DEF Close, First, Set, signals, world, bounds
<1>26. CASE CloseDone
  BY <1>26 DEF CloseDone, Uncertain, task, signals, world, bounds
<1>27. CASE TaskStop
  BY <1>27, QueryFacts DEF TaskStop, StopAnswer, task, signals
<1>28. CASE Finish
  BY <1>28 DEF Finish, signals, world, bounds
<1>29. CASE EmitCompletion
  BY <1>29 DEF EmitCompletion, task, signals, world, bounds
<1>30. CASE DeliverCancel
  BY <1>30 DEF DeliverCancel, Stop, Escape, world, bounds
<1>31. CASE StepFails
  BY <1>31 DEF StepFails, Stop, Escape, signals, world
<1>32. CASE Crash
  BY <1>32 DEF Crash, task, signals, world
<1>33. CASE Handlers \/ Provider \/ Terminated
  BY <1>33, OutsideKeeps DEF control, task
<1> QED BY <1>1, <1>2, <1>3, <1>4, <1>5, <1>6, <1>7, <1>8, <1>9, <1>10, <1>11, <1>12,
  <1>13, <1>14, <1>15, <1>16, <1>17, <1>18, <1>19, <1>20, <1>21, <1>22, <1>23, <1>24,
  <1>25, <1>26, <1>27, <1>28, <1>29, <1>30, <1>31, <1>32, <1>33 DEF Next, Workflow,
  PerformTarget, Loop, Interrupt

(* No entry the workflow records is one that analyze objects to; a stopped Task may *)
(* reconcile an effect whose uncertainty it had no time to record.                  *)
LEMMA NoProblemsStep ==
  Inv /\ TruthInv /\ EvidenceInv /\ JournalInv /\ Next => NoProblems'
<1> SUFFICES ASSUME Inv, TruthInv, EvidenceInv, JournalInv, Next PROVE NoProblems'
  OBVIOUS
<1> USE DEF Inv, TypeOK, JournalInv, JournalFacts, NoProblems, If
<1>1. CASE Admit
  <2>1. turn \notin facts.admitted /\ class[turn] \in Authority
    BY <1>1 DEF Admit, AdmittedInTurn, TurnStarts, AuthorityInv, ControlInv, StopPoints
  <2> QED BY <1>1, <2>1 DEF Admit, Record, AnalyzeAdmitted, Stopping
<1>2. CASE RecordDispatch
  <2>1. focus \in facts.admitted \cap facts.lifecycle /\ focus \notin facts.dispatched
    BY <1>2 DEF RecordDispatch, FocusJournaled, StatusJournaled
  <2>2. focus \notin facts.observed
    BY <1>2 DEF RecordDispatch, EvidenceInv, FocusInv, FocusOpen, ObservedClosed,
      Performing
  <2> QED BY <1>2, <2>1, <2>2 DEF RecordDispatch, Record, AnalyzeDispatched, Stopping
<1>3. CASE Observe
  <2>1. focus \in facts.admitted \cap facts.dispatched /\ focus \notin facts.observed
    BY <1>3 DEF Observe, FocusJournaled, EvidenceInv, FocusInv, FocusUnobserved
  <2>2. ObservedOutcome(status[focus]) # "not_dispatched"
    BY DEF ObservedOutcome
  <2> QED BY <1>3, <2>1, <2>2 DEF Observe, Record, AnalyzeObserved, Stopping
<1>4. CASE RecordClosed
  <2>1. focus \in facts.admitted \ facts.dispatched /\ focus \notin facts.observed
    BY <1>4 DEF RecordClosed, FocusJournaled, EvidenceInv, FocusInv, FocusUnobserved
  <2> QED BY <1>4, <2>1 DEF RecordClosed, Record, AnalyzeObserved, Stopping
<1>5. CASE Capability
  <2>1. focus \in facts.admitted \ facts.lifecycle /\ focus \notin facts.observed
    BY <1>5 DEF Capability, FocusJournaled, EvidenceInv, FocusInv, FocusUnobserved
  <2>2. PICK outcome \in {"success", "failure"} : Record(AnalyzeObserved(facts, focus,
    outcome))
    BY <1>5 DEF Capability
  <2>3. facts'.problems = facts.problems
    BY <2>1, <2>2 DEF Record, AnalyzeObserved
  <2> QED BY <1>5, <2>3 DEF Capability, Stopping
<1>6. CASE RecordReconciled
  <2>1. Stopping \/ focus \in facts.uncertain
    BY <1>6 DEF RecordReconciled, FocusJournaled
  <2> QED BY <1>6, <2>1 DEF RecordReconciled, Record, AnalyzeReconciled, Stopping
<1>7. CASE Decide
  BY <1>7 DEF Decide, Record, AnalyzeDenied, Stopping
<1>8. CASE UNCHANGED facts
  BY <1>8, StopStays
<1>9. CASE Handlers \/ Provider \/ Terminated
  BY <1>8, <1>9, OutsideKeeps DEF task
<1> QED BY <1>1, <1>2, <1>3, <1>4, <1>5, <1>6, <1>7, <1>8, <1>9
  DEF Next, Workflow, PerformTarget, Loop, Interrupt, Lower, Ask, AwaitApproval, Attempt,
    Send, Reply, Poll, StopRequested, StopProcess, SettleEffect, Reconcile, ReconcileDone,
    SettleCompleted, SettleIrrecoverable, SettleContinue, Boundary, Completed, Close,
    CloseDone, TaskStop, Finish, EmitCompletion, DeliverCancel, StepFails, Crash, task

(* The invariants of every Task. *)
THEOREM JournalInvariance == Spec => [](StopInv /\ JournalInv)
<1>1. Init => StopInv /\ JournalInv
  <2> SUFFICES ASSUME Init PROVE StopInv /\ JournalInv
    OBVIOUS
  <2>1. /\ facts.admitted = {} /\ facts.dispatched = {} /\ facts.problems = {}
        /\ facts.length = 0
    BY DEF Init, EmptyJournal
  <2> QED BY <2>1 DEF Init, StopInv, JournalInv, AdmittedInTurn, StatusJournaled,
    FocusJournaled, NoProblems, TurnEntries, StopEntries, Stopping, TurnStarts, Before,
    After, Performing
<1>2. StopInv /\ JournalInv /\ UNCHANGED vars => StopInv' /\ JournalInv'
  <2> SUFFICES ASSUME StopInv, JournalInv, UNCHANGED vars PROVE StopInv' /\ JournalInv'
    OBVIOUS
  <2>1. UNCHANGED <<pc, turn, focus, ret, todo, lifecycle, status, facts>>
    BY DEF vars, control, task
  <2>2. StopInv' /\ AdmittedInTurn' /\ StatusJournaled' /\ FocusJournaled'
    BY <2>1 DEF StopInv, JournalInv, AdmittedInTurn, StatusJournaled, FocusJournaled,
      Stopping, TurnStarts
  <2>3. NoProblems' /\ TurnEntries' /\ StopEntries'
    BY <2>1 DEF JournalInv, NoProblems, TurnEntries, StopEntries, Stopping
  <2> QED BY <2>2, <2>3 DEF JournalInv
<1>3. Inv /\ TruthInv /\ EvidenceInv /\ StopInv /\ JournalInv /\ Next
        => StopInv' /\ JournalInv'
  BY StopInvStep, AdmittedInTurnStep, StatusJournaledStep, FocusJournaledStep,
    NoProblemsStep, TurnEntriesStep, StopEntriesStep DEF JournalInv
<1> QED BY <1>1, <1>2, <1>3, Invariance, TruthInvariance, EvidenceInvariance, PTL DEF
  Spec

(* journal.append and journal.analyze: the chain has no integrity problem but the one a *)
(* stop can cause, one effect at most is uncertain, and five entries a turn and two for *)
(* a stop are enough.                                                                   *)
THEOREM SoundJournal == Spec => []JournalSound
<1>1. Inv /\ EvidenceInv /\ JournalInv => JournalSound
  <2> SUFFICES ASSUME Inv, EvidenceInv, JournalInv PROVE JournalSound
    OBVIOUS
  <2>1. facts.problems \subseteq (IF Stopping THEN {"reconciled without uncertainty"}
    ELSE {})
    BY DEF JournalInv, NoProblems
  <2>2. Cardinality(Uncertain) <= 1
    <3>1. CASE Uncertain = {}
      BY <3>1, FS_EmptySet
    <3>2. ASSUME NEW op \in Uncertain PROVE Cardinality(Uncertain) <= 1
      <4>1. \A other \in Uncertain : other = op
        BY OneOpen DEF Inv, Uncertain, Open
      <4>2. Uncertain = {op}
        BY <3>2, <4>1
      <4>3. Cardinality({op}) = 1
        BY FS_Singleton
      <4> QED BY <4>2, <4>3
    <3> QED BY <3>1, <3>2
  <2>3. facts.length <= 5 * turn + 2
    BY DEF Inv, TypeOK, JournalFacts, JournalInv, TurnEntries, StopEntries
  <2> QED BY <2>1, <2>2, <2>3 DEF JournalSound
<1> QED BY <1>1, Invariance, EvidenceInvariance, JournalInvariance, PTL

(* close_effects: a Task that ended CANCELLED left no effect open. *)
THEOREM StopClosesAll == Spec => []StopClosesEffects
<1>1. StopInv => StopClosesEffects
  BY DEF StopInv, StopClosesEffects, Stopping
<1> QED BY <1>1, JournalInvariance, PTL
=============================================================================
