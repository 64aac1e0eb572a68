--------------------------- MODULE TargetEffects ---------------------------
(***************************************************************************)
(* The target effects of one Task: runtime/kernel/workflow.py drives them, *)
(* runtime/kernel/effects.py talks to the target provider, journal.py      *)
(* keeps the evidence and control.py cancels the Task.                     *)
(*                                                                         *)
(* The Task is a Restate workflow.  pc names the durable await at which it *)
(* stands; at every one of them Restate may raise the Task's cancellation, *)
(* a step may run out of attempts, or the process may crash and the        *)
(* unjournaled step run again.  Variables assigned between two awaits      *)
(* change in one action.  The provider, the network to it, third parties   *)
(* that edit the same target and the humans are the environment.           *)
(*                                                                         *)
(* Operation i is the effect decided in turn i (operation_id is the        *)
(* decision identity task/iteration).  Write i intends content i.          *)
(***************************************************************************)
EXTENDS CapabilityJournal

CONSTANTS
  MaxTurns,       \* MAX_TURNS of the workflow's loop (16)
  MaxPolls,       \* effects.max_polls: ceil(timeout_seconds / poll_seconds)
  AskBefore,      \* ask_before of the grant: classes that need an approval
  Authority,      \* operation classes in the Task's EffectiveAuthority
  Preconditions,  \* contents a write may name as its precondition
  StrongAbsence,  \* does "authoritative" absence also exclude requests in flight?
  MaxCrashes,     \* bound: crashes that make an unjournaled step run again
  MaxFailures     \* bound: steps that exhaust RunOptions(max_attempts=3)

ASSUME TargetEffectsAssumption ==
  /\ MaxTurns \in Nat \ {0}
  /\ MaxPolls \in Nat \ {0}
  /\ AskBefore \subseteq LifecycleClasses
  /\ Authority \subseteq OperationClasses
  /\ Preconditions \subseteq 0..(MaxTurns + 1) /\ Preconditions # {}
  /\ StrongAbsence \in BOOLEAN
  /\ MaxCrashes \in Nat
  /\ MaxFailures \in Nat

Ops == 1..MaxTurns
ThirdParty == MaxTurns + 1
Contents == 0..ThirdParty   \* 0: before the Task; i: write i; ThirdParty: someone else

WriteStates == {"applied", "conflict", "rejected"}
ExecStates == {"running", "completed", "timed_out", "canceled", "rejected", "not_started"}
ReceiptStates == WriteStates \cup ExecStates
TerminalReceipts == ReceiptStates \ {"running"}

(* effects[op].status of the TaskState; "none": no such record yet. *)
Statuses ==
  {"none", "admitted", "awaiting_approval", "dispatched", "running", "uncertain",
   "not_dispatched", "not_applied", "different_state"} \cup TerminalReceipts

Lifecycles == {"RUNNING", "WAITING", "COMPLETED", "FAILED", "CANCELLED"}
TerminalLifecycles == {"COMPLETED", "FAILED", "CANCELLED"}

Points ==
  {"boundary", "reconcile", "reconciled", "settle", "decide", "admit", "capability",
   "request", "ask", "approval", "dispatch", "attempt", "send", "reply", "supervise",
   "stop", "receipt", "observe", "closed", "completed", "close", "taskStop", "finish",
   "emit", "done", "raised"}

VARIABLES
  \* the workflow
  pc, turn, focus, ret, todo, concluded, reply, tick,
  \* TaskState: in memory, and the lifecycle last published with ctx.set
  lifecycle, shown, status, class, pre, requested, facts, result,
  \* durable promises and Restate's cancellation signal
  answer, stopAsked, cancel,
  \* the provider, the target and the network to them
  deployed, inflight, sent, receipt, target,
  \* counters of the bounds
  crashes, failures

control == <<pc, turn, focus, ret, todo, concluded, reply, tick>>
task == <<lifecycle, shown, status, class, pre, requested, facts, result>>
signals == <<answer, stopAsked, cancel>>
world == <<deployed, inflight, sent, receipt, target>>
bounds == <<crashes, failures>>
vars == <<control, task, signals, world, bounds>>

Init ==
  /\ pc = "settle" /\ turn = 0 /\ focus = 1 /\ ret = "outcome"
  /\ todo = {} /\ concluded = FALSE /\ reply = "none" /\ tick = 0
  /\ lifecycle = "RUNNING" /\ shown = "RUNNING"
  /\ status = [op \in Ops |-> "none"]
  /\ class = [op \in Ops |-> "none"]
  /\ pre = [op \in Ops |-> 0]
  /\ requested = {}
  /\ facts = EmptyJournal
  /\ result = FALSE
  /\ answer = [op \in Ops |-> "unasked"]
  /\ stopAsked = {}
  /\ cancel = "none"
  /\ deployed \in BOOLEAN
  /\ inflight = {}
  /\ sent = {}
  /\ receipt = [op \in Ops |-> "none"]
  /\ target = 0
  /\ crashes = 0 /\ failures = 0

(* The statuses in which cancel_effect accepts a request. *)
Cancellable == {"admitted", "awaiting_approval", "dispatched", "running"}

Uncertain == {op \in Ops : status[op] = "uncertain"}
Stopping == lifecycle \in {"FAILED", "CANCELLED"}
First(op, S) == op \in S /\ \A other \in S : op <= other

Set(op, s) == status' = [status EXCEPT ![op] = s]

(* record: append to the journal, then publish the TaskState. *)
Record(f) == facts' = f /\ shown' = lifecycle

-----------------------------------------------------------------------------
(* The provider's answers, as the kernel reads them (external).            *)

(***************************************************************************)
(* provider.query: a held receipt, or "absent" (not found and              *)
(* authoritative), "unknown" (not found, not authoritative, also of a      *)
(* receipt the provider cannot locate) or "raise" (unreachable, reply      *)
(* lost, or an answer validate_receipt rejects).                           *)
(***************************************************************************)
Query(op) ==
  {"raise", "unknown"}
    \cup (IF receipt[op] # "none" THEN {receipt[op]} ELSE {})
    \cup (IF receipt[op] = "none" /\ (StrongAbsence => op \notin inflight)
            THEN {"absent"} ELSE {})

(* provider.cancel: a running process is stopped, or it is not. *)
StoppedState == IF tick = MaxPolls THEN "timed_out" ELSE "canceled"
AfterStop(op) ==
  IF receipt[op] = "running" THEN {"running", StoppedState} ELSE {receipt[op]}

-----------------------------------------------------------------------------
(* perform_target: one target effect, from lowering to observation.        *)

(* An answer is admitted if it is a valid receipt of this request (validate_receipt, *)
(* normalize); anything else is an uncertain outcome.                                *)
Outcome(a) == IF a \in ReceiptStates THEN a ELSE "uncertain"

(* The result of a step that asked the provider: supervise a running process, *)
(* settle anything else.                                                      *)
Deliver(r) ==
  IF r = "running"
    THEN /\ Set(focus, "running") /\ tick' = 0 /\ pc' = "supervise"
         /\ UNCHANGED reply
    ELSE /\ reply' = r /\ pc' = "receipt"
         /\ UNCHANGED <<status, tick>>

(* Lowering raised: nothing left the Task, the effect is closed. *)
LowerRefused ==
  /\ Set(focus, "not_dispatched")
  /\ pc' = "closed"
  /\ UNCHANGED <<pre, requested>>

(* effects.lower: the EffectRequest, a write with its precondition. *)
Lowered ==
  /\ \E p \in Preconditions : pre' = [pre EXCEPT ![focus] = p]
  /\ Set(focus, "admitted")
  /\ requested' = requested \cup {focus}
  /\ pc' = IF class[focus] \in AskBefore THEN "ask" ELSE "dispatch"

Lower ==
  /\ pc = "request"
  /\ LowerRefused \/ Lowered
  /\ UNCHANGED <<turn, focus, ret, todo, concluded, reply, tick, lifecycle, shown,
                 class, facts, result, signals, world, bounds>>

Ask ==
  /\ pc = "ask"
  /\ Set(focus, "awaiting_approval")
  /\ lifecycle' = "WAITING" /\ shown' = "WAITING"
  /\ answer' = [answer EXCEPT ![focus] = "pending"]
  /\ pc' = "approval"
  /\ UNCHANGED <<turn, focus, ret, todo, concluded, reply, tick, class, pre, requested,
                 facts, result, stopAsked, cancel, world, bounds>>

(* Mutant: any answer of the human is taken for an approval. *)
AwaitAnyAnswer ==
  /\ pc = "approval"
  /\ answer[focus] \in {"APPROVE", "DENY"}
  /\ pc' = "dispatch"
  /\ lifecycle' = "RUNNING" /\ shown' = "RUNNING"
  /\ UNCHANGED <<turn, focus, ret, todo, concluded, reply, tick, status, class, pre,
                 requested, facts, result, signals, world, bounds>>

(* await_approval returns: the response, or the effect's cancellation. *)
AwaitApproval ==
  /\ pc = "approval"
  /\ \/ /\ focus \in stopAsked \/ answer[focus] = "DENY"
        /\ Set(focus, "not_dispatched")
        /\ pc' = "closed"
     \/ /\ answer[focus] = "APPROVE"
        /\ pc' = "dispatch"
        /\ UNCHANGED status
  /\ lifecycle' = "RUNNING" /\ shown' = "RUNNING"
  /\ UNCHANGED <<turn, focus, ret, todo, concluded, reply, tick, class, pre, requested,
                 facts, result, signals, world, bounds>>

(* Closed before dispatch: observed as not_dispatched. *)
RecordClosed ==
  /\ pc = "closed"
  /\ Record(AnalyzeObserved(facts, focus, "not_dispatched"))
  /\ pc' = IF Stopping THEN "close" ELSE "settle"
  /\ ret' = "effect"
  /\ UNCHANGED <<turn, focus, todo, concluded, reply, tick, lifecycle, status, class, pre,
                 requested, result, signals, world, bounds>>

RecordDispatch ==
  /\ pc = "dispatch"
  /\ Record(AnalyzeDispatched(facts, focus))
  /\ Set(focus, "dispatched")
  /\ pc' = "attempt"
  /\ UNCHANGED <<turn, focus, ret, todo, concluded, reply, tick, lifecycle, class, pre,
                 requested, result, signals, world, bounds>>

(* Mutant: the retried dispatch step does not ask for a receipt first. *)
AttemptBlindly ==
  /\ pc = "attempt"
  /\ pc' = "send"
  /\ UNCHANGED <<turn, focus, ret, todo, concluded, reply, tick, task, signals, world,
                 bounds>>

(***************************************************************************)
(* effects.attempt, a journaled step: ask the provider for a receipt       *)
(* first; only authoritative absence permits the dispatch.                 *)
(***************************************************************************)
Attempt ==
  /\ pc = "attempt"
  /\ IF ~deployed
       THEN Deliver("not_dispatched")
       ELSE \E a \in Query(focus) :
              IF a = "absent"
                THEN pc' = "send" /\ UNCHANGED <<reply, status, tick>>
                ELSE Deliver(Outcome(a))
  /\ UNCHANGED <<turn, focus, ret, todo, concluded, lifecycle, shown, class, pre,
                 requested, facts, result, signals, world, bounds>>

(* provider.dispatch: the request leaves, or ProviderUnavailable says it did not. *)
Send ==
  /\ pc = "send"
  /\ \/ /\ inflight' = inflight \cup {focus}
        /\ sent' = sent \cup {focus}
        /\ pc' = "reply"
        /\ reply' = reply
     \/ /\ reply' = "uncertain"
        /\ pc' = "receipt"
        /\ UNCHANGED <<inflight, sent>>
  /\ UNCHANGED <<turn, focus, ret, todo, concluded, tick, task, signals, deployed,
                 receipt, target, bounds>>

(* The dispatch call returns its receipt, or the reply is lost or invalid. *)
Reply ==
  /\ pc = "reply"
  /\ \/ receipt[focus] # "none" /\ Deliver(receipt[focus])
     \/ Deliver("uncertain")
  /\ UNCHANGED <<turn, focus, ret, todo, concluded, lifecycle, shown, class, pre,
                 requested, facts, result, signals, world, bounds>>

PollWithoutDeadline ==
  /\ pc = "supervise"
  /\ \E a \in Query(focus) \ {"running"} :
       /\ reply' = IF a \in ReceiptStates THEN a ELSE "uncertain"
       /\ pc' = IF a \in ReceiptStates THEN "receipt" ELSE "supervise"
  /\ UNCHANGED <<turn, focus, ret, todo, concluded, tick, task, signals, world, bounds>>

(* effects.poll: a running operation without a receipt is uncertain. *)
PollAnswers(op) == {Outcome(a) : a \in Query(op)}

(* A tick of supervise: poll the receipt; past the last tick comes the deadline. *)
Poll ==
  /\ pc = "supervise"
  /\ \E a \in PollAnswers(focus) :
       IF a = "running"
         THEN /\ tick' = tick + 1
              /\ pc' = IF tick + 1 = MaxPolls THEN "stop" ELSE "supervise"
              /\ reply' = reply
         ELSE /\ reply' = a
              /\ pc' = "receipt"
              /\ UNCHANGED tick
  /\ UNCHANGED <<turn, focus, ret, todo, concluded, task, signals, world, bounds>>

(* The effect-cancel promise wins the select of supervise. *)
StopRequested ==
  /\ pc = "supervise"
  /\ focus \in stopAsked
  /\ pc' = "stop"
  /\ UNCHANGED <<turn, focus, ret, todo, concluded, reply, tick, task, signals, world,
                 bounds>>

(* effects.cancel's reading of the provider's answer to a stop request. *)
StopAnswer(r) == {"uncertain"} \cup ({r} \ {"none", "running"})

(* effects.cancel: only a receipt that is not running confirms the stop.  A *)
(* crash after the provider acted runs the step again.                      *)
StopProcess ==
  /\ pc = "stop"
  /\ \E r \in AfterStop(focus) :
       /\ receipt' = [receipt EXCEPT ![focus] = r]
       /\ \/ /\ reply' \in StopAnswer(r)
             /\ pc' = "receipt"
             /\ UNCHANGED crashes
          \/ /\ crashes < MaxCrashes
             /\ crashes' = crashes + 1
             /\ UNCHANGED <<pc, reply>>
  /\ UNCHANGED <<turn, focus, ret, todo, concluded, tick, task, signals, deployed,
                 inflight, sent, target, failures>>

(* settle_effect before its journal entry: the status follows the result. *)
SettleEffect ==
  /\ pc = "receipt"
  /\ Set(focus, reply)
  /\ reply' = "none" /\ tick' = 0
  /\ pc' = "observe"
  /\ UNCHANGED <<turn, focus, ret, todo, concluded, lifecycle, shown, class, pre,
                 requested, facts, result, signals, world, bounds>>

ObservedOutcome(s) ==
  CASE s \in {"applied", "completed"} -> "success"
    [] s = "uncertain" -> "uncertain"
    [] OTHER -> "failure"

(* settle_effect's journal entry; an uncertain effect is reconciled at once. *)
Observe ==
  /\ pc = "observe"
  /\ Record(AnalyzeObserved(facts, focus, ObservedOutcome(status[focus])))
  /\ ret' = "effect"
  /\ concluded' = FALSE
  /\ IF Stopping
       THEN pc' = "close" /\ UNCHANGED todo
       ELSE IF status[focus] = "uncertain"
              THEN pc' = "reconcile" /\ todo' = Uncertain
              ELSE pc' = "settle" /\ UNCHANGED todo
  /\ UNCHANGED <<turn, focus, reply, tick, lifecycle, status, class, pre, requested,
                 result, signals, world, bounds>>

-----------------------------------------------------------------------------
(* reconcile_effects: one attempt per uncertain effect, never a redispatch. *)

(* Mutant: absence is believed without the provider's authority for it. *)
ReconcileWithoutAuthority(op) ==
  {[state |-> "APPLIED", status |-> a] : a \in Query(op) \cap TerminalReceipts}
    \cup {[state |-> "NOT_APPLIED", status |-> "not_applied"]}

(* effects.reconcile: the state it may conclude, with the effect's next status. *)
Reconciliation(op) ==
  LET verdict(state, s) == [state |-> state, status |-> s]
      unknown == verdict("STILL_UNKNOWN", "uncertain")
      conclude(a) ==
        CASE a \in TerminalReceipts -> {verdict("APPLIED", a)}
          [] a = "absent" -> {verdict("NOT_APPLIED", "not_applied")}
          [] a = "unknown" /\ class[op] = "write" /\ target \notin {pre[op], op} ->
               {verdict("DIFFERENT_STATE", "different_state"), unknown}
          [] OTHER -> {unknown}
  IN IF deployed THEN UNION {conclude(a) : a \in Query(op)} ELSE {unknown}

Reconcile ==
  /\ pc = "reconcile"
  /\ \E op \in Ops :
       /\ First(op, todo)
       /\ focus' = op
       /\ todo' = todo \ {op}
       /\ \E v \in Reconciliation(op) :
            /\ reply' = v.state
            /\ Set(op, v.status)
  /\ pc' = "reconciled"
  /\ UNCHANGED <<turn, ret, concluded, tick, lifecycle, shown, class, pre, requested,
                 facts, result, signals, world, bounds>>

RecordReconciled ==
  /\ pc = "reconciled"
  /\ Record(AnalyzeReconciled(facts, focus, reply))
  /\ concluded' = (concluded \/ reply # "STILL_UNKNOWN")
  /\ reply' = "none"
  /\ pc' = "reconcile"
  /\ UNCHANGED <<turn, focus, ret, todo, tick, lifecycle, status, class, pre,
                 requested, result, signals, world, bounds>>

(* After the last attempt: the turn goes on, or close_effects publishes and ends. *)
ReconcileDone ==
  /\ pc = "reconcile"
  /\ todo = {}
  /\ pc' = CASE Stopping -> "finish"
             [] ~Stopping /\ ret = "boundary" /\ ~concluded -> "decide"
             [] OTHER -> "settle"
  /\ shown' = IF Stopping THEN lifecycle ELSE shown
  /\ concluded' = FALSE
  /\ UNCHANGED <<turn, focus, ret, todo, reply, tick, lifecycle, status, class,
                 pre, requested, facts, result, signals, world, bounds>>

-----------------------------------------------------------------------------
(* The turn loop around the effects.                                       *)

(* Legality of completion as far as effects decide it. *)
Legal == facts.problems = {} /\ Unresolved(facts) = {}

(* close_effects starts: the lifecycle is decided, every effect is visited. *)
Stop(kind) ==
  /\ pc \notin {"finish", "emit", "done", "raised"}
  /\ ~Stopping
  /\ lifecycle' = kind
  /\ todo' = {op \in Ops : status[op] # "none"}
  /\ pc' = IF todo' = {} THEN "finish" ELSE "close"
  /\ reply' = "none" /\ tick' = 0 /\ concluded' = FALSE

(* An error raised outside the try block, or inside its handler, ends the run. *)
Escape ==
  /\ pc \in {"finish", "emit"} \/ (Stopping /\ pc \notin {"done", "raised"})
  /\ pc' = "raised"
  /\ UNCHANGED <<lifecycle, todo, reply, tick, concluded>>

(* settle: the contract's criteria pass and the completion is legal. *)
SettleCompleted ==
  /\ pc = "settle"
  /\ Legal
  /\ lifecycle' = "COMPLETED" /\ shown' = "COMPLETED"
  /\ pc' = "completed"
  /\ UNCHANGED <<turn, focus, ret, todo, concluded, reply, tick, status, class, pre,
                 requested, facts, result, signals, world, bounds>>

(* settle: an invariant criterion failed for good because of an admitted effect. *)
SettleIrrecoverable ==
  /\ pc = "settle"
  /\ facts.admitted \cap facts.target # {} \/ facts.problems # {}
  /\ Stop("FAILED")
  /\ shown' = "RUNNING"
  /\ UNCHANGED <<turn, focus, ret, status, class, pre, requested, facts, result, signals,
                 world, bounds>>

(* settle: not complete yet.  The turn continues, or the next one begins; a loop *)
(* that runs out of turns fails the Task without closing its effects.            *)
SettleContinue ==
  /\ pc = "settle"
  /\ CASE ret = "boundary" -> pc' = "decide" /\ UNCHANGED <<turn, ret, lifecycle>>
       [] ret = "effect" -> pc' = "settle" /\ ret' = "outcome" /\ UNCHANGED <<turn, lifecycle>>
       [] OTHER ->
            IF turn < MaxTurns
              THEN pc' = "boundary" /\ turn' = turn + 1 /\ UNCHANGED <<ret, lifecycle>>
              ELSE pc' = "finish" /\ lifecycle' = "FAILED" /\ UNCHANGED <<turn, ret>>
  /\ shown' = "RUNNING"
  /\ UNCHANGED <<focus, todo, concluded, reply, tick, status, class, pre, requested,
                 facts, result, signals, world, bounds>>

(* Mutant: the boundary reconciles whatever was dispatched. *)
BoundaryReconcilesAll ==
  /\ pc = "boundary"
  /\ todo' = facts.dispatched
  /\ concluded' = FALSE
  /\ ret' = "boundary"
  /\ pc' = "reconcile"
  /\ UNCHANGED <<turn, focus, reply, tick, task, signals, world, bounds>>

(* The top of a turn reconciles whatever is uncertain. *)
Boundary ==
  /\ pc = "boundary"
  /\ todo' = Uncertain
  /\ concluded' = FALSE
  /\ ret' = "boundary"
  /\ pc' = "reconcile"
  /\ UNCHANGED <<turn, focus, reply, tick, task, signals, world, bounds>>

(* policy_gate on a proposed capability: authority, and no new target effect *)
(* while another one is uncertain.                                           *)
PolicyGate(c) == c \in Authority /\ (c \in LifecycleClasses => Uncertain = {})

(* Cognition decides: a capability the gate admits, one it denies, or a decision *)
(* without a capability (COMPLETE settles once more than the others).            *)
Decide ==
  /\ pc = "decide"
  /\ \/ \E c \in OperationClasses :
          /\ PolicyGate(c)
          /\ class' = [class EXCEPT ![turn] = c]
          /\ pc' = "admit"
          /\ UNCHANGED <<ret, facts, shown>>
     \/ /\ Record(AnalyzeDenied(facts))
        /\ pc' = "settle" /\ ret' = "outcome"
        /\ UNCHANGED class
     \/ /\ pc' = "settle" /\ ret' \in {"effect", "outcome"}
        /\ UNCHANGED <<class, facts, shown>>
  /\ UNCHANGED <<turn, focus, todo, concluded, reply, tick, lifecycle, status, pre,
                 requested, result, signals, world, bounds>>

Admit ==
  /\ pc = "admit"
  /\ Record(AnalyzeAdmitted(facts, turn, class[turn], Authority))
  /\ focus' = turn
  /\ pc' = IF class[turn] \in LifecycleClasses THEN "request" ELSE "capability"
  /\ UNCHANGED <<turn, ret, todo, concluded, reply, tick, lifecycle, status, class, pre,
                 requested, result, signals, world, bounds>>

(* A capability outside the effect lifecycle: executed, then observed. *)
Capability ==
  /\ pc = "capability"
  /\ \E outcome \in {"success", "failure"} : Record(AnalyzeObserved(facts, focus, outcome))
  /\ pc' = "settle" /\ ret' = "effect"
  /\ UNCHANGED <<turn, focus, todo, concluded, reply, tick, lifecycle, status, class, pre,
                 requested, result, signals, world, bounds>>

(* The durable await left inside the try block after COMPLETED was published. *)
Completed ==
  /\ pc = "completed"
  /\ pc' = "finish"
  /\ UNCHANGED <<turn, focus, ret, todo, concluded, reply, tick, task, signals, world,
                 bounds>>

-----------------------------------------------------------------------------
(* Task stop: close_effects visits each effect, in order.                  *)

(* Mutant: an effect that waits for its approval is not closed. *)
CloseForgetsApproval ==
  /\ pc = "close"
  /\ \E op \in Ops :
       /\ First(op, todo)
       /\ focus' = op
       /\ todo' = todo \ {op}
       /\ pc' = IF status[op] \in {"dispatched", "running"} THEN "taskStop" ELSE "close"
  /\ UNCHANGED <<turn, ret, concluded, reply, tick, lifecycle, shown, status, class, pre,
                 requested, facts, result, signals, world, bounds>>

Close ==
  /\ pc = "close"
  /\ \E op \in Ops :
       /\ First(op, todo)
       /\ focus' = op
       /\ todo' = todo \ {op}
       /\ CASE status[op] \in {"admitted", "awaiting_approval"} ->
                 Set(op, "not_dispatched") /\ pc' = "closed"
            [] status[op] \in {"dispatched", "running"} ->
                 pc' = "taskStop" /\ UNCHANGED status
            [] OTHER -> pc' = "close" /\ UNCHANGED status
  /\ UNCHANGED <<turn, ret, concluded, reply, tick, lifecycle, shown, class, pre,
                 requested, facts, result, signals, world, bounds>>

CloseDone ==
  /\ pc = "close"
  /\ todo = {}
  /\ todo' = Uncertain
  /\ concluded' = FALSE
  /\ pc' = "reconcile"
  /\ UNCHANGED <<turn, focus, ret, reply, tick, task, signals, world, bounds>>

(* Mutant: the stop waits until the provider holds a terminal receipt. *)
TaskStopWaits ==
  /\ pc = "taskStop"
  /\ IF receipt[focus] \in TerminalReceipts
       THEN reply' = receipt[focus] /\ pc' = "receipt"
       ELSE UNCHANGED <<reply, pc>>
  /\ UNCHANGED <<turn, focus, ret, todo, concluded, tick, task, signals, world, bounds>>

(* effects.stop_for_task: query first; only a running process is stopped. *)
TaskStop ==
  /\ pc = "taskStop"
  /\ \/ /\ \/ ~deployed /\ reply' = "uncertain"
           \/ /\ deployed
              /\ \E a \in Query(focus) \ {"running"} :
                   reply' = IF a \in ReceiptStates THEN a ELSE "uncertain"
        /\ pc' = "receipt"
        /\ UNCHANGED <<receipt, crashes>>
     \/ /\ deployed /\ receipt[focus] = "running"
        /\ \E r \in {"running", "canceled"} :
             /\ receipt' = [receipt EXCEPT ![focus] = r]
             /\ \/ /\ reply' \in StopAnswer(r)
                   /\ pc' = "receipt"
                   /\ UNCHANGED crashes
                \/ /\ crashes < MaxCrashes
                   /\ crashes' = crashes + 1
                   /\ UNCHANGED <<pc, reply>>
  /\ UNCHANGED <<turn, focus, ret, todo, concluded, tick, task, signals, deployed,
                 inflight, sent, target, failures>>

(* The TaskResult and the routing record are retained and the end is published. *)
Finish ==
  /\ pc = "finish"
  /\ pc' = "emit"
  /\ result' = TRUE
  /\ shown' = lifecycle
  /\ UNCHANGED <<turn, focus, ret, todo, concluded, reply, tick, lifecycle, status, class,
                 pre, requested, facts, signals, world, bounds>>

(* The last events are emitted and the run returns its TaskResult. *)
EmitCompletion ==
  /\ pc = "emit"
  /\ pc' = "done"
  /\ UNCHANGED <<turn, focus, ret, todo, concluded, reply, tick, task, signals, world,
                 bounds>>

-----------------------------------------------------------------------------
(* What interrupts the workflow at an await.                               *)

(* Mutant: the await's own error handler swallows the cancellation. *)
DeliverCancelSwallowed ==
  /\ cancel = "requested"
  /\ cancel' = "delivered"
  /\ ~Stopping /\ pc \notin {"finish", "emit", "done", "raised"}
  /\ lifecycle' = "CANCELLED"
  /\ UNCHANGED <<control, shown, status, class, pre, requested, facts, result, answer,
                 stopAsked, world, bounds>>

(* Restate delivers the cancellation, once. *)
DeliverCancel ==
  /\ cancel = "requested"
  /\ cancel' = "delivered"
  /\ Stop("CANCELLED") \/ Escape
  /\ UNCHANGED <<turn, focus, ret, shown, status, class, pre, requested, facts, result,
                 answer, stopAsked, world, bounds>>

(* A step exhausts its attempts: a TerminalError that is not a cancellation. *)
StepFails ==
  /\ failures < MaxFailures
  /\ failures' = failures + 1
  /\ Stop("FAILED") \/ Escape
  /\ UNCHANGED <<turn, focus, ret, shown, status, class, pre, requested, facts, result,
                 signals, world, crashes>>

(* A crash, or an exception, before the dispatch step was journaled: it runs again. *)
Crash ==
  /\ crashes < MaxCrashes
  /\ crashes' = crashes + 1
  /\ pc \in {"send", "reply"}
  /\ pc' = "attempt"
  /\ UNCHANGED <<turn, focus, ret, todo, concluded, reply, tick, task, signals, world,
                 failures>>

-----------------------------------------------------------------------------
(* Shared handlers.  Each reads the published state and resolves a promise.  *)
(* What it read may be stale: a promise resolved after the run stopped       *)
(* awaiting it has no reader, so that late resolution is left out.           *)

SubmitHumanResponse(op) ==
  /\ shown = "WAITING"
  /\ answer[op] = "pending"
  /\ \E value \in {"APPROVE", "DENY"} : answer' = [answer EXCEPT ![op] = value]
  /\ UNCHANGED <<control, task, stopAsked, cancel, world, bounds>>

CancelEffect(op) ==
  /\ op \in requested \ stopAsked
  /\ status[op] \in Cancellable
  /\ stopAsked' = stopAsked \cup {op}
  /\ UNCHANGED <<control, task, answer, cancel, world, bounds>>

CancelTask ==
  /\ cancel = "none"
  /\ shown \notin TerminalLifecycles
  /\ cancel' = "requested"
  /\ UNCHANGED <<control, task, answer, stopAsked, world, bounds>>

-----------------------------------------------------------------------------
(* The provider and the target (external).                                 *)

(* A request arrives: idempotent per operation, compare-and-swap for a write. *)
ProviderReceives(op) ==
  /\ op \in inflight
  /\ inflight' = inflight \ {op}
  /\ IF receipt[op] # "none"
       THEN UNCHANGED <<receipt, target>>
       ELSE \/ /\ class[op] = "write" /\ target = pre[op]
               /\ receipt' = [receipt EXCEPT ![op] = "applied"]
               /\ target' = op
            \/ /\ class[op] = "write" /\ target # pre[op]
               /\ receipt' = [receipt EXCEPT ![op] = "conflict"]
               /\ UNCHANGED target
            \/ /\ \/ /\ class[op] = "exec"
                     /\ \E s \in {"running", "not_started"} :
                          receipt' = [receipt EXCEPT ![op] = s]
                  \/ receipt' = [receipt EXCEPT ![op] = "rejected"]
               /\ UNCHANGED target
  /\ UNCHANGED <<control, task, signals, deployed, sent, bounds>>

RequestLost(op) ==
  /\ op \in inflight
  /\ inflight' = inflight \ {op}
  /\ UNCHANGED <<control, task, signals, deployed, sent, receipt, target, bounds>>

ProcessEnds(op) ==
  /\ receipt[op] = "running"
  /\ receipt' = [receipt EXCEPT ![op] = "completed"]
  /\ UNCHANGED <<control, task, signals, deployed, inflight, sent, target, bounds>>

(* Someone else edits the target while a write can still meet it. *)
ThirdPartyWrites ==
  /\ \E op \in requested :
       /\ class[op] = "write"
       /\ op \in inflight \/ status[op] \in Cancellable \cup {"uncertain"}
  /\ target' \in {0, ThirdParty} \ {target}
  /\ UNCHANGED <<control, task, signals, deployed, inflight, sent, receipt, bounds>>

-----------------------------------------------------------------------------
PerformTarget ==
  \/ Lower \/ Ask \/ AwaitApproval \/ RecordClosed \/ RecordDispatch \/ Attempt \/ Send
  \/ Reply \/ Poll \/ StopRequested \/ StopProcess \/ SettleEffect \/ Observe

Loop ==
  \/ SettleCompleted \/ SettleIrrecoverable \/ SettleContinue \/ Boundary \/ Decide
  \/ Admit \/ Capability \/ Completed \/ Finish \/ EmitCompletion

Workflow ==
  \/ PerformTarget \/ Loop
  \/ Reconcile \/ RecordReconciled \/ ReconcileDone
  \/ Close \/ CloseDone \/ TaskStop

Interrupt == DeliverCancel \/ StepFails \/ Crash

Handlers ==
  \/ \E op \in Ops : SubmitHumanResponse(op) \/ CancelEffect(op)
  \/ CancelTask

Provider ==
  \/ \E op \in Ops : ProviderReceives(op) \/ RequestLost(op) \/ ProcessEnds(op)
  \/ ThirdPartyWrites

(* The run returned, or an error escaped it: nothing is left to do. *)
Terminated == pc \in {"done", "raised"} /\ UNCHANGED vars

Next == Workflow \/ Interrupt \/ Handlers \/ Provider \/ Terminated

Spec == Init /\ [][Next]_vars

(***************************************************************************)
(* Restate keeps a workflow running until it returns, and delivers a       *)
(* requested cancellation.  Nothing makes a human answer, a process end or *)
(* a request arrive.                                                       *)
(***************************************************************************)
FairSpec == Spec /\ WF_vars(Workflow) /\ WF_vars(DeliverCancel)

-----------------------------------------------------------------------------
(* What must hold.                                                         *)

(* Every variable keeps the shape the TaskState, the promises and the *)
(* provider's receipts have.                                          *)
TypeOK ==
  /\ pc \in Points
  /\ turn \in 0..MaxTurns
  /\ focus \in Ops
  /\ ret \in {"boundary", "effect", "outcome"}
  /\ todo \subseteq Ops
  /\ concluded \in BOOLEAN
  /\ reply \in {"none", "uncertain", "not_dispatched"} \cup TerminalReceipts \cup ReconcileStates
  /\ tick \in 0..MaxPolls
  /\ lifecycle \in Lifecycles
  /\ shown \in Lifecycles
  /\ status \in [Ops -> Statuses]
  /\ class \in [Ops -> OperationClasses \cup {"none"}]
  /\ pre \in [Ops -> Contents]
  /\ requested \subseteq Ops
  /\ facts \in JournalFacts(Ops)
  /\ result \in BOOLEAN
  /\ answer \in [Ops -> {"unasked", "pending", "APPROVE", "DENY"}]
  /\ stopAsked \subseteq Ops
  /\ cancel \in {"none", "requested", "delivered"}
  /\ deployed \in BOOLEAN
  /\ inflight \subseteq Ops
  /\ sent \subseteq Ops
  /\ receipt \in [Ops -> ReceiptStates \cup {"none"}]
  /\ target \in Contents
  /\ crashes \in 0..MaxCrashes
  /\ failures \in 0..MaxFailures

(* A terminal status the Task records is the receipt the provider holds, and an *)
(* effect recorded as not dispatched or not applied never happened and no       *)
(* request for it is on its way (settle_effect, reconcile_effects,              *)
(* close_effects).  Late requests need the provider's absence to be strong.     *)
OutcomeTruthful ==
  \A op \in Ops :
    /\ status[op] \in TerminalReceipts => receipt[op] = status[op]
    /\ status[op] = "not_dispatched" => receipt[op] = "none" /\ op \notin inflight
    /\ StrongAbsence /\ status[op] = "not_applied" =>
         receipt[op] = "none" /\ op \notin inflight

(* Query-first attempts survive crashes, lost replies and lost requests: when a *)
(* dispatch is about to leave, no earlier request of the operation has been      *)
(* executed or is still on its way (effects.attempt).                            *)
NoDuplicateDispatch ==
  pc = "send" /\ StrongAbsence => receipt[focus] = "none" /\ focus \notin inflight

(* Nothing leaves for the target unless the journal already shows its dispatch, *)
(* and a class in ask_before only after a human's APPROVE (perform_target).     *)
DispatchIsAuthorized ==
  \A op \in Ops :
    op \in sent =>
      /\ op \in facts.admitted \cap facts.dispatched
      /\ class[op] \in Authority
      /\ class[op] \in AskBefore => answer[op] = "APPROVE"

(* Lifecycle invariant: once COMPLETED is published no process of the Task runs *)
(* on the target and no request is in flight, except a write that reconciliation *)
(* closed as DIFFERENT_STATE (completion.legality).                              *)
CompletionIsQuiescent ==
  shown = "COMPLETED" /\ StrongAbsence =>
    \A op \in Ops :
      /\ receipt[op] # "running"
      /\ op \in inflight => status[op] = "different_state"

(* journal.analyze finds no integrity problem in what the workflow records; a *)
(* Task that was stopped between an effect's outcome and its journal entry can *)
(* only lack the uncertainty it reconciles.  At most one effect is uncertain,  *)
(* so a turn adds at most five entries and a stop two more: the chain stays    *)
(* below MAX_ENTRIES (journal.append).                                         *)
JournalSound ==
  /\ facts.problems \subseteq (IF Stopping THEN {"reconciled without uncertainty"} ELSE {})
  /\ Cardinality(Uncertain) <= 1
  /\ facts.length <= 5 * turn + 2

(* A stopped Task leaves no effect in the middle of its lifecycle (close_effects). *)
StopClosesEffects ==
  pc = "done" /\ lifecycle = "CANCELLED" =>
    \A op \in Ops :
      status[op] \notin Cancellable

(* Once the Task is stopping nothing is admitted, dispatched or sent. *)
NoEffectAfterStop ==
  [][Stopping => sent' = sent /\ facts'.admitted = facts.admitted
                              /\ facts'.dispatched = facts.dispatched]_vars

(* A requested cancellation ends the run, whatever the human, the provider and *)
(* the process do (DeliverCancel, close_effects).                              *)
CancelEndsRun == cancel = "requested" ~> pc \in {"done", "raised"}

(* supervise is bounded: a process that never ends is given up at the deadline, *)
(* unless an error escapes the run.                                              *)
SupervisionEnds ==
  \A op \in Ops : status[op] = "running" ~> status[op] # "running" \/ pc = "raised"
=============================================================================
