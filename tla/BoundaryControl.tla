--------------------------- MODULE BoundaryControl ---------------------------
(***************************************************************************)
(* The synchronous control path of the kernel                              *)
(* (src/runtime/kernel/instrument.py): before every model continuation a   *)
(* Task's workflow asks the observers of its deployment, one after the     *)
(* other, on a pool of one thread and within a budget                      *)
(* (src/runtime/kernel/workflow.py).  The Tasks of a runtime share one     *)
(* ControlPath.  What an observer says is abstracted: PROCEED and ABSTAIN  *)
(* have the same consequence.  The recorder is one that never raises (a    *)
(* SafeRecorder), so telemetry takes no part.                              *)
(***************************************************************************)
EXTENDS Integers, Sequences, FiniteSets

CONSTANTS
    Tasks,          \* Tasks served by one runtime process
    NumObservers,   \* observers of the ControlPath, named by their place
    MaxAttempts,    \* RunOptions(max_attempts) of a step
    MaxTurns,       \* boundaries of a Task in this instance
    MaxCrashes      \* restarts of the runtime in this instance

ASSUME BoundaryAssumption ==
    /\ IsFiniteSet(Tasks) /\ NumObservers \in 1 .. 4
    /\ MaxAttempts \in Nat \ {0} /\ MaxTurns \in Nat /\ MaxCrashes \in Nat

VARIABLES
    policy,     \* ControlPath.policy, chosen by the deployment
    turn,       \* the boundary a Task has reached, or 0
    stage,      \* where a Task stands
    attempt,    \* attempts of its continuation step
    entries,    \* its admission so far: one entry per observer asked
    future,     \* what became of the call it waits for
    admitted,   \* the step's last result in the journal: its boundary and its entries
    queue,      \* the pool's calls, the one its thread executes first
    poisoned,   \* observers not consulted again
    inspected,  \* history: the observers that inspected the boundary a Task has reached
    crashes     \* restarts so far

taskVars == <<turn, stage, attempt, entries, future>>
boundaryVars == <<policy, taskVars, admitted, queue, poisoned, inspected, crashes>>

Failures == {"budget_exceeded", "observer_error", "skipped_poisoned"}
Entries == Failures \cup {"assessed"}
PoolCalls == [task : Tasks, turn : 1 .. MaxTurns, observer : 1 .. NumObservers, waiting : BOOLEAN]

BoundaryTypeOK ==
    /\ policy \in {"PROCEED_ON_ERROR", "FAIL_ON_ERROR"} /\ turn \in [Tasks -> 0 .. MaxTurns]
    /\ stage \in [Tasks -> {"turn", "step", "observe", "wait", "failed"}]
    /\ attempt \in [Tasks -> 0 .. MaxAttempts]
    /\ \A t \in Tasks : entries[t] \in Seq(Entries) /\ Len(entries[t]) <= NumObservers
    /\ future \in [Tasks -> {"none", "pending", "assessed", "observer_error"}]
    /\ \A t \in Tasks : admitted[t].turn \in 0 .. turn[t] /\ admitted[t].entries \in Seq(Entries)
    /\ queue \in Seq(PoolCalls) /\ poisoned \subseteq 1 .. NumObservers
    /\ inspected \in [Tasks -> SUBSET (1 .. NumObservers)]
    /\ crashes \in 0 .. MaxCrashes

BoundaryInit ==
    /\ policy \in {"PROCEED_ON_ERROR", "FAIL_ON_ERROR"}
    /\ turn = [t \in Tasks |-> 0] /\ stage = [t \in Tasks |-> "turn"]
    /\ attempt = [t \in Tasks |-> 0] /\ entries = [t \in Tasks |-> << >>]
    /\ future = [t \in Tasks |-> "none"] /\ admitted = [t \in Tasks |-> [turn |-> 0, entries |-> << >>]]
    /\ queue = << >> /\ poisoned = {} /\ inspected = [t \in Tasks |-> {}] /\ crashes = 0

Goto(t, l) == stage' = [stage EXCEPT ![t] = l]

(* The observer a Task asks next. *)
Next1(t) == Len(entries[t]) + 1

Enter(t, e) == entries' = [entries EXCEPT ![t] = Append(@, e)]

-----------------------------------------------------------------------------
(* The workflow. *)

(* The next iteration reaches its boundary. *)
Boundary(t) ==
    /\ stage[t] = "turn" /\ turn[t] < MaxTurns /\ turn' = [turn EXCEPT ![t] = @ + 1]
    /\ Goto(t, "step") /\ attempt' = [attempt EXCEPT ![t] = 0]
    /\ inspected' = [inspected EXCEPT ![t] = {}]
    /\ UNCHANGED <<policy, entries, future, admitted, queue, poisoned, crashes>>

(* An attempt of the step: Instrumentation.admit. *)
Admit(t) ==
    /\ stage[t] = "step" /\ attempt' = [attempt EXCEPT ![t] = @ + 1] /\ Goto(t, "observe")
    /\ UNCHANGED <<policy, turn, entries, future, admitted, queue, poisoned, inspected, crashes>>

-----------------------------------------------------------------------------
(* ControlPath.admit, observer by observer. *)

(* A poisoned observer is a failure of this admission, too. *)
SkipPoisoned(t) ==
    /\ stage[t] = "observe" /\ Next1(t) \in poisoned /\ Enter(t, "skipped_poisoned")
    /\ UNCHANGED <<policy, turn, stage, attempt, future, admitted, queue, poisoned, inspected, crashes>>

Submit(t) ==
    /\ stage[t] = "observe" /\ Next1(t) \in 1 .. NumObservers \ poisoned
    /\ queue' = Append(queue, [task |-> t, turn |-> turn[t], observer |-> Next1(t), waiting |-> TRUE])
    /\ future' = [future EXCEPT ![t] = "pending"] /\ Goto(t, "wait")
    /\ UNCHANGED <<policy, turn, attempt, entries, admitted, poisoned, inspected, crashes>>

(* The call has returned, and its assessment is valid or not. *)
Collect(t) ==
    /\ stage[t] = "wait" /\ future[t] # "pending" /\ Enter(t, future[t])
    /\ future' = [future EXCEPT ![t] = "none"] /\ Goto(t, "observe")
    /\ UNCHANGED <<policy, turn, attempt, admitted, queue, poisoned, inspected, crashes>>

(* The calls of t are waited for no longer. *)
Abandoned(t) == [i \in 1 .. Len(queue) |-> IF queue[i].task = t THEN [queue[i] EXCEPT !.waiting = FALSE]
                                           ELSE queue[i]]

(* The budget is over: the call is abandoned, in the queue or on the thread, *)
(* and its observer poisoned.                                                *)
Timeout(t) ==
    /\ stage[t] = "wait" /\ future[t] = "pending" /\ Enter(t, "budget_exceeded")
    /\ poisoned' = poisoned \cup {Next1(t)}
    /\ queue' = Abandoned(t) /\ future' = [future EXCEPT ![t] = "none"] /\ Goto(t, "observe")
    /\ UNCHANGED <<policy, turn, attempt, admitted, inspected, crashes>>

(* Mutant of Failing: only an observer's own error counts. *)
FailingErrors(t) == \E i \in 1 .. Len(entries[t]) : entries[t][i] = "observer_error"

(* A failure of whatever kind. *)
Failing(t) == \E i \in 1 .. Len(entries[t]) : entries[t][i] \in Failures

(* Mutant of Settle: a refused admission is tried again, however often. *)
SettleForever(t) ==
    /\ stage[t] = "observe" /\ Next1(t) > NumObservers
    /\ IF policy = "FAIL_ON_ERROR" /\ Failing(t)
       THEN Goto(t, "step") /\ UNCHANGED admitted /\ attempt' = [attempt EXCEPT ![t] = 0]
       ELSE /\ admitted' = [admitted EXCEPT ![t] = [turn |-> turn[t], entries |-> entries[t]]] /\ Goto(t, "turn")
            /\ UNCHANGED attempt
    /\ entries' = [entries EXCEPT ![t] = << >>]
    /\ UNCHANGED <<policy, turn, future, queue, poisoned, inspected, crashes>>

(* The admission: journaled by the step, or refused under FAIL_ON_ERROR; the *)
(* step is then tried again, and the Task fails with the last attempt.       *)
Settle(t) ==
    /\ stage[t] = "observe" /\ Next1(t) > NumObservers
    /\ IF policy = "FAIL_ON_ERROR" /\ Failing(t)
       THEN Goto(t, IF attempt[t] < MaxAttempts THEN "step" ELSE "failed") /\ UNCHANGED admitted
       ELSE admitted' = [admitted EXCEPT ![t] = [turn |-> turn[t], entries |-> entries[t]]] /\ Goto(t, "turn")
    /\ entries' = [entries EXCEPT ![t] = << >>]
    /\ UNCHANGED <<policy, turn, attempt, future, queue, poisoned, inspected, crashes>>

-----------------------------------------------------------------------------
(* The pool's thread ends the call at the head of its queue, which the       *)
(* observer made when it liked; a call that hangs never ends.                *)
Inspect ==
    /\ queue # << >> /\ queue' = Tail(queue)
    /\ LET call == Head(queue) IN
       /\ inspected' = IF call.turn = turn[call.task]
                       THEN [inspected EXCEPT ![call.task] = @ \cup {call.observer}] ELSE inspected
       /\ \E r \in {"assessed", "observer_error"} :
            future' = IF call.waiting THEN [future EXCEPT ![call.task] = r] ELSE future
    /\ UNCHANGED <<policy, turn, stage, attempt, entries, admitted, poisoned, crashes>>

(* The runtime is killed and starts again: the pool and the poisoned set are *)
(* new, and a replayed Task asks again unless the step's result is journaled. *)
Restart ==
    /\ crashes < MaxCrashes /\ crashes' = crashes + 1
    /\ queue' = << >> /\ poisoned' = {}
    /\ stage' = [t \in Tasks |-> IF stage[t] \in {"turn", "failed"} THEN stage[t] ELSE "step"]
    /\ attempt' = [t \in Tasks |-> IF stage[t] \in {"observe", "wait"} THEN attempt[t] - 1 ELSE attempt[t]]
    /\ entries' = [t \in Tasks |-> << >>] /\ future' = [t \in Tasks |-> "none"]
    /\ inspected' = [t \in Tasks |-> IF stage[t] = "turn" THEN inspected[t] ELSE {}]
    /\ UNCHANGED <<policy, turn, admitted>>

-----------------------------------------------------------------------------
Step(t) ==
    \/ Admit(t) \/ SkipPoisoned(t) \/ Submit(t) \/ Collect(t) \/ Timeout(t) \/ Settle(t)

BoundaryNext == Inspect \/ Restart \/ \E t \in Tasks : Boundary(t) \/ Step(t)

BoundarySpec == BoundaryInit /\ [][BoundaryNext]_boundaryVars

(* A Task's own thread goes on, its timeout included; an observer need not   *)
(* return, and the runtime need not be restarted.                            *)
BoundaryFairSpec == BoundarySpec /\ \A t \in Tasks : WF_boundaryVars(Step(t))

-----------------------------------------------------------------------------
(* Under FAIL_ON_ERROR a model continues only where every observer inspected *)
(* this very boundary and assessed it: not on another Task's call, an        *)
(* abandoned one, one made before a restart or one that was skipped (admit,  *)
(* Instrumentation.admit).                                                   *)
AdmittedIsAssessed ==
    policy = "FAIL_ON_ERROR" =>
      \A t \in Tasks : stage[t] = "turn" /\ turn[t] > 0 =>
        /\ admitted[t].turn = turn[t] /\ inspected[t] = 1 .. NumObservers
        /\ admitted[t].entries = [o \in 1 .. NumObservers |-> "assessed"]

(* An admission ends, whatever its observers do: the Task continues or       *)
(* fails.                                                                    *)
AdmissionEnds ==
    \A t \in Tasks : stage[t] = "step" ~> stage[t] \in {"turn", "failed"}
=============================================================================
