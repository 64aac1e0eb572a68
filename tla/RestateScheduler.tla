-------------------------- MODULE RestateScheduler --------------------------
(***************************************************************************)
(* The durable scheduler of verification/scheduler_restate.py: the virtual *)
(* object VerificationScheduler[host] and the workflow                     *)
(* VerificationRun[run_id].  submit is exclusive, so the invocations of it *)
(* wait in Restate's inbox while one holds the object; that one awaits the *)
(* run's main handler and admits the next head.  Each action is what one   *)
(* handler does between two durable awaits; a restart replays main from    *)
(* its first line, whose suite, worktree and probes are not journaled.     *)
(*                                                                         *)
(* The module is shown to implement RunScheduler.                          *)
(***************************************************************************)
EXTENDS Naturals, Sequences

CONSTANTS
  Runs,        \* one submission each, named by the run_id it is given
  NoRun,       \* active when the slot is free, holder when submit is idle
  Probed,      \* runs of a suite with prereq_probes
  Steps,       \* steps of a suite
  Fragile,     \* runs whose suite or worktree may disappear
  Broken,      \* runs with a step whose command cannot be started
  MaxCrashes   \* bound: restarts that replay main

ASSUME RestateSchedulerAssumption ==
  /\ NoRun \notin Runs
  /\ Probed \subseteq Runs
  /\ Steps \in Nat
  /\ Fragile \subseteq Runs
  /\ Broken \subseteq Runs
  /\ MaxCrashes \in Nat

Terminal == {"PASS", "FAIL", "BLOCKED"}
Executing == {"RUNNING", "COLLECTING_RESULT"}

VARIABLES
  inbox,     \* Restate: submit invocations that wait for the object
  holder,    \* the submission whose invocation holds the object
  phase,     \* the await at which that invocation stands
  queue,     \* the object's state 'queue'
  active,    \* the object's state 'active'
  run,       \* 'state' of each VerificationRun; "none": NOT_FOUND
  left,      \* steps of the active run that have no journaled report yet
  failed,    \* did a journaled step report fail or time out?
  answered,  \* what each submission has come to
  gone,      \* runs whose suite or worktree no longer resolves
  order,     \* history: accepted submissions, oldest first
  crashes

object == <<queue, active>>
workflow == <<run, left, failed>>
vars == <<inbox, holder, phase, object, workflow, answered, gone, order, crashes>>

Init ==
  /\ inbox = <<>> /\ holder = NoRun /\ phase = "idle"
  /\ queue = <<>> /\ active = NoRun
  /\ run = [r \in Runs |-> "none"] /\ left = 0 /\ failed = FALSE
  /\ answered = [r \in Runs |-> "none"]
  /\ gone = {}
  /\ order = <<>>
  /\ crashes = 0

-----------------------------------------------------------------------------
(* Restate and the surroundings (external).                                *)

Invoke(r) ==
  /\ answered[r] = "none"
  /\ answered' = [answered EXCEPT ![r] = "waiting"]
  /\ inbox' = Append(inbox, r)
  /\ UNCHANGED <<holder, phase, object, workflow, gone, order, crashes>>

Disappear(r) ==
  /\ r \in Fragile \ gone
  /\ gone' = gone \cup {r}
  /\ UNCHANGED <<inbox, holder, phase, object, workflow, answered, order, crashes>>

(* The deployment restarts while main runs: main is replayed. *)
Crash ==
  /\ phase \in {"step", "collect"}
  /\ crashes < MaxCrashes
  /\ crashes' = crashes + 1
  /\ phase' = "main"
  /\ UNCHANGED <<inbox, holder, object, workflow, answered, gone, order>>

-----------------------------------------------------------------------------
(* VerificationScheduler[host].                                            *)

(* The invocation of submit returns, or raises, and gives the object back. *)
Return(value) ==
  /\ answered' = [answered EXCEPT ![holder] = value]
  /\ holder' = NoRun
  /\ phase' = "idle"

Submit ==
  /\ phase = "idle"
  /\ inbox # <<>>
  /\ inbox' = Tail(inbox)
  /\ IF Head(inbox) \in gone
       THEN /\ answered' = [answered EXCEPT ![Head(inbox)] = "error"]
            /\ UNCHANGED <<holder, phase, queue, order>>
       ELSE /\ holder' = Head(inbox)
            /\ phase' = "dispatch"
            /\ queue' = Append(queue, Head(inbox))
            /\ order' = Append(order, Head(inbox))
            /\ UNCHANGED answered
  /\ UNCHANGED <<active, workflow, gone, crashes>>

(* Mutant: an occupied slot is overlooked. *)
FullDispatchRegardless ==
  /\ phase = "dispatch"
  /\ IF queue = <<>>
       THEN Return("QUEUED") /\ UNCHANGED object
       ELSE /\ queue' = Tail(queue)
            /\ active' = Head(queue)
            /\ phase' = "main"
            /\ UNCHANGED <<answered, holder>>
  /\ UNCHANGED <<inbox, workflow, gone, order, crashes>>

(* _full_dispatch: claim the slot for the head and call its main handler. *)
FullDispatch ==
  /\ phase = "dispatch"
  /\ IF active # NoRun \/ queue = <<>>
       THEN Return("QUEUED") /\ UNCHANGED object
       ELSE /\ queue' = Tail(queue)
            /\ active' = Head(queue)
            /\ phase' = "main"
            /\ UNCHANGED <<answered, holder>>
  /\ UNCHANGED <<inbox, workflow, gone, order, crashes>>

(* Mutant: the slot is not given back. *)
ReleaseForgotten ==
  /\ phase = "release"
  /\ phase' = "dispatch"
  /\ UNCHANGED <<inbox, holder, object, workflow, answered, gone, order, crashes>>

(* main returned: release the slot, then admit the next head. *)
Release ==
  /\ phase = "release"
  /\ active' = NoRun
  /\ phase' = "dispatch"
  /\ UNCHANGED <<inbox, holder, queue, workflow, answered, gone, order, crashes>>

-----------------------------------------------------------------------------
(* VerificationRun[run_id]: main.                                          *)

(***************************************************************************)
(* Loading the suite or resolving the worktree raises a TerminalError: it  *)
(* ends main and, through the awaited call, submit.  A replay that departs *)
(* from main's journal, here or in the preflight, is not accepted: Restate *)
(* tries it again.                                                         *)
(***************************************************************************)
MainRaises ==
  /\ phase = "main"
  /\ active \in gone
  /\ run[active] = "none"
  /\ Return("error")
  /\ UNCHANGED <<inbox, object, workflow, gone, order, crashes>>

(* A prerequisite is missing: no step runs. *)
MainBlocked ==
  /\ phase = "main"
  /\ active \in Probed \ gone
  /\ run[active] = "none"
  /\ run' = [run EXCEPT ![active] = "BLOCKED"]
  /\ phase' = "release"
  /\ UNCHANGED <<inbox, holder, object, left, failed, answered, gone, order, crashes>>

(* The prerequisites are there; a replay keeps the step reports it has. *)
MainRuns ==
  /\ phase = "main"
  /\ active \notin gone
  /\ IF run[active] = "none"
       THEN /\ run' = [run EXCEPT ![active] = "RUNNING"]
            /\ left' = Steps /\ failed' = FALSE
       ELSE UNCHANGED workflow
  /\ phase' = "step"
  /\ UNCHANGED <<inbox, holder, object, answered, gone, order, crashes>>

(* One journaled step: its report is good, or it failed or timed out.  A command *)
(* that cannot be started raises inside the step, which Restate tries again.     *)
Step ==
  /\ phase = "step"
  /\ left > 0
  /\ active \notin Broken
  /\ left' = left - 1
  /\ failed' \in {failed, TRUE}
  /\ UNCHANGED <<inbox, holder, phase, object, run, answered, gone, order, crashes>>

(* Mutant: main returns without the terminal state. *)
CollectReturnsEarly ==
  /\ phase = "step"
  /\ left = 0
  /\ run' = [run EXCEPT ![active] = "COLLECTING_RESULT"]
  /\ phase' = "release"
  /\ UNCHANGED <<inbox, holder, object, left, failed, answered, gone, order, crashes>>

Collect ==
  /\ phase = "step"
  /\ left = 0
  /\ run' = [run EXCEPT ![active] = "COLLECTING_RESULT"]
  /\ phase' = "collect"
  /\ UNCHANGED <<inbox, holder, object, left, failed, answered, gone, order, crashes>>

(* summarize, and the terminal report. *)
Summarize ==
  /\ phase = "collect"
  /\ run' = [run EXCEPT ![active] = IF failed THEN "FAIL" ELSE "PASS"]
  /\ phase' = "release"
  /\ UNCHANGED <<inbox, holder, object, left, failed, answered, gone, order, crashes>>

-----------------------------------------------------------------------------
Main == MainRaises \/ MainBlocked \/ MainRuns \/ Step \/ Collect \/ Summarize

Scheduler == Submit \/ FullDispatch \/ Release \/ Main

Next ==
  \/ Scheduler
  \/ Crash
  \/ \E r \in Runs : Invoke(r) \/ Disappear(r)

Spec == Init /\ [][Next]_vars

(* Restate keeps an invocation going until it returns or raises. *)
FairSpec == Spec /\ WF_vars(Scheduler)

-----------------------------------------------------------------------------
Phases == {"idle", "dispatch", "main", "step", "collect", "release"}

(* The inbox, the object's queue and slot, the run workflow and the callers keep *)
(* the shape their code gives them.                                              *)
TypeOK ==
  /\ inbox \in Seq(Runs)
  /\ holder \in Runs \cup {NoRun}
  /\ phase \in Phases
  /\ queue \in Seq(Runs)
  /\ active \in Runs \cup {NoRun}
  /\ run \in [Runs -> {"none"} \cup Executing \cup Terminal]
  /\ left \in 0..Steps
  /\ failed \in BOOLEAN
  /\ answered \in [Runs -> {"none", "waiting", "QUEUED", "error"}]
  /\ gone \subseteq Runs
  /\ order \in Seq(Runs)
  /\ crashes \in 0..MaxCrashes

(***************************************************************************)
(* The core's state.  The core preflights a run before it claims the slot, *)
(* the object claims it before: until main has preflighted the run, the    *)
(* core still has it at the head of its queue.                             *)
(***************************************************************************)
Preflighting == active # NoRun /\ run[active] = "none"

CoreQueue == IF Preflighting THEN <<active>> \o queue ELSE queue

CoreActive ==
  IF active # NoRun /\ run[active] \in Executing THEN active ELSE NoRun

Accepted == {order[i] : i \in 1..Len(order)}

CoreState ==
  [r \in Runs |-> CASE run[r] \in Executing -> "RUNNING"
                    [] run[r] \in Terminal -> run[r]
                    [] OTHER -> IF r \in Accepted THEN "QUEUED" ELSE "none"]

Core == INSTANCE RunScheduler
          WITH Hermetic <- {},
               queue <- CoreQueue, active <- CoreActive, state <- CoreState

(* The object and the workflow implement the core: every step is a step of it *)
(* or leaves its state alone, restarts and vanished suites included.          *)
ImplementsCore == Core!Spec

(* At most one run executes on the host, also after a run was abandoned *)
(* (_full_dispatch).                                                    *)
OneRunExecutes ==
  \A r, s \in Runs : run[r] \in Executing /\ run[s] \in Executing => r = s

(* As long as suites and worktrees stay where they are and no command that      *)
(* cannot start is submitted, every accepted submission is run to the end, in    *)
(* the face of restarts (submit, _full_dispatch, main).                          *)
Undisturbed == [](gone = {}) /\ \A r \in Broken : [](answered[r] = "none")
EverySubmissionEnds ==
  Undisturbed =>
    \A r \in Runs : answered[r] = "waiting" ~> answered[r] = "QUEUED" /\ run[r] \in Terminal
=============================================================================
