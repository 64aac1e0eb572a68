---------------------------- MODULE RunScheduler ----------------------------
(***************************************************************************)
(* The scheduling core of verification/scheduler.py: named suites are      *)
(* submitted, host runs wait in a strict FIFO queue for the one slot,      *)
(* hermetic runs are driven at once.  The core has one thread: every       *)
(* method is one action.  A caller's tick, run and interrupt calls may     *)
(* come in any order.                                                      *)
(***************************************************************************)
EXTENDS Naturals, Sequences

CONSTANTS
  Runs,              \* the submissions, named by their run_id
  NoRun,             \* active when the slot is free
  Hermetic,          \* runs of a HERMETIC suite
  Probed             \* runs of a suite with prereq_probes

ASSUME RunSchedulerAssumption ==
  /\ NoRun \notin Runs
  /\ Hermetic \subseteq Runs
  /\ Probed \subseteq Runs

Terminal == {"PASS", "FAIL", "BLOCKED", "INTERRUPTED"}
RunStates == {"none", "QUEUED", "PREFLIGHT", "RUNNING"} \cup Terminal

VARIABLES
  queue,    \* run ids, oldest first
  active,   \* the run that holds the slot
  state,    \* record.state of each run; "none": not submitted
  order     \* host runs by their submission number

vars == <<queue, active, state, order>>

Init ==
  /\ queue = <<>>
  /\ active = NoRun
  /\ state = [r \in Runs |-> "none"]
  /\ order = <<>>

(***************************************************************************)
(* What preflight does with the suite's probes.  The default one names     *)
(* Path, which the module does not import, so it raises for every suite    *)
(* that declares a probe; the caller's finds them available or not, or a   *)
(* probe of it raises.  Without a probe there is nothing to run.           *)
(***************************************************************************)
Preflight(r) ==
  IF r \in Probed THEN {"raise", "available", "missing"} ELSE {"available"}

(* executor.execute after a preflight that found everything. *)
Execute == {"PASS", "FAIL", "raise"}

(* The states in which _advance can leave a hermetic run: nothing catches a *)
(* preflight or an executor that raises.                                    *)
Advance(r) ==
  UNION {CASE p = "raise" -> {"PREFLIGHT"}
           [] p = "missing" -> {"BLOCKED"}
           [] OTHER -> {IF e = "raise" THEN "RUNNING" ELSE e : e \in Execute}
         : p \in Preflight(r)}

Submit(r) ==
  /\ state[r] = "none"
  /\ IF r \in Hermetic
       THEN /\ \E s \in Advance(r) : state' = [state EXCEPT ![r] = s]
            /\ UNCHANGED <<queue, order>>
       ELSE /\ queue' = Append(queue, r)
            /\ order' = Append(order, r)
            /\ state' = [state EXCEPT ![r] = "QUEUED"]
  /\ UNCHANGED active

(* Mutants: the newest run is admitted first; a held slot does not stop tick. *)
TickNewest ==
  /\ active = NoRun
  /\ queue # <<>>
  /\ queue' = SubSeq(queue, 1, Len(queue) - 1)
  /\ active' = queue[Len(queue)]
  /\ state' = [state EXCEPT ![queue[Len(queue)]] = "RUNNING"]
  /\ UNCHANGED order

TickRegardless ==
  /\ queue # <<>>
  /\ queue' = Tail(queue)
  /\ active' = Head(queue)
  /\ state' = [state EXCEPT ![Head(queue)] = "RUNNING"]
  /\ UNCHANGED order

(* Admit the queue's head, or close it as BLOCKED.  It leaves the queue before *)
(* its preflight: one that raises leaves the run in PREFLIGHT for good.        *)
Tick ==
  /\ active = NoRun
  /\ queue # <<>>
  /\ queue' = Tail(queue)
  /\ \E p \in Preflight(Head(queue)) :
       /\ state' = [state EXCEPT ![Head(queue)] =
                      CASE p = "raise" -> "PREFLIGHT"
                        [] p = "missing" -> "BLOCKED"
                        [] OTHER -> "RUNNING"]
       /\ active' = IF p = "available" THEN Head(queue) ELSE NoRun
  /\ UNCHANGED order

(* Execute the admitted run; an executor that raises is a FAIL. *)
Run(r) ==
  /\ active = r
  /\ \E e \in Execute : state' = [state EXCEPT ![r] = IF e = "raise" THEN "FAIL" ELSE e]
  /\ active' = NoRun
  /\ UNCHANGED <<queue, order>>

Interrupt(r) ==
  /\ active = r
  /\ state' = [state EXCEPT ![r] = "INTERRUPTED"]
  /\ active' = NoRun
  /\ UNCHANGED <<queue, order>>

Next == Tick \/ \E r \in Runs : Submit(r) \/ Run(r) \/ Interrupt(r)

Spec == Init /\ [][Next]_vars

-----------------------------------------------------------------------------
(* The queue, the slot and the records keep the shape Scheduler gives them. *)
TypeOK ==
  /\ queue \in Seq(Runs)
  /\ active \in Runs \cup {NoRun}
  /\ state \in [Runs -> RunStates]
  /\ order \in Seq(Runs)

(* Strict FIFO: while an earlier host submission waits, no later one has been *)
(* taken off the queue (submit, tick).                                        *)
StrictFIFO ==
  \A i, j \in 1..Len(order) :
    i < j /\ state[order[i]] = "QUEUED" => state[order[j]] = "QUEUED"

(* One host run at a time, and the slot is free after every terminal state: *)
(* exactly the run that holds the slot is RUNNING (tick, run, interrupt).   *)
SlotIsTheRunningRun ==
  \A r \in Runs \ Hermetic : state[r] = "RUNNING" <=> active = r

(* A terminal state is never left (run, interrupt). *)
TerminalIsFinal ==
  [][\A r \in Runs : state[r] \in Terminal => state'[r] = state[r]]_vars

(* A host run that was accepted is waiting, holds the slot or has ended.  The *)
(* only run that can be lost is one whose own preflight raised: tick has taken *)
(* it off the queue by then, and it stays in PREFLIGHT while the runs behind   *)
(* it go on (submit, tick, run, interrupt).                                    *)
NoRunLost ==
  \A i \in 1..Len(order) :
    \/ \E k \in 1..Len(queue) : queue[k] = order[i]
    \/ active = order[i]
    \/ state[order[i]] \in Terminal
    \/ order[i] \in Probed /\ state[order[i]] = "PREFLIGHT"
=============================================================================
