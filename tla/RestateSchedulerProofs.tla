----------------------- MODULE RestateSchedulerProofs -----------------------
(***************************************************************************)
(* The durable scheduler implements the core: for any set of submissions,  *)
(* any number of steps and restarts, and whatever disappears.              *)
(***************************************************************************)
EXTENDS RestateScheduler, TLAPS

(* Where the invocation stands and what its run has recorded. *)
PhaseInv ==
  /\ phase \in {"main", "step", "collect", "release"} => active \in Runs
  /\ phase \in {"idle", "dispatch"} /\ active # NoRun => run[active] = "none"
  /\ phase = "main" => run[active] \in {"none"} \cup Executing
  /\ phase \in {"step", "collect"} => run[active] \in Executing
  /\ phase = "release" => run[active] \in Terminal

(* Submissions wait in the inbox, then in the queue, then hold the slot; each is *)
(* in one place, and only the slot's run executes.                               *)
PlaceInv ==
  /\ \A r \in Runs : run[r] \in Executing => active = r
  /\ \A r \in Runs : run[r] # "none" => r \in Accepted
  /\ active # NoRun => active \in Accepted
  /\ \A k \in 1..Len(queue) :
       /\ queue[k] \in Accepted /\ queue[k] # active /\ run[queue[k]] = "none"
  /\ \A j, k \in 1..Len(queue) : queue[j] = queue[k] => j = k
  /\ \A k \in 1..Len(inbox) :
       inbox[k] \notin Accepted /\ answered[inbox[k]] = "waiting"
  /\ \A j, k \in 1..Len(inbox) : inbox[j] = inbox[k] => j = k
  /\ \A r \in Accepted : answered[r] # "none"
  /\ Accepted \subseteq Runs
  /\ phase # "idle" => holder \in Accepted

SchedulerInv == TypeOK /\ PhaseInv /\ PlaceInv

(* The empty scheduler satisfies the invariant. *)
LEMMA InitScheduler == Init => SchedulerInv
<1> SUFFICES ASSUME Init PROVE SchedulerInv
  OBVIOUS
<1> USE RestateSchedulerAssumption DEF Init
<1>1. TypeOK
  <2>1. failed \in BOOLEAN
    BY Zenon
  <2>2. left \in 0..Steps /\ crashes \in 0..MaxCrashes
    OBVIOUS
  <2> QED
    BY <2>1, <2>2 DEF TypeOK, Phases
<1>2. Accepted = {} /\ Len(queue) = 0 /\ Len(inbox) = 0
  BY DEF Accepted
<1>3. PhaseInv
  BY DEF PhaseInv
<1>4. PlaceInv
  BY <1>2 DEF PlaceInv, Executing
<1> QED
  BY <1>1, <1>3, <1>4 DEF SchedulerInv

(* Taking the head of a queue of distinct runs. *)
LEMMA HeadTail ==
  ASSUME NEW q \in Seq(Runs), q # <<>>
  PROVE  /\ Head(q) \in Runs /\ Tail(q) \in Seq(Runs)
         /\ Len(q) \in Nat \ {0} /\ Len(Tail(q)) = Len(q) - 1
         /\ Head(q) = q[1] /\ 1 \in 1..Len(q)
         /\ \A k \in 1..Len(Tail(q)) : Tail(q)[k] = q[k + 1] /\ k + 1 \in 1..Len(q)
OBVIOUS

(* The accepted runs are those of the submission order. *)
LEMMA AcceptedKept == ASSUME UNCHANGED order PROVE Accepted' = Accepted
BY DEF Accepted

(* A submission adds its run to the accepted ones. *)
LEMMA AcceptedGrows ==
  ASSUME TypeOK, NEW r \in Runs, order' = Append(order, r)
  PROVE  Accepted' = Accepted \cup {r}
<1>1. order \in Seq(Runs) /\ Len(order) \in Nat
  BY DEF TypeOK
<1>2. Len(order') = Len(order) + 1
  BY <1>1
<1>3. \A k \in 1..Len(order) : order'[k] = order[k] /\ k \in 1..Len(order')
  BY <1>1, <1>2
<1>4. order'[Len(order) + 1] = r /\ Len(order) + 1 \in 1..Len(order')
  BY <1>1, <1>2
<1>5. \A k \in 1..Len(order') : k \in 1..Len(order) \/ k = Len(order) + 1
  BY <1>1, <1>2
<1> QED
  BY <1>3, <1>4, <1>5 DEF Accepted

(* A new invocation waits in the inbox. *)
LEMMA InvokeKeeps ==
  ASSUME SchedulerInv, NEW r \in Runs, Invoke(r)
  PROVE  SchedulerInv'
<1> USE RestateSchedulerAssumption DEF SchedulerInv
<1>1. /\ answered[r] = "none" /\ answered' = [answered EXCEPT ![r] = "waiting"]
      /\ inbox' = Append(inbox, r)
      /\ UNCHANGED <<holder, phase, queue, active, run, left, failed, gone, order, crashes>>
  BY DEF Invoke, object, workflow
<1>2. Accepted' = Accepted
  BY <1>1, AcceptedKept
<1>3. TypeOK'
  BY <1>1 DEF TypeOK
<1>4. PhaseInv'
  BY <1>1 DEF PhaseInv
<1>5. r \notin Accepted /\ \A k \in 1..Len(inbox) : inbox[k] # r /\ inbox[k] \in Runs
  BY <1>1 DEF PlaceInv, TypeOK
<1>6. \A k \in 1..Len(inbox') : \/ k \in 1..Len(inbox) /\ inbox'[k] = inbox[k]
                                \/ k = Len(inbox) + 1 /\ inbox'[k] = r
  <2>1. inbox \in Seq(Runs) /\ Len(inbox) \in Nat /\ Len(inbox') = Len(inbox) + 1
    BY <1>1 DEF TypeOK
  <2>2. \A k \in 1..Len(inbox) : inbox'[k] = inbox[k]
    BY <1>1, <2>1
  <2>3. inbox'[Len(inbox) + 1] = r
    BY <1>1, <2>1
  <2>4. \A k \in 1..Len(inbox') : k \in 1..Len(inbox) \/ k = Len(inbox) + 1
    BY <2>1
  <2> QED
    BY <2>2, <2>3, <2>4
<1>7. \A q \in Runs : answered'[q] = IF q = r THEN "waiting" ELSE answered[q]
  BY <1>1 DEF TypeOK
<1>8. /\ \A k \in 1..Len(inbox') :
            inbox'[k] \notin Accepted' /\ answered'[inbox'[k]] = "waiting"
      /\ \A j, k \in 1..Len(inbox') : inbox'[j] = inbox'[k] => j = k
  BY <1>2, <1>5, <1>6, <1>7 DEF PlaceInv
<1>9. PlaceInv'
  BY <1>1, <1>2, <1>7, <1>8 DEF PlaceInv
<1> QED
  BY <1>3, <1>4, <1>9

(* submit moves the head of the inbox to the end of the queue. *)
LEMMA SubmitKeeps ==
  ASSUME SchedulerInv, Submit
  PROVE  SchedulerInv'
<1> USE RestateSchedulerAssumption DEF SchedulerInv
<1> DEFINE r == Head(inbox)
<1>1. /\ phase = "idle" /\ inbox # <<>> /\ inbox' = Tail(inbox)
      /\ UNCHANGED <<active, run, left, failed, gone, crashes>>
  BY DEF Submit, workflow
<1>2. /\ r \in Runs /\ r = inbox[1] /\ 1 \in 1..Len(inbox)
      /\ Len(inbox) \in Nat
      /\ inbox' \in Seq(Runs)
      /\ \A k \in 1..Len(inbox') : inbox'[k] = inbox[k + 1] /\ k + 1 \in 1..Len(inbox)
                                  /\ inbox'[k] \in Runs
  BY <1>1, HeadTail DEF TypeOK
<1>3. r \notin Accepted /\ \A k \in 1..Len(inbox') : inbox'[k] # r
  <2>1. r \notin Accepted
    BY <1>2 DEF PlaceInv
  <2>2. \A k \in 1..Len(inbox') : k + 1 # 1
    OBVIOUS
  <2> QED
    BY <1>2, <2>1, <2>2 DEF PlaceInv
<1>4. \A j, k \in 1..Len(inbox') : inbox'[j] = inbox'[k] => j = k
  BY <1>2 DEF PlaceInv
<1>5. CASE r \in gone
  <2>1. answered' = [answered EXCEPT ![r] = "error"] /\ UNCHANGED <<holder, phase, queue, order>>
    BY <1>5 DEF Submit
  <2>2. Accepted' = Accepted
    BY <2>1, AcceptedKept
  <2>3. TypeOK' /\ PhaseInv'
    BY <1>1, <1>2, <2>1 DEF TypeOK, PhaseInv
  <2>4. \A q \in Runs : answered'[q] = IF q = r THEN "error" ELSE answered[q]
    BY <2>1 DEF TypeOK
  <2>5. \A k \in 1..Len(inbox') :
          inbox'[k] \notin Accepted' /\ answered'[inbox'[k]] = "waiting"
    BY <1>2, <1>3, <2>2, <2>4 DEF PlaceInv
  <2> QED
    BY <1>1, <1>4, <2>1, <2>2, <2>3, <2>4, <2>5 DEF PlaceInv
<1>6. CASE r \notin gone
  <2>1. /\ holder' = r /\ phase' = "dispatch" /\ UNCHANGED answered
        /\ queue' = Append(queue, r) /\ order' = Append(order, r)
    BY <1>6 DEF Submit
  <2>2. Accepted' = Accepted \cup {r}
    BY <1>2, <2>1, AcceptedGrows
  <2>3. TypeOK' /\ PhaseInv'
    BY <1>1, <1>2, <2>1 DEF TypeOK, PhaseInv, Phases
  <2>4. /\ run[r] = "none" /\ r # active
        /\ \A k \in 1..Len(queue) : queue[k] # r
    BY <1>2, <1>3 DEF PlaceInv
  <2>5. \A k \in 1..Len(queue') : \/ k \in 1..Len(queue) /\ queue'[k] = queue[k]
                                  \/ k = Len(queue) + 1 /\ queue'[k] = r
    <3>1. queue \in Seq(Runs) /\ Len(queue) \in Nat /\ Len(queue') = Len(queue) + 1
      BY <2>1 DEF TypeOK
    <3>2. \A k \in 1..Len(queue) : queue'[k] = queue[k]
      BY <1>2, <2>1, <3>1
    <3>3. queue'[Len(queue) + 1] = r
      BY <1>2, <2>1, <3>1
    <3>4. \A k \in 1..Len(queue') : k \in 1..Len(queue) \/ k = Len(queue) + 1
      BY <3>1
    <3> QED
      BY <3>2, <3>3, <3>4
  <2>6. /\ \A k \in 1..Len(queue') :
              queue'[k] \in Accepted' /\ queue'[k] # active' /\ run'[queue'[k]] = "none"
        /\ \A j, k \in 1..Len(queue') : queue'[j] = queue'[k] => j = k
    BY <1>1, <2>2, <2>4, <2>5 DEF PlaceInv
  <2>7. \A k \in 1..Len(inbox') :
          inbox'[k] \notin Accepted' /\ answered'[inbox'[k]] = "waiting"
    BY <1>2, <1>3, <2>1, <2>2 DEF PlaceInv
  <2>8. \A q \in Accepted' : answered'[q] # "none"
    BY <1>2, <2>1, <2>2 DEF PlaceInv
  <2> QED
    BY <1>1, <1>2, <1>4, <2>1, <2>2, <2>3, <2>6, <2>7, <2>8 DEF PlaceInv
<1> QED
  BY <1>5, <1>6

(* The invocation answers and gives the object back. *)
LEMMA ReturnKeeps ==
  ASSUME SchedulerInv, NEW value \in {"QUEUED", "error"}, Return(value),
         phase \in {"dispatch", "main"}, active # NoRun => run[active] = "none",
         UNCHANGED <<inbox, object, workflow, gone, order, crashes>>
  PROVE  SchedulerInv'
<1> USE DEF SchedulerInv
<1>1. /\ answered' = [answered EXCEPT ![holder] = value]
      /\ holder' = NoRun /\ phase' = "idle"
      /\ UNCHANGED <<inbox, queue, active, run, left, failed, gone, order, crashes>>
  BY DEF Return, object, workflow
<1>2. Accepted' = Accepted
  BY <1>1, AcceptedKept
<1>3. TypeOK'
  BY <1>1 DEF TypeOK, Phases
<1>4. PhaseInv'
  BY <1>1 DEF PhaseInv
<1>5. \A q \in Runs : answered'[q] = IF q = holder THEN value ELSE answered[q]
  BY <1>1 DEF TypeOK
<1>6. \A k \in 1..Len(inbox) : inbox[k] # holder /\ inbox[k] \in Runs
  BY DEF PlaceInv, TypeOK
<1>7. PlaceInv'
  <2>1. \A k \in 1..Len(inbox') :
          inbox'[k] \notin Accepted' /\ answered'[inbox'[k]] = "waiting"
    BY <1>1, <1>2, <1>5, <1>6 DEF PlaceInv
  <2>2. \A q \in Accepted' : answered'[q] # "none"
    BY <1>2, <1>5 DEF PlaceInv
  <2> QED
    BY <1>1, <1>2, <2>1, <2>2 DEF PlaceInv
<1> QED
  BY <1>3, <1>4, <1>7

(* _full_dispatch takes the head of the queue into the slot, or leaves a held slot. *)
LEMMA FullDispatchKeeps ==
  ASSUME SchedulerInv, FullDispatch
  PROVE  SchedulerInv'
<1> USE RestateSchedulerAssumption DEF SchedulerInv
<1>1. phase = "dispatch" /\ UNCHANGED <<inbox, workflow, gone, order, crashes>>
  BY DEF FullDispatch
<1>2. CASE active # NoRun \/ queue = <<>>
  <2>1. Return("QUEUED") /\ UNCHANGED object
    BY <1>2 DEF FullDispatch
  <2>2. active # NoRun => run[active] = "none"
    BY <1>1 DEF PhaseInv
  <2> QED
    BY <1>1, <2>1, <2>2, ReturnKeeps
<1>3. CASE active = NoRun /\ queue # <<>>
  <2>1. /\ queue' = Tail(queue) /\ active' = Head(queue) /\ phase' = "main"
        /\ UNCHANGED <<inbox, holder, run, left, failed, answered, gone, order, crashes>>
    BY <1>1, <1>3 DEF FullDispatch, workflow
  <2>2. /\ Head(queue) \in Runs /\ queue' \in Seq(Runs)
        /\ Head(queue) = queue[1] /\ 1 \in 1..Len(queue)
        /\ Len(queue) \in Nat
        /\ \A k \in 1..Len(queue') : queue'[k] = queue[k + 1] /\ k + 1 \in 1..Len(queue)
    BY <1>3, <2>1, HeadTail DEF TypeOK
  <2>3. Accepted' = Accepted
    BY <2>1, AcceptedKept
  <2>4. TypeOK'
    BY <2>1, <2>2 DEF TypeOK, Phases
  <2>5. run[Head(queue)] = "none" /\ Head(queue) \in Accepted
    BY <2>2 DEF PlaceInv
  <2>6. PhaseInv'
    BY <2>1, <2>2, <2>5 DEF PhaseInv
  <2>7. /\ \A k \in 1..Len(queue') :
              queue'[k] \in Accepted' /\ queue'[k] # active' /\ run'[queue'[k]] = "none"
        /\ \A j, k \in 1..Len(queue') : queue'[j] = queue'[k] => j = k
    BY <2>1, <2>2, <2>3 DEF PlaceInv
  <2>8. \A q \in Runs : run'[q] \notin Executing
    BY <1>3, <2>1 DEF PlaceInv
  <2> QED
    BY <1>1, <2>1, <2>3, <2>4, <2>5, <2>6, <2>7, <2>8 DEF PlaceInv
<1> QED
  BY <1>2, <1>3

(* main moves its run's recorded state; the queue and the slot stay. *)
LEMMA MainKeeps ==
  ASSUME SchedulerInv, active \in Runs, phase \in {"main", "step", "collect"},
         NEW s \in Executing \cup Terminal, run' = [run EXCEPT ![active] = s],
         s \in Executing => phase' \in {"step", "collect"},
         s \in Terminal => phase' = "release",
         left' \in 0..Steps, failed' \in BOOLEAN,
         UNCHANGED <<inbox, holder, queue, active, answered, gone, order, crashes>>
  PROVE  SchedulerInv'
<1> USE DEF SchedulerInv
<1>1. Accepted' = Accepted
  BY AcceptedKept
<1>2. \A q \in Runs : run'[q] = IF q = active THEN s ELSE run[q]
  BY DEF TypeOK
<1>3. TypeOK'
  BY DEF TypeOK, Phases
<1>4. RestateSchedulerAssumption!1 /\ phase' \in {"step", "collect", "release"}
  BY RestateSchedulerAssumption
<1>5. PhaseInv'
  BY <1>2, <1>4 DEF PhaseInv, Executing, Terminal
<1>6. active \in Accepted
  BY <1>4 DEF PlaceInv
<1>7. \A k \in 1..Len(queue) : queue[k] \in Runs
  BY DEF TypeOK
<1>8. PlaceInv'
  BY <1>1, <1>2, <1>6, <1>7 DEF PlaceInv
<1> QED
  BY <1>3, <1>5, <1>8

(* What main does, and what it leaves alone. *)
LEMMA MainSteps ==
  ASSUME SchedulerInv, MainBlocked \/ MainRuns \/ Step \/ Collect \/ Summarize
  PROVE  /\ active \in Runs /\ run \in [Runs -> {"none"} \cup Executing \cup Terminal]
         /\ phase \in {"main", "step", "collect"}
         /\ UNCHANGED <<inbox, holder, queue, active, answered, gone, order, crashes>>
         /\ left' \in 0..Steps /\ failed' \in BOOLEAN
         /\ \E s \in Executing \cup Terminal :
              /\ run' = [run EXCEPT ![active] = s]
              /\ s \in Executing => phase' \in {"step", "collect"}
              /\ s \in Terminal => phase' = "release"
<1> USE RestateSchedulerAssumption
    DEF SchedulerInv, object, workflow, Executing, Terminal
<1>1. /\ run \in [Runs -> {"none"} \cup Executing \cup Terminal]
      /\ left \in 0..Steps /\ failed \in BOOLEAN /\ Steps \in Nat
  BY DEF TypeOK
<1>2. CASE MainBlocked
  BY <1>1, <1>2 DEF MainBlocked, PhaseInv
<1>3. CASE MainRuns
  <2>1. active \in Runs /\ run[active] \in {"none"} \cup Executing
    BY <1>3 DEF MainRuns, PhaseInv
  <2>2. CASE run[active] = "none"
    <3>1. run' = [run EXCEPT ![active] = "RUNNING"] /\ left' = Steps /\ failed' = FALSE
      BY <1>3, <2>2 DEF MainRuns
    <3>2. left' \in 0..Steps
      BY <1>1, <3>1
    <3>3. failed' \in BOOLEAN
      BY <3>1, Zenon
    <3> QED
      BY <1>1, <1>3, <2>1, <3>1, <3>2, <3>3 DEF MainRuns
  <2>3. CASE run[active] \in Executing
    <3>1. run' = run /\ left' = left /\ failed' = failed
      BY <1>3, <2>3 DEF MainRuns
    <3>2. run' = [run EXCEPT ![active] = run[active]]
      BY <1>1, <2>1, <3>1
    <3> QED
      BY <1>1, <1>3, <2>1, <2>3, <3>1, <3>2 DEF MainRuns
  <2> QED
    BY <2>1, <2>2, <2>3
<1>4. CASE Step
  <2>1. active \in Runs /\ run[active] \in Executing /\ run' = run
    BY <1>4 DEF Step, PhaseInv
  <2>2. run' = [run EXCEPT ![active] = run[active]]
    BY <1>1, <2>1
  <2>3. left' \in 0..Steps
    BY <1>1, <1>4 DEF Step
  <2>4. failed' \in BOOLEAN
    BY <1>1, <1>4, Zenon DEF Step
  <2> QED
    BY <1>1, <1>4, <2>1, <2>2, <2>3, <2>4 DEF Step
<1>5. CASE Collect
  BY <1>1, <1>5 DEF Collect, PhaseInv
<1>6. CASE Summarize
  BY <1>1, <1>6 DEF Summarize, PhaseInv
<1> QED
  BY <1>2, <1>3, <1>4, <1>5, <1>6

(* The release frees the slot of a run that has ended. *)
LEMMA ReleaseKeeps ==
  ASSUME SchedulerInv, Release
  PROVE  SchedulerInv'
<1> USE RestateSchedulerAssumption DEF SchedulerInv
<1>1. /\ phase = "release" /\ active' = NoRun /\ phase' = "dispatch"
      /\ UNCHANGED <<inbox, holder, queue, run, left, failed, answered, gone, order, crashes>>
  BY DEF Release, workflow
<1>2. Accepted' = Accepted
  BY <1>1, AcceptedKept
<1>3. TypeOK' /\ PhaseInv'
  BY <1>1 DEF TypeOK, PhaseInv, Phases
<1>4. \A q \in Runs : run[q] \notin Executing
  BY <1>1 DEF PlaceInv, PhaseInv, Executing, Terminal
<1>5. \A k \in 1..Len(queue) : queue[k] \in Runs
  BY DEF TypeOK
<1> QED
  BY <1>1, <1>2, <1>3, <1>4, <1>5 DEF PlaceInv

(* Every step keeps the invariant. *)
LEMMA SchedulerStep == SchedulerInv /\ [Next]_vars => SchedulerInv'
<1> SUFFICES ASSUME SchedulerInv, [Next]_vars PROVE SchedulerInv'
  OBVIOUS
<1>1. CASE MainRaises
  <2>1. active # NoRun => run[active] = "none"
    BY <1>1 DEF MainRaises
  <2> QED
    BY <1>1, <2>1, ReturnKeeps DEF MainRaises
<1>2. CASE MainBlocked \/ MainRuns \/ Step \/ Collect \/ Summarize
  BY <1>2, MainSteps, MainKeeps
<1>3. ASSUME NEW r \in Runs, Disappear(r) PROVE SchedulerInv'
  BY <1>3 DEF Disappear, SchedulerInv, TypeOK, PhaseInv, PlaceInv, Accepted, object, workflow
<1>4. CASE Crash
  <2>1. /\ phase \in {"step", "collect"} /\ phase' = "main"
        /\ crashes < MaxCrashes /\ crashes' = crashes + 1
        /\ UNCHANGED <<inbox, holder, queue, active, run, left, failed, answered, gone, order>>
    BY <1>4 DEF Crash, object, workflow
  <2>2. TypeOK' /\ PhaseInv'
    BY <2>1, RestateSchedulerAssumption DEF SchedulerInv, TypeOK, PhaseInv, Phases
  <2> QED
    BY <2>1, <2>2, AcceptedKept DEF SchedulerInv, PlaceInv
<1>5. CASE UNCHANGED vars
  BY <1>5 DEF vars, SchedulerInv, TypeOK, PhaseInv, PlaceInv, Accepted, object, workflow
<1> QED
  BY <1>1, <1>2, <1>3, <1>4, <1>5, InvokeKeeps, SubmitKeeps, FullDispatchKeeps, ReleaseKeeps
     DEF Next, Scheduler, Main

(* Where each submission is, in the inbox, the queue or the slot, and what its run *)
(* has recorded stay consistent (submit, _full_dispatch, main).                    *)
THEOREM SchedulerInvariance == Spec => []SchedulerInv
<1> QED
  BY InitScheduler, SchedulerStep, PTL DEF Spec

(* At most one run executes on the host, also when a run was abandoned with the *)
(* slot still taken (_full_dispatch).                                           *)
THEOREM OneRun == Spec => []OneRunExecutes
<1>1. SchedulerInv => OneRunExecutes
  BY DEF SchedulerInv, PlaceInv, OneRunExecutes
<1> QED
  BY <1>1, SchedulerInvariance, PTL

-----------------------------------------------------------------------------
(* The refinement.                                                         *)

(* The core sees nothing of a step that keeps the queue, the slot, the order and *)
(* the core's view of each run.                                                  *)
LEMMA Unseen ==
  ASSUME UNCHANGED <<queue, active, run, order>>
  PROVE  UNCHANGED <<CoreQueue, CoreActive, CoreState, order>>
<1>1. Accepted' = Accepted
  BY AcceptedKept
<1>2. CoreState' = CoreState
  BY <1>1 DEF CoreState
<1>3. CoreQueue' = CoreQueue /\ CoreActive' = CoreActive
  BY DEF CoreQueue, CoreActive, Preflighting
<1> QED
  BY <1>2, <1>3

(* Accepting a submission is the core's Submit. *)
LEMMA SubmitRefines ==
  ASSUME SchedulerInv, Submit, Head(inbox) \notin gone
  PROVE  Head(inbox) \in Runs /\ Core!Submit(Head(inbox))
<1> USE RestateSchedulerAssumption DEF SchedulerInv
<1> DEFINE r == Head(inbox)
<1>1. /\ phase = "idle" /\ inbox # <<>>
      /\ queue' = Append(queue, r) /\ order' = Append(order, r)
      /\ UNCHANGED <<active, run>>
  BY DEF Submit, workflow
<1>2. r \in Runs /\ r \notin Accepted
  <2>1. r \in Runs /\ r = inbox[1] /\ 1 \in 1..Len(inbox)
    BY <1>1, HeadTail DEF TypeOK
  <2> QED
    BY <2>1 DEF PlaceInv
<1>3. Accepted' = Accepted \cup {r}
  BY <1>1, <1>2, AcceptedGrows
<1>4. run[r] = "none"
  BY <1>2 DEF PlaceInv
<1>5. CoreState[r] = "none"
  BY <1>2, <1>4 DEF CoreState, Executing, Terminal
<1>6. CoreState' = [CoreState EXCEPT ![r] = "QUEUED"]
  BY <1>1, <1>2, <1>3, <1>4 DEF CoreState, Executing, Terminal
<1>7. CoreActive' = CoreActive
  BY <1>1 DEF CoreActive
<1>8. CoreQueue' = Append(CoreQueue, r)
  <2>1. CASE Preflighting
    <3>1. active \in Runs /\ queue \in Seq(Runs) /\ Preflighting'
      BY <1>1, <2>1 DEF TypeOK, Preflighting
    <3>2. <<active>> \o Append(queue, r) = Append(<<active>> \o queue, r)
      BY <1>2, <3>1
    <3> QED
      BY <1>1, <2>1, <3>1, <3>2 DEF CoreQueue
  <2>2. CASE ~Preflighting
    BY <1>1, <2>2 DEF CoreQueue, Preflighting
  <2> QED
    BY <2>1, <2>2
<1> QED
  BY <1>1, <1>2, <1>5, <1>6, <1>7, <1>8 DEF Core!Submit

(* Claiming the slot, or giving it back, is invisible to the core. *)
LEMMA DispatchUnseen ==
  ASSUME SchedulerInv, FullDispatch \/ Release
  PROVE  UNCHANGED <<CoreQueue, CoreActive, CoreState, order>>
<1> USE RestateSchedulerAssumption DEF SchedulerInv
<1>1. UNCHANGED <<run, order>>
  BY DEF FullDispatch, Release, workflow
<1>2. CoreState' = CoreState
  BY <1>1, AcceptedKept DEF CoreState
<1>3. CASE FullDispatch /\ (active # NoRun \/ queue = <<>>)
  BY <1>1, <1>3, Unseen DEF FullDispatch, object
<1>4. CASE FullDispatch /\ active = NoRun /\ queue # <<>>
  <2>1. queue' = Tail(queue) /\ active' = Head(queue)
    BY <1>4 DEF FullDispatch
  <2>2. Head(queue) \in Runs /\ Head(queue) = queue[1] /\ 1 \in 1..Len(queue)
    BY <1>4, HeadTail DEF TypeOK
  <2>3. run[Head(queue)] = "none" /\ Head(queue) # NoRun
    BY <2>2 DEF PlaceInv
  <2>4. Preflighting' /\ ~Preflighting
    BY <1>1, <1>4, <2>1, <2>3 DEF Preflighting
  <2>5. <<Head(queue)>> \o Tail(queue) = queue
    BY <1>4 DEF TypeOK
  <2>6. CoreQueue' = CoreQueue
    BY <2>1, <2>4, <2>5 DEF CoreQueue
  <2>7. CoreActive' = NoRun /\ CoreActive = NoRun
    BY <1>1, <1>4, <2>1, <2>3 DEF CoreActive, Executing
  <2> QED
    BY <1>1, <1>2, <2>6, <2>7
<1>5. CASE Release
  <2>1. active' = NoRun /\ queue' = queue /\ run[active] \in Terminal
    BY <1>5 DEF Release, PhaseInv
  <2>2. ~Preflighting /\ ~Preflighting'
    BY <2>1 DEF Preflighting, Terminal
  <2>3. CoreActive' = NoRun /\ CoreActive = NoRun
    BY <2>1 DEF CoreActive, Executing, Terminal
  <2> QED
    BY <1>1, <1>2, <2>1, <2>2, <2>3 DEF CoreQueue
<1> QED
  BY <1>3, <1>4, <1>5

(* What the core sees when main moves its run's state. *)
LEMMA MainView ==
  ASSUME SchedulerInv, active \in Runs, NEW s \in Executing \cup Terminal,
         run' = [run EXCEPT ![active] = s], UNCHANGED <<queue, active, order>>
  PROVE  /\ CoreQueue' = queue
         /\ CoreActive' = IF s \in Executing THEN active ELSE NoRun
         /\ CoreState' = [CoreState EXCEPT ![active] = IF s \in Executing THEN "RUNNING" ELSE s]
<1> USE RestateSchedulerAssumption DEF SchedulerInv
<1>1. \A q \in Runs : run'[q] = IF q = active THEN s ELSE run[q]
  BY DEF TypeOK
<1>2. s # "none" /\ (s \in Terminal => s \notin Executing)
  BY DEF Executing, Terminal
<1>3. Accepted' = Accepted
  BY AcceptedKept
<1>4. CoreQueue' = queue
  BY <1>1, <1>2 DEF CoreQueue, Preflighting
<1>5. CoreActive' = IF s \in Executing THEN active ELSE NoRun
  BY <1>1 DEF CoreActive
<1>6. CoreState' = [CoreState EXCEPT ![active] = IF s \in Executing THEN "RUNNING" ELSE s]
  <2> DEFINE view(t) == IF t \in Executing THEN "RUNNING" ELSE t
  <2>1. \A q \in Runs : CoreState'[q] = IF q = active THEN view(s) ELSE CoreState[q]
    BY <1>1, <1>2, <1>3 DEF CoreState
  <2>2. CoreState = [q \in Runs |-> CoreState[q]] /\ CoreState' = [q \in Runs |-> CoreState'[q]]
    BY DEF CoreState
  <2> QED
    BY <2>1, <2>2
<1> QED
  BY <1>4, <1>5, <1>6

(* The preflight of main is the core's tick. *)
LEMMA PreflightRefines ==
  ASSUME SchedulerInv, active \in Runs, run[active] = "none",
         \/ run' = [run EXCEPT ![active] = "RUNNING"]
         \/ run' = [run EXCEPT ![active] = "BLOCKED"] /\ active \in Probed,
         UNCHANGED <<queue, active, order>>
  PROVE  Core!Tick
<1> USE RestateSchedulerAssumption DEF SchedulerInv
<1>1. /\ Preflighting /\ CoreQueue = <<active>> \o queue /\ CoreActive = NoRun
  BY DEF Preflighting, CoreQueue, CoreActive, Executing
<1>2. CoreQueue # <<>> /\ Head(CoreQueue) = active /\ Tail(CoreQueue) = queue
  BY <1>1 DEF TypeOK
<1>3. CASE run' = [run EXCEPT ![active] = "RUNNING"]
  <2>1. /\ CoreQueue' = queue /\ CoreActive' = active
        /\ CoreState' = [CoreState EXCEPT ![active] = "RUNNING"]
    BY <1>3, MainView DEF Executing
  <2>2. "available" \in Core!Preflight(active)
    BY DEF Core!Preflight
  <2> QED
    BY <1>1, <1>2, <2>1, <2>2 DEF Core!Tick
<1>4. CASE run' = [run EXCEPT ![active] = "BLOCKED"] /\ active \in Probed
  <2>1. /\ CoreQueue' = queue /\ CoreActive' = NoRun
        /\ CoreState' = [CoreState EXCEPT ![active] = "BLOCKED"]
    BY <1>4, MainView DEF Executing, Terminal
  <2>2. "missing" \in Core!Preflight(active)
    BY <1>4 DEF Core!Preflight
  <2>3. "BLOCKED" = CASE "missing" = "raise" -> "PREFLIGHT"
                      [] "missing" = "missing" -> "BLOCKED"
                      [] OTHER -> "RUNNING"
    OBVIOUS
  <2>4. NoRun = IF "missing" = "available" THEN active ELSE NoRun
    OBVIOUS
  <2> QED
    BY <1>1, <1>2, <2>1, <2>2, <2>3, <2>4 DEF Core!Tick
<1> QED
  BY <1>3, <1>4

(* A step of main is a step of the core or leaves its state alone. *)
LEMMA MainRefines ==
  ASSUME SchedulerInv, MainBlocked \/ MainRuns \/ Step \/ Collect \/ Summarize
  PROVE  [Core!Next]_(Core!vars)
<1> USE RestateSchedulerAssumption DEF SchedulerInv
<1>1. active \in Runs /\ UNCHANGED <<queue, active, order>>
  BY MainSteps
<1>2. CASE MainBlocked
  BY <1>1, <1>2, PreflightRefines DEF MainBlocked, Core!Next
<1>3. CASE MainRuns /\ run[active] = "none"
  BY <1>1, <1>3, PreflightRefines DEF MainRuns, Core!Next
<1>4. CASE (MainRuns /\ run[active] # "none") \/ Step
  BY <1>1, <1>4, Unseen DEF MainRuns, Step, workflow, Core!vars
<1>5. CASE Collect
  <2>1. run[active] \in Executing /\ run' = [run EXCEPT ![active] = "COLLECTING_RESULT"]
    BY <1>5 DEF Collect, PhaseInv
  <2>2. /\ CoreQueue' = queue /\ CoreActive' = active
        /\ CoreState' = [CoreState EXCEPT ![active] = "RUNNING"]
    BY <1>1, <2>1, MainView DEF Executing
  <2>3. CoreQueue = queue /\ CoreActive = active
    BY <1>1, <2>1 DEF CoreQueue, CoreActive, Preflighting, Executing
  <2>4. CoreState[active] = "RUNNING" /\ CoreState = [q \in Runs |-> CoreState[q]]
    <3>1. CoreState[active] = "RUNNING"
      BY <1>1, <2>1 DEF CoreState, Executing, Terminal
    <3>2. CoreState = [q \in Runs |-> CoreState[q]]
      BY DEF CoreState
    <3> QED
      BY <3>1, <3>2
  <2>5. CoreState' = CoreState
    BY <1>1, <2>2, <2>4
  <2> QED
    BY <1>1, <2>2, <2>3, <2>5 DEF Core!vars
<1>6. CASE Summarize
  <2>1. PICK s \in {"PASS", "FAIL"} : run' = [run EXCEPT ![active] = s]
    BY <1>6 DEF Summarize
  <2>2. run[active] \in Executing
    BY <1>6 DEF Summarize, PhaseInv
  <2>3. /\ CoreQueue' = queue /\ CoreActive' = NoRun
        /\ CoreState' = [CoreState EXCEPT ![active] = s]
    BY <1>1, <2>1, MainView DEF Executing, Terminal
  <2>4. CoreQueue = queue /\ CoreActive = active
    BY <1>1, <2>2 DEF CoreQueue, CoreActive, Preflighting, Executing
  <2>5. s \in Core!Execute /\ s # "raise"
    BY DEF Core!Execute
  <2>6. Core!Run(active)
    BY <1>1, <2>3, <2>4, <2>5 DEF Core!Run
  <2> QED
    BY <1>1, <2>6 DEF Core!Next
<1> QED
  BY <1>2, <1>3, <1>4, <1>5, <1>6

(* Every step of the durable scheduler is a step of the core or a stutter. *)
LEMMA StepRefines == SchedulerInv /\ [Next]_vars => [Core!Next]_(Core!vars)
<1> SUFFICES ASSUME SchedulerInv, [Next]_vars PROVE [Core!Next]_(Core!vars)
  OBVIOUS
<1>1. CASE Submit
  <2>1. CASE Head(inbox) \in gone
    BY <1>1, <2>1, Unseen DEF Submit, workflow, Core!vars
  <2>2. CASE Head(inbox) \notin gone
    BY <1>1, <2>2, SubmitRefines DEF Core!Next
  <2> QED
    BY <2>1, <2>2
<1>2. CASE FullDispatch \/ Release
  BY <1>2, DispatchUnseen DEF Core!vars
<1>3. CASE MainBlocked \/ MainRuns \/ Step \/ Collect \/ Summarize
  BY <1>3, MainRefines
<1>4. CASE MainRaises \/ Crash \/ (\E r \in Runs : Invoke(r) \/ Disappear(r)) \/ UNCHANGED vars
  <2>1. UNCHANGED <<queue, active, run, order>>
    BY <1>4 DEF MainRaises, Crash, Invoke, Disappear, vars, object, workflow
  <2> QED
    BY <2>1, Unseen DEF Core!vars
<1> QED
  BY <1>1, <1>2, <1>3, <1>4 DEF Next, Scheduler, Main

(* Every behaviour of the virtual object and its runs is a behaviour of the core: *)
(* strict FIFO, one slot and final results hold of the durable scheduler, with    *)
(* restarts and vanished suites (submit, _full_dispatch, main).                   *)
THEOREM Refinement == Spec => ImplementsCore
<1>1. Init => Core!Init
  BY RestateSchedulerAssumption
     DEF Init, Core!Init, CoreQueue, CoreActive, CoreState, Preflighting, Accepted,
         Executing, Terminal
<1> QED
  BY <1>1, StepRefines, SchedulerInvariance, PTL DEF Spec, ImplementsCore, Core!Spec
=============================================================================
