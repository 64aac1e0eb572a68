----------------------------- MODULE HostProofs -----------------------------
(***************************************************************************)
(* The programs of the host that queue or lock, for any number of runs and *)
(* invocations.  The scheduler core: the queue is the order of submission  *)
(* and the slot is the running run.  The backup: retention keeps what it   *)
(* promises, and a reported success is the newest generation.              *)
(***************************************************************************)
EXTENDS RunScheduler, BackupRun, FiniteSetTheorems, TLAPS

-----------------------------------------------------------------------------
(* Part 1: the verification scheduler's core. *)

(* How many host runs have left the queue. *)
Taken == Len(order) - Len(queue)

(* The queue is the tail of the submission order, and its runs are the QUEUED ones. *)
QueueInv ==
  /\ Taken \in Nat
  /\ \A k \in 1..Len(queue) : queue[k] = order[Taken + k]
  /\ \A i, j \in 1..Len(order) : order[i] = order[j] => i = j
  /\ \A i \in 1..Len(order) :
       /\ order[i] \notin Hermetic
       /\ state[order[i]] # "none"
       /\ state[order[i]] = "QUEUED" <=> i > Taken

(* The slot and the RUNNING host run are the same. *)
SlotInv ==
  /\ active # NoRun => active \notin Hermetic
  /\ SlotIsTheRunningRun

CoreInv == TypeOK /\ QueueInv /\ SlotInv

(* The states a hermetic run can be left in are run states, never QUEUED or "none". *)
LEMMA AdvanceStates ==
  ASSUME NEW r \in Runs
  PROVE  Advance(r) \subseteq RunStates \ {"none", "QUEUED"}
BY DEF Advance, Preflight, Execute, RunStates, Terminal

(* The empty scheduler satisfies the invariant. *)
LEMMA InitCore == Init => CoreInv
BY RunSchedulerAssumption
   DEF Init, CoreInv, TypeOK, QueueInv, SlotInv, Taken, SlotIsTheRunningRun, RunStates

(* A hermetic submission touches neither the queue nor the slot. *)
LEMMA SubmitHermeticKeeps ==
  ASSUME CoreInv, NEW r \in Runs, r \in Hermetic, Submit(r)
  PROVE  CoreInv'
<1> USE RunSchedulerAssumption
<1>1. PICK s \in Advance(r) : state' = [state EXCEPT ![r] = s]
  BY DEF Submit
<1>2. s \in RunStates \ {"none", "QUEUED"}
  BY <1>1, AdvanceStates
<1>3. UNCHANGED <<queue, order, active>>
  BY DEF Submit
<1>4. \A h \in Runs \ Hermetic : state'[h] = state[h]
  BY <1>1 DEF CoreInv, TypeOK
<1>5. TypeOK'
  BY <1>1, <1>2, <1>3 DEF CoreInv, TypeOK
<1>6. QueueInv'
  <2>1. \A i \in 1..Len(order) : order[i] \in Runs \ Hermetic
    BY DEF CoreInv, QueueInv, TypeOK
  <2> QED
    BY <1>3, <1>4, <2>1 DEF CoreInv, QueueInv, Taken
<1>7. SlotInv'
  BY <1>3, <1>4 DEF CoreInv, SlotInv, SlotIsTheRunningRun
<1> QED
  BY <1>5, <1>6, <1>7 DEF CoreInv

(* A host submission becomes the last of the order and of the queue. *)
LEMMA SubmitHostKeeps ==
  ASSUME CoreInv, NEW r \in Runs, r \notin Hermetic, Submit(r)
  PROVE  CoreInv'
<1> USE RunSchedulerAssumption
<1>1. /\ state[r] = "none"
      /\ queue' = Append(queue, r)
      /\ order' = Append(order, r)
      /\ state' = [state EXCEPT ![r] = "QUEUED"]
      /\ UNCHANGED active
  BY DEF Submit
<1>2. /\ Len(queue') = Len(queue) + 1 /\ Len(order') = Len(order) + 1
      /\ Taken' = Taken
      /\ Len(queue) \in Nat /\ Len(order) \in Nat
  BY <1>1 DEF CoreInv, TypeOK, Taken
<1>3. /\ \A i \in 1..Len(order) : order'[i] = order[i] /\ order[i] \in Runs /\ order[i] # r
      /\ order'[Len(order) + 1] = r
  BY <1>1 DEF CoreInv, TypeOK, QueueInv
<1>4. /\ \A k \in 1..Len(queue) : queue'[k] = queue[k]
      /\ queue'[Len(queue) + 1] = r
  BY <1>1 DEF CoreInv, TypeOK
<1>5. TypeOK'
  BY <1>1 DEF CoreInv, TypeOK, RunStates
<1>6. QueueInv'
  <2>1. Taken' \in Nat
    BY <1>2 DEF CoreInv, QueueInv
  <2>2. ASSUME NEW k \in 1..Len(queue')
        PROVE  queue'[k] = order'[Taken' + k]
    <3>1. CASE k \in 1..Len(queue)
      <4>1. Taken + k \in 1..Len(order)
        BY <1>2, <2>1, <3>1 DEF Taken
      <4> QED
        BY <1>2, <1>3, <1>4, <3>1, <4>1 DEF CoreInv, QueueInv
    <3>2. CASE k = Len(queue) + 1
      <4>1. Taken + k = Len(order) + 1
        BY <1>2, <3>2 DEF Taken
      <4> QED
        BY <1>2, <1>3, <1>4, <3>2, <4>1
    <3> QED
      BY <1>2, <3>1, <3>2
  <2>3. ASSUME NEW i \in 1..Len(order'), NEW j \in 1..Len(order'), order'[i] = order'[j]
        PROVE  i = j
    <3>1. (i \in 1..Len(order) \/ i = Len(order) + 1)
          /\ (j \in 1..Len(order) \/ j = Len(order) + 1)
      BY <1>2
    <3>2. CASE i \in 1..Len(order) /\ j \in 1..Len(order)
      BY <1>3, <2>3, <3>2 DEF CoreInv, QueueInv
    <3>3. CASE i = Len(order) + 1 \/ j = Len(order) + 1
      BY <1>3, <2>3, <3>1, <3>3
    <3> QED
      BY <3>1, <3>2, <3>3
  <2>4. ASSUME NEW i \in 1..Len(order')
        PROVE  /\ order'[i] \notin Hermetic
               /\ state'[order'[i]] # "none"
               /\ state'[order'[i]] = "QUEUED" <=> i > Taken'
    <3>1. CASE i \in 1..Len(order)
      BY <1>1, <1>2, <1>3, <3>1 DEF CoreInv, QueueInv, TypeOK
    <3>2. CASE i = Len(order) + 1
      BY <1>1, <1>2, <1>3, <3>2 DEF CoreInv, QueueInv, TypeOK, Taken
    <3> QED
      BY <1>2, <3>1, <3>2
  <2> QED
    BY <2>1, <2>2, <2>3, <2>4 DEF QueueInv
<1>7. SlotInv'
  BY <1>1 DEF CoreInv, SlotInv, SlotIsTheRunningRun, TypeOK
<1> QED
  BY <1>5, <1>6, <1>7 DEF CoreInv

(* tick takes the head, which is the next of the order. *)
LEMMA TickKeeps ==
  ASSUME CoreInv, Tick
  PROVE  /\ CoreInv'
         /\ Head(queue) \in Runs /\ state[Head(queue)] = "QUEUED"
<1> USE RunSchedulerAssumption
<1> DEFINE r == Head(queue)
<1>1. PICK p \in {"raise", "available", "missing"} :
        /\ state' = [state EXCEPT ![r] = CASE p = "raise" -> "PREFLIGHT"
                                           [] p = "missing" -> "BLOCKED"
                                           [] OTHER -> "RUNNING"]
        /\ active' = IF p = "available" THEN r ELSE NoRun
  BY DEF Tick, Preflight
<1>2. /\ active = NoRun /\ queue # <<>>
      /\ queue' = Tail(queue) /\ UNCHANGED order
  BY DEF Tick
<1>3. /\ Len(queue) \in Nat \ {0} /\ Len(order) \in Nat
      /\ Len(queue') = Len(queue) - 1
      /\ queue' \in Seq(Runs)
      /\ r \in Runs /\ r = queue[1]
      /\ \A k \in 1..Len(queue') : queue'[k] = queue[k + 1]
  BY <1>2 DEF CoreInv, TypeOK
<1>4. /\ Taken \in Nat /\ Taken' = Taken + 1
      /\ Taken + 1 \in 1..Len(order)
      /\ r = order[Taken + 1]
  BY <1>2, <1>3 DEF CoreInv, QueueInv, Taken
<1>5. /\ state[r] = "QUEUED" /\ r \notin Hermetic
  BY <1>4 DEF CoreInv, QueueInv
<1>6. /\ state' \in [Runs -> RunStates]
      /\ state'[r] \in {"PREFLIGHT", "BLOCKED", "RUNNING"}
      /\ state'[r] = "RUNNING" <=> active' = r
      /\ active' \in {r, NoRun}
      /\ \A s \in Runs : s # r => state'[s] = state[s]
  BY <1>1, <1>3 DEF CoreInv, TypeOK, RunStates, Terminal
<1>7. TypeOK'
  BY <1>2, <1>3, <1>6 DEF CoreInv, TypeOK
<1>8. QueueInv'
  <2>1. \A k \in 1..Len(queue') : queue'[k] = order'[Taken' + k]
    BY <1>2, <1>3, <1>4 DEF CoreInv, QueueInv
  <2>2. ASSUME NEW i \in 1..Len(order')
        PROVE  /\ order'[i] \notin Hermetic
               /\ state'[order'[i]] # "none"
               /\ state'[order'[i]] = "QUEUED" <=> i > Taken'
    <3>1. CASE i = Taken + 1
      BY <1>2, <1>4, <1>5, <1>6, <3>1
    <3>2. CASE i # Taken + 1
      <4>1. order[i] # r /\ order[i] \in Runs
        BY <1>2, <1>4, <3>2 DEF CoreInv, QueueInv, TypeOK
      <4> QED
        BY <1>2, <1>3, <1>4, <1>6, <3>2, <4>1 DEF CoreInv, QueueInv
    <3> QED
      BY <3>1, <3>2
  <2>3. Taken' \in Nat /\ \A i, j \in 1..Len(order') : order'[i] = order'[j] => i = j
    BY <1>2, <1>4 DEF CoreInv, QueueInv
  <2> QED
    BY <2>1, <2>2, <2>3 DEF QueueInv
<1>9. SlotInv'
  BY <1>2, <1>3, <1>5, <1>6 DEF CoreInv, SlotInv, SlotIsTheRunningRun
<1> QED
  BY <1>3, <1>5, <1>7, <1>8, <1>9 DEF CoreInv

(* Whatever ends the active run frees the slot and leaves the queue alone. *)
LEMMA EndKeeps ==
  ASSUME CoreInv, NEW r \in Runs, active = r,
         NEW s \in Terminal, state' = [state EXCEPT ![r] = s],
         active' = NoRun, UNCHANGED <<queue, order>>
  PROVE  CoreInv' /\ state[r] = "RUNNING"
<1> USE RunSchedulerAssumption
<1>1. state[r] = "RUNNING" /\ r \notin Hermetic
  BY DEF CoreInv, SlotInv, SlotIsTheRunningRun
<1>2. TypeOK'
  BY DEF CoreInv, TypeOK, RunStates
<1>3. \A i \in 1..Len(order) : order[i] \in Runs
  BY DEF CoreInv, TypeOK
<1>4. /\ state'[r] = s /\ s \notin {"none", "QUEUED", "RUNNING"}
      /\ \A q \in Runs : q # r => state'[q] = state[q]
  BY DEF CoreInv, TypeOK, Terminal
<1>5. QueueInv'
  BY <1>1, <1>3, <1>4 DEF CoreInv, QueueInv, Taken
<1>6. SlotInv'
  BY <1>1, <1>4 DEF CoreInv, SlotInv, SlotIsTheRunningRun
<1> QED
  BY <1>1, <1>2, <1>5, <1>6 DEF CoreInv

(* run and interrupt give the active run a terminal state and free its slot. *)
LEMMA RunEnds ==
  ASSUME NEW r \in Runs, Run(r) \/ Interrupt(r)
  PROVE  /\ active = r /\ active' = NoRun /\ UNCHANGED <<queue, order>>
         /\ \E s \in Terminal : state' = [state EXCEPT ![r] = s]
BY DEF Run, Interrupt, Execute, Terminal

(* Every step keeps the invariant. *)
LEMMA CoreStep == CoreInv /\ [Next]_vars => CoreInv'
<1> SUFFICES ASSUME CoreInv, [Next]_vars PROVE CoreInv'
  OBVIOUS
<1>1. CASE Tick
  BY <1>1, TickKeeps
<1>2. ASSUME NEW r \in Runs, Submit(r) PROVE CoreInv'
  BY <1>2, SubmitHermeticKeeps, SubmitHostKeeps
<1>3. ASSUME NEW r \in Runs, Run(r) \/ Interrupt(r) PROVE CoreInv'
  BY <1>3, RunEnds, EndKeeps
<1>4. CASE UNCHANGED vars
  BY <1>4 DEF vars, CoreInv, TypeOK, QueueInv, SlotInv, Taken, SlotIsTheRunningRun
<1> QED
  BY <1>1, <1>2, <1>3, <1>4 DEF Next

(* The queue is always the tail of the submission order and the slot belongs to *)
(* the one RUNNING host run (Scheduler.submit, tick, run, interrupt).           *)
THEOREM CoreInvariance == Spec => []CoreInv
<1>1. Init => CoreInv
  BY InitCore
<1>2. CoreInv /\ [Next]_vars => CoreInv'
  BY CoreStep
<1> QED
  BY <1>1, <1>2, PTL DEF Spec

(* Host runs leave the queue in the order of their submission, whatever *)
(* preflight finds and whenever tick, run and interrupt are called.     *)
THEOREM FIFO == Spec => []StrictFIFO
<1>1. CoreInv => StrictFIFO
  BY DEF CoreInv, QueueInv, StrictFIFO, TypeOK, Taken
<1> QED
  BY <1>1, CoreInvariance, PTL

(* At most one host run is RUNNING, and it holds the slot (tick, run, interrupt). *)
THEOREM OneSlot == Spec => []SlotIsTheRunningRun
<1>1. CoreInv => SlotIsTheRunningRun
  BY DEF CoreInv, SlotInv
<1> QED
  BY <1>1, CoreInvariance, PTL

(* PASS, FAIL, BLOCKED and INTERRUPTED are final (run, interrupt, tick, submit). *)
THEOREM Final == Spec => TerminalIsFinal
<1>1. CoreInv /\ [Next]_vars =>
        [\A r \in Runs : state[r] \in Terminal => state'[r] = state[r]]_vars
  <2> SUFFICES ASSUME CoreInv, Next, NEW r \in Runs, state[r] \in Terminal
               PROVE  state'[r] = state[r]
    BY DEF vars
  <2>1. state[r] \notin {"none", "QUEUED", "RUNNING"} /\ state \in [Runs -> RunStates]
    BY DEF Terminal, CoreInv, TypeOK
  <2>2. CASE Tick
    BY <2>1, <2>2, TickKeeps DEF Tick
  <2>3. ASSUME NEW q \in Runs, Submit(q) PROVE state'[r] = state[r]
    BY <2>1, <2>3 DEF Submit
  <2>4. ASSUME NEW q \in Runs, Run(q) \/ Interrupt(q) PROVE state'[r] = state[r]
    BY <2>1, <2>4, RunEnds, EndKeeps
  <2> QED
    BY <2>2, <2>3, <2>4 DEF Next
<1> QED
  BY <1>1, CoreInvariance, PTL DEF Spec, TerminalIsFinal

(* Only a host run with probes to raise stays in PREFLIGHT. *)
PreflightInv ==
  \A i \in 1..Len(order) : state[order[i]] = "PREFLIGHT" => order[i] \in Probed

(* No step leaves a run without probes in PREFLIGHT. *)
LEMMA PreflightStep == CoreInv /\ PreflightInv /\ [Next]_vars => PreflightInv'
<1> SUFFICES ASSUME CoreInv, PreflightInv, [Next]_vars,
                    NEW i \in 1..Len(order'), order'[i] \notin Probed
             PROVE  state'[order'[i]] # "PREFLIGHT"
  BY DEF PreflightInv
<1> USE RunSchedulerAssumption DEF CoreInv, TypeOK
<1>1. \A k \in 1..Len(order) :
        /\ order[k] \in Runs \ Hermetic
        /\ order[k] \notin Probed => state[order[k]] # "PREFLIGHT"
  BY DEF PreflightInv, QueueInv
<1>2. CASE Tick
  <2>1. order' = order /\ Head(queue) \in Runs
    BY <1>2, TickKeeps DEF Tick
  <2>2. PICK s \in {"PREFLIGHT", "BLOCKED", "RUNNING"} :
          /\ state' = [state EXCEPT ![Head(queue)] = s]
          /\ s = "PREFLIGHT" => Head(queue) \in Probed
    BY <1>2 DEF Tick, Preflight
  <2> QED
    BY <1>1, <2>1, <2>2
<1>3. ASSUME NEW r \in Runs, Submit(r) PROVE state'[order'[i]] # "PREFLIGHT"
  <2>1. CASE r \in Hermetic
    BY <1>1, <1>3, <2>1 DEF Submit
  <2>2. CASE r \notin Hermetic
    <3>1. state' = [state EXCEPT ![r] = "QUEUED"] /\ order' = Append(order, r)
      BY <1>3, <2>2 DEF Submit
    <3>2. (i \in 1..Len(order) /\ order'[i] = order[i]) \/ order'[i] = r
      BY <3>1
    <3> QED
      BY <1>1, <3>1, <3>2
  <2> QED
    BY <2>1, <2>2
<1>4. ASSUME NEW r \in Runs, Run(r) \/ Interrupt(r) PROVE state'[order'[i]] # "PREFLIGHT"
  <2>1. PICK s \in Terminal : state' = [state EXCEPT ![r] = s]
    BY <1>4, RunEnds
  <2>2. order' = order /\ s # "PREFLIGHT"
    BY <1>4, RunEnds DEF Terminal
  <2> QED
    BY <1>1, <2>1, <2>2
<1>5. CASE UNCHANGED vars
  BY <1>1, <1>5 DEF vars
<1> QED
  BY <1>2, <1>3, <1>4, <1>5 DEF Next

(* Every accepted host run waits, holds the slot or has ended, unless its own *)
(* preflight raised (submit, tick).                                           *)
THEOREM NothingLost == Spec => []NoRunLost
<1>1. Init => PreflightInv
  BY DEF Init, PreflightInv
<1>2. CoreInv /\ PreflightInv => NoRunLost
  <2> SUFFICES ASSUME CoreInv, PreflightInv, NEW i \in 1..Len(order),
                      ~(order[i] \in Probed /\ state[order[i]] = "PREFLIGHT")
               PROVE  \/ \E k \in 1..Len(queue) : queue[k] = order[i]
                      \/ active = order[i]
                      \/ state[order[i]] \in Terminal
    BY DEF NoRunLost
  <2>1. /\ order[i] \in Runs \ Hermetic
        /\ state[order[i]] \in {"QUEUED", "RUNNING"} \cup Terminal
    BY DEF CoreInv, TypeOK, QueueInv, PreflightInv, RunStates
  <2>2. CASE state[order[i]] = "QUEUED"
    <3>1. i > Taken /\ Taken \in Nat /\ Len(order) \in Nat /\ Len(queue) \in Nat
      BY <2>2 DEF CoreInv, QueueInv, TypeOK
    <3>2. i - Taken \in 1..Len(queue) /\ Taken + (i - Taken) = i
      BY <3>1 DEF Taken
    <3> QED
      BY <3>2 DEF CoreInv, QueueInv
  <2>3. CASE state[order[i]] = "RUNNING"
    BY <2>1, <2>3 DEF CoreInv, SlotInv, SlotIsTheRunningRun
  <2> QED
    BY <2>1, <2>2, <2>3
<1> QED
  BY <1>1, <1>2, PreflightStep, CoreInvariance, PTL DEF Spec

-----------------------------------------------------------------------------
(* Part 2: the partial backup. *)

(* What the proof needs of the types: the generations are numbered by their  *)
(* publication, and a damaged one stays damaged.                             *)
BackupTypes ==
    /\ published \in Nat /\ gens = [g \in DOMAIN gens |-> gens[g]]
    /\ DOMAIN gens \subseteq 1 .. published /\ damaged \subseteq 1 .. published
    /\ damaged \cap Good = {}
    /\ DOMAIN status = {"result", "action", "gen"}
    /\ DOMAIN pc = Procs /\ DOMAIN mem = Procs /\ DOMAIN generation = Procs /\ DOMAIN doomed = Procs
    /\ \A p \in Procs : DOMAIN mem[p] = {"result", "action", "gen"}

(* The lock is held by exactly the invocation that is past it. *)
OneHolder == \A p \in Procs : pc[p] \in Held <=> lock = p

(* What the holder has done: a partial backup that has published holds the   *)
(* newest generation, and status.json says "running" until it concludes.     *)
Working == Held \ {"locked"}
Newest(g) == g = published /\ g \in Good \cup damaged
Holding(p) ==
    /\ pc[p] \in Working => status.result = "running"
    /\ pc[p] \in {"snapshot", "dump", "check", "prune"} => mem[p].action = "partial-backup"
    /\ pc[p] \in {"check", "prune", "done"} /\ mem[p].action = "partial-backup" =>
         generation[p] # 0 /\ Newest(generation[p])
    /\ pc[p] # "prune" => doomed[p] = {}

Newer(g) == {h \in Good : h > g}
Doom(p) == \A g \in doomed[p] : g \in 1 .. published /\ Cardinality(Newer(g)) >= Keep
Stock == Cardinality(Good) + Cardinality(damaged) >= Min({Keep, published})

BackupInv ==
    /\ BackupTypes /\ OneHolder /\ Stock
    /\ \A p \in Procs : Holding(p) /\ Doom(p)
    /\ SuccessIsPublished

(* The smaller of two numbers. *)
LEMMA MinOfTwo ==
    ASSUME NEW a \in Nat, NEW b \in Nat
    PROVE  Min({a, b}) = IF a <= b THEN a ELSE b
<1>1. \E x \in {a, b} : \A y \in {a, b} : x <= y
  OBVIOUS
<1>2. Min({a, b}) \in {a, b} /\ \A y \in {a, b} : Min({a, b}) <= y
  BY <1>1 DEF Min
<1> QED
  BY <1>2

(* What is on the shelf can be counted. *)
LEMMA Shelf ==
    ASSUME BackupTypes
    PROVE  /\ Keep \in Nat /\ Keep >= 1
           /\ IsFiniteSet(Good) /\ Cardinality(Good) \in Nat /\ Good \subseteq 1 .. published
           /\ IsFiniteSet(damaged) /\ Cardinality(damaged) \in Nat
           /\ \A g : IsFiniteSet(Newer(g)) /\ Cardinality(Newer(g)) \in Nat
           /\ Min({Keep, published}) = IF Keep <= published THEN Keep ELSE published
<1>1. Keep \in Nat /\ Keep >= 1 /\ published \in Nat
  BY BackupAssumption DEF BackupTypes
<1>2. Good \subseteq 1 .. published /\ damaged \subseteq 1 .. published /\ \A g : Newer(g) \subseteq 1 .. published
  BY DEF BackupTypes, Good, Newer
<1>3. IsFiniteSet(1 .. published)
  BY <1>1, FS_Interval
<1>4. IsFiniteSet(Good) /\ IsFiniteSet(damaged) /\ \A g : IsFiniteSet(Newer(g))
  BY <1>2, <1>3, FS_Subset
<1> QED
  BY <1>1, <1>2, <1>4, FS_CardinalityType, MinOfTwo

(* Without a change of the shelf nothing about it changes. *)
LEMMA SameShelf ==
    ASSUME UNCHANGED <<gens, published, damaged>>
    PROVE  /\ Good' = Good /\ (Stock <=> Stock') /\ \A g : Newer(g)' = Newer(g)
           /\ \A g : Newest(g)' <=> Newest(g)
BY DEF Good, Stock, Newer, Newest

(* Nothing is on the medium, nobody holds backup.lock and no status is     *)
(* saved.                                                                  *)
LEMMA BackupStarts == BackupInit => BackupInv
<1> SUFFICES ASSUME BackupInit PROVE BackupInv
  OBVIOUS
<1>1. Good = {} /\ damaged = {} /\ published = 0 /\ DOMAIN gens = {}
  BY DEF BackupInit, Good
<1>2. BackupTypes
  BY <1>1 DEF BackupInit, BackupTypes, NoStatus
<1>3. Stock
  BY <1>1, <1>2, Shelf DEF Stock
<1>4. OneHolder /\ SuccessIsPublished /\ \A p \in Procs : Holding(p) /\ Doom(p)
  BY NoProcAssumption
     DEF BackupInit, OneHolder, SuccessIsPublished, Holding, Doom, Held, Working, NoStatus
<1> QED
  BY <1>2, <1>3, <1>4 DEF BackupInv

(* The holder excludes: nobody else is past the lock. *)
LEMMA Excluded ==
    ASSUME BackupInv, NEW p \in Procs, pc[p] \in Held
    PROVE  lock = p /\ \A q \in Procs \ {p} : pc[q] \notin Held /\ doomed[q] = {}
BY DEF BackupInv, OneHolder, Holding, Held

(* An invocation ends: it was refused, it was killed, or it saved an outcome *)
(* that is a failure or names the newest generation.                         *)
Outcome(s) ==
    /\ DOMAIN s = {"result", "action", "gen"}
    /\ s.result = "ok" /\ s.action = "partial-backup" => Newest(s.gen)
LEMMA LeavingKeepsBackup ==
    ASSUME BackupInv, NEW p \in Procs, Gone(p), UNCHANGED <<gens, published, damaged>>,
           status' = status \/ (pc[p] \in Held /\ Outcome(status'))
    PROVE  BackupInv'
<1>1. /\ pc' = [pc EXCEPT ![p] = "idle"] /\ mem' = [mem EXCEPT ![p] = NoStatus]
      /\ generation' = [generation EXCEPT ![p] = 0] /\ doomed' = [doomed EXCEPT ![p] = {}]
      /\ lock' = IF lock = p THEN NoProc ELSE lock
  BY DEF Gone, Goto
<1>2. BackupTypes'
  BY <1>1, SameShelf DEF BackupInv, BackupTypes, Outcome, NoStatus
<1>3. OneHolder'
  BY <1>1, NoProcAssumption DEF BackupInv, BackupTypes, OneHolder, Held
<1>4. Stock'
  BY SameShelf DEF BackupInv
<1>5. ASSUME NEW q \in Procs PROVE Holding(q)' /\ Doom(q)'
  <2>1. CASE q = p
    BY <1>1, <2>1 DEF BackupInv, BackupTypes, Holding, Doom, Held, Working
  <2>2. CASE q # p /\ pc[q] \in Held
    <3>1. pc[p] \notin Held
      BY <2>2, Excluded
    <3> QED
      BY <1>1, <2>2, <3>1, SameShelf DEF BackupInv, BackupTypes, Holding, Doom
  <2>3. CASE q # p /\ pc[q] \notin Held
    BY <1>1, <2>3, SameShelf DEF BackupInv, BackupTypes, Holding, Doom, Held, Working
  <2> QED
    BY <2>1, <2>2, <2>3
<1>6. SuccessIsPublished'
  BY SameShelf DEF BackupInv, SuccessIsPublished, Outcome, Newest
<1> QED
  BY <1>2, <1>3, <1>4, <1>5, <1>6 DEF BackupInv

(* A failure is saved, or nothing. *)
LEMMA FailedKeepsBackup ==
    ASSUME BackupInv, NEW p \in Procs, Failed(p), pc[p] \in Held, UNCHANGED <<gens, published, damaged>>
    PROVE  BackupInv'
<1>1. Gone(p) /\ (status' = status \/ status' = [mem[p] EXCEPT !.result = "failed"])
  BY DEF Failed, Conclude
<1>2. Outcome([mem[p] EXCEPT !.result = "failed"])
  BY DEF BackupInv, BackupTypes, Outcome
<1> QED
  BY <1>1, <1>2, LeavingKeepsBackup

(* An invocation goes on over an unchanged shelf. *)
LEMMA GoingKeepsBackup ==
    ASSUME BackupInv, NEW p \in Procs, UNCHANGED <<gens, published, damaged, generation>>,
           NEW l \in Held \cup {"read"}, pc' = [pc EXCEPT ![p] = l],
           DOMAIN mem' = Procs, DOMAIN mem'[p] = {"result", "action", "gen"},
           \A q \in Procs \ {p} : mem'[q] = mem[q],
           DOMAIN status' = {"result", "action", "gen"},
           DOMAIN doomed' = Procs, \A q \in Procs \ {p} : doomed'[q] = doomed[q],
           IF l = "read" THEN pc[p] \notin Held /\ lock' = lock
           ELSE lock' = p /\ (lock = NoProc \/ pc[p] \in Held),
           \/ status' = status
           \/ status'.result = "running" /\ pc[p] \in Held,
           Holding(p)', Doom(p)'
    PROVE  BackupInv'
<1>1. DOMAIN pc' = Procs /\ pc'[p] = l /\ \A q \in Procs \ {p} : pc'[q] = pc[q]
  BY DEF BackupInv, BackupTypes
<1>2. BackupTypes'
  BY <1>1, SameShelf DEF BackupInv, BackupTypes
<1>3. OneHolder'
  BY <1>1, NoProcAssumption DEF BackupInv, OneHolder, Held
<1>4. ASSUME NEW q \in Procs PROVE Holding(q)' /\ Doom(q)'
  <2>1. CASE q # p /\ pc[q] \in Held
    <3>1. status' = status
      BY <2>1, Excluded
    <3> QED
      BY <1>1, <2>1, <3>1, SameShelf DEF BackupInv, Holding, Doom
  <2>2. CASE q # p /\ pc[q] \notin Held
    BY <1>1, <2>2, SameShelf DEF BackupInv, Holding, Doom, Held, Working
  <2> QED
    BY <2>1, <2>2
<1>5. Stock' /\ SuccessIsPublished'
  BY SameShelf DEF BackupInv, SuccessIsPublished
<1> QED
  BY <1>2, <1>3, <1>4, <1>5 DEF BackupInv

(* main up to the saved attempt touches no generation, and takes the lock  *)
(* alone.                                                                  *)
LEMMA BeginKeepsBackup ==
    ASSUME BackupInv, NEW p \in Procs, Begin(p) \/ Lock(p) \/ Attempt(p) PROVE BackupInv'
<1> USE DEF disk
<1>1. CASE Begin(p)
  <2>1. /\ pc[p] = "idle" /\ pc' = [pc EXCEPT ![p] = "read"]
        /\ UNCHANGED <<gens, published, damaged, status, lock, generation, doomed>>
    BY <1>1 DEF Begin, Goto
  <2>2. PICK a : mem' = [mem EXCEPT ![p] = [status EXCEPT !.action = a]]
    BY <1>1 DEF Begin
  <2>3. /\ DOMAIN mem' = Procs /\ DOMAIN mem'[p] = {"result", "action", "gen"}
        /\ \A q \in Procs \ {p} : mem'[q] = mem[q]
    BY <2>2 DEF BackupInv, BackupTypes
  <2>4. Holding(p)' /\ Doom(p)' /\ pc[p] \notin Held
    BY <2>1 DEF BackupInv, BackupTypes, Holding, Doom, Held, Working
  <2>5. DOMAIN status' = {"result", "action", "gen"} /\ DOMAIN doomed' = Procs
    BY <2>1 DEF BackupInv, BackupTypes
  <2> QED
    BY <2>1, <2>3, <2>4, <2>5, GoingKeepsBackup
<1>2. CASE Lock(p) /\ lock = NoProc
  <2>1. /\ pc[p] = "read" /\ pc' = [pc EXCEPT ![p] = "locked"] /\ lock' = p
        /\ UNCHANGED <<gens, published, damaged, status, mem, generation, doomed>>
    BY <1>2 DEF Lock, Goto
  <2>2. Holding(p)' /\ Doom(p)' /\ "locked" \in Held
    BY <2>1 DEF BackupInv, BackupTypes, Holding, Doom, Held, Working
  <2>3. /\ DOMAIN mem' = Procs /\ DOMAIN mem'[p] = {"result", "action", "gen"}
        /\ DOMAIN status' = {"result", "action", "gen"} /\ DOMAIN doomed' = Procs
    BY <2>1 DEF BackupInv, BackupTypes
  <2> QED
    BY <1>2, <2>1, <2>2, <2>3, GoingKeepsBackup
<1>3. CASE Lock(p) /\ lock # NoProc
  BY <1>3, LeavingKeepsBackup DEF Lock
<1>4. CASE Attempt(p) /\ Gone(p) /\ UNCHANGED status
  BY <1>4, LeavingKeepsBackup DEF Attempt
<1>5. CASE Attempt(p) /\ pc' = [pc EXCEPT ![p] = "guard"]
           /\ status' = [mem[p] EXCEPT !.result = "running"] /\ mem' = [mem EXCEPT ![p] = status']
           /\ UNCHANGED <<lock, generation, doomed>>
  <2>1. pc[p] = "locked" /\ UNCHANGED <<gens, published, damaged>>
    BY <1>5 DEF Attempt
  <2>2. "guard" \in Held /\ pc[p] \in Held /\ lock' = p
    BY <1>5, <2>1, Excluded DEF Held
  <2>3. /\ DOMAIN mem' = Procs /\ DOMAIN mem'[p] = {"result", "action", "gen"}
        /\ \A q \in Procs \ {p} : mem'[q] = mem[q]
        /\ DOMAIN status' = {"result", "action", "gen"} /\ DOMAIN doomed' = Procs
        /\ status'.result = "running"
    BY <1>5 DEF BackupInv, BackupTypes
  <2>4. Holding(p)' /\ Doom(p)'
    BY <1>5, <2>1, <2>3 DEF BackupInv, BackupTypes, Holding, Doom
  <2> QED
    BY <1>5, <2>1, <2>2, <2>3, <2>4, GoingKeepsBackup
<1> QED
  BY <1>1, <1>2, <1>3, <1>4, <1>5 DEF Lock, Attempt, Goto

(* The steps of the holder that leave the shelf alone. *)
LEMMA WorkKeepsBackup ==
    ASSUME BackupInv, NEW p \in Procs,
           \/ Destination(p) \/ Snapshot(p) \/ PruneChecks(p)
           \/ PruneRemoves(p) /\ doomed[p] = {} /\ Goto(p, "done") /\ UNCHANGED doomed
                /\ UNCHANGED <<gens, published, damaged, status, lock, mem, generation>>,
           ~Failed(p)
    PROVE  BackupInv'
<1> USE DEF disk
<1>1. /\ pc[p] \in {"guard", "snapshot", "check", "prune"}
      /\ UNCHANGED <<gens, published, damaged, status, lock, mem, generation>>
  BY DEF Destination, Snapshot, PruneChecks, PruneRemoves
<1>2. pc[p] \in Held /\ pc[p] \in Working /\ lock' = p
  BY <1>1, Excluded DEF Held, Working
<1>3. PICK l \in {"snapshot", "dump", "prune", "done"} : pc' = [pc EXCEPT ![p] = l]
  BY DEF Destination, Snapshot, PruneChecks, PruneRemoves, Goto
<1>4. pc'[p] = l
  BY <1>3 DEF BackupInv, BackupTypes
<1>5. /\ DOMAIN mem' = Procs /\ DOMAIN mem'[p] = {"result", "action", "gen"}
      /\ DOMAIN status' = {"result", "action", "gen"} /\ DOMAIN doomed' = Procs
      /\ \A q \in Procs \ {p} : doomed'[q] = doomed[q]
  BY <1>1 DEF BackupInv, BackupTypes, Destination, Snapshot, PruneChecks, PruneRemoves
<1>6. Holding(p)'
  <2>1. CASE Destination(p)
    <3>1. l = (IF mem[p].action = "partial-backup" THEN "snapshot" ELSE "done") /\ UNCHANGED doomed
          /\ pc[p] = "guard"
      BY <1>3, <1>4, <2>1 DEF Destination, Goto, BackupInv, BackupTypes
    <3> QED
      BY <1>1, <1>2, <1>4, <3>1 DEF BackupInv, Holding, Working, Held
  <2>2. CASE Snapshot(p)
    <3>1. l = "dump" /\ UNCHANGED doomed /\ pc[p] = "snapshot"
      BY <1>3, <1>4, <2>2 DEF Snapshot, Goto, BackupInv, BackupTypes
    <3> QED
      BY <1>1, <1>2, <1>4, <3>1 DEF BackupInv, Holding, Working, Held
  <2>3. CASE PruneChecks(p)
    <3>1. l = "prune" /\ pc[p] = "check"
      BY <1>3, <1>4, <2>3 DEF PruneChecks, Goto, BackupInv, BackupTypes
    <3> QED
      BY <1>1, <1>2, <1>4, <3>1, SameShelf DEF BackupInv, Holding, Working, Held
  <2>4. CASE PruneRemoves(p) /\ doomed[p] = {} /\ Goto(p, "done") /\ UNCHANGED doomed
    <3>1. l = "done" /\ pc[p] = "prune"
      BY <1>3, <1>4, <2>4 DEF PruneRemoves, Goto, BackupInv, BackupTypes
    <3> QED
      BY <1>1, <1>2, <1>4, <2>4, <3>1, SameShelf DEF BackupInv, Holding, Working, Held
  <2> QED
    BY <2>1, <2>2, <2>3, <2>4
<1>7. Doom(p)'
  <2>1. CASE UNCHANGED doomed
    BY <1>1, <2>1, SameShelf DEF BackupInv, Doom
  <2>2. CASE PruneChecks(p)
    <3>1. Good = DOMAIN gens /\ doomed'[p] = Candidates
      BY <2>2 DEF PruneChecks, BackupInv, BackupTypes
    <3>2. \A g \in Candidates : g \in 1 .. published /\ Cardinality(Newer(g)) >= Keep
      BY <3>1 DEF Candidates, Newer, BackupInv, BackupTypes
    <3> QED
      BY <1>1, <3>1, <3>2, SameShelf DEF Doom
  <2> QED
    BY <2>1, <2>2 DEF Destination, Snapshot
<1> QED
  BY <1>1, <1>2, <1>3, <1>5, <1>6, <1>7, GoingKeepsBackup DEF Held

(* The holder publishes the next generation, good and the newest. *)
LEMMA PublishKeepsBackup ==
    ASSUME BackupInv, NEW p \in Procs, Publish(p), ~Failed(p) PROVE BackupInv'
<1>0. PICK n : n = published + 1
  OBVIOUS
<1>1. /\ pc[p] = "dump" /\ published' = n
      /\ gens' = [g \in DOMAIN gens \cup {n} |-> IF g = n THEN "good" ELSE gens[g]]
      /\ generation' = [generation EXCEPT ![p] = n] /\ pc' = [pc EXCEPT ![p] = "check"]
      /\ UNCHANGED <<status, lock, mem, doomed, damaged>>
  BY <1>0 DEF Publish, Goto
<1>2. published \in Nat /\ n \in Nat /\ n \notin DOMAIN gens /\ n \notin damaged /\ n # 0
  BY <1>0 DEF BackupInv, BackupTypes
<1>3. DOMAIN gens' = DOMAIN gens \cup {n} /\ Good' = Good \cup {n} /\ n \notin Good
  BY <1>1, <1>2 DEF Good
<1>4. BackupTypes'
  <2>1. DOMAIN gens' \subseteq 1 .. published' /\ damaged' \subseteq 1 .. published'
    BY <1>0, <1>1, <1>2, <1>3 DEF BackupInv, BackupTypes
  <2>2. gens' = [g \in DOMAIN gens' |-> gens'[g]]
    BY <1>1
  <2> QED
    BY <1>1, <1>2, <1>3, <2>1, <2>2 DEF BackupInv, BackupTypes
<1>5. Stock'
  <2>1. Cardinality(Good') = Cardinality(Good) + 1
    BY <1>3, Shelf, FS_AddElement DEF BackupInv
  <2>2. /\ Min({Keep, published}) = IF Keep <= published THEN Keep ELSE published
        /\ Min({Keep, n}) = IF Keep <= n THEN Keep ELSE n
        /\ Keep \in Nat /\ Cardinality(Good) \in Nat /\ Cardinality(damaged) \in Nat
    BY <1>2, Shelf, MinOfTwo DEF BackupInv
  <2>3. Cardinality(Good) + Cardinality(damaged) >= Min({Keep, published})
    BY DEF BackupInv, Stock
  <2>4. Cardinality(Good') + Cardinality(damaged) >= Min({Keep, n})
    BY <1>0, <1>2, <2>1, <2>2, <2>3
  <2> QED
    BY <1>1, <2>4 DEF Stock
<1>6. pc[p] \in Held /\ lock = p /\ \A q \in Procs \ {p} : pc[q] \notin Held /\ doomed[q] = {}
  BY <1>1, Excluded DEF Held
<1>7. doomed[p] = {} /\ status.result = "running" /\ mem[p].action = "partial-backup"
  BY <1>1 DEF BackupInv, Holding, Working, Held
<1>8. ASSUME NEW q \in Procs PROVE Holding(q)' /\ Doom(q)'
  <2>1. doomed'[q] = {} /\ (q # p => pc'[q] \notin Held)
    BY <1>1, <1>6, <1>7 DEF BackupInv, BackupTypes
  <2>2. CASE q = p
    <3>1. pc'[p] = "check" /\ generation'[p] = n /\ Newest(n)'
      BY <1>1, <1>3 DEF BackupInv, BackupTypes, Newest
    <3> QED
      BY <1>1, <1>2, <1>7, <2>1, <2>2, <3>1 DEF Holding, Doom
  <2> QED
    BY <2>1, <2>2 DEF Holding, Doom, Held, Working
<1>9. OneHolder'
  BY <1>1, <1>6 DEF BackupInv, BackupTypes, OneHolder, Held
<1> QED
  BY <1>1, <1>4, <1>5, <1>7, <1>8, <1>9 DEF BackupInv, SuccessIsPublished

(* A prune removes the oldest candidate, which has Keep newer good ones. *)
LEMMA PruneKeepsBackup ==
    ASSUME BackupInv, NEW p \in Procs, PruneRemoves(p), ~Failed(p) PROVE BackupInv'
<1>1. CASE doomed[p] = {}
  <2>1. Goto(p, "done") /\ UNCHANGED <<gens, published, damaged, status, lock, mem, generation, doomed>>
    BY <1>1 DEF PruneRemoves, disk
  <2> QED
    BY <1>1, <2>1, WorkKeepsBackup
<1>2. CASE doomed[p] # {}
  <2>1. PICK g \in doomed[p] \cap DOMAIN gens :
          /\ \A h \in doomed[p] : g <= h
          /\ \/ gens' = [gens EXCEPT ![g] = "torn"] /\ UNCHANGED doomed
             \/ /\ gens[g] = "torn" /\ gens' = Without(g)
                /\ doomed' = [doomed EXCEPT ![p] = @ \ {g}]
          /\ UNCHANGED <<published, damaged, status, lock, pc, mem, generation>>
    BY <1>2 DEF PruneRemoves
  <2>2. pc[p] = "prune" /\ pc[p] \in Held
    BY DEF PruneRemoves, Held
  <2>3. lock = p /\ \A q \in Procs \ {p} : pc[q] \notin Held /\ doomed[q] = {}
    BY <2>2, Excluded
  <2>4. Good' = Good \ {g} /\ DOMAIN gens' \subseteq DOMAIN gens /\ gens' = [h \in DOMAIN gens' |-> gens'[h]]
    BY <2>1 DEF Good, Without, BackupInv, BackupTypes
  <2>5. g \in 1 .. published /\ published \in Nat /\ Cardinality(Newer(g)) >= Keep
        /\ \A h \in doomed[p] : h \in 1 .. published /\ Cardinality(Newer(h)) >= Keep
    BY <2>1 DEF BackupInv, BackupTypes, Doom
  <2>6. g # published
    <3>1. Newer(g) # {}
      BY <2>5, Shelf, FS_EmptySet DEF BackupInv
    <3> QED
      BY <2>5, <3>1, Shelf DEF BackupInv, Newer
  <2>7. BackupTypes'
    BY <2>1, <2>4 DEF BackupInv, BackupTypes
  <2>8. \A h \in doomed[p] : Newer(h)' = Newer(h)
    <3>1. ASSUME NEW h \in doomed[p] PROVE Newer(h)' = Newer(h)
      <4>1. g <= h /\ g \in Int /\ h \in Int
        BY <2>1, <2>5
      <4>2. Newer(h)' = {x \in Good' : x > h}
        BY DEF Newer
      <4>3. g \notin Newer(h)
        BY <4>1 DEF Newer
      <4> QED
        BY <2>4, <4>2, <4>3 DEF Newer
    <3> QED
      BY <3>1
  <2>9. Stock'
    <3>1. Newer(g) \subseteq Good'
      BY <2>4, <2>5 DEF Newer
    <3>2. Cardinality(Newer(g)) <= Cardinality(Good') /\ Cardinality(Good') \in Nat
          /\ Cardinality(Newer(g)) \in Nat
      <4>1. IsFiniteSet(Good') /\ Cardinality(Good') \in Nat
        BY <2>4, Shelf, FS_RemoveElement, FS_Subset, FS_CardinalityType DEF BackupInv
      <4> QED
        BY <3>1, <4>1, FS_Subset, Shelf DEF BackupInv
    <3>3. Cardinality(Good') + Cardinality(damaged) >= Min({Keep, published})
      BY <2>5, <3>2, Shelf DEF BackupInv
    <3> QED
      BY <2>1, <3>3 DEF Stock
  <2>10. ASSUME NEW q \in Procs PROVE Holding(q)' /\ Doom(q)'
    <3>1. CASE q = p
      <4>1. Newest(generation[p]) /\ generation[p] # 0 /\ mem[p].action = "partial-backup"
            /\ status.result = "running"
        BY <2>2 DEF BackupInv, Holding, Working, Held
      <4>2. Newest(generation[p])'
        BY <2>1, <2>4, <2>6, <4>1 DEF Newest
      <4>3. doomed'[p] \subseteq doomed[p]
        BY <2>1 DEF BackupInv, BackupTypes
      <4>4. Doom(p)'
        BY <2>1, <2>5, <2>8, <4>3 DEF Doom
      <4> QED
        BY <2>1, <2>2, <3>1, <4>1, <4>2, <4>4 DEF Holding
    <3>2. CASE q # p
      <4>1. doomed'[q] = {} /\ pc'[q] \notin Held
        BY <2>1, <2>3, <3>2 DEF BackupInv, BackupTypes
      <4> QED
        BY <4>1 DEF Holding, Doom, Held, Working
    <3> QED
      BY <3>1, <3>2
  <2>11. OneHolder' /\ SuccessIsPublished'
    <3>1. status.result = "running"
      BY <2>2 DEF BackupInv, Holding, Working, Held
    <3> QED
      BY <2>1, <3>1 DEF BackupInv, OneHolder, SuccessIsPublished
  <2> QED
    BY <2>7, <2>9, <2>10, <2>11 DEF BackupInv
<1> QED
  BY <1>1, <1>2

(* "ok" is said of the newest generation, or of no backup. *)
LEMMA FinishKeepsBackup ==
    ASSUME BackupInv, NEW p \in Procs, Finish(p), ~Failed(p) PROVE BackupInv'
<1> DEFINE out == [mem[p] EXCEPT !.result = "ok", !.gen = IF generation[p] # 0 THEN generation[p] ELSE @]
<1>1. pc[p] = "done" /\ Gone(p) /\ (status' = status \/ status' = out) /\ UNCHANGED <<gens, published, damaged>>
  BY DEF Finish, Conclude, disk
<1>2. Outcome(out)
  <2>1. DOMAIN mem[p] = {"result", "action", "gen"}
    BY DEF BackupInv, BackupTypes
  <2>2. mem[p].action = "partial-backup" => generation[p] # 0 /\ Newest(generation[p])
    BY <1>1 DEF BackupInv, Holding
  <2> QED
    BY <2>1, <2>2 DEF Outcome
<1>3. pc[p] \in Held
  BY <1>1 DEF Held
<1> HIDE DEF out
<1> QED
  BY <1>1, <1>2, <1>3, LeavingKeepsBackup

(* The medium takes a good generation and is held to account for it; the     *)
(* operator removes what does not verify, while nobody works.                *)
LEMMA MediumKeepsBackup ==
    ASSUME BackupInv, Inspect \/ \E g \in DOMAIN gens : Damage(g) PROVE BackupInv'
<1>1. CASE \E g \in DOMAIN gens : Damage(g)
  <2>1. PICK g \in DOMAIN gens : Damage(g)
    BY <1>1
  <2>2. /\ gens[g] = "good" /\ gens' = [gens EXCEPT ![g] = "damaged"] /\ damaged' = damaged \cup {g}
        /\ \A p \in Procs : pc[p] # "prune"
        /\ UNCHANGED <<published, status, lock, pc, mem, generation, doomed>>
    BY <2>1 DEF Damage
  <2>3. /\ g \in Good /\ g \notin damaged /\ Good' = Good \ {g} /\ Good' \cup damaged' = Good \cup damaged
        /\ DOMAIN gens' = DOMAIN gens /\ gens' = [h \in DOMAIN gens' |-> gens'[h]]
    BY <2>1, <2>2 DEF Good, BackupInv, BackupTypes
  <2>4. BackupTypes'
    BY <2>2, <2>3 DEF BackupInv, BackupTypes
  <2>5. Stock'
    <3>1. Cardinality(Good') = Cardinality(Good) - 1 /\ Cardinality(damaged') = Cardinality(damaged) + 1
      BY <2>2, <2>3, Shelf, FS_RemoveElement, FS_AddElement DEF BackupInv
    <3>2. Cardinality(Good') + Cardinality(damaged') = Cardinality(Good) + Cardinality(damaged)
      BY <3>1, Shelf DEF BackupInv
    <3> QED
      BY <2>2, <3>2 DEF BackupInv, Stock
  <2>6. ASSUME NEW p \in Procs PROVE Holding(p)' /\ Doom(p)'
    BY <2>2, <2>3 DEF BackupInv, Holding, Doom, Newest
  <2>7. OneHolder' /\ SuccessIsPublished'
    BY <2>2, <2>3 DEF BackupInv, OneHolder, SuccessIsPublished
  <2> QED
    BY <2>4, <2>5, <2>6, <2>7 DEF BackupInv
<1>2. CASE Inspect
  <2>1. lock = NoProc /\ UNCHANGED <<published, damaged, status, lock, pc, mem, generation, doomed>>
        /\ (gens' = gens \/ \E g \in DOMAIN gens \ Good : gens' = Without(g))
    BY <1>2 DEF Inspect
  <2>2. Good' = Good /\ DOMAIN gens' \subseteq DOMAIN gens /\ gens' = [h \in DOMAIN gens' |-> gens'[h]]
    BY <2>1 DEF Good, Without, BackupInv, BackupTypes
  <2>3. \A p \in Procs : pc[p] \notin Held /\ doomed[p] = {}
    BY <2>1, NoProcAssumption DEF BackupInv, OneHolder, Holding, Held
  <2>4. ASSUME NEW p \in Procs PROVE Holding(p)' /\ Doom(p)'
    BY <2>1, <2>3 DEF Holding, Doom, Held, Working
  <2> QED
    BY <2>1, <2>2, <2>4 DEF BackupInv, BackupTypes, OneHolder, Stock, SuccessIsPublished
<1> QED
  BY <1>1, <1>2

(* Every step of every invocation, a kill and damage to the medium keep    *)
(* BackupInv.                                                              *)
LEMMA BackupStep == BackupInv /\ [BackupNext]_backupVars => BackupInv'
<1> SUFFICES ASSUME BackupInv, [BackupNext]_backupVars PROVE BackupInv'
  OBVIOUS
<1>1. CASE UNCHANGED backupVars
  <2>1. UNCHANGED <<gens, published, damaged, status, lock, pc, mem, generation, doomed>>
    BY <1>1 DEF backupVars, disk
  <2>2. BackupTypes' /\ OneHolder' /\ Stock' /\ SuccessIsPublished'
    BY <2>1, SameShelf DEF BackupInv, BackupTypes, OneHolder, SuccessIsPublished
  <2>3. \A p \in Procs : Holding(p)' /\ Doom(p)'
    BY <2>1, SameShelf DEF BackupInv, Holding, Doom
  <2> QED
    BY <2>2, <2>3 DEF BackupInv
<1>2. ASSUME NEW p \in Procs, Step(p) \/ Crash(p) PROVE BackupInv'
  <2>1. CASE Begin(p) \/ Lock(p) \/ Attempt(p)
    BY <2>1, BeginKeepsBackup
  <2>2. CASE Destination(p) \/ Snapshot(p) \/ Publish(p) \/ PruneChecks(p) \/ PruneRemoves(p) \/ Finish(p)
    <3>1. CASE Failed(p)
      <4>1. pc[p] \in Held
        BY <2>2 DEF Destination, Snapshot, Publish, PruneChecks, PruneRemoves, Finish, Held
      <4>2. UNCHANGED <<gens, published, damaged>>
        <5>1. pc'[p] = "idle"
          BY <3>1 DEF Failed, Conclude, Gone, Goto, BackupInv, BackupTypes
        <5> QED
          BY <2>2, <5>1 DEF Destination, Snapshot, Publish, PruneChecks, PruneRemoves, Finish,
             disk, Goto, BackupInv, BackupTypes
      <4> QED
        BY <3>1, <4>1, <4>2, FailedKeepsBackup
    <3>2. CASE ~Failed(p)
      BY <2>2, <3>2, WorkKeepsBackup, PublishKeepsBackup, PruneKeepsBackup, FinishKeepsBackup
    <3> QED
      BY <3>1, <3>2
  <2>3. CASE Crash(p)
    BY <2>3, LeavingKeepsBackup DEF Crash, disk
  <2> QED
    BY <1>2, <2>1, <2>2, <2>3 DEF Step
<1> QED
  BY <1>1, <1>2, MediumKeepsBackup DEF BackupNext

(* Retention never costs a good backup: Keep generations, or all that were   *)
(* ever published, verify but for those the medium damaged, after every      *)
(* failure and kill, and what a prune removes has Keep newer ones that       *)
(* verify; for any number of invocations, attempts and damaged generations   *)
(* and any keep_last (prune, snapshot).                                      *)
THEOREM RetentionIsKept == BackupSpec => []RetentionHolds
<1>1. BackupInv => RetentionHolds
  BY DEF BackupInv, Stock, Doom, Newer, RetentionHolds
<1> QED
  BY <1>1, BackupStarts, BackupStep, PTL DEF BackupSpec

(* A partial backup that reports ok names the newest generation, and it is   *)
(* there unless the medium damaged it, whatever other invocations did in     *)
(* between (main's lock, prune's order).                                     *)
THEOREM SuccessIsTheNewest == BackupSpec => []SuccessIsPublished
<1>1. BackupInv => SuccessIsPublished
  BY DEF BackupInv
<1> QED
  BY <1>1, BackupStarts, BackupStep, PTL DEF BackupSpec
=============================================================================
