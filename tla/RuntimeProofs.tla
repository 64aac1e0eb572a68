--------------------------- MODULE RuntimeProofs ----------------------------
(***************************************************************************)
(* The runtime around a Task, for any number of clients, Tasks and restarts. *)
(* The personal agent: whose Task a key is, and whose answer a wait is given. *)
(* The boundary control: what an admission under FAIL_ON_ERROR rests on.   *)
(***************************************************************************)
EXTENDS PersonalControl, BoundaryControl, SequenceTheorems, TLAPS

-----------------------------------------------------------------------------
(* Part 1: the personal agent's control of one Task. *)

(* What inspect publishes belongs to the invocation that took the key. *)
PublishedInv == life # "UNAVAILABLE" => invocation \in Inputs /\ digest = invocation

(* A Task that waits has a wait. *)
WaitInv == life = "WAITING" => Len(waits) > 0

(* A caller that was told EXISTING has the key. *)
ToldInv == \A c \in Clients : told[c] = "EXISTING" => invocation = input[c]

(* A handler that has checked a response resolves the promise of the wait    *)
(* it checked it against.                                                    *)
SlotInv ==
    \A c \in Clients : pc[c] = "resolve" =>
        slot[c] \in 1 .. Len(waits) /\ view[c] = waits[slot[c]]

(* A promise is resolved only for a wait that was reached, with its answer. *)
PromiseInv ==
    \A n \in 1 .. MaxWaits : promise[n] # NoResponse =>
        n \in 1 .. Len(waits) /\ promise[n].for = waits[n]

(* A receipt is of the response that the promise holds. *)
ReceiptInv ==
    \A c \in Clients : \A n \in receipts[c] : promise[n] # NoResponse /\ promise[n].by = c

Inv == TypeOK /\ PublishedInv /\ WaitInv /\ ToldInv /\ SlotInv /\ PromiseInv /\ ReceiptInv

(* The initial states satisfy the invariant. *)
LEMMA InitInv == Init => Inv
<1> SUFFICES ASSUME Init PROVE Inv
    OBVIOUS
<1>1. TypeOK
  <2>1. waits \in Seq(1 .. MaxWaits) /\ Len(waits) <= MaxWaits
      BY ControlAssumption DEF Init
  <2>2. promise \in [1 .. MaxWaits -> Responses]
      BY DEF Init, Responses
  <2>3. receipts \in [Clients -> SUBSET (1 .. MaxWaits)]
      BY DEF Init
  <2>4. /\ view \in [Clients -> 0 .. MaxWaits] /\ slot \in [Clients -> 0 .. MaxWaits]
        /\ lost \in 0 .. MaxLost
      BY ControlAssumption DEF Init
  <2>5. cancelled \in BOOLEAN /\ invocation \in Inputs \cup {NoInput} /\ digest \in Inputs \cup {NoInput}
      BY DEF Init
  <2> QED BY <2>1, <2>2, <2>3, <2>4, <2>5 DEF Init, TypeOK
<1>2. PublishedInv /\ WaitInv /\ ToldInv /\ SlotInv
    BY DEF Init, PublishedInv, WaitInv, ToldInv, SlotInv
<1>3. PromiseInv /\ ReceiptInv
    BY DEF Init, PromiseInv, ReceiptInv
<1> QED BY <1>1, <1>2, <1>3 DEF Inv

(* A pending request is one of the requests. *)
LEMMA PendingType ==
    ASSUME Inv, life = "WAITING"
    PROVE  Len(waits) \in 1 .. MaxWaits /\ Pending \in 0 .. MaxWaits
<1>1. Len(waits) \in 1 .. MaxWaits /\ Len(waits) \in 1 .. Len(waits)
    BY ControlAssumption DEF Inv, TypeOK, WaitInv
<1>2. \A n \in 1 .. Len(waits) : waits[n] \in 1 .. MaxWaits
  <2>1. waits \in Seq(1 .. MaxWaits)
      BY DEF Inv, TypeOK
  <2> QED BY <2>1, ElementOfSeq
<1>3. Pending \in 1 .. MaxWaits
    BY <1>1, <1>2 DEF Pending
<1> QED BY <1>1, <1>3, ControlAssumption

(* A command that ends leaves its client's variables well typed. *)
LEMMA EndsType ==
    ASSUME NEW c \in Clients, TypeOK, Ends(c)
    PROVE  /\ pc' \in [Clients -> {"idle", "send", "submit", "resolve"}]
           /\ view' \in [Clients -> 0 .. MaxWaits] /\ slot' \in [Clients -> 0 .. MaxWaits]
    BY ControlAssumption DEF Ends, TypeOK

(* create's first call keeps the invariant: it says EXISTING only of a       *)
(* digest that is the invocation's.                                          *)
LEMMA CreateInv == ASSUME NEW c \in Clients, Inv, Create(c) PROVE Inv'
<1> USE DEF Inv, Create, task
<1>1. Inspected(c) \in {"nothing", "SUBMITTED", "UNCERTAIN", "EXISTING", "DIFFERENT"}
    BY DEF Inspected, TypeOK
<1>2. TypeOK'
    BY <1>1 DEF TypeOK
<1>3. Inspected(c) = "EXISTING" => invocation = input[c]
    BY DEF Inspected, PublishedInv, ToldInv
<1>4. ToldInv'
    BY <1>3 DEF ToldInv, TypeOK
<1>5. SlotInv'
    BY DEF SlotInv, TypeOK
<1> QED BY <1>2, <1>4, <1>5 DEF PublishedInv, WaitInv, PromiseInv, ReceiptInv

(* The submission keeps the invariant: the key is taken once. *)
LEMMA SendInv == ASSUME NEW c \in Clients, Inv, Send(c) PROVE Inv'
<1> USE DEF Inv
<1>1. /\ invocation' \in {invocation, input[c]}
      /\ invocation # NoInput => invocation' = invocation
      /\ \E w \in {"SUBMITTED", "UNCERTAIN"} : told' = [told EXCEPT ![c] = w]
      /\ lost' \in 0 .. MaxLost
      /\ UNCHANGED <<life, digest, waits, promise, cancelled, input, receipts>>
      /\ Ends(c)
    BY ControlAssumption DEF Send, Lose, TypeOK
<1>2. TypeOK'
  <2>1. told' \in [Clients -> {"nothing", "SUBMITTED", "UNCERTAIN", "EXISTING", "DIFFERENT"}]
      BY <1>1 DEF TypeOK
  <2>2. invocation' \in Inputs \cup {NoInput}
      BY <1>1 DEF TypeOK
  <2> QED BY <1>1, <2>1, <2>2, EndsType DEF TypeOK
<1>3. PublishedInv' /\ WaitInv' /\ ToldInv'
  <2>1. NoInput \notin Inputs
      BY ControlAssumption
  <2>2. PublishedInv' /\ WaitInv'
      BY <1>1, <2>1 DEF PublishedInv, WaitInv
  <2>3. ToldInv'
      BY <1>1, <2>1 DEF ToldInv, TypeOK
  <2> QED BY <2>2, <2>3
<1>4. SlotInv'
    BY <1>1 DEF SlotInv, Ends, TypeOK
<1>5. PromiseInv' /\ ReceiptInv'
    BY <1>1 DEF PromiseInv, ReceiptInv
<1> QED BY <1>2, <1>3, <1>4, <1>5

(* The commands that take up a response keep the invariant. *)
LEMMA TakeUpInv == ASSUME NEW c \in Clients, Inv, Command(c) \/ Typed(c) PROVE Inv'
<1> USE DEF Inv, task
<1>1. CASE Command(c)
  <2>0. Pending \in 0 .. MaxWaits
      BY <1>1, PendingType DEF Command
  <2>1. TypeOK'
      BY <1>1, <2>0 DEF Command, TypeOK
  <2> QED BY <1>1, <2>1
        DEF Command, TypeOK, PublishedInv, WaitInv, ToldInv, SlotInv, PromiseInv, ReceiptInv
<1>2. CASE Typed(c)
  <2>1. PICK n \in 1 .. Len(waits) : view' = [view EXCEPT ![c] = waits[n]]
      BY <1>2 DEF Typed
  <2>2. waits[n] \in 0 .. MaxWaits
      BY <2>1, ControlAssumption DEF TypeOK
  <2>3. TypeOK'
      BY <1>2, <2>1, <2>2 DEF Typed, TypeOK
  <2> QED BY <1>2, <2>1, <2>3
        DEF Typed, TypeOK, PublishedInv, WaitInv, ToldInv, SlotInv, PromiseInv, ReceiptInv
<1> QED BY <1>1, <1>2

(* The handler's check keeps the invariant: the wait it remembers is the one *)
(* the response is for.                                                      *)
LEMMA CheckInv == ASSUME NEW c \in Clients, Inv, SubmitChecks(c) PROVE Inv'
<1> USE DEF Inv, SubmitChecks, task
<1>1. CASE life = "WAITING" /\ Matches(c)
  <2>1. TypeOK'
    <3>0. Len(waits) \in 0 .. MaxWaits
        BY ControlAssumption DEF TypeOK
    <3>1. slot' \in [Clients -> 0 .. MaxWaits]
        BY <1>1, <3>0 DEF TypeOK
    <3>2. pc' \in [Clients -> {"idle", "send", "submit", "resolve"}]
        BY <1>1 DEF TypeOK
    <3> QED BY <1>1, <3>1, <3>2 DEF TypeOK
  <2>2. SlotInv'
      BY <1>1, PendingType DEF SlotInv, TypeOK, Matches, Pending
  <2> QED BY <1>1, <2>1, <2>2 DEF PublishedInv, WaitInv, ToldInv, PromiseInv, ReceiptInv
<1>2. CASE ~(life = "WAITING" /\ Matches(c))
  <2>1. TypeOK'
      BY <1>2, EndsType DEF TypeOK
  <2>2. SlotInv'
      BY <1>2 DEF Ends, SlotInv, TypeOK
  <2> QED BY <1>2, <2>1, <2>2 DEF Ends, PublishedInv, WaitInv, ToldInv, PromiseInv, ReceiptInv
<1> QED BY <1>1, <1>2

(* The resolution keeps the invariant: a promise is resolved once. *)
LEMMA ResolveInv == ASSUME NEW c \in Clients, Inv, Resolve(c) PROVE Inv'
<1> USE DEF Inv
<1>1. /\ pc[c] = "resolve" /\ Ends(c)
      /\ UNCHANGED <<invocation, life, digest, waits, cancelled, input, told>>
    BY DEF Resolve
<1>2. /\ slot[c] \in 1 .. Len(waits) /\ view[c] = waits[slot[c]]
      /\ slot[c] \in 1 .. MaxWaits /\ view[c] \in 1 .. MaxWaits
    BY <1>1, ControlAssumption DEF SlotInv, TypeOK
<1>3. PublishedInv' /\ WaitInv' /\ ToldInv' /\ SlotInv'
    BY <1>1 DEF PublishedInv, WaitInv, ToldInv, SlotInv, Ends, TypeOK
<1>4. CASE promise[slot[c]] = NoResponse
  <2>1. /\ promise' = [promise EXCEPT ![slot[c]] = Response(c)]
        /\ receipts' \in {receipts, [receipts EXCEPT ![c] = @ \cup {slot[c]}]}
        /\ lost' \in 0 .. MaxLost
      BY <1>4, ControlAssumption DEF Resolve, Lose, TypeOK
  <2>2. Response(c) \in Responses /\ Response(c) # NoResponse
        /\ Response(c).for = waits[slot[c]] /\ Response(c).by = c
      BY <1>2 DEF Response, Responses, NoResponse
  <2>3. TypeOK'
    <3>1. promise' \in [1 .. MaxWaits -> Responses]
        BY <1>2, <2>1, <2>2 DEF TypeOK
    <3>2. receipts[c] \cup {slot[c]} \in SUBSET (1 .. MaxWaits)
        BY <1>2 DEF TypeOK
    <3>3. receipts' \in [Clients -> SUBSET (1 .. MaxWaits)]
        BY <2>1, <3>2 DEF TypeOK
    <3> QED BY <1>1, <2>1, <3>1, <3>3, EndsType DEF TypeOK
  <2>4. PromiseInv'
      BY <1>1, <1>2, <2>1, <2>2 DEF PromiseInv, TypeOK
  <2>5. ReceiptInv'
    <3>1. SUFFICES ASSUME NEW d \in Clients, NEW n \in receipts'[d]
                   PROVE promise'[n] # NoResponse /\ promise'[n].by = d
        BY DEF ReceiptInv
    <3>2. n \in 1 .. MaxWaits
        BY <2>3 DEF TypeOK
    <3>3. CASE n \in receipts[d]
      <4>1. promise[n] # NoResponse /\ promise[n].by = d
          BY <3>3 DEF ReceiptInv
      <4>2. n # slot[c]
          BY <4>1, <1>4
      <4> QED BY <4>1, <4>2, <3>2, <1>2, <2>1 DEF TypeOK
    <3>4. CASE n \notin receipts[d]
      <4>1. d = c /\ n = slot[c]
          BY <3>4, <2>1 DEF TypeOK
      <4> QED BY <4>1, <2>1, <2>2, <1>2 DEF TypeOK
    <3> QED BY <3>3, <3>4
  <2> QED BY <1>3, <2>3, <2>4, <2>5
<1>5. CASE promise[slot[c]] # NoResponse
  <2>1. UNCHANGED <<promise, receipts, lost>>
      BY <1>5 DEF Resolve
  <2>2. TypeOK'
      BY <1>1, <2>1, EndsType DEF TypeOK
  <2> QED BY <1>1, <1>3, <2>1, <2>2 DEF PromiseInv, ReceiptInv
<1> QED BY <1>4, <1>5

(* The Task's own steps keep the invariant: waits only grow. *)
LEMMA TaskInv ==
    ASSUME Inv, Starts \/ Asks \/ Consumes \/ Withdraws \/ Finishes PROVE Inv'
<1> USE DEF Inv, client
<1>1. CASE Starts
  <2>1. TypeOK'
      BY <1>1 DEF Starts, TypeOK
  <2> QED BY <1>1, <2>1
        DEF Starts, PublishedInv, WaitInv, ToldInv, SlotInv, PromiseInv, ReceiptInv
<1>2. CASE Asks
  <2>1. PICK n \in 1 .. Len(waits) + 1 : waits' = Append(waits, n)
      BY <1>2 DEF Asks
  <2>2. /\ Len(waits) < MaxWaits /\ life = "RUNNING" /\ life' = "WAITING"
        /\ UNCHANGED <<invocation, digest, promise, cancelled, input, pc, view, slot, told, receipts, lost>>
      BY <1>2 DEF Asks
  <2>3. n \in 1 .. MaxWaits /\ Len(waits) \in Nat
      BY <2>2, ControlAssumption DEF TypeOK
  <2>4. /\ waits' \in Seq(1 .. MaxWaits) /\ Len(waits') = Len(waits) + 1
        /\ \A i \in 1 .. Len(waits) : waits'[i] = waits[i]
      BY <2>1, <2>3 DEF TypeOK
  <2>5. TypeOK'
      BY <2>2, <2>3, <2>4, ControlAssumption DEF TypeOK
  <2>6. SlotInv' /\ PromiseInv'
      BY <2>2, <2>3, <2>4 DEF SlotInv, PromiseInv
  <2> QED BY <2>2, <2>5, <2>6, <2>3, <2>4 DEF PublishedInv, WaitInv, ToldInv, ReceiptInv
<1>3. CASE Consumes \/ Withdraws \/ Finishes
  <2>1. /\ life # "UNAVAILABLE" /\ life' \in {"RUNNING"} \cup Terminal
        /\ UNCHANGED <<invocation, digest, waits, promise, cancelled, input, pc, view, slot, told, receipts, lost>>
      BY <1>3 DEF Consumes, Withdraws, Finishes, Terminal
  <2>2. TypeOK'
      BY <2>1 DEF TypeOK
  <2> QED BY <2>1, <2>2
        DEF Terminal, PublishedInv, WaitInv, ToldInv, SlotInv, PromiseInv, ReceiptInv
<1> QED BY <1>1, <1>2, <1>3

(* A step of the specification keeps the invariant. *)
LEMMA NextInv == Inv /\ [Next]_vars => Inv'
<1> SUFFICES ASSUME Inv, [Next]_vars PROVE Inv'
    OBVIOUS
<1>1. CASE Starts \/ Asks \/ Consumes \/ Withdraws \/ Finishes
    BY <1>1, TaskInv
<1>2. ASSUME NEW c \in Clients, Create(c) \/ Command(c) \/ Typed(c) \/ Cancel(c) \/ Calls(c)
      PROVE Inv'
  <2>1. CASE Cancel(c)
      BY <2>1 DEF Cancel, client, Inv, TypeOK, PublishedInv, WaitInv, ToldInv, SlotInv,
         PromiseInv, ReceiptInv
  <2> QED BY <1>2, <2>1, CreateInv, TakeUpInv, SendInv, CheckInv, ResolveInv DEF Calls
<1>3. CASE UNCHANGED vars
    BY <1>3 DEF vars, task, client, Inv, TypeOK, PublishedInv, WaitInv, ToldInv, SlotInv,
       PromiseInv, ReceiptInv
<1> QED BY <1>1, <1>2, <1>3 DEF Next

(* The invariant holds throughout: every interleaving of prompts, handlers   *)
(* and the Task.                                                             *)
THEOREM ControlInvariance == Spec => []Inv
<1>1. Inv /\ [Next]_vars => Inv'
    BY NextInv
<1> QED BY <1>1, InitInv, PTL DEF Spec

(* create says EXISTING only of the caller's own request, for any number of  *)
(* clients, inputs and lost answers.                                         *)
THEOREM OnlyOwnTask == Spec => []ExistingIsMine
<1>1. Inv => ExistingIsMine
    BY DEF Inv, ToldInv, ExistingIsMine
<1> QED BY <1>1, ControlInvariance, PTL

(* A wait is given a response to its own request, and ACCEPTED is said of    *)
(* that response alone, for any number of waits and clients.                 *)
THEOREM OneAnswerCounts == Spec => []AcceptedIsTheAnswer
<1>1. Inv => AcceptedIsTheAnswer
    BY DEF Inv, PromiseInv, ReceiptInv, AcceptedIsTheAnswer
<1> QED BY <1>1, ControlInvariance, PTL

-----------------------------------------------------------------------------
(* Part 2: the control path at a Task's boundaries. *)

(* What the proof needs of the types. *)
Pooled == [task : Tasks, turn : Nat, observer : 1 .. NumObservers, waiting : BOOLEAN]
BoundaryTypes ==
    /\ turn \in [Tasks -> Nat]
    /\ stage \in [Tasks -> {"turn", "step", "observe", "wait", "failed"}]
    /\ entries \in [Tasks -> Seq(Entries)]
    /\ future \in [Tasks -> {"none", "pending", "assessed", "observer_error"}]
    /\ poisoned \subseteq 1 .. NumObservers
    /\ DOMAIN admitted = Tasks /\ inspected \in [Tasks -> SUBSET (1 .. NumObservers)]
    /\ queue \in Seq(Pooled)

(* An admission asks the observers in their order: what it has entered so    *)
(* far, and the call it waits for.                                           *)
Asking(t) ==
    /\ Len(entries[t]) <= NumObservers
    /\ stage[t] \notin {"observe", "wait"} => entries[t] = << >>
    /\ stage[t] # "wait" => future[t] = "none"
    /\ stage[t] = "wait" => future[t] # "none" /\ Next1(t) <= NumObservers

(* An assessment in an admission is an inspection of this boundary. *)
Assessed(t) ==
    /\ \A i \in 1 .. Len(entries[t]) : entries[t][i] = "assessed" => i \in inspected[t]
    /\ future[t] = "assessed" => Next1(t) \in inspected[t]

(* A call that is waited for is of the boundary and the observer its Task is *)
(* at, and the only one of its Task.                                         *)
CallStands(c) ==
    c.waiting => /\ stage[c.task] = "wait" /\ future[c.task] = "pending"
                 /\ c.turn = turn[c.task] /\ c.observer = Next1(c.task)
CallsStand ==
    /\ \A i \in 1 .. Len(queue) : CallStands(queue[i])
    /\ \A i, j \in 1 .. Len(queue) :
         queue[i].waiting /\ queue[j].waiting /\ queue[i].task = queue[j].task => i = j

Continued(t) ==
    stage[t] = "turn" /\ turn[t] > 0 =>
        /\ admitted[t].turn = turn[t] /\ inspected[t] = 1 .. NumObservers
        /\ admitted[t].entries = [o \in 1 .. NumObservers |-> "assessed"]

BoundaryInv ==
    /\ BoundaryTypes /\ CallsStand
    /\ \A t \in Tasks : Asking(t) /\ Assessed(t) /\ (policy = "FAIL_ON_ERROR" => Continued(t))

(* The calls of the pool, whatever became of the Tasks they are for. *)
LEMMA PooledCalls ==
    ASSUME BoundaryTypes
    PROVE  /\ Len(queue) \in Nat
           /\ \A i \in 1 .. Len(queue) :
                /\ queue[i] \in Pooled /\ queue[i].task \in Tasks
                /\ queue[i].observer \in 1 .. NumObservers /\ queue[i].waiting \in BOOLEAN
<1>1. queue \in Seq(Pooled)
  BY DEF BoundaryTypes
<1>2. Len(queue) \in Nat /\ \A i \in 1 .. Len(queue) : queue[i] \in Pooled
  BY <1>1
<1>3. \A c \in Pooled : c.task \in Tasks /\ c.observer \in 1 .. NumObservers /\ c.waiting \in BOOLEAN
  BY DEF Pooled
<1> QED
  BY <1>2, <1>3

(* A fresh ControlPath has an empty pool and no Task at a boundary. *)
LEMMA BoundaryStarts == BoundaryInit => BoundaryInv
<1> SUFFICES ASSUME BoundaryInit PROVE BoundaryInv
  OBVIOUS
<1>1. BoundaryTypes
  BY DEF BoundaryInit, BoundaryTypes
<1>2. ASSUME NEW t \in Tasks
      PROVE  Asking(t) /\ Assessed(t) /\ Continued(t)
  <2>1. entries[t] = << >> /\ Len(entries[t]) = 0 /\ future[t] = "none" /\ turn[t] = 0
        /\ stage[t] = "turn"
    BY DEF BoundaryInit
  <2> QED
    BY <2>1, BoundaryAssumption DEF Asking, Assessed, Continued
<1>3. CallsStand
  BY DEF BoundaryInit, CallsStand
<1> QED
  BY <1>1, <1>2, <1>3 DEF BoundaryInv

(* A new boundary, and an attempt of its step, start with nothing entered. *)
LEMMA BeginKeepsBoundary ==
    ASSUME BoundaryInv, NEW t \in Tasks, Boundary(t) \/ Admit(t) PROVE BoundaryInv'
<1>1. /\ UNCHANGED <<policy, entries, future, admitted, queue, poisoned>>
      /\ stage[t] \in {"turn", "step"}
      /\ \E l \in {"step", "observe"} : stage' = [stage EXCEPT ![t] = l]
      /\ turn' = turn \/ turn' = [turn EXCEPT ![t] = @ + 1]
      /\ inspected' = inspected \/ inspected' = [inspected EXCEPT ![t] = {}]
  BY DEF Boundary, Admit, Goto
<1>2. BoundaryTypes'
  <2>1. turn' \in [Tasks -> Nat]
    <3>1. turn \in [Tasks -> Nat] /\ turn[t] + 1 \in Nat
      BY DEF BoundaryInv, BoundaryTypes
    <3>2. CASE turn' = turn
      BY <3>1, <3>2
    <3>3. CASE turn' = [turn EXCEPT ![t] = @ + 1]
      BY <3>1, <3>3
    <3> QED
      BY <1>1, <3>2, <3>3
  <2>2. stage' \in [Tasks -> {"turn", "step", "observe", "wait", "failed"}]
    BY <1>1 DEF BoundaryInv, BoundaryTypes
  <2>3. inspected' \in [Tasks -> SUBSET (1 .. NumObservers)]
    BY <1>1 DEF BoundaryInv, BoundaryTypes
  <2> QED
    BY <1>1, <2>1, <2>2, <2>3 DEF BoundaryInv, BoundaryTypes
<1>3. entries[t] = << >> /\ Len(entries[t]) = 0 /\ future[t] = "none"
  BY <1>1 DEF BoundaryInv, Asking
<1>4. ASSUME NEW u \in Tasks PROVE Asking(u)' /\ Assessed(u)' /\ (policy = "FAIL_ON_ERROR" => Continued(u)')
  <2>1. CASE u = t
    BY <1>1, <1>3, <2>1, BoundaryAssumption
       DEF BoundaryInv, BoundaryTypes, Asking, Assessed, Continued
  <2>2. CASE u # t
    BY <1>1, <2>2 DEF BoundaryInv, BoundaryTypes, Asking, Assessed, Continued, Next1
  <2> QED
    BY <2>1, <2>2
<1>5. CallsStand'
  <2>1. ASSUME NEW i \in 1 .. Len(queue) PROVE CallStands(queue[i])'
    <3>1. CallStands(queue[i]) /\ queue[i].task \in Tasks
      BY PooledCalls DEF BoundaryInv, CallsStand
    <3> QED
      BY <1>1, <3>1 DEF BoundaryInv, BoundaryTypes, CallStands, Next1
  <2> QED
    BY <1>1, <2>1 DEF BoundaryInv, CallsStand
<1> QED
  BY <1>1, <1>2, <1>4, <1>5 DEF BoundaryInv

(* The call at the end of the queue is the one its Task now waits for. *)
LEMMA SubmitKeepsBoundary ==
    ASSUME BoundaryInv, NEW t \in Tasks, Submit(t) PROVE BoundaryInv'
<1> DEFINE c == [task |-> t, turn |-> turn[t], observer |-> Next1(t), waiting |-> TRUE]
<1>1. /\ stage[t] = "observe" /\ Next1(t) \in 1 .. NumObservers /\ queue' = Append(queue, c)
      /\ future' = [future EXCEPT ![t] = "pending"] /\ stage' = [stage EXCEPT ![t] = "wait"]
      /\ UNCHANGED <<policy, turn, entries, admitted, poisoned, inspected>>
  BY DEF Submit, Goto
<1>2. c \in Pooled
  BY <1>1 DEF BoundaryInv, BoundaryTypes, Pooled
<1>3. BoundaryTypes'
  BY <1>1, <1>2 DEF BoundaryInv, BoundaryTypes
<1>4. ASSUME NEW u \in Tasks PROVE Asking(u)' /\ Assessed(u)' /\ (policy = "FAIL_ON_ERROR" => Continued(u)')
  <2>1. CASE u = t
    <3>1. stage'[t] = "wait" /\ future'[t] = "pending" /\ entries'[t] = entries[t]
          /\ Next1(t) <= NumObservers
      BY <1>1, BoundaryAssumption DEF BoundaryInv, BoundaryTypes
    <3> QED
      BY <1>1, <2>1, <3>1 DEF BoundaryInv, Asking, Assessed, Continued, Next1
  <2>2. CASE u # t
    <3>1. stage'[u] = stage[u] /\ future'[u] = future[u]
      BY <1>1, <2>2 DEF BoundaryInv, BoundaryTypes
    <3> QED
      BY <1>1, <3>1 DEF BoundaryInv, Asking, Assessed, Continued, Next1
  <2> QED
    BY <2>1, <2>2
<1>5. /\ Len(queue') = Len(queue) + 1 /\ queue'[Len(queue) + 1] = c
      /\ \A i \in 1 .. Len(queue) : queue'[i] = queue[i]
  BY <1>1 DEF BoundaryInv, BoundaryTypes
<1>6. \A i \in 1 .. Len(queue) : queue[i].waiting => queue[i].task # t
  BY <1>1 DEF BoundaryInv, CallsStand, CallStands
<1>7. ASSUME NEW i \in 1 .. Len(queue') PROVE CallStands(queue[i])'
  <2>1. CASE i \in 1 .. Len(queue)
    <3>1. CallStands(queue[i]) /\ queue[i].task \in Tasks
      BY <2>1, PooledCalls DEF BoundaryInv, CallsStand
    <3> QED
      BY <1>1, <1>5, <1>6, <2>1, <3>1 DEF BoundaryInv, BoundaryTypes, CallStands, Next1
  <2>2. CASE i = Len(queue) + 1
    BY <1>1, <1>5, <2>2 DEF BoundaryInv, BoundaryTypes, CallStands, Next1
  <2> QED
    BY <1>5, <2>1, <2>2, PooledCalls DEF BoundaryInv
<1>8. ASSUME NEW i \in 1 .. Len(queue'), NEW j \in 1 .. Len(queue'),
             queue'[i].waiting, queue'[j].waiting, queue'[i].task = queue'[j].task
      PROVE  i = j
  <2>1. Len(queue) \in Nat
    BY DEF BoundaryInv, BoundaryTypes
  <2>2. c.task = t
    OBVIOUS
  <2> HIDE DEF c
  <2> QED
    BY <1>5, <1>6, <1>8, <2>1, <2>2 DEF BoundaryInv, CallsStand
<1> QED
  BY <1>1, <1>3, <1>4, <1>7, <1>8 DEF BoundaryInv, CallsStand

(* What is entered for an observer: an assessment only if it inspected. *)
LEMMA EnterKeepsTask ==
    ASSUME BoundaryInv, NEW t \in Tasks, NEW e \in Entries, Enter(t, e), Next1(t) <= NumObservers,
           stage' = [stage EXCEPT ![t] = "observe"], future' = [future EXCEPT ![t] = "none"],
           UNCHANGED <<policy, turn, admitted, inspected>>,
           stage[t] \in {"observe", "wait"},
           e = "assessed" => Next1(t) \in inspected[t]
    PROVE  /\ entries' \in [Tasks -> Seq(Entries)]
           /\ \A u \in Tasks : Asking(u)' /\ Assessed(u)' /\ (policy = "FAIL_ON_ERROR" => Continued(u)')
<1>1. entries' = [entries EXCEPT ![t] = Append(@, e)] /\ entries[t] \in Seq(Entries)
  BY DEF Enter, BoundaryInv, BoundaryTypes
<1>2. entries' \in [Tasks -> Seq(Entries)]
  BY <1>1 DEF BoundaryInv, BoundaryTypes
<1>3. /\ entries'[t] = Append(entries[t], e) /\ Len(entries'[t]) = Len(entries[t]) + 1
      /\ entries'[t][Len(entries[t]) + 1] = e
      /\ \A i \in 1 .. Len(entries[t]) : entries'[t][i] = entries[t][i]
  BY <1>1 DEF BoundaryInv, BoundaryTypes
<1>4. ASSUME NEW u \in Tasks PROVE Asking(u)' /\ Assessed(u)' /\ (policy = "FAIL_ON_ERROR" => Continued(u)')
  <2>1. CASE u = t
    <3>1. Len(entries[t]) \in Nat
      BY <1>1
    <3>2. Asking(t)' /\ Continued(t)'
      BY <1>3, <3>1 DEF BoundaryInv, BoundaryTypes, Asking, Continued, Next1
    <3>3. Assessed(t)'
      BY <1>3, <3>1 DEF BoundaryInv, BoundaryTypes, Assessed, Next1
    <3> QED
      BY <2>1, <3>2, <3>3
  <2>2. CASE u # t
    BY <1>1, <2>2 DEF BoundaryInv, BoundaryTypes, Asking, Assessed, Continued, Next1
  <2> QED
    BY <2>1, <2>2
<1> QED
  BY <1>2, <1>4

(* No call of t is waited for, and the calls of the others stand. *)
LEMMA OthersStand ==
    ASSUME BoundaryInv, NEW t \in Tasks,
           \A i \in 1 .. Len(queue) : queue[i].waiting => queue[i].task # t,
           \A u \in Tasks \ {t} : stage'[u] = stage[u] /\ future'[u] = future[u]
                                  /\ entries'[u] = entries[u] /\ turn'[u] = turn[u],
           UNCHANGED queue
    PROVE  CallsStand'
<1>1. ASSUME NEW i \in 1 .. Len(queue) PROVE CallStands(queue[i])'
  <2>1. CallStands(queue[i]) /\ queue[i].task \in Tasks
    BY PooledCalls DEF BoundaryInv, CallsStand
  <2> QED
    BY <2>1 DEF CallStands, Next1
<1> QED
  BY <1>1 DEF BoundaryInv, CallsStand

(* A skipped observer and a collected answer each make one entry and no    *)
(* call.                                                                   *)
LEMMA SkipKeepsBoundary ==
    ASSUME BoundaryInv, NEW t \in Tasks, SkipPoisoned(t) \/ Collect(t) PROVE BoundaryInv'
<1>1. PICK e \in Entries :
        /\ Enter(t, e) /\ stage[t] \in {"observe", "wait"} /\ (stage[t] = "wait" => future[t] # "pending")
        /\ stage' = [stage EXCEPT ![t] = "observe"] /\ future' = [future EXCEPT ![t] = "none"]
        /\ UNCHANGED <<policy, turn, admitted, inspected, queue>>
        /\ Next1(t) <= NumObservers
        /\ e = "assessed" => Next1(t) \in inspected[t]
  <2>1. CASE SkipPoisoned(t)
    <3>1. future[t] = "none" /\ future \in [Tasks -> {"none", "pending", "assessed", "observer_error"}]
          /\ stage \in [Tasks -> {"turn", "step", "observe", "wait", "failed"}]
          /\ stage[t] = "observe" /\ UNCHANGED <<stage, future>>
      BY <2>1 DEF SkipPoisoned, BoundaryInv, BoundaryTypes, Asking
    <3>2. stage' = [stage EXCEPT ![t] = "observe"] /\ future' = [future EXCEPT ![t] = "none"]
      BY <3>1
    <3>3. Next1(t) <= NumObservers
      <4>1. Next1(t) \in poisoned /\ poisoned \subseteq 1 .. NumObservers
        BY <2>1 DEF SkipPoisoned, BoundaryInv, BoundaryTypes
      <4>2. NumObservers \in Nat
        BY BoundaryAssumption
      <4>3. Next1(t) \in 1 .. NumObservers
        BY <4>1
      <4> QED
        BY <4>2, <4>3
    <3>4. Enter(t, "skipped_poisoned") /\ UNCHANGED <<policy, turn, admitted, inspected, queue>>
      BY <2>1 DEF SkipPoisoned
    <3>5. "skipped_poisoned" \in Entries /\ "skipped_poisoned" # "assessed"
      BY DEF Entries, Failures
    <3> QED
      BY <3>1, <3>2, <3>3, <3>4, <3>5
  <2>2. CASE Collect(t)
    BY <2>2 DEF Collect, Goto, Entries, Failures, BoundaryInv, BoundaryTypes, Asking, Assessed
  <2> QED
    BY <2>1, <2>2
<1>2. \A i \in 1 .. Len(queue) : queue[i].waiting => queue[i].task # t
  BY <1>1 DEF BoundaryInv, CallsStand, CallStands
<1>3. \A u \in Tasks \ {t} : stage'[u] = stage[u] /\ future'[u] = future[u]
                             /\ entries'[u] = entries[u] /\ turn'[u] = turn[u]
  BY <1>1 DEF BoundaryInv, BoundaryTypes, Enter
<1>4. CallsStand'
  BY <1>1, <1>2, <1>3, OthersStand
<1>5. /\ entries' \in [Tasks -> Seq(Entries)]
      /\ \A u \in Tasks : Asking(u)' /\ Assessed(u)' /\ (policy = "FAIL_ON_ERROR" => Continued(u)')
  BY <1>1, EnterKeepsTask
<1> QED
  BY <1>1, <1>4, <1>5 DEF BoundaryInv, BoundaryTypes, SkipPoisoned, Collect

(* The calls of t are waited for no longer, its admission goes on. *)
LEMMA TimeoutKeepsBoundary ==
    ASSUME BoundaryInv, NEW t \in Tasks, Timeout(t) PROVE BoundaryInv'
<1>1. /\ stage[t] = "wait" /\ Enter(t, "budget_exceeded") /\ queue' = Abandoned(t)
      /\ stage' = [stage EXCEPT ![t] = "observe"] /\ future' = [future EXCEPT ![t] = "none"]
      /\ poisoned' = poisoned \cup {Next1(t)} /\ UNCHANGED <<policy, turn, admitted, inspected>>
  BY DEF Timeout, Goto
<1>2. Next1(t) \in 1 .. NumObservers
  <2>1. Len(entries[t]) \in Nat /\ Next1(t) <= NumObservers /\ NumObservers \in Nat
    BY <1>1, BoundaryAssumption DEF BoundaryInv, BoundaryTypes, Asking
  <2> QED
    BY <2>1 DEF Next1
<1>3. /\ entries' \in [Tasks -> Seq(Entries)]
      /\ \A u \in Tasks : Asking(u)' /\ Assessed(u)' /\ (policy = "FAIL_ON_ERROR" => Continued(u)')
  <2>1. "budget_exceeded" \in Entries /\ "budget_exceeded" # "assessed" /\ Next1(t) <= NumObservers
    BY <1>2, BoundaryAssumption DEF Entries, Failures
  <2> QED
    BY <1>1, <2>1, EnterKeepsTask
<1>4. /\ queue' \in Seq(Pooled) /\ Len(queue') = Len(queue)
      /\ \A i \in 1 .. Len(queue) : queue'[i] = IF queue[i].task = t THEN [queue[i] EXCEPT !.waiting = FALSE]
                                                ELSE queue[i]
  <2>1. queue \in Seq(Pooled) /\ Len(queue) \in Nat
    BY DEF BoundaryInv, BoundaryTypes
  <2>2. \A i \in 1 .. Len(queue) : queue[i] \in Pooled /\ [queue[i] EXCEPT !.waiting = FALSE] \in Pooled
    BY PooledCalls DEF BoundaryInv, Pooled
  <2>3. queue' \in [1 .. Len(queue) -> Pooled]
    BY <1>1, <2>2 DEF Abandoned
  <2>4. queue' \in Seq(Pooled) /\ Len(queue') = Len(queue)
    BY <2>1, <2>3
  <2> QED
    BY <1>1, <2>4 DEF Abandoned
<1>5. ASSUME NEW i \in 1 .. Len(queue)
      PROVE  /\ queue'[i].waiting => queue[i].waiting /\ queue[i].task # t
             /\ queue'[i].task = queue[i].task /\ queue[i].task \in Tasks
             /\ queue[i].task # t => queue'[i] = queue[i]
  <2>1. queue[i] \in Pooled /\ queue[i].task \in Tasks
    BY PooledCalls DEF BoundaryInv
  <2>2. [queue[i] EXCEPT !.waiting = FALSE].waiting = FALSE
        /\ [queue[i] EXCEPT !.waiting = FALSE].task = queue[i].task
    BY <2>1 DEF Pooled
  <2> QED
    BY <1>4, <2>1, <2>2
<1>6. ASSUME NEW i \in 1 .. Len(queue') PROVE CallStands(queue[i])'
  <2> SUFFICES ASSUME queue'[i].waiting PROVE CallStands(queue[i])'
    BY DEF CallStands
  <2>1. queue'[i] = queue[i] /\ queue[i].task \in Tasks \ {t} /\ CallStands(queue[i])
    BY <1>4, <1>5 DEF BoundaryInv, CallsStand
  <2> QED
    BY <1>1, <2>1 DEF BoundaryInv, BoundaryTypes, CallStands, Next1, Enter
<1>7. CallsStand'
  BY <1>4, <1>5, <1>6 DEF BoundaryInv, CallsStand
<1> QED
  BY <1>1, <1>2, <1>3, <1>4, <1>7 DEF BoundaryInv, BoundaryTypes

(* Under FAIL_ON_ERROR a Task continues when all observers inspected. *)
LEMMA SettleKeepsBoundary ==
    ASSUME BoundaryInv, NEW t \in Tasks, Settle(t) PROVE BoundaryInv'
<1>1. /\ stage[t] = "observe" /\ Next1(t) > NumObservers
      /\ entries' = [entries EXCEPT ![t] = << >>]
      /\ UNCHANGED <<policy, turn, future, queue, poisoned, inspected>>
  BY DEF Settle
<1>2. \/ admitted' = admitted /\ \E l \in {"step", "failed"} : stage' = [stage EXCEPT ![t] = l]
      \/ /\ policy # "FAIL_ON_ERROR" \/ ~Failing(t)
         /\ admitted' = [admitted EXCEPT ![t] = [turn |-> turn[t], entries |-> entries[t]]]
         /\ stage' = [stage EXCEPT ![t] = "turn"]
  BY DEF Settle, Goto
<1>3. BoundaryTypes'
  <2>1. stage' \in [Tasks -> {"turn", "step", "observe", "wait", "failed"}]
    BY <1>2 DEF BoundaryInv, BoundaryTypes
  <2>2. entries' \in [Tasks -> Seq(Entries)]
    BY <1>1 DEF BoundaryInv, BoundaryTypes
  <2>3. DOMAIN admitted' = Tasks
    BY <1>2 DEF BoundaryInv, BoundaryTypes
  <2> QED
    BY <1>1, <2>1, <2>2, <2>3 DEF BoundaryInv, BoundaryTypes
<1>4. entries[t] \in Seq(Entries) /\ Len(entries[t]) = NumObservers /\ NumObservers \in Nat
  BY <1>1, BoundaryAssumption DEF BoundaryInv, BoundaryTypes, Asking, Next1
<1>5. ~Failing(t) => /\ entries[t] = [o \in 1 .. NumObservers |-> "assessed"]
                     /\ inspected[t] = 1 .. NumObservers
  <2> SUFFICES ASSUME ~Failing(t) PROVE /\ entries[t] = [o \in 1 .. NumObservers |-> "assessed"]
                                        /\ inspected[t] = 1 .. NumObservers
    OBVIOUS
  <2>1. \A i \in 1 .. NumObservers : entries[t][i] = "assessed"
    BY <1>4 DEF Failing, Entries
  <2>2. entries[t] = [o \in 1 .. NumObservers |-> "assessed"]
    BY <1>4, <2>1
  <2>3. \A i \in 1 .. NumObservers : i \in inspected[t]
    BY <1>4, <2>1 DEF BoundaryInv, Assessed
  <2> QED
    BY <2>2, <2>3 DEF BoundaryInv, BoundaryTypes
<1>6. ASSUME NEW u \in Tasks PROVE Asking(u)' /\ Assessed(u)' /\ (policy = "FAIL_ON_ERROR" => Continued(u)')
  <2>1. CASE u = t
    <3>1. entries'[t] = << >> /\ Len(entries'[t]) = 0 /\ future[t] = "none" /\ stage'[t] # "wait"
      BY <1>1, <1>2 DEF BoundaryInv, BoundaryTypes, Asking
    <3>2. Asking(t)' /\ Assessed(t)'
      BY <1>1, <1>4, <3>1 DEF Asking, Assessed
    <3>3. policy = "FAIL_ON_ERROR" => Continued(t)'
      BY <1>1, <1>2, <1>5 DEF BoundaryInv, BoundaryTypes, Continued
    <3> QED
      BY <2>1, <3>2, <3>3
  <2>2. CASE u # t
    BY <1>1, <1>2, <2>2 DEF BoundaryInv, BoundaryTypes, Asking, Assessed, Continued, Next1
  <2> QED
    BY <2>1, <2>2
<1>7. CallsStand'
  <2>1. \A i \in 1 .. Len(queue) : queue[i].waiting => queue[i].task # t
    BY <1>1 DEF BoundaryInv, CallsStand, CallStands
  <2>2. \A u \in Tasks \ {t} : stage'[u] = stage[u] /\ future'[u] = future[u]
                               /\ entries'[u] = entries[u] /\ turn'[u] = turn[u]
    BY <1>1, <1>2 DEF BoundaryInv, BoundaryTypes
  <2> QED
    BY <1>1, <2>1, <2>2, OthersStand
<1> QED
  BY <1>1, <1>3, <1>6, <1>7 DEF BoundaryInv

(* The thread: a late call inspects a boundary at most, and tells nobody. *)
LEMMA InspectKeepsBoundary ==
    ASSUME BoundaryInv, Inspect PROVE BoundaryInv'
<1> DEFINE c == Head(queue)
<1>1. /\ queue # << >> /\ queue' = Tail(queue)
      /\ UNCHANGED <<policy, turn, stage, entries, admitted, poisoned>>
      /\ inspected' = IF c.turn = turn[c.task]
                      THEN [inspected EXCEPT ![c.task] = @ \cup {c.observer}] ELSE inspected
  BY DEF Inspect
<1>2. PICK r \in {"assessed", "observer_error"} :
        future' = IF c.waiting THEN [future EXCEPT ![c.task] = r] ELSE future
  BY DEF Inspect
<1>3. /\ queue \in Seq(Pooled) /\ c = queue[1] /\ c \in Pooled /\ 1 \in 1 .. Len(queue)
      /\ queue' \in Seq(Pooled) /\ Len(queue') = Len(queue) - 1 /\ Len(queue) \in Nat
      /\ \A i \in 1 .. Len(queue') : queue'[i] = queue[i + 1] /\ i + 1 \in 1 .. Len(queue)
  <2>1. queue \in Seq(Pooled) /\ queue # << >>
    BY <1>1 DEF BoundaryInv, BoundaryTypes
  <2> HIDE DEF BoundaryInv
  <2> QED
    BY <1>1, <2>1
<1>4. /\ c.task \in Tasks /\ c.observer \in 1 .. NumObservers /\ CallStands(c)
      /\ \A i \in 1 .. Len(queue) : queue[i].task \in Tasks
  BY <1>3, PooledCalls DEF BoundaryInv, CallsStand
<1> HIDE DEF c
<1>5. BoundaryTypes'
  BY <1>1, <1>2, <1>3, <1>4 DEF BoundaryInv, BoundaryTypes
<1>6. \A u \in Tasks : inspected[u] \subseteq inspected'[u] /\ inspected'[u] \subseteq 1 .. NumObservers
  BY <1>1, <1>4 DEF BoundaryInv, BoundaryTypes
<1>7. ASSUME NEW u \in Tasks PROVE Asking(u)' /\ Assessed(u)' /\ (policy = "FAIL_ON_ERROR" => Continued(u)')
  <2>1. CASE c.waiting /\ u = c.task
    <3>1. stage[u] = "wait" /\ c.turn = turn[u] /\ c.observer = Next1(u) /\ future'[u] = r
          /\ Next1(u) \in inspected'[u]
      BY <1>1, <1>2, <1>4, <2>1 DEF BoundaryInv, BoundaryTypes, CallStands
    <3> QED
      BY <1>1, <1>6, <3>1 DEF BoundaryInv, Asking, Assessed, Continued, Next1
  <2>2. CASE ~(c.waiting /\ u = c.task)
    <3>1. future'[u] = future[u]
      BY <1>2, <1>4, <2>2 DEF BoundaryInv, BoundaryTypes
    <3> QED
      BY <1>1, <1>6, <3>1 DEF BoundaryInv, Asking, Assessed, Continued, Next1
  <2> QED
    BY <2>1, <2>2
<1>8. ASSUME NEW i \in 1 .. Len(queue') PROVE CallStands(queue[i])'
  <2> SUFFICES ASSUME queue'[i].waiting PROVE CallStands(queue[i])'
    BY DEF CallStands
  <2>1. queue'[i] = queue[i + 1] /\ i + 1 \in 1 .. Len(queue) /\ CallStands(queue[i + 1])
    BY <1>3 DEF BoundaryInv, CallsStand
  <2>2. c.waiting => queue[i + 1].task # c.task
    <3>1. i + 1 # 1
      BY <1>3
    <3> QED
      BY <1>3, <2>1, <3>1 DEF BoundaryInv, CallsStand
  <2>3. future'[queue[i + 1].task] = future[queue[i + 1].task]
    BY <1>2, <1>4, <2>1, <2>2 DEF BoundaryInv, BoundaryTypes
  <2> QED
    BY <1>1, <2>1, <2>3 DEF CallStands, Next1
<1>9. ASSUME NEW i \in 1 .. Len(queue'), NEW j \in 1 .. Len(queue'),
             queue'[i].waiting, queue'[j].waiting, queue'[i].task = queue'[j].task
      PROVE  i = j
  <2>1. i + 1 = j + 1
    BY <1>3, <1>9 DEF BoundaryInv, CallsStand
  <2> QED
    BY <2>1
<1> QED
  BY <1>1, <1>5, <1>7, <1>8, <1>9 DEF BoundaryInv, CallsStand

(* A restarted runtime waits for nothing and asks again. *)
LEMMA RestartKeepsBoundary ==
    ASSUME BoundaryInv, Restart PROVE BoundaryInv'
<1>1. /\ queue' = << >> /\ poisoned' = {} /\ UNCHANGED <<policy, turn, admitted>>
      /\ stage' = [t \in Tasks |-> IF stage[t] \in {"turn", "failed"} THEN stage[t] ELSE "step"]
      /\ entries' = [t \in Tasks |-> << >>] /\ future' = [t \in Tasks |-> "none"]
      /\ inspected' = [t \in Tasks |-> IF stage[t] = "turn" THEN inspected[t] ELSE {}]
  BY DEF Restart
<1>2. BoundaryTypes'
  BY <1>1 DEF BoundaryInv, BoundaryTypes
<1>3. ASSUME NEW u \in Tasks PROVE Asking(u)' /\ Assessed(u)' /\ (policy = "FAIL_ON_ERROR" => Continued(u)')
  <2>1. entries'[u] = << >> /\ Len(entries'[u]) = 0 /\ future'[u] = "none" /\ stage'[u] # "wait"
        /\ (stage'[u] = "turn" => stage[u] = "turn" /\ inspected'[u] = inspected[u])
    BY <1>1 DEF BoundaryInv, BoundaryTypes
  <2> QED
    BY <1>1, <2>1, BoundaryAssumption DEF BoundaryInv, Asking, Assessed, Continued
<1>4. CallsStand'
  BY <1>1 DEF CallsStand
<1> QED
  BY <1>1, <1>2, <1>3, <1>4 DEF BoundaryInv

(* Every step of a Task, of the pool's thread and a restart keep           *)
(* BoundaryInv.                                                            *)
LEMMA BoundaryStep == BoundaryInv /\ [BoundaryNext]_boundaryVars => BoundaryInv'
<1> SUFFICES ASSUME BoundaryInv, [BoundaryNext]_boundaryVars PROVE BoundaryInv'
  OBVIOUS
<1>1. CASE UNCHANGED boundaryVars
  BY <1>1 DEF boundaryVars, taskVars, BoundaryInv, BoundaryTypes, CallsStand, CallStands,
     Asking,
     Assessed, Continued, Next1
<1>2. CASE BoundaryNext
  BY <1>2, BeginKeepsBoundary, SubmitKeepsBoundary, SkipKeepsBoundary, TimeoutKeepsBoundary,
     SettleKeepsBoundary, InspectKeepsBoundary, RestartKeepsBoundary DEF BoundaryNext, Step
<1> QED
  BY <1>1, <1>2

(* Under FAIL_ON_ERROR a model continues only where every observer inspected *)
(* this very boundary and assessed it, for any number of Tasks that share    *)
(* the pool, of turns, attempts and restarts: not on another Task's call, an *)
(* abandoned one or one made before a restart (ControlPath.admit).           *)
THEOREM ContinuationIsAssessed == BoundarySpec => []AdmittedIsAssessed
<1>1. BoundaryInv => AdmittedIsAssessed
  BY DEF BoundaryInv, Continued, AdmittedIsAssessed
<1> QED
  BY <1>1, BoundaryStarts, BoundaryStep, PTL DEF BoundarySpec
=============================================================================
