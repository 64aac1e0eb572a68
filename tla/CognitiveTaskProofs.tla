------------------------ MODULE CognitiveTaskProofs ------------------------
(***************************************************************************)
(* What the turn loop keeps, for every turn limit, budget, allocation and  *)
(* number of amendments, changes and crashes: cognition gets the Task as   *)
(* it is, a worker gets the context as it is, and the run never goes on    *)
(* without a child it launched.                                            *)
(***************************************************************************)
EXTENDS CognitiveTask, TLAPS

(* What a handoff prepared is the next turn's packet until it is taken, and  *)
(* an applied amendment voids it.                                            *)
PreparedIsCurrent ==
    \/ prepared = NoPacket
    \/ pc = "turn" /\ prepared = Fresh(turn + 1)
    \/ pc \in {"amend", "bind", "context"} /\ prepared = Fresh(turn)
    \/ pc = "end"

PacketInv == PreparedIsCurrent /\ PacketIsCurrent

(* The children of a turn, in slot order; those before joined were awaited,  *)
(* and outside the join all were.                                            *)
Child == [state : {"running", "COMPLETED", "raised", "malformed"},
          seen : {"none", "COMPLETED", "FAILED", "malformed"}]
Awaited(slot) == pc \notin {"join", "end"} \/ slot <= joined
FamilyInv ==
    /\ children \in Seq(Child) /\ joined \in 0 .. Len(children)
    /\ \A slot \in 1 .. Len(children) :
         Awaited(slot) =>
             \/ Joined(slot)
             \/ /\ cancel = "delivered" /\ children[slot].seen = "FAILED"
                /\ \A other \in 1 .. Len(children) \ {slot} : Awaited(other) => Joined(other)

(* What a child's end and its join leave of the sequence. *)
LEMMA ChildSeen ==
    ASSUME children \in Seq(Child), NEW k \in 1 .. Len(children),
           NEW v \in {"COMPLETED", "FAILED", "malformed"},
           NEW c, c = [children EXCEPT ![k].seen = v]
    PROVE  /\ c \in Seq(Child) /\ Len(c) = Len(children)
           /\ \A i \in 1 .. Len(children) \ {k} : c[i] = children[i]
           /\ c[k].state = children[k].state /\ c[k].seen = v
<1>0. children[k] \in Child
  OBVIOUS
<1>1. [children[k] EXCEPT !.seen = v] \in Child
  BY <1>0 DEF Child
<1>2. [children[k] EXCEPT !.seen = v].state = children[k].state
      /\ [children[k] EXCEPT !.seen = v].seen = v
  BY <1>0 DEF Child
<1>3. c = [children EXCEPT ![k] = [children[k] EXCEPT !.seen = v]]
  OBVIOUS
<1> QED
  BY <1>1, <1>2, <1>3

(* The same for its state. *)
LEMMA ChildState ==
    ASSUME children \in Seq(Child), NEW k \in 1 .. Len(children),
           NEW v \in {"COMPLETED", "raised", "malformed"},
           NEW c, c = [children EXCEPT ![k].state = v]
    PROVE  /\ c \in Seq(Child) /\ Len(c) = Len(children)
           /\ \A i \in 1 .. Len(children) \ {k} : c[i] = children[i]
           /\ c[k].seen = children[k].seen
<1>0. children[k] \in Child
  OBVIOUS
<1>1. [children[k] EXCEPT !.state = v] \in Child
      /\ [children[k] EXCEPT !.state = v].seen = children[k].seen
  BY <1>0 DEF Child
<1>2. c = [children EXCEPT ![k] = [children[k] EXCEPT !.state = v]]
  OBVIOUS
<1> QED
  BY <1>1, <1>2

(* Nothing a packet names changes between its construction and its use. *)
LEMMA PacketStep == PacketInv /\ [Next]_vars => PacketInv'
<1> SUFFICES ASSUME PacketInv, [Next]_vars PROVE PacketInv'
  OBVIOUS
<1> USE DEF PacketInv, PreparedIsCurrent, PacketIsCurrent, Fresh, loop, context
<1>1. CASE SettleAccepted
  BY <1>1 DEF SettleAccepted, Settling, Settle, Fail
<1>2. CASE SettleAmended
  BY <1>2 DEF SettleAmended, Settling, Settle, Fail
<1>3. CASE SettleEffect
  BY <1>3 DEF SettleEffect, Settling, Settle, Fail
<1>4. CASE SettleRequest
  BY <1>4 DEF SettleRequest, Settling, Settle, Fail
<1>5. CASE SettleRead
  BY <1>5 DEF SettleRead, Settling, Settle, Fail
<1>6. CASE SettleOutcome
  BY <1>6 DEF SettleOutcome, Settling, Settle, Fail
<1>7. CASE SettleHandoff
  BY <1>7 DEF SettleHandoff, Settling, Settle, Fail
<1>8. CASE InitialCompile
  BY <1>8 DEF InitialCompile
<1>9. CASE BeginTurn
  BY <1>9 DEF BeginTurn, Fail
<1>10. CASE AdmitAmendment
  BY <1>10 DEF AdmitAmendment, ApplyAmendment
<1>11. CASE Route
  BY <1>11 DEF Route
<1>12. CASE Bind
  BY <1>12 DEF Bind, Fail
<1>13. CASE Reconstruct
  BY <1>13 DEF Reconstruct
<1>14. CASE Decide
  BY <1>14 DEF Decide, Fail
<1>15. CASE Deny
  BY <1>15 DEF Deny
<1>16. CASE Execute
  BY <1>16 DEF Execute
<1>17. CASE ContextRequest
  BY <1>17 DEF ContextRequest
<1>18. CASE WorkerRun
  BY <1>18 DEF WorkerRun
<1>19. CASE GuardDelivery \/ GuardAdmission \/ ValidateSources \/ GuardAgain \/ WorkerDispatch
  BY <1>19 DEF GuardDelivery, GuardAdmission, ValidateSources, GuardAgain, Guarded, WorkerDispatch
<1>20. CASE WorkerReturns
  BY <1>20 DEF WorkerReturns
<1>21. CASE ReadWorkspace
  BY <1>21 DEF ReadWorkspace
<1>22. CASE Handoff
  BY <1>22 DEF Handoff
<1>23. ASSUME NEW b \in Batches, Spawn(b) PROVE PacketInv'
  BY <1>23 DEF Spawn
<1>24. CASE BeginRead
  BY <1>24 DEF BeginRead
<1>25. CASE ReceiveRead
  BY <1>25 DEF ReceiveRead
<1>26. CASE JoinChild
  BY <1>26 DEF JoinChild
<1>27. CASE JoinDone
  BY <1>27 DEF JoinDone, Fail
<1>28. CASE Prepare
  BY <1>28 DEF Prepare
<1>29. CASE Crash
  BY <1>29 DEF Crash, Attempt
<1>30. CASE StepFails
  BY <1>30 DEF StepFails, Fail
<1>31. CASE ReadWait
  BY <1>31 DEF ReadWait
<1>32. CASE ResolveRead
  BY <1>32 DEF ResolveRead
<1>33. CASE CancelTask
  BY <1>33 DEF CancelTask
<1>34. CASE LiveChanges
  BY <1>34 DEF LiveChanges, Attempt
<1>35. ASSUME NEW slot \in DOMAIN children, ChildEnds(slot) PROVE PacketInv'
  BY <1>35 DEF ChildEnds
<1>36. CASE UNCHANGED vars
  BY <1>36 DEF vars
<1> QED
  BY <1>1, <1>2, <1>3, <1>4, <1>5, <1>6, <1>7, <1>8, <1>9, <1>10, <1>11, <1>12, <1>13,
     <1>14, <1>15, <1>16, <1>17, <1>18, <1>19, <1>20, <1>21, <1>22, <1>23, <1>24, <1>25,
     <1>26, <1>27, <1>28, <1>29, <1>30, <1>31, <1>32, <1>33, <1>34, <1>35, <1>36
     DEF Next, Run, Act, Environment

(* What an attempt has established when it got this far: its guards read   *)
(* the binding, then the sources, then the binding again, each at a moment *)
(* of the attempt that a later change does not take back.                  *)
Lives == [binding : Versions, source : Versions]
Delivering == Attempt \cup {"worker"}
BoundAt(i) == since[i].binding = plane.admission.binding
SourcedAt(j) == since[j].source = plane.admission.source
DeliveryInv ==
    /\ live \in Lives /\ since \in Seq(Lives)
    /\ pc \in Attempt => Len(since) # 0 /\ since[Len(since)] = live
    /\ pc \in {"bound", "sourced", "dispatch", "worker"} =>
         /\ plane.admission.contract = contract.revision
         /\ \E i \in 1 .. Len(since) : BoundAt(i)
    /\ pc \in {"sourced", "dispatch", "worker"} =>
         \E i, j \in 1 .. Len(since) : i <= j /\ BoundAt(i) /\ SourcedAt(j)
    /\ pc \in {"dispatch", "worker"} =>
         \E i, j, k \in 1 .. Len(since) : i <= j /\ j <= k /\ BoundAt(i) /\ SourcedAt(j) /\ BoundAt(k)

(* A run that is not delivering has established nothing yet. *)
LEMMA NotDelivering ==
    ASSUME DeliveryInv, UNCHANGED <<since, live>>, pc' \notin Delivering
    PROVE  DeliveryInv'
BY DEF DeliveryInv, Delivering, Attempt

(* A guard that passes adds its read, of the live context at that moment. *)
LEMMA GuardStep ==
    ASSUME DeliveryInv, GuardDelivery \/ GuardAdmission \/ ValidateSources \/ GuardAgain \/ WorkerDispatch
    PROVE  DeliveryInv'
<1>1. UNCHANGED <<live, plane, contract>>
  BY DEF GuardDelivery, GuardAdmission, ValidateSources, GuardAgain, WorkerDispatch, Guarded,
         loop, context, world
<1>2. CASE pc' = "effect" /\ since' = <<>>
  <2>1. since' \in Seq(Lives)
    BY <1>2
  <2> QED BY <1>1, <1>2, <2>1 DEF DeliveryInv, Attempt
<1>3. CASE UNCHANGED since
  <2>1. \A i : (BoundAt(i)' <=> BoundAt(i)) /\ (SourcedAt(i)' <=> SourcedAt(i))
    BY <1>1, <1>3 DEF BoundAt, SourcedAt
  <2>2. Len(since) \in Nat
    BY DEF DeliveryInv
  <2> DEFINE n == Len(since)
  <2>3. CASE pc = "deliver" /\ pc' = "guard"
    BY <1>1, <1>3, <2>3 DEF DeliveryInv, Attempt
  <2>4. CASE GuardAdmission /\ pc' = "bound"
    <3>1. /\ pc = "guard" /\ n \in 1 .. n /\ BoundAt(n)
          /\ plane.admission.contract = contract.revision /\ since[n] = live
      BY <2>2, <2>4 DEF GuardAdmission, Guarded, AdmittedBinding, DeliveryInv, Attempt, BoundAt
    <3> QED BY <1>1, <1>3, <2>1, <2>4, <3>1 DEF DeliveryInv, Attempt
  <2>5. CASE ValidateSources /\ pc' = "sourced"
    <3>1. /\ pc = "bound" /\ n \in 1 .. n /\ SourcedAt(n) /\ since[n] = live
      BY <2>2, <2>5 DEF ValidateSources, Guarded, DeliveryInv, Attempt, SourcedAt
    <3>2. PICK i \in 1 .. n : BoundAt(i) /\ i <= n
      BY <2>2, <3>1 DEF DeliveryInv
    <3>3. \E h, j \in 1 .. n : h <= j /\ BoundAt(h) /\ SourcedAt(j)
      BY <3>1, <3>2
    <3> QED BY <1>1, <1>3, <2>1, <2>5, <3>1, <3>2, <3>3 DEF DeliveryInv, Attempt
  <2>6. CASE GuardAgain /\ pc' = "dispatch"
    <3>1. /\ pc = "sourced" /\ n \in 1 .. n /\ BoundAt(n) /\ since[n] = live
      BY <2>2, <2>6 DEF GuardAgain, Guarded, AdmittedBinding, DeliveryInv, Attempt, BoundAt
    <3>2. PICK i, j \in 1 .. n : i <= j /\ BoundAt(i) /\ SourcedAt(j) /\ j <= n
      BY <2>2, <3>1 DEF DeliveryInv
    <3>3. \E h, l, k \in 1 .. n : h <= l /\ l <= k /\ BoundAt(h) /\ SourcedAt(l) /\ BoundAt(k)
      BY <3>1, <3>2
    <3> QED BY <1>1, <1>3, <2>1, <2>6, <3>1, <3>2, <3>3 DEF DeliveryInv, Attempt
  <2>7. CASE WorkerDispatch
    <3>1. pc = "dispatch" /\ pc' = "worker"
      BY <2>7 DEF WorkerDispatch
    <3> QED BY <1>1, <1>3, <2>1, <3>1 DEF DeliveryInv, Attempt
  <2>8. CASE pc' = "effect"
    BY <1>1, <1>3, <2>8, NotDelivering DEF Delivering, Attempt
  <2> QED BY <2>3, <2>4, <2>5, <2>6, <2>7, <2>8
        DEF GuardDelivery, GuardAdmission, ValidateSources, GuardAgain, Guarded
<1> QED BY <1>2, <1>3
      DEF GuardDelivery, GuardAdmission, ValidateSources, GuardAgain, WorkerDispatch, Guarded, ghosts

(* A change of the live context during the attempt takes no read back. *)
LEMMA ChangeStep ==
    ASSUME DeliveryInv, LiveChanges
    PROVE  DeliveryInv'
<1>1. live' \in Lives /\ UNCHANGED <<pc, plane, contract>>
  BY DEF LiveChanges, DeliveryInv, Lives, loop, context
<1>2. CASE pc \notin Attempt /\ UNCHANGED since
  <2>1. \A i : (BoundAt(i)' <=> BoundAt(i)) /\ (SourcedAt(i)' <=> SourcedAt(i))
    BY <1>1, <1>2 DEF BoundAt, SourcedAt
  <2> QED BY <1>1, <1>2, <2>1 DEF DeliveryInv
<1>3. CASE since' = Append(since, live')
  <2> HIDE DEF Lives
  <2>1. /\ since' \in Seq(Lives) /\ Len(since') = Len(since) + 1 /\ Len(since) \in Nat
        /\ since'[Len(since')] = live'
        /\ \A i \in 1 .. Len(since) : since'[i] = since[i] /\ i \in 1 .. Len(since')
    BY <1>1, <1>3 DEF DeliveryInv
  <2>2. \A i \in 1 .. Len(since) : (BoundAt(i) => BoundAt(i)') /\ (SourcedAt(i) => SourcedAt(i)')
    BY <1>1, <2>1 DEF BoundAt, SourcedAt
  <2>3. /\ live' \in Lives /\ since' \in Seq(Lives)
        /\ Len(since') # 0 /\ since'[Len(since')] = live'
    BY <1>1, <2>1
  <2>4. ASSUME pc \in {"bound", "sourced", "dispatch", "worker"}
        PROVE  \E i \in 1 .. Len(since') : BoundAt(i)'
    BY <2>1, <2>2, <2>4 DEF DeliveryInv
  <2>5. ASSUME pc \in {"sourced", "dispatch", "worker"}
        PROVE  \E i, j \in 1 .. Len(since') : i <= j /\ BoundAt(i)' /\ SourcedAt(j)'
    BY <2>1, <2>2, <2>5 DEF DeliveryInv
  <2>6. ASSUME pc \in {"dispatch", "worker"}
        PROVE  \E i, j, k \in 1 .. Len(since') :
                   i <= j /\ j <= k /\ BoundAt(i)' /\ SourcedAt(j)' /\ BoundAt(k)'
    BY <2>1, <2>2, <2>6 DEF DeliveryInv
  <2> QED BY <1>1, <2>3, <2>4, <2>5, <2>6 DEF DeliveryInv
<1> QED BY <1>2, <1>3 DEF LiveChanges

(* Every step keeps what an attempt has established. *)
LEMMA DeliveryStep == DeliveryInv /\ [Next]_vars => DeliveryInv'
<1> SUFFICES ASSUME DeliveryInv, [Next]_vars PROVE DeliveryInv'
  OBVIOUS
<1>1. CASE \/ SettleAccepted \/ SettleAmended \/ SettleEffect \/ SettleRequest \/ SettleRead
           \/ SettleOutcome \/ SettleHandoff
  <2>1. UNCHANGED <<since, live>> /\ pc' \notin Delivering
    BY <1>1 DEF SettleAccepted, SettleAmended, SettleEffect, SettleRequest, SettleRead,
       SettleOutcome, SettleHandoff, Settling, Settle, Fail, Delivering, Attempt, world, ghosts
  <2> QED BY <2>1, NotDelivering
<1>2. CASE InitialCompile \/ BeginTurn \/ AdmitAmendment \/ Route \/ Bind \/ Reconstruct \/ Decide
  <2>1. UNCHANGED <<since, live>> /\ pc' \notin Delivering
    BY <1>2 DEF InitialCompile, BeginTurn, AdmitAmendment, ApplyAmendment, Route, Bind, Reconstruct,
       Decide, Fail, Delivering, Attempt, world, ghosts
  <2> QED BY <2>1, NotDelivering
<1>3. CASE \/ Deny \/ Execute \/ ContextRequest \/ ReadWorkspace \/ Handoff
           \/ \E b \in Batches : Spawn(b)
  <2>1. UNCHANGED <<since, live>> /\ pc' \notin Delivering
    BY <1>3 DEF Deny, Execute, ContextRequest, ReadWorkspace, Handoff, Spawn, Delivering, Attempt,
       world, ghosts
  <2> QED BY <2>1, NotDelivering
<1>4. CASE BeginRead \/ ReceiveRead \/ JoinChild \/ JoinDone \/ Prepare
  <2>1. UNCHANGED <<since, live>> /\ pc' \notin Delivering
    BY <1>4 DEF BeginRead, ReceiveRead, JoinChild, JoinDone, Prepare, Fail, Delivering, Attempt,
       world, ghosts
  <2> QED BY <2>1, NotDelivering
<1>5. CASE WorkerRun \/ Crash
  <2>1. pc' = "deliver" /\ since' = <<live>> /\ UNCHANGED live
    BY <1>5 DEF WorkerRun, Crash, world
  <2>2. since' \in Seq(Lives) /\ Len(since') = 1 /\ since'[1] = live
    BY <2>1 DEF DeliveryInv
  <2> QED BY <2>1, <2>2 DEF DeliveryInv
<1>6. CASE GuardDelivery \/ GuardAdmission \/ ValidateSources \/ GuardAgain \/ WorkerDispatch
  BY <1>6, GuardStep
<1>7. CASE WorkerReturns \/ StepFails
  <2>1. pc' \notin Delivering /\ since' = <<>> /\ UNCHANGED live
    BY <1>7 DEF WorkerReturns, StepFails, Fail, Delivering, Attempt, world
  <2>2. since' \in Seq(Lives)
    BY <2>1
  <2> QED BY <2>1, <2>2 DEF DeliveryInv, Delivering, Attempt
<1>8. CASE CancelTask
  <2>1. UNCHANGED live
    BY <1>8 DEF CancelTask
  <2>2. CASE pc' = "end" /\ since' = <<>>
    <3>1. since' \in Seq(Lives)
      BY <2>2
    <3> QED BY <2>1, <2>2, <3>1 DEF DeliveryInv, Attempt
  <2>3. CASE pc' = "join" /\ UNCHANGED since
    BY <2>1, <2>3, NotDelivering DEF Delivering, Attempt
  <2> QED BY <1>8, <2>2, <2>3 DEF CancelTask
<1>9. CASE LiveChanges
  BY <1>9, ChangeStep
<1>10. CASE ReadWait \/ ResolveRead \/ (\E slot \in DOMAIN children : ChildEnds(slot)) \/ UNCHANGED vars
  <2>1. UNCHANGED <<pc, plane, contract, since, live>>
    BY <1>10 DEF ReadWait, ResolveRead, ChildEnds, vars, loop, context, world, ghosts
  <2>2. \A i : (BoundAt(i)' <=> BoundAt(i)) /\ (SourcedAt(i)' <=> SourcedAt(i))
    BY <2>1 DEF BoundAt, SourcedAt
  <2> QED BY <2>1, <2>2 DEF DeliveryInv
<1> QED
  BY <1>1, <1>2, <1>3, <1>4, <1>5, <1>6, <1>7, <1>8, <1>9, <1>10 DEF Next, Run, Act, Environment

(* A join ends only behind its last child. *)
LEMMA FamilyStep == FamilyInv /\ [Next]_vars => FamilyInv'
<1> SUFFICES ASSUME FamilyInv, [Next]_vars PROVE FamilyInv'
  OBVIOUS
<1> USE DEF FamilyInv, Awaited, Joined, family, world
<1>1. CASE SettleAccepted
  BY <1>1 DEF SettleAccepted, Settling, Settle, Fail
<1>2. CASE SettleAmended
  BY <1>2 DEF SettleAmended, Settling, Settle, Fail
<1>3. CASE SettleEffect
  BY <1>3 DEF SettleEffect, Settling, Settle, Fail
<1>4. CASE SettleRequest
  BY <1>4 DEF SettleRequest, Settling, Settle, Fail
<1>5. CASE SettleRead
  BY <1>5 DEF SettleRead, Settling, Settle, Fail
<1>6. CASE SettleOutcome
  BY <1>6 DEF SettleOutcome, Settling, Settle, Fail
<1>7. CASE SettleHandoff
  BY <1>7 DEF SettleHandoff, Settling, Settle, Fail
<1>8. CASE InitialCompile
  BY <1>8 DEF InitialCompile
<1>9. CASE BeginTurn
  <2>1. CASE pc' = "end" /\ UNCHANGED <<children, joined>>
    BY <1>9, <2>1 DEF BeginTurn
  <2>2. CASE children' = << >> /\ joined' = 0
    <3>1. children' \in Seq(Child) /\ Len(children') = 0
      BY <2>2
    <3> QED
      BY <1>9, <2>2, <3>1 DEF BeginTurn
  <2> QED
    BY <1>9, <2>1, <2>2 DEF BeginTurn, Fail
<1>10. CASE AdmitAmendment
  BY <1>10 DEF AdmitAmendment, ApplyAmendment
<1>11. CASE Route
  BY <1>11 DEF Route
<1>12. CASE Bind
  BY <1>12 DEF Bind, Fail
<1>13. CASE Reconstruct
  BY <1>13 DEF Reconstruct
<1>14. CASE Decide
  BY <1>14 DEF Decide, Fail
<1>15. CASE Deny
  BY <1>15 DEF Deny
<1>16. CASE Execute
  BY <1>16 DEF Execute
<1>17. CASE ContextRequest
  BY <1>17 DEF ContextRequest
<1>18. CASE WorkerRun
  BY <1>18 DEF WorkerRun
<1>19. CASE GuardDelivery \/ GuardAdmission \/ ValidateSources \/ GuardAgain \/ WorkerDispatch
  BY <1>19 DEF GuardDelivery, GuardAdmission, ValidateSources, GuardAgain, Guarded, WorkerDispatch
<1>20. CASE WorkerReturns
  BY <1>20 DEF WorkerReturns
<1>21. CASE ReadWorkspace
  BY <1>21 DEF ReadWorkspace
<1>22. CASE Handoff
  BY <1>22 DEF Handoff
<1>23. ASSUME NEW b \in Batches, Spawn(b) PROVE FamilyInv'
  <2>1. children' \in Seq(Child)
    <3>1. Len(b) \in Nat /\ DOMAIN b = 1 .. Len(b)
      BY DEF Batches
    <3>2. children' = [i \in 1 .. Len(b) |-> [state |-> "running", seen |-> "none"]]
      BY <1>23, <3>1 DEF Spawn
    <3>3. [state |-> "running", seen |-> "none"] \in Child
      BY DEF Child
    <3> QED
      BY <3>1, <3>2, <3>3
  <2>2. joined' = 0 /\ pc' = "join"
    BY <1>23 DEF Spawn
  <2>3. Len(children') \in Nat
    BY <2>1
  <2> QED
    BY <2>1, <2>2, <2>3
<1>24. CASE BeginRead
  BY <1>24 DEF BeginRead
<1>25. CASE ReceiveRead
  BY <1>25 DEF ReceiveRead
<1>26. CASE JoinChild
  <2>1. /\ joined + 1 \in 1 .. Len(children) /\ joined' = joined + 1
        /\ children[joined + 1].state # "running" /\ UNCHANGED <<pc, cancel>>
        /\ children' = [children EXCEPT ![joined + 1].seen = Observed(children[joined + 1].state)]
    BY <1>26 DEF JoinChild
  <2>2. Observed(children[joined + 1].state) \in {"COMPLETED", "FAILED", "malformed"}
    <3>1. children[joined + 1] \in Child
      BY <2>1
    <3> QED
      BY <2>1, <3>1 DEF Observed, Child
  <2>3. /\ children' \in Seq(Child) /\ Len(children') = Len(children)
        /\ \A i \in 1 .. Len(children) \ {joined + 1} : children'[i] = children[i]
        /\ children'[joined + 1].state = children[joined + 1].state
        /\ children'[joined + 1].seen = Observed(children[joined + 1].state)
    BY <2>1, <2>2, ChildSeen
  <2> QED
    BY <1>26, <2>1, <2>3 DEF JoinChild
<1>27. CASE JoinDone
  BY <1>27 DEF JoinDone, Fail
<1>28. CASE Prepare
  BY <1>28 DEF Prepare
<1>29. CASE Crash
  BY <1>29 DEF Crash, Attempt
<1>30. CASE StepFails
  BY <1>30 DEF StepFails, Fail
<1>31. CASE ReadWait
  BY <1>31 DEF ReadWait
<1>32. CASE ResolveRead
  BY <1>32 DEF ResolveRead
<1>33. CASE CancelTask
  <2>1. cancel' = "delivered"
    BY <1>33 DEF CancelTask
  <2>2. CASE UNCHANGED <<children, joined>>
    BY <1>33, <2>1, <2>2 DEF CancelTask
  <2>3. CASE /\ joined < Len(children) /\ joined' = joined + 1
             /\ children' = [children EXCEPT ![joined + 1].seen = "FAILED"]
    <3>1. joined + 1 \in 1 .. Len(children)
      BY <2>3
    <3>2. /\ children' \in Seq(Child) /\ Len(children') = Len(children)
          /\ \A i \in 1 .. Len(children) \ {joined + 1} : children'[i] = children[i]
          /\ children'[joined + 1].seen = "FAILED"
      BY <2>3, <3>1, ChildSeen
    <3>3. cancel = "none"
      BY <1>33 DEF CancelTask
    <3> QED
      BY <1>33, <2>1, <2>3, <3>1, <3>2, <3>3 DEF CancelTask
  <2> QED
    BY <1>33, <2>2, <2>3 DEF CancelTask
<1>34. CASE LiveChanges
  BY <1>34 DEF LiveChanges, Attempt
<1>35. ASSUME NEW slot \in DOMAIN children, ChildEnds(slot) PROVE FamilyInv'
  <2>1. PICK end \in {"COMPLETED", "raised", "malformed"} :
          children' = [children EXCEPT ![slot].state = end]
    BY <1>35 DEF ChildEnds
  <2>2. slot \in 1 .. Len(children) /\ children[slot].state = "running" /\ UNCHANGED <<pc, joined, cancel>>
    BY <1>35 DEF ChildEnds
  <2>3. /\ children' \in Seq(Child) /\ Len(children') = Len(children)
        /\ \A i \in 1 .. Len(children) \ {slot} : children'[i] = children[i]
        /\ children'[slot].seen = children[slot].seen
    BY <2>1, <2>2, ChildState
  <2>4. ~Joined(slot)
    BY <2>2
  <2>5. \A i \in 1 .. Len(children) \ {slot} : Joined(i)' <=> Joined(i)
    BY <2>3
  <2>6. \A i \in 1 .. Len(children) : Awaited(i)' <=> Awaited(i)
    BY <2>2
  <2>7. \A i \in 1 .. Len(children) : children'[i].seen = children[i].seen
    BY <2>3
  <2> HIDE DEF Joined, Awaited
  <2> QED
    BY <2>2, <2>3, <2>4, <2>5, <2>6, <2>7
<1>36. CASE UNCHANGED vars
  BY <1>36 DEF vars
<1> QED
  BY <1>1, <1>2, <1>3, <1>4, <1>5, <1>6, <1>7, <1>8, <1>9, <1>10, <1>11, <1>12, <1>13,
     <1>14, <1>15, <1>16, <1>17, <1>18, <1>19, <1>20, <1>21, <1>22, <1>23, <1>24, <1>25,
     <1>26, <1>27, <1>28, <1>29, <1>30, <1>31, <1>32, <1>33, <1>34, <1>35, <1>36
     DEF Next, Run, Act, Environment

(* Cognition decides on the Task as it is: its packet names this turn, the  *)
(* revision, the contract in force, the specialist and the evidence, also    *)
(* when a handoff prepared it and an amendment came in between               *)
(* (apply_amendment, reconstruct_owned).                                     *)
THEOREM CognitionIsCurrent == Spec => []PacketIsCurrent
<1>1. Init => PacketInv
  BY DEF Init, PacketInv, PreparedIsCurrent, PacketIsCurrent
<1>2. PacketInv => PacketIsCurrent
  BY DEF PacketInv
<1> QED
  BY <1>1, <1>2, PacketStep, PTL DEF Spec

(* What a worker gets, in a repeated attempt after a crash too, names the   *)
(* contract in force and was the live context at one moment of that attempt, *)
(* however often the deployment and the workspace change between the guards' *)
(* reads and before the delivery - unless the binding was changed and put    *)
(* back around the read of the sources (guard_worker, dispatch_worker).      *)
THEOREM WorkerIsCurrent == Spec => []DeliveryIsCurrent
<1>1. Init => DeliveryInv
  BY BoundsAssumption DEF Init, DeliveryInv, Lives, Attempt
<1>2. DeliveryInv => DeliveryIsCurrent
  <2> SUFFICES ASSUME DeliveryInv, pc = "worker" PROVE DeliveryIsCurrent
    BY DEF DeliveryIsCurrent
  <2>1. PICK i, j, k \in 1 .. Len(since) : i <= j /\ j <= k /\ BoundAt(i) /\ SourcedAt(j) /\ BoundAt(k)
    BY DEF DeliveryInv
  <2>2. BoundAt(j) \/ (i \in 1 .. j - 1 /\ k \in j + 1 .. Len(since))
    BY <2>1 DEF DeliveryInv
  <2>3. DOMAIN since = 1 .. Len(since) /\ plane.admission.contract = contract.revision
    BY DEF DeliveryInv
  <2> QED BY <2>1, <2>2, <2>3 DEF DeliveryIsCurrent, BoundAt, SourcedAt
<1> QED
  BY <1>1, <1>2, DeliveryStep, PTL DEF Spec

(* The run goes on only when every child it launched has ended and was seen  *)
(* as what it was, whatever the order they end in (SPAWN_TASK); the run's    *)
(* own cancellation may be taken for the failure of one child and no more.   *)
THEOREM EveryChildIsJoined == Spec => []ChildrenJoined
<1>1. Init => FamilyInv
  <2> SUFFICES ASSUME Init PROVE FamilyInv
    OBVIOUS
  <2>1. children \in Seq(Child) /\ Len(children) = 0 /\ joined = 0
    BY DEF Init
  <2> QED
    BY <2>1 DEF FamilyInv
<1>2. FamilyInv => ChildrenJoined
  BY DEF FamilyInv, Awaited, Joined, ChildrenJoined
<1> QED
  BY <1>1, <1>2, FamilyStep, PTL DEF Spec

=============================================================================
