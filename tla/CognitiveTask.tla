--------------------------- MODULE CognitiveTask ---------------------------
(***************************************************************************)
(* The turn loop of one Task, after run in src/runtime/kernel/workflow.py: *)
(* amendments at the boundary, routing and escalation, the Context Plane's *)
(* compile and delivery guards, cognition on a packet, the gate, a         *)
(* capability, a handoff, a workspace read that waits for its client,      *)
(* children that are joined, and cancellation.                             *)
(*                                                                         *)
(* Target effects, human waits and the contract's own rules are modelled   *)
(* in TargetEffects and ContractTask.  Here a settlement gives any verdict,*)
(* evidence is a version, a packet is what it was built from, and a child  *)
(* is an invocation that ends somehow.  The deployment (Context Plane or   *)
(* not, grant, escalation binding) is chosen once.                         *)
(***************************************************************************)
EXTENDS Naturals, Sequences, FiniteSets, SequencesExt

CONSTANTS
    MaxTurns,       \* MAX_TURNS
    TurnBudget,     \* LOCAL_TURN_BUDGET
    Repetitions,    \* REPETITION_THRESHOLD
    HistoryCap,     \* signatures kept in verifier_history
    Allocation,     \* autonomy.child_tasks of the accepted TaskSpec
    Evidences,      \* versions of state['artifacts']
    Grants,         \* the escalation bindings a grant may name ("none": it names none)
    Deployed,       \* escalation_binding of the deployment
    MaxAmendments,  \* amendments submitted in this instance
    Versions,       \* fingerprints of the live context binding, and of its sources
    MaxChanges,     \* changes of either during one physical attempt
    MaxCrashes      \* crashes inside a worker's journaled step

ASSUME BoundsAssumption ==
    /\ MaxTurns \in Nat \ {0} /\ TurnBudget \in 1 .. MaxTurns
    /\ Repetitions \in Nat \ {0} /\ HistoryCap \in Nat /\ Repetitions <= HistoryCap
    /\ 0 \in Versions
    /\ Allocation \in Nat /\ MaxAmendments \in Nat /\ MaxChanges \in Nat /\ MaxCrashes \in Nat

VARIABLES
    deployment, \* [plane, grant, initial]: fixed for the invocation's lifetime
    pc,
    turn,       \* state['iteration']
    revision,   \* state['revision']
    lifecycle,
    contract,   \* [revision, shape]: the contract in force, and what its verdict names
    rejected,   \* amendment_rejected
    evidence,   \* the version of state['artifacts']
    history,    \* [last, count]: how often verifier_history ends with its last signature
    routing,    \* [escalation, turn, binding, local]
    specialist, \* active_specialist
    prepared,   \* prepared_packet, or NoPacket
    packet,     \* the packet cognition gets in this turn
    plane,      \* the Context Plane values run keeps: admission, delivered, ...
    children,   \* state['children'] of this turn: [slot -> child]
    remaining,  \* remaining_children
    joined,     \* children of this turn whose call was awaited
    reads,      \* reads[t]: the one-shot promise workspace/{t}
    answering,  \* the turn whose wait a submit_workspace_result has read, or 0
    cancel,     \* "none" or "delivered"
    live,       \* [binding, source]: what the deployment and the workspace now are
    since,      \* what live was, in order, during this physical attempt up to its delivery
    asked,      \* which binding decided this turn
    crashes

loop == <<turn, revision, lifecycle, contract, rejected, evidence, history, routing, specialist>>
context == <<prepared, packet, plane>>
family == <<children, remaining, joined>>
world == <<reads, answering, cancel, live>>
ghosts == <<since, asked, crashes>>
vars == <<deployment, pc, loop, context, family, world, ghosts>>

Turns == 1 .. MaxTurns
NoPacket == [turn |-> 0]
Terminal == lifecycle \in {"COMPLETED", "FAILED", "CANCELLED"}
NoAdmission == [mode |-> "none"]

(* accept_task_request: a bare TaskSpec carries no grant and no initial     *)
(* action, and it is all that a deployment with a Context Plane accepts.    *)
Deployments ==
    {d \in [plane : BOOLEAN, grant : Grants \cup {"absent"}, initial : BOOLEAN] :
        d.plane => d.grant = "absent" /\ ~d.initial}

Init ==
    /\ deployment \in Deployments
    /\ pc = "accepted"
    /\ turn = 0 /\ revision = 0 /\ lifecycle = "RUNNING"
    /\ contract = [revision |-> 0, shape |-> 0]
    /\ rejected = 0
    /\ evidence = 0
    /\ history = [last |-> <<>>, count |-> 0]
    /\ routing = [escalation |-> "none", turn |-> 0, binding |-> "local", local |-> 0]
    /\ specialist = "coordinator"
    /\ prepared = NoPacket /\ packet = NoPacket
    /\ plane = [admission |-> NoAdmission, observed |-> FALSE, delta |-> FALSE,
                delivered |-> NoAdmission, fingerprint |-> 0]
    /\ children = <<>> /\ remaining = Allocation /\ joined = 0
    /\ reads = [t \in Turns |-> 0]
    /\ answering = 0
    /\ cancel = "none"
    /\ live = [binding |-> 0, source |-> 0]
    /\ since = <<>>
    /\ asked = "nobody"
    /\ crashes = 0

-----------------------------------------------------------------------------
(* How a run ends. *)

(* except ContextError, except TerminalError: FAILED, the wait is dropped. *)
Fail ==
    /\ lifecycle' = "FAILED"
    /\ pc' = "end"

(* settle: any verdict; an unsatisfied one is remembered by its signature. *)
Signature == <<contract.shape, evidence>>
Remembered ==
    IF history.last # Signature THEN [last |-> Signature, count |-> 1]
    ELSE IF history.count = HistoryCap THEN history ELSE [history EXCEPT !.count = @ + 1]
Settle(next) ==
    \/ /\ lifecycle' = "COMPLETED" /\ pc' = "end"
       /\ UNCHANGED history
    \/ /\ history' = Remembered
       /\ Fail
    \/ /\ history' \in {history, Remembered}
       /\ pc' = next
       /\ UNCHANGED lifecycle

Settling(at, next) ==
    /\ pc = at
    /\ Settle(next)
    /\ revision' = IF at \in {"outcome", "handoff"} \/ (at \in {"effect", "request", "read"} /\ lifecycle' = "COMPLETED")
                   THEN revision + 1 ELSE revision
    /\ UNCHANGED <<deployment, turn, contract, rejected, evidence, routing, specialist,
                   context, family, world, ghosts>>

SettleAccepted == Settling("accepted", IF deployment.plane THEN "compile" ELSE "turn")
SettleAmended == Settling("amended", "amend")
SettleEffect == Settling("effect", "outcome")
SettleRequest == Settling("request", "outcome")
SettleRead == Settling("read", "wait")

-----------------------------------------------------------------------------
(* ContextPlane.compile, guard_binding. *)

(* LocalContextAuthority.resolve accepts the hosted local route only. *)
Resolvable == routing.binding = "local"
Compiled(mode) ==
    [mode |-> mode, operation |-> turn, binding |-> live.binding, source |-> live.source,
     contract |-> contract.revision]

InitialCompile ==
    /\ pc = "compile"
    /\ plane' = [plane EXCEPT !.admission = Compiled("initial")]
    /\ evidence' \in Evidences
    /\ pc' = "turn"
    /\ UNCHANGED <<deployment, turn, revision, lifecycle, contract, rejected, history, routing,
                   specialist, prepared, packet, family, world, ghosts>>

(* Bind: the observed fingerprint is journaled and must be the admitted one. *)
Bind ==
    /\ pc = "bind"
    /\ \/ /\ Resolvable
          /\ live.binding = plane.admission.binding
          /\ plane' = [plane EXCEPT !.fingerprint = live.binding]
          /\ pc' = "context"
          /\ UNCHANGED lifecycle
       \/ /\ ~Resolvable \/ live.binding # plane.admission.binding
          /\ Fail
          /\ UNCHANGED plane
    /\ UNCHANGED <<deployment, turn, revision, contract, rejected, evidence, history, routing,
                   specialist, prepared, packet, family, world, ghosts>>

GuardBinding == deployment.plane => Resolvable /\ live.binding = plane.fingerprint

-----------------------------------------------------------------------------
(* The top of a turn: amendments, then routing. *)

BeginTurn ==
    /\ pc = "turn"
    /\ \/ /\ turn < MaxTurns
          /\ turn' = turn + 1
          /\ pc' = "amend"
          /\ children' = <<>> /\ joined' = 0 /\ asked' = "nobody"
          /\ UNCHANGED lifecycle
       \/ /\ turn = MaxTurns
          /\ Fail
          /\ UNCHANGED <<turn, children, joined, asked>>
    /\ UNCHANGED <<deployment, revision, contract, rejected, evidence, history, routing, specialist,
                   context, remaining, world, since, crashes>>

(* A revision is open for one amendment; whether one was submitted in time  *)
(* is the client's choice (ContractTask).                                   *)
Amendable == contract.revision < MaxAmendments /\ rejected # contract.revision + 1

(* Mutant of ApplyAmendment: the prepared packet survives. *)
ApplyAmendmentKeepingPacket ==
    /\ contract' = [contract EXCEPT !.revision = @ + 1]
    /\ pc' = "amended"
    /\ UNCHANGED <<prepared, rejected>>

(* apply_amendment: a revision, or a rejection that keeps it closed; what a *)
(* handoff prepared is void after an applied one.                           *)
ApplyAmendment ==
    \/ /\ contract' \in [revision : {contract.revision + 1}, shape : {contract.shape, 1}]
       /\ prepared' = NoPacket
       /\ pc' = "amended"
       /\ UNCHANGED rejected
    \/ /\ rejected' = contract.revision + 1
       /\ pc' = "amend"
       /\ UNCHANGED <<contract, prepared>>

AdmitAmendment ==
    /\ pc = "amend"
    /\ Amendable
    /\ ApplyAmendment
    /\ UNCHANGED <<deployment, turn, revision, lifecycle, evidence, history, routing, specialist,
                   packet, plane, family, world, ghosts>>

(* escalation_condition *)
EscalationCondition ==
    IF turn >= TurnBudget THEN "local_turn_budget_reached"
    ELSE IF history.count >= Repetitions THEN "repeated_verifier_rejection" ELSE "none"

(* admit_escalation: the grant and the deployment name the same binding. *)
AdmitEscalation ==
    IF deployment.grant = "absent" THEN "denied_no_grant"
    ELSE IF deployment.grant = "none" THEN "denied_not_authorized"
    ELSE IF Deployed # deployment.grant THEN "denied_binding_unavailable"
    ELSE "admitted"

Route ==
    /\ pc = "amend"
    /\ routing' =
         IF routing.escalation # "none" THEN routing
         ELSE IF EscalationCondition = "none" THEN [routing EXCEPT !.local = turn]
         ELSE [escalation |-> AdmitEscalation, turn |-> turn, local |-> turn,
               binding |-> IF AdmitEscalation = "admitted" THEN Deployed ELSE "local"]
    /\ pc' = IF deployment.plane THEN "bind" ELSE "context"
    /\ UNCHANGED <<deployment, turn, revision, lifecycle, contract, rejected, evidence, history,
                   specialist, context, family, world, ghosts>>

-----------------------------------------------------------------------------
(* Cognition: the packet, the decision, the gate. *)

(* reconstruct *)
Fresh(t) == [turn |-> t, revision |-> revision, contract |-> contract.revision,
             specialist |-> specialist, evidence |-> evidence]

Reconstruct ==
    /\ pc = "context"
    /\ packet' = IF prepared = NoPacket THEN Fresh(turn) ELSE prepared
    /\ prepared' = NoPacket
    /\ pc' = "decide"
    /\ UNCHANGED <<deployment, loop, plane, family, world, ghosts>>

(* decide: the binding is compared again inside the physical call; the      *)
(* first turn of a Task with an initial action asks no model.  The packet   *)
(* is dead after it.                                                        *)
Deterministic == deployment.initial /\ turn = 1
Tier == IF routing.escalation = "admitted" THEN routing.binding ELSE "local"
Decide ==
    /\ pc = "decide"
    /\ \/ /\ GuardBinding
          /\ asked' = IF Deterministic THEN "nobody" ELSE Tier
          /\ pc' = "act"
          /\ UNCHANGED lifecycle
       \/ /\ ~GuardBinding
          /\ Fail
          /\ UNCHANGED asked
    /\ packet' = NoPacket
    /\ UNCHANGED <<deployment, turn, revision, contract, rejected, evidence, history, routing,
                   specialist, prepared, plane, family, world, since, crashes>>

(* policy_gate denies, or COMPLETE asks for the same legality decision. *)
Deny ==
    /\ pc = "act"
    /\ pc' \in {"outcome", "request"}
    /\ UNCHANGED <<deployment, loop, context, family, world, ghosts>>

(* Capabilities.execute: it fails, reads, or leaves new evidence. *)
Execute ==
    /\ pc = "act"
    /\ evidence' \in {evidence} \cup Evidences
    /\ pc' = "effect"
    /\ UNCHANGED <<deployment, turn, revision, lifecycle, contract, rejected, history, routing,
                   specialist, context, family, world, ghosts>>

(* context.request: one delta, after a worker was observed, on the packet *)
(* that is active.                                                        *)
ContextRequest ==
    /\ pc = "act" /\ deployment.plane
    /\ \/ /\ plane.observed /\ ~plane.delta
          /\ plane.admission.mode = "initial"
          /\ Resolvable
          /\ plane' = [plane EXCEPT !.admission = Compiled("delta"), !.delta = TRUE]
          /\ evidence' \in Evidences
       \/ UNCHANGED <<plane, evidence>>
    /\ pc' = "effect"
    /\ UNCHANGED <<deployment, turn, revision, lifecycle, contract, rejected, history, routing,
                   specialist, prepared, packet, family, world, ghosts>>

(* worker.run: the guards run inside the journaled step, one read of the   *)
(* deployment or the workspace after the other, and all of them again when *)
(* a crash lost the step's entry; a guard that fails fails the capability. *)
Attempt == {"deliver", "guard", "bound", "sourced", "dispatch"}
Guarded(at, guard, next) ==
    /\ pc = at
    /\ \/ guard /\ pc' = next /\ UNCHANGED since
       \/ ~guard /\ pc' = "effect" /\ since' = <<>>
    /\ UNCHANGED <<deployment, loop, context, family, world, asked, crashes>>

WorkerRun ==
    /\ pc = "act" /\ deployment.plane
    /\ pc' = "deliver"
    /\ since' = <<live>>
    /\ UNCHANGED <<deployment, loop, context, family, world, asked, crashes>>

GuardDelivery == Guarded("deliver", GuardBinding /\ plane.delivered # plane.admission, "guard")

(* guard_worker: its own operation, the contract, the binding; then the     *)
(* sources; then the binding once more.                                     *)
AdmittedBinding == Resolvable /\ live.binding = plane.admission.binding
GuardAdmission ==
    Guarded("guard", /\ plane.admission.operation # turn
                     /\ plane.admission.contract = contract.revision
                     /\ AdmittedBinding, "bound")
ValidateSources == Guarded("bound", live.source = plane.admission.source, "sourced")

(* Mutant of GuardAgain: the binding is not looked at after the sources. *)
GuardAgainTrusting == Guarded("sourced", TRUE, "dispatch")

GuardAgain == Guarded("sourced", AdmittedBinding, "dispatch")

(* dispatch_worker *)
WorkerDispatch ==
    /\ pc = "dispatch"
    /\ pc' = "worker"
    /\ UNCHANGED <<deployment, loop, context, family, world, ghosts>>

WorkerReturns ==
    /\ pc = "worker"
    /\ \/ /\ plane' = [plane EXCEPT !.observed = TRUE, !.delivered = plane.admission]
          /\ evidence' \in Evidences
       \/ UNCHANGED <<plane, evidence>>
    /\ pc' = "effect"
    /\ since' = <<>>
    /\ UNCHANGED <<deployment, turn, revision, lifecycle, contract, rejected, history, routing,
                   specialist, prepared, packet, family, world, asked, crashes>>

(* Nothing of the step is journaled: Restate runs it again, another attempt.*)
Crash ==
    /\ pc \in Attempt \cup {"worker"}
    /\ crashes < MaxCrashes
    /\ crashes' = crashes + 1
    /\ pc' = "deliver"
    /\ since' = <<live>>
    /\ UNCHANGED <<deployment, loop, context, family, world, asked>>

-----------------------------------------------------------------------------
(* workspace.read: the request is published and the run waits for its      *)
(* client; submit_workspace_result reads the wait and resolves later.      *)

ReadWorkspace ==
    /\ pc = "act" /\ deployment.initial
    /\ pc' = "read"
    /\ UNCHANGED <<deployment, loop, context, family, world, ghosts>>

BeginRead ==
    /\ pc = "wait"
    /\ lifecycle = "RUNNING"
    /\ lifecycle' = "WAITING"
    /\ UNCHANGED <<deployment, pc, turn, revision, contract, rejected, evidence, history, routing,
                   specialist, context, family, world, ghosts>>

(* The promise this wait listens to. *)
Promise == turn

(* The result is validated again against this turn's request; a result for *)
(* another operation would raise in the handler on every replay.           *)
ReceiveRead ==
    /\ pc = "wait" /\ lifecycle = "WAITING"
    /\ reads[Promise] # 0
    /\ \/ /\ reads[Promise] = turn
          /\ evidence' \in Evidences
          /\ lifecycle' = "RUNNING"
          /\ pc' = "outcome"
       \/ /\ reads[Promise] # turn
          /\ pc' = "poisoned"
          /\ UNCHANGED <<evidence, lifecycle>>
    /\ UNCHANGED <<deployment, turn, revision, contract, rejected, history, routing, specialist,
                   context, family, world, ghosts>>

ReadWait ==
    /\ answering = 0
    /\ pc = "wait" /\ lifecycle = "WAITING"
    /\ answering' = turn
    /\ UNCHANGED <<deployment, pc, loop, context, family, reads, cancel, live, ghosts>>

ResolveRead ==
    /\ answering # 0
    /\ reads' = [reads EXCEPT ![answering] = IF @ = 0 THEN answering ELSE @]
    /\ answering' = 0
    /\ UNCHANGED <<deployment, pc, loop, context, family, cancel, live, ghosts>>

-----------------------------------------------------------------------------
(* HANDOFF and SPAWN_TASK. *)

Handoff ==
    /\ pc = "act" /\ ~Deterministic
    /\ specialist' \in {"coordinator", "specialist"}
    /\ pc' = "handoff"
    /\ UNCHANGED <<deployment, turn, revision, lifecycle, contract, rejected, evidence, history,
                   routing, context, family, world, ghosts>>

(* spawn_specs, policy_gate: one child, or a batch with one of its own. *)
Cost(allocations) == FoldLeft(LAMBDA sum, a : sum + 1 + a, 0, allocations)
Batches == {<<1>>, <<0, 0>>}

Spawn(allocations) ==
    /\ pc = "act" /\ ~Deterministic
    /\ Cost(allocations) <= remaining
    /\ remaining' = remaining - Cost(allocations)
    /\ children' = [slot \in DOMAIN allocations |-> [state |-> "running", seen |-> "none"]]
    /\ joined' = 0
    /\ lifecycle' = "WAITING"
    /\ pc' = "join"
    /\ UNCHANGED <<deployment, turn, revision, contract, rejected, evidence, history, routing,
                   specialist, context, world, ghosts>>

(* A child's invocation ends; with the Context Plane its intake refuses it. *)
ChildEnds(slot) ==
    /\ children[slot].state = "running"
    /\ \E end \in IF deployment.plane THEN {"raised"}
                  ELSE {"COMPLETED", "raised", "malformed"} :
         children' = [children EXCEPT ![slot].state = end]
    /\ UNCHANGED <<deployment, pc, loop, context, remaining, joined, world, ghosts>>

(* Children are awaited in slot order.  A TerminalError is a failed child. *)
Observed(state) == IF state = "raised" THEN "FAILED" ELSE state
JoinChild ==
    /\ pc = "join"
    /\ joined < Len(children)
    /\ children[joined + 1].state # "running"
    /\ children' = [children EXCEPT ![joined + 1].seen = Observed(children[joined + 1].state)]
    /\ joined' = joined + 1
    /\ UNCHANGED <<deployment, pc, loop, context, remaining, world, ghosts>>

(* Mutants of JoinDone: an invalid result is waited for once more, or the   *)
(* first child's result is enough.                                          *)
JoinDoneValid ==
    /\ pc = "join"
    /\ joined = Len(children)
    /\ \A slot \in DOMAIN children : children[slot].seen # "malformed"
    /\ lifecycle' = "RUNNING"
    /\ pc' = "outcome"
    /\ UNCHANGED <<deployment, turn, revision, contract, rejected, evidence, history, routing,
                   specialist, context, family, world, ghosts>>
JoinDoneAny ==
    /\ pc = "join" /\ joined > 0
    /\ lifecycle' = "RUNNING"
    /\ pc' = "outcome"
    /\ UNCHANGED <<deployment, turn, revision, contract, rejected, evidence, history, routing,
                   specialist, context, family, world, ghosts>>

JoinDone ==
    /\ pc = "join"
    /\ joined = Len(children)
    /\ \/ /\ \E slot \in DOMAIN children : children[slot].seen = "malformed"
          /\ Fail
       \/ /\ \A slot \in DOMAIN children : children[slot].seen # "malformed"
          /\ lifecycle' = "RUNNING"
          /\ pc' = "outcome"
    /\ UNCHANGED <<deployment, turn, revision, contract, rejected, evidence, history, routing,
                   specialist, context, family, world, ghosts>>

-----------------------------------------------------------------------------
(* The end of a turn: the revision and the outcome's settlement, then, after *)
(* a handoff, the next turn's packet.                                        *)
SettleOutcome == Settling("outcome", "turn")
SettleHandoff == Settling("handoff", "prepare")

Prepare ==
    /\ pc = "prepare"
    /\ prepared' = Fresh(turn + 1)
    /\ pc' = "turn"
    /\ UNCHANGED <<deployment, loop, packet, plane, family, world, ghosts>>

-----------------------------------------------------------------------------
(* Cancellation, amendments and the deployment, from outside. *)

(* Restate raises the cancellation at the run's next await and cancels the *)
(* calls it awaits.  Inside SPAWN_TASK the error is taken for a failed     *)
(* child (workflow.py:880).                                                *)
CancelTask ==
    /\ cancel = "none" /\ ~Terminal
    /\ cancel' = "delivered"
    /\ \/ /\ lifecycle' = "CANCELLED"
          /\ pc' = "end"
          /\ UNCHANGED <<children, joined>>
       \/ /\ pc = "join" /\ joined < Len(children)
          /\ children' = [children EXCEPT ![joined + 1].seen = "FAILED"]
          /\ joined' = joined + 1
          /\ UNCHANGED <<pc, lifecycle>>
    /\ since' = IF pc' = "end" THEN <<>> ELSE since
    /\ UNCHANGED <<deployment, turn, revision, contract, rejected, evidence, history, routing,
                   specialist, context, remaining, reads, answering, live, asked, crashes>>

(* A step that failed three times raises a TerminalError: FAILED. *)
StepFails ==
    /\ pc \notin {"end", "poisoned"} /\ (lifecycle # "WAITING" \/ pc = "join")
    /\ Fail
    /\ since' = <<>>
    /\ UNCHANGED <<deployment, turn, revision, contract, rejected, evidence, history, routing,
                   specialist, context, family, world, asked, crashes>>

(* The deployment's snapshot, or a source file, is replaced, or restored. *)
LiveChanges ==
    /\ deployment.plane /\ ~Terminal
    /\ live' \in {[live EXCEPT !.binding = v] : v \in Versions \ {live.binding}}
                 \cup {[live EXCEPT !.source = v] : v \in Versions \ {live.source}}
    /\ \/ pc \in Attempt /\ Len(since) <= MaxChanges /\ since' = Append(since, live')
       \/ pc \notin Attempt /\ UNCHANGED since
    /\ UNCHANGED <<deployment, pc, loop, context, family, reads, answering, cancel, asked, crashes>>

Act ==
    \/ Deny \/ Execute \/ ContextRequest \/ WorkerRun \/ WorkerReturns
    \/ GuardDelivery \/ GuardAdmission \/ ValidateSources \/ GuardAgain \/ WorkerDispatch
    \/ ReadWorkspace \/ Handoff \/ \E b \in Batches : Spawn(b)

Run ==
    \/ SettleAccepted \/ SettleAmended \/ SettleEffect \/ SettleRequest \/ SettleRead
    \/ SettleOutcome \/ SettleHandoff
    \/ InitialCompile \/ BeginTurn \/ AdmitAmendment \/ Route \/ Bind
    \/ Reconstruct \/ Decide \/ Act \/ BeginRead \/ ReceiveRead
    \/ JoinChild \/ JoinDone \/ Prepare

Environment ==
    \/ Crash \/ StepFails \/ ReadWait \/ ResolveRead \/ CancelTask
    \/ LiveChanges \/ \E slot \in DOMAIN children : ChildEnds(slot)

Next == Run \/ Environment

Spec == Init /\ [][Next]_vars

(* Restate drives the run to its next await and children to their end. *)
FairSpec ==
    /\ Spec
    /\ WF_vars(Run)
    /\ WF_vars(\E slot \in DOMAIN children : ChildEnds(slot))

-----------------------------------------------------------------------------
(* Properties *)

(* The Task keeps its shape: the allocation never goes below zero, the      *)
(* verifier history is bounded, and a wait is open only while a child or a  *)
(* client is awaited.                                                       *)
TypeOK ==
    /\ turn \in 0 .. MaxTurns /\ revision \in 0 .. turn
    /\ remaining \in 0 .. Allocation
    /\ history.count <= HistoryCap
    /\ contract.revision \in 0 .. MaxAmendments
    /\ rejected \in 0 .. MaxAmendments
    /\ lifecycle = "WAITING" => pc \in {"join", "wait", "poisoned"}
    /\ lifecycle \in {"COMPLETED", "FAILED", "CANCELLED"} <=> pc = "end"

(* Cognition always decides on the Task as it is: its packet names this     *)
(* turn, the Task's revision, the contract in force and the specialist that *)
(* is active, also when a handoff prepared it before an amendment was       *)
(* applied (apply_amendment, reconstruct_owned).                            *)
PacketIsCurrent == pc = "decide" => packet = Fresh(turn)

(* A packet that reached a worker, in a repeated attempt after a crash too, *)
(* names the contract in force, and it was the live context during that     *)
(* very attempt: at one moment of it the sources were the packet's, and the *)
(* deployment's binding was the packet's then, or both before and after it. *)
(* The deployment and the workspace may change between any two reads of the *)
(* guards and before the delivery (guard_worker, dispatch_worker).          *)
DeliveryIsCurrent ==
    pc = "worker" =>
        LET a == plane.admission
            Bound(i) == since[i].binding = a.binding
        IN /\ a.contract = contract.revision
           /\ \E j \in DOMAIN since :
                /\ since[j].source = a.source
                /\ \/ Bound(j)
                   \/ (\E i \in 1 .. j - 1 : Bound(i)) /\ (\E k \in j + 1 .. Len(since) : Bound(k))

(* The run goes on only when every child it launched has ended and was seen *)
(* as what it was, whatever the order they end in.  The run's own           *)
(* cancellation may be taken for a child's failure (SPAWN_TASK): of one     *)
(* child at most, and every other one is still joined.                      *)
Joined(slot) ==
    children[slot].state # "running" /\ children[slot].seen = Observed(children[slot].state)
ChildrenJoined ==
    pc \notin {"join", "end"} =>
        \A slot \in DOMAIN children :
            \/ Joined(slot)
            \/ /\ cancel = "delivered" /\ children[slot].seen = "FAILED"
               /\ \A other \in DOMAIN children \ {slot} : Joined(other)

(* The turn limit, the closed revision of a rejected amendment and the join *)
(* in slot order end every Task that no client leaves waiting.              *)
TaskEnds == <>[](Terminal \/ (pc = "wait" /\ lifecycle = "WAITING"))
=============================================================================
