# Verification of Blaine

TLA+ models of the parts of Blaine whose correctness depends on order, failure
and retries. TLC checks small instances; TLAPS proves the main safety properties
of the durable core for every value of the constants. `PROJECT.json` maps each
definition to the source lines it models and lists the components, the runs, a
mutant of the code for each property that makes it fail, and the hazards.

## 1. The system

Blaine runs *Tasks*: durable Restate workflows in which a model decides, a
policy gate admits and the kernel performs. A user reaches them from an IDE
through a Go client, a hub on the user's tailnet and an agent process on the host. A
separate durable scheduler runs verification suites on that host, and a timer
backs the host up.

| Component | State it keeps | Operations | Talks to |
|---|---|---|---|
| Task workflow (`runtime/kernel/workflow.py`) | TaskState, published with `ctx.set`; one-shot durable promises | `run` (turn loop, settle, decide, gate, perform), `submit_human_response`, `submit_input`, `cancel_effect`, `amend_contract` | everything below, through journaled steps (`ctx.run_typed`, three attempts) |
| Target effects (`kernel/effects.py`) | none; the provider keeps receipts by operation id | `attempt`, `poll`, `cancel`, `stop_for_task`, `reconcile` | target provider over an unreliable network |
| Capability journal (`kernel/journal.py`) | a hash-chained list of artifacts, at most `MAX_ENTRIES` | `append`, `read`, `analyze` | artifact store; read by gate and legality |
| Completion contract (`kernel/completion.py`, `review.py`, `effect_evidence.py`) | the contract's revisions, one promise per revision | validation, verdicts, amendments, legality | evidence in TaskState, journal facts |
| Routing, context plane (`kernel/routing.py`, `context_plane.py`, `context.py`) | history, packets, bindings | escalation, compile, delivery guards | workflow, workers |
| Boundary control (`kernel/instrument.py`) | one thread, poisoned observers | `admit` | observers; asked by the workflow before each continuation |
| Task control, personal agent (`kernel/control.py`, `personal_agent.py`, `personal_acp.py`) | none | create, inspect, respond, fulfill, cancel | Restate ingress, the workflow's shared handlers |
| Scheduler core (`verification/scheduler.py`) | queue, active slot, run records | `submit`, `tick`, `run`, `interrupt` | probes, executor |
| Durable scheduler (`verification/scheduler_restate.py`) | object state `queue`, `active`; one workflow per run | `submit`, `_full_dispatch`, `main` | Restate, worktree, suites |
| Relay (`client/internal/direct/relay.go`, `wire/acp.go`) | pending JSON-RPC ids at both ends | four goroutines and a loop | IDE, connection, agent process |
| Hub (`direct/server.go`, `workstation/store.go`) | slots; the tables `workstation` and `connection` under an advisory lock | handshake, serve, keep alive, Open, Connect, Touch, Disconnect | database, tailnet |
| Client installation (`direct/state.go`, `network.go`, `profile.go`, `commands.go`, `acp.go`) | lease, key, node, receipt and profile files | connect, verify, ACP front end, logout, reset | hub, embedded network |
| Backup (`infra/backup/backup.py`) | generations, `status.json`, `backup.lock` | preflight, partial-backup, verify, prune | volume, database |
| Artifacts, events, codecs, adapters, command lines, infrastructure | content-addressed files, output | | all |

What is hard: a dispatch whose reply is lost; a crash between a request and its
journal entry; a cancellation that may be raised at every durable await; a
process that outlives its Task; handlers that read the Task and resolve a
promise later; amendments that race; evidence that changes under a verdict;
packets that are stale when used; replayed code that reads the world outside the
journal; a slot held by a run that fails; goroutines that leave in any order; a
second edge on the same database; files written one after the other by a process
that may be killed; one thread shared by observers that hang. The `hazards` of
`PROJECT.json` give each with its line and the properties aimed at it.

## 2. Modules

| Module | Models | Checked by |
|---|---|---|
| `CapabilityJournal` | `journal.analyze`, one operator per phase; the journal is the facts its fold has derived so far and its length | with `TargetEffects` |
| `TargetEffects` | one Task's effects: `run`, `perform_target`, `supervise`, `settle_effect`, `reconcile_effects`, `close_effects`, `effects.py`, the handlers, cancellation; provider, network and third parties as environment | `effects`, `interrupts` |
| `EffectEvidence` | `effect_evidence.py`: the records, `capability_result` and `change_set` verifiers of the contract, over the state of `TargetEffects` | `effects` |
| `ContractRules` | the completion contract as pure functions: validity, precedence, verdicts, waivers, amendments, legality | with `ContractTask` |
| `RevisionRegister` | abstract: a compare-and-set register of contract revisions | `contract` |
| `ContractTask` | settlement, human waits and amendments of one Task, with the handlers that race it; `ImplementsRegister` is the refinement | `contract` |
| `CognitiveTask` | the turn loop: amendments, routing, Context Plane, cognition, gate, workers, workspace reads, handoff, children, cancellation | `task` |
| `BoundaryControl` | `ControlPath` and the workflow step around it, for the Tasks of one runtime | `boundary` |
| `PersonalControl` | create, respond, fulfill and cancel by overlapping prompts, through the ingress and the shared handlers | `control` |
| `RunScheduler` | the in-process core, one action per method; also the abstract specification of the durable scheduler | `core` |
| `RestateScheduler` | object, workflow, inbox, restarts; `ImplementsCore` is the refinement | `scheduler` |
| `AcpRelay` | one relayed session: `relayClient`, `RelayHost`, the guards of both ends, the keep-alive, the agent process | `relay` |
| `HubSessions` | the hub's sessions: admission, handshake, serving, and the store with its lock and leases | `hub` |
| `ClientInstallation` | the client's files and lease, and the commands that use them | `installation` |
| `BackupRun` | the backup program, run twice at a time | `backup` |
| `EffectProofs` (of `TargetEffects`, `EffectEvidence` and `CapabilityJournal`), `ContractProofs`, `CognitiveTaskProofs`, `RestateSchedulerProofs`, `ClientInstallationProofs`, `TransportProofs` (of `HubSessions` and `AcpRelay`), `HostProofs` (of `RunScheduler` and `BackupRun`), `RuntimeProofs` (of `PersonalControl` and `BoundaryControl`) | theorems | TLAPS |
| `MCTargetEffects`, `MCContractTask`, `MCHubSessions` | constants for TLC | |

Models whose proofs share a module have specifications of different names
(`RelaySpec` beside `Spec`, and so on).

Each module's header says what it abstracts. The main correspondences:

**TargetEffects.** `pc` names the durable await at which the workflow stands;
code between two awaits is one action. Restate may, at any await, raise the
Task's cancellation (`DeliverCancel`), exhaust a step's attempts (`StepFails`)
or lose the process and run the unjournaled step again (`Crash`). The
cancellation is raised once, as a `TerminalError`. The try block of `run`
catches it (`Stop`); outside that block it leaves the run (`Escape`).
`status[op]` is `state['effects'][op]['status']`, `lifecycle` the value in memory
and `shown` the one last published. `answer` and `stopAsked` are the one-shot
promises of an approval and of `cancel_effect`. `inflight`, `sent`, `receipt` and
`target` belong to the environment: dispatch is idempotent by operation id, a
write is a compare-and-swap on its precondition, and an answer may be a receipt,
authoritative absence, an inconclusive answer or an error. With `StrongAbsence`
an authoritative absence also says that no request is still under way; without it no
client could dispatch safely, and the properties that need it say so.

**EffectEvidence** has no state of its own: its verifiers read what the journal's
fold and the effects' statuses hold, and its property compares their verdict with
the provider's receipts and the requests still in flight, which no verifier sees.
The Task has one workspace and one path, so a verifier selects by class.

**ContractTask.** The published TaskState is the run's own state. A shared
handler is two steps: it reads the Task, later it resolves a promise, and the run
may be anywhere in between. `Submissions` is what the bindings may submit (every
author of `MCContractTask`: user, operator rule, a human answer cited by an
amendment). A human answer may replace an earlier one at any time. The operations
of one amendment are a recursive function (`AfterOperations`): the contract after
each, and after one that raises nothing more changes. `ProtectedCriteria` speaks of
the operator rules that were REQUIRED and bound from the start: an operator may
bind an unbound rule and elevate an ADVISORY one without an exception
(`authority_gap`).

**CognitiveTask.** A packet is the record of what it was built from (turn,
revisions, contract, specialist, live binding, source), so a stale packet is an
unequal one. A settlement gives any verdict; a child ends somehow. A delivery is
one action per guard (`GuardDelivery`, `GuardAdmission`, `ValidateSources`,
`GuardAgain`) and one for the call (`WorkerDispatch`); the live binding and sources may change
and be restored between any two (`LiveChanges`), and a crash repeats the attempt.
`since` is a history variable: the live values of the attempt under way.

**PersonalControl.** One Task key. A request for a response is a number that a
later wait may repeat, since the code names a wait by content and not by time. A
call may lose its answer; what the user does next is any command.

**RunScheduler and RestateScheduler.** The core has one thread, so a method is
one action, and callers may call `tick`, `run` and `interrupt` in any order.
`RestateScheduler` adds what Restate adds: invocations of the exclusive handler
wait in `inbox`; a restarted deployment replays `main` from its first line
(`Crash`), where suite, worktree and probes are read outside the journal and may
have changed (`Disappear`, for the runs in `Fragile`); a step whose command
cannot be started (`Broken`) is retried without bound. The refinement maps a
claimed slot whose run is not yet preflighted to the head of the core's queue:
the core preflights before it claims, the object after.

**AcpRelay.** Each goroutine is a set of actions; a channel or a pipe is a
bounded sequence, so back-pressure is modelled. `late` are the requests the
client accepted after the agent's exit was read, which nobody can answer. A lost
connection fails both reads; a silent one (`ConnectionSilent`) drops every frame and
fails no read, until it breaks or a write finds the socket's buffer full.

**HubSessions.** The database's rows, its lock and its sessions are variables of
their own, so that a hub may lose its database session and go on, and a second
edge may take the lock. **ClientInstallation.** A file is its content, 0 when
absent, `Torn` when it was created and not written; a kill may fall between any
two file operations. **BackupRun.** Generations are numbered by publication.
**BoundaryControl.** `queue` is the pool's queue with the call its one thread
executes first; an abandoned call stays in it.

## 3. Runs

| Run | States | Shows |
|---|---|---|
| `effects` | 1 627 000 | two turns: recorded outcomes happened (`OutcomeTruthful`), nothing leaves without authority and approval (`DispatchIsAuthorized`), COMPLETED only when nothing may still happen (`CompletionIsQuiescent`), the journal is a sound and bounded account (`JournalSound`), and an expected content, an untouched path or a result after the last change that a contract calls demonstrated is so on the target (`EvidenceIsTrue`) |
| `interrupts` | 127 000 | one effect, two crashes, two exhausted steps, Task and effect cancellation at every await: no second dispatch, a stop closes its effects and starts none, a cancellation ends the run, supervision ends |
| `core` | 3 800 | strict FIFO, no run lost but one whose own preflight raises |
| `scheduler` | 7 000 | the durable scheduler implements the core, executes one run at a time, and runs every submission to its end if nothing it needs disappears |
| `contract` | 1 420 000 | criteria that authors outrank stay (`ProtectedCriteria`); COMPLETED is demonstrated by the evidence at hand (`CompletedIsDemonstrated`); one submission wins a revision (`OneWinner`); an amendment the handler accepted is rejected by the run only when the answer it cites was replaced after the state the handler checked (`RejectedOnlyForReplacedAnswer`); handlers and run implement the register |
| `task` | 1 900 000 | cognition gets the packet of this turn and contract (`PacketIsCurrent`); a packet in delivery was current at a moment of that very attempt (`DeliveryIsCurrent`); children are joined and seen as they ended (`ChildrenJoined`); every Task ends that no client leaves waiting (`TaskEnds`) |
| `relay` | 939 000 | success means that every answer arrived, the host never leaves its child behind, a session that should end does, also over a connection that falls silent, except that the client may wait for as long as it does |
| `hub` | 360 000 | registered sessions proved their key to a ready hub and served ones stay routed; ids are stable; a stale session is forgotten |
| `installation` | 471 000 | a connected process is the identity on disk; no second identity connects without a reset; the lease is given back |
| `backup` | 1 703 000 | retention never costs a good generation; a reported success is the newest generation and is there |
| `boundary` | 771 000 | under FAIL_ON_ERROR a continuation was really assessed by every observer; an admission ends whatever observers do |
| `control` | 282 000 | EXISTING is only said of the caller's own input; an accepted response is what its wait was given; retries settle a submission |

**Bounds.** Two turns of effects let an effect meet an earlier uncertain one, a
completion meet an open effect and a write meet a third party's; a third adds no
new pair, because the gate keeps at most one effect uncertain. One turn is
enough for interruptions of one effect, and there `MaxPolls = 2` separates a poll
that continues from the deadline; two crashes and two failures let a retried
step be interrupted again. Three queued runs are the least that can be reordered
behind a held slot; two steps let a restart fall between them. Two clients, two
revisions and two answers are the least with which an amendment can lose, be
repeated, and cite an answer that is replaced; that answer is asked for in the
first turn and replaced in the second, so the run refuses the amendment in a
third one. The constraint `LastTurnAdmits` keeps the states of that last turn
in which it only admits amendments, and the two clients are symmetric. One change
of the live binding or source on each side of a guard, and one crash, are enough
for a delivery to go stale between any two of them; the second alternative of
`DeliveryIsCurrent`, a binding that changes and is restored around a change of the
source, takes four changes in one attempt and is covered by the theorem only. Three
turns with budget and
repetition threshold 2 reach the escalation and go past it; two children fail in
either order. Two request ids and two lines each way with a buffer of one make
both directions block. Three sessions of two nodes with two slots fill the hub,
and two hubs give a restart and a second edge. Two processes, keys, nodes and
lost files let an installation meet the rest of another one. `Keep = 2` with four
attempts prunes twice, with one damaged generation. Two Tasks and two observers
let one Task's hung call delay the other's healthy one.

Deadlock is checked in `effects` and `interrupts`, where `Terminated` is the only
way to stop. Everywhere else the users, clients or timers may simply ask for
nothing more, so the configurations switch it off; what must not stop there is
stated as a liveness property.

**Fairness** is of the program's own steps, and weak but for one case. Restate
re-invokes a handler until it returns and delivers a cancellation at the next
await (`TargetEffects`, `CognitiveTask`, `RestateScheduler`); goroutines, timers
and kills happen (`AcpRelay`, `HubSessions`); a command's steps have deadlines
(`ClientInstallation`); a workflow's wait for an observer has a timeout
(`BoundaryControl`); a client that does not know what became of its Task retries,
as the answer tells it to, and strongly fair, because its other commands come in
between (`PersonalControl`). Nothing makes a human
answer, a process end, an agent or an IDE read, a request arrive, an observer
return or a provider reply. Crashes are bounded, since a process that restarts for
ever makes no progress.

## 4. What the modelling met

The models follow the code where it departs from its documents; the properties are
stated so that they hold of the code, and these cases are excluded by name.

* *Effects.* An effect's status changes before its journal entry is awaited
  (`workflow.py` 453-460, 569-574): a Task stopped there leaves an outcome
  unjournaled, so `JournalSound` allows a stopped Task to lack the uncertainty it
  reconciles. COMPLETED is published inside the try block, and a cancellation that
  arrives there turns it into CANCELLED (917, 946-948, while
  `daily-driver-d2.md` 131-132 calls terminal states final); one that arrives at 951
  or 961 escapes with RUNNING published. The turn limit and a ContextError end a
  Task as FAILED without `close_effects` (936). A write closed as DIFFERENT_STATE may
  still arrive, which `CompletionIsQuiescent` and `EvidenceIsTrue` except by name.
* *Children.* The `except TerminalError` of SPAWN_TASK (880) also catches the
  parent's own cancellation, which is then swallowed and passes for the failure of
  the child awaited there. `ChildrenJoined` allows that for one child, since a
  cancellation is raised once, and asks that all others are joined.
* *Contract.* The rejection that a comment calls a defect path (269-271) is
  reachable, in exactly the case `RejectedOnlyForReplacedAnswer` names. A waiver
  that cites a replaced answer blocks legality for good (`completion.py` 561), and
  a dependency that is waived while pending stays pending (455-463 against
  618-634). `effect_evidence.py` 112 reads the state
  of a retained outcome that has none when no provider is deployed; every effect
  verifier of that Task then stays unknown (`Unreadable`).
* *Context plane.* An amendment before the first successful worker makes every
  later delivery stale; only the turn limit ends such a Task. Binding and sources
  are read one after the other and before the call (`context_plane.py` 491-503,
  `execution.py` 221-222): a change after the last guard is delivered over, so
  `DeliveryIsCurrent` speaks of a moment of the attempt and not of the call. Escalation is
  possible in the first turn.
* *Scheduler.* A `main` that raises leaves the slot claimed
  (`scheduler_restate.py` 279-282); a step that cannot start is retried for ever in
  it (173). `EverySubmissionEnds` assumes neither happens (`Undisturbed`). The
  core calls preflight after it took the run off the queue (`scheduler.py` 175-178)
  and does not expect it to raise, as the default one does for every suite with
  probes (271 uses a name that is not imported): that run is lost, the one case
  `NoRunLost` names.
* *Relay and hub.* Only the hub pings; the client's read has no deadline
  (`protocol.go` 238). When the connection falls silent the host ends and the client
  may wait until it breaks, which `RelayEnds` excepts. An agent that never reads keeps the keep-alive from being
  answered when the IDE is gone too. A hub never reopens its database connection,
  and a second edge that takes a lost lock clears the routes.
* *Installation.* Nothing repairs a torn `identity.key`: every command refuses it,
  reset included; so does an installation whose reset was interrupted after the
  key. Both are refusals, never a wrong identity.
* *Backup.* `status.json` is read before the lock (`backup.py` 303), so a preflight
  that started earlier may write an older status back; a kill inside `rmtree`
  leaves a generation that fails every later prune; a clock that steps back makes
  prune remove the newest generation, which the numbering of generations excludes.
* *Boundary.* A hung observer makes the healthy ones queued behind it exceed their
  budget and be poisoned as well, for every Task of the runtime, and the queued
  calls still run after their Task went on (against `instrument.py` 11-13).
* *Personal agent.* `create` inspects and then sends: it may say SUBMITTED of
  another's input, which only the next call refuses. An input that `run` refuses
  at intake stays UNAVAILABLE while every retry says SUBMITTED (`Refused`). A
  response to a wait that was withdrawn is reported ACCEPTED and read by nobody.

## 5. Proofs

Every theorem holds for any value of the constants under the named assumptions
of its module: bounds that are natural numbers, sets of the right shape, model
values outside the sets they must not be in.

* **Effects** (`EffectProofs`, part 1). The inductive invariant `Inv` is `TypeOK`,
  `ControlInv` (which local variables the next await reads: the poll counter is
  below the deadline when a poll starts, a stopping Task stands only in
  `close_effects` or the final records) and `AuthorityInv`.
  `DispatchIsAuthorized` is not inductive: a send is authorized because of what
  was journaled several awaits before, so `AuthorityInv` says for each point of
  `perform_target` what was established by then, and that operations sent are not
  later than the turn. Theorems `TypeCorrect`, `Invariance`,
  `DispatchAuthorized`, and the action property `QuietAfterStop`.
* **Outcomes** (part 2). `TruthInv` adds that a receipt or a
  request exists only for operations sent, that an operation before its dispatch
  was not sent, and that a result about to be settled is still the provider's.
  Theorems `OutcomesTruthful`, `DispatchedOnce`.
* **Evidence** (part 3). `EvidenceInv` says that an answered
  request is not sent again (`OneRequest`), that effects belong to turns that were
  reached, one each (`TurnInv`), that the effect the workflow works on is open until
  its outcome is known and journaled once (`FocusInv`), that a turn starts an effect
  only when all earlier ones are settled (`SettledInv`), and that the journal knows
  what is uncertain (`QuietInv`). The completion is quiescent because legality
  reads that journal; the verifiers are right because a status that is neither open
  nor DIFFERENT_STATE is what the provider holds (`ClosedIsKnown`), and whatever
  reached the target was journaled before it left. Theorems `EvidenceInvariance`,
  `CompletionQuiescent`, `EvidenceTrue`.
* **Journal and stop** (part 4). `JournalInv` gives for every status
  and await the entries recorded so far, hence that none is out of order, and the
  entries a turn and a stop may still add; `StopInv` follows `close_effects`, which
  has visited every open effect but the one it works on. Theorems
  `JournalInvariance`, `SoundJournal`, `StopClosesAll`.
* **Contract** (`ContractProofs`). The handlers keep a promise to the caller
  across two steps: the invariant relates each call's step, what it submitted,
  the promise of that revision and the receipts, and the applied chain to the
  promises, of which it is a prefix. Theorems `OneWinnerTheorem` and
  `RegisterRefinement` (the initial state maps to the register's, every step to
  a step or a stutter). `ContractRules` stays opaque in them: they hold for any
  rules of authority and legality. The next ones open the rules.
  *What the run may refuse.* `JudgeInv`: whatever a handler has accepted and not yet
  resolved, and whatever a promise of the next revision holds, still applies to the
  contract in force and cites answers that were given by then; `CiteInv` and
  `RejectInv` carry the turn in which the handler read them to the refusal, and with
  `RequestInv` (a response belongs to the request of its wait) a refusal is explained
  by a replacement no earlier than that turn. It needs `WaitInv` and
  `AnswerInv` (a promise of a wait that has not begun is unresolved; what a human
  wait listens to is a human's response), since an answer in TaskState must be known
  to be a human's. Theorems `RejectionIsExplained` and, of every single step,
  `RefusalIsReplacedAnswer`.
  *What amendments may do.* `ProtectInv` adds to `ProtectedCriteria` that every
  criterion keeps its fields and every waiver in force was put there by an applied
  amendment. One amendment is any number of operations, and what they leave is
  shown by induction: `SetInduction` (a set that holds 0 and with n also n + 1 holds
  every natural number) follows from the well-foundedness of <, `AfterIsPrefix` from
  it that the recursive function has its values, and `OperationsKeep` that each
  operation leaves alone what its author may not change. Theorem
  `ProtectedCriteriaStand`.
  *Completion.* `CompleteInv`: a completed Task is at its end and every gating
  criterion is waived or met by the evidence. Theorems `CompletionIsDemonstrated`,
  `ContractTypes`.
* **Turn loop** (`CognitiveTaskProofs`). `PacketInv`: a packet prepared by a handoff
  is the next turn's until it is taken, or an amendment voided it. Without it
  `PacketIsCurrent` is not inductive: the packet is made in one turn and used in the
  next. `DeliveryInv` follows one attempt through its guards: what each of them saw is
  an element of `since`, the live values of the attempt so far, and the elements come
  in the order of the guards. A change only appends to it and a crash starts it anew,
  so at the call there is a moment of this attempt at which the packet was current.
  `FamilyInv`: children below `joined` have ended and were seen as they ended but for
  one that met the swallowed cancellation, and outside the join all are below it.
  Theorems `CognitionIsCurrent`,
  `WorkerIsCurrent`, `EveryChildIsJoined`.
* **Hub** (`TransportProofs`, part 1). `HubInv`: a slot is held by exactly the requests
  that `ServeHTTP` has not left (`SlotsHeld`), each phase of the handshake implies
  what the earlier ones established (`Established`), from the committed registration
  on the row is the hub's (`Routed`), and workstation ids are among the first ones so
  that the next is free (`Counted`). Theorems `HubInvariant`,
  `ServedSessionIsRouted`, `ReceiptIsTheId`, `SlotsBoundSessions`.
* **Relay** (`TransportProofs`, part 2). `RelayInv`: the client's guard keeps the
  books until the receiving goroutine fails, so that what the IDE asked is answered or
  pending (`Balanced`); an exit frame
  is the agent's own exit (`ExitsAreTrue`); and a receiving goroutine that ended well
  has read exit 0 with nothing pending, whatever the sending one accepted after it
  (`ReceivedAll`). The last is needed because the client returns later than it reads.
  Theorems `SuccessMeansComplete`, `ChildIsAwaited`.
* **Installation** (`ClientInstallationProofs`). `InstallationInv`: the lease is held
  on the inode the lock file has now, so one process at most is inside
  (`Exclusive`), and what that process read or wrote is what the files hold
  (`Agrees`); both are needed at once, since a file stays as it was read only while
  nobody else is inside. `Pinned` counts: after a connection as x, the files that no
  longer name x are at most the ones lost. Theorems `InstallationInvariant`,
  `ConnectedIdentityIsPinned`, `LeaseExcludes`, and `IdentityIsPinned` under
  `MaxLost <= 2`. That hypothesis is exact: with profile, node-id and receipt all
  lost, a new login goes through, which TLC shows with `MaxLost = 3`.
* **Scheduler core** (`HostProofs`, part 1). `CoreInv`: the queue is the tail of
  the submission order, a run is QUEUED exactly when it is in that tail, and the
  slot is the RUNNING run. Theorems `CoreInvariance`, `FIFO`, `OneSlot`, `Final`
  (a terminal run never changes), and `NothingLost`.
* **Backup** (`HostProofs`, part 2). `BackupInv`: the lock's holder is the one
  process past it (`OneHolder`), which has published the newest generation and whose
  status.json says "running" until it concludes (`Holding`); what prune is about to
  remove has `Keep` newer ones that verify (`Doom`; the medium damages nothing during
  the seconds of a prune, by assumption); and the generations that verify, with those the medium damaged,
  are at least `Keep` or all that were published (`Stock`). Theorems
  `RetentionIsKept`, `SuccessIsTheNewest`.
* **Durable scheduler** (`RestateSchedulerProofs`). `SchedulerInv`: where the
  invocation stands fixes what its run has recorded, and every submission is in
  one place of inbox, queue and slot. Each step is then a step of the core or a
  stutter. Theorems `SchedulerInvariance`, `OneRun`, `Refinement`.
* **Personal control** (`RuntimeProofs`, part 1). What is published belongs to the
  invocation that took the key; a handler past its check holds the wait its
  response is for, and waits only grow, so the promise it resolves is that wait's;
  a receipt is of the response the promise holds. Theorems `ControlInvariance`,
  `OnlyOwnTask`, `OneAnswerCounts`.
* **Boundary control** (`RuntimeProofs`, part 2). `BoundaryInv`: a call of the pool
  that is still waited for is the only one of its Task, and of the boundary and the
  observer that Task is at (`CallsStand`); an entry or a future that says "assessed"
  is an inspection of this boundary (`Assessed`). So a call that was abandoned, is
  another Task's or was made before a restart answers nobody. Theorem
  `ContinuationIsAssessed`.

Every safety invariant a run checks is also proved. Only model-checked: the
liveness properties, which need fairness (`CancelEndsRun`, `SupervisionEnds`,
`EverySubmissionEnds`, `TaskEnds`, `RelayEnds`, `StaleSessionIsForgotten`,
`LeaseIsReleased`, `AdmissionEnds`, `SubmissionIsSettled`).

## 6. Not modelled

* *Data*: codecs and validation of messages, prompts, canonical encodings, byte
  limits, digests as such. A conversion that a decision reads (the digest of a
  response, the signature of a verdict) is modelled by what it tells apart.
* *Output nothing reads*: events, telemetry, reports, diagnosis.
* *Adapters*: models, workers, issue trackers, git and the operating system. Their
  answers are any answer.
* *Frontier cognition* (`frontier.py`): no runtime of the repository composes it,
  so there is no order of calls to model.
* *Semantic bridge and provider*: a synchronous composition of the above for one
  deployment.
* *The earlier ssh transport, command lines, installers*: one process, one pass,
  files.
* *Commits*: the commit a verification report names is read when `main` starts
  (`scheduler_restate.py` 152) and the steps run later in the same worktree; the
  model has no commits.

About half of the repository's lines are one-off experiments, acceptance scripts,
deployment files and their verifiers. They have no state that outlives a call
and are left out as a whole; the map covers most of the workflow, completion,
effects, relay, server, installation, scheduler and backup code instead.

## 7. What is left

1. The commit of a verification report, and the bytes a packet may hold.
2. A composition of `HubSessions` with `AcpRelay`: today a served session is one
   step of the first and the second has one connection.
