---------------------------- MODULE ContractTask ----------------------------
(***************************************************************************)
(* One Task under its Completion Contract, after                           *)
(* src/runtime/kernel/workflow.py: the run that settles, waits and applies *)
(* amendments, interleaved with the shared handlers amend_contract,        *)
(* submit_human_response and submit_input, which read the Task state once  *)
(* and resolve a one-shot promise later.                                   *)
(*                                                                         *)
(* The published TaskState is the run's own state: every change the run    *)
(* makes is followed by ctx.set before the next await.  A settlement is    *)
(* one step, since nothing it reads can change under it: only the run      *)
(* writes the contract and the evidence.  Target effects, cancellation and *)
(* children are modelled elsewhere; here one bit of the journal, whether   *)
(* an operation outside the contract's allowed classes was admitted, is    *)
(* what the capability_journal criterion reads.                            *)
(***************************************************************************)
EXTENDS ContractRules

CONSTANTS
    Contract0,      \* the accepted revision 0
    Submissions,    \* what a binding may submit: [from, actor, ops]
    NoSubmission,
    Clients,        \* concurrent calls of amend_contract
    MaxRevision,    \* revisions with a promise in this instance
    MaxTurns,       \* MAX_TURNS
    Artifacts,      \* artifact names
    Contents,       \* what artifact.write may put in one
    Requests,       \* human request ids
    Values          \* the allowed responses of every human request

Revisions == 1 .. MaxRevision
Turns == 1 .. MaxTurns

(* What lowering and validate_amendment_submission let through. *)
CriterionFields == {"level", "source", "invariant", "rule", "verifier", "waiver", "by"}
ASSUME ContractAssumption ==
    /\ ValidContract(Contract0) /\ Contract0.revision = 0
    /\ \A id \in DOMAIN Contract0.criteria : DOMAIN Contract0.criteria[id] = CriterionFields
ASSUME TurnsAssumption == MaxTurns \in Nat \ {0} /\ MaxRevision \in Nat \ {0}
ASSUME SubmissionAssumption ==
    /\ NoSubmission \notin Submissions
    /\ \A s \in Submissions :
         /\ s.from \in Nat /\ s.from + 1 \in Revisions
         /\ s.actor.via = "human_response" => s.actor.cites # NoRef
         /\ Len(s.ops) \in Nat /\ DOMAIN s.ops = 1 .. Len(s.ops)
         /\ \A i \in DOMAIN s.ops :
              /\ s.ops[i].op \in Operations
              /\ s.ops[i].op = "add" => DOMAIN s.ops[i].criterion = CriterionFields

VARIABLES
    pc,         \* where the run is
    contract,   \* the run's contract: the current revision
    applied,    \* the amendment chain: submissions applied, in order
    rejected,   \* amendment_rejected, 0 for None
    lifecycle,
    evidence,   \* artifacts, human_responses, published requests, journal, reviews
    turn,       \* state['iteration']
    wait,       \* state['wait'] with the requirement await_input captured
    asking,     \* the human.request this turn will wait for, or NoId
    promise,    \* the one-shot promises contract/{r}
    inputs,     \* the one-shot promises input/{turn}/{wait_id}
    answering,  \* a submit handler that has read the wait and not resolved yet
    given,      \* every response a human handed to submit_human_response
    call,       \* call[c]: [step, sub, at]: amend_contract of client c, at: see ReadTask
    receipt     \* receipt[c]: its answer

run == <<pc, contract, applied, rejected, lifecycle, evidence, turn, wait, asking>>
handlers == <<promise, inputs, answering, given, call, receipt>>
vars == <<run, handlers>>

NoWait == [type |-> "none"]
NoAnswer == [turn |-> 0, ref |-> NoRef]
Fails == -1
IdleCall == [step |-> "idle", sub |-> NoSubmission, at |-> Fails]
TextRef == [data |-> "text"]

Init ==
    /\ pc = "accepted"
    /\ contract = Contract0
    /\ applied = <<>>
    /\ rejected = 0
    /\ lifecycle = "RUNNING"
    /\ evidence = [art |-> [a \in Artifacts |-> NoRef],
                   answers |-> [q \in Requests |-> NoRef],
                   published |-> <<>>, forbidden |-> FALSE, reviews |-> <<>>]
    /\ turn = 0
    /\ wait = NoWait
    /\ asking = NoId
    /\ promise = [r \in Revisions |-> NoSubmission]
    /\ inputs = [t \in Turns |-> NoRef]
    /\ answering = NoAnswer
    /\ given = {}
    /\ call = [c \in Clients |-> IdleCall]
    /\ receipt = [c \in Clients |-> "none"]

Terminal == lifecycle \in {"COMPLETED", "FAILED"}
HumanWait == wait.type = "human_response"

-----------------------------------------------------------------------------
(* settle: run the reviews that are due, evaluate, then legality. *)

ReviewResults == {[verdict |-> "satisfied", high |-> TRUE], [verdict |-> "unsatisfied", high |-> TRUE],
                  [verdict |-> "unknown", high |-> FALSE]}

Reviewed(results) ==
    [evidence EXCEPT !.reviews =
        [id \in DOMAIN results |->
            [revision |-> contract.revision, digest |-> EvidenceDigest(evidence),
             verdict |-> results[id].verdict, high |-> results[id].high]] @@ evidence.reviews]

Settle(next) ==
    \E e \in {Reviewed(results) : results \in [SemanticDue(contract, evidence) -> ReviewResults]} :
        \E judgement \in {Judgement(contract, e, HumanWait)} :
            /\ evidence' = e
            /\ \/ /\ judgement = "legal"
                  /\ lifecycle' = "COMPLETED"
                  /\ pc' = "end"
                  /\ UNCHANGED wait
               \/ /\ judgement = "irrecoverable"
                  /\ lifecycle' = "FAILED"
                  /\ wait' = NoWait
                  /\ pc' = "end"
               \/ /\ judgement = "continue"
                  /\ pc' = next
                  /\ UNCHANGED <<lifecycle, wait>>
            /\ UNCHANGED <<contract, applied, rejected, turn, asking, handlers>>

SettleAccepted == pc = "accepted" /\ Settle("boundary")
SettleAmended == pc = "amended" /\ Settle("admit")
SettleEffect == pc = "effect" /\ Settle(IF asking = NoId THEN "outcome" ELSE "ask")
SettleWithdrawn == pc = "withdrawn" /\ Settle("outcome")
SettleWaiting == pc = "still_waiting" /\ Settle("wait")
SettleOutcome == pc = "outcome" /\ Settle("boundary")

-----------------------------------------------------------------------------
(* apply_amendment, admit_amendments *)

Decided == contract.revision + 1 \in Revisions /\ promise[contract.revision + 1] # NoSubmission
Amendable == Decided /\ rejected # contract.revision + 1

(* The journaled step amend/{r}: the next revision, or a recorded rejection. *)
Admitted == ApplyAmendment(contract, promise[contract.revision + 1], evidence)
ApplyAdmitted(result) ==
    \/ /\ result.verdict = 200
       /\ contract' = result.contract
       /\ applied' = Append(applied, promise[contract.revision + 1])
       /\ UNCHANGED rejected
    \/ /\ result.verdict # 200
       /\ rejected' = contract.revision + 1
       /\ UNCHANGED <<contract, applied>>

BeginTurn ==
    /\ pc = "boundary"
    /\ turn < MaxTurns
    /\ turn' = turn + 1
    /\ asking' = NoId
    /\ pc' = "admit"
    /\ UNCHANGED <<contract, applied, rejected, lifecycle, evidence, wait, handlers>>

TurnLimit ==
    /\ pc = "boundary"
    /\ turn = MaxTurns
    /\ lifecycle' = "FAILED"
    /\ pc' = "end"
    /\ UNCHANGED <<contract, applied, rejected, evidence, turn, wait, asking, handlers>>

AdmitAmendment ==
    /\ pc = "admit"
    /\ Amendable
    /\ \E result \in {Admitted} :
         /\ ApplyAdmitted(result)
         /\ pc' = IF result.verdict = 200 THEN "amended" ELSE "admit"
    /\ UNCHANGED <<lifecycle, evidence, turn, wait, asking, handlers>>

NoAmendment ==
    /\ pc = "admit"
    /\ ~Amendable
    /\ pc' = "decide"
    /\ UNCHANGED <<contract, applied, rejected, lifecycle, evidence, turn, wait, asking, handlers>>

-----------------------------------------------------------------------------
(* One turn: the decision the gate allowed, or a turn without an effect. *)

WriteArtifact(a, d) ==
    /\ pc = "decide"
    /\ evidence' = [evidence EXCEPT !.art[a] = [data |-> d]]
    /\ pc' = "effect"
    /\ UNCHANGED <<contract, applied, rejected, lifecycle, turn, wait, asking, handlers>>

UseForbiddenClass ==
    /\ pc = "decide"
    /\ evidence' = [evidence EXCEPT !.forbidden = TRUE]
    /\ pc' = "effect"
    /\ UNCHANGED <<contract, applied, rejected, lifecycle, turn, wait, asking, handlers>>

(* human.request: only a request the current contract fixes, then a wait. *)
AskHuman(b) ==
    /\ pc = "decide"
    /\ evidence' = [evidence EXCEPT !.published = (b.request.id :> b.request) @@ @]
    /\ asking' = b.request.id
    /\ pc' = "effect"
    /\ UNCHANGED <<contract, applied, rejected, lifecycle, turn, wait, handlers>>

(* WAIT human_response: the published request must be the current one. *)
WaitHuman(b) ==
    /\ pc = "decide"
    /\ b.request.id \in DOMAIN evidence.published
    /\ evidence.published[b.request.id] = b.request
    /\ asking' = b.request.id
    /\ pc' = "ask"
    /\ UNCHANGED <<contract, applied, rejected, lifecycle, evidence, turn, wait, handlers>>

(* COMPLETE, a denied decision or a handoff: only the evaluation follows. *)
NoEffect ==
    /\ pc = "decide"
    /\ pc' = "outcome"
    /\ UNCHANGED <<contract, applied, rejected, lifecycle, evidence, turn, wait, asking, handlers>>

-----------------------------------------------------------------------------
(* await_input *)

BeginHumanWait ==
    /\ pc = "ask"
    /\ \E b \in HumanBindings(contract.criteria) :
         /\ b.request.id = asking
         /\ wait' = [type |-> "human_response", id |-> asking, request |-> b.request,
                     artifact |-> b.artifact, turn |-> turn]
    /\ lifecycle' = "WAITING"
    /\ pc' = "wait"
    /\ UNCHANGED <<contract, applied, rejected, evidence, turn, asking, handlers>>

BeginTextWait ==
    /\ pc = "decide"
    /\ wait' = [type |-> "text", turn |-> turn]
    /\ lifecycle' = "WAITING"
    /\ pc' = "wait"
    /\ UNCHANGED <<contract, applied, rejected, evidence, turn, asking, handlers>>

ReceiveInput ==
    /\ pc = "wait"
    /\ inputs[turn] # NoRef
    /\ evidence' = IF HumanWait
                   THEN [evidence EXCEPT !.art[wait.artifact] = inputs[turn], !.answers[wait.id] = inputs[turn]]
                   ELSE evidence
    /\ wait' = NoWait
    /\ lifecycle' = "RUNNING"
    /\ pc' = "outcome"
    /\ UNCHANGED <<contract, applied, rejected, turn, asking, handlers>>

WaitStillBound(k, id) ==
    \E b \in HumanBindings(k.criteria) :
        b.request.id = id /\ Gating(k.criteria[b.criterion]) /\ ~Waived(k.criteria[b.criterion])

(* restate.select: a human wait also listens for the next amendment. *)
AmendWaiting ==
    /\ pc = "wait"
    /\ HumanWait
    /\ Amendable
    /\ \E result \in {Admitted} :
         /\ ApplyAdmitted(result)
         /\ \/ /\ result.verdict # 200 \/ WaitStillBound(result.contract, wait.id)
               /\ pc' = IF result.verdict = 200 THEN "still_waiting" ELSE "wait"
               /\ UNCHANGED <<wait, lifecycle>>
            \/ /\ result.verdict = 200 /\ ~WaitStillBound(result.contract, wait.id)
               /\ pc' = "withdrawn"
               /\ wait' = NoWait
               /\ lifecycle' = "RUNNING"
    /\ UNCHANGED <<evidence, turn, asking, handlers>>

Step ==
    \/ SettleAccepted \/ SettleAmended \/ SettleEffect \/ SettleWithdrawn \/ SettleWaiting
    \/ SettleOutcome \/ BeginTurn \/ TurnLimit \/ AdmitAmendment \/ NoAmendment
    \/ \E a \in Artifacts, d \in Contents : WriteArtifact(a, d)
    \/ UseForbiddenClass
    \/ \E b \in HumanBindings(contract.criteria) : AskHuman(b) \/ WaitHuman(b)
    \/ NoEffect \/ BeginHumanWait \/ BeginTextWait \/ ReceiveInput \/ AmendWaiting

-----------------------------------------------------------------------------
(* submit_human_response and submit_input: read the wait, resolve later. *)

ReadWait ==
    /\ answering = NoAnswer
    /\ lifecycle = "WAITING"
    /\ \/ /\ HumanWait
          /\ \E v \in Values :
               LET ref == [request |-> wait.request, value |-> v] IN
               /\ answering' = [turn |-> wait.turn, ref |-> ref]
               /\ given' = given \cup {ref}
       \/ /\ ~HumanWait
          /\ answering' = [turn |-> wait.turn, ref |-> TextRef]
          /\ UNCHANGED given
    /\ UNCHANGED <<run, promise, inputs, call, receipt>>

ResolveInput ==
    /\ answering # NoAnswer
    /\ inputs' = IF inputs[answering.turn] = NoRef
                 THEN [inputs EXCEPT ![answering.turn] = answering.ref] ELSE inputs
    /\ answering' = NoAnswer
    /\ UNCHANGED <<run, promise, given, call, receipt>>

-----------------------------------------------------------------------------
(* amend_contract: read the Task state, peek, check, resolve.  What the    *)
(* check says depends on nothing but the state read and the retained       *)
(* contract of its revision, which never changes: it is noted at the read, *)
(* as the iteration in the state read when the check passes, or Fails.     *)

(* Mutant of CheckAgainst: the handler checks the revision only. *)
CheckRevisionOnly(s) == IF Terminal \/ s.from # contract.revision THEN 409 ELSE 200

CheckAgainst(s) ==
    IF Terminal \/ s.from # contract.revision THEN 409
    ELSE ApplyAmendment(contract, s, evidence).verdict

ReadTask(c, s) ==
    /\ call[c] = IdleCall
    /\ call' = [call EXCEPT ![c] =
                   [step |-> "read", sub |-> s, at |-> IF CheckAgainst(s) = 200 THEN turn ELSE Fails]]
    /\ UNCHANGED <<run, promise, inputs, answering, given, receipt>>

Now(k, step) == [step |-> step, sub |-> k.sub, at |-> k.at]
Answer(c, outcome) ==
    /\ receipt' = [receipt EXCEPT ![c] = outcome]
    /\ call' = [call EXCEPT ![c] = Now(call[c], "done")]

(* Mutant of PeekAnswer: any resolved promise is taken for a retry. *)
PeekAnswerTrusting(s, existing) == "ALREADY_SUBMITTED"

PeekAnswer(s, existing) == IF existing = s THEN "ALREADY_SUBMITTED" ELSE "refused"

PeekAndCheck(c) ==
    LET existing == promise[call[c].sub.from + 1] IN
    /\ call[c].step = "read"
    /\ \/ /\ existing # NoSubmission
          /\ Answer(c, PeekAnswer(call[c].sub, existing))
       \/ /\ existing = NoSubmission
          /\ call[c].at = Fails
          /\ Answer(c, "refused")
       \/ /\ existing = NoSubmission
          /\ call[c].at # Fails
          /\ call' = [call EXCEPT ![c] = Now(call[c], "checked")]
          /\ UNCHANGED receipt
    /\ UNCHANGED <<run, promise, inputs, answering, given>>

(* Mutant of ResolveAmendment: the promise is set, not resolved once. *)
ResolveAmendmentAgain(c) ==
    /\ call[c].step = "checked"
    /\ promise' = [promise EXCEPT ![call[c].sub.from + 1] = call[c].sub]
    /\ Answer(c, "SUBMITTED")
    /\ UNCHANGED <<run, inputs, answering, given>>

ResolveAmendment(c) ==
    LET s == call[c].sub
        r == s.from + 1
    IN /\ call[c].step = "checked"
       /\ \/ /\ promise[r] = NoSubmission
             /\ promise' = [promise EXCEPT ![r] = s]
             /\ Answer(c, "SUBMITTED")
          \/ /\ promise[r] # NoSubmission
             /\ Answer(c, PeekAnswer(s, promise[r]))
             /\ UNCHANGED promise
       /\ UNCHANGED <<run, inputs, answering, given>>

AmendContract(c) ==
    \/ \E s \in Submissions : ReadTask(c, s)
    \/ PeekAndCheck(c)
    \/ ResolveAmendment(c)

Handlers == ReadWait \/ ResolveInput \/ \E c \in Clients : AmendContract(c)

Next == Step \/ Handlers

Spec == Init /\ [][Next]_vars

-----------------------------------------------------------------------------
(* Properties *)

(* The published TaskState has its shape: a wait exists exactly while the  *)
(* Task is WAITING, the contract is as many revisions on as its amendment  *)
(* chain is long, and only an admitted response is a human response.       *)
TypeOK ==
    /\ pc \in {"accepted", "boundary", "admit", "amended", "decide", "effect", "ask", "wait",
               "still_waiting", "withdrawn", "outcome", "end"}
    /\ lifecycle \in {"RUNNING", "WAITING", "COMPLETED", "FAILED"}
    /\ turn \in 0 .. MaxTurns
    /\ rejected \in 0 .. MaxRevision
    /\ (lifecycle = "WAITING") <=> (wait # NoWait)
    /\ contract.revision = Len(applied)
    /\ \A q \in Requests : evidence.answers[q] \in {NoRef} \cup given
    /\ \A c \in Clients : receipt[c] = "none" <=> call[c].step # "done"

(* Whatever sequence of amendments was applied, the contract in force is   *)
(* valid, every task-type invariant stands exactly as accepted, and a      *)
(* REQUIRED operator rule with a verifier is as accepted unless an applied *)
(* operator exception names it (authority_gap, apply_amendment).           *)
ExceptionApplied(rule) ==
    \E i \in DOMAIN applied :
        applied[i].actor.via = "policy_exception" /\ applied[i].actor.exception = rule
Ruled(c) == c.source = "operator_rule" /\ c.level = "REQUIRED" /\ c.verifier.kind # "unbound"
ProtectedCriteria ==
    /\ ValidContract(contract)
    /\ \A id \in DOMAIN Contract0.criteria :
         LET c == Contract0.criteria[id] IN
         /\ id \in DOMAIN contract.criteria
         /\ Invariant(c) => contract.criteria[id] = c
         /\ Ruled(c) => contract.criteria[id] = c \/ ExceptionApplied(c.rule)

(* COMPLETED is demonstrated: no human wait is open, no forbidden operation*)
(* was admitted, and every gating criterion of the revision in force was   *)
(* waived by an applied amendment or met - an artifact by its content, a   *)
(* human decision by a response a human really gave to exactly the request *)
(* now fixed, a semantic one by such a decision or by a confident review   *)
(* of exactly this evidence with every dependency met (settle, legality).  *)
HumanSaid(c) ==
    \E r \in given : r.request = c.verifier.request /\ r.value \in c.verifier.accept
                    /\ evidence.art[c.verifier.artifact] = r
ContentMet(c) == evidence.art[c.verifier.artifact] = [data |-> c.verifier.want]
ReviewMet(id) ==
    /\ id \in DOMAIN evidence.reviews
    /\ LET r == evidence.reviews[id] IN
       /\ r.verdict = "satisfied" /\ r.high
       /\ r.revision = contract.revision
       /\ r.digest[1] = evidence.art
    /\ \A d \in contract.criteria[id].verifier.depends :
         contract.criteria[d].verifier.kind = "artifact_digest" => ContentMet(contract.criteria[d])
Met(id) ==
    LET c == contract.criteria[id] IN
    CASE c.verifier.kind = "artifact_digest" -> ContentMet(c)
      [] c.verifier.kind = "human_response" -> HumanSaid(c)
      [] c.verifier.kind = "capability_journal" -> ~evidence.forbidden
      [] c.verifier.kind = "semantic_review" -> ReviewMet(id) \/ HumanSaid(c)
      [] OTHER -> FALSE
WaivedByAmendment(id) ==
    \E i \in DOMAIN applied : \E j \in DOMAIN applied[i].ops :
        applied[i].ops[j].op = "waive" /\ applied[i].ops[j].id = id
CompletedIsDemonstrated ==
    lifecycle = "COMPLETED" =>
        /\ wait = NoWait
        /\ \A id \in DOMAIN contract.criteria :
             Gating(contract.criteria[id]) => WaivedByAmendment(id) \/ Met(id)

(* Two clients are never both told that they won the same revision, and    *)
(* the chain of applied amendments is exactly what the promises hold       *)
(* (amend_contract: compare-and-set by revision).                          *)
OneWinner ==
    /\ \A c, d \in Clients :
         receipt[c] = "SUBMITTED" /\ receipt[d] = "SUBMITTED" /\ c # d
         => call[c].sub.from # call[d].sub.from
    /\ \A i \in DOMAIN applied : applied[i] = promise[i] /\ applied[i].from = i - 1

(* A submission the handler accepted is refused by the run only because    *)
(* the human response it cites, given by the iteration the handler read,   *)
(* was replaced no earlier than that iteration by a different response to  *)
(* the same request (amend_contract's check against the state it read,     *)
(* apply_amendment's 403 against the evidence of the turn that admits it). *)
ReplacedSince(ref, at) ==
    \E t, u \in Turns :
        /\ t <= at /\ inputs[t] = ref
        /\ at <= u /\ inputs[u] \in given \ {ref} /\ inputs[u].request.id = ref.request.id
RejectedOnlyForReplacedAnswer ==
    rejected # 0 =>
        /\ rejected = contract.revision + 1
        /\ \E c \in Clients :
             /\ receipt[c] = "SUBMITTED" /\ call[c].sub = promise[rejected]
             /\ call[c].sub.actor.via = "human_response"
             /\ ReplacedSince(call[c].sub.actor.cites, call[c].at)

(* Submission is answered, compare-and-set, as the abstract register says. *)
Register == INSTANCE RevisionRegister WITH
    Undecided <- NoSubmission, decided <- promise, wants <- [c \in Clients |-> call[c].sub]
ImplementsRegister == Register!Spec
=============================================================================
