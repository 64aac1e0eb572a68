---------------------------- MODULE ContractRules ----------------------------
(***************************************************************************)
(* Completion Contract v1 as pure functions, after                         *)
(* src/runtime/kernel/completion.py, review.py and human.py: what a valid  *)
(* contract is, what an amendment does to one, what verdict each criterion *)
(* gets from the retained evidence, and when COMPLETED is legal.           *)
(*                                                                         *)
(* A contract is [revision, criteria], criteria a function from criterion  *)
(* ids; the order of the list in the code only orders messages.            *)
(* A verifier is a record whose "kind" says which other fields it has:     *)
(*   artifact_digest     artifact, want, subject                           *)
(*   human_response      artifact, request, accept                         *)
(*   capability_journal  subject  (predicate no_target_effect)             *)
(*   semantic_review     subject, depends, and artifact, request, accept   *)
(*   unbound                                                               *)
(* Artifact contents are records so that a digest, a human response and a  *)
(* published request never compare equal by accident.  The evidence e is   *)
(* [art, answers, published, forbidden, reviews]: TaskState's artifacts,   *)
(* human_responses, the published "human-request-" artifacts, whether the  *)
(* journal holds an admitted target effect, and semantic_reviews.          *)
(***************************************************************************)
EXTENDS Integers, FiniteSets, Sequences, TLC

CONSTANTS
    MaxCriteria,   \* MAX_CRITERIA
    Mutating       \* whether the Task's authority admits a mutating capability

ASSUME MaxCriteriaAssumption == MaxCriteria \in Nat \ {0}
ASSUME MutatingAssumption == Mutating \in BOOLEAN

Authoritative == {"task_type", "operator_rule", "project_policy", "user", "parent_task"}
Derived == {"repository", "memory", "model"}
Deterministic == {"artifact_digest", "capability_journal"}
Passing == {"satisfied", "waived"}
ReviewTerminal == {"satisfied", "failed", "waived"}

NoRef == [data |-> "none"]
NoId == "none"
NoWaiver == [kind |-> "none", via |-> "none", cites |-> NoRef, exception |-> NoId, revision |-> 0]

Invariant(c) == c.source = "task_type" /\ c.invariant
Gating(c) == c.level = "REQUIRED" /\ c.by = NoId
Waived(c) == c.waiver # NoWaiver

(* Precedence on conflict. *)
Rank(c) ==
    CASE c.source = "task_type" -> IF c.invariant THEN 7 ELSE 4
      [] c.source \in {"operator_rule", "project_policy"} -> 6
      [] c.source = "user" -> 5
      [] c.source = "parent_task" -> 3
      [] c.source = "repository" -> 2
      [] c.source = "memory" -> 1
      [] c.source = "model" -> 0

HasRequest(c) == c.verifier.kind \in {"human_response", "semantic_review"}
                 /\ "request" \in DOMAIN c.verifier
HasSubject(c) == "subject" \in DOMAIN c.verifier

ValidCriterion(c) ==
    /\ c.level = "REQUIRED" => c.source \in Authoritative
    /\ c.verifier.kind = "semantic_review" /\ c.level = "REQUIRED" =>
         c.source \in {"user", "operator_rule"} /\ "request" \in DOMAIN c.verifier
    /\ Waived(c) => ~Invariant(c) /\ c.waiver.revision \in Nat \ {0}

(* The contract-fixed human requests, by request id; their ids are unique. *)
HumanBindings(criteria) ==
    {[criterion |-> id, artifact |-> criteria[id].verifier.artifact,
      request |-> criteria[id].verifier.request] :
        id \in {i \in DOMAIN criteria : HasRequest(criteria[i])}}
UniqueRequests(criteria) ==
    \A i, j \in DOMAIN criteria :
        HasRequest(criteria[i]) /\ HasRequest(criteria[j])
        /\ criteria[i].verifier.request.id = criteria[j].verifier.request.id => i = j

ValidSupersession(criteria, id) ==
    LET c == criteria[id] IN
    c.by # NoId =>
        /\ c.by \in DOMAIN criteria
        /\ c.by # id
        /\ criteria[c.by].by = NoId
        /\ ~Invariant(c)
        /\ Rank(criteria[c.by]) >= Rank(c)

ValidSemantic(criteria, id) ==
    LET v == criteria[id].verifier IN
    v.kind = "semantic_review" =>
        /\ \A i \in DOMAIN criteria :
              criteria[i].verifier.kind \in Deterministic /\ HasSubject(criteria[i])
              => criteria[i].verifier.subject # v.subject
        /\ \A d \in v.depends :
              d \in DOMAIN criteria /\ criteria[d].verifier.kind \in Deterministic

ValidContract(k) ==
    /\ k.revision >= 0
    /\ Cardinality(DOMAIN k.criteria) \in 1 .. MaxCriteria
    /\ UniqueRequests(k.criteria)
    /\ \A id \in DOMAIN k.criteria :
         /\ ValidCriterion(k.criteria[id])
         /\ k.criteria[id].waiver.revision =< k.revision
         /\ ValidSupersession(k.criteria, id)
         /\ ValidSemantic(k.criteria, id)
         /\ ~(/\ Mutating
              /\ k.criteria[id].verifier.kind = "unbound"
              /\ k.criteria[id].level = "REQUIRED")
    /\ \E id \in DOMAIN k.criteria : Gating(k.criteria[id])

-----------------------------------------------------------------------------
(* Verdicts *)

DigestVerdict(v, e) ==
    CASE e.art[v.artifact] = NoRef -> "pending"
      [] e.art[v.artifact] = [data |-> v.want] -> "satisfied"
      [] OTHER -> "failed"

(* A response counts only if it came through the human boundary for this   *)
(* request id and answers the request exactly as the contract now fixes it.*)
HumanVerdict(v, e) ==
    LET ref == e.art[v.artifact]
        answers == /\ v.request.id \in DOMAIN e.answers /\ ref = e.answers[v.request.id]
                   /\ ref # NoRef /\ ref.request = v.request
    IN CASE ref = NoRef -> IF v.request.id \in DOMAIN e.published THEN "waiting_human" ELSE "pending"
         [] ref # NoRef /\ ~answers -> "unknown"
         [] OTHER -> IF ref.value \in v.accept THEN "satisfied" ELSE "failed"

JournalVerdict(e) == IF e.forbidden THEN "failed" ELSE "satisfied"

EvidenceDigest(e) == <<e.art, e.answers, e.published>>

NoReview == [verdict |-> "none"]
(* Mutant of RetainedReview: a review of an earlier revision or evidence counts. *)
RetainedReviewStale(id, k, e) == IF id \in DOMAIN e.reviews THEN e.reviews[id] ELSE NoReview

(* The review retained for exactly this revision and evidence, or none. *)
RetainedReview(id, k, e) ==
    IF id \in DOMAIN e.reviews /\ e.reviews[id].revision = k.revision
       /\ e.reviews[id].digest = EvidenceDigest(e)
    THEN e.reviews[id] ELSE NoReview

BaseVerdict(c, e) ==
    CASE c.verifier.kind = "artifact_digest" -> DigestVerdict(c.verifier, e)
      [] c.verifier.kind = "human_response" -> HumanVerdict(c.verifier, e)
      [] c.verifier.kind = "capability_journal" -> JournalVerdict(e)
      [] OTHER -> "pending"

(* review.status: a human decision on the escalation outranks the model;   *)
(* "satisfied" never stands against a failed deterministic dependency.     *)
SemanticVerdict(id, k, e) ==
    LET v == k.criteria[id].verifier
        escalates == "request" \in DOMAIN v
        human == IF escalates THEN HumanVerdict(v, e) ELSE "none"
        deps == {BaseVerdict(k.criteria[d], e) : d \in v.depends}
        review == RetainedReview(id, k, e)
    IN CASE human \in {"satisfied", "failed"} -> human
         [] ~(human \in {"satisfied", "failed"}) /\ (deps \ ReviewTerminal # {} \/ review = NoReview)
              -> "pending"
         [] OTHER ->
              CASE review.verdict = "satisfied" /\ "failed" \in deps -> "unknown"
                [] review.verdict = "satisfied" /\ "failed" \notin deps /\ review.high -> "satisfied"
                [] review.verdict = "unsatisfied" /\ review.high -> "failed"
                [] OTHER -> IF escalates THEN "waiting_human" ELSE "unknown"

(* assess: semantic verdicts read the others before waivers are applied. *)
Assess(k, e) ==
    [id \in DOMAIN k.criteria |->
        CASE Waived(k.criteria[id]) -> "waived"
          [] ~Waived(k.criteria[id]) /\ k.criteria[id].verifier.kind = "semantic_review"
               -> SemanticVerdict(id, k, e)
          [] OTHER -> BaseVerdict(k.criteria[id], e)]

EvaluationOutcome(k, results) ==
    LET required == {results[id] : id \in {i \in DOMAIN k.criteria : Gating(k.criteria[i])}}
    IN CASE required \subseteq Passing -> "satisfied"
         [] ~(required \subseteq Passing) /\ required \cap {"unknown", "waiting_human"} # {} -> "unknown"
         [] OTHER -> "unsatisfied"

(* terminal: a gating task-type invariant over the append-only journal. *)
Irrecoverable(k, results) ==
    {id \in DOMAIN k.criteria :
        /\ results[id] = "failed"
        /\ Gating(k.criteria[id])
        /\ Invariant(k.criteria[id])
        /\ k.criteria[id].verifier.kind = "capability_journal"}

(* semantic_due: the reviews settle runs before it evaluates. *)
SemanticDue(k, e) ==
    LET results == Assess(k, e) IN
    {id \in DOMAIN k.criteria :
        /\ k.criteria[id].verifier.kind = "semantic_review"
        /\ ~Waived(k.criteria[id])
        /\ k.criteria[id].by = NoId
        /\ \A d \in k.criteria[id].verifier.depends : results[d] \in ReviewTerminal
        /\ RetainedReview(id, k, e) = NoReview}

-----------------------------------------------------------------------------
(* Amendments *)

(* Mutant of AuthorityGap: an exception need not name the rule it sets aside. *)
AuthorityGapAnyRule(op, c, actor) ==
    CASE Invariant(c) -> TRUE
      [] ~Invariant(c) /\ c.source \in {"operator_rule", "project_policy"} -> actor.kind # "operator"
      [] OTHER -> actor.kind # "user"

(* authority_gap: TRUE when the actor may not do op to criterion c. *)
AuthorityGap(op, c, actor) ==
    CASE Invariant(c) -> TRUE
      [] ~Invariant(c) /\ c.source \in {"operator_rule", "project_policy"} ->
           IF op \in {"bind", "elevate"}
           THEN actor.kind # "operator" /\ ~(actor.kind = "project_policy" /\ c.source = "project_policy")
           ELSE ~(actor.kind = "operator" /\ actor.via = "policy_exception"
                  /\ actor.exception = c.rule)
      [] OTHER -> actor.kind # "user"

(* add_gap *)
AddGap(c, actor) ==
    \/ c.source # CASE actor.kind = "user" -> "user"
                    [] actor.kind = "operator" -> "operator_rule"
                    [] actor.kind = "project_policy" -> "project_policy"
    \/ /\ actor.kind # "user"
       /\ actor.via # "policy_update"

(* One operation on [verdict, criteria]: 400 is a ValueError, 403 an       *)
(* AmendmentDenied.  The first operation that raises decides.              *)
Operations == {"add", "bind", "rebind", "waive", "elevate", "supersede"}
Raise(status, acc) == [acc EXCEPT !.verdict = status]
Change(acc, id, c) ==
    [acc EXCEPT !.criteria =
        [i \in DOMAIN acc.criteria \cup {id} |-> IF i = id THEN c ELSE acc.criteria[i]]]

(* An added criterion has a new id, and neither a waiver nor a successor. *)
Addable(acc, op) ==
    /\ ValidCriterion(op.criterion)
    /\ op.id \notin DOMAIN acc.criteria
    /\ ~Waived(op.criterion) /\ op.criterion.by = NoId

ApplyOperation(acc, op, actor, revision) ==
    LET c == acc.criteria[op.id]
        Guarded(legal, changed) ==
            CASE ~legal -> Raise(400, acc)
              [] legal /\ AuthorityGap(op.op, c, actor) -> Raise(403, acc)
              [] OTHER -> Change(acc, op.id, changed)
    IN  CASE acc.verdict # 200 -> acc
          [] acc.verdict = 200 /\ op.op = "add" ->
               CASE ~Addable(acc, op) -> Raise(400, acc)
                 [] Addable(acc, op) /\ AddGap(op.criterion, actor) -> Raise(403, acc)
                 [] OTHER -> Change(acc, op.id, op.criterion)
          [] acc.verdict = 200 /\ op.op # "add" /\ op.id \notin DOMAIN acc.criteria -> Raise(400, acc)
          [] OTHER ->
               CASE op.op = "bind" ->
                      Guarded((c.verifier.kind = "unbound" \/ c.level = "ADVISORY")
                                  /\ op.verifier.kind # "unbound",
                              [c EXCEPT !.verifier = op.verifier])
                 [] op.op = "rebind" ->
                      Guarded(c.level = "REQUIRED" /\ op.verifier.kind # "unbound",
                              [c EXCEPT !.verifier = op.verifier])
                 [] op.op = "waive" ->
                      Guarded(~Waived(c),
                              [c EXCEPT !.waiver = [kind |-> actor.kind, via |-> actor.via,
                                  cites |-> actor.cites, exception |-> actor.exception,
                                  revision |-> revision]])
                 [] op.op = "elevate" ->
                      IF c.level = "ADVISORY" /\ c.source \in Derived
                      THEN IF actor.kind # "user" THEN Raise(403, acc)
                           ELSE Change(acc, op.id,
                                       [c EXCEPT !.source = "user", !.level = "REQUIRED"])
                      ELSE Guarded(c.level = "ADVISORY", [c EXCEPT !.level = "REQUIRED"])
                 [] op.op = "supersede" ->
                      Guarded(op.by \in DOMAIN acc.criteria /\ c.by = NoId,
                              [c EXCEPT !.by = op.by])

(* The operations of a submission in order, the criteria after each. *)
Unamended(k) == [verdict |-> 200, criteria |-> k.criteria]
Operate(k, submission, acc, i) ==
    ApplyOperation(acc, submission.ops[i], submission.actor, k.revision + 1)
AfterOperations(k, submission) ==
    LET after[i \in 0 .. Len(submission.ops)] ==
            IF i = 0 THEN Unamended(k) ELSE Operate(k, submission, after[i - 1], i)
    IN after
ApplyOperations(k, submission) == AfterOperations(k, submission)[Len(submission.ops)]

(* apply_amendment: a conflict is 409; a cited response must be accepted.  *)
Accepted(ref, e) == ref \in {e.answers[r] : r \in DOMAIN e.answers}
ApplyAmendment(k, submission, e) ==
    LET folded == ApplyOperations(k, submission)
        updated == [revision |-> k.revision + 1, criteria |-> folded.criteria]
        Refuse(status) == [verdict |-> status, contract |-> k]
    IN IF submission.from # k.revision THEN Refuse(409)
       ELSE IF submission.actor.via = "human_response" /\ ~Accepted(submission.actor.cites, e) THEN Refuse(403)
       ELSE IF folded.verdict # 200 THEN Refuse(folded.verdict)
       ELSE IF ~ValidContract(updated) THEN Refuse(400)
       ELSE [verdict |-> 200, contract |-> updated]

-----------------------------------------------------------------------------
(* legality: the single answer to "may this Task become COMPLETED now?",   *)
(* asked right after the evaluation, so the freshness blockers cannot bite.*)
WaiverStands(c, e) ==
    /\ ~AuthorityGap("waive", c, c.waiver)
    /\ c.waiver.via = "human_response" =>
         Accepted(c.waiver.cites, e)

Legal(k, e, results, humanWait) ==
    /\ EvaluationOutcome(k, results) = "satisfied"
    /\ \A id \in DOMAIN k.criteria :
         /\ Gating(k.criteria[id]) =>
              /\ k.criteria[id].verifier.kind = "unbound" => Waived(k.criteria[id])
              /\ results[id] \in Passing
         /\ Waived(k.criteria[id]) => WaiverStands(k.criteria[id], e)
    /\ ~humanWait

(* evaluate_contract: what the settlement does next. *)
Judgement(k, e, humanWait) ==
    LET results == Assess(k, e) IN
    CASE Legal(k, e, results, humanWait) -> "legal"
      [] ~Legal(k, e, results, humanWait) /\ Irrecoverable(k, results) # {} -> "irrecoverable"
      [] OTHER -> "continue"
=============================================================================
