--------------------------- MODULE MCContractTask ---------------------------
(***************************************************************************)
(* A small contract with one criterion of each kind - an operator rule on  *)
(* an artifact, a human decision, a semantic review that depends on the    *)
(* rule, a task-type invariant over the journal - and the amendments the   *)
(* authority matrix tells apart.                                           *)
(***************************************************************************)
EXTENDS ContractTask

Criterion(level, source, verifier) ==
    [level |-> level, source |-> source, invariant |-> source = "task_type",
     rule |-> IF source = "operator_rule" THEN "r1" ELSE NoId,
     verifier |-> verifier, waiver |-> NoWaiver, by |-> NoId]

Decision(id, version) == [id |-> id, version |-> version]
HumanVerifier(version) ==
    [kind |-> "human_response", artifact |-> "h", request |-> Decision("q", version), accept |-> {"yes"}]
DigestVerifier(want) == [kind |-> "artifact_digest", artifact |-> "d", want |-> want, subject |-> "build"]
ReviewVerifier ==
    [kind |-> "semantic_review", subject |-> "design", depends |-> {"rule"}, artifact |-> "h",
     request |-> Decision("q", 0), accept |-> {"yes"}]

MCContract0 ==
    [revision |-> 0, criteria |->
        [rule |-> Criterion("REQUIRED", "operator_rule", DigestVerifier("x")),
         sem |-> Criterion("REQUIRED", "user", ReviewVerifier),
         inv |-> Criterion("REQUIRED", "task_type", [kind |-> "capability_journal"])]]

User == [kind |-> "user", via |-> "modify-constraints", cites |-> NoRef, exception |-> NoId]
UserCiting(v) == [User EXCEPT !.via = "human_response",
                              !.cites = [request |-> Decision("q", 0), value |-> v]]
Exception(rule) == [User EXCEPT !.kind = "operator", !.via = "policy_exception", !.exception = rule]
PolicyUpdate == [User EXCEPT !.kind = "operator", !.via = "policy_update"]

Waive(id) == [op |-> "waive", id |-> id]
Rebind(id, v) == [op |-> "rebind", id |-> id, verifier |-> v]
Add(id, c) == [op |-> "add", id |-> id, criterion |-> c]
Supersede(id, by) == [op |-> "supersede", id |-> id, by |-> by]
Sub(from, actor, ops) == [from |-> from, actor |-> actor, ops |-> ops]

AddMore == Add("more", Criterion("REQUIRED", "user", DigestVerifier("y")))
MCSubmissions ==
    {Sub(0, PolicyUpdate, <<Rebind("rule", DigestVerifier("y"))>>),
     Sub(0, Exception("r1"), <<Waive("rule")>>),
     Sub(0, UserCiting("no"), <<Waive("sem")>>),
     Sub(0, User, <<AddMore, Supersede("sem", "more")>>),
     Sub(1, User, <<Rebind("sem", HumanVerifier(1))>>)}

ClientSymmetry == Permutations(Clients)

(* The bound on the last turn: it admits amendments and settles, and has   *)
(* no effect or wait of its own.  It is there for what the turns before it *)
(* left: an answer replaced in the second turn meets an amendment admitted *)
(* in the third.                                                           *)
LastTurnAdmits == turn = MaxTurns => pc \notin {"effect", "ask", "wait"}
=============================================================================
