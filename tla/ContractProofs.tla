--------------------------- MODULE ContractProofs ---------------------------
(***************************************************************************)
(* For every contract, every set of submissions and clients and every      *)
(* number of turns: of the amendments to one revision exactly one wins,    *)
(* the protocol implements the abstract revision register, an amendment    *)
(* the handler accepted can be refused by the run for one reason only, no  *)
(* sequence of amendments changes what its authors may not change, and a   *)
(* completed Task is demonstrated by its evidence.  What the operations of *)
(* an amendment leave is shown by induction on their number.               *)
(***************************************************************************)
EXTENDS ContractTask, WellFoundedInduction, TLAPS

Steps == {"idle", "read", "checked", "done"}

(* The part of the state the race is about. *)
RaceInv ==
    /\ promise \in [Revisions -> Submissions \cup {NoSubmission}]
    /\ \A r \in Revisions : promise[r] # NoSubmission => promise[r].from + 1 = r
    /\ call \in [Clients -> [step : Steps, sub : Submissions \cup {NoSubmission}, at : Int]]
    /\ \A c \in Clients : call[c].step = "idle" <=> call[c].sub = NoSubmission
    /\ receipt \in [Clients -> {"none", "SUBMITTED", "ALREADY_SUBMITTED", "refused"}]
    /\ \A c \in Clients : receipt[c] = "none" <=> call[c].step # "done"
    /\ \A c \in Clients : receipt[c] = "SUBMITTED" => promise[call[c].sub.from + 1] = call[c].sub
    /\ applied \in Seq(Submissions)
    /\ contract.revision = Len(applied)
    /\ Len(applied) \in 0 .. MaxRevision
    /\ \A i \in 1 .. Len(applied) : applied[i] = promise[i]
    /\ turn \in Nat

(* What a submission is about, without its operations. *)
LEMMA SubmissionTargets ==
    /\ NoSubmission \notin Submissions
    /\ \A s \in Submissions : s.from \in Nat /\ s.from + 1 \in Revisions
BY SubmissionAssumption

(* What apply_amendment returns, without looking into the operations. *)
LEMMA ApplyVerdict ==
    ASSUME NEW k, NEW s, NEW e, ApplyAmendment(k, s, e).verdict = 200
    PROVE  /\ s.from = k.revision
           /\ ApplyAmendment(k, s, e).contract.revision = k.revision + 1
           /\ s.actor.via = "human_response" => Accepted(s.actor.cites, e)
BY DEF ApplyAmendment

(* The evidence matters to apply_amendment only through the cited response. *)
LEMMA ApplyDependsOnAnswers ==
    ASSUME NEW k, NEW s, NEW e, NEW f,
           ApplyAmendment(k, s, e).verdict = 200, ApplyAmendment(k, s, f).verdict # 200
    PROVE  s.actor.via = "human_response"
BY DEF ApplyAmendment

-----------------------------------------------------------------------------
(* Run steps, by what they do to the race: a settlement and a turn touch   *)
(* neither the contract nor the chain; applying appends the decided one.   *)

(* Every step of the run that does not apply an amendment. *)
Quiet ==
    \/ SettleAccepted \/ SettleAmended \/ SettleEffect \/ SettleWithdrawn \/ SettleWaiting
    \/ SettleOutcome \/ BeginTurn \/ TurnLimit \/ NoAmendment
    \/ \E a \in Artifacts, d \in Contents : WriteArtifact(a, d)
    \/ UseForbiddenClass
    \/ \E b \in HumanBindings(contract.criteria) : AskHuman(b) \/ WaitHuman(b)
    \/ NoEffect \/ BeginHumanWait \/ BeginTextWait \/ ReceiveInput

(* A quiet step leaves the contract, its chain and the handlers alone. *)
LEMMA QuietKeeps ==
    ASSUME Quiet
    PROVE  UNCHANGED <<contract, applied, rejected, handlers>> /\ turn' \in {turn, turn + 1}
<1>1. ASSUME NEW next, Settle(next)
      PROVE  UNCHANGED <<contract, applied, rejected, handlers, turn>>
  BY <1>1 DEF Settle
<1>2. CASE SettleAccepted \/ SettleAmended \/ SettleEffect \/ SettleWithdrawn
           \/ SettleWaiting \/ SettleOutcome
  BY <1>1, <1>2 DEF SettleAccepted, SettleAmended, SettleEffect, SettleWithdrawn,
     SettleWaiting, SettleOutcome
<1>3. CASE BeginTurn \/ TurnLimit \/ NoAmendment \/ UseForbiddenClass \/ NoEffect
           \/ BeginHumanWait \/ BeginTextWait \/ ReceiveInput
  BY <1>3 DEF BeginTurn, TurnLimit, NoAmendment, UseForbiddenClass, NoEffect, BeginHumanWait,
              BeginTextWait, ReceiveInput
<1>4. CASE \E a \in Artifacts, d \in Contents : WriteArtifact(a, d)
  BY <1>4 DEF WriteArtifact
<1>5. CASE \E b \in HumanBindings(contract.criteria) : AskHuman(b) \/ WaitHuman(b)
  BY <1>5 DEF AskHuman, WaitHuman
<1> QED BY <1>2, <1>3, <1>4, <1>5 DEF Quiet

(* An applying step takes exactly the decided submission, or closes the revision. *)
LEMMA ApplyingStep ==
    ASSUME RaceInv, AdmitAmendment \/ AmendWaiting
    PROVE  /\ UNCHANGED <<handlers, turn>>
           /\ evidence' = evidence
           /\ Amendable
           /\ \/ /\ Admitted.verdict = 200
                 /\ contract' = Admitted.contract
                 /\ contract'.revision = contract.revision + 1
                 /\ applied' = Append(applied, promise[contract.revision + 1])
                 /\ rejected' = rejected
              \/ /\ Admitted.verdict # 200
                 /\ rejected' = contract.revision + 1
                 /\ UNCHANGED <<contract, applied>>
<1>1. /\ UNCHANGED <<handlers, turn>>
      /\ evidence' = evidence
      /\ Amendable
      /\ ApplyAdmitted(Admitted)
  BY DEF AdmitAmendment, AmendWaiting
<1>2. ASSUME Admitted.verdict = 200
      PROVE  Admitted.contract.revision = contract.revision + 1
  BY <1>2, ApplyVerdict DEF Admitted
<1> QED BY <1>1, <1>2 DEF ApplyAdmitted

(* The run's step is one or the other. *)
LEMMA StepKinds == Step <=> Quiet \/ AdmitAmendment \/ AmendWaiting
BY DEF Step, Quiet

-----------------------------------------------------------------------------
(* The race invariant holds initially. *)
LEMMA RaceInit == Init => RaceInv
BY ContractAssumption, TurnsAssumption, SubmissionTargets
   DEF Init, RaceInv, IdleCall, Fails, Steps, Revisions

(* Applying keeps the chain equal to the promises. *)
LEMMA RaceApply ==
    ASSUME RaceInv, AdmitAmendment \/ AmendWaiting
    PROVE  RaceInv'
<1>1. UNCHANGED <<promise, call, receipt, turn>>
  BY ApplyingStep DEF handlers
<1>2. CASE UNCHANGED <<contract, applied>>
  BY <1>1, <1>2 DEF RaceInv, Steps
<1>3. CASE /\ contract'.revision = contract.revision + 1
           /\ applied' = Append(applied, promise[contract.revision + 1])
  <2>1. /\ contract.revision + 1 \in Revisions
        /\ promise[contract.revision + 1] \in Submissions
        /\ contract.revision = Len(applied)
        /\ applied \in Seq(Submissions)
    BY ApplyingStep DEF Amendable, Decided, RaceInv
  <2>2. /\ applied' \in Seq(Submissions)
        /\ Len(applied') = Len(applied) + 1
        /\ \A i \in 1 .. Len(applied) : applied'[i] = applied[i]
        /\ applied'[Len(applied) + 1] = promise[Len(applied) + 1]
    BY <1>3, <2>1
  <2>3. /\ \A i \in 1 .. Len(applied') : applied'[i] = promise[i]
        /\ Len(applied') \in 0 .. MaxRevision
        /\ contract'.revision = Len(applied')
    <3>1. Len(applied) \in Nat /\ Len(applied) + 1 \in 1 .. MaxRevision
      BY <2>1 DEF Revisions
    <3>2. ASSUME NEW i \in 1 .. Len(applied')
          PROVE  applied'[i] = promise[i]
      <4>1. CASE i \in 1 .. Len(applied)
        BY <4>1, <2>2 DEF RaceInv
      <4>2. CASE i = Len(applied) + 1
        BY <4>2, <2>2
      <4> QED BY <2>2, <3>1, <4>1, <4>2
    <3> QED BY <1>3, <2>1, <2>2, <3>1, <3>2, TurnsAssumption
  <2> QED BY <1>1, <2>2, <2>3 DEF RaceInv, Steps
<1> QED BY <1>2, <1>3, ApplyingStep

(* The handlers of amend_contract keep it: one promise, resolved once. *)
LEMMA RaceAmend ==
    ASSUME RaceInv, NEW c \in Clients, AmendContract(c)
    PROVE  RaceInv'
<1> USE DEF Steps
<1>1. CASE \E s \in Submissions : ReadTask(c, s)
  <2> PICK s \in Submissions : ReadTask(c, s)
    BY <1>1
  <2> DEFINE at == IF CheckAgainst(s) = 200 THEN turn ELSE Fails
  <2>1. at \in Int
    BY DEF RaceInv, Fails
  <2>2. call' \in [Clients -> [step : Steps, sub : Submissions \cup {NoSubmission}, at : Int]]
    <3>1. [step |-> "read", sub |-> s, at |-> at]
            \in [step : Steps, sub : Submissions \cup {NoSubmission}, at : Int]
      BY <2>1
    <3> QED BY <3>1 DEF ReadTask, RaceInv
  <2>3. /\ call'[c].step = "read" /\ call'[c].sub = s /\ call[c].step = "idle"
        /\ \A d \in Clients \ {c} : call'[d] = call[d]
        /\ UNCHANGED <<promise, receipt, contract, applied, turn>>
    <3>1. DOMAIN call = Clients
      BY DEF RaceInv
    <3> QED BY <3>1 DEF ReadTask, IdleCall, run
  <2>4. \A d \in Clients : /\ call'[d].step = "idle" <=> call'[d].sub = NoSubmission
                           /\ receipt'[d] = "none" <=> call'[d].step # "done"
                           /\ receipt'[d] = "SUBMITTED" => promise'[call'[d].sub.from + 1] = call'[d].sub
    <3>1. receipt[c] = "none" /\ s # NoSubmission
      BY <2>3, SubmissionTargets DEF RaceInv
    <3>2. ASSUME NEW d \in Clients \ {c}
          PROVE  /\ call'[d].step = "idle" <=> call'[d].sub = NoSubmission
                 /\ receipt'[d] = "none" <=> call'[d].step # "done"
                 /\ receipt'[d] = "SUBMITTED" => promise'[call'[d].sub.from + 1] = call'[d].sub
      BY <2>3, <3>2 DEF RaceInv
    <3> QED BY <2>3, <3>1, <3>2
  <2> QED BY <2>2, <2>3, <2>4 DEF RaceInv
<1>2. CASE PeekAndCheck(c)
  <2>1. /\ call[c].step = "read"
        /\ UNCHANGED <<promise, contract, applied, turn>>
        /\ \/ /\ call' = [call EXCEPT ![c] = Now(call[c], "done")]
              /\ \E o \in {"ALREADY_SUBMITTED", "refused"} : receipt' = [receipt EXCEPT ![c] = o]
           \/ /\ call' = [call EXCEPT ![c] = Now(call[c], "checked")]
              /\ UNCHANGED receipt
    BY <1>2 DEF PeekAndCheck, Answer, PeekAnswer, run
  <2>2. call' \in [Clients -> [step : Steps, sub : Submissions \cup {NoSubmission}, at : Int]]
    <3>1. call[c] \in [step : Steps, sub : Submissions \cup {NoSubmission}, at : Int]
      BY DEF RaceInv
    <3>2. \A step \in Steps : Now(call[c], step) \in [step : Steps, sub : Submissions \cup {NoSubmission}, at : Int]
      BY <3>1 DEF Now
    <3> QED BY <2>1, <3>2 DEF RaceInv
  <2>3. /\ call'[c].step \in {"done", "checked"} /\ call'[c].sub = call[c].sub
        /\ \A d \in Clients \ {c} : call'[d] = call[d] /\ receipt'[d] = receipt[d]
        /\ receipt'[c] = "none" <=> call'[c].step # "done"
        /\ receipt'[c] # "SUBMITTED"
    BY <2>1 DEF RaceInv, Now
  <2>4. \A d \in Clients : /\ call'[d].step = "idle" <=> call'[d].sub = NoSubmission
                           /\ receipt'[d] = "none" <=> call'[d].step # "done"
                           /\ receipt'[d] = "SUBMITTED" => promise'[call'[d].sub.from + 1] = call'[d].sub
    BY <2>1, <2>2, <2>3, SubmissionTargets DEF RaceInv
  <2>5. receipt' \in [Clients -> {"none", "SUBMITTED", "ALREADY_SUBMITTED", "refused"}]
    BY <2>1 DEF RaceInv
  <2> QED BY <2>1, <2>2, <2>4, <2>5 DEF RaceInv
<1>3. CASE ResolveAmendment(c)
  <2> DEFINE s == call[c].sub
             r == s.from + 1
  <2>1. /\ call[c].step = "checked" /\ s \in Submissions /\ r \in Revisions
        /\ UNCHANGED <<contract, applied, turn>>
        /\ call' = [call EXCEPT ![c] = Now(call[c], "done")]
        /\ \/ /\ promise[r] = NoSubmission
              /\ promise' = [promise EXCEPT ![r] = s]
              /\ receipt' = [receipt EXCEPT ![c] = "SUBMITTED"]
           \/ /\ promise' = promise
              /\ \E o \in {"ALREADY_SUBMITTED", "refused"} : receipt' = [receipt EXCEPT ![c] = o]
    BY <1>3, SubmissionTargets DEF ResolveAmendment, Answer, PeekAnswer, run, RaceInv
  <2>2. call' \in [Clients -> [step : Steps, sub : Submissions \cup {NoSubmission}, at : Int]]
    <3>1. call[c] \in [step : Steps, sub : Submissions \cup {NoSubmission}, at : Int]
      BY DEF RaceInv
    <3>2. \A step \in Steps : Now(call[c], step) \in [step : Steps, sub : Submissions \cup {NoSubmission}, at : Int]
      BY <3>1 DEF Now
    <3> QED BY <2>1, <3>2 DEF RaceInv
  <2>3. /\ call'[c].step = "done" /\ call'[c].sub = s
        /\ \A d \in Clients \ {c} : call'[d] = call[d] /\ receipt'[d] = receipt[d]
        /\ receipt'[c] # "none"
    BY <2>1 DEF RaceInv, Now
  <2>4. \A q \in Revisions : promise[q] # NoSubmission => promise'[q] = promise[q]
    BY <2>1 DEF RaceInv
  <2>5. /\ promise' \in [Revisions -> Submissions \cup {NoSubmission}]
        /\ \A q \in Revisions : promise'[q] # NoSubmission => promise'[q].from + 1 = q
    <3>1. promise \in [Revisions -> Submissions \cup {NoSubmission}]
          /\ \A q \in Revisions : promise[q] # NoSubmission => promise[q].from + 1 = q
      BY DEF RaceInv
    <3> QED BY <2>1, <3>1
  <2>6. \A d \in Clients : receipt'[d] = "SUBMITTED" => promise'[call'[d].sub.from + 1] = call'[d].sub
    <3>1. promise'[r] = s \/ receipt'[c] # "SUBMITTED"
      BY <2>1 DEF RaceInv
    <3>2. ASSUME NEW d \in Clients \ {c}, receipt'[d] = "SUBMITTED"
          PROVE  promise'[call'[d].sub.from + 1] = call'[d].sub
      <4>1. call[d].sub \in Submissions /\ call[d].sub.from + 1 \in Revisions
        BY <2>3, <3>2, SubmissionTargets DEF RaceInv
      <4> QED BY <4>1, <2>3, <2>4, <3>2, SubmissionTargets DEF RaceInv
    <3> QED BY <2>3, <3>1, <3>2
  <2>7. \A i \in 1 .. Len(applied) : applied[i] = promise'[i]
    <3>1. \A i \in 1 .. Len(applied) : i \in Revisions /\ applied[i] \in Submissions
      BY TurnsAssumption DEF RaceInv, Revisions
    <3> QED BY <3>1, <2>4, SubmissionTargets DEF RaceInv
  <2>8. receipt' \in [Clients -> {"none", "SUBMITTED", "ALREADY_SUBMITTED", "refused"}]
    BY <2>1 DEF RaceInv
  <2>9. \A d \in Clients : (call'[d].step = "idle" <=> call'[d].sub = NoSubmission)
                           /\ (receipt'[d] = "none" <=> call'[d].step # "done")
    BY <2>1, <2>3, SubmissionTargets DEF RaceInv
  <2> QED BY <2>1, <2>2, <2>5, <2>6, <2>7, <2>8, <2>9 DEF RaceInv
<1> QED BY <1>1, <1>2, <1>3 DEF AmendContract

(* Every step keeps the race invariant. *)
LEMMA RaceNext == RaceInv /\ [Next]_vars => RaceInv'
<1> SUFFICES ASSUME RaceInv, [Next]_vars PROVE RaceInv'
  OBVIOUS
<1>1. CASE Quiet
  BY <1>1, QuietKeeps DEF RaceInv, handlers, Steps
<1>2. CASE AdmitAmendment \/ AmendWaiting
  BY <1>2, RaceApply
<1>3. CASE ReadWait \/ ResolveInput
  BY <1>3 DEF ReadWait, ResolveInput, RaceInv, run, Steps
<1>4. CASE \E c \in Clients : AmendContract(c)
  BY <1>4, RaceAmend
<1>5. CASE UNCHANGED vars
  BY <1>5 DEF vars, run, handlers, RaceInv, Steps
<1> QED BY <1>1, <1>2, <1>3, <1>4, <1>5, StepKinds DEF Next, Handlers

(* The race invariant, from the two. *)
THEOREM RaceInvariance == Spec => []RaceInv
<1> QED BY RaceInit, RaceNext, PTL DEF Spec

(* OneWinner needs to look one step back: a winner holds the promise, so   *)
(* nobody wins a promise that is already resolved.                         *)
LEMMA WinnerNext == RaceInv /\ OneWinner /\ [Next]_vars => OneWinner'
<1> SUFFICES ASSUME RaceInv, OneWinner, [Next]_vars PROVE OneWinner'
  OBVIOUS
<1>1. RaceInv'
  BY RaceNext
<1>2. \A i \in DOMAIN applied' : applied'[i] = promise'[i] /\ applied'[i].from = i - 1
  <2>1. \A i \in 1 .. Len(applied') : /\ i \in Revisions
                                      /\ applied'[i] = promise'[i]
                                      /\ applied'[i] \in Submissions
    BY <1>1, TurnsAssumption DEF RaceInv, Revisions
  <2>2. \A i \in 1 .. Len(applied') : applied'[i].from + 1 = i /\ applied'[i].from \in Nat
    BY <1>1, <2>1, SubmissionTargets DEF RaceInv
  <2>3. DOMAIN applied' = 1 .. Len(applied')
    BY <1>1 DEF RaceInv
  <2> QED BY <2>1, <2>2, <2>3
<1>3. ASSUME UNCHANGED <<call, receipt>>
      PROVE  OneWinner'
  BY <1>2, <1>3 DEF OneWinner
<1>4. CASE Quiet \/ AdmitAmendment \/ AmendWaiting \/ ReadWait \/ ResolveInput \/ UNCHANGED vars
  BY <1>3, <1>4, QuietKeeps, ApplyingStep DEF handlers, ReadWait, ResolveInput, vars
<1>5. ASSUME NEW c \in Clients, AmendContract(c)
      PROVE  OneWinner'
  <2>1. \A d \in Clients \ {c} : call'[d] = call[d] /\ receipt'[d] = receipt[d]
    BY <1>5 DEF AmendContract, ReadTask, PeekAndCheck, ResolveAmendment, Answer, RaceInv
  <2>2. ASSUME NEW d \in Clients \ {c}, receipt'[c] = "SUBMITTED", receipt'[d] = "SUBMITTED"
        PROVE  call'[c].sub.from # call'[d].sub.from
    <3>1. CASE ResolveAmendment(c) /\ promise[call[c].sub.from + 1] = NoSubmission
      <4>1. promise[call[d].sub.from + 1] = call[d].sub /\ call[d].sub \in Submissions
        BY <2>1, <2>2 DEF RaceInv, Steps
      <4>2. call'[c].sub = call[c].sub
        BY <3>1 DEF ResolveAmendment, Answer, Now, RaceInv
      <4> QED BY <2>1, <3>1, <4>1, <4>2, SubmissionTargets
    <3>2. CASE ~(ResolveAmendment(c) /\ promise[call[c].sub.from + 1] = NoSubmission)
      <4>1. receipt'[c] = receipt[c] \/ receipt'[c] \in {"ALREADY_SUBMITTED", "refused"}
        BY <1>5, <3>2
           DEF AmendContract, ReadTask, PeekAndCheck, ResolveAmendment, Answer, PeekAnswer,
           RaceInv
      <4>2. receipt[c] = "SUBMITTED"
        BY <2>2, <4>1
      <4>3. call[c].step = "done"
        BY <4>2 DEF RaceInv
      <4>4. FALSE
        BY <1>5, <4>3 DEF AmendContract, ReadTask, PeekAndCheck, ResolveAmendment, IdleCall
      <4> QED BY <4>4
    <3> QED BY <3>1, <3>2
  <2> QED BY <1>2, <2>1, <2>2 DEF OneWinner
<1> QED BY <1>4, <1>5, StepKinds DEF Next, Handlers

(* One submission wins a revision, and the chain is what the promises hold,*)
(* for every number of clients, submissions and revisions.                 *)
THEOREM OneWinnerTheorem == Spec => []OneWinner
<1>1. Init => OneWinner
  BY DEF Init, OneWinner
<1> QED BY <1>1, WinnerNext, RaceInvariance, PTL DEF Spec

-----------------------------------------------------------------------------
(* The protocol implements the revision register: reading the Task is the  *)
(* register's call, applying an amendment its apply, and the answer of the *)
(* handler its submit, repeat or refuse; everything else stutters.         *)
LEMMA RegisterStep == RaceInv /\ [Next]_vars => [Register!Next]_(Register!vars)
<1> SUFFICES ASSUME RaceInv, [Next]_vars PROVE Register!Next \/ UNCHANGED Register!vars
  BY DEF Register!Next, Register!vars
<1> DEFINE wants == [d \in Clients |-> call[d].sub]
<1>1. ASSUME UNCHANGED <<call, promise, applied, receipt>>
      PROVE  UNCHANGED Register!vars
  BY <1>1 DEF Register!vars
<1>2. CASE Quiet \/ ReadWait \/ ResolveInput \/ UNCHANGED vars
  BY <1>1, <1>2, QuietKeeps DEF handlers, ReadWait, ResolveInput, vars, run
<1>3. CASE AdmitAmendment \/ AmendWaiting
  <2>1. UNCHANGED <<call, promise, receipt>>
    BY <1>3, ApplyingStep DEF handlers
  <2>2. CASE UNCHANGED applied
    BY <1>1, <2>1, <2>2
  <2>3. CASE applied' = Append(applied, promise[contract.revision + 1])
    <3>1. /\ Len(applied) + 1 \in Revisions
          /\ promise[Len(applied) + 1] # NoSubmission
          /\ applied' = Append(applied, promise[Len(applied) + 1])
      BY <1>3, <2>3, ApplyingStep DEF Amendable, Decided, RaceInv
    <3> QED BY <2>1, <3>1 DEF Register!Next, Register!Apply
  <2> QED BY <1>3, <2>2, <2>3, ApplyingStep
<1>4. ASSUME NEW c \in Clients, AmendContract(c)
      PROVE  Register!Next \/ UNCHANGED Register!vars
  <2>0. wants[c] = call[c].sub
    OBVIOUS
  <2>1. CASE \E s \in Submissions : ReadTask(c, s)
    <3> PICK s \in Submissions : ReadTask(c, s)
      BY <2>1
    <3>1. wants[c] = NoSubmission
      BY DEF ReadTask, IdleCall
    <3>2. [d \in Clients |-> call'[d].sub] = [wants EXCEPT ![c] = s]
      BY DEF ReadTask, RaceInv
    <3>3. UNCHANGED <<promise, applied, receipt>>
      BY DEF ReadTask, run
    <3> QED BY <3>1, <3>2, <3>3 DEF Register!Next, Register!Call
  <2>2. CASE PeekAndCheck(c) \/ ResolveAmendment(c)
    <3>1. /\ wants[c] # NoSubmission
          /\ receipt[c] = "none"
          /\ [d \in Clients |-> call'[d].sub] = wants
          /\ UNCHANGED applied
      <4>1. /\ call[c].step \in {"read", "checked"} /\ UNCHANGED applied
            /\ \E step \in Steps : call' = [call EXCEPT ![c] = Now(call[c], step)]
        BY <2>2 DEF PeekAndCheck, ResolveAmendment, Answer, run, Steps
      <4>2. wants[c] # NoSubmission /\ receipt[c] = "none"
        BY <4>1 DEF RaceInv
      <4>3. \A d \in Clients : call'[d].sub = call[d].sub
        BY <4>1 DEF RaceInv, Now
      <4> QED BY <4>1, <4>2, <4>3
    <3>2. CASE UNCHANGED <<promise, receipt>>
      BY <3>1, <3>2 DEF Register!vars
    <3>3. CASE /\ promise[call[c].sub.from + 1] = NoSubmission
               /\ promise' = [promise EXCEPT ![call[c].sub.from + 1] = call[c].sub]
               /\ receipt' = [receipt EXCEPT ![c] = "SUBMITTED"]
      BY <3>1, <3>3 DEF Register!Next, Register!Submit, Register!Target
    <3>4. CASE /\ promise[call[c].sub.from + 1] = call[c].sub
               /\ UNCHANGED promise
               /\ receipt' = [receipt EXCEPT ![c] = "ALREADY_SUBMITTED"]
      BY <3>1, <3>4 DEF Register!Next, Register!Repeat, Register!Target
    <3>5. CASE /\ promise[call[c].sub.from + 1] # call[c].sub
               /\ UNCHANGED promise
               /\ receipt' = [receipt EXCEPT ![c] = "refused"]
      BY <3>1, <3>5 DEF Register!Next, Register!Refuse, Register!Target
    <3> QED BY <2>2, <3>1, <3>2, <3>3, <3>4, <3>5
          DEF PeekAndCheck, ResolveAmendment, Answer, PeekAnswer
  <2> QED BY <1>4, <2>1, <2>2 DEF AmendContract
<1> QED BY <1>2, <1>3, <1>4, StepKinds DEF Next, Handlers

(* Every behaviour of the Task and its handlers is one of the register. *)
THEOREM RegisterRefinement == Spec => ImplementsRegister
<1>1. Init => Register!Init
  BY DEF Init, Register!Init, IdleCall
<1> QED BY <1>1, RegisterStep, RaceInvariance, PTL DEF Spec, ImplementsRegister, Register!Spec

-----------------------------------------------------------------------------
(* A rejection at application.                                               *)

(* The turns' waits and their one-shot promises: what a later turn or a wait *)
(* that has not begun would listen to is unresolved, and what a human wait   *)
(* listens to is a human's response.                                         *)
Unasked == {"admit", "amended", "decide", "effect", "ask"}
WaitInv ==
    /\ turn \in 0 .. MaxTurns
    /\ pc \in Unasked \cup {"wait", "still_waiting", "withdrawn", "outcome"} => turn # 0
    /\ wait = NoWait \/ (wait.type \in {"text", "human_response"} /\ wait.turn = turn)
    /\ wait # NoWait => pc \in {"wait", "still_waiting"}
    /\ pc = "still_waiting" => HumanWait
    /\ lifecycle = "WAITING" <=> wait # NoWait
AnswerInv ==
    /\ inputs \in [Turns -> {NoRef, TextRef} \cup given]
    /\ \A t \in Turns : t > turn \/ (t = turn /\ pc \in Unasked) => inputs[t] = NoRef
    /\ answering.turn \in 0 .. turn
    /\ answering # NoAnswer => answering.turn # 0 /\ answering.ref \in {TextRef} \cup given
    /\ answering # NoAnswer /\ pc \in Unasked => answering.turn # turn
    /\ HumanWait => /\ inputs[turn] \in {NoRef} \cup given
                    /\ answering # NoAnswer /\ answering.turn = turn => answering.ref \in given
    /\ "answers" \in DOMAIN evidence /\ evidence.answers \in [Requests -> {NoRef} \cup given]

(* The operations of s apply to k and leave a valid contract. *)
Applicable(k, s) ==
    LET folded == ApplyOperations(k, s) IN
    folded.verdict = 200 /\ ValidContract([revision |-> k.revision + 1, criteria |-> folded.criteria])

(* A submission that was judged: its revision is not ahead, it applies as    *)
(* long as that revision is in force, and a response it cites was given.     *)
Judged(s) ==
    /\ s.from <= contract.revision
    /\ s.from = contract.revision => Applicable(contract, s)
    /\ s.actor.via = "human_response" => s.actor.cites \in given
JudgeInv ==
    /\ \A r \in Revisions : promise[r] # NoSubmission => Judged(promise[r])
    /\ \A c \in Clients : call[c].step \in {"read", "checked"} /\ call[c].at # Fails => Judged(call[c].sub)
    /\ \A c \in Clients : call[c].step = "checked" => call[c].at # Fails
    /\ ValidContract(contract)

(* What apply_amendment accepts, in the terms of the judgement. *)
LEMMA ApplyAccepts ==
    ASSUME NEW k, NEW s, NEW e
    PROVE  ApplyAmendment(k, s, e).verdict = 200 <=>
               /\ s.from = k.revision
               /\ s.actor.via = "human_response" => Accepted(s.actor.cites, e)
               /\ Applicable(k, s)
BY DEF ApplyAmendment, Applicable

(* An accepted amendment leaves a valid contract. *)
LEMMA ApplyIsValid ==
    ASSUME NEW k, NEW s, NEW e, ApplyAmendment(k, s, e).verdict = 200
    PROVE  ValidContract(ApplyAmendment(k, s, e).contract)
BY DEF ApplyAmendment

(* COMPLETED is never judged legal while a human wait is open. *)
LEMMA LegalIsNotWaiting ==
    ASSUME NEW k, NEW e, NEW w \in BOOLEAN, Judgement(k, e, w) = "legal"
    PROVE  ~w
BY DEF Judgement, Legal

(* What a settlement does to the wait and to the answers. *)
LEMMA SettleShape ==
    ASSUME NEW next, Settle(next), "answers" \in DOMAIN evidence
    PROVE  /\ "answers" \in DOMAIN evidence' /\ evidence'.answers = evidence.answers
           /\ UNCHANGED <<turn, inputs, answering, given>>
           /\ \/ pc' = "end" /\ lifecycle' = "COMPLETED" /\ ~HumanWait /\ wait' = wait
              \/ pc' = "end" /\ lifecycle' = "FAILED" /\ wait' = NoWait
              \/ pc' = next /\ UNCHANGED <<lifecycle, wait>>
<1>1. PICK results : evidence' = Reviewed(results)
  BY DEF Settle
<1>2. "answers" \in DOMAIN evidence' /\ evidence'.answers = evidence.answers
  BY <1>1 DEF Reviewed
<1>3. UNCHANGED <<turn, inputs, answering, given>>
  BY DEF Settle, handlers
<1>4. HumanWait \in BOOLEAN
  BY DEF HumanWait
<1> QED BY <1>2, <1>3, <1>4, LegalIsNotWaiting DEF Settle

(* The waits and their answers hold initially. *)
LEMMA AnswerInit == Init => WaitInv /\ AnswerInv
BY TurnsAssumption DEF Init, WaitInv, AnswerInv, NoWait, NoAnswer, HumanWait, Unasked, Turns

(* A settlement keeps both. *)
LEMMA AnswerSettle ==
    ASSUME WaitInv, AnswerInv,
           SettleAccepted \/ SettleAmended \/ SettleEffect \/ SettleWithdrawn
           \/ SettleWaiting \/ SettleOutcome
    PROVE  WaitInv' /\ AnswerInv'
<1>1. PICK next : /\ Settle(next)
                  /\ pc \notin {"wait", "still_waiting"} => next \notin {"wait", "still_waiting"}
                  /\ next # "still_waiting"
                  /\ next = "wait" => pc = "still_waiting"
                  /\ pc # "wait"
                  /\ pc = "still_waiting" => next = "wait"
                  /\ next \in Unasked => pc \in Unasked
                  /\ turn # 0 \/ next = "boundary"
  <2>1. CASE SettleAccepted
    <3>1. pc = "accepted" /\ Settle("boundary")
      BY <2>1 DEF SettleAccepted
    <3> QED BY <3>1 DEF Unasked
  <2>2. CASE SettleAmended
    <3>1. pc = "amended" /\ Settle("admit") /\ turn # 0
      BY <2>2 DEF SettleAmended, WaitInv, Unasked
    <3> QED BY <3>1 DEF Unasked
  <2>3. CASE SettleEffect
    <3>1. pc = "effect" /\ turn # 0 /\ (Settle("outcome") \/ Settle("ask"))
      BY <2>3 DEF SettleEffect, WaitInv, Unasked
    <3>2. CASE Settle("outcome")
      BY <3>1, <3>2 DEF Unasked
    <3>3. CASE Settle("ask")
      BY <3>1, <3>3 DEF Unasked
    <3> QED BY <3>1, <3>2, <3>3
  <2>4. CASE SettleWithdrawn
    <3>1. pc = "withdrawn" /\ Settle("outcome") /\ turn # 0
      BY <2>4 DEF SettleWithdrawn, WaitInv
    <3> QED BY <3>1 DEF Unasked
  <2>5. CASE SettleWaiting
    <3>1. pc = "still_waiting" /\ Settle("wait") /\ turn # 0
      BY <2>5 DEF SettleWaiting, WaitInv
    <3> QED BY <3>1 DEF Unasked
  <2>6. CASE SettleOutcome
    <3>1. pc = "outcome" /\ Settle("boundary") /\ turn # 0
      BY <2>6 DEF SettleOutcome, WaitInv
    <3> QED BY <3>1 DEF Unasked
  <2> QED BY <2>1, <2>2, <2>3, <2>4, <2>5, <2>6
<1>2. /\ "answers" \in DOMAIN evidence' /\ evidence'.answers = evidence.answers
      /\ UNCHANGED <<turn, inputs, answering, given>>
      /\ \/ pc' = "end" /\ lifecycle' = "COMPLETED" /\ ~HumanWait /\ wait' = wait
         \/ pc' = "end" /\ lifecycle' = "FAILED" /\ wait' = NoWait
         \/ pc' = next /\ UNCHANGED <<lifecycle, wait>>
  BY <1>1, SettleShape DEF AnswerInv
<1>3. wait' = wait \/ wait' = NoWait
  BY <1>2
<1>4. WaitInv'
  BY <1>1, <1>2 DEF WaitInv, NoWait, HumanWait, Unasked
<1>5. AnswerInv'
  BY <1>1, <1>2, <1>3 DEF AnswerInv, NoWait, HumanWait, Unasked
<1> QED BY <1>4, <1>5

(* So does every other step of a turn that leaves the evidence's answers   *)
(* alone and opens no wait.                                                *)
LEMMA AnswerTurn ==
    ASSUME WaitInv, AnswerInv,
           \/ TurnLimit \/ NoAmendment \/ UseForbiddenClass \/ NoEffect \/ AdmitAmendment
           \/ \E a \in Artifacts, d \in Contents : WriteArtifact(a, d)
           \/ \E b \in HumanBindings(contract.criteria) : AskHuman(b) \/ WaitHuman(b)
    PROVE  WaitInv' /\ AnswerInv'
<1>1. /\ UNCHANGED <<turn, wait, inputs, answering, given>>
      /\ "answers" \in DOMAIN evidence' /\ evidence'.answers = evidence.answers
  BY DEF AnswerInv, TurnLimit, NoAmendment, UseForbiddenClass, NoEffect, AdmitAmendment,
         WriteArtifact, AskHuman, WaitHuman, handlers
<1>2. /\ pc \in {"boundary", "admit", "decide"}
      /\ \/ pc = "boundary" /\ pc' = "end" /\ lifecycle' = "FAILED"
         \/ pc # "boundary" /\ pc' \in Unasked \cup {"outcome"} /\ lifecycle' = lifecycle
  BY DEF TurnLimit, NoAmendment, UseForbiddenClass, NoEffect, AdmitAmendment,
         WriteArtifact, AskHuman, WaitHuman, Unasked
<1>3. WaitInv'
  BY <1>1, <1>2 DEF WaitInv, HumanWait, Unasked
<1>4. AnswerInv'
  BY <1>1, <1>2 DEF AnswerInv, HumanWait, Unasked
<1> QED BY <1>3, <1>4

(* A new turn listens to a promise of its own. *)
LEMMA AnswerBegin ==
    ASSUME WaitInv, AnswerInv, BeginTurn
    PROVE  WaitInv' /\ AnswerInv'
<1>1. /\ pc = "boundary" /\ pc' = "admit" /\ turn' = turn + 1 /\ turn < MaxTurns
      /\ UNCHANGED <<lifecycle, evidence, wait, inputs, answering, given>>
  BY DEF BeginTurn, handlers
<1>2. wait = NoWait
  BY <1>1 DEF WaitInv
<1>3. WaitInv'
  BY <1>1, <1>2, TurnsAssumption DEF WaitInv, HumanWait, NoWait, Unasked
<1>4. AnswerInv'
  BY <1>1, <1>2, TurnsAssumption DEF AnswerInv, WaitInv, HumanWait, NoWait, Unasked, Turns
<1> QED BY <1>3, <1>4

(* A wait opens on a promise nobody has answered. *)
LEMMA AnswerWait ==
    ASSUME WaitInv, AnswerInv, BeginHumanWait \/ BeginTextWait
    PROVE  WaitInv' /\ AnswerInv'
<1>1. /\ pc \in {"ask", "decide"} /\ pc' = "wait" /\ lifecycle' = "WAITING"
      /\ UNCHANGED <<turn, evidence, inputs, answering, given>>
      /\ wait'.type \in {"text", "human_response"} /\ wait'.turn = turn
  BY DEF BeginHumanWait, BeginTextWait, handlers
<1>2. turn \in Turns /\ inputs[turn] = NoRef
  BY <1>1 DEF WaitInv, AnswerInv, Unasked, Turns
<1>3. WaitInv'
  BY <1>1 DEF WaitInv, HumanWait, NoWait, Unasked
<1>4. AnswerInv'
  BY <1>1, <1>2 DEF AnswerInv, WaitInv, HumanWait, NoWait, Unasked, Turns
<1> QED BY <1>3, <1>4

(* The answer received was a human's when the wait was for a human. *)
LEMMA AnswerReceive ==
    ASSUME WaitInv, AnswerInv, ReceiveInput
    PROVE  WaitInv' /\ AnswerInv'
<1>1. /\ pc = "wait" /\ pc' = "outcome" /\ lifecycle' = "RUNNING" /\ wait' = NoWait
      /\ inputs[turn] # NoRef
      /\ UNCHANGED <<turn, inputs, answering, given>>
  BY DEF ReceiveInput, handlers
<1>2. "answers" \in DOMAIN evidence' /\ evidence'.answers \in [Requests -> {NoRef} \cup given]
  <2>1. CASE HumanWait
    <3>1. inputs[turn] \in given
      BY <1>1, <2>1 DEF AnswerInv
    <3>2. evidence' = [evidence EXCEPT !.art[wait.artifact] = inputs[turn], !.answers[wait.id] = inputs[turn]]
      BY <2>1 DEF ReceiveInput
    <3> QED BY <3>1, <3>2 DEF AnswerInv
  <2>2. CASE ~HumanWait
    BY <2>2 DEF ReceiveInput, AnswerInv
  <2> QED BY <2>1, <2>2
<1>3. WaitInv'
  BY <1>1 DEF WaitInv, HumanWait, NoWait, Unasked
<1>4. AnswerInv'
  BY <1>1, <1>2 DEF AnswerInv, HumanWait, NoWait, Unasked
<1> QED BY <1>3, <1>4

(* An amendment during a wait keeps the wait, or withdraws it. *)
LEMMA AnswerAmend ==
    ASSUME WaitInv, AnswerInv, AmendWaiting
    PROVE  WaitInv' /\ AnswerInv'
<1>1. /\ pc = "wait" /\ HumanWait
      /\ UNCHANGED <<turn, evidence, inputs, answering, given>>
      /\ \/ pc' \in {"wait", "still_waiting"} /\ UNCHANGED <<wait, lifecycle>>
         \/ pc' = "withdrawn" /\ wait' = NoWait /\ lifecycle' = "RUNNING"
  BY DEF AmendWaiting, handlers
<1>2. WaitInv'
  BY <1>1 DEF WaitInv, HumanWait, NoWait, Unasked
<1>3. AnswerInv'
  BY <1>1 DEF AnswerInv, HumanWait, NoWait, Unasked
<1> QED BY <1>2, <1>3

(* The handler reads the wait: what it will resolve is for this turn. *)
LEMMA AnswerRead ==
    ASSUME WaitInv, AnswerInv, ReadWait
    PROVE  WaitInv' /\ AnswerInv'
<1>1. /\ UNCHANGED <<pc, lifecycle, turn, wait, evidence, inputs>>
      /\ lifecycle = "WAITING"
      /\ given \subseteq given'
      /\ answering'.turn = wait.turn /\ answering'.ref \in {TextRef} \cup given'
      /\ HumanWait => answering'.ref \in given'
  BY DEF ReadWait, run
<1>2. pc \in {"wait", "still_waiting"} /\ wait.turn = turn /\ turn # 0
  BY <1>1 DEF WaitInv
<1>3. WaitInv'
  BY <1>1 DEF WaitInv, HumanWait
<1>4. AnswerInv'
  BY <1>1, <1>2 DEF AnswerInv, WaitInv, HumanWait, Unasked
<1> QED BY <1>3, <1>4

(* It resolves the promise of the turn it read, if nobody else did. *)
LEMMA AnswerResolve ==
    ASSUME WaitInv, AnswerInv, ResolveInput
    PROVE  WaitInv' /\ AnswerInv'
<1>1. /\ UNCHANGED <<pc, lifecycle, turn, wait, evidence, given>>
      /\ answering # NoAnswer /\ answering' = NoAnswer
      /\ \/ inputs' = inputs
         \/ inputs' = [inputs EXCEPT ![answering.turn] = answering.ref]
  BY DEF ResolveInput, run
<1>2. answering.turn \in Turns /\ answering.turn <= turn
      /\ answering.ref \in {TextRef} \cup given /\ turn \in 1 .. MaxTurns
  BY <1>1, TurnsAssumption DEF AnswerInv, WaitInv, Turns
<1>3. WaitInv'
  BY <1>1 DEF WaitInv, HumanWait
<1>4. AnswerInv'
  <2>1. inputs' \in [Turns -> {NoRef, TextRef} \cup given]
    BY <1>1, <1>2 DEF AnswerInv
  <2>2. \A t \in Turns : inputs'[t] = inputs[t] \/ (t = answering.turn /\ inputs'[t] = answering.ref)
    BY <1>1, <1>2 DEF AnswerInv
  <2>3. answering'.turn = 0
    BY <1>1 DEF NoAnswer
  <2>4. HumanWait => inputs'[turn] \in {NoRef} \cup given
    BY <1>1, <1>2, <2>2 DEF AnswerInv, Turns
  <2>5. \A t \in Turns : t > turn \/ (t = turn /\ pc \in Unasked) => inputs'[t] = NoRef
    BY <1>1, <1>2, <2>2 DEF AnswerInv, Turns
  <2> QED BY <1>1, <1>2, <2>1, <2>3, <2>4, <2>5 DEF AnswerInv, HumanWait
<1> QED BY <1>3, <1>4

(* Every step keeps the waits and their answers. *)
LEMMA AnswerNext == WaitInv /\ AnswerInv /\ [Next]_vars => WaitInv' /\ AnswerInv'
<1> SUFFICES ASSUME WaitInv, AnswerInv, [Next]_vars PROVE WaitInv' /\ AnswerInv'
  OBVIOUS
<1>1. CASE Quiet
  BY <1>1, AnswerSettle, AnswerTurn, AnswerBegin, AnswerWait, AnswerReceive DEF Quiet
<1>2. CASE AdmitAmendment \/ AmendWaiting
  BY <1>2, AnswerTurn, AnswerAmend
<1>3. CASE ReadWait \/ ResolveInput
  BY <1>3, AnswerRead, AnswerResolve
<1>4. CASE (\E c \in Clients : AmendContract(c)) \/ UNCHANGED vars
  <2>1. UNCHANGED <<pc, lifecycle, turn, wait, evidence, inputs, answering, given>>
    BY <1>4 DEF AmendContract, ReadTask, PeekAndCheck, ResolveAmendment, vars, run, handlers
  <2> QED BY <2>1 DEF WaitInv, AnswerInv, HumanWait
<1> QED BY <1>1, <1>2, <1>3, <1>4, StepKinds DEF Next, Handlers

-----------------------------------------------------------------------------
(* What was judged applies as long as its revision is in force: only the   *)
(* run changes the contract, and then the revision too.                    *)
LEMMA JudgeNext ==
    ASSUME RaceInv, WaitInv, AnswerInv, JudgeInv, [Next]_vars
    PROVE  JudgeInv'
<1>1. ASSUME contract' = contract, given \subseteq given', NEW s, Judged(s)
      PROVE  Judged(s)'
  BY <1>1 DEF Judged
<1>2. CASE Quiet \/ ReadWait \/ ResolveInput \/ UNCHANGED vars
  <2>1. UNCHANGED <<contract, promise, call>> /\ given \subseteq given'
    BY <1>2, QuietKeeps DEF handlers, run, vars, ReadWait, ResolveInput
  <2> QED BY <2>1 DEF JudgeInv, Judged
<1>3. CASE AdmitAmendment \/ AmendWaiting
  <2>1. UNCHANGED <<promise, call, given>>
    BY <1>3, ApplyingStep DEF handlers
  <2>2. CASE UNCHANGED contract
    BY <2>1, <2>2 DEF JudgeInv, Judged
  <2>3. CASE Admitted.verdict = 200 /\ contract' = Admitted.contract /\ contract'.revision = contract.revision + 1
    <3>1. contract.revision \in Nat
      BY DEF RaceInv
    <3>2. ASSUME NEW s \in Submissions, Judged(s)
          PROVE  Judged(s)'
      BY <2>1, <2>3, <3>1, <3>2, SubmissionTargets DEF Judged
    <3>3. ValidContract(contract)'
      BY <2>3, ApplyIsValid DEF Admitted
    <3>4. \A r \in Revisions : promise[r] # NoSubmission => promise[r] \in Submissions
      BY DEF RaceInv
    <3>5. \A c \in Clients : call[c].step \in {"read", "checked"} => call[c].sub \in Submissions
      BY DEF RaceInv
    <3> QED BY <2>1, <3>2, <3>3, <3>4, <3>5 DEF JudgeInv
  <2> QED BY <1>3, <2>2, <2>3, ApplyingStep
<1>4. ASSUME NEW c \in Clients, AmendContract(c)
      PROVE  JudgeInv'
  <2>1. /\ UNCHANGED <<contract, given, evidence>>
        /\ \A d \in Clients \ {c} : call'[d] = call[d]
    BY <1>4 DEF AmendContract, ReadTask, PeekAndCheck, ResolveAmendment, Answer, run, RaceInv
  <2>2. \A s : Judged(s) => Judged(s)'
    BY <2>1 DEF Judged
  <2>3. CASE \E s \in Submissions : ReadTask(c, s)
    <3> PICK s \in Submissions : ReadTask(c, s)
      BY <2>3
    <3>1. /\ promise' = promise /\ call'[c].step = "read" /\ call'[c].sub = s
          /\ call'[c].at # Fails => CheckAgainst(s) = 200
      <4>1. promise' = promise /\ DOMAIN call = Clients
        BY DEF ReadTask, RaceInv
      <4> DEFINE at == IF CheckAgainst(s) = 200 THEN turn ELSE Fails
      <4>2. call'[c] = [step |-> "read", sub |-> s, at |-> at]
        BY <4>1 DEF ReadTask
      <4> HIDE DEF at
      <4>3. call'[c].step = "read" /\ call'[c].sub = s /\ call'[c].at = at
        BY <4>2
      <4> QED BY <4>1, <4>3 DEF at
    <3>2. ASSUME CheckAgainst(s) = 200
          PROVE  Judged(s)
      <4>1. ApplyAmendment(contract, s, evidence).verdict = 200
        BY <3>2 DEF CheckAgainst
      <4>2. /\ s.from = contract.revision
            /\ s.actor.via = "human_response" => Accepted(s.actor.cites, evidence)
            /\ Applicable(contract, s)
        BY <4>1, ApplyAccepts
      <4>3. s.actor.via = "human_response" => s.actor.cites \in given
        BY <4>2, SubmissionAssumption DEF Accepted, AnswerInv
      <4>4. s.from \in Nat
        BY SubmissionTargets
      <4> QED BY <4>2, <4>3, <4>4 DEF Judged
    <3>3. call'[c].at # Fails => Judged(s)'
      BY <2>2, <3>1, <3>2
    <3> QED BY <2>1, <2>2, <3>1, <3>3 DEF JudgeInv
  <2>4. CASE PeekAndCheck(c)
    <3>1. promise' = promise
      BY <2>4 DEF PeekAndCheck
    <3>2. /\ call'[c].step \in {"done", "checked"} /\ call'[c].sub = call[c].sub
          /\ call'[c].step = "checked" => call'[c].at # Fails /\ call[c].at # Fails /\ call[c].step = "read"
      BY <2>4 DEF PeekAndCheck, Answer, Now, RaceInv
    <3> QED BY <2>1, <2>2, <3>1, <3>2 DEF JudgeInv
  <2>5. CASE ResolveAmendment(c)
    <3>1. /\ call[c].step = "checked" /\ call'[c].step = "done"
          /\ call[c].sub \in Submissions /\ call[c].sub.from + 1 \in Revisions
          /\ Judged(call[c].sub)
      BY <2>5, SubmissionTargets DEF ResolveAmendment, Answer, Now, RaceInv, JudgeInv
    <3>2. \A r \in Revisions : promise'[r] = promise[r] \/ promise'[r] = call[c].sub
      BY <2>5, <3>1 DEF ResolveAmendment, RaceInv
    <3> QED BY <2>1, <2>2, <3>1, <3>2 DEF JudgeInv
  <2> QED BY <1>4, <2>3, <2>4, <2>5 DEF AmendContract
<1> QED BY <1>2, <1>3, <1>4, StepKinds DEF Next, Handlers

-----------------------------------------------------------------------------
(* Where the answers come from: a human wait and what is on its way to it    *)
(* are about one request, and an answer that stands for a request is a       *)
(* response to that request, resolved in some turn so far.                   *)
RequestInv ==
    /\ NoRef \notin given
    /\ HumanWait => wait.request.id = wait.id
    /\ HumanWait /\ answering # NoAnswer /\ answering.turn = turn => answering.ref.request.id = wait.id
    /\ HumanWait /\ inputs[turn] # NoRef => inputs[turn].request.id = wait.id
    /\ \A q \in Requests : evidence.answers[q] # NoRef =>
         /\ evidence.answers[q].request.id = q
         /\ \E t \in Turns : t <= turn /\ inputs[t] = evidence.answers[q]

(* A cited response the handler found accepted in iteration at: it was given *)
(* by then, and stands or was replaced since.                                *)
Explained(ref, at) ==
    \/ ReplacedSince(ref, at)
    \/ (\E t \in Turns : t <= at /\ inputs[t] = ref) /\ Accepted(ref, evidence)
CiteInv ==
    /\ \A c \in Clients :
         call[c].at # Fails =>
             /\ call[c].sub \in Submissions
             /\ call[c].at <= turn
             /\ call[c].sub.actor.via = "human_response" => Explained(call[c].sub.actor.cites, call[c].at)
    /\ \A c \in Clients : receipt[c] = "SUBMITTED" => call[c].at # Fails
    /\ \A r \in Revisions :
         promise[r] # NoSubmission => \E c \in Clients : receipt[c] = "SUBMITTED" /\ call[c].sub = promise[r]

(* A step that leaves the answers alone and opens no wait keeps the first. *)
LEMMA RequestSame ==
    ASSUME RequestInv, UNCHANGED <<turn, inputs, answering, given>>,
           evidence'.answers = evidence.answers, wait' = wait \/ wait' = NoWait
    PROVE  RequestInv'
BY DEF RequestInv, HumanWait, NoWait

(* Every step keeps it. *)
LEMMA RequestNext ==
    ASSUME WaitInv, AnswerInv, RequestInv, [Next]_vars
    PROVE  RequestInv'
<1>1. CASE SettleAccepted \/ SettleAmended \/ SettleEffect \/ SettleWithdrawn
           \/ SettleWaiting \/ SettleOutcome
  <2>1. PICK next : Settle(next)
    BY <1>1 DEF SettleAccepted, SettleAmended, SettleEffect, SettleWithdrawn, SettleWaiting,
       SettleOutcome
  <2> QED BY <2>1, SettleShape, RequestSame DEF AnswerInv
<1>2. CASE \/ TurnLimit \/ NoAmendment \/ UseForbiddenClass \/ NoEffect \/ AdmitAmendment \/ AmendWaiting
           \/ \E a \in Artifacts, d \in Contents : WriteArtifact(a, d)
           \/ \E b \in HumanBindings(contract.criteria) : AskHuman(b) \/ WaitHuman(b)
           \/ \E c \in Clients : AmendContract(c)
           \/ UNCHANGED vars
  <2>1. /\ UNCHANGED <<turn, inputs, answering, given>> /\ (wait' = wait \/ wait' = NoWait)
        /\ evidence'.answers = evidence.answers
    BY <1>2 DEF AnswerInv, TurnLimit, NoAmendment, UseForbiddenClass, NoEffect, AdmitAmendment,
       AmendWaiting, WriteArtifact, AskHuman, WaitHuman, AmendContract, ReadTask, PeekAndCheck,
       ResolveAmendment, handlers, run, vars
  <2> QED BY <2>1, RequestSame
<1>3. CASE BeginTurn
  <2>1. /\ turn' = turn + 1 /\ pc = "boundary"
        /\ UNCHANGED <<evidence, wait, inputs, answering, given>>
    BY <1>3 DEF BeginTurn, handlers
  <2>2. wait = NoWait /\ turn \in Nat
    BY <2>1 DEF WaitInv
  <2>3. \A t \in Turns : t <= turn => t <= turn'
    BY <2>1, <2>2 DEF Turns
  <2> QED BY <2>1, <2>2, <2>3 DEF RequestInv, HumanWait, NoWait
<1>4. CASE BeginHumanWait \/ BeginTextWait
  <2>1. /\ pc \in Unasked /\ UNCHANGED <<turn, evidence, inputs, answering, given>>
        /\ wait'.type = "human_response" => wait'.request.id = wait'.id
    BY <1>4 DEF BeginHumanWait, BeginTextWait, Unasked, handlers
  <2>2. inputs[turn] = NoRef /\ (answering # NoAnswer => answering.turn # turn)
    BY <2>1 DEF AnswerInv, WaitInv, Unasked, Turns
  <2> QED BY <2>1, <2>2 DEF RequestInv, HumanWait
<1>5. CASE ReceiveInput
  <2>1. /\ wait' = NoWait /\ inputs[turn] # NoRef /\ turn \in Turns
        /\ UNCHANGED <<turn, inputs, answering, given>>
    BY <1>5 DEF ReceiveInput, handlers, WaitInv, Turns
  <2>2. ASSUME NEW q \in Requests, evidence'.answers[q] # NoRef
        PROVE  /\ evidence'.answers[q].request.id = q
               /\ \E t \in Turns : t <= turn /\ inputs[t] = evidence'.answers[q]
    <3>1. evidence'.answers[q] = evidence.answers[q]
          \/ (HumanWait /\ q = wait.id /\ evidence'.answers[q] = inputs[turn])
      BY <1>5 DEF ReceiveInput, AnswerInv
    <3> QED BY <2>1, <2>2, <3>1 DEF RequestInv, Turns
  <2> QED BY <2>1, <2>2 DEF RequestInv, HumanWait, NoWait
<1>6. CASE ReadWait
  <2>1. /\ UNCHANGED <<turn, wait, evidence, inputs>>
        /\ NoRef \notin given'
        /\ HumanWait => answering'.ref.request.id = wait.request.id
    BY <1>6 DEF ReadWait, run, RequestInv, NoRef
  <2> QED BY <2>1 DEF RequestInv, HumanWait
<1>7. CASE ResolveInput
  <2>1. /\ UNCHANGED <<turn, wait, evidence, given>> /\ answering' = NoAnswer
        /\ \A t \in Turns : inputs[t] # NoRef => inputs'[t] = inputs[t]
        /\ turn \in Turns => \/ inputs'[turn] = inputs[turn]
                             \/ answering.turn = turn /\ inputs'[turn] = answering.ref
    BY <1>7 DEF ResolveInput, run, AnswerInv
  <2>2. HumanWait => turn \in Turns
    BY DEF WaitInv, HumanWait, NoWait, Turns
  <2>3. HumanWait /\ inputs'[turn] # NoRef => inputs'[turn].request.id = wait.id
    BY <1>7, <2>1, <2>2 DEF RequestInv, ResolveInput
  <2> QED BY <2>1, <2>3 DEF RequestInv, HumanWait
<1> QED BY <1>1, <1>2, <1>3, <1>4, <1>5, <1>6, <1>7 DEF Next, Step, Handlers

(* An answer is never taken back: one-shot promises, and given only grows. *)
LEMMA InputsGrow ==
    ASSUME AnswerInv, [Next]_vars
    PROVE  given \subseteq given' /\ \A t \in Turns : inputs[t] # NoRef => inputs'[t] = inputs[t]
<1>1. CASE Step \/ (\E c \in Clients : AmendContract(c)) \/ UNCHANGED vars
  BY <1>1, StepKinds, QuietKeeps
     DEF AdmitAmendment, AmendWaiting, AmendContract, ReadTask, PeekAndCheck, ResolveAmendment,
         handlers, vars
<1>2. CASE ReadWait \/ ResolveInput
  BY <1>2 DEF ReadWait, ResolveInput, AnswerInv
<1> QED BY <1>1, <1>2 DEF Next, Handlers

(* So what was replaced stays replaced. *)
LEMMA ReplacedStays ==
    ASSUME AnswerInv, RequestInv, [Next]_vars, NEW ref, ref # NoRef, NEW at, ReplacedSince(ref, at)
    PROVE  ReplacedSince(ref, at)'
BY InputsGrow DEF ReplacedSince, RequestInv

(* What was explained stays explained, whatever is answered next. *)
LEMMA ExplainedStays ==
    ASSUME WaitInv, AnswerInv, RequestInv, [Next]_vars,
           NEW ref, ref # NoRef, NEW at \in Int, at <= turn, Explained(ref, at)
    PROVE  Explained(ref, at)'
<1>1. \A t \in Turns : inputs[t] # NoRef => inputs'[t] = inputs[t]
  BY InputsGrow
<1>2. CASE ReplacedSince(ref, at)
  <2>1. ReplacedSince(ref, at)'
    BY <1>2, ReplacedStays
  <2> QED BY <2>1 DEF Explained
<1>3. CASE (\E t \in Turns : t <= at /\ inputs[t] = ref) /\ Accepted(ref, evidence)
  <2>1. PICK t \in Turns : t <= at /\ inputs[t] = ref /\ inputs'[t] = ref
    BY <1>1, <1>3
  <2>2. CASE ReceiveInput /\ HumanWait
    <3>1. PICK q \in Requests : evidence.answers[q] = ref
      BY <1>3 DEF Accepted, AnswerInv
    <3>2. DOMAIN evidence'.answers = Requests
          /\ (evidence'.answers[q] = ref \/ (q = wait.id /\ inputs[turn] # ref))
      BY <2>2, <3>1 DEF ReceiveInput, AnswerInv
    <3>3. CASE evidence'.answers[q] = ref
      BY <2>1, <3>2, <3>3 DEF Explained, Accepted
    <3>4. CASE q = wait.id /\ inputs[turn] # ref
      <4>1. /\ turn \in Turns /\ turn' = turn /\ UNCHANGED <<inputs, given>>
            /\ inputs[turn] \in given
        BY <2>2 DEF ReceiveInput, WaitInv, AnswerInv, Turns, handlers
      <4>2. inputs[turn].request.id = ref.request.id
        BY <2>2, <3>1, <3>4, <4>1 DEF RequestInv
      <4>3. ReplacedSince(ref, at)'
        BY <2>1, <3>4, <4>1, <4>2 DEF ReplacedSince
      <4> QED BY <4>3 DEF Explained
    <3> QED BY <3>2, <3>3, <3>4
  <2>3. CASE ~(ReceiveInput /\ HumanWait)
    <3>1. evidence'.answers = evidence.answers
      <4>1. ASSUME NEW next, Settle(next)
            PROVE  evidence'.answers = evidence.answers
        BY <4>1, SettleShape DEF AnswerInv
      <4>2. CASE SettleAccepted \/ SettleAmended \/ SettleEffect \/ SettleWithdrawn
                 \/ SettleWaiting \/ SettleOutcome
        BY <4>1, <4>2 DEF SettleAccepted, SettleAmended, SettleEffect, SettleWithdrawn, SettleWaiting,
           SettleOutcome
      <4>3. CASE ~(SettleAccepted \/ SettleAmended \/ SettleEffect \/ SettleWithdrawn
                 \/ SettleWaiting \/ SettleOutcome)
        BY <2>3, <4>3
           DEF Next, Step, Handlers, BeginTurn, TurnLimit, NoAmendment, UseForbiddenClass, NoEffect,
               BeginHumanWait, BeginTextWait, ReceiveInput, AdmitAmendment, AmendWaiting, WriteArtifact,
               AskHuman, WaitHuman, ReadWait, ResolveInput, AmendContract, ReadTask, PeekAndCheck,
               ResolveAmendment, vars, run, AnswerInv
      <4> QED BY <4>2, <4>3
    <3> QED BY <1>3, <2>1, <3>1 DEF Explained, Accepted
  <2> QED BY <2>2, <2>3
<1> QED BY <1>2, <1>3 DEF Explained

(* Every step keeps the explanation of what was accepted. *)
LEMMA CiteNext ==
    ASSUME RaceInv, WaitInv, AnswerInv, RequestInv, JudgeInv, CiteInv, [Next]_vars
    PROVE  CiteInv'
<1>1. turn <= turn'
  <2>1. turn' \in {turn, turn + 1}
    BY StepKinds, QuietKeeps, ApplyingStep
       DEF Next, Handlers, ReadWait, ResolveInput, AmendContract, ReadTask, PeekAndCheck,
           ResolveAmendment, run, vars
  <2> QED BY <2>1 DEF RaceInv
<1> DEFINE Fine(d) ==
        \E s, at : /\ s = call'[d].sub /\ at = call'[d].at
                   /\ s \in Submissions /\ at <= turn'
                   /\ s.actor.via = "human_response" => Explained(s.actor.cites, at)'
<1>2. ASSUME NEW d \in Clients, call[d].at # Fails, call'[d].at = call[d].at, call'[d].sub = call[d].sub
      PROVE  Fine(d)
  <2>1. PICK s, at : s = call[d].sub /\ at = call[d].at
    OBVIOUS
  <2>2. s \in Submissions /\ at \in Int /\ at <= turn
    BY <1>2, <2>1 DEF CiteInv, RaceInv
  <2>3. at <= turn'
    BY <1>1, <2>2, RaceNext DEF RaceInv
  <2>4. s.actor.via = "human_response" => Explained(s.actor.cites, at)'
    <3>1. s.actor.via = "human_response" => s.actor.cites # NoRef /\ Explained(s.actor.cites, at)
      BY <1>2, <2>1, <2>2, SubmissionAssumption DEF CiteInv
    <3> QED BY <2>2, <3>1, ExplainedStays
  <2> QED BY <1>2, <2>1, <2>2, <2>3, <2>4
<1>3. ASSUME \A d \in Clients : call'[d].at # Fails => Fine(d)
      PROVE  \A d \in Clients :
                 call'[d].at # Fails =>
                     /\ call'[d].sub \in Submissions
                     /\ call'[d].at <= turn'
                     /\ call'[d].sub.actor.via = "human_response" =>
                          (Explained(call[d].sub.actor.cites, call[d].at))'
  BY <1>3 DEF Explained, ReplacedSince
<1> HIDE DEF Fine
<1>4. CASE UNCHANGED <<promise, call, receipt>>
  <2>1. \A d \in Clients : call'[d].at # Fails => Fine(d)
    BY <1>2, <1>4
  <2> QED BY <1>3, <1>4, <2>1 DEF CiteInv
<1>5. ASSUME NEW c \in Clients, AmendContract(c)
      PROVE  CiteInv'
  <2>1. \A d \in Clients \ {c} : call'[d] = call[d] /\ receipt'[d] = receipt[d]
    BY <1>5 DEF AmendContract, ReadTask, PeekAndCheck, ResolveAmendment, Answer, RaceInv
  <2>2. CASE \E s \in Submissions : ReadTask(c, s)
    <3> PICK s \in Submissions : ReadTask(c, s)
      BY <2>2
    <3>0. PICK at : at = IF CheckAgainst(s) = 200 THEN turn ELSE Fails
      OBVIOUS
    <3>1. /\ call' = [call EXCEPT ![c] = [step |-> "read", sub |-> s, at |-> at]]
          /\ UNCHANGED <<promise, receipt, turn, inputs, evidence, given>>
          /\ call[c].step = "idle" /\ DOMAIN call = Clients
      BY <3>0 DEF ReadTask, run, IdleCall, RaceInv
    <3>2. call'[c].sub = s /\ call'[c].at = at /\ receipt[c] = "none"
      BY <3>1 DEF RaceInv
    <3>3. ASSUME at # Fails
          PROVE  at = turn /\ (s.actor.via = "human_response" => Explained(s.actor.cites, at)')
      <4>1. at = turn /\ ApplyAmendment(contract, s, evidence).verdict = 200
        BY <3>0, <3>3 DEF CheckAgainst
      <4>2. ASSUME s.actor.via = "human_response"
            PROVE  Explained(s.actor.cites, at)'
        <5>1. Accepted(s.actor.cites, evidence) /\ s.actor.cites # NoRef
          BY <4>1, <4>2, ApplyAccepts, SubmissionAssumption
        <5>2. PICK q \in Requests : evidence.answers[q] = s.actor.cites
          BY <5>1 DEF Accepted, AnswerInv
        <5>3. PICK t \in Turns : t <= turn /\ inputs[t] = s.actor.cites
          BY <5>1, <5>2 DEF RequestInv
        <5> QED BY <3>1, <4>1, <5>1, <5>3 DEF Explained, Accepted
      <4> QED BY <4>1, <4>2
    <3>4. Fine(c) \/ call'[c].at = Fails
      <4>1. turn <= turn
        BY DEF RaceInv
      <4> QED BY <3>1, <3>2, <3>3, <4>1 DEF Fine
    <3>5. \A d \in Clients : call'[d].at # Fails => Fine(d)
      BY <1>2, <2>1, <3>4
    <3>6. \A d \in Clients : receipt[d] = "SUBMITTED" => call'[d].at # Fails /\ call'[d].sub = call[d].sub
      BY <2>1, <3>2 DEF CiteInv
    <3> QED BY <1>3, <3>1, <3>5, <3>6 DEF CiteInv
  <2>3. CASE PeekAndCheck(c) \/ ResolveAmendment(c)
    <3>1. /\ \E step \in Steps : call' = [call EXCEPT ![c] = Now(call[c], step)]
          /\ DOMAIN call = Clients /\ DOMAIN receipt = Clients
      BY <2>3 DEF PeekAndCheck, ResolveAmendment, Answer, Steps, RaceInv
    <3>2. \A d \in Clients : call'[d].at = call[d].at /\ call'[d].sub = call[d].sub
      BY <3>1 DEF Now
    <3>3. \A d \in Clients : call'[d].at # Fails => Fine(d)
      BY <1>2, <3>2
    <3>4. /\ receipt'[c] = "SUBMITTED" => call[c].step = "checked" /\ call[c].sub \in Submissions
          /\ receipt[c] = "none"
          /\ \A r \in Revisions :
               promise'[r] = promise[r] \/ (promise'[r] = call[c].sub /\ receipt'[c] = "SUBMITTED")
      BY <2>3, SubmissionTargets DEF PeekAndCheck, ResolveAmendment, Answer, PeekAnswer, RaceInv
    <3>5. \A d \in Clients : receipt'[d] = "SUBMITTED" => call'[d].at # Fails
      BY <2>1, <3>2, <3>4 DEF CiteInv, JudgeInv
    <3>6. \A r \in Revisions : promise'[r] # NoSubmission =>
            \E d \in Clients : receipt'[d] = "SUBMITTED" /\ call'[d].sub = promise'[r]
      BY <2>1, <3>2, <3>4 DEF CiteInv
    <3> QED BY <1>3, <3>3, <3>5, <3>6 DEF CiteInv
  <2> QED BY <1>5, <2>2, <2>3 DEF AmendContract
<1> QED BY <1>4, <1>5, StepKinds, QuietKeeps, ApplyingStep
      DEF Next, Handlers, ReadWait, ResolveInput, handlers, vars

(* A revision is closed by a rejection, and the rejected one stays decided.*)
RejectInv ==
    /\ RejectedOnlyForReplacedAnswer
    /\ rejected # 0 => rejected \in Revisions /\ promise[rejected] # NoSubmission

(* What the run may refuse of what the handler accepted. *)
LEMMA RejectionReason ==
    ASSUME RaceInv, JudgeInv, Amendable, Admitted.verdict # 200
    PROVE  LET s == promise[contract.revision + 1] IN
           /\ s.actor.via = "human_response" /\ s.actor.cites \in given
           /\ ~Accepted(s.actor.cites, evidence)
<1> DEFINE s == promise[contract.revision + 1]
<1>1. contract.revision + 1 \in Revisions /\ s # NoSubmission /\ contract.revision \in Nat
  BY DEF Amendable, Decided, RaceInv
<1>2. s \in Submissions /\ s.from + 1 = contract.revision + 1 /\ Judged(s)
  BY <1>1 DEF RaceInv, JudgeInv
<1>3. s.from = contract.revision
  BY <1>1, <1>2, SubmissionTargets
<1>4. Applicable(contract, s)
  BY <1>2, <1>3 DEF Judged
<1> HIDE DEF s
<1>5. s.actor.via = "human_response" /\ ~Accepted(s.actor.cites, evidence)
  BY <1>3, <1>4, ApplyAccepts DEF Admitted, s
<1> QED BY <1>2, <1>5 DEF Judged, s

(* The client that won a revision has its answer, for good. *)
LEMMA WinnerStays ==
    ASSUME RaceInv, [Next]_vars, NEW c \in Clients, receipt[c] = "SUBMITTED"
    PROVE  call'[c] = call[c] /\ receipt'[c] = receipt[c]
<1>1. call[c].step = "done"
  BY DEF RaceInv
<1>2. CASE \E d \in Clients : AmendContract(d)
  <2>1. PICK d \in Clients : AmendContract(d)
    BY <1>2
  <2>2. call[d].step # "done"
    BY <2>1 DEF AmendContract, ReadTask, PeekAndCheck, ResolveAmendment, IdleCall
  <2> QED BY <1>1, <2>1, <2>2
        DEF AmendContract, ReadTask, PeekAndCheck, ResolveAmendment, Answer, RaceInv
<1>3. CASE Quiet \/ AdmitAmendment \/ AmendWaiting \/ ReadWait \/ ResolveInput \/ UNCHANGED vars
  BY <1>3, QuietKeeps, ApplyingStep DEF handlers, ReadWait, ResolveInput, vars
<1> QED BY <1>2, <1>3, StepKinds DEF Next, Handlers

(* A decided revision stays decided. *)
LEMMA DecidedStays ==
    ASSUME RaceInv, [Next]_vars, NEW r \in Revisions, promise[r] # NoSubmission
    PROVE  promise'[r] = promise[r]
<1>1. CASE \E c \in Clients : AmendContract(c)
  BY <1>1, SubmissionTargets
     DEF AmendContract, ReadTask, PeekAndCheck, ResolveAmendment, RaceInv
<1>2. CASE Quiet \/ AdmitAmendment \/ AmendWaiting \/ ReadWait \/ ResolveInput \/ UNCHANGED vars
  BY <1>2, QuietKeeps, ApplyingStep DEF handlers, ReadWait, ResolveInput, vars
<1> QED BY <1>1, <1>2, StepKinds DEF Next, Handlers

(* A rejection closes its revision, for that reason. *)
LEMMA RejectNext ==
    ASSUME RaceInv, WaitInv, AnswerInv, RequestInv, JudgeInv, CiteInv, RejectInv, [Next]_vars
    PROVE  RejectInv'
<1>1. ASSUME rejected # 0, UNCHANGED <<rejected, contract>>
      PROVE  RejectInv'
  <2>1. /\ rejected = contract.revision + 1
        /\ rejected \in Revisions /\ promise[rejected] # NoSubmission
    BY <1>1 DEF RejectInv, RejectedOnlyForReplacedAnswer
  <2>2. PICK c \in Clients : /\ receipt[c] = "SUBMITTED" /\ call[c].sub = promise[rejected]
                             /\ call[c].sub.actor.via = "human_response"
                             /\ ReplacedSince(call[c].sub.actor.cites, call[c].at)
    BY <1>1 DEF RejectInv, RejectedOnlyForReplacedAnswer
  <2>3. PICK ref, at : ref = call[c].sub.actor.cites /\ at = call[c].at
    OBVIOUS
  <2>4. ref # NoRef
    BY <2>1, <2>2, <2>3, SubmissionAssumption DEF RaceInv
  <2>5. ReplacedSince(ref, at)'
    BY <2>2, <2>3, <2>4, ReplacedStays
  <2>6. call'[c] = call[c] /\ receipt'[c] = "SUBMITTED" /\ promise'[rejected] = promise[rejected]
    BY <2>1, <2>2, WinnerStays, DecidedStays
  <2>7. ReplacedSince(call[c].sub.actor.cites, call[c].at)'
    BY <2>3, <2>5, <2>6 DEF ReplacedSince
  <2> QED BY <1>1, <2>1, <2>2, <2>6, <2>7 DEF RejectInv, RejectedOnlyForReplacedAnswer
<1>2. ASSUME rejected' = 0
      PROVE  RejectInv'
  BY <1>2 DEF RejectInv, RejectedOnlyForReplacedAnswer
<1>3. CASE AdmitAmendment \/ AmendWaiting
  <2>1. UNCHANGED handlers /\ Amendable
    BY <1>3, ApplyingStep
  <2>2. rejected = 0 /\ contract.revision + 1 \in Revisions /\ promise[contract.revision + 1] # NoSubmission
    BY <2>1 DEF Amendable, Decided, RejectInv, RejectedOnlyForReplacedAnswer
  <2>3. CASE rejected' = contract.revision + 1 /\ UNCHANGED contract /\ Admitted.verdict # 200
    <3> DEFINE s == promise[contract.revision + 1]
    <3>1. s.actor.via = "human_response" /\ ~Accepted(s.actor.cites, evidence)
      BY <2>1, <2>3, RejectionReason
    <3>2. PICK c \in Clients : receipt[c] = "SUBMITTED" /\ call[c].sub = s
      BY <2>2 DEF CiteInv
    <3>3. ReplacedSince(call[c].sub.actor.cites, call[c].at)
      BY <3>1, <3>2 DEF CiteInv, Explained
    <3>4. UNCHANGED <<promise, inputs, given, call, receipt>>
      BY <2>1 DEF handlers
    <3>5. ReplacedSince(call[c].sub.actor.cites, call[c].at)'
      BY <3>3, <3>4 DEF ReplacedSince
    <3> QED BY <2>2, <2>3, <3>1, <3>2, <3>4, <3>5 DEF RejectInv, RejectedOnlyForReplacedAnswer
  <2> QED BY <1>2, <1>3, <2>2, <2>3, ApplyingStep
<1>4. CASE Quiet \/ ReadWait \/ ResolveInput \/ (\E c \in Clients : AmendContract(c)) \/ UNCHANGED vars
  <2>1. UNCHANGED <<rejected, contract>>
    BY <1>4, QuietKeeps DEF ReadWait, ResolveInput, AmendContract, ReadTask, PeekAndCheck,
       ResolveAmendment, run, vars
  <2> QED BY <1>1, <1>2, <2>1
<1> QED BY <1>3, <1>4, StepKinds DEF Next, Handlers

(* The waits, the answers, the judgements and their explanations hold       *)
(* initially.                                                               *)
LEMMA JudgeInit == Init => JudgeInv /\ RequestInv /\ CiteInv /\ RejectInv
BY ContractAssumption, SubmissionTargets
   DEF Init, JudgeInv, RequestInv, CiteInv, RejectInv, RejectedOnlyForReplacedAnswer, IdleCall,
       HumanWait, NoWait

(* And along every behaviour. *)
LEMMA JudgementInvariance ==
    Spec => [](RaceInv /\ WaitInv /\ AnswerInv /\ RequestInv /\ JudgeInv /\ CiteInv /\ RejectInv)
<1> QED BY JudgeInit, AnswerInit, AnswerNext, RequestNext, JudgeNext, CiteNext, RejectNext,
           RaceInit, RaceNext, PTL DEF Spec

(* An amendment that amend_contract accepted is refused by the run only    *)
(* because the human response it cites, given by the iteration the handler *)
(* read, was replaced by a different response to the same request since;   *)
(* whatever the submissions, clients, requests and turns.                  *)
THEOREM RejectionIsExplained == Spec => []RejectedOnlyForReplacedAnswer
<1>1. RejectInv => RejectedOnlyForReplacedAnswer
  BY DEF RejectInv
<1> QED BY <1>1, JudgementInvariance, PTL

(* At the step that refuses it, the cited response is no longer the        *)
(* accepted one of any request (apply_amendment's 403).                    *)
RefusedForReplacedAnswer ==
    rejected' # rejected =>
        LET s == promise[contract.revision + 1] IN
        /\ s.actor.via = "human_response" /\ s.actor.cites \in given
        /\ ~Accepted(s.actor.cites, evidence)

(* Every refusal by the run is one of these. *)
THEOREM RefusalIsReplacedAnswer == Spec => [][RefusedForReplacedAnswer]_vars
<1>1. RaceInv /\ JudgeInv /\ [Next]_vars => [RefusedForReplacedAnswer]_vars
  <2> SUFFICES ASSUME RaceInv, JudgeInv, Next PROVE RefusedForReplacedAnswer
    BY DEF vars, run, RefusedForReplacedAnswer
  <2>1. CASE AdmitAmendment \/ AmendWaiting
    BY <2>1, ApplyingStep, RejectionReason DEF RefusedForReplacedAnswer
  <2>2. CASE Quiet \/ ReadWait \/ ResolveInput \/ \E c \in Clients : AmendContract(c)
    <3>1. rejected' = rejected
      BY <2>2, QuietKeeps DEF ReadWait, ResolveInput, AmendContract, ReadTask, PeekAndCheck,
                              ResolveAmendment, run
    <3> QED BY <3>1 DEF RefusedForReplacedAnswer
  <2> QED BY <2>1, <2>2, StepKinds DEF Next, Handlers
<1> QED BY <1>1, JudgementInvariance, PTL DEF Spec

-----------------------------------------------------------------------------
(* The operations of an amendment, one after the other.  The fold is a     *)
(* recursive function, so what it computes is proved by induction: here on *)
(* a set of naturals, from the well-foundedness of their order.            *)

(* The order the induction descends along. *)
Below == {p \in Nat \X Nat : p[1] < p[2]}

(* Induction on the naturals, for a set: what holds of 0 and of the next   *)
(* holds of all.                                                           *)
LEMMA SetInduction ==
    ASSUME NEW T, 0 \in T, \A n \in Nat : n \in T => n + 1 \in T
    PROVE  Nat \subseteq T
<1> DEFINE missing == Nat \ T
<1> SUFFICES ASSUME missing # {} PROVE FALSE
  OBVIOUS
<1>1. IsWellFoundedOn(Below, Nat)
  BY NatLessThanWellFounded DEF OpToRel, Below
<1>2. PICK m \in missing : \A n \in missing : <<n, m>> \notin Below
  BY <1>1, WFMin
<1>3. m - 1 \in Nat /\ <<m - 1, m>> \in Below
  BY DEF Below
<1> QED BY <1>2, <1>3

(* What a function over a prefix of the operations must satisfy. *)
Prefix(k, s, n, f) ==
    f = [i \in 0 .. n |-> IF i = 0 THEN Unamended(k) ELSE Operate(k, s, f[i - 1], i)]

(* Read pointwise. *)
Chained(k, s, n, f) ==
    f[0] = Unamended(k) /\ \A i \in 1 .. n : f[i] = Operate(k, s, f[i - 1], i)

(* The two readings agree. *)
LEMMA PrefixMeans ==
    ASSUME NEW k, NEW s, NEW n \in Nat, NEW f, Prefix(k, s, n, f)
    PROVE  Chained(k, s, n, f)
<1> DEFINE step(i) == Operate(k, s, f[i - 1], i)
           H == [i \in 0 .. n |-> IF i = 0 THEN Unamended(k) ELSE step(i)]
<1>1. f = H
  BY DEF Prefix
<1> HIDE DEF step
<1>2. H[0] = Unamended(k) /\ \A i \in 1 .. n : H[i] = step(i)
  OBVIOUS
<1> HIDE DEF H
<1>3. f[0] = Unamended(k) /\ \A i \in 1 .. n : f[i] = step(i)
  BY <1>1, <1>2
<1> QED BY <1>3, Zenon DEF step, Chained

(* The operations have their results, one after the other. *)
LEMMA PrefixExists ==
    ASSUME NEW k, NEW s, NEW n \in Nat
    PROVE  \E f : Prefix(k, s, n, f)
<1> DEFINE T == {m \in Nat : \E f : Prefix(k, s, m, f)}
<1>1. 0 \in T
  <2>1. Prefix(k, s, 0, [i \in 0 .. 0 |-> Unamended(k)])
    BY DEF Prefix
  <2> QED BY <2>1
<1>2. ASSUME NEW m \in Nat, m \in T
      PROVE  m + 1 \in T
  <2>1. PICK f : Prefix(k, s, m, f)
    BY <1>2
  <2> HIDE DEF T
  <2> DEFINE g == [i \in 0 .. m + 1 |-> IF i = m + 1 THEN Operate(k, s, f[m], i) ELSE f[i]]
             step(i) == Operate(k, s, g[i - 1], i)
             H == [i \in 0 .. m + 1 |-> IF i = 0 THEN Unamended(k) ELSE step(i)]
  <2>2. f[0] = Unamended(k) /\ \A i \in 1 .. m : f[i] = Operate(k, s, f[i - 1], i)
    <3>1. Chained(k, s, m, f)
      BY <2>1, PrefixMeans
    <3> QED BY <3>1, Zenon DEF Chained
  <2>3. /\ \A i \in 0 .. m : g[i] = f[i]
        /\ g[m + 1] = Operate(k, s, f[m], m + 1)
        /\ g = [i \in 0 .. m + 1 |-> g[i]]
    <3>1. m + 1 \in 0 .. m + 1 /\ \A i \in 0 .. m : i \in 0 .. m + 1 /\ i # m + 1
      OBVIOUS
    <3>2. g = [i \in 0 .. m + 1 |-> g[i]]
      OBVIOUS
    <3>3. g[m + 1] = Operate(k, s, f[m], m + 1)
      BY <3>1
    <3>4. ASSUME NEW i \in 0 .. m PROVE g[i] = f[i]
      BY <3>1
    <3> QED BY <3>2, <3>3, <3>4
  <2> HIDE DEF g
  <2>4. \A i \in 1 .. m + 1 : g[i] = step(i)
    <3>0. (m + 1) - 1 = m /\ m \in 0 .. m
      OBVIOUS
    <3>1. g[m + 1] = step(m + 1)
      BY <2>3, <3>0, Zenon
    <3>2. \A i \in 1 .. m : i - 1 \in 0 .. m /\ i \in 0 .. m
      OBVIOUS
    <3>3. \A i \in 1 .. m : g[i] = step(i)
      BY <2>2, <2>3, <3>2, Zenon
    <3> HIDE DEF step
    <3> QED BY <3>1, <3>3
  <2> HIDE DEF step
  <2>5. g[0] = Unamended(k) /\ DOMAIN g = 0 .. m + 1
    BY <2>2, <2>3
  <2>6. g = H
    BY <2>3, <2>4, <2>5
  <2>7. Prefix(k, s, m + 1, g)
    BY <2>6 DEF Prefix, step
  <2> QED BY <2>7 DEF T
<1> HIDE DEF T
<1>3. Nat \subseteq T
  BY <1>1, <1>2, SetInduction
<1> QED BY <1>3 DEF T

(* So the recursive definition means what it says. *)
LEMMA AfterIsPrefix ==
    ASSUME NEW k, NEW s, Len(s.ops) \in Nat
    PROVE  Prefix(k, s, Len(s.ops), AfterOperations(k, s))
<1>1. AfterOperations(k, s) = CHOOSE f : Prefix(k, s, Len(s.ops), f)
  BY DEF AfterOperations, Prefix
<1>2. \E f : Prefix(k, s, Len(s.ops), f)
  BY PrefixExists
<1> QED BY <1>1, <1>2, Zenon

-----------------------------------------------------------------------------
(* What n operations of s have made of the criteria of k. *)
Kept(k, s, n, acc) ==
    /\ DOMAIN acc = {"verdict", "criteria"}
    /\ DOMAIN k.criteria \subseteq DOMAIN acc.criteria
    /\ \A id \in DOMAIN acc.criteria : DOMAIN acc.criteria[id] = CriterionFields
    /\ \A id \in DOMAIN k.criteria :
         /\ Invariant(k.criteria[id]) => acc.criteria[id] = k.criteria[id]
         /\ Ruled(k.criteria[id]) =>
              \/ acc.criteria[id] = k.criteria[id]
              \/ s.actor.via = "policy_exception" /\ s.actor.exception = k.criteria[id].rule
    /\ \A id \in DOMAIN acc.criteria :
         Waived(acc.criteria[id]) =>
             \/ id \in DOMAIN k.criteria /\ Waived(k.criteria[id])
             \/ \E j \in 1 .. n : s.ops[j].op = "waive" /\ s.ops[j].id = id

(* Putting one criterion into the function. *)
LEMMA ChangeMeans ==
    ASSUME NEW acc, NEW id, NEW c, DOMAIN acc = {"verdict", "criteria"}
    PROVE  /\ DOMAIN Change(acc, id, c) = {"verdict", "criteria"}
           /\ DOMAIN Change(acc, id, c).criteria = DOMAIN acc.criteria \cup {id}
           /\ Change(acc, id, c).criteria[id] = c
           /\ \A i \in DOMAIN acc.criteria \ {id} :
                Change(acc, id, c).criteria[i] = acc.criteria[i]
BY DEF Change

(* Authority over a task-type invariant nobody has; over a bound REQUIRED  *)
(* operator rule, for an operation that may touch one, only an operator's  *)
(* policy exception that names it.                                         *)
LEMMA AuthorityMeans ==
    ASSUME NEW op, NEW c, NEW actor, ~AuthorityGap(op, c, actor)
    PROVE  /\ ~Invariant(c)
           /\ c.source = "operator_rule" /\ op \notin {"bind", "elevate"} =>
                actor.via = "policy_exception" /\ actor.exception = c.rule
BY DEF AuthorityGap, Invariant

(* What one operation does to the criteria, for what is protected. *)
LEMMA OperationEffect ==
    ASSUME NEW acc, NEW op, NEW actor, NEW revision, op.op \in Operations,
           \A id \in DOMAIN acc.criteria : DOMAIN acc.criteria[id] = CriterionFields,
           op.op = "add" => DOMAIN op.criterion = CriterionFields
    PROVE  LET new == ApplyOperation(acc, op, actor, revision)
               c == acc.criteria[op.id]
           IN \/ new = acc
              \/ \E status : new = Raise(status, acc)
              \/ \E d : /\ new = Change(acc, op.id, d)
                        /\ DOMAIN d = CriterionFields
                        /\ Waived(d) => op.op = "waive" \/ (op.id \in DOMAIN acc.criteria /\ Waived(c))
                        /\ op.id \in DOMAIN acc.criteria =>
                             /\ ~Invariant(c)
                             /\ Ruled(c) => actor.via = "policy_exception" /\ actor.exception = c.rule
<1> DEFINE new == ApplyOperation(acc, op, actor, revision)
           c == acc.criteria[op.id]
           Effect(d) == /\ new = Change(acc, op.id, d)
                        /\ DOMAIN d = CriterionFields
                        /\ Waived(d) => op.op = "waive" \/ (op.id \in DOMAIN acc.criteria /\ Waived(c))
                        /\ op.id \in DOMAIN acc.criteria =>
                             /\ ~Invariant(c)
                             /\ Ruled(c) => actor.via = "policy_exception" /\ actor.exception = c.rule
<1> SUFFICES new = acc \/ (\E status : new = Raise(status, acc)) \/ \E d : Effect(d)
  OBVIOUS
<1> USE DEF CriterionFields
<1>1. CASE acc.verdict # 200
  <2>1. new = acc
    BY <1>1 DEF ApplyOperation
  <2> QED BY <2>1
<1>2. CASE acc.verdict = 200 /\ op.op = "add"
  <2>1. \/ new = Raise(400, acc)
        \/ new = Raise(403, acc)
        \/ Addable(acc, op) /\ new = Change(acc, op.id, op.criterion)
    BY <1>2 DEF ApplyOperation
  <2>2. ASSUME Addable(acc, op), new = Change(acc, op.id, op.criterion)
        PROVE  Effect(op.criterion)
    BY <1>2, <2>2 DEF Addable
  <2> HIDE DEF new, Effect
  <2> QED BY <2>1, <2>2
<1>3. CASE acc.verdict = 200 /\ op.op # "add" /\ op.id \notin DOMAIN acc.criteria
  <2>1. new = Raise(400, acc)
    BY <1>3 DEF ApplyOperation
  <2> QED BY <2>1
<1>4. CASE acc.verdict = 200 /\ op.id \in DOMAIN acc.criteria /\ op.op = "bind"
  <2> DEFINE d == [c EXCEPT !.verifier = op.verifier]
  <2>1. \/ new = Raise(400, acc)
        \/ new = Raise(403, acc)
        \/ /\ c.verifier.kind = "unbound" \/ c.level = "ADVISORY"
           /\ ~AuthorityGap(op.op, c, actor)
           /\ new = Change(acc, op.id, d)
    BY <1>4 DEF ApplyOperation
  <2>2. DOMAIN d = CriterionFields /\ d.waiver = c.waiver
    BY <1>4
  <2>3. ASSUME c.verifier.kind = "unbound" \/ c.level = "ADVISORY",
               ~AuthorityGap(op.op, c, actor),
               new = Change(acc, op.id, d)
        PROVE  Effect(d)
    <3>1. ~Invariant(c) /\ (Ruled(c) => actor.via = "policy_exception" /\ actor.exception = c.rule)
      BY <1>4, <2>3, AuthorityMeans DEF Ruled
    <3> QED BY <1>4, <2>2, <2>3, <3>1 DEF Waived
  <2> HIDE DEF new, Effect, d
  <2> QED BY <2>1, <2>3
<1>5. CASE acc.verdict = 200 /\ op.id \in DOMAIN acc.criteria /\ op.op = "rebind"
  <2> DEFINE d == [c EXCEPT !.verifier = op.verifier]
  <2>1. \/ new = Raise(400, acc)
        \/ new = Raise(403, acc)
        \/ /\ ~AuthorityGap(op.op, c, actor)
           /\ new = Change(acc, op.id, d)
    BY <1>5 DEF ApplyOperation
  <2>2. DOMAIN d = CriterionFields /\ d.waiver = c.waiver
    BY <1>5
  <2>3. ASSUME ~AuthorityGap(op.op, c, actor),
               new = Change(acc, op.id, d)
        PROVE  Effect(d)
    <3>1. ~Invariant(c) /\ (Ruled(c) => actor.via = "policy_exception" /\ actor.exception = c.rule)
      BY <1>5, <2>3, AuthorityMeans DEF Ruled
    <3> QED BY <1>5, <2>2, <2>3, <3>1 DEF Waived
  <2> HIDE DEF new, Effect, d
  <2> QED BY <2>1, <2>3
<1>6. CASE acc.verdict = 200 /\ op.id \in DOMAIN acc.criteria /\ op.op = "waive"
  <2> DEFINE d == [c EXCEPT !.waiver = [kind |-> actor.kind, via |-> actor.via,
                    cites |-> actor.cites, exception |-> actor.exception, revision |-> revision]]
  <2>1. \/ new = Raise(400, acc)
        \/ new = Raise(403, acc)
        \/ /\ ~AuthorityGap(op.op, c, actor)
           /\ new = Change(acc, op.id, d)
    BY <1>6 DEF ApplyOperation
  <2>2. DOMAIN d = CriterionFields
    BY <1>6
  <2>3. ASSUME ~AuthorityGap(op.op, c, actor),
               new = Change(acc, op.id, d)
        PROVE  Effect(d)
    <3>1. ~Invariant(c) /\ (Ruled(c) => actor.via = "policy_exception" /\ actor.exception = c.rule)
      BY <1>6, <2>3, AuthorityMeans DEF Ruled
    <3> QED BY <1>6, <2>2, <2>3, <3>1 DEF Waived
  <2> HIDE DEF new, Effect, d
  <2> QED BY <2>1, <2>3
<1>7. CASE acc.verdict = 200 /\ op.id \in DOMAIN acc.criteria /\ op.op = "elevate"
  <2> DEFINE d == [c EXCEPT !.level = "REQUIRED"]
             confirmed == [c EXCEPT !.source = "user", !.level = "REQUIRED"]
  <2>1. \/ new = Raise(400, acc)
        \/ new = Raise(403, acc)
        \/ c.level = "ADVISORY" /\ c.source \in Derived /\ new = Change(acc, op.id, confirmed)
        \/ c.level = "ADVISORY" /\ ~AuthorityGap(op.op, c, actor) /\ new = Change(acc, op.id, d)
    BY <1>7 DEF ApplyOperation
  <2>2. /\ DOMAIN d = CriterionFields /\ d.waiver = c.waiver
        /\ DOMAIN confirmed = CriterionFields /\ confirmed.waiver = c.waiver
    BY <1>7
  <2>3. ASSUME c.level = "ADVISORY", c.source \in Derived, new = Change(acc, op.id, confirmed)
        PROVE  Effect(confirmed)
    <3>1. ~Invariant(c) /\ ~Ruled(c)
      BY <2>3 DEF Invariant, Ruled, Derived
    <3> QED BY <1>7, <2>2, <2>3, <3>1 DEF Waived
  <2>4. ASSUME c.level = "ADVISORY", ~AuthorityGap(op.op, c, actor), new = Change(acc, op.id, d)
        PROVE  Effect(d)
    <3>1. ~Invariant(c) /\ ~Ruled(c)
      BY <2>4, AuthorityMeans DEF Ruled
    <3> QED BY <1>7, <2>2, <2>4, <3>1 DEF Waived
  <2> HIDE DEF new, Effect, d, confirmed
  <2> QED BY <2>1, <2>3, <2>4
<1>8. CASE acc.verdict = 200 /\ op.id \in DOMAIN acc.criteria /\ op.op = "supersede"
  <2> DEFINE d == [c EXCEPT !.by = op.by]
  <2>1. \/ new = Raise(400, acc)
        \/ new = Raise(403, acc)
        \/ /\ ~AuthorityGap(op.op, c, actor)
           /\ new = Change(acc, op.id, d)
    BY <1>8 DEF ApplyOperation
  <2>2. DOMAIN d = CriterionFields /\ d.waiver = c.waiver
    BY <1>8
  <2>3. ASSUME ~AuthorityGap(op.op, c, actor),
               new = Change(acc, op.id, d)
        PROVE  Effect(d)
    <3>1. ~Invariant(c) /\ (Ruled(c) => actor.via = "policy_exception" /\ actor.exception = c.rule)
      BY <1>8, <2>3, AuthorityMeans DEF Ruled
    <3> QED BY <1>8, <2>2, <2>3, <3>1 DEF Waived
  <2> HIDE DEF new, Effect, d
  <2> QED BY <2>1, <2>3
<1> HIDE DEF new, Effect
<1> QED BY <1>1, <1>2, <1>3, <1>4, <1>5, <1>6, <1>7, <1>8 DEF Operations

(* One operation keeps what is kept. *)
LEMMA KeptStep ==
    ASSUME NEW k, NEW s \in Submissions, NEW acc, NEW n \in Nat, n + 1 \in 1 .. Len(s.ops),
           Kept(k, s, n, acc)
    PROVE  Kept(k, s, n + 1, Operate(k, s, acc, n + 1))
<1> DEFINE op == s.ops[n + 1]
           new == Operate(k, s, acc, n + 1)
           c == acc.criteria[op.id]
<1>1. op.op \in Operations /\ (op.op = "add" => DOMAIN op.criterion = CriterionFields)
  BY SubmissionAssumption
<1>2. \/ new = acc
      \/ \E status : new = Raise(status, acc)
      \/ \E d : /\ new = Change(acc, op.id, d)
                /\ DOMAIN d = CriterionFields
                /\ Waived(d) => op.op = "waive" \/ (op.id \in DOMAIN acc.criteria /\ Waived(c))
                /\ op.id \in DOMAIN acc.criteria =>
                     /\ ~Invariant(c)
                     /\ Ruled(c) => s.actor.via = "policy_exception" /\ s.actor.exception = c.rule
  <2>1. \A id \in DOMAIN acc.criteria : DOMAIN acc.criteria[id] = CriterionFields
    BY DEF Kept
  <2> HIDE DEF op
  <2> QED BY <1>1, <2>1, OperationEffect DEF Operate, op
<1> HIDE DEF new
<1>3. ASSUME DOMAIN new = DOMAIN acc, new.criteria = acc.criteria
      PROVE  Kept(k, s, n + 1, new)
  BY <1>3 DEF Kept
<1>4. ASSUME NEW status, new = Raise(status, acc)
      PROVE  Kept(k, s, n + 1, new)
  <2>1. DOMAIN new = DOMAIN acc /\ new.criteria = acc.criteria
    BY <1>4 DEF Raise, Kept
  <2> QED BY <1>3, <2>1
<1>5. ASSUME NEW d, new = Change(acc, op.id, d),
             DOMAIN d = CriterionFields,
             Waived(d) => op.op = "waive" \/ (op.id \in DOMAIN acc.criteria /\ Waived(c)),
             op.id \in DOMAIN acc.criteria =>
                 /\ ~Invariant(c)
                 /\ Ruled(c) => s.actor.via = "policy_exception" /\ s.actor.exception = c.rule
      PROVE  Kept(k, s, n + 1, new)
  <2>1. /\ DOMAIN new = {"verdict", "criteria"}
        /\ DOMAIN new.criteria = DOMAIN acc.criteria \cup {op.id}
        /\ new.criteria[op.id] = d
        /\ \A i \in DOMAIN acc.criteria \ {op.id} : new.criteria[i] = acc.criteria[i]
    BY <1>5, ChangeMeans DEF Kept
  <2>2. ASSUME NEW id \in DOMAIN k.criteria
        PROVE  /\ Invariant(k.criteria[id]) => new.criteria[id] = k.criteria[id]
               /\ Ruled(k.criteria[id]) =>
                    \/ new.criteria[id] = k.criteria[id]
                    \/ s.actor.via = "policy_exception" /\ s.actor.exception = k.criteria[id].rule
    BY <1>5, <2>1 DEF Kept
  <2>3. ASSUME NEW id \in DOMAIN new.criteria, Waived(new.criteria[id])
        PROVE  \/ id \in DOMAIN k.criteria /\ Waived(k.criteria[id])
               \/ \E j \in 1 .. n + 1 : s.ops[j].op = "waive" /\ s.ops[j].id = id
    <3>1. CASE id = op.id /\ op.op = "waive"
      BY <3>1
    <3>2. CASE id \in DOMAIN acc.criteria /\ Waived(acc.criteria[id])
      BY <3>2 DEF Kept
    <3> QED BY <1>5, <2>1, <2>3, <3>1, <3>2
  <2> QED BY <1>5, <2>1, <2>2, <2>3 DEF Kept
<1> QED BY <1>2, <1>3, <1>4, <1>5 DEF new

(* So do all the operations of a submission. *)
LEMMA OperationsKeep ==
    ASSUME NEW k, NEW s \in Submissions,
           \A id \in DOMAIN k.criteria : DOMAIN k.criteria[id] = CriterionFields
    PROVE  Kept(k, s, Len(s.ops), ApplyOperations(k, s))
<1>1. Len(s.ops) \in Nat
  BY SubmissionAssumption
<1>2. PICK f : f = AfterOperations(k, s)
  OBVIOUS
<1>3. Prefix(k, s, Len(s.ops), f)
  BY <1>1, <1>2, AfterIsPrefix
<1>4. f[0] = Unamended(k) /\ \A i \in 1 .. Len(s.ops) : f[i] = Operate(k, s, f[i - 1], i)
  <2>1. Chained(k, s, Len(s.ops), f)
    BY <1>1, <1>3, PrefixMeans
  <2> QED BY <2>1, Zenon DEF Chained
<1> DEFINE T == {n \in Nat : n \in 0 .. Len(s.ops) => Kept(k, s, n, f[n])}
<1>5. 0 \in T
  <2>1. Kept(k, s, 0, Unamended(k))
    BY DEF Kept, Unamended
  <2> QED BY <1>4, <2>1
<1>6. ASSUME NEW n \in Nat, n \in T
      PROVE  n + 1 \in T
  <2> SUFFICES ASSUME n + 1 \in 0 .. Len(s.ops)
               PROVE  Kept(k, s, n + 1, f[n + 1])
    OBVIOUS
  <2>1. Kept(k, s, n, f[n]) /\ n + 1 \in 1 .. Len(s.ops) /\ (n + 1) - 1 = n
    BY <1>1, <1>6
  <2>2. f[n + 1] = Operate(k, s, f[n], n + 1)
    BY <1>4, <2>1, Zenon
  <2>3. Kept(k, s, n + 1, Operate(k, s, f[n], n + 1))
    BY <2>1, KeptStep
  <2> QED BY <2>2, <2>3
<1> HIDE DEF T
<1>7. Len(s.ops) \in T
  BY <1>1, <1>5, <1>6, SetInduction
<1>8. Kept(k, s, Len(s.ops), f[Len(s.ops)])
  BY <1>1, <1>7 DEF T
<1> QED BY <1>2, <1>8 DEF ApplyOperations

-----------------------------------------------------------------------------
(* The contract in force, against the accepted one and the chain applied.  *)
ProtectInv ==
    /\ ProtectedCriteria
    /\ \A id \in DOMAIN contract.criteria :
         /\ DOMAIN contract.criteria[id] = CriterionFields
         /\ Waived(contract.criteria[id]) => WaivedByAmendment(id)

(* The accepted contract is protected, and carries no waiver. *)
LEMMA ProtectInit == Init => ProtectInv
<1> SUFFICES ASSUME Init PROVE ProtectInv
  OBVIOUS
<1>1. contract = Contract0
  BY DEF Init
<1>2. ASSUME NEW id \in DOMAIN Contract0.criteria
      PROVE  ~Waived(Contract0.criteria[id])
  <2>1. /\ Waived(Contract0.criteria[id]) => Contract0.criteria[id].waiver.revision \in Nat \ {0}
        /\ Contract0.criteria[id].waiver.revision =< 0
    BY <1>2, ContractAssumption DEF ValidContract, ValidCriterion
  <2> QED BY <2>1
<1>3. ProtectedCriteria
  BY <1>1, ContractAssumption DEF ProtectedCriteria
<1> QED BY <1>1, <1>2, <1>3, ContractAssumption DEF ProtectInv

(* An accepted amendment leaves what its operations leave. *)
LEMMA AmendmentCriteria ==
    ASSUME NEW k, NEW s, NEW e, ApplyAmendment(k, s, e).verdict = 200
    PROVE  ApplyAmendment(k, s, e).contract.criteria = ApplyOperations(k, s).criteria
BY DEF ApplyAmendment

(* Applying one more amendment keeps the protection. *)
LEMMA ProtectApply ==
    ASSUME RaceInv, ProtectInv, AdmitAmendment \/ AmendWaiting
    PROVE  ProtectInv'
<1>1. CASE UNCHANGED <<contract, applied>>
  BY <1>1 DEF ProtectInv, ProtectedCriteria, ExceptionApplied, WaivedByAmendment
<1>2. CASE /\ Admitted.verdict = 200
           /\ contract' = Admitted.contract
           /\ applied' = Append(applied, promise[contract.revision + 1])
  <2> DEFINE s == promise[contract.revision + 1]
             n == Len(applied)
  <2>1. s \in Submissions /\ applied \in Seq(Submissions)
    BY ApplyingStep DEF Amendable, Decided, RaceInv
  <2>2. /\ DOMAIN applied = 1 .. n /\ DOMAIN applied' = 1 .. n + 1 /\ n \in Nat
        /\ \A i \in 1 .. n : applied'[i] = applied[i]
        /\ applied'[n + 1] = s
    BY <1>2, <2>1
  <2>3. PICK acc : acc.criteria = contract'.criteria /\ Kept(contract, s, Len(s.ops), acc)
    <3>1. \A id \in DOMAIN contract.criteria : DOMAIN contract.criteria[id] = CriterionFields
      BY DEF ProtectInv
    <3>2. contract'.criteria = ApplyOperations(contract, s).criteria
      BY <1>2, AmendmentCriteria DEF Admitted
    <3> HIDE DEF s
    <3>3. Kept(contract, s, Len(s.ops), ApplyOperations(contract, s))
      BY <2>1, <3>1, OperationsKeep
    <3> QED BY <3>2, <3>3
  <2>4. ValidContract(contract)'
    BY <1>2, ApplyIsValid DEF Admitted
  <2> HIDE DEF s, n
  <2>5. \A rule : ExceptionApplied(rule) => ExceptionApplied(rule)'
    BY <2>2 DEF ExceptionApplied
  <2>6. \A rule : s.actor.via = "policy_exception" /\ s.actor.exception = rule => ExceptionApplied(rule)'
    BY <2>2 DEF ExceptionApplied
  <2>7. \A id : WaivedByAmendment(id) => WaivedByAmendment(id)'
    BY <2>2 DEF WaivedByAmendment
  <2>8. \A id : (\E j \in 1 .. Len(s.ops) : s.ops[j].op = "waive" /\ s.ops[j].id = id)
                => WaivedByAmendment(id)'
    <3>1. DOMAIN s.ops = 1 .. Len(s.ops)
      BY <2>1, SubmissionAssumption
    <3> QED BY <2>2, <3>1 DEF WaivedByAmendment
  <2>9. ProtectedCriteria'
    <3>1. ASSUME NEW id \in DOMAIN Contract0.criteria
          PROVE  LET c == Contract0.criteria[id] IN
                 /\ id \in DOMAIN contract'.criteria
                 /\ Invariant(c) => contract'.criteria[id] = c
                 /\ Ruled(c) => contract'.criteria[id] = c \/ ExceptionApplied(c.rule)'
      <4> DEFINE c == Contract0.criteria[id]
      <4>1. /\ id \in DOMAIN contract.criteria
            /\ Invariant(c) => contract.criteria[id] = c
            /\ Ruled(c) => contract.criteria[id] = c \/ ExceptionApplied(c.rule)
        BY DEF ProtectInv, ProtectedCriteria
      <4>2. /\ id \in DOMAIN contract'.criteria
            /\ Invariant(contract.criteria[id]) => contract'.criteria[id] = contract.criteria[id]
            /\ Ruled(contract.criteria[id]) =>
                 \/ contract'.criteria[id] = contract.criteria[id]
                 \/ s.actor.via = "policy_exception" /\ s.actor.exception = contract.criteria[id].rule
        BY <2>3, <4>1 DEF Kept
      <4> QED BY <2>5, <2>6, <4>1, <4>2
    <3> QED BY <2>4, <3>1 DEF ProtectedCriteria
  <2>10. ASSUME NEW id \in DOMAIN contract'.criteria
         PROVE  /\ DOMAIN contract'.criteria[id] = CriterionFields
                /\ Waived(contract'.criteria[id]) => WaivedByAmendment(id)'
    <3>1. /\ DOMAIN contract'.criteria[id] = CriterionFields
          /\ Waived(contract'.criteria[id]) =>
               \/ id \in DOMAIN contract.criteria /\ Waived(contract.criteria[id])
               \/ \E j \in 1 .. Len(s.ops) : s.ops[j].op = "waive" /\ s.ops[j].id = id
      BY <2>3 DEF Kept
    <3> QED BY <2>7, <2>8, <3>1 DEF ProtectInv
  <2> QED BY <2>9, <2>10 DEF ProtectInv
<1> QED BY <1>1, <1>2, ApplyingStep

(* Every step keeps the protection. *)
LEMMA ProtectNext == RaceInv /\ ProtectInv /\ [Next]_vars => ProtectInv'
<1> SUFFICES ASSUME RaceInv, ProtectInv, [Next]_vars PROVE ProtectInv'
  OBVIOUS
<1>1. CASE AdmitAmendment \/ AmendWaiting
  BY <1>1, ProtectApply
<1>2. CASE Quiet \/ ReadWait \/ ResolveInput \/ (\E c \in Clients : AmendContract(c)) \/ UNCHANGED vars
  <2>1. UNCHANGED <<contract, applied>>
    BY <1>2, QuietKeeps
       DEF run, vars, ReadWait, ResolveInput, AmendContract, ReadTask, PeekAndCheck,
                            ResolveAmendment
  <2> QED BY <2>1 DEF ProtectInv, ProtectedCriteria, ExceptionApplied, WaivedByAmendment
<1> QED BY <1>1, <1>2, StepKinds DEF Next, Handlers

(* No sequence of amendments touches a task-type invariant, or a REQUIRED  *)
(* operator rule without an applied exception naming it, and the contract  *)
(* in force is always valid: for every contract and every operations.      *)
THEOREM ProtectedCriteriaStand == Spec => []ProtectedCriteria
<1>1. ProtectInv => ProtectedCriteria
  BY DEF ProtectInv
<1> QED BY <1>1, ProtectInit, ProtectNext, RaceInvariance, PTL DEF Spec

-----------------------------------------------------------------------------
(* COMPLETED, read back from the verdicts.                                  *)

(* A legal completion has a passing verdict for every gating criterion. *)
LEMMA LegalMeans ==
    ASSUME NEW k, NEW e, NEW w \in BOOLEAN, Judgement(k, e, w) = "legal",
           NEW id \in DOMAIN k.criteria, Gating(k.criteria[id])
    PROVE  Assess(k, e)[id] \in Passing
<1>1. Legal(k, e, Assess(k, e), w)
  BY DEF Judgement
<1> QED BY <1>1 DEF Legal

(* A satisfied digest is the wanted content. *)
LEMMA DigestMeans ==
    ASSUME NEW v, NEW e
    PROVE  /\ DigestVerdict(v, e) \in {"pending", "satisfied", "failed"}
           /\ DigestVerdict(v, e) = "satisfied" => e.art[v.artifact] = [data |-> v.want]
BY DEF DigestVerdict

(* A satisfied human decision is the response retained for its request. *)
LEMMA HumanMeans ==
    ASSUME NEW v, NEW e, HumanVerdict(v, e) = "satisfied"
    PROVE  /\ v.request.id \in DOMAIN e.answers
           /\ e.art[v.artifact] = e.answers[v.request.id]
           /\ e.art[v.artifact] # NoRef
           /\ e.art[v.artifact].request = v.request
           /\ e.art[v.artifact].value \in v.accept
BY DEF HumanVerdict

(* A satisfied review is a human's decision, or a confident review of this *)
(* revision and evidence with no dependency failed.                        *)
LEMMA SemanticMeans ==
    ASSUME NEW k, NEW e, NEW id, SemanticVerdict(id, k, e) = "satisfied"
    PROVE  \/ HumanVerdict(k.criteria[id].verifier, e) = "satisfied"
           \/ /\ id \in DOMAIN e.reviews
              /\ e.reviews[id].revision = k.revision
              /\ e.reviews[id].digest = EvidenceDigest(e)
              /\ e.reviews[id].verdict = "satisfied" /\ e.reviews[id].high
              /\ \A d \in k.criteria[id].verifier.depends :
                   BaseVerdict(k.criteria[d], e) \in {"satisfied", "waived"}
<1> DEFINE v == k.criteria[id].verifier
           deps == {BaseVerdict(k.criteria[d], e) : d \in v.depends}
           review == RetainedReview(id, k, e)
<1>1. CASE HumanVerdict(v, e) = "satisfied"
  BY <1>1
<1>2. CASE HumanVerdict(v, e) # "satisfied"
  <2>1. /\ deps \ ReviewTerminal = {} /\ review # NoReview
        /\ review.verdict = "satisfied" /\ "failed" \notin deps /\ review.high
    BY <1>2 DEF SemanticVerdict
  <2>2. /\ id \in DOMAIN e.reviews /\ review = e.reviews[id]
        /\ e.reviews[id].revision = k.revision /\ e.reviews[id].digest = EvidenceDigest(e)
    BY <2>1 DEF RetainedReview
  <2>3. \A d \in v.depends : BaseVerdict(k.criteria[d], e) \in {"satisfied", "waived"}
    BY <2>1 DEF ReviewTerminal
  <2> HIDE DEF review
  <2> QED BY <2>1, <2>2, <2>3
<1> QED BY <1>1, <1>2

(* So a passing verdict is a waiver or evidence, in the state that has it. *)
LEMMA PassingIsMet ==
    ASSUME NEW id \in DOMAIN contract.criteria, contract' = contract, given' = given,
           Assess(contract, evidence')[id] \in Passing, ~Waived(contract.criteria[id]),
           \A q \in DOMAIN evidence'.answers : evidence'.answers[q] \in {NoRef} \cup given
    PROVE  Met(id)'
<1> DEFINE c == contract.criteria[id]
           v == c.verifier
           e == evidence'
<1>1. ASSUME HumanVerdict(v, e) = "satisfied"
      PROVE  HumanSaid(c)'
  <2>1. /\ v.request.id \in DOMAIN e.answers
        /\ e.art[v.artifact] = e.answers[v.request.id]
        /\ e.art[v.artifact] # NoRef
        /\ e.art[v.artifact].request = v.request
        /\ e.art[v.artifact].value \in v.accept
    BY <1>1, HumanMeans
  <2>2. e.art[v.artifact] \in given
    BY <2>1
  <2> QED BY <2>1, <2>2 DEF HumanSaid
<1>2. CASE v.kind = "semantic_review"
  <2>1. SemanticVerdict(id, contract, e) = "satisfied"
    <3>1. Assess(contract, e)[id] = SemanticVerdict(id, contract, e) /\ SemanticVerdict(id, contract, e) # "waived"
      BY <1>2 DEF Assess, SemanticVerdict
    <3> QED BY <3>1 DEF Passing
  <2>2. CASE HumanVerdict(v, e) = "satisfied"
    BY <1>1, <1>2, <2>2 DEF Met
  <2>3. CASE /\ id \in DOMAIN e.reviews
             /\ e.reviews[id].revision = contract.revision
             /\ e.reviews[id].digest = EvidenceDigest(e)
             /\ e.reviews[id].verdict = "satisfied" /\ e.reviews[id].high
             /\ \A d \in v.depends : BaseVerdict(contract.criteria[d], e) \in {"satisfied", "waived"}
    <3>1. ASSUME NEW d \in v.depends, contract.criteria[d].verifier.kind = "artifact_digest"
          PROVE  ContentMet(contract.criteria[d])'
      <4>1. DigestVerdict(contract.criteria[d].verifier, e) = "satisfied"
        BY <2>3, <3>1, DigestMeans DEF BaseVerdict
      <4> QED BY <4>1, DigestMeans DEF ContentMet
    <3>2. e.reviews[id].digest[1] = e.art
      BY <2>3 DEF EvidenceDigest
    <3>3. ReviewMet(id)'
      BY <2>3, <3>1, <3>2 DEF ReviewMet
    <3> QED BY <1>2, <3>3 DEF Met
  <2> QED BY <2>1, <2>2, <2>3, SemanticMeans
<1>3. CASE v.kind # "semantic_review"
  <2>1. BaseVerdict(c, e) = "satisfied"
    <3>1. Assess(contract, e)[id] = BaseVerdict(c, e)
      BY <1>3 DEF Assess
    <3>2. BaseVerdict(c, e) # "waived"
      BY DEF BaseVerdict, DigestVerdict, HumanVerdict, JournalVerdict
    <3> QED BY <3>1, <3>2 DEF Passing
  <2>2. CASE v.kind = "artifact_digest"
    BY <2>1, <2>2, DigestMeans DEF BaseVerdict, Met, ContentMet
  <2>3. CASE v.kind = "human_response"
    BY <1>1, <2>1, <2>3 DEF BaseVerdict, Met
  <2>4. CASE v.kind = "capability_journal"
    BY <2>1, <2>4 DEF BaseVerdict, JournalVerdict, Met
  <2>5. v.kind \in {"artifact_digest", "human_response", "capability_journal"}
    BY <1>3, <2>1 DEF BaseVerdict
  <2> QED BY <2>2, <2>3, <2>4, <2>5
<1> QED BY <1>2, <1>3

(* A completed Task stands, and was complete when it was settled. *)
CompleteInv ==
    lifecycle = "COMPLETED" =>
        /\ pc = "end"
        /\ \A id \in DOMAIN contract.criteria :
             Gating(contract.criteria[id]) => Waived(contract.criteria[id]) \/ Met(id)

(* Only a legal settlement completes, and nothing follows it. *)
LEMMA CompleteNext ==
    ASSUME RaceInv, WaitInv, AnswerInv, CompleteInv, [Next]_vars
    PROVE  CompleteInv'
<1>1. ASSUME NEW next, Settle(next), pc # "end"
      PROVE  CompleteInv'
  <2>1. UNCHANGED <<contract, given>>
    BY <1>1 DEF Settle, handlers
  <2>2. lifecycle # "COMPLETED"
    BY <1>1 DEF CompleteInv
  <2>3. \A q \in DOMAIN evidence'.answers : evidence'.answers[q] \in {NoRef} \cup given
    BY <1>1, SettleShape DEF AnswerInv
  <2>4. CASE Judgement(contract, evidence', HumanWait) = "legal" /\ pc' = "end"
    <3>1. HumanWait \in BOOLEAN
      BY DEF HumanWait
    <3>2. ASSUME NEW id \in DOMAIN contract.criteria, Gating(contract.criteria[id]),
                 ~Waived(contract.criteria[id])
          PROVE  Met(id)'
      <4>1. Assess(contract, evidence')[id] \in Passing
        BY <2>4, <3>1, <3>2, LegalMeans
      <4> QED BY <2>1, <2>3, <3>2, <4>1, PassingIsMet
    <3> QED BY <2>1, <2>4, <3>2 DEF CompleteInv
  <2>5. CASE lifecycle' # "COMPLETED"
    BY <2>5 DEF CompleteInv
  <2> QED BY <1>1, <2>2, <2>4, <2>5 DEF Settle
<1>2. CASE SettleAccepted \/ SettleAmended \/ SettleEffect \/ SettleWithdrawn
           \/ SettleWaiting \/ SettleOutcome
  BY <1>1, <1>2 DEF SettleAccepted, SettleAmended, SettleEffect, SettleWithdrawn,
     SettleWaiting, SettleOutcome
<1>3. CASE \/ BeginTurn \/ TurnLimit \/ NoAmendment \/ UseForbiddenClass \/ NoEffect
           \/ BeginHumanWait \/ BeginTextWait \/ ReceiveInput \/ AdmitAmendment \/ AmendWaiting
           \/ \E a \in Artifacts, d \in Contents : WriteArtifact(a, d)
           \/ \E b \in HumanBindings(contract.criteria) : AskHuman(b) \/ WaitHuman(b)
  <2>1. pc # "end" /\ (lifecycle' = lifecycle \/ lifecycle' \in {"RUNNING", "WAITING", "FAILED"})
    BY <1>3 DEF BeginTurn, TurnLimit, NoAmendment, UseForbiddenClass, NoEffect, BeginHumanWait,
                BeginTextWait, ReceiveInput, AdmitAmendment, AmendWaiting, WriteArtifact, AskHuman, WaitHuman
  <2> QED BY <2>1 DEF CompleteInv
<1>4. CASE ReadWait \/ ResolveInput \/ (\E c \in Clients : AmendContract(c)) \/ UNCHANGED vars
  <2>1. /\ UNCHANGED <<pc, contract, lifecycle, evidence>>
        /\ given' = given \/ lifecycle = "WAITING"
    BY <1>4 DEF ReadWait, ResolveInput, AmendContract, ReadTask, PeekAndCheck, ResolveAmendment,
                vars, run, handlers
  <2>2. CASE given' = given
    <3>1. \A c : (ContentMet(c)' <=> ContentMet(c)) /\ (HumanSaid(c)' <=> HumanSaid(c))
      BY <2>1, <2>2 DEF ContentMet, HumanSaid
    <3>2. \A id : ReviewMet(id)' <=> ReviewMet(id)
      BY <2>1, <3>1 DEF ReviewMet
    <3>3. \A id : Met(id) => Met(id)'
      BY <2>1, <3>1, <3>2 DEF Met
    <3> QED BY <2>1, <3>3 DEF CompleteInv
  <2>3. CASE lifecycle = "WAITING"
    BY <2>1, <2>3 DEF CompleteInv
  <2> QED BY <2>1, <2>2, <2>3
<1> QED BY <1>2, <1>3, <1>4 DEF Next, Step, Handlers

(* COMPLETED is demonstrated, whatever the contract, its amendments, the   *)
(* evidence, the humans and the reviewer do: every gating criterion of the *)
(* revision in force was waived by an applied amendment or is met.         *)
THEOREM CompletionIsDemonstrated == Spec => []CompletedIsDemonstrated
<1>1. Init => CompleteInv
  BY DEF Init, CompleteInv
<1>2. WaitInv /\ ProtectInv /\ CompleteInv => CompletedIsDemonstrated
  BY DEF WaitInv, ProtectInv, CompleteInv, CompletedIsDemonstrated
<1> QED BY <1>1, <1>2, CompleteNext, ProtectInit, ProtectNext, JudgementInvariance, PTL DEF Spec

-----------------------------------------------------------------------------
(* The run is somewhere in its loop, and the Task in a lifecycle state. *)
PlaceInv ==
    /\ pc \in {"accepted", "boundary", "admit", "amended", "decide", "effect", "ask", "wait",
               "still_waiting", "withdrawn", "outcome", "end"}
    /\ lifecycle \in {"RUNNING", "WAITING", "COMPLETED", "FAILED"}

(* Every step leads to one of them. *)
LEMMA PlaceNext == PlaceInv /\ [Next]_vars => PlaceInv'
<1> SUFFICES ASSUME PlaceInv, [Next]_vars PROVE PlaceInv'
  OBVIOUS
<1> USE DEF PlaceInv
<1>1. CASE SettleAccepted \/ SettleAmended \/ SettleEffect \/ SettleWithdrawn
           \/ SettleWaiting \/ SettleOutcome
  BY <1>1 DEF SettleAccepted, SettleAmended, SettleEffect, SettleWithdrawn, SettleWaiting,
     SettleOutcome, Settle
<1>2. CASE \/ BeginTurn \/ TurnLimit \/ NoAmendment \/ UseForbiddenClass \/ NoEffect
           \/ BeginHumanWait \/ BeginTextWait \/ ReceiveInput \/ AdmitAmendment \/ AmendWaiting
           \/ \E a \in Artifacts, d \in Contents : WriteArtifact(a, d)
           \/ \E b \in HumanBindings(contract.criteria) : AskHuman(b) \/ WaitHuman(b)
  BY <1>2 DEF BeginTurn, TurnLimit, NoAmendment, UseForbiddenClass, NoEffect, BeginHumanWait,
              BeginTextWait, ReceiveInput, AdmitAmendment, AmendWaiting, WriteArtifact, AskHuman, WaitHuman
<1>3. CASE ReadWait \/ ResolveInput \/ (\E c \in Clients : AmendContract(c)) \/ UNCHANGED vars
  BY <1>3 DEF ReadWait, ResolveInput, AmendContract, ReadTask, PeekAndCheck, ResolveAmendment,
     vars, run
<1> QED BY <1>1, <1>2, <1>3 DEF Next, Step, Handlers

(* The published TaskState has its shape: a wait is open exactly while the *)
(* Task is WAITING, the revision counts the applied amendments, and every  *)
(* accepted answer is one a human gave.                                    *)
THEOREM ContractTypes == Spec => []TypeOK
<1>1. Init => PlaceInv
  BY DEF Init, PlaceInv
<1>2. PlaceInv /\ RejectInv /\ RaceInv /\ WaitInv /\ AnswerInv => TypeOK
  BY TurnsAssumption DEF PlaceInv, RejectInv, RaceInv, WaitInv, AnswerInv, TypeOK, Revisions
<1> QED BY <1>1, <1>2, PlaceNext, JudgementInvariance, PTL DEF Spec

=============================================================================
