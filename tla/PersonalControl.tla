--------------------------- MODULE PersonalControl ---------------------------
(***************************************************************************)
(* The user's controls over one Task: the ACP commands                     *)
(* (src/runtime/personal_acp.py), the Personal Agent that turns them into  *)
(* calls of the Restate ingress (src/runtime/personal_agent.py), and the   *)
(* workflow's shared handlers behind it (src/runtime/kernel/control.py and *)
(* workflow.py), of which two or more may run at the same time.            *)
(*                                                                         *)
(* One request_id, and so one Task key.  A TaskRequest is its digest, a    *)
(* pending HumanDecisionRequest, text wait or workspace read a number (the *)
(* revision and digest, the wait_id or the operation_id a response has to  *)
(* repeat), which a later wait may repeat, and a response is its sender    *)
(* and the request it is for.  The guarantees are those within the         *)
(* workflow's retention.                                                   *)
(***************************************************************************)
EXTENDS Integers, Sequences, FiniteSets

CONSTANTS
    Clients,    \* prompts that may overlap, of one or of several sessions
    Inputs,     \* TaskRequests that create accepts
    Refused,    \* those that run refuses at intake
    MaxWaits,   \* waits of the Task in this instance
    MaxLost     \* calls whose answer does not arrive

NoInput == "none"
ASSUME ControlAssumption ==
    /\ IsFiniteSet(Clients) /\ NoInput \notin Inputs /\ Refused \subseteq Inputs
    /\ MaxWaits \in Nat /\ MaxLost \in Nat

VARIABLES
    invocation, \* the input of the key's main invocation
    life,       \* the published lifecycle, or UNAVAILABLE
    digest,     \* the published request_digest
    waits,      \* the requests waited for so far; the last one is current while WAITING
    promise,    \* what the one-shot promise of a wait holds
    cancelled,  \* cancel_invocation was called
    input,      \* the input a client creates with: the caller retains it
    pc,         \* where a client's command stands
    view,       \* the request its response is for
    slot,       \* the wait whose promise its handler read
    told,       \* what its last create said
    receipts,   \* the waits for which its response was reported ACCEPTED
    lost        \* answers lost so far

task == <<invocation, life, digest, waits, promise, cancelled>>
client == <<input, pc, view, slot, told, receipts>>
vars == <<task, client, lost>>

Terminal == {"COMPLETED", "FAILED", "CANCELLED"}
NoResponse == [by |-> "nobody", for |-> 0]
Responses == [by : Clients, for : 1 .. MaxWaits] \cup {NoResponse}

TypeOK ==
    /\ invocation \in Inputs \cup {NoInput} /\ digest \in Inputs \cup {NoInput}
    /\ life \in {"UNAVAILABLE", "RUNNING", "WAITING"} \cup Terminal
    /\ waits \in Seq(1 .. MaxWaits) /\ Len(waits) <= MaxWaits
    /\ promise \in [1 .. MaxWaits -> Responses] /\ cancelled \in BOOLEAN
    /\ input \in [Clients -> Inputs]
    /\ pc \in [Clients -> {"idle", "send", "submit", "resolve"}]
    /\ view \in [Clients -> 0 .. MaxWaits] /\ slot \in [Clients -> 0 .. MaxWaits]
    /\ told \in [Clients -> {"nothing", "SUBMITTED", "UNCERTAIN", "EXISTING", "DIFFERENT"}]
    /\ receipts \in [Clients -> SUBSET (1 .. MaxWaits)] /\ lost \in 0 .. MaxLost

Init ==
    /\ invocation = NoInput /\ life = "UNAVAILABLE" /\ digest = NoInput /\ waits = << >>
    /\ promise = [n \in 1 .. MaxWaits |-> NoResponse] /\ cancelled = FALSE
    /\ input \in [Clients -> Inputs] /\ pc = [c \in Clients |-> "idle"]
    /\ view = [c \in Clients |-> 0] /\ slot = [c \in Clients |-> 0]
    /\ told = [c \in Clients |-> "nothing"] /\ receipts = [c \in Clients |-> {}] /\ lost = 0

(* The pending request. *)
Pending == waits[Len(waits)]

(* A command ends: an answer, an error or a rejection becomes the chat's     *)
(* message, and the session goes on.                                         *)
Ends(c) ==
    /\ pc' = [pc EXCEPT ![c] = "idle"] /\ view' = [view EXCEPT ![c] = 0]
    /\ slot' = [slot EXCEPT ![c] = 0]

(* The answer of a call does not arrive within its timeout. *)
Lose == lost < MaxLost /\ lost' = lost + 1

-----------------------------------------------------------------------------
(* create. *)

(* Mutant of Inspected: what exists is the caller's own. *)
InspectedUnread(c) == IF life = "UNAVAILABLE" THEN told[c] ELSE "EXISTING"

(* Mutant of Inspected: a Task that ended is not reported. *)
InspectedWhileLive(c) ==
    CASE life \in Terminal \cup {"UNAVAILABLE"} -> told[c]
      [] life \in {"RUNNING", "WAITING"} /\ digest = input[c] -> "EXISTING"
      [] OTHER -> "DIFFERENT"

(* What inspect says of the request identity. *)
Inspected(c) ==
    CASE life = "UNAVAILABLE" -> told[c]
      [] life # "UNAVAILABLE" /\ digest = input[c] -> "EXISTING"
      [] OTHER -> "DIFFERENT"

(* inspect first: an initialized Task is reported or refused, and nothing is *)
(* submitted.                                                                *)
Create(c) ==
    /\ pc[c] = "idle" /\ told' = [told EXCEPT ![c] = Inspected(c)]
    /\ pc' = [pc EXCEPT ![c] = IF life = "UNAVAILABLE" THEN "send" ELSE "idle"]
    /\ UNCHANGED <<task, input, view, slot, receipts, lost>>

(* run/send: the key takes one main invocation.  A lost call may have        *)
(* arrived or not, and the caller is told to retry.                          *)
Send(c) ==
    /\ pc[c] = "send" /\ Ends(c)
    /\ LET taken == IF invocation = NoInput THEN input[c] ELSE invocation IN
       \/ /\ invocation' = taken /\ told' = [told EXCEPT ![c] = "SUBMITTED"] /\ UNCHANGED lost
       \/ /\ Lose /\ invocation' \in {taken, invocation}
          /\ told' = [told EXCEPT ![c] = "UNCERTAIN"]
    /\ UNCHANGED <<life, digest, waits, promise, cancelled, input, receipts>>

-----------------------------------------------------------------------------
(* respond and fulfill. *)

(* respond <task>: <value> and fulfill <task> name no request: the command   *)
(* takes the one inspect shows as pending, a human's or a file read.         *)
Command(c) ==
    /\ pc[c] = "idle" /\ life = "WAITING"
    /\ view' = [view EXCEPT ![c] = Pending] /\ pc' = [pc EXCEPT ![c] = "submit"]
    /\ UNCHANGED <<task, input, slot, told, receipts, lost>>

(* task <JSON>: a response the caller typed for any request it ever saw. *)
Typed(c) ==
    /\ pc[c] = "idle" /\ \E n \in 1 .. Len(waits) : view' = [view EXCEPT ![c] = waits[n]]
    /\ pc' = [pc EXCEPT ![c] = "submit"]
    /\ UNCHANGED <<task, input, slot, told, receipts, lost>>

(* validate_response and validate_read_result: the response is for the       *)
(* pending request.                                                          *)
Matches(c) == view[c] = Pending

(* submit_input, submit_human_response and submit_workspace_result read the  *)
(* Task first,                                                               *)
SubmitChecks(c) ==
    /\ pc[c] = "submit"
    /\ IF life = "WAITING" /\ Matches(c)
       THEN /\ slot' = [slot EXCEPT ![c] = Len(waits)] /\ pc' = [pc EXCEPT ![c] = "resolve"]
            /\ UNCHANGED view
       ELSE Ends(c)
    /\ UNCHANGED <<task, input, told, receipts, lost>>

Response(c) == [by |-> c, for |-> view[c]]

(* Mutant of Resolve: the later response replaces the earlier one. *)
ResolveAgain(c) ==
    /\ pc[c] = "resolve" /\ Ends(c)
    /\ promise' = [promise EXCEPT ![slot[c]] = Response(c)]
    /\ receipts' = [receipts EXCEPT ![c] = @ \cup {slot[c]}]
    /\ UNCHANGED <<invocation, life, digest, waits, cancelled, input, told, lost>>

(* and resolve its promise after it, which works once.  The receipt may be   *)
(* lost.                                                                     *)
Resolve(c) ==
    /\ pc[c] = "resolve" /\ Ends(c)
    /\ \/ /\ promise[slot[c]] = NoResponse /\ promise' = [promise EXCEPT ![slot[c]] = Response(c)]
          /\ \/ receipts' = [receipts EXCEPT ![c] = @ \cup {slot[c]}] /\ UNCHANGED lost
             \/ Lose /\ UNCHANGED receipts
       \/ promise[slot[c]] # NoResponse /\ UNCHANGED <<promise, receipts, lost>>
    /\ UNCHANGED <<invocation, life, digest, waits, cancelled, input, told>>

(* cancel: the stored invocation is cancelled unless the Task is terminal. *)
Cancel(c) ==
    /\ pc[c] = "idle" /\ life \in {"RUNNING", "WAITING"} /\ cancelled' = TRUE
    /\ UNCHANGED <<invocation, life, digest, waits, promise, client, lost>>

-----------------------------------------------------------------------------
(* The workflow behind the controls. *)

(* run publishes the Task and the digest of the input it was invoked with.   *)
(* A contract or a profile it refuses ends the invocation and publishes      *)
(* nothing, while the key stays taken.                                       *)
Starts ==
    /\ invocation \in Inputs \ Refused /\ life = "UNAVAILABLE"
    /\ life' = "RUNNING" /\ digest' = invocation
    /\ UNCHANGED <<invocation, waits, promise, cancelled, client, lost>>

(* WAIT, human.request and workspace.read wait on a promise of their own,    *)
(* for a new request or again for an earlier one.                            *)
Asks ==
    /\ life = "RUNNING" /\ Len(waits) < MaxWaits /\ life' = "WAITING"
    /\ \E n \in 1 .. Len(waits) + 1 : waits' = Append(waits, n)
    /\ UNCHANGED <<invocation, digest, promise, cancelled, client, lost>>

(* The wait ends with its response.  An amendment may also withdraw it, and  *)
(* a response given to it then is nobody's.                                  *)
Consumes ==
    /\ life = "WAITING" /\ promise[Len(waits)] # NoResponse /\ life' = "RUNNING"
    /\ UNCHANGED <<invocation, digest, waits, promise, cancelled, client, lost>>

Withdraws ==
    /\ life = "WAITING" /\ life' = "RUNNING"
    /\ UNCHANGED <<invocation, digest, waits, promise, cancelled, client, lost>>

(* The Task ends by itself, or at an await by its cancellation. *)
Finishes ==
    /\ \/ life = "RUNNING" /\ life' \in {"COMPLETED", "FAILED"}
       \/ life \in {"RUNNING", "WAITING"} /\ cancelled /\ life' = "CANCELLED"
    /\ UNCHANGED <<invocation, digest, waits, promise, cancelled, client, lost>>

-----------------------------------------------------------------------------
Calls(c) == Send(c) \/ SubmitChecks(c) \/ Resolve(c)
Next ==
    \/ Starts \/ Asks \/ Consumes \/ Withdraws \/ Finishes
    \/ \E c \in Clients : Create(c) \/ Command(c) \/ Typed(c) \/ Cancel(c) \/ Calls(c)

Spec == Init /\ [][Next]_vars

(* Calls are answered or time out, Restate starts what it accepted, and a    *)
(* client that does not know its Task retries, as it is told to.             *)
FairSpec ==
    /\ Spec /\ WF_vars(Starts)
    /\ \A c \in Clients :
         /\ WF_vars(Calls(c))
         /\ SF_vars(told[c] \in {"SUBMITTED", "UNCERTAIN"} /\ Create(c))

-----------------------------------------------------------------------------
(* EXISTING is said of the caller's own request only, though the inspections *)
(* and submissions of several creates overlap and the key is taken once.     *)
ExistingIsMine ==
    \A c \in Clients : told[c] = "EXISTING" => invocation = input[c]

(* What a wait is given is a response to that very request, although every   *)
(* client responds to what an earlier inspection showed, and the handlers    *)
(* resolve a promise they read before; and a response reported ACCEPTED is   *)
(* the one its wait was given: two clients are never both told that their    *)
(* answer counts (validate_response, validate_read_result, the one-shot      *)
(* promises).                                                                *)
AcceptedIsTheAnswer ==
    /\ \A n \in 1 .. MaxWaits : promise[n] # NoResponse => promise[n].for = waits[n]
    /\ \A c \in Clients : \A n \in receipts[c] : promise[n].by = c

(* A client that retries an uncertain or unconfirmed submission learns       *)
(* whether the Task is its own (the digest inspect publishes), unless run    *)
(* refused the input that took the key: then every retry is SUBMITTED again. *)
SubmissionIsSettled ==
    \A c \in Clients :
      told[c] \in {"SUBMITTED", "UNCERTAIN"} ~>
        (told[c] \in {"EXISTING", "DIFFERENT"} \/ invocation \in Refused)
=============================================================================
