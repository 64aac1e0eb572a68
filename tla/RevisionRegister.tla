-------------------------- MODULE RevisionRegister --------------------------
(***************************************************************************)
(* What amend_contract and the Task that applies amendments promise        *)
(* together: a compare-and-set register of contract revisions.  Revision r *)
(* is decided once, by one submission; the decided submissions are applied *)
(* in order, each at most once; and a caller is told which of the two      *)
(* happened to its submission.                                             *)
(***************************************************************************)
EXTENDS Naturals, Sequences

CONSTANTS Clients, Submissions, Revisions, Undecided

VARIABLES
    wants,      \* wants[c]: what client c submits, Undecided before it calls
    decided,    \* decided[r]: the submission that won revision r, or Undecided
    applied,    \* the submissions applied so far, in order
    receipt     \* receipt[c]: the answer client c holds

vars == <<wants, decided, applied, receipt>>

Target(s) == s.from + 1

Init ==
    /\ wants = [c \in Clients |-> Undecided]
    /\ decided = [r \in Revisions |-> Undecided]
    /\ applied = <<>>
    /\ receipt = [c \in Clients |-> "none"]

Call(c, s) ==
    /\ wants[c] = Undecided
    /\ wants' = [wants EXCEPT ![c] = s]
    /\ UNCHANGED <<decided, applied, receipt>>

(* The first submission for a revision wins it. *)
Submit(c) ==
    /\ wants[c] # Undecided /\ receipt[c] = "none"
    /\ decided[Target(wants[c])] = Undecided
    /\ decided' = [decided EXCEPT ![Target(wants[c])] = wants[c]]
    /\ receipt' = [receipt EXCEPT ![c] = "SUBMITTED"]
    /\ UNCHANGED <<wants, applied>>

(* A repetition of the winner is recognised. *)
Repeat(c) ==
    /\ wants[c] # Undecided /\ receipt[c] = "none"
    /\ decided[Target(wants[c])] = wants[c]
    /\ receipt' = [receipt EXCEPT ![c] = "ALREADY_SUBMITTED"]
    /\ UNCHANGED <<wants, decided, applied>>

(* Anything else is refused, for its authority or because it lost. *)
Refuse(c) ==
    /\ wants[c] # Undecided /\ receipt[c] = "none"
    /\ decided[Target(wants[c])] # wants[c]
    /\ receipt' = [receipt EXCEPT ![c] = "refused"]
    /\ UNCHANGED <<wants, decided, applied>>

(* The next revision is the decided one, in order. *)
Apply ==
    /\ Len(applied) + 1 \in Revisions
    /\ decided[Len(applied) + 1] # Undecided
    /\ applied' = Append(applied, decided[Len(applied) + 1])
    /\ UNCHANGED <<wants, decided, receipt>>

Next ==
    \/ \E c \in Clients :
         \/ \E s \in Submissions : Call(c, s)
         \/ Submit(c) \/ Repeat(c) \/ Refuse(c)
    \/ Apply

Spec == Init /\ [][Next]_vars
=============================================================================
