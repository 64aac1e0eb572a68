---------------------------- MODULE HubSessions ----------------------------
(***************************************************************************)
(* The hub's transport edge: admission, handshake, slots and keep-alive of *)
(* its sessions (src/client/internal/direct/server.go), the workstation    *)
(* registry behind them (src/client/internal/workstation/store.go), the    *)
(* hub process that owns both (src/client/cmd/blaine-hub-transport), and   *)
(* the receipt a client keeps (direct/profile.go).                         *)
(*                                                                         *)
(* A session is one connection attempt.  Keys, nonces and signatures are   *)
(* whether they verify; a workstation id is a number the registry assigns  *)
(* once.  The lease of 45 seconds outlasts a keep-alive period of 15 and   *)
(* its bound of 5 seconds, so a row expires only once its session is gone. *)
(***************************************************************************)
EXTENDS Naturals, FiniteSets

CONSTANTS
    Sessions,   \* connection attempts
    Nodes,      \* tailnet nodes
    NodeOf,     \* the node a session comes from
    Acp,        \* the sessions in mode "acp"; the others end by themselves
    Capacity,   \* Slots
    MaxHubs     \* starts of the hub process in this instance

ASSUME HubAssumption ==
    /\ IsFiniteSet(Sessions) /\ IsFiniteSet(Nodes) /\ NodeOf \in [Sessions -> Nodes]
    /\ Acp \subseteq Sessions /\ Capacity \in Nat \ {0} /\ MaxHubs \in Nat

VARIABLES
    hub,        \* the running hub's instance_id, or 0
    started,    \* hubs started so far
    owner,      \* the instance whose database session holds the advisory lock, or 0
    slots,      \* tokens in Host.Slots
    phase,      \* where ServeHTTP stands for a session
    peer,       \* what Peer now answers for a session: "same", "changed" or "none"
    ready,      \* the readiness in a session's challenge passed
    proved,     \* a session's proof verified
    row,        \* the connection table: [live, instance], or NoRow
    workstation,\* the workstation table: a node's id, or 0
    receipt     \* a client's registration.json, by node, or 0

vars == <<hub, started, owner, slots, phase, peer, ready, proved, row, workstation, receipt>>

NoRow == [live |-> FALSE, instance |-> 0]
Handshake == {"hello", "challenge", "proof", "ack"}
Serving == {"serving", "closing"}
InFlight == {"peer", "leaving"} \cup Handshake \cup Serving

TypeOK ==
    /\ hub \in 0 .. MaxHubs /\ started \in 0 .. MaxHubs /\ owner \in 0 .. MaxHubs
    /\ slots \in 0 .. Capacity
    /\ phase \in [Sessions -> {"new", "refused", "done"} \cup InFlight]
    /\ peer \in [Sessions -> {"same", "changed", "none"}]
    /\ ready \in [Sessions -> BOOLEAN] /\ proved \in [Sessions -> BOOLEAN]
    /\ row \in [Sessions -> [live : BOOLEAN, instance : 0 .. MaxHubs]]
    /\ workstation \in [Nodes -> 0 .. Cardinality(Nodes)]
    /\ receipt \in [Nodes -> 0 .. Cardinality(Nodes)]

Init ==
    /\ hub = 0 /\ started = 0 /\ owner = 0 /\ slots = 0
    /\ phase = [s \in Sessions |-> "new"] /\ peer = [s \in Sessions |-> "same"]
    /\ ready = [s \in Sessions |-> FALSE] /\ proved = [s \in Sessions |-> FALSE]
    /\ row = [s \in Sessions |-> NoRow]
    /\ workstation = [n \in Nodes |-> 0] /\ receipt = [n \in Nodes |-> 0]

-----------------------------------------------------------------------------
(* The registry. *)

(* The connection of the running hub still works and holds the lock. *)
Registry == hub # 0 /\ owner = hub

(* Open as the writer: the advisory lock, a new instance id and an empty     *)
(* connection table.                                                         *)
OpenRegistry ==
    /\ owner = 0 /\ started < MaxHubs /\ started' = started + 1
    /\ owner' = started' /\ row' = [s \in Sessions |-> NoRow]

(* The id of a new node; a known node keeps the id it has. *)
Upserted(n) ==
    IF workstation[n] # 0 THEN workstation[n]
    ELSE Cardinality({k \in Nodes : workstation[k] # 0}) + 1

(* Mutant of Upsert: every connection gets a new id. *)
UpsertAnew(s) ==
    /\ workstation' = [workstation EXCEPT ![NodeOf[s]] =
                         Cardinality({k \in Nodes : workstation[k] # 0}) + 1]
    /\ row' = [row EXCEPT ![s] = [live |-> TRUE, instance |-> hub]]

(* The transaction of Connect. *)
Upsert(s) ==
    /\ workstation' = [workstation EXCEPT ![NodeOf[s]] = Upserted(NodeOf[s])]
    /\ row' = [row EXCEPT ![s] = [live |-> TRUE, instance |-> hub]]

(* Mutant of Deleted: the rows of the workstation, not of the session. *)
DeletedOfWorkstation(s) ==
    [k \in Sessions |-> IF NodeOf[k] = NodeOf[s] /\ row[k].instance = hub THEN NoRow ELSE row[k]]

(* The statement of Disconnect. *)
Deleted(s) == IF row[s].instance = hub THEN [row EXCEPT ![s] = NoRow] ELSE row

-----------------------------------------------------------------------------
(* The hub process. *)

HubStarts ==
    /\ hub = 0 /\ OpenRegistry /\ hub' = started'
    /\ slots' = 0
    /\ UNCHANGED <<phase, peer, ready, proved, workstation, receipt>>

(* The sessions gone end with what they knew; a row they leave behind keeps  *)
(* what was established for it.                                              *)
Forget(gone) ==
    /\ phase' = [s \in Sessions |-> IF s \in gone THEN "done" ELSE phase[s]]
    /\ peer' = [s \in Sessions |-> IF s \in gone THEN "same" ELSE peer[s]]
    /\ ready' = [s \in Sessions |-> ready[s] /\ (s \in gone => row[s].live)]
    /\ proved' = [s \in Sessions |-> proved[s] /\ (s \in gone => row[s].live)]

(* Every session of a process that is gone. *)
Ended == Forget({s \in Sessions : phase[s] \in InFlight})

(* A signal: the server and its sessions are closed and the registry deletes *)
(* the rows of its instance.                                                 *)
HubStops ==
    /\ hub # 0 /\ hub' = 0
    /\ Ended /\ slots' = 0
    /\ IF Registry
       THEN owner' = 0 /\ row' = [s \in Sessions |->
                                   IF row[s].instance = hub THEN NoRow ELSE row[s]]
       ELSE UNCHANGED <<owner, row>>
    /\ UNCHANGED <<started, workstation, receipt>>

(* A crash leaves the rows, and the lock until the database sees it. *)
HubCrashes ==
    /\ hub # 0 /\ hub' = 0
    /\ Ended /\ slots' = 0
    /\ UNCHANGED <<started, owner, row, workstation, receipt>>

(* The database ends a session whose client is gone, or loses a living one.  *)
(* The hub opens no second connection.                                       *)
DatabaseSessionEnds ==
    /\ owner # 0 /\ owner' = 0
    /\ UNCHANGED <<hub, started, slots, phase, peer, ready, proved, row, workstation, receipt>>

(* A second edge that can take the lock clears the table before it finds the *)
(* address in use.                                                           *)
SecondEdge ==
    /\ hub # 0 /\ OpenRegistry
    /\ UNCHANGED <<hub, slots, phase, peer, ready, proved, workstation, receipt>>

(* It then closes its registry. *)
SecondEdgeLeaves ==
    /\ hub # 0 /\ owner \notin {0, hub} /\ owner' = 0
    /\ UNCHANGED <<hub, started, slots, phase, peer, ready, proved, row, workstation, receipt>>

-----------------------------------------------------------------------------
(* ServeHTTP and ServerHandshake. *)

(* A request takes a slot without waiting, or is refused. *)
Arrive(s) ==
    /\ hub # 0 /\ phase[s] = "new"
    /\ IF slots < Capacity
       THEN slots' = slots + 1 /\ phase' = [phase EXCEPT ![s] = "peer"]
       ELSE slots' = slots /\ phase' = [phase EXCEPT ![s] = "refused"]
    /\ UNCHANGED <<hub, started, owner, peer, ready, proved, row, workstation, receipt>>

Goto(s, p) == phase' = [phase EXCEPT ![s] = p]

(* Peer from the socket, then the websocket with its subprotocol. *)
AdmitPeer(s) ==
    /\ phase[s] = "peer"
    /\ \/ peer[s] = "same" /\ Goto(s, "hello")
       \/ Goto(s, "leaving")
    /\ UNCHANGED <<hub, started, owner, slots, peer, ready, proved, row, workstation, receipt>>

(* A valid Hello gets a signed challenge with the readiness of the moment;   *)
(* a dependency that is not ready ends the handshake.                        *)
Challenge(s) ==
    /\ phase[s] = "hello"
    /\ \E r \in BOOLEAN :
         /\ ready' = [ready EXCEPT ![s] = r]
         /\ Goto(s, IF r THEN "challenge" ELSE "leaving")
    /\ UNCHANGED <<hub, started, owner, slots, peer, proved, row, workstation, receipt>>

(* The client's proof of its key over the transcript. *)
VerifyProof(s) ==
    /\ phase[s] = "challenge"
    /\ \E v \in BOOLEAN : proved' = [proved EXCEPT ![s] = v]
    /\ Goto(s, IF proved'[s] THEN "proof" ELSE "leaving")
    /\ UNCHANGED <<hub, started, owner, slots, peer, ready, row, workstation, receipt>>

(* Register: the registry commits and answers, fails, or commits without the *)
(* hub learning of it; an interrupted statement also ends the connection.    *)
Register(s) ==
    /\ phase[s] = "proof"
    /\ \/ Registry /\ Upsert(s) /\ Goto(s, "ack") /\ owner' = owner
       \/ Goto(s, "leaving") /\ UNCHANGED <<row, workstation, owner>>
       \/ Registry /\ Upsert(s) /\ Goto(s, "leaving") /\ owner' = 0
    /\ UNCHANGED <<hub, started, slots, peer, ready, proved, receipt>>

(* The client verifies the signed receipt and records it, unless it holds a  *)
(* different one (validateReady, saveRegistration).                          *)
Received(s, id) ==
    receipt' = [receipt EXCEPT ![NodeOf[s]] = IF @ = 0 THEN id ELSE @]

(* Ready is written, and serving starts; or the write fails and the session  *)
(* is disconnected.                                                          *)
Acknowledge(s) ==
    /\ phase[s] = "ack"
    /\ \/ Goto(s, "serving") /\ Received(s, workstation[NodeOf[s]])
       \/ Goto(s, "closing") /\ UNCHANGED receipt
    /\ UNCHANGED <<hub, started, owner, slots, peer, ready, proved, row, workstation>>

(* The ten seconds of a handshake: the client does not answer. *)
HandshakeTimeout(s) ==
    /\ phase[s] \in {"hello", "challenge"} /\ Goto(s, "leaving")
    /\ UNCHANGED <<hub, started, owner, slots, peer, ready, proved, row, workstation, receipt>>

(* Mutant of KeepAlive: a failed touch is ignored. *)
KeepAliveRegardless(s) ==
    /\ phase[s] = "serving" /\ s \in Acp
    /\ \/ peer[s] = "same" /\ Registry /\ row[s].instance = hub
          /\ row' = [row EXCEPT ![s].live = TRUE] /\ phase' = phase
       \/ peer[s] # "same" /\ Goto(s, "closing") /\ UNCHANGED row
    /\ UNCHANGED <<hub, started, owner, slots, peer, ready, proved, workstation, receipt>>

(* The ticker: the same peer, a ping, and Touch; otherwise the session is    *)
(* cancelled.                                                                *)
KeepAlive(s) ==
    /\ phase[s] = "serving" /\ s \in Acp
    /\ \/ peer[s] = "same" /\ Registry /\ row[s].instance = hub
          /\ row' = [row EXCEPT ![s].live = TRUE] /\ phase' = phase
       \/ ~(peer[s] = "same" /\ Registry /\ row[s].instance = hub)
          /\ Goto(s, "closing") /\ UNCHANGED row
    /\ UNCHANGED <<hub, started, owner, slots, peer, ready, proved, workstation, receipt>>

(* The session ends: its work, its client, a failed ping or its deadline. *)
SessionEnds(s) ==
    /\ phase[s] = "serving" /\ Goto(s, "closing")
    /\ UNCHANGED <<hub, started, owner, slots, peer, ready, proved, row, workstation, receipt>>

(* The deferred disconnected: the row is deleted, or the error is ignored.   *)
(* A statement cut off after three seconds ends the connection.              *)
Disconnect(s) ==
    /\ phase[s] = "closing" /\ Goto(s, "leaving")
    /\ \/ Registry /\ row' = Deleted(s) /\ owner' = owner
       \/ Registry /\ row' \in {row, Deleted(s)} /\ owner' = 0
       \/ ~Registry /\ UNCHANGED <<row, owner>>
    /\ UNCHANGED <<hub, started, slots, peer, ready, proved, workstation, receipt>>

(* The deferred release of the slot. *)
Leave(s) ==
    /\ phase[s] = "leaving" /\ Forget({s})
    /\ slots' = slots - 1
    /\ UNCHANGED <<hub, started, owner, row, workstation, receipt>>

-----------------------------------------------------------------------------
(* The environment: the tailnet and the clock. *)

PeerChanges(s) ==
    /\ phase[s] \in InFlight /\ peer[s] = "same"
    /\ peer' \in {[peer EXCEPT ![s] = "changed"], [peer EXCEPT ![s] = "none"]}
    /\ UNCHANGED <<hub, started, owner, slots, phase, ready, proved, row, workstation, receipt>>

(* expires_at passes for a row that nothing touches. *)
LeaseExpires(s) ==
    /\ row[s].live /\ phase[s] \notin Handshake \cup Serving
    /\ row' = [row EXCEPT ![s].live = FALSE]
    /\ UNCHANGED <<hub, started, owner, slots, phase, peer, ready, proved, workstation, receipt>>

-----------------------------------------------------------------------------
Step(s) ==
    \/ AdmitPeer(s) \/ Challenge(s) \/ VerifyProof(s) \/ Register(s) \/ Acknowledge(s)
    \/ HandshakeTimeout(s) \/ (s \notin Acp /\ SessionEnds(s)) \/ Disconnect(s) \/ Leave(s)

Next ==
    \/ HubStarts \/ HubStops \/ HubCrashes \/ DatabaseSessionEnds
    \/ SecondEdge \/ SecondEdgeLeaves
    \/ \E s \in Sessions :
         \/ Arrive(s) \/ AdmitPeer(s) \/ Challenge(s) \/ VerifyProof(s) \/ Register(s)
         \/ Acknowledge(s) \/ HandshakeTimeout(s) \/ KeepAlive(s) \/ SessionEnds(s)
         \/ Disconnect(s) \/ Leave(s) \/ PeerChanges(s) \/ LeaseExpires(s)

Spec == Init /\ [][Next]_vars

(* ServeHTTP's own steps, the ticker and the clock go on.  A session in mode *)
(* "acp" need not end: its half hour is not part of the properties.          *)
FairSpec ==
    /\ Spec
    /\ \A s \in Sessions : WF_vars(Step(s)) /\ WF_vars(LeaseExpires(s)) /\ WF_vars(KeepAlive(s))

-----------------------------------------------------------------------------
(* A session in the connection table proved its key to a hub whose           *)
(* dependencies were ready; and while the hub's registry works and holds the *)
(* lock, every session it serves is a live route of this hub: neither a      *)
(* second edge nor another session takes it away (ServerHandshake, Open,     *)
(* Connect, Disconnect).                                                     *)
ServedIsRouted ==
    \A s \in Sessions :
      /\ row[s].live => proved[s] /\ ready[s]
      /\ Registry /\ phase[s] = "serving" => row[s] = [live |-> TRUE, instance |-> hub]

(* A node's workstation id is its own and a client's receipt is that id:     *)
(* saveRegistration never finds a different one (Connect, saveRegistration). *)
ReceiptsAgree ==
    /\ \A n \in Nodes : receipt[n] # 0 => receipt[n] = workstation[n]
    /\ \A n, k \in Nodes : n # k /\ workstation[n] # 0 => workstation[n] # workstation[k]

(* A session whose node changed, whose registry is lost, or that ended in    *)
(* whatever way, is not served for ever: it leaves, and the inventory        *)
(* forgets it (ServeHTTP's ticker, Touch, Disconnect, expires_at).           *)
Stale(s) ==
    \/ phase[s] \in {"closing", "leaving"} \/ (phase[s] = "done" /\ row[s].live)
    \/ phase[s] = "serving" /\ (s \notin Acp \/ peer[s] # "same" \/ ~Registry)
StaleSessionIsForgotten ==
    \A s \in Sessions : Stale(s) ~> (phase[s] = "done" /\ ~row[s].live)
=============================================================================
