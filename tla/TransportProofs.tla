-------------------------- MODULE TransportProofs ---------------------------
(***************************************************************************)
(* The direct transport, for any sets of nodes, connection attempts and ids, *)
(* any capacity, buffers and number of hub starts.  The hub: a served session *)
(* is a live route of the hub that holds the lock, and a client's receipt is *)
(* its node's own workstation id.  The relay: success is said of a complete *)
(* session only, and the agent never outlives its RelayHost.               *)
(***************************************************************************)
EXTENDS HubSessions, AcpRelay, FiniteSetTheorems, TLAPS

-----------------------------------------------------------------------------
(* Part 1: the hub's sessions and the workstation registry. *)

Flying == {s \in Sessions : phase[s] \in InFlight}
Assigned == {k \in Nodes : workstation[k] # 0}

(* Before Register nothing of a session is in the connection table. *)
Unregistered == {"new", "refused", "peer", "hello", "challenge", "proof"}

(* A slot is held by exactly the requests that ServeHTTP has not left. *)
SlotsHeld == slots = Cardinality(Flying)

(* Instance ids only grow, and without a hub nothing is in flight. *)
Instances ==
    /\ hub <= started /\ owner <= started
    /\ hub = 0 => \A s \in Sessions : phase[s] \notin InFlight

(* What ServerHandshake has established by the phase it has reached. *)
Established ==
    \A s \in Sessions :
      /\ phase[s] \in {"challenge", "proof", "ack"} \cup Serving => ready[s]
      /\ phase[s] \in {"proof", "ack"} \cup Serving => proved[s]
      /\ phase[s] \in Unregistered => ~row[s].live

(* From the committed Register to the end of the service the row is the hub's. *)
Routed ==
    \A s \in Sessions :
      /\ row[s].live => proved[s] /\ ready[s]
      /\ Registry /\ phase[s] \in {"ack", "serving"} => row[s] = [live |-> TRUE, instance |-> hub]

(* The ids in use are among the first ones, so the next id is free. *)
Counted == \A n \in Nodes : workstation[n] <= Cardinality(Assigned)

HubInv ==
    /\ TypeOK /\ SlotsHeld /\ Instances /\ Established /\ Routed
    /\ Counted /\ ReceiptsAgree

(* The requests in flight and the registered nodes can be counted. *)
LEMMA Countable ==
    /\ IsFiniteSet(Flying) /\ Cardinality(Flying) \in Nat
    /\ IsFiniteSet(Assigned) /\ Cardinality(Assigned) \in Nat /\ Cardinality(Nodes) \in Nat
    /\ Cardinality(Assigned) <= Cardinality(Nodes)
<1>1. Flying \in SUBSET Sessions /\ Assigned \in SUBSET Nodes
  BY DEF Flying, Assigned
<1>2. IsFiniteSet(Flying) /\ IsFiniteSet(Assigned) /\ Cardinality(Assigned) <= Cardinality(Nodes)
  BY <1>1, FS_Subset, HubAssumption
<1> QED
  BY <1>2, FS_CardinalityType, HubAssumption

(* Upsert gives a new node the next id and leaves a known one its own. *)
LEMMA UpsertCounts ==
    ASSUME HubInv, NEW s \in Sessions, Upsert(s)
    PROVE  /\ workstation' \in [Nodes -> 0 .. Cardinality(Nodes)]
           /\ Counted'
           /\ \A n \in Nodes : workstation[n] # 0 => workstation'[n] = workstation[n]
           /\ \A n, k \in Nodes :
                n # k /\ workstation'[n] # 0 => workstation'[n] # workstation'[k]
<1> DEFINE m == NodeOf[s]
<1> DEFINE c == Cardinality(Assigned)
<1>1. m \in Nodes /\ workstation' = [workstation EXCEPT ![m] = Upserted(m)]
  BY HubAssumption DEF Upsert
<1>2. CASE workstation[m] # 0
  <2>1. workstation' = workstation
    BY <1>1, <1>2 DEF Upserted, HubInv, TypeOK
  <2>2. Assigned' = Assigned
    BY <2>1 DEF Assigned
  <2> QED
    BY <2>1, <2>2 DEF HubInv, TypeOK, Counted, ReceiptsAgree
<1>3. CASE workstation[m] = 0
  <2>1. workstation' = [workstation EXCEPT ![m] = c + 1]
    BY <1>1, <1>3 DEF Upserted, Assigned
  <2>2. c \in Nat /\ Cardinality(Nodes) \in Nat /\ c <= Cardinality(Nodes)
    BY Countable
  <2>3. workstation' = [k \in Nodes |-> IF k = m THEN c + 1 ELSE workstation[k]]
    BY <2>1 DEF HubInv, TypeOK
  <2>4. Assigned' = Assigned \cup {m}
    BY <2>2, <2>3, <1>1 DEF Assigned
  <2>5. m \notin Assigned
    BY <1>3 DEF Assigned
  <2>6. Cardinality(Assigned') = c + 1
    BY <2>4, <2>5, FS_AddElement, Countable
  <2>7. c # Cardinality(Nodes)
    BY <2>5, <1>1, FS_Subset, HubAssumption DEF Assigned
  <2>8. workstation \in [Nodes -> 0 .. Cardinality(Nodes)]
    BY DEF HubInv, TypeOK
  <2>9. workstation' \in [Nodes -> 0 .. Cardinality(Nodes)]
    BY <2>2, <2>3, <2>7, <2>8
  <2>10. \A n \in Nodes : workstation[n] <= c
    BY DEF HubInv, Counted
  <2>11. Counted'
    BY <2>2, <2>3, <2>6, <2>8, <2>10 DEF Counted
  <2>12. \A n, k \in Nodes :
           n # k /\ workstation'[n] # 0 => workstation'[n] # workstation'[k]
    BY <2>2, <2>3, <2>8, <2>10 DEF HubInv, ReceiptsAgree
  <2> QED
    BY <1>3, <2>3, <2>9, <2>11, <2>12
<1> QED
  BY <1>2, <1>3

(* A slot is released only while it is held, and an id is at most the number of nodes. *)
LEMMA TypeKept ==
    HubInv /\ [Next]_vars => TypeOK'
<1> SUFFICES ASSUME HubInv, [Next]_vars PROVE TypeOK'
  OBVIOUS
<1>0. ASSUME NEW s \in Sessions, UNCHANGED workstation \/ Upsert(s)
      PROVE  workstation' \in [Nodes -> 0 .. Cardinality(Nodes)]
  BY <1>0, UpsertCounts DEF HubInv, TypeOK
<1> USE HubAssumption DEF HubInv, TypeOK, InFlight, Handshake, Serving
<1>1. CASE HubStarts
  BY <1>1 DEF HubStarts, OpenRegistry, NoRow
<1>2. CASE HubStops
  <2>1. CASE Registry
    <3>1. row' \in [Sessions -> [live : BOOLEAN, instance : 0 .. MaxHubs]]
      <4>1. NoRow \in [live : BOOLEAN, instance : 0 .. MaxHubs]
        BY DEF NoRow
      <4>2. \A s \in Sessions : row[s] \in [live : BOOLEAN, instance : 0 .. MaxHubs]
        OBVIOUS
      <4>3. row' = [s \in Sessions |-> IF row[s].instance = hub THEN NoRow ELSE row[s]]
        BY <1>2, <2>1 DEF HubStops
      <4> QED
        BY <4>1, <4>2, <4>3
    <3>2. /\ phase' \in [Sessions -> {"new", "refused", "done"} \cup InFlight]
          /\ peer' \in [Sessions -> {"same", "changed", "none"}]
          /\ ready' \in [Sessions -> BOOLEAN] /\ proved' \in [Sessions -> BOOLEAN]
      BY <1>2 DEF HubStops, Ended, Forget
    <3> QED
      BY <1>2, <2>1, <3>1, <3>2 DEF HubStops
  <2>2. CASE ~Registry
    BY <1>2, <2>2 DEF HubStops, Ended, Forget
  <2> QED
    BY <2>1, <2>2
<1>3. CASE HubCrashes
  BY <1>3 DEF HubCrashes, Ended, Forget
<1>4. CASE DatabaseSessionEnds
  BY <1>4 DEF DatabaseSessionEnds
<1>5. CASE SecondEdge
  BY <1>5 DEF SecondEdge, OpenRegistry, NoRow
<1>6. CASE SecondEdgeLeaves
  BY <1>6 DEF SecondEdgeLeaves
<1>7. ASSUME NEW s \in Sessions, Arrive(s) PROVE TypeOK'
  BY <1>7 DEF Arrive
<1>8. ASSUME NEW s \in Sessions, AdmitPeer(s) PROVE TypeOK'
  BY <1>8 DEF AdmitPeer, Goto
<1>9. ASSUME NEW s \in Sessions, Challenge(s) PROVE TypeOK'
  BY <1>9 DEF Challenge, Goto
<1>10. ASSUME NEW s \in Sessions, VerifyProof(s) PROVE TypeOK'
  BY <1>10 DEF VerifyProof, Goto
<1>11. ASSUME NEW s \in Sessions, Register(s) PROVE TypeOK'
  <2>1. UNCHANGED workstation \/ Upsert(s)
    BY <1>11 DEF Register
  <2>2. workstation' \in [Nodes -> 0 .. Cardinality(Nodes)]
    BY <2>1, <1>0
  <2>3. row' \in [Sessions -> [live : BOOLEAN, instance : 0 .. MaxHubs]]
    <3>1. [live |-> TRUE, instance |-> hub] \in [live : BOOLEAN, instance : 0 .. MaxHubs]
      OBVIOUS
    <3>2. row' = row \/ row' = [row EXCEPT ![s] = [live |-> TRUE, instance |-> hub]]
      BY <1>11 DEF Register, Upsert
    <3> QED
      BY <3>1, <3>2
  <2>4. phase' \in [Sessions -> {"new", "refused", "done"} \cup InFlight]
    BY <1>11 DEF Register, Goto
  <2> QED
    BY <1>11, <2>2, <2>3, <2>4 DEF Register
<1>12. ASSUME NEW s \in Sessions, Acknowledge(s) PROVE TypeOK'
  BY <1>12 DEF Acknowledge, Received, Goto
<1>13. ASSUME NEW s \in Sessions, HandshakeTimeout(s) PROVE TypeOK'
  BY <1>13 DEF HandshakeTimeout, Goto
<1>14. ASSUME NEW s \in Sessions, KeepAlive(s) PROVE TypeOK'
  <2>1. row' \in [Sessions -> [live : BOOLEAN, instance : 0 .. MaxHubs]]
    <3>1. row[s] \in [live : BOOLEAN, instance : 0 .. MaxHubs]
      OBVIOUS
    <3>2. [row[s] EXCEPT !.live = TRUE] \in [live : BOOLEAN, instance : 0 .. MaxHubs]
      BY <3>1
    <3> QED
      <4>1. row' = row \/ row' = [row EXCEPT ![s] = [row[s] EXCEPT !.live = TRUE]]
        BY <1>14 DEF KeepAlive
      <4> QED
        BY <3>2, <4>1
  <2>2. phase' \in [Sessions -> {"new", "refused", "done"} \cup InFlight]
    BY <1>14 DEF KeepAlive, Goto
  <2> QED
    BY <1>14, <2>1, <2>2 DEF KeepAlive
<1>15. ASSUME NEW s \in Sessions, SessionEnds(s) PROVE TypeOK'
  BY <1>15 DEF SessionEnds, Goto
<1>16. ASSUME NEW s \in Sessions, Disconnect(s) PROVE TypeOK'
  <2>1. Deleted(s) \in [Sessions -> [live : BOOLEAN, instance : 0 .. MaxHubs]]
    BY DEF Deleted, NoRow
  <2>2. row' = row \/ row' = Deleted(s)
    BY <1>16 DEF Disconnect
  <2>3. row' \in [Sessions -> [live : BOOLEAN, instance : 0 .. MaxHubs]]
    BY <2>1, <2>2
  <2>4. phase' \in [Sessions -> {"new", "refused", "done"} \cup InFlight]
    BY <1>16 DEF Disconnect, Goto
  <2> QED
    BY <1>16, <2>3, <2>4 DEF Disconnect
<1>17. ASSUME NEW s \in Sessions, Leave(s) PROVE TypeOK'
  <2>1. s \in Flying
    BY <1>17 DEF Leave, Flying
  <2>2. slots >= 1
    BY <2>1, Countable, FS_EmptySet DEF SlotsHeld
  <2> QED
    BY <1>17, <2>2 DEF Leave, Forget
<1>18. ASSUME NEW s \in Sessions, PeerChanges(s) PROVE TypeOK'
  BY <1>18 DEF PeerChanges
<1>19. ASSUME NEW s \in Sessions, LeaseExpires(s) PROVE TypeOK'
  BY <1>19 DEF LeaseExpires
<1>20. CASE UNCHANGED vars
  BY <1>20 DEF vars
<1> QED
  BY <1>1, <1>2, <1>3, <1>4, <1>5, <1>6, <1>7, <1>8, <1>9, <1>10, <1>11, <1>12, <1>13, <1>14,
     <1>15, <1>16, <1>17, <1>18, <1>19, <1>20 DEF Next

(* Arrive takes a slot with the request, Leave gives it back, an ending hub drops all. *)
LEMMA SlotsKept ==
    HubInv /\ [Next]_vars => SlotsHeld'
<1> SUFFICES ASSUME HubInv, [Next]_vars PROVE SlotsHeld'
  OBVIOUS
<1> USE HubAssumption
<1>1. CASE HubStarts
  <2>1. Flying' = {}
    BY <1>1 DEF HubStarts, Flying, HubInv, Instances
  <2> QED
    BY <1>1, <2>1, FS_EmptySet DEF HubStarts, SlotsHeld
<1>2. CASE HubStops
  <2>1. Flying' = {}
    BY <1>2 DEF HubStops, Ended, Forget, Flying, HubInv, TypeOK, InFlight, Handshake, Serving
  <2> QED
    BY <1>2, <2>1, FS_EmptySet DEF HubStops, SlotsHeld
<1>3. CASE HubCrashes
  <2>1. Flying' = {}
    BY <1>3 DEF HubCrashes, Ended, Forget, Flying, HubInv, TypeOK, InFlight, Handshake, Serving
  <2> QED
    BY <1>3, <2>1, FS_EmptySet DEF HubCrashes, SlotsHeld
<1>4. CASE DatabaseSessionEnds
  BY <1>4 DEF DatabaseSessionEnds, HubInv, SlotsHeld, Flying
<1>5. CASE SecondEdge
  BY <1>5 DEF SecondEdge, HubInv, SlotsHeld, Flying
<1>6. CASE SecondEdgeLeaves
  BY <1>6 DEF SecondEdgeLeaves, HubInv, SlotsHeld, Flying
<1>7. ASSUME NEW s \in Sessions, Arrive(s) PROVE SlotsHeld'
  <2>1. s \notin Flying
    BY <1>7 DEF Arrive, Flying, InFlight, Handshake, Serving
  <2>2. CASE slots < Capacity
    <3>1. Flying' = Flying \cup {s}
      BY <1>7, <2>2 DEF Arrive, Flying, HubInv, TypeOK, InFlight, Handshake, Serving
    <3> QED
      BY <1>7, <2>1, <2>2, <3>1, FS_AddElement, Countable DEF Arrive, HubInv, SlotsHeld
  <2>3. CASE ~(slots < Capacity)
    <3>1. Flying' = Flying
      BY <1>7, <2>1, <2>3 DEF Arrive, Flying, HubInv, TypeOK, InFlight, Handshake, Serving
    <3> QED
      BY <1>7, <2>3, <3>1 DEF Arrive, HubInv, SlotsHeld
  <2> QED
    BY <2>2, <2>3
<1>8. ASSUME NEW s \in Sessions, AdmitPeer(s) PROVE SlotsHeld'
  <2>1. Flying' = Flying
    BY <1>8 DEF AdmitPeer, Goto, Flying, HubInv, TypeOK, InFlight, Handshake, Serving
  <2> QED
    BY <1>8, <2>1 DEF AdmitPeer, HubInv, SlotsHeld
<1>9. ASSUME NEW s \in Sessions, Challenge(s) PROVE SlotsHeld'
  <2>1. Flying' = Flying
    BY <1>9 DEF Challenge, Goto, Flying, HubInv, TypeOK, InFlight, Handshake, Serving
  <2> QED
    BY <1>9, <2>1 DEF Challenge, HubInv, SlotsHeld
<1>10. ASSUME NEW s \in Sessions, VerifyProof(s) PROVE SlotsHeld'
  <2>1. Flying' = Flying
    BY <1>10 DEF VerifyProof, Goto, Flying, HubInv, TypeOK, InFlight, Handshake, Serving
  <2> QED
    BY <1>10, <2>1 DEF VerifyProof, HubInv, SlotsHeld
<1>11. ASSUME NEW s \in Sessions, Register(s) PROVE SlotsHeld'
  <2>1. Flying' = Flying
    BY <1>11 DEF Register, Goto, Flying, HubInv, TypeOK, InFlight, Handshake, Serving
  <2> QED
    BY <1>11, <2>1 DEF Register, HubInv, SlotsHeld
<1>12. ASSUME NEW s \in Sessions, Acknowledge(s) PROVE SlotsHeld'
  <2>1. Flying' = Flying
    BY <1>12 DEF Acknowledge, Goto, Flying, HubInv, TypeOK, InFlight, Handshake, Serving
  <2> QED
    BY <1>12, <2>1 DEF Acknowledge, HubInv, SlotsHeld
<1>13. ASSUME NEW s \in Sessions, HandshakeTimeout(s) PROVE SlotsHeld'
  <2>1. Flying' = Flying
    BY <1>13 DEF HandshakeTimeout, Goto, Flying, HubInv, TypeOK, InFlight, Handshake, Serving
  <2> QED
    BY <1>13, <2>1 DEF HandshakeTimeout, HubInv, SlotsHeld
<1>14. ASSUME NEW s \in Sessions, KeepAlive(s) PROVE SlotsHeld'
  <2>1. Flying' = Flying
    BY <1>14 DEF KeepAlive, Goto, Flying, HubInv, TypeOK, InFlight, Handshake, Serving
  <2> QED
    BY <1>14, <2>1 DEF KeepAlive, HubInv, SlotsHeld
<1>15. ASSUME NEW s \in Sessions, SessionEnds(s) PROVE SlotsHeld'
  <2>1. Flying' = Flying
    BY <1>15 DEF SessionEnds, Goto, Flying, HubInv, TypeOK, InFlight, Handshake, Serving
  <2> QED
    BY <1>15, <2>1 DEF SessionEnds, HubInv, SlotsHeld
<1>16. ASSUME NEW s \in Sessions, Disconnect(s) PROVE SlotsHeld'
  <2>1. Flying' = Flying
    BY <1>16 DEF Disconnect, Goto, Flying, HubInv, TypeOK, InFlight, Handshake, Serving
  <2> QED
    BY <1>16, <2>1 DEF Disconnect, HubInv, SlotsHeld
<1>17. ASSUME NEW s \in Sessions, Leave(s) PROVE SlotsHeld'
  <2>1. s \in Flying
    BY <1>17 DEF Leave, Flying, InFlight
  <2>2. Flying' = Flying \ {s}
    BY <1>17 DEF Leave, Forget, Flying, HubInv, TypeOK, InFlight, Handshake, Serving
  <2> QED
    BY <1>17, <2>1, <2>2, FS_RemoveElement, Countable DEF Leave, HubInv, SlotsHeld
<1>18. ASSUME NEW s \in Sessions, PeerChanges(s) PROVE SlotsHeld'
  BY <1>18 DEF PeerChanges, HubInv, SlotsHeld, Flying
<1>19. ASSUME NEW s \in Sessions, LeaseExpires(s) PROVE SlotsHeld'
  BY <1>19 DEF LeaseExpires, HubInv, SlotsHeld, Flying
<1>20. CASE UNCHANGED vars
  BY <1>20 DEF vars, HubInv, SlotsHeld, Flying
<1> QED
  BY <1>1, <1>2, <1>3, <1>4, <1>5, <1>6, <1>7, <1>8, <1>9, <1>10, <1>11, <1>12, <1>13, <1>14,
     <1>15, <1>16, <1>17, <1>18, <1>19, <1>20 DEF Next

(* Ids grow, and an ending hub ends its sessions. *)
LEMMA InstancesKept ==
    HubInv /\ [Next]_vars => Instances'
<1> SUFFICES ASSUME HubInv, [Next]_vars PROVE Instances'
  OBVIOUS
<1> USE HubAssumption DEF HubInv, TypeOK, InFlight, Handshake, Serving, Instances
<1>1. CASE HubStarts
  BY <1>1 DEF HubStarts, OpenRegistry, NoRow
<1>2. CASE HubStops
  BY <1>2 DEF HubStops, Ended, Forget, Registry, NoRow
<1>3. CASE HubCrashes
  BY <1>3 DEF HubCrashes, Ended, Forget
<1>4. CASE DatabaseSessionEnds
  BY <1>4 DEF DatabaseSessionEnds
<1>5. CASE SecondEdge
  BY <1>5 DEF SecondEdge, OpenRegistry, NoRow
<1>6. CASE SecondEdgeLeaves
  BY <1>6 DEF SecondEdgeLeaves
<1>7. ASSUME NEW s \in Sessions, Arrive(s) PROVE Instances'
  BY <1>7 DEF Arrive
<1>8. ASSUME NEW s \in Sessions, AdmitPeer(s) PROVE Instances'
  BY <1>8 DEF AdmitPeer, Goto
<1>9. ASSUME NEW s \in Sessions, Challenge(s) PROVE Instances'
  BY <1>9 DEF Challenge, Goto
<1>10. ASSUME NEW s \in Sessions, VerifyProof(s) PROVE Instances'
  BY <1>10 DEF VerifyProof, Goto
<1>11. ASSUME NEW s \in Sessions, Register(s) PROVE Instances'
  BY <1>11 DEF Register, Upsert, Registry, Goto
<1>12. ASSUME NEW s \in Sessions, Acknowledge(s) PROVE Instances'
  BY <1>12 DEF Acknowledge, Received, Goto
<1>13. ASSUME NEW s \in Sessions, HandshakeTimeout(s) PROVE Instances'
  BY <1>13 DEF HandshakeTimeout, Goto
<1>14. ASSUME NEW s \in Sessions, KeepAlive(s) PROVE Instances'
  BY <1>14 DEF KeepAlive, Registry, Goto
<1>15. ASSUME NEW s \in Sessions, SessionEnds(s) PROVE Instances'
  BY <1>15 DEF SessionEnds, Goto
<1>16. ASSUME NEW s \in Sessions, Disconnect(s) PROVE Instances'
  BY <1>16 DEF Disconnect, Registry, Deleted, NoRow, Goto
<1>17. ASSUME NEW s \in Sessions, Leave(s) PROVE Instances'
  BY <1>17 DEF Leave, Forget
<1>18. ASSUME NEW s \in Sessions, PeerChanges(s) PROVE Instances'
  BY <1>18 DEF PeerChanges
<1>19. ASSUME NEW s \in Sessions, LeaseExpires(s) PROVE Instances'
  BY <1>19 DEF LeaseExpires
<1>20. CASE UNCHANGED vars
  BY <1>20 DEF vars
<1> QED
  BY <1>1, <1>2, <1>3, <1>4, <1>5, <1>6, <1>7, <1>8, <1>9, <1>10, <1>11, <1>12, <1>13, <1>14,
     <1>15, <1>16, <1>17, <1>18, <1>19, <1>20 DEF Next

(* A phase is entered only with what it needs; a row appears only in Register. *)
LEMMA EstablishedKept ==
    HubInv /\ [Next]_vars => Established'
<1> SUFFICES ASSUME HubInv, [Next]_vars PROVE Established'
  OBVIOUS
<1> USE HubAssumption
      DEF HubInv, TypeOK, InFlight, Handshake, Serving, Established, Routed, Unregistered
<1>1. CASE HubStarts
  BY <1>1 DEF HubStarts, OpenRegistry, NoRow
<1>2. CASE HubStops
  BY <1>2 DEF HubStops, Ended, Forget, Registry, NoRow
<1>3. CASE HubCrashes
  BY <1>3 DEF HubCrashes, Ended, Forget
<1>4. CASE DatabaseSessionEnds
  BY <1>4 DEF DatabaseSessionEnds
<1>5. CASE SecondEdge
  BY <1>5 DEF SecondEdge, OpenRegistry, NoRow
<1>6. CASE SecondEdgeLeaves
  BY <1>6 DEF SecondEdgeLeaves
<1>7. ASSUME NEW s \in Sessions, Arrive(s) PROVE Established'
  BY <1>7 DEF Arrive
<1>8. ASSUME NEW s \in Sessions, AdmitPeer(s) PROVE Established'
  BY <1>8 DEF AdmitPeer, Goto
<1>9. ASSUME NEW s \in Sessions, Challenge(s) PROVE Established'
  BY <1>9 DEF Challenge, Goto
<1>10. ASSUME NEW s \in Sessions, VerifyProof(s) PROVE Established'
  BY <1>10 DEF VerifyProof, Goto
<1>11. ASSUME NEW s \in Sessions, Register(s) PROVE Established'
  BY <1>11 DEF Register, Upsert, Registry, Goto
<1>12. ASSUME NEW s \in Sessions, Acknowledge(s) PROVE Established'
  BY <1>12 DEF Acknowledge, Received, Goto
<1>13. ASSUME NEW s \in Sessions, HandshakeTimeout(s) PROVE Established'
  BY <1>13 DEF HandshakeTimeout, Goto
<1>14. ASSUME NEW s \in Sessions, KeepAlive(s) PROVE Established'
  <2>1. \A k \in Sessions \ {s} : phase'[k] = phase[k] /\ row'[k] = row[k]
    BY <1>14 DEF KeepAlive, Goto
  <2>2. phase[s] = "serving" /\ phase'[s] \in {"serving", "closing"}
    BY <1>14 DEF KeepAlive, Goto
  <2> QED
    BY <1>14, <2>1, <2>2 DEF KeepAlive
<1>15. ASSUME NEW s \in Sessions, SessionEnds(s) PROVE Established'
  BY <1>15 DEF SessionEnds, Goto
<1>16. ASSUME NEW s \in Sessions, Disconnect(s) PROVE Established'
  BY <1>16 DEF Disconnect, Registry, Deleted, NoRow, Goto
<1>17. ASSUME NEW s \in Sessions, Leave(s) PROVE Established'
  BY <1>17 DEF Leave, Forget
<1>18. ASSUME NEW s \in Sessions, PeerChanges(s) PROVE Established'
  BY <1>18 DEF PeerChanges
<1>19. ASSUME NEW s \in Sessions, LeaseExpires(s) PROVE Established'
  BY <1>19 DEF LeaseExpires
<1>20. CASE UNCHANGED vars
  BY <1>20 DEF vars
<1> QED
  BY <1>1, <1>2, <1>3, <1>4, <1>5, <1>6, <1>7, <1>8, <1>9, <1>10, <1>11, <1>12, <1>13, <1>14,
     <1>15, <1>16, <1>17, <1>18, <1>19, <1>20 DEF Next

(* What Connect commits stays until the session closes or the lock is lost. *)
LEMMA RoutedKept ==
    HubInv /\ [Next]_vars => Routed'
<1> SUFFICES ASSUME HubInv, [Next]_vars PROVE Routed'
  OBVIOUS
<1> USE HubAssumption
      DEF HubInv, TypeOK, InFlight, Handshake, Serving, Instances, Established, Routed,
      Registry, Unregistered
<1>1. CASE HubStarts
  BY <1>1 DEF HubStarts, OpenRegistry, NoRow
<1>2. CASE HubStops
  BY <1>2 DEF HubStops, Ended, Forget, NoRow
<1>3. CASE HubCrashes
  BY <1>3 DEF HubCrashes, Ended, Forget
<1>4. CASE DatabaseSessionEnds
  BY <1>4 DEF DatabaseSessionEnds
<1>5. CASE SecondEdge
  BY <1>5 DEF SecondEdge, OpenRegistry, NoRow
<1>6. CASE SecondEdgeLeaves
  BY <1>6 DEF SecondEdgeLeaves
<1>7. ASSUME NEW s \in Sessions, Arrive(s) PROVE Routed'
  BY <1>7 DEF Arrive
<1>8. ASSUME NEW s \in Sessions, AdmitPeer(s) PROVE Routed'
  BY <1>8 DEF AdmitPeer, Goto
<1>9. ASSUME NEW s \in Sessions, Challenge(s) PROVE Routed'
  BY <1>9 DEF Challenge, Goto
<1>10. ASSUME NEW s \in Sessions, VerifyProof(s) PROVE Routed'
  BY <1>10 DEF VerifyProof, Goto
<1>11. ASSUME NEW s \in Sessions, Register(s) PROVE Routed'
  <2>1. CASE row' = row /\ phase'[s] = "leaving"
    BY <1>11, <2>1 DEF Register, Goto
  <2>2. CASE Upsert(s)
    <3>1. row' = [row EXCEPT ![s] = [live |-> TRUE, instance |-> hub]]
      BY <2>2 DEF Upsert
    <3>2. \A k \in Sessions \ {s} : phase'[k] = phase[k] /\ row'[k] = row[k]
      BY <1>11, <3>1 DEF Register, Goto
    <3>3. row'[s] = [live |-> TRUE, instance |-> hub] /\ ready[s] /\ proved[s]
      BY <1>11, <3>1 DEF Register
    <3>4. (hub' # 0 /\ owner' = hub') => (hub # 0 /\ owner = hub)
      BY <1>11 DEF Register
    <3> QED
      BY <1>11, <3>2, <3>3, <3>4 DEF Register
  <2> QED
    BY <1>11, <2>1, <2>2 DEF Register, Goto
<1>12. ASSUME NEW s \in Sessions, Acknowledge(s) PROVE Routed'
  BY <1>12 DEF Acknowledge, Received, Goto
<1>13. ASSUME NEW s \in Sessions, HandshakeTimeout(s) PROVE Routed'
  BY <1>13 DEF HandshakeTimeout, Goto
<1>14. ASSUME NEW s \in Sessions, KeepAlive(s) PROVE Routed'
  <2>1. CASE UNCHANGED row
    BY <1>14, <2>1 DEF KeepAlive, Goto
  <2>2. CASE Registry /\ row' = [row EXCEPT ![s].live = TRUE] /\ phase' = phase
    <3>1. row[s] = [live |-> TRUE, instance |-> hub]
      BY <1>14, <2>2 DEF KeepAlive
    <3>2. row' = row
      BY <2>2, <3>1
    <3> QED
      BY <1>14, <2>2, <3>2 DEF KeepAlive
  <2> QED
    BY <1>14, <2>1, <2>2 DEF KeepAlive
<1>15. ASSUME NEW s \in Sessions, SessionEnds(s) PROVE Routed'
  BY <1>15 DEF SessionEnds, Goto
<1>16. ASSUME NEW s \in Sessions, Disconnect(s) PROVE Routed'
  <2>1. \A k \in Sessions \ {s} : phase'[k] = phase[k] /\ row'[k] = row[k]
    BY <1>16 DEF Disconnect, Deleted, Goto
  <2>2. phase'[s] = "leaving" /\ (row'[s] = row[s] \/ row'[s] = NoRow)
    BY <1>16 DEF Disconnect, Deleted, Goto
  <2> QED
    BY <1>16, <2>1, <2>2 DEF Disconnect, NoRow
<1>17. ASSUME NEW s \in Sessions, Leave(s) PROVE Routed'
  BY <1>17 DEF Leave, Forget
<1>18. ASSUME NEW s \in Sessions, PeerChanges(s) PROVE Routed'
  BY <1>18 DEF PeerChanges
<1>19. ASSUME NEW s \in Sessions, LeaseExpires(s) PROVE Routed'
  BY <1>19 DEF LeaseExpires
<1>20. CASE UNCHANGED vars
  BY <1>20 DEF vars
<1> QED
  BY <1>1, <1>2, <1>3, <1>4, <1>5, <1>6, <1>7, <1>8, <1>9, <1>10, <1>11, <1>12, <1>13, <1>14,
     <1>15, <1>16, <1>17, <1>18, <1>19, <1>20 DEF Next

(* An id is given once, and a receipt repeats it. *)
LEMMA IdsKept ==
    HubInv /\ [Next]_vars => Counted' /\ ReceiptsAgree'
<1> SUFFICES ASSUME HubInv, [Next]_vars PROVE Counted' /\ ReceiptsAgree'
  OBVIOUS
<1> USE HubAssumption
<1>1. CASE HubStarts
  BY <1>1 DEF HubStarts, HubInv, Counted, Assigned, ReceiptsAgree
<1>2. CASE HubStops
  BY <1>2 DEF HubStops, HubInv, Counted, Assigned, ReceiptsAgree
<1>3. CASE HubCrashes
  BY <1>3 DEF HubCrashes, HubInv, Counted, Assigned, ReceiptsAgree
<1>4. CASE DatabaseSessionEnds
  BY <1>4 DEF DatabaseSessionEnds, HubInv, Counted, Assigned, ReceiptsAgree
<1>5. CASE SecondEdge
  BY <1>5 DEF SecondEdge, HubInv, Counted, Assigned, ReceiptsAgree
<1>6. CASE SecondEdgeLeaves
  BY <1>6 DEF SecondEdgeLeaves, HubInv, Counted, Assigned, ReceiptsAgree
<1>7. ASSUME NEW s \in Sessions, Arrive(s) PROVE Counted' /\ ReceiptsAgree'
  BY <1>7 DEF Arrive, HubInv, Counted, Assigned, ReceiptsAgree
<1>8. ASSUME NEW s \in Sessions, AdmitPeer(s) PROVE Counted' /\ ReceiptsAgree'
  BY <1>8 DEF AdmitPeer, HubInv, Counted, Assigned, ReceiptsAgree
<1>9. ASSUME NEW s \in Sessions, Challenge(s) PROVE Counted' /\ ReceiptsAgree'
  BY <1>9 DEF Challenge, HubInv, Counted, Assigned, ReceiptsAgree
<1>10. ASSUME NEW s \in Sessions, VerifyProof(s) PROVE Counted' /\ ReceiptsAgree'
  BY <1>10 DEF VerifyProof, HubInv, Counted, Assigned, ReceiptsAgree
<1>11. ASSUME NEW s \in Sessions, Register(s) PROVE Counted' /\ ReceiptsAgree'
  <2>1. CASE UNCHANGED workstation
    BY <1>11, <2>1 DEF Register, HubInv, Counted, Assigned, ReceiptsAgree
  <2>2. CASE Upsert(s)
    BY <1>11, <2>2, UpsertCounts DEF Register, HubInv, ReceiptsAgree
  <2> QED
    BY <1>11, <2>1, <2>2 DEF Register
<1>12. ASSUME NEW s \in Sessions, Acknowledge(s) PROVE Counted' /\ ReceiptsAgree'
  BY <1>12 DEF Acknowledge, Received, HubInv, TypeOK, Counted, Assigned, ReceiptsAgree
<1>13. ASSUME NEW s \in Sessions, HandshakeTimeout(s) PROVE Counted' /\ ReceiptsAgree'
  BY <1>13 DEF HandshakeTimeout, HubInv, Counted, Assigned, ReceiptsAgree
<1>14. ASSUME NEW s \in Sessions, KeepAlive(s) PROVE Counted' /\ ReceiptsAgree'
  BY <1>14 DEF KeepAlive, HubInv, Counted, Assigned, ReceiptsAgree
<1>15. ASSUME NEW s \in Sessions, SessionEnds(s) PROVE Counted' /\ ReceiptsAgree'
  BY <1>15 DEF SessionEnds, HubInv, Counted, Assigned, ReceiptsAgree
<1>16. ASSUME NEW s \in Sessions, Disconnect(s) PROVE Counted' /\ ReceiptsAgree'
  BY <1>16 DEF Disconnect, HubInv, Counted, Assigned, ReceiptsAgree
<1>17. ASSUME NEW s \in Sessions, Leave(s) PROVE Counted' /\ ReceiptsAgree'
  BY <1>17 DEF Leave, HubInv, Counted, Assigned, ReceiptsAgree
<1>18. ASSUME NEW s \in Sessions, PeerChanges(s) PROVE Counted' /\ ReceiptsAgree'
  BY <1>18 DEF PeerChanges, HubInv, Counted, Assigned, ReceiptsAgree
<1>19. ASSUME NEW s \in Sessions, LeaseExpires(s) PROVE Counted' /\ ReceiptsAgree'
  BY <1>19 DEF LeaseExpires, HubInv, Counted, Assigned, ReceiptsAgree
<1>20. CASE UNCHANGED vars
  BY <1>20 DEF vars, HubInv, Counted, Assigned, ReceiptsAgree
<1> QED
  BY <1>1, <1>2, <1>3, <1>4, <1>5, <1>6, <1>7, <1>8, <1>9, <1>10, <1>11, <1>12, <1>13, <1>14,
     <1>15, <1>16, <1>17, <1>18, <1>19, <1>20 DEF Next

(* The inductive invariant of the hub's sessions and their registry. *)
THEOREM HubInvariant == Spec => []HubInv
<1>1. Init => HubInv
  <2> SUFFICES ASSUME Init PROVE HubInv
    OBVIOUS
  <2>1. Flying = {} /\ Assigned = {}
    BY DEF Init, Flying, Assigned, InFlight, Handshake, Serving
  <2>2. Cardinality(Flying) = 0 /\ Cardinality(Assigned) = 0 /\ Cardinality(Nodes) \in Nat
    BY <2>1, FS_EmptySet, Countable
  <2>3. TypeOK
    BY <2>2, HubAssumption DEF Init, TypeOK, NoRow
  <2>4. Established /\ Routed
    BY DEF Init, Established, Routed, Registry, Serving, NoRow
  <2> QED
    BY <2>2, <2>3, <2>4
    DEF Init, HubInv, SlotsHeld, Instances, Counted, ReceiptsAgree, InFlight, Handshake, Serving
<1>2. HubInv /\ [Next]_vars => HubInv'
  BY TypeKept, SlotsKept, InstancesKept, EstablishedKept, RoutedKept, IdsKept DEF HubInv
<1> QED
  BY <1>1, <1>2, PTL DEF Spec

(* A live row belongs to a session that proved its key to a ready hub, and   *)
(* while the hub's registry holds the lock every session it serves is a live *)
(* route of this hub (ServerHandshake, Connect, Open, Disconnect): neither a *)
(* second edge nor another session of the node takes it away.                *)
THEOREM ServedSessionIsRouted == Spec => []ServedIsRouted
<1>1. HubInv => ServedIsRouted
  BY DEF HubInv, Routed, ServedIsRouted
<1> QED
  BY <1>1, HubInvariant, PTL

(* Connect gives every node an id of its own, and the receipt a client kept  *)
(* is that id, over every crash and restart of the hub (saveRegistration).   *)
THEOREM ReceiptIsTheId == Spec => []ReceiptsAgree
<1>1. HubInv => ReceiptsAgree
  BY DEF HubInv
<1> QED
  BY <1>1, HubInvariant, PTL

(* Host.Slots bounds the sessions that are served or on their way, and no    *)
(* ending of a session gives back a slot it does not hold (ServeHTTP).       *)
THEOREM SlotsBoundSessions == Spec => [](SlotsHeld /\ Cardinality(Flying) <= Capacity)
<1>1. HubInv => SlotsHeld /\ Cardinality(Flying) <= Capacity
  BY HubAssumption DEF HubInv, TypeOK, SlotsHeld
<1> QED
  BY <1>1, HubInvariant, PTL

-----------------------------------------------------------------------------
(* Part 2: one relayed session. *)

(* What the proof needs of the types; a frame down is an answer or an exit. *)
RelayTypes ==
    /\ asked \in [Ids -> Nat] /\ answered \in [Ids -> Nat]
    /\ clientPend \subseteq Ids /\ down \in Seq(Replies) /\ stdout \in Seq(Ids)
    /\ child \in {"run"} \cup Exits
    /\ loop \in [child : BOOLEAN, output : BOOLEAN, input : BOOLEAN]
    /\ received \in {"run", "ok", "error"}

(* The client's guard keeps the books while the receiving goroutine is well:  *)
(* what is asked is answered or pending.                                      *)
Balanced ==
    client = "run" /\ received # "error" => \A id \in Ids : asked[id] = answered[id] + IF id \in clientPend THEN 1 ELSE 0

(* An exit frame is the agent's exit, and the loop has seen one only after it. *)
ExitsAreTrue ==
    /\ \A i \in 1 .. Len(down) : down[i] \notin Ids => child = down[i]
    /\ loop.child => child # "run"

(* A successful receiving goroutine has read exit 0 with nothing pending;    *)
(* what the sending one accepts after that is late.                          *)
ReceivedAll ==
    received = "ok" => child = "exit 0" /\ \A id \in Ids \ late : answered[id] = asked[id]

RelayInv ==
    /\ RelayTypes /\ Balanced /\ ExitsAreTrue /\ ReceivedAll
    /\ client = "ok" => received = "ok"
    /\ ChildIsContained

(* What becomes of a pipe. *)
LEMMA Pipes ==
    ASSUME NEW S, NEW s \in Seq(S)
    PROVE  /\ << >> \in Seq(S) /\ Len(<< >>) = 0
           /\ s # << >> => Head(s) \in S /\ Tail(s) \in Seq(S)
           /\ \A x \in S : Append(s, x) \in Seq(S)
OBVIOUS

(* A frame cannot be taken for an exit code, nor an exit code for "run". *)
LEMMA ExitsAreNoIds == Exits \cap Ids = {} /\ "run" \notin Ids /\ "run" \notin Exits
BY RelayAssumption DEF Exits

(* No frame, answer or child of a session exists before RelayHost starts   *)
(* it.                                                                     *)
LEMMA RelayStarts == RelayInit => RelayInv
<1> SUFFICES ASSUME RelayInit PROVE RelayInv
  OBVIOUS
<1>1. asked \in [Ids -> Nat] /\ answered \in [Ids -> Nat]
      /\ \A id \in Ids : asked[id] = 0 /\ answered[id] = 0
  BY DEF RelayInit, Nothing
<1>2. RelayTypes
  BY <1>1 DEF RelayInit, RelayTypes
<1>3. Balanced
  BY <1>1 DEF RelayInit, Balanced
<1>4. ExitsAreTrue
  <2>1. Len(down) = 0 /\ loop.child = FALSE
    BY DEF RelayInit
  <2> QED
    BY <2>1 DEF ExitsAreTrue
<1> QED
  BY <1>2, <1>3, <1>4 DEF RelayInit, RelayInv, ReceivedAll, ChildIsContained, Returned

(* The sending goroutine: a request is pending, and late once the exit was read. *)
LEMMA ForwardKeepsRelay ==
    ASSUME RelayInv, NEW id \in Ids, ClientForward(id) PROVE RelayInv'
<1>1. UNCHANGED <<down, answered, received, client, stdout, child, loop, host>>
  BY DEF ClientForward, hostVars
<1>2. CASE ValidRequest(clientPend, id)
  <2>1. /\ clientPend' = clientPend \cup {id} /\ asked' = [asked EXCEPT ![id] = @ + 1]
        /\ late' = IF received = "run" THEN late ELSE late \cup {id}
        /\ id \notin clientPend
    BY <1>2 DEF ClientForward, ValidRequest
  <2>2. asked' \in [Ids -> Nat] /\ clientPend' \subseteq Ids
    BY <2>1 DEF RelayInv, RelayTypes
  <2>3. Balanced'
    BY <1>1, <2>1 DEF RelayInv, RelayTypes, Balanced
  <2>4. ReceivedAll'
    BY <1>1, <2>1 DEF RelayInv, RelayTypes, ReceivedAll
  <2> QED
    BY <1>1, <2>2, <2>3, <2>4 DEF RelayInv, RelayTypes, ExitsAreTrue, ChildIsContained
<1>3. CASE ~ValidRequest(clientPend, id)
  <2>1. UNCHANGED <<clientPend, asked, late>>
    BY <1>3 DEF ClientForward
  <2> QED
    BY <1>1, <2>1
    DEF RelayInv, RelayTypes, Balanced, ExitsAreTrue, ReceivedAll, ChildIsContained
<1> QED
  BY <1>2, <1>3

(* The receiving goroutine: an answer settles its request, an exit is judged. *)
LEMMA ReceiveKeepsRelay ==
    ASSUME RelayInv, ClientReceive \/ ClientWriteFails PROVE RelayInv'
<1>1. /\ received = "run" /\ client = "run"
      /\ UNCHANGED <<asked, client, late, stdout, child, loop, host>>
  BY DEF ClientReceive, ClientWriteFails, ideVars, hostVars
<1>2. down # << >> => /\ Head(down) = down[1] /\ Head(down) \in Replies
                      /\ Tail(down) \in Seq(Replies) /\ Len(Tail(down)) = Len(down) - 1
                      /\ \A i \in 1 .. Len(Tail(down)) : Tail(down)[i] = down[i + 1]
  BY DEF RelayInv, RelayTypes
<1>3. down # << >> /\ down' = Tail(down) => down' \in Seq(Replies) /\ ExitsAreTrue'
  <2> SUFFICES ASSUME down # << >>, down' = Tail(down) PROVE down' \in Seq(Replies) /\ ExitsAreTrue'
    OBVIOUS
  <2>1. ASSUME NEW i \in 1 .. Len(down'), down'[i] \notin Ids PROVE child = down'[i]
    <3>1. i + 1 \in 1 .. Len(down) /\ down'[i] = down[i + 1]
      BY <1>2 DEF RelayInv, RelayTypes
    <3> QED
      BY <2>1, <3>1 DEF RelayInv, ExitsAreTrue
  <2> QED
    BY <1>1, <1>2, <2>1 DEF RelayInv, ExitsAreTrue
<1>4. CASE down # << >> /\ Head(down) \in Ids /\ ValidResponse(clientPend, Head(down))
           /\ clientPend' = clientPend \ {Head(down)}
           /\ answered' = [answered EXCEPT ![Head(down)] = @ + 1]
           /\ UNCHANGED received /\ down' = Tail(down)
  <2>1. answered' \in [Ids -> Nat] /\ clientPend' \subseteq Ids
    BY <1>4 DEF RelayInv, RelayTypes
  <2>2. Balanced'
    BY <1>1, <1>4 DEF RelayInv, RelayTypes, Balanced, ValidResponse
  <2> QED
    BY <1>1, <1>3, <1>4, <2>1, <2>2 DEF RelayInv, RelayTypes, ReceivedAll, ChildIsContained
<1>5. CASE down # << >> /\ Head(down) \notin Ids /\ received' = ExitVerdict(Head(down))
           /\ down' = Tail(down) /\ UNCHANGED <<clientPend, answered>>
  <2>1. child = Head(down)
    <3>1. 1 \in 1 .. Len(down)
      BY <1>5 DEF RelayInv, RelayTypes
    <3> QED
      BY <1>2, <1>5, <3>1 DEF RelayInv, ExitsAreTrue
  <2>2. received' \in {"ok", "error"}
        /\ (received' = "ok" => child = "exit 0" /\ clientPend = {})
    BY <1>5, <2>1 DEF ExitVerdict
  <2>3. clientPend = {} => \A id \in Ids : answered[id] = asked[id]
    BY <1>1 DEF RelayInv, RelayTypes, Balanced
  <2> QED
    BY <1>1, <1>3, <1>5, <2>2, <2>3
    DEF RelayInv, RelayTypes, Balanced, ReceivedAll, ChildIsContained
<1>6. CASE received' = "error" /\ (down' = down \/ (down # << >> /\ down' = Tail(down)))
           /\ UNCHANGED <<clientPend, answered>>
  <2>1. down' \in Seq(Replies) /\ ExitsAreTrue'
    BY <1>1, <1>3, <1>6 DEF RelayInv, RelayTypes, ExitsAreTrue
  <2> QED
    BY <1>1, <1>6, <2>1 DEF RelayInv, RelayTypes, Balanced, ReceivedAll, ChildIsContained
<1>7. CASE ClientWriteFails
  <2>1. /\ down # << >> /\ down' = Tail(down) /\ received' = "error"
        /\ clientPend' \subseteq Ids /\ answered' = answered
    BY <1>7 DEF ClientWriteFails, ideVars, RelayInv, RelayTypes
  <2> QED
    BY <1>1, <1>3, <2>1 DEF RelayInv, RelayTypes, Balanced, ReceivedAll, ChildIsContained
<1> QED
  BY <1>4, <1>5, <1>6, <1>7 DEF ClientReceive

(* relayClient returns what the receiving goroutine said, or an error. *)
LEMMA ReturnKeepsRelay ==
    ASSUME RelayInv, ClientReturn \/ ClientInterrupted PROVE RelayInv'
<1>1. PICK v \in {"ok", "error"} : ClientCloses(v) /\ (v = "ok" => received = "ok")
  BY DEF ClientReturn, ClientInterrupted, RelayInv, RelayTypes
<1>2. /\ client' = v /\ down' = << >> /\ clientPend' = {}
      /\ received' = IF received = "run" THEN "error" ELSE received
      /\ UNCHANGED <<asked, answered, late, stdout, child, loop, host>>
  BY <1>1 DEF ClientCloses, ideVars, hostVars
<1>3. down' \in Seq(Replies) /\ Len(down') = 0 /\ ExitsAreTrue'
  <2>1. down' \in Seq(Replies) /\ Len(down') = 0
    BY <1>2
  <2> QED
    BY <1>2, <2>1 DEF RelayInv, ExitsAreTrue
<1> QED
  BY <1>1, <1>2, <1>3
  DEF RelayInv, RelayTypes, Balanced, ReceivedAll, ChildIsContained

(* The host's steps that send no frame: the books of the client stay, and an *)
(* agent that exited stays so.                                               *)
Quiet ==
    /\ UNCHANGED <<asked, answered, clientPend, received, client, late, down>>
    /\ stdout' \in Seq(Ids)
    /\ child' \in {"run"} \cup Exits /\ (child # "run" => child' = child)
    /\ loop' \in [child : BOOLEAN, output : BOOLEAN, input : BOOLEAN]
    /\ (loop'.child => child' # "run") /\ (host' \in Returned => child' # "run")

(* A quiet step keeps RelayInv. *)
LEMMA QuietKeepsRelay ==
    ASSUME RelayInv, Quiet PROVE RelayInv'
<1>1. ExitsAreTrue'
  <2>1. ASSUME NEW i \in 1 .. Len(down), down[i] \notin Ids PROVE child' = down[i]
    <3>1. down[i] \in Exits /\ child = down[i]
      BY <2>1 DEF RelayInv, RelayTypes, Replies, ExitsAreTrue
    <3> QED
      BY <3>1, ExitsAreNoIds DEF Quiet
  <2> QED
    BY <2>1 DEF Quiet, ExitsAreTrue
<1>2. ReceivedAll'
  BY DEF Quiet, RelayInv, ReceivedAll
<1> QED
  BY <1>1, <1>2 DEF Quiet, RelayInv, RelayTypes, Balanced, ChildIsContained

(* What the host, the agent and the network do without sending a frame is  *)
(* such a step.                                                            *)
LEMMA HostIsQuiet ==
    ASSUME RelayInv,
           \/ HostIncoming \/ LoopChild \/ LoopIncoming \/ LoopOutgoing \/ LoopDone
           \/ WaitedForChild \/ EofTimer \/ PingFails \/ ParentCancels \/ KillChild
           \/ AgentReads \/ (\E id \in Ids : AgentWrites(id))
           \/ (\E code \in {"exit 0", "exit 1"} : AgentExits(code))
           \/ ClientEnd \/ IdeCloses \/ IdeStopsReading \/ ConnectionLost \/ ConnectionSilent
    PROVE  Quiet
<1> USE DEF RelayInv, RelayTypes, ExitsAreTrue, ChildIsContained, Returned, ideVars, clientVars
<1>0. /\ << >> \in Seq(Ids) /\ (stdout # << >> => Tail(stdout) \in Seq(Ids))
      /\ \A id \in Ids : Append(stdout, id) \in Seq(Ids)
  BY Pipes
<1>1. CASE HostIncoming
  BY <1>1 DEF HostIncoming, Quiet
<1>2. CASE LoopChild
  BY <1>2 DEF LoopChild, Quiet
<1>3. CASE LoopIncoming
  BY <1>0, <1>3 DEF LoopIncoming, Abandon, Cancel, Quiet
<1>4. CASE LoopOutgoing
  BY <1>0, <1>4 DEF LoopOutgoing, Abandon, Cancel, Quiet
<1>5. CASE LoopDone
  BY <1>0, <1>5 DEF LoopDone, Abandon, Cancel, Quiet
<1>6. CASE WaitedForChild
  BY <1>6 DEF WaitedForChild, Quiet
<1>7. CASE EofTimer \/ PingFails \/ ParentCancels
  BY <1>0, <1>7 DEF EofTimer, PingFails, ParentCancels, Cancel, Quiet
<1>8. CASE KillChild
  BY <1>8 DEF KillChild, Exits, Quiet
<1>9. CASE AgentReads
  BY <1>9 DEF AgentReads, Quiet
<1>10. ASSUME NEW id \in Ids, AgentWrites(id) PROVE Quiet
  BY <1>0, <1>10 DEF AgentWrites, Quiet
<1>11. ASSUME NEW code \in {"exit 0", "exit 1"}, AgentExits(code) PROVE Quiet
  BY <1>11 DEF AgentExits, Exits, Quiet
<1>12. CASE ClientEnd \/ IdeCloses \/ IdeStopsReading \/ ConnectionLost \/ ConnectionSilent
  BY <1>12 DEF ClientEnd, IdeCloses, IdeStopsReading, ConnectionLost, ConnectionSilent, hostVars,
     Quiet
<1> QED
  BY <1>1, <1>2, <1>3, <1>4, <1>5, <1>6, <1>7, <1>8, <1>9, <1>10, <1>11, <1>12

(* The outgoing goroutine sends answers, and no other frame. *)
LEMMA OutgoingKeepsRelay ==
    ASSUME RelayInv, HostOutgoing PROVE RelayInv'
<1>1. UNCHANGED <<asked, answered, clientPend, received, client, late, child, loop, host>>
  BY DEF HostOutgoing, ideVars, clientVars
<1>2. stdout' \in Seq(Ids)
  <2>1. stdout' = stdout \/ (stdout # << >> /\ stdout' = Tail(stdout))
    BY DEF HostOutgoing
  <2>2. stdout \in Seq(Ids)
    BY DEF RelayInv, RelayTypes
  <2> QED
    BY <2>1, <2>2, Pipes
<1>3. CASE down' = down
  BY <1>1, <1>2, <1>3
     DEF RelayInv, RelayTypes, Balanced, ExitsAreTrue, ReceivedAll, ChildIsContained
<1>4. CASE stdout # << >> /\ down' = Append(down, Head(stdout))
  <2>1. Head(stdout) \in Ids
    BY <1>4 DEF RelayInv, RelayTypes
  <2>2. down' \in Seq(Replies)
    BY <1>4, <2>1 DEF RelayInv, RelayTypes, Replies
  <2>3. ExitsAreTrue'
    BY <1>1, <1>4, <2>1 DEF RelayInv, RelayTypes, ExitsAreTrue
  <2> QED
    BY <1>1, <1>2, <2>2, <2>3 DEF RelayInv, RelayTypes, Balanced, ReceivedAll, ChildIsContained
<1> QED
  BY <1>3, <1>4 DEF HostOutgoing

(* The exit frame is the agent's exit code. *)
LEMMA SendExitKeepsRelay ==
    ASSUME RelayInv, SendExit PROVE RelayInv'
<1>1. UNCHANGED <<asked, answered, clientPend, received, client, late, child, loop>>
      /\ stdout' = << >> /\ loop.child
  BY DEF SendExit, Cancel, ideVars, clientVars
<1>2. child \in Exits /\ child \notin Ids /\ child # "run"
  BY <1>1, ExitsAreNoIds DEF RelayInv, RelayTypes, ExitsAreTrue
<1>3. down' = down \/ down' = Append(down, child)
  BY DEF SendExit
<1>4. down' \in Seq(Replies) /\ ExitsAreTrue'
  <2>1. CASE down' = down
    BY <1>1, <2>1 DEF RelayInv, RelayTypes, ExitsAreTrue
  <2>2. CASE down' = Append(down, child)
    <3>1. down \in Seq(Replies) /\ child \in Replies
      BY <1>2 DEF RelayInv, RelayTypes, Replies
    <3>2. /\ down' \in Seq(Replies) /\ Len(down') = Len(down) + 1 /\ Len(down) \in Nat
          /\ down'[Len(down) + 1] = child /\ \A i \in 1 .. Len(down) : down'[i] = down[i]
      BY <2>2, <3>1
    <3> QED
      BY <1>1, <1>2, <3>2 DEF RelayInv, ExitsAreTrue
  <2> QED
    BY <1>3, <2>1, <2>2
<1>5. stdout' \in Seq(Ids)
  BY <1>1
<1> QED
  BY <1>1, <1>2, <1>4, <1>5 DEF RelayInv, RelayTypes, Balanced, ReceivedAll, ChildIsContained

(* Every step of the relay's two ends, of the agent and of the network     *)
(* keeps RelayInv.                                                         *)
LEMMA RelayStep == RelayInv /\ [RelayNext]_relayVars => RelayInv'
<1> SUFFICES ASSUME RelayInv, [RelayNext]_relayVars PROVE RelayInv'
  OBVIOUS
<1>1. CASE UNCHANGED relayVars
  BY <1>1 DEF relayVars, clientVars, ideVars, hostVars, RelayInv, RelayTypes, Balanced,
     ExitsAreTrue, ReceivedAll, ChildIsContained
<1>2. CASE RelayNext
  BY <1>2, ForwardKeepsRelay, ReceiveKeepsRelay, ReturnKeepsRelay, QuietKeepsRelay, HostIsQuiet,
     OutgoingKeepsRelay, SendExitKeepsRelay DEF RelayNext
<1> QED
  BY <1>1, <1>2

(* relayClient reports success only when the agent exited with 0 and every   *)
(* request accepted before its exit was read has been answered, for any      *)
(* ids, lines and buffers (ExitVerdict, ClientReturn).                       *)
THEOREM SuccessMeansComplete == RelaySpec => []SuccessIsComplete
<1>1. RelayInv => SuccessIsComplete
  BY DEF RelayInv, ReceivedAll, SuccessIsComplete
<1> QED
  BY <1>1, RelayStarts, RelayStep, PTL DEF RelaySpec

(* RelayHost never returns while the agent it started runs, on whichever of  *)
(* its paths it returns (LoopChild, Abandon, WaitedForChild, SendExit).      *)
THEOREM ChildIsAwaited == RelaySpec => []ChildIsContained
<1>1. RelayInv => ChildIsContained
  BY DEF RelayInv
<1> QED
  BY <1>1, RelayStarts, RelayStep, PTL DEF RelaySpec
=============================================================================
