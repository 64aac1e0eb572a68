---------------------- MODULE ClientInstallationProofs ----------------------
(***************************************************************************)
(* What a client installation keeps, for any set of processes and any      *)
(* bounds on keys, nodes and lost files: the lease excludes, a connected   *)
(* process is the identity on disk, and an installation that connected     *)
(* needs the loss of three files to connect as another.                    *)
(***************************************************************************)
EXTENDS ClientInstallation, FiniteSetTheorems, TLAPS

Identity == [key : 0 .. MaxKeys, node : 0 .. MaxNodes]
Store == [files : BOOLEAN, node : 0 .. MaxNodes, on : BOOLEAN]

TypeOK ==
    /\ key \in Torn .. MaxKeys /\ nodeId \in Torn .. MaxNodes
    /\ receipt \in 0 .. MaxNodes /\ store \in Store /\ profile \in Identity
    /\ lockFile \in Nat /\ inodes \in Nat /\ keys \in 0 .. MaxKeys /\ nodes \in 0 .. MaxNodes
    /\ pinned \in SUBSET Identity /\ lost \in 0 .. MaxLost
    /\ cmd \in [Procs -> Commands \cup {"none"}]
    /\ pc \in [Procs -> Inside \cup {"idle", "raw", "front", "open"}]
    /\ lease \in [Procs -> Nat] /\ asks \in [Procs -> BOOLEAN] /\ mem \in [Procs -> Identity]

(* The stages of OpenNetwork and Connect, each with the ones that follow it. *)
Relayed == {"session", "connected", "relay"}
Receipted == {"receipt"} \cup Relayed
Agreed == {"ready", "greeted"} \cup Receipted
Observed == {"pin"} \cup Agreed
Noded == {"node", "up"} \cup Observed
Keyed == {"installed"} \cup Noded

(* Only the holder of the lock file's inode is inside the installation. *)
Exclusive ==
    /\ \A p \in Procs :
         IF pc[p] \in Inside THEN lease[p] = lockFile /\ lockFile # 0 ELSE lease[p] = 0
    /\ \A p, q \in Procs : lease[p] # 0 /\ lease[q] # 0 => p = q

(* What a process inside has read or written is what the files hold. *)
Agrees(p) ==
    /\ pc[p] = "seed" => key = Torn /\ mem[p].key # 0
    /\ pc[p] \in Keyed => key = mem[p].key /\ key # 0
    /\ pc[p] \in Noded => store.node = mem[p].node /\ mem[p].node # 0
    /\ pc[p] = "up" => nodeId = Torn
    /\ pc[p] \in Observed => nodeId = mem[p].node
    /\ pc[p] \in Agreed => profile \in {NoIdentity, mem[p]}
    /\ pc[p] \in Receipted => receipt = mem[p].node
    /\ pc[p] \in Relayed => profile = mem[p]
OnDisk == (store.on => store.node # 0) /\ \A p \in Procs : Agrees(p)

InstallationInv == TypeOK /\ Exclusive /\ OnDisk

(* The files that no longer tell the identity x. *)
Missing(x) ==
    (IF profile = x THEN 0 ELSE 1) + (IF nodeId = x.node THEN 0 ELSE 1)
    + (IF receipt = x.node THEN 0 ELSE 1) + (IF key = x.key THEN 0 ELSE 1)

(* After a connection as x no file names another identity, but a node-id     *)
(* that was lost and rewritten; a file stopped naming x only by being lost.  *)
Pinned ==
    /\ \A p \in Procs : pc[p] = "removing" => pinned = {}
    /\ \A x \in pinned :
         /\ pinned = {x} /\ x.key # 0 /\ x.node # 0
         /\ profile \in {NoIdentity, x} /\ receipt \in {0, x.node} /\ key \in {0, x.key}
         /\ Missing(x) <= lost

(* A process that leaves gives the lease back and forgets its identity. *)
LEMMA LeavingShape ==
    ASSUME TypeOK, NEW p \in Procs, Back(p) \/ Gone(p)
    PROVE  /\ \E l \in {"idle", "front"} : pc' = [pc EXCEPT ![p] = l]
           /\ lease' = [lease EXCEPT ![p] = 0] /\ mem' = [mem EXCEPT ![p] = NoIdentity]
           /\ cmd' \in [Procs -> Commands \cup {"none"}] /\ asks' \in [Procs -> BOOLEAN]
           /\ pc' \in [Procs -> Inside \cup {"idle", "raw", "front", "open"}]
           /\ lease' \in [Procs -> Nat] /\ mem' \in [Procs -> Identity]
<1>1. NoIdentity \in Identity
  BY InstallationAssumption DEF NoIdentity, Identity
<1>2. \E l \in {"idle", "front"} : pc' = [pc EXCEPT ![p] = l]
  BY DEF Back, Gone, Goto
<1>3. lease' = [lease EXCEPT ![p] = 0] /\ mem' = [mem EXCEPT ![p] = NoIdentity]
  BY DEF Back, Gone
<1>4. cmd' \in [Procs -> Commands \cup {"none"}] /\ asks' \in [Procs -> BOOLEAN]
  BY DEF TypeOK, Back, Gone
<1>5. pc' \in [Procs -> Inside \cup {"idle", "raw", "front", "open"}]
  BY <1>2 DEF TypeOK
<1>6. lease' \in [Procs -> Nat] /\ mem' \in [Procs -> Identity]
  BY <1>1, <1>3 DEF TypeOK
<1> QED
  BY <1>2, <1>3, <1>4, <1>5, <1>6

(* Stages follow one another inside the installation. *)
LEMMA Stages ==
    /\ Relayed \subseteq Receipted /\ Receipted \subseteq Agreed /\ Agreed \subseteq Observed
    /\ Observed \subseteq Noded /\ Noded \subseteq Keyed /\ Keyed \subseteq Inside
    /\ "seed" \in Inside /\ "up" \in Inside /\ "removing" \in Inside
BY DEF Relayed, Receipted, Agreed, Observed, Noded, Keyed, Inside

(* Two processes are never inside at once. *)
LEMMA Alone ==
    ASSUME InstallationInv, NEW p \in Procs, NEW q \in Procs,
           pc[p] \in Inside, pc[q] \in Inside
    PROVE  p = q
BY DEF InstallationInv, Exclusive

(* Without a lock file nobody is inside. *)
LEMMA NoLockNoLease ==
    ASSUME InstallationInv, NEW p \in Procs, lockFile = 0
    PROVE  pc[p] \notin Inside /\ lease[p] = 0
BY DEF InstallationInv, Exclusive

(* A process may leave whatever the others do. *)
LEMMA LeavingKeeps ==
    ASSUME InstallationInv, NEW p \in Procs, Back(p) \/ Gone(p),
           UNCHANGED <<key, nodeId, receipt, profile>>, store'.node = store.node,
           store'.on => store.on, lockFile' = lockFile \/ lockFile = 0
    PROVE  Exclusive' /\ OnDisk'
<1>1. PICK l \in {"idle", "front"} : pc' = [pc EXCEPT ![p] = l]
  BY LeavingShape DEF InstallationInv
<1>2. lease' = [lease EXCEPT ![p] = 0] /\ mem' = [mem EXCEPT ![p] = NoIdentity]
  BY LeavingShape DEF InstallationInv
<1>3. l \notin Inside
  BY DEF Inside
<1>4. \A q \in Procs \ {p} : pc'[q] = pc[q] /\ lease'[q] = lease[q] /\ mem'[q] = mem[q]
  BY <1>1, <1>2 DEF InstallationInv, TypeOK
<1>5. pc'[p] = l /\ lease'[p] = 0
  BY <1>1, <1>2 DEF InstallationInv, TypeOK
<1>6. Exclusive'
  <2>1. \A q \in Procs :
          IF pc'[q] \in Inside THEN lease'[q] = lockFile' /\ lockFile' # 0 ELSE lease'[q] = 0
    BY <1>3, <1>4, <1>5 DEF InstallationInv, Exclusive
  <2>2. \A q, r \in Procs : lease'[q] # 0 /\ lease'[r] # 0 => q = r
    BY <1>4, <1>5 DEF InstallationInv, Exclusive
  <2> QED
    BY <2>1, <2>2 DEF Exclusive
<1>7. \A q \in Procs \ {p} : Agrees(q)'
  BY <1>4 DEF InstallationInv, OnDisk, Agrees
<1>8. Agrees(p)'
  BY <1>3, <1>5, Stages DEF Agrees
<1> QED
  BY <1>6, <1>7, <1>8 DEF InstallationInv, OnDisk

(* A process inside may change files the others have not read. *)
LEMMA InsideKeeps ==
    ASSUME InstallationInv, NEW p \in Procs, pc[p] \in Inside, NEW l \in Inside,
           pc' = [pc EXCEPT ![p] = l], lease' = lease, lockFile' = lockFile,
           store'.on => store'.node # 0, Agrees(p)'
    PROVE  Exclusive' /\ OnDisk'
<1>1. pc'[p] = l /\ \A q \in Procs \ {p} : pc'[q] = pc[q] /\ pc'[q] \notin Inside
  BY Alone DEF InstallationInv, TypeOK
<1>2. Exclusive'
  BY <1>1 DEF InstallationInv, Exclusive
<1>3. \A q \in Procs \ {p} : Agrees(q)'
  BY <1>1, Stages DEF Agrees
<1> QED
  BY <1>2, <1>3 DEF OnDisk

(* A process outside may move about there. *)
LEMMA OutsideKeeps ==
    ASSUME InstallationInv, NEW p \in Procs, pc[p] \notin Inside,
           NEW l \in {"raw", "front", "open"}, pc' = [pc EXCEPT ![p] = l],
           UNCHANGED <<key, nodeId, store, receipt, profile, lockFile, lease, mem>>
    PROVE  Exclusive' /\ OnDisk'
<1>1. l \notin Inside /\ pc'[p] = l /\ \A q \in Procs \ {p} : pc'[q] = pc[q]
  BY DEF InstallationInv, TypeOK, Inside
<1>2. Exclusive'
  BY <1>1 DEF InstallationInv, Exclusive
<1>3. \A q \in Procs \ {p} : Agrees(q)'
  BY <1>1 DEF InstallationInv, OnDisk, Agrees
<1>4. Agrees(p)'
  BY <1>1, Stages DEF Agrees
<1> QED
  BY <1>2, <1>3, <1>4 DEF InstallationInv, OnDisk


(* A failed step ends outside and changes no file. *)
LEMMA FailKeeps ==
    ASSUME InstallationInv, NEW p \in Procs, Back(p) \/ Gone(p), UNCHANGED <<files, env>>
    PROVE  InstallationInv'
<1>1. TypeOK'
  BY LeavingShape DEF InstallationInv, TypeOK, files, env
<1>2. Exclusive' /\ OnDisk'
  BY LeavingKeeps DEF InstallationInv, files, env
<1> QED
  BY <1>1, <1>2 DEF InstallationInv

(* The commands and the ACP front end work outside until they open. *)
LEMMA FrontKeeps ==
    ASSUME InstallationInv, NEW p \in Procs,
           Start(p) \/ Initialize(p) \/ Front(p) \/ FrontEnds(p) \/ Crash(p)
    PROVE  InstallationInv'
<1>1. CASE FrontEnds(p) \/ Crash(p)
  BY <1>1, FailKeeps DEF FrontEnds, Crash
<1>2. CASE Start(p) \/ Initialize(p) \/ Front(p)
  <2>1. TypeOK'
    BY <1>2 DEF InstallationInv, TypeOK, Start, Initialize, Front, Goto, files, env, Commands,
       Inside
  <2>2. CASE pc[p] \in {"idle", "raw", "front"}
    <3>1. \E l \in {"raw", "front", "open"} : pc' = [pc EXCEPT ![p] = l]
      BY <1>2, <2>2 DEF Start, Initialize, Front, Goto
    <3>2. UNCHANGED <<key, nodeId, store, receipt, profile, lockFile, lease, mem>>
      BY <1>2 DEF Start, Initialize, Front, files, env
    <3>3. pc[p] \notin Inside
      BY <2>2 DEF Inside
    <3> QED
      BY <2>1, <3>1, <3>2, <3>3, OutsideKeeps DEF InstallationInv
  <2>3. CASE pc[p] = "connected"
    <3>1. pc' = [pc EXCEPT ![p] = "relay"] /\ UNCHANGED <<files, env, lease, mem>>
      BY <1>2, <2>3 DEF Start, Initialize, Front, Goto
    <3>2. pc'[p] = "relay"
      BY <3>1 DEF InstallationInv, TypeOK
    <3>3. Agrees(p)'
      BY <2>3, <3>1, <3>2 DEF InstallationInv, OnDisk, Agrees, files, Keyed, Noded, Observed,
         Agreed, Receipted, Relayed
    <3>4. "relay" \in Inside /\ pc[p] \in Inside
      BY <2>3 DEF Inside
    <3>5. Exclusive' /\ OnDisk'
      BY <3>1, <3>3, <3>4, InsideKeeps DEF InstallationInv, OnDisk, files, env
    <3> QED
      BY <2>1, <3>5 DEF InstallationInv
  <2> QED
    BY <1>2, <2>2, <2>3 DEF Start, Initialize, Front
<1> QED
  BY <1>1, <1>2

(* The lease is taken only where nobody else is inside, and the key on disk  *)
(* becomes the process's own.                                                *)
LEMMA OpenInstallationKeeps ==
    ASSUME InstallationInv, NEW p \in Procs, OpenInstallation(p)
    PROVE  InstallationInv'
<1> DEFINE inode == IF lockFile = 0 THEN inodes + 1 ELSE lockFile
<1>1. CASE Fail(p)
  BY <1>1, FailKeeps DEF Fail
<1>2. CASE ~Fail(p)
  <2>1. /\ \A q \in Procs \ {p} : lease[q] # inode
        /\ lockFile' = inode /\ inodes' = (IF lockFile = 0 THEN inodes + 1 ELSE inodes)
        /\ UNCHANGED <<nodeId, store, receipt, profile, nodes, pinned, lost>>
        /\ pc[p] = "open"
    BY <1>2 DEF OpenInstallation
  <2>2. lockFile' \in Nat /\ lockFile' # 0 /\ inodes' \in Nat
    BY <2>1 DEF InstallationInv, TypeOK
  <2>3. \A q \in Procs \ {p} : pc[q] \notin Inside /\ lease[q] = 0
    BY <2>1 DEF InstallationInv, Exclusive
  <2>4. CASE Back(p) /\ UNCHANGED <<key, keys>>
    <3>1. TypeOK'
      BY <2>1, <2>2, <2>4, LeavingShape DEF InstallationInv, TypeOK
    <3>2. Exclusive' /\ OnDisk'
      BY <2>1, <2>4, LeavingKeeps DEF InstallationInv
    <3> QED
      BY <3>1, <3>2 DEF InstallationInv
  <2>5. ASSUME NEW l \in {"seed", "installed"}, pc' = [pc EXCEPT ![p] = l],
               lease' = [lease EXCEPT ![p] = inode], NEW k \in 0 .. MaxKeys,
               mem' = [mem EXCEPT ![p].key = k], k # 0, UNCHANGED <<cmd, asks>>,
               key' \in Torn .. MaxKeys, keys' \in 0 .. MaxKeys,
               IF l = "seed" THEN key' = Torn ELSE key' = k
        PROVE  InstallationInv'
    <3>1. mem' \in [Procs -> Identity] /\ mem'[p].key = k
      BY <2>5 DEF InstallationInv, TypeOK, Identity
    <3>2. pc' \in [Procs -> Inside \cup {"idle", "raw", "front", "open"}] /\ l \in Inside
      BY <2>5 DEF InstallationInv, TypeOK, Inside
    <3>3. lease' \in [Procs -> Nat] /\ inode \in Nat /\ inode # 0
      BY <2>1, <2>2, <2>5 DEF InstallationInv, TypeOK
    <3>4. TypeOK'
      BY <2>1, <2>2, <2>5, <3>1, <3>2, <3>3 DEF InstallationInv, TypeOK
    <3>5. /\ pc'[p] = l /\ lease'[p] = inode
          /\ \A q \in Procs \ {p} : pc'[q] = pc[q] /\ lease'[q] = lease[q]
      BY <2>5 DEF InstallationInv, TypeOK
    <3>6. Exclusive'
      <4>1. \A q \in Procs :
              IF pc'[q] \in Inside THEN lease'[q] = lockFile' /\ lockFile' # 0 ELSE lease'[q] = 0
        BY <2>1, <2>2, <2>3, <3>2, <3>5
      <4>2. \A q, r \in Procs : lease'[q] # 0 /\ lease'[r] # 0 => q = r
        BY <2>3, <3>5
      <4> QED
        BY <4>1, <4>2 DEF Exclusive
    <3>7. \A q \in Procs \ {p} : Agrees(q)'
      BY <2>3, <3>5, Stages DEF Agrees
    <3>8. Agrees(p)'
      BY <2>5, <3>1, <3>5
      DEF Agrees, Keyed, Noded, Observed, Agreed, Receipted, Relayed
    <3> QED
      BY <2>1, <3>4, <3>6, <3>7, <3>8 DEF InstallationInv, OnDisk
  <2>6. CASE key > 0 /\ ~Back(p)
    <3>1. /\ pc' = [pc EXCEPT ![p] = "installed"] /\ lease' = [lease EXCEPT ![p] = inode]
          /\ mem' = [mem EXCEPT ![p].key = key] /\ UNCHANGED <<cmd, asks, key, keys>>
      BY <1>2, <2>6 DEF OpenInstallation, Goto, Torn
    <3>2. key \in 0 .. MaxKeys /\ key # 0
      BY <2>6, InstallationAssumption DEF InstallationInv, TypeOK, Torn
    <3> QED
      BY <2>5, <3>1, <3>2 DEF InstallationInv, TypeOK
  <2>7. CASE key = 0 /\ ~Back(p)
    <3>1. /\ pc' = [pc EXCEPT ![p] = "seed"] /\ lease' = [lease EXCEPT ![p] = inode]
          /\ mem' = [mem EXCEPT ![p].key = keys + 1] /\ UNCHANGED <<cmd, asks>>
          /\ key' = Torn /\ keys' = keys + 1 /\ keys < MaxKeys
      BY <1>2, <2>7 DEF OpenInstallation, Goto
    <3>2. keys + 1 \in 0 .. MaxKeys /\ keys + 1 # 0 /\ Torn \in Torn .. MaxKeys
      BY <3>1, InstallationAssumption DEF InstallationInv, TypeOK, Torn
    <3> QED
      BY <2>5, <3>1, <3>2
  <2>8. key > 0 \/ key = 0 \/ (Back(p) /\ UNCHANGED <<key, keys>>)
    BY <1>2 DEF OpenInstallation
  <2>9. Back(p) => UNCHANGED <<key, keys>>
    <3> SUFFICES ASSUME Back(p) PROVE UNCHANGED <<key, keys>>
      OBVIOUS
    <3>1. pc' # [pc EXCEPT ![p] = "installed"] /\ pc' # [pc EXCEPT ![p] = "seed"]
      BY LeavingShape DEF InstallationInv, TypeOK
    <3> QED
      BY <1>2, <3>1 DEF OpenInstallation, Goto
  <2> QED
    BY <2>4, <2>6, <2>7, <2>8, <2>9
<1> QED
  BY <1>1, <1>2

(* The new key reaches the disk before anything else uses it. *)
LEMMA WriteKeyKeeps ==
    ASSUME InstallationInv, NEW p \in Procs, WriteKey(p)
    PROVE  InstallationInv'
<1>1. CASE Fail(p)
  BY <1>1, FailKeeps DEF Fail
<1>2. CASE ~Fail(p)
  <2>1. pc[p] = "seed" /\ pc' = [pc EXCEPT ![p] = "installed"] /\ lease' = lease /\ lockFile' = lockFile
    BY <1>2 DEF WriteKey, Goto, env
  <2>2. pc'[p] = "installed" /\ "installed" \in Inside /\ pc[p] \in Inside
    BY <2>1 DEF InstallationInv, TypeOK, Inside
  <2>3. TypeOK'
    BY <1>2, <2>1, InstallationAssumption
       DEF InstallationInv, TypeOK, WriteKey, Goto, files, env, Inside, Identity, Torn
  <2>4. Agrees(p)'
    BY <1>2, <2>1, <2>2 DEF InstallationInv, TypeOK, OnDisk, Agrees, WriteKey, files,
       Keyed, Noded, Observed, Agreed, Receipted, Relayed
  <2>5. store'.on => store'.node # 0
    BY <1>2 DEF InstallationInv, OnDisk, WriteKey, files
  <2> QED
    BY <2>1, <2>2, <2>3, <2>4, <2>5, InsideKeeps DEF InstallationInv
<1> QED
  BY <1>1, <1>2

(* The node on disk is the one the network runs as. *)
LEMMA ObserveNodeKeeps ==
    ASSUME InstallationInv, NEW p \in Procs, ObserveNode(p)
    PROVE  InstallationInv'
<1>1. CASE Fail(p)
  BY <1>1, FailKeeps DEF Fail
<1>2. CASE ~Fail(p) /\ nodeId = 0
  <2>1. pc[p] = "node" /\ pc' = [pc EXCEPT ![p] = "up"] /\ lease' = lease /\ lockFile' = lockFile
    BY <1>2 DEF ObserveNode, Goto, env,
       InstallationInv, OnDisk, Agrees, Noded, Observed, Agreed, Receipted, Relayed
  <2>2. pc'[p] = "up" /\ "up" \in Inside /\ pc[p] \in Inside
    BY <2>1 DEF InstallationInv, TypeOK, Inside
  <2>3. TypeOK'
    BY <1>2, <2>1, InstallationAssumption
       DEF InstallationInv, TypeOK, ObserveNode, Goto, files, env, Inside, Identity, Torn
  <2>4. Agrees(p)'
    BY <1>2, <2>1, <2>2 DEF InstallationInv, TypeOK, OnDisk, Agrees, ObserveNode, files,
       Keyed, Noded, Observed, Agreed, Receipted, Relayed
  <2>5. store'.on => store'.node # 0
    BY <1>2 DEF InstallationInv, OnDisk, ObserveNode, files
  <2> QED
    BY <2>1, <2>2, <2>3, <2>4, <2>5, InsideKeeps DEF InstallationInv
<1>3. CASE ~Fail(p) /\ nodeId # 0
  <2>1. pc[p] = "node" /\ pc' = [pc EXCEPT ![p] = "pin"] /\ lease' = lease /\ lockFile' = lockFile
    BY <1>3 DEF ObserveNode, Goto, env
  <2>2. pc'[p] = "pin" /\ "pin" \in Inside /\ pc[p] \in Inside
    BY <2>1 DEF InstallationInv, TypeOK, Inside
  <2>3. TypeOK'
    BY <1>3, <2>1, InstallationAssumption
       DEF InstallationInv, TypeOK, ObserveNode, Goto, files, env, Inside
  <2>4. Agrees(p)'
    BY <1>3, <2>1, <2>2 DEF InstallationInv, TypeOK, OnDisk, Agrees, ObserveNode, files,
       Keyed, Noded, Observed, Agreed, Receipted, Relayed
  <2>5. store'.on => store'.node # 0
    BY <1>3 DEF InstallationInv, OnDisk, ObserveNode, files
  <2> QED
    BY <2>1, <2>2, <2>3, <2>4, <2>5, InsideKeeps DEF InstallationInv
<1> QED
  BY <1>1, <1>2, <1>3

(* The file just created gets the node. *)
LEMMA WriteNodeKeeps ==
    ASSUME InstallationInv, NEW p \in Procs, WriteNode(p)
    PROVE  InstallationInv'
<1>1. CASE Fail(p)
  BY <1>1, FailKeeps DEF Fail
<1>2. CASE ~Fail(p)
  <2>1. pc[p] = "up" /\ pc' = [pc EXCEPT ![p] = "pin"] /\ lease' = lease /\ lockFile' = lockFile
    BY <1>2 DEF WriteNode, Goto, env
  <2>2. pc'[p] = "pin" /\ "pin" \in Inside /\ pc[p] \in Inside
    BY <2>1 DEF InstallationInv, TypeOK, Inside
  <2>3. TypeOK'
    BY <1>2, <2>1, InstallationAssumption
       DEF InstallationInv, TypeOK, WriteNode, Goto, files, env, Inside, Identity, Torn
  <2>4. Agrees(p)'
    BY <1>2, <2>1, <2>2 DEF InstallationInv, TypeOK, OnDisk, Agrees, WriteNode, files,
       Keyed, Noded, Observed, Agreed, Receipted, Relayed
  <2>5. store'.on => store'.node # 0
    BY <1>2 DEF InstallationInv, OnDisk, WriteNode, files
  <2> QED
    BY <2>1, <2>2, <2>3, <2>4, <2>5, InsideKeeps DEF InstallationInv
<1> QED
  BY <1>1, <1>2

(* checkProfile lets only the same identity pass. *)
LEMMA WaitForHubKeeps ==
    ASSUME InstallationInv, NEW p \in Procs, WaitForHub(p)
    PROVE  InstallationInv'
<1>1. CASE Fail(p)
  BY <1>1, FailKeeps DEF Fail
<1>2. CASE ~Fail(p)
  <2>1. pc[p] = "pin" /\ pc' = [pc EXCEPT ![p] = "ready"] /\ lease' = lease /\ lockFile' = lockFile
    BY <1>2 DEF WaitForHub, ProfileAgrees, Goto, env
  <2>2. pc'[p] = "ready" /\ "ready" \in Inside /\ pc[p] \in Inside
    BY <2>1 DEF InstallationInv, TypeOK, Inside
  <2>3. TypeOK'
    BY <1>2, <2>1, InstallationAssumption
       DEF InstallationInv, TypeOK, WaitForHub, ProfileAgrees, Goto, files, env, Inside
  <2>4. Agrees(p)'
    BY <1>2, <2>1, <2>2
       DEF InstallationInv, TypeOK, OnDisk, Agrees, WaitForHub, ProfileAgrees, files,
       Keyed, Noded, Observed, Agreed, Receipted, Relayed
  <2>5. store'.on => store'.node # 0
    BY <1>2 DEF InstallationInv, OnDisk, WaitForHub, ProfileAgrees, files
  <2> QED
    BY <2>1, <2>2, <2>3, <2>4, <2>5, InsideKeeps DEF InstallationInv
<1> QED
  BY <1>1, <1>2

(* The handshake leaves the files alone. *)
LEMMA ClientHandshakeKeeps ==
    ASSUME InstallationInv, NEW p \in Procs, ClientHandshake(p)
    PROVE  InstallationInv'
<1>1. CASE Fail(p)
  BY <1>1, FailKeeps DEF Fail
<1>2. CASE ~Fail(p)
  <2>1. pc[p] = "ready" /\ pc' = [pc EXCEPT ![p] = "greeted"] /\ lease' = lease /\ lockFile' = lockFile
    BY <1>2 DEF ClientHandshake, Goto, env
  <2>2. pc'[p] = "greeted" /\ "greeted" \in Inside /\ pc[p] \in Inside
    BY <2>1 DEF InstallationInv, TypeOK, Inside
  <2>3. TypeOK'
    BY <1>2, <2>1, InstallationAssumption
       DEF InstallationInv, TypeOK, ClientHandshake, Goto, files, env, Inside
  <2>4. Agrees(p)'
    BY <1>2, <2>1, <2>2 DEF InstallationInv, TypeOK, OnDisk, Agrees, ClientHandshake, files,
       Keyed, Noded, Observed, Agreed, Receipted, Relayed
  <2>5. store'.on => store'.node # 0
    BY <1>2 DEF InstallationInv, OnDisk, ClientHandshake, files
  <2> QED
    BY <2>1, <2>2, <2>3, <2>4, <2>5, InsideKeeps DEF InstallationInv
<1> QED
  BY <1>1, <1>2

(* The receipt names the node. *)
LEMMA SaveRegistrationKeeps ==
    ASSUME InstallationInv, NEW p \in Procs, SaveRegistration(p)
    PROVE  InstallationInv'
<1>1. CASE Fail(p)
  BY <1>1, FailKeeps DEF Fail
<1>2. CASE ~Fail(p)
  <2>1. pc[p] = "greeted" /\ pc' = [pc EXCEPT ![p] = "receipt"] /\ lease' = lease /\ lockFile' = lockFile
    BY <1>2 DEF SaveRegistration, Goto, env
  <2>2. pc'[p] = "receipt" /\ "receipt" \in Inside /\ pc[p] \in Inside
    BY <2>1 DEF InstallationInv, TypeOK, Inside
  <2>3. TypeOK'
    BY <1>2, <2>1, InstallationAssumption
       DEF InstallationInv, TypeOK, SaveRegistration, Goto, files, env, Inside, Identity
  <2>4. Agrees(p)'
    BY <1>2, <2>1, <2>2 DEF InstallationInv, TypeOK, OnDisk, Agrees, SaveRegistration, files,
       Keyed, Noded, Observed, Agreed, Receipted, Relayed
  <2>5. store'.on => store'.node # 0
    BY <1>2 DEF InstallationInv, OnDisk, SaveRegistration, files
  <2> QED
    BY <2>1, <2>2, <2>3, <2>4, <2>5, InsideKeeps DEF InstallationInv
<1> QED
  BY <1>1, <1>2

(* The profile names the identity. *)
LEMMA SaveProfileKeeps ==
    ASSUME InstallationInv, NEW p \in Procs, SaveProfile(p)
    PROVE  InstallationInv'
<1>1. CASE Fail(p)
  BY <1>1, FailKeeps DEF Fail
<1>2. CASE ~Fail(p)
  <2>1. pc[p] = "receipt" /\ pc' = [pc EXCEPT ![p] = "session"] /\ lease' = lease /\ lockFile' = lockFile
    BY <1>2 DEF SaveProfile, ProfileAgrees, Goto, env
  <2>2. pc'[p] = "session" /\ "session" \in Inside /\ pc[p] \in Inside
    BY <2>1 DEF InstallationInv, TypeOK, Inside
  <2>3. TypeOK'
    BY <1>2, <2>1, InstallationAssumption
       DEF InstallationInv, TypeOK, SaveProfile, ProfileAgrees, Goto, files, env, Inside
  <2>4. Agrees(p)'
    BY <1>2, <2>1, <2>2
       DEF InstallationInv, TypeOK, OnDisk, Agrees, SaveProfile, ProfileAgrees, files,
       Keyed, Noded, Observed, Agreed, Receipted, Relayed
  <2>5. store'.on => store'.node # 0
    BY <1>2 DEF InstallationInv, OnDisk, SaveProfile, ProfileAgrees, files
  <2> QED
    BY <2>1, <2>2, <2>3, <2>4, <2>5, InsideKeeps DEF InstallationInv
<1> QED
  BY <1>1, <1>2

(* A second connection and the agent find the files in place. *)
LEMMA ConnectedKeeps ==
    ASSUME InstallationInv, NEW p \in Procs, Connected(p)
    PROVE  InstallationInv'
<1>1. CASE Fail(p)
  BY <1>1, FailKeeps DEF Fail
<1>2. CASE ~Fail(p) /\ cmd[p] = "verify"
  <2>1. pc[p] = "session" /\ pc' = [pc EXCEPT ![p] = "ready"] /\ lease' = lease /\ lockFile' = lockFile
    BY <1>2 DEF Connected, Goto, env
  <2>2. pc'[p] = "ready" /\ "ready" \in Inside /\ pc[p] \in Inside
    BY <2>1 DEF InstallationInv, TypeOK, Inside
  <2>3. TypeOK'
    BY <1>2, <2>1, InstallationAssumption
       DEF InstallationInv, TypeOK, Connected, Goto, files, env, Inside, Commands
  <2>4. Agrees(p)'
    BY <1>2, <2>1, <2>2 DEF InstallationInv, TypeOK, OnDisk, Agrees, Connected, files,
       Keyed, Noded, Observed, Agreed, Receipted, Relayed
  <2>5. store'.on => store'.node # 0
    BY <1>2 DEF InstallationInv, OnDisk, Connected, files
  <2> QED
    BY <2>1, <2>2, <2>3, <2>4, <2>5, InsideKeeps DEF InstallationInv
<1>3. CASE ~Fail(p) /\ cmd[p] # "verify"
  <2>1. pc[p] = "session" /\ pc' = [pc EXCEPT ![p] = "connected"] /\ lease' = lease /\ lockFile' = lockFile
    BY <1>3 DEF Connected, Goto, env
  <2>2. pc'[p] = "connected" /\ "connected" \in Inside /\ pc[p] \in Inside
    BY <2>1 DEF InstallationInv, TypeOK, Inside
  <2>3. TypeOK'
    BY <1>3, <2>1, InstallationAssumption
       DEF InstallationInv, TypeOK, Connected, Goto, files, env, Inside
  <2>4. Agrees(p)'
    BY <1>3, <2>1, <2>2 DEF InstallationInv, TypeOK, OnDisk, Agrees, Connected, files,
       Keyed, Noded, Observed, Agreed, Receipted, Relayed
  <2>5. store'.on => store'.node # 0
    BY <1>3 DEF InstallationInv, OnDisk, Connected, files
  <2> QED
    BY <2>1, <2>2, <2>3, <2>4, <2>5, InsideKeeps DEF InstallationInv
<1> QED
  BY <1>1, <1>2, <1>3

(* A login changes the store of the only process inside. *)
LEMMA UpKeeps ==
    ASSUME InstallationInv, NEW p \in Procs, Up(p)
    PROVE  InstallationInv'
<1>0. pc[p] = "installed" /\ pc[p] \in Inside /\ "node" \in Inside
  BY DEF Up, Inside
<1>1. CASE Back(p) /\ store' = [store EXCEPT !.files = TRUE]
           /\ UNCHANGED <<key, nodeId, receipt, profile, env>>
  <2>1. store' \in Store /\ store'.node = store.node /\ store'.on = store.on
    BY <1>1 DEF InstallationInv, TypeOK, Store
  <2>2. TypeOK'
    BY <1>1, <2>1, LeavingShape DEF InstallationInv, TypeOK, env
  <2>3. Exclusive' /\ OnDisk'
    BY <1>1, <2>1, LeavingKeeps DEF InstallationInv, env
  <2> QED
    BY <2>2, <2>3 DEF InstallationInv
<1>2. ASSUME NEW n \in 1 .. MaxNodes, mem' = [mem EXCEPT ![p].node = n], Goto(p, "node"),
             store' \in Store, store'.node = n, nodes' \in 0 .. MaxNodes,
             UNCHANGED <<key, nodeId, receipt, profile, lockFile, inodes, keys, pinned, lost,
                         cmd, lease, asks>>
      PROVE  InstallationInv'
  <2>1. pc' = [pc EXCEPT ![p] = "node"] /\ pc'[p] = "node"
    BY <1>2 DEF Goto, InstallationInv, TypeOK
  <2>2. mem' \in [Procs -> Identity] /\ mem'[p].node = n /\ mem'[p].key = mem[p].key
    BY <1>2 DEF InstallationInv, TypeOK, Identity
  <2>3. TypeOK'
    BY <1>0, <1>2, <2>1, <2>2 DEF InstallationInv, TypeOK
  <2>4. Agrees(p)'
    BY <1>0, <1>2, <2>1, <2>2 DEF InstallationInv, OnDisk, Agrees, Keyed, Noded, Observed,
       Agreed, Receipted, Relayed
  <2>5. store'.node # 0
    BY <1>2
  <2> QED
    BY <1>0, <1>2, <2>1, <2>3, <2>4, <2>5, InsideKeeps DEF InstallationInv
<1>3. CASE store.on /\ mem' = [mem EXCEPT ![p].node = store.node] /\ Goto(p, "node")
           /\ UNCHANGED <<files, env, cmd, lease, asks>>
  <2>1. store.node \in 1 .. MaxNodes
    BY <1>3 DEF InstallationInv, TypeOK, OnDisk, Store
  <2> QED
    BY <1>2, <1>3, <2>1 DEF InstallationInv, TypeOK, files, env
<1>4. ASSUME NEW n \in Logins,
             store' = [files |-> TRUE, node |-> n, on |-> TRUE],
             nodes' = IF n > nodes THEN n ELSE nodes,
             mem' = [mem EXCEPT ![p].node = n], Goto(p, "node"),
             UNCHANGED <<key, nodeId, receipt, profile, lockFile, inodes, keys, pinned, lost,
                         cmd, lease, asks>>
      PROVE  InstallationInv'
  <2>1. n \in 1 .. MaxNodes
    BY InstallationAssumption DEF Logins, InstallationInv, TypeOK, Store
  <2>2. nodes' \in 0 .. MaxNodes /\ store' \in Store /\ store'.node = n
    BY <1>4, <2>1 DEF Store, InstallationInv, TypeOK
  <2> QED
    BY <1>2, <1>4, <2>1, <2>2
<1> QED
  BY <1>1, <1>3, <1>4 DEF Up

(* A logout changes the store; a reset then goes on alone. *)
LEMMA LogoutKeeps ==
    ASSUME InstallationInv, NEW p \in Procs, Logout(p)
    PROVE  InstallationInv'
<1>0. /\ pc[p] = "installed" /\ pc[p] \in Inside /\ "removing" \in Inside
      /\ UNCHANGED <<key, nodeId, receipt, profile, lockFile, inodes, keys, nodes, lost>>
  BY DEF Logout, Inside
<1>1. \E on \in {store.on, FALSE} : store' = [store EXCEPT !.files = TRUE, !.on = on]
  BY DEF Logout
<1>2. store' \in Store /\ store'.node = store.node /\ (store'.on => store.on)
  BY <1>1 DEF InstallationInv, TypeOK, Store
<1>3. CASE Gone(p) /\ UNCHANGED pinned
  <2>1. TypeOK'
    BY <1>0, <1>2, <1>3, LeavingShape DEF InstallationInv, TypeOK
  <2>2. Exclusive' /\ OnDisk'
    BY <1>0, <1>2, <1>3, LeavingKeeps DEF InstallationInv
  <2> QED
    BY <2>1, <2>2 DEF InstallationInv
<1>4. CASE Goto(p, "removing") /\ pinned' = {} /\ UNCHANGED <<cmd, lease, asks, mem>>
  <2>1. pc' = [pc EXCEPT ![p] = "removing"] /\ pc'[p] = "removing"
    BY <1>4 DEF Goto, InstallationInv, TypeOK
  <2>2. TypeOK'
    BY <1>0, <1>2, <1>4, <2>1 DEF InstallationInv, TypeOK
  <2>3. Agrees(p)'
    BY <2>1 DEF Agrees, Keyed, Noded, Observed, Agreed, Receipted, Relayed
  <2>4. store'.on => store'.node # 0
    BY <1>2 DEF InstallationInv, OnDisk
  <2> QED
    BY <1>0, <1>4, <2>1, <2>2, <2>3, <2>4, InsideKeeps DEF InstallationInv
<1> QED
  BY <1>3, <1>4 DEF Logout

(* The lock file is not among the entries a reset or an accident removes. *)
LEMMA RemovableShape ==
    ASSUME NEW i \in Removable
    PROVE  Sorted[i] # "installation.lock"
BY DEF Removable

(* An entry is removed with nobody but the remover inside. *)
LEMMA RemovedTyped ==
    ASSUME InstallationInv, NEW e, Removed(e)
    PROVE  /\ key' \in {key, 0} /\ nodeId' \in {nodeId, 0} /\ receipt' \in {receipt, 0}
           /\ profile' \in {profile, NoIdentity}
           /\ key' \in Torn .. MaxKeys /\ nodeId' \in Torn .. MaxNodes
           /\ receipt' \in 0 .. MaxNodes /\ store' \in Store /\ profile' \in Identity
           /\ store'.on => store'.node # 0
<1>1. NoIdentity \in Identity /\ 0 \in Torn .. MaxKeys /\ 0 \in Torn .. MaxNodes
  BY InstallationAssumption DEF NoIdentity, Identity, Torn
<1>2. [files |-> FALSE, node |-> 0, on |-> FALSE] \in Store
  BY InstallationAssumption DEF Store
<1>3. store' = store \/ store' = [files |-> FALSE, node |-> 0, on |-> FALSE]
  BY DEF Removed
<1>4. store' \in Store /\ (store'.on => store'.node # 0)
  <2>1. CASE store' = store
    BY <2>1 DEF InstallationInv, TypeOK, OnDisk
  <2>2. CASE store' = [files |-> FALSE, node |-> 0, on |-> FALSE]
    <3>1. ~store'.on
      BY <2>2
    <3> QED
      BY <1>2, <2>2, <3>1
  <2> QED
    BY <1>3, <2>1, <2>2
<1>5. /\ key' \in {key, 0} /\ nodeId' \in {nodeId, 0} /\ receipt' \in {receipt, 0}
      /\ profile' \in {profile, NoIdentity}
  BY DEF Removed
<1>6. 0 \in 0 .. MaxNodes
  BY InstallationAssumption
<1> QED
  BY <1>1, <1>4, <1>5, <1>6 DEF InstallationInv, TypeOK

(* A reset removes files that no process inside has read. *)
LEMMA ResetKeeps ==
    ASSUME InstallationInv, NEW p \in Procs, Reset(p)
    PROVE  InstallationInv'
<1>1. CASE Gone(p) /\ UNCHANGED <<files, env>>
  BY <1>1, FailKeeps
<1>2. ASSUME NEW i \in Removable, Removed(Sorted[i]),
             lockFile' = IF Sorted[i] = "installation.lock" THEN 0 ELSE lockFile,
             UNCHANGED <<inodes, keys, nodes, pinned, lost, proc>>
      PROVE  InstallationInv'
  <2>1. lockFile' = lockFile /\ UNCHANGED <<cmd, pc, lease, asks, mem>>
    BY <1>2, RemovableShape DEF proc
  <2>2. TypeOK'
    BY <1>2, <2>1, RemovedTyped DEF InstallationInv, TypeOK
  <2>3. pc[p] = "removing" /\ pc[p] \in Inside
    BY DEF Reset, Inside
  <2>4. pc' = [pc EXCEPT ![p] = "removing"]
    BY <2>1, <2>3 DEF InstallationInv, TypeOK
  <2>5. Agrees(p)'
    BY <2>1, <2>3 DEF Agrees, Keyed, Noded, Observed, Agreed, Receipted, Relayed
  <2>6. store'.on => store'.node # 0
    BY <1>2, RemovedTyped
  <2>7. Exclusive' /\ OnDisk'
    BY <2>1, <2>3, <2>4, <2>5, <2>6, InsideKeeps
  <2> QED
    BY <2>2, <2>7 DEF InstallationInv
<1> QED
  BY <1>1, <1>2 DEF Reset

(* A file is lost only while nobody is inside. *)
LEMMA FileLostKeeps == InstallationInv /\ FileLost => InstallationInv'
<1> SUFFICES ASSUME InstallationInv, FileLost PROVE InstallationInv'
  OBVIOUS
<1>1. PICK i \in Removable : Removed(Sorted[i])
  BY DEF FileLost
<1>2. /\ UNCHANGED <<lockFile, inodes, keys, nodes, pinned, cmd, pc, lease, asks, mem>>
      /\ lost' = lost + 1 /\ lost < MaxLost /\ \A p \in Procs : lease[p] = 0
  BY DEF FileLost, proc
<1>3. lost' \in 0 .. MaxLost
  BY <1>2, InstallationAssumption DEF InstallationInv, TypeOK
<1>4. TypeOK'
  BY <1>1, <1>2, <1>3, RemovedTyped DEF InstallationInv, TypeOK
<1>5. \A p \in Procs : pc[p] \notin Inside
  BY <1>2 DEF InstallationInv, Exclusive
<1>6. Exclusive'
  BY <1>2 DEF InstallationInv, Exclusive
<1>7. \A p \in Procs : Agrees(p)'
  BY <1>2, <1>5, Stages DEF Agrees
<1> QED
  BY <1>1, <1>4, <1>6, <1>7, RemovedTyped DEF InstallationInv, OnDisk

(* An expired node is still the node of the store. *)
LEMMA NodeExpiresKeeps == InstallationInv /\ NodeExpires => InstallationInv'
<1> SUFFICES ASSUME InstallationInv, NodeExpires PROVE InstallationInv'
  OBVIOUS
<1>1. store' \in Store /\ store'.node = store.node /\ ~store'.on
  BY DEF NodeExpires, InstallationInv, TypeOK, Store
<1>2. UNCHANGED <<key, nodeId, receipt, profile, lockFile, inodes, keys, nodes, pinned, lost,
                  cmd, pc, lease, asks, mem>>
  BY DEF NodeExpires, env, proc
<1>3. TypeOK' /\ Exclusive'
  BY <1>1, <1>2 DEF InstallationInv, TypeOK, Exclusive
<1>4. \A p \in Procs : Agrees(p)'
  BY <1>1, <1>2 DEF InstallationInv, OnDisk, Agrees
<1> QED
  BY <1>1, <1>3, <1>4 DEF InstallationInv, OnDisk

(* The inductive invariant of the installation, whatever is lost. *)
THEOREM InstallationInvariant == Spec => []InstallationInv
<1>1. Init => InstallationInv
  <2> SUFFICES ASSUME Init PROVE InstallationInv
    OBVIOUS
  <2>1. NoIdentity \in Identity /\ [files |-> FALSE, node |-> 0, on |-> FALSE] \in Store
    BY InstallationAssumption DEF NoIdentity, Identity, Store
  <2>2. TypeOK
    BY <2>1, InstallationAssumption DEF Init, TypeOK, Torn
  <2>3. \A p \in Procs : pc[p] = "idle" /\ "idle" \notin Inside /\ lease[p] = 0
    BY DEF Init, Inside
  <2>4. Exclusive
    BY <2>3 DEF Exclusive
  <2>5. \A p \in Procs : Agrees(p)
    BY <2>3, Stages DEF Agrees
  <2> QED
    BY <2>2, <2>4, <2>5 DEF Init, InstallationInv, OnDisk
<1>2. InstallationInv /\ [Next]_vars => InstallationInv'
  <2> SUFFICES ASSUME InstallationInv, [Next]_vars PROVE InstallationInv'
    OBVIOUS
  <2>1. ASSUME NEW p \in Procs, Step(p) PROVE InstallationInv'
    BY <2>1, OpenInstallationKeeps, WriteKeyKeeps, UpKeeps, ObserveNodeKeeps, WriteNodeKeeps,
       WaitForHubKeeps, ClientHandshakeKeeps, SaveRegistrationKeeps, SaveProfileKeeps,
       ConnectedKeeps, LogoutKeeps, ResetKeeps DEF Step
  <2>2. CASE UNCHANGED vars
    BY <2>2 DEF vars, files, env, proc, InstallationInv, TypeOK, Exclusive, OnDisk, Agrees
  <2> QED
    BY <2>1, <2>2, FileLostKeeps, NodeExpiresKeeps, FrontKeeps DEF Next
<1> QED
  BY <1>1, <1>2, PTL DEF Spec

(* A connected process is the identity on disk (ObserveNode,                 *)
(* saveRegistration, saveProfile): no other process, crash, expiry or lost   *)
(* file comes between, because the lease excludes them.                      *)
THEOREM ConnectedIdentityIsPinned == Spec => []ConnectedIsPinned
<1>1. InstallationInv => ConnectedIsPinned
  BY Stages DEF InstallationInv, OnDisk, Agrees, ConnectedIsPinned, Relayed
<1> QED
  BY <1>1, InstallationInvariant, PTL

(* Two processes never use the installation at once: the lease is taken by   *)
(* inode, and the lock file's inode is never replaced (acquireLease, Reset). *)
THEOREM LeaseExcludes == Spec => []Exclusive
<1>1. InstallationInv => Exclusive
  BY DEF InstallationInv
<1> QED
  BY <1>1, InstallationInvariant, PTL

(* An identity that was pinned is in no way absent. *)
LEMMA PinnedIsReal ==
    ASSUME InstallationInv, Pinned, NEW x \in pinned
    PROVE  /\ x \in Identity /\ x # NoIdentity /\ x.key \in 1 .. MaxKeys
           /\ x.node \in 1 .. MaxNodes /\ Torn # x.key /\ Torn # x.node
           /\ lost \in Nat /\ lost <= MaxLost /\ Missing(x) <= lost
<1>1. x \in Identity /\ x.key # 0 /\ x.node # 0 /\ lost \in 0 .. MaxLost
  BY DEF InstallationInv, TypeOK, Pinned
<1>2. x.key \in 1 .. MaxKeys /\ x.node \in 1 .. MaxNodes
  BY <1>1, InstallationAssumption DEF Identity
<1>3. x # NoIdentity
  BY <1>1 DEF NoIdentity
<1>4. Torn # x.key /\ Torn # x.node
  BY <1>2, InstallationAssumption DEF Torn
<1>5. lost \in Nat /\ lost <= MaxLost
  BY <1>1, InstallationAssumption
<1> QED
  BY <1>1, <1>2, <1>3, <1>4, <1>5 DEF Pinned

(* A step that touches none of the pins keeps them. *)
LEMMA PinsUntouched ==
    ASSUME Pinned, UNCHANGED <<key, nodeId, receipt, profile, pinned, lost>>,
           \A p \in Procs : pc'[p] = "removing" => pc[p] = "removing"
    PROVE  Pinned'
BY DEF Pinned, Missing

(* A process that leaves does not start a removal. *)
LEMMA LeavingRemovesNothing ==
    ASSUME InstallationInv, NEW p \in Procs, Back(p) \/ Gone(p)
    PROVE  \A q \in Procs : pc'[q] = "removing" => pc[q] = "removing"
<1>1. PICK l \in {"idle", "front"} : pc' = [pc EXCEPT ![p] = l]
  BY LeavingShape DEF InstallationInv
<1> QED
  BY <1>1 DEF InstallationInv, TypeOK

(* A failed step keeps the pins. *)
LEMMA FailKeepsPins ==
    ASSUME InstallationInv, Pinned, NEW p \in Procs, Back(p) \/ Gone(p),
           UNCHANGED <<key, nodeId, receipt, profile, pinned, lost>>
    PROVE  Pinned'
BY LeavingRemovesNothing, PinsUntouched

(* Opening, logging in, and every step that writes none of the pinned files. *)
LEMMA ReadersKeepPins ==
    ASSUME InstallationInv, Pinned, NEW p \in Procs,
           \/ Start(p) \/ Initialize(p) \/ Front(p) \/ FrontEnds(p) \/ Crash(p)
           \/ Up(p) \/ WaitForHub(p) \/ ClientHandshake(p) \/ Connected(p)
    PROVE  Pinned'
<1>1. UNCHANGED <<key, nodeId, receipt, profile, pinned, lost>>
  BY DEF Start, Initialize, Front, FrontEnds, Crash, Up, WaitForHub, ClientHandshake, Connected,
     Fail, files, env
<1>2. CASE Back(p) \/ Gone(p)
  BY <1>1, <1>2, FailKeepsPins
<1>3. CASE \E l \in {"open", "raw", "front", "relay", "node", "ready", "greeted", "connected"} :
             pc' = [pc EXCEPT ![p] = l]
  <2>1. \A q \in Procs : pc'[q] = "removing" => pc[q] = "removing"
    BY <1>3 DEF InstallationInv, TypeOK
  <2> QED
    BY <1>1, <2>1, PinsUntouched
<1> QED
  BY <1>2, <1>3 DEF Start, Initialize, Front, FrontEnds, Crash, Up, WaitForHub, ClientHandshake,
     Connected, Fail, Goto

(* With at most two files lost a key is created only before a connection. *)
LEMMA OpenKeepsPins ==
    ASSUME InstallationInv, Pinned, MaxLost <= 2, NEW p \in Procs, OpenInstallation(p)
    PROVE  Pinned'
<1>1. UNCHANGED <<nodeId, receipt, profile, pinned, lost>>
  BY DEF OpenInstallation, Fail, files, env
<1>2. CASE Back(p) /\ UNCHANGED key
  BY <1>1, <1>2, FailKeepsPins
<1>3. CASE key' = key /\ pc' = [pc EXCEPT ![p] = "installed"]
  <2>1. \A q \in Procs : pc'[q] = "removing" => pc[q] = "removing"
    BY <1>3 DEF InstallationInv, TypeOK
  <2> QED
    BY <1>1, <1>3, <2>1, PinsUntouched
<1>4. CASE key = 0 /\ MayCreateKey
  <2>1. ASSUME NEW x \in pinned PROVE FALSE
    <3>1. profile # x /\ nodeId # x.node /\ key # x.key
      BY <1>4, PinnedIsReal DEF MayCreateKey
    <3>2. Missing(x) >= 3
      BY <3>1 DEF Missing
    <3> QED
      BY <3>2, PinnedIsReal, InstallationAssumption DEF Missing
  <2> QED
    BY <1>1, <2>1 DEF Pinned
<1> QED
  BY <1>2, <1>3, <1>4 DEF OpenInstallation, Fail, files, Goto

(* A key is written only before a connection. *)
LEMMA WriteKeyKeepsPins ==
    ASSUME InstallationInv, Pinned, NEW p \in Procs, WriteKey(p)
    PROVE  Pinned'
<1>1. CASE Fail(p)
  BY <1>1, FailKeepsPins DEF Fail, files, env
<1>2. CASE ~Fail(p)
  <2>1. key = Torn
    BY DEF WriteKey, InstallationInv, OnDisk, Agrees
  <2>2. \A x \in pinned : FALSE
    BY <2>1, PinnedIsReal DEF Pinned, Torn
  <2>3. pinned' = pinned
    BY <1>2 DEF WriteKey, env
  <2> QED
    BY <2>2, <2>3 DEF Pinned
<1> QED
  BY <1>1, <1>2

(* A node is written only where none was: no pin is overwritten. *)
LEMMA NodeKeepsPins ==
    ASSUME InstallationInv, Pinned, NEW p \in Procs, ObserveNode(p) \/ WriteNode(p)
    PROVE  Pinned'
<1>1. CASE Fail(p)
  BY <1>1, FailKeepsPins DEF Fail, files, env
<1>2. CASE ~Fail(p)
  <2>1. /\ UNCHANGED <<key, receipt, profile, pinned, lost>>
        /\ nodeId' = nodeId \/ nodeId \in {0, Torn}
    BY <1>2 DEF ObserveNode, WriteNode, InstallationInv, OnDisk, Agrees, files, env
  <2>2. \A q \in Procs : pc'[q] = "removing" => pc[q] = "removing"
    BY <1>2 DEF ObserveNode, WriteNode, Goto, InstallationInv, TypeOK
  <2>3. ASSUME NEW x \in pinned PROVE Missing(x)' <= Missing(x)
    BY <2>1, PinnedIsReal DEF Missing
  <2>4. ASSUME NEW x \in pinned PROVE Missing(x)' <= lost /\ Missing(x)' \in Nat
    BY <2>3, PinnedIsReal DEF Missing
  <2> QED
    BY <2>1, <2>2, <2>4 DEF Pinned
<1> QED
  BY <1>1, <1>2

(* With at most two files lost a different receipt is never written. *)
LEMMA SaveRegistrationKeepsPins ==
    ASSUME InstallationInv, Pinned, MaxLost <= 2, NEW p \in Procs, SaveRegistration(p)
    PROVE  Pinned'
<1>1. CASE Fail(p)
  BY <1>1, FailKeepsPins DEF Fail, files, env
<1>2. CASE ~Fail(p)
  <2>1. /\ UNCHANGED <<key, nodeId, profile, pinned, lost>>
        /\ receipt \in {0, mem[p].node} /\ receipt' = mem[p].node
    BY <1>2 DEF SaveRegistration, env
  <2>2. \A q \in Procs : pc'[q] = "removing" => pc[q] = "removing"
    BY <1>2 DEF SaveRegistration, Goto, InstallationInv, TypeOK
  <2>3. nodeId = mem[p].node /\ profile \in {NoIdentity, mem[p]} /\ mem[p].node # 0
    BY Stages DEF SaveRegistration, InstallationInv, OnDisk, Agrees, Agreed, Observed, Noded
  <2>4. ASSUME NEW x \in pinned PROVE x.node = mem[p].node
    <3> SUFFICES ASSUME x.node # mem[p].node PROVE FALSE
      OBVIOUS
    <3>1. profile # x
      BY <2>3, PinnedIsReal
    <3>2. receipt # x.node /\ nodeId # x.node
      BY <2>1, <2>3, PinnedIsReal
    <3>3. Missing(x) >= 3
      BY <3>1, <3>2 DEF Missing
    <3> QED
      BY <3>3, PinnedIsReal, InstallationAssumption DEF Missing
  <2>5. ASSUME NEW x \in pinned
        PROVE  Missing(x)' <= lost /\ receipt' \in {0, x.node}
    <3>1. receipt' = x.node
      BY <2>1, <2>4
    <3>2. Missing(x)' <= Missing(x)
      BY <2>1, <3>1 DEF Missing
    <3> QED
      BY <3>1, <3>2, PinnedIsReal DEF Missing
  <2> QED
    BY <2>1, <2>2, <2>5 DEF Pinned
<1> QED
  BY <1>1, <1>2

(* The identity that is pinned is the one pinned before. *)
LEMMA SaveProfileKeepsPins ==
    ASSUME InstallationInv, Pinned, NEW p \in Procs, SaveProfile(p)
    PROVE  Pinned'
<1>1. CASE Fail(p)
  BY <1>1, FailKeepsPins DEF Fail, files, env
<1>2. CASE ~Fail(p)
  <2>1. /\ UNCHANGED <<key, nodeId, receipt, lost>> /\ ProfileAgrees(p)
        /\ profile' = mem[p] /\ pinned' = pinned \cup {mem[p]} /\ pc[p] = "receipt"
    BY <1>2 DEF SaveProfile
  <2>2. \A q \in Procs : pc'[q] # "removing"
    <3>1. pc' = [pc EXCEPT ![p] = "session"] /\ pc[p] \in Inside
      BY <1>2, <2>1 DEF SaveProfile, Goto, Inside
    <3>2. \A q \in Procs \ {p} : pc[q] # "removing"
      BY <3>1, Alone, Stages
    <3> QED
      BY <3>1, <3>2 DEF InstallationInv, TypeOK
  <2>3. /\ key = mem[p].key /\ key # 0 /\ nodeId = mem[p].node /\ mem[p].node # 0
        /\ receipt = mem[p].node /\ mem[p] \in Identity
    BY <2>1, Stages DEF InstallationInv, TypeOK, OnDisk, Agrees, Receipted, Agreed, Observed,
       Noded, Keyed
  <2>4. ASSUME NEW x \in pinned PROVE x = mem[p]
    <3>1. x \in Identity /\ x.key # 0
      BY PinnedIsReal
    <3>2. x.key = mem[p].key
      BY <2>3 DEF Pinned
    <3>3. x.node = mem[p].node
      BY <2>3 DEF Pinned
    <3> QED
      BY <2>3, <3>1, <3>2, <3>3 DEF Identity
  <2>5. pinned' = {mem[p]}
    BY <2>1, <2>4
  <2> QED
    BY <2>1, <2>2, <2>3, <2>5 DEF Pinned, Missing, InstallationInv, TypeOK
<1> QED
  BY <1>1, <1>2

(* A confirmed reset unpins; a removal finds nothing pinned. *)
LEMMA ResetKeepsPins ==
    ASSUME InstallationInv, Pinned, NEW p \in Procs, Logout(p) \/ Reset(p)
    PROVE  Pinned'
<1>1. CASE Back(p) \/ Gone(p)
  <2>1. UNCHANGED <<key, nodeId, receipt, profile, pinned, lost>> \/ pinned' = {}
    BY DEF Logout, Reset, files, env, Pinned
  <2>2. CASE UNCHANGED <<key, nodeId, receipt, profile, pinned, lost>>
    BY <1>1, <2>2, FailKeepsPins
  <2> QED
    BY <2>1, <2>2 DEF Pinned
<1>2. CASE ~Gone(p)
  <2>1. pinned' = {}
    BY <1>2 DEF Logout, Reset, Pinned
  <2> QED
    BY <2>1 DEF Pinned
<1> QED
  BY <1>1, <1>2

(* A lost file takes one pin at most, and is counted. *)
LEMMA FileLostKeepsPins ==
    ASSUME InstallationInv, Pinned, FileLost
    PROVE  Pinned'
<1>1. PICK i \in Removable : Removed(Sorted[i])
  BY DEF FileLost
<1>2. lost' = lost + 1 /\ UNCHANGED <<pinned, pc>>
  BY DEF FileLost, proc
<1>3. /\ profile' = profile \/ (profile' = NoIdentity /\ UNCHANGED <<key, nodeId, receipt>>)
      /\ key' = key \/ (key' = 0 /\ UNCHANGED <<profile, nodeId, receipt>>)
      /\ nodeId' = nodeId \/ (nodeId' = 0 /\ UNCHANGED <<profile, key, receipt>>)
      /\ receipt' = receipt \/ (receipt' = 0 /\ UNCHANGED <<profile, key, nodeId>>)
  BY <1>1 DEF Removed
<1>4. ASSUME NEW x \in pinned PROVE Missing(x)' <= lost'
  <2>1. Missing(x)' <= Missing(x) + 1
    BY <1>3 DEF Missing
  <2> QED
    BY <1>2, <2>1, PinnedIsReal DEF Missing
<1>5. ASSUME NEW x \in pinned
      PROVE  profile' \in {NoIdentity, x} /\ receipt' \in {0, x.node} /\ key' \in {0, x.key}
  BY <1>3 DEF Pinned
<1> QED
  BY <1>2, <1>4, <1>5 DEF Pinned

(* An installation that connected never connects as another one without an   *)
(* explicit reset while at most two of its files are lost (OpenInstallation, *)
(* ObserveNode, checkProfile, saveRegistration).  Two is the most: without   *)
(* profile, node-id and receipt a new login goes through.                    *)
THEOREM IdentityIsPinned ==
    ASSUME MaxLost <= 2
    PROVE  Spec => []PinsHold
<1>1. Init => Pinned
  BY DEF Init, Pinned
<1>2. InstallationInv /\ Pinned /\ [Next]_vars => Pinned'
  <2> SUFFICES ASSUME InstallationInv, Pinned, [Next]_vars PROVE Pinned'
    OBVIOUS
  <2>1. ASSUME NEW p \in Procs, Step(p) PROVE Pinned'
    BY <2>1, OpenKeepsPins, WriteKeyKeepsPins, NodeKeepsPins, ReadersKeepPins, ResetKeepsPins,
       SaveRegistrationKeepsPins, SaveProfileKeepsPins DEF Step
  <2>2. CASE UNCHANGED vars \/ NodeExpires
    BY <2>2, PinsUntouched DEF vars, NodeExpires, files, env, proc
  <2> QED
    BY <2>1, <2>2, FileLostKeepsPins, ReadersKeepPins DEF Next
<1>3. Pinned => PinsHold
  <2> SUFFICES ASSUME Pinned PROVE PinsHold
    OBVIOUS
  <2>1. pinned = {} \/ \E x : pinned = {x}
    BY DEF Pinned
  <2>2. Cardinality(pinned) = 0 \/ Cardinality(pinned) = 1
    BY <2>1, FS_EmptySet, FS_Singleton
  <2> QED
    BY <2>2 DEF PinsHold
<1> QED
  BY <1>1, <1>2, <1>3, InstallationInvariant, PTL DEF Spec
=============================================================================
