------------------------- MODULE ClientInstallation -------------------------
(***************************************************************************)
(* A workstation's installation of the client: the private files under     *)
(* direct-v1 and their lease (src/client/internal/direct/state.go,         *)
(* profile.go), the embedded network and the connection to the hub         *)
(* (network.go, probe.go, protocol.go), and the commands that use them     *)
(* (commands.go, acp.go).                                                  *)
(*                                                                         *)
(* An application key and a tailnet node are numbers, handed out in order; *)
(* 0 is an absent file and Torn one that createPrivate created and never   *)
(* wrote.  A workstation id is its node (HubSessions!ReceiptsAgree), and   *)
(* the deployment's own pins never change.                                 *)
(***************************************************************************)
EXTENDS Integers, Sequences, FiniteSets

CONSTANTS
    Procs,      \* client processes of the user
    MaxKeys,    \* application keys generated in this instance
    MaxNodes,   \* nodes the tailnet enrols in this instance
    MaxLost     \* files lost outside the program

ASSUME InstallationAssumption ==
    /\ IsFiniteSet(Procs) /\ MaxKeys \in Nat /\ MaxNodes \in Nat /\ MaxLost \in Nat

VARIABLES
    key,        \* identity.key
    nodeId,     \* node-id
    store,      \* tsnet: its files exist, the node it knows, the node is logged in
    receipt,    \* registration.json
    profile,    \* connection.json
    lockFile,   \* the inode of installation.lock, or 0
    inodes,     \* inodes created for it
    keys,       \* keys generated so far
    nodes,      \* nodes enrolled so far
    cmd,        \* what a process was started for
    pc,         \* where a process stands
    lease,      \* the inode a process has locked, or 0
    asks,       \* OpenNetwork's argument interactive
    mem,        \* Installation.Key and Network.Node of a process
    pinned,     \* history: identities that completed a connection since the last reset
    lost        \* files lost so far

files == <<key, nodeId, store, receipt, profile>>
env == <<lockFile, inodes, keys, nodes, pinned, lost>>
proc == <<cmd, pc, lease, asks, mem>>
vars == <<files, env, proc>>

Torn == -1
NoIdentity == [key |-> 0, node |-> 0]
Commands == {"connect", "verify", "acp", "logout", "reset"}
Inside == {"seed", "installed", "node", "up", "pin", "ready", "greeted", "receipt", "session",
           "connected", "relay", "removing"}

Init ==
    /\ key = 0 /\ nodeId = 0 /\ receipt = 0 /\ profile = NoIdentity
    /\ store = [files |-> FALSE, node |-> 0, on |-> FALSE]
    /\ lockFile = 0 /\ inodes = 0 /\ keys = 0 /\ nodes = 0 /\ pinned = {} /\ lost = 0
    /\ cmd = [p \in Procs |-> "none"] /\ pc = [p \in Procs |-> "idle"]
    /\ lease = [p \in Procs |-> 0] /\ asks = [p \in Procs |-> FALSE]
    /\ mem = [p \in Procs |-> NoIdentity]

Goto(p, l) == pc' = [pc EXCEPT ![p] = l]

(* A process is gone, and with it its lease. *)
Gone(p) ==
    /\ Goto(p, "idle") /\ cmd' = [cmd EXCEPT ![p] = "none"]
    /\ lease' = [lease EXCEPT ![p] = 0] /\ asks' = [asks EXCEPT ![p] = FALSE]
    /\ mem' = [mem EXCEPT ![p] = NoIdentity]

(* Mutant of Back: the front end keeps the network of a failed connect. *)
BackWithLease(p) ==
    IF cmd[p] = "acp"
    THEN /\ Goto(p, "front") /\ asks' = [asks EXCEPT ![p] = FALSE]
         /\ mem' = [mem EXCEPT ![p] = NoIdentity] /\ UNCHANGED <<cmd, lease>>
    ELSE Gone(p)

(* An error: Network.Close gives the lease back; the ACP front end reports   *)
(* the fault and waits for the next request, a command ends.                 *)
Back(p) ==
    IF cmd[p] = "acp"
    THEN /\ Goto(p, "front") /\ lease' = [lease EXCEPT ![p] = 0]
         /\ asks' = [asks EXCEPT ![p] = FALSE] /\ mem' = [mem EXCEPT ![p] = NoIdentity]
         /\ UNCHANGED cmd
    ELSE Gone(p)

Fail(p) == Back(p) /\ UNCHANGED <<files, env>>

-----------------------------------------------------------------------------
(* The commands. *)

(* connect, connect --verify-transport, acp, disconnect --logout with or     *)
(* without --reset-identity.  Without --interactive a node-id is needed.     *)
Start(p) ==
    /\ pc[p] = "idle"
    /\ \E c \in Commands, i \in BOOLEAN :
         /\ cmd' = [cmd EXCEPT ![p] = c]
         /\ c \in {"acp", "logout", "reset"} => ~i
         /\ (c \in {"connect", "verify"} /\ ~i) => nodeId # 0
         /\ asks' = [asks EXCEPT ![p] = i]
         /\ Goto(p, IF c = "acp" THEN "raw" ELSE "open")
    /\ UNCHANGED <<files, env, lease, mem>>

(* ACP: initialize, once and first. *)
Initialize(p) ==
    /\ pc[p] = "raw" /\ Goto(p, "front")
    /\ UNCHANGED <<files, env, cmd, lease, asks, mem>>

(* authenticate connects interactively unless a session exists; session/new  *)
(* connects without asking, which needs a node-id, and hands the session to  *)
(* the relay.                                                                *)
Front(p) ==
    \/ /\ pc[p] = "front"
       /\ \E i \in BOOLEAN : /\ ~i => nodeId # 0
                             /\ asks' = [asks EXCEPT ![p] = i]
       /\ Goto(p, "open") /\ UNCHANGED <<files, env, cmd, lease, mem>>
    \/ /\ pc[p] = "connected" /\ Goto(p, "relay")
       /\ UNCHANGED <<files, env, cmd, lease, asks, mem>>

(* The IDE closes its end, the relay returns, or a protocol error ends ACP:  *)
(* the deferred closes run.                                                  *)
FrontEnds(p) ==
    /\ pc[p] \in {"raw", "front", "connected", "relay"} /\ Gone(p)
    /\ UNCHANGED <<files, env>>

-----------------------------------------------------------------------------
(* OpenInstallation. *)

(* A missing key may be created only where nothing else remains. *)
MayCreateKey == ~store.files /\ nodeId = 0 /\ profile = NoIdentity

(* The lease: the file is created if need be and locked without waiting.     *)
(* Then the key is read, or its file created.                                *)
OpenInstallation(p) ==
    /\ pc[p] = "open"
    /\ LET inode == IF lockFile = 0 THEN inodes + 1 ELSE lockFile IN
       \/ /\ \E q \in Procs \ {p} : lease[q] = inode
          /\ Fail(p)
       \/ /\ \A q \in Procs \ {p} : lease[q] # inode
          /\ lockFile' = inode /\ inodes' = IF lockFile = 0 THEN inodes + 1 ELSE inodes
          /\ \/ /\ key > 0 /\ Goto(p, "installed") /\ lease' = [lease EXCEPT ![p] = inode]
                /\ mem' = [mem EXCEPT ![p].key = key] /\ UNCHANGED <<cmd, asks, key, keys>>
             \/ /\ key = 0 /\ MayCreateKey /\ keys < MaxKeys
                /\ key' = Torn /\ keys' = keys + 1 /\ Goto(p, "seed")
                /\ lease' = [lease EXCEPT ![p] = inode]
                /\ mem' = [mem EXCEPT ![p].key = keys + 1] /\ UNCHANGED <<cmd, asks>>
             \/ /\ key = Torn \/ (key = 0 /\ ~MayCreateKey)
                /\ Back(p) /\ UNCHANGED <<key, keys>>
          /\ UNCHANGED <<nodeId, store, receipt, profile, nodes, pinned, lost>>

(* createPrivate writes what it created, or fails and leaves it. *)
WriteKey(p) ==
    /\ pc[p] = "seed"
    /\ \/ key' = mem[p].key /\ Goto(p, "installed")
          /\ UNCHANGED <<nodeId, store, receipt, profile, env, cmd, lease, asks, mem>>
       \/ Fail(p)

-----------------------------------------------------------------------------
(* OpenNetwork: the embedded network, the node and the hub. *)

(* The nodes a login can yield: the one the store knows, or a new one. *)
Logins == (IF store.node > 0 THEN {store.node} ELSE {})
          \cup (IF nodes < MaxNodes THEN {nodes + 1} ELSE {})

(* Start and Up: a logged-in store is used as it is; otherwise the user logs *)
(* in, or nobody may ask and AUTH_REQUIRED is returned.                      *)
Up(p) ==
    /\ pc[p] = "installed" /\ cmd[p] \notin {"logout", "reset"}
    /\ \/ /\ store.on /\ mem' = [mem EXCEPT ![p].node = store.node] /\ Goto(p, "node")
          /\ UNCHANGED <<files, env, cmd, lease, asks>>
       \/ /\ ~store.on /\ asks[p]
          /\ \E n \in Logins :
               /\ store' = [files |-> TRUE, node |-> n, on |-> TRUE]
               /\ nodes' = IF n > nodes THEN n ELSE nodes
               /\ mem' = [mem EXCEPT ![p].node = n] /\ Goto(p, "node")
          /\ UNCHANGED <<key, nodeId, receipt, profile, lockFile, inodes, keys, pinned, lost,
                         cmd, lease, asks>>
       \/ /\ Back(p) /\ store' = [store EXCEPT !.files = TRUE]
          /\ UNCHANGED <<key, nodeId, receipt, profile, env>>

(* ObserveNode: the node is recorded once, and compared from then on. *)
ObserveNode(p) ==
    /\ pc[p] = "node"
    /\ \/ /\ nodeId = 0 /\ nodeId' = Torn /\ Goto(p, "up")
          /\ UNCHANGED <<key, store, receipt, profile, env, cmd, lease, asks, mem>>
       \/ /\ nodeId = mem[p].node /\ Goto(p, "pin")
          /\ UNCHANGED <<files, env, cmd, lease, asks, mem>>
       \/ /\ nodeId \notin {0, mem[p].node} /\ Fail(p)

WriteNode(p) ==
    /\ pc[p] = "up"
    /\ \/ nodeId' = mem[p].node /\ Goto(p, "pin")
          /\ UNCHANGED <<key, store, receipt, profile, env, cmd, lease, asks, mem>>
       \/ Fail(p)

(* Mutant of ProfileAgrees: only the key is compared. *)
ProfileAgreesOnKey(p) == profile = NoIdentity \/ profile.key = mem[p].key

(* checkProfile *)
ProfileAgrees(p) == profile = NoIdentity \/ profile = mem[p]

(* checkProfile, then the hub among the node's peers. *)
WaitForHub(p) ==
    /\ pc[p] = "pin"
    /\ \/ ProfileAgrees(p) /\ Goto(p, "ready")
          /\ UNCHANGED <<files, env, cmd, lease, asks, mem>>
       \/ Fail(p)

-----------------------------------------------------------------------------
(* Connect. *)

(* The dial and ClientHandshake: the hub learns the key and the node.        *)
ClientHandshake(p) ==
    /\ pc[p] = "ready"
    /\ \/ Goto(p, "greeted") /\ UNCHANGED <<files, env, cmd, lease, asks, mem>>
       \/ Fail(p)

(* Mutant of SaveRegistration: a different receipt is kept and accepted. *)
SaveRegistrationOnce(p) ==
    /\ pc[p] = "greeted" /\ Goto(p, "receipt")
    /\ receipt' = IF receipt = 0 THEN mem[p].node ELSE receipt
    /\ UNCHANGED <<key, nodeId, store, profile, env, cmd, lease, asks, mem>>

(* The receipt is recorded once, by a rename, and compared from then on. *)
SaveRegistration(p) ==
    /\ pc[p] = "greeted"
    /\ \/ /\ receipt \in {0, mem[p].node} /\ receipt' = mem[p].node /\ Goto(p, "receipt")
          /\ UNCHANGED <<key, nodeId, store, profile, env, cmd, lease, asks, mem>>
       \/ Fail(p)

(* The profile is checked again and replaced by a rename. *)
SaveProfile(p) ==
    /\ pc[p] = "receipt"
    /\ \/ /\ ProfileAgrees(p) /\ profile' = mem[p] /\ pinned' = pinned \cup {mem[p]}
          /\ Goto(p, "session")
          /\ UNCHANGED <<key, nodeId, store, receipt, lockFile, inodes, keys, nodes, lost,
                         cmd, lease, asks, mem>>
       \/ Fail(p)

(* What follows a connection: connect ends, VerifyTransport connects again,  *)
(* ACP initializes the agent behind the hub; each may fail instead.          *)
Connected(p) ==
    /\ pc[p] = "session"
    /\ \/ /\ cmd[p] = "verify" /\ Goto(p, "ready") /\ cmd' = [cmd EXCEPT ![p] = "connect"]
          /\ UNCHANGED <<files, env, lease, asks, mem>>
       \/ /\ cmd[p] = "acp" /\ Goto(p, "connected") /\ UNCHANGED <<files, env, cmd, lease, asks, mem>>
       \/ Fail(p)

-----------------------------------------------------------------------------
(* Logout. *)

(* A confirmed logout; an unconfirmed one may have happened and ends here. *)
Logout(p) ==
    /\ pc[p] = "installed" /\ cmd[p] \in {"logout", "reset"}
    /\ \/ /\ store' = [store EXCEPT !.files = TRUE, !.on = FALSE]
          /\ IF cmd[p] = "reset"
             THEN Goto(p, "removing") /\ pinned' = {} /\ UNCHANGED <<cmd, lease, asks, mem>>
             ELSE Gone(p) /\ UNCHANGED pinned
       \/ /\ \E on \in {store.on, FALSE} : store' = [store EXCEPT !.files = TRUE, !.on = on]
          /\ Gone(p) /\ UNCHANGED pinned
    /\ UNCHANGED <<key, nodeId, receipt, profile, lockFile, inodes, keys, nodes, lost>>

(* The directory, in ReadDir's order. *)
Sorted == <<"connection.json", "identity.key", "installation.lock", "node-id",
            "registration.json", "tsnet">>
Exists(e) ==
    CASE e = "connection.json" -> profile # NoIdentity
      [] e = "identity.key" -> key # 0
      [] e = "installation.lock" -> lockFile # 0
      [] e = "node-id" -> nodeId # 0
      [] e = "registration.json" -> receipt # 0
      [] e = "tsnet" -> store.files
Present == {i \in 1 .. Len(Sorted) : Exists(Sorted[i])}

(* The lease's inode stays in place. *)
Removable == {i \in Present : Sorted[i] # "installation.lock"}

(* The entry e is gone. *)
Removed(e) ==
    /\ profile' = IF e = "connection.json" THEN NoIdentity ELSE profile
    /\ key' = IF e = "identity.key" THEN 0 ELSE key
    /\ nodeId' = IF e = "node-id" THEN 0 ELSE nodeId
    /\ receipt' = IF e = "registration.json" THEN 0 ELSE receipt
    /\ store' = IF e = "tsnet" THEN [files |-> FALSE, node |-> 0, on |-> FALSE] ELSE store

(* One entry after the other; an error ends it. *)
Reset(p) ==
    /\ pc[p] = "removing"
    /\ \/ \E i \in Removable :
            /\ \A j \in Removable : i <= j
            /\ Removed(Sorted[i])
            /\ lockFile' = IF Sorted[i] = "installation.lock" THEN 0 ELSE lockFile
            /\ UNCHANGED <<inodes, keys, nodes, pinned, lost, proc>>
       \/ Gone(p) /\ UNCHANGED <<files, env>>

-----------------------------------------------------------------------------
(* The environment. *)

(* A process is killed wherever it stands; the kernel drops its lock. *)
Crash(p) == pc[p] # "idle" /\ Gone(p) /\ UNCHANGED <<files, env>>

(* A file is lost while no process uses the installation. *)
FileLost ==
    /\ lost < MaxLost /\ lost' = lost + 1 /\ \A p \in Procs : lease[p] = 0
    /\ \E i \in Removable : Removed(Sorted[i])
    /\ UNCHANGED <<lockFile, inodes, keys, nodes, pinned, proc>>

(* The tailnet expires the node's key. *)
NodeExpires ==
    /\ store.on /\ store' = [store EXCEPT !.on = FALSE]
    /\ UNCHANGED <<key, nodeId, receipt, profile, env, proc>>

-----------------------------------------------------------------------------
Step(p) ==
    \/ OpenInstallation(p) \/ WriteKey(p) \/ Up(p) \/ ObserveNode(p) \/ WriteNode(p)
    \/ WaitForHub(p) \/ ClientHandshake(p) \/ SaveRegistration(p) \/ SaveProfile(p)
    \/ Connected(p) \/ Logout(p) \/ Reset(p)

Next ==
    \/ FileLost \/ NodeExpires
    \/ \E p \in Procs : Start(p) \/ Initialize(p) \/ Front(p) \/ FrontEnds(p) \/ Step(p) \/ Crash(p)

Spec == Init /\ [][Next]_vars

(* Every step of a command is bounded by a deadline and goes on; users and   *)
(* IDEs need not.                                                            *)
FairSpec == Spec /\ \A p \in Procs : WF_vars(Step(p))

-----------------------------------------------------------------------------
(* A connected installation is the one on disk: key, node, store, receipt    *)
(* and profile name the same identity (ObserveNode, saveRegistration,        *)
(* saveProfile).                                                             *)
ConnectedIsPinned ==
    \A p \in Procs : pc[p] \in {"session", "connected", "relay"} =>
      /\ key = mem[p].key /\ nodeId = mem[p].node /\ store.node = mem[p].node
      /\ receipt = mem[p].node /\ profile = mem[p]

(* An installation that connected never connects as another one without an   *)
(* explicit reset, whatever MaxLost of its files are lost (OpenInstallation, *)
(* ObserveNode, checkProfile).                                               *)
PinsHold == Cardinality(pinned) <= 1

(* A lease is given back unless a session is in use: a failed step of the    *)
(* ACP front end, which goes on, frees it as the end of a command does.      *)
LeaseIsReleased ==
    \A p \in Procs : lease[p] # 0 ~> (lease[p] = 0 \/ pc[p] \in {"connected", "relay"})
=============================================================================
