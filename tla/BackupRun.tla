------------------------------ MODULE BackupRun ------------------------------
(***************************************************************************)
(* The partial backup of PostgreSQL and the kernel's artifacts              *)
(* (src/infra/backup/backup.py): the timer and an operator run preflight,  *)
(* partial-backup and verify over one status file, one lock and one        *)
(* directory of generations.                                               *)
(*                                                                         *)
(* Generations are numbered in the order of their created_at, which is the *)
(* order of their publication as long as the clock does not step back.     *)
(* What a dump holds is abstracted to whether verify accepts it.           *)
(***************************************************************************)
EXTENDS Integers, FiniteSets, FiniteSetsExt

CONSTANTS
    Procs,          \* invocations of backup.py that may overlap
    Keep,           \* keep_last
    MaxAttempts,    \* partial backups begun in this instance
    MaxDamaged      \* generations damaged by the medium

ASSUME BackupAssumption ==
    /\ IsFiniteSet(Procs) /\ Keep \in 1 .. 365 /\ MaxAttempts \in Nat /\ MaxDamaged \in Nat

NoProc == "nobody"
ASSUME NoProcAssumption == NoProc \notin Procs

VARIABLES
    gens,       \* generation -> "good", or "torn": rmtree was interrupted, or "damaged"
    incomplete, \* .incomplete-* directories left behind or being written
    published,  \* generations published so far
    status,     \* status.json
    lock,       \* who holds backup.lock
    pc,         \* where an invocation stands
    mem,        \* its status dictionary, read before the lock was taken
    generation, \* the generation its snapshot made, or 0
    doomed,     \* the candidates its prune removes
    attempts,   \* partial backups begun
    damaged     \* history: the generations the medium damaged

disk == <<gens, incomplete, published, damaged>>
backupVars == <<disk, status, lock, pc, mem, generation, doomed, attempts>>

Actions == {"preflight", "partial-backup", "verify"}
States == {"good", "torn", "damaged"}
NoStatus == [result |-> "never-attempted", action |-> "none", gen |-> 0]
Statuses == [result : {"never-attempted", "running", "ok", "failed"},
             action : Actions \cup {"none"}, gen : 0 .. MaxAttempts]
Held == {"locked", "guard", "snapshot", "dump", "check", "prune", "done"}

BackupTypeOK ==
    /\ DOMAIN gens \subseteq 1 .. published /\ \A g \in DOMAIN gens : gens[g] \in States
    /\ incomplete \in 0 .. MaxAttempts /\ published \in 0 .. MaxAttempts
    /\ status \in Statuses /\ lock \in Procs \cup {NoProc}
    /\ pc \in [Procs -> Held \cup {"idle", "read"}] /\ mem \in [Procs -> Statuses]
    /\ generation \in [Procs -> 0 .. MaxAttempts]
    /\ doomed \in [Procs -> SUBSET (1 .. MaxAttempts)] /\ attempts \in 0 .. MaxAttempts
    /\ damaged \subseteq 1 .. published

BackupInit ==
    /\ gens = << >> /\ incomplete = 0 /\ published = 0 /\ damaged = {}
    /\ status = NoStatus /\ lock = NoProc /\ attempts = 0
    /\ pc = [p \in Procs |-> "idle"] /\ mem = [p \in Procs |-> NoStatus]
    /\ generation = [p \in Procs |-> 0] /\ doomed = [p \in Procs |-> {}]

Good == {g \in DOMAIN gens : gens[g] = "good"}
Without(g) == [h \in DOMAIN gens \ {g} |-> gens[h]]

Goto(p, l) == pc' = [pc EXCEPT ![p] = l]

(* The process ends: its lock and its dictionary go with it. *)
Gone(p) ==
    /\ Goto(p, "idle") /\ mem' = [mem EXCEPT ![p] = NoStatus]
    /\ generation' = [generation EXCEPT ![p] = 0] /\ doomed' = [doomed EXCEPT ![p] = {}]
    /\ lock' = IF lock = p THEN NoProc ELSE lock

(* main's try, except and finally: the outcome is saved, or the save fails   *)
(* as well and "running" stays.                                              *)
Conclude(p, outcome) ==
    /\ Gone(p) /\ status' \in {outcome, status}
    /\ UNCHANGED attempts

Failed(p) == Conclude(p, [mem[p] EXCEPT !.result = "failed"])

-----------------------------------------------------------------------------
(* main reads status.json, whatever it was asked for, before it locks. *)
Begin(p) ==
    /\ pc[p] = "idle"
    /\ \E a \in Actions :
         /\ a = "partial-backup" => attempts < MaxAttempts
         /\ attempts' = IF a = "partial-backup" THEN attempts + 1 ELSE attempts
         /\ mem' = [mem EXCEPT ![p] = [status EXCEPT !.action = a]]
    /\ Goto(p, "read") /\ UNCHANGED <<disk, status, lock, generation, doomed>>

(* Mutant of Lock: the lock of another invocation is taken over. *)
LockShared(p) ==
    /\ pc[p] = "read" /\ lock' = p /\ Goto(p, "locked")
    /\ UNCHANGED <<disk, status, mem, generation, doomed, attempts>>

(* The lock is taken without waiting; a refusal touches nothing. *)
Lock(p) ==
    /\ pc[p] = "read"
    /\ \/ /\ lock = NoProc /\ lock' = p /\ Goto(p, "locked") /\ UNCHANGED <<mem, generation, doomed>>
       \/ lock # NoProc /\ Gone(p)
    /\ UNCHANGED <<disk, status, attempts>>

(* The attempt is saved first; if that fails, nothing else happens. *)
Attempt(p) ==
    /\ pc[p] = "locked"
    /\ \/ /\ status' = [mem[p] EXCEPT !.result = "running"] /\ Goto(p, "guard")
          /\ mem' = [mem EXCEPT ![p] = status'] /\ UNCHANGED <<lock, generation, doomed>>
       \/ Gone(p) /\ UNCHANGED status
    /\ UNCHANGED <<disk, attempts>>

(* The mount, the subtree, the sources, the space and the namespace are as   *)
(* they have to be, or the run is refused.                                   *)
Destination(p) ==
    /\ pc[p] = "guard"
    /\ \/ /\ Goto(p, IF mem[p].action = "partial-backup" THEN "snapshot" ELSE "done")
          /\ UNCHANGED <<status, lock, mem, generation, doomed, attempts>>
       \/ Failed(p)
    /\ UNCHANGED disk

(* snapshot: the incomplete directory, *)
Snapshot(p) ==
    /\ pc[p] = "snapshot"
    /\ \/ /\ incomplete' = incomplete + 1 /\ Goto(p, "dump")
          /\ UNCHANGED <<status, lock, mem, generation, doomed, attempts>>
       \/ Failed(p) /\ UNCHANGED incomplete
    /\ UNCHANGED <<gens, published, damaged>>

(* its dumps and artifacts, verified and renamed.  A failure leaves it. *)
Publish(p) ==
    /\ pc[p] = "dump"
    /\ \/ /\ published' = published + 1 /\ incomplete' = incomplete - 1
          /\ gens' = [g \in DOMAIN gens \cup {published + 1} |->
                        IF g = published + 1 THEN "good" ELSE gens[g]]
          /\ generation' = [generation EXCEPT ![p] = published + 1] /\ Goto(p, "check")
          /\ UNCHANGED <<status, lock, mem, doomed, attempts, damaged>>
       \/ Failed(p) /\ UNCHANGED disk

(* generations[:-keep], sorted by created_at. *)
Candidates == {g \in DOMAIN gens : Cardinality({h \in DOMAIN gens : h > g}) >= Keep}

(* Mutant of PruneChecks: whatever has a generation's name is a candidate. *)
PruneChecksNothing(p) ==
    /\ pc[p] = "check" /\ Goto(p, "prune") /\ doomed' = [doomed EXCEPT ![p] = Candidates]
    /\ UNCHANGED <<disk, status, lock, mem, generation, attempts>>

(* prune: every generation is verified before one is removed.  A failure     *)
(* does not undo the publication; last_success stays what it was.            *)
PruneChecks(p) ==
    /\ pc[p] = "check"
    /\ \/ /\ Good = DOMAIN gens /\ Goto(p, "prune")
          /\ doomed' = [doomed EXCEPT ![p] = Candidates]
          /\ UNCHANGED <<status, lock, mem, generation, attempts>>
       \/ Failed(p)
    /\ UNCHANGED disk

(* rmtree of the oldest candidate: it is broken before it is gone. *)
PruneRemoves(p) ==
    /\ pc[p] = "prune"
    /\ \/ \E g \in doomed[p] \cap DOMAIN gens :
            /\ \A h \in doomed[p] : g <= h
            /\ \/ /\ gens[g] # "torn" /\ gens' = [gens EXCEPT ![g] = "torn"] /\ UNCHANGED doomed
               \/ /\ gens[g] = "torn" /\ gens' = Without(g)
                  /\ doomed' = [doomed EXCEPT ![p] = @ \ {g}]
            /\ UNCHANGED <<incomplete, published, damaged, status, lock, pc, mem, generation, attempts>>
       \/ /\ doomed[p] = {} /\ Goto(p, "done")
          /\ UNCHANGED <<disk, status, lock, mem, generation, doomed, attempts>>
       \/ Failed(p) /\ UNCHANGED disk

(* The end of the action: capacity_after, verify of a named generation, or   *)
(* nothing more; then "ok".                                                  *)
Finish(p) ==
    /\ pc[p] = "done"
    /\ \/ /\ mem[p].action = "verify" => Good # {}
          /\ Conclude(p, [mem[p] EXCEPT !.result = "ok",
                             !.gen = IF generation[p] # 0 THEN generation[p] ELSE @])
       \/ Failed(p)
    /\ UNCHANGED disk

-----------------------------------------------------------------------------
(* The process is killed wherever it stands: systemd, power. *)
Crash(p) == pc[p] # "idle" /\ Gone(p) /\ UNCHANGED <<disk, status, attempts>>

(* The medium damages a published generation, outside the seconds of a prune. *)
Damage(g) ==
    /\ gens[g] = "good" /\ \A p \in Procs : pc[p] # "prune" /\ Cardinality(damaged) < MaxDamaged
    /\ gens' = [gens EXCEPT ![g] = "damaged"] /\ damaged' = damaged \cup {g}
    /\ UNCHANGED <<incomplete, published, status, lock, pc, mem, generation, doomed, attempts>>

(* The operator inspects what was retained and removes it, while nothing     *)
(* runs.                                                                     *)
Inspect ==
    /\ lock = NoProc
    /\ \/ \E g \in DOMAIN gens \ Good : gens' = Without(g) /\ UNCHANGED incomplete
       \/ incomplete > 0 /\ incomplete' = incomplete - 1 /\ UNCHANGED gens
    /\ UNCHANGED <<published, damaged, status, lock, pc, mem, generation, doomed, attempts>>

-----------------------------------------------------------------------------
Step(p) ==
    \/ Begin(p) \/ Lock(p) \/ Attempt(p) \/ Destination(p) \/ Snapshot(p) \/ Publish(p)
    \/ PruneChecks(p) \/ PruneRemoves(p) \/ Finish(p)

BackupNext ==
    \/ \E p \in Procs : Step(p) \/ Crash(p)
    \/ \E g \in DOMAIN gens : Damage(g)
    \/ Inspect

BackupSpec == BackupInit /\ [][BackupNext]_backupVars

-----------------------------------------------------------------------------
(* Retention never costs a good backup.  Keep generations, or all that were  *)
(* ever published, verify, but for those the medium damaged, after every     *)
(* failure and every kill, inside rmtree included; and damage stops the      *)
(* removals: what a prune removes has Keep newer generations that verify     *)
(* (prune, snapshot).                                                        *)
RetentionHolds ==
    /\ Cardinality(Good) + Cardinality(damaged) >= Min({Keep, published})
    /\ \A p \in Procs : \A g \in doomed[p] : Cardinality({h \in Good : h > g}) >= Keep

(* A partial backup that reports ok names the newest generation, and it is   *)
(* there, unless the medium damaged it: no other invocation pruned it or     *)
(* published another one in between (main's lock, prune's order).            *)
SuccessIsPublished ==
    status.result = "ok" /\ status.action = "partial-backup" =>
      status.gen = published /\ status.gen \in Good \cup damaged
=============================================================================
