----------------------------- MODULE Migration -----------------------------
(***************************************************************************)
(* db.migrate as the web service and the worker run it, each on its own    *)
(* connection, both at start-up: the version probe under the write lock,   *)
(* the backup copy taken without it, the second look under the lock and    *)
(* the forward steps in one transaction. Any process may be killed at any  *)
(* point; SQLite then releases its lock and drops what was not committed.  *)
(***************************************************************************)
EXTENDS Integers, Sequences

CONSTANTS
  Procs,         \* the processes that migrate at start-up
  Release,       \* SCHEMA_VERSION
  Baseline,      \* BASELINE_VERSION
  StartVersions, \* user_version of the database file, 0 when it is new
  MaxClock,      \* bound: seconds that pass
  SameSecond,    \* whether two copies may be taken within one second
  MaxFaults      \* bound: kills and failing steps

Nobody == "nobody"

ASSUME MigrationAssumption ==
  /\ Nobody \notin Procs
  /\ Baseline \in Nat \ {0}
  /\ Release \in Nat
  /\ Release >= Baseline
  /\ StartVersions \subseteq Nat
  /\ MaxClock \in Nat
  /\ SameSecond \in BOOLEAN
  /\ MaxFaults \in Nat

VARIABLES
  disk,    \* the committed database
  lock,    \* who holds SQLite's write lock (BEGIN IMMEDIATE)
  work,    \* each process's database inside its open transaction
  pc,      \* where each process is
  probed,  \* the version its probe read
  target,  \* the copy it is writing
  copies,  \* complete backup copies next to the database: file -> content
  clock,   \* the wall clock, in the seconds a file name can tell apart
  faults   \* kills and failures so far

schemaVars == <<disk, lock, work, pc, probed, target, copies, clock, faults>>
txVars == <<disk, lock, work>>
copyVars == <<target, copies>>

Stages == {"starting", "creating", "probed", "copying", "copied", "migrating",
           "started", "refused", "exited"}

(* base is the version the file was found at, steps what was applied to it *)
(* since, in order.                                                        *)
Database == [base : Nat, steps : Seq(Nat), version : Nat]
Untouched(v) == [base |-> v, steps |-> <<>>, version |-> v]
Upgraded(db, v) == [base |-> db.base, steps |-> Append(db.steps, v), version |-> v]

Files == [next : Nat, stamp : Nat]
NoFile == [next |-> 0, stamp |-> 0]

LockFree == lock = Nobody

-----------------------------------------------------------------------------
Moves(p, stage) == pc' = [pc EXCEPT ![p] = stage]

NeedsMigration == disk.version \in Baseline .. Release - 1

(* What the probe decides: a new file keeps the transaction open, to create*)
(* the schema; every other outcome ends it at once. Newer than the release *)
(* or older than the baseline is refused.                                  *)
ProbeVersion(p) ==
  /\ pc[p] = "starting"
  /\ probed' = [probed EXCEPT ![p] = disk.version]
  /\ \/ disk.version = 0 /\ Moves(p, "creating")
     \/ disk.version = Release /\ Moves(p, "started")
     \/ NeedsMigration /\ Moves(p, "probed")
     \/ disk.version \notin {0} \cup Baseline .. Release /\ Moves(p, "refused")
  /\ UNCHANGED <<disk, work, copyVars, clock, faults>>

(* Broken: the version is read before the write lock is taken.             *)
ProbeUnlocked(p) ==
  /\ ProbeVersion(p)
  /\ lock' = IF disk.version = 0 THEN p ELSE lock

(* Broken: the probing transaction stays open while the copy is written.   *)
ProbeKeepsLock(p) ==
  /\ LockFree
  /\ ProbeVersion(p)
  /\ lock' = IF disk.version = 0 \/ NeedsMigration THEN p ELSE Nobody

Probe(p) ==
  /\ LockFree
  /\ ProbeVersion(p)
  /\ lock' = IF disk.version = 0 THEN p ELSE Nobody

(* SCHEMA creates the newest layout directly; its statements fail on a     *)
(* file that already has the tables.                                       *)
CreateSchema(p) ==
  /\ pc[p] = "creating"
  /\ disk.version = 0
  /\ disk' = Untouched(Release)
  /\ lock' = Nobody
  /\ Moves(p, "started")
  /\ UNCHANGED <<work, probed, copyVars, clock, faults>>

-----------------------------------------------------------------------------
(* _write_backup_copy: no lock is held, so the other process may commit    *)
(* before the copy is taken.                                               *)

FileFor(p) == [next |-> probed[p] + 1, stamp |-> clock]

(* A copy cut off half way is not a complete copy of anything.             *)
BeginCopy(p) ==
  /\ pc[p] = "probed"
  /\ lock # p
  /\ SameSecond \/ FileFor(p) \notin DOMAIN copies \cup {target[q] : q \in Procs}
  /\ target' = [target EXCEPT ![p] = FileFor(p)]
  /\ Moves(p, "copying")
  /\ UNCHANGED <<txVars, probed, copies, clock, faults>>

(* Broken: the migration goes on without waiting for the copy.             *)
CopyNotAwaited(p) ==
  /\ pc[p] = "copying"
  /\ Moves(p, "copied")
  /\ UNCHANGED <<txVars, probed, copyVars, clock, faults>>

(* One write transaction on the copy: an existing file keeps its content   *)
(* until it is replaced as a whole.                                        *)
EndCopy(p) ==
  /\ pc[p] = "copying"
  /\ copies' = [f \in DOMAIN copies \cup {target[p]} |->
                  IF f = target[p] THEN disk ELSE copies[f]]
  /\ Moves(p, "copied")
  /\ UNCHANGED <<txVars, probed, target, clock, faults>>

-----------------------------------------------------------------------------
(* The second transaction. *)

(* Broken: goes on from the version the probe read.                        *)
BeginFromProbed(p) ==
  /\ pc[p] = "copied"
  /\ LockFree
  /\ lock' = p
  /\ work' = [work EXCEPT ![p] = [disk EXCEPT !.version = probed[p]]]
  /\ Moves(p, "migrating")
  /\ UNCHANGED <<disk, probed, copyVars, clock, faults>>

(* The version is read again under the lock; at the release's own version  *)
(* there is nothing left to do.                                            *)
BeginMigration(p) ==
  /\ pc[p] = "copied"
  /\ LockFree
  /\ IF disk.version = Release
     THEN Moves(p, "started") /\ UNCHANGED <<lock, work>>
     ELSE lock' = p /\ work' = [work EXCEPT ![p] = disk] /\ Moves(p, "migrating")
  /\ UNCHANGED <<disk, probed, copyVars, clock, faults>>

Step(p) ==
  /\ pc[p] = "migrating"
  /\ work[p].version < Release
  /\ work' = [work EXCEPT ![p] = Upgraded(@, @.version + 1)]
  /\ UNCHANGED <<disk, lock, pc, probed, copyVars, clock, faults>>

(* Broken: the transaction ends after a single step.                       *)
CommitEarly(p) ==
  /\ pc[p] = "migrating"
  /\ work[p] # disk
  /\ disk' = work[p]
  /\ lock' = Nobody
  /\ Moves(p, "started")
  /\ UNCHANGED <<work, probed, copyVars, clock, faults>>

Commit(p) ==
  /\ pc[p] = "migrating"
  /\ work[p].version = Release
  /\ disk' = work[p]
  /\ lock' = Nobody
  /\ Moves(p, "started")
  /\ UNCHANGED <<work, probed, copyVars, clock, faults>>

Unlocked(p) == IF lock = p THEN Nobody ELSE lock

(* A statement of the schema, of a step or of the copy raises: rolled back,*)
(* the process exits.                                                      *)
Fails(p) ==
  /\ pc[p] \in {"creating", "copying", "migrating"}
  /\ faults < MaxFaults
  /\ faults' = faults + 1
  /\ lock' = Unlocked(p)
  /\ Moves(p, "exited")
  /\ UNCHANGED <<disk, work, probed, copyVars, clock>>

(* Killed, at any point, and started again by the container runtime.       *)
Killed(p) ==
  /\ faults < MaxFaults
  /\ faults' = faults + 1
  /\ lock' = Unlocked(p)
  /\ Moves(p, "starting")
  /\ UNCHANGED <<disk, work, probed, copyVars, clock>>

Restarted(p) ==
  /\ pc[p] = "exited"
  /\ Moves(p, "starting")
  /\ UNCHANGED <<txVars, probed, copyVars, clock, faults>>

(* Only the seconds in which a copy was begun need to be told apart.       *)
SecondPasses ==
  /\ clock < MaxClock
  /\ \E p \in Procs : target[p].stamp = clock
  /\ clock' = clock + 1
  /\ UNCHANGED <<txVars, pc, probed, copyVars, faults>>

-----------------------------------------------------------------------------
SchemaInit ==
  /\ \E v \in StartVersions : disk = Untouched(v)
  /\ lock = Nobody
  /\ work = [p \in Procs |-> Untouched(0)]
  /\ pc = [p \in Procs |-> "starting"]
  /\ probed = [p \in Procs |-> 0]
  /\ target = [p \in Procs |-> NoFile]
  /\ copies = <<>>
  /\ clock = 1
  /\ faults = 0

Progress(p) ==
  \/ Probe(p)
  \/ CreateSchema(p)
  \/ BeginCopy(p)
  \/ EndCopy(p)
  \/ BeginMigration(p)
  \/ Step(p)
  \/ Commit(p)
  \/ Restarted(p)

SchemaNext ==
  \/ \E p \in Procs : Progress(p) \/ Fails(p) \/ Killed(p)
  \/ SecondPasses

SchemaSpec == SchemaInit /\ [][SchemaNext]_schemaVars

(***************************************************************************)
(* Fairness: a waiting BEGIN IMMEDIATE gets its turn within busy_timeout   *)
(* (SF: the other process's transactions disable it meanwhile), every      *)
(* transaction is short, the container runtime restarts an exited process, *)
(* and time passes.                                                        *)
(***************************************************************************)
SchemaFairness ==
  /\ \A p \in Procs : SF_schemaVars(Progress(p))
  /\ WF_schemaVars(SecondPasses)

SchemaFairSpec == SchemaSpec /\ SchemaFairness

-----------------------------------------------------------------------------
(* Properties. *)

SchemaTypeOK ==
  /\ disk \in Database
  /\ lock \in Procs \cup {Nobody}
  /\ work \in [Procs -> Database]
  /\ pc \in [Procs -> Stages]
  /\ probed \in [Procs -> Nat]
  /\ target \in [Procs -> Files]
  /\ DOMAIN copies \subseteq Files
  /\ copies \in [DOMAIN copies -> Database]
  /\ clock \in Nat
  /\ faults \in 0 .. MaxFaults
  /\ \A p \in Procs : lock = p <=> pc[p] \in {"creating", "migrating"}

(* db holds exactly the steps from its base to its version, each once and  *)
(* in order.                                                               *)
Consecutive(db) ==
  /\ db.version = db.base + Len(db.steps)
  /\ \A i \in DOMAIN db.steps : db.steps[i] = db.base + i

(* Whatever two starting processes and kills do, user_version names the    *)
(* steps the file really has, and no step ran twice (db.py:853-862).       *)
StepsMatchVersion ==
  /\ Consecutive(disk)
  /\ \A f \in DOMAIN copies : Consecutive(copies[f])

(* A process past migrate works on the layout of its own release           *)
(* (db.py:799-829, 853-857).                                               *)
StartedOnRelease == \A p \in Procs : pc[p] = "started" => disk.version = Release

(* Once the file was migrated, a complete copy of it as it was found lies  *)
(* next to it (docs/install.md:451-453).                                   *)
OriginalKept ==
  disk.steps # <<>> => \E f \in DOMAIN copies : copies[f] = Untouched(disk.base)

(* No two processes wait for each other: each starts, or is refused a      *)
(* database it cannot migrate (db.py:773-777, the tests' "hung" checks).   *)
Settled == \A p \in Procs : <>[](pc[p] \in {"started", "refused"})
=============================================================================
