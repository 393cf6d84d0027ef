------------------------------ MODULE Backups ------------------------------
(***************************************************************************)
(* The backup path of bioseasy, end to end: the runs table both processes  *)
(* share, the web process that inserts and enqueues, the one Huey worker   *)
(* with its start-up and per-tick orphan sweep, JobManager's in-memory     *)
(* states, and the backup threads that write the live directory.           *)
(*                                                                         *)
(* One action is one atomic step of the code: one SQLite statement (every  *)
(* connection is in autocommit mode, db.py:466), one critical section of   *)
(* JobManager's lock, or one step of a thread between two of those.        *)
(***************************************************************************)
EXTENDS Naturals, Sequences, FiniteSets

CONSTANTS
  Devices,   \* the udids that can be registered
  MaxRuns,   \* bound: largest id of the runs table
  MaxQueue,  \* bound: longest Huey queue
  Env        \* the environment conditions this instance admits

(***************************************************************************)
(* What the environment may do beyond plain crashes and restarts:          *)
(*   quick_restart  the worker is back within ORPHAN_THRESHOLD of its last *)
(*                  heartbeat                                              *)
(*   busy_queue     a click waits in the queue across a sweep or a crash   *)
(*   stalled_beat   a live worker misses heartbeats for ORPHAN_THRESHOLD   *)
(*   racing_remove  a run starts between device_remove's check and delete  *)
(*   db_fault       the write that records a run's result may raise        *)
(***************************************************************************)
Conditions == {"quick_restart", "busy_queue", "stalled_beat", "racing_remove", "db_fault"}

ASSUME ConstantsAssumption ==
  /\ MaxRuns \in Nat
  /\ MaxQueue \in Nat
  /\ Env \subseteq Conditions

VARIABLES
  devices,   \* rows of the devices table
  runs,      \* the runs table: id -> row
  removing,  \* devices whose removal passed its running-backup check
  queue,     \* the Huey queue: backup_device tasks, oldest first
  worker,    \* the worker process
  beat,      \* its row in the workers table
  consumer,  \* what the single Huey consumer thread is doing
  due,       \* devices the current tick has still to start
  states,    \* JobManager._states: device -> run id
  threads,   \* live backup threads
  live,      \* the live backup directory of each device
  newest     \* the newest generation of each device on disk

vars == <<devices, runs, removing, queue, worker, beat, consumer, due,
          states, threads, live, newest>>
workerVars == <<worker, beat>>
jobVars == <<states, threads>>
diskVars == <<live, newest>>

RunIds == 1 .. MaxRuns
NoRun == 0
Verdicts == {"succeeded", "failed", "not_confirmed"}

Row == [udid : Devices, status : Verdicts \cup {"running"}, claimed : BOOLEAN]
Task == [udid : Devices, run : RunIds \cup {NoRun}]
Thread == [udid : Devices, run : RunIds,
           phase : {"transferring", "snapshotting", "finishing", "popping"},
           verdict : Verdicts \cup {"none"},
           handled : BOOLEAN]
Generation == [run : RunIds \cup {NoRun}, whole : BOOLEAN]

-----------------------------------------------------------------------------
(* The runs table. *)

Running(r) == r \in DOMAIN runs /\ runs[r].status = "running"
HasRunning(d) == \E r \in DOMAIN runs : runs[r].udid = d /\ runs[r].status = "running"

(* INTEGER PRIMARY KEY without AUTOINCREMENT: one above the largest id in   *)
(* use, so the id of a deleted newest row is given out again.              *)
IsNextId(r) ==
  /\ r \in RunIds
  /\ \A s \in DOMAIN runs : s < r
  /\ r = 1 \/ r - 1 \in DOMAIN runs

Inserted(r, d, claimed) ==
  [i \in DOMAIN runs \cup {r} |->
     IF i = r THEN [udid |-> d, status |-> "running", claimed |-> claimed] ELSE runs[i]]

Claimed(r) ==
  [i \in DOMAIN runs |-> IF i = r THEN [runs[i] EXCEPT !.claimed = TRUE] ELSE runs[i]]

Finished(r, verdict) ==
  [i \in DOMAIN runs |-> IF i = r THEN [runs[i] EXCEPT !.status = verdict] ELSE runs[i]]

(* Broken variants, each the body of the definition after it with one      *)
(* plausible mistake; they show that the properties can be violated.       *)
OrphanOnlyUnclaimed(r) == runs[r].status = "running" /\ ~runs[r].claimed
OrphanAnyStatus(r) == ~runs[r].claimed \/ beat # "fresh"

(* Every worker incarnation registers under the same id, so a claimed row  *)
(* is an orphan exactly when the one workers row is missing or stale.      *)
Orphan(r) == runs[r].status = "running" /\ (~runs[r].claimed \/ beat # "fresh")

Swept ==
  [i \in DOMAIN runs |-> IF Orphan(i) THEN [runs[i] EXCEPT !.status = "failed"] ELSE runs[i]]

-----------------------------------------------------------------------------
(* Bounds and environment conditions. *)

(* Starts already promised that will each insert a row of their own.       *)
PendingStarts == {i \in DOMAIN queue : queue[i].run = NoRun}

(* MaxRuns leaves room for n more rows besides the pending starts.         *)
RoomFor(n) == \A s \in DOMAIN runs \cup {0} :
                 s + Cardinality(PendingStarts) + Cardinality(due) + n <= MaxRuns

(* A click's task has not been dequeued yet.                               *)
ClickWaiting == \E i \in DOMAIN queue : queue[i].run # NoRun

CalmOr(condition, calm) == condition \in Env \/ calm

-----------------------------------------------------------------------------
(* The web process. *)

AddDevice(d) ==
  /\ d \notin devices
  /\ devices' = devices \cup {d}
  /\ UNCHANGED <<runs, removing, queue, workerVars, consumer, due, jobVars, diskVars>>

(* "Back up now": the running row goes in unclaimed, then the task is      *)
(* enqueued - unless the web process dies between the two. The unique      *)
(* index runs_one_running refuses a second running row.                    *)
BackupNow(d) ==
  /\ d \in devices
  /\ ~HasRunning(d)
  /\ CalmOr("busy_queue", worker = "up" /\ consumer # "discovering")
  /\ Len(queue) < MaxQueue
  /\ RoomFor(1)
  /\ \E r \in RunIds :
       /\ IsNextId(r)
       /\ runs' = Inserted(r, d, FALSE)
       /\ queue' = Append(queue, [udid |-> d, run |-> r]) \/ queue' = queue
  /\ UNCHANGED <<devices, removing, workerVars, consumer, due, jobVars, diskVars>>

(* The Shortcuts API looks at the status and enqueues without a row.       *)
BackupApi(d) ==
  /\ d \in devices
  /\ ~HasRunning(d)
  /\ Len(queue) < MaxQueue
  /\ RoomFor(1)
  /\ queue' = Append(queue, [udid |-> d, run |-> NoRun])
  /\ UNCHANGED <<devices, runs, removing, workerVars, consumer, due, jobVars, diskVars>>

(* Deleting the device row cascades to its runs; backups stay on disk.     *)
Forgotten(d) ==
  /\ devices' = devices \ {d}
  /\ runs' = [i \in {r \in DOMAIN runs : runs[r].udid # d} |-> runs[i]]
  /\ UNCHANGED <<queue, workerVars, consumer, due, jobVars, diskVars>>

(* Broken: no check for a running row.                                     *)
RemoveUnchecked(d) ==
  /\ d \in devices
  /\ Forgotten(d)
  /\ UNCHANGED removing

(* device_remove, refused while a running row exists.                      *)
Remove(d) ==
  /\ d \in devices
  /\ ~HasRunning(d)
  /\ Forgotten(d)
  /\ UNCHANGED removing

(* The same request, the check and the delete being separate statements.   *)
RemoveCheck(d) ==
  /\ "racing_remove" \in Env
  /\ d \in devices \ removing
  /\ ~HasRunning(d)
  /\ removing' = removing \cup {d}
  /\ UNCHANGED <<devices, runs, queue, workerVars, consumer, due, jobVars, diskVars>>

RemoveCommit(d) ==
  /\ removing' = removing \ {d}
  /\ Forgotten(d)

Web ==
  \/ \E d \in Devices : AddDevice(d) \/ BackupNow(d) \/ BackupApi(d) \/ Remove(d) \/ RemoveCheck(d)
  \/ \E d \in removing : RemoveCommit(d)

-----------------------------------------------------------------------------
(* The life of the worker process. *)

(* Start-up sweeps before the first heartbeat of this incarnation.         *)
Boot ==
  /\ worker = "down"
  /\ CalmOr("quick_restart", beat # "fresh")
  /\ worker' = "booting"
  /\ runs' = Swept
  /\ UNCHANGED <<devices, removing, queue, beat, consumer, due, jobVars, diskVars>>

StartHeartbeat ==
  /\ worker = "booting"
  /\ worker' = "up"
  /\ beat' = "fresh"
  /\ UNCHANGED <<devices, runs, removing, queue, consumer, due, jobVars, diskVars>>

(* Everything in memory is gone; tables, queue and disk stay.              *)
Crash ==
  /\ worker # "down"
  /\ CalmOr("busy_queue", ~ClickWaiting)
  /\ worker' = "down"
  /\ consumer' = "idle"
  /\ due' = {}
  /\ states' = [d \in Devices |-> NoRun]
  /\ threads' = {}
  /\ UNCHANGED <<devices, runs, removing, queue, beat, diskVars>>

(* ORPHAN_THRESHOLD passes without a heartbeat.                            *)
BeatGoesStale ==
  /\ beat = "fresh"
  /\ CalmOr("stalled_beat", worker # "up")
  /\ beat' = "stale"
  /\ UNCHANGED <<devices, runs, removing, queue, worker, consumer, due, jobVars, diskVars>>

Heartbeat ==
  /\ worker = "up"
  /\ beat = "stale"
  /\ beat' = "fresh"
  /\ UNCHANGED <<devices, runs, removing, queue, worker, consumer, due, jobVars, diskVars>>

Lifecycle == Boot \/ StartHeartbeat \/ Crash \/ BeatGoesStale \/ Heartbeat

-----------------------------------------------------------------------------
(* JobManager.start, called from the consumer thread. *)

Spawned(d, r) ==
  threads \cup {[udid |-> d, run |-> r, phase |-> "transferring", verdict |-> "none", handled |-> FALSE]}

Spawn(d, r) ==
  /\ states' = [states EXCEPT ![d] = r]
  /\ threads' = Spawned(d, r)

(* A backup of this device is under way in this process: report it.        *)
StartAlreadyRunning(d) ==
  /\ states[d] # NoRun
  /\ UNCHANGED <<runs, jobVars>>

(* Broken: claims although a thread of this device is under way.           *)
StartClaimUnguarded(d, r) ==
  /\ r # NoRun
  /\ runs' = Claimed(r)
  /\ Spawn(d, r)

(* Claim the row the web process inserted, whatever has become of it.      *)
StartClaim(d, r) ==
  /\ states[d] = NoRun
  /\ r # NoRun
  /\ runs' = Claimed(r)
  /\ Spawn(d, r)

StartInsert(d, r) ==
  /\ states[d] = NoRun
  /\ r = NoRun
  /\ d \in devices
  /\ ~HasRunning(d)
  /\ \E new \in RunIds :
       /\ IsNextId(new)
       /\ runs' = Inserted(new, d, TRUE)
       /\ Spawn(d, new)

(* IntegrityError: runs_one_running already holds a running row.           *)
StartRefused(d, r) ==
  /\ states[d] = NoRun
  /\ r = NoRun
  /\ HasRunning(d)
  /\ UNCHANGED <<runs, jobVars>>

(* IntegrityError from the foreign key: no running row to report, so the   *)
(* call raises.                                                            *)
StartRaises(d, r) ==
  /\ states[d] = NoRun
  /\ r = NoRun
  /\ d \notin devices
  /\ ~HasRunning(d)
  /\ UNCHANGED <<runs, jobVars>>

StartReturns(d, r) ==
  StartAlreadyRunning(d) \/ StartClaim(d, r) \/ StartInsert(d, r) \/ StartRefused(d, r)

(* The consumer runs the oldest backup_device task; one that raises is     *)
(* logged and gone all the same.                                           *)
Dequeue ==
  /\ worker = "up"
  /\ consumer = "idle"
  /\ queue # <<>>
  /\ queue' = Tail(queue)
  /\ StartReturns(Head(queue).udid, Head(queue).run) \/ StartRaises(Head(queue).udid, Head(queue).run)
  /\ UNCHANGED <<devices, removing, workerVars, consumer, due, diskVars>>

-----------------------------------------------------------------------------
(* The scheduler tick, a task of the same consumer thread. *)

(* The lease is taken and discovery, the slow part, begins.                *)
TickBegin ==
  /\ worker = "up"
  /\ consumer = "idle"
  /\ CalmOr("busy_queue", ~ClickWaiting)
  /\ consumer' = "discovering"
  /\ UNCHANGED <<devices, runs, removing, queue, workerVars, due, jobVars, diskVars>>

(* Broken: the sweep runs at start-up only.                                *)
TickWithoutSweep ==
  /\ consumer = "discovering"
  /\ due' = {}
  /\ consumer' = "scheduling"
  /\ UNCHANGED <<devices, runs, removing, queue, workerVars, jobVars, diskVars>>

(* Sweep, then decide; which devices are due is the Scheduler module's     *)
(* business, but never one whose backup runs in this process.              *)
TickSweep ==
  /\ consumer = "discovering"
  /\ runs' = Swept
  /\ \E D \in SUBSET {d \in devices : states[d] = NoRun} :
       /\ RoomFor(Cardinality(D))
       /\ due' = D
  /\ consumer' = "scheduling"
  /\ UNCHANGED <<devices, removing, queue, workerVars, jobVars, diskVars>>

TickStart(d) ==
  /\ consumer = "scheduling"
  /\ StartReturns(d, NoRun)
  /\ due' = due \ {d}
  /\ UNCHANGED <<devices, removing, queue, workerVars, consumer, diskVars>>

(* A start that raises ends the tick for every device still due.           *)
TickAborts(d) ==
  /\ consumer = "scheduling"
  /\ StartRaises(d, NoRun)
  /\ due' = {}
  /\ consumer' = "idle"
  /\ UNCHANGED <<devices, removing, queue, workerVars, diskVars>>

TickEnd ==
  /\ consumer = "scheduling"
  /\ due = {}
  /\ consumer' = "idle"
  /\ UNCHANGED <<devices, runs, removing, queue, workerVars, due, jobVars, diskVars>>

Tick ==
  \/ TickBegin
  \/ TickSweep
  \/ \E d \in due : TickStart(d) \/ TickAborts(d)
  \/ TickEnd

-----------------------------------------------------------------------------
(* A backup thread: JobManager._run. *)

Becomes(t, u) == threads' = (threads \ {t}) \cup {u}

(* handled: the result is written from an except clause, outside _run's    *)
(* own try block.                                                          *)
Ends(t, verdict, handled) ==
  Becomes(t, [t EXCEPT !.phase = "finishing", !.verdict = verdict, !.handled = handled])

(* Broken: returns to the result write without having chosen a result.     *)
StorageCheckIgnored(t) ==
  /\ t.phase = "transferring"
  /\ Becomes(t, [t EXCEPT !.phase = "finishing"])
  /\ UNCHANGED <<runs, states, diskVars>>

(* The storage check comes first; nothing has touched the disk by then. It *)
(* reports a problem or, like any later step, raises (handled).            *)
StorageCheckFails(t) ==
  /\ t.phase = "transferring"
  /\ \E raised \in BOOLEAN : Ends(t, "failed", raised)
  /\ UNCHANGED <<runs, states, diskVars>>

(* The engine rewrites the live backup in place.                           *)
EngineWrites(t) ==
  /\ t.phase = "transferring"
  /\ live[t.udid] = "complete"
  /\ live' = [live EXCEPT ![t.udid] = "partial"]
  /\ UNCHANGED <<runs, jobVars, newest>>

(* Broken: what the engine left on disk is not read back.                  *)
EngineTrusted(t) ==
  /\ t.phase = "transferring"
  /\ \E content \in {"partial", "complete"} : live' = [live EXCEPT ![t.udid] = content]
  /\ Becomes(t, [t EXCEPT !.phase = "snapshotting"])
  /\ UNCHANGED <<runs, states, newest>>

(* The engine returns and read_backup judges what is on disk.              *)
EngineReturns(t) ==
  /\ t.phase = "transferring"
  /\ \/ /\ live' = [live EXCEPT ![t.udid] = "complete"]
        /\ Becomes(t, [t EXCEPT !.phase = "snapshotting"])
     \/ /\ live' = [live EXCEPT ![t.udid] = "partial"]
        /\ \E raised \in BOOLEAN : Ends(t, "failed", raised)
  /\ UNCHANGED <<runs, states, newest>>

(* Not confirmed in time, stalled, unreachable, not paired, cut off.       *)
EngineRaises(t) ==
  /\ t.phase = "transferring"
  /\ \E verdict \in {"failed", "not_confirmed"} : Ends(t, verdict, TRUE)
  /\ UNCHANGED <<runs, states, diskVars>>

(* rsync copied the live directory; the rename makes it a generation.      *)
(* Retention or the bookkeeping after it may still raise, and then a good  *)
(* generation belongs to a failed run.                                     *)
SnapshotTaken(t) ==
  /\ t.phase = "snapshotting"
  /\ newest' = [newest EXCEPT ![t.udid] = [run |-> t.run, whole |-> live[t.udid] = "complete"]]
  /\ Ends(t, "succeeded", FALSE) \/ Ends(t, "failed", TRUE)
  /\ UNCHANGED <<runs, states, live>>

(* Broken: a SnapshotError does not change the result.                     *)
SnapshotErrorIgnored(t) ==
  /\ t.phase = "snapshotting"
  /\ Ends(t, "succeeded", FALSE)
  /\ UNCHANGED <<runs, states, diskVars>>

SnapshotFails(t) ==
  /\ t.phase = "snapshotting"
  /\ \E raised \in BOOLEAN : Ends(t, "failed", raised)
  /\ UNCHANGED <<runs, states, diskVars>>

(* _finish writes the row first and leaves _states in a second step.       *)
WriteResult(t) ==
  /\ t.phase = "finishing"
  /\ runs' = Finished(t.run, t.verdict)
  /\ Becomes(t, [t EXCEPT !.phase = "popping"])
  /\ UNCHANGED <<states, diskVars>>

(* The write raises: once more from _run's last except clause, then the    *)
(* thread is dead.                                                         *)
WriteRaises(t) ==
  /\ "db_fault" \in Env
  /\ t.phase = "finishing"
  /\ IF t.handled THEN threads' = threads \ {t} ELSE Ends(t, "failed", TRUE)
  /\ UNCHANGED <<runs, states, diskVars>>

(* Broken: the thread ends without leaving _states.                        *)
PopForgotten(t) ==
  /\ t.phase = "popping"
  /\ threads' = threads \ {t}
  /\ UNCHANGED <<runs, states, diskVars>>

PopState(t) ==
  /\ t.phase = "popping"
  /\ states' = [states EXCEPT ![t.udid] = NoRun]
  /\ threads' = threads \ {t}
  /\ UNCHANGED <<runs, diskVars>>

ThreadStep(t) ==
  /\ \/ StorageCheckFails(t)
     \/ EngineWrites(t)
     \/ EngineReturns(t)
     \/ EngineRaises(t)
     \/ SnapshotTaken(t)
     \/ SnapshotFails(t)
     \/ WriteResult(t)
     \/ WriteRaises(t)
     \/ PopState(t)
  /\ UNCHANGED <<devices, removing, queue, workerVars, consumer, due>>

-----------------------------------------------------------------------------
Init ==
  /\ devices = {}
  /\ runs = <<>>
  /\ removing = {}
  /\ queue = <<>>
  /\ worker = "down"
  /\ beat = "none"
  /\ consumer = "idle"
  /\ due = {}
  /\ states = [d \in Devices |-> NoRun]
  /\ threads = {}
  /\ live = [d \in Devices |-> "partial"]
  /\ newest = [d \in Devices |-> [run |-> NoRun, whole |-> TRUE]]

Next ==
  \/ Web
  \/ Lifecycle
  \/ Dequeue
  \/ Tick
  \/ \E t \in threads : ThreadStep(t)

Spec == Init /\ [][Next]_vars

(***************************************************************************)
(* Fairness. The container runtime restarts the worker and time passes;    *)
(* the consumer thread takes Huey's queue in order, so neither tick nor    *)
(* task is passed over for ever (SF: each disables the other while it      *)
(* runs); a backup thread always makes progress, because the engine bounds *)
(* the wait for the passcode and every silence during the transfer. Nobody *)
(* has to click, call, remove or crash.                                    *)
(***************************************************************************)
DeviceThread(d) == \E t \in threads : t.udid = d /\ ThreadStep(t)

Fairness ==
  /\ WF_vars(Boot)
  /\ WF_vars(StartHeartbeat)
  /\ WF_vars(BeatGoesStale /\ worker # "up")
  /\ WF_vars(Heartbeat)
  /\ SF_vars(Dequeue)
  /\ SF_vars(TickBegin)
  /\ WF_vars(TickSweep)
  /\ WF_vars(\E d \in due : TickStart(d) \/ TickAborts(d))
  /\ WF_vars(TickEnd)
  /\ \A d \in Devices : WF_vars(DeviceThread(d))

FairSpec == Spec /\ Fairness

-----------------------------------------------------------------------------
(* Properties. *)

TypeOK ==
  /\ devices \subseteq Devices
  /\ DOMAIN runs \subseteq RunIds
  /\ runs \in [DOMAIN runs -> Row]
  /\ removing \subseteq Devices
  /\ queue \in Seq(Task)
  /\ worker \in {"down", "booting", "up"}
  /\ beat \in {"none", "fresh", "stale"}
  /\ consumer \in {"idle", "discovering", "scheduling"}
  /\ due \subseteq Devices
  /\ states \in [Devices -> RunIds \cup {NoRun}]
  /\ threads \subseteq Thread
  /\ \A t \in threads : t.verdict = "none" <=> t.phase \in {"transferring", "snapshotting"}
  /\ live \in [Devices -> {"partial", "complete"}]
  /\ newest \in [Devices -> Generation]

(* JobManager.start's guard and _finish's pop (jobs.py:160-193, 260-261)   *)
(* keep at most one backup thread per device, and _states names its run -  *)
(* whatever happens to the rows meanwhile.                                 *)
OneWriter ==
  \A t \in threads :
    /\ states[t.udid] = t.run
    /\ \A u \in threads : u.udid = t.udid => u = t

(* Every directory renamed into a generation (snapshots.py:108) was copied *)
(* from a live backup nobody was rewriting.                                *)
GenerationsWhole == \A d \in Devices : newest[d].whole

(* sweep_orphan_runs and the threads' own results leave no claimed row     *)
(* 'running' without a thread that will end it, once a worker is past its  *)
(* start-up sweep (jobs.py:71-92, __init__.py:110).                        *)
NoStuckRow ==
  worker # "down" =>
    \A r \in DOMAIN runs :
      Running(r) /\ runs[r].claimed => \E t \in threads : t.run = r /\ t.phase # "popping"

AtWork(t) == t.phase # "popping"

(* While a thread works on a device, the device is registered and the run  *)
(* the thread will finish is that device's own running row: what the pages *)
(* and the guards of removal and browsing (app.py:2056-2069, 2769) read.   *)
WriterHasRunningRow ==
  \A t \in threads :
    AtWork(t) =>
      /\ t.udid \in devices
      /\ Running(t.run)
      /\ runs[t.run].udid = t.udid
      /\ runs[t.run].claimed

(* 'succeeded' is recorded only at a moment when the newest generation of  *)
(* the row's own device is the whole one that very run left on disk        *)
(* (jobs.py:318-347).                                                      *)
SucceededHasGeneration ==
  [][\A r \in DOMAIN runs \cap DOMAIN runs' :
       runs[r].status # "succeeded" /\ runs'[r].status = "succeeded"
         => newest[runs[r].udid] = [run |-> r, whole |-> TRUE]]_vars

(* Refinement: the runs table as the ledger the rest of the program reads. *)
Ledger == INSTANCE RunLedger WITH
  ledger <- [r \in DOMAIN runs |-> [udid |-> runs[r].udid, status |-> runs[r].status]]

(* The table, under every interleaving, is an append-and-close ledger.     *)
LedgerSpec == Ledger!Spec

(* No run stays 'running' for ever (jobs.py:74-76, 352).                   *)
RunningEnds == \A r \in RunIds : Running(r) ~> ~Running(r)

(* A device whose backup began can be backed up again (jobs.py:161-162).   *)
DeviceFreed == \A d \in Devices : states[d] # NoRun ~> states[d] = NoRun
=============================================================================
