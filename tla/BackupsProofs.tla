--------------------------- MODULE BackupsProofs ---------------------------
(***************************************************************************)
(* Theorems about Backups, for every set of devices, every bound and every *)
(* set of environment conditions; and about what the backup threads stand  *)
(* on: the schema of the database (Migration) and the engine (Engine).     *)
(***************************************************************************)
EXTENDS Backups, Migration, Engine, TLAPS

-----------------------------------------------------------------------------
(* Type correctness. *)

(* INSERT, the two UPDATEs of the runs table, the sweep and the cascade    *)
(* keep the table a function from ids to rows.                             *)
LEMMA TableOperations ==
  ASSUME TypeOK
  PROVE  /\ \A r \in RunIds, d \in Devices, c \in BOOLEAN :
              /\ DOMAIN Inserted(r, d, c) \subseteq RunIds
              /\ Inserted(r, d, c) \in [DOMAIN Inserted(r, d, c) -> Row]
         /\ \A r \in RunIds : /\ DOMAIN Claimed(r) \subseteq RunIds
                   /\ Claimed(r) \in [DOMAIN Claimed(r) -> Row]
         /\ \A r \in RunIds, v \in Verdicts : /\ DOMAIN Finished(r, v) \subseteq RunIds
                                   /\ Finished(r, v) \in [DOMAIN Finished(r, v) -> Row]
         /\ DOMAIN Swept \subseteq RunIds
         /\ Swept \in [DOMAIN Swept -> Row]
<1>1. \A i \in DOMAIN runs : runs[i] \in Row /\ i \in RunIds
  BY DEF TypeOK
<1>2. \A r \in RunIds, d \in Devices, c \in BOOLEAN :
        /\ DOMAIN Inserted(r, d, c) \subseteq RunIds
        /\ Inserted(r, d, c) \in [DOMAIN Inserted(r, d, c) -> Row]
  BY <1>1 DEF Inserted, Row
<1>3. \A r \in RunIds : /\ DOMAIN Claimed(r) \subseteq RunIds
             /\ Claimed(r) \in [DOMAIN Claimed(r) -> Row]
  BY <1>1 DEF Claimed, Row
<1>4. \A r \in RunIds, v \in Verdicts : /\ DOMAIN Finished(r, v) \subseteq RunIds
                             /\ Finished(r, v) \in [DOMAIN Finished(r, v) -> Row]
  BY <1>1 DEF Finished, Row
<1>5. /\ DOMAIN Swept \subseteq RunIds
      /\ Swept \in [DOMAIN Swept -> Row]
  BY <1>1 DEF Swept, Row, Verdicts
<1> QED BY <1>2, <1>3, <1>4, <1>5

(* Every variable keeps its type: in particular a row only ever holds one  *)
(* of the statuses its CHECK constraint allows (db.py:171).                *)
THEOREM TypeCorrect == Spec => []TypeOK
<1> USE DEF NoRun
<1>1. Init => TypeOK
  BY ConstantsAssumption DEF Init, TypeOK, RunIds, Row, Thread, Generation, Task
<1>2. TypeOK /\ [Next]_vars => TypeOK'
  <2> SUFFICES ASSUME TypeOK, [Next]_vars PROVE TypeOK'
    OBVIOUS
  <2> DEFINE ThreadsTyped ==
               /\ threads \subseteq Thread
               /\ \A t \in threads : t.verdict = "none" <=> t.phase \in {"transferring", "snapshotting"}
  <2> USE DEF TypeOK
  <2>1. ASSUME NEW d \in Devices, AddDevice(d) PROVE TypeOK'
    BY <2>1 DEF AddDevice, workerVars, jobVars, diskVars
  <2>2. ASSUME NEW d \in Devices, BackupNow(d) PROVE TypeOK'
    <3>1. PICK r \in RunIds : runs' = Inserted(r, d, FALSE)
                              /\ (queue' = Append(queue, [udid |-> d, run |-> r]) \/ queue' = queue)
      BY <2>2 DEF BackupNow
    <3>2. DOMAIN runs' \subseteq RunIds /\ runs' \in [DOMAIN runs' -> Row]
      BY <3>1, TableOperations
    <3>3. queue' \in Seq(Task)
      <4>1. [udid |-> d, run |-> r] \in Task
        BY DEF Task
      <4> QED BY <3>1, <4>1
    <3>4. UNCHANGED <<devices, removing, worker, beat, consumer, due, states, threads, live, newest>>
      BY <2>2 DEF BackupNow, workerVars, jobVars, diskVars
    <3> QED BY <3>2, <3>3, <3>4
  <2>3. ASSUME NEW d \in Devices, BackupApi(d) PROVE TypeOK'
    <3>1. queue' \in Seq(Task)
      <4>1. [udid |-> d, run |-> NoRun] \in Task
        BY DEF Task
      <4> QED BY <2>3, <4>1 DEF BackupApi
    <3> QED BY <2>3, <3>1 DEF BackupApi, workerVars, jobVars, diskVars
  <2>4. ASSUME NEW d \in Devices, Forgotten(d), removing' \subseteq Devices PROVE TypeOK'
    BY <2>4 DEF Forgotten, workerVars, jobVars, diskVars
  <2>5. ASSUME NEW d \in Devices, RemoveCheck(d) PROVE TypeOK'
    BY <2>5 DEF RemoveCheck, workerVars, jobVars, diskVars
  <2>6. CASE Web
    BY <2>1, <2>2, <2>3, <2>4, <2>5, <2>6 DEF Web, Remove, RemoveCommit
  <2>7. CASE Lifecycle
    BY <2>7, TableOperations
       DEF Lifecycle, Boot, StartHeartbeat, Crash, BeatGoesStale, Heartbeat, workerVars, jobVars, diskVars
  <2>8. ASSUME NEW d \in Devices, NEW r \in RunIds \cup {NoRun}, StartReturns(d, r) \/ StartRaises(d, r)
        PROVE  /\ DOMAIN runs' \subseteq RunIds
               /\ runs' \in [DOMAIN runs' -> Row]
               /\ states' \in [Devices -> RunIds \cup {NoRun}]
               /\ ThreadsTyped'
    <3>1. ASSUME NEW new \in RunIds, Spawn(d, new)
          PROVE states' \in [Devices -> RunIds \cup {NoRun}] /\ ThreadsTyped'
      <4> DEFINE t == [udid |-> d, run |-> new, phase |-> "transferring",
                       verdict |-> "none", handled |-> FALSE]
      <4>1. t \in Thread /\ t.verdict = "none" /\ t.phase = "transferring"
        BY DEF Thread
      <4>2. threads' = threads \cup {t} /\ states' = [states EXCEPT ![d] = new]
        BY <3>1 DEF Spawn, Spawned
      <4> HIDE DEF t
      <4> QED BY <4>1, <4>2
    <3>2. CASE StartClaim(d, r)
      BY <3>1, <3>2, TableOperations DEF StartClaim
    <3>3. CASE StartInsert(d, r)
      BY <3>1, <3>3, TableOperations DEF StartInsert
    <3>4. CASE UNCHANGED <<runs, states, threads>>
      BY <3>4
    <3> QED BY <2>8, <3>2, <3>3, <3>4 DEF StartReturns, StartAlreadyRunning, StartRefused, StartRaises,
               jobVars
  <2>9. CASE Dequeue
    <3>1. Head(queue) \in Task /\ Tail(queue) \in Seq(Task)
      BY <2>9 DEF Dequeue
    <3>2. Head(queue).udid \in Devices /\ Head(queue).run \in RunIds \cup {NoRun}
      BY <3>1 DEF Task
    <3> QED BY <2>8, <2>9, <3>1, <3>2 DEF Dequeue, workerVars, diskVars
  <2>10. CASE Tick
    <3>1. CASE TickBegin
      BY <3>1 DEF TickBegin, workerVars, jobVars, diskVars
    <3>2. CASE TickSweep
      BY <3>2, TableOperations DEF TickSweep, workerVars, jobVars, diskVars
    <3>3. ASSUME NEW d \in due, TickStart(d) \/ TickAborts(d) PROVE TypeOK'
      BY <2>8, <3>3 DEF TickStart, TickAborts, workerVars, diskVars
    <3>4. CASE TickEnd
      BY <3>4 DEF TickEnd, workerVars, jobVars, diskVars
    <3> QED BY <2>10, <3>1, <3>2, <3>3, <3>4 DEF Tick
  <2>11. ASSUME NEW t \in threads, ThreadStep(t) PROVE TypeOK'
    <3>1. t \in Thread
      OBVIOUS
    <3>2. ASSUME NEW v \in Verdicts, NEW h \in BOOLEAN, Ends(t, v, h) PROVE ThreadsTyped'
      <4> DEFINE u == [t EXCEPT !.phase = "finishing", !.verdict = v, !.handled = h]
      <4>1. u \in Thread /\ u.verdict # "none" /\ u.phase = "finishing"
        BY <3>1, <3>2 DEF Thread, Verdicts
      <4>2. threads' = (threads \ {t}) \cup {u}
        BY <3>2 DEF Ends, Becomes
      <4> HIDE DEF u
      <4> QED BY <4>1, <4>2
    <3>3. \A v \in Verdicts : /\ DOMAIN Finished(t.run, v) \subseteq RunIds
                              /\ Finished(t.run, v) \in [DOMAIN Finished(t.run, v) -> Row]
      BY <3>1, TableOperations DEF Thread
    <3>4. UNCHANGED <<devices, removing, queue, worker, beat, consumer, due>>
      BY <2>11 DEF ThreadStep, workerVars
    <3>5. threads \ {t} \subseteq Thread
      OBVIOUS
    <3>6. CASE StorageCheckFails(t)
      BY <3>2, <3>4, <3>6 DEF StorageCheckFails, Verdicts, diskVars
    <3>7. CASE EngineWrites(t)
      BY <3>1, <3>4, <3>7 DEF EngineWrites, Thread, jobVars
    <3>8. CASE EngineReturns(t)
      <4>1. CASE Becomes(t, [t EXCEPT !.phase = "snapshotting"])
        <5>1. /\ [t EXCEPT !.phase = "snapshotting"] \in Thread
              /\ [t EXCEPT !.phase = "snapshotting"].verdict = "none"
              /\ [t EXCEPT !.phase = "snapshotting"].phase = "snapshotting"
          BY <3>1, <3>8 DEF Thread, EngineReturns
        <5> QED BY <3>4, <3>8, <4>1, <5>1 DEF EngineReturns, Becomes
      <4>2. CASE \E raised \in BOOLEAN : Ends(t, "failed", raised)
        BY <3>2, <3>4, <3>8, <4>2 DEF EngineReturns, Verdicts
      <4> QED BY <3>8, <4>1, <4>2 DEF EngineReturns
    <3>9. CASE EngineRaises(t)
      BY <3>2, <3>4, <3>9 DEF EngineRaises, Verdicts, diskVars
    <3>10. CASE SnapshotTaken(t)
      <4>1. newest' \in [Devices -> Generation]
        BY <3>1, <3>10 DEF SnapshotTaken, Generation, Thread
      <4> QED BY <3>2, <3>4, <3>10, <4>1 DEF SnapshotTaken, Verdicts
    <3>11. CASE SnapshotFails(t)
      BY <3>2, <3>4, <3>11 DEF SnapshotFails, Verdicts, diskVars
    <3>12. CASE WriteResult(t)
      <4>1. /\ [t EXCEPT !.phase = "popping"] \in Thread
            /\ [t EXCEPT !.phase = "popping"].verdict # "none"
            /\ [t EXCEPT !.phase = "popping"].phase = "popping"
            /\ t.verdict \in Verdicts
        BY <3>1, <3>12 DEF Thread, WriteResult
      <4>2. ThreadsTyped'
        BY <3>12, <4>1 DEF WriteResult, Becomes
      <4> QED BY <3>3, <3>4, <3>12, <4>1, <4>2 DEF WriteResult, diskVars
    <3>13. CASE WriteRaises(t)
      BY <3>2, <3>4, <3>5, <3>13 DEF WriteRaises, Verdicts, diskVars
    <3>14. CASE PopState(t)
      BY <3>1, <3>4, <3>5, <3>14 DEF PopState, Thread, diskVars
    <3> QED
      BY <2>11, <3>6, <3>7, <3>8, <3>9, <3>10, <3>11, <3>12, <3>13, <3>14 DEF ThreadStep
  <2> QED BY <2>6, <2>7, <2>9, <2>10, <2>11 DEF Next, vars, workerVars, jobVars, diskVars
<1> QED BY <1>1, <1>2, PTL DEF Spec

-----------------------------------------------------------------------------
(* Who writes the live backup. *)

(* As far as threads and disk are concerned every step is one of these:    *)
(* nothing, a crash, a start for a device not in _states, a thread's step. *)
LEMMA StepKinds ==
  ASSUME TypeOK, [Next]_vars
  PROVE  \/ UNCHANGED <<states, threads, live, newest>>
         \/ Crash
         \/ \E d \in Devices, r \in RunIds :
              states[d] = NoRun /\ Spawn(d, r) /\ UNCHANGED <<live, newest>>
         \/ \E t \in threads : ThreadStep(t)
<1>1. CASE UNCHANGED vars
  BY <1>1 DEF vars
<1>2. CASE Web
  BY <1>2 DEF Web, AddDevice, BackupNow, BackupApi, Remove, RemoveCheck, RemoveCommit, Forgotten,
     jobVars, diskVars
<1>3. CASE Lifecycle
  BY <1>3 DEF Lifecycle, Boot, StartHeartbeat, BeatGoesStale, Heartbeat, jobVars, diskVars
<1>4. ASSUME NEW d \in Devices, NEW r \in RunIds \cup {NoRun}, StartReturns(d, r) \/ StartRaises(d, r)
      PROVE  \/ UNCHANGED <<states, threads>>
             \/ \E i \in RunIds : states[d] = NoRun /\ Spawn(d, i)
  <2>1. CASE StartClaim(d, r)
    BY <2>1 DEF StartClaim
  <2>2. CASE StartInsert(d, r)
    BY <2>2 DEF StartInsert
  <2>3. CASE UNCHANGED <<states, threads>>
    BY <2>3
  <2> QED
    BY <1>4, <2>1, <2>2, <2>3 DEF StartReturns, StartAlreadyRunning, StartRefused, StartRaises, jobVars
<1>5. CASE Dequeue
  <2>1. Head(queue) \in Task
    BY <1>5 DEF Dequeue, TypeOK
  <2>2. Head(queue).udid \in Devices /\ Head(queue).run \in RunIds \cup {NoRun}
    BY <2>1 DEF Task
  <2>3. \/ UNCHANGED <<states, threads>>
        \/ \E i \in RunIds : states[Head(queue).udid] = NoRun /\ Spawn(Head(queue).udid, i)
    BY <1>4, <1>5, <2>2 DEF Dequeue
  <2>4. UNCHANGED <<live, newest>>
    BY <1>5 DEF Dequeue, diskVars
  <2> QED BY <2>2, <2>3, <2>4
<1>6. CASE Tick
  <2>1. CASE TickBegin \/ TickSweep \/ TickEnd
    BY <2>1 DEF TickBegin, TickSweep, TickEnd, jobVars, diskVars
  <2>2. ASSUME NEW d \in due, TickStart(d) \/ TickAborts(d)
        PROVE  \/ UNCHANGED <<states, threads, live, newest>>
               \/ \E e \in Devices, i \in RunIds :
                    states[e] = NoRun /\ Spawn(e, i) /\ UNCHANGED <<live, newest>>
    <3>1. d \in Devices
      BY DEF TypeOK
    <3>2. UNCHANGED <<live, newest>>
      BY <2>2 DEF TickStart, TickAborts, diskVars
    <3>3. \/ UNCHANGED <<states, threads>>
          \/ \E i \in RunIds : states[d] = NoRun /\ Spawn(d, i)
      BY <1>4, <2>2, <3>1 DEF TickStart, TickAborts
    <3> QED BY <3>1, <3>2, <3>3
  <2> QED BY <1>6, <2>1, <2>2 DEF Tick
<1> QED BY <1>1, <1>2, <1>3, <1>5, <1>6 DEF Next

(* A thread's step keeps, replaces or ends that thread; it changes _states *)
(* only by leaving it.                                                     *)
LEMMA ThreadStepShape ==
  ASSUME TypeOK, NEW t \in threads, ThreadStep(t)
  PROVE  \/ /\ states' = states
            /\ \/ threads' = threads
               \/ \E u : u.udid = t.udid /\ u.run = t.run /\ threads' = (threads \ {t}) \cup {u}
               \/ threads' = threads \ {t}
         \/ /\ states' = [states EXCEPT ![t.udid] = NoRun]
            /\ threads' = threads \ {t}
<1>1. t \in Thread
  BY DEF TypeOK
<1>2. \A v, h : Ends(t, v, h) =>
        \E u : u.udid = t.udid /\ u.run = t.run /\ threads' = (threads \ {t}) \cup {u}
  BY <1>1 DEF Ends, Becomes, Thread
<1>3. \A p : Becomes(t, [t EXCEPT !.phase = p]) =>
        \E u : u.udid = t.udid /\ u.run = t.run /\ threads' = (threads \ {t}) \cup {u}
  BY <1>1 DEF Becomes, Thread
<1>4. CASE PopState(t)
  BY <1>4 DEF PopState
<1>5. CASE EngineWrites(t)
  BY <1>5 DEF EngineWrites, jobVars
<1>6. CASE WriteRaises(t)
  BY <1>2, <1>6 DEF WriteRaises
<1>7. CASE StorageCheckFails(t) \/ EngineReturns(t) \/ EngineRaises(t) \/ SnapshotTaken(t)
           \/ SnapshotFails(t) \/ WriteResult(t)
  BY <1>2, <1>3, <1>7
     DEF StorageCheckFails, EngineReturns, EngineRaises, SnapshotTaken, SnapshotFails, WriteResult
<1> QED BY <1>4, <1>5, <1>6, <1>7 DEF ThreadStep

(* jobs.py:160-193: one backup thread per device, under every condition.   *)
THEOREM OneWriterAlways == Spec => []OneWriter
<1>1. Init => OneWriter
  BY DEF Init, OneWriter
<1>2. TypeOK /\ OneWriter /\ [Next]_vars => OneWriter'
  <2> SUFFICES ASSUME TypeOK, OneWriter, [Next]_vars PROVE OneWriter'
    OBVIOUS
  <2>1. \A t \in threads : t.udid \in Devices /\ t.run \in RunIds
    BY DEF TypeOK, Thread
  <2>2. CASE UNCHANGED <<states, threads, live, newest>>
    BY <2>2 DEF OneWriter
  <2>3. CASE Crash
    BY <2>3 DEF Crash, OneWriter
  <2>4. ASSUME NEW d \in Devices, NEW r \in RunIds, states[d] = NoRun, Spawn(d, r) PROVE OneWriter'
    <3> DEFINE new == [udid |-> d, run |-> r, phase |-> "transferring",
                       verdict |-> "none", handled |-> FALSE]
    <3>1. new.udid = d /\ new.run = r /\ threads' = threads \cup {new} /\ states' = [states EXCEPT ![d] = r]
      BY <2>4 DEF Spawn, Spawned
    <3> HIDE DEF new
    <3>2. \A t \in threads : t.udid # d
      BY <2>1, <2>4 DEF OneWriter, RunIds, NoRun
    <3> QED BY <2>1, <3>1, <3>2 DEF OneWriter, TypeOK
  <2>5. ASSUME NEW t \in threads, ThreadStep(t) PROVE OneWriter'
    <3>1. \A u \in threads \ {t} : u.udid # t.udid
      BY DEF OneWriter
    <3>2. CASE threads' = threads /\ states' = states
      BY <3>2 DEF OneWriter
    <3>3. ASSUME NEW u, u.udid = t.udid, u.run = t.run,
                 threads' = (threads \ {t}) \cup {u}, states' = states
          PROVE OneWriter'
      BY <3>1, <3>3 DEF OneWriter
    <3>4. CASE threads' = threads \ {t} /\ states' = states
      BY <3>4 DEF OneWriter
    <3>5. CASE threads' = threads \ {t} /\ states' = [states EXCEPT ![t.udid] = NoRun]
      BY <2>1, <3>1, <3>5 DEF OneWriter, TypeOK
    <3> QED BY <2>5, <3>2, <3>3, <3>4, <3>5, ThreadStepShape
  <2> QED BY <2>2, <2>3, <2>4, <2>5, StepKinds
<1> QED BY <1>1, <1>2, TypeCorrect, PTL DEF Spec

(* Only what was complete on disk is being copied: nobody else can have    *)
(* begun to rewrite it.                                                    *)
SnapshotOfComplete == \A t \in threads : t.phase = "snapshotting" => live[t.udid] = "complete"

(* A thread that holds the result 'succeeded' left the newest generation.  *)
ResultOnDisk ==
  \A t \in threads :
    t.phase = "finishing" /\ t.verdict = "succeeded" => newest[t.udid] = [run |-> t.run, whole |-> TRUE]

LEMMA SnapshotsAlways == Spec => [](SnapshotOfComplete /\ GenerationsWhole)
<1> DEFINE Inv == SnapshotOfComplete /\ GenerationsWhole
<1>1. Init => Inv
  BY DEF Init, SnapshotOfComplete, GenerationsWhole
<1>2. TypeOK /\ OneWriter /\ Inv /\ [Next]_vars => Inv'
  <2> SUFFICES ASSUME TypeOK, OneWriter, Inv, [Next]_vars PROVE Inv'
    OBVIOUS
  <2> USE DEF SnapshotOfComplete, GenerationsWhole
  <2>1. CASE UNCHANGED <<states, threads, live, newest>>
    BY <2>1
  <2>2. CASE Crash
    BY <2>2 DEF Crash, diskVars
  <2>3. ASSUME NEW d \in Devices, NEW r \in RunIds, Spawn(d, r), UNCHANGED <<live, newest>> PROVE Inv'
    BY <2>3 DEF Spawn, Spawned
  <2>4. ASSUME NEW t \in threads, ThreadStep(t) PROVE Inv'
    <3>1. t \in Thread /\ t.udid \in Devices
      BY DEF TypeOK, Thread
    <3>2. \A u \in threads \ {t} : u.udid # t.udid
      BY DEF OneWriter
    <3>3. \A u \in threads : u.udid \in Devices
      BY DEF TypeOK, Thread
    <3>4. \A v, h : Ends(t, v, h) =>
            \E u : u.phase = "finishing" /\ threads' = (threads \ {t}) \cup {u}
      BY <3>1 DEF Ends, Becomes, Thread
    <3>5. CASE EngineWrites(t)
      <4>1. live' = [live EXCEPT ![t.udid] = "partial"] /\ UNCHANGED <<threads, newest>>
        BY <3>5 DEF EngineWrites, jobVars
      <4>2. t.phase # "snapshotting"
        BY <3>5 DEF EngineWrites
      <4> QED BY <3>2, <3>3, <4>1, <4>2 DEF TypeOK
    <3>6. CASE EngineReturns(t)
      <4>1. ASSUME live' = [live EXCEPT ![t.udid] = "complete"],
                   Becomes(t, [t EXCEPT !.phase = "snapshotting"])
            PROVE Inv'
        <5> DEFINE u == [t EXCEPT !.phase = "snapshotting"]
        <5>1. u.udid = t.udid
          BY <3>1 DEF Thread
        <5>2. threads' = (threads \ {t}) \cup {u} /\ newest' = newest
          BY <3>6, <4>1 DEF EngineReturns, Becomes
        <5>3. \A d \in Devices : live'[d] = IF d = t.udid THEN "complete" ELSE live[d]
          BY <4>1 DEF TypeOK
        <5> HIDE DEF u
        <5> QED BY <3>1, <3>3, <5>1, <5>2, <5>3
      <4>2. ASSUME live' = [live EXCEPT ![t.udid] = "partial"],
                   NEW raised \in BOOLEAN, Ends(t, "failed", raised)
            PROVE Inv'
        BY <3>1, <3>2, <3>3, <3>4, <3>6, <4>2 DEF EngineReturns, TypeOK
      <4> QED BY <3>6, <4>1, <4>2 DEF EngineReturns
    <3>7. CASE SnapshotTaken(t)
      <4>1. live[t.udid] = "complete"
        BY <3>7 DEF SnapshotTaken
      <4>2. /\ newest' = [newest EXCEPT ![t.udid] = [run |-> t.run, whole |-> TRUE]]
            /\ live' = live
        BY <3>7, <4>1 DEF SnapshotTaken
      <4>3. GenerationsWhole'
        BY <4>2 DEF TypeOK
      <4> QED BY <3>4, <3>7, <4>2, <4>3 DEF SnapshotTaken
    <3>8. CASE StorageCheckFails(t) \/ EngineRaises(t) \/ SnapshotFails(t)
      BY <3>4, <3>8 DEF StorageCheckFails, EngineRaises, SnapshotFails, diskVars
    <3>9. CASE WriteResult(t)
      <4>1. [t EXCEPT !.phase = "popping"].phase = "popping"
        BY <3>1 DEF Thread
      <4> QED BY <3>9, <4>1 DEF WriteResult, Becomes, diskVars
    <3>10. CASE WriteRaises(t)
      BY <3>4, <3>10 DEF WriteRaises, diskVars
    <3>11. CASE PopState(t)
      BY <3>11 DEF PopState, diskVars
    <3> QED BY <2>4, <3>5, <3>6, <3>7, <3>8, <3>9, <3>10, <3>11 DEF ThreadStep
  <2> QED BY <2>1, <2>2, <2>3, <2>4, StepKinds
<1> QED BY <1>1, <1>2, TypeCorrect, OneWriterAlways, PTL DEF Spec

(* snapshots.py:73-109 with jobs.py:160-193: every generation was copied   *)
(* from a complete live backup, under every condition.                     *)
THEOREM GenerationsWholeAlways == Spec => []GenerationsWhole
BY SnapshotsAlways, PTL

-----------------------------------------------------------------------------
(* No stuck run. *)

(* jobs.py:71-92, 250-259 and __init__.py:110: under every condition but   *)
(* a restart within ORPHAN_THRESHOLD and a result that cannot be written,  *)
(* a claimed row is 'running' only as long as a thread is at work on it.   *)
THEOREM NoStuckRowAlways ==
  ASSUME "quick_restart" \notin Env, "db_fault" \notin Env
  PROVE  Spec => []NoStuckRow
<1>1. Init => NoStuckRow
  BY DEF Init, NoStuckRow
<1>2. TypeOK /\ NoStuckRow /\ [Next]_vars => NoStuckRow'
  <2> SUFFICES ASSUME TypeOK, NoStuckRow, [Next]_vars PROVE NoStuckRow'
    OBVIOUS
  <2> DEFINE Live(r) == Running(r) /\ runs[r].claimed
             Kept == \A r \in DOMAIN runs' : Live(r)' => r \in DOMAIN runs /\ Live(r)
  <2>1. ASSUME Kept, threads' = threads, worker' # "down" => worker # "down" PROVE NoStuckRow'
    BY <2>1 DEF NoStuckRow
  <2>2. ASSUME runs' = Swept PROVE Kept
    BY <2>2 DEF Swept, Running, TypeOK, Row
  <2>3. CASE UNCHANGED vars
    BY <2>1, <2>3 DEF vars, Running
  <2>4. CASE Web
    <3>1. threads' = threads /\ worker' = worker
      BY <2>4 DEF Web, AddDevice, BackupNow, BackupApi, Remove, RemoveCheck, RemoveCommit, Forgotten,
                  workerVars, jobVars
    <3>2. ASSUME NEW d \in Devices, BackupNow(d) PROVE Kept
      BY <3>2 DEF BackupNow, Inserted, Running
    <3>3. ASSUME NEW d, Forgotten(d) PROVE Kept
      BY <3>3 DEF Forgotten, Running
    <3>4. ASSUME runs' = runs PROVE Kept
      BY <3>4 DEF Running
    <3>5. Kept
      BY <2>4, <3>2, <3>3, <3>4 DEF Web, AddDevice, BackupApi, Remove, RemoveCheck, RemoveCommit
    <3> QED BY <2>1, <3>1, <3>5
  <2>5. CASE Lifecycle
    <3>1. CASE Boot
      <4>1. beat # "fresh"
        BY <3>1 DEF Boot, CalmOr
      <4>2. \A r \in DOMAIN runs' : runs'[r].status # "running"
        BY <3>1, <4>1 DEF Boot, Swept, Orphan, TypeOK, Row
      <4> QED BY <4>2 DEF NoStuckRow, Running
    <3>2. CASE Crash
      BY <3>2 DEF Crash, NoStuckRow
    <3>3. CASE StartHeartbeat \/ BeatGoesStale \/ Heartbeat
      BY <2>1, <3>3 DEF StartHeartbeat, BeatGoesStale, Heartbeat, jobVars, Running
    <3> QED BY <2>5, <3>1, <3>2, <3>3 DEF Lifecycle
  <2>6. ASSUME NEW d, NEW r, StartReturns(d, r) \/ StartRaises(d, r), worker' = worker PROVE NoStuckRow'
    <3>1. ASSUME NEW new, Spawn(d, new),
                 \A i \in DOMAIN runs' : Live(i)' => i = new \/ (i \in DOMAIN runs /\ Live(i))
          PROVE NoStuckRow'
      <4> DEFINE t == [udid |-> d, run |-> new, phase |-> "transferring",
                       verdict |-> "none", handled |-> FALSE]
      <4>1. threads' = threads \cup {t} /\ t.run = new /\ t.phase # "popping"
        BY <3>1 DEF Spawn, Spawned
      <4> HIDE DEF t
      <4> QED BY <2>6, <3>1, <4>1 DEF NoStuckRow
    <3>2. CASE StartClaim(d, r)
      <4>1. \A i \in DOMAIN runs' : Live(i)' => i = r \/ (i \in DOMAIN runs /\ Live(i))
        BY <3>2 DEF StartClaim, Claimed, Running
      <4> QED BY <3>1, <3>2, <4>1 DEF StartClaim
    <3>3. CASE StartInsert(d, r)
      <4>1. PICK new \in RunIds : runs' = Inserted(new, d, TRUE) /\ Spawn(d, new)
        BY <3>3 DEF StartInsert
      <4>2. \A i \in DOMAIN runs' : Live(i)' => i = new \/ (i \in DOMAIN runs /\ Live(i))
        BY <4>1 DEF Inserted, Running
      <4> QED BY <3>1, <4>1, <4>2
    <3>4. CASE UNCHANGED <<runs, threads>>
      BY <2>1, <2>6, <3>4 DEF Running
    <3> QED BY <2>6, <3>2, <3>3, <3>4 DEF StartReturns, StartAlreadyRunning, StartRefused, StartRaises,
               jobVars
  <2>7. CASE Dequeue
    BY <2>6, <2>7 DEF Dequeue, workerVars
  <2>8. CASE Tick
    <3>1. CASE TickBegin \/ TickEnd
      BY <2>1, <3>1 DEF TickBegin, TickEnd, workerVars, jobVars, Running
    <3>2. CASE TickSweep
      BY <2>1, <2>2, <3>2 DEF TickSweep, workerVars, jobVars
    <3>3. ASSUME NEW d \in due, TickStart(d) \/ TickAborts(d) PROVE NoStuckRow'
      BY <2>6, <3>3 DEF TickStart, TickAborts, workerVars
    <3> QED BY <2>8, <3>1, <3>2, <3>3 DEF Tick
  <2>9. ASSUME NEW t \in threads, ThreadStep(t) PROVE NoStuckRow'
    <3>1. t \in Thread
      BY DEF TypeOK
    <3>2. worker' = worker
      BY <2>9 DEF ThreadStep, workerVars
    <3>3. ASSUME NEW u, u.run = t.run, u.phase # "popping", threads' = (threads \ {t}) \cup {u}, runs' = runs
          PROVE NoStuckRow'
      BY <3>2, <3>3 DEF NoStuckRow, Running
    <3>4. \A v, h : Ends(t, v, h) =>
            \E u : u.run = t.run /\ u.phase # "popping" /\ threads' = (threads \ {t}) \cup {u}
      BY <3>1 DEF Ends, Becomes, Thread
    <3>5. CASE EngineWrites(t)
      BY <2>1, <3>2, <3>5 DEF EngineWrites, jobVars, Running
    <3>6. CASE EngineReturns(t)
      <4>1. Becomes(t, [t EXCEPT !.phase = "snapshotting"]) =>
              \E u : u.run = t.run /\ u.phase # "popping" /\ threads' = (threads \ {t}) \cup {u}
        BY <3>1 DEF Becomes, Thread
      <4> QED BY <3>3, <3>4, <3>6, <4>1 DEF EngineReturns
    <3>7. CASE StorageCheckFails(t) \/ EngineRaises(t) \/ SnapshotTaken(t) \/ SnapshotFails(t)
      BY <3>3, <3>4, <3>7 DEF StorageCheckFails, EngineRaises, SnapshotTaken, SnapshotFails
    <3>8. CASE WriteResult(t)
      <4>1. t.verdict # "running"
        BY <3>1, <3>8 DEF WriteResult, Thread, Verdicts
      <4>2. \A i \in DOMAIN runs' : Live(i)' => i # t.run /\ i \in DOMAIN runs /\ Live(i)
        BY <3>8, <4>1 DEF WriteResult, Finished, Running, TypeOK, Row
      <4>3. threads \ {t} \subseteq threads'
        BY <3>8 DEF WriteResult, Becomes
      <4> QED BY <3>2, <4>2, <4>3 DEF NoStuckRow
    <3>9. CASE PopState(t)
      <4>1. threads' = threads \ {t} /\ t.phase = "popping" /\ runs' = runs
        BY <3>9 DEF PopState
      <4> QED BY <3>2, <4>1 DEF NoStuckRow, Running
    <3>10. ~WriteRaises(t)
      BY DEF WriteRaises
    <3> QED BY <2>9, <3>5, <3>6, <3>7, <3>8, <3>9, <3>10 DEF ThreadStep
  <2> QED BY <2>3, <2>4, <2>5, <2>7, <2>8, <2>9 DEF Next
<1> QED BY <1>1, <1>2, TypeCorrect, PTL DEF Spec

-----------------------------------------------------------------------------
(* The rows of the table and the threads that will finish them. Without a  *)
(* click that waits across a sweep, a heartbeat that stalls and a removal  *)
(* that races, a sweep meets no claimed row of a live thread, a click      *)
(* waits for a running row nobody claimed, and no device has two.          *)

CalmWorker ==
  /\ worker # "up" => threads = {} /\ consumer = "idle" /\ due = {}
  /\ worker = "up" => beat = "fresh"
  /\ removing = {}
  /\ ClickWaiting => worker = "up" /\ consumer # "discovering"

OneRunningRow ==
  /\ \A r \in DOMAIN runs : runs[r].udid \in devices
  /\ \A r, s \in DOMAIN runs : Running(r) /\ Running(s) /\ runs[r].udid = runs[s].udid => r = s

Unclaimed(task) == Running(task.run) /\ runs[task.run].udid = task.udid /\ ~runs[task.run].claimed

ClicksWait ==
  /\ \A i \in DOMAIN queue : queue[i].run # NoRun => Unclaimed(queue[i])
  /\ \A i, j \in DOMAIN queue : queue[i].run = queue[j].run /\ queue[i].run # NoRun => i = j

RowsInv == CalmWorker /\ OneRunningRow /\ ClicksWait /\ WriterHasRunningRow

LEMMA NextIdIsNew ==
  ASSUME NEW r \in RunIds, IsNextId(r)
  PROVE  r \notin DOMAIN runs
BY DEF IsNextId, RunIds

(* A row that goes in runs, is its device's only one, and takes nothing    *)
(* from the others.                                                        *)
LEMMA RowGoesIn ==
  ASSUME TypeOK, NEW r \in RunIds, IsNextId(r), NEW d \in devices, NEW claimed \in BOOLEAN,
         runs' = Inserted(r, d, claimed)
  PROVE  /\ DOMAIN runs' = DOMAIN runs \cup {r} /\ r \notin DOMAIN runs
         /\ runs'[r] = [udid |-> d, status |-> "running", claimed |-> claimed]
         /\ \A s \in DOMAIN runs : runs'[s] = runs[s]
BY NextIdIsNew DEF Inserted

(* JobManager.start, for a click's row or for none.                        *)
LEMMA StartKeepsRows ==
  ASSUME TypeOK, RowsInv, NEW d \in Devices, NEW r \in RunIds \cup {NoRun},
         StartReturns(d, r) \/ StartRaises(d, r), devices' = devices,
         r # NoRun => Running(r) /\ runs[r].udid = d /\ ~runs[r].claimed
  PROVE  /\ OneRunningRow' /\ WriterHasRunningRow'
         /\ \A task \in Task : Unclaimed(task) /\ task.run # r => Unclaimed(task)'
<1> USE DEF RowsInv
<1>1. ASSUME NEW new \in RunIds, Spawn(d, new), d \in devices, Running(new)', runs'[new].udid = d, runs'[new].claimed,
             \A t \in threads : AtWork(t) =>
               Running(t.run)' /\ runs'[t.run].udid = t.udid /\ runs'[t.run].claimed
      PROVE  WriterHasRunningRow'
  <2> DEFINE t == [udid |-> d, run |-> new, phase |-> "transferring", verdict |-> "none", handled |-> FALSE]
  <2>1. threads' = threads \cup {t} /\ t.run = new /\ t.udid = d
    BY <1>1 DEF Spawn, Spawned
  <2> HIDE DEF t
  <2> QED BY <1>1, <2>1 DEF WriterHasRunningRow, AtWork
<1>2. CASE StartClaim(d, r)
  <2>1. /\ runs' = Claimed(r) /\ Spawn(d, r) /\ r \in RunIds
        /\ Running(r) /\ runs[r].udid = d
    BY <1>2 DEF StartClaim
  <2>2. /\ DOMAIN runs' = DOMAIN runs /\ r \in DOMAIN runs
        /\ \A s \in DOMAIN runs : /\ runs'[s].udid = runs[s].udid /\ runs'[s].status = runs[s].status
                                  /\ s # r => runs'[s] = runs[s]
                                  /\ runs[s].claimed => runs'[s].claimed
        /\ runs'[r].claimed
    BY <2>1 DEF Claimed, Running, TypeOK, Row
  <2>3. OneRunningRow'
    BY <2>2 DEF OneRunningRow, Running
  <2>4. \A task \in Task : Unclaimed(task) /\ task.run # r => Unclaimed(task)'
    BY <2>2 DEF Unclaimed, Running
  <2>5. WriterHasRunningRow'
    <3>1. d \in devices
      BY <2>1 DEF OneRunningRow, Running
    <3> QED BY <1>1, <2>1, <2>2, <3>1 DEF WriterHasRunningRow, Running
  <2> QED BY <2>3, <2>4, <2>5
<1>3. CASE StartInsert(d, r)
  <2>1. PICK new \in RunIds : IsNextId(new) /\ runs' = Inserted(new, d, TRUE) /\ Spawn(d, new)
    BY <1>3 DEF StartInsert
  <2>2. d \in devices /\ ~HasRunning(d)
    BY <1>3 DEF StartInsert
  <2>3. /\ DOMAIN runs' = DOMAIN runs \cup {new} /\ new \notin DOMAIN runs
        /\ runs'[new] = [udid |-> d, status |-> "running", claimed |-> TRUE]
        /\ \A s \in DOMAIN runs : runs'[s] = runs[s]
    BY <2>1, <2>2, RowGoesIn
  <2>4. OneRunningRow'
    BY <2>2, <2>3 DEF OneRunningRow, Running, HasRunning
  <2>5. \A task \in Task : Unclaimed(task) /\ task.run # r => Unclaimed(task)'
    BY <2>3 DEF Unclaimed, Running
  <2>6. WriterHasRunningRow'
    <3>1. \A t \in threads : AtWork(t) => Running(t.run)' /\ runs'[t.run].udid = t.udid /\ runs'[t.run].claimed
      BY <2>3 DEF WriterHasRunningRow, Running
    <3>2. Running(new)' /\ runs'[new].udid = d /\ runs'[new].claimed
      BY <2>3 DEF Running
    <3> QED BY <1>1, <2>1, <2>2, <3>1, <3>2
  <2> QED BY <2>4, <2>5, <2>6
<1>4. CASE UNCHANGED <<runs, threads>>
  BY <1>4 DEF OneRunningRow, WriterHasRunningRow, Unclaimed, Running
<1> QED BY <1>2, <1>3, <1>4 DEF StartReturns, StartAlreadyRunning, StartRefused, StartRaises, jobVars

(* A sweep closes unclaimed rows only, while the heartbeat is fresh or     *)
(* nobody writes.                                                          *)
LEMMA SweepKeepsRows ==
  ASSUME TypeOK, RowsInv, runs' = Swept, UNCHANGED <<devices, threads>>, beat = "fresh" \/ threads = {}
  PROVE  OneRunningRow' /\ WriterHasRunningRow'
<1>1. DOMAIN runs' = DOMAIN runs /\ \A s \in DOMAIN runs : runs'[s].udid = runs[s].udid
  BY DEF Swept, TypeOK, Row
<1>2. \A s \in DOMAIN runs : Running(s)' => Running(s)
  BY DEF Swept, Running, TypeOK, Row
<1>3. ASSUME beat = "fresh" PROVE \A s \in DOMAIN runs : runs[s].claimed => runs'[s] = runs[s]
  BY <1>3 DEF Swept, Orphan
<1> QED BY <1>1, <1>2, <1>3 DEF RowsInv, OneRunningRow, WriterHasRunningRow, Running

LEMMA WebKeepsRows ==
  ASSUME TypeOK, RowsInv, Web, {"busy_queue", "racing_remove"} \cap Env = {}
  PROVE  RowsInv'
<1> USE DEF RowsInv
<1>1. UNCHANGED <<worker, beat, consumer, due, threads>>
  BY DEF Web, AddDevice, BackupNow, BackupApi, Remove, RemoveCheck, RemoveCommit, Forgotten, workerVars,
     jobVars
<1>2. removing' = {}
  BY DEF Web, AddDevice, BackupNow, BackupApi, Remove, RemoveCheck, RemoveCommit, CalmWorker
<1>3. queue \in Seq(Task)
  BY DEF TypeOK
<1>4. ASSUME NEW d \in Devices, AddDevice(d) PROVE RowsInv'
  <2>1. devices \subseteq devices' /\ UNCHANGED <<runs, queue>>
    BY <1>4 DEF AddDevice
  <2> QED BY <1>1, <1>2, <2>1
          DEF CalmWorker, OneRunningRow, ClicksWait, WriterHasRunningRow, ClickWaiting, Unclaimed, Running
<1>5. ASSUME NEW d \in Devices, BackupNow(d) PROVE RowsInv'
  <2>1. PICK r \in RunIds : /\ IsNextId(r) /\ runs' = Inserted(r, d, FALSE)
                            /\ queue' = Append(queue, [udid |-> d, run |-> r]) \/ queue' = queue
    BY <1>5 DEF BackupNow
  <2>2. /\ d \in devices /\ ~HasRunning(d) /\ devices' = devices
        /\ worker = "up" /\ consumer # "discovering"
    BY <1>5 DEF BackupNow, CalmOr
  <2>3. /\ DOMAIN runs' = DOMAIN runs \cup {r} /\ r \notin DOMAIN runs
        /\ runs'[r] = [udid |-> d, status |-> "running", claimed |-> FALSE]
        /\ \A s \in DOMAIN runs : runs'[s] = runs[s]
    BY <2>1, <2>2, RowGoesIn
  <2>4. OneRunningRow' /\ WriterHasRunningRow'
    BY <1>1, <2>2, <2>3 DEF OneRunningRow, WriterHasRunningRow, Running, HasRunning
  <2>5. CalmWorker'
    BY <1>1, <1>2, <2>2 DEF CalmWorker
  <2>6. \A i \in DOMAIN queue : queue[i].run # NoRun => queue[i].run # r /\ queue[i].run \in DOMAIN runs
    BY <2>3 DEF ClicksWait, Unclaimed, Running
  <2>7. ClicksWait'
    <3>1. CASE queue' = queue
      BY <2>3, <3>1 DEF ClicksWait, Unclaimed, Running
    <3>2. CASE queue' = Append(queue, [udid |-> d, run |-> r])
      <4>1. /\ DOMAIN queue' = DOMAIN queue \cup {Len(queue) + 1} /\ Len(queue) + 1 \notin DOMAIN queue
            /\ queue'[Len(queue) + 1] = [udid |-> d, run |-> r]
            /\ \A i \in DOMAIN queue : queue'[i] = queue[i]
        BY <1>3, <3>2
      <4> QED BY <2>3, <2>6, <4>1 DEF ClicksWait, Unclaimed, Running
    <3> QED BY <2>1, <3>1, <3>2
  <2> QED BY <2>4, <2>5, <2>7
<1>6. ASSUME NEW d \in Devices, BackupApi(d) PROVE RowsInv'
  <2>1. /\ DOMAIN queue' = DOMAIN queue \cup {Len(queue) + 1} /\ Len(queue) + 1 \notin DOMAIN queue
        /\ queue'[Len(queue) + 1] = [udid |-> d, run |-> NoRun]
        /\ \A i \in DOMAIN queue : queue'[i] = queue[i]
    BY <1>3, <1>6 DEF BackupApi
  <2>2. UNCHANGED <<devices, runs>>
    BY <1>6 DEF BackupApi
  <2>3. ClicksWait' /\ (ClickWaiting' => ClickWaiting)
    BY <2>1, <2>2 DEF ClicksWait, Unclaimed, Running, ClickWaiting
  <2> QED BY <1>1, <1>2, <2>2, <2>3 DEF CalmWorker, OneRunningRow, WriterHasRunningRow, Running
<1>7. ASSUME NEW d \in Devices, Remove(d) PROVE RowsInv'
  <2>1. /\ devices' = devices \ {d} /\ queue' = queue
        /\ DOMAIN runs' = {r \in DOMAIN runs : runs[r].udid # d}
        /\ \A r \in DOMAIN runs' : runs'[r] = runs[r]
    BY <1>7 DEF Remove, Forgotten
  <2>2. \A r : Running(r) => runs[r].udid # d
    BY <1>7 DEF Remove, HasRunning, Running
  <2>3. \A r : Running(r) => Running(r)' /\ runs'[r] = runs[r]
    BY <2>1, <2>2 DEF Running
  <2>4. OneRunningRow'
    BY <2>1 DEF OneRunningRow, Running
  <2>5. WriterHasRunningRow'
    BY <1>1, <2>1, <2>2, <2>3 DEF WriterHasRunningRow
  <2>6. ClicksWait'
    BY <2>1, <2>3 DEF ClicksWait, Unclaimed
  <2> QED BY <1>1, <1>2, <2>1, <2>4, <2>5, <2>6 DEF CalmWorker, ClickWaiting
<1> QED BY <1>4, <1>5, <1>6, <1>7 DEF Web, RemoveCheck, CalmWorker

LEMMA LifecycleKeepsRows ==
  ASSUME TypeOK, RowsInv, Lifecycle, {"busy_queue", "stalled_beat"} \cap Env = {}
  PROVE  RowsInv'
<1> USE DEF RowsInv
<1>1. UNCHANGED <<devices, removing, queue>>
  BY DEF Lifecycle, Boot, StartHeartbeat, Crash, BeatGoesStale, Heartbeat
<1>2. CASE Boot
  <2>1. /\ worker = "down" /\ worker' = "booting" /\ threads = {} /\ runs' = Swept
        /\ UNCHANGED <<threads, consumer, due>> /\ ~ClickWaiting
    BY <1>2 DEF Boot, jobVars, CalmWorker
  <2>2. CalmWorker' /\ ~ClickWaiting'
    BY <1>1, <2>1 DEF CalmWorker, ClickWaiting
  <2>3. ClicksWait'
    BY <2>2 DEF ClicksWait, ClickWaiting
  <2> QED BY <1>1, <2>1, <2>2, <2>3, SweepKeepsRows
<1>3. CASE Crash
  <2>1. threads' = {} /\ consumer' = "idle" /\ due' = {} /\ worker' = "down" /\ runs' = runs /\ ~ClickWaiting
    BY <1>3 DEF Crash, CalmOr
  <2>2. CalmWorker' /\ OneRunningRow' /\ WriterHasRunningRow'
    BY <1>1, <2>1 DEF CalmWorker, OneRunningRow, WriterHasRunningRow, ClickWaiting, Running
  <2> QED BY <1>1, <2>1, <2>2 DEF ClicksWait, Unclaimed, Running
<1>4. CASE StartHeartbeat \/ BeatGoesStale \/ Heartbeat
  <2>1. UNCHANGED <<runs, threads, consumer, due>>
    BY <1>4 DEF StartHeartbeat, BeatGoesStale, Heartbeat, jobVars
  <2>2. CalmWorker'
    BY <1>1, <1>4, <2>1 DEF CalmWorker, ClickWaiting, StartHeartbeat, BeatGoesStale, Heartbeat, CalmOr
  <2> QED BY <1>1, <2>1, <2>2 DEF OneRunningRow, ClicksWait, WriterHasRunningRow, Unclaimed, Running
<1> QED BY <1>2, <1>3, <1>4 DEF Lifecycle

LEMMA DequeueKeepsRows ==
  ASSUME TypeOK, RowsInv, Dequeue
  PROVE  RowsInv'
<1> USE DEF RowsInv
<1> DEFINE d == Head(queue).udid  r == Head(queue).run
<1>1. /\ queue \in Seq(Task) /\ queue # <<>> /\ queue' = Tail(queue)
      /\ UNCHANGED <<devices, removing, worker, beat, consumer, due>> /\ worker = "up" /\ consumer = "idle"
      /\ StartReturns(d, r) \/ StartRaises(d, r)
  BY DEF Dequeue, TypeOK, workerVars
<1>2. /\ 1 \in DOMAIN queue /\ Head(queue) = queue[1] /\ Head(queue) \in Task
      /\ \A i \in DOMAIN queue' : i \in Nat /\ i + 1 \in DOMAIN queue /\ queue'[i] = queue[i + 1] /\ i + 1 # 1
  BY <1>1
<1>3. d \in Devices /\ r \in RunIds \cup {NoRun}
  BY <1>2 DEF Task
<1>4. r # NoRun => Running(r) /\ runs[r].udid = d /\ ~runs[r].claimed
  BY <1>2 DEF ClicksWait, Unclaimed
<1> HIDE DEF d, r
<1>5. /\ OneRunningRow' /\ WriterHasRunningRow'
      /\ \A task \in Task : Unclaimed(task) /\ task.run # r => Unclaimed(task)'
  BY <1>1, <1>3, <1>4, StartKeepsRows
<1>6. ClicksWait'
  <2>1. ASSUME NEW i \in DOMAIN queue', queue'[i].run # NoRun
        PROVE  Unclaimed(queue'[i]) /\ queue'[i].run # r /\ queue'[i] \in Task
    <3>1. i + 1 \in DOMAIN queue /\ queue'[i] = queue[i + 1] /\ i + 1 # 1
      BY <1>2, <2>1
    <3>2. queue[i + 1].run # queue[1].run
      BY <1>2, <2>1, <3>1 DEF ClicksWait
    <3>3. queue[i + 1] \in Task
      BY <1>1, <3>1
    <3> QED BY <1>2, <2>1, <3>1, <3>2, <3>3 DEF ClicksWait, r
  <2>2. \A i \in DOMAIN queue' : queue'[i].run # NoRun => Unclaimed(queue[i])'
    BY <1>5, <2>1 DEF Unclaimed
  <2>3. \A i, j \in DOMAIN queue' : queue'[i].run = queue'[j].run /\ queue'[i].run # NoRun => i = j
    BY <1>2 DEF ClicksWait
  <2> QED BY <2>2, <2>3 DEF ClicksWait
<1>7. CalmWorker'
  BY <1>1 DEF CalmWorker
<1> QED BY <1>5, <1>6, <1>7

LEMMA TickKeepsRows ==
  ASSUME TypeOK, RowsInv, Tick, {"busy_queue"} \cap Env = {}
  PROVE  RowsInv'
<1> USE DEF RowsInv
<1>1. UNCHANGED <<devices, removing, queue, worker, beat>>
  BY DEF Tick, TickBegin, TickSweep, TickStart, TickAborts, TickEnd, workerVars
<1>2. worker = "up"
  BY DEF Tick, TickBegin, TickSweep, TickStart, TickAborts, TickEnd, CalmWorker, TypeOK
<1>3. CASE TickBegin \/ TickEnd
  <2>1. UNCHANGED <<runs, threads>> /\ (ClickWaiting => consumer' # "discovering")
    BY <1>3 DEF TickBegin, TickEnd, jobVars, CalmOr
  <2> QED BY <1>1, <1>2, <2>1
          DEF CalmWorker, OneRunningRow, ClicksWait, WriterHasRunningRow, ClickWaiting, Unclaimed, Running
<1>4. CASE TickSweep
  <2>1. ~ClickWaiting /\ beat = "fresh" /\ runs' = Swept /\ threads' = threads /\ consumer' = "scheduling"
    BY <1>2, <1>4 DEF TickSweep, CalmWorker, jobVars
  <2>2. OneRunningRow' /\ WriterHasRunningRow'
    BY <1>1, <2>1, SweepKeepsRows
  <2>3. CalmWorker' /\ ClicksWait'
    BY <1>1, <1>2, <2>1 DEF CalmWorker, ClicksWait, ClickWaiting
  <2> QED BY <2>2, <2>3
<1>5. ASSUME NEW d \in due, TickStart(d) \/ TickAborts(d) PROVE RowsInv'
  <2>1. StartReturns(d, NoRun) \/ StartRaises(d, NoRun)
    BY <1>5 DEF TickStart, TickAborts
  <2>2. d \in Devices /\ queue \in Seq(Task)
    BY DEF TypeOK
  <2>3. /\ OneRunningRow' /\ WriterHasRunningRow'
        /\ \A task \in Task : Unclaimed(task) /\ task.run # NoRun => Unclaimed(task)'
    BY <1>1, <2>1, <2>2, StartKeepsRows
  <2>4. ClicksWait'
    <3>1. \A i \in DOMAIN queue : queue[i] \in Task
      BY <2>2
    <3>2. \A i \in DOMAIN queue : queue[i].run # NoRun => Unclaimed(queue[i])'
      BY <1>1, <2>3, <3>1 DEF ClicksWait, Unclaimed
    <3> QED BY <1>1, <3>2 DEF ClicksWait
  <2>5. consumer' # "discovering"
    BY <1>5 DEF TickStart, TickAborts
  <2>6. CalmWorker'
    BY <1>1, <1>2, <2>5 DEF CalmWorker
  <2> QED BY <2>3, <2>4, <2>6
<1> QED BY <1>3, <1>4, <1>5 DEF Tick

LEMMA ThreadKeepsRows ==
  ASSUME TypeOK, OneWriter, RowsInv, NEW t \in threads, ThreadStep(t)
  PROVE  RowsInv'
<1> USE DEF RowsInv
<1>1. t \in Thread /\ UNCHANGED <<devices, removing, queue, worker, beat, consumer, due>>
  BY DEF ThreadStep, workerVars, TypeOK
<1>2. CalmWorker'
  <2>1. worker = "up"
    BY DEF CalmWorker
  <2> QED BY <1>1, <2>1 DEF CalmWorker, ClickWaiting
<1>3. CASE WriteResult(t)
  <2> DEFINE u == [t EXCEPT !.phase = "popping"]
  <2>1. /\ runs' = Finished(t.run, t.verdict) /\ threads' = (threads \ {t}) \cup {u} /\ u.phase = "popping"
        /\ t.verdict # "running" /\ AtWork(t)
    BY <1>1, <1>3 DEF WriteResult, Becomes, Thread, Verdicts, AtWork
  <2> HIDE DEF u
  <2>2. /\ DOMAIN runs' = DOMAIN runs
        /\ \A s \in DOMAIN runs : /\ runs'[s].udid = runs[s].udid /\ runs'[s].claimed = runs[s].claimed
                                  /\ s # t.run => runs'[s] = runs[s]
        /\ t.run \in DOMAIN runs => runs'[t.run].status = t.verdict
    BY <2>1 DEF Finished, TypeOK, Row
  <2>3. runs[t.run].claimed /\ Running(t.run) /\ runs[t.run].udid = t.udid
    BY <2>1 DEF WriterHasRunningRow
  <2>4. OneRunningRow'
    BY <1>1, <2>1, <2>2 DEF OneRunningRow, Running
  <2>5. ClicksWait'
    BY <1>1, <2>2, <2>3 DEF ClicksWait, Unclaimed, Running
  <2>6. \A v \in threads \ {t} : AtWork(v) => v.run # t.run
    BY <2>3 DEF WriterHasRunningRow, OneWriter
  <2>7. WriterHasRunningRow'
    BY <1>1, <2>1, <2>2, <2>6 DEF WriterHasRunningRow, AtWork, Running
  <2> QED BY <1>2, <2>4, <2>5, <2>7
<1>4. CASE ~WriteResult(t)
  <2>1. runs' = runs
    BY <1>4 DEF ThreadStep, StorageCheckFails, EngineWrites, EngineReturns, EngineRaises, SnapshotTaken,
       SnapshotFails, WriteRaises, PopState
  <2>2. \A v, h : Ends(t, v, h) =>
          \E u : u.udid = t.udid /\ u.run = t.run /\ threads' = (threads \ {t}) \cup {u}
    BY <1>1 DEF Ends, Becomes, Thread
  <2>3. \A p : Becomes(t, [t EXCEPT !.phase = p]) =>
          \E u : u.udid = t.udid /\ u.run = t.run /\ threads' = (threads \ {t}) \cup {u}
    BY <1>1 DEF Becomes, Thread
  <2>4. \/ threads' \subseteq threads
        \/ AtWork(t) /\ \E u : u.udid = t.udid /\ u.run = t.run /\ threads' = (threads \ {t}) \cup {u}
    BY <1>4, <2>2, <2>3 DEF ThreadStep, StorageCheckFails, EngineWrites, EngineReturns, EngineRaises,
       SnapshotTaken,
       SnapshotFails, WriteRaises, PopState, AtWork, jobVars
  <2>5. WriterHasRunningRow'
    BY <1>1, <2>1, <2>4 DEF WriterHasRunningRow, Running
  <2> QED BY <1>1, <1>2, <2>1, <2>5 DEF OneRunningRow, ClicksWait, Unclaimed, Running
<1> QED BY <1>3, <1>4

LEMMA RowsInvAlways ==
  ASSUME {"busy_queue", "stalled_beat", "racing_remove"} \cap Env = {}
  PROVE  Spec => []RowsInv
<1>1. Init => RowsInv
  BY DEF Init, RowsInv, CalmWorker, OneRunningRow, ClicksWait, WriterHasRunningRow, ClickWaiting
<1>2. TypeOK /\ OneWriter /\ RowsInv /\ [Next]_vars => RowsInv'
  <2> SUFFICES ASSUME TypeOK, OneWriter, RowsInv, [Next]_vars PROVE RowsInv'
    OBVIOUS
  <2>1. CASE UNCHANGED vars
    BY <2>1 DEF vars, RowsInv, CalmWorker, OneRunningRow, ClicksWait, WriterHasRunningRow, ClickWaiting,
       Unclaimed, Running
  <2> QED BY <2>1, WebKeepsRows, LifecycleKeepsRows, DequeueKeepsRows, TickKeepsRows, ThreadKeepsRows
             DEF Next
<1> QED BY <1>1, <1>2, TypeCorrect, OneWriterAlways, PTL DEF Spec

(* jobs.py:156-193, app.py:2056-2069, 2769: under a quick restart and a    *)
(* result that cannot be written too, a thread at work has its device and  *)
(* its device's running row.                                               *)
THEOREM WriterHasRunningRowAlways ==
  ASSUME {"busy_queue", "stalled_beat", "racing_remove"} \cap Env = {}
  PROVE  Spec => []WriterHasRunningRow
<1>1. RowsInv => WriterHasRunningRow
  BY DEF RowsInv
<1> QED BY <1>1, RowsInvAlways, PTL

LEMMA ResultOnDiskAlways == Spec => []ResultOnDisk
<1>1. Init => ResultOnDisk
  BY DEF Init, ResultOnDisk
<1>2. TypeOK /\ OneWriter /\ SnapshotOfComplete /\ ResultOnDisk /\ [Next]_vars => ResultOnDisk'
  <2> SUFFICES ASSUME TypeOK, OneWriter, SnapshotOfComplete, ResultOnDisk, [Next]_vars PROVE ResultOnDisk'
    OBVIOUS
  <2> USE DEF ResultOnDisk
  <2>1. CASE UNCHANGED <<states, threads, live, newest>>
    BY <2>1
  <2>2. CASE Crash
    BY <2>2 DEF Crash
  <2>3. ASSUME NEW d \in Devices, NEW r \in RunIds, Spawn(d, r), UNCHANGED <<live, newest>>
        PROVE  ResultOnDisk'
    BY <2>3 DEF Spawn, Spawned
  <2>4. ASSUME NEW t \in threads, ThreadStep(t) PROVE ResultOnDisk'
    <3>1. t \in Thread /\ t.udid \in Devices
      BY DEF TypeOK, Thread
    <3>2. \A u \in threads \ {t} : u.udid # t.udid
      BY DEF OneWriter
    <3>3. ASSUME NEW v, NEW h, Ends(t, v, h)
          PROVE  \E u : /\ u.udid = t.udid /\ u.run = t.run /\ u.verdict = v
                        /\ threads' = (threads \ {t}) \cup {u}
      BY <3>1, <3>3 DEF Ends, Becomes, Thread
    <3>4. CASE SnapshotTaken(t)
      <4>1. live[t.udid] = "complete" /\ newest' = [newest EXCEPT ![t.udid] = [run |-> t.run, whole |-> TRUE]]
        BY <3>4 DEF SnapshotTaken, SnapshotOfComplete
      <4>2. newest'[t.udid] = [run |-> t.run, whole |-> TRUE]
        BY <3>1, <4>1 DEF TypeOK
      <4>3. \A u \in threads \ {t} : newest'[u.udid] = newest[u.udid]
        BY <3>2, <4>1 DEF TypeOK, Thread
      <4>4. PICK v \in {"succeeded", "failed"}, h \in BOOLEAN : Ends(t, v, h)
        BY <3>4 DEF SnapshotTaken
      <4>5. PICK u : u.udid = t.udid /\ u.run = t.run /\ u.verdict = v /\ threads' = (threads \ {t}) \cup {u}
        BY <3>3, <4>4
      <4>6. \A w \in threads' : w = u \/ w \in threads \ {t}
        BY <4>5
      <4>7. newest'[u.udid] = [run |-> u.run, whole |-> TRUE]
        BY <4>2, <4>5
      <4> QED BY <4>3, <4>6, <4>7
    <3>5. ASSUME newest' = newest, NEW v, NEW h, v # "succeeded", Ends(t, v, h) PROVE ResultOnDisk'
      BY <3>3, <3>5
    <3>6. ASSUME newest' = newest, NEW p, p # "finishing", Becomes(t, [t EXCEPT !.phase = p])
          PROVE  ResultOnDisk'
      <4>1. [t EXCEPT !.phase = p].phase = p
        BY <3>1 DEF Thread
      <4> QED BY <3>6, <4>1 DEF Becomes
    <3>7. ASSUME newest' = newest, threads' \subseteq threads PROVE ResultOnDisk'
      BY <3>7
    <3>8. CASE StorageCheckFails(t) \/ EngineReturns(t) \/ EngineRaises(t) \/ SnapshotFails(t)
      BY <3>5, <3>6, <3>8 DEF StorageCheckFails, EngineReturns, EngineRaises, SnapshotFails, diskVars
    <3>9. CASE EngineWrites(t) \/ WriteResult(t) \/ WriteRaises(t) \/ PopState(t)
      BY <3>5, <3>6, <3>7, <3>9 DEF EngineWrites, WriteResult, WriteRaises, PopState, diskVars, jobVars
    <3> QED BY <2>4, <3>4, <3>8, <3>9 DEF ThreadStep
  <2> QED BY <2>1, <2>2, <2>3, <2>4, StepKinds
<1> QED BY <1>1, <1>2, TypeCorrect, OneWriterAlways, SnapshotsAlways, PTL DEF Spec

-----------------------------------------------------------------------------
(* The table as a ledger. *)

(* What any step does to the table, under any condition.                   *)
TableStep ==
  \/ runs' = runs
  \/ \E r \in RunIds, d \in devices, claimed \in BOOLEAN :
       IsNextId(r) /\ ~HasRunning(d) /\ runs' = Inserted(r, d, claimed)
  \/ \E r \in RunIds : runs' = Claimed(r)
  \/ runs' = Swept
  \/ \E d \in Devices :
       /\ d \in removing \/ ~HasRunning(d)
       /\ runs' = [i \in {r \in DOMAIN runs : runs[r].udid # d} |-> runs[i]]
  \/ \E t \in threads : t.phase = "finishing" /\ runs' = Finished(t.run, t.verdict)

LEMMA TableSteps ==
  ASSUME TypeOK, [Next]_vars
  PROVE  TableStep
<1>1. CASE UNCHANGED vars
  BY <1>1 DEF vars, TableStep
<1>2. CASE Web
  <2>1. ASSUME NEW d \in Devices, BackupNow(d) PROVE TableStep
    BY <2>1 DEF BackupNow, TableStep
  <2>2. ASSUME NEW d \in Devices, Remove(d) \/ (d \in removing /\ RemoveCommit(d)) PROVE TableStep
    BY <2>2 DEF Remove, RemoveCommit, Forgotten, TableStep
  <2>3. ASSUME NEW d \in Devices, AddDevice(d) \/ BackupApi(d) \/ RemoveCheck(d) PROVE runs' = runs
    BY <2>3 DEF AddDevice, BackupApi, RemoveCheck
  <2> QED BY <1>2, <2>1, <2>2, <2>3 DEF Web, TypeOK, TableStep
<1>3. CASE Lifecycle
  BY <1>3 DEF Lifecycle, Boot, StartHeartbeat, Crash, BeatGoesStale, Heartbeat, TableStep
<1>4. ASSUME NEW d \in Devices, NEW r \in RunIds \cup {NoRun}, StartReturns(d, r) \/ StartRaises(d, r)
      PROVE  TableStep
  BY <1>4 DEF StartReturns, StartAlreadyRunning, StartClaim, StartInsert, StartRefused, StartRaises,
     TableStep
<1>5. CASE Dequeue
  <2>1. Head(queue) \in Task
    BY <1>5 DEF Dequeue, TypeOK
  <2>2. Head(queue).udid \in Devices /\ Head(queue).run \in RunIds \cup {NoRun}
    BY <2>1 DEF Task
  <2> QED BY <1>4, <1>5, <2>2 DEF Dequeue
<1>6. CASE Tick
  <2>1. ASSUME NEW d \in due, TickStart(d) \/ TickAborts(d) PROVE TableStep
    BY <1>4, <2>1 DEF TickStart, TickAborts, TypeOK
  <2> QED BY <1>6, <2>1 DEF Tick, TickBegin, TickSweep, TickEnd, TableStep
<1>7. ASSUME NEW t \in threads, ThreadStep(t) PROVE TableStep
  BY <1>7 DEF ThreadStep, StorageCheckFails, EngineWrites, EngineReturns, EngineRaises, SnapshotTaken,
     SnapshotFails, WriteResult, WriteRaises, PopState, TableStep
<1> QED BY <1>1, <1>2, <1>3, <1>5, <1>6, <1>7 DEF Next

(* jobs.py:318-347: a row turns 'succeeded' only while the newest whole    *)
(* generation of its own device is the one its run left.                   *)
THEOREM SucceededHasGenerationAlways ==
  ASSUME {"busy_queue", "stalled_beat", "racing_remove"} \cap Env = {}
  PROVE  Spec => SucceededHasGeneration
<1> DEFINE Recorded == \A r \in DOMAIN runs \cap DOMAIN runs' :
             runs[r].status # "succeeded" /\ runs'[r].status = "succeeded"
               => newest[runs[r].udid] = [run |-> r, whole |-> TRUE]
<1>1. ASSUME TypeOK, RowsInv, ResultOnDisk, [Next]_vars PROVE Recorded
  <2>1. ASSUME NEW r \in DOMAIN runs, r \in DOMAIN runs',
               runs[r].status # "succeeded", runs'[r].status = "succeeded"
        PROVE  newest[runs[r].udid] = [run |-> r, whole |-> TRUE]
    <3>1. ~(runs' = Swept) /\ ~(\E s \in RunIds : runs' = Claimed(s))
      BY <2>1, <1>1 DEF Swept, Claimed, TypeOK, Row
    <3>2. ASSUME NEW s \in RunIds, NEW d, NEW claimed, runs' = Inserted(s, d, claimed) PROVE FALSE
      <4>1. runs'[r] = IF r = s THEN [udid |-> d, status |-> "running", claimed |-> claimed] ELSE runs[r]
        BY <3>2 DEF Inserted
      <4> QED BY <2>1, <4>1
    <3>3. PICK t \in threads : t.phase = "finishing" /\ runs' = Finished(t.run, t.verdict)
      BY <1>1, <2>1, <3>1, <3>2, TableSteps DEF TableStep
    <3>4. r = t.run /\ t.verdict = "succeeded"
      BY <1>1, <2>1, <3>3 DEF Finished, TypeOK, Row
    <3>5. runs[r].udid = t.udid
      BY <1>1, <3>3, <3>4 DEF RowsInv, WriterHasRunningRow, AtWork
    <3> QED BY <1>1, <3>3, <3>4, <3>5 DEF ResultOnDisk
  <2> QED BY <2>1
<1>2. TypeOK /\ RowsInv /\ ResultOnDisk /\ [Next]_vars => [Recorded]_vars
  BY <1>1
<1> HIDE DEF Recorded
<1>3. Spec => [][Recorded]_vars
  BY <1>2, TypeCorrect, RowsInvAlways, ResultOnDiskAlways, PTL DEF Spec
<1> QED BY <1>3 DEF Recorded, SucceededHasGeneration

(* Every step on the table is a step of the ledger, or none.               *)
LEMMA LedgerSteps ==
  ASSUME TypeOK, RowsInv, [Next]_vars
  PROVE  \/ Ledger!Next
         \/ [r \in DOMAIN runs' |-> [udid |-> runs'[r].udid, status |-> runs'[r].status]]
              = [r \in DOMAIN runs |-> [udid |-> runs[r].udid, status |-> runs[r].status]]
<1> DEFINE Entry(r) == [udid |-> runs[r].udid, status |-> runs[r].status]
           L == [r \in DOMAIN runs |-> Entry(r)]
           Opened(id, d) == [i \in DOMAIN L \cup {id} |->
                               IF i = id THEN [udid |-> d, status |-> "running"] ELSE L[i]]
           Closed(S, result) == [i \in DOMAIN L |->
                                   IF i \in S THEN [L[i] EXCEPT !.status = result] ELSE L[i]]
           Open == {r \in DOMAIN L : L[r].status = "running"}
<1>1. /\ DOMAIN runs \subseteq RunIds /\ \A r \in DOMAIN runs : runs[r] \in Row
      /\ DOMAIN L = DOMAIN runs /\ \A r \in DOMAIN runs : L[r] = Entry(r)
  BY DEF TypeOK
<1>2. \A r : r \in Open <=> Running(r)
  BY <1>1 DEF Running
<1>3. ASSUME NEW id \in RunIds, NEW d \in Devices, id \notin DOMAIN runs, ~HasRunning(d), L' = Opened(id, d)
      PROVE  Ledger!Next
  <2>1. id \notin DOMAIN L
    BY <1>3
  <2>2. \A other \in Open : L[other].udid # d
    BY <1>1, <1>2, <1>3 DEF HasRunning, Running
  <2> QED BY <1>3, <2>1, <2>2 DEF Ledger!Next, Ledger!Open, Ledger!OpenRuns, Ledger!IsOpen, Ledger!Ids,
             RunIds
<1>4. ASSUME NEW S, S \subseteq Open, NEW result \in Verdicts, result = "failed" \/ (\E r : S = {r}),
             S # {}, L' = Closed(S, result)
      PROVE  Ledger!Next
  <2>1. Ledger!OpenRuns = Open /\ Ledger!Results = Verdicts
    BY DEF Ledger!OpenRuns, Ledger!IsOpen, Ledger!Results, Verdicts
  <2>2. Ledger!Close(S, result)
    BY <1>4 DEF Ledger!Close
  <2> HIDE DEF Open
  <2>3. CASE result = "failed"
    BY <1>4, <2>1, <2>2, <2>3 DEF Ledger!Next
  <2>4. CASE \E r : S = {r}
    BY <1>4, <2>1, <2>2, <2>4 DEF Ledger!Next
  <2> QED BY <1>4, <2>3, <2>4
<1>5. ASSUME NEW d \in Devices, ~HasRunning(d), L' = [i \in {r \in DOMAIN L : L[r].udid # d} |-> L[i]]
      PROVE  Ledger!Next
  <2>1. \A other \in Open : L[other].udid # d
    BY <1>1, <1>2, <1>5 DEF HasRunning, Running
  <2> QED BY <1>5, <2>1 DEF Ledger!Next, Ledger!Forget, Ledger!OpenRuns, Ledger!IsOpen
<1>6. CASE runs' = runs
  BY <1>6
<1>7. ASSUME NEW r \in RunIds, NEW d \in devices, NEW claimed \in BOOLEAN,
             IsNextId(r), ~HasRunning(d), runs' = Inserted(r, d, claimed)
      PROVE  Ledger!Next
  <2>1. /\ DOMAIN runs' = DOMAIN runs \cup {r} /\ r \notin DOMAIN runs
        /\ runs'[r] = [udid |-> d, status |-> "running", claimed |-> claimed]
        /\ \A s \in DOMAIN runs : runs'[s] = runs[s]
    BY <1>7, RowGoesIn
  <2>2. L' = Opened(r, d)
    BY <1>1, <2>1
  <2>3. d \in Devices
    BY DEF TypeOK
  <2> QED BY <1>3, <1>7, <2>1, <2>2, <2>3
<1>8. ASSUME NEW r \in RunIds, runs' = Claimed(r) PROVE L' = L
  <2>1. DOMAIN runs' = DOMAIN runs /\ \A s \in DOMAIN runs : runs'[s].udid = runs[s].udid /\ runs'[s].status = runs[s].status
    BY <1>1, <1>8 DEF Claimed, Row
  <2> QED BY <2>1
<1>9. ASSUME runs' = Swept PROVE Ledger!Next \/ L' = L
  <2> DEFINE S == {r \in DOMAIN runs : Orphan(r)}
  <2>1. S \subseteq Open
    BY <1>2 DEF Orphan, Running
  <2>2. /\ DOMAIN runs' = DOMAIN runs
        /\ \A s \in DOMAIN runs : /\ runs'[s].udid = runs[s].udid
                                  /\ runs'[s].status = IF s \in S THEN "failed" ELSE runs[s].status
    BY <1>1, <1>9 DEF Swept, Row
  <2> HIDE DEF S
  <2>3. L' = Closed(S, "failed")
    BY <1>1, <2>2
  <2>4. S = {} => L' = L
    BY <1>1, <2>2
  <2>5. ASSUME S # {} PROVE Ledger!Next
    <3>1. "failed" \in Verdicts
      BY DEF Verdicts
    <3> HIDE DEF Open, Closed, L
    <3> QED BY <1>4, <2>1, <2>3, <2>5, <3>1
  <2> QED BY <2>4, <2>5
<1>10. ASSUME NEW d \in Devices, d \in removing \/ ~HasRunning(d),
              runs' = [i \in {r \in DOMAIN runs : runs[r].udid # d} |-> runs[i]]
       PROVE  Ledger!Next
  <2>1. ~HasRunning(d)
    BY <1>10 DEF RowsInv, CalmWorker
  <2>2. L' = [i \in {r \in DOMAIN L : L[r].udid # d} |-> L[i]]
    BY <1>1, <1>10
  <2> QED BY <1>5, <2>1, <2>2
<1>11. ASSUME NEW t \in threads, t.phase = "finishing", runs' = Finished(t.run, t.verdict) PROVE Ledger!Next
  <2>1. Running(t.run) /\ t.verdict \in Verdicts
    BY <1>11 DEF RowsInv, WriterHasRunningRow, AtWork, TypeOK, Thread
  <2>2. /\ DOMAIN runs' = DOMAIN runs
        /\ \A s \in DOMAIN runs : /\ runs'[s].udid = runs[s].udid
                                  /\ runs'[s].status = IF s \in {t.run} THEN t.verdict ELSE runs[s].status
    BY <1>1, <1>11 DEF Finished, Row
  <2>3. L' = Closed({t.run}, t.verdict)
    BY <1>1, <2>2
  <2>4. {t.run} \subseteq Open
    BY <1>2, <2>1
  <2>5. {t.run} # {} /\ \E r : {t.run} = {r}
    OBVIOUS
  <2> HIDE DEF Open, Closed, L
  <2> QED BY <1>4, <2>1, <2>3, <2>4, <2>5
<1> QED BY <1>6, <1>7, <1>8, <1>9, <1>10, <1>11, TableSteps DEF TableStep

(* The table implements the append-and-close ledger (RunLedger): a row is  *)
(* opened for a device without an open one (db.py:186), closed once        *)
(* (jobs.py:71-92, 250-259), and leaves only with its device.              *)
THEOREM LedgerSpecAlways ==
  ASSUME {"busy_queue", "stalled_beat", "racing_remove"} \cap Env = {}
  PROVE  Spec => LedgerSpec
<1>1. Init => Ledger!Init
  BY DEF Init, Ledger!Init
<1>2. TypeOK /\ RowsInv /\ [Next]_vars =>
        [Ledger!Next]_([r \in DOMAIN runs |-> [udid |-> runs[r].udid, status |-> runs[r].status]])
  BY LedgerSteps
<1> QED BY <1>1, <1>2, TypeCorrect, RowsInvAlways, PTL DEF Spec, LedgerSpec, Ledger!Spec

-----------------------------------------------------------------------------
(***************************************************************************)
(* The schema of the database that holds the runs table: Migration, for any*)
(* number of processes, any versions and any number of kills.              *)
(***************************************************************************)

(* One step appended in order keeps a database consistent.                 *)
LEMMA UpgradedConsecutive ==
  ASSUME NEW db \in Database, Consecutive(db)
  PROVE  /\ Upgraded(db, db.version + 1) \in Database
         /\ Upgraded(db, db.version + 1).base = db.base
         /\ Upgraded(db, db.version + 1).version = db.version + 1
         /\ Consecutive(Upgraded(db, db.version + 1))
<1> DEFINE v == db.version + 1
           up == Upgraded(db, v)
<1>1. v \in Nat /\ db.steps \in Seq(Nat) /\ db.base \in Nat /\ db.version \in Nat
  BY DEF Database
<1>2. up = [base |-> db.base, steps |-> Append(db.steps, v), version |-> v]
  BY DEF Upgraded
<1>3. Append(db.steps, v) \in Seq(Nat)
  BY <1>1
<1>4. Len(Append(db.steps, v)) = Len(db.steps) + 1
  BY <1>1
<1>5. \A i \in DOMAIN Append(db.steps, v) : Append(db.steps, v)[i] = db.base + i
  <2> TAKE i \in DOMAIN Append(db.steps, v)
  <2>1. CASE i = Len(db.steps) + 1
    BY <1>1, <2>1 DEF Consecutive
  <2>2. CASE i # Len(db.steps) + 1
    <3>1. i \in DOMAIN db.steps /\ Append(db.steps, v)[i] = db.steps[i]
      BY <1>1, <2>2
    <3> QED BY <3>1 DEF Consecutive
  <2> QED BY <2>1, <2>2
<1>6. v = db.base + Len(Append(db.steps, v))
  BY <1>1, <1>4 DEF Consecutive
<1>7. up \in Database /\ up.base = db.base /\ up.version = v
  <2> DEFINE s == Append(db.steps, v)
  <2>1. s \in Seq(Nat) /\ up = [base |-> db.base, steps |-> s, version |-> v]
    BY <1>2, <1>3
  <2> HIDE DEF s, v, up
  <2>2. v \in Nat
    BY <1>1
  <2> QED BY <1>1, <2>1, <2>2 DEF Database
<1>8. Consecutive(up)
  <2> HIDE DEF v
  <2> QED BY <1>2, <1>5, <1>6 DEF Consecutive
<1> QED BY <1>7, <1>8

LEMMA UntouchedConsecutive ==
  ASSUME NEW v \in Nat
  PROVE  Untouched(v) \in Database /\ Consecutive(Untouched(v))
BY DEF Untouched, Database, Consecutive

(***************************************************************************)
(* The inductive invariant. Committed databases alone say too little: it   *)
(* also needs what the holder of the lock has in its transaction, and that *)
(* a database somebody found in need of migration only ever reaches the    *)
(* release.                                                                *)
(***************************************************************************)
Transaction ==
  \A p \in Procs : pc[p] = "migrating" =>
    /\ Consecutive(work[p])
    /\ work[p].base = disk.base
    /\ disk.version # Release

InReach ==
  \A p \in Procs : pc[p] \in {"probed", "copying", "copied", "migrating"} =>
    disk.version \in Baseline .. Release

SchemaSteps == SchemaTypeOK /\ StepsMatchVersion /\ Transaction /\ InReach /\ StartedOnRelease

(* init_db, step by step, for any processes and versions: the schema       *)
(* matches user_version, a process that migrates works on a copy of what   *)
(* is committed, and whoever is under way started from a release.          *)
THEOREM StepsInductive == SchemaSpec => []SchemaSteps
<1> USE MigrationAssumption
<1>1. SchemaInit => SchemaSteps
  <2> SUFFICES ASSUME SchemaInit PROVE SchemaSteps
    OBVIOUS
  <2>1. PICK v \in StartVersions : disk = Untouched(v)
    BY DEF SchemaInit
  <2>2. disk \in Database /\ Consecutive(disk)
    BY <2>1, UntouchedConsecutive
  <2>3. Untouched(0) \in Database
    BY UntouchedConsecutive
  <2>4. copies \in [DOMAIN copies -> Database] /\ DOMAIN copies = {}
    BY DEF SchemaInit
  <2> QED BY <2>2, <2>3, <2>4
          DEF SchemaInit, SchemaSteps, SchemaTypeOK, StepsMatchVersion, Transaction, InReach, StartedOnRelease,
              Stages, NoFile, Files
<1>2. SchemaSteps /\ [SchemaNext]_schemaVars => SchemaSteps'
  <2> SUFFICES ASSUME SchemaSteps, [SchemaNext]_schemaVars PROVE SchemaSteps'
    OBVIOUS
  <2> USE DEF SchemaSteps, Moves, LockFree, txVars, copyVars
  <2>1. ASSUME NEW p \in Procs, Probe(p) PROVE SchemaSteps'
    <3>1. UNCHANGED <<disk, work, target, copies, clock, faults>>
      BY <2>1 DEF Probe, ProbeVersion
    <3>2. SchemaTypeOK'
      <4>1. /\ pc' \in [Procs -> Stages]
            /\ probed' \in [Procs -> Nat]
        BY <2>1 DEF Probe, ProbeVersion, SchemaTypeOK, Stages, Database
      <4>2. lock' = p <=> pc'[p] \in {"creating", "migrating"}
        BY <2>1 DEF Probe, ProbeVersion, SchemaTypeOK, NeedsMigration
      <4>3. lock' \in {p, Nobody}
        BY <2>1 DEF Probe
      <4>4. \A q \in Procs \ {p} : lock' # q /\ pc'[q] \notin {"creating", "migrating"}
        BY <2>1, <4>3 DEF Probe, ProbeVersion, SchemaTypeOK
      <4> QED BY <3>1, <4>1, <4>2, <4>3, <4>4 DEF SchemaTypeOK
    <3>3. \A q \in Procs \ {p} : pc'[q] = pc[q]
      BY <2>1 DEF Probe, ProbeVersion, SchemaTypeOK
    <3>4. /\ pc'[p] = "started" => disk.version = Release
          /\ pc'[p] = "probed" => disk.version \in Baseline .. Release
          /\ pc'[p] \notin {"copying", "copied", "migrating"}
      BY <2>1 DEF Probe, ProbeVersion, SchemaTypeOK, NeedsMigration
    <3> QED BY <3>1, <3>2, <3>3, <3>4 DEF StepsMatchVersion, Transaction, InReach, StartedOnRelease
  <2>2. ASSUME NEW p \in Procs, CreateSchema(p) PROVE SchemaSteps'
    <3>1. disk' \in Database /\ Consecutive(disk') /\ disk'.version = Release
      BY <2>2, UntouchedConsecutive DEF CreateSchema, Untouched
    <3>2. \A q \in Procs \ {p} : pc'[q] = pc[q]
      BY <2>2 DEF CreateSchema, SchemaTypeOK
    <3>3. \A q \in Procs : pc[q] \notin {"migrating", "started"}
      BY <2>2 DEF CreateSchema, SchemaTypeOK, InReach, StartedOnRelease
    <3> QED BY <2>2, <3>1, <3>2, <3>3
            DEF CreateSchema, SchemaTypeOK, Stages, StepsMatchVersion, Transaction, InReach, StartedOnRelease
  <2>3. ASSUME NEW p \in Procs, BeginCopy(p) PROVE SchemaSteps'
    BY <2>3 DEF BeginCopy, FileFor, SchemaTypeOK, Stages, Files, StepsMatchVersion, Transaction,
                InReach, StartedOnRelease
  <2>4. ASSUME NEW p \in Procs, EndCopy(p) PROVE SchemaSteps'
    <3>1. /\ copies' \in [DOMAIN copies' -> Database]
          /\ DOMAIN copies' \subseteq Files
          /\ \A f \in DOMAIN copies' : Consecutive(copies'[f])
      BY <2>4 DEF EndCopy, SchemaTypeOK, StepsMatchVersion
    <3> QED BY <2>4, <3>1
            DEF EndCopy, SchemaTypeOK, Stages, StepsMatchVersion, Transaction, InReach, StartedOnRelease
  <2>5. ASSUME NEW p \in Procs, BeginMigration(p) PROVE SchemaSteps'
    BY <2>5 DEF BeginMigration, SchemaTypeOK, Stages, StepsMatchVersion, Transaction, InReach,
       StartedOnRelease
  <2>6. ASSUME NEW p \in Procs, Step(p) PROVE SchemaSteps'
    <3>1. /\ work'[p] \in Database /\ work'[p].base = work[p].base
          /\ Consecutive(work'[p])
      BY <2>6, UpgradedConsecutive DEF Step, SchemaTypeOK, Transaction
    <3>2. \A q \in Procs \ {p} : work'[q] = work[q]
      BY <2>6 DEF Step, SchemaTypeOK
    <3>3. work' \in [Procs -> Database]
      BY <2>6, <3>1, <3>2 DEF Step, SchemaTypeOK
    <3> QED BY <2>6, <3>1, <3>2, <3>3
            DEF Step, SchemaTypeOK, StepsMatchVersion, Transaction, InReach, StartedOnRelease
  <2>7. ASSUME NEW p \in Procs, Commit(p) PROVE SchemaSteps'
    <3>1. disk' \in Database /\ Consecutive(disk') /\ disk'.version = Release
      BY <2>7 DEF Commit, SchemaTypeOK, Transaction
    <3>2. \A q \in Procs \ {p} : pc'[q] = pc[q] /\ pc[q] # "migrating"
      BY <2>7 DEF Commit, SchemaTypeOK
    <3> QED BY <2>7, <3>1, <3>2
            DEF Commit, SchemaTypeOK, Stages, StepsMatchVersion, Transaction, InReach, StartedOnRelease
  <2>8. ASSUME NEW p \in Procs, Restarted(p) PROVE SchemaSteps'
    BY <2>8 DEF Restarted, SchemaTypeOK, Stages, StepsMatchVersion, Transaction, InReach,
       StartedOnRelease
  <2>9. ASSUME NEW p \in Procs, Fails(p) PROVE SchemaSteps'
    BY <2>9 DEF Fails, Unlocked, SchemaTypeOK, Stages, StepsMatchVersion, Transaction, InReach,
       StartedOnRelease
  <2>10. ASSUME NEW p \in Procs, Killed(p) PROVE SchemaSteps'
    BY <2>10 DEF Killed, Unlocked, SchemaTypeOK, Stages, StepsMatchVersion, Transaction, InReach,
       StartedOnRelease
  <2>11. ASSUME SecondPasses PROVE SchemaSteps'
    BY <2>11 DEF SecondPasses, SchemaTypeOK, StepsMatchVersion, Transaction, InReach, StartedOnRelease
  <2>12. CASE UNCHANGED schemaVars
    BY <2>12 DEF schemaVars, SchemaTypeOK, StepsMatchVersion, Transaction, InReach, StartedOnRelease
  <2> QED BY <2>1, <2>2, <2>3, <2>4, <2>5, <2>6, <2>7, <2>8, <2>9, <2>10, <2>11, <2>12
          DEF SchemaNext, Progress
<1> QED BY <1>1, <1>2, PTL DEF SchemaSpec

(* db.py:799-803, 843, 862: exactly the process that creates the schema or *)
(* runs the steps holds the write lock, so no two ever do at once.         *)
THEOREM SchemaTypeCorrect == SchemaSpec => []SchemaTypeOK
BY StepsInductive, PTL DEF SchemaSteps

(* db.py:853-862: user_version names the steps the file really has.        *)
THEOREM StepsMatchVersionAlways == SchemaSpec => []StepsMatchVersion
BY StepsInductive, PTL DEF SchemaSteps

(* db.py:799-803, 853-856: no process goes on with another layout than its *)
(* release's.                                                              *)
THEOREM StartedOnReleaseAlways == SchemaSpec => []StartedOnRelease
BY StepsInductive, PTL DEF SchemaSteps

-----------------------------------------------------------------------------
(***************************************************************************)
(* The copy of the original, when no two copies are begun under one name.  *)
(* The commit needs it to exist already, so the invariant is about every   *)
(* process past its copy; and a copy being written must not be one that is *)
(* already there.                                                          *)
(***************************************************************************)
CopyOfOriginal == \E f \in DOMAIN copies : copies[f] = Untouched(disk.base)

CopiedFirst ==
  \A p \in Procs : pc[p] \in {"copied", "migrating"} /\ disk.version # Release => CopyOfOriginal

NothingOverwritten ==
  \A p \in Procs : pc[p] = "copying" =>
    /\ target[p] \notin DOMAIN copies
    /\ \A q \in Procs \ {p} : pc[q] = "copying" => target[q] # target[p]

(* A database not yet at the release has had no step applied to it.        *)
NotHalfWay == disk.version # Release => disk.steps = <<>>

SchemaKept == OriginalKept /\ CopiedFirst /\ NothingOverwritten /\ NotHalfWay

(* docs/install.md:451-453: the database as it was found can be put back.  *)
THEOREM OriginalKeptAlways ==
  ASSUME ~SameSecond
  PROVE  SchemaSpec => []OriginalKept
<1> USE MigrationAssumption
<1>1. SchemaInit => SchemaKept
  BY DEF SchemaInit, SchemaKept, OriginalKept, CopiedFirst, NothingOverwritten, NotHalfWay, Untouched
<1>2. SchemaSteps /\ SchemaKept /\ [SchemaNext]_schemaVars => SchemaKept'
  <2> SUFFICES ASSUME SchemaSteps, SchemaKept, [SchemaNext]_schemaVars PROVE SchemaKept'
    OBVIOUS
  <2> USE DEF SchemaSteps, SchemaKept, Moves, LockFree, txVars, copyVars, SchemaTypeOK
  <2>1. ASSUME UNCHANGED <<disk, copies>>,
               \A q \in Procs : pc'[q] \in {"copied", "migrating"} => pc[q] \in {"copied", "migrating"},
               \A q \in Procs : pc'[q] = "copying" => pc[q] = "copying" /\ target'[q] = target[q]
        PROVE SchemaKept'
    <3>1. CopyOfOriginal' = CopyOfOriginal
      BY <2>1 DEF CopyOfOriginal
    <3> QED BY <2>1, <3>1 DEF OriginalKept, CopiedFirst, NothingOverwritten, NotHalfWay
  <2>2. ASSUME NEW p \in Procs, Probe(p) PROVE SchemaKept'
    BY <2>1, <2>2 DEF Probe, ProbeVersion
  <2>3. ASSUME NEW p \in Procs, CreateSchema(p) PROVE SchemaKept'
    BY <2>3, UntouchedConsecutive
       DEF CreateSchema, Untouched, OriginalKept, CopiedFirst, NothingOverwritten, NotHalfWay
  <2>4. ASSUME NEW p \in Procs, BeginCopy(p) PROVE SchemaKept'
    <3>1. CopyOfOriginal' = CopyOfOriginal
      BY <2>4 DEF BeginCopy, CopyOfOriginal
    <3>2. target'[p] \notin DOMAIN copies \cup {target[q] : q \in Procs}
      BY <2>4 DEF BeginCopy
    <3>3. \A q \in Procs \ {p} : pc'[q] = pc[q] /\ target'[q] = target[q]
      BY <2>4 DEF BeginCopy
    <3>4. pc'[p] = "copying" /\ UNCHANGED <<disk, copies>>
      BY <2>4 DEF BeginCopy
    <3>5. OriginalKept' /\ CopiedFirst' /\ NotHalfWay'
      BY <3>1, <3>3, <3>4 DEF OriginalKept, CopiedFirst, NotHalfWay
    <3>6. NothingOverwritten'
      BY <3>2, <3>3, <3>4 DEF NothingOverwritten
    <3> QED BY <3>5, <3>6
  <2>5. ASSUME NEW p \in Procs, EndCopy(p) PROVE SchemaKept'
    <3>1. \A f \in DOMAIN copies : f \in DOMAIN copies' /\ copies'[f] = copies[f]
      BY <2>5 DEF EndCopy, NothingOverwritten
    <3>2. CopyOfOriginal => CopyOfOriginal'
      BY <2>5, <3>1 DEF EndCopy, CopyOfOriginal
    <3>3. disk.steps = <<>> => disk = Untouched(disk.base)
      BY DEF StepsMatchVersion, Consecutive, Database, Untouched
    <3>4. disk.steps = <<>> => CopyOfOriginal'
      BY <2>5, <3>3 DEF EndCopy, CopyOfOriginal
    <3>5. disk.version # Release => CopyOfOriginal'
      BY <3>4 DEF NotHalfWay
    <3>6. DOMAIN copies' = DOMAIN copies \cup {target[p]} /\ UNCHANGED <<disk, target>>
      BY <2>5 DEF EndCopy
    <3>7. pc[p] = "copying" /\ pc'[p] = "copied" /\ \A q \in Procs \ {p} : pc'[q] = pc[q]
      BY <2>5 DEF EndCopy
    <3>8. OriginalKept' /\ CopiedFirst' /\ NotHalfWay'
      BY <3>2, <3>5, <3>6 DEF OriginalKept, CopyOfOriginal, CopiedFirst, NotHalfWay
    <3>9. NothingOverwritten'
      BY <3>6, <3>7 DEF NothingOverwritten
    <3> QED BY <3>8, <3>9
  <2>6. ASSUME NEW p \in Procs, BeginMigration(p) PROVE SchemaKept'
    BY <2>1, <2>6 DEF BeginMigration
  <2>7. ASSUME NEW p \in Procs, Step(p) PROVE SchemaKept'
    BY <2>1, <2>7 DEF Step
  <2>8. ASSUME NEW p \in Procs, Commit(p) PROVE SchemaKept'
    <3>1. disk'.base = disk.base /\ disk'.version = Release
      BY <2>8 DEF Commit, Transaction
    <3>2. CopyOfOriginal'
      BY <2>8, <3>1 DEF Commit, Transaction, CopiedFirst, CopyOfOriginal
    <3> QED BY <2>8, <3>1, <3>2
            DEF Commit, OriginalKept, CopyOfOriginal, CopiedFirst, NothingOverwritten, NotHalfWay
  <2>9. ASSUME NEW p \in Procs, Restarted(p) PROVE SchemaKept'
    BY <2>1, <2>9 DEF Restarted
  <2>10. ASSUME NEW p \in Procs, Fails(p) PROVE SchemaKept'
    BY <2>1, <2>10 DEF Fails
  <2>11. ASSUME NEW p \in Procs, Killed(p) PROVE SchemaKept'
    BY <2>1, <2>11 DEF Killed
  <2>12. ASSUME SecondPasses PROVE SchemaKept'
    BY <2>1, <2>12 DEF SecondPasses
  <2>13. CASE UNCHANGED schemaVars
    BY <2>1, <2>13 DEF schemaVars
  <2> QED BY <2>2, <2>3, <2>4, <2>5, <2>6, <2>7, <2>8, <2>9, <2>10, <2>11, <2>12, <2>13
          DEF SchemaNext, Progress
<1> QED BY <1>1, <1>2, StepsInductive, PTL DEF SchemaSpec, SchemaKept

-----------------------------------------------------------------------------
(***************************************************************************)
(* The engine that a backup thread and the consumer call: Engine, for any  *)
(* timeouts and any number of calls.                                       *)
(***************************************************************************)

(***************************************************************************)
(* The inductive invariant. Shapes; what a call may hold at each of its    *)
(* steps, with an applied change of encryption only ever ahead of its      *)
(* answer; and how the silence of the device relates to the window that    *)
(* watches for it, before and after the first progress in that window.     *)
(***************************************************************************)
DeviceKind ==
  [cable : BOOLEAN, near : BOOLEAN, host : BOOLEAN, wifiOn : BOOLEAN, encrypted : BOOLEAN,
   trusts : SUBSET (Records \ {0}), prompt : BOOLEAN]
CallStages ==
  {"load", "usb", "fixed", "browse", "open", "operate", "next", "change", "dropped", "transfer", "closing", "ended"}
Outcomes == {"none", "done", "failed", "refused", "unreachable", "not_confirmed", "stalled"}
Transports == {"none", "usb", "wifi"}
CallKind ==
  [op : ConsumerOps \cup {"backup", "none"}, pc : CallStages, conn : Transports, again : {"none", "open"},
   beat : BOOLEAN, used : Records, applied : BOOLEAN, out : Outcomes]
WatchKind ==
  [begun : BOOLEAN, watching : BOOLEAN, moved : BOOLEAN,
   waited : 0 .. PasscodeTimeout, window : 0 .. StallTimeout, silence : Nat]

Shapes ==
  /\ device \in DeviceKind
  /\ record \in [id : Records, escrow : BOOLEAN]
  /\ calls \in [Threads -> CallKind]
  /\ watch \in WatchKind
  /\ made \in 0 .. MaxCalls

CallSteps ==
  \A t \in Threads :
    LET c == calls[t]
    IN /\ c.pc = "ended" => c = NoCall
       /\ c.pc \in {"load", "usb", "fixed", "browse"} => c.conn = "none"
       /\ c.conn # "none" /\ c.op # "discover" => c.used # 0
       /\ t = "consumer" /\ c.pc # "ended" => made # 0

Encryption ==
  LET c == calls["consumer"]
  IN /\ c.applied => device.encrypted /\ c.pc \in {"dropped", "closing"}
     /\ c.applied /\ c.pc = "closing" => c.out \in {"done", "unreachable"}
     /\ c.op = "encrypt" /\ c.pc = "closing" /\ c.out = "done" => device.encrypted

Silence ==
  /\ ~watch.watching => watch.silence = 0 /\ watch.window = 0
  /\ watch.moved => watch.silence <= watch.window
  /\ watch.watching /\ ~watch.moved => watch.silence \in watch.window .. watch.window + StallTimeout
  /\ calls["backup"].pc = "closing" /\ calls["backup"].out = "stalled" => watch.silence >= StallTimeout

EngineInv == Shapes /\ CallSteps /\ Encryption /\ Silence

(* The words that stand for stages, outcomes and transports.               *)
LEMMA Words ==
  /\ "load" \in CallStages /\ "usb" \in CallStages /\ "fixed" \in CallStages /\ "browse" \in CallStages
  /\ "open" \in CallStages /\ "operate" \in CallStages /\ "next" \in CallStages /\ "change" \in CallStages
  /\ "dropped" \in CallStages /\ "transfer" \in CallStages /\ "closing" \in CallStages /\ "ended" \in CallStages
  /\ "none" \in Outcomes /\ "done" \in Outcomes /\ "failed" \in Outcomes /\ "refused" \in Outcomes
  /\ "unreachable" \in Outcomes /\ "not_confirmed" \in Outcomes /\ "stalled" \in Outcomes
  /\ "none" \in Transports /\ "usb" \in Transports /\ "wifi" \in Transports
BY DEF CallStages, Outcomes, Transports

LEMMA CallMoves ==
  ASSUME NEW t \in Threads, calls \in [Threads -> CallKind]
  PROVE  /\ \A stage \in CallStages : Goes(t, stage) => calls' \in [Threads -> CallKind]
         /\ \A stage \in CallStages : record.id \in Records /\ Finds(t, stage) => calls' \in [Threads -> CallKind]
         /\ \A conn \in Transports, id \in Records : Opens(t, conn, id) => calls' \in [Threads -> CallKind]
         /\ \A out \in Outcomes : Leaves(t, out) => calls' \in [Threads -> CallKind]
<1>0. calls[t] \in CallKind
  OBVIOUS
<1>1. ASSUME NEW stage \in CallStages, Goes(t, stage) PROVE calls' \in [Threads -> CallKind]
  BY <1>1 DEF Goes, CallKind
<1>2. ASSUME NEW c \in CallKind, calls' = [calls EXCEPT ![t] = c] PROVE calls' \in [Threads -> CallKind]
  BY <1>2
<1>3. ASSUME NEW stage \in CallStages, record.id \in Records, Finds(t, stage)
      PROVE  calls' \in [Threads -> CallKind]
  <2> DEFINE c == [calls[t] EXCEPT !.pc = stage, !.used = record.id]
  <2>1. c \in CallKind
    BY <1>0, <1>3 DEF CallKind
  <2>2. calls' = [calls EXCEPT ![t] = c]
    BY <1>3 DEF Finds
  <2> QED BY <1>2, <2>1, <2>2
<1>4. ASSUME NEW conn \in Transports, NEW id \in Records, Opens(t, conn, id)
      PROVE  calls' \in [Threads -> CallKind]
  <2>1. PICK stage \in CallStages : stage = "open"
    BY Words
  <2> DEFINE c == [calls[t] EXCEPT !.pc = stage, !.conn = conn, !.used = id]
  <2>2. c \in CallKind
    BY <1>0 DEF CallKind
  <2>3. calls' = [calls EXCEPT ![t] = c]
    BY <1>4, <2>1 DEF Opens
  <2> QED BY <1>2, <2>2, <2>3
<1>5. ASSUME NEW out \in Outcomes, Leaves(t, out) PROVE calls' \in [Threads -> CallKind]
  <2>1. PICK stage \in CallStages : stage = "closing"
    BY Words
  <2> DEFINE c == [calls[t] EXCEPT !.pc = stage, !.out = out]
  <2>2. c \in CallKind
    BY <1>0 DEF CallKind
  <2>3. calls' = [calls EXCEPT ![t] = c]
    BY <1>5, <2>1 DEF Leaves
  <2> QED BY <1>2, <2>2, <2>3
<1> QED BY <1>1, <1>3, <1>4, <1>5

LEMMA NewCall ==
  ASSUME NEW op \in ConsumerOps \cup {"backup", "none"}
  PROVE  Call(op) \in CallKind /\ NoCall \in CallKind
<1>1. 0 \in Records /\ "none" \in ConsumerOps \cup {"backup", "none"}
  BY EngineAssumption DEF Records
<1>2. ASSUME NEW o \in ConsumerOps \cup {"backup", "none"} PROVE Call(o) \in CallKind
  <2>1. PICK stage \in CallStages : stage = "load"
    BY Words
  <2>2. PICK out \in Outcomes : out = "none"
    BY Words
  <2>3. PICK conn \in Transports : conn = "none"
    BY Words
  <2>4. Call(o) = [op |-> o, pc |-> stage, conn |-> conn, again |-> "none", beat |-> FALSE,
             used |-> 0, applied |-> FALSE, out |-> out]
    BY <2>1, <2>2, <2>3 DEF Call
  <2> QED BY <1>1, <2>4 DEF CallKind
<1>3. NoCall \in CallKind
  <2>1. PICK stage \in CallStages : stage = "ended"
    BY Words
  <2>2. NoCall = [Call("none") EXCEPT !.pc = stage]
    BY <2>1 DEF NoCall
  <2> QED BY <1>1, <1>2, <2>2 DEF CallKind
<1> QED BY <1>2, <1>3

(* _session, _run_backup_attempt and _change_encryption, whatever the      *)
(* device does: an ended call holds nothing, a change the device applied   *)
(* is never answered as refused or failed, and the watchdog's silence is   *)
(* bounded.                                                                *)
THEOREM EngineInvAlways == EngineSpec => []EngineInv
<1>0. StallTimeout \in Nat \ {0} /\ PasscodeTimeout \in Nat \ {0} /\ MaxCalls \in Nat
  BY EngineAssumption
<1> USE <1>0 DEF Threads, Records
<1>1. EngineInit => EngineInv
  <2> SUFFICES ASSUME EngineInit PROVE EngineInv
    OBVIOUS
  <2> USE DEF EngineInit, NewWatch, NoCall, Call
  <2>1. Shapes
    <3>1. calls \in [Threads -> CallKind]
      BY NewCall DEF Shapes
    <3>2. device \in DeviceKind
      BY DEF DeviceKind
    <3>3. watch \in WatchKind
      BY DEF WatchKind
    <3> QED BY <3>1, <3>2, <3>3 DEF Shapes
  <2>2. CallSteps /\ Encryption /\ Silence
    BY DEF CallSteps, Encryption, Silence
  <2> QED BY <2>1, <2>2 DEF EngineInv
<1>2. EngineInv /\ [EngineNext]_engineVars => EngineInv'
  <2> SUFFICES ASSUME EngineInv, [EngineNext]_engineVars PROVE EngineInv'
    OBVIOUS
  <2> USE DEF EngineInv
  <2>1. ASSUME NEW t \in Threads, Load(t) PROVE EngineInv'
    <3>1. Shapes'
      <4>1. calls' \in [Threads -> CallKind]
        BY <2>1, CallMoves, Words DEF Shapes, Load, Only
      <4>2. UNCHANGED <<device, record, watch, made>>
        BY <2>1 DEF Load, Only
      <4> QED BY <4>1, <4>2 DEF Shapes
    <3>2. CallSteps'
      BY <2>1 DEF Shapes, DeviceKind, CallKind, WatchKind, CallSteps, Load, Leaves, Finds, Only
    <3>3. Encryption'
      BY <2>1 DEF Shapes, DeviceKind, CallKind, WatchKind, Encryption, Load, Leaves, Finds, Only
    <3>4. Silence'
      BY <2>1 DEF Shapes, DeviceKind, CallKind, WatchKind, Silence, Load, Leaves, Finds, Only
    <3> QED BY <3>1, <3>2, <3>3, <3>4
  <2>2. ASSUME NEW t \in Threads, OpenUsb(t) PROVE EngineInv'
    <3>1. Shapes'
      <4>1. calls' \in [Threads -> CallKind]
        <5>1. calls[t].used \in Records
          BY DEF Shapes, CallKind
        <5> QED BY <2>2, <5>1, CallMoves, Words DEF Shapes, OpenUsb
      <4>2. UNCHANGED <<device, record, watch, made>>
        BY <2>2 DEF OpenUsb, Only
      <4> QED BY <4>1, <4>2 DEF Shapes
    <3>2. CallSteps'
      BY <2>2 DEF Shapes, DeviceKind, CallKind, WatchKind, CallSteps, OpenUsb, Opens, Leaves, Only
    <3>3. Encryption'
      BY <2>2 DEF Shapes, DeviceKind, CallKind, WatchKind, Encryption, OpenUsb, Opens, Leaves, Only
    <3>4. Silence'
      BY <2>2 DEF Shapes, DeviceKind, CallKind, WatchKind, Silence, OpenUsb, Opens, Leaves, Only
    <3> QED BY <3>1, <3>2, <3>3, <3>4
  <2>3. ASSUME NEW t \in Threads, OpenFixed(t) PROVE EngineInv'
    <3>1. Shapes'
      <4>1. calls' \in [Threads -> CallKind]
        <5>1. calls[t].used \in Records
          BY DEF Shapes, CallKind
        <5> QED BY <2>3, <5>1, CallMoves, Words DEF Shapes, OpenFixed
      <4>2. UNCHANGED <<device, record, watch, made>>
        BY <2>3 DEF OpenFixed, Only
      <4> QED BY <4>1, <4>2 DEF Shapes
    <3>2. CallSteps'
      BY <2>3 DEF Shapes, DeviceKind, CallKind, WatchKind, CallSteps, OpenFixed, Answers, Opens,
                  Leaves, Only
    <3>3. Encryption'
      BY <2>3 DEF Shapes, DeviceKind, CallKind, WatchKind, Encryption, OpenFixed, Answers, Opens,
                  Leaves, Only
    <3>4. Silence'
      BY <2>3 DEF Shapes, DeviceKind, CallKind, WatchKind, Silence, OpenFixed, Answers, Opens,
                  Leaves, Only
    <3> QED BY <3>1, <3>2, <3>3, <3>4
  <2>4. ASSUME NEW t \in Threads, Browse(t) PROVE EngineInv'
    <3>1. Shapes'
      <4>1. calls' \in [Threads -> CallKind]
        BY <2>4, CallMoves, Words DEF Shapes, Browse, Answers, Only
      <4>2. UNCHANGED <<device, record, watch, made>>
        BY <2>4 DEF Browse, Only
      <4> QED BY <4>1, <4>2 DEF Shapes
    <3>2. CallSteps'
      BY <2>4 DEF Shapes, DeviceKind, CallKind, WatchKind, CallSteps, Browse, Answers, Opens, Leaves,
                  Only
    <3>3. Encryption'
      BY <2>4 DEF Shapes, DeviceKind, CallKind, WatchKind, Encryption, Browse, Answers, Opens,
                  Leaves, Only
    <3>4. Silence'
      BY <2>4 DEF Shapes, DeviceKind, CallKind, WatchKind, Silence, Browse, Answers, Opens, Leaves, Only
    <3> QED BY <3>1, <3>2, <3>3, <3>4
  <2>5. ASSUME NEW t \in Threads, WifiHeartbeat(t) PROVE EngineInv'
    <3>1. Shapes'
      <4>1. calls' \in [Threads -> CallKind]
        BY <2>5, Words DEF Shapes, CallKind, WifiHeartbeat, Only
      <4>2. UNCHANGED <<device, record, watch, made>>
        BY <2>5 DEF WifiHeartbeat, Only
      <4> QED BY <4>1, <4>2 DEF Shapes
    <3>2. CallSteps'
      BY <2>5 DEF Shapes, DeviceKind, CallKind, WatchKind, CallSteps, WifiHeartbeat, Only
    <3>3. Encryption'
      BY <2>5 DEF Shapes, DeviceKind, CallKind, WatchKind, Encryption, WifiHeartbeat, Only
    <3>4. Silence'
      BY <2>5 DEF Shapes, DeviceKind, CallKind, WatchKind, Silence, WifiHeartbeat, Only
    <3> QED BY <3>1, <3>2, <3>3, <3>4
  <2>6. ASSUME NEW t \in Threads, Close(t) PROVE EngineInv'
    <3>1. Shapes'
      <4>1. device' \in DeviceKind
        BY <2>6 DEF Shapes, DeviceKind, Close, Ended, NewWatch, NoCall, Call
      <4>2. record' \in [id : Records, escrow : BOOLEAN]
        BY <2>6 DEF Shapes, Close, Ended, NewWatch, NoCall, Call
      <4>3. calls' \in [Threads -> CallKind]
        BY <2>6, NewCall DEF Shapes, Close, Ended
      <4>4. watch' \in WatchKind
        BY <2>6 DEF Shapes, WatchKind, Close, Ended, NewWatch, NoCall, Call
      <4>5. made' \in 0 .. MaxCalls
        BY <2>6 DEF Shapes, Close, Ended, NewWatch, NoCall, Call
      <4> QED BY <4>1, <4>2, <4>3, <4>4, <4>5 DEF Shapes
    <3>2. CallSteps'
      BY <2>6 DEF Shapes, DeviceKind, CallKind, WatchKind, CallSteps, Close, Ended, NewWatch, NoCall,
                  Call
    <3>3. Encryption'
      BY <2>6 DEF Shapes, DeviceKind, CallKind, WatchKind, Encryption, Close, Ended, NewWatch,
                  NoCall, Call
    <3>4. Silence'
      BY <2>6 DEF Shapes, DeviceKind, CallKind, WatchKind, Silence, Close, Ended, NewWatch, NoCall, Call
    <3> QED BY <3>1, <3>2, <3>3, <3>4
  <2>7. ASSUME NEW op \in ConsumerOps, Begin(op) PROVE EngineInv'
    <3>1. Shapes'
      <4>1. device' \in DeviceKind
        BY <2>7 DEF Shapes, DeviceKind, Begin, Call, ConsumerOps
      <4>2. record' \in [id : Records, escrow : BOOLEAN]
        BY <2>7 DEF Shapes, Begin, Call, ConsumerOps
      <4>3. calls' \in [Threads -> CallKind]
        BY <2>7, NewCall DEF Shapes, Begin
      <4>4. watch' \in WatchKind
        BY <2>7 DEF Shapes, WatchKind, Begin, Call, ConsumerOps
      <4>5. made' \in 0 .. MaxCalls
        BY <2>7 DEF Shapes, Begin, Call, ConsumerOps
      <4> QED BY <4>1, <4>2, <4>3, <4>4, <4>5 DEF Shapes
    <3>2. CallSteps'
      BY <2>7 DEF Shapes, DeviceKind, CallKind, WatchKind, CallSteps, Begin, Call, ConsumerOps
    <3>3. Encryption'
      BY <2>7 DEF Shapes, DeviceKind, CallKind, WatchKind, Encryption, Begin, Call, ConsumerOps
    <3>4. Silence'
      BY <2>7 DEF Shapes, DeviceKind, CallKind, WatchKind, Silence, Begin, Call, ConsumerOps
    <3> QED BY <3>1, <3>2, <3>3, <3>4
  <2>8. ASSUME Pair PROVE EngineInv'
    <3>1. Shapes'
      <4>1. device' \in DeviceKind
        <5>1. CASE device' = device
          BY <5>1 DEF Shapes
        <5>2. CASE device' # device
          <6>1. PICK on \in {device.wifiOn, TRUE} :
                  device' = [device EXCEPT !.trusts = device.trusts \cup {made}, !.wifiOn = on]
            BY <2>8, <5>2 DEF Pair, Shapes, DeviceKind
          <6>2. on \in BOOLEAN /\ device.trusts \cup {made} \in SUBSET (Records \ {0})
            BY <2>8, <6>1 DEF Pair, Is, Shapes, DeviceKind, CallSteps
          <6> HIDE DEF Records
          <6> QED BY <6>1, <6>2 DEF Shapes, DeviceKind
        <5> QED BY <5>1, <5>2
      <4>2. record' \in [id : Records, escrow : BOOLEAN]
        BY <2>8 DEF Shapes, Pair, Is, Leaves
      <4>3. calls' \in [Threads -> CallKind]
        BY <2>8, CallMoves, Words DEF Shapes, Pair, Is
      <4>4. watch' \in WatchKind
        BY <2>8 DEF Shapes, WatchKind, Pair, Is, Leaves
      <4>5. made' \in 0 .. MaxCalls
        BY <2>8 DEF Shapes, Pair, Is, Leaves
      <4> QED BY <4>1, <4>2, <4>3, <4>4, <4>5 DEF Shapes
    <3>2. CallSteps'
      BY <2>8 DEF Shapes, DeviceKind, CallKind, WatchKind, CallSteps, Pair, Is, Leaves
    <3>3. Encryption'
      BY <2>8 DEF Shapes, DeviceKind, CallKind, WatchKind, Encryption, Pair, Is, Leaves
    <3>4. Silence'
      BY <2>8 DEF Shapes, DeviceKind, CallKind, WatchKind, Silence, Pair, Is, Leaves
    <3> QED BY <3>1, <3>2, <3>3, <3>4
  <2>9. ASSUME EnableWifi PROVE EngineInv'
    <3>1. Shapes'
      <4>1. device' \in DeviceKind
        BY <2>9 DEF Shapes, DeviceKind, EnableWifi, Is, Leaves
      <4>2. record' \in [id : Records, escrow : BOOLEAN]
        BY <2>9 DEF Shapes, EnableWifi, Is, Leaves
      <4>3. calls' \in [Threads -> CallKind]
        BY <2>9, CallMoves, Words DEF Shapes, EnableWifi, Is
      <4>4. watch' \in WatchKind
        BY <2>9 DEF Shapes, WatchKind, EnableWifi, Is, Leaves
      <4>5. made' \in 0 .. MaxCalls
        BY <2>9 DEF Shapes, EnableWifi, Is, Leaves
      <4> QED BY <4>1, <4>2, <4>3, <4>4, <4>5 DEF Shapes
    <3>2. CallSteps'
      BY <2>9 DEF Shapes, DeviceKind, CallKind, WatchKind, CallSteps, EnableWifi, Is, Leaves
    <3>3. Encryption'
      BY <2>9 DEF Shapes, DeviceKind, CallKind, WatchKind, Encryption, EnableWifi, Is, Leaves
    <3>4. Silence'
      BY <2>9 DEF Shapes, DeviceKind, CallKind, WatchKind, Silence, EnableWifi, Is, Leaves
    <3> QED BY <3>1, <3>2, <3>3, <3>4
  <2>10. ASSUME ReadEncryption PROVE EngineInv'
    <3>1. Shapes'
      <4>1. calls' \in [Threads -> CallKind]
        BY <2>10, CallMoves, Words DEF Shapes, ReadEncryption, Is, Only
      <4>2. UNCHANGED <<device, record, watch, made>>
        BY <2>10 DEF ReadEncryption, Only
      <4> QED BY <4>1, <4>2 DEF Shapes
    <3>2. CallSteps'
      BY <2>10 DEF Shapes, DeviceKind, CallKind, WatchKind, CallSteps, ReadEncryption, Is, Leaves, Only
    <3>3. Encryption'
      BY <2>10 DEF Shapes, DeviceKind, CallKind, WatchKind, Encryption, ReadEncryption, Is, Leaves, Only
    <3>4. Silence'
      BY <2>10 DEF Shapes, DeviceKind, CallKind, WatchKind, Silence, ReadEncryption, Is, Leaves, Only
    <3> QED BY <3>1, <3>2, <3>3, <3>4
  <2>11. ASSUME ReadCharging PROVE EngineInv'
    <3>1. Shapes'
      <4>1. calls' \in [Threads -> CallKind]
        BY <2>11, CallMoves, Words DEF Shapes, ReadCharging, Is, Only
      <4>2. UNCHANGED <<device, record, watch, made>>
        BY <2>11 DEF ReadCharging, Only
      <4> QED BY <4>1, <4>2 DEF Shapes
    <3>2. CallSteps'
      BY <2>11 DEF Shapes, DeviceKind, CallKind, WatchKind, CallSteps, ReadCharging, Is, Leaves, Only
    <3>3. Encryption'
      BY <2>11 DEF Shapes, DeviceKind, CallKind, WatchKind, Encryption, ReadCharging, Is, Leaves, Only
    <3>4. Silence'
      BY <2>11 DEF Shapes, DeviceKind, CallKind, WatchKind, Silence, ReadCharging, Is, Leaves, Only
    <3> QED BY <3>1, <3>2, <3>3, <3>4
  <2>12. ASSUME DetectSetup PROVE EngineInv'
    <3>1. Shapes'
      <4>1. calls' \in [Threads -> CallKind]
        BY <2>12, CallMoves, Words DEF Shapes, DetectSetup, Is, Only
      <4>2. UNCHANGED <<device, record, watch, made>>
        BY <2>12 DEF DetectSetup, Only
      <4> QED BY <4>1, <4>2 DEF Shapes
    <3>2. CallSteps'
      BY <2>12 DEF Shapes, DeviceKind, CallKind, WatchKind, CallSteps, DetectSetup, Is, Leaves, Only
    <3>3. Encryption'
      BY <2>12 DEF Shapes, DeviceKind, CallKind, WatchKind, Encryption, DetectSetup, Is, Leaves, Only
    <3>4. Silence'
      BY <2>12 DEF Shapes, DeviceKind, CallKind, WatchKind, Silence, DetectSetup, Is, Leaves, Only
    <3> QED BY <3>1, <3>2, <3>3, <3>4
  <2>13. ASSUME Netcheck PROVE EngineInv'
    <3>1. Shapes'
      <4>1. calls' \in [Threads -> CallKind]
        BY <2>13, CallMoves, Words DEF Shapes, Netcheck, Is, Answers, Only
      <4>2. UNCHANGED <<device, record, watch, made>>
        BY <2>13 DEF Netcheck, Only
      <4> QED BY <4>1, <4>2 DEF Shapes
    <3>2. CallSteps'
      BY <2>13 DEF Shapes, DeviceKind, CallKind, WatchKind, CallSteps, Netcheck, Is, Leaves, Opens,
                   Answers, Only
    <3>3. Encryption'
      BY <2>13 DEF Shapes, DeviceKind, CallKind, WatchKind, Encryption, Netcheck, Is, Leaves, Opens,
                   Answers, Only
    <3>4. Silence'
      BY <2>13 DEF Shapes, DeviceKind, CallKind, WatchKind, Silence, Netcheck, Is, Leaves, Opens,
                   Answers, Only
    <3> QED BY <3>1, <3>2, <3>3, <3>4
  <2>14. ASSUME NetcheckService PROVE EngineInv'
    <3>1. Shapes'
      <4>1. calls' \in [Threads -> CallKind]
        BY <2>14, CallMoves, Words DEF Shapes, NetcheckService, Is, Only
      <4>2. UNCHANGED <<device, record, watch, made>>
        BY <2>14 DEF NetcheckService, Only
      <4> QED BY <4>1, <4>2 DEF Shapes
    <3>2. CallSteps'
      BY <2>14 DEF Shapes, DeviceKind, CallKind, WatchKind, CallSteps, NetcheckService, Is, Leaves, Only
    <3>3. Encryption'
      BY <2>14 DEF Shapes, DeviceKind, CallKind, WatchKind, Encryption, NetcheckService, Is, Leaves,
                   Only
    <3>4. Silence'
      BY <2>14 DEF Shapes, DeviceKind, CallKind, WatchKind, Silence, NetcheckService, Is, Leaves, Only
    <3> QED BY <3>1, <3>2, <3>3, <3>4
  <2>15. ASSUME Discover PROVE EngineInv'
    <3>1. Shapes'
      <4>1. calls' \in [Threads -> CallKind]
        BY <2>15, Words DEF Shapes, CallKind, Discover, Is, Goes, Only
      <4>2. UNCHANGED <<device, record, watch, made>>
        BY <2>15 DEF Discover, Only
      <4> QED BY <4>1, <4>2 DEF Shapes
    <3>2. CallSteps'
      BY <2>15 DEF Shapes, DeviceKind, CallKind, WatchKind, CallSteps, Discover, Is, Goes, Only
    <3>3. Encryption'
      BY <2>15 DEF Shapes, DeviceKind, CallKind, WatchKind, Encryption, Discover, Is, Goes, Only
    <3>4. Silence'
      BY <2>15 DEF Shapes, DeviceKind, CallKind, WatchKind, Silence, Discover, Is, Goes, Only
    <3> QED BY <3>1, <3>2, <3>3, <3>4
  <2>16. ASSUME DiscoverWifi PROVE EngineInv'
    <3>1. Shapes'
      <4>1. calls' \in [Threads -> CallKind]
        BY <2>16, Words DEF Shapes, CallKind, DiscoverWifi, Is, Answers, Only
      <4>2. UNCHANGED <<device, record, watch, made>>
        BY <2>16 DEF DiscoverWifi, Only
      <4> QED BY <4>1, <4>2 DEF Shapes
    <3>2. CallSteps'
      BY <2>16 DEF Shapes, DeviceKind, CallKind, WatchKind, CallSteps, DiscoverWifi, Is, Answers, Only
    <3>3. Encryption'
      BY <2>16 DEF Shapes, DeviceKind, CallKind, WatchKind, Encryption, DiscoverWifi, Is, Answers, Only
    <3>4. Silence'
      BY <2>16 DEF Shapes, DeviceKind, CallKind, WatchKind, Silence, DiscoverWifi, Is, Answers, Only
    <3> QED BY <3>1, <3>2, <3>3, <3>4
  <2>17. ASSUME AskWillEncrypt PROVE EngineInv'
    <3>1. Shapes'
      <4>1. calls' \in [Threads -> CallKind]
        BY <2>17, CallMoves, Words DEF Shapes, AskWillEncrypt, Is, Only
      <4>2. UNCHANGED <<device, record, watch, made>>
        BY <2>17 DEF AskWillEncrypt, Only
      <4> QED BY <4>1, <4>2 DEF Shapes
    <3>2. CallSteps'
      BY <2>17 DEF Shapes, DeviceKind, CallKind, WatchKind, CallSteps, AskWillEncrypt, Is, Leaves,
                   Goes, Only
    <3>3. Encryption'
      BY <2>17 DEF Shapes, DeviceKind, CallKind, WatchKind, Encryption, AskWillEncrypt, Is, Leaves,
                   Goes, Only
    <3>4. Silence'
      BY <2>17 DEF Shapes, DeviceKind, CallKind, WatchKind, Silence, AskWillEncrypt, Is, Leaves,
                   Goes, Only
    <3> QED BY <3>1, <3>2, <3>3, <3>4
  <2>18. ASSUME ChangePassword PROVE EngineInv'
    <3>1. Shapes'
      <4>1. device' \in DeviceKind
        BY <2>18 DEF Shapes, DeviceKind, ChangePassword, Is
      <4>2. record' \in [id : Records, escrow : BOOLEAN]
        BY <2>18 DEF Shapes, ChangePassword, Is
      <4>3. calls' \in [Threads -> CallKind]
        BY <2>18, Words DEF Shapes, CallKind, ChangePassword, Is
      <4>4. watch' \in WatchKind
        BY <2>18 DEF Shapes, WatchKind, ChangePassword, Is
      <4>5. made' \in 0 .. MaxCalls
        BY <2>18 DEF Shapes, ChangePassword, Is
      <4> QED BY <4>1, <4>2, <4>3, <4>4, <4>5 DEF Shapes
    <3>2. CallSteps'
      BY <2>18 DEF Shapes, DeviceKind, CallKind, WatchKind, CallSteps, ChangePassword, Is
    <3>3. Encryption'
      BY <2>18 DEF Shapes, DeviceKind, CallKind, WatchKind, Encryption, ChangePassword, Is
    <3>4. Silence'
      BY <2>18 DEF Shapes, DeviceKind, CallKind, WatchKind, Silence, ChangePassword, Is
    <3> QED BY <3>1, <3>2, <3>3, <3>4
  <2>19. ASSUME AskAgain PROVE EngineInv'
    <3>1. Shapes'
      <4>1. calls' \in [Threads -> CallKind]
        BY <2>19, Words DEF Shapes, CallKind, AskAgain, Is, Answers, Only
      <4>2. UNCHANGED <<device, record, watch, made>>
        BY <2>19 DEF AskAgain, Only
      <4> QED BY <4>1, <4>2 DEF Shapes
    <3>2. CallSteps'
      BY <2>19 DEF Shapes, DeviceKind, CallKind, WatchKind, CallSteps, AskAgain, Is, Answers, Only
    <3>3. Encryption'
      BY <2>19 DEF Shapes, DeviceKind, CallKind, WatchKind, Encryption, AskAgain, Is, Answers, Only
    <3>4. Silence'
      BY <2>19 DEF Shapes, DeviceKind, CallKind, WatchKind, Silence, AskAgain, Is, Answers, Only
    <3> QED BY <3>1, <3>2, <3>3, <3>4
  <2>20. ASSUME ReplacePassword PROVE EngineInv'
    <3>1. Shapes'
      <4>1. calls' \in [Threads -> CallKind]
        BY <2>20, CallMoves, Words DEF Shapes, ReplacePassword, Is, Only
      <4>2. UNCHANGED <<device, record, watch, made>>
        BY <2>20 DEF ReplacePassword, Only
      <4> QED BY <4>1, <4>2 DEF Shapes
    <3>2. CallSteps'
      BY <2>20 DEF Shapes, DeviceKind, CallKind, WatchKind, CallSteps, ReplacePassword, Is, Leaves, Only
    <3>3. Encryption'
      BY <2>20 DEF Shapes, DeviceKind, CallKind, WatchKind, Encryption, ReplacePassword, Is, Leaves,
                   Only
    <3>4. Silence'
      BY <2>20 DEF Shapes, DeviceKind, CallKind, WatchKind, Silence, ReplacePassword, Is, Leaves, Only
    <3> QED BY <3>1, <3>2, <3>3, <3>4
  <2>21. ASSUME BeginBackup PROVE EngineInv'
    <3>1. Shapes'
      <4>1. device' \in DeviceKind
        BY <2>21 DEF Shapes, DeviceKind, BeginBackup, Call, NewWatch
      <4>2. record' \in [id : Records, escrow : BOOLEAN]
        BY <2>21 DEF Shapes, BeginBackup, Call, NewWatch
      <4>3. calls' \in [Threads -> CallKind]
        BY <2>21, NewCall DEF Shapes, BeginBackup
      <4>4. watch' \in WatchKind
        BY <2>21 DEF Shapes, WatchKind, BeginBackup, Call, NewWatch
      <4>5. made' \in 0 .. MaxCalls
        BY <2>21 DEF Shapes, BeginBackup, Call, NewWatch
      <4> QED BY <4>1, <4>2, <4>3, <4>4, <4>5 DEF Shapes
    <3>2. CallSteps'
      BY <2>21 DEF Shapes, DeviceKind, CallKind, WatchKind, CallSteps, BeginBackup, Call, NewWatch
    <3>3. Encryption'
      BY <2>21 DEF Shapes, DeviceKind, CallKind, WatchKind, Encryption, BeginBackup, Call, NewWatch
    <3>4. Silence'
      BY <2>21 DEF Shapes, DeviceKind, CallKind, WatchKind, Silence, BeginBackup, Call, NewWatch
    <3> QED BY <3>1, <3>2, <3>3, <3>4
  <2>22. ASSUME AskEncrypted PROVE EngineInv'
    <3>1. Shapes'
      <4>1. calls' \in [Threads -> CallKind]
        BY <2>22, CallMoves, Words DEF Shapes, AskEncrypted, Is, Only
      <4>2. UNCHANGED <<device, record, watch, made>>
        BY <2>22 DEF AskEncrypted, Only
      <4> QED BY <4>1, <4>2 DEF Shapes
    <3>2. CallSteps'
      BY <2>22 DEF Shapes, DeviceKind, CallKind, WatchKind, CallSteps, AskEncrypted, Is, Goes,
                   Leaves, Only
    <3>3. Encryption'
      BY <2>22 DEF Shapes, DeviceKind, CallKind, WatchKind, Encryption, AskEncrypted, Is, Goes,
                   Leaves, Only
    <3>4. Silence'
      BY <2>22 DEF Shapes, DeviceKind, CallKind, WatchKind, Silence, AskEncrypted, Is, Goes, Leaves,
                   Only
    <3> QED BY <3>1, <3>2, <3>3, <3>4
  <2>23. ASSUME ReportProgress PROVE EngineInv'
    <3>1. Shapes'
      <4>1. device' \in DeviceKind
        BY <2>23 DEF Shapes, DeviceKind, ReportProgress, Is
      <4>2. record' \in [id : Records, escrow : BOOLEAN]
        BY <2>23 DEF Shapes, ReportProgress, Is
      <4>3. calls' \in [Threads -> CallKind]
        BY <2>23, CallMoves, Words DEF Shapes, ReportProgress, Is
      <4>4. watch' \in WatchKind
        BY <2>23 DEF Shapes, WatchKind, ReportProgress, Is
      <4>5. made' \in 0 .. MaxCalls
        BY <2>23 DEF Shapes, ReportProgress, Is
      <4> QED BY <4>1, <4>2, <4>3, <4>4, <4>5 DEF Shapes
    <3>2. CallSteps'
      BY <2>23 DEF Shapes, DeviceKind, CallKind, WatchKind, CallSteps, ReportProgress, Is
    <3>3. Encryption'
      BY <2>23 DEF Shapes, DeviceKind, CallKind, WatchKind, Encryption, ReportProgress, Is
    <3>4. Silence'
      BY <2>23 DEF Shapes, DeviceKind, CallKind, WatchKind, Silence, ReportProgress, Is
    <3> QED BY <3>1, <3>2, <3>3, <3>4
  <2>24. ASSUME TransferEnds PROVE EngineInv'
    <3>1. Shapes'
      <4>1. calls' \in [Threads -> CallKind]
        BY <2>24, CallMoves, Words DEF Shapes, TransferEnds, Is, Only
      <4>2. UNCHANGED <<device, record, watch, made>>
        BY <2>24 DEF TransferEnds, Only
      <4> QED BY <4>1, <4>2 DEF Shapes
    <3>2. CallSteps'
      BY <2>24 DEF Shapes, DeviceKind, CallKind, WatchKind, CallSteps, TransferEnds, Is, Leaves, Only
    <3>3. Encryption'
      BY <2>24 DEF Shapes, DeviceKind, CallKind, WatchKind, Encryption, TransferEnds, Is, Leaves, Only
    <3>4. Silence'
      BY <2>24 DEF Shapes, DeviceKind, CallKind, WatchKind, Silence, TransferEnds, Is, Leaves, Only
    <3> QED BY <3>1, <3>2, <3>3, <3>4
  <2>25. ASSUME BeginWatching PROVE EngineInv'
    <3>1. Shapes'
      <4>1. device' \in DeviceKind
        BY <2>25 DEF Shapes, DeviceKind, BeginWatching, BackupGoesOn
      <4>2. record' \in [id : Records, escrow : BOOLEAN]
        BY <2>25 DEF Shapes, BeginWatching, BackupGoesOn
      <4>3. calls' \in [Threads -> CallKind]
        BY <2>25, CallMoves, Words DEF Shapes, BeginWatching, BackupGoesOn
      <4>4. watch' \in WatchKind
        <5>1. PICK zero \in 0 .. StallTimeout : zero = 0
          OBVIOUS
        <5>2. watch' = [watch EXCEPT !.watching = TRUE, !.moved = FALSE, !.window = zero]
          BY <2>25, <5>1 DEF BeginWatching
        <5> QED BY <5>2 DEF Shapes, WatchKind
      <4>5. made' \in 0 .. MaxCalls
        BY <2>25 DEF Shapes, BeginWatching, BackupGoesOn
      <4> QED BY <4>1, <4>2, <4>3, <4>4, <4>5 DEF Shapes
    <3>2. CallSteps'
      BY <2>25 DEF Shapes, DeviceKind, CallKind, WatchKind, CallSteps, BeginWatching, BackupGoesOn
    <3>3. Encryption'
      BY <2>25 DEF Shapes, DeviceKind, CallKind, WatchKind, Encryption, BeginWatching, BackupGoesOn
    <3>4. Silence'
      BY <2>25 DEF Shapes, DeviceKind, CallKind, WatchKind, Silence, BeginWatching, BackupGoesOn
    <3> QED BY <3>1, <3>2, <3>3, <3>4
  <2>26. ASSUME NotConfirmed PROVE EngineInv'
    <3>1. Shapes'
      <4>1. calls' \in [Threads -> CallKind]
        BY <2>26, CallMoves, Words DEF Shapes, NotConfirmed, BackupGoesOn, Only
      <4>2. UNCHANGED <<device, record, watch, made>>
        BY <2>26 DEF NotConfirmed, Only
      <4> QED BY <4>1, <4>2 DEF Shapes
    <3>2. CallSteps'
      BY <2>26 DEF Shapes, DeviceKind, CallKind, WatchKind, CallSteps, NotConfirmed, BackupGoesOn,
         Leaves,
                   Only
    <3>3. Encryption'
      BY <2>26 DEF Shapes, DeviceKind, CallKind, WatchKind, Encryption, NotConfirmed, BackupGoesOn,
                   Leaves, Only
    <3>4. Silence'
      BY <2>26 DEF Shapes, DeviceKind, CallKind, WatchKind, Silence, NotConfirmed, BackupGoesOn, Leaves,
         Only
    <3> QED BY <3>1, <3>2, <3>3, <3>4
  <2>27. ASSUME WindowEnds PROVE EngineInv'
    <3>1. Shapes'
      <4>1. device' \in DeviceKind
        BY <2>27 DEF Shapes, DeviceKind, WindowEnds, BackupGoesOn, Leaves
      <4>2. record' \in [id : Records, escrow : BOOLEAN]
        BY <2>27 DEF Shapes, WindowEnds, BackupGoesOn, Leaves
      <4>3. calls' \in [Threads -> CallKind]
        BY <2>27, CallMoves, Words DEF Shapes, WindowEnds, BackupGoesOn
      <4>4. watch' \in WatchKind
        <5>1. CASE watch.moved
          <6>1. PICK zero \in 0 .. StallTimeout : zero = 0
            OBVIOUS
          <6>2. watch' = [watch EXCEPT !.moved = FALSE, !.window = zero]
            BY <2>27, <5>1, <6>1 DEF WindowEnds
          <6> QED BY <6>2 DEF Shapes, WatchKind
        <5>2. CASE ~watch.moved
          BY <2>27, <5>2 DEF Shapes, WindowEnds
        <5> QED BY <5>1, <5>2
      <4>5. made' \in 0 .. MaxCalls
        BY <2>27 DEF Shapes, WindowEnds, BackupGoesOn, Leaves
      <4> QED BY <4>1, <4>2, <4>3, <4>4, <4>5 DEF Shapes
    <3>2. CallSteps'
      BY <2>27 DEF Shapes, DeviceKind, CallKind, WatchKind, CallSteps, WindowEnds, BackupGoesOn, Leaves
    <3>3. Encryption'
      BY <2>27 DEF Shapes, DeviceKind, CallKind, WatchKind, Encryption, WindowEnds, BackupGoesOn, Leaves
    <3>4. Silence'
      <4>1. CASE watch.moved
        <5>1. /\ ~watch'.moved /\ watch'.window = 0 /\ watch'.silence = watch.silence
              /\ watch'.watching = watch.watching /\ UNCHANGED calls
          BY <2>27, <4>1 DEF Shapes, WatchKind, WindowEnds
        <5>2. watch.silence \in 0 .. StallTimeout
          BY <2>27, <4>1 DEF Shapes, WatchKind, Silence, WindowEnds
        <5> QED BY <2>27, <5>1, <5>2 DEF Silence, WindowEnds, BackupGoesOn
      <4>2. CASE ~watch.moved
        BY <2>27, <4>2 DEF Shapes, WatchKind, Silence, WindowEnds, BackupGoesOn, Leaves
      <4> QED BY <4>1, <4>2
    <3> QED BY <3>1, <3>2, <3>3, <3>4
  <2>28. ASSUME TimePasses PROVE EngineInv'
    <3>1. Shapes'
      <4>1. device' \in DeviceKind
        BY <2>28 DEF Shapes, DeviceKind, TimePasses, BackupGoesOn
      <4>2. record' \in [id : Records, escrow : BOOLEAN]
        BY <2>28 DEF Shapes, TimePasses, BackupGoesOn
      <4>3. calls' \in [Threads -> CallKind]
        BY <2>28, CallMoves, Words DEF Shapes, TimePasses, BackupGoesOn
      <4>4. watch' \in WatchKind
        <5>1. CASE watch.begun
          <6>1. watch.window + 1 \in 0 .. StallTimeout /\ watch.silence + 1 \in Nat
            BY <2>28 DEF Shapes, WatchKind, TimePasses
          <6>2. watch' = [watch EXCEPT !.window = watch.window + 1, !.silence = watch.silence + 1]
            BY <2>28, <5>1 DEF TimePasses, Shapes, WatchKind
          <6> QED BY <6>1, <6>2 DEF Shapes, WatchKind
        <5>2. CASE ~watch.begun
          <6>1. watch.waited + 1 \in 0 .. PasscodeTimeout
            BY <2>28, <5>2 DEF Shapes, WatchKind, TimePasses
          <6>2. watch' = [watch EXCEPT !.waited = watch.waited + 1]
            BY <2>28, <5>2 DEF TimePasses, Shapes, WatchKind
          <6> QED BY <6>1, <6>2 DEF Shapes, WatchKind
        <5> QED BY <5>1, <5>2
      <4>5. made' \in 0 .. MaxCalls
        BY <2>28 DEF Shapes, TimePasses, BackupGoesOn
      <4> QED BY <4>1, <4>2, <4>3, <4>4, <4>5 DEF Shapes
    <3>2. CallSteps'
      BY <2>28 DEF Shapes, DeviceKind, CallKind, WatchKind, CallSteps, TimePasses, BackupGoesOn
    <3>3. Encryption'
      BY <2>28 DEF Shapes, DeviceKind, CallKind, WatchKind, Encryption, TimePasses, BackupGoesOn
    <3>4. Silence'
      BY <2>28 DEF Shapes, DeviceKind, CallKind, WatchKind, Silence, TimePasses, BackupGoesOn
    <3> QED BY <3>1, <3>2, <3>3, <3>4
  <2>29. ASSUME DeviceChanges PROVE EngineInv'
    <3>1. Shapes'
      <4>1. device' \in DeviceKind
        BY <2>29 DEF Shapes, DeviceKind, DeviceChanges, Uses
      <4>2. record' \in [id : Records, escrow : BOOLEAN]
        BY <2>29 DEF Shapes, DeviceChanges, Uses
      <4>3. calls' \in [Threads -> CallKind]
        BY <2>29, CallMoves, Words DEF Shapes, DeviceChanges, Uses
      <4>4. watch' \in WatchKind
        BY <2>29 DEF Shapes, WatchKind, DeviceChanges, Uses
      <4>5. made' \in 0 .. MaxCalls
        BY <2>29 DEF Shapes, DeviceChanges, Uses
      <4> QED BY <4>1, <4>2, <4>3, <4>4, <4>5 DEF Shapes
    <3>2. CallSteps'
      BY <2>29 DEF Shapes, DeviceKind, CallKind, WatchKind, CallSteps, DeviceChanges, Uses
    <3>3. Encryption'
      BY <2>29 DEF Shapes, DeviceKind, CallKind, WatchKind, Encryption, DeviceChanges, Uses
    <3>4. Silence'
      BY <2>29 DEF Shapes, DeviceKind, CallKind, WatchKind, Silence, DeviceChanges, Uses
    <3> QED BY <3>1, <3>2, <3>3, <3>4
  <2>30. CASE UNCHANGED engineVars
    BY <2>30 DEF engineVars, Shapes, CallSteps, Encryption, Silence
  <2> QED BY <2>1, <2>2, <2>3, <2>4, <2>5, <2>6, <2>7, <2>8, <2>9, <2>10, <2>11, <2>12, <2>13, <2>14,
             <2>15, <2>16, <2>17, <2>18, <2>19, <2>20, <2>21, <2>22, <2>23, <2>24, <2>25, <2>26, <2>27,
             <2>28, <2>29, <2>30 DEF EngineNext, Connecting
<1> QED BY <1>1, <1>2, PTL DEF EngineSpec

(* base.py, pmd3.py:_connect, _wifi_heartbeat, backup: a call that ended   *)
(* left nothing open, and the watchdog neither cuts a backup off early nor *)
(* waits longer than two windows.                                          *)
THEOREM CallsInvAlways == EngineSpec => []CallsInv
<1>1. EngineInv => CallsInv
  <2> SUFFICES ASSUME EngineInv PROVE CallsInv
    OBVIOUS
  <2> USE EngineAssumption DEF EngineInv
  <2>1. EngineTypeOK
    <3>1. record \in [id : Records, escrow : BOOLEAN] /\ made \in 0 .. MaxCalls
      BY DEF Shapes
    <3>2. device.trusts \subseteq Records
      BY DEF Shapes, DeviceKind
    <3>3. watch.waited <= PasscodeTimeout
      BY DEF Shapes, WatchKind
    <3>4. \A t \in Threads : calls[t].used \in Records
      BY DEF Shapes, CallKind
    <3>5. \A t \in Threads : calls[t].conn # "none" /\ calls[t].op # "discover" => calls[t].used # 0
      BY DEF CallSteps
    <3> QED BY <3>1, <3>2, <3>3, <3>4, <3>5 DEF EngineTypeOK
  <2>2. NothingLeftOpen
    BY DEF CallSteps, NothingLeftOpen, NoCall, Call
  <2>3. StallBounds
    BY DEF Silence, StallBounds, Shapes, WatchKind
  <2> QED BY <2>1, <2>2, <2>3 DEF CallsInv
<1> QED BY <1>1, EngineInvAlways, PTL

(* pmd3.py:enable_encryption, _will_encrypt_now: "done" is true, and an    *)
(* applied change is not reported as failed by a device that was asked.    *)
THEOREM AnswerIsTrueAlways == EngineSpec => []AnswerIsTrue
<1>1. EngineInv => AnswerIsTrue
  BY DEF EngineInv, Encryption, AnswerIsTrue, Is
<1> QED BY <1>1, EngineInvAlways, PTL
=============================================================================
