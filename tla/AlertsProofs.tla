---------------------------- MODULE AlertsProofs ----------------------------
(***************************************************************************)
(* Theorems about Alerts, for any number of devices, users, subscriptions  *)
(* and alerts, any cooldown and any reach of a push.                       *)
(***************************************************************************)
EXTENDS Alerts, TLAPS

(***************************************************************************)
(* What the threads of one worker are to each other: every alert has one   *)
(* thread, at most one of a device's holds its lock, and a thread about    *)
(* the volume is never where only a device's thread goes.                  *)
(***************************************************************************)
Numbered ==
  /\ \A t \in threads : t.id <= raised
  /\ \A t, u \in threads : t.id = u.id => t = u

OneHolder == \A t, u \in threads : Holds(t) /\ Holds(u) /\ t.about = u.about => t = u

VolumePhases ==
  \A t \in threads : ~ForDevice(t) =>
    /\ t.phase \notin {"locking", "recording"}
    /\ t.phase # "reading" => t.read # Never

(* Between the send and the write of the verdict the thread holds the      *)
(* outcome itself; at every other moment the row has it.                   *)
InHand ==
  \A t \in threads : t.phase = "recording" => lastSend[t.about] = [by |-> t.id, ok |-> t.ok]

OnPage ==
  \A d \in devices :
    (\A t \in threads : t.phase = "recording" => t.about # d) => verdict[d] = lastSend[d]

(* A thread that may still try a browser has recorded no outcome; whoever  *)
(* received its alert it counts as reached. What it is about to record is  *)
(* what happened.                                                          *)
Trying(t) == t.phase # "stamping" /\ (t.phase = "delivering" => t.todo # {})

Counted ==
  \A t \in threads :
    /\ t.phase # "delivering" => t.todo \cup t.reached \cup t.missed = {}
    /\ \A u \in t.reached \cup t.missed : u \in t.reached <=> <<t.id, u>> \in delivered
    /\ Trying(t) => \A u \in Users :
         pushVerdict[u].by # t.id /\ (<<t.id, u>> \in delivered => u \in t.reached)

RaisedBefore ==
  /\ \A u \in Users : pushVerdict[u].by <= raised
  /\ \A p \in delivered : p[1] <= raised

ThreadsInv ==
  /\ TypeOK
  /\ Numbered /\ OneHolder /\ VolumePhases
  /\ InHand /\ OnPage
  /\ Counted /\ RaisedBefore /\ PushVerdictHonest

(* Every thread's fields, as the steps below use them.                     *)
LEMMA ThreadFields ==
  ASSUME TypeOK, NEW t \in threads
  PROVE  /\ t \in Thread
         /\ t.id \in Ids /\ t.about \in Devices \cup {Volume} /\ t.ok \in BOOLEAN
         /\ t.read \in Times /\ t.todo \in SUBSET Subscriptions
         /\ t.reached \in SUBSET Users /\ t.missed \in SUBSET Users
BY DEF TypeOK, Thread

(* What one thread does to itself leaves the others theirs.                *)
LEMMA OneMoves ==
  ASSUME Numbered, OneHolder, VolumePhases,
         NEW t \in threads, NEW w,
         Becomes(t, w), raised' = raised,
         w.id = t.id, w.about = t.about,
         Holds(w) => Holds(t) \/ \A u \in threads : Holds(u) => u.about # t.about,
         ~ForDevice(w) => /\ w.phase \notin {"locking", "recording"}
                          /\ w.phase # "reading" => w.read # Never
  PROVE  Numbered' /\ OneHolder' /\ VolumePhases'
<1>1. threads' = (threads \ {t}) \cup {w}
  BY DEF Becomes
<1>2. Numbered'
  BY <1>1 DEF Numbered
<1>3. OneHolder'
  BY <1>1 DEF OneHolder
<1>4. VolumePhases'
  BY <1>1 DEF VolumePhases
<1> QED BY <1>2, <1>3, <1>4

(* A step that touches neither the outcomes nor the browsers, and does not *)
(* go back to trying.                                                      *)
LEMMA CountsStay ==
  ASSUME Counted, RaisedBefore, PushVerdictHonest,
         NEW t \in threads, NEW w,
         Becomes(t, w), UNCHANGED <<pushVerdict, delivered, raised>>,
         w.id = t.id, w.phase # "delivering",
         w.todo \cup w.reached \cup w.missed = {},
         t.todo \cup t.reached \cup t.missed = {},
         Trying(w) => Trying(t)
  PROVE  Counted' /\ RaisedBefore' /\ PushVerdictHonest'
<1>1. threads' = (threads \ {t}) \cup {w}
  BY DEF Becomes
<1>2. Counted'
  <2> SUFFICES ASSUME NEW u \in threads'
               PROVE  /\ u.phase # "delivering" => u.todo \cup u.reached \cup u.missed = {}
                      /\ \A v \in u.reached \cup u.missed : v \in u.reached <=> <<u.id, v>> \in delivered
                      /\ Trying(u) => \A v \in Users :
                           /\ pushVerdict[v].by # u.id
                           /\ <<u.id, v>> \in delivered => v \in u.reached
    BY DEF Counted
  <2>1. CASE u \in threads
    BY <2>1 DEF Counted
  <2>2. CASE u = w
    <3>1. \A v : v \notin u.reached \cup u.missed
      BY <2>2
    <3>2. Trying(u) => \A v \in Users : pushVerdict[v].by # t.id /\ (<<t.id, v>> \in delivered => v \in t.reached)
      BY <2>2 DEF Counted
    <3> QED BY <2>2, <3>1, <3>2
  <2> QED BY <1>1, <2>1, <2>2
<1>3. RaisedBefore' /\ PushVerdictHonest'
  BY DEF RaisedBefore, PushVerdictHonest
<1> QED BY <1>2, <1>3

(* A thread that ends takes nothing with it that a page still needs.       *)
LEMMA OneEnds ==
  ASSUME ThreadsInv, NEW t \in threads, Ends(t), t.phase # "recording",
         UNCHANGED <<devices, verdict, pushVerdict, raised, lastSend, delivered>>
  PROVE  /\ Numbered' /\ OneHolder' /\ VolumePhases' /\ InHand' /\ OnPage'
         /\ Counted' /\ RaisedBefore' /\ PushVerdictHonest'
<1>1. threads' = threads \ {t}
  BY DEF Ends
<1>2. Numbered' /\ OneHolder' /\ VolumePhases' /\ InHand'
  BY <1>1 DEF ThreadsInv, Numbered, OneHolder, VolumePhases, InHand
<1>3. OnPage'
  BY <1>1 DEF ThreadsInv, OnPage
<1>4. Counted'
  BY <1>1 DEF ThreadsInv, Counted
<1>5. RaisedBefore' /\ PushVerdictHonest'
  BY DEF ThreadsInv, RaisedBefore, PushVerdictHonest
<1> QED BY <1>2, <1>3, <1>4, <1>5

(* Nor does a step that neither begins nor ends a send.                    *)
LEMMA PageStays ==
  ASSUME InHand, OnPage, NEW t \in threads, NEW w,
         Becomes(t, w), UNCHANGED <<devices, verdict, lastSend>>,
         t.phase # "recording", w.phase # "recording"
  PROVE  InHand' /\ OnPage'
<1>1. threads' = (threads \ {t}) \cup {w}
  BY DEF Becomes
<1>2. InHand'
  BY <1>1 DEF InHand
<1>3. OnPage'
  BY <1>1 DEF OnPage
<1> QED BY <1>2, <1>3

(* Any step of a thread that does not end it keeps the types.              *)
LEMMA TypesStay ==
  ASSUME TypeOK, NEW t \in threads, NEW w \in Thread, Becomes(t, w),
         w.phase = "stamping" => w.about = Volume /\ w.read # Never
  PROVE  /\ threads' \subseteq Thread
         /\ \A u \in threads' : u.phase = "stamping" => u.about = Volume /\ u.read # Never
BY DEF TypeOK, Becomes

(* A step that only moves a thread on, before or after its send.           *)
LEMMA OnlyMoves ==
  ASSUME ThreadsInv, NEW t \in threads, NEW w \in Thread, Becomes(t, w),
         UNCHANGED <<devices, rows, verdict, pushVerdict, stamp, raised, clock,
                     lastSend, delivered, lastStorage>>,
         w.id = t.id, w.about = t.about,
         w.todo = t.todo, w.reached = t.reached, w.missed = t.missed,
         t.todo \cup t.reached \cup t.missed = {},
         t.phase # "recording", w.phase \notin {"recording", "delivering"},
         t.phase # "stamping",
         t.phase = "delivering" => w.phase = "stamping",
         Holds(w) => Holds(t) \/ \A u \in threads : Holds(u) => u.about # t.about,
         ~ForDevice(w) => /\ w.phase # "locking"
                          /\ w.phase # "reading" => w.read # Never,
         w.phase = "stamping" => ~ForDevice(w)
  PROVE  ThreadsInv'
<1>1. Numbered' /\ OneHolder' /\ VolumePhases'
  BY OneMoves DEF ThreadsInv
<1>2. InHand' /\ OnPage'
  BY PageStays DEF ThreadsInv
<1>3. Trying(w) => Trying(t)
  BY DEF Trying
<1>4. Counted' /\ RaisedBefore' /\ PushVerdictHonest'
  BY <1>3, CountsStay DEF ThreadsInv
<1>5. w.phase = "stamping" => w.about = Volume /\ w.read # Never
  BY DEF ForDevice
<1>6. TypeOK'
  BY <1>5, TypesStay DEF ThreadsInv, TypeOK
<1> QED BY <1>1, <1>2, <1>4, <1>6 DEF ThreadsInv

(* The same for a thread that ends.                                        *)
LEMMA OnlyEnds ==
  ASSUME ThreadsInv, NEW t \in threads, Ends(t), t.phase # "recording",
         UNCHANGED <<devices, rows, verdict, pushVerdict, raised, clock,
                     lastSend, delivered, lastStorage>>,
         stamp' \in Times
  PROVE  ThreadsInv'
<1>1. TypeOK'
  BY DEF ThreadsInv, TypeOK, Ends
<1> QED BY <1>1, OneEnds DEF ThreadsInv

LEMMA AfterPushKeeps ==
  ASSUME ThreadsInv, NEW t \in threads, AfterPush(t),
         t.phase = "pushing" \/ t.phase = "delivering",
         t.todo \cup t.reached \cup t.missed = {},
         UNCHANGED <<tables, raised, clock, history>>
  PROVE  ThreadsInv'
<1>1. CASE Ends(t)
  BY <1>1, OnlyEnds DEF ThreadsInv, TypeOK, tables, history
<1>2. CASE ~ForDevice(t) /\ Moves(t, "stamping")
  <2> DEFINE w == [t EXCEPT !.phase = "stamping"]
  <2>1. t \in Thread
    BY DEF ThreadsInv, TypeOK
  <2>2. /\ w \in Thread /\ Becomes(t, w)
        /\ w.id = t.id /\ w.about = t.about /\ w.read = t.read /\ w.phase = "stamping"
        /\ w.todo = t.todo /\ w.reached = t.reached /\ w.missed = t.missed
    BY <1>2, <2>1 DEF Thread, Moves
  <2> HIDE DEF w
  <2>3. t.read # Never
    BY <1>2 DEF ThreadsInv, VolumePhases
  <2> QED BY <1>2, <2>2, <2>3, OnlyMoves DEF Holds, ForDevice, tables, history
<1> QED BY <1>1, <1>2 DEF AfterPush

LEMMA ReadDeviceKeeps ==
  ASSUME ThreadsInv, NEW t \in threads, ReadDevice(t)
  PROVE  ThreadsInv'
<1>1. t.todo \cup t.reached \cup t.missed = {}
  BY DEF ThreadsInv, Counted, ReadDevice
<1>2. CASE Ends(t)
  BY <1>2, OnlyEnds DEF ThreadsInv, TypeOK, tables, history, ReadDevice
<1>3. CASE \E next \in {"locking", "pushing"} : Moves(t, next)
  <2>1. PICK next \in {"locking", "pushing"} : Moves(t, next)
    BY <1>3
  <2> DEFINE w == [t EXCEPT !.phase = next]
  <2>2. t \in Thread
    BY DEF ThreadsInv, TypeOK
  <2>3. /\ w \in Thread /\ Becomes(t, w)
        /\ w.id = t.id /\ w.about = t.about /\ w.read = t.read /\ w.phase = next
        /\ w.todo = t.todo /\ w.reached = t.reached /\ w.missed = t.missed
    BY <2>1, <2>2 DEF Thread, Moves
  <2> HIDE DEF w
  <2> QED BY <1>1, <2>3, OnlyMoves DEF Holds, ForDevice, tables, history, ReadDevice
<1> QED BY <1>2, <1>3 DEF ReadDevice

LEMMA ReadStampKeeps ==
  ASSUME ThreadsInv, NEW t \in threads, ReadStamp(t)
  PROVE  ThreadsInv'
<1>1. t.todo \cup t.reached \cup t.missed = {}
  BY DEF ThreadsInv, Counted, ReadStamp
<1>2. CASE Ends(t)
  BY <1>2, OnlyEnds DEF ThreadsInv, TypeOK, tables, history, ReadStamp
<1>3. CASE \E next \in {"sending", "pushing"} :
             Becomes(t, [t EXCEPT !.phase = next, !.read = clock])
  <2>1. PICK next \in {"sending", "pushing"} : Becomes(t, [t EXCEPT !.phase = next, !.read = clock])
    BY <1>3
  <2>a. PICK now \in 0 .. MaxClock : now = clock
    BY DEF ThreadsInv, TypeOK
  <2> DEFINE w == [t EXCEPT !.phase = next, !.read = now]
  <2>2. t \in Thread
    BY DEF ThreadsInv, TypeOK
  <2>3. /\ w \in Thread
        /\ w.id = t.id /\ w.about = t.about /\ w.read = now /\ w.phase = next
        /\ w.todo = t.todo /\ w.reached = t.reached /\ w.missed = t.missed
    BY <2>2 DEF Thread, Times
  <2>4. Becomes(t, w)
    BY <2>1, <2>a
  <2> HIDE DEF w
  <2>5. now # Never
    BY DEF Never
  <2> QED BY <1>1, <2>3, <2>4, <2>5, OnlyMoves DEF Holds, ForDevice, tables, history, ReadStamp
<1> QED BY <1>2, <1>3 DEF ReadStamp

LEMMA TakeLockKeeps ==
  ASSUME ThreadsInv, NEW t \in threads, TakeLock(t)
  PROVE  ThreadsInv'
<1>1. t.todo \cup t.reached \cup t.missed = {} /\ ForDevice(t)
  BY DEF ThreadsInv, Counted, VolumePhases, TakeLock
<1> DEFINE w == [t EXCEPT !.phase = "sending"]
<1>2. t \in Thread
  BY DEF ThreadsInv, TypeOK
<1>3. /\ w \in Thread /\ Becomes(t, w)
      /\ w.id = t.id /\ w.about = t.about /\ w.read = t.read /\ w.phase = "sending"
      /\ w.todo = t.todo /\ w.reached = t.reached /\ w.missed = t.missed
  BY <1>2 DEF Thread, Moves, TakeLock
<1> HIDE DEF w
<1> QED BY <1>1, <1>3, OnlyMoves DEF ForDevice, tables, history, TakeLock

(* The send that returned is its thread's until the row has it; the lock   *)
(* keeps every other send about the device away meanwhile.                 *)
LEMMA SendReturnsKeeps ==
  ASSUME ThreadsInv, NEW t \in threads, SendReturns(t)
  PROVE  ThreadsInv'
<1> DEFINE next == IF ForDevice(t) THEN "recording" ELSE "pushing"
<1>1. PICK ok \in BOOLEAN :
        /\ Becomes(t, [t EXCEPT !.ok = ok, !.phase = next])
        /\ lastSend' = IF ForDevice(t) THEN [lastSend EXCEPT ![t.about] = [by |-> t.id, ok |-> ok]]
                       ELSE lastSend
        /\ lastStorage' = IF ok /\ ~ForDevice(t) THEN t.read ELSE lastStorage
  BY DEF SendReturns
<1> DEFINE w == [t EXCEPT !.ok = ok, !.phase = next]
<1>2. t \in Thread /\ t.id \in Ids /\ t.read \in Times
  BY ThreadFields DEF ThreadsInv
<1>3. /\ w \in Thread /\ Becomes(t, w)
      /\ w.id = t.id /\ w.about = t.about /\ w.read = t.read /\ w.phase = next /\ w.ok = ok
      /\ w.todo = t.todo /\ w.reached = t.reached /\ w.missed = t.missed
  BY <1>1, <1>2 DEF Thread
<1> HIDE DEF w
<1>4. t.todo \cup t.reached \cup t.missed = {} /\ t.phase = "sending"
  BY DEF ThreadsInv, Counted, SendReturns
<1>5. UNCHANGED <<devices, rows, verdict, pushVerdict, stamp, raised, clock, delivered>>
  BY DEF SendReturns, tables
<1>6. Numbered' /\ OneHolder' /\ VolumePhases'
  <2>1. Holds(w) => Holds(t)
    BY <1>3, <1>4 DEF Holds, ForDevice
  <2>2. ~ForDevice(w) => w.phase = "pushing" /\ w.read # Never
    BY <1>3, <1>4 DEF ForDevice, ThreadsInv, VolumePhases
  <2> QED BY <1>3, <1>5, <2>1, <2>2, OneMoves DEF ThreadsInv
<1>7. Counted' /\ RaisedBefore' /\ PushVerdictHonest'
  BY <1>3, <1>4, <1>5, CountsStay DEF ThreadsInv, Trying
<1>8. threads' = (threads \ {t}) \cup {w}
  BY <1>3 DEF Becomes
<1>9. CASE ~ForDevice(t)
  <2>1. lastSend' = lastSend /\ w.phase # "recording" /\ next = "pushing"
    BY <1>1, <1>3, <1>9
  <2>2. InHand' /\ OnPage'
    BY <1>3, <1>4, <1>5, <2>1, PageStays DEF ThreadsInv
  <2>3. TypeOK'
    BY <1>1, <1>2, <1>3, <1>5, <2>1, TypesStay DEF ThreadsInv, TypeOK
  <2> QED BY <1>6, <1>7, <2>2, <2>3 DEF ThreadsInv
<1>10. CASE ForDevice(t)
  <2> DEFINE v == [by |-> t.id, ok |-> ok]
  <2>1. v \in Verdicts
    BY <1>2 DEF Verdicts
  <2>2. /\ lastSend' = [lastSend EXCEPT ![t.about] = v]
        /\ w.phase = "recording" /\ lastStorage' = lastStorage
    BY <1>1, <1>3, <1>10
  <2>3. v = [by |-> w.id, ok |-> w.ok]
    BY <1>3
  <2> HIDE DEF v
  <2>4. t.about \in Devices
    BY <1>2, <1>10 DEF Thread, ForDevice
  <2>5. lastSend \in [Devices -> Verdicts]
    BY DEF ThreadsInv, TypeOK
  <2>6. /\ lastSend' \in [Devices -> Verdicts] /\ lastSend'[t.about] = v
        /\ \A d \in Devices : d # t.about => lastSend'[d] = lastSend[d]
    BY <2>1, <2>2, <2>4, <2>5
  <2>7. TypeOK'
    BY <1>3, <1>5, <2>2, <2>6, TypesStay DEF ThreadsInv, TypeOK
  <2>8. InHand'
    <3> SUFFICES ASSUME NEW u \in threads, u # t, u.phase = "recording"
                 PROVE  lastSend'[u.about] = [by |-> u.id, ok |-> u.ok]
      BY <1>3, <1>8, <2>3, <2>6 DEF InHand
    <3>1. ForDevice(u) /\ Holds(u) /\ Holds(t)
      BY <1>4, <1>10 DEF ThreadsInv, VolumePhases, Holds
    <3>2. u.about # t.about
      BY <3>1 DEF ThreadsInv, OneHolder
    <3>3. u.about \in Devices
      BY <3>1, ThreadFields DEF ForDevice, ThreadsInv
    <3> QED BY <2>6, <3>2, <3>3 DEF ThreadsInv, InHand
  <2>9. OnPage'
    <3> SUFFICES ASSUME NEW d \in devices,
                        \A u \in threads' : u.phase = "recording" => u.about # d
                 PROVE  verdict[d] = lastSend'[d]
      BY <1>5 DEF OnPage
    <3>1. d # t.about
      BY <1>3, <1>8, <2>2
    <3>2. \A u \in threads : u.phase = "recording" => u.about # d
      BY <1>4, <1>8
    <3>3. d \in Devices
      BY DEF ThreadsInv, TypeOK
    <3> QED BY <2>6, <3>1, <3>2, <3>3 DEF ThreadsInv, OnPage
  <2> QED BY <1>6, <1>7, <2>7, <2>8, <2>9 DEF ThreadsInv
<1> QED BY <1>9, <1>10

LEMMA RecordKeeps ==
  ASSUME ThreadsInv, NEW t \in threads, Record(t)
  PROVE  ThreadsInv'
<1> DEFINE w == [t EXCEPT !.phase = "pushing"]
           v == [by |-> t.id, ok |-> t.ok]
<1>1. t \in Thread /\ t.id \in Ids /\ t.ok \in BOOLEAN /\ t.about \in Devices \cup {Volume}
  BY ThreadFields DEF ThreadsInv
<1>2. /\ w \in Thread /\ Becomes(t, w)
      /\ w.id = t.id /\ w.about = t.about /\ w.read = t.read /\ w.phase = "pushing"
      /\ w.todo = t.todo /\ w.reached = t.reached /\ w.missed = t.missed
  BY <1>1 DEF Thread, Record, Moves
<1>3. v \in Verdicts
  BY <1>1 DEF Verdicts
<1>4. verdict' = IF t.about \in devices THEN [verdict EXCEPT ![t.about] = v] ELSE verdict
  BY DEF Record
<1>5. lastSend[t.about] = v
  BY DEF ThreadsInv, InHand, Record
<1> HIDE DEF w, v
<1>6. t.todo \cup t.reached \cup t.missed = {} /\ t.phase = "recording" /\ ForDevice(t)
  BY DEF ThreadsInv, Counted, VolumePhases, Record
<1>7. UNCHANGED <<devices, rows, pushVerdict, stamp, raised, clock, lastSend, delivered, lastStorage>>
  BY DEF Record, history
<1>8. Numbered' /\ OneHolder' /\ VolumePhases'
  BY <1>2, <1>6, <1>7, OneMoves DEF ThreadsInv, Holds, ForDevice
<1>9. Counted' /\ RaisedBefore' /\ PushVerdictHonest'
  BY <1>2, <1>6, <1>7, CountsStay DEF ThreadsInv, Trying
<1>10. threads' = (threads \ {t}) \cup {w}
  BY <1>2 DEF Becomes
<1>11. verdict \in [Devices -> Verdicts] /\ devices \subseteq Devices
  BY DEF ThreadsInv, TypeOK
<1>12. /\ verdict' \in [Devices -> Verdicts]
       /\ t.about \in devices => verdict'[t.about] = v
       /\ \A d \in Devices : d # t.about => verdict'[d] = verdict[d]
  BY <1>3, <1>4, <1>11
<1>13. TypeOK'
  BY <1>2, <1>7, <1>12, TypesStay DEF ThreadsInv, TypeOK
<1>14. InHand'
  BY <1>2, <1>7, <1>10 DEF ThreadsInv, InHand
<1>15. OnPage'
  <2> SUFFICES ASSUME NEW d \in devices,
                      \A u \in threads' : u.phase = "recording" => u.about # d
               PROVE  verdict'[d] = lastSend[d]
    BY <1>7 DEF OnPage
  <2>1. CASE d = t.about
    BY <1>5, <1>12, <2>1
  <2>2. CASE d # t.about
    <3>1. \A u \in threads : u.phase = "recording" => u.about # d
      BY <1>10, <2>2
    <3> QED BY <1>11, <1>12, <2>2, <3>1 DEF ThreadsInv, OnPage
  <2> QED BY <2>1, <2>2
<1> QED BY <1>8, <1>9, <1>13, <1>14, <1>15 DEF ThreadsInv

(* The parts an outcome is counted by, for a step of one thread.           *)
LEMMA CountsFor ==
  ASSUME ThreadsInv, NEW t \in threads, NEW w, Becomes(t, w), w.id = t.id,
         w.phase = "delivering",
         \A u \in threads : u # t => \A v \in Users :
           /\ <<u.id, v>> \in delivered' <=> <<u.id, v>> \in delivered
           /\ pushVerdict'[v].by = u.id => pushVerdict[v].by = u.id,
         \A v \in w.reached \cup w.missed : v \in w.reached <=> <<w.id, v>> \in delivered',
         w.todo # {} => \A v \in Users :
           pushVerdict'[v].by # w.id /\ (<<w.id, v>> \in delivered' => v \in w.reached)
  PROVE  Counted'
<1>1. threads' = (threads \ {t}) \cup {w}
  BY DEF Becomes
<1> SUFFICES ASSUME NEW u \in threads'
             PROVE  /\ u.phase # "delivering" => u.todo \cup u.reached \cup u.missed = {}
                    /\ \A v \in u.reached \cup u.missed : v \in u.reached <=> <<u.id, v>> \in delivered'
                    /\ Trying(u) => \A v \in Users :
                         /\ pushVerdict'[v].by # u.id
                         /\ <<u.id, v>> \in delivered' => v \in u.reached
  BY DEF Counted
<1>2. CASE u = w
  BY <1>2 DEF Trying
<1>3. CASE u \in threads /\ u # t
  <2>1. u.reached \cup u.missed \subseteq Users
    BY <1>3, ThreadFields DEF ThreadsInv
  <2> QED BY <1>3, <2>1 DEF ThreadsInv, Counted
<1> QED BY <1>1, <1>2, <1>3

LEMMA ReadSubscriptionsKeeps ==
  ASSUME ThreadsInv, NEW t \in threads, ReadSubscriptions(t)
  PROVE  ThreadsInv'
<1>1. t.todo \cup t.reached \cup t.missed = {} /\ t.phase = "pushing" /\ Trying(t)
  BY DEF ThreadsInv, Counted, ReadSubscriptions, Trying
<1>2. CASE AfterPush(t)
  BY <1>1, <1>2, AfterPushKeeps DEF ReadSubscriptions
<1>3. CASE ~AfterPush(t)
  <2>1. PICK todo \in SUBSET Subscriptions :
          todo # {} /\ Becomes(t, [t EXCEPT !.phase = "delivering", !.todo = todo])
    BY <1>3 DEF ReadSubscriptions, ThreadsInv, TypeOK
  <2> DEFINE w == [t EXCEPT !.phase = "delivering", !.todo = todo]
  <2>2. t \in Thread
    BY ThreadFields DEF ThreadsInv
  <2>3. /\ w \in Thread /\ Becomes(t, w)
        /\ w.id = t.id /\ w.about = t.about /\ w.read = t.read /\ w.phase = "delivering"
        /\ w.reached = t.reached /\ w.missed = t.missed
    BY <2>1, <2>2 DEF Thread
  <2> HIDE DEF w
  <2>4. UNCHANGED <<devices, rows, verdict, pushVerdict, stamp, raised, clock, lastSend, delivered, lastStorage>>
    BY DEF ReadSubscriptions, tables, history
  <2>5. ~ForDevice(w) => w.read # Never
    BY <1>1, <2>3 DEF ThreadsInv, VolumePhases, ForDevice
  <2>6. Numbered' /\ OneHolder' /\ VolumePhases'
    BY <2>3, <2>4, <2>5, OneMoves DEF ThreadsInv, Holds
  <2>7. InHand' /\ OnPage'
    BY <1>1, <2>3, <2>4, PageStays DEF ThreadsInv
  <2>8. \A v \in Users : pushVerdict[v].by # t.id /\ (<<t.id, v>> \in delivered => v \in t.reached)
    BY <1>1 DEF ThreadsInv, Counted
  <2>9. Counted'
    BY <1>1, <2>3, <2>4, <2>8, CountsFor
  <2>10. RaisedBefore' /\ PushVerdictHonest'
    BY <2>4 DEF ThreadsInv, RaisedBefore, PushVerdictHonest
  <2>11. TypeOK'
    BY <2>3, <2>4, TypesStay DEF ThreadsInv, TypeOK
  <2> QED BY <2>6, <2>7, <2>9, <2>10, <2>11 DEF ThreadsInv
<1> QED BY <1>2, <1>3

(* What the steps of a push have in common.                                *)
LEMMA PushMoves ==
  ASSUME ThreadsInv, NEW t \in threads, NEW w \in Thread, Becomes(t, w),
         t.phase = "delivering", w.phase = "delivering",
         w.id = t.id, w.about = t.about, w.read = t.read,
         UNCHANGED <<devices, verdict, raised, lastSend>>
  PROVE  /\ Numbered' /\ OneHolder' /\ VolumePhases' /\ InHand' /\ OnPage'
         /\ threads' \subseteq Thread
         /\ \A u \in threads' : u.phase = "stamping" => u.about = Volume /\ u.read # Never
<1>1. ~ForDevice(w) => w.read # Never
  BY DEF ThreadsInv, VolumePhases, ForDevice
<1>2. Numbered' /\ OneHolder' /\ VolumePhases'
  BY <1>1, OneMoves DEF ThreadsInv, Holds
<1>3. InHand' /\ OnPage'
  BY PageStays DEF ThreadsInv
<1> QED BY <1>2, <1>3, TypesStay DEF ThreadsInv

LEMMA DeliverKeeps ==
  ASSUME ThreadsInv, NEW t \in threads, t.phase = "delivering", NEW s \in t.todo, Deliver(t, s)
  PROVE  ThreadsInv'
<1> USE AlertsAssumption
<1>1. t \in Thread /\ t.id \in Ids /\ t.todo \in SUBSET Subscriptions
      /\ t.reached \in SUBSET Users /\ t.missed \in SUBSET Users
  BY ThreadFields DEF ThreadsInv
<1>2. PICK u \in Users : u = SubscriberOf[s]
  BY <1>1
<1>3. Trying(t)
  BY DEF Trying
<1>4. \A v \in Users : pushVerdict[v].by # t.id /\ (<<t.id, v>> \in delivered => v \in t.reached)
  BY <1>3 DEF ThreadsInv, Counted
<1>5. \A v \in t.reached \cup t.missed : v \in t.reached <=> <<t.id, v>> \in delivered
  BY DEF ThreadsInv, Counted
<1>6. UNCHANGED <<devices, verdict, pushVerdict, stamp, raised, clock, lastSend, lastStorage>>
  BY DEF Deliver
<1>7. \A x \in threads : x # t => x.id # t.id
  BY DEF ThreadsInv, Numbered
<1>8. CASE Delivered(t, s)
  <2> DEFINE w == [t EXCEPT !.todo = @ \ {s}, !.reached = @ \cup {u}]
  <2>1. /\ w \in Thread /\ Becomes(t, w)
        /\ w.id = t.id /\ w.about = t.about /\ w.read = t.read /\ w.phase = "delivering"
        /\ w.todo = t.todo \ {s} /\ w.reached = t.reached \cup {u} /\ w.missed = t.missed
    BY <1>1, <1>2, <1>8 DEF Thread, Delivered
  <2> HIDE DEF w
  <2>2. delivered' = delivered \cup {<<t.id, u>>} /\ UNCHANGED rows
    BY <1>2, <1>8 DEF Delivered
  <2>3. \A x \in threads : x # t => \A v \in Users :
          /\ <<x.id, v>> \in delivered' <=> <<x.id, v>> \in delivered
          /\ pushVerdict'[v].by = x.id => pushVerdict[v].by = x.id
    BY <1>6, <1>7, <2>2
  <2>4. \A v \in Users : <<t.id, v>> \in delivered' <=> <<t.id, v>> \in delivered \/ v = u
    BY <2>2
  <2>5. \A v \in w.reached \cup w.missed : v \in w.reached <=> <<w.id, v>> \in delivered'
    BY <1>1, <1>5, <2>1, <2>4
  <2>6. \A v \in Users : pushVerdict'[v].by # w.id /\ (<<w.id, v>> \in delivered' => v \in w.reached)
    BY <1>4, <1>6, <2>1, <2>4
  <2>7. Counted'
    BY <2>1, <2>3, <2>5, <2>6, CountsFor
  <2>8. delivered' \subseteq Ids \X Users /\ t.id <= raised
    BY <1>1, <2>2 DEF ThreadsInv, TypeOK, Numbered
  <2>9. RaisedBefore'
    BY <1>6, <2>2, <2>8 DEF ThreadsInv, RaisedBefore
  <2>10. PushVerdictHonest'
    BY <1>4, <1>6, <2>2 DEF ThreadsInv, PushVerdictHonest
  <2>11. TypeOK'
    BY <1>6, <2>1, <2>2, <2>8, PushMoves DEF ThreadsInv, TypeOK
  <2> QED BY <1>6, <2>1, <2>7, <2>9, <2>10, <2>11, PushMoves DEF ThreadsInv
<1>9. CASE Missed(t, s)
  <2> DEFINE w == [t EXCEPT !.todo = @ \ {s}, !.missed = @ \cup {u}]
  <2>1. /\ w \in Thread /\ Becomes(t, w)
        /\ w.id = t.id /\ w.about = t.about /\ w.read = t.read /\ w.phase = "delivering"
        /\ w.todo = t.todo \ {s} /\ w.reached = t.reached /\ w.missed = t.missed \cup {u}
    BY <1>1, <1>2, <1>9 DEF Thread, Missed
  <2> HIDE DEF w
  <2>2. UNCHANGED <<delivered, rows>>
    BY <1>9 DEF Missed
  <2>3. \A v \in w.reached \cup w.missed : v \in w.reached <=> <<w.id, v>> \in delivered
    BY <1>4, <1>5, <2>1
  <2>4. Counted'
    BY <1>4, <1>6, <2>1, <2>2, <2>3, CountsFor
  <2>5. RaisedBefore' /\ PushVerdictHonest'
    BY <1>6, <2>2 DEF ThreadsInv, RaisedBefore, PushVerdictHonest
  <2>6. TypeOK'
    BY <1>6, <2>1, <2>2, PushMoves DEF ThreadsInv, TypeOK
  <2> QED BY <1>6, <2>1, <2>4, <2>5, <2>6, PushMoves DEF ThreadsInv
<1>10. CASE Gone(t, s)
  <2> DEFINE w == [t EXCEPT !.todo = @ \ {s}]
  <2>1. /\ w \in Thread /\ Becomes(t, w)
        /\ w.id = t.id /\ w.about = t.about /\ w.read = t.read /\ w.phase = "delivering"
        /\ w.todo = t.todo \ {s} /\ w.reached = t.reached /\ w.missed = t.missed
    BY <1>1, <1>10 DEF Thread, Gone
  <2> HIDE DEF w
  <2>2. delivered' = delivered /\ rows' = rows \ {s}
    BY <1>10 DEF Gone
  <2>3. Counted'
    BY <1>4, <1>5, <1>6, <2>1, <2>2, CountsFor
  <2>4. RaisedBefore' /\ PushVerdictHonest'
    BY <1>6, <2>2 DEF ThreadsInv, RaisedBefore, PushVerdictHonest
  <2>5. TypeOK'
    BY <1>6, <2>1, <2>2, PushMoves DEF ThreadsInv, TypeOK
  <2> QED BY <1>6, <2>1, <2>3, <2>4, <2>5, PushMoves DEF ThreadsInv
<1> QED BY <1>8, <1>9, <1>10 DEF Deliver

LEMMA RecordOutcomeKeeps ==
  ASSUME ThreadsInv, NEW t \in threads, t.phase = "delivering", t.todo = {},
         NEW u \in t.reached \cup t.missed, RecordOutcome(t, u)
  PROVE  ThreadsInv'
<1> DEFINE w == [t EXCEPT !.reached = @ \ {u}, !.missed = @ \ {u}]
           v == [by |-> t.id, ok |-> u \in t.reached]
<1>1. t \in Thread /\ t.id \in Ids /\ u \in Users
      /\ t.reached \in SUBSET Users /\ t.missed \in SUBSET Users
  BY ThreadFields DEF ThreadsInv
<1>2. /\ w \in Thread /\ Becomes(t, w)
      /\ w.id = t.id /\ w.about = t.about /\ w.read = t.read /\ w.phase = "delivering"
      /\ w.todo = {} /\ w.reached = t.reached \ {u} /\ w.missed = t.missed \ {u}
  BY <1>1 DEF Thread, RecordOutcome
<1>3. v \in Verdicts /\ v.by = t.id /\ (v.ok <=> u \in t.reached)
  <2>1. (u \in t.reached) \in BOOLEAN
    OBVIOUS
  <2> QED BY <1>1, <2>1 DEF Verdicts
<1>4. pushVerdict' = [pushVerdict EXCEPT ![u] = v]
  BY DEF RecordOutcome
<1> HIDE DEF w, v
<1>5. /\ UNCHANGED <<devices, rows, verdict, stamp, raised, clock, lastSend, delivered, lastStorage>>
  BY DEF RecordOutcome, history
<1>6. \A x \in threads : x # t => x.id # t.id
  BY DEF ThreadsInv, Numbered
<1>7. \A y \in t.reached \cup t.missed : y \in t.reached <=> <<t.id, y>> \in delivered
  BY DEF ThreadsInv, Counted
<1>8. pushVerdict \in [Users -> Verdicts]
  BY DEF ThreadsInv, TypeOK
<1>9. /\ pushVerdict' \in [Users -> Verdicts] /\ pushVerdict'[u] = v
      /\ \A y \in Users : y # u => pushVerdict'[y] = pushVerdict[y]
  BY <1>1, <1>3, <1>4, <1>8
<1>10. \A x \in threads : x # t => \A y \in Users :
         /\ <<x.id, y>> \in delivered' <=> <<x.id, y>> \in delivered
         /\ pushVerdict'[y].by = x.id => pushVerdict[y].by = x.id
  BY <1>3, <1>5, <1>6, <1>9
<1>11. \A y \in w.reached \cup w.missed : y \in w.reached <=> <<w.id, y>> \in delivered'
  BY <1>2, <1>5, <1>7
<1>12. Counted'
  BY <1>2, <1>10, <1>11, CountsFor
<1>13. t.id <= raised
  BY DEF ThreadsInv, Numbered
<1>14. RaisedBefore'
  BY <1>3, <1>5, <1>9, <1>13 DEF ThreadsInv, RaisedBefore
<1>15. PushVerdictHonest'
  BY <1>3, <1>5, <1>7, <1>9 DEF ThreadsInv, PushVerdictHonest
<1>16. TypeOK'
  BY <1>2, <1>5, <1>9, PushMoves DEF ThreadsInv, TypeOK
<1> QED BY <1>2, <1>5, <1>12, <1>14, <1>15, <1>16, PushMoves DEF ThreadsInv

LEMMA ThreadKeeps ==
  ASSUME ThreadsInv, NEW t \in threads, ThreadStep(t)
  PROVE  ThreadsInv'
<1>1. CASE Push(t)
  <2>1. CASE \E s \in t.todo : Deliver(t, s)
    BY <1>1, <2>1, DeliverKeeps DEF Push
  <2>2. CASE t.todo = {} /\ \E u \in t.reached \cup t.missed : RecordOutcome(t, u)
    BY <1>1, <2>2, RecordOutcomeKeeps DEF Push
  <2>3. CASE t.todo = {} /\ PushEnds(t)
    BY <1>1, <2>3, AfterPushKeeps DEF Push, PushEnds
  <2> QED BY <1>1, <2>1, <2>2, <2>3 DEF Push
<1>2. CASE Stamp(t)
  <2>1. t.read \in Times
    BY ThreadFields DEF ThreadsInv
  <2> QED BY <1>2, <2>1, OnlyEnds DEF Stamp, history
<1> QED BY <1>1, <1>2, ReadDeviceKeeps, ReadStampKeeps, TakeLockKeeps, SendReturnsKeeps, RecordKeeps,
           ReadSubscriptionsKeeps DEF ThreadStep

LEMMA RaiseKeeps ==
  ASSUME ThreadsInv, NEW about \in Devices \cup {Volume}, Raise(about)
  PROVE  ThreadsInv'
<1> USE AlertsAssumption
<1> DEFINE w == New(about)
<1>1. raised \in 0 .. MaxAlerts /\ raised < MaxAlerts /\ MaxAlerts \in Nat
  BY DEF ThreadsInv, TypeOK, Raise
<1>2. PICK id \in Ids : id = raised + 1
  BY <1>1 DEF Ids
<1>3. /\ w \in Thread
      /\ w.id = id /\ w.about = about /\ w.ok = FALSE /\ w.phase = "reading"
      /\ w.todo = {} /\ w.reached = {} /\ w.missed = {}
  BY <1>2 DEF New, Thread, Times
<1>4. raised' = id /\ threads' = threads \cup {w}
  BY <1>2 DEF Raise
<1> HIDE DEF w
<1>5. UNCHANGED <<devices, rows, verdict, pushVerdict, stamp, clock, lastSend, delivered, lastStorage>>
  BY DEF Raise, tables, history
<1>6. \A t \in threads : t.id \in Nat /\ t.id <= raised
  BY <1>1, ThreadFields DEF ThreadsInv, Numbered, Ids
<1>7. Numbered'
  BY <1>1, <1>2, <1>3, <1>4, <1>6 DEF ThreadsInv, Numbered
<1>8. OneHolder' /\ VolumePhases' /\ InHand'
  BY <1>3, <1>4, <1>5 DEF ThreadsInv, OneHolder, VolumePhases, InHand, Holds
<1>9. OnPage'
  BY <1>3, <1>4, <1>5 DEF ThreadsInv, OnPage
<1>10. /\ \A u \in Users : pushVerdict[u].by \in Int /\ pushVerdict[u].by <= raised
       /\ \A p \in delivered : p[1] \in Int /\ p[1] <= raised
  BY <1>1 DEF ThreadsInv, RaisedBefore, TypeOK, Verdicts, Ids
<1>11. \A u \in Users : pushVerdict[u].by # id /\ <<id, u>> \notin delivered
  BY <1>1, <1>2, <1>10
<1>12. Counted'
  <2> SUFFICES ASSUME NEW t \in threads'
               PROVE  /\ t.phase # "delivering" => t.todo \cup t.reached \cup t.missed = {}
                      /\ \A u \in t.reached \cup t.missed : u \in t.reached <=> <<t.id, u>> \in delivered
                      /\ Trying(t) => \A u \in Users :
                           pushVerdict[u].by # t.id /\ (<<t.id, u>> \in delivered => u \in t.reached)
    BY <1>5 DEF Counted
  <2>1. CASE t = w
    BY <1>3, <1>11, <2>1
  <2>2. CASE t \in threads
    BY <2>2 DEF ThreadsInv, Counted
  <2> QED BY <1>4, <2>1, <2>2
<1>13. RaisedBefore'
  BY <1>1, <1>2, <1>4, <1>5, <1>10 DEF RaisedBefore
<1>14. PushVerdictHonest'
  BY <1>5 DEF ThreadsInv, PushVerdictHonest
<1>15. TypeOK'
  BY <1>1, <1>2, <1>3, <1>4, <1>5 DEF ThreadsInv, TypeOK
<1> QED BY <1>7, <1>8, <1>9, <1>12, <1>13, <1>14, <1>15 DEF ThreadsInv

(* A kill leaves no thread; the rows are what is remembered.               *)
LEMMA KilledKeeps ==
  ASSUME ThreadsInv, Killed
  PROVE  ThreadsInv'
<1>1. /\ UNCHANGED <<devices, rows, verdict, pushVerdict, stamp, raised, clock, delivered>>
      /\ threads' = {} /\ lastSend' = verdict /\ lastStorage' = stamp
  BY DEF Killed, tables
<1>2. Numbered' /\ OneHolder' /\ VolumePhases' /\ InHand' /\ OnPage' /\ Counted'
  BY <1>1 DEF Numbered, OneHolder, VolumePhases, InHand, OnPage, Counted
<1>3. RaisedBefore' /\ PushVerdictHonest' /\ TypeOK'
  BY <1>1 DEF ThreadsInv, RaisedBefore, PushVerdictHonest, TypeOK
<1> QED BY <1>2, <1>3 DEF ThreadsInv

(* Every thread that delivers an alert, wherever it stands: it alone holds *)
(* its device's lock, the row has its outcome or it has it in hand, and    *)
(* whoever received its alert it counts as reached.                        *)
THEOREM ThreadsInvAlways == Spec => []ThreadsInv
<1> USE AlertsAssumption
<1>1. Init => ThreadsInv
  <2> SUFFICES ASSUME Init PROVE ThreadsInv
    OBVIOUS
  <2>1. NoVerdict \in Verdicts /\ NoVerdict.by = 0 /\ Never \in Times /\ 0 \in 0 .. MaxClock /\ 0 \in 0 .. MaxAlerts
    BY DEF NoVerdict, Verdicts, Times
  <2>2. TypeOK
    BY <2>1 DEF Init, TypeOK
  <2>3. PushVerdictHonest /\ RaisedBefore
    BY <2>1 DEF Init, PushVerdictHonest, RaisedBefore
  <2> QED BY <2>2, <2>3 DEF Init, ThreadsInv, Numbered, OneHolder, VolumePhases, InHand, OnPage, Counted
<1>2. ThreadsInv /\ [Next]_vars => ThreadsInv'
  <2> SUFFICES ASSUME ThreadsInv, [Next]_vars PROVE ThreadsInv'
    OBVIOUS
  <2> USE DEF tables, history
  <2>1. ASSUME NEW d \in Devices, NotifyEvent(d) PROVE ThreadsInv'
    BY <2>1, RaiseKeeps DEF NotifyEvent
  <2>2. ASSUME NEW d \in Devices, Remove(d) PROVE ThreadsInv'
    <3>1. TypeOK'
      BY <2>2 DEF Remove, ThreadsInv, TypeOK
    <3>2. Numbered' /\ OneHolder' /\ VolumePhases' /\ InHand' /\ OnPage'
      BY <2>2 DEF Remove, ThreadsInv, Numbered, OneHolder, VolumePhases, InHand, OnPage
    <3>3. Counted' /\ RaisedBefore' /\ PushVerdictHonest'
      BY <2>2 DEF Remove, ThreadsInv, Counted, RaisedBefore, PushVerdictHonest
    <3> QED BY <3>1, <3>2, <3>3 DEF ThreadsInv
  <2>3. CASE NotifyStorageFailed
    BY <2>3, RaiseKeeps DEF NotifyStorageFailed
  <2>4. ASSUME NEW t \in threads, ThreadStep(t) PROVE ThreadsInv'
    BY <2>4, ThreadKeeps
  <2>5. ASSUME NEW s \in Subscriptions, Revoke(s) PROVE ThreadsInv'
    <3>1. TypeOK'
      BY <2>5 DEF Revoke, ThreadsInv, TypeOK
    <3>2. Numbered' /\ OneHolder' /\ VolumePhases' /\ InHand' /\ OnPage'
      BY <2>5 DEF Revoke, ThreadsInv, Numbered, OneHolder, VolumePhases, InHand, OnPage
    <3>3. Counted' /\ RaisedBefore' /\ PushVerdictHonest'
      BY <2>5 DEF Revoke, ThreadsInv, Counted, RaisedBefore, PushVerdictHonest
    <3> QED BY <3>1, <3>2, <3>3 DEF ThreadsInv
  <2>6. CASE Killed
    BY <2>6, KilledKeeps
  <2>7. CASE TimePasses
    <3>1. TypeOK'
      BY <2>7 DEF TimePasses, ThreadsInv, TypeOK
    <3>2. Numbered' /\ OneHolder' /\ VolumePhases' /\ InHand' /\ OnPage'
      BY <2>7 DEF TimePasses, ThreadsInv, Numbered, OneHolder, VolumePhases, InHand, OnPage
    <3>3. Counted' /\ RaisedBefore' /\ PushVerdictHonest'
      BY <2>7 DEF TimePasses, ThreadsInv, Counted, RaisedBefore, PushVerdictHonest
    <3> QED BY <3>1, <3>2, <3>3 DEF ThreadsInv
  <2>8. CASE UNCHANGED vars
    <3>1. TypeOK'
      BY <2>8 DEF vars, ThreadsInv, TypeOK
    <3>2. Numbered' /\ OneHolder' /\ VolumePhases' /\ InHand' /\ OnPage'
      BY <2>8 DEF vars, ThreadsInv, Numbered, OneHolder, VolumePhases, InHand, OnPage
    <3>3. Counted' /\ RaisedBefore' /\ PushVerdictHonest'
      BY <2>8 DEF vars, ThreadsInv, Counted, RaisedBefore, PushVerdictHonest
    <3> QED BY <3>1, <3>2, <3>3 DEF ThreadsInv
  <2> QED BY <2>1, <2>2, <2>3, <2>4, <2>5, <2>6, <2>7, <2>8 DEF Next
<1> QED BY <1>1, <1>2, PTL DEF Spec

(* runtime.py:165-192, webpush.py:247-287: however alerts of one device,   *)
(* pushes to one user, removals and kills overlap, the device page shows   *)
(* the send that returned last, and a push counts as failed for a user     *)
(* exactly when none of the user's browsers received it.                   *)
THEOREM VerdictsTrueAlways == Spec => []VerdictsTrue
<1>1. ThreadsInv => VerdictsTrue
  <2> SUFFICES ASSUME ThreadsInv PROVE VerdictIsLastSend
    BY DEF ThreadsInv, VerdictsTrue
  <2> SUFFICES ASSUME NEW d \in devices, \A t \in threads : Holds(t) => t.about # d
               PROVE  verdict[d] = lastSend[d]
    BY DEF VerdictIsLastSend
  <2>1. \A t \in threads : t.phase = "recording" => Holds(t)
    BY DEF ThreadsInv, VolumePhases, Holds
  <2> QED BY <2>1 DEF ThreadsInv, OnPage
<1> QED BY <1>1, ThreadsInvAlways, PTL

(***************************************************************************)
(* Storage alerts raised one after the other. What the cooldown compares   *)
(* with is never older than the last storage alert that was sent, except   *)
(* while the thread that sent it is on its way to the stamp.               *)
(***************************************************************************)
OneStorageAlert == \A t, u \in threads : ~ForDevice(t) /\ ~ForDevice(u) => t = u

CooledDown ==
  \A t \in threads : ~ForDevice(t) /\ t.phase # "reading" /\ stamp # Never => t.read - stamp >= Cooldown

SentAndStamped ==
  /\ (\A t \in threads : ~ForDevice(t) => ~t.ok) => lastStorage <= stamp
  /\ \A t \in threads : ~ForDevice(t) /\ t.ok =>
       t.read = lastStorage /\ t.phase \notin {"reading", "sending"}

StorageInv == TypeOK /\ VolumePhases /\ OneStorageAlert /\ CooledDown /\ SentAndStamped

(* A step of a device's thread, or one of the volume's that keeps what it  *)
(* read and heard.                                                         *)
LEMMA StorageStays ==
  ASSUME StorageInv, NEW t \in threads, NEW w,
         Becomes(t, w), UNCHANGED <<stamp, lastStorage>>,
         w.about = t.about, w.ok = t.ok \/ ForDevice(t), w.read = t.read,
         ~ForDevice(t) => t.phase \notin {"reading", "sending"} /\ w.phase \notin {"reading", "sending"}
  PROVE  OneStorageAlert' /\ CooledDown' /\ SentAndStamped'
<1>1. threads' = (threads \ {t}) \cup {w}
  BY DEF Becomes
<1>2. OneStorageAlert'
  BY <1>1 DEF StorageInv, OneStorageAlert, ForDevice
<1>3. CooledDown'
  BY <1>1 DEF StorageInv, CooledDown, ForDevice
<1>4. SentAndStamped'
  <2>1. (\A u \in threads' : ~ForDevice(u) => ~u.ok) => \A u \in threads : ~ForDevice(u) => ~u.ok
    BY <1>1 DEF ForDevice
  <2>2. \A u \in threads' : ~ForDevice(u) /\ u.ok =>
          u.read = lastStorage /\ u.phase \notin {"reading", "sending"}
    BY <1>1 DEF StorageInv, SentAndStamped, ForDevice
  <2> QED BY <2>1, <2>2 DEF StorageInv, SentAndStamped
<1> QED BY <1>2, <1>3, <1>4

(* The end of a thread that sent nothing, or was not about the volume.     *)
LEMMA StorageEnds ==
  ASSUME StorageInv, NEW t \in threads, Ends(t), UNCHANGED <<stamp, lastStorage>>,
         ForDevice(t) \/ ~t.ok
  PROVE  OneStorageAlert' /\ CooledDown' /\ SentAndStamped'
<1>1. threads' = threads \ {t}
  BY DEF Ends
<1>2. OneStorageAlert' /\ CooledDown'
  BY <1>1 DEF StorageInv, OneStorageAlert, CooledDown
<1>3. SentAndStamped'
  BY <1>1 DEF StorageInv, SentAndStamped
<1> QED BY <1>2, <1>3

(* The thread that read the stamp found the cooldown over.                 *)
LEMMA ReadStampStores ==
  ASSUME ThreadsInv, StorageInv, NEW t \in threads, ReadStamp(t)
  PROVE  OneStorageAlert' /\ CooledDown' /\ SentAndStamped'
<1> USE AlertsAssumption
<1>1. ~ForDevice(t) /\ t.phase = "reading" /\ ~t.ok
  BY DEF ReadStamp, StorageInv, SentAndStamped
<1>2. CASE Ends(t)
  BY <1>1, <1>2, StorageEnds DEF ReadStamp, tables, history
<1>3. CASE ~CoolingDown /\ \E next \in {"sending", "pushing"} :
             Becomes(t, [t EXCEPT !.phase = next, !.read = clock])
  <2>1. PICK next \in {"sending", "pushing"} : Becomes(t, [t EXCEPT !.phase = next, !.read = clock])
    BY <1>3
  <2> DEFINE w == [t EXCEPT !.phase = next, !.read = clock]
  <2>2. t \in Thread
    BY ThreadFields DEF ThreadsInv
  <2>3. /\ w.about = t.about /\ w.ok = t.ok /\ w.read = clock
        /\ threads' = (threads \ {t}) \cup {w}
    BY <2>1, <2>2 DEF Thread, Becomes
  <2> HIDE DEF w
  <2>4. UNCHANGED <<stamp, lastStorage>>
    BY DEF ReadStamp, tables, history
  <2>5. stamp # Never => clock - stamp >= Cooldown
    BY <1>3 DEF CoolingDown, StorageInv, TypeOK, Times, Never
  <2>6. \A u \in threads : ~ForDevice(u) => u = t
    BY <1>1 DEF StorageInv, OneStorageAlert
  <2>7. OneStorageAlert' /\ CooledDown'
    BY <1>1, <2>3, <2>4, <2>5, <2>6 DEF OneStorageAlert, CooledDown, ForDevice
  <2>8. SentAndStamped'
    BY <1>1, <2>3, <2>4, <2>6 DEF StorageInv, SentAndStamped, ForDevice
  <2> QED BY <2>7, <2>8
<1> QED BY <1>1, <1>2, <1>3 DEF ReadStamp

(* What was sent then is at least a cooldown after what was sent before.   *)
LEMMA SendReturnsStores ==
  ASSUME ThreadsInv, StorageInv, NEW t \in threads, SendReturns(t)
  PROVE  /\ OneStorageAlert' /\ CooledDown' /\ SentAndStamped'
         /\ lastStorage' # lastStorage /\ lastStorage # Never => lastStorage' - lastStorage >= Cooldown
<1> USE AlertsAssumption
<1> DEFINE next == IF ForDevice(t) THEN "recording" ELSE "pushing"
<1>1. PICK ok \in BOOLEAN :
        /\ Becomes(t, [t EXCEPT !.ok = ok, !.phase = next])
        /\ lastStorage' = IF ok /\ ~ForDevice(t) THEN t.read ELSE lastStorage
  BY DEF SendReturns
<1> DEFINE w == [t EXCEPT !.ok = ok, !.phase = next]
<1>2. t \in Thread
  BY ThreadFields DEF ThreadsInv
<1>3. /\ w.about = t.about /\ w.ok = ok /\ w.read = t.read /\ w.phase = next
      /\ Becomes(t, w)
  BY <1>1, <1>2 DEF Thread
<1>4. threads' = (threads \ {t}) \cup {w}
  BY <1>3 DEF Becomes
<1> HIDE DEF w
<1>5. stamp' = stamp /\ t.phase = "sending"
  BY DEF SendReturns, tables
<1>6. CASE ForDevice(t)
  <2>1. lastStorage' = lastStorage
    BY <1>1, <1>6
  <2> QED BY <1>3, <1>5, <1>6, <2>1, StorageStays
<1>7. CASE ~ForDevice(t)
  <2>1. ~t.ok /\ \A u \in threads : ~ForDevice(u) => u = t
    BY <1>5, <1>7 DEF StorageInv, OneStorageAlert, SentAndStamped
  <2>2. lastStorage <= stamp
    BY <2>1 DEF StorageInv, SentAndStamped
  <2>3. stamp # Never => t.read - stamp >= Cooldown
    BY <1>5, <1>7 DEF StorageInv, CooledDown
  <2>4. stamp \in Times /\ lastStorage \in Times /\ t.read \in Times /\ t.read # Never
    BY <1>5, <1>7, ThreadFields DEF StorageInv, TypeOK, VolumePhases
  <2>5. OneStorageAlert' /\ CooledDown'
    BY <1>3, <1>4, <1>5, <1>7, <2>1, <2>3 DEF OneStorageAlert, CooledDown, ForDevice
  <2>6. SentAndStamped'
    BY <1>1, <1>3, <1>4, <1>5, <1>7, <2>1, <2>2 DEF SentAndStamped, ForDevice
  <2>7. lastStorage' # lastStorage /\ lastStorage # Never => lastStorage' - lastStorage >= Cooldown
    BY <1>1, <1>7, <2>2, <2>3, <2>4 DEF Times, Never
  <2> QED BY <2>5, <2>6, <2>7
<1> QED BY <1>6, <1>7

LEMMA AfterPushStores ==
  ASSUME ThreadsInv, StorageInv, NEW t \in threads, AfterPush(t),
         t.phase = "pushing" \/ t.phase = "delivering", UNCHANGED <<stamp, lastStorage>>
  PROVE  OneStorageAlert' /\ CooledDown' /\ SentAndStamped'
<1>1. CASE Ends(t) /\ (ForDevice(t) \/ ~t.ok)
  BY <1>1, StorageEnds
<1>2. CASE Moves(t, "stamping")
  <2> DEFINE w == [t EXCEPT !.phase = "stamping"]
  <2>1. t \in Thread
    BY ThreadFields DEF ThreadsInv
  <2>2. Becomes(t, w) /\ w.about = t.about /\ w.ok = t.ok /\ w.read = t.read /\ w.phase = "stamping"
    BY <1>2, <2>1 DEF Thread, Moves
  <2> HIDE DEF w
  <2> QED BY <2>2, StorageStays
<1> QED BY <1>1, <1>2 DEF AfterPush

LEMMA PushStores ==
  ASSUME ThreadsInv, StorageInv, NEW t \in threads, ReadSubscriptions(t) \/ Push(t)
  PROVE  OneStorageAlert' /\ CooledDown' /\ SentAndStamped'
<1>1. t \in Thread
  BY ThreadFields DEF ThreadsInv
<1>2. UNCHANGED <<stamp, lastStorage>> /\ (t.phase = "pushing" \/ t.phase = "delivering")
  BY DEF ReadSubscriptions, Push, Deliver, RecordOutcome, PushEnds, tables, history
<1>3. CASE AfterPush(t)
  BY <1>2, <1>3, AfterPushStores
<1>4. CASE \E w : Becomes(t, w) /\ w.about = t.about /\ w.ok = t.ok /\ w.read = t.read /\ w.phase = "delivering"
  BY <1>2, <1>4, StorageStays
<1>5. CASE ReadSubscriptions(t) /\ ~AfterPush(t)
  <2>1. PICK todo : Becomes(t, [t EXCEPT !.phase = "delivering", !.todo = todo])
    BY <1>5 DEF ReadSubscriptions
  <2> DEFINE w == [t EXCEPT !.phase = "delivering", !.todo = todo]
  <2>2. w.about = t.about /\ w.ok = t.ok /\ w.read = t.read /\ w.phase = "delivering"
    BY <1>1 DEF Thread
  <2> QED BY <1>4, <2>1, <2>2
<1>6. CASE Push(t) /\ ~AfterPush(t)
  <2>1. t.phase = "delivering"
    BY <1>6 DEF Push
  <2>2. CASE \E s \in t.todo : Deliver(t, s)
    <3>1. PICK s : Delivered(t, s) \/ Missed(t, s) \/ Gone(t, s)
      BY <2>2 DEF Deliver
    <3> DEFINE reached == [t EXCEPT !.todo = @ \ {s}, !.reached = @ \cup {SubscriberOf[s]}]
               missed == [t EXCEPT !.todo = @ \ {s}, !.missed = @ \cup {SubscriberOf[s]}]
               gone == [t EXCEPT !.todo = @ \ {s}]
    <3>2. Becomes(t, reached) \/ Becomes(t, missed) \/ Becomes(t, gone)
      BY <3>1 DEF Delivered, Missed, Gone
    <3>3. \A w \in {reached, missed, gone} :
            w.about = t.about /\ w.ok = t.ok /\ w.read = t.read /\ w.phase = "delivering"
      BY <1>1, <2>1 DEF Thread
    <3> QED BY <1>4, <3>2, <3>3
  <2>3. CASE \E u \in t.reached \cup t.missed : RecordOutcome(t, u)
    <3>1. PICK u : Becomes(t, [t EXCEPT !.reached = @ \ {u}, !.missed = @ \ {u}])
      BY <2>3 DEF RecordOutcome
    <3> DEFINE w == [t EXCEPT !.reached = @ \ {u}, !.missed = @ \ {u}]
    <3>2. w.about = t.about /\ w.ok = t.ok /\ w.read = t.read /\ w.phase = "delivering"
      BY <1>1, <2>1 DEF Thread
    <3> QED BY <1>4, <3>1, <3>2
  <2> QED BY <1>6, <2>2, <2>3 DEF Push, PushEnds
<1> QED BY <1>3, <1>5, <1>6

LEMMA StampStores ==
  ASSUME ThreadsInv, StorageInv, NEW t \in threads, Stamp(t)
  PROVE  OneStorageAlert' /\ CooledDown' /\ SentAndStamped'
<1> USE AlertsAssumption
<1>1. /\ threads' = threads \ {t} /\ stamp' = t.read /\ lastStorage' = lastStorage
      /\ t.phase = "stamping"
  BY DEF Stamp, Ends, history
<1>2. ~ForDevice(t) /\ t.read # Never /\ t.read \in Times /\ stamp \in Times /\ lastStorage \in Times
  BY <1>1, ThreadFields DEF StorageInv, TypeOK, ForDevice
<1>3. \A u \in threads' : ForDevice(u)
  BY <1>1, <1>2 DEF StorageInv, OneStorageAlert
<1>4. lastStorage <= t.read
  <2>1. CASE t.ok
    BY <1>2, <2>1 DEF StorageInv, SentAndStamped, Times, Never
  <2>2. CASE ~t.ok
    <3>1. lastStorage <= stamp
      BY <1>2, <2>2 DEF StorageInv, SentAndStamped, OneStorageAlert
    <3>2. stamp # Never => t.read - stamp >= Cooldown
      BY <1>1, <1>2 DEF StorageInv, CooledDown
    <3> QED BY <1>2, <3>1, <3>2 DEF Times, Never
  <2> QED BY <2>1, <2>2
<1> QED BY <1>1, <1>3, <1>4 DEF OneStorageAlert, CooledDown, SentAndStamped

LEMMA StorageStep ==
  ASSUME "overlapping_storage" \notin Env, ThreadsInv, StorageInv, [Next]_vars
  PROVE  /\ OneStorageAlert' /\ CooledDown' /\ SentAndStamped'
         /\ lastStorage' # lastStorage /\ lastStorage # Never /\ threads' # {}
              => lastStorage' - lastStorage >= Cooldown
<1> USE DEF tables, history
<1>1. ASSUME NEW d \in Devices, NotifyEvent(d) PROVE OneStorageAlert' /\ CooledDown' /\ SentAndStamped'
  <2>1. /\ threads' = threads \cup {New(d)} /\ UNCHANGED <<stamp, lastStorage>> /\ ForDevice(New(d))
        /\ New(d).phase = "reading"
    BY <1>1, AlertsAssumption DEF NotifyEvent, Raise, New, ForDevice
  <2> QED BY <2>1 DEF StorageInv, OneStorageAlert, CooledDown, SentAndStamped
<1>2. ASSUME NotifyStorageFailed PROVE OneStorageAlert' /\ CooledDown' /\ SentAndStamped'
  <2>1. /\ threads' = threads \cup {New(Volume)} /\ UNCHANGED <<stamp, lastStorage>>
        /\ ~New(Volume).ok /\ New(Volume).phase = "reading"
        /\ \A t \in threads : ForDevice(t)
    BY <1>2 DEF NotifyStorageFailed, Raise, New
  <2> QED BY <2>1 DEF StorageInv, OneStorageAlert, CooledDown, SentAndStamped
<1>3. ASSUME NEW t \in threads, ThreadStep(t), ~SendReturns(t)
      PROVE  OneStorageAlert' /\ CooledDown' /\ SentAndStamped' /\ lastStorage' = lastStorage
  <2>1. lastStorage' = lastStorage
    BY <1>3 DEF ThreadStep, ReadDevice, ReadStamp, TakeLock, Record, ReadSubscriptions, Push, Deliver,
                RecordOutcome, PushEnds, Stamp
  <2>2. t \in Thread
    BY ThreadFields DEF ThreadsInv
  <2>3. \A p \in {"locking", "pushing", "sending"} : ForDevice(t) /\ Moves(t, p) /\ stamp' = stamp
          => OneStorageAlert' /\ CooledDown' /\ SentAndStamped'
    <3> SUFFICES ASSUME NEW p \in {"locking", "pushing", "sending"}, ForDevice(t), Moves(t, p), stamp' = stamp
                 PROVE  OneStorageAlert' /\ CooledDown' /\ SentAndStamped'
      OBVIOUS
    <3> DEFINE w == [t EXCEPT !.phase = p]
    <3>1. Becomes(t, w) /\ w.about = t.about /\ w.ok = t.ok /\ w.read = t.read
      BY <2>2 DEF Moves, Thread
    <3> HIDE DEF w
    <3> QED BY <2>1, <3>1, StorageStays
  <2>4. CASE ReadDevice(t)
    <3>1. ForDevice(t) /\ stamp' = stamp
      BY <2>4 DEF ReadDevice
    <3>2. CASE Ends(t)
      BY <2>1, <3>1, <3>2, StorageEnds
    <3> QED BY <2>1, <2>3, <2>4, <3>1, <3>2 DEF ReadDevice
  <2>5. CASE TakeLock(t) \/ Record(t)
    <3>1. ForDevice(t) /\ stamp' = stamp
      BY <2>5 DEF TakeLock, Record, ThreadsInv, VolumePhases
    <3> QED BY <2>1, <2>3, <2>5, <3>1 DEF TakeLock, Record
  <2> QED BY <1>3, <2>1, <2>4, <2>5, ReadStampStores, PushStores, StampStores DEF ThreadStep
<1>4. ASSUME NEW t \in threads, SendReturns(t)
      PROVE  /\ OneStorageAlert' /\ CooledDown' /\ SentAndStamped'
             /\ lastStorage' # lastStorage /\ lastStorage # Never => lastStorage' - lastStorage >= Cooldown
  BY <1>4, SendReturnsStores
<1>5. ASSUME Killed PROVE OneStorageAlert' /\ CooledDown' /\ SentAndStamped' /\ threads' = {}
  <2>1. threads' = {} /\ stamp' = stamp /\ lastStorage' = stamp
    BY <1>5 DEF Killed
  <2>2. stamp \in Int
    BY AlertsAssumption DEF StorageInv, TypeOK, Times, Never
  <2> QED BY <2>1, <2>2 DEF OneStorageAlert, CooledDown, SentAndStamped
<1>6. ASSUME \/ \E d \in Devices : Remove(d)
             \/ \E s \in Subscriptions : Revoke(s)
             \/ TimePasses
             \/ UNCHANGED vars
      PROVE  OneStorageAlert' /\ CooledDown' /\ SentAndStamped' /\ lastStorage' = lastStorage
  <2>1. UNCHANGED <<threads, stamp, lastStorage>>
    BY <1>6 DEF Remove, Revoke, TimePasses, vars
  <2> QED BY <2>1 DEF StorageInv, OneStorageAlert, CooledDown, SentAndStamped
<1>7. (NotifyStorageFailed \/ \E d \in Devices : NotifyEvent(d)) => lastStorage' = lastStorage
  BY DEF NotifyStorageFailed, NotifyEvent, Raise
<1> QED BY <1>1, <1>2, <1>3, <1>4, <1>5, <1>6, <1>7 DEF Next

(* runtime.py:224-258: the cooldown is read before a send and stamped      *)
(* after it. As long as a storage alert is only raised when no other is on *)
(* its way, what was sent keeps its distance - also when only browsers     *)
(* heard of the one in between, and when a kill forgot a send.             *)
THEOREM OnePerCooldownAlways ==
  ASSUME "overlapping_storage" \notin Env
  PROVE  Spec => OnePerCooldown
<1> DEFINE Stored == OneStorageAlert /\ CooledDown /\ SentAndStamped
<1>1. Init => Stored
  BY DEF Init, OneStorageAlert, CooledDown, SentAndStamped, Never
<1>2. ThreadsInv /\ Stored => StorageInv
  BY DEF ThreadsInv, StorageInv
<1>3. ThreadsInv /\ Stored /\ [Next]_vars => Stored'
  BY <1>2, StorageStep
<1>4. ThreadsInv /\ Stored /\ [Next]_vars
        => [lastStorage' # lastStorage /\ lastStorage # Never /\ threads' # {}
              => lastStorage' - lastStorage >= Cooldown]_vars
  BY <1>2, StorageStep
<1> HIDE DEF Stored
<1> QED BY <1>1, <1>3, <1>4, ThreadsInvAlways, PTL DEF Spec, OnePerCooldown

=============================================================================
