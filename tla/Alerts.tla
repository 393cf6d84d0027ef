------------------------------- MODULE Alerts -------------------------------
(***************************************************************************)
(* How the worker tells people: one daemon thread per alert, sending       *)
(* through Apprise and then to browser subscriptions, and the three places *)
(* that remember how it went - a verdict per device, a verdict per user,   *)
(* and the time of the last storage alert.                                 *)
(***************************************************************************)
EXTENDS Integers, FiniteSets

CONSTANTS
  Devices, Users,
  Subscriptions,  \* push endpoints
  SubscriberOf,   \* endpoint -> the user it was subscribed by
  PushReach,      \* push_targets: device or Volume -> its owner and every admin
  Cooldown,       \* STORAGE_ALERT_COOLDOWN
  MaxAlerts,      \* bound: alerts raised
  MaxClock,       \* bound: time that passes
  Env             \* the environment conditions this instance admits

(* overlapping_storage  a storage alert is raised while one is on its way  *)
Conditions == {"overlapping_storage"}

Volume == "volume"

ASSUME AlertsAssumption ==
  /\ Volume \notin Devices
  /\ SubscriberOf \in [Subscriptions -> Users]
  /\ PushReach \in [Devices \cup {Volume} -> SUBSET Users]
  /\ {Cooldown, MaxAlerts, MaxClock} \subseteq Nat
  /\ Env \subseteq Conditions

VARIABLES
  devices,      \* rows of the devices table
  rows,         \* push_subscriptions
  verdict,      \* devices.last_alert_ok, and the alert it is about
  pushVerdict,  \* users.last_push_ok, and the alert it is about
  stamp,        \* storage_alert_sent_at
  threads,      \* live alert threads
  raised,       \* alerts raised so far
  clock,
  lastSend,     \* history: the send of each device that returned last
  delivered,    \* history: <<alert, user>> pairs some browser received
  lastStorage   \* history: when the last storage alert that was sent began

vars == <<devices, rows, verdict, pushVerdict, stamp, threads, raised, clock,
          lastSend, delivered, lastStorage>>
tables == <<devices, rows, verdict, pushVerdict, stamp>>
history == <<lastSend, delivered, lastStorage>>

Never == -1
Times == (0 .. MaxClock) \cup {Never}
Ids == 1 .. MaxAlerts
NoVerdict == [by |-> 0, ok |-> FALSE]
Verdicts == [by : Ids \cup {0}, ok : BOOLEAN]

(* reached and missed are send_to_users' outcomes, read when it read the   *)
(* clock, ok what Apprise said.                                            *)
Thread == [id : Ids, about : Devices \cup {Volume}, ok : BOOLEAN, read : Times,
           todo : SUBSET Subscriptions, reached : SUBSET Users, missed : SUBSET Users,
           phase : {"reading", "locking", "sending", "recording", "pushing", "delivering",
                    "stamping"}]

New(about) == [id |-> raised + 1, about |-> about, ok |-> FALSE, read |-> Never,
               todo |-> {}, reached |-> {}, missed |-> {}, phase |-> "reading"]

ForDevice(t) == t.about # Volume
Becomes(t, u) == threads' = (threads \ {t}) \cup {u}
Moves(t, phase) == Becomes(t, [t EXCEPT !.phase = phase])
Ends(t) == threads' = threads \ {t}

-----------------------------------------------------------------------------
(* notify_event and notify_storage_failed return at once; the rest is the  *)
(* thread's.                                                               *)

Raise(about) ==
  /\ raised < MaxAlerts
  /\ raised' = raised + 1
  /\ threads' = threads \cup {New(about)}
  /\ UNCHANGED <<tables, clock, history>>

NotifyEvent(d) == d \in devices /\ Raise(d)

NotifyStorageFailed ==
  /\ "overlapping_storage" \in Env \/ \A t \in threads : ForDevice(t)
  /\ Raise(Volume)

(* The device row, its connectors and the users to push to. Without a      *)
(* connector nothing is sent through Apprise.                              *)
ReadDevice(t) ==
  /\ t.phase = "reading" /\ ForDevice(t)
  /\ \/ t.about \notin devices /\ Ends(t)
     \/ t.about \in devices /\ \E next \in {"locking", "pushing"} : Moves(t, next)
  /\ UNCHANGED <<tables, raised, clock, history>>

CoolingDown == stamp # Never /\ clock - stamp < Cooldown

(* The same for the volume, after the cooldown; no per-volume lock.        *)
ReadStamp(t) ==
  /\ t.phase = "reading" /\ ~ForDevice(t)
  /\ \/ CoolingDown /\ Ends(t)
     \/ /\ ~CoolingDown
        /\ \E next \in {"sending", "pushing"} : Becomes(t, [t EXCEPT !.phase = next, !.read = clock])
  /\ UNCHANGED <<tables, raised, clock, history>>

Holds(t) == ForDevice(t) /\ t.phase \in {"sending", "recording"}

(* Broken: only the write of the verdict is serialised.                    *)
LockSkipped(t) ==
  /\ t.phase = "locking"
  /\ Moves(t, "sending")
  /\ UNCHANGED <<tables, raised, clock, history>>

(* alert_lock: one alert of a device at a time.                            *)
TakeLock(t) ==
  /\ t.phase = "locking"
  /\ \A u \in threads : Holds(u) => u.about # t.about
  /\ Moves(t, "sending")
  /\ UNCHANGED <<tables, raised, clock, history>>

(* notify.send answers within its own timeout, one way or the other.       *)
SendReturns(t) ==
  /\ t.phase = "sending"
  /\ \E ok \in BOOLEAN :
       /\ Becomes(t, [t EXCEPT !.ok = ok, !.phase = IF ForDevice(t) THEN "recording" ELSE "pushing"])
       /\ lastSend' = IF ForDevice(t)
                      THEN [lastSend EXCEPT ![t.about] = [by |-> t.id, ok |-> ok]]
                      ELSE lastSend
       /\ lastStorage' = IF ok /\ ~ForDevice(t) THEN t.read ELSE lastStorage
  /\ UNCHANGED <<tables, raised, clock, delivered>>

(* The verdict is written inside the lock; no row, no verdict.             *)
Record(t) ==
  /\ t.phase = "recording"
  /\ verdict' = IF t.about \in devices
                THEN [verdict EXCEPT ![t.about] = [by |-> t.id, ok |-> t.ok]]
                ELSE verdict
  /\ Moves(t, "pushing")
  /\ UNCHANGED <<devices, rows, pushVerdict, stamp, raised, clock, history>>

-----------------------------------------------------------------------------
(* webpush.send_to_users, outside any lock. *)

(* Broken: alerts about devices hold back storage alerts too.              *)
AfterAnyPush(t) == IF t.ok \/ PushReach[Volume] # {} THEN Moves(t, "stamping") ELSE Ends(t)

(* A storage alert is stamped when Apprise took it or when there was any   *)
(* user to push to.                                                        *)
AfterPush(t) ==
  IF ~ForDevice(t) /\ (t.ok \/ PushReach[Volume] # {}) THEN Moves(t, "stamping") ELSE Ends(t)

(* Without a usable VAPID key, or without subscriptions, nothing is tried. *)
ReadSubscriptions(t) ==
  /\ t.phase = "pushing"
  /\ \/ AfterPush(t)
     \/ LET todo == {s \in rows : SubscriberOf[s] \in PushReach[t.about]}
        IN todo # {} /\ Becomes(t, [t EXCEPT !.phase = "delivering", !.todo = todo])
  /\ UNCHANGED <<tables, raised, clock, history>>

Delivered(t, s) ==
  LET u == SubscriberOf[s]
  IN /\ Becomes(t, [t EXCEPT !.todo = @ \ {s}, !.reached = @ \cup {u}])
     /\ delivered' = delivered \cup {<<t.id, u>>}
     /\ UNCHANGED rows

(* Counts for a user none of whose other browsers was reached.             *)
Missed(t, s) ==
  LET u == SubscriberOf[s]
  IN /\ Becomes(t, [t EXCEPT !.todo = @ \ {s}, !.missed = @ \cup {u}])
     /\ UNCHANGED <<rows, delivered>>

(* 404 or 410: the subscription is removed and counts as nothing.          *)
Gone(t, s) ==
  /\ Becomes(t, [t EXCEPT !.todo = @ \ {s}])
  /\ rows' = rows \ {s}
  /\ UNCHANGED delivered

(* Broken: a browser that was missed takes back that another was reached.  *)
DeliverLastCounts(t, s) ==
  /\ \/ Delivered(t, s)
     \/ /\ Becomes(t, [t EXCEPT !.todo = @ \ {s}, !.missed = @ \cup {SubscriberOf[s]},
                                !.reached = @ \ {SubscriberOf[s]}])
        /\ UNCHANGED <<rows, delivered>>
  /\ UNCHANGED <<devices, verdict, pushVerdict, stamp, raised, clock, lastSend, lastStorage>>

Deliver(t, s) ==
  /\ Delivered(t, s) \/ Missed(t, s) \/ Gone(t, s)
  /\ UNCHANGED <<devices, verdict, pushVerdict, stamp, raised, clock, lastSend, lastStorage>>

(* _record_outcomes, one UPDATE after the other.                           *)
RecordOutcome(t, u) ==
  /\ pushVerdict' = [pushVerdict EXCEPT ![u] = [by |-> t.id, ok |-> u \in t.reached]]
  /\ Becomes(t, [t EXCEPT !.reached = @ \ {u}, !.missed = @ \ {u}])
  /\ UNCHANGED <<devices, rows, verdict, stamp, raised, clock, history>>

PushEnds(t) ==
  /\ t.reached \cup t.missed = {}
  /\ AfterPush(t)
  /\ UNCHANGED <<tables, raised, clock, history>>

Push(t) ==
  /\ t.phase = "delivering"
  /\ \/ \E s \in t.todo : Deliver(t, s)
     \/ t.todo = {} /\ \E u \in t.reached \cup t.missed : RecordOutcome(t, u)
     \/ t.todo = {} /\ PushEnds(t)

(* Broken: the time is not kept.                                           *)
StampForgotten(t) ==
  /\ t.phase = "stamping"
  /\ Ends(t)
  /\ UNCHANGED <<tables, raised, clock, history>>

Stamp(t) ==
  /\ t.phase = "stamping"
  /\ stamp' = t.read
  /\ Ends(t)
  /\ UNCHANGED <<devices, rows, verdict, pushVerdict, raised, clock, history>>

ThreadStep(t) ==
  \/ ReadDevice(t)
  \/ ReadStamp(t)
  \/ TakeLock(t)
  \/ SendReturns(t)
  \/ Record(t)
  \/ ReadSubscriptions(t)
  \/ Push(t)
  \/ Stamp(t)

-----------------------------------------------------------------------------
(* Everything else. *)

Remove(d) ==
  /\ d \in devices
  /\ devices' = devices \ {d}
  /\ UNCHANGED <<rows, verdict, pushVerdict, stamp, threads, raised, clock, history>>

Revoke(s) ==
  /\ s \in rows
  /\ rows' = rows \ {s}
  /\ UNCHANGED <<devices, verdict, pushVerdict, stamp, threads, raised, clock, history>>

(* The worker dies with its daemon threads. What was sent and not yet      *)
(* recorded is nobody's any more: the histories forget it too.             *)
Killed ==
  /\ threads # {}
  /\ threads' = {}
  /\ lastSend' = verdict
  /\ lastStorage' = stamp
  /\ UNCHANGED <<tables, raised, clock, delivered>>

TimePasses ==
  /\ clock < MaxClock
  /\ clock' = clock + 1
  /\ UNCHANGED <<tables, threads, raised, history>>

Init ==
  /\ devices = Devices
  /\ rows = Subscriptions
  /\ verdict = [d \in Devices |-> NoVerdict]
  /\ pushVerdict = [u \in Users |-> NoVerdict]
  /\ stamp = Never
  /\ threads = {}
  /\ raised = 0
  /\ clock = 0
  /\ lastSend = verdict
  /\ delivered = {}
  /\ lastStorage = Never

Next ==
  \/ \E d \in Devices : NotifyEvent(d) \/ Remove(d)
  \/ NotifyStorageFailed
  \/ \E t \in threads : ThreadStep(t)
  \/ \E s \in Subscriptions : Revoke(s)
  \/ Killed
  \/ TimePasses

Spec == Init /\ [][Next]_vars

-----------------------------------------------------------------------------
(* Properties. *)

TypeOK ==
  /\ devices \subseteq Devices
  /\ rows \subseteq Subscriptions
  /\ {verdict, lastSend} \subseteq [Devices -> Verdicts]
  /\ pushVerdict \in [Users -> Verdicts]
  /\ {stamp, lastStorage} \subseteq Times
  /\ threads \subseteq Thread
  /\ \A t \in threads : t.phase = "stamping" => t.about = Volume /\ t.read # Never
  /\ raised \in 0 .. MaxAlerts
  /\ clock \in 0 .. MaxClock
  /\ delivered \subseteq Ids \X Users

(* The device page shows the outcome of the send that returned last,       *)
(* however the alerts of a device overlap (runtime.py:165-192).            *)
VerdictIsLastSend ==
  \A d \in devices :
    (\A t \in threads : Holds(t) => t.about # d) => verdict[d] = lastSend[d]

(* A push counts as failed for a user exactly when none of the user's      *)
(* browsers received it (webpush.py:33-43).                                *)
PushVerdictHonest ==
  \A u \in Users :
    pushVerdict[u].by # 0 => (pushVerdict[u].ok <=> <<pushVerdict[u].by, u>> \in delivered)

(* Between two storage alerts that were sent the cooldown passes           *)
(* (runtime.py:224-228), as long as the second is raised when the first is *)
(* done. A kill, which leaves no thread, only forgets.                     *)
OnePerCooldown ==
  [][lastStorage' # lastStorage /\ lastStorage # Never /\ threads' # {}
       => lastStorage' - lastStorage >= Cooldown]_vars

(* The two verdicts a page shows are true at every moment.                 *)
VerdictsTrue == TypeOK /\ VerdictIsLastSend /\ PushVerdictHonest
=============================================================================
