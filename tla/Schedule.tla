----------------------------- MODULE Schedule ------------------------------
(***************************************************************************)
(* What one device sees of the schedule: the minute task and its lease,    *)
(* scheduler.decide over the device's timestamps, and the start, reminders *)
(* and stamps the tick carries out for it. Time is the worker's local wall *)
(* clock in minutes, without changes to or from daylight saving time.      *)
(***************************************************************************)
EXTENDS Integers, Sequences, FiniteSets

CONSTANTS
  Day,               \* minutes in a day
  WindowStart, WindowEnd,
  Offsets,           \* _RETRY_OFFSETS
  Interval,          \* interval_hours
  OverdueSpan,       \* overdue_days
  OverdueCooldown,   \* _OVERDUE_ALERT_COOLDOWN
  Lead,              \* notice_lead_minutes
  TickEvery,         \* BIOSEASY_SCHEDULE_MINUTES
  Horizon,           \* bound: minutes the model runs for
  Env                \* the environment conditions this instance admits

(* slow_discovery  minutes pass between a tick's reading of the clock and  *)
(*                 its decisions                                           *)
(* late_ticks      the consumer is busy and whole minutes go untried       *)
(* aborted_ticks   a tick ends between two of its effects: the worker is   *)
(*                 killed, or a statement raises                           *)
Conditions == {"slow_discovery", "late_ticks", "aborted_ticks"}

ASSUME ScheduleAssumption ==
  /\ Day \in Nat \ {0}
  /\ {WindowStart, WindowEnd} \subseteq 0 .. Day - 1
  /\ Offsets \subseteq 0 .. Day /\ 0 \in Offsets
  /\ {Interval, OverdueSpan, OverdueCooldown} \subseteq Nat \ {0}
  /\ {Lead, TickEvery, Horizon} \subseteq Nat
  /\ Env \subseteq Conditions

VARIABLES
  now,          \* the wall clock
  tried,        \* the last minute whose periodic task has run
  lease,        \* settings.tick_lease
  tick,         \* the tick in progress, or the last one
  running,      \* whether JobManager runs a backup of the device
  lastSuccess,  \* newest finished_at of its succeeded runs
  lastAttempt,  \* newest started_at of its runs
  stamps,       \* last_nudge_at, last_overdue_alert_at, last_window_notice_at
  sent,         \* history: the tick that last sent each reminder
  starts        \* history: scheduled starts in the newest window occurrence

vars == <<now, tried, lease, tick, running, lastSuccess, lastAttempt, stamps, sent, starts>>
runVars == <<running, lastSuccess, lastAttempt>>
history == <<sent, starts>>

Epoch == 2 * Day  \* when the device is added
Never == -1
Times == 0 .. Epoch + Horizon + Day
Reminders == {"overdue", "nudge", "notice"}

-----------------------------------------------------------------------------
(* scheduler.py: the pure decisions, at time t. *)

Clock(t) == t % Day

(* Broken: the minute the window ends in still counts.                     *)
InWindowClosed(t) ==
  \/ WindowStart = WindowEnd
  \/ WindowStart < WindowEnd /\ Clock(t) \in WindowStart .. WindowEnd
  \/ WindowStart > WindowEnd /\ (Clock(t) >= WindowStart \/ Clock(t) <= WindowEnd)

(* Equal bounds mean the whole day; a window may cross midnight.           *)
InWindow(t) ==
  \/ WindowStart = WindowEnd
  \/ WindowStart < WindowEnd /\ Clock(t) \in WindowStart .. WindowEnd - 1
  \/ WindowStart > WindowEnd /\ (Clock(t) >= WindowStart \/ Clock(t) < WindowEnd)

Today(t) == t - Clock(t) + WindowStart

LastStart(t) == IF Today(t) > t THEN Today(t) - Day ELSE Today(t)
NextStart(t) == IF Today(t) < t THEN Today(t) + Day ELSE Today(t)

(* Broken: the slot of the last attempt counts as still to come.           *)
NextSlotOffByOne(elapsed) ==
  {o \in Offsets : o >= elapsed /\ \A other \in Offsets : other >= elapsed => o <= other}

(* The next retry slot after an attempt this long into the window.         *)
NextSlot(elapsed) ==
  {o \in Offsets : o > elapsed /\ \A other \in Offsets : other > elapsed => o <= other}

(* Broken: only the last slot is ever used for another attempt.            *)
AttemptAllowedLast(t) ==
  \/ lastAttempt < LastStart(t)
  \/ \A o \in Offsets : t >= LastStart(t) + o

AttemptAllowed(t) ==
  \/ lastAttempt < LastStart(t)
  \/ \E o \in NextSlot(lastAttempt - LastStart(t)) : t >= LastStart(t) + o

Stale(last, t, period) == last = Never \/ t - last >= period

Due(t) == Stale(lastSuccess, t, Interval)

StartBackup(t, able) == Due(t) /\ able /\ InWindow(t) /\ AttemptAllowed(t)

Nudge(t, able) == Due(t) /\ ~StartBackup(t, able) /\ Stale(stamps.nudge, t, Interval)

LongOverdue(t) == t - (IF lastSuccess = Never THEN Epoch ELSE lastSuccess) >= OverdueSpan

(* Broken: one stamp for both kinds of reminder.                           *)
OverdueAfterNudge(t) == LongOverdue(t) /\ Stale(stamps.nudge, t, OverdueCooldown)

Overdue(t) == LongOverdue(t) /\ Stale(stamps.overdue, t, OverdueCooldown)

(* Broken: a window that opens in exactly the lead time is not announced.  *)
NoticeShort(t) ==
  /\ Due(t)
  /\ ~InWindow(t)
  /\ NextStart(t) - t < Lead
  /\ stamps.notice # NextStart(t)

Notice(t) ==
  /\ Due(t)
  /\ ~InWindow(t)
  /\ NextStart(t) - t <= Lead
  /\ stamps.notice # NextStart(t)

-----------------------------------------------------------------------------
(* The tick. *)

Tried == tried' = now

(* Another tick was begun within TickEvery, or exactly that long ago.      *)
TickRefused ==
  /\ tick.phase = "idle"
  /\ tried # now
  /\ Tried
  /\ lease # Never /\ lease >= now - TickEvery
  /\ UNCHANGED <<now, lease, tick, runVars, stamps, history>>

(* acquire_tick_lease; then discovery, with the clock already read.        *)
TickBegins ==
  /\ tick.phase = "idle"
  /\ tried # now
  /\ Tried
  /\ lease = Never \/ lease < now - TickEvery
  /\ lease' = now
  /\ tick' = [tick EXCEPT !.phase = "discovering", !.at = now]
  /\ UNCHANGED <<now, runVars, stamps, history>>

Effects(reminder, wanted) ==
  IF wanted THEN <<<<"send", reminder>>, <<"stamp", reminder>>>> ELSE <<>>

(* able: seen by discovery and, where the device asks for it, confirmed to *)
(* be charging.                                                            *)
Decided(able) ==
  LET t == tick.at
  IN IF running THEN <<>>
     ELSE (IF StartBackup(t, able) THEN <<<<"start", "backup">>>> ELSE <<>>)
            \o Effects("overdue", Overdue(t))
            \o Effects("nudge", Nudge(t, able))
            \o Effects("notice", Notice(t))

Decide ==
  /\ tick.phase = "discovering"
  /\ \E able \in BOOLEAN :
       tick' = [tick EXCEPT !.phase = "acting", !.plan = Decided(able),
                            !.busy = running, !.able = able]
  /\ UNCHANGED <<now, tried, lease, runVars, stamps, history>>

Doing(what, kind) ==
  /\ tick.phase = "acting"
  /\ tick.plan # <<>>
  /\ Head(tick.plan) = <<what, kind>>
  /\ tick' = [tick EXCEPT !.plan = Tail(@)]

(* JobManager.start: the run row carries the time of the start itself.     *)
Start ==
  /\ Doing("start", "backup")
  /\ IF running
     THEN UNCHANGED <<runVars, starts>>
     ELSE /\ running' = TRUE
          /\ lastAttempt' = now
          /\ UNCHANGED lastSuccess
          /\ starts' = [of |-> LastStart(tick.at),
                        count |-> 1 + IF starts.of = LastStart(tick.at) THEN starts.count ELSE 0]
  /\ UNCHANGED <<now, tried, lease, stamps, sent>>

Send(reminder) ==
  /\ Doing("send", reminder)
  /\ sent' = [sent EXCEPT ![reminder] = tick.at]
  /\ UNCHANGED <<now, tried, lease, runVars, stamps, starts>>

(* Broken: the overdue alert stamps the nudge's column.                    *)
StampSwapped(reminder) ==
  /\ Doing("stamp", reminder)
  /\ stamps' = [stamps EXCEPT ![IF reminder = "overdue" THEN "nudge" ELSE reminder] =
                  IF reminder = "notice" THEN NextStart(tick.at) ELSE tick.at]
  /\ UNCHANGED <<now, tried, lease, runVars, history>>

(* The notice is stamped with the window it announces.                     *)
Stamp(reminder) ==
  /\ Doing("stamp", reminder)
  /\ stamps' = [stamps EXCEPT ![reminder] =
                  IF reminder = "notice" THEN NextStart(tick.at) ELSE tick.at]
  /\ UNCHANGED <<now, tried, lease, runVars, history>>

(* Broken: an early return leaves effects undone.                          *)
TickEndsEarly ==
  /\ tick.phase = "acting"
  /\ tick' = [tick EXCEPT !.phase = "idle"]
  /\ UNCHANGED <<now, tried, lease, runVars, stamps, history>>

TickEnds ==
  /\ tick.phase = "acting"
  /\ tick.plan = <<>>
  /\ tick' = [tick EXCEPT !.phase = "idle"]
  /\ UNCHANGED <<now, tried, lease, runVars, stamps, history>>

TickAborts ==
  /\ "aborted_ticks" \in Env
  /\ tick.phase = "acting"
  /\ tick' = [tick EXCEPT !.phase = "idle", !.plan = <<>>]
  /\ UNCHANGED <<now, tried, lease, runVars, stamps, history>>

-----------------------------------------------------------------------------
(* Everything else. *)

Minute ==
  /\ now < Epoch + Horizon
  /\ \/ tick.phase = "idle" /\ (tried = now \/ "late_ticks" \in Env)
     \/ tick.phase = "discovering" /\ "slow_discovery" \in Env
  /\ now' = now + 1
  /\ UNCHANGED <<tried, lease, tick, runVars, stamps, history>>

(* A click, or the Shortcuts API.                                          *)
ManualStart ==
  /\ ~running
  /\ running' = TRUE
  /\ lastAttempt' = now
  /\ UNCHANGED <<now, tried, lease, tick, lastSuccess, stamps, history>>

RunEnds ==
  /\ running
  /\ running' = FALSE
  /\ lastSuccess' \in {lastSuccess, now}
  /\ UNCHANGED <<now, tried, lease, tick, lastAttempt, stamps, history>>

Init ==
  /\ now = Epoch
  /\ tried = Never
  /\ lease = Never
  /\ tick = [phase |-> "idle", at |-> Epoch, plan |-> <<>>, busy |-> TRUE, able |-> FALSE]
  /\ running = FALSE
  /\ lastSuccess = Never
  /\ lastAttempt = Never
  /\ stamps = [r \in Reminders |-> Never]
  /\ sent = [r \in Reminders |-> Never]
  /\ starts = [of |-> Never, count |-> 0]

Next ==
  \/ TickRefused
  \/ TickBegins
  \/ Decide
  \/ Start
  \/ \E reminder \in Reminders : Send(reminder) \/ Stamp(reminder)
  \/ TickEnds
  \/ TickAborts
  \/ Minute
  \/ ManualStart
  \/ RunEnds

Spec == Init /\ [][Next]_vars

-----------------------------------------------------------------------------
(* Properties. *)

TypeOK ==
  /\ now \in Epoch .. Epoch + Horizon
  /\ {tried, lease, lastSuccess, lastAttempt} \subseteq Times \cup {Never}
  /\ tick.phase \in {"idle", "discovering", "acting"}
  /\ tick.at \in Times
  /\ tick.plan \in Seq({"start", "send", "stamp"} \X (Reminders \cup {"backup"}))
  /\ tick.phase # "acting" => tick.plan = <<>>
  /\ {tick.busy, tick.able, running} \subseteq BOOLEAN
  /\ stamps \in [Reminders -> Times \cup {Never}]
  /\ sent \in [Reminders -> Times \cup {Never}]
  /\ starts.of \in Times \cup {Never} /\ starts.count \in Nat

(* A window opens at WindowStart and lasts to the next WindowEnd.          *)
Length == IF WindowStart = WindowEnd THEN Day ELSE (WindowEnd - WindowStart) % Day
InsideOccurrence(t) == \E s \in t - Length + 1 .. t : Clock(s) = WindowStart

(* A scheduled backup starts inside the device's window (scheduler.py:4-6),*)
(* by the clock on the wall when it starts.                                *)
StartsInWindow ==
  [][starts' # starts => InsideOccurrence(now)]_vars

(* The stepped schedule gives one window occurrence at most one scheduled  *)
(* start per slot, however the starts end (scheduler.py:20-30, 100-110).   *)
AttemptsBounded == starts.count <= Cardinality(Offsets)

(* ... and leaves none out: after a tick that found the due device within  *)
(* reach and idle inside its window, the latest slot that had come by then *)
(* has been used.                                                          *)
NoSlotLost ==
  tick.phase = "idle" /\ tick.able /\ ~tick.busy /\ Due(tick.at) /\ InWindow(tick.at) =>
    \A o \in Offsets : LastStart(tick.at) + o <= tick.at => lastAttempt >= LastStart(tick.at) + o

(* A tick that found the device idle and without a good backup for longer  *)
(* than OverdueSpan leaves an alert no older than the cooldown, whatever   *)
(* other reminders were sent (scheduler.py:178-188).                       *)
OverdueTold ==
  tick.phase = "idle" /\ ~tick.busy /\ LongOverdue(tick.at) =>
    sent.overdue # Never /\ tick.at - sent.overdue < OverdueCooldown

(* At most one nudge and one overdue alert per period, and one notice per  *)
(* window (scheduler.py:6-8, docs/concept.md:36-39).                       *)
RemindersSpaced ==
  [][/\ sent'.nudge # sent.nudge => Stale(sent.nudge, sent'.nudge, Interval)
     /\ sent'.overdue # sent.overdue => Stale(sent.overdue, sent'.overdue, OverdueCooldown)
     /\ sent'.notice # sent.notice =>
          sent.notice = Never \/ NextStart(sent.notice) # NextStart(sent'.notice)]_vars

(* A new device's first scheduled attempt, the device being due anyway, is *)
(* announced when there was time to announce it (docs/concept.md:34-36),   *)
(* ticks being no further apart than the lead.                             *)
NoticeGiven ==
  [][starts' # starts /\ lastAttempt = Never /\ LastStart(tick.at) - Lead >= Epoch
       => sent.notice # Never /\ NextStart(sent.notice) = LastStart(tick.at)]_vars

(* What holds at the end of every tick.                                    *)
ScheduleInv == TypeOK /\ NoSlotLost /\ OverdueTold
=============================================================================
