--------------------------- MODULE ScheduleProofs ---------------------------
(***************************************************************************)
(* Theorems about Schedule, for every window, every set of retry slots and *)
(* every set of environment conditions.                                    *)
(***************************************************************************)
EXTENDS Schedule, FiniteSetTheorems, SequenceTheorems, WellFoundedInduction, TLAPS

-----------------------------------------------------------------------------
(* The window and its slots. *)

(* _last_window_start_at_or_before keeps its name's promise.               *)
LEMMA LastStartBefore ==
  ASSUME NEW t \in Int
  PROVE  LastStart(t) \in Int /\ LastStart(t) <= t
<1>1. Clock(t) \in 0 .. Day - 1
  BY ScheduleAssumption DEF Clock
<1>2. WindowStart \in 0 .. Day - 1 /\ Day \in Nat
  BY ScheduleAssumption
<1> QED BY <1>1, <1>2 DEF LastStart, Today

(* The retry slots are whole minutes.                                      *)
LEMMA OffsetsAreNumbers == \A o \in Offsets : o \in Int
BY ScheduleAssumption

(* The slots of the window occurrence w that have come by the time t.      *)
Slots(w, t) == {o \in Offsets : w + o <= t}

(* There are no more slots than _RETRY_OFFSETS holds.                      *)
LEMMA SlotsFinite ==
  ASSUME NEW w \in Int, NEW t \in Int
  PROVE  /\ IsFiniteSet(Slots(w, t))
         /\ Cardinality(Slots(w, t)) \in Nat
         /\ Cardinality(Slots(w, t)) <= Cardinality(Offsets)
<1>1. IsFiniteSet(0 .. Day)
  BY FS_Interval, ScheduleAssumption
<1>2. IsFiniteSet(Offsets)
  BY <1>1, FS_Subset, ScheduleAssumption
<1>3. Slots(w, t) \subseteq Offsets
  BY DEF Slots
<1> QED BY <1>2, <1>3, FS_Subset, FS_CardinalityType

(* More slots have come later.                                             *)
LEMMA SlotsGrow ==
  ASSUME NEW w \in Int, NEW t \in Int, NEW u \in Int, t <= u
  PROVE  Cardinality(Slots(w, t)) <= Cardinality(Slots(w, u))
<1>1. Slots(w, t) \subseteq Slots(w, u)
  BY OffsetsAreNumbers DEF Slots
<1>2. IsFiniteSet(Slots(w, u))
  BY SlotsFinite
<1> QED BY <1>1, <1>2, FS_Subset

(* The first slot is the start of the window itself.                       *)
LEMMA FirstSlot ==
  ASSUME NEW w \in Int, NEW t \in Int, w <= t
  PROVE  1 <= Cardinality(Slots(w, t))
<1>1. 0 \in Slots(w, t)
  BY ScheduleAssumption DEF Slots
<1>2. Slots(w, t) # {} /\ IsFiniteSet(Slots(w, t)) /\ Cardinality(Slots(w, t)) \in Nat
  BY <1>1, SlotsFinite
<1>3. Cardinality(Slots(w, t)) # 0
  BY <1>2, FS_EmptySet
<1> QED BY <1>2, <1>3

(* Between an attempt and the next slot after it there is one slot more.   *)
LEMMA OneSlotMore ==
  ASSUME NEW w \in Int, NEW last \in Int, NEW t \in Int,
         NEW o \in NextSlot(last - w), w + o <= t
  PROVE  Cardinality(Slots(w, last)) + 1 <= Cardinality(Slots(w, t))
<1>1. o \in Offsets /\ o \in Int /\ o > last - w
  BY OffsetsAreNumbers DEF NextSlot
<1>2. last < w + o /\ ~(w + o <= last)
  BY <1>1
<1>3. /\ \A p \in Slots(w, last) : p \in Slots(w, t)
      /\ o \in Slots(w, t) /\ o \notin Slots(w, last)
  <2>1. \A p \in Offsets : w + p <= last => w + p <= t
    BY <1>1, <1>2, OffsetsAreNumbers
  <2>2. \A p \in Slots(w, last) : p \in Slots(w, t)
    BY <2>1 DEF Slots
  <2>3. o \in Slots(w, t)
    BY <1>1 DEF Slots
  <2>4. o \notin Slots(w, last)
    BY <1>2 DEF Slots
  <2> QED BY <2>2, <2>3, <2>4
<1>4. /\ IsFiniteSet(Slots(w, last) \cup {o})
      /\ Cardinality(Slots(w, last) \cup {o}) = Cardinality(Slots(w, last)) + 1
  BY <1>3, SlotsFinite, FS_AddElement
<1>5. Slots(w, last) \cup {o} \subseteq Slots(w, t)
  BY <1>3
<1>6. IsFiniteSet(Slots(w, t))
  BY SlotsFinite
<1> QED BY <1>4, <1>5, <1>6, FS_Subset

-----------------------------------------------------------------------------
(* What a tick has planned. *)

Effect == {"send", "stamp"} \X Reminders
StartEffect == <<"start", "backup">>

(* A start, if there is one, comes first.                                  *)
StartFirst(plan) ==
  /\ plan \in Seq(Effect \cup {StartEffect})
  /\ \A i \in 2 .. Len(plan) : plan[i] \in Effect

StartPlanned(plan) == plan # <<>> /\ Head(plan) = StartEffect

(* Starting a backup is not one of the reminder effects.                   *)
LEMMA StartIsNoReminder == StartEffect \notin Effect
BY DEF StartEffect, Effect

(* Each reminder that is due is sent, then stamped.                        *)
LEMMA EffectsAreEffects ==
  ASSUME NEW reminder \in Reminders, NEW wanted
  PROVE  Effects(reminder, wanted) \in Seq(Effect)
<1>1. <<"send", reminder>> \in Effect /\ <<"stamp", reminder>> \in Effect
  BY DEF Effect
<1> HIDE DEF Effect
<1>2. CASE wanted
  BY <1>1, <1>2 DEF Effects
<1>3. CASE ~wanted
  BY <1>3 DEF Effects
<1> QED BY <1>2, <1>3

(* Reminders planned after a plan leave its start where it was.            *)
LEMMA RemindersAppended ==
  ASSUME NEW plan, StartFirst(plan), NEW reminders \in Seq(Effect)
  PROVE  /\ StartFirst(plan \o reminders)
         /\ StartPlanned(plan \o reminders) => StartPlanned(plan)
<1> DEFINE S == Effect \cup {StartEffect}
           both == plan \o reminders
<1>1. plan \in Seq(S) /\ reminders \in Seq(S)
  BY DEF StartFirst
<1>2. /\ both \in Seq(S)
      /\ Len(both) = Len(plan) + Len(reminders)
      /\ \A i \in 1 .. Len(plan) + Len(reminders) :
           both[i] = IF i <= Len(plan) THEN plan[i] ELSE reminders[i - Len(plan)]
  BY <1>1, ConcatProperties
<1>3. Len(plan) \in Nat /\ Len(reminders) \in Nat /\ \A i \in 1 .. Len(reminders) : reminders[i] \in Effect
  BY <1>1
<1> HIDE DEF both
<1>4. \A i \in 2 .. Len(both) : both[i] \in Effect
  BY <1>2, <1>3 DEF StartFirst
<1>5. ASSUME StartPlanned(both) PROVE StartPlanned(plan)
  <2>1. both[1] = StartEffect /\ Len(both) >= 1
    BY <1>2, <1>3, <1>5 DEF StartPlanned
  <2>2. Len(plan) >= 1 /\ plan[1] = StartEffect
    BY <1>2, <1>3, <2>1, StartIsNoReminder
  <2> QED BY <1>1, <2>2 DEF StartPlanned
<1>6. StartFirst(both)
  BY <1>2, <1>4 DEF StartFirst
<1> QED BY <1>5, <1>6 DEF both

(* Only an idle device that may be started now is planned to be started.   *)
LEMMA DecidedShape ==
  ASSUME NEW able \in BOOLEAN
  PROVE  /\ StartFirst(Decided(able))
         /\ StartPlanned(Decided(able)) => StartBackup(tick.at, able)
<1> DEFINE t == tick.at
           start == IF StartBackup(t, able) THEN <<StartEffect>> ELSE <<>>
           overdue == Effects("overdue", Overdue(t))
           nudge == Effects("nudge", Nudge(t, able))
           notice == Effects("notice", Notice(t))
<1>1. overdue \in Seq(Effect) /\ nudge \in Seq(Effect) /\ notice \in Seq(Effect)
  BY EffectsAreEffects DEF Reminders
<1>2. StartFirst(start) /\ (StartPlanned(start) => StartBackup(t, able))
  <2>1. CASE StartBackup(t, able)
    BY <2>1 DEF StartFirst
  <2>2. CASE ~StartBackup(t, able)
    BY <2>2 DEF StartFirst, StartPlanned
  <2> QED BY <2>1, <2>2
<1>3. Decided(able) = IF running THEN <<>> ELSE start \o overdue \o nudge \o notice
  BY DEF Decided, StartEffect
<1> HIDE DEF start, overdue, nudge, notice
<1>4. /\ StartFirst(start \o overdue)
      /\ StartPlanned(start \o overdue) => StartPlanned(start)
  BY <1>1, <1>2, RemindersAppended
<1>5. /\ StartFirst(start \o overdue \o nudge)
      /\ StartPlanned(start \o overdue \o nudge) => StartPlanned(start \o overdue)
  BY <1>1, <1>4, RemindersAppended
<1>6. /\ StartFirst(start \o overdue \o nudge \o notice)
      /\ StartPlanned(start \o overdue \o nudge \o notice)
           => StartPlanned(start \o overdue \o nudge)
  BY <1>1, <1>5, RemindersAppended
<1>7. StartFirst(<<>>) /\ ~StartPlanned(<<>>)
  BY DEF StartFirst, StartPlanned
<1> QED BY <1>2, <1>3, <1>4, <1>5, <1>6, <1>7

-----------------------------------------------------------------------------
(* The invariant: every start counted used up a slot of its own, and a     *)
(* start that is planned still has one left.                               *)

Shaped ==
  /\ now \in Int /\ lastAttempt \in Int /\ running \in BOOLEAN
  /\ tick \in [phase : {"idle", "discovering", "acting"}, at : Int,
               plan : Seq(Effect \cup {StartEffect}), busy : BOOLEAN, able : BOOLEAN]
  /\ starts \in [of : Int, count : Nat]
  /\ StartFirst(tick.plan)
  /\ tick.phase # "acting" => tick.plan = <<>>

PastTimes == tick.at <= now /\ lastAttempt <= now

Counted ==
  \/ starts.count = 0
  \/ /\ starts.of <= lastAttempt
     /\ starts.count <= Cardinality(Slots(starts.of, lastAttempt))

Pending ==
  StartPlanned(tick.plan) /\ starts.of = LastStart(tick.at) =>
    starts.count + 1 <= Cardinality(Slots(starts.of, tick.at))

SlotInv == Shaped /\ PastTimes /\ Counted /\ Pending

(* Nothing is counted or planned when the device is added.                 *)
LEMMA SlotInvInit == Init => SlotInv
<1> SUFFICES ASSUME Init PROVE SlotInv
  OBVIOUS
<1>1. Epoch \in Int /\ Epoch >= 0
  BY ScheduleAssumption DEF Epoch
<1>2. StartFirst(<<>>)
  BY DEF StartFirst
<1>3. Shaped
  <2>1. /\ tick = [phase |-> "idle", at |-> Epoch, plan |-> <<>>, busy |-> TRUE, able |-> FALSE]
        /\ starts = [of |-> -1, count |-> 0]
        /\ now = Epoch /\ lastAttempt = -1 /\ running = FALSE
    BY DEF Init, Never
  <2>2. <<>> \in Seq(Effect \cup {StartEffect})
    OBVIOUS
  <2>3. tick \in [phase : {"idle", "discovering", "acting"}, at : Int,
                  plan : Seq(Effect \cup {StartEffect}), busy : BOOLEAN, able : BOOLEAN]
    BY <1>1, <2>1, <2>2
  <2>4. StartFirst(tick.plan) /\ tick.plan = <<>>
    BY <1>2, <2>1
  <2>5. starts \in [of : Int, count : Nat]
    BY <2>1
  <2> QED BY <1>1, <2>1, <2>3, <2>4, <2>5 DEF Shaped
<1>4. PastTimes /\ Counted
  BY <1>1 DEF Init, PastTimes, Counted, Never
<1>5. Pending
  BY DEF Init, Pending, StartPlanned
<1> QED BY <1>3, <1>4, <1>5 DEF SlotInv

(* A start is planned only while a slot is left for it.                    *)
LEMMA DecideKeepsSlotInv == SlotInv /\ Decide => SlotInv'
<1> SUFFICES ASSUME SlotInv, Decide PROVE SlotInv'
  OBVIOUS
<1> USE DEF SlotInv
<1>1. PICK able \in BOOLEAN :
        tick' = [tick EXCEPT !.phase = "acting", !.plan = Decided(able),
                             !.busy = running, !.able = able]
  BY DEF Decide
<1>2. UNCHANGED <<now, lastAttempt, running, starts>>
  BY DEF Decide, runVars, history
<1>3. /\ StartFirst(Decided(able))
      /\ StartPlanned(Decided(able)) => StartBackup(tick.at, able)
  BY DecidedShape
<1>4. Decided(able) \in Seq(Effect \cup {StartEffect})
  BY <1>3 DEF StartFirst
<1>5. /\ tick' \in [phase : {"idle", "discovering", "acting"}, at : Int,
                    plan : Seq(Effect \cup {StartEffect}), busy : BOOLEAN, able : BOOLEAN]
      /\ tick'.at = tick.at /\ tick'.plan = Decided(able) /\ tick'.phase = "acting"
  BY <1>1, <1>4 DEF Shaped
<1>6. Shaped'
  BY <1>2, <1>3, <1>5 DEF Shaped, StartFirst
<1>7. PastTimes' /\ Counted'
  BY <1>2, <1>5 DEF PastTimes, Counted, Slots
<1>8. Pending'
  <2> SUFFICES ASSUME StartBackup(tick.at, able), starts.of = LastStart(tick.at)
               PROVE  starts.count + 1 <= Cardinality(Slots(starts.of, tick.at))
    BY <1>2, <1>3, <1>5 DEF Pending, StartPlanned, LastStart, Today, Clock, Slots
  <2>1. /\ tick.at \in Int /\ starts.of \in Int /\ starts.of <= tick.at
        /\ lastAttempt \in Int /\ starts.count \in Nat
    BY LastStartBefore DEF Shaped
  <2>2. CASE starts.count = 0
    <3>1. 1 <= Cardinality(Slots(starts.of, tick.at))
      BY <2>1, FirstSlot
    <3> QED BY <2>2, <3>1
  <2>3. CASE starts.count # 0
    <3>1. /\ starts.of <= lastAttempt
          /\ starts.count <= Cardinality(Slots(starts.of, lastAttempt))
      BY <2>3 DEF Counted
    <3>2. PICK o \in NextSlot(lastAttempt - starts.of) : tick.at >= starts.of + o
      BY <2>1, <3>1 DEF StartBackup, AttemptAllowed
    <3>3. starts.of + o <= tick.at
      BY <2>1, <3>2, OffsetsAreNumbers DEF NextSlot
    <3>4. Cardinality(Slots(starts.of, lastAttempt)) + 1 <= Cardinality(Slots(starts.of, tick.at))
      BY <2>1, <3>2, <3>3, OneSlotMore
    <3>5. /\ Cardinality(Slots(starts.of, lastAttempt)) \in Nat
          /\ Cardinality(Slots(starts.of, tick.at)) \in Nat
      BY <2>1, SlotsFinite
    <3> QED BY <2>1, <3>1, <3>4, <3>5
  <2> QED BY <2>2, <2>3
<1> QED BY <1>6, <1>7, <1>8

(* What is left of a plan after its first effect starts nothing.           *)
LEMMA TailOfPlan ==
  ASSUME NEW plan, StartFirst(plan), plan # <<>>
  PROVE  StartFirst(Tail(plan)) /\ ~StartPlanned(Tail(plan))
<1> DEFINE S == Effect \cup {StartEffect}
           rest == Tail(plan)
<1>1. plan \in Seq(S) /\ Len(plan) \in Nat \ {0}
  BY DEF StartFirst
<1>2. /\ rest \in Seq(S) /\ Len(rest) = Len(plan) - 1
      /\ \A i \in 1 .. Len(rest) : rest[i] = plan[i + 1]
  BY <1>1
<1>3. \A i \in 1 .. Len(rest) : rest[i] \in Effect
  BY <1>1, <1>2 DEF StartFirst
<1> HIDE DEF rest
<1>4. StartFirst(rest)
  BY <1>1, <1>2, <1>3 DEF StartFirst
<1>5. ~StartPlanned(rest)
  <2> SUFFICES ASSUME rest # <<>> PROVE Head(rest) # StartEffect
    BY DEF StartPlanned
  <2>1. 1 \in 1 .. Len(rest) /\ Head(rest) = rest[1]
    BY <1>1, <1>2
  <2> QED BY <1>3, <2>1, StartIsNoReminder
<1> QED BY <1>4, <1>5 DEF rest

(* A scheduled start uses up the slot that was left for it, and the run is *)
(* an attempt from the moment it starts.                                   *)
LEMMA StartKeepsSlotInv == SlotInv /\ Start => SlotInv'
<1> SUFFICES ASSUME SlotInv, Start PROVE SlotInv'
  OBVIOUS
<1> USE DEF SlotInv
<1>1. /\ tick.plan # <<>> /\ Head(tick.plan) = StartEffect
      /\ tick' = [tick EXCEPT !.plan = Tail(@)]
      /\ tick.phase = "acting" /\ now' = now
  BY DEF Start, Doing, StartEffect
<1>2. StartFirst(Tail(tick.plan)) /\ ~StartPlanned(Tail(tick.plan))
  BY <1>1, TailOfPlan DEF Shaped
<1>3. Tail(tick.plan) \in Seq(Effect \cup {StartEffect})
  BY <1>2 DEF StartFirst
<1>4. /\ tick' \in [phase : {"idle", "discovering", "acting"}, at : Int,
                    plan : Seq(Effect \cup {StartEffect}), busy : BOOLEAN, able : BOOLEAN]
      /\ tick'.at = tick.at /\ tick'.plan = Tail(tick.plan) /\ tick'.phase = "acting"
  BY <1>1, <1>3 DEF Shaped
<1>5. Pending'
  BY <1>2, <1>4 DEF Pending, StartPlanned
<1>6. CASE running
  <2>1. UNCHANGED <<running, lastAttempt, starts>>
    BY <1>6 DEF Start, runVars
  <2>2. Shaped'
    BY <1>1, <1>2, <1>4, <2>1 DEF Shaped, StartFirst
  <2>3. PastTimes' /\ Counted'
    BY <1>1, <1>4, <2>1 DEF PastTimes, Counted, Slots
  <2> QED BY <1>5, <2>2, <2>3
<1>7. CASE ~running
  <2> DEFINE w == LastStart(tick.at)
             before == IF starts.of = w THEN starts.count ELSE 0
  <2>1. /\ running' = TRUE /\ lastAttempt' = now
        /\ starts' = [of |-> w, count |-> 1 + before]
    BY <1>7 DEF Start
  <2>2. /\ w \in Int /\ w <= tick.at /\ tick.at \in Int /\ tick.at <= now /\ now \in Int
        /\ before \in Nat
    BY LastStartBefore DEF Shaped, PastTimes
  <2>3. 1 + before <= Cardinality(Slots(w, tick.at))
    <3>1. CASE starts.of = w
      <4>1. starts.count + 1 <= Cardinality(Slots(w, tick.at))
        BY <1>1, <3>1 DEF Pending, StartPlanned
      <4> QED BY <2>2, <3>1, <4>1
    <3>2. CASE starts.of # w
      BY <2>2, <3>2, FirstSlot
    <3> QED BY <3>1, <3>2
  <2>4. /\ Cardinality(Slots(w, tick.at)) <= Cardinality(Slots(w, now))
        /\ Cardinality(Slots(w, tick.at)) \in Nat
        /\ Cardinality(Slots(w, now)) \in Nat
    BY <2>2, SlotsGrow, SlotsFinite
  <2> HIDE DEF w, before
  <2>5. w <= now /\ 1 + before <= Cardinality(Slots(w, now))
    BY <2>2, <2>3, <2>4
  <2>6. Counted'
    BY <2>1, <2>5 DEF Counted, Slots
  <2>7. Shaped'
    <3>1. starts' \in [of : Int, count : Nat] /\ lastAttempt' \in Int /\ running' \in BOOLEAN /\ now' \in Int
      BY <1>1, <2>1, <2>2
    <3>2. StartFirst(tick'.plan) /\ tick'.phase = "acting"
      BY <1>2, <1>4
    <3> QED BY <1>4, <3>1, <3>2 DEF Shaped, StartFirst
  <2>8. PastTimes'
    BY <1>1, <1>4, <2>1, <2>2 DEF PastTimes
  <2> QED BY <1>5, <2>6, <2>7, <2>8
<1> QED BY <1>6, <1>7

(* Time passing, runs ending and manual starts take no slot away.          *)
LEMMA QuietKeepsSlotInv ==
  ASSUME SlotInv, UNCHANGED <<tick, starts>>, running' \in BOOLEAN,
         now' \in Int, now <= now', lastAttempt' \in {lastAttempt, now}
  PROVE  SlotInv'
<1> USE DEF SlotInv
<1>1. /\ lastAttempt \in Int /\ lastAttempt' \in Int /\ now \in Int
      /\ lastAttempt <= lastAttempt' /\ lastAttempt' <= now'
  BY DEF Shaped, PastTimes
<1>2. Shaped'
  BY <1>1 DEF Shaped, StartFirst
<1>3. PastTimes'
  BY <1>1 DEF Shaped, PastTimes
<1>4. Counted'
  <2>1. CASE starts.count = 0
    BY <2>1 DEF Counted
  <2>2. CASE starts.count # 0
    <3>1. /\ starts.of \in Int /\ starts.count \in Nat /\ starts.of <= lastAttempt
          /\ starts.count <= Cardinality(Slots(starts.of, lastAttempt))
      BY <2>2 DEF Counted, Shaped
    <3>2. /\ Cardinality(Slots(starts.of, lastAttempt)) <= Cardinality(Slots(starts.of, lastAttempt'))
          /\ Cardinality(Slots(starts.of, lastAttempt)) \in Nat
          /\ Cardinality(Slots(starts.of, lastAttempt')) \in Nat
      BY <1>1, <3>1, SlotsGrow, SlotsFinite
    <3>3. /\ starts.of <= lastAttempt'
          /\ starts.count <= Cardinality(Slots(starts.of, lastAttempt'))
      BY <1>1, <3>1, <3>2
    <3> QED BY <3>3 DEF Counted, Slots
  <2> QED BY <2>1, <2>2
<1>5. Pending'
  BY DEF Pending, StartPlanned, LastStart, Today, Clock, Slots
<1> QED BY <1>2, <1>3, <1>4, <1>5

(* Nor does a step of the tick that leaves no start planned.               *)
LEMMA StartlessKeepsSlotInv ==
  ASSUME SlotInv, UNCHANGED <<now, lastAttempt, running, starts>>,
         NEW phase \in {"idle", "discovering", "acting"}, NEW at \in {tick.at, now}, NEW plan,
         StartFirst(plan), ~StartPlanned(plan), phase # "acting" => plan = <<>>,
         tick' = [tick EXCEPT !.phase = phase, !.at = at, !.plan = plan]
  PROVE  SlotInv'
<1> USE DEF SlotInv
<1>1. plan \in Seq(Effect \cup {StartEffect}) /\ at \in Int /\ at <= now
  BY DEF StartFirst, Shaped, PastTimes
<1>2. /\ tick' \in [phase : {"idle", "discovering", "acting"}, at : Int,
                    plan : Seq(Effect \cup {StartEffect}), busy : BOOLEAN, able : BOOLEAN]
      /\ tick'.at = at /\ tick'.plan = plan /\ tick'.phase = phase
  BY <1>1 DEF Shaped
<1>3. Shaped'
  BY <1>2 DEF Shaped, StartFirst
<1>4. PastTimes' /\ Counted'
  BY <1>1, <1>2 DEF PastTimes, Counted, Slots
<1>5. Pending'
  BY <1>2 DEF Pending, StartPlanned
<1> QED BY <1>3, <1>4, <1>5

(* No step takes a slot from a planned start, or spends one twice.         *)
LEMMA SlotInvStep == SlotInv /\ [Next]_vars => SlotInv'
<1> SUFFICES ASSUME SlotInv, [Next]_vars PROVE SlotInv'
  OBVIOUS
<1>1. /\ now \in Int /\ lastAttempt \in Int /\ running \in BOOLEAN
      /\ tick \in [phase : {"idle", "discovering", "acting"}, at : Int,
                   plan : Seq(Effect \cup {StartEffect}), busy : BOOLEAN, able : BOOLEAN]
      /\ StartFirst(tick.plan) /\ (tick.phase # "acting" => tick.plan = <<>>)
  BY DEF SlotInv, Shaped
<1>2. StartFirst(<<>>) /\ ~StartPlanned(<<>>)
  BY DEF StartFirst, StartPlanned
<1>3. CASE TickRefused
  BY <1>1, <1>3, QuietKeepsSlotInv DEF TickRefused, runVars, history
<1>4. CASE TickBegins
  <2>1. /\ tick' = [tick EXCEPT !.phase = "discovering", !.at = now, !.plan = <<>>]
        /\ UNCHANGED <<now, lastAttempt, running, starts>>
    BY <1>1, <1>4 DEF TickBegins, runVars, history
  <2> QED BY <1>2, <2>1, StartlessKeepsSlotInv
<1>5. CASE Decide
  BY <1>5, DecideKeepsSlotInv
<1>6. CASE Start
  BY <1>6, StartKeepsSlotInv
<1>7. ASSUME NEW reminder \in Reminders, Send(reminder) \/ Stamp(reminder) PROVE SlotInv'
  <2>1. /\ tick.plan # <<>> /\ tick.phase = "acting"
        /\ tick' = [tick EXCEPT !.plan = Tail(@)]
        /\ UNCHANGED <<now, lastAttempt, running, starts>>
    BY <1>7 DEF Send, Stamp, Doing, runVars, history
  <2>2. tick' = [tick EXCEPT !.phase = "acting", !.at = tick.at, !.plan = Tail(tick.plan)]
    BY <1>1, <2>1
  <2>3. StartFirst(Tail(tick.plan)) /\ ~StartPlanned(Tail(tick.plan))
    BY <1>1, <2>1, TailOfPlan
  <2> QED BY <2>1, <2>2, <2>3, StartlessKeepsSlotInv
<1>8. CASE TickEnds \/ TickAborts
  <2>1. /\ tick' = [tick EXCEPT !.phase = "idle", !.at = tick.at, !.plan = <<>>]
        /\ UNCHANGED <<now, lastAttempt, running, starts>>
    <3>1. CASE TickEnds
      BY <1>1, <3>1 DEF TickEnds, runVars, history
    <3>2. CASE TickAborts
      BY <1>1, <3>2 DEF TickAborts, runVars, history
    <3> QED BY <1>8, <3>1, <3>2
  <2> QED BY <1>2, <2>1, StartlessKeepsSlotInv
<1>9. CASE Minute
  BY <1>1, <1>9, QuietKeepsSlotInv DEF Minute, runVars, history
<1>10. CASE ManualStart
  BY <1>1, <1>10, QuietKeepsSlotInv DEF ManualStart, history
<1>11. CASE RunEnds
  <2>1. running' = FALSE /\ UNCHANGED <<now, lastAttempt, tick, starts>>
    BY <1>11 DEF RunEnds, history
  <2>2. running' \in BOOLEAN
    BY <2>1
  <2>3. now' \in Int /\ now <= now' /\ lastAttempt' \in {lastAttempt, now}
    BY <1>1, <2>1
  <2> QED BY <2>1, <2>2, <2>3, QuietKeepsSlotInv
<1>12. CASE UNCHANGED vars
  <2>1. UNCHANGED <<now, lastAttempt, running, starts, tick>>
    BY <1>12 DEF vars
  <2> QED BY <1>1, <2>1, QuietKeepsSlotInv
<1> QED BY <1>3, <1>4, <1>5, <1>6, <1>7, <1>8, <1>9, <1>10, <1>11, <1>12 DEF Next

(* The slots a window occurrence has are at most those there are.          *)
LEMMA SlotInvBounds == SlotInv => AttemptsBounded
<1> SUFFICES ASSUME SlotInv PROVE starts.count <= Cardinality(Offsets)
  BY DEF AttemptsBounded
<1>1. /\ starts.of \in Int /\ lastAttempt \in Int /\ starts.count \in Nat
      /\ \/ starts.count = 0
         \/ starts.count <= Cardinality(Slots(starts.of, lastAttempt))
  BY DEF SlotInv, Shaped, Counted
<1>2. /\ Cardinality(Slots(starts.of, lastAttempt)) \in Nat
      /\ Cardinality(Slots(starts.of, lastAttempt)) <= Cardinality(Offsets)
  BY <1>1, SlotsFinite
<1>3. Cardinality(Offsets) \in Nat
  <2>1. IsFiniteSet(0 .. Day)
    BY FS_Interval, ScheduleAssumption
  <2>2. IsFiniteSet(Offsets)
    BY <2>1, FS_Subset, ScheduleAssumption
  <2> QED BY <2>2, FS_CardinalityType
<1> QED BY <1>1, <1>2, <1>3

(* Whatever runs end in, however late the ticks and however slow discovery,*)
(* one window occurrence is given at most one scheduled start per slot.    *)
THEOREM AttemptsBoundedAlways == Spec => []AttemptsBounded
<1>1. Init => SlotInv
  BY SlotInvInit
<1>2. SlotInv /\ [Next]_vars => SlotInv'
  BY SlotInvStep
<1>3. SlotInv => AttemptsBounded
  BY SlotInvBounds
<1> QED BY <1>1, <1>2, <1>3, PTL DEF Spec

-----------------------------------------------------------------------------
(* Type correctness. *)

(* The next start of a window is at most a day away.                       *)
LEMMA StartsAround ==
  ASSUME NEW t \in Int
  PROVE  /\ LastStart(t) \in Int /\ t - Day < LastStart(t) /\ LastStart(t) <= t
         /\ NextStart(t) \in Int /\ t <= NextStart(t) /\ NextStart(t) < t + Day
<1>1. Clock(t) \in 0 .. Day - 1
  BY ScheduleAssumption DEF Clock
<1>2. WindowStart \in 0 .. Day - 1 /\ Day \in Nat
  BY ScheduleAssumption
<1> QED BY <1>1, <1>2 DEF LastStart, NextStart, Today

Timed == TypeOK /\ tick.at \in Epoch .. now

LEMMA TimedStep ==
  ASSUME SlotInv, Timed, [Next]_vars
  PROVE  Timed'
<1> USE DEF Timed
<1> DEFINE Typed(t) ==
      /\ t.phase \in {"idle", "discovering", "acting"}
      /\ t.at \in Epoch .. now
      /\ t.plan \in Seq({"start", "send", "stamp"} \X (Reminders \cup {"backup"}))
      /\ t.phase # "acting" => t.plan = <<>>
      /\ {t.busy, t.able} \subseteq BOOLEAN
<1>1. /\ Epoch \in Nat /\ Day \in Nat /\ Horizon \in Nat
      /\ now \in Epoch .. Epoch + Horizon /\ tick.at \in Int
      /\ \A t \in Epoch .. now : t \in Times
      /\ now \in Times
  <2>1. Day \in Nat /\ Horizon \in Nat
    BY ScheduleAssumption
  <2>2. Epoch \in Nat
    BY <2>1 DEF Epoch
  <2>3. now \in Epoch .. Epoch + Horizon
    BY DEF TypeOK
  <2>4. \A t \in Epoch .. now : t \in Times
    BY <2>1, <2>2, <2>3 DEF Times
  <2> QED BY <2>1, <2>2, <2>3, <2>4
<1>2. LastStart(tick.at) \in Times /\ NextStart(tick.at) \in Times
  <2>1. Day \in Nat \ {0} /\ Horizon \in Nat
    BY ScheduleAssumption
  <2>2. tick.at \in Epoch .. Epoch + Horizon /\ Epoch \in Int /\ Epoch >= Day
    BY <2>1 DEF Timed, TypeOK, Epoch
  <2>3. /\ LastStart(tick.at) \in Int /\ tick.at - Day < LastStart(tick.at) /\ LastStart(tick.at) <= tick.at
        /\ NextStart(tick.at) \in Int /\ tick.at <= NextStart(tick.at) /\ NextStart(tick.at) < tick.at + Day
    BY <2>2, StartsAround
  <2> QED BY <2>1, <2>2, <2>3 DEF Times
<1>3. /\ tick \in [phase : {"idle", "discovering", "acting"}, at : Int,
                   plan : Seq(Effect \cup {StartEffect}), busy : BOOLEAN, able : BOOLEAN]
      /\ Typed(tick)
  BY DEF SlotInv, Shaped, TypeOK
<1>4. ASSUME NEW plan \in Seq(Effect \cup {StartEffect})
      PROVE  plan \in Seq({"start", "send", "stamp"} \X (Reminders \cup {"backup"}))
  <2>1. Effect \cup {StartEffect} \subseteq {"start", "send", "stamp"} \X (Reminders \cup {"backup"})
    BY DEF Effect, StartEffect
  <2> QED BY <2>1
<1>5. ASSUME UNCHANGED <<now, tried, lease, runVars, stamps, history>>, Typed(tick') PROVE Timed'
  BY <1>1, <1>5 DEF TypeOK, runVars, history, Times
<1>6. ASSUME UNCHANGED <<tick, stamps, history>>,
             now' \in {now, now + 1}, now' \in Epoch .. Epoch + Horizon,
             {tried', lease', lastSuccess', lastAttempt'} \subseteq
               {tried, lease, lastSuccess, lastAttempt, now},
             running' \in BOOLEAN
      PROVE  Timed'
  <2>1. tick'.at \in Epoch .. now'
    BY <1>1, <1>3, <1>6
  <2>2. {tried', lease', lastSuccess', lastAttempt'} \subseteq Times \cup {Never}
    BY <1>1, <1>6 DEF TypeOK
  <2> QED BY <1>6, <2>1, <2>2 DEF TypeOK, history
<1>7. CASE TickRefused
  BY <1>1, <1>6, <1>7 DEF TickRefused, Tried, runVars, TypeOK
<1>8. CASE TickBegins
  <2>1. tick' = [tick EXCEPT !.phase = "discovering", !.at = now]
    BY <1>8 DEF TickBegins
  <2>2. Typed(tick')
    BY <1>1, <1>3, <1>8, <2>1 DEF TickBegins
  <2> QED BY <1>1, <1>8, <2>2 DEF TickBegins, Tried, TypeOK, runVars, history
<1>9. CASE Decide
  <2>1. PICK able \in BOOLEAN :
          tick' = [tick EXCEPT !.phase = "acting", !.plan = Decided(able), !.busy = running, !.able = able]
    BY <1>9 DEF Decide
  <2>2. Decided(able) \in Seq(Effect \cup {StartEffect})
    BY DecidedShape DEF StartFirst
  <2>3. running \in BOOLEAN
    BY DEF TypeOK
  <2>4. Typed(tick')
    BY <1>3, <1>4, <2>1, <2>2, <2>3
  <2> QED BY <1>5, <1>9, <2>4 DEF Decide
<1>10. ASSUME tick' = [tick EXCEPT !.plan = Tail(@)], tick.phase = "acting", tick.plan # <<>>
       PROVE  Typed(tick')
  <2>1. Tail(tick.plan) \in Seq({"start", "send", "stamp"} \X (Reminders \cup {"backup"}))
    BY <1>3, <1>10
  <2> QED BY <1>3, <1>10, <2>1
<1>11. CASE Start
  <2>1. Typed(tick')
    BY <1>10, <1>11 DEF Start, Doing
  <2>2. starts'.of \in Times \cup {Never} /\ starts'.count \in Nat
    <3>1. starts.count \in Nat
      BY DEF TypeOK
    <3> QED BY <1>2, <1>11, <3>1 DEF Start, TypeOK
  <2>3. running' \in BOOLEAN /\ {lastSuccess', lastAttempt'} \subseteq Times \cup {Never}
    <3>1. CASE running
      BY <1>11, <3>1 DEF Start, runVars, TypeOK
    <3>2. CASE ~running
      <4>1. running' = TRUE /\ lastAttempt' = now /\ lastSuccess' = lastSuccess
        BY <1>11, <3>2 DEF Start
      <4>2. running' \in BOOLEAN
        BY <4>1
      <4> QED BY <1>1, <4>1, <4>2 DEF TypeOK
    <3> QED BY <3>1, <3>2
  <2>4. UNCHANGED <<now, tried, lease, stamps, sent>>
    BY <1>11 DEF Start
  <2> QED BY <1>1, <2>1, <2>2, <2>3, <2>4 DEF TypeOK, Times
<1>12. ASSUME NEW reminder \in Reminders, Send(reminder) PROVE Timed'
  <2>1. Typed(tick')
    BY <1>10, <1>12 DEF Send, Doing
  <2>2. sent' \in [Reminders -> Times \cup {Never}]
    BY <1>1, <1>12 DEF Send, TypeOK
  <2> QED BY <1>1, <1>12, <2>1, <2>2 DEF Send, TypeOK, runVars, Times
<1>13. ASSUME NEW reminder \in Reminders, Stamp(reminder) PROVE Timed'
  <2>1. Typed(tick')
    BY <1>10, <1>13 DEF Stamp, Doing
  <2>2. stamps' \in [Reminders -> Times \cup {Never}]
    <3>1. tick.at \in Times
      BY <1>1 DEF Timed
    <3> QED BY <1>2, <1>13, <3>1 DEF Stamp, TypeOK
  <2> QED BY <1>1, <1>13, <2>1, <2>2 DEF Stamp, TypeOK, runVars, history, Times
<1>14. CASE TickEnds \/ TickAborts
  <2>1. tick'.phase = "idle" /\ tick'.plan = <<>> /\ tick'.at = tick.at /\ tick'.busy = tick.busy /\ tick'.able = tick.able
    BY <1>3, <1>14 DEF TickEnds, TickAborts
  <2>2. Typed(tick')
    BY <1>3, <2>1
  <2> QED BY <1>5, <1>14, <2>2 DEF TickEnds, TickAborts
<1>15. CASE Minute
  BY <1>1, <1>6, <1>15 DEF Minute, runVars, TypeOK
<1>16. CASE ManualStart
  <2>1. running' = TRUE /\ UNCHANGED <<now, tried, lease, tick, lastSuccess, stamps, history>> /\ lastAttempt' = now
    BY <1>16 DEF ManualStart
  <2>2. running' \in BOOLEAN
    BY <2>1
  <2> QED BY <1>1, <1>6, <2>1, <2>2
<1>17. CASE RunEnds
  <2>1. running' = FALSE /\ UNCHANGED <<now, tried, lease, tick, lastAttempt, stamps, history>>
    BY <1>17 DEF RunEnds
  <2>2. running' \in BOOLEAN
    BY <2>1
  <2>3. lastSuccess' \in {lastSuccess, now}
    BY <1>17 DEF RunEnds
  <2> QED BY <1>1, <1>6, <2>1, <2>2, <2>3
<1>18. CASE UNCHANGED vars
  <2>1. UNCHANGED <<now, tried, lease, tick, runVars, stamps, history>>
    BY <1>18 DEF vars, runVars, history
  <2>2. Typed(tick')
    BY <1>3, <2>1
  <2> QED BY <1>5, <2>1, <2>2
<1> QED BY <1>7, <1>8, <1>9, <1>11, <1>12, <1>13, <1>14, <1>15, <1>16, <1>17, <1>18 DEF Next

LEMMA TimedAlways == Spec => [](SlotInv /\ Timed)
<1>1. Init => Timed
  <2> SUFFICES ASSUME Init PROVE Timed
    OBVIOUS
  <2>1. Epoch \in Nat /\ Epoch \in Epoch .. Epoch + Horizon /\ Epoch \in Times
    BY ScheduleAssumption DEF Epoch, Times
  <2>2. <<>> \in Seq({"start", "send", "stamp"} \X (Reminders \cup {"backup"}))
    OBVIOUS
  <2>3. /\ tick.phase = "idle" /\ tick.at = Epoch /\ tick.plan = <<>> /\ tick.busy = TRUE /\ tick.able = FALSE
        /\ running = FALSE /\ now = Epoch
    BY DEF Init
  <2>4. {tick.busy, tick.able, running} \subseteq BOOLEAN
    BY <2>3
  <2>5. {tried, lease, lastSuccess, lastAttempt} \subseteq Times \cup {Never}
    BY DEF Init
  <2>6. /\ stamps \in [Reminders -> Times \cup {Never}]
        /\ sent \in [Reminders -> Times \cup {Never}]
        /\ starts.of \in Times \cup {Never} /\ starts.count \in Nat
    BY DEF Init
  <2> QED BY <2>1, <2>2, <2>3, <2>4, <2>5, <2>6 DEF Timed, TypeOK
<1> QED BY <1>1, SlotInvInit, SlotInvStep, TimedStep, PTL DEF Spec

(* Times and plans stay what they are, whatever the environment does.      *)
THEOREM TypeCorrect == Spec => []TypeOK
BY TimedAlways, PTL DEF Timed

-----------------------------------------------------------------------------
(* Starts fall into the window. Remainders first: the solvers know that a  *)
(* number is its quotient times the divisor plus a remainder, no more.     *)

LEMMA ProductBound ==
  ASSUME NEW d \in Nat \ {0}, NEW k \in Int, -d < k * d, k * d < d
  PROVE  k = 0
<1>1. ASSUME k >= 1 PROVE FALSE
  <2>1. k * d >= d
    BY <1>1
  <2> QED BY <2>1
<1>2. ASSUME k <= -1 PROVE FALSE
  <2>1. k * d <= -d
    BY <1>2
  <2> QED BY <2>1
<1> QED BY <1>1, <1>2

LEMMA Remainder ==
  ASSUME NEW d \in Nat \ {0}, NEW a \in Int
  PROVE  /\ a % d \in 0 .. d - 1 /\ a \div d \in Int
         /\ a = (a \div d) * d + (a % d)
OBVIOUS

LEMMA RemainderUnique ==
  ASSUME NEW d \in Nat \ {0}, NEW q \in Int, NEW r \in 0 .. d - 1
  PROVE  (q * d + r) % d = r
<1> DEFINE a == q * d + r
           p == a \div d
<1>1. a \in Int /\ p \in Int /\ a % d \in 0 .. d - 1 /\ a = (p * d) + (a % d)
  BY Remainder
<1> HIDE DEF p
<1>2. (q - p) * d = (a % d) - r
  BY <1>1
<1>3. q - p \in Int /\ -d < (a % d) - r /\ (a % d) - r < d
  BY <1>1
<1>4. q - p = 0
  BY <1>2, <1>3, ProductBound
<1> QED BY <1>2, <1>4

(* A window starts at its own time of day, on whichever day.               *)
LEMMA LastStartClock ==
  ASSUME NEW t \in Int
  PROVE  /\ Clock(LastStart(t)) = WindowStart
         /\ LastStart(t) = IF Clock(t) >= WindowStart THEN t - Clock(t) + WindowStart
                                                      ELSE t - Clock(t) + WindowStart - Day
<1>1. Day \in Nat \ {0} /\ WindowStart \in 0 .. Day - 1
  BY ScheduleAssumption
<1> DEFINE q == t \div Day  c == t % Day
<1>2. q \in Int /\ c \in 0 .. Day - 1 /\ t = q * Day + c
  BY <1>1, Remainder
<1>3. Clock(t) = c
  BY DEF Clock
<1> HIDE DEF q, c
<1>4. /\ (q * Day + WindowStart) % Day = WindowStart
      /\ ((q - 1) * Day + WindowStart) % Day = WindowStart
  <2>1. q - 1 \in Int
    BY <1>2
  <2> QED BY <1>1, <1>2, <2>1, RemainderUnique
<1>5. Today(t) = q * Day + WindowStart
  BY <1>1, <1>2, <1>3 DEF Today
<1>6. Today(t) - Day = (q - 1) * Day + WindowStart
  BY <1>1, <1>2, <1>5
<1>7. Today(t) > t <=> ~(c >= WindowStart)
  BY <1>1, <1>2, <1>5
<1>8. Clock(Today(t)) = WindowStart /\ Clock(Today(t) - Day) = WindowStart
  BY <1>4, <1>5, <1>6 DEF Clock
<1>9. Today(t) = t - Clock(t) + WindowStart
  BY DEF Today
<1>10. CASE c >= WindowStart
  <2>1. LastStart(t) = Today(t)
    BY <1>7, <1>10 DEF LastStart
  <2> QED BY <1>3, <1>8, <1>9, <1>10, <2>1
<1>11. CASE ~(c >= WindowStart)
  <2>1. LastStart(t) = Today(t) - Day
    BY <1>7, <1>11 DEF LastStart
  <2>2. ~(Clock(t) >= WindowStart) /\ LastStart(t) = t - Clock(t) + WindowStart - Day
    <3>1. LastStart(t) = t - Clock(t) + WindowStart - Day
      BY <1>1, <1>2, <1>3, <1>9, <2>1
    <3>2. ~(Clock(t) >= WindowStart)
      BY <1>3, <1>11
    <3> QED BY <3>1, <3>2
  <2>3. Clock(LastStart(t)) = WindowStart
    BY <1>8, <2>1
  <2> QED BY <2>2, <2>3
<1> QED BY <1>10, <1>11

(* in_window, said of the start of the occurrence it lies in.              *)
LEMMA InWindowExactly ==
  ASSUME NEW t \in Int
  PROVE  InWindow(t) <=> t < LastStart(t) + Length
<1>1. /\ Day \in Nat \ {0} /\ WindowStart \in 0 .. Day - 1 /\ WindowEnd \in 0 .. Day - 1
      /\ Clock(t) \in 0 .. Day - 1
  BY ScheduleAssumption DEF Clock
<1>2. CASE WindowStart = WindowEnd
  BY <1>1, <1>2, LastStartClock DEF Length, InWindow
<1>3. CASE WindowStart < WindowEnd
  <2>1. (0 * Day + (WindowEnd - WindowStart)) % Day = WindowEnd - WindowStart
    BY <1>1, <1>3, RemainderUnique
  <2>2. Length = WindowEnd - WindowStart
    BY <1>1, <1>3, <2>1 DEF Length
  <2> QED BY <1>1, <1>3, <2>2, LastStartClock DEF InWindow
<1>4. CASE WindowStart > WindowEnd
  <2>1. ((-1) * Day + (WindowEnd - WindowStart + Day)) % Day = WindowEnd - WindowStart + Day
    <3>1. WindowEnd - WindowStart + Day \in 0 .. Day - 1 /\ -1 \in Int
      BY <1>1, <1>4
    <3> QED BY <1>1, <3>1, RemainderUnique
  <2>2. (-1) * Day + (WindowEnd - WindowStart + Day) = WindowEnd - WindowStart
    BY <1>1
  <2>3. Length = WindowEnd - WindowStart + Day
    <3>1. (WindowEnd - WindowStart) % Day = WindowEnd - WindowStart + Day
      BY <2>1, <2>2
    <3> QED BY <1>1, <1>4, <3>1 DEF Length
  <2> QED BY <1>1, <1>4, <2>3, LastStartClock DEF InWindow
<1> QED BY <1>1, <1>2, <1>3, <1>4

(* in_window means inside an occurrence that began at most its length ago. *)
LEMMA InWindowIsInside ==
  ASSUME NEW t \in Int, InWindow(t)
  PROVE  InsideOccurrence(t)
<1>1. /\ Day \in Nat \ {0} /\ WindowStart \in 0 .. Day - 1 /\ WindowEnd \in 0 .. Day - 1
  BY ScheduleAssumption
<1>2. LastStart(t) \in Int /\ Clock(LastStart(t)) = WindowStart /\ LastStart(t) <= t
  BY LastStartClock, LastStartBefore
<1>3. t < LastStart(t) + Length
  BY InWindowExactly
<1>4. Length \in Int
  BY <1>1 DEF Length
<1>5. LastStart(t) \in t - Length + 1 .. t
  BY <1>2, <1>3, <1>4
<1> QED BY <1>2, <1>5 DEF InsideOccurrence

(* A tick's decisions are carried out in the minute it read the clock in,  *)
(* and a start is planned only inside the window.                          *)
OnTheMinute ==
  /\ tick.phase # "idle" => tick.at = now
  /\ StartPlanned(tick.plan) => InWindow(tick.at)

LEMMA OnTheMinuteStep ==
  ASSUME SlotInv, OnTheMinute, [Next]_vars, "slow_discovery" \notin Env
  PROVE  OnTheMinute'
<1>1. /\ tick \in [phase : {"idle", "discovering", "acting"}, at : Int,
                   plan : Seq(Effect \cup {StartEffect}), busy : BOOLEAN, able : BOOLEAN]
      /\ StartFirst(tick.plan)
      /\ tick.phase # "acting" => tick.plan = <<>>
  BY DEF SlotInv, Shaped
<1>2. ASSUME tick' = tick, now' = now \/ tick.phase = "idle" PROVE OnTheMinute'
  BY <1>2 DEF OnTheMinute, StartPlanned, InWindow, Clock
<1>3. ASSUME tick.phase = "acting", tick' = [tick EXCEPT !.plan = Tail(@)], now' = now, tick.plan # <<>>
      PROVE  OnTheMinute'
  <2>1. tick'.plan = Tail(tick.plan) /\ tick'.at = tick.at
    BY <1>1, <1>3
  <2>2. ~StartPlanned(tick'.plan)
    BY <1>1, <1>3, <2>1, TailOfPlan
  <2> QED BY <1>3, <2>1, <2>2 DEF OnTheMinute, StartPlanned
<1>4. CASE TickBegins
  <2>1. tick'.at = now /\ tick'.plan = <<>> /\ now' = now
    BY <1>1, <1>4 DEF TickBegins
  <2> QED BY <2>1 DEF OnTheMinute, StartPlanned
<1>5. CASE Decide
  <2>1. PICK able \in BOOLEAN :
          tick' = [tick EXCEPT !.phase = "acting", !.plan = Decided(able), !.busy = running, !.able = able]
    BY <1>5 DEF Decide
  <2>2. tick'.at = tick.at /\ tick'.plan = Decided(able) /\ now' = now /\ tick.phase = "discovering"
    BY <1>1, <1>5, <2>1 DEF Decide
  <2>3. StartPlanned(Decided(able)) => InWindow(tick.at)
    BY DecidedShape DEF StartBackup
  <2> QED BY <2>2, <2>3 DEF OnTheMinute, StartPlanned, InWindow, Clock
<1>6. CASE TickEnds \/ TickAborts
  <2>1. tick'.phase = "idle" /\ tick'.plan = <<>>
    BY <1>1, <1>6 DEF TickEnds, TickAborts
  <2> QED BY <2>1 DEF OnTheMinute, StartPlanned
<1>7. CASE Start
  BY <1>3, <1>7 DEF Start, Doing
<1>8. ASSUME NEW reminder \in Reminders, Send(reminder) \/ Stamp(reminder) PROVE OnTheMinute'
  BY <1>3, <1>8 DEF Send, Stamp, Doing
<1>9. CASE TickRefused \/ Minute \/ ManualStart \/ RunEnds \/ UNCHANGED vars
  BY <1>2, <1>9 DEF TickRefused, Minute, ManualStart, RunEnds, vars
<1> QED BY <1>4, <1>5, <1>6, <1>7, <1>8, <1>9 DEF Next

(* scheduler.py:4-6, 58-66: a scheduled start falls into the window, for   *)
(* every pair of bounds, when discovery ends in the minute it began in.    *)
THEOREM StartsInWindowAlways ==
  ASSUME "slow_discovery" \notin Env
  PROVE  Spec => StartsInWindow
<1>1. Init => OnTheMinute
  BY DEF Init, OnTheMinute, StartPlanned
<1>2. SlotInv /\ OnTheMinute /\ [Next]_vars => OnTheMinute'
  BY OnTheMinuteStep
<1>3. SlotInv /\ OnTheMinute /\ [Next]_vars => [starts' # starts => InsideOccurrence(now)]_vars
  <2> SUFFICES ASSUME SlotInv, OnTheMinute, Next, starts' # starts PROVE InsideOccurrence(now)
    OBVIOUS
  <2>1. Start
    BY DEF Next, TickRefused, TickBegins, Decide, Send, Stamp, TickEnds, TickAborts, Minute, ManualStart,
       RunEnds, history
  <2>2. tick.phase = "acting" /\ StartPlanned(tick.plan)
    BY <2>1 DEF Start, Doing, StartPlanned, StartEffect
  <2>3. InWindow(now) /\ now \in Int
    BY <2>2 DEF OnTheMinute, SlotInv, Shaped
  <2> QED BY <2>3, InWindowIsInside
<1> QED BY <1>1, <1>2, <1>3, SlotInvInit, SlotInvStep, PTL DEF Spec, StartsInWindow

-----------------------------------------------------------------------------
(* A tick's time is no earlier than the device's addition.                 *)
LEMMA TickTimes == ASSUME Timed PROVE tick.at \in Int /\ tick.at # Never /\ tick.at >= 0
<1>1. Day \in Nat \ {0} /\ Horizon \in Nat
  BY ScheduleAssumption
<1>2. Epoch \in Nat
  BY <1>1 DEF Epoch
<1>3. now \in Epoch .. Epoch + Horizon /\ tick.at \in Epoch .. now
  BY DEF Timed, TypeOK
<1> QED BY <1>1, <1>2, <1>3 DEF Never

(* What a plan says of each reminder: it is sent at most once, and stamped *)
(* after it was sent.                                                      *)

SendOf(reminder) == <<"send", reminder>>
StampOf(reminder) == <<"stamp", reminder>>

Mentions(plan, effect) == \E i \in 1 .. Len(plan) : plan[i] = effect

Ordered(plan) ==
  /\ StartFirst(plan)
  /\ \A i, j \in 1 .. Len(plan) : plan[i] = plan[j] => i = j
  /\ \A reminder \in Reminders, i \in 1 .. Len(plan) :
       plan[i] = SendOf(reminder) => \E j \in i + 1 .. Len(plan) : plan[j] = StampOf(reminder)

LEMMA EffectsDiffer ==
  \A r, s \in Reminders : /\ SendOf(r) # StampOf(s) /\ SendOf(r) # StartEffect /\ StampOf(r) # StartEffect
                          /\ (SendOf(r) = SendOf(s) => r = s) /\ (StampOf(r) = StampOf(s) => r = s)
BY DEF SendOf, StampOf, StartEffect

(* A reminder planned at the end of a plan that does not mention it.       *)
LEMMA ReminderPlanned ==
  ASSUME NEW plan, Ordered(plan), NEW r \in Reminders, NEW wanted \in BOOLEAN,
         ~Mentions(plan, SendOf(r)), ~Mentions(plan, StampOf(r))
  PROVE  /\ Ordered(plan \o Effects(r, wanted))
         /\ \A e : Mentions(plan \o Effects(r, wanted), e) <=>
                     Mentions(plan, e) \/ (wanted /\ e \in {SendOf(r), StampOf(r)})
         /\ StartPlanned(plan) => StartPlanned(plan \o Effects(r, wanted))
<1> DEFINE S == Effect \cup {StartEffect}
           more == Effects(r, wanted)
           both == plan \o more
<1>1. plan \in Seq(S) /\ more \in Seq(Effect) /\ more \in Seq(S) /\ StartFirst(plan)
  <2>1. more \in Seq(Effect)
    BY EffectsAreEffects
  <2>2. \A s \in Seq(Effect) : s \in Seq(S)
    OBVIOUS
  <2> QED BY <2>1, <2>2 DEF Ordered, StartFirst
<1>2. /\ both \in Seq(S)
      /\ Len(both) = Len(plan) + Len(more)
      /\ \A i \in 1 .. Len(plan) + Len(more) :
           both[i] = IF i <= Len(plan) THEN plan[i] ELSE more[i - Len(plan)]
      /\ Len(plan) \in Nat
  BY <1>1, ConcatProperties
<1>3. StartFirst(both)
  BY <1>1, RemindersAppended
<1>4. StartPlanned(plan) => StartPlanned(both)
  <2> SUFFICES ASSUME plan # <<>>, Head(plan) = StartEffect PROVE StartPlanned(both)
    BY DEF StartPlanned
  <2>1. Len(plan) >= 1 /\ plan[1] = StartEffect /\ Len(more) \in Nat
    BY <1>1
  <2>2. both[1] = StartEffect /\ both # <<>>
    BY <1>2, <2>1
  <2> QED BY <1>2, <2>2 DEF StartPlanned
<1>5. CASE wanted
  <2>1. Len(more) = 2 /\ more[1] = SendOf(r) /\ more[2] = StampOf(r)
    BY <1>5 DEF Effects, SendOf, StampOf
  <2> DEFINE n == Len(plan)
  <2> HIDE DEF both, more, n
  <2>2. /\ n \in Nat /\ Len(both) = n + 2
        /\ \A i \in 1 .. n : both[i] = plan[i]
        /\ both[n + 1] = SendOf(r) /\ both[n + 2] = StampOf(r)
    BY <1>2, <2>1 DEF n
  <2>3. \A i \in 1 .. n + 2 : i \in 1 .. n \/ i = n + 1 \/ i = n + 2
    BY <2>2
  <2>4. \A i \in 1 .. n : plan[i] # SendOf(r) /\ plan[i] # StampOf(r)
    BY DEF Mentions, n
  <2>5. \A i, j \in 1 .. Len(both) : both[i] = both[j] => i = j
    <3>1. \A i, j \in 1 .. n : plan[i] = plan[j] => i = j
      BY DEF Ordered, n
    <3> QED BY <2>2, <2>3, <2>4, <3>1, EffectsDiffer
  <2>6. ASSUME NEW s \in Reminders, NEW i \in 1 .. Len(both), both[i] = SendOf(s)
        PROVE  \E j \in i + 1 .. Len(both) : both[j] = StampOf(s)
    <3>1. CASE i \in 1 .. n
      <4>1. PICK j \in i + 1 .. n : plan[j] = StampOf(s)
        BY <2>2, <2>6, <3>1 DEF Ordered, n
      <4>2. j \in 1 .. n /\ j \in i + 1 .. Len(both)
        BY <2>2, <3>1
      <4> QED BY <2>2, <4>1, <4>2
    <3>2. CASE i = n + 1
      <4>1. s = r
        BY <2>2, <2>6, <3>2, EffectsDiffer
      <4>2. n + 2 \in i + 1 .. Len(both)
        BY <2>2, <3>2
      <4> QED BY <2>2, <4>1, <4>2
    <3>3. i # n + 2
      BY <2>2, <2>6, EffectsDiffer
    <3> QED BY <2>2, <2>3, <3>1, <3>2, <3>3
  <2>7. \A e : Mentions(both, e) <=> Mentions(plan, e) \/ e \in {SendOf(r), StampOf(r)}
    <3>1. n + 1 \in 1 .. Len(both) /\ n + 2 \in 1 .. Len(both) /\ \A i \in 1 .. n : i \in 1 .. Len(both)
      BY <2>2
    <3> QED BY <2>2, <2>3, <3>1 DEF Mentions, n
  <2> QED BY <1>3, <1>4, <1>5, <2>5, <2>6, <2>7 DEF Ordered, both, more
<1>6. CASE ~wanted
  <2>1. more = <<>>
    BY <1>6 DEF Effects
  <2>2. both = plan
    BY <1>1, <2>1
  <2> QED BY <1>6, <2>2
<1> QED BY <1>5, <1>6

(* What is left of a plan after its first effect.                          *)
LEMMA EffectDone ==
  ASSUME NEW plan, Ordered(plan), plan # <<>>
  PROVE  /\ Ordered(Tail(plan))
         /\ Mentions(plan, Head(plan)) /\ ~Mentions(Tail(plan), Head(plan))
         /\ \A e : e # Head(plan) => (Mentions(Tail(plan), e) <=> Mentions(plan, e))
         /\ \A r \in Reminders : /\ Head(plan) = StampOf(r) => ~Mentions(plan, SendOf(r))
                                 /\ Head(plan) = SendOf(r) => Mentions(plan, StampOf(r))
<1> DEFINE S == Effect \cup {StartEffect}
           rest == Tail(plan)
           n == Len(plan)
<1>1. plan \in Seq(S) /\ n \in Nat \ {0} /\ StartFirst(plan)
  BY DEF Ordered, StartFirst
<1>2. /\ rest \in Seq(S) /\ Len(rest) = n - 1
      /\ \A i \in 1 .. n - 1 : rest[i] = plan[i + 1]
      /\ Head(plan) = plan[1]
  BY <1>1
<1>3. StartFirst(rest)
  BY <1>1, TailOfPlan
<1>4. /\ \A i, j \in 1 .. n : plan[i] = plan[j] => i = j
      /\ \A r \in Reminders, i \in 1 .. n :
           plan[i] = SendOf(r) => \E j \in i + 1 .. n : plan[j] = StampOf(r)
  BY DEF Ordered
<1> HIDE DEF rest, n
<1>5. /\ \A i \in 1 .. n - 1 : i + 1 \in 1 .. n /\ i + 1 # 1
      /\ \A i \in 1 .. n : i = 1 \/ (i - 1 \in 1 .. n - 1 /\ (i - 1) + 1 = i)
      /\ 1 \in 1 .. n
  BY <1>1
<1>6. \A i, j \in 1 .. n - 1 : rest[i] = rest[j] => i = j
  BY <1>1, <1>2, <1>4, <1>5
<1>7. ASSUME NEW r \in Reminders, NEW i \in 1 .. n - 1, rest[i] = SendOf(r)
      PROVE  \E j \in i + 1 .. n - 1 : rest[j] = StampOf(r)
  <2>1. PICK j \in (i + 1) + 1 .. n : plan[j] = StampOf(r)
    BY <1>2, <1>4, <1>5, <1>7
  <2>2. j - 1 \in i + 1 .. n - 1 /\ (j - 1) + 1 = j /\ j - 1 \in 1 .. n - 1
    BY <1>1
  <2> QED BY <1>2, <2>1, <2>2
<1>8. Ordered(rest)
  BY <1>2, <1>3, <1>6, <1>7 DEF Ordered
<1>9. Mentions(plan, Head(plan))
  BY <1>2, <1>5 DEF Mentions, n
<1>10. ~Mentions(rest, Head(plan))
  BY <1>2, <1>4, <1>5 DEF Mentions
<1>11. ASSUME NEW e, e # Head(plan) PROVE Mentions(rest, e) <=> Mentions(plan, e)
  <2>1. ASSUME NEW i \in 1 .. n, plan[i] = e PROVE \E j \in 1 .. n - 1 : rest[j] = e
    <3>1. i - 1 \in 1 .. n - 1 /\ (i - 1) + 1 = i
      BY <1>2, <1>5, <1>11, <2>1
    <3> QED BY <1>2, <2>1, <3>1
  <2>2. ASSUME NEW i \in 1 .. n - 1, rest[i] = e PROVE \E j \in 1 .. n : plan[j] = e
    BY <1>2, <1>5, <2>2
  <2> QED BY <1>2, <2>1, <2>2 DEF Mentions, n
<1>12. ASSUME NEW r \in Reminders, Head(plan) = StampOf(r) PROVE ~Mentions(plan, SendOf(r))
  <2> SUFFICES ASSUME NEW i \in 1 .. n, plan[i] = SendOf(r) PROVE FALSE
    BY DEF Mentions, n
  <2>1. PICK j \in i + 1 .. n : plan[j] = StampOf(r)
    BY <1>4
  <2>2. j \in 1 .. n /\ j # 1
    BY <1>1
  <2> QED BY <1>2, <1>4, <1>5, <1>12, <2>1, <2>2
<1>13. ASSUME NEW r \in Reminders, Head(plan) = SendOf(r) PROVE Mentions(plan, StampOf(r))
  <2>1. PICK j \in 1 + 1 .. n : plan[j] = StampOf(r)
    BY <1>2, <1>4, <1>5, <1>13
  <2>2. j \in 1 .. n
    BY <1>1
  <2> QED BY <2>1, <2>2 DEF Mentions, n
<1> QED BY <1>8, <1>9, <1>10, <1>11, <1>12, <1>13 DEF rest

Wanted(reminder, t, able) ==
  \/ reminder = "overdue" /\ Overdue(t)
  \/ reminder = "nudge" /\ Nudge(t, able)
  \/ reminder = "notice" /\ Notice(t)

(* The plan mentions those of the reminders in R that are wanted.          *)
Says(plan, R, t, able) ==
  \A r \in Reminders :
    /\ Mentions(plan, SendOf(r)) <=> r \in R /\ Wanted(r, t, able)
    /\ Mentions(plan, StampOf(r)) <=> r \in R /\ Wanted(r, t, able)

LEMMA OneReminderMore ==
  ASSUME NEW plan, Ordered(plan), NEW R, NEW t, NEW able, Says(plan, R, t, able),
         NEW r \in Reminders, r \notin R, NEW wanted \in BOOLEAN, wanted <=> Wanted(r, t, able)
  PROVE  /\ Ordered(plan \o Effects(r, wanted))
         /\ Says(plan \o Effects(r, wanted), R \cup {r}, t, able)
         /\ StartPlanned(plan) => StartPlanned(plan \o Effects(r, wanted))
<1>1. ~Mentions(plan, SendOf(r)) /\ ~Mentions(plan, StampOf(r))
  BY DEF Says
<1>2. /\ Ordered(plan \o Effects(r, wanted))
      /\ \A e : Mentions(plan \o Effects(r, wanted), e) <=>
                  Mentions(plan, e) \/ (wanted /\ e \in {SendOf(r), StampOf(r)})
      /\ StartPlanned(plan) => StartPlanned(plan \o Effects(r, wanted))
  BY <1>1, ReminderPlanned
<1> DEFINE both == plan \o Effects(r, wanted)
<1> HIDE DEF both
<1>3. ASSUME NEW s \in Reminders
      PROVE  /\ Mentions(both, SendOf(s)) <=> s \in R \cup {r} /\ Wanted(s, t, able)
             /\ Mentions(both, StampOf(s)) <=> s \in R \cup {r} /\ Wanted(s, t, able)
  <2>1. CASE s = r
    BY <1>1, <1>2, <2>1 DEF both
  <2>2. CASE s # r
    BY <1>2, <2>2, EffectsDiffer DEF both, Says
  <2> QED BY <2>1, <2>2
<1> QED BY <1>2, <1>3 DEF both, Says

(* decide sends what is wanted, once each, and starts what may be started. *)
LEMMA DecidedPlan ==
  ASSUME NEW able \in BOOLEAN
  PROVE  /\ Ordered(Decided(able))
         /\ \A r \in Reminders :
              /\ Mentions(Decided(able), SendOf(r)) <=> ~running /\ Wanted(r, tick.at, able)
              /\ Mentions(Decided(able), StampOf(r)) <=> ~running /\ Wanted(r, tick.at, able)
         /\ ~running /\ StartBackup(tick.at, able) => StartPlanned(Decided(able))
<1> DEFINE t == tick.at
           start == IF StartBackup(t, able) THEN <<StartEffect>> ELSE <<>>
           first == start \o Effects("overdue", Overdue(t))
           second == first \o Effects("nudge", Nudge(t, able))
           third == second \o Effects("notice", Notice(t))
<1>1. Ordered(<<>>) /\ Says(<<>>, {}, t, able)
  BY DEF Ordered, StartFirst, Mentions, Says
<1>2. CASE running
  <2>1. Decided(able) = <<>>
    BY <1>2 DEF Decided
  <2> QED BY <1>1, <1>2, <2>1 DEF Says
<1>3. CASE ~running
  <2>1. Decided(able) = third
    BY <1>3 DEF Decided, StartEffect
  <2>2. /\ Ordered(start) /\ Says(start, {}, t, able)
        /\ StartBackup(t, able) => StartPlanned(start)
    <3>1. CASE StartBackup(t, able)
      <4>1. /\ start = <<StartEffect>> /\ Len(start) = 1 /\ start[1] = StartEffect /\ start # <<>>
            /\ Head(start) = StartEffect
        BY <3>1
      <4>2. start \in Seq(Effect \cup {StartEffect})
        BY <3>1
      <4> HIDE DEF start
      <4>3. StartFirst(start)
        BY <4>1, <4>2 DEF StartFirst
      <4> QED BY <4>1, <4>3, EffectsDiffer DEF Ordered, StartPlanned, Mentions, Says
    <3>2. CASE ~StartBackup(t, able)
      BY <1>1, <3>2
    <3> QED BY <3>1, <3>2
  <2> HIDE DEF start
  <2>3. /\ Overdue(t) \in BOOLEAN /\ (Overdue(t) <=> Wanted("overdue", t, able))
        /\ Nudge(t, able) \in BOOLEAN /\ (Nudge(t, able) <=> Wanted("nudge", t, able))
        /\ Notice(t) \in BOOLEAN /\ (Notice(t) <=> Wanted("notice", t, able))
        /\ "overdue" \in Reminders /\ "nudge" \in Reminders /\ "notice" \in Reminders
    BY DEF Wanted, Overdue, Nudge, Notice, Reminders
  <2>4. Ordered(first) /\ Says(first, {} \cup {"overdue"}, t, able) /\ (StartPlanned(start) => StartPlanned(first))
    BY <2>2, <2>3, OneReminderMore
  <2>5. Says(first, {"overdue"}, t, able)
    BY <2>4
  <2> HIDE DEF first
  <2>6. Ordered(second) /\ Says(second, {"overdue"} \cup {"nudge"}, t, able) /\ (StartPlanned(first) => StartPlanned(second))
    BY <2>3, <2>4, <2>5, OneReminderMore
  <2>7. Says(second, {"overdue", "nudge"}, t, able)
    BY <2>6
  <2> HIDE DEF second
  <2>8. /\ Ordered(third) /\ Says(third, {"overdue", "nudge"} \cup {"notice"}, t, able)
        /\ StartPlanned(second) => StartPlanned(third)
    BY <2>3, <2>6, <2>7, OneReminderMore
  <2>9. \A r \in Reminders : r \in {"overdue", "nudge"} \cup {"notice"}
    BY DEF Reminders
  <2> HIDE DEF third
  <2> QED BY <1>3, <2>1, <2>2, <2>4, <2>6, <2>8, <2>9 DEF Says
<1> QED BY <1>2, <1>3

-----------------------------------------------------------------------------
(* What the tick owes. Between reading the clock and its last effect it    *)
(* still has to send what it decided to send, to stamp what it sent, and   *)
(* to use the slot that had come; nothing else stamps or sends.            *)

Marked(reminder, t) ==
  IF t = Never THEN Never ELSE IF reminder = "notice" THEN NextStart(t) ELSE t

(* At t the reminder's last one is long enough ago, or of another window.  *)
Spaced(reminder, last, t) ==
  /\ reminder = "nudge" => Stale(last, t, Interval)
  /\ reminder = "overdue" => Stale(last, t, OverdueCooldown)
  /\ reminder = "notice" => last = Never \/ NextStart(last) # NextStart(t)

Stamped ==
  \A r \in Reminders :
    /\ Mentions(tick.plan, StampOf(r)) => Mentions(tick.plan, SendOf(r)) \/ sent[r] = tick.at
    /\ \/ stamps[r] = Marked(r, sent[r])
       \/ Mentions(tick.plan, StampOf(r)) /\ ~Mentions(tick.plan, SendOf(r))
    /\ Mentions(tick.plan, SendOf(r)) => Spaced(r, sent[r], tick.at)

AlertOwed ==
  tick.phase # "discovering" /\ ~tick.busy /\ LongOverdue(tick.at) =>
    \/ Mentions(tick.plan, SendOf("overdue"))
    \/ sent.overdue # Never /\ tick.at - sent.overdue < OverdueCooldown

SlotsUsed(t) == \A o \in Offsets : LastStart(t) + o <= t => lastAttempt >= LastStart(t) + o

SlotOwed ==
  /\ tick.phase # "discovering" /\ tick.able /\ ~tick.busy /\ Due(tick.at) /\ InWindow(tick.at) =>
       SlotsUsed(tick.at) \/ StartPlanned(tick.plan)
  /\ tick.phase = "acting" /\ ~tick.busy /\ running => lastAttempt >= tick.at

Owed == Ordered(tick.plan) /\ Stamped /\ AlertOwed /\ SlotOwed

LEMMA OwedInit == Init => Owed
<1> SUFFICES ASSUME Init PROVE Owed
  OBVIOUS
<1>1. /\ tick.plan = <<>> /\ tick.busy = TRUE /\ tick.phase = "idle"
      /\ \A r \in Reminders : stamps[r] = Never /\ sent[r] = Never
  BY DEF Init
<1>2. Ordered(<<>>) /\ \A e : ~Mentions(<<>>, e)
  BY DEF Ordered, StartFirst, Mentions
<1> QED BY <1>1, <1>2 DEF Owed, Stamped, AlertOwed, SlotOwed, Marked

LEMMA LessIsWellFounded == IsWellFoundedOn({ss \in Nat \X Nat : ss[1] < ss[2]}, Nat)
BY NatLessThanWellFounded DEF OpToRel

(* Of any retry slots the first exists.                                    *)
LEMMA FirstOf ==
  ASSUME NEW S, S \subseteq Offsets, S # {}
  PROVE  \E o \in S : \A other \in S : o <= other
<1> DEFINE Less == {ss \in Nat \X Nat : ss[1] < ss[2]}
<1>1. S \subseteq Nat /\ IsWellFoundedOn(Less, Nat)
  BY LessIsWellFounded, ScheduleAssumption
<1> HIDE DEF Less
<1>2. PICK o \in S : \A other \in S : ~(<<other, o>> \in Less)
  BY <1>1, WFMin
<1>3. ASSUME NEW other \in S PROVE o <= other
  <2>1. ~(other < o)
    BY <1>1, <1>2 DEF Less
  <2> QED BY <1>1, <2>1
<1> QED BY <1>3

(* When no further attempt is allowed every slot that has come was used.   *)
LEMMA RefusedMeansUsed ==
  ASSUME NEW t \in Int, lastAttempt \in Int, ~AttemptAllowed(t)
  PROVE  SlotsUsed(t)
<1> DEFINE w == LastStart(t)
<1>1. w \in Int /\ w <= lastAttempt
  BY LastStartBefore DEF AttemptAllowed
<1>2. \A o \in NextSlot(lastAttempt - w) : ~(t >= w + o)
  BY DEF AttemptAllowed
<1> HIDE DEF w
<1>3. ASSUME NEW o \in Offsets, w + o <= t, ~(lastAttempt >= w + o) PROVE FALSE
  <2> DEFINE Later == {p \in Offsets : p > lastAttempt - w}
  <2>1. o \in Later
    BY <1>1, <1>3, OffsetsAreNumbers
  <2>2. PICK first \in Later : \A other \in Later : first <= other
    BY <2>1, FirstOf
  <2>3. first \in NextSlot(lastAttempt - w)
    BY <2>2 DEF NextSlot
  <2>4. first <= o /\ first \in Int /\ o \in Int
    BY <2>1, <2>2, OffsetsAreNumbers
  <2> QED BY <1>1, <1>2, <1>3, <2>3, <2>4
<1> QED BY <1>3 DEF SlotsUsed, w

(* A plan that was decided owes what was decided.                          *)
LEMMA DecideKeepsOwed ==
  ASSUME SlotInv, Timed, Owed, Decide
  PROVE  Owed'
<1>1. PICK able \in BOOLEAN :
        tick' = [tick EXCEPT !.phase = "acting", !.plan = Decided(able), !.busy = running, !.able = able]
  BY DEF Decide
<1>2. /\ tick \in [phase : {"idle", "discovering", "acting"}, at : Int,
                   plan : Seq(Effect \cup {StartEffect}), busy : BOOLEAN, able : BOOLEAN]
      /\ tick.phase = "discovering" /\ tick.plan = <<>> /\ tick.at \in Int /\ lastAttempt \in Int
  BY DEF Decide, SlotInv, Shaped
<1>3. /\ tick'.phase = "acting" /\ tick'.plan = Decided(able) /\ tick'.busy = running /\ tick'.able = able
      /\ tick'.at = tick.at
  BY <1>1, <1>2
<1>4. UNCHANGED <<now, running, lastSuccess, lastAttempt, stamps, sent>>
  BY DEF Decide, runVars, history
<1>5. \A r \in Reminders : stamps[r] = Marked(r, sent[r])
  BY <1>2 DEF Owed, Stamped, Mentions
<1>6. ASSUME NEW r \in Reminders, Wanted(r, tick.at, able) PROVE Spaced(r, sent[r], tick.at)
  <2>1. "nudge" \in Reminders /\ "overdue" \in Reminders /\ "notice" \in Reminders
    BY DEF Reminders
  <2>2. CASE r = "nudge"
    BY <1>5, <1>6, <2>1, <2>2 DEF Wanted, Nudge, Marked, Spaced, Stale
  <2>3. CASE r = "overdue"
    BY <1>5, <1>6, <2>1, <2>3 DEF Wanted, Overdue, Marked, Spaced, Stale
  <2>4. CASE r = "notice"
    BY <1>5, <1>6, <2>1, <2>4 DEF Wanted, Notice, Marked, Spaced
  <2> QED BY <2>2, <2>3, <2>4 DEF Reminders
<1>7. Stamped'
  <2> SUFFICES ASSUME NEW r \in Reminders
               PROVE  /\ Mentions(tick'.plan, StampOf(r)) => Mentions(tick'.plan, SendOf(r)) \/ sent'[r] = tick'.at
                      /\ \/ stamps'[r] = Marked(r, sent'[r])
                         \/ Mentions(tick'.plan, StampOf(r)) /\ ~Mentions(tick'.plan, SendOf(r))
                      /\ Mentions(tick'.plan, SendOf(r)) => Spaced(r, sent'[r], tick'.at)
    BY DEF Stamped, Mentions, Marked, Spaced, Stale, NextStart, Today, Clock
  <2> QED BY <1>3, <1>4, <1>5, <1>6, DecidedPlan
<1>8. AlertOwed'
  <2> SUFFICES ASSUME ~running, LongOverdue(tick.at), ~Mentions(Decided(able), SendOf("overdue"))
               PROVE  sent.overdue # Never /\ tick.at - sent.overdue < OverdueCooldown
    BY <1>3, <1>4 DEF AlertOwed, LongOverdue, Mentions
  <2>1. "overdue" \in Reminders
    BY DEF Reminders
  <2>2. ~Overdue(tick.at)
    BY <2>1, DecidedPlan DEF Wanted
  <2>3. ~Stale(stamps.overdue, tick.at, OverdueCooldown) /\ stamps.overdue = sent.overdue
    BY <1>5, <2>1, <2>2 DEF Overdue, Marked
  <2>4. stamps.overdue # Never /\ ~(tick.at - sent.overdue >= OverdueCooldown)
    BY <2>3 DEF Stale
  <2>5. sent.overdue \in Int /\ OverdueCooldown \in Int
    BY <2>1, ScheduleAssumption DEF Timed, TypeOK, Times, Never, Epoch
  <2> QED BY <1>2, <2>3, <2>4, <2>5
<1>9. SlotOwed'
  <2>1. ASSUME ~running, able, Due(tick.at), InWindow(tick.at) PROVE SlotsUsed(tick.at) \/ StartPlanned(Decided(able))
    BY <1>2, <2>1, DecidedPlan, RefusedMeansUsed DEF StartBackup
  <2> QED BY <1>3, <1>4, <2>1 DEF SlotOwed, Due, Stale, InWindow, SlotsUsed, LastStart, Today, Clock, StartPlanned
<1>10. Ordered(tick.plan)'
  BY <1>3, DecidedPlan DEF Ordered, StartFirst
<1> QED BY <1>7, <1>8, <1>9, <1>10 DEF Owed

(* Sending pays the first half of a debt: the alert is as fresh as the     *)
(* tick, and only its stamp is still to come.                              *)
LEMMA SendKeepsOwed ==
  ASSUME SlotInv, Timed, Owed, NEW r \in Reminders, Send(r)
  PROVE  Owed'
<1> DEFINE rest == Tail(tick.plan)
<1>1. /\ tick \in [phase : {"idle", "discovering", "acting"}, at : Int,
                   plan : Seq(Effect \cup {StartEffect}), busy : BOOLEAN, able : BOOLEAN]
      /\ tick.plan # <<>> /\ Head(tick.plan) = SendOf(r) /\ tick.phase = "acting"
      /\ tick' = [tick EXCEPT !.plan = rest]
      /\ Ordered(tick.plan)
  BY DEF Send, Doing, SendOf, SlotInv, Shaped, Owed
<1>2. /\ Ordered(rest)
      /\ ~Mentions(rest, SendOf(r)) /\ Mentions(rest, StampOf(r))
      /\ \A s \in Reminders : /\ Mentions(rest, StampOf(s)) <=> Mentions(tick.plan, StampOf(s))
                              /\ s # r => (Mentions(rest, SendOf(s)) <=> Mentions(tick.plan, SendOf(s)))
  BY <1>1, EffectDone, EffectsDiffer
<1>3. ~StartPlanned(tick.plan) /\ ~StartPlanned(rest)
  <2>1. Head(tick.plan) # StartEffect
    BY <1>1, EffectsDiffer
  <2>2. StartFirst(tick.plan)
    BY <1>1 DEF Ordered
  <2> QED BY <1>1, <2>1, <2>2, TailOfPlan DEF StartPlanned
<1> HIDE DEF rest
<1>4. /\ tick'.phase = tick.phase /\ tick'.plan = rest /\ tick'.at = tick.at
      /\ tick'.busy = tick.busy /\ tick'.able = tick.able
  BY <1>1
<1>5. /\ UNCHANGED <<now, running, lastSuccess, lastAttempt, stamps>>
      /\ sent' = [sent EXCEPT ![r] = tick.at] /\ sent \in [Reminders -> Times \cup {Never}]
  BY DEF Send, runVars, Timed, TypeOK
<1>6. sent'[r] = tick.at /\ \A s \in Reminders : s # r => sent'[s] = sent[s]
  BY <1>5
<1>7. Stamped'
  <2> SUFFICES ASSUME NEW s \in Reminders
               PROVE  /\ Mentions(rest, StampOf(s)) => Mentions(rest, SendOf(s)) \/ sent'[s] = tick.at
                      /\ \/ stamps[s] = Marked(s, sent'[s])
                         \/ Mentions(rest, StampOf(s)) /\ ~Mentions(rest, SendOf(s))
                      /\ Mentions(rest, SendOf(s)) => Spaced(s, sent'[s], tick.at)
    BY <1>4, <1>5 DEF Stamped, Mentions, Marked, Spaced, Stale, NextStart, Today, Clock
  <2>1. CASE s = r
    BY <1>2, <1>6, <2>1
  <2>2. CASE s # r
    BY <1>2, <1>6, <2>2 DEF Owed, Stamped
  <2> QED BY <2>1, <2>2
<1>8. AlertOwed'
  <2>1. "overdue" \in Reminders
    BY DEF Reminders
  <2>2. CASE r = "overdue"
    <3>1. tick.at # Never /\ tick.at - tick.at < OverdueCooldown
      <4>1. OverdueCooldown \in Nat \ {0}
        BY ScheduleAssumption
      <4> QED BY <4>1, TickTimes
    <3> QED BY <1>4, <1>6, <2>1, <2>2, <3>1 DEF AlertOwed
  <2>3. CASE r # "overdue"
    BY <1>2, <1>4, <1>5, <1>6, <2>1, <2>3 DEF Owed, AlertOwed, LongOverdue, Mentions
  <2> QED BY <2>2, <2>3
<1>9. SlotOwed'
  BY <1>3, <1>4, <1>5 DEF Owed, SlotOwed, Due, Stale, InWindow, SlotsUsed, LastStart, Today, Clock, StartPlanned
<1>10. Ordered(tick.plan)'
  BY <1>2, <1>4 DEF Ordered, StartFirst
<1> QED BY <1>7, <1>8, <1>9, <1>10 DEF Owed

(* Stamping pays the other half.                                           *)
LEMMA StampKeepsOwed ==
  ASSUME SlotInv, Timed, Owed, NEW r \in Reminders, Stamp(r)
  PROVE  Owed'
<1> DEFINE rest == Tail(tick.plan)
<1>1. /\ tick \in [phase : {"idle", "discovering", "acting"}, at : Int,
                   plan : Seq(Effect \cup {StartEffect}), busy : BOOLEAN, able : BOOLEAN]
      /\ tick.plan # <<>> /\ Head(tick.plan) = StampOf(r) /\ tick.phase = "acting"
      /\ tick' = [tick EXCEPT !.plan = rest]
      /\ Ordered(tick.plan)
  BY DEF Stamp, Doing, StampOf, SlotInv, Shaped, Owed
<1>2. /\ Ordered(rest)
      /\ ~Mentions(tick.plan, SendOf(r)) /\ Mentions(tick.plan, StampOf(r)) /\ ~Mentions(rest, StampOf(r))
      /\ \A s \in Reminders : /\ Mentions(rest, SendOf(s)) <=> Mentions(tick.plan, SendOf(s))
                              /\ s # r => (Mentions(rest, StampOf(s)) <=> Mentions(tick.plan, StampOf(s)))
  BY <1>1, EffectDone, EffectsDiffer
<1>3. ~StartPlanned(tick.plan) /\ ~StartPlanned(rest)
  <2>1. Head(tick.plan) # StartEffect
    BY <1>1, EffectsDiffer
  <2>2. StartFirst(tick.plan)
    BY <1>1 DEF Ordered
  <2> QED BY <1>1, <2>1, <2>2, TailOfPlan DEF StartPlanned
<1> HIDE DEF rest
<1>4. /\ tick'.phase = tick.phase /\ tick'.plan = rest /\ tick'.at = tick.at
      /\ tick'.busy = tick.busy /\ tick'.able = tick.able
  BY <1>1
<1>5. /\ UNCHANGED <<now, running, lastSuccess, lastAttempt, sent>>
      /\ stamps' = [stamps EXCEPT ![r] = IF r = "notice" THEN NextStart(tick.at) ELSE tick.at]
      /\ stamps \in [Reminders -> Times \cup {Never}]
  BY DEF Stamp, runVars, history, Timed, TypeOK
<1>6. /\ stamps'[r] = IF r = "notice" THEN NextStart(tick.at) ELSE tick.at
      /\ \A s \in Reminders : s # r => stamps'[s] = stamps[s]
  BY <1>5
<1>7. sent[r] = tick.at /\ tick.at # Never
  BY <1>2, ScheduleAssumption DEF Owed, Stamped, Timed, TypeOK, Epoch, Never
<1>8. Stamped'
  <2> SUFFICES ASSUME NEW s \in Reminders
               PROVE  /\ Mentions(rest, StampOf(s)) => Mentions(rest, SendOf(s)) \/ sent[s] = tick.at
                      /\ \/ stamps'[s] = Marked(s, sent[s])
                         \/ Mentions(rest, StampOf(s)) /\ ~Mentions(rest, SendOf(s))
                      /\ Mentions(rest, SendOf(s)) => Spaced(s, sent[s], tick.at)
    BY <1>4, <1>5 DEF Stamped, Mentions, Marked, Spaced, Stale, NextStart, Today, Clock
  <2>1. CASE s = r
    BY <1>2, <1>6, <1>7, <2>1 DEF Marked
  <2>2. CASE s # r
    BY <1>2, <1>6, <2>2 DEF Owed, Stamped
  <2> QED BY <2>1, <2>2
<1>9. AlertOwed'
  BY <1>2, <1>4, <1>5 DEF Owed, AlertOwed, LongOverdue, Mentions, Reminders
<1>10. SlotOwed'
  BY <1>3, <1>4, <1>5 DEF Owed, SlotOwed, Due, Stale, InWindow, SlotsUsed, LastStart, Today, Clock, StartPlanned
<1>11. Ordered(tick.plan)'
  BY <1>2, <1>4 DEF Ordered, StartFirst
<1> QED BY <1>8, <1>9, <1>10, <1>11 DEF Owed

(* A start, or the run already under way, uses the slot that was owed.     *)
LEMMA StartKeepsOwed ==
  ASSUME SlotInv, Timed, Owed, Start
  PROVE  Owed'
<1> DEFINE rest == Tail(tick.plan)
<1>1. /\ tick \in [phase : {"idle", "discovering", "acting"}, at : Int,
                   plan : Seq(Effect \cup {StartEffect}), busy : BOOLEAN, able : BOOLEAN]
      /\ tick.plan # <<>> /\ Head(tick.plan) = StartEffect /\ tick.phase = "acting"
      /\ tick' = [tick EXCEPT !.plan = rest]
      /\ Ordered(tick.plan)
  BY DEF Start, Doing, StartEffect, SlotInv, Shaped, Owed
<1>2. /\ Ordered(rest)
      /\ \A s \in Reminders : /\ Mentions(rest, StampOf(s)) <=> Mentions(tick.plan, StampOf(s))
                              /\ Mentions(rest, SendOf(s)) <=> Mentions(tick.plan, SendOf(s))
  BY <1>1, EffectDone, EffectsDiffer
<1> HIDE DEF rest
<1>3. /\ tick'.phase = tick.phase /\ tick'.plan = rest /\ tick'.at = tick.at
      /\ tick'.busy = tick.busy /\ tick'.able = tick.able
  BY <1>1
<1>4. UNCHANGED <<now, lastSuccess, stamps, sent>>
  BY DEF Start, runVars
<1>5. Stamped'
  <2> SUFFICES ASSUME NEW s \in Reminders
               PROVE  /\ Mentions(rest, StampOf(s)) => Mentions(rest, SendOf(s)) \/ sent[s] = tick.at
                      /\ \/ stamps[s] = Marked(s, sent[s])
                         \/ Mentions(rest, StampOf(s)) /\ ~Mentions(rest, SendOf(s))
                      /\ Mentions(rest, SendOf(s)) => Spaced(s, sent[s], tick.at)
    BY <1>3, <1>4 DEF Stamped, Mentions, Marked, Spaced, Stale, NextStart, Today, Clock
  <2> QED BY <1>2 DEF Owed, Stamped
<1>6. AlertOwed'
  BY <1>2, <1>3, <1>4 DEF Owed, AlertOwed, LongOverdue, Mentions, Reminders
<1>7. ~tick.busy => lastAttempt' >= tick.at /\ lastAttempt' \in Int
  <2>1. CASE running
    BY <1>1, <2>1 DEF Start, runVars, Owed, SlotOwed, SlotInv, Shaped
  <2>2. CASE ~running
    BY <2>2 DEF Start, SlotInv, Shaped, PastTimes
  <2> QED BY <2>1, <2>2
<1>8. ~tick.busy => \A o \in Offsets : LastStart(tick.at) + o <= tick.at => lastAttempt' >= LastStart(tick.at) + o
  BY <1>1, <1>7, LastStartBefore, OffsetsAreNumbers
<1>9. SlotOwed'
  BY <1>3, <1>7, <1>8 DEF SlotOwed, SlotsUsed, LastStart, Today, Clock
<1>10. Ordered(tick.plan)'
  BY <1>2, <1>3 DEF Ordered, StartFirst
<1> QED BY <1>5, <1>6, <1>9, <1>10 DEF Owed

(* Nothing is owed by a tick that has nothing left to do.                  *)
LEMMA EmptyKeepsOwed ==
  ASSUME SlotInv, Timed, Owed, TickBegins \/ TickEnds
  PROVE  Owed'
<1>1. tick \in [phase : {"idle", "discovering", "acting"}, at : Int,
                plan : Seq(Effect \cup {StartEffect}), busy : BOOLEAN, able : BOOLEAN]
  BY DEF SlotInv, Shaped
<1>2. /\ tick'.plan = tick.plan /\ tick.plan = <<>> /\ tick'.busy = tick.busy /\ tick'.able = tick.able
      /\ \/ tick'.phase = "discovering"
         \/ tick'.phase = "idle" /\ tick.phase = "acting" /\ tick'.at = tick.at
  BY <1>1 DEF TickBegins, TickEnds, SlotInv, Shaped
<1>3. UNCHANGED <<running, lastSuccess, lastAttempt, stamps, sent>>
  BY DEF TickBegins, TickEnds, runVars, history
<1>4. \A e : ~Mentions(<<>>, e)
  BY DEF Mentions
<1>5. Stamped'
  <2> SUFFICES ASSUME NEW s \in Reminders PROVE stamps[s] = Marked(s, sent[s])
    BY <1>2, <1>3, <1>4 DEF Stamped, Mentions, Marked, NextStart, Today, Clock
  <2> QED BY <1>2, <1>4 DEF Owed, Stamped
<1>6. AlertOwed'
  BY <1>2, <1>3, <1>4 DEF Owed, AlertOwed, LongOverdue, Mentions
<1>7. SlotOwed'
  BY <1>2, <1>3 DEF Owed, SlotOwed, Due, Stale, InWindow, SlotsUsed, LastStart, Today, Clock, StartPlanned
<1>8. Ordered(tick.plan)'
  BY <1>2 DEF Owed, Ordered, StartFirst
<1> QED BY <1>5, <1>6, <1>7, <1>8 DEF Owed

(* Runs that start or end beside the tick can only lighten what it owes.   *)
LEMMA QuietKeepsOwed ==
  ASSUME SlotInv, Timed, Owed, UNCHANGED <<tick, stamps, sent>>,
         lastSuccess' \in {lastSuccess, now},
         \/ UNCHANGED <<running, lastAttempt>>
         \/ lastAttempt' = now
         \/ running' = FALSE /\ lastAttempt' = lastAttempt
  PROVE  Owed'
<1>1. /\ tick.at \in Int /\ now \in Int /\ lastAttempt \in Int /\ tick.at <= now /\ lastAttempt <= now
      /\ Interval \in Nat \ {0} /\ OverdueSpan \in Nat \ {0} /\ Epoch \in Int
      /\ now # Never /\ now >= Epoch
  BY ScheduleAssumption DEF SlotInv, Shaped, PastTimes, Timed, TypeOK, Epoch, Never
<1>2. ASSUME LongOverdue(tick.at)' PROVE LongOverdue(tick.at)
  <2>1. CASE lastSuccess' = lastSuccess
    BY <1>2, <2>1 DEF LongOverdue
  <2>2. CASE lastSuccess' = now
    <3>1. tick.at - now >= OverdueSpan
      BY <1>1, <1>2, <2>2 DEF LongOverdue
    <3> QED BY <1>1, <3>1
  <2> QED BY <2>1, <2>2
<1>3. ASSUME Due(tick.at)' PROVE Due(tick.at)
  <2>1. CASE lastSuccess' = lastSuccess
    BY <1>3, <2>1 DEF Due, Stale
  <2>2. CASE lastSuccess' = now
    <3>1. tick.at - now >= Interval
      BY <1>1, <1>3, <2>2 DEF Due, Stale
    <3> QED BY <1>1, <3>1
  <2> QED BY <2>1, <2>2
<1>4. Stamped'
  BY DEF Owed, Stamped, Mentions, Marked, Spaced, Stale, NextStart, Today, Clock
<1>5. AlertOwed'
  BY <1>2 DEF Owed, AlertOwed, Mentions
<1>6. lastAttempt' \in Int /\ lastAttempt <= lastAttempt'
  BY <1>1
<1>7. ASSUME SlotsUsed(tick.at)
      PROVE  \A o \in Offsets : LastStart(tick.at) + o <= tick.at => lastAttempt' >= LastStart(tick.at) + o
  BY <1>1, <1>6, <1>7, LastStartBefore, OffsetsAreNumbers DEF SlotsUsed
<1>8. SlotOwed'
  <2>1. tick.phase = "acting" /\ ~tick.busy /\ running' => lastAttempt' >= tick.at
    BY <1>1 DEF Owed, SlotOwed
  <2>2. ASSUME tick.phase # "discovering", tick.able, ~tick.busy, Due(tick.at)', InWindow(tick.at)
        PROVE  SlotsUsed(tick.at)' \/ StartPlanned(tick.plan)
    <3>1. SlotsUsed(tick.at) \/ StartPlanned(tick.plan)
      BY <1>3, <2>2 DEF Owed, SlotOwed
    <3> QED BY <1>7, <3>1 DEF SlotsUsed, LastStart, Today, Clock
  <2> QED BY <2>1, <2>2 DEF SlotOwed, InWindow, Clock, StartPlanned
<1>9. Ordered(tick.plan)'
  BY DEF Owed, Ordered, StartFirst
<1> QED BY <1>4, <1>5, <1>8, <1>9 DEF Owed

LEMMA OwedStep ==
  ASSUME SlotInv, Timed, Owed, [Next]_vars, "aborted_ticks" \notin Env
  PROVE  Owed'
<1>1. CASE TickRefused \/ Minute \/ UNCHANGED vars
  BY <1>1, QuietKeepsOwed DEF TickRefused, Minute, vars, runVars, history
<1>2. CASE ManualStart
  BY <1>2, QuietKeepsOwed DEF ManualStart, history
<1>3. CASE RunEnds
  BY <1>3, QuietKeepsOwed DEF RunEnds, history
<1> QED BY <1>1, <1>2, <1>3, DecideKeepsOwed, SendKeepsOwed, StampKeepsOwed, StartKeepsOwed, EmptyKeepsOwed
        DEF Next, TickAborts

LEMMA OwedAlways ==
  ASSUME "aborted_ticks" \notin Env
  PROVE  Spec => [](SlotInv /\ Timed /\ Owed)
<1>1. SlotInv /\ Timed /\ Owed /\ [Next]_vars => Owed'
  BY OwedStep
<1> QED BY <1>1, OwedInit, TimedAlways, PTL DEF Spec

(* What holds at the end of every tick: no slot is lost and an overdue     *)
(* alert is fresh (scheduler.py:100-110, 178-188), however long discovery  *)
(* takes and however late the ticks, as long as each tick is carried out.  *)
THEOREM ScheduleInvAlways ==
  ASSUME "aborted_ticks" \notin Env
  PROVE  Spec => []ScheduleInv
<1>1. Owed /\ Timed => ScheduleInv
  <2> SUFFICES ASSUME Owed, Timed PROVE NoSlotLost /\ OverdueTold
    BY DEF ScheduleInv, Timed
  <2>1. tick.phase = "idle" => ~StartPlanned(tick.plan) /\ \A e : ~Mentions(tick.plan, e)
    BY DEF Timed, TypeOK, StartPlanned, Mentions
  <2> QED BY <2>1 DEF Owed, AlertOwed, SlotOwed, SlotsUsed, NoSlotLost, OverdueTold
<1> QED BY <1>1, OwedAlways, PTL

(* scheduler.py:6-8, 178-235: one overdue alert and one nudge per period,  *)
(* one notice per window, under the same conditions.                       *)
THEOREM RemindersSpacedAlways ==
  ASSUME "aborted_ticks" \notin Env
  PROVE  Spec => RemindersSpaced
<1> DEFINE Step ==
      /\ sent'.nudge # sent.nudge => Stale(sent.nudge, sent'.nudge, Interval)
      /\ sent'.overdue # sent.overdue => Stale(sent.overdue, sent'.overdue, OverdueCooldown)
      /\ sent'.notice # sent.notice =>
           sent.notice = Never \/ NextStart(sent.notice) # NextStart(sent'.notice)
<1>1. SlotInv /\ Timed /\ Owed /\ [Next]_vars => [Step]_vars
  <2> SUFFICES ASSUME SlotInv, Timed, Owed, Next PROVE Step
    BY DEF Step
  <2>1. CASE sent' = sent
    BY <2>1
  <2>2. ASSUME NEW r \in Reminders, Send(r) PROVE Step
    <3>1. sent' = [sent EXCEPT ![r] = tick.at] /\ sent \in [Reminders -> Times \cup {Never}]
      BY <2>2 DEF Send, Timed, TypeOK
    <3>2. Mentions(tick.plan, SendOf(r))
      BY <2>2, EffectDone DEF Owed, Send, Doing, SendOf
    <3>3. Spaced(r, sent[r], tick.at)
      BY <3>2 DEF Owed, Stamped
    <3>4. r \in {"nudge", "overdue", "notice"} /\ {"nudge", "overdue", "notice"} \subseteq Reminders
      BY DEF Reminders
    <3>5. sent'[r] = tick.at /\ \A s \in Reminders : s # r => sent'[s] = sent[s]
      BY <3>1
    <3> QED BY <3>3, <3>4, <3>5 DEF Spaced
  <2> QED BY <2>1, <2>2 DEF Next, TickRefused, TickBegins, Decide, Start, Stamp, TickEnds, TickAborts, Minute,
          ManualStart, RunEnds, history
<1> QED BY <1>1, OwedAlways, PTL DEF Spec, RemindersSpaced, Step

-----------------------------------------------------------------------------
(* The notice of the first start. Ticks are at most TickEvery + 1 minutes  *)
(* apart, so one of them falls into the lead time before each window, finds*)
(* the new device due, and announces the window.                           *)

LEMMA SameClock ==
  ASSUME NEW a \in Int, NEW b \in Int, Clock(a) = Clock(b), a - b < Day, b - a < Day
  PROVE  a = b
<1>1. Day \in Nat \ {0}
  BY ScheduleAssumption
<1>2. PICK p \in Int, q \in Int : a = p * Day + Clock(a) /\ b = q * Day + Clock(b)
  BY <1>1, Remainder DEF Clock
<1>3. Clock(a) \in Int
  BY <1>1 DEF Clock
<1>4. (p - q) * Day = a - b /\ p - q \in Int
  BY <1>1, <1>2, <1>3
<1>5. p - q = 0
  BY <1>1, <1>4, ProductBound
<1> QED BY <1>1, <1>4, <1>5

LEMMA DayBefore == ASSUME NEW a \in Int PROVE Clock(a - Day) = Clock(a)
<1>1. Day \in Nat \ {0}
  BY ScheduleAssumption
<1>2. PICK q \in Int : a = q * Day + Clock(a)
  BY <1>1, Remainder DEF Clock
<1>3. Clock(a) \in 0 .. Day - 1 /\ q - 1 \in Int
  BY <1>1 DEF Clock
<1>4. ((q - 1) * Day + Clock(a)) % Day = Clock(a)
  BY <1>1, <1>3, RemainderUnique
<1>5. (q - 1) * Day + Clock(a) = a - Day
  BY <1>1, <1>2, <1>3
<1> QED BY <1>4, <1>5 DEF Clock

(* The last start before t is the only start of the day that ends at t.    *)
LEMMA LastStartOnly ==
  ASSUME NEW t \in Int, NEW s \in Int, Clock(s) = WindowStart, s <= t, t - Day < s
  PROVE  LastStart(t) = s
<1>1. LastStart(t) \in Int /\ t - Day < LastStart(t) /\ LastStart(t) <= t
  BY StartsAround
<1>2. Day \in Int
  BY ScheduleAssumption
<1>3. LastStart(t) - s < Day /\ s - LastStart(t) < Day
  BY <1>1, <1>2
<1> QED BY <1>1, <1>3, LastStartClock, SameClock

(* The minute before a window either was in it or waited for it.           *)
LEMMA WindowsMeet ==
  ASSUME NEW p \in Int, NEW t \in Int, InWindow(t), p < t, t - p <= Day - Length
  PROVE  \/ InWindow(p) /\ LastStart(p) = LastStart(t)
         \/ ~InWindow(p) /\ p < LastStart(t) /\ NextStart(p) = LastStart(t)
<1>1. PICK s \in Int : s = LastStart(t)
  BY LastStartBefore
<1>2. Day \in Nat \ {0} /\ Length \in Int /\ WindowStart \in Int
  BY ScheduleAssumption DEF Length
<1>3. s <= t /\ t - Day < s /\ Clock(s) = WindowStart /\ t < s + Length
  BY <1>1, StartsAround, LastStartClock, InWindowExactly
<1>4. CASE s <= p
  <2>1. LastStart(p) = s
    <3>1. p - Day < s
      BY <1>2, <1>3
    <3> QED BY <1>3, <1>4, <3>1, LastStartOnly
  <2>2. p < LastStart(p) + Length
    BY <1>2, <1>3, <2>1
  <2> QED BY <1>1, <2>1, <2>2, InWindowExactly
<1>5. CASE p < s
  <2>1. s - Day \in Int /\ s - Day <= p /\ p - Day < s - Day /\ s - Day < p /\ ~(p < s - Day + Length)
    BY <1>2, <1>3, <1>5
  <2>2. Clock(s - Day) = WindowStart
    BY <1>3, DayBefore
  <2>3. LastStart(p) = s - Day
    BY <2>1, <2>2, LastStartOnly
  <2>4. ~InWindow(p)
    BY <2>1, <2>3, InWindowExactly
  <2>5. Today(p) \in Int
    BY <1>2 DEF Today, Clock
  <2>6. NextStart(p) = s
    <3>1. CASE Today(p) > p
      <4>1. Today(p) - Day = s - Day
        BY <2>3, <3>1 DEF LastStart
      <4>2. NextStart(p) = Today(p)
        BY <2>5, <3>1 DEF NextStart
      <4> QED BY <1>2, <2>5, <4>1, <4>2
    <3>2. CASE ~(Today(p) > p)
      <4>1. Today(p) = s - Day
        BY <2>3, <3>2 DEF LastStart
      <4>2. NextStart(p) = Today(p) + Day
        BY <2>1, <4>1 DEF NextStart
      <4> QED BY <1>2, <4>1, <4>2
    <3> QED BY <3>1, <3>2
  <2> QED BY <1>1, <1>5, <2>4, <2>6
<1> QED BY <1>2, <1>4, <1>5

(* A device nothing was tried for has no run of any kind.                  *)
Fresh == lastAttempt = Never => ~running /\ lastSuccess = Never

(* The lease is that of the newest tick, and no older than ticks are apart.*)
Paced ==
  /\ lease = Never => now = Epoch /\ tick.phase = "idle" /\ tried # now
  /\ lease # Never => lease = tick.at
  /\ tried = now => lease >= now - TickEvery
  /\ tried # now /\ lease # Never => lease >= now - 1 - TickEvery
  /\ tick.phase # "idle" => lease = now /\ tried = now

OutsideIt == Mentions(tick.plan, SendOf("notice")) => ~InWindow(tick.at)

Announced(start) == sent.notice # Never /\ NextStart(sent.notice) = start

(* A tick close enough before a window announces it ...                    *)
Ahead ==
  /\ lastAttempt = Never /\ lease # Never /\ tick.phase # "discovering"
  /\ ~InWindow(tick.at) /\ NextStart(tick.at) - tick.at <= Lead
  => Mentions(tick.plan, SendOf("notice")) \/ Announced(NextStart(tick.at))

(* ... so that a tick inside it comes after the notice.                    *)
Open ==
  lastAttempt = Never /\ lease # Never /\ InWindow(tick.at) /\ LastStart(tick.at) - Lead >= Epoch
    => Announced(LastStart(tick.at))

NoticeInv == Fresh /\ Paced /\ OutsideIt /\ Ahead /\ Open

LEMMA NoticeInit == Init => NoticeInv
<1> SUFFICES ASSUME Init PROVE NoticeInv
  OBVIOUS
<1>1. /\ tick.plan = <<>> /\ tick.phase = "idle" /\ lease = Never /\ tried = Never /\ now = Epoch
      /\ lastSuccess = Never /\ running = FALSE
  BY DEF Init
<1>2. Epoch # Never
  BY ScheduleAssumption DEF Epoch, Never
<1> QED BY <1>1, <1>2 DEF NoticeInv, Fresh, Paced, OutsideIt, Ahead, Open, Mentions

(* What a tick, an effect or a run beside them leaves standing.            *)
LEMMA PlanGoesOn ==
  ASSUME SlotInv, Timed, NoticeInv, tick.phase = "acting", tick'.phase = "acting", tick'.at = tick.at,
         UNCHANGED <<now, tried, lease>>,
         Mentions(tick'.plan, SendOf("notice")) => Mentions(tick.plan, SendOf("notice")),
         Fresh', lastAttempt' = Never => lastAttempt = Never,
         \/ lastAttempt' # Never
         \/ sent'.notice = sent.notice /\ (Mentions(tick.plan, SendOf("notice")) => Mentions(tick'.plan, SendOf("notice")))
         \/ sent'.notice = tick.at /\ Mentions(tick.plan, SendOf("notice"))
  PROVE  NoticeInv'
<1>1. Paced'
  BY DEF NoticeInv, Paced
<1>2. OutsideIt'
  BY DEF NoticeInv, OutsideIt, Mentions, InWindow, Clock
<1>3. tick.at # Never
  BY ScheduleAssumption DEF Timed, TypeOK, Epoch, Never
<1>4. Ahead'
  BY <1>3 DEF NoticeInv, Ahead, Announced, Mentions, InWindow, NextStart, Today, Clock
<1>5. Open'
  BY <1>3 DEF NoticeInv, Open, OutsideIt, Announced, Mentions, InWindow, LastStart, NextStart, Today, Clock
<1> QED BY <1>1, <1>2, <1>4, <1>5 DEF NoticeInv

LEMMA EffectKeepsNotice ==
  ASSUME SlotInv, Timed, Owed, NoticeInv,
         \/ Start
         \/ \E r \in Reminders : Send(r) \/ Stamp(r)
  PROVE  NoticeInv'
<1>1. /\ tick \in [phase : {"idle", "discovering", "acting"}, at : Int,
                   plan : Seq(Effect \cup {StartEffect}), busy : BOOLEAN, able : BOOLEAN]
      /\ tick.plan # <<>> /\ tick.phase = "acting" /\ tick' = [tick EXCEPT !.plan = Tail(@)]
      /\ Ordered(tick.plan)
      /\ UNCHANGED <<now, tried, lease>>
  BY DEF Start, Send, Stamp, Doing, SlotInv, Shaped, Owed
<1>2. tick'.phase = "acting" /\ tick'.at = tick.at /\ tick'.plan = Tail(tick.plan)
  BY <1>1
<1>3. /\ Mentions(Tail(tick.plan), SendOf("notice")) => Mentions(tick.plan, SendOf("notice"))
      /\ Head(tick.plan) # SendOf("notice") /\ Mentions(tick.plan, SendOf("notice"))
           => Mentions(Tail(tick.plan), SendOf("notice"))
      /\ Mentions(tick.plan, Head(tick.plan))
  BY <1>1, EffectDone
<1>4. "notice" \in Reminders
  BY DEF Reminders
<1>5. now # Never
  BY ScheduleAssumption DEF Timed, TypeOK, Epoch, Never
<1>6. CASE Start
  <2>1. lastAttempt' # Never
    <3>1. CASE running
      BY <1>6, <3>1 DEF Start, runVars, NoticeInv, Fresh
    <3>2. CASE ~running
      BY <1>5, <1>6, <3>2 DEF Start
    <3> QED BY <3>1, <3>2
  <2> QED BY <1>1, <1>2, <1>3, <2>1, PlanGoesOn DEF Fresh
<1>7. ASSUME NEW r \in Reminders, Send(r) PROVE NoticeInv'
  <2>1. sent' = [sent EXCEPT ![r] = tick.at] /\ sent \in [Reminders -> Times \cup {Never}] /\ Head(tick.plan) = SendOf(r)
    BY <1>7 DEF Send, Doing, SendOf, Timed, TypeOK
  <2>2. UNCHANGED runVars
    BY <1>7 DEF Send
  <2>3. Fresh' /\ lastAttempt' = lastAttempt
    BY <2>2 DEF runVars, Fresh, NoticeInv
  <2>4. CASE r = "notice"
    <3>1. sent'.notice = tick.at /\ Mentions(tick.plan, SendOf("notice"))
      BY <1>3, <1>4, <2>1, <2>4
    <3> QED BY <1>1, <1>2, <1>3, <2>3, <3>1, PlanGoesOn
  <2>5. CASE r # "notice"
    <3>1. sent'.notice = sent.notice /\ Head(tick.plan) # SendOf("notice")
      BY <1>4, <2>1, <2>5, EffectsDiffer
    <3> QED BY <1>1, <1>2, <1>3, <2>3, <3>1, PlanGoesOn
  <2> QED BY <2>4, <2>5
<1>8. ASSUME NEW r \in Reminders, Stamp(r) PROVE NoticeInv'
  <2>1. sent' = sent /\ UNCHANGED runVars /\ Head(tick.plan) = StampOf(r)
    BY <1>8 DEF Stamp, Doing, StampOf, history
  <2>2. Head(tick.plan) # SendOf("notice")
    BY <1>4, <2>1, EffectsDiffer
  <2>3. Fresh' /\ lastAttempt' = lastAttempt
    BY <2>1 DEF runVars, Fresh, NoticeInv
  <2> QED BY <1>1, <1>2, <1>3, <2>1, <2>2, <2>3, PlanGoesOn
<1> QED BY <1>6, <1>7, <1>8

(* A tick that begins inside a window was preceded by one that announced   *)
(* it, or by one inside the same window.                                   *)
LEMMA BeginKeepsNotice ==
  ASSUME SlotInv, Timed, Owed, NoticeInv, TickBegins, TickEvery < Lead, TickEvery < Day - Length
  PROVE  NoticeInv'
<1>1. /\ tick \in [phase : {"idle", "discovering", "acting"}, at : Int,
                   plan : Seq(Effect \cup {StartEffect}), busy : BOOLEAN, able : BOOLEAN]
      /\ tick.plan = <<>> /\ tick.phase = "idle"
      /\ tick' = [tick EXCEPT !.phase = "discovering", !.at = now]
      /\ UNCHANGED <<now, lastAttempt, lastSuccess, running, sent>>
      /\ tried # now /\ tried' = now /\ lease' = now /\ (lease = Never \/ lease < now - TickEvery)
  BY DEF TickBegins, Tried, SlotInv, Shaped, runVars, history
<1>2. tick'.phase = "discovering" /\ tick'.at = now /\ tick'.plan = <<>>
  BY <1>1
<1>3. /\ now \in Int /\ tick.at \in Int /\ Epoch <= now /\ Epoch <= tick.at /\ tick.at <= now
      /\ Epoch \in Nat /\ now # Never
      /\ TickEvery \in Nat /\ Lead \in Nat /\ Day \in Nat /\ Length \in Int
  <2>1. Day \in Nat \ {0} /\ {WindowStart, WindowEnd} \subseteq Int /\ {Lead, TickEvery, Horizon} \subseteq Nat
    BY ScheduleAssumption
  <2>2. Length \in Int
    BY <2>1 DEF Length
  <2>3. Epoch \in Nat
    BY <2>1 DEF Epoch
  <2>4. now \in Epoch .. Epoch + Horizon /\ tick.at \in Epoch .. now
    BY DEF Timed, TypeOK
  <2> QED BY <2>1, <2>2, <2>3, <2>4 DEF Never
<1>4. Fresh'
  BY <1>1 DEF NoticeInv, Fresh
<1>5. Paced'
  BY <1>1, <1>2, <1>3 DEF Paced
<1>6. \A e : ~Mentions(<<>>, e)
  BY DEF Mentions
<1>7. OutsideIt' /\ Ahead'
  BY <1>2, <1>6 DEF OutsideIt, Ahead, Mentions
<1>8. ASSUME lastAttempt = Never, InWindow(now), LastStart(now) - Lead >= Epoch
      PROVE  Announced(LastStart(now))
  <2>1. LastStart(now) \in Int /\ LastStart(now) <= now
    BY <1>3, LastStartBefore
  <2>2. lease # Never
    <3>1. ASSUME lease = Never PROVE FALSE
      <4>1. now = Epoch
        BY <3>1 DEF NoticeInv, Paced
      <4> QED BY <1>3, <1>8, <2>1, <4>1
    <3> QED BY <3>1
  <2>3. lease = tick.at /\ lease >= now - 1 - TickEvery /\ lease < now - TickEvery
    BY <1>1, <2>2 DEF NoticeInv, Paced
  <2>4. tick.at < now /\ now - tick.at <= Lead /\ now - tick.at <= Day - Length
    BY <1>3, <2>3
  <2>5. CASE InWindow(tick.at) /\ LastStart(tick.at) = LastStart(now)
    BY <1>8, <2>2, <2>5 DEF NoticeInv, Open
  <2>6. CASE ~InWindow(tick.at) /\ tick.at < LastStart(now) /\ NextStart(tick.at) = LastStart(now)
    <3>1. NextStart(tick.at) - tick.at <= Lead
      BY <1>3, <2>1, <2>4, <2>6
    <3> QED BY <1>1, <1>6, <1>8, <2>2, <2>6, <3>1 DEF NoticeInv, Ahead
  <2> QED BY <1>3, <1>8, <2>4, <2>5, <2>6, WindowsMeet
<1>9. Open'
  BY <1>1, <1>2, <1>8 DEF Open, Announced, InWindow, LastStart, NextStart, Today, Clock
<1> QED BY <1>4, <1>5, <1>7, <1>9 DEF NoticeInv

(* A tick that finds a new device idle this close to a window plans the    *)
(* notice, unless it was given.                                            *)
LEMMA DecideKeepsNotice ==
  ASSUME SlotInv, Timed, Owed, NoticeInv, Decide
  PROVE  NoticeInv'
<1>1. PICK able \in BOOLEAN :
        tick' = [tick EXCEPT !.phase = "acting", !.plan = Decided(able), !.busy = running, !.able = able]
  BY DEF Decide
<1>2. /\ tick \in [phase : {"idle", "discovering", "acting"}, at : Int,
                   plan : Seq(Effect \cup {StartEffect}), busy : BOOLEAN, able : BOOLEAN]
      /\ tick.plan = <<>> /\ tick.phase = "discovering"
      /\ UNCHANGED <<now, tried, lease, lastAttempt, lastSuccess, running, sent>>
  BY DEF Decide, SlotInv, Shaped, runVars, history
<1>3. tick'.phase = "acting" /\ tick'.at = tick.at /\ tick'.plan = Decided(able)
  BY <1>1, <1>2
<1>4. tick.at \in Int /\ tick.at # Never /\ tick.at >= 0
  BY TickTimes
<1>5. "notice" \in Reminders /\ (Wanted("notice", tick.at, able) <=> Notice(tick.at))
  BY DEF Reminders, Wanted
<1>6. Mentions(Decided(able), SendOf("notice")) <=> ~running /\ Notice(tick.at)
  BY <1>5, DecidedPlan
<1>7. Fresh' /\ Paced'
  BY <1>2, <1>3 DEF NoticeInv, Fresh, Paced
<1>8. OutsideIt'
  BY <1>3, <1>6 DEF OutsideIt, Notice, Mentions, InWindow, Clock
<1>9. ASSUME lastAttempt = Never, ~InWindow(tick.at), NextStart(tick.at) - tick.at <= Lead, ~Notice(tick.at)
      PROVE  Announced(NextStart(tick.at))
  <2>1. lastSuccess = Never
    BY <1>9 DEF NoticeInv, Fresh
  <2>2. stamps.notice = NextStart(tick.at)
    BY <1>9, <2>1 DEF Notice, Due, Stale
  <2>3. stamps.notice = Marked("notice", sent.notice)
    BY <1>2, <1>5 DEF Owed, Stamped, Mentions
  <2>4. NextStart(tick.at) # Never
    BY <1>4, StartsAround DEF Never
  <2> QED BY <2>2, <2>3, <2>4 DEF Marked, Announced
<1>10. Ahead'
  BY <1>2, <1>3, <1>6, <1>9 DEF NoticeInv, Fresh, Ahead, Announced, Mentions, InWindow, NextStart, Today, Clock
<1>11. Open'
  BY <1>2, <1>3 DEF NoticeInv, Open, Announced, InWindow, LastStart, NextStart, Today, Clock
<1> QED BY <1>7, <1>8, <1>10, <1>11 DEF NoticeInv

LEMMA NoticeStep ==
  ASSUME SlotInv, Timed, Owed, NoticeInv, [Next]_vars,
         {"slow_discovery", "late_ticks", "aborted_ticks"} \cap Env = {},
         TickEvery < Lead, TickEvery < Day - Length
  PROVE  NoticeInv'
<1>1. now \in Int /\ now # Never /\ now >= Epoch /\ TickEvery \in Nat /\ Epoch \in Int
      /\ lease \in Int /\ tick.at \in Int /\ Lead \in Nat
  <2>1. Day \in Nat \ {0} /\ {Lead, TickEvery, Horizon} \subseteq Nat
    BY ScheduleAssumption
  <2>2. Epoch \in Nat
    BY <2>1 DEF Epoch
  <2>3. now \in Epoch .. Epoch + Horizon /\ tick.at \in Epoch .. now /\ lease \in Times \cup {Never}
    BY DEF Timed, TypeOK
  <2> QED BY <2>1, <2>2, <2>3 DEF Times, Never
<1>2. ASSUME UNCHANGED <<tick, sent, lease>>, Fresh', Paced', lastAttempt' = Never => lastAttempt = Never
      PROVE  NoticeInv'
  BY <1>2 DEF NoticeInv, OutsideIt, Ahead, Open, Announced, Mentions, InWindow, LastStart, NextStart, Today, Clock
<1>3. CASE TickRefused
  <2>1. Paced'
    BY <1>1, <1>3 DEF NoticeInv, Paced, TickRefused, Tried
  <2> QED BY <1>2, <1>3, <2>1 DEF TickRefused, runVars, history, NoticeInv, Fresh
<1>4. CASE Minute
  <2>1. tick.phase = "idle" /\ tried = now /\ now' = now + 1 /\ UNCHANGED <<tried, lease, tick>>
    BY <1>4 DEF Minute
  <2>2. lease # Never
    BY <2>1 DEF NoticeInv, Paced
  <2>3. Paced'
    BY <1>1, <2>1, <2>2 DEF NoticeInv, Paced
  <2> QED BY <1>2, <1>4, <2>3 DEF Minute, runVars, history, NoticeInv, Fresh
<1>5. CASE ManualStart
  BY <1>1, <1>2, <1>5 DEF ManualStart, history, NoticeInv, Fresh, Paced
<1>6. CASE RunEnds
  BY <1>2, <1>6 DEF RunEnds, history, NoticeInv, Fresh, Paced
<1>7. CASE UNCHANGED vars
  BY <1>2, <1>7 DEF vars, NoticeInv, Fresh, Paced
<1>8. CASE TickEnds
  <2>1. /\ tick \in [phase : {"idle", "discovering", "acting"}, at : Int,
                     plan : Seq(Effect \cup {StartEffect}), busy : BOOLEAN, able : BOOLEAN]
        /\ tick.phase = "acting" /\ tick' = [tick EXCEPT !.phase = "idle"]
        /\ UNCHANGED <<now, tried, lease, lastAttempt, lastSuccess, running, sent>>
    BY <1>8 DEF TickEnds, SlotInv, Shaped, runVars, history
  <2>2. tick'.phase = "idle" /\ tick'.at = tick.at /\ tick'.plan = tick.plan
    BY <2>1
  <2>3. Fresh' /\ OutsideIt'
    BY <2>1, <2>2 DEF NoticeInv, Fresh, OutsideIt, Mentions, InWindow, Clock
  <2>4. Paced'
    BY <1>1, <2>1, <2>2 DEF NoticeInv, Paced
  <2>5. Ahead' /\ Open'
    BY <2>1, <2>2 DEF NoticeInv, Ahead, Open, Announced, Mentions, InWindow, LastStart, NextStart, Today, Clock
  <2> QED BY <2>3, <2>4, <2>5 DEF NoticeInv
<1> QED BY <1>3, <1>4, <1>5, <1>6, <1>7, <1>8, EffectKeepsNotice, BeginKeepsNotice, DecideKeepsNotice
        DEF Next, TickAborts

(* docs/concept.md:34-36, scheduler.py:205-235: a new device's first       *)
(* scheduled start was announced, whatever the window, as long as every    *)
(* minute is tried in time and carried out, ticks are no further apart     *)
(* than the lead, and the window stays closed for longer than that.        *)
THEOREM NoticeGivenAlways ==
  ASSUME {"slow_discovery", "late_ticks", "aborted_ticks"} \cap Env = {},
         TickEvery < Lead, TickEvery < Day - Length
  PROVE  Spec => NoticeGiven
<1> DEFINE Step ==
      starts' # starts /\ lastAttempt = Never /\ LastStart(tick.at) - Lead >= Epoch
        => sent.notice # Never /\ NextStart(sent.notice) = LastStart(tick.at)
<1>1. "slow_discovery" \notin Env /\ "aborted_ticks" \notin Env
  OBVIOUS
<1>2. SlotInv /\ Timed /\ Owed /\ NoticeInv /\ [Next]_vars => NoticeInv'
  BY NoticeStep
<1>3. Init => OnTheMinute
  BY DEF Init, OnTheMinute, StartPlanned
<1>4. SlotInv /\ OnTheMinute /\ [Next]_vars => OnTheMinute'
  BY <1>1, OnTheMinuteStep
<1>5. OnTheMinute /\ NoticeInv /\ [Next]_vars => [Step]_vars
  <2> SUFFICES ASSUME OnTheMinute, NoticeInv, Next, starts' # starts, lastAttempt = Never,
                      LastStart(tick.at) - Lead >= Epoch
               PROVE  Announced(LastStart(tick.at))
    BY DEF Announced
  <2>1. Start
    BY DEF Next, TickRefused, TickBegins, Decide, Send, Stamp, TickEnds, TickAborts, Minute, ManualStart,
       RunEnds, history
  <2>2. tick.phase = "acting" /\ StartPlanned(tick.plan)
    BY <2>1 DEF Start, Doing, StartPlanned, StartEffect
  <2>3. InWindow(tick.at) /\ lease # Never
    BY <2>2 DEF OnTheMinute, NoticeInv, Paced
  <2> QED BY <2>3 DEF NoticeInv, Open
<1>6. Spec => [](SlotInv /\ Timed /\ Owed)
  BY <1>1, OwedAlways
<1> QED BY <1>2, <1>3, <1>4, <1>5, <1>6, NoticeInit, PTL DEF Spec, NoticeGiven, Step

=============================================================================
