---------------------------- MODULE Generations ----------------------------
(***************************************************************************)
(* The generations of one device: taken and pruned by its backup thread,   *)
(* checked and measured by the worker's one consumer thread, pinned and    *)
(* downloaded by the web process - four actors on one directory, with the  *)
(* results of the checks in the database.                                  *)
(***************************************************************************)
EXTENDS Integers, FiniteSets, Sequences, SequencesExt

CONSTANTS
  PeriodLength,     \* how many time units a day, week, month and year last
  Policies,         \* retention policies somebody may set
  Sample, CheckedPolicies,  \* generations and policies PlanMatchesRestic compares
  Times,            \* bound: when the backups of this device end
  MaxQueue,         \* bound: tasks waiting
  MaxEvents         \* bound: events of the environment, each at most once

Periods == {"daily", "weekly", "monthly", "yearly"}
Policy == [{"last"} \cup Periods -> Nat]
KeepsSomething(rules) == \E rule \in DOMAIN rules : rules[rule] > 0

(* kill     the worker dies            raise    rmtree or a check raises   *)
(* rsync    a copy fails               storage  the storage check fails    *)
(* the others are clicks: policy, pin, verify, size, download.           *)
Events == {"kill", "raise", "rsync", "storage", "settings", "pin", "verify", "size", "download"}

ASSUME GenerationsAssumption ==
  /\ PeriodLength \in [Periods -> Nat \ {0}]
  /\ Policies \subseteq Policy /\ Policies # {}
  /\ CheckedPolicies \subseteq Policy
  /\ \A rules \in Policies : KeepsSomething(rules)
  /\ Times \subseteq Nat \ {0} /\ IsFiniteSet(Times)
  /\ Sample \subseteq Nat /\ IsFiniteSet(Sample)
  /\ {MaxQueue, MaxEvents} \subseteq Nat

VARIABLES
  clock,      \* when the last generation was begun
  gens,       \* generation directories, named by the time they were taken
  harmed,     \* those of them that lost files to an rmtree
  partials,   \* unfinished copies on disk
  pins,       \* pin markers
  policy,     \* the device's retention rules, the server's defaults filled in
  job,        \* the backup thread, inside _snapshot
  results,    \* snapshot_verifications: how the last check of each generation came out
  order,      \* <<g, h>>: g was checked before h (checked_at)
  queue,      \* the task queue
  task,       \* the consumer thread
  ghost,      \* whether a dead check's activity row still looks alive
  download,   \* the export being streamed
  handed,     \* history: what the last completed export contained
  happened    \* the events so far

disk == <<clock, gens, harmed, partials, pins>>
checks == <<results, order>>
vars == <<disk, policy, job, checks, queue, task, ghost, download, handed, happened>>

KeepLastOne == [rule \in {"last"} \cup Periods |-> IF rule = "last" THEN 1 ELSE 0]
Nothing == 0

(* "open" stands for missing and not_checked; without a row it is "none".  *)
Outcomes == {"verified", "open"}
Tasks == [kind : {"tick"}, gen : {Nothing}] \cup [kind : {"verify"}, gen : Times]
Tick == [kind |-> "tick", gen |-> Nothing]
TaskFor(kind, g) == [kind |-> kind, gen |-> g]

NoJob == [pc |-> "none", gen |-> Nothing, policy |-> KeepLastOne, todo |-> {}, removed |-> {},
          pinned |-> {}]
NoTask == [pc |-> "none", gen |-> Nothing, whole |-> FALSE]
NoDownload == [gen |-> Nothing, whole |-> FALSE]

Uses(event) ==
  /\ event \notin happened /\ Cardinality(happened) < MaxEvents
  /\ happened' = happened \cup {event}
OrderWithout(S) == {pair \in order : pair[1] \notin S /\ pair[2] \notin S}
Newest(S) == CHOOSE t \in S : \A u \in S : u <= t
Oldest(S) == CHOOSE t \in S : \A u \in S : t <= u

-----------------------------------------------------------------------------
(* Retention: the walk of plan_retention, newest first.                    *)

BucketKey(t, period) == t \div PeriodLength[period]

(* The list, sorted with reverse: i - 1 of them are newer than the i-th.   *)
NewestFirst(S) ==
  [i \in 1 .. Cardinality(S) |-> CHOOSE t \in S : Cardinality({u \in S : u > t}) = i - 1]
Smaller(m, n) == IF m < n THEN m ELSE n

KeptByLast(S, n) == {NewestFirst(S)[i] : i \in 1 .. Smaller(n, Cardinality(S))}

(* Broken: the limit is tested after the generation was kept.              *)
KeptOneMore(S, period, count) ==
  FoldLeft(LAMBDA walk, t :
             IF Cardinality(walk.seen) > count \/ BucketKey(t, period) \in walk.seen
             THEN walk
             ELSE [seen |-> walk.seen \cup {BucketKey(t, period)}, kept |-> walk.kept \cup {t}],
           [seen |-> {}, kept |-> {}], NewestFirst(S)).kept

KeptByPeriod(S, period, count) ==
  FoldLeft(LAMBDA walk, t :
             IF Cardinality(walk.seen) >= count \/ BucketKey(t, period) \in walk.seen
             THEN walk
             ELSE [seen |-> walk.seen \cup {BucketKey(t, period)}, kept |-> walk.kept \cup {t}],
           [seen |-> {}, kept |-> {}], NewestFirst(S)).kept

(* Broken: pin markers are not looked at.                                  *)
KeptUnpinned(S, pinned, rules) ==
  {Newest(S)} \cup KeptByLast(S, rules["last"])
    \cup UNION {KeptByPeriod(S, period, rules[period]) : period \in Periods}

(* Broken: the list is sorted without reverse.                             *)
KeptFromOldest(S, pinned, rules) ==
  (S \cap pinned) \cup {Oldest(S)}
    \cup {t \in S : Cardinality({u \in S : u < t}) < rules["last"]}

(* The generations with at least one reason.                               *)
Kept(S, pinned, rules) ==
  (S \cap pinned) \cup {Newest(S)} \cup KeptByLast(S, rules["last"])
    \cup UNION {KeptByPeriod(S, period, rules[period]) : period \in Periods}

-----------------------------------------------------------------------------
(* The backup thread: JobManager._snapshot. The policy is read before the  *)
(* copy begins; a volume without hard links keeps one generation.          *)

SnapshotBegin ==
  /\ job = NoJob
  /\ \E t \in Times, hardlinks \in BOOLEAN :
       /\ t > clock /\ \A u \in Times : u > clock => t <= u
       /\ clock' = t
       /\ partials' = partials \cup {t}
       /\ job' = [NoJob EXCEPT !.pc = "copying", !.gen = t,
                               !.policy = IF hardlinks THEN policy ELSE KeepLastOne]
  /\ UNCHANGED <<gens, harmed, pins, policy, checks, queue, task, ghost, download, handed, happened>>

CopyFails ==
  /\ job.pc = "copying"
  /\ partials' = partials \ {job.gen}
  /\ job' = NoJob
  /\ UNCHANGED <<clock, gens, harmed, pins, policy, checks, queue, task, ghost, download, handed, happened>>

(* Broken: copied into place instead of renamed.                           *)
CopyKept ==
  /\ job.pc = "copying"
  /\ gens' = gens \cup {job.gen}
  /\ job' = NoJob
  /\ UNCHANGED <<clock, harmed, partials, pins, policy, checks, queue, task, ghost, download, handed, happened>>

(* The rename, then list_snapshots and the plan.                           *)
CopyDone ==
  /\ job.pc = "copying"
  /\ gens' = gens \cup {job.gen}
  /\ partials' = partials \ {job.gen}
  /\ LET todo == gens' \ Kept(gens', pins, job.policy)
     IN job' = IF todo = {} THEN NoJob
               ELSE [job EXCEPT !.pc = "pruning", !.gen = Nothing, !.todo = todo, !.pinned = pins]
  /\ UNCHANGED <<clock, harmed, pins, policy, checks, queue, task, ghost, download, handed, happened>>

(* rmtree removes the first of the files a check would look for.           *)
RemoveBegin ==
  /\ job.pc = "pruning"
  /\ LET g == Newest(job.todo)
     IN /\ harmed' = harmed \cup {g}
        /\ job' = [job EXCEPT !.pc = "removing", !.gen = g]
  /\ UNCHANGED <<clock, gens, partials, pins, policy, checks, queue, task, ghost, download, handed, happened>>

(* The directory is gone; then its marker.                                 *)
RemoveEnd ==
  /\ job.pc = "removing"
  /\ gens' = gens \ {job.gen}
  /\ harmed' = harmed \ {job.gen}
  /\ pins' = pins \ {job.gen}
  /\ LET rest == job.todo \ {job.gen}
     IN job' = [job EXCEPT !.pc = IF rest = {} THEN "cleaning" ELSE "pruning",
                           !.gen = Nothing, !.todo = rest, !.removed = @ \cup {job.gen}]
  /\ UNCHANGED <<clock, partials, policy, checks, queue, task, ghost, download, handed, happened>>

(* OSError: the run fails, and the list of what was removed is lost.       *)
RemoveRaises ==
  /\ job.pc = "removing"
  /\ Uses("raise")
  /\ job' = NoJob
  /\ UNCHANGED <<disk, policy, checks, queue, task, ghost, download, handed>>

DeleteResults ==
  /\ job.pc = "cleaning"
  /\ results' = [g \in Times |-> IF g \in job.removed THEN "none" ELSE results[g]]
  /\ order' = OrderWithout(job.removed)
  /\ job' = NoJob
  /\ UNCHANGED <<disk, policy, queue, task, ghost, download, handed, happened>>

-----------------------------------------------------------------------------
(* Deep verification. results is ordered by checked_at.                    *)

Checked(g) == results[g] # "none"

(* Broken: the oldest generation, checked or not.                          *)
PickOldest == Oldest(gens)

(* Never checked before checked longest ago.                               *)
PickSnapshot ==
  LET unchecked == {g \in gens : ~Checked(g)}
  IN IF unchecked # {} THEN Oldest(unchecked)
     ELSE CHOOSE g \in gens : \A h \in gens : <<h, g>> \notin order

(* The tick task reaches the queue once a minute, and is one of the tasks  *)
(* the consumer runs; ticks the lease refuses are left out.                *)
TickQueued ==
  /\ (\A i \in DOMAIN queue : queue[i] # Tick) /\ Len(queue) < MaxQueue
  /\ queue' = Append(queue, Tick)
  /\ UNCHANGED <<disk, policy, job, checks, task, ghost, download, handed, happened>>

TickTaken ==
  /\ task = NoTask /\ queue # <<>> /\ Head(queue) = Tick
  /\ queue' = Tail(queue)
  /\ task' = [NoTask EXCEPT !.pc = "tick"]
  /\ UNCHANGED <<disk, policy, job, checks, ghost, download, handed, happened>>

(* The last check is younger than DEEP_VERIFY_INTERVAL, or the volume is   *)
(* not usable.                                                             *)
VerifyNotDue ==
  /\ task.pc = "tick"
  /\ task' = NoTask
  /\ UNCHANGED <<disk, policy, job, checks, queue, ghost, download, handed, happened>>

VerifyDue ==
  /\ task.pc = "tick"
  /\ task' = NoTask
  /\ queue' = IF ghost \/ gens = {} THEN queue ELSE Append(queue, TaskFor("verify", PickSnapshot))
  /\ UNCHANGED <<disk, policy, job, checks, ghost, download, handed, happened>>

(* A generation that vanished meanwhile is skipped. Otherwise the activity *)
(* is registered and the walk begins.                                      *)
VerifyTaken ==
  /\ task = NoTask /\ queue # <<>> /\ Head(queue).kind = "verify"
  /\ LET g == Head(queue).gen
     IN task' = IF g \notin gens THEN NoTask
                ELSE [NoTask EXCEPT !.pc = "walking", !.gen = g, !.whole = g \notin harmed]
  /\ queue' = Tail(queue)
  /\ UNCHANGED <<disk, policy, job, checks, ghost, download, handed, happened>>

(* verify_snapshot: what the walk saw may have been removed while it ran.  *)
(* An encrypted backup and a walk that ran out of time stay open.          *)
Found(wholeBefore) == IF wholeBefore THEN Outcomes ELSE {"open"}

(* Broken: ON CONFLICT DO NOTHING - a result is never replaced.            *)
FirstResultStays ==
  /\ task.pc = "walking"
  /\ \E outcome \in Found(task.whole) :
       IF Checked(task.gen) THEN UNCHANGED checks
       ELSE /\ results' = [results EXCEPT ![task.gen] = outcome]
            /\ order' = order \cup ({g \in Times : Checked(g)} \X {task.gen})
  /\ task' = NoTask
  /\ UNCHANGED <<disk, policy, job, queue, ghost, download, handed, happened>>

WalkEnds ==
  /\ task.pc = "walking"
  /\ \E outcome \in Found(task.whole) : results' = [results EXCEPT ![task.gen] = outcome]
  /\ order' = OrderWithout({task.gen}) \cup ({g \in Times \ {task.gen} : Checked(g)} \X {task.gen})
  /\ task' = NoTask
  /\ UNCHANGED <<disk, policy, job, queue, ghost, download, handed, happened>>

(* Anything but a DatabaseError: the task ends, nothing is saved.          *)
WalkRaises ==
  /\ task.pc = "walking"
  /\ Uses("raise")
  /\ task' = NoTask
  /\ UNCHANGED <<disk, policy, job, checks, queue, ghost, download, handed>>

GhostGoesStale ==
  /\ ghost /\ ghost' = FALSE
  /\ UNCHANGED <<disk, policy, job, checks, queue, task, download, handed, happened>>

-----------------------------------------------------------------------------
(* The worker dies and comes back: both threads end where they are, the    *)
(* queue, the disk and the rows stay.                                      *)
Kill ==
  /\ Uses("kill")
  /\ job' = NoJob
  /\ task' = NoTask
  /\ ghost' = (ghost \/ task.pc = "walking")
  /\ UNCHANGED <<disk, policy, checks, queue, download, handed>>

(* The web process. Every name is looked up in the list first.             *)
SetPolicy ==
  /\ Uses("settings")
  /\ policy' \in Policies
  /\ UNCHANGED <<disk, job, checks, queue, task, ghost, download, handed>>

Pin(g) ==
  /\ g \in gens
  /\ Uses("pin")
  /\ pins' = IF g \in pins THEN pins \ {g} ELSE pins \cup {g}
  /\ UNCHANGED <<clock, gens, harmed, partials, policy, job, checks, queue, task, ghost, download, handed>>

ClickVerify(g) ==
  /\ g \in gens /\ Len(queue) < MaxQueue
  /\ Uses("verify")
  /\ queue' = Append(queue, TaskFor("verify", g))
  /\ UNCHANGED <<disk, policy, job, checks, task, ghost, download, handed>>

(* tar_stream lists the files first, then opens one after the other: a     *)
(* file that is gone by then breaks the download off.                      *)
DownloadBegin(g) ==
  /\ g \in gens /\ download = NoDownload
  /\ Uses("download")
  /\ download' = [gen |-> g, whole |-> g \notin harmed]
  /\ UNCHANGED <<disk, policy, job, checks, queue, task, ghost, handed>>

(* Broken: files that are gone by then are passed over.                    *)
DownloadLenient ==
  /\ download # NoDownload
  /\ handed' = IF download.gen \in gens \ harmed THEN "whole" ELSE "partial"
  /\ download' = NoDownload
  /\ UNCHANGED <<disk, policy, job, checks, queue, task, ghost, happened>>

DownloadEnds ==
  /\ download # NoDownload
  /\ \/ UNCHANGED handed
     \/ /\ download.gen \in gens
        /\ download.whole => download.gen \notin harmed
        /\ ~download.whole => job.gen # download.gen
        /\ handed' = IF download.whole THEN "whole" ELSE "partial"
  /\ download' = NoDownload
  /\ UNCHANGED <<disk, policy, job, checks, queue, task, ghost, happened>>

-----------------------------------------------------------------------------
Init ==
  /\ clock = 0
  /\ gens = {} /\ harmed = {} /\ partials = {} /\ pins = {}
  /\ policy \in Policies
  /\ job = NoJob
  /\ results = [g \in Times |-> "none"] /\ order = {} /\ queue = <<>> /\ task = NoTask /\ ghost = FALSE
  /\ download = NoDownload /\ handed = "none"
  /\ happened = {}

JobStep == CopyDone \/ RemoveBegin \/ RemoveEnd \/ DeleteResults
ConsumerStep == TickTaken \/ VerifyDue \/ VerifyTaken \/ WalkEnds

Next ==
  \/ SnapshotBegin \/ CopyFails \/ CopyDone \/ RemoveBegin \/ RemoveEnd \/ RemoveRaises
  \/ DeleteResults
  \/ TickQueued \/ TickTaken \/ VerifyNotDue \/ VerifyDue \/ VerifyTaken \/ WalkEnds \/ WalkRaises
  \/ GhostGoesStale \/ Kill \/ SetPolicy \/ DownloadEnds
  \/ \E g \in Times : Pin(g) \/ ClickVerify(g) \/ DownloadBegin(g)

(* A backup thread that began to prune goes on, the consumer takes the     *)
(* next task, the periodic task is queued every minute, an activity goes   *)
(* stale after a minute and a tick comes after DEEP_VERIFY_INTERVAL.       *)
Fairness ==
  /\ WF_vars(JobStep) /\ WF_vars(ConsumerStep)
  /\ WF_vars(TickQueued) /\ WF_vars(GhostGoesStale) /\ SF_vars(VerifyDue)

Spec == Init /\ [][Next]_vars /\ Fairness

-----------------------------------------------------------------------------
(* Every variable keeps its shape, and what is pinned, harmed, planned or  *)
(* being removed is a generation that exists; one check follows another.   *)
TypeOK ==
  /\ clock \in Times \cup {0} /\ gens \subseteq {t \in Times : t <= clock} /\ harmed \subseteq gens
  /\ partials \subseteq Times \ gens
  /\ policy \in Policies
  /\ job.todo \subseteq gens /\ (job.pc = "removing" => job.gen \in job.todo)
  /\ (job.pc = "copying" => job.gen \in partials)
  /\ results \in [Times -> Outcomes \cup {"none"}]
  /\ \A pair \in order : Checked(pair[1]) /\ Checked(pair[2]) /\ <<pair[2], pair[1]>> \notin order
  /\ (\A i \in DOMAIN queue : queue[i] \in Tasks) /\ Len(queue) <= MaxQueue + 1
  /\ handed \in {"none", "whole", "partial"}

(* The walk of plan_retention keeps what restic's forget promises: the     *)
(* last n, the last generation of each of the n most recent periods that   *)
(* have one, what is pinned - and the newest, whatever the policy says.    *)
RefKept(S, pinned, rules) ==
  {t \in S :
     \/ t \in pinned
     \/ \A u \in S : u <= t
     \/ Cardinality({u \in S : u > t}) < rules["last"]
     \/ \E period \in Periods :
          /\ \A u \in S : u > t => BucketKey(u, period) # BucketKey(t, period)
          /\ Cardinality({BucketKey(u, period) : u \in {v \in S : v > t}}) < rules[period]}
PlanMatchesRestic ==
  clock = 0 => \A S \in (SUBSET Sample) \ {{}}, rules \in CheckedPolicies :
                 \A pinned \in {{}} \cup {{t} : t \in S} : Kept(S, pinned, rules) = RefKept(S, pinned, rules)

(* take links the next generation against the newest one, and the newest   *)
(* is what a restore reaches for: it is whole at every moment, whatever is *)
(* being pruned and wherever the worker was killed.                        *)
NewestWhole == gens # {} => Newest(gens) \notin harmed

(* A generation somebody pinned before the backup thread read the list is  *)
(* not touched, under whatever policy (one pinned after that may be lost). *)
PinnedBeforePlanStays ==
  [][\A g \in gens : g \in harmed' \ harmed => g \notin job.pinned]_vars

(* A download that ran to its end lacks files only after the removal of a  *)
(* generation was cut off by a kill or an error.                           *)
PartialOnlyAfterCut ==
  handed = "partial" => happened \cap {"kill", "raise"} # {}

(* Every generation is checked some day or removed: neither a check that   *)
(* raised or was killed, nor rows left by removed generations, nor later   *)
(* generations keep it from its turn for ever.                             *)
EveryGenerationChecked ==
  \A g \in Times : g \in gens ~> (g \notin gens \/ Checked(g))

(* A generation that lost files to a removal that was cut off does not     *)
(* show "verified" for ever.                                               *)
HarmNoticed ==
  \A g \in Times : (g \in harmed /\ Checked(g) /\ results[g] = "verified")
                     ~> (g \notin gens \/ (Checked(g) /\ results[g] # "verified"))

(* What is on disk can be relied upon, whatever is being taken or pruned.  *)
GenerationsInv == TypeOK /\ NewestWhole /\ PartialOnlyAfterCut

(* Checking goes on for ever, and finds out (verify.due, _verify_due).     *)
ChecksGoOn == EveryGenerationChecked /\ HarmNoticed
=============================================================================
