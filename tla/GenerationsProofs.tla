------------------------- MODULE GenerationsProofs -------------------------
(***************************************************************************)
(* GenerationsInv and PinnedBeforePlanStays hold for any number of         *)
(* generations, whatever the policies and the bounds. One inductive        *)
(* invariant stands behind both: what is planned for removal is neither    *)
(* pinned nor the newest, what lost files is the generation being removed  *)
(* or was left by a cut, and the order of the checks can be numbered.      *)
(* PlanMatchesRestic holds besides, for every finite set of generations.   *)
(***************************************************************************)
EXTENDS Generations, WellFoundedInduction, FiniteSetTheorems, TLAPS

Jobs ==
  [pc : {"none", "copying", "pruning", "removing", "cleaning"}, gen : Times \cup {Nothing},
   policy : Policies \cup {KeepLastOne}, todo : SUBSET Times, removed : SUBSET Times,
   pinned : SUBSET Times]
TaskStates == [pc : {"none", "tick", "walking"}, gen : Times \cup {Nothing}, whole : BOOLEAN]
Downloads == [gen : Times \cup {Nothing}, whole : BOOLEAN]

IsNewest(g) == g \in gens /\ \A u \in gens : u <= g
Cut == happened \cap {"kill", "raise"} # {}

DiskInv ==
  /\ clock \in Times \cup {0} /\ gens \subseteq {t \in Times : t <= clock} /\ harmed \subseteq gens
  /\ partials \subseteq {t \in Times \ gens : t <= clock}
  /\ pins \subseteq Times /\ policy \in Policies

(* A backup thread copies the generation begun last, and its plan holds    *)
(* neither what was pinned when it was made nor the newest.                *)
JobInv ==
  /\ job \in Jobs /\ job.todo \subseteq gens /\ job.todo \cap job.pinned = {}
  /\ job.pc = "copying" => job.gen = clock /\ clock \in partials
  /\ job.pc = "pruning" => job.todo # {}
  /\ job.pc = "removing" => job.gen \in job.todo
NewestSafe == \A g \in Times : IsNewest(g) => g \notin job.todo \cup harmed
HarmExplained == \A g \in harmed : (job.pc = "removing" /\ job.gen = g) \/ Cut

(* A download that found files missing is of a generation that still lacks *)
(* them, and never of the one being copied.                                *)
DownloadInv ==
  /\ download \in Downloads /\ download.gen <= clock
  /\ job.pc = "copying" => job.gen # download.gen
  /\ ~download.whole /\ download.gen \in gens => download.gen \in harmed
  /\ handed \in {"none", "whole", "partial"} /\ PartialOnlyAfterCut

(* A tick that runs has left room for the check it may queue.              *)
QueueInv ==
  /\ queue \in Seq(Tasks) /\ Len(queue) <= MaxQueue + 1
  /\ task \in TaskStates
  /\ task.pc = "tick" => Len(queue) <= MaxQueue
  /\ task.pc = "walking" => task.gen \in Times

(* rank numbers the checks in their order; the next one gets number n.     *)
ChecksInv ==
  /\ results \in [Times -> Outcomes \cup {"none"}]
  /\ \A pair \in order : pair \in Times \X Times /\ Checked(pair[1]) /\ Checked(pair[2])
Numbers(rank, n) ==
  /\ \A g \in Times : rank[g] < n
  /\ \A pair \in order : rank[pair[1]] < rank[pair[2]]
Ordered == \E rank \in [Times -> Nat], n \in Nat : Numbers(rank, n)

PruneInv == DiskInv /\ JobInv /\ NewestSafe /\ HarmExplained
IInv == PruneInv /\ DownloadInv /\ QueueInv /\ ChecksInv /\ Ordered

-----------------------------------------------------------------------------
(* The oldest and the newest of a set of generations.                      *)

LEMMA LessIsWellFounded == IsWellFoundedOn({ss \in Nat \X Nat : ss[1] < ss[2]}, Nat)
BY NatLessThanWellFounded DEF OpToRel

(* A set of numbers that is not empty has a least one.                     *)
LEMMA LeastExists ==
  ASSUME NEW S, S \subseteq Nat, S # {}
  PROVE  \E t \in S : \A u \in S : t <= u
<1> DEFINE Less == {ss \in Nat \X Nat : ss[1] < ss[2]}
<1>1. IsWellFoundedOn(Less, Nat)
  BY LessIsWellFounded
<1>2. PICK t \in S : \A u \in S : ~(<<u, t>> \in Less)
  <2> HIDE DEF Less
  <2> QED BY <1>1, WFMin
<1>3. ASSUME NEW u \in S PROVE t <= u
  <2>1. u \in Nat /\ t \in Nat
    OBVIOUS
  <2>2. ~(u < t)
    BY <1>2, <2>1
  <2> QED BY <2>1, <2>2
<1> QED BY <1>3

(* Oldest: min over the names, as pick_snapshot and plan_retention sort.   *)
LEMMA OldestIs ==
  ASSUME NEW S, S \subseteq Nat, S # {}
  PROVE  Oldest(S) \in S
BY LeastExists DEF Oldest

(* A bounded set of numbers has a greatest one: the mirror image.          *)
LEMMA NewestIs ==
  ASSUME NEW S, S \subseteq Nat, S # {}, NEW c \in Nat, \A t \in S : t <= c
  PROVE  Newest(S) \in S /\ \A u \in S : u <= Newest(S)
<1> DEFINE mirrored == {c - t : t \in S}
<1>1. \A t \in S : t \in Nat /\ c - t \in Nat
  OBVIOUS
<1>2. mirrored \subseteq Nat /\ mirrored # {}
  BY <1>1
<1>3. PICK m \in mirrored : \A k \in mirrored : m <= k
  <2> HIDE DEF mirrored
  <2> QED BY <1>2, LeastExists
<1>4. PICK t \in S : m = c - t
  OBVIOUS
<1>5. ASSUME NEW u \in S PROVE u <= t
  <2>1. m <= c - u
    BY <1>3
  <2> QED BY <1>1, <1>4, <2>1
<1> HIDE DEF mirrored
<1> QED BY <1>4, <1>5 DEF Newest

(* pick_snapshot returns a generation of the list: one that was never      *)
(* checked, or the one whose check has the least number.                   *)
LEMMA PickedExists ==
  ASSUME DiskInv, ChecksInv, Ordered, gens # {}
  PROVE  PickSnapshot \in gens
<1>1. gens \subseteq Times /\ Times \subseteq Nat
  BY GenerationsAssumption DEF DiskInv
<1> DEFINE unchecked == {g \in gens : ~Checked(g)}
<1>2. CASE unchecked # {}
  <2>1. Oldest(unchecked) \in unchecked
    <3>1. unchecked \subseteq Nat
      BY <1>1
    <3> HIDE DEF unchecked
    <3> QED BY <1>2, <3>1, OldestIs
  <2> QED BY <1>2, <2>1 DEF PickSnapshot
<1>3. CASE unchecked = {}
  <2>1. PICK rank \in [Times -> Nat] : \A pair \in order : rank[pair[1]] < rank[pair[2]]
    BY DEF Ordered, Numbers
  <2> DEFINE ranks == {rank[g] : g \in gens}
  <2>2. \A g \in gens : rank[g] \in Nat
    BY <1>1
  <2>3. ranks \subseteq Nat /\ ranks # {}
    BY <2>2
  <2>4. PICK r \in ranks : \A k \in ranks : r <= k
    <3> HIDE DEF ranks
    <3> QED BY <2>3, LeastExists
  <2>5. PICK g \in gens : r = rank[g]
    OBVIOUS
  <2>6. ASSUME NEW h \in gens PROVE <<h, g>> \notin order
    <3>1. rank[g] <= rank[h] /\ rank[g] \in Nat /\ rank[h] \in Nat
      BY <2>2, <2>4, <2>5
    <3>2. ~(rank[h] < rank[g])
      BY <3>1
    <3>3. <<h, g>> \in order => rank[h] < rank[g]
      BY <2>1
    <3> QED BY <3>2, <3>3
  <2>7. PickSnapshot = CHOOSE x \in gens : \A h \in gens : <<h, x>> \notin order
    BY <1>3 DEF PickSnapshot
  <2> QED BY <2>6, <2>7
<1> HIDE DEF unchecked
<1> QED BY <1>2, <1>3

-----------------------------------------------------------------------------
(* Taking and pruning.                                                     *)

LEMMA TimesAreNumbers == Times \subseteq Nat /\ Nothing \notin Times
BY GenerationsAssumption DEF Nothing

LEMMA NoJobIsOne == NoJob \in Jobs /\ NoJob.todo = {} /\ NoJob.pc = "none"
BY DEF NoJob, Jobs

(* The thread ended: nothing is planned, and what it left half removed is  *)
(* explained by the cut, if there was anything.                            *)
LEMMA ThreadEnds ==
  ASSUME PruneInv, job' = NoJob, job.pc = "removing" => Cut', Cut => Cut',
         UNCHANGED <<clock, gens, harmed, pins, policy>>, partials' \subseteq partials
  PROVE  PruneInv'
<1>1. DiskInv'
  BY DEF PruneInv, DiskInv
<1>2. JobInv'
  BY NoJobIsOne DEF JobInv
<1>3. NewestSafe'
  BY NoJobIsOne DEF PruneInv, NewestSafe, IsNewest
<1>4. HarmExplained'
  BY NoJobIsOne DEF PruneInv, HarmExplained
<1> QED BY <1>1, <1>2, <1>3, <1>4 DEF PruneInv

(* take: a name later than every other.                                    *)
LEMMA BeginKeeps ==
  ASSUME PruneInv, SnapshotBegin
  PROVE  PruneInv'
<1>1. PICK t \in Times, hardlinks \in BOOLEAN :
        /\ t > clock /\ clock' = t /\ partials' = partials \cup {t}
        /\ job' = [NoJob EXCEPT !.pc = "copying", !.gen = t,
                                !.policy = IF hardlinks THEN policy ELSE KeepLastOne]
  BY DEF SnapshotBegin
<1>2. UNCHANGED <<gens, harmed, pins, policy, happened>> /\ job.pc # "removing"
  BY DEF SnapshotBegin, NoJob
<1>3. t \in Nat /\ clock \in Nat /\ gens \subseteq Nat /\ partials \subseteq Nat
  BY TimesAreNumbers DEF PruneInv, DiskInv
<1>4. DiskInv'
  <2>1. \A u \in gens \cup partials : u \in Nat /\ u <= clock
    BY <1>3 DEF PruneInv, DiskInv
  <2>2. \A u \in gens \cup partials : u <= t /\ u # t
    BY <1>1, <1>3, <2>1
  <2> QED BY <1>1, <1>2, <1>3, <2>2 DEF PruneInv, DiskInv
<1>5. job' \in Jobs /\ job'.pc = "copying" /\ job'.gen = t /\ job'.todo = {}
  BY <1>1 DEF Jobs, NoJob, PruneInv, DiskInv
<1>6. JobInv'
  BY <1>1, <1>5 DEF JobInv
<1>7. NewestSafe'
  BY <1>2, <1>5 DEF PruneInv, NewestSafe, IsNewest
<1>8. HarmExplained'
  BY <1>2 DEF PruneInv, HarmExplained, Cut
<1> QED BY <1>4, <1>6, <1>7, <1>8 DEF PruneInv

(* The plan is made of the list with the new generation, which is the      *)
(* newest; what the walk keeps beside it does not matter here.             *)
LEMMA DoneKeeps ==
  ASSUME PruneInv, CopyDone
  PROVE  PruneInv'
<1>1. /\ job.pc = "copying" /\ job.gen = clock /\ clock \in partials /\ clock \in Times
      /\ gens' = gens \cup {clock} /\ partials' = partials \ {clock}
      /\ UNCHANGED <<clock, harmed, pins, policy, happened>>
  BY DEF CopyDone, PruneInv, JobInv, DiskInv
<1>2. clock \notin gens /\ clock \in Nat /\ gens \subseteq Nat /\ \A u \in gens : u <= clock
  BY <1>1, TimesAreNumbers DEF PruneInv, DiskInv
<1>3. DiskInv'
  BY <1>1, <1>2 DEF PruneInv, DiskInv
<1>4. \A g \in Times : IsNewest(g)' => g = clock
  <2> SUFFICES ASSUME NEW g \in Times, IsNewest(g)' PROVE g = clock
    OBVIOUS
  <2>1. g \in gens' /\ clock <= g
    BY <1>1 DEF IsNewest
  <2> QED BY <1>1, <1>2, <2>1
<1>5. \A u \in gens' : u <= clock
  BY <1>1, <1>2
<1> DEFINE todo == gens' \ Kept(gens', pins, job.policy)
<1>6. PICK T : T = todo
  OBVIOUS
<1>7. job' = IF T = {} THEN NoJob
             ELSE [job EXCEPT !.pc = "pruning", !.gen = Nothing, !.todo = T, !.pinned = pins]
  BY <1>6 DEF CopyDone
<1>8. T \subseteq gens' /\ T \cap pins = {} /\ clock \notin T
  <2>1. gens' # {} /\ gens' \subseteq Nat
    BY <1>1, <1>2
  <2>2. Newest(gens') \in gens' /\ \A u \in gens' : u <= Newest(gens')
    BY <1>2, <1>5, <2>1, NewestIs
  <2>3. PICK m : m = Newest(gens')
    OBVIOUS
  <2>4. m \in Nat /\ m <= clock /\ clock <= m
    BY <1>1, <1>5, <2>1, <2>2, <2>3
  <2>5. Newest(gens') \in Kept(gens', pins, job.policy) /\ gens' \cap pins \subseteq Kept(gens', pins, job.policy)
    BY DEF Kept
  <2>6. m = clock
    BY <1>2, <2>4
  <2> QED BY <1>6, <2>3, <2>5, <2>6
<1> HIDE DEF todo
<1>9. job' \in Jobs /\ job'.todo \subseteq T /\ job'.pinned \subseteq pins
  <2>1. job \in Jobs /\ T \subseteq Times /\ pins \subseteq Times
    BY <1>1, <1>8, TimesAreNumbers DEF PruneInv, JobInv, DiskInv
  <2> QED BY <1>7, <2>1 DEF Jobs, NoJob
<1>10. job'.pc \in {"none", "pruning"} /\ (job'.pc = "pruning" => job'.todo # {})
  <2>1. job \in Jobs
    BY DEF PruneInv, JobInv
  <2> QED BY <1>7, <2>1 DEF Jobs, NoJob
<1>11. JobInv'
  BY <1>8, <1>9, <1>10 DEF JobInv
<1>12. NewestSafe'
  <2>1. clock \notin harmed
    BY <1>2 DEF PruneInv, DiskInv
  <2> QED BY <1>1, <1>4, <1>8, <1>9, <2>1 DEF NewestSafe
<1>13. HarmExplained'
  BY <1>1 DEF PruneInv, HarmExplained, Cut
<1> QED BY <1>3, <1>11, <1>12, <1>13 DEF PruneInv

(* apply_retention takes the newest of the plan first.                     *)
LEMMA NextToRemove ==
  ASSUME PruneInv, job.pc = "pruning"
  PROVE  Newest(job.todo) \in job.todo
<1>1. job.todo # {} /\ job.todo \subseteq gens /\ gens \subseteq {t \in Times : t <= clock} /\ clock \in Times \cup {0}
  BY DEF PruneInv, JobInv, DiskInv
<1>2. job.todo \subseteq Nat /\ clock \in Nat /\ \A t \in job.todo : t <= clock
  BY <1>1, TimesAreNumbers
<1> QED BY <1>1, <1>2, NewestIs

LEMMA RemoveBeginKeeps ==
  ASSUME PruneInv, RemoveBegin
  PROVE  PruneInv' /\ job'.gen \in job.todo /\ harmed' = harmed \cup {job'.gen} /\ job'.pc = "removing"
<1>1. PICK g : g = Newest(job.todo)
  OBVIOUS
<1>2. /\ job.pc = "pruning" /\ harmed' = harmed \cup {g}
      /\ job' = [job EXCEPT !.pc = "removing", !.gen = g]
      /\ UNCHANGED <<clock, gens, partials, pins, policy, happened>>
  BY <1>1 DEF RemoveBegin
<1>3. g \in job.todo
  BY <1>1, <1>2, NextToRemove
<1>4. job \in Jobs /\ job.todo \subseteq gens /\ gens \subseteq Times
  BY DEF PruneInv, JobInv, DiskInv
<1>5. job' \in Jobs
  BY <1>2, <1>3, <1>4 DEF Jobs
<1>6. job'.pc = "removing" /\ job'.gen = g /\ job'.todo = job.todo /\ job'.pinned = job.pinned
  BY <1>2, <1>4 DEF Jobs
<1>7. DiskInv'
  BY <1>2, <1>3, <1>4 DEF PruneInv, DiskInv
<1>8. JobInv'
  BY <1>2, <1>3, <1>5, <1>6 DEF PruneInv, JobInv
<1>9. NewestSafe'
  BY <1>2, <1>3, <1>6 DEF PruneInv, NewestSafe, IsNewest
<1>10. HarmExplained'
  BY <1>2, <1>6 DEF PruneInv, HarmExplained, Cut
<1> QED BY <1>2, <1>3, <1>6, <1>7, <1>8, <1>9, <1>10 DEF PruneInv

(* What goes was planned, so it is not the newest, and the newest of what  *)
(* is left is the one it was.                                              *)
LEMMA RemoveEndKeeps ==
  ASSUME PruneInv, RemoveEnd
  PROVE  PruneInv'
<1>1. PICK g : g = job.gen
  OBVIOUS
<1>2. PICK rest : rest = job.todo \ {g}
  OBVIOUS
<1>3. /\ job.pc = "removing"
      /\ gens' = gens \ {g} /\ harmed' = harmed \ {g} /\ pins' = pins \ {g}
      /\ UNCHANGED <<clock, partials, policy, happened>>
      /\ job' = [job EXCEPT !.pc = IF rest = {} THEN "cleaning" ELSE "pruning",
                            !.gen = Nothing, !.todo = rest, !.removed = @ \cup {g}]
  BY <1>1, <1>2 DEF RemoveEnd
<1>4. job \in Jobs /\ g \in job.todo /\ job.todo \subseteq gens /\ gens \subseteq Times
  BY <1>1, <1>3 DEF PruneInv, JobInv, DiskInv
<1>5. job' \in Jobs /\ job'.todo = rest /\ job'.pinned = job.pinned
      /\ job'.pc = IF rest = {} THEN "cleaning" ELSE "pruning"
  BY <1>2, <1>3, <1>4 DEF Jobs
<1>6. DiskInv'
  BY <1>3 DEF PruneInv, DiskInv
<1>7. JobInv'
  BY <1>2, <1>3, <1>4, <1>5 DEF PruneInv, JobInv
<1>8. \A h \in Times : IsNewest(h)' => IsNewest(h)
  <2> SUFFICES ASSUME NEW h \in Times, IsNewest(h)', ~IsNewest(h) PROVE FALSE
    OBVIOUS
  <2>1. h \in gens /\ h \in Nat /\ gens \subseteq Nat /\ \A u \in gens \ {g} : u <= h
    BY <1>3, <1>4, TimesAreNumbers DEF IsNewest
  <2>2. ~(g <= h)
    BY <2>1 DEF IsNewest
  <2>3. ASSUME NEW u \in gens PROVE u <= g
    <3>1. u \in Nat /\ g \in Nat /\ (u # g => u <= h)
      BY <1>4, <2>1
    <3> QED BY <2>1, <2>2, <3>1
  <2> QED BY <1>4, <2>3 DEF PruneInv, NewestSafe, IsNewest
<1>9. NewestSafe'
  BY <1>2, <1>3, <1>5, <1>8 DEF PruneInv, NewestSafe
<1>10. HarmExplained'
  BY <1>1, <1>3 DEF PruneInv, HarmExplained, Cut
<1> QED BY <1>6, <1>7, <1>9, <1>10 DEF PruneInv

LEMMA PruneInvStep ==
  ASSUME PruneInv, [Next]_vars
  PROVE  PruneInv'
<1>1. SnapshotBegin => PruneInv'
  BY BeginKeeps
<1>2. CopyFails => PruneInv'
  BY ThreadEnds DEF CopyFails, Cut
<1>3. CopyDone => PruneInv'
  BY DoneKeeps
<1>4. RemoveBegin => PruneInv'
  BY RemoveBeginKeeps
<1>5. RemoveEnd => PruneInv'
  BY RemoveEndKeeps
<1>6. RemoveRaises => PruneInv'
  BY ThreadEnds DEF RemoveRaises, Uses, Cut, disk
<1>7. DeleteResults => PruneInv'
  BY ThreadEnds DEF DeleteResults, Cut, disk
<1>8. Kill => PruneInv'
  BY ThreadEnds DEF Kill, Uses, Cut, disk
<1>9. ASSUME disk' = disk, job' = job, Cut => Cut', policy' \in Policies PROVE PruneInv'
  <2>1. UNCHANGED <<clock, gens, harmed, partials, pins>>
    BY <1>9 DEF disk
  <2> QED BY <1>9, <2>1 DEF PruneInv, DiskInv, JobInv, NewestSafe, HarmExplained, IsNewest
<1>10. ASSUME NEW g \in Times, Pin(g) PROVE PruneInv'
  BY <1>10 DEF Pin, Uses, Cut, PruneInv, DiskInv, JobInv, NewestSafe, HarmExplained, IsNewest
<1>11. policy \in Policies
  BY DEF PruneInv, DiskInv
<1>12. TickQueued \/ TickTaken \/ VerifyNotDue \/ VerifyDue \/ VerifyTaken \/ WalkEnds \/ GhostGoesStale
         \/ DownloadEnds \/ UNCHANGED vars => PruneInv'
  BY <1>9, <1>11 DEF TickQueued, TickTaken, VerifyNotDue, VerifyDue, VerifyTaken, WalkEnds,
     GhostGoesStale, DownloadEnds, vars, Cut
<1>13. WalkRaises \/ SetPolicy \/ (\E g \in Times : ClickVerify(g) \/ DownloadBegin(g)) => PruneInv'
  BY <1>9, <1>11 DEF WalkRaises, SetPolicy, ClickVerify, DownloadBegin, Uses, Cut
<1> QED BY <1>1, <1>2, <1>3, <1>4, <1>5, <1>6, <1>7, <1>8, <1>10, <1>12, <1>13 DEF Next

-----------------------------------------------------------------------------
(* Downloads.                                                              *)

(* Nothing a download depends on got worse.                                *)
LEMMA DownloadStays ==
  ASSUME DownloadInv, UNCHANGED <<download, handed>>, Cut => Cut', clock' = clock,
         job' = job \/ job'.pc # "copying",
         download.gen \in gens' => download.gen \in gens,
         download.gen \in gens' /\ download.gen \in harmed => download.gen \in harmed'
  PROVE  DownloadInv'
BY DEF DownloadInv, PartialOnlyAfterCut, Cut

LEMMA DownloadInvStep ==
  ASSUME PruneInv, DownloadInv, [Next]_vars
  PROVE  DownloadInv'
<1>1. ASSUME SnapshotBegin PROVE DownloadInv'
  <2>1. PICK t \in Times, hardlinks \in BOOLEAN :
          /\ t > clock /\ clock' = t
          /\ job' = [NoJob EXCEPT !.pc = "copying", !.gen = t,
                                  !.policy = IF hardlinks THEN policy ELSE KeepLastOne]
    BY <1>1 DEF SnapshotBegin
  <2>2. UNCHANGED <<gens, harmed, download, handed, happened>>
    BY <1>1 DEF SnapshotBegin
  <2>3. job'.gen = t
    BY <2>1 DEF NoJob
  <2>4. download.gen \in Times \cup {0} /\ clock \in Times \cup {0}
    BY DEF DownloadInv, Downloads, PruneInv, DiskInv, Nothing
  <2>5. download.gen <= t /\ download.gen # t
    <3>1. download.gen \in Nat /\ clock \in Nat /\ t \in Nat
      <4>1. Times \cup {0} \subseteq Nat
        BY TimesAreNumbers
      <4> QED BY <2>4, <4>1, Zenon
    <3>2. t > clock
      BY <2>1, Zenon
    <3>3. download.gen <= clock
      BY DEF DownloadInv
    <3> QED BY <3>1, <3>2, <3>3
  <2> QED BY <2>1, <2>2, <2>3, <2>5 DEF DownloadInv, PartialOnlyAfterCut
<1>2. NoJob.pc # "copying"
  BY DEF NoJob
<1>3. CopyFails \/ RemoveRaises \/ DeleteResults \/ Kill => DownloadInv'
  BY <1>2, DownloadStays DEF CopyFails, RemoveRaises, DeleteResults, Kill, Uses, Cut, disk
<1>4. ASSUME CopyDone PROVE DownloadInv'
  <2>1. /\ job.pc = "copying" /\ gens' = gens \cup {job.gen}
        /\ UNCHANGED <<clock, harmed, download, handed, happened>>
    BY <1>4 DEF CopyDone
  <2>2. job.gen # download.gen
    BY <2>1 DEF DownloadInv
  <2>3. job'.pc # "copying"
    <3>1. PICK T : job' = IF T = {} THEN NoJob
                          ELSE [job EXCEPT !.pc = "pruning", !.gen = Nothing, !.todo = T, !.pinned = pins]
      BY <1>4 DEF CopyDone
    <3>2. job \in Jobs
      BY DEF PruneInv, JobInv
    <3> QED BY <1>2, <3>1, <3>2 DEF Jobs
  <2> QED BY <2>1, <2>2, <2>3, DownloadStays DEF Cut
<1>5. ASSUME RemoveBegin PROVE DownloadInv'
  <2>1. harmed' = harmed \cup {job'.gen} /\ job'.pc = "removing"
    BY <1>5, RemoveBeginKeeps
  <2>2. UNCHANGED <<clock, gens, download, handed, happened>>
    BY <1>5 DEF RemoveBegin
  <2> QED BY <2>1, <2>2, DownloadStays DEF Cut
<1>6. ASSUME RemoveEnd PROVE DownloadInv'
  <2>1. /\ gens' = gens \ {job.gen} /\ harmed' = harmed \ {job.gen}
        /\ UNCHANGED <<clock, download, handed, happened>>
    BY <1>6 DEF RemoveEnd
  <2>2. job'.pc # "copying"
    <3>1. job \in Jobs
      BY DEF PruneInv, JobInv
    <3>2. PICK rest, gone :
            job' = [job EXCEPT !.pc = IF rest = {} THEN "cleaning" ELSE "pruning",
                               !.gen = Nothing, !.todo = rest, !.removed = gone]
      BY <1>6 DEF RemoveEnd
    <3> QED BY <3>1, <3>2 DEF Jobs
  <2> QED BY <2>1, <2>2, DownloadStays DEF Cut
<1>7. ASSUME NEW g \in Times, DownloadBegin(g) PROVE DownloadInv'
  <2>1. /\ g \in gens /\ download' = [gen |-> g, whole |-> g \notin harmed]
        /\ UNCHANGED <<clock, gens, harmed, partials, job, handed>> /\ (Cut => Cut')
    BY <1>7 DEF DownloadBegin, disk, Uses, Cut
  <2>2. download' \in Downloads /\ download'.gen = g /\ (~download'.whole => g \in harmed)
    BY <2>1 DEF Downloads
  <2>3. g <= clock /\ (job.pc = "copying" => job.gen \notin gens)
    BY <2>1 DEF PruneInv, DiskInv, JobInv
  <2> QED BY <2>1, <2>2, <2>3 DEF DownloadInv, PartialOnlyAfterCut, Cut
<1>8. ASSUME DownloadEnds PROVE DownloadInv'
  <2>1. download' = NoDownload /\ UNCHANGED <<clock, gens, harmed, job, happened>>
    BY <1>8 DEF DownloadEnds, disk
  <2>2. download' \in Downloads /\ download'.gen = Nothing
    BY <2>1 DEF NoDownload, Downloads
  <2>3. Nothing <= clock /\ Nothing \notin gens /\ (job.pc = "copying" => job.gen # Nothing)
    BY TimesAreNumbers DEF PruneInv, DiskInv, JobInv, Nothing
  <2>4. handed' = "partial" => Cut
    <3>1. CASE handed' = handed
      BY <3>1 DEF DownloadInv, PartialOnlyAfterCut, Cut
    <3>2. CASE /\ download.gen \in gens
               /\ ~download.whole => job.gen # download.gen
               /\ handed' = IF download.whole THEN "whole" ELSE "partial"
      BY <3>2 DEF PruneInv, HarmExplained, DownloadInv
    <3> QED BY <1>8, <3>1, <3>2 DEF DownloadEnds
  <2>5. handed' \in {"none", "whole", "partial"}
    BY <1>8 DEF DownloadEnds, DownloadInv
  <2> QED BY <2>1, <2>2, <2>3, <2>4, <2>5 DEF DownloadInv, PartialOnlyAfterCut, Cut
<1>9. TickQueued \/ TickTaken \/ VerifyNotDue \/ VerifyDue \/ VerifyTaken \/ WalkEnds \/ GhostGoesStale
         \/ UNCHANGED vars => DownloadInv'
  BY DownloadStays DEF TickQueued, TickTaken, VerifyNotDue, VerifyDue, VerifyTaken, WalkEnds,
     GhostGoesStale, vars, disk, Cut
<1>10. WalkRaises \/ SetPolicy \/ (\E g \in Times : ClickVerify(g) \/ Pin(g)) => DownloadInv'
  BY DownloadStays DEF WalkRaises, SetPolicy, ClickVerify, Pin, Uses, disk, Cut
<1> QED BY <1>1, <1>3, <1>4, <1>5, <1>6, <1>7, <1>8, <1>9, <1>10 DEF Next

-----------------------------------------------------------------------------
(* The queue and its consumer.                                             *)

LEMMA ATask ==
  ASSUME NEW g \in Times
  PROVE  TaskFor("verify", g) \in Tasks
BY DEF TaskFor, Tasks

LEMMA QueueGrows ==
  ASSUME QueueInv, NEW t \in Tasks, queue' = Append(queue, t), Len(queue) <= MaxQueue,
         (task' = task /\ Len(queue) < MaxQueue) \/ task' = NoTask
  PROVE  QueueInv'
<1>1. queue' \in Seq(Tasks) /\ Len(queue') = Len(queue) + 1 /\ Len(queue) \in Nat /\ MaxQueue \in Nat
  BY GenerationsAssumption DEF QueueInv
<1>2. NoTask \in TaskStates /\ NoTask.pc = "none"
  BY DEF NoTask, TaskStates
<1> QED BY <1>1, <1>2 DEF QueueInv

LEMMA QueueShrinks ==
  ASSUME QueueInv, queue # <<>>, queue' = Tail(queue), task' \in TaskStates,
         task'.pc = "walking" => task'.gen \in Times
  PROVE  QueueInv'
<1>1. queue' \in Seq(Tasks) /\ Len(queue') = Len(queue) - 1 /\ Len(queue) \in Nat /\ MaxQueue \in Nat
  BY GenerationsAssumption DEF QueueInv
<1> QED BY <1>1 DEF QueueInv

LEMMA QueueRests ==
  ASSUME QueueInv, queue' = queue, task' = task \/ task' = NoTask
  PROVE  QueueInv'
<1>1. NoTask \in TaskStates /\ NoTask.pc = "none"
  BY DEF NoTask, TaskStates
<1> QED BY <1>1 DEF QueueInv

LEMMA QueueInvStep ==
  ASSUME DiskInv, ChecksInv, Ordered, QueueInv, [Next]_vars
  PROVE  QueueInv'
<1>1. gens \subseteq Times /\ Len(queue) \in Nat /\ MaxQueue \in Nat
  BY GenerationsAssumption DEF DiskInv, QueueInv
<1>2. ASSUME TickQueued PROVE QueueInv'
  <2>1. Tick \in Tasks
    BY DEF Tick, Tasks
  <2> QED BY <1>1, <1>2, <2>1, QueueGrows DEF TickQueued
<1>3. ASSUME NEW g \in Times, ClickVerify(g) PROVE QueueInv'
  BY <1>1, <1>3, ATask, QueueGrows DEF ClickVerify
<1>4. ASSUME VerifyDue PROVE QueueInv'
  <2>1. CASE ghost \/ gens = {}
    BY <1>4, <2>1, QueueRests DEF VerifyDue
  <2>2. CASE ~(ghost \/ gens = {})
    <3>1. PICK t : t = TaskFor("verify", PickSnapshot)
      OBVIOUS
    <3>2. t \in Tasks
      BY <1>1, <2>2, <3>1, PickedExists, ATask
    <3> QED BY <1>4, <2>2, <3>1, <3>2, QueueGrows DEF VerifyDue, QueueInv
  <2> QED BY <2>1, <2>2
<1>5. ASSUME TickTaken PROVE QueueInv'
  <2>1. task' = [NoTask EXCEPT !.pc = "tick"]
    BY <1>5 DEF TickTaken
  <2>2. task' \in TaskStates /\ task'.pc = "tick"
    BY <2>1 DEF NoTask, TaskStates
  <2> QED BY <1>5, <2>2, QueueShrinks DEF TickTaken
<1>6. ASSUME VerifyTaken PROVE QueueInv'
  <2>1. PICK g : g = Head(queue).gen
    OBVIOUS
  <2>2. g \in Times
    <3>1. Head(queue) \in Tasks /\ Head(queue).kind = "verify"
      BY <1>6 DEF VerifyTaken, QueueInv
    <3> QED BY <2>1, <3>1 DEF Tasks
  <2>3. PICK whole \in BOOLEAN :
          task' = NoTask \/ task' = [NoTask EXCEPT !.pc = "walking", !.gen = g, !.whole = whole]
    BY <1>6, <2>1 DEF VerifyTaken
  <2>4. queue # <<>> /\ queue' = Tail(queue)
    BY <1>6, Zenon DEF VerifyTaken
  <2>5. CASE task' = NoTask
    <3>1. task' \in TaskStates /\ task'.pc = "none"
      BY <2>5 DEF NoTask, TaskStates
    <3> QED BY <2>4, <3>1, QueueShrinks
  <2>6. CASE task' = [NoTask EXCEPT !.pc = "walking", !.gen = g, !.whole = whole]
    <3>1. task' = [pc |-> "walking", gen |-> g, whole |-> whole]
      BY <2>6 DEF NoTask
    <3>2. task' \in TaskStates /\ task'.gen \in Times
      BY <2>2, <3>1 DEF TaskStates
    <3> QED BY <2>4, <3>2, QueueShrinks
  <2> QED BY <2>3, <2>5, <2>6
<1>7. SnapshotBegin \/ CopyFails \/ CopyDone \/ RemoveBegin \/ RemoveEnd \/ RemoveRaises \/ DeleteResults
        \/ VerifyNotDue \/ WalkEnds \/ WalkRaises => QueueInv'
  BY QueueRests DEF SnapshotBegin, CopyFails, CopyDone, RemoveBegin, RemoveEnd, RemoveRaises,
     DeleteResults, VerifyNotDue, WalkEnds, WalkRaises
<1>8. GhostGoesStale \/ Kill \/ SetPolicy \/ DownloadEnds
        \/ (\E g \in Times : Pin(g) \/ DownloadBegin(g)) \/ UNCHANGED vars => QueueInv'
  BY QueueRests DEF GhostGoesStale, Kill, SetPolicy, DownloadEnds, Pin, DownloadBegin, vars
<1> QED BY <1>2, <1>3, <1>4, <1>5, <1>6, <1>7, <1>8 DEF Next

-----------------------------------------------------------------------------
(* The checks and their order.                                             *)

(* delete_results: rows go, the order of the others stays.                 *)
LEMMA DeleteKeeps ==
  ASSUME ChecksInv, Ordered, DeleteResults
  PROVE  ChecksInv' /\ Ordered'
<1>1. PICK S : S = job.removed
  OBVIOUS
<1>2. /\ results' = [g \in Times |-> IF g \in S THEN "none" ELSE results[g]]
      /\ order' = {pair \in order : pair[1] \notin S /\ pair[2] \notin S}
  BY <1>1 DEF DeleteResults, OrderWithout
<1>3. results' \in [Times -> Outcomes \cup {"none"}]
  BY <1>2 DEF ChecksInv
<1>4. ASSUME NEW pair \in order' PROVE pair \in Times \X Times /\ Checked(pair[1])' /\ Checked(pair[2])'
  <2>1. pair \in order /\ pair[1] \notin S /\ pair[2] \notin S
    BY <1>2
  <2>2. pair \in Times \X Times /\ Checked(pair[1]) /\ Checked(pair[2])
    BY <2>1 DEF ChecksInv
  <2>3. results'[pair[1]] = results[pair[1]] /\ results'[pair[2]] = results[pair[2]]
    BY <1>2, <2>1, <2>2
  <2> QED BY <2>2, <2>3 DEF Checked
<1>5. order' \subseteq order
  BY <1>2
<1> QED BY <1>3, <1>4, <1>5 DEF ChecksInv, Ordered, Numbers

(* save_result: the check that just ended gets the next number.            *)
LEMMA WalkKeeps ==
  ASSUME QueueInv, ChecksInv, Ordered, WalkEnds
  PROVE  ChecksInv' /\ Ordered'
<1>1. PICK t : t = task.gen
  OBVIOUS
<1>2. t \in Times
  BY <1>1 DEF WalkEnds, QueueInv
<1>3. PICK outcome \in Outcomes : results' = [results EXCEPT ![t] = outcome]
  BY <1>1 DEF WalkEnds, Found, Outcomes
<1>4. order' = {pair \in order : pair[1] \notin {t} /\ pair[2] \notin {t}}
                 \cup ({g \in Times \ {t} : Checked(g)} \X {t})
  BY <1>1 DEF WalkEnds, OrderWithout
<1>5. results' \in [Times -> Outcomes \cup {"none"}]
  BY <1>2, <1>3 DEF ChecksInv
<1>6. results'[t] = outcome /\ \A g \in Times \ {t} : results'[g] = results[g]
  BY <1>2, <1>3 DEF ChecksInv
<1>7. Checked(t)' /\ \A g \in Times \ {t} : Checked(g)' = Checked(g)
  <2>1. outcome # "none"
    BY DEF Outcomes
  <2> QED BY <1>6, <2>1 DEF Checked
<1>8. \A pair \in order' :
        \/ pair \in order /\ pair[1] # t /\ pair[2] # t
        \/ pair[1] \in Times \ {t} /\ Checked(pair[1]) /\ pair[2] = t /\ pair = <<pair[1], t>>
  BY <1>4
<1>9. ASSUME NEW pair \in order' PROVE pair \in Times \X Times /\ Checked(pair[1])' /\ Checked(pair[2])'
  <2>1. CASE pair \in order /\ pair[1] # t /\ pair[2] # t
    <3>1. pair \in Times \X Times /\ Checked(pair[1]) /\ Checked(pair[2])
      BY <2>1 DEF ChecksInv
    <3>2. pair[1] \in Times \ {t} /\ pair[2] \in Times \ {t}
      BY <2>1, <3>1
    <3> QED BY <1>7, <3>1, <3>2
  <2>2. CASE pair[1] \in Times \ {t} /\ Checked(pair[1]) /\ pair[2] = t /\ pair = <<pair[1], t>>
    <3>1. Checked(pair[1])' /\ Checked(pair[2])'
      BY <1>7, <2>2
    <3>2. pair \in Times \X Times
      BY <1>2, <2>2
    <3> QED BY <3>1, <3>2
  <2> QED BY <1>8, <2>1, <2>2
<1>10. PICK rank \in [Times -> Nat], n \in Nat : Numbers(rank, n)
  BY DEF Ordered
<1>11. PICK next : next = [rank EXCEPT ![t] = n]
  OBVIOUS
<1>12. next \in [Times -> Nat] /\ next[t] = n /\ \A g \in Times \ {t} : next[g] = rank[g]
  BY <1>2, <1>11
<1>13. \A g \in Times : next[g] < n + 1
  <2> TAKE g \in Times
  <2>1. rank[g] \in Nat /\ rank[g] < n
    BY <1>10 DEF Numbers
  <2>2. next[g] = n \/ next[g] = rank[g]
    BY <1>12
  <2> QED BY <2>1, <2>2
<1>14. ASSUME NEW pair \in order' PROVE next[pair[1]] < next[pair[2]]
  <2>1. CASE pair \in order /\ pair[1] # t /\ pair[2] # t
    <3>1. pair[1] \in Times \ {t} /\ pair[2] \in Times \ {t}
      BY <2>1 DEF ChecksInv
    <3>2. rank[pair[1]] < rank[pair[2]]
      BY <1>10, <2>1 DEF Numbers
    <3>3. next[pair[1]] = rank[pair[1]] /\ next[pair[2]] = rank[pair[2]]
      BY <1>12, <3>1
    <3> QED BY <3>2, <3>3
  <2>2. CASE pair[1] \in Times \ {t} /\ pair[2] = t
    <3>1. rank[pair[1]] < n /\ next[pair[1]] = rank[pair[1]]
      BY <1>10, <1>12, <2>2 DEF Numbers
    <3> QED BY <1>12, <2>2, <3>1
  <2> QED BY <1>8, <2>1, <2>2
<1>15. n + 1 \in Nat
  OBVIOUS
<1> QED BY <1>5, <1>9, <1>12, <1>13, <1>14, <1>15 DEF ChecksInv, Ordered, Numbers

LEMMA ChecksInvStep ==
  ASSUME QueueInv, ChecksInv, Ordered, [Next]_vars
  PROVE  ChecksInv' /\ Ordered'
<1>1. ASSUME UNCHANGED checks PROVE ChecksInv' /\ Ordered'
  <2>1. UNCHANGED <<results, order>>
    BY <1>1 DEF checks
  <2> QED BY <2>1 DEF ChecksInv, Ordered, Numbers, Checked
<1>2. SnapshotBegin \/ CopyFails \/ CopyDone \/ RemoveBegin \/ RemoveEnd \/ RemoveRaises
        \/ TickQueued \/ TickTaken \/ VerifyNotDue \/ VerifyDue \/ VerifyTaken \/ WalkRaises
        => UNCHANGED checks
  BY DEF SnapshotBegin, CopyFails, CopyDone, RemoveBegin, RemoveEnd, RemoveRaises, TickQueued, TickTaken,
     VerifyNotDue, VerifyDue, VerifyTaken, WalkRaises
<1>3. GhostGoesStale \/ Kill \/ SetPolicy \/ DownloadEnds
        \/ (\E g \in Times : Pin(g) \/ ClickVerify(g) \/ DownloadBegin(g)) \/ UNCHANGED vars
        => UNCHANGED checks
  BY DEF GhostGoesStale, Kill, SetPolicy, DownloadEnds, Pin, ClickVerify, DownloadBegin, vars
<1>4. DeleteResults \/ WalkEnds => ChecksInv' /\ Ordered'
  BY DeleteKeeps, WalkKeeps
<1> QED BY <1>1, <1>2, <1>3, <1>4 DEF Next

-----------------------------------------------------------------------------
LEMMA IInvAlways == Spec => []IInv
<1>1. Init => IInv
  <2> SUFFICES ASSUME Init PROVE IInv
    OBVIOUS
  <2>1. /\ clock = 0 /\ gens = {} /\ harmed = {} /\ partials = {} /\ pins = {} /\ policy \in Policies
        /\ job = NoJob /\ queue = <<>> /\ task = NoTask /\ download = NoDownload /\ handed = "none"
        /\ results = [g \in Times |-> "none"] /\ order = {}
    BY DEF Init
  <2>2. PruneInv
    BY <2>1, NoJobIsOne DEF PruneInv, DiskInv, JobInv, NewestSafe, HarmExplained, IsNewest
  <2>3. DownloadInv
    BY <2>1, NoJobIsOne DEF DownloadInv, Downloads, NoDownload, PartialOnlyAfterCut, Nothing
  <2>4. QueueInv
    <3>1. task \in TaskStates /\ task.pc = "none"
      BY <2>1 DEF NoTask, TaskStates
    <3> QED BY <2>1, <3>1, GenerationsAssumption DEF QueueInv
  <2>5. ChecksInv
    BY <2>1 DEF ChecksInv
  <2>6. Ordered
    <3>1. [g \in Times |-> 0] \in [Times -> Nat] /\ 1 \in Nat /\ Numbers([g \in Times |-> 0], 1)
      BY <2>1 DEF Numbers
    <3> QED BY <3>1 DEF Ordered
  <2> QED BY <2>2, <2>3, <2>4, <2>5, <2>6 DEF IInv
<1>2. IInv /\ [Next]_vars => IInv'
  <2> SUFFICES ASSUME IInv, [Next]_vars PROVE IInv'
    OBVIOUS
  <2>1. PruneInv /\ DiskInv /\ DownloadInv /\ QueueInv /\ ChecksInv /\ Ordered
    BY DEF IInv, PruneInv
  <2>2. PruneInv' /\ DownloadInv' /\ QueueInv' /\ ChecksInv' /\ Ordered'
    BY <2>1, PruneInvStep, DownloadInvStep, QueueInvStep, ChecksInvStep
  <2> QED BY <2>2 DEF IInv
<1> QED BY <1>1, <1>2, PTL DEF Spec

(* snapshots.py:73-260 with verify.py:199-271 and export.py:61-89: what is *)
(* on disk can be relied upon, wherever the worker is killed and whatever  *)
(* is pinned, checked or downloaded meanwhile. The newest generation is    *)
(* never in a plan, because the plan is made after the rename; a finished  *)
(* download lacks files only after a removal that was cut off; every task  *)
(* in the queue names a generation, and no check follows itself.           *)
THEOREM GenerationsInvAlways == Spec => []GenerationsInv
<1>1. ASSUME IInv PROVE GenerationsInv
  <2>1. /\ DiskInv /\ JobInv /\ NewestSafe /\ DownloadInv /\ QueueInv /\ ChecksInv /\ Ordered
    BY <1>1 DEF IInv, PruneInv
  <2>2. TypeOK
    <3>1. \A pair \in order : <<pair[2], pair[1]>> \notin order
      <4>1. PICK rank \in [Times -> Nat] : \A pair \in order : rank[pair[1]] < rank[pair[2]]
        BY <2>1 DEF Ordered, Numbers
      <4> SUFFICES ASSUME NEW pair \in order, <<pair[2], pair[1]>> \in order PROVE FALSE
        OBVIOUS
      <4>2. rank[pair[1]] < rank[pair[2]] /\ rank[pair[2]] < rank[pair[1]]
        BY <4>1
      <4>3. rank[pair[1]] \in Nat /\ rank[pair[2]] \in Nat
        BY <2>1 DEF ChecksInv
      <4> QED BY <4>2, <4>3
    <3>2. \A i \in DOMAIN queue : queue[i] \in Tasks
      BY <2>1 DEF QueueInv
    <3> QED BY <2>1, <3>1, <3>2 DEF TypeOK, DiskInv, JobInv, DownloadInv, QueueInv, ChecksInv
  <2>3. NewestWhole
    <3> SUFFICES ASSUME gens # {} PROVE Newest(gens) \notin harmed
      BY DEF NewestWhole
    <3>1. gens \subseteq Nat /\ clock \in Nat /\ gens \subseteq Times /\ \A t \in gens : t <= clock
      BY <2>1, TimesAreNumbers DEF DiskInv
    <3>2. Newest(gens) \in gens /\ \A u \in gens : u <= Newest(gens)
      BY <3>1, NewestIs
    <3> QED BY <2>1, <3>1, <3>2 DEF NewestSafe, IsNewest
  <2> QED BY <2>1, <2>2, <2>3 DEF GenerationsInv, DownloadInv
<1> QED BY <1>1, IInvAlways, PTL

(* snapshots.py:192-260: the plan leaves out what carried a marker when it *)
(* was made, and nothing outside the plan is touched, whatever the policy. *)
THEOREM PinnedBeforePlanStaysAlways == Spec => PinnedBeforePlanStays
<1>1. ASSUME IInv, [Next]_vars PROVE [\A g \in gens : g \in harmed' \ harmed => g \notin job.pinned]_vars
  <2>1. PruneInv
    BY <1>1 DEF IInv
  <2>2. CASE RemoveBegin
    <3>1. harmed' = harmed \cup {job'.gen} /\ job'.gen \in job.todo
      BY <2>1, <2>2, RemoveBeginKeeps
    <3> QED BY <2>1, <3>1 DEF PruneInv, JobInv
  <2>3. harmed' \subseteq harmed => \A g \in gens : g \in harmed' \ harmed => g \notin job.pinned
    OBVIOUS
  <2>4. SnapshotBegin \/ CopyFails \/ CopyDone \/ RemoveEnd \/ RemoveRaises \/ DeleteResults
          \/ TickQueued \/ TickTaken \/ VerifyNotDue \/ VerifyDue \/ VerifyTaken \/ WalkRaises
          => harmed' \subseteq harmed
    BY DEF SnapshotBegin, CopyFails, CopyDone, RemoveEnd, RemoveRaises, DeleteResults, TickQueued,
       TickTaken, VerifyNotDue, VerifyDue, VerifyTaken, WalkRaises, disk
  <2>5. WalkEnds \/ GhostGoesStale \/ Kill \/ SetPolicy \/ DownloadEnds
          \/ (\E g \in Times : Pin(g) \/ ClickVerify(g) \/ DownloadBegin(g)) \/ UNCHANGED vars
          => harmed' \subseteq harmed
    BY DEF WalkEnds, GhostGoesStale, Kill, SetPolicy, DownloadEnds, Pin, ClickVerify, DownloadBegin,
       vars, disk
  <2> QED BY <1>1, <2>2, <2>3, <2>4, <2>5 DEF Next
<1> QED BY <1>1, IInvAlways, PTL DEF Spec, PinnedBeforePlanStays

-----------------------------------------------------------------------------
(* The walk of plan_retention against restic's rule. Chosen(key, count, I) *)
(* are the positions of I that restic's rule keeps, where key[i] is the    *)
(* bucket of the i-th generation.                                          *)

Buckets(key, I) == {key[i] : i \in I}
Before(I, i) == {j \in I : j < i}
Chosen(key, count, I) ==
  {i \in I : key[i] \notin Buckets(key, Before(I, i))
               /\ Cardinality(Buckets(key, Before(I, i))) < count}

(* As many buckets as positions, at most.                                  *)
LEMMA BucketsAreFinite ==
  ASSUME NEW key, NEW I, IsFiniteSet(I)
  PROVE  IsFiniteSet(Buckets(key, I)) /\ Cardinality(Buckets(key, I)) \in Nat
<1> DEFINE f == [i \in I |-> key[i]]
<1>1. f \in Surjection(I, Buckets(key, I))
  BY DEF Surjection, Buckets
<1>2. IsFiniteSet(Buckets(key, I))
  BY <1>1, FS_Surjection
<1> QED BY <1>2, FS_CardinalityType

(* As long as the limit is not reached, every bucket so far was kept.      *)
LEMMA NothingMissed ==
  ASSUME NEW key, NEW count \in Nat, NEW I \in SUBSET Nat, IsFiniteSet(I)
  PROVE  LET seen == Buckets(key, Chosen(key, count, I))
             all == Buckets(key, I)
         IN  /\ seen \subseteq all
             /\ Cardinality(seen) < count \/ Cardinality(all) < count => seen = all
<1> DEFINE seen == Buckets(key, Chosen(key, count, I))
           all == Buckets(key, I)
           missed == {i \in I : key[i] \notin seen}
<1>1. seen \subseteq all
  BY DEF Buckets, Chosen
<1>2. ASSUME seen # all PROVE Cardinality(seen) >= count /\ Cardinality(all) >= count
  <2>1. missed # {} /\ missed \subseteq Nat
    BY <1>1, <1>2 DEF Buckets
  <2>2. PICK i \in missed : \A j \in missed : i <= j
    <3> HIDE DEF missed
    <3> QED BY <2>1, LeastExists
  <2> DEFINE earlier == Buckets(key, Before(I, i))
  <2>3. earlier \subseteq seen
    <3> SUFFICES ASSUME NEW j \in I, j < i PROVE key[j] \in seen
      BY DEF Buckets, Before
    <3>1. ~(i <= j)
      OBVIOUS
    <3> QED BY <2>2, <3>1
  <2>4. i \in I /\ key[i] \notin seen
    BY <2>2
  <2>5. i \notin Chosen(key, count, I)
    BY <2>4 DEF Buckets
  <2>6. ~(Cardinality(earlier) < count)
    BY <2>3, <2>4, <2>5 DEF Chosen
  <2>7. /\ IsFiniteSet(all) /\ IsFiniteSet(seen)
        /\ Cardinality(all) \in Nat /\ Cardinality(seen) \in Nat /\ Cardinality(earlier) \in Nat
    <3>1. IsFiniteSet(all) /\ Cardinality(all) \in Nat
      BY BucketsAreFinite
    <3>2. IsFiniteSet(seen) /\ IsFiniteSet(earlier)
      <4> HIDE DEF seen, all, earlier
      <4> QED BY <1>1, <2>3, <3>1, FS_Subset
    <3> QED BY <3>1, <3>2, FS_CardinalityType
  <2>8. Cardinality(earlier) <= Cardinality(seen) /\ Cardinality(seen) <= Cardinality(all)
    <3> HIDE DEF seen, all, earlier
    <3> QED BY <1>1, <2>3, <2>7, FS_Subset
  <2> HIDE DEF seen, all, earlier
  <2> QED BY <2>6, <2>7, <2>8
<1>3. /\ IsFiniteSet(seen) /\ Cardinality(seen) \in Nat /\ Cardinality(all) \in Nat
  <2>1. IsFiniteSet(all) /\ Cardinality(all) \in Nat
    BY BucketsAreFinite
  <2>2. IsFiniteSet(seen)
    <3> HIDE DEF seen, all
    <3> QED BY <1>1, <2>1, FS_Subset
  <2> QED BY <2>1, <2>2, FS_CardinalityType
<1> HIDE DEF seen, all, missed
<1>4. Cardinality(seen) < count \/ Cardinality(all) < count => seen = all
  BY <1>2, <1>3
<1> QED BY <1>1, <1>4 DEF seen, all

(* One step of the walk: the limit, then the bucket already seen.          *)
LEMMA OneStep ==
  ASSUME NEW key, NEW count \in Nat, NEW I \in SUBSET Nat, IsFiniteSet(I),
         NEW x \in I, \A j \in I : j <= x
  PROVE  LET rest == Chosen(key, count, I \ {x})
             seen == Buckets(key, rest)
             stops == Cardinality(seen) >= count \/ key[x] \in seen
         IN  /\ stops => Chosen(key, count, I) = rest
             /\ ~stops => Chosen(key, count, I) = rest \cup {x}
<1> DEFINE J == I \ {x}
           rest == Chosen(key, count, J)
           seen == Buckets(key, rest)
           all == Buckets(key, J)
<1>1. IsFiniteSet(J) /\ J \subseteq Nat /\ Before(I, x) = J
  <2>1. IsFiniteSet(J)
    BY FS_RemoveElement
  <2>2. \A j \in I : j < x <=> j # x
    OBVIOUS
  <2> QED BY <2>1, <2>2 DEF Before
<1>2. ASSUME NEW i \in J PROVE Before(I, i) = Before(J, i)
  <2>1. ~(x < i)
    OBVIOUS
  <2> QED BY <2>1 DEF Before
<1>3. ASSUME NEW i \in J PROVE i \in Chosen(key, count, I) <=> i \in rest
  BY <1>2 DEF Chosen
<1>4. x \in Chosen(key, count, I) <=> key[x] \notin all /\ Cardinality(all) < count
  BY <1>1 DEF Chosen
<1>5. Chosen(key, count, I) \subseteq I /\ rest \subseteq J
  BY DEF Chosen
<1>6. seen \subseteq all /\ (Cardinality(seen) < count \/ Cardinality(all) < count => seen = all)
  BY <1>1, NothingMissed
<1>7. Cardinality(seen) \in Nat /\ Cardinality(all) \in Nat
  <2>1. IsFiniteSet(rest)
    BY <1>1, <1>5, FS_Subset
  <2> HIDE DEF rest, J
  <2> QED BY <1>1, <2>1, BucketsAreFinite
<1> HIDE DEF rest, seen, all
<1>8. Cardinality(seen) >= count \/ key[x] \in seen <=> x \notin Chosen(key, count, I)
  BY <1>4, <1>6, <1>7
<1>9. Chosen(key, count, I) = IF x \in Chosen(key, count, I) THEN rest \cup {x} ELSE rest
  <2> DEFINE chosen == Chosen(key, count, I)
  <2>1. \A i \in J : i \in chosen <=> i \in rest
    BY <1>3
  <2>2. chosen \subseteq J \cup {x} /\ rest \subseteq J /\ x \notin J
    BY <1>5
  <2> HIDE DEF chosen, J
  <2>3. chosen = IF x \in chosen THEN rest \cup {x} ELSE rest
    BY <2>1, <2>2
  <2> QED BY <2>3 DEF chosen
<1> QED BY <1>8, <1>9 DEF rest, seen

(* The fold takes the last position first.                                 *)
LEMMA GreatestIs ==
  ASSUME NEW n \in Nat, NEW I \in SUBSET (1 .. n), I # {}
  PROVE  Max(I) \in I /\ \A j \in I : j <= Max(I)
<1>1. I \subseteq Nat /\ \A j \in I : j <= n
  OBVIOUS
<1>2. Newest(I) \in I /\ \A j \in I : Newest(I) >= j
  BY <1>1, NewestIs
<1>3. Max(I) \in I /\ \A j \in I : Max(I) >= j
  BY <1>2 DEF Max
<1> QED BY <1>3

(* What the walk has in hand after the positions I of the list sq.         *)
BucketsOf(sq, period) == [i \in DOMAIN sq |-> BucketKey(sq[i], period)]
Walked(sq, period, count, I) ==
  LET chosen == Chosen(BucketsOf(sq, period), count, I)
  IN  [seen |-> Buckets(BucketsOf(sq, period), chosen), kept |-> {sq[i] : i \in chosen}]

Walk(walk, t, period, count) ==
  IF Cardinality(walk.seen) >= count \/ BucketKey(t, period) \in walk.seen
  THEN walk
  ELSE [seen |-> walk.seen \cup {BucketKey(t, period)}, kept |-> walk.kept \cup {t}]

(* Positions of a list of n are finitely many numbers.                     *)
LEMMA Positions ==
  ASSUME NEW n \in Nat, NEW I \in SUBSET (1 .. n)
  PROVE  I \subseteq Nat /\ IsFiniteSet(I) /\ Cardinality(I) \in Nat
<1>1. IsFiniteSet(1 .. n)
  <2>1. 1 \in Int /\ n \in Int
    OBVIOUS
  <2> QED BY <2>1, FS_Interval
<1>2. IsFiniteSet(I)
  BY <1>1, FS_Subset
<1>3. I \subseteq Nat
  OBVIOUS
<1> QED BY <1>2, <1>3, FS_CardinalityType

(* Taking position x after the ones before it is one step of the walk.     *)
LEMMA WalkedStep ==
  ASSUME NEW sq, NEW period, NEW count \in Nat, NEW I \in SUBSET Nat, IsFiniteSet(I),
         I \subseteq DOMAIN sq, NEW x \in I, \A j \in I : j <= x
  PROVE  Walked(sq, period, count, I)
           = Walk(Walked(sq, period, count, I \ {x}), sq[x], period, count)
<1> DEFINE key == BucketsOf(sq, period)
           rest == Chosen(key, count, I \ {x})
           seen == Buckets(key, rest)
<1>3. Chosen(key, count, I)
        = IF Cardinality(seen) >= count \/ key[x] \in seen THEN rest ELSE rest \cup {x}
  <2> HIDE DEF key
  <2> QED BY OneStep
<1>4. key[x] = BucketKey(sq[x], period)
  BY DEF BucketsOf
<1>5. Walked(sq, period, count, I \ {x}) = [seen |-> seen, kept |-> {sq[i] : i \in rest}]
  BY DEF Walked
<1>6. Walked(sq, period, count, I)
        = [seen |-> Buckets(key, Chosen(key, count, I)), kept |-> {sq[i] : i \in Chosen(key, count, I)}]
  BY DEF Walked
<1> HIDE DEF rest, seen, key
<1>7. CASE Cardinality(seen) >= count \/ key[x] \in seen
  <2>1. Chosen(key, count, I) = rest
    BY <1>3, <1>7
  <2> QED BY <1>4, <1>5, <1>6, <1>7, <2>1 DEF Walk, seen
<1>8. CASE ~(Cardinality(seen) >= count \/ key[x] \in seen)
  <2>1. Chosen(key, count, I) = rest \cup {x}
    BY <1>3, <1>8
  <2>2. Buckets(key, rest \cup {x}) = seen \cup {key[x]}
    BY DEF Buckets, seen
  <2>3. {sq[i] : i \in rest \cup {x}} = {sq[i] : i \in rest} \cup {sq[x]}
    OBVIOUS
  <2>4. Walked(sq, period, count, I)
          = [seen |-> seen \cup {key[x]}, kept |-> {sq[i] : i \in rest} \cup {sq[x]}]
    BY <1>6, <2>1, <2>2, <2>3
  <2>5. Walk([seen |-> seen, kept |-> {sq[i] : i \in rest}], sq[x], period, count)
          = [seen |-> seen \cup {key[x]}, kept |-> {sq[i] : i \in rest} \cup {sq[x]}]
    BY <1>4, <1>8 DEF Walk
  <2> QED BY <1>5, <2>4, <2>5
<1> QED BY <1>7, <1>8

(* The fold is the only function that obeys its recursion: the smallest    *)
(* set of positions on which another one differed would have a smaller one.*)
LEMMA WalkIs ==
  ASSUME NEW S, NEW period, NEW count \in Nat, NEW n \in Nat, DOMAIN NewestFirst(S) = 1 .. n
  PROVE  KeptByPeriod(S, period, count) = Walked(NewestFirst(S), period, count, 1 .. n).kept
<1> DEFINE sq == NewestFirst(S)
           Start == [seen |-> {}, kept |-> {}]
           Step(f) == [I \in SUBSET DOMAIN sq |->
                         IF I = {} THEN Start
                         ELSE Walk(f[I \ {Max(I)}], sq[Max(I)], period, count)]
           walked == [I \in SUBSET DOMAIN sq |-> Walked(sq, period, count, I)]
<1>1. PICK iter : /\ iter = CHOOSE f : f = Step(f)
                  /\ KeptByPeriod(S, period, count) = iter[DOMAIN sq].kept
  <2> HIDE DEF sq
  <2> QED BY DEF KeptByPeriod, FoldLeft, MapThenFoldSet, Walk, sq
<1>2. \A I \in SUBSET DOMAIN sq : I # {} => I \ {Max(I)} \in SUBSET DOMAIN sq
  OBVIOUS
<1>3. walked = Step(walked)
  <2>1. Walked(sq, period, count, {}) = Start
    BY DEF Walked, Chosen, Buckets
  <2>2. ASSUME NEW I \in SUBSET DOMAIN sq, I # {}
        PROVE  walked[I] = Walk(walked[I \ {Max(I)}], sq[Max(I)], period, count)
    <3>1. Walked(sq, period, count, I)
            = Walk(Walked(sq, period, count, I \ {Max(I)}), sq[Max(I)], period, count)
      <4>1. PICK x \in I : x = Max(I) /\ \A j \in I : j <= x
        BY <2>2, GreatestIs
      <4>2. I \in SUBSET Nat /\ IsFiniteSet(I) /\ I \subseteq DOMAIN sq
        BY Positions
      <4> HIDE DEF sq
      <4>3. Walked(sq, period, count, I) = Walk(Walked(sq, period, count, I \ {x}), sq[x], period, count)
        BY <4>1, <4>2, WalkedStep
      <4> QED BY <4>1, <4>3
    <3> QED BY <1>2, <2>2, <3>1
  <2> QED BY <2>1, <2>2
<1>4. iter = Step(iter)
  <2> HIDE DEF walked, Step
  <2> QED BY <1>1, <1>3
<1>5. ASSUME NEW I \in SUBSET DOMAIN sq PROVE iter[I] = walked[I]
  <2> DEFINE differ == {J \in SUBSET DOMAIN sq : iter[J] # walked[J]}
             sizes == {Cardinality(J) : J \in differ}
  <2> SUFFICES ASSUME differ # {} PROVE FALSE
    OBVIOUS
  <2>1. \A J \in SUBSET DOMAIN sq : IsFiniteSet(J) /\ Cardinality(J) \in Nat
    BY Positions
  <2>2. sizes \subseteq Nat /\ sizes # {}
    BY <2>1
  <2>3. PICK size \in sizes : \A other \in sizes : size <= other
    <3> HIDE DEF sizes
    <3> QED BY <2>2, LeastExists
  <2>4. PICK J \in differ : size = Cardinality(J)
    OBVIOUS
  <2>5. J # {}
    BY <1>3, <1>4
  <2>6. Max(J) \in J /\ J \ {Max(J)} \in SUBSET DOMAIN sq
    <3> HIDE DEF sq
    <3> QED BY <2>5, GreatestIs DEF sq
  <2>7. Cardinality(J \ {Max(J)}) = Cardinality(J) - 1
    BY <2>1, <2>6, FS_RemoveElement
  <2>8. J \ {Max(J)} \notin differ
    <3> SUFFICES ASSUME J \ {Max(J)} \in differ PROVE FALSE
      OBVIOUS
    <3>1. size <= Cardinality(J \ {Max(J)})
      BY <2>3
    <3> QED BY <2>1, <2>4, <2>7, <3>1
  <2>9. iter[J \ {Max(J)}] = walked[J \ {Max(J)}]
    BY <2>6, <2>8
  <2>10. iter[J] = Walk(iter[J \ {Max(J)}], sq[Max(J)], period, count)
    BY <1>4, <2>5
  <2>11. walked[J] = Walk(walked[J \ {Max(J)}], sq[Max(J)], period, count)
    BY <1>3, <2>5
  <2> QED BY <2>9, <2>10, <2>11
<1> QED BY <1>1, <1>5

Newer(S, t) == {u \in S : u > t}

(* Of two generations the newer one has fewer newer ones.                  *)
LEMMA Ranks ==
  ASSUME NEW S \in SUBSET Nat, IsFiniteSet(S)
  PROVE  /\ Cardinality(S) \in Nat
         /\ \A t \in S : Cardinality(Newer(S, t)) \in 0 .. Cardinality(S) - 1
         /\ \A t, u \in S : t < u => Cardinality(Newer(S, u)) < Cardinality(Newer(S, t))
<1>1. Cardinality(S) \in Nat
  BY FS_CardinalityType
<1>2. ASSUME NEW t \in S
      PROVE  IsFiniteSet(Newer(S, t)) /\ Cardinality(Newer(S, t)) \in 0 .. Cardinality(S) - 1
  <2>1. Newer(S, t) \in SUBSET (S \ {t})
    BY DEF Newer
  <2>2. IsFiniteSet(S \ {t}) /\ Cardinality(S \ {t}) = Cardinality(S) - 1
    BY FS_RemoveElement
  <2>3. IsFiniteSet(Newer(S, t)) /\ Cardinality(Newer(S, t)) <= Cardinality(S \ {t})
    BY <2>1, <2>2, FS_Subset
  <2> QED BY <1>1, <2>2, <2>3, FS_CardinalityType
<1>3. ASSUME NEW t \in S, NEW u \in S, t < u
      PROVE  Cardinality(Newer(S, u)) < Cardinality(Newer(S, t))
  <2>1. Newer(S, u) \cup {u} \in SUBSET Newer(S, t) /\ u \notin Newer(S, u)
    <3>1. \A v \in S : v > u => v > t
      BY <1>3
    <3>2. u > t /\ ~(u > u)
      BY <1>3
    <3> QED BY <3>1, <3>2 DEF Newer
  <2>2. Cardinality(Newer(S, u) \cup {u}) = Cardinality(Newer(S, u)) + 1
    BY <1>2, <2>1, FS_AddElement
  <2>3. Cardinality(Newer(S, u) \cup {u}) <= Cardinality(Newer(S, t))
    BY <1>2, <2>1, FS_Subset
  <2> QED BY <1>2, <2>2, <2>3
<1> QED BY <1>1, <1>2, <1>3

(* The list holds every generation once, and the newer ones first.         *)
LEMMA Sorted ==
  ASSUME NEW S \in SUBSET Nat, IsFiniteSet(S)
  PROVE  /\ NewestFirst(S) \in [1 .. Cardinality(S) -> S]
         /\ \A i \in 1 .. Cardinality(S) : Cardinality(Newer(S, NewestFirst(S)[i])) = i - 1
         /\ \A t \in S : \E i \in 1 .. Cardinality(S) : NewestFirst(S)[i] = t
         /\ \A i, j \in 1 .. Cardinality(S) : j < i <=> NewestFirst(S)[j] > NewestFirst(S)[i]
<1> DEFINE n == Cardinality(S)
           rank(t) == Cardinality(Newer(S, t))
           sq == NewestFirst(S)
           r == [t \in S |-> rank(t)]
<1>1. n \in Nat /\ (\A t \in S : rank(t) \in 0 .. n - 1) /\ \A t, u \in S : t < u => rank(u) < rank(t)
  BY Ranks
<1> HIDE DEF rank, n
<1>2. \A t, u \in S : rank(t) = rank(u) => t = u
  <2> SUFFICES ASSUME NEW t \in S, NEW u \in S, rank(t) = rank(u), t # u PROVE FALSE
    OBVIOUS
  <2>1. t < u \/ u < t
    OBVIOUS
  <2>2. rank(t) \in Nat /\ rank(u) \in Nat
    BY <1>1
  <2> QED BY <1>1, <2>1, <2>2
<1>3. r \in Surjection(S, 0 .. n - 1)
  <2>1. r \in [S -> 0 .. n - 1] /\ \A t, u \in S : r[t] = r[u] => t = u
    BY <1>1, <1>2
  <2>2. r \in Injection(S, 0 .. n - 1)
    BY <2>1 DEF Injection, IsInjective
  <2>3. IsFiniteSet(0 .. n - 1) /\ Cardinality(0 .. n - 1) = n
    <3>1. 0 \in Int /\ n - 1 \in Int
      BY <1>1
    <3>2. IsFiniteSet(0 .. n - 1) /\ Cardinality(0 .. n - 1) = IF 0 > n - 1 THEN 0 ELSE n - 1 - 0 + 1
      BY <3>1, FS_Interval
    <3> QED BY <1>1, <3>2
  <2> HIDE DEF r
  <2> QED BY <2>2, <2>3, FS_Injection DEF n
<1>4. ASSUME NEW i \in 1 .. n PROVE sq[i] \in S /\ rank(sq[i]) = i - 1
  <2>1. i - 1 \in 0 .. n - 1
    BY <1>1
  <2>2. \E t \in S : rank(t) = i - 1
    BY <1>3, <2>1 DEF Surjection
  <2>3. sq[i] = CHOOSE t \in S : rank(t) = i - 1
    BY DEF NewestFirst, rank, n, Newer
  <2> HIDE DEF sq
  <2> QED BY <2>2, <2>3
<1>5. sq \in [1 .. n -> S]
  <2> DEFINE At(i) == CHOOSE t \in S : Cardinality({u \in S : u > t}) = i - 1
  <2>1. sq = [i \in 1 .. n |-> At(i)]
    BY DEF NewestFirst, n
  <2> HIDE DEF sq, At
  <2> QED BY <1>4, <2>1
<1> HIDE DEF sq, r
<1>6. ASSUME NEW t \in S PROVE \E i \in 1 .. n : sq[i] = t
  <2>1. rank(t) + 1 \in 1 .. n /\ rank(t) \in Nat
    BY <1>1
  <2>2. sq[rank(t) + 1] \in S /\ rank(sq[rank(t) + 1]) = rank(t)
    BY <1>4, <2>1
  <2>3. sq[rank(t) + 1] = t
    BY <1>2, <2>2
  <2> QED BY <2>1, <2>3
<1>7. ASSUME NEW i \in 1 .. n, NEW j \in 1 .. n PROVE j < i <=> sq[j] > sq[i]
  <2>1. sq[i] \in Nat /\ sq[j] \in Nat /\ sq[i] \in S /\ sq[j] \in S
    BY <1>4
  <2>2. rank(sq[i]) = i - 1 /\ rank(sq[j]) = j - 1
    BY <1>4
  <2>3. sq[i] < sq[j] => j - 1 < i - 1
    BY <1>1, <2>1, <2>2
  <2>4. sq[j] < sq[i] => i - 1 < j - 1
    BY <1>1, <2>1, <2>2
  <2>5. sq[i] = sq[j] => i - 1 = j - 1
    BY <2>2
  <2>6. i \in Int /\ j \in Int
    OBVIOUS
  <2> QED BY <2>1, <2>3, <2>4, <2>5, <2>6
<1> QED BY <1>4, <1>5, <1>6, <1>7 DEF n, sq, rank

(* "last" keeps the generations with fewer than that many newer ones.      *)
LEMMA LastIs ==
  ASSUME NEW S \in SUBSET Nat, IsFiniteSet(S), NEW limit \in Nat
  PROVE  KeptByLast(S, limit) = {t \in S : Cardinality(Newer(S, t)) < limit}
<1> DEFINE n == Cardinality(S)
           sq == NewestFirst(S)
<1>1. n \in Nat
  BY FS_CardinalityType
<1>2. /\ \A i \in 1 .. n : sq[i] \in S /\ Cardinality(Newer(S, sq[i])) = i - 1
      /\ \A t \in S : \E i \in 1 .. n : sq[i] = t
  BY Sorted
<1> HIDE DEF n, sq
<1>3. \A i \in Int : i \in 1 .. Smaller(limit, n) <=> i \in 1 .. n /\ i - 1 < limit
  BY <1>1 DEF Smaller
<1>4. {sq[i] : i \in 1 .. Smaller(limit, n)} = {t \in S : Cardinality(Newer(S, t)) < limit}
  <2>1. ASSUME NEW i \in 1 .. Smaller(limit, n)
        PROVE  sq[i] \in S /\ Cardinality(Newer(S, sq[i])) < limit
    <3>1. i \in 1 .. n /\ i - 1 < limit
      BY <1>3
    <3> QED BY <1>2, <3>1
  <2>2. ASSUME NEW t \in S, Cardinality(Newer(S, t)) < limit
        PROVE  \E i \in 1 .. Smaller(limit, n) : sq[i] = t
    <3>1. PICK i \in 1 .. n : sq[i] = t
      BY <1>2
    <3>2. i - 1 < limit
      BY <1>2, <2>2, <3>1
    <3>3. i \in 1 .. Smaller(limit, n)
      BY <1>3, <3>2
    <3> QED BY <3>1, <3>3
  <2> QED BY <2>1, <2>2
<1> QED BY <1>4 DEF KeptByLast, n, sq

(* t is the last of its bucket, and its bucket one of the count latest.    *)
LastOf(S, t, period, count) ==
  /\ \A u \in S : u > t => BucketKey(u, period) # BucketKey(t, period)
  /\ Cardinality({BucketKey(u, period) : u \in {v \in S : v > t}}) < count

(* A period keeps the last generation of each of its most recent buckets.  *)
LEMMA PeriodIs ==
  ASSUME NEW S \in SUBSET Nat, IsFiniteSet(S), NEW period \in Periods, NEW count \in Nat
  PROVE  KeptByPeriod(S, period, count) = {t \in S : LastOf(S, t, period, count)}
<1> DEFINE n == Cardinality(S)
           sq == NewestFirst(S)
           key == BucketsOf(sq, period)
           Keys(t) == {BucketKey(u, period) : u \in {v \in S : v > t}}
           Stays(t) == BucketKey(t, period) \notin Keys(t) /\ Cardinality(Keys(t)) < count
<1>1. n \in Nat /\ DOMAIN sq = 1 .. n
  BY FS_CardinalityType, Sorted
<1>2. /\ \A i \in 1 .. n : sq[i] \in S
      /\ \A t \in S : \E i \in 1 .. n : sq[i] = t
      /\ \A i, j \in 1 .. n : j < i <=> sq[j] > sq[i]
  BY Sorted
<1>3. KeptByPeriod(S, period, count) = {sq[i] : i \in Chosen(key, count, 1 .. n)}
  BY <1>1, WalkIs DEF Walked
<1> HIDE DEF n, sq
<1>4. ASSUME NEW i \in 1 .. n PROVE i \in Chosen(key, count, 1 .. n) <=> Stays(sq[i])
  <2>1. Before(1 .. n, i) = {j \in 1 .. n : sq[j] > sq[i]}
    BY <1>2 DEF Before
  <2>2. \A j \in 1 .. n : key[j] = BucketKey(sq[j], period)
    BY <1>1 DEF BucketsOf
  <2>3. Buckets(key, Before(1 .. n, i)) = Keys(sq[i])
    <3>1. Buckets(key, Before(1 .. n, i)) = {BucketKey(sq[j], period) : j \in {j \in 1 .. n : sq[j] > sq[i]}}
      BY <2>1, <2>2 DEF Buckets
    <3>2. ASSUME NEW v \in S, v > sq[i] PROVE \E j \in 1 .. n : sq[j] > sq[i] /\ sq[j] = v
      BY <1>2, <3>2
    <3> QED BY <1>2, <3>1, <3>2
  <2> HIDE DEF key, Keys
  <2> QED BY <2>2, <2>3 DEF Chosen
<1>5. \A t \in S : Stays(t) <=> LastOf(S, t, period, count)
  BY DEF LastOf
<1> HIDE DEF key, Stays
<1>6. {sq[i] : i \in Chosen(key, count, 1 .. n)} = {t \in S : Stays(t)}
  <2>1. Chosen(key, count, 1 .. n) \subseteq 1 .. n
    BY DEF Chosen
  <2> QED BY <1>2, <1>4, <2>1
<1> QED BY <1>3, <1>5, <1>6

(* The newest is the one nothing is newer than.                            *)
LEMMA NewestOfAll ==
  ASSUME NEW S \in SUBSET Nat, S # {}, IsFiniteSet(S)
  PROVE  {Newest(S)} = {t \in S : \A u \in S : u <= t}
<1> DEFINE n == Cardinality(S)
           sq == NewestFirst(S)
<1>1. n \in Nat
  BY FS_CardinalityType
<1>2. /\ \A i \in 1 .. n : sq[i] \in S
      /\ \A t \in S : \E i \in 1 .. n : sq[i] = t
      /\ \A i, j \in 1 .. n : j < i <=> sq[j] > sq[i]
  BY Sorted
<1> HIDE DEF n, sq
<1>3. 1 \in 1 .. n
  <2>1. \E i \in 1 .. n : TRUE
    BY <1>2
  <2> QED BY <1>1, <2>1
<1>4. sq[1] \in S /\ sq[1] \in Nat
  BY <1>2, <1>3
<1>5. ASSUME NEW t \in S PROVE t <= sq[1]
  <2>1. PICK i \in 1 .. n : sq[i] = t
    BY <1>2
  <2>2. 1 < i => sq[1] > sq[i]
    BY <1>2, <1>3
  <2>3. i = 1 \/ 1 < i
    BY <1>1
  <2> QED BY <1>4, <2>1, <2>2, <2>3
<1>6. Newest(S) \in S /\ \A u \in S : u <= Newest(S)
  BY <1>4, <1>5, NewestIs
<1> DEFINE newest == Newest(S)
<1> HIDE DEF newest
<1>7. ASSUME NEW t \in S, \A u \in S : u <= t PROVE t = newest
  <2>1. newest <= t /\ t <= newest
    BY <1>6, <1>7 DEF newest
  <2>2. t \in Nat /\ newest \in Nat
    BY <1>6 DEF newest
  <2> QED BY <2>1, <2>2
<1>8. newest \in S /\ \A u \in S : u <= newest
  BY <1>6 DEF newest
<1>9. {newest} = {t \in S : \A u \in S : u <= t}
  BY <1>7, <1>8
<1> QED BY <1>9 DEF newest

(* The generations with a reason, for any list and any rules.              *)
LEMMA KeptIsRefKept ==
  ASSUME NEW S \in SUBSET Nat, S # {}, IsFiniteSet(S), NEW rules \in Policy, NEW pinned
  PROVE  Kept(S, pinned, rules) = RefKept(S, pinned, rules)
<1>1. rules["last"] \in Nat /\ \A period \in Periods : rules[period] \in Nat
  BY DEF Policy, Periods
<1>2. KeptByLast(S, rules["last"]) = {t \in S : Cardinality({u \in S : u > t}) < rules["last"]}
  BY <1>1, LastIs DEF Newer
<1>3. \A period \in Periods :
        KeptByPeriod(S, period, rules[period]) = {t \in S : LastOf(S, t, period, rules[period])}
  BY <1>1, PeriodIs
<1>4. {Newest(S)} = {t \in S : \A u \in S : u <= t}
  BY NewestOfAll
<1> DEFINE NoneNewer(t) == \A u \in S : u <= t
           AmongLast(t) == Cardinality({u \in S : u > t}) < rules["last"]
<1>5. RefKept(S, pinned, rules)
        = {t \in S : \/ t \in pinned \/ NoneNewer(t) \/ AmongLast(t)
                     \/ \E period \in Periods : LastOf(S, t, period, rules[period])}
  BY DEF RefKept, LastOf
<1>6. Kept(S, pinned, rules)
        = (S \cap pinned) \cup {t \in S : NoneNewer(t)} \cup {t \in S : AmongLast(t)}
            \cup UNION {KeptByPeriod(S, period, rules[period]) : period \in Periods}
  BY <1>2, <1>4 DEF Kept
<1> HIDE DEF NoneNewer, AmongLast
<1> QED BY <1>3, <1>5, <1>6

(* snapshots.py:192-237: the walk of plan_retention - newest first, a set  *)
(* of buckets seen, the limit tested before a generation is kept - keeps   *)
(* what restic's forget promises, for every finite set of generations,     *)
(* every policy and every set of pins.                                     *)
THEOREM PlanMatchesResticAlways == Spec => []PlanMatchesRestic
<1>1. PlanMatchesRestic
  <2> SUFFICES ASSUME NEW S \in (SUBSET Sample) \ {{}}, NEW rules \in CheckedPolicies, NEW pinned
               PROVE  Kept(S, pinned, rules) = RefKept(S, pinned, rules)
    BY DEF PlanMatchesRestic
  <2>1. S \in SUBSET Nat /\ S # {} /\ rules \in Policy
    <3>1. Sample \subseteq Nat /\ CheckedPolicies \subseteq Policy
      BY GenerationsAssumption
    <3> QED BY <3>1
  <2>2. IsFiniteSet(S)
    BY GenerationsAssumption, FS_Subset
  <2> QED BY <2>1, <2>2, KeptIsRefKept
<1> QED BY <1>1, PTL
=============================================================================
