---------------------------- MODULE HandoffProofs ----------------------------
(***************************************************************************)
(* HelperInv and HandoffInv hold for any number of runs, codes, devices    *)
(* and requests. Behind them stand two inductive invariants: WindowInv     *)
(* ties the buttons, the queue and the workers together, ServerInv the     *)
(* codes, the requests under way and what they stored. The first is needed *)
(* for the second only where a request is answered.                        *)
(***************************************************************************)
EXTENDS Handoff, FiniteSetTheorems, WellFoundedInduction, TLAPS

-----------------------------------------------------------------------------
(* The helper's side.                                                      *)

Kinds == {"pair", "diagnose", "capture"}
Pcs == Device \cup {"sent", "done", "stop", "report", "ended"}
PcsOf(kind) ==
  CASE kind = "pair" -> {"find", "talk", "sent", "done", "ended"}
    [] kind = "capture" -> {"find", "talk", "done", "stop", "report", "ended"}
    [] kind = "diagnose" -> Probes \cup {"find", "join", "done", "ended"}
WorkerRecords ==
  [kind : Kinds, pc : Pcs, over : {"usb", "wifi"},
   holds : SUBSET {"lockdown", "log", "service", "heartbeat"}, cut : BOOLEAN]
Messages == [kind : {"buttons", "stop", "report", "copy"}, of : Nat]

(* What a worker holds open at each step of its way.                       *)
HeldAt(pc) ==
  (IF pc \in Probes \cup {"talk"} THEN {"lockdown"} ELSE {})
    \cup (IF pc \in Probes \ {"control"} THEN {"log"} ELSE {})
    \cup (IF pc \in {"encrypt", "hello"} THEN {"service"} ELSE {})
    \cup (IF pc \in {"heartbeat", "beating"} THEN {"heartbeat"} ELSE {})

(* A worker that has not yet given the buttons back.                       *)
Active(r) == r \in Runs /\ workers[r].pc \in Device \cup {"sent", "done", "stop"}
(* A capture that has not yet put its "stop" message.                      *)
Capturing(r) == r \in Runs /\ workers[r].kind = "capture" /\ workers[r].pc \in Device \cup {"done"}
(* A diagnose or a capture that has not yet put its report.                *)
Reporting(r) == r \in Runs /\ workers[r].kind # "pair" /\ workers[r].pc # "ended"

Shapes ==
  /\ ui \in [busy : BOOLEAN, stop : BOOLEAN, copy : BOOLEAN, report : 0 .. Len(workers)]
  /\ workers \in Seq(WorkerRecords)
  /\ uiQueue \in Seq(Messages)
  /\ \A i \in DOMAIN uiQueue : uiQueue[i].of \in Runs
  /\ latest \in 0 .. Len(workers)
  /\ stopped \subseteq Runs
  /\ overlapped \in BOOLEAN

(* A worker is on the way of its kind and holds what its place there says. *)
OnItsWay(worker) ==
  /\ worker.pc \in PcsOf(worker.kind)
  /\ worker.pc \in Device => worker.holds = HeldAt(worker.pc)
  /\ worker.pc \notin Device => worker.holds \subseteq (IF worker.cut THEN {"service"} ELSE {})
  /\ worker.pc \in {"heartbeat", "beating"} => worker.over = "wifi"
OnTheirWay == \A r \in Runs : OnItsWay(workers[r])

(* While a worker is active the buttons are disabled and no message will   *)
(* enable them; there is at most one such worker.                          *)
ButtonsHeld ==
  /\ \A r \in Runs : Active(r) => ui.busy /\ ~Queued("buttons")
  /\ \A r, s \in Runs : Active(r) /\ Active(s) => r = s
  /\ ~ui.busy => ~Queued("buttons") /\ ~Queued("stop")

(* The Stop button belongs to the capture started last.                    *)
StopHeld ==
  /\ \A r \in Runs : Capturing(r) => ui.stop /\ ~Queued("stop")
  /\ ui.stop => /\ Len(workers) \in Runs /\ workers[Len(workers)].kind = "capture"
                /\ Capturing(Len(workers)) \/ Queued("stop")

(* Reports on the way are of the run started last.                         *)
ReportsHeld ==
  ~overlapped =>
    /\ \A i \in DOMAIN uiQueue : uiQueue[i].kind = "report" => uiQueue[i].of = latest
    /\ Queued("copy") => Queued("report")
    /\ ui.copy => ui.report = latest
    /\ \A r \in Runs : Reporting(r) => r = latest

WindowInv == Shapes /\ OnTheirWay /\ ButtonsHeld /\ StopHeld /\ ReportsHeld

-----------------------------------------------------------------------------
(* The server's side.                                                      *)

CodeRecords == [state : {"none", "open", "used"}, expired : BOOLEAN, udid : Devices \cup {None}]
PostRecords ==
  [pc : {"sent", "reading", "insert", "mark", "ended"}, from : Nat, code : Codes,
   device : Devices, inTime : BOOLEAN]
Handled(p) == p \in Posts /\ posts[p].pc \in Handling

Kept ==
  /\ codes \in [Codes -> CodeRecords]
  /\ rows \subseteq Devices /\ records \subseteq Devices /\ creating \subseteq Codes
  /\ posts \in Seq(PostRecords)
  /\ failures \in 0 .. FreeAttempts
  /\ removal \in {NoRemoval} \cup [device : Devices, pc : {"record"}]
  /\ accepted \in [Codes -> SUBSET Devices]
  /\ crossed \in BOOLEAN

(* Only one request is between two awaits.                                 *)
OneHandled == \A p, q \in Posts : Handled(p) /\ Handled(q) => p = q

(* A code is created once, comes with a request only then, and names a     *)
(* device only when it was used.                                           *)
CodesInv ==
  /\ \A c \in Codes : /\ c \in creating => codes[c].state = "none"
                      /\ codes[c].udid # None => codes[c].state = "used"
  /\ \A p \in Posts : codes[posts[p].code].state # "none"

(* How far a code is used while the process lives.                         *)
UsesInv ==
  "webkill" \notin happened =>
    /\ \A p \in Posts :
         /\ posts[p].pc = "insert" => codes[posts[p].code].state = "open" /\ accepted[posts[p].code] = {}
         /\ posts[p].pc = "mark" => accepted[posts[p].code] = {posts[p].device}
    /\ \A c \in Codes :
         /\ accepted[c] = {} \/ \E d \in Devices : accepted[c] = {d}
         /\ \/ codes[c].state = "used" \/ accepted[c] = {}
            \/ \E p \in Posts : posts[p].pc = "mark" /\ posts[p].code = c

(* Nobody removes the device a hand-off is adding.                         *)
RecordsInv ==
  ~crossed =>
    /\ rows \subseteq records
    /\ \A p \in Posts : posts[p].pc = "insert" => posts[p].device \in records
    /\ removal.pc = "record" => removal.device \notin rows /\ ~InLoop

ServerInv == Kept /\ OneHandled /\ CodesInv /\ UsesInv /\ RecordsInv
-----------------------------------------------------------------------------
(* Steps of the helper's workers.                                          *)

(* What is on the queue after `messages` were put.                         *)
LEMMA Putting ==
  ASSUME NEW messages \in Seq(Messages), uiQueue \in Seq(Messages), Put(messages)
  PROVE  /\ uiQueue' \in Seq(Messages)
         /\ \A i \in DOMAIN uiQueue : i \in DOMAIN uiQueue' /\ uiQueue'[i] = uiQueue[i]
         /\ \A j \in DOMAIN messages : \E i \in DOMAIN uiQueue' : uiQueue'[i] = messages[j]
         /\ \A i \in DOMAIN uiQueue' :
              \/ i \in DOMAIN uiQueue /\ uiQueue'[i] = uiQueue[i]
              \/ \E j \in DOMAIN messages : uiQueue'[i] = messages[j]
<1> DEFINE m == Len(uiQueue)
           n == Len(messages)
<1>1. /\ uiQueue' \in Seq(Messages) /\ Len(uiQueue') = m + n /\ m \in Nat /\ n \in Nat
      /\ \A i \in 1 .. m + n : uiQueue'[i] = IF i <= m THEN uiQueue[i] ELSE messages[i - m]
  BY DEF Put
<1>2. DOMAIN uiQueue = 1 .. m /\ DOMAIN messages = 1 .. n /\ DOMAIN uiQueue' = 1 .. m + n
  BY <1>1
<1> HIDE DEF m, n
<1>3. ASSUME NEW j \in 1 .. n
      PROVE  \E i \in 1 .. m + n : uiQueue'[i] = messages[j]
  <2>1. j + m \in 1 .. m + n /\ ~(j + m <= m) /\ (j + m) - m = j
    BY <1>1
  <2>2. uiQueue'[j + m] = messages[j]
    BY <1>1, <2>1
  <2> QED BY <2>1, <2>2
<1>4. \A i \in 1 .. m + n : i <= m \/ i - m \in 1 .. n
  BY <1>1
<1>5. \A i \in 1 .. m : i \in 1 .. m + n /\ uiQueue'[i] = uiQueue[i]
  BY <1>1
<1>6. ASSUME NEW i \in 1 .. m + n
      PROVE  (i \in 1 .. m /\ uiQueue'[i] = uiQueue[i]) \/ \E j \in 1 .. n : uiQueue'[i] = messages[j]
  <2>1. CASE i <= m
    BY <1>1, <1>5, <2>1
  <2>2. CASE ~(i <= m)
    BY <1>1, <1>4, <2>2
  <2> QED BY <2>1, <2>2
<1> QED BY <1>1, <1>2, <1>3, <1>5, <1>6

(* A worker's step: it goes to pc, the others stay, and the main thread's  *)
(* variables as well.                                                      *)
GoneTo(r, pc) ==
  /\ workers' \in Seq(WorkerRecords) /\ Len(workers') = Len(workers)
  /\ \A s \in Runs : s # r => workers'[s] = workers[s]
  /\ workers'[r].kind = workers[r].kind /\ workers'[r].pc = pc
  /\ OnItsWay(workers'[r])
  /\ UNCHANGED <<ui, stopped, latest, overlapped>>

(* What GoesHolding does to a worker.                                      *)
LEMMA Going ==
  ASSUME workers \in Seq(WorkerRecords), NEW r \in Runs, NEW pc \in Pcs,
         NEW holds \in SUBSET {"lockdown", "log", "service", "heartbeat"}, GoesHolding(r, pc, holds)
  PROVE  /\ workers' \in Seq(WorkerRecords) /\ Len(workers') = Len(workers)
         /\ \A s \in Runs : s # r => workers'[s] = workers[s]
         /\ workers'[r].kind = workers[r].kind /\ workers'[r].pc = pc /\ workers'[r].holds = holds
         /\ workers'[r].over = workers[r].over /\ workers'[r].cut = workers[r].cut
<1> DEFINE w == [workers[r] EXCEPT !.pc = pc, !.holds = holds]
<1>1. workers[r] \in WorkerRecords /\ DOMAIN workers = Runs
  BY DEF Runs
<1>2. /\ w \in WorkerRecords /\ w.kind = workers[r].kind /\ w.pc = pc /\ w.holds = holds
      /\ w.over = workers[r].over /\ w.cut = workers[r].cut
  BY <1>1 DEF WorkerRecords
<1>3. workers' = [workers EXCEPT ![r] = w]
  BY <1>1 DEF GoesHolding
<1> HIDE DEF w
<1>4. workers' \in Seq(WorkerRecords) /\ Len(workers') = Len(workers) /\ workers'[r] = w
  BY <1>2, <1>3 DEF Runs
<1>5. \A s \in Runs : s # r => workers'[s] = workers[s]
  BY <1>1, <1>3
<1> QED BY <1>2, <1>4, <1>5

LEMMA GoingOn ==
  ASSUME workers \in Seq(WorkerRecords), NEW r \in Runs, NEW pc \in Pcs, Goes(r, pc)
  PROVE  /\ workers' \in Seq(WorkerRecords) /\ Len(workers') = Len(workers)
         /\ \A s \in Runs : s # r => workers'[s] = workers[s]
         /\ workers'[r].kind = workers[r].kind /\ workers'[r].pc = pc /\ workers'[r].holds = workers[r].holds
         /\ workers'[r].over = workers[r].over /\ workers'[r].cut = workers[r].cut
<1> DEFINE w == [workers[r] EXCEPT !.pc = pc]
<1>1. workers[r] \in WorkerRecords /\ DOMAIN workers = Runs
  BY DEF Runs
<1>2. /\ w \in WorkerRecords /\ w.kind = workers[r].kind /\ w.pc = pc /\ w.holds = workers[r].holds
      /\ w.over = workers[r].over /\ w.cut = workers[r].cut
  BY <1>1 DEF WorkerRecords
<1>3. workers' = [workers EXCEPT ![r] = w]
  BY <1>1 DEF Goes
<1> HIDE DEF w
<1>4. workers' \in Seq(WorkerRecords) /\ Len(workers') = Len(workers) /\ workers'[r] = w
  BY <1>2, <1>3 DEF Runs
<1>5. \A s \in Runs : s # r => workers'[s] = workers[s]
  BY <1>1, <1>3
<1> QED BY <1>2, <1>4, <1>5

(* A step before the worker has done with the device puts nothing.         *)
Quiet(r) ==
  /\ workers[r].pc \in Device /\ uiQueue' = uiQueue
  /\ \E pc \in Device \cup {"sent", "done"} :
       GoneTo(r, pc) /\ (workers[r].kind = "capture" => pc # "sent")

LEMMA Searching ==
  ASSUME Shapes, OnTheirWay, NEW r \in Runs, Finds(r) \/ Captures(r)
  PROVE  Quiet(r)
<1> USE DEF Device, Probes, Pcs
<1>1. workers \in Seq(WorkerRecords) /\ workers[r] \in WorkerRecords /\ OnItsWay(workers[r])
  BY DEF Shapes, OnTheirWay, Runs
<1>2. /\ workers[r].pc \in {"find", "talk"} /\ workers[r].kind \in {"pair", "capture"}
      /\ UNCHANGED <<ui, stopped, uiQueue, latest, overlapped>>
  BY DEF Finds, Captures, At
<1>3. workers[r].pc = "find" => workers[r].holds = {}
  BY <1>1, Zenon DEF OnItsWay, HeldAt
<1>4. CASE workers[r].pc = "find" /\ Goes(r, "done")
  <2>1. OnItsWay(workers'[r])
    BY <1>1, <1>2, <1>3, <1>4, GoingOn DEF OnItsWay, PcsOf
  <2> QED BY <1>1, <1>2, <1>4, <2>1, GoingOn DEF Quiet, GoneTo
<1>5. CASE workers[r].pc = "find" /\ GoesHolding(r, "talk", {"lockdown"})
  <2>1. HeldAt("talk") = {"lockdown"}
    BY DEF HeldAt
  <2>2. /\ workers' \in Seq(WorkerRecords) /\ Len(workers') = Len(workers)
        /\ \A s \in Runs : s # r => workers'[s] = workers[s]
        /\ workers'[r].kind = workers[r].kind /\ workers'[r].pc = "talk" /\ workers'[r].holds = {"lockdown"}
    BY <1>1, <1>5, Going
  <2>3. OnItsWay(workers'[r])
    BY <1>2, <2>1, <2>2 DEF OnItsWay, PcsOf
  <2>4. GoneTo(r, "talk")
    BY <1>2, <2>2, <2>3 DEF GoneTo
  <2> QED BY <1>2, <1>5, <2>4 DEF Quiet
<1>6. CASE GoesHolding(r, "done", {})
  <2>1. OnItsWay(workers'[r])
    BY <1>1, <1>2, <1>6, Going DEF OnItsWay, PcsOf
  <2> QED BY <1>1, <1>2, <1>6, <2>1, Going DEF Quiet, GoneTo
<1> QED BY <1>4, <1>5, <1>6 DEF Finds, Captures, At

LEMMA Probing ==
  ASSUME Shapes, OnTheirWay, NEW r \in Runs, Diagnoses(r)
  PROVE  Quiet(r)
<1> USE DEF Device, Probes, Pcs
<1>0. workers \in Seq(WorkerRecords) /\ workers[r] \in WorkerRecords /\ OnItsWay(workers[r])
  BY DEF Shapes, OnTheirWay, Runs
<1>1. /\ workers \in Seq(WorkerRecords) /\ workers[r] \in WorkerRecords /\ OnItsWay(workers[r])
      /\ workers[r].holds \in SUBSET {"lockdown", "log", "service", "heartbeat"}
  BY <1>0 DEF WorkerRecords
<1>2. /\ workers[r].pc \in Device /\ workers[r].kind = "diagnose"
      /\ UNCHANGED <<ui, stopped, uiQueue, latest, overlapped>>
  BY DEF Diagnoses, FindUsb, ProbeControl, StartService, AskWillEncrypt, Hello, HelloStripped,
         AwaitMarco, HelloBeating, CollectLog, JoinWifi, CutOff, Diagnosing, At
<1>3. workers[r].holds = HeldAt(workers[r].pc)
  BY <1>1, <1>2 DEF OnItsWay
<1>4. /\ HeldAt("find") = {} /\ HeldAt("join") = {} /\ HeldAt("control") = {"lockdown"}
      /\ \A pc \in {"service", "stripped", "log"} : HeldAt(pc) = {"lockdown", "log"}
      /\ \A pc \in {"encrypt", "hello"} : HeldAt(pc) = {"lockdown", "log", "service"}
      /\ \A pc \in {"heartbeat", "beating"} : HeldAt(pc) = {"lockdown", "log", "heartbeat"}
  BY DEF HeldAt
<1>5. ASSUME NEW pc \in (Probes \cup {"find", "join", "done"}), Goes(r, pc),
             pc = "done" => workers[r].holds = {}, pc # "done" => workers[r].holds = HeldAt(pc),
             pc \in {"heartbeat", "beating"} => workers[r].over = "wifi"
      PROVE  Quiet(r)
  <2>1. OnItsWay(workers'[r])
    BY <1>1, <1>2, <1>5, GoingOn DEF OnItsWay, PcsOf
  <2> QED BY <1>1, <1>2, <1>5, <2>1, GoingOn DEF Quiet, GoneTo
<1>6. ASSUME NEW pc \in (Probes \cup {"find", "join", "done"}), NEW holds, GoesHolding(r, pc, holds),
             pc = "done" => holds = {}, pc # "done" => holds = HeldAt(pc),
             pc \in {"heartbeat", "beating"} => workers[r].over = "wifi"
      PROVE  Quiet(r)
  <2>0. holds \in SUBSET {"lockdown", "log", "service", "heartbeat"}
    BY <1>6 DEF HeldAt
  <2>1. OnItsWay(workers'[r])
    BY <1>1, <1>2, <1>6, <2>0, Going DEF OnItsWay, PcsOf
  <2> QED BY <1>1, <1>2, <1>6, <2>0, <2>1, Going DEF Quiet, GoneTo
<1>7. CASE FindUsb(r)
  BY <1>3, <1>4, <1>5, <1>6, <1>7 DEF FindUsb, Diagnosing, At
<1>8. CASE ProbeControl(r)
  BY <1>3, <1>4, <1>6, <1>8 DEF ProbeControl, Diagnosing, At, Holds
<1>9. CASE StartService(r)
  BY <1>3, <1>4, <1>5, <1>6, <1>9 DEF StartService, Diagnosing, At, Holds
<1>10. CASE AskWillEncrypt(r)
  BY <1>3, <1>4, <1>5, <1>10 DEF AskWillEncrypt, Diagnosing, At
<1>11. CASE Hello(r)
  BY <1>3, <1>4, <1>6, <1>11 DEF Hello, Diagnosing, At, Holds
<1>12. CASE HelloStripped(r)
  BY <1>3, <1>4, <1>5, <1>6, <1>12 DEF HelloStripped, Diagnosing, At, Holds
<1>13. CASE AwaitMarco(r)
  <2>1. workers[r].over = "wifi"
    BY <1>1, <1>13 DEF OnItsWay, AwaitMarco, Diagnosing, At
  <2> QED BY <1>3, <1>4, <1>5, <1>13, <2>1 DEF AwaitMarco, Diagnosing, At
<1>14. CASE HelloBeating(r)
  BY <1>3, <1>4, <1>6, <1>14 DEF HelloBeating, Diagnosing, At, Holds
<1>15. CASE CollectLog(r)
  BY <1>3, <1>4, <1>6, <1>15 DEF CollectLog, Diagnosing, At, Holds
<1>16. CASE JoinWifi(r)
  <2>1. workers[r].pc = "join" /\ workers[r].holds = {}
    BY <1>3, <1>4, <1>16 DEF JoinWifi, Diagnosing, At
  <2>2. CASE Goes(r, "done")
    BY <1>5, <2>1, <2>2
  <2>3. CASE workers' = [workers EXCEPT ![r].pc = "control", ![r].over = "wifi", ![r].holds = @ \cup {"lockdown"}]
    <3> DEFINE w == [workers[r] EXCEPT !.pc = "control", !.over = "wifi", !.holds = @ \cup {"lockdown"}]
    <3>1. /\ w \in WorkerRecords /\ w.kind = "diagnose" /\ w.pc = "control" /\ w.over = "wifi"
          /\ w.holds = {"lockdown"}
      BY <1>1, <1>2, <2>1 DEF WorkerRecords
    <3>2. workers' = [workers EXCEPT ![r] = w]
      BY <1>1, <2>3
    <3>3. OnItsWay(w)
      BY <1>4, <3>1 DEF OnItsWay, PcsOf
    <3> HIDE DEF w
    <3>4. workers' \in Seq(WorkerRecords) /\ Len(workers') = Len(workers) /\ workers'[r] = w
      BY <1>1, <3>1, <3>2 DEF Runs
    <3>5. \A s \in Runs : s # r => workers'[s] = workers[s]
      BY <1>1, <3>2 DEF Runs
    <3> QED BY <1>2, <3>1, <3>3, <3>4, <3>5 DEF Quiet, GoneTo
  <2> QED BY <1>16, <2>2, <2>3 DEF JoinWifi
<1>17. CASE CutOff(r)
  <2> DEFINE w == [workers[r] EXCEPT !.pc = "done", !.cut = TRUE, !.holds = @ \cap {"service"}]
  <2>1. /\ w \in WorkerRecords /\ w.kind = "diagnose" /\ w.pc = "done" /\ w.cut = TRUE
        /\ w.holds \subseteq {"service"}
    BY <1>1, <1>2 DEF WorkerRecords
  <2>2. workers' = [workers EXCEPT ![r] = w]
    BY <1>1, <1>17 DEF CutOff
  <2>3. OnItsWay(w)
    BY <2>1 DEF OnItsWay, PcsOf
  <2> HIDE DEF w
  <2>4. workers' \in Seq(WorkerRecords) /\ Len(workers') = Len(workers) /\ workers'[r] = w
    BY <1>1, <2>1, <2>2 DEF Runs
  <2>5. \A s \in Runs : s # r => workers'[s] = workers[s]
    BY <1>1, <2>2 DEF Runs
  <2> QED BY <1>2, <2>1, <2>3, <2>4, <2>5 DEF Quiet, GoneTo
<1> QED BY <1>7, <1>8, <1>9, <1>10, <1>11, <1>12, <1>13, <1>14, <1>15, <1>16, <1>17 DEF Diagnoses

-----------------------------------------------------------------------------
(* What such a step does to the queue: the messages of run r that it adds  *)
(* are of the given kinds.                                                 *)
Adds(r, added) ==
  /\ uiQueue' \in Seq(Messages)
  /\ \A i \in DOMAIN uiQueue : i \in DOMAIN uiQueue' /\ uiQueue'[i] = uiQueue[i]
  /\ \A kind \in added : \E i \in DOMAIN uiQueue' : uiQueue'[i].kind = kind
  /\ \A i \in DOMAIN uiQueue' :
       \/ i \in DOMAIN uiQueue /\ uiQueue'[i] = uiQueue[i]
       \/ uiQueue'[i].kind \in added /\ uiQueue'[i].of = r

(* A worker that steps from one place to another puts what belongs to it:  *)
(* nothing after "buttons" uses the device, "stop" comes from the capture  *)
(* that ran, and a report is put by the one that reports.                  *)
Proper(r, from, pc, added) ==
  /\ pc \in Device \cup {"sent", "done", "stop"} =>
       from \in Device \cup {"sent", "done", "stop"} /\ "buttons" \notin added
  /\ {"buttons", "stop"} \cap added # {} => from \in Device \cup {"sent", "done", "stop"}
  /\ "stop" \in added => workers[r].kind = "capture"
  /\ workers[r].kind = "capture" =>
       (pc \in Device \cup {"done"} <=> from \in Device \cup {"done"} /\ "stop" \notin added)
  /\ pc # "ended" => from # "ended"
  /\ "report" \in added => workers[r].kind # "pair" /\ from # "ended"
  /\ "copy" \in added => "report" \in added

LEMMA WorkersKeep ==
  ASSUME WindowInv, NEW r \in Runs, NEW pc, NEW added,
         GoneTo(r, pc), Adds(r, added), Proper(r, workers[r].pc, pc, added)
  PROVE  WindowInv'
<1>1. Runs' = Runs /\ Len(workers') = Len(workers) /\ UNCHANGED <<ui, stopped, latest, overlapped>>
  BY DEF GoneTo, Runs
<1>2. \A s \in Runs : workers'[s].kind = workers[s].kind /\ (s # r => workers'[s] = workers[s])
  BY DEF GoneTo
<1>3. workers'[r].pc = pc
  BY DEF GoneTo
<1>4. \A kind : Queued(kind)' <=> (Queued(kind) \/ kind \in added)
  BY DEF Adds, Queued
<1>5. Shapes'
  <2>1. \A i \in DOMAIN uiQueue' : uiQueue'[i].of \in Runs
    BY DEF WindowInv, Shapes, Adds
  <2> QED BY <1>1, <2>1 DEF WindowInv, Shapes, GoneTo, Adds
<1>6. OnTheirWay'
  <2>1. \A s \in Runs : OnItsWay(workers'[s])
    BY <1>2 DEF WindowInv, OnTheirWay, GoneTo
  <2> QED BY <1>1, <2>1 DEF OnTheirWay
<1>7. \A s \in Runs : Active(s)' => Active(s) /\ (s = r => "buttons" \notin added)
  BY <1>1, <1>2, <1>3 DEF Active, Proper
<1>8. ("buttons" \in added \/ "stop" \in added) => Active(r)
  BY DEF Active, Proper
<1>9. ButtonsHeld'
  <2>1. \A s \in Runs : Active(s)' => ui.busy /\ ~Queued("buttons")'
    BY <1>4, <1>7, <1>8 DEF WindowInv, ButtonsHeld
  <2>2. \A s, t \in Runs : Active(s)' /\ Active(t)' => s = t
    BY <1>7 DEF WindowInv, ButtonsHeld
  <2>3. ~ui.busy => ~Queued("buttons")' /\ ~Queued("stop")'
    BY <1>4, <1>8 DEF WindowInv, ButtonsHeld
  <2> QED BY <1>1, <2>1, <2>2, <2>3 DEF ButtonsHeld
<1>10. \A s \in Runs : Capturing(s) => Active(s)
  BY DEF Capturing, Active
<1>11. "stop" \in added => Capturing(r)' = FALSE /\ workers[r].kind = "capture"
  BY <1>1, <1>2, <1>3 DEF Capturing, Proper
<1>12. \A s \in Runs : Capturing(s)' => Capturing(s)
  BY <1>1, <1>2, <1>3 DEF Capturing, Proper
<1>13. \A s \in Runs : Capturing(s) => Capturing(s)' \/ "stop" \in added
  BY <1>1, <1>2, <1>3 DEF Capturing, Proper
<1>14. StopHeld'
  <2>1. ASSUME NEW s \in Runs, Capturing(s)'
        PROVE  ui.stop /\ ~Queued("stop")'
    <3>1. Capturing(s) /\ Active(s)
      BY <1>10, <1>12, <2>1
    <3>2. "stop" \notin added
      BY <1>8, <1>11, <2>1, <3>1 DEF WindowInv, ButtonsHeld
    <3> QED BY <1>4, <3>1, <3>2 DEF WindowInv, StopHeld
  <2>2. ui.stop => /\ Len(workers) \in Runs /\ workers[Len(workers)].kind = "capture"
                   /\ Capturing(Len(workers)) \/ Queued("stop")
    BY DEF WindowInv, StopHeld
  <2>3. ASSUME NEW l \in Runs, l = Len(workers), ui.stop
        PROVE  workers'[l].kind = "capture" /\ (Capturing(l)' \/ Queued("stop")')
    BY <1>2, <1>4, <1>13, <2>2, <2>3
  <2>4. ui.stop => /\ Len(workers') \in Runs' /\ workers'[Len(workers')].kind = "capture"
                   /\ Capturing(Len(workers))' \/ Queued("stop")'
    BY <1>1, <2>2, <2>3 DEF Capturing
  <2> QED BY <1>1, <2>1, <2>4 DEF StopHeld
<1>15. \A s \in Runs : Reporting(s)' => Reporting(s)
  BY <1>1, <1>2, <1>3 DEF Reporting, Proper
<1>16. "report" \in added => Reporting(r)
  BY DEF Reporting, Proper
<1>17. ReportsHeld'
  <2> SUFFICES ASSUME ~overlapped
               PROVE  /\ \A i \in DOMAIN uiQueue' : uiQueue'[i].kind = "report" => uiQueue'[i].of = latest
                      /\ Queued("copy")' => Queued("report")'
                      /\ ui.copy => ui.report = latest
                      /\ \A s \in Runs : Reporting(s)' => s = latest
    BY <1>1 DEF ReportsHeld
  <2>1. ASSUME NEW i \in DOMAIN uiQueue', uiQueue'[i].kind = "report"
        PROVE  uiQueue'[i].of = latest
    BY <1>16, <2>1 DEF WindowInv, ReportsHeld, Adds
  <2>2. Queued("copy")' => Queued("report")'
    BY <1>4 DEF WindowInv, ReportsHeld, Proper
  <2> QED BY <1>15, <2>1, <2>2 DEF WindowInv, ReportsHeld
<1> QED BY <1>5, <1>6, <1>9, <1>14, <1>17 DEF WindowInv

-----------------------------------------------------------------------------
(* Every step of a worker is one of those.                                 *)

LEMMA Added ==
  ASSUME Shapes, NEW r \in Runs
  PROVE  /\ \A kind \in {"buttons", "stop"} : Put(<<Message(kind, r)>>) => Adds(r, {kind})
         /\ Put(<<Message("report", r), Message("copy", r)>>) => Adds(r, {"report", "copy"})
         /\ Put(<<Message("report", r), Message("copy", r), Message("buttons", r)>>)
              => Adds(r, {"report", "copy", "buttons"})
<1>1. uiQueue \in Seq(Messages) /\ r \in Nat
  BY DEF Shapes, Runs
<1>2. \A kind \in {"buttons", "stop", "report", "copy"} :
        Message(kind, r) \in Messages /\ Message(kind, r).kind = kind /\ Message(kind, r).of = r
  BY <1>1 DEF Message, Messages
<1>3. ASSUME NEW kind \in {"buttons", "stop"}, Put(<<Message(kind, r)>>)
      PROVE  Adds(r, {kind})
  <2> DEFINE m == <<Message(kind, r)>>
  <2>1. m \in Seq(Messages) /\ DOMAIN m = 1 .. 1 /\ m[1] = Message(kind, r)
    BY <1>2
  <2>2. Put(m)
    BY <1>3
  <2> HIDE DEF m
  <2> QED BY <1>1, <1>2, <2>1, <2>2, Putting DEF Adds
<1>4. ASSUME Put(<<Message("report", r), Message("copy", r)>>)
      PROVE  Adds(r, {"report", "copy"})
  <2> DEFINE m == <<Message("report", r), Message("copy", r)>>
  <2>1. m \in Seq(Messages) /\ DOMAIN m = 1 .. 2 /\ m[1] = Message("report", r) /\ m[2] = Message("copy", r)
    BY <1>2
  <2>2. Put(m)
    BY <1>4
  <2>3. /\ m[1].kind = "report" /\ m[2].kind = "copy"
        /\ \A j \in DOMAIN m : m[j].kind \in {"report", "copy"} /\ m[j].of = r
    BY <1>2, <2>1
  <2>4. 1 \in DOMAIN m /\ 2 \in DOMAIN m
    BY <2>1
  <2> HIDE DEF m
  <2>5. \A kind \in {"report", "copy"} : \E j \in DOMAIN m : m[j].kind = kind
    BY <2>3, <2>4
  <2>6. /\ uiQueue' \in Seq(Messages)
        /\ \A i \in DOMAIN uiQueue : i \in DOMAIN uiQueue' /\ uiQueue'[i] = uiQueue[i]
        /\ \A j \in DOMAIN m : \E i \in DOMAIN uiQueue' : uiQueue'[i] = m[j]
        /\ \A i \in DOMAIN uiQueue' :
             \/ i \in DOMAIN uiQueue /\ uiQueue'[i] = uiQueue[i]
             \/ \E j \in DOMAIN m : uiQueue'[i] = m[j]
    BY <1>1, <2>1, <2>2, Putting
  <2> QED BY <2>3, <2>5, <2>6 DEF Adds
<1>5. ASSUME Put(<<Message("report", r), Message("copy", r), Message("buttons", r)>>)
      PROVE  Adds(r, {"report", "copy", "buttons"})
  <2> DEFINE m == <<Message("report", r), Message("copy", r), Message("buttons", r)>>
  <2>1. /\ m \in Seq(Messages) /\ DOMAIN m = 1 .. 3
        /\ m[1] = Message("report", r) /\ m[2] = Message("copy", r) /\ m[3] = Message("buttons", r)
    BY <1>2
  <2>2. Put(m)
    BY <1>5
  <2>3. /\ m[1].kind = "report" /\ m[2].kind = "copy" /\ m[3].kind = "buttons"
        /\ \A j \in DOMAIN m : m[j].kind \in {"report", "copy", "buttons"} /\ m[j].of = r
    BY <1>2, <2>1
  <2>4. 1 \in DOMAIN m /\ 2 \in DOMAIN m /\ 3 \in DOMAIN m
    BY <2>1
  <2> HIDE DEF m
  <2>5. \A kind \in {"report", "copy", "buttons"} : \E j \in DOMAIN m : m[j].kind = kind
    BY <2>3, <2>4
  <2>6. /\ uiQueue' \in Seq(Messages)
        /\ \A i \in DOMAIN uiQueue : i \in DOMAIN uiQueue' /\ uiQueue'[i] = uiQueue[i]
        /\ \A j \in DOMAIN m : \E i \in DOMAIN uiQueue' : uiQueue'[i] = m[j]
        /\ \A i \in DOMAIN uiQueue' :
             \/ i \in DOMAIN uiQueue /\ uiQueue'[i] = uiQueue[i]
             \/ \E j \in DOMAIN m : uiQueue'[i] = m[j]
    BY <1>1, <2>1, <2>2, Putting
  <2> QED BY <2>3, <2>5, <2>6 DEF Adds
<1> QED BY <1>3, <1>4, <1>5

LEMMA QuietKeeps ==
  ASSUME WindowInv, NEW r \in Runs, Quiet(r)
  PROVE  WindowInv'
<1>1. PICK pc \in Device \cup {"sent", "done"} : GoneTo(r, pc) /\ (workers[r].kind = "capture" => pc # "sent")
  BY DEF Quiet
<1>2. Adds(r, {})
  BY DEF WindowInv, Shapes, Quiet, Adds
<1>3. Proper(r, workers[r].pc, pc, {})
  BY <1>1 DEF Quiet, Proper, Device, Probes
<1> QED BY <1>1, <1>2, <1>3, WorkersKeep

LEMMA EndingKeeps ==
  ASSUME WindowInv, NEW r \in Runs, DiagnoseEnds(r) \/ CaptureEnds(r) \/ CaptureReports(r)
  PROVE  WindowInv'
<1> USE DEF Device, Probes, Pcs
<1>1. /\ Shapes /\ workers \in Seq(WorkerRecords) /\ workers[r] \in WorkerRecords /\ OnItsWay(workers[r])
  BY DEF WindowInv, Shapes, OnTheirWay, Runs
<1>2. workers[r].pc \in {"done", "stop", "report"}
  BY DEF DiagnoseEnds, CaptureEnds, CaptureReports, At
<1>3. UNCHANGED <<ui, stopped, latest, overlapped>>
  BY DEF DiagnoseEnds, CaptureEnds, CaptureReports
<1>4. ASSUME NEW pc \in {"stop", "report", "ended"}, Goes(r, pc), pc \in PcsOf(workers[r].kind)
      PROVE  GoneTo(r, pc)
  <2>1. OnItsWay(workers'[r])
    BY <1>1, <1>2, <1>4, GoingOn DEF OnItsWay
  <2> QED BY <1>1, <1>3, <1>4, <2>1, GoingOn DEF GoneTo
<1>5. CASE DiagnoseEnds(r)
  <2>1. workers[r].kind = "diagnose" /\ workers[r].pc = "done" /\ GoneTo(r, "ended")
    BY <1>4, <1>5 DEF DiagnoseEnds, At, PcsOf
  <2>2. Proper(r, "done", "ended", {"report", "copy", "buttons"}) /\ Proper(r, "done", "ended", {"buttons"})
    BY <2>1 DEF Proper
  <2>3. Adds(r, {"report", "copy", "buttons"}) \/ Adds(r, {"buttons"})
    BY <1>1, <1>5, Added DEF DiagnoseEnds
  <2> QED BY <2>1, <2>2, <2>3, WorkersKeep
<1>6. CASE CaptureEnds(r)
  <2>1. CASE At(r, "capture", "done") /\ Goes(r, "stop") /\ Put(<<Message("stop", r)>>)
    <3>1. GoneTo(r, "stop") /\ Proper(r, workers[r].pc, "stop", {"stop"}) /\ Adds(r, {"stop"})
      BY <1>1, <1>4, <2>1, Added DEF At, PcsOf, Proper
    <3> QED BY <3>1, WorkersKeep
  <2>2. CASE At(r, "capture", "stop") /\ Goes(r, "report") /\ Put(<<Message("buttons", r)>>)
    <3>1. GoneTo(r, "report") /\ Proper(r, workers[r].pc, "report", {"buttons"}) /\ Adds(r, {"buttons"})
      BY <1>1, <1>4, <2>2, Added DEF At, PcsOf, Proper
    <3> QED BY <3>1, WorkersKeep
  <2> QED BY <1>6, <2>1, <2>2 DEF CaptureEnds
<1>7. CASE CaptureReports(r)
  <2>1. /\ GoneTo(r, "ended") /\ Proper(r, workers[r].pc, "ended", {"report", "copy"})
        /\ Adds(r, {"report", "copy"})
    BY <1>1, <1>4, <1>7, Added DEF CaptureReports, At, PcsOf, Proper
  <2> QED BY <2>1, WorkersKeep
<1> QED BY <1>5, <1>6, <1>7

(* The two steps of a pair worker that Handoff takes.                      *)
LEMMA PairKeeps ==
  ASSUME WindowInv, NEW r \in Runs, workers[r].kind = "pair", workers[r].pc \in {"talk", "done", "sent"},
         \/ PairEnds(r, "failed") \/ PairEnds(r, "paired")
         \/ /\ workers[r].pc = "talk" /\ GoesHolding(r, "sent", {})
            /\ UNCHANGED <<ui, stopped, uiQueue, latest, overlapped>>
  PROVE  WindowInv'
<1> USE DEF Device, Probes, Pcs
<1>1. /\ Shapes /\ workers \in Seq(WorkerRecords) /\ workers[r] \in WorkerRecords
      /\ UNCHANGED <<ui, stopped, latest, overlapped>>
  BY DEF WindowInv, Shapes, Runs, PairEnds
<1>2. ASSUME NEW pc \in {"sent", "ended"}, GoesHolding(r, pc, {})
      PROVE  GoneTo(r, pc)
  <2>1. OnItsWay(workers'[r])
    BY <1>1, <1>2, Going DEF OnItsWay, PcsOf
  <2> QED BY <1>1, <1>2, <2>1, Going DEF GoneTo
<1>3. CASE PairEnds(r, "failed") \/ PairEnds(r, "paired")
  <2>1. GoneTo(r, "ended") /\ Adds(r, {"buttons"}) /\ Proper(r, workers[r].pc, "ended", {"buttons"})
    BY <1>1, <1>2, <1>3, Added DEF PairEnds, Proper
  <2> QED BY <2>1, WorkersKeep
<1>4. CASE /\ workers[r].pc = "talk" /\ GoesHolding(r, "sent", {})
           /\ UNCHANGED <<ui, stopped, uiQueue, latest, overlapped>>
  <2>1. Quiet(r)
    BY <1>2, <1>4 DEF Quiet
  <2> QED BY <2>1, QuietKeeps
<1> QED BY <1>3, <1>4

-----------------------------------------------------------------------------
(* The main thread.                                                        *)

(* The new worker n is the only one that is active.                        *)
LEMMA Starting ==
  ASSUME WindowInv, NEW kind \in Kinds, Started(kind), NEW n, n = Len(workers) + 1
  PROVE  /\ workers' \in Seq(WorkerRecords) /\ Len(workers') = n /\ Runs' = Runs \cup {n} /\ n \notin Runs
         /\ \A r \in Runs : workers'[r] = workers[r]
         /\ workers'[n].kind = kind /\ workers'[n].pc = "find" /\ OnItsWay(workers'[n])
         /\ \A r \in Runs : ~Active(r)
         /\ ~ui.stop /\ ~Queued("buttons") /\ ~Queued("stop")
         /\ ~overlapped' => /\ ~overlapped /\ ~Queued("report") /\ ~Queued("copy")
                            /\ \A r \in Runs : ~Reporting(r)
<1>1. /\ workers \in Seq(WorkerRecords) /\ ~ui.busy /\ overlapped \in BOOLEAN /\ uiQueue' = uiQueue
      /\ workers' = Append(workers, Worker(kind))
  BY DEF WindowInv, Shapes, Started
<1> DEFINE w == Worker(kind)
<1>2. w \in WorkerRecords /\ w.kind = kind /\ w.pc = "find" /\ OnItsWay(w)
  BY DEF Worker, WorkerRecords, OnItsWay, PcsOf, Kinds, Pcs, HeldAt, Device, Probes
<1> HIDE DEF w
<1>3. /\ workers' \in Seq(WorkerRecords) /\ Len(workers') = n /\ Runs' = Runs \cup {n} /\ n \notin Runs
      /\ workers'[n] = w /\ \A r \in Runs : workers'[r] = workers[r]
  <2>1. Append(workers, w) \in Seq(WorkerRecords) /\ Len(Append(workers, w)) = n /\ Len(workers) \in Nat
    BY <1>1, <1>2
  <2>2. Append(workers, w)[n] = w /\ \A r \in 1 .. Len(workers) : Append(workers, w)[r] = workers[r]
    BY <1>1, <1>2
  <2>3. workers' = Append(workers, w)
    BY <1>1 DEF w
  <2>4. 1 .. n = (1 .. Len(workers)) \cup {n} /\ n \notin 1 .. Len(workers)
    BY <2>1
  <2> QED BY <2>1, <2>2, <2>3, <2>4 DEF Runs
<1>4. \A r \in Runs : ~Active(r)
  BY <1>1 DEF WindowInv, ButtonsHeld
<1>5. ~Queued("buttons") /\ ~Queued("stop")
  BY <1>1 DEF WindowInv, ButtonsHeld
<1>6. ~ui.stop
  BY <1>4, <1>5 DEF WindowInv, StopHeld, Capturing, Active
<1>7. ~overlapped' => /\ ~overlapped /\ ~Queued("report")
                      /\ \A r \in Runs : ~At(r, "capture", "report")
  BY <1>1 DEF Started
<1>8. ~overlapped' => ~Queued("copy")
  BY <1>7 DEF WindowInv, ReportsHeld
<1>9. ASSUME ~overlapped', NEW r \in Runs, Reporting(r)
      PROVE  FALSE
  <2>1. workers[r] \in WorkerRecords /\ OnItsWay(workers[r])
    BY <1>1 DEF WindowInv, OnTheirWay, Runs
  <2>2. workers[r].kind \in {"diagnose", "capture"} /\ workers[r].pc \in {"report", "ended"}
    BY <1>4, <1>9, <2>1 DEF Reporting, Active, WorkerRecords, Kinds, Pcs
  <2>3. workers[r].pc = "report" /\ workers[r].kind = "capture"
    BY <1>9, <2>1, <2>2 DEF Reporting, OnItsWay, PcsOf, Device, Probes
  <2> QED BY <1>7, <1>9, <2>3 DEF At
<1> QED BY <1>2, <1>3, <1>4, <1>5, <1>6, <1>7, <1>8, <1>9

LEMMA ClicksKeep ==
  ASSUME WindowInv, Click
  PROVE  WindowInv'
<1>1. CASE ClickStop
  <2>1. UNCHANGED <<ui, workers, uiQueue, latest, overlapped>>
    BY <1>1 DEF ClickStop
  <2>2. Len(workers) \in Runs /\ workers[Len(workers)].kind = "capture" /\ Len(workers) \in Nat
    BY <1>1 DEF ClickStop, WindowInv, StopHeld, Shapes
  <2>3. \A r \in Runs : r <= Len(workers)
    BY <2>2 DEF Runs
  <2> DEFINE captures == {r \in Runs : workers[r].kind = "capture"}
  <2>4. \E r \in captures : \A s \in captures : s <= r
    BY <2>2, <2>3
  <2>5. (CHOOSE r \in captures : \A s \in captures : s <= r) \in captures
    BY <2>4
  <2>6. stopped' \subseteq Runs
    BY <1>1, <2>5 DEF ClickStop, WindowInv, Shapes
  <2> QED BY <2>1, <2>6 DEF WindowInv, Shapes, OnTheirWay, ButtonsHeld, StopHeld, ReportsHeld, Runs, Active,
                           Capturing, Reporting, Queued
<1>2. ASSUME NEW kind \in Kinds, Started(kind), ui'.busy = TRUE,
             ui' \in [busy : BOOLEAN, stop : BOOLEAN, copy : BOOLEAN, report : 0 .. Len(workers)],
             kind = "capture" => ui'.stop = TRUE, kind # "capture" => ui'.stop = ui.stop,
             kind = "pair" => latest' = latest /\ ui'.copy = ui.copy /\ ui'.report = ui.report,
             kind # "pair" => latest' = Len(workers) + 1 /\ ui'.copy = FALSE
      PROVE  WindowInv'
  <2>0. PICK n : n = Len(workers) + 1
    OBVIOUS
  <2>1. /\ workers' \in Seq(WorkerRecords) /\ Len(workers') = n /\ Runs' = Runs \cup {n} /\ n \notin Runs
        /\ \A r \in Runs : workers'[r] = workers[r]
        /\ workers'[n].kind = kind /\ workers'[n].pc = "find" /\ OnItsWay(workers'[n])
    BY <1>2, <2>0, Starting
  <2>2. \A r \in Runs : ~Active(r)
    BY <1>2, <2>0, Starting
  <2>3. ~ui.stop /\ ~Queued("buttons") /\ ~Queued("stop")
    BY <1>2, <2>0, Starting
  <2>4. ~overlapped' => /\ ~overlapped /\ ~Queued("report") /\ ~Queued("copy")
                        /\ \A r \in Runs : ~Reporting(r)
    BY <1>2, <2>0, Starting
  <2>5. UNCHANGED <<stopped, uiQueue>> /\ overlapped' \in BOOLEAN
    BY <1>2 DEF Started, WindowInv, Shapes
  <2>6. Shapes /\ Len(workers) \in Nat /\ n \in Nat /\ Len(workers) <= n
    BY <2>0 DEF WindowInv, Shapes
  <2>7. 0 .. Len(workers) \subseteq 0 .. n /\ n \in 0 .. n
    BY <2>6
  <2>8. Shapes'
    <3>1. ui' \in [busy : BOOLEAN, stop : BOOLEAN, copy : BOOLEAN, report : 0 .. Len(workers')]
      BY <1>2, <2>1, <2>7
    <3>2. latest' \in 0 .. Len(workers')
      BY <1>2, <2>0, <2>1, <2>6, <2>7 DEF Shapes
    <3> QED BY <2>1, <2>5, <2>6, <3>1, <3>2 DEF Shapes
  <2>9. OnTheirWay'
    BY <2>1 DEF WindowInv, OnTheirWay
  <2>10. \A k : Queued(k)' <=> Queued(k)
    BY <2>5 DEF Queued
  <2>11. \A r \in Runs' : Active(r)' => r = n
    BY <2>1, <2>2 DEF Active
  <2>12. ButtonsHeld'
    BY <1>2, <2>3, <2>10, <2>11 DEF ButtonsHeld
  <2>13. StopHeld'
    <3>1. \A r \in Runs' : Capturing(r)' => kind = "capture"
      <4>1. \A r \in Runs : ~Capturing(r)
        BY <2>2 DEF Capturing, Active
      <4> QED BY <2>1, <4>1 DEF Capturing
    <3>2. kind = "capture" => Capturing(n)'
      BY <2>1 DEF Capturing, Device
    <3>3. ui'.stop => kind = "capture"
      BY <1>2, <2>3
    <3>4. ui'.stop => Len(workers') \in Runs' /\ workers'[Len(workers')].kind = "capture" /\ Capturing(Len(workers))'
      BY <2>1, <3>2, <3>3 DEF Capturing
    <3> QED BY <1>2, <2>3, <2>10, <3>1, <3>4 DEF StopHeld
  <2>14. ReportsHeld'
    <3> SUFFICES ASSUME ~overlapped'
                 PROVE  /\ \A i \in DOMAIN uiQueue : uiQueue[i].kind = "report" => uiQueue[i].of = latest'
                        /\ Queued("copy") => Queued("report")
                        /\ ui'.copy => ui'.report = latest'
                        /\ \A r \in Runs' : Reporting(r)' => r = latest'
      BY <2>5, <2>10 DEF ReportsHeld
    <3>1. \A i \in DOMAIN uiQueue : uiQueue[i].kind # "report"
      BY <2>4 DEF Queued
    <3>2. ui'.copy => ui'.report = latest'
      BY <1>2, <2>4 DEF WindowInv, ReportsHeld
    <3>3. \A r \in Runs' : Reporting(r)' => r = n /\ kind # "pair"
      BY <2>1, <2>4 DEF Reporting
    <3> QED BY <1>2, <2>0, <2>4, <3>1, <3>2, <3>3
  <2> QED BY <2>8, <2>9, <2>12, <2>13, <2>14 DEF WindowInv
<1>3. ui \in [busy : BOOLEAN, stop : BOOLEAN, copy : BOOLEAN, report : 0 .. Len(workers)] /\ Len(workers) \in Nat
  BY DEF WindowInv, Shapes
<1>4. CASE ClickPair
  BY <1>2, <1>3, <1>4 DEF ClickPair, Kinds
<1>5. CASE ClickDiagnose
  <2>1. ui' = [ui EXCEPT !.busy = TRUE, !.copy = FALSE, !.report = 0] /\ Started("diagnose") /\ latest' = Len(workers) + 1
    BY <1>5 DEF ClickDiagnose
  <2>2. ui' \in [busy : BOOLEAN, stop : BOOLEAN, copy : BOOLEAN, report : 0 .. Len(workers)]
    <3>1. 0 \in 0 .. Len(workers)
      BY <1>3
    <3> QED BY <1>3, <2>1, <3>1, Zenon
  <2>3. ui'.busy = TRUE /\ ui'.stop = ui.stop /\ ui'.copy = FALSE
    BY <1>3, <2>1
  <2> QED BY <1>2, <2>1, <2>2, <2>3 DEF Kinds
<1>6. CASE ClickCapture
  BY <1>2, <1>3, <1>6 DEF ClickCapture, Kinds
<1> QED BY <1>1, <1>4, <1>5, <1>6 DEF Click

LEMMA LessIsWellFounded == IsWellFoundedOn({ss \in Nat \X Nat : ss[1] < ss[2]}, Nat)
BY NatLessThanWellFounded DEF OpToRel

(* Among the reports of the queue there is a last one.                     *)
LEMMA LastOfQueue ==
  ASSUME Shapes, Queued("report")
  PROVE  \E i \in DOMAIN uiQueue : uiQueue[i].kind = "report" /\ LastReport = uiQueue[i].of
<1> DEFINE reports == {i \in DOMAIN uiQueue : uiQueue[i].kind = "report"}
           n == Len(uiQueue)
           mirrored == {j \in Nat : \E i \in reports : j = n - i}
<1>1. n \in Nat /\ DOMAIN uiQueue = 1 .. n /\ reports # {}
  BY DEF Shapes, Queued
<1>2. \A i \in reports : i \in 1 .. n
  BY <1>1
<1> HIDE DEF n, reports
<1>3. \A i \in reports : n - i \in mirrored
  BY <1>1, <1>2
<1>4. mirrored \subseteq Nat /\ mirrored # {}
  BY <1>1, <1>3
<1> DEFINE Less == {ss \in Nat \X Nat : ss[1] < ss[2]}
<1>5. IsWellFoundedOn(Less, Nat)
  BY LessIsWellFounded
<1>6. PICK j \in mirrored : \A k \in mirrored : ~(<<k, j>> \in Less)
  <2> HIDE DEF Less, mirrored
  <2> QED BY <1>4, <1>5, WFMin
<1>7. PICK i \in reports : j = n - i
  OBVIOUS
<1>8. ASSUME NEW k \in reports PROVE k <= i
  <2>1. n - k \in mirrored /\ n - k \in Nat /\ j \in Nat
    BY <1>3
  <2>2. ~(n - k < j)
    BY <1>6, <2>1
  <2> QED BY <1>1, <1>2, <1>7, <2>1, <2>2
<1> DEFINE last == CHOOSE l \in reports : \A k \in reports : k <= l
<1>9. last \in reports
  BY <1>7, <1>8
<1>10. LastReport = uiQueue[last].of
  BY DEF LastReport, reports
<1> HIDE DEF last
<1> QED BY <1>9, <1>10 DEF reports

(* A poll shows everything that was put and leaves nothing.                *)
LEMMA PollKeeps ==
  ASSUME WindowInv, PollQueue
  PROVE  WindowInv'
<1>1. /\ UNCHANGED <<workers, stopped, latest, overlapped>> /\ uiQueue' = <<>>
      /\ ui' = [busy |-> ui.busy /\ ~Queued("buttons"), stop |-> ui.stop /\ ~Queued("stop"),
                copy |-> ui.copy \/ Queued("copy"),
                report |-> IF Queued("report") THEN LastReport ELSE ui.report]
  BY DEF PollQueue
<1>2. Shapes /\ Runs' = Runs /\ Runs \subseteq 0 .. Len(workers)
  BY <1>1 DEF WindowInv, Shapes, Runs
<1>3. \A k : ~Queued(k)'
  BY <1>1 DEF Queued
<1>4. ui' \in [busy : BOOLEAN, stop : BOOLEAN, copy : BOOLEAN, report : 0 .. Len(workers)]
  <2>1. (IF Queued("report") THEN LastReport ELSE ui.report) \in 0 .. Len(workers)
    BY <1>2, LastOfQueue DEF Shapes
  <2> QED BY <1>1, <1>2, <2>1 DEF Shapes
<1>5. /\ ui'.busy = (ui.busy /\ ~Queued("buttons")) /\ ui'.stop = (ui.stop /\ ~Queued("stop"))
      /\ ui'.copy = (ui.copy \/ Queued("copy"))
      /\ ui'.report = IF Queued("report") THEN LastReport ELSE ui.report
  BY <1>1
<1>6. Shapes'
  <2>1. uiQueue' \in Seq(Messages) /\ DOMAIN uiQueue' = {}
    BY <1>1
  <2> QED BY <1>1, <1>2, <1>4, <2>1 DEF Shapes
<1>7. OnTheirWay'
  BY <1>1, <1>2 DEF WindowInv, OnTheirWay
<1>8. \A r \in Runs : Active(r)' = Active(r) /\ Capturing(r)' = Capturing(r) /\ Reporting(r)' = Reporting(r)
  BY <1>1, <1>2 DEF Active, Capturing, Reporting
<1>9. ButtonsHeld'
  BY <1>2, <1>3, <1>5, <1>8 DEF WindowInv, ButtonsHeld
<1>10. StopHeld'
  <2>1. \A r \in Runs : Capturing(r) => ui'.stop
    BY <1>5 DEF WindowInv, StopHeld
  <2>2. ui'.stop => Len(workers) \in Runs /\ workers[Len(workers)].kind = "capture" /\ Capturing(Len(workers))
    BY <1>5 DEF WindowInv, StopHeld
  <2>3. ui'.stop => Capturing(Len(workers))'
    BY <1>1, <1>2, <2>2 DEF Capturing
  <2> QED BY <1>1, <1>2, <1>3, <1>8, <2>1, <2>2, <2>3 DEF StopHeld
<1>11. ReportsHeld'
  <2>1. ~overlapped => (Queued("report") => LastReport = latest)
    BY <1>2, LastOfQueue DEF WindowInv, ReportsHeld
  <2>2. ~overlapped => (ui'.copy => ui'.report = latest)
    BY <1>5, <2>1 DEF WindowInv, ReportsHeld
  <2>3. DOMAIN uiQueue' = {}
    BY <1>1
  <2> QED BY <1>1, <1>2, <1>3, <1>8, <2>2, <2>3 DEF WindowInv, ReportsHeld
<1> QED BY <1>6, <1>7, <1>9, <1>10, <1>11 DEF WindowInv

-----------------------------------------------------------------------------
(* Where the server's steps touch the helper.                              *)

LEMMA StutterKeeps ==
  ASSUME WindowInv, UNCHANGED helperVars
  PROVE  WindowInv'
BY DEF WindowInv, Shapes, OnTheirWay, ButtonsHeld, StopHeld, ReportsHeld, Runs, Active, Capturing,
       Reporting, Queued, helperVars

LEMMA AnsweredKeeps ==
  ASSUME WindowInv, NEW p, NEW outcome \in {"failed", "paired"}, Answered(p, outcome)
  PROVE  WindowInv'
<1> DEFINE r == posts[p].from
<1>1. CASE UNCHANGED helperVars
  BY <1>1, StutterKeeps
<1>2. CASE At(r, "pair", "sent") /\ PairEnds(r, outcome)
  BY <1>2, PairKeeps DEF At
<1> QED BY <1>1, <1>2 DEF Answered

LEMMA WindowInvStep ==
  ASSUME WindowInv, [Next]_vars
  PROVE  WindowInv'
<1>1. CASE UNCHANGED vars
  BY <1>1, StutterKeeps DEF vars
<1>2. CASE Click
  BY <1>2, ClicksKeep
<1>3. CASE MainStep
  BY <1>3, PollKeeps DEF MainStep
<1>4. ASSUME NEW r \in Runs, WorkerStep(r)
      PROVE  WindowInv'
  <2>1. Shapes /\ OnTheirWay
    BY DEF WindowInv
  <2> QED BY <1>4, <2>1, Searching, Probing, QuietKeeps, EndingKeeps DEF WorkerStep
<1>5. ASSUME NEW r \in Runs, PairingFails(r) \/ Send(r)
      PROVE  WindowInv'
  BY <1>5, PairKeeps DEF PairingFails, Send, At
<1>6. CASE \E p \in Posts : GivesUp(p)
  BY <1>6, AnsweredKeeps DEF GivesUp
<1>7. CASE ServerStep
  <2> SUFFICES ASSUME NEW p \in Posts, PostBegins(p) \/ PostStores(p) \/ PostInserts(p) \/ PostMarks(p)
               PROVE  WindowInv'
    BY <1>7 DEF ServerStep
  <2>1. UNCHANGED helperVars \/ Answered(p, "failed") \/ Answered(p, "paired")
    BY DEF PostBegins, PostStores, PostInserts, PostMarks
  <2> QED BY <2>1, StutterKeeps, AnsweredKeeps
<1>8. CASE WebKill
  <2>1. CASE UNCHANGED helperVars
    BY <2>1, StutterKeeps
  <2>2. CASE \E r \in Runs : At(r, "pair", "sent") /\ PairEnds(r, "failed")
    BY <2>2, PairKeeps DEF At
  <2> QED BY <1>8, <2>1, <2>2 DEF WebKill
<1>9. CASE \/ ScriptSends \/ (\E c \in Codes : CreateCounts(c) \/ CreateInserts(c) \/ Expire(c))
           \/ (\E d \in Devices : RemoveRows(d)) \/ RemoveRecord
  <2>1. UNCHANGED helperVars
    BY <1>9 DEF ScriptSends, CreateCounts, CreateInserts, Expire, RemoveRows, RemoveRecord
  <2> QED BY <2>1, StutterKeeps
<1> QED BY <1>1, <1>2, <1>3, <1>4, <1>5, <1>6, <1>7, <1>8, <1>9 DEF Next, HelperStep

LEMMA WindowInvAlways == Spec => []WindowInv
<1>1. Init => WindowInv
  <2> SUFFICES ASSUME Init
               PROVE  WindowInv
    OBVIOUS
  <2>1. /\ ui = [busy |-> FALSE, stop |-> FALSE, copy |-> FALSE, report |-> 0]
        /\ workers = <<>> /\ stopped = {} /\ uiQueue = <<>> /\ latest = 0 /\ overlapped = FALSE
    BY DEF Init, HelperInit
  <2>2. Runs = {} /\ DOMAIN uiQueue = {} /\ Len(workers) = 0
    BY <2>1 DEF Runs
  <2>3. workers \in Seq(WorkerRecords) /\ uiQueue \in Seq(Messages)
    BY <2>1
  <2>4. ui \in [busy : BOOLEAN, stop : BOOLEAN, copy : BOOLEAN, report : 0 .. Len(workers)]
    BY <2>1, <2>2
  <2>5. Shapes
    BY <2>1, <2>2, <2>3, <2>4 DEF Shapes
  <2>6. ui.stop = FALSE /\ ui.copy = FALSE
    BY <2>1
  <2> QED BY <2>1, <2>2, <2>5, <2>6 DEF WindowInv, OnTheirWay, ButtonsHeld, StopHeld, ReportsHeld, Queued
<1> QED BY <1>1, WindowInvStep, PTL DEF Spec

(* The helper's window and its workers, for every value of the constants:  *)
(* its buttons give one worker the device, a running capture can be        *)
(* stopped, whatever was opened is closed, and Copy report copies the      *)
(* report of the run started last.                                         *)
THEOREM HelperInvAlways == Spec => []HelperInv
<1>1. ASSUME WindowInv
      PROVE  HelperInv
  <2>1. OneWorkerOnDevice
    BY <1>1 DEF WindowInv, ButtonsHeld, Active, OneWorkerOnDevice
  <2>2. NothingLeftOpen
    BY <1>1 DEF WindowInv, OnTheirWay, OnItsWay, NothingLeftOpen
  <2>3. StopAvailable
    BY <1>1 DEF WindowInv, StopHeld, Capturing, StopAvailable
  <2>4. ReportIsOfLastRun
    BY <1>1 DEF WindowInv, ReportsHeld, ReportIsOfLastRun
  <2> QED BY <2>1, <2>2, <2>3, <2>4 DEF HelperInv
<1> QED BY <1>1, WindowInvAlways, PTL

-----------------------------------------------------------------------------
(* The server: what happens to the requests.                               *)

LEMMA Moving ==
  ASSUME posts \in Seq(PostRecords), NEW p \in Posts,
         NEW pc \in {"sent", "reading", "insert", "mark", "ended"}, Moves(p, pc)
  PROVE  /\ posts' \in Seq(PostRecords) /\ Posts' = Posts
         /\ \A q \in Posts : q # p => posts'[q] = posts[q]
         /\ posts'[p].pc = pc /\ posts'[p].code = posts[p].code /\ posts'[p].device = posts[p].device
<1> DEFINE new == [posts[p] EXCEPT !.pc = pc]
<1>1. posts[p] \in PostRecords /\ DOMAIN posts = Posts
  BY DEF Posts
<1>2. /\ new \in PostRecords /\ new.pc = pc /\ new.code = posts[p].code /\ new.device = posts[p].device
  BY <1>1 DEF PostRecords
<1>3. posts' = [posts EXCEPT ![p] = new]
  BY <1>1 DEF Moves
<1> HIDE DEF new
<1>4. posts' \in Seq(PostRecords) /\ Len(posts') = Len(posts) /\ posts'[p] = new
  BY <1>2, <1>3 DEF Posts
<1>5. \A q \in Posts : q # p => posts'[q] = posts[q]
  BY <1>1, <1>3
<1> QED BY <1>2, <1>4, <1>5 DEF Posts

Begun(p, inTime) == posts' = [posts EXCEPT ![p].pc = "reading", ![p].inTime = inTime]

LEMMA Beginning ==
  ASSUME posts \in Seq(PostRecords), NEW p \in Posts, NEW inTime \in BOOLEAN,
         Begun(p, inTime)
  PROVE  /\ posts' \in Seq(PostRecords) /\ Posts' = Posts
         /\ \A q \in Posts : q # p => posts'[q] = posts[q]
         /\ posts'[p].pc = "reading" /\ posts'[p].code = posts[p].code
<1> DEFINE new == [posts[p] EXCEPT !.pc = "reading", !.inTime = inTime]
<1>1. posts[p] \in PostRecords /\ DOMAIN posts = Posts
  BY DEF Posts
<1>2. new \in PostRecords /\ new.pc = "reading" /\ new.code = posts[p].code
  BY <1>1 DEF PostRecords
<1>3. posts' = [posts EXCEPT ![p] = new]
  BY <1>1 DEF Begun
<1> HIDE DEF new
<1>4. posts' \in Seq(PostRecords) /\ Len(posts') = Len(posts) /\ posts'[p] = new
  BY <1>2, <1>3 DEF Posts
<1>5. \A q \in Posts : q # p => posts'[q] = posts[q]
  BY <1>1, <1>3
<1> QED BY <1>2, <1>4, <1>5 DEF Posts

LEMMA Sending ==
  ASSUME posts \in Seq(PostRecords), NEW from \in Nat, NEW c \in Codes, NEW d \in Devices,
         posts' = Append(posts, Post(from, c, d))
  PROVE  /\ posts' \in Seq(PostRecords) /\ Posts \subseteq Posts'
         /\ \A q \in Posts : posts'[q] = posts[q]
         /\ \A q \in Posts' : q \notin Posts => posts'[q].pc = "sent" /\ posts'[q].code = c
<1> DEFINE new == Post(from, c, d)
           n == Len(posts)
<1>1. new \in PostRecords /\ new.pc = "sent" /\ new.code = c /\ n \in Nat
  BY DEF Post, PostRecords
<1> HIDE DEF new
<1>2. posts' = Append(posts, new)
  BY DEF new
<1>3. posts' \in Seq(PostRecords) /\ Len(posts') = n + 1 /\ posts'[n + 1] = new
  BY <1>1, <1>2
<1>4. \A q \in 1 .. n : posts'[q] = posts[q]
  BY <1>1, <1>2
<1>5. 1 .. n + 1 = (1 .. n) \cup {n + 1}
  BY <1>1
<1> HIDE DEF n
<1> QED BY <1>1, <1>3, <1>4, <1>5 DEF Posts, n

(* Every request under way ends.                                           *)
LEMMA Ending ==
  ASSUME posts \in Seq(PostRecords), posts' = [p \in Posts |-> [posts[p] EXCEPT !.pc = "ended"]]
  PROVE  /\ posts' \in Seq(PostRecords) /\ Posts' = Posts
         /\ \A q \in Posts : posts'[q].pc = "ended" /\ posts'[q].code = posts[q].code
<1>1. Posts = 1 .. Len(posts) /\ Len(posts) \in Nat /\ \A q \in Posts : posts[q] \in PostRecords
  BY DEF Posts
<1>2. \A q \in Posts : /\ [posts[q] EXCEPT !.pc = "ended"] \in PostRecords
                      /\ [posts[q] EXCEPT !.pc = "ended"].pc = "ended"
                      /\ [posts[q] EXCEPT !.pc = "ended"].code = posts[q].code
  BY <1>1 DEF PostRecords
<1>3. posts' \in [1 .. Len(posts) -> PostRecords]
  BY <1>1, <1>2, Zenon
<1>4. posts' \in Seq(PostRecords) /\ Len(posts') = Len(posts)
  BY <1>1, <1>3
<1>5. \A q \in Posts : posts'[q].pc = "ended" /\ posts'[q].code = posts[q].code
  BY <1>2, Zenon
<1> QED BY <1>4, <1>5 DEF Posts

-----------------------------------------------------------------------------
(* The steps that leave the requests and the codes alone.                  *)

LEMMA ServerStutter ==
  ASSUME ServerInv, "webkill" \in happened => "webkill" \in happened',
         UNCHANGED <<codes, rows, records, creating, posts, failures, removal, accepted, crossed>>
  PROVE  ServerInv'
<1>1. Kept'
  BY DEF ServerInv, Kept
<1>2. OneHandled' /\ CodesInv'
  BY DEF ServerInv, OneHandled, CodesInv, Posts, Handled
<1>3. UsesInv'
  BY DEF ServerInv, UsesInv, Posts
<1>4. RecordsInv'
  BY DEF ServerInv, RecordsInv, Posts, InLoop
<1> QED BY <1>1, <1>2, <1>3, <1>4 DEF ServerInv

LEMMA SendingKeeps ==
  ASSUME ServerInv, NEW from \in Nat, NEW c \in Codes, NEW d \in Devices, codes[c].state # "none",
         posts' = Append(posts, Post(from, c, d)),
         UNCHANGED <<codes, rows, records, creating, failures, removal, accepted, crossed, happened>>
  PROVE  ServerInv'
<1> USE DEF Handling
<1>1. posts \in Seq(PostRecords)
  BY DEF ServerInv, Kept
<1>2. /\ posts' \in Seq(PostRecords) /\ Posts \subseteq Posts'
      /\ \A q \in Posts : posts'[q] = posts[q]
      /\ \A q \in Posts' : q \notin Posts => posts'[q].pc = "sent" /\ posts'[q].code = c
  BY <1>1, Sending
<1>3. \A q \in Posts' : Handled(q)' => Handled(q) /\ q \in Posts /\ posts'[q] = posts[q]
  BY <1>2 DEF Handled
<1>4. InLoop' => InLoop
  BY <1>3 DEF InLoop, Handled
<1>5. Kept'
  BY <1>2 DEF ServerInv, Kept
<1>6. OneHandled'
  BY <1>3 DEF ServerInv, OneHandled
<1>7. CodesInv'
  <2>1. ASSUME NEW q \in Posts'
        PROVE  codes'[posts'[q].code].state # "none"
    BY <1>2 DEF ServerInv, CodesInv
  <2> QED BY <2>1 DEF ServerInv, CodesInv
<1>8. UsesInv'
  <2> SUFFICES ASSUME "webkill" \notin happened
               PROVE  /\ \A p \in Posts' :
                           /\ posts'[p].pc = "insert" => codes[posts'[p].code].state = "open" /\ accepted[posts'[p].code] = {}
                           /\ posts'[p].pc = "mark" => accepted[posts'[p].code] = {posts'[p].device}
                      /\ \A e \in Codes :
                           /\ accepted[e] = {} \/ \E f \in Devices : accepted[e] = {f}
                           /\ \/ codes[e].state = "used" \/ accepted[e] = {}
                              \/ \E p \in Posts' : posts'[p].pc = "mark" /\ posts'[p].code = e
    BY DEF UsesInv
  <2>0. /\ \A p \in Posts :
             /\ posts[p].pc = "insert" => codes[posts[p].code].state = "open" /\ accepted[posts[p].code] = {}
             /\ posts[p].pc = "mark" => accepted[posts[p].code] = {posts[p].device}
        /\ \A e \in Codes :
             /\ accepted[e] = {} \/ \E f \in Devices : accepted[e] = {f}
             /\ \/ codes[e].state = "used" \/ accepted[e] = {}
                \/ \E p \in Posts : posts[p].pc = "mark" /\ posts[p].code = e
    BY DEF ServerInv, UsesInv
  <2>1. ASSUME NEW p \in Posts'
        PROVE  /\ posts'[p].pc = "insert" => codes[posts'[p].code].state = "open" /\ accepted[posts'[p].code] = {}
               /\ posts'[p].pc = "mark" => accepted[posts'[p].code] = {posts'[p].device}
    <3>1. p \notin Posts => posts'[p].pc = "sent"
      BY <1>2
    <3>2. p \in Posts => posts'[p] = posts[p]
      BY <1>2
    <3> QED BY <2>0, <3>1, <3>2
  <2>2. ASSUME NEW e \in Codes, NEW p \in Posts, posts[p].pc = "mark", posts[p].code = e
        PROVE  p \in Posts' /\ posts'[p].pc = "mark" /\ posts'[p].code = e
    BY <1>2, <2>2
  <2>3. ASSUME NEW e \in Codes
        PROVE  \/ codes[e].state = "used" \/ accepted[e] = {}
               \/ \E p \in Posts' : posts'[p].pc = "mark" /\ posts'[p].code = e
    <3>1. CASE \E p \in Posts : posts[p].pc = "mark" /\ posts[p].code = e
      <4>1. PICK p \in Posts : posts[p].pc = "mark" /\ posts[p].code = e
        BY <3>1
      <4>2. p \in Posts' /\ posts'[p].pc = "mark" /\ posts'[p].code = e
        BY <2>2, <4>1
      <4> QED BY <4>2
    <3> QED BY <2>0, <3>1
  <2> QED BY <2>0, <2>1, <2>3
<1>9. RecordsInv'
  BY <1>2, <1>4 DEF ServerInv, RecordsInv
<1> QED BY <1>5, <1>6, <1>7, <1>8, <1>9 DEF ServerInv

-----------------------------------------------------------------------------
(* The steps of the Add page and of a removal.                             *)

(* A code that is created or expires was used by nobody before.            *)
LEMMA CodesUses ==
  ASSUME UsesInv, Kept, "webkill" \in happened => "webkill" \in happened', UNCHANGED <<posts, accepted>>,
         \A c \in Codes : \/ codes'[c].state = codes[c].state
                          \/ codes[c].state = "none" /\ codes'[c].state = "open"
  PROVE  UsesInv'
<1>1. ASSUME NEW p \in Posts
      PROVE  posts[p].code \in Codes
  <2>1. posts[p] \in PostRecords
    BY DEF Kept, Posts
  <2> QED BY <2>1 DEF PostRecords
<1>2. Posts' = Posts
  BY DEF Posts
<1> QED BY <1>1, <1>2 DEF UsesInv

LEMMA CodesKeep ==
  ASSUME ServerInv, \E c \in Codes : CreateCounts(c) \/ CreateInserts(c) \/ Expire(c)
  PROVE  ServerInv'
<1>1. PICK c \in Codes : CreateCounts(c) \/ CreateInserts(c) \/ Expire(c)
  OBVIOUS
<1>2. /\ UNCHANGED <<rows, records, posts, failures, removal, accepted, crossed>>
      /\ "webkill" \in happened => "webkill" \in happened'
  BY <1>1 DEF CreateCounts, CreateInserts, Expire, Uses
<1>3. Kept /\ OneHandled /\ CodesInv /\ UsesInv /\ RecordsInv /\ codes \in [Codes -> CodeRecords]
  BY DEF ServerInv, Kept
<1>4. CASE CreateCounts(c)
  <2>1. codes' = codes /\ creating' = creating \cup {c} /\ codes[c].state = "none"
    BY <1>4 DEF CreateCounts
  <2> QED BY <1>2, <1>3, <2>1, CodesUses DEF ServerInv, Kept, OneHandled, CodesInv, RecordsInv, Posts, Handled, InLoop
<1>5. CASE CreateInserts(c)
  <2>1. codes' = [codes EXCEPT ![c].state = "open"] /\ creating' = creating \ {c} /\ codes[c].state = "none"
    BY <1>3, <1>5 DEF CreateInserts, CodesInv
  <2>2. /\ codes' \in [Codes -> CodeRecords] /\ \A e \in Codes : codes'[e].udid = codes[e].udid
        /\ codes'[c].state = "open" /\ \A e \in Codes : e # c => codes'[e] = codes[e]
    BY <1>3, <2>1 DEF CodeRecords
  <2>3. \A e \in Codes : \/ codes'[e].state = codes[e].state
                         \/ codes[e].state = "none" /\ codes'[e].state = "open"
    BY <2>1, <2>2
  <2>4. CodesInv'
    <3>1. \A q \in Posts : codes'[posts[q].code].state # "none"
      <4>1. \A q \in Posts : posts[q] \in PostRecords
        BY <1>3 DEF Kept, Posts
      <4> QED BY <1>3, <2>2, <4>1 DEF CodesInv, PostRecords
    <3> QED BY <1>2, <1>3, <2>1, <2>2, <3>1 DEF CodesInv, Posts
  <2> QED BY <1>2, <1>3, <2>1, <2>2, <2>3, <2>4, CodesUses DEF ServerInv, Kept, OneHandled, RecordsInv, Posts, Handled, InLoop
<1>6. CASE Expire(c)
  <2>1. codes' = [codes EXCEPT ![c].expired = TRUE] /\ creating' = creating
    BY <1>6 DEF Expire
  <2>2. /\ codes' \in [Codes -> CodeRecords]
        /\ \A e \in Codes : codes'[e].udid = codes[e].udid /\ codes'[e].state = codes[e].state
    BY <1>3, <2>1 DEF CodeRecords
  <2>4. CodesInv'
    <3>1. \A q \in Posts : codes'[posts[q].code].state # "none"
      <4>1. \A q \in Posts : posts[q] \in PostRecords
        BY <1>3 DEF Kept, Posts
      <4> QED BY <1>3, <2>2, <4>1 DEF CodesInv, PostRecords
    <3> QED BY <1>2, <1>3, <2>1, <2>2, <3>1 DEF CodesInv, Posts
  <2> QED BY <1>2, <1>3, <2>1, <2>2, <2>4, CodesUses DEF ServerInv, Kept, OneHandled, RecordsInv, Posts, Handled, InLoop
<1> QED BY <1>1, <1>4, <1>5, <1>6

LEMMA RemovalKeeps ==
  ASSUME ServerInv, RemoveRecord \/ \E d \in Devices : RemoveRows(d)
  PROVE  ServerInv'
<1>3. Kept /\ OneHandled /\ CodesInv /\ UsesInv /\ RecordsInv /\ codes \in [Codes -> CodeRecords] /\ rows \subseteq Devices
  BY DEF ServerInv, Kept
<1>4. CASE RemoveRecord
  <2>1. /\ UNCHANGED <<codes, rows, creating, posts, failures, accepted, crossed, happened>>
        /\ removal.pc = "record" /\ records' = records \ {removal.device} /\ removal' = NoRemoval
    BY <1>4 DEF RemoveRecord
  <2>2. UsesInv'
    BY <1>3, <2>1, CodesUses
  <2>3. RecordsInv'
    <3>1. \A p \in Posts : posts[p].pc = "insert" => InLoop
      BY DEF InLoop, Handling
    <3>2. Posts' = Posts
      BY <2>1 DEF Posts
    <3>3. removal'.pc # "record"
      BY <2>1 DEF NoRemoval
    <3> QED BY <1>3, <2>1, <3>1, <3>2, <3>3 DEF RecordsInv
  <2>4. Kept'
    BY <1>3, <2>1 DEF Kept, NoRemoval
  <2> QED BY <1>3, <2>1, <2>2, <2>3, <2>4 DEF ServerInv, OneHandled, CodesInv, Posts, Handled
<1>5. ASSUME NEW d \in Devices, RemoveRows(d)
      PROVE  ServerInv'
  <2>1. /\ UNCHANGED <<records, creating, posts, failures, accepted>>
        /\ "webkill" \in happened => "webkill" \in happened'
        /\ rows' = rows \ {d} /\ removal' = [device |-> d, pc |-> "record"] /\ crossed' = (crossed \/ InLoop)
        /\ codes' = [c \in Codes |-> IF codes[c].udid = d THEN [codes[c] EXCEPT !.udid = None] ELSE codes[c]]
    BY <1>5 DEF RemoveRows, Uses
  <2>2. /\ codes' \in [Codes -> CodeRecords]
        /\ \A c \in Codes : codes'[c].state = codes[c].state /\ codes'[c].udid \in {codes[c].udid, None}
    BY <1>3, <2>1 DEF CodeRecords
  <2>3. UsesInv'
    BY <1>3, <2>1, <2>2, CodesUses
  <2>4. RecordsInv'
    <3>1. Posts' = Posts /\ InLoop' = InLoop
      BY <2>1 DEF Posts, InLoop
    <3>2. removal'.device = d
      BY <2>1
    <3> QED BY <1>3, <2>1, <3>1, <3>2 DEF RecordsInv
  <2>5. removal' \in [device : Devices, pc : {"record"}] /\ crossed' \in BOOLEAN
    BY <1>3, <2>1 DEF Kept, InLoop
  <2>6. Kept'
    BY <1>3, <2>1, <2>2, <2>5 DEF Kept
  <2>7. CodesInv'
    <3>1. \A q \in Posts : codes'[posts[q].code].state # "none"
      <4>1. \A q \in Posts : posts[q] \in PostRecords
        BY <1>3 DEF Kept, Posts
      <4> QED BY <1>3, <2>2, <4>1 DEF CodesInv, PostRecords
    <3> QED BY <1>3, <2>1, <2>2, <3>1 DEF CodesInv, Posts
  <2> QED BY <1>3, <2>1, <2>3, <2>4, <2>6, <2>7 DEF ServerInv, OneHandled, Posts, Handled
<1> QED BY <1>4, <1>5

-----------------------------------------------------------------------------
(* The steps of a hand-off request.                                        *)

(* A request that is not between two awaits moves to where it is not, or   *)
(* ends: nothing else changes but the failures.                            *)
LEMMA PostRests ==
  ASSUME ServerInv, NEW p \in Posts, ~Handled(p),
         posts' \in Seq(PostRecords) /\ Posts' = Posts,
         \A q \in Posts : q # p => posts'[q] = posts[q], posts'[p].code = posts[p].code,
         posts'[p].pc \in {"sent", "reading", "ended"}, failures' \in 0 .. FreeAttempts,
         UNCHANGED <<codes, rows, records, creating, removal, accepted, crossed, happened>>
  PROVE  ServerInv'
<1> USE DEF Handling
<1>1. \A q \in Posts : Handled(q)' => Handled(q) /\ posts'[q] = posts[q]
  BY DEF Handled
<1>2. \A q \in Posts : Handled(q) => posts'[q] = posts[q]
  OBVIOUS
<1>3. InLoop' => InLoop
  BY <1>1 DEF InLoop, Handled
<1>4. Kept' /\ CodesInv'
  <2>1. \A q \in Posts : codes'[posts'[q].code].state # "none"
    BY DEF ServerInv, CodesInv
  <2> QED BY <2>1 DEF ServerInv, Kept, CodesInv
<1>5. OneHandled'
  BY <1>1 DEF ServerInv, OneHandled
<1>6. UsesInv'
  <2>1. \A q \in Posts : posts[q].pc \in {"insert", "mark"} => posts'[q] = posts[q]
    BY <1>2 DEF Handled
  <2>2. \A q \in Posts : posts'[q].pc \in {"insert", "mark"} => posts'[q] = posts[q]
    BY <1>1 DEF Handled
  <2>3. ASSUME NEW q \in Posts, "webkill" \notin happened
        PROVE  /\ posts'[q].pc = "insert" => codes[posts'[q].code].state = "open" /\ accepted[posts'[q].code] = {}
               /\ posts'[q].pc = "mark" => accepted[posts'[q].code] = {posts'[q].device}
    BY SMTT(30), <2>2, <2>3 DEF ServerInv, UsesInv
  <2>4. ASSUME NEW c \in Codes, "webkill" \notin happened
        PROVE  /\ accepted[c] = {} \/ \E d \in Devices : accepted[c] = {d}
               /\ \/ codes[c].state = "used" \/ accepted[c] = {}
                  \/ \E q \in Posts : posts'[q].pc = "mark" /\ posts'[q].code = c
    BY <2>1, <2>4 DEF ServerInv, UsesInv
  <2> QED BY <2>3, <2>4 DEF UsesInv
<1>7. RecordsInv'
  <2>1. \A q \in Posts : posts'[q].pc = "insert" => posts'[q] = posts[q]
    BY <1>1 DEF Handled
  <2> QED BY <1>3, <2>1 DEF ServerInv, RecordsInv
<1> QED BY <1>4, <1>5, <1>6, <1>7 DEF ServerInv

LEMMA BeginsKeeps ==
  ASSUME ServerInv, NEW p \in Posts, PostBegins(p)
  PROVE  ServerInv'
<1>1. /\ posts[p].pc = "sent" /\ ~Handled(p) /\ posts \in Seq(PostRecords) /\ failures' \in 0 .. FreeAttempts
      /\ UNCHANGED <<codes, rows, records, creating, removal, accepted, crossed, happened>>
  BY DEF PostBegins, ServerInv, Kept, Handled, Handling
<1>2. CASE Moves(p, "ended")
  BY <1>1, <1>2, Moving, PostRests
<1>3. CASE posts' = [posts EXCEPT ![p].pc = "reading", ![p].inTime = ~codes[posts[p].code].expired]
  <2>1. PICK inTime \in BOOLEAN : Begun(p, inTime)
    BY <1>3 DEF Begun
  <2> QED BY <1>1, <2>1, Beginning, PostRests
<1> QED BY <1>2, <1>3 DEF PostBegins

LEMMA StoresKeeps ==
  ASSUME ServerInv, NEW p \in Posts, PostStores(p)
  PROVE  ServerInv'
<1> USE DEF Handling
<1>1. /\ posts[p].pc = "reading" /\ ~InLoop /\ ~Handled(p) /\ posts \in Seq(PostRecords)
      /\ UNCHANGED <<codes, rows, creating, removal, accepted, happened>>
  BY DEF PostStores, ServerInv, Kept, Handled
<1>2. posts[p].code \in Codes /\ posts[p].device \in Devices
  <2>1. posts[p] \in PostRecords
    BY <1>1 DEF Posts
  <2> QED BY <2>1 DEF PostRecords
<1>3. CASE /\ failures' = IF failures < FreeAttempts THEN failures + 1 ELSE failures
           /\ Moves(p, "ended") /\ UNCHANGED <<records, crossed>>
  <2>1. failures' \in 0 .. FreeAttempts
    BY <1>3, HandoffAssumption DEF ServerInv, Kept
  <2> QED BY <1>1, <1>3, <2>1, Moving, PostRests
<1>4. CASE /\ Consume(p) /\ records' = records \cup {posts[p].device} /\ Moves(p, "insert")
           /\ crossed' = (crossed \/ removal # NoRemoval) /\ UNCHANGED failures
  <2>1. /\ posts' \in Seq(PostRecords) /\ Posts' = Posts /\ \A q \in Posts : q # p => posts'[q] = posts[q]
        /\ posts'[p].pc = "insert" /\ posts'[p].code = posts[p].code /\ posts'[p].device = posts[p].device
    BY <1>1, <1>4, Moving
  <2>2. \A q \in Posts : ~Handled(q) /\ posts[q].pc \notin {"insert", "mark"}
    BY <1>1 DEF InLoop, Handled
  <2>3. Kept' /\ CodesInv'
    <3>1. \A q \in Posts : codes[posts'[q].code].state # "none"
      BY <2>1 DEF ServerInv, CodesInv
    <3> QED BY <1>1, <1>2, <1>4, <2>1, <3>1 DEF ServerInv, Kept, CodesInv
  <2>4. OneHandled'
    BY <2>1, <2>2 DEF OneHandled, Handled
  <2>5. UsesInv'
    <3>1. codes[posts[p].code].state = "open"
      BY <1>4 DEF Consume
    <3>2. "webkill" \notin happened => accepted[posts[p].code] = {}
      BY <1>2, <2>2, <3>1 DEF ServerInv, UsesInv
    <3>3. \A q \in Posts : q # p => posts'[q].pc \notin {"insert", "mark"}
      BY <2>1, <2>2
    <3>4. "webkill" \notin happened => \A c \in Codes : codes[c].state = "used" \/ accepted[c] = {}
      BY <2>2 DEF ServerInv, UsesInv
    <3> QED BY <1>1, <2>1, <3>1, <3>2, <3>3, <3>4 DEF ServerInv, UsesInv
  <2>6. RecordsInv'
    <3>1. ~crossed' => removal'.pc # "record"
      <4>1. ~crossed' => removal = NoRemoval
        BY <1>4
      <4>2. NoRemoval.pc = "none"
        BY DEF NoRemoval
      <4> QED BY <1>1, <4>1, <4>2
    <3>2. \A q \in Posts : posts'[q].pc = "insert" => posts'[q].device \in records'
      BY <1>4, <2>1, <2>2
    <3> QED BY <1>1, <1>4, <2>1, <3>1, <3>2 DEF ServerInv, RecordsInv
  <2> QED BY <2>3, <2>4, <2>5, <2>6 DEF ServerInv
<1> QED BY <1>3, <1>4 DEF PostStores

LEMMA InsertsKeeps ==
  ASSUME ServerInv, NEW p \in Posts, PostInserts(p)
  PROVE  ServerInv'
<1> USE DEF Handling
<1>1. /\ posts[p].pc = "insert" /\ posts \in Seq(PostRecords) /\ Moves(p, "mark")
      /\ UNCHANGED <<codes, records, creating, failures, removal, crossed, happened>>
      /\ rows' = rows \cup {posts[p].device}
      /\ accepted' = [accepted EXCEPT ![posts[p].code] = @ \cup {posts[p].device}]
  BY DEF PostInserts, ServerInv, Kept
<1>2. posts[p].code \in Codes /\ posts[p].device \in Devices
  <2>1. posts[p] \in PostRecords
    BY <1>1 DEF Posts
  <2> QED BY <2>1 DEF PostRecords
<1>3. /\ posts' \in Seq(PostRecords) /\ Posts' = Posts /\ \A q \in Posts : q # p => posts'[q] = posts[q]
      /\ posts'[p].pc = "mark" /\ posts'[p].code = posts[p].code /\ posts'[p].device = posts[p].device
  BY <1>1, Moving
<1>4. \A q \in Posts : q # p => ~Handled(q) /\ posts[q].pc \notin {"insert", "mark"}
  BY <1>1 DEF ServerInv, OneHandled, Handled
<1>5. /\ accepted' \in [Codes -> SUBSET Devices]
      /\ accepted'[posts[p].code] = accepted[posts[p].code] \cup {posts[p].device}
      /\ \A c \in Codes : c # posts[p].code => accepted'[c] = accepted[c]
  BY <1>1, <1>2 DEF ServerInv, Kept
<1>6. Kept' /\ CodesInv'
  <2>1. \A q \in Posts : codes[posts'[q].code].state # "none"
    BY <1>3 DEF ServerInv, CodesInv
  <2> QED BY <1>1, <1>2, <1>3, <1>5, <2>1 DEF ServerInv, Kept, CodesInv
<1>7. OneHandled'
  BY <1>3, <1>4 DEF OneHandled, Handled
<1>8. UsesInv'
  <2>1. "webkill" \notin happened => accepted'[posts[p].code] = {posts[p].device}
    BY <1>1, <1>5 DEF ServerInv, UsesInv
  <2>2. \A q \in Posts : q # p => posts'[q].pc \notin {"insert", "mark"}
    BY <1>3, <1>4
  <2>3. "webkill" \notin happened =>
          \A c \in Codes : /\ accepted[c] = {} \/ \E d \in Devices : accepted[c] = {d}
                           /\ codes[c].state = "used" \/ accepted[c] = {}
    BY <1>1, <1>4 DEF ServerInv, UsesInv
  <2> QED BY <1>1, <1>2, <1>3, <1>5, <2>1, <2>2, <2>3 DEF UsesInv
<1>9. RecordsInv'
  <2>1. InLoop
    BY <1>1 DEF InLoop
  <2>2. ~crossed => removal.pc # "record" /\ rows' \subseteq records
    BY <1>1, <2>1 DEF ServerInv, RecordsInv
  <2>3. \A q \in Posts : posts'[q].pc # "insert"
    BY <1>3, <1>4
  <2> QED BY <1>1, <1>3, <2>2, <2>3 DEF RecordsInv
<1> QED BY <1>6, <1>7, <1>8, <1>9 DEF ServerInv

LEMMA MarksKeeps ==
  ASSUME ServerInv, NEW p \in Posts, PostMarks(p)
  PROVE  ServerInv'
<1> USE DEF Handling
<1>1. /\ posts[p].pc = "mark" /\ posts \in Seq(PostRecords) /\ Moves(p, "ended") /\ failures' = 0
      /\ UNCHANGED <<rows, records, creating, removal, accepted, crossed, happened>>
      /\ codes' = [codes EXCEPT ![posts[p].code].state = "used", ![posts[p].code].udid = posts[p].device]
      /\ codes \in [Codes -> CodeRecords]
  BY DEF PostMarks, ServerInv, Kept
<1>2. posts[p].code \in Codes /\ posts[p].device \in Devices
  <2>1. posts[p] \in PostRecords
    BY <1>1 DEF Posts
  <2> QED BY <2>1 DEF PostRecords
<1>3. /\ posts' \in Seq(PostRecords) /\ Posts' = Posts /\ \A q \in Posts : q # p => posts'[q] = posts[q]
      /\ posts'[p].pc = "ended" /\ posts'[p].code = posts[p].code
  BY <1>1, Moving
<1>4. \A q \in Posts : q # p => ~Handled(q) /\ posts[q].pc \notin {"insert", "mark"}
  BY <1>1 DEF ServerInv, OneHandled, Handled
<1>5. \A q \in Posts : posts'[q].pc \notin {"insert", "mark"}
  BY <1>3, <1>4
<1>6. /\ codes' \in [Codes -> CodeRecords] /\ codes'[posts[p].code].state = "used"
      /\ \A c \in Codes : c # posts[p].code => codes'[c] = codes[c]
  <2> DEFINE c == posts[p].code
             new == [codes[c] EXCEPT !.state = "used", !.udid = posts[p].device]
  <2>0. codes[c] \in CodeRecords
    BY <1>1, <1>2
  <2>1. new \in CodeRecords /\ new.state = "used"
    BY <1>2, <2>0 DEF CodeRecords
  <2>2. codes' = [codes EXCEPT ![c] = new]
    BY <1>1, <1>2
  <2> HIDE DEF new
  <2> QED BY <1>1, <1>2, <2>1, <2>2
<1>7. Kept'
  <2>1. failures' \in 0 .. FreeAttempts
    BY <1>1, HandoffAssumption
  <2> QED BY <1>1, <1>3, <1>6, <2>1 DEF ServerInv, Kept
<1>8. OneHandled'
  BY <1>3, <1>5 DEF OneHandled, Handled
<1>9. CodesInv'
  <2>1. posts[p].code \notin creating
    BY <1>2 DEF ServerInv, CodesInv
  <2>2. \A q \in Posts : codes'[posts'[q].code].state # "none"
    <3>1. \A q \in Posts : posts'[q].code = posts[q].code
      BY <1>3
    <3>2. \A q \in Posts : posts[q].code = posts[p].code \/ codes'[posts[q].code] = codes[posts[q].code]
      <4>1. \A q \in Posts : posts[q] \in PostRecords
        BY <1>1 DEF Posts
      <4> QED BY <1>6, <4>1 DEF PostRecords
    <3> QED BY <1>6, <3>1, <3>2 DEF ServerInv, CodesInv
  <2> QED BY <1>1, <1>3, <1>6, <2>1, <2>2 DEF ServerInv, CodesInv
<1>10. UsesInv'
  <2>1. ASSUME NEW c \in Codes, "webkill" \notin happened
        PROVE  /\ accepted[c] = {} \/ \E d \in Devices : accepted[c] = {d}
               /\ codes'[c].state = "used" \/ accepted[c] = {}
    BY <1>4, <1>6, <2>1 DEF ServerInv, UsesInv
  <2> QED BY <1>1, <1>3, <1>5, <2>1 DEF UsesInv
<1>11. RecordsInv'
  <2>1. InLoop' => InLoop
    BY <1>3, <1>5 DEF InLoop
  <2> QED BY <1>1, <1>3, <1>5, <2>1 DEF ServerInv, RecordsInv
<1> QED BY <1>7, <1>8, <1>9, <1>10, <1>11 DEF ServerInv

-----------------------------------------------------------------------------
(* The process is killed: every request under way ends.                    *)
LEMMA KillKeeps ==
  ASSUME ServerInv, WebKill
  PROVE  ServerInv'
<1>1. /\ posts \in Seq(PostRecords) /\ posts' = [p \in Posts |-> [posts[p] EXCEPT !.pc = "ended"]]
      /\ creating' = {} /\ removal' = NoRemoval /\ failures' = 0 /\ "webkill" \in happened'
      /\ UNCHANGED <<codes, rows, records, accepted, crossed>>
  BY DEF ServerInv, Kept, WebKill, Uses
<1>2. /\ posts' \in Seq(PostRecords) /\ Posts' = Posts
      /\ \A q \in Posts : posts'[q].pc = "ended" /\ posts'[q].code = posts[q].code
  BY <1>1, Ending
<1>3. \A q \in Posts' : ~Handled(q)'
  BY <1>2 DEF Handled, Handling
<1>4. Kept'
  <2>1. failures' \in 0 .. FreeAttempts
    BY <1>1, HandoffAssumption
  <2> QED BY <1>1, <1>2, <2>1 DEF ServerInv, Kept
<1>5. OneHandled'
  BY <1>2, <1>3 DEF OneHandled, Handled
<1>6. CodesInv'
  BY <1>1, <1>2 DEF ServerInv, CodesInv
<1>7. UsesInv'
  BY <1>1 DEF UsesInv
<1>8. RecordsInv'
  <2>1. removal'.pc # "record"
    BY <1>1 DEF NoRemoval
  <2> QED BY <1>1, <1>2, <2>1 DEF ServerInv, RecordsInv
<1> QED BY <1>4, <1>5, <1>6, <1>7, <1>8 DEF ServerInv

LEMMA ServerInvStep ==
  ASSUME ServerInv, WindowInv, [Next]_vars
  PROVE  ServerInv'
<1>1. CASE UNCHANGED serverVars
  BY <1>1, ServerStutter DEF serverVars
<1>2. CASE (Click /\ UNCHANGED serverVars) \/ MainStep \/ HelperStep \/ UNCHANGED vars
  <2>1. UNCHANGED serverVars
    BY <1>2 DEF MainStep, HelperStep, PairingFails, vars
  <2> QED BY <1>1, <2>1
<1>3. CASE \E r \in Runs : Send(r)
  <2>1. PICK r \in Runs, c \in Codes, d \in Devices :
          codes[c].state # "none" /\ posts' = Append(posts, Post(r, c, d))
    BY <1>3 DEF Send
  <2>2. UNCHANGED <<codes, rows, records, creating, failures, removal, accepted, crossed, happened>> /\ r \in Nat
    BY <1>3 DEF Send, Runs
  <2> QED BY <2>1, <2>2, SendingKeeps
<1>4. CASE ScriptSends
  <2>1. PICK c \in Codes, d \in Devices : codes[c].state # "none" /\ posts' = Append(posts, Post(0, c, d))
    BY <1>4 DEF ScriptSends, Open
  <2>2. UNCHANGED <<codes, rows, records, creating, failures, removal, accepted, crossed, happened>>
    BY <1>4 DEF ScriptSends
  <2> QED BY <2>1, <2>2, SendingKeeps
<1>5. CASE \E p \in Posts : GivesUp(p)
  BY <1>5, ServerStutter DEF GivesUp, Uses
<1>6. CASE ServerStep
  BY <1>6, BeginsKeeps, StoresKeeps, InsertsKeeps, MarksKeeps DEF ServerStep
<1> QED BY <1>2, <1>3, <1>4, <1>5, <1>6, CodesKeep, RemovalKeeps, KillKeeps DEF Next

LEMMA ServerInvAlways == Spec => []ServerInv
<1>1. Init => ServerInv
  <2> SUFFICES ASSUME Init
               PROVE  ServerInv
    OBVIOUS
  <2>1. /\ codes = [c \in Codes |-> NoCode] /\ rows = {} /\ records = {} /\ creating = {} /\ posts = <<>>
        /\ failures = 0 /\ removal = NoRemoval /\ accepted = [c \in Codes |-> {}] /\ crossed = FALSE
    BY DEF Init
  <2>2. Posts = {} /\ posts \in Seq(PostRecords)
    BY <2>1 DEF Posts
  <2>3. NoCode \in CodeRecords /\ NoCode.udid = None /\ NoRemoval.pc = "none"
    BY DEF NoCode, CodeRecords, NoRemoval
  <2>4. Kept
    <3>1. codes \in [Codes -> CodeRecords]
      BY <2>1, <2>3
    <3>2. accepted \in [Codes -> SUBSET Devices] /\ failures \in 0 .. FreeAttempts
      BY <2>1, HandoffAssumption
    <3> QED BY <2>1, <2>2, <3>1, <3>2 DEF Kept
  <2>5. OneHandled /\ CodesInv
    BY <2>1, <2>2, <2>3 DEF OneHandled, CodesInv
  <2>6. UsesInv
    BY <2>1, <2>2 DEF UsesInv
  <2>7. RecordsInv
    BY <2>1, <2>2, <2>3 DEF RecordsInv
  <2> QED BY <2>4, <2>5, <2>6, <2>7 DEF ServerInv
<1> QED BY <1>1, ServerInvStep, WindowInvAlways, PTL DEF Spec

(* A set of at most one element.                                           *)
LEMMA AtMostOne ==
  ASSUME NEW S, \A x, y \in S : x = y
  PROVE  Cardinality(S) <= 1
<1>1. CASE S = {}
  BY <1>1, FS_EmptySet
<1>2. CASE S # {}
  <2>1. PICK x \in S : TRUE
    BY <1>2
  <2>2. S = {x}
    BY <2>1
  <2> QED BY <2>2, FS_Singleton
<1> QED BY <1>1, <1>2

(* The hand-off, for every number of codes, devices and requests: a code   *)
(* adds one device unless the process was killed between the insert and    *)
(* the mark, and a device added has its pair record unless a removal       *)
(* overlapped.                                                             *)
THEOREM HandoffInvAlways == Spec => []HandoffInv
<1>1. ASSUME WindowInv, ServerInv
      PROVE  HandoffInv
  <2>1. HelperTypeOK
    <3>1. ASSUME NEW r \in Runs, "heartbeat" \in Holds(r)
          PROVE  workers[r].over = "wifi" /\ "lockdown" \in Holds(r)
      <4>1. OnItsWay(workers[r])
        BY <1>1 DEF WindowInv, OnTheirWay
      <4>2. workers[r].pc \in {"heartbeat", "beating"} /\ workers[r].holds = HeldAt(workers[r].pc)
        BY <3>1, <4>1 DEF OnItsWay, Holds, HeldAt
      <4> QED BY <4>1, <4>2 DEF OnItsWay, Holds, HeldAt, Probes
    <3> QED BY <1>1, <3>1 DEF WindowInv, Shapes, HelperTypeOK
  <2>2. Cardinality({p \in Posts : posts[p].pc \in Handling}) <= 1
    BY <1>1, AtMostOne DEF ServerInv, OneHandled, Handled
  <2>3. TypeOK
    BY <1>1, <2>1, <2>2 DEF ServerInv, Kept, CodesInv, CodeRecords, TypeOK
  <2>4. OneDevicePerCode
    <3>1. ASSUME NEW c \in Codes, "webkill" \notin happened
          PROVE  Cardinality(accepted[c]) <= 1
      <4>1. \A d, e \in accepted[c] : d = e
        BY <1>1, <3>1 DEF ServerInv, UsesInv
      <4> QED BY <4>1, AtMostOne
    <3> QED BY <3>1 DEF OneDevicePerCode
  <2>5. RowHasRecord
    BY <1>1 DEF ServerInv, RecordsInv, RowHasRecord
  <2> QED BY <2>3, <2>4, <2>5 DEF HandoffInv
<1> QED BY <1>1, WindowInvAlways, ServerInvAlways, PTL
=============================================================================
