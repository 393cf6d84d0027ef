------------------------------- MODULE Setup -------------------------------
(***************************************************************************)
(* Adding, setting up and removing one device: requests of the web process *)
(* write a mark ("running") and hand the work to the worker's queue - or,  *)
(* where it holds a password, to a thread of the web process -, and the    *)
(* result is written over the mark. Either process may be killed.          *)
(***************************************************************************)
EXTENDS Integers, FiniteSets, Sequences

CONSTANTS
  MaxClicks,   \* bound: what people do in the browser
  MaxQueue,    \* bound: tasks waiting
  MaxEvents    \* bound: events of the environment, each at most once

ASSUME SetupAssumption == {MaxClicks, MaxQueue, MaxEvents} \subseteq Nat

Steps == {"pair", "wifi", "encryption", "netcheck", "detect", "size"}
Tasks == (Steps \ {"encryption"}) \cup {"scan"}
RowSteps == {"wifi", "encryption", "netcheck"}    \* rows that reference devices(udid)

(* kill: the worker dies   webkill: the web process dies                   *)
(* vanish: a directory is removed while its size is asked for              *)
(* off: somebody switches Wi-Fi backups off on the device                  *)
Events == {"kill", "webkill", "vanish", "off"}

VARIABLES
  phone,     \* what is switched on on the device itself
  device,    \* the devices row: whether it exists, the two columns of the wizard
  record,    \* whether the pair record is on disk
  backedUp,  \* whether a complete backup is on disk
  seen,      \* the seen_devices row
  marks,     \* pairings, setup_actions, netcheck_runs, setup_detect:<udid>, dir_sizes
  cooled,    \* whether the setup_detect mark is older than its cooldown
  asked,     \* how many connectivity checks were started
  shown,     \* the one whose result the netcheck row holds
  request,   \* a request of the web process under way
  removal,   \* devices.remove under way
  thread,    \* the encryption thread of the web process
  queue,     \* the task queue
  task,      \* the consumer thread
  crossed,   \* history: a removal overlapped an add, a pairing or a scan
  clicks, happened

rows == <<device, record, backedUp, seen, marks, cooled, shown>>
web == <<request, removal, thread, asked>>
worker == <<queue, task>>
bounds == <<clicks, happened>>
vars == <<phone, rows, web, worker, crossed, bounds>>

NoRow == [present |-> FALSE, wifi |-> FALSE, enc |-> FALSE]
NewRow == [present |-> TRUE, wifi |-> FALSE, enc |-> FALSE]
NoRequest == [kind |-> "none", pc |-> "none"]
NoTask == [step |-> "none", pc |-> "none", ask |-> 0, found |-> {}]
Request(kind, pc) == [kind |-> kind, pc |-> pc]
TaskFor(step) == [step |-> step, ask |-> IF step = "netcheck" THEN asked ELSE 0]

Uses(event) ==
  /\ event \notin happened /\ Cardinality(happened) < MaxEvents
  /\ happened' = happened \cup {event}
Clicks == clicks < MaxClicks /\ clicks' = clicks + 1
HasRoom == Len(queue) < MaxQueue
AddUnderWay == request.kind = "add" \/ task.step \in {"pair", "scan"}

SetupIncomplete(row) == ~(row.wifi /\ row.enc /\ backedUp)

(* Broken: a running mark waits for its answer for ever.                   *)
OnlyUnmarked == marks["detect"] # "running" /\ (marks["detect"] = "none" \/ cooled)

(* setup_detect_due: a running mark blocks until SETUP_DETECT_STUCK_AFTER, *)
(* a finished one until SETUP_DETECT_COOLDOWN.                             *)
DetectDue == marks["detect"] = "none" \/ cooled

(* An UPDATE of a row that is gone changes nothing.                        *)
Answered(step, state) == [marks EXCEPT ![step] = IF @ = "none" THEN "none" ELSE state]

-----------------------------------------------------------------------------
(* Requests. Each checks what it needs, then writes the mark, then hands   *)
(* the work over: three steps, with other requests and a kill in between.  *)

Asking(step) ==
  /\ request = NoRequest /\ HasRoom /\ Clicks
  /\ request' = Request(step, "checked")
  /\ UNCHANGED <<phone, rows, removal, thread, asked, worker, crossed, happened>>

AskPairing == seen # "none" /\ ~device.present /\ Asking("pair")
AskWifi == device.present /\ Asking("wifi")
AskEncryption == device.present /\ Asking("encryption")
AskNetcheck == device.present /\ Asking("netcheck")
AskSize == Asking("size")

(* The setup page and its poll: maybe_enqueue_setup_detect.                *)
Poll ==
  /\ request = NoRequest /\ HasRoom
  /\ device.present /\ SetupIncomplete(device) /\ DetectDue
  /\ request' = Request("detect", "checked")
  /\ UNCHANGED <<phone, rows, removal, thread, asked, worker, crossed, bounds>>

MarkPairing ==
  /\ request = Request("pair", "checked")
  /\ marks' = [marks EXCEPT !["pair"] = "running"]
  /\ request' = Request("pair", "marked")
  /\ UNCHANGED <<phone, device, record, backedUp, seen, cooled, shown, removal, thread, asked,
                 worker, crossed, bounds>>

(* setup_actions and netcheck_runs reference devices: without the row the  *)
(* insert fails and the request with it.                                   *)
MarkSetupAction(step) ==
  /\ request = Request(step, "checked")
  /\ IF device.present
     THEN marks' = [marks EXCEPT ![step] = "running"] /\ request' = Request(step, "marked")
     ELSE request' = NoRequest /\ UNCHANGED marks
  /\ UNCHANGED <<phone, device, record, backedUp, seen, cooled, shown, removal, thread, asked,
                 worker, crossed, bounds>>

MarkNetcheck ==
  /\ request = Request("netcheck", "checked")
  /\ IF device.present
     THEN /\ marks' = [marks EXCEPT !["netcheck"] = "running"] /\ asked' = asked + 1
          /\ request' = Request("netcheck", "marked")
     ELSE request' = NoRequest /\ UNCHANGED <<marks, asked>>
  /\ UNCHANGED <<phone, device, record, backedUp, seen, cooled, shown, removal, thread,
                 worker, crossed, bounds>>

(* A key of the settings table: it needs no device.                        *)
MarkDetect ==
  /\ request = Request("detect", "checked")
  /\ marks' = [marks EXCEPT !["detect"] = "running"] /\ cooled' = FALSE
  /\ request' = Request("detect", "marked")
  /\ UNCHANGED <<phone, device, record, backedUp, seen, shown, removal, thread, asked,
                 worker, crossed, bounds>>

MarkCalculating ==
  /\ request = Request("size", "checked")
  /\ marks' = [marks EXCEPT !["size"] = "running"]
  /\ request' = Request("size", "marked")
  /\ UNCHANGED <<phone, device, record, backedUp, seen, cooled, shown, removal, thread, asked,
                 worker, crossed, bounds>>

HandOver ==
  /\ request.pc = "marked"
  /\ request' = NoRequest
  /\ IF request.kind = "encryption"
     THEN thread = "none" /\ thread' = "calling" /\ UNCHANGED queue
     ELSE queue' = Append(queue, TaskFor(request.kind)) /\ UNCHANGED thread
  /\ UNCHANGED <<phone, rows, removal, asked, task, crossed, bounds>>

(* add_submit reads seen_devices, the pairing page reads the pairings row; *)
(* both then insert the device.                                            *)
AddRead(found) ==
  /\ found /\ request = NoRequest /\ Clicks
  /\ request' = Request("add", "checked")
  /\ crossed' = (crossed \/ removal # "none")
  /\ UNCHANGED <<phone, rows, removal, thread, asked, worker, happened>>

AddSeen == AddRead(seen = "paired")
AddPaired == AddRead(marks["pair"] = "done")

AddInsert ==
  /\ request.kind = "add"
  /\ device' = IF device.present THEN device ELSE NewRow
  /\ request' = IF SetupIncomplete(device') /\ DetectDue /\ HasRoom THEN Request("detect", "checked") ELSE NoRequest
  /\ UNCHANGED <<phone, record, backedUp, seen, marks, cooled, shown, removal, thread, asked,
                 worker, crossed, bounds>>

AskScan ==
  /\ request = NoRequest /\ HasRoom /\ Clicks
  /\ queue' = Append(queue, TaskFor("scan"))
  /\ UNCHANGED <<phone, rows, web, task, crossed, happened>>

-----------------------------------------------------------------------------
(* devices.remove: autocommit, so every statement is a step of its own.    *)

Remove ==
  /\ device.present /\ removal = "none" /\ Clicks
  /\ removal' = "tables"
  /\ crossed' = (crossed \/ AddUnderWay)
  /\ UNCHANGED <<phone, rows, request, thread, asked, worker, happened>>

RemoveTables ==
  /\ removal = "tables"
  /\ seen' = "none"
  /\ marks' = [marks EXCEPT !["pair"] = "none"]
  /\ removal' = "row"
  /\ UNCHANGED <<phone, device, record, backedUp, cooled, shown, request, thread, asked, worker, crossed, bounds>>

(* Broken: no cascade.                                                     *)
RemoveRowOnly ==
  /\ removal = "row"
  /\ device' = NoRow
  /\ removal' = "record"
  /\ UNCHANGED <<phone, record, backedUp, seen, marks, cooled, shown, request, thread, asked, worker, crossed, bounds>>

(* The cascade takes setup_actions and netcheck_runs along.                *)
RemoveRow ==
  /\ removal = "row"
  /\ device' = NoRow
  /\ marks' = [step \in Steps |-> IF step \in RowSteps THEN "none" ELSE marks[step]]
  /\ shown' = 0
  /\ removal' = "record"
  /\ UNCHANGED <<phone, record, backedUp, seen, cooled, request, thread, asked, worker, crossed, bounds>>

(* Broken: the pair record goes before the row.                            *)
RemoveRecordFirst ==
  /\ removal # "none"
  /\ record' = FALSE
  /\ removal' = IF removal = "record" THEN "none" ELSE removal
  /\ UNCHANGED <<phone, device, backedUp, seen, marks, cooled, shown, request, thread, asked, worker, crossed, bounds>>

RemoveRecord ==
  /\ removal = "record"
  /\ record' = FALSE
  /\ removal' = "none"
  /\ UNCHANGED <<phone, device, backedUp, seen, marks, cooled, shown, request, thread, asked, worker, crossed, bounds>>

-----------------------------------------------------------------------------
(* The encryption step: a thread of the web process.                       *)

EncryptionCall ==
  /\ thread = "calling"
  /\ \/ /\ record
        /\ phone' = [phone EXCEPT !.enc = TRUE]
        /\ thread' = "mark" /\ UNCHANGED marks
     \/ /\ marks' = Answered("encryption", "failed")
        /\ thread' = "none" /\ UNCHANGED phone
  /\ UNCHANGED <<device, record, backedUp, seen, cooled, shown, request, removal, asked, worker, crossed, bounds>>

(* _setup_action_done: the mark first, then the column.                    *)
EncryptionDone ==
  /\ thread \in {"mark", "column"}
  /\ IF thread = "mark"
     THEN marks' = Answered("encryption", "done") /\ thread' = "column" /\ UNCHANGED device
     ELSE device' = [device EXCEPT !.enc = device.present] /\ thread' = "none" /\ UNCHANGED marks
  /\ UNCHANGED <<phone, record, backedUp, seen, cooled, shown, request, removal, asked, worker, crossed, bounds>>

-----------------------------------------------------------------------------
(* The worker's consumer. A step that needs the device fails without its   *)
(* pair record, and may fail with it.                                      *)

Take ==
  /\ task = NoTask /\ queue # <<>>
  /\ queue' = Tail(queue)
  /\ task' = [NoTask EXCEPT !.step = Head(queue).step, !.ask = Head(queue).ask, !.pc = "calling"]
  /\ crossed' = (crossed \/ (removal # "none" /\ Head(queue).step \in {"pair", "scan"}))
  /\ UNCHANGED <<phone, rows, web, bounds>>

PairCall ==
  /\ task.step = "pair" /\ task.pc = "calling"
  /\ \/ record' = TRUE /\ task' = [task EXCEPT !.pc = "mark"] /\ UNCHANGED marks
     \/ marks' = Answered("pair", "failed") /\ task' = NoTask /\ UNCHANGED record
  /\ UNCHANGED <<phone, device, backedUp, seen, cooled, shown, web, queue, crossed, bounds>>

(* Broken: the row says done before the record is on disk.                 *)
PairDoneEarly ==
  /\ task.step = "pair" /\ task.pc = "calling"
  /\ marks' = Answered("pair", "done")
  /\ UNCHANGED <<phone, device, record, backedUp, seen, cooled, shown, web, worker, crossed, bounds>>

PairDone ==
  /\ task.step = "pair" /\ task.pc = "mark"
  /\ marks' = Answered("pair", "done")
  /\ task' = NoTask
  /\ UNCHANGED <<phone, device, record, backedUp, seen, cooled, shown, web, queue, crossed, bounds>>

WifiCall ==
  /\ task.step = "wifi" /\ task.pc = "calling"
  /\ \/ /\ record
        /\ phone' = [phone EXCEPT !.wifi = TRUE]
        /\ task' = [task EXCEPT !.pc = "mark"] /\ UNCHANGED marks
     \/ /\ marks' = Answered("wifi", "failed")
        /\ task' = NoTask /\ UNCHANGED phone
  /\ UNCHANGED <<device, record, backedUp, seen, cooled, shown, web, queue, crossed, bounds>>

WifiDone ==
  /\ task.step = "wifi" /\ task.pc \in {"mark", "column"}
  /\ IF task.pc = "mark"
     THEN marks' = Answered("wifi", "done") /\ task' = [task EXCEPT !.pc = "column"] /\ UNCHANGED device
     ELSE device' = [device EXCEPT !.wifi = device.present] /\ task' = NoTask /\ UNCHANGED marks
  /\ UNCHANGED <<phone, record, backedUp, seen, cooled, shown, web, queue, crossed, bounds>>

(* Broken: a check that raises writes no result.                           *)
NetcheckRaises ==
  /\ task.step = "netcheck"
  /\ \/ marks' = Answered("netcheck", "done") /\ shown' = IF device.present THEN task.ask ELSE shown
     \/ UNCHANGED <<marks, shown>>
  /\ task' = NoTask
  /\ UNCHANGED <<phone, device, record, backedUp, seen, cooled, web, queue, crossed, bounds>>

(* Broken: a result is written only over a running mark.                   *)
NetcheckOnce ==
  /\ task.step = "netcheck"
  /\ marks' = Answered("netcheck", "done")
  /\ shown' = IF marks["netcheck"] = "running" THEN task.ask ELSE shown
  /\ task' = NoTask
  /\ UNCHANGED <<phone, device, record, backedUp, seen, cooled, web, queue, crossed, bounds>>

(* Whatever the check finds, and also when it crashes, is its result.      *)
NetcheckEnds ==
  /\ task.step = "netcheck"
  /\ marks' = Answered("netcheck", "done")
  /\ shown' = IF marks["netcheck"] = "none" THEN shown ELSE task.ask
  /\ task' = NoTask
  /\ UNCHANGED <<phone, device, record, backedUp, seen, cooled, web, queue, crossed, bounds>>

(* What the device says is on is what it says when it is asked; it may be  *)
(* switched before the answer is written.                                  *)
SwitchedOn == {f \in {"wifi", "enc"} : phone[f]}

DetectReads ==
  /\ task.step = "detect" /\ task.pc = "calling" /\ record
  /\ task' = [task EXCEPT !.pc = "mark", !.found = SwitchedOn]
  /\ UNCHANGED <<phone, rows, web, queue, crossed, bounds>>

(* The device cannot be reached, or answers only in part: what it did not  *)
(* say is not known of it.                                                 *)
DetectUnknown ==
  /\ task.step = "detect" /\ task.pc = "calling"
  /\ \E found \in SUBSET SwitchedOn :
       /\ found # {} => record
       /\ task' = [task EXCEPT !.pc = "mark", !.found = found]
  /\ UNCHANGED <<phone, rows, web, queue, crossed, bounds>>

DetectCrashes ==
  /\ task.step = "detect" /\ task.pc = "calling"
  /\ marks' = [marks EXCEPT !["detect"] = "failed"] /\ cooled' = FALSE
  /\ task' = NoTask
  /\ UNCHANGED <<phone, device, record, backedUp, seen, shown, web, queue, crossed, bounds>>

(* Only a confirmed yes is written: the columns, then the mark, which is   *)
(* written even when the row is gone.                                      *)
Confirmed(column, found) == column \/ found

DetectDone ==
  /\ task.step = "detect" /\ task.pc = "mark"
  /\ device' = IF ~device.present THEN device
               ELSE [device EXCEPT !.wifi = Confirmed(@, "wifi" \in task.found),
                                   !.enc = Confirmed(@, "enc" \in task.found)]
  /\ marks' = [marks EXCEPT !["detect"] = "done"]
  /\ cooled' = FALSE
  /\ task' = NoTask
  /\ UNCHANGED <<phone, record, backedUp, seen, shown, web, queue, crossed, bounds>>

(* A path that no longer resolves keeps its mark.                          *)
SizeEnds ==
  /\ task.step = "size"
  /\ \/ marks' = Answered("size", "done") /\ UNCHANGED happened
     \/ Uses("vanish") /\ UNCHANGED marks
  /\ task' = NoTask
  /\ UNCHANGED <<phone, device, record, backedUp, seen, cooled, shown, web, queue, crossed, clicks>>

ScanReads ==
  /\ task.step = "scan" /\ task.pc = "calling"
  /\ task' \in {NoTask, [task EXCEPT !.pc = "mark", !.found = IF record THEN {"paired"} ELSE {}]}
  /\ UNCHANGED <<phone, rows, web, queue, crossed, bounds>>

ScanWrites ==
  /\ task.step = "scan" /\ task.pc = "mark"
  /\ seen' = IF "paired" \in task.found THEN "paired" ELSE "unpaired"
  /\ task' = NoTask
  /\ UNCHANGED <<phone, device, record, backedUp, marks, cooled, shown, web, queue, crossed, bounds>>

(* Broken: any finished backup counts as one over Wi-Fi.                   *)
BackupProvesBoth(transport) ==
  /\ device.present /\ record /\ Clicks
  /\ backedUp' = TRUE
  /\ device' = [device EXCEPT !.wifi = TRUE, !.enc = @ \/ phone.enc]
  /\ UNCHANGED <<phone, record, seen, marks, cooled, shown, web, worker, crossed, happened>>

(* A finished backup proves what it used: Wi-Fi only if it ran over Wi-Fi, *)
(* encryption if its manifest says so.                                     *)
BackupSucceeds(transport) ==
  /\ device.present /\ record /\ Clicks
  /\ transport = "wifi" => phone.wifi
  /\ backedUp' = TRUE
  /\ device' = [device EXCEPT !.wifi = @ \/ transport = "wifi", !.enc = @ \/ phone.enc]
  /\ UNCHANGED <<phone, record, seen, marks, cooled, shown, web, worker, crossed, happened>>

Cools ==
  /\ marks["detect"] # "none" /\ ~cooled /\ cooled' = TRUE
  /\ UNCHANGED <<phone, device, record, backedUp, seen, marks, shown, web, worker, crossed, bounds>>

SwitchedOff ==
  /\ phone.wifi /\ Uses("off")
  /\ phone' = [phone EXCEPT !.wifi = FALSE]
  /\ UNCHANGED <<rows, web, worker, crossed, clicks>>

Kill ==
  /\ task # NoTask /\ Uses("kill")
  /\ task' = NoTask
  /\ UNCHANGED <<phone, rows, web, queue, crossed, clicks>>

WebKill ==
  /\ <<request, removal, thread>> # <<NoRequest, "none", "none">> /\ Uses("webkill")
  /\ request' = NoRequest /\ removal' = "none" /\ thread' = "none"
  /\ UNCHANGED <<phone, rows, asked, worker, crossed, clicks>>

-----------------------------------------------------------------------------
(* A new device, one just added, and one whose database was recreated.     *)
Init ==
  /\ \/ device = NoRow /\ record = FALSE /\ seen = "unpaired"
     \/ device = NewRow /\ record = TRUE /\ seen = "paired"
     \/ device = NoRow /\ record = TRUE /\ seen = "paired"
  /\ LET recreated == record /\ ~device.present IN phone = [wifi |-> recreated, enc |-> recreated]
  /\ backedUp = FALSE
  /\ marks = [step \in Steps |-> "none"] /\ cooled = FALSE
  /\ asked = 0 /\ shown = 0
  /\ request = NoRequest /\ removal = "none" /\ thread = "none"
  /\ queue = <<>> /\ task = NoTask
  /\ crossed = FALSE /\ clicks = 0 /\ happened = {}

MarkStep ==
  \/ MarkPairing \/ MarkNetcheck \/ MarkDetect \/ MarkCalculating
  \/ \E step \in {"wifi", "encryption"} : MarkSetupAction(step)
RequestStep == MarkStep \/ HandOver \/ AddInsert
RemovalStep == RemoveTables \/ RemoveRow \/ RemoveRecord
ThreadStep == EncryptionCall \/ EncryptionDone
TaskStep ==
  \/ Take \/ PairCall \/ PairDone \/ WifiCall \/ WifiDone \/ NetcheckEnds
  \/ DetectReads \/ DetectUnknown \/ DetectCrashes \/ DetectDone \/ SizeEnds \/ ScanReads \/ ScanWrites

Next ==
  \/ AskPairing \/ AskWifi \/ AskEncryption \/ AskNetcheck \/ AskSize
  \/ Poll \/ AddSeen \/ AddPaired \/ AskScan \/ Remove
  \/ RequestStep \/ RemovalStep \/ ThreadStep \/ TaskStep
  \/ \E transport \in {"usb", "wifi"} : BackupSucceeds(transport)
  \/ Cools \/ SwitchedOff \/ Kill \/ WebKill

(* Requests, threads and the consumer go on; time passes; the setup page   *)
(* stays open, and a device that is asked again and again answers some     *)
(* time.                                                                   *)
Fairness ==
  /\ WF_vars(RequestStep) /\ WF_vars(RemovalStep) /\ WF_vars(ThreadStep) /\ WF_vars(TaskStep)
  /\ WF_vars(Cools) /\ SF_vars(Poll) /\ SF_vars(DetectReads)

Spec == Init /\ [][Next]_vars /\ Fairness

-----------------------------------------------------------------------------
(* Every variable keeps its shape; a mark that references the device never *)
(* exists without it, and no result is newer than the checks started.      *)
TypeOK ==
  /\ phone \in [wifi : BOOLEAN, enc : BOOLEAN]
  /\ device \in [present : BOOLEAN, wifi : BOOLEAN, enc : BOOLEAN]
  /\ {record, backedUp, cooled, crossed} \subseteq BOOLEAN
  /\ seen \in {"none", "unpaired", "paired"}
  /\ marks \in [Steps -> {"none", "running", "done", "failed"}]
  /\ ~device.present => device = NoRow /\ \A step \in RowSteps : marks[step] = "none"
  /\ shown <= asked
  /\ request.kind \in Steps \cup {"none", "add"} /\ removal \in {"none", "tables", "row", "record"}
  /\ thread \in {"none", "calling", "mark", "column"}
  /\ Len(queue) <= MaxQueue + 1 /\ task.step \in Tasks \cup {"none"}

(* A mark that says running is answered, unless a process was killed or a  *)
(* directory vanished meanwhile: no failure of a step leaves one behind.   *)
MarkAnswered ==
  \A step \in Steps :
    (marks[step] = "running") ~> (marks[step] # "running" \/ happened \cap {"kill", "webkill", "vanish"} # {})

(* Whatever was killed, a setup page that stays open ends up showing what  *)
(* is switched on on the device: a lost answer is found again.             *)
SetupRepaired ==
  (device.present /\ phone.wifi /\ phone.enc)
    ~> ((device.wifi /\ device.enc) \/ ~device.present \/ ~record \/ ~phone.wifi)

(* The wizard's two columns are set only for what was switched on, by      *)
(* which way ever they were set - a step, a detection or a backup.         *)
OnlyWithEvidence == (device.wifi => phone.wifi \/ "off" \in happened) /\ (device.enc => phone.enc)

(* Once nothing is under way, the result shown is that of the check that   *)
(* was started last - if no process was killed.                            *)
LatestResultShown ==
  (/\ marks["netcheck"] = "done" /\ happened \subseteq {"off", "vanish"} /\ request = NoRequest
   /\ task.step # "netcheck" /\ \A i \in 1 .. Len(queue) : queue[i].step # "netcheck")
     => shown = asked

(* A devices row has its pair record on disk, also after the web process   *)
(* was killed in the middle of a removal. Only a removal that overlaps an  *)
(* add, a pairing or a scan can break this.                                *)
RowHasRecord == device.present => record \/ crossed

(* What the setup page shows of the device is true of it.                  *)
SetupInv == TypeOK /\ OnlyWithEvidence /\ LatestResultShown /\ RowHasRecord
=============================================================================
