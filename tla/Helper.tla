------------------------------- MODULE Helper -------------------------------
(***************************************************************************)
(* The pairing helper: worker threads do the work and put messages on a    *)
(* queue, and only the main thread, polling it, touches the buttons.       *)
(* What the pair worker sends is the business of Handoff.                  *)
(***************************************************************************)
EXTENDS Integers, Sequences

CONSTANT MaxRuns   \* bound: clicks on Pair, Diagnose and Capture log

ASSUME HelperAssumption == MaxRuns \in Nat

VARIABLES
  ui,        \* busy: the three buttons are disabled; stop, copy: those are enabled;
             \* report: the run whose report "Copy report" copies
  workers,   \* the worker threads, one for each run started
  stopped,   \* the runs whose stop_event is set
  uiQueue,   \* messages to the main thread
  latest,    \* history: the last diagnose or capture started
  overlapped \* history: a run was started before the report of an earlier capture was shown

helperVars == <<ui, workers, stopped, uiQueue, latest, overlapped>>

Runs == 1 .. Len(workers)
(* Where a worker uses the device: it looks for it, talks to it (pair and  *)
(* capture), or goes through the probes of a diagnose.                     *)
Probes == {"control", "service", "encrypt", "hello", "stripped", "heartbeat", "beating", "log"}
Device == Probes \cup {"find", "talk", "join"}
(* over: the connection; holds: what is open or runs in the background;    *)
(* cut: the total timeout ended it.                                        *)
Worker(kind) == [kind |-> kind, pc |-> "find", over |-> "usb", holds |-> {}, cut |-> FALSE]
Message(kind, of) == [kind |-> kind, of |-> of]

At(r, kind, pc) == r \in Runs /\ workers[r].kind = kind /\ workers[r].pc = pc
Goes(r, pc) == workers' = [workers EXCEPT ![r].pc = pc]
GoesHolding(r, pc, holds) == workers' = [workers EXCEPT ![r].pc = pc, ![r].holds = holds]
Put(messages) == uiQueue' = uiQueue \o messages
Queued(kind) == \E i \in DOMAIN uiQueue : uiQueue[i].kind = kind

HelperInit ==
  /\ ui = [busy |-> FALSE, stop |-> FALSE, copy |-> FALSE, report |-> 0]
  /\ workers = <<>> /\ stopped = {} /\ uiQueue = <<>>
  /\ latest = 0 /\ overlapped = FALSE

-----------------------------------------------------------------------------
(* The main thread: one callback at a time.                                *)

Started(kind) ==
  /\ ~ui.busy /\ Len(workers) < MaxRuns
  /\ workers' = Append(workers, Worker(kind))
  /\ overlapped' = (overlapped \/ Queued("report") \/ \E r \in Runs : At(r, "capture", "report"))
  /\ UNCHANGED <<stopped, uiQueue>>

ClickPair ==
  /\ Started("pair")
  /\ ui' = [ui EXCEPT !.busy = TRUE]
  /\ UNCHANGED latest

ClickDiagnose ==
  /\ Started("diagnose")
  /\ ui' = [ui EXCEPT !.busy = TRUE, !.copy = FALSE, !.report = 0]
  /\ latest' = Len(workers) + 1

ClickCapture ==
  /\ Started("capture")
  /\ ui' = [busy |-> TRUE, stop |-> TRUE, copy |-> FALSE, report |-> 0]
  /\ latest' = Len(workers) + 1

(* Broken: the buttons come back at once, before the capture has stopped.  *)
StopFreesButtons ==
  /\ ui.stop /\ ui' = [ui EXCEPT !.busy = FALSE]
  /\ UNCHANGED <<workers, stopped, uiQueue, latest, overlapped>>

(* _capture_stop_event is that of the last capture started.                *)
ClickStop ==
  /\ ui.stop
  /\ LET captures == {r \in Runs : workers[r].kind = "capture"}
     IN stopped' = stopped \cup {CHOOSE r \in captures : \A s \in captures : s <= r}
  /\ stopped' # stopped
  /\ UNCHANGED <<ui, workers, uiQueue, latest, overlapped>>

(* The report on the queue that _poll_queue shows last.                    *)
LastReport ==
  LET reports == {i \in DOMAIN uiQueue : uiQueue[i].kind = "report"}
  IN uiQueue[CHOOSE i \in reports : \A j \in reports : j <= i].of

(* _poll_queue empties the queue before the next click is handled: buttons *)
(* and stop only ever come with False, copy only with True.                *)
PollQueue ==
  /\ uiQueue # <<>>
  /\ ui' = [busy |-> ui.busy /\ ~Queued("buttons"),
            stop |-> ui.stop /\ ~Queued("stop"),
            copy |-> ui.copy \/ Queued("copy"),
            report |-> IF Queued("report") THEN LastReport ELSE ui.report]
  /\ uiQueue' = <<>>
  /\ UNCHANGED <<workers, stopped, latest, overlapped>>

-----------------------------------------------------------------------------
(* The workers, up to the point where they have done with the device.      *)

(* pair, capture: no device on USB, or it refuses, or a session opens.     *)
Finds(r) ==
  /\ At(r, "pair", "find") \/ At(r, "capture", "find")
  /\ Goes(r, "done") \/ GoesHolding(r, "talk", {"lockdown"})
  /\ UNCHANGED <<ui, stopped, uiQueue, latest, overlapped>>

(* A capture ends by its duration, an error, or the stop event it polls    *)
(* every second.                                                           *)
Captures(r) ==
  /\ At(r, "capture", "talk")
  /\ GoesHolding(r, "done", {})
  /\ UNCHANGED <<ui, stopped, uiQueue, latest, overlapped>>

-----------------------------------------------------------------------------
(* A diagnose: the probes one after the other, a failed one like one that  *)
(* answers, each within its own timeout.                                   *)

Diagnosing(r, pc) == At(r, "diagnose", pc) /\ UNCHANGED <<ui, stopped, uiQueue, latest, overlapped>>
Holds(r) == workers[r].holds

FindUsb(r) ==
  /\ Diagnosing(r, "find")
  /\ Goes(r, "done") \/ GoesHolding(r, "control", {"lockdown"})

(* The log capture runs beside the other probes.                           *)
ProbeControl(r) ==
  /\ Diagnosing(r, "control")
  /\ GoesHolding(r, "service", Holds(r) \cup {"log"})

StartService(r) ==
  /\ Diagnosing(r, "service")
  /\ Goes(r, "log") \/ GoesHolding(r, "encrypt", Holds(r) \cup {"service"})

AskWillEncrypt(r) == Diagnosing(r, "encrypt") /\ Goes(r, "hello")

(* Broken: the service is closed only if it answered.                      *)
HelloClosesAnswered(r) ==
  /\ Diagnosing(r, "hello")
  /\ \E holds \in {Holds(r), Holds(r) \ {"service"}} : GoesHolding(r, "stripped", holds)

Hello(r) ==
  /\ Diagnosing(r, "hello")
  /\ GoesHolding(r, "stripped", Holds(r) \ {"service"})

(* The same over a connection of its own, opened and closed in here.       *)
HelloStripped(r) ==
  /\ Diagnosing(r, "stripped")
  /\ IF workers[r].over = "wifi" THEN GoesHolding(r, "heartbeat", Holds(r) \cup {"heartbeat"})
                                 ELSE Goes(r, "log")

AwaitMarco(r) == Diagnosing(r, "heartbeat") /\ Goes(r, "beating")

(* Once more, with the heartbeat going on until it is cancelled.           *)
HelloBeating(r) ==
  /\ Diagnosing(r, "beating")
  /\ GoesHolding(r, "log", Holds(r) \ {"heartbeat"})

(* The log's task is awaited and the connection closed. Wi-Fi comes after  *)
(* USB if an address was given and USB had a pair record.                  *)
CollectLog(r) ==
  /\ Diagnosing(r, "log")
  /\ \E pc \in IF workers[r].over = "usb" THEN {"join", "done"} ELSE {"done"} :
       GoesHolding(r, pc, Holds(r) \ {"log", "lockdown"})

JoinWifi(r) ==
  /\ Diagnosing(r, "join")
  /\ \/ Goes(r, "done")
     \/ workers' = [workers EXCEPT ![r].pc = "control", ![r].over = "wifi", ![r].holds = @ \cup {"lockdown"}]

(* _TOTAL_DIAGNOSE_TIMEOUT: not before six steps took all their time. The  *)
(* connection is closed on the way out and asyncio.run cancels the tasks,  *)
(* but nobody closes an open service.                                      *)
CutOff(r) ==
  /\ workers[r].over = "wifi" \/ workers[r].pc \in {"hello", "stripped", "log"}
  /\ workers[r].pc \in Device
  /\ Diagnosing(r, workers[r].pc)
  /\ workers' = [workers EXCEPT ![r].pc = "done", ![r].cut = TRUE, ![r].holds = @ \cap {"service"}]

Diagnoses(r) ==
  \/ FindUsb(r) \/ ProbeControl(r) \/ StartService(r) \/ AskWillEncrypt(r) \/ Hello(r)
  \/ HelloStripped(r) \/ AwaitMarco(r) \/ HelloBeating(r) \/ CollectLog(r) \/ JoinWifi(r)
  \/ CutOff(r)

-----------------------------------------------------------------------------
(* The ends of the workers.                                                *)

(* Broken: the buttons come back before the report is handed over.         *)
DiagnoseEndsEarly(r) ==
  /\ \/ /\ At(r, "diagnose", "done") /\ Goes(r, "report")
        /\ Put(<<Message("buttons", r)>>)
     \/ /\ At(r, "diagnose", "report") /\ Goes(r, "ended")
        /\ Put(<<Message("report", r), Message("copy", r)>>)
  /\ UNCHANGED <<ui, stopped, latest, overlapped>>

(* The report, then the buttons; without a report after an exception.      *)
DiagnoseEnds(r) ==
  /\ At(r, "diagnose", "done") /\ Goes(r, "ended")
  /\ \/ Put(<<Message("report", r), Message("copy", r), Message("buttons", r)>>)
     \/ Put(<<Message("buttons", r)>>)
  /\ UNCHANGED <<ui, stopped, latest, overlapped>>

(* Broken: the buttons come back first.                                    *)
CaptureEndsSwapped(r) ==
  /\ \/ At(r, "capture", "done") /\ Goes(r, "stop") /\ Put(<<Message("buttons", r)>>)
     \/ At(r, "capture", "stop") /\ Goes(r, "report") /\ Put(<<Message("stop", r)>>)
  /\ UNCHANGED <<ui, stopped, latest, overlapped>>

(* Stop is disabled, then the buttons come back, then the report is put.   *)
CaptureEnds(r) ==
  /\ \/ At(r, "capture", "done") /\ Goes(r, "stop") /\ Put(<<Message("stop", r)>>)
     \/ At(r, "capture", "stop") /\ Goes(r, "report") /\ Put(<<Message("buttons", r)>>)
  /\ UNCHANGED <<ui, stopped, latest, overlapped>>

CaptureReports(r) ==
  /\ At(r, "capture", "report") /\ Goes(r, "ended")
  /\ Put(<<Message("report", r), Message("copy", r)>>)
  /\ UNCHANGED <<ui, stopped, latest, overlapped>>

(* Broken: the buttons come back only after a success.                     *)
PairEndsOnSuccess(r, outcome) ==
  /\ Goes(r, "ended")
  /\ IF outcome = "failed" THEN UNCHANGED uiQueue ELSE Put(<<Message("buttons", r)>>)
  /\ UNCHANGED <<ui, stopped, latest, overlapped>>

(* finally: the buttons come back.                                         *)
PairEnds(r, outcome) ==
  /\ GoesHolding(r, "ended", {})
  /\ Put(<<Message("buttons", r)>>)
  /\ UNCHANGED <<ui, stopped, latest, overlapped>>

Click == ClickPair \/ ClickDiagnose \/ ClickCapture \/ ClickStop
WorkerStep(r) ==
  Finds(r) \/ Captures(r) \/ Diagnoses(r) \/ DiagnoseEnds(r) \/ CaptureEnds(r) \/ CaptureReports(r)

-----------------------------------------------------------------------------
HelperTypeOK ==
  /\ ui \in [busy : BOOLEAN, stop : BOOLEAN, copy : BOOLEAN, report : 0 .. Len(workers)]
  /\ \A r \in Runs : "heartbeat" \in Holds(r) => workers[r].over = "wifi" /\ "lockdown" \in Holds(r)
  /\ stopped \subseteq Runs /\ latest \in 0 .. Len(workers)

(* Two workers never use the device at the same time: the buttons stay     *)
(* disabled until the worker has done with it.                             *)
OneWorkerOnDevice ==
  \A r, s \in Runs : workers[r].pc \in Device /\ workers[s].pc \in Device => r = s

(* A worker that has done with the device leaves no connection open and    *)
(* nothing running in the background. A diagnose that was cut off may      *)
(* leave the service it had open.                                          *)
NothingLeftOpen ==
  \A r \in Runs : workers[r].pc \notin Device =>
    workers[r].holds \subseteq (IF workers[r].cut THEN {"service"} ELSE {})

(* A capture that runs can be stopped: no message of an earlier run        *)
(* disables its Stop button.                                               *)
StopAvailable ==
  \A r \in Runs : workers[r].kind = "capture" /\ workers[r].pc \in Device => ui.stop

(* "Copy report" copies the report of the run started last - but for one   *)
(* started before the report of an earlier capture was shown.              *)
ReportIsOfLastRun == ui.copy => ui.report = latest \/ overlapped

(* The helper's window and its workers.                                    *)
HelperInv == OneWorkerOnDevice /\ NothingLeftOpen /\ StopAvailable /\ ReportIsOfLastRun
=============================================================================
