---------------------------- MODULE SetupProofs ----------------------------
(***************************************************************************)
(* Theorems about Setup, for any number of clicks, queued tasks and        *)
(* events.                                                                 *)
(***************************************************************************)
EXTENDS Setup, TLAPS

(***************************************************************************)
(* What a request, the task under way and the queue look like, beyond what *)
(* the invariant says of them.                                             *)
(***************************************************************************)
Asked == [kind : Steps \cup {"none", "add"}, pc : {"none", "checked", "marked"}]
Item == [step : Tasks, ask : Nat]
Work == [step : Tasks \cup {"none"}, pc : {"none", "calling", "mark", "column"}, ask : Nat,
         found : SUBSET {"wifi", "enc", "paired"}]
States == {"none", "running", "done", "failed"}

Columns == phone \in [wifi : BOOLEAN, enc : BOOLEAN]
           /\ device \in [present : BOOLEAN, wifi : BOOLEAN, enc : BOOLEAN]
Flags == record \in BOOLEAN /\ backedUp \in BOOLEAN /\ cooled \in BOOLEAN /\ crossed \in BOOLEAN
         /\ seen \in {"none", "unpaired", "paired"}
MarksFit == marks \in [Steps -> States]
            /\ (~device.present => device = NoRow /\ \A step \in RowSteps : marks[step] = "none")
Checks == asked \in Nat /\ shown \in Nat /\ shown <= asked
          /\ task.ask <= asked /\ \A i \in DOMAIN queue : queue[i].ask <= asked
Stages == removal \in {"none", "tables", "row", "record"} /\ thread \in {"none", "calling", "mark", "column"}

(* A request that was let in keeps its place in the queue until it hands   *)
(* over.                                                                   *)
Requests == request \in Asked
            /\ (request.kind = "add" => request.pc = "checked")
            /\ (request.kind = "none" => request.pc = "none")
Places == queue \in Seq(Item) /\ Len(queue) <= MaxQueue /\ (request.kind \in Steps => Len(queue) < MaxQueue)
Tasked == task \in Work

Shaped == Columns /\ Flags /\ MarksFit /\ Checks /\ Stages /\ Requests /\ Places /\ Tasked

LEMMA Appended ==
  ASSUME NEW q \in Seq(Item), NEW item \in Item
  PROVE  /\ Append(q, item) \in Seq(Item)
         /\ Len(Append(q, item)) = Len(q) + 1
         /\ DOMAIN Append(q, item) = DOMAIN q \cup {Len(q) + 1}
         /\ Append(q, item)[Len(q) + 1] = item
         /\ \A i \in DOMAIN q : Append(q, item)[i] = q[i] /\ i \in Nat /\ i <= Len(q)
OBVIOUS

LEMMA Tailed ==
  ASSUME NEW q \in Seq(Item), q # <<>>
  PROVE  /\ Tail(q) \in Seq(Item)
         /\ Len(Tail(q)) = Len(q) - 1 /\ Len(q) \in Nat
         /\ Head(q) = q[1] /\ q[1] \in Item /\ 1 \in DOMAIN q
         /\ \A i \in DOMAIN Tail(q) : Tail(q)[i] = q[i + 1] /\ i + 1 \in DOMAIN q /\ i \in Nat
         /\ \A i \in DOMAIN q : i # 1 => i - 1 \in DOMAIN Tail(q) /\ i \in Nat
OBVIOUS

(* Actions that Next quantifies over.                                      *)
MarkSetup == \E step \in {"wifi", "encryption"} : MarkSetupAction(step)
BackupStep == \E transport \in {"usb", "wifi"} : BackupSucceeds(transport)

(***************************************************************************)
(* Who writes what: a step either leaves a variable alone or is one of the *)
(* actions named with it.                                                  *)
(***************************************************************************)
LEMMA Writers ==
  ASSUME [Next]_vars
  PROVE  /\ phone' = phone \/ EncryptionCall \/ WifiCall \/ SwitchedOff
         /\ device' = device \/ AddInsert \/ RemoveRow \/ EncryptionDone \/ WifiDone \/ DetectDone
            \/ BackupStep
         /\ record' = record \/ RemoveRecord \/ PairCall
         /\ backedUp' = backedUp \/ BackupStep
         /\ seen' = seen \/ RemoveTables \/ ScanWrites
         /\ marks' = marks \/ MarkPairing \/ MarkSetup \/ MarkNetcheck \/ MarkDetect \/
            MarkCalculating \/ RemoveTables \/ RemoveRow \/ EncryptionCall \/ EncryptionDone \/
            PairCall \/ PairDone \/ WifiCall \/ WifiDone \/ NetcheckEnds \/ DetectCrashes \/
            DetectDone \/ SizeEnds
         /\ cooled' = cooled \/ MarkDetect \/ DetectCrashes \/ DetectDone \/ Cools
         /\ shown' = shown \/ RemoveRow \/ NetcheckEnds
         /\ asked' = asked \/ MarkNetcheck
         /\ request' = request \/ AskPairing \/ AskWifi \/ AskEncryption \/ AskNetcheck \/ AskSize
            \/ Poll \/ AddSeen \/ AddPaired \/ MarkPairing \/ MarkSetup \/ MarkNetcheck \/
            MarkDetect \/ MarkCalculating \/ HandOver \/ AddInsert \/ WebKill
         /\ removal' = removal \/ Remove \/ RemoveTables \/ RemoveRow \/ RemoveRecord \/ WebKill
         /\ thread' = thread \/ HandOver \/ EncryptionCall \/ EncryptionDone \/ WebKill
         /\ queue' = queue \/ HandOver \/ AskScan \/ Take
         /\ task' = task \/ Take \/ PairCall \/ PairDone \/ WifiCall \/ WifiDone \/ NetcheckEnds \/
            DetectReads \/ DetectUnknown \/ DetectCrashes \/ DetectDone \/ SizeEnds \/ ScanReads \/
            ScanWrites \/ Kill
         /\ crossed' = crossed \/ AddSeen \/ AddPaired \/ Remove \/ Take
         /\ happened' = happened \/ SizeEnds \/ SwitchedOff \/ Kill \/ WebKill
<1> USE DEF rows, web, worker, bounds, Next, MarkStep, RequestStep, RemovalStep, ThreadStep, TaskStep,
            MarkSetup, BackupStep
<1>1. phone' = phone \/ EncryptionCall \/ WifiCall \/ SwitchedOff
  BY DEF AskPairing, AskWifi, AskEncryption, AskNetcheck, AskSize, Poll, AddSeen, AddPaired,
  AskScan, Remove, MarkPairing, MarkNetcheck, MarkDetect, MarkCalculating, HandOver, AddInsert,
  RemoveTables, RemoveRow, RemoveRecord, EncryptionDone, Take, PairCall, PairDone, WifiDone,
  NetcheckEnds, DetectReads, DetectUnknown, DetectCrashes, DetectDone, SizeEnds, ScanReads,
  ScanWrites, Cools, Kill, WebKill, MarkSetupAction, BackupSucceeds, Asking, AddRead, vars
<1>2. device' = device \/ AddInsert \/ RemoveRow \/ EncryptionDone \/ WifiDone \/ DetectDone \/
      BackupStep
  BY DEF AskPairing, AskWifi, AskEncryption, AskNetcheck, AskSize, Poll, AddSeen, AddPaired,
  AskScan, Remove, MarkPairing, MarkNetcheck, MarkDetect, MarkCalculating, HandOver, RemoveTables,
  RemoveRecord, EncryptionCall, Take, PairCall, PairDone, WifiCall, NetcheckEnds, DetectReads,
  DetectUnknown, DetectCrashes, SizeEnds, ScanReads, ScanWrites, Cools, SwitchedOff, Kill, WebKill,
  MarkSetupAction, Asking, AddRead, vars
<1>3. record' = record \/ RemoveRecord \/ PairCall
  BY DEF AskPairing, AskWifi, AskEncryption, AskNetcheck, AskSize, Poll, AddSeen, AddPaired,
  AskScan, Remove, MarkPairing, MarkNetcheck, MarkDetect, MarkCalculating, HandOver, AddInsert,
  RemoveTables, RemoveRow, EncryptionCall, EncryptionDone, Take, PairDone, WifiCall, WifiDone,
  NetcheckEnds, DetectReads, DetectUnknown, DetectCrashes, DetectDone, SizeEnds, ScanReads,
  ScanWrites, Cools, SwitchedOff, Kill, WebKill, MarkSetupAction, BackupSucceeds, Asking, AddRead,
  vars
<1>4. backedUp' = backedUp \/ BackupStep
  BY DEF AskPairing, AskWifi, AskEncryption, AskNetcheck, AskSize, Poll, AddSeen, AddPaired,
  AskScan, Remove, MarkPairing, MarkNetcheck, MarkDetect, MarkCalculating, HandOver, AddInsert,
  RemoveTables, RemoveRow, RemoveRecord, EncryptionCall, EncryptionDone, Take, PairCall, PairDone,
  WifiCall, WifiDone, NetcheckEnds, DetectReads, DetectUnknown, DetectCrashes, DetectDone, SizeEnds,
  ScanReads, ScanWrites, Cools, SwitchedOff, Kill, WebKill, MarkSetupAction, Asking, AddRead, vars
<1>5. seen' = seen \/ RemoveTables \/ ScanWrites
  BY DEF AskPairing, AskWifi, AskEncryption, AskNetcheck, AskSize, Poll, AddSeen, AddPaired,
  AskScan, Remove, MarkPairing, MarkNetcheck, MarkDetect, MarkCalculating, HandOver, AddInsert,
  RemoveRow, RemoveRecord, EncryptionCall, EncryptionDone, Take, PairCall, PairDone, WifiCall,
  WifiDone, NetcheckEnds, DetectReads, DetectUnknown, DetectCrashes, DetectDone, SizeEnds,
  ScanReads, Cools, SwitchedOff, Kill, WebKill, MarkSetupAction, BackupSucceeds, Asking, AddRead,
  vars
<1>6. marks' = marks \/ MarkPairing \/ MarkSetup \/ MarkNetcheck \/ MarkDetect \/ MarkCalculating \/
      RemoveTables \/ RemoveRow \/ EncryptionCall \/ EncryptionDone \/ PairCall \/ PairDone \/
      WifiCall \/ WifiDone \/ NetcheckEnds \/ DetectCrashes \/ DetectDone \/ SizeEnds
  BY DEF AskPairing, AskWifi, AskEncryption, AskNetcheck, AskSize, Poll, AddSeen, AddPaired,
  AskScan, Remove, HandOver, AddInsert, RemoveRecord, Take, DetectReads, DetectUnknown, ScanReads,
  ScanWrites, Cools, SwitchedOff, Kill, WebKill, BackupSucceeds, Asking, AddRead, vars
<1>7. cooled' = cooled \/ MarkDetect \/ DetectCrashes \/ DetectDone \/ Cools
  BY DEF AskPairing, AskWifi, AskEncryption, AskNetcheck, AskSize, Poll, AddSeen, AddPaired,
  AskScan, Remove, MarkPairing, MarkNetcheck, MarkCalculating, HandOver, AddInsert, RemoveTables,
  RemoveRow, RemoveRecord, EncryptionCall, EncryptionDone, Take, PairCall, PairDone, WifiCall,
  WifiDone, NetcheckEnds, DetectReads, DetectUnknown, SizeEnds, ScanReads, ScanWrites, SwitchedOff,
  Kill, WebKill, MarkSetupAction, BackupSucceeds, Asking, AddRead, vars
<1>8. shown' = shown \/ RemoveRow \/ NetcheckEnds
  BY DEF AskPairing, AskWifi, AskEncryption, AskNetcheck, AskSize, Poll, AddSeen, AddPaired,
  AskScan, Remove, MarkPairing, MarkNetcheck, MarkDetect, MarkCalculating, HandOver, AddInsert,
  RemoveTables, RemoveRecord, EncryptionCall, EncryptionDone, Take, PairCall, PairDone, WifiCall,
  WifiDone, DetectReads, DetectUnknown, DetectCrashes, DetectDone, SizeEnds, ScanReads, ScanWrites,
  Cools, SwitchedOff, Kill, WebKill, MarkSetupAction, BackupSucceeds, Asking, AddRead, vars
<1>9. asked' = asked \/ MarkNetcheck
  BY DEF AskPairing, AskWifi, AskEncryption, AskNetcheck, AskSize, Poll, AddSeen, AddPaired,
  AskScan, Remove, MarkPairing, MarkDetect, MarkCalculating, HandOver, AddInsert, RemoveTables,
  RemoveRow, RemoveRecord, EncryptionCall, EncryptionDone, Take, PairCall, PairDone, WifiCall,
  WifiDone, NetcheckEnds, DetectReads, DetectUnknown, DetectCrashes, DetectDone, SizeEnds,
  ScanReads, ScanWrites, Cools, SwitchedOff, Kill, WebKill, MarkSetupAction, BackupSucceeds, Asking,
  AddRead, vars
<1>10. request' = request \/ AskPairing \/ AskWifi \/ AskEncryption \/ AskNetcheck \/ AskSize \/ Poll
      \/ AddSeen \/ AddPaired \/ MarkPairing \/ MarkSetup \/ MarkNetcheck \/ MarkDetect \/
      MarkCalculating \/ HandOver \/ AddInsert \/ WebKill
  BY DEF AskScan, Remove, RemoveTables, RemoveRow, RemoveRecord, EncryptionCall, EncryptionDone,
  Take, PairCall, PairDone, WifiCall, WifiDone, NetcheckEnds, DetectReads, DetectUnknown,
  DetectCrashes, DetectDone, SizeEnds, ScanReads, ScanWrites, Cools, SwitchedOff, Kill,
  BackupSucceeds, vars
<1>11. removal' = removal \/ Remove \/ RemoveTables \/ RemoveRow \/ RemoveRecord \/ WebKill
  BY DEF AskPairing, AskWifi, AskEncryption, AskNetcheck, AskSize, Poll, AddSeen, AddPaired,
  AskScan, MarkPairing, MarkNetcheck, MarkDetect, MarkCalculating, HandOver, AddInsert,
  EncryptionCall, EncryptionDone, Take, PairCall, PairDone, WifiCall, WifiDone, NetcheckEnds,
  DetectReads, DetectUnknown, DetectCrashes, DetectDone, SizeEnds, ScanReads, ScanWrites, Cools,
  SwitchedOff, Kill, MarkSetupAction, BackupSucceeds, Asking, AddRead, vars
<1>12. thread' = thread \/ HandOver \/ EncryptionCall \/ EncryptionDone \/ WebKill
  BY DEF AskPairing, AskWifi, AskEncryption, AskNetcheck, AskSize, Poll, AddSeen, AddPaired,
  AskScan, Remove, MarkPairing, MarkNetcheck, MarkDetect, MarkCalculating, AddInsert, RemoveTables,
  RemoveRow, RemoveRecord, Take, PairCall, PairDone, WifiCall, WifiDone, NetcheckEnds, DetectReads,
  DetectUnknown, DetectCrashes, DetectDone, SizeEnds, ScanReads, ScanWrites, Cools, SwitchedOff,
  Kill, MarkSetupAction, BackupSucceeds, Asking, AddRead, vars
<1>13. queue' = queue \/ HandOver \/ AskScan \/ Take
  BY DEF AskPairing, AskWifi, AskEncryption, AskNetcheck, AskSize, Poll, AddSeen, AddPaired, Remove,
  MarkPairing, MarkNetcheck, MarkDetect, MarkCalculating, AddInsert, RemoveTables, RemoveRow,
  RemoveRecord, EncryptionCall, EncryptionDone, PairCall, PairDone, WifiCall, WifiDone,
  NetcheckEnds, DetectReads, DetectUnknown, DetectCrashes, DetectDone, SizeEnds, ScanReads,
  ScanWrites, Cools, SwitchedOff, Kill, WebKill, MarkSetupAction, BackupSucceeds, Asking, AddRead,
  vars
<1>14. task' = task \/ Take \/ PairCall \/ PairDone \/ WifiCall \/ WifiDone \/ NetcheckEnds \/
      DetectReads \/ DetectUnknown \/ DetectCrashes \/ DetectDone \/ SizeEnds \/ ScanReads \/
      ScanWrites \/ Kill
  BY DEF AskPairing, AskWifi, AskEncryption, AskNetcheck, AskSize, Poll, AddSeen, AddPaired,
  AskScan, Remove, MarkPairing, MarkNetcheck, MarkDetect, MarkCalculating, HandOver, AddInsert,
  RemoveTables, RemoveRow, RemoveRecord, EncryptionCall, EncryptionDone, Cools, SwitchedOff,
  WebKill, MarkSetupAction, BackupSucceeds, Asking, AddRead, vars
<1>15. crossed' = crossed \/ AddSeen \/ AddPaired \/ Remove \/ Take
  BY DEF AskPairing, AskWifi, AskEncryption, AskNetcheck, AskSize, Poll, AskScan, MarkPairing,
  MarkNetcheck, MarkDetect, MarkCalculating, HandOver, AddInsert, RemoveTables, RemoveRow,
  RemoveRecord, EncryptionCall, EncryptionDone, PairCall, PairDone, WifiCall, WifiDone,
  NetcheckEnds, DetectReads, DetectUnknown, DetectCrashes, DetectDone, SizeEnds, ScanReads,
  ScanWrites, Cools, SwitchedOff, Kill, WebKill, MarkSetupAction, BackupSucceeds, Asking, vars
<1>16. happened' = happened \/ SizeEnds \/ SwitchedOff \/ Kill \/ WebKill
  BY DEF AskPairing, AskWifi, AskEncryption, AskNetcheck, AskSize, Poll, AddSeen, AddPaired,
  AskScan, Remove, MarkPairing, MarkNetcheck, MarkDetect, MarkCalculating, HandOver, AddInsert,
  RemoveTables, RemoveRow, RemoveRecord, EncryptionCall, EncryptionDone, Take, PairCall, PairDone,
  WifiCall, WifiDone, NetcheckEnds, DetectReads, DetectUnknown, DetectCrashes, DetectDone,
  ScanReads, ScanWrites, Cools, MarkSetupAction, BackupSucceeds, Asking, AddRead, vars
<1> QED
  BY <1>1, <1>2, <1>3, <1>4, <1>5, <1>6, <1>7, <1>8, <1>9, <1>10, <1>11, <1>12, <1>13, <1>14, <1>15,
  <1>16

(* What goes into the queue, and what comes out of it.                     *)
LEMMA HandedOver ==
  ASSUME Shaped, HandOver
  PROVE  /\ request.pc = "marked" /\ request' = NoRequest /\ task' = task /\ asked' = asked
         /\ request.kind # "encryption" =>
              /\ request.kind \in Tasks /\ TaskFor(request.kind) \in Item
              /\ TaskFor(request.kind).ask \in {0, asked}
              /\ queue' = Append(queue, TaskFor(request.kind))
         /\ request.kind = "encryption" => queue' = queue
<1>1. request.kind \in Steps
  BY DEF Shaped, Requests, Asked, HandOver
<1>2. request.kind # "encryption" => request.kind \in Tasks
  BY <1>1 DEF Tasks
<1>3. \A step \in Tasks : TaskFor(step) \in Item /\ TaskFor(step).ask \in {0, asked}
  BY DEF TaskFor, Item, Shaped, Checks
<1> QED BY <1>2, <1>3 DEF HandOver, web, worker

LEMMA Taken ==
  ASSUME Shaped, Take
  PROVE  /\ queue # <<>> /\ queue' = Tail(queue) /\ task = NoTask /\ UNCHANGED <<request, asked>>
         /\ queue[1] \in Item /\ 1 \in DOMAIN queue /\ queue[1].step \in Tasks /\ queue[1].ask \in Nat
         /\ task' = [step |-> queue[1].step, pc |-> "calling", ask |-> queue[1].ask, found |-> {}]
<1>1. queue # <<>> /\ queue' = Tail(queue) /\ task = NoTask /\ UNCHANGED <<request, asked>>
  BY DEF Take, web
<1>2. Head(queue) = queue[1] /\ queue[1] \in Item /\ 1 \in DOMAIN queue
  BY <1>1, Tailed DEF Shaped, Places
<1>3. queue[1].step \in Tasks /\ queue[1].ask \in Nat
  BY <1>2 DEF Item
<1>4. task' = [NoTask EXCEPT !.step = queue[1].step, !.ask = queue[1].ask, !.pc = "calling"]
  BY <1>2 DEF Take
<1> QED BY <1>1, <1>2, <1>3, <1>4 DEF NoTask

LEMMA ShapedStep ==
  ASSUME Shaped, [Next]_vars
  PROVE  Shaped'
<1> USE SetupAssumption
<1>1. Columns'
  <2>1. phone' \in [wifi : BOOLEAN, enc : BOOLEAN]
    BY Writers DEF Shaped, Columns, EncryptionCall, WifiCall, SwitchedOff
  <2>2. (AddInsert \/ RemoveRow) => device' \in [present : BOOLEAN, wifi : BOOLEAN, enc : BOOLEAN]
    <3>1. {NewRow, NoRow} \subseteq [present : BOOLEAN, wifi : BOOLEAN, enc : BOOLEAN]
      BY DEF NewRow, NoRow
    <3>2. (AddInsert \/ RemoveRow) => device' \in {device, NewRow, NoRow}
      BY DEF AddInsert, RemoveRow
    <3> QED BY <3>1, <3>2 DEF Shaped, Columns
  <2>4. ASSUME NEW on \in BOOLEAN
        PROVE  /\ [device EXCEPT !.enc = on] \in [present : BOOLEAN, wifi : BOOLEAN, enc : BOOLEAN]
               /\ [device EXCEPT !.wifi = on] \in [present : BOOLEAN, wifi : BOOLEAN, enc : BOOLEAN]
    BY DEF Shaped, Columns
  <2>5. device.present \in BOOLEAN
    BY DEF Shaped, Columns
  <2>6. (EncryptionDone \/ WifiDone) => device' \in [present : BOOLEAN, wifi : BOOLEAN, enc : BOOLEAN]
    BY <2>4, <2>5 DEF Shaped, Columns, EncryptionDone, WifiDone
  <2>3. (DetectDone \/ BackupStep) => device' \in [present : BOOLEAN, wifi : BOOLEAN, enc : BOOLEAN]
    BY DEF Shaped, Columns, DetectDone, Confirmed, BackupStep, BackupSucceeds
  <2> QED BY <2>1, <2>2, <2>3, <2>6, Writers DEF Shaped, Columns
<1>2. Flags'
  <2>1. record' \in BOOLEAN /\ backedUp' \in BOOLEAN
    BY Writers DEF Shaped, Flags, RemoveRecord, PairCall, BackupStep, BackupSucceeds
  <2>2. cooled' \in BOOLEAN
    BY Writers DEF Shaped, Flags, MarkDetect, DetectCrashes, DetectDone, Cools
  <2>3. crossed' \in BOOLEAN
    BY Writers DEF Shaped, Flags, AddSeen, AddPaired, AddRead, Remove, Take
  <2>4. seen' \in {"none", "unpaired", "paired"}
    BY Writers DEF Shaped, Flags, RemoveTables, ScanWrites
  <2> QED BY <2>1, <2>2, <2>3, <2>4 DEF Flags
<1>3. MarksFit'
  <2> USE DEF Shaped, MarksFit, Columns, Steps, RowSteps, States
  <2>1. (AddInsert \/ RemoveRow) => MarksFit'
    BY DEF AddInsert, RemoveRow, NewRow, NoRow
  <2>2. (EncryptionDone \/ WifiDone) => MarksFit'
    BY DEF EncryptionDone, WifiDone, NoRow, Answered
  <2>3. DetectDone => MarksFit'
    <3> SUFFICES ASSUME DetectDone PROVE MarksFit'
      OBVIOUS
    <3>1. device'.present = device.present /\ (~device.present => device' = device)
      BY DEF DetectDone
    <3>2. marks' = [marks EXCEPT !["detect"] = "done"]
      BY DEF DetectDone
    <3> QED BY <3>1, <3>2
  <2>4. BackupStep => MarksFit'
    BY DEF BackupStep, BackupSucceeds
  <2>5. (MarkPairing \/ MarkSetup \/ MarkNetcheck \/ MarkDetect \/ MarkCalculating \/ RemoveTables) => MarksFit'
    BY DEF MarkPairing, MarkSetup, MarkSetupAction, MarkNetcheck, MarkDetect, MarkCalculating, RemoveTables
  <2>6. (EncryptionCall \/ PairCall \/ PairDone \/ WifiCall) => MarksFit'
    BY DEF EncryptionCall, PairCall, PairDone, WifiCall, Answered
  <2>7. (NetcheckEnds \/ DetectCrashes \/ SizeEnds) => MarksFit'
    BY DEF NetcheckEnds, DetectCrashes, SizeEnds, Answered
  <2>8. (device' = device /\ marks' = marks) => MarksFit'
    OBVIOUS
  <2> QED BY <2>1, <2>2, <2>3, <2>4, <2>5, <2>6, <2>7, <2>8, Writers
<1>4. Stages'
  <2>1. removal' \in {"none", "tables", "row", "record"}
    BY Writers DEF Shaped, Stages, Remove, RemoveTables, RemoveRow, RemoveRecord, WebKill
  <2>2. thread' \in {"none", "calling", "mark", "column"}
    BY Writers DEF Shaped, Stages, HandOver, EncryptionCall, EncryptionDone, WebKill
  <2> QED BY <2>1, <2>2 DEF Stages
<1>5. Requests'
  <2> USE DEF Shaped, Requests, Asked, Steps, Request, NoRequest
  <2>1. (AskPairing \/ AskWifi \/ AskEncryption \/ AskNetcheck \/ AskSize \/ Poll) => Requests'
    BY DEF AskPairing, AskWifi, AskEncryption, AskNetcheck, AskSize, Asking, Poll
  <2>2. (AddSeen \/ AddPaired \/ MarkPairing \/ MarkSetup \/ MarkNetcheck \/ MarkDetect \/ MarkCalculating) => Requests'
    BY DEF AddSeen, AddPaired, AddRead, MarkPairing, MarkSetup, MarkSetupAction, MarkNetcheck, MarkDetect, MarkCalculating
  <2>3. (HandOver \/ AddInsert \/ WebKill) => Requests'
    BY DEF HandOver, AddInsert, WebKill
  <2> QED BY <2>1, <2>2, <2>3, Writers
<1>6. Tasked'
  <2> USE DEF Shaped, Tasked, Work, NoTask, Tasks, Steps
  <2>1. Take => Tasked'
    BY Taken
  <2>2. (PairCall \/ PairDone \/ WifiCall \/ WifiDone \/ NetcheckEnds) => Tasked'
    BY DEF PairCall, PairDone, WifiCall, WifiDone, NetcheckEnds
  <2>3. (DetectCrashes \/ DetectDone \/ SizeEnds \/ ScanWrites \/ Kill) => Tasked'
    BY DEF DetectCrashes, DetectDone, SizeEnds, ScanWrites, Kill
  <2>5. ASSUME NEW found \in SUBSET {"wifi", "enc", "paired"}
        PROVE  [task EXCEPT !.pc = "mark", !.found = found] \in Work
    OBVIOUS
  <2>6. SwitchedOn \in SUBSET {"wifi", "enc", "paired"}
    BY DEF SwitchedOn
  <2>4. (DetectReads \/ DetectUnknown \/ ScanReads) => Tasked'
    <3> HIDE DEF Work
    <3>1. DetectReads => Tasked'
      BY <2>5, <2>6 DEF DetectReads
    <3>2. DetectUnknown => Tasked'
      BY <2>5, <2>6 DEF DetectUnknown
    <3>3. NoTask \in Work
      BY DEF Work
    <3>4. ScanReads => Tasked'
      <4>1. (IF record THEN {"paired"} ELSE {}) \in SUBSET {"wifi", "enc", "paired"}
        OBVIOUS
      <4> HIDE DEF NoTask
      <4> QED BY <2>5, <3>3, <4>1 DEF ScanReads
    <3> QED BY <3>1, <3>2, <3>4
  <2> QED BY <2>1, <2>2, <2>3, <2>4, Writers
<1>7. Places'
  <2>1. Len(queue) \in Nat /\ MaxQueue \in Nat /\ queue \in Seq(Item) /\ Len(queue) <= MaxQueue
    BY DEF Shaped, Places
  <2>2. HandOver => Places'
    <3> SUFFICES ASSUME HandOver PROVE Places'
      OBVIOUS
    <3>1. request.kind \in Steps /\ request'.kind \notin Steps
      BY HandedOver DEF Shaped, Requests, Asked, NoRequest, Steps
    <3>2. Len(queue) < MaxQueue
      BY <3>1 DEF Shaped, Places
    <3>3. CASE request.kind = "encryption"
      BY <2>1, <3>1, <3>3, HandedOver DEF Places
    <3>4. CASE request.kind # "encryption"
      <4>1. queue' \in Seq(Item) /\ Len(queue') = Len(queue) + 1
        BY <2>1, <3>4, HandedOver, Appended
      <4> QED BY <2>1, <3>1, <3>2, <4>1 DEF Places
    <3> QED BY <3>3, <3>4
  <2>3. AskScan => Places'
    <3> SUFFICES ASSUME AskScan PROVE Places'
      OBVIOUS
    <3>1. TaskFor("scan") \in Item
      BY DEF TaskFor, Item, Tasks
    <3>2. queue' \in Seq(Item) /\ Len(queue') = Len(queue) + 1
      BY <2>1, <3>1, Appended DEF AskScan
    <3>3. request' = NoRequest /\ Len(queue) < MaxQueue
      BY DEF AskScan, web, HasRoom
    <3> QED BY <2>1, <3>2, <3>3 DEF Places, NoRequest, Steps
  <2>4. Take => Places'
    <3> SUFFICES ASSUME Take PROVE Places'
      OBVIOUS
    <3>1. queue' \in Seq(Item) /\ Len(queue') = Len(queue) - 1
      BY <2>1, Taken, Tailed
    <3>2. request' = request
      BY Taken
    <3> QED BY <2>1, <3>1, <3>2 DEF Shaped, Places
  <2>5. CASE queue' = queue
    <3>1. request' = request \/ request'.kind \notin Steps \/ request.kind \in Steps \/ Len(queue) < MaxQueue
      <4>1. (AskPairing \/ AskWifi \/ AskEncryption \/ AskNetcheck \/ AskSize \/ Poll) => Len(queue) < MaxQueue
        BY DEF AskPairing, AskWifi, AskEncryption, AskNetcheck, AskSize, Asking, Poll, HasRoom
      <4>2. (AddSeen \/ AddPaired \/ WebKill \/ HandOver) => request'.kind \notin Steps
        BY DEF AddSeen, AddPaired, AddRead, WebKill, HandOver, NoRequest, Request, Steps
      <4>3. AddInsert => Len(queue) < MaxQueue \/ request'.kind \notin Steps
        BY DEF AddInsert, HasRoom, NoRequest, Steps
      <4>4. (MarkPairing \/ MarkSetup \/ MarkNetcheck \/ MarkDetect \/ MarkCalculating) => request.kind \in Steps
        BY DEF MarkPairing, MarkSetup, MarkSetupAction, MarkNetcheck, MarkDetect, MarkCalculating, Request, Steps
      <4> QED BY <4>1, <4>2, <4>3, <4>4, Writers
    <3> QED BY <2>5, <3>1 DEF Shaped, Places
  <2> QED BY <2>2, <2>3, <2>4, <2>5, Writers
<1>8. Checks'
  <2>1. /\ asked \in Nat /\ shown \in Nat /\ shown <= asked /\ task.ask \in Nat /\ task.ask <= asked
        /\ queue \in Seq(Item) /\ \A i \in DOMAIN queue : queue[i].ask \in Nat /\ queue[i].ask <= asked
    <3>1. \A i \in DOMAIN queue : queue[i] \in Item
      BY DEF Shaped, Places
    <3> QED BY <3>1 DEF Shaped, Checks, Tasked, Work, Places, Item
  <2>2. asked' \in Nat /\ asked' >= asked
    BY <2>1, Writers DEF MarkNetcheck
  <2>3. shown' \in Nat /\ shown' <= asked
    BY <2>1, Writers DEF RemoveRow, NetcheckEnds
  <2>4. task'.ask \in Nat /\ task'.ask <= asked
    <3>1. Take => task'.ask \in Nat /\ task'.ask <= asked
      BY <2>1, Taken
    <3>2. task'.ask \in {0, task.ask} \/ Take
      <4> USE DEF NoTask, Shaped, Tasked, Work
      <4>1. (PairCall \/ PairDone \/ WifiCall \/ WifiDone \/ NetcheckEnds) => task'.ask \in {0, task.ask}
        BY DEF PairCall, PairDone, WifiCall, WifiDone, NetcheckEnds
      <4>2. (DetectCrashes \/ DetectDone \/ SizeEnds \/ ScanWrites \/ Kill) => task'.ask = 0
        BY DEF DetectCrashes, DetectDone, SizeEnds, ScanWrites, Kill
      <4>3. \A found : [task EXCEPT !.pc = "mark", !.found = found].ask = task.ask
        OBVIOUS
      <4>4. (DetectReads \/ DetectUnknown) => task'.ask = task.ask
        BY <4>3 DEF DetectReads, DetectUnknown
      <4>5. ScanReads => task'.ask \in {0, task.ask}
        <5>1. NoTask.ask = 0
          OBVIOUS
        <5> HIDE DEF NoTask
        <5> QED BY <4>3, <5>1 DEF ScanReads
      <4> QED BY <4>1, <4>2, <4>4, <4>5, Writers
    <3> QED BY <2>1, <3>1, <3>2
  <2>5. \A i \in DOMAIN queue' : queue'[i].ask <= asked
    <3>1. ASSUME NEW item \in Item, item.ask \in {0, asked}, queue' = Append(queue, item)
          PROVE  \A i \in DOMAIN queue' : queue'[i].ask <= asked
      BY <2>1, <3>1, Appended
    <3>2. HandOver => \A i \in DOMAIN queue' : queue'[i].ask <= asked
      BY <2>1, <3>1, HandedOver
    <3>3. AskScan => \A i \in DOMAIN queue' : queue'[i].ask <= asked
      <4>1. TaskFor("scan") \in Item /\ TaskFor("scan").ask \in {0, asked}
        BY DEF TaskFor, Item, Tasks
      <4> QED BY <3>1, <4>1 DEF AskScan
    <3>4. Take => \A i \in DOMAIN queue' : queue'[i].ask <= asked
      BY <2>1, Taken, Tailed
    <3> QED BY <2>1, <3>2, <3>3, <3>4, Writers
  <2>6. \A i \in DOMAIN queue' : queue'[i].ask \in Nat
    <3>1. \A i \in DOMAIN queue' : queue'[i] \in Item
      BY <1>7 DEF Places
    <3> QED BY <3>1 DEF Item
  <2> QED BY <2>1, <2>2, <2>3, <2>4, <2>5, <2>6 DEF Checks
<1> QED BY <1>1, <1>2, <1>3, <1>4, <1>5, <1>6, <1>7, <1>8 DEF Shaped

(***************************************************************************)
(* What the wizard's columns say was seen on the device, by whoever is     *)
(* about to write them.                                                    *)
(***************************************************************************)
WifiSeen == phone.wifi \/ "off" \in happened

Evidence ==
  /\ device.wifi => WifiSeen
  /\ device.enc => phone.enc
  /\ thread \in {"mark", "column"} => phone.enc
  /\ task.step = "wifi" /\ task.pc \in {"mark", "column"} => WifiSeen
  /\ task.step = "detect" /\ "wifi" \in task.found => WifiSeen
  /\ task.step = "detect" /\ "enc" \in task.found => phone.enc

LEMMA EvidenceStep ==
  ASSUME Shaped, Evidence, [Next]_vars
  PROVE  Evidence'
<1> USE DEF Evidence, Shaped, Columns, Tasked, Work
<1>1. \A e \in happened : e \in happened'
  BY Writers DEF SizeEnds, SwitchedOff, Kill, WebKill, Uses
<1>2. phone.enc => phone'.enc
  BY Writers DEF EncryptionCall, WifiCall, SwitchedOff
<1>3. WifiSeen => WifiSeen'
  BY <1>1, Writers DEF WifiSeen, EncryptionCall, WifiCall, SwitchedOff, Uses
<1>4. device'.wifi => WifiSeen
  <2>1. (AddInsert \/ RemoveRow \/ EncryptionDone) => device'.wifi = device.wifi \/ ~device'.wifi
    BY DEF AddInsert, RemoveRow, EncryptionDone, NewRow, NoRow
  <2>2. WifiDone /\ device'.wifi => WifiSeen
    BY DEF WifiDone
  <2>3. DetectDone /\ device'.wifi => WifiSeen
    BY DEF DetectDone, Confirmed
  <2>4. BackupStep /\ device'.wifi => WifiSeen
    BY DEF BackupStep, BackupSucceeds, WifiSeen
  <2> QED BY <2>1, <2>2, <2>3, <2>4, Writers
<1>5. device'.enc => phone.enc
  <2>1. (AddInsert \/ RemoveRow \/ WifiDone) => device'.enc = device.enc \/ ~device'.enc
    BY DEF AddInsert, RemoveRow, WifiDone, NewRow, NoRow
  <2>2. EncryptionDone /\ device'.enc => phone.enc
    BY DEF EncryptionDone
  <2>3. DetectDone /\ device'.enc => phone.enc
    BY DEF DetectDone, Confirmed
  <2>4. BackupStep /\ device'.enc => phone.enc
    BY DEF BackupStep, BackupSucceeds
  <2> QED BY <2>1, <2>2, <2>3, <2>4, Writers
<1>6. thread' \in {"mark", "column"} => phone'.enc
  <2>1. EncryptionCall /\ thread' \in {"mark", "column"} => phone'.enc
    BY DEF EncryptionCall
  <2>2. (HandOver \/ EncryptionDone \/ WebKill) /\ thread' \in {"mark", "column"} => thread \in {"mark", "column"}
    BY DEF HandOver, EncryptionDone, WebKill
  <2> QED BY <1>2, <2>1, <2>2, Writers
<1>7. task'.step = "wifi" /\ task'.pc \in {"mark", "column"} => WifiSeen'
  <2>1. WifiCall /\ task'.pc \in {"mark", "column"} => WifiSeen'
    BY DEF WifiCall, NoTask, WifiSeen
  <2>2. Take => task'.pc = "calling"
    BY Taken
  <2>3. WifiDone => task'.step = "none" \/ (task.step = "wifi" /\ task.pc \in {"mark", "column"})
    BY DEF WifiDone, NoTask
  <2>4. (PairCall \/ PairDone \/ NetcheckEnds) => task'.step # "wifi"
    BY DEF PairCall, PairDone, NetcheckEnds, NoTask
  <2>5. (DetectCrashes \/ DetectDone \/ SizeEnds \/ ScanWrites \/ Kill) => task'.step # "wifi"
    BY DEF DetectCrashes, DetectDone, SizeEnds, ScanWrites, Kill, NoTask
  <2>6. (DetectReads \/ DetectUnknown \/ ScanReads) => task'.step # "wifi"
    <3>1. \A found : [task EXCEPT !.pc = "mark", !.found = found].step = task.step
      OBVIOUS
    <3>2. NoTask.step = "none"
      BY DEF NoTask
    <3> QED BY <3>1, <3>2 DEF DetectReads, DetectUnknown, ScanReads
  <2> QED BY <1>3, <2>1, <2>2, <2>3, <2>4, <2>5, <2>6, Writers
<1>8. /\ task'.step = "detect" /\ "wifi" \in task'.found => WifiSeen'
      /\ task'.step = "detect" /\ "enc" \in task'.found => phone'.enc
  <2>1. Take => task'.found = {}
    BY Taken
  <2>2. (PairCall \/ PairDone \/ WifiCall \/ WifiDone \/ NetcheckEnds) => task'.step # "detect"
    BY DEF PairCall, PairDone, WifiCall, WifiDone, NetcheckEnds, NoTask
  <2>3. (DetectCrashes \/ DetectDone \/ SizeEnds \/ ScanWrites \/ Kill) => task'.step # "detect"
    BY DEF DetectCrashes, DetectDone, SizeEnds, ScanWrites, Kill, NoTask
  <2>4. \A found : /\ [task EXCEPT !.pc = "mark", !.found = found].step = task.step
                   /\ [task EXCEPT !.pc = "mark", !.found = found].found = found
    OBVIOUS
  <2>5. ScanReads => task'.step # "detect"
    <3>1. NoTask.step = "none"
      BY DEF NoTask
    <3> QED BY <2>4, <3>1 DEF ScanReads
  <2>6. (DetectReads \/ DetectUnknown) => task'.found \subseteq SwitchedOn
    BY <2>4 DEF DetectReads, DetectUnknown
  <2>7. /\ "wifi" \in SwitchedOn => WifiSeen
        /\ "enc" \in SwitchedOn => phone.enc
    BY DEF SwitchedOn, WifiSeen
  <2> QED BY <1>2, <1>3, <2>1, <2>2, <2>3, <2>5, <2>6, <2>7, Writers
<1> QED BY <1>2, <1>3, <1>4, <1>5, <1>6, <1>7, <1>8

(***************************************************************************)
(* The pair record is kept by whatever may still give the device a row: a  *)
(* sighting, a finished pairing, an add, and what the worker is about to   *)
(* write. A removal takes these away before it takes the record.           *)
(***************************************************************************)
Kept ==
  ~crossed =>
    /\ device.present \/ seen = "paired" \/ marks["pair"] = "done" \/ request.kind = "add" => record
    /\ task.step = "pair" /\ task.pc = "mark" => record
    /\ task.step = "scan" /\ "paired" \in task.found => record
    /\ removal # "none" => ~AddUnderWay
    /\ removal \in {"row", "record"} => seen # "paired" /\ marks["pair"] # "done"
    /\ removal = "record" => ~device.present

LEMMA KeptStep ==
  ASSUME Shaped, Kept, [Next]_vars
  PROVE  Kept'
<1> USE DEF Shaped
<1>1. crossed => crossed'
  BY Writers DEF AddSeen, AddPaired, AddRead, Remove, Take
<1>2. record /\ ~record' => /\ removal = "record" /\ removal' = "none"
                            /\ UNCHANGED <<device, seen, marks, request, task>>
  BY Writers DEF RemoveRecord, PairCall, worker
<1>3. device'.present => device.present \/ request.kind = "add"
  <2>1. RemoveRow => ~device'.present
    BY DEF RemoveRow, NoRow
  <2>2. (EncryptionDone \/ WifiDone \/ DetectDone \/ BackupStep) => device'.present = device.present
    BY DEF Columns, EncryptionDone, WifiDone, DetectDone, BackupStep, BackupSucceeds
  <2> QED BY <2>1, <2>2, Writers DEF AddInsert
<1>4. seen' = "paired" => seen = "paired" \/ (task.step = "scan" /\ "paired" \in task.found)
  BY Writers DEF RemoveTables, ScanWrites
<1>5. marks'["pair"] = "done" => marks["pair"] = "done" \/ (task.step = "pair" /\ task.pc = "mark")
  <2> USE DEF MarksFit, Steps, RowSteps, Answered
  <2>1. (MarkPairing \/ MarkSetup \/ MarkNetcheck \/ MarkDetect \/ MarkCalculating \/ RemoveTables \/ RemoveRow)
          => marks'["pair"] \in {marks["pair"], "running", "none"}
    BY DEF MarkPairing, MarkSetup, MarkSetupAction, MarkNetcheck, MarkDetect, MarkCalculating, RemoveTables, RemoveRow
  <2>2. (EncryptionCall \/ EncryptionDone \/ PairCall \/ WifiCall \/ WifiDone)
          => marks'["pair"] \in {marks["pair"], "failed"}
    BY DEF EncryptionCall, EncryptionDone, PairCall, WifiCall, WifiDone
  <2>3. (NetcheckEnds \/ DetectCrashes \/ DetectDone \/ SizeEnds) => marks'["pair"] = marks["pair"]
    BY DEF NetcheckEnds, DetectCrashes, DetectDone, SizeEnds
  <2>4. PairDone => task.step = "pair" /\ task.pc = "mark"
    BY DEF PairDone
  <2> QED BY <2>1, <2>2, <2>3, <2>4, Writers
<1>6. request'.kind = "add" =>
        \/ request.kind = "add"
        \/ (seen = "paired" \/ marks["pair"] = "done") /\ (removal # "none" => crossed')
  <2> USE DEF Request, NoRequest
  <2>1. (AddSeen \/ AddPaired) => (seen = "paired" \/ marks["pair"] = "done") /\ (removal # "none" => crossed')
    BY DEF AddSeen, AddPaired, AddRead
  <2>2. (AskPairing \/ AskWifi \/ AskEncryption \/ AskNetcheck \/ AskSize \/ Poll) => request'.kind # "add"
    BY DEF AskPairing, AskWifi, AskEncryption, AskNetcheck, AskSize, Asking, Poll
  <2>3. (MarkPairing \/ MarkSetup \/ MarkNetcheck \/ MarkDetect \/ MarkCalculating \/ HandOver \/ AddInsert \/ WebKill)
          => request'.kind # "add"
    BY DEF MarkPairing, MarkSetup, MarkSetupAction, MarkNetcheck, MarkDetect, MarkCalculating, HandOver, AddInsert,
           WebKill
  <2> QED BY <2>1, <2>2, <2>3, Writers
<1>7. task' = task \/ /\ task'.step = "pair" /\ task'.pc = "mark" => record'
                      /\ task'.step = "scan" /\ "paired" \in task'.found => record'
                      /\ task'.step \in {"pair", "scan"} =>
                           task.step \in {"pair", "scan"} \/ (removal # "none" => crossed')
  <2> DEFINE Good == /\ task'.step = "pair" /\ task'.pc = "mark" => record'
                     /\ task'.step = "scan" /\ "paired" \in task'.found => record'
                     /\ task'.step \in {"pair", "scan"} =>
                          task.step \in {"pair", "scan"} \/ (removal # "none" => crossed')
  <2> USE DEF Tasked, Work
  <2>1. Take => Good
    <3>1. Take => Head(queue) = queue[1]
      BY Taken, Tailed DEF Places
    <3>2. Take /\ removal # "none" /\ queue[1].step \in {"pair", "scan"} => crossed'
      BY <3>1 DEF Take
    <3>3. Take => task'.step = queue[1].step /\ task'.pc = "calling" /\ task'.found = {}
      BY Taken
    <3> QED BY <3>2, <3>3
  <2>2. PairCall => Good
    BY DEF PairCall, NoTask
  <2>3. (PairDone \/ NetcheckEnds \/ DetectCrashes \/ DetectDone \/ SizeEnds \/ ScanWrites \/ Kill) => task'.step = "none"
    BY DEF PairDone, NetcheckEnds, DetectCrashes, DetectDone, SizeEnds, ScanWrites, Kill, NoTask
  <2>4. (WifiCall \/ WifiDone) => task'.step \in {"none", "wifi"}
    BY DEF WifiCall, WifiDone, NoTask
  <2>5. \A found : /\ [task EXCEPT !.pc = "mark", !.found = found].step = task.step
                   /\ [task EXCEPT !.pc = "mark", !.found = found].found = found
    OBVIOUS
  <2>6. (DetectReads \/ DetectUnknown) => task'.step = "detect"
    BY <2>5 DEF DetectReads, DetectUnknown
  <2>7. ScanReads => Good
    <3>1. NoTask.step = "none"
      BY DEF NoTask
    <3>2. ScanReads => task'.step \in {"none", "scan"} /\ task.step = "scan" /\ record' = record
      BY <2>5, <3>1 DEF ScanReads, rows
    <3>3. ScanReads => task'.step = "none" \/ ("paired" \in task'.found => record)
      BY <2>5, <3>1 DEF ScanReads
    <3> QED BY <3>2, <3>3
  <2> QED BY <2>1, <2>2, <2>3, <2>4, <2>6, <2>7, Writers
<1>8. removal' # "none" /\ removal = "none" => UNCHANGED <<request, task>> /\ (AddUnderWay => crossed')
  BY Writers DEF Remove, RemoveTables, RemoveRow, RemoveRecord, WebKill, worker
<1>9. removal' \in {"row", "record"} => removal \in {"row", "record"} \/ (seen' # "paired" /\ marks'["pair"] # "done")
  BY Writers DEF Remove, RemoveTables, RemoveRow, RemoveRecord, WebKill, MarksFit, Steps
<1>10. removal' = "record" => removal = "record" \/ ~device'.present
  BY Writers DEF Remove, RemoveTables, RemoveRow, RemoveRecord, WebKill, NoRow
<1> HIDE DEF Shaped
<1> QED BY <1>1, <1>2, <1>3, <1>4, <1>5, <1>6, <1>7, <1>8, <1>9, <1>10 DEF Kept, AddUnderWay

(***************************************************************************)
(* Checks are answered in the order they were started, so the last one     *)
(* still on its way is the newest, and without one the result shown is.    *)
(***************************************************************************)
Unharmed == happened \subseteq {"off", "vanish"}
NetcheckMarked == request = Request("netcheck", "marked")
NetcheckQueued == \E i \in DOMAIN queue : queue[i].step = "netcheck"
LastCheck(i) == queue[i].step = "netcheck" /\ \A j \in DOMAIN queue : j > i => queue[j].step # "netcheck"

NewestLast == \A i \in DOMAIN queue : LastCheck(i) => queue[i].ask = asked
NewestHeld ==
  ~NetcheckQueued =>
    /\ task.step = "netcheck" => task.ask = asked
    /\ task.step # "netcheck" /\ marks["netcheck"] = "done" => shown = asked

InTurn == Unharmed /\ ~NetcheckMarked => NewestLast /\ NewestHeld

LEMMA OtherItemGoesIn ==
  ASSUME Shaped, NewestLast, NewestHeld, NEW item \in Item, item.step # "netcheck",
         queue' = Append(queue, item), UNCHANGED <<asked, task, marks, shown>>
  PROVE  NewestLast' /\ NewestHeld'
<1>1. queue \in Seq(Item) /\ Len(queue) \in Nat
  BY DEF Shaped, Places
<1> DEFINE n == Len(queue) + 1
<1>2. /\ DOMAIN queue' = DOMAIN queue \cup {n} /\ queue'[n] = item
      /\ \A i \in DOMAIN queue : queue'[i] = queue[i] /\ i \in Nat /\ i <= Len(queue)
  BY <1>1, Appended
<1>3. NewestLast'
  BY <1>2 DEF NewestLast, LastCheck
<1>4. NetcheckQueued' <=> NetcheckQueued
  BY <1>2 DEF NetcheckQueued
<1> QED BY <1>3, <1>4 DEF NewestHeld

LEMMA CheckGoesIn ==
  ASSUME Shaped, NEW item \in Item, item.step = "netcheck", item.ask = asked,
         queue' = Append(queue, item), asked' = asked
  PROVE  NewestLast' /\ NewestHeld'
<1>1. queue \in Seq(Item) /\ Len(queue) \in Nat
  BY DEF Shaped, Places
<1> DEFINE n == Len(queue) + 1
<1>2. /\ DOMAIN queue' = DOMAIN queue \cup {n} /\ queue'[n] = item
      /\ \A i \in DOMAIN queue : queue'[i] = queue[i] /\ i \in Nat /\ i <= Len(queue)
  BY <1>1, Appended
<1>3. \A i \in DOMAIN queue : n > i
  BY <1>1, <1>2
<1>4. NewestLast'
  BY <1>2, <1>3 DEF NewestLast, LastCheck
<1>5. NetcheckQueued'
  BY <1>2 DEF NetcheckQueued
<1> QED BY <1>4, <1>5 DEF NewestHeld

LEMMA TakeInTurn ==
  ASSUME Shaped, NewestLast, NewestHeld, Take
  PROVE  NewestLast' /\ NewestHeld'
<1>1. queue \in Seq(Item) /\ queue # <<>>
  BY Taken DEF Shaped, Places
<1>2. /\ queue' = Tail(queue) /\ asked' = asked /\ task.step # "netcheck"
      /\ task'.step = queue[1].step /\ task'.ask = queue[1].ask
      /\ marks' = marks /\ shown' = shown
  BY Taken DEF NoTask, Take, rows
<1>3. /\ 1 \in DOMAIN queue
      /\ \A i \in DOMAIN queue' : queue'[i] = queue[i + 1] /\ i + 1 \in DOMAIN queue /\ i \in Nat
      /\ \A i \in DOMAIN queue : i # 1 => i - 1 \in DOMAIN queue' /\ i \in Nat
  BY <1>1, <1>2, Tailed
<1>4. NewestLast'
  <2> SUFFICES ASSUME NEW i \in DOMAIN queue', queue'[i].step = "netcheck",
                      \A j \in DOMAIN queue' : j > i => queue'[j].step # "netcheck"
               PROVE  queue'[i].ask = asked'
    BY DEF NewestLast, LastCheck
  <2>1. queue[i + 1].step = "netcheck" /\ i + 1 \in DOMAIN queue /\ i \in Nat
    BY <1>3
  <2>2. ASSUME NEW j \in DOMAIN queue, j > i + 1 PROVE queue[j].step # "netcheck"
    <3>1. j # 1 /\ j \in Nat
      BY <1>3, <2>1, <2>2
    <3>2. j - 1 \in DOMAIN queue' /\ j - 1 > i
      BY <1>3, <2>1, <2>2, <3>1
    <3>3. queue'[j - 1] = queue[(j - 1) + 1]
      BY <1>3, <3>2
    <3>4. (j - 1) + 1 = j
      BY <3>1
    <3> QED BY <3>2, <3>3, <3>4
  <2>3. queue[i + 1].ask = asked
    BY <2>1, <2>2 DEF NewestLast, LastCheck
  <2> QED BY <1>2, <1>3, <2>3
<1>5. NewestHeld'
  <2> SUFFICES ASSUME ~NetcheckQueued'
               PROVE  /\ task'.step = "netcheck" => task'.ask = asked'
                      /\ task'.step # "netcheck" /\ marks'["netcheck"] = "done" => shown' = asked'
    BY DEF NewestHeld
  <2>1. ASSUME NEW i \in DOMAIN queue, i # 1 PROVE queue[i].step # "netcheck"
    <3>1. i - 1 \in DOMAIN queue' /\ i \in Nat
      BY <1>3, <2>1
    <3>2. queue'[i - 1] = queue[(i - 1) + 1] /\ (i - 1) + 1 = i
      BY <1>3, <3>1
    <3> QED BY <3>1, <3>2 DEF NetcheckQueued
  <2>2. CASE queue[1].step = "netcheck"
    <3>1. LastCheck(1)
      BY <2>1, <2>2 DEF LastCheck
    <3> QED BY <1>2, <1>3, <2>2, <3>1 DEF NewestLast
  <2>3. CASE queue[1].step # "netcheck"
    <3>1. ~NetcheckQueued
      BY <2>1, <2>3 DEF NetcheckQueued
    <3> QED BY <1>2, <2>3, <3>1 DEF NewestHeld
  <2> QED BY <2>2, <2>3
<1> QED BY <1>4, <1>5

(* Any other step leaves the checks alone.                                 *)
LEMMA OtherSteps ==
  ASSUME Shaped, [Next]_vars,
         ~HandOver, ~AskScan, ~Take, ~MarkNetcheck, ~NetcheckEnds, ~RemoveRow, ~Kill, ~WebKill
  PROVE  /\ UNCHANGED <<queue, asked, shown>> /\ marks'["netcheck"] = marks["netcheck"]
         /\ NetcheckMarked' => NetcheckMarked
         /\ NetcheckMarked => NetcheckMarked'
         /\ task'.step = "netcheck" <=> task.step = "netcheck"
         /\ task.step = "netcheck" => task'.ask = task.ask
<1> USE DEF Shaped
<1>1. UNCHANGED <<queue, asked, shown>>
  BY Writers
<1>2. marks'["netcheck"] = marks["netcheck"]
  <2> USE DEF MarksFit, Steps, Answered
  <2>1. (MarkPairing \/ MarkSetup \/ MarkDetect \/ MarkCalculating \/ RemoveTables)
          => marks'["netcheck"] = marks["netcheck"]
    BY DEF MarkPairing, MarkSetup, MarkSetupAction, MarkDetect, MarkCalculating, RemoveTables
  <2>2. (EncryptionCall \/ EncryptionDone \/ PairCall \/ PairDone \/ WifiCall \/ WifiDone)
          => marks'["netcheck"] = marks["netcheck"]
    BY DEF EncryptionCall, EncryptionDone, PairCall, PairDone, WifiCall, WifiDone
  <2>3. (DetectCrashes \/ DetectDone \/ SizeEnds) => marks'["netcheck"] = marks["netcheck"]
    BY DEF DetectCrashes, DetectDone, SizeEnds
  <2> QED BY <2>1, <2>2, <2>3, Writers
<1>3. request' = request \/ (~NetcheckMarked /\ ~NetcheckMarked')
  <2> USE DEF NetcheckMarked, Request, NoRequest
  <2>1. (AskPairing \/ AskWifi \/ AskEncryption \/ AskNetcheck \/ AskSize \/ Poll)
          => ~NetcheckMarked /\ ~NetcheckMarked'
    BY DEF AskPairing, AskWifi, AskEncryption, AskNetcheck, AskSize, Asking, Poll
  <2>2. (AddSeen \/ AddPaired \/ MarkPairing \/ MarkSetup \/ MarkDetect \/ MarkCalculating)
          => ~NetcheckMarked /\ ~NetcheckMarked'
    BY DEF AddSeen, AddPaired, AddRead, MarkPairing, MarkSetup, MarkSetupAction, MarkDetect, MarkCalculating
  <2>3. AddInsert => ~NetcheckMarked /\ ~NetcheckMarked'
    BY DEF AddInsert
  <2> QED BY <2>1, <2>2, <2>3, Writers
<1>4. task' = task \/ (task.step # "netcheck" /\ task'.step # "netcheck")
  <2> USE DEF Tasked, Work
  <2>1. NoTask.step = "none"
    BY DEF NoTask
  <2>2. (PairCall \/ PairDone \/ WifiCall \/ WifiDone) => task.step # "netcheck" /\ task'.step # "netcheck"
    BY <2>1 DEF PairCall, PairDone, WifiCall, WifiDone
  <2>3. (DetectCrashes \/ DetectDone \/ SizeEnds \/ ScanWrites) => task.step # "netcheck" /\ task'.step # "netcheck"
    BY <2>1 DEF DetectCrashes, DetectDone, SizeEnds, ScanWrites
  <2>4. \A found : [task EXCEPT !.pc = "mark", !.found = found].step = task.step
    OBVIOUS
  <2>5. (DetectReads \/ DetectUnknown \/ ScanReads) => task.step # "netcheck" /\ task'.step # "netcheck"
    BY <2>1, <2>4 DEF DetectReads, DetectUnknown, ScanReads
  <2> QED BY <2>2, <2>3, <2>5, Writers
<1> QED BY <1>1, <1>2, <1>3, <1>4 DEF NetcheckMarked

LEMMA InTurnStep ==
  ASSUME Shaped, InTurn, [Next]_vars
  PROVE  InTurn'
<1> SUFFICES ASSUME Unharmed', ~NetcheckMarked' PROVE NewestLast' /\ NewestHeld'
  BY DEF InTurn
<1>1. Unharmed /\ ~Kill /\ ~WebKill
  BY Writers DEF Unharmed, SizeEnds, SwitchedOff, Kill, WebKill, Uses
<1>2. CASE HandOver
  <2>1. CASE NetcheckMarked
    <3>1. request.kind = "netcheck"
      BY <2>1 DEF NetcheckMarked, Request
    <3>2. TaskFor("netcheck").step = "netcheck" /\ TaskFor("netcheck").ask = asked
      BY DEF TaskFor
    <3> QED BY <1>2, <3>1, <3>2, HandedOver, CheckGoesIn
  <2>2. CASE ~NetcheckMarked
    <3>1. request.kind # "netcheck"
      <4>1. request \in Asked /\ request.pc = "marked"
        BY <1>2, HandedOver DEF Shaped, Requests
      <4> QED BY <2>2, <4>1 DEF NetcheckMarked, Request, Asked
    <3>2. NewestLast /\ NewestHeld
      BY <1>1, <2>2 DEF InTurn
    <3>3. UNCHANGED <<asked, task, marks, shown>>
      BY <1>2 DEF HandOver, rows
    <3>4. CASE request.kind = "encryption"
      <4>1. queue' = queue
        BY <1>2, <3>4, HandedOver
      <4> QED BY <3>2, <3>3, <4>1 DEF NewestLast, NewestHeld, LastCheck, NetcheckQueued
    <3>5. CASE request.kind # "encryption"
      <4>1. TaskFor(request.kind).step = request.kind
        BY DEF TaskFor
      <4> QED BY <1>2, <3>1, <3>2, <3>3, <3>5, <4>1, HandedOver, OtherItemGoesIn
    <3> QED BY <3>4, <3>5
  <2> QED BY <2>1, <2>2
<1>3. CASE AskScan
  <2>1. TaskFor("scan") \in Item /\ TaskFor("scan").step # "netcheck"
    BY DEF TaskFor, Item, Tasks, Steps
  <2>2. ~NetcheckMarked
    BY <1>3 DEF AskScan, NetcheckMarked, Request, NoRequest
  <2> QED BY <1>1, <1>3, <2>1, <2>2, OtherItemGoesIn DEF InTurn, AskScan, rows, web
<1>4. CASE Take
  <2>1. ~NetcheckMarked
    BY <1>4, Taken DEF NetcheckMarked
  <2> QED BY <1>1, <1>4, <2>1, TakeInTurn DEF InTurn
<1>5. CASE MarkNetcheck
  <2>1. ~NetcheckMarked /\ UNCHANGED <<queue, task, shown, asked, marks>>
    BY <1>5 DEF MarkNetcheck, NetcheckMarked, Request, worker
  <2> QED BY <1>1, <2>1 DEF InTurn, NewestLast, NewestHeld, LastCheck, NetcheckQueued
<1>6. CASE NetcheckEnds
  <2>1. ~NetcheckMarked /\ UNCHANGED <<queue, asked>>
    BY <1>6 DEF NetcheckEnds, NetcheckMarked, web
  <2>2. /\ task.step = "netcheck" /\ task'.step # "netcheck"
        /\ shown' = IF marks["netcheck"] = "none" THEN shown ELSE task.ask
        /\ marks["netcheck"] = "none" => marks'["netcheck"] = "none"
    BY <1>6 DEF NetcheckEnds, NoTask, Answered, Shaped, MarksFit, Steps
  <2> QED BY <1>1, <2>1, <2>2 DEF InTurn, NewestLast, NewestHeld, LastCheck, NetcheckQueued
<1>7. CASE RemoveRow
  <2>1. ~NetcheckMarked /\ UNCHANGED <<queue, asked, task>> /\ marks'["netcheck"] = "none"
    BY <1>7 DEF RemoveRow, NetcheckMarked, worker, RowSteps, Steps
  <2> QED BY <1>1, <2>1 DEF InTurn, NewestLast, NewestHeld, LastCheck, NetcheckQueued
<1>8. CASE ~HandOver /\ ~AskScan /\ ~Take /\ ~MarkNetcheck /\ ~NetcheckEnds /\ ~RemoveRow
  <2>1. /\ UNCHANGED <<queue, asked, shown>> /\ marks'["netcheck"] = marks["netcheck"] /\ ~NetcheckMarked
        /\ task'.step = "netcheck" <=> task.step = "netcheck"
        /\ task.step = "netcheck" => task'.ask = task.ask
    BY <1>1, <1>8, OtherSteps
  <2>2. NewestLast /\ NewestHeld
    BY <1>1, <2>1 DEF InTurn
  <2>3. NewestLast'
    BY <2>1, <2>2 DEF NewestLast, LastCheck
  <2>4. NetcheckQueued' <=> NetcheckQueued
    BY <2>1 DEF NetcheckQueued
  <2> QED BY <2>1, <2>2, <2>3, <2>4 DEF NewestHeld
<1> QED BY <1>2, <1>3, <1>4, <1>5, <1>6, <1>7, <1>8

-----------------------------------------------------------------------------
WizardInv == Shaped /\ Evidence /\ Kept /\ InTurn

(* The wizard's tasks, its page and the device row, whatever order their   *)
(* steps take: what the row and the marks say was seen on the device, a    *)
(* device that is present keeps its pairing record, and the newest network *)
(* check is the last to be taken.                                          *)
THEOREM WizardInvAlways == Spec => []WizardInv
<1>1. Init => WizardInv
  <2> SUFFICES ASSUME Init PROVE WizardInv
    OBVIOUS
  <2> USE SetupAssumption DEF Init, NoRow, NewRow, NoRequest, NoTask
  <2>1. Columns /\ Flags
    <3>1. {NewRow, NoRow} \subseteq [present : BOOLEAN, wifi : BOOLEAN, enc : BOOLEAN]
      OBVIOUS
    <3>3. device \in {NewRow, NoRow}
      OBVIOUS
    <3>4. Flags
      <4>1. record \in BOOLEAN
        OBVIOUS
      <4> QED BY <4>1 DEF Flags
    <3>2. \E on \in BOOLEAN : phone = [wifi |-> on, enc |-> on]
      OBVIOUS
    <3> QED BY <3>1, <3>2, <3>3, <3>4 DEF Columns
  <2>2. MarksFit
    BY DEF MarksFit, Steps, RowSteps, States
  <2>3. Checks /\ Stages
    BY DEF Checks, Stages
  <2>4. Requests /\ Tasked
    BY DEF Requests, Asked, Tasked, Work
  <2>5. Places
    BY DEF Places, Steps
  <2>6. Evidence
    BY DEF Evidence
  <2>7. Kept
    BY DEF Kept, AddUnderWay, Steps
  <2>8. InTurn
    BY DEF InTurn, NewestLast, NewestHeld
  <2> QED BY <2>1, <2>2, <2>3, <2>4, <2>5, <2>6, <2>7, <2>8 DEF WizardInv, Shaped
<1>2. WizardInv /\ [Next]_vars => WizardInv'
  BY ShapedStep, EvidenceStep, KeptStep, InTurnStep DEF WizardInv
<1> QED BY <1>1, <1>2, PTL DEF Spec

(* runtime.py:381-387, 490-552, 654-669, devices.py:25-52: whichever of    *)
(* the two processes dies at whichever statement, the setup page shows     *)
(* nothing on that was not seen on, the result of the newest connectivity  *)
(* check, and a device only while its pair record is there.                *)
THEOREM SetupInvAlways == Spec => []SetupInv
<1>1. WizardInv => SetupInv
  <2> SUFFICES ASSUME WizardInv PROVE SetupInv
    OBVIOUS
  <2> USE DEF WizardInv, Shaped
  <2>1. TypeOK
    <3>1. /\ request.kind \in Steps \cup {"none", "add"} /\ task.step \in Tasks \cup {"none"}
          /\ Len(queue) <= MaxQueue + 1
      BY SetupAssumption DEF Requests, Asked, Tasked, Work, Places
    <3>2. marks \in [Steps -> {"none", "running", "done", "failed"}]
      BY DEF MarksFit, States
    <3> QED BY <3>1, <3>2 DEF TypeOK, Columns, Flags, MarksFit, Checks, Stages
  <2>2. OnlyWithEvidence
    BY DEF Evidence, WifiSeen, OnlyWithEvidence
  <2>3. LatestResultShown
    <3> SUFFICES ASSUME marks["netcheck"] = "done", happened \subseteq {"off", "vanish"}, request = NoRequest,
                        task.step # "netcheck", \A i \in 1 .. Len(queue) : queue[i].step # "netcheck"
                 PROVE  shown = asked
      BY DEF LatestResultShown
    <3>1. Unharmed /\ ~NetcheckMarked
      BY DEF Unharmed, NetcheckMarked, Request, NoRequest
    <3>2. ~NetcheckQueued
      BY DEF NetcheckQueued, Places
    <3> QED BY <3>1, <3>2 DEF InTurn, NewestHeld
  <2>4. RowHasRecord
    BY DEF Kept, RowHasRecord
  <2> QED BY <2>1, <2>2, <2>3, <2>4 DEF SetupInv
<1> QED BY <1>1, WizardInvAlways, PTL
=============================================================================
