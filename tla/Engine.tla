------------------------------- MODULE Engine -------------------------------
(***************************************************************************)
(* Pmd3Engine: how a call finds a device, opens a session with the stored  *)
(* pair record, keeps it alive over Wi-Fi and does what it was asked. Each *)
(* call runs an event loop of its own in its thread: a backup in a backup  *)
(* thread, everything else in the consumer's. A device may answer, refuse, *)
(* drop the connection or fall silent at any step; only a backup watches   *)
(* for silence.                                                            *)
(***************************************************************************)
EXTENDS Integers, FiniteSets

CONSTANTS
  PasscodeTimeout,  \* how long a backup waits for its first progress
  StallTimeout,     \* the watchdog's window
  MaxCalls,         \* bound: calls
  MaxSilence,       \* bound: how long the model lets a device be silent
  MaxEvents         \* bound: events of the environment, each at most once

ASSUME EngineAssumption ==
  /\ {PasscodeTimeout, StallTimeout} \subseteq Nat \ {0}
  /\ {MaxCalls, MaxSilence, MaxEvents} \subseteq Nat
  /\ MaxSilence > 2 * StallTimeout

(* unplug, leave: the cable, the Wi-Fi network    untrust: the device      *)
(* forgets its hosts    late: it applies a password after the call gave up *)
Events == {"unplug", "leave", "untrust", "late"}

VARIABLES
  device,    \* cable, near, wifiOn, encrypted, trusts; host: it has a fixed address;
             \* prompt: it still asks its user about a password
  record,    \* the pair record on disk: its number (0: none), and whether it has an escrow bag
  calls,     \* the call of each thread
  watch,     \* the backup's two waits
  made,      \* calls made so far
  happened

engineVars == <<device, record, calls, watch, made, happened>>

Threads == {"backup", "consumer"}
ConsumerOps == {"pair", "wifi", "enabled", "detect", "charging", "encrypt", "password", "netcheck", "discover"}
NeedEscrow == {"backup", "enabled", "encrypt", "password"}
Call(op) == [op |-> op, pc |-> "load", conn |-> "none", again |-> "none", beat |-> FALSE,
             used |-> 0, applied |-> FALSE, out |-> "none"]
NoCall == [Call("none") EXCEPT !.pc = "ended"]
NewWatch == [begun |-> FALSE, watching |-> FALSE, moved |-> FALSE, waited |-> 0, window |-> 0, silence |-> 0]
Records == 0 .. MaxCalls

Is(t, op, pc) == calls[t].op = op /\ calls[t].pc = pc
Goes(t, pc) == calls' = [calls EXCEPT ![t].pc = pc]
Finds(t, pc) == calls' = [calls EXCEPT ![t].pc = pc, ![t].used = record.id]
Opens(t, transport, id) == calls' = [calls EXCEPT ![t].pc = "open", ![t].conn = transport, ![t].used = id]
(* The result is known; what is open is closed on the way out.             *)
Leaves(t, out) == calls' = [calls EXCEPT ![t].pc = "closing", ![t].out = out]
Uses(event) ==
  /\ event \notin happened /\ Cardinality(happened) < MaxEvents
  /\ happened' = happened \cup {event}

Only(t) == UNCHANGED <<device, record, watch, made, happened>>
Answers(id) == device.near /\ device.wifiOn /\ id \in device.trusts

-----------------------------------------------------------------------------
(* _connect: USB if the device is plugged in, then the fixed address, then *)
(* Bonjour.                                                                *)

(* An escrow bag is asked for first where one is needed; enable_wifi looks *)
(* for the cable first. The record is read before the cable is looked for. *)
Load(t) ==
  /\ calls[t].pc = "load" /\ calls[t].op \notin {"pair", "netcheck", "discover"}
  /\ IF calls[t].op \in NeedEscrow /\ record.id # 0 /\ ~record.escrow THEN Leaves(t, "failed")
     ELSE IF device.cable THEN Finds(t, "usb")
     ELSE IF record.id = 0 \/ calls[t].op = "wifi" THEN Leaves(t, "failed")
     ELSE Finds(t, IF device.host THEN "fixed" ELSE "browse")
  /\ Only(t)

(* Broken: a session is used whether or not the record was accepted.       *)
OpenUsbUnpaired(t) ==
  /\ calls[t].pc = "usb" /\ device.cable
  /\ Opens(t, "usb", calls[t].used)
  /\ Only(t)

(* A cable pulled meanwhile fails the call: it does not go on to Wi-Fi.    *)
OpenUsb(t) ==
  /\ calls[t].pc = "usb"
  /\ \/ device.cable /\ calls[t].used \in device.trusts /\ Opens(t, "usb", calls[t].used)
     \/ ~(device.cable /\ calls[t].used \in device.trusts) /\ Leaves(t, "failed")
  /\ Only(t)

(* FIXED_HOST_RETRIES attempts; a refused record is closed, and a device   *)
(* that has Wi-Fi connections off refuses for ever.                        *)
OpenFixed(t) ==
  /\ calls[t].pc = "fixed"
  /\ \/ Answers(calls[t].used) /\ Opens(t, "wifi", calls[t].used)
     \/ Leaves(t, "failed")
  /\ Only(t)

(* The records are read again, to find one by the advertised address or by *)
(* the UDID the session reports.                                           *)
Browse(t) ==
  /\ calls[t].pc = "browse"
  /\ \/ Answers(record.id) /\ Opens(t, "wifi", record.id)
     \/ Leaves(t, "failed")
  /\ Only(t)

(* _wifi_heartbeat: a connection of its own, for Wi-Fi only; without one   *)
(* the call goes on all the same.                                          *)
WifiHeartbeat(t) ==
  /\ calls[t].pc = "open"
  /\ \E beat \in IF calls[t].conn = "wifi" THEN BOOLEAN ELSE {FALSE} :
       calls' = [calls EXCEPT ![t].pc = "operate", ![t].beat = beat]
  /\ Only(t)

Ended(t, call) ==
  /\ calls[t].pc = "closing"
  /\ calls' = [calls EXCEPT ![t] = call]
  /\ watch' = IF t = "backup" THEN NewWatch ELSE watch
  /\ UNCHANGED <<device, record, made, happened>>

(* Broken: the session is closed, the heartbeat left to itself.            *)
CloseSession(t) == Ended(t, [NoCall EXCEPT !.beat = calls[t].beat])

(* The heartbeat is cancelled, its connection and the session closed.      *)
Close(t) == Ended(t, NoCall)

-----------------------------------------------------------------------------
(* The consumer's calls. *)

Begin(op) ==
  /\ calls["consumer"].pc = "ended" /\ made < MaxCalls
  /\ calls' = [calls EXCEPT !["consumer"] = Call(op)]
  /\ made' = made + 1
  /\ UNCHANGED <<device, record, watch, happened>>

(* The record is stored before Wi-Fi connections are switched on: the      *)
(* device may refuse that.                                                 *)
Pair ==
  LET t == "consumer"
  IN /\ Is(t, "pair", "load")
     /\ \/ /\ device.cable
           /\ record' \in [id : {made}, escrow : BOOLEAN]
           /\ \E on \in {device.wifiOn, TRUE} :
                device' = [device EXCEPT !.trusts = @ \cup {made}, !.wifiOn = on]
           /\ Leaves(t, "done")
        \/ Leaves(t, "failed") /\ UNCHANGED <<device, record>>
     /\ UNCHANGED <<watch, made, happened>>

EnableWifi ==
  /\ Is("consumer", "wifi", "operate")
  /\ \/ device' = [device EXCEPT !.wifiOn = TRUE] /\ Leaves("consumer", "done")
     \/ Leaves("consumer", "failed") /\ UNCHANGED device
  /\ UNCHANGED <<record, watch, made, happened>>

(* encryption_enabled; it raises when the device does not answer.          *)
ReadEncryption ==
  /\ Is("consumer", "enabled", "operate")
  /\ \E out \in {"failed", "done"} : Leaves("consumer", out)
  /\ Only("consumer")

(* charging_state: unknown if unreachable.                                 *)
ReadCharging ==
  /\ Is("consumer", "charging", "operate")
  /\ Leaves("consumer", "done")
  /\ Only("consumer")

(* detect_setup_state: each of the two reads is confirmed or unknown.      *)
DetectSetup ==
  /\ Is("consumer", "detect", "operate")
  /\ Leaves("consumer", "done")
  /\ Only("consumer")

(* Stops at the first step that fails; only over the fixed address.        *)
Netcheck ==
  LET t == "consumer"
  IN /\ Is(t, "netcheck", "load")
     /\ \/ device.host /\ record.id # 0 /\ Answers(record.id) /\ Opens(t, "wifi", record.id)
        \/ Leaves(t, "failed")
     /\ Only(t)

(* The heartbeat probe runs on the session itself and ends before the      *)
(* backup port is tried; neither decides.                                  *)
NetcheckService ==
  LET t == "consumer"
  IN /\ Is(t, "netcheck", "operate")
     /\ \E out \in {"failed", "done"} : Leaves(t, out)
     /\ Only(t)

(* USB, then Bonjour, then one short probe of the fixed address; each      *)
(* session is closed before the next.                                      *)
Discover ==
  LET t == "consumer"
  IN /\ Is(t, "discover", "load")
     /\ \/ device.cable /\ calls' = [calls EXCEPT ![t].pc = "next", ![t].conn = "usb"]
        \/ Goes(t, "next")
     /\ Only(t)

DiscoverWifi ==
  LET t == "consumer"
  IN /\ Is(t, "discover", "next")
     /\ \/ record.id # 0 /\ Answers(record.id)
           /\ calls' = [calls EXCEPT ![t].pc = "closing", ![t].conn = "wifi", ![t].used = record.id, ![t].out = "done"]
        \/ calls' = [calls EXCEPT ![t].pc = "closing", ![t].conn = "none", ![t].out = "done"]
     /\ Only(t)

-----------------------------------------------------------------------------
(* enable_encryption and change_encryption_password. The device asks its   *)
(* user; it may apply the change and drop the connection all the same.     *)

(* Already on: nothing is sent.                                            *)
AskWillEncrypt ==
  LET t == "consumer"
  IN /\ Is(t, "encrypt", "operate")
     /\ \/ device.encrypted /\ Leaves(t, "done")
        \/ ~device.encrypted /\ Goes(t, "change")
        \/ Goes(t, "dropped")
        \/ Leaves(t, "failed")
     /\ Only(t)

(* The call ends by an answer, an error the device words itself, or a drop *)
(* or a timeout - before or after the change took effect.                  *)
ChangePassword ==
  LET t == "consumer"
      apply == [device EXCEPT !.encrypted = TRUE]
      ends(pc, out, applied) == calls' = [calls EXCEPT ![t].pc = pc, ![t].out = out, ![t].applied = applied]
  IN /\ Is(t, "encrypt", "change")
     /\ \/ device' = apply /\ ends("closing", "done", TRUE)
        \/ device' = device /\ ends("closing", "refused", FALSE)
        \/ device' = apply /\ ends("dropped", "none", TRUE)
        \/ device' = [device EXCEPT !.prompt = TRUE] /\ ends("dropped", "none", FALSE)
     /\ UNCHANGED <<record, watch, made, happened>>

(* Broken: a change that reached the device is taken for done.             *)
DropSucceeds ==
  /\ Is("consumer", "encrypt", "dropped")
  /\ Leaves("consumer", "done")
  /\ Only("consumer")

(* Broken: an error is an error.                                           *)
DropFails ==
  /\ Is("consumer", "encrypt", "dropped")
  /\ Leaves("consumer", "failed")
  /\ Only("consumer")

(* _will_encrypt_now: a fresh session beside the dead one. Only a device   *)
(* that says so turns the failure into a success.                          *)
AskAgain ==
  LET t == "consumer"
  IN /\ Is(t, "encrypt", "dropped")
     /\ \/ /\ record.id \in device.trusts /\ (device.cable \/ Answers(record.id))
           /\ calls' = [calls EXCEPT ![t].pc = "closing", ![t].again = "open",
                                     ![t].out = IF device.encrypted THEN "done" ELSE "failed"]
        \/ calls' = [calls EXCEPT ![t].pc = "closing", ![t].out = "unreachable"]
     /\ Only(t)

(* Whether another password took effect cannot be read back.               *)
ReplacePassword ==
  /\ Is("consumer", "password", "operate")
  /\ \E out \in {"done", "failed"} : Leaves("consumer", out)
  /\ Only("consumer")

-----------------------------------------------------------------------------
(* backup: run() talks to the device while the call itself waits.          *)

BeginBackup ==
  /\ calls["backup"].pc = "ended" /\ made < MaxCalls
  /\ calls' = [calls EXCEPT !["backup"] = Call("backup")]
  /\ watch' = NewWatch
  /\ made' = made + 1
  /\ UNCHANGED <<device, record, happened>>

AskEncrypted ==
  /\ Is("backup", "backup", "operate")
  /\ IF device.encrypted THEN Goes("backup", "transfer") ELSE Leaves("backup", "failed")
  /\ Only("backup")

BackupGoesOn == calls["backup"].pc \notin {"closing", "ended"}

ReportProgress ==
  /\ Is("backup", "backup", "transfer") /\ (watch.begun => watch.watching)
  /\ watch' = [watch EXCEPT !.begun = TRUE, !.moved = TRUE, !.silence = 0]
  /\ UNCHANGED <<device, record, calls, made, happened>>

(* The transfer is complete, or the protocol or the connection fails.      *)
TransferEnds ==
  /\ Is("backup", "backup", "transfer")
  /\ \E out \in {"done", "failed"} : Leaves("backup", out)
  /\ Only("backup")

(* The first wait ends with the first progress.                            *)
BeginWatching ==
  /\ BackupGoesOn /\ watch.begun /\ ~watch.watching
  /\ watch' = [watch EXCEPT !.watching = TRUE, !.moved = FALSE, !.window = 0]
  /\ UNCHANGED <<device, record, calls, made, happened>>

NotConfirmed ==
  /\ BackupGoesOn /\ ~watch.begun /\ watch.waited = PasscodeTimeout
  /\ Leaves("backup", "not_confirmed")
  /\ Only("backup")

(* Broken: what moved in an earlier window still counts.                   *)
WindowNotCleared ==
  /\ BackupGoesOn /\ watch.watching /\ watch.window = StallTimeout
  /\ IF watch.moved
     THEN watch' = [watch EXCEPT !.window = 0] /\ UNCHANGED calls
     ELSE Leaves("backup", "stalled") /\ UNCHANGED watch
  /\ UNCHANGED <<device, record, made, happened>>

(* Broken: any window that passes cuts the backup off.                     *)
WindowCuts ==
  /\ BackupGoesOn /\ watch.watching /\ watch.window = StallTimeout
  /\ Leaves("backup", "stalled")
  /\ Only("backup")

(* A window passed: without progress the task is cancelled.                *)
WindowEnds ==
  /\ BackupGoesOn /\ watch.watching /\ watch.window = StallTimeout
  /\ IF watch.moved
     THEN watch' = [watch EXCEPT !.moved = FALSE, !.window = 0] /\ UNCHANGED calls
     ELSE Leaves("backup", "stalled") /\ UNCHANGED watch
  /\ UNCHANGED <<device, record, made, happened>>

(* Time passes; what is due comes first.                                   *)
TimePasses ==
  /\ BackupGoesOn /\ (watch.begun => watch.watching)
  /\ watch.waited < PasscodeTimeout \/ watch.begun
  /\ watch.window < StallTimeout /\ watch.silence < MaxSilence
  /\ watch' = IF watch.begun THEN [watch EXCEPT !.window = @ + 1, !.silence = @ + 1]
                             ELSE [watch EXCEPT !.waited = @ + 1]
  /\ UNCHANGED <<device, record, calls, made, happened>>

-----------------------------------------------------------------------------
(* The environment. *)

DeviceChanges ==
  /\ \/ Uses("unplug") /\ device' = [device EXCEPT !.cable = ~@]
     \/ Uses("leave") /\ device' = [device EXCEPT !.near = ~@]
     \/ Uses("untrust") /\ device' = [device EXCEPT !.trusts = {}]
     \/ device.prompt /\ Uses("late") /\ device' = [device EXCEPT !.prompt = FALSE, !.encrypted = TRUE]
  /\ UNCHANGED <<record, calls, watch, made>>

EngineInit ==
  /\ device \in [cable : {TRUE}, near : {TRUE}, host : BOOLEAN, wifiOn : {FALSE}, encrypted : BOOLEAN,
                 trusts : {{}}, prompt : {FALSE}]
  /\ record = [id |-> 0, escrow |-> FALSE]
  /\ calls = [t \in Threads |-> NoCall]
  /\ watch = NewWatch
  /\ made = 0 /\ happened = {}

Connecting(t) == Load(t) \/ OpenUsb(t) \/ OpenFixed(t) \/ Browse(t) \/ WifiHeartbeat(t)

EngineNext ==
  \/ \E t \in Threads : Connecting(t) \/ Close(t)
  \/ \E op \in ConsumerOps : Begin(op)
  \/ Pair \/ EnableWifi \/ ReadEncryption \/ ReadCharging \/ DetectSetup
  \/ Netcheck \/ NetcheckService \/ Discover \/ DiscoverWifi
  \/ AskWillEncrypt \/ ChangePassword \/ AskAgain \/ ReplacePassword
  \/ BeginBackup \/ AskEncrypted \/ ReportProgress \/ TransferEnds
  \/ BeginWatching \/ NotConfirmed \/ WindowEnds \/ TimePasses
  \/ DeviceChanges

(* The backup's own loop and the clock go on; the device owes nothing.     *)
EngineFairness ==
  /\ WF_engineVars(TimePasses) /\ WF_engineVars(BeginWatching) /\ WF_engineVars(NotConfirmed) /\ WF_engineVars(WindowEnds)
  /\ WF_engineVars(Close("backup"))

EngineSpec == EngineInit /\ [][EngineNext]_engineVars /\ EngineFairness

-----------------------------------------------------------------------------
(* Every variable keeps its shape; a session the device authenticated was  *)
(* opened with a record that was once stored.                              *)
EngineTypeOK ==
  /\ record \in [id : Records, escrow : BOOLEAN] /\ device.trusts \subseteq Records
  /\ \A t \in Threads : calls[t].conn # "none" /\ calls[t].op # "discover" => calls[t].used \in Records \ {0}
  /\ made \in 0 .. MaxCalls /\ watch.waited <= PasscodeTimeout

(* A call that ended, however it ended, left no session and no heartbeat.  *)
NothingLeftOpen ==
  \A t \in Threads :
    calls[t].pc = "ended" => calls[t].conn = "none" /\ calls[t].again = "none" /\ ~calls[t].beat

(* A backup is cut off only after a whole window without progress, and a   *)
(* device that falls silent is never waited for longer than two windows.   *)
StallBounds ==
  /\ calls["backup"].out = "stalled" /\ calls["backup"].pc = "closing" => watch.silence >= StallTimeout
  /\ watch.silence <= 2 * StallTimeout

(* Encryption reported as switched on is on; a device that applied the     *)
(* change and then dropped the connection is reported as failed only if it *)
(* could not be asked again (enable_encryption, _will_encrypt_now).        *)
AnswerIsTrue ==
  LET c == calls["consumer"]
  IN /\ Is("consumer", "encrypt", "closing") /\ c.out = "done" => device.encrypted
     /\ c.pc = "closing" /\ c.applied => c.out \in {"done", "unreachable"}

(* A backup ends, whatever the device does or does not do - but for one    *)
(* that keeps reporting progress for ever.                                 *)
BackupEnds == []<><<ReportProgress>>_engineVars \/ (BackupGoesOn ~> calls["backup"].pc = "ended")

(* Calls end clean and in time.                                            *)
CallsInv == EngineTypeOK /\ NothingLeftOpen /\ StallBounds
=============================================================================
