------------------------------ MODULE Handoff ------------------------------
(***************************************************************************)
(* Pairing from one's own computer: an admin creates a one-time code, the  *)
(* helper - or the script the server hands out - pairs the device over USB *)
(* and posts the pair record with the code. The hand-off endpoint is the   *)
(* server's one async route: it gives way only while the body arrives, but *)
(* the routes of the thread pool run beside it.                            *)
(***************************************************************************)
EXTENDS Helper, FiniteSets

CONSTANTS
  Codes,         \* codes that may be created
  Devices,       \* devices that may be plugged in
  MaxOpenCodes,  \* MAX_OPEN_CODES_PER_USER
  FreeAttempts,  \* failures of one address before it has to wait
  MaxPosts,      \* bound: hand-off requests
  MaxEvents      \* bound: events of the environment, each at most once

ASSUME HandoffAssumption == {MaxOpenCodes, FreeAttempts, MaxPosts, MaxEvents} \subseteq Nat

(* webkill: the web process dies    timeout: the client gives up waiting   *)
(* expire: a code's ten minutes pass    remove: the device is removed      *)
Events == {"webkill", "timeout", "expire", "remove"}
None == "none"

VARIABLES
  codes,     \* pairing_codes: state, whether it has expired, and consumed_udid
  rows,      \* devices that have a row
  records,   \* devices that have a pair record on disk
  creating,  \* create_code requests that passed the count
  posts,     \* the hand-off requests
  failures,  \* LoginThrottle: failures of the address
  removal,   \* a device removal under way, in a thread of the pool
  script,    \* where the script on another computer is
  accepted,  \* history: the devices each code was accepted for
  crossed,   \* history: a removal overlapped a hand-off
  happened

serverVars == <<codes, rows, records, creating, posts, failures, removal, script, accepted, crossed, happened>>
vars == <<helperVars, serverVars>>

Uses(event) ==
  /\ event \notin happened /\ Cardinality(happened) < MaxEvents
  /\ happened' = happened \cup {event}

NoCode == [state |-> "none", expired |-> FALSE, udid |-> None]
NoRemoval == [device |-> None, pc |-> "none"]
Posts == 1 .. Len(posts)
(* from is the helper's run, or 0 for the script.                          *)
Post(from, code, device) == [pc |-> "sent", from |-> from, code |-> code, device |-> device, inTime |-> FALSE]
Open(c) == codes[c].state = "open" /\ ~codes[c].expired
Handling == {"insert", "mark"}
(* Broken: the route runs in the thread pool, like the others.             *)
InThread == FALSE

InLoop == \E p \in Posts : posts[p].pc \in Handling
Moves(p, pc) == posts' = [posts EXCEPT ![p].pc = pc]

-----------------------------------------------------------------------------
(* The Add page. The count and the insert are two statements of a thread.  *)

CreateCounts(c) ==
  /\ codes[c].state = "none" /\ c \notin creating
  /\ Cardinality({d \in Codes : Open(d)}) < MaxOpenCodes
  /\ creating' = creating \cup {c}
  /\ UNCHANGED <<helperVars, codes, rows, records, posts, failures, removal, script, accepted, crossed, happened>>

CreateInserts(c) ==
  /\ c \in creating
  /\ creating' = creating \ {c}
  /\ codes' = [codes EXCEPT ![c].state = "open"]
  /\ UNCHANGED <<helperVars, rows, records, posts, failures, removal, script, accepted, crossed, happened>>

Expire(c) ==
  /\ codes[c].state # "none" /\ ~codes[c].expired /\ Uses("expire")
  /\ codes' = [codes EXCEPT ![c].expired = TRUE]
  /\ UNCHANGED <<helperVars, rows, records, creating, posts, failures, removal, script, accepted, crossed>>

(* Another route removes a device meanwhile: its rows, then its record.    *)
RemoveRows(d) ==
  /\ d \in rows /\ removal = NoRemoval /\ Uses("remove")
  /\ rows' = rows \ {d}
  /\ codes' = [c \in Codes |-> IF codes[c].udid = d THEN [codes[c] EXCEPT !.udid = None] ELSE codes[c]]
  /\ removal' = [device |-> d, pc |-> "record"]
  /\ crossed' = (crossed \/ InLoop)
  /\ UNCHANGED <<helperVars, records, creating, posts, failures, script, accepted>>

RemoveRecord ==
  /\ removal.pc = "record"
  /\ records' = records \ {removal.device}
  /\ removal' = NoRemoval
  /\ UNCHANGED <<helperVars, codes, rows, creating, posts, failures, script, accepted, crossed, happened>>

-----------------------------------------------------------------------------
(* The clients. Pairing works or not; that the device refuses to switch    *)
(* Wi-Fi backups on costs nothing.                                         *)

Send(r) ==
  /\ At(r, "pair", "talk") /\ Len(posts) < MaxPosts
  /\ \E c \in Codes, d \in Devices :
       codes[c].state # "none" /\ posts' = Append(posts, Post(r, c, d))
  /\ GoesHolding(r, "sent", {})
  /\ UNCHANGED <<ui, stopped, uiQueue, latest, overlapped>>
  /\ UNCHANGED <<codes, rows, records, creating, failures, removal, script, accepted, crossed, happened>>

PairingFails(r) ==
  /\ At(r, "pair", "talk") \/ At(r, "pair", "done")
  /\ PairEnds(r, "failed")
  /\ UNCHANGED serverVars

(* The server hands the script out only while the code could still be used.*)
ScriptSends ==
  /\ script = "none" /\ Len(posts) < MaxPosts
  /\ \E c \in Codes, d \in Devices : Open(c) /\ posts' = Append(posts, Post(0, c, d))
  /\ script' = "sent"
  /\ UNCHANGED <<helperVars, codes, rows, records, creating, failures, removal, accepted, crossed, happened>>

(* The answer of post p reaches a client that still waits for it.          *)
Answered(p, outcome) ==
  LET r == posts[p].from
  IN IF r = 0 THEN script' = outcome /\ UNCHANGED helperVars
     ELSE /\ UNCHANGED script
          /\ IF At(r, "pair", "sent") THEN PairEnds(r, outcome) ELSE UNCHANGED helperVars

(* 30 seconds without an answer: the client reports a failure. The server  *)
(* goes on with the request.                                               *)
GivesUp(p) ==
  /\ posts[p].pc \in {"sent", "reading"} \cup Handling
  /\ Uses("timeout")
  /\ Answered(p, "failed")
  /\ UNCHANGED <<codes, rows, records, creating, posts, failures, removal, accepted, crossed>>

-----------------------------------------------------------------------------
(* pair_handoff. `now` is taken and the throttle asked before the body is  *)
(* awaited; what follows runs without giving way to other async handlers.  *)

PostBegins(p) ==
  /\ posts[p].pc = "sent" /\ ~InLoop
  /\ \/ /\ posts' = [posts EXCEPT ![p].pc = "reading", ![p].inTime = ~codes[posts[p].code].expired]
        /\ UNCHANGED <<helperVars, script>>
     \/ /\ failures >= FreeAttempts    \* 429: the wait is not over
        /\ Moves(p, "ended") /\ Answered(p, "failed")
  /\ UNCHANGED <<codes, rows, records, creating, failures, removal, accepted, crossed, happened>>

(* Broken: used_at is not looked at.                                       *)
ConsumeUsed(p) == posts[p].inTime

(* consume: the row, if it is open - judged by the time the request came.  *)
Consume(p) == codes[posts[p].code].state = "open" /\ posts[p].inTime

(* Broken: the row is inserted before the record is stored.                *)
PostInsertsFirst(p) ==
  /\ posts[p].pc = "reading" /\ ~InLoop /\ Consume(p)
  /\ rows' = rows \cup {posts[p].device}
  /\ accepted' = [accepted EXCEPT ![posts[p].code] = @ \cup {posts[p].device}]
  /\ Moves(p, "mark")
  /\ UNCHANGED <<helperVars, codes, records, creating, failures, removal, script, crossed, happened>>

(* The code, then the record are refused with the same answer; else the    *)
(* record is stored.                                                       *)
PostStores(p) ==
  /\ posts[p].pc = "reading" /\ ~InLoop
  /\ \/ /\ Consume(p)
        /\ records' = records \cup {posts[p].device}
        /\ Moves(p, "insert")
        /\ crossed' = (crossed \/ removal # NoRemoval)
        /\ UNCHANGED <<helperVars, script, failures>>
     \/ /\ failures' = IF failures < FreeAttempts THEN failures + 1 ELSE failures
        /\ Moves(p, "ended") /\ Answered(p, "failed")
        /\ UNCHANGED <<records, crossed>>
  /\ UNCHANGED <<codes, rows, creating, removal, accepted, happened>>

PostInserts(p) ==
  /\ posts[p].pc = "insert"
  /\ rows' = rows \cup {posts[p].device}
  /\ accepted' = [accepted EXCEPT ![posts[p].code] = @ \cup {posts[p].device}]
  /\ Moves(p, "mark")
  /\ UNCHANGED <<helperVars, codes, records, creating, failures, removal, script, crossed, happened>>

PostMarks(p) ==
  /\ posts[p].pc = "mark"
  /\ codes' = [codes EXCEPT ![posts[p].code].state = "used", ![posts[p].code].udid = posts[p].device]
  /\ failures' = 0
  /\ Moves(p, "ended") /\ Answered(p, "paired")
  /\ UNCHANGED <<rows, records, creating, removal, accepted, crossed, happened>>

(* Every request under way ends without an answer; failures are forgotten. *)
WebKill ==
  /\ Uses("webkill")
  /\ posts' = [p \in Posts |-> [posts[p] EXCEPT !.pc = "ended"]]
  /\ creating' = {} /\ removal' = NoRemoval /\ failures' = 0
  /\ LET waiting == {r \in Runs : At(r, "pair", "sent")}
     IN IF waiting = {} THEN UNCHANGED helperVars ELSE \E r \in waiting : PairEnds(r, "failed")
  /\ script' = IF script = "sent" THEN "failed" ELSE script
  /\ UNCHANGED <<codes, rows, records, accepted, crossed>>

-----------------------------------------------------------------------------
Init ==
  /\ HelperInit
  /\ codes = [c \in Codes |-> NoCode]
  /\ rows = {} /\ records = {}
  /\ creating = {} /\ posts = <<>> /\ failures = 0 /\ removal = NoRemoval /\ script = "none"
  /\ accepted = [c \in Codes |-> {}] /\ crossed = FALSE /\ happened = {}

ServerStep == \E p \in Posts : PostBegins(p) \/ PostStores(p) \/ PostInserts(p) \/ PostMarks(p)
MainStep == PollQueue /\ UNCHANGED serverVars
HelperStep == \E r \in Runs : (WorkerStep(r) /\ UNCHANGED serverVars) \/ PairingFails(r)

Next ==
  \/ Click /\ UNCHANGED serverVars
  \/ MainStep \/ HelperStep \/ (\E r \in Runs : Send(r)) \/ ScriptSends
  \/ \E c \in Codes : CreateCounts(c) \/ CreateInserts(c) \/ Expire(c)
  \/ \E d \in Devices : RemoveRows(d)
  \/ RemoveRecord
  \/ ServerStep \/ (\E p \in Posts : GivesUp(p))
  \/ WebKill

(* Threads go on, the main thread polls, the server answers.               *)
Fairness == WF_vars(MainStep) /\ WF_vars(HelperStep) /\ WF_vars(ServerStep)

Spec == Init /\ [][Next]_vars /\ Fairness

-----------------------------------------------------------------------------
(* Every variable keeps its shape; at most one request is between two      *)
(* awaits, and a code that names a device was used.                        *)
TypeOK ==
  /\ HelperTypeOK
  /\ codes \in [Codes -> [state : {"none", "open", "used"}, expired : BOOLEAN, udid : Devices \cup {None}]]
  /\ rows \cup records \subseteq Devices
  /\ failures \in 0 .. FreeAttempts
  /\ Cardinality({p \in Posts : posts[p].pc \in Handling}) <= 1
  /\ \A c \in Codes : codes[c].udid # None => codes[c].state = "used"

(* A code adds one device, whichever requests come with it at the same     *)
(* time - unless the web process is killed between the insert and the mark.*)
OneDevicePerCode ==
  \A c \in Codes : Cardinality(accepted[c]) <= 1 \/ "webkill" \in happened

(* A device added with a code has its pair record on disk, wherever the    *)
(* web process was killed. Only a removal that overlaps the hand-off can   *)
(* break this.                                                             *)
RowHasRecord == rows \subseteq records \/ crossed

(* Whatever becomes of the device, the server and the network, the buttons *)
(* of the helper come back.                                                *)
ButtonsComeBack == ui.busy ~> ~ui.busy

(* The hand-off, whoever comes with a code.                                *)
HandoffInv == TypeOK /\ OneDevicePerCode /\ RowHasRecord
=============================================================================
