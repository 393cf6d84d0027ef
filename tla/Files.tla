------------------------------- MODULE Files -------------------------------
(***************************************************************************)
(* Looking into one device's backups from one browser: the tabs of a       *)
(* session unlock generations, tick rows, download and sign out while a    *)
(* backup rewrites the latest one, retention removes the older one and the *)
(* backup password of the device is changed. What the web process          *)
(* remembers - passwords, ticks - lives in its memory and expires.         *)
(***************************************************************************)
EXTENDS Integers, FiniteSets, Sequences

CONSTANTS
  Tabs,           \* the tabs of the browser
  Ttl,            \* BACKUP_PASSWORD_TTL, in ticks of the clock
  SweepEvery,     \* BACKUP_PASSWORD_SWEEP_SECONDS, in ticks
  MaxEntries,     \* MAX_SELECTION_ENTRIES
  FilePaths,      \* what every generation holds: <<domain, component, ...>>
  Folded(_),      \* a path as SQLite's LIKE compares it: without its case
  TickRows,       \* bound: the rows that are ticked
  MaxHandles,     \* bound: browse handles given out
  MaxAsked,       \* bound: requests
  MaxEvents       \* bound: events of the environment, each at most once

Gens == {"latest", "older"}
Passwords == {"k1", "k2"}
Contents == Passwords \cup {"clear", "gone"}      \* the keybag of a generation
Handles == 1 .. MaxHandles
SignedOut == -1

(* The rows of the columns: areas, folders and files.                      *)
Rows == UNION {{SubSeq(p, 1, n) : n \in 1 .. Len(p)} : p \in FilePaths}
Names == UNION {{p[i] : i \in DOMAIN p} : p \in FilePaths}

ASSUME FilesAssumption ==
  /\ {Ttl, SweepEvery, MaxAsked, MaxHandles} \subseteq Nat \ {0} /\ {MaxEntries, MaxEvents} \subseteq Nat
  /\ TickRows \subseteq Rows
  /\ \A p \in FilePaths : p \in Seq(Names) /\ Len(p) > 1
  /\ \A p \in FilePaths :                               \* LIKE folds letter by letter
       /\ Folded(p) \in Seq({Folded(p)[i] : i \in DOMAIN Folded(p)}) /\ Len(Folded(p)) = Len(p)
       /\ \A m, n \in 1 .. Len(p) : Folded(SubSeq(p, m, n)) = SubSeq(Folded(p), m, n)

(* change: the backup password is changed   remove: retention              *)
(* backup: a backup of the device           webkill: the web process dies  *)
Events == {"change", "remove", "backup", "webkill"}

VARIABLES
  disk,      \* the keybag each generation carries
  onDevice,  \* the backup password the device uses
  run,       \* the running row of runs and what the engine does to the latest backup
  cookie,    \* the session in the browser: signed out, or its browse handle (0: none yet)
  store,     \* backup_passwords
  ticked,    \* file_selections
  sinceSweep,
  tabs,      \* the request each tab waits for
  thread,    \* run_password_change
  mark,      \* devices.password_checked_at and password_check_result
  quiet,     \* history: handles locked since, and by no request that was under way
  changes,   \* history: password changes completed
  issued,    \* browse handles given out
  asked, happened

memory == <<store, ticked>>
history == <<quiet, changes>>
bounds == <<issued, asked, happened>>
vars == <<disk, onDevice, run, cookie, memory, sinceSweep, tabs, thread, mark, history, bounds>>

NoEntry == [key |-> "none", left |-> 0]
NoTicks == [rows |-> {}, left |-> 0]
NoMark == [result |-> "none", began |-> 0, crossed |-> FALSE]
Idle == [kind |-> "none", pc |-> "none", gen |-> "latest", handle |-> 0, key |-> "none",
         old |-> FALSE, overtaken |-> FALSE, torn |-> FALSE, began |-> 0]

Uses(event) ==
  /\ event \notin happened /\ Cardinality(happened) < MaxEvents
  /\ happened' = happened \cup {event}

-----------------------------------------------------------------------------
(* The two stores.                                                         *)

Held(h) == {g \in Gens : h \in Handles /\ store[h][g].key # "none"}
Expired(h) == {g \in Held(h) : store[h][g].left <= 0}

(* _sweep, as part of a read: every expired password goes.                 *)
Swept == [h \in Handles |-> [g \in Gens |-> IF g \in Expired(h) THEN NoEntry ELSE store[h][g]]]

(* candidate_passwords.                                                    *)
Candidates(h) == {store[h][g].key : g \in Held(h) \ Expired(h)}

(* selection_of: reading pushes the deadline out, expired or not.          *)
Ticks(h, g) == IF h = 0 THEN {} ELSE ticked[h][g].rows
TicksRead(h, g) ==
  IF Ticks(h, g) = {} THEN ticked ELSE [ticked EXCEPT ![h][g].left = Ttl]

-----------------------------------------------------------------------------
(* Which rows a selection covers, three times: covered_by in the columns,  *)
(* the row's own box, and the query that expands it for the archive.       *)

Covers(chosen, row) ==
  \E n \in 1 .. Len(row) - 1 : SubSeq(row, 1, n) \in chosen

(* Broken: a ticked folder stands for itself.                              *)
OnlyTicked(chosen) == FilePaths \cap chosen

(* selection_file_ids: a whole area, the file itself, or LIKE folder/%.    *)
SelectionFileIds(chosen) ==
  {p \in FilePaths : \E c \in chosen :
     \/ p = c
     \/ /\ Len(c) < Len(p) /\ c[1] = p[1]
        /\ Folded(SubSeq(p, 2, Len(c))) = Folded(SubSeq(c, 2, Len(c)))}

-----------------------------------------------------------------------------
(* Requests. The session cookie is read when a request arrives and may be  *)
(* written again by its response.                                          *)

Kinds == {"browse", "unlock", "select", "lock", "logout", "file", "archive", "check"}
FirstStep(kind) ==
  CASE kind \in {"lock", "logout"} -> "passwords"
    [] kind \in {"file", "archive"} -> "guard"
    [] kind = "browse" -> "page"
    [] OTHER -> "form"

Arrive(t, kind, g) ==
  /\ tabs[t] = Idle /\ cookie # SignedOut
  /\ asked < MaxAsked /\ asked' = asked + 1
  /\ kind \in {"lock", "logout", "check"} => g = "latest"
  /\ kind \in {"select", "archive"} => g = "latest"   \* bound: only the latest backup is ticked in
  /\ tabs' = [tabs EXCEPT ![t] = [Idle EXCEPT !.kind = kind, !.pc = FirstStep(kind), !.gen = g,
                                     !.handle = cookie, !.began = IF kind = "check" THEN changes ELSE 0]]
  /\ quiet' = IF kind = "unlock" THEN quiet \ {cookie} ELSE quiet
  /\ UNCHANGED <<disk, onDevice, run, cookie, memory, sinceSweep, thread, mark, changes,
                 issued, happened>>

SignIn ==
  /\ cookie = SignedOut
  /\ cookie' = 0
  /\ UNCHANGED <<disk, onDevice, run, memory, sinceSweep, tabs, thread, mark, history, bounds>>

(* The response of tab t: the middleware sends the session along, always   *)
(* when the request changed it.                                            *)
Responds(t, session) ==
  /\ tabs' = [tabs EXCEPT ![t] = Idle]
  /\ cookie' \in {session} \cup (IF session = tabs[t].handle THEN {cookie} ELSE {})

Moves(t, pc) == tabs' = [tabs EXCEPT ![t].pc = pc] /\ UNCHANGED cookie

(* Opening a generation with a password; while the engine rewrites it, the *)
(* index may not be readable at all.                                       *)
BeingRewritten(g) == g = "latest" /\ run = "writing"
Opens(g, key) == disk[g] = "clear" \/ (disk[g] = key /\ key # "none")
Readings(g, key) ==
  {IF Opens(g, key) THEN "opens" ELSE IF key = "none" THEN "locked" ELSE "wrong"}
    \cup (IF BeingRewritten(g) THEN {"unreadable"} ELSE {})

(* Broken: asks what the engine does instead of what the table says.       *)
EngineIsWriting(g) == g = "latest" /\ run = "writing"

(* live_backup_is_being_written: a running row.                            *)
LiveBackupIsBeingWritten(g) == g = "latest" /\ run # "none"

(* files_page: recall_backup_password, or the candidates next.             *)
OpenPage(t) ==
  LET r == tabs[t]  h == r.handle IN
  /\ r.pc = "page"
  /\ IF LiveBackupIsBeingWritten(r.gen) \/ disk[r.gen] = "gone"
     THEN Responds(t, h) /\ UNCHANGED store
     ELSE IF h # 0 /\ r.gen \in Held(h) \ Expired(h)
     THEN /\ store' = [Swept EXCEPT ![h][r.gen].left = Ttl]
          /\ tabs' = [tabs EXCEPT ![t].pc = "columns", ![t].key = store[h][r.gen].key]
          /\ UNCHANGED cookie
     ELSE /\ store' = IF h = 0 THEN store ELSE Swept
          /\ tabs' = [tabs EXCEPT ![t].key = "none",
                        ![t].pc = IF disk[r.gen] = "clear" THEN "columns" ELSE "candidates"]
          /\ UNCHANGED cookie
  /\ UNCHANGED <<disk, onDevice, run, ticked, sinceSweep, thread, mark, history, bounds>>

(* Broken: what the session holds is taken over without being tried.       *)
TakeCandidate(t) ==
  LET r == tabs[t] IN
  /\ r.pc = "candidates"
  /\ store' = IF r.handle = 0 THEN store ELSE Swept
  /\ \/ \E k \in Candidates(r.handle) : tabs' = [tabs EXCEPT ![t].pc = "remember", ![t].key = k]
     \/ /\ Candidates(r.handle) = {}
        /\ tabs' = [tabs EXCEPT ![t].pc = "columns"]
  /\ UNCHANGED <<disk, onDevice, run, cookie, ticked, sinceSweep, thread, mark, history, bounds>>

(* Each candidate is tried on the generation until one opens it.           *)
TryCandidates(t) ==
  LET r == tabs[t]
      opening == {k \in Candidates(r.handle) : "opens" \in Readings(r.gen, k)}
  IN
  /\ r.pc = "candidates"
  /\ store' = IF r.handle = 0 THEN store ELSE Swept
  /\ \/ \E k \in opening : tabs' = [tabs EXCEPT ![t].pc = "remember", ![t].key = k]
     \/ /\ opening = {} \/ BeingRewritten(r.gen)
        /\ tabs' = [tabs EXCEPT ![t].pc = "columns"]
  /\ UNCHANGED <<disk, onDevice, run, cookie, ticked, sinceSweep, thread, mark, history, bounds>>

(* device_files_unlock: the password that was typed, tried at once.        *)
Unlock(t) ==
  LET r == tabs[t] IN
  /\ r.pc = "form" /\ r.kind = "unlock"
  /\ IF disk[r.gen] = "gone" THEN Responds(t, r.handle)
     ELSE \E typed \in Passwords : \E reading \in Readings(r.gen, typed) :
            /\ tabs' = [tabs EXCEPT ![t].key = IF reading = "opens" THEN typed ELSE "none",
                                    ![t].pc = IF reading = "opens" THEN "remember" ELSE "page"]
            /\ UNCHANGED cookie
  /\ UNCHANGED <<disk, onDevice, run, memory, sinceSweep, thread, mark, history, bounds>>

(* Broken: a handle nobody keeps.                                          *)
HandleOfNobody(t, h) ==
  IF tabs[t].handle # 0 THEN h = tabs[t].handle /\ UNCHANGED issued
  ELSE issued < MaxHandles /\ h = issued + 1 /\ UNCHANGED issued

(* The handle a request writes under: the session's own, or a new one.     *)
Writes(t, h) ==
  IF tabs[t].handle # 0 THEN h = tabs[t].handle /\ UNCHANGED issued
  ELSE issued < MaxHandles /\ h = issued + 1 /\ issued' = h

RememberBackupPassword(t) ==
  LET r == tabs[t] IN
  /\ r.pc = "remember"
  /\ \E h \in Handles :
       /\ Writes(t, h)
       /\ store' = [store EXCEPT ![h][r.gen] = [key |-> r.key, left |-> Ttl]]
       /\ IF r.kind = "unlock" THEN Responds(t, h)
          ELSE tabs' = [tabs EXCEPT ![t].pc = "columns", ![t].handle = h] /\ UNCHANGED cookie
  /\ quiet' = IF r.old THEN quiet \ {r.handle} ELSE quiet
  /\ UNCHANGED <<disk, onDevice, run, ticked, sinceSweep, thread, mark, changes, asked, happened>>

(* browse_columns and the ticks; a password that does not open it is       *)
(* forgotten with all others of the device.                                *)
ReadColumns(t) ==
  LET r == tabs[t] IN
  /\ r.pc = "columns"
  /\ \E reading \in IF disk[r.gen] = "gone" THEN {"unreadable"} ELSE Readings(r.gen, r.key) :
       /\ store' = IF reading = "wrong" /\ r.handle # 0
                   THEN [store EXCEPT ![r.handle] = [g \in Gens |-> NoEntry]] ELSE store
       /\ ticked' = TicksRead(r.handle, r.gen)
  /\ Responds(t, r.handle)
  /\ UNCHANGED <<disk, onDevice, run, sinceSweep, thread, mark, history, bounds>>

(* change_selection, then the page again; too many entries change nothing. *)
ChangeSelection(t) ==
  LET r == tabs[t] IN
  /\ r.pc = "form" /\ r.kind = "select"
  /\ \E h \in Handles, row \in TickRows, on \in BOOLEAN :
       LET had == ticked[h][r.gen].rows
           rows == IF on THEN had \cup {row} ELSE had \ {row}
       IN
       /\ Writes(t, h)
       /\ ticked' = IF Cardinality(rows) > MaxEntries THEN ticked
                    ELSE [ticked EXCEPT ![h][r.gen] =
                            IF rows = {} THEN NoTicks ELSE [rows |-> rows, left |-> Ttl]]
       /\ tabs' = [tabs EXCEPT ![t].pc = "page", ![t].handle = h]
  /\ UNCHANGED <<disk, onDevice, run, cookie, store, sinceSweep, thread, mark, history,
                 asked, happened>>

ForgetSelections(h) ==
  IF h = 0 THEN ticked ELSE [ticked EXCEPT ![h] = [g \in Gens |-> NoTicks]]

ClearSelection(t) ==
  /\ tabs[t].pc = "form" /\ tabs[t].kind = "select"
  /\ ticked' = ForgetSelections(tabs[t].handle)
  /\ Moves(t, "page")
  /\ UNCHANGED <<disk, onDevice, run, store, sinceSweep, thread, mark, history, bounds>>

(* Broken: forgets the generation that is looked at.                       *)
ForgetLatest(h) == IF h = 0 THEN store ELSE [store EXCEPT ![h]["latest"] = NoEntry]

ForgetBackupPasswords(h) ==
  IF h = 0 THEN store ELSE [store EXCEPT ![h] = [g \in Gens |-> NoEntry]]

(* device_files_lock and logout: the passwords, then the ticks.            *)
LockPasswords(t) ==
  LET h == tabs[t].handle IN
  /\ tabs[t].pc = "passwords"
  /\ store' = ForgetBackupPasswords(h)
  /\ quiet' = quiet \cup ({h} \ {0})
  /\ tabs' = [u \in Tabs |-> IF u = t THEN [tabs[u] EXCEPT !.pc = "ticks"]
                             ELSE [tabs[u] EXCEPT !.old = @ \/ (tabs[u] # Idle /\ tabs[u].handle = h)]]
  /\ UNCHANGED <<disk, onDevice, run, cookie, ticked, sinceSweep, thread, mark, changes, bounds>>

LockSelections(t) ==
  /\ tabs[t].pc = "ticks"
  /\ ticked' = ForgetSelections(tabs[t].handle)
  /\ Responds(t, IF tabs[t].kind = "logout" THEN SignedOut ELSE tabs[t].handle)
  /\ UNCHANGED <<disk, onDevice, run, store, sinceSweep, thread, mark, history, bounds>>

-----------------------------------------------------------------------------
(* Downloads: one file, or an archive of what is ticked.                   *)

Refuse(t) ==
  /\ tabs[t].pc = "guard"
  /\ LiveBackupIsBeingWritten(tabs[t].gen) \/ disk[tabs[t].gen] = "gone"
  /\ Responds(t, tabs[t].handle)
  /\ UNCHANGED <<disk, onDevice, run, memory, sinceSweep, thread, mark, history, bounds>>

PassGuard(t) ==
  /\ tabs[t].pc = "guard"
  /\ ~LiveBackupIsBeingWritten(tabs[t].gen) /\ disk[tabs[t].gen] # "gone"
  /\ Moves(t, "open")
  /\ UNCHANGED <<disk, onDevice, run, memory, sinceSweep, thread, mark, history, bounds>>

(* The password is recalled, the index is read with it and the response    *)
(* begins; an archive of nothing sends the browser back to the page.       *)
StartStream(t) ==
  LET r == tabs[t]  h == r.handle
      recalled == h # 0 /\ r.gen \in Held(h) \ Expired(h)
      key == IF recalled THEN store[h][r.gen].key ELSE "none"
  IN
  /\ r.pc = "open"
  /\ store' = IF recalled THEN [Swept EXCEPT ![h][r.gen].left = Ttl]
              ELSE IF h = 0 THEN store ELSE Swept
  /\ ticked' = IF r.kind = "archive" THEN TicksRead(h, r.gen) ELSE ticked
  /\ \E reading \in IF disk[r.gen] = "gone" THEN {"unreadable"} ELSE Readings(r.gen, key) :
       IF reading = "opens" /\ (r.kind = "archive" => SelectionFileIds(Ticks(h, r.gen)) # {})
       THEN /\ tabs' = [tabs EXCEPT ![t].pc = "stream", ![t].key = key]
            /\ cookie' \in {h, cookie}
       ELSE Responds(t, h)
  /\ UNCHANGED <<disk, onDevice, run, sinceSweep, thread, mark, history, bounds>>

(* A piece is read from disk; for an archive the index is opened anew for  *)
(* each file.                                                              *)
StreamPiece(t) ==
  LET r == tabs[t] IN
  /\ r.pc = "stream" /\ disk[r.gen] # "gone"
  /\ r.kind = "archive" => "opens" \in Readings(r.gen, r.key)
  /\ tabs' = [tabs EXCEPT ![t].torn = @ \/ BeingRewritten(r.gen)]
  /\ UNCHANGED <<disk, onDevice, run, cookie, memory, sinceSweep, thread, mark, history, bounds>>

EndStream(t) ==
  /\ tabs[t].pc = "stream"
  /\ tabs' = [tabs EXCEPT ![t] = Idle]
  /\ UNCHANGED <<disk, onDevice, run, cookie, memory, sinceSweep, thread, mark, history, bounds>>

-----------------------------------------------------------------------------
(* The password check and the change of the backup password.               *)

(* password_check.check: the latest backup's keybag says what it says;     *)
(* without encryption, or unreadable, nothing is recorded.                 *)
CheckPassword(t) ==
  LET r == tabs[t] IN
  /\ r.pc = "form" /\ r.kind = "check"
  /\ \/ \E typed \in Passwords :
        /\ disk["latest"] \in Passwords
        /\ tabs' = [tabs EXCEPT ![t].pc = "mark",
                      ![t].key = IF disk["latest"] = typed THEN "correct" ELSE "wrong"]
        /\ UNCHANGED cookie
     \/ (disk["latest"] \notin Passwords \/ BeingRewritten("latest")) /\ Responds(t, r.handle)
  /\ UNCHANGED <<disk, onDevice, run, memory, sinceSweep, thread, mark, history, bounds>>

RecordCheck(t) ==
  LET r == tabs[t] IN
  /\ r.pc = "mark"
  /\ mark' = [result |-> r.key, began |-> r.began, crossed |-> r.began # changes]
  /\ Responds(t, r.handle)
  /\ UNCHANGED <<disk, onDevice, run, memory, sinceSweep, thread, history, bounds>>

AskPasswordChange ==
  /\ thread = "none" /\ onDevice # "clear" /\ cookie # SignedOut
  /\ Uses("change")
  /\ thread' = "call"
  /\ UNCHANGED <<disk, onDevice, run, cookie, memory, sinceSweep, tabs, mark, history, issued, asked>>

(* run_password_change: the call to the device, which may fail.            *)
ChangeOnDevice ==
  /\ thread = "call"
  /\ \/ onDevice' \in Passwords \ {onDevice} /\ thread' = "done"
     \/ thread' = "none" /\ UNCHANGED onDevice
  /\ UNCHANGED <<disk, run, cookie, memory, sinceSweep, tabs, mark, history, bounds>>

(* Broken: clears the reminder after a wrong answer only.                  *)
ClearsWrong ==
  /\ thread = "done"
  /\ thread' = "none" /\ changes' = changes + 1
  /\ mark' = IF mark.result = "wrong" THEN NoMark ELSE mark
  /\ UNCHANGED <<disk, onDevice, run, cookie, memory, sinceSweep, tabs, quiet, bounds>>

(* ... and its answer, which clears what was checked before.               *)
ChangeDone ==
  /\ thread = "done"
  /\ thread' = "none" /\ changes' = changes + 1
  /\ mark' = NoMark
  /\ UNCHANGED <<disk, onDevice, run, cookie, memory, sinceSweep, tabs, quiet, bounds>>

-----------------------------------------------------------------------------
(* The clock, the sweeper, backups, retention and kills.                   *)

Aged(entry) == [entry EXCEPT !.left = @ - 1]
HoldsSomething == \E h \in Handles, g \in Gens : g \in Held(h) \/ ticked[h][g].rows # {}

Tick ==
  /\ HoldsSomething /\ sinceSweep < SweepEvery
  /\ sinceSweep' = sinceSweep + 1
  /\ store' = [h \in Handles |-> [g \in Gens |-> IF g \in Held(h) THEN Aged(store[h][g]) ELSE NoEntry]]
  /\ ticked' = [h \in Handles |-> [g \in Gens |->
                  IF ticked[h][g].rows # {} THEN Aged(ticked[h][g]) ELSE NoTicks]]
  /\ UNCHANGED <<disk, onDevice, run, cookie, tabs, thread, mark, history, bounds>>

(* Broken: the ticks go, the passwords stay until they are read.           *)
SweepTicks ==
  /\ sinceSweep > 0 /\ sinceSweep' = 0
  /\ ticked' = [h \in Handles |-> [g \in Gens |->
                  IF ticked[h][g].left <= 0 THEN NoTicks ELSE ticked[h][g]]]
  /\ UNCHANGED <<disk, onDevice, run, cookie, store, tabs, thread, mark, history, bounds>>

(* sweep_backup_passwords_forever, in time.                                *)
SweepBackupPasswords ==
  /\ sinceSweep > 0 /\ sinceSweep' = 0
  /\ store' = Swept
  /\ ticked' = [h \in Handles |-> [g \in Gens |->
                  IF ticked[h][g].left <= 0 THEN NoTicks ELSE ticked[h][g]]]
  /\ UNCHANGED <<disk, onDevice, run, cookie, tabs, thread, mark, history, bounds>>

BackupStarts ==
  /\ run = "none" /\ Uses("backup")
  /\ run' = "recorded"
  /\ tabs' = [t \in Tabs |-> [tabs[t] EXCEPT !.overtaken =
                @ \/ (tabs[t].pc \in {"open", "stream"} /\ tabs[t].gen = "latest")]]
  /\ UNCHANGED <<disk, onDevice, cookie, memory, sinceSweep, thread, mark, history, issued, asked>>

EngineWrites ==
  /\ run = "recorded"
  /\ run' = "writing"
  /\ disk' \in {disk, [disk EXCEPT !["latest"] = onDevice]}
  /\ UNCHANGED <<onDevice, cookie, memory, sinceSweep, tabs, thread, mark, history, bounds>>

BackupEnds ==
  /\ run # "none"
  /\ run' = "none"
  /\ disk' \in {disk} \cup (IF run = "writing" THEN {[disk EXCEPT !["latest"] = onDevice]} ELSE {})
  /\ UNCHANGED <<onDevice, cookie, memory, sinceSweep, tabs, thread, mark, history, bounds>>

RetentionRemoves ==
  /\ disk["older"] # "gone" /\ Uses("remove")
  /\ disk' = [disk EXCEPT !["older"] = "gone"]
  /\ UNCHANGED <<onDevice, run, cookie, memory, sinceSweep, tabs, thread, mark, history, issued, asked>>

WebKill ==
  /\ Uses("webkill")
  /\ store' = [h \in Handles |-> [g \in Gens |-> NoEntry]]
  /\ ticked' = [h \in Handles |-> [g \in Gens |-> NoTicks]]
  /\ tabs' = [t \in Tabs |-> Idle]
  /\ thread' = "none" /\ sinceSweep' = 0
  /\ UNCHANGED <<disk, onDevice, run, cookie, mark, history, issued, asked>>

-----------------------------------------------------------------------------
Init ==
  /\ \E key \in Contents \ {"gone"} :
       /\ disk = [g \in Gens |-> IF g = "latest" THEN key ELSE "k1"]
       /\ onDevice = IF key = "clear" THEN key ELSE "k2"    \* changed since that backup, or not
  /\ run = "none" /\ cookie = 0
  /\ store = [h \in Handles |-> [g \in Gens |-> NoEntry]]
  /\ ticked = [h \in Handles |-> [g \in Gens |-> NoTicks]]
  /\ sinceSweep = 0 /\ tabs = [t \in Tabs |-> Idle]
  /\ thread = "none" /\ mark = NoMark
  /\ quiet = {} /\ changes = 0 /\ issued = 0 /\ asked = 0 /\ happened = {}

Asks(t) ==
  \E kind \in Kinds, g \in Gens : Arrive(t, kind, g)

Pages(t) ==
  \/ OpenPage(t) \/ TryCandidates(t) \/ Unlock(t) \/ RememberBackupPassword(t)
  \/ ReadColumns(t) \/ ChangeSelection(t) \/ ClearSelection(t)
  \/ LockPasswords(t) \/ LockSelections(t)

Downloads(t) == Refuse(t) \/ PassGuard(t) \/ StartStream(t) \/ StreamPiece(t) \/ EndStream(t)

Checks(t) == CheckPassword(t) \/ RecordCheck(t)

Environment ==
  \/ SignIn \/ AskPasswordChange \/ ChangeOnDevice \/ ChangeDone
  \/ Tick \/ SweepBackupPasswords \/ BackupStarts \/ EngineWrites \/ BackupEnds
  \/ RetentionRemoves \/ WebKill

Next == Environment \/ \E t \in Tabs : Asks(t) \/ Pages(t) \/ Downloads(t) \/ Checks(t)

Spec == Init /\ [][Next]_vars

-----------------------------------------------------------------------------
(* Every variable holds a value of its kind.                               *)
TypeOK ==
  /\ disk \in [Gens -> Contents] /\ disk["latest"] # "gone"
  /\ onDevice \in Passwords \cup {"clear"}
  /\ run \in {"none", "recorded", "writing"}
  /\ cookie \in {SignedOut, 0} \cup Handles
  /\ \A h \in Handles, g \in Gens :
       /\ store[h][g].key \in Passwords \cup {"none"}
       /\ g \in Held(h) \/ ticked[h][g].rows # {} => h <= issued
       /\ ticked[h][g].rows \subseteq Rows /\ Cardinality(ticked[h][g].rows) <= MaxEntries
  /\ \A t \in Tabs : tabs[t].handle \in {0} \cup Handles /\ tabs[t].gen \in Gens
  /\ thread \in {"none", "call", "done"}
  /\ mark.result \in {"none", "correct", "wrong"}
  /\ quiet \subseteq Handles /\ happened \subseteq Events

(* A password held for an older generation opens it, wherever it came from *)
(* - typed for it, or tried because it opened another one -, whatever has  *)
(* been rewritten and changed since (candidate_passwords, files_page).     *)
HeldOpens ==
  \A h \in Handles :
    "older" \in Held(h) /\ disk["older"] # "gone" => Opens("older", store[h]["older"].key)

(* "Held for fifteen minutes" is true of the memory too: what nobody used  *)
(* for that long is gone at the next sweep, also under the handle of a     *)
(* session that has lost it (sweep_backup_passwords_forever).              *)
HeldForTtl ==
  \A h \in Handles, g \in Gens :
    /\ g \in Held(h) => store[h][g].left > -SweepEvery
    /\ ticked[h][g].rows # {} => ticked[h][g].left > -SweepEvery

(* After "lock" and after signing out, a session holds no password until   *)
(* one is typed again: only a request that was already under way can bring *)
(* one back (forget_backup_passwords against files_page).                  *)
LockHolds == \A h \in quiet : Held(h) = {}

(* A download hands out bytes of a backup that is being rewritten only     *)
(* when that run was recorded after the download had been let through      *)
(* (live_backup_is_being_written).                                         *)
OnlyOvertakenIsTorn == \A t \in Tabs : tabs[t].torn => tabs[t].overtaken

(* The archive holds every file whose box is ticked or shown as covered by *)
(* a ticked row, and nothing that is not below a ticked row when case is   *)
(* set aside (covered_by and selection_file_ids, written independently).   *)
ArchiveIsWhatIsTicked ==
  \A h \in Handles, g \in Gens :
    LET chosen == ticked[h][g].rows  archive == SelectionFileIds(chosen) IN
    /\ {p \in FilePaths : p \in chosen \/ Covers(chosen, p)} \subseteq archive
    /\ \A p \in archive : p \in chosen \/ Covers({Folded(c) : c \in chosen}, Folded(p))

(* What the device page says of a password check is forgotten by a change  *)
(* of the password that finishes after it: only a check that was under way *)
(* while the change finished leaves its result (run_password_change).      *)
OldCheckForgotten == mark.result # "none" /\ mark.began < changes => mark.crossed

(* What is kept of a session's passwords and of the checks of them.        *)
PasswordsInv == TypeOK /\ HeldOpens /\ HeldForTtl /\ LockHolds /\ OldCheckForgotten
=============================================================================
