----------------------------- MODULE FilesProofs -----------------------------
(***************************************************************************)
(* Theorems about Files, for any tabs, paths, times and bounds: what is    *)
(* remembered of passwords and ticks, what is read while a backup runs,    *)
(* and what the columns and the archive make of a selection.               *)
(***************************************************************************)
EXTENDS Files, FiniteSetTheorems, SequenceTheorems, TLAPS

-----------------------------------------------------------------------------
(* The rows a selection covers.                                            *)

(* A row of the columns is the beginning of a path.                        *)
LEMMA RowsArePrefixes ==
  ASSUME NEW c \in Rows
  PROVE  \E q \in FilePaths, k \in Nat \ {0} : k <= Len(q) /\ c = SubSeq(q, 1, k)
<1>1. PICK q \in FilePaths : c \in {SubSeq(q, 1, n) : n \in 1 .. Len(q)}
  BY DEF Rows
<1>2. PICK k \in 1 .. Len(q) : c = SubSeq(q, 1, k)
  BY <1>1
<1>3. Len(q) \in Nat
  BY FilesAssumption
<1> QED BY <1>2, <1>3

(* What the beginning of a path, and its tail from the second name on, hold. *)
LEMMA PrefixParts ==
  ASSUME NEW S, NEW p \in Seq(S), NEW k \in 1 .. Len(p)
  PROVE  /\ SubSeq(p, 1, k) \in Seq(S) /\ Len(SubSeq(p, 1, k)) = k
         /\ \A i \in 1 .. k : SubSeq(p, 1, k)[i] = p[i]
         /\ SubSeq(p, 2, k) \in Seq(S) /\ Len(SubSeq(p, 2, k)) = k - 1
         /\ \A i \in 2 .. k : SubSeq(p, 2, k)[i - 1] = p[i]
         /\ SubSeq(SubSeq(p, 1, k), 2, k) = SubSeq(p, 2, k)
<1>0. k \in Nat \ {0} /\ Len(p) \in Nat /\ \A i \in 1 .. Len(p) : p[i] \in S
  BY LenProperties
<1>1. /\ SubSeq(p, 1, k) \in Seq(S) /\ Len(SubSeq(p, 1, k)) = k
      /\ \A i \in 1 .. k : SubSeq(p, 1, k)[i] = p[i]
  <2>1. \A i \in 1 .. k : p[i] \in S
    BY <1>0
  <2>2. /\ SubSeq(p, 1, k) \in Seq(S)
        /\ Len(SubSeq(p, 1, k)) = IF 1 <= k THEN k - 1 + 1 ELSE 0
        /\ \A i \in 1 .. k - 1 + 1 : SubSeq(p, 1, k)[i] = p[1 + i - 1]
    BY <1>0, <2>1, SubSeqProperties
  <2> QED BY <1>0, <2>2
<1>2. /\ SubSeq(p, 2, k) \in Seq(S) /\ Len(SubSeq(p, 2, k)) = k - 1
      /\ \A i \in 2 .. k : SubSeq(p, 2, k)[i - 1] = p[i]
  <2>1. \A i \in 2 .. k : p[i] \in S
    BY <1>0
  <2>2. /\ SubSeq(p, 2, k) \in Seq(S)
        /\ Len(SubSeq(p, 2, k)) = IF 2 <= k THEN k - 2 + 1 ELSE 0
        /\ \A i \in 1 .. k - 2 + 1 : SubSeq(p, 2, k)[i] = p[2 + i - 1]
    BY <1>0, <2>1, SubSeqProperties
  <2> QED BY <1>0, <2>2
<1>3. SubSeq(SubSeq(p, 1, k), 2, k) = SubSeq(p, 2, k)
  <2> DEFINE c == SubSeq(p, 1, k)
  <2>0. c \in Seq(S) /\ Len(c) = k /\ \A i \in 1 .. k : c[i] = p[i]
    BY <1>1
  <2> HIDE DEF c
  <2>1. \A i \in 2 .. k : c[i] \in S
    BY <1>0, <2>0
  <2>2. /\ SubSeq(c, 2, k) \in Seq(S)
        /\ Len(SubSeq(c, 2, k)) = IF 2 <= k THEN k - 2 + 1 ELSE 0
        /\ \A i \in 1 .. k - 2 + 1 : SubSeq(c, 2, k)[i] = c[2 + i - 1]
    BY <1>0, <2>1, SubSeqProperties
  <2>3. \A i \in 1 .. k - 1 : SubSeq(c, 2, k)[i] = SubSeq(p, 2, k)[i]
    <3> SUFFICES ASSUME NEW i \in 1 .. k - 1 PROVE SubSeq(c, 2, k)[i] = SubSeq(p, 2, k)[i]
      OBVIOUS
    <3>1. i + 1 \in 2 .. k /\ i + 1 \in 1 .. k /\ i \in 1 .. k - 2 + 1 /\ i + 1 - 1 = i /\ 2 + i - 1 = i + 1
      BY <1>0
    <3>2. SubSeq(c, 2, k)[i] = c[i + 1]
      BY <2>2, <3>1
    <3>3. SubSeq(p, 2, k)[i] = p[i + 1]
      BY <1>2, <3>1
    <3> QED BY <2>0, <3>1, <3>2, <3>3
  <2>4. Len(SubSeq(c, 2, k)) = k - 1
    BY <1>0, <2>2
  <2>5. SubSeq(c, 2, k) = SubSeq(p, 2, k)
    BY <1>2, <2>2, <2>3, <2>4, SeqEqual
  <2> QED BY <2>5 DEF c
<1> QED BY <1>1, <1>2, <1>3

(* Two rows whose first names agree and whose tails LIKE cannot tell apart *)
(* are the same once case is set aside.                                    *)
LEMMA FoldedAgree ==
  ASSUME NEW p \in FilePaths, NEW q \in FilePaths, NEW k \in Nat \ {0}, k <= Len(p), k <= Len(q),
         p[1] = q[1], Folded(SubSeq(p, 2, k)) = Folded(SubSeq(q, 2, k))
  PROVE  SubSeq(Folded(p), 1, k) = Folded(SubSeq(q, 1, k))
<1> DEFINE Letters(r) == {Folded(r)[i] : i \in DOMAIN Folded(r)}
           Both == Letters(p) \cup Letters(q)
<1>0. Len(p) \in Nat /\ Len(q) \in Nat /\ Len(p) > 1 /\ Len(q) > 1
  BY FilesAssumption
<1>1. /\ Folded(p) \in Seq(Letters(p)) /\ Len(Folded(p)) = Len(p)
      /\ Folded(q) \in Seq(Letters(q)) /\ Len(Folded(q)) = Len(q)
  BY FilesAssumption
<1>2. /\ \A m, n \in 1 .. Len(p) : Folded(SubSeq(p, m, n)) = SubSeq(Folded(p), m, n)
      /\ \A m, n \in 1 .. Len(q) : Folded(SubSeq(q, m, n)) = SubSeq(Folded(q), m, n)
  BY FilesAssumption
<1>3. /\ p \in Seq(Names) /\ q \in Seq(Names)
  BY FilesAssumption
<1>i. p[1] = q[1]
  OBVIOUS
<1>a. Letters(p) \subseteq Both /\ Letters(q) \subseteq Both
  OBVIOUS
<1> HIDE DEF Both, Letters
<1>4. Folded(p) \in Seq(Both) /\ Folded(q) \in Seq(Both)
  BY <1>1, <1>a, SeqMonotonic
<1>5. k \in 1 .. Len(Folded(p)) /\ k \in 1 .. Len(Folded(q)) /\ 1 \in 1 .. Len(Folded(p)) /\ 1 \in 1 .. Len(Folded(q))
  BY <1>0, <1>1
<1>6. Folded(p)[1] = Folded(q)[1]
  <2>1. SubSeq(p, 1, 1) = SubSeq(q, 1, 1)
    <3>1. /\ SubSeq(p, 1, 1) \in Seq(Names) /\ Len(SubSeq(p, 1, 1)) = 1 /\ SubSeq(p, 1, 1)[1] = p[1]
      BY <1>0, <1>3, PrefixParts
    <3>2. /\ SubSeq(q, 1, 1) \in Seq(Names) /\ Len(SubSeq(q, 1, 1)) = 1 /\ SubSeq(q, 1, 1)[1] = q[1]
      BY <1>0, <1>3, PrefixParts
    <3>3. \A i \in 1 .. Len(SubSeq(p, 1, 1)) : SubSeq(p, 1, 1)[i] = SubSeq(q, 1, 1)[i]
      <4>1. \A i \in 1 .. 1 : i = 1
        OBVIOUS
      <4> QED BY <1>i, <3>1, <3>2, <4>1
    <3> QED BY <3>1, <3>2, <3>3, SeqEqual
  <2>2. SubSeq(Folded(p), 1, 1) = SubSeq(Folded(q), 1, 1)
    <3>1. 1 \in 1 .. Len(p) /\ 1 \in 1 .. Len(q)
      BY <1>0
    <3>2. Folded(SubSeq(p, 1, 1)) = SubSeq(Folded(p), 1, 1) /\ Folded(SubSeq(q, 1, 1)) = SubSeq(Folded(q), 1, 1)
      BY <1>2, <3>1
    <3> QED BY <2>1, <3>2
  <2>3. SubSeq(Folded(p), 1, 1)[1] = Folded(p)[1]
    BY <1>4, <1>5, PrefixParts
  <2>4. SubSeq(Folded(q), 1, 1)[1] = Folded(q)[1]
    BY <1>4, <1>5, PrefixParts
  <2> QED BY <2>2, <2>3, <2>4
<1>7. \A i \in 2 .. k : Folded(p)[i] = Folded(q)[i]
  <2>1. SubSeq(Folded(p), 2, k) = SubSeq(Folded(q), 2, k)
    <3>1. 2 \in 1 .. Len(p) /\ 2 \in 1 .. Len(q) /\ k \in 1 .. Len(p) /\ k \in 1 .. Len(q)
      BY <1>0
    <3>2. Folded(SubSeq(p, 2, k)) = SubSeq(Folded(p), 2, k) /\ Folded(SubSeq(q, 2, k)) = SubSeq(Folded(q), 2, k)
      BY <1>2, <3>1
    <3> QED BY <3>2
  <2>2. \A i \in 2 .. k : SubSeq(Folded(p), 2, k)[i - 1] = Folded(p)[i]
    BY <1>4, <1>5, PrefixParts
  <2>3. \A i \in 2 .. k : SubSeq(Folded(q), 2, k)[i - 1] = Folded(q)[i]
    BY <1>4, <1>5, PrefixParts
  <2> QED BY <2>1, <2>2, <2>3
<1>8. SubSeq(Folded(p), 1, k) = SubSeq(Folded(q), 1, k)
  <2>1. /\ SubSeq(Folded(p), 1, k) \in Seq(Both) /\ Len(SubSeq(Folded(p), 1, k)) = k
        /\ \A i \in 1 .. k : SubSeq(Folded(p), 1, k)[i] = Folded(p)[i]
    BY <1>4, <1>5, PrefixParts
  <2>2. /\ SubSeq(Folded(q), 1, k) \in Seq(Both) /\ Len(SubSeq(Folded(q), 1, k)) = k
        /\ \A i \in 1 .. k : SubSeq(Folded(q), 1, k)[i] = Folded(q)[i]
    BY <1>4, <1>5, PrefixParts
  <2>3. \A i \in 1 .. k : Folded(p)[i] = Folded(q)[i]
    BY <1>6, <1>7
  <2>4. \A i \in 1 .. Len(SubSeq(Folded(p), 1, k)) : SubSeq(Folded(p), 1, k)[i] = SubSeq(Folded(q), 1, k)[i]
    BY <2>1, <2>2, <2>3
  <2> QED BY <2>1, <2>2, <2>4, SeqEqual
<1>9. 1 \in 1 .. Len(q) /\ k \in 1 .. Len(q)
  BY <1>0
<1> QED BY <1>2, <1>8, <1>9

(* covered_by and selection_file_ids, written independently, agree on      *)
(* every selection of rows, up to the case LIKE does not see.              *)
LEMMA SelectionsAgree ==
  ASSUME NEW chosen \in SUBSET Rows
  PROVE  /\ {p \in FilePaths : p \in chosen \/ Covers(chosen, p)} \subseteq SelectionFileIds(chosen)
         /\ \A p \in SelectionFileIds(chosen) :
              p \in chosen \/ Covers({Folded(c) : c \in chosen}, Folded(p))
<1>0. \A p \in FilePaths : Len(p) \in Nat /\ Len(p) > 1 /\ p \in Seq(Names)
  BY FilesAssumption
<1>1. ASSUME NEW p \in FilePaths, Covers(chosen, p) PROVE p \in SelectionFileIds(chosen)
  <2>1. PICK n \in 1 .. Len(p) - 1 : SubSeq(p, 1, n) \in chosen
    BY <1>1 DEF Covers
  <2>2. n \in 1 .. Len(p) /\ n < Len(p) /\ 1 \in 1 .. n
    BY <1>0
  <2> DEFINE c == SubSeq(p, 1, n)
  <2>3. Len(c) = n /\ c[1] = p[1] /\ SubSeq(c, 2, n) = SubSeq(p, 2, n)
    BY <1>0, <2>2, PrefixParts
  <2> HIDE DEF c
  <2>4. Len(c) < Len(p) /\ c[1] = p[1] /\ Folded(SubSeq(p, 2, Len(c))) = Folded(SubSeq(c, 2, Len(c)))
    BY <2>2, <2>3
  <2>5. c \in chosen
    BY <2>1 DEF c
  <2> QED BY <2>4, <2>5 DEF SelectionFileIds
<1>2. ASSUME NEW p \in FilePaths, p \in chosen PROVE p \in SelectionFileIds(chosen)
  BY <1>2 DEF SelectionFileIds
<1>3. ASSUME NEW p \in SelectionFileIds(chosen), p \notin chosen
      PROVE  Covers({Folded(c) : c \in chosen}, Folded(p))
  <2>1. p \in FilePaths
    BY DEF SelectionFileIds
  <2>2. PICK c \in chosen : /\ Len(c) < Len(p) /\ c[1] = p[1]
                            /\ Folded(SubSeq(p, 2, Len(c))) = Folded(SubSeq(c, 2, Len(c)))
    BY <1>3 DEF SelectionFileIds
  <2>3. PICK q \in FilePaths, k \in Nat \ {0} : k <= Len(q) /\ c = SubSeq(q, 1, k)
    BY RowsArePrefixes
  <2>4. k \in 1 .. Len(q) /\ 1 \in 1 .. k
    BY <1>0, <2>3
  <2>5. Len(c) = k /\ c[1] = q[1] /\ SubSeq(c, 2, k) = SubSeq(q, 2, k)
    BY <1>0, <2>3, <2>4, PrefixParts
  <2>6. k <= Len(p) /\ p[1] = q[1] /\ Folded(SubSeq(p, 2, k)) = Folded(SubSeq(q, 2, k))
    <3>1. k <= Len(p)
      BY <1>0, <2>1, <2>2, <2>5
    <3>2. Folded(SubSeq(p, 2, k)) = Folded(SubSeq(c, 2, k))
      BY <2>2, <2>5
    <3> QED BY <2>2, <2>5, <3>1, <3>2
  <2>7. SubSeq(Folded(p), 1, k) = Folded(c)
    BY <2>1, <2>3, <2>6, FoldedAgree
  <2>8. k \in 1 .. Len(Folded(p)) - 1
    <3>1. Len(Folded(p)) = Len(p)
      BY <2>1, FilesAssumption
    <3> QED BY <1>0, <2>1, <2>2, <2>5, <3>1
  <2> QED BY <2>7, <2>8 DEF Covers
<1> QED BY <1>1, <1>2, <1>3 DEF SelectionFileIds

-----------------------------------------------------------------------------
(***************************************************************************)
(* The inductive invariant: what the stores hold, what the requests under  *)
(* way carry to their next step, and the rest. How old an entry can be is  *)
(* told by the time since the last sweep; which requests may still bring a *)
(* password under a locked handle, by whether they were there first.       *)
(***************************************************************************)
Steps == {"none", "page", "form", "passwords", "ticks", "guard", "candidates", "remember", "columns",
          "open", "stream", "mark"}
AllKinds == Kinds \cup {"none"}
Keys == {"k1", "k2", "none"}
Carries == {"k1", "k2", "none", "correct", "wrong"}
Request ==
  [kind : AllKinds, pc : Steps, gen : Gens, handle : {0} \cup Handles, key : Carries,
   old : BOOLEAN, overtaken : BOOLEAN, torn : BOOLEAN, began : Nat]
Entry == [key : Keys, left : Int]
Selection == [rows : SUBSET Rows, left : Int]

(* The passwords: each under a handle given out, opening the older backup, *)
(* swept in time, and none under a locked handle.                          *)
Stored ==
  /\ store \in [Handles -> [Gens -> Entry]]
  /\ \A h \in Handles, g \in Gens :
       g \in Held(h) => h <= issued /\ store[h][g].left >= 1 - sinceSweep
  /\ HeldOpens /\ LockHolds

(* The ticks: not too many, under a handle given out, swept in time.       *)
Selected ==
  /\ ticked \in [Handles -> [Gens -> Selection]]
  /\ \A h \in Handles, g \in Gens :
       /\ IsFiniteSet(ticked[h][g].rows) /\ Cardinality(ticked[h][g].rows) <= MaxEntries
       /\ ticked[h][g].rows # {} => h <= issued /\ ticked[h][g].left >= 1 - sinceSweep

(* A request: the password it brings has opened what it brings it for; an  *)
(* unlocking one under a locked handle was there before; a download the    *)
(* running backup has not overtaken is not of the latest generation.       *)
Follows(r) ==
  /\ r.handle <= issued
  /\ r.pc = "remember" =>
       r.key \in Passwords /\ (r.gen = "older" /\ disk["older"] # "gone" => Opens("older", r.key))
  /\ r.pc = "passwords" => r.kind # "unlock"
  /\ r.pc = "mark" => r.key \in {"correct", "wrong"}
  /\ r.handle \in quiet /\ ~r.old => r.kind # "unlock" /\ r.pc # "remember"
  /\ r.torn => r.overtaken
  /\ r.pc \in {"open", "stream"} /\ r.gen = "latest" /\ run # "none" => r.overtaken

UnderWay == tabs \in [Tabs -> Request] /\ \A t \in Tabs : Follows(tabs[t])

Shapes ==
  /\ disk \in [Gens -> Contents] /\ disk["latest"] # "gone"
  /\ onDevice \in Passwords \cup {"clear"} /\ run \in {"none", "recorded", "writing"}
  /\ cookie \in {SignedOut, 0} \cup Handles /\ cookie <= issued
  /\ issued \in 0 .. MaxHandles /\ quiet \subseteq 1 .. issued
  /\ sinceSweep \in 0 .. SweepEvery
  /\ thread \in {"none", "call", "done"} /\ changes \in Nat /\ happened \subseteq Events
  /\ mark \in [result : {"none", "correct", "wrong"}, began : Nat, crossed : BOOLEAN]
  /\ mark.result # "none" /\ mark.began # changes => mark.crossed

FilesInv == Shapes /\ Stored /\ Selected /\ UnderWay

(* The words that stand for steps, kinds and keys.                         *)
LEMMA FileWords ==
  /\ "none" \in Steps /\ "page" \in Steps /\ "form" \in Steps /\ "passwords" \in Steps /\ "ticks" \in Steps
  /\ "guard" \in Steps /\ "candidates" \in Steps /\ "remember" \in Steps /\ "columns" \in Steps
  /\ "open" \in Steps /\ "stream" \in Steps /\ "mark" \in Steps
  /\ "none" \in Carries /\ "correct" \in Carries /\ "wrong" \in Carries
  /\ \A key \in Keys : key \in Carries
  /\ \A key \in Passwords : key \in Keys
  /\ "none" \in Keys /\ "latest" \in Gens /\ "older" \in Gens /\ "none" \in AllKinds
  /\ \A kind \in Kinds : kind \in AllKinds /\ FirstStep(kind) \in Steps
<1>1. \A kind \in Kinds : FirstStep(kind) \in Steps
  BY DEF Kinds, FirstStep, Steps
<1> QED BY <1>1 DEF Steps, Carries, Keys, Passwords, Gens, AllKinds

LEMMA BoundsOfFiles ==
  /\ Ttl \in Nat \ {0} /\ SweepEvery \in Nat \ {0} /\ MaxHandles \in Nat \ {0} /\ MaxEntries \in Nat
  /\ TickRows \subseteq Rows
BY FilesAssumption

(* What a request can become keeps its kind.                               *)
LEMMA RequestsChange ==
  ASSUME NEW r \in Request
  PROVE  /\ \A step \in Steps : [r EXCEPT !.pc = step] \in Request
         /\ \A step \in Steps, key \in Carries : [r EXCEPT !.pc = step, !.key = key] \in Request
         /\ \A step \in Steps, h \in {0} \cup Handles : [r EXCEPT !.pc = step, !.handle = h] \in Request
         /\ \A b \in BOOLEAN : /\ [r EXCEPT !.torn = b] \in Request
                               /\ [r EXCEPT !.old = b] \in Request
                               /\ [r EXCEPT !.overtaken = b] \in Request
BY DEF Request

LEMMA NewRequests ==
  /\ Idle \in Request
  /\ \A kind \in Kinds, g \in Gens, h \in {0} \cup Handles, n \in Nat :
       [Idle EXCEPT !.kind = kind, !.pc = FirstStep(kind), !.gen = g, !.handle = h, !.began = n] \in Request
<1>1. PICK none \in AllKinds : none = "none"
  BY FileWords
<1>2. PICK step \in Steps : step = "none"
  BY FileWords
<1>3. PICK g \in Gens : g = "latest"
  BY FileWords
<1>4. PICK key \in Carries : key = "none"
  BY FileWords
<1>5. PICK zero \in {0} \cup Handles : zero = 0
  OBVIOUS
<1>6. Idle = [kind |-> none, pc |-> step, gen |-> g, handle |-> zero, key |-> key,
              old |-> FALSE, overtaken |-> FALSE, torn |-> FALSE, began |-> 0]
  BY <1>1, <1>2, <1>3, <1>4, <1>5 DEF Idle
<1>7. Idle \in Request
  BY <1>6 DEF Request
<1>8. ASSUME NEW kind \in Kinds, NEW gen \in Gens, NEW h \in {0} \cup Handles, NEW n \in Nat
      PROVE  [Idle EXCEPT !.kind = kind, !.pc = FirstStep(kind), !.gen = gen, !.handle = h, !.began = n] \in Request
  <2>1. kind \in AllKinds /\ FirstStep(kind) \in Steps
    BY FileWords
  <2> QED BY <1>7, <2>1 DEF Request
<1> QED BY <1>7, <1>8

(* Nothing happens that a request under way has to know of.                *)
Undisturbed ==
  /\ disk'["older"] \in {disk["older"], "gone"} /\ issued' >= issued /\ quiet' \subseteq quiet
  /\ run' # "none" => run # "none"

LEMMA OthersFollow ==
  ASSUME Undisturbed, Shapes, Shapes', NEW r \in Request, Follows(r)
  PROVE  Follows(r)'
<1>0. r.handle \in Int /\ issued \in Int /\ issued' \in Int
  BY DEF Shapes, Request, Handles
<1>1. r.handle <= issued'
  BY <1>0 DEF Follows, Undisturbed
<1>2. ASSUME r.pc = "remember"
      PROVE  r.key \in Passwords /\ (r.gen = "older" /\ disk'["older"] # "gone" => Opens("older", r.key)')
  BY <1>2 DEF Follows, Undisturbed, Opens
<1>3. r.handle \in quiet' /\ ~r.old => r.kind # "unlock" /\ r.pc # "remember"
  BY DEF Follows, Undisturbed
<1>4. r.pc \in {"open", "stream"} /\ r.gen = "latest" /\ run' # "none" => r.overtaken
  BY DEF Follows, Undisturbed
<1> QED BY <1>1, <1>2, <1>3, <1>4 DEF Follows

LEMMA OneRequestMoves ==
  ASSUME Shapes, Shapes', UnderWay, Undisturbed, NEW t \in Tabs,
         NEW r \in Request, Follows(r)', tabs' = [tabs EXCEPT ![t] = r]
  PROVE  UnderWay'
<1>1. tabs' \in [Tabs -> Request]
  BY DEF UnderWay
<1>2. \A u \in Tabs : u # t => Follows(tabs[u])'
  <2> SUFFICES ASSUME NEW u \in Tabs, u # t PROVE Follows(tabs[u])'
    OBVIOUS
  <2>1. PICK s \in Request : s = tabs[u] /\ Follows(s)
    BY DEF UnderWay
  <2>2. tabs'[u] = s
    BY <2>1 DEF UnderWay
  <2>3. Follows(s)'
    BY <2>1, OthersFollow
  <2> QED BY <2>2, <2>3
<1>3. tabs'[t] = r
  BY DEF UnderWay
<1> QED BY <1>1, <1>2, <1>3 DEF UnderWay

LEMMA RequestsStay ==
  ASSUME Shapes, Shapes', UnderWay, Undisturbed, tabs' = tabs
  PROVE  UnderWay'
BY OthersFollow DEF UnderWay

(* An answered request is idle, and an idle one asks nothing of the rest.  *)
LEMMA IdleFollows == Shapes' => Follows(Idle)'
BY DEF Shapes, Follows, Idle

LEMMA Answered ==
  ASSUME Shapes, Shapes', UnderWay, Undisturbed, NEW t \in Tabs, tabs' = [tabs EXCEPT ![t] = Idle]
  PROVE  UnderWay'
BY NewRequests, IdleFollows, OneRequestMoves

(* Every entry of the memory stays, goes, or is asked for again.           *)
EntriesStay ==
  \A h \in Handles, g \in Gens :
    store'[h][g] \in {store[h][g], NoEntry, [store[h][g] EXCEPT !.left = Ttl]}

LEMMA StoredStays ==
  ASSUME Shapes, Shapes', Stored, Undisturbed, sinceSweep' = sinceSweep, EntriesStay,
         store' \in [Handles -> [Gens -> Entry]]
  PROVE  Stored'
<1>0. sinceSweep \in Nat /\ issued \in Int /\ issued' \in Int /\ Handles \subseteq Int
  BY BoundsOfFiles DEF Shapes, Handles
<1>1. \A h \in Handles, g \in Gens :
        store'[h][g].key # "none" => store'[h][g].key = store[h][g].key /\ store[h][g].key # "none"
  <2> SUFFICES ASSUME NEW h \in Handles, NEW g \in Gens, store'[h][g].key # "none"
               PROVE  store'[h][g].key = store[h][g].key
    OBVIOUS
  <2>1. store[h][g] \in Entry
    BY DEF Stored
  <2>2. store'[h][g] # NoEntry
    BY DEF NoEntry
  <2>3. CASE store'[h][g] = [store[h][g] EXCEPT !.left = Ttl]
    BY <2>1, <2>3 DEF Entry
  <2> QED BY <2>2, <2>3 DEF EntriesStay
<1>2. ASSUME NEW h \in Handles, NEW g \in Gens, store'[h][g].key # "none"
      PROVE  h <= issued' /\ store'[h][g].left >= 1 - sinceSweep'
  <2>1. g \in Held(h)
    BY <1>1, <1>2 DEF Held
  <2>2. h <= issued /\ store[h][g].left >= 1 - sinceSweep
    BY <2>1 DEF Stored
  <2>3. store'[h][g].left \in {store[h][g].left, Ttl}
    BY <1>2 DEF EntriesStay, NoEntry, Entry, Stored
  <2> QED BY <1>0, <2>2, <2>3, BoundsOfFiles DEF Undisturbed
<1>3. HeldOpens'
  <2> SUFFICES ASSUME NEW h \in Handles, store'[h]["older"].key # "none", disk'["older"] # "gone"
               PROVE  disk'["older"] \in {"clear", store'[h]["older"].key}
    BY FileWords DEF HeldOpens, Held, Opens
  <2> QED BY <1>1, FileWords DEF Stored, HeldOpens, Held, Opens, Undisturbed
<1>4. LockHolds'
  BY <1>1 DEF Stored, LockHolds, Held, Undisturbed
<1> QED BY <1>2, <1>3, <1>4 DEF Stored, Held

(* Every set of ticks stays, goes, or is asked for again.                  *)
TicksStay ==
  \A h \in Handles, g \in Gens :
    ticked'[h][g] \in {ticked[h][g], NoTicks, [ticked[h][g] EXCEPT !.left = Ttl]}

LEMMA SelectedStays ==
  ASSUME Shapes, Shapes', Selected, Undisturbed, sinceSweep' = sinceSweep, TicksStay,
         ticked' \in [Handles -> [Gens -> Selection]]
  PROVE  Selected'
<1>0. sinceSweep \in Nat /\ issued \in Int /\ issued' \in Int /\ Handles \subseteq Int
  BY BoundsOfFiles DEF Shapes, Handles
<1> SUFFICES ASSUME NEW h \in Handles, NEW g \in Gens
             PROVE  /\ IsFiniteSet(ticked'[h][g].rows) /\ Cardinality(ticked'[h][g].rows) <= MaxEntries
                    /\ ticked'[h][g].rows # {} => h <= issued' /\ ticked'[h][g].left >= 1 - sinceSweep'
  BY DEF Selected
<1>1. CASE ticked'[h][g] = NoTicks
  BY <1>1, FS_EmptySet, BoundsOfFiles DEF NoTicks
<1>2. CASE ticked'[h][g] = ticked[h][g]
  BY <1>0, <1>2 DEF Selected, Undisturbed
<1>3. CASE ticked'[h][g] = [ticked[h][g] EXCEPT !.left = Ttl]
  <2>1. ticked'[h][g].rows = ticked[h][g].rows /\ ticked'[h][g].left = Ttl
    BY <1>3 DEF Selected, Selection
  <2> QED BY <1>0, <2>1, BoundsOfFiles DEF Selected, Undisturbed
<1> QED BY <1>1, <1>2, <1>3 DEF TicksStay

(* _sweep, candidate_passwords and forget_backup_passwords only take away. *)
LEMMA SweptStays ==
  ASSUME Stored
  PROVE  /\ Swept \in [Handles -> [Gens -> Entry]]
         /\ \A h \in Handles, g \in Gens :
              /\ Swept[h][g] \in {store[h][g], NoEntry}
              /\ Swept[h][g].key # "none" => Swept[h][g] = store[h][g] /\ Swept[h][g].left > 0
<1>1. NoEntry \in Entry /\ NoEntry.key = "none"
  <2>1. PICK key \in Keys : key = "none"
    BY FileWords
  <2> QED BY <2>1 DEF NoEntry, Entry
<1>2. \A h \in Handles, g \in Gens : store[h][g] \in Entry
  BY DEF Stored
<1>3. ASSUME NEW h \in Handles, NEW g \in Gens
      PROVE  /\ Swept[h][g] \in {store[h][g], NoEntry} /\ Swept[h][g] \in Entry
             /\ Swept[h][g].key # "none" => Swept[h][g] = store[h][g] /\ Swept[h][g].left > 0
  <2>1. CASE g \in Expired(h)
    BY <1>1, <2>1 DEF Swept
  <2>2. CASE g \notin Expired(h)
    <3>1. Swept[h][g] = store[h][g]
      BY <2>2 DEF Swept
    <3>2. store[h][g].key # "none" => store[h][g].left > 0
      BY <1>2, <2>2 DEF Expired, Held, Entry
    <3> QED BY <1>2, <3>1, <3>2
  <2> QED BY <2>1, <2>2
<1>4. Swept = [h \in Handles |-> [g \in Gens |-> Swept[h][g]]]
  BY DEF Swept
<1> QED BY <1>3, <1>4

LEMMA NoneHeld ==
  /\ NoEntry \in Entry /\ NoTicks \in Selection
  /\ NoEntry.key = "none" /\ NoTicks.rows = {}
<1>1. PICK key \in Keys : key = "none"
  BY FileWords
<1> QED BY <1>1 DEF NoEntry, Entry, NoTicks, Selection

(* Both ways of forgetting leave the kinds and only take away.             *)
LEMMA Forgetting ==
  ASSUME Stored, Selected, NEW h \in {0} \cup Handles
  PROVE  /\ ForgetBackupPasswords(h) \in [Handles -> [Gens -> Entry]]
         /\ \A i \in Handles, g \in Gens : ForgetBackupPasswords(h)[i][g] \in {store[i][g], NoEntry}
         /\ h # 0 => \A g \in Gens : ForgetBackupPasswords(h)[h][g] = NoEntry
         /\ ForgetSelections(h) \in [Handles -> [Gens -> Selection]]
         /\ \A i \in Handles, g \in Gens : ForgetSelections(h)[i][g] \in {ticked[i][g], NoTicks}
<1>1. [g \in Gens |-> NoEntry] \in [Gens -> Entry] /\ [g \in Gens |-> NoTicks] \in [Gens -> Selection]
  BY NoneHeld
<1>2. CASE h = 0
  BY <1>2 DEF ForgetBackupPasswords, ForgetSelections, Stored, Selected
<1>3. CASE h # 0
  <2>1. /\ ForgetBackupPasswords(h) = [store EXCEPT ![h] = [g \in Gens |-> NoEntry]]
        /\ ForgetSelections(h) = [ticked EXCEPT ![h] = [g \in Gens |-> NoTicks]]
    BY <1>3 DEF ForgetBackupPasswords, ForgetSelections
  <2>2. h \in Handles
    BY <1>3
  <2> QED BY <1>1, <2>1, <2>2 DEF Stored, Selected
<1> QED BY <1>2, <1>3

(* Reading a selection pushes its deadline out and changes nothing else.   *)
LEMMA Reading ==
  ASSUME Selected, NEW h \in {0} \cup Handles, NEW g \in Gens, ticked' = TicksRead(h, g)
  PROVE  TicksStay /\ ticked' \in [Handles -> [Gens -> Selection]]
<1>1. CASE Ticks(h, g) = {}
  BY <1>1 DEF TicksRead, TicksStay, Selected
<1>2. CASE Ticks(h, g) # {}
  <2>1. h \in Handles /\ ticked' = [ticked EXCEPT ![h][g].left = Ttl]
    BY <1>2 DEF TicksRead, Ticks
  <2>2. [ticked[h][g] EXCEPT !.left = Ttl] \in Selection
    <3>1. ticked[h][g] \in Selection /\ Ttl \in Int
      BY <2>1, BoundsOfFiles DEF Selected
    <3> QED BY <3>1 DEF Selection
  <2>3. ticked' = [ticked EXCEPT ![h] = [ticked[h] EXCEPT ![g] = [ticked[h][g] EXCEPT !.left = Ttl]]]
    BY <2>1
  <2>4. [ticked[h] EXCEPT ![g] = [ticked[h][g] EXCEPT !.left = Ttl]] \in [Gens -> Selection]
    BY <2>1, <2>2 DEF Selected
  <2>5. ticked' \in [Handles -> [Gens -> Selection]]
    BY <2>1, <2>3, <2>4 DEF Selected
  <2>6. \A i \in Handles, f \in Gens :
          ticked'[i][f] = IF i = h /\ f = g THEN [ticked[h][g] EXCEPT !.left = Ttl] ELSE ticked[i][f]
    BY <2>1, <2>3 DEF Selected
  <2> QED BY <2>5, <2>6 DEF TicksStay
<1> QED BY <1>1, <1>2

(* What an action leaves alone stays as it was.                            *)
LEMMA StoredSame ==
  ASSUME Shapes, Shapes', Stored, Undisturbed, sinceSweep' = sinceSweep, store' = store
  PROVE  Stored'
<1>1. EntriesStay /\ store' \in [Handles -> [Gens -> Entry]]
  BY DEF EntriesStay, Stored
<1> QED BY <1>1, StoredStays

LEMMA SelectedSame ==
  ASSUME Shapes, Shapes', Selected, Undisturbed, sinceSweep' = sinceSweep, ticked' = ticked
  PROVE  Selected'
<1>1. TicksStay /\ ticked' \in [Handles -> [Gens -> Selection]]
  BY DEF TicksStay, Selected
<1> QED BY <1>1, SelectedStays

LEMMA FilesSame ==
  ASSUME FilesInv, disk' = disk, onDevice' = onDevice, run' = run, cookie' = cookie, store' = store,
         ticked' = ticked, sinceSweep' = sinceSweep, tabs' = tabs, thread' = thread, mark' = mark,
         quiet' = quiet, changes' = changes, issued' = issued, happened' = happened
  PROVE  FilesInv'
<1>1. Shapes'
  BY DEF FilesInv, Shapes
<1>2. Undisturbed
  BY DEF Undisturbed, FilesInv, Shapes
<1> QED BY <1>1, <1>2, StoredSame, SelectedSame, RequestsStay DEF FilesInv

(* recall_backup_password: what is recalled is held anew, what has expired *)
(* goes.                                                                   *)
LEMMA Renewed ==
  ASSUME Stored, NEW h \in Handles, NEW g \in Gens, g \in Held(h) \ Expired(h),
         store' = [Swept EXCEPT ![h][g].left = Ttl]
  PROVE  EntriesStay /\ store' \in [Handles -> [Gens -> Entry]]
<1>1. Swept[h][g] = store[h][g]
  BY DEF Swept
<1>2. [store[h][g] EXCEPT !.left = Ttl] \in Entry
  BY BoundsOfFiles DEF Entry, Stored
<1>3. store' = [Swept EXCEPT ![h] = [Swept[h] EXCEPT ![g] = [store[h][g] EXCEPT !.left = Ttl]]]
  BY <1>1
<1>4. Swept \in [Handles -> [Gens -> Entry]] /\ \A i \in Handles, f \in Gens : Swept[i][f] \in {store[i][f], NoEntry}
  BY SweptStays
<1>5. [Swept[h] EXCEPT ![g] = [store[h][g] EXCEPT !.left = Ttl]] \in [Gens -> Entry]
  BY <1>2, <1>4
<1>6. store' \in [Handles -> [Gens -> Entry]]
  BY <1>3, <1>4, <1>5
<1>7. \A i \in Handles, f \in Gens :
        store'[i][f] = IF i = h /\ f = g THEN [store[h][g] EXCEPT !.left = Ttl] ELSE Swept[i][f]
  BY <1>3, <1>4
<1> QED BY <1>4, <1>6, <1>7 DEF EntriesStay

(* BackupPasswordStore, the selections and the routes that use them: what  *)
(* is stored belongs to handles given out and is no older than the sweep   *)
(* allows, and a request carries what was true when it read it.            *)
THEOREM FilesInvAlways == Spec => []FilesInv
<1> USE BoundsOfFiles
<1>1. Init => FilesInv
  <2> SUFFICES ASSUME Init PROVE FilesInv
    OBVIOUS
  <2>1. Shapes
    BY FileWords DEF Init, Shapes, NoMark, Contents, Passwords
  <2>2. Stored
    BY NoneHeld DEF Init, Stored, Held, HeldOpens, LockHolds
  <2>3. Selected
    <3>1. IsFiniteSet({}) /\ Cardinality({}) = 0
      BY FS_EmptySet
    <3>2. ticked = [h \in Handles |-> [g \in Gens |-> NoTicks]]
      BY DEF Init
    <3>3. ticked \in [Handles -> [Gens -> Selection]] /\ \A h \in Handles, g \in Gens : ticked[h][g] = NoTicks
      BY <3>2, NoneHeld
    <3>4. \A h \in Handles, g \in Gens : ticked[h][g].rows = {}
      BY <3>3, NoneHeld
    <3>5. Cardinality({}) <= MaxEntries
      BY <3>1
    <3> QED BY <3>1, <3>3, <3>4, <3>5 DEF Selected
  <2>4. UnderWay
    <3>1. Follows(Idle)
      BY DEF Init, Follows, Idle
    <3> QED BY <3>1, NewRequests DEF Init, UnderWay
  <2> QED BY <2>1, <2>2, <2>3, <2>4 DEF FilesInv
<1>2. FilesInv /\ [Next]_vars => FilesInv'
  <2> SUFFICES ASSUME FilesInv, [Next]_vars PROVE FilesInv'
    OBVIOUS
  <2> USE DEF FilesInv

  <2>1. ASSUME SignIn PROVE FilesInv'
    <3>1. Shapes'
      BY <2>1, FileWords DEF Shapes, SignIn, history, bounds, memory
    <3>2. Undisturbed
      BY <2>1, FileWords DEF Shapes, Undisturbed, SignIn, history, bounds, memory
    <3>3. Stored'
      BY <2>1, <3>1, <3>2, StoredSame DEF SignIn, history, bounds, memory
    <3>4. Selected'
      BY <2>1, <3>1, <3>2, SelectedSame DEF SignIn, history, bounds, memory
    <3>5. UnderWay'
      BY <2>1, <3>1, <3>2, RequestsStay DEF SignIn, history, bounds, memory
    <3> QED BY <3>1, <3>3, <3>4, <3>5
  <2>2. ASSUME AskPasswordChange PROVE FilesInv'
    <3>1. Shapes'
      BY <2>2 DEF Shapes, Events, AskPasswordChange, Uses, history, bounds, memory
    <3>2. Undisturbed
      BY <2>2, FileWords DEF Shapes, Undisturbed, AskPasswordChange, Uses, history, bounds, memory
    <3>3. Stored'
      BY <2>2, <3>1, <3>2, StoredSame DEF AskPasswordChange, Uses, history, bounds, memory
    <3>4. Selected'
      BY <2>2, <3>1, <3>2, SelectedSame DEF AskPasswordChange, Uses, history, bounds, memory
    <3>5. UnderWay'
      BY <2>2, <3>1, <3>2, RequestsStay DEF AskPasswordChange, Uses, history, bounds, memory
    <3> QED BY <3>1, <3>3, <3>4, <3>5
  <2>3. ASSUME ChangeOnDevice PROVE FilesInv'
    <3>1. Shapes'
      BY <2>3, FileWords DEF Shapes, ChangeOnDevice, history, bounds, memory
    <3>2. Undisturbed
      BY <2>3, FileWords DEF Shapes, Undisturbed, ChangeOnDevice, history, bounds, memory
    <3>3. Stored'
      BY <2>3, <3>1, <3>2, StoredSame DEF ChangeOnDevice, history, bounds, memory
    <3>4. Selected'
      BY <2>3, <3>1, <3>2, SelectedSame DEF ChangeOnDevice, history, bounds, memory
    <3>5. UnderWay'
      BY <2>3, <3>1, <3>2, RequestsStay DEF ChangeOnDevice, history, bounds, memory
    <3> QED BY <3>1, <3>3, <3>4, <3>5
  <2>4. ASSUME ChangeDone PROVE FilesInv'
    <3>1. Shapes'
      BY <2>4 DEF Shapes, ChangeDone, NoMark, history, bounds
    <3>2. Undisturbed
      BY <2>4, FileWords DEF Shapes, Undisturbed, ChangeDone, history, bounds, memory
    <3>3. Stored'
      BY <2>4, <3>1, <3>2, StoredSame DEF ChangeDone, history, bounds, memory
    <3>4. Selected'
      BY <2>4, <3>1, <3>2, SelectedSame DEF ChangeDone, history, bounds, memory
    <3>5. UnderWay'
      BY <2>4, <3>1, <3>2, RequestsStay DEF ChangeDone, history, bounds, memory
    <3> QED BY <3>1, <3>3, <3>4, <3>5
  <2>5. ASSUME Tick PROVE FilesInv'
    <3>1. Shapes'
      BY <2>5, FileWords DEF Shapes, Tick, history, bounds, memory
    <3>2. Undisturbed
      BY <2>5, FileWords DEF Shapes, Undisturbed, Tick, history, bounds, memory
    <3>3. Stored'
      <4>1. store' \in [Handles -> [Gens -> Entry]]
        <5>1. ASSUME NEW h \in Handles, NEW g \in Gens PROVE store'[h][g] \in Entry
          <6>1. store[h][g] \in Entry
            BY DEF Stored
          <6>2. PICK k \in Int : k = store[h][g].left - 1
            BY <6>1 DEF Entry
          <6>3. [store[h][g] EXCEPT !.left = k] \in Entry
            BY <6>1 DEF Entry
          <6> QED BY <2>5, <6>2, <6>3, NoneHeld DEF Tick, Aged
        <5>2. store' = [h \in Handles |-> [g \in Gens |-> store'[h][g]]]
          BY <2>5 DEF Tick
        <5> QED BY <5>1, <5>2
      <4>2. \A h \in Handles, g \in Gens :
              /\ store'[h][g].key # "none" => store'[h][g].key = store[h][g].key /\ g \in Held(h)
              /\ store'[h][g].key # "none" => store'[h][g].left = store[h][g].left - 1
        BY <2>5 DEF Tick, Stored, Aged, Entry, NoEntry, Held
      <4>3. \A h \in Handles, g \in Gens : g \in Held(h)' => h <= issued' /\ store'[h][g].left >= 1 - sinceSweep'
        BY <2>5, <4>1, <4>2 DEF Tick, Stored, Entry, Held, Shapes, bounds
      <4>4. HeldOpens' /\ LockHolds'
        BY <2>5, <4>2 DEF Tick, Stored, HeldOpens, LockHolds, Held, Opens, history
      <4> QED BY <4>1, <4>3, <4>4 DEF Stored
    <3>4. Selected'
      <4>1. \A h \in Handles, g \in Gens :
              ticked'[h][g] = IF ticked[h][g].rows # {} THEN [ticked[h][g] EXCEPT !.left = @ - 1] ELSE NoTicks
        BY <2>5 DEF Tick, Aged
      <4>2. \A h \in Handles, g \in Gens :
              /\ ticked'[h][g].rows = ticked[h][g].rows /\ ticked'[h][g] \in Selection
              /\ ticked[h][g].rows # {} => ticked'[h][g].left = ticked[h][g].left - 1
        <5> SUFFICES ASSUME NEW h \in Handles, NEW g \in Gens
                     PROVE  /\ ticked'[h][g].rows = ticked[h][g].rows /\ ticked'[h][g] \in Selection
                            /\ ticked[h][g].rows # {} => ticked'[h][g].left = ticked[h][g].left - 1
          OBVIOUS
        <5>1. ticked[h][g] \in Selection
          BY DEF Selected
        <5>2. CASE ticked[h][g].rows = {}
          BY <4>1, <5>2, NoneHeld
        <5>3. CASE ticked[h][g].rows # {}
          <6>1. PICK k \in Int : k = ticked[h][g].left - 1
            BY <5>1 DEF Selection
          <6>2. ticked'[h][g] = [ticked[h][g] EXCEPT !.left = k]
            BY <4>1, <5>3, <6>1
          <6> QED BY <5>1, <6>1, <6>2 DEF Selection
        <5> QED BY <5>2, <5>3
      <4>3. ticked' \in [Handles -> [Gens -> Selection]]
        <5>1. ticked' = [h \in Handles |-> [g \in Gens |-> ticked'[h][g]]]
          BY <2>5 DEF Tick
        <5> QED BY <4>2, <5>1
      <4>4. \A h \in Handles, g \in Gens : ticked'[h][g].rows # {} => h <= issued' /\ ticked'[h][g].left >= 1 - sinceSweep'
        <5> SUFFICES ASSUME NEW h \in Handles, NEW g \in Gens, ticked'[h][g].rows # {}
                     PROVE  h <= issued' /\ ticked'[h][g].left >= 1 - sinceSweep'
          OBVIOUS
        <5>1. h <= issued /\ ticked[h][g].left >= 1 - sinceSweep /\ ticked[h][g].left \in Int
          BY <4>2 DEF Selected, Selection
        <5>2. sinceSweep' = sinceSweep + 1 /\ issued' = issued /\ sinceSweep \in Int
          BY <2>5 DEF Tick, bounds, Shapes
        <5> QED BY <4>2, <5>1, <5>2
      <4> QED BY <4>2, <4>3, <4>4 DEF Selected
    <3>5. UnderWay'
      BY <2>5, <3>1, <3>2, RequestsStay DEF Tick, history, bounds, memory
    <3> QED BY <3>1, <3>3, <3>4, <3>5
  <2>6. ASSUME SweepBackupPasswords PROVE FilesInv'
    <3>1. Shapes'
      BY <2>6, FileWords DEF Shapes, SweepBackupPasswords, history, bounds, memory
    <3>2. Undisturbed
      BY <2>6, FileWords DEF Shapes, Undisturbed, SweepBackupPasswords, history, bounds, memory
    <3>3. Stored'
      <4>1. store' \in [Handles -> [Gens -> Entry]]
        BY <2>6, SweptStays DEF SweepBackupPasswords
      <4>2. \A h \in Handles, g \in Gens :
              store'[h][g].key # "none" => store'[h][g] = store[h][g] /\ g \in Held(h) /\ store'[h][g].left > 0
        BY <2>6, SweptStays DEF SweepBackupPasswords, Held
      <4>3. \A h \in Handles, g \in Gens : g \in Held(h)' => h <= issued' /\ store'[h][g].left >= 1 - sinceSweep'
        BY <2>6, <4>1, <4>2 DEF SweepBackupPasswords, Stored, Entry, Held, Shapes, bounds
      <4>4. HeldOpens' /\ LockHolds'
        BY <2>6, <4>2 DEF SweepBackupPasswords, Stored, HeldOpens, LockHolds, Held, Opens, history
      <4> QED BY <4>1, <4>3, <4>4 DEF Stored
    <3>4. Selected'
      <4>1. \A h \in Handles, g \in Gens :
              ticked'[h][g] = IF ticked[h][g].left <= 0 THEN NoTicks ELSE ticked[h][g]
        BY <2>6 DEF SweepBackupPasswords
      <4>2. ticked' \in [Handles -> [Gens -> Selection]]
        BY <2>6, NoneHeld DEF SweepBackupPasswords, Selected
      <4>3. sinceSweep' = 0 /\ issued' = issued
        BY <2>6 DEF SweepBackupPasswords, bounds
      <4>4. ASSUME NEW h \in Handles, NEW g \in Gens
            PROVE  /\ IsFiniteSet(ticked'[h][g].rows) /\ Cardinality(ticked'[h][g].rows) <= MaxEntries
                   /\ ticked'[h][g].rows # {} => h <= issued' /\ ticked'[h][g].left >= 1 - sinceSweep'
        <5>1. CASE ticked[h][g].left <= 0
          BY <4>1, <5>1, FS_EmptySet DEF NoTicks
        <5>2. CASE ~(ticked[h][g].left <= 0)
          <6>1. ticked[h][g].left \in Int /\ ticked'[h][g] = ticked[h][g]
            BY <4>1, <5>2 DEF Selected, Selection
          <6> QED BY <4>3, <5>2, <6>1 DEF Selected
        <5> QED BY <5>1, <5>2
      <4> QED BY <4>2, <4>4 DEF Selected
    <3>5. UnderWay'
      BY <2>6, <3>1, <3>2, RequestsStay DEF SweepBackupPasswords, history, bounds, memory
    <3> QED BY <3>1, <3>3, <3>4, <3>5
  <2>7. ASSUME BackupStarts PROVE FilesInv'
    <3>1. Shapes'
      BY <2>7 DEF Shapes, Events, BackupStarts, Uses, history, bounds, memory
    <3>3. Stored'
      BY <2>7 DEF Stored, Held, HeldOpens, LockHolds, Opens, BackupStarts, Uses, history, bounds, memory
    <3>4. Selected'
      <4>1. issued' \in Int /\ issued' >= issued /\ Handles \subseteq Int
        BY <2>7 DEF Shapes, UnderWay, BackupStarts, Uses, history, bounds, memory, Handles
      <4>2. ticked' = ticked /\ sinceSweep' = sinceSweep
        BY <2>7 DEF BackupStarts, Uses, history, bounds, memory
      <4> QED BY <4>1, <4>2 DEF Selected, Shapes
    <3>5. UnderWay'
      <4>1. ASSUME NEW t \in Tabs PROVE tabs'[t] \in Request /\ Follows(tabs[t])'
        <5>1. tabs[t] \in Request /\ Follows(tabs[t])
          BY DEF UnderWay
        <5>2. PICK b \in BOOLEAN :
                /\ b <=> (tabs[t].overtaken \/ (tabs[t].pc \in {"open", "stream"} /\ tabs[t].gen = "latest"))
          OBVIOUS
        <5>3. PICK r \in Request : r = [tabs[t] EXCEPT !.overtaken = b]
          BY <5>1, RequestsChange
        <5>4. tabs'[t] = r
          BY <2>7, <5>1, <5>2, <5>3 DEF BackupStarts, Request
        <5>5. /\ r.handle = tabs[t].handle /\ r.pc = tabs[t].pc /\ r.key = tabs[t].key /\ r.gen = tabs[t].gen
              /\ r.old = tabs[t].old /\ r.kind = tabs[t].kind /\ r.torn = tabs[t].torn /\ r.overtaken = b
          BY <5>1, <5>3 DEF Request
        <5>6. Follows(r)'
          BY <2>7, <5>1, <5>2, <5>5 DEF Follows, Opens, BackupStarts, history
        <5> QED BY <5>4, <5>6
      <4>2. tabs' \in [Tabs -> Request]
        <5>1. tabs' = [t \in Tabs |-> tabs'[t]]
          BY <2>7 DEF BackupStarts
        <5> QED BY <4>1, <5>1
      <4> QED BY <4>1, <4>2 DEF UnderWay
    <3> QED BY <3>1, <3>3, <3>4, <3>5
  <2>8. ASSUME EngineWrites PROVE FilesInv'
    <3>1. Shapes'
      <4>1. disk' \in [Gens -> Contents] /\ disk'["latest"] # "gone"
        BY <2>8, FileWords DEF Shapes, EngineWrites, Contents, Passwords
      <4> QED BY <2>8, <4>1 DEF Shapes, EngineWrites, history, bounds, memory
    <3>2. Undisturbed
      BY <2>8, FileWords DEF Shapes, Undisturbed, EngineWrites, history, bounds, memory
    <3>3. Stored'
      BY <2>8, <3>1, <3>2, StoredSame DEF EngineWrites, history, bounds, memory
    <3>4. Selected'
      BY <2>8, <3>1, <3>2, SelectedSame DEF EngineWrites, history, bounds, memory
    <3>5. UnderWay'
      BY <2>8, <3>1, <3>2, RequestsStay DEF EngineWrites, history, bounds, memory
    <3> QED BY <3>1, <3>3, <3>4, <3>5
  <2>9. ASSUME BackupEnds PROVE FilesInv'
    <3>1. Shapes'
      <4>1. disk' \in [Gens -> Contents] /\ disk'["latest"] # "gone"
        BY <2>9, FileWords DEF Shapes, BackupEnds, Contents, Passwords
      <4> QED BY <2>9, <4>1 DEF Shapes, BackupEnds, history, bounds, memory
    <3>2. Undisturbed
      BY <2>9, FileWords DEF Shapes, Undisturbed, BackupEnds, history, bounds, memory
    <3>3. Stored'
      BY <2>9, <3>1, <3>2, StoredSame DEF BackupEnds, history, bounds, memory
    <3>4. Selected'
      BY <2>9, <3>1, <3>2, SelectedSame DEF BackupEnds, history, bounds, memory
    <3>5. UnderWay'
      BY <2>9, <3>1, <3>2, RequestsStay DEF BackupEnds, history, bounds, memory
    <3> QED BY <3>1, <3>3, <3>4, <3>5
  <2>10. ASSUME RetentionRemoves PROVE FilesInv'
    <3>1. Shapes'
      <4>1. disk' \in [Gens -> Contents] /\ disk'["latest"] # "gone"
        BY <2>10, FileWords DEF Shapes, RetentionRemoves, Contents
      <4> QED BY <2>10, <4>1 DEF Shapes, Events, RetentionRemoves, Uses, history, bounds, memory
    <3>2. Undisturbed
      BY <2>10, FileWords DEF Shapes, Undisturbed, RetentionRemoves, Uses, history, bounds, memory
    <3>3. Stored'
      BY <2>10, <3>1, <3>2, StoredSame DEF RetentionRemoves, Uses, history, bounds, memory
    <3>4. Selected'
      BY <2>10, <3>1, <3>2, SelectedSame DEF RetentionRemoves, Uses, history, bounds, memory
    <3>5. UnderWay'
      BY <2>10, <3>1, <3>2, RequestsStay DEF RetentionRemoves, Uses, history, bounds, memory
    <3> QED BY <3>1, <3>3, <3>4, <3>5
  <2>11. ASSUME WebKill PROVE FilesInv'
    <3>1. Shapes'
      BY <2>11 DEF Shapes, Events, WebKill, Uses, history, bounds, memory
    <3>2. Undisturbed
      BY <2>11, FileWords DEF Shapes, Undisturbed, WebKill, Uses, history, bounds, memory
    <3>3. Stored'
      BY <2>11, NoneHeld DEF WebKill, Stored, Held, HeldOpens, LockHolds
    <3>4. Selected'
      <4>1. ticked' \in [Handles -> [Gens -> Selection]] /\ \A h \in Handles, g \in Gens : ticked'[h][g].rows = {}
        BY <2>11, NoneHeld DEF WebKill
      <4>2. \A h \in Handles, g \in Gens : IsFiniteSet(ticked'[h][g].rows) /\ Cardinality(ticked'[h][g].rows) = 0
        BY <4>1, FS_EmptySet
      <4> QED BY <4>1, <4>2 DEF Selected
    <3>5. UnderWay'
      BY <2>11, <3>1, NewRequests, IdleFollows DEF WebKill, UnderWay
    <3> QED BY <3>1, <3>3, <3>4, <3>5
  <2>12. ASSUME NEW t \in Tabs, NEW kind \in Kinds, NEW g \in Gens, Arrive(t, kind, g) PROVE FilesInv'
    <3>1. Shapes'
      BY <2>12, FileWords DEF Shapes, Arrive, history, bounds, memory
    <3>2. Undisturbed
      BY <2>12, FileWords DEF Shapes, Undisturbed, Arrive, history, bounds, memory
    <3>3. Stored'
      BY <2>12, <3>1, <3>2, StoredSame DEF Arrive, history, bounds, memory
    <3>4. Selected'
      BY <2>12, <3>1, <3>2, SelectedSame DEF Arrive, history, bounds, memory
    <3>5. UnderWay'
      <4>1. cookie \in {0} \cup Handles /\ cookie <= issued
        BY <2>12 DEF Arrive, Shapes
      <4>2. PICK n \in Nat : n = IF kind = "check" THEN changes ELSE 0
        BY DEF Shapes
      <4>3. PICK r \in Request :
              r = [Idle EXCEPT !.kind = kind, !.pc = FirstStep(kind), !.gen = g, !.handle = cookie, !.began = n]
        BY <4>1, NewRequests
      <4>4. tabs' = [tabs EXCEPT ![t] = r]
        BY <2>12, <4>2, <4>3 DEF Arrive
      <4>5. FirstStep(kind) \notin {"remember", "mark", "open", "stream"} /\ (FirstStep(kind) = "passwords" => kind # "unlock")
        BY DEF FirstStep
      <4>6. r.kind = kind /\ r.pc = FirstStep(kind) /\ r.handle = cookie /\ ~r.torn /\ ~r.old
        BY <4>3 DEF Idle
      <4>7. Follows(r)'
        BY <2>12, <4>1, <4>5, <4>6 DEF Follows, Arrive
      <4> QED BY <3>1, <3>2, <4>4, <4>7, OneRequestMoves
    <3> QED BY <3>1, <3>3, <3>4, <3>5
  <2>13. ASSUME NEW t \in Tabs, OpenPage(t) PROVE FilesInv'
    <3>1. Shapes'
      <4>1. tabs[t].handle \in {0} \cup Handles /\ tabs[t].handle <= issued /\ issued \in Nat
        BY DEF UnderWay, Request, Follows, Shapes
      <4>2. cookie' \in {cookie, tabs[t].handle, SignedOut}
        BY <2>13 DEF OpenPage, Responds, history, bounds, memory
      <4>3. cookie' \in {SignedOut, 0} \cup Handles /\ cookie' <= issued
        BY <4>1, <4>2 DEF Shapes, SignedOut
      <4> QED BY <2>13, <4>3 DEF Shapes, OpenPage, Responds, history, bounds, memory
    <3>2. Undisturbed
      BY <2>13, FileWords DEF Shapes, Undisturbed, OpenPage, Responds, history, bounds, memory
    <3>3. Stored'
      <4>1. CASE store' = store
        BY <2>13, <3>1, <3>2, <4>1, StoredSame DEF OpenPage, Responds, history, bounds, memory
      <4>2. CASE store' = Swept
        <5>1. EntriesStay /\ store' \in [Handles -> [Gens -> Entry]]
          BY <4>2, SweptStays DEF EntriesStay
        <5> QED BY <2>13, <3>1, <3>2, <5>1, StoredStays DEF OpenPage, Responds, history, bounds, memory
      <4>3. CASE store' # store /\ store' # Swept
        <5>1. PICK h \in Handles, g \in Gens :
                g \in Held(h) \ Expired(h) /\ store' = [Swept EXCEPT ![h][g].left = Ttl]
          BY <2>13, <4>3 DEF OpenPage, Responds, history, bounds, memory, UnderWay, Request
        <5> QED BY <2>13, <3>1, <3>2, <5>1, Renewed, StoredStays DEF OpenPage, Responds, history,
                   bounds, memory
      <4> QED BY <4>1, <4>2, <4>3
    <3>4. Selected'
      BY <2>13, <3>1, <3>2, SelectedSame DEF OpenPage, Responds, history, bounds, memory
    <3>5. UnderWay'
      <4>0. tabs[t] \in Request /\ Follows(tabs[t])
        BY DEF UnderWay
      <4>1. CASE tabs' = [tabs EXCEPT ![t] = Idle]
        BY <3>1, <3>2, <4>1, Answered
      <4>2. CASE tabs' # [tabs EXCEPT ![t] = Idle]
        <5>1. PICK step \in Steps, key \in Carries :
                tabs' = [tabs EXCEPT ![t].pc = step, ![t].key = key] /\ step \in {"columns", "candidates"}
          <6>1. CASE tabs[t].handle # 0 /\ tabs[t].gen \in Held(tabs[t].handle) \ Expired(tabs[t].handle)
            <7>1. PICK step \in Steps : step = "columns"
              BY FileWords
            <7>2. PICK key \in Carries : key = store[tabs[t].handle][tabs[t].gen].key
              BY <4>0, <6>1, FileWords DEF Request, Stored, Entry
            <7>3. tabs' = [tabs EXCEPT ![t].pc = step, ![t].key = key]
              BY <2>13, <4>2, <6>1, <7>1, <7>2 DEF OpenPage, Responds
            <7> QED BY <7>1, <7>3
          <6>2. CASE ~(tabs[t].handle # 0 /\ tabs[t].gen \in Held(tabs[t].handle) \ Expired(tabs[t].handle))
            <7>1. PICK step \in Steps : step = IF disk[tabs[t].gen] = "clear" THEN "columns" ELSE "candidates"
              BY FileWords
            <7>2. PICK key \in Carries : key = "none"
              BY FileWords
            <7>3. tabs' = [tabs EXCEPT ![t].key = key, ![t].pc = step]
              BY <2>13, <4>2, <6>2, <7>1, <7>2 DEF OpenPage, Responds
            <7>4. tabs' = [tabs EXCEPT ![t].pc = step, ![t].key = key]
              BY <4>0, <7>3 DEF UnderWay, Request
            <7> QED BY <7>1, <7>4
          <6> QED BY <6>1, <6>2
        <5>2. PICK r \in Request : r = [tabs[t] EXCEPT !.pc = step, !.key = key]
          BY <4>0, RequestsChange
        <5>3. tabs' = [tabs EXCEPT ![t] = r]
          BY <5>1, <5>2
        <5>4. /\ r.pc \in {"columns", "candidates"} /\ r.handle = tabs[t].handle /\ r.kind = tabs[t].kind
              /\ r.old = tabs[t].old /\ r.torn = tabs[t].torn /\ r.overtaken = tabs[t].overtaken
          BY <4>0, <5>1, <5>2 DEF Request
        <5>5. Follows(r)'
          BY <2>13, <4>0, <5>4 DEF Follows, OpenPage, history, bounds
        <5> QED BY <3>1, <3>2, <5>3, <5>5, OneRequestMoves
      <4> QED BY <4>1, <4>2
    <3> QED BY <3>1, <3>3, <3>4, <3>5
  <2>14. ASSUME NEW t \in Tabs, TryCandidates(t) PROVE FilesInv'
    <3>1. Shapes'
      BY <2>14, FileWords DEF Shapes, TryCandidates, history, bounds, memory
    <3>2. Undisturbed
      BY <2>14, FileWords DEF Shapes, Undisturbed, TryCandidates, history, bounds, memory
    <3>3. Stored'
      <4>1. EntriesStay /\ store' \in [Handles -> [Gens -> Entry]]
        BY <2>14, SweptStays DEF EntriesStay, Stored, TryCandidates, history, bounds, memory
      <4> QED BY <2>14, <3>1, <3>2, <4>1, StoredStays DEF TryCandidates, history, bounds, memory
    <3>4. Selected'
      BY <2>14, <3>1, <3>2, SelectedSame DEF TryCandidates, history, bounds, memory
    <3>5. UnderWay'
      <4>0. tabs[t] \in Request /\ Follows(tabs[t])
        BY DEF UnderWay
      <4>1. CASE tabs' = [tabs EXCEPT ![t].pc = "columns"]
        <5>1. PICK r \in Request : r = [tabs[t] EXCEPT !.pc = "columns"]
          BY <4>0, RequestsChange, FileWords
        <5>2. tabs' = [tabs EXCEPT ![t] = r]
          BY <4>1, <5>1
        <5>3. /\ r.pc = "columns" /\ r.handle = tabs[t].handle /\ r.kind = tabs[t].kind
              /\ r.old = tabs[t].old /\ r.torn = tabs[t].torn /\ r.overtaken = tabs[t].overtaken
          BY <4>0, <5>1 DEF Request
        <5>4. Follows(r)'
          BY <2>14, <4>0, <5>3 DEF Follows, TryCandidates, history, bounds
        <5> QED BY <3>1, <3>2, <5>2, <5>4, OneRequestMoves
      <4>2. CASE tabs' # [tabs EXCEPT ![t].pc = "columns"]
        <5>1. PICK k \in Candidates(tabs[t].handle) :
                "opens" \in Readings(tabs[t].gen, k) /\ tabs' = [tabs EXCEPT ![t].pc = "remember", ![t].key = k]
          BY <2>14, <4>2 DEF TryCandidates
        <5>2. PICK g \in Held(tabs[t].handle) : k = store[tabs[t].handle][g].key
          BY DEF Candidates
        <5>3. tabs[t].handle \in Handles /\ g \in Gens /\ k # "none" /\ store[tabs[t].handle][g] \in Entry
          BY <5>2 DEF Held, Stored
        <5>4. k \in Passwords /\ k \in Carries
          BY <5>2, <5>3, FileWords DEF Entry, Keys, Passwords
        <5>5. Opens(tabs[t].gen, k)
          BY <5>1 DEF Readings
        <5>6. PICK r \in Request : r = [tabs[t] EXCEPT !.pc = "remember", !.key = k]
          BY <4>0, <5>4, RequestsChange, FileWords
        <5>7. tabs' = [tabs EXCEPT ![t] = r]
          BY <5>1, <5>6
        <5>8. /\ r.pc = "remember" /\ r.key = k /\ r.handle = tabs[t].handle /\ r.kind = tabs[t].kind /\ r.gen = tabs[t].gen
              /\ r.old = tabs[t].old /\ r.torn = tabs[t].torn /\ r.overtaken = tabs[t].overtaken
          BY <4>0, <5>6 DEF Request
        <5>9. tabs[t].handle \notin quiet
          BY <5>2, <5>3 DEF Stored, LockHolds
        <5>10. Follows(r)'
          BY <2>14, <4>0, <5>4, <5>5, <5>8, <5>9 DEF Follows, Opens, TryCandidates, history, bounds
        <5> QED BY <3>1, <3>2, <5>7, <5>10, OneRequestMoves
      <4> QED BY <4>1, <4>2
    <3> QED BY <3>1, <3>3, <3>4, <3>5
  <2>15. ASSUME NEW t \in Tabs, Unlock(t) PROVE FilesInv'
    <3>1. Shapes'
      <4>1. tabs[t].handle \in {0} \cup Handles /\ tabs[t].handle <= issued /\ issued \in Nat
        BY DEF UnderWay, Request, Follows, Shapes
      <4>2. cookie' \in {cookie, tabs[t].handle, SignedOut}
        BY <2>15 DEF Unlock, Responds, history, bounds, memory
      <4>3. cookie' \in {SignedOut, 0} \cup Handles /\ cookie' <= issued
        BY <4>1, <4>2 DEF Shapes, SignedOut
      <4> QED BY <2>15, <4>3 DEF Shapes, Unlock, Responds, history, bounds, memory
    <3>2. Undisturbed
      BY <2>15, FileWords DEF Shapes, Undisturbed, Unlock, Responds, history, bounds, memory
    <3>3. Stored'
      BY <2>15, <3>1, <3>2, StoredSame DEF Unlock, Responds, history, bounds, memory
    <3>4. Selected'
      BY <2>15, <3>1, <3>2, SelectedSame DEF Unlock, Responds, history, bounds, memory
    <3>5. UnderWay'
      <4>0. tabs[t] \in Request /\ Follows(tabs[t])
        BY DEF UnderWay
      <4>1. CASE tabs' = [tabs EXCEPT ![t] = Idle]
        BY <3>1, <3>2, <4>1, Answered
      <4>2. CASE tabs' # [tabs EXCEPT ![t] = Idle]
        <5>0. PICK typed \in Passwords : \E reading \in Readings(tabs[t].gen, typed) :
                tabs' = [tabs EXCEPT ![t].key = IF reading = "opens" THEN typed ELSE "none",
                                     ![t].pc = IF reading = "opens" THEN "remember" ELSE "page"]
          BY <2>15, <4>2 DEF Unlock, Responds
        <5>1. PICK reading \in Readings(tabs[t].gen, typed) :
                tabs' = [tabs EXCEPT ![t].key = IF reading = "opens" THEN typed ELSE "none",
                                     ![t].pc = IF reading = "opens" THEN "remember" ELSE "page"]
          BY <5>0
        <5>2. PICK key \in Carries : key = IF reading = "opens" THEN typed ELSE "none"
          BY FileWords
        <5>3. PICK step \in Steps : step = IF reading = "opens" THEN "remember" ELSE "page"
          BY FileWords
        <5>4. PICK r \in Request : r = [tabs[t] EXCEPT !.pc = step, !.key = key]
          BY <4>0, RequestsChange
        <5>5. tabs' = [tabs EXCEPT ![t] = r]
          <6>1. r = [tabs[t] EXCEPT !.key = key, !.pc = step]
            BY <4>0, <5>4 DEF Request
          <6> QED BY <5>1, <5>2, <5>3, <6>1
        <5>6. /\ r.pc = step /\ r.key = key /\ r.handle = tabs[t].handle /\ r.kind = tabs[t].kind /\ r.gen = tabs[t].gen
              /\ r.old = tabs[t].old /\ r.torn = tabs[t].torn /\ r.overtaken = tabs[t].overtaken
          BY <4>0, <5>4 DEF Request
        <5>7. r.kind = "unlock"
          BY <2>15, <5>6 DEF Unlock
        <5>8. step = "remember" => key \in Passwords /\ Opens(tabs[t].gen, key)
          BY <5>1, <5>2, <5>3 DEF Readings
        <5>9. step \notin {"mark", "open", "stream", "passwords"}
          BY <5>3
        <5>10. Follows(r)'
          BY <2>15, <4>0, <5>6, <5>7, <5>8, <5>9 DEF Follows, Opens, Unlock, history, bounds
        <5> QED BY <3>1, <3>2, <5>5, <5>10, OneRequestMoves
      <4> QED BY <4>1, <4>2
    <3> QED BY <3>1, <3>3, <3>4, <3>5
  <2>16. ASSUME NEW t \in Tabs, RememberBackupPassword(t) PROVE FilesInv'
    <3>1. Shapes'
      <4>1. PICK h \in Handles : Writes(t, h) /\ cookie' \in {h, cookie}
        BY <2>16 DEF RememberBackupPassword, Responds
      <4>2. issued' \in 0 .. MaxHandles /\ issued' >= issued /\ h <= issued'
        BY <4>1 DEF Writes, Shapes, UnderWay, Follows, Handles
      <4>3. cookie' \in {SignedOut, 0} \cup Handles /\ cookie' <= issued'
        BY <4>1, <4>2 DEF Shapes, Handles, SignedOut
      <4>4. quiet' \subseteq 1 .. issued'
        BY <2>16, <4>2 DEF Shapes, RememberBackupPassword
      <4> QED BY <2>16, <4>2, <4>3, <4>4 DEF Shapes, RememberBackupPassword
    <3>3. Stored'
      <4>1. PICK h \in Handles :
              Writes(t, h) /\ store' = [store EXCEPT ![h][tabs[t].gen] = [key |-> tabs[t].key, left |-> Ttl]]
        BY <2>16 DEF RememberBackupPassword
      <4>2. tabs[t] \in Request /\ Follows(tabs[t]) /\ tabs[t].gen \in Gens
        BY DEF UnderWay, Request
      <4>3. tabs[t].key \in Passwords /\ tabs[t].pc = "remember"
        BY <2>16, <4>2 DEF RememberBackupPassword, Follows
      <4> DEFINE entry == [key |-> tabs[t].key, left |-> Ttl]
      <4>4. entry \in Entry /\ entry.key = tabs[t].key /\ entry.left = Ttl
        BY <4>3, FileWords DEF Entry
      <4> HIDE DEF entry
      <4>5. store' = [store EXCEPT ![h] = [store[h] EXCEPT ![tabs[t].gen] = entry]]
        BY <4>1 DEF entry
      <4>6. store' \in [Handles -> [Gens -> Entry]]
        BY <4>2, <4>4, <4>5 DEF Stored
      <4>7. \A i \in Handles, g \in Gens :
              store'[i][g] = IF i = h /\ g = tabs[t].gen THEN entry ELSE store[i][g]
        BY <4>2, <4>5 DEF Stored
      <4>8. issued' \in Nat /\ issued' >= issued /\ h <= issued' /\ Handles \subseteq Int
        BY <4>1, <4>2 DEF Writes, Shapes, Follows, Handles
      <4>9. \A i \in Handles, g \in Gens : g \in Held(i)' => i <= issued' /\ store'[i][g].left >= 1 - sinceSweep'
        <5> SUFFICES ASSUME NEW i \in Handles, NEW g \in Gens, store'[i][g].key # "none"
                     PROVE  i <= issued' /\ store'[i][g].left >= 1 - sinceSweep'
          BY DEF Held
        <5>1. CASE i = h /\ g = tabs[t].gen
          BY <2>16, <4>4, <4>7, <4>8, <5>1 DEF Shapes, RememberBackupPassword
        <5>2. CASE ~(i = h /\ g = tabs[t].gen)
          <6>1. store'[i][g] = store[i][g] /\ g \in Held(i)
            BY <4>7, <5>2 DEF Held
          <6>2. i <= issued /\ store[i][g].left >= 1 - sinceSweep
            BY <6>1 DEF Stored
          <6>3. issued \in Int /\ i \in Int
            BY <4>8 DEF Shapes
          <6> QED BY <2>16, <4>8, <6>1, <6>2, <6>3 DEF RememberBackupPassword
        <5> QED BY <5>1, <5>2
      <4>10. HeldOpens'
        <5> SUFFICES ASSUME NEW i \in Handles, store'[i]["older"].key # "none", disk["older"] # "gone"
                     PROVE  Opens("older", store'[i]["older"].key)
          BY <2>16 DEF HeldOpens, Held, Opens, RememberBackupPassword
        <5>1. CASE i = h /\ tabs[t].gen = "older"
          BY <4>2, <4>3, <4>4, <4>7, <5>1, FileWords DEF Follows
        <5>2. CASE ~(i = h /\ tabs[t].gen = "older")
          BY <4>7, <5>2, FileWords DEF Stored, HeldOpens, Held
        <5> QED BY <5>1, <5>2
      <4>11. LockHolds'
        <5> SUFFICES ASSUME NEW i \in quiet', NEW g \in Gens, i \in Handles, store'[i][g].key # "none"
                     PROVE  FALSE
          BY DEF LockHolds, Held
        <5>1. i \in quiet /\ (tabs[t].old => i # tabs[t].handle)
          BY <2>16 DEF RememberBackupPassword
        <5>2. store[i][g].key = "none"
          BY <5>1 DEF Stored, LockHolds, Held
        <5>3. i = h
          BY <4>7, <5>2
        <5>4. CASE tabs[t].handle # 0
          BY <4>1, <4>2, <4>3, <5>1, <5>3, <5>4 DEF Writes, Follows
        <5>5. CASE tabs[t].handle = 0
          BY <4>1, <5>1, <5>3, <5>5 DEF Writes, Shapes
        <5> QED BY <5>4, <5>5
      <4> QED BY <4>6, <4>9, <4>10, <4>11 DEF Stored
    <3>4. Selected'
      <4>1. issued' \in Int /\ issued' >= issued /\ Handles \subseteq Int
        BY <2>16 DEF Shapes, UnderWay, RememberBackupPassword, Responds, Writes, history, bounds,
           memory, Handles
      <4>2. ticked' = ticked /\ sinceSweep' = sinceSweep
        BY <2>16 DEF RememberBackupPassword, Responds, Writes, history, bounds, memory
      <4> QED BY <4>1, <4>2 DEF Selected, Shapes
    <3>5. UnderWay'
      <4>0. tabs[t] \in Request /\ Follows(tabs[t])
        BY DEF UnderWay
      <4>1. Undisturbed
        BY <2>16 DEF Undisturbed, Shapes, RememberBackupPassword, Writes
      <4>2. CASE tabs[t].kind = "unlock"
        <5>1. tabs' = [tabs EXCEPT ![t] = Idle]
          BY <2>16, <4>2 DEF RememberBackupPassword, Responds
        <5> QED BY <3>1, <4>1, <5>1, Answered
      <4>3. CASE tabs[t].kind # "unlock"
        <5>1. PICK h \in Handles : Writes(t, h) /\ tabs' = [tabs EXCEPT ![t].pc = "columns", ![t].handle = h]
          BY <2>16, <4>3 DEF RememberBackupPassword
        <5>2. PICK r \in Request : r = [tabs[t] EXCEPT !.pc = "columns", !.handle = h]
          BY <4>0, RequestsChange, FileWords
        <5>3. tabs' = [tabs EXCEPT ![t] = r]
          BY <5>1, <5>2
        <5>4. /\ r.pc = "columns" /\ r.handle = h /\ r.kind = tabs[t].kind
              /\ r.torn = tabs[t].torn /\ r.overtaken = tabs[t].overtaken
          BY <4>0, <5>2 DEF Request
        <5>5. h <= issued'
          BY <4>0, <5>1 DEF Writes, Shapes, Follows, Handles
        <5>6. Follows(r)'
          BY <4>0, <4>3, <5>4, <5>5 DEF Follows
        <5> QED BY <3>1, <4>1, <5>3, <5>6, OneRequestMoves
      <4> QED BY <4>2, <4>3
    <3> QED BY <3>1, <3>3, <3>4, <3>5
  <2>17. ASSUME NEW t \in Tabs, ReadColumns(t) PROVE FilesInv'
    <3>1. Shapes'
      <4>1. tabs[t].handle \in {0} \cup Handles /\ tabs[t].handle <= issued /\ issued \in Nat
        BY DEF UnderWay, Request, Follows, Shapes
      <4>2. cookie' \in {cookie, tabs[t].handle, SignedOut}
        BY <2>17 DEF ReadColumns, Responds, history, bounds, memory
      <4>3. cookie' \in {SignedOut, 0} \cup Handles /\ cookie' <= issued
        BY <4>1, <4>2 DEF Shapes, SignedOut
      <4> QED BY <2>17, <4>3 DEF Shapes, ReadColumns, Responds, history, bounds, memory
    <3>2. Undisturbed
      BY <2>17, FileWords DEF Shapes, Undisturbed, ReadColumns, Responds, history, bounds, memory
    <3>3. Stored'
      <4>1. tabs[t].handle \in {0} \cup Handles
        BY DEF UnderWay, Request
      <4>2. store' = store \/ (tabs[t].handle # 0 /\ store' = ForgetBackupPasswords(tabs[t].handle))
        BY <2>17 DEF ReadColumns, ForgetBackupPasswords
      <4>3. EntriesStay /\ store' \in [Handles -> [Gens -> Entry]]
        BY <4>1, <4>2, Forgetting DEF EntriesStay, Stored
      <4> QED BY <2>17, <3>1, <3>2, <4>3, StoredStays DEF ReadColumns, Responds, history, bounds, memory
    <3>4. Selected'
      <4>1. tabs[t].handle \in {0} \cup Handles /\ tabs[t].gen \in Gens
        BY DEF UnderWay, Request
      <4>2. ticked' = TicksRead(tabs[t].handle, tabs[t].gen)
        BY <2>17 DEF ReadColumns
      <4> QED BY <2>17, <3>1, <3>2, <4>1, <4>2, Reading, SelectedStays DEF ReadColumns, Responds,
                 history, bounds, memory
    <3>5. UnderWay'
      <4>1. tabs' = [tabs EXCEPT ![t] = Idle]
        BY <2>17 DEF ReadColumns, Responds, history, bounds, memory
      <4> QED BY <3>1, <3>2, <4>1, Answered
    <3> QED BY <3>1, <3>3, <3>4, <3>5
  <2>18. ASSUME NEW t \in Tabs, ChangeSelection(t) PROVE FilesInv'
    <3>1. Shapes'
      <4>1. PICK h \in Handles : Writes(t, h)
        BY <2>18 DEF ChangeSelection
      <4>2. issued' \in 0 .. MaxHandles /\ issued' >= issued
        BY <4>1 DEF Writes, Shapes, Handles
      <4>3. cookie <= issued' /\ quiet \subseteq 1 .. issued'
        BY <4>2 DEF Shapes, Handles, SignedOut
      <4> QED BY <2>18, <4>2, <4>3 DEF Shapes, ChangeSelection, Writes, history, bounds, memory
    <3>2. Undisturbed
      BY <2>18, FileWords DEF Shapes, Undisturbed, ChangeSelection, Writes, history, bounds, memory
    <3>3. Stored'
      BY <2>18, <3>1, <3>2, StoredSame DEF ChangeSelection, Writes, history, bounds, memory
    <3>4. Selected'
      <4>1. PICK h \in Handles, row \in TickRows, on \in BOOLEAN :
              LET had == ticked[h][tabs[t].gen].rows
                  rows == IF on THEN had \cup {row} ELSE had \ {row}
              IN
              /\ Writes(t, h)
              /\ ticked' = IF Cardinality(rows) > MaxEntries THEN ticked
                           ELSE [ticked EXCEPT ![h][tabs[t].gen] =
                                   IF rows = {} THEN NoTicks ELSE [rows |-> rows, left |-> Ttl]]
              /\ tabs' = [tabs EXCEPT ![t].pc = "page", ![t].handle = h]
        BY Zenon, <2>18 DEF ChangeSelection
      <4> DEFINE had == ticked[h][tabs[t].gen].rows
                 rows == IF on THEN had \cup {row} ELSE had \ {row}
                 new == IF rows = {} THEN NoTicks ELSE [rows |-> rows, left |-> Ttl]
      <4>2. tabs[t].gen \in Gens /\ tabs[t] \in Request /\ Follows(tabs[t])
        BY DEF UnderWay, Request
      <4>3. had \subseteq Rows /\ IsFiniteSet(had)
        BY <4>2 DEF Selected, Selection
      <4>4. rows \subseteq Rows /\ IsFiniteSet(rows) /\ Cardinality(rows) \in Nat
        <5>1. IsFiniteSet(had \cup {row}) /\ IsFiniteSet(had \ {row})
          BY <4>3, FS_AddElement, FS_RemoveElement
        <5>2. had \cup {row} \subseteq Rows /\ had \ {row} \subseteq Rows
          BY <4>3
        <5>3. IsFiniteSet(rows) /\ rows \subseteq Rows
          BY <5>1, <5>2
        <5> QED BY <5>3, FS_CardinalityType
      <4>5. sinceSweep' = sinceSweep
        BY <2>18 DEF ChangeSelection
      <4>6. CASE Cardinality(rows) > MaxEntries
        BY <3>1, <3>2, <4>1, <4>5, <4>6, SelectedSame
      <4>7. CASE ~(Cardinality(rows) > MaxEntries)
        <5>1. ticked' = [ticked EXCEPT ![h][tabs[t].gen] = new]
          BY <4>1, <4>7
        <5>2. /\ new \in Selection /\ IsFiniteSet(new.rows) /\ Cardinality(new.rows) <= MaxEntries
              /\ new.rows # {} => new.left = Ttl
          <6>1. CASE rows = {}
            <7>1. new = NoTicks
              BY <6>1
            <7>2. IsFiniteSet({}) /\ Cardinality({}) = 0
              BY FS_EmptySet
            <7> HIDE DEF new, rows, had
            <7> QED BY <7>1, <7>2, NoneHeld
          <6>2. CASE rows # {}
            <7>1. PICK s \in SUBSET Rows : s = rows /\ s # {}
              BY <4>4, <6>2
            <7>2. new = [rows |-> s, left |-> Ttl]
              BY <7>1
            <7> HIDE DEF new, rows, had
            <7>3. IsFiniteSet(s) /\ Cardinality(s) <= MaxEntries
              BY <4>4, <4>7, <7>1
            <7> QED BY <7>2, <7>3 DEF Selection
          <6> QED BY <6>1, <6>2
        <5> HIDE DEF new
        <5>3. ticked' = [ticked EXCEPT ![h] = [ticked[h] EXCEPT ![tabs[t].gen] = new]]
          BY <5>1
        <5>4. [ticked[h] EXCEPT ![tabs[t].gen] = new] \in [Gens -> Selection]
          BY <4>2, <5>2 DEF Selected
        <5>5. ticked' \in [Handles -> [Gens -> Selection]]
          BY <5>3, <5>4 DEF Selected
        <5>6. \A i \in Handles, g \in Gens :
                ticked'[i][g] = IF i = h /\ g = tabs[t].gen THEN new ELSE ticked[i][g]
          BY <4>2, <5>3 DEF Selected
        <5>7. issued' \in Nat /\ issued \in Nat /\ issued' >= issued /\ h <= issued' /\ Handles \subseteq Int
          BY <4>1, <4>2 DEF Writes, Shapes, Follows, Handles
        <5>8. ASSUME NEW i \in Handles, NEW g \in Gens
              PROVE  /\ IsFiniteSet(ticked'[i][g].rows) /\ Cardinality(ticked'[i][g].rows) <= MaxEntries
                     /\ ticked'[i][g].rows # {} => i <= issued' /\ ticked'[i][g].left >= 1 - sinceSweep'
          <6>1. CASE i = h /\ g = tabs[t].gen
            BY <4>5, <5>2, <5>6, <5>7, <6>1 DEF Shapes
          <6>2. CASE ~(i = h /\ g = tabs[t].gen)
            <7>1. ticked'[i][g] = ticked[i][g]
              BY <5>6, <6>2
            <7>2. ticked[i][g].rows # {} => i <= issued
              BY DEF Selected
            <7>3. ticked[i][g].rows # {} => i <= issued'
              BY <5>7, <7>2
            <7> QED BY <4>5, <7>1, <7>3 DEF Selected
          <6> QED BY <6>1, <6>2
        <5> QED BY <5>5, <5>8 DEF Selected
      <4> QED BY <4>6, <4>7
    <3>5. UnderWay'
      <4>0. tabs[t] \in Request /\ Follows(tabs[t])
        BY DEF UnderWay
      <4>1. PICK h \in Handles : Writes(t, h) /\ tabs' = [tabs EXCEPT ![t].pc = "page", ![t].handle = h]
        BY <2>18 DEF ChangeSelection
      <4>2. PICK r \in Request : r = [tabs[t] EXCEPT !.pc = "page", !.handle = h]
        BY <4>0, RequestsChange, FileWords
      <4>3. tabs' = [tabs EXCEPT ![t] = r]
        BY <4>1, <4>2
      <4>4. /\ r.pc = "page" /\ r.handle = h /\ r.kind = tabs[t].kind
            /\ r.torn = tabs[t].torn /\ r.overtaken = tabs[t].overtaken
        BY <4>0, <4>2 DEF Request
      <4>5. h <= issued'
        BY <4>0, <4>1 DEF Writes, Shapes, Follows, Handles
      <4>6. tabs[t].kind = "select"
        BY <2>18 DEF ChangeSelection
      <4>7. Follows(r)'
        BY <4>0, <4>4, <4>5, <4>6 DEF Follows
      <4> QED BY <3>1, <3>2, <4>3, <4>7, OneRequestMoves
    <3> QED BY <3>1, <3>3, <3>4, <3>5
  <2>19. ASSUME NEW t \in Tabs, ClearSelection(t) PROVE FilesInv'
    <3>1. Shapes'
      BY <2>19, FileWords DEF Shapes, ClearSelection, Moves, history, bounds, memory
    <3>2. Undisturbed
      BY <2>19, FileWords DEF Shapes, Undisturbed, ClearSelection, Moves, history, bounds, memory
    <3>3. Stored'
      BY <2>19, <3>1, <3>2, StoredSame DEF ClearSelection, Moves, history, bounds, memory
    <3>4. Selected'
      <4>1. tabs[t].handle \in {0} \cup Handles /\ ticked' = ForgetSelections(tabs[t].handle)
        BY <2>19 DEF UnderWay, Request, ClearSelection, Moves, history, bounds, memory
      <4>2. TicksStay /\ ticked' \in [Handles -> [Gens -> Selection]]
        BY <4>1, Forgetting DEF TicksStay
      <4> QED BY <2>19, <3>1, <3>2, <4>2, SelectedStays DEF ClearSelection, Moves, history, bounds,
                 memory
    <3>5. UnderWay'
      <4>0. tabs[t] \in Request /\ Follows(tabs[t])
        BY DEF UnderWay
      <4>1. PICK r \in Request : r = [tabs[t] EXCEPT !.pc = "page"]
        BY <4>0, RequestsChange, FileWords
      <4>2. tabs' = [tabs EXCEPT ![t] = r]
        BY <2>19, <4>1 DEF ClearSelection, Moves
      <4>3. /\ r.pc = "page" /\ r.handle = tabs[t].handle /\ r.kind = tabs[t].kind
            /\ r.old = tabs[t].old /\ r.torn = tabs[t].torn /\ r.overtaken = tabs[t].overtaken
        BY <4>0, <4>1 DEF Request
      <4>4. Follows(r)'
        BY <2>19, <4>0, <4>3 DEF Follows, ClearSelection, history, bounds
      <4> QED BY <3>1, <3>2, <4>2, <4>4, OneRequestMoves
    <3> QED BY <3>1, <3>3, <3>4, <3>5
  <2>20. ASSUME NEW t \in Tabs, LockPasswords(t) PROVE FilesInv'
    <3>1. Shapes'
      <4>1. tabs[t].handle \in {0} \cup Handles /\ tabs[t].handle <= issued
        BY DEF UnderWay, Request, Follows
      <4>2. quiet' \subseteq 1 .. issued
        BY <2>20, <4>1 DEF Shapes, LockPasswords, Handles
      <4> QED BY <2>20, <4>2 DEF Shapes, LockPasswords, history, bounds, memory
    <3>3. Stored'
      <4>1. tabs[t].handle \in {0} \cup Handles
        BY DEF UnderWay, Request
      <4>2. /\ store' \in [Handles -> [Gens -> Entry]]
            /\ \A i \in Handles, g \in Gens : store'[i][g] \in {store[i][g], NoEntry}
            /\ tabs[t].handle # 0 => \A g \in Gens : store'[tabs[t].handle][g] = NoEntry
        BY <2>20, <4>1, Forgetting DEF LockPasswords
      <4>3. \A i \in Handles, g \in Gens : store'[i][g].key # "none" => store'[i][g] = store[i][g]
        BY <4>2 DEF NoEntry
      <4>4. \A i \in Handles, g \in Gens : g \in Held(i)' => i <= issued' /\ store'[i][g].left >= 1 - sinceSweep'
        BY <2>20, <4>3 DEF Stored, Held, LockPasswords, bounds
      <4>5. HeldOpens'
        BY <2>20, <4>3, FileWords DEF Stored, HeldOpens, Held, Opens, LockPasswords
      <4>6. LockHolds'
        <5> SUFFICES ASSUME NEW i \in quiet', NEW g \in Gens, i \in Handles, store'[i][g].key # "none"
                     PROVE  FALSE
          BY DEF LockHolds, Held
        <5>1. CASE i \in quiet
          BY <4>3, <5>1 DEF Stored, LockHolds, Held
        <5>2. CASE i \notin quiet
          <6>1. i = tabs[t].handle /\ i # 0
            BY <2>20, <5>2 DEF LockPasswords
          <6> QED BY <4>2, <6>1 DEF NoEntry
        <5> QED BY <5>1, <5>2
      <4> QED BY <4>2, <4>4, <4>5, <4>6 DEF Stored
    <3>4. Selected'
      <4>1. issued' \in Int /\ issued' >= issued /\ Handles \subseteq Int
        BY <2>20 DEF Shapes, UnderWay, LockPasswords, history, bounds, memory, Handles
      <4>2. ticked' = ticked /\ sinceSweep' = sinceSweep
        BY <2>20 DEF LockPasswords, history, bounds, memory
      <4> QED BY <4>1, <4>2 DEF Selected, Shapes
    <3>5. UnderWay'
      <4>1. ASSUME NEW u \in Tabs PROVE tabs'[u] \in Request /\ Follows(tabs[u])'
        <5>1. tabs[u] \in Request /\ Follows(tabs[u])
          BY DEF UnderWay
        <5>2. CASE u = t
          <6>1. PICK r \in Request : r = [tabs[u] EXCEPT !.pc = "ticks"]
            BY <5>1, RequestsChange, FileWords
          <6>2. tabs'[u] = r
            BY <2>20, <5>2, <6>1 DEF LockPasswords
          <6>3. /\ r.handle = tabs[u].handle /\ r.pc = "ticks" /\ r.kind = tabs[u].kind
                /\ r.torn = tabs[u].torn /\ r.overtaken = tabs[u].overtaken /\ r.old = tabs[u].old
            BY <5>1, <6>1 DEF Request
          <6>4. r.kind # "unlock"
            BY <2>20, <5>1, <5>2, <6>3 DEF LockPasswords, Follows
          <6>5. Follows(r)'
            BY <2>20, <5>1, <6>3, <6>4 DEF Follows, LockPasswords, bounds
          <6> QED BY <6>2, <6>5
        <5>3. CASE u # t
          <6>1. PICK b \in BOOLEAN :
                  b <=> (tabs[u].old \/ (tabs[u] # Idle /\ tabs[u].handle = tabs[t].handle))
            OBVIOUS
          <6>2. PICK r \in Request : r = [tabs[u] EXCEPT !.old = b]
            BY <5>1, RequestsChange
          <6>3. tabs'[u] = r
            BY <2>20, <5>1, <5>3, <6>1, <6>2 DEF LockPasswords, Request
          <6>4. /\ r.handle = tabs[u].handle /\ r.pc = tabs[u].pc /\ r.key = tabs[u].key /\ r.gen = tabs[u].gen
                /\ r.old = b /\ r.kind = tabs[u].kind /\ r.torn = tabs[u].torn /\ r.overtaken = tabs[u].overtaken
            BY <5>1, <6>2 DEF Request
          <6>5. r.handle \in quiet' /\ ~r.old => r.kind # "unlock" /\ r.pc # "remember"
            <7>1. CASE tabs[u] = Idle
              BY <6>4, <7>1 DEF Idle
            <7>2. CASE tabs[u] # Idle
              BY <2>20, <5>1, <6>1, <6>4, <7>2 DEF LockPasswords, Follows
            <7> QED BY <7>1, <7>2
          <6>6. Follows(r)'
            BY <2>20, <5>1, <6>4, <6>5 DEF Follows, Opens, LockPasswords, bounds
          <6> QED BY <6>3, <6>6
        <5> QED BY <5>2, <5>3
      <4>2. tabs' \in [Tabs -> Request]
        <5>1. tabs' = [u \in Tabs |-> tabs'[u]]
          BY <2>20 DEF LockPasswords
        <5> QED BY <4>1, <5>1
      <4> QED BY <4>1, <4>2 DEF UnderWay
    <3> QED BY <3>1, <3>3, <3>4, <3>5
  <2>21. ASSUME NEW t \in Tabs, LockSelections(t) PROVE FilesInv'
    <3>1. Shapes'
      <4>1. tabs[t].handle \in {0} \cup Handles /\ tabs[t].handle <= issued /\ issued \in Nat
        BY DEF UnderWay, Request, Follows, Shapes
      <4>2. cookie' \in {cookie, tabs[t].handle, SignedOut}
        BY <2>21 DEF LockSelections, Responds, history, bounds, memory
      <4>3. cookie' \in {SignedOut, 0} \cup Handles /\ cookie' <= issued
        BY <4>1, <4>2 DEF Shapes, SignedOut
      <4> QED BY <2>21, <4>3 DEF Shapes, LockSelections, Responds, history, bounds, memory
    <3>2. Undisturbed
      BY <2>21, FileWords DEF Shapes, Undisturbed, LockSelections, Responds, history, bounds, memory
    <3>3. Stored'
      BY <2>21, <3>1, <3>2, StoredSame DEF LockSelections, Responds, history, bounds, memory
    <3>4. Selected'
      <4>1. tabs[t].handle \in {0} \cup Handles /\ ticked' = ForgetSelections(tabs[t].handle)
        BY <2>21 DEF UnderWay, Request, LockSelections, Responds, history, bounds, memory
      <4>2. TicksStay /\ ticked' \in [Handles -> [Gens -> Selection]]
        BY <4>1, Forgetting DEF TicksStay
      <4> QED BY <2>21, <3>1, <3>2, <4>2, SelectedStays DEF LockSelections, Responds, history, bounds,
                 memory
    <3>5. UnderWay'
      <4>1. tabs' = [tabs EXCEPT ![t] = Idle]
        BY <2>21 DEF LockSelections, Responds, history, bounds, memory
      <4> QED BY <3>1, <3>2, <4>1, Answered
    <3> QED BY <3>1, <3>3, <3>4, <3>5
  <2>22. ASSUME NEW t \in Tabs, Refuse(t) PROVE FilesInv'
    <3>1. Shapes'
      <4>1. tabs[t].handle \in {0} \cup Handles /\ tabs[t].handle <= issued /\ issued \in Nat
        BY DEF UnderWay, Request, Follows, Shapes
      <4>2. cookie' \in {cookie, tabs[t].handle, SignedOut}
        BY <2>22 DEF Refuse, Responds, history, bounds, memory
      <4>3. cookie' \in {SignedOut, 0} \cup Handles /\ cookie' <= issued
        BY <4>1, <4>2 DEF Shapes, SignedOut
      <4> QED BY <2>22, <4>3 DEF Shapes, Refuse, Responds, history, bounds, memory
    <3>2. Undisturbed
      BY <2>22, FileWords DEF Shapes, Undisturbed, Refuse, Responds, history, bounds, memory
    <3>3. Stored'
      BY <2>22, <3>1, <3>2, StoredSame DEF Refuse, Responds, history, bounds, memory
    <3>4. Selected'
      BY <2>22, <3>1, <3>2, SelectedSame DEF Refuse, Responds, history, bounds, memory
    <3>5. UnderWay'
      <4>1. tabs' = [tabs EXCEPT ![t] = Idle]
        BY <2>22 DEF Refuse, Responds, history, bounds, memory
      <4> QED BY <3>1, <3>2, <4>1, Answered
    <3> QED BY <3>1, <3>3, <3>4, <3>5
  <2>23. ASSUME NEW t \in Tabs, PassGuard(t) PROVE FilesInv'
    <3>1. Shapes'
      BY <2>23, FileWords DEF Shapes, PassGuard, Moves, history, bounds, memory
    <3>2. Undisturbed
      BY <2>23, FileWords DEF Shapes, Undisturbed, PassGuard, Moves, history, bounds, memory
    <3>3. Stored'
      BY <2>23, <3>1, <3>2, StoredSame DEF PassGuard, Moves, history, bounds, memory
    <3>4. Selected'
      BY <2>23, <3>1, <3>2, SelectedSame DEF PassGuard, Moves, history, bounds, memory
    <3>5. UnderWay'
      <4>0. tabs[t] \in Request /\ Follows(tabs[t])
        BY DEF UnderWay
      <4>1. PICK r \in Request : r = [tabs[t] EXCEPT !.pc = "open"]
        BY <4>0, RequestsChange, FileWords
      <4>2. tabs' = [tabs EXCEPT ![t] = r]
        BY <2>23, <4>1 DEF PassGuard, Moves
      <4>3. /\ r.pc = "open" /\ r.gen = tabs[t].gen /\ r.handle = tabs[t].handle /\ r.kind = tabs[t].kind
            /\ r.old = tabs[t].old /\ r.torn = tabs[t].torn /\ r.overtaken = tabs[t].overtaken
        BY <4>0, <4>1 DEF Request
      <4>4. r.gen = "latest" => run = "none"
        BY <2>23, <4>3 DEF PassGuard, LiveBackupIsBeingWritten
      <4>5. Follows(r)'
        BY <2>23, <4>0, <4>3, <4>4 DEF Follows, PassGuard, history, bounds
      <4> QED BY <3>1, <3>2, <4>2, <4>5, OneRequestMoves
    <3> QED BY <3>1, <3>3, <3>4, <3>5
  <2>24. ASSUME NEW t \in Tabs, StartStream(t) PROVE FilesInv'
    <3>1. Shapes'
      <4>1. tabs[t].handle \in {0} \cup Handles /\ tabs[t].handle <= issued /\ issued \in Nat
        BY DEF UnderWay, Request, Follows, Shapes
      <4>2. cookie' \in {cookie, tabs[t].handle, SignedOut}
        BY <2>24 DEF StartStream, Responds, history, bounds, memory
      <4>3. cookie' \in {SignedOut, 0} \cup Handles /\ cookie' <= issued
        BY <4>1, <4>2 DEF Shapes, SignedOut
      <4> QED BY <2>24, <4>3 DEF Shapes, StartStream, Responds, history, bounds, memory
    <3>2. Undisturbed
      BY <2>24, FileWords DEF Shapes, Undisturbed, StartStream, Responds, history, bounds, memory
    <3>3. Stored'
      <4> DEFINE h == tabs[t].handle
                 g == tabs[t].gen
      <4>1. h \in {0} \cup Handles /\ g \in Gens
        BY DEF UnderWay, Request
      <4>2. EntriesStay /\ store' \in [Handles -> [Gens -> Entry]]
        <5>1. CASE h # 0 /\ g \in Held(h) \ Expired(h)
          <6>1. store' = [Swept EXCEPT ![h][g].left = Ttl]
            BY <2>24, <5>1 DEF StartStream
          <6>2. h \in Handles
            BY <4>1, <5>1
          <6> QED BY <4>1, <5>1, <6>1, <6>2, Renewed
        <5>2. CASE ~(h # 0 /\ g \in Held(h) \ Expired(h))
          <6>1. store' = store \/ store' = Swept
            BY <2>24, <5>2 DEF StartStream
          <6> QED BY <6>1, SweptStays DEF EntriesStay, Stored
        <5> QED BY <5>1, <5>2
      <4> QED BY <2>24, <3>1, <3>2, <4>2, StoredStays DEF StartStream, Responds, history, bounds, memory
    <3>4. Selected'
      <4>1. tabs[t].handle \in {0} \cup Handles /\ tabs[t].gen \in Gens
        BY DEF UnderWay, Request
      <4>2. ticked' = TicksRead(tabs[t].handle, tabs[t].gen) \/ ticked' = ticked
        BY <2>24 DEF StartStream
      <4>3. sinceSweep' = sinceSweep
        BY <2>24 DEF StartStream
      <4> QED BY <3>1, <3>2, <4>1, <4>2, <4>3, Reading, SelectedStays, SelectedSame
    <3>5. UnderWay'
      <4>0. tabs[t] \in Request /\ Follows(tabs[t])
        BY DEF UnderWay
      <4>1. CASE tabs' = [tabs EXCEPT ![t] = Idle]
        BY <3>1, <3>2, <4>1, Answered
      <4>2. CASE tabs' # [tabs EXCEPT ![t] = Idle]
        <5> DEFINE h == tabs[t].handle
                   recalled == h # 0 /\ tabs[t].gen \in Held(h) \ Expired(h)
                   recall == IF recalled THEN store[h][tabs[t].gen].key ELSE "none"
        <5>1. PICK key \in Carries : key = recall
          <6>1. CASE recalled
            BY <4>0, <6>1, FileWords DEF Request, Stored, Entry
          <6>2. CASE ~recalled
            BY <6>2, FileWords
          <6> QED BY <6>1, <6>2
        <5>2. tabs' = [tabs EXCEPT ![t].pc = "stream", ![t].key = key]
          BY <2>24, <4>2, <5>1 DEF StartStream, Responds
        <5>3. PICK r \in Request : r = [tabs[t] EXCEPT !.pc = "stream", !.key = key]
          BY <4>0, RequestsChange, FileWords
        <5>4. tabs' = [tabs EXCEPT ![t] = r]
          BY <5>2, <5>3
        <5>5. /\ r.pc = "stream" /\ r.gen = tabs[t].gen /\ r.handle = tabs[t].handle /\ r.kind = tabs[t].kind
              /\ r.old = tabs[t].old /\ r.torn = tabs[t].torn /\ r.overtaken = tabs[t].overtaken
          BY <4>0, <5>3 DEF Request
        <5>6. tabs[t].pc = "open" /\ run' = run /\ quiet' = quiet /\ issued' = issued
          BY <2>24 DEF StartStream, history, bounds
        <5>7. Follows(r)'
          BY <4>0, <5>5, <5>6 DEF Follows
        <5> QED BY <3>1, <3>2, <5>4, <5>7, OneRequestMoves
      <4> QED BY <4>1, <4>2
    <3> QED BY <3>1, <3>3, <3>4, <3>5
  <2>25. ASSUME NEW t \in Tabs, StreamPiece(t) PROVE FilesInv'
    <3>1. Shapes'
      BY <2>25, FileWords DEF Shapes, StreamPiece, history, bounds, memory
    <3>2. Undisturbed
      BY <2>25, FileWords DEF Shapes, Undisturbed, StreamPiece, history, bounds, memory
    <3>3. Stored'
      BY <2>25, <3>1, <3>2, StoredSame DEF StreamPiece, history, bounds, memory
    <3>4. Selected'
      BY <2>25, <3>1, <3>2, SelectedSame DEF StreamPiece, history, bounds, memory
    <3>5. UnderWay'
      <4>0. tabs[t] \in Request /\ Follows(tabs[t])
        BY DEF UnderWay
      <4>1. PICK b \in BOOLEAN : b <=> (tabs[t].torn \/ BeingRewritten(tabs[t].gen))
        OBVIOUS
      <4>2. PICK r \in Request : r = [tabs[t] EXCEPT !.torn = b]
        BY <4>0, RequestsChange
      <4>3. tabs' = [tabs EXCEPT ![t] = r]
        <5>1. (tabs[t].torn \/ BeingRewritten(tabs[t].gen)) = b
          BY <4>0, <4>1 DEF Request
        <5> QED BY <2>25, <4>2, <5>1 DEF StreamPiece
      <4>4. /\ r.pc = tabs[t].pc /\ r.gen = tabs[t].gen /\ r.handle = tabs[t].handle /\ r.kind = tabs[t].kind
            /\ r.old = tabs[t].old /\ r.torn = b /\ r.overtaken = tabs[t].overtaken /\ r.key = tabs[t].key
        BY <4>0, <4>2 DEF Request
      <4>5. tabs[t].pc = "stream" /\ run' = run /\ quiet' = quiet /\ issued' = issued /\ disk' = disk
        BY <2>25 DEF StreamPiece, history, bounds
      <4>6. b => r.overtaken
        BY <4>0, <4>1, <4>4, <4>5 DEF Follows, BeingRewritten
      <4>7. Follows(r)'
        BY <4>0, <4>4, <4>5, <4>6 DEF Follows
      <4> QED BY <3>1, <3>2, <4>3, <4>7, OneRequestMoves
    <3> QED BY <3>1, <3>3, <3>4, <3>5
  <2>26. ASSUME NEW t \in Tabs, EndStream(t) PROVE FilesInv'
    <3>1. Shapes'
      BY <2>26, FileWords DEF Shapes, EndStream, history, bounds, memory
    <3>2. Undisturbed
      BY <2>26, FileWords DEF Shapes, Undisturbed, EndStream, history, bounds, memory
    <3>3. Stored'
      BY <2>26, <3>1, <3>2, StoredSame DEF EndStream, history, bounds, memory
    <3>4. Selected'
      BY <2>26, <3>1, <3>2, SelectedSame DEF EndStream, history, bounds, memory
    <3>5. UnderWay'
      <4>1. tabs' = [tabs EXCEPT ![t] = Idle]
        BY <2>26 DEF EndStream, history, bounds, memory
      <4> QED BY <3>1, <3>2, <4>1, Answered
    <3> QED BY <3>1, <3>3, <3>4, <3>5
  <2>27. ASSUME NEW t \in Tabs, CheckPassword(t) PROVE FilesInv'
    <3>1. Shapes'
      <4>1. tabs[t].handle \in {0} \cup Handles /\ tabs[t].handle <= issued /\ issued \in Nat
        BY DEF UnderWay, Request, Follows, Shapes
      <4>2. cookie' \in {cookie, tabs[t].handle, SignedOut}
        BY <2>27 DEF CheckPassword, Responds, history, bounds, memory
      <4>3. cookie' \in {SignedOut, 0} \cup Handles /\ cookie' <= issued
        BY <4>1, <4>2 DEF Shapes, SignedOut
      <4> QED BY <2>27, <4>3 DEF Shapes, CheckPassword, Responds, history, bounds, memory
    <3>2. Undisturbed
      BY <2>27, FileWords DEF Shapes, Undisturbed, CheckPassword, Responds, history, bounds, memory
    <3>3. Stored'
      BY <2>27, <3>1, <3>2, StoredSame DEF CheckPassword, Responds, history, bounds, memory
    <3>4. Selected'
      BY <2>27, <3>1, <3>2, SelectedSame DEF CheckPassword, Responds, history, bounds, memory
    <3>5. UnderWay'
      <4>0. tabs[t] \in Request /\ Follows(tabs[t])
        BY DEF UnderWay
      <4>1. CASE tabs' = [tabs EXCEPT ![t] = Idle]
        BY <3>1, <3>2, <4>1, Answered
      <4>2. CASE tabs' # [tabs EXCEPT ![t] = Idle]
        <5>1. PICK key \in Carries :
                tabs' = [tabs EXCEPT ![t].pc = "mark", ![t].key = key] /\ key \in {"correct", "wrong"}
          BY <2>27, <4>2, FileWords DEF CheckPassword, Responds
        <5>2. PICK r \in Request : r = [tabs[t] EXCEPT !.pc = "mark", !.key = key]
          BY <4>0, RequestsChange, FileWords
        <5>3. tabs' = [tabs EXCEPT ![t] = r]
          BY <5>1, <5>2
        <5>4. /\ r.pc = "mark" /\ r.key = key /\ r.handle = tabs[t].handle /\ r.kind = tabs[t].kind
              /\ r.old = tabs[t].old /\ r.torn = tabs[t].torn /\ r.overtaken = tabs[t].overtaken
          BY <4>0, <5>2 DEF Request
        <5>5. Follows(r)'
          BY <2>27, <4>0, <5>1, <5>4 DEF Follows, CheckPassword, history, bounds
        <5> QED BY <3>1, <3>2, <5>3, <5>5, OneRequestMoves
      <4> QED BY <4>1, <4>2
    <3> QED BY <3>1, <3>3, <3>4, <3>5
  <2>28. ASSUME NEW t \in Tabs, RecordCheck(t) PROVE FilesInv'
    <3>1. Shapes'
      <4>1. tabs[t] \in Request /\ tabs[t].key \in {"correct", "wrong"}
        BY <2>28 DEF UnderWay, Follows, RecordCheck
      <4>2. mark' \in [result : {"none", "correct", "wrong"}, began : Nat, crossed : BOOLEAN]
        BY <2>28, <4>1 DEF RecordCheck, Request
      <4>3. mark'.began # changes => mark'.crossed
        BY <2>28 DEF RecordCheck
      <4>4. tabs[t].handle \in {0} \cup Handles /\ tabs[t].handle <= issued
        BY DEF UnderWay, Request, Follows
      <4>5. cookie' \in {SignedOut, 0} \cup Handles /\ cookie' <= issued
        BY <2>28, <4>4 DEF Shapes, RecordCheck, Responds
      <4> QED BY <2>28, <4>2, <4>3, <4>5 DEF Shapes, RecordCheck, Responds, history, bounds, memory
    <3>2. Undisturbed
      BY <2>28, FileWords DEF Shapes, Undisturbed, RecordCheck, Responds, history, bounds, memory
    <3>3. Stored'
      BY <2>28, <3>1, <3>2, StoredSame DEF RecordCheck, Responds, history, bounds, memory
    <3>4. Selected'
      BY <2>28, <3>1, <3>2, SelectedSame DEF RecordCheck, Responds, history, bounds, memory
    <3>5. UnderWay'
      <4>1. tabs' = [tabs EXCEPT ![t] = Idle]
        BY <2>28 DEF RecordCheck, Responds, history, bounds, memory
      <4> QED BY <3>1, <3>2, <4>1, Answered
    <3> QED BY <3>1, <3>3, <3>4, <3>5
  <2>29. CASE UNCHANGED vars
    BY <2>29, FilesSame DEF vars, memory, history, bounds
  <2> QED BY <2>1, <2>2, <2>3, <2>4, <2>5, <2>6, <2>7, <2>8, <2>9, <2>10, <2>11, <2>12, <2>13, <2>14,
             <2>15, <2>16, <2>17, <2>18, <2>19, <2>20, <2>21, <2>22, <2>23, <2>24, <2>25, <2>26, <2>27,
             <2>28, <2>29 DEF Next, Environment, Asks, Pages, Downloads, Checks
<1> QED BY <1>1, <1>2, PTL DEF Spec

(* candidate_passwords, files_page, forget_backup_passwords,               *)
(* sweep_backup_passwords_forever, run_password_change: whatever tabs and  *)
(* backups do, what the memory holds opens the backup it is held for, is   *)
(* gone in time and after a lock, and an old check does not outlive a      *)
(* change of the password.                                                 *)
THEOREM PasswordsInvAlways == Spec => []PasswordsInv
<1>1. FilesInv => PasswordsInv
  <2> SUFFICES ASSUME FilesInv PROVE PasswordsInv
    OBVIOUS
  <2> USE BoundsOfFiles DEF FilesInv
  <2>1. TypeOK
    <3>1. ASSUME NEW h \in Handles, NEW g \in Gens
          PROVE  /\ store[h][g].key \in Passwords \cup {"none"}
                 /\ g \in Held(h) \/ ticked[h][g].rows # {} => h <= issued
                 /\ ticked[h][g].rows \subseteq Rows /\ Cardinality(ticked[h][g].rows) <= MaxEntries
      <4>1. store[h][g] \in Entry /\ ticked[h][g] \in Selection
        BY DEF Stored, Selected
      <4> QED BY <4>1 DEF Stored, Selected, Entry, Selection, Keys, Passwords
    <3>2. \A t \in Tabs : tabs[t].handle \in {0} \cup Handles /\ tabs[t].gen \in Gens
      BY DEF UnderWay, Request
    <3>3. quiet \subseteq Handles
      BY DEF Shapes, Handles
    <3> QED BY <3>1, <3>2, <3>3 DEF TypeOK, Shapes
  <2>2. HeldForTtl
    <3>1. sinceSweep \in 0 .. SweepEvery
      BY DEF Shapes
    <3>2. \A h \in Handles, g \in Gens : store[h][g].left \in Int /\ ticked[h][g].left \in Int
      BY DEF Stored, Selected, Entry, Selection
    <3> QED BY <3>1, <3>2 DEF HeldForTtl, Stored, Selected
  <2>3. OldCheckForgotten
    BY DEF OldCheckForgotten, Shapes
  <2> QED BY <2>1, <2>2, <2>3 DEF PasswordsInv, Stored
<1> QED BY <1>1, FilesInvAlways, PTL

(* live_backup_is_being_written: the guard lets no download read what a    *)
(* run recorded before it is writing.                                      *)
THEOREM OnlyOvertakenIsTornAlways == Spec => []OnlyOvertakenIsTorn
<1>1. FilesInv => OnlyOvertakenIsTorn
  BY DEF FilesInv, UnderWay, Follows, OnlyOvertakenIsTorn
<1> QED BY <1>1, FilesInvAlways, PTL

(* covered_by against selection_file_ids, for any paths, any rows that are *)
(* ticked and any way LIKE folds letters: what the columns show as ticked  *)
(* and what the archive holds are the same, case aside.                    *)
THEOREM ArchiveIsWhatIsTickedAlways == Spec => []ArchiveIsWhatIsTicked
<1>1. FilesInv => ArchiveIsWhatIsTicked
  <2> SUFFICES ASSUME FilesInv, NEW h \in Handles, NEW g \in Gens
               PROVE  LET chosen == ticked[h][g].rows  archive == SelectionFileIds(chosen) IN
                      /\ {p \in FilePaths : p \in chosen \/ Covers(chosen, p)} \subseteq archive
                      /\ \A p \in archive : p \in chosen \/ Covers({Folded(c) : c \in chosen}, Folded(p))
    BY DEF ArchiveIsWhatIsTicked
  <2>1. PICK chosen \in SUBSET Rows : chosen = ticked[h][g].rows
    BY DEF FilesInv, Selected, Selection
  <2> QED BY <2>1, SelectionsAgree
<1> QED BY <1>1, FilesInvAlways, PTL

=============================================================================
