----------------------------- MODULE RunLedger -----------------------------
(***************************************************************************)
(* What every reader of the runs table relies on, without the machinery:   *)
(* runs are opened one at a time per device, each is closed once with a    *)
(* result that then stays, and rows leave only with their whole device.    *)
(***************************************************************************)
EXTENDS Naturals

CONSTANTS Devices, MaxRuns

VARIABLE ledger  \* id -> [udid, status]

Ids == 1 .. MaxRuns
Results == {"succeeded", "failed", "not_confirmed"}

IsOpen(id) == ledger[id].status = "running"
OpenRuns == {id \in DOMAIN ledger : IsOpen(id)}

Init == ledger = <<>>

Open(id, d) ==
  /\ id \notin DOMAIN ledger
  /\ \A other \in OpenRuns : ledger[other].udid # d
  /\ ledger' = [i \in DOMAIN ledger \cup {id} |->
                  IF i = id THEN [udid |-> d, status |-> "running"] ELSE ledger[i]]

(* One result for one run, or 'failed' for several at once (a sweep).      *)
Close(S, result) ==
  /\ S # {}
  /\ ledger' = [i \in DOMAIN ledger |->
                  IF i \in S THEN [ledger[i] EXCEPT !.status = result] ELSE ledger[i]]

Forget(d) ==
  /\ \A id \in OpenRuns : ledger[id].udid # d
  /\ ledger' = [i \in {id \in DOMAIN ledger : ledger[id].udid # d} |-> ledger[i]]

Next ==
  \/ \E id \in Ids, d \in Devices : Open(id, d)
  \/ \E id \in OpenRuns, result \in Results : Close({id}, result)
  \/ \E S \in SUBSET OpenRuns : Close(S, "failed")
  \/ \E d \in Devices : Forget(d)

Spec == Init /\ [][Next]_ledger
=============================================================================
