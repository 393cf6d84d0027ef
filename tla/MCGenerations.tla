--------------------------- MODULE MCGenerations ---------------------------
(* An instance of Generations for TLC: a day is one unit, a week two, a    *)
(* month three, so that weeks cross months.                                *)
EXTENDS Generations

Rules(last, daily, weekly, monthly, yearly) ==
  [rule \in {"last"} \cup Periods |->
     CASE rule = "last" -> last [] rule = "daily" -> daily [] rule = "weekly" -> weekly
       [] rule = "monthly" -> monthly [] rule = "yearly" -> yearly]

MCTimes == {1, 2}
MCSample == 1 .. 5
MCPeriodLength == [p \in Periods |-> CASE p = "daily" -> 1 [] p = "weekly" -> 2
                                       [] p = "monthly" -> 3 [] p = "yearly" -> 12]
MCPolicies == {Rules(1, 0, 0, 0, 0), Rules(0, 0, 2, 0, 0)}
MCCheckedPolicies == {Rules(l, d, w, m, 0) : l \in 0 .. 1, d \in 0 .. 2, w \in 0 .. 2, m \in 0 .. 1}
=============================================================================
