------------------------------ MODULE MCAlerts ------------------------------
(* An instance of Alerts for TLC: one device, whose owner is also the one  *)
(* administrator and has two browsers.                                     *)
EXTENDS Alerts, TLC

CONSTANTS phone, admin, laptop, tablet

MCDevices == {phone}
MCUsers == {admin}
MCSubscriptions == {laptop, tablet}
MCSubscriberOf == [s \in MCSubscriptions |-> admin]
MCPushReach == [about \in {phone, Volume} |-> {admin}]

Symmetry == Permutations(MCSubscriptions)
=============================================================================
