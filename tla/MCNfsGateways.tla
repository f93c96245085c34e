--------------------------- MODULE MCNfsGateways ---------------------------
(* Instances of NfsGateways for TLC: with one port per gateway, the list of   *)
(* an impaired interface group has room for a new gateway, which rebuilds it. *)
EXTENDS NfsGateways

MCPortsOf == [v \in Gateways |-> 1]
============================================================================
