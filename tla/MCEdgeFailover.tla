--------------------------- MODULE MCEdgeFailover ---------------------------
(* Instances of EdgeFailover for TLC. *)
EXTENDS EdgeFailover, TLC

CONSTANTS mpls, bb

Every == Interface
AllButStandbyMpls == Interface \ {[hub |-> Standby, transport |-> mpls]}
OneTransport == {bb}
TwoTransports == {mpls, bb}
OnePlace == bb :> 1
TwoPlaces == mpls :> 1 @@ bb :> 2
=============================================================================
