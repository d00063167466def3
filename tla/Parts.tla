-------------------------------- MODULE Parts --------------------------------
(***************************************************************************)
(* Parts of both versions that share no state, on small instances in one   *)
(* run: a behaviour is a behaviour of one of them; the others stay where   *)
(* they start.                                                             *)
(***************************************************************************)
EXTENDS MCPacketMarks, TunnelMonitor, LocalFailover, RouteOwnership, EvidenceBundle,
        DesiredPaths, SpokeActivation, DestinationPolicy, HubFailoverV4, PathSelection,
        PolicyDistribution, ChatSessions

VARIABLE part

allVars ==
  <<part, vars, monitorVars, managerVars, pathsVars, activationVars, ownershipVars,
    destinationVars, hubsVars, selectionVars, decisionVars, chatVars, bundleVars>>

(* Values of constants.                                                    *)
InitialTargets == [s \in {"mpls", "bb"} |-> IF s = "mpls" THEN "h1mpls" ELSE "h1bb"]
ToolYields == [t \in {"explain"} |-> {"edge_route", "sites"}]
KindsOfClaim == [c \in {"endpoint_route", "site_status"} |->
                   IF c = "endpoint_route" THEN {"edge_route"} ELSE {"sites"}]
HomeHub == [s \in {"n1", "n2"} |-> IF s = "n1" THEN "h1" ELSE "h2"]
TwoRankings == {<<"bb", "mpls">>, <<"mpls", "bb">>}
TwoUnderlays == <<"mpls", "bb">>

ASSUME PartsAssumption ==
  /\ MonitorAssumption
  /\ ManagerAssumption
  /\ PathsAssumption
  /\ ActivationAssumption
  /\ OwnershipAssumption
  /\ PolicyAssumption
  /\ HubFailoverV4Assumption
  /\ PathSelectionAssumption
  /\ PolicyDistributionAssumption
  /\ SessionsAssumption
  /\ BundleAssumption

(* Parts with several initial states have one while another part moves.     *)
PartsInit ==
  /\ part \in {"tunnel", "manager", "paths", "activation", "ownership", "destination",
              "marks", "hubsV4", "epochs", "policy", "chat", "bundle"}
  /\ MonitorInit /\ ManagerInit /\ PathsInit /\ ActivationInit /\ OwnershipInit
  /\ DestinationInit /\ Init /\ HubsInit /\ SelectionInit /\ DecisionInit /\ ChatInit /\ BundleInit
  /\ part # "destination" => followed = "saas"
  /\ part # "marks" => role = "hub"

PartsNext ==
  /\ UNCHANGED part
  /\ IF part = "tunnel" THEN MonitorNext ELSE UNCHANGED monitorVars
  /\ IF part = "manager" THEN ManagerNext ELSE UNCHANGED managerVars
  /\ IF part = "paths" THEN PathsNext ELSE UNCHANGED pathsVars
  /\ IF part = "activation" THEN ActivationNext ELSE UNCHANGED activationVars
  /\ IF part = "ownership" THEN OwnershipNext ELSE UNCHANGED ownershipVars
  /\ IF part = "destination" THEN DestinationNext ELSE UNCHANGED destinationVars
  /\ IF part = "marks" THEN Next ELSE UNCHANGED vars
  /\ IF part = "hubsV4" THEN HubsNext ELSE UNCHANGED hubsVars
  /\ IF part = "epochs" THEN SelectionNext ELSE UNCHANGED selectionVars
  /\ IF part = "policy" THEN DecisionNext ELSE UNCHANGED decisionVars
  /\ IF part = "chat" THEN ChatNext ELSE UNCHANGED chatVars
  /\ IF part = "bundle" THEN BundleNext ELSE UNCHANGED bundleVars

PartsSpec == PartsInit /\ [][PartsNext]_allVars
=============================================================================
