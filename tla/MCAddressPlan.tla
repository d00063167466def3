---------------------------- MODULE MCAddressPlan ----------------------------
(***************************************************************************)
(* The address plan of a lab of two hubs, two spokes, two transports and   *)
(* one gateway, with a block of 16 addresses for every network but the     *)
(* transits.                                                               *)
(***************************************************************************)
EXTENDS AddressPlan

HubAt == [h \in {"h1", "h2"} |-> IF h = "h1" THEN 0 ELSE 1]
SpokeAt == [n \in {"n1", "n2"} |-> IF n = "n1" THEN 0 ELSE 1]
TransportAt == [t \in {"mpls", "bb"} |-> IF t = "mpls" THEN 0 ELSE 1]
Block(s) ==
  CASE s[1] = "management" -> 0
    [] s[1] = "dataCenter" -> 1
    [] s[1] = "saas" -> 2
    [] s[1] = "cloud" -> 3
    [] s[1] = "underlay" -> 4 + TransportAt[s[2]]
    [] s[1] = "interhub" -> 6 + TransportAt[s[2]]
    [] s[1] = "lan" -> 8 + SpokeAt[s[2]]
    [] s[1] = "transit" -> 10 + HubAt[s[2]]
    [] s[1] = "overlay" -> 12 + 2 * HubAt[s[2]] + TransportAt[s[3]]
LabNetwork(s) == [base |-> 16 * Block(s), size |-> IF s[1] = "transit" THEN 4 ELSE 16]
LabId(n) ==
  CASE n = "h1" -> 1
    [] n = "h2" -> 2
    [] n = "n1" -> 3
    [] n = "n2" -> 4
    [] n = "g1" -> 5
LabAddress(i) ==
  LabNetwork(i.segment).base +
    CASE i.node \in {"h1", "h2", "n1", "n2", "g1"} -> LabId(i.node)
      [] i.node = "sensitive" -> 12
      [] i.node = "unknown" -> 13
      [] OTHER -> 10

(* What an edit may write: networks that overlap others or are too small,  *)
(* identifiers that meet others, addresses inside and outside, ports near  *)
(* the end.                                                                *)
LabEdits ==
  {[base |-> 32, size |-> 16], [base |-> 64, size |-> 4], [base |-> 256, size |-> 16],
   [base |-> 240, size |-> 2], [base |-> 242, size |-> 2]}

ASSUME PlanAssumption == NamesAssumption /\ ValuesAssumption
=============================================================================
