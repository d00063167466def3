----------------------------- MODULE AddressPlan -----------------------------
(***************************************************************************)
(* The address plan of topology.yaml: networks, address identifiers and    *)
(* the addresses written out; the addresses and WireGuard ports derived    *)
(* from them; the interfaces that the live topology and the desired states *)
(* create; and the checks a plan must pass before any component starts.    *)
(* An operator edits the file; every component loads it, and refuses one   *)
(* that fails a check.  Addresses are numbers, and a network is the number *)
(* of its first address and its size.                                      *)
(***************************************************************************)
EXTENDS Naturals

CONSTANTS
  Hubs, HubIndex,             \* HUBS: how many, and the place of each
  Spokes, SpokeIndex,         \* SPOKES
  Transports, TransportIndex, \* TRANSPORTS
  Internet,      \* the Internet-capable transports
  Gateway,       \* gateways of the cloud
  FixedServer,   \* servers whose address the live topology writes out
  ShippedNetwork(_), ShippedId(_), ShippedAddress(_), ShippedStart, \* topology.yaml
  EditedNetworks, EditedIds, EditedAddresses, EditedStarts, \* bounds: what a value may become
  MaxEdits       \* bound: edits

HubRouter == DOMAIN HubIndex
SpokeRouter == DOMAIN SpokeIndex
PlanTransport == DOMAIN TransportIndex
Router == HubRouter \cup SpokeRouter

(* A list without repetition.                                              *)
IsIndex(index, length) ==
  /\ length \in Nat
  /\ index \in [DOMAIN index -> 0..(length - 1)]
  /\ \A x, y \in DOMAIN index : index[x] = index[y] => x = y

Servers == {"root", "host", "dcApp", "saasApp", "cloudApp"}

NamesAssumption ==
  /\ IsIndex(HubIndex, Hubs) /\ IsIndex(SpokeIndex, Spokes) /\ IsIndex(TransportIndex, Transports)
  /\ Internet \subseteq PlanTransport
  /\ HubRouter \cap SpokeRouter = {} /\ Router \cap Gateway = {}
  /\ (Router \cup Gateway) \cap (Servers \cup FixedServer) = {}
  /\ Servers \cap FixedServer = {}

-----------------------------------------------------------------------------
(* Segments, the places interfaces are on.                                 *)
Underlay(t) == <<"underlay", t, t>>
OverlaySegment(h, t) == <<"overlay", h, t>>
Interhub(t) == <<"interhub", t, t>>
LanSegment(s) == <<"lan", s, s>>
Transit(h, g) == <<"transit", h, g>>
Management == <<"management", "", "">>
DataCenter == <<"dataCenter", "", "">>
Saas == <<"saas", "", "">>
Cloud == <<"cloud", "", "">>

Segment ==
  {Management, DataCenter, Saas, Cloud}
    \cup {Underlay(t) : t \in PlanTransport} \cup {Interhub(t) : t \in PlanTransport}
    \cup {OverlaySegment(h, t) : h \in HubRouter, t \in PlanTransport}
    \cup {LanSegment(s) : s \in SpokeRouter} \cup {Transit(h, g) : h \in HubRouter, g \in Gateway}

SegmentKind(i) == i.segment[1]

On(segment, nodes) == {[node |-> n, segment |-> segment] : n \in nodes}

SaasOnUnderlay == UNION {On(Underlay(t), {"saasApp"}) : t \in Internet}
OnLan == UNION {On(LanSegment(s), {s, "host"}) : s \in SpokeRouter}

(* The interfaces whose address is written in the plan, or in the code;    *)
(* every gateway has its addresses, active or not.                         *)
Written ==
  On(Management, Router \cup Gateway \cup {"root"})
    \cup On(DataCenter, HubRouter \cup {"dcApp"})
    \cup On(Saas, FixedServer \cup {"saasApp"})
    \cup On(Cloud, Gateway \cup {"cloudApp"})
    \cup SaasOnUnderlay \cup OnLan

(* The interfaces whose address is derived.                                *)
OnUnderlay == UNION {On(Underlay(t), Router) : t \in PlanTransport}
OnOverlay == UNION {On(OverlaySegment(h, t), SpokeRouter \cup {h}) : h \in HubRouter, t \in PlanTransport}
OnInterhub == UNION {On(Interhub(t), HubRouter) : t \in PlanTransport}
OnTransit == UNION {On(Transit(h, g), {h, g}) : h \in HubRouter, g \in Gateway}

Interface == Written \cup OnUnderlay \cup OnOverlay \cup OnInterhub \cup OnTransit

Network == [base : Nat, size : Nat \ {0}]
PlanType == [net : [Segment -> Network], id : [Router \cup Gateway -> Nat],
         address : [Written -> Nat], start : Nat]

(* What a plan is made of is typed; edits of the file keep it so.           *)
ValuesAssumption ==
  /\ \A s \in Segment : ShippedNetwork(s) \in Network
  /\ \A n \in Router \cup Gateway : ShippedId(n) \in Nat
  /\ \A i \in Written : ShippedAddress(i) \in Nat
  /\ ShippedStart \in Nat /\ MaxEdits \in Nat
  /\ EditedNetworks \subseteq Network
  /\ EditedIds \subseteq Nat /\ EditedAddresses \subseteq Nat /\ EditedStarts \subseteq Nat

Inside(a, n) == n.base <= a /\ a < n.base + n.size
Usable(a, n) == n.base < a /\ a + 1 < n.base + n.size
Overlap(m, n) == m.base < n.base + n.size /\ n.base < m.base + m.size

(* How far a derived address is into its network.                          *)
UnderlayOffset(plan, i) == plan.id[i.node]
OverlayOffset(plan, i) == IF i.node \in HubRouter THEN 1 ELSE plan.id[i.node]
InterhubOffset(i) == HubIndex[i.node] + 1
TransitOffset(i) == IF i.node \in HubRouter THEN 1 ELSE 2

Offset(plan, i) ==
  CASE SegmentKind(i) = "underlay" -> UnderlayOffset(plan, i)
    [] SegmentKind(i) = "overlay" -> OverlayOffset(plan, i)
    [] SegmentKind(i) = "interhub" -> InterhubOffset(i)
    [] SegmentKind(i) = "transit" -> TransitOffset(i)

Address(plan, i) ==
  IF i \in DOMAIN plan.address THEN plan.address[i] ELSE plan.net[i.segment].base + Offset(plan, i)

-----------------------------------------------------------------------------
(* WireGuard ports: a block of 64 for every router, hubs first.            *)
Listener ==
  [node : SpokeRouter, hub : HubRouter, transport : PlanTransport, interhub : {FALSE}]
    \cup UNION {[node : {h}, hub : {h}, transport : PlanTransport, interhub : BOOLEAN] : h \in HubRouter}

WireguardPort(plan, l) ==
  IF l.node \in HubRouter
  THEN plan.start + HubIndex[l.node] * 64 + TransportIndex[l.transport]
  ELSE plan.start + (Hubs + SpokeIndex[l.node]) * 64
                  + HubIndex[l.hub] * Transports + TransportIndex[l.transport]

InterhubPort(plan, l) ==
  plan.start + HubIndex[l.node] * 64 + Transports + TransportIndex[l.transport]

Port(plan, l) == IF l.interhub THEN InterhubPort(plan, l) ELSE WireguardPort(plan, l)

-----------------------------------------------------------------------------
(* validate_config: the checks on addresses and ports.                     *)
UniqueAnywhere(plan, interfaces) == \* mutant: addresses need not be in their network
  \A i, j \in interfaces : Address(plan, i) = Address(plan, j) => i = j

UniqueUsable(plan, interfaces) ==
  /\ \A i, j \in interfaces : Address(plan, i) = Address(plan, j) => i = j
  /\ \A i \in interfaces : Usable(Address(plan, i), plan.net[i.segment])

OnSegment(segment) == {i \in Written \cup OnUnderlay : i.segment = segment}

LansSound(plan) ==
  \A s \in SpokeRouter : \A gateway \in On(LanSegment(s), {s}), host \in On(LanSegment(s), {"host"}) :
    /\ Inside(plan.address[gateway], plan.net[LanSegment(s)])
    /\ Usable(plan.address[host], plan.net[LanSegment(s)])
    /\ plan.address[gateway] # plan.address[host]

ServersSound(plan) ==
  /\ UniqueUsable(plan, OnSegment(DataCenter))
  /\ UniqueUsable(plan, On(Saas, {"saasApp"}))

CloudSound(plan) ==
  /\ \A h \in HubRouter, g \in Gateway : plan.net[Transit(h, g)].size = 4
  /\ UniqueUsable(plan, OnSegment(Cloud))

IdsSound(plan) ==
  \A n, m \in Router \cup Gateway : plan.id[n] > 0 /\ (plan.id[n] = plan.id[m] => n = m)

UnderlaysSound(plan) == \A t \in PlanTransport : UniqueUsable(plan, OnSegment(Underlay(t)))

NetworksSound(plan) ==
  \A a, b \in Segment : a # b => ~Overlap(plan.net[a], plan.net[b])

ManagementSound(plan) == UniqueUsable(plan, OnSegment(Management))

PortsSound(plan) ==
  /\ plan.start > 0
  /\ \A l, k \in Listener : Port(plan, l) = Port(plan, k) => l = k
  /\ \A l \in Listener : Port(plan, l) <= 65535

PlanAccepted(plan) ==
  /\ LansSound(plan) /\ ServersSound(plan) /\ CloudSound(plan)
  /\ IdsSound(plan) /\ UnderlaysSound(plan) /\ NetworksSound(plan)
  /\ ManagementSound(plan) /\ PortsSound(plan)

-----------------------------------------------------------------------------
VARIABLES plan, edits

planVars == <<plan, edits>>

PlanInit ==
  /\ plan = [net |-> [s \in Segment |-> ShippedNetwork(s)],
             id |-> [n \in Router \cup Gateway |-> ShippedId(n)],
             address |-> [i \in Written |-> ShippedAddress(i)],
             start |-> ShippedStart]
  /\ edits = 0

(* Addresses written in the code are not edited.                           *)
Edit ==
  /\ edits < MaxEdits /\ edits' = edits + 1
  /\ \/ \E s \in Segment, n \in EditedNetworks : plan' = [plan EXCEPT !.net[s] = n]
     \/ \E n \in Router \cup Gateway, id \in EditedIds : plan' = [plan EXCEPT !.id[n] = id]
     \/ \E i \in {w \in Written : w.node \notin FixedServer}, a \in EditedAddresses :
          plan' = [plan EXCEPT !.address[i] = a]
     \/ \E start \in EditedStarts : plan' = [plan EXCEPT !.start = start]

PlanNext == Edit

PlanSpec == PlanInit /\ [][PlanNext]_planVars

-----------------------------------------------------------------------------
PlanTypeOK == plan \in PlanType /\ edits \in 0..MaxEdits

(* What the checks leave out: the servers with an address in the code; a   *)
(* spoke's end of an overlay with identifier 1, the hub's offset; and an   *)
(* overlay or inter-hub network too small for the offset.                  *)
LeftUnchecked(i) ==
  \/ i.node \in FixedServer
  \/ SegmentKind(i) = "overlay" /\ i.node \in SpokeRouter /\ plan.id[i.node] = 1
  \/ SegmentKind(i) \in {"overlay", "interhub"} /\ Offset(plan, i) >= plan.net[i.segment].size

(* In an accepted plan an address names one interface in the whole lab,    *)
(* whatever network it is on; but for interfaces the checks leave out.     *)
AddressNamesInterface ==
  PlanAccepted(plan) =>
    LET named == {<<i, Address(plan, i)>> : i \in {k \in Interface : ~LeftUnchecked(k)}}
    IN  \A p, q \in named : p[2] = q[2] => p = q
=============================================================================
