-------------------------- MODULE DestinationPolicy --------------------------
(***************************************************************************)
(* From a destination policy to the packets of a spoke: the Policy Service *)
(* starts with a document and refuses an unsafe one; an edge applies its   *)
(* desired state, fetches the snapshot, writes routes, then marks, and may *)
(* fail after each.  One destination is followed, through the documents of *)
(* several starts of the service: the whole SaaS network, a part of it, the *)
(* Cloud VPC or another network.  The active targets of a spoke name its   *)
(* preferred hub for every slot, so a mark tells the transport and whether *)
(* the destination is left to directly.                                    *)
(***************************************************************************)
EXTENDS Naturals, Sequences

CONSTANTS SlotTransport, InternetCapable, Mpls, Rankings, NoDestinationMark

(* Assumed of the constants, where the module is extended. *)
PolicyAssumption ==
  /\ InternetCapable \subseteq SlotTransport /\ Mpls \in SlotTransport \ InternetCapable
  /\ Rankings \subseteq Seq(SlotTransport) /\ <<>> \notin Rankings

VARIABLES
  followed,       \* the destination that is followed
  installing,     \* how far the edge's last reconciliation got
  fetched,        \* the mark the snapshot asks for, once its routes are written
  fetchedTrusts,  \* whether its policy trusts the destination
  given,          \* the mark the edge gives the destination, or NoMark
  trusts,         \* whether the policy it was chosen under trusts the destination
  direct,         \* transports whose slot table sends the destination to the Internet
  tunnelled       \* transports whose hub table sends it into the tunnel

destinationVars == <<followed, installing, fetched, fetchedTrusts, given, trusts, direct, tunnelled>>

Destinations == {"saas", "part of saas", "cloud", "other"}

Policies ==
  [kind : {"DATA_CENTER", "CLOUD_VPC", "SAAS", "UNKNOWN"},
   trust : {"TRUSTED", "SENSITIVE", "UNKNOWN"},
   egress : SUBSET {"HUB_OVERLAY", "DIRECT_INTERNET", "CLOUD_GATEWAY"} \ {{}},
   ranked : Rankings,
   closed : BOOLEAN,      \* failure action FAIL_CLOSED
   central : BOOLEAN,     \* central inspection or public address required
   prefix : Destinations]

HubOnly(p) == "DIRECT_INTERNET" \notin p.egress
UsesHub(p) == "HUB_OVERLAY" \in p.egress

(* Faulty: the rule about sensitive traffic asks for inspection only.      *)
TrustRespectedWeak(p) ==
  /\ p.trust = "SENSITIVE" => p.central
  /\ p.trust = "UNKNOWN" => HubOnly(p) /\ p.closed
TrustRespected(p) ==
  /\ p.trust = "SENSITIVE" => HubOnly(p) /\ p.central
  /\ p.trust = "UNKNOWN" => HubOnly(p) /\ p.closed
  /\ p.central => HubOnly(p) /\ UsesHub(p)

Safe(p) ==
  /\ ~HubOnly(p) => /\ \E i \in DOMAIN p.ranked : p.ranked[i] \in InternetCapable
                    /\ p.ranked[1] # Mpls
  /\ p.kind = "CLOUD_VPC" => p.egress = {"HUB_OVERLAY"} /\ p.prefix = "cloud"
  /\ p.kind # "CLOUD_VPC" => "CLOUD_GATEWAY" \notin p.egress
  /\ p.kind = "SAAS" /\ p.trust # "TRUSTED" => HubOnly(p) /\ UsesHub(p) /\ p.closed
  /\ TrustRespected(p)

(* A service that is started with an unsafe document does not start.       *)
Startable == {p \in Policies : Safe(p)}

DestinationInit ==
  /\ followed \in Destinations
  /\ installing = "new"
  /\ fetched = NoDestinationMark /\ fetchedTrusts = FALSE /\ given = NoDestinationMark /\ trusts = FALSE
  /\ direct = {} /\ tunnelled = {}

(* The routes of the desired state hold every known remote network, the    *)
(* SaaS network included: written into the slot tables, they replace a     *)
(* direct route to the whole of it.                                        *)
ReconcileRoutes ==
  /\ installing \in {"new", "failed", "done"}
  /\ installing' = "reconciled"
  /\ direct' = IF followed = "saas" THEN {} ELSE direct
  /\ tunnelled' = IF followed = "other" THEN tunnelled ELSE SlotTransport
  /\ UNCHANGED <<followed, fetched, fetchedTrusts, given, trusts>>

Trusts(p) == p.trust = "TRUSTED" /\ ~p.central
Capable(p) == {i \in DOMAIN p.ranked : p.ranked[i] \in InternetCapable}
FirstCapable(p) == {p.ranked[i] : i \in {i \in Capable(p) : \A j \in Capable(p) : i <= j}}

Marks(p) ==
  CASE ~HubOnly(p) /\ Capable(p) # {} -> [direct : {TRUE}, via : FirstCapable(p)]
    [] UsesHub(p) /\ (HubOnly(p) \/ Capable(p) = {}) -> [direct : {FALSE}, via : {p.ranked[1]}]
    [] OTHER -> {}

(* The edge fetches the snapshot of a service that may have been started   *)
(* with another document since.  Routes are written while the intents are  *)
(* read, before any mark; direct Internet outside the SaaS network stops   *)
(* the installation there.                                                 *)
WriteRoutes(p) ==
  /\ installing = "reconciled" /\ p.prefix = followed
  /\ fetched' \in Marks(p)
  /\ fetchedTrusts' = Trusts(p)
  /\ installing' = "routed"
  /\ \/ /\ fetched'.direct /\ followed \in {"saas", "part of saas"}
        /\ direct' = direct \cup {fetched'.via} /\ UNCHANGED tunnelled
     \/ /\ ~fetched'.direct
        /\ tunnelled' = tunnelled \cup {fetched'.via} /\ UNCHANGED direct
  /\ UNCHANGED <<followed, given, trusts>>

WriteMarks ==
  /\ installing = "routed"
  /\ installing' = "done"
  /\ given' = fetched /\ trusts' = fetchedTrusts
  /\ fetched' = NoDestinationMark /\ fetchedTrusts' = FALSE
  /\ UNCHANGED <<followed, direct, tunnelled>>

InstallFails ==
  /\ installing \in {"reconciled", "routed"}
  /\ installing' = "failed"
  /\ fetched' = NoDestinationMark /\ fetchedTrusts' = FALSE
  /\ UNCHANGED <<followed, given, trusts, direct, tunnelled>>

DestinationNext ==
  \/ \E p \in Startable : WriteRoutes(p)
  \/ ReconcileRoutes \/ WriteMarks \/ InstallFails

DestinationSpec == DestinationInit /\ [][DestinationNext]_destinationVars

-----------------------------------------------------------------------------
(* Whatever documents the service ran with and wherever a reconciliation   *)
(* stopped: a destination is marked for the Internet only under a policy   *)
(* that trusts it and requires nothing central, on a transport that leads  *)
(* there; a mark for a hub has its route; and when a reconciliation is over *)
(* a mark for the Internet has its route too, although the reconciliation  *)
(* began by replacing it (edge_agent_v5.py:292-307, 466-478).              *)
MarksStandForPolicy ==
  given # NoDestinationMark =>
    IF given.direct
    THEN trusts /\ given.via \in InternetCapable /\ (installing = "done" => given.via \in direct)
    ELSE given.via \in tunnelled
=============================================================================
