---------------------------- MODULE DesiredPaths ----------------------------
(***************************************************************************)
(* The desired states of spokes and hubs, put together: whether what each  *)
(* router was told separately makes a path from branch to branch.          *)
(*                                                                         *)
(* A registration stores a key, reads all the keys and, once both hubs     *)
(* have one, publishes the first hub's state and then the second's, each   *)
(* in a transaction of its own; any number of registrations overlap, and   *)
(* each may die in between.  A hub applies and verifies its newest state;  *)
(* a spoke is published once both hubs have, and every slot of it moves    *)
(* between the hubs.  A key is its number: the first a node registers, or  *)
(* the second, which retires it.  WireGuard is external: a packet leaves   *)
(* by the peer whose AllowedIPs hold its destination, is taken from a peer *)
(* whose AllowedIPs hold its source, and the ends know each other's keys.  *)
(***************************************************************************)
EXTENDS Integers, FiniteSets

CONSTANTS
  Site, HubSite,
  FirstHub,      \* the hub whose state a registration publishes first
  Transport, Preferred, Elsewhere,
  Rotating,      \* bound: nodes that register a second key
  Requested,     \* bound: registrations in one behaviour
  Disturbances   \* bound: registrations that overlap another or die, and spokes
                 \* activated during their own

Node == Site \cup HubSite
Numbers == [Node -> 0..2]

(* Assumed of the constants, where the module is extended. *)
PathsAssumption ==
  /\ Preferred \in [Site -> HubSite]
  /\ Site \cap HubSite = {} /\ FirstHub \in HubSite
  /\ Requested \in Nat /\ Disturbances \in Nat

VARIABLES
  keys,         \* node -> number of its ACTIVE public key, 0 without one
  registering,  \* node -> its registration under way
  newest,       \* hub -> whether its newest desired state is "none", "published", "verified"
  published,    \* hub -> the keys its newest desired state was built from
  applied,      \* hub -> the keys it is configured with
  told,         \* activated spoke -> hub -> the key it is told that hub has
  slotHubs,     \* applied spoke -> transport -> hub its slot leads to
  disturbed,    \* number of the disturbances so far
  requested     \* bound: number of registrations so far

pathsVars ==
  <<keys, registering, newest, published, applied, told, slotHubs, disturbed,
    requested>>

NoNumbers == [n \in Node |-> 0]
NotRegistering == [at |-> "no", left |-> {}, read |-> NoNumbers]
Registering(n) == registering[n].at # "no"

(* Addresses: the LAN of a site or another network, and the tunnel ends.   *)
LanOf(s) == <<s, "lan">>
TunnelEnd(node, h, t) == <<node, h, t>>
AllRemotePrefixes(s) == {LanOf(x) : x \in (Site \ {s}) \cup Elsewhere}

(* The one peer of each interface of a spoke, and the routes of its table. *)
SpokeAllowed(s, h, t) == {TunnelEnd(h, h, t)} \cup AllRemotePrefixes(s)
SpokeRoutes(s) == AllRemotePrefixes(s)

(* The peers of a hub's interface for one transport, built from known keys. *)
HubPeers(known) == {s \in Site : known[s] # 0}
HubAllowed(s, h, t) == {TunnelEnd(s, h, t), LanOf(s)}
HubRoutes == {LanOf(s) : s \in Site}

(* No two peers of an interface may share a destination.                   *)
PeersValid(h, peers) ==
  \A t \in Transport, a, b \in peers : a # b => HubAllowed(a, h, t) \cap HubAllowed(b, h, t) = {}

HubKeysKnown == \A h \in HubSite : keys[h] # 0

PathsInit ==
  /\ keys = NoNumbers /\ registering = [n \in Node |-> NotRegistering]
  /\ newest = [h \in HubSite |-> "none"]
  /\ published = [h \in HubSite |-> NoNumbers] /\ applied = published
  /\ told = [s \in {} |-> {}] /\ slotHubs = told
  /\ disturbed = 0 /\ requested = 0

Disturb == disturbed < Disturbances /\ disturbed' = disturbed + 1

(* A first key, the ACTIVE one again, or a second that retires the first.  *)
BeginRegistration(n) ==
  /\ ~Registering(n)
  /\ requested < Requested /\ requested' = requested + 1
  /\ \/ keys[n] < (IF n \in Rotating THEN 2 ELSE 1)
        /\ keys' = [keys EXCEPT ![n] = @ + 1]
     \/ keys[n] # 0 /\ UNCHANGED keys
  /\ registering' = [registering EXCEPT ![n].at = "stored"]
  /\ IF \E m \in Node : Registering(m) THEN Disturb ELSE UNCHANGED disturbed
  /\ UNCHANGED <<newest, published, applied, told, slotHubs>>

(* Without both hub keys there is nothing to publish.                      *)
ReadAllKeys(n) ==
  /\ registering[n].at = "stored"
  /\ registering' = [registering EXCEPT ![n] =
                       IF HubKeysKnown THEN [at |-> "publishing", left |-> HubSite, read |-> keys]
                                       ELSE NotRegistering]
  /\ UNCHANGED <<keys, newest, published, applied, told, slotHubs, disturbed, requested>>

PublishHubState(n, h) ==
  LET r == registering[n]
  IN  /\ r.at = "publishing" /\ h \in r.left /\ (FirstHub \in r.left => h = FirstHub)
      /\ PeersValid(h, HubPeers(r.read))
      /\ published' = [published EXCEPT ![h] = r.read]
      /\ newest' = [newest EXCEPT ![h] = "published"]
      /\ registering' = [registering EXCEPT ![n] =
                           IF r.left = {h} THEN NotRegistering ELSE [r EXCEPT !.left = @ \ {h}]]
      /\ UNCHANGED <<keys, applied, told, slotHubs, disturbed, requested>>

(* The service dies, or a put meets a version another registration took.   *)
RegistrationDies(n) ==
  /\ Registering(n)
  /\ registering' = [registering EXCEPT ![n] = NotRegistering]
  /\ Disturb
  /\ UNCHANGED <<keys, newest, published, applied, told, slotHubs, requested>>

HubApplies(h) ==
  /\ newest[h] = "published"
  /\ applied' = [applied EXCEPT ![h] = published[h]]
  /\ newest' = [newest EXCEPT ![h] = "verified"]
  /\ UNCHANGED <<keys, registering, published, told, slotHubs, disturbed, requested>>

(* Faulty: the site's preferred hub is enough.                             *)
HubsReadyOne(s) == newest[Preferred[s]] = "verified"
HubsReady(s) == \A h \in HubSite : newest[h] = "verified"

(* A spoke's state is built once; the hubs' later keys never reach it.     *)
Activate(s) ==
  /\ s \notin DOMAIN told
  /\ HubKeysKnown /\ keys[s] # 0 /\ HubsReady(s)
  /\ told' = [x \in DOMAIN told \cup {s} |->
                IF x = s THEN [h \in HubSite |-> keys[h]] ELSE told[x]]
  /\ IF Registering(s) THEN Disturb ELSE UNCHANGED disturbed
  /\ UNCHANGED <<keys, registering, newest, published, applied, slotHubs, requested>>

SpokeApplies(s) ==
  /\ s \in DOMAIN told \ DOMAIN slotHubs
  /\ slotHubs' = [x \in DOMAIN slotHubs \cup {s} |->
                 IF x = s THEN [t \in Transport |-> Preferred[s]] ELSE slotHubs[x]]
  /\ UNCHANGED <<keys, registering, newest, published, applied, told, disturbed, requested>>

(* Local failover: any slot, at any time, to the same transport of the other hub. *)
MoveSlot(s, t, h) ==
  /\ s \in DOMAIN slotHubs /\ slotHubs[s][t] # h
  /\ slotHubs' = [slotHubs EXCEPT ![s][t] = h]
  /\ UNCHANGED <<keys, registering, newest, published, applied, told, disturbed, requested>>

PathsNext ==
  \/ \E n \in Node : BeginRegistration(n) \/ ReadAllKeys(n) \/ RegistrationDies(n)
  \/ \E n \in Node, h \in HubSite : PublishHubState(n, h)
  \/ \E h \in HubSite : HubApplies(h)
  \/ \E s \in Site : Activate(s) \/ SpokeApplies(s)
  \/ \E s \in Site, t \in Transport, h \in HubSite : MoveSlot(s, t, h)

PathsSpec == PathsInit /\ [][PathsNext]_pathsVars

-----------------------------------------------------------------------------
(* The tunnel of spoke s to hub h: each end is configured with the key the *)
(* other one has now.                                                      *)
Tunnels(s, h) == applied[h][s] = keys[s] /\ told[s][h] = keys[h]

(* A packet from the LAN of a over transport t: into a's tunnel, accepted  *)
(* by the hub, sent by the hub into one tunnel, accepted at the other end. *)
Crosses(a, b, h, t) ==
  /\ LanOf(b) \in SpokeRoutes(a) \cap SpokeAllowed(a, h, t)
  /\ Tunnels(a, h) /\ LanOf(a) \in HubAllowed(a, h, t)
  /\ LanOf(b) \in HubRoutes
  /\ {p \in HubPeers(applied[h]) : LanOf(b) \in HubAllowed(p, h, t)} = {b}
  /\ Tunnels(b, h) /\ LanOf(a) \in SpokeAllowed(b, h, t)

(* Hub h has verified its newest desired state, and that has the key of s. *)
Caught(s, h) == newest[h] = "verified" /\ published[h][s] = keys[s]

(***************************************************************************)
(* Any two spokes that run their desired states reach each other over      *)
(* every transport, and the answer comes back through the same hub,        *)
(* whichever hubs their slots lead to and however many nodes registered in *)
(* between: at every moment while both have the key they were activated    *)
(* with and registrations are served one after the other and to their end, *)
(* as the enrollment script sends them; and after any overlap, death or    *)
(* rotation, from when the hub has verified a state with their new keys.   *)
(* It is claimed only through a hub that kept its first key: a hub's later *)
(* key is given to no spoke again (policy_service_v5.py:33-57, 61-104).    *)
(***************************************************************************)
BranchesReachEachOther ==
  \A a, b \in DOMAIN slotHubs, t \in Transport :
    LET h == slotHubs[a][t]
        steady == disturbed = 0 /\ keys[a] = 1 /\ keys[b] = 1
    IN  a # b /\ keys[h] = 1 /\ (steady \/ (Caught(a, h) /\ Caught(b, h)))
          => Crosses(a, b, h, t) /\ Crosses(b, a, h, t)
=============================================================================
