---------------------------- MODULE PolicyControl ---------------------------
(***************************************************************************)
(* Enrollment of hubs and spokes: the policy service                       *)
(* (src/sdwan_v5/policy_service_v5.py over persistence/policy_store.py,    *)
(* served by the threads of policy_http.py) and the reconcile processes of *)
(* the edges (src/sdwan_v5/edge_bootstrap.py, edge_agent_v5.py).           *)
(*                                                                         *)
(* A request runs several transactions of the store and reads in between,  *)
(* each a step here.  So it is assumed that no two transactions meet: the  *)
(* threads share one connection without a lock (persistence/base.py:39,    *)
(* 49-58), and a BEGIN within another thread's transaction fails and rolls *)
(* that one back.  What becomes of activations then, SpokeActivation shows *)
(* statement by statement.  A desired state is reduced to the key numbers  *)
(* it was built from: 0 for a site without key.  The last key registered   *)
(* for a site is its highest number.  Staging of the inventory, audit rows *)
(* and the ownership record's fields beyond its epoch are left out.        *)
(***************************************************************************)
EXTENDS Integers, Sequences, FiniteSets

CONSTANTS
  Hub1, Hub2,        \* the hubs, in the order they are published to
  Spoke,
  Workers,           \* reconcile processes an edge may have at a time
  Troubled,          \* bound: edges that may have more than one and lose one
  Racing,            \* whether these overlap between loading last-confirmed.json
                     \* and writing it
  Caller,            \* activations of a spoke that may run at a time
  Parallel,          \* requests and reconciles that may run side by side
  Failures,          \* bound: processes that die, acknowledgements lost, and
                     \* reconciles begun beside another of the edge
  MaxRegistrations   \* bound: registrations in one behaviour

Hub == {Hub1, Hub2}
Site == Hub \cup Spoke
Worker == 1..Workers

ASSUME PolicyAssumption ==
  /\ Hub1 # Hub2
  /\ Hub \cap Spoke = {}
  /\ Workers \in Nat \ {0} /\ Troubled \subseteq Site /\ Racing \in BOOLEAN
  /\ Parallel \in Nat \ {0} /\ Failures \in Nat
  /\ MaxRegistrations \in Nat

VARIABLES
  keys,           \* keys[x]: number of the ACTIVE key of site x, or 0
  desired,        \* desired[x]: contents of desired-state versions 1, 2, ...
  verified,       \* verified[x]: versions whose acknowledgement says VERIFIED
  reserved,       \* spokes that hold address and port leases
  epoch,          \* epoch[s]: owner_epoch of the LAN prefix of s, or 0
  register,       \* register[x]: thread of register_edge_identity for x
  activate,       \* activate[s][c]: thread of activate_spoke for s on behalf of c
  worker,         \* worker[x][w]: reconcile process w of site x
  confirmed,      \* confirmed[x]: desired_state_version in last-confirmed.json
  installed,      \* installed[x]: contents the kernel of x is configured with
  registrations,  \* bound: number of registrations so far
  failures        \* bound: number of failures so far

store == <<keys, desired, verified, reserved, epoch>>
threads == <<register, activate>>
edges == <<worker, confirmed, installed>>
bounds == <<registrations, failures>>
vars == <<store, threads, edges, bounds>>

\* A second key retires the first; a third would retire the second and meets
\* UNIQUE(site, interface_name, status) (001_initial.sql:67).
LastKey == 2
Keys == [Site -> 0..LastKey]
NoKeys == [x \in Site |-> 0]

Idle == [step |-> "idle", hub |-> Hub1, seen |-> NoKeys, version |-> 0]
Request == [step : {"idle", "stored", "version", "put"}, hub : Hub, seen : Keys, version : Nat]
Activation ==
  [step : {"idle", "hub1", "hub2", "existing", "reserve", "owner", "transfer", "version", "publish"},
   seen : Keys, epoch : Nat, version : Nat]
NotActivating == [step |-> "idle", seen |-> NoKeys, epoch |-> 0, version |-> 0]
Resting == [step |-> "idle", version |-> 0, local |-> 0, status |-> "VERIFIED"]
Reconcile == [step : {"idle", "fetched", "loaded", "applied", "ack"}, version : Nat,
              local : Nat, status : {"VERIFIED", "STALE"}]

TypeOK ==
  /\ keys \in Keys
  /\ \A x \in Site : desired[x] \in Seq(Keys) /\ verified[x] \subseteq 1..Len(desired[x])
  /\ reserved \subseteq Spoke
  /\ epoch \in [Spoke -> Nat]
  /\ register \in [Site -> Request]
  /\ activate \in [Spoke -> [Caller -> Activation]]
  /\ worker \in [Site -> [Worker -> Reconcile]]
  /\ confirmed \in [Site -> Nat]
  /\ installed \in [Site -> Keys]
  /\ registrations \in 0..MaxRegistrations
  /\ failures \in 0..Failures

Init ==
  /\ keys = NoKeys
  /\ desired = [x \in Site |-> <<>>]
  /\ verified = [x \in Site |-> {}]
  /\ reserved = {}
  /\ epoch = [s \in Spoke |-> 0]
  /\ register = [x \in Site |-> Idle]
  /\ activate = [s \in Spoke |-> [c \in Caller |-> NotActivating]]
  /\ worker = [x \in Site |-> [w \in Worker |-> Resting]]
  /\ confirmed = [x \in Site |-> 0]
  /\ installed = [x \in Site |-> NoKeys]
  /\ registrations = 0
  /\ failures = 0

Latest(x) == Len(desired[x])

Busy ==
  {<<x>> : x \in {y \in Site : register[y].step # "idle"}}
    \cup {p \in Spoke \X Caller : activate[p[1]][p[2]].step # "idle"}
    \cup {p \in Site \X Worker : worker[p[1]][p[2]].step # "idle"}

MayStart == Cardinality(Busy) < Parallel

-----------------------------------------------------------------------------
(***************************************************************************)
(* register_edge_identity: store the key, then publish to both hubs.       *)
(***************************************************************************)
CountRegistration ==
  /\ registrations < MaxRegistrations
  /\ registrations' = registrations + 1

\* register_wireguard_public_key of a key not seen before, or of the ACTIVE one.
StoreKey(x, new) ==
  /\ MayStart
  /\ register[x].step = "idle"
  /\ CountRegistration
  /\ IF new THEN keys[x] < LastKey ELSE keys[x] # 0
  /\ keys' = IF new THEN [keys EXCEPT ![x] = @ + 1] ELSE keys
  /\ register' = [register EXCEPT ![x].step = "stored"]
  /\ UNCHANGED <<desired, verified, reserved, epoch, activate, edges, failures>>

\* The IntegrityError of a third key ends the request.
RefuseKey(x) ==
  /\ MayStart
  /\ register[x].step = "idle"
  /\ keys[x] = LastKey
  /\ CountRegistration
  /\ UNCHANGED <<store, threads, edges, failures>>

\* Without both hub keys there is nothing to publish and the request ends.
ReadKeys(x) ==
  /\ register[x].step = "stored"
  /\ register' = [register EXCEPT ![x] =
                    IF \A h \in Hub : keys[h] # 0
                    THEN [step |-> "version", hub |-> Hub1, seen |-> keys, version |-> 0]
                    ELSE Idle]
  /\ UNCHANGED <<store, activate, edges, bounds>>

ReadVersion(x) ==
  /\ register[x].step = "version"
  /\ register' = [register EXCEPT ![x].step = "put",
                                  ![x].version = Latest(register[x].hub) + 1]
  /\ UNCHANGED <<store, activate, edges, bounds>>

AfterPut(r) ==
  IF r.hub = Hub1 THEN [r EXCEPT !.step = "version", !.hub = Hub2, !.version = 0] ELSE Idle

\* put_desired_state of the next version, or again of the latest.
PutHubState(x) ==
  LET r == register[x]
  IN  /\ r.step = "put"
      /\ \/ r.version = Latest(r.hub) + 1
            /\ desired' = [desired EXCEPT ![r.hub] = Append(@, r.seen)]
         \/ r.version = Latest(r.hub)
            /\ desired[r.hub][r.version] = r.seen
            /\ UNCHANGED desired
      /\ register' = [register EXCEPT ![x] = AfterPut(r)]
      /\ UNCHANGED <<keys, verified, reserved, epoch, activate, edges, bounds>>

\* VersionConflict: another registration has published in between.
PutConflict(x) ==
  LET r == register[x]
  IN  /\ r.step = "put"
      /\ r.version <= Latest(r.hub)
      /\ r.version = Latest(r.hub) => desired[r.hub][r.version] # r.seen
      /\ register' = [register EXCEPT ![x] = Idle]
      /\ UNCHANGED <<store, activate, edges, bounds>>

-----------------------------------------------------------------------------
(***************************************************************************)
(* activate_spoke.  Each answer other than EDGE_CONFIGURING ends it.       *)
(***************************************************************************)
Activating(s, c, step, next) ==
  /\ activate[s][c].step = step
  /\ activate' = [activate EXCEPT ![s][c] = IF next = "idle" THEN NotActivating
                                            ELSE [@ EXCEPT !.step = next]]
  /\ UNCHANGED <<register, edges, bounds>>

BeginActivation(s, c) ==
  /\ MayStart
  /\ activate[s][c].step = "idle"
  /\ \A x \in Hub \cup {s} : keys[x] # 0
  /\ activate' = [activate EXCEPT ![s][c] = [NotActivating EXCEPT !.step = "hub1", !.seen = keys]]
  /\ UNCHANGED <<store, register, edges, bounds>>

\* Faulty variants: any version will do; every version must be acknowledged.
IsVerifiedOnce(h) == verified[h] # {}
IsVerifiedThroughout(h) == desired[h] # <<>> /\ verified[h] = 1..Latest(h)

\* latest_desired_state_is_verified
IsVerified(h) == desired[h] # <<>> /\ Latest(h) \in verified[h]

CheckHubs(s, c) ==
  /\ \/ Activating(s, c, "hub1", IF IsVerified(Hub1) THEN "hub2" ELSE "idle")
     \/ Activating(s, c, "hub2", IF IsVerified(Hub2) THEN "existing" ELSE "idle")
  /\ UNCHANGED store

CheckExisting(s, c) ==
  /\ Activating(s, c, "existing", IF desired[s] = <<>> THEN "reserve" ELSE "idle")
  /\ UNCHANGED store

\* reserve_resources: the leases' primary keys refuse a second reservation.
ReserveResources(s, c) ==
  /\ Activating(s, c, "reserve", IF s \in reserved THEN "idle" ELSE "owner")
  /\ reserved' = reserved \cup {s}
  /\ UNCHANGED <<keys, desired, verified, epoch>>

ReadOwner(s, c) ==
  /\ activate[s][c].step = "owner"
  /\ activate' = [activate EXCEPT ![s][c].step = "transfer", ![s][c].epoch = epoch[s] + 1]
  /\ UNCHANGED <<store, register, edges, bounds>>

\* transfer_ownership: an older epoch is refused, the present one changes nothing.
TransferOwnership(s, c) ==
  LET wanted == activate[s][c].epoch
  IN  /\ Activating(s, c, "transfer", IF wanted < epoch[s] THEN "idle" ELSE "version")
      /\ epoch' = [epoch EXCEPT ![s] = IF wanted > @ THEN wanted ELSE @]
      /\ UNCHANGED <<keys, desired, verified, reserved>>

ReadSpokeVersion(s, c) ==
  /\ activate[s][c].step = "version"
  /\ activate' = [activate EXCEPT ![s][c].step = "publish", ![s][c].version = Latest(s) + 1]
  /\ UNCHANGED <<store, register, edges, bounds>>

\* put_desired_state: a version that is there is not replaced.
PublishSpoke(s, c) ==
  /\ Activating(s, c, "publish", "idle")
  /\ desired' = IF activate[s][c].version = Latest(s) + 1
                THEN [desired EXCEPT ![s] = Append(@, activate[s][c].seen)] ELSE desired
  /\ UNCHANGED <<keys, verified, reserved, epoch>>

-----------------------------------------------------------------------------
(***************************************************************************)
(* edge_bootstrap.reconcile: GET the latest desired state, load            *)
(* last-confirmed.json, apply, persist, acknowledge.                       *)
(***************************************************************************)
Working(x, w, step, next) ==
  /\ worker[x][w].step = step
  /\ worker' = [worker EXCEPT ![x][w] = next]
  /\ UNCHANGED <<threads, registrations>>

Disturb ==
  /\ failures < Failures
  /\ failures' = failures + 1

Fetch(x, w) ==
  /\ MayStart
  /\ IF w > 1 THEN x \in Troubled /\ Disturb ELSE UNCHANGED failures
  /\ \A v \in 1..(w - 1) : worker[x][v].step # "idle"
  /\ desired[x] # <<>>
  /\ Working(x, w, "idle", [Resting EXCEPT !.step = "fetched", !.version = Latest(x)])
  /\ UNCHANGED <<store, confirmed, installed>>

LoadLocal(x, w) ==
  /\ Racing \/ \A v \in Worker : worker[x][v].step \notin {"loaded", "applied"}
  /\ Working(x, w, "fetched", [worker[x][w] EXCEPT !.step = "loaded", !.local = confirmed[x]])
  /\ UNCHANGED <<store, confirmed, installed, failures>>

\* Faulty variant: an older desired state is applied as well.
ApplyAnyDesired(x, w) ==
  LET p == worker[x][w]
  IN  /\ Working(x, w, "loaded", [p EXCEPT !.step = "applied"])
      /\ installed' = [installed EXCEPT ![x] = desired[x][p.version]]
      /\ UNCHANGED <<store, confirmed, failures>>

ApplyDesired(x, w) ==
  LET p == worker[x][w]
  IN  /\ p.version >= p.local
      /\ Working(x, w, "loaded", [p EXCEPT !.step = "applied"])
      /\ installed' = [installed EXCEPT ![x] = desired[x][p.version]]
      /\ UNCHANGED <<store, confirmed, failures>>

RejectOlder(x, w) ==
  LET p == worker[x][w]
  IN  /\ p.version < p.local
      /\ Working(x, w, "loaded", [p EXCEPT !.step = "ack", !.status = "STALE"])
      /\ UNCHANGED <<store, confirmed, installed, failures>>

\* A state that matches the confirmed one is applied again but not persisted.
PersistConfirmed(x, w) ==
  LET p == worker[x][w]
  IN  /\ Working(x, w, "applied", [p EXCEPT !.step = "ack"])
      /\ confirmed' = IF p.version = p.local THEN confirmed
                      ELSE [confirmed EXCEPT ![x] = p.version]
      /\ UNCHANGED <<store, installed, failures>>

Acknowledge(x, w) ==
  LET p == worker[x][w]
  IN  /\ Working(x, w, "ack", Resting)
      /\ verified' = [verified EXCEPT ![x] =
                        IF p.status = "VERIFIED" THEN @ \cup {p.version} ELSE @ \ {p.version}]
      /\ UNCHANGED <<keys, desired, reserved, epoch, confirmed, installed, failures>>

Fail ==
  /\ Disturb
  /\ UNCHANGED registrations

\* The process dies, or its acknowledgement never arrives.
WorkerDies(x, w) ==
  /\ Fail
  /\ x \in Troubled
  /\ worker[x][w].step # "idle"
  /\ worker' = [worker EXCEPT ![x][w] = Resting]
  /\ UNCHANGED <<store, threads, confirmed, installed>>

\* Every request that is served ends; with none the service only restarts.
PolicyCrash ==
  /\ Fail
  /\ register' = [x \in Site |-> Idle]
  /\ activate' = [s \in Spoke |-> [c \in Caller |-> NotActivating]]
  /\ threads' # threads
  /\ UNCHANGED <<store, edges>>

RegisterStep(x) ==
  \/ \E new \in BOOLEAN : StoreKey(x, new)
  \/ RefuseKey(x)
  \/ ReadKeys(x)
  \/ ReadVersion(x)
  \/ PutHubState(x)
  \/ PutConflict(x)

ActivateStep(s, c) ==
  \/ BeginActivation(s, c)
  \/ CheckHubs(s, c)
  \/ CheckExisting(s, c)
  \/ ReserveResources(s, c)
  \/ ReadOwner(s, c)
  \/ TransferOwnership(s, c)
  \/ ReadSpokeVersion(s, c)
  \/ PublishSpoke(s, c)

ReconcileStep(x, w) ==
  \/ Fetch(x, w)
  \/ LoadLocal(x, w)
  \/ ApplyDesired(x, w)
  \/ RejectOlder(x, w)
  \/ PersistConfirmed(x, w)
  \/ Acknowledge(x, w)
  \/ WorkerDies(x, w)

Next ==
  \/ \E x \in Site : RegisterStep(x) \/ \E w \in Worker : ReconcileStep(x, w)
  \/ \E s \in Spoke, c \in Caller : ActivateStep(s, c)
  \/ PolicyCrash

Spec == Init /\ [][Next]_vars

(***************************************************************************)
(* An operator reruns the enrollment script until it succeeds: every step  *)
(* of a request or reconcile that has begun is taken, and every site's     *)
(* reconcile and every spoke's activation is begun again and again.        *)
(***************************************************************************)
Fairness ==
  /\ \A x \in Site :
       /\ WF_vars(ReadKeys(x) \/ ReadVersion(x) \/ PutHubState(x) \/ PutConflict(x))
       /\ \A w \in Worker :
            /\ SF_vars(Fetch(x, w))
            /\ WF_vars(\/ LoadLocal(x, w) \/ ApplyDesired(x, w) \/ RejectOlder(x, w)
                       \/ PersistConfirmed(x, w))
            /\ SF_vars(Acknowledge(x, w))
  /\ \A s \in Spoke, c \in Caller :
       /\ SF_vars(BeginActivation(s, c))
       /\ WF_vars(\/ CheckHubs(s, c) \/ CheckExisting(s, c) \/ ReserveResources(s, c)
                  \/ ReadOwner(s, c) \/ TransferOwnership(s, c) \/ ReadSpokeVersion(s, c)
                  \/ PublishSpoke(s, c))
FairSpec == Spec /\ Fairness

-----------------------------------------------------------------------------
HubFirstPromise == INSTANCE HubFirst WITH
  registered <- [s \in Spoke |-> keys[s]],
  ready <- [h \in Hub |-> [s \in Spoke |-> installed[h][s]]],
  published <- {s \in Spoke : desired[s] # <<>>}

(***************************************************************************)
(* The whole implements HubFirst: a spoke's configuration is published     *)
(* only when both hubs have installed the key it registered last, and no   *)
(* hub ever goes back to an older one.  It holds while requests come one   *)
(* at a time and nothing dies (policy_service_v5.py:33-34, 67).            *)
(***************************************************************************)
ImplementsHubFirst == HubFirstPromise!Spec

(***************************************************************************)
(* A VERIFIED acknowledgement tells the truth: the edge runs the contents  *)
(* of that version or of a later one, also when processes die between the  *)
(* apply, the persist and the acknowledgement, and when two reconciles     *)
(* fetched different versions and finish in the other order                *)
(* (edge_bootstrap.py:120-141, edge_agent_v5.py:418-441).  It is false when*)
(* two of them may overlap between loading last-confirmed.json and writing *)
(* it (Racing).                                                            *)
(***************************************************************************)
VerifiedMeansApplied ==
  \A x \in Site : \A v \in verified[x] :
    \E later \in v..Latest(x) : installed[x] = desired[x][later]

(***************************************************************************)
(* A registered spoke is activated in the end: once both hubs have         *)
(* registered too, rerunning the enrollment publishes its configuration    *)
(* and gets it verified.                                                   *)
(***************************************************************************)
SpokesActivated ==
  \A s \in Spoke :
    (\A x \in Hub \cup {s} : keys[x] # 0) ~> (desired[s] # <<>> /\ 1 \in verified[s])
=============================================================================
