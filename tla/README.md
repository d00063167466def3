# SD-WAN lab: verification project

TLA+ models of the SD-WAN control plane in `src/sdwan_v5` and of its frozen
baseline `src/sdwan_v4`, the TLC runs that check them on small instances, and
TLAPS proofs of their main safety properties for every value of the constants.

## 1. The system

Sites of spokes reach two hubs over several transports (MPLS, broadband, LTE).
Each spoke keeps one *slot* per transport: a kernel route table whose corporate
prefixes go to one WireGuard tunnel interface. Central services register
devices and publish *desired states*; edges apply them, acknowledge them, and
move slots by themselves when tunnels die. A classifier on the edge inspects
packets and marks the flow; a mark selects a slot.

### Version 5

| component | state it keeps | operations | correctness |
|---|---|---|---|
| tunnel health machine, `tunnel_health.py` | per tunnel: verdict, failure and success counters, last sequence, since when failed | `observe` | counts each probe once and in order; FAILED exactly on enough failures; nothing comes back without the evidence |
| hub and target resolution, `hub_health.py`, `route_resolver.py` | none | `aggregate_hub`, `resolve` | an emergency moves onto a healthy tunnel, displacing as little as possible |
| local failover manager, `local_failover.py` | per slot: current, confirmed and previous target, state; seen events; route version | `emergency_remap`, `begin_recovery`, `complete_recovery` | a slot's state is explained by the events it saw |
| edge failover runtime, `edge_failover_runtime.py` | the two above, `recovery_started`, deadlines; kernel tables and conntrack | `run_once`, `repoint` | the kernel follows the manager; every recovery is drained; every emergency ends |
| edge agent, `edge_agent_v5.py`, `edge_bootstrap.py` | `desired-state.json`, `last-confirmed.json`; iptables chains, ip rules, routes, marks | fetch, reconcile, apply, persist, acknowledge; install the dataplane | VERIFIED is only said of what is applied; a connection stays on its tunnel while chains are rebuilt; a mark stands for a policy and has its route |
| desired state builder, `desired_state_v5.py` | none | builds the states of spokes and hubs | what each router is told separately makes a path from branch to branch |
| policy service, `policy_service_v5.py`, `persistence/policy_store.py` | keys, desired states, acknowledgements, leases, ownership epochs | register, publish hub, activate spoke, acknowledge | hub-first: a spoke is told of a hub only when the hub has verified a state that knows the spoke |
| route ownership, `route_ownership.py` | one row per prefix: owner, epoch | `transfer` | one owner per epoch |
| destination policies, `common/destination_models.py` | the document a service runs with | validate, intents of a snapshot | no direct egress for what is not trusted |
| ZTP service, `ztp_service_v5.py`, `persistence/ztp_store.py`, `persistence/base.py` | devices, claims, certificates; one SQLite connection | stage, create and cancel claim, enroll, revoke | an enrollment is all or nothing; a claim pays for one certificate |
| ZTP client, `ztp_client.py`, `scripts/live_enroll.py` | files on the edge | the order of requests and their reruns | a rerun finishes what an earlier run began |
| classifier, `classifier/*.c` | flow table, event ring, overload circuit, three threads | packet callback, expiry, exporter, start and stop | an inspection stays within its budget of new data; every event is sent or counted as dropped; a stop always ends the process |
| configuration, `common/model.py` | the plan of networks, identifiers, addresses and ports in `topology.yaml` | load, validate, derive an address or port | in an accepted plan an address names one interface |
| management service, `management/*.py` | chat sessions and messages; one task per message; evidence bundles | ask, answer, delete a session, judge an answer | answers stand behind their messages; an answer shows what tools had stored |
| MCP server, `sdwan_mcp/server.py` | none of its own | a tool call that stores its result in the bundle | as the bundle |
| event collector, metrics, views | read-only | queries | - |
| topology, controller, workloads, scripts | emulated network | start-up; return affinity of the cloud gateway | as the edge agent's chains |

### Version 4

| component | state it keeps | operations | correctness |
|---|---|---|---|
| controller, `policy_service_v4.py`, `desired_state_v4.py` | keys, assignments, versions, decisions, overrides, epoch buffer | register, failover, ingest a metric, set and release an override | a failover is all or nothing; a decision is the override's or the latest epoch's |
| path selection, `path_selection_v4.py` | per class: path, bad epochs, times | `ingest_epoch` | a path is left on evidence and not too soon; one round per decision |
| edge agent, `edge_agent_v4.py`, `local_failover.py` | slots, deadlines, emergency set, route version; kernel tables and chains; policy snapshot; the classifier process | reconcile, remap, restore, apply a decision, send the snapshot, restart the classifier | kernel, actuator and manager agree; blackouts are answered and end |
| classifier, `classifier/*.c` | flows, active policy | verdicts with a path, acceptance of snapshots | never goes back to an older decision |

They interact through HTTPS requests that may be lost or answered late (edge to
policy, ZTP service and controller, controller to edges), through files on the
edge (agent, bootstrap, monitor), through the kernel (monitor and agent write
the same route tables; the classifier marks the flows that select a table) and,
inside a service, through one SQLite database used by several threads.

Hard behaviours: probe results that are late or repeated; a process that dies
between two `ip route replace` or between two database transactions; a monitor
that restarts with an empty memory over kernel tables an earlier one changed; a
reconcile that runs beside a monitor or beside another reconcile; chains that
are rebuilt under traffic; commands that fail halfway and whose rollback fails
too; requests that overlap in the service; threads that share a database
connection; answers that are lost after their effect was committed; decisions
that overtake each other. PROJECT.json lists each at its line under "hazards".

## 2. Modules

### The version 5 edge

| module | models |
|---|---|
| `TunnelHealth` | `TunnelHealthStateMachine.observe` after its rejection tests, as two operators on a verdict record: `AfterUsable`, `AfterUnusable` |
| `TunnelMonitor` | one machine under a network that delays, repeats and reorders samples: sequence and staleness tests included |
| `RouteResolver` | `aggregate_hub` and `resolve()` as the runtime calls them: `Candidates`, `Resolve` |
| `RouteSlot` | one slot record and the three methods of the manager as operators: `Remapped`, `RecoveryBegun`, `Restored`, and `Confirmed` |
| `LocalFailover` | the whole manager: event table, route versions, and callers that read, decide and call |
| `AddressPlan` | the derived addresses and ports of all interfaces, the checks a plan must pass, and an operator who edits it |
| `EdgeFailover` | the monitor process: a round of probes, one step per slot, one step per route replacement; crashes and restarts; conntrack entries |
| `EdgeFailoverProofs` | the theorems about `EdgeFailover` |
| `PacketMarks` | the mangle chains and ip rules of a spoke, a hub, the cloud gateway and a version 4 spoke, rebuilt one command at a time while the packets of one connection pass; in version 4 also the tables of slots and tunnels, wiped and refilled by a reconcile and rewritten by a remap |
| `DestinationPolicy` | which policies the service starts with, and the routes and marks an edge installs for one destination in a reconcile that may end in between |
| `DesiredPaths` | AllowedIPs and routes of spokes and hubs together: registrations step by step (key stored, keys read, one hub published, then the other), which overlap, die and rotate keys; hubs that apply, activations, and slots that move |

`EdgeFailover` composes `RouteResolver` (which extends `TunnelHealth`) with
`RouteSlot`; its variables are the fields of `LocalFailoverRuntime` (`health`,
`slots`, `recoveryStarted`), the control point inside `run_once` (`pending`,
`repoint`), the kernel (`routes`, `flows`) and one history variable
(`sinceRemap`). `Remap`, `NoReplacement`, `BeginRecovery`, `AwaitDrain` and the
other turn actions are the branches of the loop body in `run_once`
(lines 156-204), in the order of its `continue` statements. `ReplaceRoute` is one
`ip route replace`. `Tick` is a second of the clock; `Crash` and `Start` the
process.

`PacketMarks` interprets the rules instead of restating their effect: a chain is
a sequence of rules with a match and a target, `placed` says how many of them are
in place, `Issue` executes the next command of the installation and
`CommandFails` drops the rest. A packet runs through the chains of its hooks,
then through the ip rules (`Selected`, `Device`). The kernel (conntrack, the order
of the hooks, NFQUEUE leaving the table) is external and modelled from how the
code uses it. One connection is enough because the entries of different ones
never meet. `After` is a RECURSIVE operator, so no theorem is stated there.
`RemapSlot` is version 4's `remap_slot`, which rewrites the very tables that the
marks of its connections select, and `Reconcile` the loop of `_apply`
(`edge_agent_v4.py:265-268`); `Steer` is version 5's `FailoverRouteActuator.repoint`,
whose slot tables these marks do not select. A version 4 mark pins a slot and not a
tunnel, and `ReturnsWhereItCame` promises a version 4 connection just that: in an
emergency of its slot the answers leave by the tunnel the slot was remapped to.

`DesiredPaths` counts what disturbs the order that `live_enroll.py` keeps:
registrations that overlap, that die between their transactions, and spokes
activated during their own. `BranchesReachEachOther` is claimed at every moment
while there was none and the two spokes keep their keys, and otherwise from when
the hub has verified a state with their present keys; in both cases only through a
hub that kept its first key, because nothing tells a spoke of a later one.

### The version 5 services

| module | models |
|---|---|
| `HubFirst` | abstract: sites, keys, hubs that know them; a spoke is activated only when hubs know it and each other |
| `PolicyControl` | the policy service, its store and the edges: requests as processes with a program counter, one step per transaction; process death; reconcile processes with their own memory |
| `SpokeActivation` | `activate_spoke` past its checks, BEGIN, write, COMMIT and ROLLBACK one by one on the connection that all threads share; other transactions as `StartReport`; deaths of the service |
| `RouteOwnership` | the owner row of one prefix and coordinators that read, probe and commit |
| `AtomicEnrollment` | abstract: an enrollment, a revocation or a claim happens in one step or not at all |
| `ZtpEnrollment` | the ZTP service at the level of SQL statements over one shared connection, with thread interleaving, failing statements, crashes and lost answers |

`PolicyControl` treats each transaction of the store, and each read between two, as
one step. That is right only as long as no two transactions meet: the threads of
the service share one connection without a lock (`persistence/base.py:39, 49-58`),
so the BEGIN of a second thread within a transaction fails and its ROLLBACK ends
that transaction, and a COMMIT commits whatever is open. What `PolicyControl` shows is
shown under that hypothesis. `SpokeActivation` drops it for the activation of spokes,
where leases, ownership epoch and desired state are three transactions with reads in
between: `collided` becomes true when a BEGIN finds another thread's transaction open,
and `SpokePublishedOnce` is claimed until then. After it, it is false (A's leases are
rolled back by B, C takes them again, and both publish), as a run without the premise
shows at once. `ZtpEnrollment` models the same `persistence/base.py` statement by
statement for the ZTP service. "cancel" in `ZtpEnrollment` is an in-process
administrator call: the store offers `cancel_claim` but no HTTP route leads to
it.

### The classifier

| module | models |
|---|---|
| `Classifier` | `main.c`, `nfqueue_worker.c`, `flow_table.c` and `event_export.c` of version 5: main, the worker and the exporter as three processes over the flow table, the event ring and the stop flags |

The worker shares only the ring (under its mutex) and the stop flag with the
other threads, so `Inspect`, the whole of `process_packet` with its push, is one
step, and so is each critical section of the exporter. Waiting on the condition
variable is a state of the exporter (`"waiting"`) that only `Woken` leaves.
`sdwan_flow_expire` fixes its time once, so `StartExpiry` settles which flows go
and `ExpireFlow` removes and reports them one by one, with the exporter running
in between. Time is kept as ages in seconds. nDPI is external: at every packet it
may give any answer, also one that contradicts an earlier one; at an expiry any UDP
flows may be those it took for DNS, which have an idle timeout of their own
(`flow_table.c:69-73`). The edge starts the classifier with one queue
(`edge_agent_v5.py:94-95`), hence one worker. Version 4's `main.c` and `event_export.c` are the same files; its worker differs
in the path it chooses (`PacketMarks.FlowPath`) and in its policy store
(`PolicyDistribution`).

### The management service

| module | models |
|---|---|
| `ChatSessions` | sessions and their rows, the task of each message and the table of latest tasks, on the event loop and in the threads that create and delete sessions; restarts |
| `EvidenceBundle` | one message: up to two attempts of the agent, the MCP server of each, which appends results by reading and rewriting the bundle, the judgement of the final text and the stored verdict |

SQLite gives a row the identifier above the largest one in the table, so
identifiers of deleted sessions come back; `NextSession` and `NextRow` model that.
The request for a message runs on the event loop without waiting between its
checks and its task, a request that deletes a session in another thread: `Admit`
and `Ask` are two steps for that reason.

### Version 4

| module | models |
|---|---|
| `EdgeAgentV4` | the monitor's round (`_emergency_check`), the manager's slots and `NetworkActuator.remap_slot` and `reconcile` over the kernel's tables and emergency marks; commands that fail, whose rollback fails, or that hang |
| `ClassifierSupervisor` | `_start_classifier`, `_classifier_health`, `_maybe_restart_classifier`: doubling delays and a circuit |
| `PolicyDistribution` | decisions and overrides of the controller, posts under way, the edge's two sending threads at the grain of their reads and writes of the snapshot (`TestExpiry`, `ReplaceExpired`, `CopySnapshot`, `LabelExpired`, `ReadSnapshot`, `SendSnapshot`), the classifier's acceptance, expiry of all of them, the bootstrap ranking included |
| `PathSelection` | metric epochs of an edge that restarts, loses posts and is probed in between; the buffer; the decision with hysteresis |
| `HubFailoverV4` | registration and hub failover: the posts to one router after another, verification, rollback, commit; routers that refuse, miss, apply and are not heard, apply half of a state, or restart |

In `HubFailoverV4` a router that cannot apply a state goes back to the one it had
only if its agent has had one since it started and re-applying that succeeds
(`edge_agent_v4.py:228-231`). `HalfApplied` is the other case: any part of both
states stays. `astray` names the routers whose last post left the controller in
doubt (half applied, answer lost, rollback refused); they may disagree for as long
as they answer no further post, and `RoutersAgree` speaks of the others.

### Compositions for checking

Several parts share no state and would each be a run of their own. `Parts` and
`MoreParts` put them side by side with a variable `part` that Init chooses: a
behaviour is a behaviour of that one part, the others stay where they start, so
the state space is the sum of theirs and not the product. The properties are the
parts' own, the very definitions the theorems of section 4 are about: `Parts`
extends its parts, whose names (`MonitorSpec`, `ManagerSpec`, `HubsSpec` and so on)
meet no others. `MoreParts` extends `EdgeAgentV4` and
`AddressPlan`, whose plan is a blank one beside the other parts, and
instantiates the other two; the fairness of each part is conditioned on its turn, action by action, and a
liveness property has `part = ...` as its premise. The parts' assumptions on their
constants are ASSUMEd by these modules with the values used. `MC*` modules give
TLC the constants that a .cfg cannot write (records, sets of functions, symmetry).

### Proof modules

| module | theorems about |
|---|---|
| `EdgeFailoverProofs`, `PolicyControlProofs`, `ZtpEnrollmentProofs`, `ClassifierProofs` | the component each is named after |
| `FailoverProofs` | `TunnelMonitor`, `LocalFailover`, `RouteOwnership` |
| `ServiceProofs` | `EvidenceBundle`, `DesiredPaths`, `SpokeActivation`, `DestinationPolicy`, `AddressPlan`, `ChatSessions` |
| `ControllerV4Proofs` | `PolicyDistribution`, `PathSelection`, `HubFailoverV4` |
| `EdgeAgentV4Proofs` | `EdgeAgentV4` |

## 3. Runs

### Passing runs

| run | instance | shows |
|---|---|---|
| `EdgeFailoverHubs` | one slot, two hubs, two prefixes, thresholds 2/3/2, hold-down 2, drain 3, stale probes, crashes | kernel routes and drain periods stay in step with the manager; every emergency ends |
| `EdgeFailoverSlots` | two slots, three tunnels that answer, thresholds 1/2/1, hold-down 0, drain 1, one prefix, listings that fail | slots that take each other's tunnels |
| `PolicySequential` | two hubs, one spoke, one request at a time, four registrations, no failure | refinement of `HubFirst`; every registered spoke gets activated and verified |
| `PolicyConcurrent` | two activations of one spoke, two requests at a time, three registrations; one death, lost acknowledgement, or second reconcile process of a hub that does not load while the first is between load and write (`Troubled`, `Racing`) | VERIFIED means applied |
| `Classifier` | a TCP and a UDP flow, a table of one record, a ring of one event, budgets 2, sequence numbers modulo 3, timeouts 1 and 2, lifetime 2, circuit 1 | inspection, accounting, teardown, shutdown and expiry |
| `ZtpSequential` | one device, two claims, two attempts, one thread at a time, one failure | refinement of `AtomicEnrollment`; a claim pays for a certificate |
| `ZtpThreads` | one device and claim, two attempts with it, three threads, one failure | committed rows are kept even so |
| `Parts` | twelve parts, below | their safety |
| `MoreParts` | four parts, below | the address plan, and safety and liveness of the version 4 edge |

| part of `Parts` | instance | properties |
|---|---|---|
| `TunnelMonitor` | thresholds 1/2/2, hold-down 2, stale after 1, five samples | `FailedOnEvidence`, `RecoveryEarned` |
| `LocalFailover` | two slots, three targets, two event ids, drain 1 | `EventsExplainSlots` |
| `DesiredPaths` | two sites, two hubs, two transports; a spoke and a hub that may rotate their key, five registrations, one disturbance | `BranchesReachEachOther` |
| `SpokeActivation` | one spoke, two threads, one death, activations that begin from an epoch of at most 1 | `SpokePublishedOnce` |
| `RouteOwnership` | two coordinators, epochs to 4 | `OneOwnerPerEpoch` |
| `DestinationPolicy` | two transports, four kinds of destination, every policy | `MarksStandForPolicy` |
| `PacketMarks` | the four routers, two hubs, two paths, two changes | `ReturnsWhereItCame` |
| `HubFailoverV4` | two hubs, two spokes, one caller, versions to 4, two faults | `RoutersAgree`, `CommitMeansInstalled` |
| `PathSelection` | two transports, two bad epochs, hold-down 1, minimum path time 1, four rounds and epochs | `OneRoundPerDecision`, `LeftOnEvidence` |
| `PolicyDistribution` | two paths, lifetimes 1, overrides with it or without end, three versions, one post at a time | `DecisionExplained` |
| `ChatSessions` | one actor, two session identifiers, two messages | `AnswersFollowMessages` |
| `EvidenceBundle` | a tool that returns facts of two kinds, a path claim and another one | `ShownAsGathered` |

| part of `MoreParts` | instance | properties |
|---|---|---|
| `AddressPlan` | two hubs, two spokes, two transports, a gateway; two edits of a network, identifier, address or port | `AddressNamesInterface` |
| `EdgeAgentV4` | two transports, two prefixes, blackout after 2, drain 1, three disturbances | `KernelAgrees`, `RestoredOntoLive`, `EmergencyEnds`, `BlackoutAnswered` |
| `ClassifierSupervisor` | three attempts, delays to 4, circuit 6, stable after 3 | `KeepsComingBack` |
| `PolicyDistribution` | two paths, decisions live 1, bootstrap rankings 2, two versions, one post at a time; decisions for any path, so no overrides | `ClassifierFollows` |

Why the bounds are enough. The health machine compares counters with thresholds,
so 2/3/2 (and 1/2/2 for late samples) tells "one", "threshold minus one" and
"threshold" apart; five samples hold a failure, a recovery and a relapse. A
slot's decisions depend on the verdicts of its candidates; two hubs and two
transports give the four kinds of candidate `resolve` orders, and two slots are
the fewest that interact. Two prefixes are the fewest a table split needs. In the
policy service two hubs are what the code configures; one spoke, two requests and
one failure reach every pair of overlapping transactions; four registrations let
each site register and one of them rotate its key. In the ZTP service two claims
of one device are the fewest of which one can lapse while the other pays, and two
threads the fewest that share the connection, and three let the first one's
transaction be ended while the other two still write in it. In the classifier two flows and one
record make every new flow an eviction, a ring of one event is full as often as
it is empty, and three sequence numbers hold an advance, a retransmission and a
wrap. Five registrations let both hubs and both branches register and one of them rotate its key;
one disturbance is an overlap, a death or a spoke activated during its own registration. Two
threads are the fewest whose transactions meet. Two changes of a
router let one installation be aborted and another follow. Three disturbances of
a version 4 edge hold a command that fails together with its rollback and a
reconcile. Two faults of a hub failover hold a refused post and a refused or
half applied rollback. Two messages in two sessions are the fewest in which a deleted identifier is
given again; two edits are the fewest that make two values meet. Three versions
hold an old decision, the one that replaces it and a newer one; two bad epochs tell "in a row" from "in all". Symmetry is used only in
`PolicyConcurrent`, which checks safety only: on callers.

`CHECK_DEADLOCK FALSE` is set in the policy and ZTP runs, where requests,
registrations and claims are bounded and the system may come to rest; in
`Classifier`, where the process ends; and in `Parts` and `MoreParts`,
whose bounds end a behaviour.

### Fairness

- `EdgeFailoverHubs`: weak fairness of the monitor's own steps (`while True` in
  `main`, lines 218-228) and of the clock. Nothing is assumed of the network, of
  flows or of restarts: `EmergencyClears` speaks of behaviours in which the
  monitor eventually stays up and all probes succeed.
- `PolicySequential`: weak fairness of the steps of a request or reconcile that
  has begun (a thread runs) and strong fairness of fetch, acknowledge and the
  begin of an activation: an operator who reruns `live_enroll.py` until it
  succeeds, as its own messages ask. One request runs at a time, so a step that
  waits for its turn is enabled again and again and not all the time.
- `ZtpSequential`: weak fairness of the thread in a request and of storing an
  answer that arrived, strong fairness of asking for a claim and presenting it.
  Failures, lapses, cancellations and lost answers need not stop: `ClaimsPay`
  names them.
- `Classifier`: weak fairness of the three threads' own steps and of the clock,
  and of a receive that times out (`SO_RCVTIMEO` of one second): packets need not
  come. Set-up and `pthread_create` may fail.
- `MoreParts`: weak fairness of the monitor thread (`_monitor` loops until it is
  stopped) and of the clock; disturbances are bounded. `EmergencyEnds` and
  `BlackoutAnswered` speak of transports whose answers stop changing and except a
  monitor that a hung command ended. For the classifier process weak fairness of
  its supervisor and strong fairness of a start that succeeds: without the latter
  nothing could be promised. For the snapshots weak fairness of the two sending
  threads and of starting the classifier; nothing of the controller.

### Runs that expect a violation

Each confronts one sentence of the repository with the code; PROJECT.json quotes
it under "findings".

| run | disagreement |
|---|---|
| `PolicyCrashDoc` | a death between storing the key and publishing it to the hubs: the spoke is activated against hubs that do not know it |
| `ZtpThreadsDoc` | a second thread's failed BEGIN rolls the first one back halfway |
| `PacketMarksDoc` | a flow opened from the LAN is marked with its hub and looked up in that tunnel's own table, which no remap rewrites: it does not follow its slot |

### Seen while modelling, without a run

Version 5:

- `tunnel_health.py:79-92`: a RECOVERING tunnel that fails becomes SUSPECT, and
  one success makes a SUSPECT tunnel HEALTHY, so the successes and the hold-down
  that RECOVERING asks for can be passed by. `RecoveryEarned` speaks of the direct
  step only.
- `local_failover.py:75`: two emergencies in a row leave the slot with the second
  one's target to come back to, not the desired state's.
- `edge_failover_runtime.py:194`: a drain deadline survives a relapse of the
  previous target, so that a later recovery may use what is left of it.
- `edge_failover_runtime.py:145`: a conntrack listing that fails counts as a
  drained slot. `DrainHonoured` is checked and proved under
  `CountMayFail = FALSE` for that reason.
- `edge_failover_runtime.py:51`: a table is replaced one prefix at a time; a
  process that dies in between leaves it split until the next monitor moves it.
- `edge_failover_runtime.py:73`, `:218`: the route version begins at 0 again after
  a restart, and a monitor keeps the desired state it was started with.
- `edge_agent_v5.py:436`: the route version a reconcile compares comes from
  `last-confirmed.json`, which the monitor does not write; the desired slot routes
  are applied over an emergency of the running monitor, and they replace a direct
  route to the whole SaaS network until the dataplane is installed again, for
  good if that fails.
- `edge_agent_v5.py:421`: when two reconcile processes of an edge overlap between
  loading `last-confirmed.json` and writing it (`Racing = TRUE`),
  `VerifiedMeansApplied` is false.
- `edge_agent_v5.py:146-159`: the rule that saves the mark stands behind NFQUEUE,
  whose verdict leaves the table; a flow opened from the LAN is not recorded there.
- `edge_agent_v5.py:161`: connections that begin while the chains are rebuilt stay
  without a record; between `ip rule del` and `add` their packets take the main
  table.
- `common/destination_models.py`: no edge acts on the failure action
  HUB_FALLBACK; a change of the application policy does not change the snapshot's
  version; activating an older document again takes the active version back.
- `policy_service_v5.py:82`: a death after the leases were reserved leaves a spoke
  that a rerun does not reserve for again.
- `persistence/policy_store.py:59`: the third key of a site meets
  UNIQUE(site, interface_name, status); `:199`: the second of two transfers to an
  equal epoch is answered as done and leaves no pending reconciliation.
- `policy_service_v5.py:40`: with two registrations at a time, hub states built
  from older keys can be published under the newer version, and the branches they
  lack stay cut off until the next registration; `BranchesReachEachOther` claims
  their paths from then on.
- `policy_service_v5.py:69-103`: once two transactions have met on the shared
  connection, a spoke can be published twice (`SpokeActivation`).
- `policy_service_v5.py:98-102`: a spoke's state is built once, so a hub's later key
  never reaches it.
- `persistence/ztp_store.py:104`: the update of a lapsed claim to EXPIRED is rolled
  back by the exception that follows it. With several threads it may be written
  over a claim that another thread consumed after this one had read it, and be
  committed by yet another: `CommittedIsKept` lets a consumed claim that lapsed
  turn EXPIRED for that reason (an attempt to prove that it stays CONSUMED failed
  on it, and `ZtpThreads` with two attempts at one claim shows it).
- `ztp_client.py:30`: a device whose answer was lost is never given another claim
  (`ClaimsPay` names the case).
- `nfqueue_worker.c:116`: packets that pass while the circuit is open do not
  refresh `last_ms`; a busy flow can expire as idle under repeated ENOBUFS.
- `nfqueue_worker.c:146`: after a sequence number wraps, later payload does not
  count as new; the inspection of such a flow ends by its timeout.

- `common/model.py:352-490`: the checks let pass a spoke with `address_id` 1, whose
  overlay address is the hub's; overlay and inter-hub networks too small for the
  identifiers; a `saas_ip` equal to one of the two servers whose addresses are
  written in the code; a LAN gateway that is the network or broadcast address.
  `LeftUnchecked` in `AddressPlan` names the first three.
- `management/repository.py:71`: a deleted session's identifier is given to the
  next one while the task of the old one runs: its answer lands among the rows of
  the new session, which in the meantime is answered 409. A stale `stream_closed`
  event ends the new session's stream.
- `management/repository.py:46`: facts of a tool call that read the bundle before
  the verdict are appended after it, or overwritten by those of another server
  (`raced`). `docs/mcp_accuracy_architecture.md:7` speaks of an immutable evidence
  bundle; what is left of that is `VerdictStands`.
- `management/app.py:157`: a queue of 512 events that nobody reads keeps a task
  from ending, and its session from being asked again.
- `management/agent.py`: a line of output beyond the reader's limit raises an
  exception that leaves the agent's process running.

Version 4:

- `edge_agent_v4.py:217`: a reconcile during an emergency puts every slot back on
  its own transport while the manager and the emergency marks say otherwise;
  `KernelAgrees` keeps account of it (`undone`).
- `edge_agent_v4.py:306-310`: a rollback sends the routes it had moved to the
  slot's own transport whatever they were on before, which splits the table of a
  slot on a backup.
- `command_v4.py:55`: a command that hangs raises TimeoutExpired, which
  `_monitor` does not catch: the thread ends.
- `edge_agent_v4.py:586-592`: the snapshot is tested for expiry and replaced without
  the lock; a decision installed in between is overwritten, or relabelled with
  the generation of an expired one and its own version, which no later bootstrap
  ranking exceeds. A bootstrap ranking renewed after its 86400 seconds keeps its
  version and is refused as well. The classifier then leaves flows where they are;
  `sdwan_v4/ARCHITECTURE.md:78` speaks of "the latest unexpired snapshot, then an
  explicit bootstrap ranking after expiry". `Refused` in `ClassifierFollows` is this
  case.
- `edge_agent_v4.py:228-231`: a failed reconcile of an agent that restarted leaves
  what it had done so far, and so does one whose going back fails; the controller
  learns no more than that the post failed.
- `edge_agent_v4.py:731-745`: a classifier without its control socket counts as
  alive.
- `policy_service_v4.py:265-313`: with two failovers at a time
  `CommitMeansInstalled` is false, and a commit may set `reconcile_version` back;
  after a rollback the routers refuse the next states as stale until the version
  has passed the rollback's. A restarted controller begins all versions again.
- `nfqueue_worker.c:127-136`: the path chosen at a flow's first packet is kept
  under a newer decision.

## 4. Proofs

`EdgeFailoverProofs` proves, for every choice of hubs, transports, slots,
prefixes, thresholds and timeouts that the assumptions `ThresholdAssumption`,
`ResolverAssumption` and `RuntimeAssumption` allow:

- `SpecTypeOK`, `SpecDrainArmed`, `SpecRoutesFollowManager`,
  `SpecFailedOnlyWhenStranded`: invariants;
- `SpecMovesOntoHealthy`, `SpecLeastDisplacement`: what a route replacement and an
  emergency may do;
- `SpecDrainHonoured`: under `CountMayFail = FALSE`, a slot whose flows have not
  ended is restored only when a whole drain timeout has passed since its last
  remap. Without that assumption it is false.

The invariants are not inductive. `SpecInductive` proves the strengthening
`Inductive`:

- `TypeOK`;
- `VerdictCounted`: a FAILED verdict carries exactly `FailedFailures` failures and
  a HEALTHY one fewer than `SuspectFailures`, so that one observation never leads
  from FAILED to HEALTHY or back;
- `DeadlineKept`: a slot in `recovery_started` that is in emergency without a
  deadline has just been remapped: its previous target has not been HEALTHY since;
- `RepointSound`: a replacement in progress belongs to a live monitor, goes to the
  slot's current target, which is HEALTHY, and the prefixes before `next` are
  written;
- `RoutesFollowManager`: any other table is the manager's current target;
- `HandledNotFailed`: a slot already handled in this round is on a FAILED tunnel
  only if no tunnel is HEALTHY;
- `DeadlineAfterRemap`: the time since the last remap and the time left to the
  deadline make up at least a drain timeout;
- `DeadIsFresh`: a dead monitor has the state of a new one, so `Start` needs no
  argument of its own.

`InductiveStep` goes action by action (`ObserveStep`, `RemapSteps`,
`IdleTurnStep`, `BeginRecoveryStep`, `RestoreSteps`, `ReplaceRouteStep`,
`OutsideStep`), each with one step per conjunct the action can disturb. They rest
on lemmas about the operators: `AfterUsableType`, `AfterUnusableType` and
`OneObservation` (what an observation does to a verdict), `HubNeverVetoes` (the
hub aggregate never excludes a healthy tunnel), `RankInjective` and
`ResolveFirst` (resolve returns the eligible candidate of least rank). DrainArmed
and FailedOnlyWhenStranded follow from `Inductive`; the action properties follow
from it and the one or two actions that can change the variables they speak of.

In the other proof modules:

- `FailoverProofs`, on `TunnelMonitor` (`SpecFailedOnEvidence`, `SpecRecoveryEarned`), for all
  thresholds. `Accounted` says what the saturating counters stand for: the lengths
  of the runs of failed and of successful probes at the end of the accepted ones,
  cut at the thresholds; and that hold-down and quiet time add up. The history of
  accepted probes is a set ordered by sequence, so the argument is about
  cardinalities of its trailing subsets.
  On `LocalFailover` (`SpecEventsExplainSlots`): `EventsExplainSlots` becomes
  inductive with types and with `VersionsCount`, no event being newer than the
  route version.
  On `RouteOwnership` (`SpecOneOwnerPerEpoch`): with two hubs the parity of the
  epoch determines the owner (`Alternating`), in the store, in what coordinators
  hold and in what was reported, which is why equal epochs never name two owners
  although the store does not compare owners.
- `PolicyControlProofs`, for transactions that never meet: `SpecVerifiedMeansApplied` rests on `Confirming`: what an edge runs is of the
  version in `last-confirmed.json` or a later one, what it acknowledges of that
  version or an earlier one. It assumes `~Racing`, that no two reconcile processes
  of an edge overlap between loading and writing that file; without it the
  property is false. `SpecImplementsHubFirst`, the refinement, assumes `OneAtATime`: one
  request or reconcile runs at a time and none dies (`PolicyCrashDoc` shows that one
  death is enough to break it). Then `OneRunning` makes every thread a transaction,
  and step by step `Distributed` (between registrations the latest state of both hubs
  holds exactly the registered keys), `Ascending` and `Installed` (a hub runs some
  published state, and what it fetched is the latest and no older) and `Prepared`
  (an activation past a hub's check has found the registered keys running there)
  carry the promise: applying a state at a hub is HubFirst's `Prepare`, publishing
  to a spoke its `Publish`, storing a new key of a spoke its `Register`, and
  everything else a stutter.
- `ZtpEnrollmentProofs`: `SpecCommittedIsKept` holds for any number of threads on
  the connection, and rests on `Onward`: what the connection sees goes beyond what
  is on disk and takes nothing of it back, and a certificate is not there before
  the step that stores it. Under `Serial` (one thread at a time) `Undisturbed` says
  of every program point what the transaction has done so far; from it follow
  `SpecAnsweredIsRecorded` and the refinement `SpecImplementsAtomicEnrollment`: a
  COMMIT is one operation of `AtomicEnrollment` and every other step a stutter.
  Without `Serial` the refinement is false (`ZtpThreadsDoc`).
- `ClassifierProofs` (`SpecTypeOK`, `SpecBudgetEarned`, `SpecEventsAccounted`,
  `SpecOrderlyTeardown`), for any flow keys, limits and timeouts. `Threads` relates
  main's phase, the worker's and the exporter's lives and the flags; `Ring` counts
  events and says that the exporter leaves an empty ring that nobody fills any
  more; `Table` says of each TCP record that no segment heard so far ends beyond
  `highest`, so that a segment that counts is a new member of what was heard. The
  theorems hold of `Spec`, hence of `FairSpec`.
- `ServiceProofs`, on `EvidenceBundle` (`SpecShownAsGathered`, `SpecVerdictStands`):
  the bundle and what servers have read of it were gathered, and the bundle holds
  all of it unless appends raced. `SpecVerdictStands`, an action property, has no
  run.
  On `DesiredPaths` (`SpecBranchesReachEachOther`): without disturbances `Joined` says
  that one node registers at a time (`OneRegisters`), that what it has read are the
  keys and both hubs get it (`PublishesAll`), and that a hub that has been verified
  knows every spoke activated so far with its present key (`KnownToHub`, `Orderly`);
  with them, that no hub is configured with keys newer than those registered
  (`NoneAhead`), so that a first key a spoke was told of is the hub's while that has
  only one. A hub has exactly one peer whose AllowedIPs hold a given LAN
  (`TunnelsCross`). Nothing bounds the number of registrations.
  On `SpokeActivation` (`SpecSpokePublishedOnce`): until transactions meet, `Alone` says
  that one thread at most is inside one, and `InTurn` that the leases let one
  activation of a spoke through, and that what it has not done yet nobody has
  done, on disk neither.
  On `DestinationPolicy` (`SpecMarksStandForPolicy`): `Standing` carries the promise
  of the mark in place and of the one just fetched, with the trust of the policy
  it was fetched under. That documents rank known transports and rank at least one
  is an assumption (`PolicyAssumption`): `destination_models.py` refuses others.
  On `AddressPlan` (`SpecAddressNamesInterface`): an address is inside the network
  of its segment (`CheckedIsInside`), so two equal ones are on one network because
  accepted networks do not overlap (`OneNetwork`); on one network the written
  ones were compared and the derived ones differ in the offset (`OneOnNetwork`).
  `NamesAssumption` and `ValuesAssumption` say that node names differ and that values
  are numbers.
  On `ChatSessions` (`SpecAnswersFollowMessages`): `Conversation` says that a running
  task is the one its session is waiting for and that its question is the last
  row there, or that its session was deleted and no row is left. A new row being
  the last of its session (`InsertedLast`), an answer lands right behind its
  question.
- `ControllerV4Proofs`, on `PolicyDistribution` (`SpecDecisionExplained`): the
  property with the types and with `automatic = measured`. It takes the name
  "none", by which the code tells no override, not to be a path's.
  On `PathSelection`: `SpecLeftOnEvidence` rests on `Weighed`, the bad epochs counted
  being the latest verdicts remembered, all of them misses (`JudgedOnce`,
  `MissesRemembered`). `SpecOneRoundPerDecision` rests on `Orderly`: what is still to
  send is the rest of the round, the bucket of its epoch is exactly what was sent,
  and no epoch is in the buffer without the metric of the first underlay. That is
  why an edge that restarts and counts its epochs again fails with its first post
  of such an epoch and never completes it, for any number of underlays. The
  argument counts: a bucket of n metrics of different underlays is complete
  (`UnderlaysCounted`, `GoneCounted`). It assumes that no underlay is listed twice.
  On `HubFailoverV4` (`SpecRoutersAgree`, `SpecCommitMeansInstalled`): `AllOrNothing`
  says that of a change on its way the routers it has reached (`Reached`) run what
  will hold after it and the others what holds before it or nothing, but for those
  in doubt (`astray`), of which nothing is said; the lemmas `OneMoreReached` and `OneLessReached` follow the forward loop
  and the rollback. Both theorems are about one caller at a time, as the run is:
  with two `CommitMeansInstalled` is false (section 3). There are two hubs, as
  `model.py:186` demands.
- `EdgeAgentV4Proofs` (`SpecKernelAgrees`, `SpecRestoredOntoLive`): in `OneStory` the
  place of the monitor says what is known of the transports it has passed
  (`PlacesOK`): each is failed in the manager's eyes, below the threshold, or
  without a living alternative; so what `ready_to_restore` finds is alive, and stays
  so until the next measurement. Tables and marks follow slot by slot (`Routed`,
  `Marked`) through calls that pass (`CallPasses`) and calls that are refused,
  rolled back, or cut short (`CallFails`), for any number of routes a command may
  fail after. `torn` excepts exactly the repairs that were cut short themselves.

Assumptions on constants (`MonitorAssumption`, `ManagerAssumption`,
`OwnershipAssumption`, `BundleAssumption` and the others of that form) are hypotheses
of the theorems where their module is also used with other constants, and
ASSUMEs of the module otherwise; the runs evaluate all of them.

Only model-checked:

- all liveness (`EmergencyClears`, `SpokesActivated`, `ClaimsPay`, `EndsWhenAsked`,
  `LifetimeEnds`, `EmergencyEnds`, `BlackoutAnswered`, `KeepsComingBack`,
  `ClassifierFollows`), which is beyond the proof system;
- `ReturnsWhereItCame`: its module runs a packet through chains with a recursive
  operator.

## 5. Not modelled

- NAT, and the slot routes of a reconcile under a running version 5 monitor (the
  disagreement is noted above; no property survives it).
- Contents of classifier events; the policy snapshot of the version 5 classifier,
  to which version 5 sends nothing.
- `desired_state_v5.py` beyond AllowedIPs, routes, peer validation, initial
  targets, addresses and ports; the checks of `common/model.py` on names, datapath
  identifiers, marks and route tables.
- Versions of destination policy documents, their delivery and acknowledgement.
- `hub_first_activate`, which only a test calls: the service runs the separate
  steps of `PolicyControl`; `reconcile_edge_report`, which only reads; inventory
  staging, done once at start-up.
- `enrollment_state.py`: a transition table that nothing drives.
- `identity_store.py`: a file is written beside and renamed; only two processes of
  the same kind on one edge meet.
- Sessions, nonces and audit rows of the ZTP service.
- The management service beyond its chat: authentication, event queues and the
  views of what the other components write; the event collector.
- Topology, controller applications, workloads and shell scripts, but for the
  return affinity of the cloud gateway: they build the emulated network at
  start-up.
- TLS helpers: a request is lost, late or answered, which the models of its
  callers have.
- `expire_override_payloads` of the version 4 controller, which nothing calls: an
  override that ran out shows until the next decision. The controller's
  observability.

## 6. Plan

1. A version 5 monitor and a reconcile that share tables and files.
2. Versions of destination policy documents and their acknowledgement.
