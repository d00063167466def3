---------------------------- MODULE EdgeFailover ----------------------------
(***************************************************************************)
(* The failover monitor of one spoke: LocalFailoverRuntime and             *)
(* FailoverRouteActuator of src/sdwan_v5/edge_failover_runtime.py with the *)
(* LocalFailoverManager they drive and the kernel route tables they write. *)
(*                                                                         *)
(* run_once is one round: all tunnels are observed, then the slots are     *)
(* taken in order.  A route-table change is one `ip route replace` per     *)
(* corporate prefix; each may fail, which ends the process, for nothing    *)
(* catches the CommandError.  The monitor keeps its state in memory only;  *)
(* the kernel tables outlive it.                                           *)
(*                                                                         *)
(* Left out: failover-status.json and events.json, which this process      *)
(* writes and never reads for a decision, and route_version, which only    *)
(* labels them (LocalFailover.tla has the versions and events).            *)
(***************************************************************************)
EXTENDS RouteResolver

CONSTANTS
  Slot,           \* slots of active_target_by_slot, named after transports
  DrainTimeout,   \* drain_timeout_s in ticks
  Prefixes,       \* corporate prefixes routed in each slot table
  CountMayFail,   \* whether the conntrack listing may fail
  ProbeResult,    \* what a probe may yield, see Observed
  Answering       \* tunnels whose probes ever end before they are stale

INSTANCE RouteSlot WITH Target <- Interface

ASSUME RuntimeAssumption ==
  /\ Slot \subseteq Transport
  /\ DrainTimeout \in Nat \ {0}
  /\ Prefixes \in Nat \ {0}
  /\ CountMayFail \in BOOLEAN
  /\ ProbeResult \subseteq {"usable", "unusable", "stale"}
  /\ Answering \subseteq Interface

VARIABLES
  running,          \* the monitor process exists
  health,           \* self.health: one verdict per tunnel
  slots,            \* self.manager._slots
  recoveryStarted,  \* self.recovery_started
  pending,          \* slots run_once has not yet reached in this round
  repoint,          \* the route-table change in progress, or NoRepoint
  routes,           \* kernel: device of each corporate prefix per slot table
  flows,            \* kernel: conntrack holds entries with the slot's mark
  sinceRemap        \* history: ticks since the slot's last emergency remap

vars == <<running, health, slots, recoveryStarted, pending, repoint,
          routes, flows, sinceRemap>>

Prefix == 1..Prefixes
NoRepoint == [slot |-> "none", device |-> "none", next |-> 0]
Repoint == [slot : Slot, device : Interface, next : Prefix] \cup {NoRepoint}

\* active_target_by_slot of a desired state: the preferred hub's tunnel over
\* the slot's own transport (desired_state_v5.py:92-95).
DesiredTarget(s) == [hub |-> Preferred, transport |-> s]
DesiredRoutes == [s \in Slot |-> [p \in Prefix |-> DesiredTarget(s)]]

TypeOK ==
  /\ running \in BOOLEAN
  /\ health \in [Interface -> Health]
  /\ slots \in [Slot -> SlotState]
  /\ recoveryStarted \in SUBSET Slot
  /\ pending \in SUBSET Slot
  /\ repoint \in Repoint
  /\ routes \in [Slot -> [Prefix -> Interface]]
  /\ flows \in [Slot -> BOOLEAN]
  /\ sinceRemap \in [Slot -> 0..DrainTimeout]

-----------------------------------------------------------------------------
\* Memory of a runtime object that was just constructed.
FreshHealth == [i \in Interface |-> NotMeasured]
FreshSlots == [s \in Slot |-> Confirmed(DesiredTarget(s))]

Init ==
  /\ running = TRUE
  /\ health = FreshHealth
  /\ slots = FreshSlots
  /\ recoveryStarted = {}
  /\ pending = {}
  /\ repoint = NoRepoint
  /\ routes = DesiredRoutes
  /\ flows = [s \in Slot |-> FALSE]
  /\ sinceRemap = [s \in Slot |-> DrainTimeout]

RoundOver == pending = {} /\ repoint = NoRepoint

\* observe() on one probe; "stale" stands for a sample it rejects because
\* the probe itself took longer than stale_after_s.
Observed(h, result) ==
  IF result = "usable" THEN AfterUsable(h)
  ELSE IF result = "unusable" THEN AfterUnusable(h)
  ELSE h

\* The first half of run_once: every tunnel is probed and observed.
Observe(probe) ==
  /\ running
  /\ RoundOver
  /\ health' = [i \in Interface |->
                  IF i \in Answering THEN Observed(health[i], probe[i]) ELSE health[i]]
  /\ pending' = Slot
  /\ UNCHANGED <<running, slots, recoveryStarted, repoint, routes, flows, sinceRemap>>

-----------------------------------------------------------------------------
(***************************************************************************)
(* The second half of run_once: one step per slot, in slot order.          *)
(***************************************************************************)
Turn(s) ==
  /\ running
  /\ repoint = NoRepoint
  /\ s \in pending
  /\ \A t \in pending : Place[s] <= Place[t]
  /\ pending' = pending \ {s}

CurrentFailed(s) == health[slots[s].current].state = "FAILED"
PreviousHealthy(s) == health[slots[s].previous].state = "HEALTHY"

\* Faulty variant: the manager moves and the kernel is left alone.
StartNoRepoint(s, device) == UNCHANGED repoint

StartRepoint(s, device) == repoint' = [slot |-> s, device |-> device, next |-> 1]

Remap(s) ==
  /\ Turn(s)
  /\ CurrentFailed(s)
  /\ Candidates(health) # {}
  /\ LET replacement == Resolve(s, health)
     IN  /\ slots' = [slots EXCEPT ![s] = Remapped(@, replacement)]
         /\ StartRepoint(s, replacement)
  /\ sinceRemap' = [sinceRemap EXCEPT ![s] = 0]
  /\ UNCHANGED <<running, health, recoveryStarted, routes, flows>>

\* LookupError: the slot stays where it is and run_once goes on.
NoReplacement(s) ==
  /\ Turn(s)
  /\ CurrentFailed(s)
  /\ Candidates(health) = {}
  /\ UNCHANGED <<running, health, slots, recoveryStarted, repoint, routes, flows, sinceRemap>>

Confirm(s) ==
  /\ Turn(s)
  /\ ~CurrentFailed(s)
  /\ ~slots[s].emergency
  /\ UNCHANGED <<running, health, slots, recoveryStarted, repoint, routes, flows, sinceRemap>>

InEmergency(s) == ~CurrentFailed(s) /\ slots[s].emergency

PreviousUnwell(s) ==
  /\ Turn(s)
  /\ InEmergency(s)
  /\ ~PreviousHealthy(s)
  /\ recoveryStarted' = recoveryStarted \ {s}
  /\ UNCHANGED <<running, health, slots, repoint, routes, flows, sinceRemap>>

BeginRecovery(s) ==
  /\ Turn(s)
  /\ InEmergency(s)
  /\ PreviousHealthy(s)
  /\ s \notin recoveryStarted
  /\ slots' = [slots EXCEPT ![s] = RecoveryBegun(@)]
  /\ recoveryStarted' = recoveryStarted \cup {s}
  /\ UNCHANGED <<running, health, repoint, routes, flows, sinceRemap>>

\* _active_flow_count: a conntrack listing that fails counts as no flows.
CountsActive(s, listed) == flows[s] /\ listed

MayRestore(s) ==
  /\ InEmergency(s)
  /\ PreviousHealthy(s)
  /\ s \in recoveryStarted

AwaitDrain(s, listed) ==
  /\ Turn(s)
  /\ MayRestore(s)
  /\ ~DrainOver(slots[s], CountsActive(s, listed))
  /\ UNCHANGED <<running, health, slots, recoveryStarted, repoint, routes, flows, sinceRemap>>

Restore(s, listed) ==
  /\ Turn(s)
  /\ MayRestore(s)
  /\ DrainOver(slots[s], CountsActive(s, listed))
  /\ slots' = [slots EXCEPT ![s] = Restored(@)]
  /\ StartRepoint(s, slots[s].previous)
  /\ recoveryStarted' = recoveryStarted \ {s}
  /\ UNCHANGED <<running, health, routes, flows, sinceRemap>>

\* repoint(): the next `ip route replace` of the loop over the prefixes.
ReplaceRoute ==
  /\ running
  /\ repoint # NoRepoint
  /\ routes' = [routes EXCEPT ![repoint.slot][repoint.next] = repoint.device]
  /\ repoint' = IF repoint.next = Prefixes THEN NoRepoint
                ELSE [repoint EXCEPT !.next = @ + 1]
  /\ UNCHANGED <<running, health, slots, recoveryStarted, pending, flows, sinceRemap>>

-----------------------------------------------------------------------------
(***************************************************************************)
(* The process dies: a route command failed inside repoint(), or it was    *)
(* killed.  Its memory is gone, which the model shows by resetting it.     *)
(***************************************************************************)
Crash ==
  /\ running
  /\ running' = FALSE
  /\ health' = FreshHealth
  /\ slots' = FreshSlots
  /\ recoveryStarted' = {}
  /\ pending' = {}
  /\ repoint' = NoRepoint
  /\ UNCHANGED <<routes, flows, sinceRemap>>

\* A monitor is only started by edge_bootstrap.reconcile, after the agent
\* has applied the desired state's slot routes (edge_bootstrap.py:124-134).
Start ==
  /\ ~running
  /\ running' = TRUE
  /\ routes' = DesiredRoutes
  /\ UNCHANGED <<health, slots, recoveryStarted, pending, repoint, flows, sinceRemap>>

\* Traffic: conntrack entries of a slot come and go.
FlowsChange(s) ==
  /\ flows' = [flows EXCEPT ![s] = ~@]
  /\ UNCHANGED <<running, health, slots, recoveryStarted, pending, repoint, routes, sinceRemap>>

Tick ==
  /\ health' = [i \in Interface |-> Aged(health[i])]
  /\ slots' = [s \in Slot |-> Drained(slots[s])]
  /\ sinceRemap' = [s \in Slot |-> UpTo(sinceRemap[s] + 1, DrainTimeout)]
  /\ UNCHANGED <<running, recoveryStarted, pending, repoint, routes, flows>>

SlotStep(s) ==
  \/ Remap(s)
  \/ NoReplacement(s)
  \/ Confirm(s)
  \/ PreviousUnwell(s)
  \/ BeginRecovery(s)
  \/ \E listed \in {TRUE, ~CountMayFail} : AwaitDrain(s, listed) \/ Restore(s, listed)

Monitor ==
  \/ \E probe \in [Answering -> ProbeResult] : Observe(probe)
  \/ \E s \in Slot : SlotStep(s)
  \/ ReplaceRoute

Untimed ==
  \/ Monitor
  \/ Crash
  \/ Start
  \/ \E s \in Slot : FlowsChange(s)

Next == Untimed \/ Tick

Spec == Init /\ [][Next]_vars

(***************************************************************************)
(* serve_forever runs rounds for as long as the process lives, and the     *)
(* clock advances.  Nothing makes flows end, links heal, or a dead monitor *)
(* start again.                                                            *)
(***************************************************************************)
Fairness == WF_vars(Monitor) /\ WF_vars(Tick)
FairSpec == Spec /\ Fairness

-----------------------------------------------------------------------------
(***************************************************************************)
(* A slot whose failback has been started and whose previous target is     *)
(* HEALTHY has a drain deadline.  emergency_remap clears the deadline and  *)
(* leaves recovery_started alone; without a deadline complete_recovery     *)
(* answers None for ever and the slot would stay in emergency until the    *)
(* process restarts.  The two stay in step only because a target just left *)
(* was FAILED and cannot be HEALTHY again before a round has seen it       *)
(* RECOVERING, while the target just taken cannot fail within one round.   *)
(***************************************************************************)
DrainArmed ==
  \A s \in Slot :
    slots[s].emergency /\ s \in recoveryStarted /\ PreviousHealthy(s)
    => slots[s].drain # NoDeadline

(***************************************************************************)
(* While the monitor lives and is not in the middle of a repoint, the      *)
(* kernel forwards every corporate prefix of a slot over the tunnel the    *)
(* manager holds as current.                                               *)
(***************************************************************************)
Repointing(s) == repoint # NoRepoint /\ repoint.slot = s
RoutesFollowManager ==
  running =>
    \A s \in Slot, p \in Prefix :
      ~Repointing(s) => routes[s][p] = slots[s].current

(***************************************************************************)
(* No round ends with a slot on a FAILED tunnel while any tunnel of the    *)
(* spoke could take it: neither a slot handled before another one, nor a   *)
(* failback of the same round, nor the hub aggregate stands in the way.    *)
(***************************************************************************)
FailedOnlyWhenStranded ==
  RoundOver =>
    \A s \in Slot :
      CurrentFailed(s) => \A i \in Interface : health[i].state # "HEALTHY"

(***************************************************************************)
(* The monitor never steers a prefix onto a tunnel that is not HEALTHY, in *)
(* a failover or in a failback.                                            *)
(***************************************************************************)
MovesOntoHealthy ==
  [][ running /\ running' =>
        \A s \in Slot, p \in Prefix :
          routes'[s][p] # routes[s][p] => health[routes'[s][p]].state = "HEALTHY" ]_vars

(***************************************************************************)
(* An emergency displaces a slot as little as it can: it leaves the slot's *)
(* own transport only when no tunnel over it is HEALTHY, and the preferred *)
(* hub only when that hub has no HEALTHY tunnel over the transport taken,  *)
(* whatever the other slots did in the same round.                         *)
(***************************************************************************)
RemapStep(s) == slots'[s].emergency /\ slots'[s].current # slots[s].current
LeastDisplacement ==
  [][ \A s \in Slot :
        RemapStep(s) =>
          LET new == slots'[s].current
          IN  /\ new.transport # s =>
                   \A hub \in Hub :
                     health[[hub |-> hub, transport |-> s]].state # "HEALTHY"
              /\ new.hub # Preferred =>
                   health[[hub |-> Preferred, transport |-> new.transport]].state
                     # "HEALTHY" ]_vars

RestoreStep(s) == slots[s].emergency /\ ~slots'[s].emergency /\ running'

(***************************************************************************)
(* A slot is taken back while it carries flows only when the full drain    *)
(* timeout has passed since it was last remapped: no deadline of an        *)
(* earlier emergency of the slot survives into a later one                 *)
(* (ARCHITECTURE.md:36, "until the old cohort drains or the drain timeout  *)
(* expires").                                                              *)
(***************************************************************************)
DrainHonoured ==
  [][ \A s \in Slot :
        RestoreStep(s) /\ flows[s] => sinceRemap[s] = DrainTimeout ]_vars

(***************************************************************************)
(* Once the monitor stays up and every probe of every tunnel succeeds, no  *)
(* slot stays in emergency, however the failures before were interleaved   *)
(* and even if flows never end.                                            *)
(***************************************************************************)
AllProbesUsable ==
  \A i \in Answering : health'[i] = AfterUsable(health[i])
EventuallyQuiet ==
  /\ <>[]running
  /\ <>[][ pending = {} /\ pending' # {} => AllProbesUsable ]_vars
EmergencyClears ==
  EventuallyQuiet => <>[](\A s \in Slot : ~slots[s].emergency)

-----------------------------------------------------------------------------
(***************************************************************************)
(* The inductive invariant behind the properties above, one part each.     *)
(***************************************************************************)
\* A verdict agrees with its failure counter.
VerdictCounted ==
  \A i \in Interface :
    /\ health[i].state = "FAILED" => health[i].failures = FailedFailures
    /\ health[i].state = "HEALTHY" => health[i].failures < SuspectFailures

\* A slot without deadline among recoveryStarted has just been remapped.
JustRemapped(s) ==
  IF s \in pending
  THEN /\ health[slots[s].previous].state \in {"FAILED", "RECOVERING"}
       /\ ~CurrentFailed(s)
  ELSE /\ health[slots[s].previous].state = "FAILED"
       /\ health[slots[s].current].state = "HEALTHY"
DeadlineKept ==
  \A s \in recoveryStarted :
    slots[s].emergency /\ slots[s].drain = NoDeadline => JustRemapped(s)

\* A repoint goes to the slot's current target, HEALTHY since the resolution,
\* and has written the prefixes before the next one.
RepointSound ==
  repoint # NoRepoint =>
    /\ running
    /\ repoint.device = slots[repoint.slot].current
    /\ health[repoint.device].state = "HEALTHY"
    /\ \A p \in Prefix : p < repoint.next => routes[repoint.slot][p] = repoint.device

\* A slot already handled in this round is not left on a FAILED tunnel.
HandledNotFailed ==
  \A s \in Slot \ pending :
    CurrentFailed(s) => \A i \in Interface : health[i].state # "HEALTHY"

\* A deadline lies a whole drain timeout after the last remap.
DeadlineAfterRemap ==
  \A s \in Slot :
    slots[s].drain # NoDeadline => sinceRemap[s] + slots[s].drain >= DrainTimeout

\* What a dead monitor leaves behind is the state of a new one.
DeadIsFresh ==
  ~running => slots = FreshSlots /\ recoveryStarted = {} /\ repoint = NoRepoint

Inductive ==
  /\ TypeOK
  /\ VerdictCounted
  /\ DeadlineKept
  /\ RepointSound
  /\ RoutesFollowManager
  /\ HandledNotFailed
  /\ DeadlineAfterRemap
  /\ DeadIsFresh
=============================================================================
