------------------------- MODULE EdgeFailoverProofs -------------------------
(***************************************************************************)
(* Theorems about EdgeFailover for every set of transports, every          *)
(* threshold, drain timeout and number of prefixes.                        *)
(***************************************************************************)
EXTENDS EdgeFailover, WellFoundedInduction, TLAPS

-----------------------------------------------------------------------------
(***************************************************************************)
(* Health verdicts.                                                        *)
(***************************************************************************)
LEMMA NotMeasuredType == NotMeasured \in Health
BY ThresholdAssumption DEF NotMeasured, Health, TunnelState

LEMMA AfterUsableType ==
  ASSUME NEW h \in Health
  PROVE  AfterUsable(h) \in Health
BY ThresholdAssumption DEF AfterUsable, Health, TunnelState, UpTo, RecoveryComplete

LEMMA AfterUnusableType ==
  ASSUME NEW h \in Health
  PROVE  AfterUnusable(h) \in Health
BY ThresholdAssumption DEF AfterUnusable, Health, TunnelState, UpTo

LEMMA AgedType ==
  ASSUME NEW h \in Health
  PROVE  /\ Aged(h) \in Health
         /\ Aged(h).state = h.state
         /\ Aged(h).failures = h.failures
BY ThresholdAssumption DEF Aged, Health

Counted(h) ==
  /\ h.state = "FAILED" => h.failures = FailedFailures
  /\ h.state = "HEALTHY" => h.failures < SuspectFailures

(***************************************************************************)
(* One observation: a counted verdict stays counted, a FAILED tunnel needs *)
(* more than one to become HEALTHY, and a HEALTHY one more than one to     *)
(* become FAILED.                                                          *)
(***************************************************************************)
LEMMA OneObservation ==
  ASSUME NEW h \in Health, Counted(h),
         NEW result \in {"usable", "unusable", "stale"}
  PROVE  /\ Observed(h, result) \in Health
         /\ Counted(Observed(h, result))
         /\ h.state = "FAILED" => Observed(h, result).state \in {"FAILED", "RECOVERING"}
         /\ h.state = "HEALTHY" => Observed(h, result).state # "FAILED"
<1>1. CASE result = "usable"
  <2>1. Observed(h, result) = AfterUsable(h)
    BY <1>1 DEF Observed
  <2> QED
    BY <2>1, AfterUsableType, ThresholdAssumption DEF AfterUsable, Health, Counted
<1>2. CASE result = "unusable"
  <2>1. Observed(h, result) = AfterUnusable(h)
    BY <1>2 DEF Observed
  <2> QED
    BY <2>1, AfterUnusableType, ThresholdAssumption
    DEF AfterUnusable, Health, TunnelState, UpTo, Counted
<1>3. CASE result = "stale"
  BY <1>3 DEF Observed
<1> QED
  BY <1>1, <1>2, <1>3

-----------------------------------------------------------------------------
(***************************************************************************)
(* Route resolution.                                                       *)
(***************************************************************************)
\* The hub aggregate never vetoes a HEALTHY tunnel: a hub with one is either
\* HEALTHY or DEGRADED.
LEMMA HubNeverVetoes ==
  ASSUME NEW f \in [Interface -> Health], NEW i \in Interface
  PROVE  Eligible(i, f) <=> f[i].state = "HEALTHY"
<1> SUFFICES ASSUME f[i].state = "HEALTHY"
             PROVE  HubState(i.hub, f) \in {"HEALTHY", "DEGRADED"}
  BY DEF Eligible
<1>1. i \in TunnelsOf(i.hub)
  BY DEF TunnelsOf
<1>2. {j \in TunnelsOf(i.hub) : f[j].state = "FAILED"} # TunnelsOf(i.hub)
  BY <1>1
<1>3. {j \in TunnelsOf(i.hub) : f[j].state = "HEALTHY"} # {}
  BY <1>1
<1> QED
  BY <1>2, <1>3 DEF HubState

LEMMA RankType ==
  ASSUME NEW s \in Transport, NEW t \in Transport
  PROVE  Rank(s, t) \in Nat
BY ResolverAssumption DEF Rank

LEMMA RankInjective ==
  ASSUME NEW s \in Transport, NEW t \in Transport, NEW u \in Transport,
         Rank(s, t) = Rank(s, u)
  PROVE  t = u
BY ResolverAssumption DEF Rank

\* Resolution returns a candidate whenever there is one, and the first in order.
LEMMA ResolveFirst ==
  ASSUME NEW s \in Transport, NEW f, Candidates(f) # {}
  PROVE  /\ Resolve(s, f) \in Candidates(f)
         /\ \A j \in Candidates(f) : Precedes(s, Resolve(s, f), j)
<1> DEFINE C == Candidates(f)
           R == {Rank(s, i.transport) : i \in C}
<1>1. C \subseteq Interface
  BY DEF Candidates
<1>2. \A i \in Interface : i.transport \in Transport /\ i.hub \in Hub
  BY DEF Interface
<1>3. R \subseteq Nat /\ R # {}
  BY <1>1, <1>2, RankType
<1>4. PICK least \in R : \A r \in R : least <= r
  <2> DEFINE Below == {pair \in Nat \X Nat : pair[1] < pair[2]}
  <2>0. IsWellFoundedOn(Below, Nat)
    BY NatLessThanWellFounded, Zenon DEF OpToRel
  <2>1. PICK least \in R : \A r \in R : ~(<<r, least>> \in Below)
    <3> HIDE DEF Below
    <3> QED
      BY <1>3, <2>0, WFMin
  <2>2. \A r \in R : ~(r < least)
    BY <2>1, <1>3
  <2> QED
    BY <2>2, <1>3
<1>5. PICK i \in C : Rank(s, i.transport) = least
  BY <1>4
<1>6. PICK k \in C : /\ k.transport = i.transport
                     /\ \A j \in C : j.transport = k.transport => k.hub = Preferred \/ j.hub = Standby
  BY <1>1, <1>2, <1>5 DEF Hub
<1>7. \A j \in C : Precedes(s, k, j)
  <2> SUFFICES ASSUME NEW j \in C PROVE Precedes(s, k, j)
    OBVIOUS
  <2>1. Rank(s, k.transport) <= Rank(s, j.transport)
    BY <1>4, <1>5, <1>6
  <2>2. CASE Rank(s, k.transport) < Rank(s, j.transport)
    BY <2>2 DEF Precedes
  <2>3. CASE Rank(s, k.transport) = Rank(s, j.transport)
    <3>1. k.transport = j.transport
      BY <2>3, <1>1, <1>2, RankInjective
    <3> QED
      BY <3>1, <1>6 DEF Precedes
  <2> QED
    BY <2>1, <2>2, <2>3, <1>1, <1>2, RankType
<1> QED
  BY <1>7 DEF Resolve

-----------------------------------------------------------------------------
(***************************************************************************)
(* The inductive invariant.                                                *)
(***************************************************************************)
LEMMA ConstantTypes ==
  /\ DrainTimeout \in Nat \ {0}
  /\ Prefixes \in Nat \ {0}
  /\ Slot \subseteq Transport
  /\ \A s \in Slot : DesiredTarget(s) \in Interface
  /\ \A target \in Interface :
        Confirmed(target) \in SlotState /\ Confirmed(target).current = target
  /\ NoRepoint.next \notin Prefix
BY RuntimeAssumption
DEF DesiredTarget, Interface, Hub, Confirmed, SlotState, NoDeadline, NoRepoint, Prefix

LEMMA InitInductive == Init => Inductive
<1> SUFFICES ASSUME Init PROVE Inductive
  OBVIOUS
<1>1. TypeOK
  BY ConstantTypes, NotMeasuredType
  DEF Init, TypeOK, FreshHealth, FreshSlots, DesiredRoutes, Repoint
<1>2. VerdictCounted
  BY ThresholdAssumption DEF Init, VerdictCounted, FreshHealth, NotMeasured
<1>3. DeadlineKept /\ HandledNotFailed
  BY DEF Init, DeadlineKept, HandledNotFailed, FreshHealth, FreshSlots, NotMeasured,
         CurrentFailed, Confirmed, DesiredTarget, Interface, Hub
<1>4. RepointSound /\ DeadIsFresh
  BY DEF Init, RepointSound, DeadIsFresh
<1>5. RoutesFollowManager
  BY ConstantTypes DEF Init, RoutesFollowManager, FreshSlots, DesiredRoutes
<1>6. DeadlineAfterRemap
  BY DEF Init, DeadlineAfterRemap, FreshSlots, Confirmed
<1> QED
  BY <1>1, <1>2, <1>3, <1>4, <1>5, <1>6 DEF Inductive

\* What a turn of a slot finds: the process lives and repoints nothing.
LEMMA TurnFacts ==
  ASSUME Inductive, NEW s \in Slot, Turn(s)
  PROVE  /\ running /\ repoint = NoRepoint
         /\ s \in pending /\ pending' = pending \ {s} /\ pending' \subseteq Slot
         /\ slots[s] \in SlotState
         /\ slots[s].current \in Interface /\ slots[s].previous \in Interface
         /\ slots[s].current.transport \in Transport /\ s \in Transport
BY RuntimeAssumption DEF Turn, Inductive, TypeOK, SlotState, Interface

LEMMA ObserveStep ==
  ASSUME Inductive, NEW probe \in [Answering -> ProbeResult], Observe(probe)
  PROVE  Inductive'
<1> USE DEF Inductive, TypeOK
<1>1. /\ health \in [Interface -> Health]
      /\ pending = {} /\ repoint = NoRepoint /\ pending' = Slot /\ running
      /\ UNCHANGED <<running, slots, recoveryStarted, repoint, routes, flows, sinceRemap>>
  BY DEF Observe, RoundOver
<1>2. \A i \in Interface :
        /\ health'[i] \in Health
        /\ Counted(health'[i])
        /\ health[i].state = "FAILED" => health'[i].state \in {"FAILED", "RECOVERING"}
        /\ health[i].state = "HEALTHY" => health'[i].state # "FAILED"
  <2> SUFFICES ASSUME NEW i \in Interface
               PROVE  /\ health'[i] \in Health
                      /\ Counted(health'[i])
                      /\ health[i].state = "FAILED" => health'[i].state \in {"FAILED", "RECOVERING"}
                      /\ health[i].state = "HEALTHY" => health'[i].state # "FAILED"
    OBVIOUS
  <2>1. health[i] \in Health /\ Counted(health[i])
    BY <1>1 DEF VerdictCounted, Counted
  <2>2. CASE i \in Answering
    <3>1. probe[i] \in {"usable", "unusable", "stale"}
      BY <2>2, RuntimeAssumption
    <3>2. health'[i] = Observed(health[i], probe[i])
      BY <2>2 DEF Observe
    <3> QED
      BY <2>1, <3>1, <3>2, OneObservation
  <2>3. CASE i \notin Answering
    <3>1. health'[i] = health[i]
      BY <2>3 DEF Observe
    <3> QED
      BY <2>1, <3>1
  <2> QED
    BY <2>2, <2>3
<1>3. TypeOK'
  <2>1. health' \in [Interface -> Health]
    BY <1>2 DEF Observe
  <2> QED
    BY <1>1, <2>1
<1>4. VerdictCounted'
  BY <1>2 DEF VerdictCounted, Counted
<1>5. DeadlineKept'
  <2> SUFFICES ASSUME NEW s \in recoveryStarted,
                      slots[s].emergency, slots[s].drain = NoDeadline
               PROVE  JustRemapped(s)'
    BY <1>1 DEF DeadlineKept
  <2>1. /\ health[slots[s].previous].state = "FAILED"
        /\ health[slots[s].current].state = "HEALTHY"
    BY <1>1 DEF DeadlineKept, JustRemapped
  <2>2. slots[s].previous \in Interface /\ slots[s].current \in Interface
    BY DEF SlotState
  <2> QED
    BY <1>1, <1>2, <2>1, <2>2 DEF JustRemapped, CurrentFailed
<1>6. RepointSound' /\ HandledNotFailed'
  BY <1>1 DEF RepointSound, HandledNotFailed
<1>7. RoutesFollowManager' /\ DeadlineAfterRemap' /\ DeadIsFresh'
  BY <1>1 DEF RoutesFollowManager, Repointing, DeadlineAfterRemap, DeadIsFresh
<1> QED
  BY <1>3, <1>4, <1>5, <1>6, <1>7

LEMMA RemapSteps ==
  ASSUME Inductive, NEW s \in Slot, Remap(s)
  PROVE  Inductive'
<1> DEFINE new == Resolve(s, health)
<1> USE DEF Inductive
<1>1. /\ health \in [Interface -> Health]
      /\ slots' = [slots EXCEPT ![s] = Remapped(slots[s], new)]
      /\ repoint' = [slot |-> s, device |-> new, next |-> 1]
      /\ sinceRemap' = [sinceRemap EXCEPT ![s] = 0]
      /\ health[slots[s].current].state = "FAILED"
      /\ UNCHANGED <<running, health, recoveryStarted, routes, flows>>
  BY DEF Remap, StartRepoint, CurrentFailed, TypeOK
<1>2. new \in Interface /\ health[new].state = "HEALTHY"
  <2>1. new \in Candidates(health)
    BY TurnFacts, ResolveFirst DEF Remap
  <2> QED
    BY <2>1 DEF Candidates, Eligible
<1> HIDE DEF new
<1>3. /\ slots'[s] = [current |-> new, previous |-> slots[s].current,
                      emergency |-> TRUE, drain |-> NoDeadline]
      /\ \A t \in Slot \ {s} : slots'[t] = slots[t]
      /\ slots' \in [Slot -> SlotState]
  <2>1. Remapped(slots[s], new) \in SlotState
    BY <1>2, TurnFacts, ConstantTypes DEF Remap, Remapped, SlotState, NoDeadline
  <2> QED
    BY <1>1, <2>1 DEF TypeOK, Remapped
<1>4. /\ running /\ repoint = NoRepoint
      /\ s \in pending /\ pending' = pending \ {s} /\ pending' \subseteq Slot
      /\ slots[s].current \in Interface
  BY TurnFacts DEF Remap
<1>5. TypeOK'
  BY <1>1, <1>2, <1>3, <1>4, ConstantTypes DEF TypeOK, Repoint, Prefix
<1>6. VerdictCounted'
  BY <1>1 DEF VerdictCounted
<1>7. DeadlineKept'
  BY <1>1, <1>2, <1>3, <1>4 DEF DeadlineKept, JustRemapped, CurrentFailed, TypeOK
<1>8. RepointSound'
  BY <1>1, <1>2, <1>3, <1>4 DEF RepointSound, Prefix
<1>9. RoutesFollowManager'
  <2>1. Repointing(s)'
    BY <1>1 DEF Repointing, NoRepoint
  <2>2. \A t \in Slot, p \in Prefix : t # s => routes'[t][p] = slots'[t].current
    BY <1>1, <1>3, <1>4 DEF RoutesFollowManager, Repointing
  <2> QED
    BY <2>1, <2>2 DEF RoutesFollowManager
<1>10. HandledNotFailed'
  BY <1>1, <1>2, <1>3, <1>4 DEF HandledNotFailed, CurrentFailed
<1>11. DeadlineAfterRemap'
  BY <1>1, <1>3 DEF DeadlineAfterRemap, TypeOK
<1>12. DeadIsFresh'
  BY <1>1, <1>4 DEF DeadIsFresh
<1> QED
  BY <1>5, <1>6, <1>7, <1>8, <1>9, <1>10, <1>11, <1>12

\* The turns of a slot that move nothing.
LEMMA IdleTurnStep ==
  ASSUME Inductive, NEW s \in Slot, NEW listed \in BOOLEAN,
         \/ NoReplacement(s) \/ Confirm(s) \/ PreviousUnwell(s) \/ AwaitDrain(s, listed)
  PROVE  Inductive'
<1> USE DEF Inductive
<1>1. Turn(s)
  BY DEF NoReplacement, Confirm, PreviousUnwell, AwaitDrain
<1>2. /\ UNCHANGED <<running, health, slots, repoint, routes, flows, sinceRemap>>
      /\ recoveryStarted' \subseteq recoveryStarted
      /\ health \in [Interface -> Health]
  BY DEF NoReplacement, Confirm, PreviousUnwell, AwaitDrain, TypeOK
<1>3. /\ s \in pending /\ pending' = pending \ {s} /\ pending' \subseteq Slot
      /\ slots[s].current \in Interface /\ slots[s].previous \in Interface
  BY <1>1, TurnFacts
<1>4. ASSUME s \in recoveryStarted', slots[s].emergency, slots[s].drain = NoDeadline
      PROVE  FALSE
  <2>1. JustRemapped(s)
    BY <1>2, <1>4 DEF DeadlineKept
  <2>2. /\ health[slots[s].previous].state \in {"FAILED", "RECOVERING"}
        /\ ~CurrentFailed(s)
    BY <1>3, <2>1 DEF JustRemapped
  <2>3. CASE NoReplacement(s)
    BY <2>2, <2>3 DEF NoReplacement
  <2>4. CASE Confirm(s)
    BY <1>4, <2>4 DEF Confirm
  <2>5. CASE PreviousUnwell(s)
    BY <1>4, <2>5 DEF PreviousUnwell
  <2>6. CASE AwaitDrain(s, listed)
    BY <2>2, <2>6 DEF AwaitDrain, MayRestore, PreviousHealthy
  <2> QED
    BY <2>3, <2>4, <2>5, <2>6
<1>5. CurrentFailed(s) => \A i \in Interface : health[i].state # "HEALTHY"
  <2> SUFFICES ASSUME CurrentFailed(s), NEW i \in Interface
               PROVE  health[i].state # "HEALTHY"
    OBVIOUS
  <2>1. Candidates(health) = {}
    BY DEF NoReplacement, Confirm, PreviousUnwell, AwaitDrain, MayRestore, InEmergency
  <2> QED
    BY <1>2, <2>1, HubNeverVetoes DEF Candidates
<1>6. TypeOK'
  BY <1>2, <1>3 DEF TypeOK
<1>7. VerdictCounted' /\ DeadlineAfterRemap' /\ DeadIsFresh'
  <2>1. recoveryStarted = {} => recoveryStarted' = {}
    BY <1>2
  <2> QED
    BY <1>2, <2>1 DEF VerdictCounted, DeadlineAfterRemap, DeadIsFresh, FreshSlots
<1>8. DeadlineKept'
  BY <1>2, <1>3, <1>4 DEF DeadlineKept, JustRemapped, CurrentFailed
<1>9. RepointSound' /\ RoutesFollowManager'
  BY <1>2 DEF RepointSound, RoutesFollowManager, Repointing
<1>10. HandledNotFailed'
  BY <1>2, <1>3, <1>5 DEF HandledNotFailed, CurrentFailed
<1> QED
  BY <1>6, <1>7, <1>8, <1>9, <1>10

LEMMA BeginRecoveryStep ==
  ASSUME Inductive, NEW s \in Slot, BeginRecovery(s)
  PROVE  Inductive'
<1> USE DEF Inductive
<1>1. /\ UNCHANGED <<running, health, repoint, routes, flows, sinceRemap>>
      /\ recoveryStarted' = recoveryStarted \cup {s}
      /\ slots' = [slots EXCEPT ![s] = [slots[s] EXCEPT !.drain = DrainTimeout]]
      /\ ~CurrentFailed(s)
  BY DEF BeginRecovery, InEmergency, RecoveryBegun
<1>2. /\ running /\ repoint = NoRepoint
      /\ s \in pending /\ pending' = pending \ {s} /\ pending' \subseteq Slot
      /\ slots[s] \in SlotState
  BY TurnFacts DEF BeginRecovery
<1>3. /\ slots' \in [Slot -> SlotState]
      /\ slots'[s].drain = DrainTimeout /\ DrainTimeout # NoDeadline
      /\ \A t \in Slot : slots'[t].current = slots[t].current
      /\ \A t \in Slot \ {s} : slots'[t] = slots[t]
  <2>1. [slots[s] EXCEPT !.drain = DrainTimeout] \in SlotState
    BY <1>2, ConstantTypes DEF SlotState, NoDeadline
  <2>2. /\ [slots[s] EXCEPT !.drain = DrainTimeout].drain = DrainTimeout
        /\ [slots[s] EXCEPT !.drain = DrainTimeout].current = slots[s].current
        /\ DrainTimeout # NoDeadline
    BY <1>2, ConstantTypes DEF SlotState, NoDeadline
  <2> QED
    BY <1>1, <2>1, <2>2 DEF TypeOK
<1>4. TypeOK'
  BY <1>1, <1>2, <1>3 DEF TypeOK
<1>5. VerdictCounted' /\ DeadIsFresh'
  BY <1>1, <1>2 DEF VerdictCounted, DeadIsFresh
<1>6. DeadlineKept'
  BY <1>1, <1>2, <1>3 DEF DeadlineKept, JustRemapped, CurrentFailed, TypeOK
<1>7. RepointSound' /\ RoutesFollowManager'
  BY <1>1, <1>2, <1>3 DEF RepointSound, RoutesFollowManager, Repointing
<1>8. HandledNotFailed'
  BY <1>1, <1>2, <1>3 DEF HandledNotFailed, CurrentFailed
<1>9. DeadlineAfterRemap'
  <2>1. sinceRemap[s] + DrainTimeout >= DrainTimeout
    BY ConstantTypes DEF TypeOK
  <2> QED
    BY <1>1, <1>3, <2>1 DEF DeadlineAfterRemap
<1> QED
  BY <1>4, <1>5, <1>6, <1>7, <1>8, <1>9

LEMMA RestoreSteps ==
  ASSUME Inductive, NEW s \in Slot, NEW listed \in BOOLEAN, Restore(s, listed)
  PROVE  Inductive'
<1> DEFINE new == slots[s].previous
<1> USE DEF Inductive
<1>1. /\ UNCHANGED <<running, health, routes, flows, sinceRemap>>
      /\ recoveryStarted' = recoveryStarted \ {s}
      /\ slots' = [slots EXCEPT ![s] = Restored(slots[s])]
      /\ repoint' = [slot |-> s, device |-> new, next |-> 1]
      /\ health[new].state = "HEALTHY"
  BY DEF Restore, MayRestore, PreviousHealthy, StartRepoint
<1>2. /\ running /\ repoint = NoRepoint
      /\ s \in pending /\ pending' = pending \ {s} /\ pending' \subseteq Slot
      /\ slots[s] \in SlotState /\ new \in Interface
  BY TurnFacts DEF Restore
<1>3. /\ slots' \in [Slot -> SlotState]
      /\ slots'[s].current = new /\ slots'[s].drain = NoDeadline
      /\ \A t \in Slot \ {s} : slots'[t] = slots[t]
  <2>1. /\ Restored(slots[s]) \in SlotState
        /\ Restored(slots[s]).current = new
        /\ Restored(slots[s]).drain = NoDeadline
    BY <1>2, ConstantTypes DEF Restored, Confirmed
  <2> QED
    BY <1>1, <2>1 DEF TypeOK
<1> HIDE DEF new
<1>4. TypeOK'
  BY <1>1, <1>2, <1>3, ConstantTypes DEF TypeOK, Repoint, Prefix
<1>5. VerdictCounted' /\ DeadIsFresh'
  BY <1>1, <1>2 DEF VerdictCounted, DeadIsFresh
<1>6. DeadlineKept'
  BY <1>1, <1>2, <1>3 DEF DeadlineKept, JustRemapped, CurrentFailed, TypeOK
<1>7. RepointSound'
  BY <1>1, <1>2, <1>3 DEF RepointSound, Prefix
<1>8. RoutesFollowManager'
  <2>1. Repointing(s)'
    BY <1>1 DEF Repointing, NoRepoint
  <2>2. \A t \in Slot, p \in Prefix : t # s => routes'[t][p] = slots'[t].current
    BY <1>1, <1>2, <1>3 DEF RoutesFollowManager, Repointing
  <2> QED
    BY <2>1, <2>2 DEF RoutesFollowManager
<1>9. HandledNotFailed'
  BY <1>1, <1>2, <1>3 DEF HandledNotFailed, CurrentFailed
<1>10. DeadlineAfterRemap'
  BY <1>1, <1>3 DEF DeadlineAfterRemap
<1> QED
  BY <1>4, <1>5, <1>6, <1>7, <1>8, <1>9, <1>10

LEMMA ReplaceRouteStep ==
  ASSUME Inductive, ReplaceRoute
  PROVE  Inductive'
<1> USE DEF Inductive
<1> DEFINE s == repoint.slot
           device == repoint.device
           next == repoint.next
<1>1. /\ running /\ repoint # NoRepoint
      /\ routes' = [routes EXCEPT ![s][next] = device]
      /\ repoint' = IF next = Prefixes THEN NoRepoint ELSE [repoint EXCEPT !.next = next + 1]
      /\ UNCHANGED <<running, health, slots, recoveryStarted, pending, flows, sinceRemap>>
  BY DEF ReplaceRoute
<1>2. repoint \in [slot : Slot, device : Interface, next : Prefix]
  BY <1>1 DEF TypeOK, Repoint
<1>3. s \in Slot /\ device \in Interface /\ next \in Prefix
  BY <1>2
<1>4. /\ device = slots[s].current /\ health[device].state = "HEALTHY"
      /\ \A p \in Prefix : p < next => routes[s][p] = device
  BY <1>1 DEF RepointSound
<1>5. /\ routes' \in [Slot -> [Prefix -> Interface]]
      /\ \A p \in Prefix : p <= next => routes'[s][p] = device
      /\ \A t \in Slot \ {s} : routes'[t] = routes[t]
  <2>1. routes \in [Slot -> [Prefix -> Interface]]
    BY DEF TypeOK
  <2>2. routes'[s] = [routes[s] EXCEPT ![next] = device]
    BY <1>1, <1>3, <2>1
  <2>3. \A p \in Prefix : p <= next => p < next \/ p = next
    BY <1>3 DEF Prefix
  <2> QED
    BY <1>1, <1>3, <1>4, <2>1, <2>2, <2>3
<1>6. CASE next = Prefixes
  <2>1. repoint' = NoRepoint
    BY <1>1, <1>6
  <2>2. \A p \in Prefix : routes'[s][p] = device
    BY <1>5, <1>6, ConstantTypes DEF Prefix
  <2>3. TypeOK' /\ VerdictCounted' /\ DeadIsFresh' /\ RepointSound'
    BY <1>1, <1>5, <2>1 DEF TypeOK, Repoint, VerdictCounted, DeadIsFresh, RepointSound
  <2>4. DeadlineKept' /\ HandledNotFailed' /\ DeadlineAfterRemap'
    BY <1>1 DEF DeadlineKept, JustRemapped, CurrentFailed, HandledNotFailed, DeadlineAfterRemap
  <2>5. RoutesFollowManager'
    BY <1>1, <1>4, <1>5, <2>2 DEF RoutesFollowManager, Repointing
  <2> QED
    BY <2>3, <2>4, <2>5
<1>7. CASE next # Prefixes
  <2>1. repoint' = [slot |-> s, device |-> device, next |-> next + 1]
    BY <1>1, <1>2, <1>7
  <2>2. next + 1 \in Prefix
    BY <1>3, <1>7, ConstantTypes DEF Prefix
  <2>3. TypeOK' /\ VerdictCounted' /\ DeadIsFresh'
    BY <1>1, <1>3, <1>5, <2>1, <2>2 DEF TypeOK, Repoint, VerdictCounted, DeadIsFresh
  <2>4. RepointSound'
    <3>1. \A p \in Prefix : p < next + 1 => p <= next
      BY <1>3 DEF Prefix
    <3> QED
      BY <1>1, <1>4, <1>5, <2>1, <3>1 DEF RepointSound
  <2>5. DeadlineKept' /\ HandledNotFailed' /\ DeadlineAfterRemap'
    BY <1>1 DEF DeadlineKept, JustRemapped, CurrentFailed, HandledNotFailed, DeadlineAfterRemap
  <2>6. RoutesFollowManager'
    <3>1. repoint' # NoRepoint /\ repoint'.slot = s
      BY <2>1, <2>2, ConstantTypes
    <3>2. \A t \in Slot, p \in Prefix : t # s => routes'[t][p] = slots'[t].current
      BY <1>1, <1>5 DEF RoutesFollowManager, Repointing
    <3> QED
      BY <3>1, <3>2 DEF RoutesFollowManager, Repointing
  <2> QED
    BY <2>3, <2>4, <2>5, <2>6
<1> QED
  BY <1>6, <1>7

LEMMA OutsideStep ==
  ASSUME Inductive,
         Crash \/ Start \/ (\E s \in Slot : FlowsChange(s)) \/ Tick \/ UNCHANGED vars
  PROVE  Inductive'
<1> USE DEF Inductive
<1>1. CASE Crash
  <2>1. FreshHealth \in [Interface -> Health] /\ FreshSlots \in [Slot -> SlotState]
    BY ConstantTypes, NotMeasuredType DEF FreshHealth, FreshSlots
  <2>2. TypeOK' /\ VerdictCounted' /\ DeadIsFresh'
    BY <1>1, <2>1, ThresholdAssumption
    DEF Crash, TypeOK, Repoint, VerdictCounted, FreshHealth, NotMeasured, DeadIsFresh,
        FreshSlots
  <2>3. DeadlineKept' /\ RepointSound' /\ RoutesFollowManager'
    BY <1>1 DEF Crash, DeadlineKept, RepointSound, RoutesFollowManager
  <2>4. HandledNotFailed'
    BY <1>1, ConstantTypes
    DEF Crash, HandledNotFailed, CurrentFailed, FreshHealth, FreshSlots, NotMeasured
  <2>5. DeadlineAfterRemap'
    BY <1>1 DEF Crash, DeadlineAfterRemap, FreshSlots, Confirmed
  <2> QED
    BY <2>2, <2>3, <2>4, <2>5
<1>2. CASE Start
  <2>1. /\ slots = FreshSlots /\ recoveryStarted = {} /\ repoint = NoRepoint
        /\ UNCHANGED <<health, slots, recoveryStarted, pending, repoint, flows, sinceRemap>>
        /\ running' = TRUE /\ routes' = DesiredRoutes
    BY <1>2 DEF Start, DeadIsFresh
  <2>2. TypeOK'
    BY <2>1, ConstantTypes DEF TypeOK, DesiredRoutes
  <2>3. VerdictCounted' /\ DeadlineKept' /\ RepointSound' /\ DeadIsFresh'
    BY <2>1 DEF VerdictCounted, DeadlineKept, RepointSound, DeadIsFresh
  <2>4. RoutesFollowManager'
    BY <2>1, ConstantTypes DEF RoutesFollowManager, DesiredRoutes, FreshSlots
  <2>5. HandledNotFailed' /\ DeadlineAfterRemap'
    BY <2>1 DEF HandledNotFailed, CurrentFailed, DeadlineAfterRemap
  <2> QED
    BY <2>2, <2>3, <2>4, <2>5
<1>3. CASE \/ \E s \in Slot : FlowsChange(s)
           \/ UNCHANGED vars
  <2>1. /\ UNCHANGED <<running, health, slots, recoveryStarted, pending, repoint,
                       routes, sinceRemap>>
        /\ flows' \in [Slot -> BOOLEAN]
    BY <1>3 DEF FlowsChange, vars, TypeOK
  <2>2. TypeOK' /\ VerdictCounted' /\ RepointSound' /\ RoutesFollowManager' /\ DeadIsFresh'
    BY <2>1
    DEF TypeOK, VerdictCounted, RepointSound, RoutesFollowManager, Repointing, DeadIsFresh
  <2>3. DeadlineKept' /\ HandledNotFailed' /\ DeadlineAfterRemap'
    BY <2>1
    DEF DeadlineKept, JustRemapped, HandledNotFailed, CurrentFailed, DeadlineAfterRemap
  <2> QED
    BY <2>2, <2>3
<1>4. CASE Tick
  <2>1. /\ UNCHANGED <<running, recoveryStarted, pending, repoint, routes, flows>>
        /\ health' = [i \in Interface |-> Aged(health[i])]
        /\ slots' = [s \in Slot |-> Drained(slots[s])]
        /\ sinceRemap' = [s \in Slot |-> UpTo(sinceRemap[s] + 1, DrainTimeout)]
    BY <1>4 DEF Tick
  <2>2. /\ health' \in [Interface -> Health]
        /\ \A i \in Interface : /\ health'[i].state = health[i].state
                                /\ health'[i].failures = health[i].failures
    BY <2>1, AgedType DEF TypeOK
  <2>3. ASSUME NEW s \in Slot
        PROVE  /\ slots'[s] \in SlotState
               /\ slots'[s].current = slots[s].current
               /\ slots'[s].previous = slots[s].previous
               /\ slots'[s].emergency = slots[s].emergency
               /\ slots'[s].drain = IF slots[s].drain > 0 THEN slots[s].drain - 1
                                    ELSE slots[s].drain
               /\ slots[s].drain \in NoDeadline..DrainTimeout
    <3>1. slots[s] \in SlotState
      BY DEF TypeOK
    <3>2. slots'[s] = [slots[s] EXCEPT !.drain = IF slots[s].drain > 0 THEN slots[s].drain - 1
                                                 ELSE slots[s].drain]
      BY <2>1 DEF Drained
    <3> DEFINE left == IF slots[s].drain > 0 THEN slots[s].drain - 1 ELSE slots[s].drain
    <3>3. left \in NoDeadline..DrainTimeout
      BY <3>1, ConstantTypes DEF SlotState, NoDeadline
    <3> HIDE DEF left
    <3>4. slots'[s] = [slots[s] EXCEPT !.drain = left]
      BY <3>2 DEF left
    <3>5. slots'[s] \in SlotState /\ slots'[s].drain = left
      BY <3>1, <3>3, <3>4 DEF SlotState
    <3> QED
      BY <3>1, <3>4, <3>5 DEF SlotState, left
  <2>4. slots' \in [Slot -> SlotState]
    BY <2>1, <2>3
  <2>5. \A s \in Slot : slots[s].current \in Interface /\ slots[s].previous \in Interface
    BY DEF TypeOK, SlotState
  <2>6. sinceRemap' \in [Slot -> 0..DrainTimeout]
    BY <2>1, ConstantTypes DEF UpTo, TypeOK
  <2>7. TypeOK'
    BY <2>1, <2>2, <2>4, <2>6 DEF TypeOK
  <2>8. VerdictCounted' /\ RepointSound'
    <3>1. repoint # NoRepoint => repoint.slot \in Slot /\ repoint.device \in Interface
      BY DEF TypeOK, Repoint
    <3> QED
      BY <2>1, <2>2, <2>3, <3>1 DEF VerdictCounted, RepointSound
  <2>9. DeadlineKept' /\ HandledNotFailed'
    <3>1. \A s \in Slot : slots'[s].drain = NoDeadline <=> slots[s].drain = NoDeadline
      BY <2>3, ConstantTypes DEF NoDeadline
    <3>2. \A s \in Slot : JustRemapped(s)' <=> JustRemapped(s)
      BY <2>1, <2>2, <2>3, <2>5 DEF CurrentFailed, JustRemapped
    <3>3. recoveryStarted \subseteq Slot
      BY DEF TypeOK
    <3>4. DeadlineKept'
      BY <2>1, <2>3, <3>1, <3>2, <3>3 DEF DeadlineKept
    <3>5. HandledNotFailed'
      <4> SUFFICES ASSUME NEW s \in Slot \ pending, CurrentFailed(s)',
                          NEW i \in Interface
                   PROVE  health'[i].state # "HEALTHY"
        BY <2>1 DEF HandledNotFailed
      <4>1. CurrentFailed(s)
        BY <2>2, <2>3, <2>5 DEF CurrentFailed
      <4> QED
        BY <2>2, <4>1 DEF HandledNotFailed
    <3> QED
      BY <3>4, <3>5
  <2>10. RoutesFollowManager'
    BY <2>1, <2>3 DEF RoutesFollowManager, Repointing
  <2>11. DeadlineAfterRemap'
    <3> SUFFICES ASSUME NEW s \in Slot, slots'[s].drain # NoDeadline
                 PROVE  sinceRemap'[s] + slots'[s].drain >= DrainTimeout
      BY DEF DeadlineAfterRemap
    <3>1. slots[s].drain # NoDeadline
      BY <2>3, ConstantTypes DEF NoDeadline
    <3>2. sinceRemap[s] + slots[s].drain >= DrainTimeout /\ sinceRemap[s] \in 0..DrainTimeout
      BY <3>1 DEF DeadlineAfterRemap, TypeOK
    <3>3. sinceRemap'[s] = UpTo(sinceRemap[s] + 1, DrainTimeout)
      BY <2>1
    <3> QED
      BY <2>3, <3>1, <3>2, <3>3, ConstantTypes DEF UpTo, NoDeadline
  <2>12. DeadIsFresh'
    <3>1. slots = FreshSlots => slots' = FreshSlots
      BY <2>1 DEF FreshSlots, Confirmed, Drained, NoDeadline
    <3> QED
      BY <2>1, <3>1 DEF DeadIsFresh
  <2> QED
    BY <2>7, <2>8, <2>9, <2>10, <2>11, <2>12
<1> QED
  BY <1>1, <1>2, <1>3, <1>4

(***************************************************************************)
(* Every step of the monitor, of the clock and of its surroundings keeps   *)
(* the inductive invariant.                                                *)
(***************************************************************************)
LEMMA InductiveStep == Inductive /\ [Next]_vars => Inductive'
<1> SUFFICES ASSUME Inductive, [Next]_vars PROVE Inductive'
  OBVIOUS
<1>1. ASSUME NEW probe \in [Answering -> ProbeResult], Observe(probe) PROVE Inductive'
  BY <1>1, ObserveStep
<1>2. ASSUME NEW s \in Slot, SlotStep(s) PROVE Inductive'
  <2>1. CASE Remap(s)
    BY <2>1, RemapSteps
  <2>2. CASE BeginRecovery(s)
    BY <2>2, BeginRecoveryStep
  <2>3. ASSUME NEW listed \in {TRUE, ~CountMayFail}, Restore(s, listed) PROVE Inductive'
    BY <2>3, RestoreSteps
  <2>4. ASSUME NEW listed \in {TRUE, ~CountMayFail}, AwaitDrain(s, listed) PROVE Inductive'
    BY <2>4, IdleTurnStep
  <2>5. CASE NoReplacement(s) \/ Confirm(s) \/ PreviousUnwell(s)
    BY <2>5, IdleTurnStep
  <2> QED
    BY <1>2, <2>1, <2>2, <2>3, <2>4, <2>5 DEF SlotStep
<1>3. CASE ReplaceRoute
  BY <1>3, ReplaceRouteStep
<1>4. CASE \/ Crash \/ Start \/ (\E s \in Slot : FlowsChange(s)) \/ Tick
           \/ UNCHANGED vars
  BY <1>4, OutsideStep
<1> QED
  BY <1>1, <1>2, <1>3, <1>4 DEF Next, Untimed, Monitor

\* The inductive invariant holds in every reachable state.
THEOREM SpecInductive == Spec => []Inductive
<1> QED
  BY InitInductive, InductiveStep, PTL DEF Spec

(***************************************************************************)
(* Safety of the failover monitor.                                         *)
(***************************************************************************)
\* Every variable of the monitor keeps its type (edge_failover_runtime.py).
THEOREM SpecTypeOK == Spec => []TypeOK
<1>1. Inductive => TypeOK
  BY DEF Inductive
<1> QED
  BY <1>1, SpecInductive, PTL

\* A failback that was begun towards a HEALTHY target always has a drain
\* deadline, so complete_recovery cannot answer None for ever.
THEOREM SpecDrainArmed == Spec => []DrainArmed
<1>1. Inductive => DrainArmed
  <2> SUFFICES ASSUME Inductive, NEW s \in Slot, slots[s].emergency,
                      s \in recoveryStarted, PreviousHealthy(s),
                      slots[s].drain = NoDeadline
               PROVE  FALSE
    BY DEF DrainArmed
  <2>1. JustRemapped(s)
    BY DEF Inductive, DeadlineKept
  <2> QED
    BY <2>1 DEF JustRemapped, PreviousHealthy
<1> QED
  BY <1>1, SpecInductive, PTL

\* Between repoints the kernel routes every prefix of a slot over the tunnel
\* the manager holds as current.
THEOREM SpecRoutesFollowManager == Spec => []RoutesFollowManager
<1>1. Inductive => RoutesFollowManager
  BY DEF Inductive
<1> QED
  BY <1>1, SpecInductive, PTL

\* No round ends with a slot on a FAILED tunnel while any tunnel is HEALTHY.
THEOREM SpecFailedOnlyWhenStranded == Spec => []FailedOnlyWhenStranded
<1>1. Inductive => FailedOnlyWhenStranded
  BY DEF Inductive, HandledNotFailed, FailedOnlyWhenStranded, RoundOver
<1> QED
  BY <1>1, SpecInductive, PTL

\* No route command steers a prefix onto a tunnel that is not HEALTHY.
THEOREM SpecMovesOntoHealthy == Spec => MovesOntoHealthy
<1> DEFINE Moves ==
      running /\ running' =>
        \A s \in Slot, p \in Prefix :
          routes'[s][p] # routes[s][p] => health[routes'[s][p]].state = "HEALTHY"
<1>1. Inductive /\ [Next]_vars => [Moves]_vars
  <2> SUFFICES ASSUME Inductive, Next, running, running',
                      NEW s \in Slot, NEW p \in Prefix,
                      routes'[s][p] # routes[s][p]
               PROVE  health[routes'[s][p]].state = "HEALTHY"
    OBVIOUS
  <2>1. ReplaceRoute
    BY DEF Next, Untimed, Monitor, Observe, SlotStep, Remap, NoReplacement, Confirm,
           PreviousUnwell, BeginRecovery, AwaitDrain, Restore, Crash, Start, FlowsChange, Tick
  <2>2. /\ repoint.slot \in Slot /\ repoint.next \in Prefix
        /\ health[repoint.device].state = "HEALTHY"
        /\ routes' = [routes EXCEPT ![repoint.slot][repoint.next] = repoint.device]
        /\ routes \in [Slot -> [Prefix -> Interface]]
    BY <2>1 DEF ReplaceRoute, Inductive, RepointSound, TypeOK, Repoint
  <2>3. routes'[s][p] = repoint.device
    BY <2>2
  <2> QED
    BY <2>2, <2>3
<1> QED
  BY <1>1, SpecInductive, PTL DEF Spec, MovesOntoHealthy

\* As long as the conntrack listing works, a slot is taken back under flows
\* only a whole drain timeout after it was last remapped.
THEOREM SpecDrainHonoured ==
  ASSUME CountMayFail = FALSE
  PROVE  Spec => DrainHonoured
<1> DEFINE Honoured ==
      \A s \in Slot : RestoreStep(s) /\ flows[s] => sinceRemap[s] = DrainTimeout
<1>1. Inductive /\ [Next]_vars => [Honoured]_vars
  <2> SUFFICES ASSUME Inductive, Next, NEW s \in Slot, RestoreStep(s), flows[s]
               PROVE  sinceRemap[s] = DrainTimeout
    OBVIOUS
  <2>1. slots[s].emergency /\ ~slots'[s].emergency /\ running' /\ slots[s] \in SlotState
        /\ slots \in [Slot -> SlotState]
    BY DEF RestoreStep, Inductive, TypeOK
  <2>2. Restore(s, TRUE)
    <3>1. ASSUME NEW t \in Slot, NEW listed \in {TRUE, ~CountMayFail}, Restore(t, listed)
          PROVE  Restore(s, TRUE)
      <4>1. t = s
        BY <2>1, <3>1 DEF Restore
      <4> QED
        BY <3>1, <4>1
    <3>2. ASSUME NEW t \in Slot, BeginRecovery(t) PROVE FALSE
      <4>1. slots' = [slots EXCEPT ![t] = [slots[t] EXCEPT !.drain = DrainTimeout]]
        BY <3>2 DEF BeginRecovery, InEmergency, RecoveryBegun
      <4>2. slots'[s].emergency = slots[s].emergency
        BY <2>1, <4>1 DEF SlotState
      <4> QED
        BY <2>1, <4>2
    <3>3. ASSUME NEW t \in Slot, Remap(t) PROVE FALSE
      <4>1. slots' = [slots EXCEPT ![t] = Remapped(slots[t], Resolve(t, health))]
        BY <3>3 DEF Remap
      <4> QED
        BY <2>1, <4>1 DEF Remapped
    <3>4. CASE Tick
      <4>1. slots'[s] = [slots[s] EXCEPT !.drain = IF slots[s].drain > 0 THEN slots[s].drain - 1
                                                   ELSE slots[s].drain]
        BY <3>4 DEF Tick, Drained
      <4>2. slots'[s].emergency = slots[s].emergency
        BY <2>1, <4>1 DEF SlotState
      <4> QED
        BY <2>1, <4>2
    <3>5. CASE \/ \E probe \in [Answering -> ProbeResult] : Observe(probe)
               \/ \E t \in Slot : \/ NoReplacement(t) \/ Confirm(t) \/ PreviousUnwell(t)
                                \/ \E listed \in {TRUE, ~CountMayFail} : AwaitDrain(t, listed)
               \/ ReplaceRoute \/ Crash \/ Start \/ \E t \in Slot : FlowsChange(t)
      BY <2>1, <3>5
      DEF Observe, NoReplacement, Confirm, PreviousUnwell, AwaitDrain, ReplaceRoute, Crash,
          Start, FlowsChange
    <3> QED
      BY <3>1, <3>2, <3>3, <3>4, <3>5 DEF Next, Untimed, Monitor, SlotStep
  <2>3. slots[s].drain = 0
    BY <2>2 DEF Restore, DrainOver, CountsActive
  <2>4. sinceRemap[s] + 0 >= DrainTimeout /\ sinceRemap[s] \in 0..DrainTimeout
    BY <2>3 DEF Inductive, DeadlineAfterRemap, TypeOK, NoDeadline
  <2> QED
    BY <2>4, ConstantTypes
<1> QED
  BY <1>1, SpecInductive, PTL DEF Spec, DrainHonoured

\* A slot leaves its own transport, and the preferred hub, only when it has to.
THEOREM SpecLeastDisplacement == Spec => LeastDisplacement
<1> DEFINE Unwell(i) == health[i].state # "HEALTHY"
           Least(s) ==
             LET new == slots'[s].current
             IN  /\ new.transport # s =>
                      \A hub \in Hub : Unwell([hub |-> hub, transport |-> s])
                 /\ new.hub # Preferred =>
                      Unwell([hub |-> Preferred, transport |-> new.transport])
<1>1. Inductive /\ [Next]_vars => [\A s \in Slot : RemapStep(s) => Least(s)]_vars
  <2> SUFFICES ASSUME Inductive, Next, NEW s \in Slot, RemapStep(s)
               PROVE  Least(s)
    OBVIOUS
  <2>1. /\ slots'[s].emergency /\ slots'[s].current # slots[s].current
        /\ slots[s] \in SlotState /\ slots \in [Slot -> SlotState]
    BY DEF RemapStep, Inductive, TypeOK
  <2>2. Remap(s)
    <3>1. ASSUME NEW t \in Slot, Remap(t) PROVE Remap(s)
      <4>1. t = s
        BY <2>1, <3>1 DEF Remap
      <4> QED
        BY <3>1, <4>1
    <3>2. ASSUME NEW t \in Slot, BeginRecovery(t) PROVE FALSE
      <4>1. slots' = [slots EXCEPT ![t] = [slots[t] EXCEPT !.drain = DrainTimeout]]
        BY <3>2 DEF BeginRecovery, InEmergency, RecoveryBegun
      <4>2. slots'[s].current = slots[s].current
        BY <2>1, <4>1 DEF SlotState
      <4> QED
        BY <2>1, <4>2
    <3>3. ASSUME NEW t \in Slot, NEW listed \in {TRUE, ~CountMayFail}, Restore(t, listed)
          PROVE  FALSE
      <4>1. slots' = [slots EXCEPT ![t] = Restored(slots[t])]
        BY <3>3 DEF Restore
      <4> QED
        BY <2>1, <4>1 DEF Restored, Confirmed
    <3>4. CASE Tick
      <4>1. slots'[s] = [slots[s] EXCEPT !.drain = IF slots[s].drain > 0 THEN slots[s].drain - 1
                                                   ELSE slots[s].drain]
        BY <3>4 DEF Tick, Drained
      <4>2. slots'[s].current = slots[s].current
        BY <2>1, <4>1 DEF SlotState
      <4> QED
        BY <2>1, <4>2
    <3>5. CASE Crash
      BY <2>1, <3>5 DEF Crash, FreshSlots, Confirmed
    <3>6. CASE \/ \E probe \in [Answering -> ProbeResult] : Observe(probe)
               \/ \E t \in Slot : \/ NoReplacement(t) \/ Confirm(t) \/ PreviousUnwell(t)
                                \/ \E listed \in {TRUE, ~CountMayFail} : AwaitDrain(t, listed)
               \/ ReplaceRoute \/ Start \/ \E t \in Slot : FlowsChange(t)
      BY <2>1, <3>6
      DEF Observe, NoReplacement, Confirm, PreviousUnwell, AwaitDrain, ReplaceRoute, Start,
          FlowsChange
    <3> QED
      BY <3>1, <3>2, <3>3, <3>4, <3>5, <3>6 DEF Next, Untimed, Monitor, SlotStep
  <2> DEFINE new == Resolve(s, health)
  <2>3. /\ new \in Candidates(health)
        /\ \A j \in Candidates(health) : Precedes(s, new, j)
        /\ slots'[s].current = new
    <3>1. s \in Transport
      BY RuntimeAssumption
    <3>2. Candidates(health) # {} /\ slots'[s].current = new
      BY <2>1, <2>2 DEF Remap, Remapped
    <3> QED
      BY <3>1, <3>2, ResolveFirst
  <2>4. \A j \in Interface : ~Unwell(j) => j \in Candidates(health)
    BY HubNeverVetoes DEF Candidates, Inductive, TypeOK
  <2>5. new \in Interface
    BY <2>3 DEF Candidates
  <2> HIDE DEF new
  <2>6. new.transport \in Transport /\ new.hub \in Hub /\ s \in Transport
    BY <2>5, RuntimeAssumption DEF Interface
  <2>7. ASSUME new.transport # s, NEW hub \in Hub
        PROVE  Unwell([hub |-> hub, transport |-> s])
    <3> DEFINE j == [hub |-> hub, transport |-> s]
    <3>1. j \in Interface
      BY <2>6 DEF Interface
    <3>2. Rank(s, j.transport) = 0 /\ Rank(s, new.transport) \in Nat \ {0}
      BY <2>6, <2>7, ResolverAssumption DEF Rank
    <3>3. ~Precedes(s, new, j)
      BY <2>7, <3>2 DEF Precedes
    <3> QED
      BY <2>3, <2>4, <3>1, <3>3
  <2>8. ASSUME new.hub # Preferred
        PROVE  Unwell([hub |-> Preferred, transport |-> new.transport])
    <3> DEFINE j == [hub |-> Preferred, transport |-> new.transport]
    <3>1. j \in Interface
      BY <2>6 DEF Interface, Hub
    <3>2. Rank(s, new.transport) \in Nat
      BY <2>6, RankType
    <3>3. ~Precedes(s, new, j)
      BY <2>8, <3>2, ResolverAssumption DEF Precedes
    <3> QED
      BY <2>3, <2>4, <3>1, <3>3
  <2> QED
    BY <2>3, <2>7, <2>8
<1> QED
  BY <1>1, SpecInductive, PTL DEF Spec, LeastDisplacement
=============================================================================
