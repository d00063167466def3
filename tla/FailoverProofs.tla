--------------------------- MODULE FailoverProofs ---------------------------
(***************************************************************************)
(* Theorems about TunnelMonitor, LocalFailover and RouteOwnership: for     *)
(* every threshold, hold-down, staleness bound and number of probes; for   *)
(* every set of slots, targets and event ids, every initial assignment and *)
(* drain timeout; for every set of coordinators, pair of hubs and bound on *)
(* the epochs.                                                             *)
(***************************************************************************)
EXTENDS TunnelMonitor, LocalFailover, RouteOwnership, FiniteSetTheorems, TLAPS

-----------------------------------------------------------------------------
(***************************************************************************)
(* The machine keeps two saturating counters and a deadline; they stand    *)
(* for the runs of failed and of successful probes at the end of what was  *)
(* accepted, and for the time since the last failure.                      *)
(***************************************************************************)
InOrder == \A a \in accepted : a.seq <= lastSequence

CountersStandForRuns ==
  /\ health.failures = UpTo(Cardinality(TrailingFailures), FailedFailures)
  /\ health.successes = UpTo(Cardinality(TrailingSuccesses), RecoverySuccesses)

Accounted ==
  /\ MonitorTypeOK
  /\ IsFiniteSet(taken) /\ IsFiniteSet(accepted)
  /\ InOrder
  /\ CountersStandForRuns
  /\ health.state = "FAILED" <=> health.failures = FailedFailures
  /\ health.hold + quiet = HoldDown

LEMMA HealthType ==
  ASSUME NEW h \in Health
  PROVE  /\ NotMeasured \in Health
         /\ AfterUsable(h) \in Health
         /\ AfterUnusable(h) \in Health
         /\ Aged(h) \in Health
BY ThresholdAssumption
DEF NotMeasured, AfterUsable, AfterUnusable, Aged, Health, TunnelState, UpTo, RecoveryComplete

(***************************************************************************)
(* Counting with a bound commutes with adding one element.                 *)
(***************************************************************************)
LEMMA CountOneMore ==
  ASSUME NEW S, NEW x, IsFiniteSet(S), x \notin S, NEW bound \in Nat
  PROVE  UpTo(UpTo(Cardinality(S), bound) + 1, bound) = UpTo(Cardinality(S \cup {x}), bound)
<1>1. Cardinality(S) \in Nat
  BY FS_CardinalityType
<1>2. Cardinality(S \cup {x}) = Cardinality(S) + 1
  BY FS_AddElement
<1> QED
  BY <1>1, <1>2 DEF UpTo

LEMMA TrailingFinite ==
  ASSUME IsFiniteSet(accepted)
  PROVE  /\ Cardinality(TrailingFailures) \in Nat
         /\ Cardinality(TrailingSuccesses) \in Nat
         /\ IsFiniteSet(TrailingFailures) /\ IsFiniteSet(TrailingSuccesses)
<1>1. TrailingFailures \in SUBSET accepted /\ TrailingSuccesses \in SUBSET accepted
  BY DEF TrailingFailures, TrailingSuccesses
<1> QED
  BY <1>1, FS_Subset, FS_CardinalityType

LEMMA AccountedInit ==
  ASSUME MonitorAssumption, MonitorInit
  PROVE  Accounted
<1>1. accepted = {} /\ taken = {} /\ health = NotMeasured /\ quiet = HoldDown /\ lastSequence = -1
  BY DEF MonitorInit
<1>2. TrailingFailures = {} /\ TrailingSuccesses = {}
  BY <1>1 DEF TrailingFailures, TrailingSuccesses
<1>3. IsFiniteSet({}) /\ Cardinality({}) = 0
  BY FS_EmptySet
<1>4. MonitorTypeOK
  BY <1>1, ThresholdAssumption DEF MonitorTypeOK, NotMeasured, Health, TunnelState
<1> QED
  BY <1>1, <1>2, <1>3, <1>4, ThresholdAssumption
  DEF Accounted, InOrder, CountersStandForRuns, NotMeasured, UpTo

LEMMA TakeSampleStep ==
  ASSUME MonitorAssumption, Accounted, NEW usable \in BOOLEAN, TakeSample(usable)
  PROVE  Accounted'
<1> DEFINE new == [seq |-> Cardinality(taken) + 1, usable |-> usable, age |-> 0]
<1>1. Cardinality(taken) \in Nat /\ IsFiniteSet(taken)
  BY FS_CardinalityType DEF Accounted
<1>2. taken' = taken \cup {new} /\ Cardinality(taken) < MaxSequence
  BY DEF TakeSample
<1>3. new \in Sample
  BY <1>1, <1>2 DEF Sample, Sequence, MonitorAssumption
<1>4. IsFiniteSet(taken')
  BY <1>1, <1>2, FS_AddElement
<1>5. MonitorTypeOK'
  BY <1>2, <1>3 DEF TakeSample, Accounted, MonitorTypeOK
<1> QED
  BY <1>4, <1>5
  DEF TakeSample, Accounted, InOrder, CountersStandForRuns, TrailingFailures, TrailingSuccesses

(***************************************************************************)
(* What one accepted sample does to the two runs: it lengthens its own and *)
(* ends the other.                                                         *)
(***************************************************************************)
LEMMA RunsAfterObserve ==
  ASSUME Accounted, NEW sample \in taken, Observe(sample)
  PROVE  LET new == [seq |-> sample.seq, usable |-> sample.usable]
         IN  /\ new \in Accepted /\ new \notin accepted
             /\ accepted' = accepted \cup {new}
             /\ sample.usable =>
                  /\ TrailingFailures' = {}
                  /\ TrailingSuccesses' = TrailingSuccesses \cup {new}
             /\ ~sample.usable =>
                  /\ TrailingFailures' = TrailingFailures \cup {new}
                  /\ TrailingSuccesses' = {}
<1> DEFINE new == [seq |-> sample.seq, usable |-> sample.usable]
<1>1. sample.seq \in Sequence /\ sample.usable \in BOOLEAN
  BY DEF Accounted, MonitorTypeOK, Sample
<1>2. \A a \in accepted : a.seq \in Int /\ a.usable \in BOOLEAN /\ a.seq < sample.seq
  BY <1>1 DEF Accounted, MonitorTypeOK, InOrder, Accepted, Sequence, Observe, Fresh
<1>3. accepted' = accepted \cup {new}
  BY DEF Observe
<1>4. new \in Accepted /\ new \notin accepted
  BY <1>1, <1>2 DEF Accepted, Sequence
<1> DEFINE Run(usable) == {a \in accepted : \A b \in accepted : b.seq >= a.seq => b.usable = usable}
           RunAfter(usable) ==
             {a \in accepted' : \A b \in accepted' : b.seq >= a.seq => b.usable = usable}
<1>5. new.seq = sample.seq /\ new.usable = sample.usable /\ sample.seq \in Int
  BY <1>1 DEF Sequence
<1> HIDE DEF new
<1>6. ASSUME NEW usable \in BOOLEAN, usable = new.usable
      PROVE  RunAfter(usable) = Run(usable) \cup {new}
  <2>1. new \in RunAfter(usable)
    BY <1>2, <1>3, <1>5, <1>6
  <2>2. ASSUME NEW a \in accepted
        PROVE  a \in RunAfter(usable) <=> a \in Run(usable)
    BY <1>2, <1>3, <1>5, <1>6
  <2> QED
    BY <1>3, <2>1, <2>2
<1>7. ASSUME NEW usable \in BOOLEAN, usable # new.usable
      PROVE  RunAfter(usable) = {}
  BY <1>2, <1>3, <1>5, <1>7
<1>8. /\ TrailingFailures = Run(FALSE) /\ TrailingSuccesses = Run(TRUE)
      /\ TrailingFailures' = RunAfter(FALSE) /\ TrailingSuccesses' = RunAfter(TRUE)
  BY <1>1, <1>2, <1>3, <1>5 DEF TrailingFailures, TrailingSuccesses
<1> QED
  BY <1>1, <1>3, <1>4, <1>5, <1>6, <1>7, <1>8 DEF new

LEMMA ObserveStep ==
  ASSUME MonitorAssumption, Accounted, NEW sample \in taken, Observe(sample)
  PROVE  Accounted'
<1> DEFINE new == [seq |-> sample.seq, usable |-> sample.usable]
<1>1. /\ new \in Accepted /\ new \notin accepted
      /\ accepted' = accepted \cup {new}
      /\ sample.usable =>
           TrailingFailures' = {} /\ TrailingSuccesses' = TrailingSuccesses \cup {new}
      /\ ~sample.usable =>
           TrailingFailures' = TrailingFailures \cup {new} /\ TrailingSuccesses' = {}
  BY RunsAfterObserve
<1>2. health \in Health /\ sample.usable \in BOOLEAN /\ sample.seq \in Sequence
  BY DEF Accounted, MonitorTypeOK, Sample
<1>3. IsFiniteSet(TrailingFailures) /\ IsFiniteSet(TrailingSuccesses)
  BY TrailingFinite DEF Accounted
<1>4. new \notin TrailingFailures /\ new \notin TrailingSuccesses
  BY <1>1 DEF TrailingFailures, TrailingSuccesses
<1>5. MonitorTypeOK'
  BY <1>1, <1>2, HealthType, ThresholdAssumption DEF Observe, Accounted, MonitorTypeOK
<1>6. IsFiniteSet(taken)' /\ IsFiniteSet(accepted)'
  BY <1>1, FS_AddElement DEF Observe, Accounted
<1>7. InOrder'
  BY <1>1, <1>2 DEF InOrder, Observe, Fresh, Accounted, MonitorTypeOK, Accepted, Sequence
<1>8. Cardinality({}) = 0
  BY FS_EmptySet
<1>9. CASE sample.usable
  <2>1. health' = AfterUsable(health) /\ quiet' = quiet
    BY <1>9 DEF Observe
  <2>2. health'.successes = UpTo(Cardinality(TrailingSuccesses'), RecoverySuccesses)
    <3>1. health'.successes = UpTo(health.successes + 1, RecoverySuccesses)
      BY <2>1 DEF AfterUsable
    <3>2. health.successes = UpTo(Cardinality(TrailingSuccesses), RecoverySuccesses)
      BY DEF Accounted, CountersStandForRuns
    <3>3. UpTo(UpTo(Cardinality(TrailingSuccesses), RecoverySuccesses) + 1, RecoverySuccesses)
            = UpTo(Cardinality(TrailingSuccesses \cup {new}), RecoverySuccesses)
      BY <1>3, <1>4, CountOneMore, ThresholdAssumption
    <3> QED
      BY <1>1, <1>9, <3>1, <3>2, <3>3
  <2>3. health'.failures = 0 /\ health'.hold = health.hold /\ health'.state # "FAILED"
    BY <2>1 DEF AfterUsable
  <2>4. UpTo(Cardinality(TrailingFailures'), FailedFailures) = 0
    BY <1>1, <1>8, <1>9, ThresholdAssumption DEF UpTo
  <2> QED
    BY <1>5, <1>6, <1>7, <2>1, <2>2, <2>3, <2>4, ThresholdAssumption
    DEF Accounted, CountersStandForRuns
<1>10. CASE ~sample.usable
  <2>1. health' = AfterUnusable(health) /\ quiet' = 0
    BY <1>10 DEF Observe
  <2>2. health'.failures = UpTo(Cardinality(TrailingFailures'), FailedFailures)
    BY <1>1, <1>3, <1>4, <1>10, <2>1, CountOneMore, ThresholdAssumption
    DEF AfterUnusable, Accounted, CountersStandForRuns
  <2>3. health'.successes = 0 /\ health'.hold = HoldDown
    BY <2>1 DEF AfterUnusable
  <2>4. UpTo(Cardinality(TrailingSuccesses'), RecoverySuccesses) = 0
    BY <1>1, <1>8, <1>10, ThresholdAssumption DEF UpTo
  <2>5. health'.state = "FAILED" <=> health'.failures = FailedFailures
    BY <1>2, <2>1, ThresholdAssumption DEF AfterUnusable, UpTo, Health, Accounted
  <2> QED
    BY <1>5, <1>6, <1>7, <2>1, <2>2, <2>3, <2>4, <2>5, ThresholdAssumption
    DEF Accounted, CountersStandForRuns
<1> QED
  BY <1>2, <1>9, <1>10

LEMMA TickStep ==
  ASSUME MonitorAssumption, Accounted, Tick
  PROVE  Accounted'
<1> DEFINE Older(s) == [s EXCEPT !.age = UpTo(@ + 1, StaleAfter + 1)]
           older == [s \in taken |-> Older(s)]
<1>1. taken' = {Older(s) : s \in taken}
  BY DEF Tick
<1>2. \A s \in taken : Older(s) \in Sample
  BY DEF Accounted, MonitorTypeOK, Sample, UpTo, MonitorAssumption
<1>3. IsFiniteSet(taken')
  <2>1. older \in Surjection(taken, taken')
    BY <1>1 DEF Surjection
  <2> QED
    BY <2>1, FS_Surjection DEF Accounted
<1>4. health' = Aged(health) /\ health \in Health /\ quiet \in 0..HoldDown
  BY DEF Tick, Accounted, MonitorTypeOK
<1>5. health'.hold + quiet' = HoldDown /\ quiet' \in 0..HoldDown
  BY <1>4, ThresholdAssumption DEF Tick, Aged, UpTo, Health, Accounted
<1>6. /\ health'.state = health.state
      /\ health'.failures = health.failures
      /\ health'.successes = health.successes
  BY <1>4 DEF Aged, Health
<1>7. MonitorTypeOK'
  BY <1>1, <1>2, <1>4, <1>5, HealthType DEF Tick, Accounted, MonitorTypeOK
<1> QED
  BY <1>3, <1>5, <1>6, <1>7
  DEF Tick, Accounted, InOrder, CountersStandForRuns, TrailingFailures, TrailingSuccesses

LEMMA AccountedStep ==
  ASSUME MonitorAssumption, Accounted, [MonitorNext]_monitorVars
  PROVE  Accounted'
<1>1. ASSUME UNCHANGED monitorVars
      PROVE  Accounted'
  BY <1>1
  DEF monitorVars, Accounted, MonitorTypeOK, InOrder, CountersStandForRuns, TrailingFailures, TrailingSuccesses
<1> QED
  BY <1>1, TakeSampleStep, ObserveStep, TickStep DEF MonitorNext, RejectStale

THEOREM SpecAccounted ==
  ASSUME MonitorAssumption
  PROVE  MonitorSpec => []Accounted
<1>1. MonitorInit => Accounted
  BY AccountedInit
<1>2. Accounted /\ [MonitorNext]_monitorVars => Accounted'
  BY AccountedStep
<1> QED
  BY <1>1, <1>2, PTL DEF MonitorSpec

(***************************************************************************)
(* A tunnel is FAILED exactly while the last FailedFailures probes or more *)
(* failed, in the order they were taken, however late, often or disordered *)
(* they were delivered (tunnel_health.py:75-97).                           *)
(***************************************************************************)
THEOREM SpecFailedOnEvidence ==
  ASSUME MonitorAssumption
  PROVE  MonitorSpec => []FailedOnEvidence
<1>1. Accounted => FailedOnEvidence
  BY TrailingFinite, ThresholdAssumption
  DEF Accounted, CountersStandForRuns, UpTo, FailedOnEvidence
<1> QED
  BY <1>1, SpecAccounted, PTL

(***************************************************************************)
(* A RECOVERING tunnel turns HEALTHY only on RecoverySuccesses successes   *)
(* in a row and HoldDown ticks without a failure (tunnel_health.py:84-88). *)
(***************************************************************************)
THEOREM SpecRecoveryEarned ==
  ASSUME MonitorAssumption
  PROVE  MonitorSpec => RecoveryEarned
<1> DEFINE Earned == Cardinality(TrailingSuccesses') >= RecoverySuccesses /\ quiet = HoldDown
<1>1. ASSUME Accounted, Accounted', [MonitorNext]_monitorVars,
             health.state = "RECOVERING", health'.state = "HEALTHY"
      PROVE  Earned
  <2>1. PICK sample \in taken : Observe(sample)
    <3>1. ~Tick
      BY <1>1 DEF Tick, Aged, Accounted, MonitorTypeOK, Health
    <3> QED
      BY <1>1, <3>1 DEF MonitorNext, TakeSample, RejectStale, monitorVars
  <2>2. health \in Health
    BY <1>1 DEF Accounted, MonitorTypeOK
  <2>3. health' = AfterUsable(health)
    BY <1>1, <2>1, <2>2, ThresholdAssumption DEF Observe, AfterUnusable, Health
  <2>4. health'.successes >= RecoverySuccesses /\ health.hold = 0
    BY <1>1, <2>2, <2>3 DEF AfterUsable, RecoveryComplete
  <2>5. Cardinality(TrailingSuccesses') >= RecoverySuccesses
    <3>1. Cardinality(TrailingSuccesses') \in Nat
      <4>1. IsFiniteSet(accepted')
        BY <1>1 DEF Accounted
      <4>2. TrailingSuccesses' \in SUBSET accepted'
        BY DEF TrailingSuccesses
      <4> QED
        BY <4>1, <4>2, FS_Subset, FS_CardinalityType
    <3> QED
      BY <1>1, <2>4, <3>1, ThresholdAssumption DEF Accounted, CountersStandForRuns, UpTo
  <2> QED
    BY <1>1, <2>4, <2>5, ThresholdAssumption DEF Accounted, MonitorTypeOK
<1> QED
  BY <1>1, SpecAccounted, PTL DEF MonitorSpec, RecoveryEarned

-----------------------------------------------------------------------------
(***************************************************************************)
(* Slots.                                                                  *)
(***************************************************************************)
LEMMA SlotTypes ==
  ASSUME ManagerAssumption, NEW slot \in SlotState
  PROVE  /\ \A target \in Target : Remapped(slot, target) \in SlotState
         /\ RecoveryBegun(slot) \in SlotState
         /\ Restored(slot) \in SlotState
         /\ Drained(slot) \in SlotState
BY DEF ManagerAssumption, DrainAssumption, SlotState, NoDeadline,
       Confirmed, Remapped, RecoveryBegun, Restored, Drained

\* Arming and running down a deadline move no target, and leave a slot that
\* is not in an emergency as it is.
LEMMA DeadlineOnly ==
  ASSUME NEW slot \in SlotState
  PROVE  /\ Drained(slot).current = slot.current /\ RecoveryBegun(slot).current = slot.current
         /\ Drained(slot).previous = slot.previous /\ RecoveryBegun(slot).previous = slot.previous
         /\ Drained(slot).emergency = slot.emergency
         /\ RecoveryBegun(slot).emergency = slot.emergency
         /\ \A t \in Target : slot = Confirmed(t) => Drained(slot) = slot /\ RecoveryBegun(slot) = slot
BY DEF SlotState, NoDeadline, Drained, RecoveryBegun, Confirmed

-----------------------------------------------------------------------------
(***************************************************************************)
(* No event is newer than the route version, so that the next one is the   *)
(* newest of its slot.                                                     *)
(***************************************************************************)
VersionsCount == \A e \in events : e.version <= routeVersion

Explained ==
  /\ ManagerTypeOK
  /\ VersionsCount
  /\ EventsExplainSlots

\* What explains a slot goes on explaining it while only its deadline moves.
LEMMA DeadlinesKeepExplanation ==
  ASSUME ManagerAssumption, Explained, UNCHANGED events,
         slots' \in [Slot -> SlotState],
         \A s \in Slot : slots'[s] \in {slots[s], Drained(slots[s]), RecoveryBegun(slots[s])}
  PROVE  EventsExplainSlots'
<1> SUFFICES ASSUME NEW s \in Slot
             PROVE  IF EventsOf(s)' = {}
                    THEN slots'[s] = Confirmed(Initial[s])
                    ELSE \E e \in EventsOf(s)' :
                           /\ \A other \in EventsOf(s)' : other.version <= e.version
                           /\ Explains(e, slots'[s])
  BY DEF EventsExplainSlots
<1>1. EventsOf(s)' = EventsOf(s) /\ slots[s] \in SlotState /\ Initial[s] \in Target
  BY DEF EventsOf, Explained, ManagerTypeOK, ManagerAssumption
<1>2. /\ slots'[s].current = slots[s].current
      /\ slots'[s].previous = slots[s].previous
      /\ slots'[s].emergency = slots[s].emergency
      /\ slots[s] = Confirmed(Initial[s]) => slots'[s] = slots[s]
  BY <1>1, DeadlineOnly
<1> QED
  BY <1>1, <1>2 DEF Explained, EventsExplainSlots, Explains

LEMMA ExplainedInit ==
  ASSUME ManagerAssumption, ManagerInit
  PROVE  Explained
<1>1. \A s \in Slot : Initial[s] \in Target
  BY DEF ManagerAssumption
<1>2. ManagerTypeOK
  BY <1>1, FS_EmptySet
  DEF ManagerInit, ManagerTypeOK, ManagerAssumption, DrainAssumption, Confirmed, SlotState, NoDeadline
<1> QED
  BY <1>2 DEF Explained, ManagerInit, VersionsCount, EventsExplainSlots, EventsOf

LEMMA EmergencyRemapStep ==
  ASSUME ManagerAssumption, Explained,
         NEW id \in EventId, NEW s \in Slot, NEW replacement \in Target,
         NEW expected, EmergencyRemap(id, s, replacement, expected)
  PROVE  Explained'
<1> DEFINE new == [id |-> id, slot |-> s, old |-> slots[s].current, new |-> replacement,
                   version |-> routeVersion + 1]
<1>1. /\ slots[s] \in SlotState /\ slots \in [Slot -> SlotState] /\ routeVersion \in Nat
      /\ events \subseteq Event /\ IsFiniteSet(events)
  BY DEF Explained, ManagerTypeOK
<1>2. /\ slots' = [slots EXCEPT ![s] = Remapped(slots[s], replacement)]
      /\ routeVersion' = routeVersion + 1
      /\ events' = events \cup {new}
      /\ view' = view
  BY DEF EmergencyRemap
<1>3. new \in Event
  BY <1>1 DEF Event, SlotState
<1>4. ManagerTypeOK'
  <2>1. slots' \in [Slot -> SlotState]
    BY <1>1, <1>2, SlotTypes
  <2>2. IsFiniteSet(events')
    BY <1>1, <1>2, FS_AddElement
  <2> QED
    BY <1>1, <1>2, <1>3, <2>1, <2>2 DEF Explained, ManagerTypeOK
<1>5. VersionsCount'
  BY <1>1, <1>2 DEF Explained, VersionsCount, Event
<1>6. ASSUME NEW t \in Slot, t # s
      PROVE  EventsOf(t)' = EventsOf(t) /\ slots'[t] = slots[t]
  BY <1>1, <1>2, <1>6 DEF EventsOf
<1>7. /\ new \in EventsOf(s)'
      /\ \A other \in EventsOf(s)' : other.version <= new.version
      /\ Explains(new, slots'[s])
  BY <1>1, <1>2 DEF EventsOf, Explains, Remapped, Explained, VersionsCount, Event
<1>8. EventsExplainSlots'
  <2> SUFFICES ASSUME NEW t \in Slot
               PROVE  IF EventsOf(t)' = {}
                      THEN slots'[t] = Confirmed(Initial[t])
                      ELSE \E e \in EventsOf(t)' :
                             /\ \A other \in EventsOf(t)' : other.version <= e.version
                             /\ Explains(e, slots'[t])
    BY DEF EventsExplainSlots
  <2>1. CASE t = s
    <3> HIDE DEF new
    <3> QED
      BY <1>7, <2>1
  <2>2. CASE t # s
    BY <1>6, <2>2 DEF Explained, EventsExplainSlots
  <2> QED
    BY <2>1, <2>2
<1> QED
  BY <1>4, <1>5, <1>8 DEF Explained

LEMMA CompleteRecoveryStep ==
  ASSUME ManagerAssumption, Explained, NEW s \in Slot, NEW active \in BOOLEAN,
         CompleteRecovery(s, active)
  PROVE  Explained'
<1>1. /\ slots[s] \in SlotState /\ slots \in [Slot -> SlotState] /\ routeVersion \in Nat
      /\ events \subseteq Event /\ Initial[s] \in Target
  BY DEF Explained, ManagerTypeOK, ManagerAssumption
<1>2. /\ slots[s].emergency
      /\ slots' = [slots EXCEPT ![s] = Restored(slots[s])]
      /\ routeVersion' = routeVersion + 1
      /\ UNCHANGED <<events, view>>
  BY DEF CompleteRecovery, DrainOver
<1>3. ManagerTypeOK'
  <2>1. slots' \in [Slot -> SlotState]
    BY <1>1, <1>2, SlotTypes
  <2> QED
    BY <1>1, <1>2, <2>1 DEF Explained, ManagerTypeOK
<1>4. VersionsCount'
  BY <1>1, <1>2 DEF Explained, VersionsCount, Event
<1>5. EventsExplainSlots'
  <2> SUFFICES ASSUME NEW t \in Slot
               PROVE  IF EventsOf(t)' = {}
                      THEN slots'[t] = Confirmed(Initial[t])
                      ELSE \E e \in EventsOf(t)' :
                             /\ \A other \in EventsOf(t)' : other.version <= e.version
                             /\ Explains(e, slots'[t])
    BY DEF EventsExplainSlots
  <2>1. EventsOf(t)' = EventsOf(t)
    BY <1>2 DEF EventsOf
  <2>2. CASE t = s
    <3>1. EventsOf(s) # {}
      <4>1. slots[s] # Confirmed(Initial[s])
        BY <1>2 DEF Confirmed
      <4> QED
        BY <4>1 DEF Explained, EventsExplainSlots
    <3>2. PICK e \in EventsOf(s) :
            /\ \A other \in EventsOf(s) : other.version <= e.version
            /\ Explains(e, slots[s])
      BY <3>1 DEF Explained, EventsExplainSlots
    <3>3. Explains(e, slots'[s])
      BY <1>1, <1>2, <3>2 DEF Explains, Restored, Confirmed
    <3> QED
      BY <2>1, <2>2, <3>1, <3>2, <3>3
  <2>3. CASE t # s
    BY <1>1, <1>2, <2>1, <2>3 DEF Explained, EventsExplainSlots
  <2> QED
    BY <2>2, <2>3
<1> QED
  BY <1>3, <1>4, <1>5 DEF Explained

LEMMA ExplainedStep ==
  ASSUME ManagerAssumption, Explained, [ManagerNext]_managerVars
  PROVE  Explained'
<1>1. ASSUME UNCHANGED managerVars
      PROVE  Explained'
  BY <1>1 DEF managerVars, Explained, ManagerTypeOK, VersionsCount, EventsExplainSlots, EventsOf
<1>2. ASSUME NEW id \in EventId, NEW s \in Slot, NEW replacement \in Target,
             NEW expected, Remap(id, s, replacement, expected)
      PROVE  Explained'
  BY <1>1, <1>2, EmergencyRemapStep DEF Remap, RemapRefused
<1>3. ASSUME NEW id \in EventId, NEW replacement \in Target, CheckedRemap(id, replacement)
      PROVE  Explained'
  <2>1. view.slot \in Slot
    BY <1>3 DEF CheckedRemap, Explained, ManagerTypeOK, View
  <2> QED
    BY <1>2, <1>3, <2>1 DEF CheckedRemap
<1>4. ASSUME NEW s \in Slot, BeginRecovery(s)
      PROVE  Explained'
  <2>1. slots \in [Slot -> SlotState] /\ slots' = [slots EXCEPT ![s] = RecoveryBegun(slots[s])]
    BY <1>4 DEF BeginRecovery, Explained, ManagerTypeOK
  <2>2. slots' \in [Slot -> SlotState]
    <3>1. RecoveryBegun(slots[s]) \in SlotState
      BY <2>1, SlotTypes
    <3> QED
      BY <2>1, <3>1
  <2>3. EventsExplainSlots'
    BY <1>4, <2>1, <2>2, DeadlinesKeepExplanation DEF BeginRecovery
  <2> QED
    BY <1>4, <2>2, <2>3 DEF BeginRecovery, Explained, ManagerTypeOK, VersionsCount
<1>5. ASSUME DrainTick
      PROVE  Explained'
  <2>1. slots \in [Slot -> SlotState] /\ slots' = [s \in Slot |-> Drained(slots[s])]
    BY <1>5 DEF DrainTick, Explained, ManagerTypeOK
  <2>2. slots' \in [Slot -> SlotState]
    <3>1. ASSUME NEW s \in Slot
          PROVE  Drained(slots[s]) \in SlotState
      BY <2>1, SlotTypes
    <3> QED
      BY <2>1, <3>1
  <2>3. EventsExplainSlots'
    BY <1>5, <2>1, <2>2, DeadlinesKeepExplanation DEF DrainTick
  <2> QED
    BY <1>5, <2>2, <2>3 DEF DrainTick, Explained, ManagerTypeOK, VersionsCount
<1>6. ASSUME NEW s \in Slot, ReadVersion(s)
      PROVE  Explained'
  BY <1>6
  DEF ReadVersion, Explained, ManagerTypeOK, View, VersionsCount, EventsExplainSlots, EventsOf
<1> QED
  BY <1>1, <1>2, <1>3, <1>4, <1>5, <1>6, CompleteRecoveryStep DEF ManagerNext, RecoveryRefused

(***************************************************************************)
(* The event log explains every slot, whoever calls the manager in what    *)
(* order, with repeated ids, refused versions and recoveries in between    *)
(* (local_failover.py:64-138).                                             *)
(***************************************************************************)
THEOREM SpecEventsExplainSlots ==
  ASSUME ManagerAssumption
  PROVE  ManagerSpec => []EventsExplainSlots
<1>1. ManagerInit => Explained
  BY ExplainedInit
<1>2. Explained /\ [ManagerNext]_managerVars => Explained'
  BY ExplainedStep
<1>3. Explained => EventsExplainSlots
  BY DEF Explained
<1> QED
  BY <1>1, <1>2, <1>3, PTL DEF ManagerSpec

-----------------------------------------------------------------------------
(***************************************************************************)
(* A transfer moves the prefix away from the owner of the record it starts *)
(* from and counts one epoch on.  There being two hubs, the epoch alone    *)
(* says which of them owns the prefix, in every record there ever is.      *)
(***************************************************************************)
OwnerAt(n) == IF n % 2 = 1 THEN PreferredHub ELSE StandbyHub

Ledger == {r \in [owner : {PreferredHub, StandbyHub}, epoch : Nat] : r.owner = OwnerAt(r.epoch)}

IntendsToMove(c) == wants[c] \in {PreferredHub, StandbyHub} \ {held[c].owner}

Alternating ==
  /\ store \in Ledger
  /\ reported \subseteq Ledger
  /\ held \in [Caller -> Ledger]
  /\ wants \in [Caller -> {PreferredHub, StandbyHub, "none"}]
  /\ \A c \in Caller : wants[c] # "none" => IntendsToMove(c)

\* The record a coordinator is about to commit belongs to the ledger.
LEMMA NextAlternates ==
  ASSUME OwnershipAssumption, Alternating, NEW c \in Caller, wants[c] # "none"
  PROVE  NextRecord(c) \in Ledger
<1> DEFINE e == held[c].epoch
<1>1. e \in Nat /\ held[c].owner = OwnerAt(e)
  BY DEF Alternating, Ledger
<1>2. wants[c] \in {PreferredHub, StandbyHub} /\ wants[c] # OwnerAt(e)
  BY <1>1 DEF Alternating, IntendsToMove
<1>3. (e + 1) % 2 = 1 <=> ~(e % 2 = 1)
  BY <1>1
<1>4. wants[c] = OwnerAt(e + 1)
  BY <1>2, <1>3 DEF OwnerAt, OwnershipAssumption
<1> QED
  BY <1>1, <1>2, <1>4 DEF NextRecord, Record, Ledger

LEMMA AlternatingInit ==
  ASSUME OwnershipAssumption, OwnershipInit
  PROVE  Alternating
BY DEF OwnershipAssumption, OwnershipInit, Record, Ledger, OwnerAt, Alternating

LEMMA AlternatingStep ==
  ASSUME OwnershipAssumption, Alternating, [OwnershipNext]_ownershipVars
  PROVE  Alternating'
<1>1. ASSUME NEW c \in Caller, Read(c)
      PROVE  Alternating'
  BY <1>1 DEF Read, Alternating, IntendsToMove
<1>2. ASSUME NEW c \in Caller, NEW hub \in {PreferredHub, StandbyHub}, Begin(c, hub)
      PROVE  Alternating'
  BY <1>2 DEF Begin, MayMove, Alternating, IntendsToMove
<1>3. ASSUME NEW c \in Caller, Commit(c)
      PROVE  Alternating'
  <2>1. NextRecord(c) \in Ledger
    BY <1>3, NextAlternates DEF Commit
  <2>2. store' \in Ledger /\ reported' \subseteq Ledger /\ held' \in [Caller -> Ledger]
    BY <1>3, <2>1 DEF Commit, Alternating
  <2>3. wants' \in [Caller -> {PreferredHub, StandbyHub, "none"}]
    BY <1>3 DEF Commit, Alternating
  <2>4. \A d \in Caller : wants'[d] # "none" => IntendsToMove(d)'
    BY <1>3 DEF Commit, Alternating, IntendsToMove
  <2> QED
    BY <2>2, <2>3, <2>4 DEF Alternating
<1>4. ASSUME NEW c \in Caller, Refuse(c)
      PROVE  Alternating'
  BY <1>4 DEF Refuse, Alternating, IntendsToMove
<1>5. CASE UNCHANGED ownershipVars
  BY <1>5 DEF ownershipVars, Alternating, IntendsToMove
<1> QED
  BY <1>1, <1>2, <1>3, <1>4, <1>5 DEF OwnershipNext

(***************************************************************************)
(* Two coordinators whose transfers were both reported as committed agree  *)
(* on the owner of an epoch, however many of them there are, although      *)
(* persistence/policy_store.py accepts the second of two equal epochs      *)
(* without comparing the owners.                                           *)
(***************************************************************************)
THEOREM SpecOneOwnerPerEpoch ==
  ASSUME OwnershipAssumption
  PROVE  OwnershipSpec => []OneOwnerPerEpoch
<1>1. OwnershipInit => Alternating
  BY AlternatingInit
<1>2. Alternating /\ [OwnershipNext]_ownershipVars => Alternating'
  BY AlternatingStep
<1>3. Alternating => OneOwnerPerEpoch
  BY DEF Alternating, OneOwnerPerEpoch, Ledger
<1> QED
  BY <1>1, <1>2, <1>3, PTL DEF OwnershipSpec
=============================================================================
