------------------------- MODULE ControllerV4Proofs -------------------------
(***************************************************************************)
(* Theorems about the version 4 controller: PolicyDistribution,            *)
(* PathSelection and HubFailoverV4 for any paths, underlays, routers,      *)
(* versions and faults.                                                    *)
(***************************************************************************)
EXTENDS PolicyDistribution, PathSelection, HubFailoverV4, FiniteSetTheorems,
        SequenceTheorems, TLAPS

-----------------------------------------------------------------------------
(***************************************************************************)
(* PolicyDistribution. The controller's own path is always the one         *)
(* measured last, and ageing turns an override into none but never the     *)
(* other way.                                                              *)
(***************************************************************************)
DecisionTyped ==
  /\ automatic \in Ranked /\ measured = automatic
  /\ override \in Override
  /\ lapsed \in BOOLEAN

\* The invariant: the explanation holds, of values of the right kind.
Decided == DecisionTyped /\ DecisionExplained

LEMMA DecidedInit == PolicyDistributionAssumption /\ DecisionInit => Decided
  BY DEF PolicyDistributionAssumption, DecisionInit, Decided, DecisionTyped, DecisionExplained,
         Override, Overrides, None

\* An override is told from none by its path, and one just set has not expired.
LEMMA OverrideTaken ==
  ASSUME PolicyDistributionAssumption, NEW path \in Ranked, NEW left \in {Forever, OverrideTtl}
  PROVE  /\ [path |-> path, left |-> left] \in Override
         /\ Overrides([path |-> path, left |-> left])
  BY DEF PolicyDistributionAssumption, Override, Overrides, None, Left, Expired, Forever

LEMMA NoneOverridesNothing == None \in Override /\ ~Overrides(None)
  BY DEF Override, Overrides

LEMMA AgedOverride ==
  ASSUME PolicyDistributionAssumption, NEW o \in Override
  PROVE  /\ AgedSnapshot(o) \in Override
         /\ AgedSnapshot(o).path = o.path
         /\ ~Overrides(o) => ~Overrides(AgedSnapshot(o))
<1>1. CASE o = None
  BY <1>1 DEF AgedSnapshot, None, Override, Overrides, Forever
<1>2. CASE o \in [path : Ranked, left : Left]
  <2>1. CASE o.left > 0
    <3>1. o.left \in 1..OverrideTtl
      BY <1>2, <2>1 DEF Left, Forever
    <3>2. AgedSnapshot(o) = [path |-> o.path, left |-> o.left - 1]
      BY <1>2, <2>1 DEF AgedSnapshot
    <3>3. o.left - 1 \in Left
      BY <3>1, PolicyDistributionAssumption DEF Left, PolicyDistributionAssumption
    <3>4. Overrides(o)
      BY <1>2, <3>1, PolicyDistributionAssumption
         DEF Overrides, Expired, None, PolicyDistributionAssumption
    <3> QED
      BY <1>2, <3>2, <3>3, <3>4 DEF Override
  <2>2. CASE ~(o.left > 0)
    BY <2>2 DEF AgedSnapshot
  <2> QED
    BY <2>1, <2>2
<1> QED
  BY <1>1, <1>2 DEF Override

LEMMA DecidedStep ==
  ASSUME PolicyDistributionAssumption, Decided, [DecisionNext]_decisionVars
  PROVE  Decided'
<1>1. CASE DecideEpoch
  <2>1. PICK path \in Ranked :
          /\ automatic' = path /\ measured' = path
          /\ override' = IF Overrides(override) THEN override ELSE None
          /\ decision' = IF Overrides(override) THEN override.path ELSE path
          /\ lapsed' = FALSE
    BY <1>1 DEF DecideEpoch, AutomaticAfter, Publish
  <2> QED
    BY <2>1, NoneOverridesNothing DEF Decided, DecisionTyped, DecisionExplained
<1>2. CASE SetOverride
  <2>1. PICK path \in Ranked, left \in {Forever, OverrideTtl} :
          /\ override' = [path |-> path, left |-> left]
          /\ decision' = path /\ lapsed' = FALSE
          /\ UNCHANGED <<automatic, measured>>
    BY <1>2 DEF SetOverride, Publish
  <2> QED
    BY <2>1, OverrideTaken DEF Decided, DecisionTyped, DecisionExplained
<1>3. CASE ReleaseOverride
  BY <1>3, NoneOverridesNothing
     DEF ReleaseOverride, Publish, Decided, DecisionTyped, DecisionExplained
<1>4. CASE DecisionTick
  <2>1. /\ AgedSnapshot(override) \in Override
        /\ AgedSnapshot(override).path = override.path
        /\ ~Overrides(override) => ~Overrides(AgedSnapshot(override))
    BY AgedOverride DEF Decided, DecisionTyped
  <2>2. /\ override' = AgedSnapshot(override)
        /\ lapsed' = (lapsed \/ (Overrides(override) /\ ~Overrides(override')))
        /\ UNCHANGED <<automatic, measured, decision>>
    BY <1>4 DEF DecisionTick
  <2> QED
    BY <2>1, <2>2 DEF Decided, DecisionTyped, DecisionExplained
<1>5. CASE UNCHANGED controller
  BY <1>5 DEF controller, Decided, DecisionTyped, DecisionExplained
<1> QED
  BY <1>1, <1>2, <1>3, <1>4, <1>5
     DEF DecisionNext, ApplyDecision, DecisionLost, MonitorSends, StartClassifier, ClassifierEnds,
         Sending, TestExpiry, ReplaceExpired, CopySnapshot, LabelExpired, ReadSnapshot, SendSnapshot,
         decisionVars, controller

(***************************************************************************)
(* The decision is the override's path while there is one and the path of  *)
(* the latest epoch otherwise, but for an override that ran out since the  *)
(* last decision; for any paths and lifetimes                              *)
(* (policy_service_v4.py:147-240).                                         *)
(***************************************************************************)
THEOREM SpecDecisionExplained ==
  PolicyDistributionAssumption => (DecisionSpec => []DecisionExplained)
<1> SUFFICES ASSUME PolicyDistributionAssumption
             PROVE  DecisionSpec => []DecisionExplained
  OBVIOUS
<1>1. DecisionInit => Decided
  BY DecidedInit
<1>2. Decided /\ [DecisionNext]_decisionVars => Decided'
  BY DecidedStep
<1>3. Decided => DecisionExplained
  BY DEF Decided
<1> QED
  BY <1>1, <1>2, <1>3, PTL DEF DecisionSpec

-----------------------------------------------------------------------------
(***************************************************************************)
(* PathSelection. The bad-epoch counter stands for verdicts that were      *)
(* given: it never exceeds the misses at the head of what is remembered of *)
(* the path.                                                               *)
(***************************************************************************)
\* What is remembered of the selected path.
Last == IF judged.path = selection.path THEN judged.met ELSE <<>>

\* The bad epochs counted are the latest verdicts, all of them misses.
Weighed ==
  /\ selection.age \in Nat /\ selection.badEpochs \in 0..FailedEpochs
  /\ judged.met \in Seq(BOOLEAN)
  /\ Len(judged.met) <= FailedEpochs
  /\ selection.badEpochs <= Len(Last)
  /\ \A i \in 1..selection.badEpochs : ~Last[i]
  /\ selection = [path |-> selection.path, age |-> selection.age, badEpochs |-> selection.badEpochs]

LEMMA WeighedInit == PathSelectionAssumption /\ SelectionInit => Weighed
  BY DEF PathSelectionAssumption, SelectionInit, Weighed, Last

LEMMA LastType ==
  ASSUME PathSelectionAssumption, Weighed
  PROVE  Last \in Seq(BOOLEAN) /\ Len(Last) \in Nat /\ Len(Last) <= FailedEpochs
<1>1. CASE Last = judged.met
  BY <1>1 DEF Weighed
<1>2. CASE Last = <<>>
  <2>1. <<>> \in Seq(BOOLEAN) /\ Len(<<>>) = 0
    OBVIOUS
  <2> QED
    BY <1>2, <2>1 DEF PathSelectionAssumption
<1> QED
  BY <1>1, <1>2 DEF Last

\* Judging once more puts the verdict in front and keeps the FailedEpochs latest.
LEMMA JudgedOnce ==
  ASSUME PathSelectionAssumption, Weighed, NEW met \in BOOLEAN
  PROVE  /\ Judged(met).path = selection.path
         /\ Judged(met).met \in Seq(BOOLEAN)
         /\ Judged(met).met[1] = met
         /\ Len(Judged(met).met) = IF Len(Last) < FailedEpochs THEN Len(Last) + 1 ELSE FailedEpochs
         /\ \A i \in 2..Len(Judged(met).met) : Judged(met).met[i] = Last[i - 1]
<1> DEFINE n == IF Len(Last) < FailedEpochs THEN Len(Last) ELSE FailedEpochs - 1
           kept == SubSeq(Last, 1, n)
<1>1. Last \in Seq(BOOLEAN) /\ Len(Last) \in Nat /\ Len(Last) <= FailedEpochs
  BY LastType
<1>2. n \in 0..Len(Last) /\ n + 1 = IF Len(Last) < FailedEpochs THEN Len(Last) + 1 ELSE FailedEpochs
  BY <1>1 DEF PathSelectionAssumption
<1>3. kept \in Seq(BOOLEAN) /\ Len(kept) = n /\ \A i \in 1..n : kept[i] = Last[i]
  BY <1>1, <1>2
<1>4. Judged(met) = [path |-> selection.path, met |-> <<met>> \o kept]
  BY DEF Judged, Last
<1>5. /\ <<met>> \o kept \in Seq(BOOLEAN)
      /\ Len(<<met>> \o kept) = n + 1
      /\ (<<met>> \o kept)[1] = met
      /\ \A i \in 2..(n + 1) : (<<met>> \o kept)[i] = kept[i - 1]
  <2> HIDE DEF kept, n
  <2> QED
    BY <1>2, <1>3
<1> HIDE DEF kept
<1>6. \A i \in 2..(n + 1) : kept[i - 1] = Last[i - 1]
  <2> SUFFICES ASSUME NEW i \in 2..(n + 1)
               PROVE  kept[i - 1] = Last[i - 1]
    OBVIOUS
  <2>1. i - 1 \in 1..n
    BY <1>2
  <2> QED
    BY <2>1, <1>3
<1> HIDE DEF n
<1> QED
  BY <1>2, <1>4, <1>5, <1>6

LEMMA MetOrMissed ==
  ASSUME NEW within
  PROVE  /\ selection.path \in within => Judged(selection.path \in within) = Judged(TRUE)
         /\ selection.path \notin within => Judged(selection.path \in within) = Judged(FALSE)
<1>1. ASSUME selection.path \in within
      PROVE  (selection.path \in within) = TRUE
  BY <1>1
<1>2. ASSUME selection.path \notin within
      PROVE  (selection.path \in within) = FALSE
  BY <1>2
<1> QED
  BY <1>1, <1>2, Zenon

LEMMA JudgedType ==
  ASSUME PathSelectionAssumption, Weighed, NEW within
  PROVE  LET j == Judged(selection.path \in within) IN
         /\ j.path = selection.path
         /\ j.met \in Seq(BOOLEAN)
         /\ Len(j.met) \in Nat /\ Len(j.met) <= FailedEpochs
         /\ j.met[1] <=> selection.path \in within
<1>1. ASSUME NEW met \in BOOLEAN
      PROVE  Len(Judged(met).met) \in Nat /\ Len(Judged(met).met) <= FailedEpochs
  BY JudgedOnce, LastType DEF PathSelectionAssumption
<1>2. CASE selection.path \in within
  BY <1>1, <1>2, MetOrMissed, JudgedOnce
<1>3. CASE selection.path \notin within
  BY <1>1, <1>3, MetOrMissed, JudgedOnce
<1> QED
  BY <1>2, <1>3

\* What becomes of the selection once a decision was made over the metrics.
DecidedOn(within, better, candidate) ==
  IF selection.path = NoPath
  THEN selection' = Chosen(candidate) /\ UNCHANGED judged
  ELSE /\ selection' = IF candidate # selection.path /\ Leaves(within, better)
                       THEN Chosen(candidate)
                       ELSE [selection EXCEPT !.badEpochs = Bad(within)]
       /\ judged' = Judged(selection.path \in within)

\* A path that has missed the SLA FailedEpochs times in a row has done so in
\* all that is remembered.
LEMMA MissesRemembered ==
  ASSUME PathSelectionAssumption, Weighed, NEW within, selection.path \notin within
  PROVE  /\ Bad(within) \in 1..FailedEpochs
         /\ Bad(within) <= Len(Judged(FALSE).met)
         /\ \A i \in 1..Bad(within) : ~Judged(FALSE).met[i]
<1> DEFINE met == Judged(FALSE).met
           bad == selection.badEpochs
<1>1. /\ met \in Seq(BOOLEAN) /\ met[1] = FALSE
      /\ Len(met) = IF Len(Last) < FailedEpochs THEN Len(Last) + 1 ELSE FailedEpochs
      /\ \A i \in 2..Len(met) : met[i] = Last[i - 1]
  BY JudgedOnce
<1>2. bad \in 0..FailedEpochs /\ bad <= Len(Last) /\ Len(Last) \in Nat /\ Len(Last) <= FailedEpochs
  BY DEF Weighed, Last, PathSelectionAssumption
<1>3. \A i \in 1..bad : ~Last[i]
  BY DEF Weighed
<1>4. Bad(within) = IF bad < FailedEpochs THEN bad + 1 ELSE FailedEpochs
  BY DEF Bad
<1> HIDE DEF met, bad
<1>5. Bad(within) \in 1..FailedEpochs /\ Bad(within) <= Len(met) /\ Bad(within) <= bad + 1
  BY <1>1, <1>2, <1>4 DEF PathSelectionAssumption
<1>6. ASSUME NEW i \in 1..Bad(within)
      PROVE  ~met[i]
  <2>1. CASE i = 1
    BY <2>1, <1>1
  <2>2. CASE i # 1
    <3>1. i \in 2..Len(met) /\ i - 1 \in 1..bad
      BY <2>2, <1>1, <1>2, <1>5
    <3> QED
      BY <3>1, <1>1, <1>3
  <2> QED
    BY <2>1, <2>2
<1> QED
  BY <1>5, <1>6 DEF met

LEMMA DecideKeepsWeighed ==
  ASSUME PathSelectionAssumption, Weighed, NEW within, NEW better, NEW candidate,
         DecidedOn(within, better, candidate)
  PROVE  Weighed'
<1>1. FailedEpochs \in Nat \ {0}
  BY DEF PathSelectionAssumption
<1>2. CASE selection' = Chosen(candidate) /\ UNCHANGED judged
  BY <1>1, <1>2 DEF Weighed, Chosen, Last
<1>3. CASE /\ selection.path # NoPath
           /\ candidate # selection.path /\ Leaves(within, better)
           /\ selection' = Chosen(candidate)
           /\ judged' = Judged(selection.path \in within)
  <2>1. judged'.path = selection.path /\ judged'.met \in Seq(BOOLEAN) /\ Len(judged'.met) <= FailedEpochs
    BY <1>3, JudgedType
  <2>2. selection'.path = candidate /\ selection'.age = 0 /\ selection'.badEpochs = 0
    BY <1>3 DEF Chosen
  <2> QED
    BY <1>1, <1>3, <2>1, <2>2 DEF Weighed, Last, Chosen
<1>4. CASE /\ selection' = [selection EXCEPT !.badEpochs = Bad(within)]
           /\ judged' = Judged(selection.path \in within)
  <2>1. /\ judged'.path = selection.path /\ judged'.met \in Seq(BOOLEAN)
        /\ Len(judged'.met) \in Nat /\ Len(judged'.met) <= FailedEpochs
    BY <1>4, JudgedType
  <2>2. selection' = [path |-> selection.path, age |-> selection.age, badEpochs |-> Bad(within)]
    BY <1>4 DEF Weighed
  <2>3. Last' = judged'.met
    BY <2>1, <2>2 DEF Last
  <2>4. CASE selection.path \in within
    <3>1. Bad(within) = 0
      BY <2>4 DEF Bad
    <3> QED
      BY <1>1, <2>1, <2>2, <2>3, <3>1 DEF Weighed
  <2>5. CASE selection.path \notin within
    <3>1. judged' = Judged(FALSE)
      BY <1>4, <2>5, MetOrMissed
    <3>2. /\ Bad(within) \in 1..FailedEpochs /\ Bad(within) <= Len(judged'.met)
          /\ \A i \in 1..Bad(within) : ~judged'.met[i]
      BY <2>5, <3>1, MissesRemembered
    <3>3. selection'.badEpochs = Bad(within) /\ selection'.age \in Nat
      BY <2>2 DEF Weighed
    <3> QED
      BY <1>1, <2>1, <2>2, <3>2, <3>3 DEF Weighed, Last
  <2> QED
    BY <2>4, <2>5
<1> QED
  BY <1>2, <1>3, <1>4 DEF DecidedOn

LEMMA DecideCases ==
  ASSUME Decide
  PROVE  \E within \in SUBSET Underlays, better \in BOOLEAN :
           \E candidate \in Underlays : DecidedOn(within, better, candidate)
  BY DEF Decide, DecidedOn

LEMMA WhoTouchesSelection ==
  ASSUME [SelectionNext]_selectionVars
  PROVE  \/ Post /\ Decide
         \/ SelectionTick
         \/ UNCHANGED <<selection, judged>>
  BY DEF SelectionNext, selectionVars, Measure, Probe, AgentRestart, PostLost, Post, engine

LEMMA WeighedStep ==
  ASSUME PathSelectionAssumption, Weighed, [SelectionNext]_selectionVars
  PROVE  Weighed'
<1>1. CASE Decide
  BY <1>1, DecideCases, DecideKeepsWeighed
<1>2. CASE SelectionTick
  BY <1>2 DEF SelectionTick, Weighed, Last
<1>3. CASE UNCHANGED <<selection, judged>>
  BY <1>3 DEF Weighed, Last
<1> QED
  BY <1>1, <1>2, <1>3, WhoTouchesSelection

\* What a step that leaves a path has behind it.
Evidence ==
  selection.path # NoPath /\ selection'.path # selection.path
  => /\ selection.age >= PathHoldDown
     /\ IF judged'.met[1]
        THEN selection.age >= MinimumPathTime
        ELSE /\ Len(judged'.met) = FailedEpochs
             /\ \A i \in 1..FailedEpochs : ~judged'.met[i]

LEMMA EvidenceStep ==
  ASSUME PathSelectionAssumption, Weighed, [SelectionNext]_selectionVars
  PROVE  Evidence
<1> SUFFICES ASSUME selection.path # NoPath, selection'.path # selection.path
             PROVE  /\ selection.age >= PathHoldDown
                    /\ IF judged'.met[1]
                       THEN selection.age >= MinimumPathTime
                       ELSE /\ Len(judged'.met) = FailedEpochs
                            /\ \A i \in 1..FailedEpochs : ~judged'.met[i]
  BY DEF Evidence
<1>1. CASE Decide
  <2>1. PICK within \in SUBSET Underlays, better \in BOOLEAN, candidate \in Underlays :
          DecidedOn(within, better, candidate)
    BY <1>1, DecideCases
  <2>2. Leaves(within, better) /\ judged' = Judged(selection.path \in within)
    BY <2>1 DEF DecidedOn, Weighed
  <2>3. judged'.met[1] <=> selection.path \in within
    BY <2>2, JudgedType
  <2>4. ASSUME selection.path \notin within
        PROVE  Len(judged'.met) = FailedEpochs /\ \A i \in 1..FailedEpochs : ~judged'.met[i]
    <3>1. Bad(within) >= FailedEpochs /\ judged' = Judged(FALSE)
      BY <2>2, <2>4, MetOrMissed DEF Leaves
    <3>2. /\ Bad(within) \in 1..FailedEpochs /\ Bad(within) <= Len(judged'.met)
          /\ \A i \in 1..Bad(within) : ~judged'.met[i]
      BY <2>4, <3>1, MissesRemembered
    <3>3. Len(judged'.met) \in Nat /\ Len(judged'.met) <= FailedEpochs
      BY <2>2, JudgedType
    <3>4. Bad(within) = FailedEpochs
      BY <3>1, <3>2 DEF PathSelectionAssumption
    <3>5. Len(judged'.met) = FailedEpochs
      BY <3>2, <3>3, <3>4 DEF PathSelectionAssumption
    <3> QED
      BY <3>2, <3>4, <3>5
  <2> QED
    BY <2>2, <2>3, <2>4 DEF Leaves
<1>2. CASE SelectionTick
  BY <1>2 DEF SelectionTick, Weighed
<1>3. CASE UNCHANGED <<selection, judged>>
  BY <1>3
<1> QED
  BY <1>1, <1>2, <1>3, WhoTouchesSelection

(***************************************************************************)
(* A path is left only after its hold-down, and only after as many decided *)
(* epochs in a row outside the SLA as configured or, from a path within    *)
(* it, after its minimum time; for any thresholds                          *)
(* (path_selection_v4.py:152-165).                                         *)
(***************************************************************************)
THEOREM SpecLeftOnEvidence ==
  PathSelectionAssumption => (SelectionSpec => LeftOnEvidence)
<1> SUFFICES ASSUME PathSelectionAssumption
             PROVE  SelectionSpec => LeftOnEvidence
  OBVIOUS
<1>1. SelectionInit => Weighed
  BY WeighedInit
<1>2. Weighed /\ [SelectionNext]_selectionVars => Weighed'
  BY WeighedStep
<1>3. Weighed /\ [SelectionNext]_selectionVars => [Evidence]_selectionVars
  BY EvidenceStep
<1> QED
  BY <1>1, <1>2, <1>3, PTL DEF SelectionSpec, LeftOnEvidence, Evidence

-----------------------------------------------------------------------------
(***************************************************************************)
(* The metrics of a round enter the buffer one by one and in configuration *)
(* order. Until a probe for a failover divides a round, the buffer of its  *)
(* epoch holds exactly what the round has already sent.                    *)
(***************************************************************************)
\* The metrics of the round: the i-th, those still to send after k, those sent.
MetricOf(i, e) == [underlay |-> Order[i], round |-> round, epoch |-> e]
Rest(k, e) == [i \in 1..(Len(Order) - k) |-> MetricOf(k + i, e)]
Gone(k, e) == {MetricOf(j, e) : j \in 1..k}

\* What is still to send is the rest of the round, the buffer what was sent.
InOneRound ==
  \E e \in Nat, k \in 0..(Len(Order) - 1) :
    outbox = Rest(k, e) /\ (k > 0 => Bucket(e) = Gone(k, e))

\* No epoch without the metric of the first underlay, which opened it.
FirstComesFirst ==
  \A m \in buffer : \E first \in Bucket(m.epoch) : first.underlay = Order[1]

\* The invariant; once a round was divided nothing is promised.
Orderly ==
  /\ round \in Nat /\ epoch \in Nat
  /\ divided \in BOOLEAN /\ mixed \in BOOLEAN
  /\ ~divided => /\ ~mixed
                 /\ FirstComesFirst
                 /\ outbox = <<>> \/ InOneRound

LEMMA OrderType ==
  ASSUME PathSelectionAssumption
  PROVE  /\ Len(Order) \in Nat /\ Len(Order) > 1 /\ DOMAIN Order = 1..Len(Order)
         /\ Underlays = {Order[i] : i \in 1..Len(Order)}
         /\ \A i, j \in 1..Len(Order) : Order[i] = Order[j] => i = j
<1>1. Order \in Seq(Underlays) /\ Len(Order) > 1
  BY DEF PathSelectionAssumption
<1>2. Len(Order) \in Nat /\ DOMAIN Order = 1..Len(Order)
  BY <1>1
<1>3. \A i, j \in DOMAIN Order : Order[i] = Order[j] => i = j
  BY DEF PathSelectionAssumption
<1> QED
  BY <1>1, <1>2, <1>3 DEF Underlays

LEMMA OrderlyInit == SelectionInit => Orderly
<1> SUFFICES ASSUME SelectionInit
             PROVE  Orderly
  OBVIOUS
<1>1. round = 0 /\ epoch = 0 /\ buffer = {} /\ outbox = <<>>
  BY DEF SelectionInit
<1>2. divided = FALSE /\ mixed = FALSE
  BY DEF SelectionInit
<1>3. FirstComesFirst
  BY <1>1 DEF FirstComesFirst
<1> QED
  BY <1>1, <1>2, <1>3 DEF Orderly

LEMMA RestOfRound ==
  ASSUME PathSelectionAssumption, NEW e \in Nat, NEW k \in 0..(Len(Order) - 1)
  PROVE  /\ Rest(k, e) # <<>>
         /\ Head(Rest(k, e)) = MetricOf(k + 1, e)
         /\ Tail(Rest(k, e)) = IF k + 1 = Len(Order) THEN <<>> ELSE Rest(k + 1, e)
<1> DEFINE n == Len(Order) - k
           M(i) == MetricOf(k + i, e)
           s == [i \in 1..n |-> M(i)]
<1>0. Len(Order) \in Nat
  BY OrderType
<1>1. n \in Nat \ {0} /\ Len(Order) \in Nat
  BY <1>0
<1>2. s = Rest(k, e)
  BY DEF Rest
<1> HIDE DEF M, n
<1>3. s \in Seq({M(i) : i \in 1..n}) /\ Len(s) = n /\ s[1] = M(1)
  BY <1>1
<1>4. s # <<>> /\ Head(s) = M(1)
  BY <1>1, <1>3
<1>5. Tail(s) = [i \in 1..(n - 1) |-> M(i + 1)]
  <2> DEFINE t == [i \in 1..(n - 1) |-> M(i + 1)]
  <2>1. n - 1 \in Nat /\ \A i \in 1..(n - 1) : i + 1 \in 1..n
    BY <1>1
  <2>2. t \in Seq({M(i) : i \in 1..n}) /\ Len(t) = n - 1
    BY <2>1
  <2>3. /\ Tail(s) \in Seq({M(i) : i \in 1..n}) /\ Len(Tail(s)) = n - 1
        /\ \A i \in 1..(n - 1) : Tail(s)[i] = s[i + 1]
    BY <1>1, <1>3, <1>4, HeadTailProperties
  <2>4. \A i \in 1..(n - 1) : t[i] = Tail(s)[i]
    BY <2>1, <2>3
  <2> HIDE DEF t, s
  <2>5. t = Tail(s)
    BY <2>2, <2>3, <2>4, SeqEqual
  <2> QED
    BY <2>5 DEF t
<1>6. CASE k + 1 = Len(Order)
  <2>1. n = 1
    BY <1>6, <1>1 DEF n
  <2>2. Tail(s) = <<>>
    BY <1>5, <2>1
  <2> QED
    BY <1>2, <1>4, <1>6, <2>2 DEF M
<1>7. CASE k + 1 # Len(Order)
  <2>1. n - 1 = Len(Order) - (k + 1)
    BY <1>1 DEF n
  <2>2. \A i \in 1..(n - 1) : M(i + 1) = MetricOf((k + 1) + i, e)
    <3> TAKE i \in 1..(n - 1)
    <3>1. k + (i + 1) = (k + 1) + i
      OBVIOUS
    <3> QED
      BY <3>1 DEF M
  <2>3. Tail(s) = Rest(k + 1, e)
    BY <1>5, <2>1, <2>2 DEF Rest
  <2> QED
    BY <1>2, <1>4, <1>7, <2>3 DEF M
<1> QED
  BY <1>6, <1>7

LEMMA UnderlaysCounted ==
  ASSUME PathSelectionAssumption
  PROVE  Cardinality(Underlays) = Len(Order)
<1> DEFINE f == [i \in 1..Len(Order) |-> Order[i]]
<1>1. f \in Bijection(1..Len(Order), Underlays)
  <2>1. f \in [1..Len(Order) -> Underlays]
    BY OrderType
  <2>2. \A i, j \in 1..Len(Order) : f[i] = f[j] => i = j
    BY OrderType
  <2>3. \A u \in Underlays : \E i \in 1..Len(Order) : f[i] = u
    BY OrderType
  <2> QED
    BY <2>1, <2>2, <2>3 DEF Bijection, Injection, Surjection, IsInjective
<1>2. IsFiniteSet(1..Len(Order)) /\ Cardinality(1..Len(Order)) = Len(Order)
  BY OrderType, FS_Interval
<1> HIDE DEF f
<1> QED
  BY <1>1, <1>2, FS_Bijection DEF ExistsBijection

LEMMA GoneCounted ==
  ASSUME PathSelectionAssumption, NEW e \in Nat, NEW n \in 1..Len(Order)
  PROVE  Cardinality(Gone(n, e)) = n
<1> DEFINE f == [i \in 1..n |-> MetricOf(i, e)]
<1>1. \A i, j \in 1..n : MetricOf(i, e) = MetricOf(j, e) => i = j
  <2> TAKE i, j \in 1..n
  <2>1. i \in 1..Len(Order) /\ j \in 1..Len(Order)
    BY OrderType
  <2> QED
    BY <2>1, OrderType DEF MetricOf
<1>2. f \in Bijection(1..n, Gone(n, e))
  <2>1. f \in [1..n -> Gone(n, e)]
    BY DEF Gone
  <2>2. \A i, j \in 1..n : f[i] = f[j] => i = j
    BY <1>1
  <2>3. \A m \in Gone(n, e) : \E i \in 1..n : f[i] = m
    BY DEF Gone
  <2> QED
    BY <2>1, <2>2, <2>3 DEF Bijection, Injection, Surjection, IsInjective
<1>3. IsFiniteSet(1..n) /\ Cardinality(1..n) = n
  <2>1. 1 \in Int /\ n \in Int /\ 1 <= n
    BY OrderType
  <2> QED
    BY <2>1, FS_Interval
<1> HIDE DEF f
<1> QED
  BY <1>2, <1>3, FS_Bijection DEF ExistsBijection

\* A metric that is accepted joins exactly the ones its round has sent before.
LEMMA JoinsItsRound ==
  ASSUME PathSelectionAssumption, FirstComesFirst, NEW e \in Nat, NEW k \in 0..(Len(Order) - 1),
         k > 0 => Bucket(e) = Gone(k, e),
         NEW m, m = MetricOf(k + 1, e), ~Duplicate(m)
  PROVE  {other \in Bucket(m.epoch) : other.underlay # m.underlay} \cup {m} = Gone(k + 1, e)
<1>1. m.epoch = e /\ m.underlay = Order[k + 1]
  BY DEF MetricOf
<1>2. \A other \in Bucket(e) : other.underlay # m.underlay
  BY <1>1 DEF Duplicate
<1>3. CASE k = 0
  <2>1. Bucket(e) = {}
    <3>1. \A b \in Bucket(e) : b \in buffer /\ b.epoch = e
      BY DEF Bucket
    <3> QED
      BY <1>1, <1>2, <1>3, <3>1 DEF FirstComesFirst
  <2> QED
    BY <1>1, <1>3, <2>1 DEF Gone
<1>4. CASE k > 0
  <2>1. Bucket(e) = Gone(k, e)
    BY <1>4
  <2>2. Gone(k, e) \cup {m} = Gone(k + 1, e)
    <3>1. 1..(k + 1) = (1..k) \cup {k + 1}
      BY OrderType
    <3> QED
      BY <3>1 DEF Gone
  <2> QED
    BY <1>1, <1>2, <2>1, <2>2
<1> QED
  BY <1>3, <1>4

LEMMA PostStep ==
  ASSUME PathSelectionAssumption, Orderly, Post
  PROVE  Orderly'
<1> DEFINE m == Head(outbox)
           bucket == {other \in Bucket(m.epoch) : other.underlay # m.underlay} \cup {m}
           complete == Cardinality(bucket) = Cardinality(Underlays)
<1>1. outbox # <<>> /\ UNCHANGED <<epoch, round, divided>>
  BY DEF Post
<1>2. CASE Duplicate(m)
  BY <1>1, <1>2 DEF Post, GivesUp, engine, Orderly, FirstComesFirst, Bucket
<1>3. CASE ~Duplicate(m)
  <2>1. /\ buffer' = (buffer \ Bucket(m.epoch)) \cup (IF complete THEN {} ELSE bucket)
        /\ IF complete /\ NewEpoch(m.epoch)
           THEN mixed' = (mixed \/ \E other \in bucket : other.round # m.round)
           ELSE mixed' = mixed
        /\ outbox' = <<>> \/ outbox' = Tail(outbox)
    BY <1>3 DEF Post, engine
  <2>2. mixed' \in BOOLEAN
    BY <2>1 DEF Orderly
  <2>3. CASE divided
    BY <1>1, <2>2, <2>3 DEF Orderly
  <2>4. CASE ~divided
    <3>1. ~mixed /\ FirstComesFirst /\ InOneRound
      BY <1>1, <2>4 DEF Orderly
    <3>2. PICK e \in Nat, k \in 0..(Len(Order) - 1) :
            outbox = Rest(k, e) /\ (k > 0 => Bucket(e) = Gone(k, e))
      BY <3>1 DEF InOneRound
    <3>3. m = MetricOf(k + 1, e) /\ m.epoch = e /\ m.round = round
      BY <3>2, RestOfRound DEF MetricOf
    <3>4. bucket = Gone(k + 1, e)
      BY <1>3, <3>1, <3>2, <3>3, JoinsItsRound
    <3>5. complete <=> k + 1 = Len(Order)
      <4>1. k + 1 \in 1..Len(Order)
        BY <3>2, OrderType
      <4>2. Cardinality(bucket) = k + 1
        BY <3>2, <3>4, <4>1, GoneCounted
      <4> QED
        BY <4>2, UnderlaysCounted
    <3>6. \A other \in bucket : other.round = m.round /\ other.epoch = e
      BY <3>3, <3>4 DEF Gone, MetricOf
    <3>7. ~mixed'
      BY <2>1, <3>1, <3>6
    <3>8. CASE complete
      <4>1. outbox' = <<>>
        BY <2>1, <3>2, <3>5, <3>8, RestOfRound
      <4>2. buffer' = buffer \ Bucket(e)
        BY <2>1, <3>3, <3>8
      <4>3. FirstComesFirst'
        BY <3>1, <4>2 DEF FirstComesFirst, Bucket
      <4> QED
        BY <1>1, <2>2, <3>7, <4>1, <4>3 DEF Orderly
    <3>9. CASE ~complete
      <4>1. buffer' = (buffer \ Bucket(e)) \cup Gone(k + 1, e)
        BY <2>1, <3>3, <3>4, <3>9
      <4>2. MetricOf(1, e) \in Gone(k + 1, e) /\ MetricOf(1, e).underlay = Order[1]
        BY OrderType DEF Gone, MetricOf
      <4>3. \A other \in Gone(k + 1, e) : other.epoch = e
        BY <3>4, <3>6
      <4>4. Bucket(e)' = Gone(k + 1, e)
        BY <4>1, <4>3 DEF Bucket
      <4>5. FirstComesFirst'
        <5> SUFFICES ASSUME NEW b \in buffer'
                     PROVE  \E first \in Bucket(b.epoch)' : first.underlay = Order[1]
          BY DEF FirstComesFirst, Bucket
        <5>1. CASE b \in Gone(k + 1, e)
          BY <4>2, <4>3, <4>4, <5>1
        <5>2. CASE b \in buffer \ Bucket(e)
          <6>1. PICK first \in Bucket(b.epoch) : first.underlay = Order[1]
            BY <3>1, <5>2 DEF FirstComesFirst
          <6>2. first \in Bucket(b.epoch)'
            BY <4>1, <5>2, <6>1 DEF Bucket
          <6> QED
            BY <6>1, <6>2
        <5> QED
          BY <4>1, <5>1, <5>2
      <4>6. outbox' = <<>> \/ outbox' = Rest(k + 1, e)
        BY <2>1, <3>2, <3>5, <3>9, RestOfRound
      <4>7. k + 1 \in 0..(Len(Order) - 1)
        <5>1. k + 1 # Len(Order) /\ Len(Order) \in Nat
          BY <3>5, <3>9, OrderType
        <5> HIDE DEF complete
        <5> QED
          BY <3>2, <5>1
      <4>8. Rest(k + 1, e)' = Rest(k + 1, e) /\ Gone(k + 1, e)' = Gone(k + 1, e)
        BY <1>1 DEF Rest, Gone, MetricOf
      <4>9. outbox' = <<>> \/ InOneRound'
        BY <4>4, <4>6, <4>7, <4>8 DEF InOneRound
      <4> QED
        BY <1>1, <2>2, <3>7, <4>5, <4>9 DEF Orderly
    <3> QED
      BY <3>8, <3>9
  <2> QED
    BY <2>3, <2>4
<1> QED
  BY <1>2, <1>3

LEMMA MeasureStep ==
  ASSUME PathSelectionAssumption, Orderly, Measure
  PROVE  Orderly'
<1>1. PICK cut \in 2..(Len(Order) + 1) :
        LET last == IF cut <= Len(Order) THEN epoch + 2 ELSE epoch + 1 IN
        /\ divided' = (divided \/ cut <= Len(Order))
        /\ epoch' = last
        /\ outbox' = [i \in DOMAIN Order |->
                        [underlay |-> Order[i], round |-> round + 1,
                         epoch |-> IF i < cut THEN epoch + 1 ELSE last]]
  BY DEF Measure
<1>2. round' = round + 1 /\ UNCHANGED <<buffer, mixed>>
  BY DEF Measure, engine
<1>3. round' \in Nat /\ epoch' \in Nat /\ divided' \in BOOLEAN /\ mixed' \in BOOLEAN
  BY <1>1, <1>2 DEF Orderly
<1>4. ASSUME ~divided'
      PROVE  ~mixed' /\ FirstComesFirst' /\ InOneRound'
  <2>1. ~divided /\ cut = Len(Order) + 1
    <3>1. divided' = (divided \/ cut <= Len(Order))
      BY <1>1
    <3>2. ~(divided \/ cut <= Len(Order))
      BY <1>4, <3>1, Zenon
    <3> QED
      BY <1>1, <3>2, OrderType
  <2>2. ~mixed' /\ FirstComesFirst'
    BY <1>2, <2>1 DEF Orderly, FirstComesFirst, Bucket
  <2>3. PICK e \in Nat : e = epoch + 1
    BY <1>1, <1>3, <2>1, OrderType
  <2>4. outbox' = Rest(0, e)'
    <3>1. Len(Order) - 0 = Len(Order) /\ \A i \in 1..Len(Order) : 0 + i = i /\ i < cut
      BY <2>1, OrderType
    <3>2. outbox' = [i \in 1..Len(Order) |->
                       [underlay |-> Order[i], round |-> round + 1, epoch |-> e]]
      BY <1>1, <2>3, <3>1, OrderType
    <3> QED
      BY <1>2, <3>1, <3>2 DEF Rest, MetricOf
  <2>5. 0 \in 0..(Len(Order) - 1)
    BY OrderType
  <2> QED
    BY <2>2, <2>4, <2>5 DEF InOneRound
<1> QED
  BY <1>3, <1>4 DEF Orderly

LEMMA OrderlyStays ==
  ASSUME Orderly, UNCHANGED <<round, buffer, divided, mixed>>,
         outbox' = outbox \/ outbox' = <<>>, epoch' \in Nat
  PROVE  Orderly'
<1>1. FirstComesFirst' <=> FirstComesFirst
  BY DEF FirstComesFirst, Bucket
<1>2. ASSUME InOneRound, outbox' = outbox
      PROVE  InOneRound'
  <2>1. PICK e \in Nat, k \in 0..(Len(Order) - 1) :
          outbox = Rest(k, e) /\ (k > 0 => Bucket(e) = Gone(k, e))
    BY <1>2 DEF InOneRound
  <2>2. Rest(k, e)' = Rest(k, e)
    BY DEF Rest, MetricOf
  <2>3. Gone(k, e)' = Gone(k, e)
    BY DEF Gone, MetricOf
  <2>4. Bucket(e)' = Bucket(e)
    BY DEF Bucket
  <2> QED
    BY <1>2, <2>1, <2>2, <2>3, <2>4 DEF InOneRound
<1> QED
  BY <1>1, <1>2 DEF Orderly

LEMMA OrderlyStep ==
  ASSUME PathSelectionAssumption, Orderly, [SelectionNext]_selectionVars
  PROVE  Orderly'
<1>1. CASE Measure
  BY <1>1, MeasureStep
<1>2. CASE Post
  BY <1>2, PostStep
<1>3. CASE Probe
  BY <1>3, OrderlyStays DEF Probe, Orderly, engine
<1>4. CASE AgentRestart
  BY <1>4, OrderlyStays DEF AgentRestart, engine
<1>5. CASE PostLost
  BY <1>5, OrderlyStays DEF PostLost, Orderly, engine
<1>6. CASE SelectionTick
  BY <1>6, OrderlyStays DEF SelectionTick, Orderly, edgeState
<1>7. CASE UNCHANGED selectionVars
  BY <1>7, OrderlyStays DEF selectionVars, Orderly
<1> QED
  BY <1>1, <1>2, <1>3, <1>4, <1>5, <1>6, <1>7 DEF SelectionNext

(***************************************************************************)
(* A decision is made from the metrics of one round unless a probe for a   *)
(* failover divided one, whatever posts are lost and however often the     *)
(* edge restarts and counts its epochs again; for any number of underlays, *)
(* epochs and rounds (path_selection_v4.py:50-62,                          *)
(* edge_agent_v4.py:876-880).                                              *)
(***************************************************************************)
THEOREM SpecOneRoundPerDecision ==
  PathSelectionAssumption => (SelectionSpec => []OneRoundPerDecision)
<1> SUFFICES ASSUME PathSelectionAssumption
             PROVE  SelectionSpec => []OneRoundPerDecision
  OBVIOUS
<1>1. SelectionInit => Orderly
  BY OrderlyInit
<1>2. Orderly /\ [SelectionNext]_selectionVars => Orderly'
  BY OrderlyStep
<1>3. Orderly => OneRoundPerDecision
  BY DEF Orderly, OneRoundPerDecision
<1> QED
  BY <1>1, <1>2, <1>3, PTL DEF SelectionSpec

-----------------------------------------------------------------------------
(***************************************************************************)
(* HubFailoverV4 with one request at a time. Of a change that is on its    *)
(* way the routers it has reached run the new assignment and the others    *)
(* the old one; the assignment of record changes only when all of them     *)
(* have confirmed it.                                                      *)
(***************************************************************************)
\* The routers that a change has reached, in the order it posts to them.
Reached(o) == {PostOrder(o)[i] : i \in 1..Len(o.applied)}

\* A change as it was begun over assignments a, and how far it has come.
Started(o, a) ==
  /\ o.before = a /\ o.old = a[o.spoke] /\ o.new # o.old
  /\ Len(o.applied) <= 3
  /\ \A i \in 1..Len(o.applied) : o.applied[i] = PostOrder(o)[i]
  /\ o.step = "apply" => Len(o.applied) <= 2
  /\ o.step \in {"probe", "commit"} => Len(o.applied) = 3

\* The routers it has reached run what will hold after it.
Follows(o, r) ==
  \A site \in Reached(o) : /\ r[site].version <= o.version
                           /\ r[site].routes = Desired(site, AssignmentAfter(o))

\* The others run what holds before it, or were restarted and run nothing.
Unmoved(sites, r, a) == \A site \in sites : r[site].routes \in {{}, Desired(site, a)}

\* The invariant, c being the only caller; of the routers in doubt it says nothing
\* but that a change has not counted them as reached.
AllOrNothing(c) ==
  /\ HubsTypeOK
  /\ serving[c].kind = "register" => serving[c].assign = assignments
  /\ serving[c].kind = "failover" => Started(serving[c], assignments) /\ Follows(serving[c], router)
  /\ serving[c].kind = "failover" =>
       Unmoved(RouterSite \ (Reached(serving[c]) \cup astray), router, assignments)
  /\ serving[c].kind # "failover" => Unmoved(RouterSite \ astray, router, assignments)

LEMMA AllOrNothingInit ==
  ASSUME HubFailoverV4Assumption, NEW c, Requester = {c}, HubsInit
  PROVE  AllOrNothing(c)
<1>1. HubsTypeOK
  <2>1. 0 \in 0..MaxReconcile /\ 0 \in 0..(MaxReconcile + 1) /\ Faults \in 0..Faults
    BY DEF HubFailoverV4Assumption
  <2>2. router \in [RouterSite -> [version : 0..(MaxReconcile + 1), routes : SUBSET (Spoke \X HubRouter)]]
    BY <2>1 DEF HubsInit
  <2>3. serving \in [Requester -> {Idle} \cup Registration \cup Change]
    BY DEF HubsInit
  <2> QED
    BY <2>1, <2>2, <2>3 DEF HubsInit, HubsTypeOK, HubFailoverV4Assumption, Assignment
<1>2. serving[c].kind = "idle"
  BY DEF HubsInit, Idle
<1>3. Unmoved(RouterSite \ astray, router, assignments)
  BY DEF HubsInit, Unmoved
<1> QED
  BY <1>1, <1>2, <1>3 DEF AllOrNothing

LEMMA ServedTypes ==
  ASSUME HubsTypeOK, NEW c \in Requester
  PROVE  /\ serving[c] = Idle \/ serving[c] \in Registration \/ serving[c] \in Change
         /\ serving[c] = Idle <=> serving[c].kind = "idle"
         /\ serving[c] \in Registration <=> serving[c].kind = "register"
         /\ serving[c] \in Change <=> serving[c].kind = "failover"
  BY DEF HubsTypeOK, Idle, Registration, Change

LEMMA PostOrderFacts ==
  ASSUME HubFailoverV4Assumption, NEW o \in Change, o.new # o.old
  PROVE  /\ \A i \in 1..3 : PostOrder(o)[i] \in RouterSite
         /\ \A i, j \in 1..3 : PostOrder(o)[i] = PostOrder(o)[j] => i = j
         /\ \A site \in HubRouter \cup {o.spoke} : \E i \in 1..3 : PostOrder(o)[i] = site
<1>1. /\ o.old \in HubRouter /\ o.new \in HubRouter /\ o.spoke \in Spoke
      /\ o.spoke \notin HubRouter
  BY DEF Change, HubFailoverV4Assumption
<1>2. \A site \in HubRouter : site \in {o.old, o.new}
  BY <1>1 DEF HubFailoverV4Assumption
<1>3. PostOrder(o)[1] = o.old /\ PostOrder(o)[2] = o.new /\ PostOrder(o)[3] = o.spoke
  BY DEF PostOrder
<1>4. 1..3 = {1, 2, 3}
  OBVIOUS
<1> QED
  BY <1>1, <1>2, <1>3, <1>4 DEF RouterSite

LEMMA DesiredType ==
  ASSUME NEW site \in RouterSite, NEW a \in Assignment
  PROVE  Desired(site, a) \in SUBSET (Spoke \X HubRouter)
  BY DEF Desired, RouterSite, Assignment

LEMMA AfterType ==
  ASSUME NEW o \in Change
  PROVE  AssignmentAfter(o) \in Assignment /\ AssignmentAfter(o) = [o.before EXCEPT ![o.spoke] = o.new]
  BY DEF Change, AssignmentAfter, Assignment

LEMMA InstalledType ==
  ASSUME HubsTypeOK, NEW site \in RouterSite, NEW v \in 0..(MaxReconcile + 1), NEW a \in Assignment,
         Installed(site, v, a)
  PROVE  /\ router' \in [RouterSite -> [version : 0..(MaxReconcile + 1), routes : SUBSET (Spoke \X HubRouter)]]
         /\ router'[site].version = v /\ router'[site].routes = Desired(site, a)
         /\ \A other \in RouterSite : other # site => router'[other] = router[other]
  BY DesiredType DEF HubsTypeOK, Installed

LEMMA HalfAppliedType ==
  ASSUME HubFailoverV4Assumption, HubsTypeOK, NEW site \in RouterSite, NEW v, NEW a \in Assignment,
         HalfApplied(site, v, a)
  PROVE  /\ router' \in [RouterSite -> [version : 0..(MaxReconcile + 1), routes : SUBSET (Spoke \X HubRouter)]]
         /\ \A other \in RouterSite : other # site => router'[other] = router[other]
         /\ faults' \in 0..Faults
         /\ astray' = astray \cup {site}
<1>1. PICK left \in SUBSET (router[site].routes \cup Desired(site, a)) :
        router' = [router EXCEPT ![site].routes = left]
  BY DEF HalfApplied
<1>2. router[site].routes \in SUBSET (Spoke \X HubRouter)
  BY DEF HubsTypeOK
<1>3. left \in SUBSET (Spoke \X HubRouter)
  BY <1>2, DesiredType
<1>4. faults' \in 0..Faults /\ astray' = astray \cup {site}
  BY DEF HalfApplied, Fault, HubsTypeOK, HubFailoverV4Assumption
<1> QED
  BY <1>1, <1>3, <1>4 DEF HubsTypeOK

LEMMA FaultType ==
  ASSUME HubFailoverV4Assumption, HubsTypeOK, Fault
  PROVE  faults' \in 0..Faults /\ faults' # faults
  BY DEF HubFailoverV4Assumption, HubsTypeOK, Fault

LEMMA RegisterStep ==
  ASSUME HubFailoverV4Assumption, NEW c, Requester = {c}, AllOrNothing(c), RegisterSpoke(c)
  PROVE  AllOrNothing(c)'
<1>1. HubsTypeOK /\ c \in Requester
  BY DEF AllOrNothing
<1>2. serving'[c] = [kind |-> "register", assign |-> assignments,
                     version |-> reconcileVersion + 1, todo |-> RouterSite]
  BY <1>1 DEF RegisterSpoke, HubsTypeOK
<1>3. reconcileVersion + 1 \in 1..MaxReconcile
  BY <1>1 DEF RegisterSpoke, HubsTypeOK, HubFailoverV4Assumption
<1>4. serving'[c] \in Registration
  BY <1>1, <1>2, <1>3 DEF Registration, HubsTypeOK
<1>5. HubsTypeOK'
  BY <1>1, <1>3, <1>4 DEF HubsTypeOK, RegisterSpoke
<1>6. serving[c].kind = "idle"
  BY DEF RegisterSpoke, Idle
<1> QED
  BY <1>2, <1>5, <1>6 DEF AllOrNothing, RegisterSpoke

LEMMA PostRegistrationStep ==
  ASSUME HubFailoverV4Assumption, NEW c, Requester = {c}, AllOrNothing(c), PostRegistration(c)
  PROVE  AllOrNothing(c)'
<1>1. HubsTypeOK /\ c \in Requester /\ serving[c].kind = "register"
  BY DEF AllOrNothing, PostRegistration
<1>2. serving[c] \in Registration /\ serving[c].assign = assignments
  BY <1>1, ServedTypes DEF AllOrNothing
<1> DEFINE less(site) == [serving[c] EXCEPT !.todo = @ \ {site}]
<1>3. PICK site \in serving[c].todo :
       \/ /\ Posted(site, serving[c].version, serving[c].assign)
          /\ serving' = [serving EXCEPT ![c] = IF serving[c].todo = {site} THEN Idle ELSE less(site)]
       \/ /\ PostFailed(site, serving[c].version, serving[c].assign)
          /\ serving' = [serving EXCEPT ![c] = Idle]
  BY DEF PostRegistration
<1>4. site \in RouterSite /\ serving[c].version \in 1..MaxReconcile /\ serving[c].version \in 0..(MaxReconcile + 1)
  BY <1>2, HubFailoverV4Assumption DEF Registration, HubFailoverV4Assumption
<1>5. assignments \in Assignment /\ UNCHANGED controllerState
  BY <1>1 DEF HubsTypeOK, PostRegistration
<1>6. /\ serving'[c] = Idle \/ serving'[c] = less(site)
      /\ serving' \in [Requester -> {Idle} \cup Registration \cup Change]
      /\ serving'[c].kind # "failover"
      /\ serving'[c].kind = "register" => serving'[c].assign = assignments
  <2>1. \/ serving' = [serving EXCEPT ![c] = IF serving[c].todo = {site} THEN Idle ELSE less(site)]
        \/ serving' = [serving EXCEPT ![c] = Idle]
    BY <1>3
  <2>2. less(site) \in Registration /\ less(site).kind = "register" /\ less(site).assign = assignments
    BY <1>2 DEF Registration
  <2> HIDE DEF less
  <2>3. /\ serving'[c] \in {Idle, less(site)}
        /\ serving' \in [Requester -> {Idle} \cup Registration \cup Change]
    BY <1>1, <2>1, <2>2 DEF HubsTypeOK
  <2>4. Idle.kind = "idle"
    BY DEF Idle
  <2>5. serving'[c].kind # "failover" /\ (serving'[c].kind = "register" => serving'[c].assign = assignments)
    BY <2>2, <2>3, <2>4
  <2> QED
    BY <2>3, <2>5 DEF less
<1>7. CASE Installed(site, serving[c].version, assignments)
           /\ faults' \in 0..Faults /\ astray' \in {astray \ {site}, astray \cup {site}}
  <2>1. HubsTypeOK'
    BY <1>1, <1>4, <1>5, <1>6, <1>7, InstalledType DEF HubsTypeOK, controllerState
  <2>2. Unmoved(RouterSite \ astray', router', assignments)
    BY <1>1, <1>4, <1>5, <1>7, InstalledType DEF Unmoved, AllOrNothing
  <2> QED
    BY <1>5, <1>6, <2>1, <2>2 DEF AllOrNothing, controllerState
<1>8. CASE PostRefused(site, serving[c].version) /\ UNCHANGED astray
  <2>1. UNCHANGED router /\ faults' \in 0..Faults
    BY <1>1, <1>8, FaultType DEF PostRefused, HubsTypeOK
  <2>2. HubsTypeOK'
    BY <1>1, <1>5, <1>6, <1>8, <2>1 DEF HubsTypeOK, controllerState
  <2> QED
    BY <1>1, <1>5, <1>6, <1>8, <2>1, <2>2 DEF AllOrNothing, controllerState
<1>9. CASE HalfApplied(site, serving[c].version, assignments)
  <2>1. /\ router' \in [RouterSite -> [version : 0..(MaxReconcile + 1), routes : SUBSET (Spoke \X HubRouter)]]
        /\ \A other \in RouterSite : other # site => router'[other] = router[other]
        /\ faults' \in 0..Faults /\ astray' = astray \cup {site}
    BY <1>1, <1>4, <1>5, <1>9, HalfAppliedType
  <2>2. HubsTypeOK'
    BY <1>1, <1>4, <1>5, <1>6, <2>1 DEF HubsTypeOK, controllerState
  <2>3. Unmoved(RouterSite \ astray', router', assignments)
    BY <1>1, <2>1 DEF Unmoved, AllOrNothing
  <2> QED
    BY <1>5, <1>6, <2>1, <2>2, <2>3 DEF AllOrNothing, controllerState
<1> QED
  BY <1>1, <1>2, <1>3, <1>7, <1>8, <1>9, FaultType DEF Posted, PostFailed, AnswerLost, HubsTypeOK

LEMMA FailoverStep ==
  ASSUME HubFailoverV4Assumption, NEW c, Requester = {c}, AllOrNothing(c),
         NEW s \in Spoke, NEW new \in HubRouter, Failover(c, s, new)
  PROVE  AllOrNothing(c)'
<1>1. HubsTypeOK /\ c \in Requester
  BY DEF AllOrNothing
<1>2. serving'[c] = [kind |-> "failover", spoke |-> s, old |-> assignments[s], new |-> new,
        before |-> assignments, version |-> reconcileVersion + 1, step |-> "apply", applied |-> <<>>]
  BY <1>1 DEF Failover, HubsTypeOK
<1>3. reconcileVersion + 1 \in 1..MaxReconcile
  BY <1>1 DEF Failover, HubsTypeOK, HubFailoverV4Assumption
<1>4. serving'[c] \in Change
  <2>1. assignments[s] \in HubRouter /\ <<>> \in Seq(RouterSite)
    BY <1>1 DEF HubsTypeOK, Assignment
  <2> QED
    BY <1>1, <1>2, <1>3, <2>1 DEF Change, HubsTypeOK, Steps
<1>5. HubsTypeOK'
  BY <1>1, <1>3, <1>4 DEF HubsTypeOK, Failover
<1>6. serving[c].kind = "idle"
  BY DEF Failover, Idle
<1>7. Len(serving'[c].applied) = 0 /\ Reached(serving'[c]) = {}
  BY <1>2 DEF Reached
<1>8. Started(serving'[c], assignments)
  BY <1>2, <1>7 DEF Started, Failover
<1> QED
  BY <1>2, <1>5, <1>6, <1>7, <1>8 DEF AllOrNothing, Failover, Follows, Unmoved


LEMMA ReachedType ==
  ASSUME HubFailoverV4Assumption, NEW o \in Change, NEW a, Started(o, a)
  PROVE  /\ o.applied \in Seq(RouterSite)
         /\ Len(o.applied) \in 0..3
         /\ o.step = "apply" => Len(o.applied) \in 0..2
         /\ Reached(o) \subseteq RouterSite
<1> DEFINE n == Len(o.applied)
<1>1. o.applied \in Seq(RouterSite)
  BY DEF Change
<1>2. n \in Nat
  BY <1>1
<1>3. n <= 3 /\ (o.step = "apply" => n <= 2) /\ o.new # o.old
  BY DEF Started
<1>4. \A i \in 1..3 : PostOrder(o)[i] \in RouterSite
  BY <1>3, PostOrderFacts
<1> HIDE DEF n
<1>5. n \in 0..3 /\ (o.step = "apply" => n \in 0..2)
  BY <1>2, <1>3
<1>6. \A i \in 1..n : i \in 1..3
  BY <1>5
<1> QED
  BY <1>1, <1>4, <1>5, <1>6 DEF Reached, n

\* What a post of the forward loop does to the request.
LEMMA OneMoreReached ==
  ASSUME HubFailoverV4Assumption, NEW o \in Change, NEW p \in Change, NEW a, Started(o, a),
         o.step = "apply",
         p = [o EXCEPT !.applied = Append(@, PostOrder(o)[Len(o.applied) + 1]), !.step = AfterApplied(o)]
  PROVE  /\ Started(p, a)
         /\ Reached(p) = Reached(o) \cup {PostOrder(o)[Len(o.applied) + 1]}
         /\ PostOrder(o)[Len(o.applied) + 1] \in RouterSite
         /\ PostOrder(o)[Len(o.applied) + 1] \notin Reached(o)
         /\ p.version = o.version /\ AssignmentAfter(p) = AssignmentAfter(o)
<1> DEFINE n == Len(o.applied)
           site == PostOrder(o)[n + 1]
<1>1. n \in 0..2 /\ o.applied \in Seq(RouterSite)
  BY ReachedType
<1>2. p.spoke = o.spoke /\ p.old = o.old /\ p.new = o.new /\ p.before = o.before /\ p.version = o.version
      /\ p.applied = Append(o.applied, site) /\ p.step = AfterApplied(o)
  BY DEF Change
<1>3. PostOrder(p) = PostOrder(o) /\ AssignmentAfter(p) = AssignmentAfter(o)
  BY <1>2 DEF PostOrder, AssignmentAfter
<1>4. site \in RouterSite /\ site \notin Reached(o)
  BY <1>1, PostOrderFacts DEF Reached, Started
<1>5. Len(p.applied) = n + 1 /\ \A i \in 1..(n + 1) : p.applied[i] = PostOrder(p)[i]
  BY <1>1, <1>2, <1>3, <1>4 DEF Started
<1>6. p.step \in {"apply", "probe"} /\ (p.step = "apply" => n + 1 <= 2) /\ (p.step = "probe" => n + 1 = 3)
  <2>1. p.step = IF n = 2 THEN "probe" ELSE "apply"
    BY <1>2 DEF AfterApplied
  <2> HIDE DEF n
  <2> QED
    BY <1>1, <2>1
<1>7. Reached(p) = Reached(o) \cup {site}
  <2>1. 1..(n + 1) = 1..n \cup {n + 1}
    BY <1>1
  <2> HIDE DEF n, site
  <2>2. Reached(p) = {PostOrder(o)[i] : i \in 1..(n + 1)} /\ Reached(o) = {PostOrder(o)[i] : i \in 1..n}
    BY <1>3, <1>5 DEF Reached, n
  <2> QED
    BY <2>1, <2>2 DEF site
<1>8. Started(p, a)
  BY <1>1, <1>2, <1>5, <1>6 DEF Started
<1> QED
  BY <1>2, <1>3, <1>4, <1>7, <1>8

LEMMA AppliedType ==
  ASSUME HubFailoverV4Assumption, NEW o \in Change, NEW a, Started(o, a), o.step = "apply"
  PROVE  [o EXCEPT !.applied = Append(@, PostOrder(o)[Len(o.applied) + 1]), !.step = AfterApplied(o)] \in Change
<1>1. Len(o.applied) \in 0..2 /\ o.applied \in Seq(RouterSite)
  BY ReachedType
<1>2. PostOrder(o)[Len(o.applied) + 1] \in RouterSite
  BY <1>1, PostOrderFacts DEF Started
<1>3. Append(o.applied, PostOrder(o)[Len(o.applied) + 1]) \in Seq(RouterSite)
  BY <1>1, <1>2
<1>4. AfterApplied(o) \in Steps
  BY DEF AfterApplied, Steps
<1> QED
  BY <1>3, <1>4 DEF Change

LEMMA FailedFacts ==
  ASSUME NEW o \in Change, NEW a, Started(o, a)
  PROVE  /\ Failed(o) \in Change /\ Started(Failed(o), a) /\ Reached(Failed(o)) = Reached(o)
         /\ Failed(o).version = o.version /\ AssignmentAfter(Failed(o)) = AssignmentAfter(o)
  BY DEF Failed, Change, Started, Reached, AssignmentAfter, PostOrder, Steps

LEMMA PostTargetStep ==
  ASSUME HubFailoverV4Assumption, NEW c, Requester = {c}, AllOrNothing(c), PostTarget(c)
  PROVE  AllOrNothing(c)'
<1> DEFINE o == serving[c]
           site == PostOrder(o)[Len(o.applied) + 1]
           more == [o EXCEPT !.applied = Append(@, site), !.step = AfterApplied(o)]
<1>1. HubsTypeOK /\ c \in Requester /\ o.kind = "failover" /\ o.step = "apply"
  BY DEF AllOrNothing, PostTarget
<1>2. o \in Change /\ Started(o, assignments) /\ Follows(o, router)
  BY <1>1, ServedTypes DEF AllOrNothing
<1>3. o.version \in 0..(MaxReconcile + 1) /\ o.version \in Nat
  BY <1>2, HubFailoverV4Assumption DEF Change, HubFailoverV4Assumption
<1>4. more \in Change
  BY <1>1, <1>2, AppliedType
<1>5. /\ Started(more, assignments) /\ Reached(more) = Reached(o) \cup {site}
      /\ site \in RouterSite /\ site \notin Reached(o)
      /\ more.version = o.version /\ AssignmentAfter(more) = AssignmentAfter(o)
  BY <1>1, <1>2, <1>4, OneMoreReached
<1>6. /\ Failed(o) \in Change /\ Started(Failed(o), assignments) /\ Reached(Failed(o)) = Reached(o)
      /\ Failed(o).version = o.version /\ AssignmentAfter(Failed(o)) = AssignmentAfter(o)
  BY <1>2, FailedFacts
<1>7. AssignmentAfter(o) \in Assignment
  BY <1>2, AfterType
<1>8. UNCHANGED controllerState
  BY DEF PostTarget
<1>9. \/ /\ Posted(site, o.version, AssignmentAfter(o))
         /\ serving' = [serving EXCEPT ![c] = more]
      \/ /\ PostFailed(site, o.version, AssignmentAfter(o))
         /\ serving' = [serving EXCEPT ![c] = Failed(o)]
  <2>1. [serving EXCEPT ![c].applied = Append(@, site), ![c].step = AfterApplied(o)]
          = [serving EXCEPT ![c] = more]
    BY <1>1, <1>2 DEF HubsTypeOK
  <2> QED
    BY <2>1 DEF PostTarget
<1> HIDE DEF more, site
<1>10. \A v \in {more, Failed(o)} : serving' = [serving EXCEPT ![c] = v]
         => /\ serving'[c] = v
            /\ serving' \in [Requester -> {Idle} \cup Registration \cup Change]
            /\ serving'[c].kind = "failover"
  BY <1>1, <1>4, <1>6 DEF HubsTypeOK, Change
<1> HIDE DEF o
<1>11. CASE /\ Posted(site, o.version, AssignmentAfter(o))
            /\ serving' = [serving EXCEPT ![c] = more]
  <2>1. /\ Installed(site, o.version, AssignmentAfter(o))
        /\ UNCHANGED faults /\ astray' = astray \ {site}
    BY <1>11 DEF Posted
  <2>2. /\ router' \in [RouterSite -> [version : 0..(MaxReconcile + 1), routes : SUBSET (Spoke \X HubRouter)]]
        /\ router'[site].version = o.version /\ router'[site].routes = Desired(site, AssignmentAfter(o))
        /\ \A other \in RouterSite : other # site => router'[other] = router[other]
    BY <1>1, <1>3, <1>5, <1>7, <2>1, InstalledType
  <2>3. HubsTypeOK'
    BY <1>1, <1>8, <1>10, <1>11, <2>1, <2>2 DEF HubsTypeOK, controllerState
  <2>4. Follows(more, router')
    <3> SUFFICES ASSUME NEW t \in Reached(more)
                 PROVE  /\ router'[t].version <= o.version
                        /\ router'[t].routes = Desired(t, AssignmentAfter(o))
      BY <1>5 DEF Follows
    <3>1. CASE t = site
      BY <1>3, <2>2, <3>1
    <3>2. CASE t # site
      <4>1. t \in Reached(o) /\ t \in RouterSite
        <5>1. t \in Reached(o)
          BY <1>5, <3>2
        <5> QED
          BY <1>2, <5>1, ReachedType
      <4> QED
        BY <1>2, <2>2, <3>2, <4>1 DEF Follows
    <3> QED
      BY <3>1, <3>2
  <2>5. Unmoved(RouterSite \ (Reached(more) \cup astray'), router', assignments)
    BY <1>1, <1>5, <2>1, <2>2 DEF AllOrNothing, Unmoved, o
  <2> QED
    BY <1>5, <1>8, <1>10, <1>11, <2>1, <2>3, <2>4, <2>5 DEF AllOrNothing, controllerState
<1>12. CASE PostRefused(site, o.version) /\ UNCHANGED astray
            /\ serving' = [serving EXCEPT ![c] = Failed(o)]
  <2>1. UNCHANGED router /\ faults' \in 0..Faults
    BY <1>1, <1>12, FaultType DEF PostRefused, HubsTypeOK
  <2>2. HubsTypeOK'
    BY <1>1, <1>8, <1>10, <1>12, <2>1 DEF HubsTypeOK, controllerState
  <2>3. serving'[c] = Failed(o) /\ serving'[c].kind = "failover"
    BY <1>10, <1>12
  <2>4. Follows(Failed(o), router')
    BY <1>2, <1>6, <2>1 DEF Follows
  <2>5. Unmoved(RouterSite \ (Reached(Failed(o)) \cup astray), router', assignments)
    BY <1>1, <1>6, <2>1 DEF AllOrNothing, o
  <2> QED
    BY <1>6, <1>8, <1>12, <2>2, <2>3, <2>4, <2>5 DEF AllOrNothing, controllerState
<1>13. CASE /\ HalfApplied(site, o.version, AssignmentAfter(o)) \/ AnswerLost(site, o.version, AssignmentAfter(o))
            /\ serving' = [serving EXCEPT ![c] = Failed(o)]
  <2>1. /\ router' \in [RouterSite -> [version : 0..(MaxReconcile + 1), routes : SUBSET (Spoke \X HubRouter)]]
        /\ \A other \in RouterSite : other # site => router'[other] = router[other]
        /\ faults' \in 0..Faults /\ astray' = astray \cup {site}
    <3>1. CASE HalfApplied(site, o.version, AssignmentAfter(o))
      BY <1>1, <1>5, <1>7, <3>1, HalfAppliedType
    <3>2. CASE AnswerLost(site, o.version, AssignmentAfter(o))
      BY <1>1, <1>3, <1>5, <1>7, <3>2, InstalledType, FaultType DEF AnswerLost
    <3> QED
      BY <1>13, <3>1, <3>2
  <2>2. HubsTypeOK'
    BY <1>1, <1>5, <1>8, <1>10, <1>13, <2>1 DEF HubsTypeOK, controllerState
  <2>3. Reached(o) \subseteq RouterSite
    BY <1>2, ReachedType
  <2>4. Follows(Failed(o), router')
    BY <1>2, <1>5, <1>6, <2>1, <2>3 DEF Follows
  <2>5. Unmoved(RouterSite \ (Reached(Failed(o)) \cup astray'), router', assignments)
    BY <1>1, <1>6, <2>1 DEF AllOrNothing, Unmoved, o
  <2> QED
    BY <1>6, <1>8, <1>10, <1>13, <2>2, <2>4, <2>5 DEF AllOrNothing, controllerState
<1> QED
  BY <1>9, <1>11, <1>12, <1>13 DEF o, PostFailed


LEMMA VerifyStep ==
  ASSUME HubFailoverV4Assumption, NEW c, Requester = {c}, AllOrNothing(c), Verify(c)
  PROVE  AllOrNothing(c)'
<1> DEFINE o == serving[c]
           ready == [o EXCEPT !.step = "commit"]
<1>1. HubsTypeOK /\ c \in Requester /\ o.kind = "failover" /\ o.step = "probe"
  BY DEF AllOrNothing, Verify
<1>2. o \in Change /\ Started(o, assignments) /\ Follows(o, router)
  BY <1>1, ServedTypes DEF AllOrNothing
<1>3. /\ ready \in Change /\ Started(ready, assignments) /\ Reached(ready) = Reached(o)
      /\ ready.version = o.version /\ AssignmentAfter(ready) = AssignmentAfter(o)
  BY <1>1, <1>2 DEF Change, Started, Reached, AssignmentAfter, PostOrder, Steps
<1>4. /\ Failed(o) \in Change /\ Started(Failed(o), assignments) /\ Reached(Failed(o)) = Reached(o)
      /\ Failed(o).version = o.version /\ AssignmentAfter(Failed(o)) = AssignmentAfter(o)
  BY <1>2, FailedFacts
<1>5. \/ serving' = [serving EXCEPT ![c] = ready] /\ UNCHANGED faults
      \/ serving' = [serving EXCEPT ![c] = Failed(o)] /\ Fault
  <2>1. [serving EXCEPT ![c].step = "commit"] = [serving EXCEPT ![c] = ready]
    BY <1>1 DEF HubsTypeOK
  <2> QED
    BY <2>1 DEF Verify
<1>6. faults' \in 0..Faults /\ UNCHANGED <<controllerState, router, astray>>
  BY <1>1, <1>5, FaultType DEF Verify, HubsTypeOK
<1> HIDE DEF ready, o
<1>7. PICK p \in {ready, Failed(o)} : serving' = [serving EXCEPT ![c] = p]
  BY <1>5
<1>8. serving'[c] = p /\ serving' \in [Requester -> {Idle} \cup Registration \cup Change]
      /\ p.kind = "failover"
  BY <1>1, <1>3, <1>4, <1>7 DEF HubsTypeOK, Change
<1>9. HubsTypeOK'
  BY <1>1, <1>6, <1>8 DEF HubsTypeOK, controllerState
<1>10. Started(p, assignments) /\ Reached(p) = Reached(o) /\ Follows(p, router)
  BY <1>2, <1>3, <1>4 DEF Follows
<1>11. Unmoved(RouterSite \ (Reached(p) \cup astray), router, assignments)
  BY <1>1, <1>10 DEF AllOrNothing, o
<1> QED
  BY <1>6, <1>8, <1>9, <1>10, <1>11 DEF AllOrNothing, controllerState

\* What a step of the rollback does to the request.
LEMMA OneLessReached ==
  ASSUME HubFailoverV4Assumption, NEW o \in Change, NEW a, Started(o, a), o.step = "rollback",
         o.applied # <<>>,
         NEW p, p = [o EXCEPT !.applied = SubSeq(@, 1, Len(@) - 1)]
  PROVE  /\ p \in Change /\ Started(p, a)
         /\ o.applied[Len(o.applied)] \in RouterSite
         /\ o.applied[Len(o.applied)] \notin Reached(p)
         /\ Reached(o) = Reached(p) \cup {o.applied[Len(o.applied)]}
         /\ p.version = o.version /\ AssignmentAfter(p) = AssignmentAfter(o)
<1> DEFINE n == Len(o.applied)
           shorter == SubSeq(o.applied, 1, n - 1)
<1>1. n \in 1..3 /\ o.applied \in Seq(RouterSite)
  BY ReachedType
<1>2. shorter \in Seq(RouterSite) /\ Len(shorter) = n - 1 /\ \A i \in 1..(n - 1) : shorter[i] = o.applied[i]
  BY <1>1
<1>3. p \in Change /\ p.applied = shorter /\ p.spoke = o.spoke /\ p.old = o.old /\ p.new = o.new
      /\ p.before = o.before /\ p.version = o.version /\ p.step = "rollback"
  BY <1>2 DEF Change
<1>4. PostOrder(p) = PostOrder(o) /\ AssignmentAfter(p) = AssignmentAfter(o)
  BY <1>3 DEF PostOrder, AssignmentAfter
<1> HIDE DEF shorter
<1>5. \A i \in 1..n : o.applied[i] = PostOrder(o)[i]
  BY DEF Started
<1>6. Started(p, a)
  <2>1. \A i \in 1..(n - 1) : shorter[i] = PostOrder(o)[i]
    BY <1>1, <1>2, <1>5
  <2> HIDE DEF n
  <2>2. n - 1 <= 3
    BY <1>1
  <2> QED
    BY <1>2, <1>3, <1>4, <2>1, <2>2 DEF Started
<1>7. Reached(p) = {PostOrder(o)[i] : i \in 1..(n - 1)} /\ Reached(o) = {PostOrder(o)[i] : i \in 1..n}
  BY <1>2, <1>3, <1>4 DEF Reached
<1>8. o.applied[n] = PostOrder(o)[n]
  BY <1>1, <1>5
<1> HIDE DEF n
<1>9. 1..n = 1..(n - 1) \cup {n} /\ n \in 1..n
  BY <1>1
<1>10. Reached(o) = Reached(p) \cup {PostOrder(o)[n]}
  BY <1>7, <1>9
<1>11. PostOrder(o)[n] \in RouterSite /\ PostOrder(o)[n] \notin Reached(p)
  <2>1. o.new # o.old
    BY DEF Started
  <2> QED
    BY <1>1, <1>7, <2>1, PostOrderFacts
<1> QED
  BY <1>3, <1>4, <1>6, <1>8, <1>10, <1>11 DEF n

LEMMA RollbackStep ==
  ASSUME HubFailoverV4Assumption, NEW c, Requester = {c}, AllOrNothing(c), Rollback(c)
  PROVE  AllOrNothing(c)'
<1> DEFINE o == serving[c]
           site == o.applied[Len(o.applied)]
           less == [o EXCEPT !.applied = SubSeq(@, 1, Len(@) - 1)]
<1>1. HubsTypeOK /\ c \in Requester /\ o.kind = "failover" /\ o.step = "rollback"
  BY DEF AllOrNothing, Rollback
<1>2. o \in Change /\ Started(o, assignments) /\ Follows(o, router)
  BY <1>1, ServedTypes DEF AllOrNothing
<1>3. UNCHANGED controllerState
  BY DEF Rollback
<1>4. CASE o.applied = <<>>
  <2>1. serving' = [serving EXCEPT ![c] = Idle] /\ UNCHANGED <<router, astray, faults>>
    BY <1>4 DEF Rollback
  <2>2. serving'[c] = Idle /\ serving' \in [Requester -> {Idle} \cup Registration \cup Change]
    BY <1>1, <2>1 DEF HubsTypeOK
  <2>3. HubsTypeOK'
    BY <1>1, <1>3, <2>1, <2>2 DEF HubsTypeOK, controllerState
  <2>4. Reached(o) = {}
    <3>1. Len(o.applied) = 0
      BY <1>4
    <3> QED
      BY <3>1 DEF Reached
  <2>5. Unmoved(RouterSite \ astray, router, assignments)
    <3>1. RouterSite \ (Reached(o) \cup astray) = RouterSite \ astray
      BY <2>4
    <3> QED
      BY <1>1, <3>1 DEF AllOrNothing
  <2> QED
    BY <1>3, <2>1, <2>2, <2>3, <2>5 DEF AllOrNothing, controllerState, Idle
<1>5. CASE o.applied # <<>>
  <2>1. /\ serving' = [serving EXCEPT ![c] = less]
        /\ \/ Posted(site, RollbackVersion(o), o.before)
           \/ PostRefused(site, RollbackVersion(o)) /\ astray' = astray \cup {site}
           \/ HalfApplied(site, RollbackVersion(o), o.before)
           \/ AnswerLost(site, RollbackVersion(o), o.before)
    <3>1. [serving EXCEPT ![c].applied = SubSeq(@, 1, Len(@) - 1)] = [serving EXCEPT ![c] = less]
      BY <1>1 DEF HubsTypeOK
    <3> QED
      BY <1>5, <3>1 DEF Rollback
  <2>2. /\ less \in Change /\ Started(less, assignments)
        /\ site \in RouterSite /\ site \notin Reached(less)
        /\ Reached(o) = Reached(less) \cup {site}
        /\ less.version = o.version /\ AssignmentAfter(less) = AssignmentAfter(o)
    BY <1>1, <1>2, <1>5, OneLessReached
  <2> HIDE DEF less, site
  <2>3. serving'[c] = less /\ serving' \in [Requester -> {Idle} \cup Registration \cup Change]
        /\ less.kind = "failover"
    BY <1>1, <2>1, <2>2 DEF HubsTypeOK, Change
  <2>4. o.before = assignments /\ assignments \in Assignment
    BY <1>1, <1>2 DEF Started, HubsTypeOK
  <2>5. o.version \in 1..MaxReconcile
    BY <1>2 DEF Change
  <2>6. RollbackVersion(o) \in 0..(MaxReconcile + 1) /\ RollbackVersion(o) = o.version + 1
        /\ RollbackVersion(o) > router[site].version
    <3>1. site \in Reached(o) /\ router[site].version <= o.version /\ router[site].version \in Nat
      BY <1>1, <1>2, <2>2 DEF Follows, HubsTypeOK
    <3> HIDE DEF o
    <3> QED
      BY <2>5, <3>1, HubFailoverV4Assumption DEF RollbackVersion, HubFailoverV4Assumption
  <2>7. Reached(less) \subseteq RouterSite
    BY <2>2, ReachedType
  <2> HIDE DEF o
  <2>8. CASE /\ Installed(site, RollbackVersion(o), assignments) /\ faults' \in 0..Faults
             /\ astray' \in {astray \ {site}, astray \cup {site}}
    <3>1. /\ router' \in [RouterSite -> [version : 0..(MaxReconcile + 1), routes : SUBSET (Spoke \X HubRouter)]]
          /\ router'[site].routes = Desired(site, assignments)
          /\ \A other \in RouterSite : other # site => router'[other] = router[other]
      BY <1>1, <2>2, <2>4, <2>6, <2>8, InstalledType
    <3>2. HubsTypeOK'
      BY <1>1, <1>3, <2>2, <2>3, <2>8, <3>1 DEF HubsTypeOK, controllerState
    <3>3. Follows(less, router')
      BY <1>2, <2>2, <2>7, <3>1 DEF Follows
    <3>4. Unmoved(RouterSite \ (Reached(less) \cup astray'), router', assignments)
      BY <1>1, <2>2, <2>8, <3>1 DEF AllOrNothing, Unmoved, o
    <3> QED
      BY <1>3, <2>2, <2>3, <3>2, <3>3, <3>4 DEF AllOrNothing, controllerState
  <2>9. CASE \/ PostRefused(site, RollbackVersion(o)) /\ astray' = astray \cup {site}
             \/ HalfApplied(site, RollbackVersion(o), assignments)
    <3>1. /\ router' \in [RouterSite -> [version : 0..(MaxReconcile + 1), routes : SUBSET (Spoke \X HubRouter)]]
          /\ \A other \in RouterSite : other # site => router'[other] = router[other]
          /\ faults' \in 0..Faults /\ astray' = astray \cup {site}
      <4>1. CASE PostRefused(site, RollbackVersion(o)) /\ astray' = astray \cup {site}
        BY <1>1, <4>1, FaultType DEF PostRefused, HubsTypeOK
      <4>2. CASE HalfApplied(site, RollbackVersion(o), assignments)
        BY <1>1, <2>2, <2>4, <4>2, HalfAppliedType
      <4> QED
        BY <2>9, <4>1, <4>2
    <3>2. HubsTypeOK'
      BY <1>1, <1>3, <2>2, <2>3, <3>1 DEF HubsTypeOK, controllerState
    <3>3. Follows(less, router')
      BY <1>2, <2>2, <2>7, <3>1 DEF Follows
    <3>4. Unmoved(RouterSite \ (Reached(less) \cup astray'), router', assignments)
      BY <1>1, <2>2, <3>1 DEF AllOrNothing, Unmoved, o
    <3> QED
      BY <1>3, <2>2, <2>3, <3>2, <3>3, <3>4 DEF AllOrNothing, controllerState
  <2> QED
    BY <1>1, <2>1, <2>4, <2>8, <2>9, FaultType DEF Posted, AnswerLost, HubsTypeOK
<1> QED
  BY <1>4, <1>5

LEMMA CommittedOverall ==
  ASSUME HubFailoverV4Assumption, NEW c, Requester = {c}, AllOrNothing(c), CommitFailover(c)
  PROVE  /\ serving[c] \in Change
         /\ assignments' = AssignmentAfter(serving[c])
         /\ \A site \in HubRouter \cup {serving[c].spoke} :
              router[site].routes = Desired(site, assignments')
<1> DEFINE o == serving[c]
<1>1. HubsTypeOK /\ c \in Requester /\ o.kind = "failover" /\ o.step = "commit"
  BY DEF AllOrNothing, CommitFailover
<1>2. o \in Change /\ Started(o, assignments) /\ Follows(o, router)
  BY <1>1, ServedTypes DEF AllOrNothing
<1>3. assignments' = AssignmentAfter(o)
  BY <1>2 DEF CommitFailover, AssignmentAfter, Started
<1>4. Reached(o) = {PostOrder(o)[i] : i \in 1..3} /\ o.new # o.old
  BY <1>1, <1>2 DEF Started, Reached
<1>5. HubRouter \cup {o.spoke} \subseteq Reached(o)
  BY <1>2, <1>4, PostOrderFacts
<1> QED
  BY <1>2, <1>3, <1>5 DEF Follows

LEMMA CommitStep ==
  ASSUME HubFailoverV4Assumption, NEW c, Requester = {c}, AllOrNothing(c), CommitFailover(c)
  PROVE  AllOrNothing(c)'
<1> DEFINE o == serving[c]
<1>1. HubsTypeOK /\ c \in Requester /\ o.kind = "failover"
  BY DEF AllOrNothing, CommitFailover
<1>2. o \in Change /\ Started(o, assignments) /\ o.before = assignments
  BY <1>1, ServedTypes DEF AllOrNothing, Started
<1>3. /\ assignments' = [assignments EXCEPT ![o.spoke] = o.new]
      /\ reconcileVersion' = o.version
      /\ serving' = [serving EXCEPT ![c] = Idle]
      /\ UNCHANGED <<registered, router, astray, faults>>
  BY DEF CommitFailover
<1>4. assignments' \in Assignment /\ reconcileVersion' \in 0..MaxReconcile
  BY <1>1, <1>2, <1>3, HubFailoverV4Assumption DEF Change, HubsTypeOK, Assignment, HubFailoverV4Assumption
<1>5. serving'[c] = Idle /\ serving' \in [Requester -> {Idle} \cup Registration \cup Change]
  BY <1>1, <1>3 DEF HubsTypeOK
<1>6. HubsTypeOK'
  BY <1>1, <1>3, <1>4, <1>5 DEF HubsTypeOK
<1>7. Unmoved(RouterSite \ astray, router, assignments')
  <2> SUFFICES ASSUME NEW site \in RouterSite \ astray
               PROVE  router[site].routes \in {{}, Desired(site, assignments')}
    BY DEF Unmoved
  <2>1. CASE site \in HubRouter \cup {o.spoke}
    BY <2>1, CommittedOverall
  <2>2. CASE site \notin HubRouter \cup {o.spoke}
    <3>1. site \notin Reached(o)
      <4>1. Reached(o) \subseteq {o.old, o.new, o.spoke}
        <5>1. Len(o.applied) \in 0..3
          BY <1>2, ReachedType
        <5>2. PostOrder(o)[1] = o.old /\ PostOrder(o)[2] = o.new /\ PostOrder(o)[3] = o.spoke
          BY DEF PostOrder
        <5> HIDE DEF o
        <5>3. \A i \in 1..Len(o.applied) : i \in {1, 2, 3}
          <6> DEFINE n == Len(o.applied)
          <6> HIDE DEF n
          <6>1. n \in 0..3
            BY <5>1 DEF n
          <6>2. \A i \in 1..n : i = 1 \/ i = 2 \/ i = 3
            BY <6>1
          <6> QED
            BY <6>2 DEF n
        <5> QED
          BY <5>2, <5>3 DEF Reached
      <4>2. o.old \in HubRouter /\ o.new \in HubRouter
        BY <1>2 DEF Change
      <4> QED
        BY <2>2, <4>1, <4>2
    <3>2. router[site].routes \in {{}, Desired(site, assignments)}
      BY <1>1, <3>1 DEF AllOrNothing, Unmoved
    <3>3. site \in Spoke /\ assignments'[site] = assignments[site]
      BY <1>1, <1>3, <2>2 DEF RouterSite, HubsTypeOK, Assignment
    <3>4. Desired(site, assignments') = Desired(site, assignments)
      BY <2>2, <3>3 DEF Desired
    <3> QED
      BY <3>2, <3>4
  <2> QED
    BY <2>1, <2>2
<1>8. Idle.kind = "idle"
  BY DEF Idle
<1> QED
  BY <1>3, <1>5, <1>6, <1>7, <1>8 DEF AllOrNothing

LEMMA RouterRestartStep ==
  ASSUME HubFailoverV4Assumption, NEW c, Requester = {c}, AllOrNothing(c),
         NEW site \in RouterSite, RouterRestart(site)
  PROVE  AllOrNothing(c)'
<1>1. HubsTypeOK /\ c \in Requester
  BY DEF AllOrNothing
<1>2. /\ router' = [router EXCEPT ![site].version = 0]
      /\ faults' \in 0..Faults /\ UNCHANGED <<controllerState, serving, astray>>
  BY <1>1, FaultType DEF RouterRestart
<1>3. 0 \in 0..(MaxReconcile + 1)
  BY DEF HubFailoverV4Assumption
<1>4. /\ router' \in [RouterSite -> [version : 0..(MaxReconcile + 1), routes : SUBSET (Spoke \X HubRouter)]]
      /\ \A other \in RouterSite : router'[other].routes = router[other].routes
      /\ \A other \in RouterSite : router'[other].version \in {0, router[other].version}
  BY <1>1, <1>2, <1>3 DEF HubsTypeOK
<1>5. HubsTypeOK'
  BY <1>1, <1>2, <1>4 DEF HubsTypeOK, controllerState
<1>6. ASSUME serving[c].kind = "failover"
      PROVE  Follows(serving[c], router')
  <2>1. serving[c] \in Change /\ Started(serving[c], assignments) /\ Follows(serving[c], router)
    BY <1>1, <1>6, ServedTypes DEF AllOrNothing
  <2>2. Reached(serving[c]) \subseteq RouterSite /\ serving[c].version \in 1..MaxReconcile
    BY <2>1, ReachedType DEF Change
  <2> QED
    BY <1>4, <2>1, <2>2 DEF Follows
<1>7. \A sites \in SUBSET RouterSite : Unmoved(sites, router, assignments) => Unmoved(sites, router', assignments)
  BY <1>4 DEF Unmoved
<1> QED
  BY <1>2, <1>5, <1>6, <1>7 DEF AllOrNothing, controllerState

LEMMA AllOrNothingStep ==
  ASSUME HubFailoverV4Assumption, NEW c, Requester = {c}, AllOrNothing(c), [HubsNext]_hubsVars
  PROVE  AllOrNothing(c)'
<1>1. CASE RegisterSpoke(c)
  BY <1>1, RegisterStep
<1>2. CASE PostRegistration(c)
  BY <1>2, PostRegistrationStep
<1>3. CASE \E s \in Spoke, new \in HubRouter : Failover(c, s, new)
  BY <1>3, FailoverStep
<1>4. CASE PostTarget(c)
  BY <1>4, PostTargetStep
<1>5. CASE Verify(c)
  BY <1>5, VerifyStep
<1>6. CASE Rollback(c)
  BY <1>6, RollbackStep
<1>7. CASE CommitFailover(c)
  BY <1>7, CommitStep
<1>8. CASE \E site \in RouterSite : RouterRestart(site)
  BY <1>8, RouterRestartStep
<1>9. CASE UNCHANGED hubsVars
  BY <1>9 DEF hubsVars, AllOrNothing, HubsTypeOK
<1> QED
  BY <1>1, <1>2, <1>3, <1>4, <1>5, <1>6, <1>7, <1>8, <1>9 DEF HubsNext

\* The action property of a step.
CommitIsInstalled ==
  \A s \in Spoke :
    assignments'[s] # assignments[s]
    => \A site \in HubRouter \cup {s} : <<s, assignments'[s]>> \in router[site].routes

LEMMA CommitInstalledStep ==
  ASSUME HubFailoverV4Assumption, NEW c, Requester = {c}, AllOrNothing(c), [HubsNext]_hubsVars
  PROVE  CommitIsInstalled
<1>1. CASE CommitFailover(c)
  <2> SUFFICES ASSUME NEW s \in Spoke, assignments'[s] # assignments[s], NEW site \in HubRouter \cup {s}
               PROVE  <<s, assignments'[s]>> \in router[site].routes
    BY DEF CommitIsInstalled
  <2>1. s = serving[c].spoke
    BY <1>1 DEF CommitFailover, AllOrNothing, HubsTypeOK, Assignment
  <2>2. router[site].routes = Desired(site, assignments')
    BY <1>1, <2>1, CommittedOverall
  <2> QED
    BY <2>2 DEF Desired
<1>2. CASE UNCHANGED assignments
  BY <1>2 DEF CommitIsInstalled
<1>3. CommitFailover(c) \/ UNCHANGED assignments
  BY DEF HubsNext, hubsVars, RegisterSpoke, PostRegistration, Failover, PostTarget, Verify, Rollback,
         RouterRestart, controllerState
<1> QED
  BY <1>1, <1>2, <1>3

(***************************************************************************)
(* A failover is all or nothing on every router that leaves the controller *)
(* no doubt: between requests it routes as the assignments say or not at   *)
(* all, whatever others refused, lost or applied by half; for any spokes,  *)
(* versions and faults, with one caller at a time                          *)
(* (policy_service_v4.py:265-313, edge_agent_v4.py:215-232).               *)
(***************************************************************************)
THEOREM SpecRoutersAgree ==
  HubFailoverV4Assumption /\ (\E c : Requester = {c}) => (HubsSpec => []RoutersAgree)
<1> SUFFICES ASSUME HubFailoverV4Assumption, NEW c, Requester = {c}
             PROVE  HubsSpec => []RoutersAgree
  OBVIOUS
<1>1. HubsInit => AllOrNothing(c)
  BY AllOrNothingInit
<1>2. AllOrNothing(c) /\ [HubsNext]_hubsVars => AllOrNothing(c)'
  BY AllOrNothingStep
<1>3. AllOrNothing(c) => RoutersAgree
  BY DEF AllOrNothing, RoutersAgree, Quiet, Unmoved, Idle
<1> QED
  BY <1>1, <1>2, <1>3, PTL DEF HubsSpec

(***************************************************************************)
(* A spoke is assigned to another hub only when both hubs and the spoke    *)
(* itself already route it there; for any spokes, versions and faults,     *)
(* with one caller at a time (policy_service_v4.py:290-309).               *)
(***************************************************************************)
THEOREM SpecCommitMeansInstalled ==
  HubFailoverV4Assumption /\ (\E c : Requester = {c}) => (HubsSpec => CommitMeansInstalled)
<1> SUFFICES ASSUME HubFailoverV4Assumption, NEW c, Requester = {c}
             PROVE  HubsSpec => CommitMeansInstalled
  OBVIOUS
<1>1. HubsInit => AllOrNothing(c)
  BY AllOrNothingInit
<1>2. AllOrNothing(c) /\ [HubsNext]_hubsVars => AllOrNothing(c)'
  BY AllOrNothingStep
<1>3. AllOrNothing(c) /\ [HubsNext]_hubsVars => [CommitIsInstalled]_hubsVars
  BY CommitInstalledStep
<1> QED
  BY <1>1, <1>2, <1>3, PTL DEF HubsSpec, CommitMeansInstalled, CommitIsInstalled
=============================================================================
