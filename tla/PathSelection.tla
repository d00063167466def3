---------------------------- MODULE PathSelection ---------------------------
(***************************************************************************)
(* Measurement epochs and path selection in version 4.  The edge           *)
(* (collect_metrics and _monitor in edge_agent_v4.py) numbers its rounds   *)
(* and posts one metric per transport, giving up the rest of a round when  *)
(* a post fails; the controller (ingest_metric in policy_service_v4.py)    *)
(* collects them until an epoch is complete; EpochSLAEngine                *)
(* (path_selection_v4.py) then decides, with hysteresis.                   *)
(*                                                                         *)
(* One spoke, hub and application class.  What the measured numbers amount *)
(* to is chosen per epoch: the transports within the SLA, the best of them *)
(* and whether it is better by switch_improvement_pct.                     *)
(* Bounds: MaxMeasured on the edge's epoch counter, MaxRounds on its rounds. *)
(***************************************************************************)
EXTENDS Integers, Sequences, FiniteSets

CONSTANTS
  Order,            \* the underlays in configuration order
  FailedEpochs,     \* failed_epochs_before_down
  PathHoldDown,     \* hold_down_s in ticks
  MinimumPathTime,  \* minimum_path_time_s in ticks
  MaxMeasured, MaxRounds

Underlays == {Order[i] : i \in DOMAIN Order}

(* Assumed of the constants, where the module is extended. *)
PathSelectionAssumption ==
  /\ Order \in Seq(Underlays) /\ Len(Order) > 1
  /\ \A i, j \in DOMAIN Order : Order[i] = Order[j] => i = j
  /\ FailedEpochs \in Nat \ {0} /\ PathHoldDown \in Nat /\ MinimumPathTime \in Nat
  /\ MaxMeasured \in Nat /\ MaxRounds \in Nat

VARIABLES
  epoch,        \* the edge's epoch
  round,        \* history: number of the edge's round
  outbox,       \* metrics of the round still to be posted
  buffer,       \* epoch_buffer
  lastEpoch,    \* last_epoch of the engine
  selection,    \* selections of the class
  judged,       \* history: the path last judged and, for the epochs it was judged
                \* in since its selection, newest first, whether it met the SLA
  divided,      \* history: a probe moved the epoch on in the middle of a round
  mixed         \* history: an epoch was decided from metrics of two rounds

edgeState == <<epoch, round, outbox, divided>>
engine == <<lastEpoch, selection, judged, mixed>>
selectionVars == <<epoch, round, outbox, buffer, lastEpoch, selection, judged, divided, mixed>>

Metric == [underlay : Underlays, epoch : 1..MaxMeasured, round : 1..MaxRounds]
NoPath == "no path"
Longest == IF PathHoldDown > MinimumPathTime THEN PathHoldDown ELSE MinimumPathTime

\* since and last_change are always set together; age counts from them.
Selection == [path : Underlays \cup {NoPath}, age : 0..Longest, badEpochs : 0..FailedEpochs]

SelectionTypeOK ==
  /\ epoch \in 0..MaxMeasured /\ round \in 0..MaxRounds
  /\ outbox \in Seq(Metric)
  /\ buffer \subseteq Metric
  /\ lastEpoch \in -1..MaxMeasured
  /\ selection \in Selection
  /\ judged.path \in Underlays \cup {NoPath} /\ judged.met \in Seq(BOOLEAN)
  /\ divided \in BOOLEAN /\ mixed \in BOOLEAN

SelectionInit ==
  /\ epoch = 0 /\ round = 0 /\ outbox = <<>>
  /\ buffer = {}
  /\ lastEpoch = -1
  /\ selection = [path |-> NoPath, age |-> 0, badEpochs |-> 0]
  /\ judged = [path |-> NoPath, met |-> <<>>]
  /\ divided = FALSE /\ mixed = FALSE

-----------------------------------------------------------------------------
(* The edge *)

\* collect_metrics of the monitor.  Every metric takes the epoch counter as it
\* is at that moment: a probe for a failover that comes in between, before
\* the metric number cut, moves it on for the rest of the round.
Measure ==
  /\ outbox = <<>>
  /\ round < MaxRounds
  /\ \E cut \in 2..(Len(Order) + 1) :
       LET last == IF cut <= Len(Order) THEN epoch + 2 ELSE epoch + 1 IN
       /\ last <= MaxMeasured
       /\ divided' = (divided \/ cut <= Len(Order))
       /\ epoch' = last
       /\ outbox' = [i \in DOMAIN Order |->
                       [underlay |-> Order[i], round |-> round + 1,
                        epoch |-> IF i < cut THEN epoch + 1 ELSE last]]
  /\ round' = round + 1
  /\ UNCHANGED <<buffer, engine>>

\* collect_metrics of a probe between two rounds; its metrics are not posted.
Probe ==
  /\ epoch < MaxMeasured
  /\ epoch' = epoch + 1
  /\ UNCHANGED <<round, outbox, divided, buffer, engine>>

\* The agent starts again and counts from the beginning.
AgentRestart ==
  /\ epoch > 0
  /\ epoch' = 0
  /\ outbox' = <<>>
  /\ UNCHANGED <<round, divided, buffer, engine>>

\* A post that does not arrive ends the round.
PostLost ==
  /\ outbox # <<>>
  /\ outbox' = <<>>
  /\ UNCHANGED <<epoch, round, divided, buffer, engine>>

-----------------------------------------------------------------------------
(* EpochSLAEngine._decide *)

\* Faulty variant: failures are added up, not counted in a row.
BadAddedUp(within) ==
  IF selection.path \in within \/ selection.badEpochs = FailedEpochs
  THEN selection.badEpochs ELSE selection.badEpochs + 1
\* bad_epochs, which is only compared with FailedEpochs.
Bad(within) ==
  IF selection.path \in within THEN 0
  ELSE IF selection.badEpochs < FailedEpochs THEN selection.badEpochs + 1 ELSE FailedEpochs

\* The path selected so far is given up: for its failures, or for a better one.
Leaves(within, better) ==
  /\ selection.age >= PathHoldDown
  /\ IF selection.path \notin within
     THEN Bad(within) >= FailedEpochs
     ELSE selection.age >= MinimumPathTime /\ better

Chosen(path) == [path |-> path, age |-> 0, badEpochs |-> 0]

\* Two selections in a row differ, so a new path starts a new history.
Judged(met) ==
  LET before == IF judged.path = selection.path THEN judged.met ELSE <<>>
      kept == SubSeq(before, 1, IF Len(before) < FailedEpochs THEN Len(before) ELSE FailedEpochs - 1)
  IN [path |-> selection.path, met |-> <<met>> \o kept]

\* The candidate is the best by score of those within the SLA, if any.
Decide ==
  \E within \in SUBSET Underlays, better \in BOOLEAN :
    \E candidate \in (IF within = {} THEN Underlays ELSE within) :
      IF selection.path = NoPath
      THEN selection' = Chosen(candidate) /\ UNCHANGED judged
      ELSE /\ selection' = IF candidate # selection.path /\ Leaves(within, better)
                           THEN Chosen(candidate)
                           ELSE [selection EXCEPT !.badEpochs = Bad(within)]
           /\ judged' = Judged(selection.path \in within)

-----------------------------------------------------------------------------
(* ingest_metric and EpochSLAEngine.ingest_epoch *)

Bucket(e) == {m \in buffer : m.epoch = e}

\* Faulty variant: the edge goes on with its round after a refusal.
GoesOn == Tail(outbox)
GivesUp == <<>>

Duplicate(m) == \E other \in Bucket(m.epoch) : other.underlay = m.underlay

NewEpoch(e) == e > lastEpoch

\* The next metric is posted.  A duplicate and an epoch that is not new are
\* refused; a refusal and an answer that comes too late end the edge's round.
Post ==
  /\ outbox # <<>>
  /\ LET m == Head(outbox)
         bucket == {other \in Bucket(m.epoch) : other.underlay # m.underlay} \cup {m}
         complete == Cardinality(bucket) = Cardinality(Underlays)
     IN IF Duplicate(m)
        THEN outbox' = GivesUp /\ UNCHANGED <<buffer, engine>>
        ELSE /\ buffer' = (buffer \ Bucket(m.epoch)) \cup (IF complete THEN {} ELSE bucket)
             /\ IF complete /\ NewEpoch(m.epoch)
                THEN /\ Decide
                     /\ lastEpoch' = m.epoch
                     /\ mixed' = (mixed \/ \E other \in bucket : other.round # m.round)
                ELSE UNCHANGED engine
             /\ outbox' \in {<<>>, IF complete /\ ~NewEpoch(m.epoch) THEN <<>> ELSE Tail(outbox)}
  /\ UNCHANGED <<epoch, round, divided>>

SelectionTick ==
  /\ selection.path # NoPath /\ selection.age < Longest
  /\ selection' = [selection EXCEPT !.age = @ + 1]
  /\ UNCHANGED <<edgeState, buffer, lastEpoch, judged, mixed>>

SelectionNext == Measure \/ Probe \/ AgentRestart \/ PostLost \/ Post \/ SelectionTick

SelectionSpec == SelectionInit /\ [][SelectionNext]_selectionVars

-----------------------------------------------------------------------------
(***************************************************************************)
(* Every decision is made from the metrics of one round, although rounds   *)
(* are cut short by lost posts and late answers, incomplete epochs stay    *)
(* buffered for ever and a restarted edge uses the same numbers again: its *)
(* posts of such an epoch fail as duplicates before they complete it.      *)
(* Only a probe for a failover in the middle of a round can break this     *)
(* (policy_service_v4.py:136-147, path_selection_v4.py:50-62,              *)
(* edge_agent_v4.py:876-880).                                              *)
(***************************************************************************)
OneRoundPerDecision == mixed => divided

(***************************************************************************)
(* A class leaves its path only after HoldDown ticks on it, and only for   *)
(* FailedEpochs decided epochs in a row outside the SLA, this one included, *)
(* or, from a path within it, after MinimumPathTime                        *)
(* (path_selection_v4.py:152-165).                                         *)
(***************************************************************************)
LeftOnEvidence ==
  [][ selection.path # NoPath /\ selection'.path # selection.path
      => /\ selection.age >= PathHoldDown
         /\ IF judged'.met[1]
            THEN selection.age >= MinimumPathTime
            ELSE /\ Len(judged'.met) = FailedEpochs
                 /\ \A i \in 1..FailedEpochs : ~judged'.met[i] ]_selectionVars
=============================================================================
