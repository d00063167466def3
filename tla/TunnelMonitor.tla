---------------------------- MODULE TunnelMonitor ---------------------------
(***************************************************************************)
(* One TunnelHealthMachine fed by a probe whose samples may reach          *)
(* observe() late, twice or out of order: the duplicate and staleness      *)
(* tests of tunnel_health.py:75-78 are there for exactly that.             *)
(***************************************************************************)
EXTENDS TunnelHealth, FiniteSets

CONSTANTS
  StaleAfter,   \* stale_after_s in ticks
  MaxSequence   \* bound: probes taken in one behaviour

(* Assumed of the constants, where the module is extended. *)
MonitorAssumption == StaleAfter \in Nat /\ MaxSequence \in Nat

VARIABLES
  health,        \* TunnelHealth of the machine
  lastSequence,  \* last_sequence, the newest sample taken into account
  taken,         \* samples produced so far; each may be delivered at any time
  accepted,      \* history: the samples observe() took into account
  quiet          \* history: ticks since the last failure was observed

monitorVars == <<health, lastSequence, taken, accepted, quiet>>

Sequence == 1..MaxSequence
Sample == [seq : Sequence, usable : BOOLEAN, age : 0..(StaleAfter + 1)]
Accepted == [seq : Sequence, usable : BOOLEAN]

MonitorTypeOK ==
  /\ health \in Health
  /\ lastSequence \in Sequence \cup {-1}
  /\ taken \in SUBSET Sample
  /\ accepted \in SUBSET Accepted
  /\ quiet \in 0..HoldDown

MonitorInit ==
  /\ health = NotMeasured
  /\ lastSequence = -1
  /\ taken = {}
  /\ accepted = {}
  /\ quiet = HoldDown

-----------------------------------------------------------------------------
\* The probe produces the next numbered sample (bounded by MaxSequence).
TakeSample(usable) ==
  /\ Cardinality(taken) < MaxSequence
  /\ taken' = taken \cup {[seq |-> Cardinality(taken) + 1, usable |-> usable, age |-> 0]}
  /\ UNCHANGED <<health, lastSequence, accepted, quiet>>

\* Faulty variant: the newest sample may be delivered twice.
FreshOrRepeated(sample) ==
  /\ sample.seq >= lastSequence
  /\ sample.age <= StaleAfter

Fresh(sample) ==
  /\ sample.seq > lastSequence
  /\ sample.age <= StaleAfter

\* observe() of a sample that passes both tests.
Observe(sample) ==
  /\ Fresh(sample)
  /\ health' = IF sample.usable THEN AfterUsable(health) ELSE AfterUnusable(health)
  /\ lastSequence' = sample.seq
  /\ accepted' = accepted \cup {[seq |-> sample.seq, usable |-> sample.usable]}
  /\ quiet' = IF sample.usable THEN quiet ELSE 0
  /\ UNCHANGED taken

\* observe() of any other sample raises StaleMeasurement and changes nothing.
RejectStale(sample) ==
  /\ ~Fresh(sample)
  /\ UNCHANGED monitorVars

Tick ==
  /\ health' = Aged(health)
  /\ taken' = {[s EXCEPT !.age = UpTo(@ + 1, StaleAfter + 1)] : s \in taken}
  /\ quiet' = UpTo(quiet + 1, HoldDown)
  /\ UNCHANGED <<lastSequence, accepted>>

MonitorNext ==
  \/ \E usable \in BOOLEAN : TakeSample(usable)
  \/ \E sample \in taken : Observe(sample) \/ RejectStale(sample)
  \/ Tick

MonitorSpec == MonitorInit /\ [][MonitorNext]_monitorVars

-----------------------------------------------------------------------------
\* The unusable samples since the last usable one, by their own numbers.
TrailingFailures ==
  {a \in accepted : \A b \in accepted : b.seq >= a.seq => ~b.usable}

TrailingSuccesses ==
  {a \in accepted : \A b \in accepted : b.seq >= a.seq => b.usable}

(***************************************************************************)
(* FAILED is declared on evidence and only on evidence: exactly when the   *)
(* last FailedFailures distinct probes, in the order they were taken, all  *)
(* failed.  A duplicate counted twice, a late sample counted out of order  *)
(* or a failure run not cut by a success would break it.                   *)
(***************************************************************************)
FailedOnEvidence ==
  health.state = "FAILED" <=> Cardinality(TrailingFailures) >= FailedFailures

(***************************************************************************)
(* A RECOVERING tunnel turns HEALTHY only after RecoverySuccesses distinct *)
(* successful probes in a row and HoldDown ticks without a failure         *)
(* (tunnel_health.py:84-88).                                               *)
(***************************************************************************)
RecoveryEarned ==
  [][ health.state = "RECOVERING" /\ health'.state = "HEALTHY"
      => /\ Cardinality(TrailingSuccesses') >= RecoverySuccesses
         /\ quiet = HoldDown ]_monitorVars
=============================================================================
