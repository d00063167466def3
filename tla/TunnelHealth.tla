---------------------------- MODULE TunnelHealth ----------------------------
(***************************************************************************)
(* The per-tunnel verdict of src/sdwan_v5/tunnel_health.py as a function   *)
(* of one health record and one probe result.                              *)
(*                                                                         *)
(* Time is counted in ticks.  hold is what is left of hold_down_until: the *)
(* test now >= hold_down_until of the code is hold = 0 here.  The success  *)
(* counter is read only while RECOVERING and only against                  *)
(* RecoverySuccesses, the failure counter only against the two failure     *)
(* thresholds, so each saturates at the largest threshold it meets.        *)
(***************************************************************************)
EXTENDS Integers

CONSTANTS
  SuspectFailures,    \* consecutive failures that make a tunnel SUSPECT
  FailedFailures,     \* consecutive failures that make a tunnel FAILED
  RecoverySuccesses,  \* consecutive successes that end RECOVERING
  HoldDown            \* ticks after a failure before RECOVERING may end

\* The constructor refuses any other thresholds (tunnel_health.py:60).
ASSUME ThresholdAssumption ==
  /\ SuspectFailures \in Nat \ {0}
  /\ FailedFailures \in Nat
  /\ SuspectFailures < FailedFailures
  /\ RecoverySuccesses \in Nat \ {0}
  /\ HoldDown \in Nat

TunnelState == {"UNKNOWN", "HEALTHY", "SUSPECT", "FAILED", "RECOVERING"}

Health == [state     : TunnelState,
           successes : 0..RecoverySuccesses,
           failures  : 0..FailedFailures,
           hold      : 0..HoldDown]

NotMeasured == [state |-> "UNKNOWN", successes |-> 0, failures |-> 0, hold |-> 0]

UpTo(n, bound) == IF n > bound THEN bound ELSE n

(***************************************************************************)
(* observe() with a usable sample.  Every state except FAILED and          *)
(* RECOVERING becomes HEALTHY at once, SUSPECT included.                   *)
(***************************************************************************)
\* Faulty variant: either condition ends the recovery.
RecoveryCompleteEither(successes, hold) ==
  successes >= RecoverySuccesses \/ hold = 0

RecoveryComplete(successes, hold) ==
  successes >= RecoverySuccesses /\ hold = 0

AfterUsable(h) ==
  LET successes == UpTo(h.successes + 1, RecoverySuccesses)
      waits == \/ h.state = "FAILED"
               \/ h.state = "RECOVERING" /\ ~RecoveryComplete(successes, h.hold)
  IN  [state     |-> IF waits THEN "RECOVERING" ELSE "HEALTHY",
       successes |-> successes,
       failures  |-> 0,
       hold      |-> h.hold]

(***************************************************************************)
(* observe() with an unusable sample.  Below the suspect threshold the old *)
(* state is kept; the hold-down restarts at every failure.                 *)
(***************************************************************************)
AfterUnusable(h) ==
  LET failures == UpTo(h.failures + 1, FailedFailures)
  IN  [state     |-> IF failures >= FailedFailures THEN "FAILED"
                     ELSE IF failures >= SuspectFailures THEN "SUSPECT"
                     ELSE h.state,
       successes |-> 0,
       failures  |-> failures,
       hold      |-> HoldDown]

\* One tick of the monotonic clock for one tunnel.
Aged(h) == [h EXCEPT !.hold = IF @ = 0 THEN 0 ELSE @ - 1]
=============================================================================
