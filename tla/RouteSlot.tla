------------------------------ MODULE RouteSlot -----------------------------
(***************************************************************************)
(* The per-slot record of LocalFailoverManager                             *)
(* (src/sdwan_v5/local_failover.py) and what its three methods do to it.   *)
(* drain is what is left of drain_deadline, in ticks.                      *)
(***************************************************************************)
EXTENDS Integers

CONSTANTS
  Target,        \* the interfaces a slot can be steered to
  DrainTimeout   \* drain_timeout_s in ticks

\* The constructor refuses a drain timeout that is not positive
\* (local_failover.py:44): assumed where the module is instantiated.
DrainAssumption == DrainTimeout \in Nat \ {0}

NoDeadline == -1   \* drain_deadline is None

SlotState == [current   : Target,
              previous  : Target,
              emergency : BOOLEAN,
              drain     : NoDeadline..DrainTimeout]

Confirmed(target) ==
  [current |-> target, previous |-> target, emergency |-> FALSE, drain |-> NoDeadline]

\* Faulty variant: an emergency on top of another one keeps the first target.
RemappedKeepingOrigin(slot, replacement) ==
  [current |-> replacement, previous |-> slot.previous,
   emergency |-> TRUE, drain |-> NoDeadline]

\* emergency_remap: the target being left becomes the one to come back to.
Remapped(slot, replacement) ==
  [current |-> replacement, previous |-> slot.current,
   emergency |-> TRUE, drain |-> NoDeadline]

\* Faulty variant: no deadline is armed.
RecoveryBegunUnarmed(slot) == slot

\* begin_recovery: arms the deadline anew, and only in an emergency.
RecoveryBegun(slot) ==
  IF slot.emergency THEN [slot EXCEPT !.drain = DrainTimeout] ELSE slot

\* Faulty variant: the flows are not asked for.
DrainOverUnasked(slot, active) == slot.emergency /\ slot.drain # NoDeadline

\* The conditions under which complete_recovery does not return None.
DrainOver(slot, active) ==
  /\ slot.emergency
  /\ slot.drain # NoDeadline
  /\ active => slot.drain = 0

\* complete_recovery: back to the previous target, as if it had been confirmed.
Restored(slot) == Confirmed(slot.previous)

\* One tick of the monotonic clock.
Drained(slot) == [slot EXCEPT !.drain = IF @ > 0 THEN @ - 1 ELSE @]
=============================================================================
