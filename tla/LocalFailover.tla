---------------------------- MODULE LocalFailover ---------------------------
(***************************************************************************)
(* LocalFailoverManager (src/sdwan_v5/local_failover.py) as its callers    *)
(* see it: several threads remap and restore slots through one manager,    *)
(* whose lock makes every method one step.  A caller may answer a lost     *)
(* reply by calling again with the same event id, and may protect itself   *)
(* against the others with expected_version: it reads route_version,       *)
(* decides about a slot, and remaps if the version still stands.           *)
(* The failover runtime of EdgeFailover is one caller, without a version.  *)
(***************************************************************************)
EXTENDS RouteSlot, FiniteSets

CONSTANTS
  Slot,      \* names of the slots
  Initial,   \* Initial[s]: target the manager was constructed with
  EventId    \* ids that callers use, which bounds the emergencies

(* Assumed of the constants, where the module is extended. *)
ManagerAssumption ==
  /\ Slot # {}
  /\ Initial \in [Slot -> Target]
  /\ IsFiniteSet(EventId)
  /\ DrainAssumption

VARIABLES
  slots,         \* _slots
  routeVersion,  \* route_version
  events,        \* _events
  view           \* what the version-checking caller has read so far

managerVars == <<slots, routeVersion, events, view>>

Nothing == "nothing"
NoView == [slot |-> Nothing, version |-> 0]
Unchecked == -1   \* expected_version is None

Event == [id : EventId, slot : Slot, old : Target, new : Target, version : Nat \ {0}]
View == [slot : Slot, version : Nat]

ManagerTypeOK ==
  /\ slots \in [Slot -> SlotState]
  /\ routeVersion \in Nat
  /\ events \subseteq Event
  /\ IsFiniteSet(events)
  /\ view \in View \cup {NoView}

ManagerInit ==
  /\ slots = [s \in Slot |-> Confirmed(Initial[s])]
  /\ routeVersion = 0
  /\ events = {}
  /\ view = NoView

-----------------------------------------------------------------------------
Handled(id) == \E e \in events : e.id = id

Admits(expected) == expected \in {Unchecked, routeVersion}

\* emergency_remap that takes effect.
EmergencyRemap(id, s, replacement, expected) ==
  /\ ~Handled(id)
  /\ Admits(expected)
  /\ slots[s].current # replacement
  /\ slots' = [slots EXCEPT ![s] = Remapped(@, replacement)]
  /\ routeVersion' = routeVersion + 1
  /\ events' = events \cup
       {[id |-> id, slot |-> s, old |-> slots[s].current, new |-> replacement,
         version |-> routeVersion + 1]}
  /\ UNCHANGED view

\* emergency_remap that answers with the event of an earlier call, with
\* StaleRouteVersion or with ValueError.
RemapRefused(id, s, replacement, expected) ==
  /\ \/ Handled(id)
     \/ ~Admits(expected)
     \/ slots[s].current = replacement
  /\ UNCHANGED managerVars

Remap(id, s, replacement, expected) ==
  \/ EmergencyRemap(id, s, replacement, expected)
  \/ RemapRefused(id, s, replacement, expected)

BeginRecovery(s) ==
  /\ slots' = [slots EXCEPT ![s] = RecoveryBegun(@)]
  /\ UNCHANGED <<routeVersion, events, view>>

CompleteRecovery(s, active) ==
  /\ DrainOver(slots[s], active)
  /\ slots' = [slots EXCEPT ![s] = Restored(@)]
  /\ routeVersion' = routeVersion + 1
  /\ UNCHANGED <<events, view>>

\* complete_recovery that returns None.
RecoveryRefused(s, active) ==
  /\ ~DrainOver(slots[s], active)
  /\ UNCHANGED managerVars

DrainTick ==
  /\ slots' = [s \in Slot |-> Drained(slots[s])]
  /\ UNCHANGED <<routeVersion, events, view>>

\* A caller that checks versions reads the version before it decides.
ReadVersion(s) ==
  /\ view' = [slot |-> s, version |-> routeVersion]
  /\ UNCHANGED <<slots, routeVersion, events>>

CheckedRemap(id, replacement) ==
  /\ view # NoView
  /\ Remap(id, view.slot, replacement, view.version)

ManagerNext ==
  \/ \E id \in EventId, replacement \in Target :
       \/ CheckedRemap(id, replacement)
       \/ \E s \in Slot : Remap(id, s, replacement, Unchecked)
  \/ \E s \in Slot :
       \/ BeginRecovery(s)
       \/ ReadVersion(s)
       \/ \E active \in BOOLEAN : CompleteRecovery(s, active) \/ RecoveryRefused(s, active)
  \/ DrainTick

ManagerSpec == ManagerInit /\ [][ManagerNext]_managerVars

-----------------------------------------------------------------------------
EventsOf(s) == {e \in events : e.slot = s}

(***************************************************************************)
(* The event log explains the slots: in an emergency the newest event of a *)
(* slot names the target it is on and the one it will go back to; outside  *)
(* one the slot is where that event found it.  The status file and the     *)
(* events the edge reports rely on it (local_failover.py:74-79, 96-98).    *)
(***************************************************************************)
Explains(e, state) ==
  IF state.emergency
  THEN state.current = e.new /\ state.previous = e.old
  ELSE state.current = e.old
EventsExplainSlots ==
  \A s \in Slot :
    IF EventsOf(s) = {}
    THEN slots[s] = Confirmed(Initial[s])
    ELSE \E e \in EventsOf(s) :
           /\ \A other \in EventsOf(s) : other.version <= e.version
           /\ Explains(e, slots[s])
=============================================================================
