----------------------------- MODULE EdgeAgentV4 ----------------------------
(***************************************************************************)
(* Blackout handling of the version 4 edge agent                           *)
(* (src/sdwan_v4/edge_agent_v4.py, src/sdwan_v4/local_failover.py).        *)
(* A monitor thread probes the transports, moves the route slot of a dead  *)
(* one to a healthy one and brings it back after a drain.  Requests of the *)
(* controller reconcile the router at the same time: they rewrite every    *)
(* route table under the actuator's lock, which remap_slot takes too, and  *)
(* know nothing of the failover manager.  A slot and its transport share   *)
(* one name.                                                               *)
(*                                                                         *)
(* Bounds: Disturbances limits the reconciles and failing commands of one  *)
(* behaviour.                                                              *)
(***************************************************************************)
EXTENDS Integers, Sequences, FiniteSets

CONSTANTS
  Order,         \* the underlays in configuration order
  Prefixes,      \* routes of a slot's table
  Failures,      \* local_blackout_failures
  DrainTimeout,  \* drain_timeout_s in ticks
  Disturbances   \* bound on reconciles and failing commands

Path == {Order[i] : i \in DOMAIN Order}

(* Assumed of the constants, where the module is extended. *)
EdgeAgentV4Assumption ==
  /\ Order \in Seq(Path)
  /\ Prefixes \in Nat \ {0} /\ Failures \in Nat \ {0}
  /\ DrainTimeout \in Nat \ {0} /\ Disturbances \in Nat

VARIABLES
  pc,         \* the monitor thread: where it is in its round
  healthy,    \* transports that answered in the round's measurements
  count,      \* failure_counts
  slots,      \* the failover manager's slots
  table,      \* the kernel's route tables, route by route
  emergency,  \* NetworkActuator.emergency_slots
  marked,     \* slots the kernel's emergency chain marks
  installed,  \* NetworkActuator.current is set
  undone,     \* history: slots whose table a reconcile or a rollback put back
  torn,       \* history: a repair or a reconcile was itself cut short
  budget      \* disturbances left

manager == <<count, slots>>
kernel == <<table, emergency, marked, undone, torn>>
slotsVars == <<pc, healthy, count, slots, table, emergency, marked, installed, undone, torn, budget>>

NoRoute == "no route"
NoDeadline == -1

Slot == [path : Path, failed : BOOLEAN, emergency : BOOLEAN,
         drain : NoDeadline..DrainTimeout]
Table == [1..Prefixes -> Path \cup {NoRoute}]

\* wait: between rounds; check: next underlay to look at; remap: expected
\* version read, still (fresh) the actuator's; dead: the thread has ended.
Waiting == [at |-> "wait"]
Dead == [at |-> "dead"]
Checking(i) == [at |-> "check", next |-> i]
Blackout(i, to) == [at |-> "remap", slot |-> Order[i], to |-> to, next |-> i + 1, fresh |-> TRUE]
Restoring(p, rest) == [at |-> "restore", slot |-> p, rest |-> rest, fresh |-> TRUE]

Place == [at : {"wait", "dead"}]
         \cup [at : {"check"}, next : 1..(Len(Order) + 1)]
         \cup [at : {"remap"}, slot : Path, to : Path, next : 2..(Len(Order) + 1), fresh : BOOLEAN]
         \cup [at : {"restore"}, slot : Path, rest : SUBSET Path, fresh : BOOLEAN]

SlotsTypeOK ==
  /\ pc \in Place
  /\ healthy \subseteq Path
  /\ count \in [Path -> 0..Failures]
  /\ slots \in [Path -> Slot]
  /\ table \in [Path -> Table]
  /\ emergency \subseteq Path /\ marked \subseteq Path /\ undone \subseteq Path
  /\ installed \in BOOLEAN /\ torn \in BOOLEAN
  /\ budget \in 0..Disturbances

Own(p) == [path |-> p, failed |-> FALSE, emergency |-> FALSE, drain |-> NoDeadline]

SlotsInit ==
  /\ pc = Waiting
  /\ healthy = {}
  /\ count = [p \in Path |-> 0]
  /\ slots = [p \in Path |-> Own(p)]
  /\ table = [p \in Path |-> [k \in 1..Prefixes |-> NoRoute]]
  /\ emergency = {} /\ marked = {} /\ undone = {}
  /\ installed = FALSE /\ torn = FALSE
  /\ budget = Disturbances

Disturb(n) == budget >= n /\ budget' = budget - n

-----------------------------------------------------------------------------
(* NetworkActuator.reconcile *)

\* _apply cut short at the table of Order[i] after k routes: the tables before
\* it are rebuilt, its own is flushed first, those behind it are untouched.
AppliedUpTo(tables, i, k) ==
  [p \in Path |->
     IF p \in {Order[j] : j \in 1..(i - 1)} THEN [l \in 1..Prefixes |-> p]
     ELSE IF p = Order[i] THEN [l \in 1..Prefixes |-> IF l <= k THEN p ELSE NoRoute]
     ELSE tables[p]]
Applied == AppliedUpTo(table, Len(Order) + 1, 0)
CutShort(tables) ==
  {AppliedUpTo(tables, i, k) : i \in DOMAIN Order, k \in 0..(Prefixes - 1)}

Overtaken == IF pc.at \in {"remap", "restore"} THEN [pc EXCEPT !.fresh = FALSE] ELSE pc

\* A newer desired state is applied, or it fails and the previous one is
\* applied again: every slot is back on its own transport either way.
Reconcile ==
  /\ \/ Disturb(1) /\ installed' = TRUE
     \/ Disturb(2) /\ installed /\ UNCHANGED installed
  /\ table' = Applied
  /\ undone' = {p \in Path : slots[p].path # p}
  /\ pc' = Overtaken
  /\ torn' = (torn /\ ~(marked = emergency /\ emergency = {p \in Path : slots[p].emergency}))
  /\ UNCHANGED <<healthy, count, slots, emergency, marked>>

\* It fails with nothing to go back to, or going back fails as well.
ReconcileFails ==
  /\ IF installed
     THEN Disturb(2) /\ \E first \in CutShort(table) : table' \in CutShort(first)
     ELSE Disturb(1) /\ table' \in CutShort(table)
  /\ torn' = TRUE
  /\ UNCHANGED <<pc, healthy, count, slots, emergency, marked, installed, undone>>

-----------------------------------------------------------------------------
(* NetworkActuator.remap_slot, called by the monitor with pc.slot *)

Steered(tables, s, to, n) ==
  [tables EXCEPT ![s] = [k \in 1..Prefixes |-> IF k <= n THEN to ELSE @[k]]]

\* Faulty variant: a restored slot keeps its emergency mark.
EmergencyKept(s, to) == emergency \cup {s}
EmergencyAfter(s, to) == IF s = to THEN emergency \ {s} ELSE emergency \cup {s}

\* The call goes through.
Remapped(s, to) ==
  /\ installed /\ pc.fresh
  /\ table' = Steered(table, s, to, Prefixes)
  /\ emergency' = EmergencyAfter(s, to)
  /\ marked' = EmergencyAfter(s, to)
  /\ undone' = undone \ {s}
  /\ UNCHANGED <<installed, torn, budget, healthy>>

\* StaleVersion, or RuntimeError before the first reconcile.
RemapRefused(s, to) ==
  /\ ~(installed /\ pc.fresh)
  /\ UNCHANGED <<kernel, installed, budget, healthy>>

RolledBack(s, to, n) == Steered(Steered(table, s, to, n), s, s, n)

\* A command fails after n routes; markers and routes are put back, the routes
\* to the slot's own transport whatever they were on before: the table of a slot
\* that was on a backup is split when only some of its routes had been moved.
RemapRolledBack(s, to) ==
  /\ installed /\ pc.fresh
  /\ Disturb(1)
  /\ \E n \in 0..Prefixes :
       /\ table' = RolledBack(s, to, n)
       /\ undone' = IF n > 0 THEN undone \cup {s} ELSE undone
       /\ torn' = (torn \/ (n \in 1..(Prefixes - 1) /\ table[s] # [k \in 1..Prefixes |-> s]))
  /\ marked' = emergency
  /\ UNCHANGED <<emergency, installed, healthy>>

\* A second command fails in the rollback: of the routes, or of the markers.
RollbackFails(s, to) ==
  /\ installed /\ pc.fresh
  /\ Disturb(2)
  /\ \E n \in 0..Prefixes :
       \E m \in 0..n :
         /\ table' = Steered(Steered(table, s, to, n), s, s, m)
         /\ m = n => marked' \in (SUBSET emergency) \cup {marked}
         /\ m < n => marked' = emergency
  /\ torn' = TRUE
  /\ UNCHANGED <<emergency, undone, installed, healthy>>

\* A command does not return within its timeout: TimeoutExpired is no
\* CommandError, nothing is rolled back and the monitor does not catch it.
RemapHangs(s, to) ==
  /\ installed /\ pc.fresh
  /\ Disturb(1)
  /\ \/ \E n \in 0..(Prefixes - 1) :
          table' = Steered(table, s, to, n) /\ UNCHANGED <<emergency, marked>>
     \/ /\ table' = Steered(table, s, to, Prefixes)
        /\ emergency' = EmergencyAfter(s, to)
        /\ marked' \in (SUBSET EmergencyAfter(s, to)) \cup {marked}
  /\ torn' = TRUE
  /\ UNCHANGED <<undone, installed, healthy>>

-----------------------------------------------------------------------------
(* The monitor: _monitor, collect_metrics and _emergency_check *)

\* collect_metrics: one answer per transport for this round.  Only requests
\* and commands that fail cleanly skip a round, and skipping is stuttering.
Measure ==
  /\ pc = Waiting
  /\ healthy' \in SUBSET Path
  /\ pc' = Checking(1)
  /\ UNCHANGED <<manager, kernel, installed, budget>>

\* The counter is only compared with Failures, which caps it here.
Counted(p) == IF p \in healthy THEN 0
              ELSE IF count[p] < Failures THEN count[p] + 1 ELSE Failures

\* Faulty variant: a transport already looked at in this round is no backup.
BackupsBehind(p) == {Order[i] : i \in (pc.next + 1)..Len(Order)} \cap healthy
Backups(p) == healthy \ {p}

\* Faulty variant: recovery starts for a transport that does not answer.
RecoveringUnasked(p) == slots[p].failed
Recovering(p) == p \in healthy /\ slots[p].failed

\* One turn of the first loop of _emergency_check.  The best backup by
\* bandwidth and delay is any of the healthy ones.
Check ==
  /\ pc.at = "check" /\ pc.next <= Len(Order)
  /\ LET p == Order[pc.next]
         blackout == Counted(p) = Failures /\ ~slots[p].failed
     IN /\ count' = [count EXCEPT ![p] = Counted(p)]
        /\ IF blackout /\ Backups(p) # {}
           THEN \E to \in Backups(p) : pc' = Blackout(pc.next, to)
           ELSE pc' = Checking(pc.next + 1)
        /\ slots' = IF ~blackout /\ Recovering(p)
                    THEN [slots EXCEPT ![p].failed = FALSE,
                                       ![p].drain = IF slots[p].emergency THEN DrainTimeout ELSE @]
                    ELSE slots
  /\ UNCHANGED <<healthy, kernel, installed, budget>>

\* LocalFailoverManager.blackout
Blackened(p, to) == [path |-> to, failed |-> TRUE, emergency |-> TRUE, drain |-> NoDeadline]

EmergencyRemap ==
  /\ pc.at = "remap"
  /\ \/ /\ Remapped(pc.slot, pc.to)
        /\ slots' = [slots EXCEPT ![pc.slot] = Blackened(pc.slot, pc.to)]
        /\ pc' = Checking(pc.next)
     \/ /\ RemapRefused(pc.slot, pc.to) \/ RemapRolledBack(pc.slot, pc.to) \/ RollbackFails(pc.slot, pc.to)
        /\ pc' = Waiting /\ UNCHANGED slots
     \/ RemapHangs(pc.slot, pc.to) /\ pc' = Dead /\ UNCHANGED slots
  /\ UNCHANGED count

\* Faulty variant: an expired deadline is not looked at.
ReadyIfIdle(p, idle) ==
  /\ slots[p].emergency /\ ~slots[p].failed /\ slots[p].drain # NoDeadline
  /\ p \in idle

\* ready_to_restore; idle are the slots no flow of conntrack is marked with.
Ready(p, idle) ==
  /\ slots[p].emergency /\ ~slots[p].failed /\ slots[p].drain # NoDeadline
  /\ p \in idle \/ slots[p].drain = 0

\* On to the next of the slots to restore, in configuration order.
Onwards(ready) ==
  IF ready = {} THEN pc' = Waiting
  ELSE \E i \in DOMAIN Order :
         /\ Order[i] \in ready /\ \A j \in 1..(i - 1) : Order[j] \notin ready
         /\ pc' = Restoring(Order[i], ready \ {Order[i]})

\* The flows are listed and the ready slots collected once for the round; the
\* deadlines may pass afterwards.
FindReady ==
  /\ pc.at = "check" /\ pc.next > Len(Order)
  /\ \E idle \in SUBSET Path : Onwards({p \in Path : Ready(p, idle)})
  /\ UNCHANGED <<healthy, manager, kernel, installed, budget>>

\* remap_slot back and complete_recovery.
Restore ==
  /\ pc.at = "restore"
  /\ \/ /\ Remapped(pc.slot, pc.slot)
        /\ slots' = [slots EXCEPT ![pc.slot] = Own(pc.slot)]
        /\ Onwards(pc.rest)
     \/ /\ RemapRefused(pc.slot, pc.slot) \/ RemapRolledBack(pc.slot, pc.slot)
           \/ RollbackFails(pc.slot, pc.slot)
        /\ pc' = Waiting /\ UNCHANGED slots
     \/ RemapHangs(pc.slot, pc.slot) /\ pc' = Dead /\ UNCHANGED slots
  /\ UNCHANGED count

Monitor == Measure \/ Check \/ EmergencyRemap \/ FindReady \/ Restore

SlotsTick ==
  /\ \E p \in Path : slots[p].drain > 0
  /\ slots' = [p \in Path |-> [slots[p] EXCEPT !.drain = IF @ > 0 THEN @ - 1 ELSE @]]
  /\ UNCHANGED <<pc, healthy, count, kernel, installed, budget>>

SlotsNext == Monitor \/ Reconcile \/ ReconcileFails \/ SlotsTick

SlotsSpec == SlotsInit /\ [][SlotsNext]_slotsVars

\* The monitor thread keeps running and time passes.
SlotsFairness == WF_slotsVars(Monitor) /\ WF_slotsVars(SlotsTick)

-----------------------------------------------------------------------------
(***************************************************************************)
(* Kernel, actuator and failover manager tell one story although three     *)
(* parties write it and any command may fail: a slot's routes all go to    *)
(* one transport, the one the manager believes unless a reconcile or a     *)
(* rollback has put the slot back on its own since, and the emergency mark *)
(* is on exactly the slots in an emergency (edge_agent_v4.py:280-347,      *)
(* 820-846).                                                               *)
(***************************************************************************)
KernelAgrees ==
  installed /\ ~torn =>
    /\ \A p \in Path :
         \A k \in 1..Prefixes : table[p][k] = IF p \in undone THEN p ELSE slots[p].path
    /\ emergency = {p \in Path : slots[p].emergency}
    /\ marked = emergency

(***************************************************************************)
(* A slot is not given back to a transport that is in a blackout while     *)
(* another one works, although it may have failed again after its recovery *)
(* began (edge_agent_v4.py:820-841).                                       *)
(***************************************************************************)
RestoredOntoLive ==
  [][ \A p \in Path :
        slots[p].emergency /\ ~slots'[p].emergency
        => count[p] < Failures \/ healthy \subseteq {p} ]_slotsVars

(***************************************************************************)
(* Blackouts end: a transport that answers from some round on is back in   *)
(* its own slot for good, however many commands failed and reconciles came *)
(* before, unless a hung command ended the monitor.                        *)
(***************************************************************************)
EmergencyEnds ==
  \A p \in Path :
    <>[](p \in healthy) => <>(pc = Dead) \/ <>[](~slots[p].emergency)

(***************************************************************************)
(* A transport that stays dead beside a living one gets its slot declared  *)
(* failed (edge_agent_v4.py:820-837).                                      *)
(***************************************************************************)
BlackoutAnswered ==
  \A p \in Path :
    <>[](installed /\ healthy \notin SUBSET {p} /\ p \notin healthy)
    => <>(pc = Dead) \/ <>[](slots[p].failed)
=============================================================================
