------------------------- MODULE EdgeAgentV4Proofs --------------------------
(***************************************************************************)
(* Theorems about EdgeAgentV4 for every sequence of underlays, number of   *)
(* routes, threshold, drain timeout and number of disturbances.            *)
(***************************************************************************)
EXTENDS EdgeAgentV4, TLAPS

-----------------------------------------------------------------------------
(***************************************************************************)
(* Alive and Seen say what the monitor knows of a transport it has passed  *)
(* in its round; where it is in the round decides for which of them it     *)
(* does. The tables of the kernel follow the slots of the manager route by *)
(* route, but for those a reconcile or a rollback has put back.            *)
(***************************************************************************)
\* What is known of a transport after its turn in the round, and of one whose slot
\* is ready to be given back.
Seen(p) == slots[p].failed \/ count[p] < Failures \/ healthy \subseteq {p}
Alive(p) == count[p] < Failures \/ healthy \subseteq {p}

\* What the place of the monitor says of the transports.
PlacesOK ==
  /\ pc.at = "remap" => pc.to # pc.slot
  /\ pc.at = "check" => \A j \in 1..Len(Order) : j < pc.next => Seen(Order[j])
  /\ pc.at = "remap" => \A j \in 1..Len(Order) : j < pc.next /\ Order[j] # pc.slot => Seen(Order[j])
  /\ pc.at = "restore" => \A p \in {pc.slot} \cup pc.rest : Alive(p)

\* Kernel and manager agree on the emergencies; on the routes of a slot.
Marked == marked = emergency /\ emergency = {p \in Path : slots[p].emergency}

Routed(p) == \A k \in 1..Prefixes : table[p][k] = IF p \in undone THEN p ELSE slots[p].path

\* The invariant.
OneStory ==
  /\ SlotsTypeOK
  /\ PlacesOK
  /\ ~torn => Marked
  /\ installed /\ ~torn => \A p \in Path : Routed(p)

LEMMA OrderPlaces ==
  ASSUME EdgeAgentV4Assumption
  PROVE  /\ Len(Order) \in Nat /\ DOMAIN Order = 1..Len(Order)
         /\ \A j \in 1..Len(Order) : Order[j] \in Path
         /\ Path = {Order[j] : j \in 1..Len(Order)}
<1>1. Order \in Seq(Path)
  BY DEF EdgeAgentV4Assumption
<1>2. Len(Order) \in Nat /\ DOMAIN Order = 1..Len(Order)
  BY <1>1
<1> QED
  BY <1>2 DEF Path

LEMMA Numbers ==
  ASSUME EdgeAgentV4Assumption
  PROVE  /\ Prefixes \in Nat /\ Prefixes > 0 /\ Failures \in Nat /\ Failures > 0
         /\ DrainTimeout \in Nat /\ DrainTimeout > 0 /\ Disturbances \in Nat
  BY DEF EdgeAgentV4Assumption

\* Where the monitor is tells what else the place says.
LEMMA PlaceKinds ==
  ASSUME EdgeAgentV4Assumption, NEW c \in Place
  PROVE  /\ c.at \in {"wait", "dead", "check", "remap", "restore"}
         /\ c.at = "check" => c.next \in 1..(Len(Order) + 1)
         /\ c.at = "remap" => /\ c.slot \in Path /\ c.to \in Path
                              /\ c.next \in 2..(Len(Order) + 1) /\ c.fresh \in BOOLEAN
                              /\ [c EXCEPT !.fresh = FALSE] \in Place
                              /\ [c EXCEPT !.fresh = FALSE].at = "remap"
                              /\ [c EXCEPT !.fresh = FALSE].slot = c.slot
                              /\ [c EXCEPT !.fresh = FALSE].to = c.to
                              /\ [c EXCEPT !.fresh = FALSE].next = c.next
         /\ c.at = "restore" => /\ c.slot \in Path /\ c.rest \in SUBSET Path /\ c.fresh \in BOOLEAN
                                /\ [c EXCEPT !.fresh = FALSE] \in Place
                                /\ [c EXCEPT !.fresh = FALSE].at = "restore"
                                /\ [c EXCEPT !.fresh = FALSE].slot = c.slot
                                /\ [c EXCEPT !.fresh = FALSE].rest = c.rest
<1>1. CASE c \in [at : {"wait", "dead"}]
  BY <1>1
<1>2. CASE c \in [at : {"check"}, next : 1..(Len(Order) + 1)]
  BY <1>2
<1>3. CASE c \in [at : {"remap"}, slot : Path, to : Path, next : 2..(Len(Order) + 1), fresh : BOOLEAN]
  BY <1>3 DEF Place
<1>4. CASE c \in [at : {"restore"}, slot : Path, rest : SUBSET Path, fresh : BOOLEAN]
  BY <1>4 DEF Place
<1> QED
  BY <1>1, <1>2, <1>3, <1>4 DEF Place

LEMMA NewPlaces ==
  ASSUME EdgeAgentV4Assumption
  PROVE  /\ Waiting \in Place /\ Waiting.at = "wait"
         /\ Dead \in Place /\ Dead.at = "dead"
         /\ \A i \in 1..(Len(Order) + 1) : /\ Checking(i) \in Place
                                           /\ Checking(i).at = "check" /\ Checking(i).next = i
         /\ \A i \in 1..Len(Order), to \in Path :
              /\ Blackout(i, to) \in Place /\ Blackout(i, to).at = "remap"
              /\ Blackout(i, to).slot = Order[i] /\ Blackout(i, to).to = to
              /\ Blackout(i, to).next = i + 1
         /\ \A p \in Path, rest \in SUBSET Path :
              /\ Restoring(p, rest) \in Place /\ Restoring(p, rest).at = "restore"
              /\ Restoring(p, rest).slot = p /\ Restoring(p, rest).rest = rest
<1>1. Waiting \in Place /\ Waiting.at = "wait" /\ Dead \in Place /\ Dead.at = "dead"
  BY DEF Waiting, Dead, Place
<1>2. ASSUME NEW i \in 1..(Len(Order) + 1)
      PROVE  Checking(i) \in Place /\ Checking(i).at = "check" /\ Checking(i).next = i
  BY DEF Checking, Place
<1>3. ASSUME NEW i \in 1..Len(Order), NEW to \in Path
      PROVE  /\ Blackout(i, to) \in Place /\ Blackout(i, to).at = "remap"
             /\ Blackout(i, to).slot = Order[i] /\ Blackout(i, to).to = to
             /\ Blackout(i, to).next = i + 1
  <2>1. i + 1 \in 2..(Len(Order) + 1) /\ Order[i] \in Path
    BY OrderPlaces
  <2> QED
    BY <2>1 DEF Blackout, Place
<1>4. ASSUME NEW p \in Path, NEW rest \in SUBSET Path
      PROVE  /\ Restoring(p, rest) \in Place /\ Restoring(p, rest).at = "restore"
             /\ Restoring(p, rest).slot = p /\ Restoring(p, rest).rest = rest
  BY DEF Restoring, Place
<1> QED
  BY <1>1, <1>2, <1>3, <1>4

LEMMA OneStoryInit ==
  ASSUME EdgeAgentV4Assumption, SlotsInit
  PROVE  OneStory
<1>1. pc \in Place /\ pc.at = "wait"
  BY NewPlaces DEF SlotsInit
<1>2. count \in [Path -> 0..Failures] /\ budget \in 0..Disturbances
  BY Numbers DEF SlotsInit
<1>3. \A p \in Path : Own(p) \in Slot
  BY Numbers DEF Own, Slot, NoDeadline
<1>4. slots \in [Path -> Slot] /\ \A p \in Path : slots[p] = Own(p)
  BY <1>3 DEF SlotsInit
<1>5. table \in [Path -> Table]
  BY DEF SlotsInit, Table
<1>6. SlotsTypeOK
  BY <1>1, <1>2, <1>4, <1>5 DEF SlotsInit, SlotsTypeOK
<1>7. Marked
  BY <1>4 DEF SlotsInit, Marked, Own
<1> QED
  BY <1>1, <1>6, <1>7 DEF OneStory, PlacesOK, SlotsInit

LEMMA SlotFields ==
  ASSUME SlotsTypeOK, NEW p \in Path
  PROVE  /\ slots[p].path \in Path /\ slots[p].failed \in BOOLEAN /\ slots[p].emergency \in BOOLEAN
         /\ slots[p].drain \in NoDeadline..DrainTimeout
         /\ slots[p] \in Slot
         /\ count[p] \in 0..Failures /\ table[p] \in Table
  BY DEF SlotsTypeOK, Slot

\* Steered and rolled back tables.
LEMMA SteeredTable ==
  ASSUME EdgeAgentV4Assumption, NEW tables \in [Path -> Table], NEW s \in Path, NEW to \in Path, NEW n \in 0..Prefixes
  PROVE  /\ Steered(tables, s, to, n) \in [Path -> Table]
         /\ \A p \in Path : p # s => Steered(tables, s, to, n)[p] = tables[p]
         /\ \A k \in 1..Prefixes : Steered(tables, s, to, n)[s][k] = IF k <= n THEN to ELSE tables[s][k]
<1> DEFINE row == [k \in 1..Prefixes |-> IF k <= n THEN to ELSE tables[s][k]]
<1>1. Steered(tables, s, to, n) = [tables EXCEPT ![s] = row]
  BY DEF Steered
<1>2. row \in Table
  <2>1. tables[s] \in Table
    OBVIOUS
  <2> QED
    BY <2>1 DEF Table
<1>3. \A k \in 1..Prefixes : row[k] = IF k <= n THEN to ELSE tables[s][k]
  OBVIOUS
<1> HIDE DEF row
<1> QED
  BY <1>1, <1>2, <1>3

LEMMA AppliedTable ==
  ASSUME EdgeAgentV4Assumption, NEW tables \in [Path -> Table], NEW i, NEW k
  PROVE  AppliedUpTo(tables, i, k) \in [Path -> Table]
  BY DEF AppliedUpTo, Table

LEMMA AppliedAll ==
  ASSUME EdgeAgentV4Assumption, SlotsTypeOK
  PROVE  /\ Applied \in [Path -> Table]
         /\ \A p \in Path : \A k \in 1..Prefixes : Applied[p][k] = p
<1>1. Applied \in [Path -> Table]
  BY AppliedTable DEF Applied, SlotsTypeOK
<1>2. (Len(Order) + 1) - 1 = Len(Order)
  BY OrderPlaces
<1>3. ASSUME NEW p \in Path
      PROVE  Applied[p] = [l \in 1..Prefixes |-> p]
  <2>1. p \in {Order[j] : j \in 1..((Len(Order) + 1) - 1)}
    BY <1>2, OrderPlaces
  <2> QED
    BY <2>1 DEF Applied, AppliedUpTo
<1> QED
  BY <1>1, <1>3

LEMMA DisturbType ==
  ASSUME EdgeAgentV4Assumption, SlotsTypeOK, NEW n \in Nat, Disturb(n)
  PROVE  budget' \in 0..Disturbances
  BY Numbers DEF Disturb, SlotsTypeOK

LEMMA ReconcileStep ==
  ASSUME EdgeAgentV4Assumption, OneStory, Reconcile
  PROVE  OneStory'
<1>1. /\ table' = Applied
      /\ undone' = {p \in Path : slots[p].path # p}
      /\ pc' = Overtaken
      /\ torn' = (torn /\ ~(marked = emergency /\ emergency = {p \in Path : slots[p].emergency}))
      /\ UNCHANGED <<healthy, count, slots, emergency, marked>>
  BY DEF Reconcile
<1>2. SlotsTypeOK /\ PlacesOK
  BY DEF OneStory
<1>3. budget' \in 0..Disturbances /\ installed' \in BOOLEAN
  BY <1>2, DisturbType DEF Reconcile, SlotsTypeOK
<1>4. /\ pc' \in Place /\ pc'.at = pc.at
      /\ pc.at = "check" => pc'.next = pc.next
      /\ pc.at = "remap" => pc'.slot = pc.slot /\ pc'.to = pc.to /\ pc'.next = pc.next
      /\ pc.at = "restore" => pc'.slot = pc.slot /\ pc'.rest = pc.rest
  BY <1>1, <1>2, PlaceKinds DEF Overtaken, SlotsTypeOK
<1>5. torn' \in BOOLEAN
  BY <1>1, <1>2, Zenon DEF SlotsTypeOK
<1>6. SlotsTypeOK'
  BY <1>1, <1>2, <1>3, <1>4, <1>5, AppliedAll DEF SlotsTypeOK
<1>7. PlacesOK'
  BY <1>1, <1>2, <1>4 DEF PlacesOK, Seen, Alive
<1>8. ~torn' => Marked
  BY <1>1 DEF OneStory, Marked
<1>9. ~torn' => Marked'
  BY <1>1, <1>8 DEF Marked
<1>10. \A p \in Path : Routed(p)'
  BY <1>1, <1>2, AppliedAll DEF Routed
<1> QED
  BY <1>6, <1>7, <1>9, <1>10 DEF OneStory

LEMMA ReconcileFailsStep ==
  ASSUME EdgeAgentV4Assumption, OneStory, ReconcileFails
  PROVE  OneStory'
<1>1. torn' = TRUE /\ UNCHANGED <<pc, healthy, count, slots, emergency, marked, installed, undone>>
  BY DEF ReconcileFails
<1>2. SlotsTypeOK /\ PlacesOK
  BY DEF OneStory
<1>3. budget' \in 0..Disturbances
  BY <1>2, DisturbType DEF ReconcileFails
<1>4. \A tables \in [Path -> Table] : \A t \in CutShort(tables) : t \in [Path -> Table]
  BY AppliedTable DEF CutShort
<1>5. table' \in [Path -> Table]
  BY <1>2, <1>4 DEF ReconcileFails, SlotsTypeOK
<1> QED
  BY <1>1, <1>2, <1>3, <1>5 DEF OneStory, SlotsTypeOK, PlacesOK, Seen, Alive

LEMMA MeasureStep ==
  ASSUME EdgeAgentV4Assumption, OneStory, Measure
  PROVE  OneStory'
<1>1. /\ healthy' \in SUBSET Path /\ pc' = Checking(1)
      /\ UNCHANGED <<count, slots, table, emergency, marked, undone, torn, installed, budget>>
  BY DEF Measure, manager, kernel
<1>2. pc' \in Place /\ pc'.at = "check" /\ pc'.next = 1
  BY <1>1, NewPlaces, OrderPlaces
<1>3. SlotsTypeOK'
  BY <1>1, <1>2 DEF OneStory, SlotsTypeOK
<1>4. PlacesOK'
  BY <1>2 DEF PlacesOK
<1> QED
  BY <1>1, <1>3, <1>4 DEF OneStory, Marked, Routed

LEMMA SlotsTickStep ==
  ASSUME EdgeAgentV4Assumption, OneStory, SlotsTick
  PROVE  OneStory'
<1>1. UNCHANGED <<pc, healthy, count, table, emergency, marked, undone, torn, installed, budget>>
  BY DEF SlotsTick, kernel
<1>2. \A p \in Path : slots'[p] = [slots[p] EXCEPT !.drain = IF @ > 0 THEN @ - 1 ELSE @]
  BY DEF SlotsTick
<1>3. SlotsTypeOK
  BY DEF OneStory
<1>4. ASSUME NEW p \in Path
      PROVE  /\ slots'[p] \in Slot
             /\ slots'[p].path = slots[p].path /\ slots'[p].failed = slots[p].failed
             /\ slots'[p].emergency = slots[p].emergency
  <2>1. (IF slots[p].drain > 0 THEN slots[p].drain - 1 ELSE slots[p].drain) \in NoDeadline..DrainTimeout
    BY <1>3, SlotFields, Numbers DEF NoDeadline
  <2> QED
    BY <1>2, <1>3, <2>1, SlotFields DEF Slot
<1>5. slots' \in [Path -> Slot]
  BY <1>4 DEF SlotsTick
<1>6. SlotsTypeOK'
  BY <1>1, <1>3, <1>5 DEF SlotsTypeOK
<1>7. \A j \in 1..Len(Order) : Seen(Order[j])' <=> Seen(Order[j])
  BY <1>1, <1>4, OrderPlaces DEF Seen
<1>8. PlacesOK'
  BY <1>1, <1>7 DEF OneStory, PlacesOK, Alive
<1> QED
  BY <1>1, <1>4, <1>6, <1>8 DEF OneStory, Marked, Routed

\* A recovering slot keeps its path and its emergency.
LEMMA BackAgain ==
  ASSUME NEW s \in Slot, NEW later \in NoDeadline..DrainTimeout
  PROVE  /\ [s EXCEPT !.failed = FALSE, !.drain = later] \in Slot
         /\ [s EXCEPT !.failed = FALSE, !.drain = later].path = s.path
         /\ [s EXCEPT !.failed = FALSE, !.drain = later].emergency = s.emergency
         /\ [s EXCEPT !.failed = FALSE, !.drain = later].failed = FALSE
<1> DEFINE bound == NoDeadline..DrainTimeout
<1>1. s \in [path : Path, failed : BOOLEAN, emergency : BOOLEAN, drain : bound] /\ later \in bound
  BY DEF Slot
<1> HIDE DEF bound
<1>2. [s EXCEPT !.failed = FALSE, !.drain = later]
      \in [path : Path, failed : BOOLEAN, emergency : BOOLEAN, drain : bound]
  BY <1>1
<1>3. [s EXCEPT !.failed = FALSE, !.drain = later] \in Slot
  BY <1>2 DEF bound, Slot
<1> QED
  BY <1>1, <1>3

LEMMA CheckStep ==
  ASSUME EdgeAgentV4Assumption, OneStory, Check
  PROVE  OneStory'
<1>1. SlotsTypeOK /\ PlacesOK /\ pc \in Place /\ pc.at = "check" /\ pc.next <= Len(Order)
  BY DEF OneStory, Check, SlotsTypeOK
<1>2. PICK i \in 1..Len(Order) : pc.next = i
  <2>1. pc.next \in 1..(Len(Order) + 1)
    BY <1>1, PlaceKinds
  <2>2. pc.next \in 1..Len(Order)
    BY <1>1, <2>1, OrderPlaces
  <2> QED
    BY <2>2
<1>3. PICK p \in Path : Order[i] = p
  BY OrderPlaces
<1>4. i + 1 \in 1..(Len(Order) + 1)
  BY OrderPlaces
<1> DEFINE blackout == Counted(p) = Failures /\ ~slots[p].failed
<1>5. /\ count' = [count EXCEPT ![p] = Counted(p)]
      /\ IF blackout /\ Backups(p) # {}
         THEN \E to \in Backups(p) : pc' = Blackout(i, to)
         ELSE pc' = Checking(i + 1)
      /\ slots' = IF ~blackout /\ Recovering(p)
                  THEN [slots EXCEPT ![p].failed = FALSE,
                                     ![p].drain = IF slots[p].emergency THEN DrainTimeout ELSE @]
                  ELSE slots
      /\ UNCHANGED <<healthy, table, emergency, marked, undone, torn, installed, budget>>
  BY <1>2, <1>3 DEF Check, kernel
<1>6. Counted(p) \in 0..Failures
  BY <1>1, SlotFields, Numbers DEF Counted
<1>7. p \in healthy => Counted(p) = 0 /\ Counted(p) < Failures
  BY Numbers DEF Counted
<1>8. count'[p] = Counted(p) /\ (\A q \in Path : q # p => count'[q] = count[q]) /\ count' \in [Path -> 0..Failures]
  BY <1>1, <1>5, <1>6 DEF SlotsTypeOK
<1>9. /\ slots' \in [Path -> Slot]
      /\ \A q \in Path : /\ slots'[q].path = slots[q].path
                         /\ slots'[q].emergency = slots[q].emergency
                         /\ q # p => slots'[q] = slots[q]
      /\ slots'[p].failed = (slots[p].failed /\ (blackout \/ ~Recovering(p)))
  <2>1. CASE slots' = slots /\ (blackout \/ ~Recovering(p))
    BY <1>1, <2>1, SlotFields DEF SlotsTypeOK
  <2>2. CASE /\ ~blackout /\ Recovering(p)
             /\ slots' = [slots EXCEPT ![p].failed = FALSE,
                                       ![p].drain = IF slots[p].emergency THEN DrainTimeout ELSE @]
    <3> DEFINE later == IF slots[p].emergency THEN DrainTimeout ELSE slots[p].drain
               back == [slots[p] EXCEPT !.failed = FALSE, !.drain = later]
    <3>1. slots' = [slots EXCEPT ![p] = back]
      BY <1>1, <2>2 DEF SlotsTypeOK
    <3>2. later \in NoDeadline..DrainTimeout
      BY <1>1, SlotFields, Numbers DEF NoDeadline
    <3> HIDE DEF later
    <3>3. back \in Slot /\ back.path = slots[p].path /\ back.emergency = slots[p].emergency /\ back.failed = FALSE
      BY <1>1, <3>2, SlotFields, BackAgain
    <3> HIDE DEF back
    <3> QED
      BY <1>1, <2>2, <3>1, <3>3 DEF SlotsTypeOK
  <2> QED
    BY <1>5, <2>1, <2>2
<1>10. /\ pc' \in Place
       /\ \/ /\ pc'.at = "check" /\ pc'.next = i + 1
             /\ ~blackout \/ Backups(p) = {}
          \/ /\ pc'.at = "remap" /\ pc'.next = i + 1 /\ pc'.slot = p /\ pc'.to # p
  <2>1. \A to \in Backups(p) : to \in Path /\ to # p
    BY <1>1 DEF Backups, SlotsTypeOK
  <2>2. CASE blackout /\ Backups(p) # {}
    BY <1>3, <1>5, <2>1, <2>2, NewPlaces
  <2>3. CASE ~(blackout /\ Backups(p) # {})
    BY <1>4, <1>5, <2>3, NewPlaces
  <2> QED
    BY <2>2, <2>3
<1>11. SlotsTypeOK'
  BY <1>1, <1>5, <1>8, <1>9, <1>10 DEF SlotsTypeOK
<1>12. \A q \in Path : q # p => (Seen(q)' <=> Seen(q))
  BY <1>5, <1>8, <1>9 DEF Seen
<1>13. ASSUME ~blackout \/ Backups(p) = {}
       PROVE  Seen(p)'
  <2>1. CASE Backups(p) = {}
    BY <1>5, <2>1 DEF Seen, Backups
  <2>2. CASE ~blackout /\ Counted(p) = Failures
    <3>1. slots[p].failed /\ ~Recovering(p)
      BY <1>7, <2>2, Numbers DEF Recovering
    <3>2. slots'[p].failed
      BY <1>9, <3>1
    <3> QED
      BY <3>2 DEF Seen
  <2>3. CASE Counted(p) # Failures
    <3>1. count'[p] < Failures
      BY <1>6, <1>8, <2>3, Numbers
    <3> QED
      BY <3>1 DEF Seen
  <2> QED
    BY <1>13, <2>1, <2>2, <2>3
<1>14. \A j \in 1..Len(Order) : j < i => Seen(Order[j])
  BY <1>1, <1>2 DEF PlacesOK
<1>15. \A j \in 1..Len(Order) : j < i + 1 => j < i \/ Order[j] = p
  BY <1>3, OrderPlaces
<1>16. \A j \in 1..Len(Order) : j < i + 1 /\ Order[j] # p => Seen(Order[j])'
  BY <1>12, <1>14, <1>15, OrderPlaces
<1> HIDE DEF blackout
<1>17. ASSUME pc'.at = "check" /\ pc'.next = i + 1 /\ (~blackout \/ Backups(p) = {})
       PROVE  PlacesOK'
  <2>1. \A j \in 1..Len(Order) : j < i + 1 => Seen(Order[j])'
    BY <1>13, <1>16, <1>17
  <2> QED
    BY <1>17, <2>1 DEF PlacesOK
<1>18. ASSUME pc'.at = "remap" /\ pc'.next = i + 1 /\ pc'.slot = p /\ pc'.to # p
       PROVE  PlacesOK'
  BY <1>16, <1>18 DEF PlacesOK
<1>19. PlacesOK'
  BY <1>10, <1>17, <1>18
<1> QED
  BY <1>5, <1>9, <1>11, <1>19 DEF OneStory, Marked, Routed


\* What a call of remap_slot that goes through leaves in the kernel.
LEMMA CallPasses ==
  ASSUME EdgeAgentV4Assumption, SlotsTypeOK, NEW s \in Path, NEW to \in Path, Remapped(s, to)
  PROVE  /\ table' \in [Path -> Table] /\ undone' = undone \ {s}
         /\ emergency' = EmergencyAfter(s, to) /\ marked' = EmergencyAfter(s, to)
         /\ EmergencyAfter(s, to) \subseteq Path /\ undone' \subseteq Path
         /\ UNCHANGED <<installed, torn, budget, healthy>>
         /\ \A p \in Path : p # s => table'[p] = table[p]
         /\ \A k \in 1..Prefixes : table'[s][k] = to
<1>1. /\ table' = Steered(table, s, to, Prefixes) /\ undone' = undone \ {s}
      /\ emergency' = EmergencyAfter(s, to) /\ marked' = EmergencyAfter(s, to)
      /\ UNCHANGED <<installed, torn, budget, healthy>>
  BY DEF Remapped
<1>2. table \in [Path -> Table] /\ Prefixes \in 0..Prefixes
  BY Numbers DEF SlotsTypeOK
<1>3. /\ Steered(table, s, to, Prefixes) \in [Path -> Table]
      /\ \A p \in Path : p # s => Steered(table, s, to, Prefixes)[p] = table[p]
      /\ \A k \in 1..Prefixes : Steered(table, s, to, Prefixes)[s][k] = IF k <= Prefixes THEN to ELSE table[s][k]
  BY <1>2, SteeredTable
<1>4. EmergencyAfter(s, to) \subseteq Path /\ undone' \subseteq Path
  BY <1>1 DEF SlotsTypeOK, EmergencyAfter
<1> QED
  BY <1>1, <1>3, <1>4, Numbers

\* A table steered for n routes and steered back for m of them.
LEMMA SteeredTwice ==
  ASSUME EdgeAgentV4Assumption, SlotsTypeOK, NEW s \in Path, NEW to \in Path,
         NEW n \in 0..Prefixes, NEW m \in 0..n
  PROVE  LET tables == Steered(Steered(table, s, to, n), s, s, m)
         IN  /\ tables \in [Path -> Table]
             /\ \A p \in Path : p # s => tables[p] = table[p]
             /\ \A k \in 1..Prefixes :
                  tables[s][k] = IF k <= m THEN s ELSE IF k <= n THEN to ELSE table[s][k]
<1> DEFINE once == Steered(table, s, to, n)
<1>1. /\ once \in [Path -> Table]
      /\ \A p \in Path : p # s => once[p] = table[p]
      /\ \A k \in 1..Prefixes : once[s][k] = IF k <= n THEN to ELSE table[s][k]
  BY SteeredTable DEF SlotsTypeOK
<1> HIDE DEF once
<1>2. m \in 0..Prefixes
  BY Numbers
<1>3. /\ Steered(once, s, s, m) \in [Path -> Table]
      /\ \A p \in Path : p # s => Steered(once, s, s, m)[p] = once[p]
      /\ \A k \in 1..Prefixes : Steered(once, s, s, m)[s][k] = IF k <= m THEN s ELSE once[s][k]
  BY <1>1, <1>2, SteeredTable
<1>4. /\ Steered(once, s, s, m) \in [Path -> Table]
      /\ \A p \in Path : p # s => Steered(once, s, s, m)[p] = table[p]
      /\ \A k \in 1..Prefixes :
           Steered(once, s, s, m)[s][k] = IF k <= m THEN s ELSE IF k <= n THEN to ELSE table[s][k]
  BY <1>1, <1>3
<1> QED
  BY <1>4 DEF once

\* A call that is refused, undone, or cut short leaves the story told unless
\* it is torn.
LEMMA CallFails ==
  ASSUME EdgeAgentV4Assumption, OneStory, NEW s \in Path, NEW to \in Path, UNCHANGED slots,
         \/ RemapRefused(s, to) \/ RemapRolledBack(s, to)
         \/ RollbackFails(s, to) \/ RemapHangs(s, to)
  PROVE  /\ table' \in [Path -> Table]
         /\ emergency' \subseteq Path /\ marked' \subseteq Path /\ undone' \subseteq Path
         /\ torn' \in BOOLEAN /\ budget' \in 0..Disturbances
         /\ UNCHANGED <<installed, healthy>>
         /\ ~torn' => Marked'
         /\ installed' /\ ~torn' => \A p \in Path : Routed(p)'
<1>1. SlotsTypeOK
  BY DEF OneStory
<1>2. CASE RemapRefused(s, to)
  <2>1. UNCHANGED <<table, emergency, marked, undone, torn, installed, budget, healthy>>
    BY <1>2 DEF RemapRefused, kernel
  <2> QED
    BY <1>1, <2>1 DEF OneStory, SlotsTypeOK, Marked, Routed
<1>3. CASE RemapRolledBack(s, to)
  <2>1. PICK n \in 0..Prefixes :
          /\ table' = RolledBack(s, to, n)
          /\ undone' = IF n > 0 THEN undone \cup {s} ELSE undone
          /\ torn' = (torn \/ (n \in 1..(Prefixes - 1) /\ table[s] # [k \in 1..Prefixes |-> s]))
    BY <1>3 DEF RemapRolledBack
  <2>2. marked' = emergency /\ UNCHANGED <<emergency, installed, healthy>> /\ Disturb(1)
    BY <1>3 DEF RemapRolledBack
  <2>3. budget' \in 0..Disturbances
    BY <1>1, <2>2, DisturbType
  <2>4. torn' \in BOOLEAN
    BY <1>1, <2>1, Zenon DEF SlotsTypeOK
  <2>5. n \in 0..n
    OBVIOUS
  <2>6. /\ table' \in [Path -> Table]
        /\ \A p \in Path : p # s => table'[p] = table[p]
        /\ \A k \in 1..Prefixes : table'[s][k] = IF k <= n THEN s ELSE table[s][k]
    BY <1>1, <2>1, <2>5, SteeredTwice DEF RolledBack
  <2>7. undone' \subseteq Path
    BY <1>1, <2>1 DEF SlotsTypeOK
  <2>8. ~torn' => ~torn /\ (n \in 1..(Prefixes - 1) => table[s] = [k \in 1..Prefixes |-> s])
    BY <2>1, Zenon
  <2>9. ~torn' => Marked'
    BY <2>2, <2>8 DEF OneStory, Marked
  <2>10. ASSUME installed', ~torn', NEW p \in Path
         PROVE  Routed(p)'
    <3>1. Routed(p)
      BY <2>2, <2>8, <2>10 DEF OneStory
    <3>2. CASE p # s
      BY <2>1, <2>6, <3>1, <3>2 DEF Routed
    <3>3. CASE p = s /\ n = 0
      BY <2>1, <2>6, <3>1, <3>3, Numbers DEF Routed
    <3>4. CASE p = s /\ n > 0
      <4>1. \A k \in 1..Prefixes : k <= n \/ table[s][k] = s
        <5>1. CASE n = Prefixes
          BY <5>1, Numbers
        <5>2. CASE n # Prefixes
          <6>1. n \in 1..(Prefixes - 1)
            BY <3>4, <5>2, Numbers
          <6> QED
            BY <2>8, <2>10, <6>1
        <5> QED
          BY <5>1, <5>2
      <4>2. \A k \in 1..Prefixes : table'[s][k] = s
        BY <2>6, <4>1
      <4>3. s \in undone'
        BY <2>1, <3>4
      <4> QED
        BY <3>4, <4>2, <4>3 DEF Routed
    <3> QED
      BY <3>2, <3>3, <3>4
  <2> QED
    BY <1>1, <2>2, <2>3, <2>4, <2>6, <2>7, <2>9, <2>10 DEF SlotsTypeOK
<1>4. CASE RollbackFails(s, to)
  <2>1. torn' = TRUE /\ UNCHANGED <<emergency, undone, installed, healthy>> /\ Disturb(2)
    BY <1>4 DEF RollbackFails
  <2> DEFINE Stopped(n, m) == /\ table' = Steered(Steered(table, s, to, n), s, s, m)
                              /\ m = n => marked' \in (SUBSET emergency) \cup {marked}
                              /\ m < n => marked' = emergency
  <2>7. PICK n \in 0..Prefixes : \E m \in 0..n : Stopped(n, m)
    BY <1>4 DEF RollbackFails
  <2>2. PICK m \in 0..n : Stopped(n, m)
    BY <2>7
  <2>3. table' \in [Path -> Table]
    BY <1>1, <2>2, SteeredTwice
  <2>4. m = n \/ m < n
    BY <2>2
  <2>5. marked' \subseteq Path
    BY <1>1, <2>2, <2>4 DEF SlotsTypeOK
  <2>6. budget' \in 0..Disturbances
    BY <1>1, <2>1, DisturbType
  <2> QED
    BY <1>1, <2>1, <2>3, <2>5, <2>6 DEF SlotsTypeOK
<1>5. CASE RemapHangs(s, to)
  <2>1. torn' = TRUE /\ UNCHANGED <<undone, installed, healthy>> /\ Disturb(1)
    BY <1>5 DEF RemapHangs
  <2>2. PICK n \in 0..Prefixes : table' = Steered(table, s, to, n)
    BY <1>5, Numbers DEF RemapHangs
  <2>3. table' \in [Path -> Table]
    BY <1>1, <2>2, SteeredTable DEF SlotsTypeOK
  <2>4. EmergencyAfter(s, to) \subseteq Path
    BY <1>1 DEF SlotsTypeOK, EmergencyAfter
  <2>5. emergency' \subseteq Path /\ marked' \subseteq Path
    BY <1>1, <1>5, <2>4 DEF RemapHangs, SlotsTypeOK
  <2>6. budget' \in 0..Disturbances
    BY <1>1, <2>1, DisturbType
  <2> QED
    BY <1>1, <2>1, <2>3, <2>5, <2>6 DEF SlotsTypeOK
<1> QED
  BY <1>2, <1>3, <1>4, <1>5


LEMMA EmergencyRemapStep ==
  ASSUME EdgeAgentV4Assumption, OneStory, EmergencyRemap
  PROVE  OneStory'
<1>1. SlotsTypeOK /\ PlacesOK /\ pc \in Place /\ pc.at = "remap" /\ UNCHANGED count
  BY DEF OneStory, EmergencyRemap, SlotsTypeOK
<1>2. pc.slot \in Path /\ pc.to \in Path /\ pc.to # pc.slot /\ pc.next \in 2..(Len(Order) + 1)
  BY <1>1, PlaceKinds DEF PlacesOK
<1>3. PICK s \in Path : pc.slot = s
  BY <1>2
<1>4. PICK to \in Path : pc.to = to
  BY <1>2
<1>5. PICK i \in 1..(Len(Order) + 1) : pc.next = i
  <2>1. pc.next \in 1..(Len(Order) + 1)
    BY <1>2, OrderPlaces
  <2> QED
    BY <2>1
<1>6. to # s
  BY <1>2, <1>3, <1>4
<1>7. CASE Remapped(s, to) /\ slots' = [slots EXCEPT ![s] = Blackened(s, to)] /\ pc' = Checking(i)
  <2>1. /\ table' \in [Path -> Table] /\ undone' = undone \ {s}
        /\ emergency' = EmergencyAfter(s, to) /\ marked' = EmergencyAfter(s, to)
        /\ EmergencyAfter(s, to) \subseteq Path /\ undone' \subseteq Path
        /\ UNCHANGED <<installed, torn, budget, healthy>>
        /\ \A p \in Path : p # s => table'[p] = table[p]
        /\ \A k \in 1..Prefixes : table'[s][k] = to
    BY <1>1, <1>7, CallPasses
  <2>2. /\ Blackened(s, to) \in Slot /\ Blackened(s, to).path = to
        /\ Blackened(s, to).failed /\ Blackened(s, to).emergency
    BY Numbers DEF Blackened, Slot, NoDeadline
  <2>3. /\ slots' \in [Path -> Slot] /\ slots'[s].path = to
        /\ slots'[s].failed /\ slots'[s].emergency
        /\ \A p \in Path : p # s => slots'[p] = slots[p]
    BY <1>1, <1>7, <2>2 DEF SlotsTypeOK
  <2>4. pc' \in Place /\ pc'.at = "check" /\ pc'.next = i
    BY <1>7, NewPlaces
  <2>5. SlotsTypeOK'
    BY <1>1, <2>1, <2>3, <2>4 DEF SlotsTypeOK
  <2>6. \A j \in 1..Len(Order) : j < i /\ Order[j] # s => Seen(Order[j])
    BY <1>1, <1>3, <1>5 DEF PlacesOK
  <2>7. \A p \in Path : Seen(p) \/ p = s => Seen(p)'
    BY <1>1, <2>1, <2>3 DEF Seen
  <2>8. \A j \in 1..Len(Order) : j < i => Seen(Order[j])'
    BY <2>6, <2>7, OrderPlaces
  <2>9. PlacesOK'
    BY <2>4, <2>8 DEF PlacesOK
  <2>10. ~torn' => Marked'
    <3>1. emergency' = emergency \cup {s} /\ marked' = emergency'
      BY <1>6, <2>1 DEF EmergencyAfter
    <3>2. ~torn => emergency = {p \in Path : slots[p].emergency}
      BY DEF OneStory, Marked
    <3> QED
      BY <2>1, <2>3, <3>1, <3>2 DEF Marked
  <2>11. ASSUME installed', ~torn', NEW p \in Path
         PROVE  Routed(p)'
    <3>1. Routed(p)
      BY <2>1, <2>11 DEF OneStory
    <3>2. CASE p = s
      BY <2>1, <2>3, <3>2 DEF Routed
    <3>3. CASE p # s
      BY <2>1, <2>3, <3>1, <3>3 DEF Routed
    <3> QED
      BY <3>2, <3>3
  <2> QED
    BY <2>5, <2>9, <2>10, <2>11 DEF OneStory
<1>8. CASE /\ \/ RemapRefused(s, to) \/ RemapRolledBack(s, to)
              \/ RollbackFails(s, to) \/ RemapHangs(s, to)
           /\ pc' \in {Waiting, Dead} /\ UNCHANGED slots
  <2>1. /\ table' \in [Path -> Table]
        /\ emergency' \subseteq Path /\ marked' \subseteq Path /\ undone' \subseteq Path
        /\ torn' \in BOOLEAN /\ budget' \in 0..Disturbances
        /\ UNCHANGED <<installed, healthy>>
        /\ ~torn' => Marked'
        /\ installed' /\ ~torn' => \A p \in Path : Routed(p)'
    BY <1>8, CallFails
  <2>2. pc' \in Place /\ pc'.at \in {"wait", "dead"}
    BY <1>8, NewPlaces
  <2>3. SlotsTypeOK'
    BY <1>1, <1>8, <2>1, <2>2 DEF SlotsTypeOK
  <2>4. PlacesOK'
    BY <2>2 DEF PlacesOK
  <2> QED
    BY <2>1, <2>3, <2>4 DEF OneStory
<1> QED
  BY <1>3, <1>4, <1>5, <1>7, <1>8 DEF EmergencyRemap

\* The next slot to restore is one of those found ready.
LEMMA OnwardsPlace ==
  ASSUME EdgeAgentV4Assumption, NEW ready \in SUBSET Path, Onwards(ready)
  PROVE  /\ pc' \in Place /\ pc'.at \in {"wait", "restore"}
         /\ pc'.at = "restore" => pc'.slot \in ready /\ pc'.rest \subseteq ready
<1>1. CASE ready = {}
  BY <1>1, NewPlaces DEF Onwards
<1>2. CASE ready # {}
  <2>1. PICK i \in 1..Len(Order) : Order[i] \in ready /\ pc' = Restoring(Order[i], ready \ {Order[i]})
    BY <1>2, OrderPlaces DEF Onwards
  <2>2. PICK p \in Path : p = Order[i]
    BY OrderPlaces
  <2>3. p \in ready /\ pc' = Restoring(p, ready \ {p}) /\ ready \ {p} \in SUBSET Path
    BY <2>1, <2>2
  <2> QED
    BY <2>3, NewPlaces
<1> QED
  BY <1>1, <1>2

LEMMA FindReadyStep ==
  ASSUME EdgeAgentV4Assumption, OneStory, FindReady
  PROVE  OneStory'
<1>1. /\ SlotsTypeOK /\ PlacesOK /\ pc \in Place /\ pc.at = "check" /\ pc.next > Len(Order)
      /\ UNCHANGED <<healthy, count, slots, table, emergency, marked, undone, torn, installed, budget>>
  BY DEF OneStory, FindReady, SlotsTypeOK, manager, kernel
<1>2. PICK idle \in SUBSET Path : Onwards({p \in Path : Ready(p, idle)})
  BY DEF FindReady
<1> DEFINE ready == {p \in Path : Ready(p, idle)}
<1>3. PICK found \in SUBSET Path : found = ready
  OBVIOUS
<1>4. \A p \in found : p \in Path /\ ~slots[p].failed
  BY <1>3 DEF Ready
<1>5. /\ pc' \in Place /\ pc'.at \in {"wait", "restore"}
      /\ pc'.at = "restore" => pc'.slot \in found /\ pc'.rest \subseteq found
  BY <1>2, <1>3, OnwardsPlace
<1> HIDE DEF ready
<1>6. \A j \in 1..Len(Order) : Seen(Order[j])
  <2>1. pc.next \in 1..(Len(Order) + 1)
    BY <1>1, PlaceKinds
  <2>2. \A j \in 1..Len(Order) : j < pc.next
    BY <1>1, <2>1, OrderPlaces
  <2> QED
    BY <1>1, <2>2 DEF PlacesOK
<1>7. \A p \in found : Alive(p)
  BY <1>4, <1>6, OrderPlaces DEF Seen, Alive
<1>8. \A p \in found : Alive(p)'
  BY <1>1, <1>7 DEF Alive
<1>9. PlacesOK'
  BY <1>5, <1>8 DEF PlacesOK
<1>10. SlotsTypeOK'
  BY <1>1, <1>5 DEF SlotsTypeOK
<1> QED
  BY <1>1, <1>9, <1>10 DEF OneStory, Marked, Routed


LEMMA RestoreStep ==
  ASSUME EdgeAgentV4Assumption, OneStory, Restore
  PROVE  /\ OneStory'
         /\ \A p \in Path : slots[p].emergency /\ ~slots'[p].emergency => Alive(p)
<1>1. SlotsTypeOK /\ PlacesOK /\ pc \in Place /\ pc.at = "restore" /\ UNCHANGED count
  BY DEF OneStory, Restore, SlotsTypeOK
<1>2. pc.slot \in Path /\ pc.rest \in SUBSET Path
  BY <1>1, PlaceKinds
<1>3. PICK s \in Path : pc.slot = s
  BY <1>2
<1>4. PICK rest \in SUBSET Path : pc.rest = rest
  BY <1>2
<1>5. Alive(s) /\ \A p \in rest : Alive(p)
  BY <1>1, <1>3, <1>4 DEF PlacesOK
<1>6. ASSUME Remapped(s, s), slots' = [slots EXCEPT ![s] = Own(s)], Onwards(rest)
      PROVE  OneStory' /\ \A p \in Path : slots[p].emergency /\ ~slots'[p].emergency => Alive(p)
  <2>1. /\ table' \in [Path -> Table] /\ undone' = undone \ {s}
        /\ emergency' = EmergencyAfter(s, s) /\ marked' = EmergencyAfter(s, s)
        /\ EmergencyAfter(s, s) \subseteq Path /\ undone' \subseteq Path
        /\ UNCHANGED <<installed, torn, budget, healthy>>
        /\ \A p \in Path : p # s => table'[p] = table[p]
        /\ \A k \in 1..Prefixes : table'[s][k] = s
    BY <1>1, <1>6, CallPasses
  <2>2. Own(s) \in Slot /\ Own(s).path = s /\ ~Own(s).emergency
    BY Numbers DEF Own, Slot, NoDeadline
  <2>3. /\ slots' \in [Path -> Slot] /\ slots'[s].path = s /\ ~slots'[s].emergency
        /\ \A p \in Path : p # s => slots'[p] = slots[p]
    BY <1>1, <1>6, <2>2 DEF SlotsTypeOK
  <2>4. /\ pc' \in Place /\ pc'.at \in {"wait", "restore"}
        /\ pc'.at = "restore" => pc'.slot \in rest /\ pc'.rest \subseteq rest
    BY <1>6, OnwardsPlace
  <2>5. SlotsTypeOK'
    BY <1>1, <2>1, <2>3, <2>4 DEF SlotsTypeOK
  <2>6. \A p \in rest : Alive(p)'
    BY <1>1, <1>5, <2>1 DEF Alive
  <2>7. PlacesOK'
    BY <2>4, <2>6 DEF PlacesOK
  <2>8. ~torn' => Marked'
    <3>1. emergency' = emergency \ {s} /\ marked' = emergency'
      BY <2>1 DEF EmergencyAfter
    <3>2. ~torn => emergency = {p \in Path : slots[p].emergency}
      BY DEF OneStory, Marked
    <3> QED
      BY <2>1, <2>3, <3>1, <3>2 DEF Marked
  <2>9. ASSUME installed', ~torn', NEW p \in Path
        PROVE  Routed(p)'
    <3>1. Routed(p)
      BY <2>1, <2>9 DEF OneStory
    <3>2. CASE p = s
      BY <2>1, <2>3, <3>2 DEF Routed
    <3>3. CASE p # s
      BY <2>1, <2>3, <3>1, <3>3 DEF Routed
    <3> QED
      BY <3>2, <3>3
  <2> QED
    BY <1>5, <2>3, <2>5, <2>7, <2>8, <2>9 DEF OneStory
<1>7. ASSUME \/ RemapRefused(s, s) \/ RemapRolledBack(s, s)
             \/ RollbackFails(s, s) \/ RemapHangs(s, s),
             pc' \in {Waiting, Dead}, UNCHANGED slots
      PROVE  OneStory' /\ \A p \in Path : slots[p].emergency /\ ~slots'[p].emergency => Alive(p)
  <2>1. /\ table' \in [Path -> Table]
        /\ emergency' \subseteq Path /\ marked' \subseteq Path /\ undone' \subseteq Path
        /\ torn' \in BOOLEAN /\ budget' \in 0..Disturbances
        /\ UNCHANGED <<installed, healthy>>
        /\ ~torn' => Marked'
        /\ installed' /\ ~torn' => \A p \in Path : Routed(p)'
    BY <1>7, CallFails
  <2>2. pc' \in Place /\ pc'.at \in {"wait", "dead"}
    BY <1>7, NewPlaces
  <2>3. SlotsTypeOK'
    BY <1>1, <1>7, <2>1, <2>2 DEF SlotsTypeOK
  <2>4. PlacesOK'
    BY <2>2 DEF PlacesOK
  <2> QED
    BY <1>7, <2>1, <2>3, <2>4 DEF OneStory
<1> QED
  BY <1>3, <1>4, <1>6, <1>7 DEF Restore

\* A turn of the first loop starts and ends no emergency.
LEMMA CheckKeepsEmergencies ==
  ASSUME EdgeAgentV4Assumption, OneStory, Check
  PROVE  \A p \in Path : slots'[p].emergency = slots[p].emergency
<1>1. slots \in [Path -> Slot]
  BY DEF OneStory, SlotsTypeOK
<1>2. CASE UNCHANGED slots
  BY <1>2
<1>3. CASE slots' = [slots EXCEPT ![Order[pc.next]].failed = FALSE,
                                  ![Order[pc.next]].drain = IF slots[Order[pc.next]].emergency
                                                            THEN DrainTimeout ELSE @]
  <2>1. \A p \in Path : slots[p] \in Slot
    BY <1>1
  <2> QED
    BY <1>1, <1>3, <2>1 DEF Slot
<1> QED
  BY <1>2, <1>3 DEF Check

\* Every step tells the story on, and ends an emergency only over a transport
\* that is alive.
LEMMA OneStoryStep ==
  ASSUME EdgeAgentV4Assumption, OneStory, [SlotsNext]_slotsVars
  PROVE  /\ OneStory'
         /\ \A p \in Path : slots[p].emergency /\ ~slots'[p].emergency => Alive(p)
<1>1. CASE Measure
  BY <1>1, MeasureStep DEF Measure, manager
<1>2. CASE Check
  <2>1. \A p \in Path : slots'[p].emergency = slots[p].emergency
    BY <1>2, CheckKeepsEmergencies
  <2> QED
    BY <1>2, <2>1, CheckStep
<1>3. CASE EmergencyRemap
  <2>1. ASSUME NEW p \in Path, slots[p].emergency
        PROVE  slots'[p].emergency
    <3>1. slots \in [Path -> Slot]
      BY DEF OneStory, SlotsTypeOK
    <3>2. CASE slots' = [slots EXCEPT ![pc.slot] = Blackened(pc.slot, pc.to)]
      <4>1. Blackened(pc.slot, pc.to).emergency
        BY DEF Blackened
      <4>2. CASE p = pc.slot
        BY <3>1, <3>2, <4>1, <4>2
      <4>3. CASE p # pc.slot
        BY <2>1, <3>1, <3>2, <4>3
      <4> QED
        BY <4>2, <4>3
    <3>3. CASE UNCHANGED slots
      BY <2>1, <3>3
    <3> QED
      BY <1>3, <3>2, <3>3 DEF EmergencyRemap
  <2> QED
    BY <1>3, <2>1, EmergencyRemapStep
<1>4. CASE FindReady
  BY <1>4, FindReadyStep DEF FindReady, manager
<1>5. CASE Restore
  BY <1>5, RestoreStep
<1>6. CASE Reconcile
  BY <1>6, ReconcileStep DEF Reconcile
<1>7. CASE ReconcileFails
  BY <1>7, ReconcileFailsStep DEF ReconcileFails
<1>8. CASE SlotsTick
  <2>1. \A p \in Path : slots[p] \in Slot
    BY SlotFields DEF OneStory
  <2>2. \A p \in Path : slots'[p].emergency = slots[p].emergency
    BY <1>8, <2>1 DEF SlotsTick, Slot
  <2> QED
    BY <1>8, <2>2, SlotsTickStep
<1>9. CASE UNCHANGED slotsVars
  BY <1>9 DEF slotsVars, OneStory, SlotsTypeOK, PlacesOK, Seen, Alive, Marked, Routed
<1> QED
  BY <1>1, <1>2, <1>3, <1>4, <1>5, <1>6, <1>7, <1>8, <1>9 DEF SlotsNext, Monitor

LEMMA SpecOneStory ==
  ASSUME EdgeAgentV4Assumption
  PROVE  SlotsSpec => []OneStory
<1>1. SlotsInit => OneStory
  BY OneStoryInit
<1>2. OneStory /\ [SlotsNext]_slotsVars => OneStory'
  BY OneStoryStep
<1> QED
  BY <1>1, <1>2, PTL DEF SlotsSpec

(***************************************************************************)
(* Kernel, actuator and failover manager tell one story unless a repair or *)
(* a reconcile was itself cut short: for any number of underlays, routes   *)
(* and disturbances (edge_agent_v4.py:280-347, 820-846).                   *)
(***************************************************************************)
THEOREM SpecKernelAgrees ==
  ASSUME EdgeAgentV4Assumption
  PROVE  SlotsSpec => []KernelAgrees
<1>1. OneStory => KernelAgrees
  BY DEF OneStory, KernelAgrees, Marked, Routed
<1> QED
  BY <1>1, SpecOneStory, PTL

(***************************************************************************)
(* No step gives a slot back to a transport in a blackout while another    *)
(* one works (edge_agent_v4.py:820-841).                                   *)
(***************************************************************************)
THEOREM SpecRestoredOntoLive ==
  ASSUME EdgeAgentV4Assumption
  PROVE  SlotsSpec => RestoredOntoLive
<1>1. OneStory /\ [SlotsNext]_slotsVars
      => [\A p \in Path : slots[p].emergency /\ ~slots'[p].emergency
            => count[p] < Failures \/ healthy \subseteq {p}]_slotsVars
  BY OneStoryStep DEF Alive
<1> QED
  BY <1>1, SpecOneStory, PTL DEF SlotsSpec, RestoredOntoLive
=============================================================================
