------------------------ MODULE PolicyControlProofs -------------------------
(***************************************************************************)
(* Theorems about PolicyControl for any number of spokes, reconcile        *)
(* processes, activations and registrations; failures where said.          *)
(***************************************************************************)
EXTENDS PolicyControl, FiniteSetTheorems, TLAPS

-----------------------------------------------------------------------------
(***************************************************************************)
(* Types, and the versions a reconcile may hold: some published one.       *)
(***************************************************************************)
VersionsExist ==
  \A x \in Site : \A w \in Worker :
    worker[x][w].step # "idle" => worker[x][w].version \in 1..Latest(x)

Typed ==
  /\ TypeOK
  /\ desired \in [Site -> Seq(Keys)]
  /\ verified \in [Site -> SUBSET Nat]
  /\ VersionsExist

(***************************************************************************)
(* last-confirmed.json says how far the edge has come at least: what it    *)
(* runs is of that version or a later one, and what it acknowledges is of  *)
(* that version or an earlier one.  One process at a time is between       *)
(* loading the file and writing it.                                        *)
(***************************************************************************)
Updating(x, w) == worker[x][w].step \in {"loaded", "applied"}

RunsConfirmed(x) ==
  confirmed[x] > 0 => \E i \in confirmed[x]..Latest(x) : installed[x] = desired[x][i]

Faithful(x, w) ==
  /\ Updating(x, w) => worker[x][w].local = confirmed[x]
  /\ worker[x][w].step = "applied" =>
       /\ worker[x][w].version >= confirmed[x]
       /\ installed[x] = desired[x][worker[x][w].version]
  /\ worker[x][w].step = "ack" /\ worker[x][w].status = "VERIFIED" =>
       worker[x][w].version <= confirmed[x]

InStep(x) ==
  /\ confirmed[x] \in 0..Latest(x)
  /\ \A v \in verified[x] : v <= confirmed[x]
  /\ RunsConfirmed(x)
  /\ \A w \in Worker : Faithful(x, w)
  /\ \A v, w \in Worker : Updating(x, v) /\ Updating(x, w) => v = w

Confirming == \A x \in Site : InStep(x)

OneLoads ==
  \A x \in Site, w \in Worker : LoadLocal(x, w) => \A v \in Worker : ~Updating(x, v)

-----------------------------------------------------------------------------
LEMMA AppendKeeps ==
  ASSUME NEW S, NEW seq \in Seq(S), NEW e \in S
  PROVE  /\ Append(seq, e) \in Seq(S)
         /\ Len(Append(seq, e)) = Len(seq) + 1
         /\ \A i \in 1..Len(seq) : Append(seq, e)[i] = seq[i]
         /\ Len(seq) \in Nat
OBVIOUS

(***************************************************************************)
(* Published versions stay: put_desired_state only adds the next one.      *)
(***************************************************************************)
Grows ==
  /\ desired' \in [Site -> Seq(Keys)]
  /\ \A x \in Site :
       /\ Latest(x) \in Nat /\ Latest(x)' \in Nat /\ Latest(x) <= Latest(x)'
       /\ \A i \in 1..Latest(x) : desired'[x][i] = desired[x][i]

LEMMA SameGrows ==
  ASSUME desired \in [Site -> Seq(Keys)], desired' = desired
  PROVE  Grows
BY DEF Grows, Latest

LEMMA AppendGrows ==
  ASSUME desired \in [Site -> Seq(Keys)], NEW x \in Site, NEW k \in Keys,
         desired' = [desired EXCEPT ![x] = Append(@, k)]
  PROVE  Grows
<1>1. desired[x] \in Seq(Keys)
  OBVIOUS
<1>2. /\ Append(desired[x], k) \in Seq(Keys)
      /\ Len(Append(desired[x], k)) = Len(desired[x]) + 1
      /\ \A i \in 1..Len(desired[x]) : Append(desired[x], k)[i] = desired[x][i]
      /\ Len(desired[x]) \in Nat
  BY <1>1, AppendKeeps
<1>3. desired' \in [Site -> Seq(Keys)]
  BY <1>2
<1>4. desired'[x] = Append(desired[x], k) /\ \A y \in Site : y # x => desired'[y] = desired[y]
  OBVIOUS
<1>5. \A y \in Site : Len(desired[y]) \in Nat
  OBVIOUS
<1> QED
  BY <1>2, <1>3, <1>4, <1>5 DEF Grows, Latest

LEMMA NextGrows ==
  ASSUME Typed, [Next]_vars
  PROVE  Grows
<1> USE DEF Typed
<1>1. ASSUME NEW x \in Site, PutHubState(x)
      PROVE  Grows
  <2>1. register[x].hub \in Site /\ register[x].seen \in Keys
    BY DEF TypeOK, Request, Site
  <2> QED
    BY <1>1, <2>1, SameGrows, AppendGrows DEF PutHubState
<1>2. ASSUME NEW x \in Site, StoreKey(x, TRUE) \/ StoreKey(x, FALSE) \/ RefuseKey(x) \/ ReadKeys(x)
                             \/ ReadVersion(x) \/ PutConflict(x)
      PROVE  Grows
  BY <1>2, SameGrows DEF StoreKey, RefuseKey, ReadKeys, ReadVersion, PutConflict, store
<1>3. ASSUME NEW x \in Site, NEW w \in Worker, ReconcileStep(x, w)
      PROVE  Grows
  BY <1>3, SameGrows
  DEF ReconcileStep, Fetch, LoadLocal, ApplyDesired, RejectOlder, PersistConfirmed, Acknowledge,
      WorkerDies, store
<1>4. ASSUME NEW s \in Spoke, NEW c \in Caller, PublishSpoke(s, c)
      PROVE  Grows
  <2>1. activate[s][c].seen \in Keys /\ s \in Site
    BY DEF TypeOK, Activation, Site
  <2> QED
    BY <1>4, <2>1, SameGrows, AppendGrows DEF PublishSpoke
<1>5. ASSUME NEW s \in Spoke, NEW c \in Caller,
             BeginActivation(s, c) \/ CheckHubs(s, c) \/ CheckExisting(s, c)
               \/ ReserveResources(s, c) \/ ReadOwner(s, c) \/ TransferOwnership(s, c)
               \/ ReadSpokeVersion(s, c)
      PROVE  Grows
  BY <1>5, SameGrows
  DEF BeginActivation, CheckHubs, CheckExisting, ReserveResources, ReadOwner, TransferOwnership,
      ReadSpokeVersion, store
<1>6. CASE PolicyCrash \/ UNCHANGED vars
  BY <1>6, SameGrows DEF PolicyCrash, vars, store
<1> QED
  BY <1>1, <1>2, <1>3, <1>4, <1>5, <1>6 DEF Next, RegisterStep, ActivateStep

-----------------------------------------------------------------------------
LEMMA TypedInit == Init => Typed
<1> SUFFICES ASSUME Init PROVE Typed
  OBVIOUS
<1>1. NoKeys \in Keys /\ Idle \in Request /\ NotActivating \in Activation /\ Resting \in Reconcile
  BY DEF NoKeys, Keys, LastKey, Idle, Hub, Request, NotActivating, Activation, Resting, Reconcile
<1>2. /\ desired \in [Site -> Seq(Keys)] /\ verified \in [Site -> SUBSET Nat]
      /\ \A x \in Site : verified[x] = {}
  BY DEF Init
<1>3. registrations \in 0..MaxRegistrations /\ failures \in 0..Failures
  BY PolicyAssumption DEF Init
<1>4. /\ register \in [Site -> Request] /\ worker \in [Site -> [Worker -> Reconcile]]
      /\ activate \in [Spoke -> [Caller -> Activation]]
  BY <1>1 DEF Init
<1>5. VersionsExist
  BY DEF Init, VersionsExist, Resting
<1>6. /\ keys \in Keys /\ reserved \subseteq Spoke /\ epoch \in [Spoke -> Nat]
      /\ confirmed \in [Site -> Nat] /\ installed \in [Site -> Keys]
  BY <1>1 DEF Init
<1> QED
  BY <1>2, <1>3, <1>4, <1>5, <1>6 DEF Typed, TypeOK

(***************************************************************************)
(* What concerns desired states, acknowledgements and reconciles keeps its *)
(* type when only states are added.                                        *)
(***************************************************************************)
StatesTyped ==
  /\ desired \in [Site -> Seq(Keys)]
  /\ verified \in [Site -> SUBSET Nat]
  /\ \A x \in Site : verified[x] \subseteq 1..Len(desired[x])
  /\ worker \in [Site -> [Worker -> Reconcile]]
  /\ VersionsExist

LEMMA StatesTypedGrows ==
  ASSUME StatesTyped, Grows, UNCHANGED <<verified, worker>>
  PROVE  StatesTyped'
<1>1. \A x \in Site : 1..Latest(x) \subseteq 1..Latest(x)'
  BY DEF Grows
<1>2. VersionsExist'
  BY <1>1 DEF StatesTyped, VersionsExist
<1>3. \A x \in Site : verified'[x] \subseteq 1..Len(desired'[x])
  BY <1>1 DEF StatesTyped, Latest
<1> QED
  BY <1>2, <1>3 DEF StatesTyped, Grows

LEMMA TypedRegister ==
  ASSUME Typed, Grows, NEW x \in Site, RegisterStep(x)
  PROVE  Typed'
<1> USE PolicyAssumption DEF Typed
<1>1. register'\in [Site -> Request]
  <2>1. register[x] \in Request /\ Idle \in Request
    BY DEF TypeOK, Idle, Request, Hub, NoKeys, Keys, LastKey
  <2>2. \A h \in Hub : Latest(h) \in Nat /\ Latest(h) + 1 \in Nat
    BY DEF Grows, Site
  <2>3. AfterPut(register[x]) \in Request
    BY <2>1 DEF AfterPut, Request, Hub
  <2>4. keys \in Keys /\ register[x].hub \in Hub
    BY <2>1 DEF TypeOK, Request
  <2>5. CASE ReadKeys(x)
    BY <2>1, <2>4, <2>5 DEF ReadKeys, TypeOK, Request, Hub
  <2> DEFINE next == Latest(register[x].hub) + 1
             put == [register[x] EXCEPT !.step = "put", !.version = next]
  <2>6. CASE ReadVersion(x)
    <3>1. next \in Nat
      BY <2>2, <2>4
    <3> HIDE DEF next
    <3>2. put \in Request
      BY <2>1, <3>1 DEF Request
    <3>3. register' = [register EXCEPT ![x] = put]
      BY <2>6 DEF ReadVersion, TypeOK, next
    <3> QED
      BY <3>2, <3>3 DEF TypeOK
  <2>7. CASE PutHubState(x) \/ PutConflict(x)
    BY <2>1, <2>3, <2>7 DEF PutHubState, PutConflict, TypeOK
  <2>8. CASE \E new \in BOOLEAN : StoreKey(x, new)
    <3>1. [register[x] EXCEPT !.step = "stored"] \in Request
      BY <2>1 DEF Request
    <3>2. register' = [register EXCEPT ![x] = [register[x] EXCEPT !.step = "stored"]]
      BY <2>8 DEF StoreKey, TypeOK
    <3> QED
      BY <3>1, <3>2 DEF TypeOK
  <2>9. CASE RefuseKey(x)
    BY <2>9 DEF RefuseKey, threads, TypeOK
  <2> QED
    BY <2>5, <2>6, <2>7, <2>8, <2>9 DEF RegisterStep
<1>2. keys' \in Keys
  <2>1. CASE \E new \in BOOLEAN : StoreKey(x, new)
    <3>1. keys \in [Site -> 0..2]
      BY DEF TypeOK, Keys, LastKey
    <3>2. keys' = keys \/ (keys[x] < 2 /\ keys' = [keys EXCEPT ![x] = keys[x] + 1])
      BY <2>1 DEF StoreKey, LastKey
    <3>3. keys[x] < 2 => keys[x] + 1 \in 0..2
      BY <3>1
    <3>4. keys' \in [Site -> 0..2]
      BY <3>1, <3>2, <3>3
    <3> QED
      BY <3>4 DEF Keys, LastKey
  <2> QED
    BY <2>1
    DEF RegisterStep, RefuseKey, ReadKeys, ReadVersion, PutHubState, PutConflict, store, TypeOK
<1>3. registrations' \in 0..MaxRegistrations /\ failures' = failures
  BY DEF RegisterStep, StoreKey, RefuseKey, CountRegistration, ReadKeys, ReadVersion, PutHubState,
         PutConflict, bounds, TypeOK
<1>4. UNCHANGED <<verified, reserved, epoch, activate, worker, confirmed, installed>>
  BY DEF RegisterStep, StoreKey, RefuseKey, ReadKeys, ReadVersion, PutHubState,
         PutConflict, store, threads, edges
<1>5. StatesTyped'
  BY <1>4, StatesTypedGrows DEF StatesTyped, TypeOK
<1> QED
  BY <1>1, <1>2, <1>3, <1>4, <1>5 DEF TypeOK, StatesTyped

LEMMA TypedActivate ==
  ASSUME Typed, Grows, NEW s \in Spoke, NEW c \in Caller, ActivateStep(s, c)
  PROVE  Typed'
<1> USE DEF Typed
<1>1. activate' \in [Spoke -> [Caller -> Activation]]
  <2>1. activate[s][c] \in Activation /\ NotActivating \in Activation /\ keys \in Keys
    BY DEF TypeOK, NotActivating, Activation, NoKeys, Keys, LastKey
  <2>2. CASE BeginActivation(s, c)
    <3>1. [NotActivating EXCEPT !.step = "hub1", !.seen = keys] \in Activation
      BY <2>1 DEF Activation
    <3> QED
      BY <2>2, <3>1 DEF BeginActivation, TypeOK
  <2>3. ASSUME NEW step, NEW next \in {"idle", "hub2", "existing", "reserve", "owner", "version"},
               Activating(s, c, step, next)
        PROVE  activate' \in [Spoke -> [Caller -> Activation]]
    <3>1. [activate[s][c] EXCEPT !.step = next] \in Activation
      BY <2>1, <2>3 DEF Activation
    <3>2. activate' = [activate EXCEPT ![s][c] = IF next = "idle" THEN NotActivating
                                                 ELSE [activate[s][c] EXCEPT !.step = next]]
      BY <2>3 DEF Activating, TypeOK
    <3> QED
      BY <2>1, <3>1, <3>2 DEF TypeOK
  <2>4. CASE ReadOwner(s, c)
    <3>1. epoch[s] + 1 \in Nat
      BY DEF TypeOK
    <3>2. [activate[s][c] EXCEPT !.step = "transfer", !.epoch = epoch[s] + 1] \in Activation
      BY <2>1, <3>1 DEF Activation
    <3>3. activate' = [activate EXCEPT ![s][c] = [activate[s][c] EXCEPT !.step = "transfer",
                                                                        !.epoch = epoch[s] + 1]]
      BY <2>4 DEF ReadOwner, TypeOK
    <3> QED
      BY <3>2, <3>3 DEF TypeOK
  <2>5. CASE ReadSpokeVersion(s, c)
    <3> DEFINE latest == Latest(s)
    <3>1. latest + 1 \in Nat
      BY DEF Grows, Site
    <3>2. activate' = [activate EXCEPT ![s][c] = [activate[s][c] EXCEPT !.step = "publish",
                                                                        !.version = latest + 1]]
      BY <2>5 DEF ReadSpokeVersion, TypeOK
    <3> HIDE DEF latest
    <3>3. [activate[s][c] EXCEPT !.step = "publish", !.version = latest + 1] \in Activation
      BY <2>1, <3>1 DEF Activation
    <3> QED
      BY <3>2, <3>3 DEF TypeOK
  <2> QED
    BY <2>2, <2>3, <2>4, <2>5
    DEF ActivateStep, CheckHubs, CheckExisting, ReserveResources, TransferOwnership, PublishSpoke
<1>2. /\ reserved' \subseteq Spoke /\ epoch' \in [Spoke -> Nat]
      /\ UNCHANGED <<keys, verified, register, worker, confirmed, installed, registrations, failures>>
  <2>1. reserved' \subseteq Spoke
    BY DEF ActivateStep, BeginActivation, CheckHubs, CheckExisting, ReserveResources, ReadOwner,
           TransferOwnership, ReadSpokeVersion, PublishSpoke, store, TypeOK
  <2>2. epoch' = epoch \/ \E e \in {epoch[s], activate[s][c].epoch} : epoch' = [epoch EXCEPT ![s] = e]
    BY DEF ActivateStep, BeginActivation, CheckHubs, CheckExisting, ReserveResources, ReadOwner,
           TransferOwnership, ReadSpokeVersion, PublishSpoke, store
  <2>3. epoch \in [Spoke -> Nat] /\ activate[s][c].epoch \in Nat
    BY DEF TypeOK, Activation
  <2>4. epoch' \in [Spoke -> Nat]
    BY <2>2, <2>3
  <2>5. UNCHANGED <<keys, verified, register, worker, confirmed, installed, registrations, failures>>
    BY DEF ActivateStep, BeginActivation, CheckHubs, CheckExisting, ReserveResources, ReadOwner,
           TransferOwnership, ReadSpokeVersion, PublishSpoke, Activating, store, edges, bounds
  <2> QED
    BY <2>1, <2>4, <2>5
<1>3. StatesTyped'
  BY <1>2, StatesTypedGrows DEF StatesTyped, TypeOK
<1> QED
  BY <1>1, <1>2, <1>3 DEF TypeOK, StatesTyped

LEMMA TypedReconcile ==
  ASSUME Typed, Grows, NEW x \in Site, NEW w \in Worker, ReconcileStep(x, w)
  PROVE  Typed'
<1> USE PolicyAssumption DEF Typed
<1> DEFINE p == worker[x][w]
<1>1. p \in Reconcile /\ Resting \in Reconcile /\ Latest(x) \in Nat /\ confirmed[x] \in Nat
  BY DEF TypeOK, Resting, Reconcile, Grows
<1>2. PICK next : /\ next \in Reconcile
                  /\ worker' = [worker EXCEPT ![x][w] = next]
                  /\ next.step # "idle" => next.version \in 1..Latest(x)
  <2> DEFINE Fits(next) == /\ next \in Reconcile
                           /\ worker' = [worker EXCEPT ![x][w] = next]
                           /\ next.step # "idle" => next.version \in 1..Latest(x)
  <2>1. p.step # "idle" => p.version \in 1..Latest(x)
    BY DEF VersionsExist
  <2>2. CASE Fetch(x, w)
    <3> DEFINE latest == Latest(x)
               next == [Resting EXCEPT !.step = "fetched", !.version = latest]
    <3>1. latest \in Nat \ {0}
      BY <2>2, <1>1 DEF Fetch, Latest
    <3>2. worker' = [worker EXCEPT ![x][w] = next]
      BY <2>2 DEF Fetch, Working
    <3> HIDE DEF latest
    <3>3. next \in Reconcile /\ next.version = latest
      BY <3>1 DEF Resting, Reconcile
    <3>4. next.version \in 1..latest
      BY <3>1, <3>3
    <3> HIDE DEF next
    <3>5. Fits(next)
      BY <3>2, <3>3, <3>4 DEF latest
    <3> QED
      BY <3>5
  <2>3. CASE LoadLocal(x, w)
    <3>1. Fits([p EXCEPT !.step = "loaded", !.local = confirmed[x]])
      BY <2>3, <2>1, <1>1 DEF LoadLocal, Working, Reconcile
    <3> QED
      BY <3>1
  <2>4. CASE ApplyDesired(x, w)
    <3>1. Fits([p EXCEPT !.step = "applied"])
      BY <2>4, <2>1, <1>1 DEF ApplyDesired, Working, Reconcile
    <3> QED
      BY <3>1
  <2>5. CASE RejectOlder(x, w)
    <3>1. Fits([p EXCEPT !.step = "ack", !.status = "STALE"])
      BY <2>5, <2>1, <1>1 DEF RejectOlder, Working, Reconcile
    <3> QED
      BY <3>1
  <2>6. CASE PersistConfirmed(x, w)
    <3>1. Fits([p EXCEPT !.step = "ack"])
      BY <2>6, <2>1, <1>1 DEF PersistConfirmed, Working, Reconcile
    <3> QED
      BY <3>1
  <2>7. CASE Acknowledge(x, w) \/ WorkerDies(x, w)
    <3>1. Fits(Resting)
      BY <2>7, <1>1 DEF Acknowledge, WorkerDies, Working, Resting
    <3> QED
      BY <3>1
  <2> QED
    BY <2>2, <2>3, <2>4, <2>5, <2>6, <2>7 DEF ReconcileStep
<1>3. worker' \in [Site -> [Worker -> Reconcile]]
  BY <1>2 DEF TypeOK
<1>4. desired' = desired
  BY DEF ReconcileStep, Fetch, LoadLocal, ApplyDesired, RejectOlder, PersistConfirmed, Acknowledge,
         WorkerDies, store
<1>5. VersionsExist'
  BY <1>2, <1>4 DEF VersionsExist, TypeOK, Latest
<1>6. verified' \in [Site -> SUBSET Nat] /\ \A y \in Site : verified'[y] \subseteq 1..Len(desired'[y])
  <2>1. CASE Acknowledge(x, w)
    <3>1. p.version \in 1..Len(desired[x])
      BY <2>1 DEF Acknowledge, Working, VersionsExist, Latest
    <3>2. p.version \in Nat
      BY <1>1 DEF Reconcile
    <3>3. verified' = [verified EXCEPT ![x] = IF p.status = "VERIFIED" THEN verified[x] \cup {p.version}
                                             ELSE verified[x] \ {p.version}]
      BY <2>1 DEF Acknowledge
    <3> QED
      BY <1>4, <3>1, <3>2, <3>3 DEF TypeOK
  <2>2. CASE ~Acknowledge(x, w)
    BY <1>4, <2>2
    DEF ReconcileStep, Fetch, LoadLocal, ApplyDesired, RejectOlder, PersistConfirmed, WorkerDies, store,
        TypeOK
  <2> QED
    BY <2>1, <2>2
<1>7. confirmed' \in [Site -> Nat] /\ installed' \in [Site -> Keys]
  <2>1. p.step # "idle" => desired[x][p.version] \in Keys
    BY DEF VersionsExist, Latest
  <2>2. CASE ApplyDesired(x, w)
    BY <2>1, <2>2 DEF ApplyDesired, Working, TypeOK
  <2>3. CASE PersistConfirmed(x, w)
    BY <1>1, <2>3 DEF PersistConfirmed, Reconcile, TypeOK
  <2> QED
    BY <2>2, <2>3 DEF ReconcileStep, Fetch, LoadLocal, RejectOlder, Acknowledge, WorkerDies, TypeOK
<1>8. failures' \in 0..Failures /\ registrations' = registrations
  BY DEF ReconcileStep, Fetch, LoadLocal, ApplyDesired, RejectOlder, PersistConfirmed, Acknowledge,
         WorkerDies, Fail, Disturb, Working, TypeOK
<1>9. UNCHANGED <<keys, reserved, epoch, register, activate>>
  BY DEF ReconcileStep, Fetch, LoadLocal, ApplyDesired, RejectOlder, PersistConfirmed, Acknowledge,
         WorkerDies, Working, store, threads
<1> QED
  BY <1>3, <1>4, <1>5, <1>6, <1>7, <1>8, <1>9 DEF TypeOK

LEMMA TypedStep ==
  ASSUME Typed, [Next]_vars
  PROVE  Typed'
<1>1. Grows
  BY NextGrows
<1>2. ASSUME NEW x \in Site, RegisterStep(x)
      PROVE  Typed'
  BY <1>1, <1>2, TypedRegister
<1>3. ASSUME NEW x \in Site, NEW w \in Worker, ReconcileStep(x, w)
      PROVE  Typed'
  BY <1>1, <1>3, TypedReconcile
<1>4. ASSUME NEW s \in Spoke, NEW c \in Caller, ActivateStep(s, c)
      PROVE  Typed'
  BY <1>1, <1>4, TypedActivate
<1>5. CASE PolicyCrash
  <2>1. Idle \in Request /\ NotActivating \in Activation
    BY DEF Idle, Hub, Request, NotActivating, Activation, NoKeys, Keys, LastKey
  <2>2. register' \in [Site -> Request] /\ activate' \in [Spoke -> [Caller -> Activation]]
    BY <1>5, <2>1 DEF PolicyCrash
  <2>3. failures' \in 0..Failures /\ UNCHANGED <<store, edges, registrations>>
    BY <1>5, PolicyAssumption DEF PolicyCrash, Fail, Disturb, Typed, TypeOK
  <2> QED
    BY <2>2, <2>3 DEF Typed, TypeOK, VersionsExist, Latest, store, edges
<1>6. CASE UNCHANGED vars
  BY <1>6 DEF Typed, TypeOK, VersionsExist, Latest, vars, store, threads, edges, bounds
<1> QED
  BY <1>2, <1>3, <1>4, <1>5, <1>6 DEF Next

-----------------------------------------------------------------------------
(***************************************************************************)
(* Reconciles.                                                             *)
(***************************************************************************)
LEMMA ConfirmingInit == Init => Confirming
BY DEF Init, Confirming, InStep, RunsConfirmed, Faithful, Updating, Resting, Latest

(***************************************************************************)
(* What an edge runs of a version stays what it was when versions are      *)
(* added.                                                                  *)
(***************************************************************************)
LEMMA ConfirmingGrows ==
  ASSUME Typed, Grows, NEW x \in Site, InStep(x),
         confirmed'[x] = confirmed[x], installed'[x] = installed[x], verified'[x] = verified[x],
         worker'[x] = worker[x]
  PROVE  InStep(x)'
<1>1. confirmed[x] \in Nat /\ Latest(x) \in Nat
  BY DEF Typed, TypeOK, Grows
<1>2. RunsConfirmed(x)'
  <2> SUFFICES ASSUME confirmed[x] > 0
               PROVE  \E i \in confirmed[x]..Latest(x)' : installed[x] = desired'[x][i]
    BY DEF RunsConfirmed
  <2>1. PICK i \in confirmed[x]..Latest(x) : installed[x] = desired[x][i]
    BY DEF InStep, RunsConfirmed
  <2>2. i \in 1..Latest(x) /\ i \in confirmed[x]..Latest(x)'
    BY <1>1, <2>1 DEF Grows
  <2> QED
    BY <2>1, <2>2 DEF Grows
<1>3. ASSUME NEW w \in Worker
      PROVE  Faithful(x, w)'
  <2>1. worker[x][w].step = "applied" =>
          desired'[x][worker[x][w].version] = desired[x][worker[x][w].version]
    BY DEF Typed, VersionsExist, Grows
  <2>2. Faithful(x, w)
    BY DEF InStep
  <2> QED
    BY <2>1, <2>2 DEF Faithful, Updating
<1>4. confirmed'[x] \in 0..Latest(x)'
  BY <1>1 DEF InStep, Grows
<1>5. \A v, w \in Worker : Updating(x, v)' /\ Updating(x, w)' => v = w
  BY DEF InStep, Updating
<1> QED
  BY <1>2, <1>3, <1>4, <1>5 DEF InStep

LEMMA ConfirmingElsewhere ==
  ASSUME Typed, Confirming, Grows, UNCHANGED <<verified, edges>>
  PROVE  Confirming'
BY ConfirmingGrows DEF Confirming, edges

(***************************************************************************)
(* One reconcile step, for the site that takes it.                         *)
(***************************************************************************)
LEMMA ConfirmingAtSite ==
  ASSUME OneLoads, Typed, Confirming, Grows, desired' = desired,
         NEW x \in Site, NEW w \in Worker, ReconcileStep(x, w)
  PROVE  InStep(x)'
<1> DEFINE p == worker[x][w]
<1>1. /\ InStep(x) /\ Faithful(x, w) /\ Latest(x)' = Latest(x) /\ Latest(x) \in Nat
      /\ confirmed[x] \in Nat /\ p \in Reconcile
      /\ worker[x] \in [Worker -> Reconcile] /\ worker \in [Site -> [Worker -> Reconcile]]
      /\ verified[x] \subseteq Nat
  BY DEF Confirming, InStep, Typed, TypeOK, Grows, Latest
<1>2. p.step # "idle" => p.version \in 1..Latest(x)
  BY DEF Typed, VersionsExist
<1>3. ASSUME NEW next, worker' = [worker EXCEPT ![x][w] = next]
      PROVE  /\ worker'[x][w] = next
             /\ \A v \in Worker : v # w => worker'[x][v] = worker[x][v]
  BY <1>1, <1>3
<1>4. ASSUME NEW next, worker' = [worker EXCEPT ![x][w] = next],
             UNCHANGED <<confirmed, installed>>,
             verified'[x] \subseteq verified[x],
             next.step \in {"idle", "fetched"} \/ (next.step = "ack" /\ next.status = "STALE")
      PROVE  InStep(x)'
  <2>1. RunsConfirmed(x)'
    BY <1>1, <1>4 DEF InStep, RunsConfirmed, Latest
  <2>2. \A v \in Worker : v # w => Faithful(x, v)'
    BY <1>1, <1>3, <1>4 DEF InStep, Faithful, Updating
  <2>3. Faithful(x, w)'
    BY <1>3, <1>4 DEF Faithful, Updating
  <2>4. \A u, v \in Worker : Updating(x, u)' /\ Updating(x, v)' => u = v
    BY <1>1, <1>3, <1>4 DEF InStep, Updating
  <2> QED
    BY <1>1, <1>4, <2>1, <2>2, <2>3, <2>4 DEF InStep
<1>5. CASE Fetch(x, w)
  <2> DEFINE next == [Resting EXCEPT !.step = "fetched", !.version = Latest(x)]
  <2>1. worker' = [worker EXCEPT ![x][w] = next] /\ UNCHANGED <<confirmed, installed, verified>>
    BY <1>5 DEF Fetch, Working, store
  <2>2. next.step = "fetched"
    BY DEF Resting
  <2> HIDE DEF next
  <2> QED
    BY <1>4, <2>1, <2>2
<1>6. CASE LoadLocal(x, w)
  <2> DEFINE next == [p EXCEPT !.step = "loaded", !.local = confirmed[x]]
  <2>1. worker' = [worker EXCEPT ![x][w] = next] /\ UNCHANGED <<confirmed, installed, verified>>
    BY <1>6 DEF LoadLocal, Working, store
  <2>2. next.step = "loaded" /\ next.local = confirmed[x]
    BY <1>1 DEF Reconcile
  <2> HIDE DEF next
  <2>3. worker'[x][w] = next /\ \A v \in Worker : v # w => worker'[x][v] = worker[x][v]
    BY <1>3, <2>1
  <2>4. \A v \in Worker : ~Updating(x, v)
    BY <1>6 DEF OneLoads
  <2>5. \A v \in Worker : Faithful(x, v)'
    BY <1>1, <2>1, <2>2, <2>3 DEF InStep, Faithful, Updating
  <2>6. \A u, v \in Worker : Updating(x, u)' /\ Updating(x, v)' => u = v
    BY <2>3, <2>4 DEF Updating
  <2>7. RunsConfirmed(x)'
    BY <1>1, <2>1 DEF InStep, RunsConfirmed, Latest
  <2> QED
    BY <1>1, <2>1, <2>5, <2>6, <2>7 DEF InStep
<1>7. CASE ApplyDesired(x, w)
  <2> DEFINE next == [p EXCEPT !.step = "applied"]
  <2>1. /\ p.step = "loaded" /\ p.version >= p.local
        /\ worker' = [worker EXCEPT ![x][w] = next]
        /\ installed' = [installed EXCEPT ![x] = desired[x][p.version]]
        /\ UNCHANGED <<confirmed, verified>>
    BY <1>7 DEF ApplyDesired, Working, store
  <2>2. next.step = "applied" /\ next.local = p.local /\ next.version = p.version
    BY <1>1 DEF Reconcile
  <2> HIDE DEF next
  <2>3. worker'[x][w] = next /\ \A v \in Worker : v # w => worker'[x][v] = worker[x][v]
    BY <1>3, <2>1
  <2>4. p.local = confirmed[x] /\ p.version \in confirmed[x]..Latest(x)
    BY <1>1, <1>2, <2>1 DEF Faithful, Updating
  <2>5. installed'[x] = desired[x][p.version]
    BY <2>1 DEF Typed, TypeOK
  <2>6. \A v \in Worker : Updating(x, v) => v = w
    BY <1>1, <2>1 DEF InStep, Updating
  <2>7. \A v \in Worker : v # w => Faithful(x, v)'
    BY <1>1, <2>1, <2>3, <2>6 DEF InStep, Faithful, Updating
  <2>8. Faithful(x, w)'
    BY <2>1, <2>2, <2>3, <2>4, <2>5 DEF Faithful, Updating
  <2>9. \A u, v \in Worker : Updating(x, u)' /\ Updating(x, v)' => u = v
    BY <2>3, <2>6 DEF Updating
  <2>10. RunsConfirmed(x)'
    BY <1>1, <2>1, <2>4, <2>5 DEF RunsConfirmed
  <2> QED
    BY <1>1, <2>1, <2>7, <2>8, <2>9, <2>10 DEF InStep
<1>8. CASE RejectOlder(x, w)
  <2> DEFINE next == [p EXCEPT !.step = "ack", !.status = "STALE"]
  <2>1. worker' = [worker EXCEPT ![x][w] = next] /\ UNCHANGED <<confirmed, installed, verified>>
    BY <1>8 DEF RejectOlder, Working, store
  <2>2. next.step = "ack" /\ next.status = "STALE"
    BY <1>1 DEF Reconcile
  <2> HIDE DEF next
  <2> QED
    BY <1>4, <2>1, <2>2
<1>9. CASE PersistConfirmed(x, w)
  <2> DEFINE next == [p EXCEPT !.step = "ack"]
  <2>1. /\ p.step = "applied"
        /\ worker' = [worker EXCEPT ![x][w] = next]
        /\ confirmed' = IF p.version = p.local THEN confirmed
                        ELSE [confirmed EXCEPT ![x] = p.version]
        /\ UNCHANGED <<installed, verified>>
    BY <1>9 DEF PersistConfirmed, Working, store
  <2>2. next.step = "ack" /\ next.version = p.version
    BY <1>1 DEF Reconcile
  <2> HIDE DEF next
  <2>3. worker'[x][w] = next /\ \A v \in Worker : v # w => worker'[x][v] = worker[x][v]
    BY <1>3, <2>1
  <2>4. /\ p.local = confirmed[x] /\ p.version \in 1..Latest(x) /\ p.version >= confirmed[x]
        /\ installed[x] = desired[x][p.version]
    BY <1>1, <1>2, <2>1 DEF Faithful, Updating
  <2>5. confirmed'[x] = p.version
    BY <2>1, <2>4 DEF Typed, TypeOK
  <2>6. \A v \in Worker : Updating(x, v) => v = w
    BY <1>1, <2>1 DEF InStep, Updating
  <2>7. \A v \in Worker : v # w => Faithful(x, v)'
    <3> SUFFICES ASSUME NEW v \in Worker, v # w
                 PROVE  Faithful(x, v)'
      OBVIOUS
    <3>1. Faithful(x, v) /\ ~Updating(x, v) /\ worker'[x][v] = worker[x][v]
      BY <1>1, <2>3, <2>6 DEF InStep
    <3>2. worker[x][v].version \in Nat
      BY <1>1 DEF Reconcile
    <3> QED
      BY <1>1, <2>4, <2>5, <3>1, <3>2 DEF Faithful, Updating
  <2>8. Faithful(x, w)'
    BY <2>2, <2>3, <2>4, <2>5 DEF Faithful, Updating
  <2>9. \A u, v \in Worker : Updating(x, u)' /\ Updating(x, v)' => u = v
    BY <2>2, <2>3, <2>6 DEF Updating
  <2>10. RunsConfirmed(x)'
    BY <1>1, <2>1, <2>4, <2>5 DEF RunsConfirmed
  <2>11. \A v \in verified'[x] : v <= confirmed'[x]
    BY <1>1, <2>1, <2>4, <2>5 DEF InStep
  <2> QED
    BY <1>1, <2>4, <2>5, <2>7, <2>8, <2>9, <2>10, <2>11 DEF InStep
<1>10. CASE Acknowledge(x, w)
  <2>1. /\ p.step = "ack" /\ worker' = [worker EXCEPT ![x][w] = Resting]
        /\ UNCHANGED <<confirmed, installed>>
        /\ verified' = [verified EXCEPT ![x] = IF p.status = "VERIFIED" THEN verified[x] \cup {p.version}
                                               ELSE verified[x] \ {p.version}]
    BY <1>10 DEF Acknowledge, Working
  <2>2. \A v \in verified'[x] : v <= confirmed[x]
    BY <1>1, <2>1 DEF InStep, Faithful, Typed
  <2>3. worker'[x][w] = Resting /\ \A v \in Worker : v # w => worker'[x][v] = worker[x][v]
    BY <1>3, <2>1
  <2>4. \A v \in Worker : Faithful(x, v)'
    BY <1>1, <2>1, <2>3 DEF InStep, Faithful, Updating, Resting
  <2>5. \A u, v \in Worker : Updating(x, u)' /\ Updating(x, v)' => u = v
    BY <1>1, <2>3 DEF InStep, Updating, Resting
  <2>6. RunsConfirmed(x)'
    BY <1>1, <2>1 DEF InStep, RunsConfirmed, Latest
  <2> QED
    BY <1>1, <2>1, <2>2, <2>4, <2>5, <2>6 DEF InStep
<1>11. CASE WorkerDies(x, w)
  BY <1>4, <1>11 DEF WorkerDies, Resting, store
<1> QED
  BY <1>5, <1>6, <1>7, <1>8, <1>9, <1>10, <1>11 DEF ReconcileStep

LEMMA ConfirmingReconcile ==
  ASSUME OneLoads, Typed, Confirming, Grows, NEW x \in Site, NEW w \in Worker, ReconcileStep(x, w)
  PROVE  Confirming'
<1>1. desired' = desired
  BY DEF ReconcileStep, Fetch, LoadLocal, ApplyDesired, RejectOlder, PersistConfirmed, Acknowledge,
         WorkerDies, store
<1>2. ASSUME NEW y \in Site, y # x
      PROVE  InStep(y)'
  <2>1. /\ confirmed'[y] = confirmed[y] /\ installed'[y] = installed[y]
        /\ verified'[y] = verified[y] /\ worker'[y] = worker[y]
    BY <1>2
    DEF ReconcileStep, Fetch, LoadLocal, ApplyDesired, RejectOlder, PersistConfirmed, Acknowledge,
        WorkerDies, Working, store, Typed, TypeOK
  <2> QED
    BY <2>1, ConfirmingGrows DEF Confirming
<1> QED
  BY <1>1, <1>2, ConfirmingAtSite DEF Confirming

LEMMA ConfirmingStep ==
  ASSUME OneLoads, Typed, Confirming, [Next]_vars
  PROVE  Confirming'
<1>1. Grows
  BY NextGrows
<1>2. ASSUME NEW x \in Site, RegisterStep(x)
      PROVE  UNCHANGED <<verified, edges>>
  BY <1>2
  DEF RegisterStep, StoreKey, RefuseKey, ReadKeys, ReadVersion, PutHubState, PutConflict, store
<1>3. ASSUME NEW s \in Spoke, NEW c \in Caller, ActivateStep(s, c)
      PROVE  UNCHANGED <<verified, edges>>
  BY <1>3
  DEF ActivateStep, BeginActivation, CheckHubs, CheckExisting, ReserveResources, ReadOwner,
      TransferOwnership, ReadSpokeVersion, PublishSpoke, Activating, store
<1>4. PolicyCrash \/ UNCHANGED vars => UNCHANGED <<verified, edges>>
  BY DEF PolicyCrash, vars, store
<1> QED
  BY <1>1, <1>2, <1>3, <1>4, ConfirmingElsewhere, ConfirmingReconcile DEF Next

LEMMA ConfirmingVerified ==
  ASSUME Typed, Confirming
  PROVE  VerifiedMeansApplied
<1> SUFFICES ASSUME NEW x \in Site, NEW v \in verified[x]
             PROVE  \E later \in v..Latest(x) : installed[x] = desired[x][later]
  BY DEF VerifiedMeansApplied
<1>1. v \in 1..Latest(x) /\ v <= confirmed[x] /\ confirmed[x] \in Nat /\ Latest(x) \in Nat
  BY DEF Typed, TypeOK, Latest, Confirming, InStep
<1>2. PICK i \in confirmed[x]..Latest(x) : installed[x] = desired[x][i]
  BY <1>1 DEF Confirming, InStep, RunsConfirmed
<1>3. i \in v..Latest(x)
  BY <1>1, <1>2
<1> QED
  BY <1>2, <1>3

(***************************************************************************)
(* A VERIFIED acknowledgement tells the truth for any number of processes  *)
(* that die and lose acknowledgements, as long as no two of an edge overlap*)
(* between loading last-confirmed.json and writing it                      *)
(* (edge_bootstrap.py:120-141, edge_agent_v5.py:418-441).                  *)
(***************************************************************************)
THEOREM SpecVerifiedMeansApplied ==
  ASSUME ~Racing
  PROVE  Spec => []VerifiedMeansApplied
<1>1. Init => Typed /\ Confirming
  BY TypedInit, ConfirmingInit
<1>2. OneLoads
  BY DEF OneLoads, LoadLocal, Updating
<1>3. Typed /\ Confirming /\ [Next]_vars => (Typed /\ Confirming)'
  BY <1>2, TypedStep, ConfirmingStep
<1>4. Typed /\ Confirming => VerifiedMeansApplied
  BY ConfirmingVerified
<1> QED
  BY <1>1, <1>3, <1>4, PTL DEF Spec

-----------------------------------------------------------------------------
(***************************************************************************)
(* The refinement.  It holds while requests and reconciles come one at a   *)
(* time and none dies.                                                     *)
(***************************************************************************)
OneAtATime == Parallel = 1 /\ Failures = 0

Registering(x) == register[x].step # "idle"
Activated(s, c) == activate[s][c].step # "idle"
Reconciling(x, w) == worker[x][w].step # "idle"
NoRegistration == \A x \in Site : ~Registering(x)
NoActivation == \A s \in Spoke, c \in Caller : ~Activated(s, c)
NoReconcile == \A x \in Site, w \in Worker : ~Reconciling(x, w)

(* What runs is the only thing that does.                                  *)
OneRunning ==
  /\ \A x \in Site : Registering(x) =>
       NoActivation /\ NoReconcile /\ \A y \in Site : Registering(y) => x = y
  /\ \A s \in Spoke, c \in Caller : Activated(s, c) =>
       /\ NoRegistration /\ NoReconcile
       /\ \A t \in Spoke, d \in Caller : Activated(t, d) => s = t /\ c = d
  /\ \A x \in Site, w \in Worker : Reconciling(x, w) =>
       /\ NoRegistration /\ NoActivation
       /\ \A y \in Site, v \in Worker : Reconciling(y, v) => x = y /\ w = v

(* While no registration is under way, the latest state of both hubs holds *)
(* the keys that are registered; a registration that publishes has read    *)
(* them and leaves the hubs it is through with so.                         *)
HubsKeyed == \A h \in Hub : keys[h] # 0
Current(h) == desired[h] # <<>> /\ desired[h][Latest(h)] = keys

Publishing(x) ==
  register[x].step \in {"version", "put"} =>
    /\ HubsKeyed /\ register[x].seen = keys
    /\ register[x].hub = Hub2 => Current(Hub1)
    /\ register[x].step = "put" => register[x].version = Latest(register[x].hub) + 1

Distributed ==
  /\ NoRegistration /\ HubsKeyed => \A h \in Hub : Current(h)
  /\ \A x \in Site : Publishing(x)

(* Later states hold later keys.                                           *)
Ascending ==
  \A h \in Hub, s \in Spoke : \A i \in 1..Latest(h) :
    desired[h][i][s] <= keys[s] /\ desired[h][i][s] <= desired[h][Latest(h)][s]

(* A hub runs some published state, and its reconcile fetched the latest.  *)
Installed ==
  \A h \in Hub :
    /\ installed[h] = NoKeys \/ \E i \in 1..Latest(h) : installed[h] = desired[h][i]
    /\ \A w \in Worker : Reconciling(h, w) => worker[h][w].version = Latest(h)

(* An activation has checked the hubs in turn: they run what is registered.*)
Prepared ==
  \A s \in Spoke, c \in Caller : Activated(s, c) =>
    /\ HubsKeyed /\ keys[s] # 0
    /\ activate[s][c].step # "hub1" => installed[Hub1] = keys
    /\ activate[s][c].step \notin {"hub1", "hub2"} => installed[Hub2] = keys

Sequential ==
  /\ Typed /\ Confirming /\ OneRunning
  /\ Distributed /\ Ascending /\ Installed /\ Prepared

-----------------------------------------------------------------------------
\* With one place to run in, a start finds nothing running.
LEMMA StartsAlone ==
  ASSUME OneAtATime, OneRunning, MayStart
  PROVE  NoRegistration /\ NoActivation /\ NoReconcile
<1>1. ASSUME NEW b \in Busy, \A d \in Busy : d = b
      PROVE  FALSE
  <2>1. Busy = {b}
    BY <1>1
  <2>2. Cardinality(Busy) = 1
    BY <2>1, FS_Singleton
  <2> QED
    BY <2>2 DEF MayStart, OneAtATime
<1>2. ASSUME NEW x \in Site, Registering(x)
      PROVE  FALSE
  <2>1. Busy = {<<x>>}
    BY <1>2 DEF Busy, OneRunning, Registering, NoActivation, Activated, NoReconcile, Reconciling
  <2> QED
    BY <1>1, <2>1
<1>3. ASSUME NEW s \in Spoke, NEW c \in Caller, Activated(s, c)
      PROVE  FALSE
  <2>1. Busy = {<<s, c>>}
    BY <1>3 DEF Busy, OneRunning, Activated, NoRegistration, Registering, NoReconcile, Reconciling
  <2> QED
    BY <1>1, <2>1
<1>4. ASSUME NEW x \in Site, NEW w \in Worker, Reconciling(x, w)
      PROVE  FALSE
  <2>1. Busy = {<<x, w>>}
    BY <1>4 DEF Busy, OneRunning, Activated, NoRegistration, Registering, NoActivation, Reconciling
  <2> QED
    BY <1>1, <2>1
<1> QED
  BY <1>2, <1>3, <1>4 DEF NoRegistration, NoActivation, NoReconcile

LEMMA NothingFails ==
  ASSUME OneAtATime, Typed
  PROVE  /\ ~Disturb /\ ~PolicyCrash
         /\ \A x \in Site, w \in Worker : ~WorkerDies(x, w)
<1>1. ~Disturb
  BY DEF OneAtATime, Typed, TypeOK, Disturb
<1> QED
  BY <1>1 DEF PolicyCrash, WorkerDies, Fail

-----------------------------------------------------------------------------
\* A request that takes a step is the only one.
LEMMA RegisterAlone ==
  ASSUME OneAtATime, Typed, OneRunning, NEW x \in Site, RegisterStep(x), ~RefuseKey(x)
  PROVE  /\ NoActivation /\ NoReconcile
         /\ \A y \in Site : y # x => ~Registering(y) /\ register'[y] = register[y]
         /\ UNCHANGED <<activate, edges, verified>>
<1>1. NoActivation /\ NoReconcile /\ \A y \in Site : y # x => ~Registering(y)
  <2>1. CASE MayStart
    BY <2>1, StartsAlone DEF NoRegistration
  <2>2. CASE Registering(x)
    BY <2>2 DEF OneRunning
  <2> QED
    BY <2>1, <2>2
    DEF RegisterStep, StoreKey, ReadKeys, ReadVersion, PutHubState, PutConflict, Registering
<1>2. UNCHANGED <<activate, edges, verified>>
  BY DEF RegisterStep, StoreKey, ReadKeys, ReadVersion, PutHubState, PutConflict, store
<1>3. \A y \in Site : y # x => register'[y] = register[y]
  BY DEF RegisterStep, StoreKey, ReadKeys, ReadVersion, PutHubState, PutConflict, Typed, TypeOK
<1> QED
  BY <1>1, <1>2, <1>3

LEMMA ActivateAlone ==
  ASSUME OneAtATime, Typed, OneRunning, NEW s \in Spoke, NEW c \in Caller, ActivateStep(s, c)
  PROVE  /\ NoRegistration /\ NoReconcile
         /\ \A t \in Spoke, d \in Caller : t # s \/ d # c =>
              ~Activated(t, d) /\ activate'[t][d] = activate[t][d]
         /\ UNCHANGED <<register, edges, verified, keys>>
<1>1. /\ NoRegistration /\ NoReconcile
      /\ \A t \in Spoke, d \in Caller : t # s \/ d # c => ~Activated(t, d)
  <2>1. CASE MayStart
    BY <2>1, StartsAlone DEF NoActivation
  <2>2. CASE Activated(s, c)
    BY <2>2 DEF OneRunning
  <2> QED
    BY <2>1, <2>2
    DEF ActivateStep, BeginActivation, CheckHubs, CheckExisting, ReserveResources, ReadOwner,
        TransferOwnership, ReadSpokeVersion, PublishSpoke, Activating, Activated
<1>2. UNCHANGED <<register, edges, verified, keys>>
  BY DEF ActivateStep, BeginActivation, CheckHubs, CheckExisting, ReserveResources, ReadOwner,
        TransferOwnership, ReadSpokeVersion, PublishSpoke, Activating, store
<1>3. PICK next : activate' = [activate EXCEPT ![s][c] = next]
  BY DEF ActivateStep, BeginActivation, CheckHubs, CheckExisting, ReserveResources, ReadOwner,
        TransferOwnership, ReadSpokeVersion, PublishSpoke, Activating
<1>4. \A t \in Spoke, d \in Caller : t # s \/ d # c => activate'[t][d] = activate[t][d]
  BY <1>3 DEF Typed, TypeOK
<1> QED
  BY <1>1, <1>2, <1>4

LEMMA ReconcileAlone ==
  ASSUME OneAtATime, Typed, OneRunning, NEW x \in Site, NEW w \in Worker, ReconcileStep(x, w)
  PROVE  /\ NoRegistration /\ NoActivation
         /\ \A y \in Site, v \in Worker : y # x \/ v # w =>
              ~Reconciling(y, v) /\ worker'[y][v] = worker[y][v]
         /\ UNCHANGED <<register, activate, keys, desired>>
<1>1. /\ NoRegistration /\ NoActivation
      /\ \A y \in Site, v \in Worker : y # x \/ v # w => ~Reconciling(y, v)
  <2>1. CASE MayStart
    BY <2>1, StartsAlone DEF NoReconcile
  <2>2. CASE Reconciling(x, w)
    BY <2>2 DEF OneRunning
  <2> QED
    BY <2>1, <2>2
    DEF ReconcileStep, Fetch, LoadLocal, ApplyDesired, RejectOlder, PersistConfirmed, Acknowledge,
        WorkerDies, Working, Reconciling
<1>2. UNCHANGED <<register, activate, keys, desired>>
  BY DEF ReconcileStep, Fetch, LoadLocal, ApplyDesired, RejectOlder, PersistConfirmed, Acknowledge,
        WorkerDies, Working, store, threads
<1>3. PICK next : worker' = [worker EXCEPT ![x][w] = next]
  BY DEF ReconcileStep, Fetch, LoadLocal, ApplyDesired, RejectOlder, PersistConfirmed, Acknowledge,
        WorkerDies, Working
<1>4. \A y \in Site, v \in Worker : y # x \/ v # w => worker'[y][v] = worker[y][v]
  BY <1>3 DEF Typed, TypeOK
<1> QED
  BY <1>1, <1>2, <1>4

LEMMA OneRunningStep ==
  ASSUME OneAtATime, Typed, OneRunning, [Next]_vars
  PROVE  OneRunning'
<1> USE DEF OneRunning, NoRegistration, NoActivation, NoReconcile, Registering, Activated, Reconciling
<1>1. ASSUME NEW x \in Site, RegisterStep(x), ~RefuseKey(x)
      PROVE  OneRunning'
  BY <1>1, RegisterAlone DEF edges
<1>2. ASSUME NEW x \in Site, RefuseKey(x)
      PROVE  OneRunning'
  BY <1>2 DEF RefuseKey, threads, edges
<1>3. ASSUME NEW s \in Spoke, NEW c \in Caller, ActivateStep(s, c)
      PROVE  OneRunning'
  BY <1>3, ActivateAlone DEF edges
<1>4. ASSUME NEW x \in Site, NEW w \in Worker, ReconcileStep(x, w)
      PROVE  OneRunning'
  BY <1>4, ReconcileAlone
<1>5. CASE UNCHANGED vars
  BY <1>5 DEF vars, threads, edges
<1> QED
  BY <1>1, <1>2, <1>3, <1>4, <1>5, NothingFails DEF Next

LEMMA HubIsNoSpoke ==
  /\ \A h \in Hub : h \in Site /\ h \notin Spoke
  /\ Hub1 \in Hub /\ Hub2 \in Hub /\ Hub1 # Hub2
  BY PolicyAssumption DEF Hub, Site

LEMMA NumbersTyped ==
  ASSUME Typed
  PROVE  /\ keys \in [Site -> 0..2]
         /\ \A x \in Site : Latest(x) \in Nat /\ desired[x] \in Seq(Keys)
         /\ \A x \in Site, i \in Nat : i \in 1..Latest(x) => desired[x][i] \in [Site -> 0..2]
         /\ \A x \in Site : desired[x] # <<>> <=> Latest(x) > 0
<1>1. Keys = [Site -> 0..2]
  BY DEF Keys, LastKey
<1>2. \A x \in Site : desired[x] \in Seq(Keys)
  BY DEF Typed
<1>3. \A x \in Site : Latest(x) \in Nat /\ (\A i \in 1..Latest(x) : desired[x][i] \in Keys)
        /\ (desired[x] # <<>> <=> Latest(x) > 0)
  BY <1>2 DEF Latest
<1> QED
  BY <1>1, <1>2, <1>3 DEF Typed, TypeOK

\* Only a request changes what is published to the hubs.
LEMMA HubsKept ==
  ASSUME OneAtATime, Typed, OneRunning,
         \/ \E s \in Spoke, c \in Caller : ActivateStep(s, c)
         \/ \E x \in Site, w \in Worker : ReconcileStep(x, w)
         \/ \E x \in Site : RefuseKey(x)
         \/ UNCHANGED vars
  PROVE  UNCHANGED <<keys, register>> /\ \A h \in Hub : desired'[h] = desired[h]
<1>1. ASSUME NEW s \in Spoke, NEW c \in Caller, ActivateStep(s, c)
      PROVE  \A h \in Hub : desired'[h] = desired[h]
  BY <1>1, HubIsNoSpoke
  DEF ActivateStep, BeginActivation, CheckHubs, CheckExisting, ReserveResources, ReadOwner,
      TransferOwnership, ReadSpokeVersion, PublishSpoke, store, Typed
<1>2. CASE \E s \in Spoke, c \in Caller : ActivateStep(s, c)
  BY <1>1, <1>2, ActivateAlone
<1>3. CASE \E x \in Site, w \in Worker : ReconcileStep(x, w)
  BY <1>3, ReconcileAlone
<1>4. CASE (\E x \in Site : RefuseKey(x)) \/ UNCHANGED vars
  BY <1>4 DEF RefuseKey, vars, store, threads
<1> QED
  BY <1>2, <1>3, <1>4

\* The next version of the state of a hub holds the keys of the request.
LEMMA PutIsNext ==
  ASSUME Typed, Distributed, NEW x \in Site, PutHubState(x) \/ PutConflict(x)
  PROVE  LET r == register[x]
         IN  /\ PutHubState(x) /\ r.step = "put" /\ r.hub \in Hub /\ r.seen = keys /\ HubsKeyed
             /\ r.hub = Hub2 => Current(Hub1)
             /\ desired'[r.hub] = Append(desired[r.hub], keys)
             /\ \A y \in Site : y # r.hub => desired'[y] = desired[y]
             /\ register' = [register EXCEPT ![x] = AfterPut(r)]
             /\ UNCHANGED keys
<1> DEFINE r == register[x]
<1>1. r.step = "put" /\ r \in Request
  BY DEF PutHubState, PutConflict, Typed, TypeOK
<1>2. /\ r.hub \in Hub /\ r.seen = keys /\ HubsKeyed
      /\ r.hub = Hub2 => Current(Hub1)
      /\ r.version = Latest(r.hub) + 1
  BY <1>1 DEF Distributed, Publishing, Request
<1>3. Latest(r.hub) \in Nat /\ r.hub \in Site
  BY <1>2, NumbersTyped, HubIsNoSpoke
<1>4. ~(r.version <= Latest(r.hub)) /\ r.version # Latest(r.hub)
  BY <1>2, <1>3
<1>5. PutHubState(x)
  BY <1>4 DEF PutConflict
<1>6. desired' = [desired EXCEPT ![r.hub] = Append(desired[r.hub], keys)]
  BY <1>2, <1>4, <1>5 DEF PutHubState
<1> QED
  BY <1>1, <1>2, <1>3, <1>5, <1>6 DEF PutHubState, Typed

LEMMA AppendedIsCurrent ==
  ASSUME Typed, NEW h \in Hub, desired'[h] = Append(desired[h], keys), UNCHANGED keys
  PROVE  Current(h)' /\ Latest(h)' = Latest(h) + 1
         /\ \A i \in 1..Latest(h) : desired'[h][i] = desired[h][i]
<1>1. desired[h] \in Seq(Keys) /\ keys \in Keys /\ h \in Site
  BY HubIsNoSpoke, NumbersTyped DEF Typed, TypeOK
<1>2. /\ Append(desired[h], keys) # <<>>
      /\ Len(Append(desired[h], keys)) = Len(desired[h]) + 1
      /\ Append(desired[h], keys)[Len(desired[h]) + 1] = keys
      /\ \A i \in 1..Len(desired[h]) : Append(desired[h], keys)[i] = desired[h][i]
  BY <1>1
<1> QED
  BY <1>2 DEF Current, Latest

LEMMA DistributedStep ==
  ASSUME OneAtATime, Typed, OneRunning, Distributed, [Next]_vars
  PROVE  Distributed'
<1>1. ASSUME UNCHANGED <<keys, register>>, \A h \in Hub : desired'[h] = desired[h]
      PROVE  Distributed'
  <2>1. \A h \in Hub : (Current(h)' <=> Current(h)) /\ Latest(h)' = Latest(h)
    BY <1>1 DEF Current, Latest
  <2>2. \A x \in Site : register[x].hub \in Hub
    BY DEF Typed, TypeOK, Request
  <2> QED
    BY <1>1, <2>1, <2>2, HubIsNoSpoke DEF Distributed, Publishing, NoRegistration, Registering, HubsKeyed
<1>2. ASSUME NEW x \in Site, RegisterStep(x), ~RefuseKey(x)
      PROVE  Distributed'
  <2>1. \A y \in Site : y # x => register'[y] = register[y] /\ register[y].step = "idle"
    BY <1>2, RegisterAlone DEF Registering
  <2>2. \A y \in Site : y # x => Publishing(y)'
    BY <2>1 DEF Publishing
  <2>3. register \in [Site -> Request] /\ register[x] \in Request
    BY DEF Typed, TypeOK
  <2>4. CASE \E new \in BOOLEAN : StoreKey(x, new)
    <3>1. register'[x].step = "stored"
      BY <2>3, <2>4 DEF StoreKey, Request
    <3> QED
      BY <2>2, <3>1 DEF Distributed, Publishing, NoRegistration, Registering
  <2>5. CASE ReadKeys(x) /\ HubsKeyed
    <3>1. /\ register'[x] = [step |-> "version", hub |-> Hub1, seen |-> keys, version |-> 0]
          /\ UNCHANGED keys
      BY <2>3, <2>5 DEF ReadKeys, HubsKeyed, store
    <3>2. Publishing(x)'
      BY <2>5, <3>1, HubIsNoSpoke DEF Publishing, HubsKeyed
    <3> QED
      BY <2>2, <3>1, <3>2 DEF Distributed, NoRegistration, Registering
  <2>6. CASE ReadKeys(x) /\ ~HubsKeyed
    <3>1. register'[x] = Idle /\ UNCHANGED keys
      BY <2>3, <2>6 DEF ReadKeys, HubsKeyed, store
    <3> QED
      BY <2>2, <2>6, <3>1 DEF Distributed, Publishing, HubsKeyed, Idle
  <2>7. CASE ReadVersion(x)
    <3> DEFINE next == Latest(register[x].hub) + 1
    <3>1. /\ register[x].step = "version"
          /\ register'[x] = [register[x] EXCEPT !.step = "put", !.version = next]
          /\ UNCHANGED <<keys, desired>>
      BY <2>3, <2>7 DEF ReadVersion, store
    <3> HIDE DEF next
    <3>2. /\ register'[x].step = "put" /\ register'[x].version = next
          /\ register'[x].hub = register[x].hub /\ register'[x].seen = register[x].seen
      BY <2>3, <3>1 DEF Request
    <3>3. Publishing(x)'
      <4>1. /\ HubsKeyed' <=> HubsKeyed
            /\ Current(Hub1)' <=> Current(Hub1)
        BY <3>1 DEF HubsKeyed, Current, Latest
      <4>2. PICK h \in Hub : h = register[x].hub
        BY <2>3 DEF Request
      <4>3. next = Latest(h) + 1 /\ Latest(h)' = Latest(h)
        BY <3>1, <4>2 DEF next, Latest
      <4>4. /\ HubsKeyed /\ register[x].seen = keys
            /\ h = Hub2 => Current(Hub1)
        BY <3>1, <4>2 DEF Distributed, Publishing
      <4>5. /\ register'[x].hub = h /\ register'[x].seen = keys'
            /\ register'[x].version = Latest(h)' + 1
        BY <3>1, <3>2, <4>2, <4>3, <4>4
      <4> QED
        BY <4>1, <4>4, <4>5 DEF Publishing
    <3> QED
      BY <2>2, <3>2, <3>3 DEF Distributed, NoRegistration, Registering
  <2>8. CASE PutHubState(x) \/ PutConflict(x)
    <3>1. PICK h \in Hub :
            /\ register[x].hub = h /\ HubsKeyed
            /\ h = Hub2 => Current(Hub1)
            /\ desired'[h] = Append(desired[h], keys)
            /\ \A y \in Site : y # h => desired'[y] = desired[y]
            /\ register' = [register EXCEPT ![x] = AfterPut(register[x])]
            /\ register[x].seen = keys
            /\ UNCHANGED keys
      BY <2>8, PutIsNext
    <3>2. Current(h)' /\ HubsKeyed' /\ register'[x] = AfterPut(register[x])
      BY <2>3, <3>1, AppendedIsCurrent DEF HubsKeyed
    <3>3. CASE h = Hub1
      <4>1. /\ register'[x].step = "version" /\ register'[x].hub = Hub2
            /\ register'[x].seen = keys
        BY <2>3, <3>1, <3>2, <3>3 DEF AfterPut, Request
      <4>2. Publishing(x)'
        BY <3>1, <3>2, <3>3, <4>1 DEF Publishing
      <4> QED
        BY <2>2, <4>1, <4>2 DEF Distributed, NoRegistration, Registering
    <3>4. CASE h # Hub1
      <4>1. h = Hub2 /\ register'[x] = Idle
        BY <3>1, <3>2, <3>4 DEF AfterPut, Hub
      <4>2. desired'[Hub1] = desired[Hub1]
        BY <3>1, <4>1, HubIsNoSpoke
      <4>3. Current(Hub1)' /\ Current(Hub2)'
        BY <3>1, <3>2, <4>1, <4>2 DEF Current, Latest
      <4> QED
        BY <2>2, <4>1, <4>3 DEF Distributed, Publishing, Idle, Hub
    <3> QED
      BY <3>3, <3>4
  <2> QED
    BY <1>2, <2>4, <2>5, <2>6, <2>7, <2>8 DEF RegisterStep
<1> QED
  BY <1>1, <1>2, HubsKept, NothingFails DEF Next

LEMMA AscendingStep ==
  ASSUME OneAtATime, Typed, OneRunning, Distributed, Ascending, [Next]_vars
  PROVE  Ascending'
<1> USE NumbersTyped, HubIsNoSpoke
<1>1. ASSUME \A h \in Hub : desired'[h] = desired[h],
             \A s \in Spoke : keys[s] <= keys'[s] /\ keys'[s] \in Nat
      PROVE  Ascending'
  <2> SUFFICES ASSUME NEW h \in Hub, NEW s \in Spoke, NEW i \in 1..Latest(h)
               PROVE  desired[h][i][s] <= keys'[s] /\ desired[h][i][s] <= desired[h][Latest(h)][s]
    BY <1>1 DEF Ascending, Latest
  <2>1. /\ desired[h][i][s] <= keys[s] /\ desired[h][i][s] <= desired[h][Latest(h)][s]
        /\ desired[h][i][s] \in Nat /\ keys[s] \in Nat
    <3>1. s \in Site /\ h \in Site /\ Latest(h) \in Nat /\ keys[s] \in 0..2
      BY DEF Site
    <3>2. i \in Nat
      BY <3>1
    <3>3. desired[h][i] \in [Site -> 0..2]
      BY <3>1, <3>2
    <3>4. desired[h][i][s] \in 0..2
      BY <3>1, <3>3
    <3>5. desired[h][i][s] <= keys[s] /\ desired[h][i][s] <= desired[h][Latest(h)][s]
      BY DEF Ascending
    <3> QED
      BY <3>1, <3>4, <3>5
  <2> QED
    BY <1>1, <2>1
<1>2. \A s \in Spoke : keys[s] \in Nat
  BY DEF Site
<1>3. ASSUME NEW x \in Site, NEW new \in BOOLEAN, StoreKey(x, new)
      PROVE  Ascending'
  <2>1. UNCHANGED desired
    BY <1>3 DEF StoreKey
  <2>2. keys' = keys \/ keys' = [keys EXCEPT ![x] = keys[x] + 1]
    BY <1>3 DEF StoreKey
  <2>3. \A s \in Spoke : keys[s] <= keys'[s] /\ keys'[s] \in Nat
    BY <1>2, <2>2 DEF Site
  <2> QED
    BY <1>1, <2>1, <2>3
<1>4. ASSUME NEW x \in Site, ReadKeys(x) \/ ReadVersion(x)
      PROVE  Ascending'
  BY <1>1, <1>2, <1>4 DEF ReadKeys, ReadVersion, store
<1>5. ASSUME NEW x \in Site, PutHubState(x) \/ PutConflict(x)
      PROVE  Ascending'
  <2>1. PICK h \in Hub :
          /\ desired'[h] = Append(desired[h], keys)
          /\ \A y \in Site : y # h => desired'[y] = desired[y]
          /\ UNCHANGED keys
    BY <1>5, PutIsNext
  <2>2. Current(h)' /\ Latest(h)' = Latest(h) + 1 /\ Latest(h) \in Nat
        /\ \A i \in 1..Latest(h) : desired'[h][i] = desired[h][i]
    BY <2>1, AppendedIsCurrent
  <2>3. ASSUME NEW g \in Hub, NEW s \in Spoke, NEW i \in 1..Latest(g)'
        PROVE  desired'[g][i][s] <= keys'[s] /\ desired'[g][i][s] <= desired'[g][Latest(g)'][s]
    <3>1. CASE g # h
      <4>1. desired'[g] = desired[g] /\ Latest(g)' = Latest(g)
        BY <2>1, <3>1 DEF Latest
      <4> QED
        BY <2>1, <4>1 DEF Ascending
    <3>2. CASE g = h
      <4>1. desired'[h][Latest(h)'] = keys
        BY <2>1, <2>2 DEF Current
      <4>2. i \in 1..Latest(h) \/ i = Latest(h)'
        BY <2>2, <3>2
      <4>3. desired'[h][i][s] <= keys[s]
        <5>1. CASE i \in 1..Latest(h)
          BY <2>2, <5>1 DEF Ascending
        <5>2. CASE i = Latest(h)'
          BY <1>2, <4>1, <5>2
        <5> QED
          BY <4>2, <5>1, <5>2
      <4> QED
        BY <2>1, <3>2, <4>1, <4>3
    <3> QED
      BY <3>1, <3>2
  <2> QED
    BY <2>3 DEF Ascending
<1>6. ASSUME UNCHANGED keys, \A h \in Hub : desired'[h] = desired[h]
      PROVE  Ascending'
  BY <1>1, <1>2, <1>6
<1> QED
  BY <1>3, <1>4, <1>5, <1>6, HubsKept, NothingFails DEF Next, RegisterStep

LEMMA InstalledStep ==
  ASSUME OneAtATime, Typed, OneRunning, Distributed, Installed, [Next]_vars
  PROVE  Installed'
<1> USE NumbersTyped, HubIsNoSpoke
<1>1. ASSUME NEW x \in Site, RegisterStep(x), ~RefuseKey(x)
      PROVE  Installed'
  <2>1. NoReconcile /\ UNCHANGED <<installed, worker>>
    BY <1>1, RegisterAlone DEF edges
  <2>2. Grows
    BY NextGrows
  <2>3. ASSUME NEW h \in Hub
        PROVE  installed[h] = NoKeys \/ \E i \in 1..Latest(h)' : installed[h] = desired'[h][i]
    <3>1. CASE installed[h] = NoKeys
      BY <3>1
    <3>2. CASE \E i \in 1..Latest(h) : installed[h] = desired[h][i]
      <4>1. PICK i \in 1..Latest(h) : installed[h] = desired[h][i]
        BY <3>2
      <4>2. i \in 1..Latest(h)' /\ desired'[h][i] = desired[h][i]
        BY <2>2 DEF Grows
      <4> QED
        BY <4>1, <4>2
    <3> QED
      BY <3>1, <3>2 DEF Installed
  <2> QED
    BY <2>1, <2>3 DEF Installed, NoReconcile, Reconciling
<1>2. ASSUME UNCHANGED <<installed, worker>>, \A h \in Hub : desired'[h] = desired[h]
      PROVE  Installed'
  BY <1>2 DEF Installed, Latest, Reconciling
<1>3. ASSUME NEW s \in Spoke, NEW c \in Caller, ActivateStep(s, c)
      PROVE  UNCHANGED <<installed, worker>>
  BY <1>3, ActivateAlone DEF edges
<1>4. ASSUME NEW x \in Site, NEW w \in Worker, ReconcileStep(x, w)
      PROVE  Installed'
  <2> DEFINE p == worker[x][w]
  <2>1. /\ UNCHANGED desired
        /\ \A y \in Site, v \in Worker : y # x \/ v # w =>
              ~Reconciling(y, v) /\ worker'[y][v] = worker[y][v]
    BY <1>4, ReconcileAlone
  <2>2. worker \in [Site -> [Worker -> Reconcile]] /\ p \in Reconcile /\ Latest(x) \in Nat
        /\ installed \in [Site -> Keys]
    BY DEF Typed, TypeOK
  <2>3. CASE Fetch(x, w)
    <3> DEFINE latest == Latest(x)
    <3>1. worker'[x][w] = [Resting EXCEPT !.step = "fetched", !.version = latest] /\ UNCHANGED installed
      BY <2>2, <2>3 DEF Fetch, Working
    <3> HIDE DEF latest
    <3>2. worker'[x][w].version = latest
      BY <3>1 DEF Resting
    <3>3. latest = Latest(x)'
      BY <2>1 DEF latest, Latest
    <3>4. \A h \in Hub : Latest(h)' = Latest(h)
      BY <2>1 DEF Latest
    <3>5. \A h \in Hub, v \in Worker : Reconciling(h, v)' => worker'[h][v].version = Latest(h)'
      <4> SUFFICES ASSUME NEW h \in Hub, NEW v \in Worker, worker'[h][v].step # "idle"
                   PROVE  worker'[h][v].version = Latest(h)'
        BY DEF Reconciling
      <4>1. h = x /\ v = w
        BY <2>1 DEF Reconciling
      <4> QED
        BY <3>2, <3>3, <4>1
    <3>6. \A h \in Hub : installed'[h] = NoKeys \/ \E i \in 1..Latest(h) : installed'[h] = desired'[h][i]
      BY <2>1, <3>1 DEF Installed
    <3> QED
      BY <3>4, <3>5, <3>6 DEF Installed
  <2>4. CASE LoadLocal(x, w) \/ RejectOlder(x, w) \/ PersistConfirmed(x, w) \/ ApplyDesired(x, w)
    <3>1. Reconciling(x, w) /\ worker'[x][w].version = p.version
      <4>1. CASE LoadLocal(x, w)
        <5> DEFINE local == confirmed[x]
        <5>1. worker'[x][w] = [p EXCEPT !.step = "loaded", !.local = local] /\ p.step = "fetched"
          BY <2>2, <4>1 DEF LoadLocal, Working
        <5> HIDE DEF local
        <5> QED
          BY <2>2, <5>1 DEF Reconcile, Reconciling
      <4>2. CASE RejectOlder(x, w)
        BY <2>2, <4>2 DEF RejectOlder, Working, Reconcile, Reconciling
      <4>3. CASE PersistConfirmed(x, w)
        BY <2>2, <4>3 DEF PersistConfirmed, Working, Reconcile, Reconciling
      <4>4. CASE ApplyDesired(x, w)
        BY <2>2, <4>4 DEF ApplyDesired, Working, Reconcile, Reconciling
      <4> QED
        BY <2>4, <4>1, <4>2, <4>3, <4>4
    <3>2. x \in Hub => p.version = Latest(x) /\ p.version \in 1..Latest(x)
      BY <3>1 DEF Installed, Reconciling, Typed, VersionsExist
    <3>3. \/ UNCHANGED installed
          \/ installed' = [installed EXCEPT ![x] = desired[x][p.version]]
      BY <2>4 DEF LoadLocal, RejectOlder, PersistConfirmed, ApplyDesired
    <3>4. ASSUME NEW h \in Hub
          PROVE  installed'[h] = NoKeys \/ \E i \in 1..Latest(h) : installed'[h] = desired[h][i]
      BY <2>2, <3>2, <3>3 DEF Installed
    <3> QED
      BY <2>1, <3>1, <3>2, <3>4 DEF Installed, Latest, Reconciling
  <2>5. CASE Acknowledge(x, w)
    <3>1. worker'[x][w] = Resting /\ UNCHANGED installed
      BY <2>2, <2>5 DEF Acknowledge, Working
    <3> QED
      BY <2>1, <3>1 DEF Installed, Latest, Reconciling, Resting
  <2> QED
    BY <1>4, <2>3, <2>4, <2>5, NothingFails DEF ReconcileStep
<1>5. ASSUME (\E x \in Site : RefuseKey(x)) \/ UNCHANGED vars
      PROVE  UNCHANGED <<installed, worker>>
  BY <1>5 DEF RefuseKey, vars, edges
<1> QED
  BY <1>1, <1>2, <1>3, <1>4, <1>5, HubsKept, NothingFails DEF Next

\* What a verified hub has installed.
LEMMA VerifiedHasKeys ==
  ASSUME Typed, Confirming, Distributed, NoRegistration, HubsKeyed, NEW h \in Hub, IsVerified(h)
  PROVE  installed[h] = keys
<1>1. Current(h)
  BY DEF Distributed
<1>2. PICK later \in Latest(h)..Latest(h) : installed[h] = desired[h][later]
  BY ConfirmingVerified, HubIsNoSpoke DEF VerifiedMeansApplied, IsVerified
<1>3. later = Latest(h)
  BY NumbersTyped, HubIsNoSpoke
<1> QED
  BY <1>1, <1>2, <1>3 DEF Current

LEMMA PreparedStep ==
  ASSUME OneAtATime, Typed, Confirming, OneRunning, Distributed, Prepared, [Next]_vars
  PROVE  Prepared'
<1>1. ASSUME NoActivation, UNCHANGED activate
      PROVE  Prepared'
  BY <1>1 DEF Prepared, NoActivation, Activated
<1>2. ASSUME NEW s \in Spoke, NEW c \in Caller, ActivateStep(s, c)
      PROVE  Prepared'
  <2>1. /\ NoRegistration /\ UNCHANGED <<keys, installed>>
        /\ \A t \in Spoke, d \in Caller : t # s \/ d # c =>
             ~Activated(t, d) /\ activate'[t][d] = activate[t][d]
    BY <1>2, ActivateAlone DEF edges
  <2>2. activate \in [Spoke -> [Caller -> Activation]] /\ activate[s][c] \in Activation
    BY DEF Typed, TypeOK
  <2> DEFINE Fit(step) == /\ HubsKeyed /\ keys[s] # 0
                          /\ step # "hub1" => installed[Hub1] = keys
                          /\ step \notin {"hub1", "hub2"} => installed[Hub2] = keys
  <2>3. ASSUME activate'[s][c].step # "idle" => Fit(activate'[s][c].step)
        PROVE  Prepared'
    BY <2>1, <2>3 DEF Prepared, Activated, HubsKeyed
  <2>4. activate[s][c].step # "idle" => Fit(activate[s][c].step)
    BY DEF Prepared, Activated
  <2>5. ASSUME NEW step, NEW next, Activating(s, c, step, next)
        PROVE  activate[s][c].step = step /\ activate'[s][c].step = next
    BY <2>2, <2>5 DEF Activating, NotActivating, Activation
  <2>6. CASE BeginActivation(s, c)
    <3>1. activate'[s][c].step = "hub1" /\ HubsKeyed /\ keys[s] # 0
      BY <2>2, <2>6 DEF BeginActivation, NotActivating, HubsKeyed
    <3> QED
      BY <2>3, <3>1
  <2>7. CASE CheckHubs(s, c)
    <3>1. \/ Activating(s, c, "hub1", "hub2") /\ IsVerified(Hub1)
          \/ Activating(s, c, "hub1", "idle")
          \/ Activating(s, c, "hub2", "existing") /\ IsVerified(Hub2)
          \/ Activating(s, c, "hub2", "idle")
      BY <2>7 DEF CheckHubs
    <3>2. CASE Activating(s, c, "hub1", "hub2") /\ IsVerified(Hub1)
      <4>1. activate[s][c].step = "hub1" /\ activate'[s][c].step = "hub2"
        BY <2>5, <3>2
      <4>2. installed[Hub1] = keys
        BY <2>1, <2>4, <3>2, <4>1, VerifiedHasKeys, HubIsNoSpoke
      <4> QED
        BY <2>3, <2>4, <4>1, <4>2
    <3>3. CASE Activating(s, c, "hub2", "existing") /\ IsVerified(Hub2)
      <4>1. activate[s][c].step = "hub2" /\ activate'[s][c].step = "existing"
        BY <2>5, <3>3
      <4>2. installed[Hub2] = keys
        BY <2>1, <2>4, <3>3, <4>1, VerifiedHasKeys, HubIsNoSpoke
      <4> QED
        BY <2>3, <2>4, <4>1, <4>2
    <3>4. CASE Activating(s, c, "hub1", "idle") \/ Activating(s, c, "hub2", "idle")
      <4>1. activate'[s][c].step = "idle"
        BY <2>5, <3>4
      <4> QED
        BY <2>3, <4>1
    <3> QED
      BY <3>1, <3>2, <3>3, <3>4
  <2> DEFINE late == {"existing", "reserve", "owner", "transfer", "version", "publish"}
  <2>8. ASSUME activate[s][c].step \in late, activate'[s][c].step \in late \cup {"idle"}
        PROVE  Prepared'
    BY <2>3, <2>4, <2>8
  <2>9. ASSUME NEW step \in late, NEW next \in late \cup {"idle"}, Activating(s, c, step, next)
        PROVE  Prepared'
    BY <2>5, <2>8, <2>9
  <2>10. CASE ReadOwner(s, c) \/ ReadSpokeVersion(s, c)
    <3>1. activate[s][c].step \in late /\ activate'[s][c].step \in late
      BY <2>2, <2>10 DEF ReadOwner, ReadSpokeVersion, Activation
    <3> QED
      BY <2>8, <3>1
  <2> QED
    BY <1>2, <2>6, <2>7, <2>9, <2>10
    DEF ActivateStep, CheckExisting, ReserveResources, TransferOwnership, PublishSpoke
<1>3. ASSUME NEW x \in Site, RegisterStep(x), ~RefuseKey(x)
      PROVE  NoActivation /\ UNCHANGED activate
  BY <1>3, RegisterAlone
<1>4. ASSUME NEW x \in Site, NEW w \in Worker, ReconcileStep(x, w)
      PROVE  NoActivation /\ UNCHANGED activate
  BY <1>4, ReconcileAlone
<1>5. ASSUME (\E x \in Site : RefuseKey(x)) \/ UNCHANGED vars
      PROVE  Prepared'
  BY <1>5 DEF RefuseKey, vars, store, threads, edges, Prepared, Activated, HubsKeyed
<1> QED
  BY <1>1, <1>2, <1>3, <1>4, <1>5, NothingFails DEF Next

-----------------------------------------------------------------------------
\* A step that changes nothing HubFirst speaks of.
LEMMA Stutters ==
  ASSUME \A s \in Spoke : keys'[s] = keys[s],
         \A h \in Hub : installed'[h] = installed[h],
         \A s \in Spoke : desired'[s] = desired[s]
  PROVE  UNCHANGED HubFirstPromise!vars
<1>1. [s \in Spoke |-> keys'[s]] = [s \in Spoke |-> keys[s]]
  OBVIOUS
<1>2. [h \in Hub |-> [s \in Spoke |-> installed'[h][s]]] = [h \in Hub |-> [s \in Spoke |-> installed[h][s]]]
  OBVIOUS
<1>3. {s \in Spoke : desired'[s] # <<>>} = {s \in Spoke : desired[s] # <<>>}
  OBVIOUS
<1> QED
  BY <1>1, <1>2, <1>3 DEF HubFirstPromise!vars

LEMMA RegisterImplements ==
  ASSUME OneAtATime, Sequential, NEW x \in Site, RegisterStep(x)
  PROVE  [HubFirstPromise!Next]_(HubFirstPromise!vars)
<1> USE HubIsNoSpoke DEF Sequential
<1>1. UNCHANGED installed
  BY DEF RegisterStep, StoreKey, RefuseKey, ReadKeys, ReadVersion, PutHubState, PutConflict, edges
<1>2. \A s \in Spoke : desired'[s] = desired[s]
  <2>1. register[x].hub \in Site /\ register[x].hub \notin Spoke
    BY DEF Typed, TypeOK, Request
  <2>2. UNCHANGED desired
          \/ desired' = [desired EXCEPT ![register[x].hub] = Append(@, register[x].seen)]
    BY DEF RegisterStep, StoreKey, RefuseKey, ReadKeys, ReadVersion, PutHubState, PutConflict, store
  <2>3. desired \in [Site -> Seq(Keys)]
    BY DEF Typed
  <2> QED
    BY <2>1, <2>2, <2>3 DEF Site
<1>3. CASE x \in Spoke /\ StoreKey(x, TRUE)
  <2>1. keys' = [keys EXCEPT ![x] = keys[x] + 1]
    BY <1>3 DEF StoreKey
  <2>2. [s \in Spoke |-> keys'[s]] = [[s \in Spoke |-> keys[s]] EXCEPT ![x] = @ + 1]
    BY <1>3, <2>1, NumbersTyped DEF Site
  <2>3. [h \in Hub |-> [s \in Spoke |-> installed'[h][s]]] = [h \in Hub |-> [s \in Spoke |-> installed[h][s]]]
    BY <1>1
  <2>4. {s \in Spoke : desired'[s] # <<>>} = {s \in Spoke : desired[s] # <<>>}
    BY <1>2
  <2>5. HubFirstPromise!Register(x)
    BY <2>2, <2>3, <2>4 DEF HubFirstPromise!Register
  <2> QED
    BY <1>3, <2>5 DEF HubFirstPromise!Next
<1>4. CASE ~(x \in Spoke /\ StoreKey(x, TRUE))
  <2>1. \A s \in Spoke : keys'[s] = keys[s]
    <3>1. CASE StoreKey(x, TRUE)
      BY <1>4, <3>1 DEF StoreKey
    <3>2. CASE StoreKey(x, FALSE)
      BY <3>2 DEF StoreKey
    <3>3. CASE RefuseKey(x) \/ ReadKeys(x) \/ ReadVersion(x) \/ PutHubState(x) \/ PutConflict(x)
      BY <3>3 DEF RefuseKey, ReadKeys, ReadVersion, PutHubState, PutConflict, store
    <3> QED
      BY <3>1, <3>2, <3>3 DEF RegisterStep
  <2> QED
    BY <1>1, <1>2, <2>1, Stutters
<1> QED
  BY <1>3, <1>4

LEMMA AppendedNotEmpty ==
  ASSUME NEW S, NEW seq \in Seq(S), NEW e \in S
  PROVE  Append(seq, e) # <<>>
<1>1. Len(Append(seq, e)) = Len(seq) + 1 /\ Len(seq) \in Nat
  OBVIOUS
<1>2. Len(<<>>) = 0
  OBVIOUS
<1> QED
  BY <1>1, <1>2

LEMMA ActivateImplements ==
  ASSUME OneAtATime, Sequential, NEW s \in Spoke, NEW c \in Caller, ActivateStep(s, c)
  PROVE  [HubFirstPromise!Next]_(HubFirstPromise!vars)
<1> USE NumbersTyped, HubIsNoSpoke DEF Sequential
<1>1. UNCHANGED <<keys, installed>>
  BY ActivateAlone DEF edges
<1>2. CASE PublishSpoke(s, c) /\ desired' # desired
  <2>1. activate[s][c].step = "publish"
    BY <1>2 DEF PublishSpoke, Activating
  <2>2. keys[s] # 0 /\ installed[Hub1] = keys /\ installed[Hub2] = keys
    BY <2>1 DEF Prepared, Activated
  <2>3. [h \in Hub |-> [t \in Spoke |-> installed'[h][t]]] = [h \in Hub |-> [t \in Spoke |-> installed[h][t]]]
    BY <1>1
  <2>4. {t \in Spoke : desired'[t] # <<>>} = {t \in Spoke : desired[t] # <<>>} \cup {s}
    <3>1. desired' = [desired EXCEPT ![s] = Append(desired[s], activate[s][c].seen)]
      BY <1>2 DEF PublishSpoke
    <3>2. s \in Site /\ desired[s] \in Seq(Keys) /\ activate[s][c].seen \in Keys
      BY DEF Site, Typed, TypeOK, Activation
    <3>3. Append(desired[s], activate[s][c].seen) # <<>>
      BY <3>2, AppendedNotEmpty
    <3>4. desired'[s] # <<>> /\ \A t \in Spoke : t # s => desired'[t] = desired[t]
      BY <3>1, <3>2, <3>3 DEF Typed, Site
    <3> QED
      BY <3>4
  <2>5. [t \in Spoke |-> keys'[t]] = [t \in Spoke |-> keys[t]]
    BY <1>1
  <2>6. \A h \in Hub : installed[h][s] = keys[s]
    BY <2>2 DEF Hub
  <2>7. HubFirstPromise!Publish(s)
    BY <2>2, <2>3, <2>4, <2>5, <2>6 DEF HubFirstPromise!Publish
  <2> QED
    BY <2>7 DEF HubFirstPromise!Next
<1>3. CASE ~(PublishSpoke(s, c) /\ desired' # desired)
  <2>1. UNCHANGED desired
    BY <1>3
    DEF ActivateStep, BeginActivation, CheckHubs, CheckExisting, ReserveResources, ReadOwner,
        TransferOwnership, ReadSpokeVersion, store
  <2> QED
    BY <1>1, <2>1, Stutters
<1> QED
  BY <1>2, <1>3

LEMMA ReconcileImplements ==
  ASSUME OneAtATime, Sequential, NEW x \in Site, NEW w \in Worker, ReconcileStep(x, w)
  PROVE  [HubFirstPromise!Next]_(HubFirstPromise!vars)
<1> USE NumbersTyped, HubIsNoSpoke DEF Sequential
<1>1. UNCHANGED <<keys, desired>>
  BY ReconcileAlone
<1>2. CASE ApplyDesired(x, w) /\ x \in Hub
  <2> DEFINE version == worker[x][w].version
             taken == [s \in Spoke |-> desired[x][version][s]]
  <2>1. /\ version = Latest(x) /\ version \in 1..Latest(x)
        /\ installed' = [installed EXCEPT ![x] = desired[x][version]]
    BY <1>2 DEF ApplyDesired, Working, Installed, Reconciling, Typed, VersionsExist
  <2>2. Latest(x) \in Nat /\ installed \in [Site -> Keys] /\ desired[x][version] \in [Site -> 0..2]
    BY <2>1 DEF Typed, TypeOK
  <2>3. ASSUME NEW s \in Spoke
        PROVE  desired[x][version][s] \in installed[x][s]..keys[s]
    <3>1. keys[s] \in Nat /\ desired[x][version][s] \in Nat /\ s \in Site
      <4>1. s \in Site
        BY DEF Site
      <4>2. keys[s] \in 0..2 /\ desired[x][version][s] \in 0..2
        BY <2>2, <4>1
      <4> QED
        BY <4>1, <4>2
    <3>2. desired[x][version][s] <= keys[s]
      BY <1>2, <2>1 DEF Ascending
    <3>3. installed[x][s] \in Nat /\ installed[x][s] <= desired[x][version][s]
      <4>1. CASE installed[x] = NoKeys
        BY <3>1, <4>1 DEF NoKeys
      <4>2. CASE \E i \in 1..Latest(x) : installed[x] = desired[x][i]
        <5>1. PICK i \in 1..Latest(x) : installed[x] = desired[x][i]
          BY <4>2
        <5>2. i \in Nat
          BY <2>2
        <5>3. desired[x][i] \in [Site -> 0..2]
          BY <5>1, <5>2
        <5>4. desired[x][i][s] \in 0..2
          BY <3>1, <5>3
        <5>5. desired[x][i][s] <= desired[x][Latest(x)][s]
          BY <1>2 DEF Ascending
        <5> QED
          BY <2>1, <5>1, <5>4, <5>5
      <4> QED
        BY <1>2, <4>1, <4>2 DEF Installed
    <3> QED
      BY <3>1, <3>2, <3>3
  <2>4. taken \in [Spoke -> 0..2]
    BY <2>2 DEF Site
  <2>5. \A s \in Spoke : taken[s] \in [h \in Hub |-> [t \in Spoke |-> installed[h][t]]][x][s]..
                                       [t \in Spoke |-> keys[t]][s]
    BY <1>2, <2>3
  <2>6. [h \in Hub |-> [t \in Spoke |-> installed'[h][t]]]
          = [[h \in Hub |-> [t \in Spoke |-> installed[h][t]]] EXCEPT ![x] = taken]
    <3>1. installed'[x] = desired[x][version] /\ \A h \in Hub : h # x => installed'[h] = installed[h]
      BY <2>1, <2>2
    <3> QED
      BY <1>2, <3>1
  <2>7. /\ [t \in Spoke |-> keys'[t]] = [t \in Spoke |-> keys[t]]
        /\ {t \in Spoke : desired'[t] # <<>>} = {t \in Spoke : desired[t] # <<>>}
    BY <1>1
  <2> HIDE DEF taken
  <2>8. HubFirstPromise!Prepare(x)
    BY <2>4, <2>5, <2>6, <2>7 DEF HubFirstPromise!Prepare
  <2> QED
    BY <1>2, <2>8 DEF HubFirstPromise!Next
<1>3. CASE ~(ApplyDesired(x, w) /\ x \in Hub)
  <2>1. \A h \in Hub : installed'[h] = installed[h]
    <3>1. CASE ApplyDesired(x, w)
      BY <1>3, <3>1 DEF ApplyDesired, Typed, TypeOK
    <3>2. CASE ~ApplyDesired(x, w)
      BY <3>2
      DEF ReconcileStep, Fetch, LoadLocal, RejectOlder, PersistConfirmed, Acknowledge, WorkerDies
    <3> QED
      BY <3>1, <3>2
  <2> QED
    BY <1>1, <2>1, Stutters
<1> QED
  BY <1>2, <1>3

LEMMA SequentialInit ==
  ASSUME OneAtATime, Init
  PROVE  Sequential /\ HubFirstPromise!Init
<1>1. OneRunning
  BY DEF Init, OneRunning, Registering, Activated, Reconciling, Idle, NotActivating, Resting
<1>2. Distributed
  BY HubIsNoSpoke DEF Init, Distributed, Publishing, HubsKeyed, NoKeys, Idle
<1>3. Ascending /\ Installed /\ Prepared
  <2>1. \A x \in Site : Latest(x) = 0
    BY DEF Init, Latest
  <2> QED
    BY <2>1, HubIsNoSpoke
    DEF Init, Ascending, Installed, Prepared, Activated, Reconciling, NotActivating, Resting
<1>4. HubFirstPromise!Init
  <2>1. [s \in Spoke |-> keys[s]] = [s \in Spoke |-> 0]
    BY DEF Init, NoKeys, Site
  <2>2. [h \in Hub |-> [s \in Spoke |-> installed[h][s]]] = [h \in Hub |-> [s \in Spoke |-> 0]]
    BY DEF Init, NoKeys, Site
  <2>3. {s \in Spoke : desired[s] # <<>>} = {}
    BY DEF Init, Site
  <2> QED
    BY <2>1, <2>2, <2>3 DEF HubFirstPromise!Init
<1> QED
  BY <1>1, <1>2, <1>3, <1>4, TypedInit, ConfirmingInit DEF Sequential

LEMMA SequentialStep ==
  ASSUME OneAtATime, Sequential, [Next]_vars
  PROVE  Sequential' /\ [HubFirstPromise!Next]_(HubFirstPromise!vars)
<1>1. OneLoads
  BY DEF OneLoads, LoadLocal, Working, Updating, Sequential, OneRunning, Reconciling
<1>2. Sequential'
  BY <1>1, TypedStep, ConfirmingStep, OneRunningStep, DistributedStep, AscendingStep, InstalledStep,
     PreparedStep DEF Sequential
<1>3. CASE UNCHANGED vars
  BY <1>2, <1>3, Stutters DEF vars, store, edges
<1>4. CASE Next
  BY <1>2, <1>4, NothingFails, RegisterImplements, ActivateImplements, ReconcileImplements
  DEF Next, Sequential
<1> QED
  BY <1>2, <1>3, <1>4

(***************************************************************************)
(* While requests and reconciles come one at a time and none dies, the     *)
(* service and the edges implement HubFirst: a spoke's configuration is    *)
(* published only when both hubs have installed the key it registered      *)
(* last, and no hub goes back to an older one; for any number of spokes    *)
(* and registrations (policy_service_v5.py:33-34, 67).                     *)
(***************************************************************************)
THEOREM SpecImplementsHubFirst ==
  ASSUME OneAtATime
  PROVE  Spec => ImplementsHubFirst
<1>1. Init => Sequential /\ HubFirstPromise!Init
  BY SequentialInit
<1>2. Sequential /\ [Next]_vars => Sequential' /\ [HubFirstPromise!Next]_(HubFirstPromise!vars)
  BY SequentialStep
<1> QED
  BY <1>1, <1>2, PTL DEF Spec, ImplementsHubFirst, HubFirstPromise!Spec
=============================================================================
