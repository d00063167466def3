--------------------------- MODULE RouteOwnership ---------------------------
(***************************************************************************)
(* Which of its two hubs owns the prefix of a spoke.  Coordinators move the *)
(* ownership from a record they read earlier: the usability of the new      *)
(* owner is probed in between, outside the store's transaction.  The store  *)
(* refuses an older epoch and silently keeps its own record of an equal one.*)
(***************************************************************************)
EXTENDS Naturals

CONSTANTS Caller, PreferredHub, StandbyHub, MaxEpoch

(* Assumed of the constants, where the module is extended. *)
OwnershipAssumption == PreferredHub # StandbyHub /\ MaxEpoch \in Nat \ {0}

VARIABLES
  store,     \* the row of the prefix
  held,      \* the record each coordinator works from
  wants,     \* the owner each is about to install, or "none"
  reported,  \* every record a transfer returned as committed
  pending,   \* epochs in pending_reconciliation: the owner left was unreachable
  refused    \* transfers the store refused as stale, bounded like the epochs

ownershipVars == <<store, held, wants, reported, pending, refused>>

Record(owner, epoch) == [owner |-> owner, epoch |-> epoch]

(* The row is written by the hub-first activation of the spoke.             *)
OwnershipInit ==
  /\ store = Record(PreferredHub, 1)
  /\ held = [c \in Caller |-> store]
  /\ wants = [c \in Caller |-> "none"]
  /\ reported = {store}
  /\ pending = {}
  /\ refused = 0

Read(c) ==
  /\ wants[c] = "none"
  /\ held' = [held EXCEPT ![c] = store]
  /\ UNCHANGED <<store, wants, reported, pending, refused>>

(* Faulty: a transfer to the present owner is carried out as well.          *)
MayMoveAnyway(c, hub) == TRUE
MayMove(c, hub) == hub # held[c].owner

(* The new owner is assigned to the site and answers the probe.             *)
Begin(c, hub) ==
  /\ wants[c] = "none" /\ MayMove(c, hub)
  /\ held[c].epoch < MaxEpoch
  /\ wants' = [wants EXCEPT ![c] = hub]
  /\ UNCHANGED <<store, held, reported, pending, refused>>

NextRecord(c) == Record(wants[c], held[c].epoch + 1)

Commit(c) ==
  /\ wants[c] # "none" /\ NextRecord(c).epoch >= store.epoch
  /\ IF NextRecord(c).epoch = store.epoch
     THEN UNCHANGED <<store, pending>>
     ELSE store' = NextRecord(c) /\ pending' \in {pending, pending \cup {NextRecord(c).epoch}}
  /\ held' = [held EXCEPT ![c] = NextRecord(c)]
  /\ reported' = reported \cup {NextRecord(c)}
  /\ wants' = [wants EXCEPT ![c] = "none"]
  /\ UNCHANGED refused

Refuse(c) ==
  /\ wants[c] # "none" /\ NextRecord(c).epoch < store.epoch /\ refused < MaxEpoch
  /\ refused' = refused + 1
  /\ wants' = [wants EXCEPT ![c] = "none"]
  /\ UNCHANGED <<store, held, reported, pending>>

OwnershipNext == \E c \in Caller :
  \/ Read(c) \/ Commit(c) \/ Refuse(c)
  \/ \E hub \in {PreferredHub, StandbyHub} : Begin(c, hub)

OwnershipSpec == OwnershipInit /\ [][OwnershipNext]_ownershipVars

-----------------------------------------------------------------------------
(* Two coordinators that were both told their transfer committed never      *)
(* believe in different owners for one epoch, although the store accepts    *)
(* the second of two equal epochs without comparing it.                     *)
OneOwnerPerEpoch ==
  \A r, s \in reported \cup {store} : r.epoch = s.epoch => r.owner = s.owner
=============================================================================
