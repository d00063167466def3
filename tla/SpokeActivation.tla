--------------------------- MODULE SpokeActivation ---------------------------
(***************************************************************************)
(* Activations of spokes that overlap, statement by statement              *)
(* (src/sdwan_v5/policy_service_v5.py:69-103 over                          *)
(* persistence/policy_store.py).  Every request has a thread, and all of   *)
(* them use one SQLite connection without a lock (persistence/base.py:39,  *)
(* 49-58): what one wrote the others read before it is committed, the BEGIN *)
(* of one within the transaction of another fails and its ROLLBACK ends    *)
(* that other transaction, a COMMIT commits whatever is open, and what is  *)
(* written outside a transaction stays at once.                            *)
(*                                                                         *)
(* The statements of a transaction before its COMMIT are one step.  That   *)
(* the keys are known and the hubs verified (:63-68) is PolicyControl's.   *)
(***************************************************************************)
EXTENDS Integers

CONSTANTS
  Staged,     \* spokes that may be activated
  Server,     \* threads, each with one request at a time
  MaxOwners,  \* bound: epochs of a prefix from which an activation begins
  MaxDeaths   \* bound: deaths of the service

(* Assumed of the constants, where the module is extended. *)
ActivationAssumption == MaxOwners \in Nat /\ MaxDeaths \in Nat

VARIABLES
  seen,       \* what the connection sees: spokes with leases, epoch of each
              \* spoke's prefix, highest version of its desired states
  onDisk,     \* the same, as committed
  inTransaction,
  request,    \* request[t]: what thread t is at
  announced,  \* spokes whose activation was answered as published
  collided,   \* some BEGIN found the transaction of another thread open
  deaths      \* bound: number of deaths so far

activationVars == <<seen, onDisk, inTransaction, request, announced, collided, deaths>>

Rows == [leased : SUBSET Staged, epoch : [Staged -> Nat], version : [Staged -> Nat]]
NoRows == [leased |-> {}, epoch |-> [s \in Staged |-> 0], version |-> [s \in Staged |-> 0]]

(* A transaction begins, writes, and commits or aborts; "owner" and        *)
(* "version" are reads between the transactions "lease", "transfer" and    *)
(* "put"; "report" is any transaction that touches none of these seen.     *)
Jobs == {"lease", "owner", "transfer", "version", "put", "report"}
Requests ==
  [at : {"idle", "begin", "write", "commit", "abort", "read"}, job : Jobs, spoke : Staged,
   epoch : Nat, version : Nat]

Unserved(s) == [at |-> "idle", job |-> "report", spoke |-> s, epoch |-> 0, version |-> 0]

ActivationInit ==
  /\ seen = NoRows /\ onDisk = NoRows /\ inTransaction = FALSE
  /\ \E s \in Staged : request = [t \in Server |-> Unserved(s)]
  /\ announced = {} /\ collided = FALSE /\ deaths = 0

Goes(t, at) == request' = [request EXCEPT ![t].at = at]
Reaches(t, job, at) == request' = [request EXCEPT ![t].job = job, ![t].at = at]
Quits(t) == request' = [request EXCEPT ![t] = Unserved(request[t].spoke)]
StoreKept == UNCHANGED <<seen, onDisk, inTransaction>>
CountsKept == UNCHANGED <<announced, collided, deaths>>

-----------------------------------------------------------------------------
(* activate_spoke past its check for an existing desired state.            *)
StartActivation(t, s) ==
  /\ request[t].at = "idle" /\ seen.version[s] = 0 /\ seen.epoch[s] <= MaxOwners
  /\ request' = [request EXCEPT ![t] = [Unserved(s) EXCEPT !.job = "lease", !.at = "begin"]]
  /\ StoreKept /\ CountsKept

StartReport(t) ==
  /\ request[t].at = "idle"
  /\ Reaches(t, "report", "begin") /\ StoreKept /\ CountsKept

BeginTransaction(t) ==
  /\ request[t].at = "begin"
  /\ Goes(t, IF inTransaction THEN "abort" ELSE "write")
  /\ inTransaction' = TRUE
  /\ collided' = (collided \/ inTransaction)
  /\ UNCHANGED <<seen, onDisk, announced, deaths>>

(* What is written, in the transaction that is open or, without one, at once. *)
Writes(new) ==
  /\ seen' = new
  /\ onDisk' = IF inTransaction THEN onDisk ELSE new
  /\ UNCHANGED inTransaction

(* Faulty: leases may be taken again.                                      *)
TakesLeasesAgain(s) == FALSE
(* The leases' primary keys refuse a second reservation.                   *)
RefusesLeases(s) == s \in seen.leased

WriteLeases(t) ==
  LET r == request[t]
  IN  /\ r.at = "write" /\ r.job = "lease"
      /\ IF RefusesLeases(r.spoke)
         THEN Goes(t, "abort") /\ StoreKept
         ELSE Goes(t, "commit") /\ Writes([seen EXCEPT !.leased = @ \cup {r.spoke}])
      /\ CountsKept

(* An older epoch is refused, the present one changes nothing.             *)
WriteTransfer(t) ==
  LET r == request[t]
  IN  /\ r.at = "write" /\ r.job = "transfer"
      /\ Goes(t, IF r.epoch < seen.epoch[r.spoke] THEN "abort" ELSE "commit")
      /\ IF r.epoch <= seen.epoch[r.spoke] THEN StoreKept
         ELSE Writes([seen EXCEPT !.epoch = [@ EXCEPT ![r.spoke] = r.epoch]])
      /\ CountsKept

(* A version that is there is refused, unless its contents are the same.   *)
WriteState(t) ==
  LET r == request[t]
  IN  /\ r.at = "write" /\ r.job = "put"
      /\ IF r.version > seen.version[r.spoke]
         THEN /\ Goes(t, "commit")
              /\ Writes([seen EXCEPT !.version = [@ EXCEPT ![r.spoke] = r.version]])
         ELSE /\ \E at \in {"abort"} \cup {a \in {"commit"} : r.version = seen.version[r.spoke]} :
                   Goes(t, at)
              /\ StoreKept
      /\ CountsKept

WriteReport(t) ==
  /\ request[t].at = "write" /\ request[t].job = "report"
  /\ Goes(t, "commit") /\ StoreKept /\ CountsKept

(* COMMIT with no transaction open raises and ends the request.            *)
CommitTransaction(t) ==
  LET r == request[t]
  IN  /\ r.at = "commit"
      /\ IF ~inTransaction \/ r.job \in {"put", "report"} THEN Quits(t)
         ELSE IF r.job = "lease" THEN Reaches(t, "owner", "read") ELSE Reaches(t, "version", "read")
      /\ announced' = IF inTransaction /\ r.job = "put" THEN announced \cup {r.spoke} ELSE announced
      /\ onDisk' = seen /\ inTransaction' = FALSE
      /\ UNCHANGED <<seen, collided, deaths>>

(* ROLLBACK of whatever is open; the request ends.                         *)
RollbackTransaction(t) ==
  /\ request[t].at = "abort"
  /\ seen' = onDisk /\ inTransaction' = FALSE
  /\ Quits(t)
  /\ UNCHANGED <<onDisk, announced, collided, deaths>>

ReadPrefixOwner(t) ==
  LET r == request[t]
  IN  /\ r.at = "read" /\ r.job = "owner"
      /\ request' = [request EXCEPT ![t] = [r EXCEPT !.job = "transfer", !.at = "begin",
                                                     !.epoch = seen.epoch[r.spoke] + 1]]
      /\ StoreKept /\ CountsKept

ReadNextVersion(t) ==
  LET r == request[t]
  IN  /\ r.at = "read" /\ r.job = "version"
      /\ request' = [request EXCEPT ![t] = [r EXCEPT !.job = "put", !.at = "begin",
                                                     !.version = seen.version[r.spoke] + 1]]
      /\ StoreKept /\ CountsKept

ServiceDies ==
  /\ deaths < MaxDeaths /\ deaths' = deaths + 1
  /\ seen' = onDisk /\ inTransaction' = FALSE
  /\ request' = [t \in Server |-> Unserved(request[t].spoke)]
  /\ UNCHANGED <<onDisk, announced, collided>>

ServeRequest(t) ==
  \/ StartReport(t) \/ \E s \in Staged : StartActivation(t, s)
  \/ BeginTransaction(t) \/ CommitTransaction(t) \/ RollbackTransaction(t)
  \/ WriteLeases(t) \/ WriteTransfer(t) \/ WriteState(t) \/ WriteReport(t)
  \/ ReadPrefixOwner(t) \/ ReadNextVersion(t)

ActivationNext == ServiceDies \/ \E t \in Server : ServeRequest(t)

ActivationSpec == ActivationInit /\ [][ActivationNext]_activationVars

-----------------------------------------------------------------------------
(***************************************************************************)
(* However activations of a spoke overlap, die and are repeated, it is     *)
(* given one configuration and its prefix one epoch, and an activation     *)
(* that was answered as published is on disk: the leases taken between the *)
(* check for an existing state and its publication serialise them          *)
(* (policy_service_v5.py:69-103).  It holds as long as no BEGIN has found  *)
(* the transaction of another thread open.  After that it does not: the    *)
(* ROLLBACK that follows takes back leases whose owner goes on.            *)
(***************************************************************************)
SpokePublishedOnce ==
  ~collided =>
    /\ \A s \in Staged : seen.version[s] <= 1 /\ seen.epoch[s] <= 1
    /\ \A s \in announced : onDisk.version[s] = 1
=============================================================================
