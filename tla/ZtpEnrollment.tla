--------------------------- MODULE ZtpEnrollment ----------------------------
(***************************************************************************)
(* The ZTP service: claims, certificates and devices of                    *)
(* src/sdwan_v5/persistence/ztp_store.py, served by the threads of         *)
(* src/sdwan_v5/ztp_service_v5.py.  All threads share one SQLite           *)
(* connection without a lock (persistence/base.py:39, 49-58): a BEGIN that *)
(* finds another thread's transaction open fails, and the ROLLBACK that    *)
(* answers the failure ends that other transaction.  A statement outside a *)
(* transaction is its own transaction.                                     *)
(*                                                                         *)
(* Left out: the enrollment sessions (every nonce is a new uuid4), the     *)
(* audit rows, and what of a claim is checked besides status and lifetime. *)
(***************************************************************************)
EXTENDS Integers, FiniteSets

CONSTANTS
  Device, Claim,
  Holder,      \* Holder[c]: the device claim c is made out to
  Attempts,    \* bound: requests that present the same claim
  Operations,  \* what the administrator does
  MayLapse,    \* claims whose lifetime may end
  Parallel,    \* threads that may be busy side by side
  Failures     \* bound: crashes, lost answers and failures of the CA

ASSUME EnrollmentAssumption ==
  /\ Holder \in [Claim -> Device]
  /\ Attempts \in Nat /\ Parallel \in Nat /\ Failures \in Nat
  /\ Operations \subseteq {"stage", "create", "cancel", "revoke"}
  /\ MayLapse \subseteq Claim

Request == Claim \X (1..Attempts)

VARIABLES
  rows,       \* the database as the connection sees it
  committed,  \* the database as it is on disk
  open,       \* connection.in_transaction
  request,    \* request[r]: how far the thread of enrollment request r is
  admin,      \* the administrator's request: its step, operation and target
  handed,     \* claims whose secret the administrator has been given
  held,       \* devices that have stored a certificate
  lapsed,     \* claims whose lifetime is over
  failures    \* bound: number of failures so far

database == <<rows, committed, open>>
clients == <<handed, held>>
vars == <<database, request, admin, clients, lapsed, failures>>

Ledger == [device : [Device -> {"UNKNOWN", "STAGED", "ACTIVE", "REVOKED"}],
           claim : [Claim -> {"NONE", "ACTIVE", "CONSUMED", "CANCELLED", "EXPIRED"}],
           certificate : [Request -> {"NONE", "ACTIVE", "REVOKED"}]]

NewRows ==
  [device |-> [d \in Device |-> "UNKNOWN"],
   claim |-> [c \in Claim |-> "NONE"],
   certificate |-> [r \in Request |-> "NONE"]]

Writing == {"certificate", "consume", "activate", "commit"}
Failing == {"expire", "abort", "reject", "record", "recording"}
RequestStep == {"idle", "check", "issue", "answered", "ended"} \cup Writing \cup Failing
AdminStep == {"execute", "device", "commit", "abort"}
Resting == [step |-> "idle", operation |-> [does |-> "nothing"]]
Operation ==
  {[does |-> "stage", device |-> d] : d \in Device}
    \cup {[does |-> does, claim |-> c] : does \in {"create", "cancel"}, c \in Claim}
    \cup {[does |-> "revoke", request |-> r] : r \in Request}

TypeOK ==
  /\ rows \in Ledger
  /\ committed \in Ledger
  /\ open \in BOOLEAN
  /\ request \in [Request -> RequestStep]
  /\ admin \in {Resting} \cup [step : AdminStep, operation : Operation]
  /\ handed \subseteq Claim /\ held \subseteq Device /\ lapsed \subseteq MayLapse
  /\ failures \in 0..Failures

Init ==
  /\ rows = NewRows
  /\ committed = NewRows
  /\ open = FALSE
  /\ request = [r \in Request |-> "idle"]
  /\ admin = Resting
  /\ handed = {}
  /\ held = {}
  /\ lapsed = {}
  /\ failures = 0

-----------------------------------------------------------------------------
(***************************************************************************)
(* The shared connection.                                                  *)
(***************************************************************************)
\* BEGIN IMMEDIATE, which fails inside a transaction.
BeginSucceeds == ~open
OpenTransaction == open' = TRUE /\ UNCHANGED <<rows, committed>>

\* Any other statement: outside a transaction it is committed at once.
Execute(new) ==
  /\ rows' = new
  /\ committed' = IF open THEN committed ELSE new
  /\ UNCHANGED open

\* Faulty variants: the transaction stays open; nothing is taken back.
RollbackForgotten == UNCHANGED <<rows, committed, open>>
RollbackNothing == open' = FALSE /\ committed' = rows /\ UNCHANGED rows

\* COMMIT and ROLLBACK end whatever transaction is open and fail without one.
CommitAny == committed' = rows /\ open' = FALSE /\ UNCHANGED rows
RollbackAny == rows' = committed /\ open' = FALSE /\ UNCHANGED committed

-----------------------------------------------------------------------------
Working == {r \in Request : request[r] \notin {"idle", "answered", "ended"}}
Busy == Cardinality(Working) + (IF admin.step = "idle" THEN 0 ELSE 1)
MayStart == Busy < Parallel

Goes(r, step, next) ==
  /\ request[r] = step
  /\ request' = [request EXCEPT ![r] = next]
  /\ UNCHANGED <<admin, clients, lapsed, failures>>

(***************************************************************************)
(* consume_claim for one request.                                          *)
(***************************************************************************)
BeginEnroll(r) ==
  /\ MayStart
  /\ r[1] \in handed
  /\ Holder[r[1]] \notin held
  /\ IF BeginSucceeds
     THEN Goes(r, "idle", "check") /\ OpenTransaction
     ELSE Goes(r, "idle", "abort") /\ UNCHANGED database

Reusable(c) == rows.claim[c] = "ACTIVE"

CheckClaim(r) ==
  /\ Goes(r, "check", CASE ~Reusable(r[1]) -> "reject"
                        [] Reusable(r[1]) /\ r[1] \in lapsed -> "expire"
                        [] OTHER -> "issue")
  /\ UNCHANGED database

\* Undone by the raise that follows it, as long as the transaction is open.
ExpireClaim(r) ==
  /\ Goes(r, "expire", "reject")
  /\ Execute([rows EXCEPT !.claim[r[1]] = "EXPIRED"])

Issue(r) ==
  /\ Goes(r, "issue", "certificate")
  /\ UNCHANGED database

StoreCertificate(r) ==
  /\ Goes(r, "certificate", "consume")
  /\ Execute([rows EXCEPT !.certificate[r] = "ACTIVE"])

ConsumeClaim(r) ==
  /\ Goes(r, "consume", "activate")
  /\ Execute([rows EXCEPT !.claim[r[1]] = "CONSUMED"])

ActivateDevice(r) ==
  /\ Goes(r, "activate", "commit")
  /\ Execute([rows EXCEPT !.device[Holder[r[1]]] = "ACTIVE"])

\* Faulty variant: the answer is given before the transaction is committed.
AnswerBeforeCommit(r) ==
  Goes(r, "commit", "answered") /\ UNCHANGED database

CommitEnroll(r) ==
  IF open
  THEN Goes(r, "commit", "answered") /\ CommitAny
  ELSE Goes(r, "commit", "ended") /\ UNCHANGED database

\* transaction() gives way to an exception: ROLLBACK, and for a ClaimRejected
\* record_attempt in a transaction of its own.
RollBack(r) ==
  \/ /\ open
     /\ Goes(r, "abort", "ended") \/ Goes(r, "reject", "record")
     /\ RollbackAny
  \/ /\ ~open
     /\ Goes(r, "abort", "ended") \/ Goes(r, "reject", "ended")
     /\ UNCHANGED database

RecordAttempt(r) ==
  \/ /\ BeginSucceeds
     /\ Goes(r, "record", "recording")
     /\ OpenTransaction
  \/ /\ ~BeginSucceeds
     /\ Goes(r, "record", "abort")
     /\ UNCHANGED database
  \/ /\ Goes(r, "recording", "ended")
     /\ IF open THEN CommitAny ELSE UNCHANGED database

\* The edge stores the certificate it is answered with.
ReceiveCertificate(r) ==
  /\ request[r] = "answered"
  /\ request' = [request EXCEPT ![r] = "ended"]
  /\ held' = held \cup {Holder[r[1]]}
  /\ UNCHANGED <<database, admin, handed, lapsed, failures>>

-----------------------------------------------------------------------------
(***************************************************************************)
(* The administrator's requests: one transaction each.                     *)
(***************************************************************************)
AdminGoes(step, next) ==
  /\ admin.step = step
  /\ admin' = IF next = "idle" THEN Resting ELSE [admin EXCEPT !.step = next]
  /\ UNCHANGED <<request, held, lapsed, failures>>

\* live_enroll.py asks for a claim while the device has no certificate.
Wanted(operation) ==
  /\ operation.does \in Operations
  /\ operation.does = "create" =>
       operation.claim \notin handed /\ Holder[operation.claim] \notin held

AdminBegin(operation) ==
  /\ MayStart
  /\ admin.step = "idle"
  /\ Wanted(operation)
  /\ admin' = [step |-> IF BeginSucceeds THEN "execute" ELSE "abort", operation |-> operation]
  /\ IF BeginSucceeds THEN OpenTransaction ELSE UNCHANGED database
  /\ UNCHANGED <<request, clients, lapsed, failures>>

\* Faulty variant: a device staged again starts anew.
StageAnew(d) == [rows EXCEPT !.device[d] = "STAGED"]

Stage(d) ==
  [rows EXCEPT !.device[d] = IF @ = "UNKNOWN" THEN "STAGED" ELSE @]

Permitted(o) ==
  CASE o.does = "stage" -> TRUE
    [] o.does = "create" -> /\ rows.device[Holder[o.claim]] = "STAGED"
                            /\ rows.claim[o.claim] = "NONE"
    [] o.does = "cancel" -> rows.claim[o.claim] = "ACTIVE"
    [] o.does = "revoke" -> rows.certificate[o.request] # "NONE"

Result(o) ==
  CASE o.does = "stage" -> Stage(o.device)
    [] o.does = "create" -> [rows EXCEPT !.claim[o.claim] = "ACTIVE"]
    [] o.does = "cancel" -> [rows EXCEPT !.claim[o.claim] = "CANCELLED"]
    [] o.does = "revoke" -> [rows EXCEPT !.certificate[o.request] = "REVOKED"]

\* Reads, refuses by an exception or writes; a revocation writes a second row.
AdminExecute ==
  /\ admin.step = "execute"
  /\ IF Permitted(admin.operation)
     THEN /\ AdminGoes("execute", IF admin.operation.does = "revoke" THEN "device" ELSE "commit")
          /\ Execute(Result(admin.operation))
     ELSE AdminGoes("execute", "abort") /\ UNCHANGED database
  /\ UNCHANGED handed

AdminRevokeDevice ==
  /\ AdminGoes("device", "commit")
  /\ Execute([rows EXCEPT !.device[Holder[admin.operation.request[1]]] = "REVOKED"])
  /\ UNCHANGED handed

AdminCommit ==
  /\ AdminGoes("commit", "idle")
  /\ IF open THEN CommitAny ELSE UNCHANGED database
  /\ handed' = IF open /\ admin.operation.does = "create" THEN handed \cup {admin.operation.claim}
               ELSE handed

AdminRollBack ==
  /\ AdminGoes("abort", "idle")
  /\ IF open THEN RollbackAny ELSE UNCHANGED database
  /\ UNCHANGED handed

-----------------------------------------------------------------------------
Lapse(c) ==
  /\ c \in MayLapse \ lapsed
  /\ lapsed' = lapsed \cup {c}
  /\ UNCHANGED <<database, request, admin, clients, failures>>

CountFailure ==
  /\ failures < Failures
  /\ failures' = failures + 1
  /\ UNCHANGED <<clients, lapsed>>

IssuerFails(r) ==
  /\ CountFailure
  /\ request[r] = "issue"
  /\ request' = [request EXCEPT ![r] = "abort"]
  /\ UNCHANGED <<database, admin>>

AnswerLost(r) ==
  /\ CountFailure
  /\ request[r] = "answered"
  /\ request' = [request EXCEPT ![r] = "ended"]
  /\ UNCHANGED <<database, admin>>

ServiceCrash ==
  /\ CountFailure
  /\ RollbackAny
  /\ request' = [r \in Request |-> IF r \in Working THEN "ended" ELSE request[r]]
  /\ admin' = Resting

Serve(r) ==
  \/ CheckClaim(r)
  \/ ExpireClaim(r)
  \/ Issue(r)
  \/ StoreCertificate(r)
  \/ ConsumeClaim(r)
  \/ ActivateDevice(r)
  \/ CommitEnroll(r)
  \/ RollBack(r)
  \/ RecordAttempt(r)

ServeAdmin == AdminExecute \/ AdminRevokeDevice \/ AdminCommit \/ AdminRollBack

Next ==
  \/ \E r \in Request :
       \/ BeginEnroll(r)
       \/ Serve(r)
       \/ ReceiveCertificate(r)
       \/ IssuerFails(r)
       \/ AnswerLost(r)
  \/ \E operation \in Operation : AdminBegin(operation)
  \/ ServeAdmin
  \/ \E c \in Claim : Lapse(c)
  \/ ServiceCrash

Spec == Init /\ [][Next]_vars

(***************************************************************************)
(* Threads run, the operator reruns live_enroll.py, which asks for claims  *)
(* and has them presented, and a certificate that arrives is stored.       *)
(***************************************************************************)
Fairness ==
  /\ WF_vars(ServeAdmin)
  /\ \A r \in Request :
       WF_vars(Serve(r)) /\ WF_vars(ReceiveCertificate(r)) /\ SF_vars(BeginEnroll(r))
  /\ \A c \in Claim : SF_vars(AdminBegin([does |-> "create", claim |-> c]))
FairSpec == Spec /\ Fairness

-----------------------------------------------------------------------------
Promise == INSTANCE AtomicEnrollment WITH ledger <- committed

(***************************************************************************)
(* On disk, every operation happens at once or not at all: "any exception  *)
(* rolls back the claim, nonce session, certificate and device update      *)
(* together" (ztp_store.py:89-91).  It holds while one thread works at a   *)
(* time, whatever fails and crashes in between.                            *)
(***************************************************************************)
ImplementsAtomicEnrollment == Promise!Spec

(***************************************************************************)
(* An edge that was answered with a certificate finds it on record: no     *)
(* answer is given for a transaction that was undone.                      *)
(***************************************************************************)
AnsweredIsRecorded ==
  \A r \in Request : request[r] = "answered" => committed.certificate[r] # "NONE"

(***************************************************************************)
(* Whatever the threads do to each other's transactions, what is on disk   *)
(* is never taken back: a claim that is consumed, cancelled or expired is  *)
(* never good again, a consumed one stays so unless it lapsed in time for  *)
(* another thread to find it expired, a certificate stays on record, a     *)
(* revoked one revoked, and no device returns to STAGED.                   *)
(***************************************************************************)
Spent == {"CONSUMED", "CANCELLED", "EXPIRED"}

Keeps(old, new) ==
  /\ \A c \in Claim :
       /\ old.claim[c] \in Spent => new.claim[c] \in Spent
       /\ old.claim[c] = "CONSUMED" =>
            new.claim[c] = "CONSUMED" \/ (new.claim[c] = "EXPIRED" /\ c \in lapsed)
  /\ \A r \in Request :
       /\ old.certificate[r] # "NONE" => new.certificate[r] # "NONE"
       /\ old.certificate[r] = "REVOKED" => new.certificate[r] = "REVOKED"
  /\ \A d \in Device :
       old.device[d] \in {"ACTIVE", "REVOKED"} => new.device[d] \in {"ACTIVE", "REVOKED"}

CommittedIsKept == [][Keeps(committed, committed')]_vars

(***************************************************************************)
(* Rerunning the enrollment as often as it takes, a claim that was handed  *)
(* out ends with its device holding a certificate, whatever fails and      *)
(* crashes on the way, unless it is cancelled or lapses first, or the one  *)
(* answer that carries the certificate is lost.  After a lost answer       *)
(* nothing helps: the claim is consumed, the device no longer STAGED, and  *)
(* no further claim is made for it.                                        *)
(***************************************************************************)
AnswerWasLost(c) ==
  \E r \in Request :
    r[1] = c /\ request[r] = "ended" /\ committed.certificate[r] # "NONE"
ClaimsPay ==
  \A c \in Claim :
    c \in handed ~> \/ Holder[c] \in held
                    \/ AnswerWasLost(c)
                    \/ committed.claim[c] = "CANCELLED"
                    \/ c \in lapsed
=============================================================================
