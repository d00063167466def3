------------------------ MODULE ZtpEnrollmentProofs -------------------------
(***************************************************************************)
(* Theorems about ZtpEnrollment for any devices, claims, attempts, lapses  *)
(* and failures: what is on disk is kept however many threads work on the  *)
(* one connection, and while one works at a time every operation is        *)
(* atomic.                                                                 *)
(***************************************************************************)
EXTENDS ZtpEnrollment, FiniteSetTheorems, TLAPS

-----------------------------------------------------------------------------
(***************************************************************************)
(* What the connection sees goes beyond what is on disk and takes none of  *)
(* it back; a certificate is stored once, and a claim is marked expired    *)
(* only after it has lapsed.                                               *)
(***************************************************************************)
NotStored == {"idle", "check", "issue", "certificate"}

DatabaseSound ==
  /\ rows \in Ledger /\ committed \in Ledger /\ open \in BOOLEAN
  /\ ~open => rows = committed
  /\ Keeps(committed, rows)

NotStoredYet ==
  \A r \in Request : request[r] \in NotStored => rows.certificate[r] = "NONE"

ThreadsTyped ==
  /\ request \in [Request -> RequestStep]
  /\ admin \in {Resting} \cup [step : AdminStep, operation : Operation]
  /\ admin.step = "device" => admin.operation.does = "revoke"
  /\ handed \subseteq Claim /\ held \subseteq Device /\ lapsed \subseteq MayLapse
  /\ failures \in 0..Failures

ExpiredLapsed == \A r \in Request : request[r] = "expire" => r[1] \in lapsed

Onward == DatabaseSound /\ ThreadsTyped /\ NotStoredYet /\ ExpiredLapsed

(***************************************************************************)
(* Two ledgers, the second of which is the first after one operation of    *)
(* AtomicEnrollment, or none.                                              *)
(***************************************************************************)
Same(old, new) ==
  new.device = old.device /\ new.claim = old.claim /\ new.certificate = old.certificate

Certified(old, new, r, state) == new.certificate = [old.certificate EXCEPT ![r] = state]
Claimed(old, new, c, state) == new.claim = [old.claim EXCEPT ![c] = state]
Marked(old, new, d, state) == new.device = [old.device EXCEPT ![d] = state]

Staged(old, new, d) ==
  old.device[d] = "UNKNOWN" /\ Marked(old, new, d, "STAGED")
    /\ new.claim = old.claim /\ new.certificate = old.certificate

Created(old, new, c) ==
  old.device[Holder[c]] = "STAGED" /\ old.claim[c] = "NONE" /\ Claimed(old, new, c, "ACTIVE")
    /\ new.device = old.device /\ new.certificate = old.certificate

Cancelled(old, new, c) ==
  old.claim[c] = "ACTIVE" /\ Claimed(old, new, c, "CANCELLED")
    /\ new.device = old.device /\ new.certificate = old.certificate

Enrolled(old, new, r) ==
  /\ old.claim[r[1]] = "ACTIVE"
  /\ Certified(old, new, r, "ACTIVE") /\ Claimed(old, new, r[1], "CONSUMED")
  /\ Marked(old, new, Holder[r[1]], "ACTIVE")

Revoked(old, new, r) ==
  /\ old.certificate[r] # "NONE"
  /\ Certified(old, new, r, "REVOKED") /\ new.claim = old.claim
  /\ Marked(old, new, Holder[r[1]], "REVOKED")

Atomic(old, new) ==
  \/ Same(old, new)
  \/ \E d \in Device : Staged(old, new, d)
  \/ \E c \in Claim : Created(old, new, c) \/ Cancelled(old, new, c)
  \/ \E r \in Request : Enrolled(old, new, r) \/ Revoked(old, new, r)

(***************************************************************************)
(* One thread at a time: how far it is with its transaction.               *)
(***************************************************************************)
Alone ==
  \A r \in Working : admin.step = "idle" /\ \A q \in Working : q = r

Nobody == Working = {} /\ admin.step = "idle"

EnrollsAt(r) ==
  /\ request[r] \in {"check", "issue", "certificate", "abort", "expire", "recording"} =>
       open /\ Same(committed, rows)
  /\ request[r] \in {"issue", "certificate", "consume", "activate"} =>
       committed.claim[r[1]] = "ACTIVE"
  /\ request[r] \in {"consume", "activate"} =>
       open /\ Certified(committed, rows, r, "ACTIVE") /\ rows.device = committed.device
  /\ request[r] = "consume" => rows.claim = committed.claim
  /\ request[r] = "activate" => Claimed(committed, rows, r[1], "CONSUMED")
  /\ request[r] = "commit" =>
       open /\ Atomic(committed, rows) /\ rows.certificate[r] # "NONE"
  /\ request[r] = "reject" => open
  /\ request[r] = "record" => ~open

AdminAt ==
  /\ admin.step # "idle" => open
  /\ admin.step \in {"execute", "abort"} => Same(committed, rows)
  /\ admin.step = "device" =>
       \E r \in Request :
         /\ admin.operation = [does |-> "revoke", request |-> r]
         /\ committed.certificate[r] # "NONE"
         /\ Certified(committed, rows, r, "REVOKED")
         /\ rows.claim = committed.claim /\ rows.device = committed.device
  /\ admin.step = "commit" => Atomic(committed, rows)

Undisturbed ==
  /\ Onward /\ AnsweredIsRecorded
  /\ Alone
  /\ Nobody => ~open
  /\ \A r \in Request : EnrollsAt(r)
  /\ AdminAt

-----------------------------------------------------------------------------
(***************************************************************************)
(* The three things a step does to the database.                           *)
(***************************************************************************)
LEMMA LeavesRows ==
  ASSUME DatabaseSound, rows' = rows, committed' = committed,
         open' = open \/ open' = TRUE, lapsed \subseteq lapsed'
  PROVE  DatabaseSound' /\ Keeps(committed, committed')
BY DEF DatabaseSound, Keeps

LEMMA Executes ==
  ASSUME DatabaseSound, lapsed' = lapsed,
         NEW new \in Ledger, Keeps(committed, new), Execute(new)
  PROVE  DatabaseSound' /\ Keeps(committed, committed')
BY DEF DatabaseSound, Execute, Keeps

LEMMA EndsTransaction ==
  ASSUME DatabaseSound, lapsed' = lapsed, CommitAny \/ RollbackAny
  PROVE  /\ DatabaseSound' /\ Keeps(committed, committed')
         /\ \A r \in Request : rows.certificate[r] = "NONE" => rows'.certificate[r] = "NONE"
BY DEF DatabaseSound, CommitAny, RollbackAny, Keeps

(***************************************************************************)
(* The statements, one by one, take nothing back.                          *)
(***************************************************************************)
LEMMA LedgerFields ==
  ASSUME NEW l \in Ledger
  PROVE  /\ l.device \in [Device -> {"UNKNOWN", "STAGED", "ACTIVE", "REVOKED"}]
         /\ l.claim \in [Claim -> {"NONE", "ACTIVE", "CONSUMED", "CANCELLED", "EXPIRED"}]
         /\ l.certificate \in [Request -> {"NONE", "ACTIVE", "REVOKED"}]
BY DEF Ledger

LEMMA Marks ==
  ASSUME DatabaseSound, NEW d \in Device, NEW state \in {"STAGED", "ACTIVE", "REVOKED"},
         state = "STAGED" => rows.device[d] = "UNKNOWN"
  PROVE  /\ [rows EXCEPT !.device[d] = state] \in Ledger
         /\ Keeps(committed, [rows EXCEPT !.device[d] = state])
<1> DEFINE new == [rows EXCEPT !.device[d] = state]
<1>1. new \in Ledger /\ new.claim = rows.claim /\ new.certificate = rows.certificate
  BY DEF DatabaseSound, Ledger
<1>2. \A e \in Device : new.device[e] = IF e = d THEN state ELSE rows.device[e]
  BY LedgerFields DEF DatabaseSound, Ledger
<1> HIDE DEF new
<1>3. Keeps(committed, new)
  BY <1>1, <1>2 DEF DatabaseSound, Keeps
<1> QED
  BY <1>1, <1>3 DEF new

LEMMA Claims ==
  ASSUME DatabaseSound, NEW c \in Claim, NEW state \in {"ACTIVE", "CONSUMED", "CANCELLED", "EXPIRED"},
         state = "ACTIVE" => rows.claim[c] = "NONE",
         state = "CANCELLED" => rows.claim[c] = "ACTIVE",
         state = "EXPIRED" => c \in lapsed
  PROVE  /\ [rows EXCEPT !.claim[c] = state] \in Ledger
         /\ Keeps(committed, [rows EXCEPT !.claim[c] = state])
<1> DEFINE new == [rows EXCEPT !.claim[c] = state]
<1>1. new \in Ledger /\ new.device = rows.device /\ new.certificate = rows.certificate
  BY DEF DatabaseSound, Ledger
<1>2. \A b \in Claim : new.claim[b] = IF b = c THEN state ELSE rows.claim[b]
  BY LedgerFields DEF DatabaseSound, Ledger
<1> HIDE DEF new
<1>3. Keeps(committed, new)
  BY <1>1, <1>2 DEF DatabaseSound, Keeps, Spent
<1> QED
  BY <1>1, <1>3 DEF new

LEMMA Certifies ==
  ASSUME DatabaseSound, NEW r \in Request, NEW state \in {"ACTIVE", "REVOKED"},
         state = "ACTIVE" => rows.certificate[r] = "NONE"
  PROVE  /\ [rows EXCEPT !.certificate[r] = state] \in Ledger
         /\ Keeps(committed, [rows EXCEPT !.certificate[r] = state])
         /\ \A q \in Request : [rows EXCEPT !.certificate[r] = state].certificate[q]
                                 = IF q = r THEN state ELSE rows.certificate[q]
<1> DEFINE new == [rows EXCEPT !.certificate[r] = state]
<1>1. new \in Ledger /\ new.device = rows.device /\ new.claim = rows.claim
  BY DEF DatabaseSound, Ledger
<1>2. \A q \in Request : new.certificate[q] = IF q = r THEN state ELSE rows.certificate[q]
  BY LedgerFields DEF DatabaseSound, Ledger
<1> HIDE DEF new
<1>3. Keeps(committed, new)
  BY <1>1, <1>2 DEF DatabaseSound, Keeps
<1> QED
  BY <1>1, <1>2, <1>3 DEF new

-----------------------------------------------------------------------------
(***************************************************************************)
(* Onward is kept by every step, and with it what is on disk.              *)
(***************************************************************************)
LEMMA Requested ==
  ASSUME NEW r \in Request
  PROVE  r[1] \in Claim /\ Holder[r[1]] \in Device
BY EnrollmentAssumption DEF Request

LEMMA OperationFields ==
  ASSUME NEW o \in Operation
  PROVE  /\ o.does \in {"stage", "create", "cancel", "revoke"}
         /\ o.does = "stage" => o.device \in Device
         /\ o.does \in {"create", "cancel"} => o.claim \in Claim /\ Holder[o.claim] \in Device
         /\ o.does = "revoke" => o.request \in Request /\ o = [does |-> "revoke", request |-> o.request]
BY EnrollmentAssumption DEF Operation

(***************************************************************************)
(* A request goes on: its thread alone moves.                              *)
(***************************************************************************)
LEMMA GoesOn ==
  ASSUME ThreadsTyped, ExpiredLapsed, NEW r \in Request, NEW step, NEW next \in RequestStep,
         Goes(r, step, next), next = "expire" => r[1] \in lapsed,
         next \in NotStored => step \in NotStored
  PROVE  /\ ThreadsTyped' /\ ExpiredLapsed'
         /\ lapsed' = lapsed /\ request[r] = step /\ request'[r] = next
         /\ \A q \in Request : q # r => request'[q] = request[q]
         /\ \A q \in Request : request'[q] \in NotStored => request[q] \in NotStored
<1>1. request' = [request EXCEPT ![r] = next] /\ request[r] = step /\ lapsed' = lapsed
  BY DEF Goes
<1>2. request \in [Request -> RequestStep]
  BY DEF ThreadsTyped
<1>3. \A q \in Request : request'[q] = IF q = r THEN next ELSE request[q]
  BY <1>1, <1>2
<1>4. request' \in [Request -> RequestStep]
  BY <1>1, <1>2
<1>5. ThreadsTyped'
  BY <1>4 DEF ThreadsTyped, Goes, clients
<1> QED
  BY <1>1, <1>3, <1>5 DEF ExpiredLapsed

LEMMA OnwardRequest ==
  ASSUME Onward, NEW r \in Request, BeginEnroll(r) \/ Serve(r)
  PROVE  Onward' /\ Keeps(committed, committed')
<1>0. DatabaseSound /\ ThreadsTyped /\ NotStoredYet /\ ExpiredLapsed
  BY DEF Onward
<1>a. r[1] \in Claim /\ Holder[r[1]] \in Device
  BY Requested
<1> DEFINE Moved == ThreadsTyped' /\ ExpiredLapsed' /\ lapsed' = lapsed
                      /\ \A q \in Request : request'[q] \in NotStored => request[q] \in NotStored
<1>q. ASSUME Moved, rows' = rows, committed' = committed, open' = open \/ open' = TRUE
      PROVE  Onward' /\ Keeps(committed, committed')
  <2>1. DatabaseSound' /\ Keeps(committed, committed')
    BY <1>0, <1>q, LeavesRows
  <2>2. NotStoredYet'
    BY <1>0, <1>q DEF NotStoredYet
  <2> QED
    BY <1>q, <2>1, <2>2 DEF Onward
<1>e. ASSUME Moved, CommitAny \/ RollbackAny
      PROVE  Onward' /\ Keeps(committed, committed')
  <2>1. /\ DatabaseSound' /\ Keeps(committed, committed')
        /\ \A q \in Request : rows.certificate[q] = "NONE" => rows'.certificate[q] = "NONE"
    BY <1>0, <1>e, EndsTransaction
  <2>2. NotStoredYet'
    BY <1>0, <1>e, <2>1 DEF NotStoredYet
  <2> QED
    BY <1>e, <2>1, <2>2 DEF Onward
<1> USE DEF RequestStep, Writing, Failing, NotStored
<1>1. CASE BeginEnroll(r)
  <2>1. PICK next \in {"check", "abort"} : Goes(r, "idle", next)
    BY <1>1 DEF BeginEnroll
  <2>2. Moved
    BY <1>0, <2>1, GoesOn
  <2> QED
    BY <1>1, <1>q, <2>2 DEF BeginEnroll, OpenTransaction, database
<1>2. CASE CheckClaim(r)
  <2>1. PICK next \in {"reject", "expire", "issue"} :
          Goes(r, "check", next) /\ (next = "expire" => r[1] \in lapsed)
    BY <1>2 DEF CheckClaim
  <2>2. Moved
    BY <1>0, <2>1, GoesOn
  <2> QED
    BY <1>2, <1>q, <2>2 DEF CheckClaim, database
<1>3. CASE ExpireClaim(r)
  <2>1. Moved /\ r[1] \in lapsed
    BY <1>0, <1>3, GoesOn DEF ExpireClaim, ExpiredLapsed
  <2>2. /\ [rows EXCEPT !.claim[r[1]] = "EXPIRED"] \in Ledger
        /\ Keeps(committed, [rows EXCEPT !.claim[r[1]] = "EXPIRED"])
    BY <1>0, <1>a, <2>1, Claims
  <2>3. DatabaseSound' /\ Keeps(committed, committed')
    BY <1>0, <1>3, <2>1, <2>2, Executes DEF ExpireClaim
  <2>4. rows'.certificate = rows.certificate
    BY <1>0, <1>3 DEF ExpireClaim, Execute, DatabaseSound, Ledger
  <2> QED
    BY <1>0, <2>1, <2>3, <2>4 DEF Onward, NotStoredYet
<1>4. CASE Issue(r)
  <2>1. Moved
    BY <1>0, <1>4, GoesOn DEF Issue
  <2> QED
    BY <1>4, <1>q, <2>1 DEF Issue, database
<1>5. CASE StoreCertificate(r)
  <2>1. Moved /\ request[r] = "certificate" /\ request'[r] = "consume"
    BY <1>0, <1>5, GoesOn DEF StoreCertificate
  <2>2. rows.certificate[r] = "NONE"
    BY <1>0, <2>1 DEF NotStoredYet
  <2>3. /\ [rows EXCEPT !.certificate[r] = "ACTIVE"] \in Ledger
        /\ Keeps(committed, [rows EXCEPT !.certificate[r] = "ACTIVE"])
        /\ \A q \in Request : [rows EXCEPT !.certificate[r] = "ACTIVE"].certificate[q]
                                = IF q = r THEN "ACTIVE" ELSE rows.certificate[q]
    BY <1>0, <2>2, Certifies
  <2>4. DatabaseSound' /\ Keeps(committed, committed')
    BY <1>0, <1>5, <2>1, <2>3, Executes DEF StoreCertificate
  <2>5. \A q \in Request : q # r => rows'.certificate[q] = rows.certificate[q]
    BY <1>5, <2>3 DEF StoreCertificate, Execute
  <2>6. NotStoredYet'
    BY <1>0, <2>1, <2>5 DEF NotStoredYet
  <2> QED
    BY <2>1, <2>4, <2>6 DEF Onward
<1>6. CASE ConsumeClaim(r)
  <2>1. Moved
    BY <1>0, <1>6, GoesOn DEF ConsumeClaim
  <2>2. /\ [rows EXCEPT !.claim[r[1]] = "CONSUMED"] \in Ledger
        /\ Keeps(committed, [rows EXCEPT !.claim[r[1]] = "CONSUMED"])
    BY <1>0, <1>a, Claims
  <2>3. DatabaseSound' /\ Keeps(committed, committed')
    BY <1>0, <1>6, <2>1, <2>2, Executes DEF ConsumeClaim
  <2>4. rows'.certificate = rows.certificate
    BY <1>0, <1>6 DEF ConsumeClaim, Execute, DatabaseSound, Ledger
  <2> QED
    BY <1>0, <2>1, <2>3, <2>4 DEF Onward, NotStoredYet
<1>7. CASE ActivateDevice(r)
  <2>1. Moved
    BY <1>0, <1>7, GoesOn DEF ActivateDevice
  <2>2. /\ [rows EXCEPT !.device[Holder[r[1]]] = "ACTIVE"] \in Ledger
        /\ Keeps(committed, [rows EXCEPT !.device[Holder[r[1]]] = "ACTIVE"])
    BY <1>0, <1>a, Marks
  <2>3. DatabaseSound' /\ Keeps(committed, committed')
    BY <1>0, <1>7, <2>1, <2>2, Executes DEF ActivateDevice
  <2>4. rows'.certificate = rows.certificate
    BY <1>0, <1>7 DEF ActivateDevice, Execute, DatabaseSound, Ledger
  <2> QED
    BY <1>0, <2>1, <2>3, <2>4 DEF Onward, NotStoredYet
<1>8. CASE CommitEnroll(r)
  <2>1. PICK next \in {"answered", "ended"} : Goes(r, "commit", next)
    BY <1>8 DEF CommitEnroll
  <2>2. Moved
    BY <1>0, <2>1, GoesOn
  <2> QED
    BY <1>8, <1>q, <1>e, <2>2 DEF CommitEnroll, database
<1>9. CASE RollBack(r) \/ RecordAttempt(r)
  <2>1. PICK step \in {"abort", "reject", "record", "recording"},
             next \in {"ended", "record", "recording", "abort"} : Goes(r, step, next)
    BY <1>9 DEF RollBack, RecordAttempt
  <2>2. Moved
    BY <1>0, <2>1, GoesOn
  <2> QED
    BY <1>9, <1>q, <1>e, <2>2 DEF RollBack, RecordAttempt, OpenTransaction, database
<1> QED
  BY <1>1, <1>2, <1>3, <1>4, <1>5, <1>6, <1>7, <1>8, <1>9 DEF Serve

LEMMA OnwardClient ==
  ASSUME Onward, NEW r \in Request, ReceiveCertificate(r) \/ IssuerFails(r) \/ AnswerLost(r)
  PROVE  Onward' /\ Keeps(committed, committed')
<1>1. DatabaseSound' /\ Keeps(committed, committed')
  BY LeavesRows DEF Onward, ReceiveCertificate, IssuerFails, AnswerLost, CountFailure, database
<1>2. PICK next \in {"ended", "abort"} :
        request' = [request EXCEPT ![r] = next] /\ lapsed' = lapsed /\ rows' = rows
  BY DEF ReceiveCertificate, IssuerFails, AnswerLost, CountFailure, database
<1>3. ThreadsTyped'
  <2>1. request' \in [Request -> RequestStep]
    BY <1>2 DEF Onward, ThreadsTyped, RequestStep, Failing
  <2>2. held' \subseteq Device /\ handed' = handed /\ admin' = admin
    BY Requested
    DEF Onward, ThreadsTyped, ReceiveCertificate, IssuerFails, AnswerLost, CountFailure, clients
  <2>3. failures' \in 0..Failures
    BY EnrollmentAssumption
    DEF Onward, ThreadsTyped, ReceiveCertificate, IssuerFails, AnswerLost, CountFailure
  <2> QED
    BY <1>2, <2>1, <2>2, <2>3 DEF Onward, ThreadsTyped
<1>4. NotStoredYet' /\ ExpiredLapsed'
  BY <1>2 DEF Onward, NotStoredYet, ExpiredLapsed, ThreadsTyped, NotStored
<1> QED
  BY <1>1, <1>3, <1>4 DEF Onward

LEMMA OnwardAdmin ==
  ASSUME Onward, (\E o \in Operation : AdminBegin(o)) \/ ServeAdmin
  PROVE  Onward' /\ Keeps(committed, committed')
<1>0. DatabaseSound /\ ThreadsTyped /\ NotStoredYet /\ ExpiredLapsed
  BY DEF Onward
<1> DEFINE Moved == ThreadsTyped' /\ request' = request /\ lapsed' = lapsed
<1>q. ASSUME Moved, rows' = rows, committed' = committed, open' = open \/ open' = TRUE
      PROVE  Onward' /\ Keeps(committed, committed')
  <2>1. DatabaseSound' /\ Keeps(committed, committed')
    BY <1>0, <1>q, LeavesRows
  <2> QED
    BY <1>0, <1>q, <2>1 DEF Onward, NotStoredYet, ExpiredLapsed
<1>e. ASSUME Moved, CommitAny \/ RollbackAny
      PROVE  Onward' /\ Keeps(committed, committed')
  <2>1. /\ DatabaseSound' /\ Keeps(committed, committed')
        /\ \A q \in Request : rows.certificate[q] = "NONE" => rows'.certificate[q] = "NONE"
    BY <1>0, <1>e, EndsTransaction
  <2> QED
    BY <1>0, <1>e, <2>1 DEF Onward, NotStoredYet, ExpiredLapsed
<1>w. ASSUME Moved, NEW new \in Ledger, Keeps(committed, new), Execute(new),
             \A q \in Request : rows.certificate[q] = "NONE" => new.certificate[q] = "NONE"
      PROVE  Onward' /\ Keeps(committed, committed')
  <2>1. DatabaseSound' /\ Keeps(committed, committed')
    BY <1>0, <1>w, Executes
  <2>2. rows' = new
    BY <1>w DEF Execute
  <2> QED
    BY <1>0, <1>w, <2>1, <2>2 DEF Onward, NotStoredYet, ExpiredLapsed
<1>m. ASSUME NEW step, NEW next \in AdminStep \cup {"idle"}, AdminGoes(step, next),
             step # "idle", handed' \subseteq Claim,
             next = "device" => admin.operation.does = "revoke"
      PROVE  Moved
  <2>1. admin \in [step : AdminStep, operation : Operation]
    BY <1>0, <1>m DEF ThreadsTyped, Resting, AdminGoes
  <2>2. /\ admin' \in {Resting} \cup [step : AdminStep, operation : Operation]
        /\ admin'.step = "device" => admin'.operation.does = "revoke"
    BY <1>m, <2>1 DEF AdminGoes, Resting
  <2> QED
    BY <1>0, <1>m, <2>2 DEF ThreadsTyped, AdminGoes
<1>h. handed \subseteq Claim
  BY <1>0 DEF ThreadsTyped
<1>1. ASSUME NEW o \in Operation, AdminBegin(o)
      PROVE  Onward' /\ Keeps(committed, committed')
  <2>1. Moved
    BY <1>0, <1>1 DEF AdminBegin, ThreadsTyped, AdminStep, clients
  <2> QED
    BY <1>1, <1>q, <2>1 DEF AdminBegin, OpenTransaction, database
<1> DEFINE o == admin.operation
<1>o. admin.step # "idle" => o \in Operation
  BY <1>0 DEF ThreadsTyped, Resting
<1>2. CASE AdminExecute /\ Permitted(o)
  <2>1. Execute(Result(o)) /\ AdminGoes("execute", IF o.does = "revoke" THEN "device" ELSE "commit")
          /\ handed' = handed
    BY <1>2 DEF AdminExecute
  <2>2. Moved
    BY <1>m, <1>h, <2>1 DEF AdminStep
  <2>3. o \in Operation
    BY <1>o, <2>1 DEF AdminGoes
  <2>4. /\ Result(o) \in Ledger /\ Keeps(committed, Result(o))
        /\ \A q \in Request : rows.certificate[q] = "NONE" => Result(o).certificate[q] = "NONE"
    <3>1. CASE o.does = "stage"
      <4>1. o.device \in Device /\ Result(o) = Stage(o.device)
        BY <2>3, <3>1, OperationFields DEF Result
      <4>2. CASE rows.device[o.device] = "UNKNOWN"
        <5>1. Result(o) = [rows EXCEPT !.device[o.device] = "STAGED"]
          BY <4>1, <4>2 DEF Stage
        <5>2. Result(o).certificate = rows.certificate
          BY <1>0, <5>1 DEF DatabaseSound, Ledger
        <5> QED
          BY <1>0, <4>1, <4>2, <5>1, <5>2, Marks
      <4>3. CASE rows.device[o.device] # "UNKNOWN"
        <5>1. Result(o) = rows
          BY <1>0, <4>1, <4>3 DEF Stage, DatabaseSound, Ledger
        <5> QED
          BY <1>0, <5>1 DEF DatabaseSound
      <4> QED
        BY <4>2, <4>3
    <3>2. ASSUME NEW state \in {"ACTIVE", "CANCELLED"}, o.claim \in Claim,
                 state = "ACTIVE" => rows.claim[o.claim] = "NONE",
                 state = "CANCELLED" => rows.claim[o.claim] = "ACTIVE",
                 Result(o) = [rows EXCEPT !.claim[o.claim] = state]
          PROVE  /\ Result(o) \in Ledger /\ Keeps(committed, Result(o))
                 /\ Result(o).certificate = rows.certificate
      <4>1. Result(o).certificate = rows.certificate
        BY <1>0, <3>2 DEF DatabaseSound, Ledger
      <4> QED
        BY <1>0, <3>2, <4>1, Claims
    <3>3. CASE o.does = "create"
      BY <1>2, <2>3, <3>2, <3>3, OperationFields DEF Result, Permitted
    <3>4. CASE o.does = "cancel"
      BY <1>2, <2>3, <3>2, <3>4, OperationFields DEF Result, Permitted
    <3>5. CASE o.does = "revoke"
      <4>1. /\ o.request \in Request /\ rows.certificate[o.request] # "NONE"
            /\ Result(o) = [rows EXCEPT !.certificate[o.request] = "REVOKED"]
        BY <1>2, <2>3, <3>5, OperationFields DEF Result, Permitted
      <4>2. /\ [rows EXCEPT !.certificate[o.request] = "REVOKED"] \in Ledger
            /\ Keeps(committed, [rows EXCEPT !.certificate[o.request] = "REVOKED"])
            /\ \A q \in Request : [rows EXCEPT !.certificate[o.request] = "REVOKED"].certificate[q]
                                    = IF q = o.request THEN "REVOKED" ELSE rows.certificate[q]
        BY <1>0, <4>1, Certifies
      <4>3. \A q \in Request : Result(o).certificate[q]
                                = IF q = o.request THEN "REVOKED" ELSE rows.certificate[q]
        BY <4>1, <4>2
      <4> QED
        BY <4>1, <4>2, <4>3
    <3> QED
      BY <2>3, <3>1, <3>3, <3>4, <3>5, OperationFields
  <2> QED
    BY <1>w, <2>1, <2>2, <2>4
<1>3. CASE AdminExecute /\ ~Permitted(o)
  <2>1. Moved
    BY <1>3, <1>m, <1>h DEF AdminExecute, AdminStep
  <2> QED
    BY <1>3, <1>q, <2>1 DEF AdminExecute, database
<1>4. CASE AdminRevokeDevice
  <2>1. Moved
    BY <1>4, <1>m, <1>h DEF AdminRevokeDevice, AdminStep
  <2>2. o.request \in Request /\ Holder[o.request[1]] \in Device
    BY <1>0, <1>4, <1>o, OperationFields, Requested DEF AdminRevokeDevice, AdminGoes, ThreadsTyped
  <2> DEFINE new == [rows EXCEPT !.device[Holder[o.request[1]]] = "REVOKED"]
  <2>3. new \in Ledger /\ Keeps(committed, new)
    BY <1>0, <2>2, Marks
  <2>4. new.certificate = rows.certificate
    BY <1>0 DEF DatabaseSound, Ledger
  <2>5. Execute(new)
    BY <1>4 DEF AdminRevokeDevice
  <2> HIDE DEF new
  <2> QED
    BY <1>w, <2>1, <2>3, <2>4, <2>5
<1>5. CASE AdminCommit
  <2>1. Moved
    BY <1>5, <1>m, <1>h, <1>o, OperationFields DEF AdminCommit, AdminStep, AdminGoes
  <2> QED
    BY <1>5, <1>q, <1>e, <2>1 DEF AdminCommit, database
<1>6. CASE AdminRollBack
  <2>1. Moved
    BY <1>6, <1>m, <1>h DEF AdminRollBack, AdminStep
  <2> QED
    BY <1>6, <1>q, <1>e, <2>1 DEF AdminRollBack, database
<1> QED
  BY <1>1, <1>2, <1>3, <1>4, <1>5, <1>6 DEF ServeAdmin

LEMMA OnwardNext ==
  ASSUME Onward, [Next]_vars
  PROVE  Onward' /\ Keeps(committed, committed')
<1>1. ASSUME NEW c \in Claim, Lapse(c)
      PROVE  Onward' /\ Keeps(committed, committed')
  <2>1. DatabaseSound' /\ Keeps(committed, committed')
    BY <1>1, LeavesRows DEF Onward, Lapse, database
  <2> QED
    BY <1>1, <2>1, EnrollmentAssumption
    DEF Onward, Lapse, database, clients, ThreadsTyped, NotStoredYet, ExpiredLapsed
<1>2. CASE ServiceCrash
  <2>1. /\ DatabaseSound' /\ Keeps(committed, committed')
        /\ \A q \in Request : rows.certificate[q] = "NONE" => rows'.certificate[q] = "NONE"
    BY <1>2, EndsTransaction DEF Onward, ServiceCrash, CountFailure
  <2>2. \A r \in Request : request'[r] \in {request[r], "ended"}
    BY <1>2 DEF ServiceCrash
  <2>3. request' \in [Request -> RequestStep]
    BY <1>2, <2>2 DEF Onward, ServiceCrash, ThreadsTyped, RequestStep
  <2>4. ThreadsTyped'
    BY <1>2, <2>3, EnrollmentAssumption
    DEF Onward, ServiceCrash, CountFailure, clients, ThreadsTyped, Resting
  <2>5. NotStoredYet' /\ ExpiredLapsed'
    BY <1>2, <2>1, <2>2
    DEF Onward, ServiceCrash, CountFailure, NotStoredYet, ExpiredLapsed, NotStored
  <2> QED
    BY <2>1, <2>4, <2>5 DEF Onward
<1>3. CASE UNCHANGED vars
  BY <1>3, LeavesRows
  DEF Onward, vars, database, clients, DatabaseSound, ThreadsTyped, NotStoredYet, ExpiredLapsed, Keeps
<1> QED
  BY <1>1, <1>2, <1>3, OnwardRequest, OnwardClient, OnwardAdmin DEF Next

LEMMA OnwardInit == Init => Onward
<1> SUFFICES ASSUME Init PROVE Onward
  OBVIOUS
<1>1. NewRows \in Ledger
  BY DEF NewRows, Ledger
<1>2. DatabaseSound /\ NotStoredYet
  BY <1>1 DEF Init, DatabaseSound, NotStoredYet, Keeps, NewRows
<1>3. ThreadsTyped /\ ExpiredLapsed
  BY EnrollmentAssumption DEF Init, ThreadsTyped, RequestStep, Resting, ExpiredLapsed
<1> QED
  BY <1>2, <1>3 DEF Onward

(***************************************************************************)
(* What is committed is never taken back, whatever the threads do to each  *)
(* other's transactions.                                                   *)
(***************************************************************************)
THEOREM SpecCommittedIsKept == Spec => CommittedIsKept
<1>1. Onward /\ [Next]_vars => Onward'
  BY OnwardNext
<1>2. Onward /\ [Next]_vars => [Keeps(committed, committed')]_vars
  BY OnwardNext
<1> QED
  BY <1>1, <1>2, OnwardInit, PTL DEF Spec, CommittedIsKept

-----------------------------------------------------------------------------
(***************************************************************************)
(* One thread at a time.                                                   *)
(***************************************************************************)
Serial == Parallel <= 1

LEMMA MayStartAlone ==
  ASSUME Serial, Undisturbed, MayStart
  PROVE  Nobody
<1>1. Parallel \in Nat /\ Busy < Parallel
  BY EnrollmentAssumption DEF MayStart
<1>2. CASE Working = {}
  <2>1. Cardinality(Working) = 0
    BY <1>2, FS_EmptySet
  <2> QED
    BY <1>1, <1>2, <2>1 DEF Serial, Busy, Nobody
<1>3. CASE Working # {}
  <2>1. PICK r \in Working : TRUE
    BY <1>3
  <2>2. Working = {r} /\ admin.step = "idle"
    BY <2>1 DEF Undisturbed, Alone
  <2>3. Cardinality(Working) = 1
    BY <2>2, FS_Singleton
  <2> QED
    BY <1>1, <2>2, <2>3 DEF Serial, Busy
<1> QED
  BY <1>2, <1>3

LEMMA FieldsWritten ==
  ASSUME NEW l \in Ledger
  PROVE  /\ \A d, x : LET new == [l EXCEPT !.device[d] = x] IN
              Marked(l, new, d, x) /\ new.claim = l.claim /\ new.certificate = l.certificate
         /\ \A c, x : LET new == [l EXCEPT !.claim[c] = x] IN
              Claimed(l, new, c, x) /\ new.device = l.device /\ new.certificate = l.certificate
         /\ \A r, x : LET new == [l EXCEPT !.certificate[r] = x] IN
              Certified(l, new, r, x) /\ new.device = l.device /\ new.claim = l.claim
BY DEF Ledger, Marked, Claimed, Certified

(***************************************************************************)
(* The turn of a request, of the administrator, and of neither.            *)
(***************************************************************************)
LEMMA RequestTurn ==
  ASSUME Undisturbed, Onward', Keeps(committed, committed'),
         NEW r \in Request, admin' = admin, admin.step = "idle",
         \A q \in Request : q # r => q \notin Working /\ request'[q] = request[q],
         EnrollsAt(r)',
         request'[r] \in {"idle", "answered", "ended"} => ~open',
         request'[r] = "answered" => committed'.certificate[r] # "NONE"
  PROVE  Undisturbed'
<1>1. \A q \in Request : q # r => request'[q] \in {"idle", "answered", "ended"}
  BY DEF Working
<1>2. Working' \subseteq {r}
  BY <1>1 DEF Working
<1>3. Alone' /\ (Nobody => ~open)'
  BY <1>2 DEF Alone, Nobody, Working
<1>4. \A q \in Request : EnrollsAt(q)'
  BY <1>1 DEF EnrollsAt
<1>5. AdminAt'
  BY DEF AdminAt
<1>6. AnsweredIsRecorded'
  BY DEF Undisturbed, AnsweredIsRecorded, Keeps
<1> QED
  BY <1>3, <1>4, <1>5, <1>6 DEF Undisturbed

LEMMA AdminTurn ==
  ASSUME Undisturbed, Onward', Keeps(committed, committed'),
         Working = {}, request' = request,
         AdminAt', admin'.step = "idle" => ~open'
  PROVE  Undisturbed'
<1>1. \A q \in Request : request'[q] \in {"idle", "answered", "ended"}
  BY DEF Working
<1>2. Working' = {}
  BY <1>1 DEF Working
<1>3. \A q \in Request : EnrollsAt(q)'
  BY <1>1 DEF EnrollsAt
<1>4. AnsweredIsRecorded'
  BY DEF Undisturbed, AnsweredIsRecorded, Keeps
<1> QED
  BY <1>2, <1>3, <1>4 DEF Undisturbed, Alone, Nobody

LEMMA NoTurn ==
  ASSUME Undisturbed, Onward', UNCHANGED <<rows, committed, open, admin>>,
         \A r \in Request : \/ request'[r] = request[r]
                            \/ request[r] = "answered" /\ request'[r] = "ended"
  PROVE  Undisturbed'
<1>1. Working' = Working
  BY DEF Working
<1>2. \A r \in Request : EnrollsAt(r)'
  BY DEF Undisturbed, EnrollsAt
<1>3. AnsweredIsRecorded' /\ AdminAt'
  BY DEF Undisturbed, AnsweredIsRecorded, AdminAt
<1> QED
  BY <1>1, <1>2, <1>3 DEF Undisturbed, Alone, Nobody

-----------------------------------------------------------------------------
(***************************************************************************)
(* Undisturbed is kept, and every step on disk is one operation or none.   *)
(***************************************************************************)
LEMMA UndisturbedRequest ==
  ASSUME Serial, Undisturbed, NEW r \in Request, BeginEnroll(r) \/ Serve(r) \/ IssuerFails(r)
  PROVE  Undisturbed' /\ Atomic(committed, committed')
<1>0. Onward' /\ Keeps(committed, committed') /\ DatabaseSound
  BY OnwardRequest, OnwardClient DEF Undisturbed, Onward
<1>l. rows \in Ledger /\ committed \in Ledger
  BY <1>0 DEF DatabaseSound
<1> DEFINE Taken(next) ==
      /\ EnrollsAt(r)'
      /\ next \in {"idle", "answered", "ended"} => ~open'
      /\ next = "answered" => committed'.certificate[r] # "NONE"
<1>t. ASSUME NEW step, NEW next, Goes(r, step, next), step = "idle" => Nobody,
             step \notin {"answered", "ended"}, Taken(next)
      PROVE  Undisturbed'
  <2>1. admin' = admin /\ request' = [request EXCEPT ![r] = next] /\ request[r] = step
    BY <1>t DEF Goes
  <2>2. request \in [Request -> RequestStep]
    BY DEF Undisturbed, Onward, ThreadsTyped
  <2>3. request'[r] = next /\ \A q \in Request : q # r => request'[q] = request[q]
    BY <2>1, <2>2
  <2>4. step # "idle" => r \in Working
    BY <1>t, <2>1 DEF Working
  <2>5. admin.step = "idle" /\ \A q \in Request : q # r => q \notin Working
    BY <1>t, <2>4 DEF Undisturbed, Alone, Nobody
  <2> QED
    BY <1>0, <1>t, <2>1, <2>3, <2>5, RequestTurn
<1>s. Same(committed, committed)
  BY DEF Same
<1>e. EnrollsAt(r)
  BY DEF Undisturbed
<1>a. request[r] # "idle" => request \in [Request -> RequestStep]
  BY DEF Undisturbed, Onward, ThreadsTyped
<1>g. ASSUME NEW step, NEW next, Goes(r, step, next)
      PROVE  request[r] = step /\ request'[r] = next
  BY <1>g DEF Goes, Undisturbed, Onward, ThreadsTyped
<1>1. CASE BeginEnroll(r)
  <2>1. Nobody /\ ~open /\ rows = committed
    BY <1>0, <1>1, MayStartAlone DEF BeginEnroll, Undisturbed, DatabaseSound
  <2>2. Goes(r, "idle", "check") /\ open' /\ rows' = rows /\ committed' = committed
    BY <1>1, <2>1 DEF BeginEnroll, BeginSucceeds, OpenTransaction
  <2>3. Taken("check")
    BY <1>g, <2>1, <2>2 DEF EnrollsAt, Same
  <2> QED
    BY <1>s, <1>t, <2>1, <2>2, <2>3 DEF Atomic
<1>2. CASE CheckClaim(r)
  <2>1. PICK next \in {"reject", "expire", "issue"} :
          Goes(r, "check", next) /\ (next = "issue" => Reusable(r[1]))
    BY <1>2 DEF CheckClaim
  <2>2. open' /\ rows' = rows /\ committed' = committed /\ Same(committed, rows)
    BY <1>2, <1>e, <1>g, <2>1 DEF CheckClaim, database, EnrollsAt
  <2>3. Taken(next)
    BY <1>g, <2>1, <2>2 DEF EnrollsAt, Same, Reusable
  <2> QED
    BY <1>s, <1>t, <2>1, <2>2, <2>3 DEF Atomic
<1>3. CASE ExpireClaim(r)
  <2>1. Goes(r, "expire", "reject") /\ open' /\ committed' = committed
    BY <1>3, <1>e, <1>g DEF ExpireClaim, Execute, EnrollsAt
  <2>2. Taken("reject")
    BY <1>g, <2>1 DEF EnrollsAt
  <2> QED
    BY <1>s, <1>t, <2>1, <2>2 DEF Atomic
<1>4. CASE Issue(r)
  <2>1. /\ Goes(r, "issue", "certificate") /\ open' /\ rows' = rows /\ committed' = committed
        /\ Same(committed, rows) /\ committed.claim[r[1]] = "ACTIVE"
    BY <1>4, <1>e, <1>g DEF Issue, database, EnrollsAt
  <2>2. Taken("certificate")
    BY <1>g, <2>1 DEF EnrollsAt
  <2> QED
    BY <1>s, <1>t, <2>1, <2>2 DEF Atomic
<1>5. CASE StoreCertificate(r)
  <2>1. /\ Goes(r, "certificate", "consume") /\ open' /\ committed' = committed
        /\ rows' = [rows EXCEPT !.certificate[r] = "ACTIVE"]
        /\ Same(committed, rows) /\ committed.claim[r[1]] = "ACTIVE"
    BY <1>5, <1>e, <1>g DEF StoreCertificate, Execute, EnrollsAt
  <2>2. Certified(rows, rows', r, "ACTIVE") /\ rows'.device = rows.device /\ rows'.claim = rows.claim
    BY <1>l, <2>1, FieldsWritten
  <2>3. Taken("consume")
    BY <1>g, <2>1, <2>2 DEF EnrollsAt, Same, Certified
  <2> QED
    BY <1>s, <1>t, <2>1, <2>3 DEF Atomic
<1>6. CASE ConsumeClaim(r)
  <2>1. /\ Goes(r, "consume", "activate") /\ open' /\ committed' = committed
        /\ rows' = [rows EXCEPT !.claim[r[1]] = "CONSUMED"]
        /\ Certified(committed, rows, r, "ACTIVE") /\ rows.device = committed.device
        /\ rows.claim = committed.claim /\ committed.claim[r[1]] = "ACTIVE"
    BY <1>6, <1>e, <1>g DEF ConsumeClaim, Execute, EnrollsAt
  <2>2. Claimed(rows, rows', r[1], "CONSUMED") /\ rows'.device = rows.device
          /\ rows'.certificate = rows.certificate
    BY <1>l, <2>1, FieldsWritten
  <2>3. Taken("activate")
    BY <1>g, <2>1, <2>2 DEF EnrollsAt, Certified, Claimed
  <2> QED
    BY <1>s, <1>t, <2>1, <2>3 DEF Atomic
<1>7. CASE ActivateDevice(r)
  <2>1. /\ Goes(r, "activate", "commit") /\ open' /\ committed' = committed
        /\ rows' = [rows EXCEPT !.device[Holder[r[1]]] = "ACTIVE"]
        /\ Certified(committed, rows, r, "ACTIVE") /\ rows.device = committed.device
        /\ Claimed(committed, rows, r[1], "CONSUMED") /\ committed.claim[r[1]] = "ACTIVE"
    BY <1>7, <1>e, <1>g DEF ActivateDevice, Execute, EnrollsAt
  <2>2. Marked(rows, rows', Holder[r[1]], "ACTIVE") /\ rows'.claim = rows.claim
          /\ rows'.certificate = rows.certificate
    BY <1>l, <2>1, FieldsWritten
  <2>3. Enrolled(committed, rows', r)
    BY <2>1, <2>2 DEF Enrolled, Certified, Claimed, Marked
  <2>4. rows'.certificate[r] = "ACTIVE"
    BY <1>l, <2>1, <2>2, LedgerFields DEF Certified
  <2>5. Taken("commit")
    BY <1>g, <2>1, <2>3, <2>4 DEF EnrollsAt, Atomic
  <2> QED
    BY <1>s, <1>t, <2>1, <2>5 DEF Atomic
<1>8. CASE CommitEnroll(r)
  <2>1. /\ Goes(r, "commit", "answered") /\ ~open' /\ committed' = rows
        /\ Atomic(committed, rows) /\ rows.certificate[r] # "NONE"
    BY <1>8, <1>e, <1>g DEF CommitEnroll, CommitAny, EnrollsAt
  <2>2. Taken("answered")
    BY <1>g, <2>1 DEF EnrollsAt
  <2> QED
    BY <1>t, <2>1, <2>2
<1>9. CASE RollBack(r)
  <2>1. PICK step \in {"abort", "reject"}, next \in {"ended", "record"} : Goes(r, step, next)
    BY <1>9 DEF RollBack
  <2>2. ~open' /\ committed' = committed
    BY <1>9, <1>e, <1>g, <2>1 DEF RollBack, RollbackAny, EnrollsAt, database
  <2>3. Taken(next)
    BY <1>g, <2>1, <2>2 DEF EnrollsAt
  <2> QED
    BY <1>s, <1>t, <2>1, <2>2, <2>3 DEF Atomic
<1>10. CASE RecordAttempt(r)
  <2>1. CASE Goes(r, "record", "recording") /\ OpenTransaction
    <3>1. open' /\ rows' = committed /\ committed' = committed
      BY <1>0, <1>e, <1>g, <2>1 DEF OpenTransaction, EnrollsAt, DatabaseSound
    <3>2. Taken("recording")
      BY <1>g, <2>1, <3>1 DEF EnrollsAt, Same
    <3> QED
      BY <1>s, <1>t, <2>1, <3>1, <3>2 DEF Atomic
  <2>2. CASE Goes(r, "record", "abort") /\ open
    BY <1>e, <1>g, <2>2 DEF EnrollsAt
  <2>3. CASE Goes(r, "recording", "ended") /\ IF open THEN CommitAny ELSE UNCHANGED database
    <3>1. ~open' /\ committed' = rows /\ Same(committed, rows)
      BY <1>e, <1>g, <2>3 DEF CommitAny, EnrollsAt
    <3>2. Taken("ended")
      BY <1>g, <2>3, <3>1 DEF EnrollsAt
    <3> QED
      BY <1>t, <2>3, <3>1, <3>2 DEF Atomic
  <2> QED
    BY <1>10, <2>1, <2>2, <2>3 DEF RecordAttempt, BeginSucceeds
<1>11. CASE IssuerFails(r)
  <2>1. /\ request' = [request EXCEPT ![r] = "abort"] /\ request[r] = "issue" /\ admin' = admin
        /\ open' = open /\ rows' = rows /\ committed' = committed
    BY <1>11 DEF IssuerFails, CountFailure, database
  <2>2. request'[r] = "abort" /\ \A q \in Request : q # r => request'[q] = request[q]
    BY <1>a, <2>1
  <2>3. r \in Working
    BY <2>1 DEF Working
  <2>4. admin.step = "idle" /\ \A q \in Request : q # r => q \notin Working
    BY <2>3 DEF Undisturbed, Alone
  <2>5. EnrollsAt(r)'
    BY <1>e, <2>1, <2>2 DEF EnrollsAt
  <2> QED
    BY <1>0, <1>s, <2>1, <2>2, <2>4, <2>5, RequestTurn DEF Atomic
<1> QED
  BY <1>1, <1>2, <1>3, <1>4, <1>5, <1>6, <1>7, <1>8, <1>9, <1>10, <1>11 DEF Serve

LEMMA UndisturbedAdmin ==
  ASSUME Serial, Undisturbed, (\E o \in Operation : AdminBegin(o)) \/ ServeAdmin
  PROVE  Undisturbed' /\ Atomic(committed, committed')
<1>0. Onward' /\ Keeps(committed, committed') /\ DatabaseSound /\ ThreadsTyped
  BY OnwardAdmin DEF Undisturbed, Onward
<1>l. rows \in Ledger /\ committed \in Ledger
  BY <1>0 DEF DatabaseSound
<1>s. Same(committed, committed)
  BY DEF Same
<1>a. AdminAt
  BY DEF Undisturbed
<1>n. admin.step # "idle" => Working = {}
  BY DEF Undisturbed, Alone
<1>r. Resting.step = "idle"
  BY DEF Resting
<1>g. ASSUME NEW step, step # "idle", NEW next, AdminGoes(step, next)
      PROVE  /\ admin.step = step /\ admin'.step = next /\ request' = request /\ Working = {}
             /\ admin.operation \in Operation
             /\ next # "idle" => admin'.operation = admin.operation
  <2>1. admin \in [step : AdminStep, operation : Operation]
    BY <1>0, <1>g, <1>r DEF ThreadsTyped, AdminGoes
  <2> QED
    BY <1>g, <1>n, <1>r, <2>1 DEF AdminGoes
<1>1. ASSUME NEW o \in Operation, AdminBegin(o)
      PROVE  Undisturbed' /\ Atomic(committed, committed')
  <2>1. Nobody /\ ~open /\ rows = committed
    BY <1>0, <1>1, MayStartAlone DEF AdminBegin, Undisturbed, DatabaseSound
  <2>2. /\ admin'.step = "execute" /\ open' /\ rows' = rows /\ committed' = committed
        /\ request' = request
    BY <1>1, <2>1 DEF AdminBegin, BeginSucceeds, OpenTransaction
  <2>3. AdminAt'
    BY <1>s, <2>1, <2>2 DEF AdminAt
  <2> QED
    BY <1>0, <1>s, <2>1, <2>2, <2>3, AdminTurn DEF Nobody, Atomic
<1> DEFINE o == admin.operation
<1>2. CASE AdminExecute /\ Permitted(o)
  <2>1. /\ AdminGoes("execute", IF o.does = "revoke" THEN "device" ELSE "commit")
        /\ Execute(Result(o))
    BY <1>2 DEF AdminExecute
  <2>2. /\ admin.step = "execute" /\ admin'.step = IF o.does = "revoke" THEN "device" ELSE "commit"
        /\ request' = request /\ Working = {} /\ o \in Operation /\ admin'.operation = o
    BY <1>g, <2>1
  <2>3. open' /\ committed' = committed /\ rows' = Result(o) /\ Same(committed, rows)
    BY <1>a, <2>1, <2>2 DEF AdminAt, Execute
  <2>4. CASE o.does = "revoke"
    <3>1. /\ o.request \in Request /\ o = [does |-> "revoke", request |-> o.request]
          /\ rows.certificate[o.request] # "NONE"
          /\ rows' = [rows EXCEPT !.certificate[o.request] = "REVOKED"]
      BY <1>2, <2>2, <2>3, <2>4, OperationFields DEF Permitted, Result
    <3>2. Certified(rows, rows', o.request, "REVOKED") /\ rows'.device = rows.device
            /\ rows'.claim = rows.claim
      BY <1>l, <3>1, FieldsWritten
    <3>3. AdminAt'
      BY <2>2, <2>3, <2>4, <3>1, <3>2 DEF AdminAt, Same, Certified
    <3> QED
      BY <1>0, <1>s, <2>2, <2>3, <2>4, <3>3, AdminTurn DEF Atomic
  <2>5. CASE o.does # "revoke"
    <3>1. Atomic(committed, rows')
      <4>1. CASE o.does = "stage"
        <5>1. o.device \in Device /\ rows' = Stage(o.device)
          BY <2>2, <2>3, <4>1, OperationFields DEF Result
        <5>2. CASE rows.device[o.device] = "UNKNOWN"
          <6>1. rows' = [rows EXCEPT !.device[o.device] = "STAGED"]
            BY <5>1, <5>2 DEF Stage
          <6>2. Marked(rows, rows', o.device, "STAGED") /\ rows'.claim = rows.claim
                  /\ rows'.certificate = rows.certificate
            BY <1>l, <6>1, FieldsWritten
          <6>3. Staged(committed, rows', o.device)
            BY <2>3, <5>2, <6>2 DEF Staged, Same, Marked
          <6> QED
            BY <5>1, <6>3 DEF Atomic
        <5>3. CASE rows.device[o.device] # "UNKNOWN"
          <6>1. rows' = rows
            BY <1>l, <5>1, <5>3 DEF Stage, Ledger
          <6> QED
            BY <2>3, <6>1 DEF Atomic
        <5> QED
          BY <5>2, <5>3
      <4>2. CASE o.does = "create"
        <5>1. /\ o.claim \in Claim /\ rows' = [rows EXCEPT !.claim[o.claim] = "ACTIVE"]
              /\ rows.device[Holder[o.claim]] = "STAGED" /\ rows.claim[o.claim] = "NONE"
          BY <1>2, <2>2, <2>3, <4>2, OperationFields DEF Permitted, Result
        <5>2. Claimed(rows, rows', o.claim, "ACTIVE") /\ rows'.device = rows.device
                /\ rows'.certificate = rows.certificate
          BY <1>l, <5>1, FieldsWritten
        <5>3. Created(committed, rows', o.claim)
          BY <2>3, <5>1, <5>2 DEF Created, Same, Claimed
        <5> QED
          BY <5>1, <5>3 DEF Atomic
      <4>3. CASE o.does = "cancel"
        <5>1. /\ o.claim \in Claim /\ rows' = [rows EXCEPT !.claim[o.claim] = "CANCELLED"]
              /\ rows.claim[o.claim] = "ACTIVE"
          BY <1>2, <2>2, <2>3, <4>3, OperationFields DEF Permitted, Result
        <5>2. Claimed(rows, rows', o.claim, "CANCELLED") /\ rows'.device = rows.device
                /\ rows'.certificate = rows.certificate
          BY <1>l, <5>1, FieldsWritten
        <5>3. Cancelled(committed, rows', o.claim)
          BY <2>3, <5>1, <5>2 DEF Cancelled, Same, Claimed
        <5> QED
          BY <5>1, <5>3 DEF Atomic
      <4> QED
        BY <2>2, <2>5, <4>1, <4>2, <4>3, OperationFields
    <3>2. AdminAt'
      BY <2>2, <2>3, <2>5, <3>1 DEF AdminAt
    <3> QED
      BY <1>0, <1>s, <2>2, <2>3, <2>5, <3>2, AdminTurn DEF Atomic
  <2> QED
    BY <2>4, <2>5
<1>3. CASE AdminExecute /\ ~Permitted(o)
  <2>1. AdminGoes("execute", "abort") /\ UNCHANGED database
    BY <1>3 DEF AdminExecute
  <2>2. admin.step = "execute" /\ admin'.step = "abort" /\ request' = request /\ Working = {}
    BY <1>g, <2>1
  <2>3. AdminAt' /\ committed' = committed
    BY <1>a, <2>1, <2>2 DEF AdminAt, database
  <2> QED
    BY <1>0, <1>s, <2>2, <2>3, AdminTurn DEF Atomic
<1>4. CASE AdminRevokeDevice
  <2>1. /\ AdminGoes("device", "commit")
        /\ Execute([rows EXCEPT !.device[Holder[o.request[1]]] = "REVOKED"])
    BY <1>4 DEF AdminRevokeDevice
  <2>2. admin.step = "device" /\ admin'.step = "commit" /\ request' = request /\ Working = {}
    BY <1>g, <2>1
  <2>3. PICK r \in Request :
          /\ o = [does |-> "revoke", request |-> r]
          /\ committed.certificate[r] # "NONE" /\ Certified(committed, rows, r, "REVOKED")
          /\ rows.claim = committed.claim /\ rows.device = committed.device
    BY <1>a, <2>2 DEF AdminAt
  <2>4. /\ open' /\ committed' = committed
        /\ rows' = [rows EXCEPT !.device[Holder[r[1]]] = "REVOKED"]
    BY <1>a, <2>1, <2>2, <2>3 DEF AdminAt, Execute
  <2>5. Marked(rows, rows', Holder[r[1]], "REVOKED") /\ rows'.claim = rows.claim
          /\ rows'.certificate = rows.certificate
    BY <1>l, <2>4, FieldsWritten
  <2>6. Revoked(committed, rows', r)
    BY <2>3, <2>5 DEF Revoked, Certified, Marked
  <2>7. AdminAt'
    BY <2>2, <2>4, <2>6 DEF AdminAt, Atomic
  <2> QED
    BY <1>0, <1>s, <2>2, <2>4, <2>7, AdminTurn DEF Atomic
<1>5. CASE AdminCommit \/ AdminRollBack
  <2>1. PICK step \in {"commit", "abort"} :
          /\ AdminGoes(step, "idle")
          /\ IF open THEN IF step = "commit" THEN CommitAny ELSE RollbackAny
                     ELSE UNCHANGED database
    BY <1>5 DEF AdminCommit, AdminRollBack
  <2>2. admin.step = step /\ admin'.step = "idle" /\ request' = request /\ Working = {}
    BY <1>g, <2>1
  <2>3. /\ ~open' /\ committed' = IF step = "commit" THEN rows ELSE committed
        /\ step = "commit" => Atomic(committed, rows)
    BY <1>a, <2>1, <2>2 DEF AdminAt, CommitAny, RollbackAny
  <2>4. AdminAt'
    BY <2>2 DEF AdminAt
  <2>5. Undisturbed'
    BY <1>0, <2>2, <2>3, <2>4, AdminTurn
  <2> QED
    BY <1>s, <2>3, <2>5 DEF Atomic
<1> QED
  BY <1>1, <1>2, <1>3, <1>4, <1>5 DEF ServeAdmin

LEMMA UndisturbedNext ==
  ASSUME Serial, Undisturbed, [Next]_vars
  PROVE  Undisturbed' /\ Atomic(committed, committed')
<1>0. Onward' /\ Keeps(committed, committed')
  BY OnwardNext DEF Undisturbed
<1>s. Same(committed, committed)
  BY DEF Same
<1>1. ASSUME NEW r \in Request, ReceiveCertificate(r) \/ AnswerLost(r)
      PROVE  Undisturbed' /\ Atomic(committed, committed')
  <2>1. UNCHANGED <<rows, committed, open, admin>> /\ request' = [request EXCEPT ![r] = "ended"]
          /\ request[r] = "answered"
    BY <1>1 DEF ReceiveCertificate, AnswerLost, CountFailure, database
  <2>2. \A q \in Request : \/ request'[q] = request[q]
                           \/ request[q] = "answered" /\ request'[q] = "ended"
    BY <2>1 DEF Undisturbed, Onward, ThreadsTyped
  <2> QED
    BY <1>0, <1>s, <2>1, <2>2, NoTurn DEF Atomic
<1>2. CASE (\E c \in Claim : Lapse(c)) \/ UNCHANGED vars
  <2>1. UNCHANGED <<rows, committed, open, admin>> /\ request' = request
    BY <1>2 DEF Lapse, vars, database
  <2> QED
    BY <1>0, <1>s, <2>1, NoTurn DEF Atomic
<1>3. CASE ServiceCrash
  <2>1. /\ ~open' /\ committed' = committed /\ admin'.step = "idle"
        /\ request' = [r \in Request |-> IF r \in Working THEN "ended" ELSE request[r]]
    BY <1>3 DEF ServiceCrash, RollbackAny, Resting
  <2>2. \A r \in Request : /\ request'[r] \in {"idle", "answered", "ended"}
                           /\ request'[r] = "answered" => request[r] = "answered"
    BY <2>1 DEF Working
  <2>3. Working' = {}
    BY <2>2 DEF Working
  <2>4. (\A r \in Request : EnrollsAt(r)') /\ AdminAt' /\ Alone'
    BY <2>1, <2>2, <2>3 DEF EnrollsAt, AdminAt, Alone
  <2>5. AnsweredIsRecorded'
    BY <2>1, <2>2 DEF Undisturbed, AnsweredIsRecorded
  <2> QED
    BY <1>0, <1>s, <2>1, <2>4, <2>5 DEF Undisturbed, Atomic
<1> QED
  BY <1>1, <1>2, <1>3, UndisturbedRequest, UndisturbedAdmin DEF Next

LEMMA UndisturbedInit == Init => Undisturbed
<1> SUFFICES ASSUME Init PROVE Undisturbed
  OBVIOUS
<1>1. \A r \in Request : request[r] = "idle"
  BY DEF Init
<1>2. admin.step = "idle" /\ ~open
  BY DEF Init, Resting
<1>3. (\A r \in Request : EnrollsAt(r)) /\ AnsweredIsRecorded /\ Alone
  BY <1>1 DEF EnrollsAt, AnsweredIsRecorded, Alone, Working
<1>4. AdminAt
  BY <1>2 DEF AdminAt
<1> QED
  BY <1>2, <1>3, <1>4, OnwardInit DEF Undisturbed

(***************************************************************************)
(* While one thread works at a time an answered certificate is on record.  *)
(***************************************************************************)
THEOREM SpecAnsweredIsRecorded ==
  ASSUME Serial
  PROVE  Spec => []AnsweredIsRecorded
<1>1. Undisturbed /\ [Next]_vars => Undisturbed'
  BY UndisturbedNext
<1>2. Undisturbed => AnsweredIsRecorded
  BY DEF Undisturbed
<1> QED
  BY <1>1, <1>2, UndisturbedInit, PTL DEF Spec

-----------------------------------------------------------------------------
(***************************************************************************)
(* Atomic, field by field, is the next-state relation of AtomicEnrollment. *)
(***************************************************************************)
LEMMA LedgersEqual ==
  ASSUME NEW l \in Ledger, NEW m \in Ledger, Same(l, m)
  PROVE  l = m
BY DEF Ledger, Same

LEMMA AtomicStep ==
  ASSUME committed \in Ledger, committed' \in Ledger, Atomic(committed, committed')
  PROVE  [Promise!Next]_committed
<1> DEFINE Goal == [Promise!Next]_committed
<1>m. ASSUME NEW m \in Ledger, Same(m, committed')
      PROVE  committed' = m
  BY <1>m, LedgersEqual
<1>1. CASE Same(committed, committed')
  BY <1>1, LedgersEqual
<1>2. ASSUME NEW d \in Device, Staged(committed, committed', d)
      PROVE  Promise!Stage(d)
  <2> DEFINE new == [committed EXCEPT !.device[d] = "STAGED"]
  <2>1. new \in Ledger
    BY DEF Ledger
  <2>2. Marked(committed, new, d, "STAGED") /\ new.claim = committed.claim
          /\ new.certificate = committed.certificate
    BY FieldsWritten
  <2> HIDE DEF new
  <2>3. committed' = new
    BY <1>2, <1>m, <2>1, <2>2 DEF Staged, Same, Marked
  <2> QED
    BY <1>2, <2>3 DEF Promise!Stage, Staged, new
<1>3. ASSUME NEW c \in Claim, Created(committed, committed', c)
      PROVE  Promise!CreateClaim(c)
  <2> DEFINE new == [committed EXCEPT !.claim[c] = "ACTIVE"]
  <2>1. new \in Ledger
    BY DEF Ledger
  <2>2. Claimed(committed, new, c, "ACTIVE") /\ new.device = committed.device
          /\ new.certificate = committed.certificate
    BY FieldsWritten
  <2> HIDE DEF new
  <2>3. committed' = new
    BY <1>3, <1>m, <2>1, <2>2 DEF Created, Same, Claimed
  <2> QED
    BY <1>3, <2>3 DEF Promise!CreateClaim, Created, new
<1>4. ASSUME NEW c \in Claim, Cancelled(committed, committed', c)
      PROVE  Promise!CancelClaim(c)
  <2> DEFINE new == [committed EXCEPT !.claim[c] = "CANCELLED"]
  <2>1. new \in Ledger
    BY DEF Ledger
  <2>2. Claimed(committed, new, c, "CANCELLED") /\ new.device = committed.device
          /\ new.certificate = committed.certificate
    BY FieldsWritten
  <2> HIDE DEF new
  <2>3. committed' = new
    BY <1>4, <1>m, <2>1, <2>2 DEF Cancelled, Same, Claimed
  <2> QED
    BY <1>4, <2>3 DEF Promise!CancelClaim, Cancelled, new
<1>5. ASSUME NEW r \in Request, Enrolled(committed, committed', r)
      PROVE  Promise!Enroll(r)
  <2> DEFINE new == [committed EXCEPT !.claim[r[1]] = "CONSUMED",
                                      !.certificate[r] = "ACTIVE",
                                      !.device[Holder[r[1]]] = "ACTIVE"]
  <2>1. new \in Ledger /\ Certified(committed, new, r, "ACTIVE")
          /\ Claimed(committed, new, r[1], "CONSUMED")
          /\ Marked(committed, new, Holder[r[1]], "ACTIVE")
    BY DEF Ledger, Certified, Claimed, Marked
  <2> HIDE DEF new
  <2>2. committed' = new
    BY <1>5, <1>m, <2>1 DEF Enrolled, Same, Certified, Claimed, Marked
  <2> QED
    BY <1>5, <2>2 DEF Promise!Enroll, Enrolled, new
<1>6. ASSUME NEW r \in Request, Revoked(committed, committed', r)
      PROVE  Promise!Revoke(r)
  <2> DEFINE new == [committed EXCEPT !.certificate[r] = "REVOKED",
                                      !.device[Holder[r[1]]] = "REVOKED"]
  <2>1. new \in Ledger /\ Certified(committed, new, r, "REVOKED") /\ new.claim = committed.claim
          /\ Marked(committed, new, Holder[r[1]], "REVOKED")
    BY DEF Ledger, Certified, Marked
  <2> HIDE DEF new
  <2>2. committed' = new
    BY <1>6, <1>m, <2>1 DEF Revoked, Same, Certified, Marked
  <2> QED
    BY <1>6, <2>2 DEF Promise!Revoke, Revoked, new
<1> QED
  BY <1>1, <1>2, <1>3, <1>4, <1>5, <1>6 DEF Atomic, Promise!Next

(***************************************************************************)
(* While one thread works at a time the database on disk goes through the  *)
(* operations of AtomicEnrollment: none is ever seen halfway, whatever     *)
(* fails or crashes.                                                       *)
(***************************************************************************)
THEOREM SpecImplementsAtomicEnrollment ==
  ASSUME Serial
  PROVE  Spec => ImplementsAtomicEnrollment
<1>1. Undisturbed /\ [Next]_vars => Undisturbed'
  BY UndisturbedNext
<1>2. Undisturbed /\ [Next]_vars => [Promise!Next]_committed
  <2> SUFFICES ASSUME Undisturbed, [Next]_vars PROVE [Promise!Next]_committed
    OBVIOUS
  <2>1. Atomic(committed, committed') /\ Undisturbed'
    BY UndisturbedNext
  <2> QED
    BY <2>1, AtomicStep DEF Undisturbed, Onward, DatabaseSound
<1>3. Init => Promise!Init
  BY DEF Init, NewRows, Promise!Init, Promise!NewLedger
<1> QED
  BY <1>1, <1>2, <1>3, UndisturbedInit, PTL DEF Spec, ImplementsAtomicEnrollment, Promise!Spec
=============================================================================
