-------------------------- MODULE AtomicEnrollment --------------------------
(***************************************************************************)
(* What the ZTP service promises of its database: a claim is consumed and  *)
(* the certificate it pays for is recorded in one step, once               *)
(* (src/sdwan_v5/persistence/ztp_store.py:86-92, src/sdwan_v5/             *)
(* ZTP_SECURITY_MODEL.md:8).                                               *)
(***************************************************************************)
CONSTANTS
  Device, Claim,
  Holder,    \* Holder[c]: the device claim c is made out to
  Request    \* pairs of a claim and the number of the attempt that presents it

VARIABLE ledger

NewLedger ==
  [device |-> [d \in Device |-> "UNKNOWN"],
   claim |-> [c \in Claim |-> "NONE"],
   certificate |-> [r \in Request |-> "NONE"]]

Init == ledger = NewLedger

Stage(d) ==
  /\ ledger.device[d] = "UNKNOWN"
  /\ ledger' = [ledger EXCEPT !.device[d] = "STAGED"]

CreateClaim(c) ==
  /\ ledger.device[Holder[c]] = "STAGED"
  /\ ledger.claim[c] = "NONE"
  /\ ledger' = [ledger EXCEPT !.claim[c] = "ACTIVE"]

CancelClaim(c) ==
  /\ ledger.claim[c] = "ACTIVE"
  /\ ledger' = [ledger EXCEPT !.claim[c] = "CANCELLED"]

Enroll(r) ==
  /\ ledger.claim[r[1]] = "ACTIVE"
  /\ ledger' = [ledger EXCEPT !.claim[r[1]] = "CONSUMED",
                              !.certificate[r] = "ACTIVE",
                              !.device[Holder[r[1]]] = "ACTIVE"]

Revoke(r) ==
  /\ ledger.certificate[r] # "NONE"
  /\ ledger' = [ledger EXCEPT !.certificate[r] = "REVOKED",
                              !.device[Holder[r[1]]] = "REVOKED"]

Next ==
  \/ \E d \in Device : Stage(d)
  \/ \E c \in Claim : CreateClaim(c) \/ CancelClaim(c)
  \/ \E r \in Request : Enroll(r) \/ Revoke(r)

Spec == Init /\ [][Next]_ledger
=============================================================================
