-------------------------- MODULE MCZtpEnrollment ---------------------------
(* Instances of ZtpEnrollment for TLC. *)
EXTENDS ZtpEnrollment, TLC

CONSTANTS d1, d2, c1, c2, c3

OneDevice == c1 :> d1 @@ c2 :> d1
JustOne == c1 :> d1
TwoDevices == c1 :> d1 @@ c2 :> d1 @@ c3 :> d2
=============================================================================
