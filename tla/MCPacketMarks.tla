--------------------------- MODULE MCPacketMarks ----------------------------
(* Instances of PacketMarks for TLC: what a policy change may install. *)
EXTENDS PacketMarks

OtherHub == {Side("h2", "p1")}
=============================================================================
