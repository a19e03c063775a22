------------------------- MODULE MC_SocketAdmission -------------------------
(* Placement of the sockets for TLC. *)
EXTENDS SocketAdmission, TLC

CONSTANTS p1, p2, s1, c1

OnePod    == (s1 :> p1)
OneTenant == [s \in Sockets |-> c1]
=============================================================================
