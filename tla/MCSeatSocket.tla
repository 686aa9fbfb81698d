---------------------------- MODULE MCSeatSocket ----------------------------
(* Instance of SeatSocket for TLC: three daemons, one of which is refused. *)
EXTENDS SeatSocket
=============================================================================
