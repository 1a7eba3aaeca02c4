---------------------------- MODULE MCCliMonitor ----------------------------
(* The instance of CliMonitor that TLC explores: an account, and a         *)
(* monitored reservation with flights out and back within 24 hours of each *)
(* other.                                                                  *)
EXTENDS CliMonitor, TLC

CONSTANTS account, reservation, out, back

ReservationTrip == [t \in Tickets |-> reservation]
OneConf  == [t \in Tickets |-> "ABC123"]
TwoLegs  == (out :> "WN1") @@ (back :> "WN2")
SameDay  == ("WN1" :> 4) @@ ("WN2" :> 5)
=============================================================================
