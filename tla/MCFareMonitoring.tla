-------------------------- MODULE MCFareMonitoring --------------------------
(* The instance of FareMonitoring that TLC explores: one flight, which is  *)
(* not nonstop, with one other on its day, and one watch.                  *)
EXTENDS FareMonitoring

CONSTANTS mine, other

Savings == {-3, -2}
=============================================================================
