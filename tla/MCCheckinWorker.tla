-------------------------- MODULE MCCheckinWorker --------------------------
(* The instance of CheckinWorker that TLC explores.                        *)
EXTENDS CheckinWorker, TLC

(* All flights belong to one reservation.                                  *)
OneReservation == [f \in Flights |-> "ABC123"]

(* Flights, and handler objects, are interchangeable.                      *)
Symmetry == Permutations(Flights) \cup Permutations(Handlers)
=============================================================================
