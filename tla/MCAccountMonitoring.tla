------------------------ MODULE MCAccountMonitoring ------------------------
(* The instance of AccountMonitoring that TLC explores: an account that    *)
(* holds two reservations of one flight each; a user knows one of them.    *)
EXTENDS AccountMonitoring, TLC

CONSTANTS ann, c1, c2, f1, f2

OneEach   == (f1 :> c1) @@ (f2 :> c2)
AllOfAnns == [c \in Confs |-> ann]
=============================================================================
