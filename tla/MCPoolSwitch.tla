---------------------------- MODULE MCPoolSwitch ----------------------------
(* Two pools of the configuration and one that may be added; or three of   *)
(* the configuration.                                                      *)
EXTENDS PoolSwitch

CONSTANTS p1, p2, p3, w1

MCTwo   == [i \in 0 .. 1 |-> IF i = 0 THEN p1 ELSE p2]
MCThree == [i \in 0 .. 2 |-> CASE i = 0 -> p1 [] i = 1 -> p2 [] i = 2 -> p3]

=============================================================================
