--------------------------- MODULE MCMinerThreads ---------------------------
(* One device with two threads; two devices with one or two each.          *)
EXTENDS MinerThreads

MCOne == [t \in 0 .. 1 |-> "gpu0"]
MCTwo == [t \in 0 .. 1 |-> IF t = 0 THEN "gpu0" ELSE "gpu1"]
MCTwice == [t \in 0 .. 3 |-> IF t < 2 THEN "gpu0" ELSE "gpu1"]

=============================================================================
