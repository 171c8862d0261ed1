---------------------------- MODULE MCWorkQueue ----------------------------
(* Two miners, the scheduler and a longpoll thread over a handful of       *)
(* structs; a getwork pool that allows rolling, and a stratum pool.        *)
EXTENDS WorkQueue, TLC

CONSTANTS i1, i2, i3, s1, s2, s3, m1, m2, getwork, stratum, lp

Symmetry == Permutations({i1, i2, i3}) \union Permutations({s1, s2})
              \union Permutations({m1, m2})

=============================================================================
