----------------------------- MODULE MCProgress -----------------------------
(* What must go on when nobody helps, in two pieces that share no state:   *)
(* the staged works (two miners and the main thread, two structs, no rolls)*)
(* and the connections of two pools.  A behaviour is one of the piece that *)
(* its initial state names; the other stays as it is.                      *)
EXTENDS TLC, Connections

CONSTANTS p1, p2, i1, i2, m1, m2,
          Item, Source, Miner, Main, LocalGen, WorkPool, NoWork

MCPool == {p1, p2}

VARIABLES where, w, stale, staged_rollable, opt_queue, no_work, pc, extra, mrs, given

workVars == <<where, w, stale, staged_rollable, opt_queue, no_work, pc, extra, mrs, given>>

W == INSTANCE WorkQueue WITH Pool <- WorkPool, Lp <- {}, OptQueue <- 0,
                             MaxQueue <- 1, RollLimit <- 0, MaxRollable <- 2

VARIABLE piece

\* The two pools are alike; works leak from a getwork pool only.
MCInit == /\ piece \in {"works", "connections"}
          /\ W!Init /\ ConnInit
          /\ current = p1 /\ (stratum = Pool => leaky)
          /\ piece # "connections" => stratum = {} /\ leaky

WorksStep == piece = "works" /\ W!Next /\ UNCHANGED connVars
ConnStep  == piece = "connections" /\ ConnNext /\ UNCHANGED workVars

MCNext == (WorksStep \/ ConnStep) /\ UNCHANGED piece

(* The fairness of each piece, where it is the one that runs.              *)
MCFairness ==
  /\ \A m \in Miner : /\ WF_workVars(piece = "works" /\ W!Pop(m))
                      /\ WF_workVars(W!Finish(m))
  /\ WF_workVars(piece = "works" /\ W!Sched)
  /\ \A p \in Pool : /\ WF_connVars(piece = "connections" /\ PoolThread(p))
                     /\ WF_connVars(WatchTest(p))
  /\ WF_connVars(Broadcast) /\ WF_connVars(WatchSwitch) /\ WF_connVars(GetsNoWork)

MCSpec == MCInit /\ [][MCNext]_<<piece, workVars, connVars>> /\ MCFairness

(* As in WorkQueue: once blocks, expiry and disconnections give it a rest, *)
(* sleeping miners lead to a miner with work, without the help of a        *)
(* timeout.                                                                *)
MinersFed == W!MinersFed

=============================================================================
