------------------------------ MODULE MCLocks -------------------------------
(* The three pieces the threads of the program are built on, which share   *)
(* no state: the cglock (three threads: two that read while a third is in  *)
(* or out of the gate), the thread queue (two threads that push, three     *)
(* items) and the shutdown (the watchdog, a miner, the API).  A behaviour  *)
(* is one of the piece that its initial state names; the others stay as    *)
(* they are.                                                               *)
EXTENDS TLC, CgLock, ThreadQueue, Shutdown

CONSTANTS t1, t2, t3

MCThread  == {t1, t2, t3}
MCTargets == <<{"watchdog"}, {"miner"}, {"api"}>>

VARIABLE piece

MCInit == /\ piece \in {"cglock", "queue", "shutdown"}
          /\ Init /\ QueueInit /\ ShutdownInit
          /\ piece # "shutdown" => restarting

LockStep     == piece = "cglock" /\ Next /\ UNCHANGED <<queueVars, shutdownVars>>
QueueStep    == piece = "queue" /\ QueueNext /\ UNCHANGED <<vars, shutdownVars>>
ShutdownStep == piece = "shutdown" /\ ShutdownNext /\ UNCHANGED <<vars, queueVars>>

MCNext == (LockStep \/ QueueStep \/ ShutdownStep) /\ UNCHANGED piece

(* The fairness of each piece, where it is the one that runs: an idle      *)
(* cglock and a program that is up owe nothing, the popper of an idle      *)
(* queue does.                                                             *)
MCFairness == /\ \A t \in Thread : WF_vars(Progress(t))
              /\ \A t \in Pusher : WF_queueVars(Pushing(t))
              /\ WF_queueVars(piece = "queue" /\ Popping)
              /\ ShutdownFairness

MCSpec == MCInit /\ [][MCNext]_<<piece, vars, queueVars, shutdownVars>> /\ MCFairness

=============================================================================
