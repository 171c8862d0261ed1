------------------------- MODULE MinerThreadsProofs -------------------------
(***************************************************************************)
(* No wakeup is lost, for any number of devices and threads, as long as    *)
(* what stops a thread is the operator's API or the schedule: the menu     *)
(* that enables first and asks later, the autotuner that enables without a *)
(* post, and a device that hangs while it is being enabled are excluded    *)
(* (the model has a counterexample for the first two), and so is the       *)
(* intensity menu with more than one device, which wakes the wrong threads.*)
(*                                                                         *)
(* The invariant says where gpuenable stands: the threads it has still to  *)
(* post to are of one device, those of the device it is done with found    *)
(* the device enabled, and it cannot be refused half-way.                  *)
(***************************************************************************)
EXTENDS MinerThreads, TLAPS

Kept ==
  /\ Events \intersect {"menu", "autotune", "hang"} = {}
  /\ "intensity" \in Events => \A g, h \in Gpu : g = h

TypeDev ==
  /\ deven \in [Gpu -> {"ENABLED", "DISABLED", "RECOVER"}]
  /\ status \in [Gpu -> {"INIT", "WELL", "SICK", "DEAD"}]

TypeFlags ==
  /\ dynamic \in [Gpu -> BOOLEAN]
  /\ pause \in [Thread -> BOOLEAN]
  /\ getwork \in [Thread -> BOOLEAN]
  /\ sched_paused \in BOOLEAN

TypeThr ==
  /\ pc \in [Thread -> {"init", "start", "getwork", "scan", "scanned", "disabled", "gone", "dead"}]
  /\ sem \in [Thread -> Nat]
  /\ work_restart \subseteq Thread
  /\ age \in [Thread -> {"fresh", "sick", "dead"}]

TypeReinit ==
  /\ zombies \subseteq Thread
  /\ stgd_lock \in Thread \union {NoThread}
  /\ queue \in Seq(Gpu)
  /\ reinit \in [at : {"pop", "kill", "make", "post", "exit"}, todo : SUBSET Thread]
  /\ reinit.at \in {"kill", "make", "post"} => reinit.todo # {}

TypeOp ==
  /\ judged \subseteq Gpu
  /\ op \in [at : {"free", "gpuenable", "menu"}, todo : SUBSET Thread]
  /\ op.at # "free" => op.todo # {}

LEMMA Devices ==
  /\ \A t \in Thread : GpuOf[t] \in Gpu
  /\ \A g \in Gpu : ThreadsOf(g) \in SUBSET Thread /\ ThreadsOf(g) # {}
  BY DEF Gpu, ThreadsOf, Thread

-----------------------------------------------------------------------------
(* Types.                                                                  *)

LEMMA ReportType ==
  ASSUME TypeDev, TypeThr, NEW t \in Thread, NEW out, Report(t, out)
  PROVE  /\ age' \in [Thread -> {"fresh", "sick", "dead"}]
         /\ status' \in [Gpu -> {"INIT", "WELL", "SICK", "DEAD"}]
  BY Devices DEF TypeDev, TypeThr, Report

LEMMA ReportFlag ==
  ASSUME TypeFlags, NEW t \in Thread, NEW out \in BOOLEAN, Report(t, out)
  PROVE  getwork' \in [Thread -> BOOLEAN]
  BY DEF TypeFlags, Report

LEMMA AgainType ==
  ASSUME TypeDev, TypeThr, TypeFlags, NEW t \in Thread, Again(t)
  PROVE  /\ pc' \in [Thread -> {"init", "start", "getwork", "scan", "scanned", "disabled", "gone", "dead"}]
         /\ age' \in [Thread -> {"fresh", "sick", "dead"}]
         /\ status' \in [Gpu -> {"INIT", "WELL", "SICK", "DEAD"}]
         /\ getwork' \in [Thread -> BOOLEAN]
  <1>1. \E out \in BOOLEAN : Report(t, out)
    BY Zenon DEF Again
  <1>2. pc' \in [Thread -> {"init", "start", "getwork", "scan", "scanned", "disabled", "gone", "dead"}]
    BY DEF TypeThr, Again, Goto
  <1>3. getwork' \in [Thread -> BOOLEAN]
    BY <1>1, ReportFlag, Zenon
  <1>4. /\ age' \in [Thread -> {"fresh", "sick", "dead"}]
        /\ status' \in [Gpu -> {"INIT", "WELL", "SICK", "DEAD"}]
    BY <1>1, ReportType, Zenon
  <1> QED BY <1>2, <1>3, <1>4

LEMMA InitTypes == Init => TypeOK
  <1> SUFFICES ASSUME Init PROVE TypeOK
    OBVIOUS
  <1>1. TypeDev /\ TypeThr
    BY Devices DEF Init, TypeDev, TypeThr
  <1>2. TypeReinit
    <2>1. queue \in Seq(Gpu)
      BY DEF Init
    <2>2. reinit = [at |-> "pop", todo |-> {}] /\ zombies = {} /\ stgd_lock = NoThread
      BY DEF Init
    <2> QED BY <2>1, <2>2 DEF TypeReinit
  <1>3. TypeOp
    BY DEF Init, TypeOp, Idle
  <1>4. TypeFlags
    BY DEF Init, TypeFlags
  <1> QED BY <1>1, <1>2, <1>3, <1>4 DEF TypeOK, TypeDev, TypeThr, TypeFlags, TypeReinit, TypeOp

(* A step of a mining thread.                                              *)
LEMMA MinerTypes ==
  ASSUME TypeDev, TypeThr, TypeFlags, TypeReinit, TypeOp, NEW t \in Thread, Miner(t)
  PROVE  TypeDev' /\ TypeThr' /\ TypeFlags' /\ TypeReinit' /\ TypeOp'
  <1>1. TypeReinit' /\ TypeOp'
    BY DEF TypeReinit, TypeOp, Miner, ThreadInit, Start, GetWork, ScanReturns, Unchecked, BreakOff,
           mt_disable, GoOn, Wake, reinitVars
  <1>2. ASSUME Report(t, TRUE) \/ Report(t, FALSE),
               UNCHANGED <<dynamic, pause, sched_paused>>
        PROVE  TypeFlags'
    BY <1>2, ReportFlag DEF TypeFlags
  <1>3. CASE ThreadInit(t) \/ Start(t) \/ GetWork(t) \/ BreakOff(t)
    <2>1. TypeFlags'
      BY <1>3, <1>2, Zenon DEF ThreadInit, Start, GetWork, BreakOff
    <2>2. /\ age' \in [Thread -> {"fresh", "sick", "dead"}]
          /\ status' \in [Gpu -> {"INIT", "WELL", "SICK", "DEAD"}]
      BY <1>3, ReportType, Zenon DEF ThreadInit, Start, GetWork, BreakOff
    <2>3. TypeDev'
      BY <1>3, <2>2 DEF TypeDev, ThreadInit, Start, GetWork, BreakOff
    <2>4. pc' \in [Thread -> {"init", "start", "getwork", "scan", "scanned", "disabled", "gone", "dead"}]
      BY <1>3 DEF TypeThr, ThreadInit, Start, GetWork, BreakOff, Goto
    <2>5. sem' \in [Thread -> Nat] /\ work_restart' \subseteq Thread
      <3>1. Take(t) \/ sem' = sem
        BY <1>3 DEF ThreadInit, Start, GetWork, BreakOff
      <3>2. work_restart' \subseteq work_restart
        BY <1>3 DEF ThreadInit, Start, GetWork, BreakOff
      <3> QED BY <3>1, <3>2 DEF TypeThr, Take
    <2> QED BY <1>1, <2>1, <2>2, <2>3, <2>4, <2>5 DEF TypeThr
  <1>4. ASSUME NEW r \in {-1, 8}, ScanReturns(t, r) PROVE TypeDev' /\ TypeThr' /\ TypeFlags'
    <2>1. TypeFlags'
      BY <1>4, <1>2, Zenon DEF ScanReturns
    <2>2. /\ age' \in [Thread -> {"fresh", "sick", "dead"}]
          /\ status' \in [Gpu -> {"INIT", "WELL", "SICK", "DEAD"}]
      BY <1>4, ReportType, Zenon DEF ScanReturns
    <2>3. TypeDev' /\ TypeThr'
      BY <1>4, <2>2, Devices DEF TypeDev, TypeThr, ScanReturns, Goto
    <2> QED BY <2>1, <2>3
  <1>5. CASE Unchecked(t) \/ GoOn(t) \/ Wake(t)
    <2>1. Again(t)
      BY <1>5, Zenon DEF Unchecked, GoOn, Wake
    <2>2. TypeFlags'
      BY <1>5, <2>1, AgainType DEF TypeFlags, Unchecked, GoOn, Wake
    <2>3. TypeDev' /\ TypeThr'
      BY <1>5, <2>1, AgainType DEF TypeDev, TypeThr, Unchecked, GoOn, Wake, Take
    <2> QED BY <1>1, <2>2, <2>3
  <1>6. CASE mt_disable(t)
    <2>1. TypeFlags'
      BY <1>6 DEF TypeFlags, mt_disable, devVars
    <2>2. TypeDev' /\ TypeThr'
      BY <1>6 DEF TypeDev, TypeThr, mt_disable, Goto, devVars
    <2> QED BY <1>1, <2>1, <2>2
  <1> QED BY <1>1, <1>3, <1>4, <1>5, <1>6 DEF Miner

LEMMA OperatorTypes ==
  ASSUME TypeDev, TypeThr, TypeFlags, TypeReinit, TypeOp, Operator
  PROVE  TypeDev' /\ TypeThr' /\ TypeFlags' /\ TypeReinit' /\ TypeOp'
  <1>1. ASSUME NEW g \in Gpu, gpuenable(g) \/ MenuEnable(g)
        PROVE  TypeDev' /\ TypeThr' /\ TypeFlags' /\ TypeReinit' /\ TypeOp'
    <2>1. TypeFlags'
      BY <1>1 DEF TypeFlags, gpuenable, MenuEnable, devVars, thrVars, reinitVars
    <2>2. TypeDev' /\ TypeThr' /\ TypeReinit' /\ TypeOp'
      BY <1>1, Devices DEF TypeDev, TypeThr, TypeReinit, TypeOp, gpuenable, MenuEnable, devVars, thrVars, reinitVars
    <2> QED BY <2>1, <2>2
  <1>2. ASSUME NEW g \in Gpu, gpudisable(g) \/ gpurestart(g)
        PROVE  TypeDev' /\ TypeThr' /\ TypeFlags' /\ TypeReinit' /\ TypeOp'
    <2>1. TypeFlags'
      BY <1>2 DEF TypeFlags, gpudisable, gpurestart, devVars, thrVars, reinitVars
    <2>2. TypeDev' /\ TypeThr' /\ TypeReinit' /\ TypeOp'
      <3>1. queue' \in Seq(Gpu)
        BY <1>2 DEF TypeReinit, gpudisable, gpurestart, reinitVars
      <3> QED BY <1>2, <3>1 DEF TypeDev, TypeThr, TypeReinit, TypeOp, gpudisable, gpurestart, devVars, thrVars, reinitVars
    <2> QED BY <2>1, <2>2
  <1>3. ASSUME NEW g \in Gpu, NEW on \in BOOLEAN, pause_dynamic_threads(g, on)
        PROVE  TypeDev' /\ TypeThr' /\ TypeFlags' /\ TypeReinit' /\ TypeOp'
    <2>1. dynamic' \in [Gpu -> BOOLEAN] /\ getwork' = getwork /\ sched_paused' = sched_paused
      BY <1>3, Zenon DEF TypeFlags, pause_dynamic_threads
    <2>2. pause' \in [Thread -> BOOLEAN]
      BY <1>3, Zenon DEF TypeFlags, pause_dynamic_threads
    <2>3. sem' \in [Thread -> Nat]
      BY <1>3 DEF TypeThr, pause_dynamic_threads
    <2>4. TypeDev' /\ TypeThr' /\ TypeReinit' /\ TypeOp'
      BY <1>3, <2>3 DEF TypeDev, TypeThr, TypeReinit, TypeOp, pause_dynamic_threads, reinitVars
    <2> QED BY <2>1, <2>2, <2>4 DEF TypeFlags
  <1>4. ASSUME NEW t \in Thread, EnableOne(t) \/ EnableRefused(t) \/ MenuPost(t)
        PROVE  TypeDev' /\ TypeThr' /\ TypeFlags' /\ TypeReinit' /\ TypeOp'
    <2>1. TypeOp'
      <3>0. judged' = judged
        BY <1>4 DEF EnableOne, EnableRefused, MenuPost
      <3>1. op' = Idle \/ (op.todo # {t} /\ op' = [op EXCEPT !.todo = op.todo \ {t}])
        BY <1>4 DEF EnableOne, EnableRefused, MenuPost
      <3>2. CASE op' = Idle
        BY <3>0, <3>2 DEF TypeOp, Idle
      <3>3. CASE op.todo # {t} /\ op' = [op EXCEPT !.todo = op.todo \ {t}]
        <4>1. t \in op.todo
          BY <1>4 DEF EnableOne, EnableRefused, MenuPost, IsNext
        <4>2. op' = [at |-> op.at, todo |-> op.todo \ {t}]
          BY <3>3 DEF TypeOp
        <4> QED BY <3>0, <3>3, <4>1, <4>2 DEF TypeOp
      <3> QED BY <3>1, <3>2, <3>3
    <2>2. TypeFlags'
      BY <1>4 DEF TypeFlags, EnableOne, EnableRefused, MenuPost, devVars, thrVars
    <2>3. TypeDev' /\ TypeThr' /\ TypeReinit'
      <3>1. CASE EnableOne(t) \/ MenuPost(t)
        <4>1. TypeDev'
          BY <3>1, Devices DEF TypeDev, EnableOne, MenuPost, devVars
        <4>2. TypeThr'
          BY <3>1 DEF TypeThr, EnableOne, MenuPost, Post
        <4>3. TypeReinit'
          BY <3>1 DEF TypeReinit, EnableOne, MenuPost, reinitVars
        <4> QED BY <4>1, <4>2, <4>3
      <3>2. CASE EnableRefused(t)
        BY <3>2 DEF TypeDev, TypeThr, TypeReinit, EnableRefused, devVars, thrVars, reinitVars
      <3> QED BY <1>4, <3>1, <3>2
    <2> QED BY <2>1, <2>2, <2>3
  <1> QED BY <1>1, <1>2, <1>3, <1>4 DEF Operator, Enabling

LEMMA WatchdogTypes ==
  ASSUME TypeDev, TypeThr, TypeFlags, TypeReinit, TypeOp, Watchdog
  PROVE  TypeDev' /\ TypeThr' /\ TypeFlags' /\ TypeReinit' /\ TypeOp'
  <1>1. CASE SchedulePause \/ ScheduleResume
    <2>1. pause' \in [Thread -> BOOLEAN] /\ sched_paused' \in BOOLEAN
      BY <1>1, Zenon DEF TypeFlags, SchedulePause, ScheduleResume
    <2>2. TypeFlags'
      BY <1>1, <2>1, Zenon DEF TypeFlags, SchedulePause, ScheduleResume, devVars
    <2>3. sem' \in [Thread -> Nat]
      BY <1>1 DEF TypeThr, SchedulePause, ScheduleResume
    <2>4. TypeDev' /\ TypeThr' /\ TypeReinit' /\ TypeOp'
      BY <1>1, <2>3 DEF TypeDev, TypeThr, TypeReinit, TypeOp, SchedulePause, ScheduleResume, devVars, reinitVars
    <2> QED BY <2>2, <2>4
  <1>2. ASSUME NEW g \in Gpu, Overheat(g) \/ Recover(g) \/ DeclareWell(g) \/ DeclareDead(g)
        PROVE  TypeDev' /\ TypeThr' /\ TypeFlags' /\ TypeReinit' /\ TypeOp'
    <2>1. TypeFlags'
      BY <1>2 DEF TypeFlags, Overheat, Recover, DeclareWell, DeclareDead, thrVars
    <2>2. TypeDev' /\ TypeThr' /\ TypeReinit' /\ TypeOp'
      BY <1>2 DEF TypeDev, TypeThr, TypeReinit, TypeOp, Overheat, Recover, DeclareWell, DeclareDead, SetStatus,
                  thrVars, reinitVars
    <2> QED BY <2>1, <2>2
  <1>3. ASSUME NEW g \in Gpu, FindSick(g) \/ DeclareSick(g) \/ ReviveAgain(g)
        PROVE  TypeDev' /\ TypeThr' /\ TypeFlags' /\ TypeReinit' /\ TypeOp'
    <2>1. TypeFlags'
      BY <1>3 DEF TypeFlags, FindSick, DeclareSick, ReviveAgain, devVars, thrVars
    <2>2. TypeDev' /\ TypeThr' /\ TypeReinit' /\ TypeOp'
      <3>1. queue' \in Seq(Gpu)
        BY <1>3 DEF TypeReinit, FindSick, DeclareSick, ReviveAgain, TryReinit, reinitVars
      <3>2. TypeDev'
        BY <1>3 DEF TypeDev, FindSick, DeclareSick, ReviveAgain, SetStatus, devVars
      <3>3. TypeReinit'
        BY <1>3, <3>1 DEF TypeReinit, FindSick, DeclareSick, ReviveAgain, reinitVars
      <3>4. TypeOp'
        BY <1>3 DEF TypeOp, FindSick, DeclareSick, ReviveAgain
      <3>5. TypeThr'
        BY <1>3 DEF TypeThr, FindSick, DeclareSick, ReviveAgain, thrVars
      <3> QED BY <3>2, <3>3, <3>4, <3>5
    <2> QED BY <2>1, <2>2
  <1> QED BY <1>1, <1>2, <1>3 DEF Watchdog

LEMMA ReinitTypes ==
  ASSUME TypeDev, TypeThr, TypeFlags, TypeReinit, TypeOp, reinit_gpu
  PROVE  TypeDev' /\ TypeThr' /\ TypeFlags' /\ TypeReinit' /\ TypeOp'
  <1>1. CASE ReinitPop \/ ReinitQuit \/ ReinitFails
    <2>1. queue # <<>> => Head(queue) \in Gpu /\ Tail(queue) \in Seq(Gpu)
      BY DEF TypeReinit
    <2>2. TypeFlags'
      BY <1>1 DEF TypeFlags, ReinitPop, ReinitQuit, ReinitFails, devVars, thrVars
    <2>3. TypeDev' /\ TypeThr' /\ TypeReinit' /\ TypeOp'
      <3>1. queue' \in Seq(Gpu)
        BY <1>1, <2>1 DEF TypeReinit, ReinitPop, ReinitQuit, ReinitFails
      <3>2. /\ reinit' \in [at : {"pop", "kill", "make", "post", "exit"}, todo : SUBSET Thread]
            /\ reinit'.at \in {"kill", "make", "post"} => reinit'.todo # {}
        BY <1>1, <2>1, Devices DEF ReinitPop, ReinitQuit, ReinitFails
      <3>3. TypeReinit'
        BY <1>1, <3>1, <3>2 DEF TypeReinit, ReinitPop, ReinitQuit, ReinitFails
      <3> QED BY <1>1, <3>3 DEF TypeDev, TypeThr, TypeOp, ReinitPop, ReinitQuit, ReinitFails, devVars, thrVars
    <2> QED BY <2>2, <2>3
  <1>2. ASSUME NEW t \in Thread, ReinitKill(t) \/ ReinitMake(t) \/ ReinitPost(t)
        PROVE  TypeDev' /\ TypeThr' /\ TypeFlags' /\ TypeReinit' /\ TypeOp'
    <2>1. reinit' \in [at : {"pop", "kill", "make", "post", "exit"}, todo : SUBSET Thread]
          /\ (reinit'.at \in {"kill", "make", "post"} => reinit'.todo # {})
      <3>1. \/ \E l \in {"pop", "make", "post"} :
                 reinit' = [at |-> l, todo |-> IF l = "pop" THEN {} ELSE ThreadsOf(GpuOf[t])]
            \/ reinit.todo \ {t} # {} /\ reinit' = [reinit EXCEPT !.todo = reinit.todo \ {t}]
        BY <1>2 DEF ReinitKill, ReinitMake, ReinitPost
      <3>2. reinit = [at |-> reinit.at, todo |-> reinit.todo]
        BY DEF TypeReinit
      <3>3. [reinit EXCEPT !.todo = reinit.todo \ {t}] = [at |-> reinit.at, todo |-> reinit.todo \ {t}]
        BY <3>2
      <3> QED BY <3>1, <3>3, Devices DEF TypeReinit
    <2>2. TypeReinit'
      BY <1>2, <2>1 DEF TypeReinit, ReinitKill, ReinitMake, ReinitPost
    <2>3. TypeFlags'
      BY <1>2 DEF TypeFlags, ReinitKill, ReinitMake, ReinitPost, devVars
    <2>4. TypeDev' /\ TypeOp'
      BY <1>2 DEF TypeDev, TypeOp, ReinitKill, ReinitMake, ReinitPost, devVars
    <2>5. TypeThr'
      BY <1>2 DEF TypeThr, ReinitKill, ReinitMake, ReinitPost, Goto, Post
    <2> QED BY <2>2, <2>3, <2>4, <2>5
  <1> QED BY <1>1, <1>2 DEF reinit_gpu

LEMMA PartTypes ==
  ASSUME TypeDev, TypeThr, TypeFlags, TypeReinit, TypeOp, [Next]_vars
  PROVE  TypeDev' /\ TypeThr' /\ TypeFlags' /\ TypeReinit' /\ TypeOp'
  <1>1. ASSUME NEW t \in Thread, ZombieReturns(t)
        PROVE  TypeDev' /\ TypeThr' /\ TypeFlags' /\ TypeReinit' /\ TypeOp'
    <2>1. getwork' \in [Thread -> BOOLEAN]
      BY <1>1, ReportFlag, Zenon DEF ZombieReturns
    <2>2. TypeFlags'
      BY <1>1, <2>1 DEF TypeFlags, ZombieReturns
    <2>3. TypeDev' /\ TypeThr' /\ TypeReinit' /\ TypeOp'
      BY <1>1, ReportType DEF TypeDev, TypeThr, TypeReinit, TypeOp, ZombieReturns
    <2> QED BY <2>2, <2>3
  <1>2. ASSUME NEW t \in Thread, Age(t)
        PROVE  TypeDev' /\ TypeThr' /\ TypeFlags' /\ TypeReinit' /\ TypeOp'
    <2>1. TypeFlags'
      BY <1>2 DEF TypeFlags, Age, devVars
    <2>2. TypeDev' /\ TypeThr' /\ TypeReinit' /\ TypeOp'
      BY <1>2 DEF TypeDev, TypeThr, TypeReinit, TypeOp, Age, devVars, reinitVars
    <2> QED BY <2>1, <2>2
  <1>3. CASE restart_thread
    <2>1. TypeFlags'
      BY <1>3 DEF TypeFlags, restart_thread, devVars
    <2>2. TypeDev' /\ TypeThr' /\ TypeReinit' /\ TypeOp'
      BY <1>3 DEF TypeDev, TypeThr, TypeReinit, TypeOp, restart_thread, devVars, reinitVars
    <2> QED BY <2>1, <2>2
  <1>4. CASE UNCHANGED vars
    <2>1. TypeFlags'
      BY <1>4 DEF TypeFlags, vars, devVars, thrVars
    <2>2. TypeDev' /\ TypeThr' /\ TypeReinit' /\ TypeOp'
      BY <1>4 DEF TypeDev, TypeThr, TypeReinit, TypeOp, vars, devVars, thrVars, reinitVars
    <2> QED BY <2>1, <2>2
  <1> QED BY <1>1, <1>2, <1>3, <1>4, MinerTypes, OperatorTypes, WatchdogTypes, ReinitTypes, Zenon DEF Next

(* The types, for every set of events: no semaphore is taken from below 0, *)
(* no command and no restart is under way without a thread to go on with.  *)
THEOREM TypeCorrect == Spec => []TypeOK
  <1>1. Init => TypeOK
    BY InitTypes
  <1>2. TypeOK /\ [Next]_vars => TypeOK'
    BY PartTypes DEF TypeOK, TypeDev, TypeThr, TypeFlags, TypeReinit, TypeOp
  <1> QED BY <1>1, <1>2, PTL DEF Spec

-----------------------------------------------------------------------------
(* Wakeups.                                                                *)

Awaits(t) == pc[t] = "disabled" /\ ~Stopped(t)

CommandInv ==
  /\ op.at \in {"free", "gpuenable"}
  /\ op.at = "free" => op.todo = {}
  /\ \A g \in Gpu : deven[g] \in {"ENABLED", "DISABLED"}

(* Where gpuenable stands.                                                 *)
EnablingInv ==
  \A t \in op.todo :
    /\ \A u \in op.todo : GpuOf[u] = GpuOf[t]
    /\ deven[GpuOf[t]] = "ENABLED" => status[GpuOf[t]] = "WELL"
    /\ \A u \in Thread \ op.todo : GpuOf[u] = GpuOf[t] => deven[GpuOf[t]] = "ENABLED"

WakeInv == TypeOK /\ CommandInv /\ EnablingInv /\ NoLostWakeup

(* NoLostWakeup in terms of Awaits.                                       *)
LEMMA Same == NoLostWakeup <=> \A t \in Thread : Awaits(t) => sem[t] > 0 \/ t \in op.todo
  BY DEF NoLostWakeup, Awaits

(* What a step may do to a thread without a wakeup being lost.             *)
LEMMA Awaiting ==
  ASSUME NoLostWakeup, TypeThr, TypeThr',
         \A t \in Thread : Awaits(t)' =>
           \/ sem'[t] > 0
           \/ t \in op'.todo
           \/ Awaits(t) /\ sem'[t] >= sem[t] /\ t \notin op.todo
           \/ Awaits(t) /\ sem'[t] >= sem[t] /\ op' = op
  PROVE  NoLostWakeup'
  <1>1. ASSUME NEW t \in Thread, Awaits(t)' PROVE sem'[t] > 0 \/ t \in op'.todo
    <2>1. sem[t] \in Nat /\ sem'[t] \in Nat
      BY DEF TypeThr
    <2>2. Awaits(t) => sem[t] > 0 \/ t \in op.todo
      BY Same
    <2> QED BY <1>1, <2>1, <2>2
  <1> QED BY <1>1 DEF NoLostWakeup, Awaits

(* Steps that leave the command and the devices alone, and of the others   *)
(* no thread but one that is not then asleep for nothing.                  *)
LEMMA Alone ==
  ASSUME WakeInv, TypeThr', op' = op, deven' = deven,
         \A g \in Gpu : status[g] = "WELL" => status'[g] = "WELL",
         \A t \in Thread : Awaits(t)' => sem'[t] > 0 \/ (Awaits(t) /\ sem'[t] >= sem[t])
  PROVE  CommandInv' /\ EnablingInv' /\ NoLostWakeup'
  <1>1. CommandInv'
    BY DEF WakeInv, CommandInv
  <1>2. EnablingInv'
    <2>1. \A t \in op.todo : GpuOf[t] \in Gpu
      BY Devices DEF WakeInv, TypeOK
    <2> QED BY <2>1 DEF WakeInv, EnablingInv
  <1>3. NoLostWakeup'
    BY Awaiting DEF WakeInv, TypeOK, TypeThr
  <1> QED BY <1>1, <1>2, <1>3

(* A driver that returns -1 does not disable: -1 / 8 is 0.                 *)
LEMMA Rounded == \A n \in {-1, 8} : Eighth(n) # -1
  BY DEF Eighth

LEMMA Reported ==
  ASSUME TypeDev, NEW t \in Thread, Report(t, TRUE) \/ Report(t, FALSE)
  PROVE  \A g \in Gpu : status[g] = "WELL" => status'[g] = "WELL"
  BY DEF TypeDev, Report

LEMMA MinerWakes ==
  ASSUME WakeInv, TypeThr', NEW t \in Thread, Miner(t)
  PROVE  CommandInv' /\ EnablingInv' /\ NoLostWakeup'
  <1> USE DEF WakeInv
  <1>1. op' = op /\ pause' = pause
    BY DEF Miner, ThreadInit, Start, GetWork, ScanReturns, Unchecked, BreakOff, mt_disable, GoOn, Wake
  <1>2. deven' = deven
    BY Rounded DEF Miner, ThreadInit, Start, GetWork, ScanReturns, Unchecked, BreakOff, mt_disable, GoOn, Wake, devVars
  <1>3. \A g \in Gpu : status[g] = "WELL" => status'[g] = "WELL"
    <2>1. Report(t, TRUE) \/ Report(t, FALSE) \/ status' = status
      BY DEF Miner, ThreadInit, Start, GetWork, ScanReturns, Unchecked, BreakOff, mt_disable, GoOn, Wake, Again, devVars
    <2> QED BY <2>1, Reported DEF TypeOK, TypeDev
  <1>4. \A u \in Thread : u # t => sem'[u] = sem[u] /\ pc'[u] = pc[u]
    <2>1. Take(t) \/ sem' = sem
      BY DEF Miner, ThreadInit, Start, GetWork, ScanReturns, Unchecked, BreakOff, mt_disable, GoOn, Wake
    <2>2. \E l : Goto(t, l)
      BY DEF Miner, ThreadInit, Start, GetWork, ScanReturns, Unchecked, BreakOff, mt_disable, GoOn, Wake, Again
    <2> QED BY <2>1, <2>2 DEF Take, Goto, TypeOK
  <1>5. pc'[t] = "disabled" => Stopped(t)
    BY DEF Miner, ThreadInit, Start, GetWork, ScanReturns, Unchecked, BreakOff, mt_disable, GoOn, Wake, Again, Goto, TypeOK
  <1>6. \A u \in Thread : Stopped(u)' <=> Stopped(u)
    BY <1>1, <1>2 DEF Stopped
  <1>7. ~Awaits(t)'
    BY <1>5, <1>6 DEF Awaits
  <1>8. \A u \in Thread : u # t => (Awaits(u)' => Awaits(u))
    BY <1>4, <1>6 DEF Awaits
  <1>9. \A u \in Thread : Awaits(u)' => sem'[u] > 0 \/ (Awaits(u) /\ sem'[u] >= sem[u])
    <2>1. \A u \in Thread : sem[u] \in Nat
      BY DEF TypeOK
    <2> QED BY <1>4, <1>7, <1>8, <2>1
  <1> QED BY <1>1, <1>2, <1>3, <1>9, Alone

LEMMA OperatorWakes ==
  ASSUME Kept, WakeInv, TypeThr', Operator
  PROVE  CommandInv' /\ EnablingInv' /\ NoLostWakeup'
  <1> USE DEF WakeInv
  <1>0. TypeThr /\ TypeDev
    BY DEF TypeOK, TypeThr, TypeDev
  <1>1. ASSUME NEW g \in Gpu, gpuenable(g)
        PROVE  CommandInv' /\ EnablingInv' /\ NoLostWakeup'
    <2>1. op.at = "free" /\ deven[g] = "DISABLED" /\ op' = [at |-> "gpuenable", todo |-> ThreadsOf(g)]
      BY <1>1 DEF gpuenable, Command
    <2>2. UNCHANGED <<deven, status, pc, sem, pause>>
      BY <1>1 DEF gpuenable, devVars, thrVars
    <2>3. CommandInv'
      BY <2>1, <2>2 DEF CommandInv
    <2>4. EnablingInv'
      BY <2>1, <2>2 DEF EnablingInv, ThreadsOf
    <2>5. op.todo = {}
      BY <2>1 DEF CommandInv
    <2>6. \A t \in Thread : (Awaits(t)' <=> Awaits(t)) /\ sem'[t] >= sem[t]
      BY <1>0, <2>2 DEF Awaits, Stopped, TypeThr
    <2>7. NoLostWakeup'
      BY <1>0, <2>5, <2>6, Awaiting
    <2> QED BY <2>3, <2>4, <2>7
  <1>2. ASSUME NEW g \in Gpu, gpudisable(g)
        PROVE  CommandInv' /\ EnablingInv' /\ NoLostWakeup'
    <2>1. op.at = "free" /\ op' = op /\ deven' = [deven EXCEPT ![g] = "DISABLED"]
      BY <1>2 DEF gpudisable, Command
    <2>2. UNCHANGED <<status, pc, sem, pause>>
      BY <1>2 DEF gpudisable, thrVars
    <2>3. CommandInv'
      BY <1>0, <2>1 DEF CommandInv, TypeDev
    <2>4. op.todo = {}
      BY <2>1 DEF CommandInv
    <2>5. EnablingInv'
      BY <2>1, <2>4 DEF EnablingInv
    <2>6. \A t \in Thread : deven'[GpuOf[t]] = "ENABLED" => deven[GpuOf[t]] = "ENABLED"
      BY <1>0, <2>1, Devices DEF TypeDev
    <2>7. \A t \in Thread : (Awaits(t)' => Awaits(t)) /\ sem'[t] >= sem[t]
      BY <1>0, <2>2, <2>6 DEF Awaits, Stopped, TypeThr
    <2>8. NoLostWakeup'
      BY <1>0, <2>1, <2>7, Awaiting
    <2> QED BY <2>3, <2>5, <2>8
  <1>3. ASSUME NEW g \in Gpu, gpurestart(g)
        PROVE  CommandInv' /\ EnablingInv' /\ NoLostWakeup'
    <2>1. UNCHANGED <<op, deven, status, pc, sem, pause>>
      BY <1>3 DEF gpurestart, devVars, thrVars
    <2>2. \A t \in Thread : (Awaits(t)' <=> Awaits(t)) /\ sem'[t] >= sem[t]
      BY <1>0, <2>1 DEF Awaits, Stopped, TypeThr
    <2> QED BY <2>1, <2>2, Alone
  <1>4. ASSUME NEW g \in Gpu, NEW on \in BOOLEAN, pause_dynamic_threads(g, on)
        PROVE  CommandInv' /\ EnablingInv' /\ NoLostWakeup'
    <2>1. \A h \in Gpu : h = g
      BY <1>4 DEF Kept, pause_dynamic_threads, Command
    <2>2. UNCHANGED <<op, deven, status, pc>>
      BY <1>4 DEF pause_dynamic_threads
    <2>3. ASSUME NEW t \in Thread, Awaits(t)'
          PROVE  sem'[t] > 0 \/ (Awaits(t) /\ sem'[t] >= sem[t])
      <3>0. sem[t] \in Nat /\ GpuOf[t] = g
        BY <1>0, <2>1, Devices DEF TypeThr
      <3>1. deven[g] = "ENABLED" /\ pc[t] = "disabled" /\ ~pause'[t]
        BY <2>2, <2>3, <3>0 DEF Awaits, Stopped
      <3> DEFINE extra == 1 .. Cardinality(ThreadsOf(g)) - 1
      <3>2. CASE t \in extra
        <4>1. pause'[t] = on
          BY <1>4, <3>2 DEF pause_dynamic_threads
        <4>2. sem'[t] = sem[t] + 1
          BY <1>4, <3>1, <3>2, <4>1 DEF pause_dynamic_threads
        <4> QED BY <3>0, <4>2
      <3>3. CASE t \notin extra
        <4>1. pause'[t] = pause[t]
          BY <1>4, <3>3 DEF pause_dynamic_threads
        <4>2. sem'[t] = sem[t]
          BY <1>4, <3>3 DEF pause_dynamic_threads
        <4>3. Awaits(t)
          BY <3>0, <3>1, <4>1 DEF Awaits, Stopped
        <4> QED BY <3>0, <4>2, <4>3
      <3> QED BY <3>2, <3>3
    <2> QED BY <2>2, <2>3, Alone
  <1>5. ASSUME NEW t \in Thread, EnableOne(t)
        PROVE  CommandInv' /\ EnablingInv' /\ NoLostWakeup'
    <2>1. t \in op.todo /\ op.at = "gpuenable" /\ status[GpuOf[t]] = "WELL"
      BY <1>5 DEF EnableOne, IsNext
    <2>2. UNCHANGED <<status, pc, pause>>
      BY <1>5 DEF EnableOne
    <2>3. deven' = [deven EXCEPT ![GpuOf[t]] = "ENABLED"] /\ sem' = [sem EXCEPT ![t] = @ + 1]
      BY <1>5 DEF EnableOne, Post
    <2>4. /\ op'.todo = op.todo \ {t}
          /\ op'.at = IF op.todo = {t} THEN "free" ELSE "gpuenable"
      <3>1. CASE op.todo = {t}
        BY <1>5, <3>1 DEF EnableOne, Idle
      <3>2. CASE op.todo # {t}
        <4>1. op = [at |-> op.at, todo |-> op.todo]
          BY DEF TypeOK
        <4>2. op' = [op EXCEPT !.todo = op.todo \ {t}]
          BY <1>5, <3>2 DEF EnableOne
        <4>3. op' = [at |-> op.at, todo |-> op.todo \ {t}]
          BY <4>1, <4>2
        <4> QED BY <2>1, <3>2, <4>3
      <3> QED BY <3>1, <3>2
    <2>5. GpuOf[t] \in Gpu /\ deven'[GpuOf[t]] = "ENABLED"
          /\ \A h \in Gpu : h # GpuOf[t] => deven'[h] = deven[h]
      BY <1>0, <2>3, Devices DEF TypeDev
    <2>6. CommandInv'
      BY <2>4, <2>5 DEF CommandInv
    <2>7. EnablingInv'
      BY <2>1, <2>2, <2>4, <2>5 DEF EnablingInv
    <2>8. ASSUME NEW u \in Thread, Awaits(u)'
          PROVE  sem'[u] > 0 \/ u \in op'.todo \/ (Awaits(u) /\ sem'[u] >= sem[u] /\ u \notin op.todo)
      <3>1. sem[u] \in Nat /\ sem'[u] >= sem[u] /\ (u = t => sem'[u] > 0)
        BY <1>0, <2>3 DEF TypeThr
      <3>2. u # t /\ u \in op.todo => u \in op'.todo
        BY <2>4
      <3>3. u \notin op.todo => deven[GpuOf[u]] = "ENABLED"
        <4>1. CASE GpuOf[u] = GpuOf[t]
          BY <2>1, <4>1 DEF EnablingInv
        <4>2. CASE GpuOf[u] # GpuOf[t]
          BY <2>5, <2>8, <4>2, Devices DEF Awaits, Stopped
        <4> QED BY <4>1, <4>2
      <3>4. u \notin op.todo => Awaits(u)
        BY <2>2, <2>8, <3>3 DEF Awaits, Stopped
      <3> QED BY <3>1, <3>2, <3>4
    <2>9. NoLostWakeup'
      BY <1>0, <2>8, Awaiting
    <2> QED BY <2>6, <2>7, <2>9
  <1>6. ASSUME NEW t \in Thread, EnableRefused(t)
        PROVE  CommandInv' /\ EnablingInv' /\ NoLostWakeup'
    <2>1. t \in op.todo /\ op' = Idle /\ status[GpuOf[t]] # "WELL"
      BY <1>6 DEF EnableRefused, IsNext
    <2>2. UNCHANGED <<deven, status, pc, sem, pause>>
      BY <1>6 DEF EnableRefused, devVars, thrVars
    <2>3. CommandInv' /\ EnablingInv'
      BY <2>1, <2>2 DEF CommandInv, EnablingInv, Idle
    <2>4. \A u \in op.todo : deven[GpuOf[u]] # "ENABLED"
      BY <2>1 DEF EnablingInv
    <2>5. \A u \in op.todo : u \in Thread => ~Awaits(u)
      BY <2>4 DEF Awaits, Stopped
    <2>6. \A u \in Thread : (Awaits(u)' <=> Awaits(u)) /\ sem'[u] >= sem[u]
      BY <1>0, <2>2 DEF Awaits, Stopped, TypeThr
    <2>7. NoLostWakeup'
      BY <1>0, <2>5, <2>6, Awaiting
    <2> QED BY <2>3, <2>7
  <1>7. ASSUME NEW g \in Gpu, MenuEnable(g) PROVE FALSE
    BY <1>7 DEF MenuEnable, Command, Kept
  <1>8. ASSUME NEW t \in Thread, MenuPost(t) PROVE FALSE
    BY <1>8 DEF MenuPost, CommandInv
  <1> QED BY <1>1, <1>2, <1>3, <1>4, <1>5, <1>6, <1>7, <1>8 DEF Operator, Enabling

LEMMA WatchdogWakes ==
  ASSUME Kept, WakeInv, TypeThr', Watchdog
  PROVE  CommandInv' /\ EnablingInv' /\ NoLostWakeup'
  <1> USE DEF WakeInv
  <1>0. TypeThr /\ TypeDev
    BY DEF TypeOK, TypeThr, TypeDev
  <1>1. CASE SchedulePause
    <2>1. UNCHANGED <<op, deven, status, pc, sem>> /\ \A t \in Thread : pause'[t]
      BY <1>1 DEF SchedulePause, devVars
    <2>2. \A t \in Thread : ~Awaits(t)'
      BY <2>1 DEF Awaits, Stopped
    <2> QED BY <2>1, <2>2, Alone
  <1>2. CASE ScheduleResume
    <2> DEFINE resumed == {t \in Thread : deven[GpuOf[t]] # "DISABLED"}
    <2>1. UNCHANGED <<op, deven, status, pc>>
      BY <1>2 DEF ScheduleResume, devVars
    <2>2. ASSUME NEW t \in Thread, Awaits(t)'
          PROVE  sem'[t] > 0 \/ (Awaits(t) /\ sem'[t] >= sem[t])
      <3>1. t \in resumed
        BY <2>1, <2>2 DEF Awaits, Stopped
      <3>2. sem'[t] = sem[t] + 1
        BY <1>2, <3>1 DEF ScheduleResume
      <3> QED BY <1>0, <3>2 DEF TypeThr
    <2> HIDE DEF resumed, WakeInv
    <2> QED BY <2>1, <2>2, Alone
  <1>3. ASSUME NEW g \in Gpu, DeclareWell(g) \/ FindSick(g) \/ DeclareSick(g) \/ DeclareDead(g) \/ ReviveAgain(g) \/ Overheat(g)
        PROVE  FALSE
    BY <1>3 DEF DeclareWell, FindSick, DeclareSick, DeclareDead, ReviveAgain, Overheat, Watched, Kept
  <1>4. ASSUME NEW g \in Gpu, Recover(g) PROVE FALSE
    BY <1>4 DEF Recover, CommandInv
  <1> QED BY <1>1, <1>2, <1>3, <1>4 DEF Watchdog

LEMMA ReinitWakes ==
  ASSUME WakeInv, TypeThr', reinit_gpu
  PROVE  CommandInv' /\ EnablingInv' /\ NoLostWakeup'
  <1> USE DEF WakeInv
  <1>0. TypeThr /\ TypeDev
    BY DEF TypeOK, TypeThr, TypeDev
  <1>1. UNCHANGED <<op, deven, status, pause>>
    BY DEF reinit_gpu, ReinitPop, ReinitQuit, ReinitFails, ReinitKill, ReinitMake, ReinitPost, devVars, thrVars
  <1>2. ASSUME NEW u \in Thread, Awaits(u)'
        PROVE  sem'[u] > 0 \/ (Awaits(u) /\ sem'[u] >= sem[u])
    <2>1. pc'[u] = "disabled"
      BY <1>2 DEF Awaits
    <2>2. pc[u] = "disabled" /\ (sem'[u] = sem[u] \/ sem'[u] = sem[u] + 1)
      <3>1. CASE ReinitPop \/ ReinitQuit \/ ReinitFails
        BY <2>1, <3>1 DEF ReinitPop, ReinitQuit, ReinitFails, thrVars
      <3>2. ASSUME NEW t \in Thread, ReinitKill(t) PROVE pc[u] = "disabled" /\ sem'[u] = sem[u]
        BY <1>0, <2>1, <3>2 DEF ReinitKill, Goto, TypeThr
      <3>3. ASSUME NEW t \in Thread, ReinitMake(t) PROVE pc[u] = "disabled" /\ sem'[u] = sem[u]
        BY <1>0, <2>1, <3>3 DEF ReinitMake, Goto, TypeThr
      <3>4. ASSUME NEW t \in Thread, ReinitPost(t)
            PROVE  pc[u] = "disabled" /\ (sem'[u] = sem[u] \/ sem'[u] = sem[u] + 1)
        BY <1>0, <2>1, <3>4 DEF ReinitPost, Post, TypeThr
      <3> QED BY <3>1, <3>2, <3>3, <3>4 DEF reinit_gpu
    <2>3. Awaits(u)
      BY <1>1, <1>2, <2>2 DEF Awaits, Stopped
    <2>4. sem[u] \in Nat
      BY <1>0 DEF TypeThr
    <2> QED BY <2>2, <2>3, <2>4
  <1> QED BY <1>1, <1>2, Alone

LEMMA NextWakes ==
  ASSUME Kept, WakeInv, TypeThr', [Next]_vars
  PROVE  CommandInv' /\ EnablingInv' /\ NoLostWakeup'
  <1>0. TypeThr /\ TypeDev
    BY DEF WakeInv, TypeOK, TypeThr, TypeDev
  <1>1. ASSUME UNCHANGED <<op, deven, pc, sem, pause>>,
               \A g \in Gpu : status[g] = "WELL" => status'[g] = "WELL"
        PROVE  CommandInv' /\ EnablingInv' /\ NoLostWakeup'
    <2>1. \A t \in Thread : (Awaits(t)' <=> Awaits(t)) /\ sem'[t] >= sem[t]
      BY <1>0, <1>1 DEF Awaits, Stopped, TypeThr
    <2> QED BY <1>1, <2>1, Alone
  <1>2. ASSUME NEW t \in Thread, ZombieReturns(t)
        PROVE  CommandInv' /\ EnablingInv' /\ NoLostWakeup'
    BY <1>0, <1>1, <1>2, Reported DEF ZombieReturns
  <1>3. CASE (\E t \in Thread : Age(t)) \/ restart_thread \/ UNCHANGED vars
    BY <1>1, <1>3 DEF Age, restart_thread, vars, devVars, thrVars
  <1> QED BY <1>2, <1>3, MinerWakes, OperatorWakes, WatchdogWakes, ReinitWakes DEF Next

(* No wakeup is lost, whatever the API, the schedule and reinit_gpu do.    *)
THEOREM WakeupKept ==
  ASSUME Kept
  PROVE  Spec => []NoLostWakeup
  <1>1. Init => WakeInv
    <2> SUFFICES ASSUME Init PROVE WakeInv
      OBVIOUS
    <2>1. CommandInv
      BY DEF Init, CommandInv, Idle
    <2>2. EnablingInv
      BY DEF Init, EnablingInv, Idle
    <2>3. NoLostWakeup
      BY DEF Init, NoLostWakeup
    <2> QED BY <2>1, <2>2, <2>3, InitTypes DEF WakeInv
  <1>2. WakeInv /\ [Next]_vars => WakeInv'
    <2> SUFFICES ASSUME WakeInv, [Next]_vars PROVE WakeInv'
      OBVIOUS
    <2>1. TypeOK'
      <3>1. TypeOK
        BY DEF WakeInv
      <3>2. TypeDev /\ TypeThr /\ TypeFlags /\ TypeReinit /\ TypeOp
        BY <3>1 DEF TypeOK, TypeDev, TypeThr, TypeFlags, TypeReinit, TypeOp
      <3>3. TypeDev' /\ TypeThr' /\ TypeFlags' /\ TypeReinit' /\ TypeOp'
        BY <3>2, PartTypes
      <3> QED BY <3>3 DEF TypeOK, TypeDev, TypeThr, TypeFlags, TypeReinit, TypeOp
    <2>2. TypeThr'
      BY <2>1 DEF TypeOK, TypeThr
    <2> QED BY <2>1, <2>2, NextWakes DEF WakeInv
  <1>3. WakeInv => NoLostWakeup
    BY DEF WakeInv
  <1> QED BY <1>1, <1>2, <1>3, PTL DEF Spec

=============================================================================
