---------------------------- MODULE MinerThreads ----------------------------
(***************************************************************************)
(* The threads that mine (miner_thread and hash_sole_work of sgminer.c)    *)
(* and all that stop, wake and replace them: the operator (api.c and the   *)
(* menu of driver-opencl.c), the watchdog with its schedule, the autotuner *)
(* of adl.c, restart_thread and reinit_gpu.                                *)
(*                                                                         *)
(* A thread is told to stop through deven and pause and sleeps on its      *)
(* semaphore; who wants it back must change what it was told and post.     *)
(* Works are left out: what counts is that a thread that waits for one     *)
(* does so within hash_pop, on stgd_lock.                                  *)
(***************************************************************************)
EXTENDS Integers, FiniteSets, Sequences

CONSTANTS GpuOf,     \* the device of each mining thread, by number
          NoThread,
          Events,    \* what may happen, see below
          MaxPosts,  \* bound: no command posts to a semaphore that high
          MaxQueue   \* bound of the requests to reinit_gpu

Thread == DOMAIN GpuOf
Gpu == {GpuOf[t] : t \in Thread}
ThreadsOf(g) == {t \in Thread : GpuOf[t] = g}

ASSUME ConstantsAssumption ==
  /\ Thread = 0 .. Cardinality(Thread) - 1 /\ Thread # {}
  /\ \A t, u, v \in Thread : t < u /\ u < v /\ GpuOf[t] = GpuOf[v] => GpuOf[u] = GpuOf[t]
  /\ NoThread \notin Thread
  /\ MaxPosts \in Nat /\ MaxQueue \in Nat
  /\ Events \subseteq {"gpuenable", "gpudisable", "gpurestart", "menu", "intensity",
                       "schedule", "autotune", "restart", "hang", "failure"}

VARIABLES
  deven, status, dynamic,      \* of a device
  pc,                          \* of a thread, as are the following
  sem, pause, getwork, work_restart,
  age,                         \* of the time it last reported
  zombies,                     \* cancelled threads that have not returned
  stgd_lock,                   \* who keeps it for good
  sched_paused,
  judged,                      \* the device the watchdog has found too old
  op,                          \* the command of the operator under way
  queue, reinit                \* reinit_gpu

devVars  == <<deven, status, dynamic>>
thrVars  == <<pc, sem, pause, getwork, work_restart, age>>
reinitVars == <<zombies, stgd_lock, queue, reinit>>
vars == <<devVars, thrVars, reinitVars, sched_paused, judged, op>>

First(g) == CHOOSE t \in ThreadsOf(g) : \A u \in ThreadsOf(g) : t <= u
IsNext(t, todo) == t \in todo /\ \A u \in todo : t <= u
Idle == [at |-> "free", todo |-> {}]
Goto(t, l) == pc' = [pc EXCEPT ![t] = l]
Post(t) == sem' = [sem EXCEPT ![t] = @ + 1]
Take(t) == sem[t] > 0 /\ sem' = [sem EXCEPT ![t] = @ - 1]

(* main: the threads of a device that is not to mine get no post.          *)
Init ==
  /\ deven \in [Gpu -> {"ENABLED", "DISABLED"}]
  /\ status = [g \in Gpu |-> "INIT"]
  /\ dynamic = [g \in Gpu |-> FALSE]
  /\ pc = [t \in Thread |-> "init"]
  /\ sem = [t \in Thread |-> IF deven[GpuOf[t]] = "DISABLED" THEN 0 ELSE 1]
  /\ pause = [t \in Thread |-> FALSE]
  /\ getwork = [t \in Thread |-> TRUE]
  /\ work_restart = {}
  /\ age = [t \in Thread |-> "fresh"]
  /\ zombies = {}
  /\ stgd_lock = NoThread
  /\ sched_paused = FALSE
  /\ judged = {}
  /\ op = Idle
  /\ queue = <<>>
  /\ reinit = [at |-> "pop", todo |-> {}]

-----------------------------------------------------------------------------
(* miner_thread and hash_sole_work.                                        *)

(* thread_reportin, thread_reportout.                                      *)
Report(t, out) ==
  /\ getwork' = [getwork EXCEPT ![t] = out]
  /\ age' = [age EXCEPT ![t] = "fresh"]
  /\ status' = [status EXCEPT ![GpuOf[t]] = "WELL"]

(* The next work, or the same again.                                       *)
Again(t) ==
  \/ Goto(t, "getwork") /\ Report(t, TRUE)
  \/ Goto(t, "scan") /\ Report(t, FALSE)

ThreadInit(t) ==
  /\ pc[t] = "init"
  /\ Goto(t, "start") /\ Report(t, TRUE)
  /\ UNCHANGED <<deven, dynamic, sem, pause, work_restart, reinitVars, sched_paused, judged, op>>

Start(t) ==
  /\ pc[t] = "start"
  /\ Take(t)
  /\ Goto(t, "getwork") /\ Report(t, TRUE)
  /\ UNCHANGED <<deven, dynamic, pause, work_restart, reinitVars, sched_paused, judged, op>>

GetWork(t) ==
  /\ pc[t] = "getwork" /\ stgd_lock = NoThread
  /\ work_restart' = work_restart \ {t}
  /\ Goto(t, "scan") /\ Report(t, FALSE)
  /\ UNCHANGED <<deven, dynamic, sem, pause, reinitVars, sched_paused, judged, op>>

(* hashes = scanhash(...) / 8, which rounds towards 0.                     *)
Eighth(n) == IF n >= 0 THEN n \div 8 ELSE -((-n) \div 8)

ScanReturns(t, result) ==
  /\ pc[t] = "scan"
  /\ result # -1 \/ "failure" \in Events
  /\ Report(t, TRUE)
  /\ IF Eighth(result) = -1
     THEN deven' = [deven EXCEPT ![GpuOf[t]] = "DISABLED"] /\ Goto(t, "gone")
     ELSE deven' = deven /\ Goto(t, "scanned")
  /\ UNCHANGED <<dynamic, sem, pause, work_restart, reinitVars, sched_paused, judged, op>>

(* The cycle is not over: continue.                                        *)
Unchecked(t) ==
  /\ pc[t] = "scanned"
  /\ Again(t)
  /\ UNCHANGED <<deven, dynamic, sem, pause, work_restart, reinitVars, sched_paused, judged, op>>

BreakOff(t) ==
  /\ pc[t] = "scanned" /\ t \in work_restart
  /\ Goto(t, "getwork") /\ Report(t, TRUE)
  /\ UNCHANGED <<deven, dynamic, sem, pause, work_restart, reinitVars, sched_paused, judged, op>>

StoppedByPause(t) == pause[t]   \* deven is forgotten
Stopped(t) == pause[t] \/ deven[GpuOf[t]] # "ENABLED"

mt_disable(t) ==
  /\ pc[t] = "scanned" /\ t \notin work_restart
  /\ Stopped(t)
  /\ Goto(t, "disabled")
  /\ UNCHANGED <<devVars, sem, pause, getwork, work_restart, age, reinitVars, sched_paused, judged, op>>

GoOn(t) ==
  /\ pc[t] = "scanned" /\ t \notin work_restart
  /\ ~Stopped(t)
  /\ Again(t)
  /\ UNCHANGED <<deven, dynamic, sem, pause, work_restart, reinitVars, sched_paused, judged, op>>

Wake(t) ==
  /\ pc[t] = "disabled"
  /\ Take(t)
  /\ Again(t)
  /\ UNCHANGED <<deven, dynamic, pause, work_restart, reinitVars, sched_paused, judged, op>>

(* A cancelled thread that was in the driver reports once more and ends.   *)
ZombieReturns(t) ==
  /\ t \in zombies
  /\ zombies' = zombies \ {t}
  /\ Report(t, TRUE)
  /\ UNCHANGED <<deven, dynamic, pc, sem, pause, work_restart, stgd_lock, queue, reinit, sched_paused, judged, op>>

(* restart_thread.                                                         *)
restart_thread ==
  /\ "restart" \in Events
  /\ work_restart' = work_restart \union {t \in Thread : deven[GpuOf[t]] = "ENABLED"}
  /\ UNCHANGED <<devVars, pc, sem, pause, getwork, age, reinitVars, sched_paused, judged, op>>

Miner(t) == \/ ThreadInit(t) \/ Start(t) \/ GetWork(t) \/ \E r \in {-1, 8} : ScanReturns(t, r)
            \/ Unchecked(t) \/ BreakOff(t) \/ mt_disable(t) \/ GoOn(t) \/ Wake(t)

-----------------------------------------------------------------------------
(* The operator.                                                           *)

Command(c) == c \in Events /\ op.at = "free" /\ \A t \in Thread : sem[t] <= MaxPosts

gpuenable(g) ==
  /\ Command("gpuenable")
  /\ deven[g] = "DISABLED"
  /\ op' = [at |-> "gpuenable", todo |-> ThreadsOf(g)]
  /\ UNCHANGED <<devVars, thrVars, reinitVars, sched_paused, judged>>

PostThenEnable(t) ==   \* the device is enabled after the posts
  /\ op.at = "gpuenable" /\ status[GpuOf[t]] = "WELL"
  /\ IsNext(t, op.todo)
  /\ Post(t)
  /\ deven' = [deven EXCEPT ![GpuOf[t]] = IF op.todo = {t} THEN "ENABLED" ELSE @]
  /\ op' = IF op.todo = {t} THEN Idle ELSE [op EXCEPT !.todo = @ \ {t}]
  /\ UNCHANGED <<status, dynamic, pc, pause, getwork, work_restart, age, reinitVars, sched_paused, judged>>

EnableOne(t) ==
  /\ op.at = "gpuenable" /\ status[GpuOf[t]] = "WELL"
  /\ IsNext(t, op.todo)
  /\ deven' = [deven EXCEPT ![GpuOf[t]] = "ENABLED"]
  /\ Post(t)
  /\ op' = IF op.todo = {t} THEN Idle ELSE [op EXCEPT !.todo = @ \ {t}]
  /\ UNCHANGED <<status, dynamic, pc, pause, getwork, work_restart, age, reinitVars, sched_paused, judged>>

(* "Must restart device before enabling it": what was done stays done.     *)
EnableRefused(t) ==
  /\ op.at \in {"gpuenable", "menu"} /\ status[GpuOf[t]] # "WELL"
  /\ IsNext(t, op.todo)
  /\ op' = Idle
  /\ UNCHANGED <<devVars, thrVars, reinitVars, sched_paused, judged>>

(* The menu enables the device first.                                      *)
MenuEnable(g) ==
  /\ Command("menu")
  /\ deven[g] = "DISABLED"
  /\ deven' = [deven EXCEPT ![g] = "ENABLED"]
  /\ op' = [at |-> "menu", todo |-> ThreadsOf(g)]
  /\ UNCHANGED <<status, dynamic, thrVars, reinitVars, sched_paused, judged>>

MenuPost(t) ==
  /\ op.at = "menu" /\ status[GpuOf[t]] = "WELL"
  /\ IsNext(t, op.todo)
  /\ Post(t)
  /\ op' = IF op.todo = {t} THEN Idle ELSE [op EXCEPT !.todo = @ \ {t}]
  /\ UNCHANGED <<devVars, pc, pause, getwork, work_restart, age, reinitVars, sched_paused, judged>>

gpudisable(g) ==
  /\ Command("gpudisable")
  /\ deven[g] # "DISABLED"
  /\ deven' = [deven EXCEPT ![g] = "DISABLED"]
  /\ UNCHANGED <<status, dynamic, thrVars, reinitVars, sched_paused, judged, op>>

gpurestart(g) ==
  /\ Command("gpurestart")
  /\ Len(queue) < MaxQueue
  /\ queue' = Append(queue, g)
  /\ UNCHANGED <<devVars, thrVars, zombies, stgd_lock, reinit, sched_paused, judged, op>>

(* The intensity menu: pause_dynamic_threads counts the threads of the     *)
(* device from 1, but takes those of these numbers among all threads.      *)
pause_dynamic_threads(g, on) ==
  LET extra == 1 .. Cardinality(ThreadsOf(g)) - 1
  IN /\ Command("intensity")
     /\ dynamic' = [dynamic EXCEPT ![g] = on]
     /\ pause' = [t \in Thread |-> IF t \in extra THEN on ELSE pause[t]]
     /\ sem' = [t \in Thread |-> IF t \in extra /\ ~on /\ deven[g] # "DISABLED" THEN sem[t] + 1
                                 ELSE sem[t]]
     /\ UNCHANGED <<deven, status, pc, getwork, work_restart, age, reinitVars, sched_paused, judged, op>>

Enabling(t) == EnableOne(t) \/ EnableRefused(t) \/ MenuPost(t)

Operator == \/ \E g \in Gpu : \/ gpuenable(g) \/ MenuEnable(g) \/ gpudisable(g) \/ gpurestart(g)
                              \/ \E on \in BOOLEAN : pause_dynamic_threads(g, on)
            \/ \E t \in Thread : Enabling(t)

-----------------------------------------------------------------------------
(* watchdog_thread: the schedule, the autotuner, the life of the devices.  *)

SchedulePause ==
  /\ "schedule" \in Events /\ ~sched_paused /\ judged = {}
  /\ sched_paused' = TRUE
  /\ pause' = [t \in Thread |-> TRUE]
  /\ UNCHANGED <<devVars, pc, sem, getwork, work_restart, age, reinitVars, judged, op>>

ScheduleResume ==   \* disabled devices are not touched
  LET resumed == {t \in Thread : deven[GpuOf[t]] # "DISABLED"}
  IN /\ sched_paused /\ judged = {} /\ \A t \in Thread : sem[t] <= MaxPosts
     /\ sched_paused' = FALSE
     /\ pause' = [t \in Thread |-> pause[t] /\ t \notin resumed]
     /\ sem' = [t \in Thread |-> IF t \in resumed THEN sem[t] + 1 ELSE sem[t]]
     /\ UNCHANGED <<devVars, pc, getwork, work_restart, age, reinitVars, judged, op>>

Overheat(g) ==   \* gpu_autotune: the cutoff
  /\ "autotune" \in Events /\ judged = {}
  /\ deven' = [deven EXCEPT ![g] = "RECOVER"]
  /\ UNCHANGED <<status, dynamic, thrVars, reinitVars, sched_paused, judged, op>>

Recover(g) ==    \* gpu_autotune: below the target again
  /\ deven[g] = "RECOVER" /\ judged = {}
  /\ deven' = [deven EXCEPT ![g] = "ENABLED"]
  /\ UNCHANGED <<status, dynamic, thrVars, reinitVars, sched_paused, judged, op>>

(* Time passes for a thread within the driver: 2 minutes, then 10.         *)
Age(t) ==
  /\ "hang" \in Events /\ ~getwork[t]
  /\ age[t] # "dead"
  /\ age' = [age EXCEPT ![t] = IF @ = "fresh" THEN "sick" ELSE "dead"]
  /\ UNCHANGED <<devVars, pc, sem, pause, getwork, work_restart, reinitVars, sched_paused, judged, op>>

WatchedIdle(g) ==   \* the flag is taken the wrong way round
  "hang" \in Events /\ judged = {} /\ getwork[First(g)] /\ deven[g] # "DISABLED"
Watched(g) ==
  "hang" \in Events /\ judged = {} /\ ~getwork[First(g)] /\ deven[g] # "DISABLED"

SetStatus(g, s) == status' = [status EXCEPT ![g] = s]

DeclareWell(g) ==
  /\ Watched(g) /\ status[g] # "WELL" /\ age[First(g)] = "fresh"
  /\ SetStatus(g, "WELL")
  /\ UNCHANGED <<deven, dynamic, thrVars, reinitVars, sched_paused, judged, op>>

(* reinit_device, unless the GPU still shows activity.                     *)
TryReinit(g) ==
  \/ UNCHANGED queue
  \/ Len(queue) < MaxQueue /\ queue' = Append(queue, g)

(* The device may report between the test and what follows from it.        *)
FindSick(g) ==
  /\ Watched(g) /\ status[g] = "WELL" /\ age[First(g)] # "fresh"
  /\ judged' = {g}
  /\ UNCHANGED <<devVars, thrVars, reinitVars, sched_paused, op>>

DeclareSick(g) ==
  /\ "hang" \in Events /\ g \in judged
  /\ SetStatus(g, "SICK")
  /\ TryReinit(g)
  /\ judged' = {}
  /\ UNCHANGED <<deven, dynamic, thrVars, zombies, stgd_lock, reinit, sched_paused, op>>

DeclareDead(g) ==
  /\ Watched(g) /\ status[g] = "SICK" /\ age[First(g)] = "dead"
  /\ SetStatus(g, "DEAD")
  /\ UNCHANGED <<deven, dynamic, thrVars, reinitVars, sched_paused, judged, op>>

ReviveAgain(g) ==
  /\ Watched(g) /\ age[First(g)] # "fresh"
  /\ status[g] = "DEAD" \/ (status[g] = "SICK" /\ age[First(g)] # "dead")
  /\ Len(queue) < MaxQueue /\ queue' = Append(queue, g)
  /\ UNCHANGED <<devVars, thrVars, zombies, stgd_lock, reinit, sched_paused, judged, op>>

Watchdog == \/ SchedulePause \/ ScheduleResume
            \/ \E g \in Gpu : \/ Overheat(g) \/ Recover(g)
                              \/ DeclareWell(g) \/ FindSick(g) \/ DeclareSick(g) \/ DeclareDead(g)
                              \/ ReviveAgain(g)

-----------------------------------------------------------------------------
(* reinit_gpu: cancels the threads of a device, then makes them anew.      *)

ReinitPop ==
  /\ reinit.at = "pop" /\ queue # <<>>
  /\ queue' = Tail(queue)
  /\ reinit' = [at |-> "kill", todo |-> ThreadsOf(Head(queue))]
  /\ UNCHANGED <<devVars, thrVars, zombies, stgd_lock, sched_paused, judged, op>>

ReinitQuit ==   \* clDevicesNum() has changed
  /\ reinit.at = "pop" /\ queue # <<>>
  /\ queue' = Tail(queue)
  /\ reinit' = [at |-> "exit", todo |-> {}]
  /\ UNCHANGED <<devVars, thrVars, zombies, stgd_lock, sched_paused, judged, op>>

(* A thread that waits in hash_pop dies with stgd_lock, one in the driver  *)
(* when it returns (bound: a number has one such thread at a time).        *)
ReinitKill(t) ==
  LET left == reinit.todo \ {t}
  IN /\ reinit.at = "kill" /\ IsNext(t, reinit.todo)
     /\ pc[t] = "scan" => t \notin zombies
     /\ zombies' = IF pc[t] = "scan" THEN zombies \union {t} ELSE zombies
     /\ \/ stgd_lock' = stgd_lock
        \/ pc[t] = "getwork" /\ stgd_lock = NoThread /\ stgd_lock' = t
     /\ Goto(t, "dead")
     /\ reinit' = IF left = {} THEN [at |-> "make", todo |-> ThreadsOf(GpuOf[t])]
                  ELSE [reinit EXCEPT !.todo = left]
     /\ UNCHANGED <<devVars, sem, pause, getwork, work_restart, age, queue, sched_paused, judged, op>>

ReinitMake(t) ==
  LET left == reinit.todo \ {t}
  IN /\ reinit.at = "make" /\ IsNext(t, reinit.todo)
     /\ sem' = [sem EXCEPT ![t] = 0]
     /\ Goto(t, "init")
     /\ reinit' = IF left = {} THEN [at |-> "post", todo |-> ThreadsOf(GpuOf[t])]
                  ELSE [reinit EXCEPT !.todo = left]
     /\ UNCHANGED <<devVars, pause, getwork, work_restart, age, zombies, stgd_lock, queue, sched_paused, judged, op>>

ReinitFails ==   \* initCl
  /\ reinit.at = "make"
  /\ reinit' = [at |-> "pop", todo |-> {}]
  /\ UNCHANGED <<devVars, thrVars, zombies, stgd_lock, queue, sched_paused, judged, op>>

ReinitPost(t) ==
  LET left == reinit.todo \ {t}
  IN /\ reinit.at = "post" /\ IsNext(t, reinit.todo)
     /\ Post(t)
     /\ reinit' = IF left = {} THEN [at |-> "pop", todo |-> {}] ELSE [reinit EXCEPT !.todo = left]
     /\ UNCHANGED <<devVars, pc, pause, getwork, work_restart, age, zombies, stgd_lock, queue, sched_paused, judged, op>>

reinit_gpu == \/ ReinitPop \/ ReinitQuit \/ ReinitFails
              \/ \E t \in Thread : ReinitKill(t) \/ ReinitMake(t) \/ ReinitPost(t)

-----------------------------------------------------------------------------

Next == \/ \E t \in Thread : Miner(t) \/ ZombieReturns(t) \/ Age(t)
        \/ restart_thread \/ Operator \/ Watchdog \/ reinit_gpu

Spec == Init /\ [][Next]_vars

Checked(t) == BreakOff(t) \/ mt_disable(t) \/ GoOn(t)

(* The driver returns, the pools give work, a cycle ends in the end, and   *)
(* the operator and reinit_gpu finish what they began.                     *)
FairSpec ==
  /\ Spec
  /\ \A t \in Thread : WF_vars(Miner(t)) /\ SF_vars(Checked(t))
  /\ WF_vars(\E t \in Thread : Enabling(t))
  /\ WF_vars(reinit_gpu)

(* The driver may hang: only the watchdog goes on.                         *)
HangSpec == Spec /\ \A g \in Gpu : WF_vars(FindSick(g)) /\ WF_vars(DeclareSick(g))

-----------------------------------------------------------------------------

TypeOK ==
  /\ deven \in [Gpu -> {"ENABLED", "DISABLED", "RECOVER"}]
  /\ status \in [Gpu -> {"INIT", "WELL", "SICK", "DEAD"}]
  /\ dynamic \in [Gpu -> BOOLEAN]
  /\ pc \in [Thread -> {"init", "start", "getwork", "scan", "scanned", "disabled", "gone", "dead"}]
  /\ sem \in [Thread -> Nat]
  /\ pause \in [Thread -> BOOLEAN] /\ getwork \in [Thread -> BOOLEAN]
  /\ work_restart \subseteq Thread
  /\ age \in [Thread -> {"fresh", "sick", "dead"}]
  /\ zombies \subseteq Thread
  /\ stgd_lock \in Thread \union {NoThread}
  /\ sched_paused \in BOOLEAN
  /\ judged \subseteq Gpu
  /\ op \in [at : {"free", "gpuenable", "menu"}, todo : SUBSET Thread]
  /\ op.at # "free" => op.todo # {}
  /\ queue \in Seq(Gpu)
  /\ reinit \in [at : {"pop", "kill", "make", "post", "exit"}, todo : SUBSET Thread]
  /\ reinit.at \in {"kill", "make", "post"} => reinit.todo # {}

(* No wakeup is lost: a thread that sleeps in mt_disable though its device *)
(* is enabled and it is not paused has a post to wake it, or the command   *)
(* that enabled the device has still to post to it.                        *)
NoLostWakeup ==
  \A t \in Thread :
    pc[t] = "disabled" /\ ~Stopped(t) => sem[t] > 0 \/ t \in op.todo

(* A device that stays disabled stops hashing, whatever posts the commands *)
(* before have left on the semaphores of its threads.                      *)
Stops ==
  \A t \in Thread :
    <>[](deven[GpuOf[t]] = "DISABLED") => <>[](pc[t] # "scan")

(* A device that stays enabled mines: each of its threads that is not      *)
(* paused comes back to the driver again and again.                        *)
Mines ==
  \A t \in Thread :
    <>[](deven[GpuOf[t]] = "ENABLED" /\ ~pause[t]) => []<>(pc[t] = "scan")

(* A device whose first thread hangs in the driver for more than two       *)
(* minutes is found sick, though its other threads declare it well.        *)
Noticed ==
  \A g \in Gpu :
    <>[](pc[First(g)] = "scan" /\ age[First(g)] # "fresh" /\ deven[g] # "DISABLED")
      => []<>(status[g] # "WELL")

-----------------------------------------------------------------------------
(* What documents and messages say and the code does not keep to.          *)

(* doc/GPU: a device over the cutoff limit "will not be re-enabled unless  *)
(* manually done so".                                                      *)
EnabledByHand ==
  [][\A g \in Gpu : deven[g] # "ENABLED" /\ deven'[g] = "ENABLED" => Operator]_vars

(* driver-opencl.c: "In dynamic mode, only the first thread of each device *)
(* will be in use."                                                        *)
OnlyFirstInUse ==
  [][\A g \in Gpu : pause_dynamic_threads(g, TRUE)
       => \A t \in ThreadsOf(g) \ {First(g)} : pause'[t]]_vars

(* hash_sole_work: "%s %d failure, disabling!".                            *)
FailureDisables ==
  [][\A t \in Thread : ScanReturns(t, -1) => deven'[GpuOf[t]] = "DISABLED"]_vars

(* reinit_gpu: a device that fails to restart is "unable to harm other     *)
(* GPUs": a thread of another device gets work.                            *)
OthersGetWork ==
  \A t \in Thread : pc[t] = "getwork" ~> pc[t] # "getwork"

=============================================================================
