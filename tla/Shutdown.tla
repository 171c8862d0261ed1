------------------------------ MODULE Shutdown ------------------------------
(***************************************************************************)
(* How the program ends: __kill_work cancels the watchpool thread, the     *)
(* watchdog, the miners and the API, each through cg_completion_timeout,   *)
(* which lends the work to a helper thread and waits for it with a time    *)
(* limit; then clean_up.  A thread may die with the console lock, so the   *)
(* messages on the way out are forced.                                     *)
(*                                                                         *)
(* killer is where the thread that ends the program is:                    *)
(*   up                  not called yet                                    *)
(*   force log      within forcelog: before its trylock and unlock, before *)
(*                  its mutex_lock                                         *)
(*   spawn await join free cancel   within cg_completion_timeout           *)
(*   curses summary done            within clean_up, ended                 *)
(***************************************************************************)
EXTENDS Naturals, Sequences

CONSTANTS Targets,    \* the threads each completion cancels: in __kill_work
                      \* the watchpool's, the watchdog, the miners, the API's
          Unowned,    \* the owner of a free console lock
          LateLog     \* whether a thread may log after its cancellation

Stage  == 1 .. Len(Targets)
Worker == UNION {Targets[s] : s \in Stage}

ASSUME ShutdownAssumption == /\ Len(Targets) \in Nat \ {0}
                             /\ Unowned \notin Worker
                             /\ LateLog \in BOOLEAN

VARIABLES killer,    \* where the killer is
          stage,     \* the completion it is at
          restarting,\* app_restart or kill_work
          helper,    \* each completion's thread
          cgc,       \* each completion's record
          cgsem,     \* and the semaphore in it
          worker,    \* the threads to be cancelled
          console    \* console_lock: its owner

shutdownVars == <<killer, stage, restarting, helper, cgc, cgsem, worker, console>>

ShutdownInit == /\ killer = "up"
                /\ stage = 1
                /\ restarting \in BOOLEAN
                /\ helper = [s \in Stage |-> "none"]
                /\ cgc = [s \in Stage |-> "none"]
                /\ cgsem = [s \in Stage |-> 0]
                /\ worker = [w \in Worker |-> "runs"]
                /\ console = Unowned

-----------------------------------------------------------------------------
(* The killer.                                                             *)

At(from, to) == killer = from /\ killer' = to

(* app_restart, or kill_work by a signal, the API or the menu.             *)
Begin == /\ At("up", "force")
         /\ UNCHANGED <<stage, restarting, helper, cgc, cgsem, worker, console>>

\* Faulty: the lock is not invalidated first.
LogUnforced == /\ At("force", "log")
               /\ UNCHANGED <<stage, restarting, helper, cgc, cgsem, worker, console>>

ForceUnlock == /\ At("force", "log")
         /\ console' = Unowned
         /\ UNCHANGED <<stage, restarting, helper, cgc, cgsem, worker>>

Log == /\ At("log", "spawn")
       /\ console = Unowned
       /\ UNCHANGED <<stage, restarting, helper, cgc, cgsem, worker, console>>

Spawn == /\ At("spawn", "await")
         /\ helper' = [helper EXCEPT ![stage] = "runs"]
         /\ cgc' = [cgc EXCEPT ![stage] = "live"]
         /\ UNCHANGED <<stage, restarting, cgsem, worker, console>>

Completed == /\ At("await", "join")
             /\ cgsem[stage] > 0
             /\ cgsem' = [cgsem EXCEPT ![stage] = @ - 1]
             /\ UNCHANGED <<stage, restarting, helper, cgc, worker, console>>

\* Faulty: the record is freed without waiting for the thread to end.
FreeUnjoined == /\ At("join", "free")
                /\ UNCHANGED <<stage, restarting, helper, cgc, cgsem, worker, console>>

Join == /\ At("join", "free")
        /\ helper[stage] = "ended"
        /\ UNCHANGED <<stage, restarting, helper, cgc, cgsem, worker, console>>

(* Each completion follows a forced message; clean_up prints none, but its *)
(* disable_curses forces the lock again.                                   *)
Onward == IF stage < Len(Targets) THEN killer' = "force" /\ stage' = stage + 1
                       ELSE killer' = "curses" /\ UNCHANGED stage

Free == /\ killer = "free"
        /\ cgc' = [cgc EXCEPT ![stage] = "freed"]
        /\ Onward
        /\ UNCHANGED <<restarting, helper, cgsem, worker, console>>

\* Faulty: the thread that took too long is waited for.
JoinHung == /\ At("await", "join")
            /\ UNCHANGED <<stage, restarting, helper, cgc, cgsem, worker, console>>

TimedOut == /\ At("await", "cancel")
            /\ UNCHANGED <<stage, restarting, helper, cgc, cgsem, worker, console>>

CancelHelper == /\ killer = "cancel"
                /\ helper' = [helper EXCEPT ![stage] = IF @ = "ended" THEN @ ELSE "doomed"]
                /\ Onward
                /\ UNCHANGED <<restarting, cgc, cgsem, worker, console>>

disable_curses == /\ At("curses", IF restarting THEN "done" ELSE "summary")
                  /\ console' = Unowned
                  /\ UNCHANGED <<stage, restarting, helper, cgc, cgsem, worker>>

print_summary == /\ At("summary", "done")
                 /\ console = Unowned
                 /\ UNCHANGED <<stage, restarting, helper, cgc, cgsem, worker, console>>

Kill == \/ ForceUnlock \/ Log \/ Spawn \/ Completed \/ Join \/ Free \/ TimedOut
        \/ CancelHelper \/ disable_curses \/ print_summary

-----------------------------------------------------------------------------
(* The helper of a completion: it may hang where it is.                    *)

(* thr_info_cancel or kill_mining: the threads are asked to end.  (The     *)
(* latter's pthread_join is never reached, since PTH was set to 0 by then.)*)
CancelWorkers(s) == /\ helper[s] = "runs"
                    /\ helper' = [helper EXCEPT ![s] = "posts"]
                    /\ worker' = [w \in Worker |->
                                    IF w \in Targets[s] /\ worker[w] = "runs"
                                    THEN "cancelled" ELSE worker[w]]
                    /\ UNCHANGED <<killer, stage, restarting, cgc, cgsem, console>>

Posts(s) == /\ helper[s] = "posts"
            /\ helper' = [helper EXCEPT ![s] = "posted"]
            /\ cgsem' = [cgsem EXCEPT ![s] = @ + 1]
            /\ UNCHANGED <<killer, stage, restarting, cgc, worker, console>>

HelperEnds(s) == /\ helper[s] = "posted"
                 /\ helper' = [helper EXCEPT ![s] = "ended"]
                 /\ UNCHANGED <<killer, stage, restarting, cgc, cgsem, worker, console>>

(* A cancelled helper ends at any later time, with or without its post.    *)
DoomedEnds(s) == /\ helper[s] = "doomed"
                 /\ helper' = [helper EXCEPT ![s] = "ended"]
                 /\ cgsem' \in {cgsem, [cgsem EXCEPT ![s] = 1]}
                 /\ UNCHANGED <<killer, stage, restarting, cgc, worker, console>>

(* Threads that log, and die where they are when cancelled.                *)
TakeConsole(w) == /\ worker[w] \in {"runs", IF LateLog THEN "cancelled" ELSE "runs"}
                  /\ console = Unowned
                  /\ console' = w
                  /\ UNCHANGED <<killer, stage, restarting, helper, cgc, cgsem, worker>>

LeaveConsole(w) == /\ worker[w] # "dead"
                   /\ console = w
                   /\ console' = Unowned
                   /\ UNCHANGED <<killer, stage, restarting, helper, cgc, cgsem, worker>>

Die(w) == /\ worker[w] = "cancelled"
          /\ worker' = [worker EXCEPT ![w] = "dead"]
          /\ UNCHANGED <<killer, stage, restarting, helper, cgc, cgsem, console>>

ShutdownNext == \/ Begin \/ Kill
                \/ \E s \in Stage : CancelWorkers(s) \/ Posts(s) \/ HelperEnds(s) \/ DoomedEnds(s)
                \/ \E w \in Worker : TakeConsole(w) \/ LeaveConsole(w) \/ Die(w)

ShutdownSpec == ShutdownInit /\ [][ShutdownNext]_shutdownVars

(* The killer goes on, time limits pass, a lock that is given back again   *)
(* and again is got, a thread that has posted returns, one that runs       *)
(* leaves the console.  A helper may hang for ever.                        *)
ShutdownFairness ==
  /\ WF_shutdownVars(Kill)
  /\ SF_shutdownVars(Log) /\ SF_shutdownVars(print_summary)
  /\ \A s \in Stage : WF_shutdownVars(HelperEnds(s))
  /\ \A w \in Worker : WF_shutdownVars(LeaveConsole(w))

-----------------------------------------------------------------------------

(* Every variable has its type.                                            *)
ShutdownTypeOK ==
  /\ killer \in {"up", "force", "log", "spawn", "await", "join", "free", "cancel",
                 "curses", "summary", "done"}
  /\ stage \in Stage
  /\ restarting \in BOOLEAN
  /\ helper \in [Stage -> {"none", "runs", "posts", "posted", "doomed", "ended"}]
  /\ cgc \in [Stage -> {"none", "live", "freed"}]
  /\ cgsem \in [Stage -> 0 .. 1]
  /\ worker \in [Worker -> {"runs", "cancelled", "dead"}]
  /\ console \in Worker \union {Unowned}

(* The record of a completion is not freed while its helper can still      *)
(* touch it, whether the answer is in time, late, or races the limit.      *)
NoUseAfterFree == \A s \in Stage : cgc[s] = "freed" => helper[s] \in {"none", "ended"}

(* pthread_join of a completion that came in time waits for a thread that  *)
(* has only to return, never for one that may hang.                        *)
JoinReturns == killer = "join" => helper[stage] \in {"posted", "ended"}

(* Where a message waits for the console lock after the lock was forced,   *)
(* it waits for a thread that runs: if no thread logs once it is cancelled,*)
(* no dead one holds it.                                                   *)
ConsoleComesBack ==
  ~LateLog /\ killer \in {"log", "summary"} /\ console # Unowned => worker[console] = "runs"

(* Once it is asked to, the program ends, although helpers may hang and    *)
(* threads may die with the console lock.                                  *)
ShutdownEnds == killer = "force" ~> killer = "done"

=============================================================================
