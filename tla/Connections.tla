---------------------------- MODULE Connections -----------------------------
(***************************************************************************)
(* Which pools are connected.  Every pool has a thread: the receiver of a  *)
(* stratum pool, which keeps the connection while it is needed; for a      *)
(* getwork pool, its longpoll thread.  Both wait in wait_lpcurrent until   *)
(* the pool is the current one or otherwise needed.  The strategy is       *)
(* failover; the pools of the start have been tested.  What switch_pools   *)
(* does but for the choice of the best pool is in PoolSwitch.              *)
(*                                                                         *)
(* A thread is                                                             *)
(*   loop     of a receiver: connected, before it looks at its connection  *)
(*   poll     of a longpoll thread: in its call                            *)
(*   test     before the condition of wait_lpcurrent                       *)
(*   before asleep   it found that it has to wait; in pthread_cond_wait    *)
(*   restart  before restart_stratum                                       *)
(*   retry    in the loop of restarts once the pool is dead                *)
(***************************************************************************)
EXTENDS Naturals, FiniteSets

CONSTANTS Pool,
          MaxPending  \* bound: threads between a switch and its broadcast

ASSUME ConnectionsAssumption == /\ IsFiniteSet(Pool) /\ Pool # {}
                                /\ MaxPending \in Nat \ {0}

VARIABLES stratum,     \* the pools for which has_stratum
          leaky,       \* works leak from getwork pools: not opt_fail_only
          prio, enabled, idle,
          active,      \* stratum_active
          current,     \* currentpool
          doing,       \* where the pool's thread is
          broadcasts,  \* switches whose broadcast is to come
          up,          \* the pools that answer
          kept,        \* those with shares to be answered; all if no_work
          lost         \* ghost: the threads that were not told

optionVars  == <<stratum, leaky>>
outsideVars == <<up, kept>>
choiceVars  == <<prio, current, broadcasts>>
connVars == <<optionVars, outsideVars, choiceVars, enabled, idle, active, doing, lost>>

Unworkable(p) == p \in idle \/ p \notin enabled \/ (p \in stratum /\ p \notin active)

cnx_needed(p) == /\ p \in enabled
                 /\ \/ p \in stratum /\ p \in idle
                    \/ p = current
                    \/ current \notin stratum /\ leaky
                    \/ p \in kept
                    \/ prio[p] < prio[current]
                    \/ Unworkable(current)

MustWait(p) == ~cnx_needed(p) /\ (p \notin enabled \/ p # current)

ConnInit == /\ stratum \in SUBSET Pool
            /\ leaky \in BOOLEAN
            /\ prio \in {f \in [Pool -> 0 .. Cardinality(Pool) - 1] :
                           \A p, q \in Pool : f[p] = f[q] => p = q}
            /\ enabled = Pool /\ idle = {} /\ active = stratum
            /\ current \in Pool /\ prio[current] = 0
            /\ doing = [p \in Pool |-> IF p \in stratum THEN "loop" ELSE "test"]
            /\ broadcasts = 0
            /\ up = Pool /\ kept = {}
            /\ lost = {}

-----------------------------------------------------------------------------
(* switch_pools.  The lists of the pools change first.                     *)

Best(pr, en, id) == CHOOSE p \in en \ id : \A q \in en \ id : pr[p] <= pr[q]

Promote(s) == [p \in Pool |-> IF p = s THEN 0
                              ELSE IF prio[p] < prio[s] THEN prio[p] + 1 ELSE prio[p]]

switch_pools(pr, en, id) ==
  /\ broadcasts < MaxPending
  /\ prio' = pr
  /\ current' = IF en \ id = {} THEN current ELSE Best(pr, en, id)
  /\ broadcasts' = broadcasts + 1

\* pthread_cond_broadcast finds those that sleep; one that has to be woken but
\* is not asleep yet will not hear of it.
Broadcast ==
  /\ broadcasts > 0
  /\ broadcasts' = broadcasts - 1
  /\ doing' = [p \in Pool |-> IF doing[p] = "asleep" THEN "test" ELSE doing[p]]
  /\ lost' = {p \in lost : doing[p] # "asleep"}
               \union {p \in Pool : doing[p] = "before" /\ ~MustWait(p)}
  /\ UNCHANGED <<optionVars, outsideVars, prio, current, enabled, idle, active>>

pool_died(p) == /\ idle' = idle \union {p}
                /\ IF p = current /\ p \notin idle
                   THEN switch_pools(prio, enabled, idle')
                   ELSE UNCHANGED choiceVars

-----------------------------------------------------------------------------
(* wait_lpcurrent.                                                         *)

Turn(p, from, to) == doing[p] = from /\ doing' = [doing EXCEPT ![p] = to]

TestCurrent(p) ==
  /\ Turn(p, "test", IF MustWait(p) THEN "before" ELSE IF p \in stratum THEN "restart" ELSE "poll")
  /\ UNCHANGED <<optionVars, outsideVars, choiceVars, enabled, idle, active, lost>>

CondWait(p) == /\ Turn(p, "before", "asleep")
               /\ UNCHANGED <<optionVars, outsideVars, choiceVars, enabled, idle, active, lost>>

WakesUnasked(p) == /\ Turn(p, "asleep", "test")
                   /\ lost' = lost \ {p}
                   /\ UNCHANGED <<optionVars, outsideVars, choiceVars, enabled, idle, active>>

\* The longpoll is answered or fails.
PollReturns(p) == /\ Turn(p, "poll", "test")
                  /\ UNCHANGED <<optionVars, outsideVars, choiceVars, enabled, idle, active, lost>>

-----------------------------------------------------------------------------
(* A receiver.                                                             *)

Suspend(p) == /\ Turn(p, "loop", "test") /\ ~cnx_needed(p)
              /\ active' = active \ {p}
              /\ UNCHANGED <<optionVars, outsideVars, choiceVars, enabled, idle, lost>>

\* A line arrives: stratum_resumed.
Resumed(p) == /\ doing[p] = "loop" /\ p \in active \intersect up \intersect idle
              /\ idle' = idle \ {p}
              /\ UNCHANGED <<optionVars, outsideVars, choiceVars, enabled, active, doing, lost>>

\* No line for 90 seconds, or the connection is closed.
Interrupted(p) == /\ Turn(p, "loop", "restart") /\ p \notin active \intersect up
                  /\ UNCHANGED <<optionVars, outsideVars, choiceVars, enabled, idle, active, lost>>

Restarted(p) == /\ doing[p] \in {"restart", "retry"} /\ p \in up
                /\ doing' = [doing EXCEPT ![p] = "loop"]
                /\ active' = active \union {p}
                /\ UNCHANGED <<optionVars, outsideVars, choiceVars, enabled, idle, lost>>

\* Faulty: only the receiver knows.
RestartOnlyFails(p) == /\ Turn(p, "restart", "retry") /\ p \notin up
                       /\ active' = active \ {p}
                       /\ UNCHANGED <<optionVars, outsideVars, choiceVars, enabled, idle, lost>>

RestartFails(p) == /\ Turn(p, "restart", "retry") /\ p \notin up
                   /\ active' = active \ {p}
                   /\ pool_died(p)
                   /\ UNCHANGED <<optionVars, outsideVars, enabled, lost>>

-----------------------------------------------------------------------------
(* The main thread, and watchpool_thread every 30 seconds.                 *)

\* Too many of its calls for work of a getwork pool failed.
GetsNoWork == /\ current \notin stratum \union up \union idle
              /\ pool_died(current)
              /\ UNCHANGED <<optionVars, outsideVars, enabled, active, doing, lost>>

\* An idle pool is tested: a stratum pool's own thread does that.
WatchTest(p) == /\ p \in enabled \intersect idle
                /\ p \in IF p \in stratum THEN active ELSE up
                /\ idle' = idle \ {p}
                /\ UNCHANGED <<optionVars, outsideVars, choiceVars, enabled, active, doing, lost>>

\* A better pool has been alive for long enough, or the current one is idle.
WatchSwitch == /\ \/ \E p \in enabled \ idle : prio[p] < prio[current]
                  \/ current \in idle
               /\ switch_pools(prio, enabled, idle)
               /\ UNCHANGED <<optionVars, outsideVars, enabled, idle, active, doing, lost>>

-----------------------------------------------------------------------------
(* The operator, the network and the other threads.                        *)

\* Only a better pool than the current one is switched to: nobody else is told.
enablepool(p) ==
  /\ p \notin enabled
  /\ enabled' = enabled \union {p}
  /\ IF prio[p] < prio[current]
     THEN switch_pools(Promote(p), enabled', idle) /\ UNCHANGED lost
     ELSE /\ lost' = lost \union (IF doing[p] \in {"before", "asleep"} THEN {p} ELSE {})
          /\ UNCHANGED choiceVars
  /\ UNCHANGED <<optionVars, outsideVars, idle, active, doing>>

disablepool(p) ==
  /\ p \in enabled
  /\ enabled' = enabled \ {p}
  /\ IF p = current THEN switch_pools(prio, enabled', idle) ELSE UNCHANGED choiceVars
  /\ UNCHANGED <<optionVars, outsideVars, idle, active, doing, lost>>

ComesOrGoes(p) == /\ up' = IF p \in up THEN up \ {p} ELSE up \union {p}
                  /\ UNCHANGED <<optionVars, kept, choiceVars, enabled, idle, active, doing, lost>>

\* A sender cannot send.
SenderSuspends(p) == /\ p \in active
                     /\ active' = active \ {p}
                     /\ UNCHANGED <<optionVars, outsideVars, choiceVars, enabled, idle, doing, lost>>

Kept == /\ kept' \in SUBSET Pool
        /\ UNCHANGED <<optionVars, up, choiceVars, enabled, idle, active, doing, lost>>

-----------------------------------------------------------------------------

PoolThread(p) == \/ TestCurrent(p) \/ CondWait(p) \/ PollReturns(p)
                 \/ Suspend(p) \/ Resumed(p) \/ Interrupted(p)
                 \/ Restarted(p) \/ RestartFails(p)

Outside == \/ \E p \in Pool : \/ enablepool(p) \/ disablepool(p) \/ ComesOrGoes(p)
                              \/ SenderSuspends(p) \/ WakesUnasked(p)
           \/ Kept

ConnNext == \/ \E p \in Pool : PoolThread(p) \/ WatchTest(p)
            \/ Broadcast \/ WatchSwitch \/ GetsNoWork
            \/ Outside

(* Threads run, calls return, and a pool that is connected sends a line    *)
(* within 90 seconds.                                                      *)
ConnFairness == /\ \A p \in Pool : WF_connVars(PoolThread(p)) /\ WF_connVars(WatchTest(p))
                /\ WF_connVars(Broadcast) /\ WF_connVars(WatchSwitch) /\ WF_connVars(GetsNoWork)

ConnSpec == ConnInit /\ [][ConnNext]_connVars /\ ConnFairness

-----------------------------------------------------------------------------
(* Properties.                                                             *)

(* Every variable has its type.                                            *)
ConnTypeOK ==
  /\ stratum \subseteq Pool /\ leaky \in BOOLEAN
  /\ prio \in [Pool -> Nat] /\ broadcasts \in 0 .. MaxPending
  /\ enabled \subseteq Pool /\ idle \subseteq Pool /\ active \subseteq stratum /\ current \in Pool
  /\ up \subseteq Pool /\ kept \subseteq Pool /\ lost \subseteq Pool
  /\ doing \in [Pool -> {"loop", "poll", "test", "before", "asleep", "restart", "retry"}]
  /\ \A p \in Pool : doing[p] = "poll" => p \notin stratum
  /\ \A p \in Pool : doing[p] \in {"loop", "restart", "retry"} => p \in stratum

(* A pool nobody needs is not connected: while its receiver waits to be    *)
(* needed, or for the pool to come back, the connection is closed.         *)
ParkedIsClosed ==
  \A p \in stratum : doing[p] \in {"test", "before", "asleep", "retry"} => p \notin active

(* No pool the program turns to is forgotten: the thread of one that is    *)
(* current, better than the current one or dead is woken by a broadcast to *)
(* come, unless it is one of those that were not told.                     *)
NotForgotten ==
  \A p \in enabled :
    doing[p] \in {"before", "asleep"}
      /\ (p = current \/ prio[p] < prio[current] \/ p \in stratum \intersect idle)
    => broadcasts > 0 \/ p \in lost

(* The pool is used: a stratum pool is connected, and a getwork pool's     *)
(* blocks are heard of.                                                    *)
Served(p) == /\ p \in up \ idle
             /\ IF p \in stratum THEN p \in active /\ doing[p] = "loop"
                                 ELSE doing[p] \in {"test", "poll"}

(* Once the operator and the network leave the pools alone, the miner comes*)
(* to a pool that answers, and its connection is up: of the threads that   *)
(* wait, die, watch and switch each does its part.  Not so if all that     *)
(* answer are disabled, if the current pool is, or if its thread was not   *)
(* told: by a broadcast between its test and its wait, or when its pool was*)
(* enabled.                                                                *)
Failover == <>[][~Outside]_connVars =>
  <>[](Served(current) \/ current \in lost \/ current \notin enabled \/ enabled \intersect up = {})

=============================================================================
