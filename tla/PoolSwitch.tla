----------------------------- MODULE PoolSwitch -----------------------------
(***************************************************************************)
(* The pools of sgminer.c and which of them is the current one: the array  *)
(* pools[], the priorities, the states and idle flags, the counter         *)
(* enabled_pools, switch_pools, the thread that watches the pools          *)
(* (watchpool_thread), the threads that find a pool dead or alive, the     *)
(* answers to shares, and the commands of the operator (api.c, curses).    *)
(*                                                                         *)
(* What switch_pools does under control_lock is one step.  The callers     *)
(* change a pool first and look at current_pool() later: a thread's job    *)
(* says what it has still to do.                                           *)
(***************************************************************************)
EXTENDS Integers, FiniteSets

CONSTANTS Pool,       \* the structs pool that can be allocated
          NoPool,     \* NULL, or what lies beyond the array
          AtStart,    \* the pools of the configuration, in their order
          StartStates, \* the states the configuration gives them
          MaxPools,   \* the size of the array
          Worker,     \* the threads that report on pools and shares
          Strategies, \* the strategies the operator chooses from
          Commands,   \* the commands the operator gives
          MaxCount    \* bound of enabled_pools, up and down

Strategy == {"FAILOVER", "ROUNDROBIN", "ROTATE", "LOADBALANCE", "BALANCE"}
State == {"ENABLED", "DISABLED", "REJECTING"}

ASSUME ConstantsAssumption ==
  /\ NoPool \notin Pool /\ {"operator", "watch"} \intersect Worker = {}
  /\ MaxPools \in Nat \ {0} /\ MaxCount \in Nat
  /\ \E n \in 1 .. MaxPools :
       /\ AtStart \in [0 .. n - 1 -> Pool]
       /\ \A i, j \in 0 .. n - 1 : AtStart[i] = AtStart[j] => i = j
  /\ Strategies \subseteq Strategy /\ Strategies # {}
  /\ "ENABLED" \in StartStates /\ StartStates \subseteq State
  /\ Commands \subseteq {"switchpool", "enablepool", "disablepool", "removepool", "addpool",
                         "poolpriority", "switch", "enable", "disable", "strategy"}

VARIABLES
  pools, total_pools,  \* the array, of which total_pools are in use
  pool_no, prio, state, idle, removed,
  current,             \* currentpool
  pools_active,        \* one of the pools tested at the start was alive
  testing,             \* the pools whose test thread runs
  enabled_pools,
  strategy,
  wi,                  \* the pool watchpool_thread looks at next
  job                  \* what each thread has to do

arrayVars == <<pools, total_pools, pool_no, removed>>
poolVars  == <<arrayVars, prio, state, idle>>
vars == <<poolVars, current, pools_active, testing, enabled_pools, strategy, wi, job>>

Thread == Worker \union {"operator", "watch"}
Free   == [at |-> "free", pool |-> NoPool]
Job(at, p) == [at |-> at, pool |-> p]
Busy(t, at) == job[t].at = at
Does(t, j) == job' = [job EXCEPT ![t] = j]

Numbers == 0 .. total_pools - 1
Listed  == {pools[i] : i \in Numbers}
usable(p) == ~idle[p] /\ state[p] = "ENABLED"   \* not pool_unusable

(* main: the states come from the configuration; enable_pool, disable_pool *)
(* and reject_pool find them already set, so none of them counts.  All the *)
(* pools are idle till probe_pools has tested them.                        *)
Init ==
  /\ total_pools = Cardinality(DOMAIN AtStart)
  /\ pools = [i \in 0 .. MaxPools |-> IF i \in DOMAIN AtStart THEN AtStart[i] ELSE NoPool]
  /\ pool_no = [p \in Pool |-> IF p \in Listed THEN CHOOSE i \in Numbers : pools[i] = p ELSE 0]
  /\ prio = pool_no
  /\ state \in {s \in [Pool -> StartStates] : \A p \in Pool \ Listed : s[p] = "ENABLED"}
  /\ idle = [p \in Pool |-> TRUE]
  /\ removed = {}
  /\ current = pools[0]
  /\ pools_active = FALSE
  /\ testing = Listed
  /\ enabled_pools = 0
  /\ strategy \in Strategies
  /\ wi = 0
  /\ job = [t \in Thread |-> Free]

-----------------------------------------------------------------------------
(* switch_pools.                                                           *)

Least(S) == CHOOSE i \in S : \A j \in S : i <= j

(* "WTF No pool found": then the pool of that number is taken.             *)
priority_pool(i, pr) ==
  LET found == {n \in Numbers : pr[pools[n]] = i}
  IN IF found # {} THEN pools[Least(found)] ELSE pools[i]

Promote(s) ==
  [p \in Pool |-> IF p = s THEN 0
                  ELSE IF p \in Listed /\ prio[p] < prio[s] THEN prio[p] + 1
                  ELSE prio[p]]

(* Faulty: takes the priority of the best pool for its number.             *)
BestByPriority(pr) ==
  LET alive == {i \in Numbers : usable(priority_pool(i, pr))}
  IN IF alive # {} THEN Least(alive) ELSE pool_no[current]

(* The number of the best pool, of the next pool; else that of the current.*)
BestNumber(pr) ==
  LET alive == {i \in Numbers : usable(priority_pool(i, pr))}
  IN IF alive # {} THEN pool_no[priority_pool(Least(alive), pr)] ELSE pool_no[current]

NextNumber ==
  LET n == pool_no[current]
      Nth(i) == IF n < total_pools THEN (n + i) % total_pools ELSE i - 1
      alive == {i \in 1 .. total_pools - 1 : usable(pools[Nth(i)])}
  IN IF alive # {} THEN Nth(Least(alive)) ELSE n

switch_pools(selected) ==
  LET pr == IF selected # NoPool THEN Promote(selected) ELSE prio
  IN /\ prio' = pr
     /\ current' = pools[IF strategy \in {"FAILOVER", "LOADBALANCE", "BALANCE"} THEN BestNumber(pr)
                         ELSE IF selected # NoPool /\ ~idle[selected] THEN pool_no[selected]
                         ELSE NextNumber]

(* A thread whose job is to switch does so.                                *)
Switch(t) ==
  /\ Busy(t, "switch")
  /\ switch_pools(job[t].pool)
  /\ Does(t, Free)
  /\ UNCHANGED <<arrayVars, state, idle, pools_active, testing, enabled_pools, strategy, wi>>

(* if (pool == current_pool()) switch_pools(NULL).                         *)
SwitchIfCurrent(t) ==
  /\ Busy(t, "check")
  /\ Does(t, IF current = job[t].pool THEN Job("switch", NoPool) ELSE Free)
  /\ UNCHANGED <<poolVars, current, pools_active, testing, enabled_pools, strategy, wi>>

-----------------------------------------------------------------------------
(* enable_pool, disable_pool, reject_pool: the state and the counter.      *)

enable_pool(p) ==
  /\ enabled_pools' = enabled_pools + (IF state[p] # "ENABLED" THEN 1 ELSE 0)
  /\ state' = [state EXCEPT ![p] = "ENABLED"]

disable_pool(p) ==
  /\ enabled_pools' = enabled_pools - (IF state[p] = "ENABLED" THEN 1 ELSE 0)
  /\ state' = [state EXCEPT ![p] = "DISABLED"]

reject_pool(p) ==
  /\ enabled_pools' = enabled_pools - (IF state[p] = "ENABLED" THEN 1 ELSE 0)
  /\ state' = [state EXCEPT ![p] = "REJECTING"]

CountBounded == enabled_pools' \in -MaxCount .. MaxCount

-----------------------------------------------------------------------------
(* The threads of the pools.                                               *)

(* pool_died; the work that finds it may be of a pool removed meanwhile.   *)
pool_died(t, p) ==
  /\ Busy(t, "free") /\ pools_active
  /\ p \in Listed \union {current} /\ ~idle[p]
  /\ idle' = [idle EXCEPT ![p] = TRUE]
  /\ Does(t, Job("check", p))
  /\ UNCHANGED <<arrayVars, prio, state, current, pools_active, testing, enabled_pools, strategy, wi>>

(* stratum_resumed: pool_resus only tells of it.                           *)
stratum_resumed(t, p) ==
  /\ Busy(t, "free") /\ (pools_active \/ p \in testing)
  /\ p \in Listed /\ idle[p]
  /\ idle' = [idle EXCEPT ![p] = FALSE]
  /\ UNCHANGED <<arrayVars, prio, state, current, pools_active, testing, enabled_pools, strategy, wi, job>>

(* test_pool_thread: the first pool alive becomes the current one.  A pool *)
(* that does not answer was idle before.                                   *)
TestAlive(t, p) ==
  /\ Busy(t, "free")
  /\ p \in testing
  /\ testing' = testing \ {p}
  /\ idle' = [idle EXCEPT ![p] = FALSE]
  /\ pools_active' = TRUE
  /\ current' = IF pools_active THEN current ELSE p
  /\ Does(t, Job("switch", NoPool))
  /\ UNCHANGED <<arrayVars, prio, state, enabled_pools, strategy, wi>>

TestDied(t, p) ==
  /\ Busy(t, "free") /\ pools_active
  /\ p \in testing /\ idle[p]
  /\ testing' = testing \ {p}
  /\ UNCHANGED <<poolVars, current, pools_active, enabled_pools, strategy, wi, job>>

(* share_result: a share of a rejecting pool was accepted.                 *)
Accepted(t, p) ==
  /\ Busy(t, "free") /\ pools_active
  /\ p \in Listed /\ state[p] = "REJECTING"
  /\ enable_pool(p) /\ CountBounded
  /\ Does(t, Job("switch", NoPool))
  /\ UNCHANGED <<arrayVars, prio, idle, current, pools_active, testing, strategy, wi>>

(* share_result: too many shares of the pool were rejected one after the   *)
(* other.                                                                  *)
Rejected(t, p) ==
  /\ Busy(t, "free") /\ pools_active
  /\ p \in Listed
  /\ IF enabled_pools > 1
     THEN reject_pool(p) /\ CountBounded /\ Does(t, Job("check", p))
     ELSE UNCHANGED <<enabled_pools, state, job>>
  /\ UNCHANGED <<arrayVars, prio, idle, current, pools_active, testing, strategy, wi>>

-----------------------------------------------------------------------------
(* watchpool_thread: one pool after the other, then the current one.       *)

WatchSkip ==   \* a disabled pool is not tested
  /\ Busy("watch", "free") /\ pools_active
  /\ wi < total_pools /\ state[pools[wi]] = "DISABLED"
  /\ wi' = wi + 1
  /\ UNCHANGED <<poolVars, current, pools_active, testing, enabled_pools, strategy, job>>

WatchTest ==   \* pool_active of an idle pool
  /\ Busy("watch", "free") /\ pools_active
  /\ wi < total_pools /\ state[pools[wi]] # "DISABLED"
  /\ pools[wi] \notin testing
  /\ \/ UNCHANGED idle
     \/ idle' = [idle EXCEPT ![pools[wi]] = FALSE]
  /\ Does("watch", Job("failback", pools[wi]))
  /\ UNCHANGED <<arrayVars, prio, state, current, pools_active, testing, enabled_pools, strategy, wi>>

WatchStableAlways ==   \* a better pool only ends the round of a pool
  /\ Busy("watch", "failback")
  /\ ~idle[job["watch"].pool]
  /\ wi' = wi + 1
  /\ Does("watch", Free)
  /\ UNCHANGED <<poolVars, current, pools_active, testing, enabled_pools, strategy>>

WatchStable ==   \* it has been alive for opt_fail_switch_delay
  /\ Busy("watch", "failback")
  /\ ~idle[job["watch"].pool]
  /\ strategy = "FAILOVER" /\ prio[job["watch"].pool] < prio[current]
  /\ wi' = wi + 1
  /\ Does("watch", Job("switch", NoPool))
  /\ UNCHANGED <<poolVars, current, pools_active, testing, enabled_pools, strategy>>

WatchNext ==
  /\ Busy("watch", "failback")
  /\ wi' = wi + 1
  /\ Does("watch", Free)
  /\ UNCHANGED <<poolVars, current, pools_active, testing, enabled_pools, strategy>>

WatchIdleRotating ==   \* only a strategy that moves leaves an idle pool
  /\ Busy("watch", "free") /\ wi \in total_pools .. MaxPools
  /\ idle[current] /\ strategy # "FAILOVER"
  /\ wi' = MaxPools + 1
  /\ Does("watch", Job("switch", NoPool))
  /\ UNCHANGED <<poolVars, current, pools_active, testing, enabled_pools, strategy>>

WatchIdle ==   \* the rotation is looked at next
  /\ Busy("watch", "free") /\ wi \in total_pools .. MaxPools
  /\ idle[current]
  /\ wi' = MaxPools + 1
  /\ Does("watch", Job("switch", NoPool))
  /\ UNCHANGED <<poolVars, current, pools_active, testing, enabled_pools, strategy>>

RoundOver == Busy("watch", "free") /\ wi >= total_pools /\ (wi > MaxPools \/ ~idle[current])

WatchRotate ==   \* the period is over
  /\ RoundOver
  /\ strategy = "ROTATE"
  /\ wi' = 0
  /\ Does("watch", Job("switch", NoPool))
  /\ UNCHANGED <<poolVars, current, pools_active, testing, enabled_pools, strategy>>

WatchRound ==
  /\ RoundOver
  /\ wi' = 0
  /\ UNCHANGED <<poolVars, current, pools_active, testing, enabled_pools, strategy, job>>

Watch == \/ WatchSkip \/ WatchTest \/ WatchStable \/ WatchNext
         \/ WatchIdle \/ WatchRotate \/ WatchRound \/ SwitchIfCurrent("watch") \/ Switch("watch")

-----------------------------------------------------------------------------
(* The operator.  The commands of api.c set the state of a pool without    *)
(* the counter, those of the curses menu call enable_pool, disable_pool.   *)

Command(c) == c \in Commands /\ Busy("operator", "free") /\ pools_active

SetState(p, s) == state' = [state EXCEPT ![p] = s]

switchpool(p) ==
  /\ Command("switchpool")
  /\ p \in Listed
  /\ SetState(p, "ENABLED")
  /\ Does("operator", Job("switch", p))
  /\ UNCHANGED <<arrayVars, prio, idle, current, pools_active, testing, enabled_pools, strategy, wi>>

CursesSwitch(p) ==
  /\ Command("switch")
  /\ p \in Listed
  /\ enable_pool(p) /\ CountBounded
  /\ Does("operator", Job("switch", p))
  /\ UNCHANGED <<arrayVars, prio, idle, current, pools_active, testing, strategy, wi>>

enablepool(p) ==
  /\ Command("enablepool")
  /\ p \in Listed /\ state[p] # "ENABLED"
  /\ SetState(p, "ENABLED")
  /\ Does("operator", Job("outrank", p))
  /\ UNCHANGED <<arrayVars, prio, idle, current, pools_active, testing, enabled_pools, strategy, wi>>

CursesEnable(p) ==
  /\ Command("enable")
  /\ p \in Listed
  /\ enable_pool(p) /\ CountBounded
  /\ Does("operator", Job("outrank", p))
  /\ UNCHANGED <<arrayVars, prio, idle, current, pools_active, testing, strategy, wi>>

(* if (pool->prio < current_pool()->prio) switch_pools(pool).              *)
SwitchIfOutranks ==
  /\ Busy("operator", "outrank")
  /\ LET p == job["operator"].pool
     IN Does("operator", IF prio[p] < prio[current] THEN Job("switch", p) ELSE Free)
  /\ UNCHANGED <<poolVars, current, pools_active, testing, enabled_pools, strategy, wi>>

disablepool(p) ==
  /\ Command("disablepool")
  /\ p \in Listed /\ state[p] # "DISABLED"
  /\ SetState(p, "DISABLED")
  /\ Does("operator", Job("check", p))
  /\ UNCHANGED <<arrayVars, prio, idle, current, pools_active, testing, enabled_pools, strategy, wi>>

CursesDisable(p) ==
  /\ Command("disable")
  /\ p \in Listed
  /\ disable_pool(p) /\ CountBounded
  /\ Does("operator", Job("check", p))
  /\ UNCHANGED <<arrayVars, prio, idle, current, pools_active, testing, strategy, wi>>

(* The strategy menu.                                                      *)
ChangeStrategy ==
  /\ Command("strategy")
  /\ strategy' \in Strategies \ {strategy}
  /\ Does("operator", Job("switch", NoPool))
  /\ UNCHANGED <<poolVars, current, pools_active, testing, enabled_pools, wi>>

(* poolpriority: the pools named come first, the others keep their order.  *)
NewPriorities(n, named) ==
  LET others == Listed \ {named[i] : i \in 0 .. n - 1}
  IN [p \in Pool |->
        IF p \in others THEN n + Cardinality({q \in others : prio[q] < prio[p]})
        ELSE IF p \in Listed THEN CHOOSE i \in 0 .. n - 1 : named[i] = p
        ELSE prio[p]]

poolpriority ==
  /\ Command("poolpriority")
  /\ \E n \in 1 .. total_pools : \E named \in [0 .. n - 1 -> Listed] :
       /\ \A i, j \in 0 .. n - 1 : named[i] = named[j] => i = j
       /\ prio' = NewPriorities(n, named)
  /\ Does("operator", Job("first", NoPool))
  /\ UNCHANGED <<arrayVars, state, idle, current, pools_active, testing, enabled_pools, strategy, wi>>

(* if (current_pool()->prio) switch_pools(NULL).                           *)
SwitchIfNotFirst ==
  /\ Busy("operator", "first")
  /\ Does("operator", IF prio[current] # 0 THEN Job("switch", NoPool) ELSE Free)
  /\ UNCHANGED <<poolVars, current, pools_active, testing, enabled_pools, strategy, wi>>

(* add_pool and add_pool_details: the new pool is tested.                  *)
add_pool(p) ==
  /\ Command("addpool")
  /\ p \notin Listed \union removed /\ total_pools < MaxPools
  /\ pools' = [pools EXCEPT ![total_pools] = p]
  /\ total_pools' = total_pools + 1
  /\ pool_no' = [pool_no EXCEPT ![p] = total_pools]
  /\ prio' = [prio EXCEPT ![p] = total_pools]
  /\ idle' = [idle EXCEPT ![p] = TRUE]
  /\ testing' = testing \union {p}
  /\ UNCHANGED <<removed, state, current, pools_active, enabled_pools, strategy, wi, job>>

(* removepool: the current pool is left first, if another can be used.     *)
RemoveEvenLast(p) ==   \* the last pool may go
  /\ Command("removepool")
  /\ p \in Listed
  /\ Does("operator", IF current = p THEN Job("leave", p) ELSE Job("recheck", p))
  /\ UNCHANGED <<poolVars, current, pools_active, testing, enabled_pools, strategy, wi>>

removepool(p) ==
  /\ Command("removepool")
  /\ p \in Listed /\ total_pools > 1
  /\ Does("operator", IF current = p THEN Job("leave", p) ELSE Job("recheck", p))
  /\ UNCHANGED <<poolVars, current, pools_active, testing, enabled_pools, strategy, wi>>

RemoveLeave ==
  /\ Busy("operator", "leave")
  /\ switch_pools(NoPool)
  /\ Does("operator", Job("recheck", job["operator"].pool))
  /\ UNCHANGED <<arrayVars, state, idle, pools_active, testing, enabled_pools, strategy, wi>>

RemoveRecheck ==
  /\ Busy("operator", "recheck")
  /\ LET p == job["operator"].pool
     IN Does("operator", IF current = p THEN Free ELSE Job("unlink", p))
  /\ UNCHANGED <<poolVars, current, pools_active, testing, enabled_pools, strategy, wi>>

(* remove_pool: lower priorities move up, the last pool takes the place.   *)
CloseGapNone(p) == prio   \* the priorities stay as they are
CloseGap(p) == [q \in Pool |-> IF q \in Listed /\ prio[q] > prio[p] THEN prio[q] - 1 ELSE prio[q]]

TakePlaceUnnamed(p) ==   \* the pool that moves keeps its number
  LET n == pool_no[p]  last == total_pools - 1
  IN /\ pools' = IF n < last THEN [pools EXCEPT ![n] = pools[last]] ELSE pools
     /\ pool_no' = [pool_no EXCEPT ![p] = total_pools]

TakePlace(p) ==
  LET n == pool_no[p]  last == total_pools - 1
  IN IF n < last
     THEN /\ pools' = [pools EXCEPT ![n] = pools[last]]
          /\ pool_no' = [pool_no EXCEPT ![pools[last]] = n, ![p] = total_pools]
     ELSE /\ UNCHANGED pools
          /\ pool_no' = [pool_no EXCEPT ![p] = total_pools]

remove_pool ==
  /\ Busy("operator", "unlink")
  /\ LET p == job["operator"].pool
     IN /\ SetState(p, "DISABLED")
        /\ prio' = CloseGap(p)
        /\ TakePlace(p)
        /\ removed' = removed \union {p}
  /\ total_pools' = total_pools - 1
  /\ Does("operator", Free)
  /\ UNCHANGED <<idle, current, pools_active, testing, enabled_pools, strategy, wi>>

-----------------------------------------------------------------------------

Reports(t) == \/ \E p \in Pool : \/ pool_died(t, p) \/ stratum_resumed(t, p) \/ TestAlive(t, p)
                                 \/ TestDied(t, p) \/ Accepted(t, p) \/ Rejected(t, p)
              \/ SwitchIfCurrent(t) \/ Switch(t)

Operator == \/ \E p \in Pool : \/ switchpool(p) \/ CursesSwitch(p) \/ enablepool(p) \/ CursesEnable(p)
                               \/ disablepool(p) \/ CursesDisable(p)
                               \/ add_pool(p) \/ removepool(p)
            \/ SwitchIfOutranks \/ ChangeStrategy \/ poolpriority \/ SwitchIfNotFirst
            \/ RemoveLeave \/ RemoveRecheck \/ remove_pool
            \/ SwitchIfCurrent("operator") \/ Switch("operator")

(* A current pool read from beyond the array ends the program.             *)
Next == current # NoPool /\ ((\E t \in Worker : Reports(t)) \/ Watch \/ Operator)

Spec == Init /\ [][Next]_vars

(* watchpool_thread never ends, the workers do what they began, tests end, *)
(* and a pool that stays alive is alive for opt_fail_switch_delay in the   *)
(* end; one that dies now and then may never be.                           *)
FairSpec ==
  /\ Spec
  /\ WF_vars(current # NoPool /\ Watch)
  /\ \A p \in Pool :
       <>[]~idle[p] => SF_vars(current # NoPool /\ job["watch"].pool = p /\ WatchStable)
  /\ \A t \in Worker : WF_vars(current # NoPool /\ (SwitchIfCurrent(t) \/ Switch(t) \/ \E p \in Pool : TestAlive(t, p) \/ TestDied(t, p)))

-----------------------------------------------------------------------------

TypeOK ==
  /\ pools \in [0 .. MaxPools -> Pool \union {NoPool}]
  /\ total_pools \in 1 .. MaxPools
  /\ pool_no \in [Pool -> 0 .. MaxPools] /\ prio \in [Pool -> 0 .. MaxPools]
  /\ state \in [Pool -> State] /\ idle \in [Pool -> BOOLEAN]
  /\ removed \subseteq Pool
  /\ current \in Pool \union {NoPool}
  /\ pools_active \in BOOLEAN /\ testing \subseteq Pool
  /\ enabled_pools \in -MaxCount .. MaxCount
  /\ strategy \in Strategies
  /\ wi \in 0 .. MaxPools + 1
  /\ job \in [Thread -> [at : {"free", "check", "switch", "failback", "outrank", "first", "leave",
                               "recheck", "unlink"}, pool : Pool \union {NoPool}]]

(* The array and pool_no agree, and the priorities of the pools in use are *)
(* 0 to total_pools - 1, each once: priority_pool always finds the pool it *)
(* looks for, after any sequence of commands.                              *)
Numbered ==
  \A i \in Numbers : pools[i] \in Pool \ removed /\ pool_no[pools[i]] = i
PriorityPermutation ==
  /\ \A p, q \in Listed : prio[p] = prio[q] => p = q
  /\ {prio[p] : p \in Listed} = Numbers

(* Whoever makes switch_pools look for a pool gets the best: with a        *)
(* strategy that goes by priority a pool that can be used becomes the      *)
(* current one if there is any, and none that can be used is before it,    *)
(* though priorities, numbers and states changed since the switch was      *)
(* decided on.                                                             *)
SwitchTakesBest ==
  [][(RemoveLeave \/ \E t \in Thread : Switch(t))
        /\ strategy \in {"FAILOVER", "LOADBALANCE", "BALANCE"}
        /\ (\E p \in Listed : usable(p))
     => /\ current' \in Listed /\ usable(current')
        /\ \A p \in Listed : usable(p) => prio'[current'] <= prio'[p]]_vars

(* The order of the pools is what the operator's commands make it, and the *)
(* other threads leave it alone: switch_pools, remove_pool, add_pool and   *)
(* poolpriority, which each renumber the pools, implement PoolOrder.       *)
Above == {x \in Listed \X Listed : prio[x[1]] < prio[x[2]]}
Pending == IF job["operator"].at = "switch" THEN job["operator"].pool
           ELSE IF job["operator"].at = "first" THEN "ordered" ELSE NoPool

Order == INSTANCE PoolOrder WITH None <- NoPool, listed <- Listed, above <- Above,
                                 command <- Pending
RefinesPoolOrder == Order!Spec

(* Failover comes back: a pool better than the current one that stays      *)
(* alive and enabled is switched to, whatever the other threads do.        *)
FailsBack ==
  \A p \in Pool :
    (strategy = "FAILOVER" /\ p \in Listed /\ usable(p) /\ prio[p] < prio[current])
      ~> ~(strategy = "FAILOVER" /\ p \in Listed /\ usable(p) /\ prio[p] < prio[current])

(* A dead pool is left: it does not stay current while another can be used.*)
LeavesIdle ==
  \A p \in Pool :
    (idle[current] /\ p \in Listed /\ usable(p))
      ~> ~(idle[current] /\ p \in Listed /\ usable(p))

-----------------------------------------------------------------------------
(* What the documents say and the code does not keep to.                   *)

(* README: "it will try to use them as a priority list, moving away from   *)
(* the 1st to the 2nd, 2nd to 3rd and so on".                              *)
LeavesUnusable ==
  \A p \in Pool :
    (pools_active /\ ~usable(current) /\ p \in Listed /\ usable(p))
      ~> (usable(current) \/ p \notin Listed \/ ~usable(p))

(* README: round robin "only moves from one pool to the next when the      *)
(* current one falls idle and makes no attempt to move otherwise".         *)
RoundRobinStays ==
  [][\A t \in Worker : Switch(t) /\ strategy = "ROUNDROBIN" /\ usable(current)
                        => current' = current]_vars

(* share_result: "disable the pool because some pool error is likely to    *)
(* have ensued".  It does so only if enabled_pools > 1 (Rejected): so it   *)
(* must be when two pools can be used.                                     *)
RejectingDisabled ==
  \A p, q \in Listed : p # q /\ usable(p) /\ usable(q) => enabled_pools > 1

(* API: "Cannot remove active pool".                                       *)
CurrentNotRemoved == current \notin removed

=============================================================================
