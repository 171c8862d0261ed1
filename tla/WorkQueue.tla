----------------------------- MODULE WorkQueue -----------------------------
(***************************************************************************)
(* The staged work of sgminer.c: the hash table staged_work under          *)
(* stgd_lock, the miner threads that take from it (get_work, hash_pop),    *)
(* the getwork scheduler that main() becomes and the longpoll threads that *)
(* fill it (stage_work, hash_push), and the threads that empty it behind   *)
(* their backs (discard_stale, clear_pool_work).                           *)
(*                                                                         *)
(* A struct work is an Item.  Two roots of work never look alike (fresh    *)
(* merkle root or fresh data from the pool), so its hashable data is its   *)
(* source and the number of seconds its ntime was rolled.  Everything done *)
(* under one hold of stgd_lock is one step.  getq->frozen stays false: no  *)
(* code freezes getq.                                                      *)
(***************************************************************************)
EXTENDS Integers, FiniteSets

CONSTANTS Item,          \* the structs work that can be allocated
          Source,        \* the identities of work made by or fetched from a pool
          Miner,         \* the threads that call get_work
          Lp,            \* the longpoll threads
          Main,          \* the getwork scheduler
          Pool,          \* the pools
          LocalGen,      \* those whose work is made here (stratum, gbt)
          NoWork,        \* the content of a freed struct work
          OptQueue,      \* opt_queue at the start
          MaxQueue,      \* bound of opt_queue
          RollLimit,     \* rolls beyond which work is not cloned (7000)
          MaxRollable    \* bound of the counter staged_rollable

ASSUME ConstantsAssumption ==
  /\ IsFiniteSet(Item) /\ IsFiniteSet(Miner)
  /\ LocalGen \subseteq Pool
  /\ Main \notin Miner /\ Main \notin Lp /\ Miner \intersect Lp = {}
  /\ {"free", "staged"} \intersect (Miner \union Lp \union {Main}) = {}
  /\ OptQueue \in Nat /\ MaxQueue \in Nat /\ RollLimit \in Nat /\ MaxRollable \in Nat

VARIABLES where,           \* the owner of each item: a thread, "staged" or "free"
          w,               \* the content of each item
          stale,           \* the items stale_work() reports
          staged_rollable, \* the counter of rollable work in the table
          opt_queue,       \* how much work to keep staged
          no_work,         \* "Waiting for work to be available from pools"
          pc,              \* where each thread is
          extra,           \* main's max_staged includes mining_threads
          mrs,             \* how many clones a longpoll thread still wants
          given            \* ghost: the data handed to miners, while its source lives

vars == <<where, w, stale, staged_rollable, opt_queue, no_work, pc, extra, mrs, given>>

Thread == Miner \union Lp \union {Main}
Data == Source \X (0 .. RollLimit + 2)
Work == [pool : Pool, data : Data, clone : BOOLEAN, rolltime : BOOLEAN]

Staged == {i \in Item : where[i] = "staged"}
HeldBy(t) == {i \in Item : where[i] = t}
work_rollable(i) == w[i].rolltime /\ ~w[i].clone
Waiters == {m \in Miner : pc[m] = "wait"}

Init ==
  /\ where = [i \in Item |-> "free"]
  /\ w = [i \in Item |-> NoWork]
  /\ stale = {}
  /\ staged_rollable = 0
  /\ opt_queue = OptQueue
  /\ no_work = FALSE
  /\ pc = [t \in Thread |-> IF t \in Miner THEN "pop" ELSE "top"]
  /\ extra = FALSE
  /\ mrs = [l \in Lp |-> 0]
  /\ given = {}

-----------------------------------------------------------------------------
(* Condition variables.  pthread_cond_signal on gws_cond wakes main, on    *)
(* getq->cond one of the waiting miners; a broadcast wakes them all.  A    *)
(* woken thread still has to take stgd_lock again.                         *)

SignalGws(p) == IF p[Main] = "wait" THEN [p EXCEPT ![Main] = "relock"] ELSE p

SignalGetq(p) == IF Waiters = {} THEN {p}
                 ELSE {[p EXCEPT ![m] = "pop"] : m \in Waiters}

SignalOneGetq(p) == IF Waiters = {} THEN p
                    ELSE [p EXCEPT ![CHOOSE m \in Waiters : TRUE] = "pop"]

BroadcastGetq(p) == [t \in Thread |-> IF t \in Waiters THEN "pop" ELSE p[t]]

(* free_work of the items in S; the last item of a source ends the ghost.  *)
Free(S) ==
  /\ where' = [i \in Item |-> IF i \in S THEN "free" ELSE where[i]]
  /\ w' = [i \in Item |-> IF i \in S THEN NoWork ELSE w[i]]
  /\ stale' = stale \ S
  /\ given' = {d \in given : \E i \in Item \ S : where[i] # "free" /\ w[i].data[1] = d[1]}

(* An item t has just made: make_work and the data that identify it.       *)
FreshSources == {s \in Source : \A i \in Item : where[i] # "free" => w[i].data[1] # s}

Make(t, i, p, rolltime) ==
  /\ where[i] = "free"
  /\ where' = [where EXCEPT ![i] = t]
  /\ \E s \in FreshSources :
       w' = [w EXCEPT ![i] = [pool |-> p, data |-> <<s, 0>>,
                              clone |-> FALSE, rolltime |-> rolltime]]
  /\ (rolltime => staged_rollable < MaxRollable)

(* roll_work and make_clone on the content of an item.                     *)
roll_work(x)  == [x EXCEPT !.data[2] = @ + 1]
make_clone(x) == [x EXCEPT !.clone = TRUE]

(* can_roll.  should_roll depends on the clock, so any such work may be    *)
(* found too old to be rolled.                                             *)
can_roll(i) == /\ w[i].pool \notin LocalGen
               /\ work_rollable(i)
               /\ w[i].data[2] < RollLimit
               /\ i \notin stale

-----------------------------------------------------------------------------
(* stage_work: stamps the work with the current block, notices a new block *)
(* in it (test_work_current), then hash_push.                              *)

Live == {i \in Item : where[i] # "free"}

hash_push(i) ==
  /\ where' = [where EXCEPT ![i] = "staged"]
  /\ staged_rollable' = staged_rollable + (IF work_rollable(i) THEN 1 ELSE 0)
  /\ stale' \in {stale \ {i}, Live \ {i}}

(* The broadcast at the end of hash_push; t goes on at next.               *)
Pushed(t, next) == pc' = [BroadcastGetq(pc) EXCEPT ![t] = next]

-----------------------------------------------------------------------------
(* hash_pop: the choice of the work to take, and the counter.              *)

UncountAlways(i)  == staged_rollable' = staged_rollable - 1
ChoicesAtLeast == IF Cardinality(Staged) >= staged_rollable
                  THEN {i \in Staged : ~work_rollable(i)}
                  ELSE Staged

Choices == IF Cardinality(Staged) > staged_rollable
           THEN {i \in Staged : ~work_rollable(i)}
           ELSE Staged

Uncount(i) ==
  staged_rollable' = staged_rollable - (IF work_rollable(i) THEN 1 ELSE 0)

-----------------------------------------------------------------------------
(* A miner in get_work.                                                    *)

PopEmptySilent(m) ==   \* without the signal to the scheduler
  /\ pc[m] = "pop"
  /\ Staged = {}
  /\ pc' = [pc EXCEPT ![m] = "wait"]
  /\ UNCHANGED <<where, w, stale, staged_rollable, opt_queue, no_work, extra, mrs, given>>

(* hash_pop(true) finds nothing: it signals the scheduler and sleeps.      *)
PopEmpty(m) ==
  /\ pc[m] = "pop"
  /\ Staged = {}
  /\ pc' = SignalGws([pc EXCEPT ![m] = "wait"])
  /\ UNCHANGED <<where, w, stale, staged_rollable, opt_queue, no_work, extra, mrs, given>>

PopTakeKeepsFlag(m) ==   \* without the reset of no_work
  /\ pc[m] = "pop"
  /\ Staged # {}
  /\ \E i \in Choices :
       /\ where' = [where EXCEPT ![i] = m]
       /\ Uncount(i)
  /\ pc' \in SignalGetq(SignalGws([pc EXCEPT ![m] = "check"]))
  /\ UNCHANGED <<w, stale, no_work, opt_queue, extra, mrs, given>>

PopTake(m) ==
  /\ pc[m] = "pop"
  /\ Staged # {}
  /\ \E i \in Choices :
       /\ where' = [where EXCEPT ![i] = m]
       /\ Uncount(i)
  /\ no_work' = FALSE
  /\ pc' \in SignalGetq(SignalGws([pc EXCEPT ![m] = "check"]))
  /\ UNCHANGED <<w, stale, opt_queue, extra, mrs, given>>

(* Ten seconds without work: the flag, then the loop again.                *)
PopTimeout(m) ==
  /\ pc[m] = "wait"
  /\ no_work' = TRUE
  /\ pc' = [pc EXCEPT ![m] = "pop"]
  /\ UNCHANGED <<where, w, stale, staged_rollable, opt_queue, extra, mrs, given>>

(* The work popped is stale: discard_work and wake_gws.                    *)
CheckStale(m) ==
  /\ pc[m] = "check"
  /\ HeldBy(m) \subseteq stale
  /\ Free(HeldBy(m))
  /\ pc' = SignalGws([pc EXCEPT ![m] = "pop"])
  /\ UNCHANGED <<staged_rollable, opt_queue, no_work, extra, mrs>>

CheckFresh(m) ==
  /\ pc[m] = "check"
  /\ HeldBy(m) \intersect stale = {}
  /\ given' = given \union {w[i].data : i \in HeldBy(m)}
  /\ pc' = [pc EXCEPT ![m] = "mine"]
  /\ UNCHANGED <<where, w, stale, staged_rollable, opt_queue, no_work, extra, mrs>>

(* The miner is done with the work, or abandons it, and frees it.          *)
Finish(m) ==
  /\ pc[m] = "mine"
  /\ Free(HeldBy(m))
  /\ pc' = [pc EXCEPT ![m] = "pop"]
  /\ UNCHANGED <<staged_rollable, opt_queue, no_work, extra, mrs>>

-----------------------------------------------------------------------------
(* main() as the getwork scheduler.                                        *)

max_staged == opt_queue + (IF extra THEN Cardinality(Miner) ELSE 0)
Enough == Cardinality(Staged) > max_staged

(* The top of the loop reads staged_rollable without the lock.             *)
SchedTop ==
  /\ pc[Main] = "top"
  /\ \E cp \in Pool : extra' = (cp \notin LocalGen /\ staged_rollable = 0)
  /\ pc' = [pc EXCEPT ![Main] = "lock"]
  /\ UNCHANGED <<where, w, stale, staged_rollable, opt_queue, no_work, mrs, given>>

SchedWait ==
  /\ pc[Main] = "lock"
  /\ Enough
  /\ pc' = [pc EXCEPT ![Main] = "wait"]
  /\ UNCHANGED <<where, w, stale, staged_rollable, opt_queue, no_work, extra, mrs, given>>

(* Nothing staged at all for a getwork pool: the pool lags, and the queue  *)
(* is made longer the first time.                                          *)
SchedGo ==
  /\ pc[Main] = "lock"
  /\ ~Enough
  /\ opt_queue' \in {opt_queue} \union
       (IF Staged = {} /\ Pool # LocalGen /\ opt_queue < MaxQueue
        THEN {opt_queue + 1} ELSE {})
  /\ pc' = [pc EXCEPT ![Main] = "gen"]
  /\ UNCHANGED <<where, w, stale, staged_rollable, no_work, extra, mrs, given>>

(* Two seconds in pthread_cond_timedwait.                                  *)
SchedTimeout ==
  /\ pc[Main] = "wait"
  /\ pc' = [pc EXCEPT ![Main] = "relock"]
  /\ UNCHANGED <<where, w, stale, staged_rollable, opt_queue, no_work, extra, mrs, given>>

SchedRecount ==
  /\ pc[Main] = "relock"
  /\ pc' = [pc EXCEPT ![Main] = IF Enough THEN "drain" ELSE "gen"]
  /\ UNCHANGED <<where, w, stale, staged_rollable, opt_queue, no_work, extra, mrs, given>>

(* Still enough: hash_pop(false) and discard_work, to keep the pools busy. *)
SchedDrain ==
  /\ pc[Main] = "drain"
  /\ \/ /\ Staged = {}
        /\ pc' = [pc EXCEPT ![Main] = "top"]
        /\ UNCHANGED <<where, w, stale, staged_rollable, no_work, given>>
     \/ \E i \in Choices :
        /\ Free({i})
        /\ Uncount(i)
        /\ no_work' = FALSE
        /\ pc' \in SignalGetq([pc EXCEPT ![Main] = "top"])
  /\ UNCHANGED <<opt_queue, extra, mrs>>

(* gen_stratum_work, gen_gbt_work or get_upstream_work; a pool that is     *)
(* inactive or does not answer leaves main at "gen", to try another.       *)
SchedMake ==
  /\ pc[Main] = "gen"
  /\ \E i \in Item, p \in Pool, rolltime \in BOOLEAN :
       /\ p \in LocalGen => ~rolltime
       /\ Make(Main, i, p, rolltime)
  /\ pc' = [pc EXCEPT ![Main] = "stage"]
  /\ UNCHANGED <<stale, staged_rollable, opt_queue, no_work, extra, mrs, given>>

clone_available_one_roll ==   \* the master keeps the ntime of its clone
  /\ pc[Main] = "gen"
  /\ LocalGen # Pool
  /\ staged_rollable # 0
  /\ \E i \in Staged, c \in Item :
       /\ can_roll(i)
       /\ where[c] = "free"
       /\ where' = [where EXCEPT ![c] = Main]
       /\ w' = [w EXCEPT ![i] = roll_work(w[i]), ![c] = make_clone(roll_work(w[i]))]
  /\ pc' = [pc EXCEPT ![Main] = "stage"]
  /\ UNCHANGED <<stale, staged_rollable, opt_queue, no_work, extra, mrs, given>>

(* clone_available, for a getwork pool: the first master that can still be *)
(* rolled is rolled, cloned and rolled again.                              *)
clone_available ==
  /\ pc[Main] = "gen"
  /\ LocalGen # Pool
  /\ staged_rollable # 0
  /\ \E i \in Staged, c \in Item :
       /\ can_roll(i)
       /\ where[c] = "free"
       /\ where' = [where EXCEPT ![c] = Main]
       /\ LET rolled == roll_work(w[i])
          IN  w' = [w EXCEPT ![i] = roll_work(rolled), ![c] = make_clone(rolled)]
  /\ pc' = [pc EXCEPT ![Main] = "stage"]
  /\ UNCHANGED <<stale, staged_rollable, opt_queue, no_work, extra, mrs, given>>

SchedStage ==
  /\ pc[Main] = "stage"
  /\ \E i \in HeldBy(Main) : hash_push(i)
  /\ Pushed(Main, "top")
  /\ UNCHANGED <<w, opt_queue, no_work, extra, mrs, given>>

-----------------------------------------------------------------------------
(* A longpoll thread in convert_to_work and clone_work.  It holds the      *)
(* master (clone = FALSE) and at most one clone of it.                     *)

Masters(l) == {i \in HeldBy(l) : ~w[i].clone}
Clones(l)  == {i \in HeldBy(l) : w[i].clone}

(* New work from the pool; being longpoll work it bumps work_block.  Then  *)
(* it is dropped (fail-only, not the current pool), staged as it is (mrs < *)
(* 1), or a first clone is made.                                           *)
LpReceive(l) ==
  /\ pc[l] = "top"
  /\ \E i \in Item, p \in Pool, rolltime \in BOOLEAN :
       /\ p \in LocalGen => ~rolltime
       /\ Make(l, i, p, rolltime)
       /\ stale' = Live
  /\ mrs' = [mrs EXCEPT ![l] = Cardinality(Miner) + opt_queue - Cardinality(Staged)]
  /\ pc' = [pc EXCEPT ![l] = "clone"]
  /\ UNCHANGED <<staged_rollable, opt_queue, no_work, extra, given>>

LpDrop(l) ==
  /\ pc[l] = "clone"
  /\ Clones(l) = {}
  /\ Free(HeldBy(l))
  /\ pc' = [pc EXCEPT ![l] = "top"]
  /\ mrs' = [mrs EXCEPT ![l] = 0]
  /\ UNCHANGED <<staged_rollable, opt_queue, no_work, extra>>

(* One turn of the loop of clone_work: stage a clone, roll the master,     *)
(* clone it, roll it again.  The clone staged in the first turn has the    *)
(* data the master has, so the model makes it in the turn that stages it.  *)
LpCloneLoop(l) ==
  /\ pc[l] = "clone"
  /\ mrs[l] > 0
  /\ \E i \in Masters(l), c, d \in Item :
       /\ can_roll(i)
       /\ c # d /\ where[d] = "free"
       /\ IF Clones(l) = {} THEN where[c] = "free" ELSE c \in Clones(l)
       /\ where' = [where EXCEPT ![c] = "staged", ![d] = l]
       /\ LET rolled == roll_work(w[i])
              first  == IF Clones(l) = {} THEN make_clone(w[i]) ELSE w[c]
          IN  w' = [w EXCEPT ![c] = first, ![i] = roll_work(rolled),
                             ![d] = make_clone(rolled)]
       /\ stale' \in {stale \ {c}, Live \ {c}}
  /\ mrs' = [mrs EXCEPT ![l] = @ - 1]
  /\ Pushed(l, "clone")
  /\ UNCHANGED <<staged_rollable, opt_queue, no_work, extra, given>>

(* The end of clone_work, and the stage_work of convert_to_work: first the *)
(* master, then the last clone if there is one.                            *)
LpStageMaster(l) ==
  /\ pc[l] = "clone"
  /\ \E i \in Masters(l) : hash_push(i)
  /\ mrs' = [mrs EXCEPT ![l] = 0]
  /\ Pushed(l, IF Clones(l) = {} THEN "top" ELSE "last")
  /\ UNCHANGED <<w, opt_queue, no_work, extra, given>>

LpStageClone(l) ==
  /\ pc[l] = "last"
  /\ \E i \in Clones(l) : hash_push(i)
  /\ Pushed(l, "top")
  /\ UNCHANGED <<w, opt_queue, no_work, extra, mrs, given>>

-----------------------------------------------------------------------------
(* Other threads.                                                          *)

(* A new block or a new stratum job makes stale what there is; expiry      *)
(* makes stale one item.                                                   *)
NewBlock ==
  /\ stale' = Live
  /\ UNCHANGED <<where, w, staged_rollable, opt_queue, no_work, pc, extra, mrs, given>>

Expire ==
  /\ \E i \in Live : stale' = stale \union {i}
  /\ UNCHANGED <<where, w, staged_rollable, opt_queue, no_work, pc, extra, mrs, given>>

(* discard_stale, from the watchdog and from every restart: it does not    *)
(* touch staged_rollable.                                                  *)
discard_stale ==
  /\ Free(Staged \intersect stale)
  /\ pc' = SignalGws(pc)
  /\ UNCHANGED <<staged_rollable, opt_queue, no_work, extra, mrs>>

(* clear_pool_work, when a pool is left or its stratum connection is lost: *)
(* it touches neither the counter nor gws_cond.                            *)
clear_pool_work(p) ==
  /\ Free({i \in Staged : w[i].pool = p})
  /\ UNCHANGED <<staged_rollable, opt_queue, no_work, pc, extra, mrs>>

-----------------------------------------------------------------------------

Pop(m)   == PopEmpty(m) \/ PopTake(m) \/ CheckStale(m) \/ CheckFresh(m)
Sched    == \/ SchedTop \/ SchedWait \/ SchedGo \/ SchedRecount \/ SchedDrain
            \/ SchedMake \/ clone_available \/ SchedStage
LpStep(l) == \/ LpReceive(l) \/ LpDrop(l) \/ LpCloneLoop(l)
             \/ LpStageMaster(l) \/ LpStageClone(l)
Timeout  == SchedTimeout \/ \E m \in Miner : PopTimeout(m)
Others   == NewBlock \/ Expire \/ discard_stale \/ \E p \in Pool : clear_pool_work(p)

Next == \/ \E m \in Miner : Pop(m) \/ Finish(m)
        \/ Sched
        \/ \E l \in Lp : LpStep(l)
        \/ Timeout
        \/ Others

Spec == Init /\ [][Next]_vars

(* What the code does by itself: miners and the scheduler keep running,    *)
(* critical sections end, and of the pools one answers at last.            *)
FairSpec == /\ Spec
            /\ \A m \in Miner : WF_vars(Pop(m)) /\ WF_vars(Finish(m))
            /\ WF_vars(Sched)

-----------------------------------------------------------------------------

Locations == {"pop", "wait", "check", "mine", "top", "lock", "relock", "drain",
              "gen", "stage", "clone", "last"}

(* Types; a struct is freed exactly when it has no content, and the count  *)
(* of rollable work does not go below zero.                                *)
TypeOK ==
  /\ where \in [Item -> Thread \union {"free", "staged"}]
  /\ DOMAIN w = Item
  /\ \A i \in Item : IF where[i] = "free" THEN w[i] = NoWork ELSE w[i] \in Work
  /\ stale \subseteq Live
  /\ staged_rollable \in Nat
  /\ opt_queue \in Nat
  /\ no_work \in BOOLEAN
  /\ pc \in [Thread -> Locations]
  /\ extra \in BOOLEAN
  /\ mrs \in [Lp -> Int]
  /\ given \subseteq Data

(* hash_pop, once it has seen a count of staged work, finds a work to take *)
(* in the pass it then makes.  (Otherwise it would delete NULL from the    *)
(* hash table.)  It rests on the counter staged_rollable never being less  *)
(* than the number of rollable works, although nothing but hash_push and   *)
(* hash_pop maintains it.                                                  *)
PopFindsWork == Staged # {} => Choices # {}

(* Nobody sleeps in hash_pop while there is work: a push wakes all.        *)
NoneSleepsOverWork == Waiters # {} => Staged = {}

(* The scheduler does not sleep while miners sleep for want of work, even  *)
(* when clear_pool_work empties the table without a signal: no timeout is  *)
(* needed to get out.                                                      *)
NotAllAsleep == ~(pc[Main] = "wait" /\ Waiters # {})

(* No two works that reach miners look alike: of a master and its clones,  *)
(* staged by several threads and rolled in the table and out of it, each   *)
(* has an ntime of its own.                                                *)
DistinctWork ==
  LET visible == {i \in Item : where[i] = "staged" \/ where[i] \in Miner}
  IN  /\ \A i, j \in visible : i # j => w[i].data # w[j].data
      /\ \A i \in Staged : w[i].data \notin given

(* no_work, which keeps the connections to all pools open, is up only      *)
(* while a miner still looks for work.                                     *)
NoWorkHasWaiter == no_work => \E m \in Miner : pc[m] \in {"pop", "wait"}

(* Once blocks, expiry and disconnections give it a rest, sleeping miners  *)
(* lead to a miner with work, without the help of a timeout.               *)
MinersFed ==
  <>[][~(Others \/ Timeout) /\ stale' \subseteq stale]_vars
    => ((Waiters # {}) ~> (\E m \in Miner : pc[m] = "mine"))

(* "Find clone work if possible, to allow masters to be reused"            *)
(* (sgminer.c:5937): a miner is given a rollable master only when no clone *)
(* is staged.                                                              *)
MastersReused ==
  [][\A i \in Staged :
       where'[i] \in Miner /\ work_rollable(i) => \A j \in Staged : ~w[j].clone]_vars

=============================================================================
