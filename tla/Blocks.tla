------------------------------- MODULE Blocks -------------------------------
(***************************************************************************)
(* How a new block is noticed: every work that is staged is tested against *)
(* the database of blocks; a block not in it is the network's next one,    *)
(* and makes every work stamped before it stale.  Work comes from the main *)
(* thread, the stratum receivers and the longpoll threads, which test it   *)
(* in any order; work_block and new_blocks are counted without a lock.     *)
(*                                                                         *)
(* prev_block and current_block are left out: they decide test_work_       *)
(* current's result alone, and none of its callers looks at that.          *)
(*                                                                         *)
(* A stager is                                                             *)
(*   idle            outside the functions below                           *)
(*   search          before block_exists                                   *)
(*   number numbered add   before and within new_blocks++, before wr_lock  *)
(*   added           before it asks whether this is the first block        *)
(*   inc write, lpinc lpwrite   before and within ++work_block, for a new  *)
(*                   block, for a longpoll                                 *)
(*   restart         before restart_threads                                *)
(*   tested          test_work_current returned                            *)
(***************************************************************************)
EXTENDS Naturals, FiniteSets, SequencesExt

CONSTANTS Stager,    \* the threads that test work
          Digger,    \* the mining threads
          Block,     \* the blocks of the network
          Genesis,   \* the initial entry of the database
          Keep,      \* entries beyond which the oldest is deleted: 6
          NoWork,    \* a thread has no work
          MaxNews,   \* bound: the largest work_block
          MaxStaged  \* bound: works in the queue

(* A work; stamp is its work_block.  caller: who has it tested: stage_work *)
(* for a work of the program's own making; convert_to_work, and stage_work *)
(* again for the same work; the stratum receiver, which made it for the    *)
(* test.  backup: its pool is not the current one, nor is the strategy one *)
(* that shares.  tested is a ghost: the last news that its test knew of.   *)
Work == [caller : {"stage", "convert", "again", "notify"}, backup : BOOLEAN,
         block : Block, longpoll : BOOLEAN, mandatory : BOOLEAN,
         stamp : Nat, tested : Nat]

ASSUME BlocksAssumption == /\ Genesis \notin Block
                           /\ Keep \in Nat \ {0}
                           /\ MaxNews \in Nat /\ MaxStaged \in Nat
                           /\ NoWork \notin Work /\ NoWork \notin Nat

VARIABLES blocks,      \* the database, in the order of its list
          new_blocks, work_block,
          step,        \* where each stager is
          hand,        \* the work it tests
          reg,         \* the counter as it read it
          staged,      \* staged_work: works alike in what matters now are one
          restarts,    \* restart threads before discard_stale, and after it
          digs,        \* where each mining thread is
          mined,       \* the work_block of its work
          flag,        \* its work_restart
          raced        \* ghost: an increment of work_block was overwritten

stagerVars == <<step, hand, reg>>
diggerVars == <<digs, mined, flag>>
countVars  == <<blocks, new_blocks, work_block, raced>>
blocksVars == <<countVars, stagerVars, staged, restarts, diggerVars>>

\* What of it matters when it is staged; a mandatory work needs no test.
Queued(w) == [stamp |-> w.stamp, tested |-> IF w.mandatory THEN w.stamp ELSE w.tested]

Stale(stamp) == stamp # work_block

BlocksInit == /\ blocks = <<[hash |-> Genesis, no |-> 0]>>
              /\ new_blocks = 0 /\ work_block = 0
              /\ step = [t \in Stager |-> "idle"]
              /\ hand = [t \in Stager |-> NoWork]
              /\ reg = [t \in Stager |-> 0]
              /\ staged = {}
              /\ restarts = [discard |-> 0, flag |-> 0]
              /\ digs = [m \in Digger |-> "get"]
              /\ mined = [m \in Digger |-> NoWork]
              /\ flag = [m \in Digger |-> FALSE]
              /\ raced = FALSE

-----------------------------------------------------------------------------
(* Staging.                                                                *)

Turn(t, from, to) == step[t] = from /\ step' = [step EXCEPT ![t] = to]

\* Bounds: the news to come fit in MaxNews, and nothing new is staged after a
\* race.
Room == /\ work_block + Cardinality({t \in Stager : step[t] # "idle"}) < MaxNews
        /\ ~raced

Begin(t, w) == /\ Turn(t, "idle", "search") /\ Room
               /\ hand' = [hand EXCEPT ![t] = w]
               /\ UNCHANGED <<countVars, reg, staged, restarts, diggerVars>>

\* A work that was generated or fetched.
stage_work(t) == \E b \in Block :
  Begin(t, [caller |-> "stage", backup |-> FALSE, block |-> b, longpoll |-> FALSE,
            mandatory |-> FALSE, stamp |-> work_block, tested |-> 0])

\* The answer to a longpoll; a rejecting pool's must be staged whatever its
\* block.
convert_to_work(t) == \E b \in Block, backup, mandatory \in BOOLEAN :
  Begin(t, [caller |-> "convert", backup |-> backup, block |-> b, longpoll |-> TRUE,
            mandatory |-> mandatory, stamp |-> 0, tested |-> 0])

\* A stratum pool's notify with clean_jobs.
CleanJobs(t) == \E b \in Block, backup \in BOOLEAN :
  Begin(t, [caller |-> "notify", backup |-> backup, block |-> b, longpoll |-> TRUE,
            mandatory |-> FALSE, stamp |-> work_block, tested |-> 0])

Known(b) == \E i \in DOMAIN blocks : blocks[i].hash = b

SkipTest(t) == /\ step[t] = "search" /\ hand[t].mandatory
               /\ step' = [step EXCEPT ![t] = "tested"]
               /\ UNCHANGED <<countVars, hand, reg, staged, restarts, diggerVars>>

\* A longpoll counts as news though the block is known.
block_exists(t) ==
  /\ step[t] = "search" /\ ~hand[t].mandatory
  /\ step' = [step EXCEPT ![t] = IF ~Known(hand[t].block) THEN "number"
                                 ELSE IF hand[t].longpoll THEN "lpinc" ELSE "tested"]
  /\ hand' = [hand EXCEPT ![t].tested = work_block]
  /\ UNCHANGED <<countVars, reg, staged, restarts, diggerVars>>

ReadNumber(t) == /\ Turn(t, "number", "numbered")
                 /\ reg' = [reg EXCEPT ![t] = new_blocks]
                 /\ UNCHANGED <<countVars, hand, staged, restarts, diggerVars>>

WriteNumber(t) == /\ Turn(t, "numbered", "add")
                  /\ new_blocks' = reg[t] + 1
                  /\ UNCHANGED <<blocks, work_block, raced, hand, reg, staged, restarts,
                                 diggerVars>>

\* The entry HASH_SORT puts first: the sort is stable.
Oldest == CHOOSE i \in DOMAIN blocks :
            \A j \in DOMAIN blocks : /\ blocks[i].no <= blocks[j].no
                                     /\ blocks[i].no = blocks[j].no => i <= j

AddBlock(t) ==
  /\ Turn(t, "add", "added")
  /\ LET kept == IF Len(blocks) > Keep THEN RemoveAt(blocks, Oldest) ELSE blocks
     IN blocks' = Append(kept, [hash |-> hand[t].block, no |-> reg[t]])
  /\ reg' = [reg EXCEPT ![t] = 0]
  /\ UNCHANGED <<new_blocks, work_block, raced, hand, staged, restarts, diggerVars>>

\* The program's first block restarts nothing.
FirstBlock(t) ==
  /\ step[t] = "added"
  /\ step' = [step EXCEPT ![t] = IF new_blocks = 1 THEN "tested" ELSE "inc"]
  /\ UNCHANGED <<countVars, hand, reg, staged, restarts, diggerVars>>

ReadNews(t) == /\ \/ Turn(t, "inc", "write")
                  \/ Turn(t, "lpinc", "lpwrite")
               /\ reg' = [reg EXCEPT ![t] = work_block]
               /\ UNCHANGED <<countVars, hand, staged, restarts, diggerVars>>

\* Only the current pool's longpoll restarts the threads for a known block.
WriteNews(t) ==
  /\ \/ Turn(t, "write", "restart")
     \/ Turn(t, "lpwrite", IF hand[t].backup THEN "tested" ELSE "restart")
  /\ work_block' = reg[t] + 1
  /\ raced' = (raced \/ work_block # reg[t])
  /\ hand' = [hand EXCEPT ![t].stamp = reg[t] + 1, ![t].tested = reg[t] + 1]
  /\ reg' = [reg EXCEPT ![t] = 0]
  /\ UNCHANGED <<blocks, new_blocks, staged, restarts, diggerVars>>

restart_threads(t) == /\ Turn(t, "restart", "tested")
                      /\ restarts' = [restarts EXCEPT !.discard = @ + 1]
                      /\ UNCHANGED <<countVars, hand, reg, staged, diggerVars>>

Push(t, w) == /\ step[t] = "tested" /\ hand[t].caller \in {"stage", "again"}
              /\ Cardinality(staged) < MaxStaged
              /\ staged' = staged \union {w}
              /\ step' = [step EXCEPT ![t] = "idle"]
              /\ hand' = [hand EXCEPT ![t] = NoWork]
              /\ UNCHANGED <<countVars, reg, restarts, diggerVars>>

\* Faulty: the work is stamped when its test is over.
StampLate(t) == Push(t, [Queued(hand[t]) EXCEPT !.stamp = work_block])

hash_push(t) == Push(t, Queued(hand[t]))

Again(t, w) == /\ step[t] = "tested" /\ hand[t].caller = "convert"
               /\ step' = [step EXCEPT ![t] = "search"]
               /\ hand' = [hand EXCEPT ![t] = w]
               /\ UNCHANGED <<countVars, reg, staged, restarts, diggerVars>>

\* The converted work is staged like any other, and so tested again; its flag
\* was cleared where the first test ended, where a mandatory work never comes.
StageConverted(t) ==
  Again(t, [hand[t] EXCEPT !.caller = "again", !.stamp = work_block,
                           !.longpoll = hand[t].mandatory])

\* The receiver's work, and with opt_fail_only a backup pool's, was only to
\* tell of the block.
Drop(t) == /\ step[t] = "tested"
           /\ \/ hand[t].caller = "notify"
              \/ hand[t].caller = "convert" /\ hand[t].backup /\ ~hand[t].mandatory
           /\ step' = [step EXCEPT ![t] = "idle"]
           /\ hand' = [hand EXCEPT ![t] = NoWork]
           /\ UNCHANGED <<countVars, reg, staged, restarts, diggerVars>>

-----------------------------------------------------------------------------
(* The restart threads.                                                    *)

discard_stale == /\ restarts.discard > 0
                 /\ staged' = {w \in staged : ~Stale(w.stamp)}
                 /\ restarts' = [discard |-> restarts.discard - 1,
                                 flag |-> restarts.flag + 1]
                 /\ UNCHANGED <<countVars, stagerVars, diggerVars>>

\* The flags of the threads, which have nothing to do with each other.
FlagThreads == /\ restarts.flag > 0
               /\ flag' = [m \in Digger |-> TRUE]
               /\ restarts' = [restarts EXCEPT !.flag = @ - 1]
               /\ UNCHANGED <<countVars, stagerVars, staged, digs, mined>>

-----------------------------------------------------------------------------
(* A mining thread.                                                        *)

\* get_work: stale works on the way are discarded.
get_work(m) ==
  /\ digs[m] = "get"
  /\ \E w \in staged :
       /\ staged' = staged \ {w}
       /\ IF Stale(w.stamp)
          THEN UNCHANGED <<digs, mined>>
          ELSE /\ digs' = [digs EXCEPT ![m] = "clear"]
               /\ mined' = [mined EXCEPT ![m] = w.stamp]
  /\ UNCHANGED <<countVars, stagerVars, restarts, flag>>

ClearRestart(m) == /\ digs[m] = "clear"
                   /\ digs' = [digs EXCEPT ![m] = "scan"]
                   /\ flag' = [flag EXCEPT ![m] = FALSE]
                   /\ UNCHANGED <<countVars, stagerVars, staged, restarts, mined>>

scanhash(m) == /\ digs[m] = "scan"
               /\ digs' = [digs EXCEPT ![m] = "test"]
               /\ UNCHANGED <<countVars, stagerVars, staged, restarts, mined, flag>>

GoOn(m, new) == /\ digs[m] = "test"
                /\ \/ /\ digs' = [digs EXCEPT ![m] = "get"]
                      /\ mined' = [mined EXCEPT ![m] = NoWork]
                   \/ /\ ~new
                      /\ digs' = [digs EXCEPT ![m] = "scan"]
                      /\ UNCHANGED mined
                /\ UNCHANGED <<countVars, stagerVars, staged, restarts, flag>>

\* Faulty: it relies on its flag.
AbandonFlagged(m) == GoOn(m, flag[m])

\* After a scan: the work was hashed up, its time is over, the flag was seen, or
\* the thread goes on. It looks at the flag at the end of a cycle only, and so
\* may go on with the flag set; not with a stale work.
abandon_work(m) == GoOn(m, Stale(mined[m]))

-----------------------------------------------------------------------------

Staging(t) == \/ stage_work(t) \/ convert_to_work(t) \/ CleanJobs(t)
              \/ SkipTest(t) \/ block_exists(t)
              \/ ReadNumber(t) \/ WriteNumber(t) \/ AddBlock(t) \/ FirstBlock(t)
              \/ ReadNews(t) \/ WriteNews(t) \/ restart_threads(t)
              \/ hash_push(t) \/ StageConverted(t) \/ Drop(t)

Digging(m) == get_work(m) \/ ClearRestart(m) \/ scanhash(m) \/ abandon_work(m)

BlocksNext == \/ \E t \in Stager : Staging(t)
              \/ discard_stale \/ FlagThreads
              \/ \E m \in Digger : Digging(m)

(* A mining thread goes on, and every scan of the device comes to its end. *)
BlocksFairness == \A m \in Digger : WF_blocksVars(ClearRestart(m) \/ scanhash(m) \/ abandon_work(m))

BlocksSpec == BlocksInit /\ [][BlocksNext]_blocksVars /\ BlocksFairness

-----------------------------------------------------------------------------
(* Properties.                                                             *)

(* Types; the database keeps at most one entry more than Keep.             *)
BlocksTypeOK ==
  /\ blocks \in Seq([hash : Block \union {Genesis}, no : Nat]) /\ Len(blocks) <= Keep + 1
  /\ new_blocks \in Nat /\ work_block \in Nat
  /\ step \in [Stager -> {"idle", "search", "number", "numbered", "add", "added",
                          "inc", "write", "lpinc", "lpwrite", "restart", "tested"}]
  /\ hand \in [Stager -> Work \union {NoWork}]
  /\ \A t \in Stager : step[t] = "idle" <=> hand[t] = NoWork
  /\ reg \in [Stager -> Nat]
  /\ staged \subseteq [stamp : Nat, tested : Nat]
  /\ restarts \in [discard : Nat, flag : Nat]
  /\ digs \in [Digger -> {"get", "clear", "scan", "test"}]
  /\ mined \in [Digger -> Nat \union {NoWork}]
  /\ \A m \in Digger : digs[m] = "get" <=> mined[m] = NoWork
  /\ flag \in [Digger -> BOOLEAN]
  /\ raced \in BOOLEAN

(* The test of a work in the queue that is not stale knew of the latest    *)
(* news: stage_work takes work_block before the test, so news that come in *)
(* between make the work stale.  A lost increment breaks this, and a       *)
(* mandatory work is not tested.                                           *)
FreshSinceTest == ~raced => \A w \in staged : Stale(w.stamp) \/ w.tested = work_block

(* convert_to_work has its work tested twice, by its own call and by       *)
(* stage_work's: a longpoll for a known block counts as news once.         *)
LongpollCountsOnce ==
  \A t \in Stager : step[t] \in {"lpinc", "lpwrite"} => hand[t].caller # "again"

(* A thread does not stay with a stale work, although its work_restart can *)
(* be set before it clears it and a backup pool's longpoll sets none.      *)
StaleWorkLeft == \A m \in Digger :
  (digs[m] # "get" /\ Stale(mined[m])) ~> (digs[m] = "get" \/ ~Stale(mined[m]))

=============================================================================
