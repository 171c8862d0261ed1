---------------------------- MODULE BlocksProofs ----------------------------
(***************************************************************************)
(* For any number of threads, blocks and works: as long as no increment of *)
(* work_block was overwritten, a work in the queue that is not stale was   *)
(* tested knowing the latest news.                                         *)
(*                                                                         *)
(* What must be kept is that no stamp is ahead of work_block, in the queue *)
(* or in a hand (NoneAhead, Known...): news then make all of them stale at *)
(* once, and a work whose stamp still is work_block was tested since.      *)
(***************************************************************************)
EXTENDS Blocks, SequenceTheorems, WellFoundedInduction, TLAPS

Entry == [hash : Block \union {Genesis}, no : Nat]

DatabaseOK == blocks \in Seq(Entry) /\ Len(blocks) <= Keep + 1 /\ blocks # <<>>

CountsOK == /\ new_blocks \in Nat /\ work_block \in Nat
            /\ raced \in BOOLEAN
            /\ restarts \in [discard : Nat, flag : Nat]

Steps == {"idle", "search", "number", "numbered", "add", "added",
          "inc", "write", "lpinc", "lpwrite", "restart", "tested"}

StagersOK == /\ step \in [Stager -> Steps]
             /\ hand \in [Stager -> Work \union {NoWork}]
             /\ \A t \in Stager : step[t] = "idle" <=> hand[t] = NoWork
             /\ reg \in [Stager -> Nat]

QueueOK == staged \subseteq [stamp : Nat, tested : Nat]

DiggersOK == /\ digs \in [Digger -> {"get", "clear", "scan", "test"}]
             /\ mined \in [Digger -> Nat \union {NoWork}]
             /\ \A m \in Digger : digs[m] = "get" <=> mined[m] = NoWork
             /\ flag \in [Digger -> BOOLEAN]

Types == DatabaseOK /\ CountsOK /\ StagersOK /\ QueueOK /\ DiggersOK

(* A work past block_exists is not a mandatory one, unless its test was    *)
(* left out, and counts as a longpoll's only if it is one that is tested   *)
(* for the first time.                                                     *)
Testing(t) == step[t] \notin {"idle", "search", "tested"}

HandsOK == \A t \in Stager :
  /\ Testing(t) => ~hand[t].mandatory
  /\ step[t] \in {"lpinc", "lpwrite"} => hand[t].longpoll
  /\ step[t] # "idle" /\ hand[t].caller = "again" /\ hand[t].longpoll => hand[t].mandatory

(* w, that was tested, knows the latest news if its stamp is the latest.   *)
UpToDate(w) == /\ w.stamp <= work_block
               /\ w.stamp = work_block => w.tested = work_block

NoneAhead == ~raced =>
  /\ \A w \in staged : UpToDate(w)
  /\ \A t \in Stager :
       /\ step[t] # "idle" => hand[t].stamp <= work_block /\ hand[t].tested <= work_block
       /\ Testing(t) \/ (step[t] = "tested" /\ ~hand[t].mandatory) => UpToDate(hand[t])

IInv == Types /\ HandsOK /\ NoneAhead

-----------------------------------------------------------------------------
(* The database.                                                           *)

(* A set of naturals has a least one.                                      *)
LEMMA LeastNat ==
  ASSUME NEW T, T \subseteq Nat, T # {}
  PROVE  \E n \in T : \A m \in T : n <= m
  <1>1. PICK n \in T : \A m \in T : ~(<<m, n>> \in OpToRel(<, Nat))
    BY NatLessThanWellFounded, WFMin, Zenon
  <1>2. ASSUME NEW m \in T PROVE n <= m
    <2>1. m \in Nat /\ n \in Nat
      OBVIOUS
    <2>2. ~(m < n)
      BY <1>1, <2>1 DEF OpToRel
    <2> QED BY <2>1, <2>2
  <1> QED BY <1>2

(* HASH_SORT puts an entry first.                                          *)
LEMMA OldestIsEntry ==
  ASSUME DatabaseOK
  PROVE  Oldest \in DOMAIN blocks
  <1> DEFINE D   == DOMAIN blocks
             Nos == {blocks[i].no : i \in D}
  <1>1. /\ D \subseteq Nat /\ D # {}
        /\ \A i \in D : blocks[i].no \in Nat
    <2>1. Len(blocks) \in Nat \ {0} /\ D = 1 .. Len(blocks)
      BY LenProperties, EmptySeq DEF DatabaseOK
    <2>2. \A i \in D : blocks[i] \in Entry
      BY <2>1, ElementOfSeq DEF DatabaseOK
    <2> QED BY <2>1, <2>2 DEF Entry
  <1> HIDE DEF D
  <1>2. PICK n \in Nos : \A m \in Nos : n <= m
    BY <1>1, LeastNat
  <1> DEFINE At == {i \in D : blocks[i].no = n}
  <1>3. PICK i \in At : \A j \in At : i <= j
    <2>1. At \subseteq Nat /\ At # {}
      BY <1>1
    <2> HIDE DEF At
    <2> QED BY <2>1, LeastNat
  <1>4. /\ i \in D
        /\ \A j \in D : /\ blocks[i].no <= blocks[j].no
                        /\ blocks[i].no = blocks[j].no => i <= j
    BY <1>2, <1>3
  <1> QED BY <1>4 DEF Oldest, D

(* An entry more, the oldest going where there were more than Keep.        *)
LEMMA Added ==
  ASSUME DatabaseOK, NEW e \in Entry,
         blocks' = Append(IF Len(blocks) > Keep THEN RemoveAt(blocks, Oldest) ELSE blocks, e)
  PROVE  DatabaseOK'
  <1> DEFINE kept == IF Len(blocks) > Keep THEN RemoveAt(blocks, Oldest) ELSE blocks
  <1>1. Keep \in Nat \ {0} /\ Len(blocks) \in Nat
    BY BlocksAssumption, LenProperties DEF DatabaseOK
  <1>2. kept \in Seq(Entry) /\ Len(kept) <= Keep
    <2>1. CASE Len(blocks) > Keep
      <3> DEFINE n    == Len(blocks)
                 k    == Oldest
                 old  == SubSeq(blocks, 1, k - 1)
                 new  == SubSeq(blocks, k + 1, n)
      <3>1. k \in 1 .. n /\ n <= Keep + 1
        BY OldestIsEntry, LenProperties DEF DatabaseOK
      <3>2. old \in Seq(Entry) /\ Len(old) = k - 1
        <4> HIDE DEF n, k
        <4>1. blocks \in Seq(Entry) /\ n = Len(blocks)
          BY DEF DatabaseOK, n
        <4>2. \A i \in 1 .. k - 1 : i \in 1 .. n
          BY <1>1, <3>1, <4>1
        <4>3. \A i \in 1 .. k - 1 : blocks[i] \in Entry
          BY <4>1, <4>2, ElementOfSeq
        <4> QED BY <1>1, <3>1, <4>1, <4>3, SubSeqProperties DEF old
      <3>3. new \in Seq(Entry) /\ Len(new) = n - k
        <4> HIDE DEF k
        <4>1. blocks \in Seq(Entry)
          BY DEF DatabaseOK
        <4>2. \A i \in k + 1 .. n : blocks[i] \in Entry
          BY <1>1, <3>1, <4>1, ElementOfSeq
        <4>3. k + 1 \in 1 .. n + 1 /\ n \in k .. n
          BY <1>1, <3>1
        <4> QED BY <1>1, <3>1, <4>1, <4>2, <4>3, SubSeqProperties
      <3>4. kept = old \o new
        BY <2>1 DEF RemoveAt
      <3> HIDE DEF old, new, n, k, kept
      <3>5. kept \in Seq(Entry) /\ Len(kept) = n - 1
        BY <1>1, <3>1, <3>2, <3>3, <3>4, ConcatProperties DEF n
      <3> QED BY <1>1, <3>1, <3>5 DEF n
    <2>2. CASE ~(Len(blocks) > Keep)
      <3>1. kept = blocks
        BY <2>2
      <3> HIDE DEF kept
      <3> QED BY <1>1, <2>2, <3>1 DEF DatabaseOK
    <2> QED BY <2>1, <2>2
  <1> HIDE DEF kept
  <1>3. blocks' = Append(kept, e)
    BY DEF kept
  <1>4. blocks' \in Seq(Entry) /\ Len(blocks') = Len(kept) + 1 /\ blocks' # <<>>
    <2>1. /\ Append(kept, e) \in Seq(Entry) /\ Append(kept, e) # <<>>
          /\ Len(Append(kept, e)) = Len(kept) + 1
      BY <1>2, AppendProperties, Zenon
    <2> QED BY <1>3, <2>1, Zenon
  <1> QED BY <1>1, <1>2, <1>4, LenProperties DEF DatabaseOK

-----------------------------------------------------------------------------
(* The steps of the threads that test works.                               *)

LEMMA InitOK == BlocksInit => IInv
  <1> SUFFICES ASSUME BlocksInit PROVE IInv
    OBVIOUS
  <1>1. DatabaseOK
    <2> DEFINE first == [hash |-> Genesis, no |-> 0]
    <2>1. first \in Entry /\ blocks = <<first>>
      BY DEF BlocksInit, Entry
    <2> HIDE DEF first
    <2>2. <<first>> \in Seq(Entry) /\ Len(<<first>>) = 1 /\ <<first>> # <<>>
      BY <2>1
    <2> QED BY <2>1, <2>2, BlocksAssumption DEF DatabaseOK
  <1>2. CountsOK /\ StagersOK /\ QueueOK /\ DiggersOK
    BY BlocksAssumption DEF BlocksInit, CountsOK, StagersOK, QueueOK, DiggersOK, Steps
  <1>3. HandsOK /\ NoneAhead
    BY DEF BlocksInit, HandsOK, NoneAhead, Testing
  <1> QED BY <1>1, <1>2, <1>3 DEF IInv, Types

(* A thread takes a work up: its own, a longpoll's or a receiver's.        *)
LEMMA BeginOK ==
  ASSUME IInv, NEW t \in Stager, NEW w \in Work, Begin(t, w),
         w.caller # "again", w.stamp <= work_block, w.tested <= work_block
  PROVE  IInv'
  <1> USE DEF Begin, Turn, countVars, diggerVars
  <1>1. DatabaseOK' /\ CountsOK' /\ QueueOK' /\ DiggersOK'
    BY DEF IInv, Types, DatabaseOK, CountsOK, QueueOK, DiggersOK
  <1>2. StagersOK'
    BY BlocksAssumption DEF IInv, Types, StagersOK, Steps
  <1>3. HandsOK'
    BY DEF IInv, Types, StagersOK, HandsOK, Testing
  <1>4. NoneAhead'
    BY DEF IInv, Types, StagersOK, NoneAhead, Testing, UpToDate
  <1> QED BY <1>1, <1>2, <1>3, <1>4 DEF IInv, Types

(* Its step alone changes, and what it read of a counter.                  *)
LEMMA OnwardOK ==
  ASSUME IInv, NEW t \in Stager, NEW n \in Nat, NEW to \in Steps \ {"idle", "search"},
         step[t] # "idle", step' = [step EXCEPT ![t] = to],
         reg' = [reg EXCEPT ![t] = n],
         UNCHANGED <<work_block, raced, hand, staged, diggerVars>>,
         DatabaseOK', CountsOK',
         to \in {"lpinc", "lpwrite"} => hand[t].longpoll,
         Testing(t) \/ (to = "tested" /\ hand[t].mandatory)
  PROVE  IInv'
  <1> USE DEF diggerVars
  <1>1. QueueOK' /\ DiggersOK'
    BY DEF IInv, Types, QueueOK, DiggersOK
  <1>2. StagersOK'
    BY DEF IInv, Types, StagersOK
  <1>3. HandsOK'
    BY <1>2 DEF IInv, Types, StagersOK, HandsOK, Testing
  <1>4. NoneAhead'
    BY DEF IInv, Types, StagersOK, NoneAhead, Testing, UpToDate
  <1> QED BY <1>1, <1>2, <1>3, <1>4 DEF IInv, Types

(* What leaves the counts and the database alone.                          *)
LEMMA CountsStay ==
  ASSUME IInv, UNCHANGED <<countVars, restarts>>
  PROVE  DatabaseOK' /\ CountsOK'
  BY DEF IInv, Types, DatabaseOK, CountsOK, countVars

LEMMA SkipTestOK == ASSUME IInv, NEW t \in Stager, SkipTest(t) PROVE IInv'
  <1>1. DatabaseOK' /\ CountsOK'
    BY CountsStay DEF SkipTest
  <1>2. reg' = [reg EXCEPT ![t] = reg[t]] /\ reg[t] \in Nat
    BY DEF SkipTest, IInv, Types, StagersOK
  <1>3. UNCHANGED <<work_block, raced, hand, staged, diggerVars>>
    BY DEF SkipTest, countVars
  <1> QED BY <1>1, <1>2, <1>3, OnwardOK DEF SkipTest, Steps

LEMMA NumberOK ==
  ASSUME IInv, NEW t \in Stager, ReadNumber(t) \/ WriteNumber(t) \/ AddBlock(t) \/ FirstBlock(t)
  PROVE  IInv'
  <1>1. UNCHANGED <<work_block, raced, hand, staged, restarts, diggerVars>>
    BY DEF ReadNumber, WriteNumber, AddBlock, FirstBlock, countVars
  <1>2. /\ new_blocks \in Nat /\ work_block \in Nat /\ raced \in BOOLEAN
        /\ restarts \in [discard : Nat, flag : Nat]
        /\ reg \in [Stager -> Nat] /\ hand \in [Stager -> Work \union {NoWork}]
        /\ step[t] # "idle" => hand[t] \in Work
    BY DEF IInv, Types, CountsOK, StagersOK
  <1>3. CASE ReadNumber(t)
    <2>1. DatabaseOK' /\ CountsOK'
      BY <1>3, CountsStay DEF ReadNumber
    <2> QED BY <1>1, <1>2, <1>3, <2>1, OnwardOK DEF ReadNumber, Turn, Steps, Testing
  <1>4. CASE WriteNumber(t)
    <2>1. DatabaseOK' /\ CountsOK'
      BY <1>1, <1>2, <1>4 DEF WriteNumber, IInv, Types, DatabaseOK, CountsOK
    <2>2. reg' = [reg EXCEPT ![t] = reg[t]]
      BY <1>2, <1>4 DEF WriteNumber
    <2> QED BY <1>1, <1>2, <1>4, <2>1, <2>2, OnwardOK DEF WriteNumber, Turn, Steps, Testing
  <1>5. CASE AddBlock(t)
    <2>1. step[t] = "add" /\ hand[t] \in Work
      BY <1>2, <1>5 DEF AddBlock, Turn
    <2> DEFINE e == [hash |-> hand[t].block, no |-> reg[t]]
    <2>2. e \in Entry
      BY <1>2, <2>1 DEF Work, Entry
    <2>3. blocks' = Append(IF Len(blocks) > Keep THEN RemoveAt(blocks, Oldest) ELSE blocks, e)
      BY <1>5 DEF AddBlock
    <2> HIDE DEF e
    <2>4. DatabaseOK'
      BY <2>2, <2>3, Added DEF IInv, Types
    <2>5. CountsOK'
      BY <1>1, <1>2, <1>5 DEF AddBlock, CountsOK
    <2> QED BY <1>1, <1>2, <1>5, <2>4, <2>5, OnwardOK DEF AddBlock, Turn, Steps, Testing
  <1>6. CASE FirstBlock(t)
    <2>1. DatabaseOK' /\ CountsOK'
      BY <1>6, CountsStay DEF FirstBlock
    <2>2. reg' = [reg EXCEPT ![t] = reg[t]]
      BY <1>2, <1>6 DEF FirstBlock
    <2>3. PICK to \in {"tested", "inc"} : step' = [step EXCEPT ![t] = to]
      BY <1>6 DEF FirstBlock
    <2>4. Testing(t) /\ ~hand[t].mandatory
      BY <1>6 DEF FirstBlock, Testing, IInv, HandsOK
    <2>5. /\ reg[t] \in Nat /\ step[t] # "idle"
          /\ to \in Steps \ {"idle", "search"} /\ to \notin {"lpinc", "lpwrite"}
      BY <1>2, <2>3, <2>4 DEF Testing, Steps
    <2> QED BY <1>1, <2>1, <2>2, <2>3, <2>4, <2>5, OnwardOK
  <1> QED BY <1>3, <1>4, <1>5, <1>6

LEMMA ReadNewsOK == ASSUME IInv, NEW t \in Stager, ReadNews(t) PROVE IInv'
  <1>1. UNCHANGED <<work_block, raced, hand, staged, diggerVars>> /\ work_block \in Nat
    BY DEF ReadNews, countVars, IInv, Types, CountsOK
  <1>2. DatabaseOK' /\ CountsOK'
    BY CountsStay DEF ReadNews
  <1>3. PICK to \in {"write", "lpwrite"} :
          /\ step' = [step EXCEPT ![t] = to]
          /\ step[t] \in {"inc", "lpinc"}
          /\ to = "lpwrite" => step[t] = "lpinc"
    BY DEF ReadNews, Turn
  <1>4. to = "lpwrite" => hand[t].longpoll
    BY <1>3 DEF IInv, HandsOK
  <1> QED BY <1>1, <1>2, <1>3, <1>4, OnwardOK DEF ReadNews, Steps, Testing

LEMMA RestartOK == ASSUME IInv, NEW t \in Stager, restart_threads(t) PROVE IInv'
  <1>1. UNCHANGED <<work_block, raced, hand, staged, diggerVars>>
    BY DEF restart_threads, countVars
  <1>2. DatabaseOK' /\ CountsOK'
    BY DEF restart_threads, countVars, IInv, Types, DatabaseOK, CountsOK
  <1>3. reg' = [reg EXCEPT ![t] = reg[t]] /\ reg[t] \in Nat
    BY DEF restart_threads, IInv, Types, StagersOK
  <1> QED BY <1>1, <1>2, <1>3, OnwardOK DEF restart_threads, Turn, Steps, Testing

LEMMA block_existsOK == ASSUME IInv, NEW t \in Stager, block_exists(t) PROVE IInv'
  <1> USE DEF block_exists, countVars, diggerVars
  <1>1. DatabaseOK' /\ CountsOK' /\ QueueOK' /\ DiggersOK'
    BY DEF IInv, Types, DatabaseOK, CountsOK, QueueOK, DiggersOK
  <1>2. hand[t] \in Work /\ [hand[t] EXCEPT !.tested = work_block] \in Work
    BY DEF IInv, Types, StagersOK, CountsOK, Work
  <1>3. PICK to \in {"number", "lpinc", "tested"} :
          step' = [step EXCEPT ![t] = to] /\ (to = "lpinc" => hand[t].longpoll)
    <2>1. CASE ~Known(hand[t].block)
      BY <2>1
    <2>2. CASE Known(hand[t].block) /\ hand[t].longpoll
      BY <2>2
    <2>3. CASE Known(hand[t].block) /\ ~hand[t].longpoll
      BY <2>3
    <2> QED BY <2>1, <2>2, <2>3
  <1>4. hand' = [hand EXCEPT ![t] = [hand[t] EXCEPT !.tested = work_block]]
    BY DEF IInv, Types, StagersOK
  <1>5. StagersOK'
    BY <1>2, <1>3, <1>4, BlocksAssumption DEF IInv, Types, StagersOK, Steps
  <1> DEFINE new == [hand[t] EXCEPT !.tested = work_block]
  <1>6. /\ new.tested = work_block /\ new.stamp = hand[t].stamp
        /\ new.mandatory = hand[t].mandatory /\ new.caller = hand[t].caller
        /\ new.longpoll = hand[t].longpoll /\ new \in Work /\ hand' = [hand EXCEPT ![t] = new]
        /\ step[t] = "search" /\ ~hand[t].mandatory
    BY <1>2, <1>4 DEF Work
  <1> HIDE DEF new
  <1>7. HandsOK'
    BY <1>3, <1>6 DEF IInv, Types, StagersOK, HandsOK, Testing
  <1>8. NoneAhead'
    BY <1>3, <1>6 DEF IInv, Types, StagersOK, CountsOK, NoneAhead, Testing, UpToDate
  <1> QED BY <1>1, <1>5, <1>7, <1>8 DEF IInv, Types

(* The stamps of before are all older than the news, if the increment is   *)
(* not one that overwrites another.                                        *)
LEMMA WriteNewsOK == ASSUME IInv, NEW t \in Stager, WriteNews(t) PROVE IInv'
  <1> USE DEF WriteNews, countVars, diggerVars
  <1> DEFINE n   == reg[t] + 1
             new == [hand[t] EXCEPT !.stamp = n, !.tested = n]
  <1>1. /\ reg[t] \in Nat /\ work_block \in Nat /\ n \in Nat
        /\ ~raced' => ~raced /\ n = work_block + 1
        /\ work_block' = n
    <2>1. /\ reg[t] \in Nat /\ work_block \in Nat
          /\ raced \in BOOLEAN /\ (raced' <=> (raced \/ work_block # reg[t]))
      BY DEF IInv, Types, StagersOK, CountsOK
    <2>2. work_block' = n
      OBVIOUS
    <2> QED BY <2>1, <2>2
  <1>2. PICK to \in {"restart", "tested"} :
          step' = [step EXCEPT ![t] = to] /\ step[t] \in {"write", "lpwrite"}
    BY DEF Turn
  <1>3. hand[t] \in Work /\ ~hand[t].mandatory
    BY <1>2 DEF IInv, Types, StagersOK, HandsOK, Testing
  <1>4. /\ new \in Work /\ hand' = [hand EXCEPT ![t] = new]
        /\ new.stamp = n /\ new.tested = n
        /\ new.mandatory = hand[t].mandatory /\ new.caller = hand[t].caller
        /\ new.longpoll = hand[t].longpoll
    BY <1>1, <1>3 DEF IInv, Types, StagersOK, Work
  <1>5. DatabaseOK' /\ CountsOK' /\ QueueOK' /\ DiggersOK'
    BY <1>1 DEF IInv, Types, DatabaseOK, CountsOK, QueueOK, DiggersOK
  <1> HIDE DEF new, n
  <1>6. StagersOK'
    BY <1>2, <1>3, <1>4, BlocksAssumption DEF IInv, Types, StagersOK, Steps
  <1>7. HandsOK'
    BY <1>2, <1>3, <1>4 DEF IInv, Types, StagersOK, HandsOK, Testing
  <1>8. NoneAhead'
    <2> SUFFICES ASSUME ~raced' PROVE NoneAhead'
      BY DEF NoneAhead
    <2>1. \A w \in staged : w.stamp \in Nat /\ w.stamp <= work_block
      BY <1>1 DEF IInv, Types, QueueOK, NoneAhead, UpToDate
    <2>2. \A w \in staged' : UpToDate(w)'
      BY <1>1, <2>1 DEF UpToDate
    <2>3. \A u \in Stager : step[u] # "idle" =>
            /\ hand[u].stamp \in Nat /\ hand[u].stamp <= work_block
            /\ hand[u].tested \in Nat /\ hand[u].tested <= work_block
      BY <1>1 DEF IInv, Types, StagersOK, NoneAhead, Work
    <2>4. ASSUME NEW u \in Stager, step'[u] # "idle"
          PROVE  /\ hand'[u].stamp <= work_block' /\ hand'[u].tested <= work_block'
                 /\ UpToDate(hand[u])'
      <3>1. CASE u = t
        BY <1>1, <1>4, <3>1 DEF UpToDate, IInv, Types, StagersOK
      <3>2. CASE u # t
        <4>1. hand'[u] = hand[u] /\ step[u] # "idle"
          BY <1>2, <1>4, <2>4, <3>2 DEF IInv, Types, StagersOK
        <4> QED BY <1>1, <2>3, <4>1 DEF UpToDate
      <3> QED BY <3>1, <3>2
    <2> QED BY <2>2, <2>4 DEF NoneAhead, Testing
  <1> QED BY <1>5, <1>6, <1>7, <1>8 DEF IInv, Types

-----------------------------------------------------------------------------
(* The end of a test.                                                      *)

(* The thread lets go of its work; the queue has nothing new, or what it   *)
(* tested.                                                                 *)
LEMMA LetGoOK ==
  ASSUME IInv, NEW t \in Stager, step[t] = "tested",
         step' = [step EXCEPT ![t] = "idle"], hand' = [hand EXCEPT ![t] = NoWork],
         UNCHANGED <<countVars, reg, restarts, diggerVars>>,
         staged' = staged \/ staged' = staged \union {Queued(hand[t])}
  PROVE  IInv'
  <1> USE DEF countVars, diggerVars
  <1> DEFINE q == Queued(hand[t])
  <1>1. /\ hand[t] \in Work /\ q \in [stamp : Nat, tested : Nat]
        /\ ~raced => UpToDate(q)
    BY DEF IInv, Types, StagersOK, Work, Queued, NoneAhead, UpToDate
  <1> HIDE DEF q
  <1>2. \A w \in staged' : w \in staged \/ w = q
    BY DEF q
  <1>3. DatabaseOK' /\ CountsOK' /\ DiggersOK'
    BY DEF IInv, Types, DatabaseOK, CountsOK, DiggersOK
  <1>4. QueueOK'
    BY <1>1, <1>2 DEF IInv, Types, QueueOK
  <1>5. StagersOK'
    BY DEF IInv, Types, StagersOK, Steps
  <1>6. HandsOK'
    BY DEF IInv, Types, StagersOK, HandsOK, Testing
  <1>7. NoneAhead'
    <2> SUFFICES ASSUME ~raced PROVE NoneAhead'
      BY DEF NoneAhead
    <2>1. \A w \in staged' : UpToDate(w)'
      BY <1>1, <1>2 DEF IInv, NoneAhead, UpToDate
    <2>2. \A u \in Stager : step'[u] # "idle" => step'[u] = step[u] /\ hand'[u] = hand[u]
      BY DEF IInv, Types, StagersOK
    <2> QED BY <2>1, <2>2 DEF IInv, NoneAhead, Testing, UpToDate
  <1> QED BY <1>3, <1>4, <1>5, <1>6, <1>7 DEF IInv, Types

LEMMA hash_pushOK == ASSUME IInv, NEW t \in Stager, hash_push(t) PROVE IInv'
  BY LetGoOK DEF hash_push, Push

LEMMA DropOK == ASSUME IInv, NEW t \in Stager, Drop(t) PROVE IInv'
  BY LetGoOK DEF Drop

(* A converted work is stamped and tested once more.                       *)
LEMMA StageConvertedOK == ASSUME IInv, NEW t \in Stager, StageConverted(t) PROVE IInv'
  <1> USE DEF StageConverted, Again, countVars, diggerVars
  <1> DEFINE new == [hand[t] EXCEPT !.caller = "again", !.stamp = work_block,
                                    !.longpoll = hand[t].mandatory]
  <1>1. hand[t] \in Work /\ step[t] = "tested" /\ work_block \in Nat
    BY DEF IInv, Types, StagersOK, CountsOK
  <1>2. /\ new \in Work /\ hand' = [hand EXCEPT ![t] = new]
        /\ new.stamp = work_block /\ new.tested = hand[t].tested
        /\ new.longpoll => new.mandatory
    BY <1>1 DEF Work
  <1>3. DatabaseOK' /\ CountsOK' /\ QueueOK' /\ DiggersOK'
    BY DEF IInv, Types, DatabaseOK, CountsOK, QueueOK, DiggersOK
  <1> HIDE DEF new
  <1>4. StagersOK'
    BY <1>1, <1>2, BlocksAssumption DEF IInv, Types, StagersOK, Steps
  <1>5. HandsOK'
    BY <1>1, <1>2 DEF IInv, Types, StagersOK, HandsOK, Testing
  <1>6. NoneAhead'
    BY <1>1, <1>2 DEF IInv, Types, StagersOK, NoneAhead, Testing, UpToDate
  <1> QED BY <1>3, <1>4, <1>5, <1>6 DEF IInv, Types

-----------------------------------------------------------------------------
(* The other threads, and all of them.                                     *)

(* Works are only taken out of the queue.                                  *)
LEMMA QueueShrinks ==
  ASSUME IInv, staged' \subseteq staged, UNCHANGED <<countVars, stagerVars>>,
         restarts' \in [discard : Nat, flag : Nat], DiggersOK'
  PROVE  IInv'
  <1> USE DEF countVars, stagerVars
  <1>1. DatabaseOK' /\ CountsOK' /\ QueueOK' /\ StagersOK'
    BY DEF IInv, Types, DatabaseOK, CountsOK, QueueOK, StagersOK
  <1>2. HandsOK'
    BY DEF IInv, HandsOK, Testing
  <1>3. NoneAhead'
    BY DEF IInv, NoneAhead, Testing, UpToDate
  <1> QED BY <1>1, <1>2, <1>3 DEF IInv, Types

LEMMA RestartsOK == ASSUME IInv, discard_stale \/ FlagThreads PROVE IInv'
  <1>1. restarts' \in [discard : Nat, flag : Nat]
    BY DEF IInv, Types, CountsOK, discard_stale, FlagThreads
  <1>2. DiggersOK'
    BY DEF IInv, Types, DiggersOK, discard_stale, FlagThreads, diggerVars
  <1> QED BY <1>1, <1>2, QueueShrinks DEF discard_stale, FlagThreads

LEMMA DiggingOK == ASSUME IInv, NEW m \in Digger, Digging(m) PROVE IInv'
  <1>1. staged' \subseteq staged /\ UNCHANGED <<countVars, stagerVars, restarts>>
    BY DEF Digging, get_work, ClearRestart, scanhash, abandon_work, GoOn
  <1>2. restarts' \in [discard : Nat, flag : Nat]
    BY <1>1 DEF IInv, Types, CountsOK
  <1>3. DiggersOK'
    <2> USE BlocksAssumption DEF IInv, Types, DiggersOK, QueueOK
    <2>1. CASE get_work(m)
      BY <2>1 DEF get_work
    <2>2. CASE ClearRestart(m)
      BY <2>2 DEF ClearRestart
    <2>3. CASE scanhash(m)
      BY <2>3 DEF scanhash
    <2>4. CASE abandon_work(m)
      BY <2>4 DEF abandon_work, GoOn
    <2> QED BY <2>1, <2>2, <2>3, <2>4 DEF Digging
  <1> QED BY <1>1, <1>2, <1>3, QueueShrinks

LEMMA TakesUpOK ==
  ASSUME IInv, NEW t \in Stager, stage_work(t) \/ convert_to_work(t) \/ CleanJobs(t)
  PROVE  IInv'
  <1> PICK b \in Block, caller \in {"stage", "convert", "notify"}, backup, longpoll,
           mandatory \in BOOLEAN, stamp \in {0, work_block} :
        Begin(t, [caller |-> caller, backup |-> backup, block |-> b, longpoll |-> longpoll,
                  mandatory |-> mandatory, stamp |-> stamp, tested |-> 0])
    BY DEF stage_work, convert_to_work, CleanJobs
  <1> DEFINE w == [caller |-> caller, backup |-> backup, block |-> b, longpoll |-> longpoll,
                   mandatory |-> mandatory, stamp |-> stamp, tested |-> 0]
  <1>1. work_block \in Nat
    BY DEF IInv, Types, CountsOK
  <1>2. w \in Work /\ w.caller # "again" /\ w.stamp <= work_block /\ w.tested <= work_block
    BY <1>1 DEF Work
  <1> HIDE DEF w
  <1> QED BY <1>2, BeginOK DEF w

LEMMA StepOK == IInv /\ [BlocksNext]_blocksVars => IInv'
  <1> SUFFICES ASSUME IInv, [BlocksNext]_blocksVars PROVE IInv'
    OBVIOUS
  <1>1. ASSUME NEW t \in Stager, Staging(t) PROVE IInv'
    BY <1>1, TakesUpOK, SkipTestOK, block_existsOK, NumberOK, ReadNewsOK, WriteNewsOK,
       RestartOK, hash_pushOK, StageConvertedOK, DropOK, Zenon DEF Staging
  <1>2. CASE UNCHANGED blocksVars
    <2>1. restarts' \in [discard : Nat, flag : Nat] /\ DiggersOK'
      BY <1>2 DEF blocksVars, IInv, Types, CountsOK, DiggersOK, diggerVars
    <2> QED BY <1>2, <2>1, QueueShrinks DEF blocksVars
  <1> QED BY <1>1, <1>2, RestartsOK, DiggingOK DEF BlocksNext

LEMMA Invariant == BlocksSpec => []IInv
  BY InitOK, StepOK, PTL DEF BlocksSpec

(* The database, the counters, the hands and the queue keep their types;   *)
(* the database has at most one entry more than Keep.                      *)
THEOREM TypeCorrect == BlocksSpec => []BlocksTypeOK
  <1>1. IInv => BlocksTypeOK
    BY DEF IInv, Types, DatabaseOK, CountsOK, StagersOK, QueueOK, DiggersOK, Steps, Entry,
           BlocksTypeOK
  <1> QED BY <1>1, Invariant, PTL

(* A work in the queue that is not stale was tested knowing the latest     *)
(* news, whatever blocks come by whatever threads in whatever order.       *)
THEOREM Fresh == BlocksSpec => []FreshSinceTest
  <1>1. IInv => FreshSinceTest
    BY DEF IInv, NoneAhead, UpToDate, FreshSinceTest, Stale
  <1> QED BY <1>1, Invariant, PTL

(* A longpoll's work that is tested twice counts as news once.             *)
THEOREM CountedOnce == BlocksSpec => []LongpollCountsOnce
  <1>1. IInv => LongpollCountsOnce
    BY DEF IInv, HandsOK, Testing, LongpollCountsOnce
  <1> QED BY <1>1, Invariant, PTL

=============================================================================
