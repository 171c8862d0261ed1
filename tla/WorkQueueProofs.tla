-------------------------- MODULE WorkQueueProofs --------------------------
(***************************************************************************)
(* For any number of structs, miners and longpoll threads, hash_pop finds  *)
(* a work whenever the table is not empty.                                 *)
(*                                                                         *)
(* What must be kept is an inequality: the counter staged_rollable is at   *)
(* least the number of rollable works in the table.  The paths that delete *)
(* work without lowering the counter keep it; the path that lowers the     *)
(* counter takes a rollable work out; and no work in the table ever turns  *)
(* from a clone into a master.                                             *)
(***************************************************************************)
EXTENDS WorkQueue, FiniteSetTheorems, TLAPS

Rollable == {i \in Staged : work_rollable(i)}

(* The parts of the type invariant that speak of the structs, and of the   *)
(* threads.                                                                *)
Structs ==
  /\ where \in [Item -> Thread \union {"free", "staged"}]
  /\ DOMAIN w = Item
  /\ \A i \in Item : IF where[i] = "free" THEN w[i] = NoWork ELSE w[i] \in Work
  /\ stale \subseteq Live
  /\ given \subseteq Data

Threads ==
  /\ opt_queue \in Nat
  /\ no_work \in BOOLEAN
  /\ pc \in [Thread -> Locations]
  /\ extra \in BOOLEAN
  /\ mrs \in [Lp -> Int]

Covered == staged_rollable \in Nat /\ Cardinality(Rollable) <= staged_rollable

IInv == Structs /\ Threads /\ Covered

-----------------------------------------------------------------------------

(* The table is finite.                                                    *)
LEMMA FiniteTable ==
  /\ IsFiniteSet(Rollable) /\ Cardinality(Rollable) \in Nat
  /\ IsFiniteSet(Staged) /\ Cardinality(Staged) \in Nat
  <1>1. IsFiniteSet(Item)
    BY ConstantsAssumption
  <1>2. Staged \subseteq Item /\ Rollable \subseteq Item
    BY DEF Staged, Rollable
  <1> QED BY <1>1, <1>2, FS_Subset, FS_CardinalityType

LEMMA FiniteTableNext ==
  IsFiniteSet(Rollable') /\ Cardinality(Rollable)' \in Nat
  <1>1. IsFiniteSet(Item)
    BY ConstantsAssumption
  <1>2. Rollable' \subseteq Item
    BY DEF Staged, Rollable
  <1> QED BY <1>1, <1>2, FS_Subset, FS_CardinalityType

(* Taking work out of the table, or leaving it alone, keeps the count      *)
(* covered without touching the counter.                                   *)
LEMMA FewerCovered ==
  ASSUME Covered, Rollable' \subseteq Rollable, UNCHANGED staged_rollable
  PROVE  Covered'
  <1>1. Cardinality(Rollable') <= Cardinality(Rollable)
    BY FiniteTable, FS_Subset
  <1> QED BY <1>1, FiniteTable, FiniteTableNext DEF Covered

(* A push that adds one rollable work raises the counter by one.           *)
LEMMA OneMoreCovered ==
  ASSUME Covered, NEW i, Rollable' \subseteq Rollable \union {i},
         staged_rollable' = staged_rollable + 1
  PROVE  Covered'
  <1>1. /\ IsFiniteSet(Rollable \union {i})
        /\ Cardinality(Rollable \union {i}) <= Cardinality(Rollable) + 1
    BY FiniteTable, FS_AddElement
  <1>2. /\ Cardinality(Rollable') <= Cardinality(Rollable \union {i})
        /\ Cardinality(Rollable \union {i}) \in Nat
    BY <1>1, FS_Subset, FS_CardinalityType
  <1> QED BY <1>1, <1>2, FiniteTable, FiniteTableNext DEF Covered

(* A pop of a rollable work lowers it by one, and there was one to lower.  *)
LEMMA OneLessCovered ==
  ASSUME Covered, NEW i \in Rollable, Rollable' \subseteq Rollable \ {i},
         staged_rollable' = staged_rollable - 1
  PROVE  Covered'
  <1>1. /\ IsFiniteSet(Rollable \ {i})
        /\ Cardinality(Rollable \ {i}) = Cardinality(Rollable) - 1
        /\ Cardinality(Rollable \ {i}) \in Nat
    BY FiniteTable, FS_RemoveElement, FS_CardinalityType
  <1>2. Cardinality(Rollable') <= Cardinality(Rollable \ {i})
    BY <1>1, FS_Subset
  <1> QED BY <1>1, <1>2, FiniteTable, FiniteTableNext DEF Covered

(* The inequality is what a pop needs: were every staged work rollable and *)
(* the table larger than the counter, the counter would be too small.      *)
LEMMA CoveredFindsWork == Covered => PopFindsWork
  <1> SUFFICES ASSUME Covered, Staged # {} PROVE Choices # {}
    BY DEF PopFindsWork
  <1>1. CASE Cardinality(Staged) > staged_rollable
    <2>1. Rollable # Staged
      BY <1>1, FiniteTable DEF Covered
    <2>2. \E i \in Staged : ~work_rollable(i)
      BY <2>1 DEF Rollable
    <2> QED BY <1>1, <2>2 DEF Choices
  <1>2. CASE ~(Cardinality(Staged) > staged_rollable)
    BY <1>2 DEF Choices
  <1> QED BY <1>1, <1>2

-----------------------------------------------------------------------------
(* The building blocks of the actions.                                     *)

(* free_work keeps the structs well-formed and adds nothing to the table.  *)
LEMMA FreeStep ==
  ASSUME Structs, NEW S \in SUBSET Item, Free(S)
  PROVE  Structs' /\ Rollable' \subseteq Rollable \ S
  BY DEF Structs, Free, Live, Rollable, Staged, work_rollable

(* So does moving one live item to another owner, except that the table    *)
(* may gain it.                                                            *)
LEMMA MoveStep ==
  ASSUME Structs, NEW i \in Live, NEW t \in Thread \union {"staged"},
         where' = [where EXCEPT ![i] = t], UNCHANGED <<w, given>>,
         stale' \subseteq Live
  PROVE  /\ Structs'
         /\ t = "staged" => Rollable' \subseteq Rollable \union
                              (IF work_rollable(i) THEN {i} ELSE {})
         /\ t \in Thread => Rollable' \subseteq Rollable \ {i}
  <1>1. t \in Thread => t # "staged" /\ t # "free"
    BY ConstantsAssumption DEF Thread
  <1> QED BY <1>1 DEF Structs, Live, Rollable, Staged, work_rollable

(* make_work fills a free struct that its thread owns.                     *)
LEMMA MakeStep ==
  ASSUME Structs, NEW t \in Thread, NEW i \in Item, NEW p \in Pool,
         NEW rolltime \in BOOLEAN, Make(t, i, p, rolltime),
         stale' \subseteq Live, UNCHANGED given
  PROVE  Structs' /\ Rollable' \subseteq Rollable
  <1>1. t # "free" /\ t # "staged"
    BY ConstantsAssumption DEF Thread
  <1>2. PICK s \in Source :
          w' = [w EXCEPT ![i] = [pool |-> p, data |-> <<s, 0>>,
                                 clone |-> FALSE, rolltime |-> rolltime]]
    BY DEF Make, FreshSources
  <1>3. [pool |-> p, data |-> <<s, 0>>, clone |-> FALSE, rolltime |-> rolltime] \in Work
    BY ConstantsAssumption DEF Work, Data
  <1> QED
    BY <1>1, <1>2, <1>3 DEF Make, Structs, Live, Rollable, Staged, work_rollable

(* Rolling keeps what makes a work rollable, and its ntime in range.       *)
LEMMA RollTwice ==
  ASSUME NEW x \in Work, x.data[2] < RollLimit
  PROVE  LET rolled == roll_work(x)
         IN  /\ roll_work(rolled) \in Work
             /\ roll_work(rolled).clone = x.clone
             /\ roll_work(rolled).rolltime = x.rolltime
             /\ make_clone(rolled) \in Work
             /\ make_clone(rolled).clone
             /\ make_clone(x) \in Work
             /\ make_clone(x).clone
  <1>1. PICK s \in Source, n \in 0 .. RollLimit + 2 : x.data = <<s, n>>
    BY DEF Work, Data
  <1>2. n < RollLimit
    BY <1>1
  <1> DEFINE y == [x EXCEPT !.data = <<s, n + 1>>]
             z == [x EXCEPT !.data = <<s, n + 2>>]
  <1>3. roll_work(x) = y
    BY <1>1 DEF roll_work, Work
  <1>4. roll_work(y) = z
    <2>1. y.data = <<s, n + 1>> /\ n + 1 + 1 = n + 2
      BY DEF Work
    <2>2. y.data[2] = n + 1 /\ [<<s, n + 1>> EXCEPT ![2] = n + 2] = <<s, n + 2>>
      BY <2>1
    <2>3. roll_work(y) = [y EXCEPT !.data = [y.data EXCEPT ![2] = y.data[2] + 1]]
      BY DEF roll_work
    <2>4. roll_work(y) = [y EXCEPT !.data = <<s, n + 2>>]
      BY <2>1, <2>2, <2>3
    <2>5. [y EXCEPT !.data = <<s, n + 2>>] = z
      BY DEF Work
    <2> QED BY <2>4, <2>5
  <1>5. <<s, n + 1>> \in Data /\ <<s, n + 2>> \in Data
    BY <1>2, ConstantsAssumption DEF Data
  <1>6. y \in Work /\ z \in Work
    BY <1>5 DEF Work
  <1>7. z.clone = x.clone /\ z.rolltime = x.rolltime
    BY DEF Work
  <1>8. ASSUME NEW v \in Work PROVE make_clone(v) \in Work /\ make_clone(v).clone
    BY DEF make_clone, Work
  <1>9. roll_work(roll_work(x)) = z
    BY <1>3, <1>4
  <1> HIDE DEF y, z
  <1> QED BY <1>3, <1>6, <1>7, <1>8, <1>9

-----------------------------------------------------------------------------
(* The condition variables only move threads between locations.            *)
LEMMA SignalTypes ==
  ASSUME NEW p \in [Thread -> Locations]
  PROVE  /\ SignalGws(p) \in [Thread -> Locations]
         /\ \A q \in SignalGetq(p) : q \in [Thread -> Locations]
         /\ BroadcastGetq(p) \in [Thread -> Locations]
  BY DEF SignalGws, SignalGetq, BroadcastGetq, Waiters, Locations

(* hash_push, by the thread that owns the item.                            *)
LEMMA PushStep ==
  ASSUME Structs, Covered, NEW i \in Live, hash_push(i), UNCHANGED <<w, given>>
  PROVE  Structs' /\ Covered'
  <1>1. stale' \subseteq Live
    BY DEF hash_push, Structs
  <1>2. /\ Structs'
        /\ Rollable' \subseteq Rollable \union (IF work_rollable(i) THEN {i} ELSE {})
    BY <1>1, MoveStep DEF hash_push
  <1>3. CASE work_rollable(i)
    BY <1>2, <1>3, OneMoreCovered DEF hash_push
  <1>4. CASE ~work_rollable(i)
    <2>1. staged_rollable' = staged_rollable
      BY <1>4 DEF hash_push, Covered
    <2> QED BY <1>2, <1>4, <2>1, FewerCovered
  <1> QED BY <1>2, <1>3, <1>4

(* The choice of hash_pop comes from the table, and its count is settled.  *)
LEMMA PopStep ==
  ASSUME Covered, NEW i \in Choices, Uncount(i), Rollable' \subseteq Rollable \ {i}
  PROVE  Covered'
  <1>1. i \in Staged
    BY DEF Choices
  <1>2. CASE work_rollable(i)
    BY <1>1, <1>2, OneLessCovered DEF Rollable, Uncount
  <1>3. CASE ~work_rollable(i)
    <2>1. staged_rollable' = staged_rollable
      BY <1>3 DEF Uncount, Covered
    <2> QED BY <2>1, FewerCovered
  <1> QED BY <1>2, <1>3

-----------------------------------------------------------------------------
(* The miners.                                                             *)

LEMMA MinerStep ==
  ASSUME IInv, NEW m \in Miner, Pop(m) \/ Finish(m) \/ PopTimeout(m)
  PROVE  IInv'
  <1> USE DEF IInv
  <1>m. m \in Thread
    BY DEF Thread
  <1>1. CASE PopEmpty(m) \/ PopTimeout(m) \/ CheckFresh(m)
    <2>1. UNCHANGED <<where, w, stale, staged_rollable>>
      BY <1>1 DEF PopEmpty, PopTimeout, CheckFresh
    <2>2. Covered'
      BY <2>1 DEF Covered, Rollable, Staged, work_rollable
    <2>3. given' \subseteq Data
      BY <1>1, <1>m, ConstantsAssumption
      DEF PopEmpty, PopTimeout, CheckFresh, Structs, HeldBy, Thread, Work
    <2>4. Structs'
      BY <2>1, <2>3 DEF Structs, Live
    <2>5. [pc EXCEPT ![m] = "wait"] \in [Thread -> Locations]
      BY DEF Threads, Locations
    <2>6. Threads'
      BY <1>1, <2>5, SignalTypes DEF PopEmpty, PopTimeout, CheckFresh, Threads, Locations
    <2> QED BY <2>2, <2>4, <2>6
  <1>2. CASE PopTake(m)
    <2>1. PICK i \in Choices : where' = [where EXCEPT ![i] = m] /\ Uncount(i)
      BY <1>2 DEF PopTake
    <2>2. i \in Live
      BY DEF Choices, Staged, Live
    <2>3. Structs' /\ Rollable' \subseteq Rollable \ {i}
      BY <1>2, <1>m, <2>1, <2>2, MoveStep DEF PopTake, Structs
    <2>4. Covered'
      BY <2>1, <2>3, PopStep
    <2>5. [pc EXCEPT ![m] = "check"] \in [Thread -> Locations]
      BY DEF Threads, Locations
    <2>6. Threads'
      BY <1>2, <2>5, SignalTypes DEF PopTake, Threads
    <2> QED BY <2>3, <2>4, <2>6
  <1>3. CASE CheckStale(m) \/ Finish(m)
    <2>1. HeldBy(m) \in SUBSET Item
      BY DEF HeldBy
    <2>2. Structs' /\ Rollable' \subseteq Rollable \ HeldBy(m)
      BY <1>3, <2>1, FreeStep DEF CheckStale, Finish
    <2>3. Covered'
      BY <1>3, <2>2, FewerCovered DEF CheckStale, Finish
    <2>4. [pc EXCEPT ![m] = "pop"] \in [Thread -> Locations]
      BY DEF Threads, Locations
    <2>5. Threads'
      BY <1>3, <2>4, SignalTypes DEF CheckStale, Finish, Threads
    <2> QED BY <2>2, <2>3, <2>5
  <1> QED BY <1>1, <1>2, <1>3 DEF Pop

-----------------------------------------------------------------------------
(* The scheduler.                                                          *)

LEMMA SchedStep ==
  ASSUME IInv, Sched \/ SchedTimeout
  PROVE  IInv'
  <1> USE DEF IInv
  <1>m. Main \in Thread
    BY DEF Thread
  <1>0. ASSUME NEW l \in Locations PROVE [pc EXCEPT ![Main] = l] \in [Thread -> Locations]
    BY DEF Threads
  <1>1. CASE SchedTop \/ SchedWait \/ SchedGo \/ SchedTimeout \/ SchedRecount
    <2>1. UNCHANGED <<where, w, stale, given, staged_rollable>>
      BY <1>1 DEF SchedTop, SchedWait, SchedGo, SchedTimeout, SchedRecount
    <2>2. Structs' /\ Covered'
      BY <2>1 DEF Structs, Live, Covered, Rollable, Staged, work_rollable
    <2>3. extra' \in BOOLEAN /\ no_work' \in BOOLEAN
      BY <1>1, Zenon DEF SchedTop, SchedWait, SchedGo, SchedTimeout, SchedRecount, Threads
    <2>4. opt_queue' \in Nat /\ mrs' = mrs
      BY <1>1 DEF SchedTop, SchedWait, SchedGo, SchedTimeout, SchedRecount, Threads
    <2>5. pc' \in [Thread -> Locations]
      BY <1>1 DEF SchedTop, SchedWait, SchedGo, SchedTimeout, SchedRecount, Threads, Locations
    <2> QED BY <2>2, <2>3, <2>4, <2>5 DEF Threads
  <1>2. CASE SchedDrain
    <2>1. CASE Staged = {} /\ UNCHANGED <<where, w, stale, given, staged_rollable, no_work>>
      <3>1. Structs' /\ Covered'
        BY <2>1 DEF Structs, Live, Covered, Rollable, Staged, work_rollable
      <3>2. pc' \in [Thread -> Locations]
        BY <1>2, <1>0, SignalTypes DEF SchedDrain, Locations
      <3> QED BY <1>2, <2>1, <3>1, <3>2 DEF SchedDrain, Threads
    <2>2. CASE \E i \in Choices : Free({i}) /\ Uncount(i) /\ no_work' = FALSE
      <3>1. PICK i \in Choices : Free({i}) /\ Uncount(i)
        BY <2>2
      <3>2. {i} \in SUBSET Item
        BY DEF Choices, Staged
      <3>3. Structs' /\ Rollable' \subseteq Rollable \ {i}
        BY <3>1, <3>2, FreeStep
      <3>4. Covered'
        BY <3>1, <3>3, PopStep
      <3>5. pc' \in [Thread -> Locations]
        BY <1>2, <1>0, SignalTypes DEF SchedDrain, Locations
      <3> QED BY <1>2, <2>2, <3>3, <3>4, <3>5 DEF SchedDrain, Threads
    <2> QED BY <1>2, <2>1, <2>2 DEF SchedDrain
  <1>3. CASE SchedMake
    <2>1. PICK i \in Item, p \in Pool, rolltime \in BOOLEAN : Make(Main, i, p, rolltime)
      BY <1>3 DEF SchedMake
    <2>2. Structs' /\ Rollable' \subseteq Rollable
      BY <1>3, <1>m, <2>1, MakeStep DEF SchedMake, Structs
    <2>3. Covered'
      BY <1>3, <2>2, FewerCovered DEF SchedMake
    <2> QED BY <1>3, <2>2, <2>3 DEF SchedMake, Threads, Locations
  <1>4. CASE clone_available
    <2>1. PICK i \in Staged, c \in Item :
            /\ can_roll(i)
            /\ where[c] = "free"
            /\ where' = [where EXCEPT ![c] = Main]
            /\ w' = [w EXCEPT ![i] = roll_work(roll_work(w[i])),
                             ![c] = make_clone(roll_work(w[i]))]
      BY <1>4 DEF clone_available
    <2>2. i \in Item /\ i # c /\ w[i] \in Work /\ w[i].data[2] < RollLimit
      BY <2>1 DEF Staged, Structs, can_roll
    <2>3. /\ w'[i] \in Work /\ w'[c] \in Work
          /\ w'[i].clone = w[i].clone /\ w'[i].rolltime = w[i].rolltime
      BY <2>1, <2>2, RollTwice DEF Structs
    <2>4. Main # "free" /\ Main # "staged"
      BY ConstantsAssumption
    <2>5. UNCHANGED <<stale, given>>
      BY <1>4 DEF clone_available
    <2>6. Structs'
      BY <1>m, <2>1, <2>2, <2>3, <2>4, <2>5 DEF Structs, Live, Staged
    <2>7. Rollable' \subseteq Rollable
      BY <2>1, <2>2, <2>3, <2>4 DEF Rollable, Staged, work_rollable, Structs
    <2>8. Covered'
      BY <1>4, <2>7, FewerCovered DEF clone_available
    <2> QED BY <1>4, <2>6, <2>8 DEF clone_available, Threads, Locations
  <1>5. CASE SchedStage
    <2>1. PICK i \in HeldBy(Main) : hash_push(i)
      BY <1>5 DEF SchedStage
    <2>2. i \in Live
      BY ConstantsAssumption DEF HeldBy, Live
    <2>3. Structs' /\ Covered'
      BY <1>5, <2>1, <2>2, PushStep DEF SchedStage
    <2>4. pc' \in [Thread -> Locations]
      BY <1>5, SignalTypes DEF SchedStage, Pushed, Threads, Locations
    <2> QED BY <1>5, <2>3, <2>4 DEF SchedStage, Threads
  <1> QED BY <1>1, <1>2, <1>3, <1>4, <1>5 DEF Sched

-----------------------------------------------------------------------------
(* The longpoll threads.                                                   *)

LEMMA LpStepKeeps ==
  ASSUME IInv, NEW l \in Lp, LpStep(l)
  PROVE  IInv'
  <1> USE DEF IInv
  <1>m. l \in Thread /\ l # "free" /\ l # "staged"
    BY ConstantsAssumption DEF Thread
  <1>n. Cardinality(Miner) \in Nat
    BY ConstantsAssumption, FS_CardinalityType
  <1>1. CASE LpReceive(l)
    <2>1. PICK i \in Item, p \in Pool, rolltime \in BOOLEAN : Make(l, i, p, rolltime)
      BY <1>1 DEF LpReceive
    <2>2. Structs' /\ Rollable' \subseteq Rollable
      BY <1>1, <1>m, <2>1, MakeStep DEF LpReceive
    <2>3. Covered'
      BY <1>1, <2>2, FewerCovered DEF LpReceive
    <2>4. mrs' \in [Lp -> Int]
      BY <1>1, <1>n, FiniteTable DEF LpReceive, Threads
    <2> QED BY <1>1, <2>2, <2>3, <2>4 DEF LpReceive, Threads, Locations
  <1>2. CASE LpDrop(l)
    <2>1. HeldBy(l) \in SUBSET Item
      BY DEF HeldBy
    <2>2. Structs' /\ Rollable' \subseteq Rollable
      BY <1>2, <2>1, FreeStep DEF LpDrop
    <2>3. Covered'
      BY <1>2, <2>2, FewerCovered DEF LpDrop
    <2>4. Threads'
      BY <1>2, <1>m DEF LpDrop, Threads, Locations
    <2> QED BY <2>2, <2>3, <2>4
  <1>3. CASE LpCloneLoop(l)
    <2>0. PICK i \in Masters(l), c, d \in Item :
            /\ can_roll(i)
            /\ c # d /\ where[d] = "free"
            /\ IF Clones(l) = {} THEN where[c] = "free" ELSE c \in Clones(l)
            /\ where' = [where EXCEPT ![c] = "staged", ![d] = l]
            /\ w' = [w EXCEPT ![c] = IF Clones(l) = {} THEN make_clone(w[i]) ELSE w[c],
                             ![i] = roll_work(roll_work(w[i])),
                             ![d] = make_clone(roll_work(w[i]))]
            /\ stale' \subseteq Live
      BY <1>3 DEF LpCloneLoop, Structs
    <2>1. /\ i \in Item /\ where[i] = l /\ ~w[i].clone /\ i # d
          /\ w[i] \in Work /\ w[i].data[2] < RollLimit
      BY <1>m, <2>0 DEF Masters, HeldBy, Structs, can_roll
    <2>2. c # i
      BY <1>m, <2>0, <2>1 DEF Clones
    <2>3. /\ w'[i] \in Work /\ w'[d] \in Work
          /\ w'[c] \in Work /\ w'[c].clone
      <3>1. make_clone(w[i]) \in Work /\ make_clone(w[i]).clone
        BY <2>1, RollTwice
      <3>2. c \in Clones(l) => w[c] \in Work /\ w[c].clone
        BY <1>m DEF Clones, HeldBy, Structs
      <3>3. w'[c] = IF Clones(l) = {} THEN make_clone(w[i]) ELSE w[c]
        BY <2>0, <2>2 DEF Structs
      <3>4. w'[c] \in Work /\ w'[c].clone
        BY <2>0, <3>1, <3>2, <3>3
      <3>5. w'[i] = roll_work(roll_work(w[i])) /\ w'[d] = make_clone(roll_work(w[i]))
        BY <2>0, <2>1, <2>2 DEF Structs
      <3> QED BY <2>1, <3>4, <3>5, RollTwice
    <2>4. \A j \in Item \ {c, d, i} : where'[j] = where[j] /\ w'[j] = w[j]
      BY <2>0 DEF Structs
    <2>5. where'[c] = "staged" /\ where'[d] = l /\ where'[i] = l
      BY <2>0, <2>1, <2>2 DEF Structs
    <2>6. given' = given /\ DOMAIN w' = Item
          /\ where' \in [Item -> Thread \union {"free", "staged"}]
      BY <1>3, <1>m, <2>0 DEF LpCloneLoop, Structs
    <2>7. Structs'
      BY <1>m, <2>0, <2>3, <2>4, <2>5, <2>6 DEF Structs, Live
    <2>8. Rollable' \subseteq Rollable
      BY <1>m, <2>3, <2>4, <2>5 DEF Rollable, Staged, work_rollable
    <2>9. Covered'
      BY <1>3, <2>8, FewerCovered DEF LpCloneLoop
    <2>10. pc' \in [Thread -> Locations]
      BY <1>3, SignalTypes DEF LpCloneLoop, Pushed, Threads, Locations
    <2> QED BY <1>3, <2>7, <2>9, <2>10 DEF LpCloneLoop, Threads
  <1>4. CASE LpStageMaster(l) \/ LpStageClone(l)
    <2>1. PICK i \in HeldBy(l) : hash_push(i)
      BY <1>4 DEF LpStageMaster, LpStageClone, Masters, Clones
    <2>2. i \in Live
      BY <1>m DEF HeldBy, Live
    <2>3. Structs' /\ Covered'
      BY <1>4, <2>1, <2>2, PushStep DEF LpStageMaster, LpStageClone
    <2>4. pc' \in [Thread -> Locations]
      BY <1>4, SignalTypes DEF LpStageMaster, LpStageClone, Pushed, Threads, Locations
    <2> QED BY <1>4, <2>3, <2>4 DEF LpStageMaster, LpStageClone, Threads
  <1> QED BY <1>1, <1>2, <1>3, <1>4 DEF LpStep

-----------------------------------------------------------------------------
(* The threads that discard work.                                          *)

LEMMA OthersStep ==
  ASSUME IInv, Others
  PROVE  IInv'
  <1> USE DEF IInv
  <1>1. CASE NewBlock \/ Expire
    <2>1. stale' \subseteq Live /\ UNCHANGED <<where, w, given, staged_rollable>>
      BY <1>1 DEF NewBlock, Expire, Structs
    <2>2. Structs' /\ Covered'
      BY <2>1 DEF Structs, Live, Covered, Rollable, Staged, work_rollable
    <2> QED BY <1>1, <2>2 DEF NewBlock, Expire, Threads
  <1>2. CASE discard_stale \/ \E p \in Pool : clear_pool_work(p)
    <2>1. \E S \in SUBSET Item : Free(S)
      BY <1>2 DEF discard_stale, clear_pool_work, Staged
    <2>2. Structs' /\ Rollable' \subseteq Rollable
      BY <2>1, FreeStep
    <2>3. Covered'
      BY <1>2, <2>2, FewerCovered DEF discard_stale, clear_pool_work
    <2>4. Threads'
      BY <1>2, SignalTypes DEF discard_stale, clear_pool_work, Threads
    <2> QED BY <2>2, <2>3, <2>4
  <1> QED BY <1>1, <1>2 DEF Others

-----------------------------------------------------------------------------

(* The invariant holds in every reachable state.                           *)
LEMMA Inductive == Spec => []IInv
  <1>1. Init => IInv
    <2> SUFFICES ASSUME Init PROVE IInv
      OBVIOUS
    <2>1. Rollable = {}
      BY ConstantsAssumption DEF Init, Rollable, Staged
    <2>2. Cardinality(Rollable) = 0
      BY <2>1, FS_EmptySet
    <2>3. Structs
      BY DEF Init, Structs, Live
    <2>4. Covered
      BY <2>2 DEF Init, Covered
    <2>5. no_work \in BOOLEAN /\ extra \in BOOLEAN
      BY DEF Init
    <2>6. opt_queue \in Nat /\ mrs \in [Lp -> Int]
      BY ConstantsAssumption DEF Init
    <2>7. pc \in [Thread -> Locations]
      BY DEF Init, Locations
    <2> QED BY <2>3, <2>4, <2>5, <2>6, <2>7 DEF IInv, Threads
  <1>2. IInv /\ [Next]_vars => IInv'
    <2>1. ASSUME IInv, Next PROVE IInv'
      BY <2>1, MinerStep, SchedStep, LpStepKeeps, OthersStep DEF Next, Timeout
    <2>2. ASSUME IInv, UNCHANGED vars PROVE IInv'
      BY <2>2
      DEF vars, IInv, Structs, Threads, Covered, Live, Rollable, Staged, work_rollable
    <2> QED BY <2>1, <2>2
  <1> QED BY <1>1, <1>2, PTL DEF Spec

(* The structs, the counter and the threads keep their types; the counter  *)
(* of rollable work never goes below zero.                                 *)
THEOREM TypeCorrect == Spec => []TypeOK
  <1>1. IInv => TypeOK
    BY DEF IInv, Structs, Threads, Covered, TypeOK
  <1> QED BY <1>1, Inductive, PTL

(* hash_pop never deletes NULL from the table, whatever the order in which *)
(* work is pushed, popped, cloned, discarded and cleared.                  *)
THEOREM PopIsSafe == Spec => []PopFindsWork
  <1>1. IInv => PopFindsWork
    BY CoveredFindsWork DEF IInv
  <1> QED BY <1>1, Inductive, PTL

-----------------------------------------------------------------------------
(* Nobody is forgotten: sleeping miners mean an empty table, and a         *)
(* sleeping scheduler means that no miner sleeps.                          *)

Sleepers == NoneSleepsOverWork /\ NotAllAsleep

(* Steps that put nobody to sleep and no work in the table.                *)
LEMMA CalmStep ==
  ASSUME Sleepers, Waiters' \subseteq Waiters, Staged' \subseteq Staged,
         pc'[Main] = "wait" => pc[Main] = "wait"
  PROVE  Sleepers'
  BY DEF Sleepers, NoneSleepsOverWork, NotAllAsleep

(* Steps after which no miner sleeps.                                      *)
LEMMA AllAwake ==
  ASSUME Waiters' = {}
  PROVE  Sleepers'
  BY DEF Sleepers, NoneSleepsOverWork, NotAllAsleep

(* A broadcast leaves nobody asleep on getq->cond.                         *)
LEMMA PushWakes ==
  ASSUME Threads, NEW t \in Thread, NEW l \in Locations \ {"wait"}, Pushed(t, l)
  PROVE  Waiters' = {}
  BY DEF Pushed, BroadcastGetq, Waiters, Threads, Thread

LEMMA SleepersStep ==
  ASSUME IInv, Sleepers, Next
  PROVE  Sleepers'
  <1> USE DEF IInv
  <1>m. Main \in Thread /\ Main \notin Miner /\ Miner \subseteq Thread /\ Lp \subseteq Thread
    BY ConstantsAssumption DEF Thread
  <1>1. ASSUME NEW m \in Miner, Pop(m) \/ Finish(m) \/ PopTimeout(m) PROVE Sleepers'
    <2>1. CASE PopEmpty(m)
      <3>1. Staged' = {} /\ pc'[Main] # "wait"
        BY <2>1, <1>m DEF PopEmpty, SignalGws, Staged, Threads
      <3> QED BY <3>1 DEF Sleepers, NoneSleepsOverWork, NotAllAsleep
    <2>2. CASE PopTake(m)
      <3>1. Waiters = {}
        BY <2>2 DEF PopTake, Sleepers, NoneSleepsOverWork
      <3>2. pc' = SignalGws([pc EXCEPT ![m] = "check"])
        BY <2>2, <3>1 DEF PopTake, SignalGetq
      <3>3. Waiters' = {}
        BY <3>1, <3>2, <1>m DEF SignalGws, Waiters, Threads
      <3> QED BY <3>3, AllAwake
    <2>3. CASE PopTimeout(m) \/ CheckFresh(m)
      <3>1. Waiters' \subseteq Waiters /\ Staged' = Staged /\ pc'[Main] = pc[Main]
        BY <2>3, <1>m DEF PopTimeout, CheckFresh, Waiters, Staged, Threads
      <3> QED BY <3>1, CalmStep
    <2>4. CASE CheckStale(m) \/ Finish(m)
      <3>1. Staged' \subseteq Staged
        BY <2>4 DEF CheckStale, Finish, Free, Staged
      <3>2. Waiters' \subseteq Waiters /\ (pc'[Main] = "wait" => pc[Main] = "wait")
        BY <2>4, <1>m DEF CheckStale, Finish, SignalGws, Waiters, Threads
      <3> QED BY <3>1, <3>2, CalmStep
    <2> QED BY <1>1, <2>1, <2>2, <2>3, <2>4 DEF Pop
  <1>2. ASSUME Sched \/ SchedTimeout PROVE Sleepers'
    <2>1. CASE SchedWait
      <3>1. Staged # {}
        <4>1. max_staged \in Nat
          BY ConstantsAssumption, FS_CardinalityType DEF max_staged, Threads
        <4>2. Cardinality(Staged) # 0
          BY <2>1, <4>1, FiniteTable DEF SchedWait, Enough
        <4> QED BY <4>2, FS_EmptySet
      <3>2. Waiters = {} /\ Waiters' = {}
        BY <2>1, <3>1, <1>m DEF SchedWait, Sleepers, NoneSleepsOverWork, Waiters, Threads
      <3> QED BY <3>2, AllAwake
    <2>2. CASE SchedStage
      BY <2>2, <1>m, PushWakes, AllAwake DEF SchedStage, Locations
    <2>3. CASE SchedDrain
      <3>1. CASE Staged = {} /\ pc' = [pc EXCEPT ![Main] = "top"] /\ UNCHANGED where
        <4>1. Waiters' = Waiters /\ Staged' = Staged /\ pc'[Main] # "wait"
          BY <3>1, <1>m DEF Waiters, Staged, Threads
        <4> QED BY <4>1, CalmStep
      <3>2. CASE \E i \in Choices : pc' \in SignalGetq([pc EXCEPT ![Main] = "top"])
        <4>1. Staged # {}
          BY <3>2 DEF Choices
        <4>2. Waiters = {} /\ pc' = [pc EXCEPT ![Main] = "top"]
          BY <3>2, <4>1 DEF Sleepers, NoneSleepsOverWork, SignalGetq
        <4>3. Waiters' = {}
          BY <4>2, <1>m DEF Waiters, Threads
        <4> QED BY <4>3, AllAwake
      <3> QED BY <2>3, <3>1, <3>2 DEF SchedDrain
    <2>4. CASE SchedTop \/ SchedGo \/ SchedTimeout \/ SchedRecount
      <3>1. Waiters' = Waiters /\ Staged' = Staged /\ pc'[Main] # "wait"
        BY <2>4, <1>m
        DEF SchedTop, SchedGo, SchedTimeout, SchedRecount, Waiters, Staged, Threads
      <3> QED BY <3>1, CalmStep
    <2>5. CASE SchedMake \/ clone_available
      <3>1. PICK c \in Item : where' = [where EXCEPT ![c] = Main]
        BY <2>5 DEF SchedMake, clone_available, Make
      <3>2. Staged' \subseteq Staged
        BY <3>1, ConstantsAssumption DEF Staged, Structs
      <3>3. Waiters' = Waiters /\ pc'[Main] # "wait"
        BY <2>5, <1>m DEF SchedMake, clone_available, Waiters, Threads
      <3> QED BY <3>2, <3>3, CalmStep
    <2> QED BY <1>2, <2>1, <2>2, <2>3, <2>4, <2>5 DEF Sched
  <1>3. ASSUME NEW l \in Lp, LpStep(l) PROVE Sleepers'
    <2>m. l \in Thread /\ l \notin Miner /\ l # Main /\ l # "staged"
      BY ConstantsAssumption DEF Thread
    <2>1. CASE LpReceive(l)
      <3>1. PICK c \in Item : where' = [where EXCEPT ![c] = l]
        BY <2>1 DEF LpReceive, Make
      <3>2. Staged' \subseteq Staged
        BY <3>1, <2>m DEF Staged, Structs
      <3>3. Waiters' = Waiters /\ pc'[Main] = pc[Main]
        BY <2>1, <2>m DEF LpReceive, Waiters, Threads
      <3> QED BY <3>2, <3>3, CalmStep
    <2>2. CASE LpDrop(l)
      <3>1. Staged' \subseteq Staged
        BY <2>2 DEF LpDrop, Free, Staged
      <3>2. Waiters' = Waiters /\ pc'[Main] = pc[Main]
        BY <2>2, <2>m DEF LpDrop, Waiters, Threads
      <3> QED BY <3>1, <3>2, CalmStep
    <2>3. CASE LpCloneLoop(l) \/ LpStageMaster(l) \/ LpStageClone(l)
      BY <2>3, <2>m, PushWakes, AllAwake
      DEF LpCloneLoop, LpStageMaster, LpStageClone, Locations
    <2> QED BY <1>3, <2>1, <2>2, <2>3 DEF LpStep
  <1>4. ASSUME Others PROVE Sleepers'
    <2>1. CASE NewBlock \/ Expire
      <3>1. Waiters' = Waiters /\ Staged' = Staged /\ pc'[Main] = pc[Main]
        BY <2>1 DEF NewBlock, Expire, Waiters, Staged
      <3> QED BY <3>1, CalmStep
    <2>2. CASE discard_stale \/ \E p \in Pool : clear_pool_work(p)
      <3>1. Staged' \subseteq Staged
        BY <2>2 DEF discard_stale, clear_pool_work, Free, Staged
      <3>2. Waiters' \subseteq Waiters /\ (pc'[Main] = "wait" => pc[Main] = "wait")
        BY <2>2, <1>m DEF discard_stale, clear_pool_work, SignalGws, Waiters, Threads
      <3> QED BY <3>1, <3>2, CalmStep
    <2> QED BY <1>4, <2>1, <2>2 DEF Others
  <1> QED BY <1>1, <1>2, <1>3, <1>4 DEF Next, Timeout

LEMMA SleepersInductive == Spec => []Sleepers
  <1>1. Init => Sleepers
    BY ConstantsAssumption
    DEF Init, Sleepers, NoneSleepsOverWork, NotAllAsleep, Waiters, Thread
  <1>2. IInv /\ Sleepers /\ [Next]_vars => Sleepers'
    <2>1. ASSUME Sleepers, UNCHANGED vars PROVE Sleepers'
      BY <2>1 DEF vars, Sleepers, NoneSleepsOverWork, NotAllAsleep, Waiters, Staged
    <2> QED BY <2>1, SleepersStep
  <1> QED BY <1>1, <1>2, Inductive, PTL DEF Spec

(* A miner sleeps in hash_pop only while the table is empty.               *)
THEOREM NoLostPush == Spec => []NoneSleepsOverWork
  <1>1. Sleepers => NoneSleepsOverWork
    BY DEF Sleepers
  <1> QED BY <1>1, SleepersInductive, PTL

(* The scheduler and a miner never sleep at the same time.                 *)
THEOREM NoDeadlock == Spec => []NotAllAsleep
  <1>1. Sleepers => NotAllAsleep
    BY DEF Sleepers
  <1> QED BY <1>1, SleepersInductive, PTL

-----------------------------------------------------------------------------
(* The flag no_work is raised by a miner that looks for work, and whoever  *)
(* leaves the search with a work lowers it.                                *)
THEOREM FlagHasWaiter == Spec => []NoWorkHasWaiter
  <1>1. Init => NoWorkHasWaiter
    BY DEF Init, NoWorkHasWaiter
  <1>2. ASSUME IInv, NoWorkHasWaiter, Next PROVE NoWorkHasWaiter'
    <2> SUFFICES ASSUME NEW m \in Miner, pc[m] \in {"pop", "wait"}, no_work'
                 PROVE  NoWorkHasWaiter'
      <3>1. no_work' => no_work \/ \E m \in Miner : PopTimeout(m)
        BY <1>2 DEF Next, Pop, PopEmpty, PopTake, CheckStale, CheckFresh, Finish, Sched, SchedTop,
             SchedWait, SchedGo, SchedRecount, SchedDrain, SchedMake, clone_available,
             SchedStage, LpStep, LpReceive, LpDrop, LpCloneLoop, LpStageMaster, LpStageClone,
             Timeout, SchedTimeout, Others, NewBlock, Expire, discard_stale, clear_pool_work
      <3>2. ASSUME NEW m \in Miner, PopTimeout(m) PROVE pc[m] \in {"pop", "wait"}
        BY <3>2 DEF PopTimeout
      <3> QED BY <1>2, <3>1, <3>2 DEF NoWorkHasWaiter
    <2>1. m \in Thread /\ m # Main /\ m \notin Lp /\ pc[m] \in Locations
      BY <1>2, ConstantsAssumption DEF Thread, IInv, Threads
    <2>2. pc'[m] \in {"pop", "wait"} \/ \E n \in Miner : PopTake(n)
      <3>1. ASSUME NEW n \in Miner, Pop(n) \/ Finish(n) \/ PopTimeout(n), ~PopTake(n)
            PROVE  pc'[m] \in {"pop", "wait"}
        BY <1>2, <2>1, <3>1 DEF Pop, PopEmpty, CheckStale, CheckFresh, Finish, PopTimeout,
                                SignalGws, IInv, Threads, Thread
      <3>2. ASSUME Sched \/ SchedTimeout PROVE pc'[m] \in {"pop", "wait"}
        BY <1>2, <2>1, <3>2 DEF Sched, SchedTop, SchedWait, SchedGo, SchedRecount, SchedDrain,
             SchedMake, clone_available, SchedStage, SchedTimeout, Pushed, BroadcastGetq,
             SignalGetq, Waiters, IInv, Threads
      <3>3. ASSUME NEW l \in Lp, LpStep(l) PROVE pc'[m] \in {"pop", "wait"}
        BY <1>2, <2>1, <3>3 DEF LpStep, LpReceive, LpDrop, LpCloneLoop, LpStageMaster,
             LpStageClone, Pushed, BroadcastGetq, Waiters, IInv, Threads
      <3>4. ASSUME Others PROVE pc'[m] \in {"pop", "wait"}
        BY <1>2, <2>1, <3>4 DEF Others, NewBlock, Expire, discard_stale, clear_pool_work,
             SignalGws, IInv, Threads
      <3> QED BY <1>2, <3>1, <3>2, <3>3, <3>4 DEF Next, Timeout
    <2>3. ASSUME NEW n \in Miner, PopTake(n) PROVE FALSE
      BY <2>3 DEF PopTake
    <2> QED BY <2>2, <2>3 DEF NoWorkHasWaiter
  <1>3. ASSUME NoWorkHasWaiter, UNCHANGED vars PROVE NoWorkHasWaiter'
    BY <1>3 DEF vars, NoWorkHasWaiter
  <1> QED BY <1>1, <1>2, <1>3, Inductive, PTL DEF Spec

-----------------------------------------------------------------------------
(* No two works look alike.  A master is always ahead of all that was      *)
(* rolled from its source, so what it is rolled to next is new.            *)

Src(i)   == w[i].data[1]
Ntime(i) == w[i].data[2]
Mining(i) == where[i] \in Miner /\ pc[where[i]] = "mine"

Apart == \A i, j \in Live : i # j /\ Src(i) = Src(j) => Ntime(i) # Ntime(j)
MasterAhead ==
  \A i, j \in Live : i # j /\ Src(i) = Src(j) /\ ~w[i].clone => Ntime(j) < Ntime(i)
GivenLive   == \A d \in given : \E j \in Live : Src(j) = d[1]
GivenBehind ==
  \A d \in given, i \in Live : Src(i) = d[1] /\ ~w[i].clone => d[2] <= Ntime(i)
GivenMined  == \A i \in Live : w[i].data \in given => Mining(i)

Unlike == Apart /\ MasterAhead /\ GivenLive /\ GivenBehind /\ GivenMined

(* The parts of a live work's content.                                     *)
LEMMA Contents ==
  ASSUME Structs, NEW i \in Live
  PROVE  /\ i \in Item /\ w[i] \in Work
         /\ Src(i) \in Source /\ Ntime(i) \in Nat /\ w[i].data = <<Src(i), Ntime(i)>>
  <1>1. i \in Item /\ w[i] \in Work
    BY DEF Live, Structs
  <1>2. PICK s \in Source, n \in 0 .. RollLimit + 2 : w[i].data = <<s, n>>
    BY <1>1 DEF Work, Data
  <1> QED BY <1>1, <1>2, ConstantsAssumption DEF Src, Ntime

(* Works change owners, but none that is mined.                            *)
LEMMA MoveUnlike ==
  ASSUME Unlike, Live' = Live, UNCHANGED <<w, given>>,
         \A i \in Live : Mining(i) => Mining(i)'
  PROVE  Unlike'
  BY DEF Unlike, Apart, MasterAhead, GivenLive, GivenBehind, GivenMined, Src, Ntime

(* Works are freed, and the ghost of a source goes with its last.          *)
LEMMA FreeUnlike ==
  ASSUME Structs, Unlike, NEW S \in SUBSET Item, Free(S),
         \A i \in Live \ S : Mining(i) => Mining(i)'
  PROVE  Unlike'
  <1>1. Live' = Live \ S /\ \A i \in Live \ S : w'[i] = w[i]
    BY DEF Structs, Live, Free
  <1>2. given' \subseteq given /\ \A d \in given' : \E j \in Live \ S : Src(j) = d[1]
    BY DEF Free, Live, Src
  <1> QED
    BY <1>1, <1>2
    DEF Unlike, Apart, MasterAhead, GivenLive, GivenBehind, GivenMined, Src, Ntime

(* A new source is not that of any work, nor of any given away.            *)
LEMMA MakeUnlike ==
  ASSUME Structs, Unlike, NEW t \in Thread, NEW i \in Item, NEW p \in Pool,
         NEW rolltime \in BOOLEAN, Make(t, i, p, rolltime), UNCHANGED given,
         \A j \in Live : Mining(j) => Mining(j)'
  PROVE  Unlike'
  <1>1. PICK s \in FreshSources :
          w' = [w EXCEPT ![i] = [pool |-> p, data |-> <<s, 0>>,
                                 clone |-> FALSE, rolltime |-> rolltime]]
    BY DEF Make
  <1>2. Live' = Live \union {i} /\ i \notin Live /\ \A j \in Live : w'[j] = w[j] /\ Src(j) # s
    BY <1>1, ConstantsAssumption DEF Make, Live, Structs, FreshSources, Src, Thread
  <1>3. w'[i].data = <<s, 0>> /\ Src(i)' = s /\ Ntime(i)' = 0
    BY <1>1 DEF Structs, Src, Ntime
  <1>4. \A d \in given : d[1] # s
    BY <1>2 DEF Unlike, GivenLive
  <1>5. Apart' /\ MasterAhead'
    BY <1>2, <1>3 DEF Unlike, Apart, MasterAhead, Src, Ntime
  <1>6. GivenLive' /\ GivenBehind'
    BY <1>2, <1>3, <1>4 DEF Unlike, GivenLive, GivenBehind, Src, Ntime
  <1>7. w'[i].data \notin given
    BY <1>3, <1>4
  <1>8. GivenMined'
    BY <1>2, <1>7 DEF Unlike, GivenMined
  <1> QED BY <1>5, <1>6, <1>8 DEF Unlike

(* What rolling does to the data.                                          *)
LEMMA RollData ==
  ASSUME NEW x \in Work, x.data[2] < RollLimit
  PROVE  /\ roll_work(x).data = <<x.data[1], x.data[2] + 1>>
         /\ roll_work(roll_work(x)).data = <<x.data[1], x.data[2] + 2>>
         /\ make_clone(roll_work(x)).data = <<x.data[1], x.data[2] + 1>>
         /\ make_clone(x).data = x.data
  <1>1. PICK s \in Source, n \in 0 .. RollLimit + 2 : x.data = <<s, n>>
    BY DEF Work, Data
  <1> DEFINE y == [x EXCEPT !.data = <<s, n + 1>>]
  <1>2. roll_work(x) = y
    BY <1>1 DEF roll_work, Work
  <1>3. y.data = <<s, n + 1>>
    BY DEF Work
  <1>4. [<<s, n + 1>> EXCEPT ![2] = n + 1 + 1] = <<s, n + 2>>
    OBVIOUS
  <1>5. roll_work(y).data = <<s, n + 2>>
    <2>1. roll_work(y) = [y EXCEPT !.data = [y.data EXCEPT ![2] = y.data[2] + 1]]
      BY DEF roll_work
    <2>2. roll_work(y) = [y EXCEPT !.data = <<s, n + 2>>]
      BY <1>3, <1>4, <2>1
    <2> QED BY <2>2 DEF Work
  <1>6. make_clone(y).data = y.data /\ make_clone(x).data = x.data
    BY DEF make_clone, Work
  <1> HIDE DEF y
  <1> QED BY <1>1, <1>2, <1>3, <1>5, <1>6

(* A master i that no miner has is rolled twice, the work between goes to  *)
(* a clone c.                                                              *)
LEMMA RollUnlike ==
  ASSUME Structs, Unlike, NEW i \in Live, NEW c \in Item \ Live, ~Mining(i), ~w[i].clone,
         Live' = Live \union {c}, UNCHANGED given,
         w'[c].data = <<Src(i), Ntime(i) + 1>>, w'[c].clone,
         w'[i].data = <<Src(i), Ntime(i) + 2>>,
         \A j \in Live \ {i} : w'[j] = w[j],
         \A j \in Live : Mining(j) => Mining(j)'
  PROVE  Unlike'
  <1>1. \A j \in Live : Ntime(j) \in Nat /\ (j # i /\ Src(j) = Src(i) => Ntime(j) < Ntime(i))
    BY Contents DEF Unlike, MasterAhead
  <1>2. /\ Src(i)' = Src(i) /\ Ntime(i)' = Ntime(i) + 2
        /\ Src(c)' = Src(i) /\ Ntime(c)' = Ntime(i) + 1
        /\ \A j \in Live \ {i} : Src(j)' = Src(j) /\ Ntime(j)' = Ntime(j) /\ w'[j].clone = w[j].clone
    BY DEF Src, Ntime
  <1>3. Apart' /\ MasterAhead'
    BY <1>1, <1>2 DEF Unlike, Apart, MasterAhead
  <1>4. \A d \in given : d[1] = Src(i) => d[2] <= Ntime(i)
    BY DEF Unlike, GivenBehind
  <1>5. \A d \in given : d \in Source \X Nat
    BY ConstantsAssumption DEF Structs, Data
  <1>6. GivenLive'
    BY <1>2 DEF Unlike, GivenLive
  <1>7. GivenBehind'
    BY <1>1, <1>2, <1>4, <1>5 DEF Unlike, GivenBehind
  <1>8. w'[c].data \notin given /\ w'[i].data \notin given
    BY <1>1, <1>4, <1>5
  <1>9. GivenMined'
    BY <1>8 DEF Unlike, GivenMined
  <1> QED BY <1>3, <1>6, <1>7, <1>9 DEF Unlike

(* In the first turn of clone_work a further clone f keeps what the master *)
(* had.                                                                    *)
LEMMA FirstTurnUnlike ==
  ASSUME Structs, Unlike, NEW i \in Live, NEW f \in Item \ Live, NEW c \in Item \ Live, f # c,
         ~Mining(i), ~w[i].clone,
         Live' = Live \union {f, c}, UNCHANGED given,
         w'[f].data = <<Src(i), Ntime(i)>>, w'[f].clone,
         w'[c].data = <<Src(i), Ntime(i) + 1>>, w'[c].clone,
         w'[i].data = <<Src(i), Ntime(i) + 2>>,
         \A j \in Live \ {i} : w'[j] = w[j],
         \A j \in Live : Mining(j) => Mining(j)'
  PROVE  Unlike'
  <1>1. \A j \in Live : Ntime(j) \in Nat /\ (j # i /\ Src(j) = Src(i) => Ntime(j) < Ntime(i))
    BY Contents DEF Unlike, MasterAhead
  <1>2. /\ Src(i)' = Src(i) /\ Ntime(i)' = Ntime(i) + 2
        /\ Src(f)' = Src(i) /\ Ntime(f)' = Ntime(i)
        /\ Src(c)' = Src(i) /\ Ntime(c)' = Ntime(i) + 1
        /\ \A j \in Live \ {i} : Src(j)' = Src(j) /\ Ntime(j)' = Ntime(j) /\ w'[j].clone = w[j].clone
    BY DEF Src, Ntime
  <1>3. Apart' /\ MasterAhead'
    BY <1>1, <1>2 DEF Unlike, Apart, MasterAhead
  <1>4. \A d \in given : d[1] = Src(i) => d[2] <= Ntime(i)
    BY DEF Unlike, GivenBehind
  <1>5. \A d \in given : d \in Source \X Nat
    BY ConstantsAssumption DEF Structs, Data
  <1>6. GivenLive'
    BY <1>2 DEF Unlike, GivenLive
  <1>7. GivenBehind'
    BY <1>1, <1>2, <1>4, <1>5 DEF Unlike, GivenBehind
  <1>8. w'[c].data \notin given /\ w'[i].data \notin given
    BY <1>1, <1>4, <1>5
  <1>9. w'[f].data \notin given
    BY Contents DEF Unlike, GivenMined
  <1>10. GivenMined'
    BY <1>8, <1>9 DEF Unlike, GivenMined
  <1> QED BY <1>3, <1>6, <1>7, <1>10 DEF Unlike

(* The miners: what is given away is from then on mined.                   *)
LEMMA MinerUnlike ==
  ASSUME IInv, Unlike, NEW m \in Miner, Pop(m) \/ Finish(m) \/ PopTimeout(m)
  PROVE  Unlike'
  <1> USE DEF IInv
  <1>m. m \in Thread /\ m # Main /\ m # "free" /\ m # "staged" /\ Miner \subseteq Thread
    BY ConstantsAssumption DEF Thread
  <1>1. CASE PopEmpty(m) \/ PopTimeout(m)
    <2>1. UNCHANGED <<where, w, given>>
      BY <1>1 DEF PopEmpty, PopTimeout
    <2>2. \A n \in Miner : pc[n] = "mine" => pc'[n] = "mine"
      BY <1>1, <1>m DEF PopEmpty, PopTimeout, SignalGws, Threads
    <2> QED BY <2>1, <2>2, MoveUnlike DEF Live, Mining
  <1>2. CASE PopTake(m)
    <2>1. PICK i \in Staged : where' = [where EXCEPT ![i] = m]
      BY <1>2 DEF PopTake, Choices
    <2>2. \A n \in Miner : pc[n] = "mine" => pc'[n] = "mine"
      BY <1>2, <1>m DEF PopTake, SignalGws, SignalGetq, Waiters, Threads
    <2>3. "staged" \notin Miner
      BY ConstantsAssumption
    <2>4. Live' = Live /\ \A j \in Live : Mining(j) => Mining(j)'
      BY <1>m, <2>1, <2>2, <2>3 DEF Staged, Live, Mining, Structs
    <2> QED BY <1>2, <2>4, MoveUnlike DEF PopTake
  <1>3. CASE CheckStale(m) \/ Finish(m)
    <2>1. \A n \in Miner \ {m} : pc[n] = "mine" => pc'[n] = "mine"
      BY <1>3, <1>m DEF CheckStale, Finish, SignalGws, Threads
    <2>2. HeldBy(m) \in SUBSET Item /\ Free(HeldBy(m))
      BY <1>3 DEF CheckStale, Finish, HeldBy
    <2>3. \A j \in Live \ HeldBy(m) : Mining(j) => Mining(j)'
      BY <2>1, <2>2 DEF Live, HeldBy, Mining, Free, Structs
    <2> QED BY <2>2, <2>3, FreeUnlike
  <1>4. CASE CheckFresh(m)
    <2>1. /\ UNCHANGED <<where, w>> /\ given' = given \union {w[i].data : i \in HeldBy(m)}
          /\ pc' = [pc EXCEPT ![m] = "mine"]
      BY <1>4 DEF CheckFresh
    <2>2. HeldBy(m) \subseteq Live /\ Live' = Live
      BY <1>m, <2>1 DEF HeldBy, Live
    <2>3. \A j \in Live : (Mining(j) => Mining(j)') /\ (j \in HeldBy(m) => Mining(j)')
      BY <1>m, <2>1 DEF HeldBy, Live, Mining, Threads
    <2>4. Apart' /\ MasterAhead'
      BY <2>1, <2>2 DEF Unlike, Apart, MasterAhead, Src, Ntime
    <2>5. GivenLive'
      BY <2>1, <2>2 DEF Unlike, GivenLive, Src
    <2>6. \A j \in Live : Ntime(j) \in Nat
      BY Contents
    <2>7. GivenBehind'
      <3>1. ASSUME NEW j \in HeldBy(m), NEW i \in Live, Src(i) = Src(j), ~w[i].clone
            PROVE  Ntime(j) <= Ntime(i)
        BY <2>2, <2>6, <3>1 DEF Unlike, MasterAhead
      <3> QED BY <2>1, <2>2, <3>1 DEF Unlike, GivenBehind, Src, Ntime
    <2>8. GivenMined'
      <3>1. ASSUME NEW i \in Live, NEW j \in HeldBy(m), w[i].data = w[j].data PROVE i = j
        BY <2>2, <3>1 DEF Unlike, Apart, Src, Ntime
      <3> QED BY <2>1, <2>2, <2>3, <3>1 DEF Unlike, GivenMined
    <2> QED BY <2>4, <2>5, <2>7, <2>8 DEF Unlike
  <1> QED BY <1>1, <1>2, <1>3, <1>4 DEF Pop

LEMMA SchedUnlike ==
  ASSUME IInv, Unlike, Sched \/ SchedTimeout
  PROVE  Unlike'
  <1> USE DEF IInv
  <1>m. /\ Main \in Thread /\ Main \notin Miner /\ Main # "free" /\ Main # "staged"
        /\ "staged" \notin Miner /\ Miner \subseteq Thread
    BY ConstantsAssumption DEF Thread
  <1>n. \A m \in Miner : pc[m] = "mine" => pc'[m] = "mine"
    BY <1>m DEF Sched, SchedTop, SchedWait, SchedGo, SchedTimeout, SchedRecount, SchedDrain,
                SchedMake, clone_available, SchedStage, Pushed, BroadcastGetq, SignalGetq,
                Waiters, Threads
  <1>1. CASE SchedTop \/ SchedWait \/ SchedGo \/ SchedTimeout \/ SchedRecount
    <2>1. UNCHANGED <<where, w, given>>
      BY <1>1 DEF SchedTop, SchedWait, SchedGo, SchedTimeout, SchedRecount
    <2> QED BY <1>n, <2>1, MoveUnlike DEF Live, Mining
  <1>2. CASE SchedDrain
    <2>1. CASE UNCHANGED <<where, w, given>>
      BY <1>n, <2>1, MoveUnlike DEF Live, Mining
    <2>2. CASE \E i \in Choices : Free({i})
      <3>1. PICK i \in Staged : Free({i})
        BY <2>2 DEF Choices
      <3>2. {i} \in SUBSET Item
        BY DEF Staged
      <3>3. \A j \in Live \ {i} : Mining(j) => Mining(j)'
        BY <1>n, <3>1 DEF Live, Mining, Free, Structs
      <3> QED BY <3>1, <3>2, <3>3, FreeUnlike
    <2> QED BY <1>2, <2>1, <2>2 DEF SchedDrain
  <1>3. CASE SchedMake
    <2>1. PICK i \in Item, p \in Pool, rolltime \in BOOLEAN : Make(Main, i, p, rolltime)
      BY <1>3 DEF SchedMake
    <2>2. \A j \in Live : Mining(j) => Mining(j)'
      BY <1>m, <1>n, <2>1 DEF Make, Live, Mining, Structs
    <2> QED BY <1>3, <1>m, <2>1, <2>2, MakeUnlike DEF SchedMake
  <1>4. CASE clone_available
    <2>1. PICK i \in Staged, c \in Item :
            /\ can_roll(i)
            /\ where[c] = "free"
            /\ where' = [where EXCEPT ![c] = Main]
            /\ w' = [w EXCEPT ![i] = roll_work(roll_work(w[i])),
                             ![c] = make_clone(roll_work(w[i]))]
      BY <1>4 DEF clone_available
    <2>2. /\ i \in Live /\ c \in Item \ Live /\ i # c /\ w[i] \in Work /\ w[i].data[2] < RollLimit
          /\ ~w[i].clone /\ ~Mining(i) /\ Live' = Live \union {c}
      BY <1>m, <2>1 DEF Staged, Live, Structs, can_roll, work_rollable, Mining
    <2>3. /\ w'[i] = roll_work(roll_work(w[i])) /\ w'[c] = make_clone(roll_work(w[i]))
          /\ \A j \in Live \ {i} : w'[j] = w[j]
      BY <2>1, <2>2 DEF Structs, Live
    <2>4. /\ w'[c].data = <<Src(i), Ntime(i) + 1>> /\ w'[c].clone
          /\ w'[i].data = <<Src(i), Ntime(i) + 2>>
      BY <2>2, <2>3, RollTwice, RollData DEF Src, Ntime
    <2>5. \A j \in Live : Mining(j) => Mining(j)'
      BY <1>n, <2>1, <2>2 DEF Live, Mining, Structs
    <2>6. UNCHANGED given
      BY <1>4 DEF clone_available
    <2> QED BY <2>2, <2>3, <2>4, <2>5, <2>6, RollUnlike
  <1>5. CASE SchedStage
    <2>1. PICK i \in HeldBy(Main) : where' = [where EXCEPT ![i] = "staged"]
      BY <1>5 DEF SchedStage, hash_push
    <2>2. Live' = Live /\ \A j \in Live : Mining(j) => Mining(j)'
      BY <1>m, <1>n, <2>1 DEF HeldBy, Live, Mining, Structs
    <2> QED BY <1>5, <2>2, MoveUnlike DEF SchedStage
  <1> QED BY <1>1, <1>2, <1>3, <1>4, <1>5 DEF Sched

LEMMA LpUnlike ==
  ASSUME IInv, Unlike, NEW l \in Lp, LpStep(l)
  PROVE  Unlike'
  <1> USE DEF IInv
  <1>m. /\ l \in Thread /\ l \notin Miner /\ l # "free" /\ l # "staged"
        /\ "staged" \notin Miner /\ Miner \subseteq Thread
    BY ConstantsAssumption DEF Thread
  <1>n. \A m \in Miner : pc[m] = "mine" => pc'[m] = "mine"
    BY <1>m DEF LpStep, LpReceive, LpDrop, LpCloneLoop, LpStageMaster, LpStageClone,
                Pushed, BroadcastGetq, Waiters, Threads
  <1>1. CASE LpReceive(l)
    <2>1. PICK i \in Item, p \in Pool, rolltime \in BOOLEAN : Make(l, i, p, rolltime)
      BY <1>1 DEF LpReceive
    <2>2. \A j \in Live : Mining(j) => Mining(j)'
      BY <1>m, <1>n, <2>1 DEF Make, Live, Mining, Structs
    <2> QED BY <1>1, <1>m, <2>1, <2>2, MakeUnlike DEF LpReceive
  <1>2. CASE LpDrop(l)
    <2>1. HeldBy(l) \in SUBSET Item /\ Free(HeldBy(l))
      BY <1>2 DEF HeldBy, LpDrop
    <2>2. \A j \in Live \ HeldBy(l) : Mining(j) => Mining(j)'
      BY <1>n, <2>1 DEF Live, Mining, Free, Structs
    <2> QED BY <2>1, <2>2, FreeUnlike
  <1>3. CASE LpCloneLoop(l)
    <2>0. PICK i \in Masters(l), c, d \in Item :
            /\ can_roll(i)
            /\ c # d /\ where[d] = "free"
            /\ IF Clones(l) = {} THEN where[c] = "free" ELSE c \in Clones(l)
            /\ where' = [where EXCEPT ![c] = "staged", ![d] = l]
            /\ w' = [w EXCEPT ![c] = IF Clones(l) = {} THEN make_clone(w[i]) ELSE w[c],
                             ![i] = roll_work(roll_work(w[i])),
                             ![d] = make_clone(roll_work(w[i]))]
      BY <1>3 DEF LpCloneLoop
    <2>1. /\ i \in Live /\ where[i] = l /\ ~w[i].clone /\ i # d /\ ~Mining(i)
          /\ w[i] \in Work /\ w[i].data[2] < RollLimit
      BY <1>m, <2>0 DEF Masters, HeldBy, Structs, can_roll, Live, Mining
    <2>2. c # i /\ i \in Item /\ d \in Item \ Live
      BY <1>m, <2>0, <2>1 DEF Clones, Live
    <2>3. /\ w'[i] = roll_work(roll_work(w[i])) /\ w'[d] = make_clone(roll_work(w[i]))
          /\ \A j \in Item \ {c, d, i} : w'[j] = w[j] /\ where'[j] = where[j]
          /\ where'[c] = "staged" /\ where'[d] = l /\ where'[i] = l
          /\ w'[c] = IF Clones(l) = {} THEN make_clone(w[i]) ELSE w[c]
      BY <2>0, <2>1, <2>2 DEF Structs
    <2>4. /\ w'[d].data = <<Src(i), Ntime(i) + 1>> /\ w'[d].clone
          /\ w'[i].data = <<Src(i), Ntime(i) + 2>>
      BY <2>1, <2>3, RollTwice, RollData DEF Src, Ntime
    <2>5. UNCHANGED given
      BY <1>3 DEF LpCloneLoop
    <2>6. CASE Clones(l) = {}
      <3>1. c \in Item \ Live /\ Live' = Live \union {c, d}
        BY <1>m, <2>0, <2>1, <2>2, <2>3, <2>6 DEF Live
      <3>2. w'[c].data = <<Src(i), Ntime(i)>> /\ w'[c].clone
        <4>1. w'[c] = make_clone(w[i])
          BY <2>3, <2>6
        <4>2. make_clone(w[i]).clone /\ make_clone(w[i]).data = w[i].data
          BY <2>1, RollTwice, RollData
        <4>3. w[i].data = <<Src(i), Ntime(i)>>
          BY <2>1, Contents
        <4> QED BY <4>1, <4>2, <4>3
      <3>3. \A j \in Live \ {i} : w'[j] = w[j]
        BY <2>2, <2>3, <3>1 DEF Live
      <3>4. \A j \in Live : Mining(j) => Mining(j)'
        BY <1>n, <2>1, <2>2, <2>3, <3>1 DEF Live, Mining
      <3> QED BY <2>0, <2>1, <2>2, <2>4, <2>5, <3>1, <3>2, <3>3, <3>4, FirstTurnUnlike
    <2>7. CASE Clones(l) # {}
      <3>1. c \in Live /\ ~Mining(c) /\ w'[c] = w[c] /\ Live' = Live \union {d}
        <4>1. c \in Item /\ where[c] = l /\ w'[c] = w[c]
          BY <2>0, <2>3, <2>7 DEF Clones, HeldBy
        <4>2. c \in Live /\ ~Mining(c)
          BY <1>m, <4>1 DEF Live, Mining
        <4>3. \A j \in Item : where'[j] # "free" <=> where[j] # "free" \/ j = d
          BY <1>m, <2>1, <2>2, <2>3, <4>1
        <4> QED BY <2>2, <4>1, <4>2, <4>3 DEF Live
      <3>2. \A j \in Live \ {i} : w'[j] = w[j]
        BY <2>2, <2>3, <3>1 DEF Live
      <3>3. \A j \in Live : Mining(j) => Mining(j)'
        BY <1>n, <2>1, <2>2, <2>3, <3>1 DEF Live, Mining
      <3> QED BY <2>1, <2>2, <2>4, <2>5, <3>1, <3>2, <3>3, RollUnlike
    <2> QED BY <2>6, <2>7
  <1>4. CASE LpStageMaster(l) \/ LpStageClone(l)
    <2>1. PICK i \in HeldBy(l) : where' = [where EXCEPT ![i] = "staged"]
      BY <1>4 DEF LpStageMaster, LpStageClone, hash_push, Masters, Clones
    <2>2. Live' = Live /\ \A j \in Live : Mining(j) => Mining(j)'
      BY <1>m, <1>n, <2>1 DEF HeldBy, Live, Mining, Structs
    <2> QED BY <1>4, <2>2, MoveUnlike DEF LpStageMaster, LpStageClone
  <1> QED BY <1>1, <1>2, <1>3, <1>4 DEF LpStep

LEMMA OthersUnlike ==
  ASSUME IInv, Unlike, Others
  PROVE  Unlike'
  <1> USE DEF IInv
  <1>n. \A m \in Miner : pc[m] = "mine" => pc'[m] = "mine"
    BY ConstantsAssumption
    DEF Others, NewBlock, Expire, discard_stale, clear_pool_work, SignalGws, Threads, Thread
  <1>1. CASE NewBlock \/ Expire
    BY <1>1, <1>n, MoveUnlike DEF NewBlock, Expire, Live, Mining
  <1>2. CASE discard_stale \/ \E p \in Pool : clear_pool_work(p)
    <2>1. PICK S \in SUBSET Item : Free(S)
      BY <1>2 DEF discard_stale, clear_pool_work, Staged
    <2>2. \A j \in Live \ S : Mining(j) => Mining(j)'
      BY <1>n, <2>1 DEF Live, Mining, Free, Structs
    <2> QED BY <2>1, <2>2, FreeUnlike
  <1> QED BY <1>1, <1>2 DEF Others

(* What reaches the miners is never hashed twice: among what is staged and *)
(* mined no two works look alike, nor does what is staged look like a work *)
(* given away before, however masters and clones are rolled, staged,       *)
(* discarded and cleared by however many threads.                          *)
THEOREM NoWorkTwice == Spec => []DistinctWork
  <1>1. Init => Unlike
    <2>1. Init => Live = {} /\ given = {}
      BY DEF Init, Live
    <2> QED BY <2>1 DEF Unlike, Apart, MasterAhead, GivenLive, GivenBehind, GivenMined
  <1>2. IInv /\ Unlike /\ [Next]_vars => Unlike'
    <2>1. ASSUME IInv, Unlike, Next PROVE Unlike'
      BY <2>1, MinerUnlike, SchedUnlike, LpUnlike, OthersUnlike DEF Next, Timeout
    <2>2. ASSUME Unlike, UNCHANGED vars PROVE Unlike'
      BY <2>2 DEF vars, Unlike, Apart, MasterAhead, GivenLive, GivenBehind, GivenMined,
                  Src, Ntime, Mining, Live
    <2> QED BY <2>1, <2>2
  <1>3. IInv /\ Unlike => DistinctWork
    <2> SUFFICES ASSUME Unlike PROVE DistinctWork
      OBVIOUS
    <2>1. {i \in Item : where[i] = "staged" \/ where[i] \in Miner} \subseteq Live
      BY ConstantsAssumption DEF Live
    <2>2. \A i \in Staged : i \in Live /\ ~Mining(i)
      BY ConstantsAssumption DEF Staged, Live, Mining
    <2> QED BY <2>1, <2>2 DEF DistinctWork, Unlike, Apart, GivenMined, Src, Ntime
  <1> QED BY <1>1, <1>2, <1>3, Inductive, PTL DEF Spec

=============================================================================
