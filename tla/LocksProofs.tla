----------------------------- MODULE LocksProofs ----------------------------
(***************************************************************************)
(* What the threads of the program are built on, for any number of them.   *)
(*                                                                         *)
(* The cglock: its modes are compatible, a downgrade lets no writer in,    *)
(* readers only drain in front of a waiting writer, and the lock           *)
(* implements the atomic one.  Everything follows from one inductive       *)
(* invariant, which ties the three pthread objects to the program counters.*)
(*                                                                         *)
(* The thread queue: no pop comes back with nothing, no item is passed by, *)
(* and the list under its mutex is the atomic queue.                       *)
(*                                                                         *)
(* The threads of the pools, which sleep until theirs is needed: none of a *)
(* pool the program turns to is left asleep.                               *)
(*                                                                         *)
(* The way out: a completion's record outlives its helper, and nothing on  *)
(* it waits for a thread that may hang or is dead.                         *)
(***************************************************************************)
EXTENDS CgLock, ThreadQueue, Shutdown, Connections, WellFoundedInduction, TLAPS

-----------------------------------------------------------------------------
(* The cglock.                                                             *)


(* The locations at which a thread owns the mutex, and the read lock.      *)
AtMutex == {"r1", "r2", "I", "u1", "w1", "W", "d1", "x1"}
AtRead  == {"r2", "R"}

(* The mutex, the readers and the writer are those the locations say.      *)
Ownership ==
  /\ \A t \in Thread : mutex = t <=> pc[t] \in AtMutex
  /\ \A t \in Thread : t \in readers <=> pc[t] \in AtRead
  /\ \A t \in Thread : writer = t <=> pc[t] = "W"
  /\ writer # NoThread => readers = {}

IInv == TypeOK /\ Ownership

-----------------------------------------------------------------------------

(* A call or a step of a thread keeps the pthread objects and the program  *)
(* counters in agreement.                                                  *)
LEMMA StepKeepsIInv ==
  ASSUME IInv, NEW t \in Thread, Call(t) \/ Progress(t)
  PROVE  IInv'
  <1> USE NoThreadAssumption DEF IInv, TypeOK, Ownership, AtMutex, AtRead, Location, Goto
  <1>1. CASE RlockMutex(t)
    BY <1>1 DEF RlockMutex, MutexLock
  <1>2. CASE Ilock(t)
    BY <1>2 DEF Ilock, MutexLock
  <1>3. CASE WlockCall(t)
    BY <1>3 DEF WlockCall
  <1>4. CASE RlockRead(t)
    BY <1>4 DEF RlockRead, RdLock
  <1>5. CASE ReadGateOpen(t)
    BY <1>5 DEF ReadGateOpen, MutexUnlock
  <1>6. CASE UlockCall(t)
    BY <1>6 DEF UlockCall
  <1>7. CASE UlockWrite(t)
    BY <1>7 DEF UlockWrite, WrLock
  <1>8. CASE Dlock(t)
    BY <1>8 DEF Dlock, RdLock
  <1>9. CASE WlockMutex(t)
    BY <1>9 DEF WlockMutex, MutexLock
  <1>10. CASE WlockWrite(t)
    BY <1>10 DEF WlockWrite, WrLock
  <1>11. CASE DwlockRelease(t)
    BY <1>11 DEF DwlockRelease, WrUnlock
  <1>12. CASE DwlockRead(t)
    BY <1>12 DEF DwlockRead, RdLock
  <1>13. CASE Dwilock(t)
    BY <1>13 DEF Dwilock, WrUnlock
  <1>14. CASE Runlock(t)
    BY <1>14 DEF Runlock, RdUnlock
  <1>15. CASE RuwlockDrop(t)
    BY <1>15 DEF RuwlockDrop, RdUnlock
  <1>16. CASE WunlockWrite(t)
    BY <1>16 DEF WunlockWrite, WrUnlock
  <1>17. CASE WunlockMutex(t)
    BY <1>17 DEF WunlockMutex, MutexUnlock
  <1> QED
    BY <1>1, <1>2, <1>3, <1>4, <1>5, <1>6, <1>7, <1>8, <1>9, <1>10, <1>11,
       <1>12, <1>13, <1>14, <1>15, <1>16, <1>17 DEF Call, Progress

(* The invariant holds in every reachable state.                           *)
LEMMA Inductive == Spec => []IInv
  <1>1. Init => IInv
    BY NoThreadAssumption
    DEF Init, IInv, TypeOK, Ownership, AtMutex, AtRead, Location
  <1>2. IInv /\ [Next]_vars => IInv'
    <2>1. ASSUME IInv, Next PROVE IInv'
      BY <2>1, StepKeepsIInv DEF Next
    <2>2. ASSUME IInv, UNCHANGED vars PROVE IInv'
      BY <2>2 DEF IInv, TypeOK, Ownership, vars
    <2> QED BY <2>1, <2>2
  <1> QED BY <1>1, <1>2, PTL DEF Spec

(* The pthread objects and the program counters keep their types.          *)
THEOREM TypeCorrect == Spec => []TypeOK
  <1>1. IInv => TypeOK
    BY DEF IInv
  <1> QED BY <1>1, Inductive, PTL

-----------------------------------------------------------------------------

(* A writer is alone and there is at most one intermediate owner, since    *)
(* both own the one mutex and a writer excludes readers by the rwlock.     *)
LEMMA Compatibility == IInv => ModesCompatible
  BY NoThreadAssumption
  DEF IInv, TypeOK, Ownership, AtMutex, AtRead, Location, ModesCompatible, mode, Mode

(* The modes of cg_rlock, cg_ilock and cg_wlock exclude each other as they *)
(* should, for any number of threads.                                      *)
THEOREM Exclusion == Spec => []ModesCompatible
  BY Compatibility, Inductive, PTL

(* Who waits, waits for the owner of the mutex, the writer or a reader:    *)
(* the writer and the readers can always let go, and the owner of the      *)
(* mutex waits for one of those at most.                                   *)
LEMMA SomeoneGoesOn == IInv => NotAllBlocked
  <1> SUFFICES ASSUME IInv, NEW t \in Thread, pc[t] # "idle"
               PROVE  \E u \in Thread : pc[u] # "idle" /\ ~Blocked(u)
    BY DEF NotAllBlocked
  <1> USE NoThreadAssumption DEF IInv, TypeOK, Ownership, AtMutex, AtRead, Location, Blocked
  <1>1. CASE writer # NoThread
    BY <1>1
  <1>2. CASE readers # {}
    BY <1>2
  <1>3. CASE writer = NoThread /\ readers = {} /\ mutex = NoThread
    BY <1>3
  <1>4. CASE writer = NoThread /\ readers = {} /\ mutex # NoThread
    BY <1>4
  <1> QED BY <1>1, <1>2, <1>3, <1>4

(* The calls of the cglock, in whatever order the threads make and convert *)
(* them, never come to wait for one another, for any number of threads.    *)
THEOREM NoLockDeadlock == Spec => []NotAllBlocked
  BY SomeoneGoesOn, Inductive, PTL

(* A waiting writer holds the mutex, so no thread is about to take the     *)
(* read lock: the readers it waits for can only leave.                     *)
THEOREM ReadersDrain == Spec => ReadersOnlyDrain
  <1> DEFINE Drain == \A t \in Thread :
        pc[t] \in {"w1", "u1"} /\ pc'[t] = pc[t] => readers' \subseteq readers
  <1>1. ASSUME IInv, [Next]_vars PROVE Drain
    <2>1. CASE UNCHANGED vars
      BY <2>1 DEF vars
    <2>2. ASSUME NEW u \in Thread, Call(u) \/ Progress(u) PROVE Drain
      <3> SUFFICES ASSUME NEW t \in Thread, pc[t] \in {"w1", "u1"}, pc'[t] = pc[t]
                   PROVE  readers' \subseteq readers
        OBVIOUS
      <3>1. pc[u] \notin {"r1", "I", "d1"}
        BY <1>1, NoThreadAssumption DEF IInv, Ownership, AtMutex
      <3>2. ~(RlockRead(u) \/ Dlock(u) \/ DwlockRead(u))
        BY <3>1 DEF RlockRead, Dlock, DwlockRead, Goto
      <3>3. readers' = readers \/ RdUnlock(u)
        BY <2>2, <3>2
        DEF Call, Progress, RlockMutex, Ilock, WlockCall, ReadGateOpen, UlockCall,
            UlockWrite, WlockMutex, WlockWrite, DwlockRelease, Dwilock, Runlock,
            RuwlockDrop, WunlockWrite, WunlockMutex
      <3> QED BY <3>3 DEF RdUnlock
    <2> QED BY <1>1, <2>1, <2>2 DEF Next
  <1> QED BY <1>1, Inductive, PTL DEF Spec, ReadersOnlyDrain

-----------------------------------------------------------------------------

(* One step of the pthread calls is one step of the atomic lock or leaves  *)
(* the modes alone: rlock takes effect at rd_lock, wlock at wr_lock, a     *)
(* downgrade at wr_unlock and then at rd_lock.                             *)
LEMMA StepRefines ==
  ASSUME IInv, NEW t \in Thread, Call(t) \/ Progress(t)
  PROVE  Atomic!Next \/ UNCHANGED mode
  <1> USE NoThreadAssumption
      DEF IInv, TypeOK, Ownership, AtMutex, AtRead, Location, Goto, mode, Mode
  <1>1. CASE \/ RlockMutex(t) \/ WlockCall(t) \/ ReadGateOpen(t)
             \/ UlockCall(t) \/ WlockMutex(t) \/ WunlockMutex(t)
    BY <1>1 DEF RlockMutex, WlockCall, ReadGateOpen, UlockCall, WlockMutex, WunlockMutex
  <1>2. CASE RlockRead(t)
    <2>1. Atomic!Read(t)
      BY <1>2 DEF RlockRead, RdLock, Atomic!Read, Atomic!Others, Atomic!Change
    <2> QED BY <2>1 DEF Atomic!Next
  <1>3. CASE Ilock(t)
    <2>1. Atomic!Intend(t)
      BY <1>3 DEF Ilock, MutexLock, Atomic!Intend, Atomic!Others, Atomic!Change
    <2> QED BY <2>1 DEF Atomic!Next
  <1>4. CASE WlockWrite(t)
    <2>1. Atomic!Write(t)
      BY <1>4 DEF WlockWrite, WrLock, Atomic!Write, Atomic!Others, Atomic!Change
    <2> QED BY <2>1 DEF Atomic!Next
  <1>5. CASE UlockWrite(t)
    <2>1. Atomic!Promote(t)
      BY <1>5 DEF UlockWrite, WrLock, Atomic!Promote, Atomic!Others, Atomic!Change
    <2> QED BY <2>1 DEF Atomic!Next
  <1>6. CASE Dwilock(t) \/ DwlockRelease(t)
    <2>1. Atomic!Demote(t)
      BY <1>6 DEF Dwilock, DwlockRelease, Atomic!Demote, Atomic!Change
    <2> QED BY <2>1 DEF Atomic!Next
  <1>7. CASE Dlock(t) \/ DwlockRead(t)
    <2>1. Atomic!Downgrade(t)
      BY <1>7 DEF Dlock, DwlockRead, Atomic!Downgrade, Atomic!Change
    <2> QED BY <2>1 DEF Atomic!Next
  <1>8. CASE Runlock(t) \/ RuwlockDrop(t) \/ WunlockWrite(t)
    <2>1. Atomic!Release(t)
      BY <1>8 DEF Runlock, RuwlockDrop, WunlockWrite, Atomic!Release, Atomic!Change
    <2> QED BY <2>1 DEF Atomic!Next
  <1> QED
    BY <1>1, <1>2, <1>3, <1>4, <1>5, <1>6, <1>7, <1>8 DEF Call, Progress

(* A cglock is the atomic three-mode lock, for any number of threads.      *)
THEOREM Refinement == Spec => RefinesAtomicLock
  <1>1. Init => Atomic!Init
    BY DEF Init, Atomic!Init, mode, Mode
  <1>2. IInv /\ [Next]_vars => [Atomic!Next]_mode
    <2>1. ASSUME IInv, Next PROVE [Atomic!Next]_mode
      BY <2>1, StepRefines DEF Next
    <2>2. ASSUME UNCHANGED vars PROVE UNCHANGED mode
      BY <2>2 DEF vars, mode
    <2> QED BY <2>1, <2>2
  <1> QED BY <1>1, <1>2, Inductive, PTL DEF Spec, RefinesAtomicLock, Atomic!Spec

-----------------------------------------------------------------------------
(* The thread queue.                                                       *)

(* The locations at which a thread owns the queue's mutex.                 *)
Within == {"append", "link", "look", "take", "remove", "again", "set", "signal", "unlock"}

(* Who is where: a pusher pushes, the popper pops or freezes; the mutex is *)
(* owned by the one that is within.                                        *)
Mutual ==
  /\ \A t \in User : owner = t <=> at[t] \in Within
  /\ \A t \in Pusher : at[t] \in {"idle", "push", "append", "link", "signal", "unlock"}
  /\ at[Popper] \notin {"push", "append", "link"}

(* What a thread within the list found there is still there.               *)
Found ==
  /\ \A t \in Pusher : at[t] \in {"push", "append", "link"} => ent[t] \in Item
  /\ \A t \in Pusher : at[t] = "link" => seen[t] = q /\ ~frozen
  /\ at[Popper] \in {"take", "remove"} => q # <<>>
  /\ at[Popper] = "remove" => seen[Popper] = q /\ ent[Popper] = Head(q)

(* The popper is woken over an item only: one that signals has just added  *)
(* it, unless the queue is frozen, and then the popper waits no more.      *)
Awake ==
  /\ at[Popper] \in {"woken", "again"} => q # <<>>
  /\ at[Popper] = "wait" => \A t \in Pusher : at[t] = "signal" => q # <<>>
  /\ frozen => at[Popper] \in {"signal", "unlock", "gone"}

(* What the steps do to a list.                                            *)
LEMMA Lists ==
  ASSUME NEW S, NEW s \in Seq(S), NEW e \in S
  PROVE  /\ Append(s, e) \in Seq(S)
         /\ Append(s, e) # <<>>
         /\ s # <<>> => Head(s) \in S /\ Tail(s) \in Seq(S)
  <1>1. Append(s, e) \in Seq(S) /\ Len(Append(s, e)) = Len(s) + 1 /\ Len(s) \in Nat
    OBVIOUS
  <1>2. Append(s, e) # <<>>
    BY <1>1
  <1> QED BY <1>1, <1>2

QInv == QueueTypeOK /\ Mutual /\ Found /\ Awake /\ NoItemOverlooked

LEMMA QueueInitOK == QueueInit => QInv
  <1> SUFFICES ASSUME QueueInit PROVE QInv
    OBVIOUS
  <1> USE QueueAssumption DEF QueueInit, User
  <1>1. <<>> \in Seq(Item)
    OBVIOUS
  <1>2. QueueTypeOK
    BY <1>1 DEF QueueTypeOK, Place
  <1>3. \A t \in User : at[t] = "idle" /\ t # owner
    OBVIOUS
  <1>4. Mutual
    BY <1>3 DEF Mutual, Within
  <1>5. Found /\ Awake /\ NoItemOverlooked
    BY <1>3 DEF Found, Awake, NoItemOverlooked
  <1> QED BY <1>2, <1>4, <1>5 DEF QInv

(* A step of a pusher.                                                     *)
LEMMA PusherKeeps ==
  ASSUME QInv, NEW t \in Pusher, Pushing(t) \/ \E i \in Item : PushCall(t, i)
  PROVE  QInv'
  <1> USE QueueAssumption DEF QInv, QueueTypeOK, Mutual, Found, Awake, NoItemOverlooked,
                              Within, Place, User, Move
  <1>1. CASE \E i \in Item : PushCall(t, i)
    <2>1. PICK i \in Item : PushCall(t, i)
      BY <1>1
    <2>2. QueueTypeOK' /\ ent'[t] = i /\ \A u \in User : u # t => ent'[u] = ent[u]
      BY <2>1 DEF PushCall
    <2>3. /\ at[t] = "idle" /\ at'[t] = "push" /\ t # Popper
          /\ \A u \in User : u # t => at'[u] = at[u]
          /\ UNCHANGED <<owner, q, frozen, seen, popped>>
      BY <2>1 DEF PushCall
    <2>4. Mutual' /\ NoItemOverlooked'
      BY <2>3
    <2>5. \A u \in Pusher : at'[u] \in {"push", "append", "link"} => ent'[u] \in Item
      BY <2>1, <2>2, <2>3
    <2>6. Found' /\ Awake'
      BY <2>3, <2>5, <2>2
    <2> QED BY <2>2, <2>4, <2>6
  <1>2. CASE PushLock(t)
    BY <1>2 DEF PushLock, Lock
  <1>3. CASE PushAppend(t)
    BY <1>3 DEF PushAppend
  <1>4. CASE PushRefused(t)
    BY <1>4 DEF PushRefused
  <1>5. CASE PushLink(t)
    BY <1>5 DEF PushLink
  <1>6. CASE Signal(t)
    BY <1>6 DEF Signal
  <1>7. CASE Unlock(t)
    BY <1>7 DEF Unlock, Unlocked
  <1> QED BY <1>1, <1>2, <1>3, <1>4, <1>5, <1>6, <1>7 DEF Pushing

(* A step of the popper.                                                   *)
LEMMA PopperKeeps ==
  ASSUME QInv, Popping \/ FreezeCall
  PROVE  QInv'
  <1> USE QueueAssumption DEF QInv, QueueTypeOK, Mutual, Found, Awake, NoItemOverlooked,
                              Within, Place, User, Move
  <1>1. CASE PopCall \/ FreezeCall
    BY <1>1 DEF PopCall, FreezeCall
  <1>2. CASE PopLock \/ PopWoken \/ FreezeLock
    BY <1>2 DEF PopLock, PopWoken, FreezeLock, Lock
  <1>3. CASE PopLook \/ PopAgain
    <2>1. /\ at[Popper] \in {"look", "again"} /\ at'[Popper] = "take" /\ q # <<>>
          /\ \A t \in Pusher : at'[t] = at[t]
          /\ at' \in [User -> Place]
          /\ UNCHANGED <<owner, q, frozen, ent, seen, pushed, popped>>
      BY <1>3 DEF PopLook, PopAgain, PopFinds
    <2> QED BY <2>1
  <1>4. CASE PopWait
    BY <1>4 DEF PopWait, Unlocked
  <1>5. CASE PopNothing
    BY <1>5 DEF PopNothing
  <1>6. CASE PopTake
    BY <1>6 DEF PopTake
  <1>7. CASE PopRemove
    BY <1>7 DEF PopRemove
  <1>8. CASE tq_freeze
    BY <1>8 DEF tq_freeze
  <1>9. CASE Signal(Popper)
    BY <1>9 DEF Signal
  <1>10. CASE Unlock(Popper)
    BY <1>10 DEF Unlock, Unlocked
  <1> QED BY <1>1, <1>2, <1>3, <1>4, <1>5, <1>6, <1>7, <1>8, <1>9, <1>10 DEF Popping

LEMMA QueueStepOK == QInv /\ [QueueNext]_queueVars => QInv'
  <1>1. ASSUME QInv, QueueNext PROVE QInv'
    BY <1>1, PusherKeeps, PopperKeeps DEF QueueNext
  <1>2. ASSUME QInv, UNCHANGED queueVars PROVE QInv'
    BY <1>2 DEF queueVars, QInv, QueueTypeOK, Mutual, Found, Awake, NoItemOverlooked
  <1> QED BY <1>1, <1>2

LEMMA QueueInvariant == QueueSpec => []QInv
  BY QueueInitOK, QueueStepOK, PTL DEF QueueSpec

(* tq_pop, which waits once only, never comes back with nothing: a signal  *)
(* finds the popper waiting only when an item was added.                   *)
THEOREM PopNeverEmpty == QueueSpec => []PopFindsItem
  <1>1. QInv => PopFindsItem
    BY DEF QInv, Awake, PopFindsItem
  <1> QED BY <1>1, QueueInvariant, PTL

(* The popper sleeps over an item only until the thread that added it has  *)
(* signalled.                                                              *)
THEOREM NothingOverlooked == QueueSpec => []NoItemOverlooked
  BY QueueInvariant, PTL DEF QInv

(* The entry is in the queue when it is linked, out of it when it is       *)
(* unlinked; every other step leaves the atomic queue as it is.            *)
LEMMA QueueStepRefines ==
  ASSUME QInv, QueueNext
  PROVE  [Abstract!Next]_<<q, popped, frozen>>
  <1>1. CASE \E t \in Pusher : PushLink(t)
    BY <1>1 DEF QInv, Found, PushLink, Move, Abstract!Next, Abstract!Put
  <1>2. CASE PopRemove
    BY <1>2 DEF QInv, Found, PopRemove, Move, Abstract!Next, Abstract!Get
  <1>3. CASE tq_freeze
    BY <1>3 DEF tq_freeze, Abstract!Next, Abstract!Shut
  <1>4. CASE \E t \in Pusher : \/ \E i \in Item : PushCall(t, i)
                              \/ PushLock(t) \/ PushAppend(t) \/ PushRefused(t)
                              \/ Signal(t) \/ Unlock(t)
    BY <1>4 DEF PushCall, PushLock, PushAppend, PushRefused, Signal, Unlock
  <1>5. CASE \/ PopCall \/ PopLock \/ PopLook \/ PopWait \/ PopWoken \/ PopAgain
             \/ PopNothing \/ PopTake \/ FreezeLock \/ FreezeCall
             \/ Signal(Popper) \/ Unlock(Popper)
    BY <1>5 DEF PopCall, PopLock, PopLook, PopWait, PopWoken, PopAgain, PopFinds, PopNothing,
                PopTake, FreezeLock, FreezeCall, Signal, Unlock
  <1> QED BY <1>1, <1>2, <1>3, <1>4, <1>5 DEF QueueNext, Pushing, Popping

(* The list under its mutex is the atomic queue, for any items and pushers.*)
THEOREM QueueRefined == QueueSpec => RefinesAtomicQueue
  <1>1. QueueInit => Abstract!Init
    BY DEF QueueInit, Abstract!Init
  <1>2. QInv /\ [QueueNext]_queueVars => [Abstract!Next]_<<q, popped, frozen>>
    BY QueueStepRefines DEF queueVars
  <1> QED BY <1>1, <1>2, QueueInvariant, PTL DEF QueueSpec, RefinesAtomicQueue, Abstract!Spec

-----------------------------------------------------------------------------
(* The threads of the pools.                                               *)

ConnInv == ConnTypeOK /\ ParkedIsClosed /\ NotForgotten

(* Of the pools alive one goes before the others.                          *)
LEMMA BestIn ==
  ASSUME NEW pr \in [Pool -> Nat], NEW en \in SUBSET Pool, NEW id, en \ id # {}
  PROVE  Best(pr, en, id) \in en \ id
  <1> DEFINE S == {pr[p] : p \in en \ id}
  <1>1. S # {} /\ S \subseteq Nat
    OBVIOUS
  <1>2. PICK n \in S : \A m \in S : ~(<<m, n>> \in OpToRel(<, Nat))
    BY <1>1, NatLessThanWellFounded, WFMin
  <1>3. \A m \in S : n <= m
    <2>1. ASSUME NEW m \in S, m < n PROVE <<m, n>> \in OpToRel(<, Nat)
      <3>1. <<m, n>> \in Nat \X Nat
        BY <1>1
      <3> QED BY <2>1, <3>1, Zenon DEF OpToRel
    <2>2. \A m \in S : ~(m < n)
      BY <1>2, <2>1
    <2> HIDE DEF S
    <2> QED BY <1>1, <2>2
  <1>4. PICK p \in en \ id : pr[p] = n
    OBVIOUS
  <1>5. \A r \in en \ id : pr[p] <= pr[r]
    BY <1>3, <1>4
  <1> QED BY <1>4, <1>5 DEF Best

LEMMA SwitchTypes ==
  ASSUME ConnInv, NEW pr \in [Pool -> Nat], NEW en \in SUBSET Pool, NEW id, switch_pools(pr, en, id)
  PROVE  /\ prio' \in [Pool -> Nat] /\ current' \in Pool
         /\ broadcasts' \in 0 .. MaxPending /\ broadcasts' > 0
  BY BestIn, ConnectionsAssumption DEF switch_pools, ConnInv, ConnTypeOK

LEMMA PromoteTypes ==
  ASSUME ConnInv, NEW p \in Pool
  PROVE  Promote(p) \in [Pool -> Nat]
  BY DEF Promote, ConnInv, ConnTypeOK

(* A thread that tests goes to sleep only if it is not needed; one that    *)
(* goes anywhere else is awake.                                            *)
LEMMA PoolThreadKeeps ==
  ASSUME ConnInv, NEW p \in Pool, PoolThread(p) \/ WatchTest(p) \/ WakesUnasked(p)
  PROVE  ConnInv'
  <1> USE DEF ConnInv, ConnTypeOK, ParkedIsClosed, NotForgotten, optionVars, outsideVars, choiceVars, Turn
  <1>1. CASE TestCurrent(p)
    <2>1. UNCHANGED <<optionVars, outsideVars, choiceVars, enabled, idle, active, lost>>
      BY <1>1 DEF TestCurrent
    <2>2. doing[p] = "test" /\ \E to \in {"before", "restart", "poll"} :
             /\ doing' = [doing EXCEPT ![p] = to]
             /\ to = "before" => MustWait(p)
             /\ to = "restart" <=> p \in stratum /\ ~MustWait(p)
             /\ to = "poll" => p \notin stratum
      BY <1>1 DEF TestCurrent
    <2>3. MustWait(p) /\ p \in enabled =>
            ~(p = current \/ prio[p] < prio[current] \/ p \in stratum \intersect idle)
      BY DEF MustWait, cnx_needed
    <2> QED BY <2>1, <2>2, <2>3
  <1>2. CASE CondWait(p)
    BY <1>2 DEF CondWait
  <1>3. CASE PollReturns(p)
    BY <1>3 DEF PollReturns
  <1>4. CASE Suspend(p)
    BY <1>4 DEF Suspend
  <1>5. CASE Resumed(p)
    BY <1>5 DEF Resumed
  <1>6. CASE Interrupted(p)
    BY <1>6 DEF Interrupted
  <1>7. CASE Restarted(p)
    BY <1>7 DEF Restarted
  <1>8. CASE RestartFails(p)
    <2>1. /\ doing[p] = "restart" /\ doing' = [doing EXCEPT ![p] = "retry"] /\ active' = active \ {p}
          /\ idle' = idle \union {p} /\ UNCHANGED <<stratum, leaky, up, kept, enabled, lost>>
      BY <1>8 DEF RestartFails, pool_died
    <2>2. CASE UNCHANGED choiceVars
      BY <2>1, <2>2
    <2>3. CASE switch_pools(prio, enabled, idle')
      <3>1. /\ prio' \in [Pool -> Nat] /\ current' \in Pool
            /\ broadcasts' \in 0 .. MaxPending /\ broadcasts' > 0
        BY <2>3, SwitchTypes
      <3> QED BY <2>1, <3>1
    <2> QED BY <1>8, <2>2, <2>3 DEF RestartFails, pool_died
  <1>9. CASE WatchTest(p)
    BY <1>9 DEF WatchTest
  <1>10. CASE WakesUnasked(p)
    BY <1>10 DEF WakesUnasked
  <1> QED BY <1>1, <1>2, <1>3, <1>4, <1>5, <1>6, <1>7, <1>8, <1>9, <1>10 DEF PoolThread

(* A broadcast wakes those asleep; of those about to sleep it misses only  *)
(* the ones it marks.                                                      *)
LEMMA BroadcastKeeps == ASSUME ConnInv, Broadcast PROVE ConnInv'
  <1>1. \A p \in Pool : doing'[p] = IF doing[p] = "asleep" THEN "test" ELSE doing[p]
    BY DEF Broadcast
  <1>2. doing' \in [Pool -> {"loop", "poll", "test", "before", "asleep", "restart", "retry"}]
    BY <1>1 DEF Broadcast, ConnInv, ConnTypeOK
  <1>3. broadcasts' \in 0 .. MaxPending
    BY ConnectionsAssumption DEF Broadcast, ConnInv, ConnTypeOK
  <1>4. UNCHANGED <<stratum, leaky, up, kept, prio, current, enabled, idle, active>>
    BY DEF Broadcast, optionVars, outsideVars
  <1>5. ConnTypeOK'
    <2>1. lost' \subseteq Pool
      BY DEF Broadcast, ConnInv, ConnTypeOK
    <2> QED BY <1>1, <1>2, <1>3, <1>4, <2>1 DEF ConnInv, ConnTypeOK
  <1>6. ParkedIsClosed'
    BY <1>1, <1>4 DEF ConnInv, ConnTypeOK, ParkedIsClosed
  <1>7. ASSUME NEW p \in enabled, doing'[p] \in {"before", "asleep"},
               p = current \/ prio[p] < prio[current] \/ p \in stratum \intersect idle
        PROVE  p \in lost'
    <2>1. p \in Pool /\ doing[p] = "before"
      BY <1>1, <1>7 DEF ConnInv, ConnTypeOK
    <2>2. ~MustWait(p)
      BY <1>7 DEF MustWait, cnx_needed
    <2> QED BY <2>1, <2>2 DEF Broadcast
  <1> QED BY <1>4, <1>5, <1>6, <1>7 DEF ConnInv, NotForgotten

LEMMA OthersKeep ==
  ASSUME ConnInv,
         \/ \E p \in Pool : enablepool(p) \/ disablepool(p) \/ ComesOrGoes(p) \/ SenderSuspends(p)
         \/ Kept \/ WatchSwitch \/ GetsNoWork
  PROVE  ConnInv'
  <1> USE DEF ConnInv, ConnTypeOK, ParkedIsClosed, NotForgotten, optionVars, outsideVars, choiceVars
  <1>1. ASSUME NEW p \in Pool, enablepool(p) PROVE ConnInv'
    <2>1. enabled' = enabled \union {p} /\ UNCHANGED <<stratum, leaky, up, kept, idle, active, doing>>
      BY <1>1 DEF enablepool
    <2>2. CASE prio[p] < prio[current]
      <3>1. switch_pools(Promote(p), enabled', idle) /\ lost' = lost
        BY <1>1, <2>2 DEF enablepool
      <3>2. /\ prio' \in [Pool -> Nat] /\ current' \in Pool
            /\ broadcasts' \in 0 .. MaxPending /\ broadcasts' > 0
        BY <2>1, <3>1, PromoteTypes, SwitchTypes
      <3> QED BY <2>1, <3>1, <3>2
    <2>3. CASE ~(prio[p] < prio[current])
      <3>1. /\ lost' = lost \union (IF doing[p] \in {"before", "asleep"} THEN {p} ELSE {})
            /\ UNCHANGED choiceVars
        BY <1>1, <2>3 DEF enablepool
      <3> QED BY <2>1, <3>1
    <2> QED BY <2>2, <2>3
  <1>2. ASSUME NEW p \in Pool, disablepool(p) PROVE ConnInv'
    <2>1. enabled' = enabled \ {p} /\ UNCHANGED <<stratum, leaky, up, kept, idle, active, doing, lost>>
      BY <1>2 DEF disablepool
    <2>2. CASE UNCHANGED choiceVars
      BY <2>1, <2>2
    <2>3. CASE switch_pools(prio, enabled', idle)
      <3>1. /\ prio' \in [Pool -> Nat] /\ current' \in Pool
            /\ broadcasts' \in 0 .. MaxPending /\ broadcasts' > 0
        BY <2>1, <2>3, SwitchTypes
      <3> QED BY <2>1, <3>1
    <2> QED BY <1>2, <2>2, <2>3 DEF disablepool
  <1>3. ASSUME NEW p \in Pool, ComesOrGoes(p) \/ SenderSuspends(p) PROVE ConnInv'
    BY <1>3 DEF ComesOrGoes, SenderSuspends
  <1>4. CASE Kept
    BY <1>4 DEF Kept
  <1>5. CASE WatchSwitch
    <2>1. /\ prio' \in [Pool -> Nat] /\ current' \in Pool
          /\ broadcasts' \in 0 .. MaxPending /\ broadcasts' > 0
      BY <1>5, SwitchTypes DEF WatchSwitch
    <2> QED BY <1>5, <2>1 DEF WatchSwitch
  <1>6. CASE GetsNoWork
    <2>1. switch_pools(prio, enabled, idle') /\ idle' = idle \union {current}
      BY <1>6 DEF GetsNoWork, pool_died
    <2>2. /\ prio' \in [Pool -> Nat] /\ current' \in Pool
          /\ broadcasts' \in 0 .. MaxPending /\ broadcasts' > 0
      BY <2>1, SwitchTypes
    <2> QED BY <1>6, <2>1, <2>2 DEF GetsNoWork
  <1> QED BY <1>1, <1>2, <1>3, <1>4, <1>5, <1>6

LEMMA ConnInvariant == ConnSpec => []ConnInv
  <1>1. ConnInit => ConnInv
    <2>1. ASSUME ConnInit PROVE ConnInv
      <3>1. 0 .. Cardinality(Pool) - 1 \subseteq Nat
        OBVIOUS
      <3>2. prio \in [Pool -> Nat]
        BY <2>1, <3>1 DEF ConnInit
      <3> QED BY <2>1, <3>2, ConnectionsAssumption
              DEF ConnInit, ConnInv, ConnTypeOK, ParkedIsClosed, NotForgotten
    <2> QED BY <2>1
  <1>2. ConnInv /\ [ConnNext]_connVars => ConnInv'
    <2>1. ASSUME ConnInv, ConnNext PROVE ConnInv'
      BY <2>1, PoolThreadKeeps, BroadcastKeeps, OthersKeep DEF ConnNext, Outside
    <2>2. ASSUME ConnInv, UNCHANGED connVars PROVE ConnInv'
      BY <2>2 DEF ConnInv, ConnTypeOK, ParkedIsClosed, NotForgotten, connVars, optionVars,
                  outsideVars, choiceVars
    <2> QED BY <2>1, <2>2
  <1> QED BY <1>1, <1>2, PTL DEF ConnSpec

(* For any number of pools and switches under way: the connection of a pool*)
(* is closed while its receiver waits.                                     *)
THEOREM ParkedClosed == ConnSpec => []ParkedIsClosed
  BY ConnInvariant, PTL DEF ConnInv

(* For any number of pools and switches under way: only by the two ways    *)
(* named (a broadcast between test and wait, and enabling a pool that is   *)
(* not better) can the thread of a pool the program turns to sleep on.     *)
THEOREM NoneForgotten == ConnSpec => []NotForgotten
  BY ConnInvariant, PTL DEF ConnInv

-----------------------------------------------------------------------------
(* The way out.                                                            *)

(* Stages come one after the other: those behind are over, those ahead have*)
(* not begun; a helper that was joined has ended.                          *)
Staged ==
  /\ stage \in Stage
  /\ \A s \in Stage : s > stage => helper[s] = "none"
  /\ \A s \in Stage : s = stage /\ killer \in {"up", "force", "log", "spawn"} => helper[s] = "none"
  /\ killer = "free" => helper[stage] = "ended"
  /\ \A s \in Stage : cgc[s] = "freed" => helper[s] = "ended"
  /\ helper \in [Stage -> {"none", "runs", "posts", "posted", "doomed", "ended"}]
  /\ cgc \in [Stage -> {"none", "live", "freed"}]

LEMMA ShutdownStepOK == Staged /\ [ShutdownNext]_shutdownVars => Staged'
  <1> SUFFICES ASSUME Staged, [ShutdownNext]_shutdownVars PROVE Staged'
    OBVIOUS
  <1>0. Stage \subseteq Nat /\ \A s \in Stage : s < Len(Targets) => s + 1 \in Stage
    BY ShutdownAssumption DEF Stage
  <1> USE <1>0 DEF Staged, At
  <1>1. CASE Begin \/ ForceUnlock \/ Log \/ Completed \/ Join \/ TimedOut \/ disable_curses \/ print_summary
    BY <1>1 DEF Begin, ForceUnlock, Log, Completed, Join, TimedOut, disable_curses, print_summary
  <1>2. CASE Spawn
    BY <1>2 DEF Spawn
  <1>3. CASE Free
    BY <1>3 DEF Free, Onward
  <1>4. CASE CancelHelper
    BY <1>4 DEF CancelHelper, Onward
  <1>5. CASE \E s \in Stage : CancelWorkers(s) \/ Posts(s) \/ HelperEnds(s) \/ DoomedEnds(s)
    <2>1. PICK s \in Stage : /\ helper[s] \in {"runs", "posts", "posted", "doomed"}
                             /\ \E a \in {"posts", "posted", "ended"} :
                                  helper' = [helper EXCEPT ![s] = a]
                             /\ UNCHANGED <<killer, stage, cgc>>
      BY <1>5 DEF CancelWorkers, Posts, HelperEnds, DoomedEnds
    <2> QED BY <2>1
  <1>6. CASE \E x \in Worker : TakeConsole(x) \/ LeaveConsole(x) \/ Die(x)
    BY <1>6 DEF TakeConsole, LeaveConsole, Die
  <1>7. CASE UNCHANGED shutdownVars
    BY <1>7 DEF shutdownVars
  <1> QED BY <1>1, <1>2, <1>3, <1>4, <1>5, <1>6, <1>7 DEF ShutdownNext, Kill

(* The record of a completion is freed only when its helper has ended,     *)
(* though it posts late, is cancelled in its function or hangs, and however*)
(* many completions there are.                                             *)
THEOREM RecordOutlives == ShutdownSpec => []NoUseAfterFree
  <1>1. ShutdownInit => Staged
    <2>1. 1 \in Stage
      BY ShutdownAssumption DEF Stage
    <2> QED BY <2>1 DEF ShutdownInit, Staged
  <1>2. Staged => NoUseAfterFree
    BY DEF Staged, NoUseAfterFree
  <1> QED BY <1>1, <1>2, ShutdownStepOK, PTL DEF ShutdownSpec

(* What a helper can still do, and what the killer relies on.              *)
Semaphores == \A s \in Stage : cgsem[s] > 0 => helper[s] \in {"posted", "ended", "doomed"}

Cancelling ==
  /\ \A s \in Stage : helper[s] = "runs" => s = stage /\ killer \in {"await", "cancel"}
  /\ killer = "await" => helper[stage] # "doomed"

ExitInv == Staged /\ ShutdownTypeOK /\ Semaphores /\ Cancelling /\ JoinReturns /\ ConsoleComesBack

LEMMA KillerKeeps == ASSUME ExitInv, Staged', Kill \/ Begin PROVE ExitInv'
  <1>0. Stage \subseteq Nat /\ \A s \in Stage : s < Len(Targets) => s + 1 \in Stage /\ s + 1 # s
    BY ShutdownAssumption DEF Stage
  <1> USE <1>0 DEF ExitInv, ShutdownTypeOK, Semaphores, Cancelling, JoinReturns, ConsoleComesBack, At
  <1>1. CASE Begin
    BY <1>1 DEF Begin
  <1>2. CASE ForceUnlock \/ disable_curses
    BY <1>2 DEF ForceUnlock, disable_curses
  <1>3. CASE Log \/ print_summary
    BY <1>3 DEF Log, print_summary
  <1>4. CASE Spawn
    <2>1. helper[stage] = "none" /\ cgsem[stage] = 0
      BY <1>4 DEF Spawn, Staged
    <2> QED BY <1>4, <2>1 DEF Spawn
  <1>5. CASE Completed
    <2>1. cgsem[stage] = 1 /\ helper[stage] \in {"posted", "ended"}
      BY <1>5 DEF Completed
    <2> QED BY <1>5, <2>1 DEF Completed
  <1>6. CASE Join \/ TimedOut
    BY <1>6 DEF Join, TimedOut
  <1>7. CASE Free
    <2>1. helper[stage] = "ended"
      BY <1>7 DEF Free, Staged
    <2> QED BY <1>7, <2>1 DEF Free, Onward
  <1>8. CASE CancelHelper
    BY <1>8 DEF CancelHelper, Onward
  <1> QED BY <1>1, <1>2, <1>3, <1>4, <1>5, <1>6, <1>7, <1>8 DEF Kill

LEMMA HelpersKeep ==
  ASSUME ExitInv, Staged', NEW s \in Stage,
         CancelWorkers(s) \/ Posts(s) \/ HelperEnds(s) \/ DoomedEnds(s)
  PROVE  ExitInv'
  <1> USE DEF ExitInv, ShutdownTypeOK, Semaphores, Cancelling, JoinReturns, ConsoleComesBack
  <1>1. CASE CancelWorkers(s)
    <2>1. killer \in {"await", "cancel"} /\ UNCHANGED <<killer, console>>
      BY <1>1 DEF CancelWorkers
    <2>2. worker' \in [Worker -> {"runs", "cancelled", "dead"}]
      BY <1>1 DEF CancelWorkers
    <2> QED BY <1>1, <2>1, <2>2 DEF CancelWorkers
  <1>2. CASE Posts(s)
    <2>1. cgsem[s] = 0
      BY <1>2 DEF Posts
    <2> QED BY <1>2, <2>1 DEF Posts
  <1>3. CASE HelperEnds(s)
    BY <1>3 DEF HelperEnds
  <1>4. CASE DoomedEnds(s)
    <2>1. cgsem' \in [Stage -> 0 .. 1]
      BY <1>4 DEF DoomedEnds
    <2>2. \A r \in Stage \ {s} : cgsem'[r] = cgsem[r] /\ helper'[r] = helper[r]
      BY <1>4 DEF DoomedEnds
    <2> QED BY <1>4, <2>1, <2>2 DEF DoomedEnds
  <1> QED BY <1>1, <1>2, <1>3, <1>4

LEMMA WorkersKeep ==
  ASSUME ExitInv, Staged', NEW x \in Worker, TakeConsole(x) \/ LeaveConsole(x) \/ Die(x)
  PROVE  ExitInv'
  <1> USE ShutdownAssumption
      DEF ExitInv, ShutdownTypeOK, Semaphores, Cancelling, JoinReturns, ConsoleComesBack
  <1>1. CASE TakeConsole(x)
    BY <1>1 DEF TakeConsole
  <1>2. CASE LeaveConsole(x)
    BY <1>2 DEF LeaveConsole
  <1>3. CASE Die(x)
    BY <1>3 DEF Die
  <1> QED BY <1>1, <1>2, <1>3

LEMMA ExitInvariant == ShutdownSpec => []ExitInv
  <1>1. ShutdownInit => ExitInv
    <2>1. 1 \in Stage
      BY ShutdownAssumption DEF Stage
    <2> QED BY <2>1 DEF ShutdownInit, ExitInv, Staged, ShutdownTypeOK, Semaphores, Cancelling,
                        JoinReturns, ConsoleComesBack
  <1>2. ExitInv /\ [ShutdownNext]_shutdownVars => ExitInv'
    <2>1. ASSUME ExitInv, ShutdownNext PROVE ExitInv'
      <3>1. Staged'
        BY <2>1, ShutdownStepOK DEF ExitInv
      <3> QED BY <2>1, <3>1, KillerKeeps, HelpersKeep, WorkersKeep DEF ShutdownNext
    <2>2. ASSUME ExitInv, UNCHANGED shutdownVars PROVE ExitInv'
      BY <2>2 DEF shutdownVars, ExitInv, Staged, ShutdownTypeOK, Semaphores, Cancelling,
                  JoinReturns, ConsoleComesBack
    <2> QED BY <2>1, <2>2
  <1> QED BY <1>1, <1>2, PTL DEF ShutdownSpec

(* Types: in particular no semaphore of a completion is posted twice,      *)
(* though its helper may be cancelled before or after it posts.            *)
THEOREM ExitTypes == ShutdownSpec => []ShutdownTypeOK
  BY ExitInvariant, PTL DEF ExitInv

(* The program hangs in no join: once the semaphore was taken the helper   *)
(* has only to return.                                                     *)
THEOREM JoinComesBack == ShutdownSpec => []JoinReturns
  BY ExitInvariant, PTL DEF ExitInv

(* Nor at the console: after the lock was forced only threads that run take*)
(* it, and none is cancelled until the message is out, as long as no thread*)
(* logs once it is cancelled.                                              *)
THEOREM MessagesGetOut == ShutdownSpec => []ConsoleComesBack
  BY ExitInvariant, PTL DEF ExitInv

=============================================================================
