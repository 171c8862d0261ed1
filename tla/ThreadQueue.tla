---------------------------- MODULE ThreadQueue -----------------------------
(***************************************************************************)
(* The thread queue of util.c between pthread calls.  Every queue of this  *)
(* program has any number of threads that push and one that pops: the      *)
(* sender of a stratum pool, or reinit_gpu.  The sender freezes its queue  *)
(* when it ends; nothing thaws or frees one, and no pop has a timeout.     *)
(*                                                                         *)
(* A thread is                                                             *)
(*   idle                      outside the queue                           *)
(*   push append link          before tq_push has the mutex, before and    *)
(*                             within its list_add_tail                    *)
(*   pop look take remove      before tq_pop has the mutex, before its     *)
(*                             test, before and within its list_del        *)
(*   wait woken again          in pthread_cond_wait, signalled but without *)
(*                             the mutex, with it again                    *)
(*   freeze set                before tq_freeze has the mutex, with it     *)
(*   signal unlock gone        before the signal, before the unlock, ended *)
(***************************************************************************)
EXTENDS Naturals, Sequences, FiniteSets

CONSTANTS Item,      \* what is pushed, each item once
          Pusher,    \* the threads that push
          Popper,    \* the thread that pops
          NoItem,    \* NULL
          Nobody     \* the owner of a free mutex

ASSUME QueueAssumption == /\ Popper \notin Pusher
                          /\ Nobody \notin Pusher \union {Popper}
                          /\ NoItem \notin Item

VARIABLES at,       \* where each thread is
          owner,    \* tq->mutex: its owner
          q,        \* tq->q
          frozen,   \* tq->frozen
          ent,      \* a thread's entry, or what tq_pop returns
          seen,     \* the list as a thread found it under the mutex
          pushed,   \* ghost: the items for which tq_push was called
          popped    \* ghost: what tq_pop returned, in order

queueVars == <<at, owner, q, frozen, ent, seen, pushed, popped>>

User == Pusher \union {Popper}

Place == {"idle", "push", "append", "link", "pop", "look", "take", "remove",
          "wait", "woken", "again", "freeze", "set", "signal", "unlock", "gone"}

QueueInit == /\ at = [t \in User |-> "idle"]
             /\ owner = Nobody
             /\ q = <<>>
             /\ frozen = FALSE
             /\ ent = [t \in User |-> NoItem]
             /\ seen = [t \in User |-> <<>>]
             /\ pushed = {}
             /\ popped = <<>>

-----------------------------------------------------------------------------

Move(t, from, to) == at[t] = from /\ at' = [at EXCEPT ![t] = to]

Lock(t)   == owner = Nobody /\ owner' = t
Unlocked(t) == owner = t /\ owner' = Nobody

(* tq_push: the entry is made before the mutex is taken; the condition is  *)
(* signalled even if the queue refused the item.                           *)
PushCall(t, i) == /\ Move(t, "idle", "push")
                  /\ i \notin pushed
                  /\ pushed' = pushed \union {i}
                  /\ ent' = [ent EXCEPT ![t] = i]
                  /\ UNCHANGED <<owner, q, frozen, seen, popped>>

\* Faulty: the list is changed without the mutex.
PushUnlocked(t) == /\ Move(t, "push", "append")
                   /\ UNCHANGED <<owner, q, frozen, ent, seen, pushed, popped>>

PushLock(t)   == /\ Move(t, "push", "append")
                 /\ Lock(t)
                 /\ UNCHANGED <<q, frozen, ent, seen, pushed, popped>>
PushAppend(t) == /\ ~frozen
                 /\ Move(t, "append", "link")
                 /\ seen' = [seen EXCEPT ![t] = q]
                 /\ UNCHANGED <<owner, q, frozen, ent, pushed, popped>>
PushRefused(t) == /\ frozen
                  /\ Move(t, "append", "signal")
                  /\ UNCHANGED <<owner, q, frozen, ent, seen, pushed, popped>>
PushLink(t)   == /\ Move(t, "link", "signal")
                 /\ q' = Append(seen[t], ent[t])
                 /\ UNCHANGED <<owner, frozen, ent, seen, pushed, popped>>

(* pthread_cond_signal wakes the popper if it waits, nobody otherwise.     *)

\* Faulty: nobody is woken.
SignalNobody(t) == /\ Move(t, "signal", "unlock")
                   /\ UNCHANGED <<owner, q, frozen, ent, seen, pushed, popped>>

Signal(t) == /\ at[t] = "signal"
             /\ at' = [u \in User |-> IF u = t THEN "unlock"
                                      ELSE IF at[u] = "wait" THEN "woken"
                                      ELSE at[u]]
             /\ UNCHANGED <<owner, q, frozen, ent, seen, pushed, popped>>

Unlock(t) == /\ at[t] = "unlock"
             /\ at' = [at EXCEPT ![t] = IF frozen /\ t = Popper THEN "gone" ELSE "idle"]
             /\ Unlocked(t)
             /\ UNCHANGED <<q, frozen, ent, seen, pushed, popped>>

(* tq_pop: one wait at most.                                               *)
PopCall == /\ Move(Popper, "idle", "pop")
           /\ UNCHANGED <<owner, q, frozen, ent, seen, pushed, popped>>
PopLock == /\ Move(Popper, "pop", "look")
           /\ Lock(Popper)
           /\ UNCHANGED <<q, frozen, ent, seen, pushed, popped>>

PopFinds(from) == /\ q # <<>>
                  /\ Move(Popper, from, "take")
                  /\ UNCHANGED <<owner, q, frozen, ent, seen, pushed, popped>>

PopLook == PopFinds("look")
PopWait == /\ q = <<>>
           /\ Move(Popper, "look", "wait")
           /\ Unlocked(Popper)
           /\ UNCHANGED <<q, frozen, ent, seen, pushed, popped>>
PopWoken == /\ Move(Popper, "woken", "again")
            /\ Lock(Popper)
            /\ UNCHANGED <<q, frozen, ent, seen, pushed, popped>>
PopAgain == PopFinds("again")
PopNothing == /\ q = <<>>
              /\ Move(Popper, "again", "unlock")
              /\ ent' = [ent EXCEPT ![Popper] = NoItem]
              /\ UNCHANGED <<owner, q, frozen, seen, pushed, popped>>
PopTake == /\ Move(Popper, "take", "remove")
           /\ ent' = [ent EXCEPT ![Popper] = Head(q)]
           /\ seen' = [seen EXCEPT ![Popper] = q]
           /\ UNCHANGED <<owner, q, frozen, pushed, popped>>
PopRemove == /\ Move(Popper, "remove", "unlock")
             /\ q' = Tail(seen[Popper])
             /\ popped' = Append(popped, ent[Popper])
             /\ UNCHANGED <<owner, frozen, ent, seen, pushed>>

(* tq_freeze, by the popper that ends.                                     *)
FreezeCall == /\ Move(Popper, "idle", "freeze")
              /\ UNCHANGED <<owner, q, frozen, ent, seen, pushed, popped>>
FreezeLock == /\ Move(Popper, "freeze", "set")
              /\ Lock(Popper)
              /\ UNCHANGED <<q, frozen, ent, seen, pushed, popped>>
tq_freeze  == /\ Move(Popper, "set", "signal")
              /\ frozen' = TRUE
              /\ UNCHANGED <<owner, q, ent, seen, pushed, popped>>

-----------------------------------------------------------------------------

Pushing(t) == PushLock(t) \/ PushAppend(t) \/ PushRefused(t) \/ PushLink(t)
              \/ Signal(t) \/ Unlock(t)

Popping == \/ PopCall \/ PopLock \/ PopLook \/ PopWait \/ PopWoken \/ PopAgain
           \/ PopNothing \/ PopTake \/ PopRemove
           \/ FreezeLock \/ tq_freeze \/ Signal(Popper) \/ Unlock(Popper)

QueueNext == \/ \E t \in Pusher : Pushing(t) \/ \E i \in Item : PushCall(t, i)
             \/ Popping \/ FreezeCall

QueueSpec == QueueInit /\ [][QueueNext]_queueVars

(* Calls end, and the popper, idle, pops again sooner or later.            *)
QueueFairness == /\ \A t \in Pusher : WF_queueVars(Pushing(t))
                 /\ WF_queueVars(Popping)

-----------------------------------------------------------------------------

(* Every variable has its type.                                            *)
QueueTypeOK == /\ at \in [User -> Place]
               /\ owner \in User \union {Nobody}
               /\ q \in Seq(Item)
               /\ frozen \in BOOLEAN
               /\ ent \in [User -> Item \union {NoItem}]
               /\ seen \in [User -> Seq(Item)]
               /\ pushed \subseteq Item
               /\ popped \in Seq(Item)

(* tq_pop waits once and not in a loop, and the sender of a pool ends the  *)
(* program when it returns NULL ("Stratum q returned empty work"): a       *)
(* signal must never reach it with nothing in the queue.                   *)
PopFindsItem == at[Popper] = "again" => q # <<>>

(* The popper never sleeps on over an item: one that waits was not         *)
(* signalled yet only if the thread that added the item is about to.       *)
NoItemOverlooked ==
  at[Popper] = "wait" /\ q # <<>> => \E t \in Pusher : at[t] = "signal"

(* The list under the mutex is the atomic queue its users reason with: no  *)
(* item is lost, doubled or out of order, however the calls overlap.       *)
Abstract == INSTANCE AtomicQueue WITH queue <- q, delivered <- popped, shut <- frozen
RefinesAtomicQueue == Abstract!Spec

(* An item that went in comes out, if the popper does not end.             *)
ItemsDelivered ==
  \A i \in Item : (\E n \in 1 .. Len(q) : q[n] = i)
                  ~> ((\E n \in 1 .. Len(popped) : popped[n] = i) \/ frozen)

=============================================================================
