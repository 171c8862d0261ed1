------------------------------- MODULE CgLock -------------------------------
(***************************************************************************)
(* The cglock of miner.h: a pthread mutex in front of a pthread rwlock.    *)
(* Whoever wants to read or to write passes through the mutex; a writer    *)
(* keeps it, a reader only borrows it, so a waiting writer shuts the gate  *)
(* on later readers.  The third mode, "intermediate", owns the mutex alone *)
(* and can be promoted to write or demoted to read.                        *)
(*                                                                         *)
(* A thread is at a program counter between two pthread calls:             *)
(*   r1 w0 w1 u1   inside rlock, before the mutex of a wlock, inside a     *)
(*                 wlock, inside a ulock                                   *)
(*   d1 r2 x1      inside a dwlock, before the last mutex_unlock of an     *)
(*                 rlock or downgrade, before the mutex_unlock of wunlock  *)
(*   idle R I W    between two calls of the lock's interface               *)
(***************************************************************************)
EXTENDS Naturals, FiniteSets

CONSTANTS Thread,    \* the threads of the process
          NoThread   \* the owner of a free mutex

ASSUME NoThreadAssumption == NoThread \notin Thread

VARIABLES pc,        \* where each thread is
          mutex,     \* lock->mutex: its owner
          readers,   \* lock->rwlock: the threads that hold it for reading
          writer     \* lock->rwlock: the thread that holds it for writing

vars == <<pc, mutex, readers, writer>>

Location == {"idle", "r1", "r2", "R", "I", "u1", "w0", "w1", "W", "d1", "x1"}

Init == /\ pc = [t \in Thread |-> "idle"]
        /\ mutex = NoThread
        /\ readers = {}
        /\ writer = NoThread

-----------------------------------------------------------------------------
(* The pthread calls: each blocks until its guard holds.  rdlock does not  *)
(* look at waiting writers (the default rwlock prefers readers).           *)

Goto(t, from, to) == pc[t] = from /\ pc' = [pc EXCEPT ![t] = to]

MutexLock(t)   == mutex = NoThread /\ mutex' = t
MutexUnlock(t) == mutex = t /\ mutex' = NoThread

RdLock(t)   == writer = NoThread /\ readers' = readers \union {t}
RdUnlock(t) == readers' = readers \ {t}
WrLock(t)   == /\ writer = NoThread
               /\ readers = {}
               /\ writer' = t
WrUnlock(t) == writer' = NoThread

-----------------------------------------------------------------------------
(* The interface, one action per pthread call of each function.            *)

\* Variants with a bug, for the mutation runs: a reader that does not pass
\* through the mutex, a downgrade that opens the mutex first, a writer that
\* does not keep the mutex, a promotion straight from the read lock that
\* does not pass through the mutex, or that keeps the read lock.
RlockNoMutex(t)      == /\ Goto(t, "idle", "r1")
                        /\ UNCHANGED <<mutex, readers, writer>>
DwlockOpensMutex(t)  == /\ Goto(t, "W", "d1")
                        /\ WrUnlock(t)
                        /\ MutexUnlock(t)
                        /\ UNCHANGED readers
WlockDropsMutex(t)   == /\ Goto(t, "w0", "w1")
                        /\ UNCHANGED <<mutex, readers, writer>>
RuwlockNoMutex(t)    == /\ Goto(t, "R", "u1")
                        /\ RdUnlock(t)
                        /\ UNCHANGED <<mutex, writer>>
RuwlockKeepsRead(t)  == /\ Goto(t, "R", "w0")
                        /\ UNCHANGED <<mutex, readers, writer>>

RlockMutex(t)  == /\ Goto(t, "idle", "r1")
                  /\ MutexLock(t)
                  /\ UNCHANGED <<readers, writer>>
RlockRead(t)   == /\ Goto(t, "r1", "r2")
                  /\ RdLock(t)
                  /\ UNCHANGED <<mutex, writer>>
ReadGateOpen(t) == /\ Goto(t, "r2", "R")
                   /\ MutexUnlock(t)
                   /\ UNCHANGED <<readers, writer>>

Ilock(t)       == /\ Goto(t, "idle", "I")
                  /\ MutexLock(t)
                  /\ UNCHANGED <<readers, writer>>
UlockCall(t)   == /\ Goto(t, "I", "u1")
                  /\ UNCHANGED <<mutex, readers, writer>>
UlockWrite(t)  == /\ Goto(t, "u1", "W")
                  /\ WrLock(t)
                  /\ UNCHANGED <<mutex, readers>>
Dlock(t)       == /\ Goto(t, "I", "r2")
                  /\ RdLock(t)
                  /\ UNCHANGED <<mutex, writer>>

WlockCall(t)   == /\ Goto(t, "idle", "w0")
                  /\ UNCHANGED <<mutex, readers, writer>>
WlockMutex(t)  == /\ Goto(t, "w0", "w1")
                  /\ MutexLock(t)
                  /\ UNCHANGED <<readers, writer>>
WlockWrite(t)  == /\ Goto(t, "w1", "W")
                  /\ WrLock(t)
                  /\ UNCHANGED <<mutex, readers>>

DwlockRelease(t) == /\ Goto(t, "W", "d1")
                    /\ WrUnlock(t)
                    /\ UNCHANGED <<mutex, readers>>
DwlockRead(t)    == /\ Goto(t, "d1", "r2")
                    /\ RdLock(t)
                    /\ UNCHANGED <<mutex, writer>>
Dwilock(t)       == /\ Goto(t, "W", "I")
                    /\ WrUnlock(t)
                    /\ UNCHANGED <<mutex, readers>>

Runlock(t)     == /\ Goto(t, "R", "idle")
                  /\ RdUnlock(t)
                  /\ UNCHANGED <<mutex, writer>>
RuwlockDrop(t) == /\ Goto(t, "R", "w0")
                  /\ RdUnlock(t)
                  /\ UNCHANGED <<mutex, writer>>

WunlockWrite(t) == /\ Goto(t, "W", "x1")
                   /\ WrUnlock(t)
                   /\ UNCHANGED <<mutex, readers>>
WunlockMutex(t) == /\ Goto(t, "x1", "idle")
                   /\ MutexUnlock(t)
                   /\ UNCHANGED <<readers, writer>>

-----------------------------------------------------------------------------

(* Calls a thread makes of its own will; nothing obliges an idle thread to *)
(* ask for the lock.                                                       *)
Call(t) == RlockMutex(t) \/ Ilock(t) \/ WlockCall(t)

(* Everything else is the rest of a call under way, or the end of a        *)
(* critical section, all of which are finite.                              *)
Progress(t) ==
  \/ RlockRead(t) \/ ReadGateOpen(t) \/ UlockCall(t) \/ UlockWrite(t)
  \/ Dlock(t) \/ WlockMutex(t) \/ WlockWrite(t) \/ DwlockRelease(t)
  \/ DwlockRead(t) \/ Dwilock(t) \/ Runlock(t) \/ RuwlockDrop(t)
  \/ WunlockWrite(t) \/ WunlockMutex(t)

Next == \E t \in Thread : Call(t) \/ Progress(t)

Spec == Init /\ [][Next]_vars

FairSpec == Spec /\ \A t \in Thread : WF_vars(Progress(t))

-----------------------------------------------------------------------------

(* The pthread objects have their types, and the rwlock is never held for  *)
(* reading and for writing at once.                                        *)
TypeOK == /\ pc \in [Thread -> Location]
          /\ mutex \in Thread \union {NoThread}
          /\ readers \subseteq Thread
          /\ writer \in Thread \union {NoThread}
          /\ writer # NoThread => readers = {}

(* What the caller may assume it holds at each location.                   *)
Mode(l) == IF l = "W" THEN "write"
           ELSE IF l \in {"I", "u1", "d1"} THEN "intent"
           ELSE IF l \in {"r2", "R"} THEN "read"
           ELSE "none"

mode == [t \in Thread |-> Mode(pc[t])]

(* A thread in write mode is alone, and at most one thread is in           *)
(* intermediate mode, whatever promotions and downgrades led there.  The   *)
(* gap of cg_dwlock between wr_unlock and rd_lock counts as intermediate:  *)
(* no writer slips in.  (The release-then-acquire of cg_ruwlock gives no   *)
(* such promise.)                                                          *)
ModesCompatible ==
  \A t, u \in Thread : t # u =>
    /\ mode[t] = "write"  => mode[u] = "none"
    /\ mode[t] = "intent" => mode[u] # "intent"

(* While a thread waits for the rwlock inside cg_wlock or cg_ulock, the    *)
(* set of readers it waits for only shrinks: the mutex it holds shuts out  *)
(* later readers, which the reader-preferring rwlock alone would admit.    *)
ReadersOnlyDrain ==
  [][\A t \in Thread :
       pc[t] \in {"w1", "u1"} /\ pc'[t] = pc[t] => readers' \subseteq readers]_vars

(* A writer past the mutex is not starved: it gets the write lock.         *)
WriterProceeds ==
  \A t \in Thread : pc[t] \in {"w1", "u1"} ~> pc[t] = "W"

(* No deadlock: of the threads in a call or with the lock there is one     *)
(* whose next pthread call does not block, whatever the others wait for.   *)
Blocked(t) == \/ pc[t] = "w0" /\ mutex # NoThread
              \/ pc[t] \in {"r1", "d1"} /\ writer # NoThread
              \/ pc[t] \in {"w1", "u1"} /\ (writer # NoThread \/ readers # {})

NotAllBlocked ==
  (\E t \in Thread : pc[t] # "idle") => \E t \in Thread : pc[t] # "idle" /\ ~Blocked(t)

(* The atomic lock the callers reason with.                                *)
Atomic == INSTANCE AtomicLock WITH mode <- mode
RefinesAtomicLock == Atomic!Spec

=============================================================================
