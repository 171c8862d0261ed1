--------------------------- MODULE GetworkShares ----------------------------
(***************************************************************************)
(* The curl handles of a getwork pool: those of its ring are lent to the   *)
(* threads that submit a share each and to the main thread for its work,   *)
(* new ones are recruited up to a limit, unused ones are reaped.  A share  *)
(* is sent until the pool answers or the share is stale.                   *)
(*                                                                         *)
(* A thread is                                                             *)
(*   idle           not started; of the main thread, about other things    *)
(*   pop asleep     in pop_curl_entry: before it has pool_lock, in its wait*)
(*   call           before its JSON-RPC call                               *)
(*   failed         of a submit thread: before its tests; of the main      *)
(*                  thread: in its five seconds                            *)
(*   push           before push_curl_entry                                 *)
(*   done           ended                                                  *)
(***************************************************************************)
EXTENDS Naturals, Sequences, FiniteSets

CONSTANTS Share,      \* the shares, each with its submit thread
          Main,       \* the main thread
          Handle,     \* the curl handles there can be
          NoHandle,   \* a thread has none
          CurlLimit   \* curl_limit: 5 with opt_delaynet, else
                      \* (mining_threads + opt_queue) * 2

ASSUME CurlAssumption == /\ Main \notin Share
                         /\ NoHandle \notin Handle
                         /\ CurlLimit \in Nat \ {0}

Borrower == Share \union {Main}

VARIABLES ring,         \* pool->curlring
          curls,        \* pool->curls
          bpc,          \* where each thread is
          lent,         \* the handle it has
          aged,         \* the shares that are stale
          outcome,      \* what became of each share
          submit_fail,  \* pool->submit_fail
          opts          \* opt_lowmem, opt_submit_stale or pool->submit_old

curlVars == <<ring, curls, bpc, lent, aged, outcome, submit_fail, opts>>

CurlInit == /\ ring = <<>>
            /\ curls = 0
            /\ bpc = [t \in Borrower |-> "idle"]
            /\ lent = [t \in Borrower |-> NoHandle]
            /\ aged = {}
            /\ outcome = [s \in Share |-> "none"]
            /\ submit_fail = FALSE
            /\ opts \in [lowmem : BOOLEAN, submit_stale : BOOLEAN]

-----------------------------------------------------------------------------
(* The pool of handles.                                                    *)

GoTo(t, from, to) == bpc[t] = from /\ bpc' = [bpc EXCEPT ![t] = to]

Lent == {lent[t] : t \in Borrower} \ {NoHandle}
Idle == {ring[i] : i \in DOMAIN ring}

\* The first of the ring, or a new one: also if all were lent to others.
TakeHandle(t) ==
  /\ bpc' = [bpc EXCEPT ![t] = "call"]
  /\ \/ /\ curls > 0 /\ ring # <<>>
        /\ lent' = [lent EXCEPT ![t] = Head(ring)]
        /\ ring' = Tail(ring)
        /\ UNCHANGED curls
     \/ /\ curls = 0 \/ (ring = <<>> /\ curls < CurlLimit)
        /\ \E h \in Handle \ (Lent \union Idle) : lent' = [lent EXCEPT ![t] = h]
        /\ curls' = curls + 1
        /\ UNCHANGED ring

pop_curl_entry(t) ==
  /\ bpc[t] = "pop"
  /\ \/ TakeHandle(t)
     \/ /\ curls >= CurlLimit /\ ring = <<>>
        /\ bpc' = [bpc EXCEPT ![t] = "asleep"]
        /\ UNCHANGED <<ring, curls, lent>>
  /\ UNCHANGED <<aged, outcome, submit_fail, opts>>

\* pthread_cond_wait may return unasked; the test is made again.
SpuriousWakeup(t) == /\ GoTo(t, "asleep", "pop")
                     /\ UNCHANGED <<ring, curls, lent, aged, outcome, submit_fail, opts>>

GiveBack(t, wakes) ==
  /\ bpc[t] = "push"
  /\ ring' = Append(ring, lent[t])
  /\ lent' = [lent EXCEPT ![t] = NoHandle]
  /\ bpc' = [b \in Borrower |-> CASE b = t /\ t = Main -> "idle"
                                  [] b = t -> "done"
                                  [] bpc[b] = "asleep" /\ wakes -> "pop"
                                  [] OTHER -> bpc[b]]
  /\ UNCHANGED <<curls, aged, outcome, submit_fail, opts>>

\* Faulty: nobody is told.
PushSilently(t) == GiveBack(t, FALSE)

push_curl_entry(t) == GiveBack(t, TRUE)

\* Unused for 300 s: the ring is in the order of its pushes, so the first k.
\* One handle stays, here or lent.
reap_curl ==
  /\ \E k \in 1 .. Len(ring) : /\ curls > k
                               /\ ring' = SubSeq(ring, k + 1, Len(ring))
                               /\ curls' = curls - k
  /\ UNCHANGED <<bpc, lent, aged, outcome, submit_fail, opts>>

-----------------------------------------------------------------------------
(* A share.                                                                *)

Settle(s, as) == outcome' = [outcome EXCEPT ![s] = IF @ = "none" THEN as ELSE "twice"]

\* The block changes, or the work's time is over: nothing goes back.
Age(s) == /\ s \notin aged
          /\ aged' = aged \union {s}
          /\ UNCHANGED <<ring, curls, bpc, lent, outcome, submit_fail, opts>>

submit_work_async(s) ==
  /\ \/ /\ s \notin aged \/ opts.submit_stale
        /\ GoTo(s, "idle", "pop")
        /\ UNCHANGED outcome
     \/ /\ s \in aged /\ ~opts.submit_stale
        /\ GoTo(s, "idle", "done")
        /\ Settle(s, "stale")
  /\ UNCHANGED <<ring, curls, lent, aged, submit_fail, opts>>

\* submit_upstream_work: the pool answers, or the call fails.
Answered(s) == /\ GoTo(s, "call", "push")
               /\ Settle(s, "result")
               /\ submit_fail' = FALSE
               /\ UNCHANGED <<ring, curls, lent, aged, opts>>

CallFails(s) == /\ GoTo(s, "call", "failed")
                /\ submit_fail' = TRUE
                /\ UNCHANGED <<ring, curls, lent, aged, outcome, opts>>

Discard(s) == /\ opts.lowmem
              /\ GoTo(s, "failed", "push")
              /\ Settle(s, "dropped")
              /\ UNCHANGED <<ring, curls, lent, aged, submit_fail, opts>>

BecameStale(s) == /\ ~opts.lowmem /\ s \in aged
                  /\ GoTo(s, "failed", "push")
                  /\ Settle(s, "stale")
                  /\ UNCHANGED <<ring, curls, lent, aged, submit_fail, opts>>

\* Faulty: no work is too old.
RetryForever(s) == /\ ~opts.lowmem
                   /\ GoTo(s, "failed", "call")
                   /\ UNCHANGED <<ring, curls, lent, aged, outcome, submit_fail, opts>>

Retry(s) == /\ ~opts.lowmem /\ s \notin aged
            /\ GoTo(s, "failed", "call")
            /\ UNCHANGED <<ring, curls, lent, aged, outcome, submit_fail, opts>>

submit_work_thread(s) == \/ pop_curl_entry(s) \/ Answered(s) \/ CallFails(s) \/ Discard(s)
                         \/ BecameStale(s) \/ Retry(s) \/ push_curl_entry(s)

-----------------------------------------------------------------------------
(* The main thread: get_upstream_work, and the handle goes back after the  *)
(* work was staged or five seconds after the failure.                      *)

NeedWork == /\ GoTo(Main, "idle", "pop")
            /\ UNCHANGED <<ring, curls, lent, aged, outcome, submit_fail, opts>>

GotWork == /\ GoTo(Main, "call", "push")
           /\ UNCHANGED <<ring, curls, lent, aged, outcome, submit_fail, opts>>

GetFails == /\ GoTo(Main, "call", "failed")
            /\ UNCHANGED <<ring, curls, lent, aged, outcome, submit_fail, opts>>

GetFailed == /\ GoTo(Main, "failed", "push")
             /\ UNCHANGED <<ring, curls, lent, aged, outcome, submit_fail, opts>>

GetWork == pop_curl_entry(Main) \/ GotWork \/ GetFails \/ GetFailed \/ push_curl_entry(Main)

-----------------------------------------------------------------------------

CurlNext == \/ \E s \in Share : Age(s) \/ submit_work_async(s) \/ submit_work_thread(s)
            \/ \E t \in Borrower : SpuriousWakeup(t)
            \/ NeedWork \/ GetWork \/ reap_curl

(* Threads are scheduled, a call ends one way or the other, and shares grow*)
(* old: stale_work compares their age with a limit.                        *)
CurlFairness == /\ \A s \in Share : /\ WF_curlVars(Age(s))
                                    /\ WF_curlVars(submit_work_thread(s))
                /\ WF_curlVars(GetWork)

CurlSpec == CurlInit /\ [][CurlNext]_curlVars /\ CurlFairness

-----------------------------------------------------------------------------
(* Properties.                                                             *)

(* Types; every handle that is counted is in the ring or lent, to one      *)
(* thread, and there are no more than the limit.                           *)
HandlesConserved ==
  /\ ring \in Seq(Handle) /\ curls \in 0 .. CurlLimit
  /\ bpc \in [Borrower -> {"idle", "pop", "asleep", "call", "failed", "push", "done"}]
  /\ lent \in [Borrower -> Handle \union {NoHandle}]
  /\ \A t \in Borrower : lent[t] # NoHandle <=> bpc[t] \in {"call", "failed", "push"}
  /\ \A t, u \in Borrower : t # u /\ lent[t] # NoHandle => lent[t] # lent[u]
  /\ Lent \intersect Idle = {}
  /\ \A i, j \in DOMAIN ring : ring[i] = ring[j] => i = j
  /\ curls = Len(ring) + Cardinality(Lent)

(* Nobody sleeps for a handle while one is idle or nobody has any: the     *)
(* thread that has one will wake the sleepers.                             *)
SleepersHaveAWaker ==
  (\E t \in Borrower : bpc[t] = "asleep") => ring = <<>> /\ Lent # {}

(* A share is settled once: as the pool's answer, as stale or dropped.     *)
SettledOnce == \A s \in Share : /\ outcome[s] # "twice"
                                /\ bpc[s] \in {"push", "done"} <=> outcome[s] # "none"

(* Every share that is submitted is settled and its thread ends, though    *)
(* the pool never answers and handles are few: each retries only while its *)
(* work is not stale, and gives its handle back.                           *)
SharesSettle == \A s \in Share : bpc[s] = "pop" ~> bpc[s] = "done"

=============================================================================
