---------------------------- MODULE StratumJobs -----------------------------
(***************************************************************************)
(* How a stratum pool's jobs become works: the receiver subscribes to a    *)
(* session, whose nonce1 it keeps, and parses the pool's notifies, each of *)
(* which puts a job and nonce1 into the coinbase; main makes works of it   *)
(* while stratum_active and stratum_notify are up.  data_lock guards the   *)
(* job, stratum_lock the connection, nothing the two together.             *)
(*                                                                         *)
(* The receiver is                                                         *)
(*   read       before it reads a line, in auth_stratum or after           *)
(*   parse flag   it has a notify; parse_notify returned, before           *)
(*              stratum_notify                                             *)
(*   test       before it looks at swork.clean                             *)
(*   restart    before restart_stratum                                     *)
(*   subscribe  in initiate_stratum, before its answer                     *)
(*   activate   before stratum_active                                      *)
(***************************************************************************)
EXTENDS Naturals, FiniteSets

CONSTANTS Job,         \* the jobs the pool may give
          NoJob,
          MaxSession,  \* bound: sessions the pool opens; 0 is no session
          MaxNonce     \* bound: nonce2

ASSUME JobsAssumption == NoJob \notin Job /\ MaxSession \in Nat /\ MaxNonce \in Nat

VARIABLES sessions,    \* how many sessions the pool opened
          nonce1,      \* pool->nonce1, by its session
          coinbase,    \* pool->coinbase and swork: job, and nonce1 of the time
          clean,       \* swork.clean
          nonce2,      \* pool->nonce2
          stratum_active, stratum_notify,
          receiver,    \* where it is
          line,        \* the notify it has
          maker,       \* main: it looks for work, will generate, has generated
          work,        \* main's work
          made,        \* ghost: nonce1, job and nonce2 of the works of the past
          offered,     \* the pool's jobs, and
          spent,       \* those it replaced for good
          overtaken,   \* ghost: the session was suspended since main's test, or
                       \* crossed as it made the work
          crossed      \* ghost: it was suspended between a notify and its flag

jobVars == <<coinbase, clean, nonce2>>
flagVars == <<stratum_active, stratum_notify>>
makerVars == <<maker, work, made, overtaken>>
poolVars == <<offered, spent>>
jobsVars == <<sessions, nonce1, jobVars, flagVars, receiver, line, makerVars, poolVars, crossed>>

NoLine == [job |-> NoJob, clean |-> FALSE, good |-> FALSE]
NoMade == [session |-> 0, nonce1 |-> 0, job |-> NoJob, nonce2 |-> 0]

JobsInit == /\ sessions = 0 /\ nonce1 = 0
            /\ coinbase = [session |-> 0, job |-> NoJob]
            /\ clean = FALSE /\ nonce2 = 0
            /\ stratum_active = FALSE /\ stratum_notify = FALSE
            /\ receiver = "subscribe" /\ line = NoLine
            /\ maker = "look" /\ work = NoMade
            /\ made = {} /\ offered = {} /\ spent = {}
            /\ overtaken = FALSE /\ crossed = FALSE

-----------------------------------------------------------------------------
(* The connection.                                                         *)

Goes(from, to) == receiver = from /\ receiver' = to

\* Faulty: the job of the old session stays usable.
SuspendKeepsNotify == /\ stratum_active' = FALSE /\ UNCHANGED stratum_notify
                      /\ overtaken' = (overtaken \/ maker = "generate")

__suspend_stratum == /\ stratum_active' = FALSE /\ stratum_notify' = FALSE
                     /\ overtaken' = (overtaken \/ maker = "generate")

\* A sender cannot send.
SenderSuspends == /\ stratum_active
                  /\ __suspend_stratum
                  /\ crossed' = (receiver \in {"parse", "flag"})
                  /\ UNCHANGED <<sessions, nonce1, jobVars, receiver, line, maker, work, made, poolVars>>

\* recv_line returned NULL, the pool asks for it, or the authorisation failed.
Interrupted == /\ Goes("read", "restart")
               /\ UNCHANGED <<sessions, nonce1, jobVars, flagVars, line, makerVars, poolVars, crossed>>

Restart == /\ Goes("restart", "subscribe")
           /\ IF stratum_active
              THEN __suspend_stratum /\ crossed' = FALSE
              ELSE UNCHANGED <<flagVars, overtaken, crossed>>
           /\ UNCHANGED <<sessions, nonce1, jobVars, line, maker, work, made, poolVars>>

\* The pool resumes the session or opens one.
Subscribed ==
  /\ Goes("subscribe", "activate")
  /\ \/ nonce1 # 0 /\ UNCHANGED <<sessions, nonce1>>
     \/ /\ sessions < MaxSession
        /\ sessions' = sessions + 1 /\ nonce1' = sessions + 1
  /\ UNCHANGED <<jobVars, flagVars, line, makerVars, poolVars, crossed>>

\* The pool will not resume: once more without a session.
NotResumed == /\ receiver = "subscribe" /\ nonce1 # 0
              /\ nonce1' = 0
              /\ UNCHANGED <<sessions, jobVars, flagVars, receiver, line, makerVars, poolVars, crossed>>

\* It does not answer: all starts again after 30 seconds.
SubscribeFails == /\ receiver = "subscribe"
                  /\ __suspend_stratum /\ crossed' = FALSE
                  /\ UNCHANGED <<sessions, nonce1, jobVars, receiver, line, maker, work, made, poolVars>>

Activate == /\ Goes("activate", "read")
            /\ stratum_active' = TRUE
            /\ UNCHANGED <<sessions, nonce1, jobVars, stratum_notify, line, makerVars, poolVars, crossed>>

-----------------------------------------------------------------------------
(* A notify.  The pool may give a job again; one that is to replace all    *)
(* others is new, and they do not come again.  No line outlives a          *)
(* suspension, which empties the buffer.                                   *)

ReadNotify == /\ stratum_active
              /\ Goes("read", "parse")
              /\ \E j \in Job \ spent, c, good \in BOOLEAN :
                   /\ line' = [job |-> j, clean |-> c, good |-> good]
                   /\ IF c THEN /\ j \notin offered
                                /\ offered' = {j} /\ spent' = spent \union offered
                           ELSE offered' = offered \union {j} /\ UNCHANGED spent
              /\ UNCHANGED <<sessions, nonce1, jobVars, flagVars, makerVars, crossed>>

TakeJob(reset) == /\ Goes("parse", "flag")
                  /\ IF line.good
                     THEN /\ coinbase' = [session |-> nonce1, job |-> line.job]
                          /\ clean' = line.clean
                          /\ nonce2' = IF reset THEN 0 ELSE nonce2
                     ELSE UNCHANGED jobVars
                  /\ crossed' = (crossed /\ ~(stratum_active /\ line.good))
                  /\ UNCHANGED <<sessions, nonce1, flagVars, line, makerVars, poolVars>>

\* Faulty: every job begins with 0.
RestartNonce == TakeJob(TRUE)

parse_notify == TakeJob(line.clean)

\* parse_method; a line that is no notify after all is not looked at further.
SetNotify == /\ Goes("flag", IF line.good THEN "test" ELSE "read")
             /\ stratum_notify' = line.good
             /\ line' = NoLine
             /\ UNCHANGED <<sessions, nonce1, jobVars, stratum_active, makerVars, poolVars, crossed>>

\* With clean the receiver makes a work, to tell of the block; it drops it.
TestClean == /\ Goes("test", "read")
             /\ IF clean
                THEN nonce2 < MaxNonce /\ nonce2' = nonce2 + 1 /\ clean' = FALSE
                ELSE UNCHANGED <<clean, nonce2>>
             /\ UNCHANGED <<sessions, nonce1, coinbase, flagVars, line, makerVars, poolVars, crossed>>

-----------------------------------------------------------------------------
(* Main.                                                                   *)

FindsActive == /\ maker = "look" /\ stratum_active /\ stratum_notify
               /\ maker' = "generate" /\ overtaken' = FALSE
               /\ UNCHANGED <<sessions, nonce1, jobVars, flagVars, receiver, line, work, made,
                              poolVars, crossed>>

gen_stratum_work == /\ maker = "generate" /\ nonce2 < MaxNonce
                    /\ maker' = "made"
                    /\ work' = [session |-> coinbase.session, nonce1 |-> nonce1,
                                job |-> coinbase.job, nonce2 |-> nonce2]
                    /\ nonce2' = nonce2 + 1
                    /\ overtaken' = (overtaken \/ crossed)
                    /\ UNCHANGED <<sessions, nonce1, coinbase, clean, flagVars, receiver, line,
                                   made, poolVars, crossed>>

StageMade == /\ maker = "made"
             /\ maker' = "look" /\ work' = NoMade
             /\ made' = made \union {[work EXCEPT !.nonce1 = 0]}
             /\ UNCHANGED <<sessions, nonce1, jobVars, flagVars, receiver, line, overtaken,
                            poolVars, crossed>>

-----------------------------------------------------------------------------

JobsNext == \/ SenderSuspends \/ Interrupted \/ Restart
            \/ Subscribed \/ NotResumed \/ SubscribeFails \/ Activate
            \/ ReadNotify \/ parse_notify \/ SetNotify \/ TestClean
            \/ FindsActive \/ gen_stratum_work \/ StageMade

JobsSpec == JobsInit /\ [][JobsNext]_jobsVars

-----------------------------------------------------------------------------
(* Properties.                                                             *)

(* Types.                                                                  *)
JobsTypeOK ==
  /\ sessions \in Nat /\ nonce1 \in 0 .. sessions
  /\ coinbase \in [session : 0 .. sessions, job : Job \union {NoJob}]
  /\ clean \in BOOLEAN /\ nonce2 \in 0 .. MaxNonce
  /\ stratum_active \in BOOLEAN /\ stratum_notify \in BOOLEAN
  /\ receiver \in {"read", "parse", "flag", "test", "restart", "subscribe", "activate"}
  /\ line \in [job : Job \union {NoJob}, clean : BOOLEAN, good : BOOLEAN]
  /\ maker \in {"look", "generate", "made"}
  /\ work \in [session : 0 .. sessions, nonce1 : 0 .. sessions, job : Job \union {NoJob},
               nonce2 : 0 .. MaxNonce]
  /\ offered \subseteq Job /\ spent \subseteq Job
  /\ overtaken \in BOOLEAN /\ crossed \in BOOLEAN

(* A work is of one session: the nonce1 it is submitted with is the one its*)
(* coinbase was hashed with, although the two are changed at different     *)
(* times and the flags tell main of it without a lock.  Not so if the      *)
(* session ends between main's test and the work, or, suspended by the     *)
(* sender, between the receiver's notify and its flag.                     *)
WorkOfOneSession ==
  /\ maker = "made" /\ ~overtaken
       => work.session = work.nonce1 /\ work.session # 0
  /\ stratum_active /\ stratum_notify /\ ~crossed => coinbase.session = nonce1

(* No two works look alike: of one session and job they differ in nonce2,  *)
(* though the pool gives a job again and sessions are resumed.             *)
DistinctStratumWork == maker = "made" => [work EXCEPT !.nonce1 = 0] \notin made

=============================================================================
