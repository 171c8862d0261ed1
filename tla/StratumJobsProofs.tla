------------------------- MODULE StratumJobsProofs --------------------------
(***************************************************************************)
(* For any number of jobs, sessions and works: a work is of one session,   *)
(* and no two works look alike.                                            *)
(*                                                                         *)
(* The first rests on what the flags mean while no lock ties them to the   *)
(* job (FlagsOK); the second on nonce2 being beyond that of every work     *)
(* whose job the pool may still give, or has given last (Beyond).          *)
(***************************************************************************)
EXTENDS StratumJobs, TLAPS

Pending == maker = "made"

FlagsOK ==
  /\ receiver \in {"subscribe", "activate"} => ~stratum_active
  /\ stratum_active \/ receiver = "activate" => nonce1 # 0
  /\ receiver = "flag" /\ line.good => coinbase.session = nonce1
  /\ receiver \in {"parse", "flag"} /\ ~stratum_active => crossed
  /\ stratum_notify /\ ~stratum_active => crossed
  /\ stratum_notify /\ stratum_active /\ ~crossed => coinbase.session = nonce1
  /\ maker = "generate" /\ ~overtaken =>
       stratum_active /\ (~crossed => coinbase.session = nonce1)
  /\ Pending /\ ~overtaken => work.session = work.nonce1 /\ work.session # 0

(* The works there are or were.                                            *)
MadeTypes == made \subseteq [session : Nat, nonce1 : {0}, job : Job \union {NoJob}, nonce2 : Nat]

Spoken == offered \union spent

NewJob(w) == receiver = "parse" /\ line.clean => w.job # line.job

(* Of the work w: its job was given, and is not the one about to begin     *)
(* anew, and nonce2 is past it.                                            *)
Beyond(w) == /\ w.job \in Spoken /\ NewJob(w)
             /\ w.job \notin spent \/ w.job = coinbase.job => w.nonce2 < nonce2

JobsOK ==
  /\ coinbase.job \in Spoken \union {NoJob} /\ NewJob(coinbase)
  /\ receiver \in {"parse", "flag"} => line.job \in Spoken
  /\ receiver = "parse" => line.job \notin spent /\ (line.clean => offered = {line.job})
  /\ stratum_notify \/ (receiver = "flag" /\ line.good) \/ maker = "generate"
       => coinbase.job # NoJob
  /\ \A w \in made : Beyond(w)
  /\ Pending => Beyond(work)

IInv == JobsTypeOK /\ MadeTypes /\ FlagsOK /\ JobsOK /\ DistinctStratumWork

LEMMA InitOK == JobsInit => IInv
  <1> SUFFICES ASSUME JobsInit PROVE IInv
    OBVIOUS
  <1> USE DEF JobsInit
  <1>1. JobsTypeOK
    <2>1. 0 \in 0 .. MaxNonce /\ 0 \in 0 .. sessions
      BY JobsAssumption
    <2>2. NoLine \in [job : Job \union {NoJob}, clean : BOOLEAN, good : BOOLEAN]
      BY DEF NoLine
    <2>3. /\ coinbase \in [session : 0 .. sessions, job : Job \union {NoJob}]
          /\ work \in [session : 0 .. sessions, nonce1 : 0 .. sessions, job : Job \union {NoJob},
                       nonce2 : 0 .. MaxNonce]
      BY <2>1 DEF NoMade
    <2> QED BY <2>1, <2>2, <2>3 DEF JobsTypeOK
  <1>2. MadeTypes /\ FlagsOK
    BY DEF MadeTypes, FlagsOK, Pending
  <1>3. JobsOK /\ DistinctStratumWork
    BY DEF JobsOK, Spoken, NewJob, Pending, DistinctStratumWork
  <1> QED BY <1>1, <1>2, <1>3 DEF IInv

-----------------------------------------------------------------------------
(* The steps of the connection, which touch neither jobs nor works.        *)

LEMMA SenderSuspendsOK == ASSUME IInv, SenderSuspends PROVE IInv'
  <1> USE DEF SenderSuspends, __suspend_stratum, jobVars, flagVars, makerVars, poolVars
  <1>1. JobsTypeOK' /\ MadeTypes'
    <2>1. overtaken' \in BOOLEAN /\ crossed' \in BOOLEAN
      BY DEF IInv, JobsTypeOK
    <2>2. sessions' = sessions
      OBVIOUS
    <2> QED BY <2>1, <2>2 DEF IInv, JobsTypeOK, MadeTypes
  <1>2. FlagsOK'
    BY DEF IInv, JobsTypeOK, FlagsOK, Pending
  <1>3. JobsOK' /\ DistinctStratumWork'
    BY DEF IInv, JobsTypeOK, MadeTypes, JobsOK, Beyond, NewJob, Spoken, Pending, DistinctStratumWork
  <1> QED BY <1>1, <1>2, <1>3 DEF IInv

LEMMA InterruptedOK == ASSUME IInv, Interrupted PROVE IInv'
  <1> USE DEF Interrupted, Goes, jobVars, flagVars, makerVars, poolVars
  <1>1. JobsTypeOK' /\ MadeTypes'
    BY JobsAssumption DEF IInv, JobsTypeOK, MadeTypes
  <1>2. FlagsOK'
    BY DEF IInv, JobsTypeOK, FlagsOK, Pending
  <1>3. JobsOK' /\ DistinctStratumWork'
    BY DEF IInv, JobsTypeOK, MadeTypes, JobsOK, Beyond, NewJob, Spoken, Pending, DistinctStratumWork
  <1> QED BY <1>1, <1>2, <1>3 DEF IInv

LEMMA RestartOK == ASSUME IInv, Restart PROVE IInv'
  <1> USE DEF Restart, Goes, __suspend_stratum, jobVars, flagVars, makerVars, poolVars
  <1>1. JobsTypeOK' /\ MadeTypes'
    BY JobsAssumption DEF IInv, JobsTypeOK, MadeTypes
  <1>2. FlagsOK'
    BY DEF IInv, JobsTypeOK, FlagsOK, Pending
  <1>3. JobsOK' /\ DistinctStratumWork'
    BY DEF IInv, JobsTypeOK, MadeTypes, JobsOK, Beyond, NewJob, Spoken, Pending, DistinctStratumWork
  <1> QED BY <1>1, <1>2, <1>3 DEF IInv

LEMMA SubscribedOK == ASSUME IInv, Subscribed PROVE IInv'
  <1> USE DEF Subscribed, Goes, jobVars, flagVars, makerVars, poolVars
  <1>1. JobsTypeOK' /\ MadeTypes'
    BY JobsAssumption DEF IInv, JobsTypeOK, MadeTypes
  <1>2. FlagsOK'
    BY DEF IInv, JobsTypeOK, FlagsOK, Pending
  <1>3. JobsOK' /\ DistinctStratumWork'
    BY DEF IInv, JobsTypeOK, MadeTypes, JobsOK, Beyond, NewJob, Spoken, Pending, DistinctStratumWork
  <1> QED BY <1>1, <1>2, <1>3 DEF IInv

LEMMA NotResumedOK == ASSUME IInv, NotResumed PROVE IInv'
  <1> USE DEF NotResumed, jobVars, flagVars, makerVars, poolVars
  <1>1. JobsTypeOK' /\ MadeTypes'
    BY JobsAssumption DEF IInv, JobsTypeOK, MadeTypes
  <1>2. FlagsOK'
    BY DEF IInv, JobsTypeOK, FlagsOK, Pending
  <1>3. JobsOK' /\ DistinctStratumWork'
    BY DEF IInv, JobsTypeOK, MadeTypes, JobsOK, Beyond, NewJob, Spoken, Pending, DistinctStratumWork
  <1> QED BY <1>1, <1>2, <1>3 DEF IInv

LEMMA SubscribeFailsOK == ASSUME IInv, SubscribeFails PROVE IInv'
  <1> USE DEF SubscribeFails, __suspend_stratum, jobVars, flagVars, makerVars, poolVars
  <1>1. JobsTypeOK' /\ MadeTypes'
    BY JobsAssumption DEF IInv, JobsTypeOK, MadeTypes
  <1>2. FlagsOK'
    BY DEF IInv, JobsTypeOK, FlagsOK, Pending
  <1>3. JobsOK' /\ DistinctStratumWork'
    BY DEF IInv, JobsTypeOK, MadeTypes, JobsOK, Beyond, NewJob, Spoken, Pending, DistinctStratumWork
  <1> QED BY <1>1, <1>2, <1>3 DEF IInv

LEMMA ActivateOK == ASSUME IInv, Activate PROVE IInv'
  <1> USE DEF Activate, Goes, jobVars, flagVars, makerVars, poolVars
  <1>1. JobsTypeOK' /\ MadeTypes'
    BY JobsAssumption DEF IInv, JobsTypeOK, MadeTypes
  <1>2. FlagsOK'
    BY DEF IInv, JobsTypeOK, FlagsOK, Pending
  <1>3. JobsOK' /\ DistinctStratumWork'
    BY DEF IInv, JobsTypeOK, MadeTypes, JobsOK, Beyond, NewJob, Spoken, Pending, DistinctStratumWork
  <1> QED BY <1>1, <1>2, <1>3 DEF IInv

LEMMA SetNotifyOK == ASSUME IInv, SetNotify PROVE IInv'
  <1> USE DEF SetNotify, Goes, NoLine, jobVars, flagVars, makerVars, poolVars
  <1>1. JobsTypeOK' /\ MadeTypes'
    <2>1. stratum_notify' \in BOOLEAN
      BY DEF IInv, JobsTypeOK
    <2> QED BY <2>1 DEF IInv, JobsTypeOK, MadeTypes
  <1>2. FlagsOK'
    BY DEF IInv, JobsTypeOK, FlagsOK, Pending
  <1>3. JobsOK' /\ DistinctStratumWork'
    BY DEF IInv, JobsTypeOK, MadeTypes, JobsOK, Beyond, NewJob, Spoken, Pending, DistinctStratumWork
  <1> QED BY <1>1, <1>2, <1>3 DEF IInv

LEMMA TestCleanOK == ASSUME IInv, TestClean PROVE IInv'
  <1> USE DEF TestClean, Goes, jobVars, flagVars, makerVars, poolVars
  <1>1. JobsTypeOK' /\ MadeTypes'
    <2>1. clean' \in BOOLEAN /\ nonce2' \in 0 .. MaxNonce
      <3>1. /\ clean \in BOOLEAN /\ nonce2 \in 0 .. MaxNonce
            /\ \/ clean' = FALSE /\ nonce2 < MaxNonce /\ nonce2' = nonce2 + 1
               \/ clean' = clean /\ nonce2' = nonce2
        BY DEF IInv, JobsTypeOK
      <3>2. clean' \in BOOLEAN
        BY <3>1, Zenon
      <3>3. nonce2' \in 0 .. MaxNonce
        <4>1. nonce2' = nonce2 \/ (nonce2 < MaxNonce /\ nonce2' = nonce2 + 1)
          BY <3>1, Zenon
        <4> HIDE DEF TestClean
        <4> QED BY <3>1, <4>1, JobsAssumption
      <3> QED BY <3>2, <3>3
    <2> QED BY <2>1 DEF IInv, JobsTypeOK, MadeTypes
  <1>2. FlagsOK'
    BY DEF IInv, JobsTypeOK, FlagsOK, Pending
  <1>3. JobsOK' /\ DistinctStratumWork'
    BY DEF IInv, JobsTypeOK, MadeTypes, JobsOK, Beyond, NewJob, Spoken, Pending, DistinctStratumWork
  <1> QED BY <1>1, <1>2, <1>3 DEF IInv

LEMMA FindsActiveOK == ASSUME IInv, FindsActive PROVE IInv'
  <1> USE DEF FindsActive, jobVars, flagVars, makerVars, poolVars
  <1>1. JobsTypeOK' /\ MadeTypes'
    BY JobsAssumption DEF IInv, JobsTypeOK, MadeTypes
  <1>2. FlagsOK'
    BY DEF IInv, JobsTypeOK, FlagsOK, Pending
  <1>3. JobsOK' /\ DistinctStratumWork'
    BY DEF IInv, JobsTypeOK, MadeTypes, JobsOK, Beyond, NewJob, Spoken, Pending, DistinctStratumWork
  <1> QED BY <1>1, <1>2, <1>3 DEF IInv

-----------------------------------------------------------------------------
(* The steps of the jobs and the works.                                    *)

(* A job that replaces the others was never given: no work has it.         *)
LEMMA ReadNotifyOK == ASSUME IInv, ReadNotify PROVE IInv'
  <1> USE DEF Goes
  <1> PICK j \in Job \ spent, c \in BOOLEAN, good \in BOOLEAN :
        /\ line' = [job |-> j, clean |-> c, good |-> good]
        /\ IF c THEN /\ j \notin offered
                     /\ offered' = {j} /\ spent' = spent \union offered
                ELSE offered' = offered \union {j} /\ UNCHANGED spent
    BY DEF ReadNotify
  <1>1. /\ UNCHANGED <<sessions, nonce1, coinbase, clean, nonce2, stratum_active,
                       stratum_notify, maker, work, made, overtaken, crossed>>
        /\ receiver = "read" /\ receiver' = "parse" /\ stratum_active
    BY DEF ReadNotify, jobVars, flagVars, makerVars
  <1>2. /\ line'.job = j /\ line'.clean = c
        /\ line' \in [job : Job \union {NoJob}, clean : BOOLEAN, good : BOOLEAN]
    OBVIOUS
  <1>3. /\ offered' \subseteq Job /\ spent' \subseteq Job
        /\ Spoken' = Spoken \union {j} /\ spent \subseteq spent'
        /\ c => j \notin Spoken /\ offered' = {j}
        /\ j \notin spent'
    BY DEF IInv, JobsTypeOK, Spoken
  <1>4. JobsTypeOK' /\ MadeTypes'
    BY <1>1, <1>2, <1>3 DEF IInv, JobsTypeOK, MadeTypes
  <1>5. FlagsOK'
    BY <1>1 DEF IInv, FlagsOK, Pending
  <1>6. j \in Job /\ j # NoJob
    BY JobsAssumption
  <1>7. NewJob(coinbase)'
    BY <1>1, <1>2, <1>3, <1>6 DEF NewJob, IInv, JobsOK
  <1>8. ASSUME NEW w, Beyond(w)
        PROVE  w.job \in Spoken' /\ (line'.clean => w.job # line'.job)
               /\ (w.job \notin spent' \/ w.job = coinbase'.job => w.nonce2 < nonce2')
    BY <1>1, <1>2, <1>3, <1>8 DEF Beyond
  <1>9. JobsOK'
    BY <1>1, <1>2, <1>3, <1>7, <1>8 DEF IInv, JobsOK, Beyond, NewJob, Pending
  <1>10. DistinctStratumWork'
    BY <1>1 DEF IInv, DistinctStratumWork
  <1> QED BY <1>4, <1>5, <1>9, <1>10 DEF IInv

(* With a job that replaces the others nonce2 begins anew, and those are   *)
(* spent.                                                                  *)
LEMMA parse_notifyOK == ASSUME IInv, parse_notify PROVE IInv'
  <1> USE DEF Goes
  <1>1. /\ UNCHANGED <<sessions, nonce1, stratum_active, stratum_notify, line, maker, work, made,
                       overtaken, offered, spent>>
        /\ receiver = "parse" /\ receiver' = "flag"
        /\ crossed' = (crossed /\ ~(stratum_active /\ line.good))
    BY DEF parse_notify, TakeJob, flagVars, makerVars, poolVars
  <1>2. CASE line.good
    <2>1. /\ coinbase' = [session |-> nonce1, job |-> line.job] /\ clean' = line.clean
          /\ nonce2' = IF line.clean THEN 0 ELSE nonce2
      BY <1>2 DEF parse_notify, TakeJob
    <2>2. crossed' \in BOOLEAN /\ clean' \in BOOLEAN /\ nonce2' \in 0 .. MaxNonce
      BY <1>1, <2>1, JobsAssumption DEF IInv, JobsTypeOK
    <2>3. JobsTypeOK' /\ MadeTypes'
      BY <1>1, <2>1, <2>2 DEF IInv, JobsTypeOK, MadeTypes
    <2>4. FlagsOK'
      BY <1>1, <1>2, <2>1 DEF IInv, FlagsOK, Pending
    <2>5. /\ line.job \in Spoken /\ line.job # NoJob
      BY <1>1, JobsAssumption DEF IInv, JobsOK, Spoken, JobsTypeOK
    <2>6. ASSUME NEW w, Beyond(w) PROVE Beyond(w)'
      <3>1. CASE line.clean
        <4>1. w.job # line.job /\ w.job \in spent
          BY <1>1, <2>6, <3>1 DEF Beyond, NewJob, IInv, JobsOK, Spoken
        <4> QED BY <1>1, <2>1, <2>6, <4>1 DEF Beyond, NewJob, Spoken
      <3>2. CASE ~line.clean
        <4>1. w.job = line.job => w.job \notin spent \/ w.job = coinbase.job
          BY <1>1, <3>2 DEF IInv, JobsOK
        <4> QED BY <1>1, <2>1, <2>6, <3>2, <4>1 DEF Beyond, NewJob, Spoken
      <3> QED BY <3>1, <3>2
    <2>7. JobsOK'
      BY <1>1, <2>1, <2>5, <2>6 DEF IInv, JobsOK, NewJob, Spoken, Pending
    <2>8. DistinctStratumWork'
      BY <1>1 DEF IInv, DistinctStratumWork
    <2> QED BY <2>3, <2>4, <2>7, <2>8 DEF IInv
  <1>3. CASE ~line.good
    <2>1. UNCHANGED <<coinbase, clean, nonce2>>
      BY <1>3 DEF parse_notify, TakeJob, jobVars
    <2>2. crossed' \in BOOLEAN
      BY <1>1, <1>3 DEF IInv, JobsTypeOK
    <2>3. JobsTypeOK' /\ MadeTypes'
      BY <1>1, <2>1, <2>2 DEF IInv, JobsTypeOK, MadeTypes
    <2>4. FlagsOK'
      BY <1>1, <1>3, <2>1 DEF IInv, FlagsOK, Pending
    <2>5. JobsOK' /\ DistinctStratumWork'
      BY <1>1, <1>3, <2>1 DEF IInv, JobsOK, Beyond, NewJob, Spoken, Pending, DistinctStratumWork
    <2> QED BY <2>3, <2>4, <2>5 DEF IInv
  <1> QED BY <1>2, <1>3

(* The work takes nonce2, and nonce2 goes on.                              *)
LEMMA gen_stratum_workOK == ASSUME IInv, gen_stratum_work PROVE IInv'
  <1>1. /\ UNCHANGED <<sessions, nonce1, coinbase, clean, stratum_active, stratum_notify, receiver,
                       line, made, offered, spent, crossed>>
        /\ maker = "generate" /\ maker' = "made" /\ nonce2 < MaxNonce /\ nonce2' = nonce2 + 1
        /\ work' = [session |-> coinbase.session, nonce1 |-> nonce1, job |-> coinbase.job,
                    nonce2 |-> nonce2]
        /\ overtaken' = (overtaken \/ crossed)
    BY DEF gen_stratum_work, flagVars, poolVars
  <1>2. /\ overtaken' \in BOOLEAN /\ nonce2 \in Nat /\ nonce2' \in 0 .. MaxNonce
        /\ work' \in [session : 0 .. sessions, nonce1 : 0 .. sessions, job : Job \union {NoJob},
                      nonce2 : 0 .. MaxNonce]
        /\ work'.job = coinbase.job /\ work'.nonce2 = nonce2
        /\ work'.session = coinbase.session /\ work'.nonce1 = nonce1
    BY <1>1, JobsAssumption DEF IInv, JobsTypeOK
  <1>3. JobsTypeOK' /\ MadeTypes'
    BY <1>1, <1>2 DEF IInv, JobsTypeOK, MadeTypes
  <1>4. FlagsOK'
    BY <1>1, <1>2 DEF IInv, FlagsOK, Pending
  <1>5. ASSUME NEW w \in made
        PROVE  Beyond(w)' /\ (w.job = coinbase.job => w.nonce2 # nonce2)
    <2>1. w.nonce2 \in Nat /\ Beyond(w)
      BY DEF IInv, MadeTypes, JobsOK
    <2> QED BY <1>1, <1>2, <2>1 DEF Beyond, NewJob, Spoken
  <1>6. Beyond(work)'
    BY <1>1, <1>2 DEF IInv, JobsOK, Beyond, NewJob, Spoken
  <1>7. JobsOK'
    BY <1>1, <1>5, <1>6 DEF IInv, JobsOK, NewJob, Spoken, Pending
  <1>8. DistinctStratumWork'
    <2>1. [work' EXCEPT !.nonce1 = 0].job = coinbase.job
          /\ [work' EXCEPT !.nonce1 = 0].nonce2 = nonce2
      BY <1>2
    <2> QED BY <1>1, <1>5, <2>1 DEF DistinctStratumWork
  <1> QED BY <1>3, <1>4, <1>7, <1>8 DEF IInv

LEMMA StageMadeOK == ASSUME IInv, StageMade PROVE IInv'
  <1> DEFINE new == [work EXCEPT !.nonce1 = 0]
  <1>1. /\ UNCHANGED <<sessions, nonce1, coinbase, clean, nonce2, stratum_active, stratum_notify,
                       receiver, line, overtaken, offered, spent, crossed>>
        /\ maker = "made" /\ maker' = "look" /\ work' = NoMade
        /\ made' = made \union {new}
    BY DEF StageMade, jobVars, flagVars, poolVars
  <1>2. /\ new \in [session : Nat, nonce1 : {0}, job : Job \union {NoJob}, nonce2 : Nat]
        /\ new.job = work.job /\ new.nonce2 = work.nonce2
    BY JobsAssumption DEF IInv, JobsTypeOK
  <1> HIDE DEF new
  <1>3. work' \in [session : 0 .. sessions, nonce1 : 0 .. sessions, job : Job \union {NoJob},
                   nonce2 : 0 .. MaxNonce]
    BY <1>1, JobsAssumption DEF NoMade, IInv, JobsTypeOK
  <1>4. JobsTypeOK' /\ MadeTypes'
    BY <1>1, <1>2, <1>3 DEF IInv, JobsTypeOK, MadeTypes
  <1>5. FlagsOK' /\ DistinctStratumWork'
    BY <1>1 DEF IInv, FlagsOK, Pending, DistinctStratumWork
  <1>6. \A w \in made' : Beyond(w)'
    BY <1>1, <1>2 DEF IInv, JobsOK, Pending, Beyond, NewJob, Spoken
  <1>7. JobsOK'
    BY <1>1, <1>6 DEF IInv, JobsOK, NewJob, Spoken, Pending
  <1> QED BY <1>4, <1>5, <1>7 DEF IInv

LEMMA NothingOK == ASSUME IInv, UNCHANGED jobsVars PROVE IInv'
  <1> USE DEF jobsVars, jobVars, flagVars, makerVars, poolVars
  <1>1. JobsTypeOK' /\ MadeTypes' /\ FlagsOK'
    BY DEF IInv, JobsTypeOK, MadeTypes, FlagsOK, Pending
  <1>2. JobsOK' /\ DistinctStratumWork'
    BY DEF IInv, JobsOK, Beyond, NewJob, Spoken, Pending, DistinctStratumWork
  <1> QED BY <1>1, <1>2 DEF IInv

-----------------------------------------------------------------------------

LEMMA StepOK == IInv /\ [JobsNext]_jobsVars => IInv'
  BY SenderSuspendsOK, InterruptedOK, RestartOK, SubscribedOK, NotResumedOK, SubscribeFailsOK,
     ActivateOK, ReadNotifyOK, parse_notifyOK, SetNotifyOK, TestCleanOK, FindsActiveOK,
     gen_stratum_workOK, StageMadeOK, NothingOK, Zenon DEF JobsNext

LEMMA Invariant == JobsSpec => []IInv
  BY InitOK, StepOK, PTL DEF JobsSpec

(* The job, the flags, the receiver and the works keep their types.        *)
THEOREM TypeCorrect == JobsSpec => []JobsTypeOK
  BY Invariant, PTL DEF IInv

(* A work is submitted with the nonce1 it was hashed with, unless the      *)
(* session ended between main's test and the work or between a notify and  *)
(* its flag.                                                               *)
THEOREM OneSession == JobsSpec => []WorkOfOneSession
  <1>1. IInv => WorkOfOneSession
    BY DEF IInv, FlagsOK, Pending, WorkOfOneSession
  <1> QED BY <1>1, Invariant, PTL

(* No two works look alike, whatever jobs the pool gives again and however *)
(* often the session is lost, resumed or opened anew.                      *)
THEOREM Distinct == JobsSpec => []DistinctStratumWork
  BY Invariant, PTL DEF IInv

=============================================================================
