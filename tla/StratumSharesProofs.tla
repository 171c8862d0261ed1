------------------------ MODULE StratumSharesProofs ------------------------
(***************************************************************************)
(* For any number of shares, retries, sessions and unread lines, each      *)
(* share of a stratum pool is in one place, none leaks and none is freed   *)
(* uncounted.                                                              *)
(*                                                                         *)
(* The places a share can be in are the queue, the sender, the table and   *)
(* the receiver.  Most steps only change what the threads and the socket   *)
(* are doing (OthersStay); each of the nine kinds of step in Moves takes   *)
(* a share from one place to the next or frees it.                         *)
(***************************************************************************)
EXTENDS StratumShares, FiniteSetTheorems, SequenceTheorems, TLAPS

ShareTypes ==
  /\ mem \in [Share -> {"none", "live", "freed"}]
  /\ counted \in [Share -> Nat]
  /\ n1 \in [Share -> 0 .. MaxSession]
  /\ dropped \subseteq Share

TableTypes ==
  /\ stratum_shares \subseteq Share
  /\ IsFiniteSet(stratum_shares)
  /\ sshares \in Nat /\ sshares = Cardinality(stratum_shares)

PoolTypes ==
  /\ sessionid \in BOOLEAN
  /\ nonce1 \in 0 .. MaxSession /\ session \in 1 .. MaxSession

QueueTypes == stratum_q \in Seq(Share) /\ frozen \in BOOLEAN

ThreadTypes ==
  /\ spc \in {"pop", "send", "suspend", "failed", "sleep", "add", "stamp", "next", "exit"}
  /\ tries \in 0 .. MaxTries
  /\ scur \in Share \union {NoShare}
  /\ rpc \in {"recv", "result", "clear", "parked", "lost", "restart", "subscribe", "resend",
              "resubscribe", "authorize", "authwait", "dead", "exit"}
  /\ rcur \in Share \union {NoShare}

Holders == SenderOwns \subseteq Share /\ Answered \subseteq Share

SockTypes ==
  /\ stratum_active \in BOOLEAN /\ up \in BOOLEAN
  /\ c2s \in Seq(Share \union {"auth"}) /\ s2c \in Seq(Lines)

EnvTypes == removed \in BOOLEAN /\ needed \in {"yes", "shares", "no"}

Types == /\ ShareTypes /\ TableTypes /\ PoolTypes /\ QueueTypes
         /\ ThreadTypes /\ Holders /\ SockTypes /\ EnvTypes

IInv == Types /\ OneOwner /\ NoLeak

(* The steps that take a share from one place to another.                  *)
Moves == \/ \E s \in Share : Submit(s)
         \/ SPop \/ SRefuse \/ SGiveUp \/ SAdd
         \/ RFound \/ RResult \/ RLostClear \/ RParkClear

-----------------------------------------------------------------------------
(* The queue as a set.                                                     *)

(* tq_push adds the share at the end.                                      *)
LEMMA Pushed ==
  ASSUME NEW s \in Share, stratum_q \in Seq(Share), stratum_q' = Append(stratum_q, s)
  PROVE  /\ Queued' = Queued \union {s}
         /\ (/\ \A i, j \in DOMAIN stratum_q : stratum_q[i] = stratum_q[j] => i = j
             /\ s \notin Queued)
            => \A i, j \in DOMAIN stratum_q' : stratum_q'[i] = stratum_q'[j] => i = j
  <1> DEFINE n == Len(stratum_q)
  <1>1. /\ n \in Nat /\ DOMAIN stratum_q = 1 .. n
        /\ stratum_q' \in Seq(Share) /\ Len(stratum_q') = n + 1
        /\ \A i \in 1 .. n : stratum_q'[i] = stratum_q[i]
        /\ stratum_q'[n + 1] = s
    BY LenProperties, AppendProperties
  <1>2. DOMAIN stratum_q' = 1 .. (n + 1)
    BY <1>1, LenProperties
  <1> HIDE DEF n
  <1>3. Queued' = Queued \union {s}
    BY <1>1, <1>2 DEF Queued
  <1>4. ASSUME \A i, j \in DOMAIN stratum_q : stratum_q[i] = stratum_q[j] => i = j,
               s \notin Queued,
               NEW i \in DOMAIN stratum_q', NEW j \in DOMAIN stratum_q',
               stratum_q'[i] = stratum_q'[j]
        PROVE  i = j
    BY <1>1, <1>2, <1>4 DEF Queued
  <1> QED BY <1>3, <1>4

(* tq_pop takes the share at the head, which is not queued again.          *)
LEMMA Popped ==
  ASSUME stratum_q \in Seq(Share), stratum_q # <<>>, stratum_q' = Tail(stratum_q)
  PROVE  /\ Head(stratum_q) \in Queued /\ Queued = Queued' \union {Head(stratum_q)}
         /\ (\A i, j \in DOMAIN stratum_q : stratum_q[i] = stratum_q[j] => i = j)
            => /\ Head(stratum_q) \notin Queued'
               /\ \A i, j \in DOMAIN stratum_q' : stratum_q'[i] = stratum_q'[j] => i = j
  <1> DEFINE n == Len(stratum_q)
  <1>1. /\ n \in Nat \ {0} /\ DOMAIN stratum_q = 1 .. n
        /\ stratum_q' \in Seq(Share) /\ Len(stratum_q') = n - 1
        /\ \A i \in 1 .. n - 1 : stratum_q'[i] = stratum_q[i + 1]
        /\ Head(stratum_q) = stratum_q[1]
    BY LenProperties, HeadTailProperties, EmptySeq
  <1>2. DOMAIN stratum_q' = 1 .. (n - 1)
    BY <1>1, LenProperties
  <1> HIDE DEF n
  <1>3. Queued' = {stratum_q[i] : i \in 2 .. n}
    <2>1. Queued' \subseteq {stratum_q[i] : i \in 2 .. n}
      BY <1>1, <1>2 DEF Queued
    <2>2. ASSUME NEW i \in 2 .. n PROVE stratum_q[i] \in Queued'
      <3>1. i - 1 \in 1 .. n - 1 /\ stratum_q'[i - 1] = stratum_q[i]
        BY <1>1, i - 1 \in 1 .. n - 1, (i - 1) + 1 = i
      <3> QED BY <3>1, <1>2 DEF Queued
    <2> QED BY <2>1, <2>2
  <1>4. Queued = {stratum_q[i] : i \in 1 .. n}
    BY <1>1 DEF Queued
  <1>5. Head(stratum_q) \in Queued /\ Queued = Queued' \union {Head(stratum_q)}
    <2>1. 1 \in 1 .. n /\ (2 .. n) \subseteq 1 .. n /\ \A i \in 1 .. n : i = 1 \/ i \in 2 .. n
      BY <1>1
    <2> QED BY <1>1, <1>3, <1>4, <2>1
  <1>6. ASSUME \A i, j \in DOMAIN stratum_q : stratum_q[i] = stratum_q[j] => i = j
        PROVE  Head(stratum_q) \notin Queued'
    BY <1>1, <1>3, <1>6
  <1>7. ASSUME \A i, j \in DOMAIN stratum_q : stratum_q[i] = stratum_q[j] => i = j,
               NEW i \in DOMAIN stratum_q', NEW j \in DOMAIN stratum_q',
               stratum_q'[i] = stratum_q'[j]
        PROVE  i = j
    <2>1. i + 1 \in DOMAIN stratum_q /\ j + 1 \in DOMAIN stratum_q
      BY <1>1, <1>2
    <2>2. stratum_q[i + 1] = stratum_q[j + 1]
      BY <1>1, <1>2, <1>7
    <2>3. i + 1 = j + 1
      BY <2>1, <2>2, <1>7
    <2> QED BY <2>3, <1>2, <1>1
  <1> QED BY <1>5, <1>6, <1>7

-----------------------------------------------------------------------------

(* Every step but the moves leaves the shares where they are.              *)
LEMMA OthersStay ==
  ASSUME Next, ~Moves
  PROVE  UNCHANGED <<mem, dropped, n1, stratum_q, stratum_shares, sshares, SenderOwns, Answered>>
  <1>1. UNCHANGED <<mem, dropped, n1, stratum_q, stratum_shares, sshares>>
    BY DEF Next, Moves, Sender, Messages, Receiver, Others, SNext, SExit, SSendOk,
       SSendInactive, SSendFail, SSuspend, SRetry, SWake, SStamp, RUntracked, RLost,
       RPark, RUnpark, RConnect, RSubscribed, RRefused, RFail, RAgain, RAuthorize, RAuthMethod,
       RAuthAnswer, RAuthLost, RExit, PoolAnswers, PoolNotifies, Disconnect, SwitchPools,
       remove_pool, shareVars, tableVars, queueVars
  <1>2. UNCHANGED SenderOwns
    BY DEF Next, Moves, Sender, Messages, Receiver, Others, SNext, SExit, SSendOk,
       SSendInactive, SSendFail, SSuspend, SRetry, SWake, SStamp, RUntracked, RLost,
       RPark, RUnpark, RConnect, RSubscribed, RRefused, RFail, RAgain, RAuthorize, RAuthMethod,
       RAuthAnswer, RAuthLost, RExit, PoolAnswers, PoolNotifies, Disconnect, SwitchPools,
       remove_pool, senderVars, SenderOwns
  <1>3. UNCHANGED Answered
    BY DEF Next, Moves, Sender, Messages, Receiver, Others, SNext, SExit, SSendOk,
       SSendInactive, SSendFail, SSuspend, SRetry, SWake, SStamp, RUntracked, RLost,
       RPark, RUnpark, RConnect, RSubscribed, RRefused, RFail, RAgain, RAuthorize, RAuthMethod,
       RAuthAnswer, RAuthLost, RExit, PoolAnswers, PoolNotifies, Disconnect, SwitchPools,
       remove_pool, recvVars, Answered
  <1> QED BY <1>1, <1>2, <1>3

-----------------------------------------------------------------------------
(* Types.                                                                  *)

LEMMA CountTyped ==
  ASSUME counted \in [Share -> Nat], NEW S, Count(S)
  PROVE  counted' \in [Share -> Nat]
  BY DEF Count

LEMMA FreeTyped ==
  ASSUME mem \in [Share -> {"none", "live", "freed"}], NEW S, FreeMem(S)
  PROVE  mem' \in [Share -> {"none", "live", "freed"}]
  BY DEF FreeMem

LEMMA ShareTyped == Types /\ Next => ShareTypes'
  <1> SUFFICES ASSUME Types, Next PROVE ShareTypes'
    OBVIOUS
  <1> USE DEF Types, ShareTypes
  <1>1. CASE \E s \in Share : Submit(s)
    <2>1. PICK s \in Share : Submit(s)
      BY <1>1
    <2>2. PICK n \in 1 .. session : n1' = [n1 EXCEPT ![s] = n]
      BY <2>1 DEF Submit
    <2>3. n \in 0 .. MaxSession
      BY ConstantsAssumption DEF PoolTypes
    <2>4. n1' \in [Share -> 0 .. MaxSession]
      BY <2>2, <2>3
    <2>5. mem' \in [Share -> {"none", "live", "freed"}] /\ dropped' \subseteq Share
      BY <2>1 DEF Submit
    <2>6. UNCHANGED counted
      BY <2>1 DEF Submit
    <2> QED BY <2>4, <2>5, <2>6
  <1>2. CASE SRefuse
    BY <1>2, FreeTyped, HeadTailProperties DEF SRefuse, QueueTypes
  <1>3. CASE SGiveUp
    BY <1>3, FreeTyped, CountTyped DEF SGiveUp
  <1>4. CASE RUntracked
    BY <1>4, CountTyped DEF RUntracked
  <1>5. CASE RResult
    BY <1>5, FreeTyped, CountTyped DEF RResult
  <1>6. CASE RLostClear
    BY <1>6, FreeTyped, CountTyped DEF RLostClear, clear_stratum_shares, KeepShares
  <1>7. CASE RParkClear
    BY <1>7, FreeTyped, CountTyped DEF RParkClear, clear_stratum_shares
  <1>8. CASE SPop \/ SAdd \/ RFound
    BY <1>8 DEF SPop, SAdd, RFound, shareVars
  <1>9. CASE ~Moves /\ ~RUntracked
    <2>1. UNCHANGED <<mem, dropped, n1>>
      BY <1>9, OthersStay
    <2>2. UNCHANGED counted
      BY <1>9 DEF Next, Moves, Sender, Messages, Receiver, Others, SNext, SExit, SSendOk,
         SSendInactive, SSendFail, SSuspend, SRetry, SWake, SStamp, RLost, RPark, RUnpark,
         RConnect, RSubscribed, RRefused, RFail, RAgain, RAuthorize, RAuthMethod,
         RAuthAnswer, RAuthLost, RExit, PoolAnswers, PoolNotifies, Disconnect, SwitchPools,
         remove_pool, shareVars
    <2> QED BY <2>1, <2>2
  <1> QED BY <1>1, <1>2, <1>3, <1>4, <1>5, <1>6, <1>7, <1>8, <1>9 DEF Moves

LEMMA PoolTyped == Types /\ Next => PoolTypes'
  <1> SUFFICES ASSUME Types, Next PROVE PoolTypes'
    OBVIOUS
  <1> USE DEF Types, PoolTypes
  <1>1. CASE RSubscribed
    BY <1>1, ConstantsAssumption DEF RSubscribed, poolVars
  <1>2. CASE RRefused
    <2>1. nonce1' \in 0 .. MaxSession /\ session' \in 1 .. MaxSession
      BY <1>2, ConstantsAssumption DEF RRefused
    <2>2. sessionid' \in BOOLEAN
      BY <1>2 DEF RRefused
    <2> QED BY <2>1, <2>2
  <1>3. CASE ~RSubscribed /\ ~RRefused
    <2>1. UNCHANGED poolVars
      BY <1>3 DEF Next, Moves, Sender, Messages, Receiver, Others, SNext, SExit, SSendOk,
         SSendInactive, SSendFail, SSuspend, SRetry, SWake, SStamp, RUntracked, RLost,
         RPark, RUnpark, RConnect, RSubscribed, RRefused, RFail, RAgain, RAuthorize, RAuthMethod,
         RAuthAnswer, RAuthLost, RExit, PoolAnswers, PoolNotifies, Disconnect, SwitchPools,
         remove_pool, SPop, SRefuse, SGiveUp, SAdd, Submit, RFound, RResult, RLostClear, RParkClear
    <2> QED BY <2>1 DEF poolVars
  <1> QED BY <1>1, <1>2, <1>3

LEMMA QueueTyped == Types /\ Next => QueueTypes'
  <1> SUFFICES ASSUME Types, Next PROVE QueueTypes'
    OBVIOUS
  <1> USE DEF Types, QueueTypes
  <1>1. CASE \E s \in Share : Submit(s)
    BY <1>1, AppendProperties DEF Submit
  <1>2. CASE SPop \/ SRefuse
    BY <1>2, HeadTailProperties DEF SPop, SRefuse
  <1>3. CASE SExit
    BY <1>3 DEF SExit
  <1>4. CASE ~(\E s \in Share : Submit(s)) /\ ~SPop /\ ~SRefuse /\ ~SExit
    <2>1. UNCHANGED queueVars
      BY <1>4 DEF Next, Moves, Sender, Messages, Receiver, Others, SNext, SExit, SSendOk,
         SSendInactive, SSendFail, SSuspend, SRetry, SWake, SStamp, RUntracked, RLost,
         RPark, RUnpark, RConnect, RSubscribed, RRefused, RFail, RAgain, RAuthorize, RAuthMethod,
         RAuthAnswer, RAuthLost, RExit, PoolAnswers, PoolNotifies, Disconnect, SwitchPools,
         remove_pool, SPop, SRefuse, SGiveUp, SAdd, Submit, RFound, RResult, RLostClear, RParkClear
    <2> QED BY <2>1 DEF queueVars
  <1> QED BY <1>1, <1>2, <1>3, <1>4

LEMMA EnvTyped == Types /\ Next => EnvTypes'
  <1> SUFFICES ASSUME Types, Next PROVE EnvTypes'
    OBVIOUS
  <1> USE DEF Types, EnvTypes
  <1>1. CASE SwitchPools \/ remove_pool
    BY <1>1 DEF SwitchPools, remove_pool
  <1>2. CASE ~SwitchPools /\ ~remove_pool
    <2>1. UNCHANGED envVars
      BY <1>2 DEF Next, Moves, Sender, Messages, Receiver, Others, SNext, SExit, SSendOk,
         SSendInactive, SSendFail, SSuspend, SRetry, SWake, SStamp, RUntracked, RLost,
         RPark, RUnpark, RConnect, RSubscribed, RRefused, RFail, RAgain, RAuthorize, RAuthMethod,
         RAuthAnswer, RAuthLost, RExit, PoolAnswers, PoolNotifies, Disconnect, SwitchPools,
         remove_pool, SPop, SRefuse, SGiveUp, SAdd, Submit, RFound, RResult, RLostClear, RParkClear
    <2> QED BY <2>1 DEF envVars
  <1> QED BY <1>1, <1>2

(* The threads: where the sender is, what it holds, where the receiver is. *)
LEMMA ThreadTyped == Types /\ Next => ThreadTypes'
  <1> SUFFICES ASSUME Types, Next PROVE ThreadTypes'
    OBVIOUS
  <1> USE DEF Types, ThreadTypes
  <1>1. CASE Sender
    <2>1. UNCHANGED recvVars
      BY <1>1 DEF Sender, SPop, SRefuse, SNext, SExit, SSendOk, SSendInactive, SSendFail,
         SSuspend, SRetry, SWake, SGiveUp, SAdd, SStamp
    <2>2. stratum_q # <<>> => Head(stratum_q) \in Share
      BY HeadTailProperties DEF QueueTypes
    <2>3. /\ spc' \in {"pop", "send", "suspend", "failed", "sleep", "add", "stamp", "next", "exit"}
          /\ scur' \in Share \union {NoShare}
      BY <1>1, <2>2 DEF Sender, SPop, SRefuse, SNext, SExit, SSendOk, SSendInactive, SSendFail,
         SSuspend, SRetry, SWake, SGiveUp, SAdd, SStamp
    <2>4. tries' \in 0 .. MaxTries
      BY <1>1, ConstantsAssumption DEF Sender, SPop, SRefuse, SNext, SExit, SSendOk, SSendInactive,
         SSendFail, SSuspend, SRetry, SWake, SGiveUp, SAdd, SStamp
    <2> QED BY <2>1, <2>3, <2>4 DEF recvVars
  <1>2. CASE Receiver
    <2>1. UNCHANGED senderVars
      BY <1>2 DEF Receiver, Messages, RUntracked, RFound, RResult, RLost, RLostClear, RPark,
         RParkClear, RUnpark, RConnect, RSubscribed, RRefused, RFail, RAgain, RAuthorize,
         RAuthMethod, RAuthAnswer, RAuthLost, RExit
    <2>2. /\ rpc' \in {"recv", "result", "clear", "parked", "lost", "restart", "subscribe", "resend",
              "resubscribe", "authorize", "authwait", "dead", "exit"}
          /\ rcur' \in Share \union {NoShare}
      BY <1>2 DEF Receiver, Messages, RUntracked, RFound, RResult, RLost, RLostClear, RPark,
         RParkClear, RUnpark, RConnect, RSubscribed, RRefused, RFail, RAgain, RAuthorize,
         RAuthMethod, RAuthAnswer, RAuthLost, RExit, recvVars, TableTypes
    <2> QED BY <2>1, <2>2 DEF senderVars
  <1>3. CASE ~Sender /\ ~Receiver
    <2>1. UNCHANGED <<senderVars, recvVars>>
      BY <1>3 DEF Next, Others, Submit, PoolAnswers, PoolNotifies, Disconnect, SwitchPools, remove_pool
    <2> QED BY <2>1 DEF senderVars, recvVars
  <1> QED BY <1>1, <1>2, <1>3

LEMMA HoldersTyped == Types /\ Next => Holders'
  <1> SUFFICES ASSUME Types, Next PROVE Holders'
    OBVIOUS
  <1> USE DEF Types, Holders
  <1>1. CASE (\E s \in Share : Submit(s)) \/ RLostClear \/ RParkClear
    BY <1>1 DEF Submit, RLostClear, RParkClear, senderVars, recvVars, SenderOwns, Answered
  <1>2. CASE SPop
    BY <1>2, HeadTailProperties DEF SPop, QueueTypes, recvVars, SenderOwns, Answered
  <1>3. CASE SRefuse \/ SGiveUp \/ SAdd
    BY <1>3 DEF SRefuse, SGiveUp, SAdd, recvVars, SenderOwns, Answered
  <1>4. CASE RFound \/ RResult
    BY <1>4 DEF RFound, RResult, senderVars, SenderOwns, Answered, TableTypes
  <1>5. CASE ~Moves
    BY <1>5, OthersStay
  <1> QED BY <1>1, <1>2, <1>3, <1>4, <1>5 DEF Moves

(* Requests are shares or "auth".                                          *)
LEMMA RequestsTyped ==
  ASSUME Types, Next
  PROVE  c2s' \in Seq(Share \union {"auth"})
  <1> DEFINE R == Share \union {"auth"}
  <1> USE DEF Types, SockTypes
  <1>1. ASSUME NEW m \in R, Transmit(m)
        PROVE  c2s' \in Seq(R)
    BY <1>1, AppendProperties DEF Transmit
  <1>2. CASE SSendOk
    <2>1. scur \in R /\ Transmit(scur)
      BY <1>2 DEF SSendOk, Holders, SenderOwns
    <2> QED BY <2>1, <1>1
  <1>3. CASE RAuthorize
    <2>1. UNCHANGED c2s \/ Transmit("auth")
      BY <1>3 DEF RAuthorize
    <2> QED BY <2>1, <1>1
  <1>4. CASE PoolAnswers
    BY <1>4, HeadTailProperties DEF PoolAnswers
  <1>5. CASE ~SSendOk /\ ~RAuthorize /\ ~PoolAnswers
    <2>1. c2s' \in {c2s, <<>>}
      BY <1>5 DEF Next, Sender, Messages, Receiver, Others, SNext, SExit, SSendOk,
       SSendInactive, SSendFail, SSuspend, SRetry, SWake, SStamp, RUntracked, RLost,
       RPark, RUnpark, RConnect, RSubscribed, RRefused, RFail, RAgain, RAuthorize, RAuthMethod,
       RAuthAnswer, RAuthLost, RExit, PoolAnswers, PoolNotifies, Disconnect, SwitchPools,
       remove_pool, SPop, SRefuse, SGiveUp, SAdd, Submit, RFound, RResult, RLostClear, RParkClear,
       suspend_stratum, sockVars
    <2> QED BY <2>1, EmptySeq
  <1> QED BY <1>2, <1>3, <1>4, <1>5

(* Lines answer a request or are methods.                                  *)
LEMMA LinesTyped ==
  ASSUME Types, Next
  PROVE  s2c' \in Seq(Lines)
  <1> USE DEF Types, SockTypes
  <1>1. CASE ReadLine
    BY <1>1, HeadTailProperties DEF ReadLine
  <1>2. CASE PoolAnswers
    <2>1. Head(c2s) \in Share \union {"auth"}
      BY <1>2, HeadTailProperties DEF PoolAnswers
    <2>2. PICK ok \in BOOLEAN : s2c' = Append(s2c, [of |-> Head(c2s), ok |-> ok])
      BY <1>2 DEF PoolAnswers
    <2>3. [of |-> Head(c2s), ok |-> ok] \in Lines
      BY <2>1 DEF Lines
    <2> QED BY <2>2, <2>3, AppendProperties
  <1>3. CASE PoolNotifies
    <2>1. Notify \in Lines
      BY DEF Notify, Lines
    <2> QED BY <1>3, <2>1, AppendProperties DEF PoolNotifies
  <1>4. CASE ~ReadLine /\ ~PoolAnswers /\ ~PoolNotifies
    <2>1. s2c' \in {s2c, <<>>}
      BY <1>4 DEF Next, Sender, Messages, Receiver, Others, SNext, SExit, SSendOk,
       SSendInactive, SSendFail, SSuspend, SRetry, SWake, SStamp, RUntracked, RLost,
       RPark, RUnpark, RConnect, RSubscribed, RRefused, RFail, RAgain, RAuthorize, RAuthMethod,
       RAuthAnswer, RAuthLost, RExit, PoolAnswers, PoolNotifies, Disconnect, SwitchPools,
       remove_pool, SPop, SRefuse, SGiveUp, SAdd, Submit, RFound, RResult, RLostClear, RParkClear,
       suspend_stratum, sockVars
    <2> QED BY <2>1, EmptySeq
  <1> QED BY <1>1, <1>2, <1>3, <1>4

LEMMA SockTyped == Types /\ Next => SockTypes'
  <1> SUFFICES ASSUME Types, Next PROVE SockTypes'
    OBVIOUS
  <1>1. stratum_active' \in BOOLEAN
    <2>1. stratum_active' \in {stratum_active, TRUE, FALSE}
      BY DEF Next, Sender, Messages, Receiver, Others, SNext, SExit, SSendOk,
       SSendInactive, SSendFail, SSuspend, SRetry, SWake, SStamp, RUntracked, RLost,
       RPark, RUnpark, RConnect, RSubscribed, RRefused, RFail, RAgain, RAuthorize, RAuthMethod,
       RAuthAnswer, RAuthLost, RExit, PoolAnswers, PoolNotifies, Disconnect, SwitchPools,
       remove_pool, SPop, SRefuse, SGiveUp, SAdd, Submit, RFound, RResult, RLostClear, RParkClear,
       suspend_stratum, sockVars
    <2> QED BY <2>1 DEF Types, SockTypes
  <1>2. up' \in BOOLEAN
    <2>1. up' \in {up, TRUE, FALSE}
      BY DEF Next, Sender, Messages, Receiver, Others, SNext, SExit, SSendOk,
       SSendInactive, SSendFail, SSuspend, SRetry, SWake, SStamp, RUntracked, RLost,
       RPark, RUnpark, RConnect, RSubscribed, RRefused, RFail, RAgain, RAuthorize, RAuthMethod,
       RAuthAnswer, RAuthLost, RExit, PoolAnswers, PoolNotifies, Disconnect, SwitchPools,
       remove_pool, SPop, SRefuse, SGiveUp, SAdd, Submit, RFound, RResult, RLostClear, RParkClear,
       suspend_stratum, sockVars
    <2> QED BY <2>1 DEF Types, SockTypes
  <1> QED BY <1>1, <1>2, RequestsTyped, LinesTyped DEF SockTypes

(* sshares counts the table: the sender does not add a share twice.        *)
LEMMA TableTyped == IInv /\ Next => TableTypes'
  <1> SUFFICES ASSUME IInv, Next PROVE TableTypes'
    OBVIOUS
  <1> USE DEF IInv, Types, TableTypes
  <1>1. CASE SAdd
    <2>1. scur \in Share /\ scur \notin stratum_shares
      BY <1>1 DEF SAdd, Holders, SenderOwns, OneOwner
    <2>2. /\ IsFiniteSet(stratum_shares \union {scur})
          /\ Cardinality(stratum_shares \union {scur}) = Cardinality(stratum_shares) + 1
      BY <2>1, FS_AddElement
    <2> QED BY <1>1, <2>1, <2>2 DEF SAdd
  <1>2. CASE RFound
    <2> DEFINE s == Head(s2c).of
    <2>1. s \in stratum_shares
      BY <1>2 DEF RFound
    <2>2. /\ IsFiniteSet(stratum_shares \ {s})
          /\ Cardinality(stratum_shares \ {s}) = Cardinality(stratum_shares) - 1
      BY <2>1, FS_RemoveElement
    <2>3. sshares - 1 \in Nat
      BY <2>2, FS_CardinalityType
    <2> QED BY <1>2, <2>2, <2>3 DEF RFound
  <1>3. CASE RLostClear \/ RParkClear
    BY <1>3, FS_EmptySet DEF RLostClear, RParkClear, clear_stratum_shares, KeepShares
  <1>4. CASE (\E s \in Share : Submit(s)) \/ SPop \/ SRefuse \/ SGiveUp \/ RResult
    BY <1>4 DEF Submit, SPop, SRefuse, SGiveUp, RResult, tableVars
  <1>5. CASE ~Moves
    BY <1>5, OthersStay
  <1> QED BY <1>1, <1>2, <1>3, <1>4, <1>5 DEF Moves

LEMMA TypesStep == IInv /\ Next => Types'
  BY TableTyped, ShareTyped, PoolTyped, QueueTyped, ThreadTyped, HoldersTyped, SockTyped, EnvTyped
     DEF IInv, Types

-----------------------------------------------------------------------------
(* Places.                                                                 *)

Owned == Queued \union SenderOwns \union stratum_shares \union Answered
Distinct == \A i, j \in DOMAIN stratum_q : stratum_q[i] = stratum_q[j] => i = j
Places == /\ Distinct
          /\ Queued \intersect SenderOwns = {}
          /\ Queued \intersect stratum_shares = {}
          /\ Queued \intersect Answered = {}
          /\ SenderOwns \intersect stratum_shares = {}
          /\ SenderOwns \intersect Answered = {}
          /\ stratum_shares \intersect Answered = {}
          /\ {s \in Share : mem[s] = "live"} = Owned

LEMMA PlacesMean == (OneOwner /\ NoLeak <=> Places) /\ (OneOwner' /\ NoLeak' <=> Places')
  BY DEF OneOwner, NoLeak, Places, Owned, Distinct

(* Freeing what was held keeps memory and holders in step.                 *)
LEMMA FreedLive ==
  ASSUME ShareTypes, NEW S, FreeMem(S)
  PROVE  {s \in Share : mem'[s] = "live"} = {s \in Share : mem[s] = "live"} \ S
  BY DEF ShareTypes, FreeMem

LEMMA PlacesStep == IInv /\ Next => Places'
  <1> SUFFICES ASSUME IInv, Next PROVE Places'
    OBVIOUS
  <1>1. Types /\ Places
    BY PlacesMean DEF IInv
  <1> DEFINE live == {s \in Share : mem[s] = "live"}
  <1>2. CASE \E s \in Share : Submit(s)
    <2>1. PICK s \in Share : Submit(s)
      BY <1>2
    <2>2. UNCHANGED <<SenderOwns, stratum_shares, Answered>>
      BY <2>1 DEF Submit, SenderOwns, Answered, senderVars, recvVars, tableVars
    <2>3. s \notin Owned
      BY <1>1, <2>1 DEF Places, Submit
    <2>4. CASE frozen
      <3>1. UNCHANGED stratum_q /\ live' = live
        BY <2>1, <2>4, <1>1 DEF Submit, Types, ShareTypes
      <3>2. UNCHANGED <<Queued, Distinct>>
        BY <3>1 DEF Queued, Distinct
      <3> QED BY <1>1, <2>2, <3>1, <3>2 DEF Places, Owned
    <2>5. CASE ~frozen
      <3>1. stratum_q' = Append(stratum_q, s) /\ live' = live \union {s}
        BY <2>1, <2>5, <1>1 DEF Submit, Types, ShareTypes
      <3>2. Queued' = Queued \union {s} /\ Distinct'
        BY <3>1, <2>3, <1>1, Pushed DEF Types, QueueTypes, Places, Distinct, Owned
      <3> QED BY <1>1, <2>2, <2>3, <3>1, <3>2 DEF Places, Owned
    <2> QED BY <2>4, <2>5
  <1>3. CASE SPop
    <2> DEFINE h == Head(stratum_q)
    <2>1. /\ h \in Queued /\ Queued = Queued' \union {h}
          /\ h \notin Queued' /\ Distinct'
      BY <1>1, <1>3, Popped DEF SPop, Types, QueueTypes, Places, Distinct
    <2>2. UNCHANGED <<live, stratum_shares, Answered>>
      BY <1>3 DEF SPop, shareVars, tableVars, recvVars, Answered
    <2>3. SenderOwns = {} /\ SenderOwns' = {h}
      BY <1>3 DEF SPop, SenderOwns
    <2> QED BY <1>1, <2>1, <2>2, <2>3 DEF Places, Owned
  <1>4. CASE SRefuse
    <2> DEFINE h == Head(stratum_q)
    <2>1. /\ h \in Queued /\ Queued = Queued' \union {h}
          /\ h \notin Queued' /\ Distinct'
      BY <1>1, <1>4, Popped DEF SRefuse, Types, QueueTypes, Places, Distinct
    <2>2. UNCHANGED <<stratum_shares, Answered>>
      BY <1>4 DEF SRefuse, tableVars, recvVars, Answered
    <2>3. SenderOwns = {} /\ SenderOwns' = {}
      BY <1>4 DEF SRefuse, SenderOwns
    <2>4. live' = live \ {h}
      BY <1>1, <1>4, FreedLive DEF SRefuse, Types
    <2> QED BY <1>1, <2>1, <2>2, <2>3, <2>4 DEF Places, Owned
  <1>5. CASE SGiveUp
    <2>1. UNCHANGED <<Queued, Distinct, stratum_shares, Answered>>
      BY <1>5 DEF SGiveUp, queueVars, tableVars, recvVars, Queued, Distinct, Answered
    <2>2. SenderOwns = {scur} /\ SenderOwns' = {}
      BY <1>5 DEF SGiveUp, SenderOwns
    <2>3. live' = live \ {scur}
      BY <1>1, <1>5, FreedLive DEF SGiveUp, Types
    <2> QED BY <1>1, <2>1, <2>2, <2>3 DEF Places, Owned
  <1>6. CASE SAdd
    <2>1. UNCHANGED <<live, Queued, Distinct, Answered>>
      BY <1>6 DEF SAdd, shareVars, queueVars, recvVars, Queued, Distinct, Answered
    <2>2. /\ SenderOwns = {scur} /\ SenderOwns' = {}
          /\ stratum_shares' = stratum_shares \union {scur}
      BY <1>6 DEF SAdd, SenderOwns
    <2> QED BY <1>1, <2>1, <2>2 DEF Places, Owned
  <1>7. CASE RFound
    <2>1. UNCHANGED <<live, Queued, Distinct, SenderOwns>>
      BY <1>7 DEF RFound, shareVars, queueVars, senderVars, Queued, Distinct, SenderOwns
    <2>2. /\ Answered = {} /\ Answered' = {Head(s2c).of}
          /\ Head(s2c).of \in stratum_shares
          /\ stratum_shares' = stratum_shares \ {Head(s2c).of}
      BY <1>7 DEF RFound, Answered
    <2> QED BY <1>1, <2>1, <2>2 DEF Places, Owned
  <1>8. CASE RResult
    <2>1. UNCHANGED <<Queued, Distinct, SenderOwns, stratum_shares>>
      BY <1>8 DEF RResult, tableVars, queueVars, senderVars, Queued, Distinct, SenderOwns
    <2>2. Answered = {rcur} /\ Answered' = {}
      BY <1>8 DEF RResult, Answered
    <2>3. live' = live \ {rcur}
      BY <1>1, <1>8, FreedLive DEF RResult, Types
    <2> QED BY <1>1, <2>1, <2>2, <2>3 DEF Places, Owned
  <1>9. CASE RLostClear \/ RParkClear
    <2>1. UNCHANGED <<Queued, Distinct, SenderOwns, Answered>>
      BY <1>9 DEF RLostClear, RParkClear, queueVars, senderVars, Queued, Distinct,
         SenderOwns, Answered
    <2>2. CASE clear_stratum_shares
      <3>1. live' = live \ stratum_shares /\ stratum_shares' = {}
        BY <1>1, <2>2, FreedLive DEF clear_stratum_shares, Types
      <3> QED BY <1>1, <2>1, <3>1 DEF Places, Owned
    <2>3. CASE KeepShares
      <3>1. UNCHANGED <<live, stratum_shares>>
        BY <2>3 DEF KeepShares
      <3> QED BY <1>1, <2>1, <3>1 DEF Places, Owned
    <2> QED BY <1>9, <2>2, <2>3 DEF RLostClear, RParkClear
  <1>10. CASE ~Moves
    <2>1. UNCHANGED <<live, Queued, Distinct, stratum_shares, SenderOwns, Answered>>
      BY <1>10, OthersStay DEF Queued, Distinct
    <2> QED BY <1>1, <2>1 DEF Places, Owned
  <1> QED BY <1>2, <1>3, <1>4, <1>5, <1>6, <1>7, <1>8, <1>9, <1>10 DEF Moves

-----------------------------------------------------------------------------

LEMMA InitIInv == Init => IInv
  <1> SUFFICES ASSUME Init PROVE IInv
    OBVIOUS
  <1>1. SenderOwns = {} /\ Answered = {} /\ Queued = {}
    BY DEF Init, SenderOwns, Answered, Queued
  <1>2. ShareTypes /\ TableTypes /\ QueueTypes /\ EnvTypes
    <2>1. ShareTypes
      BY ConstantsAssumption DEF Init, ShareTypes
    <2>2. TableTypes
      BY FS_EmptySet DEF Init, TableTypes
    <2>3. QueueTypes /\ EnvTypes
      BY EmptySeq DEF Init, QueueTypes, EnvTypes
    <2> QED BY <2>1, <2>2, <2>3
  <1>3. nonce1 \in 0 .. MaxSession /\ session \in 1 .. MaxSession
    BY ConstantsAssumption DEF Init
  <1>4. sessionid \in BOOLEAN
    BY DEF Init
  <1>5. ThreadTypes /\ Holders
    BY <1>1, ConstantsAssumption DEF Init, ThreadTypes, Holders
  <1>6. SockTypes
    BY EmptySeq DEF Init, SockTypes
  <1>7. OneOwner
    BY <1>1 DEF Init, OneOwner
  <1>8. NoLeak
    BY <1>1 DEF Init, NoLeak
  <1> QED BY <1>2, <1>3, <1>4, <1>5, <1>6, <1>7, <1>8 DEF IInv, Types, PoolTypes

LEMMA Inductive == IInv /\ [Next]_vars => IInv'
  <1> SUFFICES ASSUME IInv, [Next]_vars PROVE IInv'
    OBVIOUS
  <1>1. CASE Next
    BY <1>1, TypesStep, PlacesStep, PlacesMean DEF IInv
  <1>2. CASE UNCHANGED vars
    <2> USE <1>2 DEF vars, shareVars, tableVars, poolVars, queueVars, senderVars, recvVars,
            sockVars, envVars
    <2>1. UNCHANGED <<SenderOwns, Answered, Queued>>
      BY DEF SenderOwns, Answered, Queued
    <2>2. ShareTypes' /\ TableTypes' /\ PoolTypes' /\ QueueTypes' /\ EnvTypes'
      BY DEF IInv, Types, ShareTypes, TableTypes, PoolTypes, QueueTypes, EnvTypes
    <2>3. ThreadTypes' /\ SockTypes' /\ Holders'
      BY <2>1 DEF IInv, Types, ThreadTypes, SockTypes, Holders
    <2>4. OneOwner' /\ NoLeak'
      BY <2>1 DEF IInv, OneOwner, NoLeak
    <2> QED BY <2>2, <2>3, <2>4 DEF IInv, Types
  <1> QED BY <1>1, <1>2

THEOREM Invariance == Spec => []IInv
  BY InitIInv, Inductive, PTL DEF Spec

(* The types of all that the two threads, the pool and the socket share;   *)
(* and sshares is the number of shares in stratum_shares.                  *)
THEOREM TypeCorrect == Spec => []TypeOK
  <1>1. IInv => TypeOK
    BY DEF IInv, Types, ShareTypes, TableTypes, PoolTypes, QueueTypes, ThreadTypes, Holders,
       SockTypes, EnvTypes, TypeOK
  <1> QED BY <1>1, Invariance, PTL

(* A share is queued once, or with the sender, or in the table, or with    *)
(* the receiver: no two of them free it.                                   *)
THEOREM SingleOwner == Spec => []OneOwner
  <1>1. IInv => OneOwner
    BY DEF IInv
  <1> QED BY <1>1, Invariance, PTL

(* What was allocated and not freed is what someone holds.                 *)
THEOREM NothingLeaks == Spec => []NoLeak
  <1>1. IInv => NoLeak
    BY DEF IInv
  <1> QED BY <1>1, Invariance, PTL

-----------------------------------------------------------------------------
(* Every share is counted.                                                 *)

(* Shares are counted before or while they are freed.                      *)
LEMMA CountedWhenFreed ==
  ASSUME ShareTypes, EveryShareCounted, NEW S, FreeMem(S), Count(S), UNCHANGED dropped
  PROVE  EveryShareCounted'
  BY DEF ShareTypes, EveryShareCounted, FreeMem, Count

LEMMA CountedStep == IInv /\ EveryShareCounted /\ [Next]_vars => EveryShareCounted'
  <1> SUFFICES ASSUME IInv, EveryShareCounted, [Next]_vars PROVE EveryShareCounted'
    OBVIOUS
  <1>1. ShareTypes
    BY DEF IInv, Types
  <1>2. CASE \E s \in Share : Submit(s)
    BY <1>1, <1>2 DEF Submit, ShareTypes, EveryShareCounted
  <1>3. CASE SRefuse
    BY <1>1, <1>3 DEF SRefuse, FreeMem, ShareTypes, EveryShareCounted
  <1>4. CASE SGiveUp
    BY <1>1, <1>4, CountedWhenFreed DEF SGiveUp
  <1>5. CASE RResult
    BY <1>1, <1>5, CountedWhenFreed DEF RResult
  <1>6. CASE RLostClear \/ RParkClear
    <2>1. UNCHANGED dropped
      BY <1>6 DEF RLostClear, RParkClear
    <2>2. CASE clear_stratum_shares
      BY <1>1, <2>1, <2>2, CountedWhenFreed DEF clear_stratum_shares
    <2>3. CASE KeepShares
      BY <2>1, <2>3 DEF KeepShares, EveryShareCounted
    <2> QED BY <1>6, <2>2, <2>3 DEF RLostClear, RParkClear
  <1>7. CASE RUntracked
    BY <1>1, <1>7 DEF RUntracked, Count, ShareTypes, EveryShareCounted
  <1>8. CASE SPop \/ SAdd \/ RFound
    BY <1>8 DEF SPop, SAdd, RFound, shareVars, EveryShareCounted
  <1>9. CASE Next /\ ~Moves /\ ~RUntracked
    <2>1. UNCHANGED <<mem, dropped>>
      BY <1>9, OthersStay
    <2>2. UNCHANGED counted
      BY <1>9 DEF Next, Moves, Sender, Messages, Receiver, Others, SNext, SExit, SSendOk,
         SSendInactive, SSendFail, SSuspend, SRetry, SWake, SStamp, RLost, RPark, RUnpark,
         RConnect, RSubscribed, RRefused, RFail, RAgain, RAuthorize, RAuthMethod,
         RAuthAnswer, RAuthLost, RExit, PoolAnswers, PoolNotifies, Disconnect, SwitchPools,
         remove_pool, shareVars
    <2> QED BY <2>1, <2>2 DEF EveryShareCounted
  <1>10. CASE UNCHANGED vars
    BY <1>10 DEF vars, shareVars, EveryShareCounted
  <1> QED BY <1>2, <1>3, <1>4, <1>5, <1>6, <1>7, <1>8, <1>9, <1>10 DEF Moves

(* stratum_share_result, clear_stratum_shares and stratum_sthread count    *)
(* every share they free.                                                  *)
THEOREM AllCounted == Spec => []EveryShareCounted
  <1>1. Init => EveryShareCounted
    BY DEF Init, EveryShareCounted
  <1> QED BY <1>1, CountedStep, Invariance, PTL DEF Spec

=============================================================================
