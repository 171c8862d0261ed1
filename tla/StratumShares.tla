--------------------------- MODULE StratumShares ---------------------------
(***************************************************************************)
(* One stratum pool of sgminer.c and util.c: the queue of found shares,    *)
(* the thread that sends them (stratum_sthread), the thread that receives  *)
(* and keeps the connection (stratum_rthread with restart_stratum and      *)
(* auth_stratum), the table stratum_shares of sent shares that wait for an *)
(* answer, and the pool at the other end of the socket.                    *)
(*                                                                         *)
(* A share stands for its struct stratum_share and its struct work; its id *)
(* is its own, so an answer names the share.  A line from the pool is an   *)
(* answer to a share, the answer to mining.authorize or a method.          *)
(***************************************************************************)
EXTENDS Naturals, Sequences, FiniteSets

CONSTANTS Share,       \* the shares the miners find
          NoShare,
          MaxTries,    \* attempts that fit in the two minutes of the sender
          MaxSession,  \* bound of the sessions the pool opens
          MaxLines,    \* bound of the unread lines for which the pool adds a method
          opt_lowmem

ASSUME ConstantsAssumption ==
  /\ NoShare \notin Share
  /\ MaxTries \in Nat \ {0} /\ MaxSession \in Nat \ {0} /\ MaxLines \in Nat
  /\ opt_lowmem \in BOOLEAN

VARIABLES
  \* the shares
  mem,       \* of each share: "none", "live" or "freed"
  counted,   \* how often each was counted accepted, rejected or stale
  n1,        \* the nonce1 its work was made with
  dropped,   \* the shares thrown away uncounted (removed pool, odd nonce2)
  \* shared between threads
  stratum_q, \* the queue of the sender
  frozen,    \* it takes no more
  stratum_shares, sshares,
  stratum_active,
  nonce1,    \* the session whose nonce1 the pool has, 0 for NULL
  sessionid, \* it has a session id to resume
  session,   \* the sessions opened so far
  removed,   \* the pool was removed
  needed,    \* what cnx_needed finds apart from sshares
  \* the threads
  spc, scur, tries,
  rpc, rcur,
  \* the socket
  up, c2s, s2c

shareVars  == <<mem, counted, n1, dropped>>
tableVars  == <<stratum_shares, sshares>>
poolVars   == <<nonce1, sessionid, session>>
queueVars  == <<stratum_q, frozen>>
senderVars == <<spc, scur, tries>>
recvVars   == <<rpc, rcur>>
sockVars   == <<stratum_active, up, c2s, s2c>>
envVars    == <<removed, needed>>
vars == <<shareVars, tableVars, poolVars, queueVars, senderVars, recvVars, sockVars, envVars>>

Notify == [of |-> "method", ok |-> TRUE]
Lines  == [of : Share \union {"auth", "method"}, ok : BOOLEAN]

Init ==
  /\ mem = [s \in Share |-> "none"]
  /\ counted = [s \in Share |-> 0]
  /\ n1 = [s \in Share |-> 0]
  /\ dropped = {}
  /\ stratum_q = <<>> /\ frozen = FALSE
  /\ stratum_shares = {} /\ sshares = 0
  /\ stratum_active = TRUE /\ nonce1 = 1 /\ session = 1 /\ sessionid \in BOOLEAN
  /\ removed = FALSE /\ needed = "yes"
  /\ spc = "pop" /\ scur = NoShare /\ tries = 0
  /\ rpc = "recv" /\ rcur = NoShare
  /\ up = TRUE /\ c2s = <<>> /\ s2c = <<>>

Count(S) == counted' = [s \in Share |-> IF s \in S THEN counted[s] + 1 ELSE counted[s]]
FreeMem(S) == mem' = [s \in Share |-> IF s \in S THEN "freed" ELSE mem[s]]

-----------------------------------------------------------------------------
(* submit_work_async: a miner found a share that is not stale; its work    *)
(* may be of an earlier session.  A frozen queue refuses it.               *)
Submit(s) ==
  /\ mem[s] = "none"
  /\ \E n \in 1 .. session : n1' = [n1 EXCEPT ![s] = n]
  /\ IF frozen
     THEN /\ mem' = [mem EXCEPT ![s] = "freed"]
          /\ dropped' = dropped \union {s}
          /\ UNCHANGED stratum_q
     ELSE /\ mem' = [mem EXCEPT ![s] = "live"]
          /\ stratum_q' = Append(stratum_q, s)
          /\ UNCHANGED dropped
  /\ UNCHANGED <<counted, frozen, tableVars, poolVars, senderVars, recvVars, sockVars, envVars>>

-----------------------------------------------------------------------------
(* The socket.  suspend_stratum closes it: what was under way is lost.     *)

suspend_stratum ==
  /\ stratum_active' = FALSE
  /\ up' = FALSE
  /\ c2s' = <<>>
  /\ s2c' = <<>>

(* __stratum_send of m: the kernel takes it; only an open socket delivers. *)
Transmit(m) == c2s' = IF up THEN Append(c2s, m) ELSE c2s

-----------------------------------------------------------------------------
(* stratum_sthread.                                                        *)

SPopTracks ==   \* in the table before it is sent
  /\ spc = "pop"
  /\ stratum_q # <<>>
  /\ scur' = Head(stratum_q)
  /\ stratum_q' = Tail(stratum_q)
  /\ stratum_shares' = stratum_shares \union {Head(stratum_q)}
  /\ sshares' = sshares + 1
  /\ tries' = 0
  /\ spc' = "send"
  /\ UNCHANGED <<frozen, shareVars, poolVars, recvVars, sockVars, envVars>>

(* tq_pop.  The sender looks at removed only between two shares: waiting   *)
(* here it does not see it.                                                *)
SPop ==
  /\ spc = "pop"
  /\ stratum_q # <<>>
  /\ scur' = Head(stratum_q)
  /\ stratum_q' = Tail(stratum_q)
  /\ tries' = 0
  /\ spc' = "send"
  /\ UNCHANGED <<frozen, shareVars, tableVars, poolVars, recvVars, sockVars, envVars>>

(* A work with a nonce2 of more than eight bytes is thrown away.           *)
SRefuse ==
  /\ spc = "pop"
  /\ stratum_q # <<>>
  /\ stratum_q' = Tail(stratum_q)
  /\ FreeMem({Head(stratum_q)})
  /\ dropped' = dropped \union {Head(stratum_q)}
  /\ spc' = "next"
  /\ UNCHANGED <<scur, tries, frozen, counted, n1, tableVars, poolVars, recvVars, sockVars, envVars>>

SNext ==
  /\ spc = "next"
  /\ ~removed
  /\ spc' = "pop"
  /\ UNCHANGED <<scur, tries, shareVars, tableVars, poolVars, queueVars, recvVars, sockVars, envVars>>

(* The queue is frozen; what is still in it stays there.                   *)
SExit ==
  /\ spc = "next"
  /\ removed
  /\ spc' = "exit"
  /\ frozen' = TRUE
  /\ UNCHANGED <<stratum_q, scur, tries, shareVars, tableVars, poolVars, recvVars, sockVars, envVars>>

(* stratum_send looks at stratum_active and sends under stratum_lock.      *)
SSendOk ==
  /\ spc = "send"
  /\ stratum_active
  /\ Transmit(scur)
  /\ spc' = "add"
  /\ UNCHANGED <<scur, tries, stratum_active, up, s2c, shareVars, tableVars, poolVars, queueVars, recvVars, envVars>>

SSendInactive ==
  /\ spc = "send"
  /\ ~stratum_active
  /\ spc' = "failed"
  /\ UNCHANGED <<scur, tries, shareVars, tableVars, poolVars, queueVars, recvVars, sockVars, envVars>>

(* A failed select or send; the connection is closed once stratum_lock has *)
(* been released, whichever connection it then is.                         *)
SSendFail ==
  /\ spc = "send"
  /\ stratum_active
  /\ spc' = "suspend"
  /\ UNCHANGED <<scur, tries, shareVars, tableVars, poolVars, queueVars, recvVars, sockVars, envVars>>

SSuspend ==
  /\ spc = "suspend"
  /\ suspend_stratum
  /\ spc' = "failed"
  /\ UNCHANGED <<scur, tries, shareVars, tableVars, poolVars, queueVars, recvVars, envVars>>

(* Sleep five seconds and retry, if the pool has the session of the work.  *)
SRetry ==
  /\ spc = "failed"
  /\ ~opt_lowmem /\ nonce1 = n1[scur]
  /\ spc' = "sleep"
  /\ UNCHANGED <<scur, tries, shareVars, tableVars, poolVars, queueVars, recvVars, sockVars, envVars>>

SWakeAnew ==   \* two minutes from the last attempt
  /\ spc = "sleep"
  /\ spc' = "send"
  /\ UNCHANGED <<scur, tries, shareVars, tableVars, poolVars, queueVars, recvVars, sockVars, envVars>>

(* The time is not up: MaxTries attempts are all that fit in it.           *)
SWake ==
  /\ spc = "sleep"
  /\ tries < MaxTries
  /\ tries' = tries + 1
  /\ spc' = "send"
  /\ UNCHANGED <<scur, shareVars, tableVars, poolVars, queueVars, recvVars, sockVars, envVars>>

(* The session is another, or two minutes have gone: the share is stale.   *)
SGiveUp ==
  /\ \/ spc = "failed" /\ (opt_lowmem \/ nonce1 # n1[scur])
     \/ spc = "sleep"
  /\ FreeMem({scur})
  /\ Count({scur})
  /\ scur' = NoShare
  /\ spc' = "next"
  /\ UNCHANGED <<n1, dropped, tries, tableVars, poolVars, queueVars, recvVars, sockVars, envVars>>

(* Only after the share was sent is it put in the table.                   *)
SAdd ==
  /\ spc = "add"
  /\ stratum_shares' = stratum_shares \union {scur}
  /\ sshares' = sshares + 1
  /\ spc' = "stamp"
  /\ UNCHANGED <<scur, tries, shareVars, poolVars, queueVars, recvVars, sockVars, envVars>>

(* sshare->sshare_sent is written outside sshare_lock.                     *)
SStamp ==
  /\ spc = "stamp"
  /\ scur' = NoShare
  /\ spc' = "next"
  /\ UNCHANGED <<tries, shareVars, tableVars, poolVars, queueVars, recvVars, sockVars, envVars>>

-----------------------------------------------------------------------------
(* stratum_rthread: messages.                                              *)

cnx_needed == needed = "yes" \/ (needed = "shares" /\ sshares > 0)

ReadLine == s2c # <<>> /\ s2c' = Tail(s2c)

(* parse_method, or an answer parse_stratum_response does not find in the  *)
(* table: it counts an untracked share.                                    *)
RUntracked ==
  /\ rpc = "recv"
  /\ ~removed
  /\ ReadLine
  /\ Head(s2c).of \notin stratum_shares
  /\ Count({Head(s2c).of})
  /\ UNCHANGED <<mem, n1, dropped, tableVars, poolVars, queueVars, senderVars, recvVars, stratum_active, up, c2s, envVars>>

RFoundKeepsCount ==   \* without pool->sshares--
  /\ rpc = "recv"
  /\ ~removed
  /\ ReadLine
  /\ Head(s2c).of \in stratum_shares
  /\ stratum_shares' = stratum_shares \ {Head(s2c).of}
  /\ rcur' = Head(s2c).of
  /\ rpc' = "result"
  /\ UNCHANGED <<sshares, shareVars, poolVars, queueVars, senderVars, stratum_active, up, c2s, envVars>>

(* The answer to a tracked share: it leaves the table at once; then it is  *)
(* counted by share_result and freed.                                      *)
RFound ==
  /\ rpc = "recv"
  /\ ~removed
  /\ ReadLine
  /\ Head(s2c).of \in stratum_shares
  /\ stratum_shares' = stratum_shares \ {Head(s2c).of}
  /\ sshares' = sshares - 1
  /\ rcur' = Head(s2c).of
  /\ rpc' = "result"
  /\ UNCHANGED <<shareVars, poolVars, queueVars, senderVars, stratum_active, up, c2s, envVars>>

RResult ==
  /\ rpc = "result"
  /\ Count({rcur})
  /\ FreeMem({rcur})
  /\ rcur' = NoShare
  /\ rpc' = "recv"
  /\ UNCHANGED <<n1, dropped, tableVars, poolVars, queueVars, senderVars, sockVars, envVars>>

-----------------------------------------------------------------------------
(* stratum_rthread: the connection.                                        *)

clear_without_free ==
  /\ UNCHANGED mem
  /\ Count(stratum_shares)
  /\ stratum_shares' = {}
  /\ sshares' = 0

clear_uncounted ==
  /\ FreeMem(stratum_shares)
  /\ UNCHANGED counted
  /\ stratum_shares' = {}
  /\ sshares' = 0

clear_stratum_shares ==
  /\ FreeMem(stratum_shares)
  /\ Count(stratum_shares)
  /\ stratum_shares' = {}
  /\ sshares' = 0

KeepShares == UNCHANGED <<mem, counted, stratum_shares, sshares>>

(* Nothing came for 90 seconds, or recv_line finds the socket closed.      *)
RLost ==
  /\ rpc = "recv"
  /\ ~removed
  /\ s2c = <<>>
  /\ \/ UNCHANGED sockVars
     \/ ~up /\ suspend_stratum
  /\ rpc' = "lost"
  /\ UNCHANGED <<shareVars, tableVars, poolVars, queueVars, senderVars, rcur, envVars>>

(* The table is kept if the session can be resumed.                        *)
RLostClear ==
  /\ rpc = "lost"
  /\ IF ~sessionid \/ opt_lowmem THEN clear_stratum_shares ELSE KeepShares
  /\ rpc' = "restart"
  /\ UNCHANGED <<n1, dropped, poolVars, queueVars, senderVars, rcur, sockVars, envVars>>

(* The connection is not needed: suspend it till it is (wait_lpcurrent).   *)
RPark ==
  /\ rpc = "recv"
  /\ ~removed
  /\ s2c = <<>>
  /\ ~cnx_needed
  /\ suspend_stratum
  /\ rpc' = "clear"
  /\ UNCHANGED <<shareVars, tableVars, poolVars, queueVars, senderVars, rcur, envVars>>

RParkClear ==
  /\ rpc = "clear"
  /\ clear_stratum_shares
  /\ rpc' = "parked"
  /\ UNCHANGED <<n1, dropped, poolVars, queueVars, senderVars, rcur, sockVars, envVars>>

RUnpark ==
  /\ rpc = "parked"
  /\ cnx_needed
  /\ rpc' = "restart"
  /\ UNCHANGED <<shareVars, tableVars, poolVars, queueVars, senderVars, rcur, sockVars, envVars>>

(* restart_stratum, initiate_stratum: a new socket, the subscription.      *)
RConnect ==
  /\ rpc \in {"restart", "resend"}
  /\ stratum_active' = FALSE
  /\ up' = TRUE /\ c2s' = <<>> /\ s2c' = <<>>
  /\ rpc' = IF rpc = "restart" THEN "subscribe" ELSE "resubscribe"
  /\ UNCHANGED <<shareVars, tableVars, poolVars, queueVars, senderVars, rcur, envVars>>

(* The pool resumes the session, or opens a new one and tells whether it   *)
(* can be resumed.  stratum_active is set without stratum_lock.            *)
RSubscribed ==
  /\ rpc \in {"subscribe", "resubscribe"}
  /\ \/ sessionid /\ UNCHANGED poolVars
     \/ /\ session < MaxSession
        /\ session' = session + 1
        /\ nonce1' = session + 1
        /\ sessionid' \in BOOLEAN
  /\ stratum_active' = TRUE
  /\ rpc' = "authorize"
  /\ UNCHANGED <<shareVars, tableVars, queueVars, senderVars, rcur, up, c2s, s2c, envVars>>

(* An answer that is no subscription: forget the session, ask once more.   *)
RRefused ==
  /\ rpc = "subscribe"
  /\ sessionid' = FALSE /\ nonce1' = 0
  /\ rpc' = "resend"
  /\ UNCHANGED <<session, shareVars, tableVars, queueVars, senderVars, rcur, sockVars, envVars>>

(* No connection, or no answer to the subscription: the pool has died, and *)
(* every 30 seconds all is tried again, unless it was removed (the first   *)
(* failure is not followed by that test).                                  *)
RFail ==
  /\ rpc \in {"restart", "subscribe", "resend", "resubscribe"}
  /\ suspend_stratum
  /\ rpc' = "dead"
  /\ UNCHANGED <<shareVars, tableVars, poolVars, queueVars, senderVars, rcur, envVars>>

RAgain ==
  /\ rpc = "dead"
  /\ \/ rpc' = "restart"
     \/ removed /\ rpc' = "exit"
  /\ UNCHANGED <<shareVars, tableVars, poolVars, queueVars, senderVars, rcur, sockVars, envVars>>

(* auth_stratum sends its request; by now others may send as well.         *)
RAuthorize ==
  /\ rpc = "authorize"
  /\ IF stratum_active
     THEN Transmit("auth") /\ rpc' = "authwait"
     ELSE UNCHANGED c2s /\ rpc' = "dead"
  /\ UNCHANGED <<rcur, stratum_active, up, s2c, shareVars, tableVars, poolVars, queueVars, senderVars, envVars>>

(* It skips methods and takes the first other line for the answer.         *)
RAuthMethod ==
  /\ rpc = "authwait"
  /\ ReadLine
  /\ Head(s2c) = Notify
  /\ UNCHANGED <<shareVars, tableVars, poolVars, queueVars, senderVars, recvVars, stratum_active, up, c2s, envVars>>

RAuthAnswer ==
  /\ rpc = "authwait"
  /\ ReadLine
  /\ Head(s2c) # Notify
  /\ rpc' = IF Head(s2c).ok THEN "recv" ELSE "dead"
  /\ UNCHANGED <<rcur, shareVars, tableVars, poolVars, queueVars, senderVars, stratum_active, up, c2s, envVars>>

RAuthLost ==
  /\ rpc = "authwait"
  /\ s2c = <<>>
  /\ rpc' = "dead"
  /\ UNCHANGED <<rcur, shareVars, tableVars, poolVars, queueVars, senderVars, sockVars, envVars>>

RExit ==
  /\ rpc = "recv"
  /\ removed
  /\ rpc' = "exit"
  /\ UNCHANGED <<rcur, shareVars, tableVars, poolVars, queueVars, senderVars, sockVars, envVars>>

-----------------------------------------------------------------------------
(* The pool at the other end, and the rest of the program.                 *)

PoolAnswers ==
  /\ up /\ c2s # <<>>
  /\ c2s' = Tail(c2s)
  /\ \E ok \in BOOLEAN : s2c' = Append(s2c, [of |-> Head(c2s), ok |-> ok])
  /\ UNCHANGED <<stratum_active, up, shareVars, tableVars, poolVars, queueVars, senderVars, recvVars, envVars>>

PoolNotifies ==
  /\ up /\ Len(s2c) < MaxLines
  /\ s2c' = Append(s2c, Notify)
  /\ UNCHANGED <<stratum_active, up, c2s, shareVars, tableVars, poolVars, queueVars, senderVars, recvVars, envVars>>

Disconnect ==
  /\ up
  /\ up' = FALSE /\ c2s' = <<>> /\ s2c' = <<>>
  /\ UNCHANGED <<stratum_active, shareVars, tableVars, poolVars, queueVars, senderVars, recvVars, envVars>>

(* What cnx_needed finds: a reason to connect, none but open shares, or a  *)
(* pool that is not enabled.                                               *)
SwitchPools ==
  /\ ~removed
  /\ needed' \in {"yes", "shares", "no"} \ {needed}
  /\ UNCHANGED <<removed, shareVars, tableVars, poolVars, queueVars, senderVars, recvVars, sockVars>>

(* removepool disables the pool first.                                     *)
remove_pool ==
  /\ ~removed
  /\ removed' = TRUE
  /\ needed' = "no"
  /\ UNCHANGED <<shareVars, tableVars, poolVars, queueVars, senderVars, recvVars, sockVars>>

-----------------------------------------------------------------------------

Sender   == \/ SPop \/ SRefuse \/ SNext \/ SExit \/ SSendOk \/ SSendInactive \/ SSendFail
            \/ SSuspend \/ SRetry \/ SWake \/ SGiveUp \/ SAdd \/ SStamp
Messages == RUntracked \/ RFound \/ RResult
Receiver == \/ Messages \/ RLost \/ RLostClear \/ RPark \/ RParkClear \/ RUnpark \/ RConnect
            \/ RSubscribed \/ RRefused \/ RFail \/ RAgain \/ RAuthorize \/ RAuthMethod
            \/ RAuthAnswer \/ RAuthLost \/ RExit
Others   == PoolAnswers \/ PoolNotifies \/ Disconnect \/ SwitchPools \/ remove_pool

Next == (\E s \in Share : Submit(s)) \/ Sender \/ Receiver \/ Others

Spec == Init /\ [][Next]_vars

(* The sender runs; the other threads and the pool may do what they like.  *)
FairSpec == Spec /\ WF_vars(Sender)

(* Every thread runs, and a connected pool answers.                        *)
FairSpecAll == Spec /\ WF_vars(Sender) /\ WF_vars(Receiver) /\ WF_vars(PoolAnswers)

-----------------------------------------------------------------------------

SenderOwns == IF spc \in {"send", "suspend", "failed", "sleep", "add"} THEN {scur} ELSE {}
Queued     == {stratum_q[i] : i \in DOMAIN stratum_q}
Answered   == IF rpc = "result" THEN {rcur} ELSE {}

(* The states are of their types; sshares, which keeps the connection up   *)
(* while answers are due, counts the shares in the table.                  *)
TypeOK ==
  /\ mem \in [Share -> {"none", "live", "freed"}]
  /\ counted \in [Share -> Nat]
  /\ n1 \in [Share -> 0 .. MaxSession]
  /\ dropped \subseteq Share
  /\ stratum_q \in Seq(Share) /\ frozen \in BOOLEAN
  /\ stratum_shares \subseteq Share
  /\ sshares \in Nat /\ sshares = Cardinality(stratum_shares)
  /\ stratum_active \in BOOLEAN /\ sessionid \in BOOLEAN
  /\ nonce1 \in 0 .. MaxSession /\ session \in 1 .. MaxSession
  /\ removed \in BOOLEAN /\ needed \in {"yes", "shares", "no"}
  /\ spc \in {"pop", "send", "suspend", "failed", "sleep", "add", "stamp", "next", "exit"}
  /\ tries \in 0 .. MaxTries
  /\ scur \in Share \union {NoShare}
  /\ SenderOwns \subseteq Share
  /\ rpc \in {"recv", "result", "clear", "parked", "lost", "restart", "subscribe", "resend",
              "resubscribe", "authorize", "authwait", "dead", "exit"}
  /\ rcur \in Share \union {NoShare}
  /\ Answered \subseteq Share
  /\ up \in BOOLEAN
  /\ c2s \in Seq(Share \union {"auth"}) /\ s2c \in Seq(Lines)

(* A share is in one place: the queue (once), with the sender, in the      *)
(* table, or with the receiver that got its answer.  So stratum_sthread,   *)
(* parse_stratum_response and clear_stratum_shares never free one twice.   *)
OneOwner ==
  /\ \A i, j \in DOMAIN stratum_q : stratum_q[i] = stratum_q[j] => i = j
  /\ Queued \intersect SenderOwns = {}
  /\ Queued \intersect stratum_shares = {}
  /\ Queued \intersect Answered = {}
  /\ SenderOwns \intersect stratum_shares = {}
  /\ SenderOwns \intersect Answered = {}
  /\ stratum_shares \intersect Answered = {}

(* The shares and works in memory are exactly those someone still holds:   *)
(* none leaks, and nobody holds one that was freed, whatever connection    *)
(* was lost or pool removed meanwhile.                                     *)
NoLeak ==
  {s \in Share : mem[s] = "live"} = Queued \union SenderOwns \union stratum_shares \union Answered

(* Every share found ends up counted, as accepted, rejected or stale,      *)
(* unless it was thrown away at the queue.                                 *)
EveryShareCounted ==
  \A s \in Share : mem[s] = "freed" => counted[s] > 0 \/ s \in dropped

(* A share given to the pool's queue leaves the sender: it waits for its   *)
(* answer in the table or is given up, even if the pool is never reached   *)
(* again.  Only the queue of a removed pool keeps its works.               *)
SenderDrains ==
  \A s \in Share : s \in Queued \union SenderOwns ~> (s \notin Queued \union SenderOwns \/ removed)

-----------------------------------------------------------------------------
(* What comments of the code say and the code does not keep to.            *)

(* "This work item is freed in parse_stratum_response": a share in the     *)
(* table still has its answer to come.                                     *)
NoneAnsweredYet == \A s \in stratum_shares : counted[s] = 0

(* "Parse all data in the queue and anything left should be auth".         *)
AuthAnswer == [][RAuthAnswer => Head(s2c).of = "auth"]_vars

(* "Try resubmitting [...] if we fail to submit once and the stratum pool  *)
(* nonce1 still matches".                                                  *)
ResubmitMatches == [][SSendOk /\ tries > 0 => n1[scur] = nonce1]_vars

(* "all tracked submitted shares are lost and we will leak the memory if   *)
(* we don't discard their records": a record is not kept for ever.         *)
RecordsDiscarded == \A s \in Share : s \in stratum_shares ~> (s \notin stratum_shares \/ removed)

=============================================================================
