------------------------------ MODULE RecvLine ------------------------------
(***************************************************************************)
(* How the bytes of a stratum connection become lines: recv_line and its   *)
(* buffer, sockbuf, as the pool's receiver thread uses them.  The network  *)
(* cuts the stream where it likes.  A character is a part of a line, or    *)
(* the newline.                                                            *)
(*                                                                         *)
(* The receiver is                                                         *)
(*   loop    before its test whether there is anything to read             *)
(*   select  in its select, and within recv_line's wait for the socket:    *)
(*   wait    there is nothing in the socket; before recv                   *)
(*   token   before strtok                                                 *)
(*   lost    recv_line returned NULL: before restart_stratum               *)
(***************************************************************************)
EXTENDS Naturals, SequencesExt

CONSTANTS Line,      \* what the pool may send
          Parts,     \* characters of a line
          Newline,
          MaxLines   \* bound: lines of one session

ASSUME RecvAssumption == Parts \in Nat \ {0} /\ Newline \notin Line \X (1 .. Parts)

VARIABLES socket,    \* sent and not received
          closed,    \* the pool closed its end
          sockbuf,   \* pool->sockbuf
          rthread,   \* where the receiver is
          sending,   \* what the pool has still to send of its last line
          sent,      \* ghost: the lines of this session, the last one included
          got,       \* ghost: what recv_line returned in it
          damaged    \* ghost: the pool sent an empty line, or a wait ended in
                     \* the middle of a line

recvVars == <<socket, closed, sockbuf, rthread, sending, sent, got, damaged>>

Whole(l) == [i \in 1 .. Parts |-> <<l, i>>]

RecvInit == /\ socket = <<>> /\ closed = FALSE
            /\ sockbuf = <<>> /\ rthread = "loop"
            /\ sending = <<>> /\ sent = <<>> /\ got = <<>>
            /\ damaged = FALSE

-----------------------------------------------------------------------------
(* The pool.                                                               *)

StartLine == /\ ~closed /\ sending = <<>> /\ Len(sent) < MaxLines
             /\ \E l \in Line : /\ sending' = Append(Whole(l), Newline)
                               /\ sent' = Append(sent, l)
             /\ UNCHANGED <<socket, closed, sockbuf, rthread, got, damaged>>

\* The next n characters arrive.
Arrive == /\ ~closed
          /\ \E n \in 1 .. Len(sending) :
               /\ socket' = socket \o SubSeq(sending, 1, n)
               /\ sending' = SubSeq(sending, n + 1, Len(sending))
          /\ UNCHANGED <<closed, sockbuf, rthread, sent, got, damaged>>

EmptyLine == /\ ~closed /\ sending = <<>> /\ ~damaged
             /\ socket' = Append(socket, Newline)
             /\ damaged' = TRUE
             /\ UNCHANGED <<closed, sockbuf, rthread, sending, sent, got>>

Close == /\ ~closed
         /\ closed' = TRUE
         /\ UNCHANGED <<socket, sockbuf, rthread, sending, sent, got, damaged>>

-----------------------------------------------------------------------------
(* The receiver.                                                           *)

HasLine(buf) == \E i \in DOMAIN buf : buf[i] = Newline

\* The socket can be read: there is something, or the end of it.
Readable == socket # <<>> \/ closed

\* Faulty: what is in the buffer is forgotten.
SelectFirst == Readable

sock_full == sockbuf # <<>> \/ Readable

\* stratum_rthread goes to recv_line, which goes to the socket only if the
\* buffer has no whole line; otherwise it waits in its select.
Look == /\ rthread \in {"loop", "select"}
        /\ rthread' = IF ~sock_full THEN "select"
                      ELSE IF HasLine(sockbuf) THEN "token" ELSE "wait"
        /\ rthread' # rthread
        /\ UNCHANGED <<socket, closed, sockbuf, sending, sent, got, damaged>>

\* recv, and again until there is a whole line.
Recv == /\ rthread = "wait" /\ socket # <<>>
        /\ \E n \in 1 .. Len(socket) :
             /\ sockbuf' = sockbuf \o SubSeq(socket, 1, n)
             /\ socket' = SubSeq(socket, n + 1, Len(socket))
        /\ rthread' = IF HasLine(sockbuf') THEN "token" ELSE "wait"
        /\ UNCHANGED <<closed, sending, sent, got, damaged>>

\* The 60 seconds are over after a recv: what there is counts as a line.
WaitEnds == /\ rthread = "wait" /\ sockbuf # <<>>
            /\ rthread' = "token"
            /\ damaged' = TRUE
            /\ UNCHANGED <<socket, closed, sockbuf, sending, sent, got>>

\* suspend_stratum empties the buffer.
RecvFails == /\ rthread = "wait" /\ socket = <<>> /\ closed
             /\ sockbuf' = <<>>
             /\ rthread' = "token"
             /\ UNCHANGED <<socket, closed, sending, sent, got, damaged>>

\* Nothing comes: recv_line returns NULL, and so does a select of 90 s.
TimeOut == /\ rthread \in {"select", "wait"} /\ ~Readable
           /\ rthread' = "lost"
           /\ UNCHANGED <<socket, closed, sockbuf, sending, sent, got, damaged>>

\* Of strtok: the newlines before the token, and the token.
Skipped(buf) == CHOOSE k \in 0 .. Len(buf) :
                  /\ \A i \in 1 .. k : buf[i] = Newline
                  /\ k < Len(buf) => buf[k + 1] # Newline
Token(buf) ==
  LET k == Skipped(buf)
      n == CHOOSE m \in 0 .. Len(buf) - k :
             /\ \A i \in 1 .. m : buf[k + i] # Newline
             /\ k + m < Len(buf) => buf[k + m + 1] = Newline
  IN SubSeq(buf, k + 1, k + n)

\* Faulty: the newline stays.
RestOffByOne(buf, len) == SubSeq(buf, len + 1, Len(buf))

\* memmove takes what begins len + 1 after the start of the buffer, wherever
\* the token began; it ends where strtok put its zero, if that comes after.
Rest(buf, len) == IF Len(buf) <= len + 1 THEN <<>>
                  ELSE IF Skipped(buf) = 0 THEN SubSeq(buf, len + 2, Len(buf))
                  ELSE SubSeq(buf, len + 2, Skipped(buf) + len)

Tokenize == /\ rthread = "token" /\ Token(sockbuf) # <<>>
            /\ got' = Append(got, Token(sockbuf))
            /\ sockbuf' = Rest(sockbuf, Len(Token(sockbuf)))
            /\ rthread' = "loop"
            /\ UNCHANGED <<socket, closed, sending, sent, damaged>>

NoToken == /\ rthread = "token" /\ Token(sockbuf) = <<>>
           /\ rthread' = "lost"
           /\ UNCHANGED <<socket, closed, sockbuf, sending, sent, got, damaged>>

\* clear_sock, and the receiver connects again: nothing of the session is left.
restart_stratum == /\ rthread = "lost"
                   /\ socket' = <<>> /\ closed' = FALSE
                   /\ sockbuf' = <<>> /\ rthread' = "loop"
                   /\ sending' = <<>> /\ sent' = <<>> /\ got' = <<>>
                   /\ damaged' = FALSE

-----------------------------------------------------------------------------

Reading == Look \/ Recv \/ RecvFails \/ Tokenize \/ NoToken

RecvNext == \/ StartLine \/ Arrive \/ EmptyLine \/ Close
            \/ Reading \/ WaitEnds \/ TimeOut \/ restart_stratum

(* The receiver is scheduled; neither the pool nor a timeout owes anything.*)
RecvFairness == WF_recvVars(Reading)

RecvSpec == RecvInit /\ [][RecvNext]_recvVars /\ RecvFairness

-----------------------------------------------------------------------------
(* Properties.                                                             *)

(* What recv_line returns are the pool's lines, whole and in their order,  *)
(* however the network cut them, unless the pool sends an empty line, which*)
(* moves the buffer wrongly, or a wait ends in the middle of a line.       *)
LinesIntact == ~damaged => /\ Len(got) <= Len(sent)
                           /\ \A i \in DOMAIN got : got[i] = Whole(sent[i])

(* Every line sent is returned, or the connection is given up: the         *)
(* receiver does not wait for the socket while the buffer has a line.      *)
LinesReceived == \A n \in 1 .. MaxLines :
  (Len(sent) >= n /\ sending = <<>>) ~>
     (Len(got) >= n \/ Len(sent) < n \/ damaged \/ rthread = "lost")

=============================================================================
