---------------------------- MODULE AtomicQueue -----------------------------
(***************************************************************************)
(* What a thread queue promises: items come out in the order in which they *)
(* went in, each once, until the queue is frozen, after which none goes in.*)
(***************************************************************************)
EXTENDS Sequences

CONSTANT Item

VARIABLES queue,      \* the items within
          delivered,  \* those that came out, in order
          shut        \* no item goes in any more

Init == /\ queue = <<>>
        /\ delivered = <<>>
        /\ shut = FALSE

Put(i) == /\ ~shut
          /\ queue' = Append(queue, i)
          /\ UNCHANGED <<delivered, shut>>

Get == /\ queue # <<>>
       /\ delivered' = Append(delivered, Head(queue))
       /\ queue' = Tail(queue)
       /\ UNCHANGED shut

Shut == /\ shut' = TRUE
        /\ UNCHANGED <<queue, delivered>>

Next == (\E i \in Item : Put(i)) \/ Get \/ Shut

Spec == Init /\ [][Next]_<<queue, delivered, shut>>

=============================================================================
