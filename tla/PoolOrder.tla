----------------------------- MODULE PoolOrder ------------------------------
(***************************************************************************)
(* What the priorities promise the operator: the pools stand in an order,  *)
(* best first, and it is changed by the operator's commands only.  A pool  *)
(* switched to comes first; those named by poolpriority come before all    *)
(* others; one that is added comes last; one that is removed leaves the    *)
(* others as they stood.                                                   *)
(***************************************************************************)
CONSTANTS Pool,
          None       \* no command under way; not a pool

VARIABLES listed,    \* the pools in use
          above,     \* <<p, q>>: p stands before q
          command    \* the pool about to be switched to, or "ordered"

StrictOrder(R, S) ==
  /\ R \subseteq S \X S
  /\ \A p, q \in S : <<p, q>> \in R => <<q, p>> \notin R
  /\ \A p, q \in S : p # q => <<p, q>> \in R \/ <<q, p>> \in R
  /\ \A p, q, r \in S : <<p, q>> \in R /\ <<q, r>> \in R => <<p, r>> \in R

Init == /\ listed \subseteq Pool
        /\ StrictOrder(above, listed)
        /\ command = None

-----------------------------------------------------------------------------

(* The pools named, in some order, go before the others, which keep theirs.*)
Prefer(named) ==
  /\ StrictOrder(above', listed)
  /\ \A p \in named, q \in listed \ named : <<p, q>> \in above'
  /\ \A p, q \in listed \ named : <<p, q>> \in above' <=> <<p, q>> \in above
  /\ UNCHANGED listed

Choose(p) == /\ command = None /\ command' = p
             /\ p \in listed
             /\ UNCHANGED <<listed, above>>

PutFirst(p) == /\ command = p /\ command' = None
               /\ p \in listed
               /\ Prefer({p})

Reorder == /\ command = None /\ command' = "ordered"
           /\ \E named \in SUBSET listed : named # {} /\ Prefer(named)

Settle == /\ command = "ordered" /\ command' = None
          /\ UNCHANGED <<listed, above>>

Add == /\ command = None /\ UNCHANGED command
       /\ \E p \in Pool \ listed : /\ listed' = listed \union {p}
                                  /\ above' = above \union (listed \X {p})

Remove == /\ command = None /\ UNCHANGED command
          /\ \E p \in listed \ listed' : listed' = listed \ {p}
          /\ above' = above \intersect (listed' \X listed')

Next == \/ \E p \in Pool : Choose(p) \/ PutFirst(p)
        \/ Reorder \/ Settle \/ Add \/ Remove

Spec == Init /\ [][Next]_<<listed, above, command>>

=============================================================================
