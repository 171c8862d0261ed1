----------------------------- MODULE AtomicLock -----------------------------
(***************************************************************************)
(* What a cglock promises its callers: a lock with three modes, granted,   *)
(* converted and released in one step each.  Readers share the lock with   *)
(* each other and with one thread in intermediate mode; a writer is alone. *)
(***************************************************************************)
CONSTANT Thread

VARIABLE mode

Init == mode = [t \in Thread |-> "none"]

Others(t, allowed) == \A u \in Thread \ {t} : mode[u] \in allowed

Change(t, from, to) == mode[t] = from /\ mode' = [mode EXCEPT ![t] = to]

Read(t)      == Others(t, {"none", "read", "intent"}) /\ Change(t, "none", "read")
Intend(t)    == Others(t, {"none", "read"}) /\ Change(t, "none", "intent")
Write(t)     == Others(t, {"none"}) /\ Change(t, "none", "write")
Promote(t)   == Others(t, {"none"}) /\ Change(t, "intent", "write")
Demote(t)    == Change(t, "write", "intent")
Downgrade(t) == Change(t, "intent", "read")
Release(t)   == Change(t, "read", "none") \/ Change(t, "write", "none")

Next == \E t \in Thread :
  \/ Read(t) \/ Intend(t) \/ Write(t)
  \/ Promote(t) \/ Demote(t) \/ Downgrade(t) \/ Release(t)

Spec == Init /\ [][Next]_mode

=============================================================================
