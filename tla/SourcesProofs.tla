---------------------------- MODULE SourcesProofs ---------------------------
(***************************************************************************)
(* What lies between the pools and the queue of works, for every value of  *)
(* the constants, in three parts that share no state:                      *)
(*                                                                         *)
(*   GetworkShares  No handle of a getwork pool is lost or lent twice, and *)
(*                  who sleeps for one has somebody to wake him.           *)
(*   Quotas         Every period of the rotation is fair.                  *)
(*   RecvLine       recv_line returns the lines that were sent.            *)
(*                                                                         *)
(* Quotas and RecvLine compute with recursive functions and with CHOOSE    *)
(* over numbers.  Their proofs need induction, which is stated here without*)
(* operators as parameters: a set of numbers has a least element           *)
(* (LeastNatural), a set that contains 0 and every successor contains all  *)
(* (UpTo), and a recursion over 0 .. N has a solution (IterationExists).   *)
(***************************************************************************)
EXTENDS GetworkShares, Quotas, RecvLine,
        FiniteSetTheorems, SequenceTheorems, WellFoundedInduction, TLAPS

-----------------------------------------------------------------------------
(* Induction over numbers.                                                 *)

(* A set of numbers that is not empty has a least element.                 *)
LEMMA LeastNatural ==
  ASSUME NEW S \in SUBSET Nat, S # {}
  PROVE  \E n \in S : \A m \in S : n <= m
  <1> DEFINE R == OpToRel(<, Nat)
  <1>1. IsWellFoundedOn(R, Nat)
    BY NatLessThanWellFounded, Zenon
  <1>2. PICK n \in S : \A m \in S : <<m, n>> \notin R
    <2> HIDE DEF R
    <2> QED BY <1>1, WFMin
  <1>3. \A m \in S : ~(m < n)
    BY <1>2 DEF OpToRel
  <1> HIDE DEF R
  <1> QED BY <1>3

(* Of numbers that have a bound, one is the greatest.                      *)
LEMMA GreatestUpTo ==
  ASSUME NEW N \in Nat, NEW S \in SUBSET (0 .. N), S # {}
  PROVE  \E n \in S : \A m \in S : m <= n
  <1> DEFINE T == {N - m : m \in S}
  <1>1. T \in SUBSET Nat /\ T # {}
    <2>1. \A m \in S : N - m \in Nat
      OBVIOUS
    <2> QED BY <2>1
  <1>2. PICK t \in T : \A u \in T : t <= u
    <2> HIDE DEF T
    <2> QED BY <1>1, LeastNatural
  <1>3. PICK n \in S : t = N - n
    OBVIOUS
  <1>4. ASSUME NEW m \in S PROVE m <= n
    <2>1. N - m \in T /\ n \in Nat /\ m \in Nat
      OBVIOUS
    <2> QED BY <1>2, <1>3, <2>1
  <1> QED BY <1>4

(* Induction over 1 .. N: what holds of 0 and goes from each number to the *)
(* next holds of all.                                                      *)
LEMMA UpTo ==
  ASSUME NEW N \in Nat, NEW S, 0 \in S, \A i \in 1 .. N : i - 1 \in S => i \in S
  PROVE  0 .. N \subseteq S
  <1>1. SUFFICES ASSUME 0 .. N \ S # {} PROVE FALSE
    OBVIOUS
  <1>2. PICK n \in 0 .. N \ S : \A m \in 0 .. N \ S : n <= m
    <2>1. 0 .. N \ S \in SUBSET Nat
      OBVIOUS
    <2> QED BY <1>1, <2>1, LeastNatural
  <1>3. n \in 1 .. N /\ n - 1 \in S
    BY <1>2
  <1> QED BY <1>2, <1>3

(* f is defined by recursion over 0 .. N.                                  *)
Iterates(f, N, a, step) == f = [i \in 0 .. N |-> IF i = 0 THEN a ELSE step[i][f[i - 1]]]

(* What the steps of a recursion preserve holds of all its values.         *)
LEMMA IterationType ==
  ASSUME NEW N \in Nat, NEW A, NEW a \in A, NEW step \in [1 .. N -> [A -> A]],
         NEW f, Iterates(f, N, a, step)
  PROVE  f \in [0 .. N -> A]
  <1> DEFINE S == {i \in 0 .. N : f[i] \in A}
  <1>1. 0 \in S
    BY DEF Iterates
  <1>2. ASSUME NEW i \in 1 .. N, i - 1 \in S PROVE i \in S
    <2>1. f[i] = IF i = 0 THEN a ELSE step[i][f[i - 1]]
      BY i \in 0 .. N DEF Iterates
    <2>2. f[i] = step[i][f[i - 1]]
      BY <2>1
    <2> QED BY <1>2, <2>2
  <1>3. 0 .. N \subseteq S
    <2> HIDE DEF S
    <2> QED BY <1>1, <1>2, UpTo
  <1> QED BY <1>3 DEF Iterates

(* A recursion over 0 .. N has a solution: CHOOSE finds one.               *)
LEMMA IterationExists ==
  ASSUME NEW N \in Nat, NEW A, NEW a \in A, NEW step \in [1 .. N -> [A -> A]]
  PROVE  \E f : Iterates(f, N, a, step)
  <1> DEFINE S == {n \in 0 .. N : \E f : Iterates(f, n, a, step)}
  <1>1. 0 \in S
    <2>1. Iterates([i \in 0 .. 0 |-> a], 0, a, step)
      BY DEF Iterates
    <2>2. 0 \in 0 .. N
      OBVIOUS
    <2> QED BY <2>1, <2>2
  <1>2. ASSUME NEW m \in 1 .. N, m - 1 \in S PROVE m \in S
    <2>1. PICK f : Iterates(f, m - 1, a, step)
      BY <1>2
    <2> DEFINE g == [i \in 0 .. m |-> IF i = m THEN step[m][f[m - 1]] ELSE f[i]]
    <2>2. ASSUME NEW i \in 0 .. m PROVE g[i] = IF i = 0 THEN a ELSE step[i][g[i - 1]]
      <3>1. CASE i = m
        BY <3>1
      <3>2. CASE i # m
        <4>1. i \in 0 .. m - 1 /\ (i # 0 => i - 1 \in 0 .. m /\ i - 1 # m)
          BY <3>2
        <4>2. g[i] = f[i] /\ (i # 0 => g[i - 1] = f[i - 1])
          BY <4>1
        <4>3. f[i] = IF i = 0 THEN a ELSE step[i][f[i - 1]]
          BY <2>1, <4>1 DEF Iterates
        <4> QED BY <4>2, <4>3
      <3> QED BY <3>1, <3>2
    <2>3. g = [i \in 0 .. m |-> g[i]]
      OBVIOUS
    <2>4. [i \in 0 .. m |-> g[i]] = [i \in 0 .. m |-> IF i = 0 THEN a ELSE step[i][g[i - 1]]]
      <3> HIDE DEF g
      <3> QED BY <2>2
    <2>5. Iterates(g, m, a, step)
      <3> HIDE DEF g
      <3> QED BY <2>3, <2>4 DEF Iterates
    <2> QED BY <2>5
  <1>3. 0 .. N \subseteq S
    <2> HIDE DEF S
    <2> QED BY <1>1, <1>2, UpTo
  <1> QED BY <1>3

-----------------------------------------------------------------------------
(* GetworkShares: three steps move a handle.                               *)

Places  == {"idle", "pop", "asleep", "call", "failed", "push", "done"}
Holding == {"call", "failed", "push"}

SharesOK == /\ outcome \in [Share -> {"none", "result", "stale", "dropped", "twice"}]
            /\ \A s \in Share : /\ outcome[s] # "twice"
                               /\ bpc[s] \in {"push", "done"} <=> outcome[s] # "none"

CurlInv == HandlesConserved /\ IsFiniteSet(Lent) /\ SleepersHaveAWaker /\ SharesOK

(* The ring and the hands, as sets.                                        *)
LEMMA RingOK ==
  ASSUME ring \in Seq(Handle)
  PROVE  /\ Len(ring) \in Nat /\ DOMAIN ring = 1 .. Len(ring)
         /\ \A i \in 1 .. Len(ring) : ring[i] \in Handle /\ ring[i] \in Idle
         /\ \A h \in Idle : h \in Handle /\ \E i \in 1 .. Len(ring) : ring[i] = h
         /\ ring = <<>> <=> Len(ring) = 0
  <1>1. Len(ring) \in Nat /\ DOMAIN ring = 1 .. Len(ring)
    BY LenProperties
  <1>2. \A i \in 1 .. Len(ring) : ring[i] \in Handle
    BY ElementOfSeq
  <1>3. ring = <<>> <=> Len(ring) = 0
    BY <1>1, EmptySeq
  <1> QED BY <1>1, <1>2, <1>3 DEF Idle

LEMMA CurlInitOK == CurlInit => CurlInv
  <1> SUFFICES ASSUME CurlInit PROVE CurlInv
    OBVIOUS
  <1>1. Lent = {} /\ IsFiniteSet(Lent) /\ Cardinality(Lent) = 0
    <2>1. Lent = {}
      BY DEF CurlInit, Lent
    <2> QED BY <2>1, FS_EmptySet
  <1>2. ring \in Seq(Handle) /\ Len(ring) = 0 /\ DOMAIN ring = {}
    BY EmptySeq DEF CurlInit
  <1>3. HandlesConserved
    BY <1>1, <1>2, CurlAssumption DEF CurlInit, HandlesConserved, Idle, Borrower
  <1>4. SleepersHaveAWaker /\ SharesOK
    BY DEF CurlInit, SleepersHaveAWaker, SharesOK, Borrower
  <1> QED BY <1>1, <1>3, <1>4 DEF CurlInv

(* A thread goes on without taking or giving a handle, and does not fall   *)
(* asleep.                                                                 *)
LEMMA Elsewhere ==
  ASSUME CurlInv, NEW t \in Borrower, NEW to \in Places \ {"asleep"},
         bpc' = [bpc EXCEPT ![t] = to], bpc[t] \in Holding <=> to \in Holding,
         UNCHANGED <<ring, curls, lent>>
  PROVE  HandlesConserved' /\ IsFiniteSet(Lent)' /\ SleepersHaveAWaker'
  <1>1. Lent' = Lent /\ Idle' = Idle
    BY DEF Lent, Idle
  <1>2. HandlesConserved'
    BY <1>1 DEF CurlInv, HandlesConserved, Places, Holding
  <1>3. SleepersHaveAWaker'
    BY <1>1 DEF CurlInv, HandlesConserved, SleepersHaveAWaker
  <1> QED BY <1>1, <1>2, <1>3 DEF CurlInv

(* A thread that has none takes the handle h.                              *)
LEMMA Lend ==
  ASSUME CurlInv, NEW t \in Borrower, NEW h \in Handle \ Lent,
         lent[t] = NoHandle, lent' = [lent EXCEPT ![t] = h]
  PROVE  /\ Lent' = Lent \union {h}
         /\ IsFiniteSet(Lent) /\ IsFiniteSet(Lent')
         /\ Cardinality(Lent) \in Nat /\ Cardinality(Lent') = Cardinality(Lent) + 1
         /\ \A u, v \in Borrower : u # v /\ lent'[u] # NoHandle => lent'[u] # lent'[v]
  <1>1. lent \in [Borrower -> Handle \union {NoHandle}] /\ h # NoHandle
    BY CurlAssumption DEF CurlInv, HandlesConserved
  <1>2. Lent' = Lent \union {h}
    BY <1>1 DEF Lent
  <1>3. IsFiniteSet(Lent)
    BY DEF CurlInv
  <1>4. \A u \in Borrower : lent[u] # h
    BY <1>1 DEF Lent
  <1>5. \A u, v \in Borrower : u # v /\ lent'[u] # NoHandle => lent'[u] # lent'[v]
    BY <1>1, <1>4 DEF CurlInv, HandlesConserved
  <1> QED BY <1>2, <1>3, <1>5, FS_AddElement, FS_CardinalityType

LEMMA TakeHandleOK ==
  ASSUME CurlInv, NEW t \in Borrower, bpc[t] = "pop", TakeHandle(t)
  PROVE  HandlesConserved' /\ IsFiniteSet(Lent)' /\ SleepersHaveAWaker'
  <1>1. /\ ring \in Seq(Handle) /\ curls \in 0 .. CurlLimit /\ lent[t] = NoHandle
        /\ curls = Len(ring) + Cardinality(Lent) /\ CurlLimit \in Nat \ {0}
        /\ Cardinality(Lent) \in Nat
    BY CurlAssumption, FS_CardinalityType DEF CurlInv, HandlesConserved
  <1>2. /\ bpc' \in [Borrower -> Places]
        /\ bpc'[t] = "call" /\ \A u \in Borrower \ {t} : bpc'[u] = bpc[u]
    BY DEF TakeHandle, CurlInv, HandlesConserved, Places
  <1>3. CASE ring # <<>> /\ lent' = [lent EXCEPT ![t] = Head(ring)] /\ ring' = Tail(ring)
             /\ UNCHANGED curls
    <2> DEFINE h == Head(ring)
               n == Len(ring)
    <2>1. /\ n \in Nat \ {0} /\ h \in Handle /\ h = ring[1]
          /\ ring' \in Seq(Handle) /\ Len(ring') = n - 1
          /\ \A i \in 1 .. n - 1 : ring'[i] = ring[i + 1]
          /\ DOMAIN ring = 1 .. n /\ DOMAIN ring' = 1 .. n - 1
      BY <1>1, <1>3, HeadTailProperties, LenProperties, EmptySeq
    <2>2. h \in Idle /\ h \notin Lent
      BY <2>1 DEF Idle, CurlInv, HandlesConserved
    <2> HIDE DEF h, n
    <2>3. /\ Lent' = Lent \union {h} /\ IsFiniteSet(Lent')
          /\ Cardinality(Lent') = Cardinality(Lent) + 1
          /\ \A u, v \in Borrower : u # v /\ lent'[u] # NoHandle => lent'[u] # lent'[v]
      BY <1>1, <1>3, <2>1, <2>2, Lend DEF h
    <2>4. /\ Idle' \subseteq Idle /\ h \notin Idle'
          /\ \A i, j \in DOMAIN ring' : ring'[i] = ring'[j] => i = j
      <3>1. \A i, j \in 1 .. n : ring[i] = ring[j] => i = j
        BY <2>1 DEF CurlInv, HandlesConserved
      <3>2. \A i \in DOMAIN ring' : i + 1 \in 1 .. n /\ ring'[i] = ring[i + 1]
        BY <2>1
      <3>3. Idle' \subseteq Idle /\ h \notin Idle'
        BY <2>1, <3>1, <3>2 DEF Idle
      <3>4. ASSUME NEW i \in DOMAIN ring', NEW j \in DOMAIN ring', ring'[i] = ring'[j]
            PROVE  i = j
        <4>1. i + 1 = j + 1
          BY <3>1, <3>2, <3>4
        <4> QED BY <2>1, <4>1
      <3> QED BY <3>3, <3>4
    <2>5. lent' \in [Borrower -> Handle \union {NoHandle}]
      BY <1>3, <2>1 DEF h, CurlInv, HandlesConserved
    <2>6. \A u \in Borrower : lent'[u] # NoHandle <=> bpc'[u] \in Holding
      BY <1>2, <1>3, <2>1, CurlAssumption DEF h, CurlInv, HandlesConserved, Holding
    <2>7. curls' = Len(ring') + Cardinality(Lent') /\ curls' \in 0 .. CurlLimit
      BY <1>1, <1>3, <2>1, <2>3 DEF n
    <2>8. Lent' \intersect Idle' = {}
      BY <2>3, <2>4 DEF CurlInv, HandlesConserved
    <2>9. HandlesConserved'
      BY <1>2, <2>1, <2>3, <2>4, <2>5, <2>6, <2>7, <2>8 DEF HandlesConserved, Places, Holding
    <2>10. SleepersHaveAWaker'
      BY <1>2, <1>3 DEF CurlInv, SleepersHaveAWaker
    <2> QED BY <2>3, <2>9, <2>10
  <1>4. CASE /\ curls = 0 \/ (ring = <<>> /\ curls < CurlLimit)
             /\ \E h \in Handle \ (Lent \union Idle) : lent' = [lent EXCEPT ![t] = h]
             /\ curls' = curls + 1 /\ UNCHANGED ring
    <2>1. PICK h \in Handle \ (Lent \union Idle) : lent' = [lent EXCEPT ![t] = h]
      BY <1>4
    <2>2. /\ Lent' = Lent \union {h} /\ IsFiniteSet(Lent')
          /\ Cardinality(Lent') = Cardinality(Lent) + 1
          /\ \A u, v \in Borrower : u # v /\ lent'[u] # NoHandle => lent'[u] # lent'[v]
      BY <1>1, <2>1, Lend
    <2>3. Idle' = Idle
      BY <1>4 DEF Idle
    <2>4. lent' \in [Borrower -> Handle \union {NoHandle}]
      BY <2>1 DEF CurlInv, HandlesConserved
    <2>5. \A u \in Borrower : lent'[u] # NoHandle <=> bpc'[u] \in Holding
      BY <1>2, <2>1, CurlAssumption DEF CurlInv, HandlesConserved, Holding
    <2>6. Len(ring) \in Nat
      BY <1>1, LenProperties
    <2>7. curls' = Len(ring') + Cardinality(Lent') /\ curls' \in 0 .. CurlLimit
      BY <1>1, <1>4, <2>2, <2>6
    <2>8. Lent' \intersect Idle' = {}
      BY <2>1, <2>2, <2>3 DEF CurlInv, HandlesConserved
    <2>9. HandlesConserved'
      BY <1>2, <1>4, <2>2, <2>4, <2>5, <2>7, <2>8 DEF CurlInv, HandlesConserved, Places, Holding
    <2>10. SleepersHaveAWaker'
      <3>1. ring = <<>>
        BY <1>1, <1>4, <2>6, RingOK
      <3> QED BY <1>4, <2>2, <3>1 DEF SleepersHaveAWaker
    <2> QED BY <2>2, <2>9, <2>10
  <1> QED BY <1>3, <1>4 DEF TakeHandle

(* Where the limit is reached and none is idle, somebody has one.          *)
LEMMA pop_curl_entryOK ==
  ASSUME CurlInv, NEW t \in Borrower, pop_curl_entry(t)
  PROVE  CurlInv'
  <1>1. HandlesConserved' /\ IsFiniteSet(Lent)' /\ SleepersHaveAWaker'
    <2>1. CASE TakeHandle(t)
      BY <2>1, TakeHandleOK DEF pop_curl_entry
    <2>2. CASE /\ curls >= CurlLimit /\ ring = <<>>
               /\ bpc' = [bpc EXCEPT ![t] = "asleep"]
               /\ UNCHANGED <<ring, curls, lent>>
      <3>1. Lent' = Lent /\ Idle' = Idle
        BY <2>2 DEF Lent, Idle
      <3>2. Lent # {}
        BY <2>2, FS_EmptySet, EmptySeq, CurlAssumption DEF CurlInv, HandlesConserved
      <3>3. HandlesConserved'
        BY <2>2, <3>1 DEF pop_curl_entry, CurlInv, HandlesConserved
      <3>4. SleepersHaveAWaker'
        BY <2>2, <3>1, <3>2 DEF SleepersHaveAWaker
      <3> QED BY <3>1, <3>3, <3>4 DEF CurlInv
    <2> QED BY <2>1, <2>2 DEF pop_curl_entry
  <1>2. SharesOK'
    BY DEF pop_curl_entry, TakeHandle, CurlInv, SharesOK, HandlesConserved, Borrower
  <1> QED BY <1>1, <1>2 DEF CurlInv

-----------------------------------------------------------------------------
(* A handle comes back, or goes.                                           *)

(* All that sleep are woken.                                               *)
LEMMA push_curl_entryOK ==
  ASSUME CurlInv, NEW t \in Borrower, push_curl_entry(t)
  PROVE  CurlInv'
  <1> DEFINE h == lent[t]
             n == Len(ring)
  <1>1. /\ ring \in Seq(Handle) /\ curls \in 0 .. CurlLimit /\ h \in Handle
        /\ curls = n + Cardinality(Lent) /\ h # NoHandle /\ h \in Lent
        /\ lent \in [Borrower -> Handle \union {NoHandle}]
        /\ bpc \in [Borrower -> Places]
    BY CurlAssumption DEF push_curl_entry, GiveBack, CurlInv, HandlesConserved, Lent, Places
  <1>2. /\ lent' = [lent EXCEPT ![t] = NoHandle] /\ ring' = Append(ring, h) /\ bpc[t] = "push"
        /\ UNCHANGED <<curls, outcome>>
        /\ bpc' = [b \in Borrower |-> CASE b = t /\ t = Main -> "idle"
                                        [] b = t -> "done"
                                        [] bpc[b] = "asleep" /\ TRUE -> "pop"
                                        [] OTHER -> bpc[b]]
    BY DEF push_curl_entry, GiveBack
  <1>3. /\ bpc'[t] \in {"idle", "done"}
        /\ t \in Share => bpc'[t] = "done"
        /\ \A u \in Borrower \ {t} : IF bpc[u] = "asleep" THEN bpc'[u] = "pop"
                                                         ELSE bpc'[u] = bpc[u]
        /\ bpc' \in [Borrower -> Places]
    BY <1>1, <1>2, CurlAssumption DEF Places
  <1>4. /\ n \in Nat /\ ring' \in Seq(Handle) /\ Len(ring') = n + 1
        /\ \A i \in 1 .. n : ring'[i] = ring[i]
        /\ ring'[n + 1] = h /\ DOMAIN ring = 1 .. n /\ DOMAIN ring' = 1 .. n + 1
    BY <1>1, <1>2, AppendProperties, LenProperties
  <1> HIDE DEF h, n
  <1>5. /\ Lent' = Lent \ {h} /\ IsFiniteSet(Lent')
        /\ Cardinality(Lent') = Cardinality(Lent) - 1 /\ Cardinality(Lent) \in Nat
    <2>1. IsFiniteSet(Lent)
      BY DEF CurlInv
    <2>2. \A u \in Borrower : u # t => lent[u] # h
      BY <1>1 DEF h, CurlInv, HandlesConserved
    <2>3. Lent' = Lent \ {h}
      BY <1>1, <1>2, <2>2 DEF h, Lent
    <2> QED BY <1>1, <2>1, <2>3, FS_RemoveElement, FS_CardinalityType
  <1>6. Idle' = Idle \union {h} /\ h \notin Idle
    <2>1. h \notin Idle
      BY <1>1 DEF CurlInv, HandlesConserved
    <2> QED BY <1>4, <2>1 DEF Idle
  <1>7. \A i, j \in DOMAIN ring' : ring'[i] = ring'[j] => i = j
    <2>1. \A i, j \in 1 .. n : ring[i] = ring[j] => i = j
      BY <1>4 DEF CurlInv, HandlesConserved
    <2>2. \A i \in 1 .. n : ring[i] # h
      BY <1>4, <1>6 DEF Idle
    <2> QED BY <1>4, <2>1, <2>2
  <1>8. lent' \in [Borrower -> Handle \union {NoHandle}]
    BY <1>1, <1>2
  <1>9. \A u \in Borrower : lent'[u] # NoHandle <=> bpc'[u] \in Holding
    BY <1>1, <1>2, <1>3 DEF CurlInv, HandlesConserved, Holding
  <1>10. \A u, v \in Borrower : u # v /\ lent'[u] # NoHandle => lent'[u] # lent'[v]
    BY <1>1, <1>2 DEF CurlInv, HandlesConserved
  <1>11. curls' = Len(ring') + Cardinality(Lent') /\ curls' \in 0 .. CurlLimit
    BY <1>1, <1>2, <1>4, <1>5
  <1>12. Lent' \intersect Idle' = {}
    BY <1>5, <1>6 DEF CurlInv, HandlesConserved
  <1>13. HandlesConserved'
    BY <1>3, <1>4, <1>7, <1>8, <1>9, <1>10, <1>11, <1>12 DEF HandlesConserved, Places, Holding
  <1>14. SleepersHaveAWaker'
    BY <1>3 DEF SleepersHaveAWaker
  <1>15. SharesOK'
    BY <1>2, <1>3 DEF CurlInv, SharesOK, Borrower
  <1> QED BY <1>5, <1>13, <1>14, <1>15 DEF CurlInv

(* Nobody sleeps while there is one to reap.                               *)
LEMMA reap_curlOK ==
  ASSUME CurlInv, reap_curl
  PROVE  CurlInv'
  <1> PICK k \in 1 .. Len(ring) : /\ curls > k
                                  /\ ring' = SubSeq(ring, k + 1, Len(ring))
                                  /\ curls' = curls - k
    BY DEF reap_curl
  <1> DEFINE n == Len(ring)
  <1>1. /\ ring \in Seq(Handle) /\ curls \in 0 .. CurlLimit /\ n \in Nat /\ n # 0
        /\ curls = n + Cardinality(Lent) /\ Cardinality(Lent) \in Nat /\ CurlLimit \in Nat
        /\ \A i \in 1 .. n : ring[i] \in Handle /\ ring[i] \in Idle
        /\ ring # <<>> /\ DOMAIN ring = 1 .. n
    BY RingOK, CurlAssumption, FS_CardinalityType DEF CurlInv, HandlesConserved
  <1>2. /\ ring' \in Seq(Handle) /\ Len(ring') = n - k
        /\ \A i \in 1 .. n - k : ring'[i] = ring[k + i]
    <2>1. \A i \in k + 1 .. n : ring[i] \in Handle
      BY <1>1
    <2>2. /\ SubSeq(ring, k + 1, n) \in Seq(Handle)
          /\ Len(SubSeq(ring, k + 1, n)) = IF k + 1 <= n THEN n - (k + 1) + 1 ELSE 0
          /\ \A i \in 1 .. n - (k + 1) + 1 : SubSeq(ring, k + 1, n)[i] = ring[(k + 1) + i - 1]
      BY <1>1, <2>1, SubSeqProperties
    <2>3. k \in 1 .. n
      OBVIOUS
    <2> DEFINE r == SubSeq(ring, k + 1, n)
    <2>4. ring' = r
      OBVIOUS
    <2> HIDE DEF n, r
    <2>5. Len(r) = n - k
      BY <1>1, <2>2, <2>3 DEF r
    <2>6. ASSUME NEW i \in 1 .. n - k PROVE r[i] = ring[k + i]
      <3>1. i \in 1 .. n - (k + 1) + 1 /\ (k + 1) + i - 1 = k + i
        BY <1>1, <2>3
      <3>2. r[i] = ring[(k + 1) + i - 1]
        BY <2>2, <3>1 DEF r
      <3> QED BY <3>1, <3>2
    <2>7. r \in Seq(Handle)
      BY <2>2 DEF r
    <2> QED BY <2>4, <2>5, <2>6, <2>7
  <1>3. DOMAIN ring' = 1 .. n - k
    BY <1>2, LenProperties
  <1> HIDE DEF n
  <1>4. k \in 1 .. n
    BY DEF n
  <1>5. \A i \in DOMAIN ring' : k + i \in 1 .. n /\ ring'[i] = ring[k + i]
    BY <1>1, <1>2, <1>3, <1>4
  <1>6. Idle' \subseteq Idle
    <2>1. \A i \in DOMAIN ring' : ring'[i] \in Idle
      BY <1>1, <1>5
    <2> HIDE DEF n
    <2> QED BY <2>1 DEF Idle
  <1>7. ASSUME NEW i \in DOMAIN ring', NEW j \in DOMAIN ring', ring'[i] = ring'[j]
        PROVE  i = j
    <2>1. k + i = k + j
      BY <1>1, <1>5, <1>7 DEF CurlInv, HandlesConserved
    <2> QED BY <1>1, <1>3, <1>4, <2>1
  <1>8. Lent' = Lent /\ UNCHANGED <<bpc, lent, outcome>>
    BY DEF reap_curl, Lent
  <1>9. curls' = Len(ring') + Cardinality(Lent') /\ curls' \in 0 .. CurlLimit
    BY <1>1, <1>2, <1>4, <1>8
  <1>10. HandlesConserved'
    BY <1>2, <1>6, <1>7, <1>8, <1>9 DEF CurlInv, HandlesConserved
  <1>11. SleepersHaveAWaker' /\ SharesOK'
    BY <1>1, <1>8 DEF CurlInv, SleepersHaveAWaker, SharesOK
  <1> QED BY <1>8, <1>10, <1>11 DEF CurlInv

-----------------------------------------------------------------------------
(* The steps of a thread alone, and all of them.                           *)

LEMMA ShareStepOK ==
  ASSUME CurlInv, NEW s \in Share,
         \/ submit_work_async(s) \/ Answered(s) \/ CallFails(s) \/ Discard(s)
         \/ BecameStale(s) \/ Retry(s)
  PROVE  CurlInv'
  <1> USE DEF submit_work_async, Answered, CallFails, Discard, BecameStale, Retry, GoTo, Settle
  <1>1. s \in Borrower /\ UNCHANGED <<ring, curls, lent>>
    BY DEF Borrower
  <1>2. PICK to \in {"pop", "done", "push", "failed", "call"} :
          /\ bpc' = [bpc EXCEPT ![s] = to]
          /\ bpc[s] \in Holding <=> to \in Holding
    BY DEF Holding
  <1>3. HandlesConserved' /\ IsFiniteSet(Lent)' /\ SleepersHaveAWaker'
    BY <1>1, <1>2, Elsewhere DEF Places
  <1>4. SharesOK'
    BY <1>1 DEF CurlInv, HandlesConserved, SharesOK, Borrower
  <1> QED BY <1>3, <1>4 DEF CurlInv

LEMMA OtherStepOK ==
  ASSUME CurlInv, NEW t \in Borrower,
         \/ SpuriousWakeup(t)
         \/ t = Main /\ (NeedWork \/ GotWork \/ GetFails \/ GetFailed)
  PROVE  CurlInv'
  <1> USE DEF SpuriousWakeup, NeedWork, GotWork, GetFails, GetFailed, GoTo
  <1>1. UNCHANGED <<ring, curls, lent, outcome>>
    OBVIOUS
  <1>2. PICK to \in {"pop", "push", "failed"} :
          /\ bpc' = [bpc EXCEPT ![t] = to]
          /\ bpc[t] \in Holding <=> to \in Holding
          /\ bpc[t] \notin {"push", "done"}
          /\ to = "push" => t = Main
    BY DEF Holding
  <1>3. HandlesConserved' /\ IsFiniteSet(Lent)' /\ SleepersHaveAWaker'
    BY <1>1, <1>2, Elsewhere DEF Places
  <1>4. SharesOK'
    BY <1>1, <1>2, CurlAssumption DEF CurlInv, HandlesConserved, SharesOK, Borrower
  <1> QED BY <1>3, <1>4 DEF CurlInv

LEMMA HandlesStay ==
  ASSUME CurlInv, UNCHANGED <<ring, curls, bpc, lent, outcome>>
  PROVE  CurlInv'
  <1>1. Lent' = Lent /\ Idle' = Idle
    BY DEF Lent, Idle
  <1> QED BY <1>1 DEF CurlInv, HandlesConserved, SleepersHaveAWaker, SharesOK

LEMMA CurlStepOK == CurlInv /\ [CurlNext]_curlVars => CurlInv'
  <1> SUFFICES ASSUME CurlInv, [CurlNext]_curlVars PROVE CurlInv'
    OBVIOUS
  <1>1. ASSUME NEW s \in Share, Age(s) \/ submit_work_async(s) \/ submit_work_thread(s)
        PROVE  CurlInv'
    <2>1. s \in Borrower
      BY DEF Borrower
    <2>2. CASE Age(s)
      BY <2>2, HandlesStay DEF Age
    <2>3. CASE submit_work_async(s)
      BY <2>3, ShareStepOK
    <2>4. CASE submit_work_thread(s)
      BY <2>1, <2>4, ShareStepOK, pop_curl_entryOK, push_curl_entryOK DEF submit_work_thread
    <2> QED BY <1>1, <2>2, <2>3, <2>4
  <1>2. ASSUME NEW t \in Borrower, SpuriousWakeup(t) PROVE CurlInv'
    BY <1>2, OtherStepOK
  <1>3. CASE NeedWork \/ GetWork
    <2>1. Main \in Borrower
      BY DEF Borrower
    <2> QED BY <1>3, <2>1, OtherStepOK, pop_curl_entryOK, push_curl_entryOK DEF GetWork
  <1>4. CASE UNCHANGED curlVars
    BY <1>4, HandlesStay DEF curlVars
  <1> QED BY <1>1, <1>2, <1>3, <1>4, reap_curlOK DEF CurlNext

LEMMA CurlInvariant == CurlSpec => []CurlInv
  BY CurlInitOK, CurlStepOK, PTL DEF CurlSpec

(* Every handle that is counted is in the ring or lent, to one thread, and *)
(* there are no more than the limit.                                       *)
THEOREM Conserved == CurlSpec => []HandlesConserved
  BY CurlInvariant, PTL DEF CurlInv

(* Nobody sleeps for a handle while one is idle or nobody has any.         *)
THEOREM AlwaysAWaker == CurlSpec => []SleepersHaveAWaker
  BY CurlInvariant, PTL DEF CurlInv

(* A share has one outcome, and has it before its handle goes back.        *)
THEOREM OneOutcome == CurlSpec => []SettledOnce
  <1>1. CurlInv => SettledOnce
    BY DEF CurlInv, SharesOK, SettledOnce
  <1> QED BY <1>1, CurlInvariant, PTL

-----------------------------------------------------------------------------
(* Quotas.                                                                 *)

(* The loop of adjust_quota_gcd ends at a divisor, or where it began.      *)
LEMMA LowerBounds ==
  ASSUME NEW gcd \in Nat \ {0}, NEW q \in Nat
  PROVE  Lower(gcd, q) \in 1 .. gcd
  <1>1. CASE q = 0
    BY <1>1 DEF Lower
  <1>2. CASE q # 0
    <2> DEFINE D == {d \in 1 .. gcd : q % d = 0}
    <2>1. D \in SUBSET (0 .. gcd) /\ 1 \in D
      OBVIOUS
    <2>2. PICK d \in D : \A e \in D : e <= d
      <3> HIDE DEF D
      <3> QED BY <2>1, GreatestUpTo
    <2>3. d \in 1 .. gcd /\ q % d = 0 /\ \A e \in d + 1 .. gcd : q % e # 0
      <3>1. ASSUME NEW e \in d + 1 .. gcd, q % e = 0 PROVE FALSE
        <4>1. e \in D
          BY <3>1
        <4> QED BY <2>2, <4>1
      <3> QED BY <3>1
    <2>4. \E x \in 1 .. gcd : q % x = 0 /\ \A e \in x + 1 .. gcd : q % e # 0
      BY <2>3
    <2>5. (CHOOSE x \in 1 .. gcd : /\ q % x = 0
                                  /\ \A e \in x + 1 .. gcd : q % e # 0) \in 1 .. gcd
      BY <2>4
    <2> QED BY <1>2, <2>5 DEF Lower
  <1> QED BY <1>1, <1>2

(* The lowest quota is one, and no other is lower.                         *)
LEMMA LowestIsLeast ==
  ASSUME NEW qs \in SUBSET Nat, qs # {}
  PROVE  Lowest(qs) \in qs /\ \A r \in qs : Lowest(qs) <= r
  <1>1. \E q \in qs : \A r \in qs : q <= r
    BY LeastNatural
  <1> QED BY <1>1 DEF Lowest

(* What adjust_quota_gcd divides by is positive and no greater than any    *)
(* quota that is not zero, whether it is the greatest divisor or not.      *)
LEMMA WalkGcdBounds ==
  ASSUME NEW q \in [Site -> Nat], NEW s \in [Site -> Site], NEW n \in Nat, 0 .. n - 1 \subseteq Site
  PROVE  /\ WalkGcd(q, s, n) \in Nat \ {0}
         /\ \A i \in 0 .. n - 1 : q[s[i]] # 0 => WalkGcd(q, s, n) <= q[s[i]]
  <1> DEFINE some == {q[s[i]] : i \in 0 .. n - 1} \ {0}
             L == Lowest(some)
             Gcds(g) == g = [i \in 0 .. n |-> IF i = 0 THEN L ELSE Lower(g[i - 1], q[s[i - 1]])]
             gcd == CHOOSE g : Gcds(g)
  <1>1. WalkGcd(q, s, n) = IF some = {} THEN 1 ELSE gcd[n]
    BY DEF WalkGcd
  <1>2. some \in SUBSET Nat
    OBVIOUS
  <1>3. CASE some = {}
    BY <1>1, <1>3
  <1>4. CASE some # {}
    <2>1. L \in some /\ \A i \in 0 .. n - 1 : q[s[i]] # 0 => L <= q[s[i]]
      <3>1. L \in some /\ \A r \in some : L <= r
        <4> HIDE DEF some
        <4> QED BY <1>2, <1>4, LowestIsLeast
      <3> QED BY <3>1
    <2>2. L \in Nat \ {0}
      BY <2>1, <1>2
    <2> HIDE DEF L
    <2> DEFINE step == [i \in 1 .. n |-> [g \in 1 .. L |-> Lower(g, q[s[i - 1]])]]
    <2>3. ASSUME NEW i \in 1 .. n, NEW g \in 1 .. L
          PROVE  Lower(g, q[s[i - 1]]) \in 1 .. L
      <3>1. q[s[i - 1]] \in Nat
        OBVIOUS
      <3>2. Lower(g, q[s[i - 1]]) \in 1 .. g
        BY <2>2, <3>1, LowerBounds
      <3> QED BY <2>2, <3>2
    <2>4. step \in [1 .. n -> [1 .. L -> 1 .. L]]
      BY <2>3
    <2>5. \E g : Gcds(g)
      <3>1. L \in 1 .. L
        BY <2>2
      <3>2. PICK g : Iterates(g, n, L, step)
        <4> HIDE DEF step
        <4> QED BY <2>4, <3>1, IterationExists
      <3>3. g \in [0 .. n -> 1 .. L]
        <4> HIDE DEF step
        <4> QED BY <2>4, <3>1, <3>2, IterationType
      <3>4. ASSUME NEW i \in 0 .. n
            PROVE  g[i] = IF i = 0 THEN L ELSE Lower(g[i - 1], q[s[i - 1]])
        <4>1. CASE i = 0
          BY <3>2, <4>1 DEF Iterates
        <4>2. CASE i # 0
          <5>1. i \in 1 .. n /\ g[i - 1] \in 1 .. L
            BY <3>3, <4>2
          <5>2. g[i] = step[i][g[i - 1]]
            BY <3>2, <4>2 DEF Iterates
          <5> QED BY <4>2, <5>1, <5>2
        <4> QED BY <4>1, <4>2
      <3>5. g = [i \in 0 .. n |-> g[i]]
        BY <3>3
      <3>6. Gcds(g)
        BY <3>4, <3>5
      <3> QED BY <3>6
    <2>6. Gcds(gcd)
      <3> HIDE DEF Gcds
      <3> QED BY <2>5
    <2> HIDE DEF gcd
    <2>7. gcd[n] \in 1 .. L
      <3> DEFINE S == {i \in 0 .. n : gcd[i] \in 1 .. L}
      <3>1. 0 \in S
        BY <2>2, <2>6
      <3>2. ASSUME NEW i \in 1 .. n, i - 1 \in S PROVE i \in S
        <4>1. gcd[i] = Lower(gcd[i - 1], q[s[i - 1]])
          BY <2>6, i \in 0 .. n
        <4> QED BY <2>3, <3>2, <4>1
      <3>3. 0 .. n \subseteq S
        <4> HIDE DEF S
        <4> QED BY <3>1, <3>2, UpTo
      <3> QED BY <3>3
    <2> HIDE DEF some, Gcds
    <2>8. WalkGcd(q, s, n) \in 1 .. L
      BY <1>1, <1>4, <2>7
    <2> QED BY <2>1, <2>2, <2>8
  <1> QED BY <1>3, <1>4

-----------------------------------------------------------------------------

N == Cardinality(Site)

(* The pools are numbered from 0.                                          *)
LEMMA SiteIs == N \in Nat /\ Site = 0 .. N - 1
  BY QuotasAssumption, FS_CardinalityType DEF N

LEMMA NoSiteIsNone == NoSite \notin Site
  BY SiteIs DEF NoSite

(* quota_used may be any integer: a work discarded unhashed takes one off. *)
QuotasTypeOK ==
  /\ slot \in [Site -> Site] /\ total \in 1 .. N /\ removed \subseteq Site
  /\ quota \in [Site -> Nat] /\ quota_gcd \in [Site -> Nat] /\ quota_used \in [Site -> Int]
  /\ global_quota_gcd \in Nat \ {0}
  /\ rotating \in Site
  /\ workable \subseteq Site /\ steady \subseteq Site
  /\ fail_only \in BOOLEAN /\ quiet \in BOOLEAN
  /\ given \in [Site -> Nat]
  /\ changes \in Nat

(* The slots below total_pools hold different pools, none of them removed. *)
SlotsOK == /\ \A i, j \in 0 .. total - 1 : slot[i] = slot[j] => i = j
           /\ removed \intersect Listed = {}

(* A quota that is not zero is worth a turn.                               *)
GcdOK == \A p \in Listed : quota[p] > 0 => quota_gcd[p] > 0

(* What could work since the period began can.                             *)
SteadyOK == steady \intersect Listed \subseteq workable

Smaller(a, b) == IF a < b THEN a ELSE b

(* What a pool was given, g, against its count.                            *)
Counts(p, g, used) == IF fail_only /\ p = Best THEN g >= Smaller(used, quota_gcd[p])
                                              ELSE g = Smaller(used, quota_gcd[p])

FairOK == quiet => \A p \in steady \intersect Listed : Counts(p, given[p], quota_used[p])

QuotasInv == QuotasTypeOK /\ SlotsOK /\ GcdOK /\ SteadyOK /\ FairOK

(* At the end of a period no count is smaller than quota_gcd.              *)
LEMMA FairFromInv == QuotasInv => PeriodIsFair
  <1> SUFFICES ASSUME QuotasInv, Exhausted, quiet, NEW p \in steady \intersect Listed
               PROVE  /\ \/ given[p] = quota_gcd[p]
                         \/ fail_only /\ p = Best /\ given[p] > quota_gcd[p]
                      /\ quota[p] > 0 => given[p] > 0
    BY DEF PeriodIsFair
  <1>1. /\ p \in Site /\ quota[p] \in Nat /\ quota_gcd[p] \in Nat /\ quota_used[p] \in Int
        /\ given[p] \in Nat
    BY DEF QuotasInv, QuotasTypeOK
  <1>2. quota_used[p] >= quota_gcd[p]
    BY DEF Exhausted
  <1>3. Smaller(quota_used[p], quota_gcd[p]) = quota_gcd[p]
    BY <1>1, <1>2 DEF Smaller
  <1>4. Counts(p, given[p], quota_used[p])
    BY DEF QuotasInv, FairOK
  <1>5. quota[p] > 0 => quota_gcd[p] > 0
    BY DEF QuotasInv, GcdOK
  <1> QED BY <1>1, <1>3, <1>4, <1>5 DEF Counts

LEMMA QuotasInitOK == QuotasInit => QuotasInv
  <1> SUFFICES ASSUME QuotasInit PROVE QuotasInv
    OBVIOUS
  <1> USE SiteIs DEF QuotasInit
  <1>1. Start \in 1 .. N
    BY QuotasAssumption DEF N
  <1>2. QuotasTypeOK
    BY <1>1 DEF QuotasTypeOK
  <1>3. 0 .. total - 1 \subseteq Site /\ Listed = 0 .. Start - 1
    BY <1>1 DEF Listed
  <1>4. SlotsOK /\ GcdOK /\ SteadyOK
    BY <1>3 DEF SlotsOK, GcdOK, SteadyOK
  <1>5. ASSUME NEW p \in steady \intersect Listed PROVE Counts(p, given[p], quota_used[p])
    <2>1. given[p] = 0 /\ quota_used[p] = 0 /\ quota_gcd[p] = 1
      BY <1>3
    <2> QED BY <2>1 DEF Counts, Smaller
  <1> QED BY <1>2, <1>4, <1>5 DEF QuotasInv, FairOK

(* The pools in use are those of the slots below total_pools.              *)
LEMMA ListedIs ==
  ASSUME QuotasTypeOK
                  PROVE  /\ 0 .. total - 1 \subseteq Site /\ Listed \subseteq Site
                         /\ Listed = {slot[i] : i \in 0 .. total - 1}
  BY SiteIs DEF QuotasTypeOK, Listed

(* After adjust_quota_gcd every quota that is not zero is worth a turn.    *)
LEMMA Adjusted ==
  ASSUME QuotasTypeOK, NEW q \in [Site -> Nat], NEW s \in [Site -> Site], NEW n \in 1 .. N,
         adjust_quota_gcd(q, s, n)
  PROVE  /\ quota' \in [Site -> Nat] /\ quota_gcd' \in [Site -> Nat]
         /\ quota_used' \in [Site -> Int] /\ global_quota_gcd' \in Nat \ {0}
         /\ given' = given /\ steady' = steady /\ quiet' = FALSE /\ changes' \in Nat
         /\ \A i \in 0 .. n - 1 : quota'[s[i]] > 0 => quota_gcd'[s[i]] > 0
  <1> DEFINE gcd == WalkGcd(q, s, n)
             here == {s[i] : i \in 0 .. n - 1}
  <1>1. n \in Nat /\ 0 .. n - 1 \subseteq Site
    BY SiteIs
  <1>2. gcd \in Nat \ {0} /\ \A i \in 0 .. n - 1 : q[s[i]] # 0 => gcd <= q[s[i]]
    BY <1>1, WalkGcdBounds
  <1> HIDE DEF gcd
  <1>3. /\ quota' = q /\ global_quota_gcd' = gcd /\ given' = given /\ steady' = steady
        /\ quota_used' = [p \in Site |-> IF p \in here
                            THEN Rescale(quota_used[p], global_quota_gcd, gcd)
                            ELSE quota_used[p]]
        /\ quota_gcd' = [p \in Site |-> IF p \in here THEN q[p] \div gcd ELSE quota_gcd[p]]
        /\ quiet' = FALSE /\ changes' = changes + 1
    BY DEF adjust_quota_gcd, gcd, Change, Counted
  <1>4. ASSUME NEW p \in Site PROVE Rescale(quota_used[p], global_quota_gcd, gcd) \in Int
    <2>1. \A x \in Int : AsInt(x) \in Int /\ AsLong(x) \in Int
      BY QuotasAssumption DEF AsInt, AsLong
    <2>2. quota_used[p] \in Int /\ global_quota_gcd \in Int
      BY DEF QuotasTypeOK
    <2>3. AsInt(AsLong(AsLong(quota_used[p]) * global_quota_gcd)) \in Int
      BY <2>1, <2>2
    <2>4. \A x \in Int : x \div gcd \in Int
      BY <1>2
    <2> HIDE DEF AsInt, AsLong
    <2> QED BY <2>1, <2>3, <2>4 DEF Rescale
  <1>5. quota_used' \in [Site -> Int]
    BY <1>3, <1>4 DEF QuotasTypeOK
  <1>6. \A k \in Nat : k \div gcd \in Nat /\ (gcd <= k => k \div gcd > 0)
    BY <1>2
  <1>7. quota_gcd' \in [Site -> Nat]
    BY <1>3, <1>6 DEF QuotasTypeOK
  <1>8. ASSUME NEW i \in 0 .. n - 1, quota'[s[i]] > 0 PROVE quota_gcd'[s[i]] > 0
    <2>1. s[i] \in Site /\ s[i] \in here /\ q[s[i]] \in Nat
      BY <1>1
    <2>2. quota_gcd'[s[i]] = q[s[i]] \div gcd
      BY <1>3, <2>1
    <2>3. gcd <= q[s[i]]
      BY <1>2, <1>3, <1>8, <2>1
    <2> QED BY <1>6, <2>1, <2>2, <2>3
  <1>9. changes' \in Nat
    BY <1>3 DEF QuotasTypeOK
  <1> QED BY <1>2, <1>3, <1>5, <1>7, <1>8, <1>9

LEMMA PoolquotaOK == ASSUME QuotasInv, poolquota PROVE QuotasInv'
  <1>1. PICK p \in Listed, n \in Quota :
          /\ adjust_quota_gcd([quota EXCEPT ![p] = n], slot, total)
          /\ UNCHANGED <<slotVars, rotating, workable, fail_only>>
    BY DEF poolquota
  <1> DEFINE q == [quota EXCEPT ![p] = n]
  <1>2. q \in [Site -> Nat]
    BY QuotasAssumption DEF QuotasInv, QuotasTypeOK
  <1> HIDE DEF q
  <1>3. /\ quota' \in [Site -> Nat] /\ quota_gcd' \in [Site -> Nat]
        /\ quota_used' \in [Site -> Int] /\ global_quota_gcd' \in Nat \ {0}
        /\ given' = given /\ steady' = steady /\ quiet' = FALSE /\ changes' \in Nat
        /\ \A i \in 0 .. total - 1 : quota'[slot[i]] > 0 => quota_gcd'[slot[i]] > 0
    BY <1>1, <1>2, Adjusted DEF QuotasInv, QuotasTypeOK, q
  <1>4. Listed' = Listed /\ slot' = slot /\ total' = total
    BY <1>1 DEF Listed, slotVars
  <1>5. QuotasTypeOK'
    BY <1>1, <1>3 DEF QuotasInv, QuotasTypeOK, slotVars
  <1>6. SlotsOK' /\ SteadyOK'
    BY <1>1, <1>3, <1>4 DEF QuotasInv, SlotsOK, SteadyOK, slotVars
  <1>7. GcdOK'
    BY <1>3, <1>4 DEF GcdOK, Listed
  <1>8. FairOK'
    BY <1>3 DEF FairOK
  <1> QED BY <1>5, <1>6, <1>7, <1>8 DEF QuotasInv

LEMMA AddPoolOK == ASSUME QuotasInv, add_pool PROVE QuotasInv'
  <1> DEFINE added(p) == [slot EXCEPT ![total] = p]
  <1>1. PICK p \in Site \ (Listed \union removed) :
          /\ total \in Site
          /\ slot' = added(p)
          /\ total' = total + 1
          /\ adjust_quota_gcd([quota EXCEPT ![p] = 1], added(p), total + 1)
          /\ workable' = workable \union {p}
          /\ UNCHANGED <<removed, rotating, fail_only>>
    BY DEF add_pool
  <1> DEFINE q == [quota EXCEPT ![p] = 1]
             s == added(p)
  <1>2. QuotasTypeOK
    BY DEF QuotasInv
  <1>3. q \in [Site -> Nat] /\ s \in [Site -> Site] /\ total + 1 \in 1 .. N
    <2>1. q \in [Site -> Nat] /\ s \in [Site -> Site]
      BY <1>1, <1>2 DEF QuotasTypeOK
    <2>2. total \in 0 .. N - 1 /\ N \in Nat
      BY <1>1, SiteIs
    <2> HIDE DEF q, s
    <2> QED BY <2>1, <2>2
  <1>4. /\ quota' \in [Site -> Nat] /\ quota_gcd' \in [Site -> Nat]
        /\ quota_used' \in [Site -> Int] /\ global_quota_gcd' \in Nat \ {0}
        /\ given' = given /\ steady' = steady /\ quiet' = FALSE /\ changes' \in Nat
        /\ \A i \in 0 .. (total + 1) - 1 : quota'[s[i]] > 0 => quota_gcd'[s[i]] > 0
    <2> HIDE DEF q, s
    <2> QED BY <1>1, <1>2, <1>3, Adjusted DEF q, s
  <1>5. QuotasTypeOK'
    <2>1. workable' \subseteq Site /\ slot' = s
      BY <1>1, <1>2 DEF QuotasTypeOK
    <2> HIDE DEF q, s
    <2> QED BY <1>1, <1>2, <1>3, <1>4, <2>1 DEF QuotasTypeOK
  <1>6. s[total] = p /\ \A i \in 0 .. total - 1 : s[i] = slot[i]
    BY <1>1, <1>2, ListedIs DEF QuotasTypeOK
  <1>7. Listed' = Listed \union {p} /\ slot' = s
    <2>1. Listed' = {s[i] : i \in 0 .. total}
      BY <1>1, <1>2 DEF Listed, QuotasTypeOK
    <2>2. 0 .. total = (0 .. total - 1) \union {total}
      BY <1>2 DEF QuotasTypeOK
    <2> HIDE DEF s
    <2> QED BY <1>1, <1>6, <2>1, <2>2 DEF Listed, s
  <1>8. SlotsOK'
    <2>1. ASSUME NEW i \in 0 .. total, NEW j \in 0 .. total, s[i] = s[j] PROVE i = j
      <3>1. \A k \in 0 .. total - 1 : s[k] # p
        BY <1>1, <1>6 DEF Listed
      <3>2. \A k \in 0 .. total : k = total \/ k \in 0 .. total - 1
        BY <1>2 DEF QuotasTypeOK
      <3> HIDE DEF s
      <3> QED BY <1>6, <2>1, <3>1, <3>2 DEF QuotasInv, SlotsOK
    <2>2. 0 .. total' - 1 = 0 .. total
      BY <1>1, <1>2 DEF QuotasTypeOK
    <2>3. removed' \intersect Listed' = {}
      BY <1>1, <1>7 DEF QuotasInv, SlotsOK
    <2> HIDE DEF s
    <2> QED BY <1>7, <2>1, <2>2, <2>3 DEF SlotsOK
  <1>9. GcdOK'
    <2>1. 0 .. total' - 1 = 0 .. (total + 1) - 1
      BY <1>1
    <2> HIDE DEF s
    <2> QED BY <1>4, <1>7, <2>1 DEF GcdOK, Listed
  <1>10. SteadyOK' /\ FairOK'
    BY <1>1, <1>4, <1>7 DEF QuotasInv, SteadyOK, FairOK
  <1> QED BY <1>5, <1>8, <1>9, <1>10 DEF QuotasInv

(* The last pool takes the slot of the one that goes: a slot below the new *)
(* total_pools holds what another one held (from).                         *)
LEMMA RemovePoolOK == ASSUME QuotasInv, remove_pool PROVE QuotasInv'
  <1>1. PICK p \in Listed :
          LET i == CHOOSE j \in 0 .. total - 1 : slot[j] = p IN
          /\ total > 1
          /\ slot' = [slot EXCEPT ![i] = slot[total - 1]]
          /\ total' = total - 1
          /\ removed' = removed \union {p}
          /\ workable' = workable \ {p}
          /\ Change
          /\ UNCHANGED <<quotaVars, rotating, fail_only, given, steady>>
    BY DEF remove_pool
  <1> DEFINE i == CHOOSE j \in 0 .. total - 1 : slot[j] = p
  <1>2. QuotasTypeOK /\ total - 1 \in 0 .. total - 1
    BY DEF QuotasInv, QuotasTypeOK
  <1>3. i \in 0 .. total - 1 /\ slot[i] = p
    BY <1>1 DEF Listed
  <1>4. /\ slot' = [slot EXCEPT ![i] = slot[total - 1]]
        /\ total' = total - 1 /\ total > 1
        /\ quiet' = FALSE /\ changes' = changes + 1
    BY <1>1 DEF Change, Counted
  <1> HIDE DEF i
  <1>5. slot[total - 1] \in Site /\ p \in Site
    BY <1>2, ListedIs DEF QuotasTypeOK
  <1>6. QuotasTypeOK'
    <2>1. slot' \in [Site -> Site] /\ removed' \subseteq Site
      BY <1>1, <1>2, <1>4, <1>5 DEF QuotasTypeOK
    <2>3. total' \in 1 .. N
      BY <1>2, <1>4, SiteIs DEF QuotasTypeOK
    <2>2. workable' \subseteq Site /\ changes' \in Nat
      BY <1>1, <1>2, <1>4 DEF QuotasTypeOK
    <2> QED BY <1>1, <1>2, <1>4, <2>1, <2>2, <2>3 DEF QuotasTypeOK, quotaVars
  <1> DEFINE from(j) == IF j = i THEN total - 1 ELSE j
  <1>7. ASSUME NEW j \in 0 .. total' - 1
        PROVE  from(j) \in 0 .. total - 1 /\ from(j) # i /\ slot'[j] = slot[from(j)]
    <2>1. j \in 0 .. total - 1 /\ j # total - 1 /\ j \in Site
      BY <1>2, <1>4, ListedIs DEF QuotasTypeOK
    <2> QED BY <1>2, <1>4, <2>1 DEF QuotasTypeOK
  <1>8. ASSUME NEW j \in 0 .. total' - 1, NEW k \in 0 .. total' - 1, from(j) = from(k) PROVE j = k
    <2>1. j # total - 1 /\ k # total - 1
      BY <1>2, <1>4 DEF QuotasTypeOK
    <2> QED BY <1>8, <2>1
  <1> HIDE DEF from
  <1>9. Listed' \subseteq Listed \ {p}
    <2>1. Listed' = {slot'[j] : j \in 0 .. total' - 1}
      BY DEF Listed
    <2>2. ASSUME NEW j \in 0 .. total' - 1 PROVE slot'[j] \in Listed \ {p}
      BY <1>3, <1>7 DEF Listed, QuotasInv, SlotsOK
    <2> QED BY <2>1, <2>2
  <1>10. SlotsOK'
    <2>1. ASSUME NEW j \in 0 .. total' - 1, NEW k \in 0 .. total' - 1, slot'[j] = slot'[k]
          PROVE  j = k
      <3>1. from(j) = from(k)
        BY <1>7, <2>1 DEF QuotasInv, SlotsOK
      <3> QED BY <1>8, <3>1
    <2>2. removed' \intersect Listed' = {}
      BY <1>1, <1>9 DEF QuotasInv, SlotsOK
    <2> QED BY <2>1, <2>2 DEF SlotsOK
  <1>11. GcdOK' /\ SteadyOK' /\ FairOK'
    BY <1>1, <1>4, <1>9 DEF QuotasInv, GcdOK, SteadyOK, FairOK, quotaVars
  <1> QED BY <1>6, <1>10, <1>11 DEF QuotasInv

LEMMA PoolChangesOK == ASSUME QuotasInv, PoolChanges PROVE QuotasInv'
  <1>1. PICK p \in Listed :
          /\ workable' = IF p \in workable THEN workable \ {p} ELSE workable \union {p}
          /\ steady' = steady \ {p}
          /\ Counted
          /\ UNCHANGED <<slotVars, quotaVars, rotating, fail_only, given, quiet>>
    BY DEF PoolChanges
  <1> USE <1>1 DEF slotVars, quotaVars
  <1>2. Listed' = Listed /\ Best' = Best
    BY DEF Listed, Best
  <1>3. QuotasTypeOK'
    BY ListedIs DEF QuotasInv, QuotasTypeOK, Counted
  <1>4. SlotsOK' /\ GcdOK' /\ SteadyOK'
    BY <1>2 DEF QuotasInv, SlotsOK, GcdOK, SteadyOK
  <1>5. FairOK'
    BY <1>2 DEF QuotasInv, FairOK, Counts
  <1> QED BY <1>3, <1>4, <1>5 DEF QuotasInv

LEMMA DiscardOK == ASSUME QuotasInv, discard_work PROVE QuotasInv'
  <1>1. PICK p \in Site, by \in 0 .. 2 :
          /\ quota_used' = [quota_used EXCEPT ![p] = @ - by]
          /\ Change
          /\ UNCHANGED <<slotVars, quota, quota_gcd, global_quota_gcd, rotating, workable,
                         fail_only, given, steady>>
    BY DEF discard_work
  <1>2. Listed' = Listed
    BY <1>1 DEF Listed, slotVars
  <1>3. QuotasTypeOK'
    <2>1. quota_used \in [Site -> Int] /\ quota_used[p] - by \in Int /\ changes \in Nat
      BY DEF QuotasInv, QuotasTypeOK
    <2>2. quota_used' \in [Site -> Int] /\ changes' \in Nat /\ quiet' = FALSE
      BY <1>1, <2>1 DEF Change, Counted
    <2> QED BY <1>1, <2>2 DEF QuotasInv, QuotasTypeOK, slotVars
  <1>4. SlotsOK' /\ GcdOK' /\ SteadyOK' /\ FairOK'
    BY <1>1, <1>2 DEF QuotasInv, SlotsOK, GcdOK, SteadyOK, FairOK, slotVars, Change
  <1> QED BY <1>3, <1>4 DEF QuotasInv

-----------------------------------------------------------------------------
(* The walk of select_pool.                                                *)

WalkState == [at : Site, pool : Site \union {NoSite}, used : [Site -> Int]]

Base == IF Exhausted THEN [p \in Site |-> 0] ELSE given
Stays == IF Exhausted THEN Selectable ELSE steady

(* The state s of the walk counts what the pool that it found will be given*)
(* in this period.                                                         *)
WalkFair(s) == quiet \/ Exhausted =>
  \A p \in Stays \intersect Listed :
    Counts(p, IF s.pool = p THEN Base[p] + 1 ELSE Base[p], s.used[p])

WalkOK == {s \in WalkState : WalkFair(s)}

LEMMA NextInRotation == ASSUME QuotasTypeOK, NEW i \in Site PROVE Following(i) \in Site
  BY SiteIs DEF Following, QuotasTypeOK

(* The walk begins: a period that begins gives nobody anything yet.        *)
LEMMA StartOK == ASSUME QuotasInv PROVE StartWalk \in WalkOK
  <1>1. StartWalk \in WalkState
    BY NextInRotation DEF QuotasInv, QuotasTypeOK, StartWalk, WalkState
  <1>2. WalkFair(StartWalk)
    <2> SUFFICES ASSUME quiet \/ Exhausted, NEW p \in Stays \intersect Listed
                 PROVE  Counts(p, IF StartWalk.pool = p THEN Base[p] + 1 ELSE Base[p],
                               StartWalk.used[p])
      BY DEF WalkFair
    <2>1. p \in Site /\ p # NoSite /\ quota_gcd[p] \in Nat
      BY NoSiteIsNone, ListedIs DEF QuotasInv, QuotasTypeOK
    <2>2. CASE Exhausted
      BY <2>1, <2>2 DEF StartWalk, Base, Counts, Smaller
    <2>3. CASE ~Exhausted
      BY <2>1, <2>3 DEF StartWalk, Base, Stays, QuotasInv, FairOK
    <2> QED BY <2>2, <2>3
  <1> QED BY <1>1, <1>2 DEF WalkOK

(* One pool of the rotation is tried.                                      *)
LEMMA TryOK == ASSUME QuotasInv, NEW s \in WalkOK, s.pool = NoSite PROVE Try(s) \in WalkOK
  <1> DEFINE x == slot[s.at]
             turn == s.used[x] < quota_gcd[x]
             found == turn /\ x \in workable
             used == [s.used EXCEPT ![x] = @ + 1]
             handed == [used EXCEPT ![Best] = @ - 1]
  <1>1. s \in WalkState /\ WalkFair(s) /\ QuotasTypeOK
    BY DEF WalkOK, QuotasInv
  <1>2. /\ s.at \in Site /\ x \in Site /\ s.used \in [Site -> Int]
        /\ used \in [Site -> Int] /\ handed \in [Site -> Int]
    <2>1. s.at \in Site /\ s.used \in [Site -> Int] /\ s.pool = NoSite
      BY <1>1 DEF WalkState
    <2>2. x \in Site
      BY <1>1, <2>1 DEF QuotasTypeOK
    <2> HIDE DEF x
    <2>3. used \in [Site -> Int]
      BY <2>1, <2>2
    <2> HIDE DEF used
    <2>4. handed \in [Site -> Int]
      <3>1. CASE Best \in Site
        BY <2>3, <3>1
      <3>2. CASE Best \notin Site
        <4>1. \A y \in Site : handed[y] = used[y]
          BY <2>3, <3>2
        <4> QED BY <2>3, <4>1
      <3> QED BY <3>1, <3>2
    <2> QED BY <2>1, <2>2, <2>3, <2>4
  <1>3. Try(s) = IF found THEN [s EXCEPT !.used = used, !.pool = x]
                 ELSE [at |-> Following(s.at), pool |-> NoSite,
                       used |-> IF turn /\ fail_only THEN handed ELSE used]
    BY DEF Try
  <1> HIDE DEF handed, used
  <1>4. /\ Try(s).pool = IF found THEN x ELSE NoSite
        /\ Try(s).used = IF ~found /\ turn /\ fail_only THEN handed ELSE used
        /\ Try(s) \in WalkState
    <2> HIDE DEF x, turn, found
    <2>1. Following(s.at) \in Site
      BY <1>1, <1>2, NextInRotation
    <2>2. CASE found
      BY <1>1, <1>2, <1>3, <2>2 DEF WalkState
    <2>3. CASE ~found
      BY <1>2, <1>3, <2>1, <2>3 DEF WalkState
    <2> QED BY <2>2, <2>3
  <1>5. ASSUME quiet \/ Exhausted, NEW p \in Stays \intersect Listed
        PROVE  Counts(p, IF Try(s).pool = p THEN Base[p] + 1 ELSE Base[p], Try(s).used[p])
    <2>1. /\ p \in Site /\ p # NoSite /\ quota_gcd[p] \in Nat /\ s.used[p] \in Int
          /\ Base[p] \in Nat
      BY <1>1, <1>2, NoSiteIsNone, ListedIs DEF QuotasTypeOK, Base
    <2>2. p \in workable
      BY DEF QuotasInv, SteadyOK, Stays, Selectable
    <2>3. Counts(p, Base[p], s.used[p])
      BY <1>1, <1>5, <2>1 DEF WalkFair
    <2>4. used[p] = IF p = x THEN s.used[p] + 1 ELSE s.used[p]
      BY <1>2, <2>1 DEF used
    <2>5. handed[p] = IF p = Best THEN used[p] - 1 ELSE used[p]
      BY <1>2, <2>1 DEF handed
    <2>6. CASE p = x /\ found
      BY <1>4, <2>1, <2>3, <2>4, <2>6 DEF Counts, Smaller
    <2>7. CASE p = x /\ ~found
      BY <1>4, <2>1, <2>2, <2>3, <2>4, <2>7 DEF Counts, Smaller
    <2>8. CASE p # x
      <3>1. Try(s).pool # p
        BY <1>4, <2>1, <2>8
      <3>2. \/ Try(s).used[p] = s.used[p]
            \/ fail_only /\ p = Best /\ Try(s).used[p] = s.used[p] - 1
        BY <1>4, <2>4, <2>5, <2>8
      <3> QED BY <2>1, <2>3, <3>1, <3>2 DEF Counts, Smaller
    <2> QED BY <2>6, <2>7, <2>8
  <1> QED BY <1>4, <1>5 DEF WalkOK, WalkFair

(* So the state after all that are tried is as good: by induction over them.*)
LEMMA WalkEndsOK == ASSUME QuotasInv PROVE Walk \in WalkOK
  <1> DEFINE Step(s) == IF s.pool # NoSite THEN s ELSE Try(s)
             Walks(f) == f = [n \in 0 .. total |-> IF n = 0 THEN StartWalk ELSE Step(f[n - 1])]
             after == CHOOSE f : Walks(f)
             step == [n \in 1 .. total |-> [s \in WalkOK |-> Step(s)]]
  <1>1. Walk = after[total]
    BY DEF Walk
  <1>2. \A s \in WalkOK : Step(s) \in WalkOK
    BY TryOK
  <1> HIDE DEF Step
  <1>3. total \in Nat /\ StartWalk \in WalkOK /\ step \in [1 .. total -> [WalkOK -> WalkOK]]
    BY <1>2, StartOK DEF QuotasInv, QuotasTypeOK
  <1>4. \E f : Walks(f)
    <2>1. PICK f : Iterates(f, total, StartWalk, step)
      <3> HIDE DEF step
      <3> QED BY <1>3, IterationExists
    <2>2. f \in [0 .. total -> WalkOK]
      <3> HIDE DEF step
      <3> QED BY <1>3, <2>1, IterationType
    <2>3. ASSUME NEW n \in 0 .. total
          PROVE  f[n] = IF n = 0 THEN StartWalk ELSE Step(f[n - 1])
      <3>1. CASE n = 0
        BY <2>1, <3>1 DEF Iterates
      <3>2. CASE n # 0
        <4>1. n \in 1 .. total /\ f[n - 1] \in WalkOK
          BY <1>3, <2>2, <3>2
        <4>2. f[n] = step[n][f[n - 1]]
          BY <2>1, <3>2 DEF Iterates
        <4> QED BY <3>2, <4>1, <4>2
      <3> QED BY <3>1, <3>2
    <2>4. f = [n \in 0 .. total |-> f[n]]
      BY <2>2
    <2>5. Walks(f)
      BY <2>3, <2>4
    <2> QED BY <2>5
  <1>5. Walks(after)
    <2> HIDE DEF Walks
    <2> QED BY <1>4
  <1> HIDE DEF after
  <1> DEFINE S == {n \in 0 .. total : after[n] \in WalkOK}
  <1>6. 0 \in S
    BY <1>3, <1>5
  <1>7. ASSUME NEW n \in 1 .. total, n - 1 \in S PROVE n \in S
    <2>1. after[n] = Step(after[n - 1])
      BY <1>3, <1>5, n \in 0 .. total
    <2> QED BY <1>2, <1>7, <2>1
  <1>8. 0 .. total \subseteq S
    <2> HIDE DEF S
    <2> QED BY <1>3, <1>6, <1>7, UpTo
  <1> QED BY <1>1, <1>3, <1>8

LEMMA SelectOK == ASSUME QuotasInv, select_pool PROVE QuotasInv'
  <1>1. Walk \in WalkState /\ WalkFair(Walk)
    BY WalkEndsOK DEF WalkOK
  <1> DEFINE w == Walk
  <1> HIDE DEF w
  <1>2. /\ quota_used' = w.used
        /\ rotating' = w.at
        /\ given' = IF w.pool # NoSite THEN [Base EXCEPT ![w.pool] = @ + 1] ELSE Base
        /\ steady' = Stays
        /\ quiet' = (Exhausted \/ quiet)
        /\ UNCHANGED <<slotVars, quota, quota_gcd, global_quota_gcd, workable, fail_only, changes>>
    BY DEF select_pool, w, Base, Stays
  <1>3. w \in WalkState /\ WalkFair(w)
    BY <1>1 DEF w
  <1>4. QuotasTypeOK /\ Base \in [Site -> Nat] /\ Stays \subseteq Site
    BY DEF QuotasInv, QuotasTypeOK, Base, Stays, Selectable
  <1>5. given' \in [Site -> Nat]
    BY <1>2, <1>3, <1>4 DEF WalkState
  <1>6. QuotasTypeOK'
    BY <1>2, <1>3, <1>4, <1>5 DEF QuotasTypeOK, WalkState, slotVars
  <1>7. Listed' = Listed /\ Best' = Best
    BY <1>2 DEF Listed, Best, slotVars
  <1>8. SlotsOK' /\ GcdOK' /\ SteadyOK'
    BY <1>2, <1>7 DEF QuotasInv, SlotsOK, GcdOK, SteadyOK, Stays, Selectable, slotVars
  <1>9. FairOK'
    <2> SUFFICES ASSUME quiet', NEW p \in steady' \intersect Listed'
                 PROVE  Counts(p, given[p], quota_used[p])'
      BY DEF FairOK
    <2>1. Counts(p, IF w.pool = p THEN Base[p] + 1 ELSE Base[p], w.used[p])
      BY <1>2, <1>3, <1>7 DEF WalkFair
    <2>2. given'[p] = IF w.pool = p THEN Base[p] + 1 ELSE Base[p]
      <3>1. p \in Site /\ p # NoSite
        BY <1>2, <1>4, NoSiteIsNone
      <3> QED BY <1>2, <1>4, <3>1
    <2> QED BY <1>2, <1>7, <2>1, <2>2 DEF Counts
  <1> QED BY <1>6, <1>8, <1>9 DEF QuotasInv

LEMMA QuotasInvariant == QuotasSpec => []QuotasInv
  <1>1. QuotasInv /\ [QuotasNext]_quotasVars => QuotasInv'
    <2> SUFFICES ASSUME QuotasInv, [QuotasNext]_quotasVars PROVE QuotasInv'
      OBVIOUS
    <2>1. CASE UNCHANGED quotasVars
      <3>1. Listed' = Listed /\ Best' = Best
        BY <2>1 DEF Listed, Best, quotasVars, slotVars
      <3> QED BY <2>1, <3>1 DEF QuotasInv, QuotasTypeOK, SlotsOK, GcdOK, SteadyOK, FairOK, Counts,
                               quotasVars, slotVars, quotaVars, periodVars
    <2> QED BY <2>1, PoolquotaOK, AddPoolOK, RemovePoolOK, PoolChangesOK, SelectOK, DiscardOK
            DEF QuotasNext
  <1> QED BY <1>1, QuotasInitOK, PTL DEF QuotasSpec

(* No pool is in two slots below total_pools, none that was removed is in  *)
(* one, and one that has a quota has a turn in every period.               *)
THEOREM RotationKept == QuotasSpec => [](QuotasTypeOK /\ SlotsOK /\ GcdOK)
  <1>1. QuotasInv => QuotasTypeOK /\ SlotsOK /\ GcdOK
    BY DEF QuotasInv
  <1> QED BY <1>1, QuotasInvariant, PTL

(* Every period is fair, for any pools, quotas, commands and discards, and *)
(* for any width of the integers in which quota_used is rescaled.          *)
THEOREM FairPeriods == QuotasSpec => []PeriodIsFair
  BY QuotasInvariant, FairFromInv, PTL

-----------------------------------------------------------------------------
(* RecvLine.                                                               *)

(* The characters, and how many a line has with its newline.               *)
Char == Line \X (1 .. Parts) \union {Newline}
Width == Parts + 1

\* What has been sent and not been returned.
Stream == sockbuf \o (socket \o sending)

RecvTypeOK ==
  /\ socket \in Seq(Char) /\ sockbuf \in Seq(Char) /\ sending \in Seq(Char)
  /\ sent \in Seq(Line) /\ got \in Seq(Seq(Char))
  /\ rthread \in {"loop", "select", "wait", "token", "lost"}
  /\ closed \in BOOLEAN /\ damaged \in BOOLEAN

\* The connection was given up after its end: nothing of the session is left.
GivenUp == /\ closed /\ socket = <<>> /\ sockbuf = <<>>
           /\ rthread \in {"token", "lost"}

(* S is made of the lines ls after the first `from`, each with its newline.*)
Lines(S, ls, from) ==
  /\ Len(S) = (Len(ls) - from) * Width
  /\ \A k \in 0 .. Len(ls) - from - 1 :
       /\ \A r \in 1 .. Parts : S[k * Width + r] = <<ls[from + k + 1], r>>
       /\ S[k * Width + Width] = Newline

(* What is to come are the lines not yet returned, and strtok is reached   *)
(* only with a whole one.                                                  *)
StreamOK == /\ Len(got) <= Len(sent)
            /\ \A i \in DOMAIN got : got[i] = Whole(sent[i])
            /\ GivenUp \/ Lines(Stream, sent, Len(got))
            /\ rthread = "token" => GivenUp \/ HasLine(sockbuf)

RecvInv == RecvTypeOK /\ (~damaged => StreamOK)

-----------------------------------------------------------------------------

(* A character of a line is not the newline.                               *)
LEMMA CharsDiffer == /\ Width \in Nat /\ Width > 1
                     /\ Newline \in Char
                     /\ \A l \in Line, r \in 1 .. Parts : <<l, r>> \in Char /\ <<l, r>> # Newline
  BY RecvAssumption DEF Char, Width

(* What recv takes from the socket, and what it leaves, are all there was. *)
LEMMA CutInTwo ==
  ASSUME NEW S, NEW s \in Seq(S), NEW n \in 0 .. Len(s)
  PROVE  /\ SubSeq(s, 1, n) \in Seq(S) /\ SubSeq(s, n + 1, Len(s)) \in Seq(S)
         /\ s = SubSeq(s, 1, n) \o SubSeq(s, n + 1, Len(s))
  <1>1. Len(s) \in Nat /\ \A i \in 1 .. Len(s) : s[i] \in S
    BY LenProperties
  <1>2. SubSeq(s, 1, n) \in Seq(S) /\ SubSeq(s, n + 1, Len(s)) \in Seq(S)
    BY <1>1, SubSeqProperties
  <1>3. SubSeq(s, 1, n) \o SubSeq(s, n + 1, Len(s)) = SubSeq(s, 1, Len(s))
    <2>1. 1 \in 1 .. Len(s) + 1 /\ n \in 1 - 1 .. Len(s) /\ Len(s) \in n .. Len(s)
      BY <1>1
    <2> QED BY <2>1, ConcatAdjacentSubSeq
  <1> QED BY <1>2, <1>3, SubSeqFull

(* Where a line begins.                                                    *)
LEMMA LineBegins ==
  ASSUME NEW k \in Nat
  PROVE  k * Width \in Nat /\ (k + 1) * Width = k * Width + Width
  <1>1. PICK W \in Nat : W = Width
    BY CharsDiffer
  <1>2. k * W \in Nat /\ (k + 1) * W = k * W + W
    OBVIOUS
  <1> HIDE DEF Width
  <1> QED BY <1>1, <1>2

(* And where it ends.                                                      *)
LEMMA LineEnds ==
  ASSUME NEW n \in Nat, NEW k \in 0 .. n - 1
  PROVE  k * Width + Width <= n * Width
  <1>1. PICK W \in Nat : W = Width
    BY CharsDiffer
  <1>2. n * W = k * W + W + (n - k - 1) * W /\ k * W \in Nat
    OBVIOUS
  <1>3. (n - k - 1) * W \in Nat
    OBVIOUS
  <1> HIDE DEF Width
  <1> QED BY <1>1, <1>2, <1>3

(* A name for \o, which the provers then need not look into.               *)
Joined(s, t) == s \o t

(* Where the cut is does not matter.                                       *)
LEMMA Regroup ==
  ASSUME NEW S, NEW a \in Seq(S), NEW b \in Seq(S), NEW c \in Seq(S)
  PROVE  Joined(a, b) \in Seq(S) /\ Joined(a, Joined(b, c)) = Joined(Joined(a, b), c)
  <1>1. a \o b \in Seq(S)
    OBVIOUS
  <1>2. (a \o b) \o c = a \o (b \o c)
    BY ConcatAssociative
  <1> QED BY <1>1, <1>2, Zenon DEF Joined

LEMMA RegroupFour ==
  ASSUME NEW S, NEW s \in Seq(S), NEW a \in Seq(S), NEW b \in Seq(S), NEW c \in Seq(S)
  PROVE  Joined(Joined(s, a), Joined(b, c)) = Joined(s, Joined(Joined(a, b), c))
  <1>1. Joined(b, c) \in Seq(S)
    BY Regroup
  <1>2. Joined(a, Joined(b, c)) = Joined(Joined(a, b), c)
    BY Regroup
  <1>3. Joined(s, Joined(a, Joined(b, c))) = Joined(Joined(s, a), Joined(b, c))
    BY <1>1, Regroup
  <1> QED BY <1>2, <1>3

(* A line is sent: the stream has one more.                                *)
LEMMA LinesAppended ==
  ASSUME NEW S \in Seq(Char), NEW ls \in Seq(Line), NEW from \in 0 .. Len(ls), Lines(S, ls, from),
         NEW l \in Line
  PROVE  LET line == Append(Whole(l), Newline) IN
         line \in Seq(Char) /\ Lines(S \o line, Append(ls, l), from)
  <1> DEFINE line == Append(Whole(l), Newline)
             n == Len(ls) - from
             ls1 == Append(ls, l)
             T == S \o line
  <1>1. Parts \in Nat /\ Width = Parts + 1
    BY RecvAssumption DEF Width
  <1>2. Whole(l) \in Seq(Char) /\ Len(Whole(l)) = Parts
    BY <1>1, CharsDiffer DEF Whole
  <1>3. /\ line \in Seq(Char) /\ Len(line) = Width /\ line[Width] = Newline
        /\ \A r \in 1 .. Parts : line[r] = <<l, r>>
    BY <1>1, <1>2, CharsDiffer DEF Whole
  <1> HIDE DEF line
  <1>4. n \in Nat /\ Len(ls) \in Nat /\ Len(ls1) = Len(ls) + 1 /\ Len(ls1) - from = n + 1
    OBVIOUS
  <1>5. \A i \in 1 .. Len(ls) + 1 : ls1[i] = IF i = Len(ls) + 1 THEN l ELSE ls[i]
    OBVIOUS
  <1> HIDE DEF ls1
  <1>6. Len(S) = n * Width /\ n * Width \in Nat /\ (n + 1) * Width = n * Width + Width
    <2>1. (n + 1) * Width = n * Width + Width /\ n * Width \in Nat
      BY <1>4, LineBegins
    <2> QED BY <2>1 DEF Lines
  <1>7. /\ Len(T) = (n + 1) * Width
        /\ \A i \in 1 .. Len(S) + Width : T[i] = IF i <= Len(S) THEN S[i] ELSE line[i - Len(S)]
    <2>1. /\ Len(T) = Len(S) + Len(line)
          /\ \A i \in 1 .. Len(S) + Len(line) :
               T[i] = IF i <= Len(S) THEN S[i] ELSE line[i - Len(S)]
      BY <1>3, ConcatProperties
    <2> HIDE DEF T, n
    <2> QED BY <1>3, <1>6, <2>1
  <1> HIDE DEF T
  <1>8. ASSUME NEW k \in 0 .. n
        PROVE  /\ \A r \in 1 .. Parts : T[k * Width + r] = <<ls1[from + k + 1], r>>
               /\ T[k * Width + Width] = Newline
    <2>1. CASE k = n
      <3>1. ls1[from + k + 1] = l
        BY <1>4, <1>5, <2>1
      <3> HIDE DEF n
      <3>2. \A r \in 1 .. Width : T[k * Width + r] = line[r]
        BY <1>1, <1>6, <1>7, <2>1
      <3> QED BY <1>1, <1>3, <3>1, <3>2
    <2>2. CASE k # n
      <3>1. k \in 0 .. n - 1 /\ ls1[from + k + 1] = ls[from + k + 1]
        <4>1. k \in 0 .. n - 1
          <5> HIDE DEF n
          <5> QED BY <1>4, <2>2
        <4>2. from + k + 1 \in 1 .. Len(ls) + 1 /\ from + k + 1 # Len(ls) + 1
          BY <1>4, <4>1
        <4> HIDE DEF n
        <4> QED BY <1>5, <4>1, <4>2
      <3>2. PICK b \in Nat : b = k * Width
        BY <3>1, LineBegins
      <3>3. b + Width <= Len(S) /\ Len(S) \in Nat
        BY <1>4, <1>6, <3>1, <3>2, LineEnds
      <3>4. \A r \in 1 .. Width : T[b + r] = S[b + r]
        <4>1. \A r \in 1 .. Width : b + r \in 1 .. Len(S) + Width /\ b + r <= Len(S)
          BY <1>1, <3>3
        <4> HIDE DEF n
        <4> QED BY <1>7, <4>1
      <3>5. (\A r \in 1 .. Parts : S[b + r] = <<ls[from + k + 1], r>>) /\ S[b + Width] = Newline
        BY <3>1, <3>2 DEF Lines
      <3>6. (\A r \in 1 .. Parts : T[b + r] = <<ls[from + k + 1], r>>) /\ T[b + Width] = Newline
        <4>1. Width \in 1 .. Width /\ \A r \in 1 .. Parts : r \in 1 .. Width
          BY <1>1
        <4> QED BY <3>4, <3>5, <4>1
      <3> QED BY <3>1, <3>2, <3>6
    <2> QED BY <2>1, <2>2
  <1>9. Lines(T, ls1, from)
    BY <1>4, <1>7, <1>8 DEF Lines
  <1> QED BY <1>3, <1>9 DEF line, T, ls1

(* A line is taken from the front: the stream has one less.                *)
LEMMA FirstLineTaken ==
  ASSUME NEW ls \in Seq(Line), NEW from \in 0 .. Len(ls) - 1, NEW S, NEW T, Lines(S, ls, from),
         Len(T) = Len(S) - Width, \A i \in 1 .. Len(T) : T[i] = S[i + Width]
  PROVE  Lines(T, ls, from + 1)
  <1> DEFINE n == Len(ls) - from - 1
  <1>1. Parts \in Nat /\ Width = Parts + 1 /\ n \in Nat /\ Len(ls) \in Nat
    BY RecvAssumption DEF Width
  <1>2. n * Width \in Nat /\ (n + 1) * Width = n * Width + Width
    BY <1>1, LineBegins
  <1>3. Len(S) = (n + 1) * Width
    BY <1>1 DEF Lines
  <1>4. Len(T) = n * Width
    BY <1>1, <1>2, <1>3
  <1>5. ASSUME NEW k \in 0 .. n - 1
        PROVE  /\ \A r \in 1 .. Parts : T[k * Width + r] = <<ls[(from + 1) + k + 1], r>>
               /\ T[k * Width + Width] = Newline
    <2>1. PICK b \in Nat : b = k * Width
      <3>1. k \in Nat
        BY <1>1
      <3> QED BY <3>1, LineBegins
    <2>2. b + Width <= Len(T) /\ (k + 1) * Width = b + Width
      <3> HIDE DEF n
      <3>1. k \in Nat
        BY <1>1
      <3>2. k * Width + Width <= n * Width /\ (k + 1) * Width = k * Width + Width
        BY <1>1, <3>1, LineBegins, LineEnds
      <3> QED BY <1>4, <2>1, <3>2
    <2>3. k + 1 \in 0 .. Len(ls) - from - 1 /\ from + (k + 1) + 1 = (from + 1) + k + 1
      BY <1>1
    <2>4. /\ \A r \in 1 .. Parts : S[(b + Width) + r] = <<ls[(from + 1) + k + 1], r>>
          /\ S[(b + Width) + Width] = Newline
      BY <2>2, <2>3 DEF Lines
    <2>5. ASSUME NEW r \in 1 .. Width PROVE T[b + r] = S[(b + Width) + r]
      <3>1. b + r \in 1 .. Len(T) /\ (b + r) + Width = (b + Width) + r
        BY <1>1, <1>2, <1>4, <2>2
      <3> QED BY <3>1
    <2>6. (\A r \in 1 .. Parts : T[b + r] = <<ls[(from + 1) + k + 1], r>>) /\ T[b + Width] = Newline
      <3>1. Width \in 1 .. Width /\ \A r \in 1 .. Parts : r \in 1 .. Width
        BY <1>1
      <3> QED BY <2>4, <2>5, <3>1
    <2> QED BY <2>1, <2>6
  <1>6. Len(ls) - (from + 1) = n
    BY <1>1
  <1> QED BY <1>4, <1>5, <1>6 DEF Lines

-----------------------------------------------------------------------------
(* strtok, for any buffer.                                                 *)

(* The newlines strtok skips.                                              *)
LEMMA SkippedIs ==
  ASSUME NEW buf \in Seq(Char)
  PROVE  /\ Skipped(buf) \in 0 .. Len(buf)
         /\ \A i \in 1 .. Skipped(buf) : buf[i] = Newline
         /\ Skipped(buf) < Len(buf) => buf[Skipped(buf) + 1] # Newline
  <1> DEFINE S == {k \in 0 .. Len(buf) : k < Len(buf) => buf[k + 1] # Newline}
             Is(k) == /\ \A i \in 1 .. k : buf[i] = Newline
                      /\ k < Len(buf) => buf[k + 1] # Newline
  <1>1. Len(buf) \in Nat /\ S \in SUBSET Nat /\ Len(buf) \in S
    OBVIOUS
  <1>2. PICK k \in S : \A m \in S : k <= m
    <2> HIDE DEF S
    <2> QED BY <1>1, LeastNatural
  <1>3. ASSUME NEW i \in 1 .. k PROVE buf[i] = Newline
    <2>1. i - 1 \in 0 .. Len(buf) /\ i - 1 < Len(buf) /\ (i - 1) + 1 = i /\ ~(k <= i - 1)
      BY <1>1
    <2>2. i - 1 \notin S
      BY <1>2, <2>1
    <2> QED BY <2>1, <2>2
  <1>4. \E x \in 0 .. Len(buf) : Is(x)
    BY <1>3
  <1>5. Skipped(buf) = CHOOSE x \in 0 .. Len(buf) : Is(x)
    BY DEF Skipped
  <1>6. Skipped(buf) \in 0 .. Len(buf) /\ Is(Skipped(buf))
    <2> HIDE DEF Is
    <2> QED BY <1>4, <1>5
  <1> QED BY <1>6

(* The token ends before the next newline, or with the buffer.             *)
LEMMA TokenIs ==
  ASSUME NEW buf \in Seq(Char)
  PROVE  \E n \in 0 .. Len(buf) - Skipped(buf) :
           /\ Token(buf) = SubSeq(buf, Skipped(buf) + 1, Skipped(buf) + n)
           /\ Token(buf) \in Seq(Char) /\ Len(Token(buf)) = n
           /\ \A i \in 1 .. n : buf[Skipped(buf) + i] # Newline
           /\ Skipped(buf) + n < Len(buf) => buf[Skipped(buf) + n + 1] = Newline
  <1> DEFINE k == Skipped(buf)
             S == {m \in 0 .. Len(buf) - k : k + m < Len(buf) => buf[k + m + 1] = Newline}
             Is(m) == /\ \A i \in 1 .. m : buf[k + i] # Newline
                      /\ k + m < Len(buf) => buf[k + m + 1] = Newline
             n == CHOOSE m \in 0 .. Len(buf) - k : Is(m)
  <1>1. k \in 0 .. Len(buf) /\ Len(buf) \in Nat
    BY SkippedIs
  <1>2. Token(buf) = SubSeq(buf, k + 1, k + n)
    BY DEF Token
  <1> HIDE DEF k
  <1>3. S \in SUBSET Nat /\ Len(buf) - k \in S
    BY <1>1
  <1>4. PICK m \in S : \A x \in S : m <= x
    <2> HIDE DEF S
    <2> QED BY <1>3, LeastNatural
  <1>5. ASSUME NEW i \in 1 .. m PROVE buf[k + i] # Newline
    <2>1. i - 1 \in 0 .. Len(buf) - k /\ k + (i - 1) < Len(buf) /\ k + (i - 1) + 1 = k + i /\ ~(m <= i - 1)
      BY <1>1
    <2>2. i - 1 \notin S
      BY <1>4, <2>1
    <2> QED BY <2>1, <2>2
  <1>6. \E x \in 0 .. Len(buf) - k : Is(x)
    BY <1>5
  <1>7. n \in 0 .. Len(buf) - k /\ Is(n)
    <2> HIDE DEF Is
    <2> QED BY <1>6
  <1> HIDE DEF n
  <1>8. SubSeq(buf, k + 1, k + n) \in Seq(Char) /\ Len(SubSeq(buf, k + 1, k + n)) = n
    <2>1. \A i \in k + 1 .. k + n : buf[i] \in Char
      BY <1>1, <1>7
    <2>2. /\ SubSeq(buf, k + 1, k + n) \in Seq(Char)
          /\ Len(SubSeq(buf, k + 1, k + n)) = IF k + 1 <= k + n THEN (k + n) - (k + 1) + 1 ELSE 0
      BY <1>1, <1>7, <2>1, SubSeqProperties
    <2> QED BY <1>1, <1>7, <2>2
  <1> QED BY <1>2, <1>7, <1>8 DEF k

(* What memmove leaves, damaged or not, are characters of the buffer.      *)
LEMMA RestType ==
  ASSUME NEW buf \in Seq(Char)
  PROVE  Rest(buf, Len(Token(buf))) \in Seq(Char)
  <1> DEFINE k == Skipped(buf)
             n == Len(Token(buf))
  <1>1. n \in 0 .. Len(buf) - k /\ k \in 0 .. Len(buf) /\ Len(buf) \in Nat
    <2>1. PICK m \in 0 .. Len(buf) - Skipped(buf) : Len(Token(buf)) = m
      BY TokenIs
    <2> QED BY <2>1, SkippedIs
  <1> HIDE DEF n, k
  <1>2. ASSUME NEW a \in Nat \ {0}, NEW b \in 0 .. Len(buf) PROVE SubSeq(buf, a, b) \in Seq(Char)
    <2>1. \A i \in a .. b : buf[i] \in Char
      BY <1>1
    <2> QED BY <1>1, <2>1, SubSeqProperties
  <1>3. n + 2 \in Nat \ {0} /\ k + n \in 0 .. Len(buf)
    BY <1>1
  <1>4. <<>> \in Seq(Char)
    OBVIOUS
  <1>5. Rest(buf, n) \in Seq(Char)
    BY <1>1, <1>2, <1>3, <1>4 DEF Rest, k
  <1> QED BY <1>5 DEF n

(* Of a buffer that begins with a line strtok takes it, and memmove leaves *)
(* what comes after its newline.                                           *)
LEMMA TakesLine ==
  ASSUME NEW buf \in Seq(Char), NEW l \in Line, Len(buf) >= Width, buf[Width] = Newline,
         \A r \in 1 .. Parts : buf[r] = <<l, r>>
  PROVE  /\ Token(buf) = Whole(l)
         /\ Len(Token(buf)) = Parts
         /\ Rest(buf, Parts) = SubSeq(buf, Width + 1, Len(buf))
  <1>1. Parts \in Nat \ {0} /\ Width = Parts + 1 /\ Len(buf) \in Nat
    BY RecvAssumption DEF Width
  <1>2. \A r \in 1 .. Parts : buf[r] # Newline
    BY CharsDiffer
  <1>3. Skipped(buf) = 0
    <2>1. buf[1] # Newline
      BY <1>1, <1>2
    <2>2. ASSUME Skipped(buf) # 0 PROVE FALSE
      BY <2>1, <2>2, SkippedIs
    <2> QED BY <2>2
  <1>4. PICK n \in 0 .. Len(buf) :
           /\ Token(buf) = SubSeq(buf, 1, n)
           /\ Token(buf) \in Seq(Char) /\ Len(Token(buf)) = n
           /\ \A i \in 1 .. n : buf[i] # Newline
           /\ n < Len(buf) => buf[n + 1] = Newline
    <2> DEFINE Found(k, n) == /\ Token(buf) = SubSeq(buf, k + 1, k + n)
                              /\ Token(buf) \in Seq(Char) /\ Len(Token(buf)) = n
                              /\ \A i \in 1 .. n : buf[k + i] # Newline
                              /\ k + n < Len(buf) => buf[k + n + 1] = Newline
    <2>1. \E n \in 0 .. Len(buf) - Skipped(buf) : Found(Skipped(buf), n)
      BY TokenIs
    <2>2. PICK n \in 0 .. Len(buf) - 0 : Found(0, n)
      BY <1>3, <2>1
    <2>3. n \in 0 .. Len(buf) /\ 0 + 1 = 1 /\ 0 + n = n /\ \A i \in 1 .. n : 0 + i = i
      BY <1>1
    <2> QED BY <2>2, <2>3
  <1>5. n = Parts
    <2>1. ~(n > Parts)
      BY <1>1, <1>4
    <2>2. ~(n < Parts)
      BY <1>1, <1>2, <1>4
    <2> QED BY <1>1, <2>1, <2>2
  <1>6. Token(buf) = Whole(l)
    <2>1. Whole(l) \in Seq(Char) /\ Len(Whole(l)) = Parts
      BY <1>1, CharsDiffer DEF Whole
    <2>2. ASSUME NEW i \in 1 .. Parts PROVE Token(buf)[i] = Whole(l)[i]
      BY <1>1, <1>4, <1>5 DEF Whole
    <2> QED BY <1>4, <1>5, <2>1, <2>2, SeqEqual
  <1>7. Rest(buf, Parts) = SubSeq(buf, Width + 1, Len(buf))
    <2>1. CASE Len(buf) <= Width
      <3>1. SubSeq(buf, Width + 1, Len(buf)) = <<>>
        BY <1>1, <2>1, SubSeqEmpty
      <3> QED BY <1>1, <2>1, <3>1 DEF Rest
    <2>2. CASE Len(buf) > Width
      BY <1>1, <1>3, <2>2 DEF Rest
    <2> QED BY <1>1, <2>1, <2>2
  <1> QED BY <1>4, <1>5, <1>6, <1>7

-----------------------------------------------------------------------------

LEMMA IntactFromInv == RecvInv => LinesIntact
  BY DEF RecvInv, StreamOK, LinesIntact

LEMMA NoChars == <<>> \in Seq(Char) /\ <<>> \in Seq(Line) /\ <<>> \in Seq(Seq(Char))
  OBVIOUS

LEMMA NothingSent == Lines(<<>>, <<>>, 0)
  <1>1. 0 * Width = 0
    BY CharsDiffer
  <1> QED BY <1>1 DEF Lines

LEMMA RecvInitOK == RecvInit => RecvInv
  <1> SUFFICES ASSUME RecvInit PROVE RecvInv
    OBVIOUS
  <1>1. RecvTypeOK
    <2> HIDE DEF Char
    <2> QED BY NoChars DEF RecvInit, RecvTypeOK
  <1>2. Stream = <<>>
    BY DEF RecvInit, Stream
  <1>3. StreamOK
    BY <1>2, NothingSent DEF RecvInit, StreamOK
  <1> QED BY <1>1, <1>3 DEF RecvInv

LEMMA StartLineOK == ASSUME RecvInv, StartLine PROVE RecvInv'
  <1>1. PICK l \in Line : sending' = Append(Whole(l), Newline) /\ sent' = Append(sent, l)
    BY DEF StartLine
  <1>2. /\ ~closed /\ sending = <<>>
        /\ UNCHANGED <<socket, closed, sockbuf, rthread, got, damaged>>
    BY DEF StartLine
  <1> DEFINE line == Append(Whole(l), Newline)
  <1>3. /\ socket \in Seq(Char) /\ sockbuf \in Seq(Char) /\ sent \in Seq(Line)
        /\ got \in Seq(Seq(Char)) /\ Len(got) \in Nat /\ Len(sent) \in Nat
        /\ DOMAIN got = 1 .. Len(got) /\ Stream \in Seq(Char)
    BY DEF RecvInv, RecvTypeOK, Stream
  <1>4. line \in Seq(Char)
    <2>1. Whole(l) \in Seq(Char)
      BY RecvAssumption, CharsDiffer DEF Whole
    <2> QED BY <2>1, CharsDiffer
  <1> HIDE DEF line
  <1>5. RecvTypeOK'
    BY <1>1, <1>2, <1>3, <1>4 DEF RecvInv, RecvTypeOK, line
  <1>6. Stream' = Stream \o line
    <2>1. Stream = sockbuf \o socket /\ Stream' = sockbuf \o (socket \o line)
      BY <1>1, <1>2, <1>3 DEF Stream, line
    <2>2. Joined(sockbuf, Joined(socket, line)) = Joined(Joined(sockbuf, socket), line)
      BY <1>3, <1>4, Regroup
    <2> QED BY <2>1, <2>2 DEF Joined
  <1>7. ASSUME ~damaged' PROVE StreamOK'
    <2>1. StreamOK /\ ~GivenUp
      BY <1>2, <1>7 DEF RecvInv, GivenUp
    <2>2. Len(got) \in 0 .. Len(sent)
      BY <1>3, <2>1 DEF StreamOK
    <2>3. Lines(Stream', sent', Len(got)')
      BY <1>1, <1>2, <1>3, <1>6, <2>1, <2>2, LinesAppended DEF StreamOK, line
    <2>4. Len(got)' <= Len(sent)' /\ \A i \in DOMAIN got : sent'[i] = sent[i]
      BY <1>1, <1>2, <1>3, <2>2
    <2>5. \A i \in DOMAIN got' : got'[i] = Whole(sent'[i])
      BY <1>2, <2>1, <2>4 DEF StreamOK, Whole
    <2> QED BY <1>2, <2>1, <2>3, <2>4, <2>5 DEF StreamOK, HasLine
  <1> QED BY <1>5, <1>7 DEF RecvInv

(* A step that changes neither what is to come nor what there was.         *)
LEMMA SameStream ==
  ASSUME RecvInv, ~damaged, sent' = sent, got' = got, GivenUp \/ Stream' = Stream,
         GivenUp => GivenUp', rthread' = "token" => GivenUp' \/ HasLine(sockbuf')
  PROVE  StreamOK'
  BY DEF RecvInv, StreamOK, Lines, HasLine, Whole

LEMMA ArriveOK == ASSUME RecvInv, Arrive PROVE RecvInv'
  <1>1. PICK n \in 1 .. Len(sending) : /\ socket' = socket \o SubSeq(sending, 1, n)
                                      /\ sending' = SubSeq(sending, n + 1, Len(sending))
    BY DEF Arrive
  <1>2. ~closed /\ UNCHANGED <<closed, sockbuf, rthread, sent, got, damaged>>
    BY DEF Arrive
  <1> DEFINE a == SubSeq(sending, 1, n)
             b == SubSeq(sending, n + 1, Len(sending))
  <1>3. socket \in Seq(Char) /\ sockbuf \in Seq(Char) /\ sending \in Seq(Char)
    BY DEF RecvInv, RecvTypeOK
  <1>4. a \in Seq(Char) /\ b \in Seq(Char) /\ sending = a \o b
    BY <1>3, CutInTwo
  <1>5. socket' = socket \o a /\ sending' = b
    BY <1>1
  <1> HIDE DEF a, b
  <1>6. RecvTypeOK'
    BY <1>2, <1>3, <1>4, <1>5 DEF RecvInv, RecvTypeOK
  <1>7. Stream' = Stream
    <2>1. Joined(socket, Joined(a, b)) = Joined(Joined(socket, a), b)
      BY <1>3, <1>4, Regroup
    <2>2. Stream = sockbuf \o Joined(socket, Joined(a, b))
      BY <1>4 DEF Stream, Joined
    <2>3. Stream' = sockbuf \o Joined(Joined(socket, a), b)
      BY <1>2, <1>5 DEF Stream, Joined
    <2> QED BY <2>1, <2>2, <2>3
  <1>8. ASSUME ~damaged' PROVE StreamOK'
    BY <1>2, <1>7, <1>8, SameStream DEF RecvInv, StreamOK, GivenUp
  <1> QED BY <1>6, <1>8 DEF RecvInv

LEMMA RecvOK == ASSUME RecvInv, Recv PROVE RecvInv'
  <1>1. PICK n \in 1 .. Len(socket) : /\ sockbuf' = sockbuf \o SubSeq(socket, 1, n)
                                     /\ socket' = SubSeq(socket, n + 1, Len(socket))
    BY DEF Recv
  <1>2. /\ rthread = "wait" /\ rthread' = IF HasLine(sockbuf') THEN "token" ELSE "wait"
        /\ UNCHANGED <<closed, sending, sent, got, damaged>>
    BY DEF Recv
  <1> DEFINE a == SubSeq(socket, 1, n)
             b == SubSeq(socket, n + 1, Len(socket))
  <1>3. socket \in Seq(Char) /\ sockbuf \in Seq(Char) /\ sending \in Seq(Char)
    BY DEF RecvInv, RecvTypeOK
  <1>4. a \in Seq(Char) /\ b \in Seq(Char) /\ socket = a \o b
    BY <1>3, CutInTwo
  <1>5. sockbuf' = sockbuf \o a /\ socket' = b
    BY <1>1
  <1> HIDE DEF a, b
  <1>6. RecvTypeOK'
    BY <1>2, <1>3, <1>4, <1>5 DEF RecvInv, RecvTypeOK
  <1>7. Stream' = Stream
    <2>1. Joined(Joined(sockbuf, a), Joined(b, sending)) = Joined(sockbuf, Joined(Joined(a, b), sending))
      BY <1>3, <1>4, RegroupFour
    <2>2. Stream' = Joined(Joined(sockbuf, a), Joined(b, sending))
      BY <1>2, <1>5 DEF Stream, Joined
    <2>3. Stream = Joined(sockbuf, Joined(Joined(a, b), sending))
      BY <1>4 DEF Stream, Joined
    <2> QED BY <2>1, <2>2, <2>3
  <1>8. ASSUME ~damaged' PROVE StreamOK'
    BY <1>2, <1>7, <1>8, SameStream DEF RecvInv, StreamOK, GivenUp
  <1> QED BY <1>6, <1>8 DEF RecvInv

(* An empty line, and a wait that ends: nothing is claimed from there on.  *)
LEMMA DamageOK == ASSUME RecvInv, EmptyLine \/ WaitEnds PROVE RecvInv'
  <1>1. RecvTypeOK /\ damaged'
    BY DEF RecvInv, EmptyLine, WaitEnds
  <1>2. CASE EmptyLine
    <2>1. socket \in Seq(Char) /\ socket' = Append(socket, Newline) /\ Newline \in Char
      BY <1>1, <1>2, CharsDiffer DEF RecvTypeOK, EmptyLine
    <2>2. socket' \in Seq(Char)
      BY <2>1, AppendProperties
    <2>3. RecvTypeOK'
      BY <1>1, <1>2, <2>2 DEF RecvTypeOK, EmptyLine
    <2> QED BY <1>1, <2>3 DEF RecvInv
  <1>3. CASE WaitEnds
    <2>1. RecvTypeOK'
      BY <1>1, <1>3 DEF RecvTypeOK, WaitEnds
    <2> QED BY <1>1, <2>1 DEF RecvInv
  <1> QED BY <1>2, <1>3

LEMMA CloseOK == ASSUME RecvInv, Close PROVE RecvInv'
  <1>1. RecvTypeOK'
    BY DEF Close, RecvInv, RecvTypeOK
  <1>2. ASSUME ~damaged' PROVE StreamOK'
    <2>1. Stream' = Stream
      BY DEF Close, Stream
    <2> QED BY <1>2, <2>1, SameStream DEF Close, RecvInv, StreamOK, GivenUp
  <1> QED BY <1>1, <1>2 DEF RecvInv

LEMMA LookOK == ASSUME RecvInv, Look PROVE RecvInv'
  <1>1. RecvTypeOK'
    BY DEF Look, RecvInv, RecvTypeOK
  <1>2. ASSUME ~damaged' PROVE StreamOK'
    <2>1. Stream' = Stream
      BY DEF Look, Stream
    <2> QED BY <1>2, <2>1, SameStream DEF Look, RecvInv, StreamOK, GivenUp
  <1> QED BY <1>1, <1>2 DEF RecvInv

LEMMA RecvFailsOK == ASSUME RecvInv, RecvFails PROVE RecvInv'
  <1>1. RecvTypeOK'
    BY DEF RecvFails, RecvInv, RecvTypeOK
  <1>2. GivenUp' /\ ~GivenUp
    BY DEF RecvFails, GivenUp
  <1>3. ASSUME ~damaged' PROVE StreamOK'
    BY <1>2, <1>3 DEF RecvFails, RecvInv, StreamOK, Whole
  <1> QED BY <1>1, <1>3 DEF RecvInv

LEMMA TimeOutOK == ASSUME RecvInv, TimeOut PROVE RecvInv'
  <1>1. RecvTypeOK'
    BY DEF TimeOut, RecvInv, RecvTypeOK
  <1>2. ASSUME ~damaged' PROVE StreamOK'
    <2>1. Stream' = Stream
      BY DEF TimeOut, Stream
    <2> QED BY <1>2, <2>1, SameStream DEF TimeOut, RecvInv, StreamOK, GivenUp
  <1> QED BY <1>1, <1>2 DEF RecvInv

LEMMA NoTokenOK == ASSUME RecvInv, NoToken PROVE RecvInv'
  <1>1. RecvTypeOK'
    BY DEF NoToken, RecvInv, RecvTypeOK
  <1>2. ASSUME ~damaged' PROVE StreamOK'
    <2>1. Stream' = Stream
      BY DEF NoToken, Stream
    <2> QED BY <1>2, <2>1, SameStream DEF NoToken, RecvInv, StreamOK, GivenUp
  <1> QED BY <1>1, <1>2 DEF RecvInv

LEMMA RestartOK == ASSUME RecvInv, restart_stratum PROVE RecvInv'
  <1>1. RecvTypeOK'
    BY NoChars DEF restart_stratum, RecvTypeOK
  <1>2. Stream' = <<>>
    BY DEF restart_stratum, Stream
  <1>3. StreamOK'
    BY <1>2, NothingSent DEF restart_stratum, StreamOK
  <1> QED BY <1>1, <1>3 DEF RecvInv

(* recv_line returns the first line of the stream: the buffer has a whole  *)
(* one, and nothing before it.                                             *)
LEMMA TokenizeOK == ASSUME RecvInv, Tokenize PROVE RecvInv'
  <1> DEFINE rest == Rest(sockbuf, Len(Token(sockbuf)))
             later == socket \o sending
  <1>1. /\ socket \in Seq(Char) /\ sockbuf \in Seq(Char) /\ sending \in Seq(Char)
        /\ sent \in Seq(Line) /\ got \in Seq(Seq(Char)) /\ later \in Seq(Char)
        /\ Len(got) \in Nat /\ Len(sent) \in Nat /\ DOMAIN got = 1 .. Len(got)
        /\ Len(sockbuf) \in Nat /\ Len(later) \in Nat
    BY DEF RecvInv, RecvTypeOK
  <1>2. /\ rthread = "token" /\ Token(sockbuf) # <<>>
        /\ got' = Append(got, Token(sockbuf))
        /\ sockbuf' = rest
        /\ rthread' = "loop"
        /\ UNCHANGED <<socket, closed, sending, sent, damaged>>
    BY DEF Tokenize
  <1>3. rest \in Seq(Char) /\ Token(sockbuf) \in Seq(Char)
    BY <1>1, RestType, TokenIs
  <1> HIDE DEF rest, later
  <1>4. RecvTypeOK'
    BY <1>1, <1>2, <1>3 DEF RecvInv, RecvTypeOK
  <1>5. ASSUME ~damaged' PROVE StreamOK'
    <2>1. StreamOK
      BY <1>2, <1>5 DEF RecvInv
    <2>2. ~GivenUp
      <3>1. ASSUME sockbuf = <<>> PROVE Token(sockbuf) = <<>>
        <4>1. Len(sockbuf) = 0
          BY <3>1
        <4>2. Skipped(sockbuf) \in 0 .. Len(sockbuf)
          BY <1>1, SkippedIs
        <4>3. PICK n \in 0 .. Len(sockbuf) - Skipped(sockbuf) : Len(Token(sockbuf)) = n
          BY <1>1, TokenIs
        <4>4. Len(Token(sockbuf)) = 0
          BY <4>1, <4>2, <4>3
        <4> QED BY <1>3, <4>4, EmptySeq
      <3> QED BY <1>2, <3>1 DEF GivenUp
    <2>3. Lines(Stream, sent, Len(got)) /\ HasLine(sockbuf)
      BY <1>2, <2>1, <2>2 DEF StreamOK
    <2>4. /\ Stream = sockbuf \o later /\ Len(Stream) = Len(sockbuf) + Len(later)
          /\ \A i \in 1 .. Len(sockbuf) : Stream[i] = sockbuf[i]
      BY <1>1 DEF Stream, later
    <2>5. PICK i \in 1 .. Len(sockbuf) : sockbuf[i] = Newline
      BY <1>1, <2>3 DEF HasLine
    <2>6. Len(got) < Len(sent)
      <3>1. ASSUME Len(got) = Len(sent) PROVE FALSE
        <4>1. (Len(sent) - Len(got)) * Width = 0
          BY <1>1, <3>1, CharsDiffer
        <4> QED BY <1>1, <2>3, <2>4, <2>5, <4>1 DEF Lines
      <3> QED BY <1>1, <2>1, <3>1 DEF StreamOK
    <2> DEFINE l == sent[Len(got) + 1]
    <2>7. l \in Line /\ Len(got) \in 0 .. Len(sent) - 1
      BY <1>1, <2>6
    <2>8. /\ \A r \in 1 .. Parts : Stream[r] = <<l, r>>
          /\ Stream[Width] = Newline
      <3>1. /\ \A r \in 1 .. Parts : Stream[0 * Width + r] = <<sent[Len(got) + 0 + 1], r>>
            /\ Stream[0 * Width + Width] = Newline
        BY <1>1, <2>3, <2>6 DEF Lines
      <3>2. 0 * Width + Width = Width /\ Len(got) + 0 + 1 = Len(got) + 1
            /\ \A r \in 1 .. Parts : 0 * Width + r = r
        BY <1>1, CharsDiffer
      <3> QED BY <3>1, <3>2
    <2> HIDE DEF l
    <2>9. Len(sockbuf) >= Width
      <3>1. i \notin 1 .. Parts
        BY <2>4, <2>5, <2>7, <2>8, CharsDiffer
      <3> QED BY <1>1, <2>5, <3>1, RecvAssumption DEF Width
    <2>10. /\ sockbuf[Width] = Newline
           /\ \A r \in 1 .. Parts : sockbuf[r] = <<l, r>>
      <3>1. Width \in 1 .. Len(sockbuf) /\ \A r \in 1 .. Parts : r \in 1 .. Len(sockbuf)
        BY <1>1, <2>9, RecvAssumption DEF Width
      <3> QED BY <2>4, <2>8, <3>1
    <2>11. /\ Token(sockbuf) = Whole(l)
           /\ rest = SubSeq(sockbuf, Width + 1, Len(sockbuf))
      BY <1>1, <2>7, <2>9, <2>10, TakesLine DEF rest
    <2>12. /\ Len(rest) = Len(sockbuf) - Width
           /\ \A j \in 1 .. Len(rest) : rest[j] = sockbuf[j + Width]
      <3>1. Width \in Nat /\ \A j \in Width + 1 .. Len(sockbuf) : sockbuf[j] \in Char
        BY <1>1, CharsDiffer
      <3>2. /\ Len(rest) = IF Width + 1 <= Len(sockbuf) THEN Len(sockbuf) - (Width + 1) + 1 ELSE 0
            /\ \A j \in 1 .. Len(sockbuf) - (Width + 1) + 1 : rest[j] = sockbuf[(Width + 1) + j - 1]
        BY <1>1, <2>11, <3>1, SubSeqProperties
      <3>3. Len(rest) = Len(sockbuf) - Width
        BY <1>1, <2>9, <3>1, <3>2
      <3>4. ASSUME NEW j \in 1 .. Len(rest) PROVE rest[j] = sockbuf[j + Width]
        <4>1. j \in 1 .. Len(sockbuf) - (Width + 1) + 1 /\ (Width + 1) + j - 1 = j + Width
          BY <1>1, <3>1, <3>3
        <4> QED BY <3>2, <4>1
      <3> QED BY <3>3, <3>4
    <2>13. Stream' = rest \o later
      BY <1>2 DEF Stream, later
    <2>14. /\ Len(Stream') = Len(Stream) - Width
           /\ \A j \in 1 .. Len(Stream') : Stream'[j] = Stream[j + Width]
      <3>1. /\ Len(Stream') = Len(rest) + Len(later)
            /\ \A j \in 1 .. Len(rest) + Len(later) :
                 Stream'[j] = IF j <= Len(rest) THEN rest[j] ELSE later[j - Len(rest)]
        BY <1>1, <1>3, <2>13, ConcatProperties
      <3>2. \A j \in 1 .. Len(sockbuf) + Len(later) :
              Stream[j] = IF j <= Len(sockbuf) THEN sockbuf[j] ELSE later[j - Len(sockbuf)]
        BY <1>1, <2>4, ConcatProperties
      <3>3. Width \in Nat
        BY CharsDiffer
      <3> DEFINE m == Len(sockbuf)
                 o == Len(later)
      <3>4. m \in Nat /\ o \in Nat /\ m >= Width /\ Len(rest) = m - Width
        BY <1>1, <2>9, <2>12
      <3>5. ASSUME NEW j \in 1 .. (m - Width) + o PROVE Stream'[j] = Stream[j + Width]
        <4>1. CASE j <= m - Width
          <5>1. j \in 1 .. m - Width /\ j + Width \in 1 .. m + o /\ j + Width <= m
            <6> HIDE DEF m, o, Width
            <6> QED BY <3>3, <3>4, <4>1
          <5>2. Stream'[j] = rest[j] /\ Stream[j + Width] = sockbuf[j + Width]
            BY <3>1, <3>2, <3>4, <5>1
          <5> QED BY <2>12, <3>4, <5>1, <5>2
        <4>2. CASE ~(j <= m - Width)
          <5>1. /\ j + Width \in 1 .. m + o /\ ~(j + Width <= m)
                /\ j - (m - Width) = (j + Width) - m
            <6> HIDE DEF m, o, Width
            <6> QED BY <3>3, <3>4, <4>2
          <5>2. Stream'[j] = later[j - (m - Width)]
            BY <3>1, <3>4, <4>2
          <5>3. Stream[j + Width] = later[(j + Width) - m]
            BY <3>2, <5>1
          <5> QED BY <5>1, <5>2, <5>3
        <4> QED BY <4>1, <4>2
      <3>6. Len(Stream') = (m - Width) + o /\ Len(Stream) = m + o
        BY <2>4, <3>1, <3>4
      <3>7. (m - Width) + o = (m + o) - Width
        <4> HIDE DEF m, o, Width
        <4> QED BY <3>3, <3>4
      <3> QED BY <3>5, <3>6, <3>7
    <2>15. Lines(Stream', sent', Len(got)')
      <3>1. Lines(Stream', sent, Len(got) + 1)
        BY <1>1, <2>3, <2>7, <2>14, FirstLineTaken
      <3> QED BY <1>1, <1>2, <1>3, <3>1
    <2>16. \A j \in DOMAIN got' : got'[j] = Whole(sent'[j])
      <3>1. ASSUME NEW j \in 1 .. Len(got) + 1
            PROVE  got'[j] = Whole(sent[j])
        <4>1. CASE j \in 1 .. Len(got)
          <5>1. got'[j] = got[j]
            BY <1>1, <1>2, <1>3, <4>1, AppendProperties
          <5>2. got[j] = Whole(sent[j])
            BY <1>1, <2>1, <4>1, Zenon DEF StreamOK
          <5> QED BY <5>1, <5>2, Zenon
        <4>2. CASE j = Len(got) + 1
          <5>1. got'[j] = Token(sockbuf)
            BY <1>1, <1>2, <1>3, <4>2
          <5> QED BY <2>11, <4>2, <5>1 DEF l
        <4> QED BY <1>1, <4>1, <4>2
      <3> QED BY <1>1, <1>2, <1>3, <3>1
    <2> QED BY <1>1, <1>2, <1>3, <2>6, <2>15, <2>16 DEF StreamOK
  <1> QED BY <1>4, <1>5 DEF RecvInv

(* What recv_line returns are the lines of the session, whole and in their *)
(* order, for any lines, and however the network cuts them.                *)
THEOREM LinesWhole == RecvSpec => []LinesIntact
  <1>1. RecvInv /\ [RecvNext]_recvVars => RecvInv'
    <2> SUFFICES ASSUME RecvInv, [RecvNext]_recvVars PROVE RecvInv'
      OBVIOUS
    <2>1. CASE UNCHANGED recvVars
      BY <2>1 DEF recvVars, RecvInv, RecvTypeOK, StreamOK, Stream, GivenUp, Lines, HasLine, Whole
    <2> QED BY <2>1, StartLineOK, ArriveOK, DamageOK, CloseOK, LookOK, RecvOK, RecvFailsOK,
               TokenizeOK, NoTokenOK, TimeOutOK, RestartOK
            DEF RecvNext, Reading
  <1> QED BY <1>1, RecvInitOK, IntactFromInv, PTL DEF RecvSpec

=============================================================================
