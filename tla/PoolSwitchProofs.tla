-------------------------- MODULE PoolSwitchProofs --------------------------
(***************************************************************************)
(* For any number of pools, threads and commands, the array of pools, the  *)
(* numbers and the priorities agree after every step.                      *)
(*                                                                         *)
(* That the priorities are injective and less than total_pools is kept by  *)
(* each change of them; that they are then all of 0 .. total_pools - 1     *)
(* follows by counting.  A pool the operator is about to remove or to      *)
(* switch to is still in the array, since the operator is the only one who *)
(* changes the array and gives one command at a time.                      *)
(*                                                                         *)
(* From the permutation follows that priority_pool finds a pool for every  *)
(* priority, so that switch_pools looks at all pools, best first; and what *)
(* each of the four renumberings does to the order of the pools, by which  *)
(* PoolSwitch implements PoolOrder.                                        *)
(***************************************************************************)
EXTENDS PoolSwitch, FiniteSetTheorems, FunctionTheorems, WellFoundedInduction, TLAPS

Places == {"free", "check", "switch", "failback", "outrank", "first", "leave", "recheck", "unlink"}

ArrayTypes ==
  /\ pools \in [0 .. MaxPools -> Pool \union {NoPool}]
  /\ total_pools \in 1 .. MaxPools
  /\ pool_no \in [Pool -> 0 .. MaxPools]
  /\ removed \subseteq Pool

PoolTypes ==
  /\ prio \in [Pool -> 0 .. MaxPools]
  /\ state \in [Pool -> State]
  /\ idle \in [Pool -> BOOLEAN]

GlobalTypes ==
  /\ current \in Pool \union {NoPool}
  /\ pools_active \in BOOLEAN /\ testing \subseteq Pool
  /\ enabled_pools \in -MaxCount .. MaxCount
  /\ strategy \in Strategies

JobTypes ==
  /\ wi \in 0 .. MaxPools + 1
  /\ job \in [Thread -> [at : Places, pool : Pool \union {NoPool}]]

Types == ArrayTypes /\ PoolTypes /\ GlobalTypes /\ JobTypes

(* What the commands under way have still to do can be done.               *)
Jobs ==
  /\ job["watch"].at = "failback" => wi < MaxPools
  /\ job["operator"].at \in {"leave", "recheck", "unlink"} =>
       job["operator"].pool \in Listed /\ total_pools > 1
  /\ job["operator"].at = "outrank" => job["operator"].pool \in Listed
  /\ \A t \in Thread : job[t].at = "switch" =>
       job[t].pool = NoPool \/ (t = "operator" /\ job[t].pool \in Listed)

Ordered ==
  /\ \A p \in Listed : prio[p] \in Numbers
  /\ \A p, q \in Listed : prio[p] = prio[q] => p = q

IInv == Types /\ Jobs /\ Numbered /\ Ordered

-----------------------------------------------------------------------------
(* Sets of numbers.                                                        *)

LEMMA LeastIn ==
  ASSUME NEW S \in SUBSET Nat, S # {}
  PROVE  Least(S) \in S /\ \A y \in S : Least(S) <= y
  <1>1. \E x \in S : \A y \in S : ~ (<<y, x>> \in OpToRel(<, Nat))
    BY NatLessThanWellFounded, WFMin
  <1>2. PICK x \in S : \A y \in S : ~ (<<y, x>> \in OpToRel(<, Nat))
    BY <1>1
  <1>3. ASSUME NEW y \in S PROVE ~ (y < x)
    <2>1. <<y, x>> \in Nat \X Nat
      BY <1>2
    <2> QED BY <1>2, <2>1, Zenon DEF OpToRel
  <1>4. \A y \in S : x <= y
    BY <1>3
  <1> QED BY <1>4 DEF Least

(* Distinct priorities below total_pools are all there are, by counting.   *)
LEMMA AllTaken ==
  ASSUME ArrayTypes, Numbered, NEW f, \A p \in Listed : f[p] \in Numbers,
         \A p, q \in Listed : f[p] = f[q] => p = q
  PROVE  \A n \in Numbers : \E p \in Listed : f[p] = n
  <1> DEFINE number == [p \in Listed |-> pool_no[p]]
             rank == [p \in Listed |-> f[p]]
  <1>1. IsFiniteSet(Numbers)
    BY FS_Interval DEF Numbers, ArrayTypes
  <1>2. number \in Bijection(Listed, Numbers)
    BY DEF Numbered, Listed, Bijection, Injection, Surjection, IsInjective
  <1>3. rank \in Injection(Listed, Numbers)
    BY DEF Injection, IsInjective
  <1>4. number \in Injection(Listed, Numbers) /\ number \in Surjection(Listed, Numbers)
    BY <1>2 DEF Bijection
  <1>5. Cardinality(Listed) = Cardinality(Numbers)
    BY <1>1, <1>4, FS_Injection
  <1>6. rank \in Surjection(Listed, Numbers)
    BY <1>1, <1>3, <1>5, FS_Injection
  <1> QED BY <1>6 DEF Surjection

LEMMA Permutation ==
  ASSUME ArrayTypes, PoolTypes, Numbered, Ordered
  PROVE  PriorityPermutation
  BY AllTaken DEF PriorityPermutation, Ordered

-----------------------------------------------------------------------------
(* What a step leaves alone.                                               *)

LEMMA ArrayKept ==
  ASSUME IInv, UNCHANGED arrayVars
  PROVE  ArrayTypes' /\ Numbered' /\ Listed' = Listed /\ Numbers' = Numbers
  BY DEF IInv, Types, ArrayTypes, Numbered, Listed, Numbers, arrayVars

LEMMA OrderKept ==
  ASSUME IInv, UNCHANGED <<arrayVars, prio>>
  PROVE  Ordered'
  BY ArrayKept DEF IInv, Ordered

LEMMA Threads == "operator" \in Thread /\ "watch" \in Thread /\ "operator" # "watch"
  BY DEF Thread

(* A thread takes up a job that asks nothing of the array.                 *)
LEMMA EasyJob ==
  ASSUME IInv, UNCHANGED arrayVars, NEW t \in Thread, NEW at \in Places, NEW p \in Pool \union {NoPool},
         Does(t, Job(at, p)), wi' \in 0 .. MaxPools + 1,
         t = "watch" /\ at = "failback" => wi' < MaxPools,
         t # "watch" => UNCHANGED wi,
         t = "operator" => at \notin {"leave", "recheck", "unlink", "outrank"},
         at = "switch" => p = NoPool
  PROVE  JobTypes' /\ Jobs'
  <1>1. job' = [job EXCEPT ![t] = [at |-> at, pool |-> p]]
    BY DEF Does, Job
  <1>2. JobTypes'
    BY <1>1 DEF IInv, Types, JobTypes
  <1>3. \A u \in Thread : job'[u] = IF u = t THEN [at |-> at, pool |-> p] ELSE job[u]
    BY <1>1 DEF IInv, Types, JobTypes
  <1>4. Jobs'
    BY <1>3, ArrayKept, Threads DEF IInv, Types, JobTypes, Jobs, arrayVars
  <1> QED BY <1>2, <1>4

LEMMA JobsKept ==
  ASSUME IInv, UNCHANGED <<arrayVars, wi, job>>
  PROVE  JobTypes' /\ Jobs'
  BY ArrayKept DEF IInv, Types, JobTypes, Jobs, arrayVars

(* The operator takes up a job with a pool of the array.                   *)
LEMMA PoolJob ==
  ASSUME IInv, UNCHANGED <<arrayVars, wi>>, NEW at \in Places, NEW p \in Listed,
         Does("operator", Job(at, p)),
         at \in {"leave", "recheck", "unlink"} => total_pools > 1
  PROVE  JobTypes' /\ Jobs'
  <1>1. job' = [job EXCEPT !["operator"] = [at |-> at, pool |-> p]]
    BY DEF Does, Job
  <1>2. p \in Pool \union {NoPool}
    BY DEF IInv, Types, ArrayTypes, Numbered, Listed, Numbers
  <1>3. JobTypes'
    BY <1>1, <1>2, Threads DEF IInv, Types, JobTypes
  <1>4. \A u \in Thread : job'[u] = IF u = "operator" THEN [at |-> at, pool |-> p] ELSE job[u]
    BY <1>1 DEF IInv, Types, JobTypes
  <1>5. Jobs'
    BY <1>4, ArrayKept, Threads DEF IInv, Types, JobTypes, Jobs, arrayVars
  <1> QED BY <1>3, <1>5

LEMMA ListedPools ==
  ASSUME IInv
  PROVE  /\ Listed \subseteq Pool
         /\ \A p \in Listed : pool_no[p] \in Numbers /\ pools[pool_no[p]] = p
         /\ \A i \in Numbers : pools[i] \in Listed /\ pool_no[pools[i]] = i
         /\ Numbers \subseteq 0 .. MaxPools - 1 /\ 0 \in Numbers /\ total_pools \in Nat
  BY ConstantsAssumption DEF IInv, Types, ArrayTypes, Numbered, Listed, Numbers

-----------------------------------------------------------------------------
(* switch_pools.                                                           *)

LEMMA PromoteOrders ==
  ASSUME IInv, NEW s \in Listed
  PROVE  /\ Promote(s) \in [Pool -> 0 .. MaxPools]
         /\ \A p \in Listed : Promote(s)[p] \in Numbers
         /\ \A p, q \in Listed : Promote(s)[p] = Promote(s)[q] => p = q
         /\ \A p \in Listed \ {s} : Promote(s)[s] < Promote(s)[p]
         /\ \A p, q \in Listed \ {s} : Promote(s)[p] < Promote(s)[q] <=> prio[p] < prio[q]
  <1>1. \A p \in Listed : p \in Pool /\ prio[p] \in 0 .. total_pools - 1 /\ prio[p] \in Nat
    BY ListedPools DEF IInv, Ordered, Numbers
  <1>2. total_pools \in Nat /\ total_pools <= MaxPools /\ MaxPools \in Nat
    BY ConstantsAssumption DEF IInv, Types, ArrayTypes
  <1>3. prio \in [Pool -> 0 .. MaxPools]
    BY DEF IInv, Types, PoolTypes
  <1>4. \A p \in Listed : Promote(s)[p] = IF p = s THEN 0
                                           ELSE IF prio[p] < prio[s] THEN prio[p] + 1 ELSE prio[p]
    BY <1>1 DEF Promote
  <1>5. \A p \in Pool : Promote(s)[p] \in 0 .. MaxPools
    BY <1>1, <1>2, <1>3 DEF Promote
  <1>6. Promote(s) \in [Pool -> 0 .. MaxPools]
    BY <1>5 DEF Promote
  <1>7. \A p, q \in Listed : prio[p] = prio[q] => p = q
    BY DEF IInv, Ordered
  <1>8. \A p \in Listed : Promote(s)[p] \in 0 .. total_pools - 1
    BY <1>1, <1>2, <1>4, <1>7
  <1>9. \A p, q \in Listed : Promote(s)[p] = Promote(s)[q] => p = q
    BY <1>1, <1>4, <1>7
  <1>10. /\ \A p \in Listed \ {s} : Promote(s)[s] < Promote(s)[p]
         /\ \A p, q \in Listed \ {s} : Promote(s)[p] < Promote(s)[q] <=> prio[p] < prio[q]
    BY <1>1, <1>4, <1>7
  <1> QED BY <1>6, <1>8, <1>9, <1>10 DEF Numbers

(* Whatever the strategy chooses is the number of a pool.                  *)
LEMMA ChosenTyped ==
  ASSUME IInv, current \in Pool, NEW pr
  PROVE  BestNumber(pr) \in 0 .. MaxPools /\ NextNumber \in 0 .. MaxPools
  <1> USE ConstantsAssumption
  <1>1. pool_no[current] \in 0 .. MaxPools /\ MaxPools \in Nat
    BY DEF IInv, Types, ArrayTypes
  <1>2. total_pools \in Nat \ {0} /\ total_pools <= MaxPools
    BY DEF IInv, Types, ArrayTypes
  <1>3. BestNumber(pr) \in 0 .. MaxPools
    <2> DEFINE alive == {i \in Numbers : usable(priority_pool(i, pr))}
    <2>1. CASE alive = {}
      BY <2>1, <1>1 DEF BestNumber
    <2>2. CASE alive # {}
      <3>1. alive \in SUBSET Nat
        BY DEF Numbers
      <3>2. Least(alive) \in Numbers
        BY <2>2, <3>1, LeastIn
      <3> DEFINE i == Least(alive)
                 found == {n \in Numbers : pr[pools[n]] = i}
      <3>3. found # {} => Least(found) \in Numbers
        <4>1. found \in SUBSET Nat
          BY DEF Numbers
        <4> QED BY <4>1, LeastIn
      <3>4. priority_pool(i, pr) \in Listed
        BY <3>2, <3>3, ListedPools DEF priority_pool
      <3>5. pool_no[priority_pool(i, pr)] \in 0 .. MaxPools
        BY <3>4, ListedPools, <1>1
      <3> QED BY <2>2, <3>5 DEF BestNumber
    <2> QED BY <2>1, <2>2
  <1>4. NextNumber \in 0 .. MaxPools
    <2> DEFINE n == pool_no[current]
               Nth(i) == IF n < total_pools THEN (n + i) % total_pools ELSE i - 1
               alive == {i \in 1 .. total_pools - 1 : usable(pools[Nth(i)])}
    <2>1. \A i \in 1 .. total_pools - 1 : Nth(i) \in 0 .. MaxPools
      BY <1>1, <1>2
    <2>2. alive # {} => Least(alive) \in 1 .. total_pools - 1
      <3>1. alive \in SUBSET Nat
        BY <1>2
      <3> QED BY <3>1, LeastIn
    <2>3. NextNumber = IF alive # {} THEN Nth(Least(alive)) ELSE n
      BY DEF NextNumber
    <2> HIDE DEF Nth, alive
    <2> QED BY <1>1, <2>1, <2>2, <2>3
  <1> QED BY <1>3, <1>4

LEMMA SwitchTo ==
  ASSUME IInv, current \in Pool, NEW s \in Pool \union {NoPool},
         s = NoPool \/ s \in Listed, switch_pools(s), UNCHANGED arrayVars
  PROVE  /\ current' \in Pool \union {NoPool}
         /\ prio' \in [Pool -> 0 .. MaxPools]
         /\ Ordered'
  <1>1. prio' = IF s # NoPool THEN Promote(s) ELSE prio
    BY DEF switch_pools
  <1>2. prio' \in [Pool -> 0 .. MaxPools]
    BY <1>1, PromoteOrders DEF IInv, Types, PoolTypes
  <1>3. Ordered'
    BY <1>1, PromoteOrders, ArrayKept DEF IInv, Ordered
  <1>4. current' \in Pool \union {NoPool}
    <2>1. \E n : current' = pools[n] /\ n \in 0 .. MaxPools
      <3>1. s # NoPool => pool_no[s] \in 0 .. MaxPools
        BY DEF IInv, Types, ArrayTypes
      <3> QED BY <3>1, ChosenTyped DEF switch_pools
    <2> QED BY <2>1 DEF IInv, Types, ArrayTypes
  <1> QED BY <1>2, <1>3, <1>4

-----------------------------------------------------------------------------
(* The array and the priorities change.                                    *)

LEMMA Started ==
  ASSUME Init
  PROVE  IInv
  <1>1. PICK n \in 1 .. MaxPools : /\ AtStart \in [0 .. n - 1 -> Pool]
                                  /\ \A i, j \in 0 .. n - 1 : AtStart[i] = AtStart[j] => i = j
    BY ConstantsAssumption
  <1>2. n \in Nat /\ MaxPools \in Nat /\ 1 <= n /\ n <= MaxPools
    BY <1>1, ConstantsAssumption
  <1>3. DOMAIN AtStart = 0 .. n - 1 /\ Cardinality(0 .. n - 1) = n
    BY <1>1, <1>2, FS_Interval
  <1>4. total_pools = n /\ Numbers = 0 .. n - 1
    BY <1>3 DEF Init, Numbers
  <1>5. pools = [i \in 0 .. MaxPools |-> IF i \in 0 .. n - 1 THEN AtStart[i] ELSE NoPool]
    BY <1>3 DEF Init
  <1>6. pools \in [0 .. MaxPools -> Pool \union {NoPool}]
    BY <1>1, <1>5
  <1>7. \A i \in Numbers : pools[i] = AtStart[i] /\ pools[i] \in Pool
    BY <1>1, <1>2, <1>4, <1>5
  <1>8. \A i, j \in Numbers : pools[i] = pools[j] => i = j
    BY <1>1, <1>4, <1>7
  <1>9. Listed \subseteq Pool /\ pools[0] \in Pool
    BY <1>2, <1>4, <1>7 DEF Listed
  <1>10. \A p \in Pool : pool_no[p] = IF p \in Listed THEN CHOOSE i \in Numbers : pools[i] = p ELSE 0
    BY DEF Init
  <1>11. \A p \in Listed : pool_no[p] \in Numbers /\ pools[pool_no[p]] = p
    <2> SUFFICES ASSUME NEW p \in Listed
                 PROVE  pool_no[p] \in Numbers /\ pools[pool_no[p]] = p
      OBVIOUS
    <2>1. \E i \in Numbers : pools[i] = p
      BY DEF Listed
    <2> QED BY <2>1, <1>9, <1>10
  <1>12. pool_no \in [Pool -> 0 .. MaxPools]
    <2>1. pool_no = [p \in Pool |-> pool_no[p]]
      BY DEF Init
    <2>2. \A p \in Pool : pool_no[p] \in 0 .. MaxPools
      <3>1. \A p \in Pool \ Listed : pool_no[p] = 0
        BY <1>10
      <3> QED BY <3>1, <1>2, <1>4, <1>11
    <2> QED BY <2>1, <2>2
  <1>13. Numbered
    <2>1. \A i \in Numbers : pools[i] \in Listed
      BY DEF Listed
    <2>2. removed = {}
      BY DEF Init
    <2> QED BY <2>1, <2>2, <1>7, <1>8, <1>11 DEF Numbered
  <1>14. prio = pool_no
    BY DEF Init
  <1>15. Ordered
    BY <1>11, <1>14 DEF Ordered
  <1>16. ArrayTypes
    <2>1. removed \subseteq Pool
      BY DEF Init
    <2> QED BY <2>1, <1>2, <1>4, <1>6, <1>12 DEF ArrayTypes
  <1>17. PoolTypes
    <2>1. state \in [Pool -> State] /\ idle \in [Pool -> BOOLEAN]
      BY ConstantsAssumption DEF Init
    <2> QED BY <2>1, <1>12, <1>14 DEF PoolTypes
  <1>18. GlobalTypes
    <2>1. enabled_pools \in -MaxCount .. MaxCount
      BY ConstantsAssumption DEF Init
    <2>2. current \in Pool /\ testing \subseteq Pool
      BY <1>9 DEF Init
    <2>3. pools_active \in BOOLEAN /\ strategy \in Strategies
      BY DEF Init
    <2> QED BY <2>1, <2>2, <2>3 DEF GlobalTypes
  <1>19. JobTypes /\ Jobs
    BY Threads, <1>2 DEF JobTypes, Jobs, Init, Free, Places
  <1> QED BY <1>13, <1>15, <1>16, <1>17, <1>18, <1>19 DEF IInv, Types

(* The members of a finite set, ranked by how many have a lesser value.    *)
LEMMA Rank ==
  ASSUME NEW S, IsFiniteSet(S), NEW f, \A p \in S : f[p] \in Nat,
         \A p, q \in S : f[p] = f[q] => p = q,
         NEW r, \A p \in S : r[p] = Cardinality({q \in S : f[q] < f[p]})
  PROVE  /\ \A p \in S : r[p] \in 0 .. Cardinality(S) - 1
         /\ \A p, q \in S : r[p] = r[q] => p = q
         /\ \A p, q \in S : f[p] < f[q] => r[p] < r[q]
  <1> DEFINE better(p) == {q \in S : f[q] < f[p]}
  <1>1. Cardinality(S) \in Nat
    BY FS_CardinalityType
  <1>2. ASSUME NEW p \in S
        PROVE  IsFiniteSet(better(p)) /\ r[p] \in 0 .. Cardinality(S) - 1
    <2>1. p \notin better(p) /\ better(p) \in SUBSET S
      OBVIOUS
    <2>2. /\ IsFiniteSet(better(p)) /\ Cardinality(better(p)) <= Cardinality(S)
          /\ Cardinality(S) = Cardinality(better(p)) => S = better(p)
      BY <2>1, FS_Subset
    <2>3. Cardinality(better(p)) \in Nat
      BY <2>2, FS_CardinalityType
    <2>4. Cardinality(better(p)) # Cardinality(S)
      BY <2>1, <2>2
    <2>5. r[p] = Cardinality(better(p))
      OBVIOUS
    <2> HIDE DEF better
    <2> QED BY <2>2, <2>3, <2>4, <2>5, <1>1
  <1>3. \A p \in S : r[p] \in Nat
    <2> SUFFICES ASSUME NEW p \in S PROVE r[p] \in Nat
      OBVIOUS
    <2>1. r[p] \in 0 .. Cardinality(S) - 1
      BY <1>2
    <2> QED BY <2>1, <1>1
  <1>4. ASSUME NEW p \in S, NEW q \in S, f[p] < f[q]
        PROVE  r[p] < r[q]
    <2>1. better(p) \in SUBSET better(q) /\ p \in better(q) /\ p \notin better(p)
      BY <1>4
    <2>2. /\ Cardinality(better(p)) <= Cardinality(better(q))
          /\ Cardinality(better(q)) = Cardinality(better(p)) => better(q) = better(p)
      BY <2>1, <1>2, FS_Subset
    <2>3. r[p] = Cardinality(better(p)) /\ r[q] = Cardinality(better(q))
      OBVIOUS
    <2> HIDE DEF better
    <2>4. Cardinality(better(p)) # Cardinality(better(q))
      BY <2>1, <2>2
    <2> QED BY <2>2, <2>3, <2>4, <1>3
  <1>5. ASSUME NEW p \in S, NEW q \in S, r[p] = r[q]
        PROVE  p = q
    <2>1. ~ (f[p] < f[q]) /\ ~ (f[q] < f[p])
      BY <1>3, <1>4, <1>5
    <2> QED BY <2>1
  <1> QED BY <1>2, <1>4, <1>5

(* poolpriority: the pools not named are ranked behind those named.        *)
LEMMA Ranked ==
  ASSUME IInv, NEW n \in 1 .. total_pools, NEW named \in [0 .. n - 1 -> Listed],
         \A i, j \in 0 .. n - 1 : named[i] = named[j] => i = j
  PROVE  LET pr == NewPriorities(n, named)
         IN /\ pr \in [Pool -> 0 .. MaxPools]
            /\ \A p \in Listed : pr[p] \in Numbers
            /\ \A p, q \in Listed : pr[p] = pr[q] => p = q
            /\ LET first == {named[i] : i \in 0 .. n - 1}
               IN /\ first \subseteq Listed /\ first # {}
                  /\ \A p \in first, q \in Listed \ first : pr[p] < pr[q]
                  /\ \A p, q \in Listed \ first : prio[p] < prio[q] => pr[p] < pr[q]
  <1> DEFINE first == {named[i] : i \in 0 .. n - 1}
             others == Listed \ first
             r == [p \in others |-> Cardinality({q \in others : prio[q] < prio[p]})]
             pr == NewPriorities(n, named)
  <1>1. total_pools \in Nat \ {0} /\ total_pools <= MaxPools /\ MaxPools \in Nat /\ n \in Nat
        /\ 1 <= n /\ n <= total_pools
    BY ConstantsAssumption DEF IInv, Types, ArrayTypes
  <1>2. IsFiniteSet(Numbers) /\ Cardinality(Numbers) = total_pools
    BY <1>1, FS_Interval DEF Numbers
  <1>3. IsFiniteSet(Listed) /\ Cardinality(Listed) = total_pools
    <2> DEFINE number == [p \in Listed |-> pool_no[p]]
    <2>1. number \in Injection(Listed, Numbers) /\ number \in Surjection(Listed, Numbers)
      BY ListedPools DEF Injection, Surjection, IsInjective
    <2> QED BY <2>1, <1>2, FS_Injection
  <1>4. first \subseteq Listed /\ IsFiniteSet(first) /\ Cardinality(first) = n
    <2>1. IsFiniteSet(0 .. n - 1) /\ Cardinality(0 .. n - 1) = n
      BY <1>1, FS_Interval
    <2>2. named \in Surjection(0 .. n - 1, first) /\ named \in Injection(0 .. n - 1, first)
      BY DEF Surjection, Injection, IsInjective
    <2> QED BY <2>1, <2>2, FS_Surjection
  <1>5. IsFiniteSet(others) /\ Cardinality(others) = total_pools - n
    <2> HIDE DEF first
    <2>1. Listed \intersect first = first
      BY <1>4
    <2>2. IsFiniteSet(Listed \ first)
          /\ Cardinality(Listed \ first) = Cardinality(Listed) - Cardinality(Listed \intersect first)
      BY <1>3, FS_Difference
    <2> QED BY <2>1, <2>2, <1>3, <1>4
  <1>6. \A p \in Listed : prio[p] \in Nat
    BY DEF IInv, Ordered, Numbers
  <1>7. \A p, q \in Listed : prio[p] = prio[q] => p = q
    BY DEF IInv, Ordered
  <1>8. /\ \A p \in others : r[p] \in 0 .. Cardinality(others) - 1
        /\ \A p, q \in others : r[p] = r[q] => p = q
        /\ \A p, q \in others : prio[p] < prio[q] => r[p] < r[q]
    <2>1. \A p \in others : r[p] = Cardinality({q \in others : prio[q] < prio[p]})
      OBVIOUS
    <2>2. \A p \in others : p \in Listed
      OBVIOUS
    <2> HIDE DEF others, r
    <2>3. \A p \in others : prio[p] \in Nat
      BY <2>2, <1>6
    <2>4. \A p, q \in others : prio[p] = prio[q] => p = q
      BY <2>2, <1>7
    <2> QED BY <2>1, <2>3, <2>4, <1>5, Rank
  <1>9. Listed \subseteq Pool
    BY ListedPools
  <1>10. \A p \in others : pr[p] = n + r[p]
    BY <1>9 DEF NewPriorities
  <1>11. \A p \in first : p \in Listed /\ pr[p] \in 0 .. n - 1 /\ named[pr[p]] = p
    BY <1>4, <1>9 DEF NewPriorities
  <1>12. \A p \in Pool \ Listed : pr[p] = prio[p]
    BY DEF NewPriorities
  <1>13. pr = [p \in Pool |-> pr[p]]
    BY DEF NewPriorities
  <1>14. \A p \in Listed : p \in others \/ p \in first
    OBVIOUS
  <1>19. others = Listed \ first /\ named[0] \in first
    BY <1>1
  <1> HIDE DEF first, others, r, pr
  <1>15. \A p \in others : r[p] \in Nat /\ n + r[p] <= total_pools - 1
    BY <1>1, <1>5, <1>8
  <1>16. \A p \in Listed : pr[p] \in 0 .. total_pools - 1
    <2>1. \A p \in others : pr[p] \in 0 .. total_pools - 1
      BY <1>1, <1>10, <1>15
    <2>2. \A p \in first : pr[p] \in 0 .. total_pools - 1
      BY <1>1, <1>11
    <2> QED BY <2>1, <2>2, <1>14
  <1>17. pr \in [Pool -> 0 .. MaxPools]
    <2>1. \A p \in Pool : pr[p] \in 0 .. MaxPools
      BY <1>1, <1>12, <1>16 DEF IInv, Types, PoolTypes
    <2> QED BY <2>1, <1>13
  <1>18. ASSUME NEW p \in Listed, NEW q \in Listed, pr[p] = pr[q]
         PROVE  p = q
    <2>1. CASE p \in others /\ q \in others
      BY <2>1, <1>1, <1>8, <1>10, <1>15, <1>18
    <2>2. CASE p \in first /\ q \in first
      BY <2>2, <1>11, <1>18
    <2>3. \A x \in others, y \in first : pr[x] # pr[y]
      BY <1>1, <1>10, <1>11, <1>15
    <2> QED BY <2>1, <2>2, <2>3, <1>14, <1>18
  <1>20. /\ \A p \in first, q \in others : pr[p] < pr[q]
         /\ \A p, q \in others : prio[p] < prio[q] => pr[p] < pr[q]
    BY <1>1, <1>8, <1>10, <1>11, <1>15
  <1> QED BY <1>4, <1>16, <1>17, <1>18, <1>19, <1>20 DEF Numbers, pr, first

LEMMA Added ==
  ASSUME IInv, NEW p \in Pool, add_pool(p)
  PROVE  IInv' /\ Listed' = Listed \union {p} /\ \A q \in Listed : prio'[q] = prio[q] /\ prio'[q] < prio'[p]
  <1> USE ConstantsAssumption
  <1>1. total_pools \in 1 .. MaxPools /\ total_pools < MaxPools /\ MaxPools \in Nat
    BY DEF IInv, Types, ArrayTypes, add_pool
  <1>2. total_pools' = total_pools + 1 /\ Numbers' = Numbers \union {total_pools} /\ total_pools \notin Numbers
    BY <1>1 DEF add_pool, Numbers
  <1>3. ArrayTypes'
    BY <1>1 DEF IInv, Types, ArrayTypes, add_pool
  <1>4. PoolTypes' /\ GlobalTypes'
    BY <1>1 DEF IInv, Types, PoolTypes, GlobalTypes, add_pool
  <1>5. \A i \in Numbers' : pools'[i] = IF i = total_pools THEN p ELSE pools[i]
    BY <1>1, <1>2 DEF IInv, Types, ArrayTypes, add_pool, Numbers
  <1>6. \A q \in Pool : pool_no'[q] = (IF q = p THEN total_pools ELSE pool_no[q])
                       /\ prio'[q] = (IF q = p THEN total_pools ELSE prio[q])
    BY DEF IInv, Types, ArrayTypes, PoolTypes, add_pool
  <1>7. p \notin Listed /\ p \notin removed /\ UNCHANGED removed
    BY DEF add_pool
  <1>8. Listed' = Listed \union {p}
    BY <1>2, <1>5 DEF Listed
  <1>9. Numbered'
    BY <1>2, <1>5, <1>6, <1>7, ListedPools DEF IInv, Numbered
  <1>10. \A q \in Listed : prio[q] \in Numbers /\ prio[q] # total_pools
    BY <1>2 DEF IInv, Ordered
  <1>11. Ordered'
    BY <1>2, <1>6, <1>7, <1>8, <1>10, ListedPools DEF IInv, Ordered
  <1>12. JobTypes'
    BY DEF IInv, Types, JobTypes, add_pool
  <1>13. Jobs'
    <2>1. job' = job /\ job["operator"].at = "free" /\ wi' = wi
      BY DEF add_pool, Command, Busy
    <2> QED BY <2>1, Threads, <1>8 DEF IInv, Jobs
  <1>14. \A q \in Listed : prio'[q] = prio[q] /\ prio'[q] < prio'[p]
    BY <1>1, <1>6, <1>7, <1>10, ListedPools DEF Numbers
  <1> QED BY <1>3, <1>4, <1>8, <1>9, <1>11, <1>12, <1>13, <1>14 DEF IInv, Types

(* remove_pool: the last pool takes the place, the priorities close ranks. *)
LEMMA Removed ==
  ASSUME IInv, remove_pool
  PROVE  /\ IInv' /\ Listed' = Listed \ {job["operator"].pool}
         /\ \A q, r \in Listed' : prio'[q] < prio'[r] <=> prio[q] < prio[r]
  <1> USE ConstantsAssumption
  <1> DEFINE p == job["operator"].pool
             last == total_pools - 1
             n == pool_no[p]
  <1>1. p \in Listed /\ p \in Pool /\ total_pools > 1 /\ job["operator"].at = "unlink"
    BY ListedPools DEF IInv, Jobs, remove_pool, Busy
  <1>2. total_pools \in Nat /\ total_pools <= MaxPools /\ MaxPools \in Nat
    BY DEF IInv, Types, ArrayTypes
  <1>3. n \in Numbers /\ pools[n] = p /\ last \in Numbers /\ n <= last /\ last \in Nat /\ n \in Nat
    BY <1>1, <1>2, ListedPools DEF Numbers
  <1>4. pools[last] \in Listed /\ pools[last] \in Pool /\ pool_no[pools[last]] = last
    BY <1>3, ListedPools
  <1>5. total_pools' = last /\ Numbers' = 0 .. last - 1 /\ Numbers' = Numbers \ {last}
    BY <1>1, <1>2 DEF remove_pool, Numbers
  <1>6. /\ pools \in [0 .. MaxPools -> Pool \union {NoPool}]
        /\ pool_no \in [Pool -> 0 .. MaxPools]
    BY DEF IInv, Types, ArrayTypes
  <1>7. /\ pools' = IF n < last THEN [pools EXCEPT ![n] = pools[last]] ELSE pools
        /\ pool_no' = IF n < last THEN [pool_no EXCEPT ![pools[last]] = n, ![p] = total_pools]
                                  ELSE [pool_no EXCEPT ![p] = total_pools]
    BY DEF remove_pool, TakePlace
  <1>8. ArrayTypes'
    <2>1. pools' \in [0 .. MaxPools -> Pool \union {NoPool}]
      BY <1>4, <1>6, <1>7
    <2>2. n \in 0 .. MaxPools /\ total_pools \in 0 .. MaxPools /\ last \in 1 .. MaxPools
      BY <1>1, <1>2, <1>3
    <2>3. pool_no' \in [Pool -> 0 .. MaxPools]
      BY <1>6, <1>7, <2>2
    <2>4. removed' \subseteq Pool
      BY <1>1 DEF IInv, Types, ArrayTypes, remove_pool
    <2> QED BY <1>5, <2>1, <2>2, <2>3, <2>4 DEF ArrayTypes
  <1>9. \A i \in Numbers' : pools'[i] = IF i = n THEN pools[last] ELSE pools[i]
    BY <1>2, <1>3, <1>5, <1>6, <1>7
  <1>10. \A i \in Numbers' : i \in Numbers /\ i # last
    BY <1>5
  <1>11. Listed' = Listed \ {p}
    <2>1. \A i \in Numbers' : pools'[i] \in Listed /\ pools'[i] # p
      BY <1>3, <1>4, <1>9, <1>10, ListedPools
    <2>2. ASSUME NEW q \in Listed, q # p
          PROVE  \E i \in Numbers' : pools'[i] = q
      <3>1. pool_no[q] \in Numbers /\ pools[pool_no[q]] = q /\ pool_no[q] # n
        BY <2>2, <1>3, ListedPools
      <3>2. CASE pool_no[q] = last
        <4>1. n \in Numbers'
          BY <3>1, <3>2, <1>3, <1>5
        <4> QED BY <4>1, <3>1, <3>2, <1>9
      <3>3. CASE pool_no[q] # last
        <4>1. pool_no[q] \in Numbers'
          BY <3>1, <3>3, <1>5
        <4> QED BY <4>1, <3>1, <1>9
      <3> QED BY <3>2, <3>3
    <2>3. \A q : q \in Listed' <=> \E i \in Numbers' : pools'[i] = q
      BY DEF Listed
    <2> QED BY <2>1, <2>2, <2>3
  <1>12. Numbered'
    <2>1. removed' = removed \union {p}
      BY DEF remove_pool
    <2>2. \A i \in Numbers' : pools'[i] \in Pool /\ pools'[i] \notin removed /\ pools'[i] # p
      BY <1>3, <1>4, <1>9, <1>10, ListedPools DEF IInv, Numbered
    <2>3. \A i \in Numbers' : pool_no'[pools'[i]] = i
      <3> SUFFICES ASSUME NEW i \in Numbers' PROVE pool_no'[pools'[i]] = i
        OBVIOUS
      <3>1. i \in Numbers /\ i # last /\ pools'[i] # p /\ pools'[i] \in Pool
        BY <1>10, <2>2
      <3>2. CASE i = n
        BY <3>1, <3>2, <1>3, <1>4, <1>6, <1>7, <1>9
      <3>3. CASE i # n
        <4>1. pools'[i] = pools[i] /\ pool_no[pools[i]] = i
          BY <3>1, <3>3, <1>9, ListedPools
        <4>2. pools[i] # pools[last]
          BY <4>1, <3>1, <1>4
        <4> QED BY <4>1, <4>2, <3>1, <1>6, <1>7
      <3> QED BY <3>2, <3>3
    <2> QED BY <2>1, <2>2, <2>3 DEF Numbered
  <1>13. \A q \in Pool : prio[q] \in 0 .. MaxPools
    BY DEF IInv, Types, PoolTypes
  <1>14. prio' = [q \in Pool |-> IF q \in Listed /\ prio[q] > prio[p] THEN prio[q] - 1 ELSE prio[q]]
    BY DEF remove_pool, CloseGap
  <1>15. PoolTypes'
    <2>1. prio' \in [Pool -> 0 .. MaxPools]
      BY <1>1, <1>2, <1>13, <1>14
    <2>2. state' \in [Pool -> State]
      BY <1>1 DEF IInv, Types, PoolTypes, remove_pool, SetState, State
    <2> QED BY <2>1, <2>2 DEF IInv, Types, PoolTypes, remove_pool
  <1>16. Ordered' /\ \A q, r \in Listed' : prio'[q] < prio'[r] <=> prio[q] < prio[r]
    <2>1. \A q \in Listed : q \in Pool /\ prio[q] \in 0 .. last
      BY <1>2, ListedPools DEF IInv, Ordered, Numbers
    <2>2. \A q, r \in Listed : prio[q] = prio[r] => q = r
      BY DEF IInv, Ordered
    <2>3. \A q \in Listed' : /\ q \in Listed /\ q \in Pool /\ prio[q] # prio[p]
                              /\ prio'[q] = IF prio[q] > prio[p] THEN prio[q] - 1 ELSE prio[q]
      BY <2>1, <2>2, <1>1, <1>11, <1>14
    <2>4. \A q \in Listed' : prio'[q] \in 0 .. last - 1
      BY <2>1, <2>3, <1>1, <1>3
    <2>5. \A q, r \in Listed' : prio'[q] = prio'[r] => q = r
      BY <2>1, <2>2, <2>3, <1>1
    <2>6. \A q, r \in Listed' : prio'[q] < prio'[r] <=> prio[q] < prio[r]
      BY <2>1, <2>3, <1>1
    <2> QED BY <2>4, <2>5, <2>6, <1>5 DEF Ordered
  <1>17. GlobalTypes'
    BY DEF IInv, Types, GlobalTypes, remove_pool
  <1>18. job' = [job EXCEPT !["operator"] = Free] /\ wi' = wi
    BY DEF remove_pool, Does
  <1>19. JobTypes'
    BY <1>18 DEF IInv, Types, JobTypes, Free, Places
  <1>20. Jobs'
    <2>1. \A t \in Thread : job'[t] = IF t = "operator" THEN Free ELSE job[t]
      BY <1>18 DEF IInv, Types, JobTypes
    <2> QED BY <2>1, <1>18, Threads DEF IInv, Jobs, Free
  <1> QED BY <1>8, <1>11, <1>12, <1>15, <1>16, <1>17, <1>19, <1>20 DEF IInv, Types

-----------------------------------------------------------------------------
(* The steps of the threads.                                               *)

(* What is left to show of a step that leaves the array alone.             *)
LEMMA Combined ==
  ASSUME IInv, UNCHANGED arrayVars, PoolTypes', GlobalTypes', Ordered', JobTypes', Jobs'
  PROVE  IInv'
  BY ArrayKept DEF IInv, Types

LEMMA Switched ==
  ASSUME IInv, current # NoPool, NEW t \in Thread, Switch(t)
  PROVE  IInv'
  <1> DEFINE s == job[t].pool
  <1>1. s \in Pool \union {NoPool} /\ (s = NoPool \/ s \in Listed) /\ switch_pools(s)
    BY ListedPools DEF Switch, Busy, IInv, Types, JobTypes, Jobs
  <1>2. current \in Pool /\ UNCHANGED arrayVars
    BY DEF IInv, Types, GlobalTypes, Switch
  <1>3. /\ current' \in Pool \union {NoPool}
        /\ prio' \in [Pool -> 0 .. MaxPools]
        /\ Ordered'
    BY <1>1, <1>2, SwitchTo
  <1>4. PoolTypes' /\ GlobalTypes'
    BY <1>3 DEF IInv, Types, PoolTypes, GlobalTypes, Switch
  <1>5. Does(t, Job("free", NoPool)) /\ wi' = wi
    BY DEF Switch, Free, Job
  <1>6. JobTypes' /\ Jobs'
    <2>1. wi' \in 0 .. MaxPools + 1
      BY <1>5 DEF IInv, Types, JobTypes
    <2> QED BY <2>1, <1>2, <1>5, EasyJob DEF Places
  <1> QED BY <1>2, <1>3, <1>4, <1>6, Combined

LEMMA Checked ==
  ASSUME IInv, NEW t \in Thread, SwitchIfCurrent(t)
  PROVE  IInv'
  <1>1. UNCHANGED <<arrayVars, prio>> /\ wi' = wi
    BY DEF SwitchIfCurrent, poolVars
  <1>2. PoolTypes' /\ GlobalTypes' /\ wi' \in 0 .. MaxPools + 1
    BY DEF IInv, Types, PoolTypes, GlobalTypes, JobTypes, SwitchIfCurrent, poolVars
  <1>3. Does(t, Job("switch", NoPool)) \/ Does(t, Job("free", NoPool))
    BY DEF SwitchIfCurrent, Free, Job
  <1>4. JobTypes' /\ Jobs'
    BY <1>1, <1>2, <1>3, EasyJob DEF Places
  <1> QED BY <1>1, <1>2, <1>4, OrderKept, Combined

LEMMA Reported ==
  ASSUME IInv, NEW t \in Worker, NEW p \in Pool,
         \/ pool_died(t, p) \/ stratum_resumed(t, p) \/ TestAlive(t, p)
         \/ TestDied(t, p) \/ Accepted(t, p) \/ Rejected(t, p)
  PROVE  IInv'
  <1>1. t \in Thread /\ t # "operator" /\ t # "watch"
    BY ConstantsAssumption DEF Thread
  <1>2. UNCHANGED <<arrayVars, prio, wi>>
    BY DEF pool_died, stratum_resumed, TestAlive, TestDied, Accepted, Rejected, poolVars
  <1>3. PoolTypes'
    BY DEF IInv, Types, PoolTypes, pool_died, stratum_resumed, TestAlive, TestDied, Accepted, Rejected,
           poolVars, enable_pool, reject_pool, State
  <1>4. GlobalTypes'
    BY DEF IInv, Types, GlobalTypes, pool_died, stratum_resumed, TestAlive, TestDied, Accepted, Rejected,
           poolVars, CountBounded
  <1>5. \/ UNCHANGED job
        \/ Does(t, Job("check", p))
        \/ Does(t, Job("switch", NoPool))
    BY DEF pool_died, stratum_resumed, TestAlive, TestDied, Accepted, Rejected, poolVars
  <1>6. JobTypes' /\ Jobs'
    <2>1. wi' \in 0 .. MaxPools + 1
      BY <1>2 DEF IInv, Types, JobTypes
    <2> QED BY <2>1, <1>1, <1>2, <1>5, EasyJob, JobsKept DEF Places
  <1> QED BY <1>2, <1>3, <1>4, <1>6, OrderKept, Combined

(* watchpool_thread goes on to another pool, or starts anew.               *)
LEMMA WatchFree ==
  ASSUME IInv, UNCHANGED <<arrayVars, job>>, Busy("watch", "free"), wi' \in 0 .. MaxPools + 1
  PROVE  JobTypes' /\ Jobs'
  <1>1. JobTypes'
    BY DEF IInv, Types, JobTypes
  <1>2. job["watch"].at # "failback"
    BY DEF Busy
  <1>3. Jobs'
    <2>1. job' = job /\ total_pools' = total_pools /\ Listed' = Listed
      BY ArrayKept DEF arrayVars
    <2> QED BY <2>1, <1>2 DEF IInv, Jobs
  <1> QED BY <1>1, <1>3

LEMMA Watched ==
  ASSUME IInv, \/ WatchSkip \/ WatchTest \/ WatchStable \/ WatchNext
               \/ WatchIdle \/ WatchRotate \/ WatchRound
  PROVE  IInv'
  <1>1. UNCHANGED <<arrayVars, prio>>
    BY DEF WatchSkip, WatchTest, WatchStable, WatchNext, WatchIdle, WatchRotate, WatchRound, poolVars
  <1>2. total_pools \in Nat /\ total_pools <= MaxPools /\ MaxPools \in Nat /\ wi \in 0 .. MaxPools + 1
    BY ConstantsAssumption DEF IInv, Types, ArrayTypes, JobTypes
  <1>3. PoolTypes' /\ GlobalTypes'
    BY DEF IInv, Types, PoolTypes, GlobalTypes, poolVars,
           WatchSkip, WatchTest, WatchStable, WatchNext, WatchIdle, WatchRotate, WatchRound
  <1>4. JobTypes' /\ Jobs'
    <2>1. CASE WatchSkip
      <3>1. wi' \in 0 .. MaxPools + 1 /\ job' = job /\ Busy("watch", "free")
        BY <2>1, <1>2 DEF WatchSkip
      <3> QED BY <3>1, <1>1, WatchFree
    <2>2. CASE WatchTest
      <3>1. wi < total_pools /\ wi' = wi /\ Does("watch", Job("failback", pools[wi]))
        BY <2>2 DEF WatchTest
      <3>2. pools[wi] \in Pool
        BY <3>1, <1>2, ListedPools DEF Numbers
      <3>3. wi' < MaxPools /\ wi' \in 0 .. MaxPools + 1
        BY <3>1, <1>2
      <3> QED BY <3>1, <3>2, <3>3, <1>1, Threads, EasyJob DEF Places
    <2>3. CASE WatchStable \/ WatchNext
      <3>1. wi' = wi + 1 /\ wi < MaxPools
        BY <2>3 DEF IInv, Jobs, WatchStable, WatchNext, Busy
      <3>2. wi' \in 0 .. MaxPools + 1
        BY <3>1, <1>2
      <3>3. Does("watch", Job("switch", NoPool)) \/ Does("watch", Job("free", NoPool))
        BY <2>3 DEF WatchStable, WatchNext, Free, Job
      <3> QED BY <3>2, <3>3, <1>1, Threads, EasyJob DEF Places
    <2>4. CASE WatchIdle \/ WatchRotate
      <3>1. wi' \in 0 .. MaxPools + 1 /\ Does("watch", Job("switch", NoPool))
        BY <2>4, <1>2 DEF WatchIdle, WatchRotate
      <3> QED BY <3>1, <1>1, Threads, EasyJob DEF Places
    <2>5. CASE WatchRound
      <3>1. wi' \in 0 .. MaxPools + 1 /\ job' = job /\ Busy("watch", "free")
        BY <2>5, <1>2 DEF WatchRound, RoundOver
      <3> QED BY <3>1, <1>1, WatchFree
    <2> QED BY <2>1, <2>2, <2>3, <2>4, <2>5
  <1> QED BY <1>1, <1>3, <1>4, OrderKept, Combined

-----------------------------------------------------------------------------
(* The steps of the operator.                                              *)

(* The commands with a pool that leave the array and the priorities.       *)
LEMMA Commanded ==
  ASSUME IInv, NEW p \in Pool,
         \/ switchpool(p) \/ CursesSwitch(p) \/ enablepool(p) \/ CursesEnable(p)
         \/ disablepool(p) \/ CursesDisable(p) \/ removepool(p)
  PROVE  IInv'
  <1>1. UNCHANGED <<arrayVars, prio, wi>> /\ p \in Listed
    BY DEF switchpool, CursesSwitch, enablepool, CursesEnable, disablepool, CursesDisable, removepool, poolVars
  <1>2. PoolTypes'
    BY DEF IInv, Types, PoolTypes, switchpool, CursesSwitch, enablepool, CursesEnable, disablepool,
           CursesDisable, removepool, poolVars, enable_pool, disable_pool, SetState, State
  <1>3. GlobalTypes'
    BY DEF IInv, Types, GlobalTypes, switchpool, CursesSwitch, enablepool, CursesEnable, disablepool,
           CursesDisable, removepool, poolVars, CountBounded
  <1>4. \E at \in {"switch", "outrank", "check", "leave", "recheck"} :
          Does("operator", Job(at, p)) /\ (at \in {"leave", "recheck", "unlink"} => total_pools > 1)
    BY DEF switchpool, CursesSwitch, enablepool, CursesEnable, disablepool, CursesDisable, removepool
  <1>5. JobTypes' /\ Jobs'
    BY <1>1, <1>4, PoolJob DEF Places
  <1> QED BY <1>1, <1>2, <1>3, <1>5, OrderKept, Combined

LEMMA Prioritised ==
  ASSUME IInv, poolpriority
  PROVE  IInv'
  <1>1. UNCHANGED arrayVars /\ wi' = wi /\ Does("operator", Job("first", NoPool))
    BY DEF poolpriority
  <1>2. PICK n \in 1 .. total_pools : \E named \in [0 .. n - 1 -> Listed] :
          /\ \A i, j \in 0 .. n - 1 : named[i] = named[j] => i = j
          /\ prio' = NewPriorities(n, named)
    BY DEF poolpriority
  <1>3. /\ prio' \in [Pool -> 0 .. MaxPools]
        /\ \A p \in Listed : prio'[p] \in Numbers
        /\ \A p, q \in Listed : prio'[p] = prio'[q] => p = q
    BY <1>2, Ranked
  <1>4. Ordered'
    BY <1>1, <1>3, ArrayKept DEF Ordered
  <1>5. PoolTypes' /\ GlobalTypes' /\ wi' \in 0 .. MaxPools + 1
    BY <1>3 DEF IInv, Types, PoolTypes, GlobalTypes, JobTypes, poolpriority
  <1>6. JobTypes' /\ Jobs'
    BY <1>1, <1>5, Threads, EasyJob DEF Places
  <1> QED BY <1>1, <1>4, <1>5, <1>6, Combined

(* The commands that go on, and the change of the strategy.                *)
LEMMA Continued ==
  ASSUME IInv, SwitchIfOutranks \/ ChangeStrategy \/ SwitchIfNotFirst \/ RemoveRecheck
  PROVE  IInv'
  <1>1. UNCHANGED <<arrayVars, prio, wi>>
    BY DEF SwitchIfOutranks, ChangeStrategy, SwitchIfNotFirst, RemoveRecheck, poolVars
  <1>2. PoolTypes' /\ GlobalTypes' /\ wi' \in 0 .. MaxPools + 1
    BY DEF IInv, Types, PoolTypes, GlobalTypes, JobTypes, poolVars,
           SwitchIfOutranks, ChangeStrategy, SwitchIfNotFirst, RemoveRecheck
  <1>3. \/ Does("operator", Job("switch", NoPool))
        \/ Does("operator", Job("free", NoPool))
        \/ \E p \in Listed : Does("operator", Job("switch", p))
        \/ total_pools > 1 /\ \E p \in Listed : Does("operator", Job("unlink", p))
    BY DEF SwitchIfOutranks, ChangeStrategy, SwitchIfNotFirst, RemoveRecheck, IInv, Jobs, Busy, Free, Job
  <1>4. JobTypes' /\ Jobs'
    <2>1. CASE Does("operator", Job("switch", NoPool)) \/ Does("operator", Job("free", NoPool))
      BY <2>1, <1>1, <1>2, Threads, EasyJob DEF Places
    <2>2. CASE \E p \in Listed : Does("operator", Job("switch", p))
      BY <2>2, <1>1, PoolJob DEF Places
    <2>3. CASE total_pools > 1 /\ \E p \in Listed : Does("operator", Job("unlink", p))
      BY <2>3, <1>1, PoolJob DEF Places
    <2> QED BY <2>1, <2>2, <2>3, <1>3
  <1> QED BY <1>1, <1>2, <1>4, OrderKept, Combined

LEMMA Left ==
  ASSUME IInv, current # NoPool, RemoveLeave
  PROVE  IInv'
  <1> DEFINE p == job["operator"].pool
  <1>1. p \in Listed /\ total_pools > 1 /\ switch_pools(NoPool) /\ Does("operator", Job("recheck", p))
    BY DEF IInv, Jobs, RemoveLeave, Busy
  <1>2. current \in Pool /\ UNCHANGED <<arrayVars, wi>>
    BY DEF IInv, Types, GlobalTypes, RemoveLeave
  <1>3. /\ current' \in Pool \union {NoPool}
        /\ prio' \in [Pool -> 0 .. MaxPools]
        /\ Ordered'
    BY <1>1, <1>2, SwitchTo
  <1>4. PoolTypes' /\ GlobalTypes'
    BY <1>3 DEF IInv, Types, PoolTypes, GlobalTypes, RemoveLeave
  <1>5. JobTypes' /\ Jobs'
    BY <1>1, <1>2, PoolJob DEF Places
  <1> QED BY <1>2, <1>3, <1>4, <1>5, Combined

-----------------------------------------------------------------------------

LEMMA Stepped ==
  ASSUME IInv, [Next]_vars
  PROVE  IInv'
  <1>1. CASE UNCHANGED vars
    <2>1. UNCHANGED <<arrayVars, prio, wi, job>>
      BY <1>1 DEF vars, poolVars
    <2>2. PoolTypes' /\ GlobalTypes'
      BY <1>1 DEF IInv, Types, PoolTypes, GlobalTypes, vars, poolVars
    <2> QED BY <2>1, <2>2, OrderKept, JobsKept, Combined
  <1>2. CASE Next
    <2>1. current # NoPool
      BY <1>2 DEF Next
    <2>2. CASE \E t \in Worker : Reports(t)
      <3>1. PICK t \in Worker : Reports(t)
        BY <2>2
      <3>2. t \in Thread
        BY DEF Thread
      <3> QED BY <3>1, <3>2, <2>1, Reported, Checked, Switched DEF Reports
    <2>3. CASE Watch
      BY <2>3, <2>1, Watched, Checked, Switched, Threads DEF Watch
    <2>4. CASE Operator
      <3>1. CASE \E p \in Pool : \/ switchpool(p) \/ CursesSwitch(p) \/ enablepool(p) \/ CursesEnable(p)
                                 \/ disablepool(p) \/ CursesDisable(p) \/ removepool(p)
        BY <3>1, Commanded
      <3>2. CASE \E p \in Pool : add_pool(p)
        BY <3>2, Added
      <3>3. CASE SwitchIfOutranks \/ ChangeStrategy \/ SwitchIfNotFirst \/ RemoveRecheck
        BY <3>3, Continued
      <3>4. CASE poolpriority \/ RemoveLeave \/ remove_pool
        BY <3>4, <2>1, Prioritised, Left, Removed
      <3>5. CASE SwitchIfCurrent("operator") \/ Switch("operator")
        BY <3>5, <2>1, Checked, Switched, Threads
      <3> QED BY <3>1, <3>2, <3>3, <3>4, <3>5, <2>4 DEF Operator
    <2> QED BY <2>2, <2>3, <2>4, <1>2 DEF Next
  <1> QED BY <1>1, <1>2

LEMMA Invariant == Spec => []IInv
  <1>1. Init => IInv
    BY Started
  <1>2. IInv /\ [Next]_vars => IInv'
    BY Stepped
  <1> QED BY <1>1, <1>2, PTL DEF Spec

(* Every variable keeps its type: switch_pools reads pools[] at a number   *)
(* from 0 to MaxPools only, though the number may be that of a pool that   *)
(* was removed, and watchpool_thread ends its round in time.               *)
THEOREM TypeCorrect == Spec => []TypeOK
  <1>1. IInv => TypeOK
    BY DEF IInv, Types, ArrayTypes, PoolTypes, GlobalTypes, JobTypes, TypeOK, Places
  <1> QED BY <1>1, Invariant, PTL

(* The array pools[] and the pool_no of the pools in it agree after any    *)
(* sequence of add_pool and remove_pool, and no removed pool stays in it.  *)
THEOREM ArrayNumbered == Spec => []Numbered
  <1>1. IInv => Numbered
    BY DEF IInv
  <1> QED BY <1>1, Invariant, PTL

(* The priorities of the pools in use are 0 to total_pools - 1, each once, *)
(* however switch_pools, poolpriority, add_pool and remove_pool follow one *)
(* another: priority_pool always finds the pool it looks for.              *)
THEOREM PrioritiesPermuted == Spec => []PriorityPermutation
  <1>1. IInv => PriorityPermutation
    BY Permutation DEF IInv, Types
  <1> QED BY <1>1, Invariant, PTL

-----------------------------------------------------------------------------
(* What a switch comes to.                                                 *)

(* For each number priority_pool finds the one pool of that priority.      *)
LEMMA PriorityFound ==
  ASSUME IInv, NEW pr, \A p \in Listed : pr[p] \in Numbers,
         \A p, q \in Listed : pr[p] = pr[q] => p = q, NEW i \in Numbers
  PROVE  priority_pool(i, pr) \in Listed /\ pr[priority_pool(i, pr)] = i
  <1> DEFINE found == {n \in Numbers : pr[pools[n]] = i}
  <1>1. PICK p \in Listed : pr[p] = i
    BY AllTaken DEF IInv, Types
  <1>2. found # {}
    BY <1>1, ListedPools
  <1>3. found \in SUBSET Nat
    BY DEF Numbers
  <1>4. Least(found) \in found
    BY <1>2, <1>3, LeastIn
  <1>5. priority_pool(i, pr) = pools[Least(found)]
    BY <1>2 DEF priority_pool
  <1> QED BY <1>4, <1>5, ListedPools

LEMMA BestTaken ==
  ASSUME IInv, NEW pr, \A p \in Listed : pr[p] \in Numbers,
         \A p, q \in Listed : pr[p] = pr[q] => p = q, \E p \in Listed : usable(p)
  PROVE  LET best == pools[BestNumber(pr)]
         IN /\ best \in Listed /\ usable(best)
            /\ \A p \in Listed : usable(p) => pr[best] <= pr[p]
  <1> DEFINE alive == {i \in Numbers : usable(priority_pool(i, pr))}
             x == priority_pool(Least(alive), pr)
  <1>1. ASSUME NEW p \in Listed, usable(p) PROVE pr[p] \in alive
    <2>1. pr[p] \in Numbers /\ priority_pool(pr[p], pr) = p
      BY PriorityFound
    <2> QED BY <2>1, <1>1
  <1>2. alive # {} /\ alive \in SUBSET Nat
    BY <1>1 DEF Numbers
  <1>3. Least(alive) \in alive /\ \A j \in alive : Least(alive) <= j
    BY <1>2, LeastIn
  <1>4. x \in Listed /\ pr[x] = Least(alive) /\ usable(x)
    BY <1>3, PriorityFound
  <1>5. BestNumber(pr) = pool_no[x]
    BY <1>2 DEF BestNumber
  <1>6. pools[BestNumber(pr)] = x
    BY <1>4, <1>5, ListedPools
  <1> HIDE DEF alive, x
  <1> QED BY <1>1, <1>3, <1>4, <1>6

(* Whenever switch_pools looks for a pool by priority it takes a usable    *)
(* one if there is one, and none that is usable goes before it, for any    *)
(* number of pools and whatever was done to them since the switch was      *)
(* decided on.                                                             *)
THEOREM BestIsTaken == Spec => SwitchTakesBest
  <1> DEFINE Decided == /\ RemoveLeave \/ \E t \in Thread : Switch(t)
                        /\ strategy \in {"FAILOVER", "LOADBALANCE", "BALANCE"}
                        /\ \E p \in Listed : usable(p)
             Taken == /\ current' \in Listed /\ usable(current')
                      /\ \A p \in Listed : usable(p) => prio'[current'] <= prio'[p]
  <1>1. ASSUME IInv, IInv', Decided PROVE Taken
    <2>1. PICK s : switch_pools(s)
      BY <1>1 DEF RemoveLeave, Switch
    <2>2. UNCHANGED arrayVars
      BY <1>1 DEF RemoveLeave, Switch
    <2>3. current' = pools[BestNumber(prio')]
      BY <1>1, <2>1 DEF switch_pools
    <2>4. /\ \A p \in Listed : prio'[p] \in Numbers
          /\ \A p, q \in Listed : prio'[p] = prio'[q] => p = q
      BY <1>1, <2>2, ArrayKept DEF IInv, Ordered
    <2> QED BY <1>1, <2>3, <2>4, BestTaken
  <1>2. IInv /\ IInv' /\ [Next]_vars => [Decided => Taken]_vars
    BY <1>1
  <1> QED BY <1>2, Invariant, PTL DEF Spec, SwitchTakesBest

-----------------------------------------------------------------------------
(* The order of the pools.                                                 *)

(* Distinct numbers order what they are given to.                          *)
LEMMA NumbersOrder ==
  ASSUME NEW S, NEW f, \A p \in S : f[p] \in Nat, \A p, q \in S : f[p] = f[q] => p = q
  PROVE  Order!StrictOrder({x \in S \X S : f[x[1]] < f[x[2]]}, S)
  <1> DEFINE R == {x \in S \X S : f[x[1]] < f[x[2]]}
  <1>1. \A p, q \in S : <<p, q>> \in R <=> f[p] < f[q]
    OBVIOUS
  <1>2. R \subseteq S \X S
    OBVIOUS
  <1> HIDE DEF R
  <1> QED BY <1>1, <1>2 DEF Order!StrictOrder, R

LEMMA AboveOrders ==
  /\ IInv => Order!StrictOrder(Above, Listed)
  /\ IInv' => Order!StrictOrder(Above', Listed')
  <1>1. ASSUME IInv PROVE Order!StrictOrder(Above, Listed)
    <2>1. \A p \in Listed : prio[p] \in Nat
      BY <1>1 DEF IInv, Ordered, Numbers
    <2>2. \A p, q \in Listed : prio[p] = prio[q] => p = q
      BY <1>1 DEF IInv, Ordered
    <2> QED BY <2>1, <2>2, NumbersOrder DEF Above
  <1>2. ASSUME IInv' PROVE Order!StrictOrder(Above', Listed')
    <2>1. \A p \in Listed' : prio'[p] \in Nat
      BY <1>2 DEF IInv, Ordered, Numbers
    <2>2. \A p, q \in Listed' : prio'[p] = prio'[q] => p = q
      BY <1>2 DEF IInv, Ordered
    <2> QED BY <2>1, <2>2, NumbersOrder DEF Above
  <1> QED BY <1>1, <1>2

LEMMA OrderStays ==
  ASSUME IInv, UNCHANGED <<arrayVars, prio>>
  PROVE  UNCHANGED <<Listed, Above>>
  BY ArrayKept DEF Above

(* Other threads than the operator's do not change what it is about to do. *)
LEMMA PendingStays ==
  ASSUME IInv, NEW t \in Thread \ {"operator"}, NEW j, Does(t, j) \/ UNCHANGED job
  PROVE  UNCHANGED Pending
  <1>1. job'["operator"] = job["operator"]
    BY Threads DEF IInv, Types, JobTypes, Does
  <1> QED BY <1>1 DEF Pending

(* The operator goes on to something else.                                 *)
LEMMA PendingIs ==
  ASSUME IInv, NEW at, NEW p, Does("operator", Job(at, p))
  PROVE  Pending' = IF at = "switch" THEN p ELSE IF at = "first" THEN "ordered" ELSE NoPool
  <1>1. job'["operator"] = [at |-> at, pool |-> p]
    BY Threads DEF IInv, Types, JobTypes, Does, Job
  <1> QED BY <1>1 DEF Pending

(* A job that is neither a switch nor what follows poolpriority.           *)
LEMMA NothingPending ==
  ASSUME Busy("operator", "free") \/ Busy("operator", "check") \/ Busy("operator", "outrank")
         \/ Busy("operator", "leave") \/ Busy("operator", "recheck") \/ Busy("operator", "unlink")
  PROVE  Pending = NoPool
  BY DEF Busy, Pending

(* The other threads.                                                      *)
LEMMA OthersLeaveOrder ==
  ASSUME IInv, NEW t \in Thread \ {"operator"},
         \/ Switch(t) \/ SwitchIfCurrent(t)
         \/ \E p \in Pool : \/ pool_died(t, p) \/ stratum_resumed(t, p) \/ TestAlive(t, p)
                           \/ TestDied(t, p) \/ Accepted(t, p) \/ Rejected(t, p)
         \/ t = "watch" /\ (\/ WatchSkip \/ WatchTest \/ WatchStable \/ WatchNext
                            \/ WatchIdle \/ WatchRotate \/ WatchRound)
  PROVE  UNCHANGED <<Listed, Above, Pending>>
  <1>1. UNCHANGED <<arrayVars, prio>>
    <2>1. CASE Switch(t)
      <3>1. job[t].pool = NoPool
        BY <2>1 DEF IInv, Jobs, Switch, Busy
      <3> QED BY <2>1, <3>1 DEF Switch, switch_pools
    <2>2. CASE ~Switch(t)
      BY <2>2 DEF SwitchIfCurrent, poolVars, pool_died, stratum_resumed, TestAlive, TestDied, Accepted,
                  Rejected, WatchSkip, WatchTest, WatchStable, WatchNext, WatchIdle, WatchRotate, WatchRound
    <2> QED BY <2>1, <2>2
  <1>2. (\E j : Does(t, j)) \/ UNCHANGED job
    BY DEF Switch, SwitchIfCurrent, pool_died, stratum_resumed, TestAlive, TestDied, Accepted,
           Rejected, WatchSkip, WatchTest, WatchStable, WatchNext, WatchIdle, WatchRotate, WatchRound
  <1> QED BY <1>1, <1>2, OrderStays, PendingStays

(* The commands that leave the priorities alone: some choose a pool to     *)
(* switch to.                                                              *)
LEMMA CommandChooses ==
  ASSUME IInv,
         \/ \E p \in Pool : \/ switchpool(p) \/ CursesSwitch(p) \/ enablepool(p) \/ CursesEnable(p)
                           \/ disablepool(p) \/ CursesDisable(p) \/ removepool(p)
         \/ SwitchIfOutranks \/ ChangeStrategy \/ RemoveRecheck \/ SwitchIfCurrent("operator")
  PROVE  (\E p \in Pool : Order!Choose(p)) \/ UNCHANGED <<Listed, Above, Pending>>
  <1>1. UNCHANGED <<arrayVars, prio>>
    BY DEF switchpool, CursesSwitch, enablepool, CursesEnable, disablepool, CursesDisable, removepool,
           SwitchIfOutranks, ChangeStrategy, RemoveRecheck, SwitchIfCurrent, poolVars
  <1>2. Pending = NoPool
    BY NothingPending DEF switchpool, CursesSwitch, enablepool, CursesEnable, disablepool, CursesDisable,
           removepool, SwitchIfOutranks, ChangeStrategy, RemoveRecheck, SwitchIfCurrent, Command
  <1>3. \/ \E p \in Listed : Does("operator", Job("switch", p))
        \/ Does("operator", Job("switch", NoPool))
        \/ \E at \in {"free", "outrank", "check", "leave", "recheck", "unlink"}, p \in Pool \union {NoPool} :
              Does("operator", Job(at, p))
    BY ListedPools DEF switchpool, CursesSwitch, enablepool, CursesEnable, disablepool, CursesDisable, removepool,
           SwitchIfOutranks, ChangeStrategy, RemoveRecheck, SwitchIfCurrent, Free, Job, IInv, Jobs, Busy
  <1>4. Pending' = NoPool \/ \E p \in Listed : Pending' = p
    BY <1>3, PendingIs
  <1> QED BY <1>1, <1>2, <1>4, OrderStays, ListedPools DEF Order!Choose

(* switch_pools of a pool puts it first.                                   *)
LEMMA SwitchPutsFirst ==
  ASSUME IInv, IInv', Switch("operator")
  PROVE  (\E p \in Pool : Order!PutFirst(p)) \/ UNCHANGED <<Listed, Above, Pending>>
  <1> DEFINE s == job["operator"].pool
  <1>1. /\ Busy("operator", "switch") /\ switch_pools(s) /\ UNCHANGED arrayVars
        /\ Does("operator", Job("free", NoPool))
    BY DEF Switch, Free, Job
  <1>2. Pending = s /\ Pending' = NoPool
    BY <1>1, PendingIs DEF Pending, Busy
  <1>3. Listed' = Listed
    BY <1>1, ArrayKept
  <1>4. CASE s = NoPool
    <2>1. prio' = prio
      BY <1>1, <1>4 DEF switch_pools
    <2> QED BY <1>1, <1>2, <1>4, <2>1, OrderStays
  <1>5. CASE s # NoPool
    <2>1. s \in Listed /\ s \in Pool
      BY <1>1, <1>5, Threads, ListedPools DEF IInv, Jobs, Busy
    <2>2. prio' = Promote(s)
      BY <1>1, <1>5 DEF switch_pools
    <2>3. /\ \A q \in Listed \ {s} : <<s, q>> \in Above'
          /\ \A p, q \in Listed \ {s} : <<p, q>> \in Above' <=> <<p, q>> \in Above
      BY <1>3, <2>1, <2>2, PromoteOrders DEF Above
    <2>4. Order!StrictOrder(Above', Listed)
      BY <1>3, AboveOrders
    <2> HIDE DEF s
    <2>5. Order!Prefer({s})
      BY <1>3, <2>3, <2>4 DEF Order!Prefer
    <2> QED BY <1>2, <2>1, <2>5 DEF Order!PutFirst
  <1> QED BY <1>4, <1>5

LEMMA PrioritySets ==
  ASSUME IInv, IInv', poolpriority
  PROVE  Order!Reorder
  <1>1. UNCHANGED arrayVars /\ Does("operator", Job("first", NoPool))
    BY DEF poolpriority
  <1>2. Pending = NoPool /\ Pending' = "ordered"
    BY <1>1, NothingPending, PendingIs DEF poolpriority, Command
  <1>3. Listed' = Listed
    BY <1>1, ArrayKept
  <1>4. PICK n \in 1 .. total_pools : \E named \in [0 .. n - 1 -> Listed] :
          /\ \A i, j \in 0 .. n - 1 : named[i] = named[j] => i = j
          /\ prio' = NewPriorities(n, named)
    BY DEF poolpriority
  <1>5. PICK first \in SUBSET Listed :
          /\ first # {}
          /\ \A p \in first, q \in Listed \ first : prio'[p] < prio'[q]
          /\ \A p, q \in Listed \ first : prio[p] < prio[q] => prio'[p] < prio'[q]
    BY <1>4, Ranked
  <1>6. \A p \in Listed : prio[p] \in Nat /\ prio'[p] \in Nat
    BY <1>3 DEF IInv, Ordered, Numbers
  <1>7. \A p, q \in Listed : prio[p] = prio[q] => p = q
    BY DEF IInv, Ordered
  <1>8. \A p, q \in Listed \ first : prio'[p] < prio'[q] <=> prio[p] < prio[q]
    BY <1>5, <1>6, <1>7
  <1>9. /\ \A p \in first, q \in Listed \ first : <<p, q>> \in Above'
        /\ \A p, q \in Listed \ first : <<p, q>> \in Above' <=> <<p, q>> \in Above
    BY <1>3, <1>5, <1>8 DEF Above
  <1>10. Order!StrictOrder(Above', Listed)
    BY <1>3, AboveOrders
  <1> QED BY <1>2, <1>3, <1>5, <1>9, <1>10 DEF Order!Reorder, Order!Prefer

LEMMA AddedLast ==
  ASSUME IInv, NEW p \in Pool, add_pool(p)
  PROVE  Order!Add
  <1>1. Pending = NoPool /\ Pending' = Pending
    BY NothingPending DEF add_pool, Command, Pending
  <1>2. p \in Pool \ Listed /\ Listed' = Listed \union {p}
    BY Added DEF add_pool
  <1>3. \A q \in Listed : prio'[q] = prio[q] /\ prio'[q] < prio'[p] /\ prio'[q] \in Nat /\ prio'[p] \in Nat
    BY <1>2, Added DEF IInv, Ordered, Numbers
  <1>4. \A x : x \in Above' <=> x \in Above \union (Listed \X {p})
    <2>1. ASSUME NEW q \in Listed', NEW r \in Listed'
          PROVE  prio'[q] < prio'[r] <=> <<q, r>> \in Above \union (Listed \X {p})
      <3>1. prio'[p] \in Nat /\ p \notin Listed /\ Listed' = Listed \union {p}
        BY <1>2, Added DEF IInv, Ordered, Numbers
      <3>2. CASE q \in Listed /\ r \in Listed
        BY <3>1, <3>2, <1>3 DEF Above
      <3>3. CASE q \in Listed /\ r = p
        BY <3>1, <3>3, <1>3
      <3>4. CASE q = p /\ r \in Listed
        <4>1. ~(prio'[q] < prio'[r])
          BY <3>1, <3>4, <1>3
        <4> QED BY <3>1, <3>4, <4>1 DEF Above
      <3>5. CASE q = p /\ r = p
        BY <3>1, <3>5 DEF Above
      <3> QED BY <3>1, <3>2, <3>3, <3>4, <3>5
    <2>2. \A x \in Above \union (Listed \X {p}) : \E q, r \in Listed' : x = <<q, r>>
      BY <1>2 DEF Above
    <2>3. \A x : x \in Above' <=> \E q, r \in Listed' : x = <<q, r>> /\ prio'[q] < prio'[r]
      BY DEF Above
    <2> QED BY <2>1, <2>2, <2>3
  <1> QED BY <1>1, <1>2, <1>4 DEF Order!Add

LEMMA RemovedOut ==
  ASSUME IInv, remove_pool
  PROVE  Order!Remove
  <1> DEFINE p == job["operator"].pool
  <1>1. Pending = NoPool /\ Pending' = NoPool
    <2>1. Busy("operator", "unlink") /\ Does("operator", Job("free", NoPool))
      BY DEF remove_pool, Free, Job
    <2> QED BY <2>1, NothingPending, PendingIs
  <1>2. p \in Listed /\ Listed' = Listed \ {p}
    BY Removed DEF IInv, Jobs, remove_pool, Busy
  <1>3. \A q, r \in Listed' : prio'[q] < prio'[r] <=> prio[q] < prio[r]
    BY Removed
  <1>4. \A x : x \in Above' <=> x \in Above \intersect (Listed' \X Listed')
    <2>1. \A x : x \in Above' <=> \E q, r \in Listed' : x = <<q, r>> /\ prio'[q] < prio'[r]
      BY DEF Above
    <2>2. \A x : x \in Above \intersect (Listed' \X Listed')
                   <=> \E q, r \in Listed' : x = <<q, r>> /\ prio[q] < prio[r]
      BY <1>2 DEF Above
    <2> QED BY <2>1, <2>2, <1>3
  <1>5. p \in Listed \ Listed'
    BY <1>2
  <1> HIDE DEF p
  <1> QED BY <1>1, <1>2, <1>4, <1>5 DEF Order!Remove

(* Every step of the model is one of the order of the pools, or leaves it. *)
LEMMA StepRefines == IInv /\ IInv' /\ [Next]_vars => [Order!Next]_<<Listed, Above, Pending>>
  <1> SUFFICES ASSUME IInv, IInv', [Next]_vars
               PROVE  Order!Next \/ UNCHANGED <<Listed, Above, Pending>>
    OBVIOUS
  <1>1. CASE UNCHANGED vars
    <2>1. UNCHANGED <<arrayVars, prio, job>>
      BY <1>1 DEF vars, poolVars
    <2> QED BY <2>1, OrderStays DEF Pending
  <1>2. CASE \E t \in Worker : Reports(t)
    BY <1>2, ConstantsAssumption, OthersLeaveOrder DEF Reports, Thread
  <1>3. CASE Watch
    BY <1>3, Threads, OthersLeaveOrder DEF Watch
  <1>4. CASE Operator
    <2>1. CASE \/ \E p \in Pool : \/ switchpool(p) \/ CursesSwitch(p) \/ enablepool(p) \/ CursesEnable(p)
                                \/ disablepool(p) \/ CursesDisable(p) \/ removepool(p)
               \/ SwitchIfOutranks \/ ChangeStrategy \/ RemoveRecheck \/ SwitchIfCurrent("operator")
      BY <2>1, CommandChooses DEF Order!Next
    <2>2. CASE \E p \in Pool : add_pool(p)
      BY <2>2, AddedLast DEF Order!Next
    <2>3. CASE poolpriority
      BY <2>3, PrioritySets DEF Order!Next
    <2>4. CASE remove_pool
      BY <2>4, RemovedOut DEF Order!Next
    <2>5. CASE Switch("operator")
      BY <2>5, SwitchPutsFirst DEF Order!Next
    <2>6. CASE SwitchIfNotFirst
      <3>1. UNCHANGED <<arrayVars, prio>> /\ Busy("operator", "first")
        BY <2>6 DEF SwitchIfNotFirst, poolVars
      <3>2. Does("operator", Job("switch", NoPool)) \/ Does("operator", Job("free", NoPool))
        BY <2>6 DEF SwitchIfNotFirst, Free, Job
      <3>3. Pending = "ordered" /\ Pending' = NoPool
        BY <3>1, <3>2, PendingIs DEF Pending, Busy
      <3> QED BY <3>1, <3>3, OrderStays DEF Order!Next, Order!Settle
    <2>7. CASE RemoveLeave
      <3>1. UNCHANGED <<arrayVars, prio>> /\ Busy("operator", "leave")
        BY <2>7 DEF RemoveLeave, switch_pools
      <3>2. Does("operator", Job("recheck", job["operator"].pool))
        BY <2>7 DEF RemoveLeave
      <3> QED BY <3>1, <3>2, OrderStays, NothingPending, PendingIs
    <2> QED BY <2>1, <2>2, <2>3, <2>4, <2>5, <2>6, <2>7, <1>4 DEF Operator
  <1> QED BY <1>1, <1>2, <1>3, <1>4 DEF Next

(* The order of the pools is what the operator's commands make it, for any *)
(* number of pools, threads and commands: remove_pool, add_pool,           *)
(* poolpriority and switch_pools renumber the priorities as PoolOrder      *)
(* promises, and the other threads never change the order.                 *)
THEOREM OrderIsTheOperators == Spec => RefinesPoolOrder
  <1>1. Init => Order!Init
    <2>1. Init => IInv
      BY Started
    <2>2. Init => Pending = NoPool
      BY Threads DEF Init, Pending, Free
    <2> QED BY <2>1, <2>2, AboveOrders, ListedPools DEF Order!Init
  <1> QED BY <1>1, StepRefines, Invariant, PTL DEF Spec, RefinesPoolOrder, Order!Spec

=============================================================================
