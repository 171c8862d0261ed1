------------------------------- MODULE Quotas -------------------------------
(***************************************************************************)
(* How the main thread chooses the pool of its next work by quota: each    *)
(* pool is given quota_gcd works in a period, in rotation; a pool that     *)
(* cannot work loses its turns, with opt_fail_only to the pool of the best *)
(* priority.  A period ends when no pool has quota left.  Quotas change,   *)
(* pools come and go, and a work discarded unhashed gives its turn back.   *)
(*                                                                         *)
(* select_pool, adjust_quota_gcd, add_pool and remove_pool are steps: the  *)
(* model leaves out their races with each other.                           *)
(***************************************************************************)
EXTENDS Integers, FiniteSets

CONSTANTS Site,       \* the pools there can be: 0 .. n, in order of priority
          Start,      \* how many there are at first
          Quota,      \* the quotas that are set
          IntRange, LongRange,  \* how many values an int and an unsigned long
                                \* have: 2^32 and 2^64
          MaxOver,    \* bound: how far quota_used is counted beyond quota_gcd
          MaxChanges  \* bound: works discarded and changes to pools

NoSite == -1

ASSUME QuotasAssumption == /\ IsFiniteSet(Site)
                           /\ Site = 0 .. Cardinality(Site) - 1
                           /\ Start \in 1 .. Cardinality(Site)
                           /\ Quota \subseteq Nat
                           /\ IntRange \in Nat \ {0} /\ LongRange \in Nat \ {0}
                           /\ MaxOver \in Nat /\ MaxChanges \in Nat

VARIABLES slot,        \* pools: the array, with what remains past its end
          total,       \* total_pools
          quota, quota_gcd, quota_used,
          global_quota_gcd,
          rotating,    \* rotating_pool
          workable,    \* the pools for which neither pool_unworkable nor
                       \* pool_unusable
          removed,     \* the pools that were removed
          fail_only,   \* opt_fail_only
          given,       \* ghost: works given in rotation in this period
          steady,      \* ghost: the pools workable since it began
          quiet,       \* ghost: it saw no discard and no change of quotas or
                       \* pools
          changes      \* ghost: how many there were

slotVars   == <<slot, total, removed>>
quotaVars  == <<quota, quota_gcd, quota_used, global_quota_gcd>>
periodVars == <<given, steady, quiet, changes>>
quotasVars == <<slotVars, quotaVars, rotating, workable, fail_only, periodVars>>

Listed == {slot[i] : i \in 0 .. total - 1}

QuotasInit == /\ slot = [i \in Site |-> i]
              /\ total = Start
              /\ quota = [p \in Site |-> 1]
              /\ quota_gcd = [p \in Site |-> 1]
              /\ quota_used = [p \in Site |-> 0]
              /\ global_quota_gcd = 1
              /\ rotating = 0
              /\ workable = 0 .. Start - 1
              /\ removed = {}
              /\ fail_only \in BOOLEAN
              /\ given = [p \in Site |-> 0]
              /\ steady = 0 .. Start - 1
              /\ quiet = TRUE
              /\ changes = 0

Counted == changes < MaxChanges /\ changes' = changes + 1

Change == Counted /\ quiet' = FALSE

-----------------------------------------------------------------------------
(* adjust_quota_gcd.                                                       *)

\* Conversion to int and to unsigned long.
AsInt(x) == LET m == x % IntRange
            IN IF 2 * m < IntRange THEN m ELSE m - IntRange
AsLong(x) == x % LongRange

\* quota_used *= global_quota_gcd; quota_used /= gcd: both in unsigned long.
Rescale(used, old, gcd) == AsInt(AsLong(AsInt(AsLong(AsLong(used) * old))) \div gcd)

\* gcd is lowered until it divides the quota.
Lower(gcd, q) == IF q = 0 THEN gcd
                 ELSE CHOOSE d \in 1 .. gcd : /\ q % d = 0
                                              /\ \A e \in d + 1 .. gcd : q % e # 0

Lowest(qs) == CHOOSE q \in qs : \A r \in qs : q <= r

\* One walk over the pools, from the lowest quota that is not zero.
WalkGcd(q, s, n) ==
  LET some == {q[s[i]] : i \in 0 .. n - 1} \ {0}
      gcd[i \in 0 .. n] == IF i = 0 THEN Lowest(some) ELSE Lower(gcd[i - 1], q[s[i - 1]])
  IN IF some = {} THEN 1 ELSE gcd[n]

\* For the n pools of s with the quotas q.
adjust_quota_gcd(q, s, n) ==
  LET gcd  == WalkGcd(q, s, n)
      here == {s[i] : i \in 0 .. n - 1}
  IN /\ quota' = q
     /\ quota_used' = [p \in Site |-> IF p \in here
                         THEN Rescale(quota_used[p], global_quota_gcd, gcd)
                         ELSE quota_used[p]]
     /\ quota_gcd' = [p \in Site |-> IF p \in here THEN q[p] \div gcd ELSE quota_gcd[p]]
     /\ global_quota_gcd' = gcd
     /\ Change
     /\ UNCHANGED <<given, steady>>

\* The API's poolquota, or the menu's.
poolquota == \E p \in Listed, n \in Quota :
  /\ adjust_quota_gcd([quota EXCEPT ![p] = n], slot, total)
  /\ UNCHANGED <<slotVars, rotating, workable, fail_only>>

-----------------------------------------------------------------------------
(* Pools come and go.                                                      *)

add_pool == \E p \in Site \ (Listed \union removed) :
  LET added == [slot EXCEPT ![total] = p] IN
  /\ total \in Site
  /\ slot' = added
  /\ total' = total + 1
  /\ adjust_quota_gcd([quota EXCEPT ![p] = 1], added, total + 1)
  /\ workable' = workable \union {p}
  /\ UNCHANGED <<removed, rotating, fail_only>>

\* The API disables the pool and removes it; the last one takes its slot, and
\* the slot past the end keeps what it had.
remove_pool == \E p \in Listed :
  LET i == CHOOSE j \in 0 .. total - 1 : slot[j] = p IN
  /\ total > 1
  /\ slot' = [slot EXCEPT ![i] = slot[total - 1]]
  /\ total' = total - 1
  /\ removed' = removed \union {p}
  /\ workable' = workable \ {p}
  /\ Change
  /\ UNCHANGED <<quotaVars, rotating, fail_only, given, steady>>

\* A pool dies, is revived, is disabled or enabled.
PoolChanges == \E p \in Listed :
  /\ workable' = IF p \in workable THEN workable \ {p} ELSE workable \union {p}
  /\ steady' = steady \ {p}
  /\ Counted
  /\ UNCHANGED <<slotVars, quotaVars, rotating, fail_only, given, quiet>>

-----------------------------------------------------------------------------
(* select_pool where it goes by quota.                                     *)

Exhausted == \A p \in Listed : quota_used[p] >= quota_gcd[p]

\* The pool of the best priority: priorities follow the order of Site.
Best == CHOOSE p \in Listed : \A q \in Listed : p <= q

Following(i) == IF i + 1 >= total THEN 0 ELSE i + 1

\* Faulty: off by one.
TryOneMore(s) ==
  LET p    == slot[s.at]
      turn == s.used[p] <= quota_gcd[p]
      used == [s.used EXCEPT ![p] = @ + 1]
  IN IF turn /\ p \in workable
     THEN [s EXCEPT !.used = used, !.pool = p]
     ELSE [at |-> Following(s.at), pool |-> NoSite, used |-> used]

\* One pool of the rotation is tried: s is the state of the walk.
Try(s) ==
  LET p    == slot[s.at]
      turn == s.used[p] < quota_gcd[p]
      used == [s.used EXCEPT ![p] = @ + 1]
  IN IF turn /\ p \in workable
     THEN [s EXCEPT !.used = used, !.pool = p]
     ELSE [at |-> Following(s.at), pool |-> NoSite,
           used |-> IF turn /\ fail_only THEN [used EXCEPT ![Best] = @ - 1] ELSE used]

\* Nobody has quota: a period begins.
StartWalk == [at |-> IF Exhausted THEN Following(rotating) ELSE rotating,
              pool |-> NoSite,
              used |-> [p \in Site |-> IF Exhausted /\ p \in Listed
                                       THEN 0 ELSE quota_used[p]]]

Walk == LET after[n \in 0 .. total] ==
              IF n = 0 THEN StartWalk
              ELSE LET s == after[n - 1] IN IF s.pool # NoSite THEN s ELSE Try(s)
        IN after[total]

Larger(a, b) == IF a > b THEN a ELSE b

Selectable == workable \intersect Listed

select_pool ==
  LET w    == Walk
      base == IF Exhausted THEN [p \in Site |-> 0] ELSE given
  IN /\ \A p \in Site : w.used[p] <= Larger(quota_used[p], quota_gcd[p] + MaxOver)
     /\ quota_used' = w.used
     /\ rotating' = w.at
     /\ given' = IF w.pool # NoSite THEN [base EXCEPT ![w.pool] = @ + 1] ELSE base
     /\ steady' = IF Exhausted THEN Selectable ELSE steady
     /\ quiet' = (Exhausted \/ quiet)
     /\ UNCHANGED <<slotVars, quota, quota_gcd, global_quota_gcd, workable, fail_only, changes>>

\* A work that was not hashed. quota_used-- is not atomic: it is lost, or
\* takes an increment with it.
discard_work == \E p \in Site, by \in 0 .. 2 :
  /\ quota_used' = [quota_used EXCEPT ![p] = @ - by]
  /\ Change
  /\ UNCHANGED <<slotVars, quota, quota_gcd, global_quota_gcd, rotating, workable,
                 fail_only, given, steady>>

-----------------------------------------------------------------------------

QuotasNext == \/ poolquota \/ add_pool \/ remove_pool \/ PoolChanges
              \/ select_pool \/ discard_work

QuotasSpec == QuotasInit /\ [][QuotasNext]_quotasVars

-----------------------------------------------------------------------------
(* Properties.                                                             *)

(* When no pool has quota left, each pool that could work all the time was *)
(* given as many works as its quota says, at least one if it has a quota,  *)
(* in rotation; with opt_fail_only the first may have got more, the turns  *)
(* of those that could not.                                                *)
PeriodIsFair ==
  Exhausted /\ quiet =>
    \A p \in steady \intersect Listed :
      /\ \/ given[p] = quota_gcd[p]
         \/ fail_only /\ p = Best /\ given[p] > quota_gcd[p]
      /\ quota[p] > 0 => given[p] > 0

=============================================================================
