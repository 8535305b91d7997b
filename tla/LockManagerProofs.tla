-------------------------- MODULE LockManagerProofs --------------------------
(***************************************************************************)
(* Proofs about LockManager: its lock table, counters and ready queue stay *)
(* consistent for any number of transactions, keys and replicas, so        *)
(* conflicting transactions execute in the order of their Lock() calls.    *)
(***************************************************************************)
EXTENDS LockManager, FiniteSetTheorems, TLAPS

\* Locked and neither released nor withdrawn: these have requests in the table.
Pending == Locked \ finished

\* Every queue is in the order of the Lock() calls.
TableOrdered ==
    \A k \in Key : \A i, j \in DOMAIN lock_table_[k] :
        i < j => lock_table_[k][i] < lock_table_[k][j]

\* Granted transactions are pending, released ones were locked, and one that was
\* not locked has no counter.
Phases == /\ Granted \subseteq Pending
          /\ finished \subseteq Locked
          /\ \A t \in Txn \ Locked : txn_waits_[t] = 0

IInv == TypeOK /\ TableOrdered /\ Phases /\ ReadyOnce /\ WaitsMatchTable

\* The requests of t that wait, told from the pending transactions alone.
WaitsFor(t, k) == /\ t \in Pending
                  /\ \E u \in Pending : u < t /\ Conflict(u, t, k)

BlockedIsWaits == \A t \in Txn, k \in Key : Blocked(t, k) <=> WaitsFor(t, k)

-----------------------------------------------------------------------------
(* Sequences. *)

\* Removing one element shifts the ones behind it.
LEMMA RemoveAtElements ==
    ASSUME NEW S, NEW s \in Seq(S), NEW i \in DOMAIN s
    PROVE  /\ RemoveAt(s, i) \in Seq(S)
           /\ Len(RemoveAt(s, i)) = Len(s) - 1
           /\ \A j \in 1..(Len(s) - 1) :
                RemoveAt(s, i)[j] = IF j < i THEN s[j] ELSE s[j + 1]
<1> DEFINE a == SubSeq(s, 1, i - 1)
           b == SubSeq(s, i + 1, Len(s))
<1>1. i \in 1..Len(s) /\ Len(s) \in Nat
  OBVIOUS
<1>2. a \in Seq(S) /\ Len(a) = i - 1 /\ \A j \in 1..(i - 1) : a[j] = s[j]
  BY <1>1
<1>3. b \in Seq(S) /\ Len(b) = Len(s) - i /\ \A j \in 1..(Len(s) - i) : b[j] = s[i + j]
  BY <1>1
<1>4. RemoveAt(s, i) = a \o b
  BY DEF RemoveAt
<1> HIDE DEF a, b
<1>5. (a \o b) \in Seq(S) /\ Len(a \o b) = Len(s) - 1
  BY <1>1, <1>2, <1>3
<1>6. ASSUME NEW j \in 1..(Len(s) - 1)
      PROVE  (a \o b)[j] = IF j < i THEN s[j] ELSE s[j + 1]
  <2>1. CASE j < i
    BY <1>1, <1>2, <1>3, <2>1
  <2>2. CASE ~(j < i)
    <3>1. (a \o b)[j] = b[j - (i - 1)]
      BY <1>1, <1>2, <1>3, <2>2
    <3>2. j - (i - 1) \in 1..(Len(s) - i) /\ i + (j - (i - 1)) = j + 1
      BY <1>1, <2>2
    <3> QED
      BY <1>3, <2>2, <3>1, <3>2
  <2> QED
    BY <2>1, <2>2
<1> QED
  BY <1>4, <1>5, <1>6

\* The elements of a sequence of distinct numbers after removing one of them.
LEMMA RemoveAtOrdered ==
    ASSUME NEW S \in SUBSET Nat, NEW s \in Seq(S), NEW i \in DOMAIN s,
           \A m, n \in DOMAIN s : m < n => s[m] < s[n]
    PROVE  /\ \A m, n \in DOMAIN RemoveAt(s, i) :
                m < n => RemoveAt(s, i)[m] < RemoveAt(s, i)[n]
           /\ ToSet(RemoveAt(s, i)) = ToSet(s) \ {s[i]}
<1> DEFINE r == RemoveAt(s, i)
<1>1. /\ Len(s) \in Nat /\ i \in 1..Len(s) /\ DOMAIN s = 1..Len(s)
      /\ DOMAIN r = 1..(Len(s) - 1)
      /\ \A j \in 1..(Len(s) - 1) : r[j] = IF j < i THEN s[j] ELSE s[j + 1]
  BY RemoveAtElements
<1>n. ASSUME NEW j \in 1..Len(s) PROVE s[j] \in Nat
  <2>1. s[j] \in S
    OBVIOUS
  <2> QED
    BY <2>1
<1> HIDE DEF r
<1>2. ASSUME NEW m \in DOMAIN r, NEW n \in DOMAIN r, m < n
      PROVE  r[m] < r[n]
  <2> DEFINE p == IF m < i THEN m ELSE m + 1
             q == IF n < i THEN n ELSE n + 1
  <2>1. p \in DOMAIN s /\ q \in DOMAIN s /\ p < q
    BY <1>1, <1>2
  <2>2. r[m] = s[p] /\ r[n] = s[q]
    BY <1>1
  <2> QED
    BY <2>1, <2>2
<1>3. ASSUME NEW x \in ToSet(r) PROVE x \in ToSet(s) \ {s[i]}
  <2>1. PICK j \in 1..(Len(s) - 1) : x = r[j]
    BY <1>1 DEF ToSet
  <2> DEFINE p == IF j < i THEN j ELSE j + 1
  <2>2. p \in DOMAIN s /\ p # i /\ x = s[p]
    BY <1>1, <2>1
  <2> HIDE DEF p
  <2>3. s[p] # s[i]
    <3>1. CASE p < i
      BY <1>1, <1>n, <2>2, <3>1
    <3>2. CASE i < p
      BY <1>1, <1>n, <2>2, <3>2
    <3> QED
      BY <1>1, <2>2, <3>1, <3>2
  <2> QED
    BY <2>2, <2>3 DEF ToSet
<1>4. ASSUME NEW x \in ToSet(s) \ {s[i]} PROVE x \in ToSet(r)
  <2>1. PICK j \in 1..Len(s) : x = s[j] /\ j # i
    BY <1>1 DEF ToSet
  <2>2. CASE j < i
    <3>1. j \in DOMAIN r /\ r[j] = x
      BY <1>1, <2>1, <2>2
    <3> QED BY <3>1 DEF ToSet
  <2>3. CASE j > i
    <3>1. j - 1 \in DOMAIN r /\ r[j - 1] = x
      BY <1>1, <2>1, <2>3
    <3> QED BY <3>1 DEF ToSet
  <2> QED
    BY <1>1, <2>1, <2>2, <2>3
<1> QED
  BY <1>2, <1>3, <1>4 DEF r
\* Appending one element.
LEMMA AppendElements ==
    ASSUME NEW S, NEW s \in Seq(S), NEW x \in S
    PROVE  /\ ToSet(Append(s, x)) = ToSet(s) \cup {x}
           /\ DOMAIN Append(s, x) = 1..(Len(s) + 1)
           /\ \A i \in 1..Len(s) : Append(s, x)[i] = s[i]
           /\ Append(s, x)[Len(s) + 1] = x
<1> DEFINE r == Append(s, x)
<1>1. /\ Len(s) \in Nat /\ DOMAIN s = 1..Len(s)
      /\ DOMAIN r = 1..(Len(s) + 1) /\ r[Len(s) + 1] = x
      /\ \A i \in 1..Len(s) : r[i] = s[i]
  OBVIOUS
<1> HIDE DEF r
<1>2. \A y \in ToSet(r) : y \in ToSet(s) \cup {x}
  BY <1>1 DEF ToSet
<1>3. \A y \in ToSet(s) : y \in ToSet(r)
  BY <1>1 DEF ToSet
<1>4. x \in ToSet(r)
  BY <1>1 DEF ToSet
<1> QED
  BY <1>1, <1>2, <1>3, <1>4 DEF r

\* The head of a sequence.
LEMMA HeadElement ==
    ASSUME NEW S, NEW s \in Seq(S), s # <<>>
    PROVE  Head(s) \in S /\ Head(s) \in ToSet(s)
<1>1. 1 \in DOMAIN s /\ Head(s) = s[1] /\ s[1] \in S
  OBVIOUS
<1> QED
  BY <1>1 DEF ToSet

-----------------------------------------------------------------------------
(* What Lock() and Release() compute, in terms of the pending transactions. *)

\* The queue of a key holds the pending transactions that request it, in order.
LEMMA QueueFacts ==
    ASSUME TypeOK, TableOrdered, ReadyOnce, NEW k \in Key
    PROVE  /\ lock_table_[k] \in Seq(Txn) /\ Txn \subseteq Nat
           /\ DOMAIN lock_table_[k] = 1..Len(lock_table_[k])
           /\ Len(lock_table_[k]) \in Nat
           /\ \A t \in Pending : k \in LockKeys(t) =>
                \E i \in DOMAIN lock_table_[k] : lock_table_[k][i] = t
           /\ \A i \in DOMAIN lock_table_[k] :
                /\ lock_table_[k][i] \in Pending \cap Txn
                /\ k \in LockKeys(lock_table_[k][i])
           /\ \A i, j \in DOMAIN lock_table_[k] :
                (lock_table_[k][i] < lock_table_[k][j]) <=> (i < j)
<1> DEFINE q == lock_table_[k]
<1>1. q \in Seq(Txn) /\ Txn \subseteq Nat /\ DOMAIN q = 1..Len(q) /\ Len(q) \in Nat
  BY DEF TypeOK, Txn
<1>2. ToSet(q) = {t \in Pending : k \in LockKeys(t)}
  BY DEF ReadyOnce, Pending
<1>3. \A t : t \in ToSet(q) <=> \E i \in DOMAIN q : q[i] = t
  BY DEF ToSet
<1>4. ASSUME NEW i \in DOMAIN q, NEW j \in DOMAIN q
      PROVE  (q[i] < q[j]) <=> (i < j)
  <2>1. q[i] \in Nat /\ q[j] \in Nat
    <3> HIDE DEF q
    <3>1. q[i] \in Txn /\ q[j] \in Txn
      BY <1>1
    <3> QED
      BY <1>1, <3>1
  <2>2. i < j => q[i] < q[j]
    BY DEF TableOrdered
  <2>3. j < i => q[j] < q[i]
    BY DEF TableOrdered
  <2> QED
    BY <1>1, <2>1, <2>2, <2>3
<1>5. \A i \in DOMAIN q : q[i] \in Txn
  BY <1>1
<1> HIDE DEF q
<1>6. \A i \in DOMAIN q : q[i] \in Pending \cap Txn /\ k \in LockKeys(q[i])
  BY <1>2, <1>3, <1>5
<1>7. \A t \in Pending : k \in LockKeys(t) => \E i \in DOMAIN q : q[i] = t
  BY <1>2, <1>3
<1> QED
  BY <1>1, <1>4, <1>6, <1>7 DEF q

\* A request is blocked in the table exactly when an earlier pending transaction
\* conflicts with it.
LEMMA BlockedIsWaitsFor ==
    TypeOK /\ TableOrdered /\ ReadyOnce => BlockedIsWaits
<1> SUFFICES ASSUME TypeOK, TableOrdered, ReadyOnce, NEW k \in Key, NEW t \in Txn
             PROVE  Blocked(t, k) <=> WaitsFor(t, k)
  BY DEF BlockedIsWaits
<1> DEFINE q == lock_table_[k]
<1>1. ASSUME Blocked(t, k) PROVE WaitsFor(t, k)
  <2>1. PICK i \in DOMAIN q, j \in DOMAIN q : j < i /\ q[i] = t /\ Conflict(q[j], t, k)
    BY <1>1 DEF Blocked
  <2> QED
    BY <2>1, QueueFacts DEF WaitsFor
<1>2. ASSUME WaitsFor(t, k) PROVE Blocked(t, k)
  <2>1. PICK u \in Pending : t \in Pending /\ u < t /\ Conflict(u, t, k)
    BY <1>2 DEF WaitsFor
  <2>2. k \in LockKeys(t) /\ k \in LockKeys(u)
    BY <2>1 DEF Conflict
  <2>3. PICK i \in DOMAIN q : q[i] = t
    BY <2>1, <2>2, QueueFacts
  <2>4. PICK j \in DOMAIN q : q[j] = u
    BY <2>1, <2>2, QueueFacts
  <2>5. j < i
    BY <2>1, <2>3, <2>4, QueueFacts
  <2> QED
    BY <2>1, <2>3, <2>4, <2>5 DEF Blocked
<1> QED
  BY <1>1, <1>2

\* The inheritance rules (a), (b) and (c) of Release() grant the requests that wait
\* for nobody but the released transaction, for queues of any length.
LEMMA NewOwnersAreUnblocked ==
    ASSUME TypeOK, TableOrdered, ReadyOnce,
           NEW t \in Pending, NEW k \in LockKeys(t), NEW u
    PROVE  u \in NewOwners(t, k) <=>
              /\ WaitsFor(u, k)
              /\ ~ \E v \in Pending \ {t} : v < u /\ Conflict(v, u, k)
<1> DEFINE q == lock_table_[k]
           i == Position(t, k)
           alone(m) == \A j \in 1..(m - 1) : j # i => ~ (Writes(q[j], k) \/ Writes(q[m], k))
           freed(m) == i < m /\ (Writes(t, k) \/ Writes(q[m], k)) /\ alone(m)
<1>k. k \in Key
  BY LockManagerAssumption DEF LockKeys, Owned
<1>q. /\ q \in Seq(Txn) /\ Len(q) \in Nat /\ DOMAIN q = 1..Len(q) /\ Txn \subseteq Nat
      /\ \A m \in DOMAIN q : q[m] \in Pending \cap Txn /\ k \in LockKeys(q[m])
      /\ \A m, n \in DOMAIN q : (q[m] < q[n]) <=> (m < n)
      /\ \A v \in Pending : k \in LockKeys(v) => \E m \in DOMAIN q : q[m] = v
  BY <1>k, QueueFacts
<1>i. i \in DOMAIN q /\ q[i] = t
  BY <1>q DEF Position
<1>u. \A m, n \in DOMAIN q : q[m] = q[n] => m = n
  BY <1>q
<1> HIDE DEF q, i
<1>1. ASSUME NEW m \in DOMAIN q
      PROVE  q[m] \in NewOwners(t, k) <=> freed(m)
  <2> DEFINE headGoes == i = 1 /\ (Writes(t, k) \/ Writes(q[i + 1], k))
             gapCloses == /\ \A j \in 1..(i - 1) : ~ Writes(q[j], k)
                          /\ Writes(t, k)
  <2>1. CASE i = Len(q)
    <3>1. NewOwners(t, k) = {}
      BY <2>1 DEF NewOwners, q, i
    <3>2. ~ (i < m)
      <4>1. m \in Nat /\ m <= Len(q)
        BY <1>q
      <4> QED
        BY <4>1, <2>1, <1>q
    <3>3. ~ freed(m)
      BY <3>2
    <3> QED
      BY <3>1, <3>3
  <2>2. CASE i < Len(q) /\ Writes(q[i + 1], k)
    <3>1. NewOwners(t, k) = IF i = 1 THEN {q[i + 1]} ELSE {}
      BY <2>2, <1>q, <1>i DEF NewOwners, q, i
    <3>2. q[m] \in NewOwners(t, k) <=> (i = 1 /\ m = 2)
      BY <3>1, <2>2, <1>q, <1>i, <1>u
    <3>3. CASE i = 1 /\ m = 2
      BY <3>2, <3>3, <2>2, <1>q
    <3>4. CASE ~(i = 1 /\ m = 2) /\ m <= i
      BY <3>2, <3>4, <1>q, <1>i
    <3>5. CASE ~(i = 1 /\ m = 2) /\ m = i + 1
      <4>1. i > 1 /\ 1 \in 1..(m - 1) /\ Writes(q[m], k)
        BY <3>5, <2>2, <1>q, <1>i
      <4> QED
        BY <3>2, <3>5, <4>1
    <3>6. CASE m > i + 1
      <4>1. i + 1 \in 1..(m - 1)
        BY <3>6, <1>q, <1>i
      <4> QED
        BY <3>2, <3>6, <4>1, <2>2, <1>q, <1>i
    <3> QED
      BY <3>3, <3>4, <3>5, <3>6, <1>q, <1>i
  <2>3. CASE i < Len(q) /\ ~ Writes(q[i + 1], k)
    <3>1. NewOwners(t, k) = IF gapCloses THEN {q[j] : j \in ReadersBehind(k, i)} ELSE {}
      <4>1. headGoes => gapCloses
        BY <2>3
      <4>2. NewOwners(t, k) = IF headGoes \/ gapCloses
                              THEN {q[j] : j \in ReadersBehind(k, i)} ELSE {}
        BY <2>3, <1>q, <1>i DEF NewOwners, q, i
      <4> QED
        BY <4>1, <4>2
    <3>2. ReadersBehind(k, i) \subseteq DOMAIN q
      BY <1>q, <1>i DEF ReadersBehind, q
    <3>3. q[m] \in NewOwners(t, k) <=> (gapCloses /\ m \in ReadersBehind(k, i))
      BY <3>1, <3>2, <1>u
    <3>4. m \in ReadersBehind(k, i) <=>
             (m > i /\ \A n \in (i + 1)..m : ~ Writes(q[n], k))
      BY <1>q, <1>i DEF ReadersBehind, q
    <3>5. ASSUME gapCloses, m > i, \A n \in (i + 1)..m : ~ Writes(q[n], k)
          PROVE  freed(m)
      BY <3>5, <1>q, <1>i
    <3>6. ASSUME freed(m)
          PROVE  gapCloses /\ m > i /\ \A n \in (i + 1)..m : ~ Writes(q[n], k)
      <4>1. ~ Writes(q[m], k)
        <5>1. SUFFICES ASSUME Writes(q[m], k) PROVE FALSE
          OBVIOUS
        <5>2. CASE m = i + 1
          BY <5>1, <5>2, <2>3
        <5>3. CASE m > i + 1
          <6>1. i + 1 \in 1..(m - 1) /\ i + 1 # i
            BY <5>3, <1>q, <1>i
          <6> QED
            BY <5>1, <6>1, <3>6
        <5> QED
          BY <5>2, <5>3, <3>6, <1>q, <1>i
      <4>2. Writes(t, k)
        BY <3>6, <4>1
      <4>3. ASSUME NEW j \in 1..(i - 1) PROVE ~ Writes(q[j], k)
        <5>1. j \in 1..(m - 1) /\ j # i
          BY <3>6, <1>q, <1>i
        <5> QED
          BY <5>1, <3>6
      <4>4. ASSUME NEW n \in (i + 1)..m PROVE ~ Writes(q[n], k)
        <5>1. CASE n = m
          BY <4>1, <5>1
        <5>2. CASE n # m
          <6>1. n \in 1..(m - 1) /\ n # i
            BY <5>2, <1>q, <1>i
          <6> QED
            BY <6>1, <3>6
        <5> QED
          BY <5>1, <5>2
      <4> QED
        BY <3>6, <4>2, <4>3, <4>4, <1>q, <1>i
    <3> QED
      BY <3>3, <3>4, <3>5, <3>6
  <2> QED
    BY <2>1, <2>2, <2>3, <1>q, <1>i
<1>2. ASSUME NEW m \in DOMAIN q, u = q[m]
      PROVE  freed(m) <=> /\ WaitsFor(u, k)
                          /\ ~ \E v \in Pending \ {t} : v < u /\ Conflict(v, u, k)
  <2>1. ASSUME NEW v \in Pending
        PROVE  (v < u /\ Conflict(v, u, k)) <=>
                  \E j \in 1..(m - 1) : q[j] = v /\ (Writes(q[j], k) \/ Writes(q[m], k))
    BY <1>2, <1>q DEF Conflict
  <2>2. \A j \in 1..(m - 1) : j \in DOMAIN q /\ q[j] \in Pending /\ (q[j] = t <=> j = i)
    BY <1>q, <1>i, <1>u
  <2>3. WaitsFor(u, k) <=> \E j \in 1..(m - 1) : Writes(q[j], k) \/ Writes(q[m], k)
    BY <1>2, <1>q, <2>1, <2>2 DEF WaitsFor
  <2>4. (~ \E v \in Pending \ {t} : v < u /\ Conflict(v, u, k)) <=> alone(m)
    BY <2>1, <2>2
  <2>5. ASSUME alone(m)
        PROVE  (\E j \in 1..(m - 1) : Writes(q[j], k) \/ Writes(q[m], k)) <=>
                  (i < m /\ (Writes(t, k) \/ Writes(q[m], k)))
    BY <2>5, <1>q, <1>i
  <2> QED
    BY <2>3, <2>4, <2>5
<1>3. ASSUME WaitsFor(u, k) PROVE \E m \in DOMAIN q : u = q[m]
  BY <1>3, <1>q DEF WaitsFor, Conflict
<1>4. ASSUME u \in NewOwners(t, k) PROVE \E m \in DOMAIN q : u = q[m]
  <2>1. CASE i = Len(q)
    BY <1>4, <2>1 DEF NewOwners, q, i
  <2>2. CASE i < Len(q) /\ Writes(q[i + 1], k)
    <3>1. u = q[i + 1] /\ i + 1 \in DOMAIN q
      BY <1>4, <2>2, <1>q, <1>i DEF NewOwners, q, i
    <3> QED
      BY <3>1
  <2>3. CASE i < Len(q) /\ ~ Writes(q[i + 1], k)
    <3>1. u \in {q[j] : j \in ReadersBehind(k, i)}
      BY <1>4, <2>3, <1>q, <1>i DEF NewOwners, q, i
    <3> QED
      BY <3>1, <1>q, <1>i DEF ReadersBehind, q
  <2> QED
    BY <2>1, <2>2, <2>3, <1>q, <1>i
<1> QED
  BY <1>1, <1>2, <1>3, <1>4
-----------------------------------------------------------------------------
(* Each step preserves the invariant. *)

LEMMA PendingInTxn ==
    ASSUME TypeOK
    PROVE  Pending \subseteq Txn /\ Pending \subseteq Locked /\ Txn \subseteq Nat
BY LockManagerAssumption DEF Pending, Locked, Txn, TypeOK

\* Sets of keys are finite.
LEMMA FiniteKeys ==
    ASSUME NEW K \in SUBSET Key
    PROVE  IsFiniteSet(K) /\ Cardinality(K) \in Nat
BY LockManagerAssumption, FS_Subset, FS_CardinalityType

LEMMA InitInv == Init => IInv
<1> SUFFICES ASSUME Init PROVE IInv
  OBVIOUS
<1>1. Locked = {} /\ Granted = {} /\ ToSet(ready_txns_) = {} /\ finished = {}
  BY DEF Init, Locked, Granted, ToSet
<1>2. TypeOK
  BY LockManagerAssumption DEF Init, TypeOK
<1>3. TableOrdered
  BY DEF Init, TableOrdered
<1>4. Phases
  BY <1>1 DEF Phases, Pending, Init
<1>5. \A k \in Key : ToSet(lock_table_[k]) = {}
  BY DEF Init, ToSet
<1>6. ReadyOnce
  BY <1>1, <1>5 DEF ReadyOnce, Init
<1>7. WaitsMatchTable
  BY <1>1 DEF WaitsMatchTable
<1> QED
  BY <1>2, <1>3, <1>4, <1>6, <1>7 DEF IInv

\* The entries never change, so neither do the requests and their conflicts.
LEMMA EntriesFixed ==
    ASSUME [Next]_vars
    PROVE  /\ \A t : LockKeys(t)' = LockKeys(t)
           /\ \A t, k : Writes(t, k)' = Writes(t, k)
           /\ \A t, u, k : Conflict(t, u, k)' = Conflict(t, u, k)
<1>1. entries' = entries
  BY DEF Next, vars, Lock, Release, Cancel, ReleaseLocks, Dispatch
<1> QED
  BY <1>1 DEF LockKeys, Writes, WriteKeys, Conflict, Owned

LEMMA LockStep ==
    ASSUME IInv, NEW t \in Txn, Lock(t), [Next]_vars
    PROVE  IInv'
<1> USE DEF IInv
<1>1. /\ t = calls + 1 /\ calls' = t /\ calls \in Nat /\ finished' = finished
      /\ executing' = executing /\ entries' = entries
      /\ t \notin Locked /\ Locked' = Locked \cup {t}
      /\ t \in Nat /\ \A u \in Locked : u < t
  <2>1. /\ t = calls + 1 /\ calls' = t /\ finished' = finished
        /\ executing' = executing /\ entries' = entries
    BY DEF Lock
  <2>2. calls \in Nat /\ t \in Nat
    BY <2>1 DEF TypeOK
  <2>3. Locked = 1..calls /\ Locked' = 1..t
    BY <2>1 DEF Locked
  <2> QED
    BY <2>1, <2>2, <2>3
<1>2. Pending' = Pending \cup {t} /\ t \notin Pending /\ t \notin finished
  BY <1>1 DEF Pending, Phases
<1>3. TypeOK'
  <2>1. NotAcquired(t) \in SUBSET Key
    BY LockManagerAssumption DEF NotAcquired, LockKeys, Owned
  <2>2. txn_waits_' \in [Txn -> Nat]
    BY <2>1, FiniteKeys DEF Lock, TypeOK
  <2>3. lock_table_' \in [Key -> Seq(Txn)]
    BY DEF Lock, TypeOK
  <2>4. ready_txns_' \in Seq(Txn)
    <3>1. ready_txns_' = ready_txns_ \/ ready_txns_' = Append(ready_txns_, t)
      BY DEF Lock
    <3>2. ready_txns_ \in Seq(Txn)
      BY DEF TypeOK
    <3>3. Append(ready_txns_, t) \in Seq(Txn)
      BY <3>2
    <3> QED
      BY <3>1, <3>2, <3>3
  <2> QED
    BY <1>1, <2>2, <2>3, <2>4 DEF TypeOK, Txn
<1>4. ASSUME NEW k \in Key
      PROVE  /\ \A i, j \in DOMAIN lock_table_'[k] :
                   i < j => lock_table_'[k][i] < lock_table_'[k][j]
             /\ ToSet(lock_table_'[k]) = {u \in Pending' : k \in LockKeys(u)}
  <2> DEFINE q == lock_table_[k]
  <2>1. /\ q \in Seq(Txn) /\ Len(q) \in Nat /\ DOMAIN q = 1..Len(q)
        /\ \A i \in DOMAIN q : q[i] \in Pending /\ q[i] < t
        /\ \A i, j \in DOMAIN q : i < j => q[i] < q[j]
        /\ ToSet(q) = {u \in Pending : k \in LockKeys(u)}
    BY <1>1, QueueFacts DEF ReadyOnce, Pending, TableOrdered
  <2>2. lock_table_'[k] = IF k \in LockKeys(t) THEN Append(q, t) ELSE q
    BY DEF Lock
  <2> HIDE DEF q
  <2>3. CASE k \in LockKeys(t)
    <3> DEFINE r == Append(q, t)
    <3>1. /\ DOMAIN r = 1..(Len(q) + 1) /\ r[Len(q) + 1] = t
          /\ \A i \in 1..Len(q) : r[i] = q[i]
      BY <2>1
    <3> HIDE DEF r
    <3>2. \A i, j \in DOMAIN r : i < j => r[i] < r[j]
      BY <2>1, <3>1
    <3>3. ToSet(r) = ToSet(q) \cup {t}
      BY <2>1, AppendElements DEF r
    <3> QED
      BY <1>2, <2>1, <2>2, <2>3, <3>2, <3>3 DEF r
  <2>4. CASE k \notin LockKeys(t)
    BY <1>2, <2>1, <2>2, <2>4
  <2> QED
    BY <2>3, <2>4
<1>5. TableOrdered'
  BY <1>4 DEF TableOrdered
<1>6. ToSet(ready_txns_') = IF NotAcquired(t) = {} THEN ToSet(ready_txns_) \cup {t}
                                                  ELSE ToSet(ready_txns_)
  <2>1. CASE NotAcquired(t) = {}
    <3>1. ready_txns_' = Append(ready_txns_, t) /\ ready_txns_ \in Seq(Txn)
      BY <2>1 DEF Lock, TypeOK
    <3>2. ToSet(Append(ready_txns_, t)) = ToSet(ready_txns_) \cup {t}
      BY <3>1, AppendElements
    <3> QED
      BY <2>1, <3>1, <3>2
  <2>2. CASE NotAcquired(t) # {}
    BY <2>2 DEF Lock
  <2> QED
    BY <2>1, <2>2
<1>7. Phases'
  <2>1. Granted' \subseteq Pending' /\ finished' \subseteq Locked'
    BY <1>1, <1>2, <1>6 DEF Phases, Granted
  <2>2. \A u \in Txn \ Locked' : txn_waits_'[u] = 0
    BY <1>1 DEF Lock, Phases, TypeOK
  <2> QED
    BY <2>1, <2>2 DEF Phases
<1>8. ReadyOnce'
  <2>1. \A i, j \in DOMAIN ready_txns_' : i # j => ready_txns_'[i] # ready_txns_'[j]
    <3>1. \A i \in DOMAIN ready_txns_ : ready_txns_[i] # t
      BY <1>2 DEF Phases, Granted, ToSet
    <3>2. CASE ready_txns_' = Append(ready_txns_, t)
      <4> DEFINE n == Len(ready_txns_)
      <4>1. /\ n \in Nat /\ DOMAIN ready_txns_ = 1..n /\ DOMAIN ready_txns_' = 1..(n + 1)
            /\ \A i \in 1..n : ready_txns_'[i] = ready_txns_[i]
            /\ ready_txns_'[n + 1] = t
        BY <3>2, AppendElements DEF TypeOK
      <4> HIDE DEF n
      <4>2. \A i, j \in 1..n : i # j => ready_txns_[i] # ready_txns_[j]
        BY <4>1 DEF ReadyOnce
      <4> QED
        BY <3>1, <4>1, <4>2
    <3>3. CASE ready_txns_' = ready_txns_
      BY <3>3 DEF ReadyOnce
    <3> QED
      BY <3>2, <3>3 DEF Lock
  <2>2. ToSet(ready_txns_') \cap (executing' \cup finished') = {}
    BY <1>1, <1>2, <1>6 DEF ReadyOnce, Phases, Granted
  <2>3. \A k \in Key : ToSet(lock_table_'[k]) =
                          {u \in Locked' \ finished' : k \in LockKeys(u)'}
    BY <1>4, EntriesFixed DEF Pending
  <2> QED
    BY <2>1, <2>2, <2>3 DEF ReadyOnce
<1>9. WaitsMatchTable'
  <2>0. BlockedIsWaits /\ BlockedIsWaits'
    BY <1>3, <1>5, <1>8, BlockedIsWaitsFor, PTL
  <2>p. Pending \subseteq Txn /\ Pending \subseteq Locked
    BY PendingInTxn
  <2>1. ASSUME NEW u \in Pending, NEW k \in Key
        PROVE  Blocked(u, k)' <=> Blocked(u, k)
    <3>1. ~ (t < u) /\ u # t /\ u \in Pending'
      BY <1>1, <1>2, <2>p DEF Txn
    <3>2. \A v \in Pending' : (v < u /\ Conflict(v, u, k)') <=>
                                (v \in Pending /\ v < u /\ Conflict(v, u, k))
      BY <1>2, <3>1, EntriesFixed
    <3>3. WaitsFor(u, k)' <=> WaitsFor(u, k)
      BY <1>2, <3>1, <3>2 DEF WaitsFor
    <3> QED
      BY <2>0, <2>p, <3>3 DEF BlockedIsWaits
  <2>2. ASSUME NEW k \in Key
        PROVE  Blocked(t, k)' <=> k \in NotAcquired(t)
    <3>1. WaitsFor(t, k)' <=> \E u \in Pending : Conflict(u, t, k)
      BY <1>1, <1>2, <2>p, EntriesFixed DEF WaitsFor
    <3>2. (\E u \in Pending : Conflict(u, t, k)) <=> k \in NotAcquired(t)
      BY QueueFacts DEF NotAcquired, Conflict
    <3> QED
      BY <2>0, <3>1, <3>2 DEF BlockedIsWaits
  <2>3. ASSUME NEW u \in Pending'
        PROVE  /\ txn_waits_'[u] = Cardinality(BlockedKeys(u)')
               /\ (u \in Granted') <=> (BlockedKeys(u)' = {})
    <3>1. CASE u = t
      <4>1. BlockedKeys(t)' = NotAcquired(t)
        BY <2>2, LockManagerAssumption DEF BlockedKeys, NotAcquired, LockKeys, Owned
      <4>2. CASE NotAcquired(t) # {}
        BY <1>1, <1>2, <1>6, <3>1, <4>1, <4>2 DEF Lock, TypeOK, Granted, Phases
      <4>3. CASE NotAcquired(t) = {}
        <5>1. txn_waits_[t] = 0
          BY <1>1 DEF Phases
        <5> QED
          BY <1>6, <3>1, <4>1, <4>3, <5>1, FS_EmptySet DEF Lock, Granted
      <4> QED
        BY <4>2, <4>3
    <3>2. CASE u # t
      <4>1. u \in Pending /\ u \in Txn
        BY <1>2, <3>2, <2>p
      <4>2. BlockedKeys(u)' = BlockedKeys(u)
        BY <2>1, <4>1 DEF BlockedKeys
      <4>3. txn_waits_'[u] = txn_waits_[u]
        BY <3>2, <4>1 DEF Lock, TypeOK
      <4>4. u \in Granted' <=> u \in Granted
        BY <1>1, <1>6, <3>2 DEF Granted
      <4> QED
        BY <4>1, <4>2, <4>3, <4>4 DEF WaitsMatchTable, Pending
    <3> QED
      BY <3>1, <3>2
  <2> QED
    BY <2>3 DEF WaitsMatchTable, Pending
<1> QED
  BY <1>3, <1>5, <1>7, <1>8, <1>9

\* The ready queue after a release: the newly ready transactions are added, and a
\* queue without duplicates stays one.
LEMMA ReadyQueueExtended ==
    ASSUME NEW s \in Seq(Txn), NEW N \in SUBSET Txn, NEW n \in Nat,
           NEW r \in Bijection(1..n, N), ToSet(s) \cap N = {},
           \A i, j \in DOMAIN s : i # j => s[i] # s[j]
    PROVE  \E c : /\ c = s \o r
                  /\ c \in Seq(Txn)
                  /\ ToSet(c) = ToSet(s) \cup N
                  /\ \A i, j \in DOMAIN c : i # j => c[i] # c[j]
<1>1. /\ r \in [1..n -> N]
      /\ \A i, j \in 1..n : r[i] = r[j] => i = j
      /\ \A x \in N : \E i \in 1..n : r[i] = x
  BY DEF Bijection, Injection, Surjection, IsInjective
<1>2. r \in Seq(Txn) /\ Len(r) = n
  BY <1>1
<1> DEFINE l == Len(s)
           c == s \o r
<1>3. /\ l \in Nat /\ DOMAIN s = 1..l /\ c \in Seq(Txn) /\ DOMAIN c = 1..(l + n)
      /\ \A i \in 1..l : c[i] = s[i]
      /\ \A i \in 1..(l + n) : i > l => c[i] = r[i - l] /\ i - l \in 1..n
      /\ \A i \in 1..n : c[l + i] = r[i] /\ l + i \in 1..(l + n)
  BY <1>1, <1>2
<1>9. c = s \o r
  OBVIOUS
<1> HIDE DEF c
<1> HIDE DEF l
<1>4. ASSUME NEW x \in ToSet(c) PROVE x \in ToSet(s) \cup N
  <2>1. PICK i \in 1..(l + n) : x = c[i]
    BY <1>3 DEF ToSet
  <2>2. CASE i \in 1..l
    BY <1>3, <2>1, <2>2 DEF ToSet
  <2>3. CASE i > l
    BY <1>1, <1>3, <2>1, <2>3
  <2> QED
    BY <1>3, <2>2, <2>3
<1>5. ASSUME NEW x \in ToSet(s) PROVE x \in ToSet(c)
  BY <1>3 DEF ToSet
<1>6. ASSUME NEW x \in N PROVE x \in ToSet(c)
  <2>1. PICK i \in 1..n : r[i] = x
    BY <1>1
  <2>2. l + i \in DOMAIN c /\ c[l + i] = x
    BY <1>3, <2>1
  <2> QED
    BY <2>2 DEF ToSet
<1>7. ASSUME NEW i \in 1..(l + n), NEW j \in 1..(l + n), i < j
      PROVE  c[i] # c[j]
  <2>1. CASE j <= l
    <3>1. i \in 1..l /\ j \in 1..l /\ i # j
      BY <1>3, <1>7, <2>1
    <3> QED
      BY <1>3, <1>7, <3>1
  <2>2. CASE i <= l /\ j > l
    <3>1. c[i] \in ToSet(s)
      <4>1. i \in DOMAIN s /\ c[i] = s[i]
        BY <1>3, <2>2
      <4> QED
        BY <4>1 DEF ToSet
    <3>2. c[j] \in N
      BY <1>1, <1>3, <2>2
    <3> QED
      BY <1>7, <3>1, <3>2
  <2>3. CASE i > l
    <3>1. /\ c[i] = r[i - l] /\ c[j] = r[j - l] /\ i - l # j - l
          /\ i - l \in 1..n /\ j - l \in 1..n
      BY <1>3, <1>7, <2>3
    <3> QED
      BY <1>1, <3>1
  <2> QED
    BY <1>3, <2>1, <2>2, <2>3
<1>8. ASSUME NEW i \in 1..(l + n), NEW j \in 1..(l + n), i # j
      PROVE  c[i] # c[j]
  <2>1. i < j \/ j < i
    BY <1>3, <1>8
  <2> QED
    BY <1>7, <1>8, <2>1
<1>10. ToSet(c) = ToSet(s) \cup N
  BY <1>4, <1>5, <1>6
<1>11. \A i, j \in DOMAIN c : i # j => c[i] # c[j]
  BY <1>3, <1>8
<1>12. c \in Seq(Txn)
  BY <1>3
<1> QED
  BY <1>9, <1>10, <1>11, <1>12, Zenon

\* The effect of releasing t on the other pending transactions.
LEMMA ReleaseStep ==
    ASSUME IInv, NEW t \in Pending, t \notin ToSet(ready_txns_), ReleaseLocks(t),
           executing' = executing \ {t}, [Next]_vars
    PROVE  IInv'
<1> USE DEF IInv
<1>p. Pending \subseteq Txn /\ Pending \subseteq Locked /\ Txn \subseteq Nat
  BY PendingInTxn
<1>1. /\ calls' = calls /\ Locked' = Locked /\ finished' = finished \cup {t}
      /\ Pending' = Pending \ {t}
  BY DEF ReleaseLocks, Pending, Locked
<1>2. ASSUME NEW k \in Key, k \in LockKeys(t)
      PROVE  Position(t, k) \in DOMAIN lock_table_[k]
             /\ lock_table_[k][Position(t, k)] = t
  BY <1>2, QueueFacts DEF Position
<1>3. ASSUME NEW k \in Key
      PROVE  /\ lock_table_'[k] \in Seq(Txn)
             /\ \A i, j \in DOMAIN lock_table_'[k] :
                   i < j => lock_table_'[k][i] < lock_table_'[k][j]
             /\ ToSet(lock_table_'[k]) = {u \in Pending' : k \in LockKeys(u)}
  <2> DEFINE q == lock_table_[k]
             i == Position(t, k)
  <2>1. /\ q \in Seq(Txn)
        /\ \A m, n \in DOMAIN q : m < n => q[m] < q[n]
        /\ ToSet(q) = {u \in Pending : k \in LockKeys(u)}
    <3>1. q \in Seq(Txn) /\ \A m, n \in DOMAIN q : m < n => q[m] < q[n]
      BY DEF TypeOK, TableOrdered
    <3>2. ToSet(q) = {u \in Pending : k \in LockKeys(u)}
      BY DEF ReadyOnce, Pending
    <3> QED
      BY <3>1, <3>2
  <2>2. lock_table_'[k] = IF k \in LockKeys(t) THEN RemoveAt(q, i) ELSE q
    BY DEF ReleaseLocks
  <2>3. k \in LockKeys(t) => i \in DOMAIN q /\ q[i] = t
    BY <1>2
  <2> HIDE DEF q, i
  <2>4. CASE k \in LockKeys(t)
    <3>1. RemoveAt(q, i) \in Seq(Txn)
      BY <2>1, <2>3, <2>4, RemoveAtElements
    <3>2. /\ \A m, n \in DOMAIN RemoveAt(q, i) :
                m < n => RemoveAt(q, i)[m] < RemoveAt(q, i)[n]
          /\ ToSet(RemoveAt(q, i)) = ToSet(q) \ {t}
      BY <1>p, <2>1, <2>3, <2>4, RemoveAtOrdered
    <3> QED
      BY <1>1, <2>1, <2>2, <2>4, <3>1, <3>2
  <2>5. CASE k \notin LockKeys(t)
    BY <1>1, <2>1, <2>2, <2>5
  <2> QED
    BY <2>4, <2>5
<1>4. TableOrdered'
  BY <1>3 DEF TableOrdered
\* Which requests t's release grants, and how many of each transaction.
<1>5. \A u : GrantedKeys(t, u) = {k \in LockKeys(t) :
                /\ WaitsFor(u, k)
                /\ ~ \E v \in Pending \ {t} : v < u /\ Conflict(v, u, k)}
  BY NewOwnersAreUnblocked DEF GrantedKeys
<1>6. ASSUME NEW u \in Txn
      PROVE  /\ GrantedKeys(t, u) \subseteq BlockedKeys(u)
             /\ BlockedKeys(u) \in SUBSET Key
             /\ u \notin Pending => GrantedKeys(t, u) = {}
  <2>1. LockKeys(t) \subseteq Key
    BY LockManagerAssumption DEF LockKeys, Owned
  <2>2. \A k \in Key : Blocked(u, k) <=> WaitsFor(u, k)
    BY BlockedIsWaitsFor DEF BlockedIsWaits
  <2> QED
    BY <1>5, <2>1, <2>2 DEF BlockedKeys, WaitsFor
<1>7. ASSUME NEW u \in Txn
      PROVE  /\ txn_waits_'[u] = txn_waits_[u] - Cardinality(GrantedKeys(t, u))
             /\ txn_waits_'[u] \in Nat
             /\ u \notin Pending => txn_waits_'[u] = txn_waits_[u]
  <2>1. txn_waits_'[u] = txn_waits_[u] - Cardinality(GrantedKeys(t, u))
    BY DEF ReleaseLocks
  <2>2. CASE u \notin Pending
    <3>1. Cardinality(GrantedKeys(t, u)) = 0
      BY <1>6, <2>2, FS_EmptySet
    <3> QED
      BY <2>1, <2>2, <3>1 DEF TypeOK
  <2>3. CASE u \in Pending
    <3>1. txn_waits_[u] = Cardinality(BlockedKeys(u))
      BY <2>3 DEF WaitsMatchTable, Pending
    <3>2. IsFiniteSet(BlockedKeys(u)) /\ Cardinality(BlockedKeys(u)) \in Nat
      BY <1>6, FiniteKeys
    <3>3. GrantedKeys(t, u) \in SUBSET Key
      BY <1>6
    <3>4. Cardinality(GrantedKeys(t, u)) \in Nat
      BY <3>3, FiniteKeys
    <3>5. Cardinality(GrantedKeys(t, u)) <= Cardinality(BlockedKeys(u))
      BY <1>6, <3>2, FS_Subset
    <3> QED
      BY <2>1, <2>3, <3>1, <3>2, <3>4, <3>5
  <2> QED
    BY <2>1, <2>2, <2>3
<1>8. \A u \in NewlyReady(t) : u \in Pending \ {t} /\ u \notin Granted
  <2> SUFFICES ASSUME NEW u \in NewlyReady(t)
               PROVE  u \in Pending \ {t} /\ u \notin Granted
    OBVIOUS
  <2>1. u \in Txn /\ GrantedKeys(t, u) # {}
    BY DEF NewlyReady
  <2>2. u \in Pending /\ BlockedKeys(u) # {}
    BY <1>6, <2>1
  <2>3. u # t
    <3>1. PICK k \in GrantedKeys(t, u) : WaitsFor(u, k) /\ ~ \E v \in Pending \ {t} : v < u /\ Conflict(v, u, k)
      BY <1>5, <2>1
    <3>2. t < u
      BY <3>1 DEF WaitsFor
    <3> QED
      BY <1>p, <2>2, <3>2
  <2> QED
    BY <2>2, <2>3 DEF WaitsMatchTable, Pending
<1>9. /\ ready_txns_' \in Seq(Txn)
      /\ ToSet(ready_txns_') = ToSet(ready_txns_) \cup NewlyReady(t)
      /\ \A i, j \in DOMAIN ready_txns_' : i # j => ready_txns_'[i] # ready_txns_'[j]
  <2> DEFINE N == NewlyReady(t)
             n == Cardinality(N)
  <2>1. PICK s \in Bijection(1..n, N) : ready_txns_' = ready_txns_ \o s
    BY DEF ReleaseLocks, ReadyOrders
  <2>2. N \in SUBSET Txn /\ ready_txns_ \in Seq(Txn)
    BY DEF NewlyReady, TypeOK
  <2>3. n \in Nat
    <3>1. IsFiniteSet(Txn)
      BY LockManagerAssumption, FS_Interval DEF Txn
    <3> QED
      BY <2>2, <3>1, FS_Subset, FS_CardinalityType
  <2>4. ToSet(ready_txns_) \cap N = {}
    BY <1>8 DEF Granted
  <2>5. \A i, j \in DOMAIN ready_txns_ : i # j => ready_txns_[i] # ready_txns_[j]
    BY DEF ReadyOnce
  <2> HIDE DEF N, n
  <2>6. \E c : /\ c = ready_txns_ \o s
               /\ c \in Seq(Txn)
               /\ ToSet(c) = ToSet(ready_txns_) \cup N
               /\ \A i, j \in DOMAIN c : i # j => c[i] # c[j]
    BY <2>2, <2>3, <2>4, <2>5, ReadyQueueExtended
  <2> QED
    BY <2>1, <2>6 DEF N
<1>10. TypeOK'
  <2>1. lock_table_' \in [Key -> Seq(Txn)]
    BY <1>3 DEF ReleaseLocks
  <2>2. txn_waits_' \in [Txn -> Nat]
    BY <1>7 DEF ReleaseLocks
  <2> QED
    BY <1>1, <1>9, <1>p, <2>1, <2>2 DEF ReleaseLocks, TypeOK
<1>11. ReadyOnce'
  <2>1. ToSet(ready_txns_') \cap (executing' \cup finished') = {}
    BY <1>1, <1>8, <1>9 DEF ReadyOnce, Granted, Pending
  <2>2. \A k \in Key : ToSet(lock_table_'[k]) =
                          {u \in Locked' \ finished' : k \in LockKeys(u)'}
    BY <1>3, EntriesFixed DEF Pending
  <2> QED
    BY <1>9, <2>1, <2>2 DEF ReadyOnce
<1>12. Phases'
  <2>1. Granted' = (Granted \ {t}) \cup NewlyReady(t)
    BY <1>8, <1>9 DEF Granted
  <2>2. Granted' \subseteq Pending'
    BY <1>1, <1>8, <2>1 DEF Phases
  <2>3. finished' \subseteq Locked'
    BY <1>1, <1>p DEF Phases
  <2>4. \A u \in Txn \ Locked' : txn_waits_'[u] = 0
    BY <1>1, <1>7, <1>p DEF Phases
  <2> QED
    BY <2>2, <2>3, <2>4 DEF Phases
<1>13. ASSUME NEW u \in Pending'
       PROVE  BlockedKeys(u)' = BlockedKeys(u) \ GrantedKeys(t, u)
  <2>0. BlockedIsWaits /\ BlockedIsWaits'
    BY <1>4, <1>10, <1>11, BlockedIsWaitsFor, PTL
  <2>1. u \in Pending /\ u # t /\ u \in Txn
    BY <1>1, <1>p
  <2>2. ASSUME NEW k \in Key
        PROVE  WaitsFor(u, k)' <=> \E v \in Pending \ {t} : v < u /\ Conflict(v, u, k)
    BY <1>1, <2>1, EntriesFixed DEF WaitsFor
  <2>3. ASSUME NEW k \in Key
        PROVE  WaitsFor(u, k)' <=> (WaitsFor(u, k) /\ k \notin GrantedKeys(t, u))
    <3>1. CASE k \in LockKeys(t)
      BY <1>5, <2>1, <2>2, <3>1 DEF WaitsFor
    <3>2. CASE k \notin LockKeys(t)
      BY <1>5, <2>1, <2>2, <3>2 DEF WaitsFor, Conflict
    <3> QED
      BY <3>1, <3>2
  <2> QED
    BY <2>0, <2>1, <2>3 DEF BlockedKeys, BlockedIsWaits
<1>14. WaitsMatchTable'
  <2> SUFFICES ASSUME NEW u \in Pending'
               PROVE  /\ txn_waits_'[u] = Cardinality(BlockedKeys(u)')
                      /\ (u \in Granted') <=> (BlockedKeys(u)' = {})
    BY DEF WaitsMatchTable, Pending
  <2> DEFINE B == BlockedKeys(u)
             G == GrantedKeys(t, u)
  <2>1. u \in Pending /\ u # t /\ u \in Txn
    BY <1>1, <1>p
  <2>2. /\ G \subseteq B /\ BlockedKeys(u)' = B \ G
        /\ txn_waits_[u] = Cardinality(B) /\ (u \in Granted <=> B = {})
        /\ txn_waits_'[u] = txn_waits_[u] - Cardinality(G)
    BY <1>6, <1>7, <1>13, <2>1 DEF WaitsMatchTable, Pending
  <2>3. u \in NewlyReady(t) <=> (G # {} /\ Cardinality(B) \in 1..Cardinality(G))
    BY <2>1, <2>2 DEF NewlyReady
  <2>4. u \in Granted' <=> (u \in Granted \/ u \in NewlyReady(t))
    BY <1>9, <2>1 DEF Granted
  <2>5. B \in SUBSET Key /\ G \in SUBSET Key
    BY <1>6, <2>1
  <2> HIDE DEF B, G
  <2>6. /\ IsFiniteSet(B) /\ IsFiniteSet(G)
        /\ Cardinality(B) \in Nat /\ Cardinality(G) \in Nat
    BY <2>5, FiniteKeys
  <2>7. Cardinality(B \ G) = Cardinality(B) - Cardinality(G)
    <3>1. (B \ G) \cup G = B /\ (B \ G) \cap G = {} /\ B \ G \in SUBSET Key
      BY <2>2, <2>5
    <3>2. IsFiniteSet(B \ G) /\ Cardinality(B \ G) \in Nat
      BY <3>1, FiniteKeys
    <3>3. Cardinality((B \ G) \cup G) =
            Cardinality(B \ G) + Cardinality(G) - Cardinality((B \ G) \cap G)
      BY <2>6, <3>2, FS_Union
    <3>4. Cardinality((B \ G) \cap G) = 0
      BY <3>1, FS_EmptySet
    <3>5. Cardinality((B \ G) \cup G) = Cardinality(B)
      BY <3>1
    <3> QED
      BY <2>6, <3>2, <3>3, <3>4, <3>5
  <2>8. Cardinality(G) = 0 <=> G = {}
    BY <2>6, FS_EmptySet
  <2>9. Cardinality(B \ G) = 0 <=> B \ G = {}
    <3>1. IsFiniteSet(B \ G)
      BY <2>6, FS_Subset
    <3> QED
      BY <3>1, FS_EmptySet
  <2>10. Cardinality(G) <= Cardinality(B)
    BY <2>2, <2>6, FS_Subset
  <2>11. u \in NewlyReady(t) <=> (G # {} /\ B \ G = {})
    BY <2>3, <2>6, <2>7, <2>8, <2>9, <2>10
  <2> QED
    BY <2>2, <2>4, <2>7, <2>11
<1> QED
  BY <1>4, <1>10, <1>11, <1>12, <1>14

LEMMA DispatchStep ==
    ASSUME IInv, Dispatch, [Next]_vars
    PROVE  IInv'
<1> USE DEF IInv
<1> DEFINE r == ready_txns_
           h == Head(ready_txns_)
<1>1. /\ r \in Seq(Txn) /\ r # <<>> /\ ready_txns_' = Tail(r)
      /\ executing' = executing \cup {h}
      /\ UNCHANGED <<entries, lock_table_, txn_waits_, finished, calls>>
      /\ \A i, j \in DOMAIN r : i # j => r[i] # r[j]
  BY DEF Dispatch, TypeOK, ReadyOnce
<1>2. /\ Len(r) \in Nat /\ Len(r) >= 1 /\ DOMAIN r = 1..Len(r) /\ h = r[1]
      /\ Tail(r) \in Seq(Txn) /\ DOMAIN Tail(r) = 1..(Len(r) - 1)
      /\ \A i \in 1..(Len(r) - 1) : Tail(r)[i] = r[i + 1] /\ i + 1 \in 1..Len(r)
  BY <1>1
<1> HIDE DEF r, h
<1>3. \A i, j \in DOMAIN Tail(r) : i # j => Tail(r)[i] # Tail(r)[j]
  BY <1>1, <1>2
<1>4. ToSet(Tail(r)) = ToSet(r) \ {h} /\ h \in ToSet(r)
  <2>1. \A x \in ToSet(Tail(r)) : x \in ToSet(r) /\ x # h
    BY <1>1, <1>2 DEF ToSet
  <2>2. ASSUME NEW x \in ToSet(r), x # h PROVE x \in ToSet(Tail(r))
    <3>1. PICK i \in 1..Len(r) : x = r[i]
      BY <1>2 DEF ToSet
    <3>2. i # 1
      BY <1>2, <2>2, <3>1
    <3>3. i - 1 \in DOMAIN Tail(r) /\ Tail(r)[i - 1] = x
      BY <1>2, <3>1, <3>2
    <3> QED
      BY <3>3 DEF ToSet
  <2>3. h \in ToSet(r)
    BY <1>2 DEF ToSet
  <2> QED
    BY <2>1, <2>2, <2>3
<1>5. Locked' = Locked /\ Pending' = Pending /\ Granted' = Granted
  BY <1>1, <1>4 DEF Locked, Pending, Granted, r
<1>6. h \in Txn
  BY <1>1, <1>2
<1>7. TypeOK'
  BY <1>1, <1>2, <1>6 DEF TypeOK
<1>8. TableOrdered' /\ Phases'
  BY <1>1, <1>5 DEF TableOrdered, Phases
<1>9. ReadyOnce'
  <2>1. ToSet(ready_txns_') \cap (executing' \cup finished') = {}
    BY <1>1, <1>4 DEF ReadyOnce, r
  <2>2. \A k \in Key : ToSet(lock_table_'[k]) =
                          {u \in Locked' \ finished' : k \in LockKeys(u)'}
    BY <1>1, <1>5, EntriesFixed DEF ReadyOnce, Pending
  <2> QED
    BY <1>1, <1>3, <2>1, <2>2 DEF ReadyOnce
<1>10. WaitsMatchTable'
  <2>1. ASSUME NEW u PROVE BlockedKeys(u)' = BlockedKeys(u)
    BY <1>1, EntriesFixed DEF BlockedKeys, Blocked
  <2> QED
    BY <1>1, <1>5, <2>1 DEF WaitsMatchTable
<1> QED
  BY <1>7, <1>8, <1>9, <1>10

\* The invariant is inductive: each of the four operations preserves it.
LEMMA NextInv == IInv /\ [Next]_vars => IInv'
<1> SUFFICES ASSUME IInv, [Next]_vars PROVE IInv'
  OBVIOUS
<1>1. CASE UNCHANGED vars
  <2>1. /\ Locked' = Locked /\ Pending' = Pending /\ Granted' = Granted
        /\ UNCHANGED <<entries, lock_table_, txn_waits_, ready_txns_, executing,
                        finished, calls>>
    BY <1>1 DEF vars, Locked, Pending, Granted
  <2>2. TypeOK' /\ TableOrdered' /\ Phases'
    BY <2>1 DEF IInv, TypeOK, TableOrdered, Phases
  <2>3. ReadyOnce'
    BY <2>1, EntriesFixed DEF IInv, ReadyOnce
  <2>4. \A u : BlockedKeys(u)' = BlockedKeys(u)
    BY <2>1, EntriesFixed DEF BlockedKeys, Blocked
  <2>5. WaitsMatchTable'
    BY <2>1, <2>4 DEF IInv, WaitsMatchTable
  <2> QED
    BY <2>2, <2>3, <2>5 DEF IInv
<1>2. ASSUME NEW t \in Txn, Lock(t) PROVE IInv'
  BY <1>2, LockStep
<1>3. ASSUME NEW t \in Txn, Release(t) PROVE IInv'
  <2>1. t \in Pending /\ t \notin ToSet(ready_txns_)
    BY <1>3 DEF Release, IInv, Phases, ReadyOnce, Granted
  <2> QED
    BY <1>3, <2>1, ReleaseStep DEF Release
<1>4. ASSUME NEW t \in Txn, Cancel(t) PROVE IInv'
  <2>1. t \in Pending /\ txn_waits_[t] > 0 /\ ReleaseLocks(t) /\ executing' = executing
    BY <1>4 DEF Cancel, Pending
  <2>2. BlockedKeys(t) # {}
    BY <2>1, FS_EmptySet DEF IInv, WaitsMatchTable, Pending
  <2>3. t \notin Granted
    BY <2>1, <2>2 DEF IInv, WaitsMatchTable, Pending
  <2>4. t \notin ToSet(ready_txns_) /\ executing' = executing \ {t}
    BY <2>1, <2>3 DEF Granted
  <2> QED
    BY <2>1, <2>4, ReleaseStep
<1>5. CASE Dispatch
  BY <1>5, DispatchStep
<1> QED
  BY <1>1, <1>2, <1>3, <1>4, <1>5 DEF Next

-----------------------------------------------------------------------------
(* The theorems. *)

\* The inductive invariant holds in every reachable state.
THEOREM Invariance == Spec => []IInv
<1>1. Init => IInv
  BY InitInv
<1>2. IInv /\ [Next]_vars => IInv'
  BY NextInv
<1> QED
  BY <1>1, <1>2, PTL DEF Spec

\* Every variable keeps its type; in particular no counter of txn_waits_ ever drops
\* below zero.
THEOREM TypeCorrect == Spec => []TypeOK
BY Invariance, PTL DEF IInv

\* txn_waits_ agrees with the lock table, whatever the order of the calls.
THEOREM WaitsCorrect == Spec => []WaitsMatchTable
BY Invariance, PTL DEF IInv

\* No transaction is made ready twice.
THEOREM ReadyOnceCorrect == Spec => []ReadyOnce
BY Invariance, PTL DEF IInv

\* A granted transaction has no earlier conflicting transaction left.
LEMMA GrantedIsFirst ==
    ASSUME IInv, NEW u \in Granted, NEW t \in Locked, t < u,
           NEW k \in Key, Conflict(t, u, k)
    PROVE  t \in finished
<1>1. u \in Pending /\ u \in Txn
  BY PendingInTxn DEF IInv, Phases
<1>2. ~ Blocked(u, k)
  BY <1>1 DEF IInv, WaitsMatchTable, BlockedKeys, Pending
<1>3. ~ WaitsFor(u, k)
  BY <1>1, <1>2, BlockedIsWaitsFor DEF IInv, BlockedIsWaits
<1> QED
  BY <1>1, <1>3 DEF WaitsFor, Pending

\* Conflicting transactions are granted in the order of the Lock() calls.
THEOREM LockOrderCorrect == Spec => []LockOrderIsExecutionOrder
<1>1. IInv => LockOrderIsExecutionOrder
  BY GrantedIsFirst DEF LockOrderIsExecutionOrder
<1> QED
  BY <1>1, Invariance, PTL

\* Two conflicting transactions are never granted at once.
THEOREM MutualExclusionCorrect == Spec => []MutualExclusion
<1>1. ASSUME IInv, NEW t \in Granted, NEW u \in Granted, NEW k \in Key, t # u
      PROVE  ~ Conflict(t, u, k)
  <2>1. /\ t \in Pending /\ u \in Pending /\ t \in Nat /\ u \in Nat
        /\ t \in Locked /\ u \in Locked /\ t \notin finished /\ u \notin finished
    BY <1>1, PendingInTxn DEF IInv, Phases, Pending
  <2>2. Conflict(t, u, k) <=> Conflict(u, t, k)
    BY DEF Conflict
  <2>3. t < u \/ u < t
    BY <1>1, <2>1
  <2> QED
    BY <1>1, <2>1, <2>2, <2>3, GrantedIsFirst
<1>2. IInv => MutualExclusion
  BY <1>1 DEF MutualExclusion
<1> QED
  BY <1>2, Invariance, PTL

\* The lock manager implements the abstract ordered execution: every step is a step
\* of ConflictOrder or leaves its variables alone.
THEOREM Implements == Spec => Abstract!Spec
<1>1. Init => Abstract!Init
  BY DEF Init, Abstract!Init, Conflicting, Txn, Abstract!Txn
<1>2. ASSUME IInv, [Next]_vars
      PROVE  [Abstract!Next]_(Abstract!vars)
  <2> USE DEF Abstract!Next, Abstract!vars, Abstract!Txn, Txn
  <2>0. Conflicting' = Conflicting
    BY <1>2, EntriesFixed DEF Conflicting
  <2>1. ASSUME NEW t \in Txn, Lock(t) PROVE Abstract!Request(t)
    BY <2>0, <2>1 DEF Lock, Abstract!Request
  <2>2. ASSUME NEW t \in Txn, Release(t) PROVE Abstract!Finish(t)
    BY <2>0, <2>2 DEF Release, ReleaseLocks, Abstract!Finish
  <2>3. ASSUME NEW t \in Txn, Cancel(t) PROVE Abstract!Withdraw(t)
    <3>1. t \notin Granted
      <4>1. BlockedKeys(t) # {}
        BY <1>2, <2>3, FS_EmptySet DEF Cancel, IInv, WaitsMatchTable
      <4> QED
        BY <1>2, <2>3, <4>1 DEF Cancel, IInv, WaitsMatchTable
    <3> QED
      BY <2>0, <2>3, <3>1 DEF Cancel, ReleaseLocks, Abstract!Withdraw, Granted, Locked,
                              Abstract!Requested
  <2>4. ASSUME Dispatch
        PROVE  \E t \in Txn : Abstract!Start(t)
    <3> DEFINE h == Head(ready_txns_)
    <3>1. h \in ToSet(ready_txns_) /\ h \in Txn
      <4>1. ready_txns_ \in Seq(Txn) /\ ready_txns_ # <<>>
        BY <1>2, <2>4 DEF Dispatch, IInv, TypeOK
      <4> QED
        BY <4>1, HeadElement
    <3>2. h \in Granted /\ h \in Pending
      BY <1>2, <3>1 DEF Granted, IInv, Phases
    <3>3. h \in Locked \ (executing \cup finished)
      BY <1>2, <3>1, <3>2 DEF IInv, ReadyOnce, Pending
    <3>4. Abstract!Predecessors(h) \subseteq finished
      <4> SUFFICES ASSUME NEW t \in Locked, t < h, <<t, h>> \in Conflicting
                   PROVE  t \in finished
        BY DEF Abstract!Predecessors, Abstract!Requested, Locked
      <4>1. PICK k \in Key : Conflict(t, h, k)
        BY DEF Conflicting
      <4> QED
        BY <1>2, <3>2, <4>1, GrantedIsFirst
    <3>5. Abstract!Start(h)
      BY <2>0, <2>4, <3>3, <3>4 DEF Dispatch, Abstract!Start, Abstract!Requested, Locked
    <3> QED
      BY <3>1, <3>5
  <2>5. CASE UNCHANGED vars
    BY <2>0, <2>5 DEF vars
  <2> QED
    BY <1>2, <2>1, <2>2, <2>3, <2>4, <2>5 DEF Next
<1> QED
  BY <1>1, <1>2, Invariance, PTL DEF Spec, Abstract!Spec
=============================================================================
