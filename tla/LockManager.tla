----------------------------- MODULE LockManager -----------------------------
(***************************************************************************)
(* The lock manager of one machine (DeterministicLockManager) as its only  *)
(* caller, the lock-manager thread of DeterministicScheduler, drives it:   *)
(* Lock() once per transaction in the order the batches prescribe, ready   *)
(* transactions handed to the worker threads, Release() when a worker puts *)
(* a transaction on the done queue.                                        *)
(*                                                                         *)
(* Names with a trailing underscore are the source's fields.               *)
(***************************************************************************)
EXTENDS Integers, Sequences, FiniteSets, SequencesExt

CONSTANTS
    NumTxns,    \* how many transactions this machine takes from its batches
    Key,        \* the record keys they name
    Replica,    \* the replica ids
    Mode,       \* mode_: 0 original Calvin, 1 low latency, 2 with remastering
    LocalKeys,  \* the keys of this machine's partition (IsLocal)
    Origin,     \* Origin[t]: t's origin_replica
    Master      \* Master[t][k]: the master field of t's entry for k

\* Transactions are numbered in the order in which the batches bring them.
Txn == 1..NumTxns

ASSUME LockManagerAssumption ==
    /\ NumTxns \in Nat
    /\ IsFiniteSet(Key)     \* a transaction has finitely many entries
    /\ LocalKeys \subseteq Key
    /\ Mode \in 0..2
    /\ Origin \in [Txn -> Replica]
    /\ Master \in [Txn -> [Key -> Replica]]

VARIABLES
    entries,      \* each transaction's read_set and read_write_set (never changes)
    lock_table_,  \* per key, the queue of requests, oldest first
    txn_waits_,   \* requests a transaction still waits for; 0 stands for no entry
    ready_txns_,  \* transactions whose every request is granted, to be dispatched
    executing,    \* handed to the workers and not released yet
    finished,     \* Release() was called
    calls         \* history: Lock() was called for the transactions 1..calls

vars == <<entries, lock_table_, txn_waits_, ready_txns_, executing, finished,
          calls>>

-----------------------------------------------------------------------------
(* The requests of a transaction. *)

\* LockManager requires the two sets of a transaction to be disjoint.
EntrySets == {e \in [read : SUBSET Key, read_write : SUBSET Key] :
                e.read \cap e.read_write = {}}

\* The keys Lock() and Release() do not skip.
Owned(t) == {k \in LocalKeys : Mode # 0 => Master[t][k] = Origin[t]}

WriteKeys(t) == entries[t].read_write \cap Owned(t)
LockKeys(t)  == (entries[t].read \cup entries[t].read_write) \cap Owned(t)

Writes(t, k) == k \in WriteKeys(t)

\* Requests of t and u for k cannot both be granted.
Conflict(t, u, k) == /\ k \in LockKeys(t) \cap LockKeys(u)
                     /\ Writes(t, k) \/ Writes(u, k)

Conflicting == {p \in Txn \X Txn :
                  /\ p[1] # p[2]
                  /\ \E k \in Key : Conflict(p[1], p[2], k)}

Locked == 1..calls

\* A write request waits for every earlier request, a read request for every
\* earlier write request.
Blocked(t, k) == \E i, j \in DOMAIN lock_table_[k] :
                    /\ j < i
                    /\ lock_table_[k][i] = t
                    /\ Conflict(lock_table_[k][j], t, k)

BlockedKeys(t) == {k \in Key : Blocked(t, k)}

-----------------------------------------------------------------------------
(* Lock(txn). *)

\* Mistake: a read request looks only at the request right in front of it.
BadNotAcquired(t) ==
    {k \in LockKeys(t) : LET q == lock_table_[k]
                         IN  q # <<>> /\ (Writes(t, k) \/ Writes(q[Len(q)], k))}

\* The keys on which a new request of t is not granted: for a write any earlier
\* request, for a read an earlier write request.
NotAcquired(t) ==
    {k \in LockKeys(t) :
        \E i \in DOMAIN lock_table_[k] :
            Writes(t, k) \/ Writes(lock_table_[k][i], k)}

Lock(t) ==
    /\ t = calls + 1
    /\ lock_table_' = [k \in Key |-> IF k \in LockKeys(t)
                                     THEN Append(lock_table_[k], t)
                                     ELSE lock_table_[k]]
    /\ IF NotAcquired(t) # {}
       THEN /\ txn_waits_' = [txn_waits_ EXCEPT ![t] = Cardinality(NotAcquired(t))]
            /\ UNCHANGED ready_txns_
       ELSE /\ ready_txns_' = Append(ready_txns_, t)
            /\ UNCHANGED txn_waits_
    /\ calls' = calls + 1
    /\ UNCHANGED <<entries, executing, finished>>

-----------------------------------------------------------------------------
(* Release(txn), which calls Release(key, txn) for each of its entries. *)

Position(t, k) == CHOOSE i \in DOMAIN lock_table_[k] : lock_table_[k][i] = t

\* Mistake: only the first of the waiting readers is granted.
BadReadersBehind(k, i) == {j \in {i + 1} : j <= Len(lock_table_[k])}

\* The unbroken run of read requests right behind position i.
ReadersBehind(k, i) ==
    {j \in (i + 1)..Len(lock_table_[k]) :
        \A m \in (i + 1)..j : ~ Writes(lock_table_[k][m], k)}

\* Mistake: the request behind the released one is granted wherever it stands.
BadEagerNewOwners(t, k) ==
    LET q == lock_table_[k]
        i == Position(t, k)
    IN  IF i < Len(q) THEN {q[i + 1]} ELSE {}

\* Mistake: a read lock held alone is released without inheritance (no rule (b)).
BadStuckNewOwners(t, k) ==
    LET q == lock_table_[k]
        i == Position(t, k)
    IN  IF i = 1 /\ Writes(t, k) THEN {q[j] : j \in {2} \cap DOMAIN q} ELSE {}

\* Mistake: rule (c) ignores a write request in front of the withdrawn one.
BadGapNewOwners(t, k) ==
    LET q == lock_table_[k]
        i == Position(t, k)
    IN  IF i < Len(q) /\ Writes(t, k)
        THEN IF Writes(q[i + 1], k)
             THEN IF i = 1 THEN {q[2]} ELSE {}
             ELSE {q[j] : j \in ReadersBehind(k, i)}
        ELSE IF i = 1 /\ Len(q) > 1 /\ Writes(q[2], k) THEN {q[2]} ELSE {}

\* new_owners of Release(k, t): the requests behind t's that its removal grants.
NewOwners(t, k) ==
    LET q == lock_table_[k]
        i == Position(t, k)
        \* (a) t held a write lock or (b) held a read lock alone
        headGoes == i = 1 /\ (Writes(t, k) \/ Writes(q[i + 1], k))
        \* (c) a waiting write request between readers
        gapCloses == /\ \A j \in 1..(i - 1) : ~ Writes(q[j], k)
                     /\ Writes(t, k)
    IN  CASE i = Len(q)                         -> {}
          [] i < Len(q) /\ Writes(q[i + 1], k)  -> IF headGoes THEN {q[i + 1]} ELSE {}
          [] OTHER -> IF headGoes \/ gapCloses
                      THEN {q[j] : j \in ReadersBehind(k, i)}
                      ELSE {}

\* The keys whose release by t grants a request of u.
GrantedKeys(t, u) == {k \in LockKeys(t) : u \in NewOwners(t, k)}

\* Mistake: a transaction is ready as soon as any of its requests is granted.
BadNewlyReady(t) == {u \in Txn : GrantedKeys(t, u) # {}}

\* The transactions whose last outstanding request t's release grants.
NewlyReady(t) == {u \in Txn : /\ GrantedKeys(t, u) # {}
                              /\ txn_waits_[u] \in 1..Cardinality(GrantedKeys(t, u))}

\* Their order on ready_txns_ follows the order of t's entries, which is left open.
ReadyOrders(S) == Bijection(1..Cardinality(S), S)

ReleaseLocks(t) ==
    /\ lock_table_' = [k \in Key |-> IF k \in LockKeys(t)
                                     THEN RemoveAt(lock_table_[k], Position(t, k))
                                     ELSE lock_table_[k]]
    /\ txn_waits_' = [u \in Txn |-> txn_waits_[u] - Cardinality(GrantedKeys(t, u))]
    /\ \E s \in ReadyOrders(NewlyReady(t)) : ready_txns_' = ready_txns_ \o s
    /\ finished' = finished \cup {t}
    /\ UNCHANGED <<entries, calls>>

\* The scheduler releases a transaction its worker is done with.
Release(t) ==
    /\ t \in executing
    /\ ReleaseLocks(t)
    /\ executing' = executing \ {t}

\* The interface also lets a caller withdraw a transaction that is still waiting
\* (case (c) exists for it); the scheduler in this tree never does.
Cancel(t) ==
    /\ t \in Locked \ finished
    /\ txn_waits_[t] > 0
    /\ ReleaseLocks(t)
    /\ UNCHANGED executing

-----------------------------------------------------------------------------
(* The scheduler hands the ready transactions to the workers. *)

Dispatch ==
    /\ ready_txns_ # <<>>
    /\ executing' = executing \cup {Head(ready_txns_)}
    /\ ready_txns_' = Tail(ready_txns_)
    /\ UNCHANGED <<entries, lock_table_, txn_waits_, finished, calls>>

-----------------------------------------------------------------------------

Init ==
    /\ entries \in [Txn -> EntrySets]
    /\ lock_table_ = [k \in Key |-> <<>>]
    /\ txn_waits_ = [t \in Txn |-> 0]
    /\ ready_txns_ = <<>>
    /\ executing = {}
    /\ finished = {}
    /\ calls = 0

Next ==
    \/ \E t \in Txn : Lock(t) \/ Release(t) \/ Cancel(t)
    \/ Dispatch

Spec == Init /\ [][Next]_vars

\* The lock-manager thread loops for ever and empties ready_txns_ in every round;
\* the workers eventually finish what they execute.
Fairness == WF_vars(Dispatch) /\ \A t \in Txn : WF_vars(Release(t))

FairSpec == Spec /\ Fairness
-----------------------------------------------------------------------------
(* Properties. *)

Granted == ToSet(ready_txns_) \cup executing

\* Every variable has its type.
TypeOK ==
    /\ entries \in [Txn -> EntrySets]
    /\ lock_table_ \in [Key -> Seq(Txn)]
    /\ txn_waits_ \in [Txn -> Nat]
    /\ ready_txns_ \in Seq(Txn)
    /\ executing \subseteq Txn
    /\ finished \subseteq Txn
    /\ calls \in 0..NumTxns

\* Two transactions that are ready or executing at the same time never conflict on
\* a key: the grants of Lock() and the inheritance rules of Release() add up to
\* mutual exclusion.
MutualExclusion ==
    \A t, u \in Granted : \A k \in Key : t # u => ~ Conflict(t, u, k)

\* Of two conflicting transactions the one locked later becomes ready only after
\* the earlier was released: the execution order is that of the Lock() calls.
LockOrderIsExecutionOrder ==
    \A t, u \in Locked :
        /\ t < u
        /\ \E k \in Key : Conflict(t, u, k)
        /\ u \in Granted
        => t \in finished

\* txn_waits_, kept up to date one grant at a time, is the number of requests that
\* the lock table really blocks: a transaction is granted exactly when it is 0.
WaitsMatchTable ==
    \A t \in Locked \ finished :
        /\ txn_waits_[t] = Cardinality(BlockedKeys(t))
        /\ (t \in Granted) <=> (BlockedKeys(t) = {})

\* No transaction is put on ready_txns_ twice, nor while it executes or after it
\* was released, and the table holds no request of one that was released.
ReadyOnce ==
    /\ \A i, j \in DOMAIN ready_txns_ : i # j => ready_txns_[i] # ready_txns_[j]
    /\ ToSet(ready_txns_) \cap (executing \cup finished) = {}
    /\ \A k \in Key : ToSet(lock_table_[k]) = {t \in Locked \ finished : k \in LockKeys(t)}

\* Ordered locking cannot deadlock, and no grant is forgotten: every locked transaction
\* is eventually released (or withdrawn).
EveryTxnFinishes == \A t \in Txn : (t \in Locked) ~> (t \in finished)

\* The lock manager implements ConflictOrder: a transaction starts when it is
\* dispatched.
Abstract == INSTANCE ConflictOrder
    WITH conflicting <- Conflicting, running <- executing, over <- finished

ImplementsConflictOrder == Abstract!FairSpec
=============================================================================
