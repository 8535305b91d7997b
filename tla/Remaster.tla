------------------------------- MODULE Remaster -------------------------------
(***************************************************************************)
(* Mode 2, low latency with remastering: a record has a master replica,    *)
(* whose log orders the transactions on it, and a remaster transaction     *)
(* moves it to another replica and increments its counter.  The lock-      *)
(* manager thread of every replica lets a transaction wait for the         *)
(* remasters its counters presuppose (VerifyStorageCounters, the queues    *)
(* blocking_txns_), and a worker aborts one that comes too late            *)
(* (CheckCommitOrAbort), which is then sent again.                         *)
(*                                                                         *)
(* Replicas have one machine each.  Only transactions whose records have   *)
(* one master when their counters are read are modelled: those with more   *)
(* masters are split into one transaction per master.                      *)
(***************************************************************************)
EXTENDS Integers, Sequences, FiniteSets, SequencesExt

CONSTANTS
    Replica,
    Key,
    Requests,        \* bound, Requests[n]: what clients may ask for as the n-th of these
                     \* transactions: the client's replica and the keys
    InitialMaster,   \* InitialMaster[k]: the replica k belongs to at first
    MaxTxns,         \* bound: transactions of the clients, repeated ones included
    MaxRemasters     \* bound: remaster transactions

ASSUME RemasterAssumption ==
    /\ Requests \in [1..MaxTxns -> SUBSET (Replica \X ((SUBSET Key) \ {{}}))]
    /\ InitialMaster \in [Key -> Replica]
    /\ MaxTxns \in Nat
    /\ MaxRemasters \in Nat

VARIABLES
    txns,        \* the transactions made so far; one is named by its place here
    pending,     \* those on their way to the log of their origin
    order,       \* order[s]: the order that the log gives to the scheduler of s
    taken,       \* taken[s]: how many of them s's lock-manager thread has taken
    storage_,    \* storage_[s][k]: the mastership of k as s knows it
    waits,       \* waits[s][t]: waiting_txns_by_txnid_, and by key waiting_txns_by_key_
    blocking_txns_,   \* per origin, oldest first
    locks,       \* locks[s]: the transactions whose requests are in the lock table
    state,       \* state[s][t]: where t is on s
    status,      \* status[s][t]: its status field there
    committed    \* history, committed[s][k]: the transactions on k that committed on s

schedulerVars == <<taken, waits, blocking_txns_, locks>>
workerVars    == <<txns, pending, storage_, committed>>
vars == <<workerVars, order, schedulerVars, state, status>>

Id  == 1..(MaxTxns + MaxRemasters)
Txn == 1..Len(txns)

Remasters == {t \in Txn : txns[t].remaster}

\* A transaction has its keys, with the counter of each (0 for the other keys); origin,
\* which is the master of all its keys; remaster, from and to, which are the replica of
\* its client if it is no remaster transaction; and request, the transaction that it
\* repeats or is.

Conflict(t, u) == txns[t].keys \cap txns[u].keys # {}

\* A worker of s may execute t: its locks are granted, or it needs none.
Executing(s, t) ==
    \/ state[s][t] = "unlocked"
    \/ /\ state[s][t] = "locked"
       /\ \A i, j \in DOMAIN locks[s] :
             i < j /\ locks[s][j] = t => ~ Conflict(locks[s][i], t)


\* local_commit_: mastership is what t was ordered for.
LocalCommit(s, t) ==
    \A k \in txns[t].keys : /\ storage_[s][k].master = txns[t].origin
                            /\ storage_[s][k].counter = txns[t].counter[k]

\* A worker of s may execute t up to its commit.
Committing(s, t) == Executing(s, t) /\ status[s][t] = "NEW" /\ LocalCommit(s, t)

-----------------------------------------------------------------------------
(* The sequencers and the log. *)

\* What s's storage says about k.  It is read without a lock, master before counter,
\* and a worker may be writing the two meanwhile.
Lookups(s, k) ==
    LET now  == storage_[s][k]
        next == {txns[d].to : d \in {x \in Remasters : Committing(s, x) /\ k \in txns[x].keys}}
    IN  {[master |-> now.master, counter |-> now.counter]}
        \cup {[master |-> m, counter |-> now.counter] : m \in next}
        \cup {[master |-> now.master, counter |-> now.counter + 1] : m \in next}

\* The ways in which the masters and counters of K may be found on s.
Found(s, K) == {f \in [K -> UNION {Lookups(s, k) : k \in K}] : \A k \in K : f[k] \in Lookups(s, k)}

OneMaster(found) == \A k, l \in DOMAIN found : found[k].master = found[l].master

\* The transaction t on other masters and counters.
Ordered(t, found) ==
    [t EXCEPT !.origin  = found[CHOOSE k \in t.keys : TRUE].master,
              !.counter = [k \in Key |-> IF k \in t.keys THEN found[k].counter ELSE 0]]

\* A transaction on K with the masters and counters that were found.
NewTxn(K, found, remaster, from, to) ==
    Ordered([keys |-> K, counter |-> 0, origin |-> 0, remaster |-> remaster, from |-> from,
             to |-> to, request |-> Len(txns) + 1], found)

\* A transaction gets on its way to the log.
Send(txn) == /\ txns' = Append(txns, txn)
             /\ pending' = pending \cup {Len(txns) + 1}

\* The transactions so far without the remasters.
Made == Len(txns) - Cardinality(Remasters)

\* A client of replica c.
Submit(c, K) ==
    /\ Made < MaxTxns
    /\ <<c, K>> \in Requests[Made + 1]
    /\ \E found \in Found(c, K) : OneMaster(found) /\ Send(NewTxn(K, found, FALSE, c, c))
    /\ UNCHANGED <<order, storage_, committed, schedulerVars, state, status>>

\* The local log of t's origin orders it, and thereby that replica's global log.
OrderLocal(t) ==
    /\ t \in pending
    /\ pending' = pending \ {t}
    /\ order' = [order EXCEPT ![txns[t].origin] = Append(@, t)]
    /\ UNCHANGED <<txns, storage_, committed, schedulerVars, state, status>>

\* The order of r's log on r's own transactions.
LocalOrder(r) == SelectSeq(order[r], LAMBDA t : txns[t].origin = r)

\* Another replica takes over the local order of r, see OneOrderPerHome of GeoLog.
OrderRemote(s, r) ==
    LET n == Len(SelectSeq(order[s], LAMBDA t : txns[t].origin = r))
    IN  /\ r # s
        /\ n < Len(LocalOrder(r))
        /\ order' = [order EXCEPT ![s] = Append(@, LocalOrder(r)[n + 1])]
        /\ UNCHANGED <<workerVars, schedulerVars, state, status>>

-----------------------------------------------------------------------------
(* RunLockManagerThread(): the next transaction of a batch. *)

\* VerifyStorageCounters: the remasters that t has to wait for, and whether it comes
\* too late on some key.
Ahead(s, t) == {<<k, txns[t].counter[k]>> :
                  k \in {x \in txns[t].keys : txns[t].counter[x] > storage_[s][x].counter}}

Behind(s, t) == \E k \in txns[t].keys : txns[t].counter[k] < storage_[s][k].counter

SetStatus(s, t, st) == status' = [status EXCEPT ![s][t] = st]
SetState(s, t, st)  == state' = [state EXCEPT ![s][t] = st]

\* Remaster transactions are locked without further ado.
TakeRemaster(s, t) ==
    /\ txns[t].remaster
    /\ locks' = [locks EXCEPT ![s] = Append(@, t)]
    /\ SetState(s, t, "locked")
    /\ UNCHANGED <<waits, blocking_txns_, status>>

\* t waits for remasters; that it also comes too late is noted.
TakeWaiting(s, t) ==
    /\ ~ txns[t].remaster
    /\ Ahead(s, t) # {}
    /\ waits' = [waits EXCEPT ![s][t] = Ahead(s, t)]
    /\ blocking_txns_' = [blocking_txns_ EXCEPT ![s][txns[t].origin] = Append(@, t)]
    /\ SetState(s, t, "blocked")
    /\ SetStatus(s, t, IF Behind(s, t) THEN "ABORTED_WITHOUT_LOCK" ELSE "NEW")
    /\ UNCHANGED locks

\* t comes too late; it goes to the workers without locks.
TakeLate(s, t) ==
    /\ ~ txns[t].remaster
    /\ Ahead(s, t) = {}
    /\ Behind(s, t)
    /\ SetState(s, t, "unlocked")
    /\ SetStatus(s, t, "ABORTED_WITHOUT_LOCK")
    /\ UNCHANGED <<waits, blocking_txns_, locks>>

\* t is locked, unless an earlier transaction of its origin waits.
TakeCurrent(s, t) ==
    LET queue == blocking_txns_[s][txns[t].origin]
    IN  /\ ~ txns[t].remaster
        /\ Ahead(s, t) = {}
        /\ ~ Behind(s, t)
        /\ IF queue # <<>>
           THEN /\ blocking_txns_' = [blocking_txns_ EXCEPT ![s][txns[t].origin] = Append(@, t)]
                /\ SetState(s, t, "blocked")
                /\ UNCHANGED locks
           ELSE /\ locks' = [locks EXCEPT ![s] = Append(@, t)]
                /\ SetState(s, t, "locked")
                /\ UNCHANGED blocking_txns_
        /\ UNCHANGED <<waits, status>>

Take(s) ==
    /\ taken[s] < Len(order[s])
    /\ taken' = [taken EXCEPT ![s] = @ + 1]
    /\ LET t == order[s][taken[s] + 1]
       IN  TakeRemaster(s, t) \/ TakeWaiting(s, t) \/ TakeLate(s, t) \/ TakeCurrent(s, t)
    /\ UNCHANGED <<workerVars, order>>

-----------------------------------------------------------------------------
(* RunLockManagerThread(): the done queue. *)


\* The counter that the remaster d sets.
Awaited(d) == {<<k, txns[d].counter[k] + 1>> : k \in txns[d].keys}

\* How many transactions at the head of a queue wait for no remaster any more.
Runnable(queue, w) ==
    Cardinality({i \in DOMAIN queue : \A j \in 1..i : w[queue[j]] = {}})

\* Mistake: only the transaction at the head of the queue is woken up.
BadWake(d, acc, a) ==
    LET r == txns[a].origin
        w == [acc.waits EXCEPT ![a] = @ \ Awaited(d)]
        q == acc.blocking[r]
        n == IF w[a] = {} /\ Head(q) = a THEN 1 ELSE 0
    IN  [waits    |-> w,
         blocking |-> [acc.blocking EXCEPT ![r] = SubSeq(q, n + 1, Len(q))],
         ready    |-> acc.ready \o SubSeq(q, 1, n)]

\* The end of d wakes up a, and if a is the head of its queue, those behind it too.
Wake(d, acc, a) ==
    LET r == txns[a].origin
        w == [acc.waits EXCEPT ![a] = @ \ Awaited(d)]
        q == acc.blocking[r]
        n == IF w[a] = {} /\ q # <<>> /\ Head(q) = a THEN Runnable(q, w) ELSE 0
    IN  [waits    |-> w,
         blocking |-> [acc.blocking EXCEPT ![r] = SubSeq(q, n + 1, Len(q))],
         ready    |-> acc.ready \o SubSeq(q, 1, n)]

\* Those that wait for d, oldest first.
Waiters(s, d) == SelectSeq(SubSeq(order[s], 1, taken[s]),
                           LAMBDA t : waits[s][t] \cap Awaited(d) # {})

\* A transaction that is done leaves the lock table, unless its status says that it is
\* not in there.  Before that a remaster, aborted or not, lets those that waited for it
\* request their locks.
Finish(s, t) ==
    LET start == [waits |-> waits[s], blocking |-> blocking_txns_[s], ready |-> <<>>]
        woken == IF txns[t].remaster
                 THEN FoldLeft(LAMBDA acc, a : Wake(t, acc, a), start, Waiters(s, t))
                 ELSE start
        table == locks[s] \o woken.ready
    IN  /\ state[s][t] = "done"
        /\ waits' = [waits EXCEPT ![s] = woken.waits]
        /\ blocking_txns_' = [blocking_txns_ EXCEPT ![s] = woken.blocking]
        /\ locks' = [locks EXCEPT ![s] = IF status[s][t] = "ABORTED_WITHOUT_LOCK" THEN table
                                         ELSE Remove(table, t)]
        /\ state' = [state EXCEPT ![s] = [u \in Id |->
                        IF u = t THEN "over"
                        ELSE IF u \in ToSet(woken.ready) THEN "locked" ELSE @[u]]]
        /\ UNCHANGED <<workerVars, order, taken, status>>

-----------------------------------------------------------------------------
(* The worker threads: CheckCommitOrAbort() and the application. *)

\* The replica that sends an aborted transaction again.
Repeats(s, t) == s = txns[t].origin

\* t is sent again with the mastership of now (its records are not locked, if t is not),
\* but only as far as the bounds go and when its records have one master.
Repeat(s, t) ==
    LET made == IF txns[t].remaster THEN Cardinality(Remasters) < MaxRemasters
                ELSE Made < MaxTxns
    IN  \E found \in Found(s, txns[t].keys) :
           IF Repeats(s, t) /\ OneMaster(found) /\ made
           THEN Send(Ordered(txns[t], found))
           ELSE UNCHANGED <<txns, pending>>

Abort(s, t) ==
    /\ Executing(s, t)
    /\ ~ Committing(s, t)
    /\ status' = [status EXCEPT ![s][t] = IF @ = "NEW" THEN "ABORTED" ELSE @]
    /\ Repeat(s, t)
    /\ SetState(s, t, "done")
    /\ UNCHANGED <<order, storage_, committed, schedulerVars>>

\* t's commit on s.
Commit(s, t) ==
    /\ Committing(s, t)
    /\ SetStatus(s, t, "COMMITTED")
    /\ SetState(s, t, "done")
    /\ committed' = [committed EXCEPT ![s] =
          [k \in Key |-> IF k \in txns[t].keys THEN Append(@[k], t) ELSE @[k]]]
    /\ UNCHANGED <<order, schedulerVars>>


CommitRemaster(s, t) ==
    /\ txns[t].remaster
    /\ Commit(s, t)
    /\ storage_' = [storage_ EXCEPT ![s] = [k \in Key |->
          IF k \in txns[t].keys
          THEN [master |-> txns[t].to, counter |-> txns[t].counter[k] + 1,
                remastering |-> @[k].remastering /\ s # txns[t].from]
          ELSE @[k]]]
    /\ UNCHANGED <<txns, pending>>

CommitTxn(s, t) ==
    /\ ~ txns[t].remaster
    /\ Commit(s, t)
    /\ UNCHANGED <<txns, pending, storage_>>

\* The master of k finds that t's client replica uses k much, and sends it a remaster.
\* (Of several keys of t this may be found at once; one at a time is modelled.)
CommitAndRemaster(s, t, k) ==
    /\ ~ txns[t].remaster
    /\ Commit(s, t)
    /\ k \in txns[t].keys
    /\ storage_[s][k].master = s
    /\ txns[t].to # s
    /\ ~ storage_[s][k].remastering
    /\ Cardinality(Remasters) < MaxRemasters
    /\ storage_' = [storage_ EXCEPT ![s][k].remastering = TRUE]
    /\ Send(NewTxn({k}, [l \in {k} |-> storage_[s][k]], TRUE, s, txns[t].to))

-----------------------------------------------------------------------------

Init ==
    /\ txns = <<>>
    /\ pending = {}
    /\ order = [s \in Replica |-> <<>>]
    /\ taken = [s \in Replica |-> 0]
    /\ storage_ = [s \in Replica |-> [k \in Key |->
          [master |-> InitialMaster[k], counter |-> 0, remastering |-> FALSE]]]
    /\ waits = [s \in Replica |-> [t \in Id |-> {}]]
    /\ blocking_txns_ = [s \in Replica |-> [r \in Replica |-> <<>>]]
    /\ locks = [s \in Replica |-> <<>>]
    /\ state = [s \in Replica |-> [t \in Id |-> "new"]]
    /\ status = [s \in Replica |-> [t \in Id |-> "NEW"]]
    /\ committed = [s \in Replica |-> [k \in Key |-> <<>>]]

LogNext == \/ \E t \in pending : OrderLocal(t)
           \/ \E s, r \in Replica : OrderRemote(s, r)

WorkerNext(s, t) == \/ Abort(s, t)
                    \/ CommitRemaster(s, t)
                    \/ CommitTxn(s, t)
                    \/ \E k \in Key : CommitAndRemaster(s, t, k)

Next ==
    \/ \E c \in Replica, K \in (SUBSET Key) \ {{}} : Submit(c, K)
    \/ LogNext
    \/ \E s \in Replica : Take(s)
    \/ \E s \in Replica, t \in Txn : Finish(s, t) \/ WorkerNext(s, t)

Spec == Init /\ [][Next]_vars

\* The log orders what it gets (GeoLog); the lock-manager thread and the workers handle
\* what is in their queues for ever.  None of these steps can be repeated, so that none is
\* postponed for ever if some step is taken.
FairSpec ==
    /\ Spec
    /\ WF_vars(\/ LogNext
               \/ \E s \in Replica : Take(s) \/ \E t \in Txn : Finish(s, t) \/ WorkerNext(s, t))
-----------------------------------------------------------------------------
(* Properties. *)

\* All replicas execute the transactions on a record in one order, and decide alike on
\* which of them commit: determinism is to keep the replicas equal without two-phase commit.
ReplicasAgree ==
    \A r, s \in Replica : \A k \in Key :
        \/ IsPrefix(committed[r][k], committed[s][k])
        \/ IsPrefix(committed[s][k], committed[r][k])



\* No wake-up is lost: the head of a queue of blocked transactions waits for a remaster,
\* and for one whose end the lock-manager thread has still to see.
NoLostWakeup ==
    \A s, r \in Replica :
        LET q == blocking_txns_[s][r]
        IN  q # <<>> => /\ waits[s][Head(q)] # {}
                        /\ \A p \in waits[s][Head(q)] :
                              ~ \E d \in Remasters : p \in Awaited(d) /\ state[s][d] = "over"

=============================================================================
