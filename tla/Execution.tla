------------------------------ MODULE Execution ------------------------------
(***************************************************************************)
(* The machines of one replica execute the transactions of the batches     *)
(* (modes 0 and 1).  With request chopping (mode 1) a transaction has a    *)
(* part for each replica that masters one of its records, its home; in     *)
(* mode 0 all records have the same home.  Each machine locks its records  *)
(* of a part in log order, a worker thread reads them and sends them to    *)
(* the parts that write (class StorageManager), and executes once it has   *)
(* all records of the transaction (RunWorkerThread).  The lock manager is  *)
(* used as ConflictOrder describes it, which LockManager implements.       *)
(***************************************************************************)
EXTENDS Integers, Sequences, FiniteSets, FiniteSetsExt

CONSTANTS
    NumTxns,     \* the transactions, numbered as the logs of the homes order them
    Machine,     \* the machines of the replica, one per partition
    Replica,     \* the replicas that master records
    Key,
    Partition,   \* Partition[k]: the machine that holds k (LookupPartition)
    Master,      \* Master[k]: the replica that masters k (LookupMaster)
    Shapes       \* the entries a transaction may have: [read, read_write]

Txn == 1..NumTxns

\* The part of a transaction that goes through the log of its origin replica.
Part == [txn : Txn, origin : Replica]

ASSUME ExecutionAssumption ==
    /\ NumTxns \in Nat
    /\ Partition \in [Key -> Machine]
    /\ Master \in [Key -> Replica]
    /\ Shapes \subseteq [read : SUBSET Key, read_write : SUBSET Key]
    /\ \A s \in Shapes : s.read \cap s.read_write = {}
    \* as the transactions of both applications: who takes part also writes
    /\ \A s \in Shapes : \A k \in s.read : \E l \in s.read_write :
          Partition[l] = Partition[k] /\ Master[l] = Master[k]

VARIABLES
    entries,     \* each transaction's entries (never changes)
    order,       \* the replica's log: the parts in the order their batches have in it
    storage_,    \* the record of each key: the transaction that wrote it last, or 0
    locked,      \* locked[m]: m's lock manager was asked for its parts of order[1..locked[m]]
    state,       \* state[m][p]: where p is on m
    objects_,    \* objects_[m][p]: the records p's StorageManager on m has read
    results      \* READ_RESULTs on their way, with their sender, receiver and records

vars == <<entries, order, storage_, locked, state, objects_, results>>

-----------------------------------------------------------------------------

Keys(t)  == entries[t].read \cup entries[t].read_write
Homes(t) == {Master[k] : k \in Keys(t)}
Parts    == {p \in Part : p.origin \in Homes(p.txn)}

\* The records of m that a part with this origin may use.
LocalKeys(m, origin) == {k \in Key : Partition[k] = m /\ Master[k] = origin}

\* The machines that take part in p.
Readers(p) == {Partition[k] : k \in {l \in Keys(p.txn) : Master[l] = p.origin}}

\* p and q conflict on a record of m that both lock.
ConflictOn(m, p, q) ==
    \E k \in LocalKeys(m, p.origin) \cap LocalKeys(m, q.origin) :
        /\ k \in Keys(p.txn) \cap Keys(q.txn)
        /\ k \in entries[p.txn].read_write \cup entries[q.txn].read_write

\* A function that holds no record.
NoRecords == [k \in {} |-> 0]

\* f with the records of g added or replaced.
Update(f, g) == [k \in DOMAIN f \cup DOMAIN g |-> IF k \in DOMAIN g THEN g[k] ELSE f[k]]

SetState(m, p, s) == state' = [state EXCEPT ![m][p] = s]

-----------------------------------------------------------------------------
(* The log. *)

\* The places in the log of the parts that m's lock manager has still to be asked for.
Unlocked(m) == {i \in (locked[m] + 1)..Len(order) : m \in Readers(order[i])}

\* The parts of a home keep the order its own log gives them.
HomeOrder(p) ==
    \A q \in Parts : q.origin = p.origin /\ q.txn < p.txn => \E i \in 1..Len(order) : order[i] = q

\* The local Paxos leader appends the batch of p, from this replica or from another;
\* here not before some machine has come to the end of the log, when it matters first.
AppendPart(p) ==
    /\ p \in Parts
    /\ \E m \in Machine : Unlocked(m) = {}
    /\ \A i \in 1..Len(order) : order[i] # p
    /\ HomeOrder(p)
    /\ order' = Append(order, p)
    /\ UNCHANGED <<entries, storage_, locked, state, objects_, results>>

-----------------------------------------------------------------------------
(* The lock-manager thread of m. *)

\* The next part that m's batches, which have only parts with a record on m, bring it.
Lock(m) ==
    /\ Unlocked(m) # {}
    /\ LET i == Min(Unlocked(m))
       IN  /\ locked' = [locked EXCEPT ![m] = i]
           /\ SetState(m, order[i], "locking")
    /\ UNCHANGED <<entries, order, storage_, objects_, results>>

\* What ConflictOrder allows: every part before p that conflicts with it is over.
Granted(m, p) ==
    \A i, j \in 1..locked[m] :
        i < j /\ order[j] = p /\ ConflictOn(m, p, order[i])
            => state[m][order[i]] \in {"none", "released"}

\* p's locks are granted and p is put on txns_queue_.
Dispatch(m, p) ==
    /\ state[m][p] = "locking"
    /\ Granted(m, p)
    /\ SetState(m, p, "queued")
    /\ UNCHANGED <<entries, order, storage_, locked, objects_, results>>

\* The worker has put p on done_queue_.
Release(m, p) ==
    /\ state[m][p] = "done"
    /\ SetState(m, p, "released")
    /\ UNCHANGED <<entries, order, storage_, locked, objects_, results>>

-----------------------------------------------------------------------------
(* The worker threads of m.  A worker that waits for remote reads goes on  *)
(* with other transactions, so that none waits for a free worker.          *)

\* Mistake: only the other machines get the results, not this one's other parts.
BadReceivers(m, p) ==
    {<<Partition[k], Master[k]>> : k \in {l \in entries[p.txn].read_write : Partition[l] # m}}

\* The machines and origins of the parts that write: p's local reads are sent to all
\* of them but p's own on m.
Receivers(m, p) ==
    {<<Partition[k], Master[k]>> : k \in entries[p.txn].read_write} \ {<<m, p.origin>>}

\* Mistake: a part reads the records its machine has for the other parts.
BadLocalRecords(m, p) == [k \in {l \in Keys(p.txn) : Partition[l] = m} |-> storage_[k]]

LocalRecords(m, p) == [k \in Keys(p.txn) \cap LocalKeys(m, p.origin) |-> storage_[k]]

\* A worker takes p from txns_queue_ and creates its StorageManager, which reads the
\* local records and sends them, to the channel of the receiving part.
ReadLocal(m, p) ==
    /\ state[m][p] = "queued"
    /\ objects_' = [objects_ EXCEPT ![m][p] = LocalRecords(m, p)]
    /\ results' = results \cup
         {[from |-> <<m, p.origin>>, to |-> w[1], records |-> LocalRecords(m, p),
           part |-> [txn |-> p.txn, origin |-> w[2]]] : w \in Receivers(m, p)}
    /\ SetState(m, p, "active")
    /\ UNCHANGED <<entries, order, storage_, locked>>

\* READ_RESULT: the multiplexer keeps it until the worker has linked the part's channel.
HandleReadResult(m, r) ==
    /\ r \in results
    /\ r.to = m
    /\ state[m][r.part] = "active"
    /\ objects_' = [objects_ EXCEPT ![m][r.part] = Update(@, r.records)]
    /\ results' = results \ {r}
    /\ UNCHANGED <<entries, order, storage_, locked, state>>

\* As many records as the transaction has entries.
ReadyToExecute(m, p) == Cardinality(DOMAIN objects_[m][p]) = Cardinality(Keys(p.txn))

\* The records p holds by their address in the storage; of the others it has copies.
Writes(m, p) == entries[p.txn].read_write \cap LocalKeys(m, p.origin)

Execute(m, p) ==
    /\ state[m][p] = "active"
    /\ ReadyToExecute(m, p)
    /\ storage_' = [k \in Key |-> IF k \in Writes(m, p) THEN p.txn ELSE storage_[k]]
    /\ SetState(m, p, "done")
    /\ UNCHANGED <<entries, order, locked, objects_, results>>

-----------------------------------------------------------------------------

Init ==
    /\ entries \in [Txn -> Shapes]
    /\ order = <<>>
    /\ storage_ = [k \in Key |-> 0]
    /\ locked = [m \in Machine |-> 0]
    /\ state = [m \in Machine |-> [p \in Part |-> "none"]]
    /\ objects_ = [m \in Machine |-> [p \in Part |-> NoRecords]]
    /\ results = {}

Step(m, p) == Dispatch(m, p) \/ Release(m, p) \/ ReadLocal(m, p) \/ Execute(m, p)

Next ==
    \/ \E p \in Part : AppendPart(p)
    \/ \E m \in Machine : Lock(m)
    \/ \E m \in Machine, p \in Part : Step(m, p)
    \/ \E r \in results : HandleReadResult(r.to, r)

Spec == Init /\ [][Next]_vars

\* Every batch gets its place in the log, the lock-manager thread empties its queues in
\* every round, the workers poll theirs and their channels for ever, and results arrive.
\* No step can be repeated, so that none is postponed for ever if some step is taken.
FairSpec == Spec /\ WF_vars(Next)
-----------------------------------------------------------------------------
(* Properties. *)

\* The writer whose record t reads when transactions are executed one by one.
LastWriter(t, k) == Max({u \in 1..(t - 1) : k \in entries[u].read_write} \cup {0})

Over == \A p \in Parts, m \in Machine : m \in Readers(p) => state[m][p] = "released"

\* The execution is equivalent to the serial one in the order of the homes, however the
\* replica's log merges them, so that the machines of a replica, and the replicas, need
\* no other agreement: every part reads what the transaction reads in the serial
\* execution, and the storage in the end is the same.
SerialExecution ==
    /\ \A m \in Machine, p \in Part : \A k \in DOMAIN objects_[m][p] :
          objects_[m][p][k] = LastWriter(p.txn, k)
    /\ Over => \A k \in Key : storage_[k] = LastWriter(NumTxns + 1, k)

\* Every part is executed and released wherever it takes part: waiting for locks of one
\* part and for read results of another, on this or another machine, never forms a cycle,
\* in whatever order the replica's log has the parts of different homes.
EveryTxnReleased == <>Over
=============================================================================
