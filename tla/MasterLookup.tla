----------------------------- MODULE MasterLookup -----------------------------
(***************************************************************************)
(* How the sequencers of the low-latency modes find out which replica has  *)
(* to order a transaction (class LowlatencySequencer): the writer of a     *)
(* machine looks up the masters of the records of its own partition, asks  *)
(* the readers of its replica for the others, and puts the transaction     *)
(* into its batch or forwards it to a sequencer of the right replica.      *)
(*                                                                         *)
(* A master stands for master and counter of a record.  What a lookup      *)
(* finds is left open, for mastership may move at any time and every       *)
(* replica learns of it in its own time (Remaster).                        *)
(***************************************************************************)
EXTENDS Integers, FiniteSets, Functions

CONSTANTS
    NumReplicas,       \* replicas_size()
    NodesPerReplica,   \* nodes_per_replica()
    Key,
    Partition,         \* LookupPartition(), the relative id of a machine
    KeySets,           \* the read and write sets of the clients' transactions
    MaxBatchSize,      \* max_batch_size_
    MaxTxn             \* bound: the transactions that are followed

ASSUME MasterLookupAssumption ==
    /\ NumReplicas \in Nat \ {0}
    /\ NodesPerReplica \in Nat \ {0}
    /\ Partition \in [Key -> 0..(NodesPerReplica - 1)]
    /\ KeySets \subseteq (SUBSET Key) \ {{}}
    /\ \A K \in KeySets : IsFiniteSet(K)
    /\ MaxBatchSize \in Nat \ {0}
    /\ MaxTxn \in Nat

Replica == 0..(NumReplicas - 1)
Node    == 0..(NodesPerReplica - 1)
Machine == Replica \X Node
Txn     == 1..MaxTxn

VARIABLES
    keys,                    \* keys[t]: t's keys; none before a client makes it
    found,                   \* found[t]: the masters t has got so far
    txn_id_offset,
    sent_lookup_request,
    expected_master_lookups, \* how many answers t still lacks; 0 stands for no entry
    lookup_master_batch,     \* per machine asked: what to ask it for which transaction
    batch_message,           \* the batch of the epoch
    submitted,               \* history: what was sent in the batches of a machine
    messages

epoch   == <<txn_id_offset, sent_lookup_request>>
lookups == <<expected_master_lookups, lookup_master_batch>>
vars    == <<keys, found, epoch, lookups, batch_message, submitted, messages>>

LocalKeys(m, K) == {k \in K : Partition[k] = m[2]}

Empty == [t \in {} |-> {}]

\* What g has, and what f has besides.
Merge(g, f) == [x \in DOMAIN g \cup DOMAIN f |-> IF x \in DOMAIN g THEN g[x] ELSE f[x]]

Made == {t \in Txn : keys[t] # {}}

\* A MASTER_LOOKUP asks for keys by transaction; the answer has a master for each.
Lookup(from, to, keysOf) ==
    [type |-> "MASTER_LOOKUP", from |-> from, to |-> to, data |-> keysOf]

Forward(to, t) == [type |-> "TXN_FORWORD", to |-> to, txn |-> t]

-----------------------------------------------------------------------------
(* RunWriter(): where a transaction goes. *)

\* Mistake: a transaction of several masters stays if this replica is one of them.
BadHome(m, f) ==
    IF m[1] \in Range(f) THEN m[1]
    ELSE IF Cardinality(Range(f)) = 1 THEN CHOOSE r \in Range(f) : TRUE
    ELSE 0

\* The only master of the records, or replica 0 if there are several.
Home(m, f) == IF Cardinality(Range(f)) = 1 THEN CHOOSE r \in Range(f) : TRUE ELSE 0

\* The transactions T, whose masters f has, are put into m's batch or forwarded to
\* any machine of the right replica.
Place(m, T, f, others) ==
    LET stay == {t \in T : Home(m, f[t]) = m[1]}
    IN  /\ batch_message' = [batch_message EXCEPT ![m] = @ \cup stay]
        /\ \E to \in [T \ stay -> Machine] :
              /\ \A t \in T \ stay : to[t][1] = Home(m, f[t])
              /\ messages' = others \cup {Forward(to[t], t) : t \in T \ stay}

\* Mistake: answers are counted, not keys.
BadRemoteCount(K) == Cardinality({Partition[k] : k \in K})

RemoteCount(K) == Cardinality(K)

\* The client's next transaction.  Keys of other partitions are looked up later.  Ids
\* are only names; they are given in the order in which the transactions are made.
GetTxn(m, t, K) ==
    LET remote == K \ LocalKeys(m, K)
        asked  == {Partition[k] : k \in remote}
    IN  /\ txn_id_offset[m] < MaxBatchSize
        /\ t \notin Made /\ 1..(t - 1) \subseteq Made
        /\ txn_id_offset' = [txn_id_offset EXCEPT ![m] = @ + 1]
        /\ keys' = [keys EXCEPT ![t] = K]
        /\ \E f \in [LocalKeys(m, K) -> Replica] :
              /\ found' = [found EXCEPT ![t] = f]
              /\ Place(m, IF remote = {} THEN {t} ELSE {}, [found EXCEPT ![t] = f], messages)
        /\ expected_master_lookups' =
              [expected_master_lookups EXCEPT ![m][t] = RemoteCount(remote)]
        /\ lookup_master_batch' = [lookup_master_batch EXCEPT
              ![m] = [n \in Node |-> IF n \in asked
                         THEN Merge([u \in {t} |-> {k \in remote : Partition[k] = n}], @[n])
                         ELSE @[n]]]
        /\ UNCHANGED <<sent_lookup_request, submitted>>

\* One that is not followed: it counts for the size of the batch.
GetOtherTxn(m) ==
    /\ txn_id_offset[m] < MaxBatchSize
    /\ txn_id_offset' = [txn_id_offset EXCEPT ![m] = @ + 1]
    /\ UNCHANGED <<keys, found, sent_lookup_request, lookups, batch_message, submitted,
                   messages>>

NewLookups(m) == {Lookup(m, <<m[1], n>>, lookup_master_batch[m][n]) :
                     n \in {x \in Node : lookup_master_batch[m][x] # Empty}}

\* Once in an epoch that is not too short for MaxBatchSize transactions the collected
\* lookups are sent.
SendLookups(m) ==
    /\ txn_id_offset[m] = MaxBatchSize
    /\ ~ sent_lookup_request[m]
    /\ messages' = messages \cup NewLookups(m)
    /\ lookup_master_batch' = [lookup_master_batch EXCEPT ![m] = [n \in Node |-> Empty]]
    /\ sent_lookup_request' = [sent_lookup_request EXCEPT ![m] = TRUE]
    /\ UNCHANGED <<keys, found, txn_id_offset, expected_master_lookups, batch_message,
                   submitted>>

\* Answers for several transactions; those that lack none any more are placed.
OnLookupResult(m, msg) ==
    LET T     == DOMAIN msg.data
        left  == [t \in Txn |-> expected_master_lookups[m][t] -
                                (IF t \in T THEN Cardinality(DOMAIN msg.data[t]) ELSE 0)]
        f     == [t \in Txn |-> IF t \in T THEN Merge(msg.data[t], found[t]) ELSE found[t]]
    IN  /\ msg.type = "MASTER_LOOKUP_RESULT" /\ msg.to = m
        /\ expected_master_lookups' = [expected_master_lookups EXCEPT ![m] = left]
        /\ found' = f
        /\ Place(m, {t \in T : left[t] = 0}, f, messages \ {msg})
        /\ UNCHANGED <<keys, epoch, lookup_master_batch, submitted>>

\* A transaction of another sequencer, whose origin is this replica from now on.
OnForward(m, msg) ==
    /\ msg.type = "TXN_FORWORD" /\ msg.to = m
    /\ messages' = messages \ {msg}
    /\ batch_message' = [batch_message EXCEPT ![m] = @ \cup {msg.txn}]
    /\ UNCHANGED <<keys, found, epoch, lookups, submitted>>

\* Mistake: lookups that were not sent end with the epoch.
BadEndEpoch(m) ==
    /\ submitted' = [submitted EXCEPT ![m] = @ \cup batch_message[m]]
    /\ batch_message' = [batch_message EXCEPT ![m] = {}]
    /\ txn_id_offset' = [txn_id_offset EXCEPT ![m] = 0]
    /\ sent_lookup_request' = [sent_lookup_request EXCEPT ![m] = FALSE]
    /\ lookup_master_batch' = [lookup_master_batch EXCEPT ![m] = [n \in Node |-> Empty]]
    /\ UNCHANGED <<keys, found, expected_master_lookups, messages>>

\* The epoch's time is over: its batch, if not empty, is sent, and the next one begins.
EndEpoch(m) ==
    /\ submitted' = [submitted EXCEPT ![m] = @ \cup batch_message[m]]
    /\ batch_message' = [batch_message EXCEPT ![m] = {}]
    /\ txn_id_offset' = [txn_id_offset EXCEPT ![m] = 0]
    /\ sent_lookup_request' = [sent_lookup_request EXCEPT ![m] = FALSE]
    /\ UNCHANGED <<keys, found, lookups, messages>>

-----------------------------------------------------------------------------
(* RunReader(). *)

\* The masters that m's storage has for the keys it is asked for.
OnLookup(m, msg) ==
    /\ msg.type = "MASTER_LOOKUP" /\ msg.to = m
    /\ \E master \in [UNION Range(msg.data) -> Replica] :
          messages' = (messages \ {msg}) \cup
             {[type |-> "MASTER_LOOKUP_RESULT", to |-> msg.from,
               data |-> [t \in DOMAIN msg.data |-> [k \in msg.data[t] |-> master[k]]]]}
    /\ UNCHANGED <<keys, found, epoch, lookups, batch_message, submitted>>

-----------------------------------------------------------------------------

Init ==
    /\ keys = [t \in Txn |-> {}]
    /\ found = [t \in Txn |-> Empty]
    /\ txn_id_offset = [m \in Machine |-> 0]
    /\ sent_lookup_request = [m \in Machine |-> FALSE]
    /\ expected_master_lookups = [m \in Machine |-> [t \in Txn |-> 0]]
    /\ lookup_master_batch = [m \in Machine |-> [n \in Node |-> Empty]]
    /\ batch_message = [m \in Machine |-> {}]
    /\ submitted = [m \in Machine |-> {}]
    /\ messages = {}

ReadMessage(m) ==
    \E msg \in messages : OnLookupResult(m, msg) \/ OnForward(m, msg) \/ OnLookup(m, msg)

Next ==
    \E m \in Machine :
        \/ \E t \in Txn, K \in KeySets : GetTxn(m, t, K)
        \/ GetOtherTxn(m)
        \/ SendLookups(m)
        \/ EndEpoch(m)
        \/ ReadMessage(m)

Spec == Init /\ [][Next]_vars

\* Messages arrive and are read in some round of the loops.
FairSpec == Spec /\ \A m \in Machine : WF_vars(ReadMessage(m))
-----------------------------------------------------------------------------
(* Properties. *)

\* The keys about which m has still to hear, by transaction: asked for or to be asked
\* for, or in an answer on its way.
Outstanding(m, t) ==
    (UNION {lookup_master_batch[m][n][t] :
               n \in {x \in Node : t \in DOMAIN lookup_master_batch[m][x]}})
    \cup (UNION {msg.data[t] : msg \in {x \in messages :
               x.type = "MASTER_LOOKUP" /\ x.from = m /\ t \in DOMAIN x.data}})
    \cup (UNION {DOMAIN msg.data[t] : msg \in {x \in messages :
               x.type = "MASTER_LOOKUP_RESULT" /\ x.to = m /\ t \in DOMAIN x.data}})

\* The count of the answers that t lacks, kept over several epochs, is that of the keys
\* without a master, and each of them will be heard of: no answer meets a transaction
\* that is gone (the CHECK on its pointer) and none is placed too early.
LookupsMatch ==
    \A m \in Machine, t \in Txn :
        /\ expected_master_lookups[m][t] = Cardinality(Outstanding(m, t))
        /\ expected_master_lookups[m][t] > 0
           => Outstanding(m, t) = keys[t] \ DOMAIN found[t]

\* A transaction is in one place: waiting on one machine, on its way to another, or in
\* one batch, which then belongs to the replica that masters all its records, or to
\* replica 0, which orders the transactions of several masters.
OnePlace ==
    \A t \in Made :
        LET waiting == {m \in Machine : expected_master_lookups[m][t] > 0}
            sent    == {msg \in messages : msg.type = "TXN_FORWORD" /\ msg.txn = t}
            current == {m \in Machine : t \in batch_message[m]}
            over    == {m \in Machine : t \in submitted[m]}
        IN  /\ Cardinality(waiting) + Cardinality(sent) + Cardinality(current)
               + Cardinality(over) = 1
            /\ \A m \in current \cup over :
                  /\ DOMAIN found[t] = keys[t]
                  /\ Range(found[t]) = {m[1]} \/ (m[1] = 0 /\ Cardinality(Range(found[t])) > 1)

\* As long as on every machine epochs get full again and again, every transaction is
\* ordered with some batch.
EveryTxnIsBatched ==
    (\A m \in Machine : []<>(sent_lookup_request[m]) /\ []<>(~ sent_lookup_request[m]))
    => <>[](\A t \in Made : \E m \in Machine : t \in submitted[m])
=============================================================================
