------------------------------- MODULE Workload -------------------------------
(***************************************************************************)
(* The transactions that the clients give to the sequencers (client.h):    *)
(* those of the microbenchmark and the new orders of TPC-C.  A place is a  *)
(* partition and a replica that masters records there; a generator draws   *)
(* the keys of one place or two, and is given here as the set of the       *)
(* transactions it may make.  A generator that would end in a failed CHECK *)
(* or draw for ever makes none.                                            *)
(***************************************************************************)
EXTENDS Integers, FiniteSets, FiniteSetsExt

CONSTANTS
    nparts,          \* partitions, one per machine of a replica
    replica_size,    \* replicas
    hot_records,     \* hot records, or warehouses, of a partition
    kRWSetSize,      \* 10, the records of a microbenchmark transaction
    kDBSize,         \* 10000000, the records of a partition in the microbenchmark
    Districts, Customers, Items,    \* of a warehouse: 10, 30000, 100000
    Stock            \* 10, the stock entries of a new order

\* Their masters in the storage are where the partitions and replicas take turns.
LookupPartition(key) == key % nparts
LookupMaster(key)    == (key \div nparts) % replica_size

-----------------------------------------------------------------------------
(* Drawing keys. *)

\* n keys of a partition from key_start on.
GetRandomKeys(n, key_start, key_limit, part) ==
    IF key_start % nparts = 0
    THEN kSubset(n, {key_start + part + nparts * i :
                       i \in 0..((key_limit - key_start) \div nparts - 1)})
    ELSE {}

\* n keys of a place, <<part, replica>>, from key_start on.
GetRandomKeysReplica(n, key_start, key_limit, place) ==
    IF key_start % (nparts * replica_size) = 0
    THEN kSubset(n, {key_start + place[1] + nparts * (i * replica_size + place[2]) :
                       i \in 0..((key_limit - key_start) \div (nparts * replica_size) - 1)})
    ELSE {}


\* The first key from here on that belongs to partition 0 and replica 0.
RoundUp(key) ==
    IF key % (replica_size * nparts) = 0 THEN key
    ELSE key + (replica_size * nparts - (key % (replica_size * nparts)))

HotKeys(part) == {part + nparts * i : i \in 0..(hot_records - 1)}
HotKeysReplica(place) ==
    {place[1] + nparts * (i * replica_size + place[2]) : i \in 0..(hot_records \div replica_size - 1)}

\* Entries of these keys with the same master.
Entries(keys, master) == {[key |-> k, master |-> master] : k \in keys}

NewTxn(read, read_write, fake) == [read |-> read, read_write |-> read_write, fake_txn |-> fake]

\* Replica 0 orders it but masters none of its records.
Fake(replica1, replica2) == replica1 # 0 /\ replica2 # 0

-----------------------------------------------------------------------------
(* The microbenchmark. *)

ColdStart == RoundUp(nparts * hot_records)
ColdKeys(n, place) == GetRandomKeysReplica(n, ColdStart, nparts * kDBSize, place)

MicroTxnSP(part) ==
    {NewTxn({}, Entries(hot \cup cold, 0), FALSE) :
        hot \in kSubset(2, HotKeys(part)),
        cold \in GetRandomKeys(kRWSetSize - 2, nparts * hot_records, nparts * kDBSize, part)}

MicroTxnMP(part1, part2) ==
    {NewTxn({}, Entries({hot1, hot2} \cup cold1 \cup cold2, 0), FALSE) :
        hot1 \in HotKeys(part1), hot2 \in HotKeys(part2),
        cold1 \in GetRandomKeys(kRWSetSize \div 2 - 1, nparts * hot_records, nparts * kDBSize, part1),
        cold2 \in GetRandomKeys(kRWSetSize \div 2 - 1, nparts * hot_records, nparts * kDBSize, part2)}

MicroTxnSRSP(part, replica) ==
    {NewTxn({}, Entries(hot \cup cold, replica), FALSE) :
        hot \in kSubset(2, HotKeysReplica(<<part, replica>>)),
        cold \in ColdKeys(kRWSetSize - 2, <<part, replica>>)}

\* A hot key and the half of the cold ones from each of two places.
MicroTxn(place1, place2, fake) ==
    {NewTxn({}, Entries({hot1} \cup cold1, place1[2]) \cup Entries({hot2} \cup cold2, place2[2]), fake) :
        hot1 \in HotKeysReplica(place1), hot2 \in HotKeysReplica(place2),
        cold1 \in ColdKeys(kRWSetSize \div 2 - 1, place1),
        cold2 \in ColdKeys(kRWSetSize \div 2 - 1, place2)}

MicroTxnSRMP(part1, part2, replica) == MicroTxn(<<part1, replica>>, <<part2, replica>>, FALSE)

MicroTxnMRSP(part, replica1, replica2) ==
    MicroTxn(<<part, replica1>>, <<part, replica2>>, Fake(replica1, replica2))

MicroTxnMRMP(part1, part2, replica1, replica2) ==
    MicroTxn(<<part1, replica1>>, <<part2, replica2>>, Fake(replica1, replica2))

-----------------------------------------------------------------------------
(* TPC-C: the keys are those of the warehouses, the districts, the         *)
(* customers and the stock, in this order.                                 *)

warehouse_end == hot_records * nparts
district_end  == warehouse_end + nparts * hot_records * Districts
customer_end  == district_end + nparts * hot_records * Customers
item_end      == customer_end + nparts * hot_records * Items

\* A new order in Calvin: the stock is of another partition if there are two.
TpccTxnCalvin(part1, part2) ==
    {NewTxn(Entries(warehouses \cup customer, 0), Entries(district \cup stock, 0), FALSE) :
        warehouses \in {{w1} \cup w2 : w1 \in HotKeys(part1),
                                       w2 \in kSubset(IF part1 = part2 THEN 0 ELSE 1, HotKeys(part2))},
        district \in GetRandomKeys(1, warehouse_end, district_end, part1),
        customer \in GetRandomKeys(1, district_end, customer_end, part1),
        stock \in GetRandomKeys(Stock, customer_end, item_end, part2)}

TpccTxnSP(part) == TpccTxnCalvin(part, part)
TpccTxnMP(part1, part2) == TpccTxnCalvin(part1, part2)

\* The warehouse, a district and a customer of one place, the stock of another, whose
\* warehouse is read too if it is not the same.
TpccTxn(place1, place2, fake) ==
    {NewTxn(Entries({w1} \cup customer, place1[2]) \cup Entries(w2, place2[2]),
            Entries(district, place1[2]) \cup Entries(stock, place2[2]), fake) :
        w1 \in HotKeysReplica(place1),
        w2 \in kSubset(IF place1 = place2 THEN 0 ELSE 1, HotKeysReplica(place2)),
        district \in GetRandomKeysReplica(1, warehouse_end, district_end, place1),
        customer \in GetRandomKeysReplica(1, RoundUp(district_end), customer_end, place1),
        stock \in GetRandomKeysReplica(Stock, RoundUp(customer_end), item_end, place2)}

TpccTxnSRSP(part, replica) == TpccTxn(<<part, replica>>, <<part, replica>>, FALSE)

TpccTxnSRMP(part1, part2, replica) == TpccTxn(<<part1, replica>>, <<part2, replica>>, FALSE)

\* The place of the lower replica comes first.
TpccTxnMRMP(part1, part2, replica1, replica2) ==
    IF replica1 > replica2
    THEN TpccTxn(<<part2, replica2>>, <<part1, replica1>>, Fake(replica1, replica2))
    ELSE TpccTxn(<<part1, replica1>>, <<part2, replica2>>, Fake(replica1, replica2))

-----------------------------------------------------------------------------
(* The clients: what GetTxn() may return on the machine of this partition  *)
(* and replica.  A request is the set of the transactions that one choice  *)
(* of the other machine and the other replica leaves to the generator.     *)

Partitions == 0..(nparts - 1)
Replicas   == 0..(replica_size - 1)

OtherParts(part)       == Partitions \ {part}
OtherReplicas(replica) == Replicas \ {replica}

MClient(part) ==
    {MicroTxnSP(part)} \cup {MicroTxnMP(part, other) : other \in OtherParts(part)}

TClient(part) ==
    {TpccTxnSP(part)} \cup {TpccTxnMP(part, other) : other \in OtherParts(part)}

Lowlatency_MClient(part, replica) ==
    {MicroTxnSRSP(part, replica)}
    \cup {MicroTxnSRMP(part, other, replica) : other \in OtherParts(part)}
    \cup {MicroTxnMRSP(part, replica, other) : other \in OtherReplicas(replica)}
    \cup {MicroTxnMRMP(part, other, replica, other_replica) :
            other \in OtherParts(part), other_replica \in OtherReplicas(replica)}

\* Two partitions or two places, never two replicas in one partition; whether there is
\* another machine is not asked before one is drawn.
Lowlatency_TClient(part, replica) ==
    {TpccTxnSRSP(part, replica)}
    \cup {TpccTxnSRMP(part, other, replica) : other \in OtherParts(part)}
    \cup {TpccTxnMRMP(part, other, replica, other_replica) :
            other \in OtherParts(part), other_replica \in OtherReplicas(replica)}
    \cup (IF OtherParts(part) = {} THEN {{}} ELSE {})

-----------------------------------------------------------------------------
(* Properties. *)

Keys(es) == {e.key : e \in es}

\* The storage has the records, the application finds as many to write as it looks for,
\* none is locked twice, and who takes part also writes: so ExecutionAssumption asks.
Executable(txn, writes, limit) ==
    /\ Keys(txn.read \cup txn.read_write) \subseteq 0..(limit - 1)
    /\ Cardinality(Keys(txn.read_write)) = writes
    /\ Keys(txn.read) \cap Keys(txn.read_write) = {}
    /\ \A e \in txn.read : \E w \in txn.read_write :
          /\ LookupPartition(w.key) = LookupPartition(e.key)
          /\ w.master = e.master

\* The masters are those of the storage, and a transaction is fake if 0 is none of them.
RightMasters(txn) ==
    LET masters == {e.master : e \in txn.read \cup txn.read_write}
    IN  /\ \A e \in txn.read \cup txn.read_write : e.master = LookupMaster(e.key)
        /\ txn.fake_txn <=> Cardinality(masters) > 1 /\ 0 \notin masters

\* Whatever other machine and replica a client chooses for a microbenchmark transaction,
\* there is one, the machines can execute it, and in the modes with masters it has
\* the right ones.
MicroTxnsFit ==
    \A p \in Partitions, r \in Replicas :
        /\ \A request \in MClient(p) \cup Lowlatency_MClient(p, r) :
              request # {} /\ \A txn \in request : Executable(txn, kRWSetSize, nparts * kDBSize)
        /\ \A request \in Lowlatency_MClient(p, r) : \A txn \in request : RightMasters(txn)

\* The same of the new orders, where every replica masters as many warehouses and has
\* more than one machine.
TpccTxnsFit ==
    \A p \in Partitions, r \in Replicas :
        /\ \A request \in TClient(p) \cup Lowlatency_TClient(p, r) :
              request # {} /\ \A txn \in request : Executable(txn, 1 + Stock, item_end)
        /\ \A request \in Lowlatency_TClient(p, r) : \A txn \in request : RightMasters(txn)
=============================================================================
