----------------------------- MODULE MCExecution -----------------------------
(***************************************************************************)
(* Two machines and two homes: one machine has records of both, and every  *)
(* set of three transactions of which some have one part on one machine    *)
(* and some span machines, homes or both; and the clients that ask for     *)
(* such transactions.                                                      *)
(***************************************************************************)
EXTENDS Execution

CONSTANTS a, b, c, d

MCKey == {a, b, c, d}
MCPartition == [k \in MCKey |-> IF k = b THEN 1 ELSE 0]
MCMaster == [k \in MCKey |-> IF k = d THEN 1 ELSE 0]

\* A transaction that writes w and only reads r.
Shape(r, w) == [read |-> r, read_write |-> w]

MCShapes == {Shape({c}, {a, b}), Shape({}, {c, d}), Shape({}, {b, d})}

\* The clients of a small cluster: records for one choice more than a transaction needs,
\* and hot ones in a number that the replicas divide and in one that they do not.
Clients(nparts, replicas, hot) == INSTANCE Workload WITH
    nparts <- nparts, replica_size <- replicas, hot_records <- hot,
    kRWSetSize <- 4, kDBSize <- hot + 3 * replicas,
    Districts <- 1, Customers <- 1, Items <- 2, Stock <- 2

AllTxnsFit ==
    \A replicas \in 2..3 :
        /\ \A nparts \in 1..2, hot \in (2 * replicas)..(2 * replicas + 1) :
              Clients(nparts, replicas, hot)!MicroTxnsFit
        /\ Clients(2, replicas, replicas)!TpccTxnsFit

\* Where the microbenchmark's transactions have records, in this run's cluster.
GeneratedPlaces ==
    {{<<Clients(2, 2, 4)!LookupPartition(e.key), e.master>> : e \in txn.read_write} :
        txn \in UNION UNION {Clients(2, 2, 4)!Lowlatency_MClient(m, r) : m \in {0, 1}, r \in {0, 1}}}

=============================================================================
