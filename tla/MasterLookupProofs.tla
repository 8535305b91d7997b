-------------------------- MODULE MasterLookupProofs --------------------------
(***************************************************************************)
(* Proofs about MasterLookup, for any replicas, machines, keys and         *)
(* partitions: the counters of the answers that transactions lack are      *)
(* right, and every transaction is in one place, in the end in a batch of  *)
(* the replica that has to order it.                                       *)
(***************************************************************************)
EXTENDS MasterLookup, FiniteSetTheorems, TLAPS

\* Every variable is a function on what it is indexed by.
DomainInv ==
    /\ keys \in [Txn -> SUBSET Key] /\ \A t \in Txn : IsFiniteSet(keys[t])
    /\ DOMAIN found = Txn
    /\ expected_master_lookups \in [Machine -> [Txn -> Nat]]
    /\ DOMAIN lookup_master_batch = Machine
    /\ \A m \in Machine : DOMAIN lookup_master_batch[m] = Node
    /\ batch_message \in [Machine -> SUBSET Txn]
    /\ submitted \in [Machine -> SUBSET Txn]

\* The keys of t that the machines with relative id n store: they are asked for together.
Part(t, n) == {k \in keys[t] : Partition[k] = n}

\* m has still to ask for them; a message asks for them, or answers.
Listed(m, n, t) == t \in DOMAIN lookup_master_batch[m][n]

Asks(x, m, n, t) ==
    x.type = "MASTER_LOOKUP" /\ x.from = m /\ x.to = <<m[1], n>> /\ t \in DOMAIN x.data

Answers(x, m, n, t) ==
    /\ x.type = "MASTER_LOOKUP_RESULT" /\ x.to = m
    /\ t \in DOMAIN x.data /\ DOMAIN x.data[t] = Part(t, n)

About(x, m, n, t) == Asks(x, m, n, t) \/ Answers(x, m, n, t)

Pending(m, n, t) == Listed(m, n, t) \/ \E x \in messages : About(x, m, n, t)

Missing(m, t) == {k \in keys[t] : Pending(m, Partition[k], t)}

\* What is asked for are the parts of transactions,
ListOK(m, n) ==
    /\ DOMAIN lookup_master_batch[m][n] \subseteq Txn
    /\ \A t \in Txn : Listed(m, n, t) =>
          lookup_master_batch[m][n][t] = Part(t, n) /\ Part(t, n) # {}

ListInv == \A m \in Machine, n \in Node : ListOK(m, n)

\* also in the messages,
LookupOK(x) ==
    /\ x.from \in Machine
    /\ DOMAIN x.data \subseteq Txn
    /\ \E n \in Node : /\ x.to = <<x.from[1], n>>
                       /\ \A t \in DOMAIN x.data : x.data[t] = Part(t, n) /\ Part(t, n) # {}

ResultOK(x) ==
    /\ x.to \in Machine
    /\ DOMAIN x.data \subseteq Txn
    /\ \A t \in DOMAIN x.data : \E n \in Node :
          x.data[t] \in [Part(t, n) -> Replica] /\ Part(t, n) # {}

ForwardOK(x) == \E m \in Machine, t \in Txn : x = Forward(m, t)

MessageOK(x) ==
    \/ x.type = "MASTER_LOOKUP" /\ LookupOK(x)
    \/ x.type = "MASTER_LOOKUP_RESULT" /\ ResultOK(x)
    \/ x.type = "TXN_FORWORD" /\ ForwardOK(x)

MessageInv == \A x \in messages : MessageOK(x)

\* and for a part they are asked only once.
Once(m, n, t) ==
    /\ \A x, y \in messages : About(x, m, n, t) /\ About(y, m, n, t) => x = y
    /\ \A x \in messages : About(x, m, n, t) => ~ Listed(m, n, t)

OnceInv == \A m \in Machine, n \in Node, t \in Txn : Once(m, n, t)

\* The counters are those of the keys that are missing, which are those without master.
CountOK(m, t) == \E M : M = Missing(m, t) /\ expected_master_lookups[m][t] = Cardinality(M)

CountInv == \A m \in Machine, t \in Txn : CountOK(m, t)

FoundOK(t) ==
    /\ DOMAIN found[t] \subseteq keys[t]
    /\ \A k \in DOMAIN found[t] : found[t][k] \in Replica
    /\ \A m \in Machine : Missing(m, t) # {} => Missing(m, t) = keys[t] \ DOMAIN found[t]

FoundInv == \A t \in Txn : FoundOK(t)

\* Where a transaction can be; when it does not wait its masters are known.
Kind == {"waiting", "sent", "batch", "over"}

At(q, m, t) ==
    \/ q = "waiting" /\ expected_master_lookups[m][t] > 0
    \/ q = "sent" /\ Forward(m, t) \in messages
    \/ q = "batch" /\ t \in batch_message[m]
    \/ q = "over" /\ t \in submitted[m]

OnlyAt(q, m, t) == \A p \in Kind, o \in Machine : At(p, o, t) <=> (p = q /\ o = m)

Nowhere(t) == \A p \in Kind, o \in Machine : ~ At(p, o, t)

Decided(m, t) == \E f : found[t] = f /\ DOMAIN f = keys[t] /\ Home(m, f) = m[1]

PlaceOK(t) ==
    /\ keys[t] = {} => Nowhere(t)
    /\ keys[t] # {} => \E q \in Kind, m \in Machine : OnlyAt(q, m, t)
    /\ \A q \in Kind \ {"waiting"}, m \in Machine : At(q, m, t) => Decided(m, t)

PlaceInv == \A t \in Txn : PlaceOK(t)

LookupInv == ListInv /\ MessageInv /\ OnceInv /\ CountInv /\ FoundInv

\* The inductive invariant.
IInv == DomainInv /\ LookupInv /\ PlaceInv

-----------------------------------------------------------------------------
(* Lemmas about the operators. *)

\* The constants.
LEMMA Basics ==
    /\ 0 \in Replica
    /\ IsFiniteSet(Replica)
    /\ MaxTxn \in Nat
    /\ \A K \in KeySets : K \subseteq Key /\ K # {} /\ IsFiniteSet(K)
    /\ \A k \in Key : Partition[k] \in Node
<1>1. NumReplicas \in Nat \ {0} /\ 0 \in Int /\ NumReplicas - 1 \in Int
  BY MasterLookupAssumption
<1>2. IsFiniteSet(0..(NumReplicas - 1))
  BY <1>1, FS_Interval
<1> QED
  BY <1>1, <1>2, MasterLookupAssumption DEF Replica, Node

\* The fields of a forwarded transaction, which tell it from others,
LEMMA ForwardFacts ==
    ASSUME NEW m, NEW t
    PROVE  /\ Forward(m, t).type = "TXN_FORWORD"
           /\ Forward(m, t).to = m
           /\ Forward(m, t).txn = t
           /\ \A o, u : Forward(m, t) = Forward(o, u) => m = o /\ t = u
<1>1. \A o, u : /\ Forward(o, u).to = o
                /\ Forward(o, u).txn = u
                /\ Forward(o, u).type = "TXN_FORWORD"
  BY DEF Forward
<1> QED
  BY <1>1

\* and those of a question.
LEMMA LookupFacts ==
    ASSUME NEW m, NEW o, NEW d
    PROVE  /\ Lookup(m, o, d).type = "MASTER_LOOKUP"
           /\ Lookup(m, o, d).from = m
           /\ Lookup(m, o, d).to = o
           /\ Lookup(m, o, d).data = d
BY DEF Lookup

\* The right replica of a transaction is the same for every machine.
LEMMA HomeFacts ==
    ASSUME NEW m, NEW o, NEW f
    PROVE  Home(m, f) = Home(o, f)
BY DEF Home

\* A part that is not empty is that of one machine of the replica.
LEMMA PartFacts ==
    ASSUME NEW t, NEW n, NEW o, Part(t, n) # {}, Part(t, n) = Part(t, o)
    PROVE  n = o
BY DEF Part

\* No entry at all.
LEMMA EmptyFacts == DOMAIN Empty = {}
BY DEF Empty

\* Home() of masters that are known is a replica; it is their only master or replica 0.
LEMMA HomeOfMasters ==
    ASSUME NEW m \in Machine, NEW f, DOMAIN f # {}, \A k \in DOMAIN f : f[k] \in Replica,
           Home(m, f) = m[1]
    PROVE  Range(f) = {m[1]} \/ (m[1] = 0 /\ Cardinality(Range(f)) > 1)
<1>1. Range(f) \subseteq Replica /\ Range(f) # {}
  BY DEF Range
<1>2. IsFiniteSet(Range(f))
  BY <1>1, Basics, FS_Subset
<1>3. Cardinality(Range(f)) \in Nat /\ Cardinality(Range(f)) # 0
  BY <1>1, <1>2, FS_CardinalityType, FS_EmptySet
<1>4. CASE Cardinality(Range(f)) = 1
  <2>1. PICK r : Range(f) = {r}
    BY <1>2, <1>4, FS_Singleton
  <2>2. (CHOOSE x \in Range(f) : TRUE) = r
    BY <2>1
  <2> QED
    BY <1>4, <2>1, <2>2 DEF Home
<1>5. CASE Cardinality(Range(f)) # 1
  BY <1>3, <1>5 DEF Home
<1> QED
  BY <1>4, <1>5

\* The keys that are missing are finitely many.
LEMMA MissingFacts ==
    ASSUME DomainInv, NEW t \in Txn, NEW m
    PROVE  /\ Missing(m, t) \subseteq keys[t]
           /\ IsFiniteSet(Missing(m, t))
           /\ Cardinality(Missing(m, t)) \in Nat
           /\ Cardinality(Missing(m, t)) = 0 <=> Missing(m, t) = {}
<1>1. Missing(m, t) \subseteq keys[t]
  BY DEF Missing
<1>2. IsFiniteSet(keys[t])
  BY DEF DomainInv
<1>3. IsFiniteSet(Missing(m, t))
  BY <1>1, <1>2, FS_Subset
<1> QED
  BY <1>1, <1>3, FS_CardinalityType, FS_EmptySet

\* What is pending is about a transaction that lacks masters.
LEMMA PendingFacts ==
    ASSUME DomainInv, LookupInv, NEW m \in Machine, NEW n \in Node, NEW t \in Txn,
           Pending(m, n, t)
    PROVE  /\ Part(t, n) # {} /\ Part(t, n) \subseteq Missing(m, t)
           /\ expected_master_lookups[m][t] > 0
<1>1. Part(t, n) # {}
  <2>1. CASE Listed(m, n, t)
    BY <2>1 DEF LookupInv, ListInv, ListOK
  <2>2. ASSUME NEW x \in messages, Asks(x, m, n, t) PROVE Part(t, n) # {}
    <3>1. x.type = "MASTER_LOOKUP" /\ LookupOK(x)
      BY <2>2 DEF LookupInv, MessageInv, MessageOK, Asks
    <3>2. PICK o \in Node : /\ x.to = <<x.from[1], o>>
                            /\ \A u \in DOMAIN x.data : Part(u, o) # {}
      BY <3>1 DEF LookupOK
    <3>3. <<m[1], n>> = <<m[1], o>> /\ t \in DOMAIN x.data
      BY <2>2, <3>2 DEF Asks
    <3> QED
      BY <3>2, <3>3
  <2>3. ASSUME NEW x \in messages, Answers(x, m, n, t) PROVE Part(t, n) # {}
    <3>1. x.type = "MASTER_LOOKUP_RESULT" /\ ResultOK(x)
      BY <2>3 DEF LookupInv, MessageInv, MessageOK, Answers
    <3> QED
      BY <2>3, <3>1 DEF ResultOK, Answers
  <2> QED
    BY <2>1, <2>2, <2>3 DEF Pending, About
<1>2. Part(t, n) \subseteq Missing(m, t)
  BY DEF Part, Missing
<1>3. expected_master_lookups[m][t] = Cardinality(Missing(m, t))
  BY DEF LookupInv, CountInv, CountOK
<1> QED
  BY <1>1, <1>2, <1>3, MissingFacts

-----------------------------------------------------------------------------
(* What the invariant says implies the properties. *)

\* The three places of what is outstanding,
LEMMA OutstandingFacts ==
    ASSUME NEW m, NEW t, NEW k
    PROVE  k \in Outstanding(m, t) <=>
              \/ \E n \in Node : Listed(m, n, t) /\ k \in lookup_master_batch[m][n][t]
              \/ \E x \in messages : /\ x.type = "MASTER_LOOKUP" /\ x.from = m
                                     /\ t \in DOMAIN x.data /\ k \in x.data[t]
              \/ \E x \in messages : /\ x.type = "MASTER_LOOKUP_RESULT" /\ x.to = m
                                     /\ t \in DOMAIN x.data /\ k \in DOMAIN x.data[t]
<1> DEFINE N == {n \in Node : t \in DOMAIN lookup_master_batch[m][n]}
           L == {x \in messages : /\ x.type = "MASTER_LOOKUP" /\ x.from = m
                                  /\ t \in DOMAIN x.data}
           R == {x \in messages : /\ x.type = "MASTER_LOOKUP_RESULT" /\ x.to = m
                                  /\ t \in DOMAIN x.data}
           A == UNION {lookup_master_batch[m][n][t] : n \in N}
           B == UNION {x.data[t] : x \in L}
           C == UNION {DOMAIN x.data[t] : x \in R}
<1>1. Outstanding(m, t) = A \cup B \cup C
  BY DEF Outstanding
<1>2. k \in A <=> \E n \in N : k \in lookup_master_batch[m][n][t]
  OBVIOUS
<1>3. k \in B <=> \E x \in L : k \in x.data[t]
  OBVIOUS
<1>4. k \in C <=> \E x \in R : k \in DOMAIN x.data[t]
  OBVIOUS
<1> HIDE DEF A, B, C
<1> QED
  BY <1>1, <1>2, <1>3, <1>4 DEF Listed

\* which are those of the parts that are pending.
LEMMA OutstandingIsMissing ==
    ASSUME DomainInv, LookupInv, NEW m \in Machine, NEW t \in Txn
    PROVE  Outstanding(m, t) = Missing(m, t)
<1>1. ASSUME NEW k \in Outstanding(m, t) PROVE k \in Missing(m, t)
  <2>1. CASE \E n \in Node : Listed(m, n, t) /\ k \in lookup_master_batch[m][n][t]
    <3>1. PICK n \in Node : Listed(m, n, t) /\ k \in lookup_master_batch[m][n][t]
      BY <2>1
    <3>2. k \in Part(t, n)
      BY <3>1 DEF LookupInv, ListInv, ListOK
    <3> QED
      BY <3>1, <3>2 DEF Part, Missing, Pending
  <2>2. ASSUME NEW x \in messages, x.type = "MASTER_LOOKUP", x.from = m, t \in DOMAIN x.data,
               k \in x.data[t]
        PROVE  k \in Missing(m, t)
    <3>1. LookupOK(x)
      BY <2>2 DEF LookupInv, MessageInv, MessageOK
    <3>2. PICK n \in Node : x.to = <<x.from[1], n>> /\ x.data[t] = Part(t, n)
      BY <2>2, <3>1 DEF LookupOK
    <3> QED
      BY <2>2, <3>2 DEF Part, Missing, Pending, About, Asks
  <2>3. ASSUME NEW x \in messages, x.type = "MASTER_LOOKUP_RESULT", x.to = m,
               t \in DOMAIN x.data, k \in DOMAIN x.data[t]
        PROVE  k \in Missing(m, t)
    <3>1. ResultOK(x)
      BY <2>3 DEF LookupInv, MessageInv, MessageOK
    <3>2. PICK n \in Node : DOMAIN x.data[t] = Part(t, n)
      BY <2>3, <3>1 DEF ResultOK
    <3> QED
      BY <2>3, <3>2 DEF Part, Missing, Pending, About, Answers
  <2> QED
    BY <1>1, <2>1, <2>2, <2>3, OutstandingFacts
<1>2. ASSUME NEW k \in Missing(m, t) PROVE k \in Outstanding(m, t)
  <2> DEFINE n == Partition[k]
  <2>1. k \in keys[t] /\ k \in Key /\ n \in Node /\ Pending(m, n, t) /\ k \in Part(t, n)
    BY <1>2, Basics DEF Missing, DomainInv, Part
  <2> HIDE DEF n
  <2>2. CASE Listed(m, n, t)
    <3>1. k \in lookup_master_batch[m][n][t]
      BY <2>1, <2>2 DEF LookupInv, ListInv, ListOK
    <3> QED
      BY <2>1, <2>2, <3>1, OutstandingFacts
  <2>3. ASSUME NEW x \in messages, Asks(x, m, n, t) PROVE k \in Outstanding(m, t)
    <3>1. x.type = "MASTER_LOOKUP" /\ LookupOK(x)
      BY <2>3 DEF LookupInv, MessageInv, MessageOK, Asks
    <3>2. PICK o \in Node : /\ x.to = <<x.from[1], o>>
                            /\ \A u \in DOMAIN x.data : x.data[u] = Part(u, o)
      BY <3>1 DEF LookupOK
    <3>3. k \in x.data[t]
      BY <2>1, <2>3, <3>2 DEF Asks
    <3> QED
      BY <2>3, <3>3, OutstandingFacts DEF Asks
  <2>4. ASSUME NEW x \in messages, Answers(x, m, n, t) PROVE k \in Outstanding(m, t)
    BY <2>1, <2>4, OutstandingFacts DEF Answers
  <2> QED
    BY <2>1, <2>2, <2>3, <2>4 DEF Pending, About
<1> QED
  BY <1>1, <1>2

\* The invariant implies LookupsMatch,
LEMMA ImpliesLookupsMatch ==
    ASSUME DomainInv, LookupInv
    PROVE  LookupsMatch
<1> SUFFICES ASSUME NEW m \in Machine, NEW t \in Txn
             PROVE  /\ expected_master_lookups[m][t] = Cardinality(Outstanding(m, t))
                    /\ expected_master_lookups[m][t] > 0
                       => Outstanding(m, t) = keys[t] \ DOMAIN found[t]
  BY DEF LookupsMatch
<1>1. expected_master_lookups[m][t] = Cardinality(Missing(m, t))
  BY DEF LookupInv, CountInv, CountOK
<1>2. Missing(m, t) # {} => Missing(m, t) = keys[t] \ DOMAIN found[t]
  BY DEF LookupInv, FoundInv, FoundOK
<1> QED
  BY <1>1, <1>2, OutstandingIsMissing, MissingFacts

\* and OnePlace.
LEMMA ImpliesOnePlace ==
    ASSUME DomainInv, LookupInv, PlaceInv
    PROVE  OnePlace
<1> SUFFICES ASSUME NEW t \in Made
             PROVE  LET waiting == {m \in Machine : expected_master_lookups[m][t] > 0}
                        sent    == {msg \in messages : msg.type = "TXN_FORWORD" /\ msg.txn = t}
                        current == {m \in Machine : t \in batch_message[m]}
                        over    == {m \in Machine : t \in submitted[m]}
                    IN  /\ Cardinality(waiting) + Cardinality(sent) + Cardinality(current)
                           + Cardinality(over) = 1
                        /\ \A m \in current \cup over :
                              /\ DOMAIN found[t] = keys[t]
                              /\ \/ Range(found[t]) = {m[1]}
                                 \/ m[1] = 0 /\ Cardinality(Range(found[t])) > 1
  BY DEF OnePlace
<1> DEFINE waiting == {m \in Machine : expected_master_lookups[m][t] > 0}
           sent    == {msg \in messages : msg.type = "TXN_FORWORD" /\ msg.txn = t}
           current == {m \in Machine : t \in batch_message[m]}
           over    == {m \in Machine : t \in submitted[m]}
<1>1. t \in Txn /\ keys[t] # {} /\ PlaceOK(t)
  BY DEF Made, PlaceInv
<1>2. PICK q \in Kind, m \in Machine : OnlyAt(q, m, t)
  BY <1>1 DEF PlaceOK
<1>3. waiting = IF q = "waiting" THEN {m} ELSE {}
  <2>1. \A o \in Machine : expected_master_lookups[o][t] > 0 <=> At("waiting", o, t)
    BY DEF At
  <2> QED
    BY <1>2, <2>1 DEF OnlyAt, Kind
<1>4. sent = IF q = "sent" THEN {Forward(m, t)} ELSE {}
  <2>1. \A o \in Machine : Forward(o, t) \in messages <=> q = "sent" /\ o = m
    BY <1>2 DEF OnlyAt, Kind, At
  <2>2. \A o \in Machine : Forward(o, t) \in messages => Forward(o, t) \in sent
    BY ForwardFacts
  <2>3. ASSUME NEW msg \in sent PROVE \E o \in Machine : msg = Forward(o, t)
    <3>1. ForwardOK(msg)
      BY <2>3 DEF LookupInv, MessageInv, MessageOK
    <3>2. PICK o \in Machine, u \in Txn : msg = Forward(o, u)
      BY <3>1 DEF ForwardOK
    <3> QED
      BY <2>3, <3>2, ForwardFacts
  <2> QED
    BY <2>1, <2>2, <2>3
<1>5. current = IF q = "batch" THEN {m} ELSE {}
  <2>1. \A o \in Machine : t \in batch_message[o] <=> At("batch", o, t)
    BY DEF At
  <2> QED
    BY <1>2, <2>1 DEF OnlyAt, Kind
<1>6. over = IF q = "over" THEN {m} ELSE {}
  <2>1. \A o \in Machine : t \in submitted[o] <=> At("over", o, t)
    BY DEF At
  <2> QED
    BY <1>2, <2>1 DEF OnlyAt, Kind
<1>7. ASSUME NEW o \in current \cup over
      PROVE  /\ DOMAIN found[t] = keys[t]
             /\ \/ Range(found[t]) = {o[1]}
                \/ o[1] = 0 /\ Cardinality(Range(found[t])) > 1
  <2>1. At("batch", o, t) \/ At("over", o, t)
    BY <1>7 DEF At
  <2>2. o \in Machine /\ Decided(o, t)
    BY <1>1, <1>7, <2>1 DEF PlaceOK, Kind
  <2>3. \A k \in DOMAIN found[t] : found[t][k] \in Replica
    BY <1>1 DEF LookupInv, FoundInv, FoundOK
  <2> QED
    BY <1>1, <2>2, <2>3, HomeOfMasters DEF Decided
<1> HIDE DEF waiting, sent, current, over
<1>8. Cardinality({}) = 0 /\ Cardinality({m}) = 1 /\ Cardinality({Forward(m, t)}) = 1
  BY FS_EmptySet, FS_Singleton
<1>9. Cardinality(waiting) + Cardinality(sent) + Cardinality(current) + Cardinality(over) = 1
  <2>1. CASE q = "waiting"
    BY <1>3, <1>4, <1>5, <1>6, <1>8, <2>1
  <2>2. CASE q = "sent"
    BY <1>3, <1>4, <1>5, <1>6, <1>8, <2>2
  <2>3. CASE q = "batch"
    BY <1>3, <1>4, <1>5, <1>6, <1>8, <2>3
  <2>4. CASE q = "over"
    BY <1>3, <1>4, <1>5, <1>6, <1>8, <2>4
  <2> QED
    BY <2>1, <2>2, <2>3, <2>4 DEF Kind
<1> QED
  BY <1>7, <1>9 DEF waiting, sent, current, over

\* Nothing is made, asked for or sent.
LEMMA InitIsInductive == Init => IInv
<1> SUFFICES ASSUME Init PROVE IInv
  OBVIOUS
<1>1. \A t \in Txn : keys[t] = {} /\ found[t] = Empty
  BY DEF Init
<1>2. DomainInv
  BY FS_EmptySet DEF Init, DomainInv
<1>3. \A m \in Machine, n \in Node : \A t : ~ Listed(m, n, t)
  BY EmptyFacts DEF Init, Listed
<1>4. ListInv
  <2>1. \A m \in Machine, n \in Node : DOMAIN lookup_master_batch[m][n] = {}
    BY EmptyFacts DEF Init
  <2> QED
    BY <1>3, <2>1 DEF ListInv, ListOK
<1>5. MessageInv /\ OnceInv
  BY DEF Init, MessageInv, OnceInv, Once
<1>6. \A t \in Txn : \A m : Missing(m, t) = {}
  BY <1>1 DEF Missing
<1>7. CountInv
  BY <1>6, FS_EmptySet DEF Init, CountInv, CountOK
<1>8. FoundInv
  BY <1>1, <1>6, EmptyFacts DEF FoundInv, FoundOK
<1>9. PlaceInv
  <2>1. \A t \in Txn : Nowhere(t)
    BY DEF Init, Nowhere, At
  <2> QED
    BY <1>1, <2>1 DEF PlaceInv, PlaceOK, Nowhere, Kind
<1> QED
  BY <1>2, <1>4, <1>5, <1>7, <1>8, <1>9 DEF IInv, LookupInv

-----------------------------------------------------------------------------
(* What steps keep. *)

\* A step that only sends or takes forwarded transactions keeps what is about lookups.
LEMMA LookupsSame ==
    ASSUME LookupInv,
           UNCHANGED <<keys, found, lookups>>,
           \A x : x.type # "TXN_FORWORD" => (x \in messages' <=> x \in messages),
           \A x \in messages' : x \in messages \/ ForwardOK(x)
    PROVE  LookupInv'
<1>1. /\ \A t, n : Part(t, n)' = Part(t, n)
      /\ \A m, n, t : Listed(m, n, t)' <=> Listed(m, n, t)
  BY DEF Part, Listed, lookups
<1>2. \A x, m, n, t : About(x, m, n, t)' <=> About(x, m, n, t)
  BY <1>1 DEF About, Asks, Answers
<1>3. \A x, m, n, t : About(x, m, n, t) => (x \in messages' <=> x \in messages)
  BY DEF About, Asks, Answers
<1>4. \A m, n, t : Pending(m, n, t)' <=> Pending(m, n, t)
  BY <1>1, <1>2, <1>3 DEF Pending
<1>5. \A m, t : Missing(m, t)' = Missing(m, t)
  BY <1>4 DEF Missing
<1>6. ListInv'
  BY <1>1 DEF LookupInv, ListInv, ListOK, lookups
<1>7. MessageInv'
  <2>1. ASSUME NEW x \in messages' PROVE MessageOK(x)'
    <3>1. CASE x \in messages
      <4>1. MessageOK(x)
        BY <3>1 DEF LookupInv, MessageInv
      <4> QED
        BY <1>1, <4>1 DEF MessageOK, LookupOK, ResultOK, ForwardOK
    <3>2. CASE ForwardOK(x)
      BY <3>2, ForwardFacts DEF MessageOK, ForwardOK
    <3> QED
      BY <3>1, <3>2
  <2> QED
    BY <2>1 DEF MessageInv
<1>8. OnceInv'
  BY <1>1, <1>2, <1>3 DEF LookupInv, OnceInv, Once
<1>9. CountInv'
  BY <1>5 DEF LookupInv, CountInv, CountOK, lookups
<1>10. FoundInv'
  BY <1>5 DEF LookupInv, FoundInv, FoundOK
<1> QED
  BY <1>6, <1>7, <1>8, <1>9, <1>10 DEF LookupInv

\* A transaction that stays where it is.
LEMMA PlaceSame ==
    ASSUME NEW t \in Txn, PlaceOK(t),
           \A q \in Kind, m \in Machine : At(q, m, t)' <=> At(q, m, t),
           keys'[t] = keys[t], found'[t] = found[t]
    PROVE  PlaceOK(t)'
<1>1. \A m : Decided(m, t)' <=> Decided(m, t)
  BY DEF Decided
<1>2. \A q, m : OnlyAt(q, m, t)' <=> OnlyAt(q, m, t)
  BY DEF OnlyAt
<1>3. Nowhere(t)' <=> Nowhere(t)
  BY DEF Nowhere
<1> QED
  BY <1>1, <1>2, <1>3 DEF PlaceOK, Kind

\* A transaction that is in one place now, where it may be.
LEMMA PlaceNow ==
    ASSUME NEW t \in Txn, NEW q \in Kind, NEW m \in Machine,
           \A p \in Kind, o \in Machine : At(p, o, t)' <=> (p = q /\ o = m),
           keys'[t] # {}, q # "waiting" => Decided(m, t)'
    PROVE  PlaceOK(t)'
BY DEF PlaceOK, OnlyAt

\* In which place it was before.
LEMMA PlaceBefore ==
    ASSUME NEW t \in Txn, PlaceOK(t), NEW q \in Kind, NEW m \in Machine, At(q, m, t)
    PROVE  /\ keys[t] # {}
           /\ \A p \in Kind, o \in Machine : At(p, o, t) <=> (p = q /\ o = m)
           /\ q # "waiting" => Decided(m, t)
<1>1. keys[t] # {}
  BY DEF PlaceOK, Nowhere
<1>2. PICK p \in Kind, o \in Machine : OnlyAt(p, o, t)
  BY <1>1 DEF PlaceOK
<1>3. p = q /\ o = m
  BY <1>2 DEF OnlyAt
<1> QED
  BY <1>1, <1>2, <1>3 DEF PlaceOK, OnlyAt

\* One that is not followed changes nothing else.
LEMMA GetOtherTxnPreserves ==
    ASSUME IInv, NEW m \in Machine, GetOtherTxn(m)
    PROVE  IInv'
<1>1. DomainInv'
  BY DEF IInv, DomainInv, GetOtherTxn, lookups
<1>2. LookupInv'
  BY LookupsSame DEF IInv, GetOtherTxn
<1>3. PlaceInv'
  <2> SUFFICES ASSUME NEW t \in Txn PROVE PlaceOK(t)'
    BY DEF PlaceInv
  <2>1. \A q \in Kind, o \in Machine : At(q, o, t)' <=> At(q, o, t)
    BY DEF At, GetOtherTxn, lookups
  <2> QED
    BY <2>1, PlaceSame DEF IInv, PlaceInv, GetOtherTxn
<1> QED
  BY <1>1, <1>2, <1>3 DEF IInv

\* The batch is over; what waits is kept for the next epoch.
LEMMA EndEpochPreserves ==
    ASSUME IInv, NEW m \in Machine, EndEpoch(m)
    PROVE  IInv'
<1>1. DomainInv'
  <2>1. batch_message' \in [Machine -> SUBSET Txn] /\ submitted' \in [Machine -> SUBSET Txn]
    BY DEF IInv, DomainInv, EndEpoch
  <2> QED
    BY <2>1 DEF IInv, DomainInv, EndEpoch, lookups
<1>2. LookupInv'
  BY LookupsSame DEF IInv, EndEpoch
<1>3. PlaceInv'
  <2> SUFFICES ASSUME NEW t \in Txn PROVE PlaceOK(t)'
    BY DEF PlaceInv
  <2>1. \A o \in Machine : /\ At("waiting", o, t)' <=> At("waiting", o, t)
                           /\ At("sent", o, t)' <=> At("sent", o, t)
    BY DEF At, EndEpoch, lookups
  <2>2. \A o \in Machine :
           /\ At("batch", o, t)' <=> At("batch", o, t) /\ o # m
           /\ At("over", o, t)' <=> At("over", o, t) \/ (At("batch", m, t) /\ o = m)
    BY DEF At, EndEpoch, IInv, DomainInv
  <2>3. CASE ~ At("batch", m, t)
    <3>1. \A q \in Kind, o \in Machine : At(q, o, t)' <=> At(q, o, t)
      BY <2>1, <2>2, <2>3 DEF Kind
    <3> QED
      BY <3>1, PlaceSame DEF IInv, PlaceInv, EndEpoch
  <2>4. CASE At("batch", m, t)
    <3>1. /\ keys[t] # {} /\ Decided(m, t)
          /\ \A p \in Kind, o \in Machine : At(p, o, t) <=> (p = "batch" /\ o = m)
      BY <2>4, PlaceBefore DEF IInv, PlaceInv, Kind
    <3>2. \A p \in Kind, o \in Machine : At(p, o, t)' <=> (p = "over" /\ o = m)
      BY <2>1, <2>2, <3>1 DEF Kind
    <3>3. Decided(m, t)' /\ keys'[t] # {}
      BY <3>1 DEF Decided, EndEpoch
    <3> QED
      BY <3>2, <3>3, PlaceNow DEF Kind
  <2> QED
    BY <2>3, <2>4
<1> QED
  BY <1>1, <1>2, <1>3 DEF IInv

\* The transaction gets from the message into the batch.
LEMMA OnForwardPreserves ==
    ASSUME IInv, NEW m \in Machine, NEW msg \in messages, OnForward(m, msg)
    PROVE  IInv'
<1>1. PICK u \in Txn : msg = Forward(m, u) /\ msg.txn = u
  <2>1. ForwardOK(msg)
    BY DEF IInv, LookupInv, MessageInv, MessageOK, OnForward
  <2> QED
    BY <2>1, ForwardFacts DEF ForwardOK, OnForward
<1>2. DomainInv'
  <2>1. batch_message' \in [Machine -> SUBSET Txn]
    BY <1>1 DEF IInv, DomainInv, OnForward
  <2> QED
    BY <2>1 DEF IInv, DomainInv, OnForward, lookups
<1>3. LookupInv'
  BY LookupsSame DEF IInv, OnForward
<1>4. PlaceInv'
  <2> SUFFICES ASSUME NEW t \in Txn PROVE PlaceOK(t)'
    BY DEF PlaceInv
  <2>1. \A o \in Machine : /\ At("waiting", o, t)' <=> At("waiting", o, t)
                           /\ At("over", o, t)' <=> At("over", o, t)
    BY DEF At, OnForward, lookups
  <2>2. \A o \in Machine :
           /\ At("sent", o, t)' <=> At("sent", o, t) /\ ~ (o = m /\ t = u)
           /\ At("batch", o, t)' <=> At("batch", o, t) \/ (o = m /\ t = u)
    BY <1>1, ForwardFacts DEF At, OnForward, IInv, DomainInv
  <2>3. CASE t # u
    <3>1. \A q \in Kind, o \in Machine : At(q, o, t)' <=> At(q, o, t)
      BY <2>1, <2>2, <2>3 DEF Kind
    <3> QED
      BY <3>1, PlaceSame DEF IInv, PlaceInv, OnForward
  <2>4. CASE t = u
    <3>1. At("sent", m, t)
      BY <1>1, <2>4 DEF At
    <3>2. /\ keys[t] # {} /\ Decided(m, t)
          /\ \A p \in Kind, o \in Machine : At(p, o, t) <=> (p = "sent" /\ o = m)
      BY <3>1, PlaceBefore DEF IInv, PlaceInv, Kind
    <3>3. \A p \in Kind, o \in Machine : At(p, o, t)' <=> (p = "batch" /\ o = m)
      BY <2>1, <2>2, <2>4, <3>2 DEF Kind
    <3>4. Decided(m, t)' /\ keys'[t] # {}
      BY <3>2 DEF Decided, OnForward
    <3> QED
      BY <3>3, <3>4, PlaceNow DEF Kind
  <2> QED
    BY <2>3, <2>4
<1> QED
  BY <1>2, <1>3, <1>4 DEF IInv

\* What was still to be asked for is asked for.
LEMMA SendLookupsPreserves ==
    ASSUME IInv, NEW m \in Machine, SendLookups(m)
    PROVE  IInv'
<1> DEFINE L(n) == Lookup(m, <<m[1], n>>, lookup_master_batch[m][n])
<1>1. /\ \A x \in messages' : x \in messages \/ \E n \in Node : x = L(n)
      /\ messages \subseteq messages'
      /\ \A n \in Node : lookup_master_batch[m][n] # Empty => L(n) \in messages'
  BY DEF SendLookups, NewLookups
<1>2. \A n : /\ L(n).type = "MASTER_LOOKUP" /\ L(n).from = m /\ L(n).to = <<m[1], n>>
             /\ L(n).data = lookup_master_batch[m][n]
  BY LookupFacts
<1> HIDE DEF L
<1>3. /\ DOMAIN lookup_master_batch' = Machine
      /\ \A o \in Machine : DOMAIN lookup_master_batch'[o] = Node
      /\ \A o \in Machine, n \in Node :
            lookup_master_batch'[o][n] = IF o = m THEN Empty ELSE lookup_master_batch[o][n]
  BY DEF IInv, DomainInv, SendLookups
<1>4. DomainInv'
  BY <1>3 DEF IInv, DomainInv, SendLookups
<1>5. /\ \A t, n : Part(t, n)' = Part(t, n)
      /\ \A x, o, n, t : About(x, o, n, t)' <=> About(x, o, n, t)
  BY DEF Part, About, Asks, Answers, SendLookups
<1>6. \A o \in Machine, n \in Node : \A t : Listed(o, n, t)' <=> o # m /\ Listed(o, n, t)
  BY <1>3, EmptyFacts DEF Listed
<1>7. \A n1 \in Node, o \in Machine, n \in Node : \A t :
         About(L(n1), o, n, t) <=> o = m /\ n = n1 /\ Listed(m, n, t)
  <2> TAKE n1 \in Node, o \in Machine, n \in Node
  <2> TAKE t
  <2>1. ~ Answers(L(n1), o, n, t)
    BY <1>2 DEF Answers
  <2>2. Asks(L(n1), o, n, t) <=> m = o /\ <<m[1], n1>> = <<o[1], n>> /\ Listed(m, n1, t)
    BY <1>2 DEF Asks, Listed
  <2> QED
    BY <2>1, <2>2 DEF About
<1>8. \A n \in Node : \A t : Listed(m, n, t) => L(n) \in messages'
  BY <1>1, EmptyFacts DEF Listed
<1>9. \A o \in Machine, n \in Node : \A t : Pending(o, n, t)' <=> Pending(o, n, t)
  BY <1>1, <1>5, <1>6, <1>7, <1>8 DEF Pending
<1>10. \A o \in Machine, t \in Txn : Missing(o, t)' = Missing(o, t)
  BY <1>9, Basics DEF Missing, IInv, DomainInv, SendLookups
<1>11. ListInv'
  <2> SUFFICES ASSUME NEW o \in Machine, NEW n \in Node PROVE ListOK(o, n)'
    BY DEF ListInv
  <2>1. ListOK(o, n)
    BY DEF IInv, LookupInv, ListInv
  <2> QED
    BY <1>3, <1>5, <1>6, <2>1, EmptyFacts DEF ListOK
<1>12. MessageInv'
  <2> SUFFICES ASSUME NEW x \in messages' PROVE MessageOK(x)'
    BY DEF MessageInv
  <2>1. MessageOK(x)
    <3>1. ASSUME NEW n \in Node, x = L(n) PROVE LookupOK(x)
      <4>1. ListOK(m, n)
        BY DEF IInv, LookupInv, ListInv
      <4>2. x.from = m /\ x.to = <<m[1], n>> /\ x.data = lookup_master_batch[m][n]
        BY <1>2, <3>1
      <4> QED
        BY <4>1, <4>2 DEF ListOK, LookupOK, Listed
    <3> QED
      BY <1>1, <1>2, <3>1 DEF IInv, LookupInv, MessageInv, MessageOK
  <2> QED
    BY <1>5, <2>1 DEF MessageOK, LookupOK, ResultOK, ForwardOK
<1>13. OnceInv'
  <2> SUFFICES ASSUME NEW o \in Machine, NEW n \in Node, NEW t \in Txn PROVE Once(o, n, t)'
    BY DEF OnceInv
  <2>1. Once(o, n, t)
    BY DEF IInv, LookupInv, OnceInv
  <2>2. ASSUME NEW x \in messages', About(x, o, n, t)
        PROVE  x \in messages \/ (x = L(n) /\ o = m /\ Listed(o, n, t))
    BY <1>1, <1>7, <2>2
  <2>3. ASSUME NEW x \in messages', NEW y \in messages', About(x, o, n, t), About(y, o, n, t)
        PROVE  x = y
    <3>1. CASE x \in messages /\ y \in messages
      BY <2>1, <2>3, <3>1 DEF Once
    <3>2. CASE x \in messages /\ y = L(n) /\ Listed(o, n, t)
      BY <2>1, <2>3, <3>2 DEF Once
    <3>3. CASE y \in messages /\ x = L(n) /\ Listed(o, n, t)
      BY <2>1, <2>3, <3>3 DEF Once
    <3>4. CASE x = L(n) /\ y = L(n)
      BY <3>4
    <3> QED
      BY <2>2, <2>3, <3>1, <3>2, <3>3, <3>4
  <2>4. ASSUME NEW x \in messages', About(x, o, n, t) PROVE ~ Listed(o, n, t)'
    BY <1>6, <2>1, <2>2, <2>4 DEF Once
  <2> QED
    BY <1>5, <2>3, <2>4 DEF Once
<1>14. CountInv'
  BY <1>10 DEF IInv, LookupInv, CountInv, CountOK, SendLookups
<1>15. FoundInv'
  BY <1>10 DEF IInv, LookupInv, FoundInv, FoundOK, SendLookups
<1>16. PlaceInv'
  <2> SUFFICES ASSUME NEW t \in Txn PROVE PlaceOK(t)'
    BY DEF PlaceInv
  <2>1. \A o \in Machine : Forward(o, t) \in messages' <=> Forward(o, t) \in messages
    BY <1>1, <1>2, ForwardFacts
  <2>2. \A q \in Kind, o \in Machine : At(q, o, t)' <=> At(q, o, t)
    BY <2>1 DEF At, SendLookups
  <2> QED
    BY <2>2, PlaceSame DEF IInv, PlaceInv, SendLookups
<1> QED
  BY <1>4, <1>11, <1>12, <1>13, <1>14, <1>15, <1>16 DEF IInv, LookupInv

\* The answer is about what the message asks for.
LEMMA OnLookupPreserves ==
    ASSUME IInv, NEW m \in Machine, NEW msg \in messages, OnLookup(m, msg)
    PROVE  IInv'
<1>1. PICK master \in [UNION Range(msg.data) -> Replica] :
         messages' = (messages \ {msg}) \cup
            {[type |-> "MASTER_LOOKUP_RESULT", to |-> msg.from,
              data |-> [t \in DOMAIN msg.data |-> [k \in msg.data[t] |-> master[k]]]]}
  BY DEF OnLookup
<1> DEFINE d == [t \in DOMAIN msg.data |-> [k \in msg.data[t] |-> master[k]]]
           y == [type |-> "MASTER_LOOKUP_RESULT", to |-> msg.from, data |-> d]
<1>2. msg.type = "MASTER_LOOKUP" /\ LookupOK(msg) /\ msg.from \in Machine
  BY DEF IInv, LookupInv, MessageInv, MessageOK, LookupOK, OnLookup
<1>3. PICK n0 \in Node : /\ msg.to = <<msg.from[1], n0>>
                         /\ \A t \in DOMAIN msg.data : msg.data[t] = Part(t, n0) /\ Part(t, n0) # {}
  BY <1>2 DEF LookupOK
<1>4. messages' = (messages \ {msg}) \cup {y}
  BY <1>1
<1>5. y.type = "MASTER_LOOKUP_RESULT" /\ y.to = msg.from /\ y.data = d
  OBVIOUS
<1>6. /\ DOMAIN d = DOMAIN msg.data
      /\ \A t \in DOMAIN msg.data : d[t] \in [Part(t, n0) -> Replica]
  <2>1. DOMAIN d = DOMAIN msg.data
    OBVIOUS
  <2>2. ASSUME NEW t \in DOMAIN msg.data PROVE d[t] \in [Part(t, n0) -> Replica]
    <3>1. d[t] = [k \in msg.data[t] |-> master[k]]
      OBVIOUS
    <3>2. msg.data[t] \in Range(msg.data)
      BY DEF Range
    <3>3. \A k \in msg.data[t] : k \in UNION Range(msg.data)
      BY <3>2
    <3>4. \A k \in msg.data[t] : master[k] \in Replica
      BY <3>3
    <3>5. msg.data[t] = Part(t, n0)
      BY <1>3
    <3> HIDE DEF d
    <3> QED
      BY <3>1, <3>4, <3>5
  <2> QED
    BY <2>1, <2>2
<1> HIDE DEF d, y
<1>7. DomainInv'
  BY DEF IInv, DomainInv, OnLookup, lookups
<1>8. /\ \A t, n : Part(t, n)' = Part(t, n)
      /\ \A x, o, n, t : About(x, o, n, t)' <=> About(x, o, n, t)
      /\ \A o, n, t : Listed(o, n, t)' <=> Listed(o, n, t)
  BY DEF Part, About, Asks, Answers, Listed, OnLookup, lookups
<1>9. \A o \in Machine, n \in Node : \A t : About(y, o, n, t) <=> About(msg, o, n, t)
  <2> TAKE o \in Machine, n \in Node
  <2> TAKE t
  <2>1. ~ Asks(y, o, n, t) /\ ~ Answers(msg, o, n, t)
    BY <1>2, <1>5 DEF Asks, Answers
  <2>2. Asks(msg, o, n, t) <=> msg.from = o /\ n = n0 /\ t \in DOMAIN msg.data
    BY <1>2, <1>3 DEF Asks
  <2>3. Answers(y, o, n, t) <=> msg.from = o /\ n = n0 /\ t \in DOMAIN msg.data
    <3>1. Answers(y, o, n, t) <=> msg.from = o /\ t \in DOMAIN msg.data /\ DOMAIN d[t] = Part(t, n)
      BY <1>5, <1>6 DEF Answers
    <3>2. t \in DOMAIN msg.data => DOMAIN d[t] = Part(t, n0) /\ Part(t, n0) # {}
      BY <1>3, <1>6
    <3> QED
      BY <3>1, <3>2, PartFacts
  <2> QED
    BY <2>1, <2>2, <2>3 DEF About
<1>10. \A o \in Machine, n \in Node : \A t : Pending(o, n, t)' <=> Pending(o, n, t)
  BY <1>4, <1>8, <1>9 DEF Pending
<1>11. \A o \in Machine, t \in Txn : Missing(o, t)' = Missing(o, t)
  BY <1>10, Basics DEF Missing, IInv, DomainInv, OnLookup
<1>12. ListInv'
  BY <1>8 DEF IInv, LookupInv, ListInv, ListOK, OnLookup, lookups
<1>13. MessageInv'
  <2> SUFFICES ASSUME NEW x \in messages' PROVE MessageOK(x)'
    BY DEF MessageInv
  <2>1. MessageOK(x)
    <3>1. ResultOK(y)
      BY <1>2, <1>3, <1>5, <1>6 DEF ResultOK, LookupOK
    <3> QED
      BY <1>4, <1>5, <3>1 DEF IInv, LookupInv, MessageInv, MessageOK
  <2> QED
    BY <1>8, <2>1 DEF MessageOK, LookupOK, ResultOK, ForwardOK
<1>14. OnceInv'
  <2> SUFFICES ASSUME NEW o \in Machine, NEW n \in Node, NEW t \in Txn PROVE Once(o, n, t)'
    BY DEF OnceInv
  <2>1. Once(o, n, t)
    BY DEF IInv, LookupInv, OnceInv
  <2>2. ASSUME NEW x \in messages', About(x, o, n, t)
        PROVE  \/ x \in messages /\ x # msg
               \/ x = y /\ About(msg, o, n, t)
    BY <1>4, <1>9, <2>2
  <2>3. ASSUME NEW x \in messages', NEW z \in messages', About(x, o, n, t), About(z, o, n, t)
        PROVE  x = z
    BY <2>1, <2>2, <2>3 DEF Once
  <2>4. ASSUME NEW x \in messages', About(x, o, n, t) PROVE ~ Listed(o, n, t)
    BY <2>1, <2>2, <2>4 DEF Once
  <2> QED
    BY <1>8, <2>3, <2>4 DEF Once
<1>15. CountInv'
  BY <1>11 DEF IInv, LookupInv, CountInv, CountOK, OnLookup, lookups
<1>16. FoundInv'
  BY <1>11 DEF IInv, LookupInv, FoundInv, FoundOK, OnLookup
<1>17. PlaceInv'
  <2> SUFFICES ASSUME NEW t \in Txn PROVE PlaceOK(t)'
    BY DEF PlaceInv
  <2>1. \A o \in Machine : Forward(o, t) \in messages' <=> Forward(o, t) \in messages
    BY <1>2, <1>4, <1>5, ForwardFacts
  <2>2. \A q \in Kind, o \in Machine : At(q, o, t)' <=> At(q, o, t)
    BY <2>1 DEF At, OnLookup, lookups
  <2> QED
    BY <2>2, PlaceSame DEF IInv, PlaceInv, OnLookup
<1> QED
  BY <1>7, <1>12, <1>13, <1>14, <1>15, <1>16, <1>17 DEF IInv, LookupInv

\* What Place() does with the transactions T, which are sent or put into the batch of a
\* machine of the right replica, and with the others.
Placed(T, f, others) ==
    /\ batch_message' \in [Machine -> SUBSET Txn]
    /\ \A x : x.type # "TXN_FORWORD" => (x \in messages' <=> x \in others)
    /\ \A x \in messages' : x \in others \/ ForwardOK(x)
    /\ \A t \in Txn \ T, o \in Machine :
          /\ Forward(o, t) \in messages' <=> Forward(o, t) \in others
          /\ t \in batch_message'[o] <=> t \in batch_message[o]
    /\ \A t \in T : \E q \in {"sent", "batch"}, o \in Machine :
          /\ Home(o, f[t]) = o[1]
          /\ \A p \in Machine :
                /\ Forward(p, t) \in messages' <=>
                      Forward(p, t) \in others \/ (q = "sent" /\ p = o)
                /\ t \in batch_message'[p] <=>
                      t \in batch_message[p] \/ (q = "batch" /\ p = o)

\* Place() does so.
LEMMA PlaceFacts ==
    ASSUME DomainInv, NEW m \in Machine, NEW T \in SUBSET Txn, NEW f, NEW others,
           Place(m, T, f, others)
    PROVE  Placed(T, f, others)
<1> DEFINE stay == {t \in T : Home(m, f[t]) = m[1]}
<1>1. batch_message' = [batch_message EXCEPT ![m] = @ \cup stay]
  BY DEF Place
<1>2. PICK to \in [T \ stay -> Machine] :
         /\ \A t \in T \ stay : to[t][1] = Home(m, f[t])
         /\ messages' = others \cup {Forward(to[t], t) : t \in T \ stay}
  BY DEF Place
<1>3. stay \subseteq T /\ \A t \in stay : Home(m, f[t]) = m[1]
  OBVIOUS
<1> HIDE DEF stay
<1>4. /\ batch_message' \in [Machine -> SUBSET Txn]
      /\ \A t \in Txn, o \in Machine :
            t \in batch_message'[o] <=> t \in batch_message[o] \/ (o = m /\ t \in stay)
  BY <1>1, <1>3 DEF DomainInv
<1>5. \A t \in Txn, o \in Machine :
         Forward(o, t) \in messages' <=>
            Forward(o, t) \in others \/ (t \in T \ stay /\ o = to[t])
  <2> TAKE t \in Txn, o \in Machine
  <2>1. (\E u \in T \ stay : Forward(o, t) = Forward(to[u], u)) <=>
           t \in T \ stay /\ o = to[t]
    BY ForwardFacts
  <2> QED
    BY <1>2, <2>1
<1>6. \A x \in messages' : x \in others \/ ForwardOK(x)
  BY <1>2 DEF ForwardOK
<1>7. \A x : x.type # "TXN_FORWORD" => (x \in messages' <=> x \in others)
  BY <1>2, ForwardFacts
<1>8. ASSUME NEW t \in T
      PROVE  \E q \in {"sent", "batch"}, o \in Machine :
                /\ Home(o, f[t]) = o[1]
                /\ \A p \in Machine :
                      /\ Forward(p, t) \in messages' <=>
                            Forward(p, t) \in others \/ (q = "sent" /\ p = o)
                      /\ t \in batch_message'[p] <=>
                            t \in batch_message[p] \/ (q = "batch" /\ p = o)
  <2>1. CASE t \in stay
    <3> WITNESS "batch" \in {"sent", "batch"}, m \in Machine
    <3> QED
      BY <1>3, <1>4, <1>5, <2>1
  <2>2. CASE t \notin stay
    <3>1. to[t] \in Machine /\ to[t][1] = Home(m, f[t])
      BY <1>2, <2>2
    <3>2. Home(to[t], f[t]) = Home(m, f[t])
      BY HomeFacts
    <3>3. PICK o \in Machine : o = to[t]
      BY <3>1
    <3> WITNESS "sent" \in {"sent", "batch"}, o \in Machine
    <3> QED
      BY <1>4, <1>5, <2>2, <3>1, <3>2, <3>3
  <2> QED
    BY <2>1, <2>2
<1> QED
  BY <1>3, <1>4, <1>5, <1>6, <1>7, <1>8 DEF Placed

\* One more entry.
Extended(old, t, p) == Merge([u \in {t} |-> p], old)

\* Nothing is known of a transaction before a client makes it.
LEMMA NotMadeFacts ==
    ASSUME IInv, NEW t \in Txn, keys[t] = {}
    PROVE  /\ \A n : Part(t, n) = {}
           /\ \A m \in Machine, n \in Node : ~ Listed(m, n, t)
           /\ \A m \in Machine, n \in Node, x \in messages : ~ About(x, m, n, t)
           /\ \A m \in Machine : expected_master_lookups[m][t] = 0
           /\ DOMAIN found[t] = {}
           /\ Nowhere(t)
<1>1. \A n : Part(t, n) = {}
  BY DEF Part
<1>2. \A m \in Machine, n \in Node : ~ Pending(m, n, t)
  BY <1>1, PendingFacts DEF IInv
<1>3. ASSUME NEW m \in Machine PROVE expected_master_lookups[m][t] = 0
  <2>1. Missing(m, t) = {}
    BY DEF Missing
  <2> QED
    BY <2>1, FS_EmptySet DEF IInv, LookupInv, CountInv, CountOK
<1>4. DOMAIN found[t] = {}
  BY DEF IInv, LookupInv, FoundInv, FoundOK
<1>5. Nowhere(t)
  BY DEF IInv, PlaceInv, PlaceOK
<1> QED
  BY <1>1, <1>2, <1>3, <1>4, <1>5 DEF Pending

\* The lookups of a new transaction are listed.
LEMMA GetTxnPreserves ==
    ASSUME IInv, NEW m \in Machine, NEW t \in Txn, NEW K \in KeySets, GetTxn(m, t, K)
    PROVE  IInv'
<1> DEFINE remote == K \ LocalKeys(m, K)
           asked  == {Partition[k] : k \in remote}
           T      == IF remote = {} THEN {t} ELSE {}
<1>0. PICK P : P = [n \in asked |-> {k \in remote : Partition[k] = n}]
  OBVIOUS
<1>1. /\ keys[t] = {}
      /\ keys' = [keys EXCEPT ![t] = K]
      /\ lookup_master_batch' = [lookup_master_batch EXCEPT
            ![m] = [n \in Node |-> IF n \in asked
                       THEN Extended(@[n], t, P[n]) ELSE @[n]]]
      /\ submitted' = submitted
  BY <1>0 DEF GetTxn, Made, Extended
<1>2. expected_master_lookups' = [expected_master_lookups EXCEPT ![m][t] = Cardinality(remote)]
  BY DEF GetTxn, RemoteCount
<1>3. PICK f \in [LocalKeys(m, K) -> Replica] :
         /\ found' = [found EXCEPT ![t] = f]
         /\ Place(m, T, [found EXCEPT ![t] = f], messages)
  BY DEF GetTxn
<1>4. /\ K \subseteq Key /\ K # {} /\ IsFiniteSet(K)
      /\ LocalKeys(m, K) = {k \in K : Partition[k] = m[2]}
      /\ LocalKeys(m, K) = K \ remote /\ remote \subseteq K
  BY Basics DEF LocalKeys
<1>5. /\ \A k \in K : k \in remote <=> Partition[k] \in asked
      /\ \A n \in asked : P[n] = {k \in K : Partition[k] = n}
      /\ \A n \in asked : {k \in K : Partition[k] = n} # {}
  BY <1>0, <1>4
<1>6. IsFiniteSet(remote) /\ Cardinality(remote) \in Nat
  BY <1>4, FS_Subset, FS_CardinalityType
<1>7. Cardinality(remote) = 0 <=> remote = {}
  BY <1>6, FS_EmptySet
<1>8. T \in SUBSET Txn
  OBVIOUS
<1> DEFINE g == [found EXCEPT ![t] = f]
<1>9. /\ DOMAIN g = Txn /\ g[t] = f /\ \A u \in Txn \ {t} : g[u] = found[u]
      /\ found' = g /\ Place(m, T, g, messages)
  BY <1>3 DEF IInv, DomainInv
<1>10. /\ DOMAIN lookup_master_batch' = Machine
       /\ \A o \in Machine : DOMAIN lookup_master_batch'[o] = Node
       /\ \A o \in Machine, n \in Node :
             lookup_master_batch'[o][n] =
                IF o = m /\ n \in asked THEN Extended(lookup_master_batch[o][n], t, P[n])
                                       ELSE lookup_master_batch[o][n]
  BY <1>1 DEF IInv, DomainInv
<1> HIDE DEF asked, remote, T, g
<1>11. /\ \A u \in Txn : keys'[u] = IF u = t THEN K ELSE keys[u]
       /\ \A u \in Txn \ {t} : \A n : Part(u, n)' = Part(u, n)
       /\ \A n : Part(t, n)' = {k \in K : Partition[k] = n}
  <2>1. \A u \in Txn : keys'[u] = IF u = t THEN K ELSE keys[u]
    BY <1>1 DEF IInv, DomainInv
  <2> QED
    BY <2>1 DEF Part
<1>12. /\ \A n : Part(t, n) = {}
       /\ \A o \in Machine, n \in Node : ~ Listed(o, n, t)
       /\ \A o \in Machine, n \in Node, x \in messages : ~ About(x, o, n, t)
       /\ \A o \in Machine : expected_master_lookups[o][t] = 0
       /\ Nowhere(t)
  BY <1>1, NotMadeFacts
<1>13. /\ batch_message' \in [Machine -> SUBSET Txn]
       /\ \A x : x.type # "TXN_FORWORD" => (x \in messages' <=> x \in messages)
       /\ \A x \in messages' : x \in messages \/ ForwardOK(x)
       /\ \A u \in Txn \ T, o \in Machine :
             /\ Forward(o, u) \in messages' <=> Forward(o, u) \in messages
             /\ u \in batch_message'[o] <=> u \in batch_message[o]
       /\ \A u \in T : \E q \in {"sent", "batch"}, o \in Machine :
             /\ Home(o, g[u]) = o[1]
             /\ \A p \in Machine :
                   /\ Forward(p, u) \in messages' <=>
                         Forward(p, u) \in messages \/ (q = "sent" /\ p = o)
                   /\ u \in batch_message'[p] <=>
                         u \in batch_message[p] \/ (q = "batch" /\ p = o)
  <2>1. Placed(T, g, messages)
    BY <1>8, <1>9, PlaceFacts DEF IInv
  <2> QED
    BY <2>1 DEF Placed
<1>14. /\ expected_master_lookups' \in [Machine -> [Txn -> Nat]]
       /\ \A o \in Machine, u \in Txn :
             expected_master_lookups'[o][u] =
                IF o = m /\ u = t THEN Cardinality(remote) ELSE expected_master_lookups[o][u]
  BY <1>2, <1>6 DEF IInv, DomainInv
<1>15. DomainInv'
  <2>1. keys' \in [Txn -> SUBSET Key] /\ \A u \in Txn : IsFiniteSet(keys'[u])
    BY <1>1, <1>4, <1>11 DEF IInv, DomainInv
  <2> QED
    BY <1>1, <1>9, <1>10, <1>13, <1>14, <2>1 DEF IInv, DomainInv
<1>16. \A o \in Machine, n \in Node :
          /\ Listed(o, n, t)' <=> o = m /\ n \in asked
          /\ \A u \in Txn \ {t} : Listed(o, n, u)' <=> Listed(o, n, u)
          /\ \A u \in Txn \ {t} : Listed(o, n, u) =>
                lookup_master_batch'[o][n][u] = lookup_master_batch[o][n][u]
          /\ DOMAIN lookup_master_batch'[o][n] \subseteq DOMAIN lookup_master_batch[o][n] \cup {t}
          /\ o = m /\ n \in asked => lookup_master_batch'[o][n][t] = Part(t, n)'
  <2> TAKE o \in Machine, n \in Node
  <2>1. t \notin DOMAIN lookup_master_batch[o][n]
    BY <1>12 DEF Listed
  <2>2. CASE o = m /\ n \in asked
    <3>1. lookup_master_batch'[o][n] =
             Extended(lookup_master_batch[o][n], t, P[n])
      BY <1>10, <2>2
    <3>2. /\ DOMAIN lookup_master_batch'[o][n] = DOMAIN lookup_master_batch[o][n] \cup {t}
          /\ lookup_master_batch'[o][n][t] = P[n]
          /\ \A u \in DOMAIN lookup_master_batch[o][n] :
                lookup_master_batch'[o][n][u] = lookup_master_batch[o][n][u]
      BY <2>1, <3>1 DEF Extended, Merge
    <3> QED
      BY <1>5, <1>11, <2>2, <3>2 DEF Listed
  <2>3. CASE ~ (o = m /\ n \in asked)
    <3>1. lookup_master_batch'[o][n] = lookup_master_batch[o][n]
      BY <1>10, <2>3
    <3> QED
      BY <2>1, <2>3, <3>1 DEF Listed
  <2> QED
    BY <2>2, <2>3
<1>17. /\ \A u \in Txn \ {t} : \A x, o, n : About(x, o, n, u)' <=> About(x, o, n, u)
       /\ \A x \in messages', o \in Machine, n \in Node : ~ About(x, o, n, t)'
  <2>1. \A u \in Txn \ {t} : \A x, o, n : About(x, o, n, u)' <=> About(x, o, n, u)
    BY <1>11 DEF About, Asks, Answers
  <2>2. ASSUME NEW x \in messages', NEW o \in Machine, NEW n \in Node, About(x, o, n, t)'
        PROVE  FALSE
    <3>1. /\ x \in messages /\ t \in DOMAIN x.data
          /\ x.type = "MASTER_LOOKUP" \/ x.type = "MASTER_LOOKUP_RESULT"
      BY <1>13, <2>2 DEF About, Asks, Answers
    <3>2. MessageOK(x)
      BY <3>1 DEF IInv, LookupInv, MessageInv
    <3>3. CASE x.type = "MASTER_LOOKUP"
      BY <1>12, <3>1, <3>2, <3>3 DEF MessageOK, LookupOK
    <3>4. CASE x.type = "MASTER_LOOKUP_RESULT"
      BY <1>12, <3>1, <3>2, <3>4 DEF MessageOK, ResultOK
    <3> QED
      BY <3>1, <3>3, <3>4
  <2> QED
    BY <2>1, <2>2
<1>18. \A x, o, n, u : About(x, o, n, u) => (x \in messages' <=> x \in messages)
  BY <1>13 DEF About, Asks, Answers
<1>19. \A u \in Txn \ {t}, o \in Machine : Missing(o, u)' = Missing(o, u)
  <2>1. \A u \in Txn \ {t}, o \in Machine, n \in Node : Pending(o, n, u)' <=> Pending(o, n, u)
    BY <1>16, <1>17, <1>18 DEF Pending
  <2> QED
    BY <1>11, <2>1, Basics DEF Missing, IInv, DomainInv
<1>20. \A o \in Machine : Missing(o, t)' = IF o = m THEN remote ELSE {}
  <2>1. \A o \in Machine, n \in Node : Pending(o, n, t)' <=> o = m /\ n \in asked
    BY <1>16, <1>17 DEF Pending
  <2>2. \A k \in K : Partition[k] \in Node
    BY <1>4, Basics
  <2> QED
    BY <1>4, <1>5, <1>11, <2>1, <2>2 DEF Missing
<1>21. ListInv'
  <2> SUFFICES ASSUME NEW o \in Machine, NEW n \in Node PROVE ListOK(o, n)'
    BY DEF ListInv
  <2>1. ListOK(o, n)
    BY DEF IInv, LookupInv, ListInv
  <2>2. DOMAIN lookup_master_batch'[o][n] \subseteq Txn
    BY <1>16, <2>1 DEF ListOK
  <2>3. ASSUME NEW u \in Txn, Listed(o, n, u)'
        PROVE  lookup_master_batch'[o][n][u] = Part(u, n)' /\ Part(u, n)' # {}
    <3>1. CASE u = t
      BY <1>5, <1>11, <1>16, <2>3, <3>1
    <3>2. CASE u # t
      BY <1>11, <1>16, <2>1, <2>3, <3>2 DEF ListOK
    <3> QED
      BY <3>1, <3>2
  <2> QED
    BY <2>2, <2>3 DEF ListOK
<1>22. MessageInv'
  <2> SUFFICES ASSUME NEW x \in messages' PROVE MessageOK(x)'
    BY DEF MessageInv
  <2>1. CASE ForwardOK(x)
    BY <2>1, ForwardFacts DEF MessageOK, ForwardOK
  <2>2. CASE x \in messages
    <3>1. MessageOK(x)
      BY <2>2 DEF IInv, LookupInv, MessageInv
    <3>2. CASE x.type = "MASTER_LOOKUP" /\ LookupOK(x)
      <4>1. t \notin DOMAIN x.data
        BY <1>12, <3>2 DEF LookupOK
      <4> QED
        BY <1>11, <3>2, <4>1 DEF MessageOK, LookupOK
    <3>3. CASE x.type = "MASTER_LOOKUP_RESULT" /\ ResultOK(x)
      <4>1. t \notin DOMAIN x.data
        BY <1>12, <3>3 DEF ResultOK
      <4> QED
        BY <1>11, <3>3, <4>1 DEF MessageOK, ResultOK
    <3> QED
      BY <3>1, <3>2, <3>3 DEF MessageOK, ForwardOK
  <2> QED
    BY <1>13, <2>1, <2>2
<1>23. OnceInv'
  <2> SUFFICES ASSUME NEW o \in Machine, NEW n \in Node, NEW u \in Txn PROVE Once(o, n, u)'
    BY DEF OnceInv
  <2>1. CASE u = t
    BY <1>17, <2>1 DEF Once
  <2>2. CASE u # t
    <3>1. Once(o, n, u)
      BY DEF IInv, LookupInv, OnceInv
    <3> QED
      BY <1>16, <1>17, <1>18, <2>2, <3>1 DEF Once
  <2> QED
    BY <2>1, <2>2
<1>24. CountInv'
  <2> SUFFICES ASSUME NEW o \in Machine, NEW u \in Txn PROVE CountOK(o, u)'
    BY DEF CountInv
  <2>1. expected_master_lookups[o][u] = Cardinality(Missing(o, u))
    BY DEF IInv, LookupInv, CountInv, CountOK
  <2>2. expected_master_lookups'[o][u] = Cardinality(Missing(o, u)')
    BY <1>12, <1>14, <1>19, <1>20, <2>1, FS_EmptySet
  <2> QED
    BY <2>2 DEF CountOK
<1>25. FoundInv'
  <2> SUFFICES ASSUME NEW u \in Txn PROVE FoundOK(u)'
    BY DEF FoundInv
  <2>1. CASE u = t
    <3>1. found'[u] = f /\ keys'[u] = K
      BY <1>9, <1>11, <2>1
    <3>2. DOMAIN found'[u] = K \ remote /\ \A k \in DOMAIN found'[u] : found'[u][k] \in Replica
      BY <1>4, <3>1
    <3>3. \A o \in Machine : Missing(o, u)' # {} =>
                                Missing(o, u)' = keys'[u] \ DOMAIN found'[u]
      BY <1>4, <1>20, <2>1, <3>1, <3>2
    <3> QED
      BY <3>1, <3>2, <3>3 DEF FoundOK
  <2>2. CASE u # t
    <3>1. FoundOK(u)
      BY DEF IInv, LookupInv, FoundInv
    <3>2. found'[u] = found[u] /\ keys'[u] = keys[u]
      BY <1>9, <1>11, <2>2
    <3> QED
      BY <1>19, <2>2, <3>1, <3>2 DEF FoundOK
  <2> QED
    BY <2>1, <2>2
<1>26. PlaceInv'
  <2> SUFFICES ASSUME NEW u \in Txn PROVE PlaceOK(u)'
    BY DEF PlaceInv
  <2>1. CASE u # t
    <3>1. u \in Txn \ T
      BY <2>1 DEF T
    <3>2. \A q \in Kind, o \in Machine : At(q, o, u)' <=> At(q, o, u)
      BY <1>1, <1>13, <1>14, <2>1, <3>1 DEF At
    <3>3. found'[u] = found[u] /\ keys'[u] = keys[u]
      BY <1>9, <1>11, <2>1
    <3> QED
      BY <3>2, <3>3, PlaceSame DEF IInv, PlaceInv
  <2>2. \A q \in Kind, o \in Machine : ~ At(q, o, t)
    BY <1>12 DEF Nowhere
  <2>3. keys'[t] # {} /\ keys'[t] = K /\ found'[t] = f
    BY <1>4, <1>9, <1>11
  <2>4. CASE u = t /\ remote = {}
    <3>1. t \in T
      BY <2>4 DEF T
    <3>2. PICK q \in {"sent", "batch"}, o \in Machine :
             /\ Home(o, g[t]) = o[1]
             /\ \A p \in Machine :
                   /\ Forward(p, t) \in messages' <=>
                         Forward(p, t) \in messages \/ (q = "sent" /\ p = o)
                   /\ t \in batch_message'[p] <=>
                         t \in batch_message[p] \/ (q = "batch" /\ p = o)
      BY <1>13, <3>1
    <3>3. \A p \in Machine : /\ ~ (expected_master_lookups'[p][t] > 0)
                             /\ t \notin submitted'[p]
                             /\ Forward(p, t) \notin messages /\ t \notin batch_message[p]
      BY <1>1, <1>7, <1>12, <1>14, <2>2, <2>4 DEF At, Kind
    <3>4. \A r \in Kind, p \in Machine : At(r, p, t)' <=> (r = q /\ p = o)
      BY <3>2, <3>3 DEF At, Kind
    <3>5. Decided(o, t)'
      <4>1. DOMAIN f = K /\ Home(o, f) = o[1]
        BY <1>4, <1>9, <2>4, <3>2
      <4> QED
        BY <2>3, <4>1 DEF Decided
    <3> QED
      BY <2>3, <2>4, <3>2, <3>4, <3>5, PlaceNow DEF Kind
  <2>5. CASE u = t /\ remote # {}
    <3>1. t \in Txn \ T
      BY <2>5 DEF T
    <3>2. Cardinality(remote) > 0
      BY <1>6, <1>7, <2>5
    <3>3. \A p \in Machine : /\ expected_master_lookups'[p][t] > 0 <=> p = m
                             /\ t \notin submitted'[p]
                             /\ Forward(p, t) \notin messages' /\ t \notin batch_message'[p]
      BY <1>1, <1>12, <1>13, <1>14, <2>2, <3>1, <3>2 DEF At, Kind
    <3>4. \A r \in Kind, p \in Machine : At(r, p, t)' <=> (r = "waiting" /\ p = m)
      BY <3>3 DEF At, Kind
    <3> QED
      BY <2>3, <2>5, <3>4, PlaceNow DEF Kind
  <2> QED
    BY <2>1, <2>4, <2>5
<1> QED
  BY <1>15, <1>21, <1>22, <1>23, <1>24, <1>25, <1>26 DEF IInv, LookupInv

\* The keys of an answer are missing no more; without missing keys a transaction is placed.
LEMMA OnLookupResultPreserves ==
    ASSUME IInv, NEW m \in Machine, NEW msg \in messages, OnLookupResult(m, msg)
    PROVE  IInv'
<1>1. PICK T : T = DOMAIN msg.data
  OBVIOUS
<1>2. PICK left : left = [t \in Txn |-> expected_master_lookups[m][t] -
                             (IF t \in T THEN Cardinality(DOMAIN msg.data[t]) ELSE 0)]
  OBVIOUS
<1>3. PICK g : g = [t \in Txn |-> IF t \in T THEN Merge(msg.data[t], found[t]) ELSE found[t]]
  OBVIOUS
<1>4. PICK Z : Z = {t \in T : left[t] = 0}
  OBVIOUS
<1>5. /\ msg.type = "MASTER_LOOKUP_RESULT" /\ msg.to = m
      /\ expected_master_lookups' = [expected_master_lookups EXCEPT ![m] = left]
      /\ found' = g
      /\ Place(m, Z, g, messages \ {msg})
      /\ UNCHANGED <<keys, epoch, lookup_master_batch, submitted>>
  BY <1>1, <1>2, <1>3, <1>4 DEF OnLookupResult
<1>6. T \subseteq Txn /\ ResultOK(msg)
  BY <1>1, <1>5 DEF IInv, LookupInv, MessageInv, MessageOK, ResultOK
<1>7. PICK N \in [T -> Node] : \A t \in T : /\ msg.data[t] \in [Part(t, N[t]) -> Replica]
                                            /\ Part(t, N[t]) # {}
  <2> DEFINE OK(t, n) == msg.data[t] \in [Part(t, n) -> Replica] /\ Part(t, n) # {}
  <2>1. \A t \in T : \E n \in Node : OK(t, n)
    BY <1>1, <1>6 DEF ResultOK
  <2> DEFINE M == [t \in T |-> CHOOSE n \in Node : OK(t, n)]
  <2>2. M \in [T -> Node] /\ \A t \in T : OK(t, M[t])
    BY <2>1
  <2> QED
    BY <2>2
<1>8. \A t \in T : DOMAIN msg.data[t] = Part(t, N[t])
  BY <1>7
<1>9. Placed(Z, g, messages \ {msg})
  BY <1>4, <1>5, <1>6, PlaceFacts DEF IInv
<1>10. /\ \A x : x.type # "TXN_FORWORD" => (x \in messages' <=> x \in messages /\ x # msg)
       /\ \A x \in messages' : x \in messages \/ ForwardOK(x)
  BY <1>9 DEF Placed
<1>11. /\ \A t, n : Part(t, n)' = Part(t, n)
       /\ \A o, n, t : Listed(o, n, t)' <=> Listed(o, n, t)
       /\ \A x, o, n, t : About(x, o, n, t)' <=> About(x, o, n, t)
  BY <1>5 DEF Part, Listed, About, Asks, Answers
<1>12. \A o, n, t : About(msg, o, n, t) <=> o = m /\ t \in T /\ n = N[t]
  <2> TAKE o, n, t
  <2>1. About(msg, o, n, t) <=> o = m /\ t \in T /\ DOMAIN msg.data[t] = Part(t, n)
    BY <1>1, <1>5 DEF About, Asks, Answers
  <2> QED
    BY <1>7, <1>8, <2>1, PartFacts
<1>13. \A x, o, n, t : About(x, o, n, t) => (x \in messages' <=> x \in messages /\ x # msg)
  BY <1>10 DEF About, Asks, Answers
<1>14. \A o \in Machine, n \in Node, t \in Txn :
          Pending(o, n, t)' <=> Pending(o, n, t) /\ ~ (o = m /\ t \in T /\ n = N[t])
  <2> TAKE o \in Machine, n \in Node, t \in Txn
  <2>1. Once(o, n, t)
    BY DEF IInv, LookupInv, OnceInv
  <2>2. Pending(o, n, t)' <=>
           Listed(o, n, t) \/ \E x \in messages : x # msg /\ About(x, o, n, t)
    BY <1>11, <1>13 DEF Pending
  <2>3. CASE About(msg, o, n, t)
    BY <1>12, <2>1, <2>2, <2>3 DEF Once
  <2>4. CASE ~ About(msg, o, n, t)
    BY <1>12, <2>2, <2>4 DEF Pending
  <2> QED
    BY <2>3, <2>4
<1>15. \A t \in T : Pending(m, N[t], t)
  BY <1>12 DEF Pending
<1>16. \A t \in T : Part(t, N[t]) \subseteq Missing(m, t) /\ expected_master_lookups[m][t] > 0
  BY <1>6, <1>7, <1>15, PendingFacts DEF IInv
<1>17. \A o \in Machine, t \in Txn :
          Missing(o, t)' = IF o = m /\ t \in T THEN Missing(o, t) \ Part(t, N[t])
                                               ELSE Missing(o, t)
  <2> TAKE o \in Machine, t \in Txn
  <2>1. keys'[t] = keys[t] /\ \A k \in keys[t] : Partition[k] \in Node
    BY <1>5, Basics DEF IInv, DomainInv
  <2>2. Missing(o, t)' = {k \in keys[t] : Pending(o, Partition[k], t)
                                          /\ ~ (o = m /\ t \in T /\ Partition[k] = N[t])}
    BY <1>14, <2>1 DEF Missing
  <2> QED
    BY <2>2 DEF Missing, Part
<1>18. \A o \in Machine, t \in Txn :
          expected_master_lookups[o][t] = Cardinality(Missing(o, t))
  BY DEF IInv, LookupInv, CountInv, CountOK
<1>19. \A t \in Txn : left[t] = Cardinality(Missing(m, t)') /\ left[t] \in Nat
  <2> TAKE t \in Txn
  <2>1. /\ IsFiniteSet(Missing(m, t)) /\ Cardinality(Missing(m, t)) \in Nat
        /\ expected_master_lookups[m][t] = Cardinality(Missing(m, t))
    BY <1>18, MissingFacts DEF IInv
  <2>2. CASE t \in T
    <3> DEFINE A == Missing(m, t)
               B == Part(t, N[t])
    <3>1. B \subseteq A /\ A \cap B = B /\ IsFiniteSet(A)
      BY <1>16, <2>1, <2>2
    <3>2. Missing(m, t)' = A \ B
      BY <1>17, <2>2
    <3>3. left[t] = Cardinality(A) - Cardinality(B)
      BY <1>2, <1>8, <2>1, <2>2
    <3> HIDE DEF A, B
    <3>4. IsFiniteSet(A \ B) /\ Cardinality(A \ B) = Cardinality(A) - Cardinality(B)
      BY <3>1, FS_Difference
    <3>5. Cardinality(A \ B) \in Nat
      BY <3>4, FS_CardinalityType
    <3> QED
      BY <3>2, <3>3, <3>4, <3>5
  <2>3. CASE t \notin T
    BY <1>2, <1>17, <2>1, <2>3
  <2> QED
    BY <2>2, <2>3
<1>20. /\ expected_master_lookups' \in [Machine -> [Txn -> Nat]]
       /\ expected_master_lookups'[m] = left
       /\ \A o \in Machine : o # m => expected_master_lookups'[o] = expected_master_lookups[o]
  <2>1. left \in [Txn -> Nat]
    BY <1>2, <1>19
  <2> QED
    BY <1>5, <2>1 DEF IInv, DomainInv
<1>21. DomainInv'
  <2>1. batch_message' \in [Machine -> SUBSET Txn]
    BY <1>9 DEF Placed
  <2>2. DOMAIN found' = Txn
    BY <1>3, <1>5
  <2> QED
    BY <1>5, <1>20, <2>1, <2>2 DEF IInv, DomainInv
<1>22. ListInv'
  BY <1>5, <1>11 DEF IInv, LookupInv, ListInv, ListOK
<1>23. MessageInv'
  <2> SUFFICES ASSUME NEW x \in messages' PROVE MessageOK(x)'
    BY DEF MessageInv
  <2>1. CASE x \in messages
    <3>1. MessageOK(x)
      BY <2>1 DEF IInv, LookupInv, MessageInv
    <3> QED
      BY <1>11, <3>1 DEF MessageOK, LookupOK, ResultOK, ForwardOK
  <2>2. CASE ForwardOK(x)
    BY <2>2, ForwardFacts DEF MessageOK, ForwardOK
  <2> QED
    BY <1>10, <2>1, <2>2
<1>24. OnceInv'
  BY <1>11, <1>13 DEF IInv, LookupInv, OnceInv, Once
<1>25. CountInv'
  <2> SUFFICES ASSUME NEW o \in Machine, NEW t \in Txn PROVE CountOK(o, t)'
    BY DEF CountInv
  <2>1. expected_master_lookups'[o][t] = Cardinality(Missing(o, t)')
    BY <1>17, <1>18, <1>19, <1>20
  <2> QED
    BY <2>1 DEF CountOK
<1>26. \A t \in T : /\ keys[t] # {}
                    /\ \A q \in Kind, o \in Machine : At(q, o, t) <=> (q = "waiting" /\ o = m)
  <2> TAKE t \in T
  <2>1. At("waiting", m, t)
    BY <1>16 DEF At
  <2> QED
    BY <1>6, <2>1, PlaceBefore DEF IInv, PlaceInv, Kind
<1>27. \A t \in T : /\ DOMAIN found'[t] = Part(t, N[t]) \cup DOMAIN found[t]
                    /\ \A k \in DOMAIN found'[t] : found'[t][k] \in Replica
  <2> TAKE t \in T
  <2>1. found'[t] = Merge(msg.data[t], found[t]) /\ FoundOK(t)
    BY <1>3, <1>5, <1>6 DEF IInv, LookupInv, FoundInv
  <2>2. \A k \in DOMAIN msg.data[t] : msg.data[t][k] \in Replica
    BY <1>7
  <2> QED
    BY <1>8, <2>1, <2>2 DEF FoundOK, Merge
<1>28. \A t \in T : /\ keys[t] \ DOMAIN found'[t] = Missing(m, t)'
                    /\ DOMAIN found'[t] \subseteq keys[t]
  <2> TAKE t \in T
  <2>1. Missing(m, t) = keys[t] \ DOMAIN found[t] /\ DOMAIN found[t] \subseteq keys[t]
    BY <1>6, <1>7, <1>16 DEF IInv, LookupInv, FoundInv, FoundOK
  <2>2. Missing(m, t)' = Missing(m, t) \ Part(t, N[t]) /\ Part(t, N[t]) \subseteq keys[t]
    BY <1>6, <1>17 DEF Part
  <2> QED
    BY <1>27, <2>1, <2>2
<1>29. FoundInv'
  <2> SUFFICES ASSUME NEW t \in Txn PROVE FoundOK(t)'
    BY DEF FoundInv
  <2>1. keys'[t] = keys[t] /\ FoundOK(t)
    BY <1>5 DEF IInv, LookupInv, FoundInv
  <2>2. CASE t \in T
    <3>1. ASSUME NEW o \in Machine, o # m PROVE Missing(o, t)' = {}
      <4>1. ~ At("waiting", o, t)
        BY <1>26, <2>2, <3>1 DEF Kind
      <4>2. Cardinality(Missing(o, t)) = 0
        BY <1>18, <4>1, MissingFacts DEF At, IInv
      <4> QED
        BY <1>17, <3>1, <4>2, MissingFacts DEF IInv
    <3> QED
      BY <1>27, <1>28, <2>1, <2>2, <3>1 DEF FoundOK
  <2>3. CASE t \notin T
    <3>1. found'[t] = found[t]
      BY <1>3, <1>5, <2>3
    <3> QED
      BY <1>17, <2>1, <2>3, <3>1 DEF FoundOK
  <2> QED
    BY <2>2, <2>3
<1>30. PlaceInv'
  <2> SUFFICES ASSUME NEW t \in Txn PROVE PlaceOK(t)'
    BY DEF PlaceInv
  <2>1. keys'[t] = keys[t] /\ submitted' = submitted
    BY <1>5
  <2>2. \A o \in Machine : Forward(o, t) \in messages \ {msg} <=> Forward(o, t) \in messages
    BY <1>5, ForwardFacts
  <2>3. CASE t \notin Z
    <3>1. \A o \in Machine : /\ Forward(o, t) \in messages' <=> Forward(o, t) \in messages
                             /\ t \in batch_message'[o] <=> t \in batch_message[o]
      BY <1>9, <2>2, <2>3 DEF Placed
    <3>2. CASE t \notin T
      <4>1. \A o \in Machine : expected_master_lookups'[o][t] = expected_master_lookups[o][t]
        BY <1>17, <1>18, <1>19, <1>20, <3>2
      <4>2. \A q \in Kind, o \in Machine : At(q, o, t)' <=> At(q, o, t)
        BY <2>1, <3>1, <4>1 DEF At
      <4>3. found'[t] = found[t]
        BY <1>3, <1>5, <3>2
      <4> QED
        BY <2>1, <4>2, <4>3, PlaceSame DEF IInv, PlaceInv
    <3>3. CASE t \in T
      <4>1. expected_master_lookups'[m][t] > 0
        BY <1>4, <1>19, <1>20, <2>3, <3>3
      <4>2. \A q \in Kind, o \in Machine : At(q, o, t) <=> (q = "waiting" /\ o = m)
        BY <1>26, <3>3
      <4>3. \A o \in Machine : expected_master_lookups'[o][t] > 0 <=> o = m
        BY <1>20, <4>1, <4>2 DEF At, Kind
      <4>4. \A q \in Kind, o \in Machine : At(q, o, t)' <=> (q = "waiting" /\ o = m)
        BY <2>1, <3>1, <4>2, <4>3 DEF At, Kind
      <4> QED
        BY <1>26, <2>1, <3>3, <4>4, PlaceNow DEF Kind
    <3> QED
      BY <3>2, <3>3
  <2>4. CASE t \in Z
    <3>1. t \in T /\ left[t] = 0
      BY <1>4, <2>4
    <3>2. PICK q \in {"sent", "batch"}, o \in Machine :
             /\ Home(o, g[t]) = o[1]
             /\ \A p \in Machine :
                   /\ Forward(p, t) \in messages' <=>
                         Forward(p, t) \in messages \ {msg} \/ (q = "sent" /\ p = o)
                   /\ t \in batch_message'[p] <=>
                         t \in batch_message[p] \/ (q = "batch" /\ p = o)
      BY <1>9, <2>4 DEF Placed
    <3>3. \A r \in Kind, p \in Machine : At(r, p, t) <=> (r = "waiting" /\ p = m)
      BY <1>26, <3>1
    <3>4. \A p \in Machine : /\ ~ (expected_master_lookups'[p][t] > 0)
                             /\ t \notin submitted'[p]
                             /\ Forward(p, t) \notin messages /\ t \notin batch_message[p]
      BY <1>20, <2>1, <3>1, <3>3 DEF At, Kind
    <3>5. \A r \in Kind, p \in Machine : At(r, p, t)' <=> (r = q /\ p = o)
      BY <2>2, <3>2, <3>4 DEF At, Kind
    <3>6. DOMAIN g[t] = keys[t]
      <4>1. Missing(m, t)' = {}
        BY <1>16, <1>17, <1>19, <3>1, MissingFacts, FS_Subset, FS_EmptySet DEF IInv
      <4> QED
        BY <1>5, <1>28, <3>1, <4>1
    <3>7. Decided(o, t)'
      BY <1>5, <2>1, <3>2, <3>6 DEF Decided
    <3> QED
      BY <1>26, <2>1, <3>1, <3>2, <3>5, <3>7, PlaceNow DEF Kind
  <2> QED
    BY <2>3, <2>4
<1> QED
  BY <1>21, <1>22, <1>23, <1>24, <1>25, <1>29, <1>30 DEF IInv, LookupInv

-----------------------------------------------------------------------------

\* Every step, and stuttering.
LEMMA NextIsInductive == IInv /\ [Next]_vars => IInv'
<1> SUFFICES ASSUME IInv, [Next]_vars PROVE IInv'
  OBVIOUS
<1>1. CASE UNCHANGED vars
  <2>1. LookupInv'
    BY <1>1, LookupsSame DEF IInv, vars, lookups
  <2>2. PlaceInv'
    <3> SUFFICES ASSUME NEW t \in Txn PROVE PlaceOK(t)'
      BY DEF PlaceInv
    <3>1. \A q \in Kind, m \in Machine : At(q, m, t)' <=> At(q, m, t)
      BY <1>1 DEF vars, lookups, At
    <3> QED
      BY <1>1, <3>1, PlaceSame DEF vars, IInv, PlaceInv
  <2>3. DomainInv'
    BY <1>1 DEF IInv, DomainInv, vars, lookups
  <2> QED
    BY <2>1, <2>2, <2>3 DEF IInv
<1>2. ASSUME NEW m \in Machine, NEW t \in Txn, NEW K \in KeySets, GetTxn(m, t, K) PROVE IInv'
  BY <1>2, GetTxnPreserves
<1>3. ASSUME NEW m \in Machine, GetOtherTxn(m) PROVE IInv'
  BY <1>3, GetOtherTxnPreserves
<1>4. ASSUME NEW m \in Machine, SendLookups(m) PROVE IInv'
  BY <1>4, SendLookupsPreserves
<1>5. ASSUME NEW m \in Machine, EndEpoch(m) PROVE IInv'
  BY <1>5, EndEpochPreserves
<1>6. ASSUME NEW m \in Machine, NEW msg \in messages, OnLookupResult(m, msg) PROVE IInv'
  BY <1>6, OnLookupResultPreserves
<1>7. ASSUME NEW m \in Machine, NEW msg \in messages, OnForward(m, msg) PROVE IInv'
  BY <1>7, OnForwardPreserves
<1>8. ASSUME NEW m \in Machine, NEW msg \in messages, OnLookup(m, msg) PROVE IInv'
  BY <1>8, OnLookupPreserves
<1> QED
  BY <1>1, <1>2, <1>3, <1>4, <1>5, <1>6, <1>7, <1>8 DEF Next, ReadMessage

\* The invariant holds throughout.
LEMMA Invariance == Spec => []IInv
<1> QED
  BY InitIsInductive, NextIsInductive, PTL DEF Spec

\* The counters of a sequencer are right: for every transaction the answers it counts on
\* are those about the keys that are asked for, to be asked for or answered, and these are
\* the keys whose master is not found yet.  So RunWriter() never looks up a transaction
\* that is gone, and puts none into a batch before all its masters are there.
THEOREM CountsAreRight == Spec => []LookupsMatch
<1>1. IInv => LookupsMatch
  BY ImpliesLookupsMatch DEF IInv
<1> QED
  BY <1>1, Invariance, PTL

\* Every transaction is in one place: no lookup, forwarding or end of an epoch loses it or
\* lets two sequencers order it; the batch it gets into is one of the replica that masters
\* all its records, or of replica 0 if they have several masters.
THEOREM OrderedOnce == Spec => []OnePlace
<1>1. IInv => OnePlace
  BY ImpliesOnePlace DEF IInv
<1> QED
  BY <1>1, Invariance, PTL
=============================================================================
