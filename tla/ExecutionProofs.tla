--------------------------- MODULE ExecutionProofs ---------------------------
(***************************************************************************)
(* Proofs about Execution, for any machines, homes, records and            *)
(* transactions: although a transaction's parts lock, read and write each  *)
(* for itself, in a log that merges the homes in any order, every part     *)
(* reads what it would if the transactions were executed one by one.       *)
(***************************************************************************)
EXTENDS Execution, SequenceTheorems, WellFoundedInduction, TLAPS

\* The part of t that locks k, and where it is on the machine that has k.
PartAt(t, k)  == [txn |-> t, origin |-> Master[k]]
StateOf(t, k) == state[Partition[k]][PartAt(t, k)]

Wrote(t, k) == k \in entries[t].read_write

\* t and u conflict on k.
Clash(t, u, k) == k \in Keys(t) \cap Keys(u) /\ (Wrote(t, k) \/ Wrote(u, k))

Granting == {"queued", "active", "done", "released"}
Ended    == {"done", "released"}

TypeInv ==
    /\ entries \in [Txn -> [read : SUBSET Key, read_write : SUBSET Key]]
    /\ order \in Seq(Part)
    /\ storage_ \in [Key -> Nat]
    /\ locked \in [Machine -> Nat]
    /\ \A m \in Machine : locked[m] <= Len(order)
    /\ state \in [Machine -> [Part -> {"none", "locking"} \cup Granting]]
    /\ DOMAIN objects_ = Machine
    /\ \A m \in Machine : objects_[m] = [p \in Part |-> objects_[m][p]]
    /\ \A r \in results : r.to \in Machine /\ r.part \in Part

\* The parts of a home are in the log in the order of their transactions, without a gap.
LogInv ==
    /\ \A i \in 1..Len(order) : order[i] \in Parts
    /\ \A i, j \in 1..Len(order) :
          i < j /\ order[i].origin = order[j].origin => order[i].txn < order[j].txn
    /\ \A j \in 1..Len(order) : \A q \in Parts :
          q.origin = order[j].origin
             /\ q.txn < order[j].txn => \E i \in 1..Len(order) : order[i] = q

\* A machine has been asked for its parts of what its lock manager has seen of the log.
LockInv ==
    \A m \in Machine, p \in Part :
        state[m][p] # "none" <=> \E i \in 1..locked[m] : order[i] = p /\ m \in Readers(p)

\* Who has its locks finds every conflicting transaction before it over.
GrantInv ==
    \A k \in Key : \A t, u \in Txn :
        t < u /\ Clash(t, u, k) /\ StateOf(u, k) \in Granting => StateOf(t, k) = "released"

\* s is the last of k's writers that were executed, if any: not always the last one of
\* them to be executed, nor the last of all that were.
Current(k, s) ==
    /\ s # 0 => s \in Txn /\ Wrote(s, k) /\ StateOf(s, k) \in Ended
    /\ \A t \in Txn : Wrote(t, k) /\ StateOf(t, k) \in Ended => t <= s

StorageInv == \A k \in Key : \E s \in Nat : storage_[k] = s /\ Current(k, s)

\* The records that g has are the ones that t reads in the serial execution.
Serial(t, g) == \A k \in DOMAIN g : g[k] = LastWriter(t, k)

ReadInv ==
    /\ \A m \in Machine, p \in Part : Serial(p.txn, objects_[m][p])
    /\ \A r \in results : Serial(r.part.txn, r.records)

IInv == TypeInv /\ LogInv /\ LockInv /\ GrantInv /\ StorageInv /\ ReadInv


-----------------------------------------------------------------------------

\* A set of numbers has a least element.
LEMMA MinOf ==
    ASSUME NEW S \in SUBSET Nat, S # {}
    PROVE  Min(S) \in S /\ \A i \in S : Min(S) <= i
<1>1. \E x \in S : \A y \in S : ~ (<<y, x>> \in OpToRel(<, Nat))
  BY NatLessThanWellFounded, WFMin, Zenon
<1>2. PICK x \in S : \A y \in S : ~ (<<y, x>> \in OpToRel(<, Nat))
  BY <1>1
<1>3. \A y \in S : x <= y
  <2> SUFFICES ASSUME NEW y \in S, y < x PROVE FALSE
    OBVIOUS
  <2>1. <<y, x>> \in OpToRel(<, Nat)
    BY DEF OpToRel
  <2> QED
    BY <1>2, <2>1
<1> QED
  BY <1>2, <1>3 DEF Min

\* How LastWriter() is found: a writer before t that no other one before t is after.
LEMMA LastWriterIs ==
    ASSUME NEW t \in Nat, NEW k, NEW s \in Nat,
           s = 0 \/ (s \in 1..(t - 1) /\ Wrote(s, k)),
           \A u \in 1..(t - 1) : Wrote(u, k) => u <= s
    PROVE  LastWriter(t, k) = s
<1> DEFINE W == {u \in 1..(t - 1) : k \in entries[u].read_write} \cup {0}
<1>1. s \in W /\ W \subseteq Nat /\ \A u \in W : s >= u
  BY DEF Wrote
<1>2. LastWriter(t, k) = Max(W)
  BY DEF LastWriter
<1> HIDE DEF W
<1>3. \A x \in W : (\A y \in W : x >= y) => x = s
  BY <1>1
<1> QED
  BY <1>1, <1>2, <1>3 DEF Max

\* The types of a record's place and of the parts.
LEMMA PlaceFacts ==
    ASSUME TypeInv
    PROVE  /\ \A k \in Key : Partition[k] \in Machine /\ Master[k] \in Replica
           /\ \A t \in Txn, k \in Key : /\ PartAt(t, k) \in Part
                                        /\ PartAt(t, k).txn = t
                                        /\ PartAt(t, k).origin = Master[k]
           /\ \A t \in Txn : Keys(t) \subseteq Key
           /\ \A t \in Txn : \A k \in Keys(t) : /\ PartAt(t, k) \in Parts
                                                /\ Partition[k] \in Readers(PartAt(t, k))
           /\ Txn \subseteq Nat
           /\ NumTxns \in Nat
           /\ Parts \subseteq Part
<1>1. NumTxns \in Nat /\ Partition \in [Key -> Machine] /\ Master \in [Key -> Replica]
  BY ExecutionAssumption
<1>2. Txn \subseteq Nat
  BY <1>1 DEF Txn
<1>3. \A t \in Txn : Keys(t) \subseteq Key
  BY DEF TypeInv, Keys
<1>4. \A t \in Txn, k \in Key : /\ PartAt(t, k) \in Part
                                /\ PartAt(t, k).txn = t
                                /\ PartAt(t, k).origin = Master[k]
  BY <1>1 DEF PartAt, Part
<1>5. ASSUME NEW t \in Txn, NEW k \in Keys(t)
      PROVE  PartAt(t, k) \in Parts /\ Partition[k] \in Readers(PartAt(t, k))
  <2>1. k \in Key
    BY <1>3
  <2>2. PartAt(t, k).txn = t /\ PartAt(t, k).origin = Master[k] /\ PartAt(t, k) \in Part
    BY <1>4, <2>1
  <2>3. Master[k] \in Homes(t)
    BY DEF Homes
  <2> QED
    BY <2>2, <2>3 DEF Parts, Readers
<1> QED
  BY <1>1, <1>2, <1>3, <1>4, <1>5 DEF Parts

\* The entries never change, nor what is computed of them.
LEMMA EntriesSame ==
    ASSUME UNCHANGED entries
    PROVE  /\ Parts' = Parts
           /\ \A t : Keys(t)' = Keys(t)
           /\ \A p : Readers(p)' = Readers(p)
           /\ \A t, k : Wrote(t, k)' = Wrote(t, k)
           /\ \A t, u, k : Clash(t, u, k)' = Clash(t, u, k)
           /\ \A t, k : LastWriter(t, k)' = LastWriter(t, k)
<1>1. \A t : Keys(t)' = Keys(t)
  BY DEF Keys
<1>2. \A t : Homes(t)' = Homes(t)
  BY <1>1 DEF Homes
<1>3. Parts' = Parts
  BY <1>2 DEF Parts
<1>4. \A p : Readers(p)' = Readers(p)
  BY <1>1 DEF Readers
<1>5. \A t, k : Wrote(t, k)' = Wrote(t, k)
  BY DEF Wrote
<1>6. \A t, u, k : Clash(t, u, k)' = Clash(t, u, k)
  BY <1>1, <1>5 DEF Clash
<1>7. \A t, k : LastWriter(t, k)' = LastWriter(t, k)
  BY DEF LastWriter
<1> QED
  BY <1>1, <1>3, <1>4, <1>5, <1>6, <1>7

\* SetState() gives p its new state on m and leaves the rest.
LEMMA SetStateFacts ==
    ASSUME TypeInv, NEW m \in Machine, NEW p \in Part,
           NEW s \in {"none", "locking"} \cup Granting, SetState(m, p, s)
    PROVE  /\ state' \in [Machine -> [Part -> {"none", "locking"} \cup Granting]]
           /\ \A n \in Machine, q \in Part :
                 state'[n][q] = IF n = m /\ q = p THEN s ELSE state[n][q]
<1>1. state \in [Machine -> [Part -> {"none", "locking"} \cup Granting]]
  BY DEF TypeInv
<1>2. state' = [state EXCEPT ![m] = [state[m] EXCEPT ![p] = s]]
  BY DEF SetState
<1> DEFINE g == [state[m] EXCEPT ![p] = s]
<1>3. g \in [Part -> {"none", "locking"} \cup Granting]
         /\ \A q \in Part : g[q] = IF q = p THEN s ELSE state[m][q]
  BY <1>1
<1>4. state' = [state EXCEPT ![m] = g]
  BY <1>2
<1> HIDE DEF g
<1> QED
  BY <1>1, <1>3, <1>4

\* The log is empty, no part is locked, nothing is read or written.
LEMMA InitIsInductive == Init => IInv
<1> SUFFICES ASSUME Init PROVE IInv
  OBVIOUS
<1> USE DEF Init
<1>1. entries \in [Txn -> [read : SUBSET Key, read_write : SUBSET Key]]
  BY ExecutionAssumption
<1>2. TypeInv
  BY <1>1 DEF TypeInv, Granting
<1>3. Len(order) = 0 /\ \A m \in Machine : locked[m] = 0
  BY DEF TypeInv
<1>4. LogInv
  BY <1>3 DEF LogInv
<1>5. LockInv
  BY <1>3 DEF LockInv
<1>6. \A t \in Txn, k \in Key : StateOf(t, k) = "none"
  BY <1>2, PlaceFacts DEF StateOf
<1>7. GrantInv
  BY <1>6 DEF GrantInv, Granting
<1>8. StorageInv
  BY <1>6 DEF StorageInv, Current, Ended
<1>9. ReadInv
  BY DEF ReadInv, Serial, NoRecords
<1> QED
  BY <1>2, <1>4, <1>5, <1>7, <1>8, <1>9 DEF IInv

-----------------------------------------------------------------------------
(* Steps of the log and of the lock managers. *)

\* What the parts of the invariant depend on: nobody is granted, all released stay so;
LEMMA GrantSame ==
    ASSUME GrantInv, UNCHANGED entries,
           \A t \in Txn, k \in Key :
              /\ StateOf(t, k)' \in Granting => StateOf(t, k) \in Granting
              /\ StateOf(t, k) = "released" => StateOf(t, k)' = "released"
    PROVE  GrantInv'
  BY EntriesSame DEF GrantInv

\* the storage is not written and nobody ends;
LEMMA StorageSame ==
    ASSUME StorageInv, UNCHANGED <<entries, storage_>>,
           \A t \in Txn, k \in Key : StateOf(t, k)' \in Ended <=> StateOf(t, k) \in Ended
    PROVE  StorageInv'
<1>1. \A k \in Key, s \in Nat : Current(k, s) => Current(k, s)'
  BY EntriesSame DEF Current
<1> QED
  BY <1>1 DEF StorageInv

\* nothing is read or sent;
LEMMA ReadSame ==
    ASSUME ReadInv, UNCHANGED <<entries, objects_, results>>
    PROVE  ReadInv'
  BY EntriesSame DEF ReadInv, Serial

\* nobody is asked for.
LEMMA LockSame ==
    ASSUME LockInv, UNCHANGED <<entries, order, locked>>,
           \A m \in Machine, p \in Part : state'[m][p] = "none" <=> state[m][p] = "none"
    PROVE  LockInv'
  BY EntriesSame DEF LockInv

\* The home's order is kept in the replica's log.
LEMMA AppendPartPreserves ==
    ASSUME IInv, NEW p \in Part, AppendPart(p)
    PROVE  IInv'
<1> USE DEF IInv
<1>0. order \in Seq(Part) /\ Len(order) \in Nat /\ p \in Parts
  BY DEF TypeInv, AppendPart
<1>1. /\ order' = Append(order, p)
      /\ UNCHANGED <<entries, storage_, locked, state, objects_, results>>
      /\ \A i \in 1..Len(order) : order[i] # p
      /\ HomeOrder(p)
  BY DEF AppendPart
<1>2. /\ order' \in Seq(Part)
      /\ Len(order') = Len(order) + 1
      /\ \A i \in 1..Len(order) : order'[i] = order[i]
      /\ order'[Len(order) + 1] = p
  <2>1. /\ Append(order, p) \in Seq(Part)
        /\ Len(Append(order, p)) = Len(order) + 1
        /\ \A i \in 1..Len(order) : Append(order, p)[i] = order[i]
        /\ Append(order, p)[Len(order) + 1] = p
    BY <1>0, AppendProperties
  <2> QED
    BY <1>1, <2>1
<1>3. \A i \in 1..Len(order') : i \in 1..Len(order) \/ i = Len(order) + 1
  BY <1>0, <1>2
<1>4. 1..Len(order) \subseteq 1..Len(order') /\ Len(order) + 1 \in 1..Len(order')
  BY <1>0, <1>2
<1>5. TypeInv'
  <2>1. \A m \in Machine : locked'[m] <= Len(order')
    BY <1>0, <1>1, <1>2 DEF TypeInv
  <2> QED
    BY <1>1, <1>2, <2>1 DEF TypeInv
<1>6. LogInv'
  <2>1. \A i \in 1..Len(order') : order'[i] \in Parts'
    BY <1>0, <1>1, <1>2, <1>3, EntriesSame DEF LogInv
  <2>2. ASSUME NEW i \in 1..Len(order'), NEW j \in 1..Len(order'), i < j,
               order'[i].origin = order'[j].origin
        PROVE  order'[i].txn < order'[j].txn
    <3>1. CASE j \in 1..Len(order)
      <4>1. i \in 1..Len(order)
        BY <2>2, <3>1, <1>0, <1>3
      <4> QED
        BY <2>2, <3>1, <4>1, <1>2 DEF LogInv
    <3>2. CASE j = Len(order) + 1
      <4>1. i \in 1..Len(order) /\ order'[i] = order[i] /\ order'[j] = p
        BY <2>2, <3>2, <1>0, <1>2, <1>3
      <4>2. order[i] \in Parts /\ order[i] # p /\ order[i] \in Part /\ order[i].origin = p.origin
        BY <4>1, <1>1, <2>2 DEF LogInv, Parts
      <4>3. order[i].txn \in Nat /\ p.txn \in Nat
        BY <4>2, PlaceFacts DEF Part
      <4>4. order[i].txn # p.txn
        BY <4>2 DEF Part
      \* else p would have been in the log before order[i]
      <4>5. ~ (p.txn < order[i].txn)
        BY <4>1, <4>2, <1>0, <1>1 DEF LogInv
      <4> QED
        BY <4>1, <4>3, <4>4, <4>5
    <3> QED
      BY <1>3, <3>1, <3>2
  <2>3. ASSUME NEW j \in 1..Len(order'), NEW q \in Parts,
               q.origin = order'[j].origin, q.txn < order'[j].txn
        PROVE  \E i \in 1..Len(order') : order'[i] = q
    <3>1. CASE j \in 1..Len(order)
      <4>1. PICK i \in 1..Len(order) : order[i] = q
        BY <2>3, <3>1, <1>2 DEF LogInv
      <4> QED
        BY <4>1, <1>2, <1>4
    <3>2. CASE j = Len(order) + 1
      <4>1. PICK i \in 1..Len(order) : order[i] = q
        BY <2>3, <3>2, <1>1, <1>2 DEF HomeOrder
      <4> QED
        BY <4>1, <1>2, <1>4
    <3> QED
      BY <1>3, <3>1, <3>2
  <2>4. Parts' = Parts
    BY <1>1, EntriesSame
  <2> QED
    BY <2>1, <2>2, <2>3, <2>4 DEF LogInv
<1>7. LockInv'
  <2>1. \A m \in Machine : 1..locked[m] \subseteq 1..Len(order)
    BY <1>0 DEF TypeInv
  <2>2. \A m \in Machine : \A i \in 1..locked[m] : order'[i] = order[i]
    BY <1>2, <2>1
  <2>3. \A q : Readers(q)' = Readers(q)
    BY <1>1, EntriesSame
  <2> SUFFICES ASSUME NEW m \in Machine, NEW q \in Part
               PROVE  state[m][q] # "none"
                      <=> \E i \in 1..locked[m] : order'[i] = q /\ m \in Readers(q)
    <3>1. state' = state /\ locked' = locked
      BY <1>1
    <3> QED
      BY <3>1, <2>3 DEF LockInv
  <2>4. state[m][q] # "none" <=> \E i \in 1..locked[m] : order[i] = q /\ m \in Readers(q)
    BY DEF LockInv
  <2> QED
    BY <2>2, <2>4
<1>8. \A t \in Txn, k \in Key : StateOf(t, k)' = StateOf(t, k)
  BY <1>1 DEF StateOf
<1>9. GrantInv' /\ StorageInv' /\ ReadInv'
  BY <1>1, <1>8, GrantSame, StorageSame, ReadSame
<1> QED
  BY <1>5, <1>6, <1>7, <1>9

\* The next part in the log is asked for, none between is skipped and none asked for twice.
LEMMA LockPreserves ==
    ASSUME IInv, NEW m \in Machine, Lock(m)
    PROVE  IInv'
<1> USE DEF IInv
<1> DEFINE i == Min(Unlocked(m))
           p == order[i]
<1>1. UNCHANGED <<entries, order, storage_, objects_, results>> /\ Unlocked(m) # {}
  BY DEF Lock
<1>2. locked' = [locked EXCEPT ![m] = i] /\ SetState(m, p, "locking")
  BY DEF Lock
<1>3. order \in Seq(Part) /\ Len(order) \in Nat /\ locked \in [Machine -> Nat]
         /\ locked[m] <= Len(order)
  BY DEF TypeInv
<1>4. /\ i \in (locked[m] + 1)..Len(order) /\ m \in Readers(order[i])
      /\ \A j \in (locked[m] + 1)..Len(order) : m \in Readers(order[j]) => i <= j
  <2>1. Unlocked(m) \in SUBSET Nat
    BY <1>3 DEF Unlocked
  <2>2. Min(Unlocked(m)) \in Unlocked(m) /\ \A j \in Unlocked(m) : Min(Unlocked(m)) <= j
    BY <1>1, <2>1, MinOf
  <2> QED
    BY <2>2 DEF Unlocked
<1> HIDE DEF i
<1>5. i \in Nat /\ i \in 1..Len(order) /\ locked[m] < i /\ p \in Part
  BY <1>3, <1>4
<1>6. /\ locked' \in [Machine -> Nat]
      /\ locked'[m] = i
      /\ \A n \in Machine : n # m => locked'[n] = locked[n]
  BY <1>2, <1>3, <1>5
\* no part is in the log twice
<1>7. \A j \in 1..Len(order) : order[j] = p => j = i
  <2>1. \A j \in 1..Len(order) : order[j].txn \in Nat
    <3>1. \A j \in 1..Len(order) : order[j] \in Part
      BY <1>3
    <3> QED
      BY <3>1, PlaceFacts DEF Part
  <2> SUFFICES ASSUME NEW j \in 1..Len(order), order[j] = p, j # i PROVE FALSE
    OBVIOUS
  <2>2. j < i \/ i < j
    BY <1>5
  <2>3. order[j].txn = order[i].txn /\ order[j].origin = order[i].origin
    OBVIOUS
  <2> QED
    BY <1>5, <2>1, <2>2, <2>3 DEF LogInv
<1>8. state[m][p] = "none"
  <2> SUFFICES ASSUME state[m][p] # "none" PROVE FALSE
    OBVIOUS
  <2>1. PICK j \in 1..locked[m] : order[j] = p
    BY <1>5 DEF LockInv
  <2>2. j \in 1..Len(order) /\ j <= locked[m]
    BY <1>3
  <2>3. j = i
    BY <1>7, <2>1, <2>2
  <2> QED
    BY <1>3, <1>5, <2>2, <2>3
<1> HIDE DEF p
<1>9. /\ state' \in [Machine -> [Part -> {"none", "locking"} \cup Granting]]
      /\ \A n \in Machine, q \in Part :
            state'[n][q] = IF n = m /\ q = p THEN "locking" ELSE state[n][q]
  BY <1>2, <1>5, SetStateFacts
<1>10. TypeInv'
  <2>1. \A n \in Machine : locked'[n] <= Len(order')
    BY <1>1, <1>5, <1>6 DEF TypeInv
  <2> QED
    BY <1>1, <1>6, <1>9, <2>1 DEF TypeInv
<1>11. LogInv'
  BY <1>1, EntriesSame DEF LogInv
<1>12. LockInv'
  <2>1. \A q : Readers(q)' = Readers(q)
    BY <1>1, EntriesSame
  <2> SUFFICES ASSUME NEW n \in Machine, NEW q \in Part
               PROVE  state'[n][q] # "none"
                      <=> \E j \in 1..locked'[n] : order[j] = q /\ n \in Readers(q)
    BY <1>1, <2>1 DEF LockInv
  <2>2. state[n][q] # "none" <=> \E j \in 1..locked[n] : order[j] = q /\ n \in Readers(q)
    BY DEF LockInv
  <2>3. CASE n # m
    BY <1>6, <1>9, <2>2, <2>3
  <2>4. CASE n = m
    <3>1. \A j \in 1..i : j \in 1..locked[m] \/ j = i \/ (j \in (locked[m] + 1)..Len(order)
             /\ j < i)
      BY <1>3, <1>5
    <3>2. 1..locked[m] \subseteq 1..i /\ i \in 1..i
      BY <1>3, <1>5
    <3>3. \A j \in 1..i : m \in Readers(order[j]) => j \in 1..locked[m] \/ j = i
      BY <3>1, <1>4, <1>5
    <3>4. order[i] = p /\ m \in Readers(order[i])
      BY <1>4 DEF p
    <3>5. CASE q = p
      BY <1>6, <1>9, <2>4, <3>2, <3>4, <3>5
    <3>6. CASE q # p
      <4>1. state'[n][q] = state[n][q] /\ locked'[n] = i
        BY <1>6, <1>9, <2>4, <3>6
      <4> QED
        BY <4>1, <2>2, <2>4, <3>2, <3>3, <3>4, <3>6
    <3> QED
      BY <3>5, <3>6
  <2> QED
    BY <2>3, <2>4
<1>13. \A t \in Txn, k \in Key :
          \/ StateOf(t, k)' = StateOf(t, k)
          \/ StateOf(t, k) = "none" /\ StateOf(t, k)' = "locking"
  BY <1>8, <1>9, PlaceFacts DEF StateOf
<1>14. GrantInv'
  BY <1>1, <1>13, GrantSame DEF Granting
<1>15. StorageInv'
  BY <1>1, <1>13, StorageSame DEF Ended
<1>16. ReadInv'
  BY <1>1, ReadSame
<1> QED
  BY <1>10, <1>11, <1>12, <1>14, <1>15, <1>16

-----------------------------------------------------------------------------
(* Steps of one part. *)

\* p is at PartAt(t, k) for its records k on m.
LEMMA WhoIsAt ==
    ASSUME TypeInv, NEW m \in Machine, NEW p \in Part, NEW t \in Txn, NEW k \in Key
    PROVE  Partition[k] = m /\ PartAt(t, k) = p
           <=> t = p.txn /\ k \in LocalKeys(m, p.origin)
<1>1. PartAt(t, k) \in Part /\ PartAt(t, k).txn = t /\ PartAt(t, k).origin = Master[k]
  BY PlaceFacts
<1>2. PartAt(t, k) = p <=> t = p.txn /\ Master[k] = p.origin
  BY <1>1 DEF Part
<1> QED
  BY <1>2 DEF LocalKeys

\* A step that gives p a new state on m.
LEMMA StateOfSet ==
    ASSUME TypeInv, NEW m \in Machine, NEW p \in Part,
           NEW s \in {"none", "locking"} \cup Granting, SetState(m, p, s)
    PROVE  \A t \in Txn, k \in Key :
              StateOf(t, k)' = IF t = p.txn /\ k \in LocalKeys(m, p.origin)
                               THEN s ELSE StateOf(t, k)
<1> SUFFICES ASSUME NEW t \in Txn, NEW k \in Key
             PROVE  StateOf(t, k)' = IF t = p.txn /\ k \in LocalKeys(m, p.origin)
                                     THEN s ELSE StateOf(t, k)
  OBVIOUS
<1>1. Partition[k] \in Machine /\ PartAt(t, k) \in Part
  BY PlaceFacts
<1>2. StateOf(t, k)' = state'[Partition[k]][PartAt(t, k)]
  BY DEF StateOf, PartAt
<1>3. StateOf(t, k) = state[Partition[k]][PartAt(t, k)]
  BY DEF StateOf
<1>4. Partition[k] = m /\ PartAt(t, k) = p <=> t = p.txn /\ k \in LocalKeys(m, p.origin)
  BY WhoIsAt
<1>5. \A n \in Machine, q \in Part : state'[n][q] = IF n = m /\ q = p THEN s ELSE state[n][q]
  BY SetStateFacts
<1> QED
  BY <1>1, <1>2, <1>3, <1>4, <1>5

\* The state that p had.
LEMMA StateOfLocal ==
    ASSUME TypeInv, NEW m \in Machine, NEW p \in Part, NEW k \in LocalKeys(m, p.origin)
    PROVE  k \in Key /\ p.txn \in Txn /\ StateOf(p.txn, k) = state[m][p]
<1>1. k \in Key /\ p.txn \in Txn
  BY DEF LocalKeys, Part
<1> QED
  BY <1>1, WhoIsAt DEF StateOf

\* Only LockInv, GrantInv and StorageInv are about the state, and a part that has been
\* asked for stays so.
LEMMA StepKeeps ==
    ASSUME IInv, NEW m \in Machine, NEW p \in Part, NEW s \in Granting, SetState(m, p, s),
           state[m][p] # "none", UNCHANGED <<entries, order, locked>>
    PROVE  LogInv' /\ LockInv'
<1>1. \A n \in Machine, q \in Part : state'[n][q] = "none" <=> state[n][q] = "none"
  BY SetStateFacts DEF IInv, Granting
<1>2. LockInv'
  BY <1>1, LockSame DEF IInv
<1>3. LogInv'
  BY EntriesSame DEF IInv, LogInv
<1> QED
  BY <1>2, <1>3

\* The locks are granted only when all that conflict and are earlier are released.
LEMMA DispatchPreserves ==
    ASSUME IInv, NEW m \in Machine, NEW p \in Part, Dispatch(m, p)
    PROVE  IInv'
<1> USE DEF IInv
<1>1. /\ state[m][p] = "locking"
      /\ Granted(m, p)
      /\ SetState(m, p, "queued")
      /\ UNCHANGED <<entries, order, storage_, locked, objects_, results>>
  BY DEF Dispatch
<1>2. "queued" \in Granting
  BY DEF Granting
<1>3. TypeInv'
  BY <1>1, <1>2, SetStateFacts DEF TypeInv
<1>4. LogInv' /\ LockInv'
  BY <1>1, <1>2, StepKeeps
<1>5. \A t \in Txn, k \in Key :
         StateOf(t, k)' = IF t = p.txn /\ k \in LocalKeys(m, p.origin)
                          THEN "queued" ELSE StateOf(t, k)
  BY <1>1, <1>2, StateOfSet
<1>6. \A k \in LocalKeys(m, p.origin) : k \in Key /\ p.txn \in Txn
         /\ StateOf(p.txn, k) = "locking"
  BY <1>1, StateOfLocal
\* all that p conflicts with were in the log before it, and released
<1>7. ASSUME NEW k \in LocalKeys(m, p.origin), NEW t \in Txn, t < p.txn, Clash(t, p.txn, k)
      PROVE  StateOf(t, k) = "released"
  <2> DEFINE q == PartAt(t, k)
  <2>1. k \in Key /\ k \in Keys(t) /\ k \in Keys(p.txn) /\ Partition[k] = m
           /\ Master[k] = p.origin
    BY <1>7 DEF Clash, LocalKeys
  <2>2. q \in Part /\ q \in Parts /\ q.txn = t /\ q.origin = p.origin /\ m \in Readers(q)
    BY <2>1, PlaceFacts
  <2> HIDE DEF q
  <2>3. PICK j \in 1..locked[m] : order[j] = p
    BY <1>1 DEF LockInv
  <2>4. Len(order) \in Nat /\ locked[m] \in Nat /\ locked[m] <= Len(order) /\ j \in 1..Len(order)
    BY DEF TypeInv
  <2>5. PICK i \in 1..Len(order) : order[i] = q
    BY <1>7, <2>2, <2>3, <2>4 DEF LogInv
  <2>6. i < j
    <3>1. ~ (j < i)
      <4> SUFFICES ASSUME j < i PROVE FALSE
        OBVIOUS
      <4>1. p.txn < t
        BY <2>2, <2>3, <2>4, <2>5 DEF LogInv
      <4>2. p.txn \in Nat /\ t \in Nat
        BY <2>1, PlaceFacts DEF Part
      <4> QED
        BY <1>7, <4>1, <4>2
    <3>2. i # j
      <4>1. p.txn \in Nat
        BY PlaceFacts DEF Part
      <4> QED
        BY <1>7, <2>2, <2>3, <2>5, <4>1
    <3> QED
      BY <2>4, <3>1, <3>2
  <2>7. i \in 1..locked[m]
    BY <2>4, <2>6
  <2>8. ConflictOn(m, p, q)
    BY <1>7, <2>1, <2>2 DEF ConflictOn, LocalKeys, Clash, Wrote
  <2>9. state[m][q] \in {"none", "released"}
    BY <1>1, <2>3, <2>5, <2>6, <2>7, <2>8 DEF Granted
  <2>10. state[m][q] # "none"
    BY <2>2, <2>5, <2>7 DEF LockInv
  <2> QED
    BY <2>1, <2>9, <2>10 DEF StateOf, q
<1>8. GrantInv'
  <2> SUFFICES ASSUME NEW k \in Key, NEW t \in Txn, NEW u \in Txn, t < u,
                      Clash(t, u, k), StateOf(u, k)' \in Granting
               PROVE  StateOf(t, k)' = "released"
    BY <1>1, EntriesSame DEF GrantInv
  <2>1. StateOf(t, k) = "released" => StateOf(t, k)' = "released"
    BY <1>5, <1>6
  <2>2. CASE u = p.txn /\ k \in LocalKeys(m, p.origin)
    BY <1>7, <2>1, <2>2
  <2>3. CASE ~ (u = p.txn /\ k \in LocalKeys(m, p.origin))
    <3>1. StateOf(u, k) \in Granting
      BY <1>5, <2>3
    <3> QED
      BY <2>1, <3>1 DEF GrantInv
  <2> QED
    BY <2>2, <2>3
<1>9. \A t \in Txn, k \in Key : StateOf(t, k)' \in Ended <=> StateOf(t, k) \in Ended
  BY <1>5, <1>6 DEF Ended
<1>10. StorageInv' /\ ReadInv'
  BY <1>1, <1>9, StorageSame, ReadSame
<1> QED
  BY <1>3, <1>4, <1>8, <1>10

\* A part is over.
LEMMA ReleasePreserves ==
    ASSUME IInv, NEW m \in Machine, NEW p \in Part, Release(m, p)
    PROVE  IInv'
<1> USE DEF IInv
<1>1. /\ state[m][p] = "done"
      /\ SetState(m, p, "released")
      /\ UNCHANGED <<entries, order, storage_, locked, objects_, results>>
  BY DEF Release
<1>2. "released" \in Granting
  BY DEF Granting
<1>3. TypeInv'
  BY <1>1, <1>2, SetStateFacts DEF TypeInv
<1>4. LogInv' /\ LockInv'
  BY <1>1, <1>2, StepKeeps
<1>5. \A t \in Txn, k \in Key :
         StateOf(t, k)' = IF t = p.txn /\ k \in LocalKeys(m, p.origin)
                          THEN "released" ELSE StateOf(t, k)
  BY <1>1, <1>2, StateOfSet
<1>6. \A k \in LocalKeys(m, p.origin) : k \in Key /\ p.txn \in Txn /\ StateOf(p.txn, k) = "done"
  BY <1>1, StateOfLocal
<1>7. GrantInv'
  BY <1>1, <1>5, <1>6, GrantSame DEF Granting
<1>8. \A t \in Txn, k \in Key : StateOf(t, k)' \in Ended <=> StateOf(t, k) \in Ended
  BY <1>5, <1>6 DEF Ended
<1>9. StorageInv' /\ ReadInv'
  BY <1>1, <1>8, StorageSame, ReadSame
<1> QED
  BY <1>3, <1>4, <1>7, <1>9

\* While the locks are held the storage has the last writer before t.
LEMMA ReadLocalPreserves ==
    ASSUME IInv, NEW m \in Machine, NEW p \in Part, ReadLocal(m, p)
    PROVE  IInv'
<1> USE DEF IInv
<1> DEFINE t == p.txn
           g == LocalRecords(m, p)
<1>1. /\ state[m][p] = "queued"
      /\ SetState(m, p, "active")
      /\ objects_' = [objects_ EXCEPT ![m][p] = g]
      /\ UNCHANGED <<entries, order, storage_, locked>>
  BY DEF ReadLocal
<1>2. \A r \in results' : \/ r \in results
                          \/ /\ r.to \in Machine
                             /\ r.part \in Part
                             /\ r.part.txn = t
                             /\ r.records = g
  <2>1. results' = results \cup
           {[from |-> <<m, p.origin>>, to |-> w[1], records |-> g,
             part |-> [txn |-> t, origin |-> w[2]]] : w \in Receivers(m, p)}
    BY DEF ReadLocal
  <2>2. t \in Txn
    BY DEF Part
  <2>3. \A w \in Receivers(m, p) : w[1] \in Machine /\ w[2] \in Replica
    BY <2>2, PlaceFacts DEF Receivers, Keys
  <2> HIDE DEF t, g
  <2>4. ASSUME NEW w \in Receivers(m, p)
        PROVE  [txn |-> t, origin |-> w[2]] \in Part /\ [txn |-> t, origin |-> w[2]].txn = t
    BY <2>2, <2>3 DEF Part
  <2> QED
    BY <2>1, <2>3, <2>4
<1>3. "active" \in Granting
  BY DEF Granting
<1>4. \A k \in LocalKeys(m, p.origin) : k \in Key /\ t \in Txn /\ StateOf(t, k) = "queued"
  BY <1>1, StateOfLocal
\* the storage has what t has to read
<1>5. ASSUME NEW k \in DOMAIN g
      PROVE  g[k] = LastWriter(t, k)
  <2>1. k \in Keys(t) /\ k \in LocalKeys(m, p.origin) /\ g[k] = storage_[k]
    BY DEF LocalRecords
  <2>2. k \in Key /\ t \in Txn /\ StateOf(t, k) = "queued"
    BY <1>4, <2>1
  <2> HIDE DEF t, g
  <2>3. t \in Nat /\ t \in 1..NumTxns /\ NumTxns \in Nat /\ Txn \subseteq Nat
    BY <2>2, PlaceFacts DEF Txn
  <2>4. PICK s \in Nat : storage_[k] = s /\ Current(k, s)
    BY <2>2 DEF StorageInv
  <2>5. s # 0 => s \in Txn /\ Wrote(s, k) /\ StateOf(s, k) \in Ended
    BY <2>4 DEF Current
  <2>6. \A u \in Txn : Wrote(u, k) /\ StateOf(u, k) \in Ended => u <= s
    BY <2>4 DEF Current
  <2>7. \A u \in Txn : Wrote(u, k) => k \in Keys(u)
    BY DEF Wrote, Keys
  <2>8. ASSUME s # 0
        PROVE  s \in 1..(t - 1) /\ Wrote(s, k)
    <3>1. s # t
      BY <2>2, <2>5, <2>8 DEF Ended
    <3>2. ~ (t < s)
      <4> SUFFICES ASSUME t < s PROVE FALSE
        OBVIOUS
      <4>1. Clash(t, s, k) /\ StateOf(s, k) \in Granting
        BY <2>1, <2>5, <2>7, <2>8 DEF Clash, Ended, Granting
      <4> QED
        BY <2>2, <2>5, <2>8, <4>1 DEF GrantInv
    <3>3. s \in 1..(t - 1)
      BY <2>3, <2>8, <3>1, <3>2
    <3> QED
      BY <2>5, <2>8, <3>3
  <2>9. ASSUME NEW u \in 1..(t - 1), Wrote(u, k)
        PROVE  u <= s
    <3>1. u \in Txn /\ u < t
      BY <2>3 DEF Txn
    <3>2. Clash(u, t, k) /\ StateOf(t, k) \in Granting
      BY <2>1, <2>2, <2>7, <2>9, <3>1 DEF Clash, Granting
    <3>3. StateOf(u, k) = "released"
      BY <2>2, <3>1, <3>2 DEF GrantInv
    <3> QED
      BY <2>6, <2>9, <3>1, <3>3 DEF Ended
  <2>10. LastWriter(t, k) = s
    BY <2>3, <2>8, <2>9, LastWriterIs
  <2> QED
    BY <2>1, <2>4, <2>10
<1>6. Serial(t, g)
  BY <1>5 DEF Serial
<1> HIDE DEF t, g
<1>7. DOMAIN objects_' = Machine
         /\ \A n \in Machine : objects_'[n] = [q \in Part |-> objects_'[n][q]]
  BY <1>1 DEF TypeInv
<1>8. \A n \in Machine, q \in Part :
         objects_'[n][q] = IF n = m /\ q = p THEN g ELSE objects_[n][q]
  BY <1>1 DEF TypeInv
<1>9. TypeInv'
  BY <1>1, <1>2, <1>3, <1>7, SetStateFacts DEF TypeInv
<1>10. LogInv' /\ LockInv'
  BY <1>1, <1>3, StepKeeps
<1>11. \A u \in Txn, k \in Key :
          StateOf(u, k)' = IF u = t /\ k \in LocalKeys(m, p.origin)
                           THEN "active" ELSE StateOf(u, k)
  BY <1>1, <1>3, StateOfSet DEF t
<1>12. GrantInv'
  BY <1>1, <1>4, <1>11, GrantSame DEF Granting
<1>13. \A u \in Txn, k \in Key : StateOf(u, k)' \in Ended <=> StateOf(u, k) \in Ended
  BY <1>4, <1>11 DEF Ended
<1>14. StorageInv'
  BY <1>1, <1>13, StorageSame
<1>15. ReadInv'
  <2>1. \A u, f : Serial(u, f)' = Serial(u, f)
    BY <1>1, EntriesSame DEF Serial
  <2>2. \A n \in Machine, q \in Part : Serial(q.txn, objects_'[n][q])
    BY <1>6, <1>8 DEF ReadInv, t
  <2>3. \A r \in results' : Serial(r.part.txn, r.records)
    BY <1>2, <1>6 DEF ReadInv
  <2> QED
    BY <1>1, <2>2, <2>3, EntriesSame DEF ReadInv, Serial
<1> QED
  BY <1>9, <1>10, <1>12, <1>14, <1>15

\* What another part read is what this one would.
LEMMA HandleReadResultPreserves ==
    ASSUME IInv, NEW m \in Machine, NEW r \in results, HandleReadResult(m, r)
    PROVE  IInv'
<1> USE DEF IInv
<1> DEFINE p == r.part
           g == Update(objects_[m][p], r.records)
<1>1. /\ objects_' = [objects_ EXCEPT ![m][p] = g]
      /\ results' = results \ {r}
      /\ UNCHANGED <<entries, order, storage_, locked, state>>
  BY DEF HandleReadResult
<1>2. p \in Part
  BY DEF TypeInv
<1>3. Serial(p.txn, g)
  <2>1. Serial(p.txn, objects_[m][p]) /\ Serial(p.txn, r.records)
    BY <1>2 DEF ReadInv
  <2> QED
    BY <2>1 DEF Serial, Update
<1> HIDE DEF p, g
<1>4. /\ DOMAIN objects_' = Machine
      /\ \A n \in Machine : objects_'[n] = [q \in Part |-> objects_'[n][q]]
      /\ \A n \in Machine, q \in Part :
            objects_'[n][q] = IF n = m /\ q = p THEN g ELSE objects_[n][q]
  BY <1>1, <1>2 DEF TypeInv
<1>5. TypeInv'
  BY <1>1, <1>4 DEF TypeInv
<1>6. \A t \in Txn, k \in Key : StateOf(t, k)' = StateOf(t, k)
  BY <1>1 DEF StateOf
<1>7. LogInv'
  BY <1>1, EntriesSame DEF LogInv
<1>8. LockInv' /\ GrantInv' /\ StorageInv'
  BY <1>1, <1>6, LockSame, GrantSame, StorageSame
<1>9. ReadInv'
  <2>1. \A n \in Machine, q \in Part : Serial(q.txn, objects_'[n][q])
    BY <1>3, <1>4 DEF ReadInv
  <2>2. \A q \in results' : Serial(q.part.txn, q.records)
    BY <1>1 DEF ReadInv
  <2> QED
    BY <1>1, <2>1, <2>2, EntriesSame DEF ReadInv, Serial
<1> QED
  BY <1>5, <1>7, <1>8, <1>9

\* While the locks are held no later writer was before.
LEMMA ExecutePreserves ==
    ASSUME IInv, NEW m \in Machine, NEW p \in Part, Execute(m, p)
    PROVE  IInv'
<1> USE DEF IInv
<1> DEFINE t == p.txn
<1>1. /\ state[m][p] = "active"
      /\ SetState(m, p, "done")
      /\ storage_' = [k \in Key |-> IF k \in Writes(m, p) THEN t ELSE storage_[k]]
      /\ UNCHANGED <<entries, order, locked, objects_, results>>
  BY DEF Execute
<1>2. "done" \in Granting
  BY DEF Granting
<1>3. t \in Txn /\ t \in Nat /\ Txn \subseteq Nat
  BY PlaceFacts DEF Part
<1>4. \A k \in LocalKeys(m, p.origin) : k \in Key /\ StateOf(t, k) = "active"
  BY <1>1, StateOfLocal
<1>5. \A u \in Txn, k \in Key :
         StateOf(u, k)' = IF u = t /\ k \in LocalKeys(m, p.origin)
                          THEN "done" ELSE StateOf(u, k)
  BY <1>1, <1>2, StateOfSet
<1>6. \A k : k \in Writes(m, p) <=> k \in LocalKeys(m, p.origin) /\ Wrote(t, k)
  BY DEF Writes, Wrote
<1> HIDE DEF t
<1>7. storage_' \in [Key -> Nat]
  BY <1>1, <1>3 DEF TypeInv
<1>8. TypeInv'
  BY <1>1, <1>2, <1>7, SetStateFacts DEF TypeInv
<1>9. LogInv' /\ LockInv'
  BY <1>1, <1>2, StepKeeps
<1>10. GrantInv'
  BY <1>1, <1>4, <1>5, GrantSame DEF Granting
<1>11. StorageInv'
  <2> SUFFICES ASSUME NEW k \in Key
               PROVE  \E s \in Nat : storage_'[k] = s /\ Current(k, s)'
    BY DEF StorageInv
  <2>1. \A u : Wrote(u, k)' = Wrote(u, k)
    BY <1>1, EntriesSame
  <2>2. PICK s \in Nat : storage_[k] = s /\ Current(k, s)
    BY DEF StorageInv
  <2>3. CASE k \in Writes(m, p)
    <3>1. storage_'[k] = t /\ Wrote(t, k) /\ StateOf(t, k) = "active" /\ StateOf(t, k)' = "done"
      BY <1>1, <1>3, <1>4, <1>5, <1>6, <2>3
    \* a later one that was executed would have waited for t
    <3>2. ASSUME NEW u \in Txn, Wrote(u, k), StateOf(u, k)' \in Ended
          PROVE  u <= t
      <4> SUFFICES ASSUME t < u PROVE FALSE
        BY <1>3
      <4>1. StateOf(u, k) \in Granting
        BY <1>3, <1>5, <3>2 DEF Ended, Granting
      <4>2. Clash(t, u, k)
        BY <3>1, <3>2 DEF Clash, Keys, Wrote
      <4> QED
        BY <1>3, <3>1, <4>1, <4>2 DEF GrantInv
    <3>3. Current(k, t)'
      BY <1>3, <2>1, <3>1, <3>2 DEF Current, Ended
    <3> QED
      BY <1>3, <3>1, <3>3
  <2>4. CASE k \notin Writes(m, p)
    <3>1. storage_'[k] = s
      BY <1>1, <2>2, <2>4
    <3>2. \A u \in Txn : Wrote(u, k) => StateOf(u, k)' = StateOf(u, k)
      BY <1>5, <1>6, <2>4
    <3>3. Current(k, s)'
      BY <2>1, <2>2, <3>2 DEF Current
    <3> QED
      BY <3>1, <3>3
  <2> QED
    BY <2>3, <2>4
<1>12. ReadInv'
  BY <1>1, ReadSame
<1> QED
  BY <1>8, <1>9, <1>10, <1>11, <1>12

-----------------------------------------------------------------------------

\* Every step, and stuttering.
LEMMA NextIsInductive == IInv /\ [Next]_vars => IInv'
<1> SUFFICES ASSUME IInv, [Next]_vars PROVE IInv'
  OBVIOUS
<1>1. ASSUME NEW p \in Part, AppendPart(p) PROVE IInv'
  BY <1>1, AppendPartPreserves
<1>2. ASSUME NEW m \in Machine, Lock(m) PROVE IInv'
  BY <1>2, LockPreserves
<1>3. ASSUME NEW m \in Machine, NEW p \in Part, Step(m, p) PROVE IInv'
  BY <1>3, DispatchPreserves, ReleasePreserves, ReadLocalPreserves, ExecutePreserves DEF Step
<1>4. ASSUME NEW r \in results, HandleReadResult(r.to, r) PROVE IInv'
  <2>1. r.to \in Machine
    BY DEF IInv, TypeInv
  <2> QED
    BY <1>4, <2>1, HandleReadResultPreserves
<1>5. ASSUME UNCHANGED vars PROVE IInv'
  <2> USE <1>5 DEF vars, IInv
  <2>1. \A t \in Txn, k \in Key : StateOf(t, k)' = StateOf(t, k)
    BY DEF StateOf
  <2>2. TypeInv'
    BY DEF TypeInv
  <2>3. LogInv'
    BY EntriesSame DEF LogInv
  <2> QED
    BY <2>1, <2>2, <2>3, LockSame, GrantSame, StorageSame, ReadSame
<1> QED
  BY <1>1, <1>2, <1>3, <1>4, <1>5 DEF Next

\* The invariant holds throughout.
LEMMA Invariance == Spec => []IInv
<1> QED
  BY InitIsInductive, NextIsInductive, PTL DEF Spec

\* When all is over the storage has the last of all writers.
LEMMA StorageWhenOver ==
    ASSUME IInv, Over, NEW k \in Key
    PROVE  storage_[k] = LastWriter(NumTxns + 1, k)
<1> USE DEF IInv
<1>1. NumTxns \in Nat /\ (NumTxns + 1) - 1 = NumTxns /\ NumTxns + 1 \in Nat
  BY PlaceFacts
<1>2. ASSUME NEW t \in Txn, Wrote(t, k)
      PROVE  StateOf(t, k) = "released"
  <2>1. k \in Keys(t)
    BY <1>2 DEF Wrote, Keys
  <2> QED
    BY <2>1, PlaceFacts DEF Over, StateOf
<1>3. PICK s \in Nat : storage_[k] = s /\ Current(k, s)
  BY DEF StorageInv
<1>4. s = 0 \/ (s \in Txn /\ Wrote(s, k))
  BY <1>3 DEF Current
<1>5. \A u \in Txn : Wrote(u, k) => u <= s
  BY <1>2, <1>3 DEF Current, Ended
<1>6. Txn = 1..((NumTxns + 1) - 1)
  BY <1>1 DEF Txn
<1> QED
  BY <1>1, <1>3, <1>4, <1>5, <1>6, LastWriterIs

\* Whatever the transactions, the machines and homes, and the order in which the replica's
\* log merges the homes: the parts of a transaction (worker threads, storage managers and
\* lock managers of every machine) read what it reads in the serial execution.
THEOREM Serializable == Spec => []SerialExecution
<1>1. IInv => SerialExecution
  <2> SUFFICES ASSUME IInv PROVE SerialExecution
    OBVIOUS
  <2>1. \A m \in Machine, p \in Part : \A k \in DOMAIN objects_[m][p] :
           objects_[m][p][k] = LastWriter(p.txn, k)
    BY DEF IInv, ReadInv, Serial
  <2> QED
    BY <2>1, StorageWhenOver DEF SerialExecution
<1> QED
  BY <1>1, Invariance, PTL

=============================================================================
