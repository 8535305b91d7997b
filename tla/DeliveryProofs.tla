---------------------------- MODULE DeliveryProofs ----------------------------
(***************************************************************************)
(* Proofs about Delivery, for any replicas, machines and batches: a batch  *)
(* is submitted to the log once and only when a majority of the replicas   *)
(* has forwarded it, and every scheduler processes the batches of the log, *)
(* from version 1 on, in the log's order, whatever arrives first.          *)
(***************************************************************************)
EXTENDS Delivery, SequenceTheorems, FiniteSetTheorems, WellFoundedInduction, TLAPS

\* The batches of the sequences in c from version 1 up to, but without, version n.
Passed(c, n) == FlattenSeq(SubSeq(c, 2, n))

\* What DeliveredInLogOrder says of a scheduler that has returned d, whose current
\* sequence is s, of which it has returned the first k, and whose current id is n.
Delivers(c, n, s, k, d) ==
    IF s # <<>>
    THEN /\ n < Len(c) /\ s = c[n + 1] /\ k < Len(c[n + 1])
         /\ d = Passed(c, n) \o SubSeq(c[n + 1], 1, k)
    ELSE d = Passed(c, n)

\* The replicas whose vote for b is counted.
Counted(b) ==
    {r \in Replica : b \in written /\ <<b, r>> \notin txn_batches /\ <<b, r>> \notin votes}

\* The entry of a batch counts its votes until the last one is there, and the batch was
\* submitted once a majority of them was.
VoteInv ==
    /\ \A b \in Batch :
          /\ batch_votes_[b] = IF Cardinality(Counted(b)) = NumReplicas THEN 0
                               ELSE Cardinality(Counted(b))
          /\ b \in ToSet(submitted) <=> Cardinality(Counted(b)) >= majority
    /\ \A b \in Batch, r \in Replica :
          /\ <<b, r>> \in txn_batches => b \in written /\ <<b, r>> \notin votes
          /\ <<b, r>> \in votes => b \in written

\* No sequence of the log is empty, and what is passed on is an initial part of the log.
LogInv ==
    /\ \A i \in 1..Len(chosen) : chosen[i] # <<>>
    /\ \A r \in Passer :
          /\ Len(ordered[r]) <= Len(chosen)
          /\ \A i \in 1..Len(ordered[r]) : ordered[r][i] = chosen[i]

\* A scheduler keeps what it has read under the version it has in the log, and what it
\* works on and has returned is what the log has from version 1 on.
Keeps(m) ==
    /\ orders_read[m] <= Len(ordered[m[1]])
    /\ \A v \in DOMAIN global_batches_order_[m] :
          v < orders_read[m] /\ global_batches_order_[m][v] = chosen[v + 1]
    /\ current_sequence_id_[m] = 1 \/ current_sequence_id_[m] <= Len(chosen)
    /\ Delivers(chosen, current_sequence_id_[m], current_sequence_[m],
                current_sequence_batch_index_[m], delivered[m])

SchedulerInv == \A m \in Followed : Keeps(m)

TypeInv == TypeOK /\ DOMAIN global_batches_order_ = Followed

IInv == TypeInv /\ SubmittedOnce /\ VoteInv /\ LogInv /\ SchedulerInv


-----------------------------------------------------------------------------
(* FlattenSeq(). *)

\* A set of numbers with 0 and the successors of its elements has them all.
LEMMA NatInd ==
    ASSUME NEW S \in SUBSET Nat, 0 \in S, \A n \in S : n + 1 \in S
    PROVE  S = Nat
<1> SUFFICES ASSUME Nat \ S # {} PROVE FALSE
  OBVIOUS
<1> DEFINE T == Nat \ S
<1>1. \E x \in T : \A y \in T : ~ (<<y, x>> \in OpToRel(<, Nat))
  <2> HIDE DEF T
  <2>1. T # {} /\ T \subseteq Nat
    BY DEF T
  <2> QED
    BY <2>1, NatLessThanWellFounded, WFMin, Zenon
<1>2. PICK x \in T : \A y \in T : ~ (<<y, x>> \in OpToRel(<, Nat))
  BY <1>1
<1>3. x \in Nat /\ x # 0
  OBVIOUS
<1>4. x - 1 \in Nat /\ x - 1 < x /\ (x - 1) + 1 = x
  BY <1>3
<1>5. x - 1 \in S
  <2>1. <<x - 1, x>> \in OpToRel(<, Nat)
    BY <1>3, <1>4 DEF OpToRel
  <2> QED
    BY <1>2, <1>4, <2>1
<1> QED
  BY <1>4, <1>5

\* f[i] is the first i of the sequences ss, one after another, up to the n-th.
Flattens(f, ss, n) == f = [i \in 1..n |-> IF i = 1 THEN ss[i] ELSE f[i - 1] \o ss[i]]

\* FlattenSeq() looks up a function that is chosen by its recursion.
LEMMA FlattenDef ==
    ASSUME NEW ss
    PROVE  FlattenSeq(ss) = IF Len(ss) = 0 THEN ss
                            ELSE (CHOOSE f : Flattens(f, ss, Len(ss)))[Len(ss)]
BY DEF FlattenSeq, Flattens

\* There is such a function,
LEMMA FlattensExists ==
    ASSUME NEW V, NEW ss \in Seq(Seq(V)), NEW m \in Nat, m <= Len(ss)
    PROVE  \E f \in [1..m -> Seq(V)] : Flattens(f, ss, m)
<1> DEFINE S == {n \in Nat : n <= Len(ss) => \E f \in [1..n -> Seq(V)] : Flattens(f, ss, n)}
<1>1. 0 \in S
  <2>1. \A f \in [1..0 -> Seq(V)] : Flattens(f, ss, 0)
    BY DEF Flattens
  <2>2. [i \in 1..0 |-> <<>>] \in [1..0 -> Seq(V)]
    OBVIOUS
  <2> QED
    BY <2>1, <2>2
<1>2. ASSUME NEW n \in S PROVE n + 1 \in S
  <2> SUFFICES ASSUME n + 1 <= Len(ss)
               PROVE  \E f \in [1..(n + 1) -> Seq(V)] : Flattens(f, ss, n + 1)
    OBVIOUS
  <2>1. n \in Nat /\ n <= Len(ss) /\ n + 1 \in 1..Len(ss) /\ Len(ss) \in Nat
    OBVIOUS
  <2>2. PICK f \in [1..n -> Seq(V)] : Flattens(f, ss, n)
    BY <2>1
  <2>3. \A i \in 1..(n + 1) : ss[i] \in Seq(V)
    BY <2>1
  <2> HIDE DEF S
  <2> DEFINE last == IF n = 0 THEN ss[1] ELSE f[n] \o ss[n + 1]
             g    == [i \in 1..(n + 1) |-> IF i = n + 1 THEN last ELSE f[i]]
  <2>4. last \in Seq(V)
    <3>1. CASE n = 0
      BY <2>1, <2>3, <3>1
    <3>2. CASE n # 0
      <4>1. f[n] \in Seq(V) /\ ss[n + 1] \in Seq(V)
        BY <2>1, <2>2, <2>3, <3>2
      <4> QED
        BY <3>2, <4>1, ConcatProperties
    <3> QED
      BY <3>1, <3>2
  <2>5. g \in [1..(n + 1) -> Seq(V)]
    <3>1. \A i \in 1..(n + 1) : i # n + 1 => i \in 1..n
      BY <2>1
    <3> HIDE DEF last
    <3> QED
      BY <2>2, <2>4, <3>1
  <2>6. ASSUME NEW i \in 1..(n + 1) PROVE g[i] = IF i = 1 THEN ss[i] ELSE g[i - 1] \o ss[i]
    <3>1. CASE i # n + 1
      <4>1. i \in 1..n /\ (i # 1 => i - 1 \in 1..n /\ i - 1 # n + 1 /\ i - 1 \in 1..(n + 1))
        BY <2>1, <3>1
      <4>2. f[i] = IF i = 1 THEN ss[i] ELSE f[i - 1] \o ss[i]
        BY <2>2, <4>1 DEF Flattens
      <4> HIDE DEF last
      <4>3. g[i] = f[i] /\ (i # 1 => g[i - 1] = f[i - 1])
        BY <3>1, <4>1
      <4> QED
        BY <4>2, <4>3
    <3>2. CASE i = n + 1
      <4>1. i - 1 = n /\ (i = 1 <=> n = 0) /\ (n # 0 => n \in 1..(n + 1) /\ n # n + 1)
        BY <2>1, <3>2
      <4>2. g[i] = last /\ (n # 0 => g[n] = f[n])
        BY <3>2, <4>1
      <4> QED
        BY <3>2, <4>1, <4>2
    <3> QED
      BY <3>1, <3>2
  <2>7. Flattens(g, ss, n + 1)
    <3>1. g = [i \in 1..(n + 1) |-> g[i]]
      OBVIOUS
    <3> HIDE DEF g
    <3> QED
      BY <2>6, <3>1 DEF Flattens
  <2> HIDE DEF g
  <2> QED
    BY <2>5, <2>7
<1>3. S = Nat
  <2>1. S \in SUBSET Nat
    OBVIOUS
  <2> HIDE DEF S
  <2> QED
    BY <1>1, <1>2, <2>1, NatInd
<1> QED
  BY <1>3

\* Two sequences, or functions, agree up to k.
Agree(ss, tt, k) == \A i \in 1..k : ss[i] = tt[i]

\* and what it gives depends on the sequences before only, so that there is no other.
LEMMA FlattensAgree ==
    ASSUME NEW f, NEW g, NEW ss, NEW tt, NEW n \in Nat, NEW m \in Nat, NEW k \in Nat,
           Flattens(f, ss, n), Flattens(g, tt, m), k <= n, k <= m, Agree(ss, tt, k)
    PROVE  Agree(f, g, k)
<1> DEFINE S == {j \in Nat : j \in 1..k => f[j] = g[j]}
<1>1. 0 \in S
  OBVIOUS
<1>2. ASSUME NEW j \in S PROVE j + 1 \in S
  <2> SUFFICES ASSUME j + 1 \in 1..k PROVE f[j + 1] = g[j + 1]
    OBVIOUS
  <2>1. j \in Nat /\ j + 1 \in 1..n /\ j + 1 \in 1..m /\ (j + 1) - 1 = j
           /\ (j + 1 # 1 => j \in 1..k)
    OBVIOUS
  <2>2. /\ f[j + 1] = IF j + 1 = 1 THEN ss[j + 1] ELSE f[(j + 1) - 1] \o ss[j + 1]
        /\ g[j + 1] = IF j + 1 = 1 THEN tt[j + 1] ELSE g[(j + 1) - 1] \o tt[j + 1]
    BY <2>1 DEF Flattens
  <2>3. ss[j + 1] = tt[j + 1]
    BY <2>1 DEF Agree
  <2> QED
    BY <2>1, <2>2, <2>3
<1>3. S = Nat
  <2>1. S \in SUBSET Nat
    OBVIOUS
  <2> HIDE DEF S
  <2> QED
    BY <1>1, <1>2, <2>1, NatInd
<1> QED
  BY <1>3 DEF Agree

\* The value of FlattenSeq, without the choice of a function.
LEMMA FlattenValue ==
    ASSUME NEW V, NEW ss \in Seq(Seq(V)), Len(ss) # 0
    PROVE  \E f \in [1..Len(ss) -> Seq(V)] : Flattens(f, ss, Len(ss))
              /\ FlattenSeq(ss) = f[Len(ss)]
<1> DEFINE n == Len(ss)
           F == CHOOSE f : Flattens(f, ss, n)
<1>1. n \in Nat \ {0} /\ n \in 1..n
  OBVIOUS
<1>2. FlattenSeq(ss) = F[n]
  BY FlattenDef
<1>3. PICK f \in [1..n -> Seq(V)] : Flattens(f, ss, n)
  <2>1. n <= Len(ss)
    BY <1>1
  <2> HIDE DEF n
  <2> QED
    BY <1>1, <2>1, FlattensExists
<1>4. Flattens(F, ss, n)
  BY <1>3
<1> HIDE DEF F, n
<1>5. F[n] = f[n]
  <2>1. Agree(ss, ss, n) /\ n \in Nat /\ n <= n
    BY <1>1 DEF Agree
  <2>2. Agree(F, f, n)
    BY <1>3, <1>4, <2>1, FlattensAgree
  <2> QED
    BY <1>1, <2>2 DEF Agree
<1> QED
  BY <1>2, <1>3, <1>5 DEF n

\* No sequences.
LEMMA FlattenNothing == FlattenSeq(<<>>) = <<>>
BY FlattenDef

\* A sequence of the same elements.
LEMMA FlattenType ==
    ASSUME NEW V, NEW ss \in Seq(Seq(V))
    PROVE  FlattenSeq(ss) \in Seq(V)
<1>1. CASE Len(ss) = 0
  <2>1. ss = <<>>
    BY <1>1, EmptySeq
  <2> QED
    BY <2>1, FlattenNothing, EmptySeq
<1>2. CASE Len(ss) # 0
  <2>1. Len(ss) \in 1..Len(ss)
    BY <1>2
  <2>2. PICK f \in [1..Len(ss) -> Seq(V)] : FlattenSeq(ss) = f[Len(ss)]
    BY <1>2, FlattenValue
  <2> QED
    BY <2>1, <2>2
<1> QED
  BY <1>1, <1>2

\* One more sequence at the end.
LEMMA FlattenAppend ==
    ASSUME NEW V, NEW ss \in Seq(Seq(V)), NEW t \in Seq(V)
    PROVE  FlattenSeq(Append(ss, t)) = FlattenSeq(ss) \o t
<1> DEFINE n == Len(ss)
           tt == Append(ss, t)
<1>1. /\ n \in Nat /\ tt \in Seq(Seq(V)) /\ Len(tt) = n + 1 /\ tt[n + 1] = t
      /\ \A i \in 1..n : tt[i] = ss[i]
  BY AppendProperties
<1> HIDE DEF tt
<1>2. Len(tt) # 0
  BY <1>1
<1>3. PICK g \in [1..Len(tt) -> Seq(V)] : Flattens(g, tt, Len(tt)) /\ FlattenSeq(tt) = g[Len(tt)]
  BY <1>1, <1>2, FlattenValue
<1>4. Flattens(g, tt, n + 1) /\ FlattenSeq(tt) = g[n + 1] /\ n + 1 \in 1..(n + 1)
         /\ (n + 1) - 1 = n
  BY <1>1, <1>3
<1>5. g[n + 1] = IF n + 1 = 1 THEN tt[n + 1] ELSE g[n] \o tt[n + 1]
  BY <1>4 DEF Flattens
<1>6. CASE n = 0
  <2>1. ss = <<>>
    BY <1>6, EmptySeq
  <2>2. <<>> \o t = t
    BY ConcatEmptySeq
  <2> QED
    BY <1>1, <1>4, <1>5, <1>6, <2>1, <2>2, FlattenNothing DEF tt
<1>7. CASE n # 0
  <2>1. PICK f \in [1..n -> Seq(V)] : Flattens(f, ss, n) /\ FlattenSeq(ss) = f[n]
    BY <1>7, FlattenValue
  <2>2. n \in 1..n /\ n <= n + 1
    BY <1>1, <1>7
  <2>3. f[n] = g[n]
    <3>1. Agree(ss, tt, n) /\ n \in Nat /\ n + 1 \in Nat /\ n <= n
      BY <1>1 DEF Agree
    <3> HIDE DEF n
    <3>2. Agree(f, g, n)
      BY <1>4, <2>1, <2>2, <3>1, FlattensAgree
    <3> QED
      BY <2>2, <3>2 DEF Agree
  <2>4. n + 1 # 1
    BY <1>1, <1>7
  <2> QED
    BY <1>1, <1>4, <1>5, <2>1, <2>3, <2>4 DEF tt
<1> QED
  BY <1>6, <1>7

-----------------------------------------------------------------------------
(* Parts of the log. *)

\* What SubSeq() gives: its type, its length, its elements.
LEMMA PartFacts ==
    ASSUME NEW W, NEW c \in Seq(W), NEW a \in Nat \ {0}, NEW n \in Nat, n <= Len(c)
    PROVE  /\ SubSeq(c, a, n) \in Seq(W)
           /\ Len(SubSeq(c, a, n)) = IF a <= n THEN n - a + 1 ELSE 0
           /\ \A i \in 1..(n - a + 1) : SubSeq(c, a, n)[i] = c[a + i - 1]
<1>1. a \in Int /\ n \in Int /\ \A i \in a..n : c[i] \in W
  OBVIOUS
<1> QED
  BY <1>1, SubSeqProperties

\* An empty part.
LEMMA PartOfNothing ==
    ASSUME NEW c, NEW a \in Nat, NEW n \in Nat, n < a
    PROVE  SubSeq(c, a, n) = <<>>
BY SubSeqEmpty

\* A part that ends one element later.
LEMMA PartAppend ==
    ASSUME NEW W, NEW c \in Seq(W), NEW a \in Nat \ {0}, NEW n \in Nat, n < Len(c), a <= n + 1
    PROVE  SubSeq(c, a, n + 1) = Append(SubSeq(c, a, n), c[n + 1])
<1> DEFINE s == SubSeq(c, a, n)
           t == SubSeq(c, a, n + 1)
           k == n - a + 1
<1>1. Len(c) \in Nat /\ n + 1 \in 1..Len(c) /\ c[n + 1] \in W /\ k \in Nat /\ n + 1 \in Nat
         /\ n + 1 <= Len(c)
  OBVIOUS
<1>2. s \in Seq(W) /\ Len(s) = k /\ \A i \in 1..k : s[i] = c[a + i - 1]
  BY <1>1, PartFacts
<1>3. t \in Seq(W) /\ Len(t) = k + 1 /\ \A i \in 1..(k + 1) : t[i] = c[a + i - 1]
  <2> DEFINE m == n + 1
  <2>1. m \in Nat /\ m <= Len(c) /\ (m - a + 1) = k + 1 /\ a <= m
    BY <1>1
  <2> HIDE DEF m, k
  <2>2. /\ SubSeq(c, a, m) \in Seq(W) /\ Len(SubSeq(c, a, m)) = m - a + 1
        /\ \A i \in 1..(m - a + 1) : SubSeq(c, a, m)[i] = c[a + i - 1]
    BY <2>1, PartFacts
  <2> QED
    BY <2>1, <2>2 DEF m
<1> HIDE DEF s, t
<1>4. /\ Append(s, c[n + 1]) \in Seq(W) /\ Len(Append(s, c[n + 1])) = k + 1
      /\ Append(s, c[n + 1])[k + 1] = c[n + 1] /\ \A i \in 1..k : Append(s, c[n + 1])[i] = s[i]
  BY <1>1, <1>2, AppendProperties
<1>5. ASSUME NEW i \in 1..(k + 1) PROVE t[i] = Append(s, c[n + 1])[i]
  <2>1. CASE i \in 1..k
    BY <1>2, <1>3, <1>4, <2>1
  <2>2. CASE i = k + 1
    <3>1. a + i - 1 = n + 1
      BY <1>1, <2>2
    <3> QED
      BY <1>3, <1>4, <2>2, <3>1
  <2>3. i \in 1..k \/ i = k + 1
    BY <1>1
  <2> QED
    BY <2>1, <2>2, <2>3
<1>6. t = Append(s, c[n + 1])
  BY <1>3, <1>4, <1>5, SeqEqual
<1> QED
  BY <1>6 DEF s, t

\* A part ends before what is appended.
LEMMA PartOfAppend ==
    ASSUME NEW W, NEW c \in Seq(W), NEW e \in W, NEW a \in Nat \ {0}, NEW n \in Nat, n <= Len(c)
    PROVE  SubSeq(Append(c, e), a, n) = SubSeq(c, a, n)
<1> DEFINE s == SubSeq(c, a, n)
           d == Append(c, e)
           t == SubSeq(d, a, n)
<1>1. d \in Seq(W) /\ Len(d) = Len(c) + 1 /\ Len(c) \in Nat /\ \A i \in 1..Len(c) : d[i] = c[i]
  BY AppendProperties
<1> HIDE DEF d
<1>2. n <= Len(d)
  BY <1>1
<1>3. s \in Seq(W) /\ Len(s) = (IF a <= n THEN n - a + 1 ELSE 0)
         /\ \A i \in 1..(n - a + 1) : s[i] = c[a + i - 1]
  BY PartFacts
<1>4. t \in Seq(W) /\ Len(t) = (IF a <= n THEN n - a + 1 ELSE 0)
         /\ \A i \in 1..(n - a + 1) : t[i] = d[a + i - 1]
  BY <1>1, <1>2, PartFacts
<1> HIDE DEF s, t
<1>5. ASSUME NEW i \in 1..Len(s) PROVE t[i] = s[i]
  <2>1. i \in 1..(n - a + 1) /\ a + i - 1 \in 1..Len(c)
    BY <1>1, <1>3
  <2> QED
    BY <1>1, <1>3, <1>4, <2>1
<1>6. t = s
  BY <1>3, <1>4, <1>5, SeqEqual
<1> QED
  BY <1>6 DEF d, s, t

\* The batches from version 1 on.
LEMMA PassedFacts ==
    ASSUME NEW V, NEW c \in Seq(Seq(V)), NEW n \in Nat \ {0}, n = 1 \/ n <= Len(c)
    PROVE  /\ Passed(c, n) \in Seq(V)
           /\ n = 1 => Passed(c, n) = <<>>
           /\ n < Len(c) => Passed(c, n + 1) = Passed(c, n) \o c[n + 1]
           /\ \A s \in Seq(V) : Passed(Append(c, s), n) = Passed(c, n)
<1>1. Len(c) \in Nat /\ \A i \in 1..Len(c) : c[i] \in Seq(V)
  OBVIOUS
<1>2. CASE n = 1
  <2>1. SubSeq(c, 2, n) = <<>> /\ \A s : SubSeq(Append(c, s), 2, n) = <<>>
    <3>1. n < 2
      BY <1>2
    <3> QED
      BY <3>1, PartOfNothing
  <2>2. <<>> \in Seq(V)
    BY EmptySeq
  <2>3. ASSUME n < Len(c) PROVE Passed(c, n + 1) = <<>> \o c[n + 1]
    <3>1. c[n + 1] \in Seq(V) /\ <<>> \in Seq(Seq(V))
      BY <1>1, <2>3, EmptySeq
    <3>2. 2 \in Nat \ {0} /\ 2 <= n + 1
      BY <1>2
    <3>3. SubSeq(c, 2, n + 1) = Append(SubSeq(c, 2, n), c[n + 1])
      BY <2>3, <3>2, PartAppend
    <3>4. FlattenSeq(Append(<<>>, c[n + 1])) = <<>> \o c[n + 1]
      BY <3>1, FlattenAppend, FlattenNothing
    <3> QED
      BY <2>1, <3>3, <3>4 DEF Passed
  <2>4. Passed(c, n) = <<>> /\ \A s : Passed(Append(c, s), n) = <<>>
    BY <2>1, FlattenNothing DEF Passed
  <2> QED
    BY <2>2, <2>3, <2>4
<1>3. CASE n # 1
  <2>1. n <= Len(c) /\ 2 \in Nat \ {0} /\ 2 <= n + 1
    BY <1>3
  <2>2. SubSeq(c, 2, n) \in Seq(Seq(V))
    BY <2>1, PartFacts
  <2>3. ASSUME n < Len(c) PROVE Passed(c, n + 1) = Passed(c, n) \o c[n + 1]
    <3>1. SubSeq(c, 2, n + 1) = Append(SubSeq(c, 2, n), c[n + 1])
      BY <2>1, <2>3, PartAppend
    <3>2. c[n + 1] \in Seq(V)
      BY <1>1, <2>3
    <3> QED
      BY <2>2, <3>1, <3>2, FlattenAppend DEF Passed
  <2>4. \A s \in Seq(V) : SubSeq(Append(c, s), 2, n) = SubSeq(c, 2, n)
    BY <2>1, PartOfAppend
  <2>5. Passed(c, n) \in Seq(V)
    BY <2>2, FlattenType DEF Passed
  <2> QED
    BY <1>3, <2>3, <2>4, <2>5 DEF Passed
<1> QED
  BY <1>2, <1>3

\* The log grows.
LEMMA DeliversInMore ==
    ASSUME NEW V, NEW c \in Seq(Seq(V)), NEW n \in Nat \ {0}, n = 1 \/ n <= Len(c),
           NEW s, NEW k, NEW d, Delivers(c, n, s, k, d), NEW e \in Seq(V)
    PROVE  Delivers(Append(c, e), n, s, k, d)
<1>1. Passed(Append(c, e), n) = Passed(c, n)
  BY PassedFacts
<1>2. Len(Append(c, e)) = Len(c) + 1 /\ Len(c) \in Nat
         /\ \A i \in 1..Len(c) : Append(c, e)[i] = c[i]
  BY AppendProperties
<1>3. n < Len(c) => n + 1 \in 1..Len(c)
  BY <1>2
<1>4. n < Len(c) => n < Len(Append(c, e))
  BY <1>2
<1> QED
  BY <1>1, <1>2, <1>3, <1>4 DEF Delivers

\* The next sequence becomes the current one.
LEMMA DeliversStarted ==
    ASSUME NEW V, NEW c \in Seq(Seq(V)), NEW n \in Nat \ {0}, n < Len(c), c[n + 1] # <<>>,
           NEW k, NEW d, Delivers(c, n, <<>>, k, d)
    PROVE  Delivers(c, n, c[n + 1], 0, d)
<1>1. Len(c) \in Nat /\ c[n + 1] \in Seq(V) /\ Passed(c, n) \in Seq(V)
  BY PassedFacts
<1>2. SubSeq(c[n + 1], 1, 0) = <<>>
  BY PartOfNothing
<1>3. Passed(c, n) \o <<>> = Passed(c, n)
  BY <1>1, ConcatEmptySeq
<1>4. 0 < Len(c[n + 1])
  BY <1>1, EmptySeq
<1> QED
  BY <1>2, <1>3, <1>4 DEF Delivers

\* A batch of the current sequence is returned, and it is not the last one.
LEMMA DeliversNext ==
    ASSUME NEW V, NEW c \in Seq(Seq(V)), NEW n \in Nat \ {0}, NEW s, s # <<>>, NEW k \in Nat,
           NEW d, Delivers(c, n, s, k, d)
    PROVE  /\ k + 1 < Len(s) => Delivers(c, n, s, k + 1, Append(d, s[k + 1]))
           /\ k + 1 >= Len(s) =>
                 /\ n + 1 <= Len(c)
                 /\ \A j : Delivers(c, n + 1, <<>>, j, Append(d, s[k + 1]))
<1>1. /\ n < Len(c) /\ s = c[n + 1] /\ k < Len(s) /\ d = Passed(c, n) \o SubSeq(s, 1, k)
  BY DEF Delivers
<1>2. Len(c) \in Nat /\ s \in Seq(V) /\ Len(s) \in Nat /\ n + 1 <= Len(c)
         /\ k + 1 \in 1..Len(s) /\ n <= Len(c)
  BY <1>1
<1>3. Passed(c, n) \in Seq(V) /\ Passed(c, n + 1) = Passed(c, n) \o s
  BY <1>1, <1>2, PassedFacts
<1>4. SubSeq(s, 1, k + 1) = Append(SubSeq(s, 1, k), s[k + 1]) /\ SubSeq(s, 1, k) \in Seq(V)
         /\ s[k + 1] \in V
  <2>1. k <= Len(s) /\ 1 \in Nat \ {0} /\ 1 <= k + 1
    BY <1>1, <1>2
  <2> QED
    BY <1>1, <1>2, <2>1, PartAppend, PartFacts
<1>5. Append(d, s[k + 1]) = Passed(c, n) \o SubSeq(s, 1, k + 1)
  <2> DEFINE p == Passed(c, n)
             u == SubSeq(s, 1, k)
             x == s[k + 1]
  <2>1. p \in Seq(V) /\ u \in Seq(V) /\ x \in V /\ <<x>> \in Seq(V) /\ d = p \o u
    BY <1>1, <1>3, <1>4
  <2> HIDE DEF p, u, x
  <2>2. p \o u \in Seq(V)
    BY <2>1, ConcatProperties
  <2>3. Append(p \o u, x) = (p \o u) \o <<x>> /\ Append(u, x) = u \o <<x>>
    BY <2>1, <2>2, AppendIsConcat
  <2>4. (p \o u) \o <<x>> = p \o (u \o <<x>>)
    BY <2>1, ConcatAssociative
  <2>5. Append(d, x) = p \o Append(u, x)
    BY <2>1, <2>3, <2>4
  <2> QED
    BY <1>4, <2>5 DEF p, u, x
<1>6. ASSUME k + 1 < Len(s) PROVE Delivers(c, n, s, k + 1, Append(d, s[k + 1]))
  BY <1>1, <1>5, <1>6 DEF Delivers
<1>7. ASSUME k + 1 >= Len(s)
      PROVE  n + 1 <= Len(c) /\ \A j : Delivers(c, n + 1, <<>>, j, Append(d, s[k + 1]))
  <2>1. k + 1 = Len(s)
    BY <1>2, <1>7
  <2>2. SubSeq(s, 1, k + 1) = s
    BY <1>2, <2>1, SubSeqFull
  <2> QED
    BY <1>2, <1>3, <1>5, <2>2 DEF Delivers
<1> QED
  BY <1>6, <1>7

-----------------------------------------------------------------------------
(* The invariant. *)

\* Nothing is written, voted, ordered or delivered yet.
LEMMA InitIsInductive == Init => IInv
<1> SUFFICES ASSUME Init PROVE IInv
  OBVIOUS
<1> USE DEF Init, log!Init
<1>1. NumReplicas \in Nat \ {0}
  BY DeliveryAssumption
<1>2. <<>> \in Seq(Batch) /\ <<>> \in Seq(Seq(Batch)) /\ Len(<<>>) = 0
  BY EmptySeq
<1>3. TypeInv
  <2>1. DOMAIN <<>> = {} /\ Range(<<>>) = {}
    BY DEF Range
  <2>2. batch_votes_ \in [Batch -> 0..(NumReplicas - 1)]
    BY <1>1
  <2>3. ordered \in [Passer -> Seq(Seq(Batch))] /\ current_sequence_ \in [Followed -> Seq(Batch)]
        /\ delivered \in [Followed -> Seq(Batch)]
    BY <1>2
  <2>4. \A m \in Followed : /\ DOMAIN global_batches_order_[m] \subseteq Nat
                            /\ Range(global_batches_order_[m]) \subseteq Seq(Batch)
    BY <2>1
  <2> QED
    BY <1>2, <2>2, <2>3, <2>4 DEF TypeInv, TypeOK
<1>4. SubmittedOnce
  BY DEF SubmittedOnce
<1>5. VoteInv
  <2>1. \A b : Counted(b) = {}
    BY DEF Counted
  <2>2. Cardinality({}) = 0 /\ majority \in Nat \ {0}
    BY <1>1, FS_EmptySet DEF majority
  <2>3. ToSet(submitted) = {}
    BY DEF ToSet
  <2>4. ASSUME NEW b \in Batch
        PROVE  /\ batch_votes_[b] = IF Cardinality(Counted(b)) = NumReplicas THEN 0
                                    ELSE Cardinality(Counted(b))
               /\ b \in ToSet(submitted) <=> Cardinality(Counted(b)) >= majority
    <3>1. Cardinality(Counted(b)) = 0
      BY <2>1, <2>2
    <3>2. ~ (0 >= majority) /\ b \notin ToSet(submitted) /\ batch_votes_[b] = 0
      BY <2>2, <2>3
    <3> QED
      BY <3>1, <3>2
  <2> QED
    BY <2>4 DEF VoteInv
<1>6. LogInv
  BY <1>2 DEF LogInv
<1>7. SchedulerInv
  <2>1. Passed(<<>>, 1) = <<>>
    <3>1. SubSeq(<<>>, 2, 1) = <<>>
      BY PartOfNothing
    <3> QED
      BY <3>1, FlattenNothing DEF Passed
  <2> QED
    BY <1>2, <2>1 DEF SchedulerInv, Keeps, Delivers, Passer
<1> QED
  BY <1>3, <1>4, <1>5, <1>6, <1>7 DEF IInv

\* A step that does not touch what a part of the invariant is about keeps it: the log,
LEMMA LogSame == LogInv /\ UNCHANGED <<chosen, ordered>> => LogInv'
BY DEF LogInv

\* the schedulers,
LEMMA SchedulerSame ==
    SchedulerInv /\ UNCHANGED <<chosen, ordered, schedulerVars>> => SchedulerInv'
BY DEF SchedulerInv, Keeps, schedulerVars

\* the votes.
LEMMA VotesSame ==
    VoteInv /\ SubmittedOnce /\ UNCHANGED <<sequencerVars, submitted>> => VoteInv'
       /\ SubmittedOnce'
BY DEF VoteInv, SubmittedOnce, Counted, sequencerVars

-----------------------------------------------------------------------------
(* The sequencer. *)

\* A majority is at least one replica and at most all of them.
LEMMA MajorityFacts ==
    /\ NumReplicas \in Nat \ {0} /\ majority \in Nat \ {0} /\ majority <= NumReplicas
    /\ IsFiniteSet(Replica) /\ Cardinality(Replica) = NumReplicas
<1>1. NumReplicas \in Nat \ {0} /\ 0 \in Int /\ NumReplicas - 1 \in Int
  BY DeliveryAssumption
<1>2. majority \in Nat \ {0} /\ majority <= NumReplicas
  BY <1>1 DEF majority
<1>3. IsFiniteSet(Replica) /\ Cardinality(Replica) = NumReplicas
  <2>1. IsFiniteSet(0..(NumReplicas - 1))
        /\ Cardinality(0..(NumReplicas - 1))
             = IF 0 > NumReplicas - 1 THEN 0 ELSE (NumReplicas - 1) - 0 + 1
    BY <1>1, FS_Interval
  <2> QED
    BY <1>1, <2>1 DEF Replica
<1> QED
  BY <1>1, <1>2, <1>3

\* The counted votes are finitely many, and all of them only if every replica has voted.
LEMMA CountedFacts ==
    \A b : /\ IsFiniteSet(Counted(b)) /\ Cardinality(Counted(b)) \in Nat
           /\ Cardinality(Counted(b)) <= NumReplicas
           /\ Cardinality(Counted(b)) = NumReplicas => Counted(b) = Replica
<1> SUFFICES ASSUME NEW b
             PROVE  /\ IsFiniteSet(Counted(b)) /\ Cardinality(Counted(b)) \in Nat
                    /\ Cardinality(Counted(b)) <= NumReplicas
                    /\ Cardinality(Counted(b)) = NumReplicas => Counted(b) = Replica
  OBVIOUS
<1>1. Counted(b) \in SUBSET Replica
  BY DEF Counted
<1>2. /\ IsFiniteSet(Counted(b)) /\ Cardinality(Counted(b)) <= Cardinality(Replica)
      /\ Cardinality(Replica) = Cardinality(Counted(b)) => Replica = Counted(b)
  BY <1>1, MajorityFacts, FS_Subset
<1>3. Cardinality(Counted(b)) \in Nat
  BY <1>2, FS_CardinalityType
<1> QED
  BY <1>2, <1>3, MajorityFacts

\* A new batch has no votes.
LEMMA WriteBatchPreserves ==
    ASSUME IInv, NEW b \in Batch, WriteBatch(b)
    PROVE  IInv'
<1> USE DEF IInv, WriteBatch
<1>1. TypeInv'
  BY DEF TypeInv, TypeOK, logVars, schedulerVars
<1>2. VoteInv'
  <2>1. \A c : Counted(c)' = Counted(c)
    <3>1. ASSUME NEW c, NEW r \in Replica
          PROVE  (c \in written' /\ <<c, r>> \notin txn_batches' /\ <<c, r>> \notin votes')
                   <=> (c \in written /\ <<c, r>> \notin txn_batches /\ <<c, r>> \notin votes)
      BY <3>1
    <3> QED
      BY <3>1 DEF Counted
  <2>2. \A c \in Batch, r \in Replica :
          /\ <<c, r>> \in txn_batches' => c \in written' /\ <<c, r>> \notin votes'
          /\ <<c, r>> \in votes' => c \in written'
    BY DEF VoteInv
  <2> QED
    BY <2>1, <2>2 DEF VoteInv, logVars
<1>3. SubmittedOnce' /\ LogInv' /\ SchedulerInv'
  BY LogSame, SchedulerSame DEF SubmittedOnce, logVars
<1> QED
  BY <1>1, <1>2, <1>3

\* A vote on its way is not counted.
LEMMA ForwardBatchPreserves ==
    ASSUME IInv, NEW b \in Batch, NEW r \in Replica, ForwardBatch(b, r)
    PROVE  IInv'
<1> USE DEF IInv, ForwardBatch
<1>1. TypeInv'
  BY DEF TypeInv, TypeOK, logVars, schedulerVars
<1>2. VoteInv'
  <2>1. \A c : Counted(c)' = Counted(c)
    <3>1. ASSUME NEW c, NEW s \in Replica
          PROVE  (c \in written' /\ <<c, s>> \notin txn_batches' /\ <<c, s>> \notin votes')
                   <=> (c \in written /\ <<c, s>> \notin txn_batches /\ <<c, s>> \notin votes)
      BY <3>1
    <3> QED
      BY <3>1 DEF Counted
  <2>2. \A c \in Batch, s \in Replica :
          /\ <<c, s>> \in txn_batches' => c \in written' /\ <<c, s>> \notin votes'
          /\ <<c, s>> \in votes' => c \in written'
    BY DEF VoteInv
  <2> QED
    BY <2>1, <2>2 DEF VoteInv, logVars
<1>3. SubmittedOnce' /\ LogInv' /\ SchedulerInv'
  BY LogSame, SchedulerSame DEF SubmittedOnce, logVars
<1> QED
  BY <1>1, <1>2, <1>3

\* One more batch submitted: none twice if it was not among them.
LEMMA SubmitFacts ==
    ASSUME NEW V, NEW s \in Seq(V), NEW e \in V
    PROVE  /\ ToSet(Append(s, e)) = ToSet(s) \cup {e}
           /\ e \notin ToSet(s) /\ (\A i, j \in DOMAIN s : i # j => s[i] # s[j])
                => \A i, j \in DOMAIN Append(s, e) : i # j => Append(s, e)[i] # Append(s, e)[j]
<1> DEFINE t == Append(s, e)
<1>1. /\ Len(s) \in Nat /\ DOMAIN s = 1..Len(s) /\ DOMAIN t = 1..(Len(s) + 1)
      /\ t[Len(s) + 1] = e /\ \A i \in 1..Len(s) : t[i] = s[i]
  OBVIOUS
<1> HIDE DEF t
<1>2. \A i \in DOMAIN t : i \in DOMAIN s \/ i = Len(s) + 1
  BY <1>1
<1>3. ToSet(t) = ToSet(s) \cup {e}
  <2>1. \A i \in DOMAIN s : i \in DOMAIN t /\ t[i] = s[i]
    BY <1>1
  <2>2. Len(s) + 1 \in DOMAIN t
    BY <1>1
  <2> QED
    BY <1>1, <1>2, <2>1, <2>2 DEF ToSet
<1>4. ASSUME e \notin ToSet(s), \A i, j \in DOMAIN s : i # j => s[i] # s[j],
             NEW i \in DOMAIN t, NEW j \in DOMAIN t, i # j
      PROVE  t[i] # t[j]
  <2>1. \A k \in DOMAIN s : t[k] = s[k] /\ s[k] # e
    BY <1>1, <1>4 DEF ToSet
  <2> QED
    BY <1>1, <1>2, <1>4, <2>1
<1> QED
  BY <1>3, <1>4 DEF t

\* A vote for b is one more counted, so that the majority is reached once.
LEMMA CountVotePreserves ==
    ASSUME IInv, NEW b \in Batch, NEW r \in Replica, CountVote(b, r)
    PROVE  IInv'
<1> USE DEF IInv
<1> DEFINE n == batch_votes_[b] + 1
<1>1. /\ <<b, r>> \in votes /\ votes' = votes \ {<<b, r>>} /\ written' = written
            /\ txn_batches' = txn_batches
      /\ batch_votes_' = [batch_votes_ EXCEPT ![b] = IF n = NumReplicas THEN 0 ELSE n]
      /\ IF n = majority THEN submitted' = Append(submitted, b) ELSE submitted' = submitted
      /\ UNCHANGED <<taken, chosen, ordered, subbatches, schedulerVars>>
  BY DEF CountVote, log!Submit, logVars
<1>2. \A c : c # b => Counted(c)' = Counted(c)
  BY <1>1 DEF Counted
<1>3. Counted(b)' = Counted(b) \cup {r} /\ r \notin Counted(b)
  BY <1>1 DEF Counted, VoteInv
<1>4. Cardinality(Counted(b)') = Cardinality(Counted(b)) + 1
  BY <1>3, CountedFacts, FS_AddElement
<1>5. Cardinality(Counted(b)) # NumReplicas /\ Cardinality(Counted(b)) \in Nat
      /\ Cardinality(Counted(b)) <= NumReplicas
  BY <1>3, CountedFacts
<1>6. n = Cardinality(Counted(b)) + 1 /\ n \in 1..NumReplicas
  BY <1>5, MajorityFacts DEF VoteInv
<1>7. b \in ToSet(submitted) <=> n - 1 >= majority
  BY <1>5, <1>6 DEF VoteInv
<1>8. submitted \in Seq(Batch) /\ batch_votes_ \in [Batch -> 0..(NumReplicas - 1)]
  BY DEF TypeInv, TypeOK
<1> HIDE DEF n
<1>9. submitted' \in Seq(Batch) /\ Len(submitted') >= Len(submitted) /\ Len(submitted') \in Nat
  <2>1. submitted' = submitted \/ submitted' = Append(submitted, b)
    BY <1>1
  <2>2. CASE submitted' = submitted
    BY <1>8, <2>2
  <2>3. CASE submitted' = Append(submitted, b)
    <3>1. PICK z \in Seq(Batch) : z = submitted
      BY <1>8
    <3>2. Append(z, b) \in Seq(Batch) /\ Len(Append(z, b)) = Len(z) + 1 /\ Len(z) \in Nat
      BY AppendProperties
    <3> QED
      BY <2>3, <3>1, <3>2
  <2> QED
    BY <2>1, <2>2, <2>3
<1>10. ToSet(submitted') = IF n = majority THEN ToSet(submitted) \cup {b} ELSE ToSet(submitted)
  BY <1>1, <1>8, SubmitFacts
<1>11. TypeInv'
  <2>1. batch_votes_' \in [Batch -> 0..(NumReplicas - 1)]
    BY <1>1, <1>6, <1>8, MajorityFacts
  <2>2. taken' \in 0..Len(submitted')
    BY <1>1, <1>8, <1>9 DEF TypeInv, TypeOK
  <2> QED
    BY <1>1, <1>9, <2>1, <2>2 DEF TypeInv, TypeOK, schedulerVars
<1>12. VoteInv'
  <2>1. ASSUME NEW c \in Batch
        PROVE  /\ batch_votes_'[c] = IF Cardinality(Counted(c)') = NumReplicas THEN 0
                                     ELSE Cardinality(Counted(c)')
               /\ c \in ToSet(submitted') <=> Cardinality(Counted(c)') >= majority
    <3>1. CASE c = b
      <4>1. batch_votes_'[c] = IF n = NumReplicas THEN 0 ELSE n
        BY <1>1, <1>8, <3>1
      <4>2. Cardinality(Counted(c)') = n
        BY <1>4, <1>6, <3>1
      <4>3. c \in ToSet(submitted') <=> n >= majority
        BY <1>6, <1>7, <1>10, <3>1, MajorityFacts
      <4> QED
        BY <4>1, <4>2, <4>3
    <3>2. CASE c # b
      BY <1>1, <1>2, <1>8, <1>10, <3>2 DEF VoteInv
    <3> QED
      BY <3>1, <3>2
  <2>2. \A c \in Batch, s \in Replica :
          /\ <<c, s>> \in txn_batches' => c \in written' /\ <<c, s>> \notin votes'
          /\ <<c, s>> \in votes' => c \in written'
    BY <1>1 DEF VoteInv
  <2> QED
    BY <2>1, <2>2 DEF VoteInv
<1>13. SubmittedOnce'
  <2>1. CASE n = majority
    <3>1. b \notin ToSet(submitted)
      BY <1>6, <1>7, <2>1, MajorityFacts
    <3> QED
      BY <1>1, <1>8, <2>1, <3>1, SubmitFacts DEF SubmittedOnce
  <2>2. CASE n # majority
    BY <1>1, <2>2 DEF SubmittedOnce
  <2> QED
    BY <2>1, <2>2
<1>14. LogInv' /\ SchedulerInv'
  BY <1>1, LogSame, SchedulerSame
<1> QED
  BY <1>11, <1>12, <1>13, <1>14

-----------------------------------------------------------------------------
(* The log. *)

\* A longer log begins as the old one did.
LEMMA ChoosePreserves ==
    ASSUME IInv, Choose
    PROVE  IInv'
<1> USE DEF IInv
<1> DEFINE e == SubSeq(submitted, taken + 1, taken')
           c == chosen
<1>1. /\ taken' \in (taken + 1)..Len(submitted)
      /\ chosen' = Append(c, e)
      /\ UNCHANGED <<submitted, ordered, sequencerVars, subbatches, schedulerVars>>
  BY DEF Choose, log!Choose
<1>2. submitted \in Seq(Batch) /\ taken \in 0..Len(submitted) /\ c \in Seq(Seq(Batch))
      /\ ordered \in [Passer -> Seq(Seq(Batch))]
            /\ current_sequence_id_ \in [Followed -> Nat \ {0}]
  BY DEF TypeInv, TypeOK
<1>3. e \in Seq(Batch) /\ e # <<>>
  <2>1. taken + 1 \in Nat \ {0} /\ taken' \in Nat /\ taken' <= Len(submitted)
           /\ taken + 1 <= taken'
    BY <1>1, <1>2
  <2>2. e \in Seq(Batch) /\ Len(e) = taken' - (taken + 1) + 1
    BY <1>2, <2>1, PartFacts
  <2> HIDE DEF e
  <2>3. Len(e) # 0
    BY <2>1, <2>2
  <2> QED
    BY <2>2, <2>3, EmptySeq
<1> HIDE DEF e
<1>4. /\ chosen' \in Seq(Seq(Batch)) /\ Len(chosen') = Len(c) + 1 /\ Len(c) \in Nat
      /\ chosen'[Len(c) + 1] = e /\ \A i \in 1..Len(c) : chosen'[i] = c[i]
  BY <1>1, <1>2, <1>3, AppendProperties
<1> HIDE DEF c
<1>5. TypeInv'
  <2>1. taken' \in 0..Len(submitted')
    BY <1>1, <1>2
  <2> QED
    BY <1>1, <1>4, <2>1 DEF TypeInv, TypeOK, sequencerVars, schedulerVars
<1>6. VoteInv' /\ SubmittedOnce'
  BY <1>1, VotesSame
<1>7. LogInv'
  <2>1. \A i \in 1..Len(chosen') : chosen'[i] # <<>>
    <3>1. \A i \in 1..Len(chosen') : i \in 1..Len(c) \/ i = Len(c) + 1
      BY <1>4
    <3>2. \A i \in 1..Len(c) : c[i] # <<>>
      BY DEF LogInv, c
    <3> QED
      BY <1>3, <1>4, <3>1, <3>2
  <2>2. ASSUME NEW r \in Passer
        PROVE  Len(ordered'[r]) <= Len(chosen')
                  /\ \A i \in 1..Len(ordered'[r]) : ordered'[r][i] = chosen'[i]
    <3>1. Len(ordered[r]) \in Nat /\ Len(ordered[r]) <= Len(c)
             /\ \A i \in 1..Len(ordered[r]) : ordered[r][i] = c[i]
      BY <1>2 DEF LogInv, c
    <3> QED
      BY <1>1, <1>4, <3>1
  <2> QED
    BY <2>1, <2>2 DEF LogInv
<1>8. SchedulerInv'
  <2> SUFFICES ASSUME NEW m \in Followed PROVE Keeps(m)'
    BY DEF SchedulerInv
  <2> DEFINE r == m[1]
             n == current_sequence_id_[m]
  <2>1. r \in Passer /\ n \in Nat \ {0}
    BY <1>2 DEF Passer
  <2>2. Len(ordered[r]) \in Nat /\ Len(ordered[r]) <= Len(c)
    BY <1>2, <2>1 DEF LogInv, c
  <2>3. /\ orders_read[m] <= Len(ordered[r]) /\ orders_read[m] \in Nat
        /\ DOMAIN global_batches_order_[m] \subseteq Nat
        /\ \A v \in DOMAIN global_batches_order_[m] :
              v < orders_read[m] /\ global_batches_order_[m][v] = c[v + 1]
        /\ n = 1 \/ n <= Len(c)
        /\ Delivers(c, n, current_sequence_[m], current_sequence_batch_index_[m], delivered[m])
    BY DEF SchedulerInv, Keeps, TypeInv, TypeOK, c
  <2> HIDE DEF r, n
  <2>4. Delivers(chosen', n, current_sequence_[m], current_sequence_batch_index_[m], delivered[m])
    BY <1>1, <1>2, <1>3, <2>1, <2>3, DeliversInMore DEF c
  <2>5. \A v \in DOMAIN global_batches_order_[m] :
           v < orders_read[m] /\ global_batches_order_[m][v] = chosen'[v + 1]
    <3> SUFFICES ASSUME NEW v \in DOMAIN global_batches_order_[m]
                 PROVE  v < orders_read[m] /\ global_batches_order_[m][v] = chosen'[v + 1]
      OBVIOUS
    <3>1. v \in Nat /\ v < orders_read[m] /\ global_batches_order_[m][v] = c[v + 1]
      BY <2>3
    <3>2. v + 1 \in 1..Len(c)
      BY <3>1, <2>2, <2>3
    <3>3. chosen'[v + 1] = c[v + 1]
      BY <3>2, <1>4
    <3> QED
      BY <3>1, <3>3
  <2>6. n = 1 \/ n <= Len(chosen')
    BY <1>4, <2>1, <2>3
  <2>7. /\ orders_read' = orders_read /\ global_batches_order_' = global_batches_order_
        /\ current_sequence_' = current_sequence_ /\ current_sequence_id_' = current_sequence_id_
        /\ current_sequence_batch_index_' = current_sequence_batch_index_
        /\ delivered' = delivered /\ ordered' = ordered
    BY <1>1 DEF schedulerVars
  <2> QED
    BY <2>3, <2>4, <2>5, <2>6, <2>7 DEF Keeps, r, n
<1> QED
  BY <1>5, <1>6, <1>7, <1>8

\* What is passed on is the next sequence of the log.
LEMMA PassOnPreserves ==
    ASSUME IInv, NEW r \in Passer, PassOn(r)
    PROVE  IInv'
<1> USE DEF IInv
<1> DEFINE k == Len(ordered[r])
<1>1. /\ k < Len(chosen)
      /\ ordered' = [p \in Passer |->
                     IF p = r THEN Append(ordered[r], chosen[k + 1]) ELSE ordered[p]]
      /\ UNCHANGED <<submitted, taken, chosen, sequencerVars, subbatches, schedulerVars>>
  BY DEF PassOn, log!PassOn
<1>2. /\ chosen \in Seq(Seq(Batch)) /\ ordered \in [Passer -> Seq(Seq(Batch))]
      /\ orders_read \in [Followed -> Nat]
  BY DEF TypeInv, TypeOK
<1>3. k \in Nat /\ Len(chosen) \in Nat /\ chosen[k + 1] \in Seq(Batch)
  BY <1>1, <1>2
<1>4. /\ ordered'[r] \in Seq(Seq(Batch)) /\ Len(ordered'[r]) = k + 1
            /\ ordered'[r][k + 1] = chosen[k + 1]
      /\ \A i \in 1..k : ordered'[r][i] = ordered[r][i]
  <2>1. ordered'[r] = Append(ordered[r], chosen[k + 1]) /\ ordered[r] \in Seq(Seq(Batch))
    BY <1>1, <1>2
  <2> QED
    BY <1>3, <2>1, AppendProperties
<1>5. \A p \in Passer : p # r => ordered'[p] = ordered[p]
  BY <1>1
<1> HIDE DEF k
<1>6. \A p \in Passer : ordered'[p] \in Seq(Seq(Batch))
  BY <1>2, <1>4, <1>5
<1>7. TypeInv'
  <2>1. ordered' \in [Passer -> Seq(Seq(Batch))]
    BY <1>1, <1>6
  <2> QED
    BY <1>1, <2>1 DEF TypeInv, TypeOK, sequencerVars, schedulerVars
<1>8. VoteInv' /\ SubmittedOnce'
  BY <1>1, VotesSame
<1>9. LogInv'
  <2>1. ASSUME NEW p \in Passer
        PROVE  Len(ordered'[p]) <= Len(chosen)
                  /\ \A i \in 1..Len(ordered'[p]) : ordered'[p][i] = chosen[i]
    <3>1. CASE p = r
      <4>1. \A i \in 1..k : ordered[r][i] = chosen[i]
        BY DEF LogInv, k
      <4>2. \A i \in 1..(k + 1) : i \in 1..k \/ i = k + 1
        BY <1>3
      <4> QED
        BY <1>1, <1>3, <1>4, <3>1, <4>1, <4>2
    <3>2. CASE p # r
      BY <1>5, <3>2 DEF LogInv
    <3> QED
      BY <3>1, <3>2
  <2> QED
    BY <1>1, <2>1 DEF LogInv
<1>10. SchedulerInv'
  <2> SUFFICES ASSUME NEW m \in Followed PROVE Keeps(m)'
    BY DEF SchedulerInv
  <2> DEFINE q == m[1]
  <2>1. q \in Passer
    BY DEF Passer
  <2>2. orders_read[m] <= Len(ordered[q]) /\ orders_read[m] \in Nat
    BY <1>2 DEF SchedulerInv, Keeps
  <2> HIDE DEF q
  <2>3. orders_read[m] <= Len(ordered'[q])
    <3>1. CASE q = r
      BY <1>3, <1>4, <2>2, <3>1 DEF k
    <3>2. CASE q # r
      BY <1>5, <2>1, <2>2, <3>2
    <3> QED
      BY <3>1, <3>2
  <2> QED
    BY <1>1, <2>3 DEF SchedulerInv, Keeps, schedulerVars, q
<1> QED
  BY <1>7, <1>8, <1>9, <1>10

-----------------------------------------------------------------------------
(* The schedulers. *)

\* The types of the scheduler's variables.
LEMMA SchedulerTypes ==
    ASSUME TypeInv
    PROVE  /\ current_sequence_ \in [Followed -> Seq(Batch)]
           /\ current_sequence_id_ \in [Followed -> Nat \ {0}]
           /\ current_sequence_batch_index_ \in [Followed -> Nat]
           /\ delivered \in [Followed -> Seq(Batch)]
           /\ orders_read \in [Followed -> Nat]
           /\ DOMAIN global_batches_order_ = Followed
BY DEF TypeInv, TypeOK

\* One value of a function is replaced by another of its type.
LEMMA ExceptType ==
    ASSUME NEW S, NEW T, NEW f \in [S -> T], NEW x \in S, NEW v \in T
    PROVE  /\ [f EXCEPT ![x] = v] \in [S -> T]
           /\ [f EXCEPT ![x] = v][x] = v
           /\ \A y \in S \ {x} : [f EXCEPT ![x] = v][y] = f[y]
OBVIOUS

\* What the invariant says of the scheduler of m.
LEMMA SchedulerFacts ==
    ASSUME IInv, NEW m \in Followed
    PROVE  /\ chosen \in Seq(Seq(Batch)) /\ Len(chosen) \in Nat
                 /\ \A i \in 1..Len(chosen) : chosen[i] # <<>>
           /\ ordered[m[1]] \in Seq(Seq(Batch)) /\ Len(ordered[m[1]]) \in Nat
           /\ Len(ordered[m[1]]) <= Len(chosen)
           /\ \A i \in 1..Len(ordered[m[1]]) : ordered[m[1]][i] = chosen[i]
           /\ orders_read[m] \in Nat /\ orders_read[m] <= Len(ordered[m[1]])
           /\ current_sequence_[m] \in Seq(Batch) /\ current_sequence_id_[m] \in Nat \ {0}
           /\ current_sequence_batch_index_[m] \in Nat
           /\ DOMAIN global_batches_order_[m] \subseteq Nat
           /\ \A v \in DOMAIN global_batches_order_[m] :
                 v < orders_read[m] /\ global_batches_order_[m][v] = chosen[v + 1]
           /\ batches_data_[m] \in SUBSET Batch /\ delivered[m] \in Seq(Batch)
           /\ current_sequence_id_[m] = 1 \/ current_sequence_id_[m] <= Len(chosen)
           /\ Delivers(chosen, current_sequence_id_[m], current_sequence_[m],
                       current_sequence_batch_index_[m], delivered[m])
<1>1. m[1] \in Passer
  BY DEF Passer
<1> QED
  BY <1>1 DEF IInv, TypeInv, TypeOK, LogInv, SchedulerInv, Keeps

\* A step of the scheduler of m leaves everything else as it is.
LEMMA OthersKeep ==
    ASSUME IInv, NEW m \in Followed, UNCHANGED <<sequencerVars, logVars>>, TypeInv', Keeps(m)',
           \A x \in Followed \ {m} :
              /\ orders_read'[x] = orders_read[x]
              /\ current_sequence_'[x] = current_sequence_[x]
              /\ current_sequence_id_'[x] = current_sequence_id_[x]
              /\ current_sequence_batch_index_'[x] = current_sequence_batch_index_[x]
              /\ global_batches_order_'[x] = global_batches_order_[x]
              /\ delivered'[x] = delivered[x]
    PROVE  IInv'
<1>1. UNCHANGED <<submitted, taken, chosen, ordered>>
  BY DEF logVars
<1>2. VoteInv' /\ SubmittedOnce' /\ LogInv'
  BY <1>1, VotesSame, LogSame DEF IInv
<1>3. ASSUME NEW x \in Followed \ {m} PROVE Keeps(x)'
  BY <1>1 DEF IInv, SchedulerInv, Keeps
<1>4. SchedulerInv'
  BY <1>3 DEF SchedulerInv
<1> QED
  BY <1>2, <1>4 DEF IInv

\* An order put by under its version is the sequence that the log has there.
LEMMA TakeStoredOrderPreserves ==
    ASSUME IInv, NEW m \in Followed, TakeStoredOrder(m)
    PROVE  IInv'
<1> DEFINE n == current_sequence_id_[m]
           by == global_batches_order_[m]
           d == delivered[m]
<1>1. /\ current_sequence_[m] = <<>> /\ n \in DOMAIN by
      /\ current_sequence_' = [current_sequence_ EXCEPT ![m] = by[n]]
      /\ current_sequence_batch_index_' = [current_sequence_batch_index_ EXCEPT ![m] = 0]
      /\ global_batches_order_' = [global_batches_order_ EXCEPT
                                   ![m] = [v \in DOMAIN by \ {n} |-> by[v]]]
      /\ UNCHANGED <<current_sequence_id_, sequencerVars, subbatches, logVars, orders_read,
                     batches_data_, delivered>>
  BY DEF TakeStoredOrder, HasSequence, Receiving, StartSequence
<1>2. TypeInv
  BY DEF IInv
<1>3. /\ chosen \in Seq(Seq(Batch)) /\ Len(chosen) \in Nat /\ n \in Nat \ {0} /\ n < Len(chosen)
      /\ by[n] = chosen[n + 1] /\ chosen[n + 1] # <<>> /\ chosen[n + 1] \in Seq(Batch)
  <2>1. /\ chosen \in Seq(Seq(Batch)) /\ Len(chosen) \in Nat /\ n \in Nat \ {0}
        /\ n < orders_read[m] /\ orders_read[m] \in Nat /\ orders_read[m] <= Len(ordered[m[1]])
        /\ Len(ordered[m[1]]) \in Nat /\ Len(ordered[m[1]]) <= Len(chosen)
        /\ by[n] = chosen[n + 1]
    BY <1>1, SchedulerFacts
  <2>2. n < Len(chosen) /\ n + 1 \in 1..Len(chosen)
    BY <2>1
  <2> QED
    BY <2>1, <2>2, SchedulerFacts
<1>4. Delivers(chosen, n, <<>>, current_sequence_batch_index_[m], d)
  BY <1>1, SchedulerFacts
<1> HIDE DEF n, by, d
<1>5. Delivers(chosen, n, chosen[n + 1], 0, d)
  BY <1>3, <1>4, DeliversStarted
<1>6. TypeInv'
  <2>1. current_sequence_' \in [Followed -> Seq(Batch)]
           /\ current_sequence_batch_index_' \in [Followed -> Nat]
    <3>1. /\ current_sequence_ \in [Followed -> Seq(Batch)]
          /\ current_sequence_batch_index_ \in [Followed -> Nat]
      BY <1>2, SchedulerTypes
    <3>2. [current_sequence_ EXCEPT ![m] = by[n]] \in [Followed -> Seq(Batch)]
      BY <1>3, <3>1, ExceptType
    <3>3. [current_sequence_batch_index_ EXCEPT ![m] = 0] \in [Followed -> Nat]
      BY <3>1, ExceptType
    <3> QED
      BY <1>1, <3>2, <3>3
  <2>2. ASSUME NEW x \in Followed
        PROVE  /\ DOMAIN global_batches_order_'[x] \subseteq Nat
               /\ Range(global_batches_order_'[x]) \subseteq Seq(Batch)
    <3>1. CASE x = m
      <4>1. DOMAIN by \subseteq Nat /\ \A v \in DOMAIN by : by[v] \in Seq(Batch)
        BY <1>2 DEF TypeInv, TypeOK, Range, by
      <4>2. DOMAIN global_batches_order_ = Followed
        BY <1>2, SchedulerTypes
      <4>3. global_batches_order_'[x] = [v \in DOMAIN by \ {n} |-> by[v]]
        BY <1>1, <3>1, <4>2
      <4> QED
        BY <4>1, <4>3 DEF Range
    <3>2. CASE x # m
      BY <1>1, <1>2, <3>2 DEF TypeInv, TypeOK
    <3> QED
      BY <3>1, <3>2
  <2>3. DOMAIN global_batches_order_' = Followed
    BY <1>1, <1>2 DEF TypeInv
  <2> QED
    BY <1>1, <1>2, <2>1, <2>2, <2>3 DEF TypeInv, TypeOK, sequencerVars, logVars
<1>7. Keeps(m)'
  <2>1. /\ current_sequence_'[m] = chosen[n + 1] /\ current_sequence_batch_index_'[m] = 0
        /\ current_sequence_id_'[m] = n /\ delivered'[m] = d /\ orders_read'[m] = orders_read[m]
        /\ global_batches_order_'[m] = [v \in DOMAIN by \ {n} |-> by[v]]
        /\ chosen' = chosen /\ ordered' = ordered
    BY <1>1, <1>2, <1>3 DEF TypeInv, TypeOK, logVars, n, d
  <2>2. \A v \in DOMAIN global_batches_order_'[m] :
           v < orders_read'[m] /\ global_batches_order_'[m][v] = chosen'[v + 1]
    <3>1. \A v \in DOMAIN by : v < orders_read[m] /\ by[v] = chosen[v + 1]
      BY SchedulerFacts DEF by
    <3> QED
      BY <2>1, <3>1
  <2>3. orders_read'[m] <= Len(ordered'[m[1]])
    BY <2>1, SchedulerFacts
  <2>4. current_sequence_id_'[m] <= Len(chosen')
    BY <1>3, <2>1
  <2>5. Delivers(chosen', current_sequence_id_'[m], current_sequence_'[m],
                   current_sequence_batch_index_'[m], delivered'[m])
    BY <1>5, <2>1
  <2> QED
    BY <2>2, <2>3, <2>4, <2>5 DEF Keeps
<1> QED
  <2>1. \A x \in Followed \ {m} :
          /\ orders_read'[x] = orders_read[x]
          /\ current_sequence_'[x] = current_sequence_[x]
          /\ current_sequence_id_'[x] = current_sequence_id_[x]
          /\ current_sequence_batch_index_'[x] = current_sequence_batch_index_[x]
          /\ global_batches_order_'[x] = global_batches_order_[x]
          /\ delivered'[x] = delivered[x]
    BY <1>1, <1>2 DEF TypeInv, TypeOK
  <2> QED
    BY <1>1, <1>6, <1>7, <2>1, OthersKeep

\* The order received is the next of the log, which is not always the one wanted now.
LEMMA ReceiveOrderPreserves ==
    ASSUME IInv, NEW m \in Followed, ReceiveOrder(m)
    PROVE  IInv'
<1> DEFINE n == current_sequence_id_[m]
           v == orders_read[m]
           s == ordered[m[1]][v + 1]
           by == global_batches_order_[m]
           d == delivered[m]
<1>1. /\ v < Len(ordered[m[1]])
      /\ orders_read' = [orders_read EXCEPT ![m] = v + 1]
      /\ UNCHANGED <<sequencerVars, subbatches, logVars, batches_data_, delivered>>
  BY DEF ReceiveOrder
<1>2. TypeInv
  BY DEF IInv
<1>3. /\ chosen \in Seq(Seq(Batch)) /\ v \in Nat /\ n \in Nat \ {0} /\ DOMAIN by \subseteq Nat
      /\ s = chosen[v + 1] /\ s # <<>> /\ s \in Seq(Batch) /\ v < Len(chosen)
  <2>1. /\ chosen \in Seq(Seq(Batch)) /\ Len(chosen) \in Nat /\ n \in Nat \ {0} /\ v \in Nat
        /\ Len(ordered[m[1]]) \in Nat /\ Len(ordered[m[1]]) <= Len(chosen)
              /\ DOMAIN by \subseteq Nat
        /\ \A i \in 1..Len(ordered[m[1]]) : ordered[m[1]][i] = chosen[i]
        /\ \A i \in 1..Len(chosen) : chosen[i] # <<>>
    BY SchedulerFacts
  <2> HIDE DEF v, n, by
  <2>2. v < Len(chosen) /\ v + 1 \in 1..Len(chosen) /\ v + 1 \in 1..Len(ordered[m[1]])
    BY <1>1, <2>1
  <2>3. s = chosen[v + 1] /\ chosen[v + 1] # <<>> /\ chosen[v + 1] \in Seq(Batch)
    BY <2>1, <2>2
  <2> QED
    BY <2>1, <2>2, <2>3
<1>4. \A w \in DOMAIN by : w < v /\ by[w] = chosen[w + 1]
  BY SchedulerFacts
<1>5. v + 1 \in Nat /\ v + 1 <= Len(ordered[m[1]])
  <2>1. Len(ordered[m[1]]) \in Nat
    BY SchedulerFacts
  <2> HIDE DEF v
  <2> QED
    BY <1>1, <1>3, <2>1
<1>6. \A x \in Followed \ {m} : orders_read'[x] = orders_read[x] /\ delivered'[x] = delivered[x]
  BY <1>1, <1>2 DEF TypeInv, TypeOK
<1>7. /\ orders_read' \in [Followed -> Nat] /\ orders_read'[m] = v + 1 /\ delivered'[m] = d
      /\ chosen' = chosen /\ ordered' = ordered
  <2>1. orders_read \in [Followed -> Nat]
    BY <1>2, SchedulerTypes
  <2> HIDE DEF v
  <2>2. orders_read' \in [Followed -> Nat] /\ orders_read'[m] = v + 1
    BY <1>1, <1>5, <2>1, ExceptType
  <2> QED
    BY <1>1, <2>2 DEF logVars
<1>8. CASE current_sequence_[m] = <<>> /\ v = n
  <2>1. /\ current_sequence_' = [current_sequence_ EXCEPT ![m] = s]
        /\ current_sequence_batch_index_' = [current_sequence_batch_index_ EXCEPT ![m] = 0]
        /\ UNCHANGED <<current_sequence_id_, global_batches_order_>>
    BY <1>8 DEF ReceiveOrder, HasSequence, StartSequence
  <2>2. Delivers(chosen, n, <<>>, current_sequence_batch_index_[m], d)
    BY <1>8, SchedulerFacts
  <2> HIDE DEF n, by, d, s, v
  <2>3. Delivers(chosen, n, s, 0, d)
    BY <1>3, <1>8, <2>2, DeliversStarted
  <2>4. TypeInv'
    <3>1. current_sequence_' \in [Followed -> Seq(Batch)]
             /\ current_sequence_batch_index_' \in [Followed -> Nat]
      BY <1>2, <1>3, <2>1 DEF TypeInv, TypeOK
    <3> QED
      BY <1>1, <1>2, <1>7, <2>1, <3>1 DEF TypeInv, TypeOK, sequencerVars, logVars
  <2>5. Keeps(m)'
    <3>1. /\ current_sequence_'[m] = s /\ current_sequence_batch_index_'[m] = 0
          /\ current_sequence_id_'[m] = n /\ global_batches_order_'[m] = by
      BY <1>2, <2>1 DEF TypeInv, TypeOK, n, by
    <3>2. \A w \in DOMAIN global_batches_order_'[m] :
             w < orders_read'[m] /\ global_batches_order_'[m][w] = chosen'[w + 1]
      <4>1. \A w \in DOMAIN by : w < v + 1
        BY <1>3, <1>4
      <4> QED
        BY <1>4, <1>7, <3>1, <4>1
    <3>3. orders_read'[m] <= Len(ordered'[m[1]])
      BY <1>5, <1>7
    <3>4. current_sequence_id_'[m] <= Len(chosen')
      BY <1>3, <1>7, <1>8, <3>1
    <3>5. Delivers(chosen', current_sequence_id_'[m], current_sequence_'[m],
                   current_sequence_batch_index_'[m], delivered'[m])
      BY <1>7, <2>3, <3>1
    <3> QED
      BY <3>2, <3>3, <3>4, <3>5 DEF Keeps
  <2>6. \A x \in Followed \ {m} :
          /\ current_sequence_'[x] = current_sequence_[x]
          /\ current_sequence_id_'[x] = current_sequence_id_[x]
          /\ current_sequence_batch_index_'[x] = current_sequence_batch_index_[x]
          /\ global_batches_order_'[x] = global_batches_order_[x]
    BY <1>2, <2>1 DEF TypeInv, TypeOK
  <2> QED
    BY <1>1, <1>6, <2>4, <2>5, <2>6, OthersKeep
<1>9. CASE ~ (current_sequence_[m] = <<>> /\ v = n)
  <2> DEFINE b2 == [w \in DOMAIN by \cup {v} |-> IF w = v THEN s ELSE by[w]]
  <2>1. /\ global_batches_order_' = [global_batches_order_ EXCEPT ![m] = b2]
        /\ UNCHANGED <<current_sequence_, current_sequence_id_, current_sequence_batch_index_>>
    BY <1>9 DEF ReceiveOrder, HasSequence
  <2> HIDE DEF n, d, s, v
  <2>2. /\ DOMAIN b2 \subseteq Nat /\ Range(b2) \subseteq Seq(Batch)
        /\ \A w \in DOMAIN b2 : w < v + 1 /\ b2[w] = chosen[w + 1]
    <3>1. Range(by) \subseteq Seq(Batch)
      BY <1>2 DEF TypeInv, TypeOK
    <3> HIDE DEF by
    <3>2. \A w \in DOMAIN by : by[w] \in Seq(Batch)
      BY <3>1 DEF Range
    <3>3. DOMAIN b2 = DOMAIN by \cup {v}
             /\ \A w \in DOMAIN b2 : b2[w] = IF w = v THEN s ELSE by[w]
      OBVIOUS
    <3> HIDE DEF b2
    <3>4. \A w \in DOMAIN b2 : w < v + 1 /\ b2[w] = chosen[w + 1]
      BY <1>3, <1>4, <3>3
    <3>5. \A w \in DOMAIN b2 : b2[w] \in Seq(Batch)
      BY <1>3, <3>2, <3>3
    <3> QED
      BY <1>3, <3>3, <3>4, <3>5 DEF Range
  <2> HIDE DEF b2, by
  <2>3. TypeInv'
    <3>1. ASSUME NEW x \in Followed
          PROVE  /\ DOMAIN global_batches_order_'[x] \subseteq Nat
                 /\ Range(global_batches_order_'[x]) \subseteq Seq(Batch)
      <4>1. CASE x = m
        BY <1>2, <2>1, <2>2, <4>1 DEF TypeInv
      <4>2. CASE x # m
        BY <1>2, <2>1, <4>2 DEF TypeInv, TypeOK
      <4> QED
        BY <4>1, <4>2
    <3>2. DOMAIN global_batches_order_' = Followed
      BY <1>2, <2>1 DEF TypeInv
    <3> QED
      BY <1>1, <1>2, <1>7, <2>1, <3>1, <3>2 DEF TypeInv, TypeOK, sequencerVars, logVars
  <2>4. Keeps(m)'
    <3>1. global_batches_order_'[m] = b2
      BY <1>2, <2>1 DEF TypeInv
    <3>2. orders_read'[m] <= Len(ordered'[m[1]])
      BY <1>5, <1>7
    <3>3. \A w \in DOMAIN global_batches_order_'[m] :
             w < orders_read'[m] /\ global_batches_order_'[m][w] = chosen'[w + 1]
      BY <1>7, <2>2, <3>1
    <3> QED
      BY <1>7, <2>1, <3>2, <3>3, SchedulerFacts DEF Keeps, d
  <2>5. \A x \in Followed \ {m} :
          /\ current_sequence_'[x] = current_sequence_[x]
          /\ current_sequence_id_'[x] = current_sequence_id_[x]
          /\ current_sequence_batch_index_'[x] = current_sequence_batch_index_[x]
          /\ global_batches_order_'[x] = global_batches_order_[x]
    BY <1>2, <2>1 DEF TypeInv, TypeOK
  <2> QED
    BY <1>1, <1>6, <2>3, <2>4, <2>5, OthersKeep
<1> QED
  BY <1>8, <1>9

\* A batch is returned, by either of the steps that return one.
LEMMA ReturnBatchPreserves ==
    ASSUME IInv, NEW m \in Followed, HasSequence(m), ReturnBatch(m),
           batches_data_' \in [Followed -> SUBSET Batch],
           subbatches' \subseteq Batch \X Followed,
           UNCHANGED <<sequencerVars, logVars, orders_read, global_batches_order_>>
    PROVE  IInv'
<1> DEFINE n == current_sequence_id_[m]
           s == current_sequence_[m]
           k == current_sequence_batch_index_[m]
           d == delivered[m]
           e == Append(d, s[k + 1])
<1>1. /\ s # <<>>
      /\ delivered' = [delivered EXCEPT ![m] = e]
      /\ current_sequence_batch_index_' = [current_sequence_batch_index_ EXCEPT ![m] = k + 1]
      /\ IF k + 1 >= Len(s)
         THEN /\ current_sequence_' = [current_sequence_ EXCEPT ![m] = <<>>]
              /\ current_sequence_id_' = [current_sequence_id_ EXCEPT ![m] = n + 1]
         ELSE UNCHANGED <<current_sequence_, current_sequence_id_>>
  BY DEF HasSequence, ReturnBatch, CurrentBatch
<1>2. TypeInv
  BY DEF IInv
<1>3. /\ chosen \in Seq(Seq(Batch)) /\ n \in Nat \ {0} /\ k \in Nat /\ s \in Seq(Batch)
            /\ d \in Seq(Batch)
      /\ Delivers(chosen, n, s, k, d) /\ (n = 1 \/ n <= Len(chosen))
  BY SchedulerFacts
<1>4. <<>> \in Seq(Batch) /\ k + 1 \in Nat /\ n + 1 \in Nat \ {0}
  BY <1>3, EmptySeq
<1> HIDE DEF n, s, k, d
<1>5. e \in Seq(Batch)
  <2>1. k < Len(s)
    BY <1>1, <1>3 DEF Delivers
  <2>2. s[k + 1] \in Batch
    BY <1>3, <2>1
  <2> QED
    BY <1>3, <2>2, AppendProperties
<1>6. /\ k + 1 < Len(s) => Delivers(chosen, n, s, k + 1, e)
      /\ k + 1 >= Len(s) => n + 1 <= Len(chosen) /\ \A j : Delivers(chosen, n + 1, <<>>, j, e)
  BY <1>1, <1>3, DeliversNext
<1> HIDE DEF e
<1>7. TypeInv'
  <2>0. /\ current_sequence_ \in [Followed -> Seq(Batch)]
        /\ current_sequence_id_ \in [Followed -> Nat \ {0}]
        /\ current_sequence_batch_index_ \in [Followed -> Nat]
        /\ delivered \in [Followed -> Seq(Batch)]
    BY <1>2, SchedulerTypes
  <2>1. current_sequence_' \in [Followed -> Seq(Batch)]
           /\ current_sequence_id_' \in [Followed -> Nat \ {0}]
    <3>1. CASE k + 1 >= Len(s)
      <4>1. /\ current_sequence_' = [current_sequence_ EXCEPT ![m] = <<>>]
            /\ current_sequence_id_' = [current_sequence_id_ EXCEPT ![m] = n + 1]
        BY <1>1, <3>1
      <4>2. [current_sequence_ EXCEPT ![m] = <<>>] \in [Followed -> Seq(Batch)]
        BY <2>0, <1>4, ExceptType
      <4>3. [current_sequence_id_ EXCEPT ![m] = n + 1] \in [Followed -> Nat \ {0}]
        BY <2>0, <1>4, ExceptType
      <4> QED
        BY <4>1, <4>2, <4>3
    <3>2. CASE ~ (k + 1 >= Len(s))
      BY <1>1, <3>2, <2>0
    <3> QED
      BY <3>1, <3>2
  <2>2. delivered' \in [Followed -> Seq(Batch)]
           /\ current_sequence_batch_index_' \in [Followed -> Nat]
    <3>1. [delivered EXCEPT ![m] = e] \in [Followed -> Seq(Batch)]
      BY <2>0, <1>5, ExceptType
    <3>2. [current_sequence_batch_index_ EXCEPT ![m] = k + 1] \in [Followed -> Nat]
      BY <2>0, <1>4, ExceptType
    <3> QED
      BY <1>1, <3>1, <3>2
  <2> QED
    BY <1>2, <2>1, <2>2 DEF TypeInv, TypeOK, sequencerVars, logVars
<1>8. Keeps(m)'
  <2>1. /\ delivered'[m] = e /\ current_sequence_batch_index_'[m] = k + 1
        /\ chosen' = chosen /\ ordered' = ordered
        /\ orders_read' = orders_read /\ global_batches_order_' = global_batches_order_
    BY <1>1, <1>2 DEF TypeInv, TypeOK, logVars
  <2>2. \A v \in DOMAIN global_batches_order_'[m] :
           v < orders_read'[m] /\ global_batches_order_'[m][v] = chosen'[v + 1]
    BY <2>1, SchedulerFacts
  <2>3. orders_read'[m] <= Len(ordered'[m[1]])
    BY <2>1, SchedulerFacts
  <2>4. CASE k + 1 >= Len(s)
    <3>1. current_sequence_'[m] = <<>> /\ current_sequence_id_'[m] = n + 1
      BY <1>1, <1>2, <2>4 DEF TypeInv, TypeOK
    <3> QED
      BY <1>6, <2>1, <2>2, <2>3, <2>4, <3>1 DEF Keeps
  <2>5. CASE ~ (k + 1 >= Len(s))
    <3>1. current_sequence_'[m] = s /\ current_sequence_id_'[m] = n
      BY <1>1, <2>5 DEF s, n
    <3>2. k + 1 < Len(s)
      BY <1>3, <2>5
    <3> QED
      BY <1>3, <1>6, <2>1, <2>2, <2>3, <3>1, <3>2 DEF Keeps
  <2> QED
    BY <2>4, <2>5
<1> QED
  <2>1. \A x \in Followed \ {m} :
          /\ orders_read'[x] = orders_read[x]
          /\ current_sequence_'[x] = current_sequence_[x]
          /\ current_sequence_id_'[x] = current_sequence_id_[x]
          /\ current_sequence_batch_index_'[x] = current_sequence_batch_index_[x]
          /\ global_batches_order_'[x] = global_batches_order_[x]
          /\ delivered'[x] = delivered[x]
    BY <1>1, <1>2 DEF TypeInv, TypeOK
  <2> QED
    BY <1>7, <1>8, <2>1, OthersKeep

\* A batch that arrives is returned if it is the current one, else put by.
LEMMA ReceiveSubbatchPreserves ==
    ASSUME IInv, NEW b \in Batch, NEW m \in Followed, ReceiveSubbatch(b, m)
    PROVE  IInv'
<1>1. TypeInv
  BY DEF IInv
<1>2. /\ subbatches' \subseteq Batch \X Followed
      /\ UNCHANGED <<sequencerVars, logVars, orders_read, global_batches_order_>>
  BY <1>1 DEF ReceiveSubbatch, TypeInv, TypeOK
<1>3. CASE HasSequence(m) /\ b = CurrentBatch(m)
  <2>1. ReturnBatch(m) /\ batches_data_' = batches_data_
    BY <1>3 DEF ReceiveSubbatch
  <2>2. batches_data_' \in [Followed -> SUBSET Batch]
    BY <1>1, <2>1 DEF TypeInv, TypeOK
  <2> QED
    BY <1>2, <1>3, <2>1, <2>2, ReturnBatchPreserves
<1>4. CASE ~ (HasSequence(m) /\ b = CurrentBatch(m))
  <2>1. /\ batches_data_' = [batches_data_ EXCEPT ![m] = batches_data_[m] \cup {b}]
        /\ UNCHANGED <<current_sequence_, current_sequence_id_,
                       current_sequence_batch_index_, delivered>>
    BY <1>4 DEF ReceiveSubbatch
  <2>2. batches_data_' \in [Followed -> SUBSET Batch]
    BY <1>1, <2>1 DEF TypeInv, TypeOK
  <2>3. TypeInv'
    BY <1>1, <1>2, <2>1, <2>2 DEF TypeInv, TypeOK, sequencerVars, logVars
  <2>4. Keeps(m)'
    BY <1>2, <2>1 DEF IInv, SchedulerInv, Keeps, logVars
  <2> QED
    BY <1>2, <2>1, <2>3, <2>4, OthersKeep
<1> QED
  BY <1>3, <1>4

\* The batch put by that is returned is the current one.
LEMMA ReturnStoredBatchPreserves ==
    ASSUME IInv, NEW m \in Followed, ReturnStoredBatch(m)
    PROVE  IInv'
<1>1. TypeInv
  BY DEF IInv
<1>2. /\ HasSequence(m) /\ ReturnBatch(m) /\ subbatches' = subbatches
      /\ batches_data_' = [batches_data_ EXCEPT ![m] = batches_data_[m] \ {CurrentBatch(m)}]
      /\ UNCHANGED <<sequencerVars, logVars, orders_read, global_batches_order_>>
  BY DEF ReturnStoredBatch
<1>3. batches_data_' \in [Followed -> SUBSET Batch] /\ subbatches' \subseteq Batch \X Followed
  BY <1>1, <1>2 DEF TypeInv, TypeOK
<1> QED
  BY <1>2, <1>3, ReturnBatchPreserves

\* Every step, and stuttering.
LEMMA NextIsInductive == IInv /\ [Next]_vars => IInv'
<1> SUFFICES ASSUME IInv, [Next]_vars PROVE IInv'
  OBVIOUS
<1>1. CASE SequencerNext
  BY <1>1, WriteBatchPreserves, ForwardBatchPreserves, CountVotePreserves DEF SequencerNext
<1>2. CASE Choose
  BY <1>2, ChoosePreserves
<1>3. ASSUME NEW r \in Passer, PassOn(r) PROVE IInv'
  BY <1>3, PassOnPreserves
<1>4. ASSUME NEW m \in Followed, SchedulerNext(m) PROVE IInv'
  BY <1>4, TakeStoredOrderPreserves, ReceiveOrderPreserves, ReceiveSubbatchPreserves,
     ReturnStoredBatchPreserves DEF SchedulerNext
<1>5. CASE UNCHANGED vars
  <2>1. TypeInv'
    BY <1>5 DEF IInv, TypeInv, TypeOK, vars, sequencerVars, logVars, schedulerVars
  <2>2. UNCHANGED <<sequencerVars, submitted, chosen, ordered, schedulerVars>>
    BY <1>5 DEF vars, logVars
  <2> QED
    BY <2>1, <2>2, VotesSame, LogSame, SchedulerSame DEF IInv
<1> QED
  BY <1>1, <1>2, <1>3, <1>4, <1>5 DEF Next

\* The invariant holds throughout.
LEMMA Invariant == Spec => []IInv
<1>1. Init => IInv
  BY InitIsInductive
<1>2. IInv /\ [Next]_vars => IInv'
  BY NextIsInductive
<1> QED
  BY <1>1, <1>2, PTL DEF Spec

-----------------------------------------------------------------------------

\* Every variable has its type: among others, no entry of batch_votes_ outlives its last
\* vote (RunReader).
THEOREM TypeCorrect == Spec => []TypeOK
<1>1. IInv => TypeOK
  BY DEF IInv, TypeInv
<1> QED
  BY <1>1, Invariant, PTL

\* Machine 0 submits a batch once, in whatever order the votes of the replicas arrive
\* (RunReader), however many replicas there are.
THEOREM SubmitsOnce == Spec => []SubmittedOnce
<1>1. IInv => SubmittedOnce
  BY DEF IInv
<1> QED
  BY <1>1, Invariant, PTL

\* A batch that may be ordered is in the hands of a majority of the replicas (RunReader).
THEOREM ReplicatedBeforeOrdered == Spec => []OrderedBatchIsReplicated
<1>1. IInv => OrderedBatchIsReplicated
  <2> SUFFICES ASSUME IInv, NEW b \in ToSet(submitted)
               PROVE  Cardinality({r \in Replica : <<b, r>> \notin txn_batches}) >= majority
    BY DEF OrderedBatchIsReplicated
  <2> DEFINE F == {r \in Replica : <<b, r>> \notin txn_batches}
  <2>1. submitted \in Seq(Batch)
    BY DEF IInv, TypeInv, TypeOK
  <2>2. b \in Batch
    BY <2>1 DEF ToSet
  <2>3. Cardinality(Counted(b)) >= majority
    BY <2>2 DEF IInv, VoteInv
  <2>4. Counted(b) \in SUBSET F /\ F \in SUBSET Replica
    BY DEF Counted
  <2> HIDE DEF F
  <2>5. IsFiniteSet(F) /\ Cardinality(Counted(b)) <= Cardinality(F)
    BY <2>4, MajorityFacts, FS_Subset
  <2>6. Cardinality(F) \in Nat /\ Cardinality(Counted(b)) \in Nat
    BY <2>5, CountedFacts, FS_CardinalityType
  <2> QED
    BY <2>3, <2>5, <2>6, MajorityFacts DEF F
<1> QED
  BY <1>1, Invariant, PTL

\* Every scheduler returns the batches of the log from version 1 on in the log's order
\* (GetBatch), however many of them are followed and whatever arrives first.
THEOREM DeliversInLogOrder == Spec => []DeliveredInLogOrder
<1>1. IInv => DeliveredInLogOrder
  <2> SUFFICES ASSUME IInv PROVE DeliveredInLogOrder
    OBVIOUS
  <2>1. \A m \in Followed :
          Delivers(chosen, current_sequence_id_[m], current_sequence_[m],
                   current_sequence_batch_index_[m], delivered[m])
    BY DEF IInv, SchedulerInv, Keeps
  <2> QED
    BY <2>1, Zenon DEF DeliveredInLogOrder, Delivers, Passed, HasSequence
<1> QED
  BY <1>1, Invariant, PTL

=============================================================================
