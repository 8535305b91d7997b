----------------------------- MODULE GeoLogProofs -----------------------------
(***************************************************************************)
(* Proofs about GeoLog, for any replicas, batches and availability types:  *)
(* the types, that the exchange of sequences between two leaders always    *)
(* has one token, that a leader with strong availability logs only what    *)
(* its closed_replica has, that the batches of a replica are ordered       *)
(* everywhere as there, and that every replica generates its parts of the  *)
(* multi-replica transactions in the order of replica 0.                   *)
(*                                                                         *)
(* The order needs, after the first invariant (IInv), that batches travel  *)
(* only from their replica (HomeInv), that what a replica has got of       *)
(* another one, and what is on its way to it, is what was sent (FlowInv),  *)
(* and that what it has generated is for what it has worked off            *)
(* (MultiInv).                                                             *)
(***************************************************************************)
EXTENDS GeoLog, SequenceTheorems, FiniteSetTheorems, NaturalsInduction, WellFoundedInduction,
        TLAPS

Entry    == [version : Nat, data : Data]
Sequence == [data : Data, from : Replica, index : Nat]

\* What the sequencers send is one batch.
BatchInv ==
    \A m \in messages : m.type \in {"TXN_BATCH", "BATCH_SUBMIT", "MR_TXNS_BATCH"} =>
        \E b \in Batch : m.data = <<<<b>>>>

\* The messages of r's conversation with s.
Exchange(r, s) == {m \in messages :
                      \/ m.type = "NEW_SEQUENCE" /\ m.from = r /\ m.to = s
                      \/ m.type = "NEW_SEQUENCE_ACK" /\ m.from = s /\ m.to = r}

\* Nothing before the first local sequence, then one of them, or s is put by.
Token(r, s) ==
    /\ readers_for_local_log_[r][s] <= Len(local_log_[r])
    /\ s \in new_sequence_todo[r] => readers_for_local_log_[r][s] = Len(local_log_[r])
    /\ local_log_[r] = <<>> => Exchange(r, s) = {} /\ s \notin new_sequence_todo[r]
    /\ local_log_[r] # <<>> => \/ s \in new_sequence_todo[r] /\ Exchange(r, s) = {}
                               \/ s \notin new_sequence_todo[r] /\ \E m : Exchange(r, s) = {m}

TokenInv == \A r \in Replica : \A s \in Others(r) : Token(r, s)

\* A sequence is being handled only then.
RemoteInv == \A r \in Replica : pc[r] # "handling" => remote[r].data = <<>>

\* s has got the sequence d, handled or not.
Has(s, d) ==
    /\ d # <<>>
    /\ \/ \E i \in DOMAIN scheduler_[s] : scheduler_[s][i].data = d
       \/ remote[s].data = d
       \/ \E i \in DOMAIN sequences_other_replicas_[s] : sequences_other_replicas_[s][i].data = d

\* The messages between r and closed_replica, and r's flag, are about r's proposal, and
\* there is one of them at a time.
Asked(r) ==
    \A m \in messages : m.type = "SYNCHRONIZE" /\ m.from = r =>
        /\ m = Msg("SYNCHRONIZE", r, closed_replica(r), 0, <<proposal[r]>>)
        /\ proposal[r] # <<>>
        /\ ~ received_synchronize_ack[r]

Answered(r) ==
    \A m \in messages : m.type = "SYNCHRONIZE_ACK" /\ m.to = r =>
        /\ m = Msg("SYNCHRONIZE_ACK", closed_replica(r), r, 0, <<>>)
        /\ ~ received_synchronize_ack[r]
        /\ Has(closed_replica(r), proposal[r])
        /\ \A n \in messages : ~ (n.type = "SYNCHRONIZE" /\ n.from = r)

Waiting(r) ==
    /\ received_synchronize_ack[r] => Has(closed_replica(r), proposal[r])
    /\ pc[r] = "ready" => proposal[r] = <<>>

Logged(r) == \A i \in DOMAIN local_log_[r] : Has(closed_replica(r), local_log_[r][i].data)

SyncInv == Strong => \A r \in Replica : Asked(r) /\ Answered(r) /\ Waiting(r) /\ Logged(r)

IInv == TypeOK /\ BatchInv /\ TokenInv /\ RemoteInv /\ SyncInv

-----------------------------------------------------------------------------

\* What \o gives: its type, and that it has the elements of both.
LEMMA ConcatFacts ==
    ASSUME NEW S, NEW s \in Seq(S), NEW t \in Seq(S)
    PROVE  /\ s \o t \in Seq(S)
           /\ \A i \in DOMAIN s : i \in DOMAIN (s \o t) /\ (s \o t)[i] = s[i]
           /\ \A i \in DOMAIN t : \E j \in DOMAIN (s \o t) : (s \o t)[j] = t[i]
<1>1. /\ s \o t \in Seq(S)
      /\ Len(s \o t) = Len(s) + Len(t)
      /\ \A i \in 1..(Len(s) + Len(t)) : (s \o t)[i] = IF i <= Len(s) THEN s[i] ELSE t[i - Len(s)]
  BY ConcatProperties
<1> DEFINE u == s \o t
<1>2. DOMAIN s = 1..Len(s) /\ DOMAIN t = 1..Len(t) /\ Len(s) \in Nat /\ Len(t) \in Nat
  OBVIOUS
<1>3. DOMAIN u = 1..(Len(s) + Len(t))
  BY <1>1
<1>4. \A i \in 1..(Len(s) + Len(t)) : u[i] = IF i <= Len(s) THEN s[i] ELSE t[i - Len(s)]
  BY <1>1
<1> HIDE DEF u
<1>5. ASSUME NEW i \in DOMAIN t PROVE \E j \in DOMAIN u : u[j] = t[i]
  <2>1. i + Len(s) \in 1..(Len(s) + Len(t)) /\ ~ (i + Len(s) <= Len(s))
           /\ (i + Len(s)) - Len(s) = i
    BY <1>2
  <2> QED
    BY <1>3, <1>4, <2>1
<1>6. \A i \in DOMAIN s : i \in DOMAIN u /\ u[i] = s[i]
  BY <1>2, <1>3, <1>4
<1> QED
  BY <1>1, <1>5, <1>6 DEF u

\* One more element.
LEMMA AppendFacts ==
    ASSUME NEW S, NEW s \in Seq(S), NEW e \in S
    PROVE  /\ Append(s, e) \in Seq(S)
           /\ Append(s, e) # <<>>
           /\ Len(Append(s, e)) = Len(s) + 1
           /\ Len(s) \in Nat
           /\ Append(s, e)[Len(s) + 1] = e
           /\ \A i \in DOMAIN s : i \in DOMAIN Append(s, e) /\ Append(s, e)[i] = s[i]
           /\ \E i \in DOMAIN Append(s, e) : Append(s, e)[i] = e
           /\ \A i \in DOMAIN Append(s, e) : i \in DOMAIN s \/ Append(s, e)[i] = e
<1> DEFINE u == Append(s, e)
<1>1. /\ u \in Seq(S) /\ u # <<>>
      /\ Len(u) = Len(s) + 1
      /\ \A i \in 1..Len(s) : u[i] = s[i]
      /\ u[Len(s) + 1] = e
  BY AppendProperties
<1>2. DOMAIN s = 1..Len(s) /\ Len(s) \in Nat
  OBVIOUS
<1> HIDE DEF u
<1>3. DOMAIN u = 1..(Len(s) + 1)
  BY <1>1
<1>4. \A i \in DOMAIN u : i \in DOMAIN s \/ i = Len(s) + 1
  BY <1>2, <1>3
<1>5. Len(s) + 1 \in DOMAIN u /\ \A i \in DOMAIN s : i \in DOMAIN u
  BY <1>2, <1>3
<1> QED
  BY <1>1, <1>2, <1>4, <1>5 DEF u

\* The first element and the others.
LEMMA TailFacts ==
    ASSUME NEW S, NEW s \in Seq(S), s # <<>>
    PROVE  /\ Head(s) \in S
           /\ Tail(s) \in Seq(S)
           /\ \A i \in DOMAIN s : s[i] = Head(s) \/ \E j \in DOMAIN Tail(s) : Tail(s)[j] = s[i]
<1>1. /\ Head(s) \in S /\ Head(s) = s[1] /\ Tail(s) \in Seq(S) /\ Len(Tail(s)) = Len(s) - 1
      /\ \A i \in 1..Len(Tail(s)) : Tail(s)[i] = s[i + 1]
  BY HeadTailProperties, EmptySeq
<1>2. DOMAIN s = 1..Len(s) /\ Len(s) \in Nat
  OBVIOUS
<1>3. DOMAIN Tail(s) = 1..(Len(s) - 1)
  BY <1>1
<1>4. ASSUME NEW i \in DOMAIN s, i # 1
      PROVE  \E j \in DOMAIN Tail(s) : Tail(s)[j] = s[i]
  <2>1. i - 1 \in 1..(Len(s) - 1) /\ (i - 1) + 1 = i
    BY <1>2, <1>4
  <2> QED
    BY <1>1, <1>3, <2>1
<1> QED
  BY <1>1, <1>4

\* The constants, and the types of batches and sequences.
LEMMA Basics ==
    /\ \A r \in Replica : r \in Nat
    /\ Period \in Nat \ {0}
    /\ \A b \in Batch : Home[b] \in Replica /\ Involved[b] \in SUBSET Replica
    /\ Strong /\ type_ \in Type => \A r \in Replica : closed_replica(r) \in Replica
    /\ Data = Seq(BatchId)
    /\ <<>> \in Data
    /\ \A b \in Batch : b \in BatchId /\ <<b>> \in Data /\ <<<<b>>>> \in Seq(Data)
    /\ \A d, e \in Data : d \o e \in Data
    /\ \A d \in Data : <<d>> \in Seq(Data)
    /\ <<>> \in Seq(Data)
<1>1. Data = Seq(BatchId)
  BY DEF Data
<1>2. \A b \in Batch : b \in BatchId
  BY DEF BatchId
<1>3. \A b \in Batch : <<b>> \in Data
  BY <1>1, <1>2
<1>4. \A d, e \in Data : d \o e \in Data
  BY <1>1, ConcatFacts
<1>5. \A d \in Data : <<d>> \in Seq(Data)
  OBVIOUS
<1>6. <<>> \in Data /\ <<>> \in Seq(Data)
  BY <1>1
<1>7. \A b \in Batch : Home[b] \in Replica /\ Involved[b] \in SUBSET Replica
  BY GeoLogAssumption
<1>8. Strong /\ type_ \in Type => \A r \in Replica : closed_replica(r) \in Replica
  BY GeoLogAssumption DEF Strong
<1>9. Period \in Nat \ {0} /\ \A r \in Replica : r \in Nat
  BY GeoLogAssumption
<1> QED
  BY <1>1, <1>2, <1>3, <1>4, <1>5, <1>6, <1>7, <1>8, <1>9

\* The fields of a message,
LEMMA MsgFacts ==
    ASSUME NEW type, NEW from, NEW to, NEW version, NEW data
    PROVE  /\ Msg(type, from, to, version, data).type = type
           /\ Msg(type, from, to, version, data).from = from
           /\ Msg(type, from, to, version, data).to = to
           /\ Msg(type, from, to, version, data).version = version
           /\ Msg(type, from, to, version, data).data = data
  BY DEF Msg

\* and its type.
LEMMA MsgType ==
    ASSUME NEW type \in {"TXN_BATCH", "BATCH_SUBMIT", "MR_TXNS_BATCH", "NEW_SEQUENCE",
                         "NEW_SEQUENCE_ACK", "SYNCHRONIZE", "SYNCHRONIZE_ACK"},
           NEW from \in Replica, NEW to \in Replica, NEW version \in Nat, NEW data \in Seq(Data)
    PROVE  Msg(type, from, to, version, data) \in Message
  BY DEF Msg, Message

\* Nothing is written, sent or ordered.
LEMMA InitIsInductive == Init => IInv
<1> SUFFICES ASSUME Init PROVE IInv
  OBVIOUS
<1> USE DEF Init
<1>1. Nothing \in [data : Data, from : Replica \cup {0}, index : Nat] /\ Nothing.data = <<>>
  BY Basics DEF Nothing
<1>2. 0 \in 0..(Period - 1)
  BY Basics
<1>3. \A S : <<>> \in Seq(S)
  OBVIOUS
<1>4. TypeOK
  BY <1>1, <1>2, <1>3, Basics DEF TypeOK
<1>5. BatchInv
  BY DEF BatchInv
<1>6. TokenInv
  BY DEF TokenInv, Token, Exchange, Others
<1>7. RemoteInv
  BY <1>1 DEF RemoteInv
<1>8. SyncInv
  BY DEF SyncInv, Asked, Answered, Waiting, Logged
<1> QED
  BY <1>4, <1>5, <1>6, <1>7, <1>8 DEF IInv

\* A step that does not touch what a part of the invariant is about keeps it: the batches,
LEMMA BatchSame ==
    ASSUME BatchInv,
           \A m \in messages' :
              m \in messages \/ m.type \notin {"TXN_BATCH", "BATCH_SUBMIT", "MR_TXNS_BATCH"}
    PROVE  BatchInv'
  BY DEF BatchInv

\* the exchange of sequences,
LEMMA TokenSame ==
    ASSUME TokenInv, UNCHANGED <<type_, local_log_, sent>>,
           \A m : m.type \in {"NEW_SEQUENCE", "NEW_SEQUENCE_ACK"} =>
              (m \in messages' <=> m \in messages)
    PROVE  TokenInv'
<1>1. \A r : Others(r)' = Others(r)
  BY DEF Others, Strong
<1>2. \A r, s : Exchange(r, s)' = Exchange(r, s)
  BY DEF Exchange
<1>3. \A r, s : Token(r, s)' <=> Token(r, s)
  BY <1>2 DEF Token, sent
<1> QED
  BY <1>1, <1>3 DEF TokenInv

\* the sequence being handled,
LEMMA RemoteSame ==
    ASSUME RemoteInv, UNCHANGED <<remote, pc>>
    PROVE  RemoteInv'
  BY DEF RemoteInv

\* what a replica has got,
LEMMA HasSame ==
    ASSUME UNCHANGED <<scheduler_, remote, sequences_other_replicas_>>
    PROVE  \A s, d : Has(s, d) => Has(s, d)'
  BY DEF Has

\* the requests to closed_replica.
LEMMA SyncSame ==
    ASSUME SyncInv, UNCHANGED <<type_, proposal, received_synchronize_ack, local_log_>>,
           \A r \in Replica : pc'[r] = "ready" => pc[r] = "ready" \/ proposal[r] = <<>>,
           \A m : m.type \in {"SYNCHRONIZE", "SYNCHRONIZE_ACK"} =>
              (m \in messages' <=> m \in messages),
           \A s \in Replica : \A d : Has(s, d) => Has(s, d)',
           TypeOK
    PROVE  SyncInv'
<1> SUFFICES ASSUME Strong, NEW r \in Replica
             PROVE  (Asked(r) /\ Answered(r) /\ Waiting(r) /\ Logged(r))'
  BY DEF SyncInv, Strong
<1> DEFINE s == closed_replica(r)
<1>1. s \in Replica
  BY Basics DEF TypeOK
<1>2. Asked(r) /\ Answered(r) /\ Waiting(r) /\ Logged(r)
  BY DEF SyncInv
<1>3. \A d : Has(s, d) => Has(s, d)'
  BY <1>1
<1> HIDE DEF s
<1>4. Asked(r)'
  BY <1>2 DEF Asked
<1>5. Answered(r)'
  BY <1>2, <1>3 DEF Answered, s
<1>6. Waiting(r)'
  BY <1>2, <1>3 DEF Waiting, s
<1>7. Logged(r)'
  BY <1>2, <1>3 DEF Logged, s
<1> QED
  BY <1>4, <1>5, <1>6, <1>7

-----------------------------------------------------------------------------
(* The sequencers. *)

\* One batch is sent to the central machines.
LEMMA WriteBatchPreserves ==
    ASSUME IInv, NEW b \in Batch, WriteBatch(b)
    PROVE  IInv'
<1> USE DEF IInv
<1>1. UNCHANGED <<type_, mr_txn_batches_, sequence_, turn, sequences_other_replicas_, logs, sent>>
  BY DEF WriteBatch
<1>2. written' = written \cup {b}
  BY DEF WriteBatch
<1>3. \A m \in messages' : \/ m \in messages
                           \/ m.type = "TXN_BATCH" /\ m.data = <<<<b>>>> /\ m \in Message
  <2>1. messages' = messages \cup
          {Msg("TXN_BATCH", Home[b], r, 0, <<<<b>>>>) :
              r \in {x \in Replica : x = Home[b] \/ Home[b] = 0}}
    BY DEF WriteBatch
  <2>2. ASSUME NEW r \in Replica
        PROVE  /\ Msg("TXN_BATCH", Home[b], r, 0, <<<<b>>>>) \in Message
               /\ Msg("TXN_BATCH", Home[b], r, 0, <<<<b>>>>).type = "TXN_BATCH"
               /\ Msg("TXN_BATCH", Home[b], r, 0, <<<<b>>>>).data = <<<<b>>>>
    <3> DEFINE data == <<<<b>>>>
    <3>1. Home[b] \in Replica /\ data \in Seq(Data) /\ 0 \in Nat
      BY Basics
    <3> HIDE DEF data
    <3>2. LET n == Msg("TXN_BATCH", Home[b], r, 0, data)
          IN  n \in Message /\ n.type = "TXN_BATCH" /\ n.data = data
      BY <3>1, MsgFacts, MsgType
    <3> QED
      BY <3>2 DEF data
  <2> QED
    BY <2>1, <2>2
<1>4. messages \subseteq messages'
  BY DEF WriteBatch
<1>5. TypeOK'
  BY <1>1, <1>2, <1>3 DEF TypeOK, turn, logs, sent
<1>6. BatchInv'
  BY <1>3 DEF BatchInv
<1>7. TokenInv'
  BY <1>1, <1>3, <1>4, TokenSame DEF logs
<1>8. RemoteInv'
  BY <1>1, RemoteSame DEF turn
<1>9. SyncInv'
  BY <1>1, <1>3, <1>4, HasSame, SyncSame DEF turn, logs
<1> QED
  BY <1>5, <1>6, <1>7, <1>8, <1>9

\* It is passed on as it is.
LEMMA ForwardBatchPreserves ==
    ASSUME IInv, NEW m \in messages, ForwardBatch(m)
    PROVE  IInv'
<1> USE DEF IInv
<1> DEFINE type == IF m.from = m.to THEN "BATCH_SUBMIT" ELSE "MR_TXNS_BATCH"
           n    == Msg(type, m.to, m.to, 0, m.data)
<1>1. /\ UNCHANGED <<inputs, sequence_, turn, sequences_other_replicas_, logs, sent>>
      /\ m.type = "TXN_BATCH"
      /\ messages' = (messages \ {m}) \cup {n}
  BY DEF ForwardBatch
<1>2. m \in Message
  BY DEF TypeOK
<1>3. n \in Message /\ n.type \in {"BATCH_SUBMIT", "MR_TXNS_BATCH"} /\ n.data = m.data
  BY <1>2, MsgFacts, MsgType DEF Message
<1> HIDE DEF n
<1>4. \E b \in Batch : n.data = <<<<b>>>>
  BY <1>1, <1>3 DEF BatchInv
<1>5. TypeOK'
  BY <1>1, <1>3 DEF TypeOK, inputs, turn, logs, sent
<1>6. BatchInv'
  BY <1>1, <1>4 DEF BatchInv
<1>7. TokenInv'
  BY <1>1, <1>3, TokenSame DEF inputs, logs
<1>8. RemoteInv'
  BY <1>1, RemoteSame DEF turn
<1>9. SyncInv'
  BY <1>1, <1>3, HasSame, SyncSame DEF inputs, turn, logs
<1> QED
  BY <1>5, <1>6, <1>7, <1>8, <1>9

\* It becomes the last of the sequence.
LEMMA AppendBatchPreserves ==
    ASSUME IInv, NEW m \in messages, AppendBatch(m)
    PROVE  IInv'
<1> USE DEF IInv
<1>1. /\ UNCHANGED <<inputs, turn, sequences_other_replicas_, logs, sent>>
      /\ m.type = "BATCH_SUBMIT"
      /\ messages' = messages \ {m}
      /\ sequence_' = [sequence_ EXCEPT ![m.to] = @ \o m.data[1]]
  BY DEF AppendBatch
<1>2. m.to \in Replica
  BY DEF TypeOK, Message
<1>3. m.data[1] \in Data
  <2>1. PICK b \in Batch : m.data = <<<<b>>>>
    BY <1>1 DEF BatchInv
  <2> QED
    BY <2>1, Basics
<1>4. sequence_' \in [Replica -> Data]
  BY <1>1, <1>2, <1>3, Basics DEF TypeOK
<1>5. TypeOK'
  BY <1>1, <1>4 DEF TypeOK, inputs, turn, logs, sent
<1>6. BatchInv'
  BY <1>1, BatchSame
<1>7. TokenInv'
  BY <1>1, TokenSame DEF inputs, logs
<1>8. RemoteInv'
  BY <1>1, RemoteSame DEF turn
<1>9. SyncInv'
  BY <1>1, HasSame, SyncSame DEF inputs, turn, logs
<1> QED
  BY <1>5, <1>6, <1>7, <1>8, <1>9

-----------------------------------------------------------------------------
(* What a leader does with a sequence. *)

\* The schedulers keep what they were given, and get data.
LEMMA OrderFacts ==
    ASSUME TypeOK, NEW r \in Replica, NEW data \in Data, Order(r, data)
    PROVE  /\ global_next_version' \in [Replica -> Nat]
           /\ scheduler_' \in [Replica -> Seq(Entry)]
           /\ \A s \in Replica : \A i \in DOMAIN scheduler_[s] :
                 i \in DOMAIN scheduler_'[s] /\ scheduler_'[s][i] = scheduler_[s][i]
           /\ \E i \in DOMAIN scheduler_'[r] : scheduler_'[r][i].data = data
<1> DEFINE e == [version |-> global_next_version[r] + 1, data |-> data]
<1>1. global_next_version \in [Replica -> Nat] /\ scheduler_ \in [Replica -> Seq(Entry)]
  BY DEF TypeOK, Entry
<1>2. e \in Entry /\ e.data = data
  BY <1>1 DEF Entry
<1>3. /\ global_next_version' = [global_next_version EXCEPT ![r] = @ + 1]
      /\ scheduler_' = [scheduler_ EXCEPT ![r] = Append(scheduler_[r], e)]
  BY DEF Order
<1> HIDE DEF e
<1> DEFINE u == Append(scheduler_[r], e)
<1>4. /\ u \in Seq(Entry)
      /\ \A i \in DOMAIN scheduler_[r] : i \in DOMAIN u /\ u[i] = scheduler_[r][i]
      /\ \E i \in DOMAIN u : u[i] = e
  BY <1>1, <1>2, AppendFacts
<1>5. scheduler_' = [scheduler_ EXCEPT ![r] = u]
  BY <1>3
<1> HIDE DEF u
<1> QED
  BY <1>1, <1>2, <1>3, <1>4, <1>5

\* Who is sent r's next sequence, and r's log with it.
Targets(r)      == IF local_log_[r] = <<>> THEN Others(r) ELSE new_sequence_todo[r]
Longer(r, d, v) == Append(local_log_[r], [version |-> v, data |-> d])

\* What LogLocal() changes.
LEMMA LogLocalFacts ==
    ASSUME TypeOK, NEW r \in Replica, NEW d \in Data, NEW lv \in Nat, NEW gv \in Nat,
           LogLocal(r, d, lv, gv)
    PROVE  /\ local_log_' \in [Replica -> Seq(Entry)]
           /\ global_log_' \in [Replica -> Seq(Entry)]
           /\ local_log_' = [local_log_ EXCEPT ![r] = Longer(r, d, lv)]
           /\ Longer(r, d, lv) \in Seq(Entry) /\ Longer(r, d, lv) # <<>>
           /\ Len(Longer(r, d, lv)) = Len(local_log_[r]) + 1 /\ Len(local_log_[r]) \in Nat
           /\ \A i \in DOMAIN Longer(r, d, lv) :
                 \/ i \in DOMAIN local_log_[r] /\ Longer(r, d, lv)[i] = local_log_[r][i]
                 \/ Longer(r, d, lv)[i].data = d
           /\ Targets(r) \subseteq Replica
           /\ messages' = messages \cup {NewSequence(r, s, Longer(r, d, lv)) : s \in Targets(r)}
           /\ readers_for_local_log_' = [readers_for_local_log_ EXCEPT
                 ![r] = [s \in Replica |->
                            IF s \in Targets(r) THEN Len(Longer(r, d, lv)) ELSE @[s]]]
           /\ new_sequence_todo' = [new_sequence_todo EXCEPT
                 ![r] = IF local_log_[r] = <<>> THEN @ ELSE {}]
<1> DEFINE e == [version |-> lv, data |-> d]
           g == [version |-> gv, data |-> d]
           log == Longer(r, d, lv)
           targets == Targets(r)
<1>1. local_log_ \in [Replica -> Seq(Entry)] /\ global_log_ \in [Replica -> Seq(Entry)]
  BY DEF TypeOK, Entry
<1>2. e \in Entry /\ g \in Entry /\ e.data = d
  BY DEF Entry
<1>3. log = Append(local_log_[r], e)
  BY DEF Longer
<1>4. /\ local_log_' = [local_log_ EXCEPT ![r] = Append(local_log_[r], e)]
      /\ global_log_' = [global_log_ EXCEPT ![r] = Append(global_log_[r], g)]
      /\ SendNew(r, targets, Append(local_log_[r], e), messages)
      /\ new_sequence_todo' = [new_sequence_todo EXCEPT
            ![r] = IF local_log_[r] = <<>> THEN @ ELSE {}]
  BY DEF LogLocal, Targets
<1> HIDE DEF e, g, log, targets
<1>5. /\ log \in Seq(Entry) /\ log # <<>>
      /\ Len(log) = Len(local_log_[r]) + 1 /\ Len(local_log_[r]) \in Nat
      /\ \A i \in DOMAIN local_log_[r] : log[i] = local_log_[r][i]
      /\ \A i \in DOMAIN log : i \in DOMAIN local_log_[r] \/ log[i] = e
  BY <1>1, <1>2, <1>3, AppendFacts
<1>6. Append(global_log_[r], g) \in Seq(Entry)
  BY <1>1, <1>2, AppendFacts
<1>7. local_log_' = [local_log_ EXCEPT ![r] = log] /\ SendNew(r, targets, log, messages)
  BY <1>3, <1>4
<1>8. local_log_' \in [Replica -> Seq(Entry)] /\ global_log_' \in [Replica -> Seq(Entry)]
  BY <1>1, <1>4, <1>5, <1>6, <1>7
<1>9. targets \subseteq Replica
  BY DEF TypeOK, Others, Targets, targets
<1>10. \A i \in DOMAIN log : \/ i \in DOMAIN local_log_[r] /\ log[i] = local_log_[r][i]
                             \/ log[i].data = d
  BY <1>2, <1>5
<1> QED
  BY <1>4, <1>5, <1>7, <1>8, <1>9, <1>10 DEF SendNew, log, targets

\* Who sends a NEW_SEQUENCE to whom.
LEMMA NewSequenceFacts ==
    ASSUME TypeOK, NEW r \in Replica, NEW s \in Replica, NEW log \in Seq(Entry), log # <<>>
    PROVE  /\ NewSequence(r, s, log) \in Message
           /\ NewSequence(r, s, log).type = "NEW_SEQUENCE"
           /\ NewSequence(r, s, log).from = r
           /\ NewSequence(r, s, log).to = s
<1> DEFINE u == Unsent(r, s, log)
           v == log[Len(log)].version
           d == [i \in DOMAIN u |-> u[i].data]
<1>1. readers_for_local_log_[r][s] \in Nat
  BY DEF TypeOK
<1>2. Len(log) \in Nat /\ Len(log) \in DOMAIN log
  BY EmptySeq
<1>3. v \in Nat
  <2>1. log[Len(log)] \in Entry
    BY <1>2
  <2> QED
    BY <2>1 DEF Entry
<1>4. u \in Seq(Entry)
  <2>1. \A i \in (readers_for_local_log_[r][s] + 1)..Len(log) : i \in 1..Len(log)
    BY <1>1
  <2>2. \A i \in (readers_for_local_log_[r][s] + 1)..Len(log) : log[i] \in Entry
    BY <2>1
  <2> QED
    BY <1>1, <1>2, <2>2, SubSeqProperties DEF Unsent
<1> HIDE DEF u, v
<1>5. d \in Seq(Data)
  <2>1. DOMAIN u = 1..Len(u) /\ Len(u) \in Nat /\ \A i \in DOMAIN u : u[i] \in Entry
    BY <1>4
  <2>2. \A i \in 1..Len(u) : u[i].data \in Data
    BY <2>1 DEF Entry
  <2>3. d = [i \in 1..Len(u) |-> u[i].data]
    BY <2>1
  <2> QED
    BY <2>1, <2>2, <2>3
<1>6. NewSequence(r, s, log) = Msg("NEW_SEQUENCE", r, s, v, d)
  BY DEF NewSequence, u, v
<1> HIDE DEF d
<1> QED
  BY <1>3, <1>5, <1>6, MsgFacts, MsgType

\* r's log becomes longer: those that are up to date are sent what is new.
LEMMA LogLocalKeepsToken ==
    ASSUME TypeOK, TokenInv, NEW r \in Replica, NEW d \in Data, NEW lv \in Nat, NEW gv \in Nat,
           LogLocal(r, d, lv, gv), UNCHANGED type_
    PROVE  /\ TokenInv'
           /\ messages' \subseteq Message
           /\ readers_for_local_log_' \in [Replica -> [Replica -> Nat]]
           /\ new_sequence_todo' \in [Replica -> SUBSET Replica]
           /\ \A m \in messages' : m \in messages \/ m.type = "NEW_SEQUENCE"
           /\ messages \subseteq messages'
<1> DEFINE targets == Targets(r)
           log     == Longer(r, d, lv)
<1>1. /\ local_log_' = [local_log_ EXCEPT ![r] = log]
      /\ log \in Seq(Entry) /\ log # <<>>
      /\ Len(log) = Len(local_log_[r]) + 1 /\ Len(local_log_[r]) \in Nat
      /\ targets \subseteq Replica
      /\ messages' = messages \cup {NewSequence(r, s, log) : s \in targets}
      /\ readers_for_local_log_' = [readers_for_local_log_ EXCEPT
            ![r] = [s \in Replica |-> IF s \in targets THEN Len(log) ELSE @[s]]]
      /\ new_sequence_todo' = [new_sequence_todo EXCEPT
            ![r] = IF local_log_[r] = <<>> THEN @ ELSE {}]
  BY LogLocalFacts
<1>2. \/ local_log_[r] = <<>> /\ targets = Others(r)
      \/ local_log_[r] # <<>> /\ targets = new_sequence_todo[r]
  BY DEF Targets
<1> HIDE DEF targets, log
<1>3. \A s \in targets : LET n == NewSequence(r, s, log)
                         IN  n \in Message /\ n.type = "NEW_SEQUENCE" /\ n.from = r /\ n.to = s
  BY <1>1, NewSequenceFacts
<1>4. messages' \subseteq Message
  BY <1>1, <1>3 DEF TypeOK
<1>5. /\ readers_for_local_log_ \in [Replica -> [Replica -> Nat]]
      /\ new_sequence_todo \in [Replica -> SUBSET Replica]
      /\ DOMAIN local_log_ = Replica
  BY DEF TypeOK
<1>6. /\ readers_for_local_log_' \in [Replica -> [Replica -> Nat]]
      /\ new_sequence_todo' \in [Replica -> SUBSET Replica]
  <2>1. [s \in Replica |-> IF s \in targets THEN Len(log) ELSE readers_for_local_log_[r][s]]
           \in [Replica -> Nat]
    BY <1>1, <1>5
  <2> QED
    BY <1>1, <1>5, <2>1
<1>7. \A p, q \in Replica : p # r => (Token(p, q)' <=> Token(p, q))
  <2> SUFFICES ASSUME NEW p \in Replica, NEW q \in Replica, p # r
               PROVE  Token(p, q)' <=> Token(p, q)
    OBVIOUS
  <2>1. Exchange(p, q)' = Exchange(p, q)
    BY <1>1, <1>3 DEF Exchange
  <2>2. /\ local_log_'[p] = local_log_[p] /\ new_sequence_todo'[p] = new_sequence_todo[p]
        /\ readers_for_local_log_'[p] = readers_for_local_log_[p]
    BY <1>1, <1>5
  <2> QED
    BY <2>1, <2>2 DEF Token
<1>8. ASSUME NEW s \in Others(r) PROVE Token(r, s)'
  <2>1. s \in Replica /\ Token(r, s)
    BY DEF Others, TokenInv
  <2>2. /\ local_log_'[r] = log
        /\ readers_for_local_log_'[r][s] =
              IF s \in targets THEN Len(log) ELSE readers_for_local_log_[r][s]
        /\ new_sequence_todo'[r] = IF local_log_[r] = <<>> THEN new_sequence_todo[r] ELSE {}
    BY <1>1, <1>5, <2>1
  <2>3. s \notin new_sequence_todo'[r]
    BY <2>1, <2>2 DEF Token
  <2>4. readers_for_local_log_'[r][s] <= Len(log)
    BY <1>1, <1>5, <2>1, <2>2 DEF Token
  <2>5. CASE s \in targets
    <3>1. Exchange(r, s) = {}
      BY <1>2, <2>1, <2>5 DEF Token
    <3>2. Exchange(r, s)' = {NewSequence(r, s, log)}
      BY <1>1, <1>3, <2>5, <3>1 DEF Exchange
    <3> QED
      BY <1>1, <2>2, <2>3, <2>4, <3>2 DEF Token
  <2>6. CASE s \notin targets
    <3>1. local_log_[r] # <<>> /\ s \notin new_sequence_todo[r]
      BY <1>2, <2>6
    <3>2. PICK m : Exchange(r, s) = {m}
      BY <2>1, <3>1 DEF Token
    <3>3. Exchange(r, s)' = Exchange(r, s)
      BY <1>1, <1>3, <2>6 DEF Exchange
    <3> QED
      BY <1>1, <2>2, <2>3, <2>4, <3>2, <3>3 DEF Token
  <2> QED
    BY <2>5, <2>6
<1>9. \A p : Others(p)' = Others(p) /\ Others(p) \subseteq Replica
  BY DEF Others, Strong
<1>10. TokenInv'
  BY <1>7, <1>8, <1>9 DEF TokenInv
<1> QED
  BY <1>1, <1>3, <1>4, <1>6, <1>10

-----------------------------------------------------------------------------
(* The local sequence. *)

\* The turn of the local sequence; nothing else is waited for.
LEMMA ProposeLocalPreserves ==
    ASSUME IInv, NEW r \in Replica, ProposeLocal(r)
    PROVE  IInv'
<1> USE DEF IInv
<1> DEFINE d  == sequence_[r]
           lv == local_next_version[r] + 1
           gv == global_next_version[r] + 1
<1>1. /\ ~ Strong
      /\ TakeTurn(r)
      /\ local_next_version' = [local_next_version EXCEPT ![r] = @ + 1]
      /\ sequence_' = [sequence_ EXCEPT ![r] = <<>>]
      /\ Order(r, d)
      /\ LogLocal(r, d, lv, gv)
      /\ UNCHANGED <<inputs, pc, remote, proposal, received_synchronize_ack,
                     sequences_other_replicas_>>
  BY DEF ProposeLocal
<1>2. d \in Data /\ lv \in Nat /\ gv \in Nat
  BY DEF TypeOK
<1> HIDE DEF d, lv, gv
<1>3. UNCHANGED type_
  BY <1>1 DEF inputs
<1>4. /\ TokenInv'
      /\ messages' \subseteq Message
      /\ readers_for_local_log_' \in [Replica -> [Replica -> Nat]]
      /\ new_sequence_todo' \in [Replica -> SUBSET Replica]
      /\ \A m \in messages' : m \in messages \/ m.type = "NEW_SEQUENCE"
      /\ messages \subseteq messages'
  BY <1>1, <1>2, <1>3, LogLocalKeepsToken
<1>5. local_log_' \in [Replica -> Seq(Entry)] /\ global_log_' \in [Replica -> Seq(Entry)]
  BY <1>1, <1>2, LogLocalFacts
<1>6. global_next_version' \in [Replica -> Nat] /\ scheduler_' \in [Replica -> Seq(Entry)]
  BY <1>1, <1>2, OrderFacts
<1>7. alternate' \in [Replica -> 0..(Period - 1)]
  <2>1. (alternate[r] + 1) % Period \in 0..(Period - 1)
    BY Basics DEF TypeOK
  <2> QED
    BY <1>1, <2>1 DEF TypeOK, TakeTurn, NextTurn
<1>8. sequence_' \in [Replica -> Data] /\ local_next_version' \in [Replica -> Nat]
  BY <1>1, Basics DEF TypeOK
<1>9. TypeOK'
  BY <1>1, <1>4, <1>5, <1>6, <1>7, <1>8 DEF TypeOK, inputs, Entry
<1>10. BatchInv'
  BY <1>4, BatchSame
<1>11. RemoteInv'
  BY <1>1, RemoteSame
<1>12. SyncInv'
  BY <1>1, <1>3 DEF SyncInv, Strong
<1> QED
  BY <1>4, <1>9, <1>10, <1>11, <1>12

\* No earlier proposal is waiting, so that no message about one is on its way.
LEMMA ProposeStrongPreserves ==
    ASSUME IInv, NEW r \in Replica, ProposeStrong(r)
    PROVE  IInv'
<1> USE DEF IInv
<1> DEFINE d == sequence_[r]
           n == Msg("SYNCHRONIZE", r, closed_replica(r), 0, <<d>>)
<1>1. /\ Strong
      /\ pc[r] = "ready"
      /\ d # <<>>
      /\ local_next_version' = [local_next_version EXCEPT ![r] = @ + 1]
      /\ sequence_' = [sequence_ EXCEPT ![r] = <<>>]
      /\ Order(r, d)
      /\ messages' = messages \cup {n}
      /\ proposal' = [proposal EXCEPT ![r] = d]
      /\ pc' = [pc EXCEPT ![r] = "synchronizing"]
      /\ UNCHANGED <<inputs, alternate, remote, received_synchronize_ack,
                     sequences_other_replicas_, local_log_, global_log_, sent>>
  BY DEF ProposeStrong, LocalTurn
<1>2. d \in Data /\ <<d>> \in Seq(Data)
  BY Basics DEF TypeOK
<1>3. closed_replica(r) \in Replica
  BY <1>1, Basics DEF TypeOK
<1> HIDE DEF d
<1>4. /\ n \in Message /\ n.type = "SYNCHRONIZE" /\ n.from = r
      /\ n = Msg("SYNCHRONIZE", r, closed_replica(r), 0, <<d>>)
  <2> DEFINE s    == closed_replica(r)
             data == <<d>>
  <2>1. s \in Replica /\ data \in Seq(Data) /\ 0 \in Nat
    BY <1>2, <1>3
  <2> HIDE DEF s, data
  <2>2. LET q == Msg("SYNCHRONIZE", r, s, 0, data)
        IN  q \in Message /\ q.type = "SYNCHRONIZE" /\ q.from = r
    BY <2>1, MsgFacts, MsgType
  <2> QED
    BY <2>2 DEF s, data
<1> HIDE DEF n
<1>5. UNCHANGED type_
  BY <1>1 DEF inputs
<1>6. /\ global_next_version' \in [Replica -> Nat] /\ scheduler_' \in [Replica -> Seq(Entry)]
      /\ \A s \in Replica : \A i \in DOMAIN scheduler_[s] :
            i \in DOMAIN scheduler_'[s] /\ scheduler_'[s][i] = scheduler_[s][i]
  BY <1>1, <1>2, OrderFacts
<1>7. /\ sequence_' \in [Replica -> Data] /\ local_next_version' \in [Replica -> Nat]
      /\ proposal' \in [Replica -> Data]
      /\ pc' \in [Replica -> {"ready", "handling", "synchronizing", "synchronized"}]
  BY <1>1, <1>2, Basics DEF TypeOK
<1>8. TypeOK'
  <2>1. \A l \in {local_log_', global_log_', scheduler_'} : l \in [Replica -> Seq(Entry)]
    BY <1>1, <1>6 DEF TypeOK, Entry
  <2> QED
    BY <1>1, <1>4, <1>6, <1>7, <2>1 DEF TypeOK, inputs, sent, Entry
<1>9. BatchInv'
  BY <1>1, <1>4, BatchSame
<1>10. TokenInv'
  BY <1>1, <1>4, <1>5, TokenSame
<1>11. RemoteInv'
  BY <1>1 DEF RemoteInv, TypeOK
<1>12. \A s \in Replica : \A e : Has(s, e) => Has(s, e)'
  BY <1>1, <1>6 DEF Has
<1>13. SyncInv'
  <2> SUFFICES ASSUME NEW p \in Replica
               PROVE  (Asked(p) /\ Answered(p) /\ Waiting(p) /\ Logged(p))'
    BY DEF SyncInv
  <2>1. Asked(p) /\ Answered(p) /\ Waiting(p) /\ Logged(p)
    BY <1>1 DEF SyncInv
  <2> DEFINE s == closed_replica(p)
  <2>2. s \in Replica
    BY <1>1, Basics DEF TypeOK
  <2>3. \A e : Has(s, e) => Has(s, e)'
    BY <1>12, <2>2
  <2>4. Logged(p)'
    BY <1>1, <2>1, <2>3 DEF Logged
  <2>5. CASE p # r
    <3>1. proposal'[p] = proposal[p] /\ pc'[p] = pc[p]
      BY <1>1, <2>5 DEF TypeOK
    <3>2. Asked(p)'
      BY <1>1, <1>4, <2>1, <2>5, <3>1 DEF Asked
    <3>3. Answered(p)'
      BY <1>1, <1>4, <2>1, <2>3, <2>5, <3>1 DEF Answered
    <3>4. Waiting(p)'
      BY <1>1, <2>1, <2>3, <3>1 DEF Waiting
    <3> QED
      BY <2>4, <3>2, <3>3, <3>4
  \* r had no proposal, nothing was on its way
  <2>6. CASE p = r
    <3>1. proposal[r] = <<>> /\ proposal'[r] = d /\ pc'[r] = "synchronizing"
      BY <1>1, <2>1, <2>6 DEF Waiting, TypeOK
    <3>2. ~ received_synchronize_ack[r]
      BY <2>1, <2>6, <3>1 DEF Waiting, Has
    <3>3. \A m \in messages : ~ (m.type = "SYNCHRONIZE" /\ m.from = r)
      BY <2>1, <2>6, <3>1 DEF Asked
    <3>4. \A m \in messages : ~ (m.type = "SYNCHRONIZE_ACK" /\ m.to = r)
      BY <2>1, <2>6, <3>1 DEF Answered, Has
    <3>5. Asked(r)'
      BY <1>1, <1>4, <3>1, <3>2, <3>3 DEF Asked
    <3>6. Answered(r)'
      BY <1>1, <1>4, <3>4 DEF Answered
    <3>7. Waiting(r)'
      BY <1>1, <3>1, <3>2 DEF Waiting
    <3> QED
      BY <2>4, <2>6, <3>5, <3>6, <3>7
  <2> QED
    BY <2>5, <2>6
<1> QED
  BY <1>8, <1>9, <1>10, <1>11, <1>13

\* The ack was about the sequence that is logged.
LEMMA LogSynchronizedPreserves ==
    ASSUME IInv, NEW r \in Replica, LogSynchronized(r)
    PROVE  IInv'
<1> USE DEF IInv
<1> DEFINE d  == proposal[r]
           lv == local_next_version[r]
           gv == global_next_version[r]
<1>1. /\ received_synchronize_ack[r]
      /\ pc[r] \in {"synchronizing", "synchronized"}
      /\ LogLocal(r, d, lv, gv)
      /\ received_synchronize_ack' = [received_synchronize_ack EXCEPT ![r] = FALSE]
      /\ proposal' = [proposal EXCEPT ![r] = <<>>]
      /\ pc' = [pc EXCEPT ![r] = "ready"]
      /\ UNCHANGED <<inputs, sequence_, alternate, remote, sequences_other_replicas_,
                     local_next_version, global_next_version, scheduler_>>
  BY DEF LogSynchronized
<1>2. d \in Data /\ lv \in Nat /\ gv \in Nat
  BY DEF TypeOK
<1>3. UNCHANGED type_
  BY <1>1 DEF inputs
<1> HIDE DEF d, lv, gv
<1> DEFINE log == Longer(r, d, lv)
<1>5. /\ TokenInv'
      /\ messages' \subseteq Message
      /\ readers_for_local_log_' \in [Replica -> [Replica -> Nat]]
      /\ new_sequence_todo' \in [Replica -> SUBSET Replica]
      /\ \A m \in messages' : m \in messages \/ m.type = "NEW_SEQUENCE"
      /\ messages \subseteq messages'
  BY <1>1, <1>2, <1>3, LogLocalKeepsToken
<1>6. /\ local_log_' \in [Replica -> Seq(Entry)] /\ global_log_' \in [Replica -> Seq(Entry)]
      /\ local_log_' = [local_log_ EXCEPT ![r] = log]
      /\ \A i \in DOMAIN log : \/ i \in DOMAIN local_log_[r] /\ log[i] = local_log_[r][i]
                               \/ log[i].data = d
  BY <1>1, <1>2, LogLocalFacts
<1> HIDE DEF log
<1>7. /\ received_synchronize_ack' \in [Replica -> BOOLEAN]
      /\ proposal' \in [Replica -> Data]
      /\ pc' \in [Replica -> {"ready", "handling", "synchronizing", "synchronized"}]
  <2>1. received_synchronize_ack' \in [Replica -> BOOLEAN]
    BY <1>1 DEF TypeOK
  <2> QED
    BY <1>1, <2>1, Basics DEF TypeOK
<1>8. TypeOK'
  <2>1. \A l \in {local_log_', global_log_', scheduler_'} : l \in [Replica -> Seq(Entry)]
    BY <1>1, <1>6 DEF TypeOK, Entry
  <2> QED
    BY <1>1, <1>5, <1>7, <2>1 DEF TypeOK, inputs, Entry
<1>9. BatchInv'
  BY <1>5, BatchSame
<1>10. RemoteInv'
  BY <1>1 DEF RemoteInv, TypeOK
<1>11. \A s, e : Has(s, e) => Has(s, e)'
  BY <1>1, HasSame
<1>12. SyncInv'
  <2> SUFFICES ASSUME Strong, NEW p \in Replica
               PROVE  (Asked(p) /\ Answered(p) /\ Waiting(p) /\ Logged(p))'
    BY <1>3 DEF SyncInv, Strong
  <2>1. Asked(p) /\ Answered(p) /\ Waiting(p) /\ Logged(p)
    BY DEF SyncInv
  <2> DEFINE s == closed_replica(p)
  <2>2. \A e : Has(s, e) => Has(s, e)'
    BY <1>11
  <2>3. CASE p # r
    <3>1. /\ proposal'[p] = proposal[p] /\ pc'[p] = pc[p] /\ local_log_'[p] = local_log_[p]
          /\ received_synchronize_ack'[p] = received_synchronize_ack[p]
      BY <1>1, <1>6, <2>3 DEF TypeOK
    <3>2. Asked(p)'
      BY <1>5, <2>1, <3>1 DEF Asked
    <3>3. Answered(p)'
      BY <1>5, <2>1, <2>2, <3>1 DEF Answered
    <3>4. Waiting(p)'
      BY <2>1, <2>2, <3>1 DEF Waiting
    <3>5. Logged(p)'
      BY <2>1, <2>2, <3>1 DEF Logged
    <3> QED
      BY <3>2, <3>3, <3>4, <3>5
  \* the ack was for this proposal, and none is left
  <2>4. CASE p = r
    <3>1. ~ received_synchronize_ack'[r] /\ proposal'[r] = <<>> /\ local_log_'[r] = log
      BY <1>1, <1>6 DEF TypeOK
    <3>2. Has(s, d)
      BY <1>1, <2>1, <2>4 DEF Waiting, d
    <3>3. \A m \in messages' : ~ (m.type = "SYNCHRONIZE" /\ m.from = r)
      BY <1>1, <1>5, <2>1, <2>4 DEF Asked
    <3>4. \A m \in messages' : ~ (m.type = "SYNCHRONIZE_ACK" /\ m.to = r)
      BY <1>1, <1>5, <2>1, <2>4 DEF Answered
    <3>5. Asked(r)' /\ Answered(r)'
      BY <3>3, <3>4 DEF Asked, Answered
    <3>6. Waiting(r)'
      BY <3>1 DEF Waiting
    <3>7. Logged(r)'
      BY <1>6, <2>1, <2>2, <2>4, <3>1, <3>2 DEF Logged
    <3> QED
      BY <2>4, <3>5, <3>6, <3>7
  <2> QED
    BY <2>3, <2>4
<1> QED
  BY <1>5, <1>8, <1>9, <1>10, <1>12

-----------------------------------------------------------------------------
(* A sequence of another replica. *)

\* The sequence leaves the queue, but is not lost for those that count on it.
LEMMA TakeRemotePreserves ==
    ASSUME IInv, NEW r \in Replica, TakeRemote(r)
    PROVE  IInv'
<1> USE DEF IInv
<1> DEFINE q == sequences_other_replicas_[r]
<1>1. /\ q # <<>>
      /\ pc[r] \in {"ready", "synchronizing"}
      /\ TakeTurn(r)
      /\ remote' = [remote EXCEPT ![r] = Head(q)]
      /\ sequences_other_replicas_' = [sequences_other_replicas_ EXCEPT ![r] = Tail(q)]
      /\ pc' = [pc EXCEPT ![r] = "handling"]
      /\ UNCHANGED <<inputs, messages, sequence_, proposal, received_synchronize_ack, logs, sent>>
  BY DEF TakeRemote
<1>2. q \in Seq(Sequence)
  BY DEF TypeOK, Sequence
<1>3. /\ Head(q) \in Sequence /\ Tail(q) \in Seq(Sequence)
      /\ \A i \in DOMAIN q : q[i] = Head(q) \/ \E j \in DOMAIN Tail(q) : Tail(q)[j] = q[i]
  BY <1>1, <1>2, TailFacts
<1>4. remote[r].data = <<>>
  BY <1>1 DEF RemoteInv
<1>5. \A s \in Replica : \A d : Has(s, d) => Has(s, d)'
  <2> SUFFICES ASSUME NEW s \in Replica, NEW d, Has(s, d) PROVE Has(s, d)'
    OBVIOUS
  <2>1. CASE s = r
    <3>1. remote'[r] = Head(q) /\ sequences_other_replicas_'[r] = Tail(q)
             /\ scheduler_' = scheduler_
      BY <1>1 DEF TypeOK, logs
    <3>2. \/ \E i \in DOMAIN scheduler_[r] : scheduler_[r][i].data = d
          \/ \E i \in DOMAIN q : q[i].data = d
      BY <1>4, <2>1 DEF Has
    <3> HIDE DEF q
    <3>3. d # <<>>
      BY DEF Has
    <3> QED
      BY <1>3, <2>1, <3>1, <3>2, <3>3 DEF Has
  <2>2. CASE s # r
    <3>1. /\ remote'[s] = remote[s] /\ scheduler_' = scheduler_
          /\ sequences_other_replicas_'[s] = sequences_other_replicas_[s]
      BY <1>1, <2>2 DEF TypeOK, logs
    <3> QED
      BY <3>1 DEF Has
  <2> QED
    BY <2>1, <2>2
<1> HIDE DEF q
<1>6. /\ remote' \in [Replica -> [data : Data, from : Replica \cup {0}, index : Nat]]
      /\ sequences_other_replicas_' \in [Replica -> Seq([data : Data, from : Replica, index : Nat])]
      /\ pc' \in [Replica -> {"ready", "handling", "synchronizing", "synchronized"}]
  BY <1>1, <1>3 DEF TypeOK, Sequence
<1>7. alternate' \in [Replica -> 0..(Period - 1)]
  <2>1. (alternate[r] + 1) % Period \in 0..(Period - 1)
    BY Basics DEF TypeOK
  <2>2. alternate' \in [Replica -> 0..(Period - 1)] \/ alternate' = [alternate EXCEPT ![r] = @]
    BY <1>1, <2>1 DEF TypeOK, TakeTurn, NextTurn
  <2> QED
    BY <2>2 DEF TypeOK
<1>8. TypeOK'
  BY <1>1, <1>6, <1>7 DEF TypeOK, inputs, logs, sent
<1>9. BatchInv'
  BY <1>1, BatchSame
<1>10. TokenInv'
  BY <1>1, TokenSame DEF inputs, logs
<1>11. RemoteInv'
  BY <1>1 DEF RemoteInv, TypeOK
<1>12. \A p \in Replica : pc'[p] = "ready" => pc[p] = "ready"
  BY <1>1 DEF TypeOK
<1>13. SyncInv'
  BY <1>1, <1>5, <1>12, SyncSame DEF inputs, logs
<1> QED
  BY <1>8, <1>9, <1>10, <1>11, <1>13

\* The handled sequence stays the same.
LEMMA GeneratePreserves ==
    ASSUME IInv, NEW r \in Replica, Generate(r)
    PROVE  IInv'
<1> USE DEF IInv
<1> DEFINE b == NextToGenerate(r)
<1>1. /\ Generating(r)
      /\ b \in mr_txn_batches_[r]
      /\ sequence_' = [sequence_ EXCEPT
            ![r] = IF r \in Involved[b] THEN Append(@, Generated(r, b)) ELSE @]
      /\ remote' = [remote EXCEPT ![r].index = @ + 1]
      /\ UNCHANGED <<inputs, messages, alternate, pc, proposal, received_synchronize_ack,
                     sequences_other_replicas_, logs, sent>>
  BY DEF Generate
<1>2. b \in Batch
  BY <1>1 DEF TypeOK
<1> HIDE DEF b
<1>3. Generated(r, b) \in BatchId
  BY <1>2 DEF BatchId, Generated
<1>4. \A d \in Data : Append(d, Generated(r, b)) \in Data
  BY <1>3, Basics, AppendFacts
<1>5. sequence_' \in [Replica -> Data]
  BY <1>1, <1>4 DEF TypeOK
<1>6. /\ remote' \in [Replica -> [data : Data, from : Replica \cup {0}, index : Nat]]
      /\ \A s \in Replica : remote'[s].data = remote[s].data
  <2>1. remote \in [Replica -> [data : Data, from : Replica \cup {0}, index : Nat]]
    BY DEF TypeOK
  <2> DEFINE x == [remote[r] EXCEPT !.index = @ + 1]
  <2>2. x \in [data : Data, from : Replica \cup {0}, index : Nat] /\ x.data = remote[r].data
    BY <2>1
  <2>3. remote' = [remote EXCEPT ![r] = x]
    BY <1>1
  <2> HIDE DEF x
  <2> QED
    BY <2>1, <2>2, <2>3
<1>7. TypeOK'
  BY <1>1, <1>5, <1>6 DEF TypeOK, inputs, logs, sent
<1>8. BatchInv'
  BY <1>1, BatchSame
<1>9. TokenInv'
  BY <1>1, TokenSame DEF inputs, logs
<1>10. RemoteInv'
  BY <1>1, <1>6 DEF RemoteInv
<1>11. \A s \in Replica : \A d : Has(s, d) => Has(s, d)'
  BY <1>1, <1>6 DEF Has, logs
<1>12. SyncInv'
  BY <1>1, <1>11, SyncSame DEF inputs, logs
<1> QED
  BY <1>7, <1>8, <1>9, <1>10, <1>12

\* The handled sequence goes to the schedulers.
LEMMA OrderRemotePreserves ==
    ASSUME IInv, NEW r \in Replica, OrderRemote(r)
    PROVE  IInv'
<1> USE DEF IInv
<1> DEFINE d == remote[r].data
           e == [version |-> global_next_version[r] + 1, data |-> d]
           next == IF proposal[r] = <<>> THEN "ready"
                   ELSE IF received_synchronize_ack[r] THEN "synchronized"
                   ELSE "synchronizing"
<1>1. /\ Order(r, d)
      /\ global_log_' = [global_log_ EXCEPT ![r] = Append(global_log_[r], e)]
      /\ remote' = [remote EXCEPT ![r] = Nothing]
      /\ pc' = [pc EXCEPT ![r] = next]
      /\ UNCHANGED <<inputs, messages, sequence_, alternate, proposal,
                     received_synchronize_ack, sequences_other_replicas_,
                     local_next_version, local_log_, sent>>
  BY DEF OrderRemote
<1>2. /\ next \in {"ready", "handling", "synchronizing", "synchronized"}
      /\ next = "ready" => proposal[r] = <<>>
  OBVIOUS
<1>3. d \in Data
  BY DEF TypeOK
<1>4. e \in Entry
  BY <1>3 DEF TypeOK, Entry
<1> HIDE DEF d, e, next
<1>5. Append(global_log_[r], e) \in Seq(Entry) /\ global_log_ \in [Replica -> Seq(Entry)]
  <2>1. global_log_ \in [Replica -> Seq(Entry)]
    BY DEF TypeOK, Entry
  <2> QED
    BY <1>4, <2>1, AppendFacts
<1>6. /\ global_next_version' \in [Replica -> Nat] /\ scheduler_' \in [Replica -> Seq(Entry)]
      /\ \A s \in Replica : \A i \in DOMAIN scheduler_[s] :
            i \in DOMAIN scheduler_'[s] /\ scheduler_'[s][i] = scheduler_[s][i]
      /\ \E i \in DOMAIN scheduler_'[r] : scheduler_'[r][i].data = d
  BY <1>1, <1>3, OrderFacts
<1>7. Nothing \in [data : Data, from : Replica \cup {0}, index : Nat] /\ Nothing.data = <<>>
  BY Basics DEF Nothing
<1>8. /\ remote' \in [Replica -> [data : Data, from : Replica \cup {0}, index : Nat]]
      /\ \A s \in Replica : remote'[s] = IF s = r THEN Nothing ELSE remote[s]
      /\ pc' \in [Replica -> {"ready", "handling", "synchronizing", "synchronized"}]
      /\ \A s \in Replica : pc'[s] = IF s = r THEN next ELSE pc[s]
      /\ global_log_' \in [Replica -> Seq(Entry)]
  BY <1>1, <1>2, <1>5, <1>7 DEF TypeOK
<1>9. TypeOK'
  <2>1. \A l \in {local_log_', global_log_', scheduler_'} : l \in [Replica -> Seq(Entry)]
    BY <1>1, <1>6, <1>8 DEF TypeOK, Entry
  <2> QED
    BY <1>1, <1>6, <1>8, <2>1 DEF TypeOK, inputs, sent, Entry
<1>10. BatchInv'
  BY <1>1, BatchSame
<1>11. TokenInv'
  BY <1>1, TokenSame DEF inputs
<1>12. RemoteInv'
  BY <1>7, <1>8 DEF RemoteInv
<1>13. \A s \in Replica : \A f : Has(s, f) => Has(s, f)'
  <2> SUFFICES ASSUME NEW s \in Replica, NEW f, Has(s, f) PROVE Has(s, f)'
    OBVIOUS
  <2>1. CASE remote[s].data = f /\ s = r
    BY <1>6, <2>1 DEF Has, d
  <2>2. CASE ~ (remote[s].data = f /\ s = r)
    BY <1>1, <1>6, <1>8, <2>2 DEF Has
  <2> QED
    BY <2>1, <2>2
<1>14. SyncInv'
  BY <1>1, <1>2, <1>8, <1>13, SyncSame DEF inputs
<1> QED
  BY <1>9, <1>10, <1>11, <1>12, <1>14

-----------------------------------------------------------------------------
(* Messages. *)

\* The batch that the message tells of is one.
LEMMA OnMRTxnsBatchPreserves ==
    ASSUME IInv, NEW m \in messages, OnMRTxnsBatch(m)
    PROVE  IInv'
<1> USE DEF IInv
<1>1. /\ m.type = "MR_TXNS_BATCH"
      /\ messages' = messages \ {m}
      /\ mr_txn_batches_' = [mr_txn_batches_ EXCEPT ![m.to] = @ \cup {m.data[1][1]}]
      /\ UNCHANGED <<type_, written, sequence_, turn, sequences_other_replicas_, logs, sent>>
  BY DEF OnMRTxnsBatch, Receive
<1>2. m.to \in Replica
  BY DEF TypeOK, Message
<1>3. m.data[1][1] \in Batch
  BY <1>1 DEF BatchInv
<1>4. mr_txn_batches_' \in [Replica -> SUBSET Batch]
  BY <1>1, <1>2, <1>3 DEF TypeOK
<1>5. TypeOK'
  BY <1>1, <1>4 DEF TypeOK, turn, logs, sent
<1>6. BatchInv'
  BY <1>1, BatchSame
<1>7. TokenInv'
  BY <1>1, TokenSame DEF logs
<1>8. RemoteInv'
  BY <1>1, RemoteSame DEF turn
<1>9. SyncInv'
  BY <1>1, HasSame, SyncSame DEF turn, logs
<1> QED
  BY <1>5, <1>6, <1>7, <1>8, <1>9

\* What PushRemote() leaves in the queue.
LEMMA PushRemoteFacts ==
    ASSUME TypeOK, NEW m \in messages, PushRemote(m)
    PROVE  /\ sequences_other_replicas_' \in
                 [Replica -> Seq([data : Data, from : Replica, index : Nat])]
           /\ \A s \in Replica : \A i \in DOMAIN sequences_other_replicas_[s] :
                 \E j \in DOMAIN sequences_other_replicas_'[s] :
                    sequences_other_replicas_'[s][j] = sequences_other_replicas_[s][i]
           /\ \A i \in DOMAIN m.data :
                 \E j \in DOMAIN sequences_other_replicas_'[m.to] :
                    sequences_other_replicas_'[m.to][j].data = m.data[i]
<1> DEFINE t == [i \in DOMAIN m.data |-> [data |-> m.data[i], from |-> m.from, index |-> 0]]
           q == sequences_other_replicas_[m.to]
           u == q \o t
<1>1. m.to \in Replica /\ m.from \in Replica /\ m.data \in Seq(Data)
  BY DEF TypeOK, Message
<1>2. sequences_other_replicas_ \in [Replica -> Seq(Sequence)]
  BY DEF TypeOK, Sequence
<1>3. q \in Seq(Sequence)
  BY <1>1, <1>2
<1>4. t \in Seq(Sequence) /\ DOMAIN t = DOMAIN m.data
         /\ \A i \in DOMAIN m.data : t[i].data = m.data[i]
  <2> DEFINE x == m.data
  <2>1. DOMAIN x = 1..Len(x) /\ Len(x) \in Nat /\ \A i \in 1..Len(x) : x[i] \in Data
    BY <1>1
  <2> HIDE DEF x
  <2>2. \A i \in 1..Len(x) : [data |-> x[i], from |-> m.from, index |-> 0] \in Sequence
    BY <1>1, <2>1 DEF Sequence
  <2>3. t = [i \in 1..Len(x) |-> [data |-> x[i], from |-> m.from, index |-> 0]]
    BY <2>1 DEF x
  <2> HIDE DEF t
  <2>4. t \in Seq(Sequence) /\ DOMAIN t = 1..Len(x)
    BY <2>1, <2>2, <2>3
  <2>5. \A i \in 1..Len(x) : t[i].data = x[i]
    BY <2>3
  <2> QED
    BY <2>1, <2>4, <2>5 DEF x
<1>5. sequences_other_replicas_' = [sequences_other_replicas_ EXCEPT ![m.to] = u]
  BY DEF PushRemote
<1> HIDE DEF t, q, u
<1>6. /\ u \in Seq(Sequence)
      /\ \A i \in DOMAIN q : i \in DOMAIN u /\ u[i] = q[i]
      /\ \A i \in DOMAIN t : \E j \in DOMAIN u : u[j] = t[i]
  <2>1. /\ q \o t \in Seq(Sequence)
        /\ \A i \in DOMAIN q : i \in DOMAIN (q \o t) /\ (q \o t)[i] = q[i]
        /\ \A i \in DOMAIN t : \E j \in DOMAIN (q \o t) : (q \o t)[j] = t[i]
    <3>1. q \in Seq(Sequence) /\ t \in Seq(Sequence)
      BY <1>3, <1>4
    <3> QED
      BY <3>1, ConcatFacts
  <2> QED
    BY <2>1 DEF u
<1>7. sequences_other_replicas_' \in [Replica -> Seq(Sequence)]
  BY <1>1, <1>2, <1>5, <1>6
<1>8. \A s \in Replica : \A i \in DOMAIN sequences_other_replicas_[s] :
         \E j \in DOMAIN sequences_other_replicas_'[s] :
            sequences_other_replicas_'[s][j] = sequences_other_replicas_[s][i]
  BY <1>1, <1>2, <1>5, <1>6 DEF q
<1>9. sequences_other_replicas_'[m.to] = u
  BY <1>1, <1>2, <1>5
<1>10. \A i \in DOMAIN m.data : \E j \in DOMAIN u : u[j].data = m.data[i]
  BY <1>4, <1>6
<1> QED
  BY <1>7, <1>8, <1>9, <1>10 DEF Sequence

\* No sequence in the queue is lost.
LEMMA PushRemoteKeeps ==
    ASSUME TypeOK, NEW m \in messages, PushRemote(m), UNCHANGED <<scheduler_, remote>>
    PROVE  \A s \in Replica : \A d : Has(s, d) => Has(s, d)'
<1> SUFFICES ASSUME NEW s \in Replica, NEW d, Has(s, d) PROVE Has(s, d)'
  OBVIOUS
<1>1. \A i \in DOMAIN sequences_other_replicas_[s] :
         \E j \in DOMAIN sequences_other_replicas_'[s] :
            sequences_other_replicas_'[s][j] = sequences_other_replicas_[s][i]
  BY PushRemoteFacts
<1> QED
  BY <1>1 DEF Has

\* The token is turned into an ack.
LEMMA OnNewSequencePreserves ==
    ASSUME IInv, NEW m \in messages, OnNewSequence(m)
    PROVE  IInv'
<1> USE DEF IInv
<1> DEFINE n == Msg("NEW_SEQUENCE_ACK", m.to, m.from, m.version, <<>>)
<1>1. /\ m.type = "NEW_SEQUENCE"
      /\ PushRemote(m)
      /\ messages' = (messages \ {m}) \cup {n}
      /\ UNCHANGED <<inputs, sequence_, turn, logs, sent>>
  BY DEF OnNewSequence, Receive
<1>2. m \in Message
  BY DEF TypeOK
<1>3. n \in Message /\ n.type = "NEW_SEQUENCE_ACK" /\ n.from = m.to /\ n.to = m.from
  <2> DEFINE data == <<>>
             v    == m.version
  <2>1. m.from \in Replica /\ m.to \in Replica /\ v \in Nat /\ data \in Seq(Data)
    BY <1>2, Basics DEF Message
  <2> HIDE DEF data, v
  <2>2. LET x == Msg("NEW_SEQUENCE_ACK", m.to, m.from, v, data)
        IN  x \in Message /\ x.type = "NEW_SEQUENCE_ACK" /\ x.from = m.to /\ x.to = m.from
    BY <2>1, MsgFacts, MsgType
  <2> QED
    BY <2>2 DEF data, v
<1> HIDE DEF n
<1>4. sequences_other_replicas_' \in [Replica -> Seq([data : Data, from : Replica, index : Nat])]
  BY <1>1, PushRemoteFacts
<1>5. TypeOK'
  BY <1>1, <1>3, <1>4 DEF TypeOK, inputs, turn, logs, sent
<1>6. BatchInv'
  BY <1>1, <1>3, BatchSame
<1>7. TokenInv'
  <2>1. \A r, s : Token(r, s) /\ Exchange(r, s)' = Exchange(r, s) => Token(r, s)'
    BY <1>1 DEF Token, sent, logs
  <2>2. \A r : Others(r)' = Others(r)
    BY <1>1 DEF Others, Strong, inputs
  <2> SUFFICES ASSUME NEW r \in Replica, NEW s \in Others(r) PROVE Token(r, s)'
    BY <2>2 DEF TokenInv
  <2>3. Token(r, s)
    BY DEF TokenInv
  <2>4. CASE ~ (m.from = r /\ m.to = s)
    <3>1. Exchange(r, s)' = Exchange(r, s)
      BY <1>1, <1>3, <2>4 DEF Exchange
    <3> QED
      BY <2>1, <2>3, <3>1
  \* the token becomes an ack
  <2>5. CASE m.from = r /\ m.to = s
    <3>1. m \in Exchange(r, s)
      BY <1>1, <2>5 DEF Exchange
    <3>2. Exchange(r, s) = {m} /\ s \notin new_sequence_todo[r]
      BY <2>3, <3>1 DEF Token
    <3>3. Exchange(r, s)' = {n}
      BY <1>1, <1>3, <2>5, <3>2 DEF Exchange
    <3> QED
      BY <1>1, <2>3, <3>1, <3>2, <3>3 DEF Token, sent, logs
  <2> QED
    BY <2>4, <2>5
<1>8. RemoteInv'
  BY <1>1, RemoteSame DEF turn
<1>9. \A s \in Replica : \A d : Has(s, d) => Has(s, d)'
  BY <1>1, PushRemoteKeeps DEF turn, logs
<1>10. SyncInv'
  BY <1>1, <1>3, <1>9, SyncSame DEF inputs, turn, logs
<1> QED
  BY <1>5, <1>6, <1>7, <1>8, <1>10

\* The token is turned into a NEW_SEQUENCE, or the sender is put by.
LEMMA OnNewSequenceAckPreserves ==
    ASSUME IInv, NEW m \in messages, OnNewSequenceAck(m)
    PROVE  IInv'
<1> USE DEF IInv
<1> DEFINE r   == m.to
           s   == m.from
           log == local_log_[r]
           n   == NewSequence(r, s, log)
<1>1. /\ m.type = "NEW_SEQUENCE_ACK"
      /\ UNCHANGED <<inputs, sequence_, turn, sequences_other_replicas_, logs>>
      /\ \/ /\ Unsent(r, s, log) = <<>>
            /\ messages' = messages \ {m}
            /\ new_sequence_todo' = [new_sequence_todo EXCEPT ![r] = @ \cup {s}]
            /\ readers_for_local_log_' = readers_for_local_log_
         \/ /\ Unsent(r, s, log) # <<>>
            /\ messages' = (messages \ {m}) \cup {n}
            /\ readers_for_local_log_' = [readers_for_local_log_ EXCEPT
                  ![r] = [q \in Replica |-> IF q = s THEN Len(log) ELSE @[q]]]
            /\ new_sequence_todo' = new_sequence_todo
  BY DEF OnNewSequenceAck, Receive, SendNew
<1>2. r \in Replica /\ s \in Replica
  BY DEF TypeOK, Message
<1>3. /\ readers_for_local_log_ \in [Replica -> [Replica -> Nat]]
      /\ new_sequence_todo \in [Replica -> SUBSET Replica]
      /\ local_log_ \in [Replica -> Seq(Entry)]
  BY DEF TypeOK, Entry
<1>4. log \in Seq(Entry) /\ Len(log) \in Nat /\ readers_for_local_log_[r][s] \in Nat
  BY <1>2, <1>3
<1>5. /\ Unsent(r, s, log) = <<>> => readers_for_local_log_[r][s] >= Len(log)
      /\ Unsent(r, s, log) # <<>> => log # <<>>
  <2> DEFINE a == readers_for_local_log_[r][s] + 1
  <2> HIDE DEF log
  <2>1. a \in Nat /\ a >= 1 /\ Len(log) \in Nat
    BY <1>4
  <2>2. Unsent(r, s, log) = SubSeq(log, a, Len(log))
    BY DEF Unsent
  <2>3. a = readers_for_local_log_[r][s] + 1
    OBVIOUS
  <2> HIDE DEF a
  <2>4. a > Len(log) => SubSeq(log, a, Len(log)) = <<>>
    BY <2>1, SubSeqEmpty
  <2>5. a <= Len(log) => SubSeq(log, a, Len(log)) # <<>>
    <3> SUFFICES ASSUME a <= Len(log) PROVE SubSeq(log, a, Len(log)) # <<>>
      OBVIOUS
    <3>1. \A i \in a..Len(log) : log[i] \in Entry
      <4>1. \A i \in a..Len(log) : i \in 1..Len(log)
        BY <2>1
      <4> QED
        BY <1>4, <4>1
    <3>2. Len(SubSeq(log, a, Len(log))) = (Len(log) - a) + 1
      BY <2>1, <3>1, SubSeqProperties
    <3>3. (Len(log) - a) + 1 # 0
      BY <2>1
    <3> QED
      BY <3>2, <3>3, EmptySeq
  <2>6. log = <<>> => Len(log) = 0
    BY EmptySeq
  <2> QED
    BY <1>4, <2>1, <2>2, <2>3, <2>4, <2>5, <2>6
<1>6. Unsent(r, s, log) # <<>> =>
         n \in Message /\ n.type = "NEW_SEQUENCE" /\ n.from = r /\ n.to = s
  BY <1>2, <1>4, <1>5, NewSequenceFacts
<1> HIDE DEF r, s, log, n
<1>7. UNCHANGED <<type_, local_log_>>
  BY <1>1 DEF inputs, logs
<1>8. \A x \in messages' : x \in messages \/ (x \in Message /\ x.type = "NEW_SEQUENCE"
         /\ x.from = r /\ x.to = s)
  BY <1>1, <1>6
<1>9. /\ readers_for_local_log_' \in [Replica -> [Replica -> Nat]]
      /\ new_sequence_todo' \in [Replica -> SUBSET Replica]
  <2> DEFINE f == [q \in Replica |-> IF q = s THEN Len(log) ELSE readers_for_local_log_[r][q]]
  <2>1. f \in [Replica -> Nat]
    BY <1>2, <1>3, <1>4
  <2>2. \/ readers_for_local_log_' = readers_for_local_log_
        \/ readers_for_local_log_' = [readers_for_local_log_ EXCEPT ![r] = f]
    BY <1>1
  <2> HIDE DEF f
  <2>3. readers_for_local_log_' \in [Replica -> [Replica -> Nat]]
    <3>1. readers_for_local_log_ \in [Replica -> [Replica -> Nat]]
      BY <1>3
    <3>2. [readers_for_local_log_ EXCEPT ![r] = f] \in [Replica -> [Replica -> Nat]]
      BY <2>1, <3>1
    <3> QED
      BY <2>2, <3>1, <3>2
  <2>4. new_sequence_todo' \in [Replica -> SUBSET Replica]
    <3>1. new_sequence_todo \in [Replica -> SUBSET Replica]
      BY <1>3
    <3>2. [new_sequence_todo EXCEPT ![r] = @ \cup {s}] \in [Replica -> SUBSET Replica]
      BY <1>2, <3>1
    <3>3. \/ new_sequence_todo' = new_sequence_todo
          \/ new_sequence_todo' = [new_sequence_todo EXCEPT ![r] = @ \cup {s}]
      BY <1>1
    <3> QED
      BY <3>1, <3>2, <3>3
  <2> QED
    BY <2>3, <2>4
<1>10. TypeOK'
  BY <1>1, <1>8, <1>9 DEF TypeOK, inputs, turn, logs
<1>11. BatchInv'
  BY <1>8, BatchSame
<1>12. TokenInv'
  <2>1. \A p : Others(p)' = Others(p) /\ Others(p) \subseteq Replica
    BY <1>7 DEF Others, Strong
  <2> SUFFICES ASSUME NEW p \in Replica, NEW q \in Others(p) PROVE Token(p, q)'
    BY <2>1 DEF TokenInv
  <2>2. Token(p, q) /\ q \in Replica
    BY <2>1 DEF TokenInv
  <2>3. m.to = r /\ m.from = s
    BY DEF r, s
  <2>4. CASE ~ (p = r /\ q = s)
    <3>1. Exchange(p, q)' = Exchange(p, q)
      BY <1>1, <1>6, <2>3, <2>4 DEF Exchange
    <3>2. q \in new_sequence_todo'[p] <=> q \in new_sequence_todo[p]
      <4>1. \/ new_sequence_todo' = new_sequence_todo
            \/ new_sequence_todo' = [new_sequence_todo EXCEPT ![r] = @ \cup {s}]
        BY <1>1
      <4> QED
        BY <1>2, <1>3, <2>4, <4>1
    <3>3. readers_for_local_log_'[p][q] = readers_for_local_log_[p][q]
      <4> DEFINE f == [x \in Replica |-> IF x = s THEN Len(log) ELSE readers_for_local_log_[r][x]]
      <4>1. \/ readers_for_local_log_' = readers_for_local_log_
            \/ readers_for_local_log_' = [readers_for_local_log_ EXCEPT ![r] = f]
        BY <1>1
      <4>2. p = r => f[q] = readers_for_local_log_[p][q]
        BY <2>2, <2>4
      <4> HIDE DEF f
      <4> QED
        BY <1>2, <1>3, <4>1, <4>2
    <3> QED
      BY <1>7, <2>2, <3>1, <3>2, <3>3 DEF Token
  <2>5. CASE p = r /\ q = s
    <3>1. m \in Exchange(p, q)
      BY <1>1, <2>3, <2>5 DEF Exchange
    <3>2. Exchange(p, q) = {m} /\ q \notin new_sequence_todo[p] /\ local_log_[p] # <<>>
      BY <2>2, <3>1 DEF Token
    <3>3. readers_for_local_log_[p][q] <= Len(local_log_[p])
      BY <2>2 DEF Token
    <3>4. log = local_log_[p]
      BY <2>5 DEF log
    <3>5. CASE Unsent(r, s, log) = <<>>
      <4>1. Exchange(p, q)' = {}
        BY <1>1, <3>2, <3>5 DEF Exchange
      <4>2. /\ q \in new_sequence_todo'[p]
            /\ readers_for_local_log_'[p][q] = readers_for_local_log_[p][q]
        BY <1>1, <1>2, <1>3, <2>5, <3>5
      <4>3. readers_for_local_log_[p][q] = Len(local_log_[p])
        BY <1>4, <1>5, <2>5, <3>3, <3>4, <3>5
      <4> QED
        BY <1>7, <3>2, <3>3, <4>1, <4>2, <4>3 DEF Token
    <3>6. CASE Unsent(r, s, log) # <<>>
      <4>1. Exchange(p, q)' = {n}
        BY <1>1, <1>6, <2>5, <3>2, <3>6 DEF Exchange
      <4>2. q \notin new_sequence_todo'[p]
        BY <1>1, <3>2, <3>6
      <4>3. readers_for_local_log_'[p][q] = Len(local_log_[p])
        <5> DEFINE f == [x \in Replica |-> IF x = s THEN Len(log) ELSE readers_for_local_log_[r][x]]
        <5>1. readers_for_local_log_' = [readers_for_local_log_ EXCEPT ![r] = f]
          BY <1>1, <3>6
        <5>2. f[s] = Len(log)
          BY <1>2
        <5> HIDE DEF f
        <5> QED
          BY <1>2, <1>3, <2>5, <3>4, <5>1, <5>2
      <4>4. Len(local_log_[p]) <= Len(local_log_[p])
        BY <1>4, <3>4
      <4>5. local_log_'[p] = local_log_[p]
        BY <1>7
      <4> QED
        BY <3>2, <4>1, <4>2, <4>3, <4>4, <4>5 DEF Token
    <3> QED
      BY <3>5, <3>6
  <2> QED
    BY <2>4, <2>5
<1>13. RemoteInv'
  BY <1>1, RemoteSame DEF turn
<1>14. \A x : x.type \in {"SYNCHRONIZE", "SYNCHRONIZE_ACK"} => (x \in messages' <=> x \in messages)
  BY <1>1, <1>6
<1>15. SyncInv'
  BY <1>1, <1>14, HasSame, SyncSame DEF inputs, turn, logs
<1> QED
  BY <1>10, <1>11, <1>12, <1>13, <1>15

\* The request is turned into an ack when closed_replica has got the sequence.
LEMMA OnSynchronizePreserves ==
    ASSUME IInv, NEW m \in messages, OnSynchronize(m)
    PROVE  IInv'
<1> USE DEF IInv
<1> DEFINE n == Msg("SYNCHRONIZE_ACK", m.to, m.from, 0, <<>>)
<1>1. /\ m.type = "SYNCHRONIZE"
      /\ PushRemote(m)
      /\ messages' = (messages \ {m}) \cup {n}
      /\ UNCHANGED <<inputs, sequence_, turn, logs, sent>>
  BY DEF OnSynchronize, Receive
<1>2. m \in Message /\ m.from \in Replica /\ m.to \in Replica
  BY DEF TypeOK, Message
<1>3. n \in Message /\ n.type = "SYNCHRONIZE_ACK" /\ n.from = m.to /\ n.to = m.from
  <2> DEFINE data == <<>>
  <2>1. data \in Seq(Data) /\ 0 \in Nat
    BY Basics
  <2> HIDE DEF data
  <2>2. LET x == Msg("SYNCHRONIZE_ACK", m.to, m.from, 0, data)
        IN  x \in Message /\ x.type = "SYNCHRONIZE_ACK" /\ x.from = m.to /\ x.to = m.from
    BY <1>2, <2>1, MsgFacts, MsgType
  <2> QED
    BY <2>2 DEF data
<1>4. n = Msg("SYNCHRONIZE_ACK", m.to, m.from, 0, <<>>)
  OBVIOUS
<1> HIDE DEF n
<1>5. sequences_other_replicas_' \in [Replica -> Seq([data : Data, from : Replica, index : Nat])]
  BY <1>1, PushRemoteFacts
<1>6. TypeOK'
  BY <1>1, <1>3, <1>5 DEF TypeOK, inputs, turn, logs, sent
<1>7. BatchInv'
  BY <1>1, <1>3, BatchSame
<1>8. TokenInv'
  BY <1>1, <1>3, TokenSame DEF inputs, logs
<1>9. RemoteInv'
  BY <1>1, RemoteSame DEF turn
<1>10. \A s \in Replica : \A d : Has(s, d) => Has(s, d)'
  BY <1>1, PushRemoteKeeps DEF turn, logs
<1>11. SyncInv'
  <2> SUFFICES ASSUME Strong, NEW p \in Replica
               PROVE  (Asked(p) /\ Answered(p) /\ Waiting(p) /\ Logged(p))'
    BY <1>1 DEF SyncInv, Strong, inputs
  <2>1. Asked(p) /\ Answered(p) /\ Waiting(p) /\ Logged(p)
    BY DEF SyncInv
  <2>2. /\ UNCHANGED <<proposal, received_synchronize_ack, pc, local_log_>>
    BY <1>1 DEF turn, logs
  <2> DEFINE s == closed_replica(p)
  <2>3. s \in Replica /\ \A d : Has(s, d) => Has(s, d)'
    BY <1>10, Basics DEF TypeOK
  <2>4. Waiting(p)' /\ Logged(p)'
    BY <2>1, <2>2, <2>3 DEF Waiting, Logged
  <2>5. Asked(p)'
    BY <1>1, <1>3, <2>1, <2>2 DEF Asked
  <2>6. CASE m.from # p
    <3>1. Answered(p)'
      BY <1>1, <1>3, <2>1, <2>2, <2>3, <2>6 DEF Answered
    <3> QED
      BY <2>4, <2>5, <3>1
  \* p's request was the only one, and s has got it now
  <2>7. CASE m.from = p
    <3>1. /\ m = Msg("SYNCHRONIZE", p, s, 0, <<proposal[p]>>)
          /\ proposal[p] # <<>>
          /\ ~ received_synchronize_ack[p]
      BY <1>1, <2>1, <2>7 DEF Asked
    <3>2. m.to = s /\ m.data = <<proposal[p]>>
      BY <3>1, MsgFacts
    <3>3. \A x \in messages : ~ (x.type = "SYNCHRONIZE_ACK" /\ x.to = p)
      BY <1>1, <2>1, <2>7 DEF Answered
    <3>4. \A x \in messages' : ~ (x.type = "SYNCHRONIZE" /\ x.from = p)
      BY <1>1, <1>3, <2>1, <3>1 DEF Asked
    <3>5. Has(s, proposal[p])'
      <4>1. PICK j \in DOMAIN sequences_other_replicas_'[s] :
               sequences_other_replicas_'[s][j].data = proposal[p]
        <5>1. 1 \in DOMAIN m.data /\ m.data[1] = proposal[p]
          BY <3>2
        <5>2. \A i \in DOMAIN m.data :
                 \E j \in DOMAIN sequences_other_replicas_'[m.to] :
                    sequences_other_replicas_'[m.to][j].data = m.data[i]
          <6>1. TypeOK /\ PushRemote(m)
            BY <1>1
          <6> HIDE DEF IInv
          <6> QED
            BY <6>1, PushRemoteFacts, Zenon
        <5> QED
          BY <3>2, <5>1, <5>2
      <4> QED
        BY <2>2, <3>1, <4>1 DEF Has
    <3>6. Answered(p)'
      BY <1>1, <1>4, <2>2, <2>7, <3>1, <3>2, <3>3, <3>4, <3>5 DEF Answered
    <3> QED
      BY <2>4, <2>5, <3>6
  <2> QED
    BY <2>6, <2>7
<1> QED
  BY <1>6, <1>7, <1>8, <1>9, <1>11

\* The ack is turned into the flag.
LEMMA OnSynchronizeAckPreserves ==
    ASSUME IInv, NEW m \in messages, OnSynchronizeAck(m)
    PROVE  IInv'
<1> USE DEF IInv
<1>1. /\ m.type = "SYNCHRONIZE_ACK"
      /\ messages' = messages \ {m}
      /\ received_synchronize_ack' = [received_synchronize_ack EXCEPT ![m.to] = TRUE]
      /\ UNCHANGED <<inputs, sequence_, alternate, pc, remote, proposal,
                     sequences_other_replicas_, logs, sent>>
  BY DEF OnSynchronizeAck, Receive
<1>2. m.to \in Replica
  BY DEF TypeOK, Message
<1>3. received_synchronize_ack' \in [Replica -> BOOLEAN]
  BY <1>1 DEF TypeOK
<1>4. TypeOK'
  BY <1>1, <1>3 DEF TypeOK, inputs, logs, sent
<1>5. BatchInv'
  BY <1>1, BatchSame
<1>6. TokenInv'
  BY <1>1, TokenSame DEF inputs, logs
<1>7. RemoteInv'
  BY <1>1, RemoteSame
<1>8. SyncInv'
  <2> SUFFICES ASSUME Strong, NEW p \in Replica
               PROVE  (Asked(p) /\ Answered(p) /\ Waiting(p) /\ Logged(p))'
    BY <1>1 DEF SyncInv, Strong, inputs
  <2>1. Asked(p) /\ Answered(p) /\ Waiting(p) /\ Logged(p)
    BY DEF SyncInv
  <2> DEFINE s == closed_replica(p)
  <2>2. \A d : Has(s, d) => Has(s, d)'
    BY <1>1, HasSame DEF logs
  <2>3. UNCHANGED <<proposal, pc, local_log_>>
    BY <1>1 DEF logs
  <2>4. Logged(p)'
    BY <2>1, <2>2, <2>3 DEF Logged
  <2>5. CASE m.to # p
    <3>1. received_synchronize_ack'[p] = received_synchronize_ack[p]
      BY <1>1, <2>5 DEF TypeOK
    <3>2. Asked(p)' /\ Waiting(p)'
      BY <1>1, <2>1, <2>2, <2>3, <3>1 DEF Asked, Waiting
    <3>3. Answered(p)'
      BY <1>1, <2>1, <2>2, <2>3, <3>1 DEF Answered
    <3> QED
      BY <2>4, <3>2, <3>3
  <2>6. CASE m.to = p
    <3>1. /\ m = Msg("SYNCHRONIZE_ACK", s, p, 0, <<>>)
          /\ Has(s, proposal[p])
          /\ \A n \in messages : ~ (n.type = "SYNCHRONIZE" /\ n.from = p)
      BY <1>1, <2>1, <2>6 DEF Answered
    <3>2. \A n \in messages' : ~ (n.type = "SYNCHRONIZE_ACK" /\ n.to = p)
      BY <1>1, <2>1, <3>1 DEF Answered
    <3>3. Asked(p)' /\ Answered(p)'
      BY <1>1, <3>1, <3>2 DEF Asked, Answered
    <3>4. Waiting(p)'
      BY <2>1, <2>2, <2>3, <3>1 DEF Waiting
    <3> QED
      BY <2>4, <3>3, <3>4
  <2> QED
    BY <2>5, <2>6
<1> QED
  BY <1>4, <1>5, <1>6, <1>7, <1>8

-----------------------------------------------------------------------------

\* Every step, and stuttering.
LEMMA NextIsInductive == IInv /\ [Next]_vars => IInv'
<1> SUFFICES ASSUME IInv, [Next]_vars PROVE IInv'
  OBVIOUS
<1>1. ASSUME NEW b \in Batch, WriteBatch(b) PROVE IInv'
  BY <1>1, WriteBatchPreserves
<1>2. ASSUME NEW m \in messages, ForwardBatch(m) \/ AppendBatch(m) PROVE IInv'
  BY <1>2, ForwardBatchPreserves, AppendBatchPreserves
<1>3. ASSUME NEW m \in messages, ReceiveMessage(m) PROVE IInv'
  BY <1>3, OnMRTxnsBatchPreserves, OnNewSequencePreserves, OnNewSequenceAckPreserves,
     OnSynchronizePreserves, OnSynchronizeAckPreserves DEF ReceiveMessage
<1>4. ASSUME NEW r \in Replica, LeaderNext(r) PROVE IInv'
  BY <1>4, ProposeLocalPreserves, ProposeStrongPreserves, LogSynchronizedPreserves,
     TakeRemotePreserves, GeneratePreserves, OrderRemotePreserves DEF LeaderNext
<1>5. ASSUME UNCHANGED vars PROVE IInv'
  <2> USE <1>5 DEF vars, IInv
  <2>1. TypeOK'
    BY DEF TypeOK, inputs, turn, logs, sent
  <2>2. BatchInv'
    BY BatchSame
  <2>3. TokenInv'
    BY TokenSame DEF inputs, logs
  <2>4. RemoteInv'
    BY RemoteSame DEF turn
  <2>5. SyncInv'
    BY HasSame, SyncSame DEF inputs, turn, logs
  <2> QED
    BY <2>1, <2>2, <2>3, <2>4, <2>5
<1> QED
  BY <1>1, <1>2, <1>3, <1>4, <1>5 DEF Next

\* The invariant holds throughout.
LEMMA Invariance == Spec => []IInv
<1> QED
  BY InitIsInductive, NextIsInductive, PTL DEF Spec

\* Every variable has its type, for any replicas and batches; in particular the turns stay
\* within Period (alternate in RunLeader()).
THEOREM TypeCorrect == Spec => []TypeOK
<1>1. IInv => TypeOK
  BY DEF IInv
<1> QED
  BY <1>1, Invariance, PTL

\* Leaders that exchange sequences have one message between two of them, or one of them
\* has put the other by: for NEW_SEQUENCE, NEW_SEQUENCE_ACK and new_sequence_todo.
THEOREM OneTokenAlways == Spec => []OneToken
<1>1. IInv => OneToken
  <2> SUFFICES ASSUME IInv, NEW r \in Replica, NEW s \in Others(r)
               PROVE  /\ Cardinality(Exchange(r, s))
                         + (IF s \in new_sequence_todo[r] THEN 1 ELSE 0)
                         = (IF local_log_[r] = <<>> THEN 0 ELSE 1)
                      /\ s \in new_sequence_todo[r]
                         => readers_for_local_log_[r][s] = Len(local_log_[r])
    BY DEF OneToken, Exchange
  <2>1. Token(r, s)
    BY DEF IInv, TokenInv
  <2>2. Cardinality({}) = 0 /\ \A m : Cardinality({m}) = 1
    BY FS_EmptySet, FS_Singleton
  <2>3. CASE Exchange(r, s) = {}
    BY <2>1, <2>2, <2>3 DEF Token
  <2>4. CASE Exchange(r, s) # {}
    <3>1. local_log_[r] # <<>> /\ s \notin new_sequence_todo[r]
      BY <2>1, <2>4 DEF Token
    <3>2. PICK m : Exchange(r, s) = {m}
      BY <2>1, <3>1 DEF Token
    <3>3. Cardinality(Exchange(r, s)) = 1
      BY <2>2, <3>2
    <3>4. s \in new_sequence_todo[r] => readers_for_local_log_[r][s] = Len(local_log_[r])
      BY <3>1
    <3> QED
      BY <3>1, <3>3, <3>4
  <2> QED
    BY <2>3, <2>4
<1> QED
  BY <1>1, Invariance, PTL

\* With strong availability (RunLeaderStrong()) whatever a leader has logged, and thereby
\* sends to all, its closed_replica has got: one ack never serves for two sequences.
THEOREM SynchronizedFirst == Spec => []SynchronizedBeforeLogged
<1>1. IInv => SynchronizedBeforeLogged
  <2> SUFFICES ASSUME IInv, Strong, NEW r \in Replica,
                      NEW e \in ToSet(local_log_[r])
               PROVE  LET s == closed_replica(r)
                      IN  e.data \in {x.data : x \in ToSet(scheduler_[s])} \cup {remote[s].data}
                             \cup {q.data : q \in ToSet(sequences_other_replicas_[s])}
    BY DEF SynchronizedBeforeLogged
  <2>1. PICK i \in DOMAIN local_log_[r] : local_log_[r][i] = e
    BY DEF ToSet
  <2>2. Has(closed_replica(r), e.data)
    BY <2>1 DEF IInv, SyncInv, Logged
  <2> QED
    BY <2>2 DEF Has, ToSet
<1> QED
  BY <1>1, Invariance, PTL

-----------------------------------------------------------------------------
(* FlattenSeq(). *)

\* A set of numbers with 0 and the successors of its elements has them all.
LEMMA NatInd ==
    ASSUME NEW S \in SUBSET Nat, 0 \in S, \A n \in S : n + 1 \in S
    PROVE  S = Nat
<1> SUFFICES ASSUME Nat \ S # {} PROVE FALSE
  OBVIOUS
<1> DEFINE T == Nat \ S
<1>1. \E x \in T : \A y \in T : ~ (<<y, x>> \in OpToRel(<, Nat))
  <2> HIDE DEF T
  <2>1. T # {} /\ T \subseteq Nat
    BY DEF T
  <2> QED
    BY <2>1, NatLessThanWellFounded, WFMin, Zenon
<1>2. PICK x \in T : \A y \in T : ~ (<<y, x>> \in OpToRel(<, Nat))
  BY <1>1
<1>3. x \in Nat /\ x # 0
  OBVIOUS
<1>4. x - 1 \in Nat /\ x - 1 < x /\ (x - 1) + 1 = x
  BY <1>3
<1>5. x - 1 \in S
  <2>1. <<x - 1, x>> \in OpToRel(<, Nat)
    BY <1>3, <1>4 DEF OpToRel
  <2> QED
    BY <1>2, <1>4, <2>1
<1> QED
  BY <1>4, <1>5

\* f[i] is the first i of the sequences ss, one after another, up to the n-th.
Flattens(f, ss, n) == f = [i \in 1..n |-> IF i = 1 THEN ss[i] ELSE f[i - 1] \o ss[i]]

\* FlattenSeq() looks up a function that is chosen by its recursion.
LEMMA FlattenDef ==
    ASSUME NEW ss
    PROVE  FlattenSeq(ss) = IF Len(ss) = 0 THEN ss
                            ELSE (CHOOSE f : Flattens(f, ss, Len(ss)))[Len(ss)]
BY DEF FlattenSeq, Flattens

\* There is such a function,
LEMMA FlattensExists ==
    ASSUME NEW V, NEW ss \in Seq(Seq(V)), NEW m \in Nat, m <= Len(ss)
    PROVE  \E f \in [1..m -> Seq(V)] : Flattens(f, ss, m)
<1> DEFINE S == {n \in Nat : n <= Len(ss) => \E f \in [1..n -> Seq(V)] : Flattens(f, ss, n)}
<1>1. 0 \in S
  <2>1. \A f \in [1..0 -> Seq(V)] : Flattens(f, ss, 0)
    BY DEF Flattens
  <2>2. [i \in 1..0 |-> <<>>] \in [1..0 -> Seq(V)]
    OBVIOUS
  <2> QED
    BY <2>1, <2>2
<1>2. ASSUME NEW n \in S PROVE n + 1 \in S
  <2> SUFFICES ASSUME n + 1 <= Len(ss)
               PROVE  \E f \in [1..(n + 1) -> Seq(V)] : Flattens(f, ss, n + 1)
    OBVIOUS
  <2>1. n \in Nat /\ n <= Len(ss) /\ n + 1 \in 1..Len(ss) /\ Len(ss) \in Nat
    OBVIOUS
  <2>2. PICK f \in [1..n -> Seq(V)] : Flattens(f, ss, n)
    BY <2>1
  <2>3. \A i \in 1..(n + 1) : ss[i] \in Seq(V)
    BY <2>1
  <2> HIDE DEF S
  <2> DEFINE last == IF n = 0 THEN ss[1] ELSE f[n] \o ss[n + 1]
             g    == [i \in 1..(n + 1) |-> IF i = n + 1 THEN last ELSE f[i]]
  <2>4. last \in Seq(V)
    <3>1. CASE n = 0
      BY <2>1, <2>3, <3>1
    <3>2. CASE n # 0
      <4>1. f[n] \in Seq(V) /\ ss[n + 1] \in Seq(V)
        BY <2>1, <2>2, <2>3, <3>2
      <4> QED
        BY <3>2, <4>1, ConcatProperties
    <3> QED
      BY <3>1, <3>2
  <2>5. g \in [1..(n + 1) -> Seq(V)]
    <3>1. \A i \in 1..(n + 1) : i # n + 1 => i \in 1..n
      BY <2>1
    <3> HIDE DEF last
    <3> QED
      BY <2>2, <2>4, <3>1
  <2>6. ASSUME NEW i \in 1..(n + 1) PROVE g[i] = IF i = 1 THEN ss[i] ELSE g[i - 1] \o ss[i]
    <3>1. CASE i # n + 1
      <4>1. i \in 1..n /\ (i # 1 => i - 1 \in 1..n /\ i - 1 # n + 1 /\ i - 1 \in 1..(n + 1))
        BY <2>1, <3>1
      <4>2. f[i] = IF i = 1 THEN ss[i] ELSE f[i - 1] \o ss[i]
        BY <2>2, <4>1 DEF Flattens
      <4> HIDE DEF last
      <4>3. g[i] = f[i] /\ (i # 1 => g[i - 1] = f[i - 1])
        BY <3>1, <4>1
      <4> QED
        BY <4>2, <4>3
    <3>2. CASE i = n + 1
      <4>1. i - 1 = n /\ (i = 1 <=> n = 0) /\ (n # 0 => n \in 1..(n + 1) /\ n # n + 1)
        BY <2>1, <3>2
      <4>2. g[i] = last /\ (n # 0 => g[n] = f[n])
        BY <3>2, <4>1
      <4> QED
        BY <3>2, <4>1, <4>2
    <3> QED
      BY <3>1, <3>2
  <2>7. Flattens(g, ss, n + 1)
    <3>1. g = [i \in 1..(n + 1) |-> g[i]]
      OBVIOUS
    <3> HIDE DEF g
    <3> QED
      BY <2>6, <3>1 DEF Flattens
  <2> HIDE DEF g
  <2> QED
    BY <2>5, <2>7
<1>3. S = Nat
  <2>1. S \in SUBSET Nat
    OBVIOUS
  <2> HIDE DEF S
  <2> QED
    BY <1>1, <1>2, <2>1, NatInd
<1> QED
  BY <1>3

\* Two sequences, or functions, agree up to k.
Agree(ss, tt, k) == \A i \in 1..k : ss[i] = tt[i]

\* and what it gives depends on the sequences before only, so that there is no other.
LEMMA FlattensAgree ==
    ASSUME NEW f, NEW g, NEW ss, NEW tt, NEW n \in Nat, NEW m \in Nat, NEW k \in Nat,
           Flattens(f, ss, n), Flattens(g, tt, m), k <= n, k <= m, Agree(ss, tt, k)
    PROVE  Agree(f, g, k)
<1> DEFINE S == {j \in Nat : j \in 1..k => f[j] = g[j]}
<1>1. 0 \in S
  OBVIOUS
<1>2. ASSUME NEW j \in S PROVE j + 1 \in S
  <2> SUFFICES ASSUME j + 1 \in 1..k PROVE f[j + 1] = g[j + 1]
    OBVIOUS
  <2>1. j \in Nat /\ j + 1 \in 1..n /\ j + 1 \in 1..m /\ (j + 1) - 1 = j
           /\ (j + 1 # 1 => j \in 1..k)
    OBVIOUS
  <2>2. /\ f[j + 1] = IF j + 1 = 1 THEN ss[j + 1] ELSE f[(j + 1) - 1] \o ss[j + 1]
        /\ g[j + 1] = IF j + 1 = 1 THEN tt[j + 1] ELSE g[(j + 1) - 1] \o tt[j + 1]
    BY <2>1 DEF Flattens
  <2>3. ss[j + 1] = tt[j + 1]
    BY <2>1 DEF Agree
  <2> QED
    BY <2>1, <2>2, <2>3
<1>3. S = Nat
  <2>1. S \in SUBSET Nat
    OBVIOUS
  <2> HIDE DEF S
  <2> QED
    BY <1>1, <1>2, <2>1, NatInd
<1> QED
  BY <1>3 DEF Agree

\* The value of FlattenSeq, without the choice of a function.
LEMMA FlattenValue ==
    ASSUME NEW V, NEW ss \in Seq(Seq(V)), Len(ss) # 0
    PROVE  \E f \in [1..Len(ss) -> Seq(V)] : Flattens(f, ss, Len(ss))
              /\ FlattenSeq(ss) = f[Len(ss)]
<1> DEFINE n == Len(ss)
           F == CHOOSE f : Flattens(f, ss, n)
<1>1. n \in Nat \ {0} /\ n \in 1..n
  OBVIOUS
<1>2. FlattenSeq(ss) = F[n]
  BY FlattenDef
<1>3. PICK f \in [1..n -> Seq(V)] : Flattens(f, ss, n)
  <2>1. n <= Len(ss)
    BY <1>1
  <2> HIDE DEF n
  <2> QED
    BY <1>1, <2>1, FlattensExists
<1>4. Flattens(F, ss, n)
  BY <1>3
<1> HIDE DEF F, n
<1>5. F[n] = f[n]
  <2>1. Agree(ss, ss, n) /\ n \in Nat /\ n <= n
    BY <1>1 DEF Agree
  <2>2. Agree(F, f, n)
    BY <1>3, <1>4, <2>1, FlattensAgree
  <2> QED
    BY <1>1, <2>2 DEF Agree
<1> QED
  BY <1>2, <1>3, <1>5 DEF n

\* No sequences.
LEMMA FlattenNothing == FlattenSeq(<<>>) = <<>>
BY FlattenDef

\* A sequence of the same elements.
LEMMA FlattenType ==
    ASSUME NEW V, NEW ss \in Seq(Seq(V))
    PROVE  FlattenSeq(ss) \in Seq(V)
<1>1. CASE Len(ss) = 0
  <2>1. ss = <<>>
    BY <1>1, EmptySeq
  <2> QED
    BY <2>1, FlattenNothing, EmptySeq
<1>2. CASE Len(ss) # 0
  <2>1. Len(ss) \in 1..Len(ss)
    BY <1>2
  <2>2. PICK f \in [1..Len(ss) -> Seq(V)] : FlattenSeq(ss) = f[Len(ss)]
    BY <1>2, FlattenValue
  <2> QED
    BY <2>1, <2>2
<1> QED
  BY <1>1, <1>2

\* One more sequence at the end.
LEMMA FlattenAppend ==
    ASSUME NEW V, NEW ss \in Seq(Seq(V)), NEW t \in Seq(V)
    PROVE  FlattenSeq(Append(ss, t)) = FlattenSeq(ss) \o t
<1> DEFINE n == Len(ss)
           tt == Append(ss, t)
<1>1. /\ n \in Nat /\ tt \in Seq(Seq(V)) /\ Len(tt) = n + 1 /\ tt[n + 1] = t
      /\ \A i \in 1..n : tt[i] = ss[i]
  BY AppendProperties
<1> HIDE DEF tt
<1>2. Len(tt) # 0
  BY <1>1
<1>3. PICK g \in [1..Len(tt) -> Seq(V)] : Flattens(g, tt, Len(tt)) /\ FlattenSeq(tt) = g[Len(tt)]
  BY <1>1, <1>2, FlattenValue
<1>4. Flattens(g, tt, n + 1) /\ FlattenSeq(tt) = g[n + 1] /\ n + 1 \in 1..(n + 1)
         /\ (n + 1) - 1 = n
  BY <1>1, <1>3
<1>5. g[n + 1] = IF n + 1 = 1 THEN tt[n + 1] ELSE g[n] \o tt[n + 1]
  BY <1>4 DEF Flattens
<1>6. CASE n = 0
  <2>1. ss = <<>>
    BY <1>6, EmptySeq
  <2>2. <<>> \o t = t
    BY ConcatEmptySeq
  <2> QED
    BY <1>1, <1>4, <1>5, <1>6, <2>1, <2>2, FlattenNothing DEF tt
<1>7. CASE n # 0
  <2>1. PICK f \in [1..n -> Seq(V)] : Flattens(f, ss, n) /\ FlattenSeq(ss) = f[n]
    BY <1>7, FlattenValue
  <2>2. n \in 1..n /\ n <= n + 1
    BY <1>1, <1>7
  <2>3. f[n] = g[n]
    <3>1. Agree(ss, tt, n) /\ n \in Nat /\ n + 1 \in Nat /\ n <= n
      BY <1>1 DEF Agree
    <3> HIDE DEF n
    <3>2. Agree(f, g, n)
      BY <1>4, <2>1, <2>2, <3>1, FlattensAgree
    <3> QED
      BY <2>2, <3>2 DEF Agree
  <2>4. n + 1 # 1
    BY <1>1, <1>7
  <2> QED
    BY <1>1, <1>4, <1>5, <2>1, <2>3, <2>4 DEF tt
<1> QED
  BY <1>6, <1>7

\* The last element is taken off.
LEMMA LastOff ==
    ASSUME NEW V, NEW s \in Seq(V), NEW n \in Nat, Len(s) = n + 1
    PROVE  /\ SubSeq(s, 1, n) \in Seq(V) /\ Len(SubSeq(s, 1, n)) = n
           /\ s[n + 1] \in V
           /\ s = SubSeq(s, 1, n) \o <<s[n + 1]>>
<1>1. n + 1 \in 1..Len(s) /\ 1 \in 1..Len(s) /\ n + 1 \in 1..Len(s) /\ (n + 1) - 1 = n
  OBVIOUS
<1>2. SubSeq(s, 1, n + 1) = SubSeq(s, 1, (n + 1) - 1) \o <<s[n + 1]>>
  BY <1>1, SubSeqRecursiveSecond
<1>3. SubSeq(s, 1, n + 1) = s
  BY SubSeqFull
<1>4. SubSeq(s, 1, n) \in Seq(V) /\ Len(SubSeq(s, 1, n)) = n
  BY <1>1
<1> QED
  BY <1>1, <1>2, <1>3, <1>4

\* Three sequences one after another.
LEMMA ConcatAssoc ==
    ASSUME NEW V, NEW a \in Seq(V), NEW b \in Seq(V), NEW c \in Seq(V)
    PROVE  (a \o b) \o c = a \o (b \o c)
OBVIOUS

\* Two lists of sequences one after another.
LEMMA FlattenConcat ==
    ASSUME NEW V, NEW ss \in Seq(Seq(V)), NEW tt \in Seq(Seq(V))
    PROVE  FlattenSeq(ss \o tt) = FlattenSeq(ss) \o FlattenSeq(tt)
<1> DEFINE S == {n \in Nat : \A uu \in Seq(Seq(V)) : Len(uu) = n =>
                    FlattenSeq(ss \o uu) = FlattenSeq(ss) \o FlattenSeq(uu)}
<1>0. FlattenSeq(ss) \in Seq(V)
  BY FlattenType
<1>1. 0 \in S
  <2> SUFFICES ASSUME NEW uu \in Seq(Seq(V)), Len(uu) = 0
               PROVE  FlattenSeq(ss \o uu) = FlattenSeq(ss) \o FlattenSeq(uu)
    OBVIOUS
  <2>1. uu = <<>>
    BY EmptySeq
  <2>2. ss \o <<>> = ss
    BY ConcatEmptySeq
  <2>3. FlattenSeq(ss) \o <<>> = FlattenSeq(ss)
    BY <1>0, ConcatEmptySeq
  <2> QED
    BY <2>1, <2>2, <2>3, FlattenNothing
<1>2. ASSUME NEW n \in S PROVE n + 1 \in S
  <2> SUFFICES ASSUME NEW uu \in Seq(Seq(V)), Len(uu) = n + 1
               PROVE  FlattenSeq(ss \o uu) = FlattenSeq(ss) \o FlattenSeq(uu)
    OBVIOUS
  <2>1. n \in Nat
    OBVIOUS
  <2>2. PICK vv \in Seq(Seq(V)), t \in Seq(V) : Len(vv) = n /\ uu = vv \o <<t>>
    <3> DEFINE W == Seq(V)
    <3>1. uu \in Seq(W)
      OBVIOUS
    <3> HIDE DEF W, S
    <3>2. /\ SubSeq(uu, 1, n) \in Seq(W) /\ Len(SubSeq(uu, 1, n)) = n
          /\ uu[n + 1] \in W
          /\ uu = SubSeq(uu, 1, n) \o <<uu[n + 1]>>
      BY <2>1, <3>1, LastOff
    <3> QED
      BY <3>2 DEF W
  <2>3. FlattenSeq(ss \o vv) = FlattenSeq(ss) \o FlattenSeq(vv)
    BY <2>2
  <2> HIDE DEF S
  <2>4. uu = Append(vv, t) /\ <<t>> \in Seq(Seq(V))
    <3>1. Append(vv, t) = vv \o <<t>>
      BY AppendIsConcat
    <3>2. <<t>> \in Seq(Seq(V))
      OBVIOUS
    <3> QED
      BY <2>2, <3>1, <3>2
  <2>5. ss \o uu = Append(ss \o vv, t) /\ ss \o vv \in Seq(Seq(V))
    <3>1. ss \o vv \in Seq(Seq(V))
      BY ConcatProperties
    <3>2. Append(ss \o vv, t) = (ss \o vv) \o <<t>>
      BY <3>1, AppendIsConcat
    <3>3. (ss \o vv) \o <<t>> = ss \o (vv \o <<t>>)
      BY <2>4, ConcatAssociative
    <3> QED
      BY <2>2, <3>1, <3>2, <3>3
  <2>6. FlattenSeq(ss \o uu) = FlattenSeq(ss \o vv) \o t
    BY <2>5, FlattenAppend
  <2>7. FlattenSeq(uu) = FlattenSeq(vv) \o t
    BY <2>4, FlattenAppend
  <2>8. FlattenSeq(vv) \in Seq(V)
    BY FlattenType
  <2>9. (FlattenSeq(ss) \o FlattenSeq(vv)) \o t = FlattenSeq(ss) \o (FlattenSeq(vv) \o t)
    <3>1. PICK x \in Seq(V), y \in Seq(V) : x = FlattenSeq(ss) /\ y = FlattenSeq(vv)
      BY <1>0, <2>8
    <3>2. (x \o y) \o t = x \o (y \o t)
      OBVIOUS
    <3> QED
      BY <3>1, <3>2
  <2> QED
    BY <2>3, <2>6, <2>7, <2>9
<1>3. S = Nat
  <2>1. S \in SUBSET Nat
    OBVIOUS
  <2> HIDE DEF S
  <2> QED
    BY <1>1, <1>2, <2>1, NatInd
<1>4. Len(tt) \in S
  BY <1>3
<1> QED
  BY <1>4

\* One sequence.
LEMMA FlattenOne ==
    ASSUME NEW V, NEW t \in Seq(V)
    PROVE  FlattenSeq(<<t>>) = t
<1>1. <<>> \in Seq(Seq(V)) /\ <<>> \o t = t
  BY EmptySeq, ConcatEmptySeq
<1>2. Append(<<>>, t) = <<t>>
  OBVIOUS
<1>3. FlattenSeq(Append(<<>>, t)) = FlattenSeq(<<>>) \o t
  BY <1>1, FlattenAppend
<1> QED
  BY <1>1, <1>2, <1>3, FlattenNothing

-----------------------------------------------------------------------------
(* Keep(). *)

\* What Keep() takes of each batch.
Picks(ids, S) == [i \in DOMAIN ids |-> IF ids[i] \in S THEN <<ids[i]>> ELSE <<>>]

\* Keep() joins the picks.
LEMMA KeepDef ==
    ASSUME NEW ids, NEW S
    PROVE  Keep(ids, S) = FlattenSeq(Picks(ids, S))
BY DEF Keep, Picks

\* Its type and its length; what it takes of two sequences one after another.
LEMMA PicksFacts ==
    ASSUME NEW V, NEW ids \in Seq(V), NEW jds \in Seq(V), NEW S
    PROVE  /\ Picks(ids, S) \in Seq(Seq(V))
           /\ Picks(ids \o jds, S) = Picks(ids, S) \o Picks(jds, S)
<1> DEFINE P(x) == Picks(x, S)
           W == Seq(V)
<1>1. \A x \in Seq(V) : /\ P(x) \in Seq(W) /\ Len(P(x)) = Len(x)
                         /\ \A i \in 1..Len(x) : P(x)[i] = IF x[i] \in S THEN <<x[i]>> ELSE <<>>
  <2> SUFFICES ASSUME NEW x \in Seq(V)
               PROVE  /\ P(x) \in Seq(W) /\ Len(P(x)) = Len(x)
                      /\ \A i \in 1..Len(x) : P(x)[i] = IF x[i] \in S THEN <<x[i]>> ELSE <<>>
    OBVIOUS
  <2>1. \A i \in 1..Len(x) : (IF x[i] \in S THEN <<x[i]>> ELSE <<>>) \in W
    OBVIOUS
  <2>2. P(x) = [i \in 1..Len(x) |-> IF x[i] \in S THEN <<x[i]>> ELSE <<>>]
    BY DEF Picks
  <2>3. Len(x) \in Nat
    OBVIOUS
  <2> HIDE DEF P, W
  <2>4. P(x) \in [1..Len(x) -> W]
    BY <2>1, <2>2
  <2>5. P(x) \in Seq(W) /\ Len(P(x)) = Len(x)
    BY <2>3, <2>4
  <2> QED
    BY <2>2, <2>5
<1>2. PICK x \in Seq(V), y \in Seq(V) : x = ids /\ y = jds
  OBVIOUS
<1>3. /\ x \o y \in Seq(V) /\ Len(x \o y) = Len(x) + Len(y)
      /\ \A i \in 1..(Len(x) + Len(y)) : (x \o y)[i] = IF i <= Len(x) THEN x[i] ELSE y[i - Len(x)]
      /\ Len(x) \in Nat /\ Len(y) \in Nat
  BY ConcatProperties
<1> HIDE DEF P, W
<1>4. PICK px \in Seq(W), py \in Seq(W) : px = P(x) /\ py = P(y)
  BY <1>1
<1>5. /\ px \o py \in Seq(W) /\ Len(px \o py) = Len(px) + Len(py)
      /\ \A i \in 1..(Len(px) + Len(py)) :
            (px \o py)[i] = IF i <= Len(px) THEN px[i] ELSE py[i - Len(px)]
  BY ConcatProperties
<1>6. Len(px) = Len(x) /\ Len(py) = Len(y) /\ Len(P(x \o y)) = Len(x) + Len(y)
         /\ P(x \o y) \in Seq(W)
  BY <1>1, <1>3, <1>4
<1>7. ASSUME NEW i \in 1..(Len(x) + Len(y))
      PROVE  P(x \o y)[i] = (px \o py)[i]
  <2>1. P(x \o y)[i] = IF (x \o y)[i] \in S THEN <<(x \o y)[i]>> ELSE <<>>
    BY <1>1, <1>3
  <2>2. CASE i <= Len(x)
    <3>1. i \in 1..Len(x)
      BY <1>3, <2>2
    <3>2. (px \o py)[i] = px[i] /\ (x \o y)[i] = x[i]
      BY <1>3, <1>5, <1>6, <2>2
    <3>3. px[i] = IF x[i] \in S THEN <<x[i]>> ELSE <<>>
      BY <1>1, <1>4, <3>1
    <3> QED
      BY <2>1, <3>2, <3>3
  <2>3. CASE ~ (i <= Len(x))
    <3>1. i - Len(x) \in 1..Len(y)
      BY <1>3, <2>3
    <3>2. (px \o py)[i] = py[i - Len(x)] /\ (x \o y)[i] = y[i - Len(x)]
      BY <1>3, <1>5, <1>6, <2>3
    <3>3. py[i - Len(x)] = IF y[i - Len(x)] \in S THEN <<y[i - Len(x)]>> ELSE <<>>
      BY <1>1, <1>4, <3>1
    <3> QED
      BY <2>1, <3>2, <3>3
  <2> QED
    BY <2>2, <2>3
<1>8. PICK p \in Seq(W), q \in Seq(W) : p = P(x \o y) /\ q = px \o py
  BY <1>5, <1>6
<1>9. Len(p) = Len(q) /\ \A i \in 1..Len(p) : p[i] = q[i]
  BY <1>5, <1>6, <1>7, <1>8
<1>10. p = q
  BY <1>9, SeqEqual
<1>11. P(x \o y) = P(x) \o P(y)
  BY <1>4, <1>8, <1>10
<1>12. P(ids) \in Seq(Seq(V))
  BY <1>1, <1>2 DEF W
<1> QED
  BY <1>2, <1>11, <1>12 DEF P

\* Of two sequences one after another,
LEMMA KeepConcat ==
    ASSUME NEW V, NEW ids \in Seq(V), NEW jds \in Seq(V), NEW S
    PROVE  Keep(ids \o jds, S) = Keep(ids, S) \o Keep(jds, S)
<1>1. /\ Picks(ids, S) \in Seq(Seq(V)) /\ Picks(jds, S) \in Seq(Seq(V))
      /\ Picks(ids \o jds, S) = Picks(ids, S) \o Picks(jds, S)
  BY PicksFacts
<1>2. PICK p \in Seq(Seq(V)), q \in Seq(Seq(V)) : p = Picks(ids, S) /\ q = Picks(jds, S)
  BY <1>1
<1>3. FlattenSeq(p \o q) = FlattenSeq(p) \o FlattenSeq(q)
  BY FlattenConcat
<1> QED
  BY <1>1, <1>2, <1>3, KeepDef

\* of one batch, and of none.
LEMMA KeepOne ==
    ASSUME NEW x, NEW S
    PROVE  /\ Keep(<<x>>, S) = IF x \in S THEN <<x>> ELSE <<>>
           /\ Keep(<<>>, S) = <<>>
<1>1. PICK y : y = IF x \in S THEN <<x>> ELSE <<>>
  OBVIOUS
<1>2. Picks(<<x>>, S) = <<y>>
  BY <1>1 DEF Picks
<1>3. y \in Seq({x})
  <2>1. <<x>> \in Seq({x}) /\ <<>> \in Seq({x})
    OBVIOUS
  <2> QED
    BY <1>1, <2>1
<1>4. FlattenSeq(<<y>>) = y
  BY <1>3, FlattenOne
<1>5. Keep(<<x>>, S) = y
  BY <1>2, <1>4, KeepDef
<1>6. Picks(<<>>, S) = <<>>
  BY DEF Picks
<1> QED
  BY <1>1, <1>5, <1>6, KeepDef, FlattenNothing

\* Its type.
LEMMA KeepType ==
    ASSUME NEW V, NEW ids \in Seq(V), NEW S
    PROVE  Keep(ids, S) \in Seq(V)
BY PicksFacts, FlattenType, KeepDef

\* All of the batches, or none of them.
LEMMA KeepAllOrNone ==
    ASSUME NEW T, NEW ids \in Seq(T), NEW S
    PROVE  /\ T \subseteq S => Keep(ids, S) = ids
           /\ T \cap S = {} => Keep(ids, S) = <<>>
<1> DEFINE N == {n \in Nat : \A x \in Seq(T) : Len(x) = n =>
                    /\ T \subseteq S => Keep(x, S) = x
                    /\ T \cap S = {} => Keep(x, S) = <<>>}
<1>1. 0 \in N
  <2> SUFFICES ASSUME NEW x \in Seq(T), Len(x) = 0 PROVE Keep(x, S) = x /\ Keep(x, S) = <<>>
    OBVIOUS
  <2>1. x = <<>>
    BY EmptySeq
  <2> QED
    BY <2>1, KeepOne
<1>2. ASSUME NEW n \in N PROVE n + 1 \in N
  <2> SUFFICES ASSUME NEW x \in Seq(T), Len(x) = n + 1
               PROVE  /\ T \subseteq S => Keep(x, S) = x
                      /\ T \cap S = {} => Keep(x, S) = <<>>
    OBVIOUS
  <2>0. /\ n \in Nat
        /\ \A z \in Seq(T) : Len(z) = n =>
              /\ T \subseteq S => Keep(z, S) = z
              /\ T \cap S = {} => Keep(z, S) = <<>>
    BY Zenon
  <2> HIDE DEF N
  <2>1. PICK y \in Seq(T), e \in T : Len(y) = n /\ x = y \o <<e>>
    <3>1. /\ SubSeq(x, 1, n) \in Seq(T) /\ Len(SubSeq(x, 1, n)) = n
          /\ x[n + 1] \in T
          /\ x = SubSeq(x, 1, n) \o <<x[n + 1]>>
      BY <2>0, LastOff
    <3> QED
      BY <3>1, Zenon
  <2>2. /\ T \subseteq S => Keep(y, S) = y
        /\ T \cap S = {} => Keep(y, S) = <<>>
    BY <2>0, <2>1
  <2>3. Keep(x, S) = Keep(y, S) \o Keep(<<e>>, S)
    <3>1. <<e>> \in Seq(T)
      OBVIOUS
    <3>2. PICK z \in Seq(T) : z = <<e>>
      BY <3>1
    <3>3. Keep(y \o z, S) = Keep(y, S) \o Keep(z, S)
      BY KeepConcat
    <3> QED
      BY <2>1, <3>2, <3>3
  <2>4. Keep(<<e>>, S) = IF e \in S THEN <<e>> ELSE <<>>
    BY KeepOne
  <2>5. <<>> \o <<>> = <<>>
    OBVIOUS
  <2>6. CASE T \subseteq S
    <3>1. e \in S
      BY <2>6
    <3>2. T \cap S # {}
      BY <3>1
    <3> QED
      BY <2>1, <2>2, <2>3, <2>4, <2>6, <3>1, <3>2
  <2>7. CASE T \cap S = {}
    <3>1. e \notin S
      BY <2>7
    <3> QED
      BY <2>2, <2>3, <2>4, <2>5, <2>7, <3>1
  <2> QED
    BY <2>6, <2>7
<1>3. N = Nat
  <2>1. N \in SUBSET Nat
    OBVIOUS
  <2> HIDE DEF N
  <2> QED
    BY <1>1, <1>2, <2>1, NatInd
<1>4. Len(ids) \in N
  BY <1>3
<1> QED
  BY <1>4

-----------------------------------------------------------------------------
(* The batches of a list of sequences. *)

Contents(seq) == [i \in DOMAIN seq |-> seq[i].data]

Joined(seq) == FlattenSeq(Contents(seq))

\* Their type, and what two lists one after another, one sequence and none have.
LEMMA JoinedFacts ==
    ASSUME NEW V, NEW E, \A e \in E : e.data \in Seq(V)
    PROVE  /\ \A x \in Seq(E) : Contents(x) \in Seq(Seq(V)) /\ Joined(x) \in Seq(V)
           /\ \A x, y \in Seq(E) : Joined(x \o y) = Joined(x) \o Joined(y)
           /\ \A e \in E : Joined(<<e>>) = e.data
           /\ Joined(<<>>) = <<>>
<1> DEFINE W == Seq(V)
<1>1. ASSUME NEW x \in Seq(E)
      PROVE  /\ Contents(x) \in Seq(W) /\ Len(Contents(x)) = Len(x)
             /\ \A i \in 1..Len(x) : Contents(x)[i] = x[i].data
  <2>1. DOMAIN x = 1..Len(x) /\ Len(x) \in Nat /\ \A i \in 1..Len(x) : x[i] \in E
    OBVIOUS
  <2>2. Contents(x) = [i \in 1..Len(x) |-> x[i].data]
    BY <2>1 DEF Contents
  <2>3. \A i \in 1..Len(x) : x[i].data \in W
    BY <2>1
  <2> HIDE DEF W
  <2>4. Contents(x) \in [1..Len(x) -> W]
    BY <2>2, <2>3
  <2>5. Contents(x) \in Seq(W) /\ Len(Contents(x)) = Len(x)
    BY <2>1, <2>4
  <2> QED
    BY <2>2, <2>5
<1>2. ASSUME NEW x \in Seq(E)
      PROVE  Contents(x) \in Seq(Seq(V)) /\ Joined(x) \in Seq(V)
  <2>1. Contents(x) \in Seq(Seq(V))
    BY <1>1
  <2> QED
    BY <2>1, FlattenType DEF Joined
<1>3. ASSUME NEW x \in Seq(E), NEW y \in Seq(E)
      PROVE  Joined(x \o y) = Joined(x) \o Joined(y)
  <2>1. /\ x \o y \in Seq(E) /\ Len(x \o y) = Len(x) + Len(y)
        /\ \A i \in 1..(Len(x) + Len(y)) :
              (x \o y)[i] = IF i <= Len(x) THEN x[i] ELSE y[i - Len(x)]
        /\ Len(x) \in Nat /\ Len(y) \in Nat
    BY ConcatProperties
  <2> HIDE DEF W
  <2>2. PICK p \in Seq(W), q \in Seq(W), z \in Seq(W) :
           p = Contents(x) /\ q = Contents(y) /\ z = Contents(x \o y)
    BY <1>1, <2>1
  <2>3. /\ p \o q \in Seq(W) /\ Len(p \o q) = Len(p) + Len(q)
        /\ \A i \in 1..(Len(p) + Len(q)) :
              (p \o q)[i] = IF i <= Len(p) THEN p[i] ELSE q[i - Len(p)]
    BY ConcatProperties
  <2>4. Len(p) = Len(x) /\ Len(q) = Len(y) /\ Len(z) = Len(x) + Len(y)
    BY <1>1, <2>1, <2>2
  <2>5. ASSUME NEW i \in 1..(Len(x) + Len(y)) PROVE z[i] = (p \o q)[i]
    <3>1. z[i] = (x \o y)[i].data
      BY <1>1, <2>1, <2>2
    <3>2. CASE i <= Len(x)
      <4>1. i \in 1..Len(x)
        BY <2>1, <3>2
      <4>2. p[i] = x[i].data
        BY <1>1, <2>2, <4>1
      <4> QED
        BY <2>1, <2>3, <2>4, <3>1, <3>2, <4>2
    <3>3. CASE ~ (i <= Len(x))
      <4>1. i - Len(x) \in 1..Len(y)
        BY <2>1, <3>3
      <4>2. q[i - Len(x)] = y[i - Len(x)].data
        BY <1>1, <2>2, <4>1
      <4> QED
        BY <2>1, <2>3, <2>4, <3>1, <3>3, <4>2
    <3> QED
      BY <3>2, <3>3
  <2>6. PICK u \in Seq(W) : u = p \o q
    BY <2>3
  <2>7. z = u
    <3>1. Len(z) = Len(u) /\ \A i \in 1..Len(z) : z[i] = u[i]
      BY <2>3, <2>4, <2>5, <2>6
    <3> QED
      BY <3>1, SeqEqual
  <2>8. FlattenSeq(p \o q) = FlattenSeq(p) \o FlattenSeq(q)
    <3>1. p \in Seq(Seq(V)) /\ q \in Seq(Seq(V))
      BY DEF W
    <3> QED
      BY <3>1, FlattenConcat
  <2> QED
    BY <2>2, <2>6, <2>7, <2>8 DEF Joined
<1>4. ASSUME NEW e \in E PROVE Joined(<<e>>) = e.data
  <2>1. Contents(<<e>>) = <<e.data>>
    BY DEF Contents
  <2> QED
    BY <2>1, FlattenOne DEF Joined
<1>5. Joined(<<>>) = <<>>
  <2>1. Contents(<<>>) = <<>>
    BY DEF Contents
  <2> QED
    BY <2>1, FlattenNothing DEF Joined
<1> QED
  BY <1>2, <1>3, <1>4, <1>5

-----------------------------------------------------------------------------
(* One sequence begins with another, and what is generated for batches. *)

Begins(V, s, t) == \E u \in Seq(V) : t = s \o u

\* In the terms of IsPrefix().
LEMMA BeginsIsPrefix ==
    ASSUME NEW V, NEW s \in Seq(V), NEW t \in Seq(V), Begins(V, s, t)
    PROVE  IsPrefix(s, t)
<1>1. PICK u \in Seq(V) : t = s \o u
  BY DEF Begins
<1>2. /\ Len(t) = Len(s) + Len(u) /\ Len(s) \in Nat /\ Len(u) \in Nat
      /\ \A i \in 1..Len(s) : (s \o u)[i] = s[i]
  BY <1>1
<1>3. Len(s) <= Len(t)
  BY <1>2
<1>4. SubSeq(t, 1, Len(s)) = s
  <2> DEFINE v == SubSeq(t, 1, Len(s))
  <2>1. v \in Seq(V) /\ Len(v) = Len(s) /\ \A i \in 1..Len(s) : v[i] = t[i]
    BY <1>2
  <2> HIDE DEF v
  <2>2. \A i \in 1..Len(v) : v[i] = s[i]
    BY <1>1, <1>2, <2>1
  <2>3. v = s
    BY <2>1, <2>2, SeqEqual
  <2> QED
    BY <2>3 DEF v
<1>5. SubSeq(s, 1, Len(s)) = s
  BY SubSeqFull
<1> QED
  BY <1>3, <1>4, <1>5 DEF IsPrefix

\* A sequence begins with itself, and with what its beginning begins with.
LEMMA BeginsOrder ==
    ASSUME NEW V, NEW s \in Seq(V)
    PROVE  /\ Begins(V, s, s)
           /\ \A t, u \in Seq(V) : Begins(V, s, t) /\ Begins(V, t, u) => Begins(V, s, u)
<1>1. Begins(V, s, s)
  <2>1. <<>> \in Seq(V) /\ s \o <<>> = s
    BY ConcatEmptySeq
  <2> QED
    BY <2>1 DEF Begins
<1>2. ASSUME NEW t \in Seq(V), NEW u \in Seq(V), Begins(V, s, t), Begins(V, t, u)
      PROVE  Begins(V, s, u)
  <2>1. PICK a \in Seq(V), b \in Seq(V) : t = s \o a /\ u = t \o b
    BY <1>2 DEF Begins
  <2>2. (s \o a) \o b = s \o (a \o b)
    OBVIOUS
  <2>3. a \o b \in Seq(V)
    OBVIOUS
  <2> QED
    BY <2>1, <2>2, <2>3 DEF Begins
<1> QED
  BY <1>1, <1>2

\* It begins also with the beginning of what comes next.
LEMMA BeginsLonger ==
    ASSUME NEW V, NEW a \in Seq(V), NEW u \in Seq(V), NEW v \in Seq(V), NEW c \in Seq(V)
    PROVE  Begins(V, a \o u, (a \o (u \o v)) \o c)
<1>1. (a \o (u \o v)) \o c = (a \o u) \o (v \o c)
  OBVIOUS
<1>2. v \o c \in Seq(V)
  OBVIOUS
<1> QED
  BY <1>1, <1>2 DEF Begins

\* The batches kept of it begin with those kept of the beginning.
LEMMA BeginsKeep ==
    ASSUME NEW V, NEW s \in Seq(V), NEW t \in Seq(V), Begins(V, s, t), NEW S
    PROVE  Begins(V, Keep(s, S), Keep(t, S))
<1>1. PICK u \in Seq(V) : t = s \o u
  BY DEF Begins
<1>2. Keep(s \o u, S) = Keep(s, S) \o Keep(u, S)
  BY KeepConcat
<1>3. Keep(u, S) \in Seq(V)
  BY KeepType
<1> QED
  BY <1>1, <1>2, <1>3 DEF Begins

\* Keep() leaves batches of S.
LEMMA KeepIn ==
    ASSUME NEW V, NEW ids \in Seq(V), NEW S
    PROVE  Keep(ids, S) \in Seq(S)
<1> DEFINE W == Seq(S)
<1>1. DOMAIN ids = 1..Len(ids) /\ Len(ids) \in Nat
  OBVIOUS
<1>2. \A i \in 1..Len(ids) : (IF ids[i] \in S THEN <<ids[i]>> ELSE <<>>) \in W
  OBVIOUS
<1>3. Picks(ids, S) = [i \in 1..Len(ids) |-> IF ids[i] \in S THEN <<ids[i]>> ELSE <<>>]
  BY <1>1 DEF Picks
<1> HIDE DEF W
<1>4. Picks(ids, S) \in Seq(W)
  BY <1>1, <1>2, <1>3
<1>5. Picks(ids, S) \in Seq(Seq(S))
  BY <1>4 DEF W
<1> QED
  BY <1>5, FlattenType, KeepDef

\* The batches that r generates for the batches ids.
Gen(r, ids) == [i \in DOMAIN ids |-> Generated(r, ids[i])]

\* One for each, and for two sequences one after another.
LEMMA GenFacts ==
    ASSUME NEW r \in Replica
    PROVE  /\ \A x \in Seq(Batch) : Gen(r, x) \in Data
           /\ \A x, y \in Seq(Batch) : Gen(r, x \o y) = Gen(r, x) \o Gen(r, y)
           /\ \A b \in Batch : Gen(r, <<b>>) = <<Generated(r, b)>>
           /\ Gen(r, <<>>) = <<>>
<1>1. \A b \in Batch : Generated(r, b) \in BatchId
  BY DEF Generated, BatchId
<1>2. ASSUME NEW x \in Seq(Batch)
      PROVE  /\ Gen(r, x) \in Seq(BatchId) /\ Len(Gen(r, x)) = Len(x)
             /\ \A i \in 1..Len(x) : Gen(r, x)[i] = Generated(r, x[i])
  <2>1. DOMAIN x = 1..Len(x) /\ Len(x) \in Nat /\ \A i \in 1..Len(x) : x[i] \in Batch
    OBVIOUS
  <2>2. Gen(r, x) = [i \in 1..Len(x) |-> Generated(r, x[i])]
    BY <2>1 DEF Gen
  <2>3. \A i \in 1..Len(x) : Generated(r, x[i]) \in BatchId
    BY <1>1, <2>1
  <2>4. Gen(r, x) \in [1..Len(x) -> BatchId]
    BY <2>2, <2>3
  <2> QED
    BY <2>1, <2>2, <2>4
<1>3. ASSUME NEW x \in Seq(Batch), NEW y \in Seq(Batch)
      PROVE  Gen(r, x \o y) = Gen(r, x) \o Gen(r, y)
  <2>1. /\ x \o y \in Seq(Batch) /\ Len(x \o y) = Len(x) + Len(y)
        /\ \A i \in 1..(Len(x) + Len(y)) :
              (x \o y)[i] = IF i <= Len(x) THEN x[i] ELSE y[i - Len(x)]
        /\ Len(x) \in Nat /\ Len(y) \in Nat
    BY ConcatProperties
  <2>2. PICK p \in Seq(BatchId), q \in Seq(BatchId), z \in Seq(BatchId) :
           p = Gen(r, x) /\ q = Gen(r, y) /\ z = Gen(r, x \o y)
    BY <1>2, <2>1
  <2>3. /\ p \o q \in Seq(BatchId) /\ Len(p \o q) = Len(p) + Len(q)
        /\ \A i \in 1..(Len(p) + Len(q)) :
              (p \o q)[i] = IF i <= Len(p) THEN p[i] ELSE q[i - Len(p)]
    BY ConcatProperties
  <2>4. Len(p) = Len(x) /\ Len(q) = Len(y) /\ Len(z) = Len(x) + Len(y)
    BY <1>2, <2>1, <2>2
  <2>5. ASSUME NEW i \in 1..(Len(x) + Len(y)) PROVE z[i] = (p \o q)[i]
    <3>1. z[i] = Generated(r, (x \o y)[i])
      BY <1>2, <2>1, <2>2
    <3>2. CASE i <= Len(x)
      <4>1. i \in 1..Len(x)
        BY <2>1, <3>2
      <4>2. p[i] = Generated(r, x[i])
        BY <1>2, <2>2, <4>1
      <4> QED
        BY <2>1, <2>3, <2>4, <3>1, <3>2, <4>2
    <3>3. CASE ~ (i <= Len(x))
      <4>1. i - Len(x) \in 1..Len(y)
        BY <2>1, <3>3
      <4>2. q[i - Len(x)] = Generated(r, y[i - Len(x)])
        BY <1>2, <2>2, <4>1
      <4> QED
        BY <2>1, <2>3, <2>4, <3>1, <3>3, <4>2
    <3> QED
      BY <3>2, <3>3
  <2>6. PICK u \in Seq(BatchId) : u = p \o q
    BY <2>3
  <2>7. Len(z) = Len(u) /\ \A i \in 1..Len(z) : z[i] = u[i]
    BY <2>3, <2>4, <2>5, <2>6
  <2>8. z = u
    BY <2>7, SeqEqual
  <2> QED
    BY <2>2, <2>6, <2>8
<1>4. \A b \in Batch : Gen(r, <<b>>) = <<Generated(r, b)>>
  BY DEF Gen
<1>5. Gen(r, <<>>) = <<>>
  BY DEF Gen
<1> QED
  BY <1>2, <1>3, <1>4, <1>5 DEF Data

-----------------------------------------------------------------------------
(* The batches of a replica, and those of its local log. *)

\* The batches of s.
Of(s) == {id \in BatchId : OriginOf(id) = s}

\* What r has generated is its own, and no sequencer's.
LEMMA OfFacts ==
    ASSUME NEW s
    PROVE  /\ Of(s) \subseteq BatchId
           /\ Seq(Of(s)) \subseteq Data
           /\ \A p : p # s => Of(s) \cap Of(p) = {}
           /\ \A d \in Seq(Of(s)) : Keep(d, Of(s)) = d
           /\ \A d \in Seq(Of(s)) : \A p : p # s => Keep(d, Of(p)) = <<>>
           /\ <<>> \in Seq(Of(s))
           /\ \A c, d \in Seq(Of(s)) : c \o d \in Seq(Of(s))
           /\ s \in Replica => \A b \in Batch :
                 Generated(s, b) \in Of(s) /\ Generated(s, b) \notin Batch
<1>1. Of(s) \subseteq BatchId
  BY DEF Of
<1>2. \A p : p # s => Of(s) \cap Of(p) = {}
  BY DEF Of
<1>3. \A d \in Seq(Of(s)) : Keep(d, Of(s)) = d
  BY KeepAllOrNone
<1>4. \A d \in Seq(Of(s)) : \A p : p # s => Keep(d, Of(p)) = <<>>
  BY <1>2, KeepAllOrNone
<1>5. ASSUME s \in Replica, NEW b \in Batch
      PROVE  Generated(s, b) \notin Batch /\ Generated(s, b) \in Of(s)
  <2>1. Generated(s, b) \in Replica \X Batch
    BY <1>5 DEF Generated
  <2>2. Generated(s, b) \notin Batch
    BY <2>1, GeoLogAssumption
  <2>3. Generated(s, b)[1] = s
    BY DEF Generated
  <2> QED
    BY <2>1, <2>2, <2>3 DEF Of, OriginOf, BatchId
<1>6. <<>> \in Seq(Of(s)) /\ \A c, d \in Seq(Of(s)) : c \o d \in Seq(Of(s))
  BY ConcatProperties
<1>7. Seq(Of(s)) \subseteq Data
  BY <1>1 DEF Data
<1> QED
  BY <1>1, <1>2, <1>3, <1>4, <1>5, <1>6, <1>7

\* The batches of the first n sequences of a log.
UpTo(log, n) == Joined(SubSeq(log, 1, n))

\* A log is its beginning and the rest; a new entry comes at the end.
LEMMA UpToFacts ==
    ASSUME NEW log \in Seq(Entry)
    PROVE  /\ Joined(log) \in Data
           /\ UpTo(log, Len(log)) = Joined(log)
           /\ UpTo(log, 0) = <<>>
           /\ \A n \in 0..Len(log) :
                 /\ UpTo(log, n) \in Data
                 /\ Joined(SubSeq(log, n + 1, Len(log))) \in Data
                 /\ UpTo(log, n) \o Joined(SubSeq(log, n + 1, Len(log))) = Joined(log)
           /\ \A e \in Entry :
                 /\ Joined(Append(log, e)) = Joined(log) \o e.data
                 /\ \A n \in 0..Len(log) : UpTo(Append(log, e), n) = UpTo(log, n)
<1>1. /\ \A x \in Seq(Entry) : Joined(x) \in Data
      /\ \A x, y \in Seq(Entry) : Joined(x \o y) = Joined(x) \o Joined(y)
      /\ \A e \in Entry : Joined(<<e>>) = e.data
      /\ Joined(<<>>) = <<>>
  <2>1. \A e \in Entry : e.data \in Seq(BatchId)
    BY DEF Entry, Data
  <2>2. /\ \A x \in Seq(Entry) : Contents(x) \in Seq(Seq(BatchId)) /\ Joined(x) \in Seq(BatchId)
        /\ \A x, y \in Seq(Entry) : Joined(x \o y) = Joined(x) \o Joined(y)
        /\ \A e \in Entry : Joined(<<e>>) = e.data
        /\ Joined(<<>>) = <<>>
    BY <2>1, JoinedFacts, Zenon
  <2> QED
    BY <2>2 DEF Data
<1>2. UpTo(log, Len(log)) = Joined(log)
  BY SubSeqFull DEF UpTo
<1>3. UpTo(log, 0) = <<>>
  <2>1. SubSeq(log, 1, 0) = <<>>
    BY SubSeqEmpty
  <2> QED
    BY <1>1, <2>1 DEF UpTo
<1>4. ASSUME NEW n \in 0..Len(log)
      PROVE  /\ SubSeq(log, 1, n) \in Seq(Entry) /\ SubSeq(log, n + 1, Len(log)) \in Seq(Entry)
             /\ SubSeq(log, 1, n) \o SubSeq(log, n + 1, Len(log)) = log
  <2>1. /\ n \in Int /\ n + 1 \in Int /\ 1 \in Int /\ Len(log) \in Int
        /\ \A i \in 1..n : log[i] \in Entry
        /\ \A i \in (n + 1)..Len(log) : log[i] \in Entry
    OBVIOUS
  <2>2. SubSeq(log, 1, n) \in Seq(Entry) /\ SubSeq(log, n + 1, Len(log)) \in Seq(Entry)
    BY <2>1, SubSeqProperties
  <2>3. SubSeq(log, 1, n) \o SubSeq(log, n + 1, Len(log)) = SubSeq(log, 1, Len(log))
    <3>1. 1 \in 1..(Len(log) + 1) /\ n \in (1 - 1)..Len(log) /\ Len(log) \in n..Len(log)
      OBVIOUS
    <3> QED
      BY <3>1, ConcatAdjacentSubSeq
  <2> QED
    BY <2>2, <2>3, SubSeqFull
<1>5. ASSUME NEW n \in 0..Len(log)
      PROVE  /\ UpTo(log, n) \in Data
             /\ Joined(SubSeq(log, n + 1, Len(log))) \in Data
             /\ UpTo(log, n) \o Joined(SubSeq(log, n + 1, Len(log))) = Joined(log)
  <2>1. PICK a \in Seq(Entry), b \in Seq(Entry) :
           a = SubSeq(log, 1, n) /\ b = SubSeq(log, n + 1, Len(log)) /\ a \o b = log
    BY <1>4
  <2> QED
    BY <1>1, <2>1 DEF UpTo
<1>6. ASSUME NEW e \in Entry
      PROVE  Joined(Append(log, e)) = Joined(log) \o e.data
  <2>1. PICK x \in Seq(Entry) : x = <<e>>
    <3>1. <<e>> \in Seq(Entry)
      OBVIOUS
    <3> QED
      BY <3>1, Zenon
  <2>2. Append(log, e) = log \o x
    BY <2>1, AppendIsConcat
  <2> QED
    BY <1>1, <2>1, <2>2
<1>7. ASSUME NEW e \in Entry, NEW n \in 0..Len(log)
      PROVE  UpTo(Append(log, e), n) = UpTo(log, n)
  <2>1. PICK l \in Seq(Entry) : l = Append(log, e)
    BY AppendProperties
  <2>2. Len(l) = Len(log) + 1 /\ \A i \in 1..Len(log) : l[i] = log[i]
    BY <2>1, AppendProperties
  <2>3. PICK a \in Seq(Entry), b \in Seq(Entry) :
           /\ a = SubSeq(log, 1, n) /\ Len(a) = n /\ \A i \in 1..n : a[i] = log[i]
           /\ b = SubSeq(l, 1, n) /\ Len(b) = n /\ \A i \in 1..n : b[i] = l[i]
    <3>1. SubSeq(log, 1, n) \in Seq(Entry) /\ Len(SubSeq(log, 1, n)) = n
             /\ \A i \in 1..n : SubSeq(log, 1, n)[i] = log[i]
      OBVIOUS
    <3>2. SubSeq(l, 1, n) \in Seq(Entry) /\ Len(SubSeq(l, 1, n)) = n
             /\ \A i \in 1..n : SubSeq(l, 1, n)[i] = l[i]
      BY <2>2
    <3> QED
      BY <3>1, <3>2, Zenon
  <2>4. \A i \in 1..Len(a) : a[i] = b[i]
    BY <2>2, <2>3
  <2>5. a = b
    BY <2>3, <2>4, SeqEqual
  <2> QED
    BY <2>1, <2>3, <2>5 DEF UpTo
<1> QED
  BY <1>1, <1>2, <1>3, <1>5, <1>6, <1>7

-----------------------------------------------------------------------------
(* Whose batches are where. *)

OwnEntry(r) == [version : Nat, data : Seq(Of(r))]

\* What r waits with, proposes and logs are its own batches.
Local(r) ==
    /\ sequence_[r] \in Seq(Of(r))
    /\ proposal[r] \in Seq(Of(r))
    /\ local_log_[r] \in Seq(OwnEntry(r))
    /\ ~ Strong => proposal[r] = <<>>

LocalInv == \A r \in Replica : Local(r)

\* What it gets from others is theirs.
Foreign(r) == {q \in Sequence : q.from # r /\ q.data \in Seq(Of(q.from)) /\ q.index = 0}

Remote(r) ==
    /\ sequences_other_replicas_[r] \in Seq(Foreign(r))
    /\ remote[r].data \in Seq(Of(remote[r].from))
    /\ remote[r].data # <<>> => remote[r].from # r
    /\ remote[r].index <= Len(ToGenerate(r))

ForeignInv == \A r \in Replica : Remote(r)

\* Batches travel from their home; sequences are exchanged with those that get them.
Sent(m) ==
    /\ m.type \in {"TXN_BATCH", "BATCH_SUBMIT", "NEW_SEQUENCE", "SYNCHRONIZE"}
       => m.data \in Seq(Seq(Of(m.from)))
    /\ m.type = "BATCH_SUBMIT" => m.from = m.to
    /\ m.type = "NEW_SEQUENCE" => m.to \in Others(m.from)
    /\ m.type = "NEW_SEQUENCE_ACK" => m.from \in Others(m.to)
    /\ m.type = "SYNCHRONIZE" => Strong /\ m.to = closed_replica(m.from)

SentInv ==
    /\ \A m \in messages : Sent(m)
    /\ \A r \in Replica : new_sequence_todo[r] \subseteq Others(r)

HomeInv == LocalInv /\ ForeignInv /\ SentInv

\* A step that does not touch them keeps them.
LEMMA LocalSame ==
    ASSUME LocalInv, UNCHANGED <<type_, sequence_, proposal, local_log_>>
    PROVE  LocalInv'
<1>1. \A r : Local(r)' <=> Local(r)
  BY DEF Local, Strong
<1> QED
  BY <1>1 DEF LocalInv

\* So it is with what it gets from others,
LEMMA ForeignSame ==
    ASSUME ForeignInv, UNCHANGED <<sequences_other_replicas_, remote>>
    PROVE  ForeignInv'
<1>1. \A r : Remote(r)' <=> Remote(r)
  BY DEF Remote, ToGenerate
<1> QED
  BY <1>1 DEF ForeignInv

\* and with what is sent, if the messages that are new are such.
LEMMA SentSame ==
    ASSUME SentInv, UNCHANGED <<type_, new_sequence_todo>>,
           \A m \in messages' : m \in messages \/ Sent(m)
    PROVE  SentInv'
<1>1. \A r : Others(r)' = Others(r)
  BY DEF Others, Strong
<1>2. \A m : Sent(m)' <=> Sent(m)
  BY <1>1 DEF Sent, Strong
<1> QED
  BY <1>1, <1>2 DEF SentInv

\* One batch, as the sequencers and SYNCHRONIZE send it.
LEMMA OneSequence ==
    ASSUME NEW s, NEW d \in Seq(Of(s))
    PROVE  <<d>> \in Seq(Seq(Of(s)))
<1> DEFINE W == Seq(Of(s))
<1>1. d \in W
  OBVIOUS
<1> HIDE DEF W
<1>2. <<d>> \in Seq(W)
  BY <1>1
<1> QED
  BY <1>2 DEF W

\* The sequences r sends are its own.
LEMMA NewSequenceOwn ==
    ASSUME TypeOK, NEW r \in Replica, NEW s \in Others(r), NEW log \in Seq(OwnEntry(r)), log # <<>>
    PROVE  /\ Sent(NewSequence(r, s, log))
           /\ NewSequence(r, s, log).data = Contents(Unsent(r, s, log))
<1> DEFINE u == Unsent(r, s, log)
           v == log[Len(log)].version
           n == NewSequence(r, s, log)
           E == OwnEntry(r)
<1>1. s \in Replica /\ readers_for_local_log_[r][s] \in Nat
  BY DEF Others, TypeOK
<1>2. u \in Seq(E)
  <2>1. \A i \in (readers_for_local_log_[r][s] + 1)..Len(log) : i \in 1..Len(log)
    BY <1>1
  <2>2. \A i \in (readers_for_local_log_[r][s] + 1)..Len(log) : log[i] \in E
    BY <2>1
  <2>3. readers_for_local_log_[r][s] + 1 \in Int /\ Len(log) \in Int
    BY <1>1
  <2> HIDE DEF E
  <2> QED
    BY <2>2, <2>3, SubSeqProperties DEF Unsent
<1>3. Contents(u) \in Seq(Seq(Of(r)))
  <2>1. \A e \in E : e.data \in Seq(Of(r))
    BY DEF OwnEntry
  <2> HIDE DEF E, u
  <2> QED
    BY <1>2, <2>1, JoinedFacts, Zenon
<1>4. n = Msg("NEW_SEQUENCE", r, s, v, Contents(u))
  BY DEF NewSequence, Contents
<1> HIDE DEF u, v, n
<1>5. n.type = "NEW_SEQUENCE" /\ n.from = r /\ n.to = s /\ n.data = Contents(u)
  BY <1>4, MsgFacts
<1>6. Sent(n)
  BY <1>3, <1>5 DEF Sent
<1> QED
  BY <1>5, <1>6 DEF n, u

\* One more own sequence in r's log.
LEMMA LongerOwn ==
    ASSUME LocalInv, NEW r \in Replica, NEW d \in Seq(Of(r)), NEW v \in Nat
    PROVE  Longer(r, d, v) \in Seq(OwnEntry(r))
<1> DEFINE e == [version |-> v, data |-> d]
<1>1. e \in OwnEntry(r) /\ local_log_[r] \in Seq(OwnEntry(r))
  BY DEF OwnEntry, LocalInv, Local
<1> HIDE DEF e
<1>2. Append(local_log_[r], e) \in Seq(OwnEntry(r))
  BY <1>1, AppendProperties
<1> QED
  BY <1>2 DEF Longer, e

\* They are sent to those that get them, when they are logged.
LEMMA LogLocalKeepsSent ==
    ASSUME TypeOK, LocalInv, SentInv, NEW r \in Replica, NEW d \in Seq(Of(r)), NEW lv \in Nat,
           NEW gv \in Nat, LogLocal(r, d, lv, gv), UNCHANGED type_
    PROVE  SentInv'
<1> DEFINE log == Longer(r, d, lv)
<1>1. d \in Data
  BY OfFacts
<1>2. /\ log # <<>>
      /\ messages' = messages \cup {NewSequence(r, s, log) : s \in Targets(r)}
      /\ new_sequence_todo' = [new_sequence_todo EXCEPT
            ![r] = IF local_log_[r] = <<>> THEN @ ELSE {}]
  BY <1>1, LogLocalFacts
<1>3. log \in Seq(OwnEntry(r))
  BY LongerOwn
<1> HIDE DEF log
<1>4. Targets(r) \subseteq Others(r)
  BY DEF Targets, SentInv
<1>5. \A s \in Targets(r) : Sent(NewSequence(r, s, log))
  BY <1>2, <1>3, <1>4, NewSequenceOwn
<1>6. \A p : Others(p)' = Others(p)
  BY DEF Others, Strong
<1>7. \A m : Sent(m)' <=> Sent(m)
  BY <1>6 DEF Sent, Strong
<1>8. \A m \in messages' : Sent(m)'
  BY <1>2, <1>5, <1>7 DEF SentInv
<1>9. \A p \in Replica : new_sequence_todo'[p] \subseteq Others(p)
  <2>1. \A p \in Replica : new_sequence_todo'[p] \subseteq new_sequence_todo[p]
    BY <1>2 DEF TypeOK
  <2> QED
    BY <2>1 DEF SentInv
<1> QED
  BY <1>6, <1>8, <1>9 DEF SentInv

\* What arrives from another replica, with what was there.
LEMMA PushRemoteForeign ==
    ASSUME TypeOK, ForeignInv, NEW m \in messages, Sent(m), m.from # m.to,
           m.type \in {"NEW_SEQUENCE", "SYNCHRONIZE"}, PushRemote(m), UNCHANGED remote
    PROVE  /\ ForeignInv'
           /\ \E t \in Seq(Foreign(m.to)) :
                 /\ sequences_other_replicas_' = [sequences_other_replicas_ EXCEPT
                       ![m.to] = sequences_other_replicas_[m.to] \o t]
                 /\ Contents(t) = m.data
<1> DEFINE t == [i \in DOMAIN m.data |-> [data |-> m.data[i], from |-> m.from, index |-> 0]]
           q == sequences_other_replicas_[m.to]
           r == m.to
           W == Seq(Of(m.from))
<1>1. m.to \in Replica /\ m.from \in Replica
  BY DEF TypeOK, Message
<1>2. m.data \in Seq(W)
  BY DEF Sent
<1>3. q \in Seq(Foreign(r))
  BY <1>1 DEF ForeignInv, Remote
<1>4. t \in Seq(Foreign(r)) /\ Contents(t) = m.data
  <2> DEFINE x == m.data
  <2> HIDE DEF W
  <2>1. x \in Seq(W) /\ DOMAIN x = 1..Len(x) /\ Len(x) \in Nat /\ \A i \in 1..Len(x) : x[i] \in W
    BY <1>2
  <2> HIDE DEF x
  <2>2. \A i \in 1..Len(x) : [data |-> x[i], from |-> m.from, index |-> 0] \in Foreign(r)
    <3>1. W \subseteq Data
      BY OfFacts DEF W
    <3> QED
      BY <1>1, <2>1, <3>1 DEF Foreign, Sequence, W
  <2>3. t = [i \in 1..Len(x) |-> [data |-> x[i], from |-> m.from, index |-> 0]]
    BY <2>1 DEF x
  <2> HIDE DEF t
  <2>4. t \in Seq(Foreign(r)) /\ DOMAIN t = 1..Len(x)
    BY <2>1, <2>2, <2>3
  <2>5. \A i \in 1..Len(x) : t[i].data = x[i]
    BY <2>3
  <2>6. Contents(t) = [i \in 1..Len(x) |-> x[i]]
    BY <2>4, <2>5 DEF Contents
  <2>7. Contents(t) = x
    BY <2>1, <2>6
  <2> QED
    BY <2>4, <2>7 DEF x
<1>5. sequences_other_replicas_' = [sequences_other_replicas_ EXCEPT ![r] = q \o t]
  BY DEF PushRemote
<1> HIDE DEF t, q, r, W
<1>6. q \o t \in Seq(Foreign(r))
  BY <1>3, <1>4, ConcatProperties
<1>7. ForeignInv'
  <2> SUFFICES ASSUME NEW p \in Replica PROVE Remote(p)'
    BY DEF ForeignInv
  <2>1. Remote(p) /\ ToGenerate(p)' = ToGenerate(p)
    BY DEF ForeignInv, ToGenerate
  <2>2. sequences_other_replicas_'[p] = IF p = r THEN q \o t ELSE sequences_other_replicas_[p]
    BY <1>5 DEF TypeOK
  <2>3. sequences_other_replicas_'[p] \in Seq(Foreign(p))
    BY <1>6, <2>1, <2>2 DEF Remote
  <2> QED
    BY <2>1, <2>3 DEF Remote
<1> QED
  BY <1>4, <1>5, <1>7 DEF q, r

-----------------------------------------------------------------------------

\* At first there is no batch.
LEMMA InitHome == Init => HomeInv
<1> SUFFICES ASSUME Init PROVE HomeInv
  OBVIOUS
<1> USE DEF Init
<1>1. \A S : <<>> \in Seq(S)
  OBVIOUS
<1>2. LocalInv
  BY <1>1 DEF LocalInv, Local
<1>3. ForeignInv
  <2>1. Nothing.data = <<>> /\ Nothing.from = 0 /\ Nothing.index = 0
    BY DEF Nothing
  <2> SUFFICES ASSUME NEW r \in Replica PROVE Remote(r)
    BY DEF ForeignInv
  <2>2. ToGenerate(r) = <<>> /\ Len(<<>>) = 0
    BY <2>1 DEF ToGenerate
  <2>3. remote[r].data = <<>> /\ remote[r].from = 0 /\ remote[r].index = 0
    BY <2>1
  <2>4. remote[r].data \in Seq(Of(remote[r].from))
    BY <1>1, <2>3
  <2>5. remote[r].index <= Len(ToGenerate(r))
    BY <2>2, <2>3
  <2>6. sequences_other_replicas_[r] \in Seq(Foreign(r))
    BY <1>1
  <2> QED
    BY <2>3, <2>4, <2>5, <2>6 DEF Remote
<1>4. SentInv
  BY DEF SentInv
<1> QED
  BY <1>2, <1>3, <1>4 DEF HomeInv

\* The sequencers send batches of their replica.
LEMMA WriteBatchHome ==
    ASSUME IInv, HomeInv, NEW b \in Batch, WriteBatch(b)
    PROVE  HomeInv'
<1> USE DEF HomeInv
<1>1. UNCHANGED <<type_, sequence_, turn, sequences_other_replicas_, logs, sent>>
  BY DEF WriteBatch
<1>2. messages' = messages \cup
         {Msg("TXN_BATCH", Home[b], r, 0, <<<<b>>>>) :
             r \in {x \in Replica : x = Home[b] \/ Home[b] = 0}}
  BY DEF WriteBatch
<1>3. <<<<b>>>> \in Seq(Seq(Of(Home[b])))
  <2>1. b \in Of(Home[b])
    BY DEF Of, OriginOf, BatchId
  <2>2. <<b>> \in Seq(Of(Home[b]))
    BY <2>1
  <2> QED
    BY <2>2, OneSequence
<1>4. ASSUME NEW r PROVE Sent(Msg("TXN_BATCH", Home[b], r, 0, <<<<b>>>>))
  <2> DEFINE n == Msg("TXN_BATCH", Home[b], r, 0, <<<<b>>>>)
  <2>1. n.type = "TXN_BATCH" /\ n.from = Home[b] /\ n.data = <<<<b>>>>
    BY MsgFacts
  <2> HIDE DEF n
  <2>2. Sent(n)
    BY <1>3, <2>1 DEF Sent
  <2> QED
    BY <2>2 DEF n
<1>5. \A m \in messages' : m \in messages \/ Sent(m)
  BY <1>2, <1>4
<1>6. LocalInv'
  BY <1>1, LocalSame DEF turn, logs
<1>7. ForeignInv'
  BY <1>1, ForeignSame DEF turn
<1>8. SentInv'
  BY <1>1, <1>5, SentSame DEF sent
<1> QED
  BY <1>6, <1>7, <1>8

\* A central machine passes on a batch of its own replica to the local leader.
LEMMA ForwardBatchHome ==
    ASSUME IInv, HomeInv, NEW m \in messages, ForwardBatch(m)
    PROVE  HomeInv'
<1> USE DEF HomeInv
<1> DEFINE n == Msg(IF m.from = m.to THEN "BATCH_SUBMIT" ELSE "MR_TXNS_BATCH",
                    m.to, m.to, 0, m.data)
<1>1. /\ UNCHANGED <<inputs, sequence_, turn, sequences_other_replicas_, logs, sent>>
      /\ m.type = "TXN_BATCH"
      /\ messages' = (messages \ {m}) \cup {n}
  BY DEF ForwardBatch
<1>2. /\ n.type = IF m.from = m.to THEN "BATCH_SUBMIT" ELSE "MR_TXNS_BATCH"
      /\ n.from = m.to /\ n.to = m.to /\ n.data = m.data
  BY MsgFacts
<1> HIDE DEF n
<1>3. Sent(m)
  BY DEF SentInv
<1>4. Sent(n)
  BY <1>1, <1>2, <1>3 DEF Sent
<1>5. LocalInv'
  BY <1>1, LocalSame DEF inputs, turn, logs
<1>6. ForeignInv'
  BY <1>1, ForeignSame DEF turn
<1>7. SentInv'
  BY <1>1, <1>4, SentSame DEF inputs, sent
<1> QED
  BY <1>5, <1>6, <1>7

\* BATCH_SUBMIT comes from the own replica.
LEMMA AppendBatchHome ==
    ASSUME IInv, HomeInv, NEW m \in messages, AppendBatch(m)
    PROVE  HomeInv'
<1> USE DEF HomeInv
<1>1. /\ UNCHANGED <<inputs, turn, sequences_other_replicas_, logs, sent>>
      /\ m.type = "BATCH_SUBMIT"
      /\ messages' = messages \ {m}
      /\ sequence_' = [sequence_ EXCEPT ![m.to] = @ \o m.data[1]]
  BY DEF AppendBatch
<1>2. m.data[1] \in Seq(Of(m.to))
  <2>1. m.data \in Seq(Seq(Of(m.to)))
    BY <1>1 DEF SentInv, Sent
  <2>2. PICK b \in Batch : m.data = <<<<b>>>>
    BY <1>1 DEF IInv, BatchInv
  <2> DEFINE W == Seq(Of(m.to))
  <2>3. m.data \in Seq(W) /\ 1 \in DOMAIN m.data
    BY <2>1, <2>2
  <2> HIDE DEF W
  <2>4. m.data[1] \in W
    BY <2>3
  <2> QED
    BY <2>4 DEF W
<1>3. LocalInv'
  <2> SUFFICES ASSUME NEW r \in Replica PROVE Local(r)'
    BY DEF LocalInv
  <2>1. Local(r) /\ UNCHANGED <<type_, proposal, local_log_>>
    BY <1>1 DEF LocalInv, inputs, turn, logs
  <2>2. sequence_'[r] = IF r = m.to THEN sequence_[r] \o m.data[1] ELSE sequence_[r]
    BY <1>1 DEF IInv, TypeOK
  <2>3. sequence_'[r] \in Seq(Of(r))
    BY <1>2, <2>1, <2>2, OfFacts DEF Local
  <2> QED
    BY <2>1, <2>3 DEF Local, Strong
<1>4. ForeignInv'
  BY <1>1, ForeignSame DEF turn
<1>5. SentInv'
  BY <1>1, SentSame DEF inputs, sent
<1> QED
  BY <1>3, <1>4, <1>5

\* What waited is logged and sent.
LEMMA ProposeLocalHome ==
    ASSUME IInv, HomeInv, NEW r \in Replica, ProposeLocal(r)
    PROVE  HomeInv'
<1> USE DEF HomeInv
<1> DEFINE d  == sequence_[r]
           lv == local_next_version[r] + 1
           gv == global_next_version[r] + 1
<1>1. /\ sequence_' = [sequence_ EXCEPT ![r] = <<>>]
      /\ LogLocal(r, d, lv, gv)
      /\ UNCHANGED <<inputs, remote, proposal, sequences_other_replicas_>>
  BY DEF ProposeLocal
<1>2. d \in Seq(Of(r)) /\ d \in Data /\ lv \in Nat /\ gv \in Nat
  BY DEF LocalInv, Local, IInv, TypeOK
<1>3. UNCHANGED type_ /\ TypeOK
  BY <1>1 DEF inputs, IInv
<1> HIDE DEF d, lv, gv
<1>4. SentInv'
  BY <1>1, <1>2, <1>3, LogLocalKeepsSent
<1>5. ForeignInv'
  BY <1>1, ForeignSame
<1>6. local_log_' = [local_log_ EXCEPT ![r] = Longer(r, d, lv)]
  BY <1>1, <1>2, <1>3, LogLocalFacts
<1>7. Longer(r, d, lv) \in Seq(OwnEntry(r))
  BY <1>2, LongerOwn
<1>8. LocalInv'
  <2> SUFFICES ASSUME NEW p \in Replica PROVE Local(p)'
    BY DEF LocalInv
  <2>1. Local(p) /\ UNCHANGED <<type_, proposal>>
    BY <1>1, <1>3 DEF LocalInv
  <2>2. sequence_'[p] \in Seq(Of(p))
    BY <1>1, <1>3, <2>1, OfFacts DEF Local, TypeOK
  <2>3. local_log_'[p] \in Seq(OwnEntry(p))
    BY <1>3, <1>6, <1>7, <2>1 DEF Local, TypeOK
  <2> QED
    BY <2>1, <2>2, <2>3 DEF Local, Strong
<1> QED
  BY <1>4, <1>5, <1>8

\* What waited is proposed and goes to closed_replica.
LEMMA ProposeStrongHome ==
    ASSUME IInv, HomeInv, NEW r \in Replica, ProposeStrong(r)
    PROVE  HomeInv'
<1> USE DEF HomeInv
<1> DEFINE d == sequence_[r]
           n == Msg("SYNCHRONIZE", r, closed_replica(r), 0, <<d>>)
<1>1. /\ Strong
      /\ sequence_' = [sequence_ EXCEPT ![r] = <<>>]
      /\ messages' = messages \cup {n}
      /\ proposal' = [proposal EXCEPT ![r] = d]
      /\ UNCHANGED <<inputs, remote, sequences_other_replicas_, local_log_, sent>>
  BY DEF ProposeStrong
<1>2. d \in Seq(Of(r)) /\ TypeOK
  BY DEF LocalInv, Local, IInv
<1> HIDE DEF d
<1>3. Sent(n)
  <2> DEFINE data == <<d>>
  <2>1. data \in Seq(Seq(Of(r)))
    BY <1>2, OneSequence
  <2> HIDE DEF data
  <2>2. LET x == Msg("SYNCHRONIZE", r, closed_replica(r), 0, data)
        IN  x.type = "SYNCHRONIZE" /\ x.from = r /\ x.to = closed_replica(r) /\ x.data = data
    BY MsgFacts
  <2>3. Sent(Msg("SYNCHRONIZE", r, closed_replica(r), 0, data))
    BY <1>1, <2>1, <2>2 DEF Sent
  <2> QED
    BY <2>3 DEF data
<1> HIDE DEF n
<1>4. SentInv'
  BY <1>1, <1>3, SentSame DEF inputs, sent
<1>5. ForeignInv'
  BY <1>1, ForeignSame
<1>6. LocalInv'
  <2> SUFFICES ASSUME NEW p \in Replica PROVE Local(p)'
    BY DEF LocalInv
  <2>1. Local(p) /\ UNCHANGED <<type_, local_log_>>
    BY <1>1 DEF LocalInv, inputs
  <2>2. sequence_'[p] \in Seq(Of(p))
    BY <1>1, <1>2, <2>1, OfFacts DEF Local, TypeOK
  <2>3. proposal'[p] \in Seq(Of(p))
    BY <1>1, <1>2, <2>1 DEF Local, TypeOK
  <2> QED
    BY <1>1, <2>1, <2>2, <2>3 DEF Local, Strong
<1> QED
  BY <1>4, <1>5, <1>6

\* What was proposed is logged and sent.
LEMMA LogSynchronizedHome ==
    ASSUME IInv, HomeInv, NEW r \in Replica, LogSynchronized(r)
    PROVE  HomeInv'
<1> USE DEF HomeInv
<1> DEFINE d  == proposal[r]
           lv == local_next_version[r]
           gv == global_next_version[r]
<1>1. /\ proposal' = [proposal EXCEPT ![r] = <<>>]
      /\ LogLocal(r, d, lv, gv)
      /\ UNCHANGED <<inputs, remote, sequence_, sequences_other_replicas_>>
  BY DEF LogSynchronized
<1>2. d \in Seq(Of(r)) /\ d \in Data /\ lv \in Nat /\ gv \in Nat
  BY DEF LocalInv, Local, IInv, TypeOK
<1>3. UNCHANGED type_ /\ TypeOK
  BY <1>1 DEF inputs, IInv
<1> HIDE DEF d, lv, gv
<1>4. SentInv'
  BY <1>1, <1>2, <1>3, LogLocalKeepsSent
<1>5. ForeignInv'
  BY <1>1, ForeignSame
<1>6. local_log_' = [local_log_ EXCEPT ![r] = Longer(r, d, lv)]
  BY <1>1, <1>2, <1>3, LogLocalFacts
<1>7. Longer(r, d, lv) \in Seq(OwnEntry(r))
  BY <1>2, LongerOwn
<1>8. LocalInv'
  <2> SUFFICES ASSUME NEW p \in Replica PROVE Local(p)'
    BY DEF LocalInv
  <2>1. Local(p) /\ UNCHANGED <<type_, sequence_>>
    BY <1>1, <1>3 DEF LocalInv
  <2>2. proposal'[p] = IF p = r THEN <<>> ELSE proposal[p]
    BY <1>1, <1>3 DEF TypeOK
  <2>3. local_log_'[p] \in Seq(OwnEntry(p))
    BY <1>3, <1>6, <1>7, <2>1 DEF Local, TypeOK
  <2> QED
    BY <2>1, <2>2, <2>3, OfFacts DEF Local, Strong
<1> QED
  BY <1>4, <1>5, <1>8

\* The head of the queue comes from another replica.
LEMMA TakeRemoteHome ==
    ASSUME IInv, HomeInv, NEW r \in Replica, TakeRemote(r)
    PROVE  HomeInv'
<1> USE DEF HomeInv
<1> DEFINE q == sequences_other_replicas_[r]
<1>1. /\ q # <<>>
      /\ remote' = [remote EXCEPT ![r] = Head(q)]
      /\ sequences_other_replicas_' = [sequences_other_replicas_ EXCEPT ![r] = Tail(q)]
      /\ UNCHANGED <<inputs, messages, sequence_, proposal, logs, sent>>
  BY DEF TakeRemote
<1>2. q \in Seq(Foreign(r))
  BY DEF ForeignInv, Remote
<1>3. Head(q) \in Foreign(r) /\ Tail(q) \in Seq(Foreign(r))
  BY <1>1, <1>2, HeadTailProperties
<1> HIDE DEF q
<1>4. LocalInv'
  BY <1>1, LocalSame DEF inputs, logs
<1>5. SentInv'
  BY <1>1, SentSame DEF inputs, sent
<1>6. ForeignInv'
  <2> SUFFICES ASSUME NEW p \in Replica PROVE Remote(p)'
    BY DEF ForeignInv
  <2>1. Remote(p)
    BY DEF ForeignInv
  <2>2. CASE p # r
    <3>1. /\ remote'[p] = remote[p]
          /\ sequences_other_replicas_'[p] = sequences_other_replicas_[p]
      BY <1>1, <2>2 DEF IInv, TypeOK
    <3>2. ToGenerate(p)' = ToGenerate(p)
      BY <3>1 DEF ToGenerate
    <3> QED
      BY <2>1, <3>1, <3>2 DEF Remote
  <2>3. CASE p = r
    <3>1. remote'[r] = Head(q) /\ sequences_other_replicas_'[r] = Tail(q)
      BY <1>1 DEF IInv, TypeOK
    <3>2. /\ remote'[r].from # r /\ remote'[r].data \in Seq(Of(remote'[r].from))
          /\ remote'[r].index = 0 /\ remote'[r].data \in Data
      BY <1>3, <3>1 DEF Foreign, Sequence
    <3>3. ToGenerate(r)' \in Data
      <4>1. \/ ToGenerate(r)' = remote'[r].data
            \/ ToGenerate(r)' = <<>>
        BY DEF ToGenerate
      <4> QED
        BY <3>2, <4>1, Basics
    <3>4. Len(ToGenerate(r)') >= 0
      BY <3>3, Basics
    <3> QED
      BY <1>3, <2>3, <3>1, <3>2, <3>4 DEF Remote
  <2> QED
    BY <2>2, <2>3
<1> QED
  BY <1>4, <1>5, <1>6

\* What r generates is its own; it goes on with the sequence being handled.
LEMMA GenerateHome ==
    ASSUME IInv, HomeInv, NEW r \in Replica, Generate(r)
    PROVE  HomeInv'
<1> USE DEF HomeInv
<1> DEFINE b == NextToGenerate(r)
<1>1. /\ Generating(r)
      /\ b \in mr_txn_batches_[r]
      /\ sequence_' = [sequence_ EXCEPT
            ![r] = IF r \in Involved[b] THEN Append(@, Generated(r, b)) ELSE @]
      /\ remote' = [remote EXCEPT ![r].index = @ + 1]
      /\ UNCHANGED <<inputs, messages, proposal, sequences_other_replicas_, logs, sent>>
  BY DEF Generate
<1>2. b \in Batch /\ TypeOK
  BY <1>1 DEF IInv, TypeOK
<1> HIDE DEF b
<1>3. LocalInv'
  <2> SUFFICES ASSUME NEW p \in Replica PROVE Local(p)'
    BY DEF LocalInv
  <2>1. Local(p) /\ UNCHANGED <<type_, proposal, local_log_>>
    BY <1>1 DEF LocalInv, inputs, logs
  <2>2. Generated(r, b) \in Of(r)
    BY <1>2, OfFacts
  <2>3. p = r => Append(sequence_[p], Generated(r, b)) \in Seq(Of(p))
    BY <2>1, <2>2, AppendProperties DEF Local
  <2>4. \/ sequence_'[p] = sequence_[p]
        \/ p = r /\ sequence_'[p] = Append(sequence_[p], Generated(r, b))
    BY <1>1, <1>2 DEF TypeOK
  <2>5. sequence_'[p] \in Seq(Of(p))
    BY <2>1, <2>3, <2>4 DEF Local
  <2> QED
    BY <2>1, <2>5 DEF Local, Strong
<1>4. SentInv'
  BY <1>1, SentSame DEF inputs, sent
<1>5. ForeignInv'
  <2> SUFFICES ASSUME NEW p \in Replica PROVE Remote(p)'
    BY DEF ForeignInv
  <2>1. Remote(p)
    BY DEF ForeignInv
  <2>2. /\ remote'[p].data = remote[p].data /\ remote'[p].from = remote[p].from
        /\ remote'[p].index = IF p = r THEN remote[p].index + 1 ELSE remote[p].index
    <3> DEFINE x == [remote[r] EXCEPT !.index = @ + 1]
    <3>1. remote \in [Replica -> [data : Data, from : Replica \cup {0}, index : Nat]]
      BY <1>2 DEF TypeOK
    <3>2. x.data = remote[r].data /\ x.from = remote[r].from /\ x.index = remote[r].index + 1
      BY <3>1
    <3>3. remote' = [remote EXCEPT ![r] = x]
      BY <1>1
    <3> HIDE DEF x
    <3> QED
      BY <3>1, <3>2, <3>3
  <2>3. ToGenerate(p)' = ToGenerate(p)
    BY <2>2 DEF ToGenerate
  <2>4. remote'[p].index <= Len(ToGenerate(p))
    <3>1. remote[r].index < Len(ToGenerate(r)) /\ remote[r].index \in Nat
      BY <1>1, <1>2 DEF Generating, TypeOK
    <3>2. ToGenerate(r) \in Data
      BY <1>2, Basics DEF ToGenerate, TypeOK
    <3>3. Len(ToGenerate(r)) \in Nat
      BY <3>2, Basics
    <3> QED
      BY <2>1, <2>2, <3>1, <3>3 DEF Remote
  <2> QED
    BY <1>1, <2>1, <2>2, <2>3, <2>4 DEF Remote
<1> QED
  BY <1>3, <1>4, <1>5

\* No sequence is handled any more.
LEMMA OrderRemoteHome ==
    ASSUME IInv, HomeInv, NEW r \in Replica, OrderRemote(r)
    PROVE  HomeInv'
<1> USE DEF HomeInv
<1>1. /\ remote' = [remote EXCEPT ![r] = Nothing]
      /\ UNCHANGED <<inputs, messages, sequence_, proposal, sequences_other_replicas_,
                     local_log_, sent>>
  BY DEF OrderRemote
<1>2. LocalInv'
  BY <1>1, LocalSame DEF inputs
<1>3. SentInv'
  BY <1>1, SentSame DEF inputs, sent
<1>4. ForeignInv'
  <2> SUFFICES ASSUME NEW p \in Replica PROVE Remote(p)'
    BY DEF ForeignInv
  <2>1. Remote(p)
    BY DEF ForeignInv
  <2>2. remote'[p] = IF p = r THEN Nothing ELSE remote[p]
    BY <1>1 DEF IInv, TypeOK
  <2>3. CASE p # r
    <3>1. ToGenerate(p)' = ToGenerate(p)
      BY <2>2, <2>3 DEF ToGenerate
    <3> QED
      BY <1>1, <2>1, <2>2, <2>3, <3>1 DEF Remote
  <2>4. CASE p = r
    <3>1. Nothing.data = <<>> /\ Nothing.from = 0 /\ Nothing.index = 0
      BY DEF Nothing
    <3>2. ToGenerate(p)' = <<>> /\ Len(<<>>) = 0 /\ <<>> \in Seq(Of(0))
      BY <2>2, <2>4, <3>1 DEF ToGenerate
    <3>3. remote'[p].data = <<>> /\ remote'[p].from = 0 /\ remote'[p].index = 0
      BY <2>2, <2>4, <3>1
    <3>4. remote'[p].data \in Seq(Of(remote'[p].from))
      BY <3>2, <3>3
    <3>5. remote'[p].index <= Len(ToGenerate(p)')
      BY <3>2, <3>3
    <3>6. sequences_other_replicas_'[p] \in Seq(Foreign(p))
      BY <1>1, <2>1 DEF Remote
    <3> QED
      BY <3>3, <3>4, <3>5, <3>6 DEF Remote
  <2> QED
    BY <2>3, <2>4
<1> QED
  BY <1>2, <1>3, <1>4

\* A message less.
LEMMA OnMRTxnsBatchHome ==
    ASSUME IInv, HomeInv, NEW m \in messages, OnMRTxnsBatch(m)
    PROVE  HomeInv'
<1> USE DEF HomeInv
<1>1. /\ messages' = messages \ {m}
      /\ UNCHANGED <<type_, sequence_, turn, sequences_other_replicas_, logs, sent>>
  BY DEF OnMRTxnsBatch
<1>2. LocalInv'
  BY <1>1, LocalSame DEF turn, logs
<1>3. ForeignInv'
  BY <1>1, ForeignSame DEF turn
<1>4. SentInv'
  BY <1>1, SentSame DEF sent
<1> QED
  BY <1>2, <1>3, <1>4

\* A message less.
LEMMA OnSynchronizeAckHome ==
    ASSUME IInv, HomeInv, NEW m \in messages, OnSynchronizeAck(m)
    PROVE  HomeInv'
<1> USE DEF HomeInv
<1>1. /\ messages' = messages \ {m}
      /\ UNCHANGED <<inputs, sequence_, remote, proposal, sequences_other_replicas_, logs, sent>>
  BY DEF OnSynchronizeAck
<1>2. LocalInv'
  BY <1>1, LocalSame DEF inputs, logs
<1>3. ForeignInv'
  BY <1>1, ForeignSame
<1>4. SentInv'
  BY <1>1, SentSame DEF inputs, sent
<1> QED
  BY <1>2, <1>3, <1>4

\* Nobody sends sequences to itself.
LEMMA OthersFacts ==
    ASSUME NEW r \in Replica
    PROVE  /\ closed_replica(r) # r
           /\ Others(r) \subseteq Replica
           /\ r \notin Others(r)
           /\ Strong => closed_replica(r) \notin Others(r)
           /\ \A s \in Replica : s = r \/ s \in Others(r) \/ (Strong /\ s = closed_replica(r))
<1>1. closed_replica(r) # r
  BY Basics DEF closed_replica
<1> QED
  BY <1>1 DEF Others

\* The queue gets sequences of another replica.
LEMMA OnNewSequenceHome ==
    ASSUME IInv, HomeInv, NEW m \in messages, OnNewSequence(m)
    PROVE  HomeInv'
<1> USE DEF HomeInv
<1> DEFINE n == Msg("NEW_SEQUENCE_ACK", m.to, m.from, m.version, <<>>)
<1>1. /\ m.type = "NEW_SEQUENCE"
      /\ PushRemote(m)
      /\ messages' = (messages \ {m}) \cup {n}
      /\ UNCHANGED <<inputs, sequence_, turn, logs, sent>>
  BY DEF OnNewSequence, Receive
<1>2. n.type = "NEW_SEQUENCE_ACK" /\ n.from = m.to /\ n.to = m.from
  BY MsgFacts
<1> HIDE DEF n
<1>3. Sent(m) /\ m.to \in Others(m.from) /\ m.from \in Replica
  BY <1>1 DEF SentInv, Sent, IInv, TypeOK, Message
<1>4. Sent(n)
  BY <1>2, <1>3 DEF Sent
<1>5. LocalInv'
  BY <1>1, LocalSame DEF inputs, turn, logs
<1>6. ForeignInv'
  <2>1. m.from # m.to
    BY <1>3, OthersFacts
  <2> QED
    BY <1>1, <1>3, <2>1, PushRemoteForeign DEF turn, IInv
<1>7. SentInv'
  BY <1>1, <1>4, SentSame DEF inputs, sent
<1> QED
  BY <1>5, <1>6, <1>7

\* The queue of closed_replica gets the sequence of another replica.
LEMMA OnSynchronizeHome ==
    ASSUME IInv, HomeInv, NEW m \in messages, OnSynchronize(m)
    PROVE  HomeInv'
<1> USE DEF HomeInv
<1> DEFINE n == Msg("SYNCHRONIZE_ACK", m.to, m.from, 0, <<>>)
<1>1. /\ m.type = "SYNCHRONIZE"
      /\ PushRemote(m)
      /\ messages' = (messages \ {m}) \cup {n}
      /\ UNCHANGED <<inputs, sequence_, turn, logs, sent>>
  BY DEF OnSynchronize, Receive
<1>2. n.type = "SYNCHRONIZE_ACK"
  BY MsgFacts
<1> HIDE DEF n
<1>3. Sent(m) /\ m.to = closed_replica(m.from) /\ m.from \in Replica
  BY <1>1 DEF SentInv, Sent, IInv, TypeOK, Message
<1>4. Sent(n)
  BY <1>2 DEF Sent
<1>5. LocalInv'
  BY <1>1, LocalSame DEF inputs, turn, logs
<1>6. ForeignInv'
  <2>1. m.from # m.to
    BY <1>3, OthersFacts
  <2> QED
    BY <1>1, <1>3, <2>1, PushRemoteForeign DEF turn, IInv
<1>7. SentInv'
  BY <1>1, <1>4, SentSame DEF inputs, sent
<1> QED
  BY <1>5, <1>6, <1>7

\* What is sent of the log is its own, or the other replica is put by.
LEMMA OnNewSequenceAckHome ==
    ASSUME IInv, HomeInv, NEW m \in messages, OnNewSequenceAck(m)
    PROVE  HomeInv'
<1> USE DEF HomeInv
<1> DEFINE r   == m.to
           s   == m.from
           log == local_log_[r]
           n   == NewSequence(r, s, log)
<1>1. /\ m.type = "NEW_SEQUENCE_ACK"
      /\ UNCHANGED <<inputs, sequence_, turn, sequences_other_replicas_, logs>>
      /\ \/ /\ messages' = messages \ {m}
            /\ new_sequence_todo' = [new_sequence_todo EXCEPT ![r] = @ \cup {s}]
         \/ /\ Unsent(r, s, log) # <<>>
            /\ messages' = (messages \ {m}) \cup {n}
            /\ new_sequence_todo' = new_sequence_todo
  BY DEF OnNewSequenceAck, Receive, SendNew
<1>2. r \in Replica /\ s \in Others(r) /\ TypeOK
  BY <1>1 DEF IInv, TypeOK, Message, SentInv, Sent
<1>3. log \in Seq(OwnEntry(r)) /\ readers_for_local_log_[r][s] \in Nat
  <2>1. log \in Seq(OwnEntry(r))
    BY <1>2 DEF LocalInv, Local
  <2>2. s \in Replica
    BY <1>2 DEF Others
  <2>3. readers_for_local_log_[r][s] \in Nat
    BY <1>2, <2>2 DEF TypeOK
  <2> QED
    BY <2>1, <2>3
<1>4. log = <<>> => Unsent(r, s, log) = <<>>
  <2> DEFINE a == readers_for_local_log_[r][s] + 1
  <2>1. a \in Int /\ 0 < a
    BY <1>3
  <2> HIDE DEF a
  <2>2. SubSeq(<<>>, a, 0) = <<>>
    BY <2>1, SubSeqEmpty
  <2>3. log = <<>> => Unsent(r, s, log) = SubSeq(<<>>, a, 0)
    BY DEF Unsent, a
  <2> QED
    BY <2>2, <2>3
<1>5. Unsent(r, s, log) # <<>> => Sent(n)
  BY <1>2, <1>3, <1>4, NewSequenceOwn
<1> HIDE DEF r, s, log, n
<1>6. LocalInv'
  BY <1>1, LocalSame DEF inputs, turn, logs
<1>7. ForeignInv'
  BY <1>1, ForeignSame DEF turn
<1>8. SentInv'
  <2>1. \A p : Others(p)' = Others(p)
    BY <1>1 DEF Others, Strong, inputs
  <2>2. \A x : Sent(x)' <=> Sent(x)
    BY <1>1, <2>1 DEF Sent, Strong, inputs
  <2>3. \A x \in messages' : Sent(x)
    BY <1>1, <1>5 DEF SentInv
  <2>4. ASSUME NEW p \in Replica PROVE new_sequence_todo'[p] \subseteq Others(p)
    <3>1. new_sequence_todo[p] \subseteq Others(p)
      BY DEF SentInv
    <3>2. new_sequence_todo \in [Replica -> SUBSET Replica]
      BY <1>2 DEF TypeOK
    <3>3. \/ new_sequence_todo'[p] = new_sequence_todo[p]
          \/ p = r /\ new_sequence_todo'[p] = new_sequence_todo[p] \cup {s}
      BY <1>1, <3>2
    <3> QED
      BY <1>2, <3>1, <3>3
  <2> QED
    BY <2>1, <2>2, <2>3, <2>4 DEF SentInv
<1> QED
  BY <1>6, <1>7, <1>8

\* Every step keeps it.
LEMMA NextHome == IInv /\ HomeInv /\ [Next]_vars => HomeInv'
<1> SUFFICES ASSUME IInv, HomeInv, [Next]_vars PROVE HomeInv'
  OBVIOUS
<1>1. ASSUME NEW b \in Batch, WriteBatch(b) PROVE HomeInv'
  BY <1>1, WriteBatchHome
<1>2. ASSUME NEW m \in messages, ForwardBatch(m) \/ AppendBatch(m) PROVE HomeInv'
  BY <1>2, ForwardBatchHome, AppendBatchHome
<1>3. ASSUME NEW m \in messages, ReceiveMessage(m) PROVE HomeInv'
  BY <1>3, OnMRTxnsBatchHome, OnNewSequenceHome, OnNewSequenceAckHome, OnSynchronizeHome,
     OnSynchronizeAckHome DEF ReceiveMessage
<1>4. ASSUME NEW r \in Replica, LeaderNext(r) PROVE HomeInv'
  BY <1>4, ProposeLocalHome, ProposeStrongHome, LogSynchronizedHome, TakeRemoteHome,
     GenerateHome, OrderRemoteHome DEF LeaderNext
<1>5. ASSUME UNCHANGED vars PROVE HomeInv'
  BY <1>5, LocalSame, ForeignSame, SentSame DEF HomeInv, vars, inputs, turn, logs, sent
<1> QED
  BY <1>1, <1>2, <1>3, <1>4, <1>5 DEF Next

-----------------------------------------------------------------------------
(* How the batches of one replica flow to the others. *)

\* What r has got from others and given to its schedulers, in this order.
Queued(r) == Joined(sequences_other_replicas_[r])
Got(r)    == (Given(r) \o remote[r].data) \o Queued(r)

Arrived(s, r) == Keep(Got(r), Of(s))

\* What s has logged, and what of it was sent to r.
LogOf(s)       == Joined(local_log_[s])
SentOf(s, r)   == UpTo(local_log_[s], readers_for_local_log_[s][r])

\* The sequences on their way from s, to r and to its closed_replica.
New(s, r) == {m \in messages : m.type = "NEW_SEQUENCE" /\ m.from = s /\ m.to = r}
Asking(s) == {m \in messages : m.type = "SYNCHRONIZE" /\ m.from = s}

\* What r has of s, and what is on its way to it, is what was sent.
FlowTo(s, r) ==
    /\ New(s, r) = {} => Arrived(s, r) = SentOf(s, r)
    /\ \A m \in New(s, r) : Arrived(s, r) \o FlattenSeq(m.data) = SentOf(s, r)

\* closed_replica has also the sequence that waits to be logged, once it was asked.
FlowClosed(s) ==
    /\ Asking(s) = {} => Arrived(s, closed_replica(s)) = LogOf(s) \o proposal[s]
    /\ Asking(s) # {} => Arrived(s, closed_replica(s)) = LogOf(s)

\* s itself gives its sequences to its schedulers when it proposes them.
FlowOwn(s) == OrderOf(s, s) = LogOf(s) \o proposal[s]

FlowInv ==
    /\ \A s \in Replica : FlowOwn(s)
    /\ \A s \in Replica : \A r \in Others(s) : FlowTo(s, r)
    /\ Strong => \A s \in Replica : FlowClosed(s)

\* The types.
LEMMA FlowTypes ==
    ASSUME TypeOK, NEW r \in Replica
    PROVE  /\ scheduler_[r] \in Seq(Entry) /\ local_log_[r] \in Seq(Entry)
           /\ sequences_other_replicas_[r] \in Seq(Sequence)
           /\ Given(r) = Joined(scheduler_[r])
           /\ Given(r) \in Data /\ remote[r].data \in Data /\ Queued(r) \in Data
           /\ Got(r) \in Data
           /\ LogOf(r) \in Data /\ proposal[r] \in Data /\ sequence_[r] \in Data
           /\ \A s : OrderOf(s, r) = Keep(Given(r), Of(s))
           /\ \A s : OrderOf(s, r) \in Data /\ Arrived(s, r) \in Data
<1>1. /\ scheduler_[r] \in Seq(Entry) /\ local_log_[r] \in Seq(Entry)
      /\ sequences_other_replicas_[r] \in Seq(Sequence)
      /\ remote[r].data \in Data /\ proposal[r] \in Data /\ sequence_[r] \in Data
  BY DEF TypeOK, Entry, Sequence
<1>2. Given(r) = Joined(scheduler_[r])
  BY DEF Given, Joined, Contents
<1>3. \A x \in Seq(Entry) : Joined(x) \in Data
  BY UpToFacts
<1>4. \A x \in Seq(Sequence) : Joined(x) \in Data
  <2>1. \A e \in Sequence : e.data \in Seq(BatchId)
    BY DEF Sequence, Data
  <2>2. \A x \in Seq(Sequence) : Contents(x) \in Seq(Seq(BatchId)) /\ Joined(x) \in Seq(BatchId)
    BY <2>1, JoinedFacts, Zenon
  <2> QED
    BY <2>2 DEF Data
<1>5. Given(r) \in Data /\ Queued(r) \in Data /\ LogOf(r) \in Data
  BY <1>1, <1>2, <1>3, <1>4 DEF Queued, LogOf
<1>6. Got(r) \in Data
  BY <1>1, <1>5, Basics DEF Got
<1>7. \A s : OrderOf(s, r) = Keep(Given(r), Of(s))
  BY DEF OrderOf, Of
<1>8. \A s : OrderOf(s, r) \in Data /\ Arrived(s, r) \in Data
  BY <1>5, <1>6, <1>7, KeepType DEF Arrived, Data
<1> QED
  BY <1>1, <1>2, <1>5, <1>6, <1>7, <1>8

\* The batches of a sequence are their origin's.
LEMMA KeepData ==
    ASSUME NEW x \in Data, NEW y \in Data, NEW s
    PROVE  Keep(x \o y, Of(s)) = Keep(x, Of(s)) \o Keep(y, Of(s))
BY KeepConcat DEF Data

\* What r has, when the variables are the same for it.
LEMMA GotSame ==
    ASSUME NEW r
    PROVE  /\ scheduler_'[r] = scheduler_[r]
              => Given(r)' = Given(r) /\ \A s : OrderOf(s, r)' = OrderOf(s, r)
           /\ /\ scheduler_'[r] = scheduler_[r]
              /\ remote'[r].data = remote[r].data
              /\ sequences_other_replicas_'[r] = sequences_other_replicas_[r]
              => Got(r)' = Got(r) /\ \A s : Arrived(s, r)' = Arrived(s, r)
BY DEF Given, Got, Queued, OrderOf, Arrived

\* r's schedulers get one more sequence.
LEMMA OrderGiven ==
    ASSUME TypeOK, NEW r \in Replica, NEW d \in Data, Order(r, d)
    PROVE  /\ Given(r)' = Given(r) \o d
           /\ \A q \in Replica : q # r => scheduler_'[q] = scheduler_[q]
<1> DEFINE e == [version |-> global_next_version[r] + 1, data |-> d]
<1>1. e \in Entry /\ e.data = d
  BY DEF TypeOK, Entry
<1>2. scheduler_' = [scheduler_ EXCEPT ![r] = Append(scheduler_[r], e)]
  BY DEF Order
<1> HIDE DEF e
<1>3. scheduler_'[r] = Append(scheduler_[r], e)
         /\ \A q \in Replica : q # r => scheduler_'[q] = scheduler_[q]
  BY <1>2 DEF TypeOK
<1>4. Joined(Append(scheduler_[r], e)) = Joined(scheduler_[r]) \o d
  BY <1>1, FlowTypes, UpToFacts
<1>5. Given(r)' = Joined(scheduler_'[r])
  BY DEF Given, Joined, Contents
<1> QED
  BY <1>3, <1>4, <1>5, FlowTypes

\* Nothing flows in a step that leaves every replica what it has got from others.
LEMMA FlowSame ==
    ASSUME FlowInv, UNCHANGED <<type_, proposal, local_log_, readers_for_local_log_>>,
           \A s, r \in Replica : s # r => Arrived(s, r)' = Arrived(s, r),
           \A s \in Replica : OrderOf(s, s)' = OrderOf(s, s),
           \A m : m.type \in {"NEW_SEQUENCE", "SYNCHRONIZE"}
                    => (m \in messages' <=> m \in messages),
           TypeOK
    PROVE  FlowInv'
<1>1. \A s : LogOf(s)' = LogOf(s) /\ Others(s)' = Others(s) /\ Asking(s)' = Asking(s)
  BY DEF LogOf, Others, Strong, Asking
<1>2. \A s, r : New(s, r)' = New(s, r) /\ SentOf(s, r)' = SentOf(s, r)
  BY DEF New, SentOf
<1>3. ASSUME NEW s \in Replica PROVE FlowOwn(s)'
  BY <1>1 DEF FlowInv, FlowOwn
<1>4. ASSUME NEW s \in Replica, NEW r \in Others(s) PROVE FlowTo(s, r)'
  <2>1. r \in Replica /\ s # r
    BY OthersFacts
  <2>2. FlowTo(s, r) /\ Arrived(s, r)' = Arrived(s, r)
    BY <2>1 DEF FlowInv
  <2> QED
    BY <1>2, <2>2 DEF FlowTo
<1>5. ASSUME Strong, NEW s \in Replica PROVE FlowClosed(s)'
  <2> DEFINE c == closed_replica(s)
  <2>1. c \in Replica /\ s # c
    BY <1>5, Basics, OthersFacts DEF TypeOK
  <2>2. FlowClosed(s) /\ Arrived(s, c)' = Arrived(s, c)
    BY <1>5, <2>1 DEF FlowInv
  <2> QED
    BY <1>1, <2>2 DEF FlowClosed
<1> QED
  BY <1>1, <1>3, <1>4, <1>5 DEF FlowInv, Strong

\* Steps that give no replica anything: of the sequencers, and some messages.
LEMMA FlowUnchanged ==
    ASSUME FlowInv, TypeOK, UNCHANGED <<type_, turn, sequences_other_replicas_, logs, sent>>,
           \A m : m.type \in {"NEW_SEQUENCE", "SYNCHRONIZE"} => (m \in messages' <=> m \in messages)
    PROVE  FlowInv'
<1>1. UNCHANGED <<type_, proposal, local_log_, readers_for_local_log_, scheduler_, remote>>
  BY DEF turn, logs, sent
<1>2. \A s, r : Arrived(s, r)' = Arrived(s, r) /\ OrderOf(s, r)' = OrderOf(s, r)
  BY <1>1 DEF Arrived, Got, Queued, Given, OrderOf
<1> QED
  BY <1>1, <1>2, FlowSame

\* The steps about single batches move no sequence,
LEMMA WriteBatchFlow ==
    ASSUME IInv, FlowInv, NEW b \in Batch, WriteBatch(b)
    PROVE  FlowInv'
<1>1. /\ UNCHANGED <<type_, turn, sequences_other_replicas_, logs, sent>> /\ TypeOK
      /\ messages' = messages \cup
            {Msg("TXN_BATCH", Home[b], r, 0, <<<<b>>>>) :
                r \in {x \in Replica : x = Home[b] \/ Home[b] = 0}}
  BY DEF WriteBatch, IInv
<1>2. \A r : Msg("TXN_BATCH", Home[b], r, 0, <<<<b>>>>).type = "TXN_BATCH"
  BY MsgFacts
<1>3. \A m : m.type \in {"NEW_SEQUENCE", "SYNCHRONIZE"} => (m \in messages' <=> m \in messages)
  BY <1>1, <1>2
<1> QED
  BY <1>1, <1>3, FlowUnchanged

\* nor does a central machine,
LEMMA ForwardBatchFlow ==
    ASSUME IInv, FlowInv, NEW m \in messages, ForwardBatch(m)
    PROVE  FlowInv'
<1> DEFINE n == Msg(IF m.from = m.to THEN "BATCH_SUBMIT" ELSE "MR_TXNS_BATCH",
                    m.to, m.to, 0, m.data)
<1>1. /\ UNCHANGED <<type_, turn, sequences_other_replicas_, logs, sent>> /\ TypeOK
      /\ m.type = "TXN_BATCH"
      /\ messages' = (messages \ {m}) \cup {n}
  BY DEF ForwardBatch, IInv, inputs
<1>2. n.type \notin {"NEW_SEQUENCE", "SYNCHRONIZE"}
  BY MsgFacts
<1> HIDE DEF n
<1>3. \A x : x.type \in {"NEW_SEQUENCE", "SYNCHRONIZE"} => (x \in messages' <=> x \in messages)
  BY <1>1, <1>2
<1> QED
  BY <1>1, <1>3, FlowUnchanged

\* nor a batch that begins to wait,
LEMMA AppendBatchFlow ==
    ASSUME IInv, FlowInv, NEW m \in messages, AppendBatch(m)
    PROVE  FlowInv'
<1>1. /\ UNCHANGED <<type_, turn, sequences_other_replicas_, logs, sent>> /\ TypeOK
      /\ m.type = "BATCH_SUBMIT"
      /\ messages' = messages \ {m}
  BY DEF AppendBatch, IInv, inputs
<1> QED
  BY <1>1, FlowUnchanged

\* nor the transactions of a batch,
LEMMA OnMRTxnsBatchFlow ==
    ASSUME IInv, FlowInv, NEW m \in messages, OnMRTxnsBatch(m)
    PROVE  FlowInv'
<1>1. /\ UNCHANGED <<type_, turn, sequences_other_replicas_, logs, sent>> /\ TypeOK
      /\ m.type = "MR_TXNS_BATCH"
      /\ messages' = messages \ {m}
  BY DEF OnMRTxnsBatch, Receive, IInv
<1> QED
  BY <1>1, FlowUnchanged

\* nor an ack,
LEMMA OnSynchronizeAckFlow ==
    ASSUME IInv, FlowInv, NEW m \in messages, OnSynchronizeAck(m)
    PROVE  FlowInv'
<1>1. /\ UNCHANGED <<type_, proposal, remote, sequences_other_replicas_, logs, sent>> /\ TypeOK
      /\ m.type = "SYNCHRONIZE_ACK"
      /\ messages' = messages \ {m}
  BY DEF OnSynchronizeAck, Receive, IInv, inputs
<1>2. \A s, r : Arrived(s, r)' = Arrived(s, r) /\ OrderOf(s, r)' = OrderOf(s, r)
  BY <1>1 DEF Arrived, Got, Queued, Given, OrderOf, logs
<1>3. \A x : x.type \in {"NEW_SEQUENCE", "SYNCHRONIZE"} => (x \in messages' <=> x \in messages)
  BY <1>1
<1>4. UNCHANGED <<type_, proposal, local_log_, readers_for_local_log_>>
  BY <1>1 DEF logs, sent
<1> QED
  BY <1>1, <1>2, <1>3, <1>4, FlowSame

\* nor a batch that is generated.
LEMMA GenerateFlow ==
    ASSUME IInv, FlowInv, NEW r \in Replica, Generate(r)
    PROVE  FlowInv'
<1>1. /\ remote' = [remote EXCEPT ![r].index = @ + 1]
      /\ UNCHANGED <<type_, messages, proposal, sequences_other_replicas_, logs, sent>> /\ TypeOK
  BY DEF Generate, IInv, inputs
<1>2. UNCHANGED <<type_, proposal, local_log_, readers_for_local_log_, scheduler_>>
  BY <1>1 DEF logs, sent
<1>3. \A q \in Replica : remote'[q].data = remote[q].data
  <2>1. remote \in [Replica -> [data : Data, from : Replica \cup {0}, index : Nat]]
    BY <1>1 DEF TypeOK
  <2> DEFINE x == [remote[r] EXCEPT !.index = @ + 1]
  <2>2. x.data = remote[r].data
    BY <2>1
  <2>3. remote' = [remote EXCEPT ![r] = x]
    BY <1>1
  <2> HIDE DEF x
  <2> QED
    BY <2>1, <2>2, <2>3
<1>4. \A s, q \in Replica : Arrived(s, q)' = Arrived(s, q) /\ OrderOf(s, q)' = OrderOf(s, q)
  BY <1>1, <1>2, <1>3, GotSame
<1> QED
  BY <1>1, <1>2, <1>4, FlowSame

\* The first sequence of the queue is handled now.
LEMMA TakeRemoteFlow ==
    ASSUME IInv, FlowInv, NEW r \in Replica, TakeRemote(r)
    PROVE  FlowInv'
<1> DEFINE q == sequences_other_replicas_[r]
<1>1. /\ q # <<>>
      /\ pc[r] # "handling"
      /\ remote' = [remote EXCEPT ![r] = Head(q)]
      /\ sequences_other_replicas_' = [sequences_other_replicas_ EXCEPT ![r] = Tail(q)]
      /\ UNCHANGED <<type_, messages, proposal, logs, sent>> /\ TypeOK
  BY DEF TakeRemote, IInv, inputs
<1>2. UNCHANGED <<type_, proposal, local_log_, readers_for_local_log_, scheduler_>>
  BY <1>1 DEF logs, sent
<1>3. remote[r].data = <<>>
  BY <1>1 DEF IInv, RemoteInv
<1>4. q \in Seq(Sequence) /\ Given(r) \in Data
  BY <1>1, FlowTypes
<1>5. /\ remote'[r] = Head(q) /\ sequences_other_replicas_'[r] = Tail(q)
      /\ \A p \in Replica : p # r =>
            /\ remote'[p] = remote[p]
            /\ sequences_other_replicas_'[p] = sequences_other_replicas_[p]
  BY <1>1 DEF TypeOK
<1> HIDE DEF q
<1>6. Joined(q) = Head(q).data \o Joined(Tail(q))
         /\ Head(q).data \in Data /\ Joined(Tail(q)) \in Data
  <2>1. Head(q) \in Sequence /\ Tail(q) \in Seq(Sequence)
    BY <1>1, <1>4, HeadTailProperties
  <2>2. \A e \in Sequence : e.data \in Seq(BatchId)
    BY DEF Sequence, Data
  <2>3. /\ \A x \in Seq(Sequence) : Contents(x) \in Seq(Seq(BatchId)) /\ Joined(x) \in Seq(BatchId)
        /\ \A x, y \in Seq(Sequence) : Joined(x \o y) = Joined(x) \o Joined(y)
        /\ \A e \in Sequence : Joined(<<e>>) = e.data
        /\ Joined(<<>>) = <<>>
    BY <2>2, JoinedFacts, Zenon
  <2>4. q = <<Head(q)>> \o Tail(q)
    <3> DEFINE h == Head(q)
               t == Tail(q)
    <3>1. h \in Sequence /\ t \in Seq(Sequence) /\ Len(t) = Len(q) - 1 /\ h = q[1]
             /\ \A i \in 1..Len(t) : t[i] = q[i + 1]
      BY <1>1, <1>4, HeadTailProperties
    <3>2. Len(q) \in Nat /\ Len(q) # 0
      BY <1>1, <1>4, EmptySeq
    <3> HIDE DEF h, t
    <3>3. PICK w \in Seq(Sequence) : w = <<h>> \o t
      <4>1. <<h>> \o t \in Seq(Sequence)
        BY <3>1
      <4> QED
        BY <4>1
    <3>4. Len(w) = 1 + Len(t) /\ w[1] = h /\ \A i \in 2..(1 + Len(t)) : w[i] = t[i - 1]
      BY <3>1, <3>3
    <3>5. \A i \in 1..Len(q) : w[i] = q[i]
      <4> SUFFICES ASSUME NEW i \in 1..Len(q) PROVE w[i] = q[i]
        OBVIOUS
      <4>1. CASE i = 1
        BY <3>1, <3>4, <4>1
      <4>2. CASE i # 1
        <5>1. i \in 2..(1 + Len(t)) /\ i - 1 \in 1..Len(t) /\ (i - 1) + 1 = i
          BY <3>1, <3>2, <4>2
        <5> QED
          BY <3>1, <3>4, <5>1
      <4> QED
        BY <4>1, <4>2
    <3>6. w = q
      BY <1>4, <3>1, <3>2, <3>4, <3>5, SeqEqual
    <3> QED
      BY <3>3, <3>6 DEF h, t
  <2>5. PICK w \in Seq(Sequence) : w = <<Head(q)>>
    <3>1. <<Head(q)>> \in Seq(Sequence)
      BY <2>1
    <3> QED
      BY <3>1
  <2>6. Joined(w \o Tail(q)) = Joined(w) \o Joined(Tail(q))
    BY <2>1, <2>3
  <2>7. Joined(w) = Head(q).data
    BY <2>1, <2>3, <2>5
  <2> QED
    BY <2>1, <2>2, <2>3, <2>4, <2>5, <2>6, <2>7 DEF Data
<1>7. Got(r)' = Got(r)
  <2>1. PICK a \in Data, b \in Data, c \in Data :
           a = Given(r) /\ b = Head(q).data /\ c = Joined(Tail(q))
    BY <1>4, <1>6
  <2>2. Got(r) = (a \o <<>>) \o (b \o c)
    BY <1>3, <1>6, <2>1 DEF Got, Queued, q
  <2>3. Given(r)' = a
    BY <1>2, <2>1 DEF Given
  <2>4. Got(r)' = (a \o b) \o c
    BY <1>5, <2>1, <2>3 DEF Got, Queued
  <2>5. (a \o <<>>) \o (b \o c) = (a \o b) \o c
    <3>1. a \o <<>> = a
      BY ConcatEmptySeq DEF Data
    <3>2. a \o (b \o c) = (a \o b) \o c
      BY DEF Data
    <3> QED
      BY <3>1, <3>2
  <2> QED
    BY <2>2, <2>4, <2>5
<1>8. \A s, p \in Replica : Arrived(s, p)' = Arrived(s, p) /\ OrderOf(s, p)' = OrderOf(s, p)
  <2> SUFFICES ASSUME NEW s \in Replica, NEW p \in Replica
               PROVE  Arrived(s, p)' = Arrived(s, p) /\ OrderOf(s, p)' = OrderOf(s, p)
    OBVIOUS
  <2>1. OrderOf(s, p)' = OrderOf(s, p)
    BY <1>2, GotSame
  <2>2. Got(p)' = Got(p)
    <3>1. CASE p = r
      BY <1>7, <3>1
    <3>2. CASE p # r
      BY <1>2, <1>5, <3>2, GotSame
    <3> QED
      BY <3>1, <3>2
  <2> QED
    BY <2>1, <2>2 DEF Arrived
<1> QED
  BY <1>1, <1>2, <1>8, FlowSame

\* It is given to r's schedulers; it is none of r's own.
LEMMA OrderRemoteFlow ==
    ASSUME IInv, HomeInv, FlowInv, NEW r \in Replica, OrderRemote(r)
    PROVE  FlowInv'
<1> DEFINE d == remote[r].data
<1>1. /\ Order(r, d)
      /\ remote' = [remote EXCEPT ![r] = Nothing]
      /\ UNCHANGED <<type_, messages, proposal, sequences_other_replicas_, local_log_,
                     readers_for_local_log_>>
      /\ TypeOK
  BY DEF OrderRemote, IInv, inputs, sent
<1>2. d \in Data /\ Given(r) \in Data /\ Queued(r) \in Data
  BY <1>1, FlowTypes
<1>3. Keep(d, Of(r)) = <<>>
  <2>1. CASE d = <<>>
    BY <2>1, KeepOne
  <2>2. CASE d # <<>>
    <3>1. remote[r].from # r /\ d \in Seq(Of(remote[r].from))
      BY <2>2 DEF HomeInv, ForeignInv, Remote
    <3> QED
      BY <3>1, OfFacts
  <2> QED
    BY <2>1, <2>2
<1>4. remote'[r].data = <<>> /\ \A p \in Replica : p # r => remote'[p] = remote[p]
  <2>1. Nothing.data = <<>>
    BY DEF Nothing
  <2> QED
    BY <1>1, <2>1 DEF TypeOK
<1> HIDE DEF d
<1>5. Given(r)' = Given(r) \o d /\ \A q \in Replica : q # r => scheduler_'[q] = scheduler_[q]
  BY <1>1, <1>2, OrderGiven
<1>6. Got(r)' = Got(r)
  <2>1. PICK a \in Data, b \in Data, c \in Data : a = Given(r) /\ b = d /\ c = Queued(r)
    BY <1>2
  <2>2. Got(r) = (a \o b) \o c
    BY <2>1 DEF Got, d
  <2>3. Queued(r)' = c
    BY <1>1, <2>1 DEF Queued
  <2>4. Got(r)' = ((a \o b) \o <<>>) \o c
    BY <1>4, <1>5, <2>1, <2>3 DEF Got
  <2>5. (a \o b) \o <<>> = a \o b
    <3>1. a \o b \in Seq(BatchId)
      BY DEF Data
    <3> QED
      BY <3>1, ConcatEmptySeq
  <2> QED
    BY <2>2, <2>4, <2>5
<1>7. ASSUME NEW s \in Replica, NEW p \in Replica PROVE Arrived(s, p)' = Arrived(s, p)
  <2>1. Got(p)' = Got(p)
    <3>1. CASE p = r
      BY <1>6, <3>1
    <3>2. CASE p # r
      BY <1>1, <1>4, <1>5, <3>2, GotSame
    <3> QED
      BY <3>1, <3>2
  <2> QED
    BY <2>1 DEF Arrived
<1>8. ASSUME NEW s \in Replica PROVE OrderOf(s, s)' = OrderOf(s, s)
  <2>1. CASE s = r
    <3>1. OrderOf(r, r)' = Keep(Given(r)', Of(r))
      BY DEF OrderOf, Of
    <3>2. Keep(Given(r) \o d, Of(r)) = Keep(Given(r), Of(r)) \o Keep(d, Of(r))
      BY <1>2, KeepData
    <3>3. Keep(Given(r), Of(r)) = OrderOf(r, r) /\ OrderOf(r, r) \in Seq(BatchId)
      BY <1>1, FlowTypes DEF Data
    <3>4. OrderOf(r, r) \o <<>> = OrderOf(r, r)
      BY <3>3, ConcatEmptySeq
    <3> QED
      BY <1>3, <1>5, <2>1, <3>1, <3>2, <3>3, <3>4
  <2>2. CASE s # r
    BY <1>5, <2>2, GotSame
  <2> QED
    BY <2>1, <2>2
<1> QED
  BY <1>1, <1>7, <1>8, FlowSame

\* A replica gets the sequences of a message, whose batches are the sender's.
LEMMA PushGot ==
    ASSUME TypeOK, ForeignInv, NEW m \in messages, Sent(m), m.from # m.to,
           m.type \in {"NEW_SEQUENCE", "SYNCHRONIZE"}, PushRemote(m),
           UNCHANGED <<scheduler_, remote>>
    PROVE  /\ FlattenSeq(m.data) \in Data
           /\ Arrived(m.from, m.to)' = Arrived(m.from, m.to) \o FlattenSeq(m.data)
           /\ \A s, r \in Replica : ~ (s = m.from /\ r = m.to) => Arrived(s, r)' = Arrived(s, r)
           /\ \A s \in Replica : OrderOf(s, s)' = OrderOf(s, s)
<1>1. m.to \in Replica /\ m.from \in Replica
  BY DEF TypeOK, Message
<1>2. PICK h : h = m.from
  OBVIOUS
<1>3. PICK r \in Replica : r = m.to
  BY <1>1
<1>4. PICK f : f = FlattenSeq(m.data)
  OBVIOUS
<1>5. f \in Seq(Of(h)) /\ f \in Data
  <2>1. m.data \in Seq(Seq(Of(h)))
    BY <1>2 DEF Sent
  <2>2. f \in Seq(Of(h))
    BY <1>4, <2>1, FlattenType
  <2> QED
    BY <2>2, OfFacts
<1>6. PICK t \in Seq(Foreign(m.to)) :
         /\ sequences_other_replicas_' =
               [sequences_other_replicas_ EXCEPT ![m.to] = sequences_other_replicas_[m.to] \o t]
         /\ Contents(t) = m.data
  BY PushRemoteForeign
<1>7. t \in Seq(Sequence) /\ Joined(t) = f
  <2>1. Foreign(m.to) \subseteq Sequence
    BY DEF Foreign
  <2>2. t \in Seq(Sequence)
    BY <2>1
  <2> QED
    BY <1>4, <1>6, <2>2 DEF Joined
<1>8. PICK q \in Seq(Sequence) : q = sequences_other_replicas_[r]
  BY FlowTypes
<1>9. /\ sequences_other_replicas_'[r] = q \o t
      /\ \A p \in Replica : p # r => sequences_other_replicas_'[p] = sequences_other_replicas_[p]
  BY <1>3, <1>6, <1>8 DEF TypeOK
<1>10. Joined(q \o t) = Joined(q) \o f
  <2>1. \A e \in Sequence : e.data \in Seq(BatchId)
    BY DEF Sequence, Data
  <2>2. /\ \A x \in Seq(Sequence) : Contents(x) \in Seq(Seq(BatchId)) /\ Joined(x) \in Seq(BatchId)
        /\ \A x, y \in Seq(Sequence) : Joined(x \o y) = Joined(x) \o Joined(y)
        /\ \A e \in Sequence : Joined(<<e>>) = e.data
        /\ Joined(<<>>) = <<>>
    BY <2>1, JoinedFacts, Zenon
  <2> QED
    BY <1>7, <2>2
<1>11. Got(r)' = Got(r) \o f /\ Got(r) \in Data
  <2>1. PICK a \in Data, b \in Data : a = Given(r) \o remote[r].data /\ b = Joined(q)
    BY <1>8, FlowTypes, Basics DEF Queued
  <2>2. Got(r) = a \o b
    BY <1>8, <2>1 DEF Got, Queued
  <2>3. Given(r)' = Given(r)
    BY GotSame
  <2>4. Got(r)' = a \o (b \o f)
    BY <1>9, <1>10, <2>1, <2>3 DEF Got, Queued
  <2>5. a \o (b \o f) = (a \o b) \o f
    BY <1>5 DEF Data
  <2> QED
    BY <2>2, <2>4, <2>5, FlowTypes
<1>12. ASSUME NEW s PROVE Arrived(s, r)' = Arrived(s, r) \o Keep(f, Of(s))
  <2>1. Keep(Got(r) \o f, Of(s)) = Keep(Got(r), Of(s)) \o Keep(f, Of(s))
    BY <1>5, <1>11, KeepData
  <2>2. Arrived(s, r)' = Keep(Got(r)', Of(s))
    BY DEF Arrived, Of
  <2> QED
    BY <1>11, <2>1, <2>2 DEF Arrived
<1>13. Arrived(h, r)' = Arrived(h, r) \o f
  BY <1>5, <1>12, OfFacts
<1>14. ASSUME NEW s \in Replica, NEW p \in Replica, ~ (s = h /\ p = r)
       PROVE  Arrived(s, p)' = Arrived(s, p)
  <2>1. CASE p # r
    BY <1>9, <2>1, GotSame
  <2>2. CASE p = r
    <3>1. Keep(f, Of(s)) = <<>>
      BY <1>5, <1>14, <2>2, OfFacts
    <3>2. Arrived(s, r) \o <<>> = Arrived(s, r)
      <4>1. Arrived(s, r) \in Seq(BatchId)
        BY FlowTypes DEF Data
      <4> QED
        BY <4>1, ConcatEmptySeq
    <3> QED
      BY <1>12, <2>2, <3>1, <3>2
  <2> QED
    BY <2>1, <2>2
<1>15. \A s \in Replica : OrderOf(s, s)' = OrderOf(s, s)
  BY GotSame
<1> QED
  BY <1>2, <1>3, <1>4, <1>5, <1>13, <1>14, <1>15

\* The message that was on its way has arrived.
LEMMA OnNewSequenceFlow ==
    ASSUME IInv, HomeInv, FlowInv, NEW m \in messages, OnNewSequence(m)
    PROVE  FlowInv'
<1> DEFINE n == Msg("NEW_SEQUENCE_ACK", m.to, m.from, m.version, <<>>)
<1>1. /\ m.type = "NEW_SEQUENCE"
      /\ PushRemote(m)
      /\ messages' = (messages \ {m}) \cup {n}
      /\ UNCHANGED <<inputs, sequence_, turn, logs, sent>> /\ TypeOK
  BY DEF OnNewSequence, Receive, IInv
<1>2. n.type = "NEW_SEQUENCE_ACK"
  BY MsgFacts
<1> HIDE DEF n
<1>3. Sent(m) /\ m.to \in Others(m.from) /\ m.from \in Replica /\ m.to \in Replica /\ ForeignInv
  BY <1>1 DEF HomeInv, SentInv, Sent, TypeOK, Message
<1>4. m.from # m.to
  BY <1>3, OthersFacts
<1>5. UNCHANGED <<type_, proposal, local_log_, readers_for_local_log_, scheduler_, remote>>
  BY <1>1 DEF inputs, turn, logs, sent
<1>6. /\ FlattenSeq(m.data) \in Data
      /\ Arrived(m.from, m.to)' = Arrived(m.from, m.to) \o FlattenSeq(m.data)
      /\ \A s, r \in Replica : ~ (s = m.from /\ r = m.to) => Arrived(s, r)' = Arrived(s, r)
      /\ \A s \in Replica : OrderOf(s, s)' = OrderOf(s, s)
  BY <1>1, <1>3, <1>4, <1>5, PushGot
<1>7. \A s : LogOf(s)' = LogOf(s) /\ Others(s)' = Others(s) /\ Asking(s)' = Asking(s)
  BY <1>1, <1>2, <1>5 DEF LogOf, Others, Strong, Asking
<1>8. \A s, r : SentOf(s, r)' = SentOf(s, r)
  BY <1>5 DEF SentOf
<1>9. ASSUME NEW s \in Replica PROVE FlowOwn(s)'
  BY <1>5, <1>6, <1>7 DEF FlowInv, FlowOwn
<1>10. ASSUME NEW s \in Replica, NEW r \in Others(s) PROVE FlowTo(s, r)'
  <2>1. r \in Replica /\ FlowTo(s, r)
    BY OthersFacts DEF FlowInv
  <2>2. CASE ~ (s = m.from /\ r = m.to)
    <3>1. New(s, r)' = New(s, r)
      BY <1>1, <1>2, <2>2 DEF New
    <3> QED
      BY <1>6, <1>8, <2>1, <2>2, <3>1 DEF FlowTo
  <2>3. CASE s = m.from /\ r = m.to
    <3>1. m \in New(s, r) /\ New(s, r) \subseteq Exchange(s, r)
      BY <1>1, <2>3 DEF New, Exchange
    <3>2. New(s, r) = {m}
      BY <3>1 DEF IInv, TokenInv, Token
    <3>3. New(s, r)' = {}
      BY <1>1, <1>2, <3>2 DEF New
    <3> QED
      BY <1>6, <1>8, <2>1, <2>3, <3>1, <3>3 DEF FlowTo
  <2> QED
    BY <2>2, <2>3
<1>11. ASSUME Strong, NEW s \in Replica PROVE FlowClosed(s)'
  <2> DEFINE c == closed_replica(s)
  <2>1. c \in Replica /\ ~ (s = m.from /\ c = m.to)
    <3>1. c \in Replica
      BY <1>1, <1>11, Basics DEF TypeOK
    <3>2. c \notin Others(s)
      BY <1>11, OthersFacts
    <3> QED
      BY <1>3, <3>1, <3>2
  <2>2. FlowClosed(s) /\ Arrived(s, c)' = Arrived(s, c)
    BY <1>6, <1>11, <2>1 DEF FlowInv
  <2> QED
    BY <1>5, <1>7, <2>2 DEF FlowClosed
<1> QED
  BY <1>5, <1>7, <1>9, <1>10, <1>11 DEF FlowInv, Strong

\* closed_replica has got the sequence it was asked to keep.
LEMMA OnSynchronizeFlow ==
    ASSUME IInv, HomeInv, FlowInv, NEW m \in messages, OnSynchronize(m)
    PROVE  FlowInv'
<1> DEFINE n == Msg("SYNCHRONIZE_ACK", m.to, m.from, 0, <<>>)
<1>1. /\ m.type = "SYNCHRONIZE"
      /\ PushRemote(m)
      /\ messages' = (messages \ {m}) \cup {n}
      /\ UNCHANGED <<inputs, sequence_, turn, logs, sent>> /\ TypeOK
  BY DEF OnSynchronize, Receive, IInv
<1>2. n.type = "SYNCHRONIZE_ACK"
  BY MsgFacts
<1> HIDE DEF n
<1>3. /\ Sent(m) /\ Strong /\ m.to = closed_replica(m.from) /\ m.from \in Replica
      /\ m.to \in Replica /\ ForeignInv
  BY <1>1 DEF HomeInv, SentInv, Sent, TypeOK, Message
<1>4. m.from # m.to
  BY <1>3, OthersFacts
<1>5. UNCHANGED <<type_, proposal, local_log_, readers_for_local_log_, scheduler_, remote>>
  BY <1>1 DEF inputs, turn, logs, sent
<1>6. /\ FlattenSeq(m.data) \in Data
      /\ Arrived(m.from, m.to)' = Arrived(m.from, m.to) \o FlattenSeq(m.data)
      /\ \A s, r \in Replica : ~ (s = m.from /\ r = m.to) => Arrived(s, r)' = Arrived(s, r)
      /\ \A s \in Replica : OrderOf(s, s)' = OrderOf(s, s)
  BY <1>1, <1>3, <1>4, <1>5, PushGot
<1>7. \A s : LogOf(s)' = LogOf(s) /\ Others(s)' = Others(s)
  BY <1>5 DEF LogOf, Others, Strong
<1>8. \A s, r : SentOf(s, r)' = SentOf(s, r) /\ New(s, r)' = New(s, r)
  BY <1>1, <1>2, <1>5 DEF SentOf, New
<1>9. ASSUME NEW s \in Replica PROVE FlowOwn(s)'
  BY <1>5, <1>6, <1>7 DEF FlowInv, FlowOwn
<1>10. ASSUME NEW s \in Replica, NEW r \in Others(s) PROVE FlowTo(s, r)'
  <2>1. r \in Replica /\ FlowTo(s, r) /\ ~ (s = m.from /\ r = m.to)
    BY <1>3, OthersFacts DEF FlowInv
  <2>2. Arrived(s, r)' = Arrived(s, r)
    BY <1>6, <2>1
  <2> QED
    BY <1>8, <2>1, <2>2 DEF FlowTo
<1>11. ASSUME NEW s \in Replica PROVE FlowClosed(s)'
  <2>1. closed_replica(s) \in Replica /\ FlowClosed(s)
    BY <1>1, <1>3, Basics DEF TypeOK, FlowInv
  <2>2. CASE s # m.from
    <3>1. Asking(s)' = Asking(s)
      BY <1>1, <1>2, <2>2 DEF Asking
    <3>2. Arrived(s, closed_replica(s))' = Arrived(s, closed_replica(s))
      BY <1>6, <2>1, <2>2
    <3> QED
      BY <1>5, <1>7, <2>1, <3>1, <3>2 DEF FlowClosed
  <2>3. CASE s = m.from
    <3>1. m = Msg("SYNCHRONIZE", s, closed_replica(s), 0, <<proposal[s]>>)
             /\ \A x \in Asking(s) : x = m
      BY <1>1, <1>3, <2>3 DEF IInv, SyncInv, Asked, Asking
    <3>2. m.data = <<proposal[s]>>
      BY <3>1, MsgFacts
    <3>3. FlattenSeq(m.data) = proposal[s]
      <4>1. proposal[s] \in Seq(BatchId)
        BY <1>1 DEF TypeOK, Data
      <4> QED
        BY <3>2, <4>1, FlattenOne
    <3>4. Asking(s) # {}
      BY <1>1, <2>3 DEF Asking
    <3>5. Asking(s)' = {}
      BY <1>1, <1>2, <3>1 DEF Asking
    <3>6. Arrived(s, closed_replica(s)) = LogOf(s)
      BY <2>1, <3>4 DEF FlowClosed
    <3>7. Arrived(s, closed_replica(s))' = LogOf(s) \o proposal[s]
      BY <1>3, <1>6, <2>3, <3>3, <3>6
    <3> QED
      BY <1>5, <1>7, <3>5, <3>7 DEF FlowClosed
  <2> QED
    BY <2>2, <2>3
<1> QED
  BY <1>5, <1>7, <1>9, <1>10, <1>11 DEF FlowInv, Strong

\* r's log becomes log, and those of targets, to which nothing is on its way, are sent what
\* they lack of it.
LEMMA SendFlow ==
    ASSUME TypeOK, TokenInv, FlowInv, UNCHANGED type_,
           NEW r \in Replica, NEW targets \in SUBSET Others(r), NEW log \in Seq(Entry),
           log # <<>>, log = local_log_[r] \/ \E e \in Entry : log = Append(local_log_[r], e),
           local_log_' = [local_log_ EXCEPT ![r] = log],
           NEW other \in SUBSET messages,
           \A m \in messages : m.type = "NEW_SEQUENCE" => m \in other,
           messages' = other \cup {NewSequence(r, s, log) : s \in targets},
           \A s \in targets : NewSequence(r, s, log).data = Contents(Unsent(r, s, log)),
           readers_for_local_log_' = [readers_for_local_log_ EXCEPT
              ![r] = [s \in Replica |-> IF s \in targets THEN Len(log)
                                        ELSE readers_for_local_log_[r][s]]],
           \A s \in targets : New(r, s) = {},
           \A s, p \in Replica : s # p => Arrived(s, p)' = Arrived(s, p)
    PROVE  \A s \in Replica : \A p \in Others(s) : FlowTo(s, p)'
<1>1. ASSUME NEW s \in targets
      PROVE  LET n == NewSequence(r, s, log)
             IN  n.type = "NEW_SEQUENCE" /\ n.from = r /\ n.to = s
  BY NewSequenceFacts, OthersFacts
<1>2. local_log_[r] \in Seq(Entry)
  BY FlowTypes
<1>3. ASSUME NEW n \in 0..Len(local_log_[r]) PROVE UpTo(log, n) = UpTo(local_log_[r], n)
  BY <1>2, UpToFacts
<1>4. ASSUME NEW s \in Replica, NEW p \in Others(s) PROVE FlowTo(s, p)'
  <2>1. p \in Replica /\ s # p /\ FlowTo(s, p) /\ Arrived(s, p)' = Arrived(s, p)
    BY OthersFacts DEF FlowInv
  <2>2. CASE s # r
    <3>1. New(s, p)' = New(s, p)
      BY <1>1, <2>2 DEF New
    <3>2. SentOf(s, p)' = SentOf(s, p)
      <4>1. local_log_'[s] = local_log_[s] /\ readers_for_local_log_'[s] = readers_for_local_log_[s]
        BY <2>2 DEF TypeOK
      <4> QED
        BY <4>1 DEF SentOf
    <3> QED
      BY <2>1, <3>1, <3>2 DEF FlowTo
  <2>3. CASE s = r
    <3>1. /\ readers_for_local_log_[r][p] \in 0..Len(local_log_[r])
          /\ Len(local_log_[r]) \in Nat
      <4>1. readers_for_local_log_[r][p] \in Nat
        BY <2>1 DEF TypeOK
      <4>2. Token(r, p)
        BY <2>3 DEF TokenInv
      <4>3. Len(local_log_[r]) \in Nat
        BY <1>2
      <4> QED
        BY <4>1, <4>2, <4>3 DEF Token
    <3>2. local_log_'[r] = log
      BY DEF TypeOK
    <3>3. readers_for_local_log_'[r][p] =
             IF p \in targets THEN Len(log) ELSE readers_for_local_log_[r][p]
      <4> DEFINE f == [q \in Replica |-> IF q \in targets THEN Len(log)
                                         ELSE readers_for_local_log_[r][q]]
      <4>1. f[p] = IF p \in targets THEN Len(log) ELSE readers_for_local_log_[r][p]
        BY <2>1
      <4>2. readers_for_local_log_' = [readers_for_local_log_ EXCEPT ![r] = f]
        OBVIOUS
      <4> HIDE DEF f
      <4>3. readers_for_local_log_'[r] = f
        BY <4>2 DEF TypeOK
      <4> QED
        BY <4>1, <4>3
    <3>4. SentOf(r, p) = UpTo(log, readers_for_local_log_[r][p])
      BY <1>3, <3>1 DEF SentOf
    <3>5. CASE p \notin targets
      <4>1. SentOf(r, p)' = SentOf(r, p)
        BY <3>2, <3>3, <3>4, <3>5 DEF SentOf
      <4>2. New(r, p)' = New(r, p)
        BY <1>1, <3>5 DEF New
      <4> QED
        BY <2>1, <2>3, <4>1, <4>2 DEF FlowTo
    <3>6. CASE p \in targets
      <4> DEFINE n == NewSequence(r, p, log)
                 k == readers_for_local_log_[r][p]
      <4>1. New(r, p)' = {n}
        BY <1>1, <3>6 DEF New
      <4>2. FlattenSeq(n.data) = Joined(SubSeq(log, k + 1, Len(log)))
        BY <3>6 DEF Joined, Unsent
      <4>3. Arrived(r, p) = UpTo(log, k)
        BY <2>1, <2>3, <3>4, <3>6 DEF FlowTo
      <4>4. k \in 0..Len(log)
        <5>1. Len(log) = Len(local_log_[r]) \/ Len(log) = Len(local_log_[r]) + 1
          BY <1>2, AppendProperties
        <5> QED
          BY <3>1, <5>1
      <4> HIDE DEF n
      <4>5. UpTo(log, k) \o FlattenSeq(n.data) = UpTo(log, Len(log))
        BY <4>2, <4>4, UpToFacts
      <4>6. SentOf(r, p)' = UpTo(log, Len(log))
        BY <3>2, <3>3, <3>6 DEF SentOf
      <4> QED
        BY <2>1, <2>3, <4>1, <4>3, <4>5, <4>6 DEF FlowTo
    <3> QED
      BY <3>5, <3>6
  <2> QED
    BY <2>2, <2>3
<1> QED
  BY <1>4

\* A sequence is logged and sent.
LEMMA LogLocalFlow ==
    ASSUME IInv, HomeInv, FlowInv, UNCHANGED type_,
           NEW r \in Replica, NEW d \in Seq(Of(r)), NEW lv \in Nat, NEW gv \in Nat,
           LogLocal(r, d, lv, gv),
           \A s, p \in Replica : s # p => Arrived(s, p)' = Arrived(s, p)
    PROVE  /\ \A s \in Replica : \A p \in Others(s) : FlowTo(s, p)'
           /\ \A s \in Replica : LogOf(s)' = IF s = r THEN LogOf(s) \o d ELSE LogOf(s)
           /\ \A s \in Replica : Asking(s)' = Asking(s)
<1> DEFINE log == Longer(r, d, lv)
           e   == [version |-> lv, data |-> d]
<1>1. TypeOK /\ TokenInv /\ LocalInv /\ d \in Data
  BY OfFacts DEF IInv, HomeInv
<1>2. /\ local_log_' = [local_log_ EXCEPT ![r] = log]
      /\ log \in Seq(Entry) /\ log # <<>>
      /\ messages' = messages \cup {NewSequence(r, s, log) : s \in Targets(r)}
      /\ readers_for_local_log_' = [readers_for_local_log_ EXCEPT
            ![r] = [s \in Replica |->
                       IF s \in Targets(r) THEN Len(log) ELSE readers_for_local_log_[r][s]]]
  BY <1>1, LogLocalFacts
<1>3. log = Append(local_log_[r], e) /\ e \in Entry /\ e.data = d
  BY <1>1 DEF Longer, Entry
<1>4. log \in Seq(OwnEntry(r))
  BY <1>1, LongerOwn
<1> HIDE DEF log, e
<1>5. Targets(r) \subseteq Others(r)
  BY DEF Targets, HomeInv, SentInv
<1>6. \A s \in Targets(r) : New(r, s) = {}
  <2> SUFFICES ASSUME NEW s \in Targets(r) PROVE New(r, s) = {}
    OBVIOUS
  <2>1. Token(r, s)
    BY <1>1, <1>5 DEF TokenInv
  <2>2. Exchange(r, s) = {}
    BY <2>1 DEF Targets, Token
  <2> QED
    BY <2>2 DEF New, Exchange
<1>7. \A s \in Targets(r) : NewSequence(r, s, log).data = Contents(Unsent(r, s, log))
  BY <1>1, <1>2, <1>4, <1>5, NewSequenceOwn
<1>8. \A s \in Replica : \A p \in Others(s) : FlowTo(s, p)'
  <2>1. \E x \in Entry : log = Append(local_log_[r], x)
    BY <1>3
  <2>2. PICK targets \in SUBSET Others(r) : targets = Targets(r)
    BY <1>5
  <2>3. PICK other \in SUBSET messages : other = messages
    OBVIOUS
  <2> QED
    BY <1>1, <1>2, <1>6, <1>7, <2>1, <2>2, <2>3, SendFlow
<1>9. \A s \in Replica : LogOf(s)' = IF s = r THEN LogOf(s) \o d ELSE LogOf(s)
  <2>1. Joined(log) = Joined(local_log_[r]) \o d
    BY <1>1, <1>3, FlowTypes, UpToFacts
  <2>2. \A s \in Replica : local_log_'[s] = IF s = r THEN log ELSE local_log_[s]
    BY <1>1, <1>2 DEF TypeOK
  <2> QED
    BY <2>1, <2>2 DEF LogOf
<1>10. \A s \in Replica : Asking(s)' = Asking(s)
  <2>1. \A s \in Targets(r) : NewSequence(r, s, log).type = "NEW_SEQUENCE"
    BY <1>1, <1>2, <1>5, NewSequenceFacts, OthersFacts
  <2> QED
    BY <1>2, <2>1 DEF Asking
<1> QED
  BY <1>8, <1>9, <1>10

\* r gives its schedulers a sequence of its own: the others' batches stay as they were.
LEMMA OwnGiven ==
    ASSUME TypeOK, NEW r \in Replica, NEW d \in Seq(Of(r)), Order(r, d), remote[r].data = <<>>,
           UNCHANGED <<remote, sequences_other_replicas_>>
    PROVE  /\ \A s, p \in Replica : s # p => Arrived(s, p)' = Arrived(s, p)
           /\ \A s \in Replica :
                 OrderOf(s, s)' = IF s = r THEN OrderOf(s, s) \o d ELSE OrderOf(s, s)
           /\ \A s \in Replica : s # r => OrderOf(s, r)' = OrderOf(s, r)
<1>1. d \in Data
  BY OfFacts
<1>2. Given(r)' = Given(r) \o d /\ \A q \in Replica : q # r => scheduler_'[q] = scheduler_[q]
  BY <1>1, OrderGiven
<1>3. PICK a \in Data, c \in Data : a = Given(r) /\ c = Queued(r)
  BY FlowTypes
<1>4. a \o <<>> = a /\ (a \o d) \o <<>> = a \o d /\ a \o d \in Data
  <2>1. a \o d \in Seq(BatchId) /\ a \in Seq(BatchId)
    BY <1>1 DEF Data
  <2> QED
    BY <2>1, ConcatEmptySeq DEF Data
<1>5. Got(r) = a \o c /\ Got(r)' = (a \o d) \o c
  <2>1. Got(r) = (a \o <<>>) \o c
    BY <1>3 DEF Got
  <2>2. Got(r)' = ((a \o d) \o <<>>) \o c
    BY <1>2, <1>3 DEF Got, Queued
  <2> QED
    BY <1>4, <2>1, <2>2
<1>6. ASSUME NEW s, s # r PROVE Keep(a \o d, Of(s)) = Keep(a, Of(s))
  <2>1. Keep(a \o d, Of(s)) = Keep(a, Of(s)) \o Keep(d, Of(s))
    BY <1>1, KeepData
  <2>2. Keep(d, Of(s)) = <<>>
    BY <1>6, OfFacts
  <2>3. Keep(a, Of(s)) \in Seq(BatchId)
    BY KeepType DEF Data
  <2>4. Keep(a, Of(s)) \o <<>> = Keep(a, Of(s))
    BY <2>3, ConcatEmptySeq
  <2> QED
    BY <2>1, <2>2, <2>4
<1>7. ASSUME NEW s \in Replica, NEW p \in Replica, s # p PROVE Arrived(s, p)' = Arrived(s, p)
  <2>1. CASE p # r
    BY <1>2, <2>1, GotSame
  <2>2. CASE p = r
    <3>1. Keep((a \o d) \o c, Of(s)) = Keep(a \o d, Of(s)) \o Keep(c, Of(s))
      BY <1>4, KeepData
    <3>2. Keep(a \o c, Of(s)) = Keep(a, Of(s)) \o Keep(c, Of(s))
      BY KeepData
    <3>3. Arrived(s, r)' = Keep(Got(r)', Of(s))
      BY DEF Arrived, Of
    <3> QED
      BY <1>5, <1>6, <1>7, <2>2, <3>1, <3>2, <3>3 DEF Arrived
  <2> QED
    BY <2>1, <2>2
<1>8. \A s : OrderOf(s, r) = Keep(a, Of(s)) /\ OrderOf(s, r)' = Keep(a \o d, Of(s))
  BY <1>2, <1>3 DEF OrderOf, Of
<1>9. OrderOf(r, r)' = OrderOf(r, r) \o d
  <2>1. Keep(a \o d, Of(r)) = Keep(a, Of(r)) \o Keep(d, Of(r))
    BY <1>1, KeepData
  <2>2. Keep(d, Of(r)) = d
    BY OfFacts
  <2> QED
    BY <1>8, <2>1, <2>2
<1>10. \A s \in Replica : s # r => OrderOf(s, r)' = OrderOf(s, r)
  BY <1>6, <1>8
<1>11. \A s \in Replica : s # r => OrderOf(s, s)' = OrderOf(s, s)
  BY <1>2, GotSame
<1> QED
  BY <1>7, <1>9, <1>10, <1>11

\* The own sequence is given to the schedulers, logged and sent.
LEMMA ProposeLocalFlow ==
    ASSUME IInv, HomeInv, FlowInv, NEW r \in Replica, ProposeLocal(r)
    PROVE  FlowInv'
<1> DEFINE d  == sequence_[r]
           lv == local_next_version[r] + 1
           gv == global_next_version[r] + 1
<1>1. /\ ~ Strong /\ pc[r] = "ready"
      /\ Order(r, d)
      /\ LogLocal(r, d, lv, gv)
      /\ UNCHANGED <<type_, remote, proposal, sequences_other_replicas_>> /\ TypeOK
  BY DEF ProposeLocal, inputs, IInv
<1>2. d \in Seq(Of(r)) /\ lv \in Nat /\ gv \in Nat
  BY <1>1 DEF HomeInv, LocalInv, Local, TypeOK
<1>3. remote[r].data = <<>>
  BY <1>1 DEF IInv, RemoteInv
<1> HIDE DEF d, lv, gv
<1>4. /\ \A s, p \in Replica : s # p => Arrived(s, p)' = Arrived(s, p)
      /\ \A s \in Replica : OrderOf(s, s)' = IF s = r THEN OrderOf(s, s) \o d ELSE OrderOf(s, s)
  BY <1>1, <1>2, <1>3, OwnGiven
<1>5. /\ \A s \in Replica : \A p \in Others(s) : FlowTo(s, p)'
      /\ \A s \in Replica : LogOf(s)' = IF s = r THEN LogOf(s) \o d ELSE LogOf(s)
  BY <1>1, <1>2, <1>4, LogLocalFlow
<1>6. ASSUME NEW s \in Replica PROVE FlowOwn(s)'
  <2>1. FlowOwn(s) /\ proposal[s] = <<>> /\ proposal' = proposal
    BY <1>1 DEF FlowInv, HomeInv, LocalInv, Local
  <2>2. LogOf(s) \o <<>> = LogOf(s) /\ (LogOf(s) \o d) \o <<>> = LogOf(s) \o d
    <3>1. LogOf(s) \in Seq(BatchId) /\ d \in Seq(BatchId)
      BY <1>1, <1>2, FlowTypes, OfFacts DEF Data
    <3>2. LogOf(s) \o d \in Seq(BatchId)
      BY <3>1, ConcatProperties
    <3> QED
      BY <3>1, <3>2, ConcatEmptySeq
  <2> QED
    BY <1>4, <1>5, <2>1, <2>2 DEF FlowOwn
<1>7. \A s : Others(s)' = Others(s)
  BY <1>1 DEF Others, Strong
<1> QED
  BY <1>1, <1>5, <1>6, <1>7 DEF FlowInv, Strong

\* The proposal moves to the log, and is sent.
LEMMA LogSynchronizedFlow ==
    ASSUME IInv, HomeInv, FlowInv, NEW r \in Replica, LogSynchronized(r)
    PROVE  FlowInv'
<1> DEFINE d  == proposal[r]
           lv == local_next_version[r]
           gv == global_next_version[r]
<1>1. /\ received_synchronize_ack[r]
      /\ LogLocal(r, d, lv, gv)
      /\ proposal' = [proposal EXCEPT ![r] = <<>>]
      /\ UNCHANGED <<type_, remote, sequences_other_replicas_, scheduler_>> /\ TypeOK
  BY DEF LogSynchronized, inputs, IInv
<1>2. d \in Seq(Of(r)) /\ lv \in Nat /\ gv \in Nat
  BY <1>1 DEF HomeInv, LocalInv, Local, TypeOK
<1>3. \A s, p : Arrived(s, p)' = Arrived(s, p) /\ OrderOf(s, p)' = OrderOf(s, p)
  BY <1>1 DEF Arrived, Got, Queued, Given, OrderOf
<1>4. /\ \A s \in Replica : \A p \in Others(s) : FlowTo(s, p)'
      /\ \A s \in Replica : LogOf(s)' = IF s = r THEN LogOf(s) \o proposal[s] ELSE LogOf(s)
      /\ \A s \in Replica : Asking(s)' = Asking(s)
  <2> HIDE DEF d, lv, gv
  <2>1. /\ \A s \in Replica : \A p \in Others(s) : FlowTo(s, p)'
        /\ \A s \in Replica : LogOf(s)' = IF s = r THEN LogOf(s) \o d ELSE LogOf(s)
        /\ \A s \in Replica : Asking(s)' = Asking(s)
    BY <1>1, <1>2, <1>3, LogLocalFlow
  <2> QED
    BY <2>1 DEF d
\* what is logged and what waits are together the same
<1>5. ASSUME NEW s \in Replica PROVE (LogOf(s) \o proposal[s])' = LogOf(s) \o proposal[s]
  <2>1. proposal'[s] = IF s = r THEN <<>> ELSE proposal[s]
    BY <1>1 DEF TypeOK
  <2>2. (LogOf(s) \o proposal[s]) \o <<>> = LogOf(s) \o proposal[s]
    <3>1. LogOf(s) \in Seq(BatchId) /\ proposal[s] \in Seq(BatchId)
      BY <1>1, FlowTypes DEF Data
    <3>2. LogOf(s) \o proposal[s] \in Seq(BatchId)
      BY <3>1, ConcatProperties
    <3> QED
      BY <3>2, ConcatEmptySeq
  <2> QED
    BY <1>4, <2>1, <2>2
<1>6. ASSUME NEW s \in Replica PROVE FlowOwn(s)'
  BY <1>3, <1>5 DEF FlowInv, FlowOwn
<1>7. ASSUME Strong, NEW s \in Replica PROVE FlowClosed(s)'
  <2>1. FlowClosed(s)
    BY <1>7 DEF FlowInv
  <2>2. CASE s = r
    <3>1. Asking(s) = {}
      BY <1>1, <1>7, <2>2 DEF IInv, SyncInv, Asked, Asking
    <3> QED
      BY <1>3, <1>4, <1>5, <2>1, <3>1 DEF FlowClosed
  <2>3. CASE s # r
    <3>1. LogOf(s)' = LogOf(s)
      BY <1>4, <2>3
    <3> QED
      BY <1>3, <1>4, <1>5, <2>1, <3>1 DEF FlowClosed
  <2> QED
    BY <2>2, <2>3
<1>8. \A s : Others(s)' = Others(s)
  BY <1>1 DEF Others, Strong
<1> QED
  BY <1>1, <1>4, <1>6, <1>7, <1>8 DEF FlowInv, Strong

\* The own sequence waits as the proposal, and is on its way to closed_replica.
LEMMA ProposeStrongFlow ==
    ASSUME IInv, HomeInv, FlowInv, NEW r \in Replica, ProposeStrong(r)
    PROVE  FlowInv'
<1> DEFINE d == sequence_[r]
           n == Msg("SYNCHRONIZE", r, closed_replica(r), 0, <<d>>)
<1>1. /\ Strong /\ pc[r] = "ready"
      /\ Order(r, d)
      /\ messages' = messages \cup {n}
      /\ proposal' = [proposal EXCEPT ![r] = d]
      /\ UNCHANGED <<type_, remote, sequences_other_replicas_, local_log_,
                     readers_for_local_log_>>
      /\ TypeOK
  BY DEF ProposeStrong, inputs, IInv, sent
<1>2. d \in Seq(Of(r)) /\ d \in Data
  BY <1>1 DEF HomeInv, LocalInv, Local, TypeOK
<1>3. remote[r].data = <<>> /\ proposal[r] = <<>>
  BY <1>1 DEF IInv, RemoteInv, SyncInv, Waiting
<1>4. n.type = "SYNCHRONIZE" /\ n.from = r
  BY MsgFacts
<1> HIDE DEF d, n
<1>5. /\ \A s, p \in Replica : s # p => Arrived(s, p)' = Arrived(s, p)
      /\ \A s \in Replica : OrderOf(s, s)' = IF s = r THEN OrderOf(s, s) \o d ELSE OrderOf(s, s)
  BY <1>1, <1>2, <1>3, OwnGiven
<1>6. \A s : LogOf(s)' = LogOf(s) /\ Others(s)' = Others(s)
  BY <1>1 DEF LogOf, Others, Strong
<1>7. \A s, p : SentOf(s, p)' = SentOf(s, p) /\ New(s, p)' = New(s, p)
  BY <1>1, <1>4 DEF SentOf, New
<1>8. \A s \in Replica : proposal'[s] = IF s = r THEN d ELSE proposal[s]
  BY <1>1 DEF TypeOK
<1>9. LogOf(r) \o proposal[r] = LogOf(r)
  <2>1. LogOf(r) \in Seq(BatchId)
    BY <1>1, FlowTypes DEF Data
  <2> QED
    BY <1>3, <2>1, ConcatEmptySeq
<1>10. ASSUME NEW s \in Replica PROVE FlowOwn(s)'
  <2>1. FlowOwn(s)
    BY DEF FlowInv
  <2> QED
    BY <1>5, <1>6, <1>8, <1>9, <2>1 DEF FlowOwn
<1>11. ASSUME NEW s \in Replica, NEW p \in Others(s) PROVE FlowTo(s, p)'
  <2>1. p \in Replica /\ s # p /\ FlowTo(s, p)
    BY OthersFacts DEF FlowInv
  <2>2. Arrived(s, p)' = Arrived(s, p)
    BY <1>5, <2>1
  <2> QED
    BY <1>7, <2>1, <2>2 DEF FlowTo
<1>12. ASSUME NEW s \in Replica PROVE FlowClosed(s)'
  <2> DEFINE c == closed_replica(s)
  <2>1. c \in Replica /\ s # c /\ FlowClosed(s)
    BY <1>1, Basics, OthersFacts DEF TypeOK, FlowInv
  <2>2. Arrived(s, c)' = Arrived(s, c)
    BY <1>5, <2>1
  <2>3. CASE s = r
    <3>1. Asking(s) = {}
      BY <1>1, <1>3, <2>3 DEF IInv, SyncInv, Asked, Asking
    <3>2. Asking(s)' # {}
      BY <1>1, <1>4, <2>3 DEF Asking
    <3> QED
      BY <1>6, <1>9, <2>1, <2>2, <2>3, <3>1, <3>2 DEF FlowClosed
  <2>4. CASE s # r
    <3>1. Asking(s)' = Asking(s)
      BY <1>1, <1>4, <2>4 DEF Asking
    <3> QED
      BY <1>6, <1>8, <2>1, <2>2, <2>4, <3>1 DEF FlowClosed
  <2> QED
    BY <2>3, <2>4
<1> QED
  BY <1>6, <1>10, <1>11, <1>12 DEF FlowInv

\* The token is there: what is sent now follows all that has arrived.
LEMMA OnNewSequenceAckFlow ==
    ASSUME IInv, HomeInv, FlowInv, NEW m \in messages, OnNewSequenceAck(m)
    PROVE  FlowInv'
<1>1. /\ m.type = "NEW_SEQUENCE_ACK"
      /\ UNCHANGED <<type_, turn, sequences_other_replicas_, logs>> /\ TypeOK /\ TokenInv
  BY DEF OnNewSequenceAck, Receive, inputs, IInv
<1>2. UNCHANGED <<type_, proposal, local_log_, scheduler_, remote>>
  BY <1>1 DEF turn, logs
<1>3. \A s, p : Arrived(s, p)' = Arrived(s, p) /\ OrderOf(s, p)' = OrderOf(s, p)
  BY <1>1, <1>2 DEF Arrived, Got, Queued, Given, OrderOf
<1>4. PICK r \in Replica, s \in Replica : r = m.to /\ s = m.from /\ s \in Others(r)
  BY <1>1 DEF TypeOK, Message, HomeInv, SentInv, Sent
<1> DEFINE log == local_log_[r]
<1>5. CASE Unsent(r, s, log) = <<>>
  <2>1. messages' = messages \ {m} /\ readers_for_local_log_' = readers_for_local_log_
    BY <1>4, <1>5 DEF OnNewSequenceAck
  <2>2. \A x : x.type \in {"NEW_SEQUENCE", "SYNCHRONIZE"} => (x \in messages' <=> x \in messages)
    BY <1>1, <2>1
  <2> QED
    BY <1>1, <1>2, <1>3, <2>1, <2>2, FlowSame
<1>6. CASE Unsent(r, s, log) # <<>>
  <2>1. /\ messages' = (messages \ {m}) \cup {NewSequence(r, q, log) : q \in {s}}
        /\ readers_for_local_log_' = [readers_for_local_log_ EXCEPT
              ![r] = [q \in Replica |-> IF q \in {s} THEN Len(log)
                                        ELSE readers_for_local_log_[r][q]]]
    BY <1>4, <1>6 DEF OnNewSequenceAck, SendNew
  <2>2. log \in Seq(Entry) /\ log \in Seq(OwnEntry(r)) /\ readers_for_local_log_[r][s] \in Nat
    <3>1. log \in Seq(Entry)
      BY <1>1, <1>4, FlowTypes
    <3>2. log \in Seq(OwnEntry(r))
      BY <1>4 DEF HomeInv, LocalInv, Local
    <3>3. readers_for_local_log_[r][s] \in Nat
      BY <1>1, <1>4 DEF TypeOK
    <3> QED
      BY <3>1, <3>2, <3>3
  <2>3. log # <<>>
    <3> DEFINE a == readers_for_local_log_[r][s] + 1
    <3>1. a \in Int /\ 0 < a
      BY <2>2
    <3> HIDE DEF a
    <3>2. SubSeq(<<>>, a, 0) = <<>>
      BY <3>1, SubSeqEmpty
    <3>3. log = <<>> => Unsent(r, s, log) = SubSeq(<<>>, a, 0)
      BY DEF Unsent, a
    <3> QED
      BY <1>6, <3>2, <3>3
  <2>4. \A q \in {s} : NewSequence(r, q, log).data = Contents(Unsent(r, q, log))
    BY <1>1, <1>4, <2>2, <2>3, NewSequenceOwn
  <2>5. local_log_' = [local_log_ EXCEPT ![r] = log]
    BY <1>1, <1>2 DEF TypeOK
  <2>6. \A q \in {s} : New(r, q) = {}
    <3>1. m \in Exchange(r, s)
      BY <1>1, <1>4 DEF Exchange
    <3>2. \E x : Exchange(r, s) = {x}
      <4>1. Token(r, s)
        BY <1>1, <1>4 DEF TokenInv
      <4>2. Exchange(r, s) # {}
        BY <3>1
      <4> QED
        BY <2>3, <4>1, <4>2, Zenon DEF Token
    <3>3. Exchange(r, s) = {m}
      BY <3>1, <3>2
    <3> QED
      BY <1>1, <3>3 DEF New, Exchange
  <2>7. PICK l \in Seq(Entry) : l = log
    BY <2>2
  <2>8. PICK targets \in SUBSET Others(r) : targets = {s}
    BY <1>4
  <2>9. PICK other \in SUBSET messages : other = messages \ {m}
    OBVIOUS
  <2>10. \A x \in messages : x.type = "NEW_SEQUENCE" => x \in other
    BY <1>1, <2>9
  <2>11. \A p \in Replica : \A q \in Others(p) : FlowTo(p, q)'
    <3> HIDE DEF log
    <3>1. l = local_log_[r] /\ l # <<>> /\ local_log_' = [local_log_ EXCEPT ![r] = l]
      BY <2>3, <2>5, <2>7 DEF log
    <3>2. /\ messages' = other \cup {NewSequence(r, q, l) : q \in targets}
          /\ readers_for_local_log_' = [readers_for_local_log_ EXCEPT
                ![r] = [q \in Replica |-> IF q \in targets THEN Len(l)
                                          ELSE readers_for_local_log_[r][q]]]
      BY <2>1, <2>7, <2>8, <2>9
    <3>3. \A q \in targets :
             NewSequence(r, q, l).data = Contents(Unsent(r, q, l)) /\ New(r, q) = {}
      BY <2>4, <2>6, <2>7, <2>8
    <3>4. UNCHANGED type_ /\ \A q, p \in Replica : q # p => Arrived(q, p)' = Arrived(q, p)
      BY <1>1, <1>3
    <3> QED
      BY <1>1, <2>10, <3>1, <3>2, <3>3, <3>4, SendFlow
  <2>12. \A p : LogOf(p)' = LogOf(p) /\ Others(p)' = Others(p)
    BY <1>2 DEF LogOf, Others, Strong
  <2>13. \A p : Asking(p)' = Asking(p)
    <3>1. NewSequence(r, s, log).type = "NEW_SEQUENCE"
      BY <1>1, <2>2, <2>3, NewSequenceFacts, OthersFacts
    <3> QED
      BY <1>1, <2>1, <3>1 DEF Asking
  <2>14. \A p \in Replica : FlowOwn(p)'
    BY <1>2, <1>3, <2>12 DEF FlowInv, FlowOwn
  <2>15. Strong => \A p \in Replica : FlowClosed(p)'
    BY <1>2, <1>3, <2>12, <2>13 DEF FlowInv, FlowClosed
  <2> QED
    BY <1>2, <2>11, <2>12, <2>14, <2>15 DEF FlowInv, Strong
<1> QED
  BY <1>5, <1>6

\* At first nothing has flowed.
LEMMA InitFlow == Init => FlowInv
<1> SUFFICES ASSUME Init PROVE FlowInv
  OBVIOUS
<1>1. Joined(<<>>) = <<>> /\ \A s : Keep(<<>>, Of(s)) = <<>>
  <2>1. <<>> \in Seq(Entry) /\ Len(<<>>) = 0
    OBVIOUS
  <2>2. Joined(<<>>) = <<>>
    BY <2>1, UpToFacts
  <2> QED
    BY <2>2, KeepOne
<1>2. <<>> \o <<>> = <<>>
  OBVIOUS
<1>3. ASSUME NEW r \in Replica
      PROVE  /\ LogOf(r) = <<>> /\ proposal[r] = <<>>
             /\ \A s : OrderOf(s, r) = <<>> /\ Arrived(s, r) = <<>>
  <2>1. /\ scheduler_[r] = <<>> /\ local_log_[r] = <<>> /\ proposal[r] = <<>>
        /\ remote[r].data = <<>> /\ sequences_other_replicas_[r] = <<>>
    BY DEF Init, Nothing
  <2>2. Given(r) = <<>> /\ Queued(r) = <<>> /\ LogOf(r) = <<>>
    <3>1. Given(r) = Joined(scheduler_[r])
      BY DEF Given, Joined, Contents
    <3> QED
      BY <1>1, <2>1, <3>1 DEF Queued, LogOf
  <2>3. Got(r) = <<>>
    BY <1>2, <2>1, <2>2 DEF Got
  <2> QED
    BY <1>1, <2>1, <2>2, <2>3 DEF OrderOf, Of, Arrived
<1>4. \A s, r \in Replica : SentOf(s, r) = <<>>
  <2>1. <<>> \in Seq(Entry)
    OBVIOUS
  <2>2. UpTo(<<>>, 0) = <<>>
    BY <2>1, UpToFacts
  <2> QED
    BY <2>2 DEF Init, SentOf
<1>5. messages = {}
  BY DEF Init
<1>6. \A s \in Replica : FlowOwn(s)
  BY <1>2, <1>3 DEF FlowOwn
<1>7. \A s \in Replica : \A r \in Others(s) : FlowTo(s, r)
  BY <1>3, <1>4, <1>5, OthersFacts DEF FlowTo, New
<1>8. Strong => \A s \in Replica : FlowClosed(s)
  BY <1>2, <1>3, <1>5, Basics DEF FlowClosed, Asking, Init
<1> QED
  BY <1>6, <1>7, <1>8 DEF FlowInv

\* Every step keeps the flow.
LEMMA NextFlow == IInv /\ HomeInv /\ FlowInv /\ [Next]_vars => FlowInv'
<1> SUFFICES ASSUME IInv, HomeInv, FlowInv, [Next]_vars PROVE FlowInv'
  OBVIOUS
<1>1. ASSUME NEW b \in Batch, WriteBatch(b) PROVE FlowInv'
  BY <1>1, WriteBatchFlow
<1>2. ASSUME NEW m \in messages, ForwardBatch(m) \/ AppendBatch(m) PROVE FlowInv'
  BY <1>2, ForwardBatchFlow, AppendBatchFlow
<1>3. ASSUME NEW m \in messages, ReceiveMessage(m) PROVE FlowInv'
  BY <1>3, OnMRTxnsBatchFlow, OnNewSequenceFlow, OnNewSequenceAckFlow, OnSynchronizeFlow,
     OnSynchronizeAckFlow DEF ReceiveMessage
<1>4. ASSUME NEW r \in Replica, LeaderNext(r) PROVE FlowInv'
  BY <1>4, ProposeLocalFlow, ProposeStrongFlow, LogSynchronizedFlow, TakeRemoteFlow,
     GenerateFlow, OrderRemoteFlow DEF LeaderNext
<1>5. ASSUME UNCHANGED vars PROVE FlowInv'
  BY <1>5, FlowUnchanged DEF vars, inputs, IInv
<1> QED
  BY <1>1, <1>2, <1>3, <1>4, <1>5 DEF Next

\* What a replica has got of another one is the beginning of that one's order.
LEMMA ArrivedFirst ==
    ASSUME IInv, HomeInv, FlowInv, NEW s \in Replica, NEW r \in Replica, r # s
    PROVE  Begins(BatchId, Arrived(s, r), OrderOf(s, s))
<1>1. TypeOK /\ FlowOwn(s)
  BY DEF IInv, FlowInv
<1>2. PICK l \in Seq(BatchId), p \in Seq(BatchId), a \in Seq(BatchId) :
         l = LogOf(s) /\ p = proposal[s] /\ a = Arrived(s, r)
  BY <1>1, FlowTypes DEF Data
<1>3. OrderOf(s, s) = l \o p /\ l \o p \in Seq(BatchId)
  BY <1>1, <1>2 DEF FlowOwn
<1>4. Begins(BatchId, l, l \o p)
  BY DEF Begins
<1>5. CASE r \in Others(s)
  <2>1. PICK n \in 0..Len(local_log_[s]) : n = readers_for_local_log_[s][r]
    <3>1. Token(s, r)
      BY <1>5 DEF IInv, TokenInv
    <3>2. readers_for_local_log_[s][r] \in Nat
      BY <1>1 DEF TypeOK
    <3>3. Len(local_log_[s]) \in Nat
      BY <1>1, FlowTypes
    <3> QED
      BY <3>1, <3>2, <3>3 DEF Token
  <2>2. PICK u \in Seq(BatchId), v \in Seq(BatchId) : u = SentOf(s, r) /\ l = u \o v
    BY <1>1, <1>2, <2>1, FlowTypes, UpToFacts DEF SentOf, LogOf, Data
  <2>3. Begins(BatchId, u, l \o p)
    <3>1. Begins(BatchId, u, l)
      BY <2>2 DEF Begins
    <3> QED
      BY <1>3, <1>4, <3>1, BeginsOrder
  <2>4. CASE New(s, r) = {}
    BY <1>2, <1>3, <1>5, <2>2, <2>3, <2>4 DEF FlowInv, FlowTo
  <2>5. CASE New(s, r) # {}
    <3>1. PICK m \in messages : m.type = "NEW_SEQUENCE" /\ a \o FlattenSeq(m.data) = u
      BY <1>2, <1>5, <2>2, <2>5 DEF FlowInv, FlowTo, New
    <3>2. m.data \in Seq(Data)
      BY <1>1, <3>1 DEF TypeOK, Message
    <3>3. FlattenSeq(m.data) \in Seq(BatchId)
      BY <3>2, FlattenType DEF Data
    <3>4. Begins(BatchId, a, u)
      BY <3>1, <3>3 DEF Begins
    <3> QED
      BY <1>2, <1>3, <2>3, <3>4, BeginsOrder
  <2> QED
    BY <2>4, <2>5
<1>6. CASE Strong /\ r = closed_replica(s)
  <2>1. a = l \/ a = l \o p
    BY <1>2, <1>6 DEF FlowInv, FlowClosed
  <2>2. Begins(BatchId, l \o p, l \o p)
    BY <1>3, BeginsOrder
  <2> QED
    BY <1>2, <1>3, <1>4, <2>1, <2>2
<1> QED
  BY <1>5, <1>6, OthersFacts

\* So is what it has given to its schedulers.
LEMMA GivenFirst ==
    ASSUME IInv, HomeInv, FlowInv, NEW s \in Replica, NEW r \in Replica
    PROVE  Begins(BatchId, OrderOf(s, r), OrderOf(s, s))
<1>1. TypeOK
  BY DEF IInv
<1>2. OrderOf(s, r) \in Seq(BatchId) /\ OrderOf(s, s) \in Seq(BatchId)
      /\ Arrived(s, r) \in Seq(BatchId)
  BY <1>1, FlowTypes DEF Data
<1>3. CASE r = s
  BY <1>2, <1>3, BeginsOrder
<1>4. CASE r # s
  <2>1. PICK g \in Data, d \in Data, q \in Data :
           /\ g = Given(r) /\ d = remote[r].data /\ q = Queued(r)
    BY <1>1, FlowTypes
  <2>2. d \o q \in Data /\ Got(r) = g \o (d \o q)
    <3>1. (g \o d) \o q = g \o (d \o q) /\ d \o q \in Data
      BY Basics DEF Data
    <3> QED
      BY <2>1, <3>1 DEF Got
  <2>3. Keep(g \o (d \o q), Of(s)) = Keep(g, Of(s)) \o Keep(d \o q, Of(s))
    BY <2>2, KeepData
  <2>4. Keep(d \o q, Of(s)) \in Seq(BatchId)
    BY <2>2, KeepType DEF Data
  <2>5. OrderOf(s, r) = Keep(g, Of(s))
    BY <1>1, <2>1, FlowTypes
  <2>6. Begins(BatchId, OrderOf(s, r), Arrived(s, r))
    BY <2>2, <2>3, <2>4, <2>5 DEF Begins, Arrived
  <2> QED
    BY <1>2, <1>4, <2>6, ArrivedFirst, BeginsOrder
<1> QED
  BY <1>3, <1>4

\* The inductive invariant of the order.
LEMMA FlowInvariance == Spec => [](IInv /\ HomeInv /\ FlowInv)
<1>1. Init => IInv /\ HomeInv /\ FlowInv
  BY InitIsInductive, InitHome, InitFlow
<1>2. IInv /\ HomeInv /\ FlowInv /\ [Next]_vars => IInv' /\ HomeInv' /\ FlowInv'
  BY NextIsInductive, NextHome, NextFlow
<1> QED
  BY <1>1, <1>2, PTL DEF Spec

\* Whatever is lost, late or handled in between, the batches of a replica run everywhere in
\* the order in which that replica itself runs them (readers_for_local_log_ and the acks
\* in RunLeader(), HandleRemoteBatch()).
THEOREM OneOrder == Spec => []OneOrderPerHome
<1>1. IInv /\ HomeInv /\ FlowInv => OneOrderPerHome
  <2> SUFFICES ASSUME IInv, HomeInv, FlowInv, NEW r \in Replica, NEW s \in Replica
               PROVE  IsPrefix(OrderOf(s, r), OrderOf(s, s))
    BY DEF OneOrderPerHome
  <2>1. OrderOf(s, r) \in Seq(BatchId) /\ OrderOf(s, s) \in Seq(BatchId)
    BY FlowTypes DEF IInv, Data
  <2> QED
    BY <2>1, GivenFirst, BeginsIsPrefix
<1> QED
  BY <1>1, FlowInvariance, PTL

-----------------------------------------------------------------------------
(* The batches that replicas generate for multi-replica transactions. *)

\* The batches of replica 0 with transactions for r, and those that r has worked off.
For(r)    == {b \in Batch : r \in Involved[b]}
Doing(r)  == SubSeq(ToGenerate(r), 1, remote[r].index)
Worked(r) == OrderOf(0, r) \o Doing(r)

\* What r has generated, ordered or waiting.
Made(r) == Keep(OrderOf(r, r) \o sequence_[r], Replica \X Batch)

\* r has generated one for every batch that it has worked off, in their order.
Multi(r) == Made(r) = Gen(r, Keep(Worked(r), For(r)))

MultiInv == 0 \in Replica => \A r \in Replica \ {0} : Multi(r)

\* Their types; the sequence being handled is replica 0's, or there is nothing to generate.
LEMMA MultiTypes ==
    ASSUME TypeOK, HomeInv, NEW r \in Replica \ {0}
    PROVE  /\ ToGenerate(r) \in Data /\ remote[r].index \in 0..Len(ToGenerate(r))
           /\ ToGenerate(r) = Keep(remote[r].data, Of(0))
           /\ Doing(r) \in Data /\ Worked(r) \in Data
           /\ Made(r) \in Data
<1>1. remote[r].data \in Data /\ remote[r].index \in Nat
  BY DEF TypeOK
<1>2. remote[r].data \in Seq(Of(remote[r].from)) /\ remote[r].index <= Len(ToGenerate(r))
  BY DEF HomeInv, ForeignInv, Remote
<1>3. ToGenerate(r) = Keep(remote[r].data, Of(0))
  <2>1. CASE remote[r].from = 0
    <3>1. Keep(remote[r].data, Of(0)) = remote[r].data
      BY <1>2, <2>1, OfFacts
    <3> QED
      BY <2>1, <3>1 DEF ToGenerate
  <2>2. CASE remote[r].from # 0
    <3>1. Keep(remote[r].data, Of(0)) = <<>>
      BY <1>2, <2>2, OfFacts
    <3> QED
      BY <2>2, <3>1 DEF ToGenerate
  <2> QED
    BY <2>1, <2>2
<1>4. ToGenerate(r) \in Data
  BY <1>1, Basics DEF ToGenerate
<1>5. remote[r].index \in 0..Len(ToGenerate(r))
  <2>1. Len(ToGenerate(r)) \in Nat
    BY <1>4 DEF Data
  <2> QED
    BY <1>1, <1>2, <2>1
<1>6. Doing(r) \in Data
  <2>1. PICK t \in Seq(BatchId), n \in Nat :
           t = ToGenerate(r) /\ n = remote[r].index /\ n \in 0..Len(t)
    BY <1>4, <1>5 DEF Data
  <2>2. SubSeq(t, 1, n) \in Seq(BatchId)
    BY <2>1
  <2> QED
    BY <2>1, <2>2 DEF Doing, Data
<1>7. Worked(r) \in Data
  BY <1>6, FlowTypes, Basics DEF Worked
<1>8. Made(r) \in Data
  <2>1. OrderOf(r, r) \o sequence_[r] \in Data
    BY FlowTypes, Basics
  <2> QED
    BY <2>1, KeepType DEF Made, Data
<1> QED
  BY <1>3, <1>4, <1>5, <1>6, <1>7, <1>8

\* What is generated of two sequences one after another.
LEMMA KeepMade ==
    ASSUME NEW x \in Data, NEW y \in Data
    PROVE  Keep(x \o y, Replica \X Batch)
              = Keep(x, Replica \X Batch) \o Keep(y, Replica \X Batch)
BY KeepConcat DEF Data

\* What is generated for two sequences one after another.
LEMMA GenKeep ==
    ASSUME NEW r \in Replica, NEW x \in Data, NEW y \in Data
    PROVE  /\ Keep(x, For(r)) \in Seq(Batch) /\ Gen(r, Keep(x, For(r))) \in Data
           /\ Gen(r, Keep(x \o y, For(r)))
                 = Gen(r, Keep(x, For(r))) \o Gen(r, Keep(y, For(r)))
<1>1. ASSUME NEW z \in Data PROVE Keep(z, For(r)) \in Seq(Batch)
  <2>1. Keep(z, For(r)) \in Seq(For(r))
    BY KeepIn DEF Data
  <2>2. For(r) \subseteq Batch
    BY DEF For
  <2> QED
    BY <2>1, <2>2
<1>2. Keep(x \o y, For(r)) = Keep(x, For(r)) \o Keep(y, For(r))
  BY KeepConcat DEF Data
<1>3. PICK a \in Seq(Batch), b \in Seq(Batch) : a = Keep(x, For(r)) /\ b = Keep(y, For(r))
  BY <1>1
<1>4. Gen(r, a \o b) = Gen(r, a) \o Gen(r, b) /\ Gen(r, a) \in Data
  BY GenFacts
<1> QED
  BY <1>2, <1>3, <1>4

\* Nothing changes for r.
LEMMA MultiSame ==
    ASSUME NEW r, Multi(r), sequence_'[r] = sequence_[r], remote'[r] = remote[r],
           scheduler_'[r] = scheduler_[r]
    PROVE  Multi(r)'
<1>1. \A s : OrderOf(s, r)' = OrderOf(s, r)
  BY GotSame
<1>2. ToGenerate(r)' = ToGenerate(r)
  BY DEF ToGenerate
<1>3. Worked(r)' = Worked(r)
  BY <1>1, <1>2 DEF Worked, Doing
<1>4. Made(r)' = Made(r)
  BY <1>1 DEF Made
<1> QED
  BY <1>3, <1>4 DEF Multi

\* Nothing changes for any replica.
LEMMA MultiUnchanged ==
    ASSUME MultiInv, UNCHANGED <<sequence_, remote, scheduler_>>
    PROVE  MultiInv'
<1> SUFFICES ASSUME 0 \in Replica, NEW r \in Replica \ {0} PROVE Multi(r)'
  BY DEF MultiInv
<1> QED
  BY MultiSame DEF MultiInv

\* The batches of sequencers are not generated ones.
LEMMA AppendBatchMulti ==
    ASSUME IInv, HomeInv, MultiInv, NEW m \in messages, AppendBatch(m)
    PROVE  MultiInv'
<1> SUFFICES ASSUME 0 \in Replica, NEW r \in Replica \ {0} PROVE Multi(r)'
  BY DEF MultiInv
<1>1. /\ sequence_' = [sequence_ EXCEPT ![m.to] = @ \o m.data[1]]
      /\ m.type = "BATCH_SUBMIT"
      /\ UNCHANGED <<remote, scheduler_>> /\ Multi(r) /\ TypeOK
  BY DEF AppendBatch, turn, logs, IInv, MultiInv
<1>2. CASE r # m.to
  <2>1. sequence_'[r] = sequence_[r]
    BY <1>1, <1>2 DEF TypeOK
  <2> QED
    BY <1>1, <2>1, MultiSame
<1>3. CASE r = m.to
  <2>1. PICK b \in Batch : m.data[1] = <<b>>
    <3>1. PICK b \in Batch : m.data = <<<<b>>>>
      BY <1>1 DEF IInv, BatchInv
    <3> QED
      BY <3>1
  <2>2. PICK o \in Data, s \in Data, d \in Data :
           o = OrderOf(r, r) /\ s = sequence_[r] /\ d = <<b>>
    BY <1>1, FlowTypes, Basics
  <2>3. sequence_'[r] = s \o d
    BY <1>1, <1>3, <2>1, <2>2 DEF TypeOK
  <2>4. \A p : OrderOf(p, r)' = OrderOf(p, r)
    BY <1>1, GotSame
  <2>5. o \o (s \o d) = (o \o s) \o d /\ o \o s \in Data
    BY Basics DEF Data
  <2>6. Keep((o \o s) \o d, Replica \X Batch)
           = Keep(o \o s, Replica \X Batch) \o Keep(d, Replica \X Batch)
    BY <2>5, KeepMade
  <2>7. Keep(d, Replica \X Batch) = <<>>
    <3>1. b \notin Replica \X Batch
      BY GeoLogAssumption
    <3> QED
      BY <2>2, <3>1, KeepOne
  <2>8. Keep(o \o s, Replica \X Batch) \o <<>> = Keep(o \o s, Replica \X Batch)
    <3>1. Keep(o \o s, Replica \X Batch) \in Seq(BatchId)
      BY <2>5, KeepType DEF Data
    <3> QED
      BY <3>1, ConcatEmptySeq
  <2>9. Made(r)' = Made(r)
    BY <2>2, <2>3, <2>4, <2>5, <2>6, <2>7, <2>8 DEF Made
  <2>10. Worked(r)' = Worked(r)
    BY <1>1, <2>4 DEF Worked, Doing, ToGenerate
  <2> QED
    BY <1>1, <2>9, <2>10 DEF Multi
<1> QED
  BY <1>2, <1>3

\* What waited is ordered.
LEMMA OrderOwnMulti ==
    ASSUME IInv, HomeInv, MultiInv, NEW p \in Replica, Order(p, sequence_[p]),
           remote[p].data = <<>>, UNCHANGED <<remote, sequences_other_replicas_>>,
           sequence_' = [sequence_ EXCEPT ![p] = <<>>]
    PROVE  MultiInv'
<1> SUFFICES ASSUME 0 \in Replica, NEW r \in Replica \ {0} PROVE Multi(r)'
  BY DEF MultiInv
<1>1. TypeOK /\ Multi(r) /\ sequence_[p] \in Data /\ sequence_[p] \in Seq(Of(p))
  BY DEF IInv, MultiInv, TypeOK, HomeInv, LocalInv, Local
<1>2. CASE r # p
  <2>1. sequence_'[r] = sequence_[r]
    BY <1>1, <1>2 DEF TypeOK
  <2>2. scheduler_'[r] = scheduler_[r]
    BY <1>1, <1>2, OrderGiven
  <2> QED
    BY <1>1, <2>1, <2>2, MultiSame
<1>3. CASE r = p
  <2>1. PICK o \in Seq(BatchId), d \in Seq(BatchId) : o = OrderOf(r, r) /\ d = sequence_[r]
    BY <1>1, FlowTypes DEF Data
  <2>2. OrderOf(r, r)' = o \o d /\ OrderOf(0, r)' = OrderOf(0, r)
    BY <1>1, <1>3, <2>1, OwnGiven
  <2>3. sequence_'[r] = <<>>
    BY <1>1, <1>3 DEF TypeOK
  <2>4. (o \o d) \o <<>> = o \o d
    <3>1. o \o d \in Seq(BatchId)
      OBVIOUS
    <3> QED
      BY <3>1, ConcatEmptySeq
  <2>5. Made(r)' = Made(r)
    BY <2>1, <2>2, <2>3, <2>4 DEF Made
  <2>6. Worked(r)' = Worked(r)
    BY <2>2 DEF Worked, Doing, ToGenerate
  <2> QED
    BY <1>1, <2>5, <2>6 DEF Multi
<1> QED
  BY <1>2, <1>3

\* The turn of the local sequence.
LEMMA ProposeMulti ==
    ASSUME IInv, HomeInv, MultiInv, NEW r \in Replica, ProposeLocal(r) \/ ProposeStrong(r)
    PROVE  MultiInv'
<1>1. /\ pc[r] = "ready" /\ Order(r, sequence_[r])
      /\ sequence_' = [sequence_ EXCEPT ![r] = <<>>]
      /\ UNCHANGED <<remote, sequences_other_replicas_>>
  BY DEF ProposeLocal, ProposeStrong
<1>2. remote[r].data = <<>>
  BY <1>1 DEF IInv, RemoteInv
<1> QED
  BY <1>1, <1>2, OrderOwnMulti

\* One more batch is worked off, and one generated for it if it is for r.
LEMMA GenerateMulti ==
    ASSUME IInv, HomeInv, MultiInv, NEW p \in Replica, Generate(p)
    PROVE  MultiInv'
<1> SUFFICES ASSUME 0 \in Replica, NEW r \in Replica \ {0} PROVE Multi(r)'
  BY DEF MultiInv
<1> DEFINE b == NextToGenerate(p)
           x == [remote[p] EXCEPT !.index = @ + 1]
           w == IF p \in Involved[b] THEN Append(sequence_[p], Generated(p, b))
                ELSE sequence_[p]
<1>1. /\ Generating(p) /\ b \in mr_txn_batches_[p]
      /\ sequence_' = [sequence_ EXCEPT ![p] = w]
      /\ remote' = [remote EXCEPT ![p] = x]
      /\ UNCHANGED scheduler_ /\ Multi(r) /\ TypeOK
  BY DEF Generate, logs, IInv, MultiInv
<1>2. b \in Batch
  BY <1>1 DEF TypeOK
<1>3. x.data = remote[p].data /\ x.from = remote[p].from /\ x.index = remote[p].index + 1
  BY <1>1 DEF TypeOK
<1> HIDE DEF x
<1>4. CASE r # p
  <2>1. sequence_'[r] = sequence_[r] /\ remote'[r] = remote[r]
    BY <1>1, <1>4 DEF TypeOK
  <2> QED
    BY <1>1, <2>1, MultiSame
<1>5. CASE r = p
  <2>1. sequence_'[r] = w /\ remote'[r] = x
    BY <1>1, <1>5 DEF TypeOK
  <2>2. \A s : OrderOf(s, r)' = OrderOf(s, r)
    BY <1>1, GotSame
  <2>3. ToGenerate(r)' = ToGenerate(r)
    BY <1>3, <1>5, <2>1 DEF ToGenerate
  <2>4. PICK t \in Seq(BatchId), n \in Nat :
           t = ToGenerate(r) /\ n = remote[r].index /\ n < Len(t) /\ t[n + 1] = b
    BY <1>1, <1>5, MultiTypes DEF Generating, NextToGenerate, TypeOK, Data
  <2>5. PICK c \in Data : c = <<b>>
    BY <1>2, Basics
  <2>6. SubSeq(t, 1, n + 1) = SubSeq(t, 1, n) \o c
    <3>1. 1 \in 1..Len(t) /\ n + 1 \in 1..Len(t) /\ (n + 1) - 1 = n
      BY <2>4
    <3>2. SubSeq(t, 1, n + 1) = SubSeq(t, 1, (n + 1) - 1) \o <<t[n + 1]>>
      BY <3>1, SubSeqRecursiveSecond
    <3> QED
      BY <2>4, <2>5, <3>1, <3>2
  <2>7. PICK g \in Data, f \in Data : g = OrderOf(0, r) /\ f = Doing(r)
    BY <1>1, FlowTypes, MultiTypes
  <2>8. Doing(r)' = f \o c
    <3>1. Doing(r)' = SubSeq(t, 1, n + 1)
      BY <1>3, <1>5, <2>1, <2>3, <2>4 DEF Doing
    <3> QED
      BY <2>4, <2>6, <2>7, <3>1 DEF Doing
  <2>9. g \o (f \o c) = (g \o f) \o c /\ g \o f \in Data
    BY Basics DEF Data
  <2>10. Worked(r) = g \o f /\ Worked(r)' = (g \o f) \o c
    BY <2>2, <2>7, <2>8, <2>9 DEF Worked
  <2>11. Gen(r, Keep(Worked(r)', For(r))) = Made(r) \o Gen(r, Keep(c, For(r)))
    <3>1. PICK y \in Data : y = g \o f
      BY <2>9
    <3>2. Gen(r, Keep(y \o c, For(r))) = Gen(r, Keep(y, For(r))) \o Gen(r, Keep(c, For(r)))
      BY GenKeep
    <3> QED
      BY <1>1, <2>10, <3>1, <3>2 DEF Multi
  <2>12. PICK o \in Data, s \in Data : o = OrderOf(r, r) /\ s = sequence_[r]
    BY <1>1, FlowTypes
  <2>13. Made(r) = Keep(o \o s, Replica \X Batch)
    BY <2>12 DEF Made
  <2>14. Made(r)' = Keep(o \o w, Replica \X Batch)
    BY <2>1, <2>2, <2>12 DEF Made
  <2> HIDE DEF b
  <2>15. CASE r \in Involved[b]
    <3>1. PICK z \in Data : z = <<Generated(r, b)>>
      <4>1. Generated(r, b) \in BatchId
        BY <1>2 DEF Generated, BatchId
      <4>2. <<Generated(r, b)>> \in Seq(BatchId)
        BY <4>1
      <4> QED
        BY <4>2, Zenon DEF Data
    <3>2. w = s \o z
      <4>1. w = Append(s, Generated(r, b))
        BY <1>5, <2>12, <2>15
      <4>2. s \in Seq(BatchId) /\ Generated(r, b) \in BatchId
        BY <1>2 DEF Data, Generated, BatchId
      <4>3. Append(s, Generated(r, b)) = s \o <<Generated(r, b)>>
        BY <4>2, AppendIsConcat
      <4> QED
        BY <3>1, <4>1, <4>3
    <3>3. Keep(o \o w, Replica \X Batch)
             = Keep(o \o s, Replica \X Batch) \o Keep(z, Replica \X Batch)
      <4>1. (o \o s) \o z = o \o (s \o z)
        BY DEF Data
      <4>2. PICK y \in Data : y = o \o s
        <5>1. o \o s \in Data
          BY DEF Data
        <5> QED
          BY <5>1
      <4>3. Keep(y \o z, Replica \X Batch)
               = Keep(y, Replica \X Batch) \o Keep(z, Replica \X Batch)
        BY KeepMade
      <4> QED
        BY <3>2, <4>1, <4>2, <4>3
    <3>4. Keep(z, Replica \X Batch) = z
      <4>1. Generated(r, b) \in Replica \X Batch
        BY <1>2 DEF Generated
      <4> QED
        BY <3>1, <4>1, KeepOne
    <3>5. Gen(r, Keep(c, For(r))) = z
      <4>1. b \in For(r)
        BY <1>2, <2>15 DEF For
      <4>2. Keep(c, For(r)) = <<b>>
        BY <2>5, <4>1, KeepOne
      <4> QED
        BY <1>2, <3>1, <4>2, GenFacts
    <3> QED
      BY <2>11, <2>13, <2>14, <3>3, <3>4, <3>5 DEF Multi
  <2>16. CASE r \notin Involved[b]
    <3>1. w = s
      BY <1>5, <2>12, <2>16
    <3>2. Gen(r, Keep(c, For(r))) = <<>>
      <4>1. b \notin For(r)
        BY <2>16 DEF For
      <4>2. Keep(c, For(r)) = <<>>
        BY <2>5, <4>1, KeepOne
      <4> QED
        BY <4>2, GenFacts
    <3>3. Made(r) \o <<>> = Made(r)
      <4>1. Made(r) \in Seq(BatchId)
        BY <1>1, MultiTypes DEF Data
      <4> QED
        BY <4>1, ConcatEmptySeq
    <3> QED
      BY <2>11, <2>13, <2>14, <3>1, <3>2, <3>3 DEF Multi
  <2> QED
    BY <2>15, <2>16
<1> QED
  BY <1>4, <1>5

\* Nothing was being worked off, and nothing is yet.
LEMMA TakeRemoteMulti ==
    ASSUME IInv, HomeInv, MultiInv, NEW p \in Replica, TakeRemote(p)
    PROVE  MultiInv'
<1> SUFFICES ASSUME 0 \in Replica, NEW r \in Replica \ {0} PROVE Multi(r)'
  BY DEF MultiInv
<1> DEFINE q == sequences_other_replicas_[p]
<1>1. /\ q # <<>> /\ pc[p] # "handling"
      /\ remote' = [remote EXCEPT ![p] = Head(q)]
      /\ UNCHANGED <<sequence_, scheduler_>> /\ Multi(r) /\ TypeOK
  BY DEF TakeRemote, logs, IInv, MultiInv
<1>2. CASE r # p
  <2>1. remote'[r] = remote[r]
    BY <1>1, <1>2 DEF TypeOK
  <2> QED
    BY <1>1, <2>1, MultiSame
<1>3. CASE r = p
  <2>1. \A x : SubSeq(x, 1, 0) = <<>>
    BY SubSeqEmpty
  <2>2. Doing(r) = <<>>
    <3>1. remote[r].data = <<>>
      BY <1>1, <1>3 DEF IInv, RemoteInv
    <3>2. ToGenerate(r) = <<>>
      BY <3>1 DEF ToGenerate
    <3>3. remote[r].index = 0
      BY <1>1, <3>2, MultiTypes
    <3> QED
      BY <2>1, <3>3 DEF Doing
  <2>3. Doing(r)' = <<>>
    <3>1. q \in Seq(Foreign(p))
      BY DEF HomeInv, ForeignInv, Remote
    <3>2. Head(q) \in Foreign(p)
      BY <1>1, <3>1, HeadTailProperties
    <3>3. remote'[r] = Head(q)
      BY <1>1, <1>3 DEF TypeOK
    <3>4. remote'[r].index = 0
      BY <3>2, <3>3 DEF Foreign
    <3> QED
      BY <2>1, <3>4 DEF Doing
  <2>4. \A s : OrderOf(s, r)' = OrderOf(s, r)
    BY <1>1, GotSame
  <2>5. Worked(r)' = Worked(r)
    BY <2>2, <2>3, <2>4 DEF Worked
  <2>6. Made(r)' = Made(r)
    BY <1>1, <2>4 DEF Made
  <2> QED
    BY <1>1, <2>5, <2>6 DEF Multi
<1> QED
  BY <1>2, <1>3

\* The sequence has been worked off, and goes to r's schedulers.
LEMMA OrderRemoteMulti ==
    ASSUME IInv, HomeInv, MultiInv, NEW p \in Replica, OrderRemote(p)
    PROVE  MultiInv'
<1> SUFFICES ASSUME 0 \in Replica, NEW r \in Replica \ {0} PROVE Multi(r)'
  BY DEF MultiInv
<1>1. /\ pc[p] = "handling" /\ ~ Generating(p)
      /\ Order(p, remote[p].data)
      /\ remote' = [remote EXCEPT ![p] = Nothing]
      /\ UNCHANGED sequence_ /\ Multi(r) /\ TypeOK
  BY DEF OrderRemote, IInv, MultiInv
<1>2. remote[p].data \in Data
  BY <1>1 DEF TypeOK
<1>3. CASE r # p
  <2>1. remote'[r] = remote[r]
    BY <1>1, <1>3 DEF TypeOK
  <2>2. scheduler_'[r] = scheduler_[r]
    BY <1>1, <1>2, <1>3, OrderGiven
  <2> QED
    BY <1>1, <2>1, <2>2, MultiSame
<1>4. CASE r = p
  <2>1. PICK g \in Data, d \in Data : g = Given(r) /\ d = remote[r].data
    BY <1>1, FlowTypes
  <2>2. \A s : OrderOf(s, r) = Keep(g, Of(s)) /\ OrderOf(s, r)' = Keep(g, Of(s)) \o Keep(d, Of(s))
    <3>1. Given(r)' = g \o d
      BY <1>1, <1>2, <1>4, <2>1, OrderGiven
    <3>2. \A s : OrderOf(s, r) = Keep(g, Of(s)) /\ OrderOf(s, r)' = Keep(g \o d, Of(s))
      BY <2>1, <3>1 DEF OrderOf, Of
    <3> QED
      BY <3>2, KeepData
  <2>3. Doing(r) = ToGenerate(r)
    <3>1. PICK t \in Seq(BatchId) : t = ToGenerate(r)
      BY <1>1, MultiTypes DEF Data
    <3>2. remote[r].index = Len(t)
      BY <1>1, <1>4, <3>1, MultiTypes DEF Generating
    <3>3. SubSeq(t, 1, Len(t)) = t
      BY SubSeqFull
    <3> QED
      BY <3>1, <3>2, <3>3 DEF Doing
  <2>4. ToGenerate(r) = Keep(d, Of(0))
    BY <1>1, <2>1, MultiTypes
  <2>5. Doing(r)' = <<>>
    <3>1. remote'[r] = Nothing
      BY <1>1, <1>4 DEF TypeOK
    <3>2. remote'[r].index = 0
      BY <3>1 DEF Nothing
    <3>3. \A x : SubSeq(x, 1, 0) = <<>>
      BY SubSeqEmpty
    <3> QED
      BY <3>2, <3>3 DEF Doing
  <2>6. Worked(r)' = Worked(r)
    <3>1. Worked(r) \in Seq(BatchId)
      BY <1>1, MultiTypes DEF Data
    <3>2. Worked(r) = Keep(g, Of(0)) \o Keep(d, Of(0))
      BY <2>2, <2>3, <2>4 DEF Worked
    <3>3. Worked(r)' = Worked(r) \o <<>>
      BY <2>2, <2>5, <3>2 DEF Worked
    <3> QED
      BY <3>1, <3>3, ConcatEmptySeq
  <2>7. Keep(d, Of(r)) = <<>>
    <3>1. d \in Seq(Of(remote[r].from)) /\ (d # <<>> => remote[r].from # r)
      BY <2>1 DEF HomeInv, ForeignInv, Remote
    <3>2. CASE d = <<>>
      BY <3>2, KeepOne
    <3>3. CASE d # <<>>
      BY <3>1, <3>3, OfFacts
    <3> QED
      BY <3>2, <3>3
  <2>8. OrderOf(r, r)' = OrderOf(r, r)
    <3>1. Keep(g, Of(r)) \in Seq(BatchId)
      BY KeepType DEF Data
    <3> QED
      BY <2>2, <2>7, <3>1, ConcatEmptySeq
  <2>9. Made(r)' = Made(r)
    BY <1>1, <2>8 DEF Made
  <2> QED
    BY <1>1, <2>6, <2>9 DEF Multi
<1> QED
  BY <1>3, <1>4

\* Nothing is generated at first.
LEMMA InitMulti == Init => MultiInv
<1> SUFFICES ASSUME Init, 0 \in Replica, NEW r \in Replica \ {0} PROVE Multi(r)
  BY DEF MultiInv
<1>1. /\ scheduler_[r] = <<>> /\ sequence_[r] = <<>>
      /\ remote[r].index = 0
  BY DEF Init, Nothing
<1>2. <<>> \o <<>> = <<>> /\ \A x : SubSeq(x, 1, 0) = <<>>
  BY SubSeqEmpty
<1>3. Given(r) = <<>>
  <2>1. <<>> \in Seq(Entry) /\ Len(<<>>) = 0
    OBVIOUS
  <2>2. Joined(<<>>) = <<>>
    BY <2>1, UpToFacts
  <2>3. Given(r) = Joined(scheduler_[r])
    BY DEF Given, Joined, Contents
  <2> QED
    BY <1>1, <2>2, <2>3
<1>4. \A s : OrderOf(s, r) = <<>>
  BY <1>3, KeepOne DEF OrderOf
<1>5. Worked(r) = <<>>
  BY <1>1, <1>2, <1>4 DEF Worked, Doing
<1>6. Made(r) = <<>>
  BY <1>1, <1>2, <1>4, KeepOne DEF Made
<1> QED
  BY <1>5, <1>6, KeepOne, GenFacts DEF Multi

\* Every step keeps it.
LEMMA NextMulti == IInv /\ HomeInv /\ MultiInv /\ [Next]_vars => MultiInv'
<1> SUFFICES ASSUME IInv, HomeInv, MultiInv, [Next]_vars PROVE MultiInv'
  OBVIOUS
<1>1. ASSUME NEW b \in Batch, WriteBatch(b) PROVE MultiInv'
  BY <1>1, MultiUnchanged DEF WriteBatch, turn, logs
<1>2. ASSUME NEW m \in messages, ForwardBatch(m) PROVE MultiInv'
  BY <1>2, MultiUnchanged DEF ForwardBatch, turn, logs
<1>3. ASSUME NEW m \in messages, AppendBatch(m) PROVE MultiInv'
  BY <1>3, AppendBatchMulti
<1>4. ASSUME NEW m \in messages, ReceiveMessage(m) PROVE MultiInv'
  <2>1. UNCHANGED <<sequence_, remote, scheduler_>>
    BY <1>4 DEF ReceiveMessage, OnMRTxnsBatch, OnNewSequence, OnNewSequenceAck, OnSynchronize,
                OnSynchronizeAck, turn, logs
  <2> QED
    BY <2>1, MultiUnchanged
<1>5. ASSUME NEW r \in Replica, LeaderNext(r) PROVE MultiInv'
  <2>1. CASE LogSynchronized(r)
    BY <2>1, MultiUnchanged DEF LogSynchronized
  <2> QED
    BY <1>5, <2>1, ProposeMulti, TakeRemoteMulti, GenerateMulti, OrderRemoteMulti
       DEF LeaderNext
<1>6. ASSUME UNCHANGED vars PROVE MultiInv'
  BY <1>6, MultiUnchanged DEF vars, turn, logs
<1> QED
  BY <1>1, <1>2, <1>3, <1>4, <1>5, <1>6 DEF Next

\* What is generated for a beginning is a beginning of what is generated.
LEMMA BeginsGen ==
    ASSUME NEW r \in Replica, NEW x \in Data, NEW y \in Data, Begins(BatchId, x, y)
    PROVE  Begins(BatchId, Gen(r, Keep(x, For(r))), Gen(r, Keep(y, For(r))))
<1>1. PICK u \in Data : y = x \o u
  BY DEF Begins, Data
<1>2. Gen(r, Keep(u, For(r))) \in Seq(BatchId)
  BY GenKeep DEF Data
<1>3. Gen(r, Keep(y, For(r))) = Gen(r, Keep(x, For(r))) \o Gen(r, Keep(u, For(r)))
  BY <1>1, GenKeep
<1> QED
  BY <1>2, <1>3 DEF Begins

\* What r has worked off is the beginning of replica 0's order.
LEMMA WorkedFirst ==
    ASSUME IInv, HomeInv, FlowInv, 0 \in Replica, NEW r \in Replica \ {0}
    PROVE  Begins(BatchId, Worked(r), OrderOf(0, 0))
<1>1. TypeOK
  BY DEF IInv
<1>2. PICK g \in Data, d \in Data, q \in Data :
         g = Given(r) /\ d = remote[r].data /\ q = Queued(r)
  BY <1>1, FlowTypes
<1>3. PICK a \in Seq(BatchId), b \in Seq(BatchId), c \in Seq(BatchId) :
         a = Keep(g, Of(0)) /\ b = Keep(d, Of(0)) /\ c = Keep(q, Of(0))
  <2>1. \A x \in Data : Keep(x, Of(0)) \in Seq(BatchId)
    BY KeepType DEF Data
  <2> QED
    BY <2>1
<1>4. Arrived(0, r) = (a \o b) \o c
  <2>1. g \o d \in Data /\ Got(r) = (g \o d) \o q
    BY <1>2, Basics DEF Got
  <2>2. Keep(g \o d, Of(0)) = a \o b
    BY <1>3, KeepData
  <2>3. Keep((g \o d) \o q, Of(0)) = Keep(g \o d, Of(0)) \o c
    BY <1>3, <2>1, KeepData
  <2> QED
    BY <2>1, <2>2, <2>3 DEF Arrived
<1>5. OrderOf(0, r) = a /\ ToGenerate(r) = b
  BY <1>1, <1>2, <1>3, FlowTypes, MultiTypes
<1>6. PICK u \in Seq(BatchId), v \in Seq(BatchId) : u = Doing(r) /\ u \o v = b
  <2>1. PICK n \in 0..Len(b) : n = remote[r].index
    BY <1>1, <1>5, MultiTypes
  <2>2. SubSeq(b, 1, n) \in Seq(BatchId) /\ SubSeq(b, n + 1, Len(b)) \in Seq(BatchId)
    OBVIOUS
  <2>3. SubSeq(b, 1, n) \o SubSeq(b, n + 1, Len(b)) = SubSeq(b, 1, Len(b))
    <3>1. 1 \in 1..(Len(b) + 1) /\ n \in (1 - 1)..Len(b) /\ Len(b) \in n..Len(b)
      OBVIOUS
    <3> QED
      BY <3>1, ConcatAdjacentSubSeq
  <2>4. SubSeq(b, 1, Len(b)) = b
    BY SubSeqFull
  <2> QED
    BY <1>5, <2>1, <2>2, <2>3, <2>4 DEF Doing
<1>7. Worked(r) = a \o u
  BY <1>5, <1>6 DEF Worked
<1>8. Begins(BatchId, a \o u, (a \o (u \o v)) \o c)
  BY BeginsLonger
<1>9. /\ Worked(r) \in Seq(BatchId) /\ Arrived(0, r) \in Seq(BatchId)
      /\ OrderOf(0, 0) \in Seq(BatchId)
  BY <1>1, FlowTypes, MultiTypes DEF Data
<1>10. Begins(BatchId, Arrived(0, r), OrderOf(0, 0))
  BY ArrivedFirst
<1> QED
  BY <1>4, <1>6, <1>7, <1>8, <1>9, <1>10, BeginsOrder

\* Every replica takes its part of the multi-replica transactions in the order of replica 0,
\* for it waits for the MR_TXNS_BATCH of each of its batches (HandleRemoteBatch()).
THEOREM MultiReplica == Spec => []MultiReplicaOrder
<1>1. IInv /\ HomeInv /\ FlowInv /\ MultiInv => MultiReplicaOrder
  <2> SUFFICES ASSUME IInv, HomeInv, FlowInv, MultiInv, 0 \in Replica,
                      NEW r \in Replica \ {0}
               PROVE  IsPrefix(Keep(OrderOf(r, r), Replica \X Batch),
                               Gen(r, Keep(OrderOf(0, 0), For(r))))
    BY DEF MultiReplicaOrder, Gen, For
  <2>1. TypeOK
    BY DEF IInv
  <2>2. PICK o \in Data, s \in Data, y \in Data, w \in Data :
           o = OrderOf(r, r) /\ s = sequence_[r] /\ y = OrderOf(0, 0) /\ w = Worked(r)
    BY <2>1, FlowTypes, MultiTypes
  <2>3. Begins(BatchId, o, o \o s) /\ o \o s \in Seq(BatchId)
    BY DEF Begins, Data
  <2>4. Begins(BatchId, Keep(o, Replica \X Batch), Made(r))
    <3>1. PICK t \in Seq(BatchId) : t = o \o s
      BY <2>3
    <3>2. Begins(BatchId, Keep(o, Replica \X Batch), Keep(t, Replica \X Batch))
      BY <2>3, <3>1, BeginsKeep DEF Data
    <3> QED
      BY <2>2, <3>1, <3>2 DEF Made
  <2>5. Begins(BatchId, Made(r), Gen(r, Keep(y, For(r))))
    BY <2>2, WorkedFirst, BeginsGen DEF MultiInv, Multi
  <2>6. /\ Keep(o, Replica \X Batch) \in Seq(BatchId) /\ Made(r) \in Seq(BatchId)
        /\ Gen(r, Keep(y, For(r))) \in Seq(BatchId)
    BY <2>1, KeepType, MultiTypes, GenKeep DEF Data
  <2>7. Begins(BatchId, Keep(o, Replica \X Batch), Gen(r, Keep(y, For(r))))
    BY <2>4, <2>5, <2>6, BeginsOrder
  <2> QED
    BY <2>2, <2>6, <2>7, BeginsIsPrefix
<1>2. Init => MultiInv
  BY InitMulti
<1>3. IInv /\ HomeInv /\ MultiInv /\ [Next]_vars => MultiInv'
  BY NextMulti
<1> QED
  BY <1>1, <1>2, <1>3, FlowInvariance, PTL DEF Spec
=============================================================================
