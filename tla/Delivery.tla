------------------------------- MODULE Delivery -------------------------------
(***************************************************************************)
(* How a batch of transactions reaches the lock-manager threads of all     *)
(* machines (mode 0): Sequencer::RunWriter and RunReader, the Paxos log,   *)
(* of which only what OrderedLog promises is used, and                     *)
(* DeterministicScheduler::GetBatch.                                       *)
(*                                                                         *)
(* Nothing here relies on the order in which the messages about different  *)
(* batches arrive, and it is left open; the orders of the log come to a    *)
(* scheduler from one participant, one after another.  A scheduler sends   *)
(* nothing, so that some of them may be followed and the others left out.  *)
(***************************************************************************)
EXTENDS Integers, Sequences, FiniteSets, SequencesExt

CONSTANTS
    NumReplicas,       \* replicas_size()
    Followed,          \* the machines <<replica, node>> whose schedulers are followed
    Batch,             \* the batch numbers the writers draw from GetGUID()
    MaxOpen            \* bound: batches about which messages are on their way

ASSUME DeliveryAssumption ==
    /\ NumReplicas \in Nat \ {0}
    /\ Followed \subseteq (0..(NumReplicas - 1)) \X Nat
    /\ MaxOpen \in Nat \ {0}

Replica == 0..(NumReplicas - 1)

majority == (NumReplicas \div 2) + 1

VARIABLES
    written,                 \* the batches some writer has sent
    txn_batches,             \* <<b, r>>: TXN_BATCH on its way to r's central machine
    subbatches,              \* <<b, m>>: TXN_SUBBATCH on its way to m's scheduler
    votes,                   \* <<b, r>>: BATCH_VOTE of r on its way to machine 0
    batch_votes_,            \* the votes machine 0 counted; 0 stands for no entry
    submitted, taken, chosen, ordered,   \* the Paxos log, see OrderedLog
    orders_read,             \* the PAXOS_BATCH_ORDERs each scheduler has received
    current_sequence_,       \* <<>> stands for NULL
    current_sequence_id_,
    current_sequence_batch_index_,
    global_batches_order_,   \* the orders put by: version |-> sequence
    batches_data_,           \* the batches put by
    delivered                \* history: what GetBatch returned

\* The participants of the log that pass orders on to the schedulers that are followed.
Passer == {m[1] : m \in Followed}

log == INSTANCE OrderedLog WITH Participant <- Passer

logVars == <<submitted, taken, chosen, ordered>>
sequencerVars == <<written, txn_batches, votes, batch_votes_>>
schedulerVars == <<orders_read, current_sequence_, current_sequence_id_,
                   current_sequence_batch_index_, global_batches_order_,
                   batches_data_, delivered>>
vars == <<sequencerVars, subbatches, logVars, schedulerVars>>

-----------------------------------------------------------------------------
(* The sequencer. *)

\* Some message about b is on its way.
Open(b) == \/ ({b} \X Replica) \cap (txn_batches \cup votes) # {}
           \/ ({b} \X Followed) \cap subbatches # {}

\* RunWriter: an epoch's batch goes to one central machine of each replica, the one
\* HashBatchID() picks.
WriteBatch(b) ==
    /\ b \notin written
    /\ Cardinality({c \in written : Open(c)}) < MaxOpen
    /\ written' = written \cup {b}
    /\ txn_batches' = txn_batches \cup ({b} \X Replica)
    /\ UNCHANGED <<votes, batch_votes_, subbatches, logVars, schedulerVars>>

\* RunReader, TXN_BATCH: r's central machine sends every scheduler of r its part,
\* empty or not, and votes.
ForwardBatch(b, r) ==
    /\ <<b, r>> \in txn_batches
    /\ txn_batches' = txn_batches \ {<<b, r>>}
    /\ subbatches' = subbatches \cup ({b} \X {m \in Followed : m[1] = r})
    /\ votes' = votes \cup {<<b, r>>}
    /\ UNCHANGED <<written, batch_votes_, logVars, schedulerVars>>

\* Mistake: the batch is submitted with the majority and every vote after it.
BadCountVote(b, r) ==
    /\ <<b, r>> \in votes
    /\ votes' = votes \ {<<b, r>>}
    /\ LET n == batch_votes_[b] + 1
       IN  /\ batch_votes_' = [batch_votes_ EXCEPT ![b] = IF n = NumReplicas THEN 0 ELSE n]
           /\ IF n >= majority THEN log!Submit(b) ELSE UNCHANGED logVars
    /\ UNCHANGED <<written, txn_batches, subbatches, schedulerVars>>

\* Mistake: the entry is never erased.
BadLeakCountVote(b, r) ==
    /\ <<b, r>> \in votes
    /\ votes' = votes \ {<<b, r>>}
    /\ LET n == batch_votes_[b] + 1
       IN  /\ batch_votes_' = [batch_votes_ EXCEPT ![b] = n]
           /\ IF n = majority THEN log!Submit(b) ELSE UNCHANGED logVars
    /\ UNCHANGED <<written, txn_batches, subbatches, schedulerVars>>

\* Mistake: half of the replicas are taken for a majority.
BadHalfCountVote(b, r) ==
    /\ <<b, r>> \in votes
    /\ votes' = votes \ {<<b, r>>}
    /\ LET n == batch_votes_[b] + 1
       IN  /\ batch_votes_' = [batch_votes_ EXCEPT ![b] = IF n = NumReplicas THEN 0 ELSE n]
           /\ IF n = majority - 1 THEN log!Submit(b) ELSE UNCHANGED logVars
    /\ UNCHANGED <<written, txn_batches, subbatches, schedulerVars>>

\* RunReader, BATCH_VOTE on machine 0: the vote that completes a majority submits
\* the batch to Paxos, the last one removes the entry.
CountVote(b, r) ==
    /\ <<b, r>> \in votes
    /\ votes' = votes \ {<<b, r>>}
    /\ LET n == batch_votes_[b] + 1
       IN  /\ batch_votes_' = [batch_votes_ EXCEPT ![b] = IF n = NumReplicas THEN 0 ELSE n]
           /\ IF n = majority THEN log!Submit(b) ELSE UNCHANGED logVars
    /\ UNCHANGED <<written, txn_batches, subbatches, schedulerVars>>

-----------------------------------------------------------------------------
(* The log; see Paxos for its protocol. *)

Choose    == log!Choose /\ UNCHANGED <<sequencerVars, subbatches, schedulerVars>>
PassOn(r) == log!PassOn({r}) /\ UNCHANGED <<sequencerVars, subbatches, schedulerVars>>

-----------------------------------------------------------------------------
(* GetBatch() of the scheduler of machine m, one message or one batch at a *)
(* time.  A batch or an order it does not need yet is put by.              *)

CurrentBatch(m) == current_sequence_[m][current_sequence_batch_index_[m] + 1]

HasSequence(m) == current_sequence_[m] # <<>>

\* GetBatch takes messages only while what it wants has not been put by.
Receiving(m) == IF HasSequence(m)
                THEN CurrentBatch(m) \notin batches_data_[m]
                ELSE current_sequence_id_[m] \notin DOMAIN global_batches_order_[m]

\* The index is 0 whenever a sequence becomes the current one.
StartSequence(m, s) ==
    /\ current_sequence_' = [current_sequence_ EXCEPT ![m] = s]
    /\ current_sequence_batch_index_' = [current_sequence_batch_index_ EXCEPT ![m] = 0]
    /\ UNCHANGED current_sequence_id_

\* The current batch is returned; with the last one the sequence is done.
ReturnBatch(m) ==
    /\ delivered' = [delivered EXCEPT ![m] = Append(@, CurrentBatch(m))]
    /\ current_sequence_batch_index_' = [current_sequence_batch_index_ EXCEPT ![m] = @ + 1]
    /\ IF current_sequence_batch_index_[m] + 1 >= Len(current_sequence_[m])
       THEN /\ current_sequence_' = [current_sequence_ EXCEPT ![m] = <<>>]
            /\ current_sequence_id_' = [current_sequence_id_ EXCEPT ![m] = @ + 1]
       ELSE UNCHANGED <<current_sequence_, current_sequence_id_>>

\* The order wanted next was put by earlier.
TakeStoredOrder(m) ==
    /\ ~ HasSequence(m)
    /\ ~ Receiving(m)
    /\ LET id == current_sequence_id_[m]
           by == global_batches_order_[m]
       IN  /\ StartSequence(m, by[id])
           /\ global_batches_order_' =
                [global_batches_order_ EXCEPT ![m] = [v \in DOMAIN by \ {id} |-> by[v]]]
    /\ UNCHANGED <<sequencerVars, subbatches, logVars, orders_read, batches_data_,
                   delivered>>

\* Mistake: an order that arrives while no sequence is current becomes the current
\* one whatever its version.
BadReceiveOrder(m) ==
    LET version == orders_read[m]
        s       == ordered[m[1]][version + 1]
        by      == global_batches_order_[m]
    IN  /\ Receiving(m)
        /\ version < Len(ordered[m[1]])
        /\ orders_read' = [orders_read EXCEPT ![m] = @ + 1]
        /\ IF ~ HasSequence(m)
           THEN StartSequence(m, s) /\ UNCHANGED global_batches_order_
           ELSE /\ global_batches_order_' = [global_batches_order_ EXCEPT
                      ![m] = [v \in DOMAIN by \cup {version} |->
                                IF v = version THEN s ELSE by[v]]]
                /\ UNCHANGED <<current_sequence_, current_sequence_id_,
                               current_sequence_batch_index_>>
        /\ UNCHANGED <<sequencerVars, subbatches, logVars, batches_data_, delivered>>

\* An order becomes the current one if it is wanted now.  The first order of the
\* log has version 0.
ReceiveOrder(m) ==
    LET version == orders_read[m]
        s       == ordered[m[1]][version + 1]
        by      == global_batches_order_[m]
    IN  /\ Receiving(m)
        /\ version < Len(ordered[m[1]])
        /\ orders_read' = [orders_read EXCEPT ![m] = @ + 1]
        /\ IF ~ HasSequence(m) /\ version = current_sequence_id_[m]
           THEN StartSequence(m, s) /\ UNCHANGED global_batches_order_
           ELSE /\ global_batches_order_' = [global_batches_order_ EXCEPT
                      ![m] = [v \in DOMAIN by \cup {version} |->
                                IF v = version THEN s ELSE by[v]]]
                /\ UNCHANGED <<current_sequence_, current_sequence_id_,
                               current_sequence_batch_index_>>
        /\ UNCHANGED <<sequencerVars, subbatches, logVars, batches_data_, delivered>>

\* Mistake: a batch that arrives while no sequence is current is dropped.
BadReceiveSubbatch(b, m) ==
    /\ Receiving(m)
    /\ <<b, m>> \in subbatches
    /\ subbatches' = subbatches \ {<<b, m>>}
    /\ IF HasSequence(m) /\ b = CurrentBatch(m)
       THEN ReturnBatch(m) /\ UNCHANGED batches_data_
       ELSE /\ batches_data_' = IF HasSequence(m)
                                THEN [batches_data_ EXCEPT ![m] = @ \cup {b}]
                                ELSE batches_data_
            /\ UNCHANGED <<current_sequence_, current_sequence_id_,
                           current_sequence_batch_index_, delivered>>
    /\ UNCHANGED <<sequencerVars, logVars, orders_read, global_batches_order_>>

\* A batch is returned at once if it is the current one.
ReceiveSubbatch(b, m) ==
    /\ Receiving(m)
    /\ <<b, m>> \in subbatches
    /\ subbatches' = subbatches \ {<<b, m>>}
    /\ IF HasSequence(m) /\ b = CurrentBatch(m)
       THEN ReturnBatch(m) /\ UNCHANGED batches_data_
       ELSE /\ batches_data_' = [batches_data_ EXCEPT ![m] = @ \cup {b}]
            /\ UNCHANGED <<current_sequence_, current_sequence_id_,
                           current_sequence_batch_index_, delivered>>
    /\ UNCHANGED <<sequencerVars, logVars, orders_read, global_batches_order_>>

\* The current batch was put by earlier.
ReturnStoredBatch(m) ==
    /\ HasSequence(m)
    /\ ~ Receiving(m)
    /\ batches_data_' = [batches_data_ EXCEPT ![m] = @ \ {CurrentBatch(m)}]
    /\ ReturnBatch(m)
    /\ UNCHANGED <<sequencerVars, subbatches, logVars, orders_read,
                   global_batches_order_>>

-----------------------------------------------------------------------------

Init ==
    /\ written = {}
    /\ txn_batches = {}
    /\ subbatches = {}
    /\ votes = {}
    /\ batch_votes_ = [b \in Batch |-> 0]
    /\ log!Init
    /\ orders_read = [m \in Followed |-> 0]
    /\ current_sequence_ = [m \in Followed |-> <<>>]
    /\ current_sequence_id_ = [m \in Followed |-> 1]
    /\ current_sequence_batch_index_ = [m \in Followed |-> 0]
    /\ global_batches_order_ = [m \in Followed |-> <<>>]
    /\ batches_data_ = [m \in Followed |-> {}]
    /\ delivered = [m \in Followed |-> <<>>]

SequencerNext ==
    \/ \E b \in Batch : WriteBatch(b)
    \/ \E b \in Batch, r \in Replica : ForwardBatch(b, r) \/ CountVote(b, r)

SchedulerNext(m) ==
    \/ TakeStoredOrder(m)
    \/ ReceiveOrder(m)
    \/ \E b \in Batch : ReceiveSubbatch(b, m)
    \/ ReturnStoredBatch(m)

Next ==
    \/ SequencerNext
    \/ Choose
    \/ \E r \in Passer : PassOn(r)
    \/ \E m \in Followed : SchedulerNext(m)

Spec == Init /\ [][Next]_vars

\* The reader and lock-manager threads handle message after message for ever, and the
\* log makes progress: Paxos shows it under the fairness of its own threads.  Less is
\* assumed than every thread gives, which is enough because batches are finitely many.
FairSpec ==
    /\ Spec
    /\ WF_vars(\E b \in Batch, r \in Replica : ForwardBatch(b, r) \/ CountVote(b, r))
    /\ WF_vars(Choose \/ \E r \in Passer : PassOn(r))
    /\ \A m \in Followed : WF_vars(SchedulerNext(m))
-----------------------------------------------------------------------------
(* Properties. *)

\* Every variable has its type.
TypeOK ==
    /\ written \subseteq Batch
    /\ txn_batches \subseteq Batch \X Replica
    /\ subbatches \subseteq Batch \X Followed
    /\ votes \subseteq Batch \X Replica
    /\ batch_votes_ \in [Batch -> 0..(NumReplicas - 1)]
    /\ submitted \in Seq(Batch)
    /\ taken \in 0..Len(submitted)
    /\ chosen \in Seq(Seq(Batch))
    /\ ordered \in [Passer -> Seq(Seq(Batch))]
    /\ orders_read \in [Followed -> Nat]
    /\ current_sequence_ \in [Followed -> Seq(Batch)]
    /\ current_sequence_id_ \in [Followed -> Nat \ {0}]
    /\ current_sequence_batch_index_ \in [Followed -> Nat]
    /\ \A m \in Followed : /\ DOMAIN global_batches_order_[m] \subseteq Nat
                          /\ Range(global_batches_order_[m]) \subseteq Seq(Batch)
    /\ batches_data_ \in [Followed -> SUBSET Batch]
    /\ delivered \in [Followed -> Seq(Batch)]

\* Every scheduler processes the batches of the log from version 1 on, all of them, in
\* the log's order and none twice; its current sequence is the log's entry of that id
\* and has a batch left (the CHECK in GetBatch).
DeliveredInLogOrder ==
    \A m \in Followed :
        LET id       == current_sequence_id_[m]
            earlier  == FlattenSeq(SubSeq(chosen, 2, id))
            consumed == current_sequence_batch_index_[m]
        IN  IF HasSequence(m)
            THEN /\ id < Len(chosen)
                 /\ current_sequence_[m] = chosen[id + 1]
                 /\ consumed < Len(chosen[id + 1])
                 /\ delivered[m] = earlier \o SubSeq(chosen[id + 1], 1, consumed)
            ELSE delivered[m] = earlier

\* However the votes arrive, a batch is submitted to Paxos once, which is what the
\* log and GetBatch, which erases a batch it returns, rely on.
SubmittedOnce == \A i, j \in DOMAIN submitted : i # j => submitted[i] # submitted[j]

\* A batch that may be ordered has been forwarded in a majority of the replicas.
OrderedBatchIsReplicated ==
    \A b \in ToSet(submitted) :
        Cardinality({r \in Replica : <<b, r>> \notin txn_batches}) >= majority

Delivered(b, m) == b \in ToSet(delivered[m])

\* Every batch ordered in a sequence after the first reaches every lock manager (of
\* finitely many batches: from some point on all of them have).
LaterBatchesAreDelivered ==
    <>[](\A m \in Followed : \A i \in 2..Len(chosen) :
            \A b \in ToSet(chosen[i]) : Delivered(b, m))

\* The sequencer chooses "a global serial order of transactions to which execution
\* must maintain equivalence" (sequencer.cc:4): a batch in that order is executed.
EveryOrderedBatchIsDelivered ==
    \A b \in Batch, m \in Followed :
        (\E i \in DOMAIN chosen : b \in ToSet(chosen[i])) ~> Delivered(b, m)
=============================================================================
