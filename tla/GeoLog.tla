-------------------------------- MODULE GeoLog --------------------------------
(***************************************************************************)
(* The order of batches in the low-latency modes (class LocalPaxos): every *)
(* replica orders the batches of its own sequencers, sends its sequences   *)
(* to the others, and merges theirs into its global order.  The leaders of *)
(* the replicas run RunLeader (local availability) or RunLeaderStrong.     *)
(*                                                                         *)
(* Agreement within a replica is not modelled: between taking a sequence   *)
(* and giving its order to the schedulers a leader only collects the acks  *)
(* of its own participants, on a channel of its own.                       *)
(***************************************************************************)
EXTENDS Integers, Sequences, FiniteSets, SequencesExt

CONSTANTS
    Replica,        \* the replicas; one that never writes a batch may be left out
    Type,           \* the availability types the system may be started with; 2 is strong
    Period,         \* every Period-th turn may be the local sequence's (10)
    Batch,          \* the batches of the sequencers
    Home,           \* Home[b]: the replica whose sequencers wrote b
    Involved        \* Involved[b]: the replicas of b's multi-replica transactions

\* The head of closed_replica gets r's sequences by SYNCHRONIZE.
closed_replica(r) == IF r < 3 THEN r + 3 ELSE r - 3

ASSUME GeoLogAssumption ==
    /\ Replica \subseteq Nat
    /\ Type \subseteq Nat
    /\ Period \in Nat \ {0}
    /\ Home \in [Batch -> Replica]
    /\ Involved \in [Batch -> SUBSET Replica]
    \* all batches, also those that are generated, have numbers of their own (GetGUID)
    /\ Batch \cap (Replica \X Batch) = {}
    \* the sequencers forward multi-replica transactions to replica 0
    /\ \A b \in Batch : Involved[b] # {} => Home[b] = 0
    \* the strong deployment has six replicas
    /\ 2 \in Type => Replica \subseteq 0..5 /\ \A r \in Replica : closed_replica(r) \in Replica

\* The batch that replica r generates for its part of the transactions of b.
Generated(r, b) == <<r, b>>

BatchId == Batch \cup (Replica \X Batch)

OriginOf(id) == IF id \in Batch THEN Home[id] ELSE id[1]

VARIABLES
    type_,                     \* of all leaders, chosen at start-up
    written,                   \* the batches the sequencers have sent
    messages,                  \* on their way to the leaders (and BATCH_SUBMITs)
    sequence_,                 \* the leaders' batches that wait for a proposal
    alternate,
    pc,                        \* where the leaders' threads are
    remote,                    \* the sequence of another replica being handled
    proposal,                  \* the own sequence waiting for SYNCHRONIZE_ACK
    received_synchronize_ack,
    sequences_other_replicas_,
    mr_txn_batches_,           \* batches of replica 0 whose MR_TXNS_BATCH arrived
    local_next_version,
    global_next_version,
    local_log_,
    global_log_,
    scheduler_,                \* scheduler_[r]: the PAXOS_BATCH_ORDERs to r's schedulers
    readers_for_local_log_,    \* how many local entries were sent to each other replica
    new_sequence_todo

inputs == <<type_, written, mr_txn_batches_>>
turn   == <<alternate, pc, remote, proposal, received_synchronize_ack>>
logs   == <<local_next_version, global_next_version, local_log_, global_log_, scheduler_>>
sent   == <<readers_for_local_log_, new_sequence_todo>>
vars   == <<inputs, messages, sequence_, turn, sequences_other_replicas_, logs, sent>>

Data == Seq(BatchId)

Strong == type_ = 2

\* The replicas that get r's sequences by NEW_SEQUENCE.
Others(r) == Replica \ (IF Strong THEN {r, closed_replica(r)} ELSE {r})

\* A sequence of another replica; index counts the batches looked at (see Generate).
Nothing == [data |-> <<>>, from |-> 0, index |-> 0]

Message == [type : {"TXN_BATCH", "BATCH_SUBMIT", "MR_TXNS_BATCH", "NEW_SEQUENCE",
                    "NEW_SEQUENCE_ACK", "SYNCHRONIZE", "SYNCHRONIZE_ACK"},
            from : Replica, to : Replica, version : Nat, data : Seq(Data)]

Msg(type, from, to, version, data) ==
    [type |-> type, from |-> from, to |-> to, version |-> version, data |-> data]

-----------------------------------------------------------------------------
(* The sequencers. *)

\* RunWriter: an epoch's batch goes to a central machine of each replica.  Those of
\* replicas that have nothing to tell their leader about it are left out.
WriteBatch(b) ==
    /\ b \notin written
    /\ written' = written \cup {b}
    /\ messages' = messages \cup
          {Msg("TXN_BATCH", Home[b], r, 0, <<<<b>>>>) :
              r \in {x \in Replica : x = Home[b] \/ Home[b] = 0}}
    /\ UNCHANGED <<type_, mr_txn_batches_, sequence_, turn, sequences_other_replicas_, logs, sent>>

\* RunReader: the central machine of the batch's home submits it to the local leader;
\* in another replica it tells the leader which multi-replica transactions a batch of
\* replica 0 has.
ForwardBatch(m) ==
    /\ m.type = "TXN_BATCH"
    /\ messages' = (messages \ {m}) \cup
          {Msg(IF m.from = m.to THEN "BATCH_SUBMIT" ELSE "MR_TXNS_BATCH", m.to, m.to, 0, m.data)}
    /\ UNCHANGED <<inputs, sequence_, turn, sequences_other_replicas_, logs, sent>>

\* A reader thread of the leader's machine: Append(), under mutex_.
AppendBatch(m) ==
    /\ m.type = "BATCH_SUBMIT"
    /\ messages' = messages \ {m}
    /\ sequence_' = [sequence_ EXCEPT ![m.to] = @ \o m.data[1]]
    /\ UNCHANGED <<inputs, turn, sequences_other_replicas_, logs, sent>>

-----------------------------------------------------------------------------
(* What a leader does with a sequence it has decided on. *)

\* The schedulers of r get the order with the next global version.
Order(r, data) ==
    /\ global_next_version' = [global_next_version EXCEPT ![r] = @ + 1]
    /\ scheduler_' = [scheduler_ EXCEPT
          ![r] = Append(@, [version |-> global_next_version[r] + 1, data |-> data])]

\* The local entries of r that s was not sent yet.
Unsent(r, s, log) == SubSeq(log, readers_for_local_log_[r][s] + 1, Len(log))

NewSequence(r, s, log) ==
    Msg("NEW_SEQUENCE", r, s, log[Len(log)].version,
        LET u == Unsent(r, s, log) IN [i \in DOMAIN u |-> u[i].data])

\* r's local log becomes log, and targets are sent what they lack of it.
SendNew(r, targets, log, other) ==
    /\ messages' = other \cup {NewSequence(r, s, log) : s \in targets}
    /\ readers_for_local_log_' = [readers_for_local_log_ EXCEPT
          ![r] = [s \in Replica |-> IF s \in targets THEN Len(log) ELSE @[s]]]

\* Mistake: the replicas that have asked in vain are forgotten.
BadLogLocal(r, data, localVersion, globalVersion) ==
    LET e(v) == [version |-> v, data |-> data]
        log  == Append(local_log_[r], e(localVersion))
    IN  /\ local_log_' = [local_log_ EXCEPT ![r] = log]
        /\ global_log_' = [global_log_ EXCEPT ![r] = Append(@, e(globalVersion))]
        /\ SendNew(r, IF local_log_[r] = <<>> THEN Others(r) ELSE {}, log, messages)
        /\ new_sequence_todo' = [new_sequence_todo EXCEPT ![r] = {}]

\* The first local sequence is sent to all other replicas, a later one to those that
\* have acknowledged everything before it.
LogLocal(r, data, localVersion, globalVersion) ==
    LET e(v) == [version |-> v, data |-> data]
        log  == Append(local_log_[r], e(localVersion))
    IN  /\ local_log_' = [local_log_ EXCEPT ![r] = log]
        /\ global_log_' = [global_log_ EXCEPT ![r] = Append(@, e(globalVersion))]
        /\ SendNew(r, IF local_log_[r] = <<>> THEN Others(r) ELSE new_sequence_todo[r],
                   log, messages)
        /\ new_sequence_todo' = [new_sequence_todo EXCEPT
              ![r] = IF local_log_[r] = <<>> THEN @ ELSE {}]

-----------------------------------------------------------------------------
(* RunLeader() and RunLeaderStrong(): the local sequence. *)

\* Mistake: the turns are not counted modulo Period.
BadNextTurn(r) == alternate[r] + 1

NextTurn(r) == (alternate[r] + 1) % Period

\* The turn of the local sequence; Strong lets the remote ones go first.
LocalTurn(r) ==
    /\ sequence_[r] # <<>>
    /\ \/ sequences_other_replicas_[r] = <<>>
       \/ (~ Strong /\ NextTurn(r) < 1)

TakeTurn(r) == alternate' = [alternate EXCEPT ![r] = IF Strong THEN @ ELSE NextTurn(r)]

ProposeLocal(r) ==
    /\ ~ Strong
    /\ pc[r] = "ready"
    /\ LocalTurn(r)
    /\ TakeTurn(r)
    /\ local_next_version' = [local_next_version EXCEPT ![r] = @ + 1]
    /\ sequence_' = [sequence_ EXCEPT ![r] = <<>>]
    /\ Order(r, sequence_[r])
    /\ LogLocal(r, sequence_[r], local_next_version[r] + 1, global_next_version[r] + 1)
    /\ UNCHANGED <<inputs, pc, remote, proposal, received_synchronize_ack,
                   sequences_other_replicas_>>

\* Strong availability: the sequence goes to closed_replica before it is logged.
ProposeStrong(r) ==
    /\ Strong
    /\ pc[r] = "ready"
    /\ LocalTurn(r)
    /\ local_next_version' = [local_next_version EXCEPT ![r] = @ + 1]
    /\ sequence_' = [sequence_ EXCEPT ![r] = <<>>]
    /\ Order(r, sequence_[r])
    /\ messages' = messages \cup
          {Msg("SYNCHRONIZE", r, closed_replica(r), 0, <<sequence_[r]>>)}
    /\ proposal' = [proposal EXCEPT ![r] = sequence_[r]]
    /\ pc' = [pc EXCEPT ![r] = "synchronizing"]
    /\ UNCHANGED <<inputs, alternate, remote, received_synchronize_ack,
                   sequences_other_replicas_, local_log_, global_log_, sent>>

\* Mistake: the flag stays set for the next sequence.
BadLogSynchronized(r) ==
    /\ received_synchronize_ack[r]
    /\ \/ pc[r] = "synchronized"
       \/ pc[r] = "synchronizing" /\ sequences_other_replicas_[r] = <<>>
    /\ LogLocal(r, proposal[r], local_next_version[r], global_next_version[r])
    /\ proposal' = [proposal EXCEPT ![r] = <<>>]
    /\ pc' = [pc EXCEPT ![r] = "ready"]
    /\ UNCHANGED <<inputs, sequence_, alternate, remote, received_synchronize_ack,
                   sequences_other_replicas_,
                   local_next_version, global_next_version, scheduler_>>

\* The waiting loop ends with the ack; the versions are those of now.
LogSynchronized(r) ==
    /\ received_synchronize_ack[r]
    /\ \/ pc[r] = "synchronized"
       \/ pc[r] = "synchronizing" /\ sequences_other_replicas_[r] = <<>>
    /\ LogLocal(r, proposal[r], local_next_version[r], global_next_version[r])
    /\ received_synchronize_ack' = [received_synchronize_ack EXCEPT ![r] = FALSE]
    /\ proposal' = [proposal EXCEPT ![r] = <<>>]
    /\ pc' = [pc EXCEPT ![r] = "ready"]
    /\ UNCHANGED <<inputs, sequence_, alternate, remote, sequences_other_replicas_,
                   local_next_version, global_next_version, scheduler_>>

-----------------------------------------------------------------------------
(* RunLeader() and HandleRemoteBatch(): a sequence of another replica. *)

\* The turn of a remote sequence; a leader that synchronizes handles them meanwhile.
TakeRemote(r) ==
    /\ sequences_other_replicas_[r] # <<>>
    /\ \/ pc[r] = "ready" /\ ~ LocalTurn(r)
       \/ pc[r] = "synchronizing"
    /\ TakeTurn(r)
    /\ remote' = [remote EXCEPT ![r] = Head(sequences_other_replicas_[r])]
    /\ sequences_other_replicas_' = [sequences_other_replicas_ EXCEPT ![r] = Tail(@)]
    /\ pc' = [pc EXCEPT ![r] = "handling"]
    /\ UNCHANGED <<inputs, messages, sequence_, proposal, received_synchronize_ack, logs,
                   sent>>

\* Batches of replica 0 need new transactions in the other replicas.
ToGenerate(r) == IF r # 0 /\ remote[r].from = 0 THEN remote[r].data ELSE <<>>

NextToGenerate(r) == ToGenerate(r)[remote[r].index + 1]

Generating(r) == pc[r] = "handling" /\ remote[r].index < Len(ToGenerate(r))

\* Mistake: a batch whose transactions have not arrived is taken to have none.
BadGenerate(r) ==
    /\ Generating(r)
    /\ sequence_' = [sequence_ EXCEPT
          ![r] = IF r \in Involved[NextToGenerate(r)] /\ NextToGenerate(r) \in mr_txn_batches_[r]
                 THEN Append(@, Generated(r, NextToGenerate(r)))
                 ELSE @]
    /\ remote' = [remote EXCEPT ![r].index = @ + 1]
    /\ UNCHANGED <<inputs, messages, alternate, pc, proposal, received_synchronize_ack,
                   sequences_other_replicas_, logs, sent>>

\* When the transactions of the next batch have arrived, those that involve r become
\* a batch of r, which is appended to the local sequence.
Generate(r) ==
    /\ Generating(r)
    /\ NextToGenerate(r) \in mr_txn_batches_[r]
    /\ sequence_' = [sequence_ EXCEPT
          ![r] = IF r \in Involved[NextToGenerate(r)]
                 THEN Append(@, Generated(r, NextToGenerate(r)))
                 ELSE @]
    /\ remote' = [remote EXCEPT ![r].index = @ + 1]
    /\ UNCHANGED <<inputs, messages, alternate, pc, proposal, received_synchronize_ack,
                   sequences_other_replicas_, logs, sent>>

\* The global log alone gets the sequence.
OrderRemote(r) ==
    /\ pc[r] = "handling"
    /\ ~ Generating(r)
    /\ Order(r, remote[r].data)
    /\ global_log_' = [global_log_ EXCEPT ![r] = Append(@,
          [version |-> global_next_version[r] + 1, data |-> remote[r].data])]
    /\ remote' = [remote EXCEPT ![r] = Nothing]
    /\ pc' = [pc EXCEPT ![r] = IF proposal[r] = <<>> THEN "ready"
                               ELSE IF received_synchronize_ack[r] THEN "synchronized"
                               ELSE "synchronizing"]
    /\ UNCHANGED <<inputs, messages, sequence_, alternate, proposal,
                   received_synchronize_ack, sequences_other_replicas_,
                   local_next_version, local_log_, sent>>

-----------------------------------------------------------------------------
(* ReceiveMessage(): one message of the leader's channel. *)

\* The leader polls between two sequences, and while it waits for the transactions of
\* a batch or for SYNCHRONIZE_ACK.
Polling(r) == \/ pc[r] \in {"ready", "synchronizing"}
              \/ Generating(r) /\ NextToGenerate(r) \notin mr_txn_batches_[r]

Receive(m, type) ==
    /\ m.type = type
    /\ Polling(m.to)

OnMRTxnsBatch(m) ==
    /\ Receive(m, "MR_TXNS_BATCH")
    /\ messages' = messages \ {m}
    /\ mr_txn_batches_' = [mr_txn_batches_ EXCEPT ![m.to] = @ \cup {m.data[1][1]}]
    /\ UNCHANGED <<type_, written, sequence_, turn, sequences_other_replicas_, logs, sent>>

\* The sequences of m wait for their turn.
PushRemote(m) ==
    sequences_other_replicas_' = [sequences_other_replicas_ EXCEPT ![m.to] = @ \o
        [i \in DOMAIN m.data |-> [data |-> m.data[i], from |-> m.from, index |-> 0]]]

\* Mistake: only the newest of the sequences is kept.
BadOnNewSequence(m) ==
    /\ Receive(m, "NEW_SEQUENCE")
    /\ PushRemote([m EXCEPT !.data = <<m.data[Len(m.data)]>>])
    /\ messages' = (messages \ {m}) \cup
          {Msg("NEW_SEQUENCE_ACK", m.to, m.from, m.version, <<>>)}
    /\ UNCHANGED <<inputs, sequence_, turn, logs, sent>>

OnNewSequence(m) ==
    /\ Receive(m, "NEW_SEQUENCE")
    /\ PushRemote(m)
    /\ messages' = (messages \ {m}) \cup
          {Msg("NEW_SEQUENCE_ACK", m.to, m.from, m.version, <<>>)}
    /\ UNCHANGED <<inputs, sequence_, turn, logs, sent>>

\* Mistake: the replica is put by even when it is sent more.
BadOnNewSequenceAck(m) ==
    LET r   == m.to
        s   == m.from
        log == local_log_[r]
    IN  /\ Receive(m, "NEW_SEQUENCE_ACK")
        /\ SendNew(r, IF Unsent(r, s, log) = <<>> THEN {} ELSE {s}, log, messages \ {m})
        /\ new_sequence_todo' = [new_sequence_todo EXCEPT ![r] = @ \cup {s}]
        /\ UNCHANGED <<inputs, sequence_, turn, sequences_other_replicas_, logs>>

\* The other replica is sent what was logged meanwhile, or put by until something is.
OnNewSequenceAck(m) ==
    LET r   == m.to
        s   == m.from
        log == local_log_[r]
    IN  /\ Receive(m, "NEW_SEQUENCE_ACK")
        /\ IF Unsent(r, s, log) = <<>>
           THEN /\ messages' = messages \ {m}
                /\ new_sequence_todo' = [new_sequence_todo EXCEPT ![r] = @ \cup {s}]
                /\ UNCHANGED readers_for_local_log_
           ELSE /\ SendNew(r, {s}, log, messages \ {m})
                /\ UNCHANGED new_sequence_todo
        /\ UNCHANGED <<inputs, sequence_, turn, sequences_other_replicas_, logs>>

OnSynchronize(m) ==
    /\ Receive(m, "SYNCHRONIZE")
    /\ PushRemote(m)
    /\ messages' = (messages \ {m}) \cup {Msg("SYNCHRONIZE_ACK", m.to, m.from, 0, <<>>)}
    /\ UNCHANGED <<inputs, sequence_, turn, logs, sent>>

OnSynchronizeAck(m) ==
    /\ Receive(m, "SYNCHRONIZE_ACK")
    /\ messages' = messages \ {m}
    /\ received_synchronize_ack' = [received_synchronize_ack EXCEPT ![m.to] = TRUE]
    /\ UNCHANGED <<inputs, sequence_, alternate, pc, remote, proposal,
                   sequences_other_replicas_, logs, sent>>

-----------------------------------------------------------------------------

Init ==
    /\ type_ \in Type
    /\ written = {}
    /\ messages = {}
    /\ sequence_ = [r \in Replica |-> <<>>]
    /\ alternate = [r \in Replica |-> 0]
    /\ pc = [r \in Replica |-> "ready"]
    /\ remote = [r \in Replica |-> Nothing]
    /\ proposal = [r \in Replica |-> <<>>]
    /\ received_synchronize_ack = [r \in Replica |-> FALSE]
    /\ sequences_other_replicas_ = [r \in Replica |-> <<>>]
    /\ mr_txn_batches_ = [r \in Replica |-> {}]
    /\ local_next_version = [r \in Replica |-> 0]
    /\ global_next_version = [r \in Replica |-> 0]
    /\ local_log_ = [r \in Replica |-> <<>>]
    /\ global_log_ = [r \in Replica |-> <<>>]
    /\ scheduler_ = [r \in Replica |-> <<>>]
    /\ readers_for_local_log_ = [r \in Replica |-> [s \in Replica |-> 0]]
    /\ new_sequence_todo = [r \in Replica |-> {}]

ReceiveMessage(m) == \/ OnMRTxnsBatch(m)
                     \/ OnNewSequence(m)
                     \/ OnNewSequenceAck(m)
                     \/ OnSynchronize(m)
                     \/ OnSynchronizeAck(m)

LeaderNext(r) == \/ ProposeLocal(r)
                 \/ ProposeStrong(r)
                 \/ LogSynchronized(r)
                 \/ TakeRemote(r)
                 \/ Generate(r)
                 \/ OrderRemote(r)

Next ==
    \/ \E b \in Batch : WriteBatch(b)
    \/ \E m \in messages : ForwardBatch(m) \/ AppendBatch(m) \/ ReceiveMessage(m)
    \/ \E r \in Replica : LeaderNext(r)

Spec == Init /\ [][Next]_vars

\* Every leader goes on with its loop and polls its channel in each round, the reader
\* threads poll theirs; the network delivers every message.
FairSpec ==
    /\ Spec
    /\ \A r \in Replica :
          /\ WF_vars(LeaderNext(r))
          /\ WF_vars(\E m \in messages :
                        m.to = r /\ (ForwardBatch(m) \/ AppendBatch(m) \/ ReceiveMessage(m)))
-----------------------------------------------------------------------------
(* Properties. *)

\* Every variable has its type.
TypeOK ==
    /\ type_ \in Type
    /\ written \subseteq Batch
    /\ messages \subseteq Message
    /\ sequence_ \in [Replica -> Data]
    /\ alternate \in [Replica -> 0..(Period - 1)]
    /\ pc \in [Replica -> {"ready", "handling", "synchronizing", "synchronized"}]
    /\ remote \in [Replica -> [data : Data, from : Replica \cup {0}, index : Nat]]
    /\ proposal \in [Replica -> Data]
    /\ received_synchronize_ack \in [Replica -> BOOLEAN]
    /\ sequences_other_replicas_ \in
          [Replica -> Seq([data : Data, from : Replica, index : Nat])]
    /\ mr_txn_batches_ \in [Replica -> SUBSET Batch]
    /\ local_next_version \in [Replica -> Nat]
    /\ global_next_version \in [Replica -> Nat]
    /\ \A l \in {local_log_, global_log_, scheduler_} :
          l \in [Replica -> Seq([version : Nat, data : Data])]
    /\ readers_for_local_log_ \in [Replica -> [Replica -> Nat]]
    /\ new_sequence_todo \in [Replica -> SUBSET Replica]

\* Those of the batches ids that are in S, in their order.
Keep(ids, S) == FlattenSeq([i \in DOMAIN ids |-> IF ids[i] \in S THEN <<ids[i]>> ELSE <<>>])

\* The batches that r has given to its schedulers.
Given(r) == FlattenSeq([i \in DOMAIN scheduler_[r] |-> scheduler_[r][i].data])

\* The batches of s in the order in which r gives them to its schedulers.
OrderOf(s, r) == Keep(Given(r), {id \in BatchId : OriginOf(id) = s})

\* All replicas get the batches of s in the order in which s itself executes them, and
\* none lost or repeated: transactions that one replica masters run in one order
\* everywhere, though each replica merges the replicas' sequences as it likes.
OneOrderPerHome ==
    \A r, s \in Replica : IsPrefix(OrderOf(s, r), OrderOf(s, s))

\* Every replica works off the multi-replica transactions in the order of replica 0:
\* the batches it generates for them follow that order and leave none out.
MultiReplicaOrder ==
    0 \in Replica => \A r \in Replica \ {0} :
        LET sources == Keep(OrderOf(0, 0), {b \in Batch : r \in Involved[b]})
            made    == Keep(OrderOf(r, r), Replica \X Batch)
        IN  IsPrefix(made, [i \in DOMAIN sources |-> Generated(r, sources[i])])

\* Of r's conversation with s there is one token, once r has a local sequence: a
\* NEW_SEQUENCE, its ack, or s in r's todo set; and s in the todo set has been sent
\* all of r's log (the CHECK that there is something to send to it).
OneToken ==
    \A r \in Replica : \A s \in Others(r) :
        /\ Cardinality({m \in messages :
                           \/ m.type = "NEW_SEQUENCE" /\ m.from = r /\ m.to = s
                           \/ m.type = "NEW_SEQUENCE_ACK" /\ m.from = s /\ m.to = r})
           + (IF s \in new_sequence_todo[r] THEN 1 ELSE 0)
           = (IF local_log_[r] = <<>> THEN 0 ELSE 1)
        /\ s \in new_sequence_todo[r]
           => readers_for_local_log_[r][s] = Len(local_log_[r])

\* With stronger availability a sequence is logged, and thereby sent to the other
\* replicas, only when closed_replica has it: one ack never serves for two sequences.
SynchronizedBeforeLogged ==
    Strong => \A r \in Replica :
        LET s == closed_replica(r)
            received == {e.data : e \in ToSet(scheduler_[s])} \cup {remote[s].data}
                        \cup {q.data : q \in ToSet(sequences_other_replicas_[s])}
        IN  \A e \in ToSet(local_log_[r]) : e.data \in received

\* Every batch reaches the schedulers of every replica, and so do the batches that
\* replicas generate from it.
EveryBatchIsOrdered ==
    \A b \in Batch, r \in Replica :
        b \in written ~> /\ b \in ToSet(OrderOf(Home[b], r))
                         /\ \A s \in Involved[b] \ {0} :
                               Generated(s, b) \in ToSet(OrderOf(s, r))

=============================================================================
