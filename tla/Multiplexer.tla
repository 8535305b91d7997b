------------------------------ MODULE Multiplexer ------------------------------
(***************************************************************************)
(* The ConnectionMultiplexer of every machine with the threads that use    *)
(* it: the writer of the sequencer, which waits for all machines before it *)
(* sends its first batch, the scheduler, which is constructed meanwhile,   *)
(* and a worker, which links the channel of a transaction to its own while *)
(* it waits for the read results of the other machines.                    *)
(*                                                                         *)
(* The thread of the multiplexer looks at each of its inputs once a round. *)
(* The inputs are filled by other threads at any time, so that the order   *)
(* within a round is left open.                                            *)
(***************************************************************************)
EXTENDS Integers, Sequences, FiniteSets, SequencesExt

CONSTANTS
    NumMachines,         \* all_nodes_size()
    Sender,              \* bound: the machine whose sequencer has transactions
    MaxTxn,              \* bound: how many
    Sync, Work, Main     \* synchronization_sequencer_channel, scheduler_, scheduler0

Machine == 0..(NumMachines - 1)

Txn == 1..MaxTxn

\* A transaction stands for its own channel ("id-origin").
Channel == {Sync, Work, Main} \cup Txn

ASSUME MultiplexerAssumption ==
    /\ NumMachines \in Nat \ {0}
    /\ Sender \in Machine
    /\ MaxTxn \in Nat
    /\ Sync # Work /\ Sync # Main /\ Work # Main
    /\ {Sync, Work, Main} \cap Txn = {}

VARIABLES
    new_channel_queue_, delete_channel_queue_, link_unlink_queue_,
    send_message_queue_,
    channel_results_,       \* per channel, the one whose queue it has
    queues,                 \* the queues, by the channel they were made for
    undelivered_messages_,
    running,                \* the loop of the multiplexer has not returned
    wire,                   \* wire[m][n]: what is on its way from m to n
    writer, scheduler,      \* where these threads are
    sent,                   \* how many transactions Sender has sent
    txns_queue_, active_txns,
    received                \* history: messages received, by sender and channel

requests == <<new_channel_queue_, delete_channel_queue_, link_unlink_queue_>>
channels == <<channel_results_, queues, undelivered_messages_, running>>
threads  == <<writer, scheduler, sent, txns_queue_, active_txns, received>>
vars == <<requests, send_message_queue_, channels, wire, threads>>

\* num tells the messages of one machine on one channel of another apart.
Message(m, n, c, i) == [from |-> m, to |-> n, channel |-> c, num |-> i]

Channels(m) == DOMAIN channel_results_[m]

-----------------------------------------------------------------------------
(* Run(), the thread of the multiplexer. *)

\* The queues of m when the messages that c was waiting for are forwarded to q.
ForwardUndelivered(m, c, q) ==
    /\ queues' = [queues EXCEPT ![m][q] = @ \o undelivered_messages_[m][c]]
    /\ undelivered_messages_' = [undelivered_messages_ EXCEPT ![m][c] = <<>>]

Connect(m, c, q) ==
    channel_results_' = [channel_results_ EXCEPT
        ![m] = [d \in Channels(m) \cup {c} |-> IF d = c THEN q ELSE @[d]]]

Disconnect(m, c) ==
    channel_results_' = [channel_results_ EXCEPT
        ![m] = [d \in Channels(m) \ {c} |-> @[d]]]

\* Mistake: what came before the channel is not forwarded.
BadCreateChannel(m) ==
    LET c == Head(new_channel_queue_[m])
    IN  /\ running[m] /\ new_channel_queue_[m] # <<>>
        /\ new_channel_queue_' = [new_channel_queue_ EXCEPT ![m] = Tail(@)]
        /\ Connect(m, c, c)
        /\ undelivered_messages_' = [undelivered_messages_ EXCEPT ![m][c] = <<>>]
        /\ UNCHANGED <<queues, running>>
        /\ UNCHANGED <<delete_channel_queue_, link_unlink_queue_, send_message_queue_, wire,
                       threads>>

\* For a name in use the loop returns.
CreateChannel(m) ==
    LET c == Head(new_channel_queue_[m])
    IN  /\ running[m] /\ new_channel_queue_[m] # <<>>
        /\ new_channel_queue_' = [new_channel_queue_ EXCEPT ![m] = Tail(@)]
        /\ IF c \in Channels(m)
           THEN /\ running' = [running EXCEPT ![m] = FALSE]
                /\ UNCHANGED <<channel_results_, queues, undelivered_messages_>>
           ELSE Connect(m, c, c) /\ ForwardUndelivered(m, c, c) /\ UNCHANGED running
        /\ UNCHANGED <<delete_channel_queue_, link_unlink_queue_, send_message_queue_, wire,
                       threads>>

\* The channel's queue is deleted with what it holds.
RemoveChannel(m) ==
    LET c == Head(delete_channel_queue_[m])
    IN  /\ running[m] /\ delete_channel_queue_[m] # <<>>
        /\ delete_channel_queue_' = [delete_channel_queue_ EXCEPT ![m] = Tail(@)]
        /\ IF c \in Channels(m)
           THEN /\ queues' = [queues EXCEPT ![m][channel_results_[m][c]] = <<>>]
                /\ Disconnect(m, c)
           ELSE UNCHANGED <<queues, channel_results_>>
        /\ UNCHANGED <<new_channel_queue_, link_unlink_queue_, send_message_queue_,
                       undelivered_messages_, running, wire, threads>>

\* Mistake: a result whose channel is not linked yet goes to the worker all the same.
BadDeliver(m, msg) ==
    LET c == IF msg.channel \in Txn THEN Main ELSE msg.channel
    IN  IF c \in Channels(m)
        THEN /\ queues' = [queues EXCEPT ![m][channel_results_[m][c]] = Append(@, msg)]
             /\ UNCHANGED undelivered_messages_
        ELSE /\ undelivered_messages_' =
                  [undelivered_messages_ EXCEPT ![m][msg.channel] = Append(@, msg)]
             /\ UNCHANGED queues

\* A message for a channel that m does not have is put by.
Deliver(m, msg) ==
    IF msg.channel \in Channels(m)
    THEN /\ queues' = [queues EXCEPT ![m][channel_results_[m][msg.channel]] = Append(@, msg)]
         /\ UNCHANGED undelivered_messages_
    ELSE /\ undelivered_messages_' =
              [undelivered_messages_ EXCEPT ![m][msg.channel] = Append(@, msg)]
         /\ UNCHANGED queues

ReceiveRemote(m, n) ==
    /\ running[m] /\ wire[n][m] # <<>>
    /\ wire' = [wire EXCEPT ![n][m] = Tail(@)]
    /\ Deliver(m, Head(wire[n][m]))
    /\ UNCHANGED <<requests, send_message_queue_, channel_results_, running, threads>>

SendMessage(m) ==
    LET msg == Head(send_message_queue_[m])
    IN  /\ running[m] /\ send_message_queue_[m] # <<>>
        /\ send_message_queue_' = [send_message_queue_ EXCEPT ![m] = Tail(@)]
        /\ IF msg.to = m
           THEN Deliver(m, msg) /\ UNCHANGED wire
           ELSE /\ wire' = [wire EXCEPT ![m][msg.to] = Append(@, msg)]
                /\ UNCHANGED <<queues, undelivered_messages_>>
        /\ UNCHANGED <<requests, channel_results_, running, threads>>

\* Mistake: a linked channel gets a queue of its own.
BadLinkedTo(m, c) == c

\* LINK_CHANNEL: the channel shares the queue of the main channel.
LinkedTo(m, c) == channel_results_[m][Main]

\* Mistake: only new messages get to a channel that is linked.
BadLinkOrUnlink(m) ==
    LET request == Head(link_unlink_queue_[m])
        c       == request.channel
    IN  /\ running[m] /\ link_unlink_queue_[m] # <<>>
        /\ link_unlink_queue_' = [link_unlink_queue_ EXCEPT ![m] = Tail(@)]
        /\ IF request.type = "LINK_CHANNEL"
           THEN Connect(m, c, LinkedTo(m, c)) ELSE Disconnect(m, c)
        /\ UNCHANGED <<queues, undelivered_messages_>>
        /\ UNCHANGED <<new_channel_queue_, delete_channel_queue_, send_message_queue_,
                       running, wire, threads>>

LinkOrUnlink(m) ==
    LET request == Head(link_unlink_queue_[m])
        c       == request.channel
    IN  /\ running[m] /\ link_unlink_queue_[m] # <<>>
        /\ link_unlink_queue_' = [link_unlink_queue_ EXCEPT ![m] = Tail(@)]
        /\ IF request.type = "LINK_CHANNEL"
           THEN Connect(m, c, LinkedTo(m, c)) /\ ForwardUndelivered(m, c, LinkedTo(m, c))
           ELSE Disconnect(m, c) /\ UNCHANGED <<queues, undelivered_messages_>>
        /\ UNCHANGED <<new_channel_queue_, delete_channel_queue_, send_message_queue_,
                       running, wire, threads>>

-----------------------------------------------------------------------------
(* The calls of the other threads. *)

NewChannel(m, c) ==
    new_channel_queue_' = [new_channel_queue_ EXCEPT ![m] = Append(@, c)]

DeleteChannel(m, c) ==
    delete_channel_queue_' = [delete_channel_queue_ EXCEPT ![m] = Append(@, c)]

Request(m, type, c) ==
    link_unlink_queue_' =
        [link_unlink_queue_ EXCEPT ![m] = Append(@, [type |-> type, channel |-> c])]

\* A loop over the machines of S; each of them gets m's message i on its channel c.
Ascending(S) == {order \in [1..Cardinality(S) -> S] :
                    \A j, k \in 1..Cardinality(S) : j < k => order[j] < order[k]}

Send(m, S, c, i) ==
    \E order \in Ascending(S) :
        send_message_queue_' = [send_message_queue_ EXCEPT ![m] = @ \o
            [k \in 1..Cardinality(S) |-> Message(m, order[k], c, i)]]

\* GotMessage(): the next message of c.
HasMessage(m, c) == c \in Channels(m) /\ queues[m][channel_results_[m][c]] # <<>>
NextMessage(m, c) == Head(queues[m][channel_results_[m][c]])

GotMessage(m, c) ==
    /\ HasMessage(m, c)
    /\ queues' = [queues EXCEPT ![m][channel_results_[m][c]] = Tail(@)]
    /\ LET msg == NextMessage(m, c)
       IN  received' = [received EXCEPT ![m][msg.from][msg.channel] = @ + 1]

-----------------------------------------------------------------------------
(* The writer of the sequencer. *)

Others(m) == Machine \ {m}

\* Starts with 1, for the machine itself.
synchronization_counter(m) ==
    1 + Cardinality({n \in Others(m) : received[m][n][Sync] > 0})

CreateSync(m) ==
    /\ writer[m] = "new"
    /\ NewChannel(m, Sync)
    /\ writer' = [writer EXCEPT ![m] = "creating"]
    /\ UNCHANGED <<delete_channel_queue_, link_unlink_queue_, send_message_queue_, channels,
                   wire, scheduler, sent, txns_queue_, active_txns, received>>

\* NewChannel() has returned.
SendSync(m) ==
    /\ writer[m] = "creating" /\ Sync \in Channels(m)
    /\ Send(m, Others(m), Sync, 1)
    /\ writer' = [writer EXCEPT ![m] = "collecting"]
    /\ UNCHANGED <<requests, channels, wire, scheduler, sent, txns_queue_, active_txns,
                   received>>

GetSync(m) ==
    /\ writer[m] = "collecting" /\ synchronization_counter(m) < Cardinality(Machine)
    /\ GotMessage(m, Sync)
    /\ UNCHANGED <<requests, send_message_queue_, channel_results_, undelivered_messages_,
                   running, wire, writer, scheduler, sent, txns_queue_, active_txns>>

\* Mistake: the machine counts itself twice.
BadDeleteSync(m) ==
    /\ writer[m] = "collecting" /\ synchronization_counter(m) + 1 >= Cardinality(Machine)
    /\ DeleteChannel(m, Sync)
    /\ writer' = [writer EXCEPT ![m] = "deleting"]
    /\ UNCHANGED <<new_channel_queue_, link_unlink_queue_, send_message_queue_, channels,
                   wire, scheduler, sent, txns_queue_, active_txns, received>>

DeleteSync(m) ==
    /\ writer[m] = "collecting" /\ synchronization_counter(m) >= Cardinality(Machine)
    /\ DeleteChannel(m, Sync)
    /\ writer' = [writer EXCEPT ![m] = "deleting"]
    /\ UNCHANGED <<new_channel_queue_, link_unlink_queue_, send_message_queue_, channels,
                   wire, scheduler, sent, txns_queue_, active_txns, received>>

\* DeleteChannel() has returned.
StartWriter(m) ==
    /\ writer[m] = "deleting" /\ Sync \notin Channels(m)
    /\ writer' = [writer EXCEPT ![m] = "started"]
    /\ UNCHANGED <<requests, send_message_queue_, channels, wire, scheduler, sent,
                   txns_queue_, active_txns, received>>

\* The next transaction goes to the schedulers of all machines, ready or not.
SendTxn ==
    /\ writer[Sender] = "started" /\ sent < MaxTxn
    /\ sent' = sent + 1
    /\ Send(Sender, Machine, Work, sent + 1)
    /\ UNCHANGED <<requests, channels, wire, writer, scheduler, txns_queue_, active_txns,
                   received>>

-----------------------------------------------------------------------------
(* The scheduler, which makes its channels one after the other, and the worker. *)

CreateWork(m) ==
    /\ scheduler[m] = "new"
    /\ NewChannel(m, Work)
    /\ scheduler' = [scheduler EXCEPT ![m] = "work"]
    /\ UNCHANGED <<delete_channel_queue_, link_unlink_queue_, send_message_queue_, channels,
                   wire, writer, sent, txns_queue_, active_txns, received>>

CreateMain(m) ==
    /\ scheduler[m] = "work" /\ Work \in Channels(m)
    /\ NewChannel(m, Main)
    /\ scheduler' = [scheduler EXCEPT ![m] = "main"]
    /\ UNCHANGED <<delete_channel_queue_, link_unlink_queue_, send_message_queue_, channels,
                   wire, writer, sent, txns_queue_, active_txns, received>>

\* Once all channels are made the threads start; scheduler_ is polled for transactions.
GetTxn(m) ==
    /\ scheduler[m] = "main" /\ Main \in Channels(m)
    /\ GotMessage(m, Work)
    /\ txns_queue_' = [txns_queue_ EXCEPT ![m] = Append(@, NextMessage(m, Work).num)]
    /\ UNCHANGED <<requests, send_message_queue_, channel_results_, undelivered_messages_,
                   running, wire, writer, scheduler, sent, active_txns>>

\* The worker sends its reads to the other machines and waits for theirs.
TakeTxn(m) ==
    LET t == Head(txns_queue_[m])
    IN  /\ txns_queue_[m] # <<>>
        /\ ~ HasMessage(m, Main)
        /\ txns_queue_' = [txns_queue_ EXCEPT ![m] = Tail(@)]
        /\ active_txns' = [active_txns EXCEPT ![m] = @ \cup {t}]
        /\ Send(m, Others(m), t, 1)
        /\ Request(m, "LINK_CHANNEL", t)
        /\ UNCHANGED <<new_channel_queue_, delete_channel_queue_, channels, wire, writer,
                       scheduler, sent, received>>

\* With the result of machine from t has those of all machines.
ReadyToExecute(m, t, from) == \A n \in Others(m) \ {from} : received[m][n][t] > 0

GetResult(m) ==
    LET msg == NextMessage(m, Main)
        t   == msg.channel
    IN  /\ scheduler[m] = "main"
        /\ GotMessage(m, Main)
        /\ IF ReadyToExecute(m, t, msg.from)
           THEN /\ active_txns' = [active_txns EXCEPT ![m] = @ \ {t}]
                /\ Request(m, "UNLINK_CHANNEL", t)
           ELSE UNCHANGED <<active_txns, link_unlink_queue_>>
        /\ UNCHANGED <<new_channel_queue_, delete_channel_queue_, send_message_queue_,
                       channel_results_, undelivered_messages_, running, wire, writer,
                       scheduler, sent, txns_queue_>>

-----------------------------------------------------------------------------

Init ==
    /\ new_channel_queue_ = [m \in Machine |-> <<>>]
    /\ delete_channel_queue_ = [m \in Machine |-> <<>>]
    /\ link_unlink_queue_ = [m \in Machine |-> <<>>]
    /\ send_message_queue_ = [m \in Machine |-> <<>>]
    /\ channel_results_ = [m \in Machine |-> <<>>]
    /\ queues = [m \in Machine |-> [c \in Channel |-> <<>>]]
    /\ undelivered_messages_ = [m \in Machine |-> [c \in Channel |-> <<>>]]
    /\ running = [m \in Machine |-> TRUE]
    /\ wire = [m \in Machine |-> [n \in Machine |-> <<>>]]
    /\ writer = [m \in Machine |-> "new"]
    /\ scheduler = [m \in Machine |-> "new"]
    /\ sent = 0
    /\ txns_queue_ = [m \in Machine |-> <<>>]
    /\ active_txns = [m \in Machine |-> {}]
    /\ received = [m \in Machine |-> [n \in Machine |-> [c \in Channel |-> 0]]]

Requests(m) == CreateChannel(m) \/ RemoveChannel(m) \/ LinkOrUnlink(m)

RunWriter(m) ==
    CreateSync(m) \/ SendSync(m) \/ GetSync(m) \/ DeleteSync(m) \/ StartWriter(m)

RunScheduler(m) == CreateWork(m) \/ CreateMain(m) \/ GetTxn(m)

RunWorker(m) == TakeTxn(m) \/ GetResult(m)

Next ==
    \/ \E m \in Machine :
          \/ Requests(m)
          \/ \E n \in Machine : ReceiveRemote(m, n)
          \/ SendMessage(m)
          \/ RunWriter(m)
          \/ RunScheduler(m)
          \/ RunWorker(m)
    \/ SendTxn

Spec == Init /\ [][Next]_vars

\* Every loop looks at each of its inputs again and again; which remote machine is
\* served next is left to the socket, which forgets none.
FairSpec ==
    /\ Spec
    /\ \A m \in Machine :
          /\ WF_vars(CreateChannel(m)) /\ WF_vars(RemoveChannel(m))
          /\ WF_vars(LinkOrUnlink(m)) /\ WF_vars(SendMessage(m))
          /\ \A n \in Machine : WF_vars(ReceiveRemote(m, n))
          /\ WF_vars(RunWriter(m)) /\ WF_vars(RunScheduler(m)) /\ WF_vars(RunWorker(m))
-----------------------------------------------------------------------------
(* Properties. *)

Messages == [from : Machine, to : Machine, channel : Channel, num : Nat]

\* Every variable has its type; only channels that were made, and not linked, have a
\* queue.
TypeOK ==
    /\ new_channel_queue_ \in [Machine -> Seq({Sync, Work, Main})]
    /\ delete_channel_queue_ \in [Machine -> Seq({Sync})]
    /\ link_unlink_queue_ \in
          [Machine -> Seq([type : {"LINK_CHANNEL", "UNLINK_CHANNEL"}, channel : Txn])]
    /\ send_message_queue_ \in [Machine -> Seq(Messages)]
    /\ \A m \in Machine :
          /\ Channels(m) \subseteq Channel
          /\ \A c \in Channels(m) : channel_results_[m][c] = IF c \in Txn THEN Main ELSE c
    /\ queues \in [Machine -> [Channel -> Seq(Messages)]]
    /\ undelivered_messages_ \in [Machine -> [Channel -> Seq(Messages)]]
    /\ running \in [Machine -> BOOLEAN]
    /\ wire \in [Machine -> [Machine -> Seq(Messages)]]
    /\ writer \in [Machine -> {"new", "creating", "collecting", "deleting", "started"}]
    /\ scheduler \in [Machine -> {"new", "work", "main"}]
    /\ sent \in 0..MaxTxn
    /\ txns_queue_ \in [Machine -> Seq(Txn)]
    /\ active_txns \in [Machine -> SUBSET Txn]
    /\ received \in [Machine -> [Machine -> [Channel -> Nat]]]

\* The transactions m's worker has taken.
Taken(m) == 1..received[m][Sender][Work] \ ToSet(txns_queue_[m])

\* How many messages m has sent to n's channel c.
Sent(m, n, c) ==
    CASE c = Sync -> IF m # n /\ writer[m] \notin {"new", "creating"} THEN 1 ELSE 0
      [] c = Work -> IF m = Sender THEN sent ELSE 0
      [] c = Main -> 0
      [] c \in Txn -> IF m # n /\ c \in Taken(m) THEN 1 ELSE 0

\* What n's thread that reads channel c finds, now or later.
Arrived(n, c) == IF c \in Channels(n) THEN queues[n][channel_results_[n][c]] ELSE <<>>

\* The way of a message from m to n's channel c, the oldest first.
Way(m, n, c) ==
    Arrived(n, c) \o undelivered_messages_[n][c] \o wire[m][n] \o send_message_queue_[m]

IsFor(msg, m, n, c) == msg.from = m /\ msg.to = n /\ msg.channel = c

\* Of the messages from m to n's channel c, s has those with numbers after i up to j, each
\* once and in this order.
Carries(s, m, n, c, i, j) ==
    /\ i <= j
    /\ \A k \in DOMAIN s : IsFor(s[k], m, n, c) => s[k].num \in (i + 1)..j
    /\ \A x \in (i + 1)..j : \E k \in DOMAIN s : IsFor(s[k], m, n, c) /\ s[k].num = x
    /\ \A k, l \in DOMAIN s :
          k < l /\ IsFor(s[k], m, n, c) /\ IsFor(s[l], m, n, c) => s[k].num < s[l].num

\* Whether a channel is made, linked or deleted before, between or after the messages
\* to it: each of them is read once, and those of a machine in the order in which it
\* sent them.
EachOnceInOrder ==
    \A m, n \in Machine, c \in Channel :
        Carries(Way(m, n, c), m, n, c, received[n][m][c], Sent(m, n, c))

\* The worker has the transaction of each result it will read (the CHECK on
\* active_txns): no channel is linked too early or unlinked too late.
ResultsMeetTheirTxn ==
    \A m \in Machine : \A msg \in ToSet(queues[m][Main]) : msg.channel \in active_txns[m]

\* No sequencer starts before those of all machines have made their channels: no
\* machine sends a batch to one that could still miss it.
StartTogether ==
    \A m \in Machine : writer[m] \in {"deleting", "started"} =>
        \A n \in Machine : Sync \in Channels(n) \/ writer[n] \in {"deleting", "started"}

\* All sequencers start, and all transactions end on all machines.
AllStartAndEnd ==
    <>[](\A m \in Machine :
            /\ writer[m] = "started"
            /\ Taken(m) = 1..sent
            /\ active_txns[m] = {})
=============================================================================
