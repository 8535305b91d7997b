-------------------------------- MODULE Paxos --------------------------------
(***************************************************************************)
(* A replicated log of batch ids, of class Paxos or LocalPaxos.  The       *)
(* participants of a Paxos are one machine per replica, of which that of   *)
(* replica 0 leads, and each passes the ordered sequences on to the        *)
(* schedulers of its replica.  Those of a LocalPaxos are machines of one   *)
(* replica: its leader sends the order to all schedulers itself, and its   *)
(* followers, which wait for commits on another channel than the leader    *)
(* sends them to, keep the proposals and log nothing.  (What LocalPaxos    *)
(* orders besides its own batches is in GeoLog.)  There is no election and *)
(* no recovery: the leader is fixed.                                       *)
(*                                                                         *)
(* The network delivers the messages between two machines in order and     *)
(* loses none (ZeroMQ push/pull sockets over TCP, with the multiplexer     *)
(* queueing per channel).                                                  *)
(***************************************************************************)
EXTENDS Integers, Sequences, FiniteSets, SequencesExt

CONSTANTS
    NumParticipants,   \* replicas_size() or the machines of a replica, three at most
    Batch              \* the batch ids; the sequencer appends each of them once

ASSUME PaxosAssumption == NumParticipants \in Nat \ {0}

\* A participant is named by its place in participants_.
Participant == 0..(NumParticipants - 1)
Leader == 0

Follower == 1..(NumParticipants - 1)

quorum == (NumParticipants \div 2) + 1

VARIABLES
    class,         \* "Paxos" or "LocalPaxos" (never changes)
    go_,           \* go_[p]: p's thread should run
    pc,            \* where the thread of each participant is
    sequence_,     \* the leader's batches that wait for a proposal
    next_version,
    proposal,      \* the leader's sequence_message: [version, data]
    acks,          \* those of the current proposal, the leader's own included
    to_follower,   \* to_follower[f]: PAXOS_DATA and PAXOS_COMMIT on their way to f
    to_leader,     \* to_leader[f]: versions of f's PAXOS_DATA_ACKs on their way
    uncommitted,   \* uncommitted[f]: f's queue of proposals
    scheduler_,    \* scheduler_[p]: the PAXOS_BATCH_ORDERs sent to the schedulers of
                   \* p's replica, or to p's own for a LocalPaxos
    log_,          \* log_[p]: p's log, entries [version, data]
    submitted      \* history: the batches in the order of their Append()s

leaderVars == <<sequence_, next_version, proposal, acks>>
vars == <<class, go_, pc, leaderVars, to_follower, to_leader, uncommitted, scheduler_,
          log_, submitted>>

\* A message or log entry with a sequence of batches.
Entry == [version : Nat, data : Seq(Batch)]
NoProposal == [version |-> 0, data |-> <<>>]

\* A PAXOS_COMMIT names the version; its data is cleared.
Message == [type : {"PAXOS_DATA", "PAXOS_COMMIT"}, version : Nat, data : Seq(Batch)]

Contents(m) == [version |-> m.version, data |-> m.data]

SendToFollowers(type, version, data) ==
    LET m == [type |-> type, version |-> version, data |-> data]
    IN  to_follower' = [f \in Follower |-> Append(to_follower[f], m)]

-----------------------------------------------------------------------------
(* Any thread of machine 0: Append(), under mutex_.  count_ is the length  *)
(* of sequence_.                                                           *)

AppendBatch(b) ==
    /\ sequence_' = Append(sequence_, b)
    /\ submitted' = Append(submitted, b)
    /\ UNCHANGED <<class, go_, pc, next_version, proposal, acks, to_follower, to_leader,
                   uncommitted, scheduler_, log_>>

\* Stop(), called by the destructor.
Stop(p) ==
    /\ go_' = [go_ EXCEPT ![p] = FALSE]
    /\ UNCHANGED <<class, pc, leaderVars, to_follower, to_leader, uncommitted,
                   scheduler_, log_, submitted>>

-----------------------------------------------------------------------------
(* RunLeader(). *)

\* The waiting loop looks at count_ only, so a stopped leader may still propose.
Propose ==
    /\ pc[Leader] = "waiting"
    /\ sequence_ # <<>>
    /\ proposal' = [version |-> next_version, data |-> sequence_]
    /\ next_version' = next_version + 1
    /\ sequence_' = <<>>
    /\ SendToFollowers("PAXOS_DATA", next_version, sequence_)
    /\ acks' = 1
    /\ pc' = [pc EXCEPT ![Leader] = "collecting"]
    /\ UNCHANGED <<class, go_, to_leader, uncommitted, scheduler_, log_, submitted>>

\* Mistake: acks of earlier proposals count.
BadCollectAck(f) ==
    /\ pc[Leader] = "collecting"
    /\ acks < quorum
    /\ to_leader[f] # <<>>
    /\ acks' = acks + 1
    /\ to_leader' = [to_leader EXCEPT ![f] = Tail(@)]
    /\ UNCHANGED <<class, go_, pc, sequence_, next_version, proposal, to_follower,
                   uncommitted, scheduler_, log_, submitted>>

\* Mistake: the loop takes one ack more than the quorum.
BadQuorumCollectAck(f) ==
    /\ pc[Leader] = "collecting"
    /\ acks <= quorum
    /\ to_leader[f] # <<>>
    /\ acks' = IF Head(to_leader[f]) = proposal.version THEN acks + 1 ELSE acks
    /\ to_leader' = [to_leader EXCEPT ![f] = Tail(@)]
    /\ UNCHANGED <<class, go_, pc, sequence_, next_version, proposal, to_follower,
                   uncommitted, scheduler_, log_, submitted>>

\* Acks that a quorum made superfluous arrive while later proposals collect theirs.
CollectAck(f) ==
    /\ pc[Leader] = "collecting"
    /\ acks < quorum
    /\ to_leader[f] # <<>>
    /\ acks' = IF Head(to_leader[f]) = proposal.version THEN acks + 1 ELSE acks
    /\ to_leader' = [to_leader EXCEPT ![f] = Tail(@)]
    /\ UNCHANGED <<class, go_, pc, sequence_, next_version, proposal, to_follower,
                   uncommitted, scheduler_, log_, submitted>>

\* Mistake: more acks than the leader waits for.
BadHasQuorum == acks > quorum

HasQuorum == acks >= quorum

\* With a quorum of acks the order goes to the schedulers and the commit to the
\* followers; only then does the leader write its own log.
CommitProposal ==
    /\ class = "Paxos"
    /\ pc[Leader] = "collecting"
    /\ HasQuorum
    /\ scheduler_' = [scheduler_ EXCEPT ![Leader] = Append(@, proposal)]
    /\ SendToFollowers("PAXOS_COMMIT", proposal.version, <<>>)
    /\ pc' = [pc EXCEPT ![Leader] = "logging"]
    /\ UNCHANGED <<class, go_, leaderVars, to_leader, uncommitted, log_, submitted>>

\* All schedulers of the replica get the order; no one reads the commits, which go to
\* the followers' channel "paxos_log_".
CommitLocalProposal ==
    /\ class = "LocalPaxos"
    /\ pc[Leader] = "collecting"
    /\ HasQuorum
    /\ scheduler_' = [p \in Participant |-> Append(scheduler_[p], proposal)]
    /\ pc' = [pc EXCEPT ![Leader] = "logging"]
    /\ UNCHANGED <<class, go_, leaderVars, to_follower, to_leader, uncommitted, log_, submitted>>

\* The loop ends here when the leader was stopped.
LogProposal ==
    /\ pc[Leader] = "logging"
    /\ log_' = [log_ EXCEPT ![Leader] = Append(@, proposal)]
    /\ pc' = [pc EXCEPT ![Leader] = IF go_[Leader] THEN "waiting" ELSE "exited"]
    /\ UNCHANGED <<class, go_, leaderVars, to_follower, to_leader, uncommitted,
                   scheduler_, submitted>>

\* A stopped leader gives up while it waits for acks.
LeaderExit ==
    /\ pc[Leader] = "collecting"
    /\ acks < quorum
    /\ ~ go_[Leader]
    /\ pc' = [pc EXCEPT ![Leader] = "exited"]
    /\ UNCHANGED <<class, go_, leaderVars, to_follower, to_leader, uncommitted,
                   scheduler_, log_, submitted>>

-----------------------------------------------------------------------------
(* RunFollower(). *)

\* f takes a message; the loop ends after it when f was stopped.
Receive(f, type) ==
    /\ pc[f] = "waiting"
    /\ to_follower[f] # <<>>
    /\ Head(to_follower[f]).type = type
    /\ to_follower' = [to_follower EXCEPT ![f] = Tail(@)]
    /\ pc' = [pc EXCEPT ![f] = IF go_[f] THEN "waiting" ELSE "exited"]

OnData(f) ==
    /\ Receive(f, "PAXOS_DATA")
    /\ LET e == Contents(Head(to_follower[f]))
       IN  /\ uncommitted' = [uncommitted EXCEPT ![f] = Append(@, e)]
           /\ to_leader' = [to_leader EXCEPT ![f] = Append(@, e.version)]
    /\ UNCHANGED <<class, go_, leaderVars, scheduler_, log_, submitted>>

\* Mistake: the follower passes the order on and never pops its queue.
BadOnCommit(f) ==
    /\ Receive(f, "PAXOS_COMMIT")
    /\ uncommitted[f] # <<>>
    /\ LET e == Head(uncommitted[f])
       IN  /\ scheduler_' = [scheduler_ EXCEPT ![f] = Append(@, e)]
           /\ log_' = [log_ EXCEPT ![f] = Append(@, e)]
    /\ UNCHANGED <<class, go_, leaderVars, to_leader, uncommitted, submitted>>

\* The commit's version is not looked at: it commits the front of the queue.
OnCommit(f) ==
    /\ Receive(f, "PAXOS_COMMIT")
    /\ uncommitted[f] # <<>>
    /\ LET e == Head(uncommitted[f])
       IN  /\ uncommitted' = [uncommitted EXCEPT ![f] = Tail(@)]
           /\ scheduler_' = [scheduler_ EXCEPT ![f] = Append(@, e)]
           /\ log_' = [log_ EXCEPT ![f] = Append(@, e)]
    /\ UNCHANGED <<class, go_, leaderVars, to_leader, submitted>>

FollowerExit(f) ==
    /\ pc[f] = "waiting"
    /\ ~ go_[f]
    /\ pc' = [pc EXCEPT ![f] = "exited"]
    /\ UNCHANGED <<class, go_, leaderVars, to_follower, to_leader, uncommitted,
                   scheduler_, log_, submitted>>

-----------------------------------------------------------------------------

\* A LocalPaxos increments the version before it uses it.
FirstVersion == IF class = "Paxos" THEN 0 ELSE 1

Init ==
    /\ class \in {"Paxos", "LocalPaxos"}
    /\ go_ = [p \in Participant |-> TRUE]
    /\ pc = [p \in Participant |-> "waiting"]
    /\ sequence_ = <<>>
    /\ next_version = FirstVersion
    /\ proposal = NoProposal
    /\ acks = 0
    /\ to_follower = [f \in Follower |-> <<>>]
    /\ to_leader = [f \in Follower |-> <<>>]
    /\ uncommitted = [f \in Follower |-> <<>>]
    /\ scheduler_ = [p \in Participant |-> <<>>]
    /\ log_ = [p \in Participant |-> <<>>]
    /\ submitted = <<>>

LeaderNext == \/ Propose
              \/ \E f \in Follower : CollectAck(f)
              \/ CommitProposal
              \/ CommitLocalProposal
              \/ LogProposal
              \/ LeaderExit

FollowerNext(f) == OnData(f) \/ OnCommit(f) \/ FollowerExit(f)

Next ==
    \/ \E b \in Batch \ ToSet(submitted) : AppendBatch(b)
    \/ \E p \in Participant : go_[p] /\ Stop(p)
    \/ LeaderNext
    \/ \E f \in Follower : FollowerNext(f)

Spec == Init /\ [][Next]_vars

\* Each thread polls its channel in a loop; the network delivers every message.
FairSpec ==
    /\ Spec
    /\ WF_vars(Propose \/ CommitProposal \/ CommitLocalProposal \/ LogProposal
               \/ LeaderExit)
    /\ \A f \in Follower : WF_vars(CollectAck(f)) /\ WF_vars(FollowerNext(f))
-----------------------------------------------------------------------------
(* Properties. *)

\* Every variable has its type.
TypeOK ==
    /\ class \in {"Paxos", "LocalPaxos"}
    /\ go_ \in [Participant -> BOOLEAN]
    /\ pc \in [Participant -> {"waiting", "collecting", "logging", "exited"}]
    /\ sequence_ \in Seq(Batch)
    /\ next_version \in Nat
    /\ proposal \in Entry
    /\ acks \in 0..quorum
    /\ to_follower \in [Follower -> Seq(Message)]
    /\ to_leader \in [Follower -> Seq(Nat)]
    /\ uncommitted \in [Follower -> Seq(Entry)]
    /\ scheduler_ \in [Participant -> Seq(Entry)]
    /\ log_ \in [Participant -> Seq(Entry)]
    /\ submitted \in Seq(Batch)

\* The participants that hold an entry, committed or not.
Holders(e) ==
    {p \in Participant :
        \/ e \in ToSet(log_[p])
        \/ p = Leader /\ e = proposal
        \/ p # Leader /\ e \in ToSet(uncommitted[p])}

\* The schedulers are given an order only after a quorum of the participants holds it.
OrderHeldByQuorum ==
    \A p \in Participant : \A e \in ToSet(scheduler_[p]) :
        Cardinality(Holders(e)) >= quorum

\* A batch is logged, by every participant of a Paxos and by the leader of a LocalPaxos,
\* and ordered by all of them, unless the one is stopped or the leader or too many are.
EveryBatchIsLogged ==
    \A b \in Batch, p \in Participant :
        b \in ToSet(submitted)
        ~> \/ /\ \E e \in ToSet(scheduler_[p]) : b \in ToSet(e.data)
              /\ p = Leader \/ class = "Paxos" => \E e \in ToSet(log_[p]) : b \in ToSet(e.data)
           \/ ~ go_[Leader] \/ ~ go_[p]
           \/ Cardinality({q \in Participant : go_[q]}) < quorum

\* The log implements OrderedLog: a proposal is chosen with the ack that completes
\* its quorum, which no one but the leader knows of.
Entries(l) == [i \in DOMAIN l |-> l[i].data]

Chosen  == pc[Leader] = "collecting" /\ HasQuorum
InDoubt == next_version - FirstVersion > Len(scheduler_[Leader]) /\ ~ Chosen

Abstract == INSTANCE OrderedLog WITH
    taken   <- Len(submitted) - Len(sequence_) - (IF InDoubt THEN Len(proposal.data) ELSE 0),
    chosen  <- Entries(scheduler_[Leader]) \o (IF Chosen THEN <<proposal.data>> ELSE <<>>),
    ordered <- [p \in Participant |-> Entries(scheduler_[p])]

ImplementsOrderedLog == Abstract!Spec
=============================================================================
