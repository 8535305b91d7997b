------------------------------ MODULE PaxosProofs ------------------------------
(***************************************************************************)
(* Proofs about Paxos, for any number of participants and any batches: the *)
(* leader orders a sequence only when a quorum holds it, and although a    *)
(* follower commits the front of its queue without a look at the version,  *)
(* all participants pass on the same sequences in the same order.          *)
(***************************************************************************)
EXTENDS Paxos, FiniteSetTheorems, SequenceTheorems, TLAPS

\* How many sequences the leader has proposed, and how many it has ordered.
Proposals == next_version - FirstVersion
Decided   == Len(scheduler_[Leader])

\* The i-th sequence proposed: the last one may still be undecided.
Proposed(i) == IF i <= Decided THEN scheduler_[Leader][i] ELSE proposal

\* How many entries p has logged, and how many sequences are in f's queue.
Logged(p) == Len(log_[p])
Queued(f) == Len(uncommitted[f])

\* How many messages are on their way to f, and how many acks of f.
Coming(f)  == Len(to_follower[f])
AcksOut(f) == Len(to_leader[f])

\* How many proposals f has got, and to how many of them the leader has read its ack.
Got(f)     == Logged(f) + Queued(f)
Counted(f) == Got(f) - AcksOut(f)

\* One proposal at a time is undecided; the leader logs what it has just ordered.
LeaderInv ==
    /\ Proposals = Decided + (IF pc[Leader] = "collecting" THEN 1 ELSE 0)
       \/ (pc[Leader] = "exited" /\ Proposals = Decided + 1)
    /\ pc[Leader] = "logging" => Decided > 0 /\ proposal = scheduler_[Leader][Decided]
    /\ Logged(Leader) = Decided - (IF pc[Leader] = "logging" THEN 1 ELSE 0)
    /\ \A i \in 1..Logged(Leader) : log_[Leader][i] = scheduler_[Leader][i]

\* Versions count the proposals.
VersionInv == \A i \in 1..Proposals : Proposed(i).version = FirstVersion + i - 1

\* A follower holds an initial part of what was proposed, and has logged an initial part
\* of what was ordered.
HeldInv ==
    \A f \in Follower :
        /\ Got(f) <= Proposals
        /\ Logged(f) <= Decided
        /\ \A i \in 1..Logged(f) : log_[f][i] = scheduler_[Leader][i]
        /\ \A i \in 1..Queued(f) : uncommitted[f][i] = Proposed(Logged(f) + i)
        /\ class = "Paxos" => scheduler_[f] = log_[f]
        /\ class = "LocalPaxos" => log_[f] = <<>> /\ scheduler_[f] = scheduler_[Leader]

IsData(m, i) == m.type = "PAXOS_DATA" /\ Contents(m) = Proposed(i)

\* How many messages f was sent, and how many of them it has read.
SentTo  == IF class = "Paxos" THEN Proposals + Decided ELSE Proposals
Read(f) == IF class = "Paxos" THEN Got(f) + Logged(f) ELSE Got(f)

\* m is the i-th message to the followers.  To those of a Paxos proposals and commits take
\* turns.
IsMessage(m, i) ==
    \A j \in 1..Proposals :
        IF class = "Paxos"
        THEN (i = 2 * j - 1 => IsData(m, j)) /\ (i = 2 * j => m.type = "PAXOS_COMMIT")
        ELSE i = j => IsData(m, j)

\* The messages on their way are the last ones, so that a commit finds the sequence that
\* it is about, and no other, in the follower's queue.
ChannelInv ==
    \A f \in Follower :
        /\ Coming(f) = SentTo - Read(f)
        /\ class = "Paxos" => Queued(f) <= 1
        /\ \A i \in 1..Coming(f) : IsMessage(to_follower[f][i], Read(f) + i)

\* The acks on their way are those of the last proposals that a follower got, and the
\* leader has counted one ack of each follower whose ack of this proposal is read.
Acked == {f \in Follower : Counted(f) = Proposals}

AckInv ==
    /\ \A f \in Follower :
          /\ Counted(f) >= 0
          /\ \A i \in 1..AcksOut(f) : to_leader[f][i] = FirstVersion + Counted(f) + i - 1
    /\ pc[Leader] = "collecting" => acks = 1 + Cardinality(Acked)

\* The followers that hold the i-th proposal.
HoldersOf(i) == {f \in Follower : Got(f) >= i}

QuorumInv == \A i \in 1..Decided : Cardinality(HoldersOf(i)) + 1 >= quorum

\* The submitted batches that wait are the last ones; those of the undecided proposal
\* come before them.
Waiting == Len(submitted) - Len(sequence_)
Doubted == IF Proposals > Decided THEN Len(proposal.data) ELSE 0

BatchInv ==
    /\ Doubted <= Waiting
    /\ \A i \in 1..Len(sequence_) : sequence_[i] = submitted[Waiting + i]
    /\ Proposals > Decided => Doubted > 0
    /\ \A i \in 1..Doubted : proposal.data[i] = submitted[Waiting - Doubted + i]

IInv == /\ TypeOK /\ LeaderInv /\ VersionInv /\ HeldInv /\ ChannelInv /\ AckInv
        /\ QuorumInv /\ BatchInv
-----------------------------------------------------------------------------
(* Sequences. *)

\* What Append() gives.
LEMMA AppendFacts ==
    ASSUME NEW S, NEW s \in Seq(S), NEW e \in S
    PROVE  /\ Append(s, e) \in Seq(S) /\ Len(Append(s, e)) = Len(s) + 1
           /\ Append(s, e)[Len(s) + 1] = e
           /\ \A i \in 1..Len(s) : Append(s, e)[i] = s[i]
OBVIOUS

\* What Head() and Tail() give.
LEMMA TailFacts ==
    ASSUME NEW S, NEW s \in Seq(S), s # <<>>
    PROVE  /\ Len(s) \in Nat \ {0} /\ Head(s) = s[1] /\ Head(s) \in S
           /\ Tail(s) \in Seq(S) /\ Len(Tail(s)) = Len(s) - 1
           /\ \A i \in 1..(Len(s) - 1) : Tail(s)[i] = s[i + 1]
OBVIOUS

\* A sequence that equals a part of another one element by element is that part.
LEMMA SubSeqFacts ==
    ASSUME NEW S, NEW s \in Seq(S), NEW d \in Seq(S), NEW m \in Nat, NEW n \in Nat,
           m <= n, n <= Len(s), Len(d) = n - m, \A i \in 1..Len(d) : d[i] = s[m + i]
    PROVE  SubSeq(s, m + 1, n) = d
<1>1. Len(s) \in Nat /\ \A i \in (m + 1)..n : s[i] \in S
  OBVIOUS
<1> DEFINE k == m + 1
<1>2. k \in Int /\ n \in Int /\ \A i \in k..n : s[i] \in S
  BY <1>1
<1> HIDE DEF k
<1>3. /\ SubSeq(s, k, n) \in Seq(S) /\ Len(SubSeq(s, k, n)) = IF k <= n THEN n - k + 1 ELSE 0
      /\ \A i \in 1..(n - k + 1) : SubSeq(s, k, n)[i] = s[k + i - 1]
  BY <1>2, SubSeqProperties
<1>4. Len(SubSeq(s, k, n)) = Len(d)
  BY <1>3 DEF k
<1>5. ASSUME NEW i \in 1..Len(d) PROVE SubSeq(s, k, n)[i] = d[i]
  <2>1. n - k + 1 = Len(d) /\ k + i - 1 = m + i
    BY DEF k
  <2>2. SubSeq(s, k, n)[i] = s[k + i - 1]
    BY <1>3, <2>1
  <2> QED
    BY <2>1, <2>2
<1>6. SubSeq(s, k, n) = d
  BY <1>3, <1>4, <1>5, SeqEqual
<1> QED
  BY <1>6 DEF k

\* The elements of a sequence.
LEMMA ElementsFacts ==
    ASSUME NEW S, NEW s \in Seq(S)
    PROVE  \A i \in 1..Len(s) : s[i] \in ToSet(s)
BY DEF ToSet

-----------------------------------------------------------------------------
(* Types. *)

\* What the types say about the parts of the state that the proofs look at.
LEMMA Types ==
    ASSUME TypeOK
    PROVE  /\ FirstVersion \in Nat /\ Proposals \in Int /\ quorum \in Nat \ {0}
           /\ Leader \in Participant /\ Leader \notin Follower
           /\ class \in {"Paxos", "LocalPaxos"}
           /\ Decided \in Nat /\ DOMAIN scheduler_[Leader] = 1..Decided
           /\ \A f \in Follower :
                /\ f \in Participant /\ f # Leader
                /\ to_follower[f] \in Seq(Message) /\ to_leader[f] \in Seq(Nat)
                /\ uncommitted[f] \in Seq(Entry)
                /\ Coming(f) \in Nat /\ AcksOut(f) \in Nat /\ Queued(f) \in Nat
                /\ Got(f) \in Nat /\ Counted(f) \in Int
           /\ \A p \in Participant :
                /\ scheduler_[p] \in Seq(Entry) /\ log_[p] \in Seq(Entry)
                /\ Len(scheduler_[p]) \in Nat /\ Logged(p) \in Nat
<1>1. FirstVersion \in Nat
  BY DEF FirstVersion
<1>2. Leader \in Participant /\ Leader \notin Follower /\ quorum \in Nat \ {0}
  BY PaxosAssumption DEF Leader, Participant, Follower, quorum
<1>3. ASSUME NEW f \in Follower PROVE f \in Participant /\ f # Leader
  BY <1>2, PaxosAssumption DEF Participant, Follower
<1>4. ASSUME NEW p \in Participant
      PROVE  /\ scheduler_[p] \in Seq(Entry) /\ log_[p] \in Seq(Entry)
             /\ Len(scheduler_[p]) \in Nat /\ Logged(p) \in Nat
  BY DEF TypeOK, Logged
<1>5. ASSUME NEW f \in Follower
      PROVE  /\ to_follower[f] \in Seq(Message) /\ to_leader[f] \in Seq(Nat)
             /\ uncommitted[f] \in Seq(Entry)
             /\ Coming(f) \in Nat /\ AcksOut(f) \in Nat /\ Queued(f) \in Nat
  BY DEF TypeOK, Coming, AcksOut, Queued
<1>6. ASSUME NEW f \in Follower
      PROVE  Got(f) \in Nat /\ Counted(f) \in Int
  BY <1>3, <1>4, <1>5 DEF Got, Counted
<1>7. Proposals \in Int /\ class \in {"Paxos", "LocalPaxos"}
  BY <1>1 DEF TypeOK, Proposals
<1>8. Decided \in Nat /\ DOMAIN scheduler_[Leader] = 1..Decided
  BY <1>2, <1>4 DEF Decided
<1> QED
  BY <1>1, <1>2, <1>3, <1>4, <1>5, <1>6, <1>7, <1>8

\* The followers are finitely many.
LEMMA FiniteFollowers ==
    ASSUME NEW S \in SUBSET Follower
    PROVE  IsFiniteSet(S) /\ Cardinality(S) \in Nat
<1>1. IsFiniteSet(Follower)
  BY PaxosAssumption, FS_Interval DEF Follower
<1> QED
  BY <1>1, FS_Subset, FS_CardinalityType

-----------------------------------------------------------------------------
(* The initial states. *)

\* The invariant holds when all threads start.
LEMMA InitInv == Init => IInv
<1> SUFFICES ASSUME Init PROVE IInv
  OBVIOUS
<1> USE DEF Init
<1>1. Leader \in Participant /\ \A f \in Follower : f \in Participant
  BY PaxosAssumption DEF Leader, Participant, Follower
<1>2. FirstVersion \in Nat /\ Proposals = 0
  BY DEF FirstVersion, Proposals
<1>3. TypeOK
  <2>1. quorum \in Nat \ {0}
    BY PaxosAssumption DEF quorum
  <2>2. NoProposal \in Entry
    BY DEF NoProposal, Entry
  <2> QED
    BY <1>2, <2>1, <2>2 DEF TypeOK
<1>4. Decided = 0 /\ Logged(Leader) = 0
  BY <1>1 DEF Decided, Logged
<1>5. ASSUME NEW f \in Follower
      PROVE  /\ Coming(f) = 0 /\ Queued(f) = 0 /\ AcksOut(f) = 0 /\ Logged(f) = 0
             /\ log_[f] = <<>> /\ scheduler_[f] = <<>> /\ Got(f) = 0 /\ Counted(f) = 0
  BY <1>1 DEF Got, Counted, Coming, Queued, AcksOut, Logged
<1>6. LeaderInv /\ VersionInv /\ QuorumInv
  <2>1. pc[Leader] = "waiting"
    BY <1>1
  <2> HIDE DEF Init
  <2> QED
    BY <1>2, <1>4, <2>1 DEF LeaderInv, VersionInv, QuorumInv
<1>7. HeldInv /\ ChannelInv /\ AckInv
  <2>2. SentTo = 0 /\ \A f \in Follower : Read(f) = 0
    BY <1>2, <1>4, <1>5 DEF SentTo, Read
  <2>3. pc[Leader] = "waiting" /\ scheduler_[Leader] = <<>>
    BY <1>1
  <2>4. HeldInv
    BY <1>2, <1>4, <1>5, <2>3 DEF HeldInv
  <2>5. ChannelInv
    BY <1>5, <2>2 DEF ChannelInv
  <2>6. AckInv
    BY <1>5, <2>3 DEF AckInv
  <2> QED
    BY <2>4, <2>5, <2>6
<1>8. BatchInv
  BY <1>2, <1>4 DEF BatchInv, Waiting, Doubted
<1> QED
  BY <1>3, <1>6, <1>7, <1>8 DEF IInv


-----------------------------------------------------------------------------
(* One lemma per action. *)

\* What the leader's and the followers' logs, queues and channels determine.
LEMMA Unchanged ==
    ASSUME UNCHANGED <<class, next_version, proposal, scheduler_>>
    PROVE  /\ UNCHANGED <<FirstVersion, Proposals, Decided>>
           /\ \A i : UNCHANGED Proposed(i)
BY DEF FirstVersion, Proposals, Decided, Proposed

\* Without a new proposal the messages that the followers expect stay the same.
LEMMA SameMessages ==
    ASSUME class' = class, Proposals' = Proposals,
           \A j \in 1..Proposals : Proposed(j)' = Proposed(j)
    PROVE  \A x, k : IsMessage(x, k)' <=> IsMessage(x, k)
<1> SUFFICES ASSUME NEW x, NEW k PROVE IsMessage(x, k)' <=> IsMessage(x, k)
  OBVIOUS
<1>1. \A j \in 1..Proposals : IsData(x, j)' <=> IsData(x, j)
  BY DEF IsData, Contents
<1> QED
  BY <1>1 DEF IsMessage

\* Append() adds the same batch to those submitted and to those that wait.
LEMMA AppendBatchStep ==
    ASSUME IInv, NEW b \in Batch, AppendBatch(b)
    PROVE  IInv'
<1> USE DEF IInv, AppendBatch
<1>1. /\ UNCHANGED <<FirstVersion, Proposals, Decided>> /\ \A i : UNCHANGED Proposed(i)
      /\ \A f : UNCHANGED <<Got(f), Counted(f), Logged(f), Queued(f), Coming(f), AcksOut(f)>>
  BY Unchanged DEF Got, Counted, Logged, Queued, Coming, AcksOut
<1>2. TypeOK'
  BY DEF TypeOK
<1>3. LeaderInv' /\ VersionInv'
  BY <1>1 DEF LeaderInv, VersionInv
<1>4. HeldInv' /\ ChannelInv'
  BY <1>1 DEF HeldInv, ChannelInv, IsData, IsMessage, SentTo, Read
<1>5. AckInv' /\ QuorumInv'
  BY <1>1 DEF AckInv, QuorumInv, Acked, HoldersOf
<1>6. BatchInv'
  <2>1. sequence_ \in Seq(Batch) /\ submitted \in Seq(Batch) /\ proposal.data \in Seq(Batch)
    BY DEF TypeOK, Entry
  <2>2. Waiting' = Waiting /\ Doubted' = Doubted /\ Doubted \in Nat
    BY <1>1, <2>1 DEF Waiting, Doubted
  <2>0. Waiting \in Int /\ Len(proposal.data) \in Nat
    BY <2>1 DEF Waiting
  <2> DEFINE q == Len(sequence_)
             l == Len(submitted)
  <2>3. /\ q \in Nat /\ l \in Nat /\ Waiting = l - q /\ Doubted <= Waiting
        /\ \A i \in 1..q : sequence_[i] = submitted[Waiting + i]
        /\ \A i \in 1..Doubted : proposal.data[i] = submitted[Waiting - Doubted + i]
    BY <2>1 DEF BatchInv, Waiting
  <2>4. /\ Len(sequence_') = q + 1 /\ sequence_'[q + 1] = b
        /\ \A i \in 1..q : sequence_'[i] = sequence_[i]
        /\ submitted'[l + 1] = b /\ \A i \in 1..l : submitted'[i] = submitted[i]
    BY <2>1
  <2> HIDE DEF q, l
  <2> HIDE DEF IInv, AppendBatch
  <2>5. ASSUME NEW i \in 1..(q + 1) PROVE sequence_'[i] = submitted'[Waiting + i]
    <3>1. CASE i = q + 1
      BY <2>3, <2>4, <3>1
    <3>2. CASE i \in 1..q
      <4>1. Waiting + i \in 1..l
        BY <2>0, <2>2, <2>3, <3>2
      <4> QED
        BY <2>3, <2>4, <3>2, <4>1
    <3> QED
      BY <2>3, <3>1, <3>2
  <2>6. ASSUME NEW i \in 1..Doubted PROVE proposal.data[i] = submitted'[Waiting - Doubted + i]
    <3>1. Waiting - Doubted + i \in 1..l
      BY <2>0, <2>2, <2>3
    <3> QED
      BY <2>3, <2>4, <3>1
  <2> QED
    BY <1>1, <2>2, <2>3, <2>4, <2>5, <2>6 DEF BatchInv, AppendBatch, IInv
<1> QED
  BY <1>2, <1>3, <1>4, <1>5, <1>6

\* Steps that change no more than which threads run.
LEMMA ThreadStep ==
    ASSUME IInv, TypeOK',
           UNCHANGED <<class, leaderVars, to_follower, to_leader, uncommitted, scheduler_,
                       log_, submitted>>,
           \/ pc'[Leader] = pc[Leader]
           \/ pc[Leader] = "collecting" /\ pc'[Leader] = "exited"
    PROVE  IInv'
<1> USE DEF IInv, leaderVars
<1>1. /\ UNCHANGED <<FirstVersion, Proposals, Decided>> /\ \A i : UNCHANGED Proposed(i)
      /\ \A f : UNCHANGED <<Got(f), Counted(f), Logged(f), Queued(f), Coming(f), AcksOut(f)>>
  BY Unchanged DEF Got, Counted, Logged, Queued, Coming, AcksOut
<1>2. LeaderInv' /\ VersionInv'
  BY <1>1 DEF LeaderInv, VersionInv
<1>3. HeldInv' /\ ChannelInv'
  BY <1>1 DEF HeldInv, ChannelInv, IsData, IsMessage, SentTo, Read
<1>4. AckInv' /\ QuorumInv'
  BY <1>1 DEF AckInv, QuorumInv, Acked, HoldersOf
<1>5. BatchInv'
  BY <1>1 DEF BatchInv, Waiting, Doubted
<1> QED
  BY <1>2, <1>3, <1>4, <1>5

\* A new proposal: its message is the last of each channel, and no one has acked it.
LEMMA ProposeStep ==
    ASSUME IInv, Propose
    PROVE  IInv'
<1> DEFINE n == Proposals
           m == [type |-> "PAXOS_DATA", version |-> next_version, data |-> sequence_]
<1>t. TypeOK
  BY DEF IInv
<1>1. /\ FirstVersion' = FirstVersion /\ Decided' = Decided /\ Proposals' = n + 1
      /\ \A f : UNCHANGED <<Got(f), Counted(f), Logged(f), Queued(f), AcksOut(f)>>
      /\ \A i : i <= Decided => Proposed(i)' = Proposed(i)
  BY <1>t, Types DEF Propose, FirstVersion, Proposals, Decided, Got, Counted, Proposed, TypeOK,
                     Logged, Queued, AcksOut
<1>2. n = Decided /\ n \in Nat /\ pc'[Leader] = "collecting" /\ FirstVersion \in Nat
  BY <1>t, Types DEF IInv, Propose, LeaderInv, TypeOK
<1>3. ASSUME NEW k, k = n + 1
      PROVE  Proposed(k)' = [version |-> next_version, data |-> sequence_]
  BY <1>1, <1>2, <1>3 DEF Propose, Proposed
<1>4. TypeOK'
  <2>1. proposal' \in Entry /\ m \in Message
    BY <1>t DEF Propose, TypeOK, Entry, Message
  <2>2. to_follower' \in [Follower -> Seq(Message)]
    BY <1>t, <2>1 DEF Propose, TypeOK, SendToFollowers
  <2>3. acks' \in 0..quorum
    BY <1>t, Types DEF Propose
  <2> QED
    BY <1>t, <2>1, <2>2, <2>3, Types DEF Propose, TypeOK
<1>5. LeaderInv'
  BY <1>1, <1>2, <1>t, Types DEF IInv, Propose, LeaderInv
<1>6. VersionInv'
  <2> SUFFICES ASSUME NEW i \in 1..(n + 1) PROVE Proposed(i)'.version = FirstVersion + i - 1
    BY <1>1 DEF VersionInv
  <2>1. CASE i <= n
    BY <1>1, <1>2, <2>1 DEF IInv, VersionInv
  <2>2. CASE i = n + 1
    <3>1. next_version = FirstVersion + n
      BY <1>2, <1>t DEF Proposals, TypeOK
    <3>2. \A k : k = n + 1 => Proposed(k)'.version = next_version
      BY <1>3
    <3> QED
      BY <1>2, <2>2, <3>1, <3>2
  <2> QED
    BY <1>2, <2>1, <2>2
<1>7. HeldInv'
  <2> SUFFICES ASSUME NEW f \in Follower, NEW i \in 1..Queued(f)
               PROVE  Proposed(Logged(f) + i)' = Proposed(Logged(f) + i)
    <3>1. /\ UNCHANGED <<class, log_, uncommitted, scheduler_>>
          /\ \A f \in Follower : Got(f)' = Got(f) /\ Got(f) \in Nat
      BY <1>1, <1>t, Types DEF Propose
    <3> QED
      BY <1>1, <1>2, <3>1 DEF IInv, HeldInv
  <2>1. Logged(f) \in Nat /\ Queued(f) \in Nat /\ Got(f) <= n
    BY <1>t, Types DEF IInv, HeldInv
  <2>2. Logged(f) + i <= Decided
    BY <1>2, <2>1 DEF Got
  <2>3. \A k : k = Logged(f) + i => Proposed(k)' = Proposed(k)
    BY <1>1, <2>2
  <2>4. Logged(f)' = Logged(f)
    BY <1>1
  <2> QED
    BY <2>3, <2>4
<1>8. /\ class' = class /\ UNCHANGED <<uncommitted, log_>>
      /\ SentTo' = SentTo + 1 /\ SentTo = (IF class = "Paxos" THEN 2 * n ELSE n)
      /\ \A f \in Follower : Read(f)' = Read(f) /\ Read(f) \in Nat
  <2>1. class' = class /\ uncommitted' = uncommitted /\ log_' = log_
    BY DEF Propose
  <2>2. SentTo' = SentTo + 1 /\ SentTo = (IF class = "Paxos" THEN 2 * n ELSE n)
    BY <1>1, <1>2, <2>1 DEF SentTo
  <2>3. ASSUME NEW f \in Follower PROVE Read(f)' = Read(f) /\ Read(f) \in Nat
    <3>1. Got(f)' = Got(f) /\ Got(f) \in Nat /\ Logged(f) \in Nat
      BY <1>1, <1>t, Types
    <3>2. Logged(f)' = Logged(f)
      BY <1>1
    <3> QED
      BY <2>1, <3>1, <3>2 DEF Read
  <2> QED
    BY <2>1, <2>2, <2>3
<1> HIDE DEF n, m
<1>9. /\ \A x : \A j \in 1..n : IsData(x, j)' <=> IsData(x, j)
      /\ \A x, j : x = m /\ j = n + 1 => IsData(x, j)'
  <2>1. ASSUME NEW x, NEW j \in 1..n PROVE IsData(x, j)' <=> IsData(x, j)
    <3>1. Proposed(j)' = Proposed(j)
      BY <1>1, <1>2
    <3> QED
      BY <3>1 DEF IsData, Contents
  <2>2. ASSUME NEW x, NEW j, x = m, j = n + 1 PROVE IsData(x, j)'
    <3>1. Proposed(j)' = [version |-> next_version, data |-> sequence_]
      BY <1>3, <2>2
    <3> QED
      BY <2>2, <3>1 DEF IsData, Contents, m
  <2> QED
    BY <2>1, <2>2
<1>10. ChannelInv'
  <2>1. ASSUME NEW x, NEW k \in 1..SentTo, IsMessage(x, k) PROVE IsMessage(x, k)'
    <3> SUFFICES ASSUME NEW j \in 1..(n + 1)
                 PROVE  IF class = "Paxos"
                        THEN /\ k = 2 * j - 1 => IsData(x, j)'
                             /\ k = 2 * j => x.type = "PAXOS_COMMIT"
                        ELSE k = j => IsData(x, j)'
      BY <1>1, <1>8 DEF IsMessage
    <3>1. CASE j = n + 1
      BY <1>2, <1>8, <3>1
    <3>2. CASE j \in 1..n
      <4>1. IF class = "Paxos"
            THEN (k = 2 * j - 1 => IsData(x, j)) /\ (k = 2 * j => x.type = "PAXOS_COMMIT")
            ELSE k = j => IsData(x, j)
        BY <2>1, <3>2 DEF IsMessage, n
      <4>2. IsData(x, j)' <=> IsData(x, j)
        BY <1>9, <3>2
      <4> QED
        BY <4>1, <4>2
    <3> QED
      BY <1>2, <3>1, <3>2
  <2>2. ASSUME NEW x, NEW k, x = m, k = SentTo + 1 PROVE IsMessage(x, k)'
    <3> SUFFICES ASSUME NEW j \in 1..(n + 1)
                 PROVE  IF class = "Paxos"
                        THEN /\ k = 2 * j - 1 => IsData(x, j)'
                             /\ k = 2 * j => x.type = "PAXOS_COMMIT"
                        ELSE k = j => IsData(x, j)'
      BY <1>1, <1>8 DEF IsMessage
    <3>1. class = "Paxos" /\ k = 2 * j - 1 => j = n + 1
      BY <1>2, <1>8, <2>2
    <3> QED
      BY <1>2, <1>8, <1>9, <2>2, <3>1
  <2>3. ASSUME NEW f \in Follower
        PROVE  /\ Coming(f)' = SentTo' - Read(f)
               /\ class = "Paxos" => Queued(f) <= 1
               /\ \A i \in 1..Coming(f)' : \A x, k :
                     x = to_follower'[f][i] /\ k = Read(f) + i => IsMessage(x, k)'
    <3> DEFINE s == to_follower[f]
               l == Coming(f)
               r == Read(f)
    <3>0. m \in Message
      BY <1>t DEF TypeOK, Message, m
    <3>1. /\ l \in Nat /\ l = Len(s) /\ r \in Nat /\ s \in Seq(Message)
          /\ to_follower'[f] = Append(s, m)
      <4>1. to_follower'[f] = Append(s, m)
        BY DEF Propose, SendToFollowers, m
      <4> QED
        BY <1>t, <1>8, <4>1, Types DEF Coming
    <3>2. /\ l = SentTo - r
          /\ class = "Paxos" => Queued(f) <= 1
          /\ \A i \in 1..l : IsMessage(s[i], r + i)
      BY DEF IInv, ChannelInv
    <3> HIDE DEF s, r, l
    <3>3. /\ Len(to_follower'[f]) = l + 1 /\ to_follower'[f][l + 1] = m
          /\ \A i \in 1..l : to_follower'[f][i] = s[i]
      BY <3>0, <3>1, AppendFacts
    <3>4. ASSUME NEW i \in 1..(l + 1), NEW x, NEW k, x = to_follower'[f][i], k = r + i
          PROVE  IsMessage(x, k)'
      <4>1. CASE i = l + 1
        <5>1. x = m
          BY <3>3, <3>4, <4>1
        <5>2. k = SentTo + 1
          BY <1>2, <1>8, <3>1, <3>2, <3>4, <4>1
        <5> QED
          BY <2>2, <5>1, <5>2
      <4>2. CASE i \in 1..l
        <5>1. x = s[i]
          BY <3>3, <3>4, <4>2
        <5>2. IsMessage(x, k)
          BY <3>2, <3>4, <4>2, <5>1
        <5>3. k \in 1..SentTo
          BY <1>2, <1>8, <3>1, <3>2, <3>4, <4>2
        <5> QED
          BY <2>1, <5>2, <5>3
      <4> QED
        BY <3>1, <4>1, <4>2
    <3>5. l + 1 = SentTo' - r
      BY <1>2, <1>8, <3>1, <3>2
    <3> QED
      BY <3>2, <3>3, <3>4, <3>5 DEF r, Coming
  <2> QED
    BY <1>1, <1>8, <2>3 DEF ChannelInv
<1>11. AckInv'
  <2>1. ASSUME NEW f \in Follower PROVE Counted(f) <= n
    <3>1. Got(f) <= n /\ Got(f) \in Nat /\ AcksOut(f) \in Nat
      BY <1>t, Types DEF IInv, HeldInv, n
    <3> QED
      BY <1>2, <3>1 DEF Counted
  <2>2. Acked' = {}
    BY <1>1, <1>2, <1>t, <2>1, Types DEF Acked
  <2> QED
    BY <1>1, <2>2, FS_EmptySet DEF IInv, AckInv, Propose
<1>12. QuorumInv'
  BY <1>1 DEF IInv, QuorumInv, HoldersOf
<1>13. BatchInv'
  <2>1. /\ sequence_ \in Seq(Batch) /\ submitted \in Seq(Batch) /\ sequence_ # <<>>
        /\ proposal'.data = sequence_ /\ sequence_' = <<>> /\ submitted' = submitted
    BY <1>t DEF TypeOK, Propose
  <2>2. Waiting' = Len(submitted) /\ Doubted' = Len(sequence_) /\ Proposals' > Decided'
    BY <1>1, <1>2, <2>1 DEF Waiting, Doubted
  <2>3. Doubted = 0 /\ Waiting = Len(submitted) - Len(sequence_)
    BY <1>2 DEF Doubted, Waiting, n
  <2>4. \A i \in 1..Len(sequence_) : sequence_[i] = submitted[Waiting + i]
    BY DEF IInv, BatchInv
  <2>5. Len(sequence_) <= Len(submitted)
    BY <2>1, <2>3 DEF IInv, BatchInv
  <2>6. /\ Doubted' <= Waiting' /\ Doubted' > 0
    <3>1. Len(sequence_) \in Nat \ {0}
      BY <2>1
    <3> QED
      BY <2>2, <2>5, <3>1
  <2>7. \A i \in 1..Len(sequence_') : FALSE
    BY <2>1
  <2>8. ASSUME NEW i \in 1..Len(sequence_)
        PROVE  sequence_[i] = submitted[Len(submitted) - Len(sequence_) + i]
    BY <2>3, <2>4
  <2> QED
    BY <2>1, <2>2, <2>6, <2>7, <2>8 DEF BatchInv
<1> QED
  BY <1>4, <1>5, <1>6, <1>7, <1>10, <1>11, <1>12, <1>13 DEF IInv

\* The ack at the head counts if it is the one of the current proposal, and then it is
\* the last that the follower has sent.
LEMMA CollectAckStep ==
    ASSUME IInv, NEW f \in Follower, CollectAck(f)
    PROVE  IInv'
<1>t. TypeOK
  BY DEF IInv
<1>1. /\ UNCHANGED <<FirstVersion, Proposals, Decided>> /\ \A i : UNCHANGED Proposed(i)
      /\ \A p : UNCHANGED <<Logged(p), Queued(p), Coming(p), Got(p), Read(p)>>
      /\ \A g \in Follower \ {f} : /\ to_leader'[g] = to_leader[g]
                                   /\ UNCHANGED <<AcksOut(g), Counted(g)>>
  <2>1. UNCHANGED <<FirstVersion, Proposals, Decided>> /\ \A i : UNCHANGED Proposed(i)
    BY Unchanged DEF CollectAck
  <2>2. \A p : UNCHANGED <<Logged(p), Queued(p), Coming(p), Got(p), Read(p)>>
    BY DEF CollectAck, Logged, Queued, Coming, Got, Read
  <2>3. \A g \in Follower \ {f} : to_leader'[g] = to_leader[g]
    BY <1>t DEF CollectAck, TypeOK
  <2> QED
    BY <2>1, <2>2, <2>3 DEF AcksOut, Counted
<1> DEFINE s == to_leader[f]
<1>2. /\ s \in Seq(Nat) /\ s # <<>> /\ to_leader'[f] = Tail(s) /\ AcksOut(f) = Len(s)
  BY <1>t DEF CollectAck, TypeOK, AcksOut
<1>3. /\ Len(s) \in Nat \ {0} /\ Head(s) = s[1] /\ Len(to_leader'[f]) = Len(s) - 1
      /\ to_leader'[f] \in Seq(Nat) /\ \A i \in 1..(Len(s) - 1) : to_leader'[f][i] = s[i + 1]
  BY <1>2, TailFacts
<1>4. AcksOut(f)' = AcksOut(f) - 1 /\ Counted(f)' = Counted(f) + 1
  <2>1. AcksOut(f)' = AcksOut(f) - 1
    BY <1>2, <1>3 DEF AcksOut
  <2>2. AcksOut(f) \in Nat /\ Got(f) \in Nat /\ Got(f)' = Got(f)
    BY <1>1, <1>t, Types
  <2> QED
    BY <2>1, <2>2 DEF Counted
<1>5. TypeOK'
  <2>1. to_leader' \in [Follower -> Seq(Nat)]
    BY <1>t, <1>2, <1>3 DEF CollectAck, TypeOK
  <2>2. acks' \in 0..quorum
    BY <1>t, Types DEF CollectAck, TypeOK
  <2> QED
    BY <1>t, <2>1, <2>2 DEF CollectAck, TypeOK
<1>6. LeaderInv' /\ VersionInv'
  BY <1>1 DEF IInv, CollectAck, LeaderInv, VersionInv
<1>7. HeldInv' /\ QuorumInv'
  BY <1>1 DEF IInv, CollectAck, HeldInv, QuorumInv, HoldersOf
<1>8. ChannelInv'
  <2>1. SentTo' = SentTo /\ \A x, k : IsMessage(x, k)' <=> IsMessage(x, k)
    BY <1>1, SameMessages DEF CollectAck, SentTo
  <2> QED
    BY <1>1, <2>1 DEF IInv, CollectAck, ChannelInv
<1>9. BatchInv'
  BY <1>1 DEF IInv, CollectAck, BatchInv, Waiting, Doubted
<1>10. /\ FirstVersion \in Nat /\ Counted(f) \in Nat /\ Counted(f) < Proposals
       /\ Proposals \in Nat /\ \A g \in Follower : Counted(g) \in Int
  <2>1. FirstVersion \in Nat /\ Proposals \in Int /\ \A g \in Follower : Counted(g) \in Int
    BY <1>t, Types
  <2>2. Got(f) \in Nat /\ AcksOut(f) \in Nat \ {0} /\ Got(f) <= Proposals /\ Counted(f) >= 0
    BY <1>t, <1>2, <1>3, Types DEF IInv, HeldInv, AckInv
  <2> QED
    BY <2>1, <2>2 DEF Counted
<1>11. AckInv'
  <2>1. ASSUME NEW i \in 1..(AcksOut(f) - 1)
        PROVE  to_leader'[f][i] = FirstVersion + (Counted(f) + 1) + i - 1
    <3>1. to_leader'[f][i] = s[i + 1] /\ AcksOut(f) \in Nat
      BY <1>2, <1>3
    <3>2. i + 1 \in 1..AcksOut(f)
      BY <3>1
    <3>3. s[i + 1] = FirstVersion + Counted(f) + (i + 1) - 1
      BY <3>2 DEF IInv, AckInv
    <3> QED
      BY <1>10, <3>1, <3>3
  <2>2. \A g \in Follower : Counted(g)' >= 0
    BY <1>1, <1>4, <1>10 DEF IInv, AckInv
  <2>3. Head(s) = FirstVersion + Counted(f)
    <3>1. s[1] = FirstVersion + Counted(f) + 1 - 1
      BY <1>2, <1>3 DEF IInv, AckInv
    <3> QED
      BY <1>3, <1>10, <3>1
  <2>4. proposal.version = FirstVersion + Proposals - 1
    <3>1. Proposals > Decided /\ Decided \in Nat
      BY <1>t, <1>10, Types DEF IInv, LeaderInv, CollectAck
    <3>2. Proposed(Proposals) = proposal
      BY <1>10, <3>1 DEF Proposed
    <3> QED
      BY <1>10, <3>1, <3>2 DEF IInv, VersionInv
  <2>5. pc[Leader] = "collecting" /\ acks = 1 + Cardinality(Acked) /\ f \notin Acked
    BY <1>10 DEF IInv, AckInv, CollectAck, Acked
  <2>6. CASE Counted(f) + 1 = Proposals
    <3>1. acks' = acks + 1
      BY <1>10, <2>3, <2>4, <2>6 DEF CollectAck
    <3>2. Acked' = Acked \cup {f}
      BY <1>1, <1>4, <2>6 DEF Acked
    <3>3. IsFiniteSet(Acked) /\ Cardinality(Acked) \in Nat
      BY FiniteFollowers DEF Acked
    <3>4. Cardinality(Acked') = Cardinality(Acked) + 1
      BY <2>5, <3>2, <3>3, FS_AddElement
    <3>5. acks' = 1 + Cardinality(Acked')
      BY <2>5, <3>1, <3>3, <3>4
    <3> QED
      BY <1>1, <1>4, <2>1, <2>2, <3>5 DEF IInv, AckInv
  <2>7. CASE Counted(f) + 1 # Proposals
    <3>1. acks' = acks
      BY <1>10, <2>3, <2>4, <2>7 DEF CollectAck
    <3>2. Acked' = Acked
      BY <1>1, <1>4, <1>10, <2>7 DEF Acked
    <3> QED
      BY <1>1, <1>4, <2>1, <2>2, <2>5, <3>1, <3>2 DEF IInv, AckInv
  <2> QED
    BY <2>6, <2>7
<1> QED
  BY <1>5, <1>6, <1>7, <1>8, <1>9, <1>11 DEF IInv

\* The leader writes what it has ordered.
LEMMA LogProposalStep ==
    ASSUME IInv, LogProposal
    PROVE  IInv'
<1>t. TypeOK
  BY DEF IInv
<1>1. /\ UNCHANGED <<FirstVersion, Proposals, Decided>> /\ \A i : UNCHANGED Proposed(i)
      /\ UNCHANGED <<class, to_follower, to_leader, uncommitted, scheduler_>>
      /\ \A f \in Follower : /\ log_'[f] = log_[f]
                             /\ UNCHANGED <<Logged(f), Queued(f), Coming(f), AcksOut(f), Got(f),
                                            Counted(f), Read(f)>>
  <2>1. UNCHANGED <<FirstVersion, Proposals, Decided>> /\ \A i : UNCHANGED Proposed(i)
    BY Unchanged DEF LogProposal, leaderVars
  <2>2. ASSUME NEW f \in Follower PROVE log_'[f] = log_[f]
    BY <1>t, Types DEF LogProposal, TypeOK
  <2>3. UNCHANGED <<class, to_follower, to_leader, uncommitted, scheduler_>>
    BY DEF LogProposal
  <2> QED
    BY <2>1, <2>2, <2>3 DEF Logged, Queued, Coming, AcksOut, Got, Counted, Read
<1>2. pc[Leader] = "logging" /\ pc'[Leader] \in {"waiting", "exited"}
  BY <1>t, Types DEF LogProposal, TypeOK
<1>3. TypeOK'
  BY <1>t, Types DEF LogProposal, leaderVars, TypeOK
<1>4. LeaderInv' /\ VersionInv'
  <2> DEFINE s == log_[Leader]
  <2>1. s \in Seq(Entry) /\ proposal \in Entry /\ log_'[Leader] = Append(s, proposal)
    BY <1>t, Types DEF LogProposal, TypeOK
  <2>2. /\ Decided \in Nat \ {0} /\ proposal = scheduler_[Leader][Decided]
        /\ Len(s) = Decided - 1 /\ Proposals = Decided
        /\ \A i \in 1..Len(s) : s[i] = scheduler_[Leader][i]
    BY <1>t, <1>2, Types DEF IInv, LeaderInv, Logged
  <2> HIDE DEF s
  <2>3. /\ Len(log_'[Leader]) = Len(s) + 1 /\ log_'[Leader][Len(s) + 1] = proposal
        /\ \A i \in 1..Len(s) : log_'[Leader][i] = s[i]
    BY <2>1, AppendFacts
  <2>4. Logged(Leader)' = Decided
    BY <2>2, <2>3 DEF Logged
  <2>5. \A i \in 1..Decided : log_'[Leader][i] = scheduler_[Leader][i]
    BY <2>2, <2>3
  <2>6. LeaderInv'
    BY <1>1, <1>2, <2>2, <2>4, <2>5 DEF LeaderInv
  <2> QED
    BY <1>1, <2>6 DEF IInv, VersionInv
<1>5. HeldInv' /\ QuorumInv'
  BY <1>1 DEF IInv, HeldInv, QuorumInv, HoldersOf
<1>6. ChannelInv'
  <2>1. SentTo' = SentTo /\ \A x, k : IsMessage(x, k)' <=> IsMessage(x, k)
    BY <1>1, SameMessages DEF SentTo
  <2> QED
    BY <1>1, <2>1 DEF IInv, ChannelInv
<1>7. AckInv'
  BY <1>1, <1>2 DEF IInv, AckInv
<1>8. BatchInv'
  BY <1>1 DEF IInv, LogProposal, leaderVars, BatchInv, Waiting, Doubted
<1> QED
  BY <1>3, <1>4, <1>5, <1>6, <1>7, <1>8 DEF IInv

\* What the two commits share: the proposal becomes the last sequence ordered.
LEMMA Decide ==
    ASSUME IInv, pc[Leader] = "collecting", HasQuorum,
           UNCHANGED <<class, leaderVars, to_leader, uncommitted, log_, submitted>>,
           scheduler_' \in [Participant -> Seq(Entry)],
           scheduler_'[Leader] = Append(scheduler_[Leader], proposal),
           pc'[Leader] = "logging"
    PROVE  /\ FirstVersion' = FirstVersion /\ Proposals' = Proposals
           /\ Decided' = Decided + 1 /\ Proposals = Decided + 1
           /\ \A i \in 1..Proposals : Proposed(i)' = Proposed(i)
           /\ \A i \in 1..Decided : scheduler_'[Leader][i] = scheduler_[Leader][i]
           /\ \A f \in Follower : UNCHANGED <<Logged(f), Queued(f), AcksOut(f), Got(f), Read(f)>>
           /\ LeaderInv' /\ VersionInv' /\ AckInv' /\ QuorumInv' /\ BatchInv'
<1> DEFINE s == scheduler_[Leader]
           n == Decided + 1
<1>t. TypeOK
  BY DEF IInv
<1>1. /\ FirstVersion' = FirstVersion /\ Proposals' = Proposals
      /\ \A f \in Follower : /\ UNCHANGED <<Logged(f), Queued(f), AcksOut(f), Got(f), Counted(f),
                                            Read(f)>>
      /\ UNCHANGED Logged(Leader)
  BY DEF leaderVars, FirstVersion, Proposals, Logged, Queued, AcksOut, Got, Counted, Read
<1>2. Decided \in Nat /\ Proposals = n /\ Logged(Leader) = Decided
  BY <1>t, Types DEF IInv, LeaderInv
<1>3. /\ Len(scheduler_'[Leader]) = n /\ scheduler_'[Leader][n] = proposal
      /\ \A i \in 1..Decided : scheduler_'[Leader][i] = s[i]
  <2>1. s \in Seq(Entry) /\ proposal \in Entry /\ Decided = Len(s)
        /\ scheduler_'[Leader] = Append(s, proposal)
    BY <1>t, Types DEF TypeOK, Decided
  <2> HIDE DEF s
  <2> QED
    BY <2>1, AppendFacts
<1>4. Decided' = n
  BY <1>3 DEF Decided
<1> HIDE DEF n
<1>5. ASSUME NEW i \in 1..Proposals PROVE Proposed(i)' = Proposed(i)
  <2>0. i <= Decided'
    BY <1>2, <1>4 DEF n
  <2>1. Proposed(i)' = scheduler_'[Leader][i]
    BY <2>0 DEF Proposed
  <2>2. CASE i = n
    BY <1>2, <1>3, <2>1, <2>2 DEF Proposed, n
  <2>3. CASE i \in 1..Decided
    BY <1>2, <1>3, <2>1, <2>3 DEF Proposed, n
  <2> QED
    BY <1>2, <2>2, <2>3 DEF n
<1>6. LeaderInv'
  <2>1. /\ Proposals' = Decided' /\ Decided' > 0 /\ Logged(Leader)' = Decided' - 1
        /\ proposal' = scheduler_'[Leader][n]
    BY <1>1, <1>2, <1>3, <1>4 DEF n, leaderVars
  <2>2. \A i \in 1..Decided : log_[Leader][i] = s[i]
    BY <1>2 DEF IInv, LeaderInv
  <2>3. Logged(Leader)' = Decided /\ log_' = log_
    BY <1>1, <1>2
  <2> QED
    BY <1>3, <1>4, <2>1, <2>2, <2>3 DEF LeaderInv
<1>7. VersionInv'
  BY <1>1, <1>5 DEF IInv, VersionInv
<1>8. AckInv'
  BY <1>1 DEF IInv, AckInv
<1>9. QuorumInv'
  <2>1. ASSUME NEW i \in 1..Decided PROVE Cardinality(HoldersOf(i)') + 1 >= quorum
    BY <1>1, <2>1 DEF IInv, QuorumInv, HoldersOf
  <2>2. ASSUME NEW i, i = n PROVE Cardinality(HoldersOf(i)') + 1 >= quorum
    <3>1. \A f \in Follower : Counted(f) = n => Got(f) >= n
      <4> SUFFICES ASSUME NEW f \in Follower, Counted(f) = n PROVE Got(f) >= n
        OBVIOUS
      <4>1. Got(f) \in Nat /\ AcksOut(f) \in Nat
        BY <1>t, Types
      <4> QED
        BY <1>2, <4>1 DEF Counted, n
    <3>2. Acked \subseteq HoldersOf(i)
      BY <1>2, <2>2, <3>1 DEF Acked, HoldersOf
    <3>3. IsFiniteSet(HoldersOf(i)) /\ Cardinality(HoldersOf(i)) \in Nat
             /\ Cardinality(Acked) \in Nat
      BY FiniteFollowers DEF HoldersOf, Acked
    <3>4. Cardinality(Acked) <= Cardinality(HoldersOf(i))
      BY <3>2, <3>3, FS_Subset
    <3>5. acks = 1 + Cardinality(Acked) /\ acks >= quorum /\ quorum \in Nat
      BY <1>t, Types DEF IInv, AckInv, HasQuorum
    <3>6. HoldersOf(i)' = HoldersOf(i)
      BY <1>1 DEF HoldersOf
    <3> QED
      BY <3>3, <3>4, <3>5, <3>6
  <2>3. \A i \in 1..n : i \in 1..Decided \/ i = n
    BY <1>2 DEF n
  <2> QED
    BY <1>4, <2>1, <2>2, <2>3 DEF QuorumInv
<1>10. BatchInv'
  <2>1. Waiting' = Waiting /\ Doubted' = 0 /\ ~(Proposals' > Decided')
    BY <1>1, <1>2, <1>4 DEF Waiting, Doubted, leaderVars, n
  <2>2. Doubted \in Nat /\ Waiting \in Int
    BY <1>t DEF Doubted, Waiting, TypeOK, Entry
  <2>3. 0 <= Waiting /\ UNCHANGED <<sequence_, submitted, proposal>>
    BY <2>2 DEF IInv, BatchInv, leaderVars
  <2> QED
    BY <2>1, <2>3 DEF IInv, BatchInv
<1> QED
  BY <1>1, <1>2, <1>3, <1>4, <1>5, <1>6, <1>7, <1>8, <1>9, <1>10 DEF n

\* The leader of a Paxos orders its proposal for its own replica and sends the commit.
LEMMA CommitProposalStep ==
    ASSUME IInv, CommitProposal
    PROVE  IInv'
<1> DEFINE m == [type |-> "PAXOS_COMMIT", version |-> proposal.version, data |-> <<>>]
<1>t. TypeOK
  BY DEF IInv
<1>1. /\ scheduler_' \in [Participant -> Seq(Entry)]
      /\ scheduler_'[Leader] = Append(scheduler_[Leader], proposal)
      /\ \A f \in Follower : scheduler_'[f] = scheduler_[f]
      /\ pc'[Leader] = "logging"
  BY <1>t, Types DEF CommitProposal, TypeOK
<1>2. /\ FirstVersion' = FirstVersion /\ Proposals' = Proposals
      /\ Decided' = Decided + 1 /\ Proposals = Decided + 1
      /\ \A i \in 1..Proposals : Proposed(i)' = Proposed(i)
      /\ \A i \in 1..Decided : scheduler_'[Leader][i] = scheduler_[Leader][i]
      /\ \A f \in Follower : UNCHANGED <<Logged(f), Queued(f), AcksOut(f), Got(f), Read(f)>>
      /\ LeaderInv' /\ VersionInv' /\ AckInv' /\ QuorumInv' /\ BatchInv'
  BY <1>1, Decide DEF CommitProposal
<1>3. /\ class' = class /\ class = "Paxos" /\ UNCHANGED <<uncommitted, log_>>
      /\ Decided \in Nat /\ \A f \in Follower : Logged(f) \in Nat /\ Got(f) \in Nat
  BY <1>t, Types DEF CommitProposal
<1>4. m \in Message /\ \A f \in Follower : to_follower'[f] = Append(to_follower[f], m)
  <2>1. m \in Message
    BY <1>t DEF TypeOK, Entry, Message
  <2> QED
    BY <2>1 DEF CommitProposal, SendToFollowers
<1>5. TypeOK'
  <2>1. to_follower' \in [Follower -> Seq(Message)]
    BY <1>t, <1>4 DEF CommitProposal, SendToFollowers, TypeOK
  <2> QED
    BY <1>t, <1>1, <2>1, Types DEF CommitProposal, leaderVars, TypeOK
<1>6. HeldInv'
  <2> SUFFICES ASSUME NEW f \in Follower
               PROVE  /\ Got(f) <= Proposals /\ Logged(f) <= Decided + 1
                      /\ \A i \in 1..Logged(f) : log_[f][i] = scheduler_'[Leader][i]
                      /\ \A i \in 1..Queued(f) : \A k :
                            k = Logged(f) + i => uncommitted[f][i] = Proposed(k)'
                      /\ scheduler_'[f] = log_[f]
    BY <1>2, <1>3 DEF HeldInv
  <2>1. /\ Got(f) <= Proposals /\ Logged(f) <= Decided
        /\ \A i \in 1..Logged(f) : log_[f][i] = scheduler_[Leader][i]
        /\ \A i \in 1..Queued(f) : uncommitted[f][i] = Proposed(Logged(f) + i)
        /\ scheduler_[f] = log_[f]
    BY <1>3 DEF IInv, HeldInv
  <2>2. ASSUME NEW i \in 1..Logged(f) PROVE log_[f][i] = scheduler_'[Leader][i]
    <3>1. i \in 1..Decided
      BY <1>3, <2>1
    <3> QED
      BY <1>2, <2>1, <3>1
  <2>3. ASSUME NEW i \in 1..Queued(f), NEW k, k = Logged(f) + i
        PROVE  uncommitted[f][i] = Proposed(k)'
    <3>1. Queued(f) \in Nat
      BY <1>t, Types
    <3>2. k \in 1..Proposals
      BY <1>2, <1>3, <2>1, <2>3, <3>1 DEF Got
    <3> QED
      BY <1>2, <2>1, <2>3, <3>2
  <2>4. Logged(f) <= Decided + 1
    BY <1>3, <2>1
  <2> QED
    BY <1>1, <2>1, <2>2, <2>3, <2>4
<1> HIDE DEF m
<1>7. ChannelInv'
  <2>1. SentTo' = SentTo + 1 /\ SentTo = 2 * Decided + 1
    BY <1>2, <1>3 DEF SentTo
  <2>2. ASSUME NEW x, NEW k, IsMessage(x, k) PROVE IsMessage(x, k)'
    <3> SUFFICES ASSUME NEW j \in 1..Proposals
                 PROVE  /\ k = 2 * j - 1 => IsData(x, j)'
                        /\ k = 2 * j => x.type = "PAXOS_COMMIT"
      BY <1>2, <1>3 DEF IsMessage
    <3>1. IsData(x, j)' <=> IsData(x, j)
      BY <1>2 DEF IsData, Contents
    <3> QED
      BY <1>3, <2>2, <3>1 DEF IsMessage
  <2>3. ASSUME NEW x, NEW k, x = m, k = SentTo + 1 PROVE IsMessage(x, k)'
    <3> SUFFICES ASSUME NEW j \in 1..Proposals
                 PROVE  k # 2 * j - 1 /\ x.type = "PAXOS_COMMIT"
      BY <1>2, <1>3 DEF IsMessage
    <3>1. x.type = "PAXOS_COMMIT"
      BY <2>3 DEF m
    <3>2. k # 2 * j - 1
      BY <1>2, <1>3, <2>1, <2>3
    <3> QED
      BY <3>1, <3>2
  <2>4. ASSUME NEW f \in Follower
        PROVE  /\ Coming(f)' = SentTo' - Read(f)
               /\ Queued(f) <= 1
               /\ \A i \in 1..Coming(f)' : \A x, k :
                     x = to_follower'[f][i] /\ k = Read(f) + i => IsMessage(x, k)'
    <3> DEFINE s == to_follower[f]
               l == Coming(f)
               r == Read(f)
    <3>1. /\ l \in Nat /\ l = Len(s) /\ r \in Nat /\ s \in Seq(Message)
      BY <1>t, <1>3, Types DEF Coming, Read
    <3>2. /\ l = SentTo - r /\ Queued(f) <= 1
          /\ \A i \in 1..l : IsMessage(s[i], r + i)
      BY <1>3 DEF IInv, ChannelInv
    <3>3. to_follower'[f] = Append(s, m)
      BY <1>4
    <3> HIDE DEF s, r, l
    <3>4. /\ Len(to_follower'[f]) = l + 1 /\ to_follower'[f][l + 1] = m
          /\ \A i \in 1..l : to_follower'[f][i] = s[i]
      BY <1>4, <3>1, <3>3, AppendFacts
    <3>5. ASSUME NEW i \in 1..(l + 1), NEW x, NEW k, x = to_follower'[f][i], k = r + i
          PROVE  IsMessage(x, k)'
      <4>1. CASE i = l + 1
        <5>1. x = m
          BY <3>4, <3>5, <4>1
        <5>2. k = SentTo + 1
          BY <1>3, <2>1, <3>1, <3>2, <3>5, <4>1
        <5> QED
          BY <2>3, <5>1, <5>2
      <4>2. CASE i \in 1..l
        <5>1. x = s[i]
          BY <3>4, <3>5, <4>2
        <5>2. IsMessage(x, k)
          BY <3>2, <3>5, <4>2, <5>1
        <5> QED
          BY <2>2, <5>2
      <4> QED
        BY <3>1, <4>1, <4>2
    <3>6. l + 1 = SentTo' - r
      BY <1>3, <2>1, <3>1, <3>2
    <3> QED
      BY <3>2, <3>4, <3>5, <3>6 DEF r, Coming
  <2> QED
    BY <1>2, <1>3, <2>4 DEF ChannelInv
<1> QED
  BY <1>2, <1>5, <1>6, <1>7 DEF IInv

\* The leader of a LocalPaxos orders its proposal for all machines of the replica.
LEMMA CommitLocalProposalStep ==
    ASSUME IInv, CommitLocalProposal
    PROVE  IInv'
<1>t. TypeOK
  BY DEF IInv
<1>1. /\ scheduler_' \in [Participant -> Seq(Entry)]
      /\ \A p \in Participant : scheduler_'[p] = Append(scheduler_[p], proposal)
      /\ pc'[Leader] = "logging"
  BY <1>t, Types DEF CommitLocalProposal, TypeOK
<1>2. /\ FirstVersion' = FirstVersion /\ Proposals' = Proposals
      /\ Decided' = Decided + 1 /\ Proposals = Decided + 1
      /\ \A i \in 1..Proposals : Proposed(i)' = Proposed(i)
      /\ \A f \in Follower : UNCHANGED <<Logged(f), Queued(f), AcksOut(f), Got(f), Read(f)>>
      /\ LeaderInv' /\ VersionInv' /\ AckInv' /\ QuorumInv' /\ BatchInv'
  BY <1>t, <1>1, Decide, Types DEF CommitLocalProposal
<1>3. /\ class' = class /\ class = "LocalPaxos" /\ UNCHANGED <<uncommitted, log_, to_follower>>
      /\ Decided \in Nat
  BY <1>t, Types DEF CommitLocalProposal
<1>4. TypeOK'
  BY <1>t, <1>1, Types DEF CommitLocalProposal, leaderVars, TypeOK
<1>5. HeldInv'
  <2> SUFFICES ASSUME NEW f \in Follower
               PROVE  /\ Got(f) <= Proposals /\ Logged(f) <= Decided + 1
                      /\ \A i \in 1..Logged(f) : log_[f][i] = scheduler_'[Leader][i]
                      /\ \A i \in 1..Queued(f) : \A k :
                            k = Logged(f) + i => uncommitted[f][i] = Proposed(k)'
                      /\ log_[f] = <<>> /\ scheduler_'[f] = scheduler_'[Leader]
    BY <1>2, <1>3 DEF HeldInv
  <2>1. /\ Got(f) <= Proposals /\ log_[f] = <<>> /\ scheduler_[f] = scheduler_[Leader]
        /\ \A i \in 1..Queued(f) : uncommitted[f][i] = Proposed(Logged(f) + i)
    BY <1>3 DEF IInv, HeldInv
  <2>2. Logged(f) = 0
    BY <2>1 DEF Logged
  <2>3. scheduler_'[f] = scheduler_'[Leader]
    BY <1>t, <1>1, <2>1, Types
  <2>4. ASSUME NEW i \in 1..Queued(f), NEW k, k = Logged(f) + i
        PROVE  uncommitted[f][i] = Proposed(k)'
    <3>1. Queued(f) \in Nat
      BY <1>t, Types
    <3>2. k \in 1..Proposals
      BY <1>2, <1>3, <2>1, <2>2, <2>4, <3>1 DEF Got
    <3> QED
      BY <1>2, <2>1, <2>4, <3>2
  <2> QED
    BY <1>3, <2>1, <2>2, <2>3, <2>4
<1>6. ChannelInv'
  <2>1. SentTo' = SentTo /\ \A x, k : IsMessage(x, k)' <=> IsMessage(x, k)
    BY <1>2, <1>3, SameMessages DEF SentTo
  <2>2. \A f \in Follower : Coming(f)' = Coming(f)
    BY <1>3 DEF Coming
  <2> QED
    BY <1>2, <1>3, <2>1, <2>2 DEF IInv, ChannelInv
<1> QED
  BY <1>2, <1>4, <1>5, <1>6 DEF IInv

\* Until its queue is empty, the next message to a follower of a Paxos is the commit.
LEMMA DataIsNext ==
    ASSUME IInv, NEW f \in Follower, to_follower[f] # <<>>,
           Head(to_follower[f]).type = "PAXOS_DATA"
    PROVE  /\ Got(f) + 1 <= Proposals
           /\ IsData(Head(to_follower[f]), Got(f) + 1)
           /\ class = "Paxos" => Queued(f) = 0
<1> DEFINE m == Head(to_follower[f])
           L == Logged(f)
           Q == Queued(f)
<1>t. TypeOK
  BY DEF IInv
<1>1. /\ L \in Nat /\ Q \in Nat /\ Got(f) = L + Q /\ Decided \in Nat /\ Proposals \in Int
      /\ class \in {"Paxos", "LocalPaxos"}
  BY <1>t, Types DEF Got
<1>2. Coming(f) \in Nat \ {0} /\ m = to_follower[f][1]
  <2>1. to_follower[f] \in Seq(Message)
    BY <1>t, Types
  <2> QED
    BY <2>1, TailFacts DEF Coming
<1>3. /\ Coming(f) = SentTo - Read(f) /\ Got(f) <= Proposals
      /\ class = "Paxos" => Q <= 1
      /\ Decided <= Proposals
  BY <1>1, <1>t, Types DEF IInv, ChannelInv, HeldInv, LeaderInv
<1>4. \A k : k = Read(f) + 1 => IsMessage(m, k)
  BY <1>2 DEF IInv, ChannelInv
<1> HIDE DEF L, Q, m
<1>5. CASE class = "Paxos"
  <2>1. SentTo = Proposals + Decided /\ Read(f) = 2 * L + Q
    BY <1>1, <1>5 DEF SentTo, Read, L
  <2>2. 2 * L + Q + 1 <= Proposals + Decided
    BY <1>1, <1>2, <1>3, <2>1
  <2>3. L + 1 <= Proposals
    BY <1>1, <1>3, <2>2
  <2>4. \A k : k = 2 * L + Q + 1 =>
                 (k = 2 * (L + 1) - 1 => IsData(m, L + 1)) /\ k # 2 * (L + 1)
    <3>1. L + 1 \in 1..Proposals
      BY <1>1, <2>3
    <3>2. "PAXOS_DATA" # "PAXOS_COMMIT" /\ m.type = "PAXOS_DATA"
      BY DEF m
    <3> QED
      BY <1>4, <1>5, <2>1, <3>1, <3>2 DEF IsMessage
  <2>5. Q # 1
    BY <1>1, <2>4
  <2>6. Q = 0
    BY <1>1, <1>3, <1>5, <2>5
  <2>7. Got(f) = L
    BY <1>1, <2>6
  <2>8. IsData(m, L + 1)
    BY <1>1, <2>4, <2>6
  <2> QED
    BY <2>3, <2>6, <2>7, <2>8 DEF m, Q
<1>6. CASE class = "LocalPaxos"
  <2>1. SentTo = Proposals /\ Read(f) = Got(f) /\ class # "Paxos"
    BY <1>6 DEF SentTo, Read
  <2>2. Got(f) + 1 \in 1..Proposals
    BY <1>1, <1>2, <1>3, <2>1
  <2>3. IsData(m, Got(f) + 1)
    BY <1>4, <2>1, <2>2 DEF IsMessage
  <2> QED
    BY <1>1, <2>1, <2>2, <2>3 DEF m
<1> QED
  BY <1>1, <1>5, <1>6

\* A commit is about the one sequence in the queue, which the leader has ordered.
LEMMA CommitIsNext ==
    ASSUME IInv, NEW f \in Follower, to_follower[f] # <<>>, uncommitted[f] # <<>>,
           Head(to_follower[f]).type = "PAXOS_COMMIT"
    PROVE  /\ class = "Paxos" /\ Queued(f) = 1 /\ Logged(f) + 1 <= Decided
           /\ Head(uncommitted[f]) = scheduler_[Leader][Logged(f) + 1]
<1> DEFINE m == Head(to_follower[f])
           L == Logged(f)
           Q == Queued(f)
<1>t. TypeOK
  BY DEF IInv
<1>1. /\ L \in Nat /\ Q \in Nat \ {0} /\ Got(f) = L + Q /\ Decided \in Nat /\ Proposals \in Int
      /\ class \in {"Paxos", "LocalPaxos"} /\ Head(uncommitted[f]) = uncommitted[f][1]
  <2>1. uncommitted[f] \in Seq(Entry)
    BY <1>t, Types
  <2>2. Q \in Nat \ {0} /\ Head(uncommitted[f]) = uncommitted[f][1]
    BY <2>1, TailFacts DEF Queued
  <2> QED
    BY <1>t, <2>2, Types DEF Got
<1>2. Coming(f) \in Nat \ {0} /\ m = to_follower[f][1]
  <2>1. to_follower[f] \in Seq(Message)
    BY <1>t, Types
  <2> QED
    BY <2>1, TailFacts DEF Coming
<1>3. /\ Coming(f) = SentTo - Read(f) /\ Got(f) <= Proposals
      /\ class = "Paxos" => Q <= 1
      /\ Proposals <= Decided + 1
      /\ uncommitted[f][1] = Proposed(L + 1)
  <2>1. Coming(f) = SentTo - Read(f) /\ (class = "Paxos" => Q <= 1)
    BY DEF IInv, ChannelInv
  <2>2. Got(f) <= Proposals /\ \A i \in 1..Q : uncommitted[f][i] = Proposed(L + i)
    BY DEF IInv, HeldInv
  <2>3. Proposals <= Decided + 1
    BY <1>1 DEF IInv, LeaderInv
  <2> HIDE DEF Q
  <2>4. 1 \in 1..Q
    BY <1>1
  <2> QED
    BY <2>1, <2>2, <2>3, <2>4
<1>4. \A k : k = Read(f) + 1 => IsMessage(m, k)
  BY <1>2 DEF IInv, ChannelInv
<1> HIDE DEF L, Q, m
<1>5. class = "Paxos"
  <2> SUFFICES ASSUME class = "LocalPaxos" PROVE FALSE
    BY <1>1
  <2>1. SentTo = Proposals /\ Read(f) = Got(f) /\ class # "Paxos"
    BY DEF SentTo, Read
  <2>2. Got(f) + 1 \in 1..Proposals
    BY <1>1, <1>2, <1>3, <2>1
  <2>3. IsData(m, Got(f) + 1)
    BY <1>4, <2>1, <2>2 DEF IsMessage
  <2> QED
    BY <2>3 DEF IsData, m
<1>6. Q = 1
  BY <1>1, <1>3, <1>5
<1>7. L + 1 <= Decided
  <2>1. SentTo = Proposals + Decided /\ Read(f) = 2 * L + 1
    BY <1>1, <1>5, <1>6 DEF SentTo, Read, L
  <2> QED
    BY <1>1, <1>2, <1>3, <2>1
<1>8. uncommitted[f][1] = scheduler_[Leader][L + 1]
  BY <1>3, <1>7 DEF Proposed
<1> QED
  BY <1>1, <1>5, <1>6, <1>7, <1>8 DEF L, Q

\* What f's taking of a message changes, whatever its type.
LEMMA ReceiveFacts ==
    ASSUME TypeOK, NEW f \in Follower, NEW type, Receive(f, type)
    PROVE  /\ to_follower' \in [Follower -> Seq(Message)]
           /\ Head(to_follower[f]) \in Message
           /\ pc' \in [Participant -> {"waiting", "collecting", "logging", "exited"}]
           /\ pc'[Leader] = pc[Leader]
           /\ \A g \in Follower \ {f} : to_follower'[g] = to_follower[g] /\ Coming(g)' = Coming(g)
           /\ Coming(f) > 0 /\ Coming(f)' = Coming(f) - 1
           /\ \A i \in 1..Coming(f)' : to_follower'[f][i] = to_follower[f][i + 1]
<1> DEFINE s == to_follower[f]
<1>1. f \in Participant /\ f # Leader /\ Leader \in Participant
  BY Types
<1>2. s \in Seq(Message) /\ s # <<>> /\ to_follower'[f] = Tail(s) /\ Coming(f) = Len(s)
  BY DEF TypeOK, Receive, Coming
<1>3. /\ Len(s) \in Nat \ {0} /\ Head(s) \in Message /\ to_follower'[f] \in Seq(Message)
      /\ Len(to_follower'[f]) = Len(s) - 1
      /\ \A i \in 1..(Len(s) - 1) : to_follower'[f][i] = s[i + 1]
  <2> HIDE DEF s
  <2> QED
    BY <1>2, TailFacts
<1>4. to_follower' \in [Follower -> Seq(Message)]
  BY <1>2, <1>3 DEF TypeOK, Receive
<1>5. /\ pc' \in [Participant -> {"waiting", "collecting", "logging", "exited"}]
      /\ pc'[Leader] = pc[Leader]
  BY <1>1 DEF TypeOK, Receive
<1>6. \A g \in Follower \ {f} : to_follower'[g] = to_follower[g]
  BY DEF TypeOK, Receive
<1> QED
  BY <1>2, <1>3, <1>4, <1>5, <1>6 DEF Coming

\* The messages behind the one that f takes are now the next ones.
LEMMA ReceiveChannel ==
    ASSUME IInv, NEW f \in Follower, NEW type, Receive(f, type),
           class' = class, next_version' = next_version, Decided' = Decided,
           \A i \in 1..Proposals : Proposed(i)' = Proposed(i),
           Read(f)' = Read(f) + 1, class = "Paxos" => Queued(f)' <= 1,
           \A g \in Follower \ {f} : Read(g)' = Read(g) /\ Queued(g)' = Queued(g)
    PROVE  ChannelInv'
<1>t. TypeOK
  BY DEF IInv
<1>1. SentTo' = SentTo /\ Proposals' = Proposals /\ SentTo \in Int
  BY <1>t, Types DEF SentTo, Proposals, FirstVersion
<1>2. \A x, k : IsMessage(x, k)' <=> IsMessage(x, k)
  BY <1>1, SameMessages
<1>3. /\ \A g \in Follower \ {f} : to_follower'[g] = to_follower[g] /\ Coming(g)' = Coming(g)
      /\ Coming(f)' = Coming(f) - 1
      /\ \A i \in 1..Coming(f)' : to_follower'[f][i] = to_follower[f][i + 1]
  BY <1>t, ReceiveFacts
<1>4. ASSUME NEW g \in Follower, g # f
      PROVE  /\ Coming(g)' = SentTo' - Read(g)'
             /\ class = "Paxos" => Queued(g)' <= 1
             /\ \A i \in 1..Coming(g)' : \A x, k :
                   x = to_follower'[g][i] /\ k = Read(g)' + i => IsMessage(x, k)'
  BY <1>1, <1>2, <1>3, <1>4 DEF IInv, ChannelInv
<1>5. /\ Coming(f)' = SentTo' - Read(f)'
      /\ \A i \in 1..Coming(f)' : \A x, k :
            x = to_follower'[f][i] /\ k = Read(f)' + i => IsMessage(x, k)'
  <2> DEFINE l == Coming(f)
             r == Read(f)
             s == to_follower[f]
  <2>1. l \in Nat /\ r \in Nat
    BY <1>t, Types DEF Read
  <2>2. l = SentTo - r /\ \A i \in 1..l : IsMessage(s[i], r + i)
    BY DEF IInv, ChannelInv
  <2>3. Coming(f)' = l - 1 /\ Read(f)' = r + 1
    BY <1>3
  <2> HIDE DEF l, r, s
  <2>4. ASSUME NEW i \in 1..(l - 1), NEW x, NEW k, x = to_follower'[f][i], k = r + 1 + i
        PROVE  IsMessage(x, k)'
    <3>1. x = s[i + 1]
      BY <1>3, <2>3, <2>4 DEF s
    <3>2. i + 1 \in 1..l /\ k = r + (i + 1)
      BY <2>1, <2>4
    <3>3. IsMessage(x, k)
      BY <2>2, <3>1, <3>2
    <3> QED
      BY <1>2, <3>3
  <2> QED
    BY <1>1, <2>1, <2>2, <2>3, <2>4
<1> QED
  BY <1>4, <1>5 DEF ChannelInv

\* A follower queues the next proposal and acks it.
LEMMA OnDataStep ==
    ASSUME IInv, NEW f \in Follower, OnData(f)
    PROVE  IInv'
<1> DEFINE m == Head(to_follower[f])
           q == uncommitted[f]
           a == to_leader[f]
<1>t. TypeOK
  BY DEF IInv
<1>1. /\ UNCHANGED <<class, leaderVars, scheduler_, log_, submitted>>
      /\ UNCHANGED <<FirstVersion, Proposals, Decided>>
      /\ \A i : UNCHANGED Proposed(i)
      /\ \A p : UNCHANGED Logged(p)
  BY Unchanged DEF OnData, leaderVars, Logged
<1>2. Receive(f, "PAXOS_DATA") /\ to_follower[f] # <<>> /\ m.type = "PAXOS_DATA"
  BY DEF OnData, Receive
<1>3. /\ to_follower' \in [Follower -> Seq(Message)] /\ m \in Message
      /\ pc' \in [Participant -> {"waiting", "collecting", "logging", "exited"}]
      /\ pc'[Leader] = pc[Leader]
  BY <1>t, <1>2, ReceiveFacts
<1>4. /\ Got(f) + 1 <= Proposals /\ IsData(m, Got(f) + 1)
      /\ class = "Paxos" => Queued(f) = 0
  BY <1>2, DataIsNext
<1>5. /\ q \in Seq(Entry) /\ a \in Seq(Nat) /\ Contents(m) \in Entry /\ m.version \in Nat
      /\ uncommitted'[f] = Append(q, Contents(m)) /\ to_leader'[f] = Append(a, m.version)
      /\ Queued(f) = Len(q) /\ AcksOut(f) = Len(a)
  <2>1. q \in Seq(Entry) /\ a \in Seq(Nat)
    BY <1>t, Types
  <2>2. Contents(m) \in Entry /\ m.version \in Nat
    BY <1>3 DEF Message, Contents, Entry
  <2>3. uncommitted'[f] = Append(q, Contents(m)) /\ to_leader'[f] = Append(a, m.version)
    BY <1>t DEF TypeOK, OnData, Contents
  <2> QED
    BY <2>1, <2>2, <2>3 DEF Queued, AcksOut
<1>6. /\ Queued(f) \in Nat /\ AcksOut(f) \in Nat /\ Logged(f) \in Nat /\ Got(f) \in Nat
      /\ FirstVersion \in Nat /\ Counted(f) \in Int /\ Proposals \in Int
  BY <1>t, Types
<1> HIDE DEF m, q, a
<1>7. /\ Len(uncommitted'[f]) = Len(q) + 1 /\ uncommitted'[f][Len(q) + 1] = Contents(m)
      /\ \A i \in 1..Len(q) : uncommitted'[f][i] = q[i]
      /\ uncommitted'[f] \in Seq(Entry)
  BY <1>5, AppendFacts
<1>8. /\ Len(to_leader'[f]) = Len(a) + 1 /\ to_leader'[f][Len(a) + 1] = m.version
      /\ \A i \in 1..Len(a) : to_leader'[f][i] = a[i]
      /\ to_leader'[f] \in Seq(Nat)
  BY <1>5, AppendFacts
<1>9. /\ Queued(f)' = Queued(f) + 1 /\ AcksOut(f)' = AcksOut(f) + 1
      /\ Got(f)' = Got(f) + 1 /\ Counted(f)' = Counted(f) /\ Read(f)' = Read(f) + 1
  <2>1. Queued(f)' = Queued(f) + 1 /\ AcksOut(f)' = AcksOut(f) + 1
    BY <1>5, <1>7, <1>8 DEF Queued, AcksOut
  <2>2. Got(f)' = Got(f) + 1
    BY <1>1, <1>6, <2>1 DEF Got
  <2>3. Counted(f)' = Counted(f)
    BY <1>6, <2>1, <2>2 DEF Counted
  <2> QED
    BY <1>1, <1>6, <2>1, <2>2, <2>3 DEF Read
<1>10. \A g \in Follower \ {f} :
          /\ uncommitted'[g] = uncommitted[g] /\ to_leader'[g] = to_leader[g]
          /\ UNCHANGED <<Queued(g), AcksOut(g), Got(g), Counted(g), Read(g)>>
  <2>1. \A g \in Follower \ {f} : uncommitted'[g] = uncommitted[g] /\ to_leader'[g] = to_leader[g]
    BY <1>t DEF TypeOK, OnData
  <2> QED
    BY <1>1, <2>1 DEF Queued, AcksOut, Got, Counted, Read
<1>11. TypeOK'
  <2>1. uncommitted' \in [Follower -> Seq(Entry)]
    BY <1>t, <1>7 DEF TypeOK, OnData
  <2>2. to_leader' \in [Follower -> Seq(Nat)]
    BY <1>t, <1>8 DEF TypeOK, OnData
  <2> QED
    BY <1>t, <1>1, <1>3, <2>1, <2>2 DEF TypeOK, OnData, leaderVars
<1>12. LeaderInv' /\ VersionInv'
  BY <1>1, <1>3 DEF IInv, LeaderInv, VersionInv, leaderVars
<1>13. HeldInv'
  <2>1. ASSUME NEW i \in 1..Queued(f)', NEW k, k = Logged(f) + i
        PROVE  uncommitted'[f][i] = Proposed(k)
    <3>1. CASE i \in 1..Queued(f)
      <4>1. uncommitted'[f][i] = q[i]
        BY <1>5, <1>7, <3>1
      <4> QED
        BY <2>1, <3>1, <4>1 DEF IInv, HeldInv, q
    <3>2. CASE i = Queued(f) + 1
      <4>1. uncommitted'[f][i] = Contents(m)
        BY <1>5, <1>7, <3>2
      <4>2. k = Got(f) + 1
        BY <1>6, <2>1, <3>2 DEF Got
      <4> QED
        BY <1>4, <4>1, <4>2 DEF IsData
    <3> QED
      BY <1>6, <1>9, <3>1, <3>2
  <2>2. /\ Got(f)' <= Proposals /\ Logged(f) <= Decided
        /\ \A i \in 1..Logged(f) : log_[f][i] = scheduler_[Leader][i]
        /\ class = "Paxos" => scheduler_[f] = log_[f]
        /\ class = "LocalPaxos" => log_[f] = <<>> /\ scheduler_[f] = scheduler_[Leader]
    BY <1>4, <1>9 DEF IInv, HeldInv
  <2>3. ASSUME NEW g \in Follower, g # f
        PROVE  /\ Got(g)' <= Proposals /\ Logged(g) <= Decided
               /\ \A i \in 1..Logged(g) : log_[g][i] = scheduler_[Leader][i]
               /\ \A i \in 1..Queued(g)' : \A k :
                     k = Logged(g) + i => uncommitted'[g][i] = Proposed(k)
               /\ class = "Paxos" => scheduler_[g] = log_[g]
               /\ class = "LocalPaxos" => log_[g] = <<>> /\ scheduler_[g] = scheduler_[Leader]
    BY <1>10, <2>3 DEF IInv, HeldInv
  <2>4. UNCHANGED <<class, scheduler_, log_>>
    BY <1>1
  <2> QED
    BY <1>1, <2>1, <2>2, <2>3, <2>4 DEF HeldInv
<1>14. ChannelInv'
  <2>1. class = "Paxos" => Queued(f)' <= 1
    BY <1>4, <1>9
  <2>2. UNCHANGED <<class, next_version>>
    BY <1>1 DEF leaderVars
  <2> QED
    BY <1>1, <1>2, <1>9, <1>10, <2>1, <2>2, ReceiveChannel
<1>15. AckInv'
  <2>1. ASSUME NEW i \in 1..AcksOut(f)'
        PROVE  to_leader'[f][i] = FirstVersion + Counted(f) + i - 1
    <3>1. CASE i \in 1..AcksOut(f)
      <4>1. to_leader'[f][i] = a[i]
        BY <1>5, <1>8, <3>1
      <4> QED
        BY <3>1, <4>1 DEF IInv, AckInv, a
    <3>2. CASE i = AcksOut(f) + 1
      <4>1. to_leader'[f][i] = m.version
        BY <1>5, <1>8, <3>2
      <4>2. Proposed(Got(f) + 1).version = FirstVersion + Got(f)
        <5>1. Got(f) + 1 \in 1..Proposals
          BY <1>4, <1>6
        <5> QED
          BY <1>6, <5>1 DEF IInv, VersionInv
      <4>3. m.version = FirstVersion + Got(f)
        BY <1>4, <4>2 DEF IsData, Contents
      <4> QED
        BY <1>6, <3>2, <4>1, <4>3 DEF Counted
    <3> QED
      BY <1>6, <1>9, <3>1, <3>2
  <2>2. \A g \in Follower : Counted(g)' = Counted(g)
    BY <1>9, <1>10
  <2>3. Acked' = Acked
    BY <1>1, <2>2 DEF Acked
  <2>4. acks' = acks
    BY <1>1 DEF leaderVars
  <2>5. ASSUME NEW g \in Follower, g # f
        PROVE \A i \in 1..AcksOut(g)' : to_leader'[g][i] = FirstVersion + Counted(g) + i - 1
    BY <1>10, <2>5 DEF IInv, AckInv
  <2> QED
    BY <1>1, <1>3, <2>1, <2>2, <2>3, <2>4, <2>5 DEF IInv, AckInv
<1>16. QuorumInv'
  <2>1. ASSUME NEW i \in 1..Decided PROVE Cardinality(HoldersOf(i)') + 1 >= quorum
    <3>1. \A g \in Follower : Got(g) >= i => Got(g)' >= i
      BY <1>6, <1>9, <1>10
    <3>2. HoldersOf(i) \subseteq HoldersOf(i)'
      BY <3>1 DEF HoldersOf
    <3>3. IsFiniteSet(HoldersOf(i)') /\ Cardinality(HoldersOf(i)') \in Nat
             /\ Cardinality(HoldersOf(i)) \in Nat
      BY FiniteFollowers DEF HoldersOf
    <3>4. Cardinality(HoldersOf(i)) <= Cardinality(HoldersOf(i)')
      BY <3>2, <3>3, FS_Subset
    <3>5. Cardinality(HoldersOf(i)) + 1 >= quorum /\ quorum \in Nat
      BY <1>t, Types DEF IInv, QuorumInv
    <3> QED
      BY <3>3, <3>4, <3>5
  <2> QED
    BY <1>1, <2>1 DEF QuorumInv
<1>17. BatchInv'
  BY <1>1 DEF IInv, BatchInv, Waiting, Doubted, leaderVars
<1> QED
  BY <1>11, <1>12, <1>13, <1>14, <1>15, <1>16, <1>17 DEF IInv

\* A follower orders and logs the front of its queue.
LEMMA OnCommitStep ==
    ASSUME IInv, NEW f \in Follower, OnCommit(f)
    PROVE  IInv'
<1> DEFINE q == uncommitted[f]
           l == log_[f]
           e == Head(uncommitted[f])
<1>t. TypeOK
  BY DEF IInv
<1>1. /\ UNCHANGED <<class, leaderVars, to_leader, submitted>>
      /\ \A p : UNCHANGED AcksOut(p)
  BY DEF OnCommit, leaderVars, AcksOut
<1>2. Receive(f, "PAXOS_COMMIT")
  BY DEF OnCommit
<1>3. /\ to_follower' \in [Follower -> Seq(Message)]
      /\ pc' \in [Participant -> {"waiting", "collecting", "logging", "exited"}]
      /\ pc'[Leader] = pc[Leader]
  BY <1>t, <1>2, ReceiveFacts
<1>4. /\ class = "Paxos" /\ Queued(f) = 1 /\ Logged(f) + 1 <= Decided
      /\ e = scheduler_[Leader][Logged(f) + 1]
  BY CommitIsNext DEF OnCommit, Receive
<1>5. /\ q \in Seq(Entry) /\ q # <<>> /\ l \in Seq(Entry) /\ f \in Participant /\ f # Leader
      /\ uncommitted'[f] = Tail(q) /\ log_'[f] = Append(l, e) /\ scheduler_'[f] = Append(l, e)
      /\ Queued(f) = Len(q) /\ Logged(f) = Len(l)
  <2>1. q \in Seq(Entry) /\ l \in Seq(Entry) /\ f \in Participant /\ f # Leader
    BY <1>t, Types
  <2>2. q # <<>> /\ uncommitted'[f] = Tail(q) /\ log_'[f] = Append(l, e)
    BY <1>t, <2>1 DEF TypeOK, OnCommit
  <2>3. scheduler_'[f] = Append(l, e)
    <3>1. scheduler_[f] = l
      BY <1>4 DEF IInv, HeldInv
    <3> QED
      BY <1>t, <2>1, <3>1 DEF TypeOK, OnCommit
  <2> QED
    BY <2>1, <2>2, <2>3 DEF Queued, Logged
<1>6. /\ Logged(f) \in Nat /\ Got(f) \in Nat /\ Decided \in Nat
  BY <1>t, Types
<1> HIDE DEF q, l
<1>7. e \in Entry /\ Len(uncommitted'[f]) = 0 /\ uncommitted'[f] \in Seq(Entry)
  BY <1>4, <1>5, TailFacts DEF q
<1>8. /\ Len(log_'[f]) = Len(l) + 1 /\ log_'[f][Len(l) + 1] = e
      /\ \A i \in 1..Len(l) : log_'[f][i] = l[i]
      /\ log_'[f] \in Seq(Entry)
  BY <1>5, <1>7, AppendFacts
<1>9. \A p \in Participant \ {f} : log_'[p] = log_[p] /\ scheduler_'[p] = scheduler_[p]
  BY <1>t DEF TypeOK, OnCommit
<1>10. /\ UNCHANGED <<FirstVersion, Proposals, Decided>>
       /\ UNCHANGED <<scheduler_[Leader], log_[Leader], Logged(Leader)>>
       /\ \A i : UNCHANGED Proposed(i)
  <2>1. scheduler_'[Leader] = scheduler_[Leader] /\ log_'[Leader] = log_[Leader]
    BY <1>t, <1>5, <1>9, Types
  <2>2. UNCHANGED <<FirstVersion, Proposals, Decided, Logged(Leader)>>
    BY <1>1, <2>1 DEF FirstVersion, Proposals, Decided, Logged, leaderVars
  <2> QED
    BY <1>1, <2>1, <2>2 DEF Proposed, leaderVars
<1>11. /\ Queued(f)' = 0 /\ Logged(f)' = Logged(f) + 1
       /\ Got(f)' = Got(f) /\ Counted(f)' = Counted(f) /\ Read(f)' = Read(f) + 1
  <2>1. Queued(f)' = 0 /\ Logged(f)' = Logged(f) + 1
    BY <1>5, <1>7, <1>8 DEF Queued, Logged
  <2>2. Got(f)' = Got(f)
    BY <1>4, <1>6, <2>1 DEF Got
  <2>3. Counted(f)' = Counted(f)
    BY <1>1, <2>2 DEF Counted
  <2> QED
    BY <1>1, <1>4, <1>6, <2>1, <2>2, <2>3 DEF Read
<1>12. \A g \in Follower \ {f} :
          /\ uncommitted'[g] = uncommitted[g] /\ log_'[g] = log_[g]
          /\ scheduler_'[g] = scheduler_[g]
          /\ UNCHANGED <<Queued(g), Logged(g), Got(g), Counted(g), Read(g)>>
  <2>1. \A g \in Follower \ {f} : /\ uncommitted'[g] = uncommitted[g]
                                  /\ log_'[g] = log_[g] /\ scheduler_'[g] = scheduler_[g]
    <3>1. \A g \in Follower \ {f} : g \in Participant \ {f}
      BY <1>t, Types
    <3>2. \A g \in Follower \ {f} : uncommitted'[g] = uncommitted[g]
      BY <1>t DEF TypeOK, OnCommit
    <3> QED
      BY <1>9, <3>1, <3>2
  <2> QED
    BY <1>1, <2>1 DEF Queued, Logged, Got, Counted, Read
<1>13. TypeOK'
  <2>1. uncommitted' \in [Follower -> Seq(Entry)]
    BY <1>t, <1>7 DEF TypeOK, OnCommit
  <2>2. log_' \in [Participant -> Seq(Entry)]
    BY <1>t, <1>8 DEF TypeOK, OnCommit
  <2>3. scheduler_' \in [Participant -> Seq(Entry)]
    <3>1. scheduler_'[f] \in Seq(Entry)
      BY <1>5, <1>8
    <3> QED
      BY <1>t, <3>1 DEF TypeOK, OnCommit
  <2> QED
    BY <1>t, <1>1, <1>3, <2>1, <2>2, <2>3 DEF TypeOK, OnCommit, leaderVars
<1>14. LeaderInv' /\ VersionInv'
  <2>1. UNCHANGED proposal
    BY <1>1 DEF leaderVars
  <2> QED
    BY <1>3, <1>10, <2>1 DEF IInv, LeaderInv, VersionInv
<1>15. HeldInv'
  <2>1. ASSUME NEW i \in 1..(Logged(f) + 1)
        PROVE  log_'[f][i] = scheduler_[Leader][i]
    <3>1. CASE i \in 1..Logged(f)
      <4>1. log_'[f][i] = l[i]
        BY <1>5, <1>8, <3>1
      <4> QED
        BY <3>1, <4>1 DEF IInv, HeldInv, l
    <3>2. CASE i = Logged(f) + 1
      BY <1>4, <1>5, <1>8, <3>2
    <3> QED
      BY <1>6, <3>1, <3>2
  <2>2. Got(f)' <= Proposals /\ Logged(f)' <= Decided /\ scheduler_'[f] = log_'[f]
    BY <1>4, <1>5, <1>11 DEF IInv, HeldInv
  <2>3. ASSUME NEW g \in Follower, g # f
        PROVE  /\ Got(g)' <= Proposals /\ Logged(g)' <= Decided
               /\ \A i \in 1..Logged(g)' : log_'[g][i] = scheduler_[Leader][i]
               /\ \A i \in 1..Queued(g)' : \A k :
                     k = Logged(g)' + i => uncommitted'[g][i] = Proposed(k)
               /\ scheduler_'[g] = log_'[g]
    BY <1>4, <1>12, <2>3 DEF IInv, HeldInv
  <2>4. \A i \in 1..Queued(f)' : FALSE
    BY <1>11
  <2>5. class' = "Paxos" /\ class' # "LocalPaxos"
    BY <1>1, <1>4
  <2> QED
    BY <1>10, <1>11, <2>1, <2>2, <2>3, <2>4, <2>5 DEF HeldInv
<1>16. ChannelInv'
  <2>1. Queued(f)' <= 1 /\ UNCHANGED <<class, next_version>>
    BY <1>1, <1>11 DEF leaderVars
  <2> QED
    BY <1>2, <1>10, <1>11, <1>12, <2>1, ReceiveChannel
<1>17. \A g \in Follower : Got(g)' = Got(g) /\ Counted(g)' = Counted(g)
  BY <1>11, <1>12
<1>18. AckInv' /\ QuorumInv'
  <2>1. UNCHANGED <<acks, to_leader>> /\ Acked' = Acked /\ \A i : HoldersOf(i)' = HoldersOf(i)
    BY <1>1, <1>10, <1>17 DEF leaderVars, Acked, HoldersOf
  <2> QED
    BY <1>1, <1>3, <1>10, <1>17, <2>1 DEF IInv, AckInv, QuorumInv
<1>19. BatchInv'
  BY <1>1, <1>10 DEF IInv, BatchInv, Waiting, Doubted, leaderVars
<1> QED
  BY <1>13, <1>14, <1>15, <1>16, <1>18, <1>19 DEF IInv

\* Every step keeps the invariant.
LEMMA StepInv == IInv /\ [Next]_vars => IInv'
<1> SUFFICES ASSUME IInv, [Next]_vars PROVE IInv'
  OBVIOUS
<1>t. TypeOK
  BY DEF IInv
<1>1. ASSUME NEW b \in Batch, AppendBatch(b) PROVE IInv'
  BY <1>1, AppendBatchStep
<1>2. ASSUME NEW p \in Participant, Stop(p) PROVE IInv'
  <2>1. TypeOK'
    BY <1>t, <1>2 DEF Stop, leaderVars, TypeOK
  <2> QED
    BY <1>2, <2>1, ThreadStep DEF Stop
<1>3. CASE Propose
  BY <1>3, ProposeStep
<1>4. ASSUME NEW f \in Follower, CollectAck(f) PROVE IInv'
  BY <1>4, CollectAckStep
<1>5. CASE CommitProposal
  BY <1>5, CommitProposalStep
<1>6. CASE CommitLocalProposal
  BY <1>6, CommitLocalProposalStep
<1>7. CASE LogProposal
  BY <1>7, LogProposalStep
<1>8. CASE LeaderExit
  <2>1. TypeOK' /\ pc[Leader] = "collecting" /\ pc'[Leader] = "exited"
    BY <1>t, <1>8, Types DEF LeaderExit, leaderVars, TypeOK
  <2> QED
    BY <1>8, <2>1, ThreadStep DEF LeaderExit
<1>9. ASSUME NEW f \in Follower, OnData(f) PROVE IInv'
  BY <1>9, OnDataStep
<1>10. ASSUME NEW f \in Follower, OnCommit(f) PROVE IInv'
  BY <1>10, OnCommitStep
<1>11. ASSUME NEW f \in Follower, FollowerExit(f) PROVE IInv'
  <2>1. TypeOK' /\ pc'[Leader] = pc[Leader]
    BY <1>t, <1>11, Types DEF FollowerExit, leaderVars, TypeOK
  <2> QED
    BY <1>11, <2>1, ThreadStep DEF FollowerExit
<1>12. CASE UNCHANGED vars
  <2>1. TypeOK'
    BY <1>t, <1>12 DEF vars, leaderVars, TypeOK
  <2> QED
    BY <1>12, <2>1, ThreadStep DEF vars
<1> QED
  BY <1>1, <1>2, <1>3, <1>4, <1>5, <1>6, <1>7, <1>8, <1>9, <1>10, <1>11, <1>12
     DEF Next, LeaderNext, FollowerNext

\* The inductive invariant holds throughout.
LEMMA Invariance == Spec => []IInv
BY InitInv, StepInv, PTL DEF Spec

\* Every variable has its type; in particular the leader counts no more acks than it
\* waits for.
THEOREM TypeCorrect == Spec => []TypeOK
<1>1. IInv => TypeOK
  BY DEF IInv
<1> QED
  BY <1>1, Invariance, PTL

-----------------------------------------------------------------------------
(* A quorum holds what is ordered. *)

\* The invariant says enough: the leader holds all it ordered, and so do the followers
\* whose acks it counted.
LEMMA HeldOrders == IInv => OrderHeldByQuorum
<1> SUFFICES ASSUME IInv, NEW p \in Participant, NEW e \in ToSet(scheduler_[p])
             PROVE  Cardinality(Holders(e)) >= quorum
  BY DEF OrderHeldByQuorum
<1>t. TypeOK
  BY DEF IInv
<1>1. PICK i \in 1..Len(scheduler_[p]) : e = scheduler_[p][i]
  <2>1. scheduler_[p] \in Seq(Entry)
    BY <1>t, Types
  <2> QED
    BY <2>1 DEF ToSet
<1>2. i \in 1..Decided /\ e = scheduler_[Leader][i]
  <2>1. CASE p = Leader
    BY <1>1, <2>1 DEF Decided
  <2>2. CASE p # Leader
    <3>1. p \in Follower
      BY <2>2, PaxosAssumption DEF Participant, Follower, Leader
    <3>2. /\ Logged(p) \in Nat /\ Decided \in Nat /\ Logged(p) <= Decided
          /\ \A k \in 1..Logged(p) : log_[p][k] = scheduler_[Leader][k]
          /\ class = "Paxos" => scheduler_[p] = log_[p]
          /\ class = "LocalPaxos" => scheduler_[p] = scheduler_[Leader]
      BY <1>t, <3>1, Types DEF IInv, HeldInv
    <3>3. CASE class = "Paxos"
      <4>1. i \in 1..Logged(p)
        BY <1>1, <3>2, <3>3 DEF Logged
      <4> QED
        BY <1>1, <3>2, <3>3, <4>1
    <3>4. CASE class = "LocalPaxos"
      BY <1>1, <3>2, <3>4 DEF Decided
    <3> QED
      BY <1>t, <3>3, <3>4, Types
  <2> QED
    BY <2>1, <2>2
<1>3. Leader \in Holders(e)
  <2>1. /\ Logged(Leader) = Decided - (IF pc[Leader] = "logging" THEN 1 ELSE 0)
        /\ pc[Leader] = "logging" => proposal = scheduler_[Leader][Decided]
        /\ \A k \in 1..Logged(Leader) : log_[Leader][k] = scheduler_[Leader][k]
        /\ Leader \in Participant /\ Decided \in Nat /\ log_[Leader] \in Seq(Entry)
    BY <1>t, Types DEF IInv, LeaderInv
  <2>2. CASE i \in 1..Logged(Leader)
    <3>1. e = log_[Leader][i]
      BY <1>2, <2>1, <2>2
    <3>2. e \in ToSet(log_[Leader])
      BY <2>1, <2>2, <3>1, ElementsFacts DEF Logged
    <3> QED
      BY <2>1, <3>2 DEF Holders
  <2>3. CASE i \notin 1..Logged(Leader)
    <3>1. pc[Leader] = "logging" /\ i = Decided
      BY <1>2, <2>1, <2>3
    <3> QED
      BY <1>2, <2>1, <3>1 DEF Holders
  <2> QED
    BY <2>2, <2>3
<1>4. ASSUME NEW g \in HoldersOf(i) PROVE g \in Holders(e)
  <2>1. /\ g \in Follower /\ g \in Participant /\ g # Leader /\ Got(g) >= i
        /\ Logged(g) \in Nat /\ Queued(g) \in Nat
        /\ log_[g] \in Seq(Entry) /\ uncommitted[g] \in Seq(Entry)
    BY <1>t, Types DEF HoldersOf
  <2>2. CASE i \in 1..Logged(g)
    <3>1. e = log_[g][i]
      BY <1>2, <2>1, <2>2 DEF IInv, HeldInv
    <3>2. e \in ToSet(log_[g])
      BY <2>1, <2>2, <3>1, ElementsFacts DEF Logged
    <3> QED
      BY <2>1, <3>2 DEF Holders
  <2>3. CASE i \notin 1..Logged(g)
    <3> DEFINE k == i - Logged(g)
    <3>1. k \in 1..Queued(g) /\ Logged(g) + k = i
      BY <1>2, <2>1, <2>3 DEF Got
    <3> HIDE DEF k
    <3>2. uncommitted[g][k] = Proposed(Logged(g) + k)
      BY <2>1, <3>1 DEF IInv, HeldInv
    <3>3. e = uncommitted[g][k]
      BY <1>2, <3>1, <3>2 DEF Proposed
    <3>4. e \in ToSet(uncommitted[g])
      BY <2>1, <3>1, <3>3, ElementsFacts DEF Queued
    <3> QED
      BY <2>1, <3>4 DEF Holders
  <2> QED
    BY <2>2, <2>3
<1>5. Leader \notin HoldersOf(i) /\ IsFiniteSet(HoldersOf(i)) /\ Cardinality(HoldersOf(i)) \in Nat
  BY <1>t, FiniteFollowers, Types DEF HoldersOf
<1>6. /\ IsFiniteSet(HoldersOf(i) \cup {Leader})
      /\ Cardinality(HoldersOf(i) \cup {Leader}) = Cardinality(HoldersOf(i)) + 1
  BY <1>5, FS_AddElement
<1>7. IsFiniteSet(Holders(e))
  <2>1. IsFiniteSet(Participant)
    BY PaxosAssumption, FS_Interval DEF Participant
  <2> QED
    BY <2>1, FS_Subset DEF Holders
<1>8. /\ Cardinality(HoldersOf(i) \cup {Leader}) <= Cardinality(Holders(e))
      /\ Cardinality(Holders(e)) \in Nat
  BY <1>3, <1>4, <1>7, FS_Subset, FS_CardinalityType
<1>9. Cardinality(HoldersOf(i)) + 1 >= quorum /\ quorum \in Nat
  BY <1>t, <1>2, Types DEF IInv, QuorumInv
<1> QED
  BY <1>5, <1>6, <1>8, <1>9

\* A sequence reaches a scheduler only when a quorum of the participants has it in its log
\* or its queue.
THEOREM HeldByQuorum == Spec => []OrderHeldByQuorum
BY Invariance, HeldOrders, PTL

-----------------------------------------------------------------------------
(* The log implements OrderedLog. *)

\* What the refinement mapping gives for the variables of OrderedLog.
TakenBar   == Len(submitted) - Len(sequence_) - (IF InDoubt THEN Len(proposal.data) ELSE 0)
ChosenBar  == Entries(scheduler_[Leader]) \o (IF Chosen THEN <<proposal.data>> ELSE <<>>)
OrderedBar == [p \in Participant |-> Entries(scheduler_[p])]

\* The sequences of batches in the entries of a log.
LEMMA EntriesType ==
    ASSUME NEW s \in Seq(Entry)
    PROVE  /\ Entries(s) \in Seq(Seq(Batch)) /\ Len(Entries(s)) = Len(s)
           /\ \A i \in 1..Len(s) : Entries(s)[i] = s[i].data
<1>1. Len(s) \in Nat /\ DOMAIN s = 1..Len(s) /\ \A i \in 1..Len(s) : s[i].data \in Seq(Batch)
  <2>1. Len(s) \in Nat /\ DOMAIN s = 1..Len(s) /\ s \in [1..Len(s) -> Entry]
    BY LenProperties
  <2>2. \A e \in Entry : e.data \in Seq(Batch)
    BY DEF Entry
  <2>3. ASSUME NEW i \in 1..Len(s) PROVE s[i].data \in Seq(Batch)
    <3>1. s[i] \in Entry
      BY <2>1
    <3> QED
      BY <2>2, <3>1
  <2> QED
    BY <2>1, <2>3
<1> DEFINE n == Len(s)
<1>2. Entries(s) = [i \in 1..n |-> s[i].data]
  BY <1>1 DEF Entries
<1>3. n \in Nat /\ Entries(s) \in [1..n -> Seq(Batch)]
         /\ \A i \in 1..n : Entries(s)[i] = s[i].data
  BY <1>1, <1>2
<1> HIDE DEF n
<1>4. Entries(s) \in Seq(Seq(Batch))
  BY <1>3, SeqDef
<1>5. Len(Entries(s)) = n
  <2>1. Len(Entries(s)) \in Nat /\ DOMAIN Entries(s) = 1..Len(Entries(s))
           /\ DOMAIN Entries(s) = 1..n
    BY <1>3, <1>4, LenProperties
  <2> QED
    BY <1>3, <2>1
<1> QED
  BY <1>3, <1>4, <1>5 DEF n

\* The same when the log grows.
LEMMA EntriesFacts ==
    ASSUME NEW s \in Seq(Entry)
    PROVE  /\ Entries(s) \in Seq(Seq(Batch)) /\ Len(Entries(s)) = Len(s)
           /\ \A i \in 1..Len(s) : Entries(s)[i] = s[i].data
           /\ Entries(s) \o <<>> = Entries(s)
           /\ \A x \in Seq(Batch) : Entries(s) \o <<x>> = Append(Entries(s), x)
           /\ \A e \in Entry : Entries(Append(s, e)) = Append(Entries(s), e.data)
<1>1. /\ Entries(s) \in Seq(Seq(Batch)) /\ Len(Entries(s)) = Len(s)
      /\ \A i \in 1..Len(s) : Entries(s)[i] = s[i].data
  BY EntriesType
<1>2. Entries(s) \o <<>> = Entries(s)
  BY <1>1, ConcatEmptySeq
<1>3. \A x \in Seq(Batch) : Entries(s) \o <<x>> = Append(Entries(s), x)
  BY <1>1, AppendIsConcat
<1>4. ASSUME NEW e \in Entry PROVE Entries(Append(s, e)) = Append(Entries(s), e.data)
  <2> DEFINE t == Append(s, e)
             u == Append(Entries(s), e.data)
             n == Len(s) + 1
  <2>1. /\ t \in Seq(Entry) /\ Len(t) = n /\ t[n] = e /\ \A i \in 1..Len(s) : t[i] = s[i]
    BY AppendFacts
  <2>2. e.data \in Seq(Batch)
    BY DEF Entry
  <2>3. /\ u \in Seq(Seq(Batch)) /\ Len(u) = n /\ u[n] = e.data
        /\ \A i \in 1..Len(s) : u[i] = Entries(s)[i]
    BY <1>1, <2>2, AppendFacts
  <2> HIDE DEF t, u
  <2>4. Entries(t) \in Seq(Seq(Batch)) /\ Len(Entries(t)) = n
           /\ \A i \in 1..n : Entries(t)[i] = t[i].data
    BY <2>1, EntriesType
  <2>5. ASSUME NEW i \in 1..n PROVE Entries(t)[i] = u[i]
    <3>1. CASE i = n
      BY <2>1, <2>3, <2>4, <3>1
    <3>2. CASE i \in 1..Len(s)
      BY <1>1, <2>1, <2>3, <2>4, <3>2
    <3> QED
      BY <3>1, <3>2
  <2>6. Entries(t) = u
    BY <2>3, <2>4, <2>5, SeqEqual
  <2> QED
    BY <2>6 DEF t, u
<1> QED
  BY <1>1, <1>2, <1>3, <1>4

\* The mapping, said with the words of the invariant.
BarInv ==
    /\ TakenBar = Waiting - (IF Chosen THEN 0 ELSE Doubted)
    /\ ChosenBar = IF Chosen THEN Append(Entries(scheduler_[Leader]), proposal.data)
                   ELSE Entries(scheduler_[Leader])
    /\ Waiting \in Int /\ Doubted \in Nat
    /\ scheduler_[Leader] \in Seq(Entry) /\ proposal.data \in Seq(Batch)
    /\ Len(Entries(scheduler_[Leader])) = Decided
    /\ Chosen => Proposals > Decided

\* The mapping follows from the invariant.
LEMMA Bars == IInv => BarInv
<1> SUFFICES ASSUME IInv PROVE BarInv
  OBVIOUS
<1>t. TypeOK
  BY DEF IInv
<1>1. /\ scheduler_[Leader] \in Seq(Entry) /\ proposal.data \in Seq(Batch) /\ Decided \in Nat
      /\ Len(submitted) \in Nat /\ Len(sequence_) \in Nat /\ Len(proposal.data) \in Nat
      /\ Decided = Len(scheduler_[Leader]) /\ Proposals = next_version - FirstVersion
  <2>1. scheduler_[Leader] \in Seq(Entry) /\ Decided \in Nat
    BY <1>t, Types
  <2>2. /\ proposal.data \in Seq(Batch) /\ Len(proposal.data) \in Nat
        /\ Len(submitted) \in Nat /\ Len(sequence_) \in Nat
    BY <1>t DEF TypeOK, Entry
  <2> QED
    BY <2>1, <2>2 DEF Decided, Proposals
<1>2. Waiting \in Int /\ Doubted \in Nat /\ Waiting = Len(submitted) - Len(sequence_)
  BY <1>1 DEF Waiting, Doubted
<1>3. Chosen => Proposals > Decided
  BY <1>1 DEF Chosen, IInv, LeaderInv
<1>4. InDoubt <=> Proposals > Decided /\ ~Chosen
  BY <1>1 DEF InDoubt
<1>5. TakenBar = Waiting - (IF Chosen THEN 0 ELSE Doubted)
  BY <1>1, <1>2, <1>3, <1>4 DEF TakenBar, Doubted
<1>6. /\ ChosenBar = IF Chosen THEN Append(Entries(scheduler_[Leader]), proposal.data)
                     ELSE Entries(scheduler_[Leader])
      /\ Len(Entries(scheduler_[Leader])) = Decided
  BY <1>1, EntriesFacts DEF ChosenBar
<1> QED
  BY <1>1, <1>2, <1>3, <1>5, <1>6 DEF BarInv

\* The proposal gets its quorum.
LEMMA ChooseStep ==
    ASSUME IInv, IInv', ~Chosen, Chosen',
           UNCHANGED <<scheduler_, submitted>>, Waiting' > TakenBar,
           TakenBar + Len(proposal'.data) = Waiting',
           \A i \in 1..Len(proposal'.data) : proposal'.data[i] = submitted[TakenBar + i]
    PROVE  Abstract!Choose
<1> DEFINE d == proposal'.data
           s == submitted
           T == TakenBar
<1>1. /\ T \in Int /\ ChosenBar = Entries(scheduler_[Leader])
      /\ Waiting' \in Int /\ TakenBar' = Waiting' /\ d \in Seq(Batch)
      /\ ChosenBar' = Append(Entries(scheduler_[Leader]), d)
  <2>1. /\ TakenBar = Waiting - Doubted /\ Waiting \in Int /\ Doubted \in Nat
        /\ ChosenBar = Entries(scheduler_[Leader])
    BY Bars DEF BarInv
  <2>2. /\ TakenBar' = Waiting' - 0 /\ Waiting' \in Int /\ d \in Seq(Batch)
        /\ ChosenBar' = Append(Entries(scheduler_'[Leader]), d)
    <3>1. BarInv'
      BY Bars, PTL
    <3> QED
      BY <3>1 DEF BarInv
  <2>3. T \in Int
    BY <2>1
  <2>4. TakenBar' = Waiting'
    <3> DEFINE w == Waiting'
    <3>1. TakenBar' = w - 0 /\ w \in Int
      BY <2>2
    <3> HIDE DEF w
    <3>2. TakenBar' = w
      BY <3>1
    <3> QED
      BY <3>2 DEF w
  <2> QED
    BY <2>1, <2>2, <2>3, <2>4
<1>2. s \in Seq(Batch) /\ T >= 0 /\ Waiting' <= Len(s)
  <2>1. submitted \in Seq(Batch) /\ sequence_' \in Seq(Batch) /\ submitted' = submitted
    BY DEF IInv, TypeOK
  <2>2. Waiting' <= Len(s)
    BY <2>1 DEF Waiting
  <2>3. T >= 0
    BY Bars DEF BarInv, IInv, BatchInv
  <2> QED
    BY <2>1, <2>2, <2>3
<1>3. SubSeq(s, T + 1, Waiting') = d
  <2> DEFINE w == Waiting'
  <2>1. /\ T \in Nat /\ w \in Nat /\ T <= w /\ w <= Len(s) /\ Len(d) = w - T
        /\ \A i \in 1..Len(d) : d[i] = s[T + i]
    <3>1. w \in Int /\ Len(d) \in Nat /\ T + Len(d) = w /\ T < w
      BY <1>1
    <3> HIDE DEF T, d, w
    <3>2. T \in Nat /\ w \in Nat /\ T <= w /\ Len(d) = w - T
      BY <1>1, <1>2, <3>1
    <3> QED
      BY <1>2, <3>2 DEF T, d, w
  <2> HIDE DEF T, s, d, w
  <2>2. SubSeq(s, T + 1, w) = d
    BY <1>1, <1>2, <2>1, SubSeqFacts
  <2> QED
    BY <2>2 DEF w
<1>4. /\ TakenBar' \in (TakenBar + 1)..Len(submitted)
      /\ ChosenBar' = Append(ChosenBar, SubSeq(submitted, TakenBar + 1, TakenBar'))
      /\ UNCHANGED <<submitted, OrderedBar>>
  <2>1. UNCHANGED <<submitted, OrderedBar>>
    BY DEF OrderedBar
  <2>2. TakenBar' \in (TakenBar + 1)..Len(submitted)
    BY <1>1, <1>2
  <2> QED
    BY <1>1, <1>3, <2>1, <2>2
<1> QED
  BY <1>4 DEF Abstract!Choose, TakenBar, ChosenBar, OrderedBar

\* An entry that is chosen already is passed on.
LEMMA PassOnStep ==
    ASSUME IInv, NEW P \in SUBSET Participant,
           UNCHANGED submitted, TakenBar' = TakenBar, ChosenBar' = ChosenBar,
           scheduler_' \in [Participant -> Seq(Entry)],
           \A p \in Participant \ P : scheduler_'[p] = scheduler_[p],
           \A p \in P : \E e \in Entry :
               /\ scheduler_'[p] = Append(scheduler_[p], e)
               /\ Len(scheduler_[p]) + 1 \in 1..Len(ChosenBar)
               /\ ChosenBar[Len(scheduler_[p]) + 1] = e.data
    PROVE  Abstract!PassOn(P)
<1>t. TypeOK
  BY DEF IInv
<1>1. ASSUME NEW p \in P
      PROVE  /\ Len(Entries(scheduler_[p])) < Len(ChosenBar)
             /\ Entries(scheduler_'[p]) = Append(Entries(scheduler_[p]),
                                                 ChosenBar[Len(Entries(scheduler_[p])) + 1])
  <2> PICK e \in Entry : /\ scheduler_'[p] = Append(scheduler_[p], e)
                         /\ Len(scheduler_[p]) + 1 \in 1..Len(ChosenBar)
                         /\ ChosenBar[Len(scheduler_[p]) + 1] = e.data
    OBVIOUS
  <2>1. /\ scheduler_[p] \in Seq(Entry) /\ Len(scheduler_[p]) \in Nat
    BY <1>t, Types
  <2>2. Len(Entries(scheduler_[p])) = Len(scheduler_[p])
    BY <2>1, EntriesFacts
  <2>3. Entries(Append(scheduler_[p], e)) = Append(Entries(scheduler_[p]), e.data)
    BY <2>1, EntriesFacts
  <2>4. Len(scheduler_[p]) < Len(ChosenBar)
    <3> DEFINE a == Len(scheduler_[p])
    <3>1. a \in Nat /\ a + 1 \in 1..Len(ChosenBar)
      BY <2>1
    <3> HIDE DEF a
    <3>2. a < Len(ChosenBar)
      BY <3>1
    <3> QED
      BY <3>2 DEF a
  <2> QED
    BY <2>2, <2>3, <2>4
<1>2. OrderedBar' = [p \in Participant |->
                       IF p \in P
                       THEN Append(OrderedBar[p], ChosenBar[Len(OrderedBar[p]) + 1])
                       ELSE OrderedBar[p]]
  <2>1. ASSUME NEW p \in Participant
        PROVE  Entries(scheduler_'[p]) =
                 IF p \in P THEN Append(OrderedBar[p], ChosenBar[Len(OrderedBar[p]) + 1])
                 ELSE OrderedBar[p]
    <3>1. OrderedBar[p] = Entries(scheduler_[p])
      BY DEF OrderedBar
    <3> QED
      BY <1>1, <3>1
  <2>2. OrderedBar' = [p \in Participant |-> Entries(scheduler_'[p])]
    BY DEF OrderedBar
  <2> QED
    BY <2>1, <2>2
<1>3. \A p \in P : Len(OrderedBar[p]) < Len(ChosenBar)
  BY <1>1 DEF OrderedBar
<1> QED
  BY <1>2, <1>3 DEF Abstract!PassOn, TakenBar, ChosenBar, OrderedBar

\* The initial states are initial states of OrderedLog.
LEMMA InitImplements == Init => Abstract!Init
<1> SUFFICES ASSUME Init PROVE Abstract!Init
  OBVIOUS
<1>1. Leader \in Participant
  BY PaxosAssumption DEF Leader, Participant
<1>2. /\ pc[Leader] = "waiting" /\ submitted = <<>> /\ sequence_ = <<>>
      /\ \A p \in Participant : scheduler_[p] = <<>>
      /\ next_version = FirstVersion /\ FirstVersion \in Nat
  BY <1>1 DEF Init, FirstVersion
<1>3. Entries(<<>>) = <<>>
  <2> DEFINE e == <<>>
  <2>1. e \in Seq(Entry) /\ Len(e) = 0
    BY EmptySeq
  <2> HIDE DEF e
  <2>2. Entries(e) \in Seq(Seq(Batch)) /\ Len(Entries(e)) = 0
    BY <2>1, EntriesFacts
  <2> QED
    BY <2>2, EmptySeq DEF e
<1>4. ~Chosen /\ ~InDoubt
  <2>1. ~ (next_version - FirstVersion > Len(scheduler_[Leader]))
    <3>1. Len(scheduler_[Leader]) = 0
      BY <1>1, <1>2
    <3> QED
      BY <1>2, <3>1
  <2> QED
    BY <1>2, <2>1 DEF Chosen, InDoubt
<1>5. TakenBar = 0
  <2>1. Len(submitted) = 0 /\ Len(sequence_) = 0
    BY <1>2
  <2>2. TakenBar = 0 - 0 - 0
    BY <1>4, <2>1, Zenon DEF TakenBar
  <2> QED
    BY <2>2
<1>6. ChosenBar = <<>>
  BY <1>1, <1>2, <1>3, <1>4 DEF ChosenBar
<1>7. OrderedBar = [p \in Participant |-> <<>>]
  BY <1>2, <1>3 DEF OrderedBar
<1> QED
  BY <1>2, <1>5, <1>6, <1>7 DEF Abstract!Init, TakenBar, ChosenBar, OrderedBar

\* The mapped variables.
BarVars == <<submitted, TakenBar, ChosenBar, OrderedBar>>

\* A proposal that needs no follower is chosen at once.
LEMMA ProposeImplements ==
    ASSUME IInv, IInv', Propose
    PROVE  Abstract!Choose \/ UNCHANGED BarVars
<1>t. TypeOK
  BY DEF IInv
<1>1. ~Chosen /\ Proposals = Decided /\ Doubted = 0
  BY <1>t, Types DEF Propose, Chosen, IInv, LeaderInv, Doubted
<1>2. /\ UNCHANGED <<scheduler_, submitted>>
      /\ proposal'.data = sequence_ /\ Waiting' = Len(submitted)
      /\ sequence_ \in Seq(Batch) /\ sequence_ # <<>> /\ submitted \in Seq(Batch)
  BY <1>t DEF Propose, TypeOK, Waiting
<1>3. TakenBar = Waiting /\ Waiting = Len(submitted) - Len(sequence_)
  BY <1>1, Bars DEF BarInv, Waiting
<1>4. \A i \in 1..Len(sequence_) : sequence_[i] = submitted[Waiting + i]
  BY DEF IInv, BatchInv
<1>5. Len(sequence_) \in Nat \ {0} /\ Len(submitted) \in Nat
  BY <1>2
<1>6. CASE Chosen'
  <2>1. Waiting' > TakenBar /\ TakenBar + Len(proposal'.data) = Waiting'
    BY <1>2, <1>3, <1>5
  <2>2. \A i \in 1..Len(proposal'.data) : proposal'.data[i] = submitted[TakenBar + i]
    BY <1>2, <1>3, <1>4
  <2> QED
    BY <1>1, <1>2, <1>6, <2>1, <2>2, ChooseStep
<1>7. CASE ~Chosen'
  <2>1. BarInv'
    BY Bars, PTL
  <2>2. Proposals' > Decided'
    <3>1. Decided' = Decided /\ Decided \in Nat /\ FirstVersion' = FirstVersion
      BY <1>t, <1>2, Types DEF Decided, FirstVersion, Propose
    <3>2. next_version' = next_version + 1 /\ next_version \in Nat /\ FirstVersion \in Nat
      BY <1>t, Types DEF Propose, TypeOK
    <3> QED
      BY <1>1, <3>1, <3>2 DEF Proposals
  <2>3. Doubted' = Len(sequence_)
    BY <1>2, <2>2 DEF Doubted
  <2>4. TakenBar' = Waiting' - Doubted'
    BY <1>7, <2>1 DEF BarInv
  <2>5. TakenBar' = TakenBar
    BY <1>2, <1>3, <2>3, <2>4
  <2>6. ChosenBar' = ChosenBar
    BY <1>1, <1>2, <1>7 DEF ChosenBar
  <2>7. OrderedBar' = OrderedBar
    BY <1>2 DEF OrderedBar
  <2> QED
    BY <1>2, <2>5, <2>6, <2>7 DEF BarVars
<1> QED
  BY <1>6, <1>7

\* Otherwise a proposal is chosen with the ack that completes its quorum.
LEMMA CollectAckImplements ==
    ASSUME IInv, IInv', NEW f \in Follower, CollectAck(f)
    PROVE  Abstract!Choose \/ UNCHANGED BarVars
<1>t. TypeOK
  BY DEF IInv
<1>1. /\ pc[Leader] = "collecting" /\ ~Chosen /\ Proposals > Decided
  <2>1. acks \in Nat /\ quorum \in Nat /\ Decided \in Nat
    BY <1>t, Types DEF TypeOK
  <2>2. pc[Leader] = "collecting" /\ ~(acks >= quorum)
    BY <2>1 DEF CollectAck
  <2>3. Proposals > Decided
    BY <2>1, <2>2 DEF IInv, LeaderInv
  <2> QED
    BY <2>2, <2>3 DEF Chosen, HasQuorum
<1>2. UNCHANGED <<pc, scheduler_, submitted, sequence_, proposal, next_version, class>>
  BY DEF CollectAck
<1>3. /\ Waiting' = Waiting /\ Doubted = Len(proposal.data) /\ Doubted > 0
      /\ \A i \in 1..Doubted : proposal.data[i] = submitted[Waiting - Doubted + i]
  BY <1>1, <1>2 DEF Waiting, Doubted, IInv, BatchInv
<1>4. TakenBar = Waiting - Doubted /\ Waiting \in Int /\ Doubted \in Nat
  BY <1>1, Bars DEF BarInv
<1>5. CASE Chosen'
  <2>1. Waiting' > TakenBar /\ TakenBar + Len(proposal'.data) = Waiting'
    <3>1. Waiting > TakenBar /\ TakenBar + Doubted = Waiting
      BY <1>3, <1>4
    <3> QED
      BY <1>2, <1>3, <3>1
  <2>2. \A i \in 1..Len(proposal'.data) : proposal'.data[i] = submitted[TakenBar + i]
    BY <1>2, <1>3, <1>4
  <2> QED
    BY <1>1, <1>2, <1>5, <2>1, <2>2, ChooseStep
<1>6. CASE ~Chosen'
  <2>1. InDoubt' <=> InDoubt
    BY <1>1, <1>2, <1>6 DEF InDoubt, FirstVersion
  <2> QED
    BY <1>1, <1>2, <1>6, <2>1 DEF BarVars, TakenBar, ChosenBar, OrderedBar
<1> QED
  BY <1>5, <1>6

\* A commit passes the chosen entry on: in a LocalPaxos to all at once.
LEMMA CommitImplements ==
    ASSUME IInv, IInv', CommitProposal \/ CommitLocalProposal
    PROVE  \E P \in SUBSET Participant : Abstract!PassOn(P)
<1> DEFINE s == scheduler_[Leader]
           P == IF class = "Paxos" THEN {Leader} ELSE Participant
<1>t. TypeOK
  BY DEF IInv
<1>1. /\ Chosen /\ ~Chosen' /\ s \in Seq(Entry) /\ proposal \in Entry
      /\ UNCHANGED <<submitted, sequence_, proposal, next_version, class>>
      /\ scheduler_' \in [Participant -> Seq(Entry)] /\ scheduler_'[Leader] = Append(s, proposal)
  <2>1. Leader \in Participant
    BY <1>t, Types
  <2>2. pc[Leader] = "collecting" /\ HasQuorum /\ pc'[Leader] = "logging"
    BY <1>t, <2>1 DEF CommitProposal, CommitLocalProposal, TypeOK
  <2>3. s \in Seq(Entry) /\ proposal \in Entry
    BY <1>t, Types DEF TypeOK
  <2>4. scheduler_' \in [Participant -> Seq(Entry)] /\ scheduler_'[Leader] = Append(s, proposal)
    <3>1. CASE CommitProposal
      BY <1>t, <2>1, <2>3, <3>1 DEF CommitProposal, TypeOK
    <3>2. CASE CommitLocalProposal
      BY <1>t, <2>1, <2>3, <3>2 DEF CommitLocalProposal, TypeOK
    <3> QED
      BY <3>1, <3>2
  <2>5. UNCHANGED <<submitted, sequence_, proposal, next_version, class>>
    BY DEF CommitProposal, CommitLocalProposal, leaderVars
  <2> QED
    BY <2>2, <2>3, <2>4, <2>5 DEF Chosen
<1>2. BarInv /\ BarInv'
  <2>1. BarInv
    BY Bars
  <2>2. BarInv'
    BY Bars, PTL
  <2> QED
    BY <2>1, <2>2
<1>3. /\ Decided \in Nat /\ Decided = Len(s) /\ Decided' = Decided + 1 /\ Proposals = Decided + 1
      /\ Proposals' = Proposals
  <2>1. Decided \in Nat /\ Decided = Len(s) /\ Proposals = Decided + 1
    BY <1>t, <1>1, Types DEF IInv, LeaderInv, Chosen, Decided
  <2>2. Decided' = Decided + 1
    <3>1. Len(Append(s, proposal)) = Len(s) + 1
      BY <1>1, AppendFacts
    <3> QED
      BY <1>1, <2>1, <3>1 DEF Decided
  <2> QED
    BY <1>1, <2>1, <2>2 DEF Proposals, FirstVersion
<1>4. TakenBar' = TakenBar
  <2>1. TakenBar = Waiting - 0 /\ TakenBar' = Waiting' - Doubted' /\ Waiting' = Waiting
    BY <1>1, <1>2 DEF BarInv, Waiting
  <2>2. Doubted' = 0
    BY <1>3 DEF Doubted
  <2> QED
    BY <2>1, <2>2
<1>5. /\ ChosenBar = Append(Entries(s), proposal.data) /\ ChosenBar' = ChosenBar
      /\ Len(ChosenBar) = Decided + 1 /\ ChosenBar[Decided + 1] = proposal.data
  <2>1. ChosenBar = Append(Entries(s), proposal.data) /\ proposal.data \in Seq(Batch)
    BY <1>1, <1>2 DEF BarInv
  <2>2. ChosenBar' = Entries(Append(s, proposal))
    BY <1>1, <1>2 DEF BarInv
  <2>3. Entries(Append(s, proposal)) = Append(Entries(s), proposal.data)
    BY <1>1, EntriesFacts
  <2>4. Entries(s) \in Seq(Seq(Batch)) /\ Len(Entries(s)) = Decided
    BY <1>1, <1>3, EntriesFacts
  <2>5. /\ Len(Append(Entries(s), proposal.data)) = Len(Entries(s)) + 1
        /\ Append(Entries(s), proposal.data)[Len(Entries(s)) + 1] = proposal.data
    BY <2>1, <2>4, AppendFacts
  <2> QED
    BY <2>1, <2>2, <2>3, <2>4, <2>5
<1>6. /\ P \in SUBSET Participant
      /\ \A p \in Participant \ P : scheduler_'[p] = scheduler_[p]
      /\ \A p \in P : /\ scheduler_'[p] = Append(scheduler_[p], proposal)
                      /\ Len(scheduler_[p]) = Decided
  <2>1. Leader \in Participant /\ class \in {"Paxos", "LocalPaxos"}
    BY <1>t, Types
  <2>2. CASE class = "Paxos"
    BY <1>t, <1>3, <2>1, <2>2 DEF CommitProposal, CommitLocalProposal, TypeOK
  <2>3. CASE class = "LocalPaxos"
    <3>1. \A p \in Participant : scheduler_'[p] = Append(scheduler_[p], proposal)
      BY <2>3 DEF CommitProposal, CommitLocalProposal
    <3>2. \A p \in Participant : scheduler_[p] = s
      <4>1. \A p \in Participant : p = Leader \/ p \in Follower
        BY PaxosAssumption DEF Participant, Follower, Leader
      <4> QED
        BY <2>3, <4>1 DEF IInv, HeldInv
    <3> QED
      BY <1>3, <2>3, <3>1, <3>2
  <2> QED
    BY <2>1, <2>2, <2>3
<1> HIDE DEF P, s
<1>7. Decided + 1 \in 1..Len(ChosenBar)
  BY <1>3, <1>5
<1>8. \A p \in P : \E e \in Entry : /\ scheduler_'[p] = Append(scheduler_[p], e)
                                    /\ Len(scheduler_[p]) + 1 \in 1..Len(ChosenBar)
                                    /\ ChosenBar[Len(scheduler_[p]) + 1] = e.data
  BY <1>1, <1>5, <1>6, <1>7
<1>9. submitted' = submitted /\ scheduler_' \in [Participant -> Seq(Entry)]
  BY <1>1
<1> QED
  BY <1>4, <1>5, <1>6, <1>8, <1>9, PassOnStep

\* A follower passes the next chosen entry on, whatever version the commit names.
LEMMA OnCommitImplements ==
    ASSUME IInv, IInv', NEW f \in Follower, OnCommit(f)
    PROVE  Abstract!PassOn({f})
<1> DEFINE e == Head(uncommitted[f])
           n == Logged(f) + 1
<1>t. TypeOK
  BY DEF IInv
<1>1. class = "Paxos" /\ n <= Decided /\ e = scheduler_[Leader][n] /\ Queued(f) = 1
  BY CommitIsNext DEF OnCommit, Receive
<1>2. /\ f \in Participant /\ f # Leader /\ Leader \in Participant
      /\ n \in Nat \ {0} /\ Decided \in Nat
      /\ scheduler_[Leader] \in Seq(Entry) /\ uncommitted[f] \in Seq(Entry)
      /\ Decided = Len(scheduler_[Leader])
  <2>1. /\ f \in Participant /\ f # Leader /\ Leader \in Participant /\ Logged(f) \in Nat
        /\ scheduler_[Leader] \in Seq(Entry) /\ uncommitted[f] \in Seq(Entry) /\ Decided \in Nat
    BY <1>t, Types
  <2> QED
    BY <2>1 DEF Decided
<1>3. e \in Entry
  BY <1>2, TailFacts DEF OnCommit
<1>4. Len(scheduler_[f]) + 1 = n
  BY <1>1 DEF IInv, HeldInv, Logged
<1>5. /\ scheduler_'[f] = Append(scheduler_[f], e)
      /\ \A p \in Participant \ {f} : scheduler_'[p] = scheduler_[p]
      /\ scheduler_' \in [Participant -> Seq(Entry)]
  <2>1. /\ scheduler_'[f] = Append(scheduler_[f], e)
        /\ \A p \in Participant \ {f} : scheduler_'[p] = scheduler_[p]
    BY <1>t, <1>2 DEF OnCommit, TypeOK
  <2> QED
    BY <2>1 DEF IInv, TypeOK
<1>6. UNCHANGED <<submitted, sequence_, proposal, next_version, class, acks, pc[Leader],
                  scheduler_[Leader]>>
  <2>1. pc'[Leader] = pc[Leader]
    BY <1>t, <1>2 DEF OnCommit, Receive, TypeOK
  <2> QED
    BY <1>2, <1>5, <2>1 DEF OnCommit, leaderVars
<1>7. /\ Chosen' = Chosen /\ InDoubt' = InDoubt
  BY <1>6 DEF Chosen, InDoubt, HasQuorum, FirstVersion
<1>8. TakenBar' = TakenBar /\ ChosenBar' = ChosenBar
  BY <1>6, <1>7 DEF TakenBar, ChosenBar
<1> HIDE DEF n, e
<1>9. n \in 1..Len(ChosenBar) /\ ChosenBar[n] = e.data
  <2> DEFINE t == Entries(scheduler_[Leader])
  <2>1. /\ t \in Seq(Seq(Batch)) /\ Len(t) = Decided /\ t[n] = e.data
    BY <1>1, <1>2, EntriesFacts
  <2>2. /\ ChosenBar = IF Chosen THEN Append(t, proposal.data) ELSE t
        /\ proposal.data \in Seq(Batch)
    BY Bars DEF BarInv
  <2> HIDE DEF t
  <2>3. /\ Len(Append(t, proposal.data)) = Decided + 1
        /\ \A i \in 1..Decided : Append(t, proposal.data)[i] = t[i]
    BY <2>1, <2>2, AppendFacts
  <2>4. n \in 1..Decided /\ n \in 1..(Decided + 1)
    BY <1>1, <1>2
  <2> QED
    BY <2>1, <2>2, <2>3, <2>4
<1>10. {f} \in SUBSET Participant /\ UNCHANGED submitted
  BY <1>2, <1>6
<1>11. \A p \in {f} : \E x \in Entry : /\ scheduler_'[p] = Append(scheduler_[p], x)
                                      /\ Len(scheduler_[p]) + 1 \in 1..Len(ChosenBar)
                                      /\ ChosenBar[Len(scheduler_[p]) + 1] = x.data
  BY <1>3, <1>4, <1>5, <1>9
<1> QED
  BY <1>5, <1>8, <1>10, <1>11, PassOnStep

\* Steps that OrderedLog does not see.
LEMMA Unseen ==
    ASSUME IInv, UNCHANGED <<class, leaderVars, scheduler_, submitted>>,
           pc'[Leader] = pc[Leader] \/ (~Chosen /\ pc'[Leader] # "collecting")
    PROVE  UNCHANGED BarVars
<1>1. UNCHANGED <<class, sequence_, next_version, proposal, acks, scheduler_, submitted>>
  BY DEF leaderVars
<1>2. Chosen' = Chosen
  BY <1>1 DEF Chosen, HasQuorum
<1>3. InDoubt' = InDoubt
  BY <1>1, <1>2 DEF InDoubt, FirstVersion
<1> QED
  BY <1>1, <1>2, <1>3 DEF BarVars, TakenBar, ChosenBar, OrderedBar

\* Every step of the log is one of OrderedLog or not seen by it.
LEMMA StepImplements == IInv /\ IInv' /\ [Next]_vars => [Abstract!Next]_(Abstract!vars)
<1> SUFFICES ASSUME IInv, IInv', [Next]_vars PROVE Abstract!Next \/ UNCHANGED BarVars
  BY DEF Abstract!vars, BarVars, TakenBar, ChosenBar, OrderedBar
<1>t. TypeOK /\ Leader \in Participant /\ \A f \in Follower : f # Leader
  BY Types DEF IInv
<1>1. ASSUME NEW b \in Batch \ ToSet(submitted), AppendBatch(b) PROVE Abstract!Next
  <2>1. sequence_ \in Seq(Batch) /\ submitted \in Seq(Batch)
    BY <1>t DEF TypeOK
  <2>2. Len(submitted') - Len(sequence_') = Len(submitted) - Len(sequence_)
    BY <1>1, <2>1 DEF AppendBatch
  <2>3. UNCHANGED <<Chosen, InDoubt>>
    BY <1>1 DEF AppendBatch, Chosen, InDoubt, HasQuorum, FirstVersion
  <2>4. UNCHANGED <<TakenBar, ChosenBar, OrderedBar>>
    BY <1>1, <2>2, <2>3 DEF AppendBatch, TakenBar, ChosenBar, OrderedBar
  <2>5. Abstract!Submit(b)
    BY <1>1, <2>4 DEF AppendBatch, Abstract!Submit, TakenBar, ChosenBar, OrderedBar
  <2> QED
    BY <2>5 DEF Abstract!Next, Abstract!ToSet, ToSet
<1>2. ASSUME NEW p \in Participant, Stop(p) PROVE UNCHANGED BarVars
  BY <1>2, Unseen DEF Stop
<1>3. CASE Propose
  BY <1>3, ProposeImplements DEF Abstract!Next
<1>4. ASSUME NEW f \in Follower, CollectAck(f) PROVE Abstract!Next \/ UNCHANGED BarVars
  BY <1>4, CollectAckImplements DEF Abstract!Next
<1>5. CASE CommitProposal \/ CommitLocalProposal
  BY <1>5, CommitImplements DEF Abstract!Next
<1>6. CASE LogProposal
  <2>1. pc[Leader] = "logging" /\ pc'[Leader] # "collecting"
    BY <1>t, <1>6 DEF LogProposal, TypeOK
  <2> QED
    BY <1>6, <2>1, Unseen DEF LogProposal, Chosen
<1>7. CASE LeaderExit
  <2>1. pc'[Leader] # "collecting"
    BY <1>t, <1>7 DEF LeaderExit, TypeOK
  <2>2. acks \in Nat /\ quorum \in Nat
    BY <1>t, Types DEF TypeOK
  <2>3. ~Chosen
    BY <1>7, <2>2 DEF LeaderExit, Chosen, HasQuorum
  <2> QED
    BY <1>7, <2>1, <2>3, Unseen DEF LeaderExit
<1>8. ASSUME NEW f \in Follower, OnData(f) PROVE UNCHANGED BarVars
  <2>1. pc'[Leader] = pc[Leader]
    BY <1>t, <1>8 DEF OnData, Receive, TypeOK
  <2> QED
    BY <1>8, <2>1, Unseen DEF OnData
<1>9. ASSUME NEW f \in Follower, OnCommit(f) PROVE Abstract!Next
  <2>1. f \in Participant
    BY <1>t, Types
  <2> QED
    BY <1>9, <2>1, OnCommitImplements DEF Abstract!Next
<1>10. ASSUME NEW f \in Follower, FollowerExit(f) PROVE UNCHANGED BarVars
  <2>1. pc'[Leader] = pc[Leader]
    BY <1>t, <1>10 DEF FollowerExit, TypeOK
  <2> QED
    BY <1>10, <2>1, Unseen DEF FollowerExit
<1>11. CASE UNCHANGED vars
  BY <1>11, Unseen DEF vars
<1> QED
  BY <1>1, <1>2, <1>3, <1>4, <1>5, <1>6, <1>7, <1>8, <1>9, <1>10, <1>11
     DEF Next, LeaderNext, FollowerNext

\* Every participant passes on the same sequences in the same order, each batch submitted
\* in one of them, although a follower does not look at the version that a commit names.
THEOREM Implements == Spec => ImplementsOrderedLog
BY InitImplements, StepImplements, Invariance, PTL DEF Spec, ImplementsOrderedLog, Abstract!Spec

=============================================================================
