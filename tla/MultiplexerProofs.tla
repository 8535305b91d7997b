-------------------------- MODULE MultiplexerProofs --------------------------
(***************************************************************************)
(* Proofs about Multiplexer, for any number of machines and transactions:  *)
(* whenever a channel is made, linked, unlinked or deleted, every message  *)
(* is read once and in order; no result is read without its transaction,   *)
(* and no sequencer starts before all of them can hear it.                 *)
(***************************************************************************)
EXTENDS Multiplexer, FiniteSetTheorems, SequenceTheorems, TLAPS

TypeInv ==
    /\ TypeOK
    /\ DOMAIN channel_results_ = Machine
    /\ \A m \in Machine : running[m]

\* m's threads have called NewChannel() for c.
Asked(m, c) ==
    \/ c = Sync /\ writer[m] = "creating"
    \/ c = Work /\ scheduler[m] \in {"work", "main"}
    \/ c = Main /\ scheduler[m] = "main"

\* A channel that was asked for is there or waits to be made, and no name is asked for
\* twice; so no machine's loop returns.  Only the synchronization channel is deleted.
Making(m) ==
    /\ IsInjective(new_channel_queue_[m])
    /\ \A c \in {Sync, Work, Main} :
          c \in ToSet(new_channel_queue_[m]) <=> Asked(m, c) /\ c \notin Channels(m)
    /\ writer[m] \in {"new", "started"} => Sync \notin Channels(m)
    /\ writer[m] = "collecting" => Sync \in Channels(m)
    /\ scheduler[m] = "new" => Work \notin Channels(m)
    /\ scheduler[m] = "main" => Work \in Channels(m)
    /\ scheduler[m] # "main" => Main \notin Channels(m)
    /\ delete_channel_queue_[m] =
          IF writer[m] = "deleting" /\ Sync \in Channels(m) THEN <<Sync>> ELSE <<>>

MakingInv == \A m \in Machine : Making(m)

\* Messages are where they belong: in the queue of their channel, or put by for it as long
\* as it is not there; on the wire or to be sent by the machine they are from.
Queued(m, q, msg) ==
    msg.to = m /\ msg.channel \in Channels(m) /\ channel_results_[m][msg.channel] = q

PlaceInv ==
    /\ \A m \in Machine, q \in Channel : \A i \in DOMAIN queues[m][q] :
          Queued(m, q, queues[m][q][i])
    /\ \A m \in Machine, c \in Channel : \A i \in DOMAIN undelivered_messages_[m][c] :
          /\ undelivered_messages_[m][c][i].to = m
          /\ undelivered_messages_[m][c][i].channel = c
          /\ c \notin Channels(m)
    /\ \A m, n \in Machine : \A i \in DOMAIN wire[m][n] :
          wire[m][n][i].from = m /\ wire[m][n][i].to = n /\ m # n
    /\ \A m \in Machine : \A i \in DOMAIN send_message_queue_[m] :
          send_message_queue_[m][i].from = m

\* The messages from m to n's channel c that were sent and not read, those with numbers
\* after a up to b, are divided in this order between the four parts of the way.
Flows(q, u, w, s, m, n, c, a, b) ==
    \E i, j, k \in Nat : /\ Carries(q, m, n, c, a, i)
                         /\ Carries(u, m, n, c, i, j)
                         /\ Carries(w, m, n, c, j, k)
                         /\ Carries(s, m, n, c, k, b)

FlowInv ==
    \A m, n \in Machine, c \in Channel :
        Flows(Arrived(n, c), undelivered_messages_[n][c], wire[m][n], send_message_queue_[m],
              m, n, c, received[n][m][c], Sent(m, n, c))

\* Whose writer goes on has heard of all other machines.
HeardInv ==
    \A m \in Machine : writer[m] \in {"deleting", "started"} =>
        \A n \in Others(m) : received[m][n][Sync] > 0

\* The transactions that wait for the worker are the last ones that the scheduler got, and
\* it gets some only with all its channels.
Took(m) == received[m][Sender][Work] - Len(txns_queue_[m])

TxnInv ==
    \A m \in Machine :
        /\ Took(m) >= 0
        /\ \A i \in DOMAIN txns_queue_[m] : txns_queue_[m][i] = Took(m) + i
        /\ received[m][Sender][Work] > 0 => Main \in Channels(m)

\* The request waits for the multiplexer.
Wants(m, type, t) ==
    [type |-> type, channel |-> t] \in ToSet(link_unlink_queue_[m])

\* From its start to its end a transaction has its channel, or has asked for it; it ends
\* when the results of all other machines are read.
Linked(m, t) ==
    /\ Wants(m, "LINK_CHANNEL", t) => t \in active_txns[m] /\ t \notin Channels(m)
    /\ Wants(m, "UNLINK_CHANNEL", t) => t \in Taken(m) \ active_txns[m] /\ t \in Channels(m)
    /\ t \in Channels(m) => t \in active_txns[m] \/ Wants(m, "UNLINK_CHANNEL", t)
    /\ t \in active_txns[m] =>
          t \in Taken(m) /\ (t \in Channels(m) \/ Wants(m, "LINK_CHANNEL", t))
    /\ t \in Taken(m) \ active_txns[m] => \A n \in Others(m) : received[m][n][t] > 0

LinkInv ==
    \A m \in Machine :
        /\ IsInjective(link_unlink_queue_[m])
        /\ \A t \in Txn : Linked(m, t)

IInv == TypeInv /\ MakingInv /\ PlaceInv /\ FlowInv /\ HeardInv /\ TxnInv /\ LinkInv

-----------------------------------------------------------------------------
(* Sequences of messages. *)

\* The first message and the others.
LEMMA TailFacts ==
    ASSUME NEW s \in Seq(Messages), s # <<>>
    PROVE  /\ Head(s) \in Messages /\ Tail(s) \in Seq(Messages)
           /\ 1 \in DOMAIN s /\ Head(s) = s[1]
           /\ \A k \in DOMAIN Tail(s) : k + 1 \in DOMAIN s /\ Tail(s)[k] = s[k + 1]
           /\ \A k \in DOMAIN s : k = 1 \/ (k - 1 \in DOMAIN Tail(s) /\ Tail(s)[k - 1] = s[k])
BY HeadTailProperties

\* One more message.
LEMMA AppendFacts ==
    ASSUME NEW s \in Seq(Messages), NEW e \in Messages
    PROVE  /\ Append(s, e) \in Seq(Messages)
           /\ Len(s) + 1 \in DOMAIN Append(s, e) /\ Append(s, e)[Len(s) + 1] = e
           /\ \A k \in DOMAIN s : k \in DOMAIN Append(s, e) /\ Append(s, e)[k] = s[k]
           /\ \A k \in DOMAIN Append(s, e) : k \in DOMAIN s \/ k = Len(s) + 1
           /\ \A k \in DOMAIN s : k < Len(s) + 1
BY AppendProperties

\* What \o gives: its type, and that it has the messages of both, those of s first.
LEMMA ConcatFacts ==
    ASSUME NEW s \in Seq(Messages), NEW t \in Seq(Messages)
    PROVE  /\ s \o t \in Seq(Messages)
           /\ \A k \in DOMAIN s : k \in DOMAIN (s \o t) /\ (s \o t)[k] = s[k]
           /\ \A k \in DOMAIN t : /\ Len(s) + k \in DOMAIN (s \o t)
                                  /\ (s \o t)[Len(s) + k] = t[k]
           /\ \A k \in DOMAIN (s \o t) :
                 \/ k \in DOMAIN s
                 \/ \E l \in DOMAIN t : k = Len(s) + l
           /\ \A k \in DOMAIN s, l \in DOMAIN t : k < Len(s) + l
<1>1. /\ s \o t \in Seq(Messages) /\ Len(s \o t) = Len(s) + Len(t)
      /\ \A i \in 1..(Len(s) + Len(t)) :
            (s \o t)[i] = IF i <= Len(s) THEN s[i] ELSE t[i - Len(s)]
  BY ConcatProperties
<1>2. /\ Len(s) \in Nat /\ Len(t) \in Nat
      /\ DOMAIN s = 1..Len(s) /\ DOMAIN t = 1..Len(t) /\ DOMAIN (s \o t) = 1..(Len(s) + Len(t))
  BY <1>1
<1>3. ASSUME NEW k \in DOMAIN (s \o t), k \notin DOMAIN s
      PROVE  \E l \in DOMAIN t : k = Len(s) + l
  <2>1. k - Len(s) \in DOMAIN t /\ k = Len(s) + (k - Len(s))
    BY <1>2, <1>3
  <2> QED
    BY <2>1
<1>4. ASSUME NEW k \in DOMAIN t
      PROVE  Len(s) + k \in DOMAIN (s \o t) /\ (s \o t)[Len(s) + k] = t[k]
  <2>1. k \in Nat /\ k >= 1 /\ k <= Len(t)
    BY <1>2
  <2>2. Len(s) + k \in 1..(Len(s) + Len(t)) /\ ~ (Len(s) + k <= Len(s)) /\ (Len(s) + k) - Len(s) = k
    BY <1>2, <2>1
  <2> QED
    BY <1>1, <1>2, <2>2
<1> QED
  BY <1>1, <1>2, <1>3, <1>4

\* A message of s \o t is one of s or of t.
LEMMA ConcatElement ==
    ASSUME NEW s \in Seq(Messages), NEW t \in Seq(Messages), NEW r, r = s \o t,
           NEW k \in DOMAIN r
    PROVE  \/ k \in DOMAIN s /\ r[k] = s[k]
           \/ \E l \in DOMAIN t : r[k] = t[l]
BY ConcatFacts

-----------------------------------------------------------------------------
(* Carries(). *)

\* Without messages nothing is left over.
LEMMA CarriesEmpty ==
    ASSUME NEW m, NEW n, NEW c, NEW a \in Nat, NEW b \in Nat
    PROVE  Carries(<<>>, m, n, c, a, b) <=> a = b
<1>1. DOMAIN <<>> = {}
  OBVIOUS
<1>2. ASSUME Carries(<<>>, m, n, c, a, b) PROVE a = b
  BY <1>1, <1>2 DEF Carries
<1>3. ASSUME a = b PROVE Carries(<<>>, m, n, c, a, b)
  BY <1>1, <1>3 DEF Carries
<1> QED
  BY <1>2, <1>3

\* Nor with messages of others only.
LEMMA CarriesNone ==
    ASSUME NEW s \in Seq(Messages), NEW m, NEW n, NEW c, NEW a \in Nat, NEW b \in Nat,
           \A k \in DOMAIN s : ~ IsFor(s[k], m, n, c)
    PROVE  Carries(s, m, n, c, a, b) <=> a = b
<1>2. ASSUME Carries(s, m, n, c, a, b) PROVE a = b
  BY <1>2 DEF Carries
<1>3. ASSUME a = b PROVE Carries(s, m, n, c, a, b)
  BY <1>3 DEF Carries
<1> QED
  BY <1>2, <1>3

\* A message that s has is one of those that are left.
LEMMA CarriesSome ==
    ASSUME NEW s \in Seq(Messages), NEW m, NEW n, NEW c, NEW a \in Nat, NEW b \in Nat,
           Carries(s, m, n, c, a, b), NEW k \in DOMAIN s, IsFor(s[k], m, n, c)
    PROVE  a < s[k].num /\ s[k].num <= b
<1>1. s[k].num \in (a + 1)..b
  BY DEF Carries
<1> QED
  BY <1>1

\* What t has comes after what s has.
LEMMA CarriesConcat ==
    ASSUME NEW s \in Seq(Messages), NEW t \in Seq(Messages), NEW m, NEW n, NEW c,
           NEW a \in Nat, NEW b \in Nat, NEW d \in Nat,
           Carries(s, m, n, c, a, b), Carries(t, m, n, c, b, d)
    PROVE  Carries(s \o t, m, n, c, a, d)
<1> DEFINE r == s \o t
<1>1. /\ r \in Seq(Messages)
      /\ \A k \in DOMAIN s : k \in DOMAIN r /\ r[k] = s[k]
      /\ \A k \in DOMAIN t : Len(s) + k \in DOMAIN r /\ r[Len(s) + k] = t[k]
      /\ \A k \in DOMAIN r : k \in DOMAIN s \/ \E l \in DOMAIN t : k = Len(s) + l
      /\ \A k \in DOMAIN s, l \in DOMAIN t : k < Len(s) + l
  BY ConcatFacts
<1>2. /\ \A k \in DOMAIN s : k \in Nat
      /\ \A k \in DOMAIN t : k \in Nat
      /\ Len(s) \in Nat
  OBVIOUS
<1>3. a <= d
  BY DEF Carries
<1> HIDE DEF r
<1>4. ASSUME NEW k \in DOMAIN r, IsFor(r[k], m, n, c)
      PROVE  \/ k \in DOMAIN s /\ r[k] = s[k] /\ r[k].num \in (a + 1)..b
             \/ \E l \in DOMAIN t : k = Len(s) + l /\ r[k] = t[l] /\ r[k].num \in (b + 1)..d
  BY <1>1, <1>4 DEF Carries
<1>5. ASSUME NEW k \in DOMAIN r, IsFor(r[k], m, n, c) PROVE r[k].num \in (a + 1)..d
  <2>1. a <= b /\ b <= d
    BY DEF Carries
  <2> QED
    BY <1>4, <1>5, <2>1
<1>6. ASSUME NEW x \in (a + 1)..d PROVE \E k \in DOMAIN r : IsFor(r[k], m, n, c) /\ r[k].num = x
  <2>1. x \in (a + 1)..b \/ x \in (b + 1)..d
    OBVIOUS
  <2>2. CASE x \in (a + 1)..b
    <3>1. PICK k \in DOMAIN s : IsFor(s[k], m, n, c) /\ s[k].num = x
      BY <2>2 DEF Carries
    <3> QED
      BY <3>1, <1>1
  <2>3. CASE x \in (b + 1)..d
    <3>1. PICK k \in DOMAIN t : IsFor(t[k], m, n, c) /\ t[k].num = x
      BY <2>3 DEF Carries
    <3> QED
      BY <3>1, <1>1
  <2> QED
    BY <2>1, <2>2, <2>3
<1>7. ASSUME NEW k \in DOMAIN r, NEW l \in DOMAIN r, k < l,
             IsFor(r[k], m, n, c), IsFor(r[l], m, n, c)
      PROVE  r[k].num < r[l].num
  <2>1. CASE k \in DOMAIN s /\ l \in DOMAIN s
    BY <2>1, <1>1, <1>7 DEF Carries
  <2>2. CASE k \in DOMAIN s /\ l \notin DOMAIN s
    <3>1. r[k].num \in (a + 1)..b
      BY <2>2, <1>1, <1>7 DEF Carries
    <3>2. r[l].num \in (b + 1)..d
      BY <2>2, <1>4, <1>7
    <3> QED
      BY <3>1, <3>2
  <2>3. CASE k \notin DOMAIN s
    <3>1. PICK i \in DOMAIN t : k = Len(s) + i /\ r[k] = t[i]
      BY <2>3, <1>1
    <3>2. l \notin DOMAIN s
      BY <3>1, <1>1, <1>2, <1>7
    <3>3. PICK j \in DOMAIN t : l = Len(s) + j /\ r[l] = t[j]
      BY <3>2, <1>1
    <3>4. i < j
      BY <3>1, <3>3, <1>2, <1>7
    <3> QED
      BY <3>1, <3>3, <3>4, <1>7 DEF Carries
  <2> QED
    BY <2>1, <2>2, <2>3
<1> QED
  BY <1>3, <1>5, <1>6, <1>7 DEF Carries, r

\* The next message, or one of others, comes last.
LEMMA CarriesAppend ==
    ASSUME NEW s \in Seq(Messages), NEW e \in Messages, NEW m, NEW n, NEW c,
           NEW a \in Nat, NEW b \in Nat, Carries(s, m, n, c, a, b)
    PROVE  /\ IsFor(e, m, n, c) /\ e.num = b + 1 => Carries(Append(s, e), m, n, c, a, b + 1)
           /\ ~ IsFor(e, m, n, c) => Carries(Append(s, e), m, n, c, a, b)
<1>1. /\ <<e>> \in Seq(Messages) /\ DOMAIN <<e>> = {1} /\ <<e>>[1] = e
      /\ Append(s, e) = s \o <<e>>
      /\ b + 1 \in Nat
  BY AppendIsConcat
<1>2. ASSUME IsFor(e, m, n, c), e.num = b + 1 PROVE Carries(<<e>>, m, n, c, b, b + 1)
  <2>1. \A x : x \in (b + 1)..(b + 1) <=> x = b + 1
    OBVIOUS
  <2>2. \A k \in DOMAIN <<e>> : k = 1 /\ <<e>>[k] = e
    BY <1>1
  <2>3. ~ (1 < 1) /\ b <= b + 1
    OBVIOUS
  <2> QED
    BY <1>1, <1>2, <2>1, <2>2, <2>3 DEF Carries
<1>3. ASSUME ~ IsFor(e, m, n, c) PROVE Carries(<<e>>, m, n, c, b, b)
  <2>1. \A k \in DOMAIN <<e>> : ~ IsFor(<<e>>[k], m, n, c)
    BY <1>1, <1>3
  <2> QED
    BY <1>1, <2>1, CarriesNone
<1> QED
  BY <1>1, <1>2, <1>3, CarriesConcat

\* The first message is the next one, or one of others.
LEMMA CarriesTail ==
    ASSUME NEW s \in Seq(Messages), s # <<>>, NEW m, NEW n, NEW c,
           NEW a \in Nat, NEW b \in Nat, Carries(s, m, n, c, a, b)
    PROVE  /\ IsFor(Head(s), m, n, c) => /\ Head(s).num = a + 1 /\ a < b
                                         /\ Carries(Tail(s), m, n, c, a + 1, b)
           /\ ~ IsFor(Head(s), m, n, c) => Carries(Tail(s), m, n, c, a, b)
<1> DEFINE r == Tail(s)
<1>1. /\ Head(s) \in Messages /\ r \in Seq(Messages)
      /\ 1 \in DOMAIN s /\ Head(s) = s[1]
      /\ \A k \in DOMAIN r : k + 1 \in DOMAIN s /\ r[k] = s[k + 1]
      /\ \A k \in DOMAIN s : k = 1 \/ (k - 1 \in DOMAIN r /\ r[k - 1] = s[k])
  BY TailFacts
<1>2. /\ \A k \in DOMAIN s : k \in Nat /\ k >= 1
      /\ \A k \in DOMAIN r : k \in Nat /\ k >= 1
  BY <1>1
<1>3. \A k \in DOMAIN s : s[k].num \in Nat
  <2>1. \A k \in DOMAIN s : s[k] \in Messages
    OBVIOUS
  <2> QED
    BY <2>1 DEF Messages
<1> HIDE DEF r
<1>4. ASSUME NEW k \in DOMAIN r, NEW l \in DOMAIN r, k < l,
             IsFor(r[k], m, n, c), IsFor(r[l], m, n, c)
      PROVE  r[k].num < r[l].num
  <2>1. /\ k + 1 \in DOMAIN s /\ l + 1 \in DOMAIN s /\ k + 1 < l + 1
        /\ r[k] = s[k + 1] /\ r[l] = s[l + 1]
    BY <1>1, <1>2, <1>4
  <2>2. IsFor(s[k + 1], m, n, c) /\ IsFor(s[l + 1], m, n, c)
    BY <2>1, <1>4
  <2>3. s[k + 1].num < s[l + 1].num
    BY <2>1, <2>2 DEF Carries
  <2> QED
    BY <2>1, <2>3
<1>5. CASE IsFor(Head(s), m, n, c)
  <2>1. s[1].num \in (a + 1)..b
    BY <1>1, <1>5 DEF Carries
  <2>2. s[1].num = a + 1
    <3>1. PICK k \in DOMAIN s : IsFor(s[k], m, n, c) /\ s[k].num = a + 1
      <4>1. a + 1 \in (a + 1)..b
        BY <2>1
      <4> QED
        BY <4>1 DEF Carries
    <3>2. k = 1 \/ s[1].num < s[k].num
      BY <3>1, <1>1, <1>2, <1>5 DEF Carries
    <3> QED
      BY <3>1, <3>2, <2>1
  <2>3. ASSUME NEW k \in DOMAIN r, IsFor(r[k], m, n, c) PROVE r[k].num \in (a + 2)..b
    <3>1. s[k + 1].num \in (a + 1)..b /\ s[1].num < s[k + 1].num
      BY <2>3, <1>1, <1>2, <1>5 DEF Carries
    <3> QED
      BY <3>1, <2>2, <1>1, <2>3
  <2>4. ASSUME NEW x \in (a + 2)..b
        PROVE  \E k \in DOMAIN r : IsFor(r[k], m, n, c) /\ r[k].num = x
    <3>1. PICK k \in DOMAIN s : IsFor(s[k], m, n, c) /\ s[k].num = x
      <4>1. x \in (a + 1)..b
        OBVIOUS
      <4> QED
        BY <4>1 DEF Carries
    <3>2. k # 1
      BY <3>1, <2>2
    <3> QED
      BY <3>1, <3>2, <1>1
  <2>5. (a + 1) + 1 = a + 2 /\ a + 1 <= b /\ a < b
    BY <2>1
  <2>6. Carries(r, m, n, c, a + 1, b)
    BY <2>3, <2>4, <2>5, <1>4 DEF Carries
  <2> QED
    BY <2>2, <2>5, <2>6, <1>1, <1>5 DEF r
<1>6. CASE ~ IsFor(Head(s), m, n, c)
  <2>1. ASSUME NEW k \in DOMAIN r, IsFor(r[k], m, n, c) PROVE r[k].num \in (a + 1)..b
    BY <2>1, <1>1 DEF Carries
  <2>2. ASSUME NEW x \in (a + 1)..b
        PROVE  \E k \in DOMAIN r : IsFor(r[k], m, n, c) /\ r[k].num = x
    <3>1. PICK k \in DOMAIN s : IsFor(s[k], m, n, c) /\ s[k].num = x
      BY <2>2 DEF Carries
    <3>2. k # 1
      BY <3>1, <1>1, <1>6
    <3> QED
      BY <3>1, <3>2, <1>1
  <2>3. a <= b
    BY DEF Carries
  <2> QED
    BY <2>1, <2>2, <2>3, <1>4, <1>6 DEF Carries, r
<1> QED
  BY <1>5, <1>6

-----------------------------------------------------------------------------
(* Flows(). *)

\* More messages are sent.
LEMMA FlowsSent ==
    ASSUME NEW q \in Seq(Messages), NEW u \in Seq(Messages), NEW w \in Seq(Messages),
           NEW s \in Seq(Messages), NEW m, NEW n, NEW c, NEW a \in Nat, NEW b \in Nat,
           Flows(q, u, w, s, m, n, c, a, b),
           NEW z \in Seq(Messages), NEW d \in Nat, Carries(z, m, n, c, b, d)
    PROVE  Flows(q, u, w, s \o z, m, n, c, a, d)
<1>1. PICK i \in Nat, j \in Nat, k \in Nat :
         /\ Carries(q, m, n, c, a, i) /\ Carries(u, m, n, c, i, j)
         /\ Carries(w, m, n, c, j, k) /\ Carries(s, m, n, c, k, b)
  BY DEF Flows
<1>2. Carries(s \o z, m, n, c, k, d)
  BY <1>1, CarriesConcat
<1> QED
  BY <1>1, <1>2 DEF Flows

\* The oldest message of a part goes on to the next part.
LEMMA Moves ==
    ASSUME NEW s \in Seq(Messages), NEW t \in Seq(Messages), t # <<>>, NEW m, NEW n, NEW c,
           NEW a \in Nat, NEW b \in Nat, NEW d \in Nat,
           Carries(s, m, n, c, a, b), Carries(t, m, n, c, b, d)
    PROVE  \E x \in Nat : /\ Carries(Append(s, Head(t)), m, n, c, a, x)
                          /\ Carries(Tail(t), m, n, c, x, d)
<1>1. Head(t) \in Messages
  BY TailFacts
<1>2. CASE IsFor(Head(t), m, n, c)
  <2>1. Head(t).num = b + 1 /\ Carries(Tail(t), m, n, c, b + 1, d)
    BY <1>2, CarriesTail
  <2>2. Carries(Append(s, Head(t)), m, n, c, a, b + 1)
    BY <1>1, <1>2, <2>1, CarriesAppend
  <2>3. b + 1 \in Nat
    OBVIOUS
  <2> QED
    BY <2>1, <2>2, <2>3
<1>3. CASE ~ IsFor(Head(t), m, n, c)
  <2>1. Carries(Tail(t), m, n, c, b, d)
    BY <1>3, CarriesTail
  <2>2. Carries(Append(s, Head(t)), m, n, c, a, b)
    BY <1>1, <1>3, CarriesAppend
  <2> QED
    BY <2>1, <2>2
<1> QED
  BY <1>2, <1>3

\* A message goes on, past empty parts too; all that were put by go on at once.
LEMMA FlowsMove ==
    ASSUME NEW q \in Seq(Messages), NEW u \in Seq(Messages), NEW w \in Seq(Messages),
           NEW s \in Seq(Messages), NEW m, NEW n, NEW c, NEW a \in Nat, NEW b \in Nat,
           Flows(q, u, w, s, m, n, c, a, b)
    PROVE  /\ s # <<>> => Flows(q, u, Append(w, Head(s)), Tail(s), m, n, c, a, b)
           /\ w # <<>> => Flows(q, Append(u, Head(w)), Tail(w), s, m, n, c, a, b)
           /\ w # <<>> /\ u = <<>> => Flows(Append(q, Head(w)), u, Tail(w), s, m, n, c, a, b)
           /\ s # <<>> /\ w = <<>> => Flows(q, Append(u, Head(s)), w, Tail(s), m, n, c, a, b)
           /\ s # <<>> /\ w = <<>> /\ u = <<>> =>
                 Flows(Append(q, Head(s)), u, w, Tail(s), m, n, c, a, b)
           /\ Flows(q \o u, <<>>, w, s, m, n, c, a, b)
<1>1. PICK i \in Nat, j \in Nat, k \in Nat :
         /\ Carries(q, m, n, c, a, i) /\ Carries(u, m, n, c, i, j)
         /\ Carries(w, m, n, c, j, k) /\ Carries(s, m, n, c, k, b)
  BY DEF Flows
<1>2. /\ u = <<>> => i = j
      /\ w = <<>> => j = k
  BY <1>1, CarriesEmpty
<1>3. ASSUME s # <<>>
      PROVE  Flows(q, u, Append(w, Head(s)), Tail(s), m, n, c, a, b)
  <2>1. PICK x \in Nat : /\ Carries(Append(w, Head(s)), m, n, c, j, x)
                         /\ Carries(Tail(s), m, n, c, x, b)
    BY <1>1, <1>3, Moves
  <2> QED
    BY <1>1, <2>1 DEF Flows
<1>4. ASSUME w # <<>>
      PROVE  Flows(q, Append(u, Head(w)), Tail(w), s, m, n, c, a, b)
  <2>1. PICK x \in Nat : /\ Carries(Append(u, Head(w)), m, n, c, i, x)
                         /\ Carries(Tail(w), m, n, c, x, k)
    BY <1>1, <1>4, Moves
  <2> QED
    BY <1>1, <2>1 DEF Flows
<1>5. ASSUME w # <<>>, u = <<>>
      PROVE  Flows(Append(q, Head(w)), u, Tail(w), s, m, n, c, a, b)
  <2>1. Carries(w, m, n, c, i, k)
    BY <1>1, <1>2, <1>5
  <2>2. PICK x \in Nat : /\ Carries(Append(q, Head(w)), m, n, c, a, x)
                         /\ Carries(Tail(w), m, n, c, x, k)
    BY <1>1, <1>5, <2>1, Moves
  <2>3. Carries(u, m, n, c, x, x)
    BY <1>5, CarriesEmpty
  <2> QED
    BY <1>1, <2>2, <2>3 DEF Flows
<1>6. ASSUME s # <<>>, w = <<>>
      PROVE  Flows(q, Append(u, Head(s)), w, Tail(s), m, n, c, a, b)
  <2>1. Carries(s, m, n, c, j, b)
    BY <1>1, <1>2, <1>6
  <2>2. PICK x \in Nat : /\ Carries(Append(u, Head(s)), m, n, c, i, x)
                         /\ Carries(Tail(s), m, n, c, x, b)
    BY <1>1, <1>6, <2>1, Moves
  <2>3. Carries(w, m, n, c, x, x)
    BY <1>6, CarriesEmpty
  <2> QED
    BY <1>1, <2>2, <2>3 DEF Flows
<1>7. ASSUME s # <<>>, w = <<>>, u = <<>>
      PROVE  Flows(Append(q, Head(s)), u, w, Tail(s), m, n, c, a, b)
  <2>1. Carries(s, m, n, c, i, b)
    BY <1>1, <1>2, <1>7
  <2>2. PICK x \in Nat : /\ Carries(Append(q, Head(s)), m, n, c, a, x)
                         /\ Carries(Tail(s), m, n, c, x, b)
    BY <1>1, <1>7, <2>1, Moves
  <2>3. Carries(u, m, n, c, x, x) /\ Carries(w, m, n, c, x, x)
    BY <1>7, CarriesEmpty
  <2> QED
    BY <1>1, <2>2, <2>3 DEF Flows
<1>8. Flows(q \o u, <<>>, w, s, m, n, c, a, b)
  <2>1. Carries(q \o u, m, n, c, a, j) /\ Carries(<<>>, m, n, c, j, j)
    BY <1>1, CarriesConcat, CarriesEmpty
  <2> QED
    BY <1>1, <2>1 DEF Flows
<1> QED
  BY <1>3, <1>4, <1>5, <1>6, <1>7, <1>8

\* Messages of others come and go without effect.
LEMMA FlowsOther ==
    ASSUME NEW q \in Seq(Messages), NEW u \in Seq(Messages), NEW w \in Seq(Messages),
           NEW s \in Seq(Messages), NEW m, NEW n, NEW c, NEW a \in Nat, NEW b \in Nat,
           Flows(q, u, w, s, m, n, c, a, b)
    PROVE  /\ s # <<>> /\ ~ IsFor(Head(s), m, n, c) => Flows(q, u, w, Tail(s), m, n, c, a, b)
           /\ w # <<>> /\ ~ IsFor(Head(w), m, n, c) => Flows(q, u, Tail(w), s, m, n, c, a, b)
           /\ \A e \in Messages : ~ IsFor(e, m, n, c) =>
                 /\ Flows(Append(q, e), u, w, s, m, n, c, a, b)
                 /\ Flows(q, Append(u, e), w, s, m, n, c, a, b)
<1>1. PICK i \in Nat, j \in Nat, k \in Nat :
         /\ Carries(q, m, n, c, a, i) /\ Carries(u, m, n, c, i, j)
         /\ Carries(w, m, n, c, j, k) /\ Carries(s, m, n, c, k, b)
  BY DEF Flows
<1>2. ASSUME s # <<>>, ~ IsFor(Head(s), m, n, c)
      PROVE  Flows(q, u, w, Tail(s), m, n, c, a, b)
  <2>1. Carries(Tail(s), m, n, c, k, b)
    BY <1>1, <1>2, CarriesTail
  <2> QED
    BY <1>1, <2>1 DEF Flows
<1>3. ASSUME w # <<>>, ~ IsFor(Head(w), m, n, c)
      PROVE  Flows(q, u, Tail(w), s, m, n, c, a, b)
  <2>1. Carries(Tail(w), m, n, c, j, k)
    BY <1>1, <1>3, CarriesTail
  <2> QED
    BY <1>1, <2>1 DEF Flows
<1>4. ASSUME NEW e \in Messages, ~ IsFor(e, m, n, c)
      PROVE  /\ Flows(Append(q, e), u, w, s, m, n, c, a, b)
             /\ Flows(q, Append(u, e), w, s, m, n, c, a, b)
  <2>1. Carries(Append(q, e), m, n, c, a, i) /\ Carries(Append(u, e), m, n, c, i, j)
    BY <1>1, <1>4, CarriesAppend
  <2> QED
    BY <1>1, <2>1 DEF Flows
<1> QED
  BY <1>2, <1>3, <1>4

\* Nor do many of them.
LEMMA FlowsOthers ==
    ASSUME NEW q \in Seq(Messages), NEW u \in Seq(Messages), NEW w \in Seq(Messages),
           NEW s \in Seq(Messages), NEW m, NEW n, NEW c, NEW a \in Nat, NEW b \in Nat,
           Flows(q, u, w, s, m, n, c, a, b),
           NEW t \in Seq(Messages), \A x \in DOMAIN t : ~ IsFor(t[x], m, n, c)
    PROVE  Flows(q \o t, u, w, s, m, n, c, a, b)
<1>1. PICK i \in Nat, j \in Nat, k \in Nat :
         /\ Carries(q, m, n, c, a, i) /\ Carries(u, m, n, c, i, j)
         /\ Carries(w, m, n, c, j, k) /\ Carries(s, m, n, c, k, b)
  BY DEF Flows
<1>2. Carries(t, m, n, c, i, i)
  BY CarriesNone
<1>3. Carries(q \o t, m, n, c, a, i)
  BY <1>1, <1>2, CarriesConcat
<1> QED
  BY <1>1, <1>3 DEF Flows

\* A queue without any of them can be left out.
LEMMA FlowsNone ==
    ASSUME NEW q \in Seq(Messages), NEW u \in Seq(Messages), NEW w \in Seq(Messages),
           NEW s \in Seq(Messages), NEW m, NEW n, NEW c, NEW a \in Nat, NEW b \in Nat,
           Flows(q, u, w, s, m, n, c, a, b), \A x \in DOMAIN q : ~ IsFor(q[x], m, n, c)
    PROVE  Flows(<<>>, u, w, s, m, n, c, a, b)
<1>1. PICK i \in Nat, j \in Nat, k \in Nat :
         /\ Carries(q, m, n, c, a, i) /\ Carries(u, m, n, c, i, j)
         /\ Carries(w, m, n, c, j, k) /\ Carries(s, m, n, c, k, b)
  BY DEF Flows
<1>2. a = i
  BY <1>1, CarriesNone
<1>3. Carries(<<>>, m, n, c, a, i)
  BY <1>2, CarriesEmpty
<1> QED
  BY <1>1, <1>3 DEF Flows

\* The oldest message is read.
LEMMA FlowsGot ==
    ASSUME NEW q \in Seq(Messages), NEW u \in Seq(Messages), NEW w \in Seq(Messages),
           NEW s \in Seq(Messages), NEW m, NEW n, NEW c, NEW a \in Nat, NEW b \in Nat,
           Flows(q, u, w, s, m, n, c, a, b), q # <<>>
    PROVE  /\ IsFor(Head(q), m, n, c) => /\ Head(q).num = a + 1 /\ a < b
                                         /\ Flows(Tail(q), u, w, s, m, n, c, a + 1, b)
           /\ ~ IsFor(Head(q), m, n, c) => Flows(Tail(q), u, w, s, m, n, c, a, b)
<1>1. PICK i \in Nat, j \in Nat, k \in Nat :
         /\ Carries(q, m, n, c, a, i) /\ Carries(u, m, n, c, i, j)
         /\ Carries(w, m, n, c, j, k) /\ Carries(s, m, n, c, k, b)
  BY DEF Flows
<1>2. i <= j /\ j <= k /\ k <= b
  BY <1>1 DEF Carries
<1>3. ASSUME IsFor(Head(q), m, n, c)
      PROVE  Head(q).num = a + 1 /\ a < i /\ Carries(Tail(q), m, n, c, a + 1, i)
  BY <1>1, <1>3, CarriesTail
<1>4. ASSUME ~ IsFor(Head(q), m, n, c) PROVE Carries(Tail(q), m, n, c, a, i)
  BY <1>1, <1>4, CarriesTail
<1>5. ASSUME IsFor(Head(q), m, n, c) PROVE Flows(Tail(q), u, w, s, m, n, c, a + 1, b)
  BY <1>1, <1>3, <1>5 DEF Flows
<1>6. ASSUME ~ IsFor(Head(q), m, n, c) PROVE Flows(Tail(q), u, w, s, m, n, c, a, b)
  BY <1>1, <1>4, <1>6 DEF Flows
<1> QED
  BY <1>2, <1>3, <1>5, <1>6

\* What is left, in the order of the way.
LEMMA FlowsCarry ==
    ASSUME NEW q \in Seq(Messages), NEW u \in Seq(Messages), NEW w \in Seq(Messages),
           NEW s \in Seq(Messages), NEW m, NEW n, NEW c, NEW a \in Nat, NEW b \in Nat,
           Flows(q, u, w, s, m, n, c, a, b)
    PROVE  /\ Carries(q \o u \o w \o s, m, n, c, a, b)
           /\ \A x \in DOMAIN q : IsFor(q[x], m, n, c) => a < b
           /\ a <= b
<1>1. PICK i \in Nat, j \in Nat, k \in Nat :
         /\ Carries(q, m, n, c, a, i) /\ Carries(u, m, n, c, i, j)
         /\ Carries(w, m, n, c, j, k) /\ Carries(s, m, n, c, k, b)
  BY DEF Flows
<1>2. a <= i /\ i <= j /\ j <= k /\ k <= b
  BY <1>1 DEF Carries
<1>3. Carries(q \o u, m, n, c, a, j) /\ q \o u \in Seq(Messages)
  BY <1>1, CarriesConcat, ConcatFacts
<1>4. Carries(q \o u \o w, m, n, c, a, k) /\ q \o u \o w \in Seq(Messages)
  BY <1>1, <1>3, CarriesConcat, ConcatFacts
<1>5. Carries(q \o u \o w \o s, m, n, c, a, b)
  BY <1>1, <1>4, CarriesConcat
<1>6. ASSUME NEW x \in DOMAIN q, IsFor(q[x], m, n, c) PROVE a < b
  <2>1. a < q[x].num /\ q[x].num <= i
    BY <1>1, <1>6, CarriesSome
  <2>2. q[x] \in Messages
    OBVIOUS
  <2>3. q[x].num \in Nat
    BY <2>2 DEF Messages
  <2> QED
    BY <1>2, <2>1, <2>3
<1> QED
  BY <1>2, <1>5, <1>6

-----------------------------------------------------------------------------
(* What the invariant says. *)

\* The names of the channels and the constants.
LEMMA Names ==
    /\ Sync # Work /\ Sync # Main /\ Work # Main
    /\ Sync \notin Txn /\ Work \notin Txn /\ Main \notin Txn
    /\ Sync \in Channel /\ Work \in Channel /\ Main \in Channel /\ Txn \subseteq Channel
    /\ \A c \in Channel : c \in {Sync, Work, Main} \/ c \in Txn
    /\ Sender \in Machine /\ MaxTxn \in Nat /\ NumMachines \in Nat \ {0}
BY MultiplexerAssumption DEF Channel

\* The types of the parts of the way.
LEMMA Types ==
    ASSUME TypeInv, NEW m \in Machine
    PROVE  /\ Channels(m) \subseteq Channel
           /\ \A c \in Channels(m) :
                 /\ channel_results_[m][c] = IF c \in Txn THEN Main ELSE c
                 /\ channel_results_[m][c] \in Channel
           /\ \A c \in Channel :
                 /\ queues[m][c] \in Seq(Messages)
                 /\ Arrived(m, c) \in Seq(Messages)
                 /\ undelivered_messages_[m][c] \in Seq(Messages)
           /\ send_message_queue_[m] \in Seq(Messages)
           /\ \A n \in Machine : wire[m][n] \in Seq(Messages)
           /\ \A n \in Machine, c \in Channel : received[m][n][c] \in Nat
<1>1. /\ Channels(m) \subseteq Channel
      /\ \A c \in Channels(m) : channel_results_[m][c] = IF c \in Txn THEN Main ELSE c
  BY DEF TypeInv, TypeOK
<1>2. /\ \A c \in Channel : /\ queues[m][c] \in Seq(Messages)
                            /\ undelivered_messages_[m][c] \in Seq(Messages)
      /\ send_message_queue_[m] \in Seq(Messages)
      /\ \A n \in Machine : wire[m][n] \in Seq(Messages)
      /\ \A n \in Machine, c \in Channel : received[m][n][c] \in Nat
  BY DEF TypeInv, TypeOK
<1>3. ASSUME NEW c \in Channel PROVE Arrived(m, c) \in Seq(Messages)
  <2>1. CASE c \in Channels(m)
    <3>1. channel_results_[m][c] \in Channel
      BY <2>1, <1>1, Names
    <3> QED
      BY <2>1, <3>1, <1>2 DEF Arrived
  <2>2. CASE c \notin Channels(m)
    BY <2>2 DEF Arrived
  <2> QED
    BY <2>1, <2>2
<1>4. ASSUME NEW c \in Channels(m) PROVE channel_results_[m][c] \in Channel
  BY <1>1, Names
<1> QED
  BY <1>1, <1>2, <1>3, <1>4

\* The cases of Sent, and its type.
LEMMA SentFacts ==
    ASSUME NEW m \in Machine, NEW n \in Machine
    PROVE  /\ Sent(m, n, Sync) = IF m # n /\ writer[m] \notin {"new", "creating"} THEN 1 ELSE 0
           /\ Sent(m, n, Work) = IF m = Sender THEN sent ELSE 0
           /\ Sent(m, n, Main) = 0
           /\ \A t \in Txn : Sent(m, n, t) = IF m # n /\ t \in Taken(m) THEN 1 ELSE 0
BY Names DEF Sent

LEMMA SentType ==
    ASSUME TypeInv, NEW m \in Machine, NEW n \in Machine, NEW c \in Channel
    PROVE  Sent(m, n, c) \in Nat
<1>1. sent \in Nat
  BY Names DEF TypeInv, TypeOK
<1> QED
  BY <1>1, SentFacts, Names

\* The transactions that were taken are the first ones.
LEMMA TxnFacts ==
    ASSUME TypeInv, TxnInv, NEW m \in Machine
    PROVE  /\ Took(m) \in Nat
           /\ Len(txns_queue_[m]) \in Nat
           /\ received[m][Sender][Work] \in Nat
           /\ Took(m) + Len(txns_queue_[m]) = received[m][Sender][Work]
           /\ DOMAIN txns_queue_[m] = 1..Len(txns_queue_[m])
           /\ Taken(m) = 1..Took(m)
<1>1. txns_queue_[m] \in Seq(Txn) /\ received[m][Sender][Work] \in Nat
  BY Names DEF TypeInv, TypeOK
<1>2. Len(txns_queue_[m]) \in Nat /\ DOMAIN txns_queue_[m] = 1..Len(txns_queue_[m])
  BY <1>1
<1>3. /\ Took(m) \in Nat
      /\ Took(m) + Len(txns_queue_[m]) = received[m][Sender][Work]
  BY <1>1, <1>2 DEF TxnInv, Took
<1>4. ASSUME NEW t \in 1..received[m][Sender][Work], t \notin 1..Took(m)
      PROVE  t \in ToSet(txns_queue_[m])
  <2>1. t - Took(m) \in 1..Len(txns_queue_[m]) /\ Took(m) + (t - Took(m)) = t
    BY <1>1, <1>2, <1>3, <1>4
  <2>2. txns_queue_[m][t - Took(m)] = t
    BY <2>1, <1>2 DEF TxnInv
  <2> QED
    BY <2>1, <2>2, <1>2 DEF ToSet
<1>5. ASSUME NEW t \in ToSet(txns_queue_[m]) PROVE t \notin 1..Took(m)
  <2>1. PICK i \in DOMAIN txns_queue_[m] : t = txns_queue_[m][i]
    BY <1>5 DEF ToSet
  <2>2. t = Took(m) + i /\ i >= 1 /\ i \in Nat
    BY <2>1, <1>2 DEF TxnInv
  <2> QED
    BY <2>2, <1>3
<1>6. 1..Took(m) \subseteq 1..received[m][Sender][Work]
  BY <1>1, <1>2, <1>3
<1> QED
  BY <1>1, <1>2, <1>3, <1>4, <1>5, <1>6 DEF Taken

\* A message in a queue was sent and not read.
LEMMA Unread ==
    ASSUME TypeInv, PlaceInv, FlowInv, NEW m \in Machine, NEW q \in Channel,
           NEW i \in DOMAIN queues[m][q]
    PROVE  LET msg == queues[m][q][i]
           IN  /\ msg \in Messages /\ Queued(m, q, msg)
               /\ Arrived(m, msg.channel) = queues[m][q]
               /\ received[m][msg.from][msg.channel] < Sent(msg.from, m, msg.channel)
<1> DEFINE msg == queues[m][q][i]
<1>1. msg \in Messages
  BY Types
<1>2. Queued(m, q, msg)
  BY DEF PlaceInv
<1>3. /\ msg.from \in Machine /\ msg.to = m /\ msg.channel \in Channel /\ msg.num \in Nat
      /\ msg.channel \in Channels(m) /\ channel_results_[m][msg.channel] = q
  BY <1>1, <1>2 DEF Messages, Queued
<1>4. Arrived(m, msg.channel) = queues[m][q]
  BY <1>3 DEF Arrived
<1> HIDE DEF msg
<1>5. PICK f \in Machine, c \in Channel : f = msg.from /\ c = msg.channel
  BY <1>3
<1>6. Flows(Arrived(m, c), undelivered_messages_[m][c], wire[f][m], send_message_queue_[f],
            f, m, c, received[m][f][c], Sent(f, m, c))
  BY DEF FlowInv
<1>7. IsFor(msg, f, m, c)
  BY <1>3, <1>5 DEF IsFor
<1>8. /\ Arrived(m, c) \in Seq(Messages) /\ undelivered_messages_[m][c] \in Seq(Messages)
      /\ wire[f][m] \in Seq(Messages) /\ send_message_queue_[f] \in Seq(Messages)
      /\ received[m][f][c] \in Nat /\ Sent(f, m, c) \in Nat
  BY Types, SentType
<1>9. \A x \in DOMAIN Arrived(m, c) :
          IsFor(Arrived(m, c)[x], f, m, c) => received[m][f][c] < Sent(f, m, c)
  BY <1>6, <1>8, FlowsCarry
<1>10. received[m][f][c] < Sent(f, m, c)
  <2>1. i \in DOMAIN Arrived(m, c) /\ Arrived(m, c)[i] = msg
    BY <1>4, <1>5 DEF msg
  <2> QED
    BY <2>1, <1>7, <1>9
<1> QED
  BY <1>1, <1>2, <1>4, <1>5, <1>10 DEF msg

\* Who goes on has read every message of the synchronization.
LEMMA SyncRead ==
    ASSUME TypeInv, PlaceInv, FlowInv, NEW m \in Machine,
           \A n \in Others(m) : received[m][n][Sync] > 0,
           NEW q \in Channel, NEW i \in DOMAIN queues[m][q]
    PROVE  queues[m][q][i].channel # Sync
<1> SUFFICES ASSUME queues[m][q][i].channel = Sync PROVE FALSE
  OBVIOUS
<1>1. PICK f \in Machine : f = queues[m][q][i].from
  BY Unread DEF Messages
<1>2. received[m][f][Sync] < Sent(f, m, Sync) /\ received[m][f][Sync] \in Nat
  <2>1. received[m][f][Sync] \in Nat
    BY Types, Names
  <2>2. received[m][queues[m][q][i].from][queues[m][q][i].channel]
           < Sent(queues[m][q][i].from, m, queues[m][q][i].channel)
    BY Unread
  <2> QED
    BY <1>1, <2>1, <2>2
<1>3. Sent(f, m, Sync) = 0 \/ (Sent(f, m, Sync) = 1 /\ f \in Others(m))
  BY SentFacts DEF Others
<1> QED
  BY <1>2, <1>3

\* So has the worker when a transaction is over.
LEMMA ResultsRead ==
    ASSUME TypeInv, PlaceInv, FlowInv, NEW m \in Machine, NEW t \in Txn,
           \A n \in Others(m) : received[m][n][t] > 0,
           NEW q \in Channel, NEW i \in DOMAIN queues[m][q]
    PROVE  queues[m][q][i].channel # t
<1> SUFFICES ASSUME queues[m][q][i].channel = t PROVE FALSE
  OBVIOUS
<1>1. PICK f \in Machine : f = queues[m][q][i].from
  BY Unread DEF Messages
<1>2. received[m][f][t] < Sent(f, m, t) /\ received[m][f][t] \in Nat
  <2>1. received[m][f][t] \in Nat
    BY Types, Names
  <2>2. received[m][queues[m][q][i].from][queues[m][q][i].channel]
           < Sent(queues[m][q][i].from, m, queues[m][q][i].channel)
    BY Unread
  <2> QED
    BY <1>1, <2>1, <2>2
<1>3. Sent(f, m, t) = 0 \/ (Sent(f, m, t) = 1 /\ f \in Others(m))
  BY SentFacts DEF Others
<1> QED
  BY <1>2, <1>3

\* What the four parts of the way carry, the way carries.
LEMMA ImpliesEachOnceInOrder == TypeInv /\ FlowInv => EachOnceInOrder
<1> SUFFICES ASSUME TypeInv, FlowInv, NEW m \in Machine, NEW n \in Machine, NEW c \in Channel
             PROVE  Carries(Way(m, n, c), m, n, c, received[n][m][c], Sent(m, n, c))
  BY DEF EachOnceInOrder
<1>1. Flows(Arrived(n, c), undelivered_messages_[n][c], wire[m][n], send_message_queue_[m],
            m, n, c, received[n][m][c], Sent(m, n, c))
  BY DEF FlowInv
<1>2. /\ Arrived(n, c) \in Seq(Messages) /\ undelivered_messages_[n][c] \in Seq(Messages)
      /\ wire[m][n] \in Seq(Messages) /\ send_message_queue_[m] \in Seq(Messages)
      /\ received[n][m][c] \in Nat /\ Sent(m, n, c) \in Nat
  BY Types, SentType
<1> QED
  BY <1>1, <1>2, FlowsCarry DEF Way

\* A result that can be read was not read, so that its transaction is not over.
LEMMA ImpliesResultsMeet == IInv => ResultsMeetTheirTxn
<1> SUFFICES ASSUME IInv, NEW m \in Machine, NEW i \in DOMAIN queues[m][Main]
             PROVE  queues[m][Main][i].channel \in active_txns[m]
  BY DEF ResultsMeetTheirTxn, ToSet
<1> USE DEF IInv
<1>1. PICK t : t = queues[m][Main][i].channel
  OBVIOUS
<1>2. queues[m][Main][i] \in Messages /\ Queued(m, Main, queues[m][Main][i])
  BY Unread, Names
<1>3. t \in Channels(m) /\ channel_results_[m][t] = Main
  BY <1>1, <1>2 DEF Queued
<1>4. t \in Txn \/ t = Main
  BY <1>3, Types
<1>5. t # Main
  <2>1. SUFFICES ASSUME t = Main PROVE FALSE
    OBVIOUS
  <2>2. PICK f \in Machine : f = queues[m][Main][i].from
    BY <1>2 DEF Messages
  <2>3. received[m][f][Main] \in Nat
    BY Types, Names
  <2>4. received[m][queues[m][Main][i].from][queues[m][Main][i].channel]
           < Sent(queues[m][Main][i].from, m, queues[m][Main][i].channel)
    BY Unread, Names
  <2>5. received[m][f][Main] < Sent(f, m, Main)
    BY <1>1, <2>1, <2>2, <2>4
  <2> QED
    BY <2>3, <2>5, SentFacts
<1>6. Linked(m, t)
  BY <1>4, <1>5 DEF LinkInv
<1>7. SUFFICES ASSUME t \notin active_txns[m] PROVE FALSE
  BY <1>1
<1>8. t \in Taken(m) \ active_txns[m]
  BY <1>3, <1>6, <1>7 DEF Linked
<1>9. \A n \in Others(m) : received[m][n][t] > 0
  BY <1>6, <1>8 DEF Linked
<1> QED
  BY <1>1, <1>4, <1>5, <1>9, ResultsRead, Names

\* Who was heard has made its channel, and deletes it only when it goes on itself.
LEMMA ImpliesStartTogether == IInv => StartTogether
<1> SUFFICES ASSUME IInv, NEW m \in Machine, writer[m] \in {"deleting", "started"},
                    NEW n \in Machine, writer[n] \notin {"deleting", "started"}
             PROVE  Sync \in Channels(n)
  BY DEF StartTogether
<1> USE DEF IInv
<1>1. n \in Others(m)
  BY DEF Others
<1>2. received[m][n][Sync] > 0
  BY <1>1 DEF HeardInv
<1>3. /\ Arrived(m, Sync) \in Seq(Messages) /\ undelivered_messages_[m][Sync] \in Seq(Messages)
      /\ wire[n][m] \in Seq(Messages) /\ send_message_queue_[n] \in Seq(Messages)
      /\ received[m][n][Sync] \in Nat /\ Sent(n, m, Sync) \in Nat
  BY Types, SentType, Names
<1>4. Flows(Arrived(m, Sync), undelivered_messages_[m][Sync], wire[n][m],
            send_message_queue_[n], n, m, Sync, received[m][n][Sync], Sent(n, m, Sync))
  BY Names DEF FlowInv
<1>5. received[m][n][Sync] <= Sent(n, m, Sync)
  BY <1>3, <1>4, FlowsCarry
<1>6. Sent(n, m, Sync) # 0
  BY <1>2, <1>3, <1>5
<1>7. writer[n] \notin {"new", "creating"}
  BY <1>6, SentFacts
<1>8. writer[n] = "collecting"
  BY <1>7 DEF TypeInv, TypeOK
<1> QED
  BY <1>8 DEF MakingInv, Making

-----------------------------------------------------------------------------
(* The initial state. *)

\* No channel, no message, no transaction.
LEMMA InitIsInductive == Init => IInv
<1> SUFFICES ASSUME Init PROVE IInv
  OBVIOUS
<1> USE DEF Init
<1>1. \A m \in Machine : Channels(m) = {}
  BY DEF Channels
<1>2. TypeInv
  <2>1. /\ <<>> \in Seq({Sync, Work, Main}) /\ <<>> \in Seq({Sync})
        /\ <<>> \in Seq([type : {"LINK_CHANNEL", "UNLINK_CHANNEL"}, channel : Txn])
        /\ <<>> \in Seq(Messages) /\ <<>> \in Seq(Txn)
    OBVIOUS
  <2>2. sent \in 0..MaxTxn
    BY Names
  <2> QED
    BY <1>1, <2>1, <2>2 DEF TypeInv, TypeOK
<1>3. MakingInv
  <2>1. ToSet(<<>>) = {} /\ IsInjective(<<>>)
    BY DEF ToSet, IsInjective
  <2> QED
    BY <1>1, <2>1, Names DEF MakingInv, Making, Asked
<1>4. PlaceInv
  BY DEF PlaceInv
<1>5. TxnInv
  BY <1>1, Names DEF TxnInv, Took
<1>6. HeardInv
  BY DEF HeardInv
<1>7. \A m \in Machine : Taken(m) = {}
  <2> SUFFICES ASSUME NEW m \in Machine PROVE Taken(m) = {}
    OBVIOUS
  <2>1. Taken(m) = 1..Took(m)
    BY <1>2, <1>5, TxnFacts
  <2>2. Took(m) = 0
    BY Names DEF Took
  <2> QED
    BY <2>1, <2>2
<1>8. FlowInv
  <2> SUFFICES ASSUME NEW m \in Machine, NEW n \in Machine, NEW c \in Channel
               PROVE  Flows(Arrived(n, c), undelivered_messages_[n][c], wire[m][n],
                            send_message_queue_[m], m, n, c, received[n][m][c], Sent(m, n, c))
    BY DEF FlowInv
  <2>1. /\ Arrived(n, c) = <<>> /\ undelivered_messages_[n][c] = <<>>
        /\ wire[m][n] = <<>> /\ send_message_queue_[m] = <<>> /\ received[n][m][c] = 0
    BY <1>1 DEF Arrived
  <2>2. Sent(m, n, c) = 0
    BY <1>7, SentFacts, Names
  <2>3. Carries(<<>>, m, n, c, 0, 0)
    BY CarriesEmpty
  <2> QED
    BY <2>1, <2>2, <2>3 DEF Flows
<1>9. LinkInv
  <2>1. ToSet(<<>>) = {} /\ IsInjective(<<>>)
    BY DEF ToSet, IsInjective
  <2> QED
    BY <1>1, <1>7, <2>1 DEF LinkInv, Linked, Wants
<1> QED
  BY <1>2, <1>3, <1>4, <1>5, <1>6, <1>8, <1>9 DEF IInv

-----------------------------------------------------------------------------
(* What a step leaves alone. *)

TookInv == \A m \in Machine : Took(m) \in Nat /\ Taken(m) = 1..Took(m)

\* TxnFacts, to be used before and after a step.
LEMMA TookFacts == TypeInv /\ TxnInv => TookInv
BY TxnFacts DEF TookInv

LEMMA TookThen == TypeInv' /\ TxnInv' => TookInv'
BY TookFacts, PTL

SameSent == \A m, n \in Machine, c \in Channel : Sent(m, n, c)' = Sent(m, n, c)

SentIs ==
    \A m, n \in Machine :
        /\ Sent(m, n, Sync) = IF m # n /\ writer[m] \notin {"new", "creating"} THEN 1 ELSE 0
        /\ Sent(m, n, Work) = IF m = Sender THEN sent ELSE 0
        /\ Sent(m, n, Main) = 0
        /\ \A t \in Txn : Sent(m, n, t) = IF m # n /\ t \in Taken(m) THEN 1 ELSE 0

\* SentFacts, likewise.
LEMMA SentNow == SentIs
BY SentFacts DEF SentIs

LEMMA SentThen == SentIs'
BY SentNow, PTL

\* Only a writer, the sequencer and a worker send.
LEMMA SentSame ==
    ASSUME sent' = sent, \A m \in Machine : Taken(m)' = Taken(m),
           \A m \in Machine :
              writer'[m] \in {"new", "creating"} <=> writer[m] \in {"new", "creating"}
    PROVE  SameSent
<1> SUFFICES ASSUME NEW m \in Machine, NEW n \in Machine, NEW c \in Channel
             PROVE  Sent(m, n, c)' = Sent(m, n, c)
  BY DEF SameSent
<1>1. CASE c = Sync
  BY <1>1, SentNow, SentThen DEF SentIs
<1>2. CASE c = Work
  BY <1>2, SentNow, SentThen DEF SentIs
<1>3. CASE c = Main
  BY <1>3, SentNow, SentThen DEF SentIs
<1>4. CASE c \in Txn
  BY <1>4, SentNow, SentThen DEF SentIs
<1> QED
  BY <1>1, <1>2, <1>3, <1>4, Names

\* No request, no channel and no thread changes.
LEMMA MakingSame ==
    ASSUME MakingInv, UNCHANGED <<new_channel_queue_, delete_channel_queue_, writer, scheduler>>,
           \A m \in Machine, c \in {Sync, Work, Main} : c \in Channels(m)' <=> c \in Channels(m)
    PROVE  MakingInv'
BY DEF MakingInv, Making, Asked

\* Only those of one machine do.
LEMMA MakingOthers ==
    ASSUME MakingInv, NEW m \in Machine, Making(m)',
           \A n \in Machine \ {m} :
              /\ new_channel_queue_'[n] = new_channel_queue_[n]
              /\ delete_channel_queue_'[n] = delete_channel_queue_[n]
              /\ writer'[n] = writer[n] /\ scheduler'[n] = scheduler[n]
              /\ Channels(n)' = Channels(n)
    PROVE  MakingInv'
<1>1. ASSUME NEW n \in Machine \ {m} PROVE Making(n)'
  BY <1>1 DEF MakingInv, Making, Asked
<1> QED
  BY <1>1 DEF MakingInv

\* No message moves.
LEMMA PlaceSame ==
    ASSUME PlaceInv, UNCHANGED <<queues, channel_results_, undelivered_messages_, wire,
                                 send_message_queue_>>
    PROVE  PlaceInv'
BY DEF PlaceInv, Queued, Channels

LEMMA FlowSame ==
    ASSUME FlowInv, SameSent,
           UNCHANGED <<queues, channel_results_, undelivered_messages_, wire,
                       send_message_queue_, received>>
    PROVE  FlowInv'
BY DEF FlowInv, SameSent, Arrived, Channels

\* No writer goes on, and what was heard stays heard.
LEMMA HeardSame ==
    ASSUME HeardInv, writer' = writer,
           \A m, n \in Machine : received[m][n][Sync] > 0 => received'[m][n][Sync] > 0
    PROVE  HeardInv'
BY DEF HeardInv, Others

\* No transaction is read or taken.
LEMMA TxnSame ==
    ASSUME TxnInv, txns_queue_' = txns_queue_,
           \A m \in Machine : received'[m][Sender][Work] = received[m][Sender][Work],
           \A m \in Machine : Main \in Channels(m) => Main \in Channels(m)'
    PROVE  TxnInv' /\ \A m \in Machine : Taken(m)' = Taken(m)
BY DEF TxnInv, Took, Taken

\* No transaction is taken or ends.
LEMMA LinkSame ==
    ASSUME LinkInv, UNCHANGED <<link_unlink_queue_, active_txns>>,
           \A m, n \in Machine, t \in Txn : received[m][n][t] > 0 => received'[m][n][t] > 0,
           \A m \in Machine : Taken(m)' = Taken(m),
           \A m \in Machine, t \in Txn : t \in Channels(m)' <=> t \in Channels(m)
    PROVE  LinkInv'
BY DEF LinkInv, Linked, Wants, Others

-----------------------------------------------------------------------------
(* The parts of the steps. *)

\* A channel is made, or linked to the main channel.
LEMMA ConnectFacts ==
    ASSUME TypeInv, PlaceInv, FlowInv, SameSent,
           NEW m \in Machine, NEW c \in Channel, c \notin Channels(m),
           NEW q \in Channel, q = IF c \in Txn THEN Main ELSE c,
           Connect(m, c, q), ForwardUndelivered(m, c, q),
           UNCHANGED <<wire, send_message_queue_, received>>
    PROVE  /\ DOMAIN channel_results_' = Machine
           /\ \A n \in Machine :
                 /\ Channels(n)' = IF n = m THEN Channels(m) \cup {c} ELSE Channels(n)
                 /\ \A d \in Channels(n)' :
                       channel_results_'[n][d] = IF d \in Txn THEN Main ELSE d
           /\ queues' \in [Machine -> [Channel -> Seq(Messages)]]
           /\ undelivered_messages_' \in [Machine -> [Channel -> Seq(Messages)]]
           /\ PlaceInv' /\ FlowInv'
<1>1. /\ DOMAIN channel_results_ = Machine
      /\ queues \in [Machine -> [Channel -> Seq(Messages)]]
      /\ undelivered_messages_ \in [Machine -> [Channel -> Seq(Messages)]]
  BY DEF TypeInv, TypeOK
<1>2. /\ DOMAIN channel_results_' = Machine
      /\ \A n \in Machine : n # m => channel_results_'[n] = channel_results_[n]
      /\ channel_results_'[m] = [d \in Channels(m) \cup {c} |->
                                    IF d = c THEN q ELSE channel_results_[m][d]]
  BY <1>1 DEF Connect
<1>3. \A n \in Machine :
          /\ Channels(n)' = IF n = m THEN Channels(m) \cup {c} ELSE Channels(n)
          /\ \A d \in Channels(n) : channel_results_'[n][d] = channel_results_[n][d]
  BY <1>2 DEF Channels
<1>4. c \in Channels(m)' /\ channel_results_'[m][c] = q
  BY <1>2, <1>3
<1>5. \A n \in Machine : \A d \in Channels(n)' :
          channel_results_'[n][d] = IF d \in Txn THEN Main ELSE d
  <2> SUFFICES ASSUME NEW n \in Machine, NEW d \in Channels(n)'
               PROVE  channel_results_'[n][d] = IF d \in Txn THEN Main ELSE d
    OBVIOUS
  <2>1. CASE n = m /\ d = c
    BY <2>1, <1>4
  <2>2. CASE d \in Channels(n)
    BY <2>2, <1>3, Types
  <2> QED
    BY <2>1, <2>2, <1>3
<1>6. /\ queues[m][q] \in Seq(Messages)
      /\ undelivered_messages_[m][c] \in Seq(Messages)
      /\ queues[m][q] \o undelivered_messages_[m][c] \in Seq(Messages)
  BY <1>1, ConcatFacts
<1>7. /\ \A n \in Machine, d \in Channel :
            queues'[n][d] = IF n = m /\ d = q THEN queues[m][q] \o undelivered_messages_[m][c]
                            ELSE queues[n][d]
      /\ \A n \in Machine, d \in Channel :
            undelivered_messages_'[n][d] = IF n = m /\ d = c THEN <<>>
                                           ELSE undelivered_messages_[n][d]
  BY <1>1 DEF ForwardUndelivered
<1>8. /\ queues' \in [Machine -> [Channel -> Seq(Messages)]]
      /\ undelivered_messages_' \in [Machine -> [Channel -> Seq(Messages)]]
  BY <1>1, <1>6 DEF ForwardUndelivered
<1>9. \A x \in DOMAIN undelivered_messages_[m][c] :
          /\ undelivered_messages_[m][c][x].to = m
          /\ undelivered_messages_[m][c][x].channel = c
  BY DEF PlaceInv
<1>10. PlaceInv'
  <2>1. ASSUME NEW n \in Machine, NEW d \in Channel, NEW x \in DOMAIN queues'[n][d]
        PROVE  /\ queues'[n][d][x].to = n
               /\ queues'[n][d][x].channel \in Channels(n)'
               /\ channel_results_'[n][queues'[n][d][x].channel] = d
    <3>1. CASE n = m /\ d = q
      <4>1. PICK r : r = queues[m][q] \o undelivered_messages_[m][c]
        OBVIOUS
      <4>2. queues'[n][d] = r /\ x \in DOMAIN r
        BY <1>7, <2>1, <3>1, <4>1
      <4>3. \/ x \in DOMAIN queues[m][q] /\ r[x] = queues[m][q][x]
            \/ \E l \in DOMAIN undelivered_messages_[m][c] :
                  r[x] = undelivered_messages_[m][c][l]
        <5>1. PICK s \in Seq(Messages), t \in Seq(Messages) :
                 s = queues[m][q] /\ t = undelivered_messages_[m][c]
          BY <1>6
        <5>2. r = s \o t
          BY <4>1, <5>1
        <5>3. (x \in DOMAIN s /\ r[x] = s[x]) \/ \E l \in DOMAIN t : r[x] = t[l]
          BY <4>2, <5>2, ConcatElement
        <5> QED
          BY <5>1, <5>3
      <4>4. CASE x \in DOMAIN queues[m][q] /\ r[x] = queues[m][q][x]
        <5>1. Queued(m, q, queues[m][q][x])
          BY <4>4 DEF PlaceInv
        <5> QED
          BY <5>1, <4>2, <4>4, <1>3, <3>1 DEF Queued
      <4>5. CASE \E l \in DOMAIN undelivered_messages_[m][c] :
                    r[x] = undelivered_messages_[m][c][l]
        BY <4>2, <4>5, <1>4, <1>9, <3>1
      <4> QED
        BY <4>3, <4>4, <4>5
    <3>2. CASE ~ (n = m /\ d = q)
      <4>1. queues'[n][d] = queues[n][d]
        BY <1>7, <3>2
      <4>2. Queued(n, d, queues[n][d][x])
        BY <2>1, <4>1 DEF PlaceInv
      <4> QED
        BY <4>1, <4>2, <1>3 DEF Queued
    <3> QED
      BY <3>1, <3>2
  <2>2. ASSUME NEW n \in Machine, NEW d \in Channel, NEW x \in DOMAIN undelivered_messages_'[n][d]
        PROVE  /\ undelivered_messages_'[n][d][x].to = n
               /\ undelivered_messages_'[n][d][x].channel = d
               /\ d \notin Channels(n)'
    <3>1. ~ (n = m /\ d = c)
      BY <1>7, <2>2
    <3>2. undelivered_messages_'[n][d] = undelivered_messages_[n][d]
      BY <1>7, <3>1
    <3> QED
      BY <1>3, <2>2, <3>1, <3>2 DEF PlaceInv
  <2> QED
    BY <2>1, <2>2 DEF PlaceInv, Queued
<1>11. FlowInv'
  <2> SUFFICES ASSUME NEW f \in Machine, NEW n \in Machine, NEW d \in Channel
               PROVE  Flows(Arrived(n, d)', undelivered_messages_'[n][d], wire'[f][n],
                            send_message_queue_'[f], f, n, d, received'[n][f][d],
                            Sent(f, n, d)')
    BY DEF FlowInv
  <2> DEFINE a == received[n][f][d]
             b == Sent(f, n, d)
  <2>1. /\ Arrived(n, d) \in Seq(Messages) /\ undelivered_messages_[n][d] \in Seq(Messages)
        /\ wire[f][n] \in Seq(Messages) /\ send_message_queue_[f] \in Seq(Messages)
        /\ a \in Nat /\ b \in Nat
    BY Types, SentType
  <2>2. Flows(Arrived(n, d), undelivered_messages_[n][d], wire[f][n], send_message_queue_[f],
              f, n, d, a, b)
    BY DEF FlowInv
  <2>3. Sent(f, n, d)' = b /\ received'[n][f][d] = a
    BY DEF SameSent
  <2> HIDE DEF a, b
  <2>4. CASE n = m /\ d = c
    <3>1. Arrived(n, d) = <<>>
      BY <2>4 DEF Arrived
    <3>2. Arrived(n, d)' = queues[m][q] \o undelivered_messages_[m][c]
      BY <2>4, <1>4, <1>7 DEF Arrived
    <3>3. \A x \in DOMAIN queues[m][q] : ~ IsFor(queues[m][q][x], f, m, c)
      BY DEF PlaceInv, Queued, IsFor
    <3>4. Flows(<<>> \o queues[m][q], undelivered_messages_[m][c], wire[f][n],
                send_message_queue_[f], f, n, d, a, b)
      BY <2>1, <2>2, <2>4, <3>1, <3>3, <1>6, FlowsOthers
    <3>5. <<>> \o queues[m][q] = queues[m][q]
      BY <1>6, ConcatEmptySeq
    <3>6. Flows(queues[m][q] \o undelivered_messages_[m][c], <<>>, wire[f][n],
                send_message_queue_[f], f, n, d, a, b)
      BY <2>1, <1>6, <3>4, <3>5, FlowsMove
    <3> QED
      BY <2>3, <2>4, <3>2, <3>6, <1>7
  <2>5. CASE ~ (n = m /\ d = c)
    <3>1. undelivered_messages_'[n][d] = undelivered_messages_[n][d]
      BY <1>7, <2>5
    <3>2. \/ Arrived(n, d)' = Arrived(n, d)
          \/ n = m /\ Arrived(n, d)' = Arrived(n, d) \o undelivered_messages_[m][c]
      <4>1. d \in Channels(n)' <=> d \in Channels(n)
        BY <1>3, <2>5
      <4>2. d \in Channels(n) => /\ channel_results_'[n][d] = channel_results_[n][d]
                                 /\ channel_results_[n][d] \in Channel
        BY <1>3, Types
      <4>3. CASE d \in Channels(n)
        <5>1. PICK e \in Channel : e = channel_results_[n][d]
          BY <4>2, <4>3
        <5>2. Arrived(n, d) = queues[n][e] /\ Arrived(n, d)' = queues'[n][e]
          BY <4>1, <4>2, <4>3, <5>1 DEF Arrived
        <5>3. queues'[n][e] = IF n = m /\ e = q
                              THEN queues[m][q] \o undelivered_messages_[m][c]
                              ELSE queues[n][e]
          BY <1>7
        <5>4. CASE n = m /\ e = q
          BY <5>2, <5>3, <5>4
        <5>5. CASE ~ (n = m /\ e = q)
          BY <5>2, <5>3, <5>5
        <5> QED
          BY <5>4, <5>5
      <4>4. CASE d \notin Channels(n)
        BY <4>1, <4>4 DEF Arrived
      <4> QED
        BY <4>3, <4>4
    <3>3. n = m => \A x \in DOMAIN undelivered_messages_[m][c] :
                      ~ IsFor(undelivered_messages_[m][c][x], f, n, d)
      BY <1>9, <2>5 DEF IsFor
    <3>4. Flows(Arrived(n, d)', undelivered_messages_[n][d], wire[f][n],
                send_message_queue_[f], f, n, d, a, b)
      <4>1. CASE Arrived(n, d)' = Arrived(n, d)
        BY <2>2, <4>1
      <4>2. CASE n = m /\ Arrived(n, d)' = Arrived(n, d) \o undelivered_messages_[m][c]
        <5>1. PICK t : t = undelivered_messages_[m][c]
          OBVIOUS
        <5>2. t \in Seq(Messages) /\ \A x \in DOMAIN t : ~ IsFor(t[x], f, n, d)
          BY <1>6, <3>3, <4>2, <5>1
        <5>3. Flows(Arrived(n, d) \o t, undelivered_messages_[n][d], wire[f][n],
                    send_message_queue_[f], f, n, d, a, b)
          BY <2>1, <2>2, <5>2, FlowsOthers
        <5> QED
          BY <4>2, <5>1, <5>3
      <4> QED
        BY <3>2, <4>1, <4>2
    <3> QED
      BY <2>3, <3>1, <3>4
  <2> QED
    BY <2>4, <2>5
<1> QED
  BY <1>2, <1>3, <1>5, <1>8, <1>10, <1>11

\* A channel without messages is taken away.
LEMMA DisconnectFacts ==
    ASSUME TypeInv, PlaceInv, FlowInv, SameSent,
           NEW m \in Machine, NEW c \in Channel, c \in Channels(m),
           \A q \in Channel : \A i \in DOMAIN queues[m][q] : queues[m][q][i].channel # c,
           Disconnect(m, c),
           UNCHANGED <<queues, undelivered_messages_, wire, send_message_queue_, received>>
    PROVE  /\ DOMAIN channel_results_' = Machine
           /\ \A n \in Machine :
                 /\ Channels(n)' = IF n = m THEN Channels(m) \ {c} ELSE Channels(n)
                 /\ \A d \in Channels(n)' :
                       channel_results_'[n][d] = IF d \in Txn THEN Main ELSE d
           /\ PlaceInv' /\ FlowInv'
<1>1. DOMAIN channel_results_ = Machine
  BY DEF TypeInv
<1>2. /\ DOMAIN channel_results_' = Machine
      /\ \A n \in Machine : n # m => channel_results_'[n] = channel_results_[n]
      /\ channel_results_'[m] = [d \in Channels(m) \ {c} |-> channel_results_[m][d]]
  BY <1>1 DEF Disconnect
<1>3. \A n \in Machine :
          /\ Channels(n)' = IF n = m THEN Channels(m) \ {c} ELSE Channels(n)
          /\ \A d \in Channels(n)' : channel_results_'[n][d] = channel_results_[n][d]
  BY <1>2 DEF Channels
<1>4. \A n \in Machine : \A d \in Channels(n)' :
          channel_results_'[n][d] = IF d \in Txn THEN Main ELSE d
  BY <1>3, Types
<1>5. PlaceInv'
  <2>1. ASSUME NEW n \in Machine, NEW d \in Channel, NEW x \in DOMAIN queues'[n][d]
        PROVE  /\ queues'[n][d][x].to = n
               /\ queues'[n][d][x].channel \in Channels(n)'
               /\ channel_results_'[n][queues'[n][d][x].channel] = d
    <3>1. Queued(n, d, queues[n][d][x])
      BY <2>1 DEF PlaceInv
    <3>2. n = m => queues[n][d][x].channel # c
      BY <2>1
    <3> QED
      BY <3>1, <3>2, <1>3 DEF Queued
  <2>2. ASSUME NEW n \in Machine, NEW d \in Channel, NEW x \in DOMAIN undelivered_messages_'[n][d]
        PROVE  /\ undelivered_messages_'[n][d][x].to = n
               /\ undelivered_messages_'[n][d][x].channel = d
               /\ d \notin Channels(n)'
    BY <2>2, <1>3 DEF PlaceInv
  <2> QED
    BY <2>1, <2>2 DEF PlaceInv, Queued
<1>6. FlowInv'
  <2> SUFFICES ASSUME NEW f \in Machine, NEW n \in Machine, NEW d \in Channel
               PROVE  Flows(Arrived(n, d)', undelivered_messages_'[n][d], wire'[f][n],
                            send_message_queue_'[f], f, n, d, received'[n][f][d],
                            Sent(f, n, d)')
    BY DEF FlowInv
  <2> DEFINE a == received[n][f][d]
             b == Sent(f, n, d)
  <2>1. /\ Arrived(n, d) \in Seq(Messages) /\ undelivered_messages_[n][d] \in Seq(Messages)
        /\ wire[f][n] \in Seq(Messages) /\ send_message_queue_[f] \in Seq(Messages)
        /\ a \in Nat /\ b \in Nat
    BY Types, SentType
  <2>2. Flows(Arrived(n, d), undelivered_messages_[n][d], wire[f][n], send_message_queue_[f],
              f, n, d, a, b)
    BY DEF FlowInv
  <2>3. Sent(f, n, d)' = b /\ received'[n][f][d] = a
    BY DEF SameSent
  <2> HIDE DEF a, b
  <2>4. CASE n = m /\ d = c
    <3>1. Arrived(n, d)' = <<>>
      BY <1>3, <2>4 DEF Arrived
    <3>2. PICK q \in Channel : Arrived(n, d) = queues[m][q]
      BY <2>4, Types DEF Arrived
    <3>3. \A x \in DOMAIN Arrived(n, d) : ~ IsFor(Arrived(n, d)[x], f, n, d)
      BY <2>4, <3>2 DEF IsFor
    <3>4. Flows(<<>>, undelivered_messages_[n][d], wire[f][n], send_message_queue_[f],
                f, n, d, a, b)
      BY <2>1, <2>2, <3>3, FlowsNone
    <3> QED
      BY <2>3, <3>1, <3>4
  <2>5. CASE ~ (n = m /\ d = c)
    <3>1. Arrived(n, d)' = Arrived(n, d)
      <4>1. d \in Channels(n)' <=> d \in Channels(n)
        BY <1>3, <2>5
      <4> QED
        BY <4>1, <1>3 DEF Arrived
    <3> QED
      BY <2>2, <2>3, <3>1
  <2> QED
    BY <2>4, <2>5
<1> QED
  BY <1>2, <1>3, <1>4, <1>5, <1>6

\* A message gets to its channel, or is put by for it.
Gets(m, e, c) ==
    IF c = e.channel
    THEN \/ /\ undelivered_messages_[m][c] = <<>> /\ undelivered_messages_'[m][c] = <<>>
            /\ Arrived(m, c)' = Append(Arrived(m, c), e)
         \/ /\ undelivered_messages_'[m][c] = Append(undelivered_messages_[m][c], e)
            /\ Arrived(m, c)' = Arrived(m, c)
    ELSE /\ undelivered_messages_'[m][c] = undelivered_messages_[m][c]
         /\ \/ Arrived(m, c)' = Append(Arrived(m, c), e)
            \/ Arrived(m, c)' = Arrived(m, c)

\* What Deliver() does to the channels and the queues.
LEMMA DeliverFacts ==
    ASSUME TypeInv, PlaceInv, NEW m \in Machine, NEW e \in Messages, e.to = m, Deliver(m, e),
           UNCHANGED channel_results_
    PROVE  /\ queues' \in [Machine -> [Channel -> Seq(Messages)]]
           /\ undelivered_messages_' \in [Machine -> [Channel -> Seq(Messages)]]
           /\ \A n \in Machine, c \in Channel : n # m =>
                 /\ Arrived(n, c)' = Arrived(n, c)
                 /\ undelivered_messages_'[n][c] = undelivered_messages_[n][c]
           /\ \A c \in Channel : Gets(m, e, c)
           /\ \A n \in Machine, q \in Channel : \A i \in DOMAIN queues'[n][q] :
                 /\ queues'[n][q][i].to = n
                 /\ queues'[n][q][i].channel \in Channels(n)'
                 /\ channel_results_'[n][queues'[n][q][i].channel] = q
           /\ \A n \in Machine, c \in Channel : \A i \in DOMAIN undelivered_messages_'[n][c] :
                 /\ undelivered_messages_'[n][c][i].to = n
                 /\ undelivered_messages_'[n][c][i].channel = c
                 /\ c \notin Channels(n)'
<1>1. /\ queues \in [Machine -> [Channel -> Seq(Messages)]]
      /\ undelivered_messages_ \in [Machine -> [Channel -> Seq(Messages)]]
  BY DEF TypeInv, TypeOK
<1>2. e.channel \in Channel
  BY DEF Messages
<1>3. \A n \in Machine : Channels(n)' = Channels(n)
  BY DEF Channels
<1>4. \A n \in Machine, q \in Channel : \A i \in DOMAIN queues[n][q] : Queued(n, q, queues[n][q][i])
  BY DEF PlaceInv
<1>5. \A n \in Machine, c \in Channel : \A i \in DOMAIN undelivered_messages_[n][c] :
                 /\ undelivered_messages_[n][c][i].to = n
                 /\ undelivered_messages_[n][c][i].channel = c
                 /\ c \notin Channels(n)
  BY DEF PlaceInv
<1>6. CASE e.channel \in Channels(m)
  <2>1. PICK q \in Channel : q = channel_results_[m][e.channel]
    BY <1>6, Types
  <2>2. queues' = [queues EXCEPT ![m][q] = Append(@, e)] /\ UNCHANGED undelivered_messages_
    BY <1>6, <2>1 DEF Deliver
  <2>3. \A n \in Machine, d \in Channel :
            queues'[n][d] = IF n = m /\ d = q THEN Append(queues[m][q], e) ELSE queues[n][d]
    BY <1>1, <2>2
  <2>4. queues[m][q] \in Seq(Messages) /\ Append(queues[m][q], e) \in Seq(Messages)
    BY <1>1, AppendFacts
  <2>5. queues' \in [Machine -> [Channel -> Seq(Messages)]]
    BY <1>1, <2>2, <2>4
  <2>6. ASSUME NEW n \in Machine, NEW c \in Channel
        PROVE  Arrived(n, c)' = IF n = m /\ c \in Channels(m) /\ channel_results_[m][c] = q
                                THEN Append(Arrived(m, c), e) ELSE Arrived(n, c)
    <3>1. CASE c \notin Channels(n)
      BY <3>1, <1>3 DEF Arrived
    <3>2. CASE c \in Channels(n)
      <4>1. PICK d \in Channel : d = channel_results_[n][c]
        BY <3>2, Types
      <4>2. Arrived(n, c)' = queues'[n][d] /\ Arrived(n, c) = queues[n][d]
        BY <3>2, <4>1, <1>3 DEF Arrived
      <4> QED
        BY <3>2, <4>1, <4>2, <2>3
    <3> QED
      BY <3>1, <3>2
  <2>7. undelivered_messages_[m][e.channel] = <<>>
    <3>1. undelivered_messages_[m][e.channel] \in Seq(Messages)
      BY <1>1, <1>2
    <3>2. DOMAIN undelivered_messages_[m][e.channel] = {}
      BY <1>2, <1>5, <1>6
    <3> QED
      BY <3>1, <3>2, TailFacts
  <2>8. \A c \in Channel : Gets(m, e, c)
    BY <1>6, <2>1, <2>2, <2>6, <2>7 DEF Gets
  <2>9. ASSUME NEW n \in Machine, NEW d \in Channel, NEW i \in DOMAIN queues'[n][d]
        PROVE  /\ queues'[n][d][i].to = n
               /\ queues'[n][d][i].channel \in Channels(n)'
               /\ channel_results_'[n][queues'[n][d][i].channel] = d
    <3>1. \/ queues'[n][d][i] = e /\ n = m /\ d = q
          \/ i \in DOMAIN queues[n][d] /\ queues'[n][d][i] = queues[n][d][i]
      <4>1. CASE n = m /\ d = q
        <5>1. PICK s \in Seq(Messages) : s = queues[m][q]
          BY <2>4
        <5>2. queues'[n][d] = Append(s, e)
          BY <2>3, <4>1, <5>1
        <5>3. (i \in DOMAIN s /\ Append(s, e)[i] = s[i]) \/ Append(s, e)[i] = e
          BY <2>9, <5>2, AppendFacts
        <5>4. queues'[n][d][i] = Append(s, e)[i] /\ queues[n][d] = s
          BY <4>1, <5>1, <5>2
        <5> QED
          BY <4>1, <5>3, <5>4
      <4>2. CASE ~ (n = m /\ d = q)
        BY <4>2, <2>3, <2>9
      <4> QED
        BY <4>1, <4>2
    <3>2. CASE queues'[n][d][i] = e /\ n = m /\ d = q
      BY <3>2, <1>3, <1>6, <2>1
    <3>3. CASE i \in DOMAIN queues[n][d] /\ queues'[n][d][i] = queues[n][d][i]
      BY <3>3, <1>3, <1>4 DEF Queued
    <3> QED
      BY <3>1, <3>2, <3>3
  <2>10. \A n \in Machine, c \in Channel : n # m =>
             /\ Arrived(n, c)' = Arrived(n, c)
             /\ undelivered_messages_'[n][c] = undelivered_messages_[n][c]
    BY <2>2, <2>6
  <2>11. \A n \in Machine, c \in Channel : \A i \in DOMAIN undelivered_messages_'[n][c] :
             /\ undelivered_messages_'[n][c][i].to = n
             /\ undelivered_messages_'[n][c][i].channel = c
             /\ c \notin Channels(n)'
    BY <1>3, <1>5, <2>2
  <2>12. undelivered_messages_' \in [Machine -> [Channel -> Seq(Messages)]]
    BY <1>1, <2>2
  <2> QED
    BY <2>5, <2>8, <2>9, <2>10, <2>11, <2>12
<1>7. CASE e.channel \notin Channels(m)
  <2>1. PICK q \in Channel : q = e.channel
    BY <1>2
  <2>2. /\ undelivered_messages_' = [undelivered_messages_ EXCEPT ![m][q] = Append(@, e)]
        /\ UNCHANGED queues
    BY <1>7, <2>1 DEF Deliver
  <2>3. \A n \in Machine, d \in Channel :
            undelivered_messages_'[n][d] =
                IF n = m /\ d = q THEN Append(undelivered_messages_[m][q], e)
                ELSE undelivered_messages_[n][d]
    BY <1>1, <2>2
  <2>4. /\ undelivered_messages_[m][q] \in Seq(Messages)
        /\ Append(undelivered_messages_[m][q], e) \in Seq(Messages)
    BY <1>1, AppendFacts
  <2>5. undelivered_messages_' \in [Machine -> [Channel -> Seq(Messages)]]
    BY <1>1, <2>2, <2>4
  <2>6. \A n \in Machine, c \in Channel : Arrived(n, c)' = Arrived(n, c)
    BY <1>3, <2>2 DEF Arrived
  <2>7. \A c \in Channel : Gets(m, e, c)
    BY <2>1, <2>3, <2>6 DEF Gets
  <2>8. ASSUME NEW n \in Machine, NEW d \in Channel, NEW i \in DOMAIN undelivered_messages_'[n][d]
        PROVE  /\ undelivered_messages_'[n][d][i].to = n
               /\ undelivered_messages_'[n][d][i].channel = d
               /\ d \notin Channels(n)'
    <3>1. \/ undelivered_messages_'[n][d][i] = e /\ n = m /\ d = q
          \/ /\ i \in DOMAIN undelivered_messages_[n][d]
             /\ undelivered_messages_'[n][d][i] = undelivered_messages_[n][d][i]
      <4>1. CASE n = m /\ d = q
        <5>1. PICK s \in Seq(Messages) : s = undelivered_messages_[m][q]
          BY <2>4
        <5>2. undelivered_messages_'[n][d] = Append(s, e)
          BY <2>3, <4>1, <5>1
        <5>3. (i \in DOMAIN s /\ Append(s, e)[i] = s[i]) \/ Append(s, e)[i] = e
          BY <2>8, <5>2, AppendFacts
        <5> QED
          BY <4>1, <5>1, <5>2, <5>3
      <4>2. CASE ~ (n = m /\ d = q)
        BY <4>2, <2>3, <2>8
      <4> QED
        BY <4>1, <4>2
    <3>2. CASE undelivered_messages_'[n][d][i] = e /\ n = m /\ d = q
      BY <3>2, <1>3, <1>7, <2>1
    <3>3. CASE /\ i \in DOMAIN undelivered_messages_[n][d]
               /\ undelivered_messages_'[n][d][i] = undelivered_messages_[n][d][i]
      BY <3>3, <1>3, <1>5
    <3> QED
      BY <3>1, <3>2, <3>3
  <2> QED
    BY <1>1, <1>3, <1>4, <2>2, <2>3, <2>5, <2>6, <2>7, <2>8 DEF Queued
<1> QED
  BY <1>6, <1>7

\* The next message of c at m is e, from f to d.
Got(m, c, f, d, e) ==
    /\ e \in Messages /\ IsFor(e, f, m, d) /\ e = NextMessage(m, c)
    /\ c \in Channels(m) /\ d \in Channels(m) /\ channel_results_[m][d] = channel_results_[m][c]
    /\ e.num = received[m][f][d] + 1
    /\ received[m][f][d] < Sent(f, m, d)
    /\ \A n, g \in Machine, b \in Channel :
          received'[n][g][b] = IF n = m /\ g = f /\ b = d THEN received[n][g][b] + 1
                               ELSE received[n][g][b]

\* What GotMessage() finds: the next message of its sender to its channel.
LEMMA GotFacts ==
    ASSUME TypeInv, PlaceInv, FlowInv, NEW m \in Machine, NEW c \in Channel, GotMessage(m, c),
           UNCHANGED <<channel_results_, undelivered_messages_, wire, send_message_queue_>>
    PROVE  /\ \E f \in Machine, d \in Channel, e \in Messages : Got(m, c, f, d, e)
           /\ queues' \in [Machine -> [Channel -> Seq(Messages)]]
           /\ received' \in [Machine -> [Machine -> [Channel -> Nat]]]
           /\ PlaceInv'
           /\ SameSent => FlowInv'
<1>1. /\ queues \in [Machine -> [Channel -> Seq(Messages)]]
      /\ received \in [Machine -> [Machine -> [Channel -> Nat]]]
  BY DEF TypeInv, TypeOK
<1>2. c \in Channels(m)
  BY DEF GotMessage, HasMessage
<1>3. PICK q \in Channel : q = channel_results_[m][c]
  BY <1>2, Types
<1>4. PICK s \in Seq(Messages) : s = queues[m][q]
  BY <1>1
<1>5. s # <<>> /\ queues' = [queues EXCEPT ![m][q] = Tail(s)]
  BY <1>3, <1>4 DEF GotMessage, HasMessage
<1>6. /\ Head(s) \in Messages /\ Tail(s) \in Seq(Messages) /\ 1 \in DOMAIN s /\ Head(s) = s[1]
      /\ \A k \in DOMAIN Tail(s) : k + 1 \in DOMAIN s /\ Tail(s)[k] = s[k + 1]
  BY <1>5, TailFacts
<1>7. PICK e \in Messages : e = Head(s)
  BY <1>6
<1>8. e = NextMessage(m, c)
  BY <1>3, <1>4, <1>7 DEF NextMessage
<1>9. PICK f \in Machine, d \in Channel : f = e.from /\ d = e.channel
  BY DEF Messages
<1>10. e.to = m /\ d \in Channels(m) /\ channel_results_[m][d] = q
  <2>1. 1 \in DOMAIN queues[m][q] /\ queues[m][q][1] = e
    BY <1>4, <1>6, <1>7
  <2>2. Queued(m, q, e)
    BY <2>1 DEF PlaceInv
  <2> QED
    BY <2>2, <1>9 DEF Queued
<1>11. IsFor(e, f, m, d)
  BY <1>9, <1>10 DEF IsFor
<1>12. received' = [received EXCEPT ![m][f][d] = @ + 1]
  BY <1>8, <1>9 DEF GotMessage
<1>13. /\ received' \in [Machine -> [Machine -> [Channel -> Nat]]]
       /\ \A n, g \in Machine, b \in Channel :
             received'[n][g][b] = IF n = m /\ g = f /\ b = d THEN received[n][g][b] + 1
                                  ELSE received[n][g][b]
  <2>1. received[m][f] \in [Channel -> Nat] /\ received[m][f][d] \in Nat
    BY <1>1
  <2>2. PICK r : r = [received[m][f] EXCEPT ![d] = @ + 1]
    OBVIOUS
  <2>3. /\ r \in [Channel -> Nat]
        /\ \A b \in Channel : r[b] = IF b = d THEN received[m][f][b] + 1 ELSE received[m][f][b]
    BY <2>1, <2>2
  <2>4. PICK p : p = [received[m] EXCEPT ![f] = r]
    OBVIOUS
  <2>5. /\ p \in [Machine -> [Channel -> Nat]]
        /\ \A g \in Machine : p[g] = IF g = f THEN r ELSE received[m][g]
    BY <1>1, <2>3, <2>4
  <2>6. received' = [received EXCEPT ![m] = p]
    BY <1>12, <2>2, <2>4
  <2>7. /\ received' \in [Machine -> [Machine -> [Channel -> Nat]]]
        /\ \A n \in Machine : received'[n] = IF n = m THEN p ELSE received[n]
    BY <1>1, <2>5, <2>6
  <2>8. ASSUME NEW n \in Machine, NEW g \in Machine, NEW b \in Channel
        PROVE  received'[n][g][b] = IF n = m /\ g = f /\ b = d THEN received[n][g][b] + 1
                                    ELSE received[n][g][b]
    <3>1. CASE n # m
      BY <3>1, <2>7
    <3>2. CASE n = m /\ g # f
      BY <3>2, <2>5, <2>7
    <3>3. CASE n = m /\ g = f
      BY <3>3, <2>3, <2>5, <2>7
    <3> QED
      BY <3>1, <3>2, <3>3
  <2> QED
    BY <2>7, <2>8
<1>14. Arrived(m, d) = s
  BY <1>4, <1>10 DEF Arrived
<1>15. /\ s \in Seq(Messages) /\ undelivered_messages_[m][d] \in Seq(Messages)
       /\ wire[f][m] \in Seq(Messages) /\ send_message_queue_[f] \in Seq(Messages)
       /\ received[m][f][d] \in Nat /\ Sent(f, m, d) \in Nat
  BY Types, SentType
<1>16. Flows(s, undelivered_messages_[m][d], wire[f][m], send_message_queue_[f], f, m, d,
             received[m][f][d], Sent(f, m, d))
  BY <1>14 DEF FlowInv
<1>17. e.num = received[m][f][d] + 1 /\ received[m][f][d] < Sent(f, m, d)
  BY <1>5, <1>7, <1>11, <1>15, <1>16, FlowsGot
<1>18. Got(m, c, f, d, e)
  BY <1>2, <1>3, <1>8, <1>10, <1>11, <1>13, <1>17 DEF Got
<1>19. \A n \in Machine, b \in Channel :
           queues'[n][b] = IF n = m /\ b = q THEN Tail(s) ELSE queues[n][b]
  BY <1>1, <1>5
<1>20. queues' \in [Machine -> [Channel -> Seq(Messages)]]
  BY <1>1, <1>5, <1>6
<1>21. \A n \in Machine : Channels(n)' = Channels(n)
  BY DEF Channels
<1>22. PlaceInv'
  <2>1. ASSUME NEW n \in Machine, NEW b \in Channel, NEW x \in DOMAIN queues'[n][b]
        PROVE  /\ queues'[n][b][x].to = n
               /\ queues'[n][b][x].channel \in Channels(n)'
               /\ channel_results_'[n][queues'[n][b][x].channel] = b
    <3>1. CASE n = m /\ b = q
      <4>1. x + 1 \in DOMAIN s /\ queues'[n][b][x] = s[x + 1]
        BY <2>1, <3>1, <1>6, <1>19
      <4>2. Queued(m, q, s[x + 1])
        BY <4>1, <1>4 DEF PlaceInv
      <4> QED
        BY <3>1, <4>1, <4>2, <1>21 DEF Queued
    <3>2. CASE ~ (n = m /\ b = q)
      <4>1. x \in DOMAIN queues[n][b] /\ queues'[n][b][x] = queues[n][b][x]
        BY <2>1, <3>2, <1>19
      <4>2. Queued(n, b, queues[n][b][x])
        BY <4>1 DEF PlaceInv
      <4> QED
        BY <4>1, <4>2, <1>21 DEF Queued
    <3> QED
      BY <3>1, <3>2
  <2> QED
    BY <2>1, <1>21 DEF PlaceInv, Queued
<1>23. ASSUME SameSent PROVE FlowInv'
  <2> SUFFICES ASSUME NEW g \in Machine, NEW n \in Machine, NEW b \in Channel
               PROVE  Flows(Arrived(n, b)', undelivered_messages_'[n][b], wire'[g][n],
                            send_message_queue_'[g], g, n, b, received'[n][g][b],
                            Sent(g, n, b)')
    BY DEF FlowInv
  <2> DEFINE x == received[n][g][b]
             y == Sent(g, n, b)
  <2>1. /\ Arrived(n, b) \in Seq(Messages) /\ undelivered_messages_[n][b] \in Seq(Messages)
        /\ wire[g][n] \in Seq(Messages) /\ send_message_queue_[g] \in Seq(Messages)
        /\ x \in Nat /\ y \in Nat
    BY Types, SentType
  <2>2. Flows(Arrived(n, b), undelivered_messages_[n][b], wire[g][n], send_message_queue_[g],
              g, n, b, x, y)
    BY DEF FlowInv
  <2>3. Sent(g, n, b)' = y
    BY <1>23 DEF SameSent
  <2>4. received'[n][g][b] = IF n = m /\ g = f /\ b = d THEN x + 1 ELSE x
    BY <1>13
  <2> HIDE DEF x, y
  <2>5. CASE n = m /\ b \in Channels(m) /\ channel_results_[m][b] = q
    <3>1. Arrived(n, b) = s /\ Arrived(n, b)' = Tail(s)
      BY <2>5, <1>4, <1>19, <1>21 DEF Arrived
    <3>2. CASE g = f /\ b = d
      <4>1. IsFor(Head(s), g, n, b)
        BY <2>5, <3>2, <1>7, <1>11
      <4>2. Flows(Tail(s), undelivered_messages_[n][b], wire[g][n], send_message_queue_[g],
                  g, n, b, x + 1, y)
        BY <2>1, <2>2, <3>1, <4>1, <1>5, FlowsGot
      <4> QED
        BY <2>3, <2>4, <2>5, <3>1, <3>2, <4>2
    <3>3. CASE ~ (g = f /\ b = d)
      <4>1. ~ IsFor(Head(s), g, n, b)
        BY <3>3, <1>7, <1>11 DEF IsFor
      <4>2. Flows(Tail(s), undelivered_messages_[n][b], wire[g][n], send_message_queue_[g],
                  g, n, b, x, y)
        BY <2>1, <2>2, <3>1, <4>1, <1>5, FlowsGot
      <4> QED
        BY <2>3, <2>4, <3>1, <3>3, <4>2
    <3> QED
      BY <3>2, <3>3
  <2>6. CASE ~ (n = m /\ b \in Channels(m) /\ channel_results_[m][b] = q)
    <3>1. Arrived(n, b)' = Arrived(n, b)
      <4>1. CASE b \notin Channels(n)
        BY <4>1, <1>21 DEF Arrived
      <4>2. CASE b \in Channels(n)
        <5>1. PICK h \in Channel : h = channel_results_[n][b]
          BY <4>2, Types
        <5>2. queues'[n][h] = queues[n][h]
          BY <2>6, <4>2, <5>1, <1>19
        <5> QED
          BY <4>2, <5>1, <5>2, <1>21 DEF Arrived
      <4> QED
        BY <4>1, <4>2
    <3>2. ~ (n = m /\ g = f /\ b = d)
      BY <2>6, <1>10
    <3> QED
      BY <2>2, <2>3, <2>4, <3>1, <3>2
  <2> QED
    BY <2>5, <2>6
<1> QED
  BY <1>13, <1>18, <1>20, <1>22, <1>23

\* Sets of machines are finite.
LEMMA FiniteMachines ==
    ASSUME NEW S \in SUBSET Machine
    PROVE  IsFiniteSet(S) /\ Cardinality(S) \in Nat
<1>1. IsFiniteSet(Machine)
  BY Names, FS_Interval DEF Machine
<1> QED
  BY <1>1, FS_Subset, FS_CardinalityType

\* A loop over the machines gets to each of them once.
LEMMA AscendingFacts ==
    ASSUME NEW S \in SUBSET Machine, NEW order \in Ascending(S)
    PROVE  /\ Cardinality(S) \in Nat
           /\ order \in [1..Cardinality(S) -> S]
           /\ \A j, k \in 1..Cardinality(S) : order[j] = order[k] => j = k
           /\ \A n \in S : \E k \in 1..Cardinality(S) : order[k] = n
<1>1. IsFiniteSet(S) /\ Cardinality(S) \in Nat
  BY FiniteMachines
<1> DEFINE D == 1..Cardinality(S)
<1>2. /\ order \in [D -> S]
      /\ \A j, k \in D : j < k => order[j] < order[k]
  BY DEF Ascending
<1>3. ASSUME NEW j \in D, NEW k \in D, order[j] = order[k] PROVE j = k
  <2>1. order[j] \in Int /\ order[k] \in Int
    <3>1. \A x \in Machine : x \in Int
      BY Names DEF Machine
    <3>2. order[j] \in Machine /\ order[k] \in Machine
      BY <1>2
    <3> QED
      BY <3>1, <3>2
  <2>2. j \in Int /\ k \in Int
    BY <1>1
  <2> QED
    BY <1>2, <1>3, <2>1, <2>2
<1>4. Cardinality(D) = Cardinality(S)
  <2>1. Cardinality(D) = IF 1 > Cardinality(S) THEN 0 ELSE Cardinality(S) - 1 + 1
    BY <1>1, FS_Interval
  <2> QED
    BY <1>1, <2>1
<1> HIDE DEF D
<1>5. order \in Injection(D, S)
  BY <1>2, <1>3 DEF Injection, IsInjective
<1>6. order \in Surjection(D, S)
  BY <1>1, <1>4, <1>5, FS_Injection
<1>7. \A n \in S : \E k \in D : order[k] = n
  BY <1>6 DEF Surjection
<1> QED
  BY <1>1, <1>2, <1>3, <1>7 DEF D

\* A machine sends one message to each machine of S.
Sends(m, S, c, i) ==
    \A f, n \in Machine, d \in Channel :
        IF f = m /\ n \in S /\ d = c THEN Sent(f, n, d) = i - 1 /\ Sent(f, n, d)' = i
        ELSE Sent(f, n, d)' = Sent(f, n, d)

\* The messages of a loop over machines are the next ones to each of them.
LEMMA SendFacts ==
    ASSUME TypeInv, PlaceInv, FlowInv, NEW m \in Machine, NEW S \in SUBSET Machine,
           NEW c \in Channel, NEW i \in Nat \ {0}, Send(m, S, c, i), Sends(m, S, c, i),
           UNCHANGED <<channel_results_, queues, undelivered_messages_, wire, received>>
    PROVE  /\ send_message_queue_' \in [Machine -> Seq(Messages)]
           /\ PlaceInv' /\ FlowInv'
<1>1. send_message_queue_ \in [Machine -> Seq(Messages)]
  BY DEF TypeInv, TypeOK
<1>2. PICK order \in Ascending(S) :
         send_message_queue_' = [send_message_queue_ EXCEPT ![m] = @ \o
            [k \in 1..Cardinality(S) |-> Message(m, order[k], c, i)]]
  BY DEF Send
<1>3. PICK z : z = [k \in 1..Cardinality(S) |-> Message(m, order[k], c, i)]
  OBVIOUS
<1>4. /\ Cardinality(S) \in Nat
      /\ order \in [1..Cardinality(S) -> S]
      /\ \A j, k \in 1..Cardinality(S) : order[j] = order[k] => j = k
      /\ \A n \in S : \E k \in 1..Cardinality(S) : order[k] = n
  BY AscendingFacts
<1>5. /\ DOMAIN z = 1..Cardinality(S)
      /\ \A k \in DOMAIN z :
            /\ z[k] \in Messages /\ order[k] \in S
            /\ z[k].from = m /\ z[k].to = order[k] /\ z[k].channel = c /\ z[k].num = i
  BY <1>3, <1>4 DEF Message, Messages
<1>6. z \in Seq(Messages)
  <2>1. z \in [1..Cardinality(S) -> Messages]
    BY <1>3, <1>5
  <2> QED
    BY <1>4, <2>1
<1>7. /\ send_message_queue_' \in [Machine -> Seq(Messages)]
      /\ \A n \in Machine : send_message_queue_'[n] =
            IF n = m THEN send_message_queue_[m] \o z ELSE send_message_queue_[n]
  <2>1. send_message_queue_[m] \o z \in Seq(Messages)
    BY <1>1, <1>6, ConcatFacts
  <2> QED
    BY <1>1, <1>2, <1>3, <2>1
<1>8. PlaceInv'
  <2>1. ASSUME NEW n \in Machine, NEW x \in DOMAIN send_message_queue_'[n]
        PROVE  send_message_queue_'[n][x].from = n
    <3>1. CASE n = m
      <4>1. PICK s \in Seq(Messages) : s = send_message_queue_[m]
        BY <1>1
      <4>2. PICK r : r = s \o z
        OBVIOUS
      <4>3. send_message_queue_'[n] = r /\ x \in DOMAIN r
        BY <2>1, <3>1, <4>1, <4>2, <1>7
      <4>4. (x \in DOMAIN s /\ r[x] = s[x]) \/ \E l \in DOMAIN z : r[x] = z[l]
        BY <4>2, <4>3, <1>6, ConcatElement
      <4>5. \A k \in DOMAIN s : s[k].from = m
        BY <4>1 DEF PlaceInv
      <4> QED
        BY <3>1, <4>3, <4>4, <4>5, <1>5
    <3>2. CASE n # m
      <4>1. send_message_queue_'[n] = send_message_queue_[n]
        BY <3>2, <1>7
      <4> QED
        BY <2>1, <4>1 DEF PlaceInv
    <3> QED
      BY <3>1, <3>2
  <2>2. \A n \in Machine : Channels(n)' = Channels(n)
    BY DEF Channels
  <2> QED
    BY <2>1, <2>2 DEF PlaceInv, Queued
<1>9. FlowInv'
  <2> SUFFICES ASSUME NEW f \in Machine, NEW n \in Machine, NEW d \in Channel
               PROVE  Flows(Arrived(n, d)', undelivered_messages_'[n][d], wire'[f][n],
                            send_message_queue_'[f], f, n, d, received'[n][f][d],
                            Sent(f, n, d)')
    BY DEF FlowInv
  <2> DEFINE a == received[n][f][d]
             b == Sent(f, n, d)
  <2>1. /\ Arrived(n, d) \in Seq(Messages) /\ undelivered_messages_[n][d] \in Seq(Messages)
        /\ wire[f][n] \in Seq(Messages) /\ send_message_queue_[f] \in Seq(Messages)
        /\ a \in Nat /\ b \in Nat
    BY Types, SentType
  <2>2. Flows(Arrived(n, d), undelivered_messages_[n][d], wire[f][n], send_message_queue_[f],
              f, n, d, a, b)
    BY DEF FlowInv
  <2>3. Arrived(n, d)' = Arrived(n, d) /\ received'[n][f][d] = a
    BY DEF Arrived, Channels
  <2>4. IF f = m /\ n \in S /\ d = c THEN b = i - 1 /\ Sent(f, n, d)' = i
        ELSE Sent(f, n, d)' = b
    BY DEF Sends
  <2> HIDE DEF a, b
  <2>5. CASE f # m
    <3>1. send_message_queue_'[f] = send_message_queue_[f]
      BY <1>7, <2>5
    <3> QED
      BY <2>2, <2>3, <2>4, <2>5, <3>1
  <2>6. CASE f = m
    <3>1. PICK y \in Nat : y = Sent(f, n, d)' /\ Carries(z, f, n, d, b, y)
      <4>1. CASE n \in S /\ d = c
        <5>1. b = i - 1 /\ Sent(f, n, d)' = i /\ i \in Nat /\ i >= 1
          BY <2>4, <2>6, <4>1
        <5>2. \A x : x \in (b + 1)..i <=> x = i
          BY <5>1
        <5>3. \A k \in DOMAIN z : IsFor(z[k], f, n, d) <=> order[k] = n
          BY <1>5, <2>6, <4>1 DEF IsFor
        <5>4. \A k \in DOMAIN z : IsFor(z[k], f, n, d) => z[k].num \in (b + 1)..i
          BY <1>5, <5>2
        <5>5. \A x \in (b + 1)..i : \E k \in DOMAIN z : IsFor(z[k], f, n, d) /\ z[k].num = x
          BY <1>4, <1>5, <4>1, <5>2, <5>3
        <5>6. \A k, l \in DOMAIN z :
                 k < l /\ IsFor(z[k], f, n, d) /\ IsFor(z[l], f, n, d) => z[k].num < z[l].num
          <6>1. \A k, l \in DOMAIN z : order[k] = n /\ order[l] = n => k = l
            BY <1>4, <1>5
          <6>2. \A k \in DOMAIN z : ~ (k < k)
            BY <1>4, <1>5
          <6> QED
            BY <5>3, <6>1, <6>2
        <5>7. b <= i
          BY <5>1
        <5>8. Carries(z, f, n, d, b, i)
          BY <5>4, <5>5, <5>6, <5>7 DEF Carries
        <5> QED
          BY <5>1, <5>8
      <4>2. CASE ~ (n \in S /\ d = c)
        <5>1. Sent(f, n, d)' = b
          BY <2>4, <4>2
        <5>2. \A k \in DOMAIN z : ~ IsFor(z[k], f, n, d)
          BY <1>5, <4>2 DEF IsFor
        <5>3. Carries(z, f, n, d, b, b)
          BY <5>2, <1>6, <2>1, CarriesNone
        <5> QED
          BY <5>1, <5>3, <2>1
      <4> QED
        BY <4>1, <4>2
    <3>2. Flows(Arrived(n, d), undelivered_messages_[n][d], wire[f][n],
                send_message_queue_[f] \o z, f, n, d, a, y)
      BY <2>1, <2>2, <3>1, <1>6, FlowsSent
    <3>3. send_message_queue_'[f] = send_message_queue_[f] \o z
      BY <1>7, <2>6
    <3> QED
      BY <2>3, <3>1, <3>2, <3>3
  <2> QED
    BY <2>5, <2>6
<1> QED
  BY <1>7, <1>8, <1>9

-----------------------------------------------------------------------------
(* The steps of the multiplexer. *)

\* The first element of a queue of different elements is taken.
LEMMA TailSet ==
    ASSUME NEW T, NEW s \in Seq(T), s # <<>>, IsInjective(s)
    PROVE  /\ Head(s) \in T /\ Head(s) \in ToSet(s)
           /\ Tail(s) \in Seq(T) /\ IsInjective(Tail(s))
           /\ ToSet(Tail(s)) = ToSet(s) \ {Head(s)}
<1>1. /\ Head(s) \in T /\ Tail(s) \in Seq(T)
      /\ 1 \in DOMAIN s /\ Head(s) = s[1]
      /\ \A k \in DOMAIN Tail(s) : k + 1 \in DOMAIN s /\ Tail(s)[k] = s[k + 1]
      /\ \A k \in DOMAIN s : k = 1 \/ (k - 1 \in DOMAIN Tail(s) /\ Tail(s)[k - 1] = s[k])
  BY HeadTailProperties
<1>2. \A k \in DOMAIN Tail(s) : k \in Nat /\ k >= 1
  BY <1>1
<1>3. IsInjective(Tail(s))
  BY <1>1, <1>2 DEF IsInjective
<1>4. \A k \in DOMAIN Tail(s) : Tail(s)[k] # s[1]
  BY <1>1, <1>2 DEF IsInjective
<1>5. ASSUME NEW x \in ToSet(Tail(s)) PROVE x \in ToSet(s) /\ x # Head(s)
  <2>1. PICK k \in DOMAIN Tail(s) : x = Tail(s)[k]
    BY DEF ToSet
  <2>2. k + 1 \in DOMAIN s /\ x = s[k + 1] /\ x # s[1]
    BY <2>1, <1>1, <1>4
  <2> QED
    BY <2>2, <1>1 DEF ToSet
<1>6. ASSUME NEW x \in ToSet(s), x # Head(s) PROVE x \in ToSet(Tail(s))
  <2>1. PICK k \in DOMAIN s : x = s[k]
    BY DEF ToSet
  <2>2. k - 1 \in DOMAIN Tail(s) /\ Tail(s)[k - 1] = x
    BY <2>1, <1>1, <1>6
  <2> QED
    BY <2>2 DEF ToSet
<1>7. Head(s) \in ToSet(s)
  BY <1>1 DEF ToSet
<1> QED
  BY <1>1, <1>3, <1>5, <1>6, <1>7

\* An element is added to a queue.
LEMMA AppendSet ==
    ASSUME NEW T, NEW s \in Seq(T), NEW e \in T
    PROVE  /\ Append(s, e) \in Seq(T)
           /\ ToSet(Append(s, e)) = ToSet(s) \cup {e}
           /\ IsInjective(s) /\ e \notin ToSet(s) => IsInjective(Append(s, e))
<1>1. /\ Append(s, e) \in Seq(T)
      /\ Len(s) + 1 \in DOMAIN Append(s, e) /\ Append(s, e)[Len(s) + 1] = e
      /\ \A k \in DOMAIN s : k \in DOMAIN Append(s, e) /\ Append(s, e)[k] = s[k]
      /\ \A k \in DOMAIN Append(s, e) : k \in DOMAIN s \/ k = Len(s) + 1
  BY AppendProperties
<1> QED
  BY <1>1 DEF ToSet, IsInjective

\* The channel is not there, as it was asked for once: the loop goes on.
LEMMA CreateChannelPreserves ==
    ASSUME IInv, NEW m \in Machine, CreateChannel(m)
    PROVE  IInv'
<1> USE DEF IInv
<1>1. PICK s \in Seq({Sync, Work, Main}) : s = new_channel_queue_[m]
  BY DEF TypeInv, TypeOK
<1>2. Making(m)
  BY DEF MakingInv
<1>3. s # <<>> /\ IsInjective(s)
  BY <1>1, <1>2 DEF CreateChannel, Making
<1>4. PICK c \in {Sync, Work, Main} : c = Head(s)
  BY <1>3, TailSet
<1>5. /\ c \in ToSet(s) /\ Tail(s) \in Seq({Sync, Work, Main}) /\ IsInjective(Tail(s))
      /\ ToSet(Tail(s)) = ToSet(s) \ {c}
  BY <1>3, <1>4, TailSet
<1>6. Asked(m, c) /\ c \notin Channels(m)
  BY <1>1, <1>2, <1>5 DEF Making
<1>7. /\ new_channel_queue_' = [new_channel_queue_ EXCEPT ![m] = Tail(s)]
      /\ Connect(m, c, c) /\ ForwardUndelivered(m, c, c)
      /\ UNCHANGED running
      /\ UNCHANGED <<delete_channel_queue_, link_unlink_queue_, send_message_queue_, wire,
                     threads>>
  BY <1>1, <1>4, <1>6 DEF CreateChannel
<1>8. /\ UNCHANGED <<writer, scheduler, sent, txns_queue_, active_txns, received>>
      /\ UNCHANGED <<wire, send_message_queue_, delete_channel_queue_, link_unlink_queue_,
                     running>>
  BY <1>7 DEF threads
<1>9. c \in Channel /\ c \notin Txn
  BY Names
<1>10. \A n \in Machine : Taken(n)' = Taken(n)
  BY <1>8 DEF Taken
<1>11. SameSent
  BY <1>8, <1>10, SentSame
<1>12. /\ DOMAIN channel_results_' = Machine
       /\ \A n \in Machine :
             /\ Channels(n)' = IF n = m THEN Channels(m) \cup {c} ELSE Channels(n)
             /\ \A d \in Channels(n)' : channel_results_'[n][d] = IF d \in Txn THEN Main ELSE d
       /\ queues' \in [Machine -> [Channel -> Seq(Messages)]]
       /\ undelivered_messages_' \in [Machine -> [Channel -> Seq(Messages)]]
       /\ PlaceInv' /\ FlowInv'
  BY <1>6, <1>7, <1>8, <1>9, <1>11, ConnectFacts
<1>13. new_channel_queue_' \in [Machine -> Seq({Sync, Work, Main})]
  BY <1>5, <1>7 DEF TypeInv, TypeOK
<1>14. /\ new_channel_queue_'[m] = Tail(s)
       /\ \A n \in Machine \ {m} : new_channel_queue_'[n] = new_channel_queue_[n]
  BY <1>7 DEF TypeInv, TypeOK
<1>15. TypeInv'
  <2>1. \A n \in Machine : Channels(n)' \subseteq Channel
    <3> SUFFICES ASSUME NEW n \in Machine PROVE Channels(n)' \subseteq Channel
      OBVIOUS
    <3>1. Channels(n)' = IF n = m THEN Channels(m) \cup {c} ELSE Channels(n)
      BY <1>12
    <3>2. Channels(n) \subseteq Channel /\ Channels(m) \subseteq Channel
      BY Types
    <3> QED
      BY <1>9, <3>1, <3>2
  <2> QED
    BY <1>8, <1>12, <1>13, <2>1 DEF TypeInv, TypeOK
<1>16. Making(m)'
  <2>1. IsInjective(new_channel_queue_'[m])
    BY <1>5, <1>14
  <2>2. \A d : Asked(m, d)' <=> Asked(m, d)
    BY <1>8 DEF Asked
  <2>3. \A d \in {Sync, Work, Main} :
            d \in ToSet(new_channel_queue_'[m]) <=> Asked(m, d)' /\ d \notin Channels(m)'
    BY <1>1, <1>2, <1>5, <1>12, <1>14, <2>2 DEF Making
  <2>4. /\ c = Sync => writer[m] = "creating"
        /\ c = Work => scheduler[m] \in {"work", "main"}
        /\ c = Main => scheduler[m] = "main"
    BY <1>6, Names DEF Asked
  <2> QED
    BY <1>2, <1>8, <1>12, <2>1, <2>3, <2>4, Names DEF Making
<1>17. MakingInv'
  BY <1>8, <1>12, <1>14, <1>16, MakingOthers
<1>18. HeardInv'
  BY <1>8, HeardSame
<1>19. TxnInv'
  BY <1>8, <1>12, TxnSame
<1>20. LinkInv'
  <2>1. ASSUME NEW n \in Machine, NEW t \in Txn PROVE t \in Channels(n)' <=> t \in Channels(n)
    <3>1. Channels(n)' = IF n = m THEN Channels(m) \cup {c} ELSE Channels(n)
      BY <1>12
    <3>2. t # c
      BY <1>9
    <3> QED
      BY <3>1, <3>2
  <2> QED
    BY <1>8, <1>10, <2>1, LinkSame
<1> QED
  BY <1>12, <1>15, <1>17, <1>18, <1>19, <1>20

\* All messages of the synchronization are read when its channel is deleted.
LEMMA RemoveChannelPreserves ==
    ASSUME IInv, NEW m \in Machine, RemoveChannel(m)
    PROVE  IInv'
<1> USE DEF IInv
<1>1. Making(m)
  BY DEF MakingInv
<1>2. /\ writer[m] = "deleting" /\ Sync \in Channels(m)
      /\ delete_channel_queue_[m] = <<Sync>>
  BY <1>1 DEF Making, RemoveChannel
<1>3. channel_results_[m][Sync] = Sync
  BY <1>2, Types, Names
<1>4. /\ delete_channel_queue_' = [delete_channel_queue_ EXCEPT ![m] = <<>>]
      /\ queues' = [queues EXCEPT ![m][Sync] = <<>>]
      /\ Disconnect(m, Sync)
  <2>1. Head(<<Sync>>) = Sync /\ Tail(<<Sync>>) = <<>>
    OBVIOUS
  <2> QED
    BY <1>2, <1>3, <2>1 DEF RemoveChannel
<1>5. /\ UNCHANGED <<writer, scheduler, sent, txns_queue_, active_txns, received>>
      /\ UNCHANGED <<wire, send_message_queue_, new_channel_queue_, link_unlink_queue_,
                     undelivered_messages_, running>>
  BY DEF RemoveChannel, threads
<1>6. \A q \in Channel : \A i \in DOMAIN queues[m][q] : queues[m][q][i].channel # Sync
  <2>1. \A n \in Others(m) : received[m][n][Sync] > 0
    BY <1>2 DEF HeardInv
  <2> QED
    BY <2>1, SyncRead
<1>7. queues[m][Sync] = <<>>
  <2>1. PICK s \in Seq(Messages) : s = queues[m][Sync]
    BY Types, Names
  <2>2. ASSUME NEW i \in DOMAIN s PROVE FALSE
    <3>1. Queued(m, Sync, s[i])
      BY <2>1, <2>2, Names DEF PlaceInv
    <3>2. s[i].channel # Sync
      BY <2>1, <2>2, <1>6, Names
    <3>3. PICK d \in Channels(m) : d = s[i].channel /\ channel_results_[m][d] = Sync
      BY <3>1 DEF Queued
    <3>4. channel_results_[m][d] = IF d \in Txn THEN Main ELSE d
      BY Types
    <3> QED
      BY <3>2, <3>3, <3>4, Names
  <2> QED
    BY <2>1, <2>2, TailFacts
<1>8. queues' = queues
  <2>1. queues \in [Machine -> [Channel -> Seq(Messages)]]
    BY DEF TypeInv, TypeOK
  <2>2. [queues[m] EXCEPT ![Sync] = <<>>] = queues[m]
    BY <2>1, <1>7
  <2> QED
    BY <2>1, <2>2, <1>4
<1>9. \A n \in Machine : Taken(n)' = Taken(n)
  BY <1>5 DEF Taken
<1>10. SameSent
  BY <1>5, <1>9, SentSame
<1>11. /\ DOMAIN channel_results_' = Machine
       /\ \A n \in Machine :
             /\ Channels(n)' = IF n = m THEN Channels(m) \ {Sync} ELSE Channels(n)
             /\ \A d \in Channels(n)' : channel_results_'[n][d] = IF d \in Txn THEN Main ELSE d
       /\ PlaceInv' /\ FlowInv'
  BY <1>2, <1>4, <1>5, <1>6, <1>8, <1>10, Names, DisconnectFacts
<1>12. /\ delete_channel_queue_' \in [Machine -> Seq({Sync})]
       /\ delete_channel_queue_'[m] = <<>>
       /\ \A n \in Machine \ {m} : delete_channel_queue_'[n] = delete_channel_queue_[n]
  <2>1. <<>> \in Seq({Sync})
    OBVIOUS
  <2> QED
    BY <2>1, <1>4 DEF TypeInv, TypeOK
<1>13. TypeInv'
  <2>1. \A n \in Machine : Channels(n)' \subseteq Channel
    BY <1>11, Types
  <2> QED
    BY <1>5, <1>8, <1>11, <1>12, <2>1 DEF TypeInv, TypeOK
<1>14. Making(m)'
  BY <1>1, <1>2, <1>5, <1>11, <1>12, Names DEF Making, Asked
<1>15. MakingInv'
  BY <1>5, <1>11, <1>12, <1>14, MakingOthers
<1>16. HeardInv'
  BY <1>5, HeardSame
<1>17. TxnInv'
  BY <1>5, <1>11, Names, TxnSame
<1>18. LinkInv'
  BY <1>5, <1>9, <1>11, Names, LinkSame
<1> QED
  BY <1>11, <1>13, <1>15, <1>16, <1>17, <1>18

\* A message of others gets to its channel.
LEMMA GetsOther ==
    ASSUME TypeInv, NEW m \in Machine, NEW e \in Messages, NEW f \in Machine, NEW d \in Channel,
           Gets(m, e, d), ~ IsFor(e, f, m, d),
           NEW w \in Seq(Messages), NEW s \in Seq(Messages), NEW a \in Nat, NEW b \in Nat,
           Flows(Arrived(m, d), undelivered_messages_[m][d], w, s, f, m, d, a, b)
    PROVE  Flows(Arrived(m, d)', undelivered_messages_'[m][d], w, s, f, m, d, a, b)
<1>1. Arrived(m, d) \in Seq(Messages) /\ undelivered_messages_[m][d] \in Seq(Messages)
  BY Types
<1>2. /\ Flows(Append(Arrived(m, d), e), undelivered_messages_[m][d], w, s, f, m, d, a, b)
      /\ Flows(Arrived(m, d), Append(undelivered_messages_[m][d], e), w, s, f, m, d, a, b)
  BY <1>1, FlowsOther
<1>3. \/ /\ undelivered_messages_'[m][d] = undelivered_messages_[m][d]
         /\ Arrived(m, d)' = Append(Arrived(m, d), e)
      \/ /\ undelivered_messages_'[m][d] = Append(undelivered_messages_[m][d], e)
         /\ Arrived(m, d)' = Arrived(m, d)
      \/ /\ undelivered_messages_'[m][d] = undelivered_messages_[m][d]
         /\ Arrived(m, d)' = Arrived(m, d)
  BY DEF Gets
<1>4. CASE /\ undelivered_messages_'[m][d] = undelivered_messages_[m][d]
           /\ Arrived(m, d)' = Append(Arrived(m, d), e)
  BY <1>2, <1>4
<1>5. CASE /\ undelivered_messages_'[m][d] = Append(undelivered_messages_[m][d], e)
           /\ Arrived(m, d)' = Arrived(m, d)
  BY <1>2, <1>5
<1>6. CASE /\ undelivered_messages_'[m][d] = undelivered_messages_[m][d]
           /\ Arrived(m, d)' = Arrived(m, d)
  BY <1>6
<1> QED
  BY <1>3, <1>4, <1>5, <1>6

\* Nothing is on its way from a machine to itself.
LEMMA SelfWire ==
    ASSUME TypeInv, PlaceInv, NEW m \in Machine
    PROVE  wire[m][m] = <<>>
<1>1. PICK s \in Seq(Messages) : s = wire[m][m]
  BY Types
<1>2. ASSUME NEW i \in DOMAIN s PROVE FALSE
  BY <1>1, <1>2 DEF PlaceInv
<1> QED
  BY <1>1, <1>2, TailFacts

\* The steps that only move messages.
LEMMA OnlyMessages ==
    ASSUME IInv, UNCHANGED <<requests, channel_results_, running, threads>>
    PROVE  /\ SameSent /\ MakingInv' /\ HeardInv' /\ TxnInv' /\ LinkInv'
           /\ /\ send_message_queue_' \in [Machine -> Seq(Messages)]
              /\ queues' \in [Machine -> [Channel -> Seq(Messages)]]
              /\ undelivered_messages_' \in [Machine -> [Channel -> Seq(Messages)]]
              /\ wire' \in [Machine -> [Machine -> Seq(Messages)]]
              => TypeInv'
<1> USE DEF IInv
<1>1. /\ UNCHANGED <<new_channel_queue_, delete_channel_queue_, link_unlink_queue_>>
      /\ UNCHANGED <<writer, scheduler, sent, txns_queue_, active_txns, received>>
      /\ UNCHANGED <<channel_results_, running>>
  BY DEF requests, threads
<1>2. \A n \in Machine : Taken(n)' = Taken(n) /\ Channels(n)' = Channels(n)
  BY <1>1 DEF Taken, Channels
<1>3. SameSent
  BY <1>1, <1>2, SentSame
<1>4. MakingInv'
  BY <1>1, <1>2, MakingSame
<1>5. HeardInv'
  BY <1>1, HeardSame
<1>6. TxnInv'
  BY <1>1, <1>2, TxnSame
<1>7. LinkInv'
  BY <1>1, <1>2, LinkSame
<1>8. ASSUME /\ send_message_queue_' \in [Machine -> Seq(Messages)]
             /\ queues' \in [Machine -> [Channel -> Seq(Messages)]]
             /\ undelivered_messages_' \in [Machine -> [Channel -> Seq(Messages)]]
             /\ wire' \in [Machine -> [Machine -> Seq(Messages)]]
      PROVE  TypeInv'
  <2>1. \A n \in Machine :
           /\ Channels(n)' \subseteq Channel
           /\ \A c \in Channels(n)' : channel_results_'[n][c] = IF c \in Txn THEN Main ELSE c
    BY <1>1, <1>2, Types
  <2>2. TypeOK'
    BY <1>1, <1>8, <2>1 DEF TypeInv, TypeOK
  <2> QED
    BY <1>1, <2>2 DEF TypeInv
<1> QED
  BY <1>3, <1>4, <1>5, <1>6, <1>7, <1>8

\* The oldest message of the wire goes on.
LEMMA ReceiveRemotePreserves ==
    ASSUME IInv, NEW m \in Machine, NEW n \in Machine, ReceiveRemote(m, n)
    PROVE  IInv'
<1> USE DEF IInv
<1>1. PICK w \in Seq(Messages) : w = wire[n][m]
  BY Types
<1>2. w # <<>> /\ wire' = [wire EXCEPT ![n][m] = Tail(w)]
  BY <1>1 DEF ReceiveRemote
<1>3. /\ Head(w) \in Messages /\ Tail(w) \in Seq(Messages) /\ 1 \in DOMAIN w /\ Head(w) = w[1]
      /\ \A k \in DOMAIN Tail(w) : k + 1 \in DOMAIN w /\ Tail(w)[k] = w[k + 1]
  BY <1>2, TailFacts
<1>4. PICK e \in Messages : e = Head(w)
  BY <1>3
<1>5. e.from = n /\ e.to = m /\ m # n
  BY <1>1, <1>3, <1>4 DEF PlaceInv
<1>6. /\ Deliver(m, e)
      /\ UNCHANGED <<requests, send_message_queue_, channel_results_, running, threads>>
  BY <1>1, <1>4 DEF ReceiveRemote
<1>7. /\ SameSent /\ MakingInv' /\ HeardInv' /\ TxnInv' /\ LinkInv'
      /\ /\ send_message_queue_' \in [Machine -> Seq(Messages)]
         /\ queues' \in [Machine -> [Channel -> Seq(Messages)]]
         /\ undelivered_messages_' \in [Machine -> [Channel -> Seq(Messages)]]
         /\ wire' \in [Machine -> [Machine -> Seq(Messages)]]
         => TypeInv'
  BY <1>6, OnlyMessages
<1>8. /\ queues' \in [Machine -> [Channel -> Seq(Messages)]]
      /\ undelivered_messages_' \in [Machine -> [Channel -> Seq(Messages)]]
      /\ \A g \in Machine, c \in Channel : g # m =>
            /\ Arrived(g, c)' = Arrived(g, c)
            /\ undelivered_messages_'[g][c] = undelivered_messages_[g][c]
      /\ \A c \in Channel : Gets(m, e, c)
      /\ \A g \in Machine, q \in Channel : \A i \in DOMAIN queues'[g][q] :
            /\ queues'[g][q][i].to = g
            /\ queues'[g][q][i].channel \in Channels(g)'
            /\ channel_results_'[g][queues'[g][q][i].channel] = q
      /\ \A g \in Machine, c \in Channel : \A i \in DOMAIN undelivered_messages_'[g][c] :
            /\ undelivered_messages_'[g][c][i].to = g
            /\ undelivered_messages_'[g][c][i].channel = c
            /\ c \notin Channels(g)'
  BY <1>5, <1>6, DeliverFacts
<1>9. wire \in [Machine -> [Machine -> Seq(Messages)]]
  BY DEF TypeInv, TypeOK
<1>10. /\ wire' \in [Machine -> [Machine -> Seq(Messages)]]
       /\ \A f, g \in Machine : wire'[f][g] = IF f = n /\ g = m THEN Tail(w) ELSE wire[f][g]
  <2>1. PICK r : r = [wire[n] EXCEPT ![m] = Tail(w)]
    OBVIOUS
  <2>2. /\ r \in [Machine -> Seq(Messages)]
        /\ \A g \in Machine : r[g] = IF g = m THEN Tail(w) ELSE wire[n][g]
    BY <2>1, <1>3, <1>9
  <2>3. wire' = [wire EXCEPT ![n] = r]
    BY <2>1, <1>2
  <2> QED
    BY <2>2, <2>3, <1>9
<1>11. /\ send_message_queue_' \in [Machine -> Seq(Messages)]
       /\ send_message_queue_' = send_message_queue_
  BY <1>6 DEF TypeInv, TypeOK
<1>12. TypeInv'
  BY <1>7, <1>8, <1>10, <1>11
<1>13. PlaceInv'
  <2>1. ASSUME NEW f \in Machine, NEW g \in Machine, NEW i \in DOMAIN wire'[f][g]
        PROVE  wire'[f][g][i].from = f /\ wire'[f][g][i].to = g /\ f # g
    <3>1. CASE f = n /\ g = m
      <4>1. i + 1 \in DOMAIN w /\ wire'[f][g][i] = w[i + 1]
        BY <2>1, <3>1, <1>3, <1>10
      <4>2. w[i + 1].from = n /\ w[i + 1].to = m
        BY <4>1, <1>1 DEF PlaceInv
      <4> QED
        BY <3>1, <4>1, <4>2, <1>5
    <3>2. CASE ~ (f = n /\ g = m)
      <4>1. wire'[f][g] = wire[f][g]
        BY <3>2, <1>10
      <4> QED
        BY <2>1, <4>1 DEF PlaceInv
    <3> QED
      BY <3>1, <3>2
  <2>2. \A g \in Machine : \A i \in DOMAIN send_message_queue_'[g] :
           send_message_queue_'[g][i].from = g
    BY <1>11 DEF PlaceInv
  <2> QED
    BY <2>1, <2>2, <1>8 DEF PlaceInv, Queued
<1>14. FlowInv'
  <2> SUFFICES ASSUME NEW f \in Machine, NEW g \in Machine, NEW d \in Channel
               PROVE  Flows(Arrived(g, d)', undelivered_messages_'[g][d], wire'[f][g],
                            send_message_queue_'[f], f, g, d, received'[g][f][d],
                            Sent(f, g, d)')
    BY DEF FlowInv
  <2> DEFINE a == received[g][f][d]
             b == Sent(f, g, d)
  <2>1. /\ Arrived(g, d) \in Seq(Messages) /\ undelivered_messages_[g][d] \in Seq(Messages)
        /\ wire[f][g] \in Seq(Messages) /\ send_message_queue_[f] \in Seq(Messages)
        /\ a \in Nat /\ b \in Nat
    BY Types, SentType
  <2>2. Flows(Arrived(g, d), undelivered_messages_[g][d], wire[f][g], send_message_queue_[f],
              f, g, d, a, b)
    BY DEF FlowInv
  <2>3. Sent(f, g, d)' = b /\ received'[g][f][d] = a
    BY <1>6, <1>7 DEF SameSent, threads
  <2> HIDE DEF a, b
  <2>4. CASE g # m
    <3>1. /\ Arrived(g, d)' = Arrived(g, d)
          /\ undelivered_messages_'[g][d] = undelivered_messages_[g][d]
          /\ wire'[f][g] = wire[f][g]
      BY <2>4, <1>8, <1>10
    <3> QED
      BY <2>2, <2>3, <3>1, <1>11
  <2>5. CASE g = m /\ f = n /\ d = e.channel
    <3>1. wire'[f][g] = Tail(wire[f][g]) /\ wire[f][g] # <<>> /\ e = Head(wire[f][g])
      BY <2>5, <1>1, <1>2, <1>4, <1>10
    <3>2. \/ /\ undelivered_messages_[g][d] = <<>> /\ undelivered_messages_'[g][d] = <<>>
             /\ Arrived(g, d)' = Append(Arrived(g, d), e)
          \/ /\ undelivered_messages_'[g][d] = Append(undelivered_messages_[g][d], e)
             /\ Arrived(g, d)' = Arrived(g, d)
      BY <2>5, <1>8 DEF Gets
    <3>3. CASE /\ undelivered_messages_[g][d] = <<>> /\ undelivered_messages_'[g][d] = <<>>
               /\ Arrived(g, d)' = Append(Arrived(g, d), e)
      <4>1. Flows(Append(Arrived(g, d), e), undelivered_messages_[g][d], Tail(wire[f][g]),
                  send_message_queue_[f], f, g, d, a, b)
        BY <2>1, <2>2, <3>1, <3>3, FlowsMove
      <4> QED
        BY <2>3, <3>1, <3>3, <4>1, <1>11
    <3>4. CASE /\ undelivered_messages_'[g][d] = Append(undelivered_messages_[g][d], e)
               /\ Arrived(g, d)' = Arrived(g, d)
      <4>1. Flows(Arrived(g, d), Append(undelivered_messages_[g][d], e), Tail(wire[f][g]),
                  send_message_queue_[f], f, g, d, a, b)
        BY <2>1, <2>2, <3>1, FlowsMove
      <4> QED
        BY <2>3, <3>1, <3>4, <4>1, <1>11
    <3> QED
      BY <3>2, <3>3, <3>4
  <2>6. CASE g = m /\ ~ (f = n /\ d = e.channel)
    <3>1. ~ IsFor(e, f, g, d)
      BY <2>6, <1>5 DEF IsFor
    <3>2. PICK x \in Seq(Messages) : /\ x = wire'[f][g]
                                     /\ Flows(Arrived(g, d), undelivered_messages_[g][d], x,
                                              send_message_queue_[f], f, g, d, a, b)
      <4>1. CASE f = n
        <5>1. wire'[f][g] = Tail(wire[f][g]) /\ wire[f][g] # <<>> /\ e = Head(wire[f][g])
          BY <2>6, <4>1, <1>1, <1>2, <1>4, <1>10
        <5>2. Flows(Arrived(g, d), undelivered_messages_[g][d], Tail(wire[f][g]),
                    send_message_queue_[f], f, g, d, a, b)
          BY <2>1, <2>2, <3>1, <5>1, FlowsOther
        <5>3. Tail(wire[f][g]) \in Seq(Messages)
          BY <2>1, <5>1, TailFacts
        <5> QED
          BY <5>1, <5>2, <5>3
      <4>2. CASE f # n
        BY <2>1, <2>2, <4>2, <1>10
      <4> QED
        BY <4>1, <4>2
    <3>3. Gets(m, e, d)
      BY <1>8
    <3> QED
      BY <2>1, <2>3, <2>6, <3>1, <3>2, <3>3, <1>11, GetsOther
  <2> QED
    BY <2>4, <2>5, <2>6
<1> QED
  BY <1>7, <1>12, <1>13, <1>14

\* The oldest message to be sent goes to the wire, or to the channel of its own machine.
LEMMA SendMessagePreserves ==
    ASSUME IInv, NEW m \in Machine, SendMessage(m)
    PROVE  IInv'
<1> USE DEF IInv
<1>1. PICK s \in Seq(Messages) : s = send_message_queue_[m]
  BY Types
<1>2. s # <<>> /\ send_message_queue_' = [send_message_queue_ EXCEPT ![m] = Tail(s)]
  BY <1>1 DEF SendMessage
<1>3. /\ Head(s) \in Messages /\ Tail(s) \in Seq(Messages) /\ 1 \in DOMAIN s /\ Head(s) = s[1]
      /\ \A k \in DOMAIN Tail(s) : k + 1 \in DOMAIN s /\ Tail(s)[k] = s[k + 1]
  BY <1>2, TailFacts
<1>4. PICK e \in Messages : e = Head(s)
  BY <1>3
<1>5. e.from = m /\ \A k \in DOMAIN s : s[k].from = m
  BY <1>1, <1>3, <1>4 DEF PlaceInv
<1>6. PICK n \in Machine : n = e.to
  BY DEF Messages
<1>7. /\ IF n = m THEN Deliver(m, e) /\ UNCHANGED wire
         ELSE /\ wire' = [wire EXCEPT ![m][n] = Append(@, e)]
              /\ UNCHANGED <<queues, undelivered_messages_>>
      /\ UNCHANGED <<requests, channel_results_, running, threads>>
  BY <1>1, <1>4, <1>6 DEF SendMessage
<1>8. /\ SameSent /\ MakingInv' /\ HeardInv' /\ TxnInv' /\ LinkInv'
      /\ /\ send_message_queue_' \in [Machine -> Seq(Messages)]
         /\ queues' \in [Machine -> [Channel -> Seq(Messages)]]
         /\ undelivered_messages_' \in [Machine -> [Channel -> Seq(Messages)]]
         /\ wire' \in [Machine -> [Machine -> Seq(Messages)]]
         => TypeInv'
  BY <1>7, OnlyMessages
<1>9. /\ send_message_queue_' \in [Machine -> Seq(Messages)]
      /\ \A f \in Machine : send_message_queue_'[f] =
            IF f = m THEN Tail(s) ELSE send_message_queue_[f]
  BY <1>2, <1>3 DEF TypeInv, TypeOK
<1>10. \A f \in Machine : \A i \in DOMAIN send_message_queue_'[f] :
          send_message_queue_'[f][i].from = f
  <2> SUFFICES ASSUME NEW f \in Machine, NEW i \in DOMAIN send_message_queue_'[f]
               PROVE  send_message_queue_'[f][i].from = f
    OBVIOUS
  <2>1. CASE f = m
    <3>1. i + 1 \in DOMAIN s /\ send_message_queue_'[f][i] = s[i + 1]
      BY <2>1, <1>3, <1>9
    <3> QED
      BY <2>1, <3>1, <1>5
  <2>2. CASE f # m
    BY <2>2, <1>9 DEF PlaceInv
  <2> QED
    BY <2>1, <2>2
<1>11. \A f, g \in Machine, d \in Channel :
          /\ Arrived(g, d) \in Seq(Messages) /\ undelivered_messages_[g][d] \in Seq(Messages)
          /\ wire[f][g] \in Seq(Messages) /\ send_message_queue_[f] \in Seq(Messages)
          /\ received[g][f][d] \in Nat /\ Sent(f, g, d) \in Nat
          /\ Flows(Arrived(g, d), undelivered_messages_[g][d], wire[f][g],
                   send_message_queue_[f], f, g, d, received[g][f][d], Sent(f, g, d))
  BY Types, SentType DEF FlowInv
<1>12. \A f, g \in Machine, d \in Channel :
          Sent(f, g, d)' = Sent(f, g, d) /\ received'[g][f][d] = received[g][f][d]
  BY <1>7, <1>8 DEF SameSent, threads
\* A message of others leaves the queue.
<1>13. ASSUME NEW g \in Machine, NEW d \in Channel, ~ IsFor(e, m, g, d)
       PROVE  Flows(Arrived(g, d), undelivered_messages_[g][d], wire[m][g],
                    Tail(s), m, g, d, received[g][m][d], Sent(m, g, d))
  <2> DEFINE a == received[g][m][d]
             b == Sent(m, g, d)
  <2>1. /\ Arrived(g, d) \in Seq(Messages) /\ undelivered_messages_[g][d] \in Seq(Messages)
        /\ wire[m][g] \in Seq(Messages) /\ a \in Nat /\ b \in Nat
        /\ Flows(Arrived(g, d), undelivered_messages_[g][d], wire[m][g], s, m, g, d, a, b)
    BY <1>1, <1>11
  <2> HIDE DEF a, b
  <2>2. Flows(Arrived(g, d), undelivered_messages_[g][d], wire[m][g], Tail(s), m, g, d, a, b)
    BY <2>1, <1>2, <1>4, <1>13, FlowsOther
  <2> QED
    BY <2>2 DEF a, b
<1>14. CASE n = m
  <2>1. Deliver(m, e) /\ UNCHANGED wire /\ UNCHANGED channel_results_ /\ e.to = m
    BY <1>6, <1>7, <1>14
  <2>2. /\ queues' \in [Machine -> [Channel -> Seq(Messages)]]
        /\ undelivered_messages_' \in [Machine -> [Channel -> Seq(Messages)]]
        /\ \A g \in Machine, c \in Channel : g # m =>
              /\ Arrived(g, c)' = Arrived(g, c)
              /\ undelivered_messages_'[g][c] = undelivered_messages_[g][c]
        /\ \A c \in Channel : Gets(m, e, c)
        /\ \A g \in Machine, q \in Channel : \A i \in DOMAIN queues'[g][q] :
              /\ queues'[g][q][i].to = g
              /\ queues'[g][q][i].channel \in Channels(g)'
              /\ channel_results_'[g][queues'[g][q][i].channel] = q
        /\ \A g \in Machine, c \in Channel : \A i \in DOMAIN undelivered_messages_'[g][c] :
              /\ undelivered_messages_'[g][c][i].to = g
              /\ undelivered_messages_'[g][c][i].channel = c
              /\ c \notin Channels(g)'
    BY <2>1, DeliverFacts
  <2>3. TypeInv'
    <3>1. wire' \in [Machine -> [Machine -> Seq(Messages)]]
      BY <2>1 DEF TypeInv, TypeOK
    <3> QED
      BY <3>1, <1>8, <1>9, <2>2
  <2>4. PlaceInv'
    BY <2>1, <2>2, <1>10 DEF PlaceInv, Queued
  <2>5. wire[m][m] = <<>>
    BY SelfWire
  <2>6. FlowInv'
    <3> SUFFICES ASSUME NEW f \in Machine, NEW g \in Machine, NEW d \in Channel
                 PROVE  Flows(Arrived(g, d)', undelivered_messages_'[g][d], wire[f][g],
                              send_message_queue_'[f], f, g, d, received[g][f][d],
                              Sent(f, g, d))
      BY <2>1, <1>12 DEF FlowInv
    <3> DEFINE a == received[g][f][d]
               b == Sent(f, g, d)
    <3>1. /\ Arrived(g, d) \in Seq(Messages) /\ undelivered_messages_[g][d] \in Seq(Messages)
          /\ wire[f][g] \in Seq(Messages) /\ send_message_queue_[f] \in Seq(Messages)
          /\ a \in Nat /\ b \in Nat
          /\ Flows(Arrived(g, d), undelivered_messages_[g][d], wire[f][g],
                   send_message_queue_[f], f, g, d, a, b)
      BY <1>11
    <3>2. f = m /\ ~ IsFor(e, f, g, d) =>
             Flows(Arrived(g, d), undelivered_messages_[g][d], wire[f][g], Tail(s),
                   f, g, d, a, b)
      BY <1>13
    <3> HIDE DEF a, b
    <3> SUFFICES Flows(Arrived(g, d)', undelivered_messages_'[g][d], wire[f][g],
                       send_message_queue_'[f], f, g, d, a, b)
      BY DEF a, b
    <3>3. CASE f = m /\ g = m /\ d = e.channel
      <4>1. /\ send_message_queue_'[f] = Tail(send_message_queue_[f])
            /\ send_message_queue_[f] # <<>> /\ e = Head(send_message_queue_[f])
            /\ wire[f][g] = <<>>
        BY <3>3, <1>1, <1>2, <1>4, <1>9, <2>5
      <4>2. \/ /\ undelivered_messages_[g][d] = <<>> /\ undelivered_messages_'[g][d] = <<>>
               /\ Arrived(g, d)' = Append(Arrived(g, d), e)
            \/ /\ undelivered_messages_'[g][d] = Append(undelivered_messages_[g][d], e)
               /\ Arrived(g, d)' = Arrived(g, d)
        BY <3>3, <2>2 DEF Gets
      <4>3. CASE /\ undelivered_messages_[g][d] = <<>> /\ undelivered_messages_'[g][d] = <<>>
                 /\ Arrived(g, d)' = Append(Arrived(g, d), e)
        <5>1. Flows(Append(Arrived(g, d), e), undelivered_messages_[g][d], wire[f][g],
                    Tail(send_message_queue_[f]), f, g, d, a, b)
          BY <3>1, <4>1, <4>3, FlowsMove
        <5> QED
          BY <4>1, <4>3, <5>1
      <4>4. CASE /\ undelivered_messages_'[g][d] = Append(undelivered_messages_[g][d], e)
                 /\ Arrived(g, d)' = Arrived(g, d)
        <5>1. Flows(Arrived(g, d), Append(undelivered_messages_[g][d], e), wire[f][g],
                    Tail(send_message_queue_[f]), f, g, d, a, b)
          BY <3>1, <4>1, FlowsMove
        <5> QED
          BY <4>1, <4>4, <5>1
      <4> QED
        BY <4>2, <4>3, <4>4
    <3>4. CASE ~ (f = m /\ g = m /\ d = e.channel)
      <4>1. ~ IsFor(e, f, g, d)
        BY <3>4, <1>5, <1>6, <1>14 DEF IsFor
      <4>2. PICK x \in Seq(Messages) : /\ x = send_message_queue_'[f]
                                       /\ Flows(Arrived(g, d), undelivered_messages_[g][d],
                                                wire[f][g], x, f, g, d, a, b)
        BY <3>1, <3>2, <4>1, <1>3, <1>9
      <4>3. CASE g = m
        <5>1. Gets(m, e, d)
          BY <2>2
        <5> QED
          BY <3>1, <4>1, <4>2, <4>3, <5>1, GetsOther
      <4>4. CASE g # m
        BY <4>2, <4>4, <2>2
      <4> QED
        BY <4>3, <4>4
    <3> QED
      BY <3>3, <3>4
  <2> QED
    BY <1>8, <2>3, <2>4, <2>6
<1>15. CASE n # m
  <2>1. /\ wire' = [wire EXCEPT ![m][n] = Append(@, e)]
        /\ UNCHANGED <<queues, undelivered_messages_, channel_results_>>
    BY <1>7, <1>15
  <2>2. /\ wire' \in [Machine -> [Machine -> Seq(Messages)]]
        /\ \A f, g \in Machine : wire'[f][g] = IF f = m /\ g = n THEN Append(wire[m][n], e)
                                               ELSE wire[f][g]
    <3>1. wire \in [Machine -> [Machine -> Seq(Messages)]]
      BY DEF TypeInv, TypeOK
    <3>2. Append(wire[m][n], e) \in Seq(Messages)
      BY <3>1, AppendFacts
    <3>3. PICK r : r = [wire[m] EXCEPT ![n] = Append(@, e)]
      OBVIOUS
    <3>4. /\ r \in [Machine -> Seq(Messages)]
          /\ \A g \in Machine : r[g] = IF g = n THEN Append(wire[m][n], e) ELSE wire[m][g]
      BY <3>1, <3>2, <3>3
    <3>5. wire' = [wire EXCEPT ![m] = r]
      BY <2>1, <3>3
    <3> QED
      BY <3>1, <3>4, <3>5
  <2>3. \A g \in Machine :
         /\ Channels(g)' = Channels(g)
         /\ \A d \in Channel : Arrived(g, d)' = Arrived(g, d)
    BY <2>1 DEF Arrived, Channels
  <2>4. TypeInv'
    <3>1. /\ queues' \in [Machine -> [Channel -> Seq(Messages)]]
          /\ undelivered_messages_' \in [Machine -> [Channel -> Seq(Messages)]]
      BY <2>1 DEF TypeInv, TypeOK
    <3> QED
      BY <3>1, <1>8, <1>9, <2>2
  <2>5. PlaceInv'
    <3>1. ASSUME NEW f \in Machine, NEW g \in Machine, NEW i \in DOMAIN wire'[f][g]
          PROVE  wire'[f][g][i].from = f /\ wire'[f][g][i].to = g /\ f # g
      <4>1. CASE f = m /\ g = n
        <5>1. PICK w \in Seq(Messages) : w = wire[m][n]
          BY Types
        <5>2. wire'[f][g] = Append(w, e)
          BY <4>1, <5>1, <2>2
        <5>3. (i \in DOMAIN w /\ Append(w, e)[i] = w[i]) \/ Append(w, e)[i] = e
          BY <3>1, <5>2, AppendFacts
        <5>4. \A k \in DOMAIN w : w[k].from = m /\ w[k].to = n
          BY <5>1 DEF PlaceInv
        <5>5. e.from = m /\ e.to = n
          BY <1>5, <1>6
        <5> QED
          BY <4>1, <5>2, <5>3, <5>4, <5>5, <1>15
      <4>2. CASE ~ (f = m /\ g = n)
        <5>1. wire'[f][g] = wire[f][g]
          BY <4>2, <2>2
        <5> QED
          BY <3>1, <5>1 DEF PlaceInv
      <4> QED
        BY <4>1, <4>2
    <3>2. \A f \in Machine, d \in Channel : \A i \in DOMAIN queues'[f][d] :
             Queued(f, d, queues[f][d][i])'
      BY <2>1, <2>3 DEF PlaceInv, Queued
    <3>3. \A f \in Machine, d \in Channel : \A i \in DOMAIN undelivered_messages_'[f][d] :
             /\ undelivered_messages_'[f][d][i].to = f
             /\ undelivered_messages_'[f][d][i].channel = d
             /\ d \notin Channels(f)'
      BY <2>1, <2>3 DEF PlaceInv
    <3> QED
      BY <3>1, <3>2, <3>3, <1>10 DEF PlaceInv
  <2>6. FlowInv'
    <3> SUFFICES ASSUME NEW f \in Machine, NEW g \in Machine, NEW d \in Channel
                 PROVE  Flows(Arrived(g, d), undelivered_messages_[g][d], wire'[f][g],
                              send_message_queue_'[f], f, g, d, received[g][f][d],
                              Sent(f, g, d))
      BY <2>1, <2>3, <1>12 DEF FlowInv
    <3> DEFINE a == received[g][f][d]
               b == Sent(f, g, d)
    <3>1. /\ Arrived(g, d) \in Seq(Messages) /\ undelivered_messages_[g][d] \in Seq(Messages)
          /\ wire[f][g] \in Seq(Messages) /\ send_message_queue_[f] \in Seq(Messages)
          /\ a \in Nat /\ b \in Nat
          /\ Flows(Arrived(g, d), undelivered_messages_[g][d], wire[f][g],
                   send_message_queue_[f], f, g, d, a, b)
      BY <1>11
    <3>2. f = m /\ ~ IsFor(e, f, g, d) =>
             Flows(Arrived(g, d), undelivered_messages_[g][d], wire[f][g], Tail(s),
                   f, g, d, a, b)
      BY <1>13
    <3> HIDE DEF a, b
    <3> SUFFICES Flows(Arrived(g, d), undelivered_messages_[g][d], wire'[f][g],
                       send_message_queue_'[f], f, g, d, a, b)
      BY DEF a, b
    <3>3. CASE f = m /\ g = n
      <4>1. /\ send_message_queue_'[f] = Tail(send_message_queue_[f])
            /\ send_message_queue_[f] # <<>> /\ e = Head(send_message_queue_[f])
            /\ wire'[f][g] = Append(wire[f][g], e)
        BY <3>3, <1>1, <1>2, <1>4, <1>9, <2>2
      <4>2. Flows(Arrived(g, d), undelivered_messages_[g][d], Append(wire[f][g], e),
                  Tail(send_message_queue_[f]), f, g, d, a, b)
        BY <3>1, <4>1, FlowsMove
      <4> QED
        BY <4>1, <4>2
    <3>4. CASE ~ (f = m /\ g = n)
      <4>1. ~ IsFor(e, f, g, d)
        BY <3>4, <1>5, <1>6 DEF IsFor
      <4>2. wire'[f][g] = wire[f][g]
        BY <3>4, <2>2
      <4> QED
        BY <3>1, <3>2, <4>1, <4>2, <1>9
    <3> QED
      BY <3>3, <3>4
  <2> QED
    BY <1>8, <2>4, <2>5, <2>6
<1> QED
  BY <1>14, <1>15

\* A request leaves the queue of the multiplexer.
Serves(m, type, t) ==
    /\ \A n \in Machine, ty \in {"LINK_CHANNEL", "UNLINK_CHANNEL"}, x \in Txn :
          Wants(n, ty, x)' <=> Wants(n, ty, x) /\ ~ (n = m /\ ty = type /\ x = t)
    /\ \A n \in Machine : IsInjective(link_unlink_queue_'[n])
    /\ link_unlink_queue_' \in
          [Machine -> Seq([type : {"LINK_CHANNEL", "UNLINK_CHANNEL"}, channel : Txn])]

\* A channel is linked when there is a main channel, and unlinked when all is read.
LEMMA LinkOrUnlinkPreserves ==
    ASSUME IInv, NEW m \in Machine, LinkOrUnlink(m)
    PROVE  IInv'
<1> USE DEF IInv
<1> DEFINE R == [type : {"LINK_CHANNEL", "UNLINK_CHANNEL"}, channel : Txn]
<1>1. link_unlink_queue_ \in [Machine -> Seq(R)]
  BY DEF TypeInv, TypeOK
<1>2. \A n \in Machine : IsInjective(link_unlink_queue_[n])
  BY DEF LinkInv
<1>3. PICK s \in Seq(R) : s = link_unlink_queue_[m]
  BY <1>1
<1>4. s # <<>> /\ IsInjective(s) /\ link_unlink_queue_' = [link_unlink_queue_ EXCEPT ![m] = Tail(s)]
  BY <1>2, <1>3 DEF LinkOrUnlink
<1>5. /\ Head(s) \in R /\ Head(s) \in ToSet(s)
      /\ Tail(s) \in Seq(R) /\ IsInjective(Tail(s))
      /\ ToSet(Tail(s)) = ToSet(s) \ {Head(s)}
  <2> HIDE DEF R
  <2> QED
    BY <1>4, TailSet
<1>6. PICK type \in {"LINK_CHANNEL", "UNLINK_CHANNEL"}, t \in Txn :
         Head(s) = [type |-> type, channel |-> t]
  BY <1>5
<1>7. Wants(m, type, t)
  BY <1>3, <1>5, <1>6 DEF Wants
<1>8. /\ \A n \in Machine : link_unlink_queue_'[n] = IF n = m THEN Tail(s)
                                                     ELSE link_unlink_queue_[n]
      /\ link_unlink_queue_' \in [Machine -> Seq(R)]
  <2> HIDE DEF R
  <2> QED
    BY <1>1, <1>4, <1>5
<1>9. Serves(m, type, t)
  <2>1. ASSUME NEW n \in Machine, NEW ty \in {"LINK_CHANNEL", "UNLINK_CHANNEL"}, NEW x \in Txn
        PROVE  Wants(n, ty, x)' <=> Wants(n, ty, x) /\ ~ (n = m /\ ty = type /\ x = t)
    <3>1. CASE n = m
      <4>1. [type |-> ty, channel |-> x] = Head(s) <=> ty = type /\ x = t
        BY <1>6
      <4> QED
        BY <3>1, <4>1, <1>3, <1>5, <1>8 DEF Wants
    <3>2. CASE n # m
      BY <3>2, <1>8 DEF Wants
    <3> QED
      BY <3>1, <3>2
  <2>2. \A n \in Machine : IsInjective(link_unlink_queue_'[n])
    BY <1>2, <1>5, <1>8
  <2> QED
    BY <2>1, <2>2, <1>8 DEF Serves
<1> HIDE DEF R
<1>10. /\ IF type = "LINK_CHANNEL"
          THEN Connect(m, t, LinkedTo(m, t)) /\ ForwardUndelivered(m, t, LinkedTo(m, t))
          ELSE Disconnect(m, t) /\ UNCHANGED <<queues, undelivered_messages_>>
       /\ UNCHANGED <<new_channel_queue_, delete_channel_queue_, send_message_queue_,
                      running, wire>>
       /\ UNCHANGED <<writer, scheduler, sent, txns_queue_, active_txns, received>>
  BY <1>3, <1>6 DEF LinkOrUnlink, threads
<1>11. \A n \in Machine : Taken(n)' = Taken(n)
  BY <1>10 DEF Taken
<1>12. SameSent
  BY <1>10, <1>11, SentSame
<1>13. Linked(m, t) /\ t \in Channel
  BY Names DEF LinkInv
<1>14. TookInv
  BY TookFacts
<1>15. PICK C \in SUBSET Channel :
          /\ C = IF type = "LINK_CHANNEL" THEN Channels(m) \cup {t} ELSE Channels(m) \ {t}
          /\ DOMAIN channel_results_' = Machine
          /\ \A n \in Machine :
                /\ Channels(n)' = IF n = m THEN C ELSE Channels(n)
                /\ \A d \in Channels(n)' : channel_results_'[n][d] = IF d \in Txn THEN Main ELSE d
          /\ queues' \in [Machine -> [Channel -> Seq(Messages)]]
          /\ undelivered_messages_' \in [Machine -> [Channel -> Seq(Messages)]]
          /\ PlaceInv' /\ FlowInv'
          /\ type = "LINK_CHANNEL" => t \notin Channels(m)
  <2>1. CASE type = "LINK_CHANNEL"
    <3>1. t \in active_txns[m] /\ t \notin Channels(m) /\ t \in Taken(m)
      BY <2>1, <1>7, <1>13 DEF Linked
    <3>2. received[m][Sender][Work] > 0
      <4>1. /\ received[m][Sender][Work] \in Nat /\ Took(m) \in Nat
            /\ Taken(m) = 1..Took(m) /\ Len(txns_queue_[m]) \in Nat
            /\ Took(m) + Len(txns_queue_[m]) = received[m][Sender][Work]
        BY TxnFacts
      <4>2. t \in 1..Took(m)
        BY <3>1, <4>1
      <4>3. Took(m) >= 1
        BY <4>1, <4>2
      <4> QED
        BY <4>1, <4>3
    <3>3. Main \in Channels(m)
      BY <3>2 DEF TxnInv
    <3>4. LinkedTo(m, t) = Main
      BY <3>3, Types, Names DEF LinkedTo
    <3>5. Connect(m, t, Main) /\ ForwardUndelivered(m, t, Main)
      BY <2>1, <3>4, <1>10
    <3>6. PICK C : C = Channels(m) \cup {t}
      OBVIOUS
    <3>7. C \in SUBSET Channel
      BY <3>6, <1>13, Types
    <3>8. /\ DOMAIN channel_results_' = Machine
          /\ \A n \in Machine :
                /\ Channels(n)' = IF n = m THEN Channels(m) \cup {t} ELSE Channels(n)
                /\ \A d \in Channels(n)' : channel_results_'[n][d] = IF d \in Txn THEN Main ELSE d
          /\ queues' \in [Machine -> [Channel -> Seq(Messages)]]
          /\ undelivered_messages_' \in [Machine -> [Channel -> Seq(Messages)]]
          /\ PlaceInv' /\ FlowInv'
      BY <3>1, <3>5, <1>10, <1>12, <1>13, Names, ConnectFacts
    <3> QED
      BY <2>1, <3>1, <3>6, <3>7, <3>8
  <2>2. CASE type = "UNLINK_CHANNEL"
    <3>1. t \in Taken(m) \ active_txns[m] /\ t \in Channels(m)
      BY <2>2, <1>7, <1>13 DEF Linked
    <3>2. \A n \in Others(m) : received[m][n][t] > 0
      BY <3>1, <1>13 DEF Linked
    <3>3. \A q \in Channel : \A i \in DOMAIN queues[m][q] : queues[m][q][i].channel # t
      BY <3>2, ResultsRead
    <3>4. Disconnect(m, t) /\ UNCHANGED <<queues, undelivered_messages_>>
      BY <2>2, <1>10
    <3>5. PICK C : C = Channels(m) \ {t}
      OBVIOUS
    <3>6. C \in SUBSET Channel
      BY <3>5, Types
    <3>7. /\ DOMAIN channel_results_' = Machine
          /\ \A n \in Machine :
                /\ Channels(n)' = IF n = m THEN Channels(m) \ {t} ELSE Channels(n)
                /\ \A d \in Channels(n)' : channel_results_'[n][d] = IF d \in Txn THEN Main ELSE d
          /\ PlaceInv' /\ FlowInv'
      BY <3>1, <3>3, <3>4, <1>10, <1>12, <1>13, DisconnectFacts
    <3>8. /\ queues' \in [Machine -> [Channel -> Seq(Messages)]]
          /\ undelivered_messages_' \in [Machine -> [Channel -> Seq(Messages)]]
      BY <3>4 DEF TypeInv, TypeOK
    <3> QED
      BY <2>2, <3>5, <3>6, <3>7, <3>8
  <2> QED
    BY <2>1, <2>2, <1>6
<1>16. TypeInv'
  <2>1. link_unlink_queue_' \in
           [Machine -> Seq([type : {"LINK_CHANNEL", "UNLINK_CHANNEL"}, channel : Txn])]
    BY <1>9 DEF Serves
  <2>2. \A n \in Machine : Channels(n)' \subseteq Channel
    <3> SUFFICES ASSUME NEW n \in Machine PROVE Channels(n)' \subseteq Channel
      OBVIOUS
    <3>1. Channels(n)' = IF n = m THEN C ELSE Channels(n)
      BY <1>15
    <3>2. Channels(n) \subseteq Channel
      BY Types
    <3> QED
      BY <3>1, <3>2
  <2>3. TypeOK'
    BY <1>10, <1>15, <2>1, <2>2 DEF TypeInv, TypeOK
  <2> QED
    BY <1>10, <1>15, <2>3 DEF TypeInv
<1>17. \A n \in Machine, c \in {Sync, Work, Main} : c \in Channels(n)' <=> c \in Channels(n)
  <2> SUFFICES ASSUME NEW n \in Machine, NEW c \in {Sync, Work, Main}
               PROVE  c \in Channels(n)' <=> c \in Channels(n)
    OBVIOUS
  <2>1. c # t
    BY Names
  <2>2. Channels(n)' = IF n = m THEN C ELSE Channels(n)
    BY <1>15
  <2>3. C = IF type = "LINK_CHANNEL" THEN Channels(m) \cup {t} ELSE Channels(m) \ {t}
    BY <1>15
  <2> QED
    BY <2>1, <2>2, <2>3
<1>18. MakingInv'
  BY <1>10, <1>17, MakingSame
<1>19. HeardInv'
  BY <1>10, HeardSame
<1>20. TxnInv'
  BY <1>10, <1>17, TxnSame
<1>21. LinkInv'
  <2> SUFFICES ASSUME NEW n \in Machine, NEW x \in Txn PROVE Linked(n, x)'
    BY <1>9 DEF LinkInv, Serves
  <2>1. Linked(n, x)
    BY DEF LinkInv
  <2>2. /\ Wants(n, "LINK_CHANNEL", x)' <=>
              Wants(n, "LINK_CHANNEL", x) /\ ~ (n = m /\ "LINK_CHANNEL" = type /\ x = t)
        /\ Wants(n, "UNLINK_CHANNEL", x)' <=>
              Wants(n, "UNLINK_CHANNEL", x) /\ ~ (n = m /\ "UNLINK_CHANNEL" = type /\ x = t)
    BY <1>9 DEF Serves
  <2>3. active_txns' = active_txns /\ received' = received /\ Taken(n)' = Taken(n)
    BY <1>10, <1>11
  <2>4. CASE ~ (n = m /\ x = t)
    <3>1. x \in Channels(n)' <=> x \in Channels(n)
      BY <2>4, <1>15
    <3> QED
      BY <2>1, <2>2, <2>3, <2>4, <3>1 DEF Linked
  <2>5. CASE n = m /\ x = t /\ type = "LINK_CHANNEL"
    <3>1. x \in Channels(n)'
      BY <2>5, <1>15
    <3>2. ~ Wants(n, "UNLINK_CHANNEL", x) /\ x \in active_txns[n]
      BY <2>1, <2>5, <1>7 DEF Linked
    <3>3. "LINK_CHANNEL" # "UNLINK_CHANNEL"
      OBVIOUS
    <3> QED
      BY <2>1, <2>2, <2>3, <2>5, <3>1, <3>2, <3>3 DEF Linked
  <2>6. CASE n = m /\ x = t /\ type = "UNLINK_CHANNEL"
    <3>1. x \notin Channels(n)'
      BY <2>6, <1>15
    <3>2. ~ Wants(n, "LINK_CHANNEL", x) /\ x \notin active_txns[n]
      BY <2>1, <2>6, <1>7 DEF Linked
    <3> QED
      BY <2>1, <2>2, <2>3, <2>6, <3>1, <3>2 DEF Linked
  <2> QED
    BY <2>4, <2>5, <2>6, <1>6
<1> QED
  BY <1>15, <1>16, <1>18, <1>19, <1>20, <1>21

-----------------------------------------------------------------------------
(* The steps of the other threads. *)

\* The steps that only ask for a channel or its end.
LEMMA OnlyCalls ==
    ASSUME IInv,
           UNCHANGED <<link_unlink_queue_, send_message_queue_, channels, wire, sent,
                       txns_queue_, active_txns, received>>,
           \A m \in Machine :
              writer'[m] \in {"new", "creating"} <=> writer[m] \in {"new", "creating"}
    PROVE  /\ PlaceInv' /\ FlowInv' /\ TxnInv' /\ LinkInv'
           /\ \A m \in Machine : Channels(m)' = Channels(m)
           /\ /\ new_channel_queue_' \in [Machine -> Seq({Sync, Work, Main})]
              /\ delete_channel_queue_' \in [Machine -> Seq({Sync})]
              /\ writer' \in [Machine -> {"new", "creating", "collecting", "deleting", "started"}]
              /\ scheduler' \in [Machine -> {"new", "work", "main"}]
              => TypeInv'
<1> USE DEF IInv
<1>1. /\ UNCHANGED <<channel_results_, queues, undelivered_messages_, running>>
      /\ UNCHANGED <<link_unlink_queue_, send_message_queue_, wire, sent,
                     txns_queue_, active_txns, received>>
  BY DEF channels
<1>2. \A n \in Machine : Taken(n)' = Taken(n) /\ Channels(n)' = Channels(n)
  BY <1>1 DEF Taken, Channels
<1>3. SameSent
  BY <1>1, <1>2, SentSame
<1>4. PlaceInv'
  BY <1>1, PlaceSame
<1>5. FlowInv'
  BY <1>1, <1>3, FlowSame
<1>6. TxnInv'
  BY <1>1, <1>2, TxnSame
<1>7. LinkInv'
  BY <1>1, <1>2, LinkSame
<1>8. ASSUME /\ new_channel_queue_' \in [Machine -> Seq({Sync, Work, Main})]
             /\ delete_channel_queue_' \in [Machine -> Seq({Sync})]
             /\ writer' \in [Machine -> {"new", "creating", "collecting", "deleting", "started"}]
             /\ scheduler' \in [Machine -> {"new", "work", "main"}]
      PROVE  TypeInv'
  <2>1. \A n \in Machine :
           /\ Channels(n)' \subseteq Channel
           /\ \A c \in Channels(n)' : channel_results_'[n][c] = IF c \in Txn THEN Main ELSE c
    BY <1>1, <1>2, Types
  <2>2. /\ link_unlink_queue_' \in
              [Machine -> Seq([type : {"LINK_CHANNEL", "UNLINK_CHANNEL"}, channel : Txn])]
        /\ send_message_queue_' \in [Machine -> Seq(Messages)]
        /\ queues' \in [Machine -> [Channel -> Seq(Messages)]]
        /\ undelivered_messages_' \in [Machine -> [Channel -> Seq(Messages)]]
        /\ running' \in [Machine -> BOOLEAN]
    BY <1>1 DEF TypeInv, TypeOK
  <2>3. /\ wire' \in [Machine -> [Machine -> Seq(Messages)]]
        /\ sent' \in 0..MaxTxn
        /\ txns_queue_' \in [Machine -> Seq(Txn)]
        /\ active_txns' \in [Machine -> SUBSET Txn]
        /\ received' \in [Machine -> [Machine -> [Channel -> Nat]]]
    BY <1>1 DEF TypeInv, TypeOK
  <2>4. TypeOK'
    BY <1>8, <2>1, <2>2, <2>3 DEF TypeOK
  <2> QED
    BY <1>1, <2>4 DEF TypeInv
<1> QED
  BY <1>2, <1>4, <1>5, <1>6, <1>7, <1>8

\* A call of NewChannel().
LEMMA NewChannelFacts ==
    ASSUME IInv, NEW m \in Machine, NEW c \in {Sync, Work, Main}, NewChannel(m, c),
           ~ Asked(m, c), Asked(m, c)', c \notin Channels(m), Channels(m)' = Channels(m),
           \A d \in {Sync, Work, Main} : d # c => (Asked(m, d)' <=> Asked(m, d))
    PROVE  /\ new_channel_queue_' \in [Machine -> Seq({Sync, Work, Main})]
           /\ \A n \in Machine \ {m} : new_channel_queue_'[n] = new_channel_queue_[n]
           /\ IsInjective(new_channel_queue_'[m])
           /\ \A d \in {Sync, Work, Main} :
                 d \in ToSet(new_channel_queue_'[m]) <=> Asked(m, d)' /\ d \notin Channels(m)'
<1>1. new_channel_queue_ \in [Machine -> Seq({Sync, Work, Main})]
  BY DEF IInv, TypeInv, TypeOK
<1>2. PICK s \in Seq({Sync, Work, Main}) : s = new_channel_queue_[m]
  BY <1>1
<1>3. new_channel_queue_' = [new_channel_queue_ EXCEPT ![m] = Append(s, c)]
  BY <1>2 DEF NewChannel
<1>4. /\ IsInjective(s)
      /\ \A d \in {Sync, Work, Main} : d \in ToSet(s) <=> Asked(m, d) /\ d \notin Channels(m)
  BY <1>2 DEF IInv, MakingInv, Making
<1>5. c \notin ToSet(s)
  BY <1>4
<1>6. /\ Append(s, c) \in Seq({Sync, Work, Main}) /\ IsInjective(Append(s, c))
      /\ ToSet(Append(s, c)) = ToSet(s) \cup {c}
  BY <1>4, <1>5, AppendSet
<1>7. /\ new_channel_queue_' \in [Machine -> Seq({Sync, Work, Main})]
      /\ new_channel_queue_'[m] = Append(s, c)
      /\ \A n \in Machine \ {m} : new_channel_queue_'[n] = new_channel_queue_[n]
  BY <1>1, <1>3, <1>6
<1>8. ASSUME NEW d \in {Sync, Work, Main}
      PROVE  d \in ToSet(new_channel_queue_'[m]) <=> Asked(m, d)' /\ d \notin Channels(m)'
  <2>1. CASE d = c
    BY <2>1, <1>6, <1>7
  <2>2. CASE d # c
    BY <2>2, <1>4, <1>6, <1>7
  <2> QED
    BY <2>1, <2>2
<1> QED
  BY <1>6, <1>7, <1>8

\* The writer asks for its channel,
LEMMA CreateSyncPreserves ==
    ASSUME IInv, NEW m \in Machine, CreateSync(m)
    PROVE  IInv'
<1> USE DEF IInv
<1>1. /\ writer[m] = "new" /\ NewChannel(m, Sync)
      /\ writer' = [writer EXCEPT ![m] = "creating"]
      /\ UNCHANGED <<delete_channel_queue_, scheduler>>
      /\ UNCHANGED <<link_unlink_queue_, send_message_queue_, channels, wire, sent,
                     txns_queue_, active_txns, received>>
  BY DEF CreateSync
<1>2. /\ writer \in [Machine -> {"new", "creating", "collecting", "deleting", "started"}]
      /\ delete_channel_queue_ \in [Machine -> Seq({Sync})]
      /\ scheduler \in [Machine -> {"new", "work", "main"}]
  BY DEF TypeInv, TypeOK
<1>3. /\ writer' \in [Machine -> {"new", "creating", "collecting", "deleting", "started"}]
      /\ writer'[m] = "creating" /\ \A n \in Machine \ {m} : writer'[n] = writer[n]
      /\ \A n \in Machine : writer'[n] \in {"new", "creating"} <=> writer[n] \in {"new", "creating"}
  BY <1>1, <1>2
<1>4. /\ PlaceInv' /\ FlowInv' /\ TxnInv' /\ LinkInv'
      /\ \A n \in Machine : Channels(n)' = Channels(n)
      /\ /\ new_channel_queue_' \in [Machine -> Seq({Sync, Work, Main})]
         /\ delete_channel_queue_' \in [Machine -> Seq({Sync})]
         /\ writer' \in [Machine -> {"new", "creating", "collecting", "deleting", "started"}]
         /\ scheduler' \in [Machine -> {"new", "work", "main"}]
         => TypeInv'
  BY <1>1, <1>3, OnlyCalls
<1>5. Making(m)
  BY DEF MakingInv
<1>6. Sync \notin Channels(m) /\ delete_channel_queue_[m] = <<>>
  BY <1>1, <1>5 DEF Making
<1>7. /\ ~ Asked(m, Sync) /\ Asked(m, Sync)'
      /\ \A d \in {Sync, Work, Main} : d # Sync => (Asked(m, d)' <=> Asked(m, d))
  BY <1>1, <1>3, Names DEF Asked
<1>8. /\ new_channel_queue_' \in [Machine -> Seq({Sync, Work, Main})]
      /\ \A n \in Machine \ {m} : new_channel_queue_'[n] = new_channel_queue_[n]
      /\ IsInjective(new_channel_queue_'[m])
      /\ \A d \in {Sync, Work, Main} :
            d \in ToSet(new_channel_queue_'[m]) <=> Asked(m, d)' /\ d \notin Channels(m)'
  BY <1>1, <1>4, <1>6, <1>7, NewChannelFacts
<1>9. TypeInv'
  BY <1>1, <1>2, <1>3, <1>4, <1>8
<1>10. Making(m)'
  BY <1>1, <1>3, <1>4, <1>5, <1>6, <1>8 DEF Making
<1>11. MakingInv'
  BY <1>1, <1>3, <1>4, <1>8, <1>10, MakingOthers
<1>12. HeardInv'
  <2>1. received' = received
    BY <1>1
  <2> QED
    BY <1>3, <2>1 DEF HeardInv, Others
<1> QED
  BY <1>4, <1>9, <1>11, <1>12

\* the scheduler for its first
LEMMA CreateWorkPreserves ==
    ASSUME IInv, NEW m \in Machine, CreateWork(m)
    PROVE  IInv'
<1> USE DEF IInv
<1>1. /\ scheduler[m] = "new" /\ NewChannel(m, Work)
      /\ scheduler' = [scheduler EXCEPT ![m] = "work"]
      /\ UNCHANGED <<delete_channel_queue_, writer>>
      /\ UNCHANGED <<link_unlink_queue_, send_message_queue_, channels, wire, sent,
                     txns_queue_, active_txns, received>>
  BY DEF CreateWork
<1>2. /\ writer \in [Machine -> {"new", "creating", "collecting", "deleting", "started"}]
      /\ delete_channel_queue_ \in [Machine -> Seq({Sync})]
      /\ scheduler \in [Machine -> {"new", "work", "main"}]
  BY DEF TypeInv, TypeOK
<1>3. /\ scheduler' \in [Machine -> {"new", "work", "main"}]
      /\ scheduler'[m] = "work" /\ \A n \in Machine \ {m} : scheduler'[n] = scheduler[n]
  BY <1>1, <1>2
<1>4. /\ PlaceInv' /\ FlowInv' /\ TxnInv' /\ LinkInv'
      /\ \A n \in Machine : Channels(n)' = Channels(n)
      /\ /\ new_channel_queue_' \in [Machine -> Seq({Sync, Work, Main})]
         /\ delete_channel_queue_' \in [Machine -> Seq({Sync})]
         /\ writer' \in [Machine -> {"new", "creating", "collecting", "deleting", "started"}]
         /\ scheduler' \in [Machine -> {"new", "work", "main"}]
         => TypeInv'
  BY <1>1, OnlyCalls
<1>5. Making(m)
  BY DEF MakingInv
<1>6. Work \notin Channels(m) /\ Main \notin Channels(m)
  BY <1>1, <1>5 DEF Making
<1>7. /\ ~ Asked(m, Work) /\ Asked(m, Work)'
      /\ \A d \in {Sync, Work, Main} : d # Work => (Asked(m, d)' <=> Asked(m, d))
  BY <1>1, <1>3, Names DEF Asked
<1>8. /\ new_channel_queue_' \in [Machine -> Seq({Sync, Work, Main})]
      /\ \A n \in Machine \ {m} : new_channel_queue_'[n] = new_channel_queue_[n]
      /\ IsInjective(new_channel_queue_'[m])
      /\ \A d \in {Sync, Work, Main} :
            d \in ToSet(new_channel_queue_'[m]) <=> Asked(m, d)' /\ d \notin Channels(m)'
  BY <1>1, <1>4, <1>6, <1>7, NewChannelFacts
<1>9. TypeInv'
  BY <1>1, <1>2, <1>3, <1>4, <1>8
<1>10. Making(m)'
  BY <1>1, <1>3, <1>4, <1>5, <1>6, <1>8 DEF Making
<1>11. MakingInv'
  BY <1>1, <1>3, <1>4, <1>8, <1>10, MakingOthers
<1>12. HeardInv'
  BY <1>1, HeardSame
<1> QED
  BY <1>4, <1>9, <1>11, <1>12

\* and its second one.
LEMMA CreateMainPreserves ==
    ASSUME IInv, NEW m \in Machine, CreateMain(m)
    PROVE  IInv'
<1> USE DEF IInv
<1>1. /\ scheduler[m] = "work" /\ Work \in Channels(m) /\ NewChannel(m, Main)
      /\ scheduler' = [scheduler EXCEPT ![m] = "main"]
      /\ UNCHANGED <<delete_channel_queue_, writer>>
      /\ UNCHANGED <<link_unlink_queue_, send_message_queue_, channels, wire, sent,
                     txns_queue_, active_txns, received>>
  BY DEF CreateMain
<1>2. /\ writer \in [Machine -> {"new", "creating", "collecting", "deleting", "started"}]
      /\ delete_channel_queue_ \in [Machine -> Seq({Sync})]
      /\ scheduler \in [Machine -> {"new", "work", "main"}]
  BY DEF TypeInv, TypeOK
<1>3. /\ scheduler' \in [Machine -> {"new", "work", "main"}]
      /\ scheduler'[m] = "main" /\ \A n \in Machine \ {m} : scheduler'[n] = scheduler[n]
  BY <1>1, <1>2
<1>4. /\ PlaceInv' /\ FlowInv' /\ TxnInv' /\ LinkInv'
      /\ \A n \in Machine : Channels(n)' = Channels(n)
      /\ /\ new_channel_queue_' \in [Machine -> Seq({Sync, Work, Main})]
         /\ delete_channel_queue_' \in [Machine -> Seq({Sync})]
         /\ writer' \in [Machine -> {"new", "creating", "collecting", "deleting", "started"}]
         /\ scheduler' \in [Machine -> {"new", "work", "main"}]
         => TypeInv'
  BY <1>1, OnlyCalls
<1>5. Making(m)
  BY DEF MakingInv
<1>6. Main \notin Channels(m)
  BY <1>1, <1>5 DEF Making
<1>7. /\ ~ Asked(m, Main) /\ Asked(m, Main)'
      /\ \A d \in {Sync, Work, Main} : d # Main => (Asked(m, d)' <=> Asked(m, d))
  BY <1>1, <1>3, Names DEF Asked
<1>8. /\ new_channel_queue_' \in [Machine -> Seq({Sync, Work, Main})]
      /\ \A n \in Machine \ {m} : new_channel_queue_'[n] = new_channel_queue_[n]
      /\ IsInjective(new_channel_queue_'[m])
      /\ \A d \in {Sync, Work, Main} :
            d \in ToSet(new_channel_queue_'[m]) <=> Asked(m, d)' /\ d \notin Channels(m)'
  BY <1>1, <1>4, <1>6, <1>7, NewChannelFacts
<1>9. TypeInv'
  BY <1>1, <1>2, <1>3, <1>4, <1>8
<1>10. Making(m)'
  BY <1>1, <1>3, <1>4, <1>5, <1>6, <1>8 DEF Making
<1>11. MakingInv'
  BY <1>1, <1>3, <1>4, <1>8, <1>10, MakingOthers
<1>12. HeardInv'
  BY <1>1, HeardSame
<1> QED
  BY <1>4, <1>9, <1>11, <1>12

\* The counter is full only when all other machines were heard.
LEMMA DeleteSyncPreserves ==
    ASSUME IInv, NEW m \in Machine, DeleteSync(m)
    PROVE  IInv'
<1> USE DEF IInv
<1>1. /\ writer[m] = "collecting" /\ DeleteChannel(m, Sync)
      /\ synchronization_counter(m) >= Cardinality(Machine)
      /\ writer' = [writer EXCEPT ![m] = "deleting"]
      /\ UNCHANGED <<new_channel_queue_, scheduler>>
      /\ UNCHANGED <<link_unlink_queue_, send_message_queue_, channels, wire, sent,
                     txns_queue_, active_txns, received>>
  BY DEF DeleteSync
<1>2. /\ writer \in [Machine -> {"new", "creating", "collecting", "deleting", "started"}]
      /\ new_channel_queue_ \in [Machine -> Seq({Sync, Work, Main})]
      /\ delete_channel_queue_ \in [Machine -> Seq({Sync})]
      /\ scheduler \in [Machine -> {"new", "work", "main"}]
  BY DEF TypeInv, TypeOK
<1>3. /\ writer' \in [Machine -> {"new", "creating", "collecting", "deleting", "started"}]
      /\ writer'[m] = "deleting" /\ \A n \in Machine \ {m} : writer'[n] = writer[n]
      /\ \A n \in Machine : writer'[n] \in {"new", "creating"} <=> writer[n] \in {"new", "creating"}
  BY <1>1, <1>2
<1>4. /\ PlaceInv' /\ FlowInv' /\ TxnInv' /\ LinkInv'
      /\ \A n \in Machine : Channels(n)' = Channels(n)
      /\ /\ new_channel_queue_' \in [Machine -> Seq({Sync, Work, Main})]
         /\ delete_channel_queue_' \in [Machine -> Seq({Sync})]
         /\ writer' \in [Machine -> {"new", "creating", "collecting", "deleting", "started"}]
         /\ scheduler' \in [Machine -> {"new", "work", "main"}]
         => TypeInv'
  BY <1>1, <1>3, OnlyCalls
<1>5. Making(m)
  BY DEF MakingInv
<1>6. Sync \in Channels(m) /\ delete_channel_queue_[m] = <<>>
  BY <1>1, <1>5 DEF Making
<1>7. /\ delete_channel_queue_' \in [Machine -> Seq({Sync})]
      /\ delete_channel_queue_'[m] = <<Sync>>
      /\ \A n \in Machine \ {m} : delete_channel_queue_'[n] = delete_channel_queue_[n]
  <2>1. Append(<<>>, Sync) = <<Sync>> /\ <<Sync>> \in Seq({Sync})
    OBVIOUS
  <2>2. delete_channel_queue_' = [delete_channel_queue_ EXCEPT ![m] = <<Sync>>]
    BY <2>1, <1>1, <1>6 DEF DeleteChannel
  <2> QED
    BY <2>1, <2>2, <1>2
<1>8. TypeInv'
  BY <1>1, <1>2, <1>3, <1>4, <1>7
<1>9. Making(m)'
  BY <1>1, <1>3, <1>4, <1>5, <1>6, <1>7, Names DEF Making, Asked
<1>10. MakingInv'
  BY <1>1, <1>3, <1>4, <1>7, <1>9, MakingOthers
<1>11. \A n \in Others(m) : received[m][n][Sync] > 0
  <2> DEFINE S == {n \in Others(m) : received[m][n][Sync] > 0}
  <2>1. /\ IsFiniteSet(Machine) /\ Cardinality(Machine) \in Nat
        /\ IsFiniteSet(Others(m)) /\ Cardinality(Others(m)) \in Nat
        /\ IsFiniteSet(S) /\ Cardinality(S) \in Nat /\ S \subseteq Others(m)
    BY FiniteMachines DEF Others
  <2>2. Cardinality(Others(m)) = Cardinality(Machine) - 1
    BY <2>1, FS_RemoveElement DEF Others
  <2>3. 1 + Cardinality(S) >= Cardinality(Machine)
    BY <1>1 DEF synchronization_counter
  <2> HIDE DEF S
  <2>4. S = Others(m)
    BY <2>1, <2>2, <2>3, FS_Subset
  <2> QED
    BY <2>4 DEF S
<1>12. HeardInv'
  <2>1. received' = received
    BY <1>1
  <2> QED
    BY <1>3, <1>11, <2>1 DEF HeardInv, Others
<1> QED
  BY <1>4, <1>8, <1>10, <1>12

\* The channel is deleted.
LEMMA StartWriterPreserves ==
    ASSUME IInv, NEW m \in Machine, StartWriter(m)
    PROVE  IInv'
<1> USE DEF IInv
<1>1. /\ writer[m] = "deleting" /\ Sync \notin Channels(m)
      /\ writer' = [writer EXCEPT ![m] = "started"]
      /\ UNCHANGED <<new_channel_queue_, delete_channel_queue_, scheduler>>
      /\ UNCHANGED <<link_unlink_queue_, send_message_queue_, channels, wire, sent,
                     txns_queue_, active_txns, received>>
  BY DEF StartWriter, requests
<1>2. /\ writer \in [Machine -> {"new", "creating", "collecting", "deleting", "started"}]
      /\ new_channel_queue_ \in [Machine -> Seq({Sync, Work, Main})]
      /\ delete_channel_queue_ \in [Machine -> Seq({Sync})]
      /\ scheduler \in [Machine -> {"new", "work", "main"}]
  BY DEF TypeInv, TypeOK
<1>3. /\ writer' \in [Machine -> {"new", "creating", "collecting", "deleting", "started"}]
      /\ writer'[m] = "started" /\ \A n \in Machine \ {m} : writer'[n] = writer[n]
      /\ \A n \in Machine : writer'[n] \in {"new", "creating"} <=> writer[n] \in {"new", "creating"}
  BY <1>1, <1>2
<1>4. /\ PlaceInv' /\ FlowInv' /\ TxnInv' /\ LinkInv'
      /\ \A n \in Machine : Channels(n)' = Channels(n)
      /\ /\ new_channel_queue_' \in [Machine -> Seq({Sync, Work, Main})]
         /\ delete_channel_queue_' \in [Machine -> Seq({Sync})]
         /\ writer' \in [Machine -> {"new", "creating", "collecting", "deleting", "started"}]
         /\ scheduler' \in [Machine -> {"new", "work", "main"}]
         => TypeInv'
  BY <1>1, <1>3, OnlyCalls
<1>5. Making(m)
  BY DEF MakingInv
<1>6. TypeInv'
  BY <1>1, <1>2, <1>3, <1>4
<1>7. Making(m)'
  BY <1>1, <1>3, <1>4, <1>5, Names DEF Making, Asked
<1>8. MakingInv'
  BY <1>1, <1>3, <1>4, <1>7, MakingOthers
<1>9. HeardInv'
  <2>1. received' = received
    BY <1>1
  <2> QED
    BY <1>1, <1>3, <2>1 DEF HeardInv, Others
<1> QED
  BY <1>4, <1>6, <1>8, <1>9

\* Each of the other machines is sent the first message of its channel.
LEMMA SendSyncPreserves ==
    ASSUME IInv, NEW m \in Machine, SendSync(m)
    PROVE  IInv'
<1> USE DEF IInv
<1>1. /\ writer[m] = "creating" /\ Sync \in Channels(m)
      /\ Send(m, Others(m), Sync, 1)
      /\ writer' = [writer EXCEPT ![m] = "collecting"]
      /\ UNCHANGED <<new_channel_queue_, delete_channel_queue_, link_unlink_queue_>>
      /\ UNCHANGED <<channel_results_, queues, undelivered_messages_, running>>
      /\ UNCHANGED <<wire, scheduler, sent, txns_queue_, active_txns, received>>
  BY DEF SendSync, requests, channels
<1>2. writer \in [Machine -> {"new", "creating", "collecting", "deleting", "started"}]
  BY DEF TypeInv, TypeOK
<1>3. /\ writer' \in [Machine -> {"new", "creating", "collecting", "deleting", "started"}]
      /\ writer'[m] = "collecting" /\ \A n \in Machine \ {m} : writer'[n] = writer[n]
  BY <1>1, <1>2
<1>4. \A n \in Machine : Taken(n)' = Taken(n) /\ Channels(n)' = Channels(n)
  BY <1>1 DEF Taken, Channels
<1>5. Sends(m, Others(m), Sync, 1)
  <2> SUFFICES ASSUME NEW f \in Machine, NEW n \in Machine, NEW d \in Channel
               PROVE  IF f = m /\ n \in Others(m) /\ d = Sync
                      THEN Sent(f, n, d) = 1 - 1 /\ Sent(f, n, d)' = 1
                      ELSE Sent(f, n, d)' = Sent(f, n, d)
    BY DEF Sends
  <2>1. CASE d = Sync
    <3>1. /\ Sent(f, n, Sync) =
                IF f # n /\ writer[f] \notin {"new", "creating"} THEN 1 ELSE 0
          /\ Sent(f, n, Sync)' =
                IF f # n /\ writer'[f] \notin {"new", "creating"} THEN 1 ELSE 0
      BY SentNow, SentThen DEF SentIs
    <3>2. f # m => writer'[f] = writer[f]
      BY <1>3
    <3>3. n \in Others(m) <=> n # m
      BY DEF Others
    <3> QED
      BY <1>1, <1>3, <2>1, <3>1, <3>2, <3>3
  <2>2. CASE d = Work
    BY <2>2, <1>1, Names, SentNow, SentThen DEF SentIs
  <2>3. CASE d = Main
    BY <2>3, Names, SentNow, SentThen DEF SentIs
  <2>4. CASE d \in Txn
    BY <2>4, <1>4, Names, SentNow, SentThen DEF SentIs
  <2> QED
    BY <2>1, <2>2, <2>3, <2>4, Names
<1>6. send_message_queue_' \in [Machine -> Seq(Messages)] /\ PlaceInv' /\ FlowInv'
  <2>1. Others(m) \in SUBSET Machine /\ 1 \in Nat \ {0}
    BY DEF Others
  <2> QED
    BY <2>1, <1>1, <1>5, Names, SendFacts
<1>7. TypeInv'
  <2>1. \A n \in Machine :
           /\ Channels(n)' \subseteq Channel
           /\ \A c \in Channels(n)' : channel_results_'[n][c] = IF c \in Txn THEN Main ELSE c
    BY <1>1, <1>4, Types
  <2>2. TypeOK'
    BY <1>1, <1>3, <1>6, <2>1 DEF TypeInv, TypeOK
  <2> QED
    BY <1>1, <2>2 DEF TypeInv
<1>8. Making(m)
  BY DEF MakingInv
<1>9. Making(m)'
  BY <1>1, <1>3, <1>4, <1>8, Names DEF Making, Asked
<1>10. MakingInv'
  BY <1>1, <1>3, <1>4, <1>9, MakingOthers
<1>11. HeardInv'
  BY <1>1, <1>3 DEF HeardInv, Others
<1>12. TxnInv'
  BY <1>1, <1>4, TxnSame
<1>13. LinkInv'
  BY <1>1, <1>4, LinkSame
<1> QED
  BY <1>6, <1>7, <1>10, <1>11, <1>12, <1>13

\* Each machine is sent the next transaction.
LEMMA SendTxnPreserves ==
    ASSUME IInv, SendTxn
    PROVE  IInv'
<1> USE DEF IInv
<1>1. /\ sent < MaxTxn /\ sent' = sent + 1
      /\ Send(Sender, Machine, Work, sent + 1)
      /\ UNCHANGED <<new_channel_queue_, delete_channel_queue_, link_unlink_queue_>>
      /\ UNCHANGED <<channel_results_, queues, undelivered_messages_, running>>
      /\ UNCHANGED <<wire, writer, scheduler, txns_queue_, active_txns, received>>
  BY DEF SendTxn, requests, channels
<1>2. sent \in Nat /\ sent' \in 0..MaxTxn /\ sent + 1 \in Nat \ {0} /\ (sent + 1) - 1 = sent
  <2>1. sent \in 0..MaxTxn
    BY DEF TypeInv, TypeOK
  <2> QED
    BY <2>1, <1>1, Names
<1>3. \A n \in Machine : Taken(n)' = Taken(n) /\ Channels(n)' = Channels(n)
  BY <1>1 DEF Taken, Channels
<1>4. Sends(Sender, Machine, Work, sent + 1)
  <2> SUFFICES ASSUME NEW f \in Machine, NEW n \in Machine, NEW d \in Channel
               PROVE  IF f = Sender /\ n \in Machine /\ d = Work
                      THEN Sent(f, n, d) = (sent + 1) - 1 /\ Sent(f, n, d)' = sent + 1
                      ELSE Sent(f, n, d)' = Sent(f, n, d)
    BY DEF Sends
  <2>1. CASE d = Work
    BY <2>1, <1>1, <1>2, SentNow, SentThen DEF SentIs
  <2>2. CASE d = Sync
    BY <2>2, <1>1, Names, SentNow, SentThen DEF SentIs
  <2>3. CASE d = Main
    BY <2>3, Names, SentNow, SentThen DEF SentIs
  <2>4. CASE d \in Txn
    BY <2>4, <1>3, Names, SentNow, SentThen DEF SentIs
  <2> QED
    BY <2>1, <2>2, <2>3, <2>4, Names
<1>5. send_message_queue_' \in [Machine -> Seq(Messages)] /\ PlaceInv' /\ FlowInv'
  <2>1. PICK i \in Nat \ {0} : i = sent + 1
    BY <1>2
  <2>2. Send(Sender, Machine, Work, i) /\ Sends(Sender, Machine, Work, i)
    BY <2>1, <1>1, <1>4
  <2>3. Machine \in SUBSET Machine
    OBVIOUS
  <2> QED
    BY <2>2, <2>3, <1>1, Names, SendFacts
<1>6. TypeInv'
  <2>1. \A n \in Machine :
           /\ Channels(n)' \subseteq Channel
           /\ \A c \in Channels(n)' : channel_results_'[n][c] = IF c \in Txn THEN Main ELSE c
    BY <1>1, <1>3, Types
  <2>2. TypeOK'
    BY <1>1, <1>2, <1>5, <2>1 DEF TypeInv, TypeOK
  <2> QED
    BY <1>1, <2>2 DEF TypeInv
<1>7. MakingInv'
  BY <1>1, <1>3, MakingSame
<1>8. HeardInv'
  BY <1>1, HeardSame
<1>9. TxnInv'
  BY <1>1, <1>3, TxnSame
<1>10. LinkInv'
  BY <1>1, <1>3, LinkSame
<1> QED
  BY <1>5, <1>6, <1>7, <1>8, <1>9, <1>10

\* A call of LinkChannel() or UnlinkChannel().
LEMMA RequestFacts ==
    ASSUME IInv, NEW m \in Machine, NEW type \in {"LINK_CHANNEL", "UNLINK_CHANNEL"},
           NEW t \in Txn, Request(m, type, t), ~ Wants(m, type, t)
    PROVE  /\ \A n \in Machine, ty \in {"LINK_CHANNEL", "UNLINK_CHANNEL"}, x \in Txn :
                 Wants(n, ty, x)' <=> Wants(n, ty, x) \/ (n = m /\ ty = type /\ x = t)
           /\ \A n \in Machine : IsInjective(link_unlink_queue_'[n])
           /\ link_unlink_queue_' \in
                 [Machine -> Seq([type : {"LINK_CHANNEL", "UNLINK_CHANNEL"}, channel : Txn])]
<1> DEFINE R == [type : {"LINK_CHANNEL", "UNLINK_CHANNEL"}, channel : Txn]
<1>1. link_unlink_queue_ \in [Machine -> Seq(R)]
  BY DEF IInv, TypeInv, TypeOK
<1>2. \A n \in Machine : IsInjective(link_unlink_queue_[n])
  BY DEF IInv, LinkInv
<1>3. PICK s \in Seq(R) : s = link_unlink_queue_[m]
  BY <1>1
<1>4. PICK e \in R : e = [type |-> type, channel |-> t]
  OBVIOUS
<1>5. link_unlink_queue_' = [link_unlink_queue_ EXCEPT ![m] = Append(s, e)]
  BY <1>3, <1>4 DEF Request
<1>6. IsInjective(s) /\ e \notin ToSet(s)
  BY <1>2, <1>3, <1>4 DEF Wants
<1> HIDE DEF R
<1>7. /\ Append(s, e) \in Seq(R) /\ IsInjective(Append(s, e))
      /\ ToSet(Append(s, e)) = ToSet(s) \cup {e}
  BY <1>6, AppendSet
<1>8. /\ link_unlink_queue_' \in [Machine -> Seq(R)]
      /\ \A n \in Machine : link_unlink_queue_'[n] = IF n = m THEN Append(s, e)
                                                     ELSE link_unlink_queue_[n]
  BY <1>1, <1>5, <1>7
<1>9. ASSUME NEW n \in Machine, NEW ty \in {"LINK_CHANNEL", "UNLINK_CHANNEL"}, NEW x \in Txn
      PROVE  Wants(n, ty, x)' <=> Wants(n, ty, x) \/ (n = m /\ ty = type /\ x = t)
  <2>1. CASE n = m
    <3>1. [type |-> ty, channel |-> x] = e <=> ty = type /\ x = t
      BY <1>4
    <3> QED
      BY <2>1, <3>1, <1>3, <1>7, <1>8 DEF Wants
  <2>2. CASE n # m
    BY <2>2, <1>8 DEF Wants
  <2> QED
    BY <2>1, <2>2
<1>10. \A n \in Machine : IsInjective(link_unlink_queue_'[n])
  BY <1>2, <1>7, <1>8
<1> QED
  BY <1>8, <1>9, <1>10 DEF R

\* The transaction is a new one, which was never linked.
LEMMA TakeTxnPreserves ==
    ASSUME IInv, NEW m \in Machine, TakeTxn(m)
    PROVE  IInv'
<1> USE DEF IInv
<1>1. PICK s \in Seq(Txn) : s = txns_queue_[m]
  BY DEF TypeInv, TypeOK
<1>2. s # <<>> /\ txns_queue_' = [txns_queue_ EXCEPT ![m] = Tail(s)]
  BY <1>1 DEF TakeTxn
<1>3. /\ Head(s) \in Txn /\ Tail(s) \in Seq(Txn) /\ 1 \in DOMAIN s /\ Head(s) = s[1]
      /\ Len(Tail(s)) = Len(s) - 1
      /\ \A k \in DOMAIN Tail(s) : k + 1 \in DOMAIN s /\ Tail(s)[k] = s[k + 1]
  BY <1>2, HeadTailProperties
<1>4. PICK t \in Txn : t = Head(s)
  BY <1>3
<1>5. /\ active_txns' = [active_txns EXCEPT ![m] = @ \cup {t}]
      /\ Send(m, Others(m), t, 1)
      /\ Request(m, "LINK_CHANNEL", t)
      /\ UNCHANGED <<new_channel_queue_, delete_channel_queue_>>
      /\ UNCHANGED <<channel_results_, queues, undelivered_messages_, running>>
      /\ UNCHANGED <<wire, writer, scheduler, sent, received>>
  BY <1>1, <1>4 DEF TakeTxn, channels
<1>6. /\ txns_queue_' \in [Machine -> Seq(Txn)]
      /\ txns_queue_'[m] = Tail(s) /\ \A n \in Machine \ {m} : txns_queue_'[n] = txns_queue_[n]
      /\ active_txns' \in [Machine -> SUBSET Txn]
      /\ active_txns'[m] = active_txns[m] \cup {t}
      /\ \A n \in Machine \ {m} : active_txns'[n] = active_txns[n]
  BY <1>2, <1>3, <1>5 DEF TypeInv, TypeOK
<1>7. \A n \in Machine : Channels(n)' = Channels(n)
  BY <1>5 DEF Channels
<1>8. /\ Took(m) \in Nat /\ Len(s) \in Nat /\ received[m][Sender][Work] \in Nat
      /\ Took(m) + Len(s) = received[m][Sender][Work]
      /\ Taken(m) = 1..Took(m)
  BY <1>1, TxnFacts
<1>9. t = Took(m) + 1 /\ Took(m)' = Took(m) + 1
  <2>1. s[1] = Took(m) + 1
    BY <1>1, <1>3 DEF TxnInv
  <2> QED
    BY <2>1, <1>3, <1>4, <1>5, <1>6, <1>8 DEF Took
<1>10. t \notin Taken(m)
  BY <1>8, <1>9
\* The transaction was not linked before.
<1>11. Linked(m, t)
  BY DEF LinkInv
<1>12. /\ ~ Wants(m, "LINK_CHANNEL", t) /\ ~ Wants(m, "UNLINK_CHANNEL", t)
       /\ t \notin Channels(m) /\ t \notin active_txns[m]
  BY <1>10, <1>11 DEF Linked
<1>13. /\ \A n \in Machine, ty \in {"LINK_CHANNEL", "UNLINK_CHANNEL"}, x \in Txn :
             Wants(n, ty, x)' <=> Wants(n, ty, x) \/ (n = m /\ ty = "LINK_CHANNEL" /\ x = t)
       /\ \A n \in Machine : IsInjective(link_unlink_queue_'[n])
       /\ link_unlink_queue_' \in
             [Machine -> Seq([type : {"LINK_CHANNEL", "UNLINK_CHANNEL"}, channel : Txn])]
  BY <1>5, <1>12, RequestFacts
<1>14. TxnInv'
  <2> SUFFICES ASSUME NEW n \in Machine
               PROVE  /\ Took(n)' >= 0
                      /\ \A i \in DOMAIN txns_queue_'[n] : txns_queue_'[n][i] = Took(n)' + i
                      /\ received'[n][Sender][Work] > 0 => Main \in Channels(n)'
    BY DEF TxnInv
  <2>1. received'[n][Sender][Work] > 0 => Main \in Channels(n)'
    BY <1>5, <1>7 DEF TxnInv
  <2>2. CASE n = m
    <3>1. ASSUME NEW i \in DOMAIN Tail(s) PROVE Tail(s)[i] = Took(m)' + i
      <4>1. i \in Nat
        BY <1>3
      <4>2. i + 1 \in DOMAIN s /\ Tail(s)[i] = s[i + 1]
        BY <1>3
      <4>3. s[i + 1] = Took(m) + (i + 1)
        BY <1>1, <4>2 DEF TxnInv
      <4> QED
        BY <4>1, <4>2, <4>3, <1>8, <1>9
    <3> QED
      BY <2>1, <2>2, <3>1, <1>6, <1>8, <1>9
  <2>3. CASE n # m
    <3>1. Took(n)' = Took(n) /\ txns_queue_'[n] = txns_queue_[n]
      BY <2>3, <1>5, <1>6 DEF Took
    <3> QED
      BY <2>1, <3>1 DEF TxnInv
  <2> QED
    BY <2>2, <2>3
<1>15. \A n \in Machine : Taken(n)' = IF n = m THEN Taken(m) \cup {t} ELSE Taken(n)
  <2> SUFFICES ASSUME NEW n \in Machine
               PROVE  Taken(n)' = IF n = m THEN Taken(m) \cup {t} ELSE Taken(n)
    OBVIOUS
  <2>1. CASE n # m
    BY <2>1, <1>5, <1>6 DEF Taken
  <2>2. CASE n = m
    <3>1. received[m][Sender][Work] = Took(m)' + Len(Tail(s))
      BY <1>3, <1>8, <1>9
    <3>2. \A x \in ToSet(Tail(s)) : x > t
      <4> SUFFICES ASSUME NEW x \in ToSet(Tail(s)) PROVE x > t
        OBVIOUS
      <4>1. PICK i \in DOMAIN Tail(s) : x = Tail(s)[i]
        BY DEF ToSet
      <4>2. i \in Nat /\ i >= 1
        BY <1>3
      <4>3. x = Took(m)' + i
        BY <4>1, <1>6, <1>14 DEF TxnInv
      <4> QED
        BY <4>2, <4>3, <1>8, <1>9
    <3>3. ToSet(Tail(s)) \subseteq ToSet(s)
      <4> SUFFICES ASSUME NEW x \in ToSet(Tail(s)) PROVE x \in ToSet(s)
        OBVIOUS
      <4>1. PICK i \in DOMAIN Tail(s) : x = Tail(s)[i]
        BY DEF ToSet
      <4>2. i + 1 \in DOMAIN s /\ x = s[i + 1]
        BY <4>1, <1>3
      <4> QED
        BY <4>2 DEF ToSet
    <3>4. ToSet(s) \subseteq ToSet(Tail(s)) \cup {t}
      <4> SUFFICES ASSUME NEW x \in ToSet(s), x # t PROVE x \in ToSet(Tail(s))
        OBVIOUS
      <4>1. PICK i \in DOMAIN s : x = s[i]
        BY DEF ToSet
      <4>2. i # 1
        BY <4>1, <1>3, <1>4
      <4>3. i - 1 \in DOMAIN Tail(s) /\ Tail(s)[i - 1] = s[i]
        BY <4>2, <1>2, HeadTailProperties
      <4> QED
        BY <4>1, <4>3 DEF ToSet
    <3>5. t \in 1..received[m][Sender][Work] /\ t \notin ToSet(Tail(s))
      <4>1. Len(s) >= 1
        BY <1>3
      <4>2. ~ (t > t)
        BY <1>8, <1>9
      <4> QED
        BY <4>1, <4>2, <3>2, <1>8, <1>9
    <3>6. /\ Taken(m) = 1..received[m][Sender][Work] \ ToSet(s)
          /\ Taken(m)' = 1..received[m][Sender][Work] \ ToSet(Tail(s))
      BY <1>1, <1>5, <1>6 DEF Taken
    <3> QED
      BY <2>2, <3>3, <3>4, <3>5, <3>6
  <2> QED
    BY <2>1, <2>2
<1>16. Sends(m, Others(m), t, 1)
  <2> SUFFICES ASSUME NEW f \in Machine, NEW n \in Machine, NEW d \in Channel
               PROVE  IF f = m /\ n \in Others(m) /\ d = t
                      THEN Sent(f, n, d) = 1 - 1 /\ Sent(f, n, d)' = 1
                      ELSE Sent(f, n, d)' = Sent(f, n, d)
    BY DEF Sends
  <2>1. CASE d \in Txn
    <3>1. /\ Sent(f, n, d) = IF f # n /\ d \in Taken(f) THEN 1 ELSE 0
          /\ Sent(f, n, d)' = IF f # n /\ d \in Taken(f)' THEN 1 ELSE 0
      BY <2>1, SentNow, SentThen DEF SentIs
    <3>2. d \in Taken(f)' <=> d \in Taken(f) \/ (f = m /\ d = t)
      BY <1>15
    <3>3. n \in Others(m) <=> n # m
      BY DEF Others
    <3> QED
      BY <3>1, <3>2, <3>3, <1>10
  <2>2. CASE d = Sync
    BY <2>2, <1>5, Names, SentNow, SentThen DEF SentIs
  <2>3. CASE d = Work
    BY <2>3, <1>5, Names, SentNow, SentThen DEF SentIs
  <2>4. CASE d = Main
    BY <2>4, Names, SentNow, SentThen DEF SentIs
  <2> QED
    BY <2>1, <2>2, <2>3, <2>4, Names
<1>17. send_message_queue_' \in [Machine -> Seq(Messages)] /\ PlaceInv' /\ FlowInv'
  <2>1. Others(m) \in SUBSET Machine /\ 1 \in Nat \ {0} /\ t \in Channel
    BY Names DEF Others
  <2> QED
    BY <2>1, <1>5, <1>16, SendFacts
<1>18. TypeInv'
  <2>1. \A n \in Machine :
           /\ Channels(n)' \subseteq Channel
           /\ \A c \in Channels(n)' : channel_results_'[n][c] = IF c \in Txn THEN Main ELSE c
    BY <1>5, <1>7, Types
  <2>2. TypeOK'
    BY <1>5, <1>6, <1>13, <1>17, <2>1 DEF TypeInv, TypeOK
  <2> QED
    BY <1>5, <2>2 DEF TypeInv
<1>19. MakingInv'
  BY <1>5, <1>7, MakingSame
<1>20. HeardInv'
  BY <1>5, HeardSame
<1>21. LinkInv'
  <2> SUFFICES ASSUME NEW n \in Machine, NEW x \in Txn PROVE Linked(n, x)'
    BY <1>13 DEF LinkInv
  <2>1. Linked(n, x)
    BY DEF LinkInv
  <2>2. /\ Wants(n, "LINK_CHANNEL", x)' <=>
              Wants(n, "LINK_CHANNEL", x) \/ (n = m /\ x = t)
        /\ Wants(n, "UNLINK_CHANNEL", x)' <=> Wants(n, "UNLINK_CHANNEL", x)
    <3>1. "LINK_CHANNEL" # "UNLINK_CHANNEL"
      OBVIOUS
    <3> QED
      BY <3>1, <1>13
  <2>3. received' = received /\ Channels(n)' = Channels(n)
    BY <1>5, <1>7
  <2>4. CASE ~ (n = m /\ x = t)
    <3>1. /\ x \in active_txns'[n] <=> x \in active_txns[n]
          /\ x \in Taken(n)' <=> x \in Taken(n)
      BY <2>4, <1>6, <1>15
    <3> QED
      BY <2>1, <2>2, <2>3, <2>4, <3>1 DEF Linked
  <2>5. CASE n = m /\ x = t
    <3>1. /\ x \in active_txns'[n] /\ x \in Taken(n)' /\ Wants(n, "LINK_CHANNEL", x)'
          /\ ~ Wants(n, "UNLINK_CHANNEL", x)' /\ x \notin Channels(n)'
      BY <2>2, <2>3, <2>5, <1>6, <1>12, <1>15
    <3> QED
      BY <3>1 DEF Linked
  <2> QED
    BY <2>4, <2>5
<1> QED
  BY <1>14, <1>17, <1>18, <1>19, <1>20, <1>21

\* The steps that read a message of a channel which is not a transaction's.
LEMMA OnlyReads ==
    ASSUME IInv, UNCHANGED <<requests, send_message_queue_, channel_results_,
                             undelivered_messages_, running, wire, writer, scheduler, sent>>,
           queues' \in [Machine -> [Channel -> Seq(Messages)]],
           received' \in [Machine -> [Machine -> [Channel -> Nat]]],
           txns_queue_' \in [Machine -> Seq(Txn)],
           active_txns' = active_txns,
           \A m, n \in Machine, c \in Channel : received[m][n][c] > 0 => received'[m][n][c] > 0
    PROVE  /\ TypeInv' /\ MakingInv' /\ HeardInv'
           /\ \A m \in Machine : Channels(m)' = Channels(m)
           /\ (\A m \in Machine : Taken(m)' = Taken(m)) => LinkInv' /\ SameSent
<1> USE DEF IInv
<1>1. /\ UNCHANGED <<new_channel_queue_, delete_channel_queue_, link_unlink_queue_>>
      /\ UNCHANGED <<send_message_queue_, channel_results_, undelivered_messages_, running,
                     wire, writer, scheduler, sent, active_txns>>
  BY DEF requests
<1>2. \A n \in Machine : Channels(n)' = Channels(n)
  BY <1>1 DEF Channels
<1>3. TypeInv'
  <2>1. \A n \in Machine :
           /\ Channels(n)' \subseteq Channel
           /\ \A c \in Channels(n)' : channel_results_'[n][c] = IF c \in Txn THEN Main ELSE c
    BY <1>1, <1>2, Types
  <2>2. TypeOK'
    BY <1>1, <2>1 DEF TypeInv, TypeOK
  <2> QED
    BY <1>1, <2>2 DEF TypeInv
<1>4. MakingInv'
  BY <1>1, <1>2, MakingSame
<1>5. HeardInv'
  BY <1>1, Names, HeardSame
<1>6. ASSUME \A m \in Machine : Taken(m)' = Taken(m) PROVE LinkInv' /\ SameSent
  <2>1. \A m, n \in Machine, t \in Txn : received[m][n][t] > 0 => received'[m][n][t] > 0
    BY Names
  <2>2. LinkInv'
    BY <1>1, <1>2, <1>6, <2>1, LinkSame
  <2>3. SameSent
    BY <1>1, <1>6, SentSame
  <2> QED
    BY <2>2, <2>3
<1> QED
  BY <1>2, <1>3, <1>4, <1>5, <1>6

\* What was received stays received.
LEMMA GotMore ==
    ASSUME TypeInv, NEW m \in Machine, NEW c \in Channel, NEW f \in Machine, NEW d \in Channel,
           NEW e \in Messages, Got(m, c, f, d, e)
    PROVE  \A n, g \in Machine, b \in Channel :
              received[n][g][b] > 0 => received'[n][g][b] > 0
<1> SUFFICES ASSUME NEW n \in Machine, NEW g \in Machine, NEW b \in Channel,
                    received[n][g][b] > 0
             PROVE  received'[n][g][b] > 0
  OBVIOUS
<1>1. received[n][g][b] \in Nat
  BY Types
<1>2. received'[n][g][b] = IF n = m /\ g = f /\ b = d THEN received[n][g][b] + 1
                           ELSE received[n][g][b]
  BY DEF Got
<1> QED
  BY <1>1, <1>2

\* The writer reads a message of the synchronization,
LEMMA GetSyncPreserves ==
    ASSUME IInv, NEW m \in Machine, GetSync(m)
    PROVE  IInv'
<1> USE DEF IInv
<1>1. /\ GotMessage(m, Sync)
      /\ UNCHANGED <<requests, send_message_queue_, channel_results_, undelivered_messages_,
                     running, wire, writer, scheduler, sent>>
      /\ UNCHANGED <<txns_queue_, active_txns>>
  BY DEF GetSync
<1>2. /\ \E f \in Machine, d \in Channel, e \in Messages : Got(m, Sync, f, d, e)
      /\ queues' \in [Machine -> [Channel -> Seq(Messages)]]
      /\ received' \in [Machine -> [Machine -> [Channel -> Nat]]]
      /\ PlaceInv'
      /\ SameSent => FlowInv'
  BY <1>1, Names, GotFacts
<1>3. PICK f \in Machine, d \in Channel, e \in Messages : Got(m, Sync, f, d, e)
  BY <1>2
<1>4. d = Sync
  <2>1. /\ d \in Channels(m) /\ Sync \in Channels(m)
        /\ channel_results_[m][d] = channel_results_[m][Sync]
    BY <1>3 DEF Got
  <2>2. /\ channel_results_[m][d] = IF d \in Txn THEN Main ELSE d
        /\ channel_results_[m][Sync] = IF Sync \in Txn THEN Main ELSE Sync
    BY <2>1, Types
  <2> QED
    BY <2>1, <2>2, Names
<1>5. \A n \in Machine : received'[n][Sender][Work] = received[n][Sender][Work]
  BY <1>3, <1>4, Names DEF Got
<1>6. txns_queue_' \in [Machine -> Seq(Txn)]
  BY <1>1 DEF TypeInv, TypeOK
<1>7. \A n, g \in Machine, b \in Channel : received[n][g][b] > 0 => received'[n][g][b] > 0
  BY <1>3, Names, GotMore
<1>8. /\ TypeInv' /\ MakingInv' /\ HeardInv'
      /\ \A n \in Machine : Channels(n)' = Channels(n)
      /\ (\A n \in Machine : Taken(n)' = Taken(n)) => LinkInv' /\ SameSent
  BY <1>1, <1>2, <1>6, <1>7, OnlyReads
<1>9. TxnInv' /\ \A n \in Machine : Taken(n)' = Taken(n)
  BY <1>1, <1>5, <1>8, TxnSame
<1> QED
  BY <1>2, <1>8, <1>9

\* the scheduler the next transaction,
LEMMA GetTxnPreserves ==
    ASSUME IInv, NEW m \in Machine, GetTxn(m)
    PROVE  IInv'
<1> USE DEF IInv
<1>1. /\ Main \in Channels(m) /\ GotMessage(m, Work)
      /\ txns_queue_' = [txns_queue_ EXCEPT ![m] = Append(@, NextMessage(m, Work).num)]
      /\ UNCHANGED <<requests, send_message_queue_, channel_results_, undelivered_messages_,
                     running, wire, writer, scheduler, sent>>
      /\ active_txns' = active_txns
  BY DEF GetTxn
<1>2. /\ \E f \in Machine, d \in Channel, e \in Messages : Got(m, Work, f, d, e)
      /\ queues' \in [Machine -> [Channel -> Seq(Messages)]]
      /\ received' \in [Machine -> [Machine -> [Channel -> Nat]]]
      /\ PlaceInv'
      /\ SameSent => FlowInv'
  BY <1>1, Names, GotFacts
<1>3. PICK f \in Machine, d \in Channel, e \in Messages : Got(m, Work, f, d, e)
  BY <1>2
<1>4. d = Work
  <2>1. /\ d \in Channels(m) /\ Work \in Channels(m)
        /\ channel_results_[m][d] = channel_results_[m][Work]
    BY <1>3 DEF Got
  <2>2. /\ channel_results_[m][d] = IF d \in Txn THEN Main ELSE d
        /\ channel_results_[m][Work] = IF Work \in Txn THEN Main ELSE Work
    BY <2>1, Types
  <2> QED
    BY <2>1, <2>2, Names
<1>5. PICK x \in Nat : x = received[m][Sender][Work]
  <2>1. received[m][Sender][Work] \in Nat
    BY Types, Names
  <2> QED
    BY <2>1
<1>6. f = Sender /\ e.num = x + 1 /\ x + 1 \in Txn
  <2>1. received[m][f][Work] < Sent(f, m, Work) /\ received[m][f][Work] \in Nat
    BY <1>3, <1>4, Types, Names DEF Got
  <2>2. Sent(f, m, Work) = IF f = Sender THEN sent ELSE 0
    BY SentFacts
  <2>3. f = Sender /\ x < sent
    BY <2>1, <2>2, <1>5
  <2>4. sent \in 0..MaxTxn
    BY DEF TypeInv, TypeOK
  <2>5. x + 1 \in Txn
    BY <2>3, <2>4, Names DEF Txn
  <2> QED
    BY <2>3, <2>5, <1>3, <1>4, <1>5 DEF Got
<1>7. PICK s \in Seq(Txn) : s = txns_queue_[m]
  BY DEF TypeInv, TypeOK
<1>8. txns_queue_' = [txns_queue_ EXCEPT ![m] = Append(s, x + 1)]
  <2>1. NextMessage(m, Work).num = x + 1
    BY <1>3, <1>6 DEF Got
  <2> QED
    BY <2>1, <1>1, <1>7
<1>9. /\ Append(s, x + 1) \in Seq(Txn) /\ Len(Append(s, x + 1)) = Len(s) + 1
      /\ Append(s, x + 1)[Len(s) + 1] = x + 1
      /\ \A k \in DOMAIN s : Append(s, x + 1)[k] = s[k]
      /\ \A k \in DOMAIN Append(s, x + 1) : k \in DOMAIN s \/ k = Len(s) + 1
  BY <1>6, AppendProperties
<1>10. /\ txns_queue_' \in [Machine -> Seq(Txn)]
       /\ txns_queue_'[m] = Append(s, x + 1)
       /\ \A n \in Machine \ {m} : txns_queue_'[n] = txns_queue_[n]
  BY <1>8, <1>9 DEF TypeInv, TypeOK
<1>11. \A n, g \in Machine, b \in Channel : received[n][g][b] > 0 => received'[n][g][b] > 0
  BY <1>3, Names, GotMore
<1>12. /\ TypeInv' /\ MakingInv' /\ HeardInv'
       /\ \A n \in Machine : Channels(n)' = Channels(n)
       /\ (\A n \in Machine : Taken(n)' = Taken(n)) => LinkInv' /\ SameSent
  BY <1>1, <1>2, <1>10, <1>11, OnlyReads
<1>13. /\ received'[m][Sender][Work] = x + 1
       /\ \A n \in Machine \ {m} : received'[n][Sender][Work] = received[n][Sender][Work]
  BY <1>3, <1>4, <1>5, <1>6, Names DEF Got
<1>14. \A n \in Machine : Took(n)' = Took(n)
  <2> SUFFICES ASSUME NEW n \in Machine PROVE Took(n)' = Took(n)
    OBVIOUS
  <2>1. CASE n = m
    <3>1. Len(s) \in Nat
      OBVIOUS
    <3>2. Took(m) = x - Len(s) /\ Took(m)' = (x + 1) - (Len(s) + 1)
      BY <1>5, <1>7, <1>9, <1>10, <1>13 DEF Took
    <3> QED
      BY <2>1, <3>1, <3>2
  <2>2. CASE n # m
    BY <2>2, <1>10, <1>13 DEF Took
  <2> QED
    BY <2>1, <2>2
<1>15. TxnInv'
  <2> SUFFICES ASSUME NEW n \in Machine
               PROVE  /\ Took(n)' >= 0
                      /\ \A i \in DOMAIN txns_queue_'[n] : txns_queue_'[n][i] = Took(n)' + i
                      /\ received'[n][Sender][Work] > 0 => Main \in Channels(n)'
    BY DEF TxnInv
  <2>1. Took(n)' >= 0
    BY <1>14 DEF TxnInv
  <2>2. CASE n = m
    <3>1. Took(m) \in Nat /\ Len(s) \in Nat /\ Took(m) + Len(s) = x
      BY <1>5, <1>7, TxnFacts
    <3>2. ASSUME NEW i \in DOMAIN Append(s, x + 1) PROVE Append(s, x + 1)[i] = Took(m) + i
      <4>1. CASE i \in DOMAIN s
        BY <4>1, <1>7, <1>9 DEF TxnInv
      <4>2. CASE i = Len(s) + 1
        BY <4>2, <3>1, <1>9
      <4> QED
        BY <3>2, <4>1, <4>2, <1>9
    <3>3. \A i \in DOMAIN txns_queue_'[n] : txns_queue_'[n][i] = Took(n)' + i
      <4>1. txns_queue_'[n] = Append(s, x + 1)
        BY <2>2, <1>10
      <4>2. Took(n)' = Took(m)
        BY <2>2, <1>14
      <4> QED
        BY <3>2, <4>1, <4>2
    <3>4. Main \in Channels(n)'
      BY <2>2, <1>1, <1>12
    <3> QED
      BY <2>1, <3>3, <3>4
  <2>3. CASE n # m
    BY <2>1, <2>3, <1>10, <1>12, <1>13, <1>14 DEF TxnInv
  <2> QED
    BY <2>2, <2>3
<1>16. \A n \in Machine : Taken(n)' = Taken(n)
  <2>1. TookInv /\ (TypeInv' /\ TxnInv' => TookInv')
    BY TookFacts, TookThen
  <2> QED
    BY <2>1, <1>12, <1>14, <1>15 DEF TookInv
<1> QED
  BY <1>2, <1>12, <1>15, <1>16

\* and the worker the only result of a machine for an active transaction.
LEMMA GetResultPreserves ==
    ASSUME IInv, NEW m \in Machine, GetResult(m)
    PROVE  IInv'
<1> USE DEF IInv
<1>1. /\ GotMessage(m, Main)
      /\ UNCHANGED <<new_channel_queue_, delete_channel_queue_, send_message_queue_>>
      /\ UNCHANGED <<channel_results_, undelivered_messages_, running, wire>>
      /\ UNCHANGED <<writer, scheduler, sent, txns_queue_>>
  BY DEF GetResult
<1>2. /\ \E f \in Machine, d \in Channel, e \in Messages : Got(m, Main, f, d, e)
      /\ queues' \in [Machine -> [Channel -> Seq(Messages)]]
      /\ received' \in [Machine -> [Machine -> [Channel -> Nat]]]
      /\ PlaceInv'
      /\ SameSent => FlowInv'
  BY <1>1, Names, GotFacts
<1>3. PICK f \in Machine, t \in Channel, e \in Messages : Got(m, Main, f, t, e)
  BY <1>2
<1>4. /\ e.from = f /\ e.channel = t /\ e = NextMessage(m, Main)
      /\ t \in Channels(m) /\ Main \in Channels(m)
      /\ channel_results_[m][t] = channel_results_[m][Main]
      /\ received[m][f][t] < Sent(f, m, t) /\ received[m][f][t] \in Nat
  BY <1>3, Types DEF Got, IsFor
<1>5. t \in Txn
  <2>1. /\ channel_results_[m][t] = IF t \in Txn THEN Main ELSE t
        /\ channel_results_[m][Main] = IF Main \in Txn THEN Main ELSE Main
    BY <1>4, Types
  <2>2. t # Main
    BY <1>4, SentFacts
  <2> QED
    BY <2>1, <2>2, <1>4
<1>6. f \in Others(m) /\ received[m][f][t] = 0
  <2>1. Sent(f, m, t) = IF f # m /\ t \in Taken(f) THEN 1 ELSE 0
    BY <1>5, SentFacts
  <2> QED
    BY <2>1, <1>4 DEF Others
<1>7. \A n, g \in Machine, b \in Channel :
          received'[n][g][b] = IF n = m /\ g = f /\ b = t THEN received[n][g][b] + 1
                               ELSE received[n][g][b]
  BY <1>3 DEF Got
<1>8. \A n, g \in Machine, b \in Channel : received[n][g][b] > 0 => received'[n][g][b] > 0
  BY <1>3, Names, GotMore
<1>9. \A n \in Machine : Channels(n)' = Channels(n)
  BY <1>1 DEF Channels
<1>10. \A n \in Machine : received'[n][Sender][Work] = received[n][Sender][Work]
  BY <1>5, <1>7, Names
<1>11. TxnInv' /\ \A n \in Machine : Taken(n)' = Taken(n)
  BY <1>1, <1>9, <1>10, TxnSame
<1>12. SameSent
  BY <1>1, <1>11, SentSame
<1>13. MakingInv'
  BY <1>1, <1>9, MakingSame
<1>14. HeardInv'
  BY <1>1, <1>8, Names, HeardSame
<1>15. Linked(m, t)
  BY <1>5 DEF LinkInv
<1>16. /\ t \in active_txns[m] /\ t \in Taken(m)
       /\ ~ Wants(m, "LINK_CHANNEL", t) /\ ~ Wants(m, "UNLINK_CHANNEL", t)
  <2>1. ~ (\A n \in Others(m) : received[m][n][t] > 0)
    BY <1>6
  <2> QED
    BY <2>1, <1>4, <1>15 DEF Linked
<1>17. active_txns \in [Machine -> SUBSET Txn]
  BY DEF TypeInv, TypeOK
<1>18. CASE ReadyToExecute(m, t, f)
  <2>1. /\ active_txns' = [active_txns EXCEPT ![m] = @ \ {t}]
        /\ Request(m, "UNLINK_CHANNEL", t)
    BY <1>4, <1>18 DEF GetResult
  <2>2. /\ active_txns' \in [Machine -> SUBSET Txn]
        /\ active_txns'[m] = active_txns[m] \ {t}
        /\ \A n \in Machine \ {m} : active_txns'[n] = active_txns[n]
    BY <2>1, <1>17
  <2>3. /\ \A n \in Machine, ty \in {"LINK_CHANNEL", "UNLINK_CHANNEL"}, x \in Txn :
              Wants(n, ty, x)' <=> Wants(n, ty, x) \/ (n = m /\ ty = "UNLINK_CHANNEL" /\ x = t)
        /\ \A n \in Machine : IsInjective(link_unlink_queue_'[n])
        /\ link_unlink_queue_' \in
              [Machine -> Seq([type : {"LINK_CHANNEL", "UNLINK_CHANNEL"}, channel : Txn])]
    BY <2>1, <1>5, <1>16, RequestFacts
  <2>4. TypeInv'
    <3>1. \A n \in Machine :
             /\ Channels(n)' \subseteq Channel
             /\ \A c \in Channels(n)' : channel_results_'[n][c] = IF c \in Txn THEN Main ELSE c
      BY <1>1, <1>9, Types
    <3>2. TypeOK'
      BY <1>1, <1>2, <2>2, <2>3, <3>1 DEF TypeInv, TypeOK
    <3> QED
      BY <1>1, <3>2 DEF TypeInv
  <2>5. \A n \in Others(m) : received'[m][n][t] > 0
    <3> SUFFICES ASSUME NEW n \in Others(m) PROVE received'[m][n][t] > 0
      OBVIOUS
    <3>1. n \in Machine
      BY DEF Others
    <3>2. CASE n = f
      BY <3>2, <1>6, <1>7
    <3>3. CASE n # f
      BY <3>1, <3>3, <1>7, <1>18 DEF ReadyToExecute
    <3> QED
      BY <3>2, <3>3
  <2>6. LinkInv'
    <3> SUFFICES ASSUME NEW n \in Machine, NEW x \in Txn PROVE Linked(n, x)'
      BY <2>3 DEF LinkInv
    <3>1. Linked(n, x)
      BY DEF LinkInv
    <3>2. /\ Wants(n, "UNLINK_CHANNEL", x)' <=>
                Wants(n, "UNLINK_CHANNEL", x) \/ (n = m /\ x = t)
          /\ Wants(n, "LINK_CHANNEL", x)' <=> Wants(n, "LINK_CHANNEL", x)
      <4>1. "LINK_CHANNEL" # "UNLINK_CHANNEL"
        OBVIOUS
      <4> QED
        BY <4>1, <2>3
    <3>3. Taken(n)' = Taken(n) /\ Channels(n)' = Channels(n)
      BY <1>9, <1>11
    <3>4. CASE ~ (n = m /\ x = t)
      <4>1. x \in active_txns'[n] <=> x \in active_txns[n]
        BY <2>2, <3>4
      <4>2. (\A g \in Others(n) : received[n][g][x] > 0) =>
               \A g \in Others(n) : received'[n][g][x] > 0
        BY <1>8, Names DEF Others
      <4> QED
        BY <3>1, <3>2, <3>3, <3>4, <4>1, <4>2 DEF Linked, Others
    <3>5. CASE n = m /\ x = t
      <4>1. /\ x \notin active_txns'[n] /\ x \in Taken(n)' /\ x \in Channels(n)'
            /\ Wants(n, "UNLINK_CHANNEL", x)' /\ ~ Wants(n, "LINK_CHANNEL", x)'
            /\ \A g \in Others(n) : received'[n][g][x] > 0
        BY <2>2, <2>5, <3>2, <3>3, <3>5, <1>4, <1>16
      <4> QED
        BY <4>1 DEF Linked, Others
    <3> QED
      BY <3>4, <3>5
  <2> QED
    BY <2>4, <2>6, <1>2, <1>11, <1>12, <1>13, <1>14
<1>19. CASE ~ ReadyToExecute(m, t, f)
  <2>1. active_txns' = active_txns /\ link_unlink_queue_' = link_unlink_queue_
    BY <1>4, <1>19 DEF GetResult
  <2>2. TypeInv'
    <3>1. \A n \in Machine :
             /\ Channels(n)' \subseteq Channel
             /\ \A c \in Channels(n)' : channel_results_'[n][c] = IF c \in Txn THEN Main ELSE c
      BY <1>1, <1>9, Types
    <3>2. TypeOK'
      BY <1>1, <1>2, <2>1, <3>1 DEF TypeInv, TypeOK
    <3> QED
      BY <1>1, <3>2 DEF TypeInv
  <2>3. LinkInv'
    <3>1. \A n, g \in Machine, x \in Txn : received[n][g][x] > 0 => received'[n][g][x] > 0
      BY <1>8, Names
    <3> QED
      BY <2>1, <3>1, <1>9, <1>11, LinkSame
  <2> QED
    BY <2>2, <2>3, <1>2, <1>11, <1>12, <1>13, <1>14
<1> QED
  BY <1>18, <1>19

-----------------------------------------------------------------------------
(* The theorems. *)

\* Nothing changes.
LEMMA StutterPreserves ==
    ASSUME IInv, UNCHANGED vars
    PROVE  IInv'
<1> USE DEF IInv
<1>1. /\ UNCHANGED <<requests, send_message_queue_, channels, wire, threads>>
      /\ UNCHANGED <<new_channel_queue_, delete_channel_queue_, link_unlink_queue_>>
      /\ UNCHANGED <<channel_results_, queues, undelivered_messages_, running>>
      /\ UNCHANGED <<writer, scheduler, sent, txns_queue_, active_txns, received>>
  BY DEF vars, requests, channels, threads
<1>2. SameSent /\ MakingInv' /\ HeardInv' /\ TxnInv' /\ LinkInv'
  BY <1>1, OnlyMessages
<1>3. PlaceInv' /\ FlowInv'
  BY <1>1, <1>2, PlaceSame, FlowSame
<1>4. TypeInv'
  <2>1. \A n \in Machine : Channels(n)' = Channels(n)
    BY <1>1 DEF Channels
  <2>2. \A n \in Machine :
           /\ Channels(n)' \subseteq Channel
           /\ \A c \in Channels(n)' : channel_results_'[n][c] = IF c \in Txn THEN Main ELSE c
    BY <1>1, <2>1, Types
  <2>3. TypeOK'
    BY <1>1, <2>2 DEF TypeInv, TypeOK
  <2> QED
    BY <1>1, <2>3 DEF TypeInv
<1> QED
  BY <1>2, <1>3, <1>4

\* Every step preserves the invariant,
LEMMA NextIsInductive == IInv /\ [Next]_vars => IInv'
<1> SUFFICES ASSUME IInv, [Next]_vars PROVE IInv'
  OBVIOUS
<1>1. ASSUME NEW m \in Machine, Requests(m) PROVE IInv'
  BY <1>1, CreateChannelPreserves, RemoveChannelPreserves, LinkOrUnlinkPreserves DEF Requests
<1>2. ASSUME NEW m \in Machine, NEW n \in Machine, ReceiveRemote(m, n) PROVE IInv'
  BY <1>2, ReceiveRemotePreserves
<1>3. ASSUME NEW m \in Machine, SendMessage(m) PROVE IInv'
  BY <1>3, SendMessagePreserves
<1>4. ASSUME NEW m \in Machine, RunWriter(m) PROVE IInv'
  BY <1>4, CreateSyncPreserves, SendSyncPreserves, GetSyncPreserves, DeleteSyncPreserves,
     StartWriterPreserves DEF RunWriter
<1>5. ASSUME NEW m \in Machine, RunScheduler(m) PROVE IInv'
  BY <1>5, CreateWorkPreserves, CreateMainPreserves, GetTxnPreserves DEF RunScheduler
<1>6. ASSUME NEW m \in Machine, RunWorker(m) PROVE IInv'
  BY <1>6, TakeTxnPreserves, GetResultPreserves DEF RunWorker
<1>7. ASSUME SendTxn PROVE IInv'
  BY <1>7, SendTxnPreserves
<1>8. ASSUME UNCHANGED vars PROVE IInv'
  BY <1>8, StutterPreserves
<1> QED
  BY <1>1, <1>2, <1>3, <1>4, <1>5, <1>6, <1>7, <1>8 DEF Next

\* which always holds.
LEMMA Invariance == Spec => []IInv
BY InitIsInductive, NextIsInductive, PTL DEF Spec

\* Every variable of the multiplexer and of the threads that use it keeps its type, and a
\* channel never gets the queue of another one but the linked channel of a transaction,
\* which has that of the main channel.
THEOREM TypeCorrect == Spec => []TypeOK
<1>1. IInv => TypeOK
  BY DEF IInv, TypeInv
<1> QED
  BY <1>1, Invariance, PTL

\* Whenever Run() makes, links, unlinks or deletes a channel, each message to it is read
\* once by the thread that owns it, and those of a machine in the order of their sending.
THEOREM InOrder == Spec => []EachOnceInOrder
<1>1. IInv => EachOnceInOrder
  BY ImpliesEachOnceInOrder DEF IInv
<1> QED
  BY <1>1, Invariance, PTL

\* A worker that reads a result of another machine has the transaction it is for among
\* its active ones: the CHECK in the worker's loop does not fail.
THEOREM ResultsMeet == Spec => []ResultsMeetTheirTxn
BY ImpliesResultsMeet, Invariance, PTL

\* The writer of a sequencer goes on only when those of all machines have made the
\* channel of the synchronization.
THEOREM StartsTogether == Spec => []StartTogether
BY ImpliesStartTogether, Invariance, PTL

\* No name is asked for while it is in use, so that Run() never returns for a channel that
\* is there already.
THEOREM LoopsRun == Spec => [](\A m \in Machine : running[m])
<1>1. IInv => \A m \in Machine : running[m]
  BY DEF IInv, TypeInv
<1> QED
  BY <1>1, Invariance, PTL
=============================================================================
