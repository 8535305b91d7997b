-------------------------- MODULE AtomicQueueProofs --------------------------
(***************************************************************************)
(* Proofs about AtomicQueue, for any threads at its two ends and any size  *)
(* of its buffer: although each end looks at the other one without that    *)
(* end's mutex, no thread reads what another one is writing, and to its    *)
(* users it is a queue whose operations take effect at one instant.        *)
(***************************************************************************)
EXTENDS AtomicQueue, SequenceTheorems, TLAPS

\* The ring without remainders: the slot after x, how many slots are in use from f to b,
\* and the i-th of them, counted from 0.
After(x, n)      == IF x + 1 = n THEN 0 ELSE x + 1
Between(f, b, n) == IF f <= b THEN b - f ELSE b + n - f
Place(f, i, n)   == IF f + i < n THEN f + i ELSE f + i - n

\* What slots hold, and what the ring in them holds, the oldest item first.
Holding(q, n, V) == \A i \in Slots(n) : q[i] \in V
Held(q, f, b, n) == [i \in 1..Between(f, b, n) |-> q[Place(f, i - 1, n)]]

PushPc  == {"idle", "lock_back", "compare_full", "lock_front", "resize", "move", "store", "set_back"}
PopPc   == {"idle", "lock_front", "compare_empty", "load", "advance", "return"}
Value   == Item \cup {Nothing}

TypeInv ==
    /\ size_ \in Nat \ {0}
    /\ front_ \in Slots(size_) /\ back_ \in Slots(size_)
    /\ queue_ \in [DOMAIN queue_ -> Value] /\ Slots(size_) \subseteq DOMAIN queue_
    /\ front_mutex_ \in Thread \cup {NoOne} /\ back_mutex_ \in Thread \cup {NoOne}
    /\ pc \in [Thread -> PushPc \cup PopPc]
    /\ \A p \in Pusher : pc[p] \in PushPc
    /\ \A q \in Popper : pc[q] \in PopPc
    /\ item \in [Thread -> Value]
    /\ pushed \in 0..NumItems

\* A mutex is held from its lock to its unlock, by at most one thread as it has one owner.
MutexInv ==
    /\ \A p \in Pusher :
          /\ pc[p] \notin {"idle", "lock_back"} <=> back_mutex_ = p
          /\ pc[p] \in {"resize", "move"} <=> front_mutex_ = p
    /\ \A q \in Popper : pc[q] \in {"compare_empty", "load", "advance"} <=> front_mutex_ = q

\* The buffer is not full when an item is stored, whatever the Pop()s do meanwhile, and not
\* empty when one is loaded, whatever the Push()es do.
RoomInv ==
    /\ \A p \in Pusher : pc[p] \in {"store", "set_back"} => front_ # After(back_, size_)
    /\ \A q \in Popper : pc[q] \in {"load", "advance"} => front_ # back_

\* The item in the last slot is not in the queue yet, the one in the first slot still is.
SlotInv ==
    /\ \A p \in Pusher : pc[p] = "set_back" => queue_[back_] = item[p]
    /\ \A q \in Popper : pc[q] = "advance" => queue_[front_] = item[q]

\* Before the queue moves to the new half of the buffer, both halves hold it.
MoveInv ==
    \A p \in Pusher : pc[p] = "move" =>
        /\ Slots(2 * size_) \subseteq DOMAIN queue_
        /\ \A i \in Slots(Between(front_, back_, size_)) :
              queue_[size_ + i] = queue_[Place(front_, i, size_)]

\* What the threads have in their hands.
ItemInv ==
    /\ \A p \in Pusher : IF pc[p] = "idle" THEN item[p] = Nothing ELSE item[p] \in Item
    /\ \A q \in Popper : pc[q] \notin {"advance", "return"} => item[q] = Nothing

IInv == TypeInv /\ MutexInv /\ RoomInv /\ SlotInv /\ MoveInv /\ ItemInv

-----------------------------------------------------------------------------
(* The ring. *)

\* The remainders of the code.
LEMMA Remainders ==
    ASSUME NEW n \in Nat \ {0}, NEW f \in Slots(n), NEW b \in Slots(n)
    PROVE  /\ (b + 1) % n = After(b, n)
           /\ (b + n - f) % n = Between(f, b, n)
           /\ \A i \in Slots(n) : (f + i) % n = Place(f, i, n)
<1>1. \A x \in 0..(n - 1) : x % n = x
  OBVIOUS
<1>2. \A x \in n..(2 * n - 1) : x % n = x - n
  OBVIOUS
<1>3. (b + 1) % n = After(b, n)
  BY <1>1, <1>2 DEF After, Slots
<1>4. (b + n - f) % n = Between(f, b, n)
  BY <1>1, <1>2 DEF Between, Slots
<1>5. ASSUME NEW i \in Slots(n) PROVE (f + i) % n = Place(f, i, n)
  BY <1>1, <1>2 DEF Place, Slots
<1> QED
  BY <1>3, <1>4, <1>5

\* Counting around the ring.
LEMMA RingFacts ==
    ASSUME NEW n \in Nat \ {0}, NEW f \in Slots(n), NEW b \in Slots(n)
    PROVE  /\ After(b, n) \in Slots(n) /\ After(f, n) \in Slots(n)
           /\ Between(f, b, n) \in Slots(n) /\ Between(f, b, n) \in Nat
           /\ Between(f, b, n) = 0 <=> f = b
           /\ Place(f, 0, n) = f /\ Place(f, Between(f, b, n), n) = b
           /\ \A i \in Slots(n) : Place(f, i, n) \in Slots(n)
           /\ \A i \in Slots(Between(f, b, n)) : i \in Slots(n) /\ Place(f, i, n) # b
BY DEF After, Between, Place, Slots

\* Moving back_ of a ring that is not full.
LEMMA BackFacts ==
    ASSUME NEW n \in Nat \ {0}, NEW f \in Slots(n), NEW b \in Slots(n), f # After(b, n)
    PROVE  Between(f, After(b, n), n) = Between(f, b, n) + 1
BY DEF After, Between, Slots

\* Moving front_ of a ring that is not empty.
LEMMA FrontFacts ==
    ASSUME NEW n \in Nat \ {0}, NEW f \in Slots(n), NEW b \in Slots(n), f # b
    PROVE  /\ Between(After(f, n), b, n) = Between(f, b, n) - 1
           /\ After(f, n) # After(b, n)
           /\ \A i \in Slots(n) : i + 1 \in Slots(n) => Place(After(f, n), i, n) = Place(f, i + 1, n)
BY DEF After, Between, Place, Slots

\* The ring of the resized buffer.
LEMMA NewHalfFacts ==
    ASSUME NEW n \in Nat \ {0}, NEW c \in Slots(n)
    PROVE  /\ n \in Slots(2 * n) /\ n + c \in Slots(2 * n)
           /\ Between(n, n + c, 2 * n) = c /\ n # After(n + c, 2 * n)
           /\ \A i \in Slots(n) : Place(n, i, 2 * n) = n + i
BY DEF After, Between, Place, Slots

\* An interval from 1 has one upper end.
LEMMA SameInterval ==
    ASSUME NEW a \in Nat, NEW b \in Nat, 1..a = 1..b
    PROVE  a = b
<1>1. CASE a < b
  <2>1. b \in 1..b /\ b \notin 1..a
    BY <1>1
  <2> QED
    BY <2>1
<1>2. CASE b < a
  <2>1. a \in 1..a /\ a \notin 1..b
    BY <1>2
  <2> QED
    BY <2>1
<1> QED
  BY <1>1, <1>2

\* What a ring holds is a sequence.
LEMMA HeldFacts ==
    ASSUME NEW n \in Nat \ {0}, NEW f \in Slots(n), NEW b \in Slots(n), NEW V,
           NEW q, Holding(q, n, V)
    PROVE  /\ Held(q, f, b, n) \in Seq(V) /\ Len(Held(q, f, b, n)) = Between(f, b, n)
           /\ \A i \in 1..Between(f, b, n) : Held(q, f, b, n)[i] = q[Place(f, i - 1, n)]
<1> DEFINE c == Between(f, b, n)
           s == Held(q, f, b, n)
<1>1. c \in Nat /\ c < n /\ \A i \in Slots(n) : Place(f, i, n) \in Slots(n)
  BY RingFacts DEF Slots
<1>2. s = [i \in 1..c |-> q[Place(f, i - 1, n)]]
  BY DEF Held
<1> HIDE DEF c, s
<1>3. ASSUME NEW i \in 1..c PROVE q[Place(f, i - 1, n)] \in V
  <2>1. i - 1 \in Slots(n)
    BY <1>1 DEF Slots
  <2> QED
    BY <1>1, <2>1 DEF Holding
<1>4. s \in [1..c -> V] /\ \A i \in 1..c : s[i] = q[Place(f, i - 1, n)]
  BY <1>2, <1>3
<1>5. s \in Seq(V)
  BY <1>1, <1>4, SeqDef
<1>6. Len(s) = c
  <2>1. Len(s) \in Nat /\ DOMAIN s = 1..Len(s) /\ DOMAIN s = 1..c
    BY <1>4, <1>5, LenProperties
  <2>2. c \in Nat
    BY <1>1
  <2> QED
    BY <2>1, <2>2, SameInterval
<1> QED
  BY <1>4, <1>5, <1>6 DEF c, s

\* Moving back_ appends the item in its slot.
LEMMA HeldAppend ==
    ASSUME NEW n \in Nat \ {0}, NEW f \in Slots(n), NEW b \in Slots(n), NEW V,
           NEW q, Holding(q, n, V), f # After(b, n)
    PROVE  Held(q, f, After(b, n), n) = Append(Held(q, f, b, n), q[b])
<1> DEFINE c == Between(f, b, n)
           s == Held(q, f, b, n)
           t == Held(q, f, After(b, n), n)
<1>1. c \in Nat /\ c + 1 = Between(f, After(b, n), n) /\ Place(f, c, n) = b
         /\ After(b, n) \in Slots(n)
  <2>1. c \in Nat /\ Place(f, c, n) = b /\ After(b, n) \in Slots(n)
    BY RingFacts
  <2>2. Between(f, After(b, n), n) = c + 1
    BY BackFacts
  <2> QED
    BY <2>1, <2>2
<1>2. s \in Seq(V) /\ Len(s) = c /\ \A i \in 1..c : s[i] = q[Place(f, i - 1, n)]
  BY HeldFacts
<1>3. t \in Seq(V) /\ Len(t) = c + 1 /\ \A i \in 1..(c + 1) : t[i] = q[Place(f, i - 1, n)]
  BY <1>1, HeldFacts
<1>4. q[b] \in V
  BY DEF Holding
<1> HIDE DEF c, s, t
<1>5. /\ Append(s, q[b]) \in Seq(V) /\ Len(Append(s, q[b])) = c + 1
      /\ Append(s, q[b])[c + 1] = q[b] /\ \A i \in 1..c : Append(s, q[b])[i] = s[i]
  BY <1>2, <1>4, AppendProperties
<1>6. ASSUME NEW i \in 1..(c + 1) PROVE t[i] = Append(s, q[b])[i]
  <2>1. CASE i = c + 1
    <3>1. i - 1 = c
      BY <1>1, <2>1
    <3> QED
      BY <1>1, <1>3, <1>5, <2>1, <3>1
  <2>2. CASE i \in 1..c
    BY <1>2, <1>3, <1>5, <2>2
  <2>3. c \in Nat
    BY <1>1
  <2>4. i = c + 1 \/ i \in 1..c
    BY <2>3
  <2> QED
    BY <2>1, <2>2, <2>4
<1>7. t = Append(s, q[b])
  BY <1>3, <1>5, <1>6, SeqEqual
<1> QED
  BY <1>7 DEF s, t

\* Moving front_ takes the first item out.
LEMMA HeldTail ==
    ASSUME NEW n \in Nat \ {0}, NEW f \in Slots(n), NEW b \in Slots(n), NEW V,
           NEW q, Holding(q, n, V), f # b
    PROVE  /\ Held(q, f, b, n) # <<>> /\ Head(Held(q, f, b, n)) = q[f]
           /\ Held(q, After(f, n), b, n) = Tail(Held(q, f, b, n))
<1> DEFINE c == Between(f, b, n)
           s == Held(q, f, b, n)
           t == Held(q, After(f, n), b, n)
<1>1. /\ c \in Nat \ {0} /\ c < n /\ c - 1 = Between(After(f, n), b, n) /\ Place(f, 0, n) = f
      /\ After(f, n) \in Slots(n)
      /\ \A i \in Slots(n) : i + 1 \in Slots(n) => Place(After(f, n), i, n) = Place(f, i + 1, n)
  <2>1. c \in Nat /\ c \in Slots(n) /\ (c = 0 <=> f = b) /\ Place(f, 0, n) = f
           /\ After(f, n) \in Slots(n)
    BY RingFacts
  <2>2. /\ Between(After(f, n), b, n) = c - 1
        /\ \A i \in Slots(n) : i + 1 \in Slots(n) => Place(After(f, n), i, n) = Place(f, i + 1, n)
    BY FrontFacts
  <2> HIDE DEF c
  <2>3. c \in Nat \ {0} /\ c < n
    BY <2>1 DEF Slots
  <2> QED
    BY <2>1, <2>2, <2>3
<1>2. s \in Seq(V) /\ Len(s) = c /\ \A i \in 1..c : s[i] = q[Place(f, i - 1, n)]
  <2> HIDE DEF s
  <2>1. s = Held(q, f, b, n)
    BY DEF s
  <2> QED
    BY <2>1, HeldFacts
<1>3. t \in Seq(V) /\ Len(t) = c - 1
         /\ \A i \in 1..(c - 1) : t[i] = q[Place(After(f, n), i - 1, n)]
  BY <1>1, HeldFacts
<1> HIDE DEF c, s, t
<1>4. s # <<>> /\ Head(s) = s[1]
  BY <1>1, <1>2
<1>5. Tail(s) \in Seq(V) /\ Len(Tail(s)) = c - 1 /\ \A i \in 1..(c - 1) : Tail(s)[i] = s[i + 1]
  BY <1>1, <1>2, <1>4, HeadTailProperties
<1>6. ASSUME NEW i \in 1..(c - 1) PROVE t[i] = Tail(s)[i]
  <2>1. i - 1 \in Slots(n) /\ (i - 1) + 1 \in Slots(n) /\ (i - 1) + 1 = (i + 1) - 1
           /\ i + 1 \in 1..c
    BY <1>1 DEF Slots
  <2>2. Place(After(f, n), i - 1, n) = Place(f, (i + 1) - 1, n)
    BY <1>1, <2>1
  <2> QED
    BY <1>2, <1>3, <1>5, <2>1, <2>2
<1>7. t = Tail(s)
  BY <1>3, <1>5, <1>6, SeqEqual
<1>8. s[1] = q[f]
  <2>1. 1 \in 1..c /\ 1 - 1 = 0
    BY <1>1
  <2> QED
    BY <1>1, <1>2, <2>1
<1> QED
  BY <1>4, <1>7, <1>8 DEF s, t

\* A write to the slot at back_ does not disturb what is held.
LEMMA HeldSame ==
    ASSUME NEW n \in Nat \ {0}, NEW f \in Slots(n), NEW b \in Slots(n), NEW q, NEW r,
           \A i \in Slots(n) : i # b => r[i] = q[i]
    PROVE  Held(r, f, b, n) = Held(q, f, b, n)
<1> DEFINE c == Between(f, b, n)
<1>1. c \in Nat /\ \A i \in Slots(c) : i \in Slots(n) /\ Place(f, i, n) # b
  BY RingFacts
<1>2. \A i \in Slots(n) : Place(f, i, n) \in Slots(n)
  BY RingFacts
<1> HIDE DEF c
<1>3. ASSUME NEW i \in 1..c PROVE r[Place(f, i - 1, n)] = q[Place(f, i - 1, n)]
  <2>1. i - 1 \in Slots(c)
    BY <1>1 DEF Slots
  <2> QED
    BY <1>1, <1>2, <2>1
<1> QED
  BY <1>3 DEF Held, c

\* The new half holds the same as the old one.
LEMMA HeldMoved ==
    ASSUME NEW n \in Nat \ {0}, NEW f \in Slots(n), NEW b \in Slots(n), NEW q,
           \A i \in Slots(Between(f, b, n)) : q[n + i] = q[Place(f, i, n)]
    PROVE  Held(q, n, n + Between(f, b, n), 2 * n) = Held(q, f, b, n)
<1> DEFINE c == Between(f, b, n)
<1>1. c \in Nat /\ c \in Slots(n)
  BY RingFacts
<1>2. Between(n, n + c, 2 * n) = c /\ \A i \in Slots(n) : Place(n, i, 2 * n) = n + i
  BY <1>1, NewHalfFacts
<1> HIDE DEF c
<1>3. ASSUME NEW i \in 1..c PROVE q[Place(n, i - 1, 2 * n)] = q[Place(f, i - 1, n)]
  <2>1. i - 1 \in Slots(c) /\ i - 1 \in Slots(n)
    BY <1>1 DEF Slots
  <2> QED
    BY <1>2, <2>1 DEF c
<1> QED
  BY <1>2, <1>3 DEF Held, c

-----------------------------------------------------------------------------
(* The invariant. *)

\* The code's remainders, in a state of the queue.
LEMMA Ends ==
    TypeInv => /\ (back_ + 1) % size_ = After(back_, size_)
               /\ (front_ + 1) % size_ = After(front_, size_)
               /\ count = Between(front_, back_, size_)
               /\ \A i \in Slots(size_) : (front_ + i) % size_ = Place(front_, i, size_)
BY Remainders DEF TypeInv, count

\* The threads at one end are not the ones at the other.
LEMMA Threads ==
    ASSUME NEW t
    PROVE  /\ t \in Pusher => t \in Thread /\ t \notin Popper
           /\ t \in Popper => t \in Thread /\ t \notin Pusher
           /\ t \in Thread => t # NoOne
BY AtomicQueueAssumption DEF Thread

\* The new queue, which is empty.
LEMMA InitIsInductive == Init => IInv
<1> SUFFICES ASSUME Init PROVE IInv
  OBVIOUS
<1> USE DEF Init
<1>1. TypeInv
  BY AtomicQueueAssumption DEF TypeInv, Slots, PushPc, PopPc, Value, Thread
<1>2. MutexInv
  BY Threads DEF MutexInv, Thread
<1>3. RoomInv /\ SlotInv /\ MoveInv
  BY DEF RoomInv, SlotInv, MoveInv, Thread
<1>4. ItemInv
  BY DEF ItemInv, Thread
<1> QED
  BY <1>1, <1>2, <1>3, <1>4 DEF IInv

\* The call of a Push(), which changes nothing but what its thread has in hand.
LEMMA CallPushPreserves ==
    ASSUME IInv, NEW t \in Pusher, CallPush(t)
    PROVE  IInv'
<1> USE DEF IInv, CallPush, Goto, At, ring, mutexes
<1>0. t \in Thread /\ t \notin Popper
  BY Threads
<1>1. TypeInv'
  <2>1. pushed' \in 0..NumItems /\ pushed' \in Item
    BY AtomicQueueAssumption DEF TypeInv, Item
  <2> QED
    BY <1>0, <2>1 DEF TypeInv, PushPc, PopPc, Value, Slots, Thread
<1>2. MutexInv'
  BY <1>0 DEF TypeInv, MutexInv, Thread
<1>3. RoomInv' /\ SlotInv'
  BY <1>0 DEF TypeInv, RoomInv, SlotInv, Thread
<1>4. MoveInv'
  BY <1>0 DEF TypeInv, MoveInv, Thread
<1>5. ItemInv'
  <2>1. pushed' \in Item
    BY AtomicQueueAssumption DEF TypeInv, Item
  <2> QED
    BY <1>0, <2>1 DEF TypeInv, ItemInv, Thread
<1> QED
  BY <1>1, <1>2, <1>3, <1>4, <1>5

\* A Push() that gets the mutex of the back is the only one past it.
LEMMA LockBackPreserves ==
    ASSUME IInv, NEW t \in Pusher, LockBack(t)
    PROVE  IInv'
<1> USE DEF IInv, LockBack, Goto, At, ring
<1>0. t \in Thread /\ t \notin Popper /\ t # NoOne
  BY Threads
<1>1. TypeInv'
  <2>1. pc' \in [Thread -> PushPc \cup PopPc]
    BY <1>0 DEF TypeInv, PushPc
  <2> QED
    BY <1>0, <2>1, Threads DEF TypeInv, PushPc
<1>2. MutexInv'
  BY <1>0, Threads DEF TypeInv, MutexInv, Thread
<1>3. RoomInv' /\ SlotInv'
  BY <1>0 DEF TypeInv, RoomInv, SlotInv, Thread
<1>4. MoveInv'
  BY <1>0 DEF TypeInv, MoveInv, Thread
<1>5. ItemInv'
  BY <1>0 DEF TypeInv, ItemInv, Thread
<1> QED
  BY <1>1, <1>2, <1>3, <1>4, <1>5

\* The comparison, which is what RoomInv says of a Push().
LEMMA CompareFullPreserves ==
    ASSUME IInv, NEW t \in Pusher, CompareFull(t)
    PROVE  IInv'
<1> USE DEF IInv, CompareFull, Goto, At, ring, mutexes
<1>0. t \in Thread /\ t \notin Popper
  BY Threads
<1>1. TypeInv'
  BY <1>0 DEF TypeInv, PushPc, PopPc, Slots, Thread
<1>2. MutexInv'
  BY <1>0 DEF TypeInv, MutexInv, Thread
<1>3. RoomInv'
  <2>1. Full <=> front_ = After(back_, size_)
    BY Ends DEF Full
  <2> QED
    BY <1>0, <2>1 DEF TypeInv, RoomInv, Thread
<1>4. SlotInv'
  BY <1>0 DEF TypeInv, SlotInv, Thread
<1>5. MoveInv'
  BY <1>0 DEF TypeInv, MoveInv, Thread
<1>6. ItemInv'
  BY <1>0 DEF TypeInv, ItemInv, Thread
<1> QED
  BY <1>1, <1>2, <1>3, <1>4, <1>5, <1>6

\* A Push() that gets both mutexes is alone.
LEMMA LockFrontPreserves ==
    ASSUME IInv, NEW t \in Pusher, LockFront(t)
    PROVE  IInv'
<1> USE DEF IInv, LockFront, Goto, At, ring
<1>0. t \in Thread /\ t \notin Popper /\ t # NoOne
  BY Threads
<1>1. TypeInv'
  <2>1. pc' \in [Thread -> PushPc \cup PopPc]
    BY <1>0 DEF TypeInv, PushPc
  <2> QED
    BY <1>0, <2>1, Threads DEF TypeInv, PushPc
<1>2. MutexInv'
  BY <1>0, Threads DEF TypeInv, MutexInv, Thread
<1>3. RoomInv' /\ SlotInv'
  BY <1>0 DEF TypeInv, RoomInv, SlotInv, Thread
<1>4. MoveInv'
  BY <1>0 DEF TypeInv, MoveInv, Thread
<1>5. ItemInv'
  BY <1>0 DEF TypeInv, ItemInv, Thread
<1> QED
  BY <1>1, <1>2, <1>3, <1>4, <1>5

\* The new half of the buffer is filled under both mutexes: no other thread stands
\* between its comparison and the use of what it compared.
LEMMA ResizePreserves ==
    ASSUME IInv, NEW t \in Pusher, Resize(t)
    PROVE  /\ IInv'
           /\ \A i \in Slots(size_) : queue_'[i] = queue_[i]
<1> USE DEF IInv, Resize, Goto, At, mutexes
<1>0. t \in Thread /\ t \notin Popper
  BY Threads
<1> DEFINE n == size_
           c == Between(front_, back_, n)
<1>1. /\ n \in Nat \ {0} /\ front_ \in Slots(n) /\ back_ \in Slots(n)
      /\ c \in Nat /\ c \in Slots(n) /\ count = c
      /\ \A i \in Slots(n) : Place(front_, i, n) \in Slots(n)
      /\ \A i \in Slots(n) : (front_ + i) % n = Place(front_, i, n)
  BY RingFacts, Ends DEF TypeInv
<1>2. \A i \in Slots(n) : queue_[i] \in Value
  BY DEF TypeInv
<1>3. Nothing \in Value
  BY DEF Value
<1> DEFINE r(i) == IF i < n THEN queue_[i]
                   ELSE IF i - n < c THEN queue_[(front_ + i - n) % n] ELSE Nothing
<1>4. queue_' = [i \in Slots(2 * n) |-> r(i)]
  BY <1>1 DEF Resized
<1>5. \A i \in Slots(n) : i \in Slots(2 * n) /\ r(i) = queue_[i]
  BY <1>1 DEF Slots
<1>6. \A i \in Slots(c) : i \in Slots(n) /\ n + i \in Slots(2 * n)
         /\ r(n + i) = queue_[Place(front_, i, n)]
  <2> SUFFICES ASSUME NEW i \in Slots(c)
               PROVE  i \in Slots(n) /\ n + i \in Slots(2 * n)
                         /\ r(n + i) = queue_[Place(front_, i, n)]
    OBVIOUS
  <2>1. i \in Slots(n) /\ i \in Nat /\ n + i \in Slots(2 * n) /\ ~ (n + i < n) /\ (n + i) - n < c
    BY <1>1 DEF Slots
  <2>2. front_ + (n + i) - n = front_ + i
    BY <1>1, <2>1 DEF Slots
  <2> HIDE DEF c
  <2> QED
    BY <1>1, <2>1, <2>2
<1>7. \A i \in Slots(2 * n) : r(i) \in Value
  <2> SUFFICES ASSUME NEW i \in Slots(2 * n) PROVE r(i) \in Value
    OBVIOUS
  <2>1. CASE i < n
    BY <1>1, <1>2, <2>1 DEF Slots
  <2>2. CASE ~ (i < n) /\ i - n < c
    <3>1. i - n \in Slots(n) /\ front_ + (i - n) = front_ + i - n
      BY <1>1, <2>2 DEF Slots
    <3>2. (front_ + i - n) % n \in Slots(n)
      BY <1>1, <3>1
    <3> QED
      BY <1>2, <2>2, <3>2
  <2>3. CASE ~ (i < n) /\ ~ (i - n < c)
    BY <1>3, <2>3
  <2> QED
    BY <2>1, <2>2, <2>3
<1> HIDE DEF r, c
<1>8. /\ queue_' \in [Slots(2 * n) -> Value] /\ DOMAIN queue_' = Slots(2 * n)
      /\ \A i \in Slots(n) : i \in Slots(2 * n) /\ queue_'[i] = queue_[i]
      /\ \A i \in Slots(c) : i \in Slots(n) /\ queue_'[n + i] = queue_[Place(front_, i, n)]
  BY <1>4, <1>5, <1>6, <1>7
<1>9. size_' = size_ /\ front_' = front_ /\ back_' = back_
  OBVIOUS
<1>10. \A p \in Pusher : pc[p] = "set_back" => p = t
  BY DEF MutexInv
<1>11. \A q \in Popper : pc[q] # "advance" /\ pc[q] # "load"
  BY <1>0, Threads DEF MutexInv
<1>12. TypeInv'
  BY <1>0, <1>8 DEF TypeInv, PushPc, PopPc, Thread
<1>13. MutexInv'
  BY <1>0 DEF TypeInv, MutexInv, Thread
<1>14. RoomInv' /\ SlotInv'
  BY <1>0, <1>10, <1>11 DEF TypeInv, RoomInv, SlotInv, Thread
<1>15. MoveInv'
  <2>1. Slots(2 * n) \subseteq DOMAIN queue_'
           /\ \A i \in Slots(c) : queue_'[n + i] = queue_'[Place(front_, i, n)]
    BY <1>1, <1>8
  <2>2. Slots(2 * size_') \subseteq DOMAIN queue_'
        /\ \A i \in Slots(Between(front_', back_', size_')) :
              queue_'[size_' + i] = queue_'[Place(front_', i, size_')]
    BY <1>9, <2>1 DEF c
  <2> QED
    BY <2>2 DEF MoveInv
<1>16. ItemInv'
  BY <1>0 DEF TypeInv, ItemInv, Thread
<1> QED
  BY <1>8, <1>12, <1>13, <1>14, <1>15, <1>16

\* The queue moves to the half that holds a copy of it, and there is room behind it.
LEMMA MoveEndsPreserves ==
    ASSUME IInv, NEW t \in Pusher, MoveEnds(t)
    PROVE  IInv'
<1> USE DEF IInv, MoveEnds, Goto, At
<1>0. t \in Thread /\ t \notin Popper
  BY Threads
<1>1. size_ \in Nat \ {0} /\ front_ \in Slots(size_) /\ back_ \in Slots(size_)
  BY DEF TypeInv
<1>2. count = Between(front_, back_, size_) /\ count \in Slots(size_)
  BY <1>1, RingFacts, Ends
<1>3. size_ \in Slots(2 * size_) /\ size_ + count \in Slots(2 * size_)
      /\ size_ # After(size_ + count, 2 * size_)
  BY <1>1, <1>2, NewHalfFacts
<1>4. 2 * size_ \in Nat \ {0}
  BY <1>1
<1>5. \A p \in Pusher : p # t => pc[p] \in {"idle", "lock_back"}
  BY DEF MutexInv, TypeInv
<1>6. \A q \in Popper : pc[q] \notin {"compare_empty", "load", "advance"}
  BY <1>0, Threads DEF MutexInv
<1>7. TypeInv'
  <2>1. pc' \in [Thread -> PushPc \cup PopPc]
    BY <1>0 DEF TypeInv, PushPc
  <2>2. Slots(2 * size_) \subseteq DOMAIN queue_
    BY DEF MoveInv
  <2> QED
    BY <1>0, <1>3, <1>4, <2>1, <2>2, Threads DEF TypeInv, PushPc
<1>8. MutexInv'
  BY <1>0, <1>5, <1>6, Threads DEF TypeInv, MutexInv, Thread
<1>9. RoomInv'
  BY <1>0, <1>3, <1>5, <1>6, Threads DEF TypeInv, RoomInv, Thread
<1>10. SlotInv' /\ MoveInv'
  BY <1>0, <1>5, <1>6, Threads DEF TypeInv, SlotInv, MoveInv, Thread
<1>11. ItemInv'
  BY <1>0 DEF TypeInv, ItemInv, Thread
<1> QED
  BY <1>7, <1>8, <1>9, <1>10, <1>11

\* The slot that is written is outside of what the Pop()s read.
LEMMA StoreItemPreserves ==
    ASSUME IInv, NEW t \in Pusher, StoreItem(t)
    PROVE  IInv'
<1> USE DEF IInv, StoreItem, Goto, At, mutexes
<1>0. t \in Thread /\ t \notin Popper
  BY Threads
<1>1. back_ \in DOMAIN queue_ /\ item[t] \in Value
  BY <1>0 DEF TypeInv
<1>2. \A p \in Pusher : p # t => pc[p] \in {"idle", "lock_back"}
  BY DEF MutexInv, TypeInv
<1>3. TypeInv'
  <2>1. pc' \in [Thread -> PushPc \cup PopPc]
    BY <1>0 DEF TypeInv, PushPc
  <2>2. queue_' \in [DOMAIN queue_ -> Value] /\ DOMAIN queue_' = DOMAIN queue_
    BY <1>1 DEF TypeInv
  <2> QED
    BY <1>0, <2>1, <2>2, Threads DEF TypeInv, PushPc
<1>4. MutexInv'
  BY <1>0 DEF TypeInv, MutexInv, Thread
<1>5. RoomInv'
  BY <1>0 DEF TypeInv, RoomInv, Thread
<1>6. SlotInv'
  <2>1. ASSUME NEW p \in Pusher, pc'[p] = "set_back" PROVE queue_'[back_'] = item'[p]
    BY <1>0, <1>1, <1>2, <2>1, Threads DEF TypeInv
  <2>2. ASSUME NEW q \in Popper, pc'[q] = "advance" PROVE queue_'[front_'] = item'[q]
    <3>1. pc[q] = "advance"
      BY <1>0, <2>2, Threads DEF TypeInv
    <3>2. front_ # back_ /\ queue_[front_] = item[q] /\ front_ \in DOMAIN queue_
      BY <3>1 DEF RoomInv, SlotInv, TypeInv
    <3> QED
      BY <3>2 DEF TypeInv
  <2> QED
    BY <2>1, <2>2 DEF SlotInv
<1>7. MoveInv'
  BY <1>0, <1>2, Threads DEF TypeInv, MoveInv, Thread
<1>8. ItemInv'
  BY <1>0 DEF TypeInv, ItemInv, Thread
<1> QED
  BY <1>3, <1>4, <1>5, <1>6, <1>7, <1>8

\* A Pop() that found the buffer not empty still does.
LEMMA SetBackPreserves ==
    ASSUME IInv, NEW t \in Pusher, SetBack(t)
    PROVE  IInv'
<1> USE DEF IInv, SetBack, Goto, At
<1>0. t \in Thread /\ t \notin Popper
  BY Threads
<1>1. /\ back_' = After(back_, size_) /\ After(back_, size_) \in Slots(size_)
      /\ front_ # After(back_, size_)
  BY Ends, RingFacts DEF TypeInv, RoomInv
<1>2. \A p \in Pusher : p # t => pc[p] \in {"idle", "lock_back"}
  BY DEF MutexInv, TypeInv
<1>3. TypeInv'
  <2>1. pc' \in [Thread -> PushPc \cup PopPc]
    BY <1>0 DEF TypeInv, PushPc
  <2>2. item' \in [Thread -> Value]
    BY <1>0 DEF TypeInv, Value
  <2>3. back_' \in Slots(size_')
    BY <1>1
  <2> QED
    BY <1>0, <2>1, <2>2, <2>3, Threads DEF TypeInv, PushPc
<1>4. MutexInv'
  BY <1>0, <1>2, Threads DEF TypeInv, MutexInv, Thread
<1>5. RoomInv'
  <2>1. \A p \in Pusher : pc'[p] \notin {"store", "set_back"}
    BY <1>0, <1>2 DEF TypeInv
  <2>2. front_' # back_'
    BY <1>1
  <2> QED
    BY <2>1, <2>2 DEF RoomInv
<1>6. SlotInv'
  <2>1. \A p \in Pusher : pc'[p] # "set_back"
    BY <1>0, <1>2 DEF TypeInv
  <2>2. \A q \in Popper : pc'[q] = pc[q] /\ item'[q] = item[q]
    BY <1>0 DEF TypeInv, Thread
  <2> QED
    BY <2>1, <2>2 DEF SlotInv
<1>7. MoveInv'
  BY <1>0, <1>2 DEF TypeInv, MoveInv
<1>8. ItemInv'
  BY <1>0 DEF TypeInv, ItemInv, Thread
<1> QED
  BY <1>3, <1>4, <1>5, <1>6, <1>7, <1>8

\* The call of a Pop().
LEMMA CallPopPreserves ==
    ASSUME IInv, NEW t \in Popper, CallPop(t)
    PROVE  IInv'
<1> USE DEF IInv, CallPop, Goto, At, ring, mutexes
<1>0. t \in Thread /\ t \notin Pusher
  BY Threads
<1>1. TypeInv'
  <2>1. pc' \in [Thread -> PushPc \cup PopPc]
    BY <1>0 DEF TypeInv, PopPc
  <2> QED
    BY <1>0, <2>1, Threads DEF TypeInv, PopPc
<1>2. MutexInv'
  BY <1>0 DEF TypeInv, MutexInv, Thread
<1>3. RoomInv' /\ SlotInv'
  BY <1>0 DEF TypeInv, RoomInv, SlotInv, Thread
<1>4. MoveInv'
  BY <1>0 DEF TypeInv, MoveInv, Thread
<1>5. ItemInv'
  BY <1>0 DEF TypeInv, ItemInv, Thread
<1> QED
  BY <1>1, <1>2, <1>3, <1>4, <1>5

\* A Pop() that gets the mutex of the front is the only one past it.
LEMMA LockFrontToPopPreserves ==
    ASSUME IInv, NEW t \in Popper, LockFrontToPop(t)
    PROVE  IInv'
<1> USE DEF IInv, LockFrontToPop, Goto, At, ring
<1>0. t \in Thread /\ t \notin Pusher /\ t # NoOne
  BY Threads
<1>1. TypeInv'
  <2>1. pc' \in [Thread -> PushPc \cup PopPc]
    BY <1>0 DEF TypeInv, PopPc
  <2> QED
    BY <1>0, <2>1, Threads DEF TypeInv, PopPc
<1>2. MutexInv'
  BY <1>0, Threads DEF TypeInv, MutexInv, Thread
<1>3. RoomInv' /\ SlotInv'
  BY <1>0 DEF TypeInv, RoomInv, SlotInv, Thread
<1>4. MoveInv'
  BY <1>0 DEF TypeInv, MoveInv, Thread
<1>5. ItemInv'
  BY <1>0 DEF TypeInv, ItemInv, Thread
<1> QED
  BY <1>1, <1>2, <1>3, <1>4, <1>5

\* The comparison, which is what RoomInv says of a Pop().
LEMMA CompareEmptyPreserves ==
    ASSUME IInv, NEW t \in Popper, CompareEmpty(t)
    PROVE  IInv'
<1> USE DEF IInv, CompareEmpty, Goto, At, ring
<1>0. t \in Thread /\ t \notin Pusher
  BY Threads
<1>1. \A p \in Pusher : pc[p] \notin {"resize", "move"}
  BY <1>0, Threads DEF MutexInv
<1>2. \A q \in Popper : q # t => pc[q] \notin {"compare_empty", "load", "advance"}
  BY <1>0 DEF MutexInv
<1>3. TypeInv'
  <2>1. pc' \in [Thread -> PushPc \cup PopPc]
    BY <1>0 DEF TypeInv, PopPc
  <2> QED
    BY <1>0, <2>1, Threads DEF TypeInv, PopPc
<1>4. MutexInv'
  BY <1>0, <1>1, <1>2, Threads DEF TypeInv, MutexInv, Thread
<1>5. RoomInv' /\ SlotInv'
  BY <1>0, <1>2 DEF TypeInv, RoomInv, SlotInv, Thread
<1>6. MoveInv'
  BY <1>0 DEF TypeInv, MoveInv, Thread
<1>7. ItemInv'
  BY <1>0 DEF TypeInv, ItemInv, Thread
<1> QED
  BY <1>3, <1>4, <1>5, <1>6, <1>7

\* The item that is loaded is the one in the first slot.
LEMMA LoadItemPreserves ==
    ASSUME IInv, NEW t \in Popper, LoadItem(t)
    PROVE  IInv'
<1> USE DEF IInv, LoadItem, Goto, At, ring, mutexes
<1>0. t \in Thread /\ t \notin Pusher
  BY Threads
<1>1. \A q \in Popper : q # t => pc[q] \notin {"compare_empty", "load", "advance"}
  BY <1>0 DEF MutexInv
<1>2. TypeInv'
  <2>1. pc' \in [Thread -> PushPc \cup PopPc]
    BY <1>0 DEF TypeInv, PopPc
  <2>2. item' \in [Thread -> Value]
    BY <1>0 DEF TypeInv
  <2> QED
    BY <1>0, <2>1, <2>2, Threads DEF TypeInv, PopPc
<1>3. MutexInv'
  BY <1>0 DEF TypeInv, MutexInv, Thread
<1>4. RoomInv' /\ SlotInv'
  BY <1>0, <1>1 DEF TypeInv, RoomInv, SlotInv, Thread
<1>5. MoveInv'
  BY <1>0 DEF TypeInv, MoveInv, Thread
<1>6. ItemInv'
  BY <1>0 DEF TypeInv, ItemInv, Thread
<1> QED
  BY <1>2, <1>3, <1>4, <1>5, <1>6

\* A Push() that found room still does.
LEMMA AdvanceFrontPreserves ==
    ASSUME IInv, NEW t \in Popper, AdvanceFront(t)
    PROVE  IInv'
<1> USE DEF IInv, AdvanceFront, Goto, At
<1>0. t \in Thread /\ t \notin Pusher
  BY Threads
<1>1. /\ front_' = After(front_, size_) /\ After(front_, size_) \in Slots(size_)
      /\ After(front_, size_) # After(back_, size_)
  BY Ends, RingFacts, FrontFacts DEF TypeInv, RoomInv
<1>2. \A p \in Pusher : pc[p] \notin {"resize", "move"}
  BY <1>0, Threads DEF MutexInv
<1>3. \A q \in Popper : q # t => pc[q] \notin {"compare_empty", "load", "advance"}
  BY <1>0 DEF MutexInv
<1>4. TypeInv'
  <2>1. pc' \in [Thread -> PushPc \cup PopPc]
    BY <1>0 DEF TypeInv, PopPc
  <2>2. front_' \in Slots(size_')
    BY <1>1
  <2> QED
    BY <1>0, <2>1, <2>2, Threads DEF TypeInv, PopPc
<1>5. MutexInv'
  BY <1>0, <1>2, <1>3, Threads DEF TypeInv, MutexInv, Thread
<1>6. RoomInv'
  <2>1. front_' # After(back_', size_')
    BY <1>1
  <2>2. \A q \in Popper : pc'[q] \notin {"load", "advance"}
    BY <1>0, <1>3 DEF TypeInv, Thread
  <2> QED
    BY <2>1, <2>2 DEF RoomInv
<1>7. SlotInv'
  <2>1. \A q \in Popper : pc'[q] # "advance"
    BY <1>0, <1>3 DEF TypeInv, Thread
  <2>2. \A p \in Pusher : pc'[p] = pc[p]
    BY <1>0 DEF TypeInv, Thread
  <2> QED
    BY <2>1, <2>2 DEF SlotInv
<1>8. MoveInv'
  BY <1>0, <1>2 DEF TypeInv, MoveInv, Thread
<1>9. ItemInv'
  BY <1>0 DEF TypeInv, ItemInv, Thread
<1> QED
  BY <1>4, <1>5, <1>6, <1>7, <1>8, <1>9

\* The end of a Pop().
LEMMA ReturnPreserves ==
    ASSUME IInv, NEW t \in Popper, Return(t)
    PROVE  IInv'
<1> USE DEF IInv, Return, Goto, At, ring, mutexes
<1>0. t \in Thread /\ t \notin Pusher
  BY Threads
<1>1. TypeInv'
  <2>1. pc' \in [Thread -> PushPc \cup PopPc]
    BY <1>0 DEF TypeInv, PopPc
  <2>2. item' \in [Thread -> Value]
    BY <1>0 DEF TypeInv, Value
  <2> QED
    BY <1>0, <2>1, <2>2, Threads DEF TypeInv, PopPc
<1>2. MutexInv'
  BY <1>0 DEF TypeInv, MutexInv, Thread
<1>3. RoomInv' /\ SlotInv'
  BY <1>0 DEF TypeInv, RoomInv, SlotInv, Thread
<1>4. MoveInv'
  BY <1>0 DEF TypeInv, MoveInv, Thread
<1>5. ItemInv'
  BY <1>0 DEF TypeInv, ItemInv, Thread
<1> QED
  BY <1>1, <1>2, <1>3, <1>4, <1>5

\* Every step, and stuttering.
LEMMA NextIsInductive == IInv /\ [Next]_vars => IInv'
<1> SUFFICES ASSUME IInv, [Next]_vars PROVE IInv'
  OBVIOUS
<1>1. ASSUME NEW t \in Pusher, PushNext(t) PROVE IInv'
  BY <1>1, CallPushPreserves, LockBackPreserves, CompareFullPreserves, LockFrontPreserves,
     ResizePreserves, MoveEndsPreserves, StoreItemPreserves, SetBackPreserves DEF PushNext
<1>2. ASSUME NEW t \in Popper, PopNext(t) PROVE IInv'
  BY <1>2, CallPopPreserves, LockFrontToPopPreserves, CompareEmptyPreserves, LoadItemPreserves,
     AdvanceFrontPreserves, ReturnPreserves DEF PopNext
<1>3. CASE UNCHANGED vars
  <2> USE <1>3 DEF vars, ring, mutexes
  <2>1. TypeInv'
    BY DEF IInv, TypeInv
  <2>2. MutexInv' /\ RoomInv'
    BY DEF IInv, MutexInv, RoomInv
  <2>3. SlotInv' /\ MoveInv' /\ ItemInv'
    BY DEF IInv, SlotInv, MoveInv, ItemInv
  <2> QED
    BY <2>1, <2>2, <2>3 DEF IInv
<1> QED
  BY <1>1, <1>2, <1>3 DEF Next

\* The invariant holds throughout.
LEMMA Invariant == Spec => []IInv
<1>1. Init => IInv
  BY InitIsInductive
<1>2. IInv /\ [Next]_vars => IInv'
  BY NextIsInductive
<1> QED
  BY <1>1, <1>2, PTL DEF Spec

\* No Pop() reads the slot that a Push() writes, nor the buffer while one resizes it
\* (Push(), Pop() of utils.h), for any number of either.
THEOREM WholeItems == Spec => []NoTornItem
<1>1. IInv => NoTornItem
  BY DEF IInv, MutexInv, RoomInv, NoTornItem, At, TypeInv
<1> QED
  BY <1>1, Invariant, PTL

-----------------------------------------------------------------------------
(* The queue of FifoQueue. *)

\* The refinement mapping of Queue, by name.
HeldNow == [i \in 1..count |-> queue_[(front_ + i - 1) % size_]]

\* What a thread at l with v in its hands is doing, to its user.
CallOf(t, l, v) ==
    IF l = "idle" THEN Queue!Idle
    ELSE IF t \in Pusher THEN [op |-> "push", item |-> v]
    ELSE IF l = "return" THEN [op |-> "popped", item |-> v]
    ELSE [op |-> "pop", item |-> Nothing]

HeldNowInv == HeldNow = Held(queue_, front_, back_, size_)
CallsInv   == Calls = [t \in Thread |-> CallOf(t, pc[t], item[t])]

\* The mapping in the terms of the ring: the remainders are the places, and a thread
\* shows its user an operation from its call to its return.
LEMMA Mapping == IInv => HeldNowInv /\ CallsInv
<1> SUFFICES ASSUME IInv PROVE HeldNowInv /\ CallsInv
  OBVIOUS
<1>1. HeldNowInv
  <2> DEFINE n == size_
             c == Between(front_, back_, n)
  <2>1. /\ n \in Nat \ {0} /\ front_ \in Slots(n) /\ c \in Nat /\ c \in Slots(n) /\ count = c
        /\ \A i \in Slots(n) : (front_ + i) % n = Place(front_, i, n)
    BY RingFacts, Ends DEF IInv, TypeInv
  <2> HIDE DEF c, n
  <2>2. ASSUME NEW i \in 1..c PROVE (front_ + i - 1) % n = Place(front_, i - 1, n)
    <3>1. i - 1 \in Slots(n) /\ front_ + (i - 1) = front_ + i - 1
      BY <2>1 DEF Slots
    <3> QED
      BY <2>1, <3>1
  <2>3. [i \in 1..c |-> queue_[(front_ + i - 1) % n]] = [i \in 1..c |-> queue_[Place(front_, i - 1, n)]]
    BY <2>2
  <2> QED
    BY <2>1, <2>3 DEF HeldNowInv, HeldNow, Held, c, n
<1>2. CallsInv
  <2> DEFINE op(t) == CASE At(t, "idle")   -> "idle"
                        [] At(t, "return") -> "popped"
                        [] t \in Pusher /\ ~ At(t, "idle") -> "push"
                        [] t \in Popper /\ pc[t] \notin {"idle", "return"} -> "pop"
             it(t) == IF At(t, "advance") THEN Nothing ELSE item[t]
  <2>1. ASSUME NEW t \in Pusher PROVE [op |-> op(t), item |-> it(t)] = CallOf(t, pc[t], item[t])
    <3>1. t \in Thread /\ t \notin Popper /\ pc[t] \in PushPc
      BY Threads DEF IInv, TypeInv
    <3>2. it(t) = item[t] /\ (pc[t] = "idle" => item[t] = Nothing)
      BY <3>1 DEF IInv, ItemInv, At, PushPc
    <3>3. op(t) = IF pc[t] = "idle" THEN "idle" ELSE "push"
      BY <3>1 DEF At, PushPc
    <3> HIDE DEF op, it
    <3> QED
      BY <3>2, <3>3 DEF CallOf, Queue!Idle
  <2>2. ASSUME NEW t \in Popper PROVE [op |-> op(t), item |-> it(t)] = CallOf(t, pc[t], item[t])
    <3>1. t \in Thread /\ t \notin Pusher /\ pc[t] \in PopPc
      BY Threads DEF IInv, TypeInv
    <3>2. it(t) = IF pc[t] = "return" THEN item[t] ELSE Nothing
      BY <3>1 DEF IInv, ItemInv, At, PopPc
    <3>3. op(t) = IF pc[t] = "idle" THEN "idle" ELSE IF pc[t] = "return" THEN "popped" ELSE "pop"
      BY <3>1 DEF At, PopPc
    <3> HIDE DEF op, it
    <3> QED
      BY <3>1, <3>2, <3>3 DEF CallOf, Queue!Idle
  <2>3. Calls = [t \in Thread |-> [op |-> op(t), item |-> it(t)]]
    BY DEF Calls
  <2> HIDE DEF op, it
  <2> QED
    BY <2>1, <2>2, <2>3 DEF CallsInv, Thread
<1> QED
  BY <1>1, <1>2

\* A step of t changes what t is doing only.
LEMMA OneCall ==
    ASSUME IInv, IInv', NEW t \in Thread, NEW l, NEW v, pc'[t] = l, item'[t] = v,
           \A x \in Thread \ {t} : pc'[x] = pc[x] /\ item'[x] = item[x]
    PROVE  Calls' = [Calls EXCEPT ![t] = CallOf(t, l, v)] /\ Calls[t] = CallOf(t, pc[t], item[t])
<1>1. CallsInv
  BY Mapping
<1>2. CallsInv'
  BY Mapping, PTL
<1>3. Calls' = [x \in Thread |-> CallOf(x, pc'[x], item'[x])]
  BY <1>2 DEF CallsInv
<1>4. Calls = [x \in Thread |-> CallOf(x, pc[x], item[x])]
  BY <1>1 DEF CallsInv
<1> QED
  BY <1>3, <1>4

\* The same step seen from the queue's contents.
LEMMA HeldInvs ==
    ASSUME IInv, IInv'
    PROVE  HeldNow = Held(queue_, front_, back_, size_)
              /\ HeldNow' = Held(queue_', front_', back_', size_')
<1>1. HeldNowInv
  BY Mapping
<1>2. HeldNowInv'
  BY Mapping, PTL
<1> QED
  BY <1>1, <1>2 DEF HeldNowInv

\* The new queue is an empty one.
LEMMA InitImplements == Init => Queue!Init
<1> SUFFICES ASSUME Init PROVE Queue!Init
  OBVIOUS
<1>1. IInv
  BY InitIsInductive
<1>2. Between(front_, back_, size_) = 0
  BY DEF Init, Between
<1>3. HeldNow = <<>>
  <2>1. HeldNow = Held(queue_, front_, back_, size_)
    BY <1>1, Mapping DEF HeldNowInv
  <2> QED
    BY <1>2, <2>1 DEF Held
<1>4. Calls = [t \in Pusher \cup Popper |-> Queue!Idle]
  <2>1. Calls = [t \in Thread |-> CallOf(t, pc[t], item[t])]
    BY <1>1, Mapping DEF CallsInv
  <2> QED
    BY <2>1 DEF CallOf, Init, Thread
<1> QED
  BY <1>3, <1>4 DEF Queue!Init, HeldNow

\* A step inside an operation that leaves alone what the ring holds.
LEMMA Stutters ==
    ASSUME IInv, IInv', NEW t \in Thread, HeldNow' = HeldNow,
           \A x \in Thread \ {t} : pc'[x] = pc[x] /\ item'[x] = item[x],
           CallOf(t, pc'[t], item'[t]) = CallOf(t, pc[t], item[t])
    PROVE  UNCHANGED Queue!vars
<1>1. CallsInv
  BY Mapping
<1>2. CallsInv'
  BY Mapping, PTL
<1>3. Calls' = Calls
  BY <1>1, <1>2 DEF CallsInv
<1> QED
  BY <1>3 DEF Queue!vars, HeldNow

\* What a state says of its ring.
LEMMA RingOf ==
    IInv => /\ size_ \in Nat \ {0} /\ front_ \in Slots(size_) /\ back_ \in Slots(size_)
            /\ Holding(queue_, size_, Value)
BY DEF IInv, TypeInv, Holding

\* Of the steps of a Push(), its call and the one that moves back_ are the ones its user sees.
LEMMA PushImplements ==
    ASSUME IInv, IInv', NEW t \in Pusher, PushNext(t)
    PROVE  Queue!Next \/ UNCHANGED Queue!vars
<1> USE DEF Goto, At
<1>0. t \in Thread /\ t \notin Popper /\ pc \in [Thread -> PushPc \cup PopPc]
         /\ item \in [Thread -> Value]
  BY Threads DEF IInv, TypeInv
<1>1. CASE CallPush(t)
  <2>1. HeldNow' = HeldNow
    BY <1>1 DEF CallPush, HeldNow, count, ring
  <2>2. pushed + 1 \in Item
    BY <1>1, AtomicQueueAssumption DEF CallPush, Item, IInv, TypeInv
  <2>3. Calls' = [Calls EXCEPT ![t] = CallOf(t, "lock_back", pushed + 1)]
        /\ Calls[t] = CallOf(t, "idle", item[t])
    <3>1. pc'[t] = "lock_back" /\ item'[t] = pushed + 1 /\ pc[t] = "idle"
          /\ \A x \in Thread \ {t} : pc'[x] = pc[x] /\ item'[x] = item[x]
      BY <1>0, <1>1 DEF CallPush
    <3> QED
      BY <1>0, <3>1, OneCall
  <2>4. Queue!CallPush(t, pushed + 1)
    BY <2>1, <2>3 DEF Queue!CallPush, Queue!Set, CallOf, HeldNow
  <2> QED
    BY <2>2, <2>4 DEF Queue!Next
<1>2. CASE LockBack(t)
  <2>1. HeldNow' = HeldNow
    BY <1>2 DEF LockBack, HeldNow, count, ring
  <2> QED
    BY <1>0, <1>2, <2>1, Stutters DEF LockBack, CallOf
<1>3. CASE CompareFull(t)
  <2>1. HeldNow' = HeldNow
    BY <1>3 DEF CompareFull, HeldNow, count, ring
  <2> QED
    BY <1>0, <1>3, <2>1, Stutters DEF CompareFull, CallOf
<1>4. CASE LockFront(t)
  <2>1. HeldNow' = HeldNow
    BY <1>4 DEF LockFront, HeldNow, count, ring
  <2> QED
    BY <1>0, <1>4, <2>1, Stutters DEF LockFront, CallOf
<1>5. CASE Resize(t)
  <2>1. \A i \in Slots(size_) : queue_'[i] = queue_[i]
    BY <1>5, ResizePreserves
  <2>2. Held(queue_', front_, back_, size_) = Held(queue_, front_, back_, size_)
    BY <2>1, HeldSame, RingOf
  <2>3. HeldNow' = HeldNow
    BY <1>5, <2>2, HeldInvs DEF Resize
  <2> QED
    BY <1>0, <1>5, <2>3, Stutters DEF Resize, CallOf
<1>6. CASE MoveEnds(t)
  <2>1. \A i \in Slots(Between(front_, back_, size_)) :
           queue_[size_ + i] = queue_[Place(front_, i, size_)]
    BY <1>6 DEF IInv, MoveInv, MoveEnds
  <2>2. Held(queue_, size_, size_ + Between(front_, back_, size_), 2 * size_)
           = Held(queue_, front_, back_, size_)
    BY <2>1, HeldMoved, RingOf
  <2>3. count = Between(front_, back_, size_)
    BY Ends DEF IInv
  <2>4. HeldNow' = HeldNow
    BY <1>6, <2>2, <2>3, HeldInvs DEF MoveEnds
  <2> QED
    BY <1>0, <1>6, <2>4, Stutters DEF MoveEnds, CallOf
<1>7. CASE StoreItem(t)
  <2>1. \A i \in Slots(size_) : i # back_ => queue_'[i] = queue_[i]
    BY <1>7 DEF StoreItem, IInv, TypeInv
  <2>2. Held(queue_', front_, back_, size_) = Held(queue_, front_, back_, size_)
    BY <2>1, HeldSame, RingOf
  <2>3. HeldNow' = HeldNow
    BY <1>7, <2>2, HeldInvs DEF StoreItem
  <2> QED
    BY <1>0, <1>7, <2>3, Stutters DEF StoreItem, CallOf
<1>8. CASE SetBack(t)
  <2>1. back_' = After(back_, size_) /\ front_ # After(back_, size_) /\ queue_[back_] = item[t]
    BY <1>8, Ends DEF SetBack, IInv, RoomInv, SlotInv
  <2>2. Held(queue_, front_, After(back_, size_), size_)
           = Append(Held(queue_, front_, back_, size_), queue_[back_])
    BY <2>1, HeldAppend, RingOf
  <2>3. HeldNow' = Append(HeldNow, item[t])
    BY <1>8, <2>1, <2>2, HeldInvs DEF SetBack
  <2>4. Calls' = [Calls EXCEPT ![t] = CallOf(t, "idle", Nothing)]
           /\ Calls[t] = CallOf(t, "set_back", item[t])
    <3>1. pc'[t] = "idle" /\ item'[t] = Nothing /\ pc[t] = "set_back"
          /\ \A x \in Thread \ {t} : pc'[x] = pc[x] /\ item'[x] = item[x]
      BY <1>0, <1>8 DEF SetBack
    <3> QED
      BY <1>0, <3>1, OneCall
  <2>5. Calls[t].op = "push" /\ Calls[t].item = item[t]
           /\ Calls' = [Calls EXCEPT ![t] = Queue!Idle]
    BY <2>4 DEF CallOf
  <2>6. HeldNow' = Append(HeldNow, Calls[t].item)
    BY <2>3, <2>5
  <2>7. Queue!Push(t)
    BY <2>5, <2>6, Zenon DEF Queue!Push, HeldNow
  <2> QED
    BY <2>7 DEF Queue!Next
<1> QED
  BY <1>1, <1>2, <1>3, <1>4, <1>5, <1>6, <1>7, <1>8 DEF PushNext

\* Of the steps of a Pop(), its user sees its call, the comparison that finds the buffer
\* empty or the step that moves front_, and its return.
LEMMA PopImplements ==
    ASSUME IInv, IInv', NEW t \in Popper, PopNext(t)
    PROVE  Queue!Next \/ UNCHANGED Queue!vars
<1> USE DEF Goto, At
<1>0. t \in Thread /\ t \notin Pusher /\ pc \in [Thread -> PushPc \cup PopPc]
         /\ item \in [Thread -> Value]
  BY Threads DEF IInv, TypeInv
<1>1. CASE CallPop(t)
  <2>1. HeldNow' = HeldNow
    BY <1>1 DEF CallPop, HeldNow, count, ring
  <2>2. Calls' = [Calls EXCEPT ![t] = CallOf(t, "lock_front", item[t])]
           /\ Calls[t] = CallOf(t, "idle", item[t])
    <3>1. pc'[t] = "lock_front" /\ item'[t] = item[t] /\ pc[t] = "idle"
          /\ \A x \in Thread \ {t} : pc'[x] = pc[x] /\ item'[x] = item[x]
      BY <1>0, <1>1 DEF CallPop
    <3> QED
      BY <1>0, <3>1, OneCall
  <2>3. Queue!CallPop(t)
    BY <1>0, <2>1, <2>2 DEF Queue!CallPop, Queue!Set, CallOf, HeldNow
  <2> QED
    BY <2>3 DEF Queue!Next
<1>2. CASE LockFrontToPop(t)
  <2>1. HeldNow' = HeldNow
    BY <1>2 DEF LockFrontToPop, HeldNow, count, ring
  <2> QED
    BY <1>0, <1>2, <2>1, Stutters DEF LockFrontToPop, CallOf
<1>3. CASE CompareEmpty(t) /\ front_ # back_
  <2>1. HeldNow' = HeldNow
    BY <1>3 DEF CompareEmpty, HeldNow, count, ring
  <2> QED
    BY <1>0, <1>3, <2>1, Stutters DEF CompareEmpty, CallOf
<1>4. CASE CompareEmpty(t) /\ front_ = back_
  <2>1. HeldNow' = HeldNow
    BY <1>4 DEF CompareEmpty, HeldNow, count, ring
  <2>2. HeldNow = <<>>
    <3>1. Between(front_, back_, size_) = 0
      BY <1>4, RingFacts, RingOf
    <3>2. HeldNow = Held(queue_, front_, back_, size_)
      BY HeldInvs
    <3> QED
      BY <3>1, <3>2 DEF Held
  <2>3. Calls' = [Calls EXCEPT ![t] = CallOf(t, "return", Nothing)]
        /\ Calls[t] = CallOf(t, "compare_empty", item[t])
    <3>1. pc'[t] = "return" /\ item'[t] = Nothing /\ pc[t] = "compare_empty"
          /\ \A x \in Thread \ {t} : pc'[x] = pc[x] /\ item'[x] = item[x]
      BY <1>0, <1>4 DEF CompareEmpty, IInv, ItemInv
    <3> QED
      BY <1>0, <3>1, OneCall
  <2>4. Queue!Pop(t)
    BY <1>0, <2>1, <2>2, <2>3 DEF Queue!Pop, Queue!Set, CallOf, HeldNow
  <2> QED
    BY <2>4 DEF Queue!Next
<1>5. CASE LoadItem(t)
  <2>1. HeldNow' = HeldNow
    BY <1>5 DEF LoadItem, HeldNow, count, ring
  <2> QED
    BY <1>0, <1>5, <2>1, Stutters DEF LoadItem, CallOf
<1>6. CASE AdvanceFront(t)
  <2>1. front_' = After(front_, size_) /\ front_ # back_ /\ queue_[front_] = item[t]
    BY <1>6, Ends DEF AdvanceFront, IInv, RoomInv, SlotInv
  <2>2. /\ Held(queue_, front_, back_, size_) # <<>>
              /\ Head(Held(queue_, front_, back_, size_)) = queue_[front_]
        /\ Held(queue_, After(front_, size_), back_, size_) = Tail(Held(queue_, front_, back_, size_))
    BY <2>1, HeldTail, RingOf
  <2>3. HeldNow # <<>> /\ Head(HeldNow) = item[t] /\ HeldNow' = Tail(HeldNow)
    BY <1>6, <2>1, <2>2, HeldInvs DEF AdvanceFront
  <2>4. Calls' = [Calls EXCEPT ![t] = CallOf(t, "return", item[t])]
           /\ Calls[t] = CallOf(t, "advance", item[t])
    <3>1. pc'[t] = "return" /\ item'[t] = item[t] /\ pc[t] = "advance"
          /\ \A x \in Thread \ {t} : pc'[x] = pc[x] /\ item'[x] = item[x]
      BY <1>0, <1>6 DEF AdvanceFront
    <3> QED
      BY <1>0, <3>1, OneCall
  <2>5. Calls[t].op = "pop" /\ Calls' = [Calls EXCEPT ![t] = [op |-> "popped", item |-> item[t]]]
    BY <1>0, <2>4 DEF CallOf
  <2>6. Calls' = [Calls EXCEPT ![t] = [op |-> "popped", item |-> Head(HeldNow)]]
    BY <2>3, <2>5
  <2>7. Queue!Pop(t)
    BY <2>3, <2>5, <2>6, Zenon DEF Queue!Pop, Queue!Set, HeldNow
  <2> QED
    BY <2>7 DEF Queue!Next
<1>7. CASE Return(t)
  <2>1. HeldNow' = HeldNow
    BY <1>7 DEF Return, HeldNow, count, ring
  <2>2. Calls' = [Calls EXCEPT ![t] = CallOf(t, "idle", Nothing)]
           /\ Calls[t] = CallOf(t, "return", item[t])
    <3>1. pc'[t] = "idle" /\ item'[t] = Nothing /\ pc[t] = "return"
          /\ \A x \in Thread \ {t} : pc'[x] = pc[x] /\ item'[x] = item[x]
      BY <1>0, <1>7 DEF Return
    <3> QED
      BY <1>0, <3>1, OneCall
  <2>3. Queue!Return(t)
    BY <1>0, <2>1, <2>2 DEF Queue!Return, CallOf, HeldNow
  <2> QED
    BY <2>3 DEF Queue!Next
<1> QED
  BY <1>1, <1>2, <1>3, <1>4, <1>5, <1>6, <1>7 DEF PopNext

\* Every step, and stuttering.
LEMMA NextImplements == IInv /\ IInv' /\ [Next]_vars => [Queue!Next]_Queue!vars
<1> SUFFICES ASSUME IInv, IInv', [Next]_vars PROVE Queue!Next \/ UNCHANGED Queue!vars
  OBVIOUS
<1>1. CASE UNCHANGED vars
  BY <1>1 DEF vars, ring, mutexes, Queue!vars, count, Calls, At
<1>2. ASSUME NEW t \in Pusher, PushNext(t) PROVE Queue!Next \/ UNCHANGED Queue!vars
  BY <1>2, PushImplements
<1>3. ASSUME NEW t \in Popper, PopNext(t) PROVE Queue!Next \/ UNCHANGED Queue!vars
  BY <1>3, PopImplements
<1> QED
  BY <1>1, <1>2, <1>3 DEF Next

\* However Push()es and Pop()s interleave, their callers see a queue without bound whose
\* operations are one step each: nothing is lost, repeated or overtaken (utils.h).
THEOREM Linearizable == Spec => ImplementsFifoQueue
<1>1. Init => Queue!Init
  BY InitImplements
<1>2. IInv /\ IInv' /\ [Next]_vars => [Queue!Next]_Queue!vars
  BY NextImplements
<1> QED
  BY <1>1, <1>2, Invariant, PTL DEF Spec, ImplementsFifoQueue, Queue!Spec

=============================================================================
