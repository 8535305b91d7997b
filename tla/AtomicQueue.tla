----------------------------- MODULE AtomicQueue -----------------------------
(***************************************************************************)
(* The queue between threads (class AtomicQueue): a ring buffer with one   *)
(* mutex for each end, so that a Push() and a Pop() run at the same time.  *)
(* Each looks at the other's end without that end's mutex; only a Push()   *)
(* that finds the buffer full takes both, and doubles the buffer.          *)
(*                                                                         *)
(* A step is one access to what the threads share.  The unlocked reads of  *)
(* front_ and back_ are data races: on the machines the code is built for  *)
(* such a word is read and written as a whole, and loads and stores happen *)
(* in program order.  Size(), which has size_mutex_ of its own, is called  *)
(* by a thread that is the only user of its queue, so that size_mutex_ is  *)
(* free whenever Push() takes it; Empty() and Front() have no caller.      *)
(***************************************************************************)
EXTENDS Integers, Sequences

CONSTANTS
    Pusher, Popper,   \* the threads that call Push() and those that call Pop()
    InitialSize,      \* 256
    NumItems,         \* bound: the items ever pushed, which are 1..NumItems
    Nothing,          \* what a slot holds before an item, and Pop() when it returns false
    NoOne             \* the owner of a free mutex

Thread == Pusher \cup Popper
Item   == 1..NumItems

ASSUME AtomicQueueAssumption ==
    /\ InitialSize \in Nat \ {0}
    /\ NumItems \in Nat
    /\ Pusher \cap Popper = {}
    /\ NoOne \notin Thread
    /\ Nothing \notin Item

VARIABLES
    queue_, size_, front_, back_,
    front_mutex_, back_mutex_,    \* the thread that holds the mutex, or NoOne
    pc,       \* where each thread is in its operation
    item,     \* item[t]: the argument of t's Push(), or the result of its Pop()
    pushed    \* how many items have been pushed

ring    == <<queue_, size_, front_, back_>>
mutexes == <<front_mutex_, back_mutex_>>
vars    == <<ring, mutexes, pc, item, pushed>>

Slots(n)    == 0..(n - 1)
Goto(t, l)  == pc' = [pc EXCEPT ![t] = l]
At(t, l)    == pc[t] = l
count       == (back_ + size_ - front_) % size_

-----------------------------------------------------------------------------
(* Push(). *)

CallPush(t) ==
    /\ At(t, "idle")
    /\ pushed < NumItems
    /\ pushed' = pushed + 1
    /\ item' = [item EXCEPT ![t] = pushed + 1]
    /\ Goto(t, "lock_back")
    /\ UNCHANGED <<ring, mutexes>>

LockBack(t) ==
    /\ At(t, "lock_back")
    /\ back_mutex_ = NoOne
    /\ back_mutex_' = t
    /\ Goto(t, "compare_full")
    /\ UNCHANGED <<ring, front_mutex_, item, pushed>>

\* Mistake: the slot that tells a full buffer from an empty one is used too.
BadFull == front_ = back_

Full == front_ = (back_ + 1) % size_

\* A Pop() may make room meanwhile, but none can take any away.
CompareFull(t) ==
    /\ At(t, "compare_full")
    /\ Goto(t, IF Full THEN "lock_front" ELSE "store")
    /\ UNCHANGED <<ring, mutexes, item, pushed>>

\* Mistake: the buffer is resized under the mutex of its back only.
BadLockFront(t) ==
    /\ At(t, "lock_front")
    /\ Goto(t, "resize")
    /\ UNCHANGED <<ring, mutexes, item, pushed>>

LockFront(t) ==
    /\ At(t, "lock_front")
    /\ front_mutex_ = NoOne
    /\ front_mutex_' = t
    /\ Goto(t, "resize")
    /\ UNCHANGED <<ring, back_mutex_, item, pushed>>

\* The items are copied, oldest first, to the new half of the buffer.
Resized == [i \in Slots(2 * size_) |->
               IF i < size_ THEN queue_[i]
               ELSE IF i - size_ < count THEN queue_[(front_ + i - size_) % size_]
               ELSE Nothing]

Resize(t) ==
    /\ At(t, "resize")
    /\ queue_' = Resized
    /\ Goto(t, "move")
    /\ UNCHANGED <<size_, front_, back_, mutexes, item, pushed>>

\* The queue moves to the new half, which no Pop() sees before.
MoveEnds(t) ==
    /\ At(t, "move")
    /\ front_' = size_
    /\ back_' = size_ + count
    /\ size_' = 2 * size_
    /\ front_mutex_' = NoOne
    /\ Goto(t, "store")
    /\ UNCHANGED <<queue_, back_mutex_, item, pushed>>

StoreItem(t) ==
    /\ At(t, "store")
    /\ queue_' = [queue_ EXCEPT ![back_] = item[t]]
    /\ Goto(t, "set_back")
    /\ UNCHANGED <<size_, front_, back_, mutexes, item, pushed>>

\* With this the item is in the queue.
SetBack(t) ==
    /\ At(t, "set_back")
    /\ back_' = (back_ + 1) % size_
    /\ back_mutex_' = NoOne
    /\ item' = [item EXCEPT ![t] = Nothing]
    /\ Goto(t, "idle")
    /\ UNCHANGED <<queue_, size_, front_, front_mutex_, pushed>>

-----------------------------------------------------------------------------
(* Pop(). *)

CallPop(t) ==
    /\ At(t, "idle")
    /\ Goto(t, "lock_front")
    /\ UNCHANGED <<ring, mutexes, item, pushed>>

LockFrontToPop(t) ==
    /\ At(t, "lock_front")
    /\ front_mutex_ = NoOne
    /\ front_mutex_' = t
    /\ Goto(t, "compare_empty")
    /\ UNCHANGED <<ring, back_mutex_, item, pushed>>

\* An item that is not in the queue by now is left to a later Pop().
CompareEmpty(t) ==
    /\ At(t, "compare_empty")
    /\ IF front_ # back_
       THEN Goto(t, "load") /\ UNCHANGED front_mutex_
       ELSE Goto(t, "return") /\ front_mutex_' = NoOne
    /\ UNCHANGED <<ring, back_mutex_, item, pushed>>

LoadItem(t) ==
    /\ At(t, "load")
    /\ item' = [item EXCEPT ![t] = queue_[front_]]
    /\ Goto(t, "advance")
    /\ UNCHANGED <<ring, mutexes, pushed>>

AdvanceFront(t) ==
    /\ At(t, "advance")
    /\ front_' = (front_ + 1) % size_
    /\ front_mutex_' = NoOne
    /\ Goto(t, "return")
    /\ UNCHANGED <<queue_, size_, back_, back_mutex_, item, pushed>>

\* The caller takes the result.
Return(t) ==
    /\ At(t, "return")
    /\ item' = [item EXCEPT ![t] = Nothing]
    /\ Goto(t, "idle")
    /\ UNCHANGED <<ring, mutexes, pushed>>

-----------------------------------------------------------------------------

Init ==
    /\ queue_ = [i \in Slots(InitialSize) |-> Nothing]
    /\ size_ = InitialSize
    /\ front_ = 0
    /\ back_ = 0
    /\ front_mutex_ = NoOne
    /\ back_mutex_ = NoOne
    /\ pc = [t \in Thread |-> "idle"]
    /\ item = [t \in Thread |-> Nothing]
    /\ pushed = 0

PushNext(t) == \/ CallPush(t) \/ LockBack(t) \/ CompareFull(t) \/ LockFront(t) \/ Resize(t)
               \/ MoveEnds(t) \/ StoreItem(t) \/ SetBack(t)

PopNext(t) == \/ CallPop(t) \/ LockFrontToPop(t) \/ CompareEmpty(t) \/ LoadItem(t)
              \/ AdvanceFront(t) \/ Return(t)

Next == (\E t \in Pusher : PushNext(t)) \/ (\E t \in Popper : PopNext(t))

Spec == Init /\ [][Next]_vars
-----------------------------------------------------------------------------
(* Properties. *)

\* No thread reads a slot that another one is writing, or the buffer while it is moved: a
\* Pop() gets a whole item although it looks at back_ without the mutex of the back.
NoTornItem ==
    \A p \in Pusher, q \in Popper :
        /\ At(p, "store") /\ At(q, "load") => front_ # back_
        /\ ~ (pc[p] \in {"resize", "move"} /\ pc[q] \in {"compare_empty", "load", "advance"})

\* To its users the queue is one that never fills up and that Push() and Pop() change at
\* an instant: no item is lost, repeated or overtaken, also while the buffer is resized,
\* and a Pop() returns false only if the queue was empty at some time during it.
Calls == [t \in Thread |->
             [op |-> CASE At(t, "idle")   -> "idle"
                       [] At(t, "return") -> "popped"
                       [] t \in Pusher /\ ~ At(t, "idle") -> "push"
                       [] t \in Popper /\ pc[t] \notin {"idle", "return"} -> "pop",
              item |-> IF At(t, "advance") THEN Nothing ELSE item[t]]]

Queue == INSTANCE FifoQueue WITH
    items <- [i \in 1..count |-> queue_[(front_ + i - 1) % size_]],
    call  <- Calls

ImplementsFifoQueue == Queue!Spec
=============================================================================
