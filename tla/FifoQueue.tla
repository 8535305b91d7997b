------------------------------ MODULE FifoQueue ------------------------------
(***************************************************************************)
(* What AtomicQueue promises its users: a first-in-first-out queue of any  *)
(* length whose operations take effect at one instant between their call   *)
(* and their return.                                                       *)
(***************************************************************************)
EXTENDS Sequences

CONSTANTS
    Pusher, Popper,   \* the threads
    Item,
    Nothing           \* the result of a Pop() that returns false

VARIABLES
    items,    \* the queue, the oldest item first
    call      \* call[t]: what t is doing: [op, item], item being a Pop()'s result

vars == <<items, call>>

Idle == [op |-> "idle", item |-> Nothing]

Set(t, op, item) == call' = [call EXCEPT ![t] = [op |-> op, item |-> item]]

Init ==
    /\ items = <<>>
    /\ call = [t \in Pusher \cup Popper |-> Idle]

CallPush(t, v) == call[t] = Idle /\ Set(t, "push", v) /\ UNCHANGED items
CallPop(t)     == call[t] = Idle /\ Set(t, "pop", Nothing) /\ UNCHANGED items

Push(t) ==
    /\ call[t].op = "push"
    /\ items' = Append(items, call[t].item)
    /\ call' = [call EXCEPT ![t] = Idle]

Pop(t) ==
    /\ call[t].op = "pop"
    /\ IF items = <<>>
       THEN Set(t, "popped", Nothing) /\ UNCHANGED items
       ELSE Set(t, "popped", Head(items)) /\ items' = Tail(items)

Return(t) ==
    /\ call[t].op = "popped"
    /\ call' = [call EXCEPT ![t] = Idle]
    /\ UNCHANGED items

Next ==
    \/ \E t \in Pusher : Push(t) \/ \E v \in Item : CallPush(t, v)
    \/ \E t \in Popper : CallPop(t) \/ Pop(t) \/ Return(t)

Spec == Init /\ [][Next]_vars
=============================================================================
