------------------------------- MODULE FifoQueue -------------------------------
(***************************************************************************)
(* What CLockFreeQueue promises: each queue hands out what was put into    *)
(* it, in that order and once.  A Dequeue takes the element in one step    *)
(* and returns it in a later one; a Dequeue that finds nothing has no      *)
(* step here, because the queue may report "empty" while an element is in  *)
(* it (see LockFreeQueue, NumExact).                                       *)
(***************************************************************************)
EXTENDS Sequences

CONSTANTS Threads, Queues, Values,
          NoValue    \* what a thread holds that has taken nothing

VARIABLES items,     \* contents of each queue, oldest first
          taken      \* the element each thread took and has not returned yet

vars == <<items, taken>>

Init ==
    /\ items = [q \in Queues |-> <<>>]
    /\ taken = [t \in Threads |-> NoValue]

Enqueue(q, v) ==
    /\ items' = [items EXCEPT ![q] = Append(@, v)]
    /\ UNCHANGED taken

Dequeue(t, q) ==
    /\ taken[t] = NoValue
    /\ items[q] # <<>>
    /\ taken' = [taken EXCEPT ![t] = Head(items[q])]
    /\ items' = [items EXCEPT ![q] = Tail(@)]

Return(t) ==
    /\ taken' = [taken EXCEPT ![t] = NoValue]
    /\ UNCHANGED items

Clear(q) ==
    /\ items' = [items EXCEPT ![q] = <<>>]
    /\ UNCHANGED taken

Next ==
    \/ \E q \in Queues, v \in Values : Enqueue(q, v)
    \/ \E t \in Threads, q \in Queues : Dequeue(t, q)
    \/ \E t \in Threads : Return(t)
    \/ \E q \in Queues : Clear(q)

Spec == Init /\ [][Next]_vars

===============================================================================
