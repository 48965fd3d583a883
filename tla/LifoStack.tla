------------------------------- MODULE LifoStack -------------------------------
(***************************************************************************)
(* What CLockFreeStack promises: a Pop takes, in one step, the element     *)
(* pushed last of those in the stack, and returns it in a later one.       *)
(***************************************************************************)
EXTENDS Sequences

CONSTANTS Threads, Values,
          NoValue    \* what a thread holds that has taken nothing

VARIABLES content,   \* the stack, last pushed first
          taken      \* what each thread took and has not returned yet

Init ==
    /\ content = <<>>
    /\ taken = [t \in Threads |-> NoValue]

Push(v) ==
    /\ content' = <<v>> \o content
    /\ UNCHANGED taken

Pop(t) ==
    /\ taken[t] = NoValue
    /\ content # <<>>
    /\ taken' = [taken EXCEPT ![t] = Head(content)]
    /\ content' = Tail(content)

Return(t) ==
    /\ taken' = [taken EXCEPT ![t] = NoValue]
    /\ UNCHANGED content

Next ==
    \/ \E v \in Values : Push(v)
    \/ \E t \in Threads : Pop(t) \/ Return(t)

Spec == Init /\ [][Next]_<<content, taken>>

================================================================================
