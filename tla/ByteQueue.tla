------------------------------- MODULE ByteQueue -------------------------------
(***************************************************************************)
(* What RingBuffer promises: a bounded queue of bytes.  Whole blocks are   *)
(* put in and taken out in order, and what a reader is handed is the front *)
(* of the queue.                                                           *)
(***************************************************************************)
EXTENDS Naturals, Sequences

CONSTANTS Bytes, BUFFER_SIZE

VARIABLES content,  \* the bytes put in and not taken out
          result    \* the bytes the reader was handed last

vars == <<content, result>>

Blocks == UNION {[1 .. n -> Bytes] : n \in 1 .. BUFFER_SIZE}

Init == content = <<>> /\ result = <<>>

Put(s) ==
    /\ Len(content) + Len(s) <= BUFFER_SIZE
    /\ content' = content \o s
    /\ UNCHANGED result

Get(n) ==
    /\ n <= Len(content)
    /\ result' = SubSeq(content, 1, n)
    /\ content' = SubSeq(content, n + 1, Len(content))

\* Peek skips the first k bytes; k = 0 for the front of the queue.
Peek(k, n) ==
    /\ k + n <= Len(content)
    /\ result' = SubSeq(content, k + 1, k + n)
    /\ UNCHANGED content

Clear == content' = <<>> /\ UNCHANGED result

Next ==
    \/ \E s \in Blocks : Put(s)
    \/ \E n \in 1 .. BUFFER_SIZE : Get(n)
    \/ \E n \in 1 .. BUFFER_SIZE, k \in 0 .. BUFFER_SIZE : Peek(k, n)
    \/ Clear

Spec == Init /\ [][Next]_vars

===============================================================================
