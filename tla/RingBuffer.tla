------------------------------ MODULE RingBuffer ------------------------------
(***************************************************************************)
(* RingBuffer: BUFFER_SIZE bytes in an array one longer, so that equal     *)
(* positions mean empty.  Every call loads the two positions once, copies  *)
(* in at most two pieces, and stores the one position it owns at the end;  *)
(* the module lets one writer and one reader run at the same time.         *)
(*                                                                         *)
(* The writer either calls Enqueue or has bytes received directly into the *)
(* array (DirectEnqueueSize, GetWriteStartPtr, MoveInPos); the reader      *)
(* calls Dequeue, Peek or PeekAt, or has bytes sent directly out of it     *)
(* (DirectDequeueSize, GetReadStartPtr, MoveOutPos).  A load, a memcpy and *)
(* a store of a position are one action each.                              *)
(***************************************************************************)
EXTENDS Integers, Sequences

CONSTANTS
  BUFFER_SIZE,
  Bytes

ASSUME BufferAssumption == BUFFER_SIZE \in Nat \ {0} /\ Bytes # {}

ACTUAL_SIZE == BUFFER_SIZE + 1
Positions   == 0 .. ACTUAL_SIZE - 1

VARIABLES
  iInPos, iOutPos, buffer,
  w,        \* the writer: where it is, its local in, what it copies, and how
            \* many of these bytes are in the first piece
  r,        \* the reader: where it is, its local out, how many bytes it wants,
            \* how many are in the first piece, what it copied, and whether
            \* the call moves iOutPos_
  result    \* the bytes the reader was handed last

vars == <<iInPos, iOutPos, buffer, w, r, result>>

-------------------------------------------------------------------------------
\* The macros of RingBuffer.h.
GetUseSize(in, out)  == IF in >= out THEN in - out ELSE ACTUAL_SIZE - out + in
GetFreeSize(in, out) == BUFFER_SIZE - GetUseSize(in, out)

\* Mutation: one byte too many when the reader is at the start of the array.
DirectEnqueueSizeNoGap(in, out) == IF in >= out THEN ACTUAL_SIZE - in ELSE out - in - 1

DirectEnqueueSize(in, out) ==
    IF in >= out THEN (IF out > 0 THEN ACTUAL_SIZE - in ELSE BUFFER_SIZE - in)
                 ELSE out - in - 1

\* Mutation: all that is used, as if the array did not end.
DirectDequeueSizeWhole(in, out) == GetUseSize(in, out)

DirectDequeueSize(in, out) == IF in >= out THEN in - out ELSE ACTUAL_SIZE - out

Move(pos, n) == (pos + n) % ACTUAL_SIZE

Least(a, b) == IF a < b THEN a ELSE b

\* The n bytes from pos on; memcpy itself never wraps around.
Piece(pos, n) == [k \in 1 .. n |-> buffer[pos + k - 1]]
Copy(pos, s)  ==
    buffer' = [p \in Positions |-> IF pos <= p /\ p < pos + Len(s) THEN s[p - pos + 1]
                                                                  ELSE buffer[p]]

Blocks == UNION {[1 .. n -> Bytes] : n \in 1 .. BUFFER_SIZE}

NoWrite == [pc |-> "idle", in |-> 0, data |-> <<>>, first |-> 0]
NoRead  == [pc |-> "idle", out |-> 0, size |-> 0, first |-> 0, data |-> <<>>,
            moves |-> FALSE]

Init ==
    /\ iInPos = 0 /\ iOutPos = 0
    /\ buffer \in [Positions -> {CHOOSE b \in Bytes : TRUE}]
    /\ w = NoWrite /\ r = NoRead
    /\ result = <<>>

-------------------------------------------------------------------------------
\* Enqueue: load the positions; too little room makes it return 0 at once.
BeginEnqueue(s) ==
    /\ w.pc = "idle"
    /\ Len(s) <= GetFreeSize(iInPos, iOutPos)
    /\ w' = [pc |-> "first", in |-> iInPos, data |-> s,
             first |-> Least(DirectEnqueueSize(iInPos, iOutPos), Len(s))]
    /\ UNCHANGED <<iInPos, iOutPos, buffer, r, result>>

\* A receive into the array: as many bytes as arrive, of those that fit there.
BeginReceive(s) ==
    /\ w.pc = "idle"
    /\ Len(s) <= DirectEnqueueSize(iInPos, iOutPos)
    /\ w' = [pc |-> "first", in |-> iInPos, data |-> s, first |-> Len(s)]
    /\ UNCHANGED <<iInPos, iOutPos, buffer, r, result>>

\* Mutation: the position is stored when the first piece is in.
EnqueueFirstEarly ==
    /\ w.pc = "first"
    /\ Copy(w.in, SubSeq(w.data, 1, w.first))
    /\ iInPos' = Move(w.in, Len(w.data))
    /\ w' = IF w.first < Len(w.data) THEN [w EXCEPT !.pc = "second"] ELSE NoWrite
    /\ UNCHANGED <<iOutPos, r, result>>

EnqueueFirst ==
    /\ w.pc = "first"
    /\ Copy(w.in, SubSeq(w.data, 1, w.first))
    /\ w' = [w EXCEPT !.pc = IF w.first < Len(w.data) THEN "second" ELSE "store"]
    /\ UNCHANGED <<iInPos, iOutPos, r, result>>

EnqueueSecond ==
    /\ w.pc = "second"
    /\ Copy(Move(w.in, w.first), SubSeq(w.data, w.first + 1, Len(w.data)))
    /\ w' = [w EXCEPT !.pc = "store"]
    /\ UNCHANGED <<iInPos, iOutPos, r, result>>

\* iInPos_ = in, or MoveInPos.
EnqueueStore ==
    /\ w.pc = "store"
    /\ iInPos' = Move(w.in, Len(w.data))
    /\ w' = NoWrite
    /\ UNCHANGED <<iOutPos, buffer, r, result>>

-------------------------------------------------------------------------------
\* Dequeue, Peek and PeekAt(out): more bytes than are there make them return 0.
BeginRead(out, n, moves) ==
    /\ r.pc = "idle"
    /\ n <= GetUseSize(iInPos, out)
    /\ r' = [pc |-> "first", out |-> out, size |-> n, moves |-> moves, data |-> <<>>,
             first |-> Least(DirectDequeueSize(iInPos, out), n)]
    /\ UNCHANGED <<iInPos, iOutPos, buffer, w, result>>

Dequeue(n) == BeginRead(iOutPos, n, TRUE)

\* PeekAt starts k bytes further on, k = 0 is Peek.
PeekAt(k, n) ==
    /\ k <= GetUseSize(iInPos, iOutPos)
    /\ BeginRead(Move(iOutPos, k), n, FALSE)

\* A send out of the array.
BeginSend(n) ==
    /\ r.pc = "idle"
    /\ n <= DirectDequeueSize(iInPos, iOutPos)
    /\ r' = [pc |-> "first", out |-> iOutPos, size |-> n, moves |-> TRUE, data |-> <<>>,
             first |-> n]
    /\ UNCHANGED <<iInPos, iOutPos, buffer, w, result>>

ReadFirst ==
    /\ r.pc = "first"
    /\ r' = [r EXCEPT !.pc = IF r.first < r.size THEN "second" ELSE "store",
                      !.data = Piece(r.out, r.first)]
    /\ UNCHANGED <<iInPos, iOutPos, buffer, w, result>>

\* Where the second piece starts; Peek and PeekAt take the start of the array.
SecondPiece == IF r.moves THEN Move(r.out, r.first) ELSE 0

ReadSecond ==
    /\ r.pc = "second"
    /\ r' = [r EXCEPT !.pc = "store",
                      !.data = @ \o Piece(SecondPiece, r.size - r.first)]
    /\ UNCHANGED <<iInPos, iOutPos, buffer, w, result>>

\* iOutPos_ = out, or MoveOutPos; a Peek only returns.
ReadStore ==
    /\ r.pc = "store"
    /\ iOutPos' = IF r.moves THEN Move(r.out, r.size) ELSE iOutPos
    /\ result' = r.data
    /\ r' = NoRead
    /\ UNCHANGED <<iInPos, buffer, w>>

\* ClearBuffer moves both positions: neither side may be inside a call.
ClearBuffer ==
    /\ w.pc = "idle" /\ r.pc = "idle"
    /\ iInPos' = 0 /\ iOutPos' = 0
    /\ UNCHANGED <<buffer, w, r, result>>

-------------------------------------------------------------------------------
Sizes == 1 .. BUFFER_SIZE

Writer == \/ \E s \in Blocks : BeginEnqueue(s) \/ BeginReceive(s)
          \/ EnqueueFirst \/ EnqueueSecond \/ EnqueueStore

Reader == \/ \E n \in Sizes : Dequeue(n) \/ BeginSend(n)
          \/ \E n \in Sizes, k \in 0 .. BUFFER_SIZE : PeekAt(k, n)
          \/ ReadFirst \/ ReadSecond \/ ReadStore

Next == Writer \/ Reader \/ ClearBuffer

Spec == Init /\ [][Next]_vars

-------------------------------------------------------------------------------
\* Every variable has its type.
TypeOK ==
    /\ iInPos \in Positions /\ iOutPos \in Positions
    /\ buffer \in [Positions -> Bytes]
    /\ w.pc \in {"idle", "first", "second", "store"}
    /\ w.in \in Positions /\ w.first \in 0 .. BUFFER_SIZE
    /\ r.pc \in {"idle", "first", "second", "store"}
    /\ r.out \in Positions /\ r.size \in 0 .. BUFFER_SIZE /\ r.first \in 0 .. r.size
    /\ r.moves \in BOOLEAN

\* The array cells the next memcpy of each side touches.
Span(pos, n) == pos .. pos + n - 1

Writing ==
    CASE w.pc = "first"  -> Span(w.in, w.first)
      [] w.pc = "second" -> Span(Move(w.in, w.first), Len(w.data) - w.first)
      [] OTHER -> {}

Reading ==
    CASE r.pc = "first"  -> Span(r.out, r.first)
      [] r.pc = "second" -> Span(SecondPiece, r.size - r.first)
      [] OTHER -> {}

\* No memcpy runs past the end of the array, whichever way the data is split, and
\* the positions stay inside it.
InBounds == TypeOK /\ Writing \cup Reading \subseteq Positions

\* A byte is never written while it may be read: neither a byte the reader has
\* begun to read nor one that is in the queue, whatever the writer saw of iOutPos_.
\* And a Dequeue or Peek that has begun reads only bytes that are in the queue.
Queued == {Move(iOutPos, k) : k \in 0 .. GetUseSize(iInPos, iOutPos) - 1}

NoOverwrite ==
    /\ Writing \cap (Reading \cup Queued) = {}
    /\ Reading \subseteq Queued

\* The buffer is a bounded queue of bytes for one writer and one reader.
Queue == INSTANCE ByteQueue WITH
           content <- [k \in 1 .. GetUseSize(iInPos, iOutPos) |->
                         buffer[Move(iOutPos, k - 1)]]

QueueSpec == Queue!Spec

===============================================================================
