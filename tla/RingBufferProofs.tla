--------------------------- MODULE RingBufferProofs ---------------------------
(***************************************************************************)
(* For every size of the array: no memcpy of RingBuffer leaves it, and the *)
(* writer never touches a cell that is queued or being read.               *)
(*                                                                         *)
(* The argument is about distances from iOutPos_, the number of used bytes *)
(* before a cell (GetUseSize of the cell's position and iOutPos_): a cell  *)
(* is queued when its distance is below that of iInPos_, the reader stays  *)
(* below it, and the writer at it or above.                                *)
(***************************************************************************)
EXTENDS RingBuffer, TLAPS

PCs == {"idle", "first", "second", "store"}

Types ==
    /\ iInPos \in Positions /\ iOutPos \in Positions
    /\ buffer \in [Positions -> Bytes]
    /\ w \in [pc : PCs, in : Positions, data : Seq(Bytes), first : 0 .. BUFFER_SIZE]
    /\ r \in [pc : PCs, out : Positions, size : 0 .. BUFFER_SIZE,
              first : 0 .. BUFFER_SIZE, data : Seq(Bytes), moves : BOOLEAN]

\* What the writer goes by stays true until it stores: its copy of iInPos_ is the
\* position itself, its bytes fit in what is free now, and a first piece that is
\* not all of them ends where the array ends.
WriterFits ==
    w.pc # "idle" =>
        /\ w.in = iInPos
        /\ w.first <= Len(w.data)
        /\ Len(w.data) <= GetFreeSize(iInPos, iOutPos)
        /\ w.in + w.first <= ACTUAL_SIZE
        /\ w.first < Len(w.data) => w.in + w.first = ACTUAL_SIZE
        /\ w.pc = "second" => w.first < Len(w.data)

\* The same for the reader; a Peek starts some distance after iOutPos_.
ReaderFits ==
    /\ r.first <= r.size
    /\ r.pc # "idle" =>
        /\ r.moves => r.out = iOutPos
        /\ GetUseSize(r.out, iOutPos) + r.size <= GetUseSize(iInPos, iOutPos)
        /\ r.out + r.first <= ACTUAL_SIZE
        /\ r.first < r.size => r.out + r.first = ACTUAL_SIZE
        /\ r.pc = "second" => r.first < r.size

IInv == Types /\ WriterFits /\ ReaderFits

-------------------------------------------------------------------------------
\* A position moved by at most the buffer's size wraps around once or not at all.
LEMMA MoveWraps ==
    ASSUME NEW p \in Positions, NEW n \in 0 .. BUFFER_SIZE
    PROVE  /\ Move(p, n) = IF p + n < ACTUAL_SIZE THEN p + n ELSE p + n - ACTUAL_SIZE
           /\ Move(p, n) \in Positions
<1>1. BUFFER_SIZE \in Nat /\ BUFFER_SIZE > 0
  BY BufferAssumption
<1>2. CASE p + n < ACTUAL_SIZE
  <2>1. (p + n) % ACTUAL_SIZE = p + n
    BY <1>1, <1>2 DEF Positions, ACTUAL_SIZE
  <2> QED
    BY <1>1, <1>2, <2>1 DEF Move, Positions, ACTUAL_SIZE
<1>3. CASE ~ (p + n < ACTUAL_SIZE)
  <2>1. (p + n) % ACTUAL_SIZE = p + n - ACTUAL_SIZE
    BY <1>1, <1>3 DEF Positions, ACTUAL_SIZE
  <2> QED
    BY <1>1, <1>3, <2>1 DEF Move, Positions, ACTUAL_SIZE
<1> QED
  BY <1>2, <1>3

\* The queued cells are those closer to iOutPos_ than iInPos_ is.
LEMMA QueuedCells ==
    ASSUME iInPos \in Positions, iOutPos \in Positions
    PROVE  Queued = {p \in Positions :
                       GetUseSize(p, iOutPos) < GetUseSize(iInPos, iOutPos)}
<1>1. BUFFER_SIZE \in Nat
  BY BufferAssumption
<1>2. GetUseSize(iInPos, iOutPos) \in 0 .. BUFFER_SIZE
  BY <1>1 DEF GetUseSize, Positions, ACTUAL_SIZE
<1>3. ASSUME NEW k \in 0 .. GetUseSize(iInPos, iOutPos) - 1
      PROVE  /\ Move(iOutPos, k) \in Positions
             /\ GetUseSize(Move(iOutPos, k), iOutPos) = k
  <2>1. k \in 0 .. BUFFER_SIZE
    BY <1>1, <1>2
  <2>2. /\ Move(iOutPos, k) = IF iOutPos + k < ACTUAL_SIZE THEN iOutPos + k
                                                         ELSE iOutPos + k - ACTUAL_SIZE
        /\ Move(iOutPos, k) \in Positions
    BY <2>1, MoveWraps
  <2> QED
    BY <1>1, <2>1, <2>2 DEF GetUseSize, Positions, ACTUAL_SIZE
<1>4. ASSUME NEW p \in Positions,
             GetUseSize(p, iOutPos) < GetUseSize(iInPos, iOutPos)
      PROVE  /\ GetUseSize(p, iOutPos) \in 0 .. GetUseSize(iInPos, iOutPos) - 1
             /\ p = Move(iOutPos, GetUseSize(p, iOutPos))
  <2>1. GetUseSize(p, iOutPos) \in 0 .. BUFFER_SIZE
    BY <1>1 DEF GetUseSize, Positions, ACTUAL_SIZE
  <2>2. Move(iOutPos, GetUseSize(p, iOutPos)) =
          IF iOutPos + GetUseSize(p, iOutPos) < ACTUAL_SIZE
          THEN iOutPos + GetUseSize(p, iOutPos)
          ELSE iOutPos + GetUseSize(p, iOutPos) - ACTUAL_SIZE
    BY <2>1, MoveWraps
  <2>3. Move(iOutPos, GetUseSize(p, iOutPos)) = p
    BY <1>1, <2>2 DEF GetUseSize, Positions, ACTUAL_SIZE
  <2> QED
    BY <1>1, <1>2, <1>4, <2>1, <2>3
<1> QED
  BY <1>2, <1>3, <1>4 DEF Queued

\* A block has between one and BUFFER_SIZE bytes.
LEMMA BlockLength ==
    ASSUME NEW s \in Blocks
    PROVE  s \in Seq(Bytes) /\ Len(s) \in 1 .. BUFFER_SIZE
  BY BufferAssumption DEF Blocks

\* The distances are sizes of a buffer that is at most full.
LEMMA Distances ==
    ASSUME NEW p \in Positions, NEW q \in Positions
    PROVE  /\ BUFFER_SIZE \in Nat /\ BUFFER_SIZE > 0
           /\ GetUseSize(p, q) \in 0 .. BUFFER_SIZE
           /\ GetFreeSize(p, q) \in 0 .. BUFFER_SIZE
           /\ GetFreeSize(p, q) + GetUseSize(p, q) = BUFFER_SIZE
BY BufferAssumption DEF GetUseSize, GetFreeSize, Positions, ACTUAL_SIZE

\* Moving the first position on adds to the distance, moving the second takes away.
LEMMA MoveDistance ==
    ASSUME NEW p \in Positions, NEW q \in Positions, NEW n \in 0 .. BUFFER_SIZE
    PROVE  /\ n <= GetFreeSize(p, q) => GetUseSize(Move(p, n), q) = GetUseSize(p, q) + n
           /\ n <= GetUseSize(p, q) => GetUseSize(p, Move(q, n)) = GetUseSize(p, q) - n
<1>1. BUFFER_SIZE \in Nat /\ BUFFER_SIZE > 0
  BY BufferAssumption
<1>2. /\ Move(p, n) = IF p + n < ACTUAL_SIZE THEN p + n ELSE p + n - ACTUAL_SIZE
      /\ Move(q, n) = IF q + n < ACTUAL_SIZE THEN q + n ELSE q + n - ACTUAL_SIZE
  BY MoveWraps
<1>3. n <= GetFreeSize(p, q) => GetUseSize(Move(p, n), q) = GetUseSize(p, q) + n
  BY <1>1, <1>2 DEF GetUseSize, GetFreeSize, Positions, ACTUAL_SIZE
<1>4. n <= GetUseSize(p, q) => GetUseSize(p, Move(q, n)) = GetUseSize(p, q) - n
  BY <1>1, <1>2 DEF GetUseSize, Positions, ACTUAL_SIZE
<1> QED
  BY <1>3, <1>4

-------------------------------------------------------------------------------
LEMMA InitIInv == Init => IInv
<1> SUFFICES ASSUME Init PROVE IInv
  OBVIOUS
<1>1. 0 \in Positions /\ 0 \in 0 .. BUFFER_SIZE /\ <<>> \in Seq(Bytes)
  BY BufferAssumption DEF Positions, ACTUAL_SIZE
<1>2. buffer \in [Positions -> Bytes]
  BY BufferAssumption DEF Init
<1>3. Types
  BY <1>1, <1>2 DEF Init, Types, NoWrite, NoRead, PCs
<1>4. WriterFits /\ ReaderFits
  BY DEF Init, WriterFits, ReaderFits, NoWrite, NoRead
<1> QED
  BY <1>3, <1>4 DEF IInv

\* A call begins with the positions it has just loaded.
LEMMA BeginEnqueueIInv ==
    ASSUME IInv, NEW s \in Blocks, BeginEnqueue(s) \/ BeginReceive(s)
    PROVE  IInv'
<1>1. s \in Seq(Bytes) /\ Len(s) \in 1 .. BUFFER_SIZE
  BY BlockLength
<1>2. iInPos \in Positions /\ iOutPos \in Positions
  BY DEF IInv, Types
<1>3. /\ BUFFER_SIZE \in Nat /\ BUFFER_SIZE > 0
      /\ GetUseSize(iInPos, iOutPos) \in 0 .. BUFFER_SIZE
  BY <1>2, Distances
<1>4. PICK n \in 0 .. BUFFER_SIZE :
        /\ w' = [pc |-> "first", in |-> iInPos, data |-> s, first |-> n]
        /\ n <= Len(s) /\ iInPos + n <= ACTUAL_SIZE
        /\ n < Len(s) => iInPos + n = ACTUAL_SIZE
        /\ Len(s) <= GetFreeSize(iInPos, iOutPos)
  <2>1. CASE BeginEnqueue(s)
    <3> DEFINE n == Least(DirectEnqueueSize(iInPos, iOutPos), Len(s))
    <3>1. Len(s) <= GetFreeSize(iInPos, iOutPos)
      BY <2>1 DEF BeginEnqueue
    <3>2. /\ n \in 0 .. BUFFER_SIZE /\ n <= Len(s) /\ iInPos + n <= ACTUAL_SIZE
          /\ n < Len(s) => iInPos + n = ACTUAL_SIZE
      BY <1>1, <1>2, <1>3, <3>1
      DEF Least, DirectEnqueueSize, GetFreeSize, GetUseSize, Positions, ACTUAL_SIZE
    <3>3. w' = [pc |-> "first", in |-> iInPos, data |-> s, first |-> n]
      BY <2>1 DEF BeginEnqueue
    <3> QED
      BY <3>1, <3>2, <3>3
  <2>2. CASE BeginReceive(s)
    <3>1. Len(s) <= DirectEnqueueSize(iInPos, iOutPos)
      BY <2>2 DEF BeginReceive
    <3>2. iInPos + Len(s) <= ACTUAL_SIZE /\ Len(s) <= GetFreeSize(iInPos, iOutPos)
      BY <1>1, <1>2, <1>3, <3>1
      DEF DirectEnqueueSize, GetFreeSize, GetUseSize, Positions, ACTUAL_SIZE
    <3>3. w' = [pc |-> "first", in |-> iInPos, data |-> s, first |-> Len(s)]
      BY <2>2 DEF BeginReceive
    <3> QED
      BY <1>1, <3>2, <3>3
  <2> QED
    BY <2>1, <2>2
<1>5. UNCHANGED <<iInPos, iOutPos, buffer, r>>
  BY DEF BeginEnqueue, BeginReceive
<1>6. Types'
  BY <1>1, <1>2, <1>4, <1>5 DEF IInv, Types, PCs
<1>7. WriterFits'
  BY <1>4, <1>5 DEF WriterFits, GetFreeSize, GetUseSize
<1>8. ReaderFits'
  BY <1>5 DEF IInv, ReaderFits, GetUseSize
<1> QED
  BY <1>6, <1>7, <1>8 DEF IInv

\* memcpy leaves a full array of bytes behind.
LEMMA CopyTyped ==
    ASSUME buffer \in [Positions -> Bytes], NEW pos \in Positions,
           NEW s \in Seq(Bytes), Copy(pos, s)
    PROVE  buffer' \in [Positions -> Bytes]
<1>1. ASSUME NEW p \in Positions, pos <= p /\ p < pos + Len(s)
      PROVE  s[p - pos + 1] \in Bytes
  <2>1. p - pos + 1 \in 1 .. Len(s)
    BY <1>1, BufferAssumption DEF Positions, ACTUAL_SIZE
  <2> QED
    BY <2>1
<1> QED
  BY <1>1 DEF Copy

LEMMA CopyStepIInv ==
    ASSUME IInv, EnqueueFirst \/ EnqueueSecond
    PROVE  IInv'
<1>1. w.in \in Positions /\ w.data \in Seq(Bytes) /\ w.first \in 0 .. BUFFER_SIZE
  BY DEF IInv, Types
<1>2. w.pc # "idle" /\ w.first <= Len(w.data)
  BY DEF IInv, WriterFits, EnqueueFirst, EnqueueSecond
<1>3. buffer' \in [Positions -> Bytes]
  <2>1. buffer \in [Positions -> Bytes] /\ Move(w.in, w.first) \in Positions
    BY <1>1, MoveWraps DEF IInv, Types
  <2>2. Len(w.data) \in Nat /\ w.first \in Nat
    BY <1>1, BufferAssumption
  <2>3. SubSeq(w.data, 1, w.first) \in Seq(Bytes)
    BY <1>1, <1>2, <2>2
  <2>4. SubSeq(w.data, w.first + 1, Len(w.data)) \in Seq(Bytes)
    BY <1>1, <1>2, <2>2
  <2>5. CASE EnqueueFirst
    BY <1>1, <2>1, <2>3, <2>5, CopyTyped DEF EnqueueFirst
  <2>6. CASE EnqueueSecond
    BY <1>1, <2>1, <2>4, <2>6, CopyTyped DEF EnqueueSecond
  <2> QED
    BY <2>5, <2>6
<1>4. PICK pc \in {"second", "store"} :
        /\ w' = [w EXCEPT !.pc = pc]
        /\ pc = "second" => w.first < Len(w.data)
  BY DEF EnqueueFirst, EnqueueSecond
<1>5. UNCHANGED <<iInPos, iOutPos, r>>
  BY DEF EnqueueFirst, EnqueueSecond
<1>6. Types'
  BY <1>3, <1>4, <1>5 DEF IInv, Types, PCs
<1>7. /\ w'.pc = pc /\ w'.in = w.in /\ w'.data = w.data /\ w'.first = w.first
  BY <1>4 DEF IInv, Types
<1>8. WriterFits'
  BY <1>2, <1>4, <1>5, <1>7 DEF IInv, WriterFits, GetFreeSize, GetUseSize
<1>9. ReaderFits'
  BY <1>5 DEF IInv, ReaderFits, GetUseSize
<1> QED
  BY <1>6, <1>8, <1>9 DEF IInv

\* Storing iInPos_ adds the writer's bytes to those in use.
LEMMA EnqueueStoreIInv ==
    ASSUME IInv, EnqueueStore
    PROVE  IInv'
<1>1. /\ iInPos \in Positions /\ iOutPos \in Positions /\ r.out \in Positions
      /\ w.data \in Seq(Bytes) /\ Len(w.data) \in Nat
  BY DEF IInv, Types
<1>2. w.in = iInPos /\ Len(w.data) <= GetFreeSize(iInPos, iOutPos)
  BY DEF IInv, WriterFits, EnqueueStore
<1>3. /\ BUFFER_SIZE \in Nat /\ Len(w.data) \in 0 .. BUFFER_SIZE
      /\ GetUseSize(iInPos, iOutPos) \in 0 .. BUFFER_SIZE
  BY <1>1, <1>2, Distances
<1>4. iInPos' = Move(iInPos, Len(w.data)) /\ iInPos' \in Positions
  BY <1>1, <1>2, <1>3, MoveWraps DEF EnqueueStore
<1>5. w' = NoWrite /\ UNCHANGED <<iOutPos, buffer, r>>
  BY DEF EnqueueStore
<1>6. GetUseSize(iInPos', iOutPos) = GetUseSize(iInPos, iOutPos) + Len(w.data)
  BY <1>1, <1>2, <1>3, <1>4, MoveDistance
<1>7. Types'
  <2>1. 0 \in Positions /\ 0 \in 0 .. BUFFER_SIZE /\ <<>> \in Seq(Bytes)
    BY <1>3 DEF Positions, ACTUAL_SIZE
  <2> QED
    BY <1>4, <1>5, <2>1 DEF IInv, Types, PCs, NoWrite
<1>8. WriterFits'
  BY <1>5 DEF WriterFits, NoWrite
<1>9. ReaderFits'
  <2>1. /\ GetUseSize(r.out, iOutPos) \in 0 .. BUFFER_SIZE
        /\ r.size \in 0 .. BUFFER_SIZE
    BY <1>1, Distances DEF IInv, Types
  <2>2. GetUseSize(iInPos, iOutPos)' = GetUseSize(iInPos, iOutPos) + Len(w.data)
    BY <1>5, <1>6 DEF GetUseSize
  <2>3. GetUseSize(r.out, iOutPos)' = GetUseSize(r.out, iOutPos)
    BY <1>5 DEF GetUseSize
  <2>4. r' = r /\ iOutPos' = iOutPos
    BY <1>5
  <2>5. ReaderFits
    BY DEF IInv
  <2> QED
    BY <1>3, <2>1, <2>2, <2>3, <2>4, <2>5 DEF ReaderFits
<1> QED
  BY <1>7, <1>8, <1>9 DEF IInv

-------------------------------------------------------------------------------
\* A Dequeue, Peek or PeekAt that begins where the queue has n bytes left.
LEMMA BeginReadIInv ==
    ASSUME IInv, NEW out \in Positions, NEW n \in Sizes, NEW moves \in BOOLEAN,
           moves => out = iOutPos,
           GetUseSize(out, iOutPos) + GetUseSize(iInPos, out)
              = GetUseSize(iInPos, iOutPos),
           BeginRead(out, n, moves)
    PROVE  IInv'
<1>1. iInPos \in Positions /\ iOutPos \in Positions
  BY DEF IInv, Types
<1>2. /\ BUFFER_SIZE \in Nat /\ n \in 1 .. BUFFER_SIZE
      /\ GetUseSize(iInPos, out) \in 0 .. BUFFER_SIZE
      /\ GetUseSize(out, iOutPos) \in 0 .. BUFFER_SIZE
  BY <1>1, Distances DEF Sizes
<1>3. n <= GetUseSize(iInPos, out)
  BY DEF BeginRead
<1> DEFINE first == Least(DirectDequeueSize(iInPos, out), n)
<1>4. /\ first \in 0 .. BUFFER_SIZE /\ first <= n /\ out + first <= ACTUAL_SIZE
      /\ first < n => out + first = ACTUAL_SIZE
  BY <1>1, <1>2, <1>3 DEF Least, DirectDequeueSize, GetUseSize, Positions, ACTUAL_SIZE
<1>5. r' = [pc |-> "first", out |-> out, size |-> n, moves |-> moves, data |-> <<>>,
            first |-> first]
  BY DEF BeginRead
<1>6. UNCHANGED <<iInPos, iOutPos, buffer, w>>
  BY DEF BeginRead
<1> HIDE DEF first
<1>7. Types'
  <2>1. <<>> \in Seq(Bytes)
    OBVIOUS
  <2> QED
    BY <1>2, <1>4, <1>5, <1>6, <2>1 DEF IInv, Types, PCs
<1>8. WriterFits'
  BY <1>6 DEF IInv, WriterFits, GetFreeSize, GetUseSize
<1>9. ReaderFits'
  <2>1. GetUseSize(out, iOutPos) + n <= GetUseSize(iInPos, iOutPos)
    BY <1>2, <1>3
  <2>2. GetUseSize(iInPos, iOutPos)' = GetUseSize(iInPos, iOutPos)
    BY <1>6 DEF GetUseSize
  <2>3. GetUseSize(r.out, iOutPos)' = GetUseSize(out, iOutPos)
    BY <1>5, <1>6 DEF GetUseSize
  <2>4. iOutPos' = iOutPos
    BY <1>6
  <2> QED
    BY <1>4, <1>5, <2>1, <2>2, <2>3, <2>4 DEF ReaderFits
<1> QED
  BY <1>7, <1>8, <1>9 DEF IInv

LEMMA DequeueIInv ==
    ASSUME IInv, NEW n \in Sizes, Dequeue(n)
    PROVE  IInv'
<1>1. iInPos \in Positions /\ iOutPos \in Positions
  BY DEF IInv, Types
<1>2. GetUseSize(iOutPos, iOutPos) = 0 /\ GetUseSize(iInPos, iOutPos) \in Nat
  BY <1>1, BufferAssumption DEF GetUseSize, Positions, ACTUAL_SIZE
<1>3. GetUseSize(iOutPos, iOutPos) + GetUseSize(iInPos, iOutPos)
        = GetUseSize(iInPos, iOutPos)
  BY <1>2
<1>4. BeginRead(iOutPos, n, TRUE)
  BY DEF Dequeue
<1> QED
  BY <1>1, <1>3, <1>4, BeginReadIInv

LEMMA PeekAtIInv ==
    ASSUME IInv, NEW n \in Sizes, NEW k \in 0 .. BUFFER_SIZE, PeekAt(k, n)
    PROVE  IInv'
<1>1. iInPos \in Positions /\ iOutPos \in Positions
  BY DEF IInv, Types
<1>2. k <= GetUseSize(iInPos, iOutPos)
  BY DEF PeekAt
<1>3. GetUseSize(iInPos, Move(iOutPos, k)) = GetUseSize(iInPos, iOutPos) - k
  BY <1>1, <1>2, MoveDistance
<1>4. GetUseSize(Move(iOutPos, k), iOutPos) = k
  <2>1. /\ GetUseSize(iOutPos, iOutPos) = 0
        /\ GetFreeSize(iOutPos, iOutPos) = BUFFER_SIZE
    BY <1>1, BufferAssumption DEF GetUseSize, GetFreeSize, Positions, ACTUAL_SIZE
  <2>2. k <= GetFreeSize(iOutPos, iOutPos)
    BY <2>1
  <2>3. GetUseSize(Move(iOutPos, k), iOutPos) = GetUseSize(iOutPos, iOutPos) + k
    BY <1>1, <2>2, MoveDistance
  <2> QED
    BY <2>1, <2>3, BufferAssumption
<1>5. GetUseSize(iInPos, iOutPos) \in 0 .. BUFFER_SIZE /\ BUFFER_SIZE \in Nat
  BY <1>1, Distances
<1>6. GetUseSize(Move(iOutPos, k), iOutPos) + GetUseSize(iInPos, Move(iOutPos, k))
        = GetUseSize(iInPos, iOutPos)
  BY <1>3, <1>4, <1>5
<1>7. Move(iOutPos, k) \in Positions
  BY <1>1, MoveWraps
<1>8. BeginRead(Move(iOutPos, k), n, FALSE)
  BY DEF PeekAt
<1> QED
  BY <1>6, <1>7, <1>8, BeginReadIInv

\* A send wants no more than the first piece.
LEMMA BeginSendIInv ==
    ASSUME IInv, NEW n \in Sizes, BeginSend(n)
    PROVE  IInv'
<1>1. iInPos \in Positions /\ iOutPos \in Positions
  BY DEF IInv, Types
<1>2. BUFFER_SIZE \in Nat /\ n \in 1 .. BUFFER_SIZE
  BY BufferAssumption DEF Sizes
<1>3. n <= DirectDequeueSize(iInPos, iOutPos)
  BY DEF BeginSend
<1>4. /\ GetUseSize(iOutPos, iOutPos) + n <= GetUseSize(iInPos, iOutPos)
      /\ iOutPos + n <= ACTUAL_SIZE
  BY <1>1, <1>2, <1>3 DEF DirectDequeueSize, GetUseSize, Positions, ACTUAL_SIZE
<1>5. r' = [pc |-> "first", out |-> iOutPos, size |-> n, moves |-> TRUE, data |-> <<>>,
            first |-> n]
  BY DEF BeginSend
<1>6. UNCHANGED <<iInPos, iOutPos, buffer, w>>
  BY DEF BeginSend
<1>7. Types'
  <2>1. <<>> \in Seq(Bytes) /\ n \in 0 .. BUFFER_SIZE
    BY <1>2
  <2> QED
    BY <1>1, <1>5, <1>6, <2>1 DEF IInv, Types, PCs
<1>8. WriterFits'
  BY <1>6 DEF IInv, WriterFits, GetFreeSize, GetUseSize
<1>9. ReaderFits'
  BY <1>2, <1>4, <1>5, <1>6 DEF ReaderFits, GetUseSize
<1> QED
  BY <1>7, <1>8, <1>9 DEF IInv

\* The reader's next memcpy takes bytes of the array.
LEMMA PieceTyped ==
    ASSUME buffer \in [Positions -> Bytes], NEW pos \in Nat, NEW n \in Nat,
           pos + n <= ACTUAL_SIZE
    PROVE  Piece(pos, n) \in Seq(Bytes)
<1>1. ASSUME NEW k \in 1 .. n PROVE buffer[pos + k - 1] \in Bytes
  <2>1. pos + k - 1 \in Positions
    BY BufferAssumption DEF Positions, ACTUAL_SIZE
  <2> QED
    BY <2>1
<1>2. Piece(pos, n) \in [1 .. n -> Bytes]
  BY <1>1 DEF Piece
<1> QED
  BY <1>2

\* The second piece starts at the start of the array, however the code finds it,
\* and ends before it.
LEMMA SecondAtStart ==
    ASSUME IInv, r.pc = "second"
    PROVE  SecondPiece = 0 /\ r.size - r.first <= BUFFER_SIZE /\ r.size - r.first \in Nat
<1>1. /\ r.out \in Positions /\ r.first \in 0 .. BUFFER_SIZE
      /\ r.size \in 0 .. BUFFER_SIZE
  BY DEF IInv, Types
<1>2. r.first < r.size /\ r.out + r.first = ACTUAL_SIZE
  BY DEF IInv, ReaderFits
<1>3. Move(r.out, r.first) = IF r.out + r.first < ACTUAL_SIZE THEN r.out + r.first
                             ELSE r.out + r.first - ACTUAL_SIZE
  BY <1>1, MoveWraps
<1>4. Move(r.out, r.first) = 0
  BY <1>1, <1>2, <1>3, BufferAssumption DEF Positions, ACTUAL_SIZE
<1> QED
  BY <1>1, <1>2, <1>4, BufferAssumption DEF SecondPiece

LEMMA ReadStepIInv ==
    ASSUME IInv, ReadFirst \/ ReadSecond
    PROVE  IInv'
<1>1. /\ r.out \in Positions /\ r.first \in 0 .. BUFFER_SIZE
      /\ r.size \in 0 .. BUFFER_SIZE /\ r.data \in Seq(Bytes)
      /\ buffer \in [Positions -> Bytes]
  BY DEF IInv, Types
<1>2. BUFFER_SIZE \in Nat
  BY BufferAssumption
<1>3. PICK pc \in {"second", "store"}, d \in Seq(Bytes) :
        /\ r' = [r EXCEPT !.pc = pc, !.data = d]
        /\ pc = "second" => r.first < r.size
  <2>1. CASE ReadFirst
    <3>1. r.out + r.first <= ACTUAL_SIZE
      BY <2>1 DEF IInv, ReaderFits, ReadFirst
    <3>2. Piece(r.out, r.first) \in Seq(Bytes)
      BY <1>1, <1>2, <3>1, PieceTyped DEF Positions
    <3> DEFINE pc == IF r.first < r.size THEN "second" ELSE "store"
    <3>3. r' = [r EXCEPT !.pc = pc, !.data = Piece(r.out, r.first)]
      BY <2>1 DEF ReadFirst
    <3>4. pc \in {"second", "store"} /\ (pc = "second" => r.first < r.size)
      OBVIOUS
    <3> QED
      BY <3>2, <3>3, <3>4
  <2>2. CASE ReadSecond
    <3>1. Piece(SecondPiece, r.size - r.first) \in Seq(Bytes)
      <4>1. /\ SecondPiece = 0 /\ r.size - r.first <= BUFFER_SIZE
            /\ r.size - r.first \in Nat
        BY <2>2, SecondAtStart DEF ReadSecond
      <4>2. 0 + (r.size - r.first) <= ACTUAL_SIZE
        BY <1>2, <4>1 DEF ACTUAL_SIZE
      <4>3. Piece(0, r.size - r.first) \in Seq(Bytes)
        BY <1>1, <4>1, <4>2, PieceTyped
      <4> QED
        BY <4>1, <4>3
    <3>2. r.data \o Piece(SecondPiece, r.size - r.first) \in Seq(Bytes)
      BY <1>1, <3>1
    <3>3. r' = [r EXCEPT !.pc = "store",
                         !.data = r.data \o Piece(SecondPiece, r.size - r.first)]
      BY <2>2 DEF ReadSecond
    <3> QED
      BY <3>2, <3>3
  <2> QED
    BY <2>1, <2>2
<1>4. r.pc # "idle" /\ UNCHANGED <<iInPos, iOutPos, buffer, w>>
  BY DEF ReadFirst, ReadSecond
<1>5. Types'
  BY <1>3, <1>4 DEF IInv, Types, PCs
<1>6. /\ r'.pc = pc /\ r'.out = r.out /\ r'.size = r.size /\ r'.first = r.first
      /\ r'.moves = r.moves
  BY <1>3 DEF IInv, Types
<1>7. WriterFits'
  BY <1>4 DEF IInv, WriterFits, GetFreeSize, GetUseSize
<1>8. ReaderFits'
  BY <1>3, <1>4, <1>6 DEF IInv, ReaderFits, GetUseSize
<1> QED
  BY <1>5, <1>7, <1>8 DEF IInv

\* Storing iOutPos_ leaves the writer more room than it saw.
LEMMA ReadStoreIInv ==
    ASSUME IInv, ReadStore
    PROVE  IInv'
<1>1. /\ iInPos \in Positions /\ iOutPos \in Positions /\ r.size \in 0 .. BUFFER_SIZE
      /\ w.data \in Seq(Bytes) /\ Len(w.data) \in Nat /\ r.out \in Positions
  BY DEF IInv, Types
<1>2. /\ BUFFER_SIZE \in Nat
      /\ GetUseSize(iInPos, iOutPos) \in 0 .. BUFFER_SIZE
      /\ GetUseSize(r.out, iOutPos) \in 0 .. BUFFER_SIZE
  BY <1>1, Distances
<1>3. r.size <= GetUseSize(iInPos, iOutPos)
  <2>1. GetUseSize(r.out, iOutPos) + r.size <= GetUseSize(iInPos, iOutPos)
    BY DEF IInv, ReaderFits, ReadStore
  <2> QED
    BY <1>1, <1>2, <2>1
<1>4. r' = NoRead /\ UNCHANGED <<iInPos, buffer, w>>
  BY DEF ReadStore
<1>5. iOutPos' = IF r.moves THEN Move(iOutPos, r.size) ELSE iOutPos
  BY DEF IInv, ReaderFits, ReadStore
<1>6. /\ iOutPos' \in Positions
      /\ GetUseSize(iInPos, iOutPos') \in 0 .. BUFFER_SIZE
      /\ GetUseSize(iInPos, iOutPos') <= GetUseSize(iInPos, iOutPos)
  <2>1. CASE r.moves
    <3>1. GetUseSize(iInPos, Move(iOutPos, r.size))
            = GetUseSize(iInPos, iOutPos) - r.size
      BY <1>1, <1>3, MoveDistance
    <3>2. Move(iOutPos, r.size) \in Positions
      BY <1>1, MoveWraps
    <3> QED
      BY <1>1, <1>2, <1>3, <1>5, <2>1, <3>1, <3>2
  <2>2. CASE ~ r.moves
    BY <1>1, <1>2, <1>5, <2>2
  <2> QED
    BY <2>1, <2>2
<1>7. Types'
  <2>1. 0 \in Positions /\ 0 \in 0 .. BUFFER_SIZE /\ <<>> \in Seq(Bytes)
    BY <1>2 DEF Positions, ACTUAL_SIZE
  <2> QED
    BY <1>4, <1>6, <2>1 DEF IInv, Types, PCs, NoRead
<1>8. WriterFits'
  <2>1. GetFreeSize(iInPos, iOutPos)' = BUFFER_SIZE - GetUseSize(iInPos, iOutPos')
    BY <1>4 DEF GetFreeSize, GetUseSize
  <2>2. ASSUME Len(w.data) <= GetFreeSize(iInPos, iOutPos)
        PROVE  Len(w.data) <= GetFreeSize(iInPos, iOutPos)'
    BY <1>1, <1>2, <1>6, <2>1, <2>2 DEF GetFreeSize
  <2> QED
    BY <1>4, <2>2 DEF IInv, WriterFits
<1>9. ReaderFits'
  BY <1>4 DEF ReaderFits, NoRead
<1> QED
  BY <1>7, <1>8, <1>9 DEF IInv

LEMMA ClearBufferIInv ==
    ASSUME IInv, ClearBuffer
    PROVE  IInv'
<1>1. 0 \in Positions
  BY BufferAssumption DEF Positions, ACTUAL_SIZE
<1>2. Types'
  BY <1>1 DEF IInv, Types, ClearBuffer
<1>3. WriterFits' /\ ReaderFits'
  BY DEF IInv, WriterFits, ReaderFits, ClearBuffer
<1> QED
  BY <1>2, <1>3 DEF IInv

LEMMA NextIInv == IInv /\ [Next]_vars => IInv'
<1> SUFFICES ASSUME IInv, [Next]_vars PROVE IInv'
  OBVIOUS
<1>1. CASE Writer
  <2>1. CASE \E s \in Blocks : BeginEnqueue(s) \/ BeginReceive(s)
    BY <2>1, BeginEnqueueIInv
  <2>2. CASE EnqueueFirst \/ EnqueueSecond
    BY <2>2, CopyStepIInv
  <2>3. CASE EnqueueStore
    BY <2>3, EnqueueStoreIInv
  <2> QED
    BY <1>1, <2>1, <2>2, <2>3 DEF Writer
<1>2. CASE Reader
  <2>1. CASE \E n \in Sizes : Dequeue(n) \/ BeginSend(n)
    BY <2>1, DequeueIInv, BeginSendIInv
  <2>2. CASE \E n \in Sizes, k \in 0 .. BUFFER_SIZE : PeekAt(k, n)
    BY <2>2, PeekAtIInv
  <2>3. CASE ReadFirst \/ ReadSecond
    BY <2>3, ReadStepIInv
  <2>4. CASE ReadStore
    BY <2>4, ReadStoreIInv
  <2> QED
    BY <1>2, <2>1, <2>2, <2>3, <2>4 DEF Reader
<1>3. CASE ClearBuffer
  BY <1>3, ClearBufferIInv
<1>4. CASE UNCHANGED vars
  BY <1>4 DEF vars, IInv, Types, WriterFits, ReaderFits, GetFreeSize, GetUseSize
<1> QED
  BY <1>1, <1>2, <1>3, <1>4 DEF Next

-------------------------------------------------------------------------------
\* Where len bytes from i on go when they fit, the first f of them before the end.
LEMMA FreeCells ==
    ASSUME NEW i \in Positions, NEW o \in Positions, NEW f \in 0 .. BUFFER_SIZE,
           NEW len \in Nat, NEW p \in Int,
           f <= len, len <= GetFreeSize(i, o), i + f <= ACTUAL_SIZE,
           \/ p \in i .. i + f - 1
           \/ i + f = ACTUAL_SIZE /\ p \in 0 .. len - f - 1
    PROVE  p \in Positions /\ GetUseSize(p, o) >= GetUseSize(i, o)
<1>1. BUFFER_SIZE \in Nat /\ BUFFER_SIZE > 0
  BY BufferAssumption
<1>2. CASE p \in i .. i + f - 1
  BY <1>1, <1>2 DEF GetUseSize, GetFreeSize, Positions, ACTUAL_SIZE
<1>3. CASE i + f = ACTUAL_SIZE /\ p \in 0 .. len - f - 1
  BY <1>1, <1>3 DEF GetUseSize, GetFreeSize, Positions, ACTUAL_SIZE
<1> QED
  BY <1>2, <1>3

\* The cells of the writer's next memcpy are in the array and past what is queued.
LEMMA WritingCells ==
    ASSUME IInv, NEW p \in Writing
    PROVE  p \in Positions /\ GetUseSize(p, iOutPos) >= GetUseSize(iInPos, iOutPos)
<1>1. /\ iInPos \in Positions /\ iOutPos \in Positions
      /\ w.first \in 0 .. BUFFER_SIZE /\ w.data \in Seq(Bytes)
      /\ Len(w.data) \in Nat /\ BUFFER_SIZE \in Nat
  BY BufferAssumption DEF IInv, Types
<1>2. w.pc = "first" \/ w.pc = "second"
  BY DEF Writing
<1>3. /\ w.in = iInPos /\ w.first <= Len(w.data)
      /\ Len(w.data) <= GetFreeSize(iInPos, iOutPos)
      /\ w.in + w.first <= ACTUAL_SIZE
      /\ w.pc = "second" => w.in + w.first = ACTUAL_SIZE
  BY <1>2 DEF IInv, WriterFits
<1>4. CASE w.pc = "first"
  <2>1. p \in iInPos .. iInPos + w.first - 1
    BY <1>3, <1>4 DEF Writing, Span
  <2>2. p \in Int
    BY <1>1, <2>1 DEF Positions
  <2> QED
    BY <1>1, <1>3, <2>1, <2>2, FreeCells
<1>5. CASE w.pc = "second"
  <2>1. Move(iInPos, w.first) = IF iInPos + w.first < ACTUAL_SIZE
                                THEN iInPos + w.first
                                ELSE iInPos + w.first - ACTUAL_SIZE
    BY <1>1, MoveWraps
  <2>2. Move(iInPos, w.first) = 0
    BY <1>1, <1>3, <1>5, <2>1 DEF Positions, ACTUAL_SIZE
  <2>3. p \in 0 .. Len(w.data) - w.first - 1
    <3>1. p \in Span(Move(w.in, w.first), Len(w.data) - w.first)
      BY <1>5 DEF Writing
    <3> QED
      BY <1>1, <1>3, <2>2, <3>1 DEF Span
  <2>4. p \in Int
    BY <1>1, <2>3
  <2>5. iInPos + w.first = ACTUAL_SIZE /\ iInPos + w.first <= ACTUAL_SIZE
    BY <1>1, <1>3, <1>5 DEF ACTUAL_SIZE
  <2> QED
    BY <1>1, <1>3, <2>3, <2>4, <2>5, FreeCells
<1> QED
  BY <1>2, <1>4, <1>5

\* The cells of the reader's next memcpy are in the array and queued.
LEMMA ReadingCells ==
    ASSUME IInv, NEW p \in Reading
    PROVE  p \in Positions /\ GetUseSize(p, iOutPos) < GetUseSize(iInPos, iOutPos)
<1>1. /\ iInPos \in Positions /\ iOutPos \in Positions /\ r.out \in Positions
      /\ r.first \in 0 .. BUFFER_SIZE /\ r.size \in 0 .. BUFFER_SIZE
      /\ BUFFER_SIZE \in Nat
  BY BufferAssumption DEF IInv, Types
<1>2. r.pc = "first" \/ r.pc = "second"
  BY DEF Reading
<1>3. /\ r.first <= r.size
      /\ GetUseSize(r.out, iOutPos) + r.size <= GetUseSize(iInPos, iOutPos)
      /\ r.out + r.first <= ACTUAL_SIZE
      /\ r.pc = "second" => r.out + r.first = ACTUAL_SIZE
  BY <1>2 DEF IInv, ReaderFits
<1>4. CASE r.pc = "first"
  <2>1. p \in r.out .. r.out + r.first - 1
    BY <1>4 DEF Reading, Span
  <2> QED
    BY <1>1, <1>3, <2>1 DEF GetUseSize, Positions, ACTUAL_SIZE
<1>5. CASE r.pc = "second"
  <2>1. p \in 0 .. r.size - r.first - 1
    <3>1. p \in Span(SecondPiece, r.size - r.first)
      BY <1>5 DEF Reading
    <3> QED
      BY <1>1, <1>5, <3>1, SecondAtStart DEF Span
  <2> QED
    BY <1>1, <1>3, <1>5, <2>1 DEF GetUseSize, Positions, ACTUAL_SIZE
<1> QED
  BY <1>2, <1>4, <1>5

LEMMA IInvImplies == IInv => InBounds /\ NoOverwrite
<1> SUFFICES ASSUME IInv PROVE InBounds /\ NoOverwrite
  OBVIOUS
<1>1. TypeOK
  BY BufferAssumption DEF IInv, Types, ReaderFits, TypeOK, PCs
<1>2. Writing \cup Reading \subseteq Positions
  BY WritingCells, ReadingCells
<1>3. /\ GetUseSize(iInPos, iOutPos) \in Int
      /\ \A p \in Positions : GetUseSize(p, iOutPos) \in Int
  BY <1>1, Distances DEF TypeOK
<1>4. Reading \subseteq Queued
  BY <1>1, ReadingCells, QueuedCells DEF TypeOK
<1>5. \A p \in Writing : p \notin Queued
  BY <1>1, <1>3, WritingCells, QueuedCells DEF TypeOK
<1>6. Writing \cap (Reading \cup Queued) = {}
  BY <1>4, <1>5
<1> QED
  BY <1>1, <1>2, <1>4, <1>6 DEF InBounds, NoOverwrite

LEMMA IInvAlways == Spec => []IInv
<1> QED
  BY InitIInv, NextIInv, PTL DEF Spec

\* Whatever the size of the array, no memcpy of Enqueue, Dequeue, Peek, PeekAt or a
\* direct send or receive runs past its end, and the positions stay inside it.
THEOREM InBoundsAlways == Spec => []InBounds
<1> QED
  BY IInvAlways, IInvImplies, PTL

\* Whatever the size, the writer copies only into cells that are neither queued nor
\* being read, though each side loads the other's position once and uses it late.
THEOREM NoOverwriteAlways == Spec => []NoOverwrite
<1> QED
  BY IInvAlways, IInvImplies, PTL

-------------------------------------------------------------------------------
\* What is in the queue, oldest first.
Content == [k \in 1 .. GetUseSize(iInPos, iOutPos) |-> buffer[Move(iOutPos, k - 1)]]

\* The writer has a block of the right size; what it has copied so far is in the array.
WriterCopied ==
    w.pc # "idle" =>
        /\ w.data \in Blocks
        /\ w.pc = "second" => \A j \in 1 .. w.first : buffer[Move(iInPos, j - 1)] = w.data[j]
        /\ w.pc = "store" => \A j \in 1 .. Len(w.data) : buffer[Move(iInPos, j - 1)] = w.data[j]

\* What the reader has copied so far is in the array still.
ReaderCopied ==
    r.pc # "idle" =>
        /\ r.size \in Sizes
        /\ r.pc = "second" => Len(r.data) = r.first
        /\ r.pc = "store" => Len(r.data) = r.size
        /\ r.pc \in {"second", "store"} =>
             \A j \in 1 .. Len(r.data) : r.data[j] = buffer[Move(r.out, j - 1)]

DataInv == IInv /\ WriterCopied /\ ReaderCopied

-------------------------------------------------------------------------------
LEMMA Numbers == BUFFER_SIZE \in Nat /\ BUFFER_SIZE > 0 /\ ACTUAL_SIZE = BUFFER_SIZE + 1
BY BufferAssumption DEF ACTUAL_SIZE

LEMMA MoveMove ==
    ASSUME NEW p \in Positions, NEW a \in 0 .. BUFFER_SIZE, NEW b \in 0 .. BUFFER_SIZE,
           a + b <= BUFFER_SIZE
    PROVE  Move(Move(p, a), b) = Move(p, a + b)
<1>1. a + b \in 0 .. BUFFER_SIZE
  BY Numbers
<1>2. PICK m \in Positions : m = Move(p, a) /\ m = IF p + a < ACTUAL_SIZE THEN p + a ELSE p + a - ACTUAL_SIZE
  BY MoveWraps
<1>3. Move(m, b) = IF m + b < ACTUAL_SIZE THEN m + b ELSE m + b - ACTUAL_SIZE
  BY MoveWraps
<1>4. Move(p, a + b) = IF p + (a + b) < ACTUAL_SIZE THEN p + (a + b) ELSE p + (a + b) - ACTUAL_SIZE
  BY <1>1, MoveWraps
<1> QED
  BY <1>2, <1>3, <1>4, Numbers DEF Positions

\* The position at a distance, and the distance of a position.
LEMMA MoveThere ==
    ASSUME NEW p \in Positions, NEW q \in Positions
    PROVE  Move(q, GetUseSize(p, q)) = p
<1>1. GetUseSize(p, q) \in 0 .. BUFFER_SIZE
  BY Distances
<1>2. Move(q, GetUseSize(p, q)) = IF q + GetUseSize(p, q) < ACTUAL_SIZE THEN q + GetUseSize(p, q)
                                  ELSE q + GetUseSize(p, q) - ACTUAL_SIZE
  BY <1>1, MoveWraps
<1> QED
  BY <1>2, Numbers DEF GetUseSize, Positions

LEMMA DistanceThere ==
    ASSUME NEW q \in Positions, NEW n \in 0 .. BUFFER_SIZE
    PROVE  GetUseSize(Move(q, n), q) = n
<1>1. Move(q, n) = IF q + n < ACTUAL_SIZE THEN q + n ELSE q + n - ACTUAL_SIZE
  BY MoveWraps
<1> QED
  BY <1>1, Numbers DEF GetUseSize, Positions

\* A memcpy of the writer changes none of the cells that are queued.
LEMMA CopyAside ==
    ASSUME IInv, EnqueueFirst \/ EnqueueSecond
    PROVE  \A p \in Positions :
             p \notin Writing => buffer'[p] = buffer[p]
<1>1. w.first \in 0 .. BUFFER_SIZE /\ w.data \in Seq(Bytes) /\ w.in \in Positions /\ Len(w.data) \in Nat
  BY DEF IInv, Types
<1>2. w.first <= Len(w.data) /\ w.first \in Nat
  BY <1>1, Numbers DEF IInv, WriterFits, EnqueueFirst, EnqueueSecond
<1>3. PICK a \in Positions, n \in Nat, s \in Seq(Bytes) :
        Writing = Span(a, n) /\ Len(s) = n /\ Copy(a, s)
  <2>1. CASE EnqueueFirst
    <3>1. SubSeq(w.data, 1, w.first) \in Seq(Bytes) /\ Len(SubSeq(w.data, 1, w.first)) = w.first
      BY <1>1, <1>2
    <3> QED
      BY <1>1, <1>2, <2>1, <3>1 DEF EnqueueFirst, Writing
  <2>2. CASE EnqueueSecond
    <3>1. /\ SubSeq(w.data, w.first + 1, Len(w.data)) \in Seq(Bytes)
          /\ Len(SubSeq(w.data, w.first + 1, Len(w.data))) = Len(w.data) - w.first
      BY <1>1, <1>2
    <3>2. Len(w.data) - w.first \in Nat
      BY <1>1, <1>2
    <3>3. Move(w.in, w.first) \in Positions
      BY <1>1, MoveWraps
    <3> QED
      BY <2>2, <3>1, <3>2, <3>3 DEF EnqueueSecond, Writing
  <2> QED
    BY <2>1, <2>2
<1>4. TAKE p \in Positions
<1>5. HAVE p \notin Writing
<1>6. ~(a <= p /\ p < a + Len(s))
  BY <1>3, <1>5, Numbers DEF Span, Positions
<1> QED
  BY <1>3, <1>6 DEF Copy

\* What a first memcpy leaves in the array, and a second one behind it.
LEMMA CopyThere ==
    ASSUME NEW a \in Positions, NEW s \in Seq(Bytes), a + Len(s) <= ACTUAL_SIZE, Copy(a, s)
    PROVE  \A j \in 1 .. Len(s) : a + j - 1 \in Positions /\ buffer'[a + j - 1] = s[j]
<1> TAKE j \in 1 .. Len(s)
<1>1. PICK p \in Positions : p = a + j - 1 /\ a <= p /\ p < a + Len(s) /\ p - a + 1 = j
  BY Numbers DEF Positions
<1>2. buffer'[p] = s[p - a + 1]
  BY <1>1 DEF Copy
<1> QED
  BY <1>1, <1>2

\* The bytes up to n of those the reader wants are queued, hence not being written.
LEMMA ReaderCells ==
    ASSUME IInv, r.pc # "idle", NEW j \in 1 .. r.size
    PROVE  Move(r.out, j - 1) \in Positions /\ Move(r.out, j - 1) \notin Writing
<1>1. PICK d \in 0 .. BUFFER_SIZE, u \in 0 .. BUFFER_SIZE :
        /\ d = GetUseSize(r.out, iOutPos) /\ u = GetUseSize(iInPos, iOutPos)
        /\ d + r.size <= u /\ r.size \in Nat
        /\ iOutPos \in Positions /\ iInPos \in Positions /\ r.out \in Positions
  <2>1. /\ iOutPos \in Positions /\ iInPos \in Positions /\ r.out \in Positions
        /\ r.size \in 0 .. BUFFER_SIZE
        /\ GetUseSize(r.out, iOutPos) + r.size <= GetUseSize(iInPos, iOutPos)
    BY DEF IInv, Types, ReaderFits
  <2>2. GetUseSize(r.out, iOutPos) \in 0 .. BUFFER_SIZE /\ GetUseSize(iInPos, iOutPos) \in 0 .. BUFFER_SIZE
    BY <2>1, Distances
  <2> QED
    BY <2>1, <2>2, Numbers
<1>2. /\ j - 1 \in 0 .. BUFFER_SIZE /\ d + (j - 1) \in 0 .. BUFFER_SIZE
      /\ d + (j - 1) <= BUFFER_SIZE /\ d + (j - 1) < u
  BY <1>1, Numbers
<1>3. Move(r.out, j - 1) = Move(iOutPos, d + (j - 1))
  BY <1>1, <1>2, MoveMove, MoveThere
<1>4. PICK p \in Positions : p = Move(r.out, j - 1) /\ GetUseSize(p, iOutPos) < u
  BY <1>1, <1>2, <1>3, MoveWraps, DistanceThere
<1>5. p \notin Writing
  <2> SUFFICES ASSUME p \in Writing PROVE FALSE
    OBVIOUS
  <2>1. GetUseSize(p, iOutPos) >= u
    BY <1>1, WritingCells
  <2> QED
    BY <1>1, <1>4, <2>1, Distances
<1> QED
  BY <1>4, <1>5

LEMMA ContentCells ==
    ASSUME IInv, NEW k \in 1 .. GetUseSize(iInPos, iOutPos)
    PROVE  Move(iOutPos, k - 1) \in Positions /\ Move(iOutPos, k - 1) \notin Writing
<1>1. PICK u \in 0 .. BUFFER_SIZE :
        u = GetUseSize(iInPos, iOutPos) /\ iOutPos \in Positions /\ iInPos \in Positions
  BY Distances DEF IInv, Types
<1>2. k - 1 \in 0 .. BUFFER_SIZE /\ k - 1 < u
  BY <1>1, Numbers
<1>3. PICK p \in Positions : p = Move(iOutPos, k - 1) /\ GetUseSize(p, iOutPos) < u
  BY <1>1, <1>2, MoveWraps, DistanceThere
<1>4. p \notin Writing
  <2> SUFFICES ASSUME p \in Writing PROVE FALSE
    OBVIOUS
  <2>1. GetUseSize(p, iOutPos) >= u
    BY <1>1, WritingCells
  <2> QED
    BY <1>1, <1>3, <2>1, Distances
<1> QED
  BY <1>3, <1>4

-------------------------------------------------------------------------------
LEMMA InitData ==
    ASSUME Init
    PROVE  DataInv
BY InitIInv DEF Init, DataInv, WriterCopied, ReaderCopied, NoWrite, NoRead

\* A call that begins has copied nothing.
LEMMA BeginData ==
    ASSUME DataInv, NEW s \in Blocks, BeginEnqueue(s) \/ BeginReceive(s)
    PROVE  WriterCopied' /\ ReaderCopied'
<1>1. /\ w'.pc = "first" /\ w'.data = s
      /\ UNCHANGED <<iInPos, iOutPos, buffer, r>>
  BY DEF BeginEnqueue, BeginReceive
<1> QED
  BY <1>1 DEF DataInv, WriterCopied, ReaderCopied

LEMMA BeginReadData ==
    ASSUME DataInv, NEW n \in Sizes,
           Dequeue(n) \/ BeginSend(n) \/ \E k \in 0 .. BUFFER_SIZE : PeekAt(k, n)
    PROVE  WriterCopied' /\ ReaderCopied'
<1>1. /\ r'.pc = "first" /\ r'.size = n
      /\ UNCHANGED <<iInPos, iOutPos, buffer, w>>
  BY DEF Dequeue, BeginSend, PeekAt, BeginRead
<1> QED
  BY <1>1 DEF DataInv, WriterCopied, ReaderCopied

LEMMA CopyReaderData ==
    ASSUME DataInv, EnqueueFirst \/ EnqueueSecond
    PROVE  ReaderCopied'
<1>1. UNCHANGED <<iInPos, iOutPos, r>>
  BY DEF EnqueueFirst, EnqueueSecond
<1>2. IInv /\ ReaderCopied /\ r.size \in 0 .. BUFFER_SIZE /\ r.first \in 0 .. BUFFER_SIZE
        /\ r.first <= r.size
  BY DEF DataInv, IInv, Types, ReaderFits
<1>3. ASSUME r.pc \in {"second", "store"}, NEW j \in 1 .. Len(r.data)
      PROVE  r.data[j] = buffer'[Move(r.out, j - 1)]
  <2>1. j \in 1 .. r.size
    <3>1. Len(r.data) = r.first \/ Len(r.data) = r.size
      BY <1>2, <1>3 DEF ReaderCopied
    <3> QED
      BY <1>2, <3>1, Numbers
  <2>2. Move(r.out, j - 1) \in Positions /\ Move(r.out, j - 1) \notin Writing
    BY <1>2, <1>3, <2>1, ReaderCells
  <2> QED
    BY <1>2, <1>3, <2>2, CopyAside DEF ReaderCopied
<1> QED
  BY <1>1, <1>2, <1>3 DEF ReaderCopied

LEMMA FirstData ==
    ASSUME DataInv, EnqueueFirst
    PROVE  WriterCopied'
<1>1. /\ IInv /\ w.data \in Blocks /\ w.data \in Seq(Bytes) /\ w.in \in Positions /\ w.in = iInPos
      /\ Len(w.data) \in Nat /\ w.first \in 0 .. BUFFER_SIZE /\ w.first <= Len(w.data)
      /\ w.in + w.first <= ACTUAL_SIZE
  BY DEF DataInv, IInv, Types, WriterFits, WriterCopied, EnqueueFirst
<1>2. PICK s \in Seq(Bytes) : /\ s = SubSeq(w.data, 1, w.first) /\ Len(s) = w.first
                              /\ \A j \in 1 .. w.first : s[j] = w.data[j]
  <2>1. PICK d \in Seq(Bytes), f \in Nat : d = w.data /\ f = w.first /\ f <= Len(d)
    BY <1>1, Numbers
  <2>2. SubSeq(d, 1, f) \in Seq(Bytes) /\ Len(SubSeq(d, 1, f)) = f
    BY <2>1
  <2>3. \A j \in 1 .. f : SubSeq(d, 1, f)[j] = d[j]
    BY <2>1
  <2> QED
    BY <2>1, <2>2, <2>3
<1>3. \A j \in 1 .. w.first : buffer'[iInPos + j - 1] = w.data[j]
  BY <1>1, <1>2, CopyThere DEF EnqueueFirst
<1>4. \A j \in 1 .. w.first : Move(iInPos, j - 1) = iInPos + j - 1
  <2> TAKE j \in 1 .. w.first
  <2>1. j - 1 \in 0 .. BUFFER_SIZE /\ iInPos + (j - 1) < ACTUAL_SIZE /\ iInPos + (j - 1) = iInPos + j - 1
    BY <1>1, Numbers DEF Positions
  <2> QED
    BY <1>1, <2>1, MoveWraps
<1>5. /\ w'.pc = IF w.first < Len(w.data) THEN "second" ELSE "store"
      /\ w'.data = w.data /\ w'.first = w.first /\ iInPos' = iInPos
  BY DEF EnqueueFirst, DataInv, IInv, Types
<1>6. w'.pc = "store" => Len(w.data) = w.first
  BY <1>1, <1>5, Numbers
<1> QED
  BY <1>1, <1>3, <1>4, <1>5, <1>6 DEF WriterCopied

\* A piece of f bytes that ends where the array ends, and what follows it.
LEMMA BeforeEnd ==
    ASSUME NEW p \in Positions, NEW f \in Nat, NEW j \in Nat,
           p + f = ACTUAL_SIZE, 0 < j, j <= BUFFER_SIZE
    PROVE  /\ j <= f => /\ Move(p, j - 1) = p + j - 1
                        /\ p + j - 1 \in Positions /\ p + j - 1 >= p
           /\ j > f => Move(p, j - 1) = j - f - 1
<1>1. j - 1 \in 0 .. BUFFER_SIZE
  BY Numbers
<1>2. Move(p, j - 1) = IF p + (j - 1) < ACTUAL_SIZE THEN p + (j - 1) ELSE p + (j - 1) - ACTUAL_SIZE
  BY <1>1, MoveWraps
<1> QED
  BY <1>2, Numbers DEF Positions

LEMMA Joined ==
    ASSUME NEW b \in Seq(Bytes), NEW d \in Seq(Bytes)
    PROVE  /\ b \o d \in Seq(Bytes) /\ Len(b \o d) = Len(b) + Len(d)
           /\ \A j \in 1 .. Len(b) : (b \o d)[j] = b[j]
           /\ \A j \in Len(b) + 1 .. Len(b) + Len(d) : (b \o d)[j] = d[j - Len(b)]
<1>1. b \o d \in Seq(Bytes) /\ Len(b \o d) = Len(b) + Len(d)
  OBVIOUS
<1>2. \A j \in 1 .. Len(b) : (b \o d)[j] = b[j]
  OBVIOUS
<1>3. \A j \in Len(b) + 1 .. Len(b) + Len(d) : (b \o d)[j] = d[j - Len(b)]
  OBVIOUS
<1> QED
  BY <1>1, <1>2, <1>3

LEMMA SecondData ==
    ASSUME DataInv, EnqueueSecond
    PROVE  WriterCopied'
<1>1. /\ IInv /\ w.data \in Blocks /\ w.data \in Seq(Bytes) /\ w.in \in Positions /\ w.in = iInPos
      /\ Len(w.data) \in Nat /\ w.first \in 0 .. BUFFER_SIZE /\ w.first < Len(w.data)
      /\ w.in + w.first = ACTUAL_SIZE /\ iOutPos \in Positions
      /\ Len(w.data) <= GetFreeSize(iInPos, iOutPos)
      /\ \A j \in 1 .. w.first : buffer[Move(iInPos, j - 1)] = w.data[j]
  BY DEF DataInv, IInv, Types, WriterFits, WriterCopied, EnqueueSecond
<1>2. PICK f \in Nat, len \in Nat :
        f = w.first /\ len = Len(w.data) /\ f < len /\ len <= BUFFER_SIZE /\ f <= BUFFER_SIZE
  BY <1>1, Distances, Numbers
<1>9. iInPos \in Positions /\ iInPos + f = ACTUAL_SIZE /\ len - f - 1 < iInPos
  <2>1. iInPos \in Positions /\ iInPos + f = ACTUAL_SIZE
    BY <1>1, <1>2
  <2> QED
    BY <1>2, <2>1, Numbers DEF Positions
<1>3. PICK s \in Seq(Bytes) : /\ s = SubSeq(w.data, f + 1, len) /\ Len(s) = len - f
                              /\ \A j \in 1 .. len - f : s[j] = w.data[f + j]
  <2>1. SubSeq(w.data, f + 1, len) \in Seq(Bytes) /\ Len(SubSeq(w.data, f + 1, len)) = len - f
    BY <1>1, <1>2
  <2>2. \A j \in 1 .. len - f : SubSeq(w.data, f + 1, len)[j] = w.data[f + j]
    BY <1>1, <1>2
  <2> QED
    BY <2>1, <2>2
<1>4. Move(w.in, w.first) = 0 /\ 0 \in Positions
  <2>1. Move(w.in, f) = IF w.in + f < ACTUAL_SIZE THEN w.in + f ELSE w.in + f - ACTUAL_SIZE
    BY <1>1, <1>2, MoveWraps
  <2> QED
    BY <1>1, <1>2, <2>1, Numbers DEF Positions
<1>5. \A j \in 1 .. len - f : buffer'[j - 1] = w.data[f + j]
  <2>1. Copy(0, s)
    BY <1>1, <1>2, <1>3, <1>4 DEF EnqueueSecond
  <2>2. 0 + Len(s) <= ACTUAL_SIZE
    BY <1>2, <1>3, Numbers
  <2>3. \A j \in 1 .. Len(s) : buffer'[0 + j - 1] = s[j]
    BY <1>4, <2>1, <2>2, CopyThere
  <2>4. \A j \in 1 .. len - f : 0 + j - 1 = j - 1
    BY <1>2
  <2> QED
    BY <1>3, <2>3, <2>4
<1>6. Writing = 0 .. len - f - 1
  <2>1. Writing = Span(0, len - f)
    BY <1>2, <1>4 DEF Writing, EnqueueSecond
  <2> QED
    BY <1>2, <2>1 DEF Span
<1>7. ASSUME NEW j \in 1 .. len
      PROVE  buffer'[Move(iInPos, j - 1)] = w.data[j]
  <2>1. j \in Nat /\ 0 < j /\ j <= BUFFER_SIZE
    BY <1>2, Numbers
  <2>2. CASE j <= f
    <3>0. /\ Move(iInPos, j - 1) = iInPos + j - 1 /\ iInPos + j - 1 \in Positions
          /\ iInPos + j - 1 >= iInPos
      BY <1>2, <1>9, <2>1, <2>2, BeforeEnd
    <3>1. Move(iInPos, j - 1) \notin Writing
      <4>1. \A p \in Positions : p >= iInPos => p \notin 0 .. len - f - 1
        BY <1>2, <1>9, Numbers DEF Positions
      <4> QED
        BY <1>6, <3>0, <4>1
    <3>2. buffer'[Move(iInPos, j - 1)] = buffer[Move(iInPos, j - 1)]
      BY <1>1, <3>0, <3>1, CopyAside
    <3> QED
      BY <1>1, <1>2, <2>2, <3>2
  <2>3. CASE j > f
    <3>1. PICK i \in 1 .. len - f : j = f + i /\ Move(iInPos, j - 1) = i - 1
      <4>1. Move(iInPos, j - 1) = j - f - 1
        BY <1>2, <1>9, <2>1, <2>3, BeforeEnd
      <4>2. j - f \in 1 .. len - f /\ j = f + (j - f)
        BY <1>2, <2>3
      <4> QED
        BY <4>1, <4>2
    <3> QED
      BY <1>5, <3>1
  <2> QED
    BY <1>2, <2>2, <2>3
<1>8. w'.pc = "store" /\ w'.data = w.data /\ iInPos' = iInPos
  BY DEF EnqueueSecond, DataInv, IInv, Types
<1> QED
  BY <1>1, <1>2, <1>7, <1>8 DEF WriterCopied

LEMMA EnqueueStoreData ==
    ASSUME DataInv, EnqueueStore
    PROVE  WriterCopied' /\ ReaderCopied'
BY DEF DataInv, EnqueueStore, WriterCopied, ReaderCopied, NoWrite

LEMMA ReadFirstData ==
    ASSUME DataInv, ReadFirst
    PROVE  WriterCopied' /\ ReaderCopied'
<1>1. /\ r.out \in Positions /\ r.first \in 0 .. BUFFER_SIZE /\ r.first <= r.size
      /\ r.out + r.first <= ACTUAL_SIZE /\ r.size \in Sizes /\ buffer \in [Positions -> Bytes]
      /\ r.size \in 0 .. BUFFER_SIZE
  BY DEF DataInv, IInv, Types, ReaderFits, ReaderCopied, ReadFirst
<1>2. PICK f \in Nat : f = r.first /\ f <= BUFFER_SIZE
  BY <1>1, Numbers
<1>3. PICK d : d = Piece(r.out, f)
  OBVIOUS
<1>4. Len(d) = f /\ \A j \in 1 .. f : d[j] = buffer[r.out + j - 1]
  <2>1. d \in Seq(Bytes)
    BY <1>1, <1>2, <1>3, PieceTyped DEF Positions
  <2> QED
    BY <1>2, <1>3, <2>1 DEF Piece
<1>5. \A j \in 1 .. f : Move(r.out, j - 1) = r.out + j - 1
  <2> TAKE j \in 1 .. f
  <2>1. j - 1 \in 0 .. BUFFER_SIZE /\ r.out + (j - 1) < ACTUAL_SIZE /\ r.out + (j - 1) = r.out + j - 1
    BY <1>1, <1>2, Numbers DEF Positions
  <2> QED
    BY <1>1, <2>1, MoveWraps
<1>6. /\ r'.pc = IF r.first < r.size THEN "second" ELSE "store"
      /\ r'.data = d /\ r'.first = r.first /\ r'.size = r.size /\ r'.out = r.out
      /\ UNCHANGED <<iInPos, iOutPos, buffer, w>>
  BY <1>2, <1>3 DEF ReadFirst, DataInv, IInv, Types
<1>7. r'.pc = "store" => r.size = f
  BY <1>1, <1>2, <1>6, Numbers
<1>8. WriterCopied'
  BY <1>6 DEF DataInv, WriterCopied
<1>9. ReaderCopied'
  BY <1>1, <1>2, <1>4, <1>5, <1>6, <1>7 DEF ReaderCopied
<1> QED
  BY <1>8, <1>9

LEMMA ReadSecondData ==
    ASSUME DataInv, ReadSecond
    PROVE  WriterCopied' /\ ReaderCopied'
<1>1. /\ r.out \in Positions /\ r.first \in 0 .. BUFFER_SIZE /\ r.first < r.size
      /\ r.out + r.first = ACTUAL_SIZE /\ r.size \in Sizes /\ buffer \in [Positions -> Bytes]
      /\ r.size \in 0 .. BUFFER_SIZE /\ r.data \in Seq(Bytes) /\ Len(r.data) = r.first
      /\ \A j \in 1 .. Len(r.data) : r.data[j] = buffer[Move(r.out, j - 1)]
  BY DEF DataInv, IInv, Types, ReaderFits, ReaderCopied, ReadSecond
<1>2. PICK f \in Nat, n \in Nat : f = r.first /\ n = r.size /\ f < n /\ n <= BUFFER_SIZE
  BY <1>1, Numbers
<1>3. SecondPiece = 0
  BY SecondAtStart DEF DataInv, ReadSecond
<1>4. PICK d \in Seq(Bytes) : d = Piece(0, n - f) /\ Len(d) = n - f /\ \A j \in 1 .. n - f : d[j] = buffer[j - 1]
  <2>1. n - f \in Nat /\ 0 + (n - f) <= ACTUAL_SIZE /\ 0 \in Nat
    BY <1>2, Numbers
  <2>2. Piece(0, n - f) \in Seq(Bytes)
    BY <1>1, <2>1, PieceTyped
  <2>3. PICK d : d = Piece(0, n - f)
    OBVIOUS
  <2>4. Len(d) = n - f /\ \A j \in 1 .. n - f : d[j] = buffer[0 + j - 1]
    BY <2>1, <2>2, <2>3 DEF Piece
  <2>5. \A j \in 1 .. n - f : 0 + j - 1 = j - 1
    BY <1>2
  <2> QED
    BY <2>2, <2>3, <2>4, <2>5
<1>5. PICK a \in Seq(Bytes) : /\ a = r.data \o d /\ Len(a) = n
                              /\ \A j \in 1 .. f : a[j] = r.data[j]
                              /\ \A j \in f + 1 .. n : a[j] = d[j - f]
  <2>1. PICK b \in Seq(Bytes) : b = r.data /\ Len(b) = f
    BY <1>1, <1>2
  <2>5. f + Len(d) = n
    BY <1>2, <1>4
  <2>2. b \o d \in Seq(Bytes) /\ Len(b \o d) = n
    BY <2>1, <2>5, Joined
  <2>3. \A j \in 1 .. f : (b \o d)[j] = b[j]
    BY <2>1, Joined
  <2>4. \A j \in f + 1 .. n : (b \o d)[j] = d[j - f]
    BY <2>1, <2>5, Joined
  <2> QED
    BY <2>1, <2>2, <2>3, <2>4
<1>6. ASSUME NEW j \in 1 .. n
      PROVE  a[j] = buffer[Move(r.out, j - 1)]
  <2>1. CASE j <= f
    BY <1>1, <1>2, <1>5, <2>1
  <2>2. CASE j > f
    <3>1. j \in Nat /\ 0 < j /\ j <= BUFFER_SIZE
      BY <1>2, Numbers
    <3>4. r.out \in Positions /\ r.out + f = ACTUAL_SIZE
      BY <1>1, <1>2
    <3>2. Move(r.out, j - 1) = j - f - 1
      BY <1>2, <2>2, <3>1, <3>4, BeforeEnd
    <3>3. j - f \in 1 .. n - f /\ j \in f + 1 .. n
      BY <1>2, <2>2
    <3> QED
      BY <1>4, <1>5, <3>2, <3>3
  <2> QED
    BY <1>2, <2>1, <2>2
<1>7. /\ r'.pc = "store" /\ r'.data = a /\ r'.size = r.size /\ r'.out = r.out
      /\ UNCHANGED <<iInPos, iOutPos, buffer, w>>
  BY <1>2, <1>3, <1>4, <1>5 DEF ReadSecond, DataInv, IInv, Types
<1>8. WriterCopied'
  BY <1>7 DEF DataInv, WriterCopied
<1>9. ReaderCopied'
  BY <1>1, <1>2, <1>5, <1>6, <1>7 DEF ReaderCopied
<1> QED
  BY <1>8, <1>9

LEMMA ReadStoreData ==
    ASSUME DataInv, ReadStore
    PROVE  WriterCopied' /\ ReaderCopied'
BY DEF DataInv, ReadStore, WriterCopied, ReaderCopied, NoRead

LEMMA NextData ==
    ASSUME DataInv, [Next]_vars
    PROVE  DataInv'
<1>1. IInv'
  BY NextIInv DEF DataInv
<1>2. CASE Writer
  BY <1>1, <1>2, BeginData, CopyReaderData, FirstData, SecondData, EnqueueStoreData DEF Writer, DataInv
<1>3. CASE Reader
  BY <1>1, <1>3, BeginReadData, ReadFirstData, ReadSecondData, ReadStoreData DEF Reader, DataInv
<1>4. CASE ClearBuffer
  BY <1>1, <1>4 DEF ClearBuffer, DataInv, WriterCopied, ReaderCopied
<1>5. CASE UNCHANGED vars
  BY <1>1, <1>5 DEF vars, DataInv, WriterCopied, ReaderCopied
<1> QED
  BY <1>2, <1>3, <1>4, <1>5 DEF Next

-------------------------------------------------------------------------------
LEMMA SameBytes ==
    ASSUME NEW a \in Seq(Bytes), NEW b \in Seq(Bytes), Len(a) = Len(b),
           \A j \in 1 .. Len(a) : a[j] = b[j]
    PROVE  a = b
<1>1. /\ a = [j \in 1 .. Len(a) |-> a[j]] /\ b = [j \in 1 .. Len(b) |-> b[j]]
  OBVIOUS
<1> QED
  BY <1>1

\* A sequence whose elements are those of another one behind its first m.
LEMMA CutOut ==
    ASSUME NEW a \in Seq(Bytes), NEW b \in Seq(Bytes), NEW m \in Nat,
           m + Len(b) <= Len(a), \A j \in 1 .. Len(b) : b[j] = a[m + j]
    PROVE  b = SubSeq(a, m + 1, m + Len(b))
<1>1. PICK n \in Nat : n = Len(b)
  OBVIOUS
<1>2. SubSeq(a, m + 1, m + n) \in Seq(Bytes) /\ Len(SubSeq(a, m + 1, m + n)) = n
  <2>1. n = 0 \/ (m + 1 \in 1 .. Len(a) /\ m + n \in 1 .. Len(a))
    BY <1>1
  <2> QED
    BY <1>1, <2>1
<1>3. \A j \in 1 .. n : SubSeq(a, m + 1, m + n)[j] = a[m + j]
  BY <1>1
<1> QED
  BY <1>1, <1>2, <1>3, SameBytes

LEMMA ContentIs ==
    ASSUME IInv
    PROVE  /\ Content \in Seq(Bytes) /\ Len(Content) = GetUseSize(iInPos, iOutPos)
           /\ \A k \in 1 .. GetUseSize(iInPos, iOutPos) :
                Content[k] = buffer[Move(iOutPos, k - 1)]
<1>1. PICK u \in Nat : u = GetUseSize(iInPos, iOutPos)
  BY Distances, Numbers DEF IInv, Types
<1>2. \A k \in 1 .. u : buffer[Move(iOutPos, k - 1)] \in Bytes
  BY <1>1, ContentCells DEF IInv, Types
<1>3. PICK c : c = Content
  OBVIOUS
<1>4. c = [k \in 1 .. u |-> buffer[Move(iOutPos, k - 1)]]
  BY <1>1, <1>3 DEF Content
<1>5. c \in Seq(Bytes)
  BY <1>2, <1>4
<1>6. Len(c) = u /\ \A k \in 1 .. u : c[k] = buffer[Move(iOutPos, k - 1)]
  BY <1>4
<1> QED
  BY <1>1, <1>3, <1>5, <1>6

LEMMA ContentIsNext ==
    (IInv => /\ Content \in Seq(Bytes) /\ Len(Content) = GetUseSize(iInPos, iOutPos)
             /\ \A k \in 1 .. GetUseSize(iInPos, iOutPos) :
                  Content[k] = buffer[Move(iOutPos, k - 1)])'
<1>1. IInv => /\ Content \in Seq(Bytes) /\ Len(Content) = GetUseSize(iInPos, iOutPos)
              /\ \A k \in 1 .. GetUseSize(iInPos, iOutPos) :
                   Content[k] = buffer[Move(iOutPos, k - 1)]
  BY ContentIs
<1> QED
  BY <1>1, PTL

\* The queued bytes behind the first k.
LEMMA ContentFrom ==
    ASSUME IInv, NEW k \in Nat, NEW n \in Nat, k + n <= GetUseSize(iInPos, iOutPos)
    PROVE  \A j \in 1 .. n : buffer[Move(Move(iOutPos, k), j - 1)] = Content[k + j]
<1>1. PICK u \in 0 .. BUFFER_SIZE : u = GetUseSize(iInPos, iOutPos) /\ iOutPos \in Positions
  BY Distances DEF IInv, Types
<1> TAKE j \in 1 .. n
<1>2. /\ k \in 0 .. BUFFER_SIZE /\ j - 1 \in 0 .. BUFFER_SIZE /\ k + (j - 1) <= BUFFER_SIZE
      /\ k + (j - 1) = (k + j) - 1 /\ k + j \in 1 .. u
  BY <1>1, Numbers
<1>3. Move(Move(iOutPos, k), j - 1) = Move(iOutPos, (k + j) - 1)
  BY <1>1, <1>2, MoveMove
<1> QED
  BY <1>1, <1>2, <1>3, ContentIs

-------------------------------------------------------------------------------
LEMMA InitQueue ==
    ASSUME Init
    PROVE  Queue!Init
<1>1. GetUseSize(iInPos, iOutPos) = 0
  BY Numbers DEF Init, GetUseSize
<1>2. [k \in 1 .. GetUseSize(iInPos, iOutPos) |-> buffer[Move(iOutPos, k - 1)]] = <<>>
  BY <1>1
<1> QED
  BY <1>2 DEF Init, Queue!Init

\* A step that leaves the queue and what was handed over last.
LEMMA StutterQueue ==
    ASSUME Content' = Content, result' = result
    PROVE  UNCHANGED Queue!vars
BY DEF Content, Queue!vars

LEMMA SameContent ==
    ASSUME UNCHANGED <<iInPos, iOutPos, buffer>>
    PROVE  Content' = Content
BY DEF Content

LEMMA CopyQueue ==
    ASSUME DataInv, EnqueueFirst \/ EnqueueSecond
    PROVE  Content' = Content /\ result' = result
<1>1. UNCHANGED <<iInPos, iOutPos, result>> /\ IInv
  BY DEF EnqueueFirst, EnqueueSecond, DataInv
<1>2. \A k \in 1 .. GetUseSize(iInPos, iOutPos) :
        buffer'[Move(iOutPos, k - 1)] = buffer[Move(iOutPos, k - 1)]
  BY <1>1, ContentCells, CopyAside
<1> QED
  BY <1>1, <1>2 DEF Content

\* The store of iInPos_ puts the whole block in the queue.
LEMMA StoreQueue ==
    ASSUME DataInv, DataInv', EnqueueStore
    PROVE  Queue!Next
<1>1. /\ IInv /\ IInv' /\ w.data \in Blocks /\ w.data \in Seq(Bytes)
      /\ Len(w.data) \in 1 .. BUFFER_SIZE
      /\ Len(w.data) <= GetFreeSize(iInPos, iOutPos)
      /\ iInPos \in Positions /\ iOutPos \in Positions
      /\ \A j \in 1 .. Len(w.data) : buffer[Move(iInPos, j - 1)] = w.data[j]
      /\ iInPos' = Move(iInPos, Len(w.data)) /\ UNCHANGED <<iOutPos, buffer, result>>
  BY BlockLength DEF DataInv, IInv, Types, WriterFits, WriterCopied, EnqueueStore
<1>2. PICK n \in Nat, u \in Nat :
        /\ n = Len(w.data) /\ u = GetUseSize(iInPos, iOutPos) /\ u + n <= BUFFER_SIZE
        /\ n \in 0 .. BUFFER_SIZE /\ u \in 0 .. BUFFER_SIZE
  BY <1>1, Distances, Numbers
<1>3. GetUseSize(iInPos', iOutPos') = u + n
  BY <1>1, <1>2, MoveDistance
<1>4. PICK c \in Seq(Bytes), d \in Seq(Bytes), b \in Seq(Bytes) :
        /\ c = Content /\ d = Content' /\ b = w.data /\ Len(b) = n
        /\ Len(c) = u /\ \A k \in 1 .. u : c[k] = buffer[Move(iOutPos, k - 1)]
        /\ Len(d) = u + n /\ \A k \in 1 .. u + n : d[k] = buffer[Move(iOutPos, k - 1)]
  <2>1. /\ Content \in Seq(Bytes) /\ Len(Content) = u
        /\ \A k \in 1 .. u : Content[k] = buffer[Move(iOutPos, k - 1)]
    BY <1>1, <1>2, ContentIs
  <2>2. /\ Content' \in Seq(Bytes) /\ Len(Content') = u + n
        /\ \A k \in 1 .. u + n : Content'[k] = buffer[Move(iOutPos, k - 1)]
    BY <1>1, <1>3, ContentIsNext
  <2> QED
    BY <1>1, <1>2, <2>1, <2>2
<1>5. \A k \in 1 .. u : d[k] = c[k]
  <2>1. \A k \in 1 .. u : k \in 1 .. u + n
    BY <1>2
  <2> QED
    BY <1>4, <2>1
<1>6. ASSUME NEW k \in u + 1 .. u + n
      PROVE  d[k] = b[k - u]
  <2>1. /\ k - u \in 1 .. n /\ k \in 1 .. u + n /\ (k - u) - 1 \in 0 .. BUFFER_SIZE
        /\ u + ((k - u) - 1) <= BUFFER_SIZE /\ u + ((k - u) - 1) = k - 1
    <3>1. BUFFER_SIZE \in Nat /\ u + n <= BUFFER_SIZE
      BY <1>2, Numbers
    <3> QED
      BY <3>1
  <2>2. Move(iInPos, (k - u) - 1) = Move(iOutPos, k - 1)
    <3>1. iInPos = Move(iOutPos, u)
      BY <1>1, <1>2, MoveThere
    <3>2. Move(Move(iOutPos, u), (k - u) - 1) = Move(iOutPos, u + ((k - u) - 1))
      BY <1>1, <1>2, <2>1, MoveMove
    <3> QED
      BY <2>1, <3>1, <3>2
  <2> QED
    BY <1>1, <1>2, <1>4, <2>1, <2>2
<1>7. d = c \o b
  <2>1. /\ c \o b \in Seq(Bytes) /\ Len(c \o b) = u + n
        /\ \A j \in 1 .. u : (c \o b)[j] = c[j]
        /\ \A j \in u + 1 .. u + n : (c \o b)[j] = b[j - u]
    <3>1. \A f \in Nat, m \in Nat : f = Len(c) /\ m = Len(b) =>
            /\ c \o b \in Seq(Bytes) /\ Len(c \o b) = f + m
            /\ \A j \in 1 .. f : (c \o b)[j] = c[j]
            /\ \A j \in f + 1 .. f + m : (c \o b)[j] = b[j - f]
      BY Joined
    <3>2. u = Len(c) /\ n = Len(b)
      BY <1>4
    <3> QED
      BY <3>1, <3>2
  <2>2. \A j \in 1 .. u + n : j \in 1 .. u \/ j \in u + 1 .. u + n
    BY <1>2
  <2>3. \A j \in 1 .. u + n : d[j] = (c \o b)[j]
    BY <1>5, <1>6, <2>1, <2>2
  <2> QED
    BY <1>4, <2>1, <2>3, SameBytes
<1>8. w.data \in Queue!Blocks
  BY <1>1 DEF Blocks, Queue!Blocks
<1>9. Queue!Put(w.data)
  <2>1. Content' = Content \o w.data /\ Len(Content) + Len(w.data) <= BUFFER_SIZE /\ result' = result
    BY <1>1, <1>2, <1>4, <1>7
  <2> QED
    BY <2>1 DEF Content, Queue!Put
<1> QED
  BY <1>8, <1>9 DEF Queue!Next

\* The end of a Dequeue takes the front, the end of a Peek shows what it looked at.
LEMMA TakeQueue ==
    ASSUME DataInv, DataInv', ReadStore
    PROVE  Queue!Next
<1>1. /\ IInv /\ IInv' /\ r.size \in 1 .. BUFFER_SIZE /\ r.data \in Seq(Bytes)
      /\ Len(r.data) = r.size /\ r.out \in Positions
      /\ iInPos \in Positions /\ iOutPos \in Positions
      /\ r.moves => r.out = iOutPos
      /\ GetUseSize(r.out, iOutPos) + r.size <= GetUseSize(iInPos, iOutPos)
      /\ \A j \in 1 .. Len(r.data) : r.data[j] = buffer[Move(r.out, j - 1)]
      /\ result' = r.data /\ UNCHANGED <<iInPos, buffer>>
      /\ iOutPos' = IF r.moves THEN Move(r.out, r.size) ELSE iOutPos
  BY DEF DataInv, IInv, Types, ReaderFits, ReaderCopied, Sizes, ReadStore
<1>2. PICK n \in Nat, u \in Nat, k \in Nat :
        /\ n = r.size /\ u = GetUseSize(iInPos, iOutPos) /\ k = GetUseSize(r.out, iOutPos)
        /\ k + n <= u /\ n \in 1 .. BUFFER_SIZE /\ n \in 0 .. BUFFER_SIZE
        /\ u \in 0 .. BUFFER_SIZE /\ k \in 0 .. BUFFER_SIZE
  <2>1. GetUseSize(iInPos, iOutPos) \in 0 .. BUFFER_SIZE /\ GetUseSize(r.out, iOutPos) \in 0 .. BUFFER_SIZE
    BY <1>1, Distances
  <2>2. /\ GetUseSize(iInPos, iOutPos) \in Nat /\ GetUseSize(r.out, iOutPos) \in Nat
        /\ r.size \in Nat /\ r.size \in 0 .. BUFFER_SIZE
    BY <1>1, <2>1, Numbers
  <2> QED
    BY <1>1, <2>1, <2>2
<1>3. PICK c \in Seq(Bytes), b \in Seq(Bytes) :
        /\ c = Content /\ Len(c) = u /\ b = r.data /\ Len(b) = n
        /\ \A j \in 1 .. n : b[j] = buffer[Move(r.out, j - 1)]
  <2>1. Content \in Seq(Bytes) /\ Len(Content) = u
    BY <1>1, <1>2, ContentIs
  <2> QED
    BY <1>1, <1>2, <2>1
<1>4. \A j \in 1 .. n : b[j] = c[k + j]
  <2>1. Move(iOutPos, k) = r.out
    BY <1>1, <1>2, MoveThere
  <2>2. \A j \in 1 .. n : buffer[Move(Move(iOutPos, k), j - 1)] = Content[k + j]
    BY <1>1, <1>2, ContentFrom
  <2> QED
    BY <1>3, <2>1, <2>2
<1>5. b = SubSeq(c, k + 1, k + n)
  <2>1. k + Len(b) <= Len(c) /\ Len(b) = n /\ \A j \in 1 .. Len(b) : b[j] = c[k + j]
    BY <1>2, <1>3, <1>4
  <2>2. b = SubSeq(c, k + 1, k + Len(b))
    BY <2>1, CutOut
  <2> QED
    BY <2>1, <2>2
<1>6. CASE r.moves
  <2>1. k = 0
    BY <1>1, <1>2, <1>6, Numbers DEF GetUseSize, Positions
  <2>2. b = SubSeq(c, 1, n)
    BY <1>2, <1>5, <2>1
  <2>3. iOutPos' = Move(iOutPos, n)
    BY <1>1, <1>2, <1>6
  <2>4. GetUseSize(iInPos', iOutPos') = u - n /\ u - n \in Nat
    <3>1. n <= GetUseSize(iInPos, iOutPos)
      BY <1>2
    <3>2. GetUseSize(iInPos, Move(iOutPos, n)) = u - n
      BY <1>1, <1>2, <3>1, MoveDistance
    <3> QED
      BY <1>1, <1>2, <2>3, <3>2
  <2>5. PICK d \in Seq(Bytes) :
          /\ d = Content' /\ Len(d) = u - n
          /\ \A j \in 1 .. u - n : d[j] = buffer[Move(Move(iOutPos, n), j - 1)]
    <3>1. /\ Content' \in Seq(Bytes) /\ Len(Content') = u - n
          /\ \A j \in 1 .. u - n : Content'[j] = buffer[Move(Move(iOutPos, n), j - 1)]
      BY <1>1, <2>3, <2>4, ContentIsNext
    <3> QED
      BY <3>1
  <2>6. \A j \in 1 .. u - n : d[j] = c[n + j]
    <3>1. n + (u - n) <= GetUseSize(iInPos, iOutPos)
      BY <1>2
    <3> QED
      BY <1>1, <1>2, <1>3, <2>4, <2>5, <3>1, ContentFrom
  <2>7. d = SubSeq(c, n + 1, u)
    <3>1. n + Len(d) = u
      BY <1>2, <2>4, <2>5
    <3>2. n + Len(d) <= Len(c) /\ \A j \in 1 .. Len(d) : d[j] = c[n + j]
      BY <1>2, <1>3, <2>4, <2>5, <2>6, <3>1
    <3>3. d = SubSeq(c, n + 1, n + Len(d))
      BY <3>2, CutOut
    <3> QED
      BY <3>1, <3>3
  <2>8. Queue!Get(n)
    <3>1. /\ n <= Len(Content) /\ result' = SubSeq(Content, 1, n)
          /\ Content' = SubSeq(Content, n + 1, Len(Content))
      BY <1>1, <1>2, <1>3, <2>2, <2>5, <2>7
    <3> QED
      BY <3>1 DEF Content, Queue!Get
  <2> QED
    BY <1>2, <2>8 DEF Queue!Next
<1>7. CASE ~r.moves
  <2>1. Content' = Content
    BY <1>1, <1>7, SameContent
  <2>2. Queue!Peek(k, n)
    <3>1. /\ k + n <= Len(Content) /\ result' = SubSeq(Content, k + 1, k + n)
          /\ Content' = Content
      BY <1>1, <1>2, <1>3, <1>5, <2>1
    <3> QED
      BY <3>1 DEF Content, Queue!Peek
  <2> QED
    BY <1>2, <2>2 DEF Queue!Next
<1> QED
  BY <1>6, <1>7

LEMMA ClearQueue ==
    ASSUME ClearBuffer
    PROVE  Queue!Next
<1>1. GetUseSize(iInPos', iOutPos') = 0
  BY Numbers DEF ClearBuffer, GetUseSize
<1>2. [k \in 1 .. GetUseSize(iInPos', iOutPos') |-> buffer'[Move(iOutPos', k - 1)]] = <<>>
  BY <1>1
<1>3. Queue!Clear
  BY <1>2 DEF ClearBuffer, Queue!Clear
<1> QED
  BY <1>3 DEF Queue!Next

LEMMA NextQueue ==
    ASSUME DataInv, DataInv', [Next]_vars
    PROVE  [Queue!Next]_(Queue!vars)
<1>1. CASE \E s \in Blocks : BeginEnqueue(s) \/ BeginReceive(s)
  <2>1. UNCHANGED <<iInPos, iOutPos, buffer, result>>
    BY <1>1 DEF BeginEnqueue, BeginReceive
  <2> QED
    BY <2>1, SameContent, StutterQueue
<1>2. CASE \/ \E n \in Sizes : Dequeue(n) \/ BeginSend(n)
           \/ \E n \in Sizes, k \in 0 .. BUFFER_SIZE : PeekAt(k, n)
           \/ ReadFirst \/ ReadSecond
  <2>1. UNCHANGED <<iInPos, iOutPos, buffer, result>>
    BY <1>2 DEF Dequeue, BeginSend, PeekAt, BeginRead, ReadFirst, ReadSecond
  <2> QED
    BY <2>1, SameContent, StutterQueue
<1>3. CASE EnqueueFirst \/ EnqueueSecond
  BY <1>3, CopyQueue, StutterQueue
<1>4. CASE EnqueueStore
  BY <1>4, StoreQueue
<1>5. CASE ReadStore
  BY <1>5, TakeQueue
<1>6. CASE ClearBuffer
  BY <1>6, ClearQueue
<1>7. CASE UNCHANGED vars
  <2>1. UNCHANGED <<iInPos, iOutPos, buffer, result>>
    BY <1>7 DEF vars
  <2> QED
    BY <2>1, SameContent, StutterQueue
<1> QED
  BY <1>1, <1>2, <1>3, <1>4, <1>5, <1>6, <1>7 DEF Next, Writer, Reader

LEMMA DataInvAlways == Spec => []DataInv
<1>1. Init => DataInv
  BY InitData
<1>2. DataInv /\ [Next]_vars => DataInv'
  BY NextData
<1> QED
  BY <1>1, <1>2, PTL DEF Spec

\* The array with its two positions is a bounded queue of bytes: a block is in it
\* from the moment iInPos_ is stored, whole and in order, however the copies of
\* Enqueue, Dequeue and Peek are interleaved, and what the reader is handed is the
\* front of the queue (RingBuffer.cpp).
THEOREM ImplementsByteQueue == Spec => QueueSpec
<1>1. Init => Queue!Init
  BY InitQueue
<1>2. DataInv /\ DataInv' /\ [Next]_vars => [Queue!Next]_(Queue!vars)
  BY NextQueue
<1> QED
  BY <1>1, <1>2, DataInvAlways, PTL DEF Spec, QueueSpec, Queue!Spec

===============================================================================
