----------------------------- MODULE PacketProofs -----------------------------
(***************************************************************************)
(* Theorems about Packet, for every size of a header, a buffer and a       *)
(* scalar that PacketAssumption admits and data of any length, about the   *)
(* codec, for every width of a byte, and about the leak logs of the        *)
(* DEBUG_LEAK build, for every set of threads and every finite number of   *)
(* packets and logs.                                                       *)
(***************************************************************************)
EXTENDS MCPacket, PacketLeakLog, FiniteSetTheorems, TLAPS

\* What the positions and the header owe to the phase: a packet that was not read
\* yet starts after its header, and was not encoded before it is sent.
PhaseInv ==
    /\ phase # "free" => front >= Header(type)
    /\ phase = "writing" => front = Header(type) /\ ~bEncoded /\ encodings = 0
    /\ phase = "sending" => front = Header(type) /\ (type = "Net" => bEncoded)

\* The count is the number of references, and 0 outside the pool only for the thread
\* that is about to return the packet.
RefInv ==
    /\ refCnt = (IF held THEN 1 ELSE 0) + queued
    /\ releasing = (IF phase # "free" /\ refCnt = 0 THEN 1 ELSE 0)
    /\ phase = "free" => refCnt = 0

IInv == TypeOK /\ InBlock /\ PhaseInv /\ UnreadIntact /\ HeaderExact /\ RefInv

-------------------------------------------------------------------------------
\* Header gives the size of one of the two headers, and the larger is Net's.
LEMMA HeaderSize ==
  ASSUME NEW st \in ServerTypes
  PROVE  Header(st) \in Nat /\ Header(st) <= NET_HEADER
BY PacketAssumption DEF Header

\* Every value of bufferSize_ has room for a header and stays within the cap.
LEMMA SizeRange ==
  ASSUME NEW s \in BufferSizes
  PROVE  s \in Nat /\ NET_HEADER <= s /\ s <= RINGBUFFER_SIZE
BY PacketAssumption

\* Resize: the new size is one of the sizes, has room for one more scalar, and the
\* new block is at least as large.
LEMMA GrownMakesRoom ==
  ASSUME NEW s \in BufferSizes, s # RINGBUFFER_SIZE
  PROVE  /\ Grown(s) \in BufferSizes /\ \A w \in Widths : s + w <= Grown(s)
         /\ NewBufferSize(s) \in Nat /\ Grown(s) <= NewBufferSize(s)
<1>1. s \in Nat /\ NET_HEADER \in Nat /\ RINGBUFFER_SIZE \in Nat /\ NET_HEADER <= s
  BY SizeRange, PacketAssumption
<1>2. NewBufferSize(s) \in Nat
  BY <1>1 DEF NewBufferSize
<1>3. Grown(s) <= NewBufferSize(s)
  BY <1>1, <1>2 DEF Grown
<1>4. Grown(s) \in BufferSizes /\ \A w \in Widths : s + w <= Grown(s)
  BY PacketAssumption
<1> QED
  BY <1>2, <1>3, <1>4

\* The cells of a piece are those between its ends.
LEMMA CellsMember ==
  ASSUME NEW pos \in Nat, NEW n \in Nat, NEW c
  PROVE  c \in Cells(pos, n) <=> c \in Nat /\ pos <= c /\ c < pos + n
BY DEF Cells

-------------------------------------------------------------------------------
LEMMA InitInv == Init => IInv
<1> SUFFICES ASSUME Init PROVE IInv
  OBVIOUS
<1>1. NET_HEADER + PAYLOAD \in Nat /\ NET_HEADER + PAYLOAD \in BufferSizes
  BY PacketAssumption
<1>2. TypeOK
  <2>1. bEncoded \in BOOLEAN /\ late \in BOOLEAN /\ held \in BOOLEAN /\ breach = "none"
    BY DEF Init
  <2>2. /\ phase \in {"free", "writing", "reading", "sending"} /\ type \in ServerTypes
        /\ valid \subseteq Nat
    BY DEF Init
  <2>3. /\ bufferSize \in BufferSizes /\ block \in Nat /\ front \in Nat /\ rear \in Nat
        /\ payloadLen \in Nat /\ encodings \in Nat /\ refCnt \in Nat /\ queued \in 0 .. MaxSends /\ releasing \in Nat
    BY <1>1, PacketAssumption DEF Init
  <2> QED
    BY <2>1, <2>2, <2>3 DEF TypeOK
<1>3. InBlock
  BY <1>1 DEF Init, InBlock
<1>4. UnreadIntact
  BY DEF Init, UnreadIntact, Cells
<1>5. PhaseInv /\ HeaderExact /\ RefInv
  BY DEF Init, PhaseInv, HeaderExact, RefInv
<1> QED
  BY <1>2, <1>3, <1>4, <1>5 DEF IInv

LEMMA AllocInv ==
  ASSUME IInv, NEW st \in ServerTypes, Alloc(st)
  PROVE  IInv'
<1> DEFINE h == Header(st)
<1>1. h \in Nat /\ h <= NET_HEADER
  BY HeaderSize
<1>2. bufferSize \in Nat /\ NET_HEADER <= bufferSize /\ NET_HEADER \in Nat
  BY SizeRange, PacketAssumption DEF IInv, TypeOK
<1>3. type' = st /\ front' = h /\ rear' = h /\ Header(type)' = h
  BY DEF Alloc, Header
<1>4. TypeOK'
  <2>1. bEncoded' \in BOOLEAN /\ late' \in BOOLEAN /\ held' \in BOOLEAN
    BY DEF Alloc
  <2>2. /\ phase' \in {"free", "writing", "reading", "sending"}
        /\ valid' \subseteq Nat
    BY DEF Alloc
  <2>3. /\ bufferSize' \in BufferSizes /\ block' \in Nat
        /\ payloadLen' \in Nat /\ encodings' \in Nat /\ refCnt' \in Nat /\ queued' \in 0 .. MaxSends /\ releasing' \in Nat
        /\ breach' \in {"none", "PutData", "MoveWritePos", "MoveReadPos"}
    BY DEF Alloc, IInv, TypeOK, bufferVars
  <2> QED
    BY <1>1, <1>3, <2>1, <2>2, <2>3 DEF TypeOK
<1>5. InBlock'
  BY <1>1, <1>2, <1>3 DEF IInv, TypeOK, InBlock, Contract, Alloc, bufferVars
<1>6. UnreadIntact'
  BY <1>1, <1>3 DEF UnreadIntact, Cells
<1>7. PhaseInv' /\ HeaderExact'
  BY <1>1, <1>3 DEF PhaseInv, HeaderExact, Alloc
<1>8. RefInv'
  BY DEF IInv, TypeOK, RefInv, Alloc
<1> QED
  BY <1>4, <1>5, <1>6, <1>7, <1>8 DEF IInv

\* The references change and the packet does not.
LEMMA ReferenceInv == IInv /\ (Send \/ Drop) => IInv'
<1> SUFFICES ASSUME IInv, Send \/ Drop PROVE IInv'
  OBVIOUS
<1>1. UNCHANGED <<phase, type, bufferVars, positions, bEncoded, payloadLen, encodings, valid, late, breach>>
  BY DEF Send, Drop
<1>2. TypeOK' /\ RefInv'
  <2>1. CASE Send
    BY <1>1, <2>1, PacketAssumption DEF IInv, TypeOK, RefInv, Send, bufferVars, positions
  <2>2. CASE Drop
    <3>1. refCnt \in Nat /\ queued \in Nat /\ queued <= MaxSends /\ MaxSends \in Nat
          /\ held \in BOOLEAN /\ releasing \in Nat
      BY PacketAssumption DEF IInv, TypeOK
    <3>2. refCnt >= 1 /\ releasing = 0 /\ phase # "free"
      BY <2>2, <3>1 DEF IInv, RefInv, Drop
    <3>3. /\ refCnt' = (IF held' THEN 1 ELSE 0) + queued'
          /\ queued' \in 0 .. MaxSends /\ held' \in BOOLEAN
      <4>1. refCnt' = refCnt - 1 /\ refCnt = (IF held THEN 1 ELSE 0) + queued
        BY <2>2 DEF IInv, RefInv, Drop, DropRef
      <4>2. CASE held /\ held' = FALSE /\ UNCHANGED queued
        <5>1. (IF held THEN 1 ELSE 0) = 1 /\ (IF held' THEN 1 ELSE 0) = 0 /\ held' \in BOOLEAN
          BY <4>2
        <5>2. queued' \in 0 .. MaxSends /\ refCnt' = 0 + queued'
          BY <3>1, <4>1, <4>2, <5>1
        <5>3. refCnt' = (IF held' THEN 1 ELSE 0) + queued'
          BY <5>1, <5>2, Zenon
        <5> QED
          BY <5>1, <5>2, <5>3, Zenon
      <4>3. CASE queued > 0 /\ queued' = queued - 1 /\ UNCHANGED held
        BY <3>1, <4>1, <4>3
      <4> QED
        BY <2>2, <4>2, <4>3 DEF Drop
    <3>4. refCnt' \in Nat /\ releasing' \in Nat /\ releasing' = (IF refCnt' = 0 THEN 1 ELSE 0)
      BY <2>2, <3>1, <3>2 DEF Drop, DropRef
    <3>5. RefInv'
      BY <1>1, <3>2, <3>3, <3>4 DEF RefInv
    <3> QED
      BY <1>1, <3>3, <3>4, <3>5 DEF IInv, TypeOK, bufferVars, positions
  <2> QED
    BY <2>1, <2>2
<1>3. InBlock' /\ UnreadIntact'
  BY <1>1 DEF IInv, InBlock, UnreadIntact, Contract, Cells, bufferVars, positions
<1>4. PhaseInv' /\ HeaderExact'
  BY <1>1 DEF IInv, PhaseInv, HeaderExact, Header, positions
<1> QED
  BY <1>2, <1>3, <1>4 DEF IInv

LEMMA FreeInv == IInv /\ Free => IInv'
<1> SUFFICES ASSUME IInv, Free PROVE IInv'
  OBVIOUS
<1>1. TypeOK' /\ RefInv'
  BY DEF IInv, TypeOK, RefInv, Free, bufferVars, positions
<1>2. InBlock' /\ UnreadIntact'
  BY DEF IInv, InBlock, UnreadIntact, Contract, Cells, Free, bufferVars, positions
<1>3. PhaseInv' /\ HeaderExact'
  BY DEF IInv, PhaseInv, HeaderExact, Free
<1> QED
  BY <1>1, <1>2, <1>3 DEF IInv

\* The two ways a call writes n cells behind rear_, as << and PutData do.
Wrote(n) == Put(n) \/ PutResized(n)

Breaches == {"PutData", "MoveWritePos", "MoveReadPos"}

\* What a buffer call finds: no call before it broke the contract, so that the positions
\* are in order.
LEMMA Found ==
  ASSUME IInv, MayUse
  PROVE  /\ front \in Nat /\ rear \in Nat /\ bufferSize \in Nat /\ block \in Nat
         /\ Contract /\ breach = "none" /\ Header(type) \in Nat /\ Header(type) <= NET_HEADER
         /\ NET_HEADER \in Nat /\ Header(type) <= front
         /\ front <= rear /\ rear <= bufferSize /\ bufferSize <= block
BY SizeRange, HeaderSize, PacketAssumption DEF IInv, TypeOK, PhaseInv, InBlock, MayUse, Contract

\* The calls that write leave phase, header and references as they are.
LEMMA Aside ==
  ASSUME IInv, NEW n, Wrote(n) \/ MoveWritePos(n)
  PROVE  PhaseInv' /\ HeaderExact' /\ RefInv'
<1>1. /\ UNCHANGED <<phase, type, front, bEncoded, payloadLen, encodings, refVars>>
      /\ phase # "sending"
  BY DEF Wrote, Put, PutResized, MoveWritePos, MayUse
<1> QED
  BY <1>1 DEF IInv, PhaseInv, HeaderExact, RefInv, Header, refVars

\* n cells more after rear_ are valid, and in front of them everything that was there.
LEMMA Appended ==
  ASSUME IInv, MayUse, NEW n \in Nat, rear' = rear + n, front' = front,
         valid' = valid \cup Cells(rear, n), late' = late
  PROVE  valid' \subseteq Nat /\ UnreadIntact'
<1>1. front \in Nat /\ rear \in Nat /\ front <= rear /\ Contract
  BY Found
<1>2. valid' \subseteq Nat
  BY <1>1, CellsMember DEF IInv, TypeOK
<1>3. UnreadIntact'
  <2> SUFFICES ASSUME ~late', NEW c \in Cells(front', rear' - front') PROVE c \in valid'
    BY DEF UnreadIntact
  <2>1. c \in Nat /\ front <= c /\ c < rear + n
    BY <1>1, CellsMember
  <2>2. CASE c < rear
    BY <1>1, <2>1, <2>2, CellsMember DEF IInv, UnreadIntact
  <2>3. CASE c >= rear
    BY <1>1, <2>1, <2>3, CellsMember
  <2> QED
    BY <1>1, <2>1, <2>2, <2>3
<1> QED
  BY <1>2, <1>3

\* What is in front of the new cells after a Resize is what it copied.
LEMMA Regrown ==
  ASSUME IInv, NEW n \in Nat, PutResized(n)
  PROVE  valid' \subseteq Nat /\ UnreadIntact'
<1>1. /\ front \in Nat /\ rear \in Nat /\ front <= rear /\ Contract
      /\ Header(type) \in Nat /\ Header(type) <= NET_HEADER /\ NET_HEADER \in Nat
  BY Found DEF PutResized
<1>2. rear' = rear + n /\ front' = front
  BY DEF PutResized
<1>3. valid' \subseteq Nat
  BY <1>1, CellsMember DEF IInv, TypeOK, PutResized
<1>4. UnreadIntact'
  <2> SUFFICES ASSUME ~late', NEW c \in Cells(front', rear' - front') PROVE c \in valid'
    BY DEF UnreadIntact
  <2>1. ~late /\ front = Header(type)
    BY DEF PutResized, IInv, TypeOK
  <2>2. c \in Nat /\ front <= c /\ c < rear + n
    BY <1>1, <1>2, CellsMember
  <2>3. CASE c < rear
    <3>1. c \in valid
      BY <1>1, <2>1, <2>2, <2>3, CellsMember DEF IInv, UnreadIntact
    <3>2. c \in Copied
      BY <1>1, <2>1, <2>2, <2>3, CellsMember DEF Copied
    <3> QED
      BY <3>1, <3>2 DEF PutResized
  <2>4. CASE c >= rear
    BY <1>1, <2>2, <2>4, CellsMember DEF PutResized
  <2> QED
    BY <1>1, <2>2, <2>3, <2>4
<1> QED
  BY <1>3, <1>4

\* << and PutData keep the invariant if, unless breach tells of it, the write ends inside
\* the buffer.
LEMMA WroteInv ==
  ASSUME IInv, NEW n \in Nat, Wrote(n), breach' \in {"none"} \cup Breaches,
         Contract' => rear' <= bufferSize'
  PROVE  IInv'
<1>1. MayUse
  BY DEF Wrote, Put, PutResized
<1>2. /\ front \in Nat /\ rear \in Nat /\ bufferSize \in Nat /\ front <= rear
      /\ bufferSize <= block
  BY <1>1, Found
<1>3. bufferSize' \in BufferSizes /\ block' \in Nat /\ bufferSize' <= block'
  <2>1. CASE Put(n)
    BY <1>2, <2>1 DEF Put, bufferVars, IInv, TypeOK
  <2>2. CASE PutResized(n)
    BY <2>2, GrownMakesRoom DEF IInv, TypeOK, PutResized
  <2> QED
    BY <2>1, <2>2 DEF Wrote
<1>4. valid' \subseteq Nat /\ UnreadIntact'
  <2>1. CASE Put(n)
    BY <1>1, <2>1, Appended DEF Put
  <2>2. CASE PutResized(n)
    BY <2>2, Regrown
  <2> QED
    BY <2>1, <2>2 DEF Wrote
<1>5. /\ UNCHANGED <<phase, type, front, bEncoded, payloadLen, encodings, refVars>>
      /\ rear' = rear + n
  BY DEF Wrote, Put, PutResized
<1>6. late' \in BOOLEAN
  BY DEF Wrote, Put, PutResized, IInv, TypeOK
<1>7. TypeOK'
  BY <1>2, <1>3, <1>4, <1>5, <1>6 DEF IInv, TypeOK, refVars, Breaches
<1>8. InBlock'
  BY <1>2, <1>3, <1>5 DEF InBlock
<1> QED
  BY <1>4, <1>7, <1>8, Aside DEF IInv

LEMMA InsertInv ==
  ASSUME IInv, NEW n \in Widths, Insert(n)
  PROVE  IInv'
<1>1. n \in Nat /\ Wrote(n) /\ MayUse
  BY PacketAssumption DEF Insert, Wrote, Put, PutResized
<1>2. rear \in Nat /\ bufferSize \in Nat /\ rear <= bufferSize /\ breach = "none"
  BY <1>1, Found
<1>3. breach' \in {"none"} \cup Breaches
  BY <1>2 DEF Insert
<1>4. rear' <= bufferSize'
  <2>1. CASE Put(n)
    BY <2>1 DEF Put, Fits, bufferVars
  <2>2. CASE PutResized(n)
    <3>1. bufferSize' \in Nat /\ bufferSize + n <= bufferSize'
      BY <2>2, GrownMakesRoom, SizeRange DEF IInv, TypeOK, PutResized
    <3> QED
      BY <1>1, <1>2, <2>2, <3>1 DEF PutResized
  <2> QED
    BY <2>1, <2>2 DEF Insert
<1> QED
  BY <1>1, <1>3, <1>4, WroteInv

LEMMA PutDataInv ==
  ASSUME IInv, NEW n \in Lengths, PutData(n)
  PROVE  IInv'
<1>1. n \in Nat /\ Wrote(n) /\ MayUse
  BY PacketAssumption DEF Lengths, PutData, Wrote, Put, PutResized
<1>2. breach = "none"
  BY <1>1, Found
<1>3. /\ breach' \in {"none"} \cup Breaches
      /\ Contract' => Fits(n) \/ rear + n <= Grown(bufferSize)
  BY <1>2 DEF PutData, Keeps, Contract, Breaches
<1>4. ASSUME Contract' PROVE rear' <= bufferSize'
  <2>1. CASE Put(n)
    BY <2>1 DEF Put, Fits, bufferVars
  <2>2. CASE PutResized(n)
    BY <1>3, <1>4, <2>2 DEF PutResized
  <2> QED
    BY <2>1, <2>2 DEF PutData
<1> QED
  BY <1>1, <1>3, <1>4, WroteInv

LEMMA MoveWritePosInv ==
  ASSUME IInv, NEW n \in Lengths, MoveWritePos(n)
  PROVE  IInv'
<1>1. n \in Nat /\ MayUse
  BY PacketAssumption DEF Lengths, MoveWritePos
<1>2. /\ front \in Nat /\ rear \in Nat /\ bufferSize \in Nat /\ front <= rear
      /\ bufferSize <= block /\ breach = "none"
  BY <1>1, Found
<1>3. valid' \subseteq Nat /\ UnreadIntact'
  BY <1>1, Appended DEF MoveWritePos
<1>4. breach' \in {"none"} \cup Breaches /\ (Contract' => rear + n <= bufferSize)
  BY <1>2 DEF MoveWritePos, Keeps, Fits, Contract, Breaches
<1>5. TypeOK'
  BY <1>1, <1>2, <1>3, <1>4 DEF IInv, TypeOK, MoveWritePos, bufferVars, refVars, Breaches
<1>6. InBlock'
  BY <1>1, <1>2, <1>4 DEF InBlock, MoveWritePos, bufferVars
<1> QED
  BY <1>3, <1>5, <1>6, Aside DEF IInv

\* The calls that read, when the bytes are there and when breach tells that they were not.
LEMMA AdvanceInv ==
  ASSUME IInv, NEW n \in Nat, Advance(n), breach' \in {"none"} \cup Breaches,
         Contract' => Holds(n)
  PROVE  IInv'
<1>1. /\ front \in Nat /\ rear \in Nat /\ bufferSize \in Nat /\ front <= rear
      /\ rear <= bufferSize /\ bufferSize <= block
      /\ Contract /\ Header(type) \in Nat /\ Header(type) <= front
  BY Found DEF Advance
<1>2. front' = front + n /\ UNCHANGED <<type, bufferVars, rear, valid, late, refVars>>
  BY DEF Advance
<1>3. TypeOK'
  BY <1>1, <1>2 DEF IInv, TypeOK, Advance, bufferVars, refVars, Breaches
<1>4. Contract' => front' <= rear'
  BY <1>1, <1>2 DEF Holds
<1>5. InBlock'
  BY <1>1, <1>2, <1>4 DEF InBlock, bufferVars
<1>6. UnreadIntact'
  <2> SUFFICES ASSUME Contract', ~late', NEW c \in Cells(front', rear' - front')
               PROVE  c \in valid'
    BY DEF UnreadIntact
  <2>1. c \in Cells(front, rear - front)
    BY <1>1, <1>2, <1>4, CellsMember
  <2> QED
    BY <1>1, <1>2, <2>1 DEF IInv, UnreadIntact
<1>7. PhaseInv' /\ HeaderExact' /\ RefInv'
  BY <1>1, <1>2 DEF IInv, PhaseInv, HeaderExact, RefInv, Advance, MayUse, Header, refVars
<1> QED
  BY <1>3, <1>5, <1>6, <1>7 DEF IInv

LEMMA GetDataInv ==
  ASSUME IInv, NEW n \in Nat, GetData(n)
  PROVE  IInv'
<1>1. Advance(n) /\ Holds(n) /\ breach' = breach
  BY DEF GetData
<1>2. breach = "none"
  BY <1>1, Found DEF Advance
<1> QED
  BY <1>1, <1>2, AdvanceInv

LEMMA MoveReadPosInv ==
  ASSUME IInv, NEW n \in Nat, MoveReadPos(n)
  PROVE  IInv'
<1>1. Advance(n) /\ breach = "none"
  BY Found DEF MoveReadPos, Advance
<1>2. breach' \in {"none"} \cup Breaches /\ (Contract' => Holds(n))
  BY <1>1 DEF MoveReadPos, Keeps, Contract, Breaches
<1> QED
  BY <1>1, <1>2, AdvanceInv

\* The header is built once, from the whole payload: a later SetHeader finds
\* either bEncoded_ set or the same positions.
LEMMA SetHeaderInv == IInv /\ SetHeader => IInv'
<1> SUFFICES ASSUME IInv, SetHeader PROVE IInv'
  OBVIOUS
<1>1. front \in Nat /\ rear \in Nat /\ front <= rear /\ front = Header(type)
      /\ type' = type /\ front' = front /\ rear' = rear
  BY DEF IInv, TypeOK, InBlock, PhaseInv, SetHeader, Contract, positions
<1>2. TypeOK' /\ InBlock' /\ UnreadIntact'
  BY <1>1 DEF IInv, TypeOK, InBlock, UnreadIntact, Contract, Cells, SetHeader, bufferVars,
                positions, refVars
<1>3. PhaseInv' /\ RefInv'
  BY <1>1 DEF IInv, PhaseInv, RefInv, SetHeader, Header, refVars
<1>4. HeaderExact'
  BY <1>1 DEF IInv, PhaseInv, HeaderExact, SetHeader, Header
<1> QED
  BY <1>2, <1>3, <1>4 DEF IInv

LEMMA StutterInv == IInv /\ UNCHANGED vars => IInv'
BY DEF IInv, TypeOK, InBlock, PhaseInv, UnreadIntact, HeaderExact, RefInv, Contract, Cells,
       Header, vars, bufferVars, positions, refVars

LEMMA NextInv == IInv /\ [Next]_vars => IInv'
<1> SUFFICES ASSUME IInv, [Next]_vars PROVE IInv'
  OBVIOUS
<1>1. ASSUME NEW st \in ServerTypes, Alloc(st) PROVE IInv'
  BY <1>1, AllocInv
<1>2. ASSUME NEW n \in Widths, ScalarStep(n) PROVE IInv'
  BY <1>2, InsertInv, GetDataInv, PacketAssumption DEF ScalarStep
<1>3. ASSUME NEW n \in Lengths, PutData(n) \/ MoveWritePos(n) \/ GetData(n) \/ MoveReadPos(n)
      PROVE  IInv'
  BY <1>3, PutDataInv, MoveWritePosInv, GetDataInv, MoveReadPosInv, PacketAssumption DEF Lengths
<1>4. CASE SetHeader \/ Send \/ Drop \/ Free \/ UNCHANGED vars
  BY <1>4, SetHeaderInv, ReferenceInv, FreeInv, StutterInv
<1> QED
  BY <1>1, <1>2, <1>3, <1>4 DEF Next

\* The inductive invariant: types, positions, contents, phases and references of a packet
\* (all of Packet and SmartPacket); every theorem below follows from it.
THEOREM Inductive == Spec => []IInv
BY InitInv, NextInv, PTL DEF Spec

-------------------------------------------------------------------------------
\* Every variable keeps its type.
THEOREM TypeCorrect == Spec => []TypeOK
BY Inductive, PTL DEF IInv

\* Calls that take no care of the buffer (<<, >>, GetData, GetPointer) cannot take a packet
\* out of its array; with the others it stays there as long as PutData is given no more
\* than one Resize makes room for, MoveWritePos no more than is free and MoveReadPos no more
\* than is unread.
THEOREM InBlockAlways == Spec => []InBlock
BY Inductive, PTL DEF IInv

\* Under the same contract Resize keeps every unread byte of a packet it does not find
\* partly read.
THEOREM UnreadIntactAlways == Spec => []UnreadIntact
BY Inductive, PTL DEF IInv

\* SetHeader describes the whole payload of this use of the packet.
THEOREM HeaderExactAlways == Spec => []HeaderExact
BY Inductive, PTL DEF IInv

\* The packet goes back to the pool once, with its last reference (SmartPacket,
\* IncreaseRefCnt, DecrementRefCnt).
THEOREM FreedOnceAlways == Spec => []FreedOnce
<1>1. IInv => FreedOnce
  BY DEF IInv, TypeOK, RefInv, FreedOnce
<1> QED
  BY <1>1, Inductive, PTL

\* Resize of a Net packet reads no byte beyond the end of the old block.
THEOREM CopyInBoundsAlways == Spec => CopyInBounds
<1>1. IInv /\ [Next]_vars => [block' # block /\ type = "Net" => Copied \subseteq Cells(0, block)]_vars
  <2> SUFFICES ASSUME IInv, Next, block' # block, type = "Net"
               PROVE  Copied \subseteq Cells(0, block)
    OBVIOUS
  <2>1. PICK n : PutResized(n)
    BY DEF Next, Alloc, ScalarStep, Insert, PutData, MoveWritePos, GetData, MoveReadPos, Advance,
           Put, SetHeader, Send, Drop, Free, bufferVars
  <2>2. /\ front \in Nat /\ rear \in Nat /\ block \in Nat /\ bufferSize \in Nat
        /\ front <= rear /\ rear <= bufferSize /\ bufferSize <= block
        /\ NET_HEADER \in Nat /\ Header(type) <= front
    BY <2>1, Found DEF PutResized
  <2>3. front >= NET_HEADER
    BY <2>2 DEF Header
  <2>4. rear - front + NET_HEADER \in Nat /\ rear - front + NET_HEADER <= block
    BY <2>2, <2>3
  <2> QED
    BY <2>2, <2>4, CellsMember DEF Copied
<1> QED
  BY <1>1, Inductive, PTL DEF Spec, CopyInBounds

-------------------------------------------------------------------------------
\* Induction, as far as it is needed: the provers cannot instantiate a theorem about
\* a predicate, but a set of numbers has a least element.
LEMMA LeastElement ==
    ASSUME NEW N \in Nat, NEW T \in SUBSET (0 .. N), T # {}
    PROVE  \E n \in T : \A m \in T : n <= m
<1> DEFINE Intervals == {0 .. n : n \in T}
           Less      == StrictSubsetOrdering(0 .. N)
<1>1. /\ IsFiniteSet(0 .. N)
      /\ \A n \in T : n \in Nat /\ 0 .. n \in SUBSET (0 .. N)
  BY FS_Interval
<1>2. IsWellFoundedOn(Less, FiniteSubsetsOf(0 .. N))
  BY FS_StrictSubsetOrderingWellFounded
<1>3. Intervals \subseteq FiniteSubsetsOf(0 .. N) /\ Intervals # {}
  <2>1. FiniteSubsetsOf(0 .. N) = SUBSET (0 .. N)
    BY <1>1, FS_FiniteSubsetsOfFinite
  <2>2. ASSUME NEW I \in Intervals PROVE I \in SUBSET (0 .. N)
    <3>1. PICK n \in T : I = 0 .. n
      BY <2>2
    <3> QED
      BY <1>1, <3>1, Zenon
  <2>3. Intervals # {}
    <3>1. PICK n \in T : TRUE
      OBVIOUS
    <3>2. 0 .. n \in Intervals
      BY <3>1
    <3> QED
      BY <3>2
  <2> QED
    BY <2>1, <2>2, <2>3, Zenon
<1>4. \E I \in Intervals : \A J \in Intervals : <<J, I>> \notin Less
  <2> HIDE DEF Less, Intervals
  <2> QED
    BY <1>2, <1>3, WFMin
<1>5. PICK n \in T : \A J \in Intervals : <<J, 0 .. n>> \notin Less
  BY <1>4
<1>6. ASSUME NEW m \in T, m < n PROVE FALSE
  <2>1. /\ 0 .. m \subseteq 0 .. n /\ n \notin 0 .. m /\ n \in 0 .. n
        /\ 0 .. m \in SUBSET (0 .. N) /\ 0 .. n \in SUBSET (0 .. N)
    BY <1>1, <1>6
  <2>2. <<0 .. m, 0 .. n>> \in Less
    BY <2>1 DEF StrictSubsetOrdering
  <2> QED
    BY <1>5, <2>2
<1> QED
  BY <1>1, <1>6

\* A recursive function of 1, 2, ... exists, where H[<<k, v>>] is what follows value v at
\* place k.
Follows(N, v, H, f) == f[0] = v /\ \A k \in 1 .. N : f[k] = H[<<k, f[k - 1]>>]

LEMMA Recursion ==
  ASSUME NEW N \in Nat, NEW V, NEW v \in V, NEW H \in [(1 .. N) \X V -> V]
  PROVE  \E f \in [0 .. N -> V] : Follows(N, v, H, f)
<1> DEFINE Upto(n, f) == f[0] = v /\ \A k \in 1 .. n : f[k] = H[<<k, f[k - 1]>>]
           T == {n \in 0 .. N : ~ \E f \in [0 .. N -> V] : Upto(n, f)}
<1> SUFFICES ASSUME T # {} PROVE FALSE
  <2>1. N \in 0 .. N
    OBVIOUS
  <2>2. PICK f \in [0 .. N -> V] : Upto(N, f)
    BY <2>1
  <2>3. Follows(N, v, H, f)
    BY <2>2 DEF Follows
  <2> QED
    BY <2>3
<1>1. PICK n \in T : \A m \in T : n <= m
  <2>1. T \in SUBSET (0 .. N)
    OBVIOUS
  <2> HIDE DEF T
  <2> QED
    BY <2>1, LeastElement
<1>2. n # 0
  <2>1. PICK f : f = [k \in 0 .. N |-> v]
    OBVIOUS
  <2>2. f \in [0 .. N -> V] /\ f[0] = v
    BY <2>1
  <2>3. Upto(0, f)
    BY <2>2
  <2> QED
    BY <1>1, <2>2, <2>3
<1>3. n \in 1 .. N /\ n - 1 \in 0 .. N /\ n - 1 \notin T
  <2>1. n \in 0 .. N
    BY <1>1
  <2>2. n \in 1 .. N /\ n - 1 \in 0 .. N
    BY <1>2, <2>1
  <2> HIDE DEF T
  <2>3. n - 1 \notin T
    BY <1>1, <2>1
  <2> QED
    BY <2>2, <2>3
<1>4. PICK f \in [0 .. N -> V] : Upto(n - 1, f)
  BY <1>3
<1>5. PICK w \in V : w = H[<<n, f[n - 1]>>]
  <2>1. <<n, f[n - 1]>> \in (1 .. N) \X V
    BY <1>3
  <2> QED
    BY <2>1
<1>6. PICK g : g = [k \in 0 .. N |-> IF k = n THEN w ELSE f[k]]
  OBVIOUS
<1>7. g \in [0 .. N -> V]
  BY <1>6
<1>8. g[0] = v
  BY <1>2, <1>4, <1>6
<1>9. ASSUME NEW k \in 1 .. n PROVE g[k] = H[<<k, g[k - 1]>>]
  <2>1. k \in 0 .. N /\ k - 1 \in 0 .. N /\ k - 1 # n
    BY <1>3
  <2>2. g[k - 1] = f[k - 1]
    BY <1>6, <2>1
  <2>3. CASE k = n
    BY <1>5, <1>6, <2>1, <2>2, <2>3
  <2>4. CASE k # n
    <3>1. k \in 1 .. n - 1
      BY <1>3, <2>4
    <3> QED
      BY <1>4, <1>6, <2>1, <2>2, <2>4, <3>1
  <2> QED
    BY <2>3, <2>4
<1>10. Upto(n, g)
  BY <1>8, <1>9
<1> QED
  BY <1>1, <1>7, <1>10

-------------------------------------------------------------------------------
LEMMA XorBack ==
  /\ \A a, b : Xor(Xor(a, b), b) = a
  /\ \A a, b \in Byte : Xor(a, b) \in Byte
BY DEF Xor, SymDiff, Byte

LEMMA WrapsToByte == \A n : Wrap(n) \in Byte
BY DEF Wrap, Byte

\* The turns of Encode: d[i] is byte i as it was written, the checksum in front, and
\* t[i] what one turn makes of it.
Turns(n, d, rk, fk, t) ==
    \A i \in 0 .. n :
      t[i] = EncodeByte(d[i], IF i = 0 THEN [p |-> Zero, e |-> Zero] ELSE t[i - 1], i, rk, fk)

Written(n, payload) == [i \in 0 .. n |-> IF i = 0 THEN GetCheckSum(payload) ELSE payload[i]]

LEMMA EncodeTurns ==
  ASSUME NEW n \in Nat, NEW payload \in [1 .. n -> Byte], NEW rk \in Byte, NEW fk \in Byte
  PROVE  \E t : /\ Turns(n, Written(n, payload), rk, fk, t)
                /\ Encode(payload, rk, fk) = [i \in 0 .. n |-> t[i].e]
<1> DEFINE Start == EncodeByte(GetCheckSum(payload), [p |-> Zero, e |-> Zero], 0, rk, fk)
           Turn(i, v) == EncodeByte(payload[i], v, i, rk, fk)
           F(f) == [i \in 0 .. n |-> IF i = 0 THEN Start ELSE Turn(i, f[i - 1])]
           V == [p : Byte, e : Byte]
<1>1. PICK m : m = CHOOSE f : f = F(f)
  OBVIOUS
<1>2. Len(payload) = n
  OBVIOUS
<1>3. Encode(payload, rk, fk) = [i \in 0 .. n |-> m[i].e]
  BY <1>1, <1>2 DEF Encode
<1>4. \A d \in Byte : \A v, i : EncodeByte(d, v, i, rk, fk) \in V
  BY XorBack, WrapsToByte DEF EncodeByte, Mask
<1>5. GetCheckSum(payload) \in Byte
  BY WrapsToByte DEF GetCheckSum
<1>6. Start \in V /\ \A i \in 1 .. n, v \in V : Turn(i, v) \in V
  BY <1>4, <1>5
<1> HIDE DEF Start, Turn, V
<1>7. PICK H : H = [x \in (1 .. n) \X V |-> Turn(x[1], x[2])]
  OBVIOUS
<1>8. H \in [(1 .. n) \X V -> V]
  BY <1>6, <1>7
<1>9. PICK f \in [0 .. n -> V] : Follows(n, Start, H, f)
  BY <1>6, <1>8, Recursion
<1>10. ASSUME NEW i \in 0 .. n PROVE f[i] = F(f)[i]
  <2>1. CASE i = 0
    BY <1>9, <2>1 DEF Follows
  <2>2. CASE i # 0
    <3>1. i \in 1 .. n /\ i - 1 \in 0 .. n
      BY <2>2
    <3>2. f[i] = H[<<i, f[i - 1]>>] /\ <<i, f[i - 1]>> \in (1 .. n) \X V
      BY <1>9, <3>1 DEF Follows
    <3> QED
      BY <1>7, <2>2, <3>2
  <2> QED
    BY <2>1, <2>2
<1>11. f = F(f)
  BY <1>10
<1>12. m = F(m)
  <2> HIDE DEF F
  <2> QED
    BY <1>1, <1>11
<1>13. ASSUME NEW i \in 0 .. n PROVE m[i] = IF i = 0 THEN Start ELSE Turn(i, m[i - 1])
  <2>1. m[i] = F(m)[i]
    <3> HIDE DEF F
    <3> QED
      BY <1>12
  <2> QED
    BY <2>1
<1>14. Turns(n, Written(n, payload), rk, fk, m)
  <2>1. PICK d : d = Written(n, payload)
    OBVIOUS
  <2>2. \A i \in 0 .. n : d[i] = IF i = 0 THEN GetCheckSum(payload) ELSE payload[i]
    BY <2>1 DEF Written
  <2>3. ASSUME NEW i \in 0 .. n
        PROVE  m[i] = EncodeByte(d[i], IF i = 0 THEN [p |-> Zero, e |-> Zero] ELSE m[i - 1], i, rk, fk)
    <3>1. CASE i = 0
      BY <1>13, <2>2, <3>1 DEF Start
    <3>2. CASE i # 0
      BY <1>13, <2>2, <3>2 DEF Turn
    <3> QED
      BY <3>1, <3>2
  <2> QED
    BY <2>1, <2>3 DEF Turns
<1> QED
  BY <1>3, <1>14

\* Decode undoes the turns, byte by byte: both passes combine a byte with what its
\* predecessor was when Encode went over it.
LEMMA DecodeUndoes ==
  ASSUME NEW n \in Nat, NEW d, NEW rk, NEW fk, NEW t, Turns(n, d, rk, fk, t),
         NEW bytes, bytes = [i \in 0 .. n |-> t[i].e]
  PROVE  Decode(bytes, rk, fk) = [i \in 0 .. n |-> d[i]]
<1>1. PICK b : b = Unchain(bytes, fk)
  OBVIOUS
<1>2. ASSUME NEW i \in 0 .. n
      PROVE  /\ i # 0 => i - 1 \in 0 .. n
             /\ bytes[i] = t[i].e /\ (i # 0 => bytes[i - 1] = t[i - 1].e)
             /\ t[i].p = Xor(d[i], Mask(IF i = 0 THEN Zero ELSE t[i - 1].p, rk, i))
             /\ t[i].e = Xor(t[i].p, Mask(IF i = 0 THEN Zero ELSE t[i - 1].e, fk, i))
  <2>1. i # 0 => i - 1 \in 0 .. n
    OBVIOUS
  <2>2. bytes[i] = t[i].e /\ (i # 0 => bytes[i - 1] = t[i - 1].e)
    BY <2>1
  <2>3. PICK prev : prev = IF i = 0 THEN [p |-> Zero, e |-> Zero] ELSE t[i - 1]
    OBVIOUS
  <2>4. t[i] = EncodeByte(d[i], prev, i, rk, fk)
    BY <2>3 DEF Turns
  <2>5. /\ t[i].p = Xor(d[i], Mask(prev.p, rk, i))
        /\ t[i].e = Xor(t[i].p, Mask(prev.e, fk, i))
    BY <2>4 DEF EncodeByte
  <2>6. /\ prev.p = IF i = 0 THEN Zero ELSE t[i - 1].p
        /\ prev.e = IF i = 0 THEN Zero ELSE t[i - 1].e
    BY <2>3
  <2> QED
    BY <2>1, <2>2, <2>5, <2>6
<1>3. ASSUME NEW i \in 0 .. n PROVE b[i] = t[i].p
  <2>1. PICK before : before = IF i = 0 THEN Zero ELSE t[i - 1].e
    OBVIOUS
  <2>2. (IF i = 0 THEN Zero ELSE bytes[i - 1]) = before
    BY <1>2, <2>1
  <2>3. b[i] = Xor(bytes[i], Mask(before, fk, i))
    BY <1>1, <2>2 DEF Unchain
  <2>4. bytes[i] = Xor(t[i].p, Mask(before, fk, i))
    BY <1>2, <2>1
  <2> QED
    BY <2>3, <2>4, XorBack
<1>4. DOMAIN b = 0 .. n
  BY <1>1 DEF Unchain
<1>5. PICK a : a = Unchain(b, rk)
  OBVIOUS
<1>6. ASSUME NEW i \in 0 .. n PROVE a[i] = d[i]
  <2>1. PICK before : before = IF i = 0 THEN Zero ELSE t[i - 1].p
    OBVIOUS
  <2>2. (IF i = 0 THEN Zero ELSE b[i - 1]) = before
    BY <1>2, <1>3, <2>1
  <2>3. a[i] = Xor(b[i], Mask(before, rk, i))
    BY <1>4, <1>5, <2>2 DEF Unchain
  <2>4. b[i] = Xor(d[i], Mask(before, rk, i))
    BY <1>2, <1>3, <2>1
  <2> QED
    BY <2>3, <2>4, XorBack
<1>7. a = [i \in 0 .. n |-> a[i]]
  BY <1>4, <1>5 DEF Unchain
<1>8. a = [i \in 0 .. n |-> d[i]]
  BY <1>6, <1>7
<1> QED
  BY <1>1, <1>5, <1>8 DEF Decode

LEMMA AlwaysArrives ==
  ASSUME NEW n \in Nat
  PROVE  Arrives(n)
<1> SUFFICES ASSUME NEW payload \in [1 .. n -> Byte], NEW rk \in Byte, NEW fk \in Byte,
                    NEW sameCode \in BOOLEAN, NEW r,
                    r = ValidateReceived(sameCode, Encode(payload, rk, fk), rk, fk)
             PROVE  (r.accepted <=> sameCode) /\ (r.accepted => r.payload = payload)
  BY DEF Arrives
<1>1. CASE ~ sameCode
  BY <1>1 DEF ValidateReceived
<1>2. CASE sameCode
  <2>1. PICK d : d = Written(n, payload)
    OBVIOUS
  <2>2. PICK t, bytes : /\ Turns(n, d, rk, fk, t) /\ bytes = Encode(payload, rk, fk)
                        /\ bytes = [i \in 0 .. n |-> t[i].e]
    BY <2>1, EncodeTurns
  <2>3. PICK b : b = Decode(bytes, rk, fk)
    OBVIOUS
  <2>4. b = [i \in 0 .. n |-> d[i]]
    BY <2>2, <2>3, DecodeUndoes
  <2>5. /\ DOMAIN b = 0 .. n /\ b[0] = GetCheckSum(payload)
        /\ \A i \in 1 .. n : b[i] = payload[i]
    BY <2>1, <2>4 DEF Written
  <2>6. DOMAIN b \ {0} = 1 .. n
    BY <2>5
  <2>7. [i \in DOMAIN b \ {0} |-> b[i]] = payload
    BY <2>5, <2>6
  <2>8. r = [payload |-> payload, accepted |-> b[0] = GetCheckSum(payload)]
    BY <1>2, <2>2, <2>3, <2>7 DEF ValidateReceived
  <2>9. r.payload = payload /\ r.accepted
    <3>1. (b[0] = GetCheckSum(payload)) = TRUE
      BY <2>5
    <3>2. r = [payload |-> payload, accepted |-> TRUE]
      BY <2>8, <3>1, Zenon
    <3> QED
      BY <3>2
  <2> QED
    BY <1>2, <2>9
<1> QED
  BY <1>1, <1>2

\* A Net packet that is sent arrives as it was written at every receiver, and at no other:
\* whatever its length, its bytes and the keys, and however many sends share it
\* (Packet.h, SetHeader, Encode, Decode and ValidateReceived).
THEOREM WireExactAlways == Spec => []WireExact
<1>1. IInv => WireExact
  <2> SUFFICES ASSUME IInv PROVE WireExact
    OBVIOUS
  <2>1. HeaderExact /\ payloadLen \in Nat
    BY DEF IInv, TypeOK
  <2>2. ASSUME payloadLen <= MaxLen PROVE Survives[payloadLen]
    <3>1. payloadLen \in 0 .. MaxLen
      BY <2>1, <2>2, CodecAssumption
    <3> QED
      BY <2>1, <3>1, AlwaysArrives DEF Survives
  <2> QED
    BY <2>1, <2>2 DEF WireExact, HeaderExact
<1> QED
  BY <1>1, Inductive, PTL

-------------------------------------------------------------------------------
\* Two facts more that need an induction.
LEMMA SameByInduction ==
    ASSUME NEW N \in Nat, NEW f, NEW g, f[0] = g[0],
           \A n \in 1 .. N : f[n - 1] = g[n - 1] => f[n] = g[n]
    PROVE  \A n \in 0 .. N : f[n] = g[n]
<1> DEFINE T == {n \in 0 .. N : f[n] # g[n]}
<1> SUFFICES ASSUME T # {} PROVE FALSE
  OBVIOUS
<1>1. PICK n \in T : \A m \in T : n <= m
  <2>1. T \in SUBSET (0 .. N)
    OBVIOUS
  <2> HIDE DEF T
  <2> QED
    BY <2>1, LeastElement
<1>2. n \in 1 .. N /\ n - 1 \in 0 .. N /\ n - 1 \notin T
  BY <1>1
<1> QED
  BY <1>1, <1>2

\* A sequence without repetition, and the number of its elements.
LEMMA ElementsCounted ==
    ASSUME NEW S, NEW n \in Nat, NEW f, \A i, j \in 1 .. n : f[i] = f[j] => i = j,
           \A i \in 1 .. n : f[i] \in S, \A x \in S : \E i \in 1 .. n : f[i] = x
    PROVE  Cardinality(S) = n /\ IsFiniteSet(S)
<1> DEFINE g == [i \in 1 .. n |-> f[i]]
<1>1. g \in [1 .. n -> S] /\ \A i \in 1 .. n : g[i] = f[i]
  OBVIOUS
<1> HIDE DEF g
<1>2. g \in Bijection(1 .. n, S)
  BY <1>1 DEF Bijection, Injection, Surjection, IsInjective
<1>3. ExistsBijection(1 .. n, S)
  BY <1>2 DEF ExistsBijection
<1> QED
  BY <1>3, FS_CountingElements, FS_NatBijection

-------------------------------------------------------------------------------
\* The lists of the leak logs.  The steps of the threads, which list each is at work on and
\* which packet it has, give ControlInv without a look at a list; a sequence for each list
\* then says which elements it has (Located) and that its links are these (Shaped).

\* Where a thread is: about to free a packet that is off debugList, and in a critical
\* section.
Freeing == {"drain", "loop", "unlink", "freeLog", "free"}
Inside  == {"pushed", "removed", "loop", "unlink", "freeLog"}

LeakTypeOK ==
    /\ pHead \in [Lists -> Nodes \cup {NULL}] /\ pTail \in [Lists -> Nodes \cup {NULL}]
    /\ size \in [Lists -> Int] /\ cs \in [Lists -> Threads \cup {NULL}]
    /\ pNext \in [Nodes -> Nodes \cup {NULL}] /\ pPrev \in [Nodes -> Nodes \cup {NULL}]
    /\ inUse \in SUBSET Packets /\ logsInUse \in SUBSET Logs
    /\ holders \in [Packets -> SUBSET Threads]
    /\ pc \in [Threads -> {"idle", "push", "remove"} \cup Inside \cup Freeing]
    /\ list \in [Threads -> Lists \cup {NULL}]
    /\ elem \in [Threads -> Nodes \cup {NULL}] /\ next \in [Threads -> Nodes \cup {NULL}]

\* Who links a packet has the only reference to it, who links a log has a reference to
\* its packet, and a packet that is being freed has no reference any more.
Stage(t) ==
    /\ pc[t] \in {"push", "pushed"} =>
         \/ list[t] = debugList /\ elem[t] \in inUse /\ holders[elem[t]] = {t}
         \/ list[t] \in inUse /\ t \in holders[list[t]] /\ elem[t] \in Logs
    /\ pc[t] \in {"remove", "removed"} =>
         list[t] = debugList /\ elem[t] \in inUse /\ holders[elem[t]] = {}
    /\ pc[t] \in Freeing => list[t] \in inUse /\ holders[list[t]] = {}
    /\ pc[t] \in Inside => cs[list[t]] = t

\* The packet a thread puts on debugList, takes from it, or frees.
Charge(t) ==
    IF pc[t] \in Freeing THEN {list[t]}
    ELSE IF pc[t] # "idle" /\ list[t] = debugList THEN {elem[t]} ELSE {}

ControlInv ==
    /\ \A t \in Threads : Stage(t)
    /\ \A t, u \in Threads : t # u => Charge(t) \cap Charge(u) = {}
    /\ \A p \in Packets : holders[p] # {} => p \in inUse
    /\ \A l \in Lists : cs[l] # NULL => pc[cs[l]] \in Inside /\ list[cs[l]] = l

\* A log that a thread has and no list.
Held(t) == IF pc[t] \in {"push", "freeLog"} THEN {elem[t]} \cap Logs ELSE {}

Ran(s) == {s[i] : i \in 1 .. Len(s)}

\* The packet that a thread has and debugList has not.
Off(t) == IF pc[t] = "push" THEN {elem[t]} ELSE IF pc[t] \in Freeing THEN {list[t]} ELSE {}

Listed == {p \in inUse : \A t \in Threads : p \notin Off(t)}

\* S gives the elements of every list, in order.
Located(S) ==
    /\ S \in [Lists -> Seq(Nodes)]
    /\ Ran(S[debugList]) = Listed
    /\ \A p \in Packets : \A n \in Ran(S[p]) :
         /\ n \in logsInUse /\ p \in inUse
         /\ \A q \in Packets : n \in Ran(S[q]) => q = p
         /\ \A t \in Threads : n \notin Held(t)
    /\ \A t \in Threads : \A n \in Held(t) :
         n \in logsInUse /\ \A u \in Threads : n \in Held(u) => u = t
    /\ \A n \in logsInUse : (\E p \in Packets : n \in Ran(S[p])) \/ \E t \in Threads : n \in Held(t)

\* The element at a place, and NULL before the first and after the last; the next one but
\* for x.
At(s, i)      == IF i \in 1 .. Len(s) THEN s[i] ELSE NULL
Succ(s, i, x) == IF At(s, i + 1) = x THEN At(s, i + 2) ELSE At(s, i + 1)

\* s is a list with these ends and links.  While its last element is being linked
\* (pushing), it is not the tail yet and not counted; while x is being removed, its
\* predecessor passes over it.
Chain(s, head, tail, count, nx, pv, pushing, x) ==
    /\ \A i, j \in 1 .. Len(s) : s[i] = s[j] => i = j
    /\ \A i \in 1 .. Len(s) : pv[s[i]] = At(s, i - 1)
    /\ head = Succ(s, 0, x) /\ \A i \in 1 .. Len(s) : nx[s[i]] = Succ(s, i, x)
    /\ IF pushing THEN s # <<>> /\ count = Len(s) - 1
                  ELSE tail = At(s, Len(s)) /\ count = Len(s)

Pushing(l) == cs[l] # NULL /\ pc[cs[l]] = "pushed"
Skipped(l) == IF cs[l] # NULL /\ pc[cs[l]] \in {"removed", "unlink"} THEN elem[cs[l]] ELSE NULL

\* What the locals of a thread say of the list it works on.
Detail(t, s) ==
    /\ pc[t] = "pushed"  => elem[t] = At(s, Len(s))
    /\ pc[t] = "loop"    => elem[t] = At(s, 1)
    /\ pc[t] = "unlink"  => elem[t] = At(s, 1) /\ s # <<>> /\ next[t] = At(s, 2)
    /\ pc[t] = "freeLog" => elem[t] \in Logs /\ next[t] = At(s, 1)
    /\ pc[t] = "free"    => s = <<>>

Shaped(S) ==
    /\ \A l \in Lists : Chain(S[l], pHead[l], pTail[l], size[l], pNext, pPrev, Pushing(l), Skipped(l))
    /\ \A n \in Nodes : (\A l \in Lists : n \notin Ran(S[l])) => pNext[n] = NULL
    /\ \A t \in Threads : pc[t] # "idle" => Detail(t, S[list[t]])

LeakInv == LeakTypeOK /\ ControlInv /\ \E S \in [Lists -> Seq(Nodes)] : Located(S) /\ Shaped(S)

-------------------------------------------------------------------------------
\* The control of the leak logs: no list is looked at yet.
LEMMA LeakInitInv ==
  ASSUME LeakInit
  PROVE  LeakTypeOK /\ ControlInv /\ \E S \in [Lists -> Seq(Nodes)] : Located(S) /\ Shaped(S)
<1>1. LeakTypeOK
  BY DEF LeakInit, LeakTypeOK
<1>2. ControlInv
  BY DEF LeakInit, ControlInv, Stage, Charge, Freeing, Inside
<1>3. PICK S : S = [l \in Lists |-> <<>>]
  OBVIOUS
<1>4. S \in [Lists -> Seq(Nodes)] /\ \A l \in Lists : S[l] = <<>> /\ Ran(S[l]) = {}
  BY <1>3 DEF Ran
<1>5. debugList \in Lists /\ Packets \subseteq Lists
  BY DEF Lists
<1>6. Located(S)
  BY <1>4, <1>5 DEF Located, LeakInit, Held, Listed
<1>7. \A l \in Lists : Chain(<<>>, NULL, NULL, 0, pNext, pPrev, FALSE, NULL)
  BY DEF Chain, Succ, At
<1>8. Shaped(S)
  <2>1. \A l \in Lists : Chain(S[l], pHead[l], pTail[l], size[l], pNext, pPrev, Pushing(l), Skipped(l))
    BY <1>4, <1>7 DEF LeakInit, Pushing, Skipped
  <2> QED
    BY <2>1 DEF Shaped, LeakInit
<1> QED
  BY <1>1, <1>2, <1>4, <1>6, <1>8

\* The locals of the other threads stay as they are.
Others(t) ==
    \A u \in Threads \ {t} : /\ pc'[u] = pc[u] /\ list'[u] = list[u]
                             /\ elem'[u] = elem[u] /\ next'[u] = next[u]

LEMMA WorkIs ==
  ASSUME LeakTypeOK, NEW t \in Threads, NEW label, NEW l, NEW n, Work(t, label, l, n)
  PROVE  /\ pc'[t] = label /\ list'[t] = l /\ elem'[t] = n /\ next'[t] = NULL /\ Others(t)
         /\ label \in {"idle", "push", "remove"} \cup Inside \cup Freeing
              => pc' \in [Threads -> {"idle", "push", "remove"} \cup Inside \cup Freeing]
         /\ l \in Lists \cup {NULL} => list' \in [Threads -> Lists \cup {NULL}]
         /\ n \in Nodes \cup {NULL} =>
              elem' \in [Threads -> Nodes \cup {NULL}] /\ next' \in [Threads -> Nodes \cup {NULL}]
<1>1. /\ pc' = [pc EXCEPT ![t] = label] /\ list' = [list EXCEPT ![t] = l]
      /\ elem' = [elem EXCEPT ![t] = n] /\ next' = [next EXCEPT ![t] = NULL]
  BY DEF Work, Goto
<1> QED
  BY <1>1 DEF LeakTypeOK, Others

LEMMA GotoIs ==
  ASSUME LeakTypeOK, NEW t \in Threads, NEW label, Goto(t, label),
         label \in {"idle", "push", "remove"} \cup Inside \cup Freeing
  PROVE  /\ pc'[t] = label /\ \A u \in Threads \ {t} : pc'[u] = pc[u]
         /\ pc' \in [Threads -> {"idle", "push", "remove"} \cup Inside \cup Freeing]
BY DEF Goto, LeakTypeOK

\* What an action of thread t does to the control, when the packets in use and the
\* references to them stay.
LEMMA ControlKept ==
  ASSUME LeakTypeOK, ControlInv, NEW t \in Threads, Others(t), UNCHANGED <<inUse, holders>>,
         Stage(t)', Charge(t)' \subseteq Charge(t),
         \A l \in Lists : /\ cs'[l] = cs[l] \/ (cs[l] \in {NULL, t} /\ cs'[l] \in {NULL, t})
                          /\ cs'[l] = t => pc'[t] \in Inside /\ list'[t] = l
  PROVE  ControlInv'
<1>1. \A u \in Threads \ {t} : Charge(u)' = Charge(u)
  BY DEF Others, Charge
<1>2. ASSUME NEW u \in Threads \ {t} PROVE Stage(u)'
  <2>1. pc[u] \in Inside => cs[list[u]] = u /\ list[u] \in Lists
    BY DEF ControlInv, Stage, LeakTypeOK, Inside, Freeing, Lists
  <2>2. pc[u] \in Inside => cs'[list[u]] = u
    BY <2>1, LeakAssumption
  <2>3. Stage(u)
    BY DEF ControlInv
  <2> QED
    BY <2>2, <2>3 DEF Others, Stage
<1>3. ASSUME NEW l \in Lists, cs'[l] # NULL PROVE pc'[cs'[l]] \in Inside /\ list'[cs'[l]] = l
  <2>1. CASE cs'[l] = t
    BY <2>1
  <2>2. CASE cs'[l] # t
    <3>1. cs'[l] = cs[l] /\ cs[l] \in Threads \ {t}
      BY <1>3, <2>2 DEF LeakTypeOK
    <3> QED
      BY <1>3, <3>1 DEF ControlInv, Others
  <2> QED
    BY <2>1, <2>2
<1>4. ASSUME NEW u \in Threads, NEW v \in Threads, u # v PROVE Charge(u)' \cap Charge(v)' = {}
  <2>1. Charge(u)' \subseteq Charge(u) /\ Charge(v)' \subseteq Charge(v)
    BY <1>1
  <2>2. Charge(u) \cap Charge(v) = {}
    BY <1>4 DEF ControlInv
  <2> QED
    BY <2>1, <2>2
<1>5. \A p \in Packets : holders'[p] # {} => p \in inUse'
  BY DEF ControlInv
<1>6. \A u \in Threads : Stage(u)'
  BY <1>2
<1> QED
  BY <1>3, <1>4, <1>5, <1>6 DEF ControlInv

\* The elements that the control says are there.
LEMMA StageIs ==
  ASSUME LeakTypeOK, ControlInv, NEW t \in Threads
  PROVE  /\ pc[t] \in {"push", "pushed"} =>
              /\ list[t] \in Lists /\ elem[t] \in Nodes
              /\ list[t] = debugList => elem[t] \in Packets
              /\ list[t] # debugList => list[t] \in Packets /\ elem[t] \in Logs
         /\ pc[t] \in {"remove", "removed"} =>
              list[t] = debugList /\ elem[t] \in Packets /\ elem[t] \in Nodes
         /\ pc[t] \in Freeing => list[t] \in Packets /\ list[t] \in Lists /\ list[t] # debugList
         /\ pc[t] \in Inside => list[t] \in Lists /\ cs[list[t]] = t
<1>1. Stage(t)
  BY DEF ControlInv
<1> QED
  BY <1>1, LeakAssumption DEF Stage, LeakTypeOK, Lists, Nodes, Inside, Freeing

LEMMA LeakAllocControl ==
  ASSUME LeakTypeOK, ControlInv, NEW t \in Threads, NEW p \in Packets, AllocForDebugLeak(t, p)
  PROVE  LeakTypeOK' /\ ControlInv'
<1>1. /\ pc[t] = "idle" /\ p \notin inUse /\ inUse' = inUse \cup {p}
      /\ holders' = [holders EXCEPT ![p] = {t}] /\ Work(t, "push", debugList, p)
      /\ UNCHANGED <<listVars, linkVars, logsInUse>>
  BY DEF AllocForDebugLeak, Packet!Alloc
<1>2. /\ pc'[t] = "push" /\ list'[t] = debugList /\ elem'[t] = p /\ Others(t)
      /\ pc' \in [Threads -> {"idle", "push", "remove"} \cup Inside \cup Freeing]
      /\ list' \in [Threads -> Lists \cup {NULL}]
      /\ elem' \in [Threads -> Nodes \cup {NULL}] /\ next' \in [Threads -> Nodes \cup {NULL}]
  BY <1>1, WorkIs DEF Lists, Nodes
<1>3. holders' \in [Packets -> SUBSET Threads] /\ holders'[p] = {t}
      /\ \A q \in Packets \ {p} : holders'[q] = holders[q]
  BY <1>1 DEF LeakTypeOK
<1>4. LeakTypeOK'
  BY <1>1, <1>2, <1>3 DEF LeakTypeOK, listVars, linkVars
<1>5. \A u \in Threads \ {t} : Charge(u)' = Charge(u)
  BY <1>2 DEF Others, Charge
<1>6. \A u \in Threads : p \notin Charge(u)
  BY <1>1, LeakAssumption DEF ControlInv, Stage, Charge, LeakTypeOK, Lists, Freeing, Inside
<1>7. Charge(t)' = {p}
  BY <1>2 DEF Charge, Freeing
<1>8. ASSUME NEW u \in Threads \ {t} PROVE Stage(u)'
  <2>1. Stage(u)
    BY DEF ControlInv
  <2>2. cs' = cs
    BY <1>1 DEF listVars
  <2> QED
    BY <1>1, <1>2, <1>3, <2>1, <2>2 DEF Others, Stage, LeakTypeOK
<1>9. Stage(t)'
  BY <1>1, <1>2, <1>3 DEF Stage, Freeing, Inside
<1>10. \A u \in Threads : Stage(u)'
  BY <1>8, <1>9
<1>11. \A u, v \in Threads : u # v => Charge(u)' \cap Charge(v)' = {}
  BY <1>5, <1>6, <1>7 DEF ControlInv
<1>12. \A q \in Packets : holders'[q] # {} => q \in inUse'
  BY <1>1, <1>3 DEF ControlInv
<1>13. ASSUME NEW l \in Lists, cs'[l] # NULL PROVE pc'[cs'[l]] \in Inside /\ list'[cs'[l]] = l
  <2>1. cs'[l] = cs[l] /\ cs[l] \in Threads
    BY <1>1, <1>13 DEF listVars, LeakTypeOK
  <2>2. pc[cs[l]] \in Inside /\ list[cs[l]] = l
    BY <1>13, <2>1 DEF ControlInv
  <2>3. cs[l] # t
    BY <1>1, <2>2 DEF Inside
  <2> QED
    BY <1>2, <2>1, <2>2, <2>3 DEF Others
<1> QED
  BY <1>4, <1>10, <1>11, <1>12, <1>13 DEF ControlInv

LEMMA LogControl ==
  ASSUME LeakTypeOK, ControlInv, NEW t \in Threads, NEW p \in Packets, NEW n \in Logs,
         WRITE_PACKET_LOG(t, p, n)
  PROVE  LeakTypeOK' /\ ControlInv'
<1>1. /\ pc[t] = "idle" /\ t \in holders[p] /\ n \notin logsInUse /\ logsInUse' = logsInUse \cup {n}
      /\ Work(t, "push", p, n) /\ UNCHANGED <<listVars, linkVars, inUse, holders>>
  BY DEF WRITE_PACKET_LOG, Log!Alloc
<1>2. /\ pc'[t] = "push" /\ list'[t] = p /\ elem'[t] = n /\ Others(t)
      /\ pc' \in [Threads -> {"idle", "push", "remove"} \cup Inside \cup Freeing]
      /\ list' \in [Threads -> Lists \cup {NULL}]
      /\ elem' \in [Threads -> Nodes \cup {NULL}] /\ next' \in [Threads -> Nodes \cup {NULL}]
  BY <1>1, WorkIs DEF Lists, Nodes
<1>3. LeakTypeOK'
  BY <1>1, <1>2 DEF LeakTypeOK, listVars, linkVars
<1>4. p \in inUse
  BY <1>1 DEF ControlInv
<1>5. Stage(t)'
  BY <1>1, <1>2, <1>4 DEF Stage, Freeing, Inside
<1>6. Charge(t)' = {}
  BY <1>2, LeakAssumption DEF Charge, Freeing
<1>7. \A l \in Lists : cs'[l] = cs[l] /\ cs'[l] # t
  BY <1>1, LeakAssumption DEF listVars, ControlInv, Inside
<1> QED
  BY <1>1, <1>2, <1>3, <1>5, <1>6, <1>7, ControlKept

LEMMA ShareControl ==
  ASSUME LeakTypeOK, ControlInv, NEW t \in Threads, NEW w \in Threads, NEW p \in Packets, Share(t, w, p)
  PROVE  LeakTypeOK' /\ ControlInv'
<1>1. /\ pc[t] = "idle" /\ t \in holders[p] /\ holders' = [holders EXCEPT ![p] = @ \cup {w}]
      /\ UNCHANGED <<listVars, linkVars, inUse, logsInUse, pc, list, elem, next>>
  BY DEF Share
<1>2. holders' \in [Packets -> SUBSET Threads] /\ holders'[p] = holders[p] \cup {w}
      /\ \A q \in Packets \ {p} : holders'[q] = holders[q]
  BY <1>1 DEF LeakTypeOK
<1>3. LeakTypeOK'
  BY <1>1, <1>2 DEF LeakTypeOK, listVars, linkVars
<1>4. ASSUME NEW u \in Threads PROVE Stage(u)'
  <2>1. Stage(u)
    BY DEF ControlInv
  <2>2. pc[u] # "idle" => u # t
    BY <1>1
  <2>3. pc[u] \in {"push", "pushed"} /\ holders[elem[u]] = {u} => elem[u] # p
    BY <1>1, <2>2
  <2>4. pc[u] \in {"remove", "removed"} /\ holders[elem[u]] = {} => elem[u] # p
    BY <1>1
  <2>5. holders[list[u]] = {} => list[u] # p
    BY <1>1
  <2>6. cs' = cs /\ inUse' = inUse /\ pc' = pc /\ list' = list /\ elem' = elem
    BY <1>1 DEF listVars
  <2> QED
    BY <1>2, <2>1, <2>3, <2>4, <2>5, <2>6 DEF Stage, LeakTypeOK
<1>5. \A q \in Packets : holders'[q] # {} => q \in inUse'
  BY <1>1, <1>2 DEF ControlInv
<1> QED
  BY <1>1, <1>3, <1>4, <1>5 DEF ControlInv, Charge, listVars

LEMMA LetGoControl ==
  ASSUME LeakTypeOK, ControlInv, NEW t \in Threads, NEW p \in Packets, LetGo(t, p)
  PROVE  LeakTypeOK' /\ ControlInv'
<1>1. /\ pc[t] = "idle" /\ t \in holders[p] /\ holders' = [holders EXCEPT ![p] = @ \ {t}]
      /\ UNCHANGED <<listVars, linkVars, inUse, logsInUse>>
      /\ IF holders[p] = {t} THEN Work(t, "remove", debugList, p)
                             ELSE UNCHANGED <<pc, list, elem, next>>
  BY DEF LetGo
<1>2. holders' \in [Packets -> SUBSET Threads] /\ holders'[p] = holders[p] \ {t}
      /\ \A q \in Packets \ {p} : holders'[q] = holders[q]
  BY <1>1 DEF LeakTypeOK
<1>3. p \in inUse
  BY <1>1 DEF ControlInv
<1>4. \A u \in Threads : p \notin Charge(u)
  <2> SUFFICES ASSUME NEW u \in Threads, p \in Charge(u) PROVE FALSE
    OBVIOUS
  <2>1. Stage(u)
    BY DEF ControlInv
  <2>2. pc[u] \in {"idle", "push", "remove"} \cup Inside \cup Freeing
    BY DEF LeakTypeOK
  <2>3. CASE pc[u] \in Freeing
    BY <1>1, <2>1, <2>3 DEF Stage, Charge
  <2>4. CASE pc[u] \in {"push", "pushed", "remove", "removed"}
    <3>1. list[u] = debugList /\ elem[u] = p
      BY <2>4 DEF Charge, Freeing
    <3>2. holders[p] = {u}
      BY <1>1, <2>1, <2>4, <3>1, LeakAssumption DEF Stage, LeakTypeOK
    <3> QED
      BY <1>1, <2>4, <3>2
  <2> QED
    BY <2>2, <2>3, <2>4 DEF Charge, Inside, Freeing
<1>5. CASE holders[p] = {t}
  <2>1. /\ pc'[t] = "remove" /\ list'[t] = debugList /\ elem'[t] = p /\ Others(t)
        /\ pc' \in [Threads -> {"idle", "push", "remove"} \cup Inside \cup Freeing]
        /\ list' \in [Threads -> Lists \cup {NULL}]
        /\ elem' \in [Threads -> Nodes \cup {NULL}] /\ next' \in [Threads -> Nodes \cup {NULL}]
    BY <1>1, <1>5, WorkIs DEF Lists, Nodes
  <2>2. LeakTypeOK'
    BY <1>1, <1>2, <2>1 DEF LeakTypeOK, listVars, linkVars
  <2>3. ASSUME NEW u \in Threads \ {t} PROVE Stage(u)'
    <3>1. Stage(u) /\ p \notin Charge(u)
      BY <1>4 DEF ControlInv
    <3>2. u \notin holders[p]
      BY <1>5
    <3> QED
      BY <1>1, <1>2, <2>1, <3>1, <3>2 DEF Others, Stage, LeakTypeOK, Charge, Freeing, Inside, listVars
  <2>4. Stage(t)'
    BY <1>1, <1>2, <1>3, <1>5, <2>1 DEF Stage, Freeing, Inside
  <2>5. \A u \in Threads : Stage(u)'
    BY <2>3, <2>4
  <2>6. Charge(t)' = {p} /\ \A u \in Threads \ {t} : Charge(u)' = Charge(u)
    BY <2>1 DEF Others, Charge, Freeing
  <2>7. \A u, v \in Threads : u # v => Charge(u)' \cap Charge(v)' = {}
    BY <1>4, <2>6 DEF ControlInv
  <2>8. \A q \in Packets : holders'[q] # {} => q \in inUse'
    BY <1>1, <1>2 DEF ControlInv
  <2>9. ASSUME NEW l \in Lists, cs'[l] # NULL PROVE pc'[cs'[l]] \in Inside /\ list'[cs'[l]] = l
    <3>1. cs'[l] = cs[l] /\ cs[l] \in Threads
      BY <1>1, <2>9 DEF listVars, LeakTypeOK
    <3>2. pc[cs[l]] \in Inside /\ list[cs[l]] = l
      BY <2>9, <3>1 DEF ControlInv
    <3>3. cs[l] # t
      BY <1>1, <3>2 DEF Inside
    <3> QED
      BY <2>1, <3>1, <3>2, <3>3 DEF Others
  <2> QED
    BY <2>2, <2>5, <2>7, <2>8, <2>9 DEF ControlInv
<1>6. CASE holders[p] # {t}
  <2>1. UNCHANGED <<listVars, linkVars, inUse, logsInUse, pc, list, elem, next>>
    BY <1>1, <1>6
  <2>2. LeakTypeOK'
    BY <1>2, <2>1 DEF LeakTypeOK, listVars, linkVars
  <2>3. ASSUME NEW u \in Threads PROVE Stage(u)'
    <3>1. Stage(u) /\ p \notin Charge(u)
      BY <1>4 DEF ControlInv
    <3>2. u = t => pc[u] = "idle"
      BY <1>1
    <3> QED
      BY <1>2, <2>1, <3>1, <3>2 DEF Stage, LeakTypeOK, Charge, Freeing, Inside, listVars
  <2>4. \A q \in Packets : holders'[q] # {} => q \in inUse'
    BY <1>2, <2>1 DEF ControlInv
  <2> QED
    BY <2>1, <2>2, <2>3, <2>4 DEF ControlInv, Charge, listVars
<1> QED
  BY <1>5, <1>6

LEMMA FreePacketControl ==
  ASSUME LeakTypeOK, ControlInv, NEW t \in Threads, FreePacket(t)
  PROVE  LeakTypeOK' /\ ControlInv'
<1>1. /\ pc[t] = "free" /\ list[t] \in inUse /\ inUse' = inUse \ {list[t]} /\ Work(t, "idle", NULL, NULL)
      /\ UNCHANGED <<listVars, linkVars, logsInUse, holders>>
  BY DEF FreePacket, Packet!Free, Return
<1>2. PICK p \in Packets : p = list[t] /\ holders[p] = {} /\ Charge(t) = {p}
  BY <1>1 DEF ControlInv, Stage, Freeing, Charge, LeakTypeOK
<1>3. /\ pc'[t] = "idle" /\ Others(t)
      /\ pc' \in [Threads -> {"idle", "push", "remove"} \cup Inside \cup Freeing]
      /\ list' \in [Threads -> Lists \cup {NULL}]
      /\ elem' \in [Threads -> Nodes \cup {NULL}] /\ next' \in [Threads -> Nodes \cup {NULL}]
  BY <1>1, WorkIs
<1>4. LeakTypeOK'
  BY <1>1, <1>3 DEF LeakTypeOK, listVars, linkVars
<1>5. ASSUME NEW u \in Threads \ {t} PROVE Stage(u)'
  <2>1. Stage(u) /\ p \notin Charge(u)
    BY <1>2 DEF ControlInv
  <2> QED
    BY <1>1, <1>2, <1>3, <2>1 DEF Others, Stage, LeakTypeOK, Charge, Freeing, Inside, listVars
<1>6. Stage(t)'
  BY <1>3 DEF Stage, Freeing, Inside
<1>7. \A u \in Threads : Stage(u)'
  BY <1>5, <1>6
<1>8. Charge(t)' = {} /\ \A u \in Threads \ {t} : Charge(u)' = Charge(u)
  BY <1>3 DEF Others, Charge, Freeing
<1>9. \A u, v \in Threads : u # v => Charge(u)' \cap Charge(v)' = {}
  BY <1>8 DEF ControlInv
<1>10. \A q \in Packets : holders'[q] # {} => q \in inUse'
  BY <1>1, <1>2 DEF ControlInv
<1>11. ASSUME NEW l \in Lists, cs'[l] # NULL PROVE pc'[cs'[l]] \in Inside /\ list'[cs'[l]] = l
  <2>1. cs'[l] = cs[l] /\ cs[l] \in Threads
    BY <1>1, <1>11 DEF listVars, LeakTypeOK
  <2>2. pc[cs[l]] \in Inside /\ list[cs[l]] = l
    BY <1>11, <2>1 DEF ControlInv
  <2>3. cs[l] # t
    BY <1>1, <2>2 DEF Inside
  <2> QED
    BY <1>3, <2>1, <2>2, <2>3 DEF Others
<1> QED
  BY <1>4, <1>7, <1>9, <1>10, <1>11 DEF ControlInv

\* The links and the ends stay links and ends.
LEMMA LinkLastTyped ==
  ASSUME LeakTypeOK, NEW l \in Lists, NEW n \in Nodes, LinkLast(l, n)
  PROVE  /\ pHead' \in [Lists -> Nodes \cup {NULL}] /\ pTail' \in [Lists -> Nodes \cup {NULL}]
         /\ pNext' \in [Nodes -> Nodes \cup {NULL}] /\ pPrev' \in [Nodes -> Nodes \cup {NULL}]
<1>1. CASE pHead[l] = NULL
  BY <1>1 DEF LinkLast, LeakTypeOK
<1>2. CASE pHead[l] # NULL
  BY <1>2 DEF LinkLast, LeakTypeOK
<1> QED
  BY <1>1, <1>2

LEMMA UnlinkPrevTyped ==
  ASSUME LeakTypeOK, NEW l \in Lists, NEW n \in Nodes, UnlinkPrev(l, n)
  PROVE  /\ pHead' \in [Lists -> Nodes \cup {NULL}] /\ pNext' \in [Nodes -> Nodes \cup {NULL}]
<1>1. CASE pPrev[n] = NULL
  BY <1>1 DEF UnlinkPrev, LeakTypeOK
<1>2. CASE pPrev[n] # NULL
  BY <1>2 DEF UnlinkPrev, LeakTypeOK
<1> QED
  BY <1>1, <1>2

LEMMA UnlinkNextTyped ==
  ASSUME LeakTypeOK, NEW l \in Lists, NEW n \in Nodes, UnlinkNext(l, n)
  PROVE  /\ pTail' \in [Lists -> Nodes \cup {NULL}] /\ size' \in [Lists -> Int]
         /\ pNext' \in [Nodes -> Nodes \cup {NULL}] /\ pPrev' \in [Nodes -> Nodes \cup {NULL}]
<1>1. CASE pNext[n] = NULL
  BY <1>1 DEF UnlinkNext, LeakTypeOK
<1>2. CASE pNext[n] # NULL
  <2>1. pPrev' = [pPrev EXCEPT ![pNext[n]] = pPrev[n], ![n] = NULL]
    BY <1>2 DEF UnlinkNext
  <2>2. pPrev' \in [Nodes -> Nodes \cup {NULL}]
    BY <2>1 DEF LeakTypeOK
  <2> QED
    BY <1>2, <2>2 DEF UnlinkNext, LeakTypeOK
<1> QED
  BY <1>1, <1>2

LEMMA EnterIs ==
  ASSUME LeakTypeOK, NEW t \in Threads, NEW l \in Lists, Enter(t, l)
  PROVE  /\ cs[l] = NULL /\ cs'[l] = t /\ \A m \in Lists \ {l} : cs'[m] = cs[m]
         /\ cs' \in [Lists -> Threads \cup {NULL}]
BY DEF Enter, LeakTypeOK

LEMMA LeaveIs ==
  ASSUME LeakTypeOK, NEW l \in Lists, Leave(l)
  PROVE  /\ cs'[l] = NULL /\ \A m \in Lists \ {l} : cs'[m] = cs[m]
         /\ cs' \in [Lists -> Threads \cup {NULL}]
BY DEF Leave, LeakTypeOK

LEMMA PushBackControl ==
  ASSUME LeakTypeOK, ControlInv, NEW t \in Threads, PushBack(t)
  PROVE  LeakTypeOK' /\ ControlInv'
<1>1. /\ pc[t] = "push" /\ Enter(t, list[t]) /\ LinkLast(list[t], elem[t]) /\ Goto(t, "pushed")
      /\ UNCHANGED <<size, poolVars, list, elem, next>>
  BY DEF PushBack
<1>2. list[t] \in Lists /\ elem[t] \in Nodes /\ Stage(t)
  BY <1>1, StageIs DEF ControlInv
<1>3. pc'[t] = "pushed" /\ Others(t) /\ pc' \in [Threads -> {"idle", "push", "remove"} \cup Inside \cup Freeing]
  BY <1>1, GotoIs DEF Others, Inside
<1>4. /\ cs'[list[t]] = t /\ \A m \in Lists \ {list[t]} : cs'[m] = cs[m]
      /\ cs[list[t]] = NULL /\ cs' \in [Lists -> Threads \cup {NULL}]
  BY <1>1, <1>2, EnterIs
<1>5. /\ pHead' \in [Lists -> Nodes \cup {NULL}] /\ pTail' \in [Lists -> Nodes \cup {NULL}]
      /\ pNext' \in [Nodes -> Nodes \cup {NULL}] /\ pPrev' \in [Nodes -> Nodes \cup {NULL}]
  BY <1>1, <1>2, LinkLastTyped
<1>6. LeakTypeOK'
  BY <1>1, <1>3, <1>4, <1>5 DEF LeakTypeOK, poolVars
<1>7. Stage(t)'
  BY <1>1, <1>2, <1>3, <1>4 DEF Stage, poolVars, Freeing
<1>8. Charge(t)' \subseteq Charge(t)
  BY <1>1, <1>3 DEF Charge, Freeing
<1>9. \A l \in Lists : cs[l] = t => l = list[t]
  BY <1>1, LeakAssumption DEF ControlInv, Inside
<1> QED
  BY <1>1, <1>3, <1>4, <1>6, <1>7, <1>8, <1>9, ControlKept DEF Inside, poolVars

LEMMA EndPushBackControl ==
  ASSUME LeakTypeOK, ControlInv, NEW t \in Threads, EndPushBack(t)
  PROVE  LeakTypeOK' /\ ControlInv'
<1>1. /\ pc[t] = "pushed" /\ pTail' = [pTail EXCEPT ![list[t]] = elem[t]]
      /\ pNext' = [pNext EXCEPT ![elem[t]] = NULL] /\ size' = [size EXCEPT ![list[t]] = @ + 1]
      /\ Leave(list[t]) /\ Work(t, "idle", NULL, NULL) /\ UNCHANGED <<pHead, pPrev, poolVars>>
  BY DEF EndPushBack, Return
<1>2. list[t] \in Lists /\ elem[t] \in Nodes /\ cs[list[t]] = t
  BY <1>1, StageIs DEF Inside
<1>3. /\ pc'[t] = "idle" /\ Others(t)
      /\ pc' \in [Threads -> {"idle", "push", "remove"} \cup Inside \cup Freeing]
      /\ list' \in [Threads -> Lists \cup {NULL}]
      /\ elem' \in [Threads -> Nodes \cup {NULL}] /\ next' \in [Threads -> Nodes \cup {NULL}]
  BY <1>1, WorkIs
<1>4. /\ cs'[list[t]] = NULL /\ \A m \in Lists \ {list[t]} : cs'[m] = cs[m]
      /\ cs' \in [Lists -> Threads \cup {NULL}]
  BY <1>1, <1>2, LeaveIs
<1>5. /\ pTail' \in [Lists -> Nodes \cup {NULL}] /\ size' \in [Lists -> Int]
      /\ pNext' \in [Nodes -> Nodes \cup {NULL}]
  BY <1>1, <1>2 DEF LeakTypeOK
<1>6. LeakTypeOK'
  BY <1>1, <1>3, <1>4, <1>5 DEF LeakTypeOK, poolVars
<1>7. Stage(t)' /\ Charge(t)' = {}
  BY <1>3 DEF Stage, Charge, Freeing, Inside
<1>8. \A l \in Lists : cs[l] = t => l = list[t]
  BY <1>1, LeakAssumption DEF ControlInv
<1> QED
  BY <1>1, <1>2, <1>3, <1>4, <1>6, <1>7, <1>8, LeakAssumption, ControlKept DEF poolVars

LEMMA RemoveControl ==
  ASSUME LeakTypeOK, ControlInv, NEW t \in Threads, Remove(t)
  PROVE  LeakTypeOK' /\ ControlInv'
<1>1. /\ pc[t] = "remove" /\ Enter(t, debugList) /\ UnlinkPrev(debugList, elem[t]) /\ Goto(t, "removed")
      /\ UNCHANGED <<pTail, size, pPrev, poolVars, list, elem, next>>
  BY DEF Remove
<1>2. list[t] = debugList /\ debugList \in Lists /\ elem[t] \in Nodes /\ Stage(t)
  BY <1>1, StageIs DEF ControlInv, Lists
<1>3. pc'[t] = "removed" /\ Others(t) /\ pc' \in [Threads -> {"idle", "push", "remove"} \cup Inside \cup Freeing]
  BY <1>1, GotoIs DEF Others, Inside
<1>4. /\ cs'[debugList] = t /\ \A m \in Lists \ {debugList} : cs'[m] = cs[m]
      /\ cs[debugList] = NULL /\ cs' \in [Lists -> Threads \cup {NULL}]
  BY <1>1, <1>2, EnterIs
<1>5. pHead' \in [Lists -> Nodes \cup {NULL}] /\ pNext' \in [Nodes -> Nodes \cup {NULL}]
  BY <1>1, <1>2, UnlinkPrevTyped
<1>6. LeakTypeOK'
  BY <1>1, <1>3, <1>4, <1>5 DEF LeakTypeOK, poolVars
<1>7. Stage(t)'
  BY <1>1, <1>2, <1>3, <1>4 DEF Stage, poolVars, Freeing
<1>8. Charge(t)' \subseteq Charge(t)
  BY <1>1, <1>3 DEF Charge, Freeing
<1>9. \A l \in Lists : cs[l] = t => l = list[t]
  BY <1>1, LeakAssumption DEF ControlInv, Inside
<1> QED
  BY <1>1, <1>2, <1>3, <1>4, <1>6, <1>7, <1>8, <1>9, ControlKept DEF Inside, poolVars

LEMMA EndRemoveControl ==
  ASSUME LeakTypeOK, ControlInv, NEW t \in Threads, EndRemove(t)
  PROVE  LeakTypeOK' /\ ControlInv'
<1>1. /\ pc[t] = "removed" /\ UnlinkNext(debugList, elem[t]) /\ Leave(debugList)
      /\ Work(t, "drain", elem[t], NULL) /\ UNCHANGED <<pHead, poolVars>>
  BY DEF EndRemove
<1>2. /\ list[t] = debugList /\ debugList \in Lists /\ elem[t] \in Nodes /\ elem[t] \in Lists
      /\ cs[debugList] = t /\ Stage(t)
  BY <1>1, StageIs DEF ControlInv, Lists, Inside
<1>3. /\ pc'[t] = "drain" /\ list'[t] = elem[t] /\ Others(t)
      /\ pc' \in [Threads -> {"idle", "push", "remove"} \cup Inside \cup Freeing]
      /\ list' \in [Threads -> Lists \cup {NULL}]
      /\ elem' \in [Threads -> Nodes \cup {NULL}] /\ next' \in [Threads -> Nodes \cup {NULL}]
  BY <1>1, <1>2, WorkIs DEF Freeing
<1>4. /\ cs'[debugList] = NULL /\ \A m \in Lists \ {debugList} : cs'[m] = cs[m]
      /\ cs' \in [Lists -> Threads \cup {NULL}]
  BY <1>1, <1>2, LeaveIs
<1>5. /\ pTail' \in [Lists -> Nodes \cup {NULL}] /\ size' \in [Lists -> Int]
      /\ pNext' \in [Nodes -> Nodes \cup {NULL}] /\ pPrev' \in [Nodes -> Nodes \cup {NULL}]
  BY <1>1, <1>2, UnlinkNextTyped
<1>6. LeakTypeOK'
  BY <1>1, <1>3, <1>4, <1>5 DEF LeakTypeOK, poolVars
<1>7. Stage(t)'
  BY <1>1, <1>2, <1>3 DEF Stage, Freeing, Inside, poolVars
<1>8. Charge(t)' = Charge(t)
  BY <1>1, <1>2, <1>3 DEF Charge, Freeing
<1>9. \A l \in Lists : cs[l] = t => l = list[t]
  BY <1>1, LeakAssumption DEF ControlInv
<1> QED
  BY <1>1, <1>2, <1>3, <1>4, <1>6, <1>7, <1>8, <1>9, LeakAssumption, ControlKept DEF poolVars

LEMMA DrainControl ==
  ASSUME LeakTypeOK, ControlInv, NEW t \in Threads, Drain(t)
  PROVE  LeakTypeOK' /\ ControlInv'
<1>1. /\ pc[t] = "drain" /\ Enter(t, list[t]) /\ elem' = [elem EXCEPT ![t] = pHead[list[t]]] /\ Goto(t, "loop")
      /\ UNCHANGED <<pHead, pTail, size, linkVars, poolVars, list, next>>
  BY DEF Drain, GetFirst
<1>2. list[t] \in Lists /\ Stage(t)
  BY <1>1, StageIs DEF ControlInv, Freeing
<1>3. elem' \in [Threads -> Nodes \cup {NULL}] /\ \A u \in Threads \ {t} : elem'[u] = elem[u]
  BY <1>1, <1>2 DEF LeakTypeOK
<1>4. pc'[t] = "loop" /\ Others(t) /\ pc' \in [Threads -> {"idle", "push", "remove"} \cup Inside \cup Freeing]
  BY <1>1, <1>3, GotoIs DEF Others, Inside
<1>5. /\ cs'[list[t]] = t /\ \A m \in Lists \ {list[t]} : cs'[m] = cs[m]
      /\ cs[list[t]] = NULL /\ cs' \in [Lists -> Threads \cup {NULL}]
  BY <1>1, <1>2, EnterIs
<1>6. LeakTypeOK'
  BY <1>1, <1>3, <1>4, <1>5 DEF LeakTypeOK, poolVars, linkVars
<1>7. Stage(t)'
  BY <1>1, <1>2, <1>4, <1>5 DEF Stage, poolVars, Freeing
<1>8. Charge(t)' \subseteq Charge(t)
  BY <1>1, <1>4 DEF Charge, Freeing
<1>9. \A l \in Lists : cs[l] = t => l = list[t]
  BY <1>1, LeakAssumption DEF ControlInv, Inside
<1> QED
  BY <1>1, <1>4, <1>5, <1>6, <1>7, <1>8, <1>9, ControlKept DEF Inside, poolVars

\* Inside the section of a list of logs.
LEMMA SectionKept ==
  ASSUME LeakTypeOK, ControlInv, NEW t \in Threads, Others(t), UNCHANGED <<cs, inUse, holders>>,
         pc[t] \in Freeing \cap Inside, pc'[t] \in Freeing \cap Inside, list'[t] = list[t]
  PROVE  ControlInv'
<1>1. Stage(t) /\ pc[t] \in Freeing /\ pc[t] \in Inside
  BY DEF ControlInv
<1>2. Stage(t)'
  BY <1>1 DEF Stage, Freeing, Inside
<1>3. Charge(t)' = Charge(t)
  BY <1>1 DEF Charge
<1>4. \A l \in Lists : cs'[l] = t => pc'[t] \in Inside /\ list'[t] = l
  BY LeakAssumption DEF ControlInv
<1> QED
  BY <1>2, <1>3, <1>4, ControlKept

LEMMA DrainRemoveControl ==
  ASSUME LeakTypeOK, ControlInv, NEW t \in Threads, DrainRemove(t)
  PROVE  LeakTypeOK' /\ ControlInv'
<1>1. /\ pc[t] = "loop" /\ elem[t] # NULL /\ UnlinkPrev(list[t], elem[t])
      /\ next' = [next EXCEPT ![t] = pNext[elem[t]]] /\ Goto(t, "unlink")
      /\ UNCHANGED <<pTail, size, cs, pPrev, poolVars, list, elem>>
  BY DEF DrainRemove
<1>2. list[t] \in Lists /\ elem[t] \in Nodes
  BY <1>1, StageIs DEF LeakTypeOK, Freeing
<1>3. next' \in [Threads -> Nodes \cup {NULL}] /\ \A u \in Threads \ {t} : next'[u] = next[u]
  BY <1>1, <1>2 DEF LeakTypeOK
<1>4. pc'[t] = "unlink" /\ Others(t) /\ pc' \in [Threads -> {"idle", "push", "remove"} \cup Inside \cup Freeing]
  BY <1>1, <1>3, GotoIs DEF Others, Inside
<1>5. pHead' \in [Lists -> Nodes \cup {NULL}] /\ pNext' \in [Nodes -> Nodes \cup {NULL}]
  BY <1>1, <1>2, UnlinkPrevTyped
<1>6. LeakTypeOK'
  BY <1>1, <1>3, <1>4, <1>5 DEF LeakTypeOK, poolVars
<1> QED
  BY <1>1, <1>4, <1>6, SectionKept DEF Freeing, Inside, poolVars

LEMMA DrainUnlinkControl ==
  ASSUME LeakTypeOK, ControlInv, NEW t \in Threads, elem[t] # NULL, DrainUnlink(t)
  PROVE  LeakTypeOK' /\ ControlInv'
<1>1. /\ pc[t] = "unlink" /\ UnlinkNext(list[t], elem[t]) /\ Goto(t, "freeLog")
      /\ UNCHANGED <<pHead, cs, poolVars, list, elem, next>>
  BY DEF DrainUnlink
<1>2. list[t] \in Lists /\ elem[t] \in Nodes
  BY <1>1, StageIs DEF LeakTypeOK, Freeing
<1>3. pc'[t] = "freeLog" /\ Others(t) /\ pc' \in [Threads -> {"idle", "push", "remove"} \cup Inside \cup Freeing]
  BY <1>1, GotoIs DEF Others, Inside
<1>4. /\ pTail' \in [Lists -> Nodes \cup {NULL}] /\ size' \in [Lists -> Int]
      /\ pNext' \in [Nodes -> Nodes \cup {NULL}] /\ pPrev' \in [Nodes -> Nodes \cup {NULL}]
  BY <1>1, <1>2, UnlinkNextTyped
<1>5. LeakTypeOK'
  BY <1>1, <1>3, <1>4 DEF LeakTypeOK, poolVars
<1> QED
  BY <1>1, <1>3, <1>5, SectionKept DEF Freeing, Inside, poolVars

LEMMA FreeLogControl ==
  ASSUME LeakTypeOK, ControlInv, NEW t \in Threads, FreeLog(t)
  PROVE  LeakTypeOK' /\ ControlInv'
<1>1. /\ pc[t] = "freeLog" /\ elem[t] \in logsInUse /\ logsInUse' = logsInUse \ {elem[t]}
      /\ elem' = [elem EXCEPT ![t] = next[t]] /\ next' = [next EXCEPT ![t] = NULL] /\ Goto(t, "loop")
      /\ UNCHANGED <<listVars, linkVars, inUse, holders, list>>
  BY DEF FreeLog, Log!Free
<1>2. /\ elem' \in [Threads -> Nodes \cup {NULL}] /\ next' \in [Threads -> Nodes \cup {NULL}]
      /\ \A u \in Threads \ {t} : elem'[u] = elem[u] /\ next'[u] = next[u]
  BY <1>1 DEF LeakTypeOK
<1>3. pc'[t] = "loop" /\ Others(t) /\ pc' \in [Threads -> {"idle", "push", "remove"} \cup Inside \cup Freeing]
  BY <1>1, <1>2, GotoIs DEF Others, Inside
<1>4. LeakTypeOK'
  BY <1>1, <1>2, <1>3 DEF LeakTypeOK, listVars, linkVars
<1> QED
  BY <1>1, <1>3, <1>4, SectionKept DEF Freeing, Inside, listVars

LEMMA EndDrainControl ==
  ASSUME LeakTypeOK, ControlInv, NEW t \in Threads, EndDrain(t)
  PROVE  LeakTypeOK' /\ ControlInv'
<1>1. /\ pc[t] = "loop" /\ elem[t] = NULL /\ Leave(list[t]) /\ Work(t, "free", list[t], NULL)
      /\ UNCHANGED <<pHead, pTail, size, linkVars, poolVars>>
  BY DEF EndDrain
<1>2. list[t] \in Lists /\ cs[list[t]] = t /\ Stage(t)
  BY <1>1, StageIs DEF ControlInv, Inside
<1>3. /\ pc'[t] = "free" /\ list'[t] = list[t] /\ Others(t)
      /\ pc' \in [Threads -> {"idle", "push", "remove"} \cup Inside \cup Freeing]
      /\ list' \in [Threads -> Lists \cup {NULL}]
      /\ elem' \in [Threads -> Nodes \cup {NULL}] /\ next' \in [Threads -> Nodes \cup {NULL}]
  BY <1>1, <1>2, WorkIs DEF Freeing
<1>4. /\ cs'[list[t]] = NULL /\ \A m \in Lists \ {list[t]} : cs'[m] = cs[m]
      /\ cs' \in [Lists -> Threads \cup {NULL}]
  BY <1>1, <1>2, LeaveIs
<1>5. LeakTypeOK'
  BY <1>1, <1>3, <1>4 DEF LeakTypeOK, poolVars, linkVars
<1>6. Stage(t)'
  BY <1>1, <1>2, <1>3 DEF Stage, Freeing, Inside, poolVars
<1>7. Charge(t)' = Charge(t)
  BY <1>1, <1>3 DEF Charge, Freeing
<1>8. \A l \in Lists : cs[l] = t => l = list[t]
  BY <1>1, LeakAssumption DEF ControlInv
<1> QED
  BY <1>1, <1>2, <1>3, <1>4, <1>5, <1>6, <1>7, <1>8, LeakAssumption, ControlKept DEF poolVars

-------------------------------------------------------------------------------
\* Sequences, and what push_back and remove make of a list of elements of N.
Longer(s, n)  == Append(s, n)
Without(s, k) == [i \in 1 .. Len(s) - 1 |-> IF i < k THEN s[i] ELSE s[i + 1]]

\* A sequence with one element more at its end, and without its k-th.
LEMMA AppendIs ==
  ASSUME NEW N, NEW s \in Seq(N), NEW n \in N
  PROVE  \E r : /\ r = Append(s, n) /\ r \in Seq(N) /\ Len(r) = Len(s) + 1 /\ Len(s) \in Nat
                /\ r[Len(s) + 1] = n /\ \A i \in 1 .. Len(s) : r[i] = s[i]
<1>1. PICK m \in Nat : m = Len(s)
  OBVIOUS
<1>2. PICK r : r = Append(s, n)
  OBVIOUS
<1>3. r \in Seq(N) /\ Len(r) = m + 1
  BY <1>1, <1>2
<1>4. r[m + 1] = n
  BY <1>1, <1>2
<1>5. \A i \in 1 .. m : r[i] = s[i]
  BY <1>1, <1>2
<1> QED
  BY <1>1, <1>2, <1>3, <1>4, <1>5

LEMMA AppendRan ==
  ASSUME NEW N, NEW s \in Seq(N), NEW n \in N
  PROVE  Ran(Append(s, n)) = Ran(s) \cup {n}
<1>1. PICK r : /\ r = Append(s, n) /\ r \in Seq(N) /\ Len(r) = Len(s) + 1 /\ Len(s) \in Nat
               /\ r[Len(s) + 1] = n /\ \A i \in 1 .. Len(s) : r[i] = s[i]
  BY AppendIs
<1>2. PICK m \in Nat : m = Len(s)
  BY <1>1
<1>3. ASSUME NEW x \in Ran(r) PROVE x \in Ran(s) \cup {n}
  <2>1. PICK i \in 1 .. m + 1 : x = r[i]
    BY <1>1, <1>2, <1>3 DEF Ran
  <2>2. CASE i = m + 1
    BY <1>1, <1>2, <2>1, <2>2
  <2>3. CASE i # m + 1
    <3>1. i \in 1 .. m
      BY <2>3
    <3> QED
      BY <1>1, <1>2, <2>1, <3>1 DEF Ran
  <2> QED
    BY <2>2, <2>3
<1>4. ASSUME NEW x \in Ran(s) \cup {n} PROVE x \in Ran(r)
  <2>1. CASE x = n
    <3>1. m + 1 \in 1 .. m + 1
      BY <1>2
    <3> QED
      BY <1>1, <1>2, <2>1, <3>1 DEF Ran
  <2>2. CASE x # n
    <3>1. PICK i \in 1 .. m : x = s[i]
      BY <1>2, <1>4, <2>2 DEF Ran
    <3>2. i \in 1 .. m + 1 /\ r[i] = x
      BY <1>1, <1>2, <3>1
    <3> QED
      BY <1>1, <1>2, <3>2 DEF Ran
  <2> QED
    BY <2>1, <2>2
<1> QED
  BY <1>1, <1>3, <1>4

LEMMA WithoutIs ==
  ASSUME NEW N, NEW s \in Seq(N), NEW k \in 1 .. Len(s)
  PROVE  \E r : /\ r = Without(s, k) /\ r \in Seq(N) /\ Len(r) = Len(s) - 1 /\ Len(s) \in Nat \ {0}
                /\ \A i \in 1 .. Len(s) - 1 : r[i] = IF i < k THEN s[i] ELSE s[i + 1]
<1>1. PICK m \in Nat \ {0} : m = Len(s)
  OBVIOUS
<1>2. PICK r : r = [i \in 1 .. m - 1 |-> IF i < k THEN s[i] ELSE s[i + 1]]
  OBVIOUS
<1>3. ASSUME NEW i \in 1 .. m - 1 PROVE r[i] \in N
  <2>1. i \in 1 .. m /\ i + 1 \in 1 .. m
    BY <1>1
  <2> QED
    BY <1>1, <1>2, <2>1
<1>4. r \in [1 .. m - 1 -> N] /\ m - 1 \in Nat
  BY <1>2, <1>3
<1>5. r \in Seq(N) /\ Len(r) = m - 1
  BY <1>4
<1>6. r = Without(s, k)
  BY <1>1, <1>2 DEF Without
<1> QED
  BY <1>1, <1>2, <1>5, <1>6

LEMMA WithoutRan ==
  ASSUME NEW N, NEW s \in Seq(N), NEW k \in 1 .. Len(s),
         \A i, j \in 1 .. Len(s) : s[i] = s[j] => i = j
  PROVE  Ran(Without(s, k)) = Ran(s) \ {s[k]}
<1>1. PICK r : /\ r = Without(s, k) /\ r \in Seq(N) /\ Len(r) = Len(s) - 1 /\ Len(s) \in Nat \ {0}
               /\ \A i \in 1 .. Len(s) - 1 : r[i] = IF i < k THEN s[i] ELSE s[i + 1]
  BY WithoutIs
<1>2. PICK m \in Nat \ {0} : m = Len(s)
  BY <1>1
<1>3. ASSUME NEW x \in Ran(r) PROVE x \in Ran(s) \ {s[k]}
  <2>1. PICK i \in 1 .. m - 1 : x = r[i]
    BY <1>1, <1>2, <1>3 DEF Ran
  <2>2. PICK j \in 1 .. m : x = s[j] /\ j # k
    <3>1. CASE i < k
      <4>1. i \in 1 .. m /\ i # k /\ x = s[i]
        BY <1>1, <1>2, <2>1, <3>1
      <4> QED
        BY <4>1
    <3>2. CASE ~ (i < k)
      <4>1. i + 1 \in 1 .. m /\ i + 1 # k /\ x = s[i + 1]
        BY <1>1, <1>2, <2>1, <3>2
      <4> QED
        BY <4>1
    <3> QED
      BY <3>1, <3>2
  <2> QED
    BY <1>2, <2>2 DEF Ran
<1>4. ASSUME NEW x \in Ran(s) \ {s[k]} PROVE x \in Ran(r)
  <2>1. PICK j \in 1 .. m : x = s[j] /\ j # k
    BY <1>2, <1>4 DEF Ran
  <2>2. CASE j < k
    <3>1. j \in 1 .. m - 1 /\ r[j] = x
      BY <1>1, <1>2, <2>1, <2>2
    <3> QED
      BY <1>1, <1>2, <3>1 DEF Ran
  <2>3. CASE ~ (j < k)
    <3>1. j - 1 \in 1 .. m - 1 /\ ~ (j - 1 < k) /\ j - 1 + 1 = j
      BY <1>2, <2>1, <2>3
    <3>2. r[j - 1] = x
      BY <1>1, <1>2, <2>1, <3>1
    <3> QED
      BY <1>1, <1>2, <3>1, <3>2 DEF Ran
  <2> QED
    BY <2>2, <2>3
<1> QED
  BY <1>1, <1>3, <1>4

\* Without a removal the successor is the next element.
LEMMA SuccIs ==
  ASSUME NEW N, NULL \notin N, NEW s \in Seq(N), NEW i \in 0 .. Len(s)
  PROVE  Succ(s, i, NULL) = At(s, i + 1)
<1>1. PICK m \in Nat : m = Len(s)
  OBVIOUS
<1>2. i + 1 \in 1 .. m => s[i + 1] \in N
  BY <1>1
<1>3. i + 1 \notin 1 .. m => i + 2 \notin 1 .. m
  BY <1>1
<1> QED
  BY <1>1, <1>2, <1>3 DEF Succ, At

\* A step that leaves the links of the elements leaves the chain.
LEMMA ChainFrame ==
  ASSUME NEW N, NEW s \in Seq(N), NEW h, NEW tl, NEW c, NEW nx, NEW pv, NEW pu, NEW x, NEW nx2, NEW pv2,
         Chain(s, h, tl, c, nx, pv, pu, x), \A n \in Ran(s) : nx2[n] = nx[n] /\ pv2[n] = pv[n]
  PROVE  Chain(s, h, tl, c, nx2, pv2, pu, x)
BY DEF Chain, Ran

Place(s, k, n) == k \in 1 .. Len(s) /\ n = s[k]

\* What push_back does to the links of an element and the tail, and remove to those of the
\* neighbours of its victim.
Joined(h, tl, nx, pv, h2, nx2, pv2, n) ==
    IF h = NULL
    THEN h2 = n /\ nx2 = [nx EXCEPT ![n] = NULL] /\ pv2 = [pv EXCEPT ![n] = NULL]
    ELSE h2 = h /\ nx2 = [nx EXCEPT ![tl] = n] /\ pv2 = [pv EXCEPT ![n] = tl]

Passed(h, nx, pv, h2, nx2, n) ==
    IF pv[n] # NULL THEN nx2 = [nx EXCEPT ![pv[n]] = nx[n]] /\ h2 = h
                    ELSE h2 = nx[n] /\ nx2 = nx

Closed(tl, nx, pv, tl2, nx2, pv2, n) ==
    /\ nx2 = [nx EXCEPT ![n] = NULL]
    /\ IF nx[n] # NULL THEN pv2 = [pv EXCEPT ![nx[n]] = pv[n], ![n] = NULL] /\ tl2 = tl
                       ELSE tl2 = pv[n] /\ pv2 = [pv EXCEPT ![n] = NULL]

\* Links that stay as they are outside X.
SameBut(X, link, link2) == \A y \in Nodes : y \notin X => link2[y] = link[y]

\* Each element is linked to its neighbours.
Linked(s, nx, pv) == \A i \in 1 .. Len(s) : nx[s[i]] = At(s, i + 1) /\ pv[s[i]] = At(s, i - 1)

\* In a chain that nobody changes every element is linked to both neighbours.
LEMMA ChainLinks ==
  ASSUME NULL \notin Nodes, NEW s \in Seq(Nodes), NEW h, NEW tl, NEW c, NEW nx, NEW pv,
         Chain(s, h, tl, c, nx, pv, FALSE, NULL)
  PROVE  /\ h = At(s, 1) /\ tl = At(s, Len(s)) /\ c = Len(s)
         /\ Linked(s, nx, pv)
<1>1. PICK m \in Nat : m = Len(s)
  OBVIOUS
<1> QED
  BY <1>1, SuccIs DEF Chain, Linked

\* LinkLast adds an element that is not the tail yet and not counted.
LEMMA ChainPush ==
  ASSUME NULL \notin Nodes, NEW s \in Seq(Nodes), NEW h, NEW tl, NEW c, NEW h2, NEW tl2,
         NEW nx \in [Nodes -> Nodes \cup {NULL}], NEW pv \in [Nodes -> Nodes \cup {NULL}], NEW nx2, NEW pv2,
         Chain(s, h, tl, c, nx, pv, FALSE, NULL), NEW n \in Nodes, n \notin Ran(s), nx[n] = NULL,
         Joined(h, tl, nx, pv, h2, nx2, pv2, n)
  PROVE  /\ Chain(Longer(s, n), h2, tl2, c, nx2, pv2, TRUE, NULL)
         /\ SameBut(Ran(s) \cup {n}, nx, nx2) /\ SameBut(Ran(s) \cup {n}, pv, pv2)
<1>0. IF h = NULL
      THEN h2 = n /\ nx2 = [nx EXCEPT ![n] = NULL] /\ pv2 = [pv EXCEPT ![n] = NULL]
      ELSE h2 = h /\ nx2 = [nx EXCEPT ![tl] = n] /\ pv2 = [pv EXCEPT ![n] = tl]
  BY DEF Joined
<1>1. PICK r : /\ r = Append(s, n) /\ r \in Seq(Nodes) /\ Len(r) = Len(s) + 1 /\ Len(s) \in Nat
               /\ r[Len(s) + 1] = n /\ \A i \in 1 .. Len(s) : r[i] = s[i]
  BY AppendIs
<1>2. PICK m \in Nat : m = Len(s)
  BY <1>1
<1>3. /\ \A i, j \in 1 .. m : s[i] = s[j] => i = j
      /\ \A i \in 1 .. m : pv[s[i]] = At(s, i - 1)
      /\ h = At(s, 1) /\ \A i \in 1 .. m : nx[s[i]] = At(s, i + 1)
      /\ tl = At(s, m) /\ c = m
  BY <1>2, SuccIs DEF Chain
<1>4. \A i \in 1 .. m : s[i] \in Nodes /\ s[i] # n
  BY <1>2 DEF Ran
<1>5. h = NULL <=> m = 0
  BY <1>2, <1>3, <1>4 DEF At
<1>6. m # 0 => tl = s[m] /\ tl \in Nodes /\ tl # n /\ tl \in Ran(s)
  BY <1>2, <1>3, <1>4 DEF At, Ran
<1>7. \A i \in 1 .. m : At(r, i) = s[i]
  BY <1>1, <1>2 DEF At
<1>8. At(r, 0) = NULL /\ At(r, m + 1) = n /\ At(r, m + 2) = NULL
  BY <1>1, <1>2 DEF At
<1>9. \A i, j \in 1 .. m + 1 : r[i] = r[j] => i = j
  <2> SUFFICES ASSUME NEW i \in 1 .. m + 1, NEW j \in 1 .. m + 1, r[i] = r[j] PROVE i = j
    OBVIOUS
  <2>1. CASE i = m + 1 /\ j = m + 1
    BY <2>1
  <2>2. CASE i = m + 1 /\ j # m + 1
    <3>1. j \in 1 .. m
      BY <2>2
    <3> QED
      BY <1>1, <1>2, <1>4, <2>2, <3>1
  <2>3. CASE i # m + 1 /\ j = m + 1
    <3>1. i \in 1 .. m
      BY <2>3
    <3> QED
      BY <1>1, <1>2, <1>4, <2>3, <3>1
  <2>4. CASE i # m + 1 /\ j # m + 1
    <3>1. i \in 1 .. m /\ j \in 1 .. m
      BY <2>4
    <3> QED
      BY <1>1, <1>2, <1>3, <3>1
  <2> QED
    BY <2>1, <2>2, <2>3, <2>4
<1>10. h2 = At(r, 1)
  <2>1. CASE m = 0
    BY <1>0, <1>5, <1>8, <2>1
  <2>2. CASE m # 0
    <3>1. 1 \in 1 .. m
      BY <2>2
    <3> QED
      BY <1>0, <1>2, <1>3, <1>5, <1>7, <2>2, <3>1 DEF At
  <2> QED
    BY <2>1, <2>2
<1>11. nx2[n] = NULL /\ pv2[n] = At(r, m)
  <2>1. CASE m = 0
    BY <1>0, <1>5, <1>8, <2>1
  <2>2. CASE m # 0
    <3>1. m \in 1 .. m
      BY <2>2
    <3> QED
      BY <1>0, <1>5, <1>6, <1>7, <2>2, <3>1
  <2> QED
    BY <2>1, <2>2
<1>12. ASSUME NEW i \in 1 .. m PROVE nx2[s[i]] = At(r, i + 1) /\ pv2[s[i]] = At(r, i - 1)
  <2>1. h # NULL /\ h2 = h /\ nx2 = [nx EXCEPT ![tl] = n] /\ pv2 = [pv EXCEPT ![n] = tl]
    BY <1>0, <1>5
  <2>2. pv2[s[i]] = At(s, i - 1)
    BY <1>3, <1>4, <2>1
  <2>3. At(s, i - 1) = At(r, i - 1)
    BY <1>1, <1>2 DEF At
  <2>4. CASE i = m
    BY <1>4, <1>6, <1>8, <2>1, <2>2, <2>3, <2>4
  <2>5. CASE i # m
    <3>1. i + 1 \in 1 .. m /\ m \in 1 .. m
      BY <2>5
    <3>2. s[i] # tl
      BY <1>3, <1>6, <2>5, <3>1
    <3>3. nx2[s[i]] = At(s, i + 1)
      BY <1>3, <1>4, <2>1, <3>2
    <3> QED
      BY <1>2, <1>7, <2>2, <2>3, <3>1, <3>3 DEF At
  <2> QED
    BY <2>4, <2>5
<1>13. ASSUME NEW i \in 1 .. m + 1 PROVE nx2[r[i]] = At(r, i + 1) /\ pv2[r[i]] = At(r, i - 1)
  <2>1. CASE i = m + 1
    BY <1>1, <1>2, <1>8, <1>11, <2>1
  <2>2. CASE i # m + 1
    <3>1. i \in 1 .. m
      BY <2>2
    <3> QED
      BY <1>1, <1>2, <1>12, <3>1
  <2> QED
    BY <2>1, <2>2
<1>14. \A i \in 0 .. m + 1 : Succ(r, i, NULL) = At(r, i + 1)
  BY <1>1, <1>2, SuccIs
<1>15. /\ \A i, j \in 1 .. Len(r) : r[i] = r[j] => i = j
       /\ \A i \in 1 .. Len(r) : pv2[r[i]] = At(r, i - 1)
       /\ h2 = Succ(r, 0, NULL) /\ \A i \in 1 .. Len(r) : nx2[r[i]] = Succ(r, i, NULL)
       /\ r # <<>> /\ c = Len(r) - 1
  BY <1>1, <1>2, <1>3, <1>9, <1>10, <1>13, <1>14
<1>16. ASSUME NEW y \in Nodes, y \notin Ran(s) \cup {n} PROVE nx2[y] = nx[y] /\ pv2[y] = pv[y]
  BY <1>0, <1>5, <1>6, <1>16
<1> QED
  BY <1>1, <1>15, <1>16 DEF Chain, Longer, SameBut

\* The end of push_back: the new element is the tail, and counted.
LEMMA ChainEndPush ==
  ASSUME NULL \notin Nodes, NEW s \in Seq(Nodes), NEW h, NEW tl, NEW c \in Int,
         NEW nx, NEW pv,
         Chain(s, h, tl, c, nx, pv, TRUE, NULL), NEW n, n = At(s, Len(s))
  PROVE  n \in Ran(s) /\ nx[n] = NULL /\ Chain(s, h, n, c + 1, nx, pv, FALSE, NULL)
<1>1. PICK m \in Nat : m = Len(s)
  OBVIOUS
<1>2. m # 0 /\ c = m - 1 /\ m \in 1 .. m /\ n = s[m] /\ n \in Nodes
  BY <1>1 DEF Chain, At
<1>3. nx[n] = NULL
  BY <1>1, <1>2, SuccIs DEF Chain, At
<1> QED
  BY <1>1, <1>2, <1>3 DEF Chain, Ran

\* UnlinkPrev makes the list pass over the element.
LEMMA ChainUnlinkPrev ==
  ASSUME NULL \notin Nodes, NEW s \in Seq(Nodes), NEW h, NEW tl, NEW c, NEW h2, NEW k,
         NEW nx \in [Nodes -> Nodes \cup {NULL}], NEW pv, NEW nx2, NEW n, Place(s, k, n),
         Chain(s, h, tl, c, nx, pv, FALSE, NULL),
         Passed(h, nx, pv, h2, nx2, n)
  PROVE  Chain(s, h2, tl, c, nx2, pv, FALSE, n) /\ SameBut(Ran(s), nx, nx2)
<1>0. IF pv[n] # NULL THEN nx2 = [nx EXCEPT ![pv[n]] = nx[n]] /\ h2 = h
                      ELSE h2 = nx[n] /\ nx2 = nx
  BY DEF Passed
<1>1. PICK m \in Nat : m = Len(s) /\ k \in 1 .. m /\ n = s[k]
  BY DEF Place
<1>2. /\ \A i, j \in 1 .. m : s[i] = s[j] => i = j
      /\ \A i \in 1 .. m : pv[s[i]] = At(s, i - 1)
      /\ h = At(s, 1) /\ \A i \in 1 .. m : nx[s[i]] = At(s, i + 1)
      /\ tl = At(s, m) /\ c = m
  BY <1>1, SuccIs DEF Chain
<1>3. \A i \in 1 .. m : s[i] \in Nodes /\ At(s, i) = s[i]
  BY <1>1 DEF At
<1>4. \A i \in Int : At(s, i) = n <=> i = k
  BY <1>1, <1>2, <1>3 DEF At
<1>5. \A i \in 0 .. m : Succ(s, i, n) = IF i + 1 = k THEN At(s, k + 1) ELSE At(s, i + 1)
  BY <1>1, <1>4 DEF Succ
<1>6. pv[n] = At(s, k - 1) /\ nx[n] = At(s, k + 1)
  BY <1>1, <1>2
<1>7. CASE k = 1
  <2>1. pv[n] = NULL
    BY <1>6, <1>7 DEF At
  <2>2. h2 = At(s, k + 1) /\ nx2 = nx
    BY <1>0, <1>6, <2>1
  <2>3. h2 = Succ(s, 0, n)
    BY <1>5, <1>7, <2>2
  <2>4. \A i \in 1 .. m : nx2[s[i]] = Succ(s, i, n)
    BY <1>2, <1>5, <1>7, <2>2
  <2> QED
    BY <1>1, <1>2, <1>6, <2>2, <2>3, <2>4 DEF Chain, SameBut
<1>8. CASE k # 1
  <2>1. k - 1 \in 1 .. m
    BY <1>1, <1>8
  <2>2. pv[n] = s[k - 1] /\ pv[n] \in Nodes /\ pv[n] # NULL /\ pv[n] \in Ran(s)
    BY <1>1, <1>3, <1>6, <2>1 DEF Ran
  <2>3. nx2 = [nx EXCEPT ![s[k - 1]] = At(s, k + 1)] /\ h2 = h
    BY <1>0, <1>6, <2>2
  <2>4. h2 = Succ(s, 0, n)
    BY <1>1, <1>2, <1>5, <1>8, <2>3
  <2>5. ASSUME NEW i \in 1 .. m PROVE nx2[s[i]] = Succ(s, i, n)
    <3>1. CASE i = k - 1
      BY <1>1, <1>3, <1>5, <2>1, <2>3, <3>1
    <3>2. CASE i # k - 1
      <4>1. s[i] # s[k - 1]
        BY <1>2, <2>1, <3>2
      <4>2. nx2[s[i]] = At(s, i + 1)
        BY <1>2, <1>3, <2>3, <4>1
      <4> QED
        BY <1>1, <1>5, <3>2, <4>2
    <3> QED
      BY <3>1, <3>2
  <2> QED
    BY <1>1, <1>2, <1>6, <2>2, <2>3, <2>4, <2>5 DEF Chain, SameBut
<1> QED
  BY <1>7, <1>8

\* UnlinkNext takes it out.
LEMMA ChainUnlinkNext ==
  ASSUME NULL \notin Nodes, NEW s \in Seq(Nodes), NEW h, NEW tl, NEW c \in Int, NEW tl2, NEW k,
         NEW nx \in [Nodes -> Nodes \cup {NULL}], NEW pv \in [Nodes -> Nodes \cup {NULL}], NEW nx2, NEW pv2,
         NEW n, Place(s, k, n), Chain(s, h, tl, c, nx, pv, FALSE, n), Closed(tl, nx, pv, tl2, nx2, pv2, n)
  PROVE  /\ Chain(Without(s, k), h, tl2, c - 1, nx2, pv2, FALSE, NULL)
         /\ SameBut(Ran(s), pv, pv2) /\ SameBut({n}, nx, nx2)
<1>0. /\ nx2 = [nx EXCEPT ![n] = NULL]
      /\ IF nx[n] # NULL THEN pv2 = [pv EXCEPT ![nx[n]] = pv[n], ![n] = NULL] /\ tl2 = tl
                         ELSE tl2 = pv[n] /\ pv2 = [pv EXCEPT ![n] = NULL]
  BY DEF Closed
<1>1. PICK r : /\ r = Without(s, k) /\ r \in Seq(Nodes) /\ Len(r) = Len(s) - 1 /\ Len(s) \in Nat \ {0}
               /\ \A i \in 1 .. Len(s) - 1 : r[i] = IF i < k THEN s[i] ELSE s[i + 1]
  BY WithoutIs DEF Place
<1>2. PICK m \in Nat \ {0} : m = Len(s) /\ k \in 1 .. m /\ k \in Int /\ n = s[k]
  BY <1>1 DEF Place
<1>3. /\ \A i, j \in 1 .. m : s[i] = s[j] => i = j
      /\ \A i \in 1 .. m : pv[s[i]] = At(s, i - 1)
      /\ h = Succ(s, 0, n) /\ \A i \in 1 .. m : nx[s[i]] = Succ(s, i, n)
      /\ tl = At(s, m) /\ c = m
  BY <1>2 DEF Chain
<1>4. \A i \in 1 .. m : s[i] \in Nodes /\ At(s, i) = s[i]
  BY <1>2 DEF At
<1>5. \A i \in Int : At(s, i) = n <=> i = k
  BY <1>2, <1>3, <1>4 DEF At
<1>6. \A i \in 0 .. m : Succ(s, i, n) = IF i + 1 = k THEN At(s, k + 1) ELSE At(s, i + 1)
  BY <1>2, <1>5 DEF Succ
<1>7. pv[n] = At(s, k - 1) /\ nx[n] = At(s, k + 1) /\ n \in Nodes
  BY <1>2, <1>3, <1>4, <1>6
<1>8. ASSUME NEW i \in Int PROVE At(r, i) = IF i < k THEN At(s, i) ELSE At(s, i + 1)
  <2>1. At(r, i) = IF i \in 1 .. m - 1 THEN r[i] ELSE NULL
    BY <1>1, <1>2 DEF At
  <2>2. CASE i < k
    <3>1. i \in 1 .. m - 1 <=> i \in 1 .. m
      BY <1>2, <2>2
    <3>2. i \in 1 .. m - 1 => r[i] = s[i]
      BY <1>1, <1>2, <2>2
    <3> QED
      BY <1>2, <2>1, <2>2, <3>1, <3>2 DEF At
  <2>3. CASE ~ (i < k)
    <3>1. i \in 1 .. m - 1 <=> i + 1 \in 1 .. m
      BY <1>2, <2>3
    <3>2. i \in 1 .. m - 1 => r[i] = s[i + 1]
      BY <1>1, <1>2, <2>3
    <3> QED
      BY <1>2, <2>1, <2>3, <3>1, <3>2 DEF At
  <2> QED
    BY <2>2, <2>3
<1>10. \A y \in Nodes \ {n} : nx2[y] = nx[y]
  BY <1>0
<1>11. \A y \in Nodes : y # n /\ (nx[n] # NULL => y # nx[n]) => pv2[y] = pv[y]
  BY <1>0, <1>7
<1>12. nx[n] # NULL => nx[n] \in Nodes /\ nx[n] # n /\ pv2[nx[n]] = At(s, k - 1)
  <2>1. nx[n] # n
    BY <1>2, <1>5, <1>7
  <2> QED
    BY <1>0, <1>7, <2>1
<1>13. ASSUME NEW i \in 1 .. m, i # k
       PROVE  /\ nx2[s[i]] = IF i + 1 = k THEN At(s, k + 1) ELSE At(s, i + 1)
              /\ pv2[s[i]] = IF i = k + 1 THEN At(s, k - 1) ELSE At(s, i - 1)
  <2>1. s[i] \in Nodes /\ s[i] # n
    BY <1>2, <1>3, <1>4, <1>13
  <2>2. nx2[s[i]] = Succ(s, i, n)
    BY <1>3, <1>10, <2>1
  <2>3. CASE i = k + 1
    <3>1. nx[n] = s[i] /\ nx[n] # NULL
      BY <1>4, <1>7, <2>1, <2>3
    <3> QED
      BY <1>6, <1>12, <2>2, <2>3, <3>1
  <2>4. CASE i # k + 1
    <3>1. nx[n] # NULL => s[i] # nx[n]
      BY <1>2, <1>3, <1>7, <2>4 DEF At
    <3>2. pv2[s[i]] = pv[s[i]]
      BY <1>11, <2>1, <3>1
    <3> QED
      BY <1>3, <1>6, <2>2, <2>4, <3>2
  <2> QED
    BY <2>3, <2>4
<1>14. ASSUME NEW i \in 1 .. m - 1 PROVE nx2[r[i]] = At(r, i + 1) /\ pv2[r[i]] = At(r, i - 1)
  <2>1. CASE i < k
    <3>1. i \in 1 .. m /\ i # k /\ i # k + 1 /\ i + 1 \in Int /\ i - 1 \in Int
      BY <1>2, <2>1
    <3>4. r[i] = s[i]
      BY <1>1, <1>2, <2>1
    <3>5. At(r, i + 1) = IF i + 1 < k THEN At(s, i + 1) ELSE At(s, i + 1 + 1)
      BY <1>8, <3>1
    <3>2. At(r, i + 1) = IF i + 1 = k THEN At(s, k + 1) ELSE At(s, i + 1)
      BY <1>2, <2>1, <3>5
    <3>3. At(r, i - 1) = At(s, i - 1)
      BY <1>2, <1>8, <2>1
    <3> QED
      BY <1>13, <3>1, <3>2, <3>3, <3>4
  <2>2. CASE ~ (i < k)
    <3>1. PICK j \in 1 .. m : j = i + 1 /\ j # k /\ r[i] = s[j] /\ j + 1 # k
      BY <1>1, <1>2, <2>2
    <3>2. At(r, i + 1) = At(s, j + 1)
      BY <1>2, <1>8, <2>2, <3>1
    <3>5. i - 1 \in Int
      OBVIOUS
    <3>4. At(r, i - 1) = IF i - 1 < k THEN At(s, i - 1) ELSE At(s, i - 1 + 1)
      BY <1>8, <3>5
    <3>3. At(r, i - 1) = IF j = k + 1 THEN At(s, k - 1) ELSE At(s, j - 1)
      BY <1>2, <2>2, <3>1, <3>4
    <3> QED
      BY <1>13, <3>1, <3>2, <3>3
  <2> QED
    BY <2>1, <2>2
<1>15. h = At(r, 1)
  <2>1. h = IF 1 = k THEN At(s, 2) ELSE At(s, 1)
    BY <1>2, <1>3, <1>6
  <2>2. At(r, 1) = IF 1 < k THEN At(s, 1) ELSE At(s, 2)
    BY <1>8
  <2> QED
    BY <1>2, <2>1, <2>2
<1>16. tl2 = At(r, m - 1)
  <2>1. CASE k = m
    <3>1. At(s, k + 1) = NULL
      BY <1>2, <2>1 DEF At
    <3>2. tl2 = At(s, k - 1)
      BY <1>0, <1>7, <3>1
    <3> QED
      BY <1>2, <1>8, <2>1, <3>2
  <2>2. CASE k # m
    <3>1. k + 1 \in 1 .. m
      BY <1>2, <2>2
    <3>2. nx[n] # NULL
      BY <1>4, <1>7, <3>1
    <3>3. tl2 = At(s, m)
      BY <1>0, <1>3, <3>2
    <3>4. ~ (m - 1 < k)
      BY <1>2, <2>2
    <3> QED
      BY <1>2, <1>8, <3>3, <3>4
  <2> QED
    BY <2>1, <2>2
<1>17. \A i, j \in 1 .. m - 1 : r[i] = r[j] => i = j
  <2> SUFFICES ASSUME NEW i \in 1 .. m - 1, NEW j \in 1 .. m - 1, r[i] = r[j] PROVE i = j
    OBVIOUS
  <2>1. PICK a \in 1 .. m : r[i] = s[a] /\ a = IF i < k THEN i ELSE i + 1
    BY <1>1, <1>2
  <2>2. PICK b \in 1 .. m : r[j] = s[b] /\ b = IF j < k THEN j ELSE j + 1
    BY <1>1, <1>2
  <2>3. a = b
    BY <1>3, <2>1, <2>2
  <2> QED
    BY <1>2, <2>1, <2>2, <2>3
<1>18. \A i \in 0 .. m - 1 : Succ(r, i, NULL) = At(r, i + 1)
  BY <1>1, <1>2, SuccIs
<1>19. /\ \A i, j \in 1 .. Len(r) : r[i] = r[j] => i = j
       /\ \A i \in 1 .. Len(r) : pv2[r[i]] = At(r, i - 1)
       /\ h = Succ(r, 0, NULL) /\ \A i \in 1 .. Len(r) : nx2[r[i]] = Succ(r, i, NULL)
       /\ tl2 = At(r, Len(r)) /\ c - 1 = Len(r)
  BY <1>1, <1>2, <1>3, <1>14, <1>15, <1>16, <1>17, <1>18
<1>20. ASSUME NEW y \in Nodes, y \notin Ran(s) PROVE pv2[y] = pv[y]
  <2>1. y # n
    BY <1>2, <1>20 DEF Ran
  <2>2. nx[n] # NULL => y # nx[n]
    BY <1>2, <1>7, <1>20 DEF Ran, At
  <2> QED
    BY <1>11, <2>1, <2>2
<1> QED
  BY <1>0, <1>1, <1>19, <1>20 DEF Chain, SameBut

-------------------------------------------------------------------------------
\* What Walk meets.
LEMMA NodesFinite == IsFiniteSet(Nodes) /\ Cardinality(Nodes) \in Nat /\ NULL \notin Nodes
BY LeakAssumption, FS_CardinalityType DEF Nodes

\* A list has at most as many elements as there are nodes.
LEMMA ShortList ==
  ASSUME NEW s \in Seq(Nodes), \A i, j \in 1 .. Len(s) : s[i] = s[j] => i = j
  PROVE  /\ Len(s) \in Nat /\ Len(s) <= Cardinality(Nodes)
         /\ IsFiniteSet(Ran(s)) /\ Cardinality(Ran(s)) = Len(s)
<1>1. PICK m \in Nat : m = Len(s)
  OBVIOUS
<1>2. PICK R : R = Ran(s)
  OBVIOUS
<1>3. R \subseteq Nodes /\ (\A i \in 1 .. m : s[i] \in R) /\ \A x \in R : \E i \in 1 .. m : s[i] = x
  BY <1>1, <1>2 DEF Ran
<1>4. Cardinality(R) = m /\ IsFiniteSet(R)
  <2>1. \A i, j \in 1 .. m : s[i] = s[j] => i = j
    BY <1>1
  <2>2. \A i \in 1 .. m : s[i] \in R
    BY <1>3
  <2>3. \A x \in R : \E i \in 1 .. m : s[i] = x
    BY <1>3
  <2> QED
    BY <2>1, <2>2, <2>3, ElementsCounted
<1>5. Cardinality(R) <= Cardinality(Nodes)
  BY <1>3, NodesFinite, FS_Subset
<1> QED
  BY <1>1, <1>2, <1>4, <1>5

Meets(first, link, k, prev) ==
    LET n == IF prev = <<>> THEN first ELSE link[prev[Len(prev)]]
    IN  IF Len(prev) < k - 1 \/ n = NULL THEN prev ELSE Append(prev, n)

Steps(first, link, f) ==
    [k \in 0 .. Cardinality(Nodes) + 1 |-> IF k = 0 THEN <<>> ELSE Meets(first, link, k, f[k - 1])]

\* The first k elements.
Front(s, k) == [i \in 1 .. (IF k <= Len(s) THEN k ELSE Len(s)) |-> s[i]]

LEMMA FrontIs ==
  ASSUME NEW s \in Seq(Nodes), NEW k \in Nat
  PROVE  /\ Front(s, k) \in Seq(Nodes) /\ Len(Front(s, k)) = (IF k <= Len(s) THEN k ELSE Len(s))
         /\ \A i \in 1 .. Len(Front(s, k)) : Front(s, k)[i] = s[i]
<1>1. PICK m \in Nat : m = IF k <= Len(s) THEN k ELSE Len(s)
  OBVIOUS
<1>2. PICK f : f = Front(s, k)
  OBVIOUS
<1>3. f = [i \in 1 .. m |-> s[i]]
  BY <1>1, <1>2 DEF Front
<1>4. \A i \in 1 .. m : s[i] \in Nodes
  BY <1>1
<1>5. f \in [1 .. m -> Nodes]
  BY <1>3, <1>4
<1>6. f \in Seq(Nodes) /\ Len(f) = m
  BY <1>5
<1>7. \A i \in 1 .. m : f[i] = s[i]
  BY <1>3
<1> QED
  BY <1>1, <1>2, <1>6, <1>7

LEMMA SameSequence ==
  ASSUME NEW r \in Seq(Nodes), NEW s \in Seq(Nodes), Len(r) = Len(s), \A i \in 1 .. Len(s) : r[i] = s[i]
  PROVE  r = s
<1>1. PICK m \in Nat : m = Len(s)
  OBVIOUS
<1>2. r = [i \in 1 .. m |-> r[i]] /\ s = [i \in 1 .. m |-> s[i]]
  BY <1>1
<1> QED
  BY <1>1, <1>2

\* One step of the walk meets one element more.
LEMMA FrontMeets ==
  ASSUME NEW s \in Seq(Nodes), NEW first, NEW link, first = At(s, 1),
         \A i \in 1 .. Len(s) : link[s[i]] = At(s, i + 1), NEW k \in Nat \ {0}
  PROVE  Meets(first, link, k, Front(s, k - 1)) = Front(s, k)
<1>1. PICK m \in Nat : m = Len(s)
  OBVIOUS
<1>2. PICK prev : prev = Front(s, k - 1)
  OBVIOUS
<1>3. k - 1 \in Nat
  OBVIOUS
<1>4. /\ prev \in Seq(Nodes) /\ Len(prev) = (IF k - 1 <= m THEN k - 1 ELSE m)
      /\ \A i \in 1 .. Len(prev) : prev[i] = s[i]
  BY <1>1, <1>2, <1>3, FrontIs
<1>5. PICK n : n = IF prev = <<>> THEN first ELSE link[prev[Len(prev)]]
  OBVIOUS
<1>6. Meets(first, link, k, prev) = IF Len(prev) < k - 1 \/ n = NULL THEN prev ELSE Append(prev, n)
  BY <1>5 DEF Meets
<1>7. PICK r : r = Front(s, k)
  OBVIOUS
<1>8. /\ r \in Seq(Nodes) /\ Len(r) = (IF k <= m THEN k ELSE m)
      /\ \A i \in 1 .. Len(r) : r[i] = s[i]
  BY <1>1, <1>7, FrontIs
<1>9. CASE k - 1 > m
  <2>1. Len(prev) = m /\ Len(r) = m /\ Len(prev) < k - 1
    BY <1>1, <1>4, <1>8, <1>9
  <2>2. r = prev
    BY <1>4, <1>8, <2>1, SameSequence
  <2> QED
    BY <1>2, <1>6, <1>7, <2>1, <2>2
<1>10. CASE k - 1 = m
  <2>1. Len(prev) = m /\ Len(r) = m
    BY <1>1, <1>4, <1>8, <1>10
  <2>2. n = NULL
    <3>1. CASE m = 0
      BY <1>1, <1>4, <1>5, <2>1, <3>1 DEF At
    <3>2. CASE m # 0
      <4>1. m \in 1 .. m /\ prev # <<>> /\ prev[m] = s[m]
        BY <1>4, <2>1, <3>2
      <4>2. n = At(s, m + 1)
        BY <1>1, <1>5, <2>1, <4>1
      <4> QED
        BY <1>1, <4>2 DEF At
    <3> QED
      BY <3>1, <3>2
  <2>3. r = prev
    BY <1>4, <1>8, <2>1, SameSequence
  <2> QED
    BY <1>2, <1>6, <1>7, <2>2, <2>3
<1>11. CASE k - 1 < m
  <2>1. Len(prev) = k - 1 /\ Len(r) = k /\ k \in 1 .. m
    BY <1>1, <1>4, <1>8, <1>11
  <2>2. n = s[k]
    <3>1. CASE k = 1
      BY <1>1, <1>4, <1>5, <2>1, <3>1 DEF At
    <3>2. CASE k # 1
      <4>1. k - 1 \in 1 .. k - 1 /\ k - 1 \in 1 .. m /\ prev # <<>>
        BY <2>1, <3>2
      <4>2. prev[k - 1] = s[k - 1]
        BY <1>4, <2>1, <4>1
      <4>3. n = At(s, k - 1 + 1)
        BY <1>1, <1>5, <2>1, <4>1, <4>2
      <4> QED
        BY <1>1, <2>1, <4>3 DEF At
    <3> QED
      BY <3>1, <3>2
  <2>3. n \in Nodes /\ n # NULL
    BY <1>1, <2>1, <2>2, NodesFinite
  <2>4. PICK q : /\ q = Append(prev, n) /\ q \in Seq(Nodes) /\ Len(q) = Len(prev) + 1 /\ Len(prev) \in Nat
                 /\ q[Len(prev) + 1] = n /\ \A i \in 1 .. Len(prev) : q[i] = prev[i]
    BY <1>4, <2>3, AppendIs
  <2>5. Len(q) = k
    BY <2>1, <2>4
  <2>6. ASSUME NEW i \in 1 .. k PROVE q[i] = r[i]
    <3>1. CASE i = k
      BY <1>8, <2>1, <2>2, <2>4, <3>1
    <3>2. CASE i # k
      <4>1. i \in 1 .. k - 1
        BY <3>2
      <4> QED
        BY <1>4, <1>8, <2>1, <2>4, <4>1
    <3> QED
      BY <3>1, <3>2
  <2>7. q = r
    BY <1>8, <2>1, <2>4, <2>5, <2>6, SameSequence
  <2>8. ~ (Len(prev) < k - 1)
    BY <2>1
  <2>9. Meets(first, link, k, prev) = q
    BY <1>6, <2>3, <2>4, <2>8
  <2> QED
    BY <1>2, <1>7, <2>7, <2>9
<1> QED
  BY <1>1, <1>3, <1>9, <1>10, <1>11

\* Any function that does the steps of a walk gives what it meets.
LEMMA WalkUnique ==
  ASSUME NEW first, NEW link, NEW C \in Nat, C = Cardinality(Nodes) + 1,
         NEW g, g = Steps(first, link, g)
  PROVE  Walk(first, link) = g[C]
<1>1. PICK met : met = CHOOSE f : f = Steps(first, link, f)
  OBVIOUS
<1>2. Walk(first, link) = met[C]
  BY <1>1 DEF Walk, Steps, Meets
<1>3. met = Steps(first, link, met)
  BY <1>1
<1>4. \A k \in 0 .. C : /\ met[k] = IF k = 0 THEN <<>> ELSE Meets(first, link, k, met[k - 1])
                        /\ g[k] = IF k = 0 THEN <<>> ELSE Meets(first, link, k, g[k - 1])
  BY <1>3 DEF Steps
<1>5. met[0] = g[0]
  BY <1>4
<1>6. ASSUME NEW k \in 1 .. C, met[k - 1] = g[k - 1] PROVE met[k] = g[k]
  <2>1. k \in 0 .. C /\ k # 0
    OBVIOUS
  <2> QED
    BY <1>4, <1>6, <2>1
<1>7. \A k \in 1 .. C : met[k - 1] = g[k - 1] => met[k] = g[k]
  BY <1>6
<1>8. \A k \in 0 .. C : met[k] = g[k]
  BY <1>5, <1>7, SameByInduction
<1>9. C \in 0 .. C
  OBVIOUS
<1> QED
  BY <1>2, <1>8, <1>9

\* A walk along a list without repetition meets its elements, in their order.
LEMMA WalkIs ==
  ASSUME NEW s \in Seq(Nodes), \A i, j \in 1 .. Len(s) : s[i] = s[j] => i = j,
         NEW first, NEW link, first = At(s, 1), \A i \in 1 .. Len(s) : link[s[i]] = At(s, i + 1)
  PROVE  Walk(first, link) = s
<1>1. PICK C \in Nat : C = Cardinality(Nodes) + 1 /\ Len(s) <= C
  BY ShortList, NodesFinite
<1>2. PICK g : g = [k \in 0 .. C |-> Front(s, k)]
  OBVIOUS
<1>3. Front(s, 0) = <<>>
  <2>1. 0 \in Nat
    OBVIOUS
  <2>2. Front(s, 0) \in Seq(Nodes) /\ Len(Front(s, 0)) = 0
    BY <2>1, FrontIs
  <2> QED
    BY <2>2
<1>4. ASSUME NEW k \in 0 .. C PROVE g[k] = IF k = 0 THEN <<>> ELSE Meets(first, link, k, g[k - 1])
  <2>1. CASE k = 0
    BY <1>2, <1>3, <2>1
  <2>2. CASE k # 0
    <3>1. k \in Nat \ {0} /\ k - 1 \in 0 .. C
      BY <1>1, <2>2
    <3>2. g[k] = Front(s, k) /\ g[k - 1] = Front(s, k - 1)
      BY <1>2, <3>1
    <3>3. Meets(first, link, k, Front(s, k - 1)) = Front(s, k)
      BY <3>1, FrontMeets
    <3> QED
      BY <2>2, <3>2, <3>3
  <2> QED
    BY <2>1, <2>2
<1>5. g = Steps(first, link, g)
  BY <1>1, <1>2, <1>4 DEF Steps
<1>6. Walk(first, link) = g[C]
  BY <1>1, <1>5, WalkUnique
<1>7. g[C] = Front(s, C)
  BY <1>1, <1>2
<1>8. Front(s, C) = s
  <2>1. PICK r : r = Front(s, C)
    OBVIOUS
  <2>2. r \in Seq(Nodes) /\ Len(r) = Len(s) /\ \A i \in 1 .. Len(r) : r[i] = s[i]
    BY <1>1, <2>1, FrontIs
  <2> QED
    BY <2>1, <2>2, SameSequence
<1> QED
  BY <1>6, <1>7, <1>8

-------------------------------------------------------------------------------
\* The lists have no element in common, and nobody else is at work on a list that a
\* thread has entered or can enter.
LEMMA ListsApart ==
  ASSUME LeakTypeOK, NEW S, Located(S)
  PROVE  /\ \A l \in Lists : S[l] \in Seq(Nodes) /\ Ran(S[l]) \subseteq Nodes
         /\ Ran(S[debugList]) \subseteq Packets
         /\ \A p \in Packets : Ran(S[p]) \subseteq Logs
         /\ \A l, m \in Lists : l # m => Ran(S[l]) \cap Ran(S[m]) = {}
<1>1. \A l \in Lists : S[l] \in Seq(Nodes) /\ Ran(S[l]) \subseteq Nodes
  BY DEF Located, Ran
<1>2. Ran(S[debugList]) \subseteq Packets
  BY DEF Located, Listed, LeakTypeOK
<1>3. \A p \in Packets : Ran(S[p]) \subseteq Logs
  BY DEF Located, LeakTypeOK
<1>4. ASSUME NEW l \in Lists, NEW m \in Lists, l # m PROVE Ran(S[l]) \cap Ran(S[m]) = {}
  <2>1. CASE l = debugList \/ m = debugList
    BY <1>2, <1>3, <1>4, <2>1, LeakAssumption DEF Lists
  <2>2. CASE l # debugList /\ m # debugList
    BY <1>4, <2>2 DEF Lists, Located
  <2> QED
    BY <2>1, <2>2
<1> QED
  BY <1>1, <1>2, <1>3, <1>4

\* Of two threads at work on the same list one is not in its section.
LEMMA Alone ==
  ASSUME LeakTypeOK, ControlInv, NEW t \in Threads, NEW u \in Threads, t # u,
         pc[t] # "idle", cs[list[t]] \in {NULL, t}, list[u] = list[t]
  PROVE  pc[u] \notin Inside \cup {"free"}
<1>1. pc[u] \in Inside => cs[list[u]] = u
  BY StageIs
<1>2. pc[u] \notin Inside
  BY <1>1, LeakAssumption
<1>3. ASSUME pc[u] = "free" PROVE FALSE
  <2>1. list[u] \in Packets /\ list[u] # debugList /\ holders[list[u]] = {} /\ list[u] \in Charge(u)
    BY <1>3, StageIs DEF ControlInv, Stage, Freeing, Charge
  <2>2. Stage(t) /\ pc[t] \in {"push", "remove"} \cup Inside \cup Freeing
    BY DEF ControlInv, LeakTypeOK
  <2>3. CASE pc[t] \in Freeing
    BY <2>1, <2>3 DEF ControlInv, Charge
  <2>4. CASE pc[t] \notin Freeing
    BY <2>1, <2>2, <2>4 DEF Stage, Inside, Freeing
  <2> QED
    BY <2>3, <2>4
<1> QED
  BY <1>2, <1>3

\* What is going on in the section of a list that t is not in.
LEMMA SectionOfOthers ==
  ASSUME LeakTypeOK, NEW t \in Threads, Others(t), NEW l \in Lists, cs'[l] = cs[l], cs[l] # t
  PROVE  Pushing(l)' = Pushing(l) /\ Skipped(l)' = Skipped(l)
<1>1. cs[l] # NULL => cs[l] \in Threads \ {t}
  BY DEF LeakTypeOK
<1>2. cs[l] # NULL => pc'[cs'[l]] = pc[cs[l]] /\ elem'[cs'[l]] = elem[cs[l]]
  BY <1>1 DEF Others
<1> QED
  BY <1>2 DEF Pushing, Skipped

LEMMA LocatedKept ==
  ASSUME NEW S, Located(S), NEW t \in Threads, Others(t), Listed' = Listed, Held(t)' = Held(t),
         logsInUse' = logsInUse, inUse \subseteq inUse'
  PROVE  Located(S)'
<1>1. \A u \in Threads : Held(u)' = Held(u)
  BY DEF Others, Held
<1>2. \A p \in Packets : \A n \in Ran(S[p]) :
        /\ n \in logsInUse' /\ p \in inUse' /\ \A q \in Packets : n \in Ran(S[q]) => q = p
        /\ \A u \in Threads : n \notin Held(u)'
  <2> SUFFICES ASSUME NEW p \in Packets, NEW n \in Ran(S[p])
               PROVE  /\ n \in logsInUse' /\ p \in inUse' /\ \A q \in Packets : n \in Ran(S[q]) => q = p
                      /\ \A u \in Threads : n \notin Held(u)'
    OBVIOUS
  <2>1. /\ n \in logsInUse /\ p \in inUse /\ \A q \in Packets : n \in Ran(S[q]) => q = p
        /\ \A u \in Threads : n \notin Held(u)
    BY DEF Located
  <2> QED
    BY <1>1, <2>1
<1>3. \A u \in Threads : \A n \in Held(u)' :
        n \in logsInUse' /\ \A v \in Threads : n \in Held(v)' => v = u
  BY <1>1 DEF Located
<1>4. \A n \in logsInUse' : (\E p \in Packets : n \in Ran(S[p])) \/ \E u \in Threads : n \in Held(u)'
  BY <1>1 DEF Located
<1>5. S \in [Lists -> Seq(Nodes)] /\ Ran(S[debugList]) = Listed'
  BY DEF Located
<1> QED
  BY <1>2, <1>3, <1>4, <1>5 DEF Located

LEMMA ListedKept ==
  ASSUME NEW t \in Threads, Others(t), Off(t)' = Off(t), inUse' = inUse
  PROVE  Listed' = Listed
<1>1. \A u \in Threads : Off(u)' = Off(u)
  BY DEF Others, Off
<1> QED
  BY <1>1 DEF Listed

\* A step that changes one list at most.
LEMMA ShapedKept ==
  ASSUME LeakTypeOK, ControlInv, NEW S, Located(S), Shaped(S), NEW t \in Threads, Others(t),
         NEW l \in Lists, NEW S2, S2 \in [Lists -> Seq(Nodes)], \A m \in Lists \ {l} : S2[m] = S[m],
         S2[l] = S[l] \/ \A u \in Threads \ {t} : list[u] = l => pc[u] \notin Inside \cup {"free"},
         \A m \in Lists \ {l} : /\ pHead'[m] = pHead[m] /\ pTail'[m] = pTail[m] /\ size'[m] = size[m]
                                /\ cs'[m] = cs[m] /\ cs[m] # t,
         \A n \in Nodes : n \notin Ran(S[l]) \cup Ran(S2[l]) => pNext'[n] = pNext[n] /\ pPrev'[n] = pPrev[n],
         \A m \in Lists \ {l} : Ran(S2[l]) \cap Ran(S[m]) = {},
         Chain(S2[l], pHead'[l], pTail'[l], size'[l], pNext', pPrev', Pushing(l)', Skipped(l)'),
         \A n \in Ran(S[l]) : n \notin Ran(S2[l]) => pNext'[n] = NULL,
         pc'[t] # "idle" => Detail(t, S2[list[t]])'
  PROVE  Shaped(S2)'
<1>1. ASSUME NEW m \in Lists
      PROVE  Chain(S2[m], pHead'[m], pTail'[m], size'[m], pNext', pPrev', Pushing(m)', Skipped(m)')
  <2>1. CASE m = l
    BY <2>1
  <2>2. CASE m # l
    <3>1. Chain(S[m], pHead[m], pTail[m], size[m], pNext, pPrev, Pushing(m), Skipped(m))
      BY DEF Shaped
    <3>2. Pushing(m)' = Pushing(m) /\ Skipped(m)' = Skipped(m)
      BY <2>2, SectionOfOthers
    <3>3. \A n \in Ran(S[m]) : n \in Nodes /\ n \notin Ran(S[l]) \cup Ran(S2[l])
      BY <2>2, ListsApart
    <3>4. \A n \in Ran(S[m]) : pNext'[n] = pNext[n] /\ pPrev'[n] = pPrev[n]
      BY <3>3
    <3>5. S[m] \in Seq(Nodes)
      BY ListsApart
    <3>6. Chain(S[m], pHead[m], pTail[m], size[m], pNext', pPrev', Pushing(m), Skipped(m))
      BY <3>1, <3>4, <3>5, ChainFrame
    <3> QED
      BY <2>2, <3>2, <3>6
  <2> QED
    BY <2>1, <2>2
<1>2. ASSUME NEW n \in Nodes, \A m \in Lists : n \notin Ran(S2[m]) PROVE pNext'[n] = NULL
  <2>1. CASE n \in Ran(S[l])
    BY <1>2, <2>1
  <2>2. CASE n \notin Ran(S[l])
    <3>1. \A m \in Lists : n \notin Ran(S[m])
      BY <1>2, <2>2
    <3>2. pNext[n] = NULL
      BY <3>1 DEF Shaped
    <3> QED
      BY <1>2, <2>2, <3>2
  <2> QED
    BY <2>1, <2>2
<1>3. ASSUME NEW u \in Threads \ {t}, pc'[u] # "idle" PROVE Detail(u, S2[list[u]])'
  <2>1. Detail(u, S[list[u]])
    BY <1>3 DEF Shaped, Others
  <2>2. pc[u] \in Inside \cup {"free"} => list[u] \in Lists
    BY StageIs DEF Freeing
  <2>3. pc[u] \in Inside \cup {"free"} => S2[list[u]] = S[list[u]]
    BY <2>2
  <2>4. pc[u] \in Inside \cup {"free"} => Detail(u, S2[list[u]])
    BY <2>1, <2>3
  <2>5. pc'[u] = pc[u] /\ list'[u] = list[u] /\ elem'[u] = elem[u] /\ next'[u] = next[u]
    BY DEF Others
  <2> QED
    BY <2>4, <2>5 DEF Detail, Inside
<1>4. \A u \in Threads : pc'[u] # "idle" => Detail(u, S2[list[u]])'
  BY <1>3
<1>5. /\ \A m \in Lists : Chain(S2[m], pHead'[m], pTail'[m], size'[m], pNext', pPrev', Pushing(m)', Skipped(m)')
      /\ \A n \in Nodes : (\A m \in Lists : n \notin Ran(S2[m])) => pNext'[n] = NULL
  BY <1>1, <1>2
<1> QED
  BY <1>4, <1>5 DEF Shaped

\* What Shaped says of one list, by what its section is doing.
LEMMA ChainIs ==
  ASSUME NEW S, Shaped(S), NEW l \in Lists, NEW t \in Threads
  PROVE  /\ cs[l] = NULL => Chain(S[l], pHead[l], pTail[l], size[l], pNext, pPrev, FALSE, NULL)
         /\ cs[l] = t /\ pc[t] = "pushed" => Chain(S[l], pHead[l], pTail[l], size[l], pNext, pPrev, TRUE, NULL)
         /\ cs[l] = t /\ pc[t] \in {"loop", "freeLog"} =>
              Chain(S[l], pHead[l], pTail[l], size[l], pNext, pPrev, FALSE, NULL)
         /\ cs[l] = t /\ pc[t] \in {"removed", "unlink"} =>
              Chain(S[l], pHead[l], pTail[l], size[l], pNext, pPrev, FALSE, elem[t])
<1>1. Chain(S[l], pHead[l], pTail[l], size[l], pNext, pPrev, Pushing(l), Skipped(l))
  BY DEF Shaped
<1>2. cs[l] = NULL => Pushing(l) = FALSE /\ Skipped(l) = NULL
  BY DEF Pushing, Skipped
<1>3. cs[l] = t => Pushing(l) = (pc[t] = "pushed") /\ Skipped(l) = IF pc[t] \in {"removed", "unlink"} THEN elem[t] ELSE NULL
  BY LeakAssumption DEF Pushing, Skipped
<1>4. cs[l] = t /\ pc[t] = "pushed" => Pushing(l) = TRUE /\ Skipped(l) = NULL
  BY <1>3
<1>5. cs[l] = t /\ pc[t] \in {"loop", "freeLog"} => Pushing(l) = FALSE /\ Skipped(l) = NULL
  BY <1>3
<1>6. cs[l] = t /\ pc[t] \in {"removed", "unlink"} => Pushing(l) = FALSE /\ Skipped(l) = elem[t]
  BY <1>3
<1>7. cs[l] = NULL => Chain(S[l], pHead[l], pTail[l], size[l], pNext, pPrev, FALSE, NULL)
  BY <1>1, <1>2, Zenon
<1>8. cs[l] = t /\ pc[t] = "pushed" => Chain(S[l], pHead[l], pTail[l], size[l], pNext, pPrev, TRUE, NULL)
  BY <1>1, <1>4, Zenon
<1>9. cs[l] = t /\ pc[t] \in {"loop", "freeLog"} =>
        Chain(S[l], pHead[l], pTail[l], size[l], pNext, pPrev, FALSE, NULL)
  BY <1>1, <1>5, Zenon
<1>10. cs[l] = t /\ pc[t] \in {"removed", "unlink"} =>
         Chain(S[l], pHead[l], pTail[l], size[l], pNext, pPrev, FALSE, elem[t])
  BY <1>1, <1>6, Zenon
<1> QED
  BY <1>7, <1>8, <1>9, <1>10

\* A step that changes no list.
LEMMA QuietStep ==
  ASSUME LeakTypeOK, ControlInv, NEW S, Located(S), Shaped(S), NEW t \in Threads, Others(t),
         UNCHANGED <<pHead, pTail, size, linkVars>>,
         \A l \in Lists : \/ cs'[l] = cs[l] /\ cs[l] # t
                          \/ Pushing(l)' = Pushing(l) /\ Skipped(l)' = Skipped(l),
         pc'[t] # "idle" => Detail(t, S[list[t]])'
  PROVE  Shaped(S)'
<1>1. \A l \in Lists : Pushing(l)' = Pushing(l) /\ Skipped(l)' = Skipped(l)
  BY SectionOfOthers
<1>2. pHead' = pHead /\ pTail' = pTail /\ size' = size /\ pNext' = pNext /\ pPrev' = pPrev
  BY DEF linkVars
<1>3. ASSUME NEW l \in Lists
      PROVE  Chain(S[l], pHead'[l], pTail'[l], size'[l], pNext', pPrev', Pushing(l)', Skipped(l)')
  <2>1. Chain(S[l], pHead[l], pTail[l], size[l], pNext, pPrev, Pushing(l), Skipped(l))
    BY DEF Shaped
  <2>2. Pushing(l)' = Pushing(l) /\ Skipped(l)' = Skipped(l)
    BY <1>1
  <2> QED
    BY <1>2, <2>1, <2>2
<1>4. ASSUME NEW u \in Threads, pc'[u] # "idle" PROVE Detail(u, S[list[u]])'
  <2>1. CASE u = t
    BY <1>4, <2>1
  <2>2. CASE u # t
    <3>1. pc'[u] = pc[u] /\ list'[u] = list[u] /\ elem'[u] = elem[u] /\ next'[u] = next[u]
      BY <2>2 DEF Others
    <3>2. Detail(u, S[list[u]])
      BY <1>4, <3>1 DEF Shaped
    <3> QED
      BY <3>1, <3>2 DEF Detail
  <2> QED
    BY <2>1, <2>2
<1>5. \A n \in Nodes : (\A l \in Lists : n \notin Ran(S[l])) => pNext'[n] = NULL
  BY <1>2 DEF Shaped
<1> QED
  BY <1>3, <1>4, <1>5 DEF Shaped

\* Who is in no section, and who is in one.
LEMMA SectionIs ==
  ASSUME LeakTypeOK, ControlInv, NEW t \in Threads, NEW l \in Lists, cs[l] = t
  PROVE  pc[t] \in Inside /\ list[t] = l
BY LeakAssumption DEF ControlInv

LEMMA LeakAllocStep ==
  ASSUME LeakTypeOK, ControlInv, NEW S, Located(S), Shaped(S), NEW t \in Threads, NEW p \in Packets,
         AllocForDebugLeak(t, p)
  PROVE  Located(S)' /\ Shaped(S)'
<1>1. /\ pc[t] = "idle" /\ p \notin inUse /\ inUse' = inUse \cup {p}
      /\ Work(t, "push", debugList, p) /\ UNCHANGED <<listVars, linkVars, logsInUse>>
  BY DEF AllocForDebugLeak, Packet!Alloc
<1>2. pc'[t] = "push" /\ list'[t] = debugList /\ elem'[t] = p /\ Others(t)
  BY <1>1, WorkIs
<1>3. Held(t)' = Held(t)
  BY <1>1, <1>2, LeakAssumption DEF Held
<1>4. Off(t) = {} /\ Off(t)' = {p} /\ \A u \in Threads \ {t} : Off(u)' = Off(u)
  BY <1>1, <1>2 DEF Off, Freeing, Others
<1>5. Listed' = Listed
  <2>1. ASSUME NEW q PROVE q \in Listed' <=> q \in Listed
    BY <1>1, <1>4 DEF Listed
  <2> QED
    BY <2>1 DEF Listed
<1>6. Located(S)'
  BY <1>1, <1>2, <1>3, <1>5, LocatedKept
<1>7. \A l \in Lists : cs'[l] = cs[l] /\ cs[l] # t
  BY <1>1, SectionIs DEF listVars, Inside
<1>8. Detail(t, S[list[t]])'
  BY <1>2 DEF Detail
<1>9. Shaped(S)'
  BY <1>1, <1>2, <1>7, <1>8, QuietStep DEF listVars
<1> QED
  BY <1>6, <1>9

LEMMA LogStep ==
  ASSUME LeakTypeOK, ControlInv, NEW S, Located(S), Shaped(S), NEW t \in Threads, NEW p \in Packets,
         NEW n \in Logs, WRITE_PACKET_LOG(t, p, n)
  PROVE  Located(S)' /\ Shaped(S)'
<1>1. /\ pc[t] = "idle" /\ n \notin logsInUse /\ logsInUse' = logsInUse \cup {n}
      /\ Work(t, "push", p, n) /\ UNCHANGED <<listVars, linkVars, inUse, holders>>
  BY DEF WRITE_PACKET_LOG, Log!Alloc
<1>2. pc'[t] = "push" /\ list'[t] = p /\ elem'[t] = n /\ Others(t)
  BY <1>1, WorkIs
<1>3. Held(t) = {} /\ Held(t)' = {n} /\ \A u \in Threads \ {t} : Held(u)' = Held(u)
  BY <1>1, <1>2 DEF Held, Others
<1>4. Off(t) = {} /\ Off(t)' = {n} /\ \A u \in Threads \ {t} : Off(u)' = Off(u)
  BY <1>1, <1>2 DEF Off, Freeing, Others
<1>5. n \notin inUse
  BY LeakAssumption DEF LeakTypeOK
<1>6. Listed' = Listed
  <2>1. ASSUME NEW q PROVE q \in Listed' <=> q \in Listed
    BY <1>1, <1>4, <1>5 DEF Listed
  <2> QED
    BY <2>1 DEF Listed
<1>7. \A q \in Packets : n \notin Ran(S[q])
  BY <1>1 DEF Located
<1>8. \A u \in Threads : n \notin Held(u)
  BY <1>1 DEF Located
<1>9. ASSUME NEW q \in Packets, NEW x \in Ran(S[q])
      PROVE  /\ x \in logsInUse' /\ q \in inUse' /\ \A r \in Packets : x \in Ran(S[r]) => r = q
             /\ \A u \in Threads : x \notin Held(u)'
  <2>1. /\ x \in logsInUse /\ q \in inUse /\ \A r \in Packets : x \in Ran(S[r]) => r = q
        /\ \A u \in Threads : x \notin Held(u)
    BY DEF Located
  <2> QED
    BY <1>1, <1>3, <1>7, <2>1
<1>10. ASSUME NEW u \in Threads, NEW x \in Held(u)'
       PROVE  x \in logsInUse' /\ \A v \in Threads : x \in Held(v)' => v = u
  <2>1. CASE u = t
    BY <1>1, <1>3, <1>8, <2>1
  <2>2. CASE u # t
    <3>1. x \in Held(u) /\ x # n
      BY <1>3, <1>8, <2>2
    <3>2. x \in logsInUse /\ \A v \in Threads : x \in Held(v) => v = u
      BY <3>1 DEF Located
    <3> QED
      BY <1>1, <1>3, <3>1, <3>2
  <2> QED
    BY <2>1, <2>2
<1>11. ASSUME NEW x \in logsInUse'
       PROVE  (\E q \in Packets : x \in Ran(S[q])) \/ \E u \in Threads : x \in Held(u)'
  <2>1. CASE x = n
    BY <1>3, <2>1
  <2>2. CASE x # n
    <3>1. (\E q \in Packets : x \in Ran(S[q])) \/ \E u \in Threads : x \in Held(u)
      BY <1>1, <2>2 DEF Located
    <3> QED
      BY <1>3, <3>1
  <2> QED
    BY <2>1, <2>2
<1>12. S \in [Lists -> Seq(Nodes)] /\ Ran(S[debugList]) = Listed'
  BY <1>6 DEF Located
<1>13. Located(S)'
  BY <1>9, <1>10, <1>11, <1>12 DEF Located
<1>14. \A l \in Lists : cs'[l] = cs[l] /\ cs[l] # t
  BY <1>1, SectionIs DEF listVars, Inside
<1>15. Detail(t, S[list[t]])'
  BY <1>2 DEF Detail
<1>16. Shaped(S)'
  BY <1>1, <1>2, <1>14, <1>15, QuietStep DEF listVars
<1> QED
  BY <1>13, <1>16

\* References come and go without a list.
LEMMA ShareStep ==
  ASSUME LeakTypeOK, ControlInv, NEW S, Located(S), Shaped(S), NEW t \in Threads, NEW w \in Threads,
         NEW p \in Packets, Share(t, w, p)
  PROVE  Located(S)' /\ Shaped(S)'
<1>1. pc[t] = "idle" /\ UNCHANGED <<listVars, linkVars, inUse, logsInUse, pc, list, elem, next>>
  BY DEF Share
<1>2. Others(t) /\ pc'[t] = "idle" /\ Held(t)' = Held(t) /\ Off(t)' = Off(t)
  BY <1>1 DEF Others, Held, Off
<1>3. Located(S)'
  BY <1>1, <1>2, ListedKept, LocatedKept
<1>4. \A l \in Lists : cs'[l] = cs[l] /\ cs[l] # t
  BY <1>1, SectionIs DEF listVars, Inside
<1>5. Shaped(S)'
  BY <1>1, <1>2, <1>4, QuietStep DEF listVars
<1> QED
  BY <1>3, <1>5

LEMMA LetGoStep ==
  ASSUME LeakTypeOK, ControlInv, NEW S, Located(S), Shaped(S), NEW t \in Threads, NEW p \in Packets, LetGo(t, p)
  PROVE  Located(S)' /\ Shaped(S)'
<1>1. /\ pc[t] = "idle" /\ UNCHANGED <<listVars, linkVars, inUse, logsInUse>>
      /\ IF holders[p] = {t} THEN Work(t, "remove", debugList, p) ELSE UNCHANGED <<pc, list, elem, next>>
  BY DEF LetGo
<1>2. Others(t) /\ pc'[t] \in {"idle", "remove"}
  BY <1>1, WorkIs DEF Others
<1>3. Held(t)' = Held(t) /\ Off(t)' = Off(t)
  BY <1>1, <1>2 DEF Held, Off, Freeing
<1>4. Located(S)'
  BY <1>1, <1>2, <1>3, ListedKept, LocatedKept
<1>5. \A l \in Lists : cs'[l] = cs[l] /\ cs[l] # t
  BY <1>1, SectionIs DEF listVars, Inside
<1>6. Detail(t, S[list[t]])'
  BY <1>2 DEF Detail
<1>7. Shaped(S)'
  BY <1>1, <1>2, <1>5, <1>6, QuietStep DEF listVars
<1> QED
  BY <1>4, <1>7

\* The end of FreeForDebugLeak: the list of the packet is empty and the packet was not on
\* debugList any more.
LEMMA FreePacketStep ==
  ASSUME LeakTypeOK, ControlInv, NEW S, Located(S), Shaped(S), NEW t \in Threads, FreePacket(t)
  PROVE  Located(S)' /\ Shaped(S)'
<1>1. /\ pc[t] = "free" /\ list[t] \in inUse /\ inUse' = inUse \ {list[t]} /\ Work(t, "idle", NULL, NULL)
      /\ UNCHANGED <<listVars, linkVars, logsInUse, holders>>
  BY DEF FreePacket, Packet!Free, Return
<1>2. PICK p \in Packets : p = list[t]
  BY <1>1 DEF LeakTypeOK
<1>3. pc'[t] = "idle" /\ Others(t)
  BY <1>1, WorkIs
<1>4. Off(t) = {p} /\ Off(t)' = {} /\ \A u \in Threads \ {t} : Off(u)' = Off(u)
  BY <1>1, <1>2, <1>3 DEF Off, Freeing, Others
<1>5. Listed' = Listed
  <2>1. ASSUME NEW q PROVE q \in Listed' <=> q \in Listed
    BY <1>1, <1>2, <1>4 DEF Listed
  <2> QED
    BY <2>1 DEF Listed
<1>6. \A u \in Threads : Held(u)' = Held(u)
  BY <1>1, <1>3 DEF Held, Others
<1>7. S[p] = <<>>
  BY <1>1, <1>2 DEF Shaped, Detail
<1>8. ASSUME NEW q \in Packets, NEW x \in Ran(S[q])
      PROVE  /\ x \in logsInUse' /\ q \in inUse' /\ \A r \in Packets : x \in Ran(S[r]) => r = q
             /\ \A u \in Threads : x \notin Held(u)'
  <2>1. /\ x \in logsInUse /\ q \in inUse /\ \A r \in Packets : x \in Ran(S[r]) => r = q
        /\ \A u \in Threads : x \notin Held(u)
    BY DEF Located
  <2>2. q # p
    BY <1>7 DEF Ran
  <2> QED
    BY <1>1, <1>2, <1>6, <2>1, <2>2
<1>9. \A u \in Threads : \A n \in Held(u)' :
        n \in logsInUse' /\ \A v \in Threads : n \in Held(v)' => v = u
  BY <1>1, <1>6 DEF Located
<1>10. \A n \in logsInUse' : (\E q \in Packets : n \in Ran(S[q])) \/ \E u \in Threads : n \in Held(u)'
  BY <1>1, <1>6 DEF Located
<1>11. S \in [Lists -> Seq(Nodes)] /\ Ran(S[debugList]) = Listed'
  BY <1>5 DEF Located
<1>12. Located(S)'
  BY <1>8, <1>9, <1>10, <1>11 DEF Located
<1>13. \A l \in Lists : cs'[l] = cs[l] /\ cs[l] # t
  BY <1>1, SectionIs DEF listVars, Inside
<1>14. Shaped(S)'
  BY <1>1, <1>3, <1>13, QuietStep DEF listVars
<1> QED
  BY <1>12, <1>14

LEMMA DrainStep ==
  ASSUME LeakTypeOK, ControlInv, NEW S, Located(S), Shaped(S), NEW t \in Threads, Drain(t)
  PROVE  Located(S)' /\ Shaped(S)'
<1>1. /\ pc[t] = "drain" /\ Enter(t, list[t]) /\ elem' = [elem EXCEPT ![t] = pHead[list[t]]] /\ Goto(t, "loop")
      /\ UNCHANGED <<pHead, pTail, size, linkVars, poolVars, list, next>>
  BY DEF Drain, GetFirst
<1>2. list[t] \in Lists
  BY <1>1, StageIs DEF Freeing
<1>3. elem'[t] = pHead[list[t]] /\ \A u \in Threads \ {t} : elem'[u] = elem[u]
  BY <1>1, <1>2 DEF LeakTypeOK
<1>4. pc'[t] = "loop" /\ Others(t) /\ list'[t] = list[t]
  BY <1>1, <1>3, GotoIs DEF Others, Inside
<1>5. cs[list[t]] = NULL /\ cs'[list[t]] = t /\ \A m \in Lists \ {list[t]} : cs'[m] = cs[m]
  BY <1>1, <1>2, EnterIs
<1>6. Held(t)' = Held(t) /\ Off(t)' = Off(t)
  BY <1>1, <1>4 DEF Held, Off, Freeing
<1>7. inUse' = inUse /\ logsInUse' = logsInUse
  BY <1>1 DEF poolVars
<1>8. Located(S)'
  BY <1>4, <1>6, <1>7, ListedKept, LocatedKept
<1>9. ASSUME NEW m \in Lists
      PROVE  \/ cs'[m] = cs[m] /\ cs[m] # t
             \/ Pushing(m)' = Pushing(m) /\ Skipped(m)' = Skipped(m)
  <2>1. CASE m = list[t]
    BY <1>4, <1>5, <2>1, LeakAssumption DEF Pushing, Skipped
  <2>2. CASE m # list[t]
    BY <1>1, <1>5, <2>2, SectionIs DEF Inside
  <2> QED
    BY <2>1, <2>2
<1>10. pHead[list[t]] = At(S[list[t]], 1)
  <2>1. PICK s \in Seq(Nodes) : s = S[list[t]]
    BY <1>2, ListsApart
  <2>2. pHead[list[t]] = Succ(s, 0, NULL)
    BY <1>2, <1>5, <2>1, ChainIs DEF Chain
  <2>3. 0 \in 0 .. Len(s)
    BY <2>1
  <2> QED
    BY <2>1, <2>2, <2>3, NodesFinite, SuccIs
<1>11. Detail(t, S[list[t]])'
  BY <1>3, <1>4, <1>10 DEF Detail
<1>12. Shaped(S)'
  BY <1>1, <1>4, <1>9, <1>11, QuietStep
<1> QED
  BY <1>8, <1>12

LEMMA FreeLogStep ==
  ASSUME LeakTypeOK, ControlInv, NEW S, Located(S), Shaped(S), NEW t \in Threads, FreeLog(t)
  PROVE  Located(S)' /\ Shaped(S)'
<1>1. /\ pc[t] = "freeLog" /\ elem[t] \in logsInUse /\ logsInUse' = logsInUse \ {elem[t]}
      /\ elem' = [elem EXCEPT ![t] = next[t]] /\ next' = [next EXCEPT ![t] = NULL] /\ Goto(t, "loop")
      /\ UNCHANGED <<listVars, linkVars, inUse, holders, list>>
  BY DEF FreeLog, Log!Free
<1>2. PICK n \in Logs : n = elem[t]
  BY <1>1 DEF LeakTypeOK
<1>3. elem'[t] = next[t] /\ \A u \in Threads \ {t} : elem'[u] = elem[u] /\ next'[u] = next[u]
  BY <1>1 DEF LeakTypeOK
<1>4. pc'[t] = "loop" /\ Others(t) /\ list'[t] = list[t]
  BY <1>1, <1>3, GotoIs DEF Others, Inside
<1>5. Off(t)' = Off(t) /\ inUse' = inUse
  BY <1>1, <1>4 DEF Off, Freeing
<1>6. Listed' = Listed
  BY <1>4, <1>5, ListedKept
<1>7. Held(t) = {n} /\ Held(t)' = {} /\ \A u \in Threads \ {t} : Held(u)' = Held(u)
  BY <1>1, <1>2, <1>4 DEF Held, Others
<1>8. \A u \in Threads \ {t} : n \notin Held(u)
  BY <1>7 DEF Located
<1>9. \A q \in Packets : n \notin Ran(S[q])
  BY <1>7 DEF Located
<1>10. ASSUME NEW q \in Packets, NEW x \in Ran(S[q])
       PROVE  /\ x \in logsInUse' /\ q \in inUse' /\ \A r \in Packets : x \in Ran(S[r]) => r = q
              /\ \A u \in Threads : x \notin Held(u)'
  <2>1. /\ x \in logsInUse /\ q \in inUse /\ \A r \in Packets : x \in Ran(S[r]) => r = q
        /\ \A u \in Threads : x \notin Held(u)
    BY DEF Located
  <2> QED
    BY <1>1, <1>2, <1>7, <1>9, <2>1
<1>11. ASSUME NEW u \in Threads, NEW x \in Held(u)'
       PROVE  x \in logsInUse' /\ \A v \in Threads : x \in Held(v)' => v = u
  <2>1. u # t /\ x \in Held(u) /\ x # n
    BY <1>7, <1>8
  <2>2. x \in logsInUse /\ \A v \in Threads : x \in Held(v) => v = u
    BY <2>1 DEF Located
  <2> QED
    BY <1>1, <1>2, <1>7, <2>1, <2>2
<1>12. ASSUME NEW x \in logsInUse'
       PROVE  (\E q \in Packets : x \in Ran(S[q])) \/ \E u \in Threads : x \in Held(u)'
  <2>1. x \in logsInUse /\ x # n
    BY <1>1, <1>2
  <2>2. (\E q \in Packets : x \in Ran(S[q])) \/ \E u \in Threads : x \in Held(u)
    BY <2>1 DEF Located
  <2> QED
    BY <1>7, <2>1, <2>2
<1>13. S \in [Lists -> Seq(Nodes)] /\ Ran(S[debugList]) = Listed'
  BY <1>6 DEF Located
<1>14. Located(S)'
  BY <1>10, <1>11, <1>12, <1>13 DEF Located
<1>15. ASSUME NEW m \in Lists
       PROVE  \/ cs'[m] = cs[m] /\ cs[m] # t
              \/ Pushing(m)' = Pushing(m) /\ Skipped(m)' = Skipped(m)
  <2>1. cs'[m] = cs[m]
    BY <1>1 DEF listVars
  <2>2. CASE cs[m] = t
    BY <1>1, <1>4, <2>1, <2>2 DEF Pushing, Skipped
  <2> QED
    BY <2>1, <2>2
<1>16. Detail(t, S[list[t]])'
  <2>1. next[t] = At(S[list[t]], 1)
    BY <1>1 DEF Shaped, Detail
  <2> QED
    BY <1>3, <1>4, <2>1 DEF Detail
<1>17. Shaped(S)'
  BY <1>1, <1>4, <1>15, <1>16, QuietStep DEF listVars
<1> QED
  BY <1>14, <1>17

LEMMA EndDrainStep ==
  ASSUME LeakTypeOK, ControlInv, NEW S, Located(S), Shaped(S), NEW t \in Threads, EndDrain(t)
  PROVE  Located(S)' /\ Shaped(S)'
<1>1. /\ pc[t] = "loop" /\ elem[t] = NULL /\ Leave(list[t]) /\ Work(t, "free", list[t], NULL)
      /\ UNCHANGED <<pHead, pTail, size, linkVars, poolVars>>
  BY DEF EndDrain
<1>2. list[t] \in Lists /\ cs[list[t]] = t
  BY <1>1, StageIs DEF Inside
<1>3. pc'[t] = "free" /\ list'[t] = list[t] /\ Others(t)
  BY <1>1, WorkIs
<1>4. cs'[list[t]] = NULL /\ \A m \in Lists \ {list[t]} : cs'[m] = cs[m]
  BY <1>1, <1>2, LeaveIs
<1>5. Held(t)' = Held(t) /\ Off(t)' = Off(t)
  BY <1>1, <1>3 DEF Held, Off, Freeing
<1>6. inUse' = inUse /\ logsInUse' = logsInUse
  BY <1>1 DEF poolVars
<1>7. Located(S)'
  BY <1>3, <1>5, <1>6, ListedKept, LocatedKept
<1>8. ASSUME NEW m \in Lists
      PROVE  \/ cs'[m] = cs[m] /\ cs[m] # t
             \/ Pushing(m)' = Pushing(m) /\ Skipped(m)' = Skipped(m)
  <2>1. CASE m = list[t]
    BY <1>1, <1>2, <1>4, <2>1, LeakAssumption DEF Pushing, Skipped
  <2>2. CASE m # list[t]
    BY <1>4, <2>2, SectionIs
  <2> QED
    BY <2>1, <2>2
<1>9. S[list[t]] = <<>>
  <2>1. PICK s \in Seq(Nodes) : s = S[list[t]]
    BY <1>2, ListsApart
  <2>2. At(s, 1) = NULL
    BY <1>1, <2>1 DEF Shaped, Detail
  <2>3. Len(s) = 0
    BY <2>2, NodesFinite DEF At
  <2> QED
    BY <2>1, <2>3
<1>10. Detail(t, S[list[t]])'
  BY <1>3, <1>9 DEF Detail
<1>11. Shaped(S)'
  BY <1>1, <1>3, <1>8, <1>10, QuietStep
<1> QED
  BY <1>7, <1>11

\* An element that a thread is to link is in no list.
LEMMA OffCharge ==
  ASSUME LeakTypeOK, ControlInv, NEW u \in Threads
  PROVE  Off(u) \cap Packets \subseteq Charge(u)
<1>1. CASE pc[u] = "push"
  <2>1. list[u] # debugList => elem[u] \in Logs
    BY <1>1, StageIs
  <2> QED
    BY <1>1, <2>1, LeakAssumption DEF Off, Charge, Freeing
<1>2. CASE pc[u] # "push"
  BY <1>2 DEF Off, Charge
<1> QED
  BY <1>1, <1>2

\* What a thread is about to link is in no list and has no successor.
LEMMA Unlinked ==
  ASSUME LeakTypeOK, ControlInv, NEW S, Located(S), Shaped(S), NEW t \in Threads, pc[t] = "push"
  PROVE  (\A m \in Lists : elem[t] \notin Ran(S[m])) /\ pNext[elem[t]] = NULL
<1>1. /\ list[t] \in Lists /\ elem[t] \in Nodes
      /\ list[t] = debugList => elem[t] \in Packets
      /\ list[t] # debugList => list[t] \in Packets /\ elem[t] \in Logs
  BY StageIs
<1>2. elem[t] \notin Ran(S[debugList])
  BY DEF Located, Listed, Off
<1>3. elem[t] \in Logs => \A p \in Packets : elem[t] \notin Ran(S[p])
  BY DEF Located, Held
<1>4. elem[t] \in Packets => \A p \in Packets : elem[t] \notin Ran(S[p])
  BY ListsApart, LeakAssumption
<1>5. \A m \in Lists : elem[t] \notin Ran(S[m])
  BY <1>1, <1>2, <1>3, <1>4 DEF Lists
<1> QED
  BY <1>1, <1>5 DEF Shaped

\* debugList changes, the lists of logs do not.
LEMMA LocatedDebug ==
  ASSUME NEW S, Located(S), NEW t \in Threads, Others(t), Held(t)' = Held(t), UNCHANGED <<inUse, logsInUse>>,
         NEW S2 \in [Lists -> Seq(Nodes)], \A p \in Packets : S2[p] = S[p], Ran(S2[debugList]) = Listed'
  PROVE  Located(S2)'
<1>1. \A u \in Threads : Held(u)' = Held(u)
  BY DEF Others, Held
<1>2. ASSUME NEW p \in Packets, NEW n \in Ran(S2[p])
      PROVE  /\ n \in logsInUse' /\ p \in inUse' /\ \A q \in Packets : n \in Ran(S2[q]) => q = p
             /\ \A u \in Threads : n \notin Held(u)'
  <2>1. n \in Ran(S[p])
    OBVIOUS
  <2>2. /\ n \in logsInUse /\ p \in inUse /\ \A q \in Packets : n \in Ran(S[q]) => q = p
        /\ \A u \in Threads : n \notin Held(u)
    BY <2>1 DEF Located
  <2> QED
    BY <1>1, <2>2
<1>3. \A u \in Threads : \A n \in Held(u)' :
        n \in logsInUse' /\ \A v \in Threads : n \in Held(v)' => v = u
  BY <1>1 DEF Located
<1>4. ASSUME NEW n \in logsInUse' PROVE (\E p \in Packets : n \in Ran(S2[p])) \/ \E u \in Threads : n \in Held(u)'
  <2>1. (\E p \in Packets : n \in Ran(S[p])) \/ \E u \in Threads : n \in Held(u)
    BY DEF Located
  <2> QED
    BY <1>1, <2>1
<1> QED
  BY <1>2, <1>3, <1>4 DEF Located

\* push_back up to the link from the old tail.
LEMMA PushBackStep ==
  ASSUME LeakTypeOK, ControlInv, NEW S, Located(S), Shaped(S), NEW t \in Threads, PushBack(t)
  PROVE  \E S2 \in [Lists -> Seq(Nodes)] : Located(S2)' /\ Shaped(S2)'
<1>1. /\ pc[t] = "push" /\ Enter(t, list[t]) /\ LinkLast(list[t], elem[t]) /\ Goto(t, "pushed")
      /\ UNCHANGED <<size, poolVars, list, elem, next>>
  BY DEF PushBack
<1>2. PICK l \in Lists, n \in Nodes :
        /\ l = list[t] /\ n = elem[t]
        /\ l = debugList => n \in Packets
        /\ l # debugList => l \in Packets /\ n \in Logs
  BY <1>1, StageIs
<1>3. (\A m \in Lists : n \notin Ran(S[m])) /\ pNext[n] = NULL
  BY <1>1, <1>2, Unlinked
<1>4. PICK s \in Seq(Nodes) : s = S[l] /\ Append(s, n) \in Seq(Nodes)
  BY ListsApart
<1>5. PICK S2 \in [Lists -> Seq(Nodes)] : S2[l] = Append(s, n) /\ \A m \in Lists \ {l} : S2[m] = S[m]
  <2>1. S \in [Lists -> Seq(Nodes)]
    BY DEF Located
  <2>2. PICK S2 : S2 = [S EXCEPT ![l] = Append(s, n)]
    OBVIOUS
  <2>3. PICK Q : Q = Seq(Nodes)
    OBVIOUS
  <2>4. S \in [Lists -> Q] /\ Append(s, n) \in Q /\ l \in Lists
    BY <1>2, <1>4, <2>1, <2>3
  <2>5. S2 \in [Lists -> Q] /\ S2[l] = Append(s, n) /\ \A m \in Lists \ {l} : S2[m] = S[m]
    BY <2>2, <2>4
  <2> QED
    BY <2>3, <2>5
<1>6. Ran(S2[l]) = Ran(S[l]) \cup {n}
  BY <1>4, <1>5, AppendRan
<1>7. pc'[t] = "pushed" /\ Others(t) /\ list'[t] = l /\ elem'[t] = n
  BY <1>1, <1>2, GotoIs DEF Others, Inside
<1>8. cs[l] = NULL /\ cs'[l] = t /\ \A m \in Lists \ {l} : cs'[m] = cs[m]
  BY <1>1, <1>2, EnterIs
<1>9. Located(S2)'
  <2>1. inUse' = inUse /\ logsInUse' = logsInUse
    BY <1>1 DEF poolVars
  <2>2. Off(t) = {n} /\ Off(t)' = {} /\ \A u \in Threads \ {t} : Off(u)' = Off(u)
    BY <1>1, <1>2, <1>7 DEF Off, Freeing, Others
  <2>3. CASE l = debugList
    <3>1. n \in Packets /\ n \in inUse
      BY <1>1, <1>2, <2>3, LeakAssumption DEF ControlInv, Stage, LeakTypeOK
    <3>2. Held(t) = {} /\ Held(t)' = {}
      BY <1>1, <1>2, <1>7, <3>1, LeakAssumption DEF Held
    <3>3. n \in Charge(t)
      BY <1>1, <1>2, <2>3 DEF Charge, Freeing
    <3>4. \A u \in Threads \ {t} : n \notin Off(u)
      BY <3>1, <3>3, OffCharge DEF ControlInv
    <3>5. Listed' = Listed \cup {n}
      <4>1. ASSUME NEW q PROVE q \in Listed' <=> q \in Listed \cup {n}
        BY <2>1, <2>2, <3>1, <3>4 DEF Listed
      <4> QED
        BY <4>1 DEF Listed
    <3>6. Ran(S2[debugList]) = Listed'
      BY <1>6, <2>3, <3>5 DEF Located
    <3>7. \A p \in Packets : S2[p] = S[p]
      BY <1>5, <2>3, LeakAssumption DEF Lists
    <3> QED
      BY <1>7, <2>1, <3>2, <3>6, <3>7, LocatedDebug
  <2>4. CASE l # debugList
    <3>1. l \in Packets /\ n \in Logs /\ l \in inUse
      BY <1>1, <1>2, <2>4 DEF ControlInv, Stage
    <3>2. Held(t) = {n} /\ Held(t)' = {} /\ \A u \in Threads \ {t} : Held(u)' = Held(u)
      BY <1>1, <1>2, <1>7, <3>1 DEF Held, Others
    <3>3. n \in logsInUse /\ \A u \in Threads \ {t} : n \notin Held(u)
      BY <3>2 DEF Located
    <3>4. n \notin inUse
      BY <3>1, LeakAssumption DEF LeakTypeOK
    <3>5. Listed' = Listed
      <4>1. ASSUME NEW q PROVE q \in Listed' <=> q \in Listed
        BY <2>1, <2>2, <3>4 DEF Listed
      <4> QED
        BY <4>1 DEF Listed
    <3>6. \A p \in Packets : Ran(S2[p]) = IF p = l THEN Ran(S[p]) \cup {n} ELSE Ran(S[p])
      BY <1>5, <1>6 DEF Lists
    <3>7. ASSUME NEW p \in Packets, NEW x \in Ran(S2[p])
          PROVE  /\ x \in logsInUse' /\ p \in inUse' /\ \A q \in Packets : x \in Ran(S2[q]) => q = p
                 /\ \A u \in Threads : x \notin Held(u)'
      <4>1. \A q \in Packets : n \notin Ran(S[q])
        BY <1>3 DEF Lists
      <4>2. CASE x = n
        BY <2>1, <3>1, <3>2, <3>3, <3>6, <4>1, <4>2
      <4>3. CASE x # n
        <5>1. x \in Ran(S[p])
          BY <3>6, <4>3
        <5>2. /\ x \in logsInUse /\ p \in inUse /\ \A q \in Packets : x \in Ran(S[q]) => q = p
              /\ \A u \in Threads : x \notin Held(u)
          BY <5>1 DEF Located
        <5> QED
          BY <2>1, <3>2, <3>6, <4>3, <5>2
      <4> QED
        BY <4>2, <4>3
    <3>8. ASSUME NEW u \in Threads, NEW x \in Held(u)'
          PROVE  x \in logsInUse' /\ \A v \in Threads : x \in Held(v)' => v = u
      <4>1. u # t /\ x \in Held(u)
        BY <3>2
      <4>2. x \in logsInUse /\ \A v \in Threads : x \in Held(v) => v = u
        BY <4>1 DEF Located
      <4> QED
        BY <2>1, <3>2, <4>2
    <3>9. ASSUME NEW x \in logsInUse'
          PROVE  (\E p \in Packets : x \in Ran(S2[p])) \/ \E u \in Threads : x \in Held(u)'
      <4>1. (\E p \in Packets : x \in Ran(S[p])) \/ \E u \in Threads : x \in Held(u)
        BY <2>1 DEF Located
      <4>2. CASE x = n
        BY <3>1, <3>6, <4>2
      <4>3. CASE x # n
        BY <3>2, <3>6, <4>1, <4>3
      <4> QED
        BY <4>2, <4>3
    <3>10. Ran(S2[debugList]) = Listed'
      <4>1. debugList \in Lists \ {l}
        BY <2>4 DEF Lists
      <4> QED
        BY <1>5, <3>5, <4>1 DEF Located
    <3> QED
      BY <3>7, <3>8, <3>9, <3>10 DEF Located
  <2> QED
    BY <2>3, <2>4
<1>10. /\ IF pHead[l] = NULL
          THEN pHead'[l] = n /\ pNext' = [pNext EXCEPT ![n] = NULL] /\ pPrev' = [pPrev EXCEPT ![n] = NULL]
          ELSE pHead'[l] = pHead[l] /\ pNext' = [pNext EXCEPT ![pTail[l]] = n] /\ pPrev' = [pPrev EXCEPT ![n] = pTail[l]]
       /\ \A m \in Lists \ {l} : pHead'[m] = pHead[m] /\ pTail'[m] = pTail[m]
       /\ size' = size
  BY <1>1, <1>2 DEF LinkLast, LeakTypeOK
<1>11. Chain(s, pHead[l], pTail[l], size[l], pNext, pPrev, FALSE, NULL)
  BY <1>4, <1>8, ChainIs
<1>12. /\ Chain(Append(s, n), pHead'[l], pTail'[l], size[l], pNext', pPrev', TRUE, NULL)
       /\ \A y \in Nodes : y \notin Ran(s) \cup {n} => pNext'[y] = pNext[y] /\ pPrev'[y] = pPrev[y]
  <2>1. n \notin Ran(s)
    BY <1>3, <1>4
  <2>2. pNext \in [Nodes -> Nodes \cup {NULL}] /\ pPrev \in [Nodes -> Nodes \cup {NULL}]
    BY DEF LeakTypeOK
  <2> QED
    <3>1. PICK h, tl, c, nx, pv, h2, tl2, nx2, pv2 :
            /\ h = pHead[l] /\ tl = pTail[l] /\ c = size[l] /\ nx = pNext /\ pv = pPrev
            /\ h2 = pHead'[l] /\ tl2 = pTail'[l] /\ nx2 = pNext' /\ pv2 = pPrev'
      OBVIOUS
    <3>2. Chain(s, h, tl, c, nx, pv, FALSE, NULL)
      BY <1>11, <3>1
    <3>3. Joined(h, tl, nx, pv, h2, nx2, pv2, n)
      BY <1>10, <3>1 DEF Joined
    <3>4. nx \in [Nodes -> Nodes \cup {NULL}] /\ pv \in [Nodes -> Nodes \cup {NULL}] /\ nx[n] = NULL
      BY <1>3, <2>2, <3>1
    <3>5. n \in Nodes /\ s \in Seq(Nodes) /\ NULL \notin Nodes
      BY <1>2, <1>4, NodesFinite
    <3>6. /\ Chain(Longer(s, n), h2, tl2, c, nx2, pv2, TRUE, NULL)
          /\ SameBut(Ran(s) \cup {n}, nx, nx2) /\ SameBut(Ran(s) \cup {n}, pv, pv2)
      BY <2>1, <3>2, <3>3, <3>4, <3>5, ChainPush
    <3> QED
      BY <3>1, <3>6 DEF Longer, SameBut
<1>13. Pushing(l)' = TRUE /\ Skipped(l)' = NULL
  BY <1>7, <1>8, LeakAssumption DEF Pushing, Skipped
<1>14. Chain(S2[l], pHead'[l], pTail'[l], size'[l], pNext', pPrev', Pushing(l)', Skipped(l)')
  BY <1>5, <1>10, <1>12, <1>13, Zenon
<1>15. \A u \in Threads \ {t} : list[u] = l => pc[u] \notin Inside \cup {"free"}
  BY <1>1, <1>2, <1>8, Alone
<1>16. \A m \in Lists \ {l} : cs'[m] = cs[m] /\ cs[m] # t
  BY <1>1, <1>8, SectionIs DEF Inside
<1>17. \A m \in Lists \ {l} : Ran(S2[l]) \cap Ran(S[m]) = {}
  BY <1>3, <1>6, ListsApart
<1>18. Detail(t, S2[list[t]])'
  <2>1. n = At(S2[l], Len(S2[l]))
    <3>1. PICK r : /\ r = Append(s, n) /\ r \in Seq(Nodes) /\ Len(r) = Len(s) + 1 /\ Len(s) \in Nat
                   /\ r[Len(s) + 1] = n
      BY AppendIs
    <3>2. Len(r) \in 1 .. Len(r) /\ r[Len(r)] = n
      BY <3>1
    <3> QED
      BY <1>5, <3>1, <3>2 DEF At
  <2> QED
    BY <1>7, <2>1 DEF Detail
<1>19. \A y \in Nodes : y \notin Ran(S[l]) \cup Ran(S2[l]) => pNext'[y] = pNext[y] /\ pPrev'[y] = pPrev[y]
  BY <1>4, <1>6, <1>12
<1>20. \A m \in Lists \ {l} : /\ pHead'[m] = pHead[m] /\ pTail'[m] = pTail[m] /\ size'[m] = size[m]
                               /\ cs'[m] = cs[m] /\ cs[m] # t
  BY <1>10, <1>16
<1>21. \A y \in Ran(S[l]) : y \notin Ran(S2[l]) => pNext'[y] = NULL
  BY <1>6
<1>22. l \in Lists /\ S2 \in [Lists -> Seq(Nodes)] /\ \A m \in Lists \ {l} : S2[m] = S[m]
  BY <1>2, <1>5
<1>23. Shaped(S2)'
  BY <1>7, <1>14, <1>15, <1>17, <1>18, <1>19, <1>20, <1>21, <1>22, ShapedKept
<1> QED
  BY <1>5, <1>9, <1>23

\* The rest of push_back: the element becomes the tail.
LEMMA EndPushBackStep ==
  ASSUME LeakTypeOK, ControlInv, NEW S, Located(S), Shaped(S), NEW t \in Threads, EndPushBack(t)
  PROVE  Located(S)' /\ Shaped(S)'
<1>1. /\ pc[t] = "pushed" /\ pTail' = [pTail EXCEPT ![list[t]] = elem[t]]
      /\ pNext' = [pNext EXCEPT ![elem[t]] = NULL] /\ size' = [size EXCEPT ![list[t]] = @ + 1]
      /\ Leave(list[t]) /\ Work(t, "idle", NULL, NULL) /\ UNCHANGED <<pHead, pPrev, poolVars>>
  BY DEF EndPushBack, Return
<1>2. PICK l \in Lists, n \in Nodes : l = list[t] /\ n = elem[t] /\ cs[l] = t
  BY <1>1, StageIs DEF Inside
<1>3. pc'[t] = "idle" /\ Others(t)
  BY <1>1, WorkIs
<1>4. cs'[l] = NULL /\ \A m \in Lists \ {l} : cs'[m] = cs[m]
  BY <1>1, <1>2, LeaveIs
<1>5. Held(t)' = Held(t) /\ Off(t)' = Off(t)
  BY <1>1, <1>3 DEF Held, Off, Freeing
<1>6. inUse' = inUse /\ logsInUse' = logsInUse
  BY <1>1 DEF poolVars
<1>7. Located(S)'
  BY <1>3, <1>5, <1>6, ListedKept, LocatedKept
<1>8. PICK s \in Seq(Nodes) : s = S[l]
  BY ListsApart
<1>9. PICK h, tl, c, nx, pv :
        h = pHead[l] /\ tl = pTail[l] /\ c = size[l] /\ nx = pNext /\ pv = pPrev
  OBVIOUS
<1>10. Chain(s, h, tl, c, nx, pv, TRUE, NULL)
  BY <1>1, <1>2, <1>8, <1>9, ChainIs
<1>11. n = At(s, Len(s))
  BY <1>1, <1>2, <1>8 DEF Shaped, Detail
<1>12. nx[n] = NULL /\ Chain(s, h, n, c + 1, nx, pv, FALSE, NULL)
  <2>1. NULL \notin Nodes /\ c \in Int /\ s \in Seq(Nodes)
    BY <1>2, <1>8, <1>9, NodesFinite DEF LeakTypeOK
  <2> QED
    BY <1>10, <1>11, <2>1, ChainEndPush
<1>13. /\ pHead'[l] = h /\ pTail'[l] = n /\ size'[l] = c + 1 /\ pNext' = nx /\ pPrev' = pv /\ pNext' = pNext
       /\ \A m \in Lists \ {l} : pHead'[m] = pHead[m] /\ pTail'[m] = pTail[m] /\ size'[m] = size[m]
  BY <1>1, <1>2, <1>9, <1>12 DEF LeakTypeOK
<1>14. Pushing(l)' = FALSE /\ Skipped(l)' = NULL
  BY <1>4 DEF Pushing, Skipped
<1>15. Chain(S[l], pHead'[l], pTail'[l], size'[l], pNext', pPrev', Pushing(l)', Skipped(l)')
  <2>1. Chain(s, h, n, c + 1, nx, pv, FALSE, NULL)
    BY <1>12
  <2>2. S[l] = s /\ pHead'[l] = h /\ pTail'[l] = n /\ size'[l] = c + 1 /\ pNext' = nx /\ pPrev' = pv
    BY <1>8, <1>13
  <2> QED
    BY <1>14, <2>1, <2>2, Zenon
<1>16. \A m \in Lists \ {l} : /\ pHead'[m] = pHead[m] /\ pTail'[m] = pTail[m] /\ size'[m] = size[m]
                               /\ cs'[m] = cs[m] /\ cs[m] # t
  BY <1>2, <1>4, <1>13, SectionIs
<1>17. \A y \in Nodes : y \notin Ran(S[l]) \cup Ran(S[l]) => pNext'[y] = pNext[y] /\ pPrev'[y] = pPrev[y]
  BY <1>1, <1>13
<1>18. \A m \in Lists \ {l} : Ran(S[l]) \cap Ran(S[m]) = {}
  BY ListsApart
<1>19. S \in [Lists -> Seq(Nodes)] /\ (\A m \in Lists \ {l} : S[m] = S[m]) /\ l \in Lists /\ S[l] = S[l]
  BY <1>2 DEF Located
<1>20. \A y \in Ran(S[l]) : y \notin Ran(S[l]) => pNext'[y] = NULL
  OBVIOUS
<1>21. Others(t) /\ (pc'[t] # "idle" => Detail(t, S[list[t]])')
  BY <1>3
<1>22. S[l] = S[l] \/ \A u \in Threads \ {t} : list[u] = l => pc[u] \notin Inside \cup {"free"}
  OBVIOUS
<1>23. Shaped(S)'
  BY <1>15, <1>16, <1>17, <1>18, <1>19, <1>20, <1>21, <1>22, ShapedKept
<1> QED
  BY <1>7, <1>23

\* The link of an element of a list that is whole.
LEMMA NextIs ==
  ASSUME LeakTypeOK, NEW S, Located(S), NEW l \in Lists, NEW k \in 1 .. Len(S[l]),
         Chain(S[l], pHead[l], pTail[l], size[l], pNext, pPrev, FALSE, NULL)
  PROVE  pNext[S[l][k]] = At(S[l], k + 1)
<1>1. PICK s, h, tl, c, nx, pv :
        s = S[l] /\ h = pHead[l] /\ tl = pTail[l] /\ c = size[l] /\ nx = pNext /\ pv = pPrev
  OBVIOUS
<1>2. s \in Seq(Nodes) /\ Chain(s, h, tl, c, nx, pv, FALSE, NULL) /\ NULL \notin Nodes
  BY <1>1, ListsApart, NodesFinite
<1>3. Linked(s, nx, pv)
  BY <1>2, ChainLinks
<1> QED
  BY <1>1, <1>3 DEF Linked

\* remove up to the side of the predecessor: the element is passed over.
LEMMA PassedOver ==
  ASSUME LeakTypeOK, ControlInv, NEW S, Located(S), Shaped(S), NEW t \in Threads, Others(t), NEW l \in Lists,
         NEW k \in 1 .. Len(S[l]), NEW n, n = S[l][k], UnlinkPrev(l, n),
         Chain(S[l], pHead[l], pTail[l], size[l], pNext, pPrev, FALSE, NULL),
         UNCHANGED <<pTail, size, pPrev>>, cs'[l] = t, pc'[t] \in {"removed", "unlink"}, elem'[t] = n,
         \A m \in Lists \ {l} : cs'[m] = cs[m] /\ cs[m] # t, Detail(t, S[list[t]])'
  PROVE  Shaped(S)'
<1>1. PICK s \in Seq(Nodes) : s = S[l]
  BY ListsApart
<1>2. PICK h, tl, c, nx, pv, h2, nx2 :
        /\ h = pHead[l] /\ tl = pTail[l] /\ c = size[l] /\ nx = pNext /\ pv = pPrev
        /\ h2 = pHead'[l] /\ nx2 = pNext'
  OBVIOUS
<1>3. n \in Nodes /\ k \in 1 .. Len(s) /\ n = s[k]
  BY <1>1
<1>4. Passed(h, nx, pv, h2, nx2, n)
  BY <1>2, <1>3 DEF Passed, UnlinkPrev, LeakTypeOK
<1>5. Chain(s, h, tl, c, nx, pv, FALSE, NULL)
  BY <1>1, <1>2
<1>6. nx \in [Nodes -> Nodes \cup {NULL}] /\ NULL \notin Nodes
  BY <1>2, NodesFinite DEF LeakTypeOK
<1>7. Chain(s, h2, tl, c, nx2, pv, FALSE, n) /\ SameBut(Ran(s), nx, nx2)
  <2>1. Place(s, k, n) /\ s \in Seq(Nodes)
    BY <1>1, <1>3 DEF Place
  <2> QED
    BY <1>4, <1>5, <1>6, <2>1, ChainUnlinkPrev
<1>8. Pushing(l)' = FALSE /\ Skipped(l)' = n
  BY LeakAssumption DEF Pushing, Skipped
<1>9. Chain(S[l], pHead'[l], pTail'[l], size'[l], pNext', pPrev', Pushing(l)', Skipped(l)')
  <2>1. S[l] = s /\ pHead'[l] = h2 /\ pTail'[l] = tl /\ size'[l] = c /\ pNext' = nx2 /\ pPrev' = pv
    BY <1>1, <1>2
  <2> QED
    BY <1>7, <1>8, <2>1, Zenon
<1>10. \A m \in Lists \ {l} : /\ pHead'[m] = pHead[m] /\ pTail'[m] = pTail[m] /\ size'[m] = size[m]
                               /\ cs'[m] = cs[m] /\ cs[m] # t
  BY DEF UnlinkPrev, LeakTypeOK
<1>11. \A y \in Nodes : y \notin Ran(S[l]) \cup Ran(S[l]) => pNext'[y] = pNext[y] /\ pPrev'[y] = pPrev[y]
  BY <1>1, <1>2, <1>7 DEF SameBut
<1>12. \A m \in Lists \ {l} : Ran(S[l]) \cap Ran(S[m]) = {}
  BY ListsApart
<1>13. S \in [Lists -> Seq(Nodes)] /\ (\A m \in Lists \ {l} : S[m] = S[m]) /\ l \in Lists /\ S[l] = S[l]
  BY DEF Located
<1>14. \A y \in Ran(S[l]) : y \notin Ran(S[l]) => pNext'[y] = NULL
  OBVIOUS
<1> QED
  BY <1>9, <1>10, <1>11, <1>12, <1>13, <1>14, ShapedKept

\* The lists without one element.
Shortened(S2, S, l, k, n) ==
    /\ S2 \in [Lists -> Seq(Nodes)] /\ S2[l] = Without(S[l], k) /\ Ran(S2[l]) = Ran(S[l]) \ {n}
    /\ \A m \in Lists \ {l} : S2[m] = S[m]

LEMMA Shorter ==
  ASSUME LeakTypeOK, NEW S, Located(S), Shaped(S), NEW l \in Lists, NEW k, NEW n, Place(S[l], k, n)
  PROVE  \E S2 : Shortened(S2, S, l, k, n)
<1>1. PICK s \in Seq(Nodes) : s = S[l]
  BY ListsApart
<1>2. k \in 1 .. Len(s) /\ n = s[k] /\ \A i, j \in 1 .. Len(s) : s[i] = s[j] => i = j
  BY <1>1 DEF Place, Shaped, Chain
<1>3. Without(s, k) \in Seq(Nodes)
  BY <1>2, WithoutIs
<1>4. PICK S2 \in [Lists -> Seq(Nodes)] : S2[l] = Without(s, k) /\ \A m \in Lists \ {l} : S2[m] = S[m]
  <2>1. PICK Q : Q = Seq(Nodes)
    OBVIOUS
  <2>2. S \in [Lists -> Q] /\ Without(s, k) \in Q
    BY <1>3, <2>1 DEF Located
  <2>3. PICK S2 : S2 = [S EXCEPT ![l] = Without(s, k)]
    OBVIOUS
  <2>4. S2 \in [Lists -> Q] /\ S2[l] = Without(s, k) /\ \A m \in Lists \ {l} : S2[m] = S[m]
    BY <2>2, <2>3
  <2> QED
    BY <2>1, <2>4
<1>5. Ran(Without(s, k)) = Ran(s) \ {s[k]}
  BY <1>2, WithoutRan
<1> QED
  BY <1>1, <1>2, <1>4, <1>5 DEF Shortened

\* What ShapedKept asks of a step that turns list l of S into that of S2.
Kept(S, S2, l, t) ==
    /\ S2 \in [Lists -> Seq(Nodes)] /\ \A m \in Lists \ {l} : S2[m] = S[m]
    /\ S2[l] = S[l] \/ \A u \in Threads \ {t} : list[u] = l => pc[u] \notin Inside \cup {"free"}
    /\ \A m \in Lists \ {l} : /\ pHead'[m] = pHead[m] /\ pTail'[m] = pTail[m] /\ size'[m] = size[m]
                              /\ cs'[m] = cs[m] /\ cs[m] # t
    /\ \A n \in Nodes : n \notin Ran(S[l]) \cup Ran(S2[l]) => pNext'[n] = pNext[n] /\ pPrev'[n] = pPrev[n]
    /\ \A m \in Lists \ {l} : Ran(S2[l]) \cap Ran(S[m]) = {}
    /\ Chain(S2[l], pHead'[l], pTail'[l], size'[l], pNext', pPrev', Pushing(l)', Skipped(l)')
    /\ \A n \in Ran(S[l]) : n \notin Ran(S2[l]) => pNext'[n] = NULL
    /\ pc'[t] # "idle" => Detail(t, S2[list[t]])'

LEMMA KeptShaped ==
  ASSUME LeakTypeOK, ControlInv, NEW S, Located(S), Shaped(S), NEW t \in Threads, Others(t),
         NEW l \in Lists, NEW S2, Kept(S, S2, l, t)
  PROVE  Shaped(S2)'
BY ShapedKept DEF Kept

\* The rest of remove, which takes the element out of the list.
LEMMA TakenOut ==
  ASSUME LeakTypeOK, ControlInv, NEW S, Located(S), Shaped(S), NEW t \in Threads, Others(t), NEW l \in Lists,
         l = list[t], pc[t] \in {"removed", "unlink"}, cs[l] = t,
         NEW k, NEW n, Place(S[l], k, n), n = elem[t], UnlinkNext(l, n), UNCHANGED pHead,
         cs'[l] = NULL \/ (cs'[l] = t /\ pc'[t] = "freeLog"), \A m \in Lists \ {l} : cs'[m] = cs[m],
         NEW S2, Shortened(S2, S, l, k, n), Detail(t, S2[list[t]])'
  PROVE  Shaped(S2)'
<1>a. PICK T \in [Lists -> Seq(Nodes)] : T = S2
  BY DEF Shortened
<1>0. /\ T \in [Lists -> Seq(Nodes)] /\ T[l] = Without(S[l], k) /\ Ran(T[l]) = Ran(S[l]) \ {n}
      /\ \A m \in Lists \ {l} : T[m] = S[m]
  BY <1>a DEF Shortened
<1>1. PICK s \in Seq(Nodes) : s = S[l]
  BY ListsApart
<1>2. PICK h, tl, c, nx, pv, tl2, nx2, pv2 :
        /\ h = pHead[l] /\ tl = pTail[l] /\ c = size[l] /\ nx = pNext /\ pv = pPrev
        /\ tl2 = pTail'[l] /\ nx2 = pNext' /\ pv2 = pPrev'
  OBVIOUS
<1>3. /\ n \in Nodes /\ k \in 1 .. Len(s) /\ n = s[k] /\ NULL \notin Nodes /\ s \in Seq(Nodes)
      /\ c \in Int /\ nx \in [Nodes -> Nodes \cup {NULL}] /\ pv \in [Nodes -> Nodes \cup {NULL}]
  <2>1. k \in 1 .. Len(s) /\ n = s[k] /\ s \in Seq(Nodes)
    BY <1>1 DEF Place
  <2>2. n \in Nodes
    BY <2>1
  <2> QED
    BY <1>2, <2>1, <2>2, NodesFinite DEF LeakTypeOK
<1>4. Closed(tl, nx, pv, tl2, nx2, pv2, n) /\ size'[l] = c - 1
  BY <1>2, <1>3 DEF Closed, UnlinkNext, LeakTypeOK
<1>5. Chain(s, h, tl, c, nx, pv, FALSE, n)
  BY <1>1, <1>2, ChainIs
<1>6. /\ Chain(Without(s, k), h, tl2, c - 1, nx2, pv2, FALSE, NULL)
      /\ SameBut(Ran(s), pv, pv2) /\ SameBut({n}, nx, nx2)
  <2>1. Place(s, k, n)
    BY <1>3 DEF Place
  <2> QED
    BY <1>3, <1>4, <1>5, <2>1, ChainUnlinkNext
<1>7. Pushing(l)' = FALSE /\ Skipped(l)' = NULL
  BY LeakAssumption DEF Pushing, Skipped
<1>8. Chain(T[l], pHead'[l], pTail'[l], size'[l], pNext', pPrev', Pushing(l)', Skipped(l)')
  <2>1. T[l] = Without(s, k) /\ pHead'[l] = h /\ pTail'[l] = tl2 /\ size'[l] = c - 1 /\ pNext' = nx2 /\ pPrev' = pv2
    BY <1>0, <1>1, <1>2, <1>4
  <2> QED
    BY <1>6, <1>7, <2>1, Zenon
<1>9. \A m \in Lists \ {l} : /\ pHead'[m] = pHead[m] /\ pTail'[m] = pTail[m] /\ size'[m] = size[m]
                               /\ cs'[m] = cs[m] /\ cs[m] # t
  <2>1. \A m \in Lists \ {l} : pTail'[m] = pTail[m] /\ size'[m] = size[m]
    BY DEF UnlinkNext, LeakTypeOK
  <2> QED
    BY <2>1, SectionIs
<1>10. \A y \in Nodes : y \notin Ran(S[l]) \cup Ran(T[l]) => pNext'[y] = pNext[y] /\ pPrev'[y] = pPrev[y]
  <2>1. n \in Ran(S[l])
    BY DEF Ran, Place
  <2> QED
    BY <1>1, <1>2, <1>6, <2>1 DEF SameBut
<1>11. \A m \in Lists \ {l} : Ran(T[l]) \cap Ran(S[m]) = {}
  BY <1>0, ListsApart
<1>12. \A y \in Ran(S[l]) : y \notin Ran(T[l]) => pNext'[y] = NULL
  BY <1>0, <1>2, <1>3, <1>4 DEF Closed
<1>13. \A u \in Threads \ {t} : list[u] = l => pc[u] \notin Inside \cup {"free"}
  BY Alone
<1>14. T[l] = S[l] \/ \A u \in Threads \ {t} : list[u] = l => pc[u] \notin Inside \cup {"free"}
  BY <1>13
<1>15. \A m \in Lists \ {l} : T[m] = S[m]
  BY <1>0
<1>16. pc'[t] # "idle" => Detail(t, T[list[t]])'
  BY <1>a
<1>17. Kept(S, T, l, t)
  BY <1>8, <1>9, <1>10, <1>11, <1>12, <1>14, <1>15, <1>16 DEF Kept
<1>18. Shaped(T)'
  BY <1>17, KeptShaped
<1> QED
  BY <1>a, <1>18, Zenon

\* What a thread is about to remove from debugList is there.
LEMMA Enlisted ==
  ASSUME LeakTypeOK, ControlInv, NEW S, Located(S), NEW t \in Threads, pc[t] \in {"remove", "removed"}
  PROVE  \E k \in 1 .. Len(S[debugList]) : elem[t] = S[debugList][k]
<1>1. list[t] = debugList /\ elem[t] \in Packets /\ elem[t] \in inUse
  BY StageIs DEF ControlInv, Stage
<1>2. elem[t] \in Charge(t) /\ Off(t) = {}
  BY <1>1 DEF Charge, Freeing, Off
<1>3. \A u \in Threads : elem[t] \notin Off(u)
  BY <1>1, <1>2, OffCharge DEF ControlInv
<1>4. elem[t] \in Ran(S[debugList])
  BY <1>1, <1>3 DEF Located, Listed
<1> QED
  BY <1>4 DEF Ran

LEMMA RemoveStep ==
  ASSUME LeakTypeOK, ControlInv, NEW S, Located(S), Shaped(S), NEW t \in Threads, Remove(t)
  PROVE  Located(S)' /\ Shaped(S)'
<1>1. /\ pc[t] = "remove" /\ Enter(t, debugList) /\ UnlinkPrev(debugList, elem[t]) /\ Goto(t, "removed")
      /\ UNCHANGED <<pTail, size, pPrev, poolVars, list, elem, next>>
  BY DEF Remove
<1>2. debugList \in Lists
  BY DEF Lists
<1>3. pc'[t] = "removed" /\ Others(t)
  BY <1>1, GotoIs DEF Others, Inside
<1>4. cs[debugList] = NULL /\ cs'[debugList] = t /\ \A m \in Lists \ {debugList} : cs'[m] = cs[m]
  BY <1>1, <1>2, EnterIs
<1>5. Held(t)' = Held(t) /\ Off(t)' = Off(t)
  BY <1>1, <1>3 DEF Held, Off, Freeing
<1>6. inUse' = inUse /\ logsInUse' = logsInUse
  BY <1>1 DEF poolVars
<1>7. Located(S)'
  BY <1>3, <1>5, <1>6, ListedKept, LocatedKept
<1>8. PICK k \in 1 .. Len(S[debugList]) : elem[t] = S[debugList][k]
  BY <1>1, Enlisted
<1>9. Chain(S[debugList], pHead[debugList], pTail[debugList], size[debugList], pNext, pPrev, FALSE, NULL)
  BY <1>2, <1>4, ChainIs
<1>10. \A m \in Lists \ {debugList} : cs'[m] = cs[m] /\ cs[m] # t
  BY <1>1, <1>4, SectionIs DEF Inside
<1>11. Detail(t, S[list[t]])'
  BY <1>3 DEF Detail
<1>12. pc'[t] \in {"removed", "unlink"} /\ elem'[t] = elem[t]
  BY <1>1, <1>3
<1>13. Shaped(S)'
  BY <1>1, <1>2, <1>3, <1>4, <1>8, <1>9, <1>10, <1>11, <1>12, PassedOver
<1> QED
  BY <1>7, <1>13

LEMMA EndRemoveStep ==
  ASSUME LeakTypeOK, ControlInv, NEW S, Located(S), Shaped(S), NEW t \in Threads, EndRemove(t)
  PROVE  \E S2 \in [Lists -> Seq(Nodes)] : Located(S2)' /\ Shaped(S2)'
<1>1. /\ pc[t] = "removed" /\ UnlinkNext(debugList, elem[t]) /\ Leave(debugList)
      /\ Work(t, "drain", elem[t], NULL) /\ UNCHANGED <<pHead, poolVars>>
  BY DEF EndRemove
<1>2. debugList \in Lists /\ list[t] = debugList /\ cs[debugList] = t /\ elem[t] \in Packets
  BY <1>1, StageIs DEF Lists, Inside
<1>3. pc'[t] = "drain" /\ list'[t] = elem[t] /\ Others(t)
  BY <1>1, WorkIs
<1>4. cs'[debugList] = NULL /\ \A m \in Lists \ {debugList} : cs'[m] = cs[m]
  BY <1>1, <1>2, LeaveIs
<1>5. PICK k \in 1 .. Len(S[debugList]) : elem[t] = S[debugList][k]
  BY <1>1, Enlisted
<1>6. PICK n : n = elem[t] /\ Place(S[debugList], k, n)
  BY <1>5 DEF Place
<1>7. PICK S2 : Shortened(S2, S, debugList, k, n)
  BY <1>2, <1>6, Shorter
<1>8. Shaped(S2)'
  <2>1. Detail(t, S2[list[t]])'
    BY <1>3 DEF Detail
  <2>2. /\ pc[t] \in {"removed", "unlink"} /\ pHead' = pHead /\ n = elem[t] /\ UnlinkNext(debugList, n)
        /\ cs'[debugList] = NULL \/ (cs'[debugList] = t /\ pc'[t] = "freeLog")
    BY <1>1, <1>4, <1>6
  <2> QED
    BY <1>2, <1>3, <1>4, <1>6, <1>7, <2>1, <2>2, TakenOut
<1>9. Held(t)' = Held(t) /\ inUse' = inUse /\ logsInUse' = logsInUse
  BY <1>1, <1>3 DEF Held, poolVars
<1>10. Off(t) = {} /\ Off(t)' = {elem[t]} /\ \A u \in Threads \ {t} : Off(u)' = Off(u)
  BY <1>1, <1>3 DEF Off, Freeing, Others
<1>11. Listed' = Listed \ {elem[t]}
  <2>1. ASSUME NEW q PROVE q \in Listed' <=> q \in Listed \ {elem[t]}
    BY <1>9, <1>10 DEF Listed
  <2> QED
    BY <2>1 DEF Listed
<1>12. Ran(S2[debugList]) = Listed' /\ \A p \in Packets : S2[p] = S[p]
  BY <1>6, <1>7, <1>11, LeakAssumption DEF Shortened, Located, Lists
<1>13. Located(S2)'
  BY <1>3, <1>7, <1>9, <1>12, LocatedDebug DEF Shortened
<1> QED
  BY <1>7, <1>8, <1>13 DEF Shortened

\* The first log of the list is passed over.
LEMMA DrainRemoveStep ==
  ASSUME LeakTypeOK, ControlInv, NEW S, Located(S), Shaped(S), NEW t \in Threads, DrainRemove(t)
  PROVE  Located(S)' /\ Shaped(S)'
<1>1. /\ pc[t] = "loop" /\ elem[t] # NULL /\ UnlinkPrev(list[t], elem[t])
      /\ next' = [next EXCEPT ![t] = pNext[elem[t]]] /\ Goto(t, "unlink")
      /\ UNCHANGED <<pTail, size, cs, pPrev, poolVars, list, elem>>
  BY DEF DrainRemove
<1>2. PICK l \in Lists : l = list[t] /\ cs[l] = t
  BY <1>1, StageIs DEF Inside
<1>3. next'[t] = pNext[elem[t]] /\ \A u \in Threads \ {t} : next'[u] = next[u]
  BY <1>1 DEF LeakTypeOK
<1>4. pc'[t] = "unlink" /\ Others(t) /\ list'[t] = l /\ elem'[t] = elem[t]
  BY <1>1, <1>2, <1>3, GotoIs DEF Others, Inside
<1>5. Held(t)' = Held(t) /\ Off(t)' = Off(t)
  BY <1>1, <1>4 DEF Held, Off, Freeing
<1>6. inUse' = inUse /\ logsInUse' = logsInUse
  BY <1>1 DEF poolVars
<1>7. Located(S)'
  BY <1>4, <1>5, <1>6, ListedKept, LocatedKept
<1>8. S[l] \in Seq(Nodes) /\ elem[t] = At(S[l], 1)
  BY <1>1, <1>2, ListsApart DEF Shaped, Detail
<1>9. 1 \in 1 .. Len(S[l]) /\ elem[t] = S[l][1] /\ S[l] # <<>>
  BY <1>1, <1>8 DEF At
<1>10. Chain(S[l], pHead[l], pTail[l], size[l], pNext, pPrev, FALSE, NULL)
  BY <1>1, <1>2, ChainIs
<1>11. \A m \in Lists \ {l} : cs'[m] = cs[m] /\ cs[m] # t
  BY <1>1, <1>2, SectionIs
<1>12. cs'[l] = t /\ pc'[t] \in {"removed", "unlink"} /\ UnlinkPrev(l, elem[t]) /\ UNCHANGED <<pTail, size, pPrev>>
  BY <1>1, <1>2, <1>4
<1>13. pNext[elem[t]] = At(S[l], 2)
  <2>1. PICK k : k = 1
    OBVIOUS
  <2>2. pNext[S[l][k]] = At(S[l], k + 1)
    BY <1>9, <1>10, <2>1, NextIs
  <2> QED
    BY <1>9, <2>1, <2>2
<1>14. Detail(t, S[list[t]])'
  BY <1>3, <1>4, <1>8, <1>9, <1>13 DEF Detail
<1>15. Shaped(S)'
  <2>1. PICK k, n : k = 1 /\ n = elem[t]
    OBVIOUS
  <2>2. k \in 1 .. Len(S[l]) /\ n = S[l][k] /\ UnlinkPrev(l, n) /\ elem'[t] = n
    BY <1>4, <1>9, <1>12, <2>1
  <2> QED
    BY <1>4, <1>10, <1>11, <1>12, <1>14, <2>2, PassedOver
<1> QED
  BY <1>7, <1>15

\* The first log leaves the list and is in the hands of the thread that frees it.
LEMMA DrainUnlinkStep ==
  ASSUME LeakTypeOK, ControlInv, NEW S, Located(S), Shaped(S), NEW t \in Threads, DrainUnlink(t)
  PROVE  \E S2 \in [Lists -> Seq(Nodes)] : Located(S2)' /\ Shaped(S2)'
<1>1. /\ pc[t] = "unlink" /\ UnlinkNext(list[t], elem[t]) /\ Goto(t, "freeLog")
      /\ UNCHANGED <<pHead, cs, poolVars, list, elem, next>>
  BY DEF DrainUnlink
<1>2. PICK l \in Packets : l = list[t] /\ l \in Lists /\ l # debugList /\ cs[l] = t
  BY <1>1, StageIs DEF Inside, Freeing
<1>3. pc'[t] = "freeLog" /\ Others(t) /\ list'[t] = l /\ elem'[t] = elem[t] /\ next'[t] = next[t]
  BY <1>1, <1>2, GotoIs DEF Others, Inside
<1>4. S[l] \in Seq(Nodes) /\ elem[t] = At(S[l], 1) /\ S[l] # <<>> /\ next[t] = At(S[l], 2)
  BY <1>1, <1>2, ListsApart DEF Shaped, Detail
<1>5. 1 \in 1 .. Len(S[l]) /\ elem[t] = S[l][1]
  BY <1>4 DEF At
<1>6. elem[t] \in Ran(S[l]) /\ elem[t] \in Logs
  <2>1. elem[t] \in Ran(S[l])
    BY <1>5 DEF Ran
  <2> QED
    BY <1>2, <2>1, ListsApart
<1>7. /\ pc[t] \in {"removed", "unlink"} /\ pHead' = pHead /\ UnlinkNext(l, elem[t])
      /\ cs'[l] = t /\ \A m \in Lists \ {l} : cs'[m] = cs[m]
  BY <1>1, <1>2
<1>8. PICK S2 : Shortened(S2, S, l, 1, elem[t])
  <2>1. PICK k, n : k = 1 /\ n = elem[t]
    OBVIOUS
  <2>2. Place(S[l], k, n) /\ l \in Lists
    BY <1>2, <1>5, <2>1 DEF Place
  <2>3. \E S2 : Shortened(S2, S, l, k, n)
    BY <2>2, Shorter
  <2> QED
    BY <2>1, <2>3
<1>9. Detail(t, S2[list[t]])'
  <2>1. PICK r : /\ r = Without(S[l], 1) /\ r \in Seq(Nodes) /\ Len(r) = Len(S[l]) - 1 /\ Len(S[l]) \in Nat \ {0}
                 /\ \A i \in 1 .. Len(S[l]) - 1 : r[i] = IF i < 1 THEN S[l][i] ELSE S[l][i + 1]
    BY <1>4, <1>5, WithoutIs
  <2>2. PICK m \in Nat : m = Len(S[l]) /\ m # 0
    BY <2>1
  <2>3. At(S[l], 2) = At(r, 1)
    <3>1. CASE m = 1
      BY <2>1, <2>2, <3>1 DEF At
    <3>2. CASE m # 1
      <4>1. 1 \in 1 .. m - 1 /\ 2 \in 1 .. m
        <5>1. m \in Nat /\ m # 0 /\ m # 1
          BY <2>2, <3>2
        <5> QED
          BY <5>1
      <4>2. \A i \in 1 .. m - 1 : r[i] = IF i < 1 THEN S[l][i] ELSE S[l][i + 1]
        BY <2>1, <2>2
      <4>3. r[1] = S[l][2]
        BY <4>1, <4>2
      <4> QED
        BY <2>1, <2>2, <4>1, <4>3 DEF At
    <3> QED
      BY <3>1, <3>2
  <2> QED
    BY <1>3, <1>4, <1>6, <1>8, <2>1, <2>3 DEF Detail, Shortened
<1>10. Off(t)' = Off(t) /\ inUse' = inUse /\ logsInUse' = logsInUse
  BY <1>1, <1>3 DEF Off, Freeing, poolVars
<1>11. Listed' = Listed
  BY <1>3, <1>10, ListedKept
<1>12. Held(t) = {} /\ Held(t)' = {elem[t]} /\ \A u \in Threads \ {t} : Held(u)' = Held(u)
  BY <1>1, <1>3, <1>6 DEF Held, Others
<1>13. \A p \in Packets : Ran(S2[p]) = IF p = l THEN Ran(S[p]) \ {elem[t]} ELSE Ran(S[p])
  BY <1>8 DEF Lists, Shortened
<1>14. elem[t] \in logsInUse /\ (\A u \in Threads : elem[t] \notin Held(u)) /\ \A q \in Packets : elem[t] \in Ran(S[q]) => q = l
  BY <1>2, <1>6 DEF Located
<1>15. ASSUME NEW p \in Packets, NEW x \in Ran(S2[p])
       PROVE  /\ x \in logsInUse' /\ p \in inUse' /\ \A q \in Packets : x \in Ran(S2[q]) => q = p
              /\ \A u \in Threads : x \notin Held(u)'
  <2>1. x \in Ran(S[p]) /\ x # elem[t]
    BY <1>13, <1>14
  <2>2. /\ x \in logsInUse /\ p \in inUse /\ \A q \in Packets : x \in Ran(S[q]) => q = p
        /\ \A u \in Threads : x \notin Held(u)
    BY <2>1 DEF Located
  <2> QED
    BY <1>10, <1>12, <1>13, <2>1, <2>2
<1>16. ASSUME NEW u \in Threads, NEW x \in Held(u)'
       PROVE  x \in logsInUse' /\ \A v \in Threads : x \in Held(v)' => v = u
  <2>1. CASE u = t
    BY <1>10, <1>12, <1>14, <2>1
  <2>2. CASE u # t
    <3>1. x \in Held(u) /\ x # elem[t]
      BY <1>12, <1>14, <2>2
    <3>2. x \in logsInUse /\ \A v \in Threads : x \in Held(v) => v = u
      BY <3>1 DEF Located
    <3> QED
      BY <1>10, <1>12, <3>1, <3>2
  <2> QED
    BY <2>1, <2>2
<1>17. ASSUME NEW x \in logsInUse'
       PROVE  (\E p \in Packets : x \in Ran(S2[p])) \/ \E u \in Threads : x \in Held(u)'
  <2>1. (\E p \in Packets : x \in Ran(S[p])) \/ \E u \in Threads : x \in Held(u)
    BY <1>10 DEF Located
  <2>2. CASE x = elem[t]
    BY <1>12, <2>2
  <2>3. CASE x # elem[t]
    BY <1>12, <1>13, <2>1, <2>3
  <2> QED
    BY <2>2, <2>3
<1>18. Ran(S2[debugList]) = Listed'
  <2>1. debugList \in Lists \ {l}
    BY <1>2 DEF Lists
  <2> QED
    BY <1>8, <1>11, <2>1 DEF Located, Shortened
<1>19. Located(S2)'
  BY <1>8, <1>15, <1>16, <1>17, <1>18 DEF Located, Shortened
<1>20. Shaped(S2)'
  <2>1. PICK k, n : k = 1 /\ n = elem[t]
    OBVIOUS
  <2>2. Place(S[l], k, n) /\ n = elem[t] /\ UnlinkNext(l, n) /\ Shortened(S2, S, l, k, n)
    BY <1>5, <1>7, <1>8, <2>1 DEF Place
  <2>3. cs'[l] = NULL \/ (cs'[l] = t /\ pc'[t] = "freeLog")
    BY <1>3, <1>7
  <2> QED
    BY <1>2, <1>3, <1>7, <1>9, <2>2, <2>3, TakenOut
<1> QED
  BY <1>8, <1>19, <1>20 DEF Shortened

-------------------------------------------------------------------------------
\* A step keeps the lists, or gives others that it says.
LEMMA LeakSameLists ==
  ASSUME LeakTypeOK', ControlInv', NEW S, Located(S), Located(S)', Shaped(S)'
  PROVE  LeakInv'
BY DEF LeakInv, Located

LEMMA LeakNextInv ==
  ASSUME LeakInv, [LeakNext]_leakVars
  PROVE  LeakInv'
<1>1. LeakTypeOK /\ ControlInv
  BY DEF LeakInv
<1>2. PICK S \in [Lists -> Seq(Nodes)] : Located(S) /\ Shaped(S)
  BY DEF LeakInv
<1>3. ASSUME NEW t \in Threads, NEW p \in Packets, AllocForDebugLeak(t, p) PROVE LeakInv'
  <2>1. LeakTypeOK' /\ ControlInv'
    BY <1>1, <1>3, LeakAllocControl
  <2>2. Located(S)' /\ Shaped(S)'
    BY <1>1, <1>2, <1>3, LeakAllocStep
  <2> QED
    BY <1>2, <2>1, <2>2, LeakSameLists
<1>4. ASSUME NEW t \in Threads, NEW p \in Packets, NEW n \in Logs, WRITE_PACKET_LOG(t, p, n) PROVE LeakInv'
  <2>1. LeakTypeOK' /\ ControlInv'
    BY <1>1, <1>4, LogControl
  <2>2. Located(S)' /\ Shaped(S)'
    BY <1>1, <1>2, <1>4, LogStep
  <2> QED
    BY <1>2, <2>1, <2>2, LeakSameLists
<1>5. ASSUME NEW t \in Threads, NEW p \in Packets, NEW u \in Threads, Share(t, u, p) PROVE LeakInv'
  <2>1. LeakTypeOK' /\ ControlInv'
    BY <1>1, <1>5, ShareControl
  <2>2. Located(S)' /\ Shaped(S)'
    BY <1>1, <1>2, <1>5, ShareStep
  <2> QED
    BY <1>2, <2>1, <2>2, LeakSameLists
<1>6. ASSUME NEW t \in Threads, NEW p \in Packets, LetGo(t, p) PROVE LeakInv'
  <2>1. LeakTypeOK' /\ ControlInv'
    BY <1>1, <1>6, LetGoControl
  <2>2. Located(S)' /\ Shaped(S)'
    BY <1>1, <1>2, <1>6, LetGoStep
  <2> QED
    BY <1>2, <2>1, <2>2, LeakSameLists
<1>7. ASSUME NEW t \in Threads, PushBack(t) PROVE LeakInv'
  <2>1. LeakTypeOK' /\ ControlInv'
    BY <1>1, <1>7, PushBackControl
  <2>2. \E S2 \in [Lists -> Seq(Nodes)] : Located(S2)' /\ Shaped(S2)'
    BY <1>1, <1>2, <1>7, PushBackStep
  <2> QED
    BY <2>1, <2>2 DEF LeakInv
<1>8. ASSUME NEW t \in Threads, EndPushBack(t) PROVE LeakInv'
  <2>1. LeakTypeOK' /\ ControlInv'
    BY <1>1, <1>8, EndPushBackControl
  <2>2. Located(S)' /\ Shaped(S)'
    BY <1>1, <1>2, <1>8, EndPushBackStep
  <2> QED
    BY <1>2, <2>1, <2>2, LeakSameLists
<1>9. ASSUME NEW t \in Threads, Remove(t) PROVE LeakInv'
  <2>1. LeakTypeOK' /\ ControlInv'
    BY <1>1, <1>9, RemoveControl
  <2>2. Located(S)' /\ Shaped(S)'
    BY <1>1, <1>2, <1>9, RemoveStep
  <2> QED
    BY <1>2, <2>1, <2>2, LeakSameLists
<1>10. ASSUME NEW t \in Threads, EndRemove(t) PROVE LeakInv'
  <2>1. LeakTypeOK' /\ ControlInv'
    BY <1>1, <1>10, EndRemoveControl
  <2>2. \E S2 \in [Lists -> Seq(Nodes)] : Located(S2)' /\ Shaped(S2)'
    BY <1>1, <1>2, <1>10, EndRemoveStep
  <2> QED
    BY <2>1, <2>2 DEF LeakInv
<1>11. ASSUME NEW t \in Threads, Drain(t) PROVE LeakInv'
  <2>1. LeakTypeOK' /\ ControlInv'
    BY <1>1, <1>11, DrainControl
  <2>2. Located(S)' /\ Shaped(S)'
    BY <1>1, <1>2, <1>11, DrainStep
  <2> QED
    BY <1>2, <2>1, <2>2, LeakSameLists
<1>12. ASSUME NEW t \in Threads, DrainRemove(t) PROVE LeakInv'
  <2>1. LeakTypeOK' /\ ControlInv'
    BY <1>1, <1>12, DrainRemoveControl
  <2>2. Located(S)' /\ Shaped(S)'
    BY <1>1, <1>2, <1>12, DrainRemoveStep
  <2> QED
    BY <1>2, <2>1, <2>2, LeakSameLists
<1>13. ASSUME NEW t \in Threads, DrainUnlink(t) PROVE LeakInv'
  <2>0. elem[t] # NULL
    <3>1. Stage(t) /\ pc[t] = "unlink" /\ list[t] \in Lists
      BY <1>1, <1>13 DEF DrainUnlink, ControlInv, Stage, Freeing, Inside, LeakTypeOK, Lists
    <3>2. Detail(t, S[list[t]])
      BY <1>2, <3>1 DEF Shaped
    <3>3. PICK s \in Seq(Nodes) : s = S[list[t]]
      BY <1>2, <3>1
    <3>4. s # <<>> /\ elem[t] = At(s, 1)
      BY <3>1, <3>2, <3>3 DEF Detail
    <3>5. 1 \in 1 .. Len(s)
      BY <3>4
    <3>6. s[1] \in Nodes
      BY <3>5
    <3> QED
      BY <3>4, <3>5, <3>6, NodesFinite DEF At
  <2>1. LeakTypeOK' /\ ControlInv'
    BY <1>1, <1>13, <2>0, DrainUnlinkControl
  <2>2. \E S2 \in [Lists -> Seq(Nodes)] : Located(S2)' /\ Shaped(S2)'
    BY <1>1, <1>2, <1>13, DrainUnlinkStep
  <2> QED
    BY <2>1, <2>2 DEF LeakInv
<1>14. ASSUME NEW t \in Threads, FreeLog(t) PROVE LeakInv'
  <2>1. LeakTypeOK' /\ ControlInv'
    BY <1>1, <1>14, FreeLogControl
  <2>2. Located(S)' /\ Shaped(S)'
    BY <1>1, <1>2, <1>14, FreeLogStep
  <2> QED
    BY <1>2, <2>1, <2>2, LeakSameLists
<1>15. ASSUME NEW t \in Threads, EndDrain(t) PROVE LeakInv'
  <2>1. LeakTypeOK' /\ ControlInv'
    BY <1>1, <1>15, EndDrainControl
  <2>2. Located(S)' /\ Shaped(S)'
    BY <1>1, <1>2, <1>15, EndDrainStep
  <2> QED
    BY <1>2, <2>1, <2>2, LeakSameLists
<1>16. ASSUME NEW t \in Threads, FreePacket(t) PROVE LeakInv'
  <2>1. LeakTypeOK' /\ ControlInv'
    BY <1>1, <1>16, FreePacketControl
  <2>2. Located(S)' /\ Shaped(S)'
    BY <1>1, <1>2, <1>16, FreePacketStep
  <2> QED
    BY <1>2, <2>1, <2>2, LeakSameLists
<1>17. ASSUME UNCHANGED leakVars PROVE LeakInv'
  <2>1. UNCHANGED <<pHead, pTail, size, cs, pNext, pPrev, inUse, logsInUse, holders, pc, list, elem, next>>
    BY <1>17 DEF leakVars, listVars, linkVars, poolVars
  <2>2. LeakTypeOK' /\ ControlInv'
    <3>1. LeakTypeOK'
      BY <1>1, <2>1 DEF LeakTypeOK
    <3>2. \A t \in Threads : Stage(t)' /\ Charge(t)' = Charge(t)
      BY <1>1, <2>1 DEF ControlInv, Stage, Charge
    <3> QED
      BY <1>1, <2>1, <3>1, <3>2 DEF ControlInv
  <2>3. Located(S)'
    BY <1>2, <2>1 DEF Located, Listed, Off, Held
  <2>4. Shaped(S)'
    BY <1>2, <2>1 DEF Shaped, Pushing, Skipped, Detail
  <2> QED
    BY <1>2, <2>2, <2>3, <2>4, LeakSameLists
<1> QED
  BY <1>3, <1>4, <1>5, <1>6, <1>7, <1>8, <1>9, <1>10, <1>11,
     <1>12, <1>13, <1>14, <1>15, <1>16, <1>17 DEF LeakNext, FreeStep

\* Whatever the threads do, the lists are lists, and each packet and each log is where it
\* belongs.
THEOREM LeakInductive == LeakSpec => []LeakInv
<1>1. LeakInit => LeakInv
  BY LeakInitInv DEF LeakInv
<1>2. LeakInv /\ [LeakNext]_leakVars => LeakInv'
  BY LeakNextInv
<1> QED
  BY <1>1, <1>2, PTL DEF LeakSpec

-------------------------------------------------------------------------------
\* What a walk meets in the list that a chain of links is.
LEMMA WalkForth ==
  ASSUME NEW s \in Seq(Nodes), NEW h, NEW tl, NEW c, NEW nx, NEW pv, NEW b,
         Chain(s, h, tl, c, nx, pv, b, NULL)
  PROVE  Walk(h, nx) = s
<1>1. PICK m \in Nat : m = Len(s)
  OBVIOUS
<1>2. \A i, j \in 1 .. Len(s) : s[i] = s[j] => i = j
  BY DEF Chain
<1>3. h = Succ(s, 0, NULL) /\ \A i \in 1 .. Len(s) : nx[s[i]] = Succ(s, i, NULL)
  BY DEF Chain
<1>4. \A i \in 0 .. Len(s) : Succ(s, i, NULL) = At(s, i + 1)
  BY SuccIs, NodesFinite
<1>5. h = At(s, 1)
  BY <1>1, <1>3, <1>4
<1>6. \A i \in 1 .. Len(s) : nx[s[i]] = At(s, i + 1)
  BY <1>1, <1>3, <1>4
<1> QED
  BY <1>2, <1>5, <1>6, WalkIs

\* Back along the other links it meets the same elements in the opposite order.
LEMMA WalkBack ==
  ASSUME NEW s \in Seq(Nodes), \A i, j \in 1 .. Len(s) : s[i] = s[j] => i = j,
         NEW tl, NEW pv, tl = At(s, Len(s)), \A i \in 1 .. Len(s) : pv[s[i]] = At(s, i - 1)
  PROVE  \E r \in Seq(Nodes) : /\ Walk(tl, pv) = r /\ Len(r) = Len(s)
                               /\ \A i \in 1 .. Len(s) : r[i] = s[Len(s) + 1 - i]
<1>1. PICK m \in Nat : m = Len(s)
  OBVIOUS
<1>2. PICK r : r = [i \in 1 .. m |-> s[m + 1 - i]]
  OBVIOUS
<1>3. \A i \in 1 .. m : m + 1 - i \in 1 .. m
  OBVIOUS
<1>4. r \in [1 .. m -> Nodes]
  BY <1>1, <1>2, <1>3
<1>5. r \in Seq(Nodes) /\ Len(r) = m
  BY <1>4
<1>6. \A i \in 1 .. m : r[i] = s[m + 1 - i]
  BY <1>2
<1>7. ASSUME NEW i \in 1 .. Len(r), NEW j \in 1 .. Len(r), r[i] = r[j] PROVE i = j
  <2>1. i \in 1 .. m /\ j \in 1 .. m
    BY <1>5
  <2>2. s[m + 1 - i] = s[m + 1 - j] /\ m + 1 - i \in 1 .. Len(s) /\ m + 1 - j \in 1 .. Len(s)
    BY <1>1, <1>3, <1>6, <1>7, <2>1
  <2>3. m + 1 - i = m + 1 - j
    BY <2>2
  <2> QED
    BY <1>1, <2>1, <2>3
<1>8. tl = At(r, 1)
  <2>1. CASE m = 0
    BY <1>1, <1>5, <2>1 DEF At
  <2>2. CASE m # 0
    <3>1. m \in 1 .. m /\ 1 \in 1 .. m /\ m + 1 - 1 = m
      BY <2>2
    <3>2. r[1] = s[m]
      BY <1>6, <3>1
    <3> QED
      BY <1>1, <1>5, <3>1, <3>2 DEF At
  <2> QED
    BY <2>1, <2>2
<1>9. ASSUME NEW i \in 1 .. Len(r) PROVE pv[r[i]] = At(r, i + 1)
  <2>1. i \in 1 .. m
    BY <1>5
  <2>2. PICK j \in 1 .. m : j = m + 1 - i
    BY <1>3, <2>1
  <2>3. pv[r[i]] = At(s, j - 1)
    BY <1>1, <1>6, <2>1, <2>2
  <2>4. CASE i = m
    <3>1. j - 1 \notin 1 .. m /\ i + 1 \notin 1 .. m
      BY <2>2, <2>4
    <3> QED
      BY <1>1, <1>5, <2>3, <3>1 DEF At
  <2>5. CASE i # m
    <3>1. j - 1 \in 1 .. m /\ i + 1 \in 1 .. m /\ m + 1 - (i + 1) = j - 1
      BY <2>1, <2>2, <2>5
    <3>2. r[i + 1] = s[j - 1]
      BY <1>6, <3>1
    <3> QED
      BY <1>1, <1>5, <2>3, <3>1, <3>2 DEF At
  <2> QED
    BY <2>4, <2>5
<1>10. Walk(tl, pv) = r
  <2>1. \A i, j \in 1 .. Len(r) : r[i] = r[j] => i = j
    BY <1>7
  <2>2. \A i \in 1 .. Len(r) : pv[r[i]] = At(r, i + 1)
    BY <1>9
  <2> QED
    BY <1>5, <1>8, <2>1, <2>2, WalkIs
<1> QED
  BY <1>1, <1>5, <1>6, <1>10

\* While its first element is being removed it meets the others.
LEMMA WalkPast ==
  ASSUME NEW s \in Seq(Nodes), s # <<>>, NEW h, NEW tl, NEW c, NEW nx, NEW pv, NEW x, x = At(s, 1),
         Chain(s, h, tl, c, nx, pv, FALSE, x)
  PROVE  Walk(h, nx) = Without(s, 1)
<1>1. PICK m \in Nat \ {0} : m = Len(s)
  OBVIOUS
<1>2. \A i, j \in 1 .. m : s[i] = s[j] => i = j
  BY <1>1 DEF Chain
<1>3. h = Succ(s, 0, x) /\ \A i \in 1 .. m : nx[s[i]] = Succ(s, i, x)
  BY <1>1 DEF Chain
<1>4. 1 \in 1 .. Len(s) /\ 1 \in 1 .. m
  BY <1>1
<1>5. x = s[1] /\ x \in Nodes /\ x # NULL
  BY <1>4, NodesFinite DEF At
<1>6. PICK r : /\ r = Without(s, 1) /\ r \in Seq(Nodes) /\ Len(r) = Len(s) - 1 /\ Len(s) \in Nat \ {0}
               /\ \A i \in 1 .. Len(s) - 1 : r[i] = IF i < 1 THEN s[i] ELSE s[i + 1]
  BY <1>4, WithoutIs
<1>7. \A i \in 1 .. m - 1 : r[i] = s[i + 1] /\ i + 1 \in 1 .. m
  BY <1>1, <1>6
<1>8. ASSUME NEW i \in 2 .. m PROVE Succ(s, i, x) = At(s, i + 1)
  <2>1. CASE i = m
    <3>1. i + 1 \notin 1 .. m
      BY <2>1
    <3> QED
      BY <1>1, <1>5, <3>1 DEF At, Succ
  <2>2. CASE i # m
    <3>1. i + 1 \in 1 .. m /\ i + 1 # 1
      BY <2>2
    <3>2. s[i + 1] # s[1]
      BY <1>2, <1>4, <3>1
    <3> QED
      BY <1>1, <1>5, <3>1, <3>2 DEF At, Succ
  <2> QED
    BY <2>1, <2>2
<1>9. \A i, j \in 1 .. Len(r) : r[i] = r[j] => i = j
  <2>1. ASSUME NEW i \in 1 .. m - 1, NEW j \in 1 .. m - 1, r[i] = r[j] PROVE i = j
    <3>1. s[i + 1] = s[j + 1] /\ i + 1 \in 1 .. m /\ j + 1 \in 1 .. m
      BY <1>7, <2>1
    <3>2. i + 1 = j + 1
      BY <1>2, <3>1
    <3> QED
      BY <3>2
  <2> QED
    BY <1>1, <1>6, <2>1
<1>10. ASSUME NEW i \in 0 .. m - 1 PROVE At(s, i + 2) = At(r, i + 1)
  <2>1. CASE i = m - 1
    <3>1. i + 2 \notin 1 .. m /\ i + 1 \notin 1 .. m - 1
      BY <2>1
    <3> QED
      BY <1>1, <1>6, <3>1 DEF At
  <2>2. CASE i # m - 1
    <3>1. i + 2 \in 1 .. m /\ i + 1 \in 1 .. m - 1 /\ i + 1 + 1 = i + 2
      BY <2>2
    <3>2. r[i + 1] = s[i + 2]
      BY <1>7, <3>1
    <3> QED
      BY <1>1, <1>6, <3>1, <3>2 DEF At
  <2> QED
    BY <2>1, <2>2
<1>11. h = At(r, 1)
  <2>1. Succ(s, 0, x) = At(s, 2)
    BY <1>4, <1>5 DEF Succ, At
  <2>2. 0 \in 0 .. m - 1
    OBVIOUS
  <2>3. At(s, 0 + 2) = At(r, 0 + 1)
    BY <1>10, <2>2
  <2> QED
    BY <1>3, <2>1, <2>3
<1>12. ASSUME NEW i \in 1 .. m - 1 PROVE nx[r[i]] = At(r, i + 1)
  <2>1. i + 1 \in 2 .. m /\ i + 1 \in 1 .. m /\ i \in 0 .. m - 1 /\ i + 1 + 1 = i + 2
    OBVIOUS
  <2>2. nx[r[i]] = At(s, i + 1 + 1)
    BY <1>3, <1>7, <1>8, <2>1
  <2> QED
    BY <1>10, <2>1, <2>2
<1>13. \A i \in 1 .. Len(r) : nx[r[i]] = At(r, i + 1)
  BY <1>1, <1>6, <1>12
<1>14. Walk(h, nx) = r
  <2>1. PICK q \in Seq(Nodes) : q = r
    BY <1>6
  <2>2. \A i, j \in 1 .. Len(q) : q[i] = q[j] => i = j
    BY <1>9, <2>1
  <2>3. h = At(q, 1)
    BY <1>11, <2>1
  <2>4. \A i \in 1 .. Len(q) : nx[q[i]] = At(q, i + 1)
    BY <1>13, <2>1
  <2> QED
    BY <2>1, <2>2, <2>3, <2>4, WalkIs
<1> QED
  BY <1>6, <1>14

\* FindElementNum finds what the walk meets.
LEMMA FoundIs ==
  ASSUME NEW l, NEW n, NEW s \in Seq(Nodes), Walk(pHead[l], pNext) = s
  PROVE  FindElementNum(l, n) > 0 <=> n \in Ran(s)
<1>1. PICK m \in Nat : m = Len(s)
  OBVIOUS
<1>2. PICK K : K = {k \in 1 .. m : s[k] = n}
  OBVIOUS
<1>3. FindElementNum(l, n) = Cardinality(K)
  <2>1. FindElementNum(l, n) = Cardinality({k \in DOMAIN s : s[k] = n})
    BY DEF FindElementNum, GetFirst
  <2>2. DOMAIN s = 1 .. m
    BY <1>1
  <2> QED
    BY <1>2, <2>1, <2>2
<1>4. IsFiniteSet(K) /\ Cardinality(K) \in Nat
  <2>1. IsFiniteSet(1 .. m)
    BY FS_Interval
  <2>2. K \subseteq 1 .. m
    BY <1>2
  <2> QED
    BY <2>1, <2>2, FS_Subset, FS_CardinalityType
<1>5. Cardinality(K) = 0 <=> K = {}
  BY <1>4, FS_EmptySet
<1>6. K # {} <=> n \in Ran(s)
  BY <1>1, <1>2 DEF Ran
<1> QED
  BY <1>3, <1>4, <1>5, <1>6

\* The debugger breaks of remove are not reached for an element of a chain.
LEMMA NotBroken ==
  ASSUME LeakTypeOK, NEW S, Located(S), NEW l \in Lists, NEW k \in 1 .. Len(S[l]),
         Chain(S[l], pHead[l], pTail[l], size[l], pNext, pPrev, FALSE, NULL)
  PROVE  ~Broken(l, S[l][k])
<1>1. PICK s, h, tl, c, nx, pv :
        s = S[l] /\ h = pHead[l] /\ tl = pTail[l] /\ c = size[l] /\ nx = pNext /\ pv = pPrev
  OBVIOUS
<1>2. s \in Seq(Nodes) /\ Chain(s, h, tl, c, nx, pv, FALSE, NULL) /\ NULL \notin Nodes
  BY <1>1, ListsApart, NodesFinite
<1>3. h = At(s, 1) /\ tl = At(s, Len(s)) /\ Linked(s, nx, pv)
  BY <1>2, ChainLinks
<1>4. PICK m \in Nat : m = Len(s)
  BY <1>2
<1>5. PICK n : n = s[k]
  OBVIOUS
<1>6. k \in 1 .. m /\ nx[n] = At(s, k + 1) /\ pv[n] = At(s, k - 1)
  BY <1>1, <1>3, <1>4, <1>5 DEF Linked
<1>7. \A i \in 1 .. m : s[i] \in Nodes /\ s[i] # NULL /\ nx[s[i]] = At(s, i + 1) /\ pv[s[i]] = At(s, i - 1)
  BY <1>2, <1>3, <1>4 DEF Linked
<1>8. IF pv[n] # NULL THEN nx[pv[n]] = n ELSE h = n
  <2>1. CASE k = 1
    BY <1>3, <1>4, <1>5, <1>6, <2>1 DEF At
  <2>2. CASE k # 1
    <3>1. k - 1 \in 1 .. m /\ k - 1 + 1 = k
      BY <1>6, <2>2
    <3>2. pv[n] = s[k - 1] /\ s[k - 1] # NULL
      BY <1>4, <1>6, <1>7, <3>1 DEF At
    <3>3. nx[s[k - 1]] = At(s, k)
      BY <1>7, <3>1
    <3> QED
      BY <1>4, <1>5, <1>6, <3>2, <3>3 DEF At
  <2> QED
    BY <2>1, <2>2
<1>9. IF nx[n] # NULL THEN pv[nx[n]] = n ELSE tl = n
  <2>1. CASE k = m
    <3>1. k + 1 \notin 1 .. m
      BY <2>1
    <3> QED
      BY <1>3, <1>4, <1>5, <1>6, <2>1, <3>1 DEF At
  <2>2. CASE k # m
    <3>1. k + 1 \in 1 .. m /\ k + 1 - 1 = k
      BY <1>6, <2>2
    <3>2. nx[n] = s[k + 1] /\ s[k + 1] # NULL
      BY <1>4, <1>6, <1>7, <3>1 DEF At
    <3>3. pv[s[k + 1]] = At(s, k)
      BY <1>7, <3>1
    <3> QED
      BY <1>4, <1>5, <1>6, <3>2, <3>3 DEF At
  <2> QED
    BY <2>1, <2>2
<1> QED
  BY <1>1, <1>5, <1>8, <1>9 DEF Broken

\* A list whose section is free is a chain.
LEMMA FreeChain ==
  ASSUME NEW S, Shaped(S), NEW l \in Lists, cs[l] = NULL
  PROVE  Chain(S[l], pHead[l], pTail[l], size[l], pNext, pPrev, FALSE, NULL)
<1>1. Pushing(l) = FALSE /\ Skipped(l) = NULL
  BY DEF Pushing, Skipped
<1>2. Chain(S[l], pHead[l], pTail[l], size[l], pNext, pPrev, Pushing(l), Skipped(l))
  BY DEF Shaped
<1> QED
  BY <1>1, <1>2, Zenon

-------------------------------------------------------------------------------
\* The elements a list should have are those it has.
LEMMA ElementsAre ==
  ASSUME LeakTypeOK, NEW S, Located(S), NEW l \in Lists, Walk(pHead[l], pNext) = S[l]
  PROVE  Elements(l) = Ran(S[l])
<1>1. CASE l = debugList
  <2>1. Elements(l) = {p \in inUse : \A t \in Threads :
            /\ ~(pc[t] = "push" /\ elem[t] = p)
            /\ ~(pc[t] \in {"drain", "loop", "unlink", "freeLog", "free"} /\ list[t] = p)}
    BY <1>1 DEF Elements
  <2>2. \A p, t : p \in Off(t) <=> \/ pc[t] = "push" /\ elem[t] = p
                                   \/ pc[t] \in {"drain", "loop", "unlink", "freeLog", "free"} /\ list[t] = p
    BY DEF Off, Freeing
  <2>3. Elements(l) = Listed
    BY <2>1, <2>2 DEF Listed
  <2> QED
    BY <1>1, <2>3 DEF Located
<1>2. CASE l # debugList
  <2>1. l \in Packets
    BY <1>2 DEF Lists
  <2>2. Elements(l) = {n \in Logs : FindElementNum(l, n) > 0}
    BY <1>2 DEF Elements
  <2>3. PICK s \in Seq(Nodes) : s = S[l]
    BY ListsApart
  <2>4. \A n : FindElementNum(l, n) > 0 <=> n \in Ran(s)
    BY <2>3, FoundIs
  <2>5. Ran(s) \subseteq Logs
    BY <2>1, <2>3, ListsApart
  <2> QED
    BY <2>2, <2>3, <2>4, <2>5
<1> QED
  BY <1>1, <1>2

LEMMA ListIsExact ==
  ASSUME LeakTypeOK, NEW S, Located(S), Shaped(S), NEW l \in Lists, cs[l] = NULL
  PROVE  LET forth == Walk(pHead[l], pNext)
             back  == Walk(pTail[l], pPrev)
             len   == Len(forth)
         IN  /\ {forth[k] : k \in 1 .. len} = Elements(l)
             /\ len = Cardinality(Elements(l)) /\ len = size[l] /\ len = Len(back)
             /\ \A k \in 1 .. len : back[k] = forth[len + 1 - k]
             /\ \A k \in 1 .. len : ~Broken(l, forth[k])
<1>1. Chain(S[l], pHead[l], pTail[l], size[l], pNext, pPrev, FALSE, NULL)
  BY FreeChain
<1>2. PICK s \in Seq(Nodes) : s = S[l]
  BY ListsApart
<1>3. PICK h, tl, c, nx, pv : h = pHead[l] /\ tl = pTail[l] /\ c = size[l] /\ nx = pNext /\ pv = pPrev
  OBVIOUS
<1>4. Chain(s, h, tl, c, nx, pv, FALSE, NULL)
  BY <1>1, <1>2, <1>3
<1>5. Walk(h, nx) = s
  BY <1>4, WalkForth
<1>6. \A i, j \in 1 .. Len(s) : s[i] = s[j] => i = j
  BY <1>4 DEF Chain
<1>7. tl = At(s, Len(s)) /\ c = Len(s)
  BY <1>4 DEF Chain
<1>8. \A i \in 1 .. Len(s) : pv[s[i]] = At(s, i - 1)
  BY <1>4 DEF Chain
<1>9. PICK r \in Seq(Nodes) : /\ Walk(tl, pv) = r /\ Len(r) = Len(s)
                              /\ \A i \in 1 .. Len(s) : r[i] = s[Len(s) + 1 - i]
  BY <1>6, <1>7, <1>8, WalkBack
<1>10. Elements(l) = Ran(s)
  BY <1>2, <1>3, <1>5, ElementsAre
<1>11. Cardinality(Ran(s)) = Len(s)
  BY <1>6, ShortList
<1>12. \A k \in 1 .. Len(s) : ~Broken(l, s[k])
  BY <1>1, <1>2, NotBroken
<1>13. {s[k] : k \in 1 .. Len(s)} = Elements(l)
  BY <1>10 DEF Ran
<1>14. Walk(pHead[l], pNext) = s /\ Walk(pTail[l], pPrev) = r /\ size[l] = Len(s)
  BY <1>3, <1>5, <1>7, <1>9
<1> QED
  BY <1>9, <1>10, <1>11, <1>12, <1>13, <1>14

LEMMA LeakListsExact ==
  ASSUME LeakInv
  PROVE  ListsExact
<1>1. PICK S \in [Lists -> Seq(Nodes)] : Located(S) /\ Shaped(S)
  BY DEF LeakInv
<1>2. LeakTypeOK /\ ControlInv
  BY DEF LeakInv
<1>3. ASSUME NEW t \in Threads, pc[t] = "loop", elem[t] # NULL
      PROVE  ~Broken(list[t], elem[t])
  <2>1. list[t] \in Lists /\ cs[list[t]] = t
    BY <1>2, <1>3, StageIs DEF Inside
  <2>2. PICK l \in Lists : l = list[t]
    BY <2>1
  <2>3. Chain(S[l], pHead[l], pTail[l], size[l], pNext, pPrev, FALSE, NULL)
    BY <1>1, <1>3, <2>1, <2>2, ChainIs
  <2>4. Detail(t, S[l])
    BY <1>1, <1>3, <2>2 DEF Shaped
  <2>5. elem[t] = At(S[l], 1)
    BY <1>3, <2>4 DEF Detail
  <2>6. 1 \in 1 .. Len(S[l]) /\ elem[t] = S[l][1]
    BY <1>3, <2>5 DEF At
  <2>7. ~Broken(l, S[l][1])
    BY <1>1, <1>2, <2>3, <2>6, NotBroken
  <2> QED
    BY <2>2, <2>6, <2>7
<1> QED
  BY <1>1, <1>2, <1>3, ListIsExact DEF ListsExact

\* Outside its critical section every list is one, forwards and backwards, with size_
\* elements, and debugList has exactly the packets in use: neither debugger break of
\* remove is ever reached.
THEOREM ListsExactAlways == LeakSpec => []ListsExact
<1>1. LeakInv => ListsExact
  BY LeakListsExact
<1> QED
  BY <1>1, LeakInductive, PTL

-------------------------------------------------------------------------------
\* Pairs are as many as their second parts, if these tell them apart.
LEMMA SecondCounted ==
  ASSUME NEW P, NEW Q, IsFiniteSet(Q), NEW X, X \subseteq P \X Q,
         \A x, y \in X : x[2] = y[2] => x = y
  PROVE  /\ IsFiniteSet({x[2] : x \in X}) /\ Cardinality({x[2] : x \in X}) = Cardinality(X)
         /\ Cardinality(X) \in Nat
<1>1. PICK A : A = {x[2] : x \in X}
  OBVIOUS
<1>2. A \subseteq Q
  BY <1>1
<1>3. IsFiniteSet(A) /\ Cardinality(A) \in Nat
  BY <1>2, FS_Subset, FS_CardinalityType
<1>4. PICK g : g = [a \in A |-> CHOOSE x \in X : x[2] = a]
  OBVIOUS
<1>5. ASSUME NEW a \in A PROVE g[a] \in X /\ g[a][2] = a
  BY <1>1, <1>4
<1>6. g \in [A -> X] /\ (\A a, b \in A : g[a] = g[b] => a = b) /\ \A x \in X : \E a \in A : g[a] = x
  <2>1. DOMAIN g = A /\ g = [a \in A |-> g[a]]
    BY <1>4
  <2>2. g \in [A -> X]
    BY <1>5, <2>1
  <2>3. \A a, b \in A : g[a] = g[b] => a = b
    BY <1>5
  <2>4. ASSUME NEW x \in X PROVE g[x[2]] = x /\ x[2] \in A
    <3>1. x[2] \in A
      BY <1>1
    <3>2. g[x[2]] \in X /\ g[x[2]][2] = x[2]
      BY <1>5, <3>1
    <3> QED
      BY <3>1, <3>2
  <2> QED
    BY <2>2, <2>3, <2>4
<1>7. g \in Bijection(A, X)
  BY <1>6 DEF Bijection, Injection, Surjection, IsInjective
<1>8. ExistsBijection(A, X)
  BY <1>7 DEF ExistsBijection
<1>9. Cardinality(X) = Cardinality(A)
  BY <1>3, <1>8, FS_Bijection
<1> QED
  BY <1>1, <1>3, <1>9

\* A log that is in hand and not off every list is the last or the first of its list.
LEMMA HandIs ==
  ASSUME LeakTypeOK, ControlInv, NEW S, Located(S), Shaped(S), NEW t \in Threads, NEW n \in InHand(t)
  PROVE  \/ n \in Held(t)
         \/ pc[t] \in Inside /\ list[t] \in Packets /\ n \in Ran(S[list[t]])
<1>1. pc[t] \in {"push", "pushed", "unlink", "freeLog"} /\ n = elem[t] /\ n \in Logs
  BY DEF InHand
<1>2. CASE pc[t] \in {"push", "freeLog"}
  BY <1>1, <1>2 DEF Held
<1>3. CASE pc[t] = "pushed"
  <2>1. list[t] \in Packets /\ list[t] \in Lists
    BY <1>1, <1>3, StageIs, LeakAssumption
  <2>2. PICK s \in Seq(Nodes) : s = S[list[t]]
    BY <2>1, ListsApart
  <2>3. Detail(t, s)
    BY <1>3, <2>2 DEF Shaped
  <2>4. n = At(s, Len(s))
    BY <1>1, <1>3, <2>3 DEF Detail
  <2>5. n # NULL
    BY <1>1, NodesFinite DEF Nodes
  <2>6. n \in Ran(s)
    BY <2>4, <2>5 DEF At, Ran
  <2> QED
    BY <1>3, <2>1, <2>2, <2>6 DEF Inside
<1>4. CASE pc[t] = "unlink"
  <2>1. list[t] \in Packets /\ list[t] \in Lists
    BY <1>4, StageIs DEF Freeing
  <2>2. PICK s \in Seq(Nodes) : s = S[list[t]]
    BY <2>1, ListsApart
  <2>3. Detail(t, s)
    BY <1>4, <2>2 DEF Shaped
  <2>4. n = At(s, 1)
    BY <1>1, <1>4, <2>3 DEF Detail
  <2>5. n # NULL
    BY <1>1, NodesFinite DEF Nodes
  <2>6. n \in Ran(s)
    BY <2>4, <2>5 DEF At, Ran
  <2> QED
    BY <1>4, <2>1, <2>2, <2>6 DEF Inside
<1> QED
  BY <1>1, <1>2, <1>3, <1>4

\* What is in the list of a packet and in nobody's hands is what a walk finds.
LEMMA FoundInList ==
  ASSUME LeakTypeOK, ControlInv, NEW S, Located(S), Shaped(S), NEW p \in Packets,
         NEW n \in Logs, \A t \in Threads : n \notin InHand(t)
  PROVE  FindElementNum(p, n) > 0 <=> n \in Ran(S[p])
<1>1. p \in Lists /\ p # debugList
  BY LeakAssumption DEF Lists
<1>2. PICK s \in Seq(Nodes) : s = S[p]
  BY <1>1, ListsApart
<1>3. PICK h, tl, c, nx, pv : h = pHead[p] /\ tl = pTail[p] /\ c = size[p] /\ nx = pNext /\ pv = pPrev
  OBVIOUS
<1>4. CASE cs[p] = NULL
  <2>1. Chain(s, h, tl, c, nx, pv, FALSE, NULL)
    BY <1>1, <1>2, <1>3, <1>4, FreeChain
  <2>2. Walk(pHead[p], pNext) = s
    BY <1>3, <2>1, WalkForth
  <2> QED
    BY <1>2, <2>2, FoundIs
<1>5. CASE cs[p] # NULL
  <2>1. PICK t \in Threads : cs[p] = t /\ pc[t] \in Inside /\ list[t] = p
    BY <1>1, <1>5 DEF LeakTypeOK, ControlInv
  <2>2. pc[t] # "removed"
    BY <1>1, <2>1, StageIs
  <2>3. CASE pc[t] \in {"pushed", "loop", "freeLog"}
    <3>1. PICK b : Chain(s, h, tl, c, nx, pv, b, NULL)
      BY <1>1, <1>2, <1>3, <2>1, <2>3, ChainIs, Zenon
    <3>2. Walk(pHead[p], pNext) = s
      BY <1>3, <3>1, WalkForth
    <3> QED
      BY <1>2, <3>2, FoundIs
  <2>4. CASE pc[t] = "unlink"
    <3>1. Chain(s, h, tl, c, nx, pv, FALSE, elem[t])
      BY <1>1, <1>2, <1>3, <2>1, <2>4, ChainIs
    <3>2. Detail(t, s)
      BY <1>2, <2>1, <2>4 DEF Shaped
    <3>3. s # <<>> /\ elem[t] = At(s, 1)
      BY <2>4, <3>2 DEF Detail
    <3>4. PICK x : x = elem[t]
      OBVIOUS
    <3>5. x = At(s, 1) /\ Chain(s, h, tl, c, nx, pv, FALSE, x) /\ s # <<>>
      BY <3>1, <3>3, <3>4
    <3>6. Walk(h, nx) = Without(s, 1)
      BY <3>5, WalkPast
    <3>7. 1 \in 1 .. Len(s)
      BY <3>3
    <3>8. PICK r \in Seq(Nodes) : r = Without(s, 1)
      BY <3>7, WithoutIs
    <3>9. Ran(r) = Ran(s) \ {s[1]}
      <4>1. \A i, j \in 1 .. Len(s) : s[i] = s[j] => i = j
        BY <3>1 DEF Chain
      <4> QED
        BY <3>7, <3>8, <4>1, WithoutRan
    <3>10. n # s[1]
      <4>1. n # elem[t]
        BY <2>4 DEF InHand
      <4> QED
        BY <3>3, <3>7, <4>1 DEF At
    <3>11. Walk(pHead[p], pNext) = r
      BY <1>3, <3>6, <3>8
    <3>12. FindElementNum(p, n) > 0 <=> n \in Ran(r)
      BY <3>11, FoundIs
    <3> QED
      BY <1>2, <3>9, <3>10, <3>12
  <2> QED
    BY <2>1, <2>2, <2>3, <2>4 DEF Inside
<1> QED
  BY <1>4, <1>5

LEMMA LeakLogsAccounted ==
  ASSUME LeakInv
  PROVE  LogsAccounted
<1>1. LeakTypeOK /\ ControlInv
  BY DEF LeakInv
<1>2. PICK S \in [Lists -> Seq(Nodes)] : Located(S) /\ Shaped(S)
  BY DEF LeakInv
<1>3. PICK logged : logged = {x \in Packets \X Logs :
                     (\A t \in Threads : x[2] \notin InHand(t)) /\ FindElementNum(x[1], x[2]) > 0}
  OBVIOUS
<1>4. PICK hand : hand = {x \in Threads \X Logs : x[2] \in InHand(x[1])}
  OBVIOUS
<1>5. ASSUME NEW x \in logged
      PROVE  /\ x[1] \in Packets /\ x[2] \in Logs /\ x[2] \in Ran(S[x[1]])
             /\ \A t \in Threads : x[2] \notin InHand(t)
  <2>1. x[1] \in Packets /\ x[2] \in Logs /\ FindElementNum(x[1], x[2]) > 0
    BY <1>3
  <2>2. \A t \in Threads : x[2] \notin InHand(t)
    BY <1>3
  <2> QED
    BY <1>1, <1>2, <2>1, <2>2, FoundInList
<1>6. ASSUME NEW x \in logged PROVE x[1] \in inUse /\ x[2] \in logsInUse
  BY <1>2, <1>5 DEF Located
<1>7. ASSUME NEW x \in logged, NEW y \in logged, x[2] = y[2] PROVE x = y
  <2>1. x \in Packets \X Logs /\ y \in Packets \X Logs
    BY <1>3
  <2>2. x[1] = y[1]
    <3>1. PICK p, q, n : p = x[1] /\ q = y[1] /\ n = x[2]
      OBVIOUS
    <3>2. p \in Packets /\ q \in Packets /\ n \in Ran(S[p]) /\ n \in Ran(S[q])
      BY <1>5, <1>7, <3>1
    <3>3. q = p
      BY <1>2, <3>2 DEF Located
    <3> QED
      BY <3>1, <3>3
  <2> QED
    BY <1>7, <2>1, <2>2
<1>8. ASSUME NEW t \in Threads, NEW n \in InHand(t)
      PROVE  \/ n \in Held(t)
             \/ pc[t] \in Inside /\ list[t] \in Packets /\ n \in Ran(S[list[t]])
  BY <1>1, <1>2, <1>8, HandIs
<1>9. ASSUME NEW x \in hand PROVE x[2] \in logsInUse
  <2>1. x[1] \in Threads /\ x[2] \in InHand(x[1])
    BY <1>4
  <2> QED
    BY <1>2, <1>8, <2>1 DEF Located
<1>10. ASSUME NEW x \in hand, NEW y \in hand, x[2] = y[2] PROVE x = y
  <2>1. x \in Threads \X Logs /\ y \in Threads \X Logs
    BY <1>4
  <2>2. PICK t, u, n : t = x[1] /\ u = y[1] /\ n = x[2]
    OBVIOUS
  <2>3. t \in Threads /\ u \in Threads /\ n \in InHand(t) /\ n \in InHand(u)
    BY <1>4, <1>10, <2>2
  <2>4. \A v, w \in Threads : n \in Held(v) /\ n \in Held(w) => w = v
    BY <1>2 DEF Located
  <2>5. \A v \in Threads, p \in Packets : n \in Ran(S[p]) => n \notin Held(v)
    BY <1>2 DEF Located
  <2>6. CASE n \in Held(t) \/ n \in Held(u)
    <3>1. n \in Held(t) /\ n \in Held(u)
      BY <1>8, <2>3, <2>5, <2>6
    <3>2. t = u
      BY <2>3, <2>4, <3>1
    <3>3. x[1] = y[1]
      BY <2>2, <3>2
    <3> QED
      BY <1>10, <2>1, <3>3
  <2>7. CASE n \notin Held(t) /\ n \notin Held(u)
    <3>1. PICK p, q : p = list[t] /\ q = list[u]
      OBVIOUS
    <3>2. /\ pc[t] \in Inside /\ p \in Packets /\ n \in Ran(S[p])
          /\ pc[u] \in Inside /\ q \in Packets /\ n \in Ran(S[q])
      BY <1>8, <2>3, <2>7, <3>1
    <3>3. q = p
      BY <1>2, <3>2 DEF Located
    <3>4. cs[p] = t /\ cs[q] = u
      BY <1>1, <2>3, <3>1, <3>2, StageIs
    <3>5. t = u
      BY <3>3, <3>4
    <3>6. x[1] = y[1]
      BY <2>2, <3>5
    <3> QED
      BY <1>10, <2>1, <3>6
  <2> QED
    BY <2>6, <2>7
<1>11. ASSUME NEW n \in logsInUse PROVE n \in {x[2] : x \in logged} \cup {x[2] : x \in hand}
  <2>1. n \in Logs
    BY <1>1 DEF LeakTypeOK
  <2>2. CASE \E t \in Threads : n \in InHand(t)
    <3>1. PICK t \in Threads : n \in InHand(t)
      BY <2>2
    <3>2. <<t, n>> \in hand
      BY <1>4, <2>1, <3>1
    <3> QED
      BY <3>2
  <2>3. CASE \A t \in Threads : n \notin InHand(t)
    <3>1. \A t \in Threads : n \notin Held(t)
      BY <2>1, <2>3 DEF Held, InHand
    <3>2. PICK p \in Packets : n \in Ran(S[p])
      BY <1>2, <3>1 DEF Located
    <3>3. FindElementNum(p, n) > 0
      BY <1>1, <1>2, <2>1, <2>3, <3>2, FoundInList
    <3>4. <<p, n>> \in logged
      BY <1>3, <2>1, <2>3, <3>3
    <3> QED
      BY <3>4
  <2> QED
    BY <2>2, <2>3
<1>12. PICK A, B : A = {x[2] : x \in logged} /\ B = {x[2] : x \in hand}
  OBVIOUS
<1>13. logsInUse = A \cup B
  BY <1>6, <1>9, <1>11, <1>12
<1>14. A \cap B = {}
  <2>1. \A n \in B : \E t \in Threads : n \in InHand(t)
    BY <1>4, <1>12
  <2>2. \A n \in A : \A t \in Threads : n \notin InHand(t)
    BY <1>5, <1>12
  <2> QED
    BY <2>1, <2>2
<1>15. IsFiniteSet(Logs)
  BY LeakAssumption, FS_Subset
<1>16. IsFiniteSet(A) /\ Cardinality(A) = Cardinality(logged) /\ Cardinality(logged) \in Nat
  <2>1. logged \subseteq Packets \X Logs
    BY <1>3
  <2>2. \A x, y \in logged : x[2] = y[2] => x = y
    BY <1>7
  <2> QED
    BY <1>12, <1>15, <2>1, <2>2, SecondCounted
<1>17. IsFiniteSet(B) /\ Cardinality(B) = Cardinality(hand) /\ Cardinality(hand) \in Nat
  <2>1. hand \subseteq Threads \X Logs
    BY <1>4
  <2>2. \A x, y \in hand : x[2] = y[2] => x = y
    BY <1>10
  <2> QED
    BY <1>12, <1>15, <2>1, <2>2, SecondCounted
<1>18. Cardinality(A \cup B) = Cardinality(A) + Cardinality(B)
  <2>1. Cardinality(A \cup B) = Cardinality(A) + Cardinality(B) - Cardinality(A \cap B)
    BY <1>16, <1>17, FS_Union
  <2>2. Cardinality(A \cap B) = 0
    BY <1>14, FS_EmptySet
  <2>3. Cardinality(A) \in Nat /\ Cardinality(B) \in Nat
    BY <1>16, <1>17
  <2> QED
    BY <2>1, <2>2, <2>3
<1>19. logsInUse = {x[2] : x \in logged \cup hand}
  BY <1>12, <1>13
<1>20. Cardinality(logsInUse) = Cardinality(logged) + Cardinality(hand)
  BY <1>13, <1>16, <1>17, <1>18
<1>21. \A x \in logged : x[1] \in inUse
  BY <1>6
<1> QED
  BY <1>3, <1>4, <1>19, <1>20, <1>21 DEF LogsAccounted

\* No log leaks: each one out of the pool is in the list of one packet in use or in the
\* hands of one thread, whichever threads share, free and reuse the packets.
THEOREM LogsAccountedAlways == LeakSpec => []LogsAccounted
<1>1. LeakInv => LogsAccounted
  BY LeakLogsAccounted
<1> QED
  BY <1>1, LeakInductive, PTL

===============================================================================
