-------------------------------- MODULE Packet --------------------------------
(***************************************************************************)
(* One Packet: a buffer that starts with room for a header, a write        *)
(* position rear_ and a read position front_, grown by Resize when a write *)
(* does not fit, taken from a pool, shared by reference count between the  *)
(* SmartPacket of its owner and the sessions it is sent to, and returned   *)
(* to the pool with the last reference.                                    *)
(*                                                                         *)
(* The bytes themselves are abstracted to the set of the cells that still  *)
(* hold what was put there.  Resize copies rear_ - front_ + NET_HEADER     *)
(* bytes from the start of the buffer, not the unread ones; late tells     *)
(* whether it did so when a part of the packet had been read.              *)
(*                                                                         *)
(* MoveWritePos and MoveReadPos check nothing, and PutData makes room once *)
(* for any length: that a packet stays inside its buffer is also its       *)
(* callers' affair.  breach names the first call that left it; the buffer  *)
(* is not followed further then, the references are.                       *)
(***************************************************************************)
EXTENDS Naturals

CONSTANTS
  NET_HEADER, LAN_HEADER,   \* sizeof(NetHeader), sizeof(LanHeader)
  PAYLOAD,                  \* bytes of payload a new packet has room for
  RINGBUFFER_SIZE,          \* no buffer grows beyond it
  BufferSizes,              \* the values bufferSize_ goes through
  Widths,                   \* sizeof of the types that << and >> are defined for
  MaxData,                  \* bound: the most bytes any other call moves
  ServerTypes,              \* the servers that use the packet: "Net", "Lan"
  MaxSends                  \* bound: sends of the packet under way at once

Header(st) == IF st = "Net" THEN NET_HEADER ELSE LAN_HEADER

\* Resize: the payload doubles; the new block may be larger than bufferSize_.
NewBufferSize(s) == (s - NET_HEADER) * 2 + NET_HEADER

Grown(s) == IF NewBufferSize(s) > RINGBUFFER_SIZE THEN RINGBUFFER_SIZE ELSE NewBufferSize(s)

\* One Resize always makes room for a scalar.
ASSUME PacketAssumption ==
    /\ NET_HEADER \in Nat /\ LAN_HEADER \in Nat /\ LAN_HEADER <= NET_HEADER
    /\ PAYLOAD \in Nat /\ RINGBUFFER_SIZE \in Nat /\ MaxData \in Nat
    /\ Widths \subseteq Nat \ {0}
    /\ BufferSizes \subseteq NET_HEADER .. RINGBUFFER_SIZE
    /\ NET_HEADER + PAYLOAD \in BufferSizes
    /\ \A s \in BufferSizes \ {RINGBUFFER_SIZE} :
         Grown(s) \in BufferSizes /\ \A w \in Widths : s + w <= Grown(s)
    /\ ServerTypes \subseteq {"Net", "Lan"} /\ MaxSends \in Nat

VARIABLES
  phase,                \* "free" (in the pool), or what was done to it last:
                        \* "writing", "reading", or "sending" after SetHeader
  type,                 \* the ServerType it was allocated for
  bufferSize, front, rear, bEncoded,
  block,                \* the length of the array pBuffer_ points to
  payloadLen,           \* of the header in the buffer
  encodings,            \* history: how often Encode went over the payload
  valid,                \* the cells that hold what was last put there
  late,                 \* history: Resize came after the first read
  breach,               \* history: the call that left the buffer, or "none"
  refCnt,
  held,                 \* the owner's SmartPacket exists
  queued,               \* sends that have a reference
  releasing             \* threads that dropped the last one and are about to Free

positions == <<front, rear>>
bufferVars == <<bufferSize, block>>
refVars == <<refCnt, held, queued, releasing>>
vars == <<phase, type, bufferVars, positions, bEncoded, payloadLen, encodings, valid, late, breach,
          refVars>>

Init ==
    /\ phase = "free" /\ type \in ServerTypes
    /\ bufferSize = NET_HEADER + PAYLOAD /\ block = bufferSize
    /\ front = 0 /\ rear = 0
    /\ bEncoded = FALSE /\ payloadLen = 0 /\ encodings = 0
    /\ valid = {} /\ late = FALSE /\ breach = "none"
    /\ refCnt = 0 /\ held = FALSE /\ queued = 0 /\ releasing = 0

-------------------------------------------------------------------------------
\* Mutation: Clear leaves bEncoded_ as the packet's former user left it.
AllocKeepEncoded(st) ==
    /\ phase = "free"
    /\ phase' = "writing" /\ type' = st
    /\ front' = Header(st) /\ rear' = Header(st)
    /\ valid' = {} /\ late' = FALSE /\ encodings' = 0
    /\ refCnt' = refCnt + 1 /\ held' = TRUE
    /\ UNCHANGED <<bufferVars, bEncoded, payloadLen, breach, queued, releasing>>

\* SmartPacket sp = PACKET_ALLOC(st): Alloc, Clear and the first reference.  A
\* packet that has grown stays grown.
Alloc(st) ==
    /\ phase = "free"
    /\ phase' = "writing" /\ type' = st
    /\ front' = Header(st) /\ rear' = Header(st)
    /\ bEncoded' = FALSE
    /\ valid' = {} /\ late' = FALSE /\ encodings' = 0
    /\ refCnt' = refCnt + 1 /\ held' = TRUE
    /\ UNCHANGED <<bufferVars, payloadLen, breach, queued, releasing>>

\* Whether n bytes fit behind rear_, and whether n unread bytes are there.  << and >> compare
\* unsigned, which is the same as long as the differences are not negative.
Fits(n) == rear + n <= bufferSize
Holds(n) == n <= rear - front

\* The callers' contract, so far: PutData was given no more than one Resize makes room
\* for, MoveWritePos no more than is free and MoveReadPos no more than is unread.
Contract == breach = "none"

Keeps(call, ok) == breach' = IF ok THEN breach ELSE call

MayUse == held /\ phase \in {"writing", "reading"} /\ Contract

Cells(pos, n) == {c \in pos .. pos + n : c < pos + n}

\* Mutation: the header in front of the payload is not counted.
CopiedNoHeader == Cells(0, rear - front)

\* Mutation: the whole new block is copied.
CopiedAll == Cells(0, NewBufferSize(bufferSize))

\* The cells memcpy takes over into the new block.
Copied == Cells(0, rear - front + NET_HEADER)

\* The write of << and PutData when it fits.
Put(n) ==
    /\ MayUse
    /\ Fits(n)
    /\ rear' = rear + n
    /\ valid' = valid \cup Cells(rear, n)
    /\ UNCHANGED <<phase, type, bufferVars, front, bEncoded, payloadLen, encodings, late, refVars>>

\* Mutation: bufferSize_ grows, the array stays.
PutResizedInPlace(n) ==
    /\ MayUse
    /\ ~Fits(n) /\ bufferSize # RINGBUFFER_SIZE
    /\ bufferSize' = Grown(bufferSize)
    /\ rear' = rear + n
    /\ valid' = valid \cup Cells(rear, n)
    /\ UNCHANGED <<phase, type, block, front, bEncoded, payloadLen, encodings, late, refVars>>

\* And when it does not: Resize once, then write, whether it fits now or not.  At
\* RINGBUFFER_SIZE << throws and PutData returns 0, and nothing changes.
PutResized(n) ==
    /\ MayUse
    /\ ~Fits(n) /\ bufferSize # RINGBUFFER_SIZE
    /\ bufferSize' = Grown(bufferSize)
    /\ block' = NewBufferSize(bufferSize)
    /\ rear' = rear + n
    /\ valid' = (valid \cap Copied) \cup Cells(rear, n)
    /\ late' = (late \/ front # Header(type))
    /\ UNCHANGED <<phase, type, front, bEncoded, payloadLen, encodings, refVars>>

\* << of a scalar of n bytes.
Insert(n) == (Put(n) \/ PutResized(n)) /\ UNCHANGED breach

\* PutData copies what it was given; it does not look at the buffer again.
PutData(n) ==
    /\ Put(n) \/ PutResized(n)
    /\ Keeps("PutData", Fits(n) \/ rear + n <= Grown(bufferSize))

\* MoveWritePos, past n bytes that the caller received at rear_; nothing is checked.
MoveWritePos(n) ==
    /\ MayUse
    /\ Keeps("MoveWritePos", Fits(n))
    /\ rear' = rear + n
    /\ valid' = valid \cup Cells(rear, n)
    /\ UNCHANGED <<phase, type, bufferVars, front, bEncoded, payloadLen, encodings, late, refVars>>

Advance(n) ==
    /\ MayUse
    /\ phase' = "reading"
    /\ front' = front + n
    /\ UNCHANGED <<type, bufferVars, rear, bEncoded, payloadLen, encodings, valid, late, refVars>>

\* GetData, GetPointer, and >>: GetData and >> throw, GetPointer returns nullptr when fewer
\* bytes are there, and nothing changes.
GetData(n) == Holds(n) /\ Advance(n) /\ UNCHANGED breach

\* MoveReadPos; nothing is checked.
MoveReadPos(n) == Advance(n) /\ Keeps("MoveReadPos", Holds(n))

\* << and >> of a scalar of n bytes, the same for every type they are defined for.
ScalarStep(n) == Insert(n) \/ GetData(n)

\* SetHeader, once for every session the packet is sent to: the first one fills in the
\* header of a Net packet and encodes the payload in place (module PacketCodec).
SetHeader ==
    /\ held /\ phase \in {"writing", "sending"} /\ Contract
    /\ phase' = "sending"
    /\ IF type = "Net" /\ bEncoded
       THEN UNCHANGED <<payloadLen, encodings>>
       ELSE /\ payloadLen' = rear - front
            /\ encodings' = IF type = "Net" THEN encodings + 1 ELSE encodings
    /\ bEncoded' = (bEncoded \/ type = "Net")
    /\ UNCHANGED <<type, bufferVars, positions, valid, late, breach, refVars>>

-------------------------------------------------------------------------------
\* SendPacket takes a reference for a session before it queues the packet there.
Send ==
    /\ held /\ phase = "sending"
    /\ queued < MaxSends
    /\ refCnt' = refCnt + 1 /\ queued' = queued + 1
    /\ UNCHANGED <<phase, type, bufferVars, positions, bEncoded, payloadLen, encodings, valid,
                   late, breach, held, releasing>>

\* Mutation: the thread that leaves one reference behind frees the packet.
DropRefOldValue ==
    /\ refCnt' = refCnt - 1
    /\ releasing' = IF refCnt = 2 THEN releasing + 1 ELSE releasing

\* DecrementRefCnt() == 0: one atomic step decides who frees the packet.
DropRef ==
    /\ refCnt' = refCnt - 1
    /\ releasing' = IF refCnt = 1 THEN releasing + 1 ELSE releasing

\* ~SmartPacket, and the end of a send.
Drop ==
    /\ \/ held /\ held' = FALSE /\ UNCHANGED queued
       \/ queued > 0 /\ queued' = queued - 1 /\ UNCHANGED held
    /\ DropRef
    /\ UNCHANGED <<phase, type, bufferVars, positions, bEncoded, payloadLen, encodings, valid,
                   late, breach>>

\* PACKET_FREE.
Free ==
    /\ releasing > 0
    /\ releasing' = releasing - 1
    /\ phase' = "free"
    /\ UNCHANGED <<type, bufferVars, positions, bEncoded, payloadLen, encodings, valid,
                   late, breach, refCnt, held, queued>>

-------------------------------------------------------------------------------
Lengths == 1 .. MaxData

Next ==
    \/ \E st \in ServerTypes : Alloc(st)
    \/ \E n \in Widths : ScalarStep(n)
    \/ \E n \in Lengths : PutData(n) \/ MoveWritePos(n) \/ GetData(n) \/ MoveReadPos(n)
    \/ SetHeader \/ Send \/ Drop \/ Free

Spec == Init /\ [][Next]_vars

-------------------------------------------------------------------------------
\* Every variable has its type.
TypeOK ==
    /\ phase \in {"free", "writing", "reading", "sending"}
    /\ type \in ServerTypes
    /\ bufferSize \in BufferSizes /\ block \in Nat
    /\ front \in Nat /\ rear \in Nat
    /\ bEncoded \in BOOLEAN /\ payloadLen \in Nat /\ encodings \in Nat
    /\ valid \subseteq Nat /\ late \in BOOLEAN
    /\ breach \in {"none", "PutData", "MoveWritePos", "MoveReadPos"}
    /\ refCnt \in Nat /\ held \in BOOLEAN /\ queued \in 0 .. MaxSends /\ releasing \in Nat

\* bufferSize_ never promises more than the array has.  As long as the callers keep to
\* their contract, and whatever they do with <<, >>, GetData and GetPointer, nothing is
\* written or read outside it, however often the packet has grown and been reused.
InBlock ==
    /\ bufferSize <= block
    /\ Contract => front <= rear /\ rear <= bufferSize

\* Under the contract every unread byte is the byte that was put there, across any number
\* of Resizes, unless one of them came after a part of the packet had been read.
UnreadIntact == Contract /\ ~late => Cells(front, rear - front) \subseteq valid

\* A packet that is sent describes its whole payload, not that of an earlier use of
\* the same buffer, and a Net packet was encoded once for all its sessions.
HeaderExact ==
    phase = "sending" => /\ payloadLen = rear - Header(type)
                         /\ encodings = (IF type = "Net" THEN 1 ELSE 0)

\* A packet stays out of the pool as long as its owner or a send has a reference; then
\* exactly one thread returns it.
FreedOnce ==
    /\ held \/ queued > 0 => phase # "free" /\ releasing = 0
    /\ phase # "free" /\ ~held /\ queued = 0 => releasing = 1
    /\ phase = "free" => releasing = 0

\* Resize reads no byte beyond the end of the old block, for Net packets; a
\* Lan packet has the shorter header, and Resize counts the longer one.
CopyInBounds ==
    [][block' # block /\ type = "Net" => Copied \subseteq Cells(0, block)]_vars

===============================================================================
