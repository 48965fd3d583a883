----------------------------- MODULE DBWriteThread -----------------------------
(***************************************************************************)
(* DBWriteThread: any thread hands packets to one writer thread through a  *)
(* CLockFreeQueue.  The writer drains the queue, sleeps on the address of  *)
(* num_ while it is 0, and is woken after every request and at shutdown.   *)
(*                                                                         *)
(* The queue is taken as module LockFreeQueue shows it to be: an element   *)
(* is in the queue once it is linked, num_ is incremented in a later step, *)
(* and a Dequeue decrements num_ before it takes the oldest element.  The  *)
(* packets come from a pool that keeps the promise of ObjectPool.          *)
(***************************************************************************)
EXTENDS Integers, Sequences, SequencesExt, FiniteSets

CONSTANTS
  Producers,  \* threads that call ReqDBWriteJob
  Packets,    \* packets dbReqPool_ may hand out
  NoPacket

ASSUME DBAssumption == NoPacket \notin Packets /\ IsFiniteSet(Packets) /\ IsFiniteSet(Producers)

VARIABLES
  items, num,       \* dbReqQ_: the linked packets and num_
  inUse,            \* packets handed out by dbReqPool_
  bShutDown,
  writer, draining, \* where the writer thread is; whether it left the main loop
  taken,            \* its pPacket
  pc, pkt,          \* where each producer is, and its packet
  owner,            \* where the owner of the object is
  due,              \* history: requests that returned before shutdown, unwritten
  overlap           \* history: some request was under way at or after SetShutDown

writerVars   == <<writer, draining, taken>>
producerVars == <<pc, pkt>>
historyVars  == <<due, overlap>>
vars == <<items, num, inUse, bShutDown, writerVars, producerVars, owner, historyVars>>

PacketPool == INSTANCE ObjectPool WITH Objects <- Packets

Init ==
    /\ items = <<>> /\ num = 0
    /\ inUse = {}
    /\ bShutDown = FALSE
    /\ writer = "notStarted" /\ draining = FALSE /\ taken = NoPacket
    /\ pc = [p \in Producers |-> "idle"]
    /\ pkt = [p \in Producers |-> NoPacket]
    /\ owner = "start"
    /\ due = {} /\ overlap = FALSE

Goto(p, label) == pc' = [pc EXCEPT ![p] = label]

\* WakeByAddressSingle(&num_): nothing is remembered when nobody sleeps.
Wake == writer' = IF writer = "asleep" THEN "check" ELSE writer

-------------------------------------------------------------------------------
\* A producer: ALLOC, then ReqDBWriteJob.
Alloc(p) ==
    /\ pc[p] = "idle"
    /\ \E k \in Packets : PacketPool!Alloc(k) /\ pkt' = [pkt EXCEPT ![p] = k]
    /\ Goto(p, "link")
    /\ overlap' = (overlap \/ bShutDown)
    /\ UNCHANGED <<items, num, bShutDown, writerVars, owner, due>>

Link(p) ==
    /\ pc[p] = "link"
    /\ items' = Append(items, pkt[p])
    /\ Goto(p, "count")
    /\ UNCHANGED <<num, inUse, bShutDown, writerVars, pkt, owner, historyVars>>

Count(p) ==
    /\ pc[p] = "count"
    /\ num' = num + 1
    /\ Goto(p, "wake")
    /\ UNCHANGED <<items, inUse, bShutDown, writerVars, pkt, owner, historyVars>>

\* The call returns; the packet is the writer's, and may be written already.
WakeWriter(p) ==
    /\ pc[p] = "wake"
    /\ Wake
    /\ due' = IF ~bShutDown /\ pkt[p] \in ToSet(items) THEN due \cup {pkt[p]} ELSE due
    /\ pkt' = [pkt EXCEPT ![p] = NoPacket]
    /\ Goto(p, "idle")
    /\ UNCHANGED <<items, num, inUse, bShutDown, draining, taken, owner, overlap>>

-------------------------------------------------------------------------------
\* The owner: Start, SetShutDown, WaitUntilDbWriteComplete.
Start ==
    /\ owner = "start"
    /\ owner' = "running"
    /\ writer' = "check"
    /\ UNCHANGED <<items, num, inUse, bShutDown, draining, taken, producerVars, historyVars>>

SetShutDown ==
    /\ owner = "running"
    /\ bShutDown' = TRUE
    /\ owner' = "wake"
    /\ overlap' = \E p \in Producers : pc[p] # "idle"
    /\ UNCHANGED <<items, num, inUse, writerVars, producerVars, due>>

WakeForShutDown ==
    /\ owner = "wake"
    /\ Wake
    /\ owner' = "join"
    /\ UNCHANGED <<items, num, inUse, bShutDown, draining, taken, producerVars, historyVars>>

WaitUntilDbWriteComplete ==
    /\ owner = "join"
    /\ writer = "exited"
    /\ owner' = "joined"
    /\ UNCHANGED <<items, num, inUse, bShutDown, writerVars, producerVars, historyVars>>

-------------------------------------------------------------------------------
\* DBThreadFunc.  while (!bShutDown_)
CheckShutDown ==
    /\ writer = "check"
    /\ draining' = bShutDown
    /\ writer' = "reserve"
    /\ UNCHANGED <<items, num, inUse, bShutDown, taken, producerVars, owner, historyVars>>

\* Dequeue: InterlockedDecrement(&num_) < 0
Reserve ==
    /\ writer = "reserve"
    /\ num' = num - 1
    /\ writer' = IF num - 1 < 0 THEN "undo" ELSE "take"
    /\ UNCHANGED <<items, inUse, bShutDown, draining, taken, producerVars, owner, historyVars>>

\* Mutation: a Dequeue that found nothing leaves num_ decremented.
UndoNot ==
    /\ writer = "undo"
    /\ writer' = IF draining THEN "exited" ELSE "wait"
    /\ UNCHANGED <<items, num, inUse, bShutDown, draining, taken, producerVars, owner, historyVars>>

\* Dequeue returned nullopt: the main loop goes to sleep, the last loop ends.
Undo ==
    /\ writer = "undo"
    /\ num' = num + 1
    /\ writer' = IF draining THEN "exited" ELSE "wait"
    /\ UNCHANGED <<items, inUse, bShutDown, draining, taken, producerVars, owner, historyVars>>

Take ==
    /\ writer = "take"
    /\ items # <<>>
    /\ taken' = Head(items)
    /\ items' = Tail(items)
    /\ writer' = "write"
    /\ UNCHANGED <<num, inUse, bShutDown, draining, producerVars, owner, historyVars>>

\* OnWrite(pPacket)
OnWrite ==
    /\ writer = "write"
    /\ due' = due \ {taken}
    /\ writer' = "free"
    /\ UNCHANGED <<items, num, inUse, bShutDown, draining, taken, producerVars, owner, overlap>>

\* Mutation: the packet is freed before the loop ends, but kept in pPacket.
FreeKeepsPacket ==
    /\ writer = "free"
    /\ PacketPool!Free(taken)
    /\ writer' = "reserve"
    /\ UNCHANGED <<items, num, bShutDown, draining, taken, producerVars, owner, historyVars>>

\* Mutation: the last loop ends after one packet.
FreeAndLeave ==
    /\ writer = "free"
    /\ PacketPool!Free(taken)
    /\ taken' = NoPacket
    /\ writer' = IF draining THEN "exited" ELSE "reserve"
    /\ UNCHANGED <<items, num, bShutDown, draining, producerVars, owner, historyVars>>

Free ==
    /\ writer = "free"
    /\ PacketPool!Free(taken)
    /\ taken' = NoPacket
    /\ writer' = "reserve"
    /\ UNCHANGED <<items, num, bShutDown, draining, producerVars, owner, historyVars>>

\* Mutation: the writer goes to sleep without comparing num_ again.
WaitWithoutCompare ==
    /\ writer = "wait"
    /\ writer' = "asleep"
    /\ UNCHANGED <<items, num, inUse, bShutDown, draining, taken, producerVars, owner, historyVars>>

\* WaitOnAddress compares and goes to sleep in one step.
WaitOnAddress ==
    /\ writer = "wait"
    /\ writer' = IF num = 0 THEN "asleep" ELSE "check"
    /\ UNCHANGED <<items, num, inUse, bShutDown, draining, taken, producerVars, owner, historyVars>>

\* WaitOnAddress may return for no reason.
SpuriousWake ==
    /\ writer = "asleep"
    /\ writer' = "check"
    /\ UNCHANGED <<items, num, inUse, bShutDown, draining, taken, producerVars, owner, historyVars>>

-------------------------------------------------------------------------------
WriterStep ==
    CheckShutDown \/ Reserve \/ Undo \/ Take \/ OnWrite \/ Free \/ WaitOnAddress

RequestStep(p) == Link(p) \/ Count(p) \/ WakeWriter(p)

Next ==
    \/ \E p \in Producers : Alloc(p) \/ RequestStep(p)
    \/ WriterStep \/ SpuriousWake
    \/ Start \/ SetShutDown \/ WakeForShutDown \/ WaitUntilDbWriteComplete

Spec == Init /\ [][Next]_vars

\* Threads that can run do run; nobody has to start a request or a shutdown, and
\* the system need not wake the writer for no reason.
LiveSpec ==
    /\ Spec
    /\ WF_vars(WriterStep) /\ WF_vars(Start)
    /\ WF_vars(WakeForShutDown) /\ WF_vars(WaitUntilDbWriteComplete)
    /\ \A p \in Producers : WF_vars(RequestStep(p))

-------------------------------------------------------------------------------
\* Producers that have a packet nobody else sees, and those that have linked one.
Filling  == {p \in Producers : pc[p] = "link"}
Counting == {p \in Producers : pc[p] = "count"}

\* Every variable has its type; num_ never drops below -1, for there is one writer.
TypeOK ==
    /\ items \in Seq(Packets) /\ num \in -1 .. Cardinality(Packets)
    /\ inUse \subseteq Packets /\ due \subseteq Packets
    /\ bShutDown \in BOOLEAN /\ draining \in BOOLEAN /\ overlap \in BOOLEAN
    /\ writer \in {"notStarted", "check", "reserve", "undo", "take", "write", "free",
                   "wait", "asleep", "exited"}
    /\ taken \in Packets \cup {NoPacket}
    /\ pc \in [Producers -> {"idle", "link", "count", "wake"}]
    /\ pkt \in [Producers -> Packets \cup {NoPacket}]
    /\ owner \in {"start", "running", "wake", "join", "joined"}

\* A packet out of the pool is in one place: with the producer filling it, in the
\* queue once, or with the writer.  None leaks, is written twice or freed early.
PacketsAccounted ==
    /\ inUse = {pkt[p] : p \in Filling} \cup ToSet(items) \cup ({taken} \ {NoPacket})
    /\ Cardinality(inUse) = Cardinality(Filling) + Len(items)
                             + (IF taken = NoPacket THEN 0 ELSE 1)

\* The writer never sleeps on a request that has been counted: whoever counted
\* it is still about to wake it.
NoSleepOverWork ==
    writer = "asleep" /\ num # 0 => \E p \in Producers : pc[p] = "wake"

\* num_ counts the linked packets nobody has reserved, and lags by the requests
\* between link and count: the writer that reserved finds a packet at once.
CountExact ==
    num + (IF writer \in {"take", "undo"} THEN 1 ELSE 0)
      = Len(items) - Cardinality(Counting)

\* When the writer is gone and no request ran into the shutdown, nothing is left of
\* the requests made before it: the last loop drains the queue.
AllWrittenAtExit == writer = "exited" /\ ~overlap => due = {}

\* As long as nobody shuts down, every counted request gets written.
RequestsServed ==
    \A k \in Packets : k \in due ~> (k \notin due \/ bShutDown)

\* "Process everything ... and leave": after a SetShutDown no request ran into, the
\* writer does leave, so that WaitUntilDbWriteComplete returns.
ShutDownCompletes == bShutDown ~> (owner = "joined" \/ overlap)

===============================================================================
