-------------------------- MODULE DBWriteThreadProofs --------------------------
(***************************************************************************)
(* Theorems about DBWriteThread, for any finite sets of producers and      *)
(* packets, and about a service that stores its packets with QueryFactory  *)
(* (DBQueryWriter), for any first size of the buffer and any lengths.      *)
(***************************************************************************)
EXTENDS DBQueryWriter, FiniteSetTheorems, SequenceTheorems, TLAPS

WriterAt == {"notStarted", "check", "reserve", "undo", "take", "write", "free",
             "wait", "asleep", "exited"}

\* The type of every variable, without the bounds of num_.
TypeInv ==
    /\ items \in Seq(Packets) /\ num \in Int
    /\ inUse \subseteq Packets /\ due \subseteq Packets
    /\ bShutDown \in BOOLEAN /\ draining \in BOOLEAN /\ overlap \in BOOLEAN
    /\ writer \in WriterAt
    /\ taken \in Packets \cup {NoPacket}
    /\ pc \in [Producers -> {"idle", "link", "count", "wake"}]
    /\ pkt \in [Producers -> Packets \cup {NoPacket}]
    /\ owner \in {"start", "running", "wake", "join", "joined"}

\* Who holds a packet: a producer before Link, the writer between Take and Free.
HoldInv ==
    /\ \A p \in Filling : pkt[p] \in Packets
    /\ taken # NoPacket <=> writer \in {"write", "free"}
    /\ owner = "start" => writer = "notStarted"

\* Only the writer decrements num_, and it does so from 0 only to undo it.
NumFloor == num >= (IF writer = "undo" THEN -1 ELSE 0)

BasicInv == TypeInv /\ HoldInv /\ NumFloor /\ NoSleepOverWork

-------------------------------------------------------------------------------
\* ToSet under the three operations on the queue.
LEMMA ToSetTypes ==
  ASSUME NEW s \in Seq(Packets)
  PROVE  ToSet(s) \subseteq Packets
BY ElementOfSeq, LenProperties DEF ToSet

LEMMA BasicInit == Init => BasicInv
<1> SUFFICES ASSUME Init PROVE BasicInv
  OBVIOUS
<1>1. TypeInv
  <2>1. items \in Seq(Packets)
    BY EmptySeq DEF Init
  <2>2. pc \in [Producers -> {"idle", "link", "count", "wake"}]
    BY DEF Init
  <2>3. pkt \in [Producers -> Packets \cup {NoPacket}]
    BY DEF Init
  <2>4. inUse = {} /\ due = {}
    BY DEF Init
  <2>5. bShutDown \in BOOLEAN /\ draining \in BOOLEAN /\ overlap \in BOOLEAN
    BY DEF Init
  <2>6. writer \in WriterAt /\ taken \in Packets \cup {NoPacket} /\ num \in Int
        /\ owner \in {"start", "running", "wake", "join", "joined"}
    BY DEF Init, WriterAt
  <2> QED
    BY <2>1, <2>2, <2>3, <2>4, <2>5, <2>6 DEF TypeInv
<1>2. HoldInv /\ NumFloor /\ NoSleepOverWork
  BY DEF Init, HoldInv, Filling, NumFloor, NoSleepOverWork
<1> QED
  BY <1>1, <1>2 DEF BasicInv

LEMMA BasicRequest ==
  ASSUME BasicInv, NEW p \in Producers, Alloc(p) \/ RequestStep(p)
  PROVE  BasicInv'
<1> USE DBAssumption DEF BasicInv, TypeInv, WriterAt, HoldInv, Filling, NumFloor,
        NoSleepOverWork, Goto, writerVars, historyVars
<1>1. CASE Alloc(p)
  BY <1>1 DEF Alloc, PacketPool!Alloc
<1>2. CASE Link(p)
  <2>1. pkt[p] \in Packets
    BY <1>2 DEF Link
  <2>2. items' \in Seq(Packets)
    BY <1>2, <2>1, AppendProperties DEF Link
  <2> QED
    BY <1>2, <2>2 DEF Link
<1>3. CASE Count(p)
  BY <1>3 DEF Count
<1>4. CASE WakeWriter(p)
  BY <1>4, ToSetTypes DEF WakeWriter, Wake
<1> QED
  BY <1>1, <1>2, <1>3, <1>4 DEF RequestStep

LEMMA BasicOwner ==
  ASSUME BasicInv, Start \/ SetShutDown \/ WakeForShutDown \/ WaitUntilDbWriteComplete
  PROVE  BasicInv'
<1> USE DEF BasicInv, TypeInv, WriterAt, HoldInv, Filling, NumFloor,
        NoSleepOverWork, writerVars, producerVars, historyVars
<1>1. CASE Start
  BY <1>1 DEF Start
<1>2. CASE SetShutDown
  BY <1>2 DEF SetShutDown
<1>3. CASE WakeForShutDown
  BY <1>3 DEF WakeForShutDown, Wake
<1>4. CASE WaitUntilDbWriteComplete
  BY <1>4 DEF WaitUntilDbWriteComplete
<1> QED
  BY <1>1, <1>2, <1>3, <1>4

LEMMA BasicWriter ==
  ASSUME BasicInv, WriterStep \/ SpuriousWake
  PROVE  BasicInv'
<1> USE DBAssumption DEF BasicInv, TypeInv, WriterAt, HoldInv, Filling, NumFloor,
        NoSleepOverWork, producerVars, historyVars
<1>1. CASE CheckShutDown
  BY <1>1 DEF CheckShutDown
<1>2. CASE Reserve
  BY <1>2 DEF Reserve
<1>3. CASE Undo
  BY <1>3 DEF Undo
<1>4. CASE Take
  <2>1. Head(items) \in Packets /\ Tail(items) \in Seq(Packets)
    BY <1>4, HeadTailProperties DEF Take
  <2> QED
    BY <1>4, <2>1 DEF Take
<1>5. CASE OnWrite
  BY <1>5 DEF OnWrite
<1>6. CASE Free
  BY <1>6 DEF Free, PacketPool!Free
<1>7. CASE WaitOnAddress
  BY <1>7 DEF WaitOnAddress
<1>8. CASE SpuriousWake
  BY <1>8 DEF SpuriousWake
<1> QED
  BY <1>1, <1>2, <1>3, <1>4, <1>5, <1>6, <1>7, <1>8 DEF WriterStep

LEMMA BasicNext == BasicInv /\ [Next]_vars => BasicInv'
<1>1. BasicInv /\ UNCHANGED vars => BasicInv'
  BY DEF vars, BasicInv, TypeInv, HoldInv, Filling, NumFloor, NoSleepOverWork,
         writerVars, producerVars, historyVars
<1> QED
  BY <1>1, BasicRequest, BasicOwner, BasicWriter DEF Next

\* The types, who holds a packet, the floor of num_ and NoSleepOverWork hold together;
\* the other proofs start from them (ReqDBWriteJob, DBThreadFunc).
THEOREM Basic == Spec => []BasicInv
BY BasicInit, BasicNext, PTL DEF Spec

-------------------------------------------------------------------------------
LEMMA ProducerSets ==
  /\ IsFiniteSet(Filling) /\ Cardinality(Filling) \in Nat
  /\ IsFiniteSet(Counting) /\ Cardinality(Counting) \in Nat
<1>1. Filling \in SUBSET Producers /\ Counting \in SUBSET Producers
  BY DEF Filling, Counting
<1> QED
  BY <1>1, DBAssumption, FS_Subset, FS_CardinalityType

LEMMA CountInit == Init => CountExact
<1> SUFFICES ASSUME Init PROVE CountExact
  OBVIOUS
<1>1. Counting = {} /\ Len(items) = 0
  BY DEF Init, Counting
<1>2. Cardinality(Counting) = 0
  BY <1>1, FS_EmptySet
<1> QED
  BY <1>1, <1>2 DEF Init, CountExact

\* num_ and the queue move together, but for the link that is not counted yet and
\* the decrement that is not used yet.
LEMMA CountNext == BasicInv /\ CountExact /\ [Next]_vars => CountExact'
<1> SUFFICES ASSUME BasicInv, CountExact, [Next]_vars PROVE CountExact'
  OBVIOUS
<1>1. /\ items \in Seq(Packets) /\ num \in Int /\ Len(items) \in Nat
      /\ pc \in [Producers -> {"idle", "link", "count", "wake"}]
      /\ IsFiniteSet(Counting) /\ Cardinality(Counting) \in Nat
  BY ProducerSets, LenProperties DEF BasicInv, TypeInv
<1>2. ASSUME NEW p \in Producers, Link(p) PROVE CountExact'
  <2>1. Counting' = Counting \cup {p} /\ p \notin Counting
    BY <1>1, <1>2 DEF Link, Goto, Counting
  <2>2. Cardinality(Counting') = Cardinality(Counting) + 1
    BY <1>1, <2>1, FS_AddElement
  <2>3. pkt[p] \in Packets
    BY <1>2 DEF BasicInv, HoldInv, Filling, Link
  <2>4. Len(items') = Len(items) + 1
    BY <1>1, <1>2, <2>3, AppendProperties DEF Link
  <2> QED
    BY <1>1, <1>2, <2>2, <2>4 DEF CountExact, Link, writerVars
<1>3. ASSUME NEW p \in Producers, Count(p) PROVE CountExact'
  <2>1. Counting' = Counting \ {p} /\ p \in Counting
    BY <1>1, <1>3 DEF Count, Goto, Counting
  <2>2. Cardinality(Counting') = Cardinality(Counting) - 1
    BY <1>1, <2>1, FS_RemoveElement
  <2> QED
    BY <1>1, <1>3, <2>2 DEF CountExact, Count, writerVars
<1>4. CASE Reserve
  <2>1. Counting' = Counting
    BY <1>4 DEF Reserve, producerVars, Counting
  <2> QED
    BY <1>1, <1>4, <2>1 DEF CountExact, Reserve
<1>5. CASE Undo
  <2>1. Counting' = Counting
    BY <1>5 DEF Undo, producerVars, Counting
  <2> QED
    BY <1>1, <1>5, <2>1 DEF CountExact, Undo
<1>6. CASE Take
  <2>1. Counting' = Counting
    BY <1>6 DEF Take, producerVars, Counting
  <2>2. Len(items') = Len(items) - 1
    BY <1>1, <1>6, HeadTailProperties DEF Take
  <2> QED
    BY <1>1, <1>6, <2>1, <2>2 DEF CountExact, Take
<1>7. ASSUME NEW p \in Producers, Alloc(p) \/ WakeWriter(p) PROVE CountExact'
  <2>1. Counting' = Counting
    BY <1>1, <1>7 DEF Alloc, WakeWriter, Goto, Counting
  <2>2. num' = num /\ items' = items
    BY <1>7 DEF Alloc, WakeWriter
  <2>3. writer' \in {"take", "undo"} <=> writer \in {"take", "undo"}
    BY <1>7 DEF Alloc, WakeWriter, Wake, writerVars
  <2> QED
    BY <2>1, <2>2, <2>3 DEF CountExact
<1>8. CASE \/ Start \/ SetShutDown \/ WakeForShutDown \/ WaitUntilDbWriteComplete
           \/ CheckShutDown \/ OnWrite \/ Free \/ WaitOnAddress \/ SpuriousWake
           \/ UNCHANGED vars
  <2>1. Counting' = Counting /\ num' = num /\ items' = items
    BY <1>8 DEF Start, SetShutDown, WakeForShutDown, WaitUntilDbWriteComplete, CheckShutDown,
                OnWrite, Free, WaitOnAddress, SpuriousWake, vars, producerVars, Counting
  <2>2. writer' \in {"take", "undo"} <=> writer \in {"take", "undo"}
    <3>1. CASE Start
      BY <3>1 DEF Start, BasicInv, HoldInv
    <3> QED
      BY <1>8, <3>1 DEF SetShutDown, WakeForShutDown, WaitUntilDbWriteComplete, Wake,
         CheckShutDown, OnWrite, Free, WaitOnAddress, SpuriousWake, vars, writerVars
  <2> QED
    BY <2>1, <2>2 DEF CountExact
<1> QED
  BY <1>2, <1>3, <1>4, <1>5, <1>6, <1>7, <1>8 DEF Next, RequestStep, WriterStep

\* num_ lags behind the queue by exactly the Enqueues and Dequeues under way: a
\* Dequeue that decremented it from above 0 finds a packet (ReqDBWriteJob, DBThreadFunc).
THEOREM CountExactAlways == Spec => []CountExact
BY CountInit, CountNext, Basic, PTL DEF Spec

\* The writer does not sleep over a counted request nobody is about to wake it for.
THEOREM NoSleepOverWorkAlways == Spec => []NoSleepOverWork
BY Basic, PTL DEF BasicInv

-------------------------------------------------------------------------------
\* What the writer's second loop knows: no request is under way any more unless
\* overlap says so, and what is due is still in the queue or in its hands.
DrainInv ==
    /\ draining => bShutDown
    /\ bShutDown <=> owner \notin {"start", "running"}
    /\ bShutDown /\ ~overlap => \A p \in Producers : pc[p] = "idle"
    /\ writer = "exited" => draining
    /\ draining /\ ~overlap /\ writer \in {"undo", "exited"} => items = <<>>
    /\ due \subseteq ToSet(items) \cup (IF writer = "write" THEN {taken} ELSE {})

LEMMA ToSetAppend ==
  ASSUME NEW s \in Seq(Packets), NEW k \in Packets
  PROVE  ToSet(Append(s, k)) = ToSet(s) \cup {k}
<1>1. /\ DOMAIN s = 1 .. Len(s) /\ Len(s) \in Nat
      /\ DOMAIN Append(s, k) = 1 .. Len(s) + 1
      /\ \A i \in 1 .. Len(s) : Append(s, k)[i] = s[i]
      /\ Append(s, k)[Len(s) + 1] = k
  BY LenProperties, AppendProperties
<1>2. ASSUME NEW x \in ToSet(Append(s, k)) PROVE x \in ToSet(s) \cup {k}
  BY <1>1 DEF ToSet
<1>3. ASSUME NEW x \in ToSet(s) PROVE x \in ToSet(Append(s, k))
  BY <1>1 DEF ToSet
<1>4. k \in ToSet(Append(s, k))
  BY <1>1 DEF ToSet
<1> QED
  BY <1>2, <1>3, <1>4

LEMMA ToSetTail ==
  ASSUME NEW s \in Seq(Packets), s # <<>>
  PROVE  ToSet(s) = ToSet(Tail(s)) \cup {Head(s)}
<1>1. /\ DOMAIN s = 1 .. Len(s) /\ Len(s) \in Nat /\ Len(s) # 0
      /\ DOMAIN Tail(s) = 1 .. Len(s) - 1
      /\ \A i \in 1 .. Len(s) - 1 : Tail(s)[i] = s[i + 1]
      /\ Head(s) = s[1]
  BY LenProperties, EmptySeq, HeadTailProperties
<1>2. ASSUME NEW x \in ToSet(s) PROVE x \in ToSet(Tail(s)) \cup {Head(s)}
  <2>1. PICK i \in 1 .. Len(s) : x = s[i]
    BY <1>1 DEF ToSet
  <2>2. CASE i = 1
    BY <1>1, <2>1, <2>2
  <2>3. CASE i # 1
    <3>1. i - 1 \in 1 .. Len(s) - 1 /\ Tail(s)[i - 1] = x
      BY <1>1, <2>1, <2>3
    <3> QED
      BY <1>1, <3>1 DEF ToSet
  <2> QED
    BY <2>2, <2>3
<1>3. ASSUME NEW x \in ToSet(Tail(s)) PROVE x \in ToSet(s)
  BY <1>1 DEF ToSet
<1>4. Head(s) \in ToSet(s)
  BY <1>1 DEF ToSet
<1> QED
  BY <1>2, <1>3, <1>4

LEMMA DrainInit == Init => DrainInv
<1> SUFFICES ASSUME Init PROVE DrainInv
  OBVIOUS
<1> QED
  BY DEF Init, DrainInv

LEMMA DrainRequest ==
  ASSUME BasicInv, DrainInv, NEW p \in Producers, Alloc(p) \/ RequestStep(p)
  PROVE  DrainInv'
<1>1. CASE Alloc(p)
  BY <1>1 DEF Alloc, DrainInv, BasicInv, TypeInv, Goto, writerVars
<1>2. CASE Link(p)
  <2>1. pkt[p] \in Packets /\ ~(bShutDown /\ ~overlap)
    BY <1>2 DEF Link, BasicInv, HoldInv, Filling, DrainInv
  <2>2. ToSet(items') = ToSet(items) \cup {pkt[p]}
    BY <1>2, <2>1, ToSetAppend DEF Link, BasicInv, TypeInv
  <2> QED
    BY <1>2, <2>1, <2>2 DEF Link, DrainInv, writerVars, historyVars
<1>3. CASE Count(p)
  BY <1>3 DEF Count, DrainInv, BasicInv, TypeInv, Goto, writerVars, historyVars
<1>4. CASE WakeWriter(p)
  BY <1>4 DEF WakeWriter, Wake, DrainInv, BasicInv, TypeInv, Goto
<1> QED
  BY <1>1, <1>2, <1>3, <1>4 DEF RequestStep

LEMMA DrainOwner ==
  ASSUME BasicInv, DrainInv,
         Start \/ SetShutDown \/ WakeForShutDown \/ WaitUntilDbWriteComplete
  PROVE  DrainInv'
<1>1. CASE Start
  BY <1>1 DEF Start, DrainInv, BasicInv, HoldInv, producerVars, historyVars
<1>2. CASE SetShutDown
  BY <1>2 DEF SetShutDown, DrainInv, writerVars, producerVars
<1>3. CASE WakeForShutDown
  BY <1>3 DEF WakeForShutDown, Wake, DrainInv, producerVars, historyVars
<1>4. CASE WaitUntilDbWriteComplete
  BY <1>4 DEF WaitUntilDbWriteComplete, DrainInv, writerVars, producerVars, historyVars
<1> QED
  BY <1>1, <1>2, <1>3, <1>4

LEMMA DrainWriter ==
  ASSUME BasicInv, CountExact, DrainInv, WriterStep \/ SpuriousWake
  PROVE  DrainInv'
<1>1. CASE CheckShutDown
  BY <1>1 DEF CheckShutDown, DrainInv, producerVars, historyVars
<1>2. CASE Reserve
  <2>1. CASE num - 1 < 0 /\ draining /\ ~overlap
    <3>1. num = 0
      BY <1>2, <2>1 DEF Reserve, BasicInv, TypeInv, NumFloor
    <3>2. Counting = {}
      BY <2>1 DEF DrainInv, Counting
    <3>3. Len(items) = 0
      <4>1. Cardinality(Counting) = 0
        BY <3>2, FS_EmptySet
      <4>2. Len(items) \in Nat
        BY LenProperties DEF BasicInv, TypeInv
      <4> QED
        BY <1>2, <3>1, <4>1, <4>2 DEF CountExact, Reserve
    <3>4. items = <<>>
      BY <3>3, EmptySeq DEF BasicInv, TypeInv
    <3> QED
      BY <1>2, <3>4 DEF Reserve, DrainInv, producerVars, historyVars
  <2>2. CASE ~(num - 1 < 0 /\ draining /\ ~overlap)
    BY <1>2, <2>2 DEF Reserve, DrainInv, producerVars, historyVars
  <2> QED
    BY <2>1, <2>2
<1>3. CASE Undo
  BY <1>3 DEF Undo, DrainInv, producerVars, historyVars
<1>4. CASE Take
  <2>1. ToSet(items) = ToSet(items') \cup {taken'}
    BY <1>4, ToSetTail DEF Take, BasicInv, TypeInv
  <2> QED
    BY <1>4, <2>1 DEF Take, DrainInv, producerVars, historyVars
<1>5. CASE OnWrite
  BY <1>5 DEF OnWrite, DrainInv, producerVars
<1>6. CASE Free
  BY <1>6 DEF Free, DrainInv, producerVars, historyVars
<1>7. CASE WaitOnAddress
  BY <1>7 DEF WaitOnAddress, DrainInv, producerVars, historyVars
<1>8. CASE SpuriousWake
  BY <1>8 DEF SpuriousWake, DrainInv, producerVars, historyVars
<1> QED
  BY <1>1, <1>2, <1>3, <1>4, <1>5, <1>6, <1>7, <1>8 DEF WriterStep

LEMMA DrainNext == BasicInv /\ CountExact /\ DrainInv /\ [Next]_vars => DrainInv'
<1>1. DrainInv /\ UNCHANGED vars => DrainInv'
  BY DEF vars, DrainInv, writerVars, producerVars, historyVars
<1> QED
  BY <1>1, DrainRequest, DrainOwner, DrainWriter DEF Next

\* When the writer is gone and no request ran into the shutdown, everything that had
\* been asked for before is written (the second loop of DBThreadFunc).
THEOREM AllWrittenAtExitAlways == Spec => []AllWrittenAtExit
<1>1. BasicInv /\ DrainInv => AllWrittenAtExit
  BY DEF DrainInv, AllWrittenAtExit, ToSet
<1> QED
  BY <1>1, DrainInit, DrainNext, Basic, CountExactAlways, PTL DEF Spec

-------------------------------------------------------------------------------
Held == {pkt[p] : p \in Filling}

\* Neither set can be larger than the number of places it is kept in.
LEMMA HeldBound ==
  /\ IsFiniteSet(Held) /\ Cardinality(Held) \in Nat
  /\ Cardinality(Held) <= Cardinality(Filling)
<1> DEFINE f == [p \in Filling |-> pkt[p]]
<1>1. f \in Surjection(Filling, Held)
  BY DEF Held, Surjection
<1> QED
  BY <1>1, ProducerSets, FS_Surjection, FS_CardinalityType

LEMMA ToSetBound ==
  ASSUME NEW s \in Seq(Packets)
  PROVE  /\ IsFiniteSet(ToSet(s)) /\ Cardinality(ToSet(s)) \in Nat
         /\ Cardinality(ToSet(s)) <= Len(s)
<1>1. Len(s) \in Nat /\ s \in [1 .. Len(s) -> Packets] /\ DOMAIN s = 1 .. Len(s)
  BY LenProperties
<1>2. s \in Surjection(1 .. Len(s), ToSet(s))
  BY <1>1 DEF Surjection, ToSet
<1>3. IsFiniteSet(1 .. Len(s)) /\ Cardinality(1 .. Len(s)) = Len(s)
  BY <1>1, FS_Interval
<1> QED
  BY <1>2, <1>3, FS_Surjection, FS_CardinalityType

LEMMA AccountInit == Init => PacketsAccounted
<1> SUFFICES ASSUME Init PROVE PacketsAccounted
  OBVIOUS
<1>1. Filling = {} /\ ToSet(items) = {} /\ inUse = {} /\ taken = NoPacket /\ Len(items) = 0
  BY DEF Init, Filling, ToSet
<1> QED
  BY <1>1, FS_EmptySet DEF PacketsAccounted

\* The sets in PacketsAccounted are disjoint, for together they have as many members
\* as there are places: the writer's packet is nowhere else.
LEMMA TakenIsAlone ==
  ASSUME BasicInv, PacketsAccounted, taken # NoPacket
  PROVE  /\ taken \notin Held \cup ToSet(items)
         /\ inUse = (Held \cup ToSet(items)) \cup {taken}
<1> DEFINE others == Held \cup ToSet(items)
<1>1. inUse = others \cup {taken}
  BY DEF PacketsAccounted, Held
<1>2. /\ Len(items) \in Nat /\ Cardinality(Filling) \in Nat
      /\ IsFiniteSet(Held) /\ IsFiniteSet(ToSet(items))
      /\ Cardinality(Held) \in Nat /\ Cardinality(ToSet(items)) \in Nat
      /\ Cardinality(Held) <= Cardinality(Filling) /\ Cardinality(ToSet(items)) <= Len(items)
  BY HeldBound, ToSetBound, ProducerSets, LenProperties DEF BasicInv, TypeInv
<1>3. /\ IsFiniteSet(others) /\ Cardinality(others) \in Nat
      /\ Cardinality(others) <= Cardinality(Held) + Cardinality(ToSet(items))
  <2>1. Held \cap ToSet(items) \in SUBSET Held
    OBVIOUS
  <2>2. Cardinality(Held \cap ToSet(items)) \in Nat
    BY <1>2, <2>1, FS_Subset, FS_CardinalityType
  <2>3. /\ IsFiniteSet(others)
        /\ Cardinality(others) = Cardinality(Held) + Cardinality(ToSet(items))
                                   - Cardinality(Held \cap ToSet(items))
    BY <1>2, FS_Union
  <2>4. Cardinality(others) \in Nat
    BY <2>3, FS_CardinalityType
  <2> QED
    BY <1>2, <2>2, <2>3, <2>4
<1>4. Cardinality(inUse) = Cardinality(Filling) + Len(items) + 1
  BY DEF PacketsAccounted
<1>5. taken \in others => Cardinality(inUse) = Cardinality(others)
  BY <1>1
<1>6. taken \notin others
  BY <1>2, <1>3, <1>4, <1>5
<1> QED
  BY <1>1, <1>6

LEMMA AccountNext == BasicInv /\ PacketsAccounted /\ [Next]_vars => PacketsAccounted'
<1> SUFFICES ASSUME BasicInv, PacketsAccounted, [Next]_vars PROVE PacketsAccounted'
  OBVIOUS
<1> DEFINE mine == {taken} \ {NoPacket}
           total == Cardinality(Filling) + Len(items) + (IF taken = NoPacket THEN 0 ELSE 1)
<1>1. /\ items \in Seq(Packets) /\ Len(items) \in Nat
      /\ IsFiniteSet(Filling) /\ Cardinality(Filling) \in Nat
      /\ pc \in [Producers -> {"idle", "link", "count", "wake"}]
      /\ pkt \in [Producers -> Packets \cup {NoPacket}]
  BY ProducerSets, LenProperties DEF BasicInv, TypeInv
<1>2. IsFiniteSet(inUse) /\ Cardinality(inUse) \in Nat
  <2>1. inUse \in SUBSET Packets
    BY DEF BasicInv, TypeInv
  <2> QED
    BY <2>1, DBAssumption, FS_Subset, FS_CardinalityType
<1>3. inUse = Held \cup ToSet(items) \cup mine /\ Cardinality(inUse) = total
  BY DEF PacketsAccounted, Held
<1>4. ASSUME NEW p \in Producers, Alloc(p) PROVE PacketsAccounted'
  <2>1. PICK k \in Packets : PacketPool!Alloc(k) /\ pkt' = [pkt EXCEPT ![p] = k]
    BY <1>4 DEF Alloc
  <2>2. Filling' = Filling \cup {p} /\ p \notin Filling
    BY <1>1, <1>4 DEF Alloc, Goto, Filling
  <2>3. Held' = Held \cup {k}
    <3>1. \A q \in Filling : pkt'[q] = pkt[q]
      BY <1>1, <2>1, <2>2 DEF Filling
    <3>2. pkt'[p] = k
      BY <1>1, <2>1
    <3> QED
      BY <2>2, <3>1, <3>2 DEF Held
  <2>4. inUse' = inUse \cup {k} /\ k \notin inUse
    BY <2>1 DEF PacketPool!Alloc
  <2>5. Cardinality(inUse') = Cardinality(inUse) + 1
    BY <1>2, <2>4, FS_AddElement
  <2>6. Cardinality(Filling') = Cardinality(Filling) + 1
    BY <1>1, <2>2, FS_AddElement
  <2>7. items' = items /\ taken' = taken
    BY <1>4 DEF Alloc, writerVars
  <2>8. inUse' = Held' \cup ToSet(items') \cup mine'
    BY <1>3, <2>3, <2>4, <2>7
  <2>9. Cardinality(inUse') = total'
    BY <1>1, <1>3, <2>5, <2>6, <2>7
  <2> QED
    BY <2>8, <2>9 DEF PacketsAccounted, Held
<1>5. ASSUME NEW p \in Producers, Link(p) PROVE PacketsAccounted'
  <2>1. Filling' = Filling \ {p} /\ p \in Filling /\ pkt' = pkt
    BY <1>1, <1>5 DEF Link, Goto, Filling
  <2>2. Held = Held' \cup {pkt[p]}
    BY <2>1 DEF Held
  <2>3. pkt[p] \in Packets
    BY <2>1 DEF BasicInv, HoldInv
  <2>4. ToSet(items') = ToSet(items) \cup {pkt[p]} /\ Len(items') = Len(items) + 1
    BY <1>1, <1>5, <2>3, ToSetAppend, AppendProperties DEF Link
  <2>5. Cardinality(Filling') = Cardinality(Filling) - 1
    BY <1>1, <2>1, FS_RemoveElement
  <2>6. inUse' = inUse /\ taken' = taken
    BY <1>5 DEF Link, writerVars
  <2>7. inUse' = Held' \cup ToSet(items') \cup mine'
    BY <1>3, <2>2, <2>4, <2>6
  <2>8. Cardinality(inUse') = total'
    BY <1>1, <1>3, <2>4, <2>5, <2>6
  <2> QED
    BY <2>7, <2>8 DEF PacketsAccounted, Held
<1>6. ASSUME NEW p \in Producers, Count(p) \/ WakeWriter(p) PROVE PacketsAccounted'
  <2>1. Filling' = Filling /\ \A q \in Filling : pkt'[q] = pkt[q]
    BY <1>1, <1>6 DEF Count, WakeWriter, Goto, Filling
  <2>2. Held' = Held
    BY <2>1 DEF Held
  <2>3. inUse' = inUse /\ items' = items /\ taken' = taken
    BY <1>6 DEF Count, WakeWriter, writerVars
  <2>4. inUse' = Held' \cup ToSet(items') \cup mine' /\ Cardinality(inUse') = total'
    BY <1>3, <2>1, <2>2, <2>3
  <2> QED
    BY <2>4 DEF PacketsAccounted, Held
<1>7. CASE Take
  <2>1. taken = NoPacket /\ taken' = Head(items) /\ taken' \in Packets
    BY <1>1, <1>7, HeadTailProperties DEF Take, BasicInv, HoldInv
  <2>2. ToSet(items) = ToSet(items') \cup {taken'} /\ Len(items') = Len(items) - 1
    BY <1>1, <1>7, ToSetTail, HeadTailProperties DEF Take
  <2>3. inUse' = inUse /\ Filling' = Filling /\ Held' = Held
    BY <1>7 DEF Take, producerVars, Filling, Held
  <2>4. inUse' = Held' \cup ToSet(items') \cup mine'
    <3>1. mine = {} /\ mine' = {taken'}
      BY <2>1, DBAssumption
    <3> HIDE DEF mine
    <3> QED
      BY <1>3, <2>2, <2>3, <3>1
  <2>5. Cardinality(inUse') = total'
    <3>1. total = Cardinality(Filling) + Len(items)
      BY <1>1, <2>1
    <3>2. total' = Cardinality(Filling) + (Len(items) - 1) + 1
      BY <1>1, <2>1, <2>2, <2>3, DBAssumption
    <3> QED
      BY <1>1, <1>3, <2>3, <3>1, <3>2
  <2> QED
    BY <2>4, <2>5 DEF PacketsAccounted, Held
<1>8. CASE Free
  <2>1. taken # NoPacket /\ taken' = NoPacket /\ inUse' = inUse \ {taken} /\ taken \in inUse
    BY <1>8 DEF Free, PacketPool!Free, BasicInv, HoldInv
  <2>2. items' = items /\ Filling' = Filling /\ Held' = Held
    BY <1>8 DEF Free, producerVars, Filling, Held
  <2>3. inUse' = Held' \cup ToSet(items') \cup mine'
    BY <2>1, <2>2, TakenIsAlone
  <2>4. Cardinality(inUse') = Cardinality(inUse) - 1
    BY <1>2, <2>1, FS_RemoveElement
  <2>5. Cardinality(inUse') = total'
    BY <1>1, <1>3, <2>1, <2>2, <2>4
  <2> QED
    BY <2>3, <2>5 DEF PacketsAccounted, Held
<1>9. CASE \/ Start \/ SetShutDown \/ WakeForShutDown \/ WaitUntilDbWriteComplete
           \/ CheckShutDown \/ Reserve \/ Undo \/ OnWrite \/ WaitOnAddress \/ SpuriousWake
           \/ UNCHANGED vars
  <2>1. inUse' = inUse /\ items' = items /\ taken' = taken /\ pc' = pc /\ pkt' = pkt
    BY <1>9 DEF Start, SetShutDown, WakeForShutDown, WaitUntilDbWriteComplete, CheckShutDown,
       Reserve, Undo, OnWrite, WaitOnAddress, SpuriousWake, vars, writerVars, producerVars
  <2> QED
    BY <2>1 DEF PacketsAccounted, Filling
<1> QED
  BY <1>4, <1>5, <1>6, <1>7, <1>8, <1>9 DEF Next, RequestStep, WriterStep

\* No packet leaks, is queued or written twice, or is freed while it is queued
\* (ReqDBWriteJob, DBThreadFunc).
THEOREM PacketsAccountedAlways == Spec => []PacketsAccounted
BY AccountInit, AccountNext, Basic, PTL DEF Spec

\* Every variable keeps its type, num_ within -1 and the number of packets.
THEOREM TypeCorrect == Spec => []TypeOK
<1>1. BasicInv /\ CountExact /\ PacketsAccounted => TypeOK
  <2> SUFFICES ASSUME BasicInv, CountExact, PacketsAccounted PROVE TypeOK
    OBVIOUS
  <2>1. /\ Len(items) \in Nat /\ Cardinality(Filling) \in Nat /\ Cardinality(Counting) \in Nat
        /\ num \in Int /\ num >= -1
    BY ProducerSets, LenProperties DEF BasicInv, TypeInv, NumFloor
  <2>2. /\ Cardinality(inUse) \in Nat /\ Cardinality(Packets) \in Nat
        /\ Cardinality(inUse) <= Cardinality(Packets)
    <3>1. inUse \in SUBSET Packets
      BY DEF BasicInv, TypeInv
    <3> QED
      BY <3>1, DBAssumption, FS_Subset, FS_CardinalityType
  <2>3. Len(items) <= Cardinality(inUse)
    BY <2>1, <2>2 DEF PacketsAccounted
  <2>4. num <= Len(items)
    BY <2>1 DEF CountExact
  <2>5. num \in -1 .. Cardinality(Packets)
    BY <2>1, <2>2, <2>3, <2>4
  <2> QED
    BY <2>5 DEF BasicInv, TypeInv, TypeOK, WriterAt
<1> QED
  BY <1>1, Basic, CountExactAlways, PacketsAccountedAlways, PTL

-------------------------------------------------------------------------------
\* A service whose OnWrite makes queries is a DBWriteThread still: every theorem
\* above holds of it.
THEOREM ServiceIsWriter == QSpec => Spec
<1>1. QInit => Init
  BY DEF QInit
<1>2. [QNext]_allVars => [Next]_vars
  <2> SUFFICES ASSUME [QNext]_allVars PROVE [Next]_vars
    OBVIOUS
  <2>1. CASE MakeQuery
    BY <2>1 DEF MakeQuery
  <2>2. CASE UNCHANGED allVars
    BY <2>2 DEF allVars
  <2> QED
    BY <2>1, <2>2 DEF QNext
<1> QED
  BY <1>1, <1>2, PTL DEF QSpec, Spec

-------------------------------------------------------------------------------
Chars == {"query", "select", "where", "condition", "update", "set", "insert", "columns",
          ")", ";", " "}

\* What QueryExact rests on: a print that was cut off left its characters behind
\* nextPos, where the next try overwrites them.
BufferInv ==
    /\ size \in Nat \ {0} /\ nextPos \in Nat
    /\ text \in Seq(Chars) /\ made \in Seq(Chars) /\ todo \in Seq(Seq(Chars))
    /\ nextPos = Len(made) /\ nextPos <= Len(text) /\ Len(text) < size
    /\ \A k \in 1 .. nextPos : text[k] = made[k]
    /\ todo = <<>> => Len(text) = nextPos

LEMMA TextType ==
  ASSUME NEW what \in Chars, NEW n \in Nat
  PROVE  Text(what, n) \in Seq(Chars)
<1>1. \A k \in 1 .. n : what \in Chars
  OBVIOUS
<1>2. [k \in 1 .. n |-> what] \in Seq(Chars)
  BY <1>1
<1> QED
  BY <1>2 DEF Text

\* The parts of a call are texts.
LEMMA PartsTypes ==
  ASSUME NEW n \in Nat
  PROVE  /\ MAKE_QUERY(n) \in Seq(Seq(Chars))
         /\ MAKE_SELECT_FROM(1, n) \in Seq(Seq(Chars)) /\ MAKE_SELECT_FROM(n, 0) \in Seq(Seq(Chars))
         /\ MAKE_INSERT_INTO(TRUE, 1, n) \in Seq(Seq(Chars))
         /\ MAKE_UPDATE_SET(FALSE, 1, n) \in Seq(Seq(Chars))
         /\ MAKE_WHERE(TRUE, n) \in Seq(Seq(Chars))
<1>1. \A what \in Chars : Text(what, n) \in Seq(Chars) /\ Text(what, 1) \in Seq(Chars)
  BY TextType
<1>2. ConclusionQueryPart(TRUE) \in Seq(Chars) /\ ConclusionQueryPart(FALSE) \in Seq(Chars)
  BY <1>1 DEF ConclusionQueryPart, Chars
<1>3. \A a, b \in Seq(Chars) : <<a, b>> \in Seq(Seq(Chars)) /\ <<a>> \in Seq(Seq(Chars))
  OBVIOUS
<1>4. \A a, b, c \in Seq(Chars) : <<a, b, c>> \in Seq(Seq(Chars))
  OBVIOUS
<1>5. \A a, b, c, d \in Seq(Chars) : <<a, b, c, d>> \in Seq(Seq(Chars))
  OBVIOUS
<1>6. MAKE_QUERY(n) \in Seq(Seq(Chars))
  BY <1>1, <1>2, <1>3 DEF MAKE_QUERY, Chars
<1>7. MAKE_SELECT_FROM(1, n) \in Seq(Seq(Chars)) /\ MAKE_SELECT_FROM(n, 0) \in Seq(Seq(Chars))
  <2>1. ASSUME NEW names \in {1, n}, NEW condition \in {0, n}
        PROVE  MAKE_SELECT_FROM(names, condition) \in Seq(Seq(Chars))
    <3>1. PICK m : m = IF condition = 0 THEN <<>> ELSE <<Text("where", 1), Text("condition", condition)>>
      OBVIOUS
    <3>2. m \in Seq(Seq(Chars))
      <4>1. CASE condition = 0
        BY <3>1, <4>1, EmptySeq
      <4>2. CASE condition # 0
        BY <1>1, <1>3, <3>1, <4>2 DEF Chars
      <4> QED
        BY <4>1, <4>2
    <3>3. <<Text("select", names)>> \in Seq(Seq(Chars)) /\ <<ConclusionQueryPart(TRUE)>> \in Seq(Seq(Chars))
      BY <1>1, <1>2, <1>3 DEF Chars
    <3>4. <<Text("select", names)>> \o m \o <<ConclusionQueryPart(TRUE)>> \in Seq(Seq(Chars))
      BY <3>2, <3>3, ConcatProperties
    <3> QED
      BY <3>1, <3>4 DEF MAKE_SELECT_FROM
  <2> QED
    BY <2>1
<1>8. MAKE_INSERT_INTO(TRUE, 1, n) \in Seq(Seq(Chars))
  BY <1>1, <1>2, <1>5 DEF MAKE_INSERT_INTO, Chars
<1>9. MAKE_UPDATE_SET(FALSE, 1, n) \in Seq(Seq(Chars))
  BY <1>1, <1>2, <1>4 DEF MAKE_UPDATE_SET, Chars
<1>10. MAKE_WHERE(TRUE, n) \in Seq(Seq(Chars))
  BY <1>1, <1>2, <1>4 DEF MAKE_WHERE, Chars
<1> QED
  BY <1>6, <1>7, <1>8, <1>9, <1>10

\* A part, or as much of it as fits, is printed behind position p of a string.
Over(s, p, part, n) == SubSeq(s, 1, p) \o SubSeq(part, 1, n)

LEMMA Printed ==
  ASSUME NEW s \in Seq(Chars), NEW p \in 0 .. Len(s),
         NEW part \in Seq(Chars), NEW n \in 0 .. Len(part)
  PROVE  /\ Over(s, p, part, n) \in Seq(Chars) /\ Len(Over(s, p, part, n)) = p + n
         /\ \A k \in 1 .. p : Over(s, p, part, n)[k] = s[k]
         /\ \A k \in 1 .. n : Over(s, p, part, n)[p + k] = part[k]
<1>0. PICK t : t = Over(s, p, part, n)
  OBVIOUS
<1>1. p \in Nat /\ n \in Nat /\ Len(part) \in Nat /\ Len(s) \in Nat
  BY LenProperties
<1>2. PICK a : a = SubSeq(s, 1, p)
  OBVIOUS
<1>3. a \in Seq(Chars) /\ Len(a) = p /\ \A k \in 1 .. p : a[k] = s[k]
  BY <1>1, <1>2
<1>4. PICK b : b = SubSeq(part, 1, n)
  OBVIOUS
<1>5. b \in Seq(Chars) /\ Len(b) = n /\ \A k \in 1 .. n : b[k] = part[k]
  BY <1>1, <1>4
<1>6. t = a \o b
  BY <1>0, <1>2, <1>4 DEF Over
<1>7. t \in Seq(Chars)
  <2>1. a \o b \in Seq(Chars)
    BY <1>3, <1>5, ConcatProperties
  <2> QED
    BY <1>6, <2>1
<1>8. Len(t) = p + n
  <2>1. Len(a \o b) = Len(a) + Len(b)
    BY <1>3, <1>5, ConcatProperties
  <2> QED
    BY <1>3, <1>5, <1>6, <2>1
<1>9. ASSUME NEW k \in 1 .. p PROVE t[k] = s[k]
  <2>1. (a \o b)[k] = a[k]
    BY <1>1, <1>3, <1>5
  <2> QED
    BY <1>3, <1>6, <2>1
<1>10. ASSUME NEW k \in 1 .. n PROVE t[p + k] = part[k]
  <2>1. (a \o b)[p + k] = b[k]
    BY <1>1, <1>3, <1>5
  <2> QED
    BY <1>5, <1>6, <2>1
<1> QED
  BY <1>0, <1>7, <1>8, <1>9, <1>10

LEMMA PrintKeeps ==
  ASSUME BufferInv, PrintPart
  PROVE  BufferInv'
<1>1. PICK part : part = Head(todo)
  OBVIOUS
<1>2. todo # <<>> /\ part \in Seq(Chars) /\ Tail(todo) \in Seq(Seq(Chars))
  BY <1>1, HeadTailProperties DEF BufferInv, PrintPart
<1>3. /\ size \in Nat \ {0} /\ nextPos \in Nat /\ Len(part) \in Nat /\ nextPos < size
      /\ Len(part) \in 0 .. Len(part) /\ nextPos = Len(made) /\ made \in Seq(Chars)
  BY <1>2, LenProperties DEF BufferInv
<1>0. text \in Seq(Chars) /\ \A k \in 1 .. nextPos : text[k] = made[k]
  BY DEF BufferInv
<1>6. nextPos \in 0 .. Len(text)
  <2>1. Len(text) \in Nat
    BY <1>0, LenProperties
  <2> QED
    BY <1>3, <2>1 DEF BufferInv
<1>4. CASE Len(part) < GetRemainSize
  <2>1. /\ text' = SubSeq(text, 1, nextPos) \o SubSeq(part, 1, Len(part))
        /\ nextPos' = nextPos + Len(part) /\ todo' = Tail(todo) /\ made' = made \o part
        /\ size' = size
    BY <1>1, <1>4 DEF PrintPart
  <2>2. /\ text' \in Seq(Chars) /\ Len(text') = nextPos + Len(part)
        /\ \A k \in 1 .. nextPos : text'[k] = made[k]
        /\ \A k \in 1 .. Len(part) : text'[nextPos + k] = part[k]
    <3>1. PICK t : t = text'
      OBVIOUS
    <3>2. t = Over(text, nextPos, part, Len(part))
      BY <2>1, <3>1 DEF Over
    <3>3. /\ t \in Seq(Chars) /\ Len(t) = nextPos + Len(part)
          /\ \A k \in 1 .. nextPos : t[k] = text[k]
          /\ \A k \in 1 .. Len(part) : t[nextPos + k] = part[k]
      <4>1. /\ Over(text, nextPos, part, Len(part)) \in Seq(Chars) /\ Len(Over(text, nextPos, part, Len(part))) = nextPos + Len(part)
            /\ \A k \in 1 .. nextPos : Over(text, nextPos, part, Len(part))[k] = text[k]
            /\ \A k \in 1 .. Len(part) : Over(text, nextPos, part, Len(part))[nextPos + k] = part[k]
        BY <1>0, <1>2, <1>3, <1>6, Printed
      <4> QED
        BY <3>2, <4>1
    <3> QED
      BY <1>0, <3>1, <3>3
  <2>3. /\ made' \in Seq(Chars) /\ Len(made') = nextPos + Len(part)
        /\ \A k \in 1 .. nextPos + Len(part) :
             made'[k] = IF k <= nextPos THEN made[k] ELSE part[k - nextPos]
    BY <1>2, <1>3, <2>1, ConcatProperties
  <2>4. ASSUME NEW k \in 1 .. nextPos + Len(part) PROVE text'[k] = made'[k]
    <3>1. CASE k <= nextPos
      <4>1. k \in 1 .. nextPos
        BY <1>3, <3>1
      <4> QED
        BY <2>2, <2>3, <3>1, <4>1
    <3>2. CASE ~ (k <= nextPos)
      <4>1. k - nextPos \in 1 .. Len(part) /\ nextPos + (k - nextPos) = k
        BY <1>3, <3>2
      <4> QED
        BY <2>2, <2>3, <3>2, <4>1
    <3> QED
      BY <3>1, <3>2
  <2>5. nextPos + Len(part) < size /\ nextPos + Len(part) \in Nat
    BY <1>3, <1>4 DEF GetRemainSize
  <2>6. size' \in Nat \ {0} /\ todo' \in Seq(Seq(Chars)) /\ nextPos' \in Nat
    BY <1>2, <1>3, <2>1, <2>5
  <2>7. nextPos' = Len(made') /\ Len(text') = nextPos' /\ nextPos' < size'
    BY <2>1, <2>2, <2>3, <2>5
  <2>8. \A k \in 1 .. nextPos' : text'[k] = made'[k]
    BY <2>1, <2>4
  <2>9. nextPos' <= Len(text') /\ Len(text') < size'
    BY <2>6, <2>7
  <2> QED
    BY <2>2, <2>3, <2>6, <2>7, <2>8, <2>9 DEF BufferInv
<1>5. CASE ~ (Len(part) < GetRemainSize)
  <2>1. PICK n : n = GetRemainSize - 1
    OBVIOUS
  <2>2. /\ text' = SubSeq(text, 1, nextPos) \o SubSeq(part, 1, n)
        /\ size' = 2 * size /\ nextPos' = nextPos /\ todo' = todo /\ made' = made
    BY <1>1, <1>5, <2>1 DEF PrintPart, Resize
  <2>3. n \in 0 .. Len(part) /\ nextPos + n < 2 * size /\ nextPos <= nextPos + n /\ 2 * size \in Nat \ {0}
    BY <1>3, <1>5, <2>1 DEF GetRemainSize
  <2>4. /\ text' \in Seq(Chars) /\ Len(text') = nextPos + n
        /\ \A k \in 1 .. nextPos : text'[k] = made[k]
    <3>1. PICK t : t = text'
      OBVIOUS
    <3>2. t = Over(text, nextPos, part, n)
      BY <2>2, <3>1 DEF Over
    <3>3. /\ t \in Seq(Chars) /\ Len(t) = nextPos + n
          /\ \A k \in 1 .. nextPos : t[k] = text[k]
      <4>1. /\ Over(text, nextPos, part, n) \in Seq(Chars) /\ Len(Over(text, nextPos, part, n)) = nextPos + n
            /\ \A k \in 1 .. nextPos : Over(text, nextPos, part, n)[k] = text[k]
            /\ \A k \in 1 .. n : Over(text, nextPos, part, n)[nextPos + k] = part[k]
        BY <1>0, <1>2, <1>6, <2>3, Printed
      <4> QED
        BY <3>2, <4>1
    <3> QED
      BY <1>0, <3>1, <3>3
  <2> QED
    BY <1>2, <2>2, <2>3, <2>4 DEF BufferInv
<1> QED
  BY <1>4, <1>5

LEMMA MakeKeeps ==
  ASSUME BufferInv, NEW parts \in Seq(Seq(Chars)), Make(parts)
  PROVE  BufferInv'
BY DEF BufferInv, Make

LEMMA ExecuteKeeps ==
  ASSUME BufferInv, Execute
  PROVE  BufferInv'
<1>1. nextPos' = 0 /\ text' = <<>> /\ made' = <<>> /\ size' = size /\ todo' = todo
  BY DEF Execute
<1>2. <<>> \in Seq(Chars) /\ Len(<<>>) = 0
  BY EmptySeq
<1> QED
  BY <1>1, <1>2 DEF BufferInv

\* A query is what was printed, each part once and in order, whatever the first size
\* of the buffer and the lengths of the parts (QueryFactory.h, ASSERT_INSUF_BUFFER).
THEOREM QueryExactAlways == QSpec => []QueryExact
<1>1. QInit => BufferInv
  <2> SUFFICES ASSUME QueryInit PROVE BufferInv
    BY DEF QInit
  <2>1. <<>> \in Seq(Chars) /\ <<>> \in Seq(Seq(Chars)) /\ Len(<<>>) = 0
    BY EmptySeq
  <2> QED
    BY <2>1, QueryAssumption DEF QueryInit, BufferInv
<1>2. BufferInv /\ [QNext]_allVars => BufferInv'
  <2> SUFFICES ASSUME BufferInv, [QNext]_allVars PROVE BufferInv'
    OBVIOUS
  <2>1. \A n \in Lengths : n \in Nat
    BY QueryAssumption
  <2>2. ASSUME NEW parts \in Statements, Make(parts) PROVE BufferInv'
    <3>1. parts \in Seq(Seq(Chars))
      BY <2>1, <2>2, PartsTypes DEF Statements
    <3> QED
      BY <2>2, <3>1, MakeKeeps
  <2>3. ASSUME NEW n \in Lengths, Make(MAKE_WHERE(TRUE, n)) PROVE BufferInv'
    <3>1. MAKE_WHERE(TRUE, n) \in Seq(Seq(Chars))
      BY <2>1, PartsTypes
    <3> QED
      BY <2>3, <3>1, MakeKeeps
  <2>4. CASE MakeQuery
    BY <2>2, <2>3, <2>4, PrintKeeps DEF MakeQuery
  <2>5. CASE Store
    BY <2>5, ExecuteKeeps DEF Store
  <2>6. CASE UNCHANGED queryVars
    BY <2>6 DEF queryVars, BufferInv
  <2> QED
    BY <2>4, <2>5, <2>6 DEF QNext, allVars
<1>3. BufferInv => QueryExact
  <2> SUFFICES ASSUME BufferInv PROVE QueryExact
    OBVIOUS
  <2>1. /\ nextPos \in 0 .. Len(text) /\ nextPos \in Nat /\ text \in Seq(Chars)
        /\ made \in Seq(Chars) /\ nextPos = Len(made)
    BY LenProperties DEF BufferInv
  <2>2. PICK s : s = SubSeq(text, 1, nextPos)
    OBVIOUS
  <2>3. s \in Seq(Chars) /\ Len(s) = nextPos /\ \A k \in 1 .. nextPos : s[k] = text[k]
    BY <2>1, <2>2
  <2>4. s = made
    BY <2>1, <2>3, SeqEqual DEF BufferInv
  <2>5. todo = <<>> => text = made
    BY <2>1, SeqEqual DEF BufferInv
  <2> QED
    BY <2>2, <2>4, <2>5 DEF QueryExact, BufferInv
<1> QED
  BY <1>1, <1>2, <1>3, PTL DEF QSpec

===============================================================================
