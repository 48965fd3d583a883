----------------------------- MODULE TlsObjectPool -----------------------------
(***************************************************************************)
(* CTlsObjectPool<T, bPlacementNew>: a pool that gives each thread a       *)
(* bucket of Size nodes to allocate from without synchronisation, and      *)
(* keeps the buckets all of whose nodes have come back on a lock-free      *)
(* stack.  A thread that has used up its bucket pops one from the stack,   *)
(* or mallocs one when the stack is empty; the thread whose Free returns   *)
(* the last node of a bucket pushes the bucket.                            *)
(*                                                                         *)
(* One action is one access to memory another thread can see, with the     *)
(* thread-local work around it.  Interlocked operations are atomic.        *)
(***************************************************************************)
EXTENDS AddressTranslator, Integers, FiniteSets

CONSTANTS
  Threads,     \* threads that call Alloc and Free
  Buckets,     \* bucket addresses malloc can return
  Size,        \* Bucket::size, the nodes of a bucket
  MaxLive      \* bound: objects the callers hold at a time

ASSUME PoolAssumption ==
    /\ Size \in Nat \ {0}
    /\ NULL \notin Buckets
    /\ IsFiniteSet(Threads) /\ IsFiniteSet(Buckets)

VARIABLES
  metaTop, metaCnt, capacity, size, allocSize,   \* members of the pool
  allocCnt, freeCnt, metaNext,                   \* members of each bucket
  mallocd,          \* buckets malloc has returned
  tls,              \* TlsGetValue(dwTlsIdx_) of each thread
  pc,               \* where each thread is in Alloc or Free
  top, newTop, bkt, \* the locals metaTop, newMetaTop, pBucket of each thread
  live              \* objects handed out and not yet passed to Free

poolVars   == <<metaTop, metaCnt, capacity, size, allocSize>>
bucketVars == <<allocCnt, freeCnt, metaNext, mallocd>>
threadVars == <<tls, pc, top, newTop, bkt>>
vars       == <<poolVars, bucketVars, threadVars, live>>

Objects == Buckets \X (0 .. Size - 1)

AllocPcs == {"popRead", "malloc", "popNext", "popCas", "init", "take", "node"}
FreePcs  == {"pushTag", "pushRead", "pushLink", "pushCas", "pushed", "freed"}

Goto(t, label) == pc' = [pc EXCEPT ![t] = label]

\* A finished call leaves no locals behind.
Return(t) ==
    /\ Goto(t, "idle")
    /\ top'    = [top    EXCEPT ![t] = ZeroMeta]
    /\ newTop' = [newTop EXCEPT ![t] = ZeroMeta]
    /\ bkt'    = [bkt    EXCEPT ![t] = NULL]

Init ==
    /\ metaTop = ZeroMeta
    /\ metaCnt = 0 /\ capacity = 0 /\ size = 0 /\ allocSize = 0
    /\ allocCnt = [b \in Buckets |-> 0]
    /\ freeCnt  = [b \in Buckets |-> 0]
    /\ metaNext = [b \in Buckets |-> ZeroMeta]
    /\ mallocd = {}
    /\ tls    = [t \in Threads |-> NULL]
    /\ pc     = [t \in Threads |-> "idle"]
    /\ top    = [t \in Threads |-> ZeroMeta]
    /\ newTop = [t \in Threads |-> ZeroMeta]
    /\ bkt    = [t \in Threads |-> NULL]
    /\ live = {}

-------------------------------------------------------------------------------
\* Alloc.  MaxLive keeps the heap of Buckets from running out.
BeginAlloc(t) ==
    /\ pc[t] = "idle"
    /\ Cardinality(live) + Cardinality({u \in Threads : pc[u] \in AllocPcs}) < MaxLive
    /\ Goto(t, IF tls[t] = NULL THEN "popRead" ELSE "node")
    /\ UNCHANGED <<poolVars, bucketVars, tls, top, newTop, bkt, live>>

\* AllocBucket: metaTop = metaTop_, and the test for an empty stack.
ReadTop(t) ==
    /\ pc[t] = "popRead"
    /\ top' = [top EXCEPT ![t] = metaTop]
    /\ Goto(t, IF metaTop = ZeroMeta THEN "malloc" ELSE "popNext")
    /\ UNCHANGED <<poolVars, bucketVars, tls, newTop, bkt, live>>

MallocBucket(t) ==
    /\ pc[t] = "malloc"
    /\ capacity' = capacity + 1
    /\ \E b \in Buckets \ mallocd :
         /\ mallocd'  = mallocd \cup {b}
         /\ allocCnt' = [allocCnt EXCEPT ![b] = 0]
         /\ freeCnt'  = [freeCnt  EXCEPT ![b] = 0]
         /\ metaNext' = [metaNext EXCEPT ![b] = ZeroMeta]
         /\ tls' = [tls EXCEPT ![t] = b]
    /\ Goto(t, "node")
    /\ UNCHANGED <<metaTop, metaCnt, size, allocSize, top, newTop, bkt, live>>

\* newMetaTop = pRealTop->metaNext.  The bucket may be someone else's by now.
ReadNext(t) ==
    /\ pc[t] = "popNext"
    /\ newTop' = [newTop EXCEPT ![t] = metaNext[GetRealAddr(top[t])]]
    /\ Goto(t, "popCas")
    /\ UNCHANGED <<poolVars, bucketVars, tls, top, bkt, live>>

\* Mutation: the CAS compares addresses and ignores the tag.
PopBucketByAddress(t) ==
    /\ pc[t] = "popCas"
    /\ IF GetRealAddr(metaTop) = GetRealAddr(top[t])
       THEN metaTop' = newTop[t] /\ Goto(t, "init")
       ELSE UNCHANGED metaTop    /\ Goto(t, "popRead")
    /\ UNCHANGED <<metaCnt, capacity, size, allocSize, bucketVars,
                   tls, top, newTop, bkt, live>>

PopBucket(t) ==
    /\ pc[t] = "popCas"
    /\ IF metaTop = top[t]
       THEN metaTop' = newTop[t] /\ Goto(t, "init")
       ELSE UNCHANGED metaTop    /\ Goto(t, "popRead")
    /\ UNCHANGED <<metaCnt, capacity, size, allocSize, bucketVars,
                   tls, top, newTop, bkt, live>>

\* Mutation: FreeCnt_ keeps the count of the bucket's former use.
InitBucketKeepFreeCnt(t) ==
    /\ pc[t] = "init"
    /\ LET b == GetRealAddr(top[t])
       IN  /\ allocCnt' = [allocCnt EXCEPT ![b] = 0]
           /\ metaNext' = [metaNext EXCEPT ![b] = ZeroMeta]
    /\ Goto(t, "take")
    /\ UNCHANGED <<poolVars, freeCnt, mallocd, tls, top, newTop, bkt, live>>

\* Init<false>: the popped bucket is the thread's alone.
InitBucket(t) ==
    /\ pc[t] = "init"
    /\ LET b == GetRealAddr(top[t])
       IN  /\ allocCnt' = [allocCnt EXCEPT ![b] = 0]
           /\ freeCnt'  = [freeCnt  EXCEPT ![b] = 0]
           /\ metaNext' = [metaNext EXCEPT ![b] = ZeroMeta]
    /\ Goto(t, "take")
    /\ UNCHANGED <<poolVars, mallocd, tls, top, newTop, bkt, live>>

TakeBucket(t) ==
    /\ pc[t] = "take"
    /\ size' = size - 1
    /\ tls' = [tls EXCEPT ![t] = GetRealAddr(top[t])]
    /\ Goto(t, "node")
    /\ UNCHANGED <<metaTop, metaCnt, capacity, allocSize, bucketVars,
                   top, newTop, bkt, live>>

\* AllocNode, the release of a bucket that has no more nodes, and the return.
AllocNode(t) ==
    /\ pc[t] = "node"
    /\ LET b == tls[t]
           n == allocCnt[b] + 1
       IN  /\ allocCnt' = [allocCnt EXCEPT ![b] = n]
           /\ tls' = IF n = Size THEN [tls EXCEPT ![t] = NULL] ELSE tls
           /\ live' = live \cup {<<b, allocCnt[b]>>}
    /\ allocSize' = allocSize + 1
    /\ Return(t)
    /\ UNCHANGED <<metaTop, metaCnt, capacity, size, freeCnt, metaNext, mallocd>>

-------------------------------------------------------------------------------
\* Free(o).  Any thread may free an object, whichever thread allocated it.
FreeNode(t, o) ==
    /\ pc[t] = "idle"
    /\ o \in live
    /\ live' = live \ {o}
    /\ freeCnt' = [freeCnt EXCEPT ![o[1]] = @ + 1]
    /\ bkt' = [bkt EXCEPT ![t] = o[1]]
    /\ Goto(t, IF freeCnt[o[1]] + 1 = Size THEN "pushTag" ELSE "freed")
    /\ UNCHANGED <<poolVars, allocCnt, metaNext, mallocd, tls, top, newTop>>

\* The assumption the 17-bit counter stands for: no thread sleeps in the loop
\* of AllocBucket for so long that the very word it read is built again.
NotReissued(m) ==
    \A u \in Threads : pc[u] \in {"popNext", "popCas"} => top[u] # m

\* Mutation: the word pushed carries no tag.
GetTagUntagged(t) ==
    /\ pc[t] = "pushTag"
    /\ newTop' = [newTop EXCEPT ![t] = GetMetaAddr(0, bkt[t])]
    /\ Goto(t, "pushRead")
    /\ UNCHANGED <<poolVars, bucketVars, tls, top, bkt, live>>

\* newMetaTop = GetMetaAddr(GetCnt(&metaCnt_), pBucket)
GetTag(t) ==
    /\ pc[t] = "pushTag"
    /\ LET m == GetMetaAddr(metaCnt, bkt[t])
       IN  NotReissued(m) /\ newTop' = [newTop EXCEPT ![t] = m]
    /\ metaCnt' = IncCnt(metaCnt)
    /\ Goto(t, "pushRead")
    /\ UNCHANGED <<metaTop, capacity, size, allocSize, bucketVars,
                   tls, top, bkt, live>>

PushRead(t) ==
    /\ pc[t] = "pushRead"
    /\ top' = [top EXCEPT ![t] = metaTop]
    /\ Goto(t, "pushLink")
    /\ UNCHANGED <<poolVars, bucketVars, tls, newTop, bkt, live>>

PushLink(t) ==
    /\ pc[t] = "pushLink"
    /\ metaNext' = [metaNext EXCEPT ![bkt[t]] = top[t]]
    /\ Goto(t, "pushCas")
    /\ UNCHANGED <<poolVars, allocCnt, freeCnt, mallocd, tls, top, newTop, bkt, live>>

PushBucket(t) ==
    /\ pc[t] = "pushCas"
    /\ IF metaTop = top[t]
       THEN metaTop' = newTop[t] /\ Goto(t, "pushed")
       ELSE UNCHANGED metaTop    /\ Goto(t, "pushRead")
    /\ UNCHANGED <<metaCnt, capacity, size, allocSize, bucketVars,
                   tls, top, newTop, bkt, live>>

IncSize(t) ==
    /\ pc[t] = "pushed"
    /\ size' = size + 1
    /\ Goto(t, "freed")
    /\ UNCHANGED <<metaTop, metaCnt, capacity, allocSize, bucketVars,
                   tls, top, newTop, bkt, live>>

EndFree(t) ==
    /\ pc[t] = "freed"
    /\ allocSize' = allocSize - 1
    /\ Return(t)
    /\ UNCHANGED <<metaTop, metaCnt, capacity, size, bucketVars, tls, live>>

-------------------------------------------------------------------------------
AllocStep(t) ==
    \/ BeginAlloc(t) \/ ReadTop(t) \/ MallocBucket(t) \/ ReadNext(t)
    \/ PopBucket(t) \/ InitBucket(t) \/ TakeBucket(t) \/ AllocNode(t)

PushStep(t) ==
    \/ GetTag(t) \/ PushRead(t) \/ PushLink(t) \/ PushBucket(t) \/ IncSize(t)

FreeStep(t) == (\E o \in live : FreeNode(t, o)) \/ PushStep(t) \/ EndFree(t)

Next == \E t \in Threads : AllocStep(t) \/ FreeStep(t)

Spec == Init /\ [][Next]_vars

-------------------------------------------------------------------------------
\* Every variable has its type; the program counters are labels of the code.
TypeOK ==
    /\ metaTop \in MetaAddrs(Buckets) /\ metaCnt \in Counters
    /\ capacity \in Nat /\ size \in Int /\ allocSize \in Nat
    /\ allocCnt \in [Buckets -> 0 .. Size] /\ freeCnt \in [Buckets -> 0 .. Size]
    /\ metaNext \in [Buckets -> MetaAddrs(Buckets)]
    /\ mallocd \subseteq Buckets
    /\ tls \in [Threads -> Buckets \cup {NULL}]
    /\ pc \in [Threads -> {"idle"} \cup AllocPcs \cup FreePcs]
    /\ top \in [Threads -> MetaAddrs(Buckets)]
    /\ newTop \in [Threads -> MetaAddrs(Buckets)]
    /\ bkt \in [Threads -> Buckets \cup {NULL}]
    /\ live \subseteq Objects

\* The thread allocates from b, has just popped it, or is about to push it.
Holds(t, b) ==
    \/ tls[t] = b
    \/ pc[t] \in {"init", "take"} /\ GetRealAddr(top[t]) = b
    \/ pc[t] \in {"pushTag", "pushRead", "pushLink", "pushCas"} /\ bkt[t] = b

\* All nodes of the bucket have come back and nobody is busy with it.
Retired == {b \in mallocd : freeCnt[b] = Size /\ \A t \in Threads : ~Holds(t, b)}

LiveOf(b) == {o \in live : o[1] = b}

\* The n-th word met when the stack is followed from metaTop_.
StackWord ==
    LET w[n \in 0 .. Cardinality(Buckets)] ==
          IF n = 0 THEN metaTop
          ELSE IF w[n - 1] = ZeroMeta THEN ZeroMeta
          ELSE metaNext[GetRealAddr(w[n - 1])]
    IN  w

Occupied == {n \in DOMAIN StackWord : StackWord[n] # ZeroMeta}

\* The stack is a list without repetition of exactly the retired buckets: no
\* interleaving of pops and pushes loses a bucket, links one twice, or leaves
\* one there that is in use.  And no bucket is in the hands of two threads, as
\* after a CAS that took a recycled address for the one that was read: both
\* would bump its plain AllocCnt_.
StackIntact ==
    /\ \A b \in Buckets, t, u \in Threads : Holds(t, b) /\ Holds(u, b) => t = u
    /\ {GetRealAddr(StackWord[n]) : n \in Occupied} = Retired
    /\ Cardinality(Occupied) = Cardinality(Retired)

\* The two counts of a bucket and the objects callers hold always agree, so
\* FreeCnt_ reaches size at the return of the last node, exactly once.
NodesAccounted ==
    \A b \in mallocd :
      /\ freeCnt[b] + Cardinality(LiveOf(b)) = allocCnt[b]
      /\ \A o \in LiveOf(b) : o[2] < allocCnt[b]

\* size_ lags behind the stack by the threads between the CAS and their update.
StatisticsExact ==
    /\ capacity = Cardinality(mallocd)
    /\ size + Cardinality({t \in Threads : pc[t] = "pushed"})
         = Cardinality(Retired)
             + Cardinality({t \in Threads : pc[t] \in {"init", "take"}})
    /\ allocSize = Cardinality(live)
                     + Cardinality({t \in Threads : pc[t] \in FreePcs})

\* Every counter of the pool has its type and is exact once the calls under way are
\* counted in: those of each bucket, which decide who frees it, and the statistics.
CountersExact == TypeOK /\ NodesAccounted /\ StatisticsExact

\* Alloc returns nothing a caller still holds.  As a set, live would not show an
\* object handed out a second time.
NeverAgain ==
    [][\A t \in Threads : pc[t] = "node" /\ pc'[t] = "idle"
                             => <<tls[t], allocCnt[tls[t]]>> \notin live]_vars

\* The pool keeps the promise of an object pool: an object that is handed out
\* is never handed out again before it was freed, across all interleavings of
\* pops, pushes and reuse of buckets.
Pool == INSTANCE ObjectPool WITH inUse <- live
PoolSpec == Pool!Spec /\ NeverAgain

===============================================================================
