----------------------------- MODULE LockFreeQueue -----------------------------
(***************************************************************************)
(* CLockFreeQueue<T>: a linked queue with a dummy node, after Michael and  *)
(* Scott, whose nodes come from one pool shared by every queue of the same *)
(* T.  A node that leaves a queue may therefore turn up in another queue   *)
(* while a slow thread still holds its address.  Three devices keep that   *)
(* harmless: words carry a tag, next_ carries the identifier of its queue, *)
(* and Dequeue first reserves an element in num_.                          *)
(*                                                                         *)
(* One action is one access to shared memory.  next_ is two words, stored  *)
(* and loaded one after the other but compared and exchanged in one step.  *)
(* The pool is its abstract specification, which CTlsObjectPool implements *)
(* (module TlsObjectPool).                                                 *)
(***************************************************************************)
EXTENDS AddressTranslator, Integers, Sequences, FiniteSets, Functions

CONSTANTS
  Threads,
  Queues,     \* the queues of one T; a queue is its own identifier_
  Nodes,      \* addresses nodePool_ may hand out
  Values,
  NoValue

ASSUME QueueAssumption ==
    /\ NULL \notin Nodes \cup Queues
    /\ NoValue \notin Values
    /\ IsFiniteSet(Threads) /\ IsFiniteSet(Nodes)

VARIABLES
  phase,                        \* of each queue: new, ready or cleared
  metaTail, metaHead, metaCnt, num,   \* members of each queue
  data, nextId, nextMeta,       \* members of each node: data_ and next_
  inUse,                        \* nodes handed out by nodePool_
  pc, loc                       \* where each thread is, and its locals

queueVars == <<phase, metaTail, metaHead, metaCnt, num>>
nodeVars  == <<data, nextId, nextMeta>>
vars      == <<queueVars, nodeVars, inUse, pc, loc>>

NodePool == INSTANCE ObjectPool WITH Objects <- Nodes

\* The locals of Enqueue and Dequeue: the queue called, meta or newTail,
\* metaTail, metaHead, the two words of nextOfTail or nextOfHead, and the value.
NoLocals == [queue |-> NULL, new |-> ZeroMeta, tail |-> ZeroMeta, head |-> ZeroMeta,
             id |-> NULL, next |-> ZeroMeta, val |-> NoValue]

Goto(t, label) == pc' = [pc EXCEPT ![t] = label]

Return(t) == Goto(t, "idle") /\ loc' = [loc EXCEPT ![t] = NoLocals]

\* Before the loop reads again, and once it is left, what it read is forgotten.
Forget(t) == loc' = [loc EXCEPT ![t].tail = ZeroMeta, ![t].head = ZeroMeta,
                                ![t].id = NULL, ![t].next = ZeroMeta]

Within(q) == {t \in Threads : loc[t].queue = q}

Init ==
    /\ phase = [q \in Queues |-> "new"]
    /\ metaTail = [q \in Queues |-> ZeroMeta]
    /\ metaHead = [q \in Queues |-> ZeroMeta]
    /\ metaCnt  = [q \in Queues |-> 0]
    /\ num      = [q \in Queues |-> 0]
    /\ data     = [n \in Nodes |-> NoValue]
    /\ nextId   = [n \in Nodes |-> NULL]
    /\ nextMeta = [n \in Nodes |-> ZeroMeta]
    /\ inUse = {}
    /\ pc  = [t \in Threads |-> "idle"]
    /\ loc = [t \in Threads |-> NoLocals]

-------------------------------------------------------------------------------
\* The constructor and Enqueue both begin with GetCnt(&metaCnt_) and the
\* construction of a node.  The guard on Nodes keeps the heap from running out.
GetTag(t, q, v, label) ==
    /\ pc[t] = "idle"
    /\ Cardinality(inUse) + Cardinality({u \in Threads : pc[u] \in {"ctor", "enq"}})
         < Cardinality(Nodes)
    /\ loc' = [loc EXCEPT ![t].queue = q, ![t].val = v,
                          ![t].new = GetMetaAddr(metaCnt[q], NULL)]
    /\ metaCnt' = [metaCnt EXCEPT ![q] = IncCnt(@)]
    /\ Goto(t, label)
    /\ UNCHANGED <<phase, metaTail, metaHead, num, nodeVars, inUse>>

BeginConstruct(t, q) ==
    phase[q] = "new" /\ Within(q) = {} /\ GetTag(t, q, NoValue, "ctor")

BeginEnqueue(t, q, v) == phase[q] = "ready" /\ GetTag(t, q, v, "enq")

\* The assumption the 17-bit tag stands for: no thread is held up inside a call
\* for so long that the very word it read from its queue is built again.
NotReissued(q, m) == \A u \in Within(q) : loc[u].tail # m /\ loc[u].head # m

\* nodePool_.Alloc and the first stores of Node's constructor, up to the first
\* word of next_ ...
AllocNode(t) ==
    /\ pc[t] \in {"ctor", "enq"}
    /\ \E n \in Nodes :
         LET m == GetMetaAddr(ExtractMetaCnt(loc[t].new), n)
         IN  /\ NodePool!Alloc(n)
             /\ NotReissued(loc[t].queue, m)
             /\ loc' = [loc EXCEPT ![t].new = m]
             /\ data' = [data EXCEPT ![n] = loc[t].val]
             /\ nextId' = [nextId EXCEPT ![n] = loc[t].queue]
    /\ Goto(t, IF pc[t] = "ctor" THEN "ctorNext" ELSE "enqNext")
    /\ UNCHANGED <<queueVars, nextMeta>>

\* ... and then the second word: the node's own tag and no address.  The
\* constructor of a queue stores it into the dummy and installs the dummy.
StoreNext(t) ==
    LET m == GetMetaAddr(ExtractMetaCnt(loc[t].new), NULL)
    IN  nextMeta' = [nextMeta EXCEPT ![GetRealAddr(loc[t].new)] = m]

EndConstruct(t) ==
    /\ pc[t] = "ctorNext"
    /\ StoreNext(t)
    /\ LET q == loc[t].queue
       IN  /\ metaTail' = [metaTail EXCEPT ![q] = loc[t].new]
           /\ metaHead' = [metaHead EXCEPT ![q] = loc[t].new]
           /\ phase' = [phase EXCEPT ![q] = "ready"]
    /\ Return(t)
    /\ UNCHANGED <<metaCnt, num, data, nextId, inUse>>

EnqBuilt(t) ==
    /\ pc[t] = "enqNext"
    /\ StoreNext(t)
    /\ Goto(t, "enqTail")
    /\ UNCHANGED <<queueVars, data, nextId, inUse, loc>>

-------------------------------------------------------------------------------
\* Enqueue
EnqReadTail(t) ==
    /\ pc[t] = "enqTail"
    /\ loc' = [loc EXCEPT ![t].tail = metaTail[loc[t].queue]]
    /\ Goto(t, "enqId")
    /\ UNCHANGED <<queueVars, nodeVars, inUse>>

EnqReadId(t) ==
    /\ pc[t] = "enqId"
    /\ loc' = [loc EXCEPT ![t].id = nextId[GetRealAddr(loc[t].tail)]]
    /\ Goto(t, "enqMeta")
    /\ UNCHANGED <<queueVars, nodeVars, inUse>>

\* Mutation: the identifier is not checked.
EnqReadMetaAnyQueue(t) ==
    /\ pc[t] = "enqMeta"
    /\ LET next == nextMeta[GetRealAddr(loc[t].tail)]
           recycled == ExtractMetaCnt(loc[t].tail) # ExtractMetaCnt(next)
       IN  IF GetRealAddr(next) = NULL /\ recycled
           THEN Forget(t) /\ Goto(t, "enqTail")
           ELSE /\ loc' = [loc EXCEPT ![t].next = next]
                /\ Goto(t, IF GetRealAddr(next) # NULL THEN "enqHelp" ELSE "enqLink")
    /\ UNCHANGED <<queueVars, nodeVars, inUse>>

\* Mutation: the tags of the tail word and of next_ are not compared.
EnqReadMetaAnyTag(t) ==
    /\ pc[t] = "enqMeta"
    /\ LET next == nextMeta[GetRealAddr(loc[t].tail)]
       IN  IF GetRealAddr(next) = NULL /\ loc[t].id # loc[t].queue
           THEN Forget(t) /\ Goto(t, "enqTail")
           ELSE /\ loc' = [loc EXCEPT ![t].next = next]
                /\ Goto(t, IF GetRealAddr(next) # NULL THEN "enqHelp" ELSE "enqLink")
    /\ UNCHANGED <<queueVars, nodeVars, inUse>>

EnqReadMeta(t) ==
    /\ pc[t] = "enqMeta"
    /\ LET next == nextMeta[GetRealAddr(loc[t].tail)]
           recycled == \/ ExtractMetaCnt(loc[t].tail) # ExtractMetaCnt(next)
                       \/ loc[t].id # loc[t].queue
       IN  IF GetRealAddr(next) = NULL /\ recycled
           THEN Forget(t) /\ Goto(t, "enqTail")
           ELSE /\ loc' = [loc EXCEPT ![t].next = next]
                /\ Goto(t, IF GetRealAddr(next) # NULL THEN "enqHelp" ELSE "enqLink")
    /\ UNCHANGED <<queueVars, nodeVars, inUse>>

\* CAS of metaTail_ from the local metaTail to m; its result is not looked at.
SwingTail(t, m) ==
    LET q == loc[t].queue
    IN  metaTail' = IF metaTail[q] = loc[t].tail THEN [metaTail EXCEPT ![q] = m]
                                                 ELSE metaTail

\* Mutation: a lagging tail is waited for, not helped.
EnqHelpNot(t) ==
    /\ pc[t] = "enqHelp"
    /\ Forget(t)
    /\ Goto(t, "enqTail")
    /\ UNCHANGED <<queueVars, nodeVars, inUse>>

EnqHelp(t) ==
    /\ pc[t] = "enqHelp"
    /\ SwingTail(t, loc[t].next)
    /\ Forget(t)
    /\ Goto(t, "enqTail")
    /\ UNCHANGED <<phase, metaHead, metaCnt, num, nodeVars, inUse>>

\* The double-width CAS of next_.
EnqLink(t) ==
    /\ pc[t] = "enqLink"
    /\ LET n == GetRealAddr(loc[t].tail)
       IN  IF nextId[n] = loc[t].id /\ nextMeta[n] = loc[t].next
           THEN /\ nextId' = [nextId EXCEPT ![n] = loc[t].queue]
                /\ nextMeta' = [nextMeta EXCEPT ![n] = loc[t].new]
                /\ Goto(t, "enqSwing")
                /\ UNCHANGED loc
           ELSE Forget(t) /\ Goto(t, "enqTail") /\ UNCHANGED <<nextId, nextMeta>>
    /\ UNCHANGED <<queueVars, data, inUse>>

\* Mutation: the second CAS is left to the threads that need the tail.
EnqSwingNot(t) ==
    /\ pc[t] = "enqSwing"
    /\ loc' = [loc EXCEPT ![t] = [NoLocals EXCEPT !.queue = loc[t].queue]]
    /\ Goto(t, "enqCount")
    /\ UNCHANGED <<queueVars, nodeVars, inUse>>

EnqSwing(t) ==
    /\ pc[t] = "enqSwing"
    /\ SwingTail(t, loc[t].new)
    /\ loc' = [loc EXCEPT ![t] = [NoLocals EXCEPT !.queue = loc[t].queue]]
    /\ Goto(t, "enqCount")
    /\ UNCHANGED <<phase, metaHead, metaCnt, num, nodeVars, inUse>>

EnqCount(t) ==
    /\ pc[t] = "enqCount"
    /\ num' = [num EXCEPT ![loc[t].queue] = @ + 1]
    /\ Return(t)
    /\ UNCHANGED <<phase, metaTail, metaHead, metaCnt, nodeVars, inUse>>

-------------------------------------------------------------------------------
\* Dequeue
DeqReserve(t, q) ==
    /\ pc[t] = "idle"
    /\ phase[q] = "ready"
    /\ num' = [num EXCEPT ![q] = @ - 1]
    /\ loc' = [loc EXCEPT ![t].queue = q]
    /\ Goto(t, IF num[q] - 1 < 0 THEN "deqUndo" ELSE "deqTail")
    /\ UNCHANGED <<phase, metaTail, metaHead, metaCnt, nodeVars, inUse>>

\* Mutation: a Dequeue that gives up does not undo its decrement.
DeqUndoNot(t) ==
    /\ pc[t] = "deqUndo"
    /\ Return(t)
    /\ UNCHANGED <<queueVars, nodeVars, inUse>>

\* return std::nullopt
DeqUndo(t) ==
    /\ pc[t] = "deqUndo"
    /\ num' = [num EXCEPT ![loc[t].queue] = @ + 1]
    /\ Return(t)
    /\ UNCHANGED <<phase, metaTail, metaHead, metaCnt, nodeVars, inUse>>

DeqReadTail(t) ==
    /\ pc[t] = "deqTail"
    /\ loc' = [loc EXCEPT ![t].tail = metaTail[loc[t].queue]]
    /\ Goto(t, "deqHead")
    /\ UNCHANGED <<queueVars, nodeVars, inUse>>

DeqReadHead(t) ==
    /\ pc[t] = "deqHead"
    /\ loc' = [loc EXCEPT ![t].head = metaHead[loc[t].queue]]
    /\ Goto(t, "deqNext")
    /\ UNCHANGED <<queueVars, nodeVars, inUse>>

DeqReadNext(t) ==
    /\ pc[t] = "deqNext"
    /\ LET next == nextMeta[GetRealAddr(loc[t].head)]
       IN  IF GetRealAddr(next) = NULL
           THEN Forget(t) /\ Goto(t, "deqTail")
           ELSE /\ loc' = [loc EXCEPT ![t].next = next]
                /\ Goto(t, IF loc[t].tail = loc[t].head THEN "deqHelp" ELSE "deqData")
    /\ UNCHANGED <<queueVars, nodeVars, inUse>>

DeqHelp(t) ==
    /\ pc[t] = "deqHelp"
    /\ SwingTail(t, loc[t].next)
    /\ Forget(t)
    /\ Goto(t, "deqTail")
    /\ UNCHANGED <<phase, metaHead, metaCnt, num, nodeVars, inUse>>

DeqReadData(t) ==
    /\ pc[t] = "deqData"
    /\ loc' = [loc EXCEPT ![t].val = data[GetRealAddr(loc[t].next)]]
    /\ Goto(t, "deqCas")
    /\ UNCHANGED <<queueVars, nodeVars, inUse>>

\* Mutation: the CAS of metaHead_ compares addresses and ignores the tag.
DeqAdvanceByAddress(t) ==
    /\ pc[t] = "deqCas"
    /\ LET q == loc[t].queue
       IN  IF GetRealAddr(metaHead[q]) = GetRealAddr(loc[t].head)
           THEN /\ metaHead' = [metaHead EXCEPT ![q] = loc[t].next]
                /\ loc' = [loc EXCEPT ![t] = [loc[t] EXCEPT !.tail = ZeroMeta,
                                                              !.next = ZeroMeta]]
                /\ Goto(t, "deqFree")
           ELSE /\ loc' = [loc EXCEPT ![t] = [NoLocals EXCEPT !.queue = q]]
                /\ Goto(t, "deqTail")
                /\ UNCHANGED metaHead
    /\ UNCHANGED <<phase, metaTail, metaCnt, num, nodeVars, inUse>>

DeqAdvance(t) ==
    /\ pc[t] = "deqCas"
    /\ LET q == loc[t].queue
       IN  IF metaHead[q] = loc[t].head
           THEN /\ metaHead' = [metaHead EXCEPT ![q] = loc[t].next]
                /\ loc' = [loc EXCEPT ![t] = [loc[t] EXCEPT !.tail = ZeroMeta,
                                                              !.next = ZeroMeta]]
                /\ Goto(t, "deqFree")
           ELSE /\ loc' = [loc EXCEPT ![t] = [NoLocals EXCEPT !.queue = q]]
                /\ Goto(t, "deqTail")
                /\ UNCHANGED metaHead
    /\ UNCHANGED <<phase, metaTail, metaCnt, num, nodeVars, inUse>>

\* nodePool_.Free(pRealHead) and the return of the value.
DeqFree(t) ==
    /\ pc[t] = "deqFree"
    /\ NodePool!Free(GetRealAddr(loc[t].head))
    /\ Return(t)
    /\ UNCHANGED <<queueVars, nodeVars>>

-------------------------------------------------------------------------------
\* The nodes met when next_ is followed from metaHead_, the dummy first.
Chain(q) ==
    LET walk[k \in 1 .. Cardinality(Nodes) + 1] ==
          LET prev == walk[k - 1]
              n    == GetRealAddr(nextMeta[prev[k - 1]])
          IN  IF k = 1 THEN <<GetRealAddr(metaHead[q])>>
              ELSE IF Len(prev) < k - 1 \/ n = NULL THEN prev
              ELSE Append(prev, n)
    IN  walk[Cardinality(Nodes) + 1]

ChainNodes(q) == Range(Chain(q))

\* ClearAll frees every node, the last one with its null next_ and the old tag, so that
\* it still looks like the end of a list.  Assumption: it is called when no thread is
\* inside a call of any queue of the type.
ClearAll(q) ==
    /\ phase[q] = "ready"
    /\ \A t \in Threads : pc[t] = "idle"
    /\ inUse' = inUse \ ChainNodes(q)
    /\ phase' = [phase EXCEPT ![q] = "cleared"]
    /\ UNCHANGED <<metaTail, metaHead, metaCnt, num, nodeVars, pc, loc>>

-------------------------------------------------------------------------------
\* A thread's steps inside a call.
Step(t) ==
    \/ AllocNode(t) \/ EndConstruct(t) \/ EnqBuilt(t)
    \/ EnqReadTail(t) \/ EnqReadId(t) \/ EnqReadMeta(t) \/ EnqHelp(t)
    \/ EnqLink(t) \/ EnqSwing(t) \/ EnqCount(t)
    \/ DeqUndo(t) \/ DeqReadTail(t) \/ DeqReadHead(t) \/ DeqReadNext(t)
    \/ DeqHelp(t) \/ DeqReadData(t) \/ DeqAdvance(t) \/ DeqFree(t)

Call(t) ==
    \E q \in Queues :
      \/ BeginConstruct(t, q)
      \/ \E v \in Values : BeginEnqueue(t, q, v)
      \/ DeqReserve(t, q)

Next == (\E t \in Threads : Call(t) \/ Step(t)) \/ (\E q \in Queues : ClearAll(q))

Spec == Init /\ [][Next]_vars

\* The scheduler may favour any thread, but does not leave them all halted.
LiveSpec == Spec /\ WF_vars(\E t \in Threads : Step(t))

-------------------------------------------------------------------------------
\* Every variable has its type.
Labels == {"idle", "ctor", "ctorNext",
           "enq", "enqNext", "enqTail", "enqId", "enqMeta", "enqHelp",
           "enqLink", "enqSwing", "enqCount",
           "deqUndo", "deqTail", "deqHead", "deqNext", "deqHelp", "deqData",
           "deqCas", "deqFree"}

Words == MetaAddrs(Nodes)

Locals == [queue : Queues \cup {NULL}, new : Words, tail : Words, head : Words,
           id : Queues \cup {NULL}, next : Words, val : Values \cup {NoValue}]

TypeOK ==
    /\ phase \in [Queues -> {"new", "ready", "cleared"}]
    /\ metaTail \in [Queues -> Words] /\ metaHead \in [Queues -> Words]
    /\ metaCnt \in [Queues -> Counters] /\ num \in [Queues -> Int]
    /\ data \in [Nodes -> Values \cup {NoValue}]
    /\ nextId \in [Nodes -> Queues \cup {NULL}] /\ nextMeta \in [Nodes -> Words]
    /\ inUse \subseteq Nodes
    /\ pc \in [Threads -> Labels] /\ loc \in [Threads -> Locals]

Ready == {q \in Queues : phase[q] = "ready"}

At(q, labels) == {t \in Within(q) : pc[t] \in labels}

\* Nodes a single thread knows: under construction, or taken off and not freed.
Private(t) ==
    CASE pc[t] \in {"ctorNext", "enqNext", "enqTail", "enqId",
                    "enqMeta", "enqHelp", "enqLink"} -> {GetRealAddr(loc[t].new)}
      [] pc[t] = "deqFree" -> {GetRealAddr(loc[t].head)}
      [] OTHER -> {}

\* The places a node can be in: a position in the list of a queue, or the hands of a
\* thread.
Places == (UNION {{q} \X DOMAIN Chain(q) : q \in Ready})
            \cup ({NULL} \X {t \in Threads : Private(t) # {}})

\* Every node the pool has handed out is in one place only: in the list of one
\* queue or in the hands of one thread.  Nothing leaks and no two queues share
\* a node, although stale threads go on reading freed and reused nodes.
NodesAccounted ==
    /\ TypeOK
    /\ inUse = (UNION {ChainNodes(q) : q \in Ready}) \cup UNION {Private(t) : t \in Threads}
    /\ Cardinality(inUse) = Cardinality(Places)

\* metaTail_ never falls behind metaHead_, hence never points to a freed node.
\* It may lag behind the last node only by Enqueues that are about to swing it.
TailReachable ==
    \A q \in Ready :
      LET c == Chain(q)
      IN  \E k \in 1 .. Len(c) :
            /\ c[k] = GetRealAddr(metaTail[q])
            /\ Len(c) - k <= Cardinality(At(q, {"enqSwing"}))

DeqLoop == {"deqTail", "deqHead", "deqNext", "deqHelp", "deqData", "deqCas"}

\* num_ counts the elements no Dequeue has claimed; it lags by the Enqueues that
\* have linked but not counted, and dips by the Dequeues about to give up.  So a
\* Dequeue that has reserved is backed by an element whose Enqueue has finished with
\* the tail: its loop never has to wait for another thread.
NumExact ==
    \A q \in Ready :
      /\ num[q] = Len(Chain(q)) - 1
                    - Cardinality(At(q, {"enqSwing", "enqCount"} \cup DeqLoop \cup {"deqUndo"}))
      /\ Cardinality(At(q, DeqLoop \cup {"enqSwing", "enqCount"})) <= Len(Chain(q)) - 1

\* The double-width CAS succeeds only on the last node of the queue the Enqueue
\* was called on: on a node recycled since, for this queue or for another one,
\* it always fails (the comment above the CAS).
LinksAtEnd ==
    [][\A t \in Threads :
         pc[t] = "enqLink" /\ pc'[t] = "enqSwing" =>
           LET c == Chain(loc[t].queue) IN c[Len(c)] = GetRealAddr(loc[t].tail)]_vars

\* Each queue is a FIFO: an element comes out of the queue it went into, once
\* and in order, whatever nodes were reused for whichever queue meanwhile.
Items(q) ==
    IF q \in Ready
    THEN LET c == Tail(Chain(q)) IN [k \in DOMAIN c |-> data[c[k]]]
    ELSE <<>>

Fifo == INSTANCE FifoQueue WITH
          items <- [q \in Queues |-> Items(q)],
          taken <- [t \in Threads |-> IF pc[t] = "deqFree" THEN loc[t].val ELSE NoValue]

FifoSpec == Fifo!Spec

\* Lock freedom: as long as threads keep stepping inside calls, calls complete.
Completes == \E t \in Threads : pc[t] # "idle" /\ pc'[t] = "idle"

LockFree ==
    []<>(\A t \in Threads : pc[t] = "idle") \/ []<><<Completes>>_vars

===============================================================================
