--------------------------- MODULE LockFreeObjectPool ---------------------------
(***************************************************************************)
(* CLockFreeObjectPool<T>: freed objects wait on a linked list for the     *)
(* next Alloc; Alloc makes a new object when the list is empty.  A T and   *)
(* the FreeListNode around it stand for one another.                       *)
(*                                                                         *)
(* One action is one access to shared memory.  Another thread may take the *)
(* top node, use it and give it back between the read of its metaNext and  *)
(* the CAS: only the tag in the word tells.                                *)
(***************************************************************************)
EXTENDS AddressTranslator, Integers, FiniteSets

CONSTANTS
  Threads,
  Nodes      \* addresses new may return

VARIABLES
  metaTop, metaCnt, capacity, size,   \* members of the pool
  metaNext,                           \* member of each node
  heap,                               \* nodes that exist
  live,                               \* objects handed out and not given back
  pc, top, new,                       \* place and locals of each thread
  cleared                             \* ClearAll was called

poolVars   == <<metaTop, metaCnt, capacity, size>>
threadVars == <<pc, top, new>>
vars == <<poolVars, metaNext, heap, live, threadVars, cleared>>

Init ==
    /\ metaTop = ZeroMeta /\ metaCnt = 0 /\ capacity = 0 /\ size = 0
    /\ metaNext = [n \in Nodes |-> ZeroMeta]
    /\ heap = {} /\ live = {}
    /\ pc  = [t \in Threads |-> "idle"]
    /\ top = [t \in Threads |-> ZeroMeta] /\ new = [t \in Threads |-> ZeroMeta]
    /\ cleared = FALSE

Goto(t, label) == pc' = [pc EXCEPT ![t] = label]

\* A finished call leaves no locals behind.
Return(t) ==
    /\ Goto(t, "idle")
    /\ top' = [top EXCEPT ![t] = ZeroMeta] /\ new' = [new EXCEPT ![t] = ZeroMeta]

-------------------------------------------------------------------------------
\* Alloc, and every further turn of its loop, begins with metaTop = metaTop_.
ReadTop(t) ==
    /\ pc[t] \in {"idle", "read"} /\ ~cleared
    /\ top' = [top EXCEPT ![t] = metaTop]
    /\ Goto(t, IF metaTop = ZeroMeta THEN "new" ELSE "next")
    /\ UNCHANGED <<poolVars, metaNext, heap, live, new, cleared>>

\* InterlockedIncrement(&capacity_) and new, as long as the heap has room.
NewNode(t) ==
    /\ pc[t] = "new"
    /\ capacity' = capacity + 1
    /\ \E n \in Nodes \ heap :
         /\ heap' = heap \cup {n}
         /\ metaNext' = [metaNext EXCEPT ![n] = ZeroMeta]
         /\ live' = live \cup {n}
    /\ Return(t)
    /\ UNCHANGED <<metaTop, metaCnt, size, cleared>>

ReadNext(t) ==
    /\ pc[t] = "next"
    /\ new' = [new EXCEPT ![t] = metaNext[GetRealAddr(top[t])]]
    /\ Goto(t, "pop")
    /\ UNCHANGED <<poolVars, metaNext, heap, live, top, cleared>>

\* Mutation: the CAS compares addresses and ignores the tag.
PopByAddress(t) ==
    /\ pc[t] = "pop"
    /\ IF GetRealAddr(metaTop) = GetRealAddr(top[t])
       THEN metaTop' = new[t] /\ Goto(t, "taken")
       ELSE UNCHANGED metaTop /\ Goto(t, "read")
    /\ UNCHANGED <<metaCnt, capacity, size, metaNext, heap, live, top, new, cleared>>

Pop(t) ==
    /\ pc[t] = "pop"
    /\ IF metaTop = top[t]
       THEN metaTop' = new[t] /\ Goto(t, "taken")
       ELSE UNCHANGED metaTop /\ Goto(t, "read")
    /\ UNCHANGED <<metaCnt, capacity, size, metaNext, heap, live, top, new, cleared>>

\* InterlockedDecrement(&size_) and the return of the object.
EndAlloc(t) ==
    /\ pc[t] = "taken"
    /\ size' = size - 1
    /\ live' = live \cup {GetRealAddr(top[t])}
    /\ Return(t)
    /\ UNCHANGED <<metaTop, metaCnt, capacity, metaNext, heap, cleared>>

-------------------------------------------------------------------------------
\* The assumption the 17-bit counter stands for: no thread sleeps in the loop of
\* Alloc for so long that the very word it read is built again.
NotReissued(m) == \A u \in Threads : pc[u] \in {"next", "pop"} => top[u] # m

\* Free(n), by any thread: newMetaTop = GetMetaAddr(GetCnt(&metaCnt_), node).
BeginFree(t, n) ==
    /\ pc[t] = "idle" /\ ~cleared
    /\ n \in live
    /\ LET m == GetMetaAddr(metaCnt, n)
       IN  NotReissued(m) /\ new' = [new EXCEPT ![t] = m]
    /\ metaCnt' = IncCnt(metaCnt)
    /\ live' = live \ {n}
    /\ Goto(t, "pushRead")
    /\ UNCHANGED <<metaTop, capacity, size, metaNext, heap, top, cleared>>

PushRead(t) ==
    /\ pc[t] = "pushRead"
    /\ top' = [top EXCEPT ![t] = metaTop]
    /\ Goto(t, "link")
    /\ UNCHANGED <<poolVars, metaNext, heap, live, new, cleared>>

\* pNewRealTop->metaNext = metaTop
Link(t) ==
    /\ pc[t] = "link"
    /\ metaNext' = [metaNext EXCEPT ![GetRealAddr(new[t])] = top[t]]
    /\ Goto(t, "push")
    /\ UNCHANGED <<poolVars, heap, live, top, new, cleared>>

\* Mutation: after a failed CAS the node keeps its old successor.
PushNoRelink(t) ==
    /\ pc[t] = "push"
    /\ IF metaTop = top[t]
       THEN metaTop' = new[t] /\ Goto(t, "pushed") /\ UNCHANGED top
       ELSE top' = [top EXCEPT ![t] = metaTop] /\ UNCHANGED <<metaTop, pc>>
    /\ UNCHANGED <<metaCnt, capacity, size, metaNext, heap, live, new, cleared>>

Push(t) ==
    /\ pc[t] = "push"
    /\ IF metaTop = top[t]
       THEN metaTop' = new[t] /\ Goto(t, "pushed")
       ELSE UNCHANGED metaTop /\ Goto(t, "pushRead")
    /\ UNCHANGED <<metaCnt, capacity, size, metaNext, heap, live, top, new, cleared>>

EndFree(t) ==
    /\ pc[t] = "pushed"
    /\ size' = size + 1
    /\ Return(t)
    /\ UNCHANGED <<metaTop, metaCnt, capacity, metaNext, heap, live, cleared>>

-------------------------------------------------------------------------------
\* The nodes on the list, found from metaTop_ on.
FreeNodes ==
    LET found[k \in 0 .. Cardinality(Nodes)] ==
          IF k = 0 THEN {GetRealAddr(metaTop)}
          ELSE found[k - 1] \cup {GetRealAddr(metaNext[n]) : n \in found[k - 1] \ {NULL}}
    IN  found[Cardinality(Nodes)] \ {NULL}

\* Deletes the nodes on the list and leaves metaTop_ as it is: for a pool nobody
\* is using and nobody will use again.
ClearAll ==
    /\ ~cleared /\ \A t \in Threads : pc[t] = "idle"
    /\ heap' = heap \ FreeNodes
    /\ capacity' = capacity - Cardinality(FreeNodes)
    /\ size' = size - Cardinality(FreeNodes)
    /\ cleared' = TRUE
    /\ UNCHANGED <<metaTop, metaCnt, metaNext, live, threadVars>>

-------------------------------------------------------------------------------
BeginAlloc(t) == pc[t] = "idle" /\ ReadTop(t)

AllocStep(t) ==
    (pc[t] = "read" /\ ReadTop(t)) \/ NewNode(t) \/ ReadNext(t) \/ Pop(t) \/ EndAlloc(t)
FreeStep(t) == PushRead(t) \/ Link(t) \/ Push(t) \/ EndFree(t)

Step(t) == AllocStep(t) \/ FreeStep(t)

-------------------------------------------------------------------------------
\* Every node is on the list, with a caller, or with the one thread that is
\* taking it off or putting it on; the counters are exact but for calls under
\* way, also after ClearAll.
Busy(t) ==
    CASE pc[t] = "taken" -> {GetRealAddr(top[t])}
      [] pc[t] \in {"pushRead", "link", "push"} -> {GetRealAddr(new[t])}
      [] OTHER -> {}

Listed == IF cleared THEN {} ELSE FreeNodes

At(labels) == Cardinality({t \in Threads : pc[t] \in labels})

PoolIntact ==
    /\ heap = Listed \cup live \cup UNION {Busy(t) : t \in Threads}
    /\ Cardinality(heap) = Cardinality(Listed) + Cardinality(live) + At({"taken", "pushRead", "link", "push"})
    /\ capacity = Cardinality(heap)
    /\ size = Cardinality(Listed) + At({"taken"}) - At({"pushed"})

================================================================================
