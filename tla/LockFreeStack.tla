----------------------------- MODULE LockFreeStack -----------------------------
(***************************************************************************)
(* CLockFreeStack<T>: a linked stack whose nodes come from a pool of its   *)
(* own, taken as its abstract specification, which CTlsObjectPool          *)
(* implements (module TlsObjectPool).  A node that was popped may be in    *)
(* the stack again while a slow Pop still holds its address.               *)
(*                                                                         *)
(* One action is one access to shared memory.                              *)
(***************************************************************************)
EXTENDS AddressTranslator, Integers, Sequences, FiniteSets

CONSTANTS
  Threads,
  Nodes,     \* addresses pool_ may hand out
  Values,
  NoValue

ASSUME StackAssumption ==
    /\ NULL \notin Nodes /\ NoValue \notin Values
    /\ IsFiniteSet(Nodes) /\ IsFiniteSet(Threads)

VARIABLES
  metaTop, metaCnt, num,    \* members of the stack
  data, metaNext,           \* members of each node
  inUse,                    \* nodes handed out by pool_
  pc, top, new, val         \* place and locals of each thread

stackVars == <<metaTop, metaCnt, num>>
nodeVars  == <<data, metaNext>>
vars == <<stackVars, nodeVars, inUse, pc, top, new, val>>

NodePool == INSTANCE ObjectPool WITH Objects <- Nodes

Init ==
    /\ metaTop = ZeroMeta /\ metaCnt = 0 /\ num = 0
    /\ data = [n \in Nodes |-> NoValue] /\ metaNext = [n \in Nodes |-> ZeroMeta]
    /\ inUse = {}
    /\ pc  = [t \in Threads |-> "idle"]
    /\ top = [t \in Threads |-> ZeroMeta] /\ new = [t \in Threads |-> ZeroMeta]
    /\ val = [t \in Threads |-> NoValue]

Goto(t, label) == pc' = [pc EXCEPT ![t] = label]

\* A finished call leaves no locals behind.
Return(t) ==
    /\ Goto(t, "idle")
    /\ top' = [top EXCEPT ![t] = ZeroMeta] /\ new' = [new EXCEPT ![t] = ZeroMeta]
    /\ val' = [val EXCEPT ![t] = NoValue]

-------------------------------------------------------------------------------
\* Push(v): pool_.Alloc constructs the node around the value.
BeginPush(t, v) ==
    /\ pc[t] = "idle"
    /\ \E n \in Nodes :
         /\ NodePool!Alloc(n)
         /\ data' = [data EXCEPT ![n] = v]
         /\ metaNext' = [metaNext EXCEPT ![n] = ZeroMeta]
         /\ new' = [new EXCEPT ![t] = GetMetaAddr(0, n)]
    /\ Goto(t, "tag")
    /\ UNCHANGED <<stackVars, top, val>>

\* The assumption the 17-bit counter stands for: no thread sleeps in the loop of
\* Pop for so long that the very word it read is built again.
NotReissued(m) == \A u \in Threads : pc[u] \in {"next", "pop"} => top[u] # m

\* Mutation: the word carries no tag.
GetTagUntagged(t) ==
    /\ pc[t] = "tag"
    /\ Goto(t, "pushRead")
    /\ UNCHANGED <<stackVars, nodeVars, inUse, top, new, val>>

\* newMetaTop = GetMetaAddr(GetCnt(&metaCnt_), pNewNode)
GetTag(t) ==
    /\ pc[t] = "tag"
    /\ LET m == GetMetaAddr(metaCnt, GetRealAddr(new[t]))
       IN  NotReissued(m) /\ new' = [new EXCEPT ![t] = m]
    /\ metaCnt' = IncCnt(metaCnt)
    /\ Goto(t, "pushRead")
    /\ UNCHANGED <<metaTop, num, nodeVars, inUse, top, val>>

PushRead(t) ==
    /\ pc[t] = "pushRead"
    /\ top' = [top EXCEPT ![t] = metaTop]
    /\ Goto(t, "link")
    /\ UNCHANGED <<stackVars, nodeVars, inUse, new, val>>

\* pNewNode->metaNext_ = metaTop
Link(t) ==
    /\ pc[t] = "link"
    /\ metaNext' = [metaNext EXCEPT ![GetRealAddr(new[t])] = top[t]]
    /\ Goto(t, "push")
    /\ UNCHANGED <<stackVars, data, inUse, top, new, val>>

\* Mutation: after a failed CAS the node keeps its old successor.
PushNoRelink(t) ==
    /\ pc[t] = "push"
    /\ IF metaTop = top[t]
       THEN metaTop' = new[t] /\ Goto(t, "pushed") /\ UNCHANGED top
       ELSE top' = [top EXCEPT ![t] = metaTop] /\ UNCHANGED <<metaTop, pc>>
    /\ UNCHANGED <<metaCnt, num, nodeVars, inUse, new, val>>

Push(t) ==
    /\ pc[t] = "push"
    /\ IF metaTop = top[t]
       THEN metaTop' = new[t] /\ Goto(t, "pushed")
       ELSE UNCHANGED metaTop /\ Goto(t, "pushRead")
    /\ UNCHANGED <<metaCnt, num, nodeVars, inUse, top, new, val>>

EndPush(t) ==
    /\ pc[t] = "pushed"
    /\ num' = num + 1
    /\ Return(t)
    /\ UNCHANGED <<metaTop, metaCnt, nodeVars, inUse>>

-------------------------------------------------------------------------------
\* Pop, and every further turn of its loop, begins with metaTop = metaTop_; an
\* empty stack is reported at once.
ReadTop(t) ==
    /\ pc[t] \in {"idle", "read"}
    /\ top' = [top EXCEPT ![t] = metaTop]
    /\ Goto(t, IF metaTop = ZeroMeta THEN "idle" ELSE "next")
    /\ UNCHANGED <<stackVars, nodeVars, inUse, new, val>>

BeginPop(t) == pc[t] = "idle" /\ ReadTop(t)

ReadNext(t) ==
    /\ pc[t] = "next"
    /\ new' = [new EXCEPT ![t] = metaNext[GetRealAddr(top[t])]]
    /\ Goto(t, "pop")
    /\ UNCHANGED <<stackVars, nodeVars, inUse, top, val>>

Pop(t) ==
    /\ pc[t] = "pop"
    /\ IF metaTop = top[t]
       THEN metaTop' = new[t] /\ Goto(t, "take")
       ELSE UNCHANGED metaTop /\ Goto(t, "read")
    /\ UNCHANGED <<metaCnt, num, nodeVars, inUse, top, new, val>>

\* data = std::move(realTop->data_) of the node that is its own by now, and
\* pool_.Free(realTop), which destroys the node; its memory stays readable.
TakeData(t) ==
    /\ pc[t] = "take"
    /\ LET n == GetRealAddr(top[t])
       IN  /\ val' = [val EXCEPT ![t] = data[n]]
           /\ data' = [data EXCEPT ![n] = NoValue]
           /\ NodePool!Free(n)
    /\ Goto(t, "taken")
    /\ UNCHANGED <<stackVars, metaNext, top, new>>

EndPop(t) ==
    /\ pc[t] = "taken"
    /\ num' = num - 1
    /\ Return(t)
    /\ UNCHANGED <<metaTop, metaCnt, nodeVars, inUse>>

-------------------------------------------------------------------------------
PushStep(t) == GetTag(t) \/ PushRead(t) \/ Link(t) \/ Push(t) \/ EndPush(t)
PopStep(t)  == (pc[t] = "read" /\ ReadTop(t)) \/ ReadNext(t) \/ Pop(t) \/ TakeData(t) \/ EndPop(t)

Step(t) == PushStep(t) \/ PopStep(t)

Next == \E t \in Threads : (\E v \in Values : BeginPush(t, v)) \/ BeginPop(t) \/ Step(t)

-------------------------------------------------------------------------------
\* The nodes met when metaNext_ is followed from metaTop_, as many as there are.
Chain ==
    LET walk[k \in 0 .. Cardinality(Nodes)] ==
          IF k = 0 THEN <<>>
          ELSE LET prev == walk[k - 1]
                   word == IF prev = <<>> THEN metaTop ELSE metaNext[prev[Len(prev)]]
               IN  IF Len(prev) < k - 1 \/ word = ZeroMeta THEN prev
                   ELSE Append(prev, GetRealAddr(word))
    IN  walk[Cardinality(Nodes)]

At(labels) == {t \in Threads : pc[t] \in labels}
Pushing == At({"tag", "pushRead", "link", "push"})
Popping == At({"take", "taken"})

\* Every node out of the pool is in the stack or with one thread, and num_ is
\* the number of elements but for the calls under way.
StackIntact ==
    LET c == Chain
    IN  /\ inUse = {c[k] : k \in DOMAIN c}
                     \cup {GetRealAddr(new[t]) : t \in Pushing}
                     \cup {GetRealAddr(top[t]) : t \in At({"take"})}
        /\ Cardinality(inUse) = Len(c) + Cardinality(Pushing \cup At({"take"}))
        /\ num = Len(c) + Cardinality(Popping) - Cardinality(At({"pushed"}))

\* What a Pop has taken and not returned yet.
Taken(t) ==
    CASE pc[t] = "take" -> data[GetRealAddr(top[t])]
      [] pc[t] = "taken" -> val[t]
      [] OTHER -> NoValue

\* The elements of the stack, last pushed first.
Content == LET c == Chain IN [k \in DOMAIN c |-> data[c[k]]]

\* It is a stack: what a Pop takes was pushed last of what is there, and every
\* value pushed is taken once, however nodes are reused.
Lifo == INSTANCE LifoStack WITH
          content <- Content,
          taken <- [t \in Threads |-> Taken(t)]

================================================================================
