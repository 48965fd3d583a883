---------------------------- MODULE MCLockFreeStack ----------------------------
(***************************************************************************)
(* A program that uses both lock-free lists: threads take objects from a   *)
(* CLockFreeObjectPool, hand them to one another through a CLockFreeStack  *)
(* of pointers, and free what they popped.  A thread is in one call at a   *)
(* time and uses an object only while it holds it.                         *)
(***************************************************************************)
EXTENDS LockFreeStack, TLC

CONSTANT Holdable     \* bound: objects a thread holds outside any call

VARIABLES
  pMetaTop, pMetaCnt, pCapacity, pSize, pMetaNext, pHeap, pLive, pPc, pTop, pNew,
  pCleared,
  hold       \* the objects each thread holds

poolVars == <<pMetaTop, pMetaCnt, pCapacity, pSize, pMetaNext, pHeap, pLive, pPc,
              pTop, pNew, pCleared>>

\* The pool's objects are what the stack's values point to.
Pool == INSTANCE LockFreeObjectPool WITH
          Nodes <- Values,
          metaTop <- pMetaTop, metaCnt <- pMetaCnt, capacity <- pCapacity,
          size <- pSize, metaNext <- pMetaNext, heap <- pHeap, live <- pLive,
          pc <- pPc, top <- pTop, new <- pNew, cleared <- pCleared

\* Objects are addresses too, and memory has finitely many of them.
ASSUME ObjectsAssumption == NULL \notin Values /\ IsFiniteSet(Values)

MCInit == Init /\ Pool!Init /\ hold = [t \in Threads |-> {}]

Give(t, v) == hold' = [hold EXCEPT ![t] = @ \cup {v}]
Lose(t, v) == hold' = [hold EXCEPT ![t] = @ \ {v}]

Idle(t) == pc[t] = "idle" /\ pPc[t] = "idle"

\* What a call hands to its thread.
PoolCall(t) ==
    /\ UNCHANGED vars
    /\ \/ Idle(t) /\ Cardinality(hold[t]) < Holdable /\ Pool!BeginAlloc(t) /\ UNCHANGED hold
       \/ \E v \in hold[t] : Idle(t) /\ Pool!BeginFree(t, v) /\ Lose(t, v)
       \/ /\ Pool!Step(t)
          /\ hold' = [hold EXCEPT ![t] = @ \cup (pLive' \ pLive)]

StackCall(t) ==
    /\ UNCHANGED poolVars
    /\ \/ \E v \in hold[t] : Idle(t) /\ BeginPush(t, v) /\ Lose(t, v)
       \/ Idle(t) /\ Cardinality(hold[t]) < Holdable /\ BeginPop(t) /\ UNCHANGED hold
       \/ Step(t) /\ IF pc[t] = "taken" THEN Give(t, val[t]) ELSE UNCHANGED hold

MCNext ==
    \/ \E t \in Threads : PoolCall(t) \/ StackCall(t)
    \/ Pool!ClearAll /\ UNCHANGED <<vars, hold>>

MCSpec == MCInit /\ [][MCNext]_<<vars, poolVars, hold>>

Symmetry == Permutations(Threads) \cup Permutations(Nodes) \cup Permutations(Values)

\* Neither the list of the stack nor that of the pool loses or repeats a node, also when
\* one is popped, used and pushed again while a thread sleeps before its CAS.
ListsIntact == StackIntact /\ Pool!PoolIntact

\* The stack implements LifoStack.
StackSpec == Lifo!Spec

\* Across both lists an object has one place: it is held by one thread, on its way
\* into the stack, in it, or on its way out.  None is lost and none is had twice.
HandedOn ==
    LET held == {h \in Threads \X Values : h[2] \in hold[h[1]]}
        c    == Chain
    IN  /\ pLive = {h[2] : h \in held} \cup {data[c[k]] : k \in 1 .. Len(c)}
                     \cup {data[GetRealAddr(new[t])] : t \in Pushing}
                     \cup {Taken(t) : t \in Popping}
        /\ Cardinality(pLive) = Cardinality(held) + Len(c) + Cardinality(Pushing \cup Popping)

================================================================================
