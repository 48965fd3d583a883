----------------------------- MODULE PacketLeakLog -----------------------------
(***************************************************************************)
(* The DEBUG_LEAK build of Packet: debugList names every packet in use,    *)
(* the logList_ of a packet what happened to it.  Both are CLinkedLists,   *)
(* whose links are members of the elements, each behind a critical section *)
(* of its own; packets and logs come from pools and are linked again when  *)
(* they are reused.                                                        *)
(*                                                                         *)
(* The body of a push_back or remove is two actions with the critical      *)
(* section held in between.  Who writes a log has a reference, which the   *)
(* callers of WRITE_PACKET_LOG owe.                                        *)
(***************************************************************************)
EXTENDS Integers, Sequences, FiniteSets

CONSTANTS
  Threads,
  Packets,       \* packets packetPool_ may hand out
  Logs,          \* LEAK_LOGs leakLogPool may hand out
  debugList,
  NULL

ASSUME LeakAssumption ==
    /\ NULL \notin Threads \cup Packets \cup Logs /\ debugList \notin Packets
    /\ Packets \cap Logs = {} /\ IsFiniteSet(Packets \cup Logs)

Lists == Packets \cup {debugList}      \* a packet stands for its logList_
Nodes == Packets \cup Logs

VARIABLES
  pHead, pTail, size, cs,   \* of each list; cs: who is in its critical section
  pNext, pPrev,             \* the link of each element
  inUse, logsInUse,         \* handed out by packetPool_ and leakLogPool
  holders,                  \* the threads with a reference to each packet
  pc, list, elem, next      \* place and locals of each thread

listVars == <<pHead, pTail, size, cs>>
linkVars == <<pNext, pPrev>>
poolVars == <<inUse, logsInUse, holders>>
leakVars == <<listVars, linkVars, poolVars, pc, list, elem, next>>

Packet == INSTANCE ObjectPool WITH Objects <- Packets
Log    == INSTANCE ObjectPool WITH Objects <- Logs, inUse <- logsInUse

LeakInit ==
    /\ pHead = [l \in Lists |-> NULL] /\ pTail = [l \in Lists |-> NULL]
    /\ size = [l \in Lists |-> 0] /\ cs = [l \in Lists |-> NULL]
    /\ pNext = [n \in Nodes |-> NULL] /\ pPrev = [n \in Nodes |-> NULL]
    /\ inUse = {} /\ logsInUse = {} /\ holders = [p \in Packets |-> {}]
    /\ pc = [t \in Threads |-> "idle"] /\ list = [t \in Threads |-> NULL]
    /\ elem = [t \in Threads |-> NULL] /\ next = [t \in Threads |-> NULL]

Goto(t, label) == pc' = [pc EXCEPT ![t] = label]

\* The thread goes on with what it will do to element n of list l.
Work(t, label, l, n) ==
    /\ Goto(t, label)
    /\ list' = [list EXCEPT ![t] = l] /\ elem' = [elem EXCEPT ![t] = n]
    /\ next' = [next EXCEPT ![t] = NULL]

Return(t) == Work(t, "idle", NULL, NULL)

Enter(t, l) == cs[l] = NULL /\ cs' = [cs EXCEPT ![l] = t]
Leave(l)    == cs' = [cs EXCEPT ![l] = NULL]

-------------------------------------------------------------------------------
\* PACKET_ALLOC and the first reference.
AllocForDebugLeak(t, p) ==
    /\ pc[t] = "idle"
    /\ Packet!Alloc(p)
    /\ holders' = [holders EXCEPT ![p] = {t}]
    /\ Work(t, "push", debugList, p)
    /\ UNCHANGED <<listVars, linkVars, logsInUse>>

WRITE_PACKET_LOG(t, p, n) ==
    /\ pc[t] = "idle" /\ t \in holders[p]
    /\ Log!Alloc(n)
    /\ Work(t, "push", p, n)
    /\ UNCHANGED <<listVars, linkVars, inUse, holders>>

\* push_back up to the link from the old tail, or all of it for an empty list.
LinkLast(l, n) ==
    IF pHead[l] = NULL
    THEN /\ pHead' = [pHead EXCEPT ![l] = n] /\ pTail' = [pTail EXCEPT ![l] = n]
         /\ pNext' = [pNext EXCEPT ![n] = NULL] /\ pPrev' = [pPrev EXCEPT ![n] = NULL]
    ELSE /\ pPrev' = [pPrev EXCEPT ![n] = pTail[l]]
         /\ pNext' = [pNext EXCEPT ![pTail[l]] = n]
         /\ UNCHANGED <<pHead, pTail>>

PushBack(t) ==
    /\ pc[t] = "push"
    /\ Enter(t, list[t])
    /\ LinkLast(list[t], elem[t])
    /\ Goto(t, "pushed")
    /\ UNCHANGED <<size, poolVars, list, elem, next>>

EndPushBack(t) ==
    /\ pc[t] = "pushed"
    /\ pTail' = [pTail EXCEPT ![list[t]] = elem[t]]
    /\ pNext' = [pNext EXCEPT ![elem[t]] = NULL]
    /\ size' = [size EXCEPT ![list[t]] = @ + 1]
    /\ Leave(list[t])
    /\ Return(t)
    /\ UNCHANGED <<pHead, pPrev, poolVars>>

-------------------------------------------------------------------------------
\* References come and go between calls.
Share(t, u, p) ==
    /\ pc[t] = "idle" /\ t \in holders[p]
    /\ holders' = [holders EXCEPT ![p] = @ \cup {u}]
    /\ UNCHANGED <<listVars, linkVars, inUse, logsInUse, pc, list, elem, next>>

\* The last one to let go frees the packet: FreeForDebugLeak.
LetGo(t, p) ==
    /\ pc[t] = "idle" /\ t \in holders[p]
    /\ holders' = [holders EXCEPT ![p] = @ \ {t}]
    /\ IF holders[p] = {t} THEN Work(t, "remove", debugList, p)
                           ELSE UNCHANGED <<pc, list, elem, next>>
    /\ UNCHANGED <<listVars, linkVars, inUse, logsInUse>>

\* The debugger break of remove: the neighbours do not know the victim.
Broken(l, n) ==
    \/ IF pPrev[n] # NULL THEN pNext[pPrev[n]] # n ELSE pHead[l] # n
    \/ IF pNext[n] # NULL THEN pPrev[pNext[n]] # n ELSE pTail[l] # n

\* remove up to the side of the predecessor.
UnlinkPrev(l, n) ==
    IF pPrev[n] # NULL
    THEN pNext' = [pNext EXCEPT ![pPrev[n]] = pNext[n]] /\ UNCHANGED pHead
    ELSE pHead' = [pHead EXCEPT ![l] = pNext[n]] /\ UNCHANGED pNext

\* Mutation: the successor keeps its link to the element.
UnlinkNextOneSided(l, n) ==
    /\ pTail' = IF pNext[n] = NULL THEN [pTail EXCEPT ![l] = pPrev[n]] ELSE pTail
    /\ pPrev' = [pPrev EXCEPT ![n] = NULL]
    /\ pNext' = [pNext EXCEPT ![n] = NULL]
    /\ size' = [size EXCEPT ![l] = @ - 1]

\* The side of the successor, and the reset of the link.
UnlinkNext(l, n) ==
    /\ IF pNext[n] # NULL
       THEN pPrev' = [pPrev EXCEPT ![pNext[n]] = pPrev[n], ![n] = NULL] /\ UNCHANGED pTail
       ELSE pTail' = [pTail EXCEPT ![l] = pPrev[n]] /\ pPrev' = [pPrev EXCEPT ![n] = NULL]
    /\ pNext' = [pNext EXCEPT ![n] = NULL]
    /\ size' = [size EXCEPT ![l] = @ - 1]

Remove(t) ==
    /\ pc[t] = "remove"
    /\ Enter(t, debugList)
    /\ UnlinkPrev(debugList, elem[t])
    /\ Goto(t, "removed")
    /\ UNCHANGED <<pTail, size, pPrev, poolVars, list, elem, next>>

EndRemove(t) ==
    /\ pc[t] = "removed"
    /\ UnlinkNext(debugList, elem[t])
    /\ Leave(debugList)
    /\ Work(t, "drain", elem[t], NULL)
    /\ UNCHANGED <<pHead, poolVars>>

-------------------------------------------------------------------------------
\* Then the logs of the packet go back to their pool, in one critical section.
GetFirst(l) == pHead[l]

Drain(t) ==
    /\ pc[t] = "drain"
    /\ Enter(t, list[t])
    /\ elem' = [elem EXCEPT ![t] = GetFirst(list[t])]
    /\ Goto(t, "loop")
    /\ UNCHANGED <<pHead, pTail, size, linkVars, poolVars, list, next>>

\* pLeakLog = remove(pLeakLog): the successor is kept before the link is reset.
DrainRemove(t) ==
    /\ pc[t] = "loop" /\ elem[t] # NULL
    /\ UnlinkPrev(list[t], elem[t])
    /\ next' = [next EXCEPT ![t] = pNext[elem[t]]]
    /\ Goto(t, "unlink")
    /\ UNCHANGED <<pTail, size, cs, pPrev, poolVars, list, elem>>

DrainUnlink(t) ==
    /\ pc[t] = "unlink"
    /\ UnlinkNext(list[t], elem[t])
    /\ Goto(t, "freeLog")
    /\ UNCHANGED <<pHead, cs, poolVars, list, elem, next>>

\* Mutation: the loop goes on with the link of the log that was removed.
FreeLogThenNext(t) ==
    /\ pc[t] = "freeLog"
    /\ Log!Free(elem[t])
    /\ elem' = [elem EXCEPT ![t] = pNext[elem[t]]]
    /\ next' = [next EXCEPT ![t] = NULL]
    /\ Goto(t, "loop")
    /\ UNCHANGED <<listVars, linkVars, inUse, holders, list>>

FreeLog(t) ==
    /\ pc[t] = "freeLog"
    /\ Log!Free(elem[t])
    /\ elem' = [elem EXCEPT ![t] = next[t]]
    /\ next' = [next EXCEPT ![t] = NULL]
    /\ Goto(t, "loop")
    /\ UNCHANGED <<listVars, linkVars, inUse, holders, list>>

EndDrain(t) ==
    /\ pc[t] = "loop" /\ elem[t] = NULL
    /\ Leave(list[t])
    /\ Work(t, "free", list[t], NULL)
    /\ UNCHANGED <<pHead, pTail, size, linkVars, poolVars>>

FreePacket(t) ==
    /\ pc[t] = "free"
    /\ Packet!Free(list[t])
    /\ Return(t)
    /\ UNCHANGED <<listVars, linkVars, logsInUse, holders>>

-------------------------------------------------------------------------------
FreeStep(t) ==
    \/ Remove(t) \/ EndRemove(t) \/ Drain(t) \/ DrainRemove(t) \/ DrainUnlink(t)
    \/ FreeLog(t) \/ EndDrain(t) \/ FreePacket(t)

LeakNext ==
    \E t \in Threads :
      \/ \E p \in Packets :
           \/ AllocForDebugLeak(t, p) \/ LetGo(t, p)
           \/ \E n \in Logs : WRITE_PACKET_LOG(t, p, n)
           \/ \E u \in Threads : Share(t, u, p)
      \/ PushBack(t) \/ EndPushBack(t) \/ FreeStep(t)

LeakSpec == LeakInit /\ [][LeakNext]_leakVars

-------------------------------------------------------------------------------
\* What a walk with GetFirst and GetNext meets, as far as a list can be long.
Walk(first, link) ==
    LET met[k \in 0 .. Cardinality(Nodes) + 1] ==
          IF k = 0 THEN <<>>
          ELSE LET prev == met[k - 1]
                   n    == IF prev = <<>> THEN first ELSE link[prev[Len(prev)]]
               IN  IF Len(prev) < k - 1 \/ n = NULL THEN prev ELSE Append(prev, n)
    IN  met[Cardinality(Nodes) + 1]

FindElementNum(l, n) ==
    LET met == Walk(GetFirst(l), pNext) IN Cardinality({k \in DOMAIN met : met[k] = n})

\* The elements a list should have: the packets in use that were enlisted and not
\* removed yet; the logs of a packet are those that LogsAccounted finds in its list.
Elements(l) ==
    IF l = debugList
    THEN {p \in inUse : \A t \in Threads :
            /\ ~(pc[t] = "push" /\ elem[t] = p)
            /\ ~(pc[t] \in {"drain", "loop", "unlink", "freeLog", "free"} /\ list[t] = p)}
    ELSE {n \in Logs : FindElementNum(l, n) > 0}

\* Outside its critical section a list is a list: forwards it meets every element
\* that belongs there once, backwards the same in the opposite order, and size_ of
\* them.  So debugList names exactly the packets in use, and the debugger breaks of
\* remove are never reached, nor are they inside the section, in the loop that frees
\* the logs.
ListsExact ==
    /\ \A l \in {m \in Lists : cs[m] = NULL} :
         LET forth == Walk(pHead[l], pNext)
             back  == Walk(pTail[l], pPrev)
             len   == Len(forth)
         IN  /\ {forth[k] : k \in 1 .. len} = Elements(l)
             /\ len = Cardinality(Elements(l)) /\ len = size[l] /\ len = Len(back)
             /\ \A k \in 1 .. len : back[k] = forth[len + 1 - k]
             /\ \A k \in 1 .. len : ~Broken(l, forth[k])
    /\ \A t \in Threads : pc[t] = "loop" /\ elem[t] # NULL => ~Broken(list[t], elem[t])

\* The logs a thread has in hand: not linked yet, or not in the list any more.
InHand(t) ==
    IF pc[t] \in {"push", "pushed", "unlink", "freeLog"} THEN {elem[t]} \cap Logs ELSE {}

\* A log out of the pool is in the list of one packet in use or in the hands of one
\* thread: none leaks, stays in the list of a packet that was freed, or is freed
\* while it is linked.
LogsAccounted ==
    LET logged == {x \in Packets \X Logs :
                     (\A t \in Threads : x[2] \notin InHand(t)) /\ FindElementNum(x[1], x[2]) > 0}
        hand   == {x \in Threads \X Logs : x[2] \in InHand(x[1])}
    IN  /\ logsInUse = {x[2] : x \in logged \cup hand}
        /\ Cardinality(logsInUse) = Cardinality(logged) + Cardinality(hand)
        /\ \A x \in logged : x[1] \in inUse

===============================================================================
