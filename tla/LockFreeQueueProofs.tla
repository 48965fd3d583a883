-------------------------- MODULE LockFreeQueueProofs --------------------------
(***************************************************************************)
(* Proofs about LockFreeQueue, for any threads, queues, nodes and values   *)
(* and any number of tags.  The invariant names the list of every queue as *)
(* a sequence S[q] of nodes and says of every thread what the words it     *)
(* read still tell about that list, whatever was freed, reused and built   *)
(* again since.                                                            *)
(***************************************************************************)
EXTENDS LockFreeQueue, FiniteSetTheorems, FunctionTheorems, TLAPS

\* Induction, as far as it is needed: the provers cannot instantiate a theorem about
\* a predicate, but a set of numbers has a least element.
LEMMA LeastElement ==
    ASSUME NEW N \in Nat, NEW T \in SUBSET (0 .. N), T # {}
    PROVE  \E n \in T : \A m \in T : n <= m
<1> DEFINE Intervals == {0 .. n : n \in T}
           Less      == StrictSubsetOrdering(0 .. N)
<1>1. /\ IsFiniteSet(0 .. N)
      /\ \A n \in T : n \in Nat /\ 0 .. n \in SUBSET (0 .. N)
  BY FS_Interval
<1>2. IsWellFoundedOn(Less, FiniteSubsetsOf(0 .. N))
  BY FS_StrictSubsetOrderingWellFounded
<1>3. Intervals \subseteq FiniteSubsetsOf(0 .. N) /\ Intervals # {}
  <2>1. FiniteSubsetsOf(0 .. N) = SUBSET (0 .. N)
    BY <1>1, FS_FiniteSubsetsOfFinite
  <2>2. ASSUME NEW I \in Intervals PROVE I \in SUBSET (0 .. N)
    <3>1. PICK n \in T : I = 0 .. n
      BY <2>2
    <3> QED
      BY <1>1, <3>1, Zenon
  <2>3. Intervals # {}
    <3>1. PICK n \in T : TRUE
      OBVIOUS
    <3>2. 0 .. n \in Intervals
      BY <3>1
    <3> QED
      BY <3>2
  <2> QED
    BY <2>1, <2>2, <2>3, Zenon
<1>4. \E I \in Intervals : \A J \in Intervals : <<J, I>> \notin Less
  <2> HIDE DEF Less, Intervals
  <2> QED
    BY <1>2, <1>3, WFMin
<1>5. PICK n \in T : \A J \in Intervals : <<J, 0 .. n>> \notin Less
  BY <1>4
<1>6. ASSUME NEW m \in T, m < n PROVE FALSE
  <2>1. /\ 0 .. m \subseteq 0 .. n /\ n \notin 0 .. m /\ n \in 0 .. n
        /\ 0 .. m \in SUBSET (0 .. N) /\ 0 .. n \in SUBSET (0 .. N)
    BY <1>1, <1>6
  <2>2. <<0 .. m, 0 .. n>> \in Less
    BY <2>1 DEF StrictSubsetOrdering
  <2> QED
    BY <1>5, <2>2
<1> QED
  BY <1>1, <1>6

\* Two recursive functions of 1, 2, ... that agree step by step agree.
LEMMA SameFromOne ==
    ASSUME NEW N \in Nat, NEW f, NEW g,
           \A n \in 1 .. N : n = 1 \/ f[n - 1] = g[n - 1] => f[n] = g[n]
    PROVE  \A n \in 1 .. N : f[n] = g[n]
<1> DEFINE T == {n \in 1 .. N : f[n] # g[n]}
<1> SUFFICES ASSUME T # {} PROVE FALSE
  OBVIOUS
<1>1. PICK n \in T : \A m \in T : n <= m
  <2>1. T \in SUBSET (0 .. N)
    OBVIOUS
  <2> HIDE DEF T
  <2> QED
    BY <2>1, LeastElement
<1>2. n \in 1 .. N /\ (n = 1 \/ (n - 1 \in 1 .. N /\ n - 1 \notin T))
  BY <1>1
<1> QED
  BY <1>1, <1>2

\* A sequence without repetition, and the number of its elements.
LEMMA ElementsCounted ==
    ASSUME NEW S, NEW n \in Nat, NEW f, \A i, j \in 1 .. n : f[i] = f[j] => i = j,
           \A i \in 1 .. n : f[i] \in S, \A x \in S : \E i \in 1 .. n : f[i] = x
    PROVE  Cardinality(S) = n /\ IsFiniteSet(S)
<1> DEFINE g == [i \in 1 .. n |-> f[i]]
<1>1. g \in [1 .. n -> S] /\ \A i \in 1 .. n : g[i] = f[i]
  OBVIOUS
<1> HIDE DEF g
<1>2. g \in Bijection(1 .. n, S)
  BY <1>1 DEF Bijection, Injection, Surjection, IsInjective
<1>3. ExistsBijection(1 .. n, S)
  BY <1>2 DEF ExistsBijection
<1> QED
  BY <1>3, FS_CountingElements, FS_NatBijection

\* The word that leads to the k-th node of the list of q, and to its last node.
Word(S, q, k) == IF k = 1 THEN metaHead[q] ELSE nextMeta[S[q][k - 1]]

LastWord(S, q) == Word(S, q, Len(S[q]))

\* What a node's constructor leaves in its next_.
EndOf(m) == GetMetaAddr(ExtractMetaCnt(m), NULL)

InList(S, n) == \E q \in Queues : \E k \in 1 .. Len(S[q]) : S[q][k] = n

\* S[q] is the list of q, the dummy first; the lists share no node.
ListsInv(S) ==
    /\ \A q \in Queues : phase[q] = "ready" <=> Len(S[q]) > 0
    /\ \A q \in Queues : \A k \in 1 .. Len(S[q]) :
         /\ GetRealAddr(Word(S, q, k)) = S[q][k]
         /\ nextId[S[q][k]] = q
         /\ S[q][k] \in inUse
         /\ k = Len(S[q]) => nextMeta[S[q][k]] = EndOf(LastWord(S, q))
         /\ k # 1 => data[S[q][k]] \in Values
    /\ \A q, r \in Queues : \A i \in 1 .. Len(S[q]), j \in 1 .. Len(S[r]) :
         S[q][i] = S[r][j] => q = r /\ i = j

Ctor     == {"ctor", "ctorNext"}
Built    == {"enqTail", "enqId", "enqMeta", "enqHelp", "enqLink"}
Building == {"enqNext"} \cup Built
Swings   == {"enqHelp", "enqSwing", "deqHelp"}
Advances == {"deqHelp", "deqData", "deqCas"}

\* Where a thread holds the words it read from metaTail_, from metaHead_ and from next_.
HasTail == Swings \cup Advances \cup {"enqId", "enqMeta", "enqLink", "deqHead", "deqNext"}
HasHead == Advances \cup {"deqNext", "deqFree"}
HasNext == Advances \cup {"enqHelp"}

\* The tail is the last node, or the one before it, and then the Enqueue that linked
\* the last node has yet to swing the tail.
Lagging(S, q) == metaTail[q] # LastWord(S, q)

TailInv(S) ==
    \A q \in Queues : phase[q] = "ready" /\ Lagging(S, q) =>
      /\ Len(S[q]) >= 2 /\ metaTail[q] = Word(S, q, Len(S[q]) - 1)
      /\ \E t \in Threads :
           loc[t].queue = q /\ pc[t] = "enqSwing" /\ loc[t].tail = metaTail[q]

\* Words that the tail and the head have still to reach are in nobody's hands ...
Ahead(S, t) ==
    LET q == loc[t].queue
    IN  pc[t] # "idle" /\ phase[q] = "ready" =>
          /\ Lagging(S, q) => loc[t].tail # LastWord(S, q)
          /\ \A k \in 2 .. Len(S[q]) : loc[t].head # Word(S, q, k)

\* ... and neither is the word an Enqueue is going to link.
BuildInv ==
    \A t, u \in Threads :
      pc[u] \in Building /\ pc[t] # "idle" /\ loc[t].queue = loc[u].queue =>
        loc[t].tail # loc[u].new /\ loc[t].head # loc[u].new

\* Who is about to swing the tail it read knows the last word, if the tail is still
\* that one.
Swing(S, t) ==
    LET q == loc[t].queue
    IN  pc[t] \in Swings /\ loc[t].tail = metaTail[q] =>
          /\ Lagging(S, q)
          /\ LastWord(S, q) = IF pc[t] = "enqSwing" THEN loc[t].new ELSE loc[t].next

\* Who is about to advance the head it read knows the next word and, in the end, the
\* value behind it, if the head is still that one.
Advance(S, t) ==
    LET q == loc[t].queue
    IN  pc[t] \in Advances /\ loc[t].head = metaHead[q] =>
          /\ Len(S[q]) >= 2 /\ loc[t].next = Word(S, q, 2)
          /\ pc[t] = "deqCas" => loc[t].val = data[S[q][2]]

\* A node that looks like the end of a list, and that someone once read as a tail, is in
\* a list or about to be linked to one.
End(S, t) ==
    pc[t] # "idle" /\ loc[t].tail # ZeroMeta
      /\ GetRealAddr(nextMeta[GetRealAddr(loc[t].tail)]) = NULL =>
        \/ InList(S, GetRealAddr(loc[t].tail))
        \/ \E u \in Threads :
             pc[u] \in Built /\ GetRealAddr(loc[u].new) = GetRealAddr(loc[t].tail)

\* What a thread knows by where it is.
Knows(t) ==
    LET q == loc[t].queue
        n == GetRealAddr(loc[t].new)
    IN  /\ pc[t] = "idle" <=> q = NULL
        /\ pc[t] \in Ctor => phase[q] = "new"
        /\ pc[t] \notin Ctor \cup {"idle"} => phase[q] = "ready"
        /\ pc[t] \in Ctor \cup {"idle", "enq", "enqNext", "deqUndo", "enqCount"} =>
             loc[t].tail = ZeroMeta /\ loc[t].head = ZeroMeta
        /\ pc[t] \in Building \cup {"ctorNext"} => n # NULL /\ nextId[n] = q
        /\ pc[t] \in Building => data[n] = loc[t].val
        /\ pc[t] \in Building \cup {"enq"} => loc[t].val \in Values
        /\ pc[t] \in Built => nextMeta[n] = EndOf(loc[t].new)
        /\ pc[t] \in HasTail => GetRealAddr(loc[t].tail) # NULL
        /\ pc[t] \in HasHead => GetRealAddr(loc[t].head) # NULL
        /\ pc[t] \in HasNext => GetRealAddr(loc[t].next) # NULL
        /\ pc[t] = "enqLink" => loc[t].id = q /\ loc[t].next = EndOf(loc[t].tail)
        /\ pc[t] = "deqHelp" => loc[t].head = loc[t].tail
        /\ pc[t] = "deqFree" =>
             loc[t].val \in Values /\ GetRealAddr(nextMeta[GetRealAddr(loc[t].head)]) # NULL

\* A queue under construction has one caller.
CtorInv ==
    \A t, u \in Threads :
      pc[t] \in Ctor /\ pc[u] # "idle" /\ loc[u].queue = loc[t].queue => u = t

PrivateInv(S) ==
    /\ \A t \in Threads : Private(t) \subseteq inUse
    /\ \A t \in Threads : \A n \in Private(t) : ~InList(S, n)
    /\ \A t, u \in Threads : Private(t) \cap Private(u) # {} => t = u
    /\ \A n \in inUse : InList(S, n) \/ \E t \in Threads : n \in Private(t)

Threadwise(S) ==
    \A t \in Threads : Knows(t) /\ Ahead(S, t) /\ Swing(S, t) /\ Advance(S, t) /\ End(S, t)

Structure(S) ==
    /\ TypeOK /\ ListsInv(S) /\ TailInv(S) /\ BuildInv /\ Threadwise(S)
    /\ CtorInv /\ PrivateInv(S)

Pending  == DeqLoop \cup {"enqSwing", "enqCount"}
Claiming == Pending \cup {"deqUndo"}

CountInv(S) ==
    \A q \in Queues :
      /\ phase[q] = "new" => num[q] = 0
      /\ phase[q] = "ready" =>
           /\ num[q] = Len(S[q]) - 1 - Cardinality(At(q, Claiming))
           /\ Cardinality(At(q, Pending)) <= Len(S[q]) - 1

Lists == [Queues -> Seq(Nodes)]

QueueInv == \E S \in Lists : Structure(S) /\ CountInv(S)

-------------------------------------------------------------------------------
LEMMA WordFacts ==
    /\ NULL \notin Nodes /\ NULL \notin Queues /\ NoValue \notin Values
    /\ ZeroMeta \in Words /\ GetRealAddr(ZeroMeta) = NULL
    /\ \A m \in Words : /\ GetRealAddr(m) \in Nodes \cup {NULL} /\ ExtractMetaCnt(m) \in Counters
                        /\ EndOf(m) \in Words /\ GetRealAddr(EndOf(m)) = NULL
    /\ \A m, w \in Words : EndOf(m) = EndOf(w) /\ GetRealAddr(m) = GetRealAddr(w) => m = w
    /\ \A c \in Counters, a \in Nodes \cup {NULL} :
         LET m == GetMetaAddr(c, a)
         IN  m \in Words /\ GetRealAddr(m) = a /\ ExtractMetaCnt(m) = c
    /\ \A c \in Counters : IncCnt(c) \in Counters
<1>1. 0 \in Counters /\ \A c \in Counters : IncCnt(c) \in Counters
  BY CounterAssumption DEF Counters, IncCnt
<1>2. \A m, w \in Words : EndOf(m) = EndOf(w) /\ GetRealAddr(m) = GetRealAddr(w) => m = w
  <2> TAKE m, w \in Words
  <2> HAVE EndOf(m) = EndOf(w) /\ GetRealAddr(m) = GetRealAddr(w)
  <2>1. EndOf(m).cnt = EndOf(w).cnt
    OBVIOUS
  <2>2. m.cnt = w.cnt /\ m.addr = w.addr
    BY <2>1 DEF EndOf, ExtractMetaCnt, GetRealAddr, GetMetaAddr
  <2> QED
    BY <2>2 DEF Words, MetaAddrs
<1> QED
  BY QueueAssumption, <1>1, <1>2
     DEF Words, MetaAddrs, ZeroMeta, GetMetaAddr, GetRealAddr, ExtractMetaCnt, EndOf

\* What a list is made of.
LEMMA ListFacts ==
    ASSUME TypeOK, NEW S \in Lists, ListsInv(S)
    PROVE  /\ \A q \in Queues : S[q] \in Seq(Nodes) /\ Len(S[q]) \in Nat
           /\ \A q \in Queues : phase[q] = "ready" => Len(S[q]) >= 1
           /\ \A q \in Queues : \A k \in 1 .. Len(S[q]) :
                /\ Word(S, q, k) \in Words /\ GetRealAddr(Word(S, q, k)) = S[q][k]
                /\ S[q][k] \in Nodes /\ S[q][k] # NULL /\ Word(S, q, k) # ZeroMeta
                /\ S[q][k] \in inUse /\ InList(S, S[q][k])
           /\ \A q \in Queues : \A i, j \in 1 .. Len(S[q]) :
                Word(S, q, i) = Word(S, q, j) => i = j
<1>1. \A q \in Queues : S[q] \in Seq(Nodes) /\ Len(S[q]) \in Nat
  BY DEF Lists
<1>2. ASSUME NEW q \in Queues, NEW k \in 1 .. Len(S[q])
      PROVE  /\ Word(S, q, k) \in Words /\ GetRealAddr(Word(S, q, k)) = S[q][k]
             /\ S[q][k] \in Nodes /\ S[q][k] # NULL /\ Word(S, q, k) # ZeroMeta
             /\ S[q][k] \in inUse /\ InList(S, S[q][k])
  <2>1. S[q][k] \in Nodes /\ (k # 1 => S[q][k - 1] \in Nodes)
    BY <1>1
  <2>2. Word(S, q, k) \in Words
    BY <2>1 DEF TypeOK, Word
  <2>3. GetRealAddr(Word(S, q, k)) = S[q][k] /\ S[q][k] \in inUse
    BY DEF ListsInv
  <2> QED
    BY <2>1, <2>2, <2>3, WordFacts DEF InList
<1>3. \A q \in Queues : phase[q] = "ready" => Len(S[q]) >= 1
  BY <1>1 DEF ListsInv
<1>4. \A q \in Queues : \A i, j \in 1 .. Len(S[q]) : Word(S, q, i) = Word(S, q, j) => i = j
  BY <1>2 DEF ListsInv
<1> QED
  BY <1>1, <1>2, <1>3, <1>4

\* How the nodes of a list are linked.
LEMMA LinkFacts ==
    ASSUME TypeOK, NEW S \in Lists, ListsInv(S), NEW q \in Queues, NEW k \in 1 .. Len(S[q])
    PROVE  /\ GetRealAddr(nextMeta[S[q][k]]) = NULL <=> k = Len(S[q])
           /\ k = Len(S[q]) => nextMeta[S[q][k]] = EndOf(LastWord(S, q))
           /\ k # Len(S[q]) => /\ k + 1 \in 1 .. Len(S[q])
                               /\ nextMeta[S[q][k]] = Word(S, q, k + 1)
<1>1. Len(S[q]) \in Nat
  BY ListFacts
<1>2. CASE k = Len(S[q])
  <2>1. k \in 1 .. Len(S[q])
    OBVIOUS
  <2>2. nextMeta[S[q][k]] = EndOf(LastWord(S, q)) /\ LastWord(S, q) \in Words
    BY <1>2, <2>1, ListFacts DEF ListsInv, LastWord
  <2> QED
    BY <1>2, <2>2, WordFacts
<1>3. CASE k # Len(S[q])
  <2>1. k + 1 \in 1 .. Len(S[q]) /\ k + 1 # 1 /\ k + 1 - 1 = k
    BY <1>1, <1>3
  <2>2. nextMeta[S[q][k]] = Word(S, q, k + 1)
    BY <2>1 DEF Word
  <2>3. GetRealAddr(Word(S, q, k + 1)) # NULL
    BY <2>1, ListFacts
  <2> QED
    BY <1>3, <2>1, <2>2, <2>3
<1> QED
  BY <1>2, <1>3

\* The tail is the last node or the one before it.
LEMMA TailPlace ==
    ASSUME NEW S \in Lists, Structure(S), NEW q \in Queues, phase[q] = "ready"
    PROVE  \E k \in 1 .. Len(S[q]) :
             /\ metaTail[q] = Word(S, q, k)
             /\ k = Len(S[q]) \/ k + 1 = Len(S[q])
             /\ Lagging(S, q) <=> k # Len(S[q])
<1>1. Len(S[q]) \in Nat /\ Len(S[q]) >= 1
  BY ListFacts DEF Structure
<1>2. CASE Lagging(S, q)
  <2>1. Len(S[q]) >= 2 /\ metaTail[q] = Word(S, q, Len(S[q]) - 1)
    BY <1>2 DEF Structure, TailInv
  <2>2. /\ Len(S[q]) - 1 \in 1 .. Len(S[q]) /\ Len(S[q]) - 1 # Len(S[q])
        /\ Len(S[q]) - 1 + 1 = Len(S[q])
    BY <1>1, <2>1
  <2> QED
    BY <1>2, <2>1, <2>2
<1>3. CASE ~Lagging(S, q)
  <2>1. Len(S[q]) \in 1 .. Len(S[q])
    BY <1>1
  <2> QED
    BY <1>3, <2>1 DEF Lagging, LastWord
<1> QED
  BY <1>2, <1>3

-------------------------------------------------------------------------------
\* A step of t that leaves the lists alone.  It may move lagging tails to the last word.
Unlinked(S) ==
    /\ UNCHANGED <<phase, metaHead, nodeVars, inUse>>
    /\ \A q \in Queues : \/ metaTail'[q] = metaTail[q]
                         \/ phase[q] = "ready" /\ Lagging(S, q) /\ metaTail'[q] = LastWord(S, q)

\* What t takes with it: only words it could read, and its node.
Carries(t) ==
    /\ \A u \in Threads \ {t} : pc'[u] = pc[u] /\ loc'[u] = loc[u]
    /\ loc'[t].tail \in {ZeroMeta, loc[t].tail, metaTail[loc'[t].queue]}
    /\ loc'[t].head \in {ZeroMeta, loc[t].head, metaHead[loc'[t].queue]}
    /\ \/ pc[t] # "idle" /\ loc'[t].queue = loc[t].queue
       \/ loc'[t].tail = ZeroMeta /\ loc'[t].head = ZeroMeta
    /\ pc'[t] \in Building => pc[t] \in Building
    /\ pc[t] \in Built => pc'[t] \in Built /\ loc'[t].queue = loc[t].queue
    /\ pc[t] \in Building => pc'[t] \in Building /\ loc'[t].new = loc[t].new /\ loc'[t].queue = loc[t].queue
    /\ Private(t)' = Private(t)
    /\ pc'[t] # "idle" => \/ pc[t] # "idle" /\ loc'[t].queue = loc[t].queue
                          \/ phase[loc'[t].queue] = "ready"
                          \/ Within(loc'[t].queue) = {}
    /\ pc'[t] \in Ctor => \/ pc[t] \in Ctor /\ loc'[t].queue = loc[t].queue
                          \/ Within(loc'[t].queue) = {}
    /\ pc[t] = "enqSwing" => metaTail'[loc[t].queue] # loc[t].tail

LEMMA LocalKeeps ==
    ASSUME NEW S \in Lists, Structure(S), NEW t \in Threads, TypeOK',
           Unlinked(S), Carries(t), Knows(t)', Swing(S, t)', Advance(S, t)'
    PROVE  Structure(S)'
<1>1. TypeOK /\ ListsInv(S) /\ \A u \in Threads : Knows(u)
  BY DEF Structure, Threadwise
<1>2. /\ phase' = phase /\ metaHead' = metaHead /\ data' = data /\ nextId' = nextId
      /\ nextMeta' = nextMeta /\ inUse' = inUse
  BY DEF Unlinked, nodeVars
<1>3. /\ \A q \in Queues : \A k \in 1 .. Len(S[q]) : Word(S, q, k)' = Word(S, q, k)
      /\ \A q \in Queues : LastWord(S, q)' = LastWord(S, q)
      /\ \A n : InList(S, n)' = InList(S, n)
  BY <1>2 DEF Word, LastWord, InList
<1>4. ListsInv(S)'
  BY <1>1, <1>2 DEF ListsInv, Word, LastWord
<1>5. ASSUME NEW q \in Queues, Lagging(S, q)'
      PROVE  metaTail'[q] = metaTail[q] /\ Lagging(S, q)
  BY <1>3, <1>5 DEF Unlinked, Lagging
<1>6. /\ \A u \in Threads \ {t} : pc'[u] = pc[u] /\ loc'[u] = loc[u]
      /\ \A u \in Threads : Private(u)' = Private(u)
  <2>1. ASSUME NEW u \in Threads, u # t PROVE Private(u)' = Private(u)
    BY <2>1 DEF Carries, Private
  <2> QED
    BY <2>1 DEF Carries
<1>7. \A u \in Threads : /\ loc[u].queue \in Queues \cup {NULL}
                         /\ loc'[u].queue \in Queues \cup {NULL}
                         /\ pc[u] # "idle" => loc[u].queue \in Queues
                         /\ pc'[u] # "idle" => loc'[u].queue \in Queues
  <2>1. \A u \in Threads : loc[u].queue \in Queues \cup {NULL} /\ loc'[u].queue \in Queues \cup {NULL}
    BY <1>1 DEF TypeOK, Locals
  <2>2. \A u \in Threads : pc[u] # "idle" => loc[u].queue # NULL
    BY <1>1 DEF Knows
  <2>3. pc'[t] # "idle" => loc'[t].queue # NULL
    BY DEF Knows
  <2> QED
    BY <1>6, <2>1, <2>2, <2>3
<1>8. TailInv(S)'
  <2> SUFFICES ASSUME NEW q \in Queues, phase[q] = "ready", Lagging(S, q)'
               PROVE  /\ Len(S[q]) >= 2 /\ metaTail'[q] = Word(S, q, Len(S[q]) - 1)'
                      /\ \E u \in Threads : /\ loc'[u].queue = q /\ pc'[u] = "enqSwing"
                                            /\ loc'[u].tail = metaTail'[q]
    BY <1>2 DEF TailInv
  <2>1. Lagging(S, q) /\ metaTail'[q] = metaTail[q]
    BY <1>5
  <2>2. Len(S[q]) >= 2 /\ metaTail[q] = Word(S, q, Len(S[q]) - 1)
    BY <2>1 DEF Structure, TailInv
  <2>3. Len(S[q]) - 1 \in 1 .. Len(S[q])
    BY <1>1, <2>2, ListFacts
  <2>4. PICK u \in Threads : loc[u].queue = q /\ pc[u] = "enqSwing" /\ loc[u].tail = metaTail[q]
    BY <2>1 DEF Structure, TailInv
  <2>5. u # t
    BY <2>1, <2>4 DEF Carries
  <2> QED
    BY <1>3, <1>6, <2>1, <2>2, <2>3, <2>4, <2>5
<1>9. ASSUME NEW u \in Threads PROVE Ahead(S, u)'
  <2>0. PICK q : q = loc'[u].queue
    OBVIOUS
  <2> SUFFICES ASSUME pc'[u] # "idle", phase[q] = "ready"
               PROVE  /\ metaTail'[q] # LastWord(S, q) => loc'[u].tail # LastWord(S, q)
                      /\ \A k \in 2 .. Len(S[q]) : loc'[u].head # Word(S, q, k)
    BY <1>2, <2>0 DEF Ahead, Lagging, LastWord, Word
  <2> q \in Queues
    BY <1>7, <2>0
  <2>1. /\ Len(S[q]) \in 1 .. Len(S[q]) /\ LastWord(S, q) # ZeroMeta
        /\ \A k \in 2 .. Len(S[q]) : Word(S, q, k) # ZeroMeta /\ Word(S, q, k) # metaHead[q]
    <3>1. Len(S[q]) \in Nat /\ Len(S[q]) >= 1
      BY <1>1, ListFacts
    <3>2. 1 \in 1 .. Len(S[q]) /\ metaHead[q] = Word(S, q, 1)
      BY <3>1 DEF Word
    <3>3. \A k \in 2 .. Len(S[q]) : k \in 1 .. Len(S[q]) /\ k # 1
      BY <3>1
    <3> QED
      BY <1>1, <3>1, <3>2, <3>3, ListFacts DEF LastWord
  <2>2. pc[u] # "idle" /\ loc[u].queue = q =>
          /\ metaTail'[q] # LastWord(S, q) => loc[u].tail # LastWord(S, q)
          /\ \A k \in 2 .. Len(S[q]) : loc[u].head # Word(S, q, k)
    BY DEF Structure, Threadwise, Ahead, Unlinked, Lagging
  <2>3. CASE u # t
    BY <1>6, <2>0, <2>2, <2>3
  <2>4. CASE u = t
    <3>1. metaTail'[q] # LastWord(S, q) => metaTail[q] # LastWord(S, q)
      BY DEF Unlinked, Lagging
    <3> QED
      BY <2>0, <2>1, <2>2, <2>4, <3>1 DEF Carries
  <2> QED
    BY <2>3, <2>4
<1>10. BuildInv'
  <2> SUFFICES ASSUME NEW u \in Threads, NEW w \in Threads, pc'[w] \in Building,
                      pc'[u] # "idle", loc'[u].queue = loc'[w].queue
               PROVE  loc'[u].tail # loc'[w].new /\ loc'[u].head # loc'[w].new
    BY DEF BuildInv
  <2>1. pc[w] \in Building /\ loc[w].new = loc'[w].new /\ loc[w].queue = loc'[w].queue
    BY <1>6 DEF Carries
  <2>2. pc[u] # "idle" /\ loc[u].queue = loc[w].queue =>
          loc[u].tail # loc[w].new /\ loc[u].head # loc[w].new
    BY <2>1 DEF Structure, BuildInv
  <2>3. /\ phase[loc[w].queue] = "ready" /\ loc[w].queue \in Queues
        /\ loc[w].new # ZeroMeta /\ GetRealAddr(loc[w].new) \in Private(w) /\ loc[w].new \in Words
    <3>1. pc[w] \notin Ctor \cup {"idle"} /\ pc[w] \in Building \cup {"ctorNext"}
      BY <2>1 DEF Building, Built, Ctor
    <3>2. phase[loc[w].queue] = "ready" /\ GetRealAddr(loc[w].new) # NULL
      BY <1>1, <3>1 DEF Knows
    <3>3. loc[w].queue \in Queues /\ loc[w].new \in Words
      BY <1>1, <1>7, <3>1 DEF TypeOK, Locals
    <3>4. GetRealAddr(loc[w].new) \in Private(w)
      BY <2>1 DEF Private, Building, Built
    <3> QED
      BY <3>2, <3>3, <3>4, WordFacts
  <2>4. ASSUME NEW k \in 1 .. Len(S[loc[w].queue]) PROVE Word(S, loc[w].queue, k) # loc[w].new
    <3>1. InList(S, GetRealAddr(Word(S, loc[w].queue, k)))
      BY <1>1, <2>3, ListFacts
    <3> QED
      BY <2>3, <3>1 DEF Structure, PrivateInv
  <2>5. metaTail[loc[w].queue] # loc[w].new /\ metaHead[loc[w].queue] # loc[w].new
    <3>1. Len(S[loc[w].queue]) \in Nat /\ Len(S[loc[w].queue]) >= 1
      BY <1>1, <2>3, ListFacts
    <3>2. \E k \in 1 .. Len(S[loc[w].queue]) : metaTail[loc[w].queue] = Word(S, loc[w].queue, k)
      BY <2>3, TailPlace
    <3>3. 1 \in 1 .. Len(S[loc[w].queue]) /\ metaHead[loc[w].queue] = Word(S, loc[w].queue, 1)
      BY <3>1 DEF Word
    <3> QED
      BY <2>4, <3>2, <3>3
  <2>6. CASE u # t
    BY <1>6, <2>1, <2>2, <2>6
  <2>7. CASE u = t
    BY <2>1, <2>2, <2>3, <2>5, <2>7 DEF Carries
  <2> QED
    BY <2>6, <2>7
<1>11. ASSUME NEW u \in Threads, u # t
       PROVE  Knows(u)' /\ Swing(S, u)' /\ Advance(S, u)'
  <2>1. Knows(u)'
    BY <1>1, <1>2, <1>6, <1>11 DEF Knows
  <2>2. Swing(S, u)'
    <3>0. PICK q : q = loc[u].queue
      OBVIOUS
    <3> SUFFICES ASSUME pc[u] \in Swings, loc[u].tail = metaTail'[q]
                 PROVE  /\ metaTail'[q] # LastWord(S, q)
                        /\ LastWord(S, q) = IF pc[u] = "enqSwing" THEN loc[u].new ELSE loc[u].next
      BY <1>2, <1>6, <1>11, <3>0 DEF Swing, Lagging, LastWord, Word
    <3>1. q \in Queues /\ pc[u] # "idle" /\ phase[q] = "ready"
      BY <1>1, <1>7, <3>0 DEF Swings, Knows, Ctor
    <3>2. CASE metaTail'[q] = metaTail[q]
      BY <3>0, <3>1, <3>2 DEF Structure, Threadwise, Swing, Lagging
    <3>3. CASE Lagging(S, q) /\ metaTail'[q] = LastWord(S, q)
      BY <3>0, <3>1, <3>3 DEF Structure, Threadwise, Ahead
    <3> QED
      BY <3>1, <3>2, <3>3 DEF Unlinked
  <2>3. Advance(S, u)'
    BY <1>2, <1>6, <1>11 DEF Structure, Threadwise, Advance, Word
  <2> QED
    BY <2>1, <2>2, <2>3
<1>12. ASSUME NEW u \in Threads PROVE End(S, u)'
  <2> SUFFICES ASSUME pc'[u] # "idle", loc'[u].tail # ZeroMeta,
                      GetRealAddr(nextMeta[GetRealAddr(loc'[u].tail)]) = NULL
               PROVE  \/ InList(S, GetRealAddr(loc'[u].tail))
                      \/ \E w \in Threads : /\ pc'[w] \in Built
                                            /\ GetRealAddr(loc'[w].new) = GetRealAddr(loc'[u].tail)
    BY <1>2, <1>3 DEF End
  <2>1. \A w \in Threads : pc[w] \in Built => pc'[w] \in Built /\ loc'[w].new = loc[w].new
    BY <1>6 DEF Carries, Building
  <2>2. ASSUME pc[u] # "idle", loc'[u].tail = loc[u].tail
        PROVE  \/ InList(S, GetRealAddr(loc'[u].tail))
               \/ \E w \in Threads : /\ pc'[w] \in Built
                                     /\ GetRealAddr(loc'[w].new) = GetRealAddr(loc'[u].tail)
    BY <2>1, <2>2 DEF Structure, Threadwise, End
  <2>3. ASSUME u = t, loc'[t].tail = metaTail[loc'[t].queue] PROVE InList(S, GetRealAddr(loc'[u].tail))
    <3> DEFINE q == loc'[t].queue
    <3>1. q \in Queues /\ phase[q] = "ready"
      <4>1. q \in Queues
        BY <1>7, <2>3
      <4>2. pc'[t] \notin Ctor \cup {"idle"}
        BY <2>3 DEF Knows
      <4> QED
        BY <1>2, <4>1, <4>2 DEF Knows
    <3> HIDE DEF q
    <3>2. \E k \in 1 .. Len(S[q]) : metaTail[q] = Word(S, q, k)
      BY <3>1, TailPlace
    <3>3. InList(S, GetRealAddr(metaTail[q]))
      BY <1>1, <3>1, <3>2, ListFacts
    <3> QED
      BY <2>3, <3>3 DEF q
  <2>4. CASE u # t
    BY <1>6, <2>2, <2>4
  <2>5. CASE u = t
    BY <2>2, <2>3, <2>5 DEF Carries
  <2> QED
    BY <2>4, <2>5
<1>13. CtorInv'
  <2> SUFFICES ASSUME NEW u \in Threads, NEW w \in Threads, pc'[u] \in Ctor, pc'[w] # "idle",
                      loc'[w].queue = loc'[u].queue
               PROVE  w = u
    BY DEF CtorInv
  <2>1. CASE u # t /\ w # t
    BY <1>6, <2>1 DEF Structure, CtorInv
  <2>2. CASE u # t /\ w = t
    <3>1. pc[u] \in Ctor /\ loc[u].queue = loc'[t].queue /\ u \in Within(loc'[t].queue)
      BY <1>6, <2>2 DEF Within
    <3>2. phase[loc'[t].queue] = "new"
      BY <1>1, <3>1 DEF Knows
    <3>3. pc[t] # "idle" /\ loc'[t].queue = loc[t].queue
      BY <2>2, <3>1, <3>2 DEF Carries
    <3> QED
      BY <2>2, <3>1, <3>3 DEF Structure, CtorInv
  <2>3. CASE u = t /\ w # t
    <3>1. pc[w] # "idle" /\ w \in Within(loc'[t].queue) /\ loc[w].queue = loc'[t].queue
      BY <1>6, <2>3 DEF Within
    <3>2. pc[t] \in Ctor /\ loc'[t].queue = loc[t].queue
      BY <2>3, <3>1 DEF Carries
    <3> QED
      BY <2>3, <3>1, <3>2 DEF Structure, CtorInv
  <2> QED
    BY <2>1, <2>2, <2>3
<1>14. PrivateInv(S)'
  BY <1>2, <1>3, <1>6 DEF Structure, PrivateInv
<1>15. Threadwise(S)'
  BY <1>9, <1>11, <1>12 DEF Threadwise
<1> QED
  BY <1>4, <1>8, <1>10, <1>13, <1>14, <1>15 DEF Structure

-------------------------------------------------------------------------------
\* What the locals are before a step, and after one that sets some of them.
LEMMA LocalsTyped ==
    ASSUME TypeOK, NEW t \in Threads
    PROVE  /\ loc[t].queue \in Queues \cup {NULL} /\ loc[t].id \in Queues \cup {NULL}
           /\ loc[t].new \in Words /\ loc[t].tail \in Words /\ loc[t].head \in Words
           /\ loc[t].next \in Words /\ loc[t].val \in Values \cup {NoValue}
BY DEF TypeOK, Locals

LEMMA Moved ==
    ASSUME TypeOK, NEW t \in Threads, NEW label \in Labels, Goto(t, label)
    PROVE  /\ pc' \in [Threads -> Labels] /\ pc'[t] = label
           /\ \A u \in Threads \ {t} : pc'[u] = pc[u]
BY DEF TypeOK, Goto

LEMMA Forgotten ==
    ASSUME TypeOK, NEW t \in Threads, Forget(t)
    PROVE  /\ loc' \in [Threads -> Locals]
           /\ \A u \in Threads \ {t} : loc'[u] = loc[u]
           /\ loc'[t].queue = loc[t].queue /\ loc'[t].new = loc[t].new
           /\ loc'[t].tail = ZeroMeta /\ loc'[t].head = ZeroMeta
           /\ loc'[t].id = NULL /\ loc'[t].next = ZeroMeta /\ loc'[t].val = loc[t].val
<1>1. loc \in [Threads -> Locals] /\ loc[t] \in Locals
  BY DEF TypeOK
<1>2. loc' = [loc EXCEPT ![t] = [@ EXCEPT !.tail = ZeroMeta, !.head = ZeroMeta, !.id = NULL,
                                          !.next = ZeroMeta]]
  BY <1>1 DEF Forget, Locals
<1>3. [loc[t] EXCEPT !.tail = ZeroMeta, !.head = ZeroMeta, !.id = NULL, !.next = ZeroMeta] \in Locals
  BY <1>1, WordFacts DEF Locals
<1> QED
  BY <1>1, <1>2, <1>3 DEF Locals

LEMMA Returned ==
    ASSUME TypeOK, NEW t \in Threads, Return(t)
    PROVE  /\ pc' \in [Threads -> Labels] /\ pc'[t] = "idle"
           /\ loc' \in [Threads -> Locals]
           /\ \A u \in Threads \ {t} : pc'[u] = pc[u] /\ loc'[u] = loc[u]
           /\ loc'[t].queue = NULL /\ loc'[t].tail = ZeroMeta /\ loc'[t].head = ZeroMeta
           /\ loc'[t].new = ZeroMeta /\ loc'[t].next = ZeroMeta
<1>1. NoLocals \in Locals
  BY WordFacts DEF NoLocals, Locals
<1>2. loc' \in [Threads -> Locals] /\ loc'[t] = NoLocals /\ \A u \in Threads \ {t} : loc'[u] = loc[u]
  BY <1>1 DEF TypeOK, Return
<1>3. Goto(t, "idle") /\ "idle" \in Labels
  BY DEF Return, Labels
<1> QED
  BY <1>2, <1>3, Moved DEF NoLocals

\* A thread left with its queue and nothing else.
LEMMA OnlyQueue ==
    ASSUME TypeOK, NEW t \in Threads,
           loc' = [loc EXCEPT ![t] = [NoLocals EXCEPT !.queue = loc[t].queue]]
    PROVE  /\ loc' \in [Threads -> Locals] /\ \A u \in Threads \ {t} : loc'[u] = loc[u]
           /\ loc'[t].queue = loc[t].queue
           /\ loc'[t].tail = ZeroMeta /\ loc'[t].head = ZeroMeta
<1>1. loc[t].queue \in Queues \cup {NULL}
  BY LocalsTyped
<1>2. [NoLocals EXCEPT !.queue = loc[t].queue] \in Locals
  BY <1>1, WordFacts DEF NoLocals, Locals
<1> QED
  BY <1>2 DEF TypeOK, NoLocals

\* Nothing is private to a thread that has no node of its own.
Empty(t) == pc[t] \notin Building \cup {"ctorNext", "deqFree"}

LEMMA PrivateFacts ==
    ASSUME NEW t \in Threads
    PROVE  /\ Empty(t) => Private(t) = {}
           /\ pc[t] \in Building \cup {"ctorNext"} => Private(t) = {GetRealAddr(loc[t].new)}
           /\ pc[t] = "deqFree" => Private(t) = {GetRealAddr(loc[t].head)}
BY DEF Empty, Private, Building, Built

\* t loads metaTail_ or metaHead_.
LEMMA ReadKeeps ==
    ASSUME NEW S \in Lists, Structure(S), NEW t \in Threads,
           EnqReadTail(t) \/ DeqReadTail(t) \/ DeqReadHead(t)
    PROVE  Structure(S)'
<1>1. /\ TypeOK /\ ListsInv(S) /\ Knows(t) /\ loc[t].queue \in Queues
      /\ phase[loc[t].queue] = "ready"
  BY LocalsTyped DEF Structure, Threadwise, Knows, Ctor, EnqReadTail, DeqReadTail, DeqReadHead
<1>2. PICK q \in Queues : q = loc[t].queue
  BY <1>1
<1>3. Len(S[q]) >= 1 /\ Len(S[q]) \in Nat /\ 1 \in 1 .. Len(S[q])
  BY <1>1, <1>2, ListFacts
<1>4. /\ GetRealAddr(metaTail[q]) # NULL /\ metaTail[q] # ZeroMeta /\ metaTail[q] \in Words
      /\ GetRealAddr(metaHead[q]) # NULL /\ metaHead[q] # ZeroMeta /\ metaHead[q] \in Words
  <2>1. metaHead[q] = Word(S, q, 1) /\ \E k \in 1 .. Len(S[q]) : metaTail[q] = Word(S, q, k)
    BY <1>1, <1>2, TailPlace DEF Word
  <2> QED
    BY <1>1, <1>3, <2>1, ListFacts
<1>5. /\ pc' \in [Threads -> Labels] /\ \A u \in Threads \ {t} : pc'[u] = pc[u]
      /\ \/ pc[t] = "enqTail" /\ pc'[t] = "enqId"
         \/ pc[t] = "deqTail" /\ pc'[t] = "deqHead"
         \/ pc[t] = "deqHead" /\ pc'[t] = "deqNext"
  <2>1. {"enqId", "deqHead", "deqNext"} \subseteq Labels
    BY DEF Labels
  <2> QED
    BY <1>1, <2>1, Moved DEF EnqReadTail, DeqReadTail, DeqReadHead
<1>6. /\ loc' \in [Threads -> Locals]
      /\ \A u \in Threads \ {t} : loc'[u] = loc[u]
      /\ loc'[t].queue = q /\ loc'[t].new = loc[t].new /\ loc'[t].val = loc[t].val
      /\ loc'[t].tail = IF pc[t] = "deqHead" THEN loc[t].tail ELSE metaTail[q]
      /\ loc'[t].head = IF pc[t] = "deqHead" THEN metaHead[q] ELSE loc[t].head
  BY <1>1, <1>2, <1>4 DEF TypeOK, Locals, EnqReadTail, DeqReadTail, DeqReadHead
<1>7. UNCHANGED <<queueVars, nodeVars, inUse>>
  BY DEF EnqReadTail, DeqReadTail, DeqReadHead
<1>8. TypeOK' /\ Unlinked(S)
  BY <1>1, <1>5, <1>6, <1>7 DEF TypeOK, Unlinked, queueVars, nodeVars
<1>9. Private(t)' = Private(t)
  BY <1>5, <1>6 DEF Private
<1>10. Carries(t)
  BY <1>2, <1>5, <1>6, <1>7, <1>9 DEF Carries, Building, Built, Ctor, queueVars
<1>11. Knows(t)'
  BY <1>1, <1>2, <1>4, <1>5, <1>6, <1>7
     DEF Knows, Ctor, Building, Built, HasTail, HasHead, HasNext, Swings, Advances, queueVars, nodeVars
<1>12. Swing(S, t)' /\ Advance(S, t)'
  BY <1>5 DEF Swing, Advance, Swings, Advances
<1> QED
  BY <1>8, <1>10, <1>11, <1>12, LocalKeeps

\* t loads the first word of next_.
LEMMA EnqReadIdKeeps ==
    ASSUME NEW S \in Lists, Structure(S), NEW t \in Threads, EnqReadId(t)
    PROVE  Structure(S)'
<1>1. TypeOK /\ Knows(t) /\ pc[t] = "enqId" /\ UNCHANGED <<queueVars, nodeVars, inUse>>
  BY DEF Structure, Threadwise, EnqReadId
<1>2. GetRealAddr(loc[t].tail) \in Nodes
  BY <1>1, LocalsTyped, WordFacts DEF Knows, HasTail
<1>3. /\ pc' \in [Threads -> Labels] /\ pc'[t] = "enqMeta"
      /\ \A u \in Threads \ {t} : pc'[u] = pc[u]
  BY <1>1, Moved DEF EnqReadId, Labels
<1>4. /\ loc' \in [Threads -> Locals] /\ \A u \in Threads \ {t} : loc'[u] = loc[u]
      /\ loc'[t].queue = loc[t].queue /\ loc'[t].new = loc[t].new /\ loc'[t].val = loc[t].val
      /\ loc'[t].tail = loc[t].tail /\ loc'[t].head = loc[t].head
  BY <1>1, <1>2 DEF TypeOK, Locals, EnqReadId
<1>5. TypeOK' /\ Unlinked(S)
  BY <1>1, <1>3, <1>4 DEF TypeOK, Unlinked, queueVars, nodeVars
<1>6. Private(t)' = Private(t)
  BY <1>1, <1>3, <1>4 DEF Private
<1>7. Carries(t)
  BY <1>1, <1>3, <1>4, <1>6 DEF Carries, Building, Built, Ctor, queueVars
<1>8. Knows(t)'
  BY <1>1, <1>3, <1>4
     DEF Knows, Ctor, Building, Built, HasTail, HasHead, HasNext, Swings, Advances, queueVars, nodeVars
<1>9. Swing(S, t)' /\ Advance(S, t)'
  BY <1>3 DEF Swing, Advance, Swings, Advances
<1> QED
  BY <1>5, <1>7, <1>8, <1>9, LocalKeeps

\* A tail that is still the tail, and whose next_ is not null, is the last node but one.
LEMMA SeenLagging ==
    ASSUME NEW S \in Lists, Structure(S), NEW q \in Queues, phase[q] = "ready",
           GetRealAddr(nextMeta[GetRealAddr(metaTail[q])]) # NULL
    PROVE  Lagging(S, q) /\ nextMeta[GetRealAddr(metaTail[q])] = LastWord(S, q)
<1>1. PICK k \in 1 .. Len(S[q]) : /\ metaTail[q] = Word(S, q, k)
                                  /\ k = Len(S[q]) \/ k + 1 = Len(S[q])
                                  /\ Lagging(S, q) <=> k # Len(S[q])
  BY TailPlace
<1>2. GetRealAddr(metaTail[q]) = S[q][k]
  BY <1>1, ListFacts DEF Structure
<1>3. k # Len(S[q]) /\ nextMeta[S[q][k]] = Word(S, q, k + 1)
  BY <1>2, LinkFacts DEF Structure
<1> QED
  BY <1>1, <1>2, <1>3 DEF LastWord

\* t goes back to the top of its loop.
LEMMA RetryKeeps ==
    ASSUME NEW S \in Lists, Structure(S), NEW t \in Threads,
           UNCHANGED <<queueVars, nodeVars, inUse>>,
           \/ pc[t] \in {"enqMeta", "enqLink"} /\ Goto(t, "enqTail") /\ Forget(t)
           \/ pc[t] = "deqNext" /\ Goto(t, "deqTail") /\ Forget(t)
           \/ /\ pc[t] = "deqCas" /\ Goto(t, "deqTail")
              /\ loc' = [loc EXCEPT ![t] = [NoLocals EXCEPT !.queue = loc[t].queue]]
    PROVE  Structure(S)'
<1>1. TypeOK /\ Knows(t)
  BY DEF Structure, Threadwise
<1>2. /\ pc' \in [Threads -> Labels] /\ \A u \in Threads \ {t} : pc'[u] = pc[u]
      /\ \/ pc[t] \in {"enqMeta", "enqLink"} /\ pc'[t] = "enqTail" /\ Forget(t)
         \/ pc[t] \in {"deqNext", "deqCas"} /\ pc'[t] = "deqTail"
  <2>1. {"enqTail", "deqTail"} \subseteq Labels
    BY DEF Labels
  <2> QED
    BY <1>1, <2>1, Moved
<1>3. /\ loc' \in [Threads -> Locals] /\ \A u \in Threads \ {t} : loc'[u] = loc[u]
      /\ loc'[t].queue = loc[t].queue /\ loc'[t].tail = ZeroMeta /\ loc'[t].head = ZeroMeta
      /\ pc'[t] = "enqTail" => loc'[t].new = loc[t].new /\ loc'[t].val = loc[t].val
  BY <1>1, <1>2, Forgotten, OnlyQueue
<1>4. TypeOK' /\ Unlinked(S)
  BY <1>1, <1>2, <1>3 DEF TypeOK, Unlinked, queueVars, nodeVars
<1>5. Private(t)' = Private(t)
  BY <1>2, <1>3 DEF Private
<1>6. Carries(t)
  BY <1>2, <1>3, <1>5 DEF Carries, Building, Built, Ctor
<1>7. Knows(t)'
  BY <1>1, <1>2, <1>3
     DEF Knows, Ctor, Building, Built, HasTail, HasHead, HasNext, Swings, Advances, queueVars, nodeVars
<1>8. Swing(S, t)' /\ Advance(S, t)'
  BY <1>2 DEF Swing, Advance, Swings, Advances
<1> QED
  BY <1>4, <1>6, <1>7, <1>8, LocalKeeps

\* t loads the second word of next_.
LEMMA EnqReadMetaKeeps ==
    ASSUME NEW S \in Lists, Structure(S), NEW t \in Threads, EnqReadMeta(t)
    PROVE  Structure(S)'
<1>1. TypeOK /\ Knows(t) /\ pc[t] = "enqMeta" /\ UNCHANGED <<queueVars, nodeVars, inUse>>
  BY DEF Structure, Threadwise, EnqReadMeta
<1>2. GetRealAddr(loc[t].tail) \in Nodes /\ loc[t].queue \in Queues /\ phase[loc[t].queue] = "ready"
  BY <1>1, LocalsTyped, WordFacts DEF Knows, HasTail, Ctor
<1>3. PICK next \in Words : next = nextMeta[GetRealAddr(loc[t].tail)]
  BY <1>1, <1>2 DEF TypeOK
<1>4. CASE Forget(t) /\ Goto(t, "enqTail")
  BY <1>1, <1>4, RetryKeeps
<1>5. CASE /\ loc' = [loc EXCEPT ![t].next = next]
           /\ \/ Goto(t, "enqHelp") /\ GetRealAddr(next) # NULL
              \/ /\ Goto(t, "enqLink") /\ GetRealAddr(next) = NULL
                 /\ ExtractMetaCnt(loc[t].tail) = ExtractMetaCnt(next) /\ loc[t].id = loc[t].queue
  <2>1. /\ pc' \in [Threads -> Labels] /\ \A u \in Threads \ {t} : pc'[u] = pc[u]
        /\ \/ pc'[t] = "enqHelp" /\ GetRealAddr(next) # NULL
           \/ /\ pc'[t] = "enqLink" /\ GetRealAddr(next) = NULL
              /\ ExtractMetaCnt(loc[t].tail) = ExtractMetaCnt(next) /\ loc[t].id = loc[t].queue
    <3>1. {"enqHelp", "enqLink"} \subseteq Labels
      BY DEF Labels
    <3> QED
      BY <1>1, <1>5, <3>1, Moved
  <2>2. /\ loc' \in [Threads -> Locals] /\ \A u \in Threads \ {t} : loc'[u] = loc[u]
        /\ loc'[t].queue = loc[t].queue /\ loc'[t].new = loc[t].new /\ loc'[t].val = loc[t].val
        /\ loc'[t].tail = loc[t].tail /\ loc'[t].head = loc[t].head /\ loc'[t].id = loc[t].id
        /\ loc'[t].next = next
    BY <1>1, <1>5 DEF TypeOK, Locals
  <2>3. TypeOK' /\ Unlinked(S)
    BY <1>1, <2>1, <2>2 DEF TypeOK, Unlinked, queueVars, nodeVars
  <2>4. Private(t)' = Private(t)
    BY <1>1, <2>1, <2>2 DEF Private
  <2>5. Carries(t)
    BY <1>1, <2>1, <2>2, <2>4 DEF Carries, Building, Built, Ctor, queueVars
  <2>6. pc'[t] = "enqLink" => next = EndOf(loc[t].tail)
    BY <2>1, WordFacts DEF EndOf, GetMetaAddr, ExtractMetaCnt, GetRealAddr, Words, MetaAddrs
  <2>7. Knows(t)'
    BY <1>1, <1>2, <2>1, <2>2, <2>6
       DEF Knows, Ctor, Building, Built, HasTail, HasHead, HasNext, Swings, Advances, queueVars, nodeVars
  <2>8. Swing(S, t)'
    <3>1. pc'[t] = "enqHelp" /\ loc[t].tail = metaTail[loc[t].queue] =>
            Lagging(S, loc[t].queue) /\ next = LastWord(S, loc[t].queue)
      BY <1>2, <1>3, <2>1, SeenLagging
    <3> QED
      BY <1>1, <2>1, <2>2, <3>1 DEF Swing, Swings, Lagging, LastWord, Word, queueVars, nodeVars
  <2>9. Advance(S, t)'
    BY <2>1 DEF Advance, Advances
  <2> QED
    BY <2>3, <2>5, <2>7, <2>8, <2>9, LocalKeeps
<1> QED
  BY <1>3, <1>4, <1>5 DEF EnqReadMeta

LEMMA TagTaken ==
    ASSUME TypeOK, NEW t \in Threads, NEW q \in Queues, NEW v \in Values \cup {NoValue},
           NEW label, GetTag(t, q, v, label)
    PROVE  /\ loc' \in [Threads -> Locals] /\ \A u \in Threads \ {t} : loc'[u] = loc[u]
           /\ loc'[t].queue = q /\ loc'[t].tail = loc[t].tail /\ loc'[t].head = loc[t].head
           /\ loc'[t].val = v
<1>1. loc \in [Threads -> Locals] /\ loc[t] \in Locals
  BY DEF TypeOK
<1>2. PICK m \in Words : m = GetMetaAddr(metaCnt[q], NULL)
  BY WordFacts DEF TypeOK
<1>3. loc' = [loc EXCEPT ![t] = [@ EXCEPT !.queue = q, !.val = v, !.new = m]]
  BY <1>1, <1>2 DEF GetTag, Locals
<1>4. [loc[t] EXCEPT !.queue = q, !.val = v, !.new = m] \in Locals
  BY <1>1 DEF Locals
<1> QED
  BY <1>1, <1>3, <1>4 DEF Locals

\* A call begins with words that are null, and not on a queue under construction.
LEMMA BeginKeeps ==
    ASSUME NEW S \in Lists, Structure(S), NEW t \in Threads, NEW q \in Queues,
           \/ BeginConstruct(t, q)
           \/ \E v \in Values : BeginEnqueue(t, q, v)
           \/ DeqReserve(t, q)
    PROVE  Structure(S)'
<1>1. TypeOK /\ Knows(t) /\ pc[t] = "idle"
  BY DEF Structure, Threadwise, BeginConstruct, BeginEnqueue, DeqReserve, GetTag
<1>2. UNCHANGED <<phase, metaTail, metaHead, nodeVars, inUse>>
  BY DEF BeginConstruct, BeginEnqueue, DeqReserve, GetTag
<1>3. metaCnt' \in [Queues -> Counters] /\ num' \in [Queues -> Int]
  <2>1. metaCnt \in [Queues -> Counters] /\ num \in [Queues -> Int] /\ num[q] - 1 \in Int
    BY <1>1 DEF TypeOK
  <2>2. IncCnt(metaCnt[q]) \in Counters
    BY <2>1, WordFacts
  <2>3. \/ metaCnt' = [metaCnt EXCEPT ![q] = IncCnt(metaCnt[q])] /\ num' = num
        \/ num' = [num EXCEPT ![q] = num[q] - 1] /\ metaCnt' = metaCnt
    BY DEF BeginConstruct, BeginEnqueue, DeqReserve, GetTag
  <2> QED
    BY <2>1, <2>2, <2>3
<1>4. /\ pc' \in [Threads -> Labels] /\ \A u \in Threads \ {t} : pc'[u] = pc[u]
      /\ \/ pc'[t] = "ctor" /\ phase[q] = "new" /\ Within(q) = {}
         \/ pc'[t] \in {"enq", "deqUndo", "deqTail"} /\ phase[q] = "ready"
  <2>1. {"ctor", "enq", "deqUndo", "deqTail"} \subseteq Labels
    BY DEF Labels
  <2>2. CASE BeginConstruct(t, q)
    BY <1>1, <2>1, <2>2, Moved DEF BeginConstruct, GetTag
  <2>3. CASE \E v \in Values : BeginEnqueue(t, q, v)
    BY <1>1, <2>1, <2>3, Moved DEF BeginEnqueue, GetTag
  <2>4. CASE DeqReserve(t, q)
    BY <1>1, <2>1, <2>4, Moved DEF DeqReserve
  <2> QED
    BY <2>2, <2>3, <2>4
<1>5. /\ loc' \in [Threads -> Locals] /\ \A u \in Threads \ {t} : loc'[u] = loc[u]
      /\ loc'[t].queue = q /\ loc'[t].tail = loc[t].tail /\ loc'[t].head = loc[t].head
      /\ pc'[t] = "enq" => loc'[t].val \in Values
  <2>1. loc \in [Threads -> Locals] /\ loc[t] \in Locals
    BY <1>1 DEF TypeOK
  <2>2. CASE BeginConstruct(t, q)
    <3>1. GetTag(t, q, NoValue, "ctor") /\ pc'[t] = "ctor"
      BY <1>1, <2>2 DEF BeginConstruct, GetTag, Goto, TypeOK
    <3> QED
      BY <1>1, <3>1, TagTaken
  <2>3. CASE \E v \in Values : BeginEnqueue(t, q, v)
    <3>1. PICK v \in Values : GetTag(t, q, v, "enq")
      BY <2>3 DEF BeginEnqueue
    <3> QED
      BY <1>1, <3>1, TagTaken
  <2>4. CASE DeqReserve(t, q)
    <3>1. loc' = [loc EXCEPT ![t] = [@ EXCEPT !.queue = q]]
      BY <2>1, <2>4 DEF DeqReserve, Locals
    <3>2. [loc[t] EXCEPT !.queue = q] \in Locals
      BY <2>1 DEF Locals
    <3>3. pc'[t] # "enq"
      BY <1>1, <2>4 DEF DeqReserve, Goto, TypeOK
    <3> QED
      BY <2>1, <3>1, <3>2, <3>3 DEF Locals
  <2> QED
    BY <2>2, <2>3, <2>4
<1>6. loc[t].queue = NULL /\ loc[t].tail = ZeroMeta /\ loc[t].head = ZeroMeta
  BY <1>1 DEF Knows
<1>7. TypeOK' /\ Unlinked(S)
  BY <1>1, <1>2, <1>3, <1>4, <1>5 DEF TypeOK, Unlinked, nodeVars
<1>8. Private(t)' = Private(t)
  BY <1>1, <1>4 DEF Private
<1>9. Carries(t)
  BY <1>1, <1>2, <1>4, <1>5, <1>6, <1>8 DEF Carries, Building, Built, Ctor
<1>10. Knows(t)'
  BY <1>1, <1>2, <1>4, <1>5, <1>6, WordFacts
     DEF Knows, Ctor, Building, Built, HasTail, HasHead, HasNext, Swings, Advances, nodeVars
<1>11. Swing(S, t)' /\ Advance(S, t)'
  BY <1>4 DEF Swing, Advance, Swings, Advances
<1> QED
  BY <1>7, <1>9, <1>10, <1>11, LocalKeeps

\* The two calls that end with num_.
LEMMA EndCallKeeps ==
    ASSUME NEW S \in Lists, Structure(S), NEW t \in Threads, EnqCount(t) \/ DeqUndo(t)
    PROVE  Structure(S)'
<1>1. /\ TypeOK /\ Knows(t) /\ pc[t] \in {"enqCount", "deqUndo"} /\ Return(t)
      /\ UNCHANGED <<phase, metaTail, metaHead, metaCnt, nodeVars, inUse>>
  BY DEF Structure, Threadwise, EnqCount, DeqUndo
<1>2. num' \in [Queues -> Int]
  BY <1>1 DEF TypeOK, EnqCount, DeqUndo
<1>3. TypeOK' /\ Unlinked(S)
  BY <1>1, <1>2, Returned DEF TypeOK, Unlinked, nodeVars
<1>4. Private(t)' = Private(t)
  BY <1>1, Returned DEF Private
<1>5. Carries(t)
  BY <1>1, <1>4, Returned DEF Carries, Building, Built, Ctor
<1>6. Knows(t)'
  BY <1>1, Returned DEF Knows, Ctor, Building, Built, HasTail, HasHead, HasNext, Swings, Advances
<1>7. Swing(S, t)' /\ Advance(S, t)'
  BY <1>1, Returned DEF Swing, Advance, Swings, Advances
<1> QED
  BY <1>3, <1>5, <1>6, <1>7, LocalKeeps

\* The CAS of metaTail_ does not fail for want of the right word.
LEMMA SwingMoves ==
    ASSUME NEW S \in Lists, Structure(S), NEW t \in Threads, pc[t] \in Swings, NEW m,
           m = IF pc[t] = "enqSwing" THEN loc[t].new ELSE loc[t].next, SwingTail(t, m)
    PROVE  /\ metaTail' \in [Queues -> Words]
           /\ \A q \in Queues :
                \/ metaTail'[q] = metaTail[q]
                \/ phase[q] = "ready" /\ Lagging(S, q) /\ metaTail'[q] = LastWord(S, q)
           /\ metaTail'[loc[t].queue] # loc[t].tail
<1>1. TypeOK /\ Knows(t) /\ Swing(S, t)
  BY DEF Structure, Threadwise
<1>2. loc[t].queue \in Queues /\ phase[loc[t].queue] = "ready" /\ m \in Words
  BY <1>1, LocalsTyped DEF Knows, Swings, Ctor
<1>3. CASE metaTail[loc[t].queue] = loc[t].tail
  <2>1. Lagging(S, loc[t].queue) /\ LastWord(S, loc[t].queue) = m
    BY <1>1, <1>3 DEF Swing
  <2>2. metaTail' = [metaTail EXCEPT ![loc[t].queue] = m]
    BY <1>3 DEF SwingTail
  <2> QED
    BY <1>1, <1>2, <1>3, <2>1, <2>2 DEF TypeOK, Lagging
<1>4. CASE metaTail[loc[t].queue] # loc[t].tail
  BY <1>1, <1>4 DEF SwingTail, TypeOK
<1> QED
  BY <1>3, <1>4

LEMMA HelpKeeps ==
    ASSUME NEW S \in Lists, Structure(S), NEW t \in Threads, EnqHelp(t) \/ DeqHelp(t)
    PROVE  Structure(S)'
<1>1. /\ TypeOK /\ Knows(t) /\ SwingTail(t, loc[t].next) /\ Forget(t)
      /\ UNCHANGED <<phase, metaHead, metaCnt, num, nodeVars, inUse>>
  BY DEF Structure, Threadwise, EnqHelp, DeqHelp
<1>2. /\ pc' \in [Threads -> Labels] /\ \A u \in Threads \ {t} : pc'[u] = pc[u]
      /\ \/ pc[t] = "enqHelp" /\ pc'[t] = "enqTail"
         \/ pc[t] = "deqHelp" /\ pc'[t] = "deqTail"
  <2>1. {"enqTail", "deqTail"} \subseteq Labels
    BY DEF Labels
  <2> QED
    BY <1>1, <2>1, Moved DEF EnqHelp, DeqHelp
<1>3. /\ metaTail' \in [Queues -> Words]
      /\ \A q \in Queues :
           \/ metaTail'[q] = metaTail[q]
           \/ phase[q] = "ready" /\ Lagging(S, q) /\ metaTail'[q] = LastWord(S, q)
  BY <1>1, <1>2, SwingMoves DEF Swings
<1>4. TypeOK' /\ Unlinked(S)
  BY <1>1, <1>2, <1>3, Forgotten DEF TypeOK, Unlinked, nodeVars
<1>5. Private(t)' = Private(t)
  BY <1>1, <1>2, Forgotten DEF Private
<1>6. Carries(t)
  BY <1>1, <1>2, <1>5, Forgotten DEF Carries, Building, Built, Ctor
<1>7. Knows(t)'
  BY <1>1, <1>2, Forgotten
     DEF Knows, Ctor, Building, Built, HasTail, HasHead, HasNext, Swings, Advances, nodeVars
<1>8. Swing(S, t)' /\ Advance(S, t)'
  BY <1>2 DEF Swing, Advance, Swings, Advances
<1> QED
  BY <1>4, <1>6, <1>7, <1>8, LocalKeeps

LEMMA EnqSwingKeeps ==
    ASSUME NEW S \in Lists, Structure(S), NEW t \in Threads, EnqSwing(t)
    PROVE  Structure(S)'
<1>1. /\ TypeOK /\ Knows(t) /\ SwingTail(t, loc[t].new) /\ pc[t] = "enqSwing"
      /\ UNCHANGED <<phase, metaHead, metaCnt, num, nodeVars, inUse>>
  BY DEF Structure, Threadwise, EnqSwing
<1>2. /\ pc' \in [Threads -> Labels] /\ pc'[t] = "enqCount"
      /\ \A u \in Threads \ {t} : pc'[u] = pc[u]
  BY <1>1, Moved DEF EnqSwing, Labels
<1>3. /\ loc' \in [Threads -> Locals] /\ \A u \in Threads \ {t} : loc'[u] = loc[u]
      /\ loc'[t].queue = loc[t].queue /\ loc'[t].tail = ZeroMeta /\ loc'[t].head = ZeroMeta
  BY <1>1, OnlyQueue DEF EnqSwing
<1>4. /\ metaTail' \in [Queues -> Words]
      /\ \A q \in Queues :
           \/ metaTail'[q] = metaTail[q]
           \/ phase[q] = "ready" /\ Lagging(S, q) /\ metaTail'[q] = LastWord(S, q)
      /\ metaTail'[loc[t].queue] # loc[t].tail
  BY <1>1, SwingMoves DEF Swings
<1>5. TypeOK' /\ Unlinked(S)
  BY <1>1, <1>2, <1>3, <1>4 DEF TypeOK, Unlinked, nodeVars
<1>6. Private(t)' = Private(t)
  BY <1>1, <1>2 DEF Private
<1>7. Carries(t)
  BY <1>1, <1>2, <1>3, <1>4, <1>6 DEF Carries, Building, Built, Ctor
<1>8. Knows(t)'
  BY <1>1, <1>2, <1>3
     DEF Knows, Ctor, Building, Built, HasTail, HasHead, HasNext, Swings, Advances, nodeVars
<1>9. Swing(S, t)' /\ Advance(S, t)'
  BY <1>2 DEF Swing, Advance, Swings, Advances
<1> QED
  BY <1>5, <1>7, <1>8, <1>9, LocalKeeps

\* t loads the second word of next_ of the head it read.
LEMMA DeqReadNextKeeps ==
    ASSUME NEW S \in Lists, Structure(S), NEW t \in Threads, DeqReadNext(t)
    PROVE  Structure(S)'
<1>1. TypeOK /\ Knows(t) /\ pc[t] = "deqNext" /\ UNCHANGED <<queueVars, nodeVars, inUse>>
  BY DEF Structure, Threadwise, DeqReadNext
<1>2. /\ GetRealAddr(loc[t].head) \in Nodes /\ loc[t].queue \in Queues
      /\ phase[loc[t].queue] = "ready"
  BY <1>1, LocalsTyped, WordFacts DEF Knows, HasHead, Ctor
<1>3. PICK next \in Words : next = nextMeta[GetRealAddr(loc[t].head)]
  BY <1>1, <1>2 DEF TypeOK
<1>4. PICK q \in Queues : q = loc[t].queue
  BY <1>2
<1>5. CASE Forget(t) /\ Goto(t, "deqTail")
  BY <1>1, <1>5, RetryKeeps
<1>6. CASE /\ GetRealAddr(next) # NULL /\ loc' = [loc EXCEPT ![t].next = next]
           /\ Goto(t, IF loc[t].tail = loc[t].head THEN "deqHelp" ELSE "deqData")
  <2>1. /\ pc' \in [Threads -> Labels] /\ \A u \in Threads \ {t} : pc'[u] = pc[u]
        /\ \/ pc'[t] = "deqHelp" /\ loc[t].tail = loc[t].head
           \/ pc'[t] = "deqData"
    <3>1. {"deqHelp", "deqData"} \subseteq Labels
      BY DEF Labels
    <3> QED
      BY <1>1, <1>6, <3>1, Moved
  <2>2. /\ loc' \in [Threads -> Locals] /\ \A u \in Threads \ {t} : loc'[u] = loc[u]
        /\ loc'[t].queue = loc[t].queue /\ loc'[t].new = loc[t].new /\ loc'[t].val = loc[t].val
        /\ loc'[t].tail = loc[t].tail /\ loc'[t].head = loc[t].head /\ loc'[t].next = next
    BY <1>1, <1>6 DEF TypeOK, Locals
  <2>3. TypeOK' /\ Unlinked(S)
    BY <1>1, <2>1, <2>2 DEF TypeOK, Unlinked, queueVars, nodeVars
  <2>4. Private(t)' = Private(t)
    BY <1>1, <2>1 DEF Private
  <2>5. Carries(t)
    BY <1>1, <2>1, <2>2, <2>4 DEF Carries, Building, Built, Ctor, queueVars
  <2>6. Knows(t)'
    BY <1>1, <1>2, <1>6, <2>1, <2>2
       DEF Knows, Ctor, Building, Built, HasTail, HasHead, HasNext, Swings, Advances, queueVars, nodeVars
  <2>7. Swing(S, t)'
    <3>1. pc'[t] = "deqHelp" /\ loc[t].tail = metaTail[q] =>
            Lagging(S, q) /\ next = LastWord(S, q)
      BY <1>2, <1>3, <1>4, <1>6, <2>1, SeenLagging
    <3> QED
      BY <1>1, <1>4, <2>1, <2>2, <3>1 DEF Swing, Swings, Lagging, LastWord, Word, queueVars, nodeVars
  <2>8. Advance(S, t)'
    <3>1. ASSUME loc[t].head = metaHead[q] PROVE Len(S[q]) >= 2 /\ next = Word(S, q, 2)
      <4>1. Len(S[q]) \in Nat /\ Len(S[q]) >= 1 /\ 1 \in 1 .. Len(S[q])
        BY <1>2, <1>4, ListFacts DEF Structure
      <4>2. GetRealAddr(loc[t].head) = S[q][1]
        BY <3>1, <4>1, ListFacts DEF Structure, Word
      <4>3. 1 # Len(S[q]) /\ nextMeta[S[q][1]] = Word(S, q, 2)
        BY <1>3, <1>6, <4>1, <4>2, LinkFacts DEF Structure, Word
      <4>4. \A n \in Nat : n >= 1 /\ n # 1 => n >= 2
        OBVIOUS
      <4> QED
        BY <1>3, <4>1, <4>2, <4>3, <4>4
    <3> QED
      BY <1>1, <1>4, <2>1, <2>2, <3>1 DEF Advance, Advances, Word, queueVars, nodeVars
  <2> QED
    BY <2>3, <2>5, <2>6, <2>7, <2>8, LocalKeeps
<1> QED
  BY <1>3, <1>5, <1>6 DEF DeqReadNext

\* t copies the value behind the head.
LEMMA DeqReadDataKeeps ==
    ASSUME NEW S \in Lists, Structure(S), NEW t \in Threads, DeqReadData(t)
    PROVE  Structure(S)'
<1>1. /\ TypeOK /\ Knows(t) /\ Advance(S, t) /\ pc[t] = "deqData"
      /\ UNCHANGED <<queueVars, nodeVars, inUse>>
  BY DEF Structure, Threadwise, DeqReadData
<1>2. PICK q \in Queues : q = loc[t].queue
  BY <1>1, LocalsTyped DEF Knows
<1>3. PICK v \in Values \cup {NoValue} : v = data[GetRealAddr(loc[t].next)]
  BY <1>1, LocalsTyped, WordFacts DEF Knows, HasNext, Advances, TypeOK
<1>4. /\ pc' \in [Threads -> Labels] /\ pc'[t] = "deqCas"
      /\ \A u \in Threads \ {t} : pc'[u] = pc[u]
  BY <1>1, Moved DEF DeqReadData, Labels
<1>5. /\ loc' \in [Threads -> Locals] /\ \A u \in Threads \ {t} : loc'[u] = loc[u]
      /\ loc'[t].queue = loc[t].queue /\ loc'[t].tail = loc[t].tail
      /\ loc'[t].head = loc[t].head /\ loc'[t].next = loc[t].next /\ loc'[t].val = v
  BY <1>1, <1>3 DEF TypeOK, Locals, DeqReadData
<1>6. TypeOK' /\ Unlinked(S)
  BY <1>1, <1>4, <1>5 DEF TypeOK, Unlinked, queueVars, nodeVars
<1>7. Private(t)' = Private(t)
  BY <1>1, <1>4 DEF Private
<1>8. Carries(t)
  BY <1>1, <1>4, <1>5, <1>7 DEF Carries, Building, Built, Ctor, queueVars
<1>9. Knows(t)'
  BY <1>1, <1>4, <1>5
     DEF Knows, Ctor, Building, Built, HasTail, HasHead, HasNext, Swings, Advances, queueVars, nodeVars
<1>10. Swing(S, t)'
  BY <1>4 DEF Swing, Swings
<1>11. Advance(S, t)'
  <2>1. ASSUME loc[t].head = metaHead[q]
        PROVE  Len(S[q]) >= 2 /\ loc[t].next = Word(S, q, 2) /\ v = data[S[q][2]]
    <3>1. Len(S[q]) >= 2 /\ loc[t].next = Word(S, q, 2)
      BY <1>1, <1>2, <2>1 DEF Advance, Advances
    <3>2. 2 \in 1 .. Len(S[q])
      BY <3>1, ListFacts DEF Structure
    <3>3. GetRealAddr(loc[t].next) = S[q][2]
      BY <3>1, <3>2, ListFacts DEF Structure
    <3> QED
      BY <1>3, <3>1, <3>3
  <2> QED
    BY <1>1, <1>2, <1>4, <1>5, <2>1 DEF Advance, Word, queueVars, nodeVars
<1> QED
  BY <1>6, <1>8, <1>9, <1>10, <1>11, LocalKeeps

-------------------------------------------------------------------------------
\* The nodes threads hold are apart from the lists and from one another.
LEMMA HeldApart ==
    ASSUME NEW S \in Lists, Structure(S)
    PROVE  /\ \A u \in Threads : pc[u] \in Building \cup {"ctorNext"} =>
                /\ GetRealAddr(loc[u].new) \in Nodes /\ GetRealAddr(loc[u].new) \in inUse
                /\ ~InList(S, GetRealAddr(loc[u].new))
           /\ \A u \in Threads : pc[u] = "deqFree" =>
                /\ GetRealAddr(loc[u].head) \in Nodes /\ GetRealAddr(loc[u].head) \in inUse
                /\ ~InList(S, GetRealAddr(loc[u].head))
           /\ \A u, w \in Threads : u # w =>
                /\ pc[u] \in Building \cup {"ctorNext"} /\ pc[w] \in Building \cup {"ctorNext"} =>
                     GetRealAddr(loc[u].new) # GetRealAddr(loc[w].new)
                /\ pc[u] \in Building \cup {"ctorNext"} /\ pc[w] = "deqFree" =>
                     GetRealAddr(loc[u].new) # GetRealAddr(loc[w].head)
                /\ pc[u] = "deqFree" /\ pc[w] = "deqFree" =>
                     GetRealAddr(loc[u].head) # GetRealAddr(loc[w].head)
<1>1. /\ \A u \in Threads : Private(u) \subseteq inUse
      /\ \A u \in Threads : \A n \in Private(u) : ~InList(S, n)
      /\ \A u, w \in Threads : Private(u) \cap Private(w) # {} => u = w
      /\ inUse \subseteq Nodes
  BY DEF Structure, PrivateInv, TypeOK
<1> QED
  BY <1>1, PrivateFacts

LEMMA AllocNodeKeeps ==
    ASSUME NEW S \in Lists, Structure(S), NEW t \in Threads, AllocNode(t)
    PROVE  Structure(S)'
<1>1. /\ TypeOK /\ ListsInv(S) /\ (\A u \in Threads : Knows(u)) /\ pc[t] \in {"ctor", "enq"}
      /\ phase' = phase /\ metaTail' = metaTail /\ metaHead' = metaHead /\ metaCnt' = metaCnt
      /\ num' = num /\ nextMeta' = nextMeta
  BY DEF Structure, Threadwise, AllocNode, queueVars
<1>0. PICK n \in Nodes :
        /\ n \notin inUse /\ inUse' = inUse \cup {n}
        /\ NotReissued(loc[t].queue, GetMetaAddr(ExtractMetaCnt(loc[t].new), n))
        /\ loc' = [loc EXCEPT ![t].new = GetMetaAddr(ExtractMetaCnt(loc[t].new), n)]
        /\ data' = [data EXCEPT ![n] = loc[t].val]
        /\ nextId' = [nextId EXCEPT ![n] = loc[t].queue]
  BY DEF AllocNode, NodePool!Alloc
<1>2. PICK m :
        /\ m = GetMetaAddr(ExtractMetaCnt(loc[t].new), n)
        /\ n \notin inUse /\ inUse' = inUse \cup {n}
        /\ NotReissued(loc[t].queue, m)
        /\ loc' = [loc EXCEPT ![t].new = m]
        /\ data' = [data EXCEPT ![n] = loc[t].val]
        /\ nextId' = [nextId EXCEPT ![n] = loc[t].queue]
  BY <1>0
<1>3. m \in Words /\ GetRealAddr(m) = n /\ n # NULL /\ m # ZeroMeta
  BY <1>1, <1>2, LocalsTyped, WordFacts
<1>4. /\ pc' \in [Threads -> Labels] /\ \A u \in Threads \ {t} : pc'[u] = pc[u]
      /\ \/ pc[t] = "ctor" /\ pc'[t] = "ctorNext"
         \/ pc[t] = "enq" /\ pc'[t] = "enqNext"
  <2>1. {"ctorNext", "enqNext"} \subseteq Labels
    BY DEF Labels
  <2> QED
    BY <1>1, <2>1, Moved DEF AllocNode
<1>5. /\ loc' \in [Threads -> Locals] /\ \A u \in Threads \ {t} : loc'[u] = loc[u]
      /\ loc'[t].queue = loc[t].queue /\ loc'[t].new = m /\ loc'[t].val = loc[t].val
      /\ loc'[t].tail = loc[t].tail /\ loc'[t].head = loc[t].head
  BY <1>1, <1>2, <1>3 DEF TypeOK, Locals
<1>6. /\ data' \in [Nodes -> Values \cup {NoValue}] /\ nextId' \in [Nodes -> Queues \cup {NULL}]
      /\ data'[n] = loc[t].val /\ nextId'[n] = loc[t].queue
      /\ \A i \in Nodes \ {n} : data'[i] = data[i] /\ nextId'[i] = nextId[i]
  BY <1>1, <1>2, LocalsTyped DEF TypeOK
<1>7. TypeOK'
  BY <1>1, <1>2, <1>4, <1>5, <1>6 DEF TypeOK
<1>8. \A q \in Queues : \A k \in 1 .. Len(S[q]) : S[q][k] \in Nodes \ {n} /\ S[q][k] \in inUse
  BY <1>1, <1>2, ListFacts
<1>9. ListsInv(S)'
  BY <1>1, <1>2, <1>6, <1>8 DEF ListsInv, Word, LastWord
<1>10. TailInv(S)'
  <2>1. ASSUME NEW q \in Queues, NEW u \in Threads,
               loc[u].queue = q /\ pc[u] = "enqSwing" /\ loc[u].tail = metaTail[q]
        PROVE  loc'[u].queue = q /\ pc'[u] = "enqSwing" /\ loc'[u].tail = metaTail[q]
    BY <1>1, <1>4, <1>5, <2>1
  <2> QED
    BY <1>1, <2>1 DEF Structure, TailInv, Lagging, LastWord, Word
<1>11. \A u \in Threads : /\ pc'[u] # "idle" <=> pc[u] # "idle"
                          /\ loc'[u].queue = loc[u].queue
                          /\ loc'[u].tail = loc[u].tail /\ loc'[u].head = loc[u].head
  BY <1>1, <1>4, <1>5
<1>12. BuildInv'
  <2> SUFFICES ASSUME NEW u \in Threads, NEW w \in Threads, pc'[w] \in Building,
                      pc[u] # "idle", loc[u].queue = loc[w].queue
               PROVE  loc[u].tail # loc'[w].new /\ loc[u].head # loc'[w].new
    BY <1>11 DEF BuildInv
  <2>1. CASE w # t
    BY <1>4, <1>5, <2>1 DEF Structure, BuildInv
  <2>2. CASE w = t
    BY <1>2, <1>5, <2>2 DEF NotReissued, Within
  <2> QED
    BY <2>1, <2>2
<1>13. \A u \in Threads \ {t} : Knows(u)'
  <2> TAKE u \in Threads \ {t}
  <2>1. pc[u] \in Building \cup {"ctorNext"} => GetRealAddr(loc[u].new) \in Nodes \ {n}
    BY <1>2, HeldApart
  <2> QED
    BY <1>1, <1>4, <1>5, <1>6, <2>1 DEF Knows, Building
<1>14. Knows(t)'
  BY <1>1, <1>3, <1>4, <1>5, <1>6
     DEF Knows, Ctor, Building, Built, HasTail, HasHead, HasNext, Swings, Advances
<1>15. \A u \in Threads : Ahead(S, u)'
  BY <1>1, <1>11 DEF Structure, Threadwise, Ahead, Lagging, LastWord, Word
<1>16. \A u \in Threads : Swing(S, u)'
  BY <1>1, <1>4, <1>5 DEF Structure, Threadwise, Swing, Swings, Lagging, LastWord, Word
<1>17. \A u \in Threads : Advance(S, u)'
  <2> TAKE u \in Threads
  <2>1. pc[u] \in Advances => loc[u].queue \in Queues
    BY <1>1, LocalsTyped DEF Knows, Advances
  <2>2. \A q \in Queues : Len(S[q]) >= 2 => data'[S[q][2]] = data[S[q][2]]
    <3> TAKE q \in Queues
    <3> HAVE Len(S[q]) >= 2
    <3>1. 2 \in 1 .. Len(S[q])
      BY <1>1, ListFacts
    <3> QED
      BY <1>6, <1>8, <3>1
  <2> QED
    BY <1>1, <1>4, <1>5, <2>1, <2>2 DEF Structure, Threadwise, Advance, Advances, Word
<1>18. \A u \in Threads : End(S, u)'
  BY <1>1, <1>4, <1>5, <1>11 DEF Structure, Threadwise, End, InList, Built
<1>19. CtorInv'
  BY <1>4, <1>11 DEF Structure, CtorInv, Ctor
<1>20. PrivateInv(S)'
  <2>1. Private(t) = {} /\ Private(t)' = {n}
    BY <1>1, <1>3, <1>4, <1>5 DEF Private
  <2>2. \A u \in Threads \ {t} : Private(u)' = Private(u)
    BY <1>4, <1>5 DEF Private
  <2>3. \A i : InList(S, i)' <=> InList(S, i)
    BY DEF InList
  <2>4. ~InList(S, n)
    BY <1>8 DEF InList
  <2> QED
    BY <1>2, <2>1, <2>2, <2>3, <2>4 DEF Structure, PrivateInv
<1> QED
  BY <1>7, <1>9, <1>10, <1>12, <1>13, <1>14, <1>15, <1>16, <1>17, <1>18, <1>19, <1>20
     DEF Structure, Threadwise

LEMMA EnqBuiltKeeps ==
    ASSUME NEW S \in Lists, Structure(S), NEW t \in Threads, EnqBuilt(t)
    PROVE  Structure(S)'
<1>1. /\ TypeOK /\ ListsInv(S) /\ (\A u \in Threads : Knows(u)) /\ pc[t] = "enqNext"
      /\ phase' = phase /\ metaTail' = metaTail /\ metaHead' = metaHead /\ metaCnt' = metaCnt
      /\ num' = num /\ data' = data /\ nextId' = nextId /\ inUse' = inUse /\ loc' = loc
  BY DEF Structure, Threadwise, EnqBuilt, queueVars
<1>2. PICK n \in Nodes : n = GetRealAddr(loc[t].new) /\ n \in inUse /\ ~InList(S, n)
  BY <1>1, HeldApart DEF Building
<1>3. /\ nextMeta' \in [Nodes -> Words] /\ nextMeta'[n] = EndOf(loc[t].new)
      /\ \A i \in Nodes \ {n} : nextMeta'[i] = nextMeta[i]
  <2>1. nextMeta' = [nextMeta EXCEPT ![n] = EndOf(loc[t].new)]
    BY <1>2 DEF EnqBuilt, StoreNext, EndOf
  <2> QED
    BY <1>1, <2>1, LocalsTyped, WordFacts DEF TypeOK
<1>4. /\ pc' \in [Threads -> Labels] /\ pc'[t] = "enqTail"
      /\ \A u \in Threads \ {t} : pc'[u] = pc[u]
  BY <1>1, Moved DEF EnqBuilt, Labels
<1>5. TypeOK'
  BY <1>1, <1>3, <1>4 DEF TypeOK
<1>6. \A q \in Queues : \A k \in 1 .. Len(S[q]) :
        /\ S[q][k] \in Nodes \ {n} /\ Word(S, q, k)' = Word(S, q, k)
  <2> TAKE q \in Queues
  <2> TAKE k \in 1 .. Len(S[q])
  <2>1. \A j \in 1 .. Len(S[q]) : S[q][j] \in Nodes \ {n}
    BY <1>1, <1>2, ListFacts
  <2>2. k # 1 => k - 1 \in 1 .. Len(S[q])
    BY <1>1, ListFacts
  <2> QED
    BY <1>1, <1>3, <2>1, <2>2 DEF Word
<1>7. \A q \in Queues : /\ phase[q] = "ready" => LastWord(S, q)' = LastWord(S, q)
                        /\ Len(S[q]) > 0 => Len(S[q]) \in 1 .. Len(S[q])
  BY <1>1, <1>6, ListFacts DEF LastWord
<1>8. ListsInv(S)'
  <2>1. ASSUME NEW q \in Queues, NEW k \in 1 .. Len(S[q])
        PROVE  nextMeta'[S[q][k]] = nextMeta[S[q][k]] /\ LastWord(S, q)' = LastWord(S, q)
    BY <1>1, <1>3, <1>6, <1>7, ListFacts DEF LastWord
  <2> QED
    BY <1>1, <1>6, <2>1 DEF ListsInv
<1>9. \A q \in Queues : phase[q] = "ready" => (Lagging(S, q)' <=> Lagging(S, q))
  BY <1>1, <1>7 DEF Lagging
<1>10. TailInv(S)'
  <2> SUFFICES ASSUME NEW q \in Queues, phase[q] = "ready", Lagging(S, q)
               PROVE  /\ Len(S[q]) >= 2 /\ metaTail[q] = Word(S, q, Len(S[q]) - 1)'
                      /\ \E u \in Threads :
                           loc[u].queue = q /\ pc'[u] = "enqSwing" /\ loc[u].tail = metaTail[q]
    BY <1>1, <1>9 DEF TailInv
  <2>1. /\ Len(S[q]) >= 2 /\ metaTail[q] = Word(S, q, Len(S[q]) - 1)
        /\ \E u \in Threads :
             loc[u].queue = q /\ pc[u] = "enqSwing" /\ loc[u].tail = metaTail[q]
    BY DEF Structure, TailInv
  <2>2. Len(S[q]) - 1 \in 1 .. Len(S[q])
    BY <1>1, <2>1, ListFacts
  <2> QED
    BY <1>1, <1>4, <1>6, <2>1, <2>2
<1>11. BuildInv'
  <2>1. \A u \in Threads : /\ pc'[u] \in Building <=> pc[u] \in Building
                           /\ pc'[u] # "idle" <=> pc[u] # "idle"
    BY <1>1, <1>4 DEF Building, Built
  <2> QED
    BY <1>1, <2>1 DEF Structure, BuildInv
<1>12. \A u \in Threads \ {t} : Knows(u)'
  <2> TAKE u \in Threads \ {t}
  <2>1. /\ pc[u] \in Building => GetRealAddr(loc[u].new) \in Nodes \ {n}
        /\ pc[u] = "deqFree" => GetRealAddr(loc[u].head) \in Nodes \ {n}
    BY <1>1, <1>2, HeldApart DEF Building
  <2> QED
    BY <1>1, <1>3, <1>4, <2>1 DEF Knows, Building
<1>13. Knows(t)'
  BY <1>1, <1>2, <1>3, <1>4
     DEF Knows, Ctor, Building, Built, HasTail, HasHead, HasNext, Swings, Advances
<1>14. \A u \in Threads : pc[u] # "idle" => loc[u].queue \in Queues
  BY <1>1, LocalsTyped DEF Knows
<1>15. \A u \in Threads : Ahead(S, u)'
  <2> TAKE u \in Threads
  <2> SUFFICES ASSUME NEW q \in Queues, q = loc[u].queue, pc[u] # "idle", phase[q] = "ready"
               PROVE  /\ metaTail[q] # LastWord(S, q) => loc[u].tail # LastWord(S, q)
                      /\ \A k \in 2 .. Len(S[q]) : loc[u].head # Word(S, q, k)
    <3>1. \A q \in Queues : \A k \in 2 .. Len(S[q]) : Word(S, q, k)' = Word(S, q, k)
      BY <1>1, <1>6, ListFacts
    <3> QED
      BY <1>1, <1>4, <1>7, <1>14, <3>1 DEF Ahead, Lagging
  <2> QED
    BY DEF Structure, Threadwise, Ahead, Lagging
<1>16. \A u \in Threads : Swing(S, u)'
  <2> TAKE u \in Threads
  <2>1. pc[u] \in Swings => loc[u].queue \in Queues /\ phase[loc[u].queue] = "ready"
    BY <1>1, <1>14 DEF Knows, Swings, Ctor
  <2> QED
    BY <1>1, <1>4, <1>7, <2>1 DEF Structure, Threadwise, Swing, Swings, Lagging
<1>17. \A u \in Threads : Advance(S, u)'
  <2> TAKE u \in Threads
  <2>1. pc[u] \in Advances => loc[u].queue \in Queues
    BY <1>14 DEF Advances
  <2>2. \A q \in Queues : Len(S[q]) >= 2 => Word(S, q, 2)' = Word(S, q, 2)
    <3> TAKE q \in Queues
    <3> HAVE Len(S[q]) >= 2
    <3>1. 2 \in 1 .. Len(S[q])
      BY <1>1, ListFacts
    <3> QED
      BY <1>6, <3>1
  <2> QED
    BY <1>1, <1>4, <2>1, <2>2 DEF Structure, Threadwise, Advance, Advances
<1>18. \A u \in Threads : End(S, u)'
  <2> TAKE u \in Threads
  <2> SUFFICES ASSUME pc[u] # "idle", loc[u].tail # ZeroMeta,
                      GetRealAddr(nextMeta'[GetRealAddr(loc[u].tail)]) = NULL
               PROVE  \/ InList(S, GetRealAddr(loc[u].tail))
                      \/ \E w \in Threads : /\ pc'[w] \in Built
                                            /\ GetRealAddr(loc[w].new) = GetRealAddr(loc[u].tail)
    BY <1>1, <1>4 DEF End, InList
  <2>1. CASE GetRealAddr(loc[u].tail) = n
    BY <1>2, <1>4, <2>1 DEF Built
  <2>2. CASE nextMeta'[GetRealAddr(loc[u].tail)] = nextMeta[GetRealAddr(loc[u].tail)]
    <3>1. \A w \in Threads : pc[w] \in Built => pc'[w] \in Built
      BY <1>1, <1>4 DEF Built
    <3> QED
      BY <2>2, <3>1 DEF Structure, Threadwise, End
  <2>3. CASE GetRealAddr(loc[u].tail) \notin Nodes
    <3>1. nextMeta' = [nextMeta EXCEPT ![n] = EndOf(loc[t].new)]
      BY <1>2 DEF EnqBuilt, StoreNext, EndOf
    <3> QED
      BY <1>1, <2>2, <2>3, <3>1 DEF TypeOK
  <2> QED
    BY <1>3, <2>1, <2>2, <2>3
<1>19. CtorInv'
  <2>1. \A u \in Threads : /\ pc'[u] \in Ctor <=> pc[u] \in Ctor
                           /\ pc'[u] # "idle" <=> pc[u] # "idle"
    BY <1>1, <1>4 DEF Ctor
  <2> QED
    BY <1>1, <2>1 DEF Structure, CtorInv
<1>20. PrivateInv(S)'
  <2>1. \A u \in Threads : Private(u)' = Private(u)
    BY <1>1, <1>4 DEF Private
  <2> QED
    BY <1>1, <2>1 DEF Structure, PrivateInv, InList
<1> QED
  BY <1>5, <1>8, <1>10, <1>11, <1>12, <1>13, <1>15, <1>16, <1>17, <1>18, <1>19, <1>20
     DEF Structure, Threadwise

LEMMA EndConstructKeeps ==
    ASSUME NEW S \in Lists, Structure(S), NEW t \in Threads, EndConstruct(t)
    PROVE  \E R \in Lists : /\ R = [S EXCEPT ![loc[t].queue] = <<GetRealAddr(loc[t].new)>>]
                            /\ Structure(R)'
<1>1. /\ TypeOK /\ ListsInv(S) /\ (\A u \in Threads : Knows(u)) /\ pc[t] = "ctorNext" /\ Return(t)
      /\ metaCnt' = metaCnt /\ num' = num /\ data' = data /\ nextId' = nextId /\ inUse' = inUse
  BY DEF Structure, Threadwise, EndConstruct
<1>2. PICK n \in Nodes : n = GetRealAddr(loc[t].new) /\ n \in inUse /\ ~InList(S, n)
  BY <1>1, HeldApart
<1>3. PICK q \in Queues : q = loc[t].queue
  BY <1>1, LocalsTyped DEF Knows
<1>4. PICK m \in Words : m = loc[t].new
  BY <1>1, LocalsTyped
<1>5. PICK R : R = [S EXCEPT ![q] = <<n>>]
  OBVIOUS
<1>6. phase[q] = "new" /\ nextId[n] = q /\ n # NULL
  BY <1>1, <1>2, <1>3 DEF Knows, Ctor
<1>7. /\ R \in Lists /\ R[q] = <<n>> /\ Len(R[q]) = 1 /\ R[q][1] = n
      /\ \A r \in Queues \ {q} : R[r] = S[r]
  BY <1>5 DEF Lists
<1>8. /\ nextMeta' \in [Nodes -> Words] /\ nextMeta'[n] = EndOf(m)
      /\ \A i \in Nodes \ {n} : nextMeta'[i] = nextMeta[i]
      /\ nextMeta' = [nextMeta EXCEPT ![n] = EndOf(m)]
  <2>1. nextMeta' = [nextMeta EXCEPT ![n] = EndOf(m)]
    BY <1>2, <1>4 DEF EndConstruct, StoreNext, EndOf
  <2> QED
    BY <1>1, <2>1, WordFacts DEF TypeOK
<1>9. /\ metaTail' \in [Queues -> Words] /\ metaHead' \in [Queues -> Words]
      /\ phase' \in [Queues -> {"new", "ready", "cleared"}]
      /\ metaTail'[q] = m /\ metaHead'[q] = m /\ phase'[q] = "ready"
      /\ \A r \in Queues \ {q} :
           metaTail'[r] = metaTail[r] /\ metaHead'[r] = metaHead[r] /\ phase'[r] = phase[r]
  BY <1>1, <1>3, <1>4 DEF EndConstruct, TypeOK
<1>10. TypeOK'
  BY <1>1, <1>8, <1>9, Returned DEF TypeOK
<1>11. \A r \in Queues \ {q} : \A k \in 1 .. Len(S[r]) :
         S[r][k] \in Nodes \ {n} /\ Word(R, r, k)' = Word(S, r, k)
  <2> TAKE r \in Queues \ {q}
  <2> TAKE k \in 1 .. Len(S[r])
  <2>1. \A j \in 1 .. Len(S[r]) : S[r][j] \in Nodes \ {n}
    BY <1>1, <1>2, ListFacts
  <2>2. k # 1 => k - 1 \in 1 .. Len(S[r])
    BY <1>1, ListFacts
  <2> QED
    BY <1>7, <1>8, <1>9, <2>1, <2>2 DEF Word
<1>12. /\ \A r \in Queues \ {q} : phase[r] = "ready" => LastWord(R, r)' = LastWord(S, r)
       /\ LastWord(R, q)' = m /\ Word(R, q, 1)' = m
  <2>1. \A r \in Queues \ {q} : phase[r] = "ready" => Len(S[r]) \in 1 .. Len(S[r])
    BY <1>1, ListFacts
  <2>2. \A r \in Queues \ {q} : phase[r] = "ready" => LastWord(R, r)' = LastWord(S, r)
    BY <1>7, <1>11, <2>1 DEF LastWord
  <2>3. Word(R, q, 1)' = m
    BY <1>9 DEF Word
  <2>4. LastWord(R, q)' = m
    BY <1>7, <1>9 DEF LastWord, Word
  <2> QED
    BY <2>2, <2>3, <2>4
<1>13. ~Lagging(R, q)'
       /\ \A r \in Queues \ {q} : phase[r] = "ready" => (Lagging(R, r)' <=> Lagging(S, r))
  BY <1>9, <1>12 DEF Lagging
<1>14. ListsInv(R)'
  <2>1. \A r \in Queues : phase'[r] = "ready" <=> Len(R[r]) > 0
    BY <1>1, <1>7, <1>9 DEF ListsInv
  <2>2. ASSUME NEW r \in Queues, r # q, NEW k \in 1 .. Len(S[r])
        PROVE  /\ GetRealAddr(Word(R, r, k)') = S[r][k] /\ nextId'[S[r][k]] = r
               /\ S[r][k] \in inUse'
               /\ k = Len(S[r]) => nextMeta'[S[r][k]] = EndOf(LastWord(R, r)')
               /\ k # 1 => data'[S[r][k]] \in Values
    <3>1. phase[r] = "ready"
      BY <1>1, ListFacts DEF ListsInv
    <3> QED
      BY <1>1, <1>8, <1>11, <1>12, <2>2, <3>1 DEF ListsInv
  <2>3. ASSUME NEW k \in 1 .. Len(R[q])
        PROVE  /\ GetRealAddr(Word(R, q, k)') = R[q][k] /\ nextId'[R[q][k]] = q
               /\ R[q][k] \in inUse' /\ k = 1
               /\ nextMeta'[R[q][k]] = EndOf(LastWord(R, q)')
    <3>1. k = 1
      BY <1>7
    <3> QED
      BY <1>1, <1>2, <1>4, <1>6, <1>7, <1>8, <1>12, <3>1
  <2>4. ASSUME NEW r \in Queues, NEW w \in Queues, NEW i \in 1 .. Len(R[r]), NEW j \in 1 .. Len(R[w]),
               R[r][i] = R[w][j]
        PROVE  r = w /\ i = j
    <3>1. CASE r # q /\ w # q
      BY <1>1, <1>7, <2>4, <3>1 DEF ListsInv
    <3>2. CASE r = q /\ w = q
      <4>1. i \in 1 .. 1 /\ j \in 1 .. 1
        BY <1>7, <3>2
      <4> QED
        BY <3>2, <4>1
    <3>3. CASE r = q /\ w # q
      BY <1>2, <1>7, <2>4, <3>3 DEF InList
    <3>4. CASE r # q /\ w = q
      BY <1>2, <1>7, <2>4, <3>4 DEF InList
    <3> QED
      BY <3>1, <3>2, <3>3, <3>4
  <2>5. \A r \in Queues : \A k \in 1 .. Len(R[r]) :
          /\ GetRealAddr(Word(R, r, k)') = R[r][k] /\ nextId'[R[r][k]] = r
          /\ R[r][k] \in inUse'
          /\ k = Len(R[r]) => nextMeta'[R[r][k]] = EndOf(LastWord(R, r)')
          /\ k # 1 => data'[R[r][k]] \in Values
    BY <1>7, <2>2, <2>3
  <2> QED
    BY <2>1, <2>4, <2>5 DEF ListsInv
<1>15. \A u \in Threads \ {t} : /\ pc'[u] = pc[u] /\ loc'[u] = loc[u]
                                /\ pc[u] # "idle" => loc[u].queue \in Queues \ {q}
  <2>1. \A u \in Threads : pc[u] # "idle" => loc[u].queue \in Queues
    BY <1>1, LocalsTyped DEF Knows
  <2>2. \A u \in Threads \ {t} : pc[u] # "idle" => loc[u].queue # q
    BY <1>1, <1>3 DEF Structure, CtorInv, Ctor
  <2> QED
    BY <1>1, <2>1, <2>2, Returned
<1>16. pc'[t] = "idle" /\ loc'[t].queue = NULL /\ loc'[t].tail = ZeroMeta /\ loc'[t].head = ZeroMeta
  BY <1>1, Returned
<1>17. TailInv(R)'
  <2> SUFFICES ASSUME NEW r \in Queues \ {q}, phase[r] = "ready", Lagging(S, r)
               PROVE  /\ Len(R[r]) >= 2 /\ metaTail'[r] = Word(R, r, Len(R[r]) - 1)'
                      /\ \E u \in Threads :
                           loc'[u].queue = r /\ pc'[u] = "enqSwing" /\ loc'[u].tail = metaTail'[r]
    BY <1>9, <1>13 DEF TailInv
  <2>1. /\ Len(S[r]) >= 2 /\ metaTail[r] = Word(S, r, Len(S[r]) - 1)
        /\ \E u \in Threads :
             loc[u].queue = r /\ pc[u] = "enqSwing" /\ loc[u].tail = metaTail[r]
    BY DEF Structure, TailInv
  <2>2. Len(S[r]) - 1 \in 1 .. Len(S[r])
    BY <1>1, <2>1, ListFacts
  <2> QED
    BY <1>1, <1>7, <1>9, <1>11, <1>15, <2>1, <2>2
<1>18. BuildInv'
  BY <1>15, <1>16 DEF Structure, BuildInv, Building, Built
<1>19. CtorInv'
  BY <1>15, <1>16 DEF Structure, CtorInv, Ctor
<1>20. \A u \in Threads \ {t} : Knows(u)'
  <2> TAKE u \in Threads \ {t}
  <2>1. /\ pc[u] \in Building \cup {"ctorNext"} => GetRealAddr(loc[u].new) \in Nodes \ {n}
        /\ pc[u] = "deqFree" => GetRealAddr(loc[u].head) \in Nodes \ {n}
    BY <1>1, <1>2, HeldApart
  <2>2. pc[u] = "idle" \/ phase'[loc[u].queue] = phase[loc[u].queue]
    BY <1>9, <1>15
  <2>3. Knows(u) /\ pc'[u] = pc[u] /\ loc'[u] = loc[u]
    BY <1>1, <1>15
  <2> QED
    BY <1>1, <1>8, <2>1, <2>2, <2>3 DEF Knows, Building, Ctor
<1>21. Knows(t)'
  BY <1>16 DEF Knows, Ctor, Building, Built, HasTail, HasHead, HasNext, Swings, Advances
<1>22. \A u \in Threads \ {t} : Ahead(R, u)'
  <2> TAKE u \in Threads \ {t}
  <2> SUFFICES ASSUME NEW r \in Queues \ {q}, r = loc[u].queue, pc[u] # "idle", phase[r] = "ready"
               PROVE  /\ Lagging(R, r)' => loc[u].tail # LastWord(R, r)'
                      /\ \A k \in 2 .. Len(R[r]) : loc[u].head # Word(R, r, k)'
    BY <1>9, <1>15 DEF Ahead
  <2>1. \A k \in 2 .. Len(S[r]) : Word(R, r, k)' = Word(S, r, k)
    BY <1>1, <1>11, ListFacts
  <2> QED
    BY <1>7, <1>12, <1>13, <2>1 DEF Structure, Threadwise, Ahead
<1>23. \A u \in Threads \ {t} : Swing(R, u)'
  <2> TAKE u \in Threads \ {t}
  <2> SUFFICES ASSUME NEW r \in Queues \ {q}, r = loc[u].queue, pc[u] \in Swings,
                      loc[u].tail = metaTail[r]
               PROVE  /\ Lagging(R, r)'
                      /\ LastWord(R, r)' = IF pc[u] = "enqSwing" THEN loc[u].new ELSE loc[u].next
    BY <1>9, <1>15 DEF Swing, Swings
  <2>1. phase[r] = "ready"
    BY <1>1 DEF Knows, Swings, Ctor
  <2> QED
    BY <1>12, <1>13, <2>1 DEF Structure, Threadwise, Swing
<1>24. \A u \in Threads \ {t} : Advance(R, u)'
  <2> TAKE u \in Threads \ {t}
  <2> SUFFICES ASSUME NEW r \in Queues \ {q}, r = loc[u].queue, pc[u] \in Advances,
                      loc[u].head = metaHead[r]
               PROVE  /\ Len(R[r]) >= 2 /\ loc[u].next = Word(R, r, 2)'
                      /\ pc[u] = "deqCas" => loc[u].val = data[R[r][2]]
    BY <1>1, <1>9, <1>15 DEF Advance, Advances
  <2>1. /\ Len(S[r]) >= 2 /\ loc[u].next = Word(S, r, 2)
        /\ pc[u] = "deqCas" => loc[u].val = data[S[r][2]]
    BY DEF Structure, Threadwise, Advance
  <2>2. 2 \in 1 .. Len(S[r])
    BY <1>1, <2>1, ListFacts
  <2> QED
    BY <1>7, <1>11, <2>1, <2>2
<1>25. InList(R, n) /\ \A i : InList(S, i) => InList(R, i)
  <2>1. \A i : InList(S, i) => InList(R, i)
    <3> TAKE i
    <3> HAVE InList(S, i)
    <3>1. PICK r \in Queues : \E k \in 1 .. Len(S[r]) : S[r][k] = i
      BY DEF InList
    <3>2. r # q
      BY <1>1, <1>6, <3>1, ListFacts DEF ListsInv
    <3> QED
      BY <1>7, <3>1, <3>2 DEF InList
  <2>2. 1 \in 1 .. Len(R[q])
    BY <1>7
  <2> QED
    BY <1>7, <2>1, <2>2 DEF InList
<1>26. \A u \in Threads : End(R, u)'
  <2> TAKE u \in Threads
  <2> SUFFICES ASSUME u # t, pc[u] # "idle", loc[u].tail # ZeroMeta,
                      GetRealAddr(nextMeta'[GetRealAddr(loc[u].tail)]) = NULL
               PROVE  \/ InList(R, GetRealAddr(loc[u].tail))
                      \/ \E w \in Threads : /\ pc'[w] \in Built
                                            /\ GetRealAddr(loc'[w].new) = GetRealAddr(loc[u].tail)
    BY <1>15, <1>16 DEF End, InList
  <2>1. CASE GetRealAddr(loc[u].tail) = n
    BY <1>25, <2>1
  <2>2. CASE GetRealAddr(loc[u].tail) # n
    <3>1. nextMeta'[GetRealAddr(loc[u].tail)] = nextMeta[GetRealAddr(loc[u].tail)]
      BY <1>1, <1>8, <2>2 DEF TypeOK
    <3>2. \A w \in Threads : pc[w] \in Built => pc'[w] \in Built /\ loc'[w] = loc[w]
      BY <1>1, <1>15 DEF Built
    <3> QED
      BY <1>25, <3>1, <3>2 DEF Structure, Threadwise, End
  <2> QED
    BY <2>1, <2>2
<1>27. PrivateInv(R)'
  <2>1. Private(t)' = {} /\ Private(t) = {n}
    BY <1>1, <1>2, <1>16 DEF Private
  <2>2. \A u \in Threads \ {t} : Private(u)' = Private(u)
    BY <1>15 DEF Private
  <2>3. \A i : InList(R, i)' <=> InList(R, i)
    BY DEF InList
  <2>4. \A i : InList(R, i) => InList(S, i) \/ i = n
    <3> TAKE i
    <3> HAVE InList(R, i)
    <3>1. PICK r \in Queues : \E k \in 1 .. Len(R[r]) : R[r][k] = i
      BY DEF InList
    <3>2. CASE r = q
      BY <1>7, <3>1, <3>2
    <3>3. CASE r # q
      BY <1>7, <3>1, <3>3 DEF InList
    <3> QED
      BY <3>2, <3>3
  <2> QED
    BY <1>1, <1>25, <2>1, <2>2, <2>3, <2>4 DEF Structure, PrivateInv
<1>28. \A u \in Threads : Threadwise(R)'
  BY <1>16, <1>20, <1>21, <1>22, <1>23, <1>24, <1>26 DEF Threadwise, Ahead, Swing, Advance, Swings, Advances
<1>29. Structure(R)'
  BY <1>10, <1>14, <1>17, <1>18, <1>19, <1>27, <1>28 DEF Structure
<1>30. R = [S EXCEPT ![loc[t].queue] = <<GetRealAddr(loc[t].new)>>]
  BY <1>2, <1>3, <1>5
<1> QED
  BY <1>7, <1>29, <1>30

\* The double-width CAS is only ever won on the last node of the queue it is meant for.
LEMMA LinkPlace ==
    ASSUME NEW S \in Lists, Structure(S), NEW t \in Threads, pc[t] = "enqLink",
           nextId[GetRealAddr(loc[t].tail)] = loc[t].id,
           nextMeta[GetRealAddr(loc[t].tail)] = loc[t].next
    PROVE  /\ loc[t].queue \in Queues /\ phase[loc[t].queue] = "ready"
           /\ loc[t].tail = LastWord(S, loc[t].queue) /\ ~Lagging(S, loc[t].queue)
<1>1. TypeOK /\ ListsInv(S) /\ Knows(t) /\ End(S, t) /\ Ahead(S, t)
  BY DEF Structure, Threadwise
<1>2. PICK q \in Queues : q = loc[t].queue
  BY <1>1, LocalsTyped DEF Knows
<1>3. PICK m \in Words : m = loc[t].tail
  BY <1>1, LocalsTyped
<1>4. /\ phase[q] = "ready" /\ loc[t].id = q /\ loc[t].next = EndOf(m)
      /\ GetRealAddr(m) # NULL
  BY <1>1, <1>2, <1>3 DEF Knows, Ctor, HasTail
<1>5. PICK n : n = GetRealAddr(m)
  OBVIOUS
<1>6. nextId[n] = q /\ nextMeta[n] = EndOf(m) /\ GetRealAddr(nextMeta[n]) = NULL /\ m # ZeroMeta
  BY <1>3, <1>4, <1>5, WordFacts
<1>7. ASSUME NEW u \in Threads, pc[u] \in Built, GetRealAddr(loc[u].new) = n PROVE FALSE
  <2>1. nextId[n] = loc[u].queue /\ nextMeta[n] = EndOf(loc[u].new) /\ loc[u].new \in Words
    BY <1>1, <1>7, LocalsTyped DEF Structure, Threadwise, Knows, Building
  <2>2. loc[u].new = m
    BY <1>5, <1>6, <1>7, <2>1, WordFacts
  <2> QED
    BY <1>2, <1>3, <1>6, <1>7, <2>1, <2>2 DEF Structure, BuildInv, Building
<1>8. InList(S, n)
  BY <1>1, <1>3, <1>5, <1>6, <1>7 DEF End
<1>9. PICK k \in 1 .. Len(S[q]) : S[q][k] = n
  <2>1. PICK r \in Queues : \E k \in 1 .. Len(S[r]) : S[r][k] = n
    BY <1>8 DEF InList
  <2>2. r = q
    BY <1>1, <1>6, <2>1 DEF ListsInv
  <2> QED
    BY <2>1, <2>2
<1>10. k = Len(S[q]) /\ nextMeta[n] = EndOf(LastWord(S, q))
  BY <1>1, <1>6, <1>9, LinkFacts
<1>11. LastWord(S, q) \in Words /\ GetRealAddr(LastWord(S, q)) = n
  <2>1. k \in 1 .. Len(S[q])
    BY <1>9
  <2> QED
    BY <1>1, <1>9, <1>10, <2>1, ListFacts DEF LastWord
<1>12. m = LastWord(S, q)
  BY <1>5, <1>6, <1>10, <1>11, WordFacts
<1> QED
  BY <1>1, <1>2, <1>3, <1>4, <1>12 DEF Ahead

LEMMA EnqLinkKeeps ==
    ASSUME NEW S \in Lists, Structure(S), NEW t \in Threads, EnqLink(t), pc'[t] = "enqSwing"
    PROVE  \E R \in Lists : /\ R = [S EXCEPT ![loc[t].queue] = Append(@, GetRealAddr(loc[t].new))]
                            /\ Structure(R)'
<1>1. /\ TypeOK /\ ListsInv(S) /\ (\A u \in Threads : Knows(u)) /\ pc[t] = "enqLink"
      /\ phase' = phase /\ metaTail' = metaTail /\ metaHead' = metaHead /\ metaCnt' = metaCnt
      /\ num' = num /\ data' = data /\ inUse' = inUse
  BY DEF Structure, Threadwise, EnqLink, queueVars
<1>2. /\ nextId[GetRealAddr(loc[t].tail)] = loc[t].id
      /\ nextMeta[GetRealAddr(loc[t].tail)] = loc[t].next
      /\ nextId' = [nextId EXCEPT ![GetRealAddr(loc[t].tail)] = loc[t].queue]
      /\ nextMeta' = [nextMeta EXCEPT ![GetRealAddr(loc[t].tail)] = loc[t].new]
      /\ loc' = loc /\ Goto(t, "enqSwing")
  BY <1>1 DEF EnqLink, Goto, TypeOK
<1>3. PICK q \in Queues, w \in Words, m \in Words :
        /\ q = loc[t].queue /\ w = loc[t].tail /\ m = loc[t].new
        /\ phase[q] = "ready" /\ w = LastWord(S, q) /\ ~Lagging(S, q)
  BY <1>1, <1>2, LocalsTyped, LinkPlace
<1>4. PICK n \in Nodes : n = GetRealAddr(m) /\ n \in inUse /\ ~InList(S, n)
  BY <1>1, <1>3, HeldApart DEF Building, Built
<1>5. PICK L \in Nat : L = Len(S[q]) /\ L >= 1
  BY <1>1, <1>3, ListFacts
<1>6. PICK o \in Nodes : o = GetRealAddr(w) /\ o = S[q][L] /\ o # n
  <2>1. L \in 1 .. Len(S[q])
    BY <1>5
  <2> QED
    BY <1>1, <1>3, <1>4, <1>5, <2>1, ListFacts DEF LastWord, InList
<1>7. n # NULL /\ nextId[n] = q /\ nextMeta[n] = EndOf(m) /\ data[n] \in Values
  BY <1>1, <1>3, <1>4 DEF Knows, Building, Built
<1>8. /\ nextMeta' \in [Nodes -> Words] /\ nextMeta'[o] = m
      /\ \A i \in Nodes \ {o} : nextMeta'[i] = nextMeta[i]
      /\ nextMeta' = [nextMeta EXCEPT ![o] = m]
      /\ nextId' = nextId
  <2>1. nextMeta' = [nextMeta EXCEPT ![o] = m]
    BY <1>2, <1>3, <1>6
  <2>2. nextId[o] = q
    BY <1>1, <1>5, <1>6 DEF ListsInv
  <2> QED
    BY <1>1, <1>2, <1>3, <1>6, <2>1, <2>2 DEF TypeOK
<1>9. /\ pc' \in [Threads -> Labels] /\ pc'[t] = "enqSwing"
      /\ \A u \in Threads \ {t} : pc'[u] = pc[u]
  BY <1>1, <1>2, Moved DEF Labels
<1>10. TypeOK'
  BY <1>1, <1>2, <1>8, <1>9 DEF TypeOK
<1>11. PICK R : R = [S EXCEPT ![q] = Append(S[q], n)]
  OBVIOUS
<1>12. /\ R \in Lists /\ Len(R[q]) = L + 1 /\ R[q][L + 1] = n
       /\ \A k \in 1 .. L : R[q][k] = S[q][k]
       /\ \A r \in Queues \ {q} : R[r] = S[r]
  <2>1. S[q] \in Seq(Nodes) /\ Append(S[q], n) \in Seq(Nodes)
    BY DEF Lists
  <2>2. R \in Lists /\ R[q] = Append(S[q], n) /\ \A r \in Queues \ {q} : R[r] = S[r]
    BY <1>11, <2>1 DEF Lists
  <2> QED
    BY <1>5, <2>1, <2>2
<1>13. \A r \in Queues : \A k \in 1 .. Len(S[r]) :
         /\ S[r][k] \in Nodes \ {n} /\ Word(R, r, k)' = Word(S, r, k)
         /\ k # Len(S[r]) \/ r # q => S[r][k] # o
  <2> TAKE r \in Queues
  <2> TAKE k \in 1 .. Len(S[r])
  <2>1. \A j \in 1 .. Len(S[r]) : S[r][j] \in Nodes \ {n} /\ (j # Len(S[r]) \/ r # q => S[r][j] # o)
    <3> TAKE j \in 1 .. Len(S[r])
    <3>1. S[r][j] \in Nodes \ {n}
      BY <1>1, <1>4, ListFacts
    <3>2. L \in 1 .. Len(S[q])
      BY <1>5
    <3> QED
      BY <1>1, <1>5, <1>6, <3>1, <3>2 DEF ListsInv
  <2>2. k # 1 => k - 1 \in 1 .. Len(S[r]) /\ k - 1 # Len(S[r]) /\ R[r][k - 1] = S[r][k - 1]
    <3>1. Len(S[r]) \in Nat
      BY <1>1, ListFacts
    <3>2. k # 1 => k - 1 \in 1 .. Len(S[r]) /\ k - 1 # Len(S[r])
      BY <3>1
    <3>3. r = q => Len(S[r]) = L
      BY <1>5
    <3> QED
      BY <1>12, <3>2, <3>3
  <2> QED
    BY <1>1, <1>8, <2>1, <2>2 DEF Word
<1>14. Word(R, q, L + 1)' = m /\ LastWord(R, q)' = m
       /\ \A r \in Queues \ {q} : phase[r] = "ready" => LastWord(R, r)' = LastWord(S, r)
  <2>1. \A r \in Queues \ {q} : phase[r] = "ready" => Len(S[r]) \in 1 .. Len(S[r])
    BY <1>1, ListFacts
  <2>2. \A r \in Queues \ {q} : phase[r] = "ready" => LastWord(R, r)' = LastWord(S, r)
    BY <1>12, <1>13, <2>1 DEF LastWord
  <2>3. L + 1 # 1 /\ L + 1 - 1 = L /\ L \in 1 .. L
    BY <1>5
  <2>4. Word(R, q, L + 1)' = m
    BY <1>6, <1>8, <1>12, <2>3 DEF Word
  <2>5. LastWord(R, q)' = m
    BY <1>6, <1>8, <1>12, <2>3 DEF LastWord, Word
  <2> QED
    BY <2>2, <2>4, <2>5
<1>15. \A r \in Queues \ {q} : phase[r] = "ready" => (Lagging(R, r)' <=> Lagging(S, r))
  BY <1>1, <1>14 DEF Lagging
<1>16. metaTail[q] = w /\ w # m /\ Lagging(R, q)'
  <2>1. metaTail[q] = w /\ w # m
    BY <1>3, <1>4, <1>6 DEF Lagging
  <2> QED
    BY <1>1, <1>14, <2>1 DEF Lagging
<1>17. ListsInv(R)'
  <2>1. \A r \in Queues : phase'[r] = "ready" <=> Len(R[r]) > 0
    BY <1>1, <1>3, <1>5, <1>12 DEF ListsInv
  <2>2. ASSUME NEW r \in Queues, NEW k \in 1 .. Len(S[r])
        PROVE  /\ GetRealAddr(Word(R, r, k)') = S[r][k] /\ nextId'[S[r][k]] = r
               /\ S[r][k] \in inUse'
               /\ r # q /\ k = Len(S[r]) => nextMeta'[S[r][k]] = EndOf(LastWord(R, r)')
               /\ k # 1 => data'[S[r][k]] \in Values
    <3>1. phase[r] = "ready"
      BY <1>1, ListFacts DEF ListsInv
    <3> QED
      BY <1>1, <1>8, <1>13, <1>14, <3>1 DEF ListsInv
  <2>3. \A r \in Queues : \A k \in 1 .. Len(R[r]) :
          /\ GetRealAddr(Word(R, r, k)') = R[r][k] /\ nextId'[R[r][k]] = r
          /\ R[r][k] \in inUse'
          /\ k = Len(R[r]) => nextMeta'[R[r][k]] = EndOf(LastWord(R, r)')
          /\ k # 1 => data'[R[r][k]] \in Values
    <3> TAKE r \in Queues
    <3> TAKE k \in 1 .. Len(R[r])
    <3>1. CASE r # q
      BY <1>12, <2>2, <3>1
    <3>2. CASE r = q /\ k = L + 1
      BY <1>1, <1>4, <1>6, <1>7, <1>8, <1>12, <1>14, <3>2
    <3>3. CASE r = q /\ k # L + 1
      <4>1. k \in 1 .. L /\ k \in 1 .. Len(S[q]) /\ k # Len(R[q]) /\ R[q][k] = S[q][k]
        BY <1>5, <1>12, <3>3
      <4> QED
        BY <2>2, <3>3, <4>1
    <3> QED
      BY <3>1, <3>2, <3>3
  <2>4. ASSUME NEW r \in Queues, NEW s \in Queues, NEW i \in 1 .. Len(R[r]), NEW j \in 1 .. Len(R[s]),
               R[r][i] = R[s][j]
        PROVE  r = s /\ i = j
    <3>1. (r = q /\ i = L + 1 /\ R[r][i] = n)
            \/ (i \in 1 .. Len(S[r]) /\ R[r][i] = S[r][i] /\ R[r][i] # n)
      BY <1>5, <1>12, <1>13
    <3>2. (s = q /\ j = L + 1 /\ R[s][j] = n)
            \/ (j \in 1 .. Len(S[s]) /\ R[s][j] = S[s][j] /\ R[s][j] # n)
      BY <1>5, <1>12, <1>13
    <3> QED
      BY <1>1, <2>4, <3>1, <3>2 DEF ListsInv
  <2> QED
    BY <2>1, <2>3, <2>4 DEF ListsInv
<1>18. TailInv(R)'
  <2>1. /\ Len(R[q]) >= 2 /\ metaTail'[q] = Word(R, q, Len(R[q]) - 1)'
        /\ loc'[t].queue = q /\ pc'[t] = "enqSwing" /\ loc'[t].tail = metaTail'[q]
    <3>1. Len(R[q]) - 1 = L /\ L \in 1 .. Len(S[q]) /\ Len(R[q]) >= 2
      BY <1>5, <1>12
    <3>2. Word(R, q, L)' = Word(S, q, L)
      BY <1>13, <3>1
    <3>3. Word(R, q, Len(R[q]) - 1)' = Word(R, q, L)'
      BY <3>1
    <3> QED
      BY <1>1, <1>2, <1>3, <1>5, <1>9, <1>16, <3>1, <3>2, <3>3 DEF LastWord
  <2>2. ASSUME NEW r \in Queues \ {q}, phase[r] = "ready", Lagging(S, r)
        PROVE  /\ Len(R[r]) >= 2 /\ metaTail'[r] = Word(R, r, Len(R[r]) - 1)'
               /\ \E u \in Threads :
                    loc'[u].queue = r /\ pc'[u] = "enqSwing" /\ loc'[u].tail = metaTail'[r]
    <3>1. /\ Len(S[r]) >= 2 /\ metaTail[r] = Word(S, r, Len(S[r]) - 1)
          /\ \E u \in Threads :
               loc[u].queue = r /\ pc[u] = "enqSwing" /\ loc[u].tail = metaTail[r]
      BY <2>2 DEF Structure, TailInv
    <3>2. Len(S[r]) - 1 \in 1 .. Len(S[r])
      BY <1>1, <3>1, ListFacts
    <3> QED
      BY <1>1, <1>2, <1>9, <1>12, <1>13, <3>1, <3>2
  <2> QED
    BY <1>1, <1>15, <2>1, <2>2 DEF TailInv
<1>19. /\ \A u \in Threads : pc'[u] # "idle" <=> pc[u] # "idle"
       /\ \A u \in Threads : pc'[u] \in Building => pc[u] \in Building
       /\ \A u \in Threads : pc'[u] \in Ctor <=> pc[u] \in Ctor
       /\ \A u \in Threads : pc[u] # "idle" => loc[u].queue \in Queues
  <2>1. \A u \in Threads : pc[u] # "idle" => loc[u].queue \in Queues
    BY <1>1, LocalsTyped DEF Knows
  <2> QED
    BY <1>1, <1>9, <2>1 DEF Building, Built, Ctor
<1>20. BuildInv' /\ CtorInv'
  BY <1>2, <1>19 DEF Structure, BuildInv, CtorInv
<1>21. \A u \in Threads \ {t} : Knows(u)'
  <2> TAKE u \in Threads \ {t}
  <2>1. InList(S, o)
    <3>1. L \in 1 .. Len(S[q])
      BY <1>5
    <3> QED
      BY <1>6, <3>1 DEF InList
  <2>2. /\ pc[u] \in Building => GetRealAddr(loc[u].new) \in Nodes \ {o}
        /\ pc[u] = "deqFree" => GetRealAddr(loc[u].head) \in Nodes \ {o}
    BY <1>1, <2>1, HeldApart
  <2> QED
    BY <1>1, <1>2, <1>8, <1>9, <2>2 DEF Knows, Building
<1>22. Knows(t)'
  BY <1>1, <1>2, <1>9
     DEF Knows, Ctor, Building, Built, HasTail, HasHead, HasNext, Swings, Advances
<1>23. ASSUME NEW u \in Threads, pc[u] # "idle", loc[u].queue = q
       PROVE  loc[u].tail # m /\ loc[u].head # m
  BY <1>1, <1>3, <1>23 DEF Structure, BuildInv, Building, Built
<1>24. \A u \in Threads : Ahead(R, u)'
  <2> TAKE u \in Threads
  <2> SUFFICES ASSUME NEW r \in Queues, r = loc[u].queue, pc[u] # "idle", phase[r] = "ready"
               PROVE  /\ Lagging(R, r)' => loc[u].tail # LastWord(R, r)'
                      /\ \A k \in 2 .. Len(R[r]) : loc[u].head # Word(R, r, k)'
    BY <1>1, <1>2, <1>19 DEF Ahead
  <2>1. /\ Lagging(S, r) => loc[u].tail # LastWord(S, r)
        /\ \A k \in 2 .. Len(S[r]) : loc[u].head # Word(S, r, k)
    BY DEF Structure, Threadwise, Ahead
  <2>2. \A k \in 2 .. Len(S[r]) : loc[u].head # Word(R, r, k)'
    BY <1>1, <1>13, <2>1, ListFacts
  <2>3. CASE r # q
    BY <1>12, <1>14, <1>15, <2>1, <2>2, <2>3
  <2>4. CASE r = q
    <3>1. loc[u].tail # m /\ loc[u].head # m
      BY <1>23, <2>4
    <3>2. \A k \in 2 .. Len(R[q]) : k \in 2 .. Len(S[q]) \/ k = L + 1
      BY <1>5, <1>12
    <3> QED
      BY <1>14, <2>2, <2>4, <3>1, <3>2
  <2> QED
    BY <2>3, <2>4
<1>25. \A u \in Threads : Swing(R, u)'
  <2> TAKE u \in Threads
  <2> SUFFICES ASSUME NEW r \in Queues, r = loc[u].queue, pc'[u] \in Swings,
                      loc[u].tail = metaTail[r]
               PROVE  /\ Lagging(R, r)'
                      /\ LastWord(R, r)' = IF pc'[u] = "enqSwing" THEN loc[u].new ELSE loc[u].next
    BY <1>1, <1>2, <1>19 DEF Swing, Swings
  <2>1. CASE u = t
    BY <1>3, <1>9, <1>14, <1>16, <2>1
  <2>2. CASE u # t
    <3>1. pc[u] \in Swings /\ pc'[u] = pc[u]
      BY <1>9, <2>2
    <3>2. Lagging(S, r) /\ LastWord(S, r) = IF pc[u] = "enqSwing" THEN loc[u].new ELSE loc[u].next
      BY <3>1 DEF Structure, Threadwise, Swing
    <3>3. r # q /\ phase[r] = "ready"
      BY <1>1, <1>3, <3>1, <3>2 DEF Knows, Swings, Ctor
    <3> QED
      BY <1>14, <1>15, <3>1, <3>2, <3>3
  <2> QED
    BY <2>1, <2>2
<1>26. \A u \in Threads : Advance(R, u)'
  <2> TAKE u \in Threads
  <2> SUFFICES ASSUME NEW r \in Queues, r = loc[u].queue, pc[u] \in Advances,
                      loc[u].head = metaHead[r]
               PROVE  /\ Len(R[r]) >= 2 /\ loc[u].next = Word(R, r, 2)'
                      /\ pc[u] = "deqCas" => loc[u].val = data[R[r][2]]
    <3>1. pc'[u] \in Advances => pc[u] \in Advances /\ pc'[u] = pc[u]
      BY <1>1, <1>9 DEF Advances
    <3> QED
      BY <1>1, <1>2, <1>19, <3>1 DEF Advance, Advances
  <2>1. /\ Len(S[r]) >= 2 /\ loc[u].next = Word(S, r, 2)
        /\ pc[u] = "deqCas" => loc[u].val = data[S[r][2]]
    BY DEF Structure, Threadwise, Advance
  <2>2. 2 \in 1 .. Len(S[r]) /\ Len(R[r]) >= 2 /\ R[r][2] = S[r][2]
    BY <1>1, <1>5, <1>12, <2>1, ListFacts
  <2> QED
    BY <1>13, <2>1, <2>2
<1>27. InList(R, n) /\ (\A i : InList(S, i) => InList(R, i))
       /\ \A i : InList(R, i) => InList(S, i) \/ i = n
  <2>1. \A r \in Queues : \A k \in 1 .. Len(S[r]) : k \in 1 .. Len(R[r]) /\ R[r][k] = S[r][k]
    BY <1>5, <1>12
  <2>2. \A r \in Queues : \A k \in 1 .. Len(R[r]) :
          R[r][k] = n \/ (k \in 1 .. Len(S[r]) /\ R[r][k] = S[r][k])
    BY <1>5, <1>12
  <2>3. L + 1 \in 1 .. Len(R[q])
    BY <1>5, <1>12
  <2>4. InList(R, n)
    BY <1>12, <2>3 DEF InList
  <2>5. \A i : InList(S, i) => InList(R, i)
    BY <2>1 DEF InList
  <2>6. \A i : InList(R, i) => InList(S, i) \/ i = n
    BY <2>2 DEF InList
  <2> QED
    BY <2>4, <2>5, <2>6
<1>28. \A u \in Threads : End(R, u)'
  <2> TAKE u \in Threads
  <2> SUFFICES ASSUME pc[u] # "idle", loc[u].tail # ZeroMeta,
                      GetRealAddr(nextMeta'[GetRealAddr(loc[u].tail)]) = NULL
               PROVE  \/ InList(R, GetRealAddr(loc[u].tail))
                      \/ \E x \in Threads : /\ pc'[x] \in Built
                                            /\ GetRealAddr(loc[x].new) = GetRealAddr(loc[u].tail)
    BY <1>2, <1>19 DEF End, InList
  <2>1. GetRealAddr(loc[u].tail) # o
    BY <1>4, <1>7, <1>8
  <2>2. nextMeta'[GetRealAddr(loc[u].tail)] = nextMeta[GetRealAddr(loc[u].tail)]
    BY <1>1, <1>8, <2>1 DEF TypeOK
  <2>3. \/ InList(S, GetRealAddr(loc[u].tail))
        \/ \E x \in Threads : pc[x] \in Built /\ GetRealAddr(loc[x].new) = GetRealAddr(loc[u].tail)
    BY <2>2 DEF Structure, Threadwise, End
  <2>4. \A x \in Threads : pc[x] \in Built =>
          pc'[x] \in Built \/ GetRealAddr(loc[x].new) = n
    BY <1>3, <1>4, <1>9
  <2> QED
    BY <1>27, <2>3, <2>4
<1>29. PrivateInv(R)'
  <2>1. Private(t)' = {} /\ Private(t) = {n}
    BY <1>1, <1>3, <1>4, <1>9 DEF Private
  <2>2. \A u \in Threads \ {t} : Private(u)' = Private(u)
    BY <1>2, <1>9 DEF Private
  <2>3. \A i : InList(R, i)' <=> InList(R, i)
    BY DEF InList
  <2> QED
    BY <1>1, <1>27, <2>1, <2>2, <2>3 DEF Structure, PrivateInv
<1>30. Structure(R)'
  BY <1>10, <1>17, <1>18, <1>20, <1>21, <1>22, <1>24, <1>25, <1>26, <1>28, <1>29
     DEF Structure, Threadwise
<1>31. R = [S EXCEPT ![loc[t].queue] = Append(@, GetRealAddr(loc[t].new))]
  BY <1>3, <1>4, <1>11
<1> QED
  BY <1>12, <1>30, <1>31

LEMMA PairCounted ==
    ASSUME NEW x, NEW y, x # y PROVE Cardinality({x, y}) = 2
<1>1. Cardinality({x}) = 1 /\ IsFiniteSet({x})
  BY FS_Singleton
<1>2. Cardinality({x} \cup {y}) = 1 + 1
  BY <1>1, FS_AddElement
<1>3. {x} \cup {y} = {x, y}
  OBVIOUS
<1> QED
  BY <1>2, <1>3

\* The CAS of metaHead_ moves the head to the node after it.
LEMMA AdvancePlace ==
    ASSUME NEW S \in Lists, Structure(S), NEW t \in Threads, pc[t] = "deqCas",
           metaHead[loc[t].queue] = loc[t].head
    PROVE  LET q == loc[t].queue
           IN  /\ q \in Queues /\ phase[q] = "ready"
               /\ Len(S[q]) \in Nat /\ Len(S[q]) >= 2
               /\ GetRealAddr(loc[t].head) = S[q][1]
               /\ loc[t].next = Word(S, q, 2) /\ loc[t].next \in Words
               /\ GetRealAddr(loc[t].next) = S[q][2]
               /\ loc[t].next = nextMeta[S[q][1]]
               /\ loc[t].val = data[S[q][2]] /\ loc[t].val \in Values
<1>1. TypeOK /\ ListsInv(S) /\ Knows(t) /\ Advance(S, t)
  BY DEF Structure, Threadwise
<1>2. PICK q \in Queues : q = loc[t].queue
  BY <1>1, LocalsTyped DEF Knows
<1>3. /\ phase[q] = "ready" /\ Len(S[q]) >= 2 /\ loc[t].next = Word(S, q, 2)
      /\ loc[t].val = data[S[q][2]]
  BY <1>1, <1>2 DEF Knows, Ctor, Advance, Advances
<1>4. Len(S[q]) \in Nat /\ 1 \in 1 .. Len(S[q]) /\ 2 \in 1 .. Len(S[q])
  BY <1>1, <1>3, ListFacts
<1>5. /\ GetRealAddr(loc[t].head) = S[q][1]
      /\ GetRealAddr(loc[t].next) = S[q][2] /\ loc[t].next \in Words
  BY <1>1, <1>2, <1>3, <1>4, ListFacts DEF Word
<1>6. loc[t].next = nextMeta[S[q][1]]
  BY <1>3 DEF Word
<1>7. data[S[q][2]] \in Values
  BY <1>1, <1>4 DEF ListsInv
<1> QED
  BY <1>2, <1>3, <1>4, <1>5, <1>6, <1>7

LEMMA DeqAdvanceKeeps ==
    ASSUME NEW S \in Lists, Structure(S), CountInv(S), NEW t \in Threads, DeqAdvance(t),
           pc'[t] = "deqFree"
    PROVE  \E R \in Lists : R = [S EXCEPT ![loc[t].queue] = Tail(@)] /\ Structure(R)'
<1>1. /\ TypeOK /\ ListsInv(S) /\ (\A u \in Threads : Knows(u)) /\ pc[t] = "deqCas"
      /\ phase' = phase /\ metaTail' = metaTail /\ metaCnt' = metaCnt
      /\ num' = num /\ data' = data /\ nextId' = nextId /\ nextMeta' = nextMeta /\ inUse' = inUse
  BY DEF Structure, Threadwise, DeqAdvance, nodeVars
<1>2. /\ metaHead[loc[t].queue] = loc[t].head
      /\ metaHead' = [metaHead EXCEPT ![loc[t].queue] = loc[t].next]
      /\ loc' = [loc EXCEPT ![t] = [loc[t] EXCEPT !.tail = ZeroMeta, !.next = ZeroMeta]]
      /\ Goto(t, "deqFree")
  BY <1>1 DEF DeqAdvance, Goto, TypeOK
<1>3. PICK q \in Queues, m \in Words : q = loc[t].queue /\ m = loc[t].next
  BY <1>1, <1>2, AdvancePlace
<1>4. PICK L \in Nat : L = Len(S[q]) /\ L >= 2
  BY <1>1, <1>2, <1>3, AdvancePlace
<1>5. /\ phase[q] = "ready" /\ m = Word(S, q, 2) /\ m = nextMeta[S[q][1]]
      /\ GetRealAddr(m) = S[q][2] /\ GetRealAddr(loc[t].head) = S[q][1]
      /\ loc[t].val \in Values
  BY <1>1, <1>2, <1>3, AdvancePlace
<1>6. PICK R : R = [S EXCEPT ![q] = Tail(S[q])]
  OBVIOUS
<1>7. /\ R \in Lists /\ Len(R[q]) = L - 1
      /\ \A k \in 1 .. L - 1 : R[q][k] = S[q][k + 1]
      /\ \A r \in Queues \ {q} : R[r] = S[r]
  <2>1. S[q] \in Seq(Nodes) /\ S[q] # <<>>
    BY <1>4 DEF Lists
  <2>2. Tail(S[q]) \in Seq(Nodes) /\ Len(Tail(S[q])) = L - 1
        /\ \A k \in 1 .. L - 1 : Tail(S[q])[k] = S[q][k + 1]
    BY <1>4, <2>1
  <2> QED
    BY <1>6, <2>2 DEF Lists
<1>8. /\ metaHead' \in [Queues -> Words] /\ metaHead'[q] = m
      /\ \A r \in Queues \ {q} : metaHead'[r] = metaHead[r]
  BY <1>1, <1>2, <1>3 DEF TypeOK
<1>9. /\ pc' \in [Threads -> Labels] /\ pc'[t] = "deqFree"
      /\ \A u \in Threads \ {t} : pc'[u] = pc[u]
  BY <1>1, <1>2, Moved DEF Labels
<1>10. /\ loc' \in [Threads -> Locals] /\ \A u \in Threads \ {t} : loc'[u] = loc[u]
       /\ loc'[t].queue = q /\ loc'[t].tail = ZeroMeta /\ loc'[t].head = loc[t].head
       /\ loc'[t].val = loc[t].val
  <2>1. loc \in [Threads -> Locals] /\ loc[t] \in Locals
    BY <1>1 DEF TypeOK
  <2>2. [loc[t] EXCEPT !.tail = ZeroMeta, !.next = ZeroMeta] \in Locals
    BY <2>1, WordFacts DEF Locals
  <2> QED
    BY <1>2, <1>3, <2>1, <2>2 DEF Locals
<1>11. TypeOK'
  BY <1>1, <1>8, <1>9, <1>10 DEF TypeOK
\* The list of q has moved up by one.
<1>12. \A k \in 1 .. L - 1 : /\ k + 1 \in 1 .. L /\ k + 1 \in 1 .. Len(S[q])
                             /\ R[q][k] = S[q][k + 1]
                             /\ Word(R, q, k)' = Word(S, q, k + 1)
  <2> TAKE k \in 1 .. L - 1
  <2>1. k + 1 \in 1 .. L /\ R[q][k] = S[q][k + 1]
    BY <1>4, <1>7
  <2>2. CASE k = 1
    <3>1. k + 1 = 2
      BY <2>2
    <3> QED
      BY <1>4, <1>5, <1>8, <2>1, <2>2, <3>1 DEF Word
  <2>3. CASE k # 1
    <3>1. k - 1 \in 1 .. L - 1 /\ k - 1 + 1 = k /\ k + 1 - 1 = k /\ k + 1 # 1
      BY <1>4, <2>3
    <3>2. R[q][k - 1] = S[q][k]
      BY <1>7, <3>1
    <3> QED
      BY <1>1, <1>4, <2>1, <2>3, <3>1, <3>2 DEF Word
  <2> QED
    BY <2>2, <2>3
<1>13. \A r \in Queues \ {q} : /\ R[r] = S[r] /\ LastWord(R, r)' = LastWord(S, r)
                               /\ \A k \in 1 .. Len(S[r]) : Word(R, r, k)' = Word(S, r, k)
  BY <1>1, <1>7, <1>8 DEF LastWord, Word
<1>14. LastWord(R, q)' = LastWord(S, q)
  <2>1. L - 1 \in 1 .. L - 1 /\ L - 1 + 1 = L
    BY <1>4
  <2>2. Word(R, q, L - 1)' = Word(S, q, L)
    BY <1>12, <2>1
  <2>3. LastWord(R, q)' = Word(R, q, L - 1)'
    BY <1>7 DEF LastWord
  <2> QED
    BY <1>4, <2>2, <2>3 DEF LastWord
<1>15. \A r \in Queues : Lagging(R, r)' <=> Lagging(S, r)
  BY <1>1, <1>13, <1>14 DEF Lagging
<1>16. ListsInv(R)'
  <2>1. \A r \in Queues : phase'[r] = "ready" <=> Len(R[r]) > 0
    BY <1>1, <1>4, <1>5, <1>7 DEF ListsInv
  <2>2. ASSUME NEW r \in Queues, NEW k \in 1 .. Len(R[r])
        PROVE  /\ GetRealAddr(Word(R, r, k)') = R[r][k] /\ nextId'[R[r][k]] = r
               /\ R[r][k] \in inUse'
               /\ k = Len(R[r]) => nextMeta'[R[r][k]] = EndOf(LastWord(R, r)')
               /\ k # 1 => data'[R[r][k]] \in Values
    <3>1. CASE r # q
      BY <1>1, <1>13, <3>1 DEF ListsInv
    <3>2. CASE r = q
      <4>1. k \in 1 .. L - 1 /\ (k = Len(R[q]) => k + 1 = Len(S[q])) /\ k + 1 # 1
        BY <1>4, <1>7, <3>2
      <4> QED
        BY <1>1, <1>12, <1>14, <3>2, <4>1 DEF ListsInv
    <3> QED
      BY <3>1, <3>2
  <2>3. ASSUME NEW r \in Queues, NEW s \in Queues, NEW i \in 1 .. Len(R[r]), NEW j \in 1 .. Len(R[s]),
               R[r][i] = R[s][j]
        PROVE  r = s /\ i = j
    <3>1. (r = q /\ i + 1 \in 1 .. Len(S[r]) /\ R[r][i] = S[r][i + 1])
            \/ (r # q /\ i \in 1 .. Len(S[r]) /\ R[r][i] = S[r][i])
      BY <1>7, <1>12
    <3>2. (s = q /\ j + 1 \in 1 .. Len(S[s]) /\ R[s][j] = S[s][j + 1])
            \/ (s # q /\ j \in 1 .. Len(S[s]) /\ R[s][j] = S[s][j])
      BY <1>7, <1>12
    <3>3. i \in Nat /\ j \in Nat
      BY <1>4, <1>7, <1>13
    <3> QED
      BY <1>1, <2>3, <3>1, <3>2, <3>3 DEF ListsInv
  <2> QED
    BY <2>1, <2>2, <2>3 DEF ListsInv
\* With one element left the tail has caught up.
<1>17. Lagging(S, q) => L >= 3
  <2>0. \A i \in Nat : i >= 2 /\ i # 2 => i >= 3
    OBVIOUS
  <2> SUFFICES ASSUME Lagging(S, q), L = 2 PROVE FALSE
    BY <1>4, <2>0
  <2>1. PICK u \in Threads : loc[u].queue = q /\ pc[u] = "enqSwing"
    BY <1>5 DEF Structure, TailInv
  <2>2. u # t /\ {t, u} \in SUBSET At(q, Pending)
    BY <1>1, <1>3, <2>1 DEF At, Within, Pending, DeqLoop
  <2>3. IsFiniteSet(At(q, Pending))
    <3>1. At(q, Pending) \in SUBSET Threads
      BY DEF At, Within
    <3> QED
      BY <3>1, QueueAssumption, FS_Subset
  <2>4. Cardinality({t, u}) = 2
    BY <2>2, PairCounted
  <2>5. Cardinality({t, u}) <= Cardinality(At(q, Pending))
    BY <2>2, <2>3, FS_Subset
  <2>6. Cardinality(At(q, Pending)) \in Nat
    BY <2>3, FS_CardinalityType
  <2>7. Cardinality(At(q, Pending)) <= L - 1
    BY <1>4, <1>5 DEF CountInv
  <2> QED
    BY <2>4, <2>5, <2>6, <2>7
<1>18. TailInv(R)'
  <2> SUFFICES ASSUME NEW r \in Queues, phase[r] = "ready", Lagging(S, r)
               PROVE  /\ Len(R[r]) >= 2 /\ metaTail[r] = Word(R, r, Len(R[r]) - 1)'
                      /\ \E u \in Threads :
                           loc'[u].queue = r /\ pc'[u] = "enqSwing" /\ loc'[u].tail = metaTail[r]
    BY <1>1, <1>15 DEF TailInv
  <2>1. /\ Len(S[r]) >= 2 /\ metaTail[r] = Word(S, r, Len(S[r]) - 1)
        /\ \E u \in Threads :
             loc[u].queue = r /\ pc[u] = "enqSwing" /\ loc[u].tail = metaTail[r]
    BY DEF Structure, TailInv
  <2>2. \E u \in Threads :
          loc'[u].queue = r /\ pc'[u] = "enqSwing" /\ loc'[u].tail = metaTail[r]
    BY <1>1, <1>9, <1>10, <2>1
  <2>3. CASE r # q
    <3>1. Len(S[r]) - 1 \in 1 .. Len(S[r])
      BY <1>1, <2>1, ListFacts
    <3> QED
      BY <1>13, <2>1, <2>2, <2>3, <3>1
  <2>4. CASE r = q
    <3>1. Len(R[q]) >= 2 /\ L - 2 \in 1 .. L - 1 /\ L - 2 + 1 = L - 1 /\ Len(R[q]) - 1 = L - 2
      BY <1>4, <1>7, <1>17, <2>4
    <3>2. Word(R, q, L - 2)' = Word(S, q, L - 1)
      BY <1>12, <3>1
    <3>3. Word(R, q, Len(R[q]) - 1)' = Word(R, q, L - 2)'
      BY <3>1
    <3> QED
      BY <1>4, <2>1, <2>2, <2>4, <3>1, <3>2, <3>3
  <2> QED
    BY <2>3, <2>4
<1>19. /\ \A u \in Threads : pc'[u] # "idle" <=> pc[u] # "idle"
       /\ \A u \in Threads : pc'[u] \in Building \cup Swings \cup Ctor => u # t
       /\ \A u \in Threads : pc[u] # "idle" => loc[u].queue \in Queues
       /\ \A u \in Threads : loc'[u].queue = loc[u].queue /\ loc'[u].head = loc[u].head
  <2>1. \A u \in Threads : pc[u] # "idle" => loc[u].queue \in Queues
    BY <1>1, LocalsTyped DEF Knows
  <2> QED
    BY <1>1, <1>3, <1>9, <1>10, <2>1 DEF Building, Built, Ctor, Swings
<1>20. CtorInv'
  BY <1>1, <1>9, <1>19 DEF Structure, CtorInv, Ctor
<1>21. BuildInv'
  <2> SUFFICES ASSUME NEW u \in Threads, NEW w \in Threads, pc[w] \in Building, w # t,
                      pc[u] # "idle", loc[u].queue = loc[w].queue
               PROVE  loc'[u].tail # loc[w].new /\ loc[u].head # loc[w].new
    BY <1>9, <1>10, <1>19 DEF BuildInv
  <2>1. loc[w].new # ZeroMeta
    BY <1>1, WordFacts DEF Knows
  <2> QED
    BY <1>10, <2>1 DEF Structure, BuildInv
<1>22. \A u \in Threads \ {t} : Knows(u)'
  BY <1>1, <1>9, <1>10 DEF Knows
<1>23. Knows(t)'
  <2>1. GetRealAddr(loc[t].head) # NULL /\ GetRealAddr(m) # NULL
    <3>1. 1 \in 1 .. Len(S[q]) /\ 2 \in 1 .. Len(S[q])
      BY <1>4
    <3> QED
      BY <1>1, <1>5, <3>1, ListFacts
  <2>2. GetRealAddr(nextMeta'[GetRealAddr(loc'[t].head)]) # NULL
    BY <1>1, <1>5, <1>10, <2>1
  <2>3. q # NULL
    BY WordFacts
  <2> QED
    BY <1>1, <1>5, <1>9, <1>10, <2>1, <2>2, <2>3
       DEF Knows, Ctor, Building, Built, HasTail, HasHead, HasNext, Swings, Advances
<1>24. \A u \in Threads : Ahead(R, u)'
  <2> TAKE u \in Threads
  <2> SUFFICES ASSUME NEW r \in Queues, r = loc[u].queue, pc[u] # "idle", phase[r] = "ready"
               PROVE  /\ Lagging(R, r)' => loc'[u].tail # LastWord(R, r)'
                      /\ \A k \in 2 .. Len(R[r]) : loc[u].head # Word(R, r, k)'
    BY <1>1, <1>19 DEF Ahead
  <2>1. /\ Lagging(S, r) => loc[u].tail # LastWord(S, r)
        /\ \A k \in 2 .. Len(S[r]) : loc[u].head # Word(S, r, k)
    BY DEF Structure, Threadwise, Ahead
  <2>2. LastWord(R, r)' = LastWord(S, r) /\ LastWord(S, r) # ZeroMeta
    <3>1. Len(S[r]) \in 1 .. Len(S[r])
      BY <1>1, ListFacts
    <3> QED
      BY <1>1, <1>13, <1>14, <3>1, ListFacts DEF LastWord
  <2>3. \A k \in 2 .. Len(R[r]) : loc[u].head # Word(R, r, k)'
    <3>1. CASE r # q
      BY <1>1, <1>13, <2>1, <3>1, ListFacts
    <3>2. CASE r = q
      <4>1. \A k \in 2 .. Len(R[q]) : k \in 1 .. L - 1 /\ k + 1 \in 2 .. Len(S[q])
        BY <1>4, <1>7
      <4> QED
        BY <1>12, <2>1, <3>2, <4>1
    <3> QED
      BY <3>1, <3>2
  <2> QED
    BY <1>10, <1>15, <2>1, <2>2, <2>3
<1>25. \A u \in Threads : Swing(R, u)'
  <2> TAKE u \in Threads
  <2> SUFFICES ASSUME NEW r \in Queues, r = loc[u].queue, pc[u] \in Swings, u # t,
                      loc[u].tail = metaTail[r]
               PROVE  /\ Lagging(R, r)'
                      /\ LastWord(R, r)' = IF pc[u] = "enqSwing" THEN loc[u].new ELSE loc[u].next
    <3>1. pc'[u] \in Swings => pc'[u] # "idle"
      BY DEF Swings
    <3> QED
      BY <1>1, <1>9, <1>10, <1>19, <3>1 DEF Swing
  <2> QED
    BY <1>13, <1>14, <1>15 DEF Structure, Threadwise, Swing
<1>26. \A u \in Threads : Advance(R, u)'
  <2> TAKE u \in Threads
  <2> SUFFICES ASSUME NEW r \in Queues, r = loc[u].queue, pc[u] \in Advances, u # t,
                      loc[u].head = metaHead'[r]
               PROVE  /\ Len(R[r]) >= 2 /\ loc[u].next = Word(R, r, 2)'
                      /\ pc[u] = "deqCas" => loc[u].val = data[R[r][2]]
    <3>1. pc'[u] \in Advances => pc'[u] # "idle" /\ u # t
      BY <1>9 DEF Advances
    <3> QED
      BY <1>1, <1>9, <1>10, <1>19, <3>1 DEF Advance
  <2>1. CASE r # q
    <3>1. /\ Len(S[r]) >= 2 /\ loc[u].next = Word(S, r, 2)
          /\ pc[u] = "deqCas" => loc[u].val = data[S[r][2]]
      BY <1>8, <2>1 DEF Structure, Threadwise, Advance
    <3>2. 2 \in 1 .. Len(S[r])
      BY <1>1, <3>1, ListFacts
    <3> QED
      BY <1>13, <2>1, <3>1, <3>2
  <2>2. CASE r = q
    <3>1. loc[u].head = Word(S, q, 2) /\ 2 \in 2 .. Len(S[q])
      BY <1>4, <1>5, <1>8, <2>2
    <3>2. pc[u] # "idle"
      BY DEF Advances
    <3> QED
      BY <1>5, <2>2, <3>1, <3>2 DEF Structure, Threadwise, Ahead
  <2> QED
    BY <2>1, <2>2
<1>27. /\ \A i : InList(R, i) => InList(S, i)
       /\ \A i : InList(S, i) => InList(R, i) \/ i = S[q][1]
       /\ ~InList(R, S[q][1])
  <2>1. ASSUME NEW i, InList(R, i) PROVE InList(S, i) /\ i # S[q][1]
    <3>1. PICK r \in Queues : \E k \in 1 .. Len(R[r]) : R[r][k] = i
      BY <2>1 DEF InList
    <3>2. PICK k \in 1 .. Len(R[r]) : R[r][k] = i
      BY <3>1
    <3>3. PICK j \in 1 .. Len(S[r]) : S[r][j] = i /\ (r = q => j # 1)
      <4>1. CASE r = q
        BY <1>7, <1>12, <3>2, <4>1
      <4>2. CASE r # q
        BY <1>7, <3>2, <4>2
      <4> QED
        BY <4>1, <4>2
    <3>4. 1 \in 1 .. Len(S[q])
      BY <1>4
    <3> QED
      BY <1>1, <3>3, <3>4 DEF InList, ListsInv
  <2>2. ASSUME NEW i, InList(S, i), i # S[q][1] PROVE InList(R, i)
    <3>1. PICK r \in Queues : \E k \in 1 .. Len(S[r]) : S[r][k] = i
      BY <2>2 DEF InList
    <3>2. PICK k \in 1 .. Len(S[r]) : S[r][k] = i
      BY <3>1
    <3>3. CASE r # q
      BY <1>7, <3>2, <3>3 DEF InList
    <3>4. CASE r = q
      <4>1. k # 1 /\ k - 1 \in 1 .. L - 1 /\ k - 1 + 1 = k
        BY <1>4, <2>2, <3>2, <3>4
      <4>2. R[q][k - 1] = i /\ k - 1 \in 1 .. Len(R[q])
        BY <1>7, <3>2, <3>4, <4>1
      <4> QED
        BY <4>2 DEF InList
    <3> QED
      BY <3>3, <3>4
  <2> QED
    BY <2>1, <2>2
<1>28. \A u \in Threads : End(R, u)'
  <2> TAKE u \in Threads
  <2> SUFFICES ASSUME pc[u] # "idle", u # t, loc[u].tail # ZeroMeta,
                      GetRealAddr(nextMeta[GetRealAddr(loc[u].tail)]) = NULL
               PROVE  \/ InList(R, GetRealAddr(loc[u].tail))
                      \/ \E x \in Threads : /\ pc'[x] \in Built
                                            /\ GetRealAddr(loc'[x].new) = GetRealAddr(loc[u].tail)
    BY <1>1, <1>10, <1>19 DEF End, InList
  <2>1. GetRealAddr(loc[u].tail) # S[q][1]
    <3>1. 2 \in 1 .. Len(S[q])
      BY <1>4
    <3> QED
      BY <1>1, <1>5, <3>1, ListFacts
  <2>2. \/ InList(S, GetRealAddr(loc[u].tail))
        \/ \E x \in Threads : pc[x] \in Built /\ GetRealAddr(loc[x].new) = GetRealAddr(loc[u].tail)
    BY DEF Structure, Threadwise, End
  <2>3. \A x \in Threads : pc[x] \in Built => pc'[x] \in Built /\ loc'[x] = loc[x]
    BY <1>1, <1>9, <1>10 DEF Built
  <2> QED
    BY <1>27, <2>1, <2>2, <2>3
<1>29. PrivateInv(R)'
  <2>1. Private(t)' = {S[q][1]} /\ Private(t) = {}
    BY <1>1, <1>5, <1>9, <1>10 DEF Private
  <2>2. \A u \in Threads \ {t} : Private(u)' = Private(u)
    BY <1>9, <1>10 DEF Private
  <2>3. \A i : InList(R, i)' <=> InList(R, i)
    BY DEF InList
  <2>4. InList(S, S[q][1]) /\ S[q][1] \in inUse
    <3>1. 1 \in 1 .. Len(S[q])
      BY <1>4
    <3> QED
      BY <1>1, <3>1, ListFacts
  <2> QED
    BY <1>1, <1>27, <2>1, <2>2, <2>3, <2>4 DEF Structure, PrivateInv
<1>30. Structure(R)'
  BY <1>11, <1>16, <1>18, <1>20, <1>21, <1>22, <1>23, <1>24, <1>25, <1>26, <1>28, <1>29
     DEF Structure, Threadwise
<1>31. R = [S EXCEPT ![loc[t].queue] = Tail(@)]
  BY <1>3, <1>6
<1> QED
  BY <1>7, <1>30, <1>31

-------------------------------------------------------------------------------
\* The first n elements of a sequence.
Upto(s, n) == [i \in 1 .. n |-> s[i]]

LEMMA UptoFacts ==
    ASSUME NEW s \in Seq(Nodes), NEW L \in Nat, L = Len(s), NEW n \in 0 .. L
    PROVE  /\ Upto(s, n) \in Seq(Nodes) /\ Len(Upto(s, n)) = n
           /\ \A i \in 1 .. n : Upto(s, n)[i] = s[i]
           /\ n # L => Append(Upto(s, n), s[n + 1]) = Upto(s, n + 1)
           /\ Upto(s, L) = s
<1>1. n \in Nat /\ DOMAIN s = 1 .. L /\ \A i \in 1 .. L : s[i] \in Nodes
  OBVIOUS
<1>2. \A k \in 0 .. L : /\ Upto(s, k) \in Seq(Nodes) /\ Len(Upto(s, k)) = k
                        /\ DOMAIN Upto(s, k) = 1 .. k
                        /\ \A i \in 1 .. k : Upto(s, k)[i] = s[i]
  <2> TAKE k \in 0 .. L
  <2>1. k \in Nat /\ \A i \in 1 .. k : s[i] \in Nodes
    BY <1>1
  <2>2. Upto(s, k) \in [1 .. k -> Nodes] /\ DOMAIN Upto(s, k) = 1 .. k
        /\ \A i \in 1 .. k : Upto(s, k)[i] = s[i]
    BY <2>1 DEF Upto
  <2>3. Upto(s, k) \in Seq(Nodes)
    BY <2>1, <2>2
  <2> QED
    BY <2>1, <2>2, <2>3
<1>3. ASSUME n # L PROVE Append(Upto(s, n), s[n + 1]) = Upto(s, n + 1)
  <2>1. n + 1 \in 0 .. L /\ n + 1 \in 1 .. L
    BY <1>1, <1>3
  <2>2. PICK a \in Seq(Nodes), x \in Nodes :
          a = Upto(s, n) /\ x = s[n + 1] /\ Len(a) = n /\ \A i \in 1 .. n : a[i] = s[i]
    BY <1>1, <1>2, <2>1
  <2>3. /\ Append(a, x) \in Seq(Nodes) /\ Len(Append(a, x)) = n + 1
        /\ Append(a, x)[n + 1] = x
        /\ \A i \in 1 .. n : Append(a, x)[i] = a[i]
    BY <1>1, <2>2
  <2>4. \A i \in 1 .. n + 1 : i \in 1 .. n \/ i = n + 1
    BY <1>1
  <2>5. \A i \in 1 .. n + 1 : Append(a, x)[i] = Upto(s, n + 1)[i]
    BY <1>2, <2>1, <2>2, <2>3, <2>4
  <2>6. Upto(s, n + 1) \in Seq(Nodes) /\ Len(Upto(s, n + 1)) = n + 1
    BY <1>2, <2>1
  <2> QED
    BY <2>2, <2>3, <2>5, <2>6
<1>4. Upto(s, L) = s
  <2>1. L \in 0 .. L
    BY <1>1
  <2> QED
    BY <1>1, <1>2, <2>1
<1> QED
  BY <1>2, <1>3, <1>4

\* No list is longer than there are nodes.
LEMMA ListCounted ==
    ASSUME NEW S \in Lists, Structure(S), NEW q \in Queues
    PROVE  /\ Cardinality(Nodes) \in Nat /\ Len(S[q]) <= Cardinality(Nodes)
           /\ Cardinality(Range(S[q])) = Len(S[q]) /\ IsFiniteSet(Range(S[q]))
<1>1. S[q] \in Seq(Nodes) /\ Len(S[q]) \in Nat
  BY ListFacts DEF Structure
<1>2. Range(S[q]) \in SUBSET Nodes
  BY <1>1 DEF Range
<1>3. /\ \A i, j \in 1 .. Len(S[q]) : S[q][i] = S[q][j] => i = j
      /\ \A i \in 1 .. Len(S[q]) : S[q][i] \in Range(S[q])
      /\ \A x \in Range(S[q]) : \E i \in 1 .. Len(S[q]) : S[q][i] = x
  <2>1. DOMAIN S[q] = 1 .. Len(S[q])
    BY <1>1
  <2> QED
    BY <2>1 DEF Structure, ListsInv, Range
<1>4. PICK n \in Nat : n = Len(S[q])
  BY <1>1
<1>5. PICK f : f = S[q]
  OBVIOUS
<1>6. Cardinality(Range(S[q])) = n /\ IsFiniteSet(Range(S[q]))
  BY <1>3, <1>4, <1>5, ElementsCounted
<1>7. /\ Cardinality(Range(S[q])) <= Cardinality(Nodes) /\ Cardinality(Nodes) \in Nat
  BY <1>2, QueueAssumption, FS_Subset, FS_CardinalityType
<1> QED
  BY <1>4, <1>6, <1>7

\* Following next_ from the head finds the list.
LEMMA ChainIsList ==
    ASSUME NEW S \in Lists, Structure(S), NEW q \in Queues, phase[q] = "ready"
    PROVE  Chain(q) = S[q]
<1>1. PICK s \in Seq(Nodes), L \in Nat, C \in Nat :
        s = S[q] /\ L = Len(s) /\ L >= 1 /\ C = Cardinality(Nodes) /\ L <= C
  BY ListFacts, ListCounted DEF Structure
<1>9. \A n \in 0 .. L : /\ Upto(s, n) \in Seq(Nodes) /\ Len(Upto(s, n)) = n
                        /\ \A i \in 1 .. n : Upto(s, n)[i] = s[i]
                        /\ n # L => Append(Upto(s, n), s[n + 1]) = Upto(s, n + 1)
                        /\ Upto(s, L) = s
  <2> TAKE n \in 0 .. L
  <2>1. L = Len(s)
    BY <1>1
  <2> QED
    BY <2>1, UptoFacts
<1> DEFINE W == [k \in 1 .. C + 1 |-> Upto(s, IF k <= L THEN k ELSE L)]
           F(f) == [k \in 1 .. C + 1 |->
                      IF k = 1 THEN <<GetRealAddr(metaHead[q])>>
                      ELSE IF \/ Len(f[k - 1]) < k - 1
                              \/ GetRealAddr(nextMeta[f[k - 1][k - 1]]) = NULL
                           THEN f[k - 1]
                           ELSE Append(f[k - 1], GetRealAddr(nextMeta[f[k - 1][k - 1]]))]
<1>2. Chain(q) = (CHOOSE f : f = F(f))[C + 1]
  BY <1>1 DEF Chain
<1>3. \A k \in 1 .. L : /\ k = 1 => GetRealAddr(metaHead[q]) = s[1]
                        /\ k = L => GetRealAddr(nextMeta[s[k]]) = NULL
                        /\ k # L => GetRealAddr(nextMeta[s[k]]) = s[k + 1] /\ s[k + 1] # NULL
  <2> TAKE k \in 1 .. L
  <2>1. k \in 1 .. Len(S[q])
    BY <1>1
  <2>2. k # L => k + 1 \in 1 .. Len(S[q]) /\ nextMeta[s[k]] = Word(S, q, k + 1)
    BY <1>1, <2>1, LinkFacts DEF Structure
  <2>3. k = L => GetRealAddr(nextMeta[s[k]]) = NULL
    BY <1>1, <2>1, LinkFacts DEF Structure
  <2>4. k = 1 => GetRealAddr(metaHead[q]) = s[1]
    BY <1>1, <2>1, ListFacts DEF Structure, Word
  <2>5. k # L => GetRealAddr(nextMeta[s[k]]) = s[k + 1] /\ s[k + 1] # NULL
    BY <1>1, <2>2, ListFacts DEF Structure
  <2> QED
    BY <2>3, <2>4, <2>5
<1>4. W = F(W)
  <2> SUFFICES ASSUME NEW k \in 1 .. C + 1 PROVE W[k] = F(W)[k]
    OBVIOUS
  <2>1. CASE k = 1
    <3>1. W[k] = Upto(s, 1) /\ F(W)[k] = <<s[1]>>
      BY <1>1, <1>3, <2>1
    <3>2. Upto(s, 1) = <<s[1]>>
      <4>1. 1 \in 0 .. L /\ 1 \in 1 .. 1
        BY <1>1
      <4>2. Upto(s, 1) \in Seq(Nodes) /\ Len(Upto(s, 1)) = 1 /\ Upto(s, 1)[1] = s[1]
        BY <1>9, <4>1
      <4> QED
        BY <4>2
    <3> QED
      BY <3>1, <3>2
  <2>2. CASE k # 1 /\ k <= L
    <3>1. /\ k - 1 \in 1 .. L /\ k - 1 \in 1 .. C + 1 /\ k - 1 # L /\ k - 1 + 1 = k /\ k - 1 <= L
          /\ k - 1 \in 0 .. L /\ ~(k - 1 < k - 1) /\ k - 1 \in 1 .. k - 1
      BY <1>1, <2>2
    <3>2. PICK p \in Seq(Nodes) : p = Upto(s, k - 1) /\ Len(p) = k - 1 /\ p[k - 1] = s[k - 1]
                                  /\ Append(p, s[k]) = Upto(s, k)
      BY <1>9, <3>1
    <3>3. W[k - 1] = p
      BY <3>1, <3>2
    <3>4. GetRealAddr(nextMeta[p[k - 1]]) = s[k] /\ s[k] # NULL
      BY <1>3, <3>1, <3>2
    <3>5. F(W)[k] = Append(p, s[k])
      BY <2>2, <3>1, <3>2, <3>3, <3>4
    <3> QED
      BY <2>2, <3>2, <3>5
  <2>3. CASE ~(k <= L)
    <3>1. /\ k # 1 /\ k - 1 \in 1 .. C + 1 /\ (k - 1 <= L => k - 1 = L) /\ (k - 1 # L => L < k - 1)
          /\ L \in 0 .. L /\ L \in 1 .. L
      BY <1>1, <2>3
    <3>2. PICK p \in Seq(Nodes) : p = Upto(s, L) /\ Len(p) = L /\ p[L] = s[L]
      BY <1>9, <3>1
    <3>3. W[k - 1] = p /\ W[k] = p
      BY <2>3, <3>1, <3>2
    <3>4. k - 1 = L => GetRealAddr(nextMeta[p[k - 1]]) = NULL
      BY <1>3, <3>1, <3>2
    <3>5. F(W)[k] = p
      BY <3>1, <3>2, <3>3, <3>4
    <3> QED
      BY <3>3, <3>5
  <2> QED
    BY <2>1, <2>2, <2>3
<1> HIDE DEF F
<1>5. PICK g : g = F(g) /\ Chain(q) = g[C + 1]
  BY <1>2, <1>4
<1> USE DEF F
<1>6. ASSUME NEW k \in 1 .. C + 1, k = 1 \/ g[k - 1] = W[k - 1] PROVE g[k] = W[k]
  <2>1. g[k] = F(g)[k] /\ W[k] = F(W)[k]
    BY <1>4, <1>5
  <2> HIDE DEF W
  <2>2. CASE k = 1
    BY <2>1, <2>2
  <2>3. CASE k # 1
    BY <1>6, <2>1, <2>3
  <2> QED
    BY <2>2, <2>3
<1>7. g[C + 1] = W[C + 1]
  <2>0. PICK f, w : f = g /\ w = W
    OBVIOUS
  <2>1. PICK N \in Nat : N = C + 1
    BY <1>1
  <2>2. \A k \in 1 .. N : k = 1 \/ f[k - 1] = w[k - 1] => f[k] = w[k]
    <3> HIDE DEF W
    <3> QED
      BY <1>6, <2>0, <2>1
  <2> HIDE DEF W, F
  <2>3. \A k \in 1 .. N : f[k] = w[k]
    BY <2>2, SameFromOne, Z3T(60)
  <2>4. N \in 1 .. N
    BY <1>1, <2>1
  <2> QED
    BY <2>0, <2>1, <2>3, <2>4
<1>8. W[C + 1] = s
  <2>1. C + 1 \in 1 .. C + 1 /\ ~(C + 1 <= L) /\ L \in 0 .. L
    BY <1>1
  <2>2. Upto(s, L) = s
    BY <1>9, <2>1
  <2> QED
    BY <2>1, <2>2
<1> HIDE DEF W
<1> QED
  BY <1>1, <1>5, <1>7, <1>8

-------------------------------------------------------------------------------
LEMMA DeqFreeKeeps ==
    ASSUME NEW S \in Lists, Structure(S), NEW t \in Threads, DeqFree(t)
    PROVE  Structure(S)'
<1>1. /\ TypeOK /\ ListsInv(S) /\ (\A u \in Threads : Knows(u)) /\ pc[t] = "deqFree" /\ Return(t)
      /\ phase' = phase /\ metaTail' = metaTail /\ metaHead' = metaHead /\ metaCnt' = metaCnt
      /\ num' = num /\ data' = data /\ nextId' = nextId /\ nextMeta' = nextMeta
  BY DEF Structure, Threadwise, DeqFree, queueVars, nodeVars
<1>2. PICK n \in Nodes : n = GetRealAddr(loc[t].head) /\ ~InList(S, n)
  BY <1>1, HeldApart
<1>3. inUse' = inUse \ {n}
  BY <1>2 DEF DeqFree, NodePool!Free
<1>4. TypeOK'
  BY <1>1, <1>3, Returned DEF TypeOK
<1>5. /\ \A u \in Threads \ {t} : pc'[u] = pc[u] /\ loc'[u] = loc[u]
      /\ pc'[t] = "idle" /\ loc'[t].queue = NULL
      /\ loc'[t].tail = ZeroMeta /\ loc'[t].head = ZeroMeta
  BY <1>1, Returned
<1>6. ListsInv(S)'
  <2>1. \A q \in Queues : \A k \in 1 .. Len(S[q]) : S[q][k] # n
    BY <1>2 DEF InList
  <2>2. \A q \in Queues : \A k \in 1 .. Len(S[q]) : S[q][k] \in inUse'
    BY <1>1, <1>3, <2>1 DEF ListsInv
  <2>3. \A q \in Queues : \A k \in 1 .. Len(S[q]) : Word(S, q, k)' = Word(S, q, k)
    BY <1>1 DEF Word
  <2>4. \A q \in Queues : LastWord(S, q)' = LastWord(S, q)
    BY <1>1 DEF LastWord, Word
  <2> QED
    BY <1>1, <2>2, <2>3, <2>4 DEF ListsInv
<1>7. TailInv(S)'
  <2>1. ASSUME NEW q \in Queues, NEW u \in Threads,
               loc[u].queue = q /\ pc[u] = "enqSwing" /\ loc[u].tail = metaTail[q]
        PROVE  loc'[u].queue = q /\ pc'[u] = "enqSwing" /\ loc'[u].tail = metaTail[q]
    BY <1>1, <1>5, <2>1
  <2> QED
    BY <1>1, <2>1 DEF Structure, TailInv, Lagging, LastWord, Word
<1>8. BuildInv' /\ CtorInv'
  BY <1>5 DEF Structure, BuildInv, CtorInv, Building, Built, Ctor
<1>9. \A u \in Threads \ {t} : Knows(u)'
  BY <1>1, <1>5 DEF Knows
<1>10. Knows(t)'
  BY <1>5 DEF Knows, Ctor, Building, Built, HasTail, HasHead, HasNext, Swings, Advances
<1>11. \A u \in Threads : Ahead(S, u)' /\ Swing(S, u)' /\ Advance(S, u)'
  <2> TAKE u \in Threads
  <2>1. Ahead(S, u)'
    BY <1>1, <1>5 DEF Structure, Threadwise, Ahead, Lagging, LastWord, Word, Return, Goto, TypeOK
  <2>2. Swing(S, u)'
    BY <1>1, <1>5 DEF Structure, Threadwise, Swing, Swings, Lagging, LastWord, Word
  <2>3. Advance(S, u)'
    BY <1>1, <1>5 DEF Structure, Threadwise, Advance, Advances, Word
  <2> QED
    BY <2>1, <2>2, <2>3
<1>12. \A u \in Threads : End(S, u)'
  <2> TAKE u \in Threads
  <2>1. \A x \in Threads : pc[x] \in Built => pc'[x] \in Built /\ loc'[x] = loc[x]
    BY <1>1, <1>5 DEF Built
  <2> QED
    BY <1>1, <1>5, <2>1 DEF Structure, Threadwise, End, InList
<1>13. PrivateInv(S)'
  <2>1. Private(t) = {n} /\ Private(t)' = {}
    BY <1>1, <1>2, <1>5 DEF Private
  <2>2. \A u \in Threads \ {t} : Private(u)' = Private(u)
    BY <1>5 DEF Private
  <2>3. \A i : InList(S, i)' <=> InList(S, i)
    BY DEF InList
  <2> QED
    BY <1>2, <1>3, <2>1, <2>2, <2>3 DEF Structure, PrivateInv
<1> QED
  BY <1>4, <1>6, <1>7, <1>8, <1>9, <1>10, <1>11, <1>12, <1>13 DEF Structure, Threadwise

LEMMA ClearAllKeeps ==
    ASSUME NEW S \in Lists, Structure(S), NEW q \in Queues, ClearAll(q)
    PROVE  \E R \in Lists : R = [S EXCEPT ![q] = <<>>] /\ Structure(R)'
<1>1. /\ TypeOK /\ ListsInv(S) /\ (\A u \in Threads : Knows(u)) /\ phase[q] = "ready"
      /\ metaTail' = metaTail /\ metaHead' = metaHead /\ metaCnt' = metaCnt
      /\ num' = num /\ data' = data /\ nextId' = nextId /\ nextMeta' = nextMeta
      /\ pc' = pc /\ loc' = loc /\ \A u \in Threads : pc[u] = "idle"
  BY DEF Structure, Threadwise, ClearAll, nodeVars
<1>2. PICK R : R = [S EXCEPT ![q] = <<>>]
  OBVIOUS
<1>3. R \in Lists /\ R[q] = <<>> /\ Len(R[q]) = 0 /\ \A r \in Queues \ {q} : R[r] = S[r]
  BY <1>2 DEF Lists
<1>4. /\ phase' \in [Queues -> {"new", "ready", "cleared"}] /\ phase'[q] = "cleared"
      /\ \A r \in Queues \ {q} : phase'[r] = phase[r]
  BY <1>1 DEF ClearAll, TypeOK
<1>5. inUse' = inUse \ {S[q][k] : k \in 1 .. Len(S[q])}
  <2>1. inUse' = inUse \ Range(S[q])
    BY <1>1, ChainIsList DEF ClearAll, ChainNodes
  <2>2. DOMAIN S[q] = 1 .. Len(S[q])
    BY <1>1, ListFacts
  <2> QED
    BY <2>1, <2>2 DEF Range
<1>6. TypeOK'
  BY <1>1, <1>4, <1>5 DEF TypeOK
<1>7. \A r \in Queues \ {q} : \A k \in 1 .. Len(S[r]) :
        S[r][k] \in inUse' /\ Word(R, r, k)' = Word(S, r, k)
  BY <1>1, <1>3, <1>5 DEF ListsInv, Word
<1>8. \A r \in Queues \ {q} : LastWord(R, r)' = LastWord(S, r)
  BY <1>1, <1>3 DEF LastWord, Word
<1>9. ListsInv(R)'
  <2>1. \A r \in Queues : phase'[r] = "ready" <=> Len(R[r]) > 0
    BY <1>1, <1>3, <1>4 DEF ListsInv
  <2>2. ASSUME NEW r \in Queues, NEW k \in 1 .. Len(R[r])
        PROVE  /\ r # q
               /\ GetRealAddr(Word(R, r, k)') = R[r][k] /\ nextId'[R[r][k]] = r
               /\ R[r][k] \in inUse'
               /\ k = Len(R[r]) => nextMeta'[R[r][k]] = EndOf(LastWord(R, r)')
               /\ k # 1 => data'[R[r][k]] \in Values
    <3>1. r # q
      BY <1>3
    <3> QED
      BY <1>1, <1>3, <1>7, <1>8, <3>1 DEF ListsInv
  <2>3. ASSUME NEW r \in Queues, NEW s \in Queues, NEW i \in 1 .. Len(R[r]), NEW j \in 1 .. Len(R[s]),
               R[r][i] = R[s][j]
        PROVE  r = s /\ i = j
    <3>1. r # q /\ s # q
      BY <2>2
    <3> QED
      BY <1>1, <1>3, <2>3, <3>1 DEF ListsInv
  <2> QED
    BY <2>1, <2>2, <2>3 DEF ListsInv
<1>10. \A r \in Queues : phase[r] = "ready" => ~Lagging(S, r)
  BY <1>1 DEF Structure, TailInv
<1>11. TailInv(R)'
  <2> SUFFICES ASSUME NEW r \in Queues, phase'[r] = "ready", Lagging(R, r)' PROVE FALSE
    BY DEF TailInv
  <2>1. r # q /\ phase[r] = "ready"
    BY <1>4
  <2> QED
    BY <1>1, <1>8, <1>10, <2>1 DEF Lagging
<1>12. Threadwise(R)' /\ BuildInv' /\ CtorInv'
  <2>1. \A u \in Threads : Knows(u)'
    BY <1>1 DEF Knows, Ctor, Building, Built, HasTail, HasHead, HasNext, Swings, Advances
  <2> QED
    BY <1>1, <2>1 DEF Threadwise, Ahead, Swing, Swings, Advance, Advances, End,
                      BuildInv, Building, Built, CtorInv, Ctor
<1>13. PrivateInv(R)'
  <2>1. \A u \in Threads : Private(u)' = {} /\ Private(u) = {}
    BY <1>1 DEF Private
  <2>2. ASSUME NEW n \in inUse' PROVE InList(R, n)
    <3>1. InList(S, n)
      BY <1>5, <2>1 DEF Structure, PrivateInv
    <3>2. PICK r \in Queues : \E k \in 1 .. Len(S[r]) : S[r][k] = n
      BY <3>1 DEF InList
    <3>3. r # q
      BY <1>5, <3>2
    <3> QED
      BY <1>3, <3>2, <3>3 DEF InList
  <2>3. \A i : InList(R, i)' <=> InList(R, i)
    BY DEF InList
  <2> QED
    BY <2>1, <2>2, <2>3 DEF PrivateInv
<1>14. Structure(R)'
  BY <1>6, <1>9, <1>11, <1>12, <1>13 DEF Structure
<1> QED
  BY <1>2, <1>3, <1>14

-------------------------------------------------------------------------------
\* The contribution of t to a count of threads.
Counts(t, q, labels) == IF loc[t].queue = q /\ pc[t] \in labels THEN 1 ELSE 0

LEMMA AtMoves ==
    ASSUME NEW t \in Threads, \A u \in Threads \ {t} : pc'[u] = pc[u] /\ loc'[u] = loc[u],
           NEW q, NEW labels
    PROVE  /\ Cardinality(At(q, labels)) \in Nat /\ Cardinality(At(q, labels))' \in Nat
           /\ Cardinality(At(q, labels))'
                = Cardinality(At(q, labels)) + Counts(t, q, labels)' - Counts(t, q, labels)
<1>1. PICK A, B : A = At(q, labels) /\ B = At(q, labels)'
  OBVIOUS
<1>2. A \in SUBSET Threads /\ B \in SUBSET Threads
  BY <1>1 DEF At, Within
<1>3. IsFiniteSet(A) /\ IsFiniteSet(B)
  BY <1>2, QueueAssumption, FS_Subset
<1>4. Cardinality(A) \in Nat /\ Cardinality(B) \in Nat
  BY <1>3, FS_CardinalityType
<1>5. /\ A \ {t} = B \ {t}
      /\ t \in A <=> loc[t].queue = q /\ pc[t] \in labels
      /\ t \in B <=> loc'[t].queue = q /\ pc'[t] \in labels
  BY <1>1 DEF At, Within
<1>6. /\ Cardinality(A \ {t}) = IF t \in A THEN Cardinality(A) - 1 ELSE Cardinality(A)
      /\ Cardinality(B \ {t}) = IF t \in B THEN Cardinality(B) - 1 ELSE Cardinality(B)
  BY <1>3, FS_RemoveElement
<1>7. Cardinality(B) = Cardinality(A) + (IF t \in B THEN 1 ELSE 0) - (IF t \in A THEN 1 ELSE 0)
  <2>1. PICK a \in Nat, b \in Nat : a = Cardinality(A) /\ b = Cardinality(B)
    BY <1>4
  <2>2. (IF t \in A THEN a - 1 ELSE a) = (IF t \in B THEN b - 1 ELSE b)
    BY <1>5, <1>6, <2>1
  <2> QED
    BY <2>1, <2>2
<1>8. Cardinality(At(q, labels))' = Cardinality(B)
  BY <1>1
<1> QED
  BY <1>1, <1>4, <1>5, <1>7, <1>8 DEF Counts

LEMMA CountMoves ==
    ASSUME NEW S \in Lists, NEW R \in Lists, TypeOK, CountInv(S), NEW t \in Threads,
           \A u \in Threads \ {t} : pc'[u] = pc[u] /\ loc'[u] = loc[u],
           phase' = phase,
           \A q \in Queues : phase[q] = "new" => num'[q] = num[q],
           \A q \in Queues : phase[q] = "ready" =>
             /\ num'[q] = num[q] + (Len(R[q]) - Len(S[q])) - Counts(t, q, Claiming)'
                            + Counts(t, q, Claiming)
             /\ \/ Counts(t, q, Pending)' - Counts(t, q, Pending) <= Len(R[q]) - Len(S[q])
                \/ Cardinality(At(q, Pending)) + 1 <= Len(R[q]) - 1
    PROVE  CountInv(R)'
<1> SUFFICES ASSUME NEW q \in Queues, phase[q] = "ready"
             PROVE  /\ num'[q] = Len(R[q]) - 1 - Cardinality(At(q, Claiming))'
                    /\ Cardinality(At(q, Pending))' <= Len(R[q]) - 1
  BY DEF CountInv
<1>1. PICK r \in Nat, s \in Nat : r = Len(R[q]) /\ s = Len(S[q])
  BY DEF Lists
<1>2. PICK c \in Nat, p \in Nat :
        c = Cardinality(At(q, Claiming)) /\ p = Cardinality(At(q, Pending))
  BY AtMoves
<1>3. PICK c2 \in Nat, p2 \in Nat :
        c2 = Cardinality(At(q, Claiming))' /\ p2 = Cardinality(At(q, Pending))'
  BY AtMoves
<1>4. PICK i \in {0, 1}, j \in {0, 1} :
        i = Counts(t, q, Claiming) /\ j = Counts(t, q, Pending)
  BY DEF Counts
<1>5. PICK i2 \in {0, 1}, j2 \in {0, 1} :
        i2 = Counts(t, q, Claiming)' /\ j2 = Counts(t, q, Pending)'
  BY DEF Counts
<1>6. c2 = c + i2 - i /\ p2 = p + j2 - j
  BY <1>2, <1>3, <1>4, <1>5, AtMoves
<1>7. num[q] = s - 1 - c /\ p <= s - 1
  BY <1>1, <1>2 DEF CountInv
<1>8. /\ num'[q] = num[q] + (r - s) - i2 + i
      /\ j2 - j <= r - s \/ p + 1 <= r - 1
  BY <1>1, <1>2, <1>4, <1>5
<1>9. num'[q] = r - 1 - c2
  <2>1. num'[q] = (s - 1 - c) + (r - s) - i2 + i
    BY <1>7, <1>8
  <2>2. (s - 1 - c) + (r - s) - i2 + i = r - 1 - (c + i2 - i)
    OBVIOUS
  <2> QED
    BY <1>6, <2>1, <2>2
<1>10. p2 <= r - 1
  BY <1>6, <1>7, <1>8
<1> QED
  BY <1>1, <1>3, <1>9, <1>10

\* A step that neither claims an element nor gives one up.
LEMMA CountStays ==
    ASSUME NEW S \in Lists, TypeOK, CountInv(S), NEW t \in Threads,
           \A u \in Threads \ {t} : pc'[u] = pc[u] /\ loc'[u] = loc[u],
           phase' = phase, num' = num,
           \/ pc[t] \notin Claiming /\ pc'[t] \notin Claiming
           \/ pc[t] \in Pending /\ pc'[t] \in Pending /\ loc'[t].queue = loc[t].queue
    PROVE  CountInv(S)'
<1>1. \A q \in Queues : /\ Counts(t, q, Claiming)' = Counts(t, q, Claiming)
                        /\ Counts(t, q, Pending)' = Counts(t, q, Pending)
                        /\ Counts(t, q, Claiming) \in {0, 1} /\ Counts(t, q, Pending) \in {0, 1}
  BY DEF Counts, Claiming
<1>2. \A q \in Queues : Len(S[q]) \in Nat /\ num[q] \in Int
  BY DEF Lists, TypeOK
<1>3. \A q \in Queues :
        /\ num'[q] = num[q] + (Len(S[q]) - Len(S[q])) - Counts(t, q, Claiming)' + Counts(t, q, Claiming)
        /\ Counts(t, q, Pending)' - Counts(t, q, Pending) <= Len(S[q]) - Len(S[q])
  BY <1>1, <1>2
<1> QED
  BY <1>3, CountMoves

-------------------------------------------------------------------------------
LEMMA OthersStay ==
    ASSUME TypeOK, NEW t \in Threads, Step(t) \/ Call(t)
    PROVE  \A u \in Threads \ {t} : pc'[u] = pc[u] /\ loc'[u] = loc[u]
<1>1. \A u \in Threads \ {t} : pc'[u] = pc[u]
  BY DEF TypeOK, Step, Call, BeginConstruct, BeginEnqueue, GetTag, AllocNode, EndConstruct,
         EnqBuilt, EnqReadTail, EnqReadId, EnqReadMeta, EnqHelp, EnqLink, EnqSwing, EnqCount,
         DeqReserve, DeqUndo, DeqReadTail, DeqReadHead, DeqReadNext, DeqHelp, DeqReadData,
         DeqAdvance, DeqFree, Return, Goto
<1>2. \A u \in Threads \ {t} : loc'[u] = loc[u]
  BY DEF TypeOK, Step, Call, BeginConstruct, BeginEnqueue, GetTag, AllocNode, EndConstruct,
         EnqBuilt, EnqReadTail, EnqReadId, EnqReadMeta, EnqHelp, EnqLink, EnqSwing, EnqCount,
         DeqReserve, DeqUndo, DeqReadTail, DeqReadHead, DeqReadNext, DeqHelp, DeqReadData,
         DeqAdvance, DeqFree, Return, Forget
<1> QED
  BY <1>1, <1>2

LEMMA CountedSteps ==
    ASSUME NEW S \in Lists, Structure(S), CountInv(S), NEW t \in Threads,
           \/ AllocNode(t) \/ EnqBuilt(t) \/ DeqFree(t)
           \/ EnqReadTail(t) \/ EnqReadId(t) \/ EnqReadMeta(t) \/ EnqHelp(t) \/ EnqSwing(t)
           \/ EnqLink(t) /\ pc'[t] # "enqSwing"
           \/ DeqReadTail(t) \/ DeqReadHead(t) \/ DeqReadNext(t) \/ DeqHelp(t) \/ DeqReadData(t)
           \/ DeqAdvance(t) /\ pc'[t] # "deqFree"
           \/ \E q \in Queues : BeginConstruct(t, q) \/ \E v \in Values : BeginEnqueue(t, q, v)
    PROVE  CountInv(S)'
<1>1. TypeOK
  BY DEF Structure
<1>2. phase' = phase /\ num' = num
  BY DEF AllocNode, EnqBuilt, DeqFree, EnqReadTail, EnqReadId, EnqReadMeta, EnqHelp, EnqSwing,
         EnqLink, DeqReadTail, DeqReadHead, DeqReadNext, DeqHelp, DeqReadData, DeqAdvance,
         BeginConstruct, BeginEnqueue, GetTag, queueVars
<1>3. \A u \in Threads \ {t} : pc'[u] = pc[u] /\ loc'[u] = loc[u]
  BY <1>1, OthersStay DEF Step, Call
<1>4. CASE \/ AllocNode(t) \/ EnqBuilt(t) \/ DeqFree(t) \/ EnqReadTail(t) \/ EnqReadId(t)
           \/ EnqReadMeta(t) \/ EnqHelp(t)
           \/ EnqLink(t) /\ pc'[t] # "enqSwing"
           \/ \E q \in Queues : BeginConstruct(t, q) \/ \E v \in Values : BeginEnqueue(t, q, v)
  <2>1. /\ pc[t] \in {"idle", "ctor", "enq", "enqNext", "deqFree", "enqTail", "enqId", "enqMeta",
                     "enqHelp", "enqLink"}
        /\ \E label \in {"idle", "ctor", "enq", "ctorNext", "enqNext", "enqTail", "enqId",
                         "enqMeta", "enqHelp", "enqLink", "enqSwing"} :
             pc' = [pc EXCEPT ![t] = label] /\ (label = "enqSwing" => pc'[t] # "enqSwing")
    BY <1>4 DEF AllocNode, EnqBuilt, DeqFree, EnqReadTail, EnqReadId, EnqReadMeta,
                EnqHelp, EnqLink, BeginConstruct, BeginEnqueue, GetTag, Return, Goto
  <2>2. pc[t] \notin Claiming /\ pc'[t] \notin Claiming
    BY <1>1, <2>1 DEF TypeOK, Claiming, Pending, DeqLoop
  <2> QED
    BY <1>1, <1>2, <1>3, <2>2, CountStays
<1>5. CASE \/ EnqSwing(t) \/ DeqReadTail(t) \/ DeqReadHead(t) \/ DeqReadNext(t) \/ DeqHelp(t)
           \/ DeqReadData(t)
           \/ DeqAdvance(t) /\ pc'[t] # "deqFree"
  <2>1. pc[t] \in Pending /\ pc'[t] \in Pending
    BY <1>1, <1>5 DEF TypeOK, EnqSwing, DeqReadTail, DeqReadHead, DeqReadNext, DeqHelp,
                      DeqReadData, DeqAdvance, Goto, Pending, DeqLoop
  <2>2. loc'[t].queue = loc[t].queue
    <3>1. CASE EnqSwing(t)
      BY <1>1, <3>1, OnlyQueue DEF EnqSwing
    <3>2. CASE DeqReadTail(t) \/ DeqReadHead(t) \/ DeqReadData(t)
      BY <1>1, <3>2 DEF TypeOK, Locals, DeqReadTail, DeqReadHead, DeqReadData
    <3>3. CASE DeqReadNext(t) \/ DeqHelp(t)
      BY <1>1, <3>3, Forgotten DEF TypeOK, Locals, DeqReadNext, DeqHelp
    <3>4. CASE DeqAdvance(t) /\ pc'[t] # "deqFree"
      <4>1. pc' = [pc EXCEPT ![t] = "deqFree"] => pc'[t] = "deqFree"
        BY <1>1 DEF TypeOK
      <4>2. loc' = [loc EXCEPT ![t] = [NoLocals EXCEPT !.queue = loc[t].queue]]
        BY <3>4, <4>1 DEF DeqAdvance, Goto
      <4> QED
        BY <1>1, <4>2, OnlyQueue
    <3> QED
      BY <1>5, <3>1, <3>2, <3>3, <3>4
  <2> QED
    BY <1>1, <1>2, <1>3, <2>1, <2>2, CountStays
<1> QED
  BY <1>4, <1>5

LEMMA EndCallCounted ==
    ASSUME NEW S \in Lists, Structure(S), CountInv(S), NEW t \in Threads, EnqCount(t) \/ DeqUndo(t)
    PROVE  CountInv(S)'
<1>1. TypeOK /\ phase' = phase /\ Return(t) /\ num' = [num EXCEPT ![loc[t].queue] = @ + 1]
  BY DEF Structure, EnqCount, DeqUndo
<1>2. \A u \in Threads \ {t} : pc'[u] = pc[u] /\ loc'[u] = loc[u]
  BY <1>1, OthersStay DEF Step
<1>3. PICK q \in Queues : q = loc[t].queue /\ phase[q] = "ready"
  BY <1>1, LocalsTyped DEF Structure, Threadwise, Knows, Ctor, EnqCount, DeqUndo
<1>4. pc[t] \in Claiming /\ pc'[t] \notin Claiming /\ pc'[t] \notin Pending
  BY <1>1, Returned DEF EnqCount, DeqUndo, Claiming, Pending, DeqLoop
<1>5. \A r \in Queues : /\ Counts(t, r, Claiming)' = 0 /\ Counts(t, r, Pending)' = 0
                        /\ Counts(t, r, Claiming) = (IF r = q THEN 1 ELSE 0)
                        /\ Counts(t, r, Pending) \in {0, 1}
  BY <1>3, <1>4 DEF Counts
<1>6. \A r \in Queues : /\ num'[r] = num[r] + (IF r = q THEN 1 ELSE 0)
                        /\ num[r] \in Int /\ Len(S[r]) \in Nat
  BY <1>1, <1>3 DEF TypeOK, Lists
<1>7. \A r \in Queues :
        /\ num'[r] = num[r] + (Len(S[r]) - Len(S[r])) - Counts(t, r, Claiming)' + Counts(t, r, Claiming)
        /\ Counts(t, r, Pending)' - Counts(t, r, Pending) <= Len(S[r]) - Len(S[r])
  BY <1>5, <1>6
<1>8. \A r \in Queues : phase[r] = "new" => num'[r] = num[r]
  BY <1>3, <1>6
<1> QED
  BY <1>1, <1>2, <1>7, <1>8, CountMoves

LEMMA DeqReserveCounted ==
    ASSUME NEW S \in Lists, Structure(S), CountInv(S), NEW t \in Threads, NEW q \in Queues,
           DeqReserve(t, q)
    PROVE  CountInv(S)'
<1>1. /\ TypeOK /\ phase' = phase /\ num' = [num EXCEPT ![q] = @ - 1] /\ phase[q] = "ready"
      /\ pc[t] = "idle" /\ loc'[t].queue = q
      /\ pc'[t] = IF num[q] - 1 < 0 THEN "deqUndo" ELSE "deqTail"
  BY DEF Structure, DeqReserve, Goto, TypeOK, Locals
<1>2. \A u \in Threads \ {t} : pc'[u] = pc[u] /\ loc'[u] = loc[u]
  BY <1>1, OthersStay DEF Call
<1>3. /\ pc[t] \notin Claiming /\ pc[t] \notin Pending /\ pc'[t] \in Claiming
      /\ pc'[t] \in Pending => num[q] - 1 >= 0
  BY <1>1 DEF Claiming, Pending, DeqLoop, TypeOK
<1>4. \A r \in Queues : /\ Counts(t, r, Claiming) = 0 /\ Counts(t, r, Pending) = 0
                        /\ Counts(t, r, Claiming)' = (IF r = q THEN 1 ELSE 0)
                        /\ Counts(t, r, Pending)' = (IF r = q /\ pc'[t] \in Pending THEN 1 ELSE 0)
  BY <1>1, <1>3 DEF Counts
<1>5. \A r \in Queues : /\ num'[r] = num[r] - (IF r = q THEN 1 ELSE 0)
                        /\ num[r] \in Int /\ Len(S[r]) \in Nat
  BY <1>1 DEF TypeOK, Lists
<1>6. num[q] - 1 >= 0 => Cardinality(At(q, Pending)) + 1 <= Len(S[q]) - 1
  <2>1. IsFiniteSet(At(q, Claiming)) /\ At(q, Pending) \subseteq At(q, Claiming)
    <3>1. At(q, Claiming) \subseteq Threads
      BY DEF At, Within
    <3> QED
      BY <3>1, QueueAssumption, FS_Subset DEF At, Claiming
  <2>2. PICK c \in Nat, p \in Nat :
          c = Cardinality(At(q, Claiming)) /\ p = Cardinality(At(q, Pending)) /\ p <= c
    BY <2>1, FS_Subset, FS_CardinalityType
  <2>3. num[q] = Len(S[q]) - 1 - c
    BY <1>1, <2>2 DEF CountInv
  <2> QED
    BY <1>5, <2>2, <2>3
<1>7. \A r \in Queues :
        num'[r] = num[r] + (Len(S[r]) - Len(S[r])) - Counts(t, r, Claiming)' + Counts(t, r, Claiming)
  BY <1>4, <1>5
<1>8. \A r \in Queues : \/ Counts(t, r, Pending)' - Counts(t, r, Pending) <= Len(S[r]) - Len(S[r])
                        \/ Cardinality(At(r, Pending)) + 1 <= Len(S[r]) - 1
  <2> TAKE r \in Queues
  <2>1. CASE r = q /\ pc'[t] \in Pending
    BY <1>3, <1>6, <2>1
  <2>2. CASE ~(r = q /\ pc'[t] \in Pending)
    BY <1>4, <1>5, <2>2
  <2> QED
    BY <2>1, <2>2
<1>9. \A r \in Queues : phase[r] = "new" => num'[r] = num[r]
  BY <1>1, <1>5
<1> QED
  BY <1>1, <1>2, <1>7, <1>8, <1>9, CountMoves

LEMMA EnqLinkCounted ==
    ASSUME NEW S \in Lists, NEW R \in Lists, Structure(S), CountInv(S), NEW t \in Threads,
           EnqLink(t), pc'[t] = "enqSwing",
           R = [S EXCEPT ![loc[t].queue] = Append(@, GetRealAddr(loc[t].new))]
    PROVE  CountInv(R)'
<1>1. TypeOK /\ phase' = phase /\ num' = num /\ pc[t] = "enqLink"
  BY DEF Structure, EnqLink, queueVars
<1>2. \A u \in Threads \ {t} : pc'[u] = pc[u] /\ loc'[u] = loc[u]
  BY <1>1, OthersStay DEF Step
<1>3. PICK q \in Queues : q = loc[t].queue
  BY <1>1, LocalsTyped DEF Structure, Threadwise, Knows
<1>4. loc' = loc
  <2>1. pc' = [pc EXCEPT ![t] = "enqTail"] => pc'[t] = "enqTail"
    BY <1>1 DEF TypeOK
  <2> QED
    BY <2>1 DEF EnqLink, Goto
<1>5. \A r \in Queues : /\ Counts(t, r, Claiming) = 0 /\ Counts(t, r, Pending) = 0
                        /\ Counts(t, r, Claiming)' = (IF r = q THEN 1 ELSE 0)
                        /\ Counts(t, r, Pending)' = (IF r = q THEN 1 ELSE 0)
  BY <1>1, <1>3, <1>4 DEF Counts, Claiming, Pending, DeqLoop
<1>6. \A r \in Queues : /\ num[r] \in Int /\ Len(S[r]) \in Nat
                        /\ Len(R[r]) = IF r = q THEN Len(S[r]) + 1 ELSE Len(S[r])
  <2>1. PICK n \in Nodes : n = GetRealAddr(loc[t].new)
    BY <1>1, HeldApart DEF Building, Built
  <2>2. /\ R[q] = Append(S[q], n)
        /\ \A r \in Queues : S[r] \in Seq(Nodes) /\ (r # q => R[r] = S[r])
    BY <1>3, <2>1 DEF Lists
  <2>3. Len(R[q]) = Len(S[q]) + 1
    BY <2>2
  <2> QED
    BY <1>1, <2>2, <2>3 DEF TypeOK
<1>7. \A r \in Queues :
        /\ num'[r] = num[r] + (Len(R[r]) - Len(S[r])) - Counts(t, r, Claiming)' + Counts(t, r, Claiming)
        /\ Counts(t, r, Pending)' - Counts(t, r, Pending) <= Len(R[r]) - Len(S[r])
  <2> TAKE r \in Queues
  <2>1. PICK n \in Int, k \in Nat : n = num[r] /\ n = num'[r] /\ k = Len(S[r])
    BY <1>1, <1>6
  <2>2. CASE r = q
    BY <1>5, <1>6, <2>1, <2>2
  <2>3. CASE r # q
    BY <1>5, <1>6, <2>1, <2>3
  <2> QED
    BY <2>2, <2>3
<1> QED
  BY <1>1, <1>2, <1>7, CountMoves

LEMMA DeqAdvanceCounted ==
    ASSUME NEW S \in Lists, NEW R \in Lists, Structure(S), CountInv(S), NEW t \in Threads,
           DeqAdvance(t), pc'[t] = "deqFree", R = [S EXCEPT ![loc[t].queue] = Tail(@)]
    PROVE  CountInv(R)'
<1>1. TypeOK /\ phase' = phase /\ num' = num /\ pc[t] = "deqCas"
  BY DEF Structure, DeqAdvance
<1>2. \A u \in Threads \ {t} : pc'[u] = pc[u] /\ loc'[u] = loc[u]
  BY <1>1, OthersStay DEF Step
<1>3. metaHead[loc[t].queue] = loc[t].head
  <2>1. pc' = [pc EXCEPT ![t] = "deqTail"] => pc'[t] = "deqTail"
    BY <1>1 DEF TypeOK
  <2> QED
    BY <2>1 DEF DeqAdvance, Goto
<1>4. PICK q \in Queues : q = loc[t].queue /\ Len(S[q]) >= 2
  BY <1>1, <1>3, AdvancePlace
<1>5. \A r \in Queues : /\ Counts(t, r, Claiming)' = 0 /\ Counts(t, r, Pending)' = 0
                        /\ Counts(t, r, Claiming) = (IF r = q THEN 1 ELSE 0)
                        /\ Counts(t, r, Pending) = (IF r = q THEN 1 ELSE 0)
  BY <1>1, <1>4 DEF Counts, Claiming, Pending, DeqLoop
<1>6. \A r \in Queues : /\ num[r] \in Int /\ Len(S[r]) \in Nat
                        /\ Len(R[r]) = IF r = q THEN Len(S[r]) - 1 ELSE Len(S[r])
  <2>1. /\ R[q] = Tail(S[q]) /\ S[q] # << >>
        /\ \A r \in Queues : S[r] \in Seq(Nodes) /\ (r # q => R[r] = S[r])
    BY <1>4 DEF Lists
  <2>2. Len(R[q]) = Len(S[q]) - 1
    <3>1. PICK s \in Seq(Nodes), L \in Nat : s = S[q] /\ L = Len(s) /\ L >= 2
      BY <1>4, <2>1
    <3>2. Len(Tail(s)) = L - 1
      BY <3>1
    <3> QED
      BY <2>1, <3>1, <3>2
  <2> QED
    BY <1>1, <2>1, <2>2 DEF TypeOK
<1>7. \A r \in Queues :
        /\ num'[r] = num[r] + (Len(R[r]) - Len(S[r])) - Counts(t, r, Claiming)' + Counts(t, r, Claiming)
        /\ Counts(t, r, Pending)' - Counts(t, r, Pending) <= Len(R[r]) - Len(S[r])
  <2> TAKE r \in Queues
  <2>1. PICK n \in Int, k \in Nat : n = num[r] /\ n = num'[r] /\ k = Len(S[r])
    BY <1>1, <1>6
  <2>2. CASE r = q
    BY <1>5, <1>6, <2>1, <2>2
  <2>3. CASE r # q
    BY <1>5, <1>6, <2>1, <2>3
  <2> QED
    BY <2>2, <2>3
<1> QED
  BY <1>1, <1>2, <1>7, CountMoves

LEMMA EndConstructCounted ==
    ASSUME NEW S \in Lists, NEW R \in Lists, Structure(S), CountInv(S), NEW t \in Threads,
           EndConstruct(t), R = [S EXCEPT ![loc[t].queue] = <<GetRealAddr(loc[t].new)>>]
    PROVE  CountInv(R)'
<1>1. TypeOK /\ CtorInv /\ num' = num /\ pc[t] = "ctorNext" /\ Return(t)
  BY DEF Structure, EndConstruct
<1>2. PICK q \in Queues : q = loc[t].queue /\ phase[q] = "new"
  BY <1>1, LocalsTyped DEF Structure, Threadwise, Knows, Ctor
<1>3. \A u \in Threads \ {t} : pc'[u] = pc[u] /\ loc'[u] = loc[u]
  BY <1>1, Returned
<1>4. \A r \in Queues \ {q} : /\ phase'[r] = phase[r] /\ R[r] = S[r]
                              /\ At(r, Claiming)' = At(r, Claiming) /\ At(r, Pending)' = At(r, Pending)
  <2>1. \A r \in Queues \ {q} : phase'[r] = phase[r] /\ R[r] = S[r]
    BY <1>1, <1>2 DEF EndConstruct, TypeOK, Lists
  <2>2. pc'[t] = "idle"
    BY <1>1, Returned
  <2>3. ASSUME NEW r \in Queues \ {q}, NEW labels, "idle" \notin labels, "ctorNext" \notin labels
        PROVE  At(r, labels)' = At(r, labels)
    BY <1>1, <1>3, <2>2, <2>3 DEF At, Within
  <2> QED
    BY <2>1, <2>3 DEF Claiming, Pending, DeqLoop
<1>5. phase'[q] = "ready" /\ Len(R[q]) = 1 /\ num[q] = 0
  BY <1>1, <1>2 DEF EndConstruct, TypeOK, Lists, CountInv
<1>6. At(q, Claiming)' = {} /\ At(q, Pending)' = {}
  <2>1. ASSUME NEW u \in Threads, loc'[u].queue = q PROVE pc'[u] = "idle"
    <3>1. CASE u = t
      BY <1>1, <3>1, Returned
    <3>2. CASE u # t
      BY <1>1, <1>2, <1>3, <2>1, <3>2 DEF CtorInv, Ctor
    <3> QED
      BY <3>1, <3>2
  <2> QED
    BY <2>1 DEF At, Within, Claiming, Pending, DeqLoop
<1>7. Cardinality(At(q, Claiming))' = 0 /\ Cardinality(At(q, Pending))' = 0
  BY <1>6, FS_EmptySet
<1>8. \A r \in Queues \ {q} :
        /\ phase'[r] = "new" => num'[r] = 0
        /\ phase'[r] = "ready" =>
             /\ num'[r] = Len(R[r]) - 1 - Cardinality(At(r, Claiming))'
             /\ Cardinality(At(r, Pending))' <= Len(R[r]) - 1
  BY <1>1, <1>4 DEF CountInv
<1>9. /\ num'[q] = Len(R[q]) - 1 - Cardinality(At(q, Claiming))'
      /\ Cardinality(At(q, Pending))' <= Len(R[q]) - 1
  <2>1. \A c, p, n, k : c = 0 /\ p = 0 /\ n = 0 /\ k = 1 => n = k - 1 - c /\ p <= k - 1
    OBVIOUS
  <2> QED
    BY <1>1, <1>5, <1>7, <2>1
<1> QED
  BY <1>5, <1>8, <1>9 DEF CountInv

LEMMA ClearAllCounted ==
    ASSUME NEW S \in Lists, NEW R \in Lists, Structure(S), CountInv(S), NEW q \in Queues,
           ClearAll(q), R = [S EXCEPT ![q] = <<>>]
    PROVE  CountInv(R)'
<1>1. /\ num' = num /\ phase'[q] = "cleared"
      /\ \A r \in Queues \ {q} : phase'[r] = phase[r] /\ R[r] = S[r]
      /\ \A labels : \A r \in Queues : At(r, labels)' = At(r, labels)
  BY DEF Structure, ClearAll, TypeOK, Lists, At, Within
<1> QED
  BY <1>1 DEF CountInv

-------------------------------------------------------------------------------
\* The steps that change no list.
Quiet(t) ==
    \/ AllocNode(t) \/ EnqBuilt(t)
    \/ EnqReadTail(t) \/ EnqReadId(t) \/ EnqReadMeta(t) \/ EnqHelp(t) \/ EnqSwing(t)
    \/ EnqLink(t) /\ pc'[t] # "enqSwing"
    \/ EnqCount(t) \/ DeqUndo(t)
    \/ DeqReadTail(t) \/ DeqReadHead(t) \/ DeqReadNext(t) \/ DeqHelp(t) \/ DeqReadData(t)
    \/ DeqAdvance(t) /\ pc'[t] # "deqFree"
    \/ Call(t)

LEMMA FailedKeeps ==
    ASSUME NEW S \in Lists, Structure(S), NEW t \in Threads,
           \/ EnqLink(t) /\ pc'[t] # "enqSwing"
           \/ DeqAdvance(t) /\ pc'[t] # "deqFree"
    PROVE  Structure(S)'
<1>1. TypeOK
  BY DEF Structure
<1>2. \A label : pc' = [pc EXCEPT ![t] = label] => pc'[t] = label
  BY <1>1 DEF TypeOK
<1>3. CASE EnqLink(t) /\ pc'[t] # "enqSwing"
  <2>1. /\ pc[t] = "enqLink" /\ Goto(t, "enqTail") /\ Forget(t)
        /\ UNCHANGED <<queueVars, nodeVars, inUse>>
    BY <1>2, <1>3 DEF EnqLink, Goto, nodeVars
  <2> QED
    BY <2>1, RetryKeeps
<1>4. CASE DeqAdvance(t) /\ pc'[t] # "deqFree"
  <2>1. /\ pc[t] = "deqCas" /\ Goto(t, "deqTail")
        /\ loc' = [loc EXCEPT ![t] = [NoLocals EXCEPT !.queue = loc[t].queue]]
        /\ UNCHANGED <<queueVars, nodeVars, inUse>>
    BY <1>2, <1>4 DEF DeqAdvance, Goto, queueVars
  <2> QED
    BY <2>1, RetryKeeps
<1> QED
  BY <1>3, <1>4

LEMMA QuietKeeps ==
    ASSUME NEW S \in Lists, Structure(S), CountInv(S), NEW t \in Threads, Quiet(t)
    PROVE  Structure(S)' /\ CountInv(S)'
<1>1. CASE Call(t)
  <2>1. PICK q \in Queues : \/ BeginConstruct(t, q)
                            \/ \E v \in Values : BeginEnqueue(t, q, v)
                            \/ DeqReserve(t, q)
    BY <1>1 DEF Call
  <2>2. CountInv(S)'
    BY <2>1, CountedSteps, DeqReserveCounted
  <2> QED
    BY <2>1, <2>2, BeginKeeps
<1>2. CASE EnqCount(t) \/ DeqUndo(t)
  BY <1>2, EndCallKeeps, EndCallCounted
<1>3. CASE Quiet(t) /\ ~Call(t) /\ ~EnqCount(t) /\ ~DeqUndo(t)
  <2>1. CountInv(S)'
    BY <1>3, CountedSteps DEF Quiet
  <2> QED
    BY <1>3, <2>1, AllocNodeKeeps, EnqBuiltKeeps, ReadKeeps, EnqReadIdKeeps, EnqReadMetaKeeps,
       HelpKeeps, EnqSwingKeeps, DeqReadNextKeeps, DeqReadDataKeeps, FailedKeeps DEF Quiet
<1> QED
  BY <1>1, <1>2, <1>3

LEMMA DeqFreeCounted ==
    ASSUME NEW S \in Lists, Structure(S), CountInv(S), NEW t \in Threads, DeqFree(t)
    PROVE  Structure(S)' /\ CountInv(S)'
BY DeqFreeKeeps, CountedSteps

\* Every step is quiet or one of the five that say what happens to which list.
LEMMA StepKinds ==
    ASSUME NEW t \in Threads, Step(t) \/ Call(t)
    PROVE  \/ Quiet(t) \/ EndConstruct(t) \/ DeqFree(t)
           \/ EnqLink(t) /\ pc'[t] = "enqSwing"
           \/ DeqAdvance(t) /\ pc'[t] = "deqFree"
BY DEF Step, Quiet

LEMMA StepKeeps ==
    ASSUME QueueInv, Next
    PROVE  QueueInv'
<1>1. PICK S \in Lists : Structure(S) /\ CountInv(S)
  BY DEF QueueInv
<1> SUFFICES \E R \in Lists : Structure(R)' /\ CountInv(R)'
  BY DEF QueueInv
<1>2. CASE \E q \in Queues : ClearAll(q)
  <2>1. PICK q \in Queues : ClearAll(q)
    BY <1>2
  <2>2. PICK R \in Lists : R = [S EXCEPT ![q] = <<>>] /\ Structure(R)'
    BY <1>1, <2>1, ClearAllKeeps
  <2> QED
    BY <1>1, <2>1, <2>2, ClearAllCounted
<1>3. CASE \E t \in Threads : Step(t) \/ Call(t)
  <2>1. PICK t \in Threads : Step(t) \/ Call(t)
    BY <1>3
  <2>2. CASE Quiet(t)
    BY <1>1, <2>2, QuietKeeps
  <2>3. CASE DeqFree(t)
    BY <1>1, <2>3, DeqFreeCounted
  <2>4. CASE EndConstruct(t)
    <3>1. PICK R \in Lists : R = [S EXCEPT ![loc[t].queue] = <<GetRealAddr(loc[t].new)>>]
                             /\ Structure(R)'
      BY <1>1, <2>4, EndConstructKeeps
    <3> QED
      BY <1>1, <2>4, <3>1, EndConstructCounted
  <2>5. CASE EnqLink(t) /\ pc'[t] = "enqSwing"
    <3>1. PICK R \in Lists : R = [S EXCEPT ![loc[t].queue] = Append(@, GetRealAddr(loc[t].new))]
                             /\ Structure(R)'
      BY <1>1, <2>5, EnqLinkKeeps
    <3> QED
      BY <1>1, <2>5, <3>1, EnqLinkCounted
  <2>6. CASE DeqAdvance(t) /\ pc'[t] = "deqFree"
    <3>1. PICK R \in Lists : R = [S EXCEPT ![loc[t].queue] = Tail(@)] /\ Structure(R)'
      BY <1>1, <2>6, DeqAdvanceKeeps
    <3> QED
      BY <1>1, <2>6, <3>1, DeqAdvanceCounted
  <2> QED
    BY <2>1, <2>2, <2>3, <2>4, <2>5, <2>6, StepKinds
<1> QED
  BY <1>2, <1>3 DEF Next

LEMMA InitKeeps ==
    ASSUME Init
    PROVE  QueueInv
<1>1. PICK S : S = [q \in Queues |-> <<>>]
  OBVIOUS
<1>2. S \in Lists /\ \A q \in Queues : Len(S[q]) = 0
  BY <1>1 DEF Lists
<1>3. \A t \in Threads : pc[t] = "idle" /\ loc[t] = NoLocals
  BY DEF Init
<1>4. TypeOK
  <2>1. 0 \in Counters
    BY CounterAssumption DEF Counters
  <2>2. NoLocals \in Locals
    BY WordFacts DEF NoLocals, Locals
  <2> QED
    BY <2>1, <2>2, WordFacts DEF Init, TypeOK, Labels
<1>5. ListsInv(S) /\ TailInv(S)
  BY <1>2 DEF Init, ListsInv, TailInv
<1>6. BuildInv /\ CtorInv
  BY <1>3 DEF BuildInv, Building, Built, CtorInv, Ctor
<1>7. \A t \in Threads : Private(t) = {}
  BY <1>3 DEF Private
<1>8. PrivateInv(S)
  BY <1>7 DEF PrivateInv, Init
<1>9. Threadwise(S)
  <2> SUFFICES ASSUME NEW t \in Threads
               PROVE  Knows(t) /\ Ahead(S, t) /\ Swing(S, t) /\ Advance(S, t) /\ End(S, t)
    BY DEF Threadwise
  <2>1. Knows(t)
    BY <1>3, WordFacts DEF Knows, NoLocals, Ctor, Building, Built, HasTail, HasHead, HasNext,
                           Swings, Advances
  <2> QED
    BY <1>3, <2>1 DEF Ahead, Swing, Swings, Advance, Advances, End
<1>10. CountInv(S)
  BY DEF CountInv, Init
<1> QED
  BY <1>2, <1>4, <1>5, <1>6, <1>8, <1>9, <1>10 DEF QueueInv, Structure

\* The invariant of the queue.
THEOREM QueueInvAlways == Spec => []QueueInv
<1>1. Init => QueueInv
  BY InitKeeps
<1>2. QueueInv /\ [Next]_vars => QueueInv'
  <2> SUFFICES ASSUME QueueInv, UNCHANGED vars PROVE QueueInv'
    BY StepKeeps
  <2>1. PICK S \in Lists : Structure(S) /\ CountInv(S)
    BY DEF QueueInv
  <2>2. /\ phase' = phase /\ metaTail' = metaTail /\ metaHead' = metaHead /\ metaCnt' = metaCnt
        /\ num' = num /\ data' = data /\ nextId' = nextId /\ nextMeta' = nextMeta
        /\ inUse' = inUse /\ pc' = pc /\ loc' = loc
    BY DEF vars, queueVars, nodeVars
  <2>3. TypeOK' /\ ListsInv(S)' /\ TailInv(S)'
    <3>1. \A q \in Queues : LastWord(S, q)' = LastWord(S, q) /\ (Lagging(S, q)' <=> Lagging(S, q))
      BY <2>2 DEF LastWord, Word, Lagging
    <3>2. \A q \in Queues : \A k \in 1 .. Len(S[q]) : Word(S, q, k)' = Word(S, q, k)
      BY <2>2 DEF Word
    <3>3. ListsInv(S)'
      BY <2>1, <2>2, <3>1, <3>2 DEF Structure, ListsInv
    <3>4. TailInv(S)'
      BY <2>1, <2>2, <3>1 DEF Structure, TailInv, Word
    <3> QED
      BY <2>1, <2>2, <3>3, <3>4 DEF Structure, TypeOK
  <2>4. BuildInv' /\ CtorInv' /\ PrivateInv(S)'
    <3>1. BuildInv' /\ CtorInv'
      BY <2>1, <2>2 DEF Structure, BuildInv, CtorInv
    <3>2. \A t \in Threads : Private(t)' = Private(t)
      BY <2>2 DEF Private
    <3>3. \A n : InList(S, n)' <=> InList(S, n)
      BY DEF InList
    <3>4. PrivateInv(S)'
      BY <2>1, <2>2, <3>2, <3>3 DEF Structure, PrivateInv
    <3> QED
      BY <3>1, <3>4
  <2>5. Threadwise(S)'
    <3> SUFFICES ASSUME NEW t \in Threads
                 PROVE  Knows(t)' /\ Ahead(S, t)' /\ Swing(S, t)' /\ Advance(S, t)' /\ End(S, t)'
      BY DEF Threadwise
    <3>1. Knows(t)' /\ Ahead(S, t)'
      BY <2>1, <2>2 DEF Structure, Threadwise, Knows, Ahead, Lagging, LastWord, Word
    <3>2. Swing(S, t)' /\ Advance(S, t)'
      BY <2>1, <2>2 DEF Structure, Threadwise, Swing, Advance, Lagging, LastWord, Word
    <3>3. End(S, t)'
      BY <2>1, <2>2 DEF Structure, Threadwise, End, InList
    <3> QED
      BY <3>1, <3>2, <3>3
  <2>6. CountInv(S)'
    BY <2>1, <2>2 DEF CountInv, At, Within
  <2>7. Structure(S)' /\ CountInv(S)'
    BY <2>3, <2>4, <2>5, <2>6 DEF Structure
  <2> QED
    BY <2>7 DEF QueueInv
<1> QED
  BY <1>1, <1>2, PTL DEF Spec

-------------------------------------------------------------------------------
LEMMA ReadyLists ==
    ASSUME NEW S \in Lists, Structure(S)
    PROVE  /\ \A q \in Ready : /\ Chain(q) = S[q] /\ ChainNodes(q) = Range(S[q])
                               /\ Len(S[q]) \in Nat /\ Len(S[q]) >= 1 /\ DOMAIN S[q] = 1 .. Len(S[q])
           /\ \A q \in Queues : q \in Ready <=> phase[q] = "ready"
           /\ \A q \in Queues : q \notin Ready => Len(S[q]) = 0
<1>1. \A q \in Ready : q \in Queues /\ phase[q] = "ready"
  BY DEF Ready
<1>2. \A q \in Queues : S[q] \in Seq(Nodes) /\ Len(S[q]) \in Nat /\ (phase[q] = "ready" <=> Len(S[q]) > 0)
  BY ListFacts DEF Structure, ListsInv
<1>3. \A q \in Queues : phase[q] = "ready" => Chain(q) = S[q]
  BY ChainIsList
<1> QED
  BY <1>1, <1>2, <1>3 DEF Ready, ChainNodes

\* num_ counts exactly the elements no Dequeue has claimed, up to the Enqueues that have
\* not counted theirs and the Dequeues about to give theirs up, and the elements cover
\* every Dequeue that has reserved (CLockFreeQueue.h, num_ in Enqueue and Dequeue).
THEOREM NumExactAlways == Spec => []NumExact
<1>1. QueueInv => NumExact
  <2> SUFFICES ASSUME QueueInv PROVE NumExact
    OBVIOUS
  <2>1. PICK S \in Lists : Structure(S) /\ CountInv(S)
    BY DEF QueueInv
  <2>2. {"enqSwing", "enqCount"} \cup DeqLoop \cup {"deqUndo"} = Claiming
        /\ DeqLoop \cup {"enqSwing", "enqCount"} = Pending
    BY DEF Claiming, Pending
  <2>3. ASSUME NEW q \in Ready
        PROVE  /\ num[q] = Len(Chain(q)) - 1 - Cardinality(At(q, Claiming))
               /\ Cardinality(At(q, Pending)) <= Len(Chain(q)) - 1
    BY <2>1, ReadyLists DEF CountInv, Ready
  <2> QED
    BY <2>2, <2>3 DEF NumExact
<1> QED
  BY <1>1, QueueInvAlways, PTL

\* metaTail_ always points into the list, at the last node or at the one before it, and
\* then only while the Enqueue that linked the last one is about to swing the tail: so the
\* tail never points to a freed node (CLockFreeQueue.h, the second CAS of Enqueue).
THEOREM TailReachableAlways == Spec => []TailReachable
<1>1. QueueInv => TailReachable
  <2> SUFFICES ASSUME QueueInv, NEW q \in Ready
               PROVE  \E k \in 1 .. Len(Chain(q)) :
                        /\ Chain(q)[k] = GetRealAddr(metaTail[q])
                        /\ Len(Chain(q)) - k <= Cardinality(At(q, {"enqSwing"}))
    BY DEF TailReachable
  <2>1. PICK S \in Lists : Structure(S)
    BY DEF QueueInv
  <2>2. q \in Queues /\ phase[q] = "ready" /\ Chain(q) = S[q] /\ Len(S[q]) \in Nat
    BY <2>1, ReadyLists DEF Ready
  <2>3. PICK k \in 1 .. Len(S[q]) : /\ metaTail[q] = Word(S, q, k)
                                    /\ k = Len(S[q]) \/ k + 1 = Len(S[q])
                                    /\ Lagging(S, q) <=> k # Len(S[q])
    BY <2>1, <2>2, TailPlace
  <2>4. GetRealAddr(metaTail[q]) = S[q][k]
    BY <2>1, <2>2, <2>3, ListFacts DEF Structure
  <2>5. IsFiniteSet(At(q, {"enqSwing"})) /\ Cardinality(At(q, {"enqSwing"})) \in Nat
    <3>1. At(q, {"enqSwing"}) \subseteq Threads
      BY DEF At, Within
    <3> QED
      BY <3>1, QueueAssumption, FS_Subset, FS_CardinalityType
  <2>6. Lagging(S, q) => Cardinality(At(q, {"enqSwing"})) >= 1
    <3> SUFFICES ASSUME Lagging(S, q) PROVE Cardinality(At(q, {"enqSwing"})) # 0
      BY <2>5
    <3>1. PICK t \in Threads : loc[t].queue = q /\ pc[t] = "enqSwing"
      BY <2>1, <2>2 DEF Structure, TailInv
    <3>2. t \in At(q, {"enqSwing"})
      BY <3>1 DEF At, Within
    <3> QED
      BY <2>5, <3>2, FS_EmptySet
  <2>7. Len(S[q]) - k <= Cardinality(At(q, {"enqSwing"}))
    BY <2>2, <2>3, <2>5, <2>6
  <2> QED
    BY <2>2, <2>4, <2>7
<1> QED
  BY <1>1, QueueInvAlways, PTL

\* The double-width CAS of Enqueue succeeds only on the last node of the queue Enqueue was
\* called on (CLockFreeQueue.h, the comment above that CAS).
THEOREM LinksAtEndAlways == Spec => LinksAtEnd
<1>1. ASSUME QueueInv, [Next]_vars, NEW t \in Threads, pc[t] = "enqLink", pc'[t] = "enqSwing"
      PROVE  LET c == Chain(loc[t].queue) IN c[Len(c)] = GetRealAddr(loc[t].tail)
  <2>1. PICK S \in Lists : Structure(S)
    BY <1>1 DEF QueueInv
  <2>2. EnqLink(t)
    <3>1. pc' # pc
      BY <1>1
    <3>2. TypeOK
      BY <2>1 DEF Structure
    <3>3. PICK u \in Threads : Call(u) \/ Step(u)
      BY <1>1, <3>1 DEF Next, ClearAll, vars
    <3>4. u = t
      BY <1>1, <3>2, <3>3, OthersStay
    <3> QED
      BY <1>1, <3>3, <3>4
         DEF Call, Step, BeginConstruct, BeginEnqueue, GetTag, AllocNode, EndConstruct, EnqBuilt,
             EnqReadTail, EnqReadId, EnqReadMeta, EnqHelp, EnqSwing, EnqCount, DeqReserve, DeqUndo,
             DeqReadTail, DeqReadHead, DeqReadNext, DeqHelp, DeqReadData, DeqAdvance, DeqFree
  <2>3. nextId[GetRealAddr(loc[t].tail)] = loc[t].id /\ nextMeta[GetRealAddr(loc[t].tail)] = loc[t].next
    <3>1. pc' = [pc EXCEPT ![t] = "enqTail"] => pc'[t] = "enqTail"
      BY <2>1 DEF Structure, TypeOK
    <3> QED
      BY <1>1, <2>2, <3>1 DEF EnqLink, Goto
  <2>4. PICK q \in Queues : /\ q = loc[t].queue /\ phase[q] = "ready"
                            /\ loc[t].tail = LastWord(S, q)
    BY <1>1, <2>1, <2>3, LinkPlace
  <2>5. Chain(q) = S[q] /\ Len(S[q]) \in 1 .. Len(S[q])
    BY <2>1, <2>4, ReadyLists
  <2>6. GetRealAddr(LastWord(S, q)) = S[q][Len(S[q])]
    BY <2>1, <2>5, ListFacts DEF Structure, LastWord
  <2> QED
    BY <2>4, <2>5, <2>6
<1>2. QueueInv /\ [Next]_vars =>
        [\A t \in Threads :
           pc[t] = "enqLink" /\ pc'[t] = "enqSwing" =>
             LET c == Chain(loc[t].queue) IN c[Len(c)] = GetRealAddr(loc[t].tail)]_vars
  BY <1>1
<1> QED
  BY <1>2, QueueInvAlways, PTL DEF Spec, LinksAtEnd

-------------------------------------------------------------------------------
\* The node that is in a place.
Occupant(S, p) == IF p[1] = NULL THEN CHOOSE n \in Private(p[2]) : TRUE ELSE S[p[1]][p[2]]

LEMMA PlaceKinds ==
    \A p : p \in Places <=> \/ \E q \in Ready : p \in {q} \X DOMAIN Chain(q)
                           \/ p \in {NULL} \X {t \in Threads : Private(t) # {}}
<1>1. \A p : p \in UNION {{q} \X DOMAIN Chain(q) : q \in Ready}
              <=> \E q \in Ready : p \in {q} \X DOMAIN Chain(q)
  OBVIOUS
<1> QED
  <2> DEFINE A == UNION {{q} \X DOMAIN Chain(q) : q \in Ready}
             B == {NULL} \X {t \in Threads : Private(t) # {}}
  <2>1. Places = A \cup B
    BY DEF Places
  <2>2. \A p : p \in A <=> \E q \in Ready : p \in {q} \X DOMAIN Chain(q)
    BY <1>1
  <2> HIDE DEF A, B
  <2>3. \A p : p \in Places <=> p \in A \/ p \in B
    BY <2>1
  <2> QED
    BY <2>2, <2>3 DEF B

LEMMA PlacesFilled ==
    ASSUME NEW S \in Lists, Structure(S)
    PROVE  /\ \A p \in Places : Occupant(S, p) \in inUse
           /\ \A p, r \in Places : Occupant(S, p) = Occupant(S, r) => p = r
           /\ \A n \in inUse : \E p \in Places : Occupant(S, p) = n
<1>1. \A t \in Threads : \A n \in Private(t) : Private(t) = {n} /\ n \in inUse /\ ~InList(S, n)
  BY DEF Structure, PrivateInv, Private
<1>2. \A q \in Ready : q \in Queues /\ q # NULL /\ Chain(q) = S[q] /\ DOMAIN S[q] = 1 .. Len(S[q])
  BY ReadyLists, QueueAssumption DEF Ready
<1>3. \A q \in Ready : \A k \in 1 .. Len(S[q]) : S[q][k] \in inUse /\ InList(S, S[q][k])
  BY <1>2, ListFacts DEF Structure
<1>4. ASSUME NEW p \in Places
      PROVE  \/ \E q \in Ready : \E k \in 1 .. Len(S[q]) :
                  p = <<q, k>> /\ Occupant(S, p) = S[q][k]
             \/ \E t \in Threads : \E n \in Private(t) : p = <<NULL, t>> /\ Occupant(S, p) = n
  <2>1. CASE \E q \in Ready : p \in {q} \X DOMAIN Chain(q)
    <3>1. PICK q \in Ready : p \in {q} \X DOMAIN Chain(q)
      BY <2>1
    <3>2. PICK k \in 1 .. Len(S[q]) : p = <<q, k>>
      BY <1>2, <3>1
    <3>3. Occupant(S, p) = S[q][k]
      BY <1>2, <3>2 DEF Occupant
    <3> QED
      BY <3>2, <3>3
  <2>2. CASE p \in {NULL} \X {t \in Threads : Private(t) # {}}
    <3>1. PICK t \in Threads : Private(t) # {} /\ p = <<NULL, t>>
      BY <2>2
    <3>2. PICK n \in Private(t) : n = CHOOSE i \in Private(t) : TRUE
      BY <3>1
    <3>3. Occupant(S, p) = n
      BY <3>1, <3>2 DEF Occupant
    <3> QED
      BY <3>1, <3>3
  <2> QED
    BY <2>1, <2>2, PlaceKinds
<1>5. \A p \in Places : Occupant(S, p) \in inUse
  BY <1>1, <1>3, <1>4
<1>6. ASSUME NEW p \in Places, NEW r \in Places, Occupant(S, p) = Occupant(S, r)
      PROVE  p = r
  <2>1. CASE InList(S, Occupant(S, p))
    <3>1. PICK q \in Ready : \E k \in 1 .. Len(S[q]) : p = <<q, k>> /\ Occupant(S, p) = S[q][k]
      BY <1>1, <1>4, <2>1
    <3>2. PICK k \in 1 .. Len(S[q]) : p = <<q, k>> /\ Occupant(S, p) = S[q][k]
      BY <3>1
    <3>3. PICK s \in Ready : \E j \in 1 .. Len(S[s]) : r = <<s, j>> /\ Occupant(S, r) = S[s][j]
      BY <1>1, <1>4, <1>6, <2>1
    <3>4. PICK j \in 1 .. Len(S[s]) : r = <<s, j>> /\ Occupant(S, r) = S[s][j]
      BY <3>3
    <3>5. q = s /\ k = j
      BY <1>2, <1>6, <3>2, <3>4 DEF Structure, ListsInv
    <3> QED
      BY <3>2, <3>4, <3>5
  <2>2. CASE ~InList(S, Occupant(S, p))
    <3>1. PICK t \in Threads : p = <<NULL, t>> /\ Occupant(S, p) \in Private(t)
      BY <1>3, <1>4, <2>2
    <3>2. PICK u \in Threads : r = <<NULL, u>> /\ Occupant(S, r) \in Private(u)
      BY <1>3, <1>4, <1>6, <2>2
    <3>3. t = u
      BY <1>6, <3>1, <3>2 DEF Structure, PrivateInv
    <3> QED
      BY <3>1, <3>2, <3>3
  <2> QED
    BY <2>1, <2>2
<1>7. ASSUME NEW n \in inUse PROVE \E p \in Places : Occupant(S, p) = n
  <2>1. CASE InList(S, n)
    <3>1. PICK q \in Queues : \E k \in 1 .. Len(S[q]) : S[q][k] = n
      BY <2>1 DEF InList
    <3>2. PICK k \in 1 .. Len(S[q]) : S[q][k] = n
      BY <3>1
    <3>3. q \in Ready
      BY <3>2, ReadyLists
    <3>4. <<q, k>> \in Places
      BY <1>2, <3>2, <3>3, PlaceKinds
    <3>5. Occupant(S, <<q, k>>) = n
      BY <1>2, <3>2, <3>3 DEF Occupant
    <3> QED
      BY <3>4, <3>5
  <2>2. CASE \E t \in Threads : n \in Private(t)
    <3>1. PICK t \in Threads : n \in Private(t)
      BY <2>2
    <3>2. <<NULL, t>> \in Places
      BY <3>1, PlaceKinds
    <3>3. Occupant(S, <<NULL, t>>) = n
      BY <1>1, <3>1 DEF Occupant
    <3> QED
      BY <3>2, <3>3
  <2> QED
    BY <2>1, <2>2 DEF Structure, PrivateInv
<1> QED
  BY <1>5, <1>6, <1>7

\* A node handed out by the pool is in one place only: in one position of the list of one
\* queue, or in the hands of one thread; no node is lost and no two queues share one
\* (CLockFreeQueue.h, nodePool_.Alloc in Enqueue and Free in Dequeue and ClearAll).
THEOREM NodesAccountedAlways == Spec => []NodesAccounted
<1>1. QueueInv => NodesAccounted
  <2> SUFFICES ASSUME QueueInv PROVE NodesAccounted
    OBVIOUS
  <2>1. PICK S \in Lists : Structure(S)
    BY DEF QueueInv
  <2>2. TypeOK
    BY <2>1 DEF Structure
  <2>3. inUse = (UNION {ChainNodes(q) : q \in Ready}) \cup UNION {Private(t) : t \in Threads}
    <3>1. \A q \in Ready : ChainNodes(q) = {S[q][k] : k \in 1 .. Len(S[q])}
      BY <2>1, ReadyLists DEF Range
    <3>2. ASSUME NEW n \in inUse
          PROVE  (\E q \in Ready : n \in ChainNodes(q)) \/ (\E t \in Threads : n \in Private(t))
      <4>1. CASE InList(S, n)
        <5>1. PICK q \in Queues : \E k \in 1 .. Len(S[q]) : S[q][k] = n
          BY <4>1 DEF InList
        <5>2. q \in Ready
          BY <2>1, <5>1, ReadyLists
        <5> QED
          BY <3>1, <5>1, <5>2
      <4> QED
        BY <2>1, <4>1 DEF Structure, PrivateInv
    <3>3. \A q \in Ready : ChainNodes(q) \subseteq inUse
      BY <2>1, <3>1, ListFacts DEF Structure, Ready
    <3>4. \A t \in Threads : Private(t) \subseteq inUse
      BY <2>1 DEF Structure, PrivateInv
    <3>5. /\ \A n : n \in UNION {ChainNodes(q) : q \in Ready} <=> \E q \in Ready : n \in ChainNodes(q)
          /\ \A n : n \in UNION {Private(t) : t \in Threads} <=> \E t \in Threads : n \in Private(t)
      OBVIOUS
    <3> QED
      <4> DEFINE A == UNION {ChainNodes(q) : q \in Ready}
                 B == UNION {Private(t) : t \in Threads}
      <4>1. \A n : n \in A <=> \E q \in Ready : n \in ChainNodes(q)
        BY <3>5
      <4>2. \A n : n \in B <=> \E t \in Threads : n \in Private(t)
        BY <3>5
      <4> HIDE DEF A, B
      <4>3. inUse = A \cup B
        BY <3>2, <3>3, <3>4, <4>1, <4>2
      <4> QED
        BY <4>3 DEF A, B
  <2>4. Cardinality(inUse) = Cardinality(Places)
    <3>1. PICK f : f = [p \in Places |-> Occupant(S, p)]
      OBVIOUS
    <3>2. f \in Bijection(Places, inUse)
      <4>1. f \in [Places -> inUse] /\ \A p \in Places : f[p] = Occupant(S, p)
        BY <2>1, <3>1, PlacesFilled
      <4>2. \A p, r \in Places : f[p] = f[r] => p = r
        BY <2>1, <4>1, PlacesFilled
      <4>3. \A n \in inUse : \E p \in Places : f[p] = n
        BY <2>1, <4>1, PlacesFilled
      <4> QED
        BY <4>1, <4>2, <4>3, Fun_IsBij
    <3>3. ExistsBijection(inUse, Places)
      BY <3>2, Fun_ExistsBij, Fun_ExistsBijSymmetric
    <3>4. IsFiniteSet(inUse)
      BY <2>2, QueueAssumption, FS_Subset DEF TypeOK
    <3> QED
      BY <3>3, <3>4, FS_Bijection
  <2> QED
    BY <2>2, <2>3, <2>4 DEF NodesAccounted
<1> QED
  BY <1>1, QueueInvAlways, PTL

-------------------------------------------------------------------------------
LEMMA SameSequence ==
    ASSUME NEW V, NEW W, NEW s \in Seq(V), NEW r \in Seq(W), Len(s) = Len(r),
           \A k \in 1 .. Len(s) : s[k] = r[k]
    PROVE  s = r
OBVIOUS

\* The elements of a queue are the values behind its dummy.
ItemsOf(S) ==
    \A q \in Queues :
      /\ phase[q] = "ready" =>
           /\ Items(q) \in Seq(Values) /\ Len(Items(q)) = Len(S[q]) - 1
           /\ \A k \in 1 .. Len(S[q]) - 1 : Items(q)[k] = data[S[q][k + 1]]
      /\ phase[q] # "ready" => Items(q) = <<>>

LEMMA ItemsFacts == \A S \in Lists : Structure(S) => ItemsOf(S)
<1> SUFFICES ASSUME NEW S \in Lists, Structure(S), NEW q \in Queues
             PROVE  /\ phase[q] = "ready" =>
                         /\ Items(q) \in Seq(Values) /\ Len(Items(q)) = Len(S[q]) - 1
                         /\ \A k \in 1 .. Len(S[q]) - 1 : Items(q)[k] = data[S[q][k + 1]]
                    /\ phase[q] # "ready" => Items(q) = <<>>
  BY DEF ItemsOf
<1>1. phase[q] # "ready" => Items(q) = <<>>
  BY DEF Items, Ready
<1>2. CASE phase[q] = "ready"
  <2>1. PICK s \in Seq(Nodes), L \in Nat : s = S[q] /\ s = Chain(q) /\ L = Len(s) /\ L >= 1
    BY <1>2, ReadyLists DEF Lists, Ready
  <2>2. PICK c : c = Tail(s)
    OBVIOUS
  <2>3. c \in Seq(Nodes) /\ Len(c) = L - 1 /\ DOMAIN c = 1 .. L - 1
        /\ \A k \in 1 .. L - 1 : c[k] = s[k + 1]
    <3>1. s # << >>
      BY <2>1
    <3> QED
      BY <2>1, <2>2, <3>1
  <2>4. Items(q) = [k \in 1 .. L - 1 |-> data[c[k]]]
    BY <1>2, <2>1, <2>2, <2>3 DEF Items, Ready
  <2>5. \A k \in 1 .. L - 1 : data[c[k]] \in Values
    <3>1. \A k \in 1 .. Len(S[q]) : k # 1 => data[S[q][k]] \in Values
      BY DEF Structure, ListsInv
    <3>2. \A k \in 1 .. L - 1 : k + 1 \in 1 .. L /\ k + 1 # 1
      BY <2>1
    <3> QED
      BY <2>1, <2>3, <3>1, <3>2
  <2>6. Items(q) \in Seq(Values) /\ Len(Items(q)) = L - 1
    BY <2>1, <2>4, <2>5
  <2> QED
    BY <1>2, <2>1, <2>3, <2>4, <2>6
<1> QED
  BY <1>1, <1>2

LEMMA ItemsNext == (\A S \in Lists : Structure(S) => ItemsOf(S))'
BY ItemsFacts, PTL

LEMMA ItemsSame ==
    ASSUME NEW S \in Lists, NEW R \in Lists, Structure(S), Structure(R)', NEW q \in Queues,
           phase'[q] = phase[q], R[q] = S[q],
           \A k \in 1 .. Len(S[q]) : data'[S[q][k]] = data[S[q][k]]
    PROVE  Items(q)' = Items(q)
<1>1. ItemsOf(S) /\ ItemsOf(R)'
  BY ItemsFacts, ItemsNext
<1>2. CASE phase[q] # "ready"
  BY <1>1, <1>2 DEF ItemsOf
<1>3. CASE phase[q] = "ready"
  <2>1. PICK s \in Seq(Values), r \in Seq(Values), L \in Nat :
          s = Items(q) /\ r = Items(q)' /\ L = Len(S[q]) /\ Len(s) = L - 1 /\ Len(r) = L - 1
    BY <1>1, <1>3, ListFacts DEF ItemsOf, Structure
  <2>2. \A k \in 1 .. L - 1 : s[k] = data[S[q][k + 1]] /\ r[k] = data'[S[q][k + 1]]
    BY <1>1, <1>3, <2>1 DEF ItemsOf
  <2>3. \A k \in 1 .. L - 1 : k + 1 \in 1 .. L
    BY <2>1
  <2>4. s = r
    BY <2>1, <2>2, <2>3, SameSequence
  <2> QED
    BY <2>1, <2>4
<1> QED
  BY <1>2, <1>3

\* The values taken off and not returned.
Taken == [t \in Threads |-> IF pc[t] = "deqFree" THEN loc[t].val ELSE NoValue]

LEMMA TakenSame ==
    ASSUME NEW t \in Threads, \A u \in Threads \ {t} : pc'[u] = pc[u] /\ loc'[u] = loc[u],
           pc[t] # "deqFree", pc'[t] # "deqFree"
    PROVE  Taken' = Taken
BY DEF Taken

LEMMA NodesRetained ==
    ASSUME NEW S \in Lists, Structure(S), NEW t \in Threads, Quiet(t) \/ DeqFree(t)
    PROVE  /\ phase' = phase
           /\ \A q \in Queues : \A k \in 1 .. Len(S[q]) : data'[S[q][k]] = data[S[q][k]]
<1>1. phase' = phase
  BY DEF Quiet, Call, BeginConstruct, BeginEnqueue, GetTag, AllocNode, EnqBuilt, EnqReadTail,
         EnqReadId, EnqReadMeta, EnqHelp, EnqSwing, EnqLink, EnqCount, DeqReserve, DeqUndo,
         DeqReadTail, DeqReadHead, DeqReadNext, DeqHelp, DeqReadData, DeqAdvance, DeqFree, queueVars
<1>2. CASE AllocNode(t)
  <2>1. PICK n \in Nodes : n \notin inUse /\ data' = [data EXCEPT ![n] = loc[t].val]
    BY <1>2 DEF AllocNode, NodePool!Alloc
  <2>2. \A q \in Queues : \A k \in 1 .. Len(S[q]) : S[q][k] # n /\ S[q][k] \in Nodes
    BY <2>1, ListFacts DEF Structure
  <2> QED
    BY <1>1, <2>1, <2>2 DEF Structure, TypeOK
<1>3. CASE ~AllocNode(t)
  <2>1. data' = data
    BY <1>3 DEF Quiet, Call, BeginConstruct, BeginEnqueue, GetTag, EnqBuilt, EnqReadTail,
                EnqReadId, EnqReadMeta, EnqHelp, EnqSwing, EnqLink, EnqCount, DeqReserve, DeqUndo,
                DeqReadTail, DeqReadHead, DeqReadNext, DeqHelp, DeqReadData, DeqAdvance, DeqFree,
                nodeVars
  <2> QED
    BY <1>1, <2>1
<1> QED
  BY <1>2, <1>3

LEMMA QuietStutters ==
    ASSUME NEW S \in Lists, Structure(S), CountInv(S), NEW t \in Threads, Quiet(t)
    PROVE  /\ \A q \in Queues : Items(q)' = Items(q)
           /\ Taken' = Taken
<1>1. Structure(S)'
  BY QuietKeeps
<1>2. \A q \in Queues : Items(q)' = Items(q)
  BY <1>1, NodesRetained, ItemsSame
<1>3. TypeOK /\ (Step(t) \/ Call(t))
  BY DEF Structure, Quiet, Step
<1>4. \A u \in Threads \ {t} : pc'[u] = pc[u] /\ loc'[u] = loc[u]
  BY <1>3, OthersStay
<1>5. pc[t] # "deqFree"
  BY DEF Quiet, Call, BeginConstruct, BeginEnqueue, GetTag, AllocNode, EnqBuilt, EnqReadTail,
         EnqReadId, EnqReadMeta, EnqHelp, EnqSwing, EnqLink, EnqCount, DeqReserve, DeqUndo,
         DeqReadTail, DeqReadHead, DeqReadNext, DeqHelp, DeqReadData, DeqAdvance
<1>6. pc'[t] # "deqFree"
  <2>1. \A label : pc' = [pc EXCEPT ![t] = label] => pc'[t] = label
    BY <1>3 DEF TypeOK
  <2>2. pc'[t] = "deqFree" => \E label : label # "deqFree" /\ pc' = [pc EXCEPT ![t] = label]
    BY DEF Quiet, Call, BeginConstruct, BeginEnqueue, GetTag, AllocNode, EnqBuilt, EnqReadTail,
           EnqReadId, EnqReadMeta, EnqHelp, EnqSwing, EnqLink, EnqCount, DeqReserve, DeqUndo,
           DeqReadTail, DeqReadHead, DeqReadNext, DeqHelp, DeqReadData, DeqAdvance, Return, Goto
  <2> QED
    BY <2>1, <2>2
<1> QED
  BY <1>2, <1>4, <1>5, <1>6, TakenSame

-------------------------------------------------------------------------------
\* What each step that is not quiet does to the elements and to the values taken.
LEMMA EndConstructStutters ==
    ASSUME NEW S \in Lists, Structure(S), NEW t \in Threads, EndConstruct(t)
    PROVE  /\ \A q \in Queues : Items(q)' = Items(q)
           /\ Taken' = Taken
<1>1. TypeOK /\ pc[t] = "ctorNext" /\ Return(t) /\ data' = data
  BY DEF Structure, EndConstruct
<1>2. PICK q \in Queues : q = loc[t].queue /\ phase[q] = "new"
  BY <1>1, LocalsTyped DEF Structure, Threadwise, Knows, Ctor
<1>3. /\ \A u \in Threads \ {t} : pc'[u] = pc[u] /\ loc'[u] = loc[u]
      /\ pc'[t] = "idle"
  BY <1>1, Returned
<1>4. PICK R \in Lists : /\ R = [S EXCEPT ![loc[t].queue] = <<GetRealAddr(loc[t].new)>>]
                         /\ Structure(R)'
  BY EndConstructKeeps
<1>5. ItemsOf(S) /\ ItemsOf(R)'
  BY <1>4, ItemsFacts, ItemsNext
<1>6. /\ phase'[q] = "ready" /\ Len(R[q]) = 1
      /\ \A r \in Queues \ {q} : phase'[r] = phase[r] /\ R[r] = S[r]
  BY <1>1, <1>2, <1>4 DEF EndConstruct, TypeOK, Lists
<1>7. \A r \in Queues \ {q} : Items(r)' = Items(r)
  BY <1>1, <1>4, <1>6, ItemsSame
<1>8. Items(q)' = Items(q)
  <2>1. Items(q) = <<>>
    BY <1>2, <1>5 DEF ItemsOf
  <2>2. PICK s \in Seq(Values) : s = Items(q)' /\ Len(s) = 0
    BY <1>5, <1>6 DEF ItemsOf
  <2>3. s = <<>>
    BY <2>2
  <2> QED
    BY <2>1, <2>2, <2>3
<1>9. Taken' = Taken
  BY <1>1, <1>3, TakenSame
<1> QED
  BY <1>7, <1>8, <1>9

LEMMA EnqLinkAppends ==
    ASSUME NEW S \in Lists, Structure(S), NEW t \in Threads, EnqLink(t), pc'[t] = "enqSwing"
    PROVE  \E q \in Queues, v \in Values :
             /\ Items(q)' = Append(Items(q), v)
             /\ \A r \in Queues \ {q} : Items(r)' = Items(r)
             /\ Taken' = Taken
<1>1. TypeOK /\ pc[t] = "enqLink" /\ data' = data /\ phase' = phase
  BY DEF Structure, EnqLink, queueVars
<1>2. PICK q \in Queues, n \in Nodes, v \in Values :
        q = loc[t].queue /\ phase[q] = "ready" /\ n = GetRealAddr(loc[t].new)
          /\ v = loc[t].val /\ data[n] = v
  <2>1. GetRealAddr(loc[t].new) \in Nodes
    BY <1>1, HeldApart DEF Building, Built
  <2> QED
    BY <1>1, <2>1, LocalsTyped DEF Structure, Threadwise, Knows, Building, Built, Ctor
<1>3. PICK R \in Lists : R = [S EXCEPT ![loc[t].queue] = Append(@, GetRealAddr(loc[t].new))]
                         /\ Structure(R)'
  BY EnqLinkKeeps
<1>4. ItemsOf(S) /\ ItemsOf(R)'
  BY <1>3, ItemsFacts, ItemsNext
<1>5. PICK c \in Seq(Nodes), L \in Nat : c = S[q] /\ L = Len(c) /\ L >= 1
  BY <1>1, <1>2, ListFacts DEF Structure
<1>6. /\ R[q] = Append(c, n) /\ Len(R[q]) = L + 1 /\ R[q][L + 1] = n
      /\ \A k \in 1 .. L : R[q][k] = c[k]
  <2>1. R[q] = Append(c, n)
    BY <1>2, <1>3, <1>5 DEF Lists
  <2> QED
    BY <1>5, <2>1
<1>7. \A r \in Queues \ {q} : R[r] = S[r]
  BY <1>2, <1>3 DEF Lists
<1>8. \A r \in Queues \ {q} : Items(r)' = Items(r)
  BY <1>1, <1>3, <1>7, ItemsSame
<1>9. Items(q)' = Append(Items(q), v)
  <2>1. PICK s \in Seq(Values), r \in Seq(Values) :
          s = Items(q) /\ r = Items(q)' /\ Len(s) = L - 1 /\ Len(r) = L + 1 - 1
    BY <1>1, <1>2, <1>4, <1>5, <1>6 DEF ItemsOf
  <2>2. /\ \A k \in 1 .. L - 1 : s[k] = data[c[k + 1]]
        /\ \A k \in 1 .. L : r[k] = data[R[q][k + 1]]
    <3>1. 1 .. Len(S[q]) - 1 = 1 .. L - 1 /\ 1 .. Len(R[q]) - 1 = 1 .. L
      BY <1>5, <1>6
    <3>2. \A k \in 1 .. L - 1 : s[k] = data[c[k + 1]]
      BY <1>2, <1>4, <1>5, <2>1, <3>1 DEF ItemsOf
    <3>3. \A k \in 1 .. L : r[k] = data'[R[q][k + 1]]
      BY <1>1, <1>2, <1>4, <2>1, <3>1 DEF ItemsOf
    <3> QED
      BY <1>1, <3>2, <3>3
  <2>3. r[L] = v
    <3>1. L \in 1 .. L
      BY <1>5
    <3> QED
      BY <1>2, <1>6, <2>2, <3>1
  <2>4. \A k \in 1 .. L - 1 : r[k] = s[k]
    <3>1. \A k \in 1 .. L - 1 : k \in 1 .. L /\ k + 1 \in 1 .. L
      BY <1>5
    <3> QED
      BY <1>6, <2>2, <3>1
  <2>5. PICK a \in Seq(Values) : a = Append(s, v)
    <3>1. s \in Seq(Values) /\ v \in Values
      BY <1>2, <2>1
    <3>2. Append(s, v) \in Seq(Values)
      BY <3>1
    <3> QED
      BY <3>2
  <2>6. Len(a) = L /\ a[L] = v /\ \A k \in 1 .. L - 1 : a[k] = s[k]
    BY <1>5, <2>1, <2>5
  <2>7. \A k \in 1 .. L : r[k] = a[k]
    <3>1. \A k \in 1 .. L : k = L \/ k \in 1 .. L - 1
      BY <1>5
    <3> QED
      BY <2>3, <2>4, <2>6, <3>1
  <2>8. r = a
    <3>1. Len(r) = L
      BY <1>5, <2>1
    <3> QED
      BY <2>6, <2>7, <3>1, SameSequence
  <2> QED
    BY <2>1, <2>5, <2>8
<1>10. Taken' = Taken
  <2>1. \A u \in Threads \ {t} : pc'[u] = pc[u] /\ loc'[u] = loc[u]
    BY <1>1, OthersStay DEF Step
  <2> QED
    BY <1>1, <2>1, TakenSame
<1> QED
  BY <1>8, <1>9, <1>10

LEMMA DeqAdvanceTakes ==
    ASSUME NEW S \in Lists, Structure(S), CountInv(S), NEW t \in Threads, DeqAdvance(t),
           pc'[t] = "deqFree"
    PROVE  \E q \in Queues :
             /\ Taken[t] = NoValue /\ Items(q) # <<>>
             /\ Items(q)' = Tail(Items(q))
             /\ \A r \in Queues \ {q} : Items(r)' = Items(r)
             /\ Taken' = [Taken EXCEPT ![t] = Head(Items(q))]
<1>1. TypeOK /\ pc[t] = "deqCas" /\ data' = data /\ phase' = phase
  BY DEF Structure, DeqAdvance, nodeVars
<1>2. /\ metaHead[loc[t].queue] = loc[t].head
      /\ loc' = [loc EXCEPT ![t] = [loc[t] EXCEPT !.tail = ZeroMeta, !.next = ZeroMeta]]
  <2>1. pc' = [pc EXCEPT ![t] = "deqTail"] => pc'[t] = "deqTail"
    BY <1>1 DEF TypeOK
  <2> QED
    BY <2>1 DEF DeqAdvance, Goto
<1>3. PICK q \in Queues, c \in Seq(Nodes), L \in Nat :
        /\ q = loc[t].queue /\ phase[q] = "ready" /\ c = S[q] /\ L = Len(c) /\ L >= 2
        /\ metaHead[q] = loc[t].head
  BY <1>1, <1>2, AdvancePlace DEF Lists
<1>4. loc[t].val = data[c[2]]
  BY <1>1, <1>3 DEF Structure, Threadwise, Advance, Advances
<1>5. PICK R \in Lists : R = [S EXCEPT ![loc[t].queue] = Tail(@)] /\ Structure(R)'
  BY DeqAdvanceKeeps
<1>6. ItemsOf(S) /\ ItemsOf(R)'
  BY <1>5, ItemsFacts, ItemsNext
<1>7. Len(R[q]) = L - 1 /\ \A k \in 1 .. L - 1 : R[q][k] = c[k + 1]
  <2>1. R[q] = Tail(c) /\ c # <<>>
    BY <1>3, <1>5 DEF Lists
  <2> QED
    BY <1>3, <2>1
<1>8. \A r \in Queues \ {q} : R[r] = S[r]
  BY <1>3, <1>5 DEF Lists
<1>9. \A r \in Queues \ {q} : Items(r)' = Items(r)
  BY <1>1, <1>5, <1>8, ItemsSame
<1>10. PICK s \in Seq(Values), r \in Seq(Values) :
         /\ s = Items(q) /\ r = Items(q)' /\ Len(s) = L - 1 /\ Len(r) = L - 2
         /\ \A k \in 1 .. L - 1 : s[k] = data[c[k + 1]]
         /\ \A k \in 1 .. L - 2 : r[k] = data[R[q][k + 1]]
  <2>1. L - 1 - 1 = L - 2 /\ phase'[q] = "ready"
    BY <1>1, <1>3
  <2>2. /\ Items(q) \in Seq(Values) /\ Len(Items(q)) = L - 1
        /\ \A k \in 1 .. L - 1 : Items(q)[k] = data[c[k + 1]]
    BY <1>3, <1>6 DEF ItemsOf
  <2>3. /\ Items(q)' \in Seq(Values) /\ Len(Items(q)') = L - 2
        /\ \A k \in 1 .. L - 2 : Items(q)'[k] = data'[R[q][k + 1]]
    BY <1>6, <1>7, <2>1 DEF ItemsOf
  <2> QED
    BY <1>1, <2>2, <2>3
<1>11. s # <<>> /\ Head(s) = loc[t].val
  <2>1. 1 \in 1 .. L - 1
    BY <1>3
  <2>2. s[1] = loc[t].val
    BY <1>4, <1>10, <2>1
  <2> QED
    BY <1>3, <1>10, <2>2
<1>12. r = Tail(s)
  <2>1. PICK a \in Seq(Values) : a = Tail(s) /\ Len(a) = L - 2 /\ \A k \in 1 .. L - 2 : a[k] = s[k + 1]
    <3>1. PICK M \in Nat : M = L - 1 /\ Len(s) = M /\ M - 1 = L - 2
      BY <1>3, <1>10
    <3>2. Tail(s) \in Seq(Values) /\ Len(Tail(s)) = M - 1 /\ \A k \in 1 .. M - 1 : Tail(s)[k] = s[k + 1]
      BY <1>10, <1>11, <3>1
    <3> QED
      BY <3>1, <3>2
  <2>2. \A k \in 1 .. L - 2 : a[k] = r[k]
    <3>1. \A k \in 1 .. L - 2 : k + 1 \in 1 .. L - 1
      BY <1>3
    <3> QED
      BY <1>7, <1>10, <2>1, <3>1
  <2> QED
    BY <1>10, <2>1, <2>2, SameSequence
<1>13. /\ \A u \in Threads \ {t} : pc'[u] = pc[u] /\ loc'[u] = loc[u]
       /\ loc'[t].val = loc[t].val
  <2>1. \A u \in Threads \ {t} : pc'[u] = pc[u] /\ loc'[u] = loc[u]
    BY <1>1, OthersStay DEF Step
  <2> QED
    BY <1>1, <1>2, <2>1 DEF TypeOK, Locals
<1>14. Taken[t] = NoValue /\ Taken' = [Taken EXCEPT ![t] = Head(s)]
  BY <1>1, <1>11, <1>13 DEF Taken
<1> QED
  BY <1>9, <1>10, <1>11, <1>12, <1>14

LEMMA DeqFreeReturns ==
    ASSUME NEW S \in Lists, Structure(S), NEW t \in Threads, DeqFree(t)
    PROVE  /\ \A q \in Queues : Items(q)' = Items(q)
           /\ Taken' = [Taken EXCEPT ![t] = NoValue]
<1>1. Structure(S)'
  BY DeqFreeKeeps
<1>2. \A q \in Queues : Items(q)' = Items(q)
  BY <1>1, NodesRetained, ItemsSame
<1>3. TypeOK /\ Return(t)
  BY DEF Structure, DeqFree
<1>4. /\ pc'[t] = "idle" /\ \A u \in Threads \ {t} : pc'[u] = pc[u] /\ loc'[u] = loc[u]
  BY <1>3, Returned
<1> QED
  BY <1>2, <1>4 DEF Taken

LEMMA ClearAllClears ==
    ASSUME NEW S \in Lists, Structure(S), NEW q \in Queues, ClearAll(q)
    PROVE  /\ Items(q)' = <<>> /\ \A r \in Queues \ {q} : Items(r)' = Items(r)
           /\ Taken' = Taken
<1>1. TypeOK /\ data' = data /\ pc' = pc /\ loc' = loc
      /\ phase' = [phase EXCEPT ![q] = "cleared"]
  BY DEF Structure, ClearAll, nodeVars
<1>2. PICK R \in Lists : R = [S EXCEPT ![q] = <<>>] /\ Structure(R)'
  BY ClearAllKeeps
<1>3. /\ phase'[q] = "cleared"
      /\ \A r \in Queues \ {q} : phase'[r] = phase[r] /\ R[r] = S[r]
  BY <1>1, <1>2 DEF TypeOK, Lists
<1>4. Items(q)' = <<>>
  BY <1>2, <1>3, ItemsNext DEF ItemsOf
<1>5. \A r \in Queues \ {q} : Items(r)' = Items(r)
  BY <1>1, <1>2, <1>3, ItemsSame
<1>6. Taken' = Taken
  BY <1>1 DEF Taken
<1> QED
  BY <1>4, <1>5, <1>6

\* Every queue is a FIFO (FifoQueue): an element leaves the queue it entered, once and in
\* order, although nodes and their addresses wander between the queues.  Enqueue takes
\* effect at its double-width CAS and Dequeue at its CAS of metaHead_.
THEOREM ImplementsFifo == Spec => FifoSpec
<1>1. Init => Fifo!Init
  <2> SUFFICES ASSUME Init PROVE Fifo!Init
    OBVIOUS
  <2>1. \A q \in Queues : Items(q) = <<>>
    BY DEF Init, Items, Ready
  <2> QED
    BY <2>1 DEF Init, Fifo!Init
<1>2. QueueInv /\ [Next]_vars => [Fifo!Next]_Fifo!vars
  <2> SUFFICES ASSUME QueueInv, [Next]_vars PROVE [Fifo!Next]_Fifo!vars
    OBVIOUS
  <2> DEFINE items == [q \in Queues |-> Items(q)]
  <2>1. PICK S \in Lists : Structure(S) /\ CountInv(S)
    BY DEF QueueInv
  <2>2. ASSUME \A q \in Queues : Items(q)' = Items(q), Taken' = Taken
        PROVE  [Fifo!Next]_Fifo!vars
    BY <2>2 DEF Fifo!vars, Taken
  <2>3. CASE UNCHANGED vars
    <3>1. \A q \in Queues : Items(q)' = Items(q)
      BY <2>3 DEF vars, queueVars, nodeVars, Items, Ready, Chain
    <3> QED
      BY <2>2, <2>3, <3>1 DEF vars, Taken
  <2>4. CASE \E q \in Queues : ClearAll(q)
    <3>1. PICK q \in Queues : ClearAll(q)
      BY <2>4
    <3>2. items' = [items EXCEPT ![q] = <<>>] /\ Taken' = Taken
      BY <2>1, <3>1, ClearAllClears
    <3>3. Fifo!Clear(q)
      BY <3>2 DEF Fifo!Clear, Taken
    <3> QED
      BY <3>3 DEF Fifo!Next
  <2>5. ASSUME NEW t \in Threads, Step(t) \/ Call(t)
        PROVE  [Fifo!Next]_Fifo!vars
    <3>1. CASE Quiet(t)
      BY <2>1, <2>2, <3>1, QuietStutters
    <3>2. CASE EndConstruct(t)
      BY <2>1, <2>2, <3>2, EndConstructStutters
    <3>3. CASE DeqFree(t)
      <4>1. items' = items /\ Taken' = [Taken EXCEPT ![t] = NoValue]
        BY <2>1, <3>3, DeqFreeReturns
      <4>2. Fifo!Return(t)
        BY <4>1 DEF Fifo!Return, Taken
      <4> QED
        BY <4>2 DEF Fifo!Next
    <3>4. CASE EnqLink(t) /\ pc'[t] = "enqSwing"
      <4>1. PICK q \in Queues, v \in Values :
              /\ Items(q)' = Append(Items(q), v)
              /\ \A r \in Queues \ {q} : Items(r)' = Items(r)
              /\ Taken' = Taken
        BY <2>1, <3>4, EnqLinkAppends
      <4>2. items' = [items EXCEPT ![q] = Append(@, v)]
        BY <4>1
      <4>3. Fifo!Enqueue(q, v)
        BY <4>1, <4>2 DEF Fifo!Enqueue, Taken
      <4> QED
        BY <4>3 DEF Fifo!Next
    <3>5. CASE DeqAdvance(t) /\ pc'[t] = "deqFree"
      <4>1. PICK q \in Queues :
              /\ Taken[t] = NoValue /\ Items(q) # <<>>
              /\ Items(q)' = Tail(Items(q))
              /\ \A r \in Queues \ {q} : Items(r)' = Items(r)
              /\ Taken' = [Taken EXCEPT ![t] = Head(Items(q))]
        BY <2>1, <3>5, DeqAdvanceTakes
      <4>2. items' = [items EXCEPT ![q] = Tail(@)] /\ items[q] = Items(q)
        BY <4>1
      <4>3. Fifo!Dequeue(t, q)
        BY <4>1, <4>2 DEF Fifo!Dequeue, Taken
      <4> QED
        BY <4>3 DEF Fifo!Next
    <3> QED
      BY <2>5, <3>1, <3>2, <3>3, <3>4, <3>5, StepKinds
  <2> QED
    BY <2>3, <2>4, <2>5 DEF Next
<1> QED
  BY <1>1, <1>2, QueueInvAlways, PTL DEF Spec, FifoSpec, Fifo!Spec

===============================================================================
