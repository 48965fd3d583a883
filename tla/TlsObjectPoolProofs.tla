-------------------------- MODULE TlsObjectPoolProofs --------------------------
(***************************************************************************)
(* For any finite sets of threads and buckets and any size of a bucket:    *)
(* the stack of TlsObjectPool is a list of exactly the retired buckets,    *)
(* its counters are exact, and it implements ObjectPool.                   *)
(*                                                                         *)
(* The stack is described by a sequence s of its buckets.  Of the words    *)
(* threads have read from it TagInv says that they are not about to be     *)
(* pushed, so that a word that is still in the stack has been there ever   *)
(* since; NextRead draws the conclusion that a CAS that succeeds installs  *)
(* the right successor.                                                    *)
(***************************************************************************)
EXTENDS TlsObjectPool, Sequences, FiniteSetTheorems, TLAPS

\* Induction, as far as it is needed: the provers cannot instantiate a theorem about
\* a predicate, but a set of numbers has a least element.
LEMMA LeastElement ==
    ASSUME NEW N \in Nat, NEW T \in SUBSET (0 .. N), T # {}
    PROVE  \E n \in T : \A m \in T : n <= m
<1> DEFINE Intervals == {0 .. n : n \in T}
           Less      == StrictSubsetOrdering(0 .. N)
<1>1. /\ IsFiniteSet(0 .. N)
      /\ \A n \in T : n \in Nat /\ 0 .. n \in SUBSET (0 .. N)
  BY FS_Interval
<1>2. IsWellFoundedOn(Less, FiniteSubsetsOf(0 .. N))
  BY FS_StrictSubsetOrderingWellFounded
<1>3. Intervals \subseteq FiniteSubsetsOf(0 .. N) /\ Intervals # {}
  <2>1. FiniteSubsetsOf(0 .. N) = SUBSET (0 .. N)
    BY <1>1, FS_FiniteSubsetsOfFinite
  <2>2. ASSUME NEW I \in Intervals PROVE I \in SUBSET (0 .. N)
    <3>1. PICK n \in T : I = 0 .. n
      BY <2>2
    <3> QED
      BY <1>1, <3>1, Zenon
  <2>3. Intervals # {}
    <3>1. PICK n \in T : TRUE
      OBVIOUS
    <3>2. 0 .. n \in Intervals
      BY <3>1
    <3> QED
      BY <3>2
  <2> QED
    BY <2>1, <2>2, <2>3, Zenon
<1>4. \E I \in Intervals : \A J \in Intervals : <<J, I>> \notin Less
  <2> HIDE DEF Less, Intervals
  <2> QED
    BY <1>2, <1>3, WFMin
<1>5. PICK n \in T : \A J \in Intervals : <<J, 0 .. n>> \notin Less
  BY <1>4
<1>6. ASSUME NEW m \in T, m < n PROVE FALSE
  <2>1. /\ 0 .. m \subseteq 0 .. n /\ n \notin 0 .. m /\ n \in 0 .. n
        /\ 0 .. m \in SUBSET (0 .. N) /\ 0 .. n \in SUBSET (0 .. N)
    BY <1>1, <1>6
  <2>2. <<0 .. m, 0 .. n>> \in Less
    BY <2>1 DEF StrictSubsetOrdering
  <2> QED
    BY <1>5, <2>2
<1> QED
  BY <1>1, <1>6

LEMMA SameByInduction ==
    ASSUME NEW N \in Nat, NEW f, NEW g, f[0] = g[0],
           \A n \in 1 .. N : f[n - 1] = g[n - 1] => f[n] = g[n]
    PROVE  \A n \in 0 .. N : f[n] = g[n]
<1> DEFINE T == {n \in 0 .. N : f[n] # g[n]}
<1> SUFFICES ASSUME T # {} PROVE FALSE
  OBVIOUS
<1>1. PICK n \in T : \A m \in T : n <= m
  <2>1. T \in SUBSET (0 .. N)
    OBVIOUS
  <2> HIDE DEF T
  <2> QED
    BY <2>1, LeastElement
<1>2. n \in 1 .. N /\ n - 1 \in 0 .. N /\ n - 1 \notin T
  BY <1>1
<1> QED
  BY <1>1, <1>2

\* A sequence without repetition, and the number of its elements.
LEMMA ElementsCounted ==
    ASSUME NEW S, NEW n \in Nat, NEW f, \A i, j \in 1 .. n : f[i] = f[j] => i = j,
           \A i \in 1 .. n : f[i] \in S, \A x \in S : \E i \in 1 .. n : f[i] = x
    PROVE  Cardinality(S) = n /\ IsFiniteSet(S)
<1> DEFINE g == [i \in 1 .. n |-> f[i]]
<1>1. g \in [1 .. n -> S] /\ \A i \in 1 .. n : g[i] = f[i]
  OBVIOUS
<1> HIDE DEF g
<1>2. g \in Bijection(1 .. n, S)
  BY <1>1 DEF Bijection, Injection, Surjection, IsInjective
<1>3. ExistsBijection(1 .. n, S)
  BY <1>2 DEF ExistsBijection
<1> QED
  BY <1>3, FS_CountingElements, FS_NatBijection

Pops   == {"popRead", "malloc", "popNext", "popCas", "init", "take"}
Linking == {"pushRead", "pushLink", "pushCas"}
Pushes == {"pushTag"} \cup Linking

\* What a thread at each place of Alloc and Free can count on.
ThreadInv(t) ==
    /\ tls[t] # NULL => tls[t] \in mallocd /\ allocCnt[tls[t]] < Size
    /\ pc[t] \in Pops => tls[t] = NULL
    /\ pc[t] = "node" => tls[t] # NULL
    /\ pc[t] \in {"popNext", "popCas", "init", "take"} => GetRealAddr(top[t]) \in mallocd
    /\ pc[t] = "init" => freeCnt[GetRealAddr(top[t])] = Size
    /\ pc[t] = "take" => allocCnt[GetRealAddr(top[t])] = 0
    /\ pc[t] \in Pushes => bkt[t] \in mallocd /\ freeCnt[bkt[t]] = Size
    /\ pc[t] \in Linking => GetRealAddr(newTop[t]) = bkt[t]
    /\ pc[t] = "pushCas" => metaNext[bkt[t]] = top[t]

\* A bucket is in the hands of one thread.
HeldOnce == \A b \in Buckets, t, u \in Threads : Holds(t, b) /\ Holds(u, b) => t = u

\* The word a thread is about to compare is not on its way to the stack: it is
\* still there, or gone for as long as the thread takes.
TagInv ==
    \A t, u \in Threads :
      pc[t] \in {"popNext", "popCas"} /\ pc[u] \in Linking => top[t] # newTop[u]

\* The stack is s, top first: the n-th word, counted from 0, leads to the next bucket.
Word(s, n) == IF n = 0 THEN metaTop ELSE metaNext[s[n]]

IsStack(s) ==
    /\ \A i, j \in 1 .. Len(s) : s[i] = s[j] => i = j
    /\ \A n \in 0 .. Len(s) - 1 : GetRealAddr(Word(s, n)) = s[n + 1]
    /\ Word(s, Len(s)) = ZeroMeta
    /\ {s[i] : i \in 1 .. Len(s)} = Retired

\* Who compares a word that is in the stack has read the word behind it.
NextRead(s) ==
    \A t \in Threads, n \in 0 .. Len(s) - 1 :
      pc[t] = "popCas" /\ Word(s, n) = top[t] => newTop[t] = Word(s, n + 1)

Types ==
    /\ metaTop \in MetaAddrs(Buckets) /\ metaCnt \in Counters
    /\ capacity \in Nat /\ size \in Int /\ allocSize \in Int
    /\ allocCnt \in [Buckets -> 0 .. Size] /\ freeCnt \in [Buckets -> 0 .. Size]
    /\ metaNext \in [Buckets -> MetaAddrs(Buckets)]
    /\ mallocd \subseteq Buckets
    /\ tls \in [Threads -> Buckets \cup {NULL}]
    /\ pc \in [Threads -> {"idle"} \cup AllocPcs \cup FreePcs]
    /\ top \in [Threads -> MetaAddrs(Buckets)]
    /\ newTop \in [Threads -> MetaAddrs(Buckets)]
    /\ bkt \in [Threads -> Buckets \cup {NULL}]
    /\ live \subseteq mallocd \X (0 .. Size - 1)

PoolInv ==
    /\ Types
    /\ NodesAccounted
    /\ HeldOnce /\ TagInv
    /\ \A t \in Threads : ThreadInv(t)

-------------------------------------------------------------------------------
LEMMA CounterFacts ==
    /\ 0 \in Counters
    /\ \A c \in Counters : IncCnt(c) \in Counters
<1>1. COUNTER_MAX \in Nat /\ COUNTER_MAX > 0
  BY CounterAssumption
<1>2. ASSUME NEW c \in Nat PROVE (c + 1) % COUNTER_MAX \in 0 .. COUNTER_MAX - 1
  BY <1>1
<1> QED
  BY <1>1, <1>2 DEF Counters, IncCnt

LEMMA WordFacts ==
    /\ ZeroMeta \in MetaAddrs(Buckets)
    /\ GetRealAddr(ZeroMeta) = NULL /\ NULL \notin Buckets
    /\ \A m \in MetaAddrs(Buckets) : GetRealAddr(m) \in Buckets \cup {NULL}
    /\ \A c \in Counters, b \in Buckets \cup {NULL} :
         GetMetaAddr(c, b) \in MetaAddrs(Buckets) /\ GetRealAddr(GetMetaAddr(c, b)) = b
BY CounterFacts, PoolAssumption DEF ZeroMeta, GetRealAddr, GetMetaAddr, MetaAddrs

LEMMA SizeFacts == Size \in Nat /\ Size > 0
  BY PoolAssumption

\* The objects of a bucket are finitely many.
LEMMA LiveFinite ==
    ASSUME Types, NEW b \in Buckets
    PROVE  IsFiniteSet(live) /\ IsFiniteSet(LiveOf(b)) /\ Cardinality(LiveOf(b)) \in Nat
<1>1. IsFiniteSet(0 .. Size - 1)
  BY SizeFacts, FS_Interval
<1>2. IsFiniteSet(mallocd)
  BY PoolAssumption, FS_Subset DEF Types
<1>3. IsFiniteSet(mallocd \X (0 .. Size - 1))
  BY <1>1, <1>2, FS_Product
<1>4. IsFiniteSet(live)
  BY <1>3, FS_Subset DEF Types
<1>5. LiveOf(b) \in SUBSET live
  BY DEF LiveOf
<1> QED
  BY <1>4, <1>5, FS_Subset, FS_CardinalityType

-------------------------------------------------------------------------------
\* What a bucket's holder knows of it.
LEMMA HeldBucket ==
    ASSUME PoolInv, NEW u \in Threads, NEW b \in Buckets, Holds(u, b)
    PROVE  /\ b \in mallocd
           /\ tls[u] = b \/ freeCnt[b] = Size \/ allocCnt[b] = 0
<1>1. ThreadInv(u) /\ b # NULL
  BY WordFacts DEF PoolInv
<1>2. CASE tls[u] = b
  BY <1>1, <1>2 DEF ThreadInv
<1>3. CASE pc[u] \in {"init", "take"} /\ GetRealAddr(top[u]) = b
  BY <1>1, <1>3 DEF ThreadInv
<1>4. CASE pc[u] \in Pushes /\ bkt[u] = b
  BY <1>1, <1>4 DEF ThreadInv
<1> QED
  BY <1>2, <1>3, <1>4 DEF Holds, Pushes, Linking

\* The counts of a bucket of which a caller holds an object, or no node is out.
LEMMA BucketCounts ==
    ASSUME PoolInv, NEW b \in mallocd
    PROVE  /\ freeCnt[b] \in 0 .. Size /\ allocCnt[b] \in 0 .. Size
           /\ freeCnt[b] <= allocCnt[b]
           /\ freeCnt[b] = allocCnt[b] <=> LiveOf(b) = {}
<1>1. b \in Buckets /\ freeCnt[b] \in 0 .. Size /\ allocCnt[b] \in 0 .. Size
  BY DEF PoolInv, Types
<1>2. IsFiniteSet(LiveOf(b)) /\ Cardinality(LiveOf(b)) \in Nat
  BY <1>1, LiveFinite DEF PoolInv
<1>3. freeCnt[b] + Cardinality(LiveOf(b)) = allocCnt[b]
  BY DEF PoolInv, NodesAccounted
<1>4. Cardinality(LiveOf(b)) = 0 <=> LiveOf(b) = {}
  BY <1>2, FS_EmptySet
<1> QED
  BY <1>1, <1>2, <1>3, <1>4, SizeFacts

\* Whoever allocates from a bucket holds no other claim to it.
LEMMA OwnBucketNotFull ==
    ASSUME PoolInv, NEW u \in Threads, tls[u] # NULL
    PROVE  /\ tls[u] \in mallocd /\ tls[u] \in Buckets
           /\ allocCnt[tls[u]] < Size /\ freeCnt[tls[u]] < Size
<1>1. tls[u] \in mallocd /\ tls[u] \in Buckets /\ allocCnt[tls[u]] < Size
  BY DEF PoolInv, ThreadInv, Types
<1> QED
  BY <1>1, BucketCounts, SizeFacts

LEMMA AccountsKept ==
    ASSUME NodesAccounted, UNCHANGED <<mallocd, freeCnt, allocCnt, live>>
    PROVE  NodesAccounted'
BY DEF NodesAccounted, LiveOf

\* The retired buckets are the same if at most one bucket changed, which was not and is
\* not retired.
LEMMA RetiredKept ==
    ASSUME NEW b, b \notin Retired, b \notin Retired',
           \A c : c # b => /\ c \in mallocd' <=> c \in mallocd
                           /\ c \in mallocd => freeCnt'[c] = freeCnt[c]
                           /\ \A u \in Threads : Holds(u, c)' <=> Holds(u, c)
    PROVE  Retired' = Retired
<1>1. ASSUME NEW c PROVE c \in Retired' <=> c \in Retired
  <2>1. CASE c = b
    BY <2>1
  <2>2. CASE c # b
    BY <2>2 DEF Retired
  <2> QED
    BY <2>1, <2>2
<1> QED
  BY <1>1

\* What leaves the stack alone: the top, the links of its buckets and who compares.
LEMMA StackKept ==
    ASSUME NEW s \in Seq(Buckets), IsStack(s), NextRead(s),
           metaTop' = metaTop, Retired' = Retired,
           \A b \in Retired : metaNext'[b] = metaNext[b],
           \A u \in Threads : pc'[u] = "popCas" =>
             pc[u] = "popCas" /\ top'[u] = top[u] /\ newTop'[u] = newTop[u]
    PROVE  IsStack(s)' /\ NextRead(s)'
<1>1. \A n \in 0 .. Len(s) : Word(s, n)' = Word(s, n)
  <2> TAKE n \in 0 .. Len(s)
  <2>1. CASE n = 0
    BY <2>1 DEF Word
  <2>2. CASE n # 0
    <3>1. n \in 1 .. Len(s)
      BY <2>2
    <3>2. s[n] \in Retired
      BY <3>1 DEF IsStack
    <3> QED
      BY <2>2, <3>2 DEF Word
  <2> QED
    BY <2>1, <2>2
<1>2. Len(s) \in Nat
  OBVIOUS
<1>3. IsStack(s)'
  <2>1. \A n \in 0 .. Len(s) - 1 : GetRealAddr(Word(s, n)') = s[n + 1]
    BY <1>1, <1>2 DEF IsStack
  <2>2. Word(s, Len(s))' = ZeroMeta
    BY <1>1, <1>2 DEF IsStack
  <2> QED
    BY <2>1, <2>2 DEF IsStack
<1>4. ASSUME NEW u \in Threads, NEW n \in 0 .. Len(s) - 1, pc'[u] = "popCas",
             Word(s, n)' = top'[u]
      PROVE  newTop'[u] = Word(s, n + 1)'
  <2>1. n \in 0 .. Len(s) /\ n + 1 \in 0 .. Len(s)
    BY <1>2
  <2>2. Word(s, n)' = Word(s, n) /\ Word(s, n + 1)' = Word(s, n + 1)
    BY <1>1, <2>1
  <2> QED
    BY <1>4, <2>2 DEF NextRead
<1> QED
  BY <1>3, <1>4 DEF NextRead

\* The top of a stack that is not empty is a retired bucket.
LEMMA TopRetired ==
    ASSUME NEW s \in Seq(Buckets), IsStack(s), metaTop # ZeroMeta
    PROVE  /\ Len(s) \in Nat /\ Len(s) >= 1
           /\ s[1] = GetRealAddr(metaTop) /\ s[1] \in Retired
<1>1. Len(s) \in Nat /\ Len(s) # 0
  BY DEF IsStack, Word
<1>2. 0 \in 0 .. Len(s) - 1 /\ 1 \in 1 .. Len(s)
  BY <1>1
<1>3. GetRealAddr(Word(s, 0)) = s[1]
  BY <1>2 DEF IsStack
<1> QED
  BY <1>1, <1>2, <1>3 DEF IsStack, Word

-------------------------------------------------------------------------------
\* One lemma per action: it keeps the invariant and leaves a stack.
LEMMA BeginAllocKeeps ==
    ASSUME PoolInv, NEW s \in Seq(Buckets), IsStack(s), NextRead(s),
           NEW t \in Threads, BeginAlloc(t)
    PROVE  PoolInv' /\ IsStack(s)' /\ NextRead(s)' /\ Retired' = Retired
<1> USE DEF BeginAlloc, Goto, poolVars, bucketVars
<1>1. \A u \in Threads : \A b : Holds(u, b)' <=> Holds(u, b)
  BY DEF PoolInv, Types, Holds
<1>2. Retired' = Retired
  BY <1>1 DEF Retired
<1>3. Types'
  BY DEF PoolInv, Types, AllocPcs
<1>4. NodesAccounted'
  BY AccountsKept DEF PoolInv
<1>5. HeldOnce'
  BY <1>1 DEF PoolInv, HeldOnce
<1>6. TagInv'
  BY DEF PoolInv, Types, TagInv, Linking
<1>7. ASSUME NEW u \in Threads PROVE ThreadInv(u)'
  <2>1. ThreadInv(u)
    BY DEF PoolInv
  <2> QED
    BY <2>1 DEF PoolInv, Types, ThreadInv, Pops, Pushes, Linking
<1>8. IsStack(s)' /\ NextRead(s)'
  <2>1. \A u \in Threads : pc'[u] = "popCas" => pc[u] = "popCas"
    BY DEF PoolInv, Types
  <2> QED
    BY <1>2, <2>1, StackKept
<1> QED
  BY <1>2, <1>3, <1>4, <1>5, <1>6, <1>7, <1>8 DEF PoolInv

LEMMA ReadTopKeeps ==
    ASSUME PoolInv, NEW s \in Seq(Buckets), IsStack(s), NextRead(s),
           NEW t \in Threads, ReadTop(t)
    PROVE  PoolInv' /\ IsStack(s)' /\ NextRead(s)' /\ Retired' = Retired
<1> USE DEF ReadTop, Goto, poolVars, bucketVars
<1>1. \A u \in Threads : \A b : Holds(u, b)' <=> Holds(u, b)
  BY DEF PoolInv, Types, Holds
<1>2. Retired' = Retired
  BY <1>1 DEF Retired
<1>3. Types'
  BY DEF PoolInv, Types, AllocPcs
<1>4. NodesAccounted'
  BY AccountsKept DEF PoolInv
<1>5. HeldOnce'
  BY <1>1 DEF PoolInv, HeldOnce
<1>6. metaTop # ZeroMeta => GetRealAddr(metaTop) \in Retired
  BY TopRetired
<1>7. TagInv'
  <2> SUFFICES ASSUME NEW v \in Threads, NEW u \in Threads,
                      pc'[v] \in {"popNext", "popCas"}, pc'[u] \in Linking
               PROVE  top'[v] # newTop'[u]
    BY DEF TagInv
  <2>1. pc[u] \in Linking /\ newTop'[u] = newTop[u]
    BY DEF PoolInv, Types, Linking
  <2>2. CASE v = t
    <3>1. top'[v] = metaTop /\ metaTop # ZeroMeta
      BY <2>2 DEF PoolInv, Types
    <3>2. GetRealAddr(newTop[u]) = bkt[u] /\ pc[u] \in Pushes
      BY <2>1 DEF PoolInv, ThreadInv, Pushes
    <3>3. Holds(u, bkt[u])
      BY <3>2 DEF Holds, Pushes, Linking
    <3> QED
      BY <1>6, <2>1, <3>1, <3>2, <3>3 DEF Retired
  <2>3. CASE v # t
    BY <2>1, <2>3 DEF PoolInv, Types, TagInv
  <2> QED
    BY <2>2, <2>3
<1>8. ASSUME NEW u \in Threads PROVE ThreadInv(u)'
  <2>1. ThreadInv(u)
    BY DEF PoolInv
  <2>2. metaTop # ZeroMeta => GetRealAddr(metaTop) \in mallocd
    BY <1>6 DEF Retired
  <2> QED
    BY <2>1, <2>2 DEF PoolInv, Types, ThreadInv, Pops, Pushes, Linking
<1>9. IsStack(s)' /\ NextRead(s)'
  <2>1. \A u \in Threads : pc'[u] = "popCas" => pc[u] = "popCas" /\ top'[u] = top[u]
    BY DEF PoolInv, Types
  <2> QED
    BY <1>2, <2>1, StackKept
<1> QED
  BY <1>2, <1>3, <1>4, <1>5, <1>7, <1>8, <1>9 DEF PoolInv

LEMMA MallocBucketKeeps ==
    ASSUME PoolInv, NEW s \in Seq(Buckets), IsStack(s), NextRead(s),
           NEW t \in Threads, MallocBucket(t)
    PROVE  PoolInv' /\ IsStack(s)' /\ NextRead(s)' /\ Retired' = Retired
<1> USE DEF MallocBucket, Goto, poolVars, bucketVars
<1>1. PICK b \in Buckets \ mallocd :
        /\ mallocd'  = mallocd \cup {b}
        /\ allocCnt' = [allocCnt EXCEPT ![b] = 0]
        /\ freeCnt'  = [freeCnt  EXCEPT ![b] = 0]
        /\ metaNext' = [metaNext EXCEPT ![b] = ZeroMeta]
        /\ tls' = [tls EXCEPT ![t] = b]
  OBVIOUS
<1>2. b # NULL /\ tls[t] = NULL
  BY WordFacts DEF PoolInv, ThreadInv, Pops
<1>3. \A u \in Threads : ~Holds(u, b)
  BY <1>1, HeldBucket
<1>4. ASSUME NEW u \in Threads, NEW c, c # b, c # NULL PROVE Holds(u, c)' <=> Holds(u, c)
  BY <1>1, <1>2, <1>4 DEF PoolInv, Types, Holds
<1>5. Retired' = Retired
  <2>1. b \notin Retired /\ NULL \notin mallocd /\ NULL \notin mallocd'
    BY <1>1, <1>2, WordFacts DEF PoolInv, Types, Retired
  <2>2. freeCnt'[b] # Size
    BY <1>1, SizeFacts DEF PoolInv, Types
  <2>3. ASSUME NEW c PROVE c \in Retired' <=> c \in Retired
    <3>1. CASE c = b
      BY <2>1, <2>2, <3>1 DEF Retired
    <3>2. CASE c = NULL
      BY <2>1, <3>2 DEF Retired
    <3>3. CASE c # b /\ c # NULL
      <4>1. (c \in mallocd' <=> c \in mallocd) /\ freeCnt'[c] = freeCnt[c]
        BY <1>1, <3>3 DEF PoolInv, Types
      <4> QED
        BY <1>4, <3>3, <4>1 DEF Retired
    <3> QED
      BY <3>1, <3>2, <3>3
  <2> QED
    BY <2>3
<1>6. Types'
  BY <1>1, WordFacts, SizeFacts DEF PoolInv, Types, AllocPcs
<1>7. NodesAccounted'
  <2> SUFFICES ASSUME NEW c \in mallocd'
               PROVE  /\ freeCnt'[c] + Cardinality(LiveOf(c)') = allocCnt'[c]
                      /\ \A o \in LiveOf(c)' : o[2] < allocCnt'[c]
    BY DEF NodesAccounted
  <2>1. LiveOf(c)' = LiveOf(c)
    BY DEF LiveOf
  <2>2. CASE c = b
    <3>1. LiveOf(b) = {}
      BY <1>1 DEF PoolInv, Types, LiveOf
    <3>2. freeCnt'[b] = 0 /\ allocCnt'[b] = 0
      BY <1>1 DEF PoolInv, Types
    <3> QED
      BY <2>1, <2>2, <3>1, <3>2, FS_EmptySet
  <2>3. CASE c # b
    <3>1. c \in mallocd /\ freeCnt'[c] = freeCnt[c] /\ allocCnt'[c] = allocCnt[c]
      BY <1>1, <2>3 DEF PoolInv, Types
    <3> QED
      BY <2>1, <3>1 DEF PoolInv, NodesAccounted
  <2> QED
    BY <2>2, <2>3
<1>8. HeldOnce'
  <2> SUFFICES ASSUME NEW c \in Buckets, NEW v \in Threads, NEW u \in Threads,
                      Holds(v, c)', Holds(u, c)'
               PROVE  v = u
    BY DEF HeldOnce
  <2>1. CASE c = b
    <3>1. \A w \in Threads : w # t => (Holds(w, b)' <=> Holds(w, b))
      BY <1>1 DEF PoolInv, Types, Holds
    <3> QED
      BY <1>3, <2>1, <3>1
  <2>2. CASE c # b
    BY <1>4, <2>2, WordFacts DEF PoolInv, HeldOnce
  <2> QED
    BY <2>1, <2>2
<1>9. TagInv'
  BY DEF PoolInv, Types, TagInv, Linking
<1>10. ASSUME NEW u \in Threads PROVE ThreadInv(u)'
  <2>1. ThreadInv(u)
    BY DEF PoolInv
  <2>2. \A c \in mallocd : /\ c \in mallocd' /\ allocCnt'[c] = allocCnt[c]
                           /\ freeCnt'[c] = freeCnt[c] /\ metaNext'[c] = metaNext[c]
    BY <1>1 DEF PoolInv, Types
  <2>3. CASE u = t
    <3>1. tls'[u] = b /\ pc'[u] = "node" /\ b \in mallocd' /\ allocCnt'[b] = 0
      BY <1>1, <2>3 DEF PoolInv, Types
    <3> QED
      BY <1>2, <3>1, SizeFacts DEF ThreadInv, Pops, Pushes, Linking
  <2>4. CASE u # t
    <3>1. tls'[u] = tls[u] /\ pc'[u] = pc[u] /\ UNCHANGED <<top, newTop, bkt>>
      BY <1>1, <2>4 DEF PoolInv, Types
    <3> QED
      BY <2>1, <2>2, <3>1 DEF ThreadInv, Pops, Pushes, Linking
  <2> QED
    BY <2>3, <2>4
<1>11. IsStack(s)' /\ NextRead(s)'
  <2>1. \A u \in Threads : pc'[u] = "popCas" => pc[u] = "popCas"
    BY DEF PoolInv, Types
  <2>2. \A c \in Retired : metaNext'[c] = metaNext[c]
    BY <1>1 DEF PoolInv, Types, Retired
  <2> QED
    BY <1>5, <2>1, <2>2, StackKept
<1> QED
  BY <1>5, <1>6, <1>7, <1>8, <1>9, <1>10, <1>11 DEF PoolInv

LEMMA ReadNextKeeps ==
    ASSUME PoolInv, NEW s \in Seq(Buckets), IsStack(s), NextRead(s),
           NEW t \in Threads, ReadNext(t)
    PROVE  PoolInv' /\ IsStack(s)' /\ NextRead(s)' /\ Retired' = Retired
<1> USE DEF ReadNext, Goto, poolVars, bucketVars
<1>1. \A u \in Threads : \A b : Holds(u, b)' <=> Holds(u, b)
  BY DEF PoolInv, Types, Holds
<1>2. Retired' = Retired
  BY <1>1 DEF Retired
<1>3. GetRealAddr(top[t]) \in mallocd /\ GetRealAddr(top[t]) \in Buckets
  BY DEF PoolInv, Types, ThreadInv
<1>4. Types'
  <2>1. metaNext[GetRealAddr(top[t])] \in MetaAddrs(Buckets)
    BY <1>3 DEF PoolInv, Types
  <2> QED
    BY <2>1 DEF PoolInv, Types, AllocPcs
<1>5. NodesAccounted'
  BY AccountsKept DEF PoolInv
<1>6. HeldOnce'
  BY <1>1 DEF PoolInv, HeldOnce
<1>7. TagInv'
  <2>1. \A u \in Threads : pc'[u] \in Linking => pc[u] \in Linking /\ newTop'[u] = newTop[u]
    BY DEF PoolInv, Types, Linking
  <2>2. \A u \in Threads : pc'[u] \in {"popNext", "popCas"} => pc[u] \in {"popNext", "popCas"}
    BY DEF PoolInv, Types
  <2> QED
    BY <2>1, <2>2 DEF PoolInv, TagInv
<1>8. ASSUME NEW u \in Threads PROVE ThreadInv(u)'
  <2>1. ThreadInv(u)
    BY DEF PoolInv
  <2> QED
    BY <1>3, <2>1 DEF PoolInv, Types, ThreadInv, Pops, Pushes, Linking
<1>9. Len(s) \in Nat
  OBVIOUS
<1>10. \A n : Word(s, n)' = Word(s, n)
  BY DEF Word
<1>11. IsStack(s)'
  BY <1>2, <1>10 DEF IsStack
<1>12. NextRead(s)'
  <2> SUFFICES ASSUME NEW u \in Threads, NEW n \in 0 .. Len(s) - 1,
                      pc'[u] = "popCas", Word(s, n) = top[u]
               PROVE  newTop'[u] = Word(s, n + 1)
    BY <1>10 DEF NextRead
  <2>1. CASE u = t
    <3>1. newTop'[u] = metaNext[GetRealAddr(top[t])]
      BY <2>1 DEF PoolInv, Types
    <3>2. GetRealAddr(top[t]) = s[n + 1]
      BY <2>1 DEF IsStack
    <3>3. n + 1 # 0
      BY <1>9
    <3> QED
      BY <3>1, <3>2, <3>3 DEF Word
  <2>2. CASE u # t
    BY <2>2 DEF PoolInv, Types, NextRead
  <2> QED
    BY <2>1, <2>2
<1> QED
  BY <1>2, <1>4, <1>5, <1>6, <1>7, <1>8, <1>11, <1>12 DEF PoolInv

\* A pop whose CAS fails changes the program counter alone.
LEMMA PopRetryKeeps ==
    ASSUME PoolInv, NEW s \in Seq(Buckets), IsStack(s), NextRead(s),
           NEW t \in Threads, PopBucket(t), metaTop # top[t]
    PROVE  PoolInv' /\ IsStack(s)' /\ NextRead(s)' /\ Retired' = Retired
<1> USE DEF PopBucket, Goto, bucketVars
<1>1. \A u \in Threads : \A b : Holds(u, b)' <=> Holds(u, b)
  BY DEF PoolInv, Types, Holds
<1>2. Retired' = Retired
  BY <1>1 DEF Retired
<1>3. Types'
  BY DEF PoolInv, Types, AllocPcs
<1>4. NodesAccounted'
  BY AccountsKept DEF PoolInv
<1>5. HeldOnce'
  BY <1>1 DEF PoolInv, HeldOnce
<1>6. TagInv'
  BY DEF PoolInv, Types, TagInv, Linking
<1>7. ASSUME NEW u \in Threads PROVE ThreadInv(u)'
  <2>1. ThreadInv(u)
    BY DEF PoolInv
  <2> QED
    BY <2>1 DEF PoolInv, Types, ThreadInv, Pops, Pushes, Linking
<1>8. IsStack(s)' /\ NextRead(s)'
  <2>1. \A u \in Threads : pc'[u] = "popCas" => pc[u] = "popCas"
    BY DEF PoolInv, Types
  <2> QED
    BY <1>2, <2>1, StackKept
<1> QED
  BY <1>2, <1>3, <1>4, <1>5, <1>6, <1>7, <1>8 DEF PoolInv

\* A pop whose CAS succeeds takes the top of the stack and no other bucket.
LEMMA PopKeeps ==
    ASSUME PoolInv, NEW s \in Seq(Buckets), IsStack(s), NextRead(s),
           NEW t \in Threads, PopBucket(t), metaTop = top[t]
    PROVE  /\ PoolInv' /\ Tail(s) \in Seq(Buckets) /\ IsStack(Tail(s))' /\ NextRead(Tail(s))'
           /\ s[1] \in Retired /\ Retired' = Retired \ {s[1]}
<1> USE DEF PopBucket, Goto, bucketVars
<1> DEFINE b == s[1]
<1>1. metaTop # ZeroMeta
  <2>1. GetRealAddr(top[t]) \in mallocd
    BY DEF PoolInv, ThreadInv
  <2> QED
    BY <2>1, WordFacts DEF PoolInv, Types
<1>2. /\ Len(s) \in Nat /\ Len(s) >= 1
      /\ b = GetRealAddr(metaTop) /\ b \in Retired
  BY <1>1, TopRetired
<1>3. b \in mallocd /\ b \in Buckets /\ freeCnt[b] = Size /\ \A u \in Threads : ~Holds(u, b)
  BY <1>2 DEF PoolInv, Types, Retired
<1>4. /\ Tail(s) \in Seq(Buckets) /\ Len(Tail(s)) = Len(s) - 1
      /\ \A n \in 1 .. Len(s) - 1 : Tail(s)[n] = s[n + 1]
  <2>1. s # << >>
    BY <1>2
  <2> QED
    BY <2>1
<1>5. metaTop' = newTop[t] /\ newTop[t] = Word(s, 1)
  <2>1. 0 \in 0 .. Len(s) - 1 /\ 0 + 1 = 1
    BY <1>2
  <2> QED
    BY <2>1 DEF NextRead, Word
<1>6. \A n \in 0 .. Len(s) - 1 : Word(Tail(s), n)' = Word(s, n + 1)
  <2> TAKE n \in 0 .. Len(s) - 1
  <2>1. CASE n = 0
    BY <1>5, <2>1 DEF Word
  <2>2. CASE n # 0
    <3>1. n \in 1 .. Len(s) - 1 /\ n + 1 # 0
      BY <1>2, <2>2
    <3> QED
      BY <1>4, <2>2, <3>1 DEF Word
  <2> QED
    BY <2>1, <2>2
<1>7. \A u \in Threads : \A c : u # t \/ c # b => (Holds(u, c)' <=> Holds(u, c))
  BY <1>2 DEF PoolInv, Types, Holds
<1>8. Holds(t, b)'
  BY <1>2 DEF PoolInv, Types, Holds
<1>9. Retired' = Retired \ {b}
  <2>1. ASSUME NEW c PROVE c \in Retired' <=> c \in Retired /\ c # b
    <3>1. CASE c = b
      BY <1>8, <3>1 DEF Retired
    <3>2. CASE c # b
      BY <1>7, <3>2 DEF Retired
    <3> QED
      BY <3>1, <3>2
  <2> QED
    BY <2>1
<1>10. Types'
  <2>1. metaTop' \in MetaAddrs(Buckets)
    BY <1>5 DEF PoolInv, Types
  <2>2. pc' \in [Threads -> {"idle"} \cup AllocPcs \cup FreePcs]
    BY DEF PoolInv, Types, AllocPcs
  <2> QED
    BY <2>1, <2>2 DEF PoolInv, Types
<1>11. NodesAccounted'
  BY AccountsKept DEF PoolInv
<1>12. HeldOnce'
  <2> SUFFICES ASSUME NEW c \in Buckets, NEW v \in Threads, NEW u \in Threads,
                      Holds(v, c)', Holds(u, c)'
               PROVE  v = u
    BY DEF HeldOnce
  <2> QED
    BY <1>3, <1>7 DEF PoolInv, HeldOnce
<1>13. TagInv'
  BY DEF PoolInv, Types, TagInv, Linking
<1>14. ASSUME NEW u \in Threads PROVE ThreadInv(u)'
  <2>1. ThreadInv(u)
    BY DEF PoolInv
  <2> QED
    BY <1>2, <1>3, <2>1 DEF PoolInv, Types, ThreadInv, Pops, Pushes, Linking
<1>15. IsStack(Tail(s))'
  <2>1. \A i, j \in 1 .. Len(s) - 1 : Tail(s)[i] = Tail(s)[j] => i = j
    <3> TAKE i, j \in 1 .. Len(s) - 1
    <3>1. i + 1 \in 1 .. Len(s) /\ j + 1 \in 1 .. Len(s)
      BY <1>2
    <3> QED
      BY <1>2, <1>4, <3>1 DEF IsStack
  <2>2. ASSUME NEW n \in 0 .. Len(s) - 1 - 1
        PROVE  GetRealAddr(Word(Tail(s), n)') = Tail(s)[n + 1]
    <3>1. n \in 0 .. Len(s) - 1 /\ n + 1 \in 0 .. Len(s) - 1 /\ n + 1 \in 1 .. Len(s) - 1
      BY <1>2
    <3>2. GetRealAddr(Word(s, n + 1)) = s[n + 1 + 1]
      BY <3>1 DEF IsStack
    <3> QED
      BY <1>4, <1>6, <3>1, <3>2
  <2>3. Word(Tail(s), Len(s) - 1)' = ZeroMeta
    <3>1. Len(s) - 1 \in 0 .. Len(s) - 1 /\ Len(s) - 1 + 1 = Len(s)
      BY <1>2
    <3>2. Word(s, Len(s)) = ZeroMeta
      BY DEF IsStack
    <3> QED
      BY <1>6, <3>1, <3>2
  <2>4. {Tail(s)[i] : i \in 1 .. Len(s) - 1} = Retired \ {b}
    <3>1. ASSUME NEW c PROVE (\E i \in 1 .. Len(s) - 1 : c = Tail(s)[i]) <=> c \in Retired /\ c # b
      <4>1. ASSUME NEW i \in 1 .. Len(s) - 1, c = Tail(s)[i] PROVE c \in Retired /\ c # b
        <5>1. i + 1 \in 1 .. Len(s) /\ i + 1 # 1 /\ 1 \in 1 .. Len(s) /\ c = s[i + 1]
          BY <1>2, <1>4, <4>1
        <5> QED
          BY <5>1 DEF IsStack
      <4>2. ASSUME c \in Retired, c # b PROVE \E i \in 1 .. Len(s) - 1 : c = Tail(s)[i]
        <5>1. PICK k \in 1 .. Len(s) : c = s[k]
          BY <4>2 DEF IsStack
        <5>2. k - 1 \in 1 .. Len(s) - 1 /\ k - 1 + 1 = k
          BY <1>2, <4>2, <5>1
        <5> QED
          BY <1>4, <5>1, <5>2
      <4> QED
        BY <4>1, <4>2
    <3> QED
      BY <3>1
  <2> QED
    BY <1>4, <1>9, <2>1, <2>2, <2>3, <2>4 DEF IsStack
<1>16. NextRead(Tail(s))'
  <2> SUFFICES ASSUME NEW u \in Threads, NEW n \in 0 .. Len(s) - 1 - 1,
                      pc'[u] = "popCas", Word(Tail(s), n)' = top'[u]
               PROVE  newTop'[u] = Word(Tail(s), n + 1)'
    BY <1>4 DEF NextRead
  <2>1. /\ n \in 0 .. Len(s) - 1 /\ n + 1 \in 0 .. Len(s) - 1
    BY <1>2
  <2>2. pc[u] = "popCas"
    BY DEF PoolInv, Types
  <2>3. Word(s, n + 1) = top[u]
    BY <1>6, <2>1
  <2>4. newTop[u] = Word(s, n + 1 + 1)
    BY <2>1, <2>2, <2>3 DEF NextRead
  <2> QED
    BY <1>6, <2>1, <2>4
<1> QED
  BY <1>2, <1>4, <1>9, <1>10, <1>11, <1>12, <1>13, <1>14, <1>15, <1>16 DEF PoolInv

LEMMA InitBucketKeeps ==
    ASSUME PoolInv, NEW s \in Seq(Buckets), IsStack(s), NextRead(s),
           NEW t \in Threads, InitBucket(t)
    PROVE  PoolInv' /\ IsStack(s)' /\ NextRead(s)' /\ Retired' = Retired
<1> USE DEF InitBucket, Goto, poolVars
<1>0. PICK b : b = GetRealAddr(top[t])
  OBVIOUS
<1>1. /\ b \in mallocd /\ b \in Buckets /\ b # NULL /\ freeCnt[b] = Size
      /\ Holds(t, b) /\ tls[t] = NULL
  BY <1>0, WordFacts DEF PoolInv, Types, ThreadInv, Holds, Pops
<1>2. allocCnt[b] = Size /\ LiveOf(b) = {}
  BY <1>1, BucketCounts
<1>3. /\ allocCnt' = [allocCnt EXCEPT ![b] = 0]
      /\ freeCnt'  = [freeCnt  EXCEPT ![b] = 0]
      /\ metaNext' = [metaNext EXCEPT ![b] = ZeroMeta]
      /\ pc' = [pc EXCEPT ![t] = "take"]
      /\ UNCHANGED <<poolVars, mallocd, tls, top, newTop, bkt, live>>
  BY <1>0
<1>4. \A c \in Buckets : c # b => /\ allocCnt'[c] = allocCnt[c] /\ freeCnt'[c] = freeCnt[c]
                                 /\ metaNext'[c] = metaNext[c]
  BY <1>3 DEF PoolInv, Types
<1>5. allocCnt'[b] = 0 /\ freeCnt'[b] = 0 /\ pc'[t] = "take"
  BY <1>1, <1>3 DEF PoolInv, Types
<1> HIDE DEF InitBucket
<1>6. \A u \in Threads : \A c : Holds(u, c)' <=> Holds(u, c)
  BY <1>3 DEF PoolInv, Types, Holds, InitBucket
<1>7. Retired' = Retired
  <2>1. b \notin Retired /\ b \notin Retired'
    BY <1>1, <1>6 DEF Retired
  <2> QED
    BY <1>3, <1>4, <1>6, <2>1, RetiredKept DEF PoolInv, Types
<1>8. Types'
  <2>1. /\ allocCnt' \in [Buckets -> 0 .. Size] /\ freeCnt' \in [Buckets -> 0 .. Size]
        /\ metaNext' \in [Buckets -> MetaAddrs(Buckets)]
    <3>1. 0 \in 0 .. Size /\ ZeroMeta \in MetaAddrs(Buckets)
      BY WordFacts, SizeFacts
    <3> QED
      BY <1>3, <3>1 DEF PoolInv, Types
  <2> QED
    BY <1>3, <2>1 DEF PoolInv, Types, AllocPcs
<1>9. NodesAccounted'
  <2> SUFFICES ASSUME NEW c \in mallocd
               PROVE  /\ freeCnt'[c] + Cardinality(LiveOf(c)) = allocCnt'[c]
                      /\ \A o \in LiveOf(c) : o[2] < allocCnt'[c]
    BY <1>3 DEF NodesAccounted, LiveOf
  <2>1. CASE c = b
    <3>1. LiveOf(c) = {} /\ freeCnt'[c] = 0 /\ allocCnt'[c] = 0
      BY <1>2, <1>5, <2>1
    <3> QED
      BY <3>1, FS_EmptySet
  <2>2. CASE c # b
    BY <1>4, <2>2 DEF PoolInv, Types, NodesAccounted
  <2> QED
    BY <2>1, <2>2
<1>10. HeldOnce'
  BY <1>6 DEF PoolInv, HeldOnce
<1>11. TagInv'
  BY <1>3 DEF PoolInv, Types, TagInv, Linking
<1>12. ASSUME NEW u \in Threads PROVE ThreadInv(u)'
  <2>1. ThreadInv(u)
    BY DEF PoolInv
  <2>2. CASE u = t
    BY <1>0, <1>1, <1>3, <1>5, <2>1, <2>2, SizeFacts DEF ThreadInv, Pops, Pushes, Linking
  <2>3. CASE u # t
    <3>1. ~Holds(u, b)
      BY <1>1, <2>3 DEF PoolInv, HeldOnce
    <3>2. pc'[u] = pc[u]
      BY <1>3, <2>3 DEF PoolInv, Types
    <3>3. mallocd \subseteq Buckets
      BY DEF PoolInv, Types
    <3>4. tls[u] # NULL => tls[u] # b
      BY <3>1 DEF Holds
    <3>5. pc[u] \in {"init", "take"} => GetRealAddr(top[u]) # b
      BY <3>1 DEF Holds
    <3>6. pc[u] \in Pushes => bkt[u] # b
      BY <3>1 DEF Holds, Pushes, Linking
    <3> QED
      BY <1>3, <1>4, <2>1, <3>2, <3>3, <3>4, <3>5, <3>6 DEF ThreadInv, Pops, Pushes, Linking
  <2> QED
    BY <2>2, <2>3
<1>13. IsStack(s)' /\ NextRead(s)'
  <2>1. \A u \in Threads : pc'[u] = "popCas" => pc[u] = "popCas"
    BY <1>3 DEF PoolInv, Types
  <2>2. \A c \in Retired : metaNext'[c] = metaNext[c]
    BY <1>1, <1>4 DEF PoolInv, Types, Retired
  <2> QED
    BY <1>3, <1>7, <2>1, <2>2, StackKept DEF poolVars
<1> QED
  BY <1>7, <1>8, <1>9, <1>10, <1>11, <1>12, <1>13 DEF PoolInv

LEMMA TakeBucketKeeps ==
    ASSUME PoolInv, NEW s \in Seq(Buckets), IsStack(s), NextRead(s),
           NEW t \in Threads, TakeBucket(t)
    PROVE  PoolInv' /\ IsStack(s)' /\ NextRead(s)' /\ Retired' = Retired
<1> USE DEF TakeBucket, Goto, bucketVars
<1> DEFINE b == GetRealAddr(top[t])
<1>1. b \in mallocd /\ b \in Buckets /\ b # NULL /\ allocCnt[b] = 0 /\ tls[t] = NULL
  BY WordFacts DEF PoolInv, Types, ThreadInv, Pops
<1>2. tls'[t] = b /\ pc'[t] = "node"
  BY DEF PoolInv, Types
<1>3. \A u \in Threads : u # t => pc'[u] = pc[u] /\ tls'[u] = tls[u]
  BY DEF PoolInv, Types
<1>4. \A u \in Threads : \A c : c # NULL => (Holds(u, c)' <=> Holds(u, c))
  BY <1>1, <1>2, <1>3 DEF Holds
<1>5. Retired' = Retired
  <2>1. NULL \notin mallocd
    BY WordFacts DEF PoolInv, Types
  <2> QED
    BY <1>4, <2>1 DEF Retired
<1>6. Types'
  <2>1. /\ size' \in Int /\ tls' \in [Threads -> Buckets \cup {NULL}]
        /\ pc' \in [Threads -> {"idle"} \cup AllocPcs \cup FreePcs]
    BY <1>1 DEF PoolInv, Types, AllocPcs
  <2> QED
    BY <2>1 DEF PoolInv, Types
<1>7. NodesAccounted'
  BY AccountsKept DEF PoolInv
<1>8. HeldOnce'
  BY <1>4, WordFacts DEF PoolInv, HeldOnce
<1>9. TagInv'
  BY DEF PoolInv, Types, TagInv, Linking
<1>10. ASSUME NEW u \in Threads PROVE ThreadInv(u)'
  <2>1. ThreadInv(u)
    BY DEF PoolInv
  <2>2. CASE u = t
    BY <1>1, <1>2, <2>2, SizeFacts DEF ThreadInv, Pops, Pushes, Linking
  <2>3. CASE u # t
    BY <1>3, <2>1, <2>3 DEF ThreadInv
  <2> QED
    BY <2>2, <2>3
<1>11. IsStack(s)' /\ NextRead(s)'
  <2>1. \A u \in Threads : pc'[u] = "popCas" => pc[u] = "popCas"
    BY DEF PoolInv, Types
  <2> QED
    BY <1>5, <2>1, StackKept
<1> QED
  BY <1>5, <1>6, <1>7, <1>8, <1>9, <1>10, <1>11 DEF PoolInv

LEMMA AllocNodeKeeps ==
    ASSUME PoolInv, NEW s \in Seq(Buckets), IsStack(s), NextRead(s),
           NEW t \in Threads, AllocNode(t)
    PROVE  /\ PoolInv' /\ IsStack(s)' /\ NextRead(s)' /\ Retired' = Retired
           /\ <<tls[t], allocCnt[tls[t]]>> \notin live
<1> USE DEF AllocNode, Return, Goto
<1>0. PICK b, o : b = tls[t] /\ o = <<b, allocCnt[b]>>
  OBVIOUS
<1>1. /\ b \in mallocd /\ b \in Buckets /\ b # NULL
      /\ allocCnt[b] < Size /\ freeCnt[b] < Size /\ Holds(t, b)
  <2>1. b # NULL
    BY <1>0 DEF PoolInv, ThreadInv
  <2> QED
    BY <1>0, <2>1, OwnBucketNotFull DEF Holds
<1>2. allocCnt[b] \in Nat /\ allocCnt[b] + 1 \in 0 .. Size /\ freeCnt[b] \in Nat
  BY <1>1, SizeFacts DEF PoolInv, Types
<1>3. /\ allocCnt' = [allocCnt EXCEPT ![b] = allocCnt[b] + 1]
      /\ live' = live \cup {o}
      /\ allocSize' = allocSize + 1
      /\ pc' = [pc EXCEPT ![t] = "idle"]
      /\ top' = [top EXCEPT ![t] = ZeroMeta]
      /\ newTop' = [newTop EXCEPT ![t] = ZeroMeta]
      /\ bkt' = [bkt EXCEPT ![t] = NULL]
      /\ UNCHANGED <<metaTop, metaCnt, capacity, size, freeCnt, metaNext, mallocd>>
  BY <1>0
<1>4. /\ (tls'[t] = b /\ allocCnt[b] + 1 < Size) \/ tls'[t] = NULL
      /\ tls' \in [Threads -> Buckets \cup {NULL}]
      /\ \A u \in Threads : u # t => tls'[u] = tls[u]
  BY <1>0, <1>1, <1>2, SizeFacts DEF PoolInv, Types
<1>5. \A u \in Threads : u # t => /\ pc'[u] = pc[u] /\ top'[u] = top[u]
                                 /\ newTop'[u] = newTop[u] /\ bkt'[u] = bkt[u]
  BY <1>3 DEF PoolInv, Types
<1>6. pc[t] = "node" /\ pc'[t] = "idle"
  BY <1>3 DEF PoolInv, Types
<1>7. \A c \in Buckets : c # b => allocCnt'[c] = allocCnt[c]
  BY <1>3 DEF PoolInv, Types
<1>8. allocCnt'[b] = allocCnt[b] + 1
  BY <1>1, <1>3 DEF PoolInv, Types
<1> HIDE DEF AllocNode
<1>9. \A u \in Threads : \A c : c # NULL /\ (u # t \/ c # b) => (Holds(u, c)' <=> Holds(u, c))
  BY <1>0, <1>4, <1>5, <1>6 DEF Holds
<1>10. Retired' = Retired
  <2>1. b \notin Retired
    BY <1>1 DEF Retired
  <2>2. b \notin Retired'
    BY <1>1, <1>3 DEF Retired, PoolInv, Types
  <2>3. NULL \notin mallocd
    BY WordFacts DEF PoolInv, Types
  <2>4. ASSUME NEW c PROVE c \in Retired' <=> c \in Retired
    <3>1. CASE c = b
      BY <2>1, <2>2, <3>1
    <3>2. CASE c # b
      BY <1>3, <1>9, <2>3, <3>2 DEF Retired
    <3> QED
      BY <3>1, <3>2
  <2> QED
    BY <2>4
<1>11. o \in mallocd \X (0 .. Size - 1) /\ o[1] = b /\ o[2] = allocCnt[b]
  BY <1>0, <1>1, <1>2, SizeFacts
<1>12. o \notin live
  <2>1. ASSUME o \in live PROVE FALSE
    <3>1. o \in LiveOf(b)
      BY <1>11, <2>1 DEF LiveOf
    <3>2. o[2] < allocCnt[b]
      BY <1>1, <3>1 DEF PoolInv, NodesAccounted
    <3> QED
      BY <1>2, <1>11, <3>2
  <2> QED
    BY <2>1
<1>13. Types'
  <2>1. /\ allocCnt' \in [Buckets -> 0 .. Size] /\ allocSize' \in Int
        /\ live' \subseteq mallocd \X (0 .. Size - 1)
    BY <1>2, <1>3, <1>11 DEF PoolInv, Types
  <2>2. /\ pc' \in [Threads -> {"idle"} \cup AllocPcs \cup FreePcs]
        /\ top' \in [Threads -> MetaAddrs(Buckets)] /\ newTop' \in [Threads -> MetaAddrs(Buckets)]
        /\ bkt' \in [Threads -> Buckets \cup {NULL}]
    BY <1>3, WordFacts DEF PoolInv, Types
  <2> QED
    BY <1>3, <1>4, <2>1, <2>2 DEF PoolInv, Types
<1>14. NodesAccounted'
  <2> SUFFICES ASSUME NEW c \in mallocd
               PROVE  /\ freeCnt[c] + Cardinality(LiveOf(c)') = allocCnt'[c]
                      /\ \A q \in LiveOf(c)' : q[2] < allocCnt'[c]
    BY <1>3 DEF NodesAccounted
  <2>1. c \in Buckets
    BY DEF PoolInv, Types
  <2>2. /\ freeCnt[c] + Cardinality(LiveOf(c)) = allocCnt[c]
        /\ \A q \in LiveOf(c) : q[2] < allocCnt[c]
    BY DEF PoolInv, NodesAccounted
  <2>3. CASE c = b
    <3>1. LiveOf(b)' = LiveOf(b) \cup {o} /\ o \notin LiveOf(b)
      BY <1>3, <1>11, <1>12 DEF LiveOf
    <3>2. IsFiniteSet(LiveOf(b)) /\ Cardinality(LiveOf(b)) \in Nat
      BY <1>1, LiveFinite DEF PoolInv
    <3>3. Cardinality(LiveOf(b) \cup {o}) = Cardinality(LiveOf(b)) + 1
      BY <3>1, <3>2, FS_AddElement
    <3>4. freeCnt[b] + Cardinality(LiveOf(b)') = allocCnt'[b]
      <4>1. freeCnt[b] + Cardinality(LiveOf(b)) = allocCnt[b]
        BY <2>2, <2>3
      <4> QED
        BY <1>2, <1>8, <3>1, <3>2, <3>3, <4>1
    <3>5. ASSUME NEW q \in LiveOf(b)' PROVE q[2] < allocCnt'[b]
      <4>1. CASE q = o
        BY <1>2, <1>8, <1>11, <4>1
      <4>2. CASE q \in LiveOf(b)
        <5>1. q[2] \in 0 .. Size - 1
          BY <4>2 DEF LiveOf, PoolInv, Types
        <5>2. q[2] < allocCnt[b]
          BY <2>2, <2>3, <4>2
        <5> QED
          BY <1>2, <1>8, <5>1, <5>2, SizeFacts
      <4> QED
        BY <3>1, <4>1, <4>2
    <3> QED
      BY <2>3, <3>4, <3>5
  <2>4. CASE c # b
    <3>1. LiveOf(c)' = LiveOf(c)
      BY <1>3, <1>11, <2>4 DEF LiveOf
    <3> QED
      BY <1>7, <2>1, <2>2, <2>4, <3>1
  <2> QED
    BY <2>3, <2>4
<1>15. HeldOnce'
  <2> SUFFICES ASSUME NEW c \in Buckets, NEW v \in Threads, NEW u \in Threads,
                      Holds(v, c)', Holds(u, c)'
               PROVE  v = u
    BY DEF HeldOnce
  <2>1. c # NULL
    BY WordFacts
  <2>2. \A w \in Threads : Holds(w, c)' => Holds(w, c)
    BY <1>1, <1>9, <2>1
  <2> QED
    BY <2>2 DEF PoolInv, HeldOnce
<1>16. TagInv'
  BY <1>5, <1>6 DEF PoolInv, TagInv, Linking
<1>17. ASSUME NEW u \in Threads PROVE ThreadInv(u)'
  <2>1. ThreadInv(u)
    BY DEF PoolInv
  <2>2. CASE u = t
    BY <1>1, <1>2, <1>3, <1>4, <1>6, <1>8, <2>2 DEF ThreadInv, Pops, Pushes, Linking
  <2>3. CASE u # t
    <3>1. ~Holds(u, b)
      BY <1>1, <2>3 DEF PoolInv, HeldOnce
    <3>2. tls[u] # b
      BY <3>1 DEF Holds
    <3>3. pc[u] = "take" => GetRealAddr(top[u]) # b
      BY <3>1 DEF Holds
    <3>4. mallocd \subseteq Buckets
      BY DEF PoolInv, Types
    <3> QED
      BY <1>3, <1>4, <1>5, <1>7, <2>1, <2>3, <3>2, <3>3, <3>4 DEF ThreadInv, Pops, Pushes, Linking
  <2> QED
    BY <2>2, <2>3
<1>18. IsStack(s)' /\ NextRead(s)'
  <2>1. \A u \in Threads : pc'[u] = "popCas" =>
          pc[u] = "popCas" /\ top'[u] = top[u] /\ newTop'[u] = newTop[u]
    BY <1>5, <1>6
  <2> QED
    BY <1>3, <1>10, <2>1, StackKept
<1> QED
  BY <1>0, <1>10, <1>12, <1>13, <1>14, <1>15, <1>16, <1>17, <1>18 DEF PoolInv

LEMMA FreeNodeKeeps ==
    ASSUME PoolInv, NEW s \in Seq(Buckets), IsStack(s), NextRead(s),
           NEW t \in Threads, NEW o \in live, FreeNode(t, o)
    PROVE  PoolInv' /\ IsStack(s)' /\ NextRead(s)' /\ Retired' = Retired
<1> USE DEF FreeNode, Goto, poolVars
<1>0. PICK b : b = o[1]
  OBVIOUS
<1>1. b \in mallocd /\ b \in Buckets /\ b # NULL /\ o \in LiveOf(b)
  BY <1>0, WordFacts DEF PoolInv, Types, LiveOf
<1>2. /\ freeCnt[b] \in Nat /\ allocCnt[b] \in Nat
      /\ freeCnt[b] < allocCnt[b] /\ allocCnt[b] <= Size
  BY <1>1, BucketCounts, SizeFacts
<1>3. /\ live' = live \ {o}
      /\ freeCnt' = [freeCnt EXCEPT ![b] = freeCnt[b] + 1]
      /\ bkt' = [bkt EXCEPT ![t] = b]
      /\ pc' = [pc EXCEPT ![t] = IF freeCnt[b] + 1 = Size THEN "pushTag" ELSE "freed"]
      /\ UNCHANGED <<poolVars, allocCnt, metaNext, mallocd, tls, top, newTop>>
  BY <1>0 DEF PoolInv, Types
<1>4. /\ freeCnt'[b] = freeCnt[b] + 1
      /\ \A c \in Buckets : c # b => freeCnt'[c] = freeCnt[c]
  BY <1>1, <1>3 DEF PoolInv, Types
<1>5. /\ pc[t] = "idle" /\ bkt'[t] = b
      /\ pc'[t] = IF freeCnt[b] + 1 = Size THEN "pushTag" ELSE "freed"
      /\ \A u \in Threads : u # t => pc'[u] = pc[u] /\ bkt'[u] = bkt[u]
  BY <1>3 DEF PoolInv, Types
<1> HIDE DEF FreeNode
\* The return of the last node finds the bucket in nobody's hands.
<1>6. ASSUME freeCnt[b] + 1 = Size, NEW u \in Threads PROVE ~Holds(u, b)
  <2> SUFFICES ASSUME Holds(u, b) PROVE FALSE
    OBVIOUS
  <2>1. tls[u] = b \/ freeCnt[b] = Size \/ allocCnt[b] = 0
    BY <1>1, HeldBucket
  <2>2. tls[u] = b => allocCnt[b] < Size
    BY <1>1, OwnBucketNotFull
  <2> QED
    BY <1>2, <1>6, <2>1, <2>2, SizeFacts
<1>7. \A u \in Threads : \A c : u # t \/ c # b => (Holds(u, c)' <=> Holds(u, c))
  BY <1>3, <1>5 DEF Holds
<1>8. freeCnt[b] + 1 # Size => (Holds(t, b)' <=> Holds(t, b))
  BY <1>3, <1>5 DEF Holds
<1>9. Retired' = Retired
  <2>1. b \notin Retired
    BY <1>2, SizeFacts DEF Retired
  <2>2. b \notin Retired'
    <3>1. CASE freeCnt[b] + 1 = Size
      <4>1. Holds(t, b)'
        BY <1>5, <3>1 DEF Holds
      <4> QED
        BY <4>1 DEF Retired
    <3>2. CASE freeCnt[b] + 1 # Size
      BY <1>4, <3>2 DEF Retired
    <3> QED
      BY <3>1, <3>2
  <2>3. ASSUME NEW c PROVE c \in Retired' <=> c \in Retired
    <3>1. CASE c = b
      BY <2>1, <2>2, <3>1
    <3>2. CASE c # b
      <4>1. c \in mallocd => freeCnt'[c] = freeCnt[c]
        BY <1>4, <3>2 DEF PoolInv, Types
      <4> QED
        BY <1>3, <1>7, <3>2, <4>1 DEF Retired
    <3> QED
      BY <3>1, <3>2
  <2> QED
    BY <2>3
<1>10. Types'
  <2>1. freeCnt' \in [Buckets -> 0 .. Size] /\ live' \subseteq mallocd \X (0 .. Size - 1)
    <3>1. freeCnt[b] + 1 \in 0 .. Size
      BY <1>2, SizeFacts
    <3> QED
      BY <1>3, <3>1 DEF PoolInv, Types
  <2>2. /\ bkt' \in [Threads -> Buckets \cup {NULL}]
        /\ pc' \in [Threads -> {"idle"} \cup AllocPcs \cup FreePcs]
    <3>1. (IF freeCnt[b] + 1 = Size THEN "pushTag" ELSE "freed") \in FreePcs
      BY DEF FreePcs
    <3> QED
      BY <1>1, <1>3, <3>1 DEF PoolInv, Types
  <2> QED
    BY <1>3, <2>1, <2>2 DEF PoolInv, Types
<1>11. NodesAccounted'
  <2> SUFFICES ASSUME NEW c \in mallocd
               PROVE  /\ freeCnt'[c] + Cardinality(LiveOf(c)') = allocCnt[c]
                      /\ \A q \in LiveOf(c)' : q[2] < allocCnt[c]
    BY <1>3 DEF NodesAccounted
  <2>1. c \in Buckets
    BY DEF PoolInv, Types
  <2>2. /\ freeCnt[c] + Cardinality(LiveOf(c)) = allocCnt[c]
        /\ \A q \in LiveOf(c) : q[2] < allocCnt[c]
    BY DEF PoolInv, NodesAccounted
  <2>3. \A q \in LiveOf(c)' : q[2] < allocCnt[c]
    <3>1. LiveOf(c)' \subseteq LiveOf(c)
      BY <1>3 DEF LiveOf
    <3> QED
      BY <2>2, <3>1
  <2>4. freeCnt'[c] + Cardinality(LiveOf(c)') = allocCnt[c]
    <3>1. CASE c = b
      <4>1. LiveOf(b)' = LiveOf(b) \ {o}
        BY <1>3 DEF LiveOf
      <4>2. IsFiniteSet(LiveOf(b)) /\ Cardinality(LiveOf(b)) \in Nat
        BY <1>1, LiveFinite DEF PoolInv
      <4>3. Cardinality(LiveOf(b) \ {o}) = Cardinality(LiveOf(b)) - 1
        BY <1>1, <4>2, FS_RemoveElement
      <4>4. freeCnt[b] + Cardinality(LiveOf(b)) = allocCnt[b]
        BY <2>2, <3>1
      <4>5. freeCnt'[b] + Cardinality(LiveOf(b)') = allocCnt[b]
        BY <1>2, <1>4, <4>1, <4>2, <4>3, <4>4
      <4> QED
        BY <3>1, <4>5
    <3>2. CASE c # b
      <4>1. LiveOf(c)' = LiveOf(c)
        BY <1>0, <1>3, <3>2 DEF LiveOf
      <4> QED
        BY <1>4, <2>1, <2>2, <3>2, <4>1
    <3> QED
      BY <3>1, <3>2
  <2> QED
    BY <2>3, <2>4
<1>12. HeldOnce'
  <2> SUFFICES ASSUME NEW c \in Buckets, NEW v \in Threads, NEW u \in Threads,
                      Holds(v, c)', Holds(u, c)'
               PROVE  v = u
    BY DEF HeldOnce
  <2>1. CASE c = b /\ freeCnt[b] + 1 = Size
    BY <1>6, <1>7, <2>1
  <2>2. CASE ~(c = b /\ freeCnt[b] + 1 = Size)
    BY <1>7, <1>8, <2>2 DEF PoolInv, HeldOnce
  <2> QED
    BY <2>1, <2>2
<1>13. TagInv'
  BY <1>3, <1>5 DEF PoolInv, TagInv, Linking
<1>14. ASSUME NEW u \in Threads PROVE ThreadInv(u)'
  <2>1. ThreadInv(u)
    BY DEF PoolInv
  <2>2. ASSUME freeCnt[b] = Size PROVE FALSE
    BY <1>2, <2>2, SizeFacts
  <2>3. CASE u = t
    BY <1>1, <1>3, <1>4, <1>5, <2>1, <2>3 DEF ThreadInv, Pops, Pushes, Linking
  <2>4. CASE u # t
    <3>1. mallocd \subseteq Buckets
      BY DEF PoolInv, Types
    <3>2. \A c \in mallocd : freeCnt[c] = Size => freeCnt'[c] = Size
      BY <1>4, <2>2, <3>1
    <3>3. pc[u] = "init" => GetRealAddr(top[u]) \in mallocd
      BY <2>1 DEF ThreadInv
    <3> QED
      BY <1>3, <1>5, <2>1, <2>4, <3>2, <3>3 DEF ThreadInv, Pops, Pushes, Linking
  <2> QED
    BY <2>3, <2>4
<1>15. IsStack(s)' /\ NextRead(s)'
  <2>1. \A u \in Threads : pc'[u] = "popCas" =>
          pc[u] = "popCas" /\ top'[u] = top[u] /\ newTop'[u] = newTop[u]
    BY <1>3, <1>5
  <2> QED
    BY <1>3, <1>9, <2>1, StackKept DEF poolVars
<1> QED
  BY <1>9, <1>10, <1>11, <1>12, <1>13, <1>14, <1>15 DEF PoolInv

LEMMA GetTagKeeps ==
    ASSUME PoolInv, NEW s \in Seq(Buckets), IsStack(s), NextRead(s),
           NEW t \in Threads, GetTag(t)
    PROVE  PoolInv' /\ IsStack(s)' /\ NextRead(s)' /\ Retired' = Retired
<1> USE DEF GetTag, Goto, bucketVars
<1> DEFINE m == GetMetaAddr(metaCnt, bkt[t])
<1>1. \A u \in Threads : \A b : Holds(u, b)' <=> Holds(u, b)
  BY DEF PoolInv, Types, Holds
<1>2. Retired' = Retired
  BY <1>1 DEF Retired
<1>3. m \in MetaAddrs(Buckets) /\ GetRealAddr(m) = bkt[t] /\ metaCnt' \in Counters
  BY WordFacts, CounterFacts DEF PoolInv, Types
<1> HIDE DEF m
<1>4. newTop' = [newTop EXCEPT ![t] = m] /\ pc' = [pc EXCEPT ![t] = "pushRead"] /\ NotReissued(m)
  BY DEF m
<1>5. Types'
  BY <1>3, <1>4 DEF PoolInv, Types, FreePcs
<1>6. NodesAccounted'
  BY AccountsKept DEF PoolInv
<1>7. HeldOnce'
  BY <1>1 DEF PoolInv, HeldOnce
<1>8. TagInv'
  <2> SUFFICES ASSUME NEW v \in Threads, NEW u \in Threads,
                      pc'[v] \in {"popNext", "popCas"}, pc'[u] \in Linking
               PROVE  top[v] # newTop'[u]
    BY DEF TagInv
  <2>1. pc[v] \in {"popNext", "popCas"}
    BY <1>4 DEF PoolInv, Types
  <2>2. CASE u = t
    <3>1. newTop'[u] = m
      BY <1>4, <2>2 DEF PoolInv, Types
    <3> QED
      BY <1>4, <2>1, <3>1 DEF NotReissued
  <2>3. CASE u # t
    BY <2>1, <2>3 DEF PoolInv, Types, TagInv
  <2> QED
    BY <2>2, <2>3
<1>9. ASSUME NEW u \in Threads PROVE ThreadInv(u)'
  <2>1. ThreadInv(u)
    BY DEF PoolInv
  <2>2. CASE u = t
    <3>1. newTop'[u] = m /\ pc'[u] = "pushRead" /\ pc[u] = "pushTag"
      BY <1>4, <2>2 DEF PoolInv, Types
    <3> QED
      BY <1>3, <2>1, <2>2, <3>1 DEF ThreadInv, Pops, Pushes, Linking
  <2>3. CASE u # t
    <3>1. newTop'[u] = newTop[u] /\ pc'[u] = pc[u]
      BY <1>4, <2>3 DEF PoolInv, Types
    <3> QED
      BY <2>1, <3>1 DEF ThreadInv, Pops, Pushes, Linking
  <2> QED
    BY <2>2, <2>3
<1>10. IsStack(s)' /\ NextRead(s)'
  <2>1. \A u \in Threads : pc'[u] = "popCas" => pc[u] = "popCas" /\ newTop'[u] = newTop[u]
    BY <1>4 DEF PoolInv, Types
  <2> QED
    BY <1>2, <2>1, StackKept
<1> QED
  BY <1>2, <1>5, <1>6, <1>7, <1>8, <1>9, <1>10 DEF PoolInv

LEMMA PushReadKeeps ==
    ASSUME PoolInv, NEW s \in Seq(Buckets), IsStack(s), NextRead(s),
           NEW t \in Threads, PushRead(t)
    PROVE  PoolInv' /\ IsStack(s)' /\ NextRead(s)' /\ Retired' = Retired
<1> USE DEF PushRead, Goto, poolVars, bucketVars
<1>1. \A u \in Threads : \A b : Holds(u, b)' <=> Holds(u, b)
  BY DEF PoolInv, Types, Holds
<1>2. Retired' = Retired
  BY <1>1 DEF Retired
<1>3. Types'
  BY DEF PoolInv, Types, FreePcs
<1>4. NodesAccounted'
  BY AccountsKept DEF PoolInv
<1>5. HeldOnce'
  BY <1>1 DEF PoolInv, HeldOnce
<1>6. TagInv'
  BY DEF PoolInv, Types, TagInv, Linking
<1>7. ASSUME NEW u \in Threads PROVE ThreadInv(u)'
  <2>1. ThreadInv(u)
    BY DEF PoolInv
  <2> QED
    BY <2>1 DEF PoolInv, Types, ThreadInv, Pops, Pushes, Linking
<1>8. IsStack(s)' /\ NextRead(s)'
  <2>1. \A u \in Threads : pc'[u] = "popCas" => pc[u] = "popCas" /\ top'[u] = top[u]
    BY DEF PoolInv, Types
  <2> QED
    BY <1>2, <2>1, StackKept
<1> QED
  BY <1>2, <1>3, <1>4, <1>5, <1>6, <1>7, <1>8 DEF PoolInv

LEMMA PushLinkKeeps ==
    ASSUME PoolInv, NEW s \in Seq(Buckets), IsStack(s), NextRead(s),
           NEW t \in Threads, PushLink(t)
    PROVE  PoolInv' /\ IsStack(s)' /\ NextRead(s)' /\ Retired' = Retired
<1> USE DEF PushLink, Goto, poolVars
<1>1. bkt[t] \in mallocd /\ bkt[t] \in Buckets /\ Holds(t, bkt[t])
  BY DEF PoolInv, Types, ThreadInv, Pushes, Linking, Holds
<1>2. \A c \in Buckets : c # bkt[t] => metaNext'[c] = metaNext[c]
  BY DEF PoolInv, Types
<1>3. \A u \in Threads : \A b : Holds(u, b)' <=> Holds(u, b)
  BY DEF PoolInv, Types, Holds
<1>4. Retired' = Retired
  BY <1>3 DEF Retired
<1>5. Types'
  BY DEF PoolInv, Types, FreePcs
<1>6. NodesAccounted'
  BY AccountsKept DEF PoolInv
<1>7. HeldOnce'
  BY <1>3 DEF PoolInv, HeldOnce
<1>8. TagInv'
  BY DEF PoolInv, Types, TagInv, Linking
<1>9. ASSUME NEW u \in Threads PROVE ThreadInv(u)'
  <2>1. ThreadInv(u)
    BY DEF PoolInv
  <2>2. CASE u = t
    <3>1. metaNext'[bkt[u]] = top[u]
      BY <1>1, <2>2 DEF PoolInv, Types
    <3> QED
      BY <2>1, <2>2, <3>1 DEF PoolInv, Types, ThreadInv, Pops, Pushes, Linking
  <2>3. CASE u # t
    <3>1. pc'[u] = pc[u] /\ (pc[u] = "pushCas" => bkt[u] \in Buckets)
      BY <2>1, <2>3 DEF PoolInv, Types, ThreadInv, Pushes, Linking
    <3>2. pc[u] = "pushCas" => bkt[u] # bkt[t]
      BY <1>1, <2>3 DEF PoolInv, HeldOnce, Holds
    <3> QED
      BY <1>2, <2>1, <3>1, <3>2 DEF ThreadInv, Pops, Pushes, Linking
  <2> QED
    BY <2>2, <2>3
<1>10. IsStack(s)' /\ NextRead(s)'
  <2>1. \A u \in Threads : pc'[u] = "popCas" => pc[u] = "popCas"
    BY DEF PoolInv, Types
  <2>2. \A c \in Retired : metaNext'[c] = metaNext[c]
    BY <1>1, <1>2 DEF PoolInv, Types, Retired
  <2> QED
    BY <1>4, <2>1, <2>2, StackKept
<1> QED
  BY <1>4, <1>5, <1>6, <1>7, <1>8, <1>9, <1>10 DEF PoolInv

LEMMA PushRetryKeeps ==
    ASSUME PoolInv, NEW s \in Seq(Buckets), IsStack(s), NextRead(s),
           NEW t \in Threads, PushBucket(t), metaTop # top[t]
    PROVE  PoolInv' /\ IsStack(s)' /\ NextRead(s)' /\ Retired' = Retired
<1> USE DEF PushBucket, Goto, bucketVars
<1>1. \A u \in Threads : \A b : Holds(u, b)' <=> Holds(u, b)
  BY DEF PoolInv, Types, Holds
<1>2. Retired' = Retired
  BY <1>1 DEF Retired
<1>3. Types'
  BY DEF PoolInv, Types, FreePcs
<1>4. NodesAccounted'
  BY AccountsKept DEF PoolInv
<1>5. HeldOnce'
  BY <1>1 DEF PoolInv, HeldOnce
<1>6. TagInv'
  BY DEF PoolInv, Types, TagInv, Linking
<1>7. ASSUME NEW u \in Threads PROVE ThreadInv(u)'
  <2>1. ThreadInv(u)
    BY DEF PoolInv
  <2> QED
    BY <2>1 DEF PoolInv, Types, ThreadInv, Pops, Pushes, Linking
<1>8. IsStack(s)' /\ NextRead(s)'
  <2>1. \A u \in Threads : pc'[u] = "popCas" => pc[u] = "popCas"
    BY DEF PoolInv, Types
  <2> QED
    BY <1>2, <2>1, StackKept
<1> QED
  BY <1>2, <1>3, <1>4, <1>5, <1>6, <1>7, <1>8 DEF PoolInv

\* A push whose CAS succeeds puts the bucket on top of the buckets that were there.
LEMMA PushKeeps ==
    ASSUME PoolInv, NEW s \in Seq(Buckets), IsStack(s), NextRead(s),
           NEW t \in Threads, PushBucket(t), metaTop = top[t]
    PROVE  /\ PoolInv' /\ \E r \in Seq(Buckets) : IsStack(r)' /\ NextRead(r)'
           /\ bkt[t] \notin Retired /\ Retired' = Retired \cup {bkt[t]}
<1> USE DEF PushBucket, Goto, bucketVars
<1>0. PICK b : b = bkt[t]
  OBVIOUS
<1>1. /\ b \in mallocd /\ b \in Buckets /\ freeCnt[b] = Size /\ Holds(t, b)
      /\ GetRealAddr(newTop[t]) = b /\ metaNext[b] = metaTop
  BY <1>0 DEF PoolInv, Types, ThreadInv, Pushes, Linking, Holds
<1>2. \A u \in Threads : Holds(u, b) => u = t
  BY <1>1 DEF PoolInv, HeldOnce
<1>3. tls[t] # b
  <2>1. tls[t] = b => freeCnt[b] < Size
    BY <1>1, OwnBucketNotFull, WordFacts
  <2> QED
    BY <1>1, <2>1, SizeFacts
<1>4. pc[t] = "pushCas" /\ pc'[t] = "pushed" /\ \A u \in Threads : u # t => pc'[u] = pc[u]
  BY DEF PoolInv, Types
<1>5. \A u \in Threads : \A c : u # t \/ c # b => (Holds(u, c)' <=> Holds(u, c))
  BY <1>0, <1>4 DEF Holds
<1>6. ~Holds(t, b)'
  BY <1>3, <1>4 DEF Holds
<1>7. Retired' = Retired \cup {b}
  <2>1. ASSUME NEW c PROVE c \in Retired' <=> c \in Retired \/ c = b
    <3>1. CASE c = b
      <4>1. \A u \in Threads : ~Holds(u, b)'
        BY <1>2, <1>5, <1>6
      <4> QED
        BY <1>1, <3>1, <4>1 DEF Retired
    <3>2. CASE c # b
      BY <1>5, <3>2 DEF Retired
    <3> QED
      BY <3>1, <3>2
  <2> QED
    BY <2>1
<1>8. b \notin Retired
  BY <1>1 DEF Retired
<1>9. PICK L \in Nat : L = Len(s)
  OBVIOUS
<1>r. PICK r : r = [n \in 1 .. L + 1 |-> IF n = 1 THEN b ELSE s[n - 1]]
  OBVIOUS
<1>10. r \in Seq(Buckets) /\ Len(r) = L + 1
  <2>1. \A n \in 1 .. L + 1 : (IF n = 1 THEN b ELSE s[n - 1]) \in Buckets
    <3> TAKE n \in 1 .. L + 1
    <3>1. n = 1 \/ n - 1 \in 1 .. L
      OBVIOUS
    <3> QED
      BY <1>1, <1>9, <3>1
  <2>2. r \in [1 .. L + 1 -> Buckets]
    BY <1>r, <2>1
  <2>3. L + 1 \in Nat
    BY <1>9
  <2> QED
    BY <2>2, <2>3
<1>11. r[1] = b /\ \A n \in 1 .. L : r[n + 1] = s[n]
  <2>1. 1 \in 1 .. L + 1
    BY <1>9
  <2>2. ASSUME NEW n \in 1 .. L PROVE n + 1 \in 1 .. L + 1 /\ n + 1 # 1 /\ n + 1 - 1 = n
    BY <1>9
  <2> QED
    BY <1>r, <2>1, <2>2
<1>12. Word(r, 0)' = newTop[t]
  BY DEF Word
<1>13. \A n \in 0 .. L : Word(r, n + 1)' = Word(s, n)
  <2> TAKE n \in 0 .. L
  <2>1. n + 1 # 0
    BY <1>9
  <2>2. CASE n = 0
    BY <1>1, <1>11, <2>1, <2>2 DEF Word
  <2>3. CASE n # 0
    <3>1. n \in 1 .. L
      BY <1>9, <2>3
    <3> QED
      BY <1>11, <2>1, <2>3, <3>1 DEF Word
  <2> QED
    BY <2>2, <2>3
<1>14. Types'
  <2>1. metaTop' \in MetaAddrs(Buckets)
    BY DEF PoolInv, Types
  <2>2. pc' \in [Threads -> {"idle"} \cup AllocPcs \cup FreePcs]
    BY DEF PoolInv, Types, FreePcs
  <2> QED
    BY <2>1, <2>2 DEF PoolInv, Types
<1>15. NodesAccounted'
  BY AccountsKept DEF PoolInv
<1>16. HeldOnce'
  <2>1. \A u \in Threads : \A c : Holds(u, c)' => Holds(u, c)
    BY <1>5, <1>6
  <2> QED
    BY <2>1 DEF PoolInv, HeldOnce
<1>17. TagInv'
  BY DEF PoolInv, Types, TagInv, Linking
<1>18. ASSUME NEW u \in Threads PROVE ThreadInv(u)'
  <2>1. ThreadInv(u)
    BY DEF PoolInv
  <2> QED
    BY <2>1 DEF PoolInv, Types, ThreadInv, Pops, Pushes, Linking
<1>19. IsStack(r)'
  <2>1. \A i, j \in 1 .. L + 1 : r[i] = r[j] => i = j
    <3>1. \A i \in 1 .. L : s[i] \in Retired
      BY <1>9 DEF IsStack
    <3>2. \A i, j \in 1 .. L : s[i] = s[j] => i = j
      BY <1>9 DEF IsStack
    <3> TAKE i, j \in 1 .. L + 1
    <3>3. (i = 1 \/ (i - 1 \in 1 .. L /\ i - 1 + 1 = i)) /\ (j = 1 \/ (j - 1 \in 1 .. L /\ j - 1 + 1 = j))
      BY <1>9
    <3>4. (i = 1 \/ r[i] = s[i - 1]) /\ (j = 1 \/ r[j] = s[j - 1])
      BY <1>11, <3>3
    <3> QED
      BY <1>8, <1>9, <1>11, <3>1, <3>2, <3>3, <3>4
  <2>2. ASSUME NEW n \in 0 .. L PROVE GetRealAddr(Word(r, n)') = r[n + 1]
    <3>1. CASE n = 0
      BY <1>1, <1>11, <1>12, <3>1
    <3>2. CASE n # 0
      <4>1. n - 1 \in 0 .. L - 1 /\ n - 1 \in 0 .. L /\ n - 1 + 1 = n /\ n \in 1 .. L
        BY <1>9, <3>2
      <4>2. GetRealAddr(Word(s, n - 1)) = s[n - 1 + 1]
        BY <1>9, <4>1 DEF IsStack
      <4> QED
        BY <1>11, <1>13, <4>1, <4>2
    <3> QED
      BY <3>1, <3>2
  <2>3. Word(r, L + 1)' = ZeroMeta
    <3>1. L \in 0 .. L
      BY <1>9
    <3> QED
      BY <1>9, <1>13, <3>1 DEF IsStack
  <2>4. {r[i] : i \in 1 .. L + 1} = Retired \cup {b}
    <3>1. ASSUME NEW c PROVE (\E i \in 1 .. L + 1 : c = r[i]) <=> c \in Retired \/ c = b
      <4>1. ASSUME NEW i \in 1 .. L + 1, c = r[i] PROVE c \in Retired \/ c = b
        <5>1. i = 1 \/ (i - 1 \in 1 .. L /\ i - 1 + 1 = i)
          BY <1>9
        <5>2. i = 1 \/ \E k \in 1 .. L : i = k + 1
          BY <5>1
        <5>3. i = 1 \/ \E k \in 1 .. L : c = s[k]
          BY <1>11, <4>1, <5>2
        <5> QED
          BY <1>9, <1>11, <4>1, <5>3 DEF IsStack
      <4>2. ASSUME c \in Retired PROVE \E i \in 1 .. L + 1 : c = r[i]
        <5>1. PICK k \in 1 .. L : c = s[k]
          BY <1>9, <4>2 DEF IsStack
        <5>2. k + 1 \in 1 .. L + 1 /\ r[k + 1] = c
          BY <1>9, <1>11, <5>1
        <5> QED
          BY <5>2
      <4>3. ASSUME c = b PROVE \E i \in 1 .. L + 1 : c = r[i]
        <5>1. 1 \in 1 .. L + 1
          BY <1>9
        <5> QED
          BY <1>11, <4>3, <5>1
      <4> QED
        BY <4>1, <4>2, <4>3
    <3> QED
      BY <3>1
  <2>5. Len(r) - 1 = L
    BY <1>9, <1>10
  <2>6. \A n \in 0 .. Len(r) - 1 : GetRealAddr(Word(r, n)') = r[n + 1]
    BY <2>2, <2>5
  <2>7. Word(r, Len(r))' = ZeroMeta
    BY <1>10, <2>3
  <2>8. {r[i] : i \in 1 .. Len(r)} = Retired'
    BY <1>7, <1>10, <2>4
  <2>9. \A i, j \in 1 .. Len(r) : r[i] = r[j] => i = j
    BY <1>10, <2>1
  <2> QED
    BY <2>6, <2>7, <2>8, <2>9 DEF IsStack
<1>20. NextRead(r)'
  <2> SUFFICES ASSUME NEW u \in Threads, NEW n \in 0 .. L,
                      pc'[u] = "popCas", Word(r, n)' = top'[u]
               PROVE  newTop'[u] = Word(r, n + 1)'
    <3>1. L + 1 - 1 = L
      BY <1>9
    <3> QED
      BY <1>9, <1>10, <3>1 DEF NextRead
  <2>1. pc[u] = "popCas" /\ top'[u] = top[u] /\ newTop'[u] = newTop[u]
    BY <1>4
  <2>2. CASE n = 0
    BY <1>4, <1>12, <2>1, <2>2 DEF PoolInv, TagInv, Linking
  <2>3. CASE n # 0
    <3>1. n - 1 \in 0 .. L - 1 /\ n - 1 \in 0 .. L /\ n - 1 + 1 = n
      BY <1>9, <2>3
    <3>2. Word(s, n - 1) = top[u]
      BY <1>13, <2>1, <3>1
    <3>3. newTop[u] = Word(s, n - 1 + 1)
      BY <1>9, <2>1, <3>1, <3>2 DEF NextRead
    <3> QED
      BY <1>13, <2>1, <3>1, <3>3
  <2> QED
    BY <2>2, <2>3
<1> QED
  BY <1>0, <1>7, <1>8, <1>10, <1>14, <1>15, <1>16, <1>17, <1>18, <1>19, <1>20 DEF PoolInv

LEMMA IncSizeKeeps ==
    ASSUME PoolInv, NEW s \in Seq(Buckets), IsStack(s), NextRead(s),
           NEW t \in Threads, IncSize(t)
    PROVE  PoolInv' /\ IsStack(s)' /\ NextRead(s)' /\ Retired' = Retired
<1> USE DEF IncSize, Goto, bucketVars
<1>1. \A u \in Threads : \A b : Holds(u, b)' <=> Holds(u, b)
  BY DEF PoolInv, Types, Holds
<1>2. Retired' = Retired
  BY <1>1 DEF Retired
<1>3. Types'
  BY DEF PoolInv, Types, FreePcs
<1>4. NodesAccounted'
  BY AccountsKept DEF PoolInv
<1>5. HeldOnce'
  BY <1>1 DEF PoolInv, HeldOnce
<1>6. TagInv'
  BY DEF PoolInv, Types, TagInv, Linking
<1>7. ASSUME NEW u \in Threads PROVE ThreadInv(u)'
  <2>1. ThreadInv(u)
    BY DEF PoolInv
  <2> QED
    BY <2>1 DEF PoolInv, Types, ThreadInv, Pops, Pushes, Linking
<1>8. IsStack(s)' /\ NextRead(s)'
  <2>1. \A u \in Threads : pc'[u] = "popCas" => pc[u] = "popCas"
    BY DEF PoolInv, Types
  <2> QED
    BY <1>2, <2>1, StackKept
<1> QED
  BY <1>2, <1>3, <1>4, <1>5, <1>6, <1>7, <1>8 DEF PoolInv

LEMMA EndFreeKeeps ==
    ASSUME PoolInv, NEW s \in Seq(Buckets), IsStack(s), NextRead(s),
           NEW t \in Threads, EndFree(t)
    PROVE  PoolInv' /\ IsStack(s)' /\ NextRead(s)' /\ Retired' = Retired
<1> USE DEF EndFree, Return, Goto, bucketVars
<1>1. \A u \in Threads : \A b : Holds(u, b)' <=> Holds(u, b)
  BY DEF PoolInv, Types, Holds
<1>2. Retired' = Retired
  BY <1>1 DEF Retired
<1>3. Types'
  <2>1. /\ top' \in [Threads -> MetaAddrs(Buckets)] /\ newTop' \in [Threads -> MetaAddrs(Buckets)]
        /\ bkt' \in [Threads -> Buckets \cup {NULL}]
    BY WordFacts DEF PoolInv, Types
  <2> QED
    BY <2>1 DEF PoolInv, Types, FreePcs
<1>4. NodesAccounted'
  BY AccountsKept DEF PoolInv
<1>5. HeldOnce'
  BY <1>1 DEF PoolInv, HeldOnce
<1>6. TagInv'
  BY DEF PoolInv, Types, TagInv, Linking
<1>7. ASSUME NEW u \in Threads PROVE ThreadInv(u)'
  <2>1. ThreadInv(u)
    BY DEF PoolInv
  <2> QED
    BY <2>1 DEF PoolInv, Types, ThreadInv, Pops, Pushes, Linking
<1>8. IsStack(s)' /\ NextRead(s)'
  <2>1. \A u \in Threads : pc'[u] = "popCas" =>
          pc[u] = "popCas" /\ top'[u] = top[u] /\ newTop'[u] = newTop[u]
    BY DEF PoolInv, Types
  <2> QED
    BY <1>2, <2>1, StackKept
<1> QED
  BY <1>2, <1>3, <1>4, <1>5, <1>6, <1>7, <1>8 DEF PoolInv

-------------------------------------------------------------------------------
HasStack == \E s \in Seq(Buckets) : IsStack(s) /\ NextRead(s)

\* The inductive invariant the theorems below rest on.
StackInv == PoolInv /\ HasStack

LEMMA InitStackInv == Init => StackInv
<1> SUFFICES ASSUME Init PROVE StackInv
  OBVIOUS
<1> USE DEF Init
<1>1. Types
  BY WordFacts, CounterFacts, SizeFacts DEF Types
<1>2. NodesAccounted /\ HeldOnce /\ TagInv /\ \A t \in Threads : ThreadInv(t)
  <2>1. \A t \in Threads : ThreadInv(t)
    BY DEF ThreadInv, Pops, Pushes, Linking
  <2>2. \A t \in Threads, b \in Buckets : ~Holds(t, b)
    BY WordFacts DEF Holds
  <2>3. NodesAccounted /\ TagInv
    BY DEF NodesAccounted, TagInv, Linking
  <2> QED
    BY <2>1, <2>2, <2>3 DEF HeldOnce
<1>3. HasStack
  <2>1. << >> \in Seq(Buckets) /\ Len(<< >>) = 0
    OBVIOUS
  <2>2. Retired = {}
    BY DEF Retired
  <2>3. IsStack(<< >>)
    BY <2>1, <2>2 DEF IsStack, Word
  <2>4. NextRead(<< >>)
    BY <2>1 DEF NextRead
  <2> QED
    BY <2>1, <2>3, <2>4 DEF HasStack
<1> QED
  BY <1>1, <1>2, <1>3 DEF PoolInv, StackInv

LEMMA StackInvStep == StackInv /\ [Next]_vars => StackInv'
<1> SUFFICES ASSUME StackInv, [Next]_vars PROVE StackInv'
  OBVIOUS
<1>1. PoolInv
  BY DEF StackInv
<1>2. PICK s \in Seq(Buckets) : IsStack(s) /\ NextRead(s)
  BY DEF StackInv, HasStack
<1>3. SUFFICES PoolInv' /\ \E r \in Seq(Buckets) : IsStack(r)' /\ NextRead(r)'
  BY DEF StackInv, HasStack
<1>4. ASSUME NEW t \in Threads, BeginAlloc(t) PROVE PoolInv' /\ \E r \in Seq(Buckets) : IsStack(r)' /\ NextRead(r)'
  BY <1>1, <1>2, <1>4, BeginAllocKeeps
<1>5. ASSUME NEW t \in Threads, ReadTop(t) PROVE PoolInv' /\ \E r \in Seq(Buckets) : IsStack(r)' /\ NextRead(r)'
  BY <1>1, <1>2, <1>5, ReadTopKeeps
<1>6. ASSUME NEW t \in Threads, MallocBucket(t) PROVE PoolInv' /\ \E r \in Seq(Buckets) : IsStack(r)' /\ NextRead(r)'
  BY <1>1, <1>2, <1>6, MallocBucketKeeps
<1>7. ASSUME NEW t \in Threads, ReadNext(t) PROVE PoolInv' /\ \E r \in Seq(Buckets) : IsStack(r)' /\ NextRead(r)'
  BY <1>1, <1>2, <1>7, ReadNextKeeps
<1>8. ASSUME NEW t \in Threads, InitBucket(t) PROVE PoolInv' /\ \E r \in Seq(Buckets) : IsStack(r)' /\ NextRead(r)'
  BY <1>1, <1>2, <1>8, InitBucketKeeps
<1>9. ASSUME NEW t \in Threads, TakeBucket(t) PROVE PoolInv' /\ \E r \in Seq(Buckets) : IsStack(r)' /\ NextRead(r)'
  BY <1>1, <1>2, <1>9, TakeBucketKeeps
<1>10. ASSUME NEW t \in Threads, AllocNode(t) PROVE PoolInv' /\ \E r \in Seq(Buckets) : IsStack(r)' /\ NextRead(r)'
  BY <1>1, <1>2, <1>10, AllocNodeKeeps
<1>11. ASSUME NEW t \in Threads, GetTag(t) PROVE PoolInv' /\ \E r \in Seq(Buckets) : IsStack(r)' /\ NextRead(r)'
  BY <1>1, <1>2, <1>11, GetTagKeeps
<1>12. ASSUME NEW t \in Threads, PushRead(t) PROVE PoolInv' /\ \E r \in Seq(Buckets) : IsStack(r)' /\ NextRead(r)'
  BY <1>1, <1>2, <1>12, PushReadKeeps
<1>13. ASSUME NEW t \in Threads, PushLink(t) PROVE PoolInv' /\ \E r \in Seq(Buckets) : IsStack(r)' /\ NextRead(r)'
  BY <1>1, <1>2, <1>13, PushLinkKeeps
<1>14. ASSUME NEW t \in Threads, IncSize(t) PROVE PoolInv' /\ \E r \in Seq(Buckets) : IsStack(r)' /\ NextRead(r)'
  BY <1>1, <1>2, <1>14, IncSizeKeeps
<1>15. ASSUME NEW t \in Threads, EndFree(t) PROVE PoolInv' /\ \E r \in Seq(Buckets) : IsStack(r)' /\ NextRead(r)'
  BY <1>1, <1>2, <1>15, EndFreeKeeps
<1>16. ASSUME NEW t \in Threads, PopBucket(t) PROVE PoolInv' /\ \E r \in Seq(Buckets) : IsStack(r)' /\ NextRead(r)'
  BY <1>1, <1>2, <1>16, PopRetryKeeps, PopKeeps
<1>17. ASSUME NEW t \in Threads, PushBucket(t) PROVE PoolInv' /\ \E r \in Seq(Buckets) : IsStack(r)' /\ NextRead(r)'
  BY <1>1, <1>2, <1>17, PushRetryKeeps, PushKeeps
<1>18. ASSUME NEW t \in Threads, NEW o \in live, FreeNode(t, o)
      PROVE  PoolInv' /\ \E r \in Seq(Buckets) : IsStack(r)' /\ NextRead(r)'
  BY <1>1, <1>2, <1>18, FreeNodeKeeps
<1>19. ASSUME UNCHANGED vars PROVE PoolInv' /\ \E r \in Seq(Buckets) : IsStack(r)' /\ NextRead(r)'
  <2> USE <1>19 DEF vars, poolVars, bucketVars, threadVars
  <2>1. Types'
    BY <1>1 DEF PoolInv, Types
  <2>2. NodesAccounted'
    BY <1>1, AccountsKept DEF PoolInv
  <2>3. \A u \in Threads : \A b : Holds(u, b)' <=> Holds(u, b)
    BY DEF Holds
  <2>4. HeldOnce' /\ Retired' = Retired
    BY <1>1, <2>3 DEF PoolInv, HeldOnce, Retired
  <2>5. TagInv' /\ \A u \in Threads : ThreadInv(u)'
    BY <1>1 DEF PoolInv, TagInv, ThreadInv
  <2>6. IsStack(s)' /\ NextRead(s)'
    BY <1>2, <2>4, StackKept
  <2> QED
    BY <2>1, <2>2, <2>4, <2>5, <2>6 DEF PoolInv
<1> QED
  BY <1>4, <1>5, <1>6, <1>7, <1>8, <1>9, <1>10, <1>11, <1>12, <1>13, <1>14, <1>15, <1>16, <1>17, <1>18, <1>19
     DEF Next, AllocStep, PushStep, FreeStep

\* The stack stays a stack, and what threads know of it and of their buckets stays true.
THEOREM StackInvAlways == Spec => []StackInv
<1> QED
  BY InitStackInv, StackInvStep, PTL DEF Spec

-------------------------------------------------------------------------------
LEMMA StackCounted ==
    ASSUME NEW s \in Seq(Buckets), IsStack(s)
    PROVE  Cardinality(Retired) = Len(s) /\ IsFiniteSet(Retired)
<1>1. PICK n \in Nat, S \in {Retired} : n = Len(s) /\ S = Retired
  OBVIOUS
<1>2. /\ \A i, j \in 1 .. n : s[i] = s[j] => i = j
      /\ {s[i] : i \in 1 .. n} = S
  BY <1>1 DEF IsStack
<1>3. (\A i \in 1 .. n : s[i] \in S) /\ \A x \in S : \E i \in 1 .. n : s[i] = x
  BY <1>2
<1>4. Cardinality(S) = n /\ IsFiniteSet(S)
  BY <1>2, <1>3, ElementsCounted
<1> QED
  BY <1>1, <1>4

\* The words met when a stack s is followed from the top.
LEMMA WordsOfStack ==
    ASSUME PoolInv, NEW s \in Seq(Buckets), IsStack(s)
    PROVE  /\ Cardinality(Buckets) \in Nat /\ Len(s) <= Cardinality(Buckets)
           /\ DOMAIN StackWord = 0 .. Cardinality(Buckets)
           /\ \A n \in 0 .. Cardinality(Buckets) :
                StackWord[n] = IF n <= Len(s) THEN Word(s, n) ELSE ZeroMeta
<1> DEFINE C == Cardinality(Buckets)
           L == Len(s)
           W == [n \in 0 .. C |-> IF n <= L THEN Word(s, n) ELSE ZeroMeta]
           F(f) == [n \in 0 .. C |->
                      IF n = 0 THEN metaTop
                      ELSE IF f[n - 1] = ZeroMeta THEN ZeroMeta
                      ELSE metaNext[GetRealAddr(f[n - 1])]]
<1>1. C \in Nat /\ L \in Nat
  BY PoolAssumption, FS_CardinalityType
<1>2. L <= C
  <2>1. Retired \in SUBSET Buckets
    BY DEF PoolInv, Types, Retired
  <2>2. Cardinality(Retired) = L
    BY StackCounted
  <2> QED
    BY <2>1, <2>2, PoolAssumption, FS_Subset
<1>3. \A n \in 0 .. L : n < L => GetRealAddr(Word(s, n)) = s[n + 1] /\ s[n + 1] \in Buckets
  <2> SUFFICES ASSUME NEW n \in 0 .. L, n < L
               PROVE  GetRealAddr(Word(s, n)) = s[n + 1] /\ s[n + 1] \in Buckets
    OBVIOUS
  <2>1. n \in 0 .. L - 1 /\ n + 1 \in 1 .. L
    BY <1>1
  <2> QED
    BY <2>1 DEF IsStack
<1>4. W = F(W)
  <2> SUFFICES ASSUME NEW n \in 0 .. C PROVE W[n] = F(W)[n]
    OBVIOUS
  <2>1. CASE n = 0
    BY <1>1, <2>1 DEF Word
  <2>2. CASE n # 0 /\ n <= L
    <3>1. n - 1 \in 0 .. C /\ n - 1 \in 0 .. L /\ n - 1 < L /\ n - 1 + 1 = n
      BY <1>1, <1>2, <2>2
    <3>2. GetRealAddr(Word(s, n - 1)) = s[n] /\ s[n] \in Buckets
      BY <1>3, <3>1
    <3>3. W[n - 1] = Word(s, n - 1)
      BY <1>1, <3>1
    <3>4. W[n - 1] # ZeroMeta
      BY <3>2, <3>3, WordFacts
    <3> QED
      BY <2>2, <3>2, <3>3, <3>4 DEF Word
  <2>3. CASE n # 0 /\ ~(n <= L)
    <3>1. n - 1 \in 0 .. C /\ (n - 1 = L \/ ~(n - 1 <= L))
      BY <1>1, <1>2, <2>3
    <3>2. W[n - 1] = ZeroMeta
      BY <1>1, <3>1 DEF IsStack
    <3> QED
      BY <2>3, <3>2
  <2> QED
    BY <2>1, <2>2, <2>3
<1>5. StackWord = CHOOSE f : f = F(f)
  BY DEF StackWord
<1> HIDE DEF F
<1>6. StackWord = F(StackWord)
  BY <1>4, <1>5
<1> USE DEF F
<1>7. DOMAIN StackWord = 0 .. C
  BY <1>6
<1>8. ASSUME NEW n \in 0 .. C PROVE StackWord[n] = F(StackWord)[n] /\ W[n] = F(W)[n]
  BY <1>4, <1>6
<1>9. StackWord[0] = W[0]
  <2>1. 0 \in 0 .. C
    BY <1>1
  <2>2. F(StackWord)[0] = metaTop /\ F(W)[0] = metaTop
    BY <2>1
  <2> HIDE DEF F, W
  <2> QED
    BY <1>8, <2>1, <2>2
<1>10. \A n \in 1 .. C : StackWord[n - 1] = W[n - 1] => StackWord[n] = W[n]
  <2> SUFFICES ASSUME NEW n \in 1 .. C, StackWord[n - 1] = W[n - 1]
               PROVE  StackWord[n] = W[n]
    OBVIOUS
  <2>1. n \in 0 .. C /\ n # 0
    BY <1>1
  <2>2. StackWord[n] = F(StackWord)[n] /\ W[n] = F(W)[n]
    BY <1>8, <2>1
  <2> HIDE DEF W
  <2> QED
    BY <2>1, <2>2
<1>11. \A n \in 0 .. C : StackWord[n] = W[n]
  <2>1. PICK f, g, N : f = StackWord /\ g = W /\ N = C
    OBVIOUS
  <2> HIDE DEF W, F, C
  <2>2. N \in Nat
    BY <1>1, <2>1
  <2>3. f[0] = g[0]
    BY <1>9, <2>1
  <2>4. \A n \in 1 .. N : f[n - 1] = g[n - 1] => f[n] = g[n]
    BY <1>10, <2>1
  <2>5. \A n \in 0 .. N : f[n] = g[n]
    BY <2>2, <2>3, <2>4, SameByInduction, SMTT(60)
  <2> QED
    BY <2>1, <2>5
<1> QED
  BY <1>1, <1>2, <1>7, <1>11

LEMMA StackInvIntact == StackInv => StackIntact
<1> SUFFICES ASSUME StackInv PROVE StackIntact
  OBVIOUS
<1>1. PICK s \in Seq(Buckets) : IsStack(s)
  BY DEF StackInv, HasStack
<1>2. PICK C : C = Cardinality(Buckets)
  OBVIOUS
<1>3. PICK L \in Nat : L = Len(s)
  OBVIOUS
<1>4. /\ C \in Nat /\ L <= C /\ DOMAIN StackWord = 0 .. C
      /\ \A n \in 0 .. C : StackWord[n] = IF n <= L THEN Word(s, n) ELSE ZeroMeta
  BY <1>1, <1>2, <1>3, WordsOfStack DEF StackInv
<1>5. \A n \in 0 .. L - 1 : /\ n \in 0 .. C /\ n + 1 \in 1 .. L
                            /\ GetRealAddr(StackWord[n]) = s[n + 1] /\ s[n + 1] \in Buckets
                            /\ StackWord[n] # ZeroMeta
  <2> TAKE n \in 0 .. L - 1
  <2>1. n \in 0 .. C /\ n <= L /\ n + 1 \in 1 .. L
    BY <1>3, <1>4
  <2>2. GetRealAddr(Word(s, n)) = s[n + 1] /\ s[n + 1] \in Buckets
    BY <1>1, <1>3, <2>1 DEF IsStack
  <2> QED
    BY <1>4, <2>1, <2>2, WordFacts
<1>6. Occupied = 0 .. L - 1
  <2>1. ASSUME NEW n \in 0 .. C, n \notin 0 .. L - 1 PROVE StackWord[n] = ZeroMeta
    <3>1. n = L \/ ~(n <= L)
      BY <1>3, <1>4, <2>1
    <3> QED
      BY <1>1, <1>3, <1>4, <3>1 DEF IsStack
  <2> QED
    BY <1>4, <1>5, <2>1 DEF Occupied
<1>7. {GetRealAddr(StackWord[n]) : n \in Occupied} = Retired
  <2>1. {s[i] : i \in 1 .. L} = Retired
    BY <1>1, <1>3 DEF IsStack
  <2>2. ASSUME NEW n \in Occupied PROVE GetRealAddr(StackWord[n]) \in Retired
    BY <1>5, <1>6, <2>1
  <2>3. ASSUME NEW b \in Retired PROVE \E n \in Occupied : b = GetRealAddr(StackWord[n])
    <3>1. PICK i \in 1 .. L : b = s[i]
      BY <2>1
    <3>2. i - 1 \in 0 .. L - 1 /\ i - 1 + 1 = i
      BY <1>3
    <3>3. GetRealAddr(StackWord[i - 1]) = s[i - 1 + 1]
      BY <1>5, <3>2
    <3> QED
      BY <1>6, <3>1, <3>2, <3>3
  <2> QED
    BY <2>2, <2>3
<1>8. Cardinality(Occupied) = Cardinality(Retired)
  <2>1. Cardinality(0 .. L - 1) = L
    <3>1. 0 \in Int /\ L - 1 \in Int /\ (0 > L - 1 => L = 0) /\ L - 1 - 0 + 1 = L
      BY <1>3
    <3> QED
      BY <3>1, FS_Interval
  <2>2. Cardinality(Retired) = L
    BY <1>1, <1>3, StackCounted
  <2> QED
    BY <1>6, <2>1, <2>2
<1>9. HeldOnce
  BY DEF StackInv, PoolInv
<1> QED
  BY <1>7, <1>8, <1>9 DEF StackIntact, HeldOnce

\* Whatever the threads do, the stack is a list without repetition of exactly the
\* retired buckets, and no bucket is in the hands of two threads.
THEOREM StackIntactAlways == Spec => []StackIntact
<1> QED
  BY StackInvAlways, StackInvIntact, PTL

-------------------------------------------------------------------------------
\* The statistics: each action moves one thread, and a set grows or shrinks by one.
PcIn(S) == {t \in Threads : pc[t] \in S}

Popped == {"init", "take"}

In(label, S) == IF label \in S THEN 1 ELSE 0

Statistics ==
    /\ capacity = Cardinality(mallocd)
    /\ size + Cardinality(PcIn({"pushed"})) = Cardinality(Retired) + Cardinality(PcIn(Popped))
    /\ allocSize = Cardinality(live) + Cardinality(PcIn(FreePcs))

LEMMA StatisticsSame == StatisticsExact <=> Statistics
<1>1. /\ PcIn({"pushed"}) = {t \in Threads : pc[t] = "pushed"}
      /\ PcIn(Popped) = {t \in Threads : pc[t] \in {"init", "take"}}
      /\ PcIn(FreePcs) = {t \in Threads : pc[t] \in FreePcs}
  BY DEF PcIn, Popped
<1> QED
  BY <1>1 DEF StatisticsExact, Statistics

\* What the three sums are made of is finite.
LEMMA SumsFinite ==
    ASSUME Types
    PROVE  /\ IsFiniteSet(mallocd) /\ IsFiniteSet(live) /\ IsFiniteSet(Retired)
           /\ Cardinality(mallocd) \in Nat /\ Cardinality(live) \in Nat
           /\ Cardinality(Retired) \in Nat
<1>1. mallocd \in SUBSET Buckets /\ Retired \in SUBSET Buckets
  BY DEF Types, Retired
<1>2. IsFiniteSet(mallocd) /\ IsFiniteSet(Retired)
  BY <1>1, PoolAssumption, FS_Subset
<1>3. IsFiniteSet(0 .. Size - 1)
  BY SizeFacts, FS_Interval
<1>4. IsFiniteSet(mallocd \X (0 .. Size - 1))
  BY <1>2, <1>3, FS_Product
<1>5. IsFiniteSet(live)
  BY <1>4, FS_Subset DEF Types
<1> QED
  BY <1>2, <1>5, FS_CardinalityType

LEMMA SumsFinitePrimed ==
    ASSUME Types'
    PROVE  /\ Cardinality(mallocd') \in Nat /\ Cardinality(live') \in Nat
           /\ Cardinality(Retired') \in Nat
<1>1. mallocd' \in SUBSET Buckets /\ Retired' \in SUBSET Buckets
  BY DEF Types, Retired
<1>2. IsFiniteSet(mallocd') /\ IsFiniteSet(Retired')
  BY <1>1, PoolAssumption, FS_Subset
<1>3. IsFiniteSet(0 .. Size - 1)
  BY SizeFacts, FS_Interval
<1>4. IsFiniteSet(mallocd' \X (0 .. Size - 1))
  BY <1>2, <1>3, FS_Product
<1>5. IsFiniteSet(live')
  BY <1>4, FS_Subset DEF Types
<1> QED
  BY <1>2, <1>5, FS_CardinalityType

LEMMA PcCount ==
    ASSUME NEW S
    PROVE  IsFiniteSet(PcIn(S)) /\ Cardinality(PcIn(S)) \in Nat
<1>1. PcIn(S) \in SUBSET Threads
  BY DEF PcIn
<1> QED
  BY <1>1, PoolAssumption, FS_Subset, FS_CardinalityType

LEMMA PcMoved ==
    ASSUME Types, NEW t \in Threads, NEW l, pc' = [pc EXCEPT ![t] = l], NEW S
    PROVE  Cardinality(PcIn(S)') = Cardinality(PcIn(S)) + In(l, S) - In(pc[t], S)
<1> USE DEF In
<1>1. /\ IsFiniteSet(PcIn(S)) /\ Cardinality(PcIn(S)) \in Nat
      /\ t \in PcIn(S) <=> pc[t] \in S
  BY PcCount DEF PcIn
<1>2. pc'[t] = l /\ \A u \in Threads : u # t => pc'[u] = pc[u]
  BY DEF Types
<1>3. CASE l \in S
  <2>1. PcIn(S)' = PcIn(S) \cup {t}
    BY <1>2, <1>3 DEF PcIn
  <2>2. Cardinality(PcIn(S) \cup {t})
          = IF t \in PcIn(S) THEN Cardinality(PcIn(S)) ELSE Cardinality(PcIn(S)) + 1
    BY <1>1, FS_AddElement
  <2> QED
    BY <1>1, <1>3, <2>1, <2>2
<1>4. CASE l \notin S
  <2>1. PcIn(S)' = PcIn(S) \ {t}
    BY <1>2, <1>4 DEF PcIn
  <2>2. Cardinality(PcIn(S) \ {t})
          = IF t \in PcIn(S) THEN Cardinality(PcIn(S)) - 1 ELSE Cardinality(PcIn(S))
    BY <1>1, FS_RemoveElement
  <2> QED
    BY <1>1, <1>4, <2>1, <2>2
<1> QED
  BY <1>3, <1>4

\* The statistics stay exact when each sum changes by what the counter changes by.
LEMMA StatisticsMoved ==
    ASSUME PoolInv, Types', Statistics,
           NEW t \in Threads, NEW l, pc' = [pc EXCEPT ![t] = l],
           capacity' - capacity = Cardinality(mallocd') - Cardinality(mallocd),
           size' - size + In(l, {"pushed"}) - In(pc[t], {"pushed"})
             = Cardinality(Retired') - Cardinality(Retired) + In(l, Popped) - In(pc[t], Popped),
           allocSize' - allocSize
             = Cardinality(live') - Cardinality(live) + In(l, FreePcs) - In(pc[t], FreePcs)
    PROVE  Statistics'
<1>1. Types
  BY DEF PoolInv
<1>2. /\ Cardinality(PcIn({"pushed"})') = Cardinality(PcIn({"pushed"})) + In(l, {"pushed"})
                                            - In(pc[t], {"pushed"})
      /\ Cardinality(PcIn(Popped)') = Cardinality(PcIn(Popped)) + In(l, Popped) - In(pc[t], Popped)
      /\ Cardinality(PcIn(FreePcs)') = Cardinality(PcIn(FreePcs)) + In(l, FreePcs) - In(pc[t], FreePcs)
  BY <1>1, PcMoved
<1>3. /\ Cardinality(PcIn({"pushed"})) \in Int /\ Cardinality(PcIn(Popped)) \in Int
      /\ Cardinality(PcIn(FreePcs)) \in Int
  BY PcCount
<1>4. \A x, S : In(x, S) \in Int
  BY DEF In
<1>5. /\ Cardinality(mallocd) \in Int /\ Cardinality(live) \in Int /\ Cardinality(Retired) \in Int
      /\ Cardinality(mallocd') \in Int /\ Cardinality(live') \in Int
      /\ Cardinality(Retired') \in Int
  <2>1. Cardinality(mallocd) \in Int /\ Cardinality(live) \in Int /\ Cardinality(Retired) \in Int
    BY <1>1, SumsFinite
  <2>2. /\ Cardinality(mallocd') \in Int /\ Cardinality(live') \in Int
        /\ Cardinality(Retired') \in Int
    BY SumsFinitePrimed
  <2> QED
    BY <2>1, <2>2
<1>6. /\ capacity \in Int /\ size \in Int /\ allocSize \in Int
      /\ capacity' \in Int /\ size' \in Int /\ allocSize' \in Int
  BY <1>1 DEF Types
<1>7. capacity' = Cardinality(mallocd')
  BY <1>5, <1>6 DEF Statistics
<1>8. size' + Cardinality(PcIn({"pushed"})') = Cardinality(Retired') + Cardinality(PcIn(Popped)')
  <2>1. In(l, {"pushed"}) \in Int /\ In(pc[t], {"pushed"}) \in Int
        /\ In(l, Popped) \in Int /\ In(pc[t], Popped) \in Int
    BY <1>4
  <2> QED
    BY <1>2, <1>3, <1>5, <1>6, <2>1 DEF Statistics
<1>9. allocSize' = Cardinality(live') + Cardinality(PcIn(FreePcs)')
  <2>1. In(l, FreePcs) \in Int /\ In(pc[t], FreePcs) \in Int
    BY <1>4
  <2> QED
    BY <1>2, <1>3, <1>5, <1>6, <2>1 DEF Statistics
<1> QED
  BY <1>7, <1>8, <1>9 DEF Statistics

LEMMA InitStatistics == Init => Statistics
<1> SUFFICES ASSUME Init PROVE Statistics
  OBVIOUS
<1>1. /\ PcIn({"pushed"}) = {} /\ PcIn(Popped) = {} /\ PcIn(FreePcs) = {}
      /\ mallocd = {} /\ Retired = {} /\ live = {}
  BY DEF Init, PcIn, Popped, FreePcs, Retired
<1> QED
  BY <1>1, FS_EmptySet DEF Init, Statistics

\* How the three sums see a step from one label to another.
Shifts(from, to, pushed, popped, freeing) ==
    /\ pushed \in Int /\ popped \in Int /\ freeing \in Int
    /\ In(to, {"pushed"}) = In(from, {"pushed"}) + pushed
    /\ In(to, Popped) = In(from, Popped) + popped
    /\ In(to, FreePcs) = In(from, FreePcs) + freeing

\* What the counters then have to change by.
Counted(pushed, popped, freeing) ==
    /\ capacity' - capacity = Cardinality(mallocd') - Cardinality(mallocd)
    /\ size' - size + pushed = Cardinality(Retired') - Cardinality(Retired) + popped
    /\ allocSize' - allocSize = Cardinality(live') - Cardinality(live) + freeing

LEMMA StatisticsShifted ==
    ASSUME PoolInv, Types', Statistics,
           NEW t \in Threads, NEW l, pc' = [pc EXCEPT ![t] = l],
           NEW p, NEW o, NEW f, Shifts(pc[t], l, p, o, f), Counted(p, o, f)
    PROVE  Statistics'
<1>1. /\ In(pc[t], {"pushed"}) \in Int /\ In(pc[t], Popped) \in Int /\ In(pc[t], FreePcs) \in Int
  BY DEF In
<1>2. /\ Cardinality(live) \in Int /\ Cardinality(Retired) \in Int
      /\ Cardinality(live') \in Int /\ Cardinality(Retired') \in Int
      /\ size \in Int /\ allocSize \in Int /\ size' \in Int /\ allocSize' \in Int
  <2>1. Cardinality(live) \in Int /\ Cardinality(Retired) \in Int
    BY SumsFinite DEF PoolInv
  <2>2. Cardinality(live') \in Int /\ Cardinality(Retired') \in Int
    BY SumsFinitePrimed
  <2> QED
    BY <2>1, <2>2 DEF PoolInv, Types
<1>3. size' - size + In(l, {"pushed"}) - In(pc[t], {"pushed"})
        = Cardinality(Retired') - Cardinality(Retired) + In(l, Popped) - In(pc[t], Popped)
  BY <1>1, <1>2 DEF Shifts, Counted
<1>4. allocSize' - allocSize
        = Cardinality(live') - Cardinality(live) + In(l, FreePcs) - In(pc[t], FreePcs)
  BY <1>1, <1>2 DEF Shifts, Counted
<1> QED
  BY <1>3, <1>4, StatisticsMoved DEF Counted

LEMMA StatisticsStep ==
    StackInv /\ Statistics /\ [Next]_vars => Statistics'
<1> SUFFICES ASSUME StackInv, Statistics, [Next]_vars PROVE Statistics'
  OBVIOUS
<1>1. PoolInv /\ Types /\ PoolInv' /\ Types'
  BY StackInvStep DEF StackInv, PoolInv
<1>2. PICK s \in Seq(Buckets) : IsStack(s) /\ NextRead(s)
  BY DEF StackInv, HasStack
<1>3. /\ IsFiniteSet(mallocd) /\ IsFiniteSet(live) /\ IsFiniteSet(Retired)
      /\ Cardinality(mallocd) \in Int /\ Cardinality(live) \in Int /\ Cardinality(Retired) \in Int
      /\ capacity \in Int /\ size \in Int /\ allocSize \in Int
  BY <1>1, SumsFinite DEF Types
<1>4. ASSUME NEW t \in Threads, BeginAlloc(t) PROVE Statistics'
  <2>1. Retired' = Retired
    BY <1>1, <1>2, <1>4, BeginAllocKeeps
  <2>2. PICK l \in {"popRead", "node"} : pc' = [pc EXCEPT ![t] = l]
    BY <1>4 DEF BeginAlloc, Goto
  <2>3. pc[t] = "idle" /\ UNCHANGED <<capacity, size, allocSize, mallocd, live>>
    BY <1>4 DEF BeginAlloc, poolVars, bucketVars
  <2>4. Shifts(pc[t], l, 0, 0, 0)
    BY <2>2, <2>3 DEF Shifts, In, Popped, FreePcs
  <2>5. Counted(0, 0, 0)
    BY <1>3, <2>1, <2>2, <2>3 DEF Counted
  <2> QED
    BY <1>1, <2>1, <2>2, <2>3, <2>4, <2>5, StatisticsShifted
<1>5. ASSUME NEW t \in Threads, ReadTop(t) PROVE Statistics'
  <2>1. Retired' = Retired
    BY <1>1, <1>2, <1>5, ReadTopKeeps
  <2>2. PICK l \in {"malloc", "popNext"} : pc' = [pc EXCEPT ![t] = l]
    BY <1>5 DEF ReadTop, Goto
  <2>3. pc[t] = "popRead" /\ UNCHANGED <<capacity, size, allocSize, mallocd, live>>
    BY <1>5 DEF ReadTop, poolVars, bucketVars
  <2>4. Shifts(pc[t], l, 0, 0, 0)
    BY <2>2, <2>3 DEF Shifts, In, Popped, FreePcs
  <2>5. Counted(0, 0, 0)
    BY <1>3, <2>1, <2>2, <2>3 DEF Counted
  <2> QED
    BY <1>1, <2>1, <2>2, <2>3, <2>4, <2>5, StatisticsShifted
<1>6. ASSUME NEW t \in Threads, ReadNext(t) PROVE Statistics'
  <2>1. Retired' = Retired
    BY <1>1, <1>2, <1>6, ReadNextKeeps
  <2>2. pc[t] = "popNext" /\ pc' = [pc EXCEPT ![t] = "popCas"]
    BY <1>6 DEF ReadNext, Goto
  <2>3. UNCHANGED <<capacity, size, allocSize, mallocd, live>>
    BY <1>6 DEF ReadNext, poolVars, bucketVars
  <2>4. Shifts(pc[t], "popCas", 0, 0, 0)
    BY <2>2 DEF Shifts, In, Popped, FreePcs
  <2>5. Counted(0, 0, 0)
    BY <1>3, <2>1, <2>2, <2>3 DEF Counted
  <2> QED
    BY <1>1, <2>1, <2>2, <2>3, <2>4, <2>5, StatisticsShifted
<1>7. ASSUME NEW t \in Threads, InitBucket(t) PROVE Statistics'
  <2>1. Retired' = Retired
    BY <1>1, <1>2, <1>7, InitBucketKeeps
  <2>2. pc[t] = "init" /\ pc' = [pc EXCEPT ![t] = "take"]
    BY <1>7 DEF InitBucket, Goto
  <2>3. UNCHANGED <<capacity, size, allocSize, mallocd, live>>
    BY <1>7 DEF InitBucket, poolVars, bucketVars
  <2>4. Shifts(pc[t], "take", 0, 0, 0)
    BY <2>2 DEF Shifts, In, Popped, FreePcs
  <2>5. Counted(0, 0, 0)
    BY <1>3, <2>1, <2>2, <2>3 DEF Counted
  <2> QED
    BY <1>1, <2>1, <2>2, <2>3, <2>4, <2>5, StatisticsShifted
<1>8. ASSUME NEW t \in Threads, GetTag(t) PROVE Statistics'
  <2>1. Retired' = Retired
    BY <1>1, <1>2, <1>8, GetTagKeeps
  <2>2. pc[t] = "pushTag" /\ pc' = [pc EXCEPT ![t] = "pushRead"]
    BY <1>8 DEF GetTag, Goto
  <2>3. UNCHANGED <<capacity, size, allocSize, mallocd, live>>
    BY <1>8 DEF GetTag, poolVars, bucketVars
  <2>4. Shifts(pc[t], "pushRead", 0, 0, 0)
    BY <2>2 DEF Shifts, In, Popped, FreePcs
  <2>5. Counted(0, 0, 0)
    BY <1>3, <2>1, <2>2, <2>3 DEF Counted
  <2> QED
    BY <1>1, <2>1, <2>2, <2>3, <2>4, <2>5, StatisticsShifted
<1>9. ASSUME NEW t \in Threads, PushRead(t) PROVE Statistics'
  <2>1. Retired' = Retired
    BY <1>1, <1>2, <1>9, PushReadKeeps
  <2>2. pc[t] = "pushRead" /\ pc' = [pc EXCEPT ![t] = "pushLink"]
    BY <1>9 DEF PushRead, Goto
  <2>3. UNCHANGED <<capacity, size, allocSize, mallocd, live>>
    BY <1>9 DEF PushRead, poolVars, bucketVars
  <2>4. Shifts(pc[t], "pushLink", 0, 0, 0)
    BY <2>2 DEF Shifts, In, Popped, FreePcs
  <2>5. Counted(0, 0, 0)
    BY <1>3, <2>1, <2>2, <2>3 DEF Counted
  <2> QED
    BY <1>1, <2>1, <2>2, <2>3, <2>4, <2>5, StatisticsShifted
<1>10. ASSUME NEW t \in Threads, PushLink(t) PROVE Statistics'
  <2>1. Retired' = Retired
    BY <1>1, <1>2, <1>10, PushLinkKeeps
  <2>2. pc[t] = "pushLink" /\ pc' = [pc EXCEPT ![t] = "pushCas"]
    BY <1>10 DEF PushLink, Goto
  <2>3. UNCHANGED <<capacity, size, allocSize, mallocd, live>>
    BY <1>10 DEF PushLink, poolVars, bucketVars
  <2>4. Shifts(pc[t], "pushCas", 0, 0, 0)
    BY <2>2 DEF Shifts, In, Popped, FreePcs
  <2>5. Counted(0, 0, 0)
    BY <1>3, <2>1, <2>2, <2>3 DEF Counted
  <2> QED
    BY <1>1, <2>1, <2>2, <2>3, <2>4, <2>5, StatisticsShifted
<1>11. ASSUME NEW t \in Threads, PopBucket(t) PROVE Statistics'
  <2>1. UNCHANGED <<capacity, size, allocSize, mallocd, live>> /\ pc[t] = "popCas"
    BY <1>11 DEF PopBucket, bucketVars
  <2>2. CASE metaTop = top[t]
    <3>1. pc' = [pc EXCEPT ![t] = "init"]
      BY <1>11, <2>2 DEF PopBucket, Goto
    <3>2. s[1] \in Retired /\ Retired' = Retired \ {s[1]}
      BY <1>1, <1>2, <1>11, <2>2, PopKeeps
    <3>3. Cardinality(Retired') = Cardinality(Retired) - 1
      BY <1>3, <3>2, FS_RemoveElement
    <3>4. Shifts(pc[t], "init", 0, 1, 0)
      BY <2>1 DEF Shifts, In, Popped, FreePcs
    <3>5. Counted(0, 1, 0)
      BY <1>3, <2>1, <3>1, <3>3 DEF Counted
    <3> QED
      BY <1>1, <3>1, <3>3, <3>4, <3>5, StatisticsShifted
  <2>3. CASE metaTop # top[t]
    <3>1. pc' = [pc EXCEPT ![t] = "popRead"]
      BY <1>11, <2>3 DEF PopBucket, Goto
    <3>2. Retired' = Retired
      BY <1>1, <1>2, <1>11, <2>3, PopRetryKeeps
    <3>4. Shifts(pc[t], "popRead", 0, 0, 0)
      BY <2>1 DEF Shifts, In, Popped, FreePcs
    <3>5. Counted(0, 0, 0)
      BY <1>3, <2>1, <3>1, <3>2 DEF Counted
    <3> QED
      BY <1>1, <3>1, <3>2, <3>4, <3>5, StatisticsShifted
  <2> QED
    BY <2>2, <2>3
<1>12. ASSUME NEW t \in Threads, PushBucket(t) PROVE Statistics'
  <2>1. UNCHANGED <<capacity, size, allocSize, mallocd, live>> /\ pc[t] = "pushCas"
    BY <1>12 DEF PushBucket, bucketVars
  <2>2. CASE metaTop = top[t]
    <3>1. pc' = [pc EXCEPT ![t] = "pushed"]
      BY <1>12, <2>2 DEF PushBucket, Goto
    <3>2. bkt[t] \notin Retired /\ Retired' = Retired \cup {bkt[t]}
      BY <1>1, <1>2, <1>12, <2>2, PushKeeps
    <3>3. Cardinality(Retired') = Cardinality(Retired) + 1
      BY <1>3, <3>2, FS_AddElement
    <3>4. Shifts(pc[t], "pushed", 1, 0, 0)
      BY <2>1 DEF Shifts, In, Popped, FreePcs
    <3>5. Counted(1, 0, 0)
      BY <1>3, <2>1, <3>1, <3>3 DEF Counted
    <3> QED
      BY <1>1, <3>1, <3>3, <3>4, <3>5, StatisticsShifted
  <2>3. CASE metaTop # top[t]
    <3>1. pc' = [pc EXCEPT ![t] = "pushRead"]
      BY <1>12, <2>3 DEF PushBucket, Goto
    <3>2. Retired' = Retired
      BY <1>1, <1>2, <1>12, <2>3, PushRetryKeeps
    <3>4. Shifts(pc[t], "pushRead", 0, 0, 0)
      BY <2>1 DEF Shifts, In, Popped, FreePcs
    <3>5. Counted(0, 0, 0)
      BY <1>3, <2>1, <3>1, <3>2 DEF Counted
    <3> QED
      BY <1>1, <3>1, <3>2, <3>4, <3>5, StatisticsShifted
  <2> QED
    BY <2>2, <2>3
<1>13. ASSUME NEW t \in Threads, MallocBucket(t) PROVE Statistics'
  <2>1. Retired' = Retired
    BY <1>1, <1>2, <1>13, MallocBucketKeeps
  <2>2. /\ pc[t] = "malloc" /\ pc' = [pc EXCEPT ![t] = "node"]
        /\ capacity' = capacity + 1 /\ UNCHANGED <<size, allocSize, live>>
    BY <1>13 DEF MallocBucket, Goto
  <2>3. PICK b \in Buckets \ mallocd : mallocd' = mallocd \cup {b}
    BY <1>13 DEF MallocBucket
  <2>4. Cardinality(mallocd') = Cardinality(mallocd) + 1
    BY <1>3, <2>3, FS_AddElement
  <2>5. Shifts(pc[t], "node", 0, 0, 0)
    BY <2>2 DEF Shifts, In, Popped, FreePcs
  <2>6. Counted(0, 0, 0)
    BY <1>3, <2>1, <2>2, <2>4 DEF Counted
  <2> QED
    BY <1>1, <2>1, <2>2, <2>4, <2>5, <2>6, StatisticsShifted
<1>14. ASSUME NEW t \in Threads, TakeBucket(t) PROVE Statistics'
  <2>1. Retired' = Retired
    BY <1>1, <1>2, <1>14, TakeBucketKeeps
  <2>2. /\ pc[t] = "take" /\ pc' = [pc EXCEPT ![t] = "node"]
        /\ size' = size - 1 /\ UNCHANGED <<capacity, allocSize, mallocd, live>>
    BY <1>14 DEF TakeBucket, Goto, bucketVars
  <2>5. Shifts(pc[t], "node", 0, -1, 0)
    BY <2>2 DEF Shifts, In, Popped, FreePcs
  <2>6. Counted(0, -1, 0)
    BY <1>3, <2>1, <2>2 DEF Counted
  <2> QED
    BY <1>1, <2>1, <2>2, <2>5, <2>6, StatisticsShifted
<1>15. ASSUME NEW t \in Threads, AllocNode(t) PROVE Statistics'
  <2>1. Retired' = Retired /\ <<tls[t], allocCnt[tls[t]]>> \notin live
    BY <1>1, <1>2, <1>15, AllocNodeKeeps
  <2>2. /\ pc[t] = "node" /\ pc' = [pc EXCEPT ![t] = "idle"]
        /\ allocSize' = allocSize + 1 /\ UNCHANGED <<capacity, size, mallocd>>
        /\ live' = live \cup {<<tls[t], allocCnt[tls[t]]>>}
    BY <1>15 DEF AllocNode, Return, Goto
  <2>3. Cardinality(live') = Cardinality(live) + 1
    BY <1>3, <2>1, <2>2, FS_AddElement
  <2>5. Shifts(pc[t], "idle", 0, 0, 0)
    BY <2>2 DEF Shifts, In, Popped, FreePcs
  <2>6. Counted(0, 0, 0)
    BY <1>3, <2>1, <2>2, <2>3 DEF Counted
  <2> QED
    BY <1>1, <2>1, <2>2, <2>3, <2>5, <2>6, StatisticsShifted
<1>16. ASSUME NEW t \in Threads, NEW o \in live, FreeNode(t, o) PROVE Statistics'
  <2>1. Retired' = Retired
    BY <1>1, <1>2, <1>16, FreeNodeKeeps
  <2>2. PICK l \in {"pushTag", "freed"} : pc' = [pc EXCEPT ![t] = l]
    BY <1>16 DEF FreeNode, Goto
  <2>3. /\ pc[t] = "idle" /\ UNCHANGED <<capacity, size, allocSize, mallocd>>
        /\ live' = live \ {o}
    BY <1>16 DEF FreeNode, poolVars
  <2>4. Cardinality(live') = Cardinality(live) - 1
    BY <1>3, <2>3, FS_RemoveElement
  <2>5. Shifts(pc[t], l, 0, 0, 1)
    BY <2>2, <2>3 DEF Shifts, In, Popped, FreePcs
  <2>6. Counted(0, 0, 1)
    BY <1>3, <2>1, <2>2, <2>3, <2>4 DEF Counted
  <2> QED
    BY <1>1, <2>1, <2>2, <2>3, <2>4, <2>5, <2>6, StatisticsShifted
<1>17. ASSUME NEW t \in Threads, IncSize(t) PROVE Statistics'
  <2>1. Retired' = Retired
    BY <1>1, <1>2, <1>17, IncSizeKeeps
  <2>2. /\ pc[t] = "pushed" /\ pc' = [pc EXCEPT ![t] = "freed"]
        /\ size' = size + 1 /\ UNCHANGED <<capacity, allocSize, mallocd, live>>
    BY <1>17 DEF IncSize, Goto, bucketVars
  <2>5. Shifts(pc[t], "freed", -1, 0, 0)
    BY <2>2 DEF Shifts, In, Popped, FreePcs
  <2>6. Counted(-1, 0, 0)
    BY <1>3, <2>1, <2>2 DEF Counted
  <2> QED
    BY <1>1, <2>1, <2>2, <2>5, <2>6, StatisticsShifted
<1>18. ASSUME NEW t \in Threads, EndFree(t) PROVE Statistics'
  <2>1. Retired' = Retired
    BY <1>1, <1>2, <1>18, EndFreeKeeps
  <2>2. /\ pc[t] = "freed" /\ pc' = [pc EXCEPT ![t] = "idle"]
        /\ allocSize' = allocSize - 1 /\ UNCHANGED <<capacity, size, mallocd, live>>
    BY <1>18 DEF EndFree, Return, Goto, bucketVars
  <2>5. Shifts(pc[t], "idle", 0, 0, -1)
    BY <2>2 DEF Shifts, In, Popped, FreePcs
  <2>6. Counted(0, 0, -1)
    BY <1>3, <2>1, <2>2 DEF Counted
  <2> QED
    BY <1>1, <2>1, <2>2, <2>5, <2>6, StatisticsShifted
<1>19. ASSUME UNCHANGED vars PROVE Statistics'
  BY <1>19 DEF Statistics, PcIn, Retired, Holds, vars, poolVars, bucketVars, threadVars
<1> QED
  BY <1>4, <1>5, <1>6, <1>7, <1>8, <1>9, <1>10, <1>11, <1>12, <1>13, <1>14, <1>15, <1>16, <1>17, <1>18, <1>19
     DEF Next, AllocStep, PushStep, FreeStep

LEMMA StatisticsAlways == Spec => []Statistics
<1> QED
  BY InitStatistics, StatisticsStep, StackInvAlways, PTL DEF Spec

LEMMA CountersFromInv == StackInv /\ Statistics => CountersExact
<1> SUFFICES ASSUME StackInv, Statistics PROVE CountersExact
  OBVIOUS
<1>1. Types /\ NodesAccounted
  BY DEF StackInv, PoolInv
<1>2. StatisticsExact
  BY StatisticsSame
<1>3. allocSize \in Nat
  <2>1. Cardinality(live) \in Nat /\ Cardinality(PcIn(FreePcs)) \in Nat
    BY <1>1, SumsFinite, PcCount
  <2> QED
    BY <2>1 DEF Statistics
<1>4. live \subseteq Objects
  BY <1>1 DEF Types, Objects
<1>5. TypeOK
  BY <1>1, <1>3, <1>4 DEF Types, TypeOK
<1> QED
  BY <1>1, <1>2, <1>5 DEF CountersExact

\* For any number of threads and buckets: the counts of a bucket agree with the objects
\* the callers hold, and capacity_, size_ and allocSize_ are exact but for the calls
\* under way.
THEOREM CountersExactAlways == Spec => []CountersExact
<1> QED
  BY StackInvAlways, StatisticsAlways, CountersFromInv, PTL

-------------------------------------------------------------------------------
\* The node a thread is about to hand out is in nobody's hands.
LEMMA NextNodeFree ==
    ASSUME StackInv, NEW t \in Threads, pc[t] = "node"
    PROVE  /\ <<tls[t], allocCnt[tls[t]]>> \in Objects
           /\ <<tls[t], allocCnt[tls[t]]>> \notin live
<1>1. PICK b, n, o : b = tls[t] /\ n = allocCnt[b] /\ o = <<b, n>>
  OBVIOUS
<1>2. PoolInv /\ b # NULL
  BY <1>1 DEF StackInv, PoolInv, ThreadInv
<1>3. b \in mallocd /\ b \in Buckets /\ n < Size /\ n \in 0 .. Size
  BY <1>1, <1>2, OwnBucketNotFull, BucketCounts
<1>4. o \in Objects
  BY <1>1, <1>3, SizeFacts DEF Objects
<1>5. ASSUME o \in live PROVE FALSE
  <2>1. o \in LiveOf(b) /\ o[2] = n
    BY <1>1, <1>5 DEF LiveOf
  <2>2. o[2] < n
    BY <1>1, <1>2, <1>3, <2>1 DEF PoolInv, NodesAccounted
  <2> QED
    BY <1>3, <2>1, <2>2, SizeFacts
<1> QED
  BY <1>1, <1>4, <1>5

LEMMA PoolStep == StackInv /\ [Next]_vars => [Pool!Next]_live
<1> SUFFICES ASSUME StackInv, [Next]_vars PROVE [Pool!Next]_live
  OBVIOUS
<1>1. live \subseteq Objects
  BY DEF StackInv, PoolInv, Types, Objects
<1>2. ASSUME NEW t \in Threads, AllocNode(t) PROVE Pool!Next
  <2>1. PICK o : o = <<tls[t], allocCnt[tls[t]]>>
    OBVIOUS
  <2>2. pc[t] = "node" /\ live' = live \cup {o}
    BY <1>2, <2>1 DEF AllocNode
  <2>3. o \in Objects /\ o \notin live
    BY <2>1, <2>2, NextNodeFree
  <2> QED
    BY <2>2, <2>3 DEF Pool!Next, Pool!Alloc
<1>3. ASSUME NEW t \in Threads, NEW o \in live, FreeNode(t, o) PROVE Pool!Next
  BY <1>1, <1>3 DEF FreeNode, Pool!Next, Pool!Free
<1>4. ASSUME NEW t \in Threads,
             \/ BeginAlloc(t) \/ ReadTop(t) \/ MallocBucket(t) \/ ReadNext(t)
             \/ PopBucket(t) \/ InitBucket(t) \/ TakeBucket(t) \/ PushStep(t) \/ EndFree(t)
      PROVE  UNCHANGED live
  BY <1>4 DEF BeginAlloc, ReadTop, MallocBucket, ReadNext, PopBucket, InitBucket, TakeBucket,
              PushStep, GetTag, PushRead, PushLink, PushBucket, IncSize, EndFree
<1>5. ASSUME UNCHANGED vars PROVE UNCHANGED live
  BY <1>5 DEF vars
<1> QED
  BY <1>2, <1>3, <1>4, <1>5 DEF Next, AllocStep, FreeStep

\* The pool implements ObjectPool for any number of threads, buckets and nodes: nothing
\* is handed out that a caller still holds, and only what a caller holds is taken back.
THEOREM ImplementsObjectPool == Spec => PoolSpec
<1>1. Init => Pool!Init
  BY DEF Init, Pool!Init
<1>2. Spec => Pool!Spec
  BY <1>1, PoolStep, StackInvAlways, PTL DEF Spec, Pool!Spec
<1>3. StackInv /\ [Next]_vars
        => [\A t \in Threads : pc[t] = "node" /\ pc'[t] = "idle"
              => <<tls[t], allocCnt[tls[t]]>> \notin live]_vars
  BY NextNodeFree
<1>4. Spec => NeverAgain
  BY <1>3, StackInvAlways, PTL DEF Spec, NeverAgain
<1> QED
  BY <1>2, <1>4 DEF PoolSpec

===============================================================================
