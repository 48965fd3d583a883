-------------------------- MODULE LockFreeStackProofs --------------------------
(***************************************************************************)
(* The lock-free stack and the lock-free object pool, used together as in  *)
(* module MCLockFreeStack.                                                 *)
(*                                                                         *)
(* Both are the same linked list (List): its nodes are a sequence of       *)
(* distinct nodes; a thread that is pushing or has popped one has it to    *)
(* itself (Owns); and a word a thread has read and will compare is never   *)
(* the word another one is about to put in, so that while it still is at   *)
(* the top, what was read behind it still stands there (Tags).  StackList  *)
(* and PoolList say that for the two structures, with what they count.     *)
(* Parted says who has each object.                                        *)
(***************************************************************************)
EXTENDS MCLockFreeStack, FiniteSetTheorems, TLAPS

\* Induction, as far as it is needed: the provers cannot instantiate a theorem about
\* a predicate, but a set of numbers has a least element.
LEMMA LeastElement ==
    ASSUME NEW N \in Nat, NEW T \in SUBSET (0 .. N), T # {}
    PROVE  \E n \in T : \A m \in T : n <= m
<1> DEFINE Intervals == {0 .. n : n \in T}
           Less      == StrictSubsetOrdering(0 .. N)
<1>1. /\ IsFiniteSet(0 .. N)
      /\ \A n \in T : n \in Nat /\ 0 .. n \in SUBSET (0 .. N)
  BY FS_Interval
<1>2. IsWellFoundedOn(Less, FiniteSubsetsOf(0 .. N))
  BY FS_StrictSubsetOrderingWellFounded
<1>3. Intervals \subseteq FiniteSubsetsOf(0 .. N) /\ Intervals # {}
  <2>1. FiniteSubsetsOf(0 .. N) = SUBSET (0 .. N)
    BY <1>1, FS_FiniteSubsetsOfFinite
  <2>2. ASSUME NEW I \in Intervals PROVE I \in SUBSET (0 .. N)
    <3>1. PICK n \in T : I = 0 .. n
      BY <2>2
    <3> QED
      BY <1>1, <3>1, Zenon
  <2>3. Intervals # {}
    <3>1. PICK n \in T : TRUE
      OBVIOUS
    <3>2. 0 .. n \in Intervals
      BY <3>1
    <3> QED
      BY <3>2
  <2> QED
    BY <2>1, <2>2, <2>3, Zenon
<1>4. \E I \in Intervals : \A J \in Intervals : <<J, I>> \notin Less
  <2> HIDE DEF Less, Intervals
  <2> QED
    BY <1>2, <1>3, WFMin
<1>5. PICK n \in T : \A J \in Intervals : <<J, 0 .. n>> \notin Less
  BY <1>4
<1>6. ASSUME NEW m \in T, m < n PROVE FALSE
  <2>1. /\ 0 .. m \subseteq 0 .. n /\ n \notin 0 .. m /\ n \in 0 .. n
        /\ 0 .. m \in SUBSET (0 .. N) /\ 0 .. n \in SUBSET (0 .. N)
    BY <1>1, <1>6
  <2>2. <<0 .. m, 0 .. n>> \in Less
    BY <2>1 DEF StrictSubsetOrdering
  <2> QED
    BY <1>5, <2>2
<1> QED
  BY <1>1, <1>6

LEMMA SameByInduction ==
    ASSUME NEW N \in Nat, NEW f, NEW g, f[0] = g[0],
           \A n \in 1 .. N : f[n - 1] = g[n - 1] => f[n] = g[n]
    PROVE  \A n \in 0 .. N : f[n] = g[n]
<1> DEFINE T == {n \in 0 .. N : f[n] # g[n]}
<1> SUFFICES ASSUME T # {} PROVE FALSE
  OBVIOUS
<1>1. PICK n \in T : \A m \in T : n <= m
  <2>1. T \in SUBSET (0 .. N)
    OBVIOUS
  <2> HIDE DEF T
  <2> QED
    BY <2>1, LeastElement
<1>2. n \in 1 .. N /\ n - 1 \in 0 .. N /\ n - 1 \notin T
  BY <1>1
<1> QED
  BY <1>1, <1>2

\* A sequence without repetition, and the number of its elements.
LEMMA ElementsCounted ==
    ASSUME NEW S, NEW n \in Nat, NEW f, \A i, j \in 1 .. n : f[i] = f[j] => i = j,
           \A i \in 1 .. n : f[i] \in S, \A x \in S : \E i \in 1 .. n : f[i] = x
    PROVE  Cardinality(S) = n /\ IsFiniteSet(S)
<1> DEFINE g == [i \in 1 .. n |-> f[i]]
<1>1. g \in [1 .. n -> S] /\ \A i \in 1 .. n : g[i] = f[i]
  OBVIOUS
<1> HIDE DEF g
<1>2. g \in Bijection(1 .. n, S)
  BY <1>1 DEF Bijection, Injection, Surjection, IsInjective
<1>3. ExistsBijection(1 .. n, S)
  BY <1>2 DEF ExistsBijection
<1> QED
  BY <1>3, FS_CountingElements, FS_NatBijection

-------------------------------------------------------------------------------
\* The list both structures have: c is what is found along metaNext nx from the word
\* m on.  The threads T are at p, with the words tp and nw in their locals, and o is
\* the node each of them has to itself, or NULL.
Pushes == {"pushRead", "link", "push"}
Looks  == {"next", "pop"}

Words(N) == {m \in MetaAddrs(N) : GetRealAddr(m) = NULL => m = ZeroMeta}

\* The word that leads to the k-th element.
WordTo(c, m, nx, k) == IF k = 1 THEN m ELSE nx[c[k - 1]]

Linked(N, c, m, nx) ==
    /\ c \in Seq(N) /\ m \in Words(N) /\ nx \in [N -> Words(N)]
    /\ \A i, j \in 1 .. Len(c) : c[i] = c[j] => i = j
    /\ \A k \in 1 .. Len(c) : GetRealAddr(WordTo(c, m, nx, k)) = c[k]
    /\ WordTo(c, m, nx, Len(c) + 1) = ZeroMeta

\* A word a thread has read is not one that another is about to put in, and while it
\* is in the list what the thread read behind it is what stands there.
Tags(N, T, c, m, nx, p, tp, nw) ==
    /\ tp \in [T -> Words(N)] /\ nw \in [T -> Words(N)]
    /\ \A u \in T : p[u] \in Looks => GetRealAddr(tp[u]) \in N
    /\ \A u, x \in T : p[u] \in Looks /\ p[x] \in Pushes => nw[x] # tp[u]
    /\ \A u \in T : p[u] = "pop" =>
         \A k \in 1 .. Len(c) : WordTo(c, m, nx, k) = tp[u] => nw[u] = nx[c[k]]
    /\ \A u \in T : p[u] = "push" => nx[GetRealAddr(nw[u])] = tp[u]

Owns(N, T, c, p, nw, o) ==
    /\ \A u \in T : o[u] # NULL => o[u] \in N /\ \A k \in 1 .. Len(c) : c[k] # o[u]
    /\ \A u, x \in T : o[u] # NULL /\ o[u] = o[x] => u = x
    /\ \A u \in T : p[u] \in Pushes => o[u] # NULL /\ o[u] = GetRealAddr(nw[u])

List(N, T, c, m, nx, p, tp, nw, o) ==
    Linked(N, c, m, nx) /\ Tags(N, T, c, m, nx, p, tp, nw) /\ Owns(N, T, c, p, nw, o)

LEMMA Zero ==
    ASSUME NEW N
    PROVE  ZeroMeta \in Words(N) /\ GetRealAddr(ZeroMeta) = NULL
BY CounterAssumption DEF ZeroMeta, GetMetaAddr, GetRealAddr, Words, MetaAddrs, Counters

LEMMA WordMade ==
    ASSUME NEW N, NULL \notin N, NEW i \in Counters, NEW n \in N
    PROVE  GetMetaAddr(i, n) \in Words(N) /\ GetRealAddr(GetMetaAddr(i, n)) = n
BY DEF GetMetaAddr, GetRealAddr, Words, MetaAddrs

LEMMA WordAddress ==
    ASSUME NEW N, NEW m \in Words(N)
    PROVE  (m # ZeroMeta => GetRealAddr(m) \in N) /\ (GetRealAddr(m) # NULL => GetRealAddr(m) \in N)
BY DEF GetRealAddr, Words, MetaAddrs

\* What thread t does alone, without a change of the list: it takes a word from the list,
\* or makes one that nobody else has, or has a node to itself that nobody else has.
Alone(N, T, c, m, nx, p, tp, nw, o, t, p2, tp2, nw2, o2) ==
    /\ tp2 \in [T -> Words(N)] /\ nw2 \in [T -> Words(N)]
    /\ \A u \in T \ {t} : p2[u] = p[u] /\ tp2[u] = tp[u] /\ nw2[u] = nw[u] /\ o2[u] = o[u]
    /\ p2[t] \in Looks => /\ GetRealAddr(tp2[t]) \in N
                          /\ \A u \in T \ {t} : p[u] \in Pushes => nw[u] # tp2[t]
    /\ p2[t] \in Pushes => /\ o2[t] # NULL /\ o2[t] = GetRealAddr(nw2[t])
                           /\ \A u \in T \ {t} : p[u] \in Looks => tp[u] # nw2[t]
    /\ p2[t] = "pop" => \A k \in 1 .. Len(c) : WordTo(c, m, nx, k) = tp2[t] => nw2[t] = nx[c[k]]
    /\ p2[t] = "push" => nx[GetRealAddr(nw2[t])] = tp2[t]
    /\ o2[t] # NULL => /\ o2[t] \in N /\ \A k \in 1 .. Len(c) : c[k] # o2[t]
                       /\ \A u \in T \ {t} : o[u] # o2[t]

LEMMA LocalStep ==
    ASSUME NEW N, NEW T, NEW c, NEW m, NEW nx, NEW p, NEW tp, NEW nw, NEW o,
           List(N, T, c, m, nx, p, tp, nw, o), NEW t \in T, NEW p2, NEW tp2, NEW nw2, NEW o2,
           Alone(N, T, c, m, nx, p, tp, nw, o, t, p2, tp2, nw2, o2)
    PROVE  List(N, T, c, m, nx, p2, tp2, nw2, o2)
<1>1. ~(p2[t] \in Looks /\ p2[t] \in Pushes)
  BY DEF Looks, Pushes
<1>2. Tags(N, T, c, m, nx, p2, tp2, nw2)
  <2>1. \A u \in T : p2[u] \in Looks => GetRealAddr(tp2[u]) \in N
    BY DEF Alone, List, Tags
  <2>2. \A u, x \in T : p2[u] \in Looks /\ p2[x] \in Pushes => nw2[x] # tp2[u]
    BY <1>1 DEF Alone, List, Tags
  <2>3. \A u \in T : p2[u] = "pop" =>
          \A k \in 1 .. Len(c) : WordTo(c, m, nx, k) = tp2[u] => nw2[u] = nx[c[k]]
    BY DEF Alone, List, Tags
  <2>4. \A u \in T : p2[u] = "push" => nx[GetRealAddr(nw2[u])] = tp2[u]
    BY DEF Alone, List, Tags
  <2> QED
    BY <2>1, <2>2, <2>3, <2>4 DEF Alone, Tags
<1>3. Owns(N, T, c, p2, nw2, o2)
  BY DEF Alone, List, Owns
<1> QED
  BY <1>2, <1>3 DEF List

\* The next word of a node that is not in the list is written.
LEMMA Rewritten ==
    ASSUME NEW N, NEW T, NEW c, NEW m, NEW nx, NEW p, NEW tp, NEW nw, NEW o,
           List(N, T, c, m, nx, p, tp, nw, o),
           NEW n \in N, NEW w \in Words(N), \A k \in 1 .. Len(c) : c[k] # n,
           \A u \in T : p[u] = "push" => GetRealAddr(nw[u]) # n
    PROVE  List(N, T, c, m, [nx EXCEPT ![n] = w], p, tp, nw, o)
<1>1. PICK nx2 : nx2 = [nx EXCEPT ![n] = w]
  OBVIOUS
<1>2. /\ nx2 \in [N -> Words(N)] /\ \A i \in N \ {n} : nx2[i] = nx[i]
      /\ c \in Seq(N) /\ Len(c) \in Nat
  BY <1>1 DEF List, Linked
<1>3. \A k \in 1 .. Len(c) : nx2[c[k]] = nx[c[k]]
  BY <1>2
<1>4. \A k \in 1 .. Len(c) + 1 : WordTo(c, m, nx2, k) = WordTo(c, m, nx, k)
  <2> TAKE k \in 1 .. Len(c) + 1
  <2>1. k = 1 \/ k - 1 \in 1 .. Len(c)
    BY <1>2
  <2> QED
    BY <1>3, <2>1 DEF WordTo
<1>5. /\ \A k \in 1 .. Len(c) : WordTo(c, m, nx2, k) = WordTo(c, m, nx, k)
      /\ WordTo(c, m, nx2, Len(c) + 1) = WordTo(c, m, nx, Len(c) + 1)
  <2>1. Len(c) + 1 \in 1 .. Len(c) + 1 /\ \A k \in 1 .. Len(c) : k \in 1 .. Len(c) + 1
    BY <1>2
  <2> QED
    BY <1>4, <2>1
<1>6. Linked(N, c, m, nx2)
  BY <1>2, <1>5 DEF List, Linked
<1>7. Tags(N, T, c, m, nx2, p, tp, nw)
  <2>1. \A u \in T : p[u] = "push" => GetRealAddr(nw[u]) \in N /\ nx2[GetRealAddr(nw[u])] = tp[u]
    BY <1>2 DEF List, Tags, Owns, Pushes
  <2> QED
    BY <1>3, <1>5, <2>1 DEF List, Tags
<1> QED
  BY <1>1, <1>6, <1>7 DEF List

LEMMA TailFacts ==
    ASSUME NEW N, NEW c \in Seq(N), NEW L \in Nat, Len(c) = L + 1
    PROVE  /\ Tail(c) \in Seq(N) /\ Len(Tail(c)) = L /\ Head(c) = c[1] /\ c[1] \in N
           /\ \A k \in 1 .. L : Tail(c)[k] = c[k + 1]
OBVIOUS

\* The CAS of a Pop that succeeds takes the first element out.
LEMMA PopTakes ==
    ASSUME NEW N, NEW T, NEW c, NEW m, NEW nx, NEW p, NEW tp, NEW nw, NEW o,
           List(N, T, c, m, nx, p, tp, nw, o), NULL \notin N,
           NEW t \in T, p[t] = "pop", tp[t] = m
    PROVE  /\ c # <<>> /\ c[1] = GetRealAddr(m)
           /\ List(N, T, Tail(c), nw[t], nx, p, tp, nw, o)
           /\ \A k \in 1 .. Len(Tail(c)) : Tail(c)[k] # c[1]
<1>1. /\ c \in Seq(N) /\ Len(c) \in Nat /\ GetRealAddr(m) \in N /\ m # ZeroMeta
      /\ nw[t] \in Words(N)
  BY Zero DEF List, Linked, Tags, Looks
<1>2. Len(c) # 0
  <2> SUFFICES ASSUME Len(c) = 0 PROVE FALSE
    OBVIOUS
  <2> QED
    BY <1>1 DEF List, Linked, WordTo
<1>3. PICK L \in Nat : Len(c) = L + 1
  <2>1. Len(c) - 1 \in Nat /\ Len(c) = (Len(c) - 1) + 1
    BY <1>1, <1>2
  <2> QED
    BY <2>1
<1>4. PICK d \in Seq(N) : d = Tail(c) /\ Len(d) = L /\ \A k \in 1 .. L : d[k] = c[k + 1]
  BY <1>1, <1>3, TailFacts
<1>5. c[1] = GetRealAddr(m)
  <2>1. 1 \in 1 .. Len(c)
    BY <1>3
  <2> QED
    BY <2>1 DEF List, Linked, WordTo
<1>6. nw[t] = nx[c[1]]
  <2>1. 1 \in 1 .. Len(c) /\ WordTo(c, m, nx, 1) = tp[t]
    BY <1>3 DEF WordTo
  <2> QED
    BY <2>1 DEF List, Tags
<1>7. \A k \in 1 .. L + 1 : WordTo(d, nw[t], nx, k) = WordTo(c, m, nx, k + 1)
  <2> TAKE k \in 1 .. L + 1
  <2>1. k + 1 # 1 /\ (k + 1) - 1 = k /\ (k = 1 \/ (k - 1 \in 1 .. L /\ (k - 1) + 1 = k))
    BY <1>3
  <2> QED
    BY <1>4, <1>6, <2>1 DEF WordTo
<1>8. \A k \in 1 .. L : /\ k \in 1 .. L + 1 /\ k + 1 \in 1 .. Len(c) /\ d[k] = c[k + 1]
                        /\ WordTo(d, nw[t], nx, k) = WordTo(c, m, nx, k + 1)
  <2>1. \A k \in 1 .. L : k \in 1 .. L + 1 /\ k + 1 \in 1 .. Len(c)
    BY <1>3
  <2> QED
    BY <1>4, <1>7, <2>1
<1>9. Linked(N, d, nw[t], nx)
  <2>1. \A i, j \in 1 .. L : d[i] = d[j] => i = j
    <3> SUFFICES ASSUME NEW i \in 1 .. L, NEW j \in 1 .. L, d[i] = d[j] PROVE i = j
      OBVIOUS
    <3>1. i + 1 = j + 1
      BY <1>8 DEF List, Linked
    <3> QED
      BY <3>1
  <2>2. \A k \in 1 .. L : GetRealAddr(WordTo(d, nw[t], nx, k)) = d[k]
    BY <1>8 DEF List, Linked
  <2>3. WordTo(d, nw[t], nx, L + 1) = ZeroMeta
    <3>1. L + 1 \in 1 .. L + 1 /\ (L + 1) + 1 = Len(c) + 1
      BY <1>3
    <3> QED
      BY <1>7, <3>1 DEF List, Linked
  <2> QED
    BY <1>1, <1>4, <2>1, <2>2, <2>3 DEF List, Linked
<1>10. Tags(N, T, d, nw[t], nx, p, tp, nw)
  BY <1>4, <1>8 DEF List, Tags
<1>11. Owns(N, T, d, p, nw, o)
  BY <1>4, <1>8 DEF List, Owns
<1>12. \A k \in 1 .. L : d[k] # c[1]
  <2>1. \A k \in 1 .. L : k + 1 # 1 /\ k + 1 \in 1 .. Len(c) /\ 1 \in 1 .. Len(c)
    BY <1>3
  <2> QED
    BY <1>8, <2>1 DEF List, Linked
<1>13. c # <<>>
  BY <1>2
<1> QED
  BY <1>4, <1>5, <1>9, <1>10, <1>11, <1>12, <1>13 DEF List

LEMMA ConsFacts ==
    ASSUME NEW N, NEW c \in Seq(N), NEW L \in Nat, Len(c) = L, NEW n \in N
    PROVE  /\ <<n>> \o c \in Seq(N) /\ Len(<<n>> \o c) = L + 1 /\ (<<n>> \o c)[1] = n
           /\ \A k \in 2 .. L + 1 : (<<n>> \o c)[k] = c[k - 1]
<1>1. <<n>> \in Seq(N) /\ Len(<<n>>) = 1 /\ <<n>>[1] = n
  OBVIOUS
<1>2. PICK s \in Seq(N) : s = <<n>> /\ Len(s) = 1 /\ s[1] = n
  BY <1>1
<1>3. s \o c \in Seq(N) /\ Len(s \o c) = 1 + L /\ 1 + L = L + 1
  BY <1>2
<1>4. (s \o c)[1] = n /\ \A k \in 2 .. L + 1 : (s \o c)[k] = c[k - 1]
  BY <1>2
<1> QED
  BY <1>2, <1>3, <1>4

\* The CAS of a Push that succeeds puts its node first.
LEMMA PushPuts ==
    ASSUME NEW N, NEW T, NEW c, NEW m, NEW nx, NEW p, NEW tp, NEW nw, NEW o,
           List(N, T, c, m, nx, p, tp, nw, o), NULL \notin N,
           NEW t \in T, p[t] = "push", tp[t] = m,
           NEW p2, NEW o2,
           \A u \in T \ {t} : p2[u] = p[u] /\ o2[u] = o[u],
           p2[t] = "pushed", o2[t] = NULL
    PROVE  List(N, T, <<GetRealAddr(nw[t])>> \o c, nw[t], nx, p2, tp, nw, o2)
<1>1. PICK n \in N : n = GetRealAddr(nw[t]) /\ n = o[t] /\ nx[n] = m
  BY DEF List, Tags, Owns, Pushes
<1>2. PICK L \in Nat : c \in Seq(N) /\ L = Len(c) /\ nw[t] \in Words(N)
  BY DEF List, Linked, Tags
<1>3. PICK d \in Seq(N) : /\ d = <<n>> \o c /\ Len(d) = L + 1 /\ d[1] = n
                          /\ \A k \in 2 .. L + 1 : d[k] = c[k - 1]
  <2>1. /\ <<n>> \o c \in Seq(N) /\ Len(<<n>> \o c) = L + 1 /\ (<<n>> \o c)[1] = n
        /\ \A k \in 2 .. L + 1 : (<<n>> \o c)[k] = c[k - 1]
    BY <1>2, ConsFacts
  <2> QED
    BY <2>1
<1>4. \A k \in 1 .. L : k + 1 \in 2 .. L + 1 /\ d[k + 1] = c[k] /\ c[k] # n
  <2>1. \A k \in 1 .. L : k + 1 \in 2 .. L + 1 /\ (k + 1) - 1 = k
    BY <1>2
  <2> QED
    BY <1>1, <1>2, <1>3, <2>1 DEF List, Owns
<1>5. \A k \in 1 .. L + 1 : k = 1 \/ (k - 1 \in 1 .. L /\ (k - 1) + 1 = k)
  BY <1>2
<1>6. WordTo(d, nw[t], nx, 1) = nw[t] /\ WordTo(d, nw[t], nx, 2) = m
  BY <1>1, <1>3 DEF WordTo
<1>7. \A k \in 1 .. L + 1 : WordTo(d, nw[t], nx, k + 1) = WordTo(c, m, nx, k)
  <2> TAKE k \in 1 .. L + 1
  <2>1. CASE k = 1
    BY <1>6, <2>1 DEF WordTo
  <2>2. CASE k # 1
    <3>1. k - 1 \in 1 .. L /\ d[k] = c[k - 1] /\ k + 1 # 1 /\ (k + 1) - 1 = k
      BY <1>2, <1>3, <2>2
    <3> QED
      BY <2>2, <3>1 DEF WordTo
  <2> QED
    BY <2>1, <2>2
<1>8. Linked(N, d, nw[t], nx)
  <2>1. \A i, j \in 1 .. L + 1 : d[i] = d[j] => i = j
    <3> SUFFICES ASSUME NEW i \in 1 .. L + 1, NEW j \in 1 .. L + 1, d[i] = d[j] PROVE i = j
      OBVIOUS
    <3>1. CASE i = 1 \/ j = 1
      BY <1>3, <1>4, <1>5, <3>1
    <3>2. CASE i # 1 /\ j # 1
      <4>1. i - 1 \in 1 .. L /\ j - 1 \in 1 .. L /\ c[i - 1] = c[j - 1]
        BY <1>4, <1>5, <3>2
      <4>2. i - 1 = j - 1
        BY <1>2, <4>1 DEF List, Linked
      <4> QED
        BY <4>2
    <3> QED
      BY <3>1, <3>2
  <2>2. \A k \in 1 .. L + 1 : GetRealAddr(WordTo(d, nw[t], nx, k)) = d[k]
    <3> TAKE k \in 1 .. L + 1
    <3>1. CASE k = 1
      BY <1>1, <1>3, <1>6, <3>1
    <3>2. CASE k # 1
      <4>1. k - 1 \in 1 .. L /\ (k - 1) + 1 = k /\ k - 1 \in 1 .. L + 1
        BY <1>2, <3>2
      <4>2. WordTo(d, nw[t], nx, k) = WordTo(c, m, nx, k - 1) /\ d[k] = c[k - 1]
        BY <1>4, <1>7, <4>1
      <4> QED
        BY <1>2, <4>1, <4>2 DEF List, Linked
    <3> QED
      BY <3>1, <3>2
  <2>3. WordTo(d, nw[t], nx, (L + 1) + 1) = ZeroMeta
    <3>1. L + 1 \in 1 .. L + 1
      BY <1>2
    <3> QED
      BY <1>2, <1>7, <3>1 DEF List, Linked
  <2> QED
    BY <1>2, <1>3, <2>1, <2>2, <2>3 DEF List, Linked
<1>9. Tags(N, T, d, nw[t], nx, p2, tp, nw)
  <2>1. \A u \in T : p2[u] \in Looks \/ p2[u] \in Pushes => u # t /\ p2[u] = p[u]
    BY DEF Looks, Pushes
  <2>2. ASSUME NEW u \in T, p2[u] = "pop", NEW k \in 1 .. Len(d), WordTo(d, nw[t], nx, k) = tp[u]
        PROVE  nw[u] = nx[d[k]]
    <3>1. p[u] = "pop" /\ tp[u] # nw[t]
      BY <2>1, <2>2 DEF Looks, Pushes, List, Tags
    <3>2. k - 1 \in 1 .. L /\ (k - 1) + 1 = k /\ k - 1 \in 1 .. L + 1
      <4>1. k # 1
        BY <1>6, <2>2, <3>1
      <4> QED
        BY <1>2, <1>3, <2>2, <4>1
    <3>3. WordTo(c, m, nx, k - 1) = tp[u] /\ d[k] = c[k - 1]
      BY <1>4, <1>7, <2>2, <3>2
    <3> QED
      BY <1>2, <3>1, <3>2, <3>3 DEF List, Tags
  <2>3. \A u \in T : p2[u] = "push" => nx[GetRealAddr(nw[u])] = tp[u]
    BY <2>1 DEF Pushes, List, Tags
  <2>4. /\ \A u \in T : p2[u] \in Looks => GetRealAddr(tp[u]) \in N
        /\ \A u, x \in T : p2[u] \in Looks /\ p2[x] \in Pushes => nw[x] # tp[u]
    BY <2>1 DEF List, Tags
  <2> QED
    BY <2>2, <2>3, <2>4 DEF List, Tags
<1>10. Owns(N, T, d, p2, nw, o2)
  <2>1. ASSUME NEW u \in T, o2[u] # NULL, NEW k \in 1 .. Len(d)
        PROVE  d[k] # o2[u]
    <3>1. u # t /\ o2[u] = o[u] /\ o[u] # n
      BY <1>1, <2>1 DEF List, Owns
    <3>2. CASE k = 1
      BY <1>3, <3>1, <3>2
    <3>3. CASE k # 1
      <4>1. k - 1 \in 1 .. L /\ d[k] = c[k - 1]
        BY <1>3, <1>4, <1>5, <3>3
      <4> QED
        BY <1>2, <2>1, <3>1, <4>1 DEF List, Owns
    <3> QED
      BY <3>2, <3>3
  <2>2. \A u \in T : o2[u] # NULL => u # t
    OBVIOUS
  <2>3. \A u \in T : p2[u] \in Pushes => u # t
    BY DEF Pushes
  <2> QED
    BY <2>1, <2>2, <2>3 DEF List, Owns
<1> QED
  BY <1>1, <1>3, <1>8, <1>9, <1>10 DEF List

\* The number of threads that are at one of these places.
CountAt(T, p, labels) == Cardinality({u \in T : p[u] \in labels})

LEMMA CountMoves ==
    ASSUME NEW T, IsFiniteSet(T), NEW t \in T, NEW p, NEW p2, NEW labels,
           \A u \in T \ {t} : p2[u] = p[u]
    PROVE  \E a, b \in Nat, i, j \in {0, 1} :
             /\ a = CountAt(T, p, labels) /\ b = CountAt(T, p2, labels)
             /\ b = a + j - i /\ (i = 1 <=> p[t] \in labels) /\ (j = 1 <=> p2[t] \in labels)
<1>1. PICK A, B : A = {u \in T : p[u] \in labels} /\ B = {u \in T : p2[u] \in labels}
  OBVIOUS
<1>2. IsFiniteSet(A) /\ IsFiniteSet(B)
  <2>1. A \in SUBSET T /\ B \in SUBSET T
    BY <1>1
  <2> QED
    BY <2>1, FS_Subset
<1>3. Cardinality(A) \in Nat /\ Cardinality(B) \in Nat
  BY <1>2, FS_CardinalityType
<1>4. A \ {t} = B \ {t} /\ (t \in A <=> p[t] \in labels) /\ (t \in B <=> p2[t] \in labels)
  BY <1>1
<1>5. /\ Cardinality(A \ {t}) = IF t \in A THEN Cardinality(A) - 1 ELSE Cardinality(A)
      /\ Cardinality(B \ {t}) = IF t \in B THEN Cardinality(B) - 1 ELSE Cardinality(B)
  BY <1>2, FS_RemoveElement
<1>6. PICK a \in Nat, b \in Nat : a = Cardinality(A) /\ b = Cardinality(B)
  BY <1>3
<1>7. (IF p[t] \in labels THEN a - 1 ELSE a) = (IF p2[t] \in labels THEN b - 1 ELSE b)
  BY <1>4, <1>5, <1>6
<1>8. PICK i \in {0, 1}, j \in {0, 1} : (i = 1 <=> p[t] \in labels) /\ (j = 1 <=> p2[t] \in labels)
  OBVIOUS
<1>9. b = a + j - i
  BY <1>7, <1>8
<1>10. a = CountAt(T, p, labels) /\ b = CountAt(T, p2, labels)
  BY <1>1, <1>6 DEF CountAt
<1> QED
  BY <1>8, <1>9, <1>10

-------------------------------------------------------------------------------
\* The stack: the node a thread has to itself, and what is known about all of it.
Labels == {"idle", "tag", "pushRead", "link", "push", "pushed", "read", "next", "pop",
           "take", "taken"}
Building == {"tag", "pushRead", "link", "push"}

NodeOf(l, nw, tp) ==
    IF l \in Building THEN GetRealAddr(nw) ELSE IF l = "take" THEN GetRealAddr(tp) ELSE NULL

Own == [t \in Threads |-> NodeOf(pc[t], new[t], top[t])]

StackTypes ==
    /\ metaCnt \in Counters /\ num \in Int /\ inUse \in SUBSET Nodes
    /\ data \in [Nodes -> Values \cup {NoValue}]
    /\ pc \in [Threads -> Labels] /\ val \in [Threads -> Values \cup {NoValue}]

\* A node out of the pool is in the list or some thread's own, and holds a value.
Held(c) ==
    /\ \A k \in 1 .. Len(c) : c[k] \in inUse
    /\ \A t \in Threads : Own[t] # NULL => Own[t] \in inUse
    /\ \A n \in inUse : (\E k \in 1 .. Len(c) : c[k] = n) \/ (\E t \in Threads : Own[t] = n)
    /\ \A n \in inUse : data[n] \in Values
    /\ \A t \in Threads : pc[t] \in Building \cup {"take"} => Own[t] # NULL
    /\ \A t \in Threads : pc[t] = "taken" => val[t] \in Values

Counted(c) ==
    num = Len(c) + CountAt(Threads, pc, {"take", "taken"}) - CountAt(Threads, pc, {"pushed"})

StackList(c) ==
    /\ StackTypes
    /\ List(Nodes, Threads, c, metaTop, metaNext, pc, top, new, Own)
    /\ Held(c)
    /\ Counted(c)

\* A thread moves on while the list is d and the word of m and nx are as they will be.
LEMMA Steps ==
    ASSUME StackTypes, NEW t \in Threads, NEW l \in Labels, Goto(t, l),
           NEW d, List(Nodes, Threads, d, metaTop', metaNext', pc, top, new, Own),
           top' \in [Threads -> Words(Nodes)], new' \in [Threads -> Words(Nodes)],
           \A u \in Threads \ {t} : top'[u] = top[u] /\ new'[u] = new[u],
           l \in Looks => /\ GetRealAddr(top'[t]) \in Nodes
                          /\ \A u \in Threads \ {t} : pc[u] \in Pushes => new[u] # top'[t],
           l \in Pushes => /\ GetRealAddr(new'[t]) # NULL
                           /\ \A u \in Threads \ {t} : pc[u] \in Looks => top[u] # new'[t],
           l = "pop" => \A k \in 1 .. Len(d) :
                          WordTo(d, metaTop', metaNext', k) = top'[t] => new'[t] = metaNext'[d[k]],
           l = "push" => metaNext'[GetRealAddr(new'[t])] = top'[t],
           \/ NodeOf(l, new'[t], top'[t]) \in {NULL, Own[t]}
           \/ /\ NodeOf(l, new'[t], top'[t]) \in Nodes
              /\ \A k \in 1 .. Len(d) : d[k] # NodeOf(l, new'[t], top'[t])
              /\ \A u \in Threads \ {t} : Own[u] # NodeOf(l, new'[t], top'[t])
    PROVE  /\ pc' \in [Threads -> Labels] /\ pc'[t] = l
           /\ \A u \in Threads \ {t} : pc'[u] = pc[u] /\ Own'[u] = Own[u]
           /\ Own'[t] = NodeOf(l, new'[t], top'[t])
           /\ List(Nodes, Threads, d, metaTop', metaNext', pc', top', new', Own')
<1>1. pc' \in [Threads -> Labels] /\ pc'[t] = l /\ \A u \in Threads \ {t} : pc'[u] = pc[u]
  BY DEF Goto, StackTypes
<1>2. /\ \A u \in Threads \ {t} : Own'[u] = Own[u]
      /\ Own'[t] = NodeOf(l, new'[t], top'[t])
  BY <1>1 DEF Own
<1>3. PICK o, o2 : o = Own /\ o2 = Own'
  OBVIOUS
<1>4. o2[t] # NULL => /\ o2[t] \in Nodes /\ \A k \in 1 .. Len(d) : d[k] # o2[t]
                      /\ \A u \in Threads \ {t} : o[u] # o2[t]
  BY <1>2, <1>3 DEF List, Owns
<1>5. l \in Pushes => o2[t] # NULL /\ o2[t] = GetRealAddr(new'[t])
  BY <1>2, <1>3 DEF Pushes, NodeOf, Building
<1>6. List(Nodes, Threads, d, metaTop', metaNext', pc', top', new', o2)
  <2>1. PICK m, nx, p, tp, nw, p2, tp2, nw2 :
          /\ m = metaTop' /\ nx = metaNext' /\ p = pc /\ tp = top /\ nw = new
          /\ p2 = pc' /\ tp2 = top' /\ nw2 = new'
    OBVIOUS
  <2>2. /\ List(Nodes, Threads, d, m, nx, p, tp, nw, o)
        /\ Alone(Nodes, Threads, d, m, nx, p, tp, nw, o, t, p2, tp2, nw2, o2)
    BY <1>1, <1>2, <1>3, <1>4, <1>5, <2>1 DEF Alone
  <2>3. List(Nodes, Threads, d, m, nx, p2, tp2, nw2, o2)
    BY <2>2, LocalStep
  <2> QED
    BY <2>1, <2>3
<1> QED
  BY <1>1, <1>2, <1>3, <1>6

\* What a thread adds to the difference between num_ and the length of the list.
Weight(l) == IF l \in {"take", "taken"} THEN 1 ELSE IF l = "pushed" THEN -1 ELSE 0

LEMMA NumKept ==
    ASSUME NEW c \in Seq(Nodes), NEW d \in Seq(Nodes), Counted(c), num \in Int, NEW t \in Threads,
           \A u \in Threads \ {t} : pc'[u] = pc[u],
           num' = num + (Len(d) - Len(c)) + (Weight(pc'[t]) - Weight(pc[t]))
    PROVE  Counted(d)'
<1>1. PICK a, a2 \in Nat, i, i2 \in {0, 1} :
        /\ a = CountAt(Threads, pc, {"take", "taken"}) /\ a2 = CountAt(Threads, pc', {"take", "taken"})
        /\ a2 = a + i2 - i
        /\ (i = 1 <=> pc[t] \in {"take", "taken"}) /\ (i2 = 1 <=> pc'[t] \in {"take", "taken"})
  BY CountMoves, StackAssumption
<1>2. PICK b, b2 \in Nat, j, j2 \in {0, 1} :
        /\ b = CountAt(Threads, pc, {"pushed"}) /\ b2 = CountAt(Threads, pc', {"pushed"})
        /\ b2 = b + j2 - j
        /\ (j = 1 <=> pc[t] \in {"pushed"}) /\ (j2 = 1 <=> pc'[t] \in {"pushed"})
  BY CountMoves, StackAssumption
<1>3. Weight(pc[t]) = i - j /\ Weight(pc'[t]) = i2 - j2
  BY <1>1, <1>2 DEF Weight
<1>4. PICK L \in Nat, M \in Nat, n \in Int : L = Len(c) /\ M = Len(d) /\ n = num /\ n = L + a - b
  <2>1. num = Len(c) + a - b
    BY <1>1, <1>2 DEF Counted
  <2>2. Len(c) \in Nat /\ Len(d) \in Nat
    OBVIOUS
  <2> QED
    BY <2>1, <2>2
<1>5. num' = n + (M - L) + ((i2 - j2) - (i - j))
  BY <1>3, <1>4
<1>6. num' = M + a2 - b2
  <2>1. n = L + a - b /\ a2 = a + i2 - i /\ b2 = b + j2 - j
    BY <1>1, <1>2, <1>4
  <2> QED
    BY <1>5, <2>1
<1> QED
  BY <1>1, <1>2, <1>4, <1>6 DEF Counted

\* A step that leaves the list and all nodes where they are.
LEMMA SameHolders ==
    ASSUME NEW c, StackList(c), NEW t \in Threads,
           List(Nodes, Threads, c, metaTop', metaNext', pc', top', new', Own'),
           pc' \in [Threads -> Labels], \A u \in Threads \ {t} : pc'[u] = pc[u],
           \A u \in Threads : Own'[u] = Own[u],
           metaCnt' \in Counters, UNCHANGED <<inUse, data>>, pc'[t] \notin {"tag", "take", "taken"},
           val' = val \/ val' = [val EXCEPT ![t] = NoValue],
           num' = num + (Weight(pc'[t]) - Weight(pc[t]))
    PROVE  StackList(c)'
<1>1. /\ StackTypes /\ c \in Seq(Nodes) /\ Weight(pc'[t]) \in Int /\ Weight(pc[t]) \in Int
      /\ num \in Int /\ Counted(c)
  BY DEF StackList, StackTypes, Weight, List, Linked
<1>2. StackTypes'
  BY <1>1 DEF StackTypes
<1>3. Held(c)'
  <2>1. \A u \in Threads : pc'[u] \in Building \cup {"take"} => Own'[u] # NULL
    BY DEF StackList, List, Owns, Held, Pushes, Building, Own, NodeOf
  <2>2. \A u \in Threads : pc'[u] = "taken" => val'[u] \in Values
    BY DEF StackList, StackTypes, Held
  <2> QED
    BY <2>1, <2>2 DEF StackList, Held
<1>4. Counted(c)'
  <2>1. num' = num + (Len(c) - Len(c)) + (Weight(pc'[t]) - Weight(pc[t]))
    BY <1>1
  <2> QED
    BY <1>1, <2>1, NumKept
<1> QED
  BY <1>2, <1>3, <1>4 DEF StackList

LEMMA StackFacts ==
    ASSUME NEW c, StackList(c)
    PROVE  /\ StackTypes /\ List(Nodes, Threads, c, metaTop, metaNext, pc, top, new, Own)
           /\ c \in Seq(Nodes) /\ Len(c) \in Nat /\ NULL \notin Nodes
           /\ metaTop \in Words(Nodes) /\ metaNext \in [Nodes -> Words(Nodes)]
           /\ top \in [Threads -> Words(Nodes)] /\ new \in [Threads -> Words(Nodes)]
           /\ \A t \in Threads :
                /\ Own[t] = NodeOf(pc[t], new[t], top[t])
                /\ pc[t] \in Building => Own[t] = GetRealAddr(new[t]) /\ Own[t] # NULL
                /\ pc[t] = "take" => Own[t] = GetRealAddr(top[t]) /\ Own[t] # NULL
                /\ pc[t] \notin Building \cup {"take"} => Own[t] = NULL
                /\ Own[t] # NULL => Own[t] \in Nodes /\ \A k \in 1 .. Len(c) : c[k] # Own[t]
           /\ metaTop # ZeroMeta => 1 \in 1 .. Len(c) /\ c[1] = GetRealAddr(metaTop)
<1>1. metaTop # ZeroMeta => 1 \in 1 .. Len(c) /\ c[1] = GetRealAddr(metaTop)
  <2> SUFFICES ASSUME metaTop # ZeroMeta PROVE 1 \in 1 .. Len(c) /\ c[1] = GetRealAddr(metaTop)
    OBVIOUS
  <2>1. c \in Seq(Nodes) /\ Len(c) \in Nat
    BY DEF StackList, List, Linked
  <2>2. Len(c) # 0
    BY <2>1 DEF StackList, List, Linked, WordTo
  <2>3. 1 \in 1 .. Len(c)
    BY <2>1, <2>2
  <2> QED
    BY <2>3 DEF StackList, List, Linked, WordTo
<1>2. \A t \in Threads :
        /\ Own[t] = NodeOf(pc[t], new[t], top[t])
        /\ pc[t] \in Building => Own[t] = GetRealAddr(new[t]) /\ Own[t] # NULL
        /\ pc[t] = "take" => Own[t] = GetRealAddr(top[t]) /\ Own[t] # NULL
        /\ pc[t] \notin Building \cup {"take"} => Own[t] = NULL
        /\ Own[t] # NULL => Own[t] \in Nodes /\ \A k \in 1 .. Len(c) : c[k] # Own[t]
  BY DEF StackList, List, Owns, Held, Own, NodeOf, Building
<1> QED
  BY <1>1, <1>2, StackAssumption DEF StackList, List, Linked, Tags

\* A word in the list leads to a node of the list, which no thread has to itself.
LEMMA ReadTopKeeps ==
    ASSUME NEW c, StackList(c), NEW t \in Threads, ReadTop(t)
    PROVE  StackList(c)'
<1>1. /\ pc[t] \in {"idle", "read"} /\ top' = [top EXCEPT ![t] = metaTop]
      /\ UNCHANGED <<metaTop, metaCnt, num, data, metaNext, inUse, new, val>>
  BY DEF ReadTop, stackVars, nodeVars
<1>2. PICK l \in {"idle", "next"} : Goto(t, l) /\ (l = "next" => metaTop # ZeroMeta)
  BY DEF ReadTop
<1>3. /\ StackTypes /\ List(Nodes, Threads, c, metaTop', metaNext', pc, top, new, Own)
      /\ top' \in [Threads -> Words(Nodes)] /\ new' \in [Threads -> Words(Nodes)]
      /\ \A u \in Threads \ {t} : top'[u] = top[u] /\ new'[u] = new[u]
      /\ top'[t] = metaTop /\ new'[t] = new[t] /\ Own[t] = NULL /\ l \in Labels
  BY <1>1, <1>2, StackFacts DEF Building, Labels
<1>4. l \in Looks => /\ GetRealAddr(top'[t]) \in Nodes
                     /\ \A u \in Threads \ {t} : pc[u] \in Pushes => new[u] # top'[t]
  BY <1>2, <1>3, StackFacts DEF Looks, Pushes, Building
<1>5. NodeOf(l, new'[t], top'[t]) = NULL /\ l \notin Pushes /\ l # "pop" /\ l # "push"
  BY <1>2 DEF NodeOf, Building, Pushes
<1>6. /\ pc' \in [Threads -> Labels] /\ pc'[t] = l
      /\ \A u \in Threads \ {t} : pc'[u] = pc[u] /\ Own'[u] = Own[u]
      /\ Own'[t] = NULL
      /\ List(Nodes, Threads, c, metaTop', metaNext', pc', top', new', Own')
  BY <1>2, <1>3, <1>4, <1>5, Steps
<1>7. metaCnt' \in Counters /\ num' = num + (Weight(pc'[t]) - Weight(pc[t]))
  BY <1>1, <1>2, <1>3, <1>6 DEF StackTypes, Weight
<1>8. pc'[t] \notin {"tag", "take", "taken"} /\ \A u \in Threads : Own'[u] = Own[u]
  BY <1>2, <1>3, <1>6
<1> QED
  BY <1>1, <1>6, <1>7, <1>8, SameHolders

LEMMA ReadNextKeeps ==
    ASSUME NEW c, StackList(c), NEW t \in Threads, ReadNext(t)
    PROVE  StackList(c)'
<1>1. PICK l \in {"pop"} :
        /\ pc[t] = "next" /\ new' = [new EXCEPT ![t] = metaNext[GetRealAddr(top[t])]] /\ Goto(t, l)
        /\ UNCHANGED <<metaTop, metaCnt, num, data, metaNext, inUse, top, val>>
  BY DEF ReadNext, stackVars, nodeVars
<1>2. GetRealAddr(top[t]) \in Nodes /\ \A u \in Threads \ {t} : pc[u] \in Pushes => new[u] # top[t]
  BY <1>1 DEF StackList, List, Tags, Looks
<1>3. /\ StackTypes /\ List(Nodes, Threads, c, metaTop', metaNext', pc, top, new, Own)
      /\ top' \in [Threads -> Words(Nodes)] /\ new' \in [Threads -> Words(Nodes)]
      /\ \A u \in Threads \ {t} : top'[u] = top[u] /\ new'[u] = new[u]
      /\ top'[t] = top[t] /\ new'[t] = metaNext[GetRealAddr(top[t])] /\ Own[t] = NULL
      /\ l \in Labels
  BY <1>1, <1>2, StackFacts DEF Building, Labels
<1>4. \A k \in 1 .. Len(c) : WordTo(c, metaTop', metaNext', k) = top'[t] => new'[t] = metaNext'[c[k]]
  BY <1>1, <1>3, StackFacts DEF List, Linked
<1>5. NodeOf(l, new'[t], top'[t]) = NULL /\ l \notin Pushes /\ l # "push"
  BY DEF NodeOf, Building, Pushes
<1>6. /\ pc' \in [Threads -> Labels] /\ pc'[t] = l
      /\ \A u \in Threads \ {t} : pc'[u] = pc[u] /\ Own'[u] = Own[u]
      /\ Own'[t] = NULL
      /\ List(Nodes, Threads, c, metaTop', metaNext', pc', top', new', Own')
  <2>1. l \in Looks => /\ GetRealAddr(top'[t]) \in Nodes
                       /\ \A u \in Threads \ {t} : pc[u] \in Pushes => new[u] # top'[t]
    BY <1>2, <1>3
  <2>2. Goto(t, l)
    BY <1>1
  <2> QED
    BY <1>3, <1>4, <1>5, <2>1, <2>2, Steps
<1>7. metaCnt' \in Counters /\ num' = num + (Weight(pc'[t]) - Weight(pc[t]))
  BY <1>1, <1>3, <1>6 DEF StackTypes, Weight
<1>8. pc'[t] \notin {"tag", "take", "taken"} /\ \A u \in Threads : Own'[u] = Own[u]
  BY <1>3, <1>6
<1> QED
  BY <1>1, <1>6, <1>7, <1>8, SameHolders

\* A CAS that fails.
LEMMA FailKeeps ==
    ASSUME NEW c, StackList(c), NEW t \in Threads,
           \/ Pop(t) /\ pc'[t] # "take"
           \/ Push(t) /\ pc'[t] # "pushed"
    PROVE  StackList(c)'
<1>1. PICK l \in {"read", "pushRead"} :
        /\ Goto(t, l) /\ pc[t] = IF l = "read" THEN "pop" ELSE "push"
        /\ UNCHANGED <<metaTop, metaCnt, num, data, metaNext, inUse, top, new, val>>
  BY DEF Pop, Push, nodeVars, Goto, StackList, StackTypes
<1>2. /\ StackTypes /\ List(Nodes, Threads, c, metaTop', metaNext', pc, top, new, Own)
      /\ top' \in [Threads -> Words(Nodes)] /\ new' \in [Threads -> Words(Nodes)]
      /\ \A u \in Threads \ {t} : top'[u] = top[u] /\ new'[u] = new[u]
      /\ top'[t] = top[t] /\ new'[t] = new[t] /\ l \in Labels
  BY <1>1, StackFacts DEF Labels
<1>3. NodeOf(l, new'[t], top'[t]) = Own[t]
  BY <1>1, <1>2, StackFacts DEF NodeOf, Building
<1>4. l \in Pushes => /\ GetRealAddr(new'[t]) # NULL
                      /\ \A u \in Threads \ {t} : pc[u] \in Looks => top[u] # new'[t]
  <2> SUFFICES ASSUME l = "pushRead"
               PROVE  /\ GetRealAddr(new'[t]) # NULL
                      /\ \A u \in Threads \ {t} : pc[u] \in Looks => top[u] # new'[t]
    BY <1>1 DEF Pushes
  <2>1. pc[t] \in Pushes /\ pc[t] \in Building
    BY <1>1 DEF Pushes, Building
  <2> QED
    BY <1>2, <2>1, StackFacts DEF List, Tags
<1>5. l \notin Looks /\ l # "pop" /\ l # "push"
  BY <1>1 DEF Looks
<1>6. /\ pc' \in [Threads -> Labels] /\ pc'[t] = l
      /\ \A u \in Threads \ {t} : pc'[u] = pc[u] /\ Own'[u] = Own[u]
      /\ Own'[t] = Own[t]
      /\ List(Nodes, Threads, c, metaTop', metaNext', pc', top', new', Own')
  BY <1>1, <1>2, <1>3, <1>4, <1>5, Steps
<1>7. metaCnt' \in Counters /\ num' = num + (Weight(pc'[t]) - Weight(pc[t]))
  BY <1>1, <1>2, <1>6 DEF StackTypes, Weight
<1>8. pc'[t] \notin {"tag", "take", "taken"} /\ \A u \in Threads : Own'[u] = Own[u]
  BY <1>1, <1>6
<1> QED
  BY <1>1, <1>6, <1>7, <1>8, SameHolders

\* The word a Push will put in is not one that a Pop has read: the tag differs.
LEMMA GetTagKeeps ==
    ASSUME NEW c, StackList(c), NEW t \in Threads, GetTag(t)
    PROVE  StackList(c)'
<1>1. PICK l \in {"pushRead"}, w \in {GetMetaAddr(metaCnt, GetRealAddr(new[t]))} :
        /\ pc[t] = "tag" /\ w = GetMetaAddr(metaCnt, GetRealAddr(new[t])) /\ NotReissued(w)
        /\ new' = [new EXCEPT ![t] = w] /\ metaCnt' = IncCnt(metaCnt) /\ Goto(t, l)
        /\ UNCHANGED <<metaTop, num, data, metaNext, inUse, top, val>>
  BY DEF GetTag, nodeVars
<1>2. /\ Own[t] = GetRealAddr(new[t]) /\ Own[t] \in Nodes /\ Own[t] # NULL /\ StackTypes
      /\ NULL \notin Nodes
  BY <1>1, StackFacts DEF Building
<1>3. w \in Words(Nodes) /\ GetRealAddr(w) = Own[t]
  BY <1>1, <1>2, WordMade DEF StackTypes
<1>4. /\ List(Nodes, Threads, c, metaTop', metaNext', pc, top, new, Own)
      /\ top' \in [Threads -> Words(Nodes)] /\ new' \in [Threads -> Words(Nodes)]
      /\ \A u \in Threads \ {t} : top'[u] = top[u] /\ new'[u] = new[u]
      /\ top'[t] = top[t] /\ new'[t] = w /\ l \in Labels
  BY <1>1, <1>3, StackFacts DEF Labels
<1>5. l \in Pushes => /\ GetRealAddr(new'[t]) # NULL
                      /\ \A u \in Threads \ {t} : pc[u] \in Looks => top[u] # new'[t]
  BY <1>1, <1>2, <1>3, <1>4 DEF NotReissued, Looks
<1>6. l \notin Looks /\ l # "pop" /\ l # "push" /\ NodeOf(l, new'[t], top'[t]) = Own[t]
  BY <1>1, <1>3, <1>4 DEF Looks, NodeOf, Building
<1>7. Goto(t, l)
  BY <1>1
<1>8. /\ pc' \in [Threads -> Labels] /\ pc'[t] = l
      /\ \A u \in Threads \ {t} : pc'[u] = pc[u] /\ Own'[u] = Own[u]
      /\ Own'[t] = Own[t]
      /\ List(Nodes, Threads, c, metaTop', metaNext', pc', top', new', Own')
  BY <1>2, <1>4, <1>5, <1>6, <1>7, Steps
<1>9. metaCnt' \in Counters /\ num' = num + (Weight(pc'[t]) - Weight(pc[t]))
  BY <1>1, <1>2, <1>8, CounterAssumption DEF StackTypes, Weight, IncCnt, Counters
<1>10. pc'[t] \notin {"tag", "take", "taken"} /\ \A u \in Threads : Own'[u] = Own[u]
  BY <1>1, <1>8
<1> QED
  BY <1>1, <1>8, <1>9, <1>10, SameHolders

LEMMA PushReadKeeps ==
    ASSUME NEW c, StackList(c), NEW t \in Threads, PushRead(t)
    PROVE  StackList(c)'
<1>1. PICK l \in {"link"} :
        /\ pc[t] = "pushRead" /\ top' = [top EXCEPT ![t] = metaTop] /\ Goto(t, l)
        /\ UNCHANGED <<metaTop, metaCnt, num, data, metaNext, inUse, new, val>>
  BY DEF PushRead, stackVars, nodeVars
<1>2. /\ StackTypes /\ List(Nodes, Threads, c, metaTop', metaNext', pc, top, new, Own)
      /\ top' \in [Threads -> Words(Nodes)] /\ new' \in [Threads -> Words(Nodes)]
      /\ \A u \in Threads \ {t} : top'[u] = top[u] /\ new'[u] = new[u]
      /\ top'[t] = metaTop /\ new'[t] = new[t] /\ l \in Labels
      /\ Own[t] = GetRealAddr(new[t]) /\ Own[t] # NULL
  BY <1>1, StackFacts DEF Labels, Building
<1>3. l \in Pushes => /\ GetRealAddr(new'[t]) # NULL
                      /\ \A u \in Threads \ {t} : pc[u] \in Looks => top[u] # new'[t]
  BY <1>1, <1>2 DEF List, Tags, Pushes
<1>4. l \notin Looks /\ l # "pop" /\ l # "push" /\ NodeOf(l, new'[t], top'[t]) = Own[t]
  BY <1>2 DEF Looks, NodeOf, Building
<1>5. Goto(t, l)
  BY <1>1
<1>6. /\ pc' \in [Threads -> Labels] /\ pc'[t] = l
      /\ \A u \in Threads \ {t} : pc'[u] = pc[u] /\ Own'[u] = Own[u]
      /\ Own'[t] = Own[t]
      /\ List(Nodes, Threads, c, metaTop', metaNext', pc', top', new', Own')
  BY <1>2, <1>3, <1>4, <1>5, Steps
<1>7. metaCnt' \in Counters /\ num' = num + (Weight(pc'[t]) - Weight(pc[t]))
  BY <1>1, <1>2, <1>6 DEF StackTypes, Weight
<1>8. pc'[t] \notin {"tag", "take", "taken"} /\ \A u \in Threads : Own'[u] = Own[u]
  BY <1>1, <1>6
<1> QED
  BY <1>1, <1>6, <1>7, <1>8, SameHolders

\* The node of a thread's own is written, which nobody finds in the list.
LEMMA LinkKeeps ==
    ASSUME NEW c, StackList(c), NEW t \in Threads, Link(t)
    PROVE  StackList(c)'
<1>1. PICK l \in {"push"} :
        /\ pc[t] = "link" /\ metaNext' = [metaNext EXCEPT ![GetRealAddr(new[t])] = top[t]] /\ Goto(t, l)
        /\ UNCHANGED <<metaTop, metaCnt, num, data, inUse, top, new, val>>
  BY DEF Link, stackVars
<1>2. /\ StackTypes /\ Own[t] = GetRealAddr(new[t]) /\ Own[t] # NULL /\ Own[t] \in Nodes
      /\ top[t] \in Words(Nodes) /\ \A k \in 1 .. Len(c) : c[k] # Own[t]
      /\ metaNext \in [Nodes -> Words(Nodes)]
  BY <1>1, StackFacts DEF Building
<1>3. \A u \in Threads : pc[u] = "push" => GetRealAddr(new[u]) # Own[t]
  BY <1>1, <1>2 DEF StackList, List, Owns, Pushes
<1>4. List(Nodes, Threads, c, metaTop', metaNext', pc, top, new, Own)
  <2>1. PICK n \in Nodes, w \in Words(Nodes) :
          /\ n = GetRealAddr(new[t]) /\ w = top[t] /\ \A k \in 1 .. Len(c) : c[k] # n
          /\ \A u \in Threads : pc[u] = "push" => GetRealAddr(new[u]) # n
    BY <1>2, <1>3
  <2>2. List(Nodes, Threads, c, metaTop, [metaNext EXCEPT ![n] = w], pc, top, new, Own)
    BY <2>1, StackFacts, Rewritten
  <2> QED
    BY <1>1, <2>1, <2>2
<1>5. /\ top' \in [Threads -> Words(Nodes)] /\ new' \in [Threads -> Words(Nodes)]
      /\ \A u \in Threads \ {t} : top'[u] = top[u] /\ new'[u] = new[u]
      /\ top'[t] = top[t] /\ new'[t] = new[t] /\ l \in Labels
  BY <1>1, StackFacts DEF Labels
<1>6. l \in Pushes => /\ GetRealAddr(new'[t]) # NULL
                      /\ \A u \in Threads \ {t} : pc[u] \in Looks => top[u] # new'[t]
  BY <1>1, <1>2, <1>5 DEF StackList, List, Tags, Pushes
<1>7. /\ l \notin Looks /\ l # "pop" /\ NodeOf(l, new'[t], top'[t]) = Own[t]
      /\ l = "push" => metaNext'[GetRealAddr(new'[t])] = top'[t]
  BY <1>1, <1>2, <1>5 DEF Looks, NodeOf, Building
<1>8. Goto(t, l)
  BY <1>1
<1>9. /\ pc' \in [Threads -> Labels] /\ pc'[t] = l
      /\ \A u \in Threads \ {t} : pc'[u] = pc[u] /\ Own'[u] = Own[u]
      /\ Own'[t] = Own[t]
      /\ List(Nodes, Threads, c, metaTop', metaNext', pc', top', new', Own')
  BY <1>2, <1>4, <1>5, <1>6, <1>7, <1>8, Steps
<1>10. metaCnt' \in Counters /\ num' = num + (Weight(pc'[t]) - Weight(pc[t]))
  BY <1>1, <1>2, <1>9 DEF StackTypes, Weight
<1>11. pc'[t] \notin {"tag", "take", "taken"} /\ \A u \in Threads : Own'[u] = Own[u]
  BY <1>1, <1>9
<1> QED
  BY <1>1, <1>9, <1>10, <1>11, SameHolders

\* A call ends.
LEMMA EndKeeps ==
    ASSUME NEW c, StackList(c), NEW t \in Threads, EndPush(t) \/ EndPop(t)
    PROVE  StackList(c)'
<1>1. PICK l \in {"idle"} :
        /\ pc[t] \in {"pushed", "taken"} /\ Goto(t, l)
        /\ top' = [top EXCEPT ![t] = ZeroMeta] /\ new' = [new EXCEPT ![t] = ZeroMeta]
        /\ val' = [val EXCEPT ![t] = NoValue]
        /\ num' = IF pc[t] = "pushed" THEN num + 1 ELSE num - 1
        /\ UNCHANGED <<metaTop, metaCnt, data, metaNext, inUse>>
  BY DEF EndPush, EndPop, Return, nodeVars
<1>2. /\ StackTypes /\ List(Nodes, Threads, c, metaTop', metaNext', pc, top, new, Own)
      /\ top' \in [Threads -> Words(Nodes)] /\ new' \in [Threads -> Words(Nodes)]
      /\ \A u \in Threads \ {t} : top'[u] = top[u] /\ new'[u] = new[u]
      /\ l \in Labels /\ Own[t] = NULL
  BY <1>1, StackFacts, Zero DEF Labels, Building
<1>3. l \notin Looks /\ l \notin Pushes /\ l # "pop" /\ l # "push" /\ NodeOf(l, new'[t], top'[t]) = NULL
  BY DEF Looks, Pushes, NodeOf, Building
<1>4. Goto(t, l)
  BY <1>1
<1>5. /\ pc' \in [Threads -> Labels] /\ pc'[t] = l
      /\ \A u \in Threads \ {t} : pc'[u] = pc[u] /\ Own'[u] = Own[u]
      /\ Own'[t] = NULL
      /\ List(Nodes, Threads, c, metaTop', metaNext', pc', top', new', Own')
  BY <1>2, <1>3, <1>4, Steps
<1>6. metaCnt' \in Counters /\ num' = num + (Weight(pc'[t]) - Weight(pc[t]))
  BY <1>1, <1>2, <1>5 DEF StackTypes, Weight
<1>7. pc'[t] \notin {"tag", "take", "taken"} /\ \A u \in Threads : Own'[u] = Own[u]
  BY <1>1, <1>2, <1>5
<1> QED
  BY <1>1, <1>5, <1>6, <1>7, SameHolders

-------------------------------------------------------------------------------
\* A new node, which nobody has.
LEMMA BeginPushKeeps ==
    ASSUME NEW c, StackList(c), NEW t \in Threads, NEW v \in Values, BeginPush(t, v)
    PROVE  StackList(c)'
<1>1. PICK l \in {"tag"}, n \in Nodes \ inUse :
        /\ pc[t] = "idle" /\ Goto(t, l) /\ inUse' = inUse \cup {n} /\ data' = [data EXCEPT ![n] = v]
        /\ metaNext' = [metaNext EXCEPT ![n] = ZeroMeta]
        /\ new' = [new EXCEPT ![t] = GetMetaAddr(0, n)]
        /\ UNCHANGED <<metaTop, metaCnt, num, top, val>>
  BY DEF BeginPush, NodePool!Alloc, stackVars
<1>2. /\ StackTypes /\ Own[t] = NULL /\ NULL \notin Nodes
      /\ metaNext \in [Nodes -> Words(Nodes)]
  BY <1>1, StackFacts DEF Building
<1>3. /\ \A k \in 1 .. Len(c) : c[k] # n
      /\ \A u \in Threads : Own[u] # n
  BY <1>1, <1>2 DEF StackList, Held
<1>4. List(Nodes, Threads, c, metaTop', metaNext', pc, top, new, Own)
  <2>1. \A u \in Threads : pc[u] = "push" => GetRealAddr(new[u]) # n
    BY <1>3, StackFacts DEF Building
  <2>2. List(Nodes, Threads, c, metaTop, [metaNext EXCEPT ![n] = ZeroMeta], pc, top, new, Own)
    BY <1>3, <2>1, Zero, StackFacts, Rewritten
  <2> QED
    BY <1>1, <2>2
<1>5. PICK w \in Words(Nodes) : w = GetMetaAddr(0, n) /\ GetRealAddr(w) = n
  <2>1. 0 \in Counters
    BY CounterAssumption DEF Counters
  <2> QED
    BY <1>1, <1>2, <2>1, WordMade
<1>6. /\ top' \in [Threads -> Words(Nodes)] /\ new' \in [Threads -> Words(Nodes)]
      /\ \A u \in Threads \ {t} : top'[u] = top[u] /\ new'[u] = new[u]
      /\ new'[t] = w /\ l \in Labels
  BY <1>1, <1>5, StackFacts DEF Labels
<1>7. /\ l \notin Looks /\ l \notin Pushes /\ l # "pop" /\ l # "push"
      /\ NodeOf(l, new'[t], top'[t]) = n
  BY <1>5, <1>6 DEF Looks, Pushes, NodeOf, Building
<1>8. Goto(t, l)
  BY <1>1
<1>9. /\ pc' \in [Threads -> Labels] /\ pc'[t] = l
      /\ \A u \in Threads \ {t} : pc'[u] = pc[u] /\ Own'[u] = Own[u]
      /\ Own'[t] = n
      /\ List(Nodes, Threads, c, metaTop', metaNext', pc', top', new', Own')
  <2>1. \/ NodeOf(l, new'[t], top'[t]) \in {NULL, Own[t]}
        \/ /\ NodeOf(l, new'[t], top'[t]) \in Nodes
           /\ \A k \in 1 .. Len(c) : c[k] # NodeOf(l, new'[t], top'[t])
           /\ \A u \in Threads \ {t} : Own[u] # NodeOf(l, new'[t], top'[t])
    BY <1>1, <1>3, <1>7
  <2> QED
    BY <1>2, <1>4, <1>6, <1>7, <1>8, <2>1, Steps
<1>10. StackTypes'
  BY <1>1, <1>2, <1>9 DEF StackTypes
<1>11. Held(c)'
  <2>1. \A i \in inUse' : data'[i] \in Values
    BY <1>1, <1>2 DEF StackTypes, StackList, Held
  <2>2. \A u \in Threads : Own'[u] # NULL => Own'[u] \in inUse'
    BY <1>1, <1>9 DEF StackList, Held
  <2>3. \A u \in Threads : pc'[u] \in Building \cup {"take"} => Own'[u] # NULL
    BY <1>1, <1>2, <1>9 DEF StackList, Held
  <2>4. \A u \in Threads : pc'[u] = "taken" => val'[u] \in Values
    BY <1>1, <1>9 DEF StackList, Held
  <2>5. \A i \in inUse' : (\E k \in 1 .. Len(c) : c[k] = i) \/ (\E u \in Threads : Own'[u] = i)
    <3> SUFFICES ASSUME NEW i \in inUse', ~(\E k \in 1 .. Len(c) : c[k] = i)
                 PROVE  \E u \in Threads : Own'[u] = i
      OBVIOUS
    <3>1. CASE i = n
      BY <1>9, <3>1
    <3>2. CASE i # n
      <4>1. PICK u \in Threads : Own[u] = i
        BY <1>1, <3>2 DEF StackList, Held
      <4>2. u # t
        BY <1>1, <1>2, <3>2, <4>1, StackFacts DEF StackTypes
      <4> QED
        BY <1>9, <4>1, <4>2
    <3> QED
      BY <3>1, <3>2
  <2> QED
    BY <1>1, <2>1, <2>2, <2>3, <2>4, <2>5 DEF StackList, Held
<1>12. Counted(c)'
  <2>1. /\ c \in Seq(Nodes) /\ Len(c) \in Nat /\ num \in Int /\ Counted(c)
        /\ Weight(pc'[t]) = 0 /\ Weight(pc[t]) = 0
    BY <1>1, <1>2, <1>9, StackFacts DEF StackList, StackTypes, Weight
  <2>2. num' = num + (Len(c) - Len(c)) + (Weight(pc'[t]) - Weight(pc[t]))
    BY <1>1, <2>1
  <2> QED
    BY <1>9, <2>1, <2>2, NumKept
<1> QED
  BY <1>9, <1>10, <1>11, <1>12 DEF StackList

-------------------------------------------------------------------------------
\* The CAS that puts a node in: it is the thread's no more, and the first of the list.
LEMMA PushPutsIn ==
    ASSUME NEW c, StackList(c), NEW t \in Threads, Push(t), pc'[t] = "pushed"
    PROVE  /\ \E d \in Seq(Nodes) : d = <<Own[t]>> \o c /\ StackList(d)'
           /\ GetRealAddr(new[t]) \in inUse /\ GetRealAddr(new[t]) = Own[t]
<1>1. PICK l \in {"pushed"} :
        /\ pc[t] = "push" /\ Goto(t, l) /\ metaTop = top[t] /\ metaTop' = new[t]
        /\ UNCHANGED <<metaCnt, num, data, metaNext, inUse, top, new, val>>
  BY DEF Push, nodeVars, Goto, StackList, StackTypes
<1>2. /\ StackTypes /\ Own[t] = GetRealAddr(new[t]) /\ Own[t] # NULL /\ Own[t] \in Nodes
      /\ c \in Seq(Nodes) /\ Len(c) \in Nat /\ NULL \notin Nodes
      /\ List(Nodes, Threads, c, metaTop, metaNext, pc, top, new, Own)
  BY <1>1, StackFacts DEF Building
<1>3. PICK n \in Nodes : n = GetRealAddr(new[t]) /\ n = Own[t] /\ n \in inUse
  BY <1>1, <1>2 DEF StackList, Held
<1>4. /\ pc' \in [Threads -> Labels] /\ pc'[t] = "pushed"
      /\ \A u \in Threads \ {t} : pc'[u] = pc[u]
  BY <1>1, <1>2 DEF Goto, StackTypes, Labels
<1>5. Own'[t] = NULL /\ \A u \in Threads \ {t} : Own'[u] = Own[u]
  BY <1>1, <1>4 DEF Own, NodeOf, Building
<1>6. PICK L \in Nat, d \in Seq(Nodes) :
        /\ L = Len(c) /\ d = <<n>> \o c /\ Len(d) = L + 1 /\ d[1] = n
        /\ \A k \in 2 .. L + 1 : d[k] = c[k - 1]
  <2>1. PICK L \in Nat : L = Len(c)
    BY <1>2
  <2>2. /\ <<n>> \o c \in Seq(Nodes) /\ Len(<<n>> \o c) = L + 1 /\ (<<n>> \o c)[1] = n
        /\ \A k \in 2 .. L + 1 : (<<n>> \o c)[k] = c[k - 1]
    BY <1>2, <2>1, ConsFacts
  <2> QED
    BY <2>1, <2>2
<1>7. List(Nodes, Threads, d, metaTop', metaNext', pc', top', new', Own')
  <2>1. PICK p2, o2 : p2 = pc' /\ o2 = Own'
    OBVIOUS
  <2>2. List(Nodes, Threads, <<GetRealAddr(new[t])>> \o c, new[t], metaNext, p2, top, new, o2)
    BY <1>1, <1>2, <1>4, <1>5, <2>1, PushPuts
  <2> QED
    BY <1>1, <1>3, <1>6, <2>1, <2>2
<1>8. StackTypes'
  BY <1>1, <1>2, <1>4 DEF StackTypes
<1>9. /\ \A k \in 1 .. L + 1 : k = 1 \/ (k - 1 \in 1 .. L /\ k \in 2 .. L + 1)
      /\ \A k \in 1 .. L : k + 1 \in 1 .. L + 1 /\ k + 1 \in 2 .. L + 1 /\ (k + 1) - 1 = k
      /\ 1 \in 1 .. L + 1
  OBVIOUS
<1>10. Held(d)'
  <2>1. \A k \in 1 .. L + 1 : d[k] \in inUse
    BY <1>3, <1>6, <1>9 DEF StackList, Held
  <2>2. \A u \in Threads : Own'[u] # NULL => Own'[u] \in inUse
    BY <1>5 DEF StackList, Held
  <2>3. \A i \in inUse : (\E k \in 1 .. L + 1 : d[k] = i) \/ (\E u \in Threads : Own'[u] = i)
    <3> TAKE i \in inUse
    <3>1. CASE \E k \in 1 .. L : c[k] = i
      <4>1. PICK k \in 1 .. L : c[k] = i
        BY <3>1
      <4>2. k + 1 \in 1 .. L + 1 /\ d[k + 1] = i
        BY <1>6, <1>9, <4>1
      <4> QED
        BY <4>2
    <3>2. CASE ~\E k \in 1 .. L : c[k] = i
      <4>1. PICK u \in Threads : Own[u] = i
        BY <1>6, <3>2 DEF StackList, Held
      <4> QED
        BY <1>3, <1>5, <1>6, <1>9, <4>1
    <3> QED
      BY <3>1, <3>2
  <2>4. \A u \in Threads : pc'[u] \in Building \cup {"take"} => Own'[u] # NULL
    BY <1>4, <1>5 DEF StackList, Held, Building
  <2>5. \A u \in Threads : pc'[u] = "taken" => val'[u] \in Values
    BY <1>1, <1>4 DEF StackList, Held
  <2>6. \A i \in inUse' : data'[i] \in Values
    BY <1>1 DEF StackList, Held
  <2> QED
    BY <1>1, <1>6, <2>1, <2>2, <2>3, <2>4, <2>5, <2>6 DEF Held
<1>11. Counted(d)'
  <2>1. Weight(pc'[t]) = -1 /\ Weight(pc[t]) = 0 /\ num \in Int /\ Counted(c)
    BY <1>1, <1>2, <1>4 DEF Weight, StackTypes, StackList
  <2>2. num' = num + (Len(d) - Len(c)) + (Weight(pc'[t]) - Weight(pc[t]))
    BY <1>1, <1>6, <2>1
  <2> QED
    BY <1>2, <1>4, <2>1, <2>2, NumKept
<1>12. StackList(d)'
  BY <1>7, <1>8, <1>10, <1>11 DEF StackList
<1> QED
  BY <1>3, <1>6, <1>12

\* The CAS that takes the first node out: it is the thread's from then on.
LEMMA PopTakesOut ==
    ASSUME NEW c, StackList(c), NEW t \in Threads, Pop(t), pc'[t] = "take"
    PROVE  /\ \E d \in Seq(Nodes) : d = Tail(c) /\ StackList(d)'
           /\ c # <<>> /\ c[1] = GetRealAddr(top[t]) /\ c[1] \in inUse
<1>1. PICK l \in {"take"} :
        /\ pc[t] = "pop" /\ Goto(t, l) /\ metaTop = top[t] /\ metaTop' = new[t]
        /\ UNCHANGED <<metaCnt, num, data, metaNext, inUse, top, new, val>>
  BY DEF Pop, nodeVars, Goto, StackList, StackTypes
<1>2. /\ StackTypes /\ Own[t] = NULL /\ c \in Seq(Nodes) /\ Len(c) \in Nat /\ NULL \notin Nodes
      /\ List(Nodes, Threads, c, metaTop, metaNext, pc, top, new, Own)
      /\ new[t] \in Words(Nodes) /\ top \in [Threads -> Words(Nodes)] /\ new \in [Threads -> Words(Nodes)]
  BY <1>1, StackFacts DEF Building
<1>3. /\ c # <<>> /\ c[1] = GetRealAddr(metaTop)
      /\ List(Nodes, Threads, Tail(c), new[t], metaNext, pc, top, new, Own)
      /\ \A k \in 1 .. Len(Tail(c)) : Tail(c)[k] # c[1]
  BY <1>1, <1>2, PopTakes
<1>4. PICK L \in Nat : Len(c) = L + 1
  <2>1. Len(c) # 0
    BY <1>2, <1>3
  <2>2. Len(c) - 1 \in Nat /\ Len(c) = (Len(c) - 1) + 1
    BY <1>2, <2>1
  <2> QED
    BY <2>2
<1>5. PICK d \in Seq(Nodes) :
        /\ d = Tail(c) /\ Len(d) = L /\ c[1] \in Nodes
        /\ \A k \in 1 .. L : d[k] = c[k + 1]
  BY <1>2, <1>4, TailFacts
<1>6. /\ \A k \in 1 .. L : k + 1 \in 1 .. L + 1
      /\ \A k \in 1 .. L + 1 : k = 1 \/ (k - 1 \in 1 .. L /\ (k - 1) + 1 = k)
      /\ 1 \in 1 .. L + 1
  OBVIOUS
<1>7. PICK n \in Nodes : /\ n = c[1] /\ n = GetRealAddr(top[t]) /\ n \in inUse
                         /\ \A u \in Threads : Own[u] # n
  BY <1>1, <1>2, <1>3, <1>4, <1>5, <1>6 DEF StackList, Held, List, Owns
<1>8. /\ List(Nodes, Threads, d, metaTop', metaNext', pc, top, new, Own)
      /\ top' \in [Threads -> Words(Nodes)] /\ new' \in [Threads -> Words(Nodes)]
      /\ \A u \in Threads \ {t} : top'[u] = top[u] /\ new'[u] = new[u]
      /\ l \in Labels
  BY <1>1, <1>2, <1>3, <1>5 DEF Labels
<1>9. /\ l \notin Looks /\ l \notin Pushes /\ l # "pop" /\ l # "push"
      /\ NodeOf(l, new'[t], top'[t]) = n
  BY <1>1, <1>7 DEF Looks, Pushes, NodeOf, Building
<1>10. Goto(t, l)
  BY <1>1
<1>11. /\ pc' \in [Threads -> Labels] /\ pc'[t] = l
       /\ \A u \in Threads \ {t} : pc'[u] = pc[u] /\ Own'[u] = Own[u]
       /\ Own'[t] = n
       /\ List(Nodes, Threads, d, metaTop', metaNext', pc', top', new', Own')
  <2>1. /\ NodeOf(l, new'[t], top'[t]) \in Nodes
        /\ \A k \in 1 .. Len(d) : d[k] # NodeOf(l, new'[t], top'[t])
        /\ \A u \in Threads \ {t} : Own[u] # NodeOf(l, new'[t], top'[t])
    BY <1>3, <1>5, <1>7, <1>9
  <2> QED
    BY <1>2, <1>8, <1>9, <1>10, <2>1, Steps
<1>12. StackTypes'
  BY <1>1, <1>2, <1>11 DEF StackTypes
<1>13. Held(d)'
  <2>1. \A k \in 1 .. L : d[k] \in inUse
    BY <1>4, <1>5, <1>6 DEF StackList, Held
  <2>2. \A u \in Threads : Own'[u] # NULL => Own'[u] \in inUse
    BY <1>7, <1>11 DEF StackList, Held
  <2>3. \A i \in inUse : (\E k \in 1 .. L : d[k] = i) \/ (\E u \in Threads : Own'[u] = i)
    <3> TAKE i \in inUse
    <3>1. CASE \E u \in Threads : Own[u] = i
      <4>1. PICK u \in Threads : Own[u] = i
        BY <3>1
      <4>2. i \in Nodes /\ u # t
        BY <1>2, <4>1 DEF StackTypes
      <4> QED
        BY <1>11, <4>1, <4>2
    <3>2. CASE ~\E u \in Threads : Own[u] = i
      <4>1. PICK k \in 1 .. L + 1 : c[k] = i
        BY <1>4, <3>2 DEF StackList, Held
      <4>2. CASE k = 1
        BY <1>7, <1>11, <4>1, <4>2
      <4>3. CASE k # 1
        BY <1>5, <1>6, <4>1, <4>3
      <4> QED
        BY <4>2, <4>3
    <3> QED
      BY <3>1, <3>2
  <2>4. \A u \in Threads : pc'[u] \in Building \cup {"take"} => Own'[u] # NULL
    BY <1>2, <1>11 DEF StackList, Held, Building
  <2>5. \A u \in Threads : pc'[u] = "taken" => val'[u] \in Values
    BY <1>1, <1>11 DEF StackList, Held
  <2>6. \A i \in inUse' : data'[i] \in Values
    BY <1>1 DEF StackList, Held
  <2> QED
    BY <1>1, <1>5, <2>1, <2>2, <2>3, <2>4, <2>5, <2>6 DEF Held
<1>14. Counted(d)'
  <2>1. Weight(pc'[t]) = 1 /\ Weight(pc[t]) = 0 /\ num \in Int /\ Counted(c)
    BY <1>1, <1>2, <1>11 DEF Weight, StackTypes, StackList
  <2>2. num' = num + (Len(d) - Len(c)) + (Weight(pc'[t]) - Weight(pc[t]))
    BY <1>1, <1>4, <1>5, <2>1
  <2> QED
    BY <1>2, <1>11, <2>1, <2>2, NumKept
<1>15. StackList(d)'
  BY <1>11, <1>12, <1>13, <1>14 DEF StackList
<1> QED
  BY <1>3, <1>1, <1>5, <1>7, <1>15

\* The node is given back to the pool.
LEMMA TakeDataKeeps ==
    ASSUME NEW c, StackList(c), NEW t \in Threads, TakeData(t)
    PROVE  StackList(c)'
<1>1. PICK l \in {"taken"}, n \in {GetRealAddr(top[t])} :
        /\ pc[t] = "take" /\ Goto(t, l) /\ val' = [val EXCEPT ![t] = data[n]]
        /\ data' = [data EXCEPT ![n] = NoValue] /\ n \in inUse /\ inUse' = inUse \ {n}
        /\ UNCHANGED <<metaTop, metaCnt, num, metaNext, top, new>>
  BY DEF TakeData, NodePool!Free, stackVars
<1>2. /\ StackTypes /\ Own[t] = n /\ n \in Nodes /\ n # NULL /\ data[n] \in Values
      /\ \A k \in 1 .. Len(c) : c[k] # n
      /\ \A u \in Threads \ {t} : Own[u] # n
  <2>1. StackTypes /\ Own[t] = n /\ n # NULL /\ n \in Nodes /\ \A k \in 1 .. Len(c) : c[k] # n
    BY <1>1, StackFacts
  <2> QED
    BY <1>1, <2>1 DEF StackList, Held, List, Owns
<1>3. /\ List(Nodes, Threads, c, metaTop', metaNext', pc, top, new, Own)
      /\ top' \in [Threads -> Words(Nodes)] /\ new' \in [Threads -> Words(Nodes)]
      /\ \A u \in Threads \ {t} : top'[u] = top[u] /\ new'[u] = new[u]
      /\ l \in Labels
  BY <1>1, StackFacts DEF Labels
<1>4. /\ l \notin Looks /\ l \notin Pushes /\ l # "pop" /\ l # "push"
      /\ NodeOf(l, new'[t], top'[t]) = NULL
  BY DEF Looks, Pushes, NodeOf, Building
<1>5. Goto(t, l)
  BY <1>1
<1>6. /\ pc' \in [Threads -> Labels] /\ pc'[t] = l
      /\ \A u \in Threads \ {t} : pc'[u] = pc[u] /\ Own'[u] = Own[u]
      /\ Own'[t] = NULL
      /\ List(Nodes, Threads, c, metaTop', metaNext', pc', top', new', Own')
  BY <1>2, <1>3, <1>4, <1>5, Steps
<1>7. StackTypes'
  BY <1>1, <1>2, <1>6 DEF StackTypes
<1>8. Held(c)'
  <2>1. \A k \in 1 .. Len(c) : c[k] \in inUse'
    BY <1>1, <1>2 DEF StackList, Held
  <2>2. \A u \in Threads : Own'[u] # NULL => Own'[u] \in inUse'
    BY <1>1, <1>2, <1>6 DEF StackList, Held
  <2>3. \A i \in inUse' : (\E k \in 1 .. Len(c) : c[k] = i) \/ (\E u \in Threads : Own'[u] = i)
    <3> TAKE i \in inUse'
    <3>1. i \in inUse /\ i # n
      BY <1>1
    <3>2. (\E k \in 1 .. Len(c) : c[k] = i) \/ (\E u \in Threads \ {t} : Own[u] = i)
      BY <1>2, <3>1 DEF StackList, Held
    <3> QED
      BY <1>6, <3>2
  <2>4. \A u \in Threads : pc'[u] \in Building \cup {"take"} => Own'[u] # NULL
    BY <1>1, <1>6 DEF StackList, Held, Building
  <2>5. \A u \in Threads : pc'[u] = "taken" => val'[u] \in Values
    BY <1>1, <1>2, <1>6 DEF StackList, Held, StackTypes
  <2>6. \A i \in inUse' : data'[i] \in Values
    BY <1>1, <1>2 DEF StackList, StackTypes, Held
  <2> QED
    BY <2>1, <2>2, <2>3, <2>4, <2>5, <2>6 DEF Held
<1>9. Counted(c)'
  <2>1. /\ c \in Seq(Nodes) /\ Len(c) \in Nat /\ num \in Int /\ Counted(c)
        /\ Weight(pc'[t]) = 1 /\ Weight(pc[t]) = 1
    BY <1>1, <1>2, <1>6, StackFacts DEF StackList, StackTypes, Weight
  <2>2. num' = num + (Len(c) - Len(c)) + (Weight(pc'[t]) - Weight(pc[t]))
    BY <1>1, <2>1
  <2> QED
    BY <1>6, <2>1, <2>2, NumKept
<1> QED
  BY <1>6, <1>7, <1>8, <1>9 DEF StackList

LEMMA InitKeeps ==
    ASSUME Init
    PROVE  StackList(<<>>)
<1>1. /\ \A t \in Threads : pc[t] = "idle" /\ top[t] = ZeroMeta /\ new[t] = ZeroMeta
      /\ top \in [Threads -> Words(Nodes)] /\ new \in [Threads -> Words(Nodes)]
      /\ metaTop = ZeroMeta /\ metaNext \in [Nodes -> Words(Nodes)] /\ inUse = {}
      /\ ZeroMeta \in Words(Nodes)
  BY Zero DEF Init
<1>2. \A t \in Threads : Own[t] = NULL
  BY <1>1 DEF Own, NodeOf, Building
<1>3. PICK c \in Seq(Nodes) : c = <<>> /\ Len(c) = 0
  <2>1. <<>> \in Seq(Nodes) /\ Len(<<>>) = 0
    OBVIOUS
  <2> QED
    BY <2>1
<1>4. List(Nodes, Threads, c, metaTop, metaNext, pc, top, new, Own)
  BY <1>1, <1>2, <1>3 DEF List, Linked, Tags, Owns, WordTo, Looks, Pushes
<1>5. StackTypes
  BY CounterAssumption DEF StackTypes, Init, Counters, Labels
<1>6. Held(c)
  BY <1>1, <1>2, <1>3 DEF Held, Building
<1>7. Counted(c)
  <2>1. {t \in Threads : pc[t] \in {"take", "taken"}} = {} /\ {t \in Threads : pc[t] \in {"pushed"}} = {}
    BY <1>1
  <2>2. CountAt(Threads, pc, {"take", "taken"}) = 0 /\ CountAt(Threads, pc, {"pushed"}) = 0
    BY <2>1, FS_EmptySet DEF CountAt
  <2> QED
    BY <1>3, <2>2 DEF Counted, Init
<1> QED
  BY <1>3, <1>4, <1>5, <1>6, <1>7 DEF StackList

-------------------------------------------------------------------------------
\* The first n elements of a sequence.
Upto(s, n) == [i \in 1 .. n |-> s[i]]

LEMMA UptoFacts ==
    ASSUME NEW N, NEW s \in Seq(N), NEW L \in Nat, L = Len(s)
    PROVE  /\ \A n \in 0 .. L : /\ Upto(s, n) \in Seq(N) /\ Len(Upto(s, n)) = n
                                /\ \A i \in 1 .. n : Upto(s, n)[i] = s[i]
                                /\ n # L => Append(Upto(s, n), s[n + 1]) = Upto(s, n + 1)
           /\ Upto(s, L) = s /\ Upto(s, 0) = <<>>
<1>1. DOMAIN s = 1 .. L /\ \A i \in 1 .. L : s[i] \in N
  OBVIOUS
<1>2. \A k \in 0 .. L : /\ Upto(s, k) \in Seq(N) /\ Len(Upto(s, k)) = k
                        /\ DOMAIN Upto(s, k) = 1 .. k
                        /\ \A i \in 1 .. k : Upto(s, k)[i] = s[i]
  <2> TAKE k \in 0 .. L
  <2>1. k \in Nat /\ \A i \in 1 .. k : s[i] \in N
    BY <1>1
  <2>2. Upto(s, k) \in [1 .. k -> N] /\ DOMAIN Upto(s, k) = 1 .. k
        /\ \A i \in 1 .. k : Upto(s, k)[i] = s[i]
    BY <2>1 DEF Upto
  <2>3. Upto(s, k) \in Seq(N)
    BY <2>1, <2>2
  <2> QED
    BY <2>1, <2>2, <2>3
<1>3. ASSUME NEW n \in 0 .. L, n # L PROVE Append(Upto(s, n), s[n + 1]) = Upto(s, n + 1)
  <2>1. n + 1 \in 0 .. L /\ n + 1 \in 1 .. L /\ n \in Nat
    BY <1>1, <1>3
  <2>2. PICK a \in Seq(N), x \in N :
          a = Upto(s, n) /\ x = s[n + 1] /\ Len(a) = n /\ \A i \in 1 .. n : a[i] = s[i]
    BY <1>1, <1>2, <1>3, <2>1
  <2>3. /\ Append(a, x) \in Seq(N) /\ Len(Append(a, x)) = n + 1
        /\ Append(a, x)[n + 1] = x
        /\ \A i \in 1 .. n : Append(a, x)[i] = a[i]
    BY <2>1, <2>2
  <2>4. \A i \in 1 .. n + 1 : i \in 1 .. n \/ i = n + 1
    BY <2>1
  <2>5. \A i \in 1 .. n + 1 : Append(a, x)[i] = Upto(s, n + 1)[i]
    BY <1>2, <2>1, <2>2, <2>3, <2>4
  <2>6. Upto(s, n + 1) \in Seq(N) /\ Len(Upto(s, n + 1)) = n + 1
    BY <1>2, <2>1
  <2> QED
    BY <2>2, <2>3, <2>5, <2>6
<1>4. Upto(s, L) = s
  <2>1. L \in 0 .. L
    BY <1>1
  <2> QED
    BY <1>1, <1>2, <2>1
<1>5. Upto(s, 0) = <<>>
  <2>1. 0 \in 0 .. L
    OBVIOUS
  <2>2. Upto(s, 0) \in Seq(N) /\ Len(Upto(s, 0)) = 0
    BY <1>2, <2>1
  <2> QED
    BY <2>2
<1> QED
  BY <1>2, <1>3, <1>4, <1>5

\* No list is longer than there are nodes.
LEMMA ListFits ==
    ASSUME NEW N, IsFiniteSet(N), NEW c \in Seq(N), \A i, j \in 1 .. Len(c) : c[i] = c[j] => i = j
    PROVE  /\ Cardinality(N) \in Nat /\ Len(c) <= Cardinality(N)
           /\ \A S : (\A x : x \in S <=> \E k \in 1 .. Len(c) : c[k] = x)
                       => Cardinality(S) = Len(c) /\ IsFiniteSet(S)
<1>1. PICK n \in Nat, f \in Seq(N) : n = Len(c) /\ f = c /\ \A k \in 1 .. n : f[k] \in N
  OBVIOUS
<1>2. ASSUME NEW S, \A x : x \in S <=> \E k \in 1 .. Len(c) : c[k] = x
      PROVE  Cardinality(S) = n /\ IsFiniteSet(S)
  <2>1. /\ \A i, j \in 1 .. n : f[i] = f[j] => i = j
        /\ \A i \in 1 .. n : f[i] \in S
        /\ \A x \in S : \E i \in 1 .. n : f[i] = x
    BY <1>1, <1>2
  <2> QED
    BY <2>1, ElementsCounted
<1>3. PICK S \in SUBSET N : \A x : x \in S <=> \E k \in 1 .. Len(c) : c[k] = x
  <2>1. \A x : (\E k \in 1 .. Len(c) : c[k] = x) => x \in N
    OBVIOUS
  <2>2. \A x : x \in {y \in N : \E k \in 1 .. Len(c) : c[k] = y} <=> \E k \in 1 .. Len(c) : c[k] = x
    BY <2>1
  <2> QED
    BY <2>2
<1>4. Cardinality(S) = n
  BY <1>2, <1>3
<1>5. Cardinality(S) <= Cardinality(N) /\ Cardinality(N) \in Nat
  BY <1>3, FS_Subset, FS_CardinalityType
<1> QED
  BY <1>1, <1>2, <1>4, <1>5

\* The elements of a list and the nodes that threads P have to themselves.
LEMMA NodesCounted ==
    ASSUME NEW N, IsFiniteSet(N), NEW T, IsFiniteSet(T),
           NEW c \in Seq(N), \A i, j \in 1 .. Len(c) : c[i] = c[j] => i = j,
           NEW P \in SUBSET T, NEW o,
           \A u, x \in P : o[u] = o[x] => u = x,
           \A u \in P : \A k \in 1 .. Len(c) : c[k] # o[u],
           NEW S, \A x : x \in S <=> (\E k \in 1 .. Len(c) : c[k] = x) \/ (\E u \in P : o[u] = x)
    PROVE  Cardinality(S) = Len(c) + Cardinality(P) /\ IsFiniteSet(S)
<1>1. PICK A : \A x : x \in A <=> \E k \in 1 .. Len(c) : c[k] = x
  <2>1. \A x : x \in {c[k] : k \in 1 .. Len(c)} <=> \E k \in 1 .. Len(c) : c[k] = x
    OBVIOUS
  <2> QED
    BY <2>1
<1>2. Cardinality(A) = Len(c) /\ IsFiniteSet(A)
  BY <1>1, ListFits
<1>3. PICK B : \A x : x \in B <=> \E u \in P : o[u] = x
  <2>1. \A x : x \in {o[u] : u \in P} <=> \E u \in P : o[u] = x
    OBVIOUS
  <2> QED
    BY <2>1
<1>4. IsFiniteSet(P)
  BY FS_Subset
<1>5. Cardinality(B) = Cardinality(P) /\ IsFiniteSet(B)
  <2>1. PICK f : f = [u \in P |-> o[u]]
    OBVIOUS
  <2>2. f \in [P -> B] /\ \A u \in P : f[u] = o[u]
    BY <1>3, <2>1
  <2>3. f \in Bijection(P, B)
    BY <1>3, <2>2 DEF Bijection, Injection, Surjection, IsInjective
  <2>4. ExistsBijection(P, B)
    BY <2>3 DEF ExistsBijection
  <2>5. IsFiniteSet(B) /\ Cardinality(P) = Cardinality(B)
    BY <1>4, <2>4, FS_Bijection
  <2> QED
    BY <2>5
<1>6. S = A \cup B /\ A \cap B = {}
  BY <1>1, <1>3
<1>7. Cardinality(A \cap B) = 0
  BY <1>6, FS_EmptySet
<1>8. IsFiniteSet(A \cup B) /\ Cardinality(A \cup B) = Cardinality(A) + Cardinality(B) - Cardinality(A \cap B)
  BY <1>2, <1>5, FS_Union
<1>9. Cardinality(A) \in Nat /\ Cardinality(B) \in Nat
  BY <1>2, <1>5, FS_CardinalityType
<1> QED
  BY <1>2, <1>5, <1>6, <1>7, <1>8, <1>9

\* Following metaNext_ from metaTop_ finds the list.
LEMMA ChainIsList ==
    ASSUME NEW c, StackList(c)
    PROVE  Chain = c
<1>1. PICK s \in Seq(Nodes), L \in Nat, C \in Nat :
        s = c /\ L = Len(s) /\ C = Cardinality(Nodes) /\ L <= C
  BY ListFits, StackFacts, StackAssumption DEF List, Linked
<1>2. /\ \A n \in 0 .. L : /\ Upto(s, n) \in Seq(Nodes) /\ Len(Upto(s, n)) = n
                           /\ \A i \in 1 .. n : Upto(s, n)[i] = s[i]
                           /\ n # L => Append(Upto(s, n), s[n + 1]) = Upto(s, n + 1)
      /\ Upto(s, L) = s /\ Upto(s, 0) = <<>>
  BY <1>1, UptoFacts
<1> DEFINE Next1(p) == IF p = <<>> THEN metaTop ELSE metaNext[p[Len(p)]]
           W == [k \in 0 .. C |-> Upto(s, IF k <= L THEN k ELSE L)]
           F(f) == [k \in 0 .. C |->
                      IF k = 0 THEN <<>>
                      ELSE IF Len(f[k - 1]) < k - 1 \/ Next1(f[k - 1]) = ZeroMeta THEN f[k - 1]
                           ELSE Append(f[k - 1], GetRealAddr(Next1(f[k - 1])))]
<1>3. Chain = (CHOOSE f : f = F(f))[C]
  BY <1>1 DEF Chain
<1>4. \A n \in 0 .. L : Next1(Upto(s, n)) = WordTo(s, metaTop, metaNext, n + 1)
  <2> TAKE n \in 0 .. L
  <2>1. PICK p \in Seq(Nodes) : p = Upto(s, n) /\ Len(p) = n /\ \A i \in 1 .. n : p[i] = s[i]
    BY <1>2
  <2>2. CASE n = 0
    BY <2>1, <2>2 DEF WordTo
  <2>3. CASE n # 0
    <3>1. p # <<>> /\ n \in 1 .. n /\ n + 1 # 1 /\ (n + 1) - 1 = n
      BY <2>1, <2>3
    <3> QED
      BY <2>1, <3>1 DEF WordTo
  <2> QED
    BY <2>2, <2>3
<1>5. \A n \in 0 .. L : /\ n = L => Next1(Upto(s, n)) = ZeroMeta
                        /\ n # L => /\ Next1(Upto(s, n)) # ZeroMeta
                                    /\ GetRealAddr(Next1(Upto(s, n))) = s[n + 1]
  <2> TAKE n \in 0 .. L
  <2>1. n # L => n + 1 \in 1 .. Len(s)
    BY <1>1
  <2>2. /\ n # L => GetRealAddr(WordTo(s, metaTop, metaNext, n + 1)) = s[n + 1] /\ s[n + 1] \in Nodes
        /\ WordTo(s, metaTop, metaNext, L + 1) = ZeroMeta
    BY <1>1, <2>1 DEF StackList, List, Linked
  <2> QED
    BY <1>4, <2>2, Zero, StackAssumption
<1> HIDE DEF Next1
<1>6. W = F(W)
  <2> SUFFICES ASSUME NEW k \in 0 .. C PROVE W[k] = F(W)[k]
    OBVIOUS
  <2>1. CASE k = 0
    BY <1>1, <1>2, <2>1
  <2>2. CASE k # 0 /\ k <= L
    <3>1. /\ k - 1 \in 0 .. L /\ k - 1 \in 0 .. C /\ k - 1 # L /\ k - 1 + 1 = k /\ k - 1 <= L
          /\ ~(k - 1 < k - 1)
      BY <1>1, <2>2
    <3>2. PICK p \in Seq(Nodes) : p = Upto(s, k - 1) /\ Len(p) = k - 1 /\ Append(p, s[k]) = Upto(s, k)
                                  /\ Next1(p) # ZeroMeta /\ GetRealAddr(Next1(p)) = s[k]
      BY <1>2, <1>5, <3>1
    <3>3. W[k - 1] = p /\ W[k] = Upto(s, k)
      BY <2>2, <3>1, <3>2
    <3>4. F(W)[k] = Append(p, s[k])
      BY <2>2, <3>1, <3>2, <3>3
    <3> QED
      BY <3>2, <3>3, <3>4
  <2>3. CASE ~(k <= L)
    <3>1. /\ k # 0 /\ k - 1 \in 0 .. C /\ (k - 1 <= L => k - 1 = L) /\ (k - 1 # L => L < k - 1)
          /\ L \in 0 .. L
      BY <1>1, <2>3
    <3>2. PICK p \in Seq(Nodes) : p = Upto(s, L) /\ Len(p) = L /\ Next1(p) = ZeroMeta
      BY <1>2, <1>5, <3>1
    <3>3. W[k - 1] = p /\ W[k] = p
      BY <2>3, <3>1, <3>2
    <3>4. F(W)[k] = p
      BY <3>1, <3>2, <3>3
    <3> QED
      BY <3>3, <3>4
  <2> QED
    BY <2>1, <2>2, <2>3
<1> HIDE DEF F
<1>7. PICK g : g = F(g) /\ Chain = g[C]
  BY <1>3, <1>6
<1> USE DEF F
<1>8. g[0] = W[0] /\ \A k \in 1 .. C : g[k - 1] = W[k - 1] => g[k] = W[k]
  <2>1. \A k \in 0 .. C : g[k] = F(g)[k] /\ W[k] = F(W)[k]
    BY <1>6, <1>7
  <2>2. 0 \in 0 .. C /\ \A k \in 1 .. C : k \in 0 .. C /\ k # 0
    BY <1>1
  <2> HIDE DEF W
  <2> QED
    BY <2>1, <2>2
<1>9. g[C] = W[C]
  <2>1. PICK f, w : f = g /\ w = W
    OBVIOUS
  <2>2. f[0] = w[0] /\ \A k \in 1 .. C : f[k - 1] = w[k - 1] => f[k] = w[k]
    BY <1>8, <2>1
  <2> HIDE DEF W, F
  <2>3. \A k \in 0 .. C : f[k] = w[k]
    BY <2>2, SameByInduction, SMTT(60)
  <2>4. C \in 0 .. C
    BY <1>1
  <2> QED
    BY <2>1, <2>3, <2>4
<1>10. W[C] = s
  <2>1. C \in 0 .. C /\ (C <= L => C = L)
    BY <1>1
  <2> QED
    BY <1>2, <2>1
<1> HIDE DEF W
<1> QED
  BY <1>1, <1>7, <1>9, <1>10

LEMMA StackListIntact ==
    ASSUME NEW c, StackList(c)
    PROVE  StackIntact
<1>1. Chain = c /\ c \in Seq(Nodes)
  BY ChainIsList, StackFacts
<1>2. PICK P \in SUBSET Threads : P = Pushing \cup At({"take"})
  BY DEF Pushing, At
<1>3. \A t \in Threads : t \in P <=> pc[t] \in Building \cup {"take"}
  BY <1>2 DEF Pushing, At, Building
<1>4. \A t \in Threads : /\ Own[t] # NULL <=> t \in P
                         /\ t \in Pushing => Own[t] = GetRealAddr(new[t])
                         /\ t \in At({"take"}) => Own[t] = GetRealAddr(top[t])
  BY <1>3, StackFacts DEF Pushing, At, Building
<1>5. \A x : x \in inUse <=> (\E k \in 1 .. Len(c) : c[k] = x) \/ (\E u \in P : Own[u] = x)
  BY <1>4, StackAssumption DEF StackList, Held, StackTypes
<1>6. inUse = {c[k] : k \in DOMAIN c}
                \cup {GetRealAddr(new[t]) : t \in Pushing}
                \cup {GetRealAddr(top[t]) : t \in At({"take"})}
  <2>1. DOMAIN c = 1 .. Len(c)
    BY <1>1
  <2>2. Pushing \subseteq Threads /\ At({"take"}) \subseteq Threads
    BY DEF Pushing, At
  <2> DEFINE A == {c[k] : k \in DOMAIN c}
             B == {GetRealAddr(new[t]) : t \in Pushing}
             D == {GetRealAddr(top[t]) : t \in At({"take"})}
  <2>3. /\ \A x : x \in A <=> \E k \in 1 .. Len(c) : c[k] = x
        /\ \A x : x \in B <=> \E t \in Pushing : GetRealAddr(new[t]) = x
        /\ \A x : x \in D <=> \E t \in At({"take"}) : GetRealAddr(top[t]) = x
    BY <2>1
  <2> HIDE DEF A, B, D
  <2>4. inUse = A \cup B \cup D
    BY <1>2, <1>4, <1>5, <2>2, <2>3
  <2> QED
    BY <2>4 DEF A, B, D
<1>7. Cardinality(inUse) = Len(c) + Cardinality(P)
  <2>1. PICK o : o = Own
    OBVIOUS
  <2>2. /\ \A i, j \in 1 .. Len(c) : c[i] = c[j] => i = j
        /\ \A u, x \in P : o[u] = o[x] => u = x
        /\ \A u \in P : \A k \in 1 .. Len(c) : c[k] # o[u]
        /\ \A x : x \in inUse <=> (\E k \in 1 .. Len(c) : c[k] = x) \/ (\E u \in P : o[u] = x)
    BY <1>4, <1>5, <2>1 DEF StackList, List, Linked, Owns
  <2> QED
    BY <1>1, <2>2, NodesCounted, StackAssumption
<1>8. num = Len(c) + Cardinality(Popping) - Cardinality(At({"pushed"}))
  BY DEF StackList, Counted, CountAt, Popping, At
<1> QED
  BY <1>1, <1>2, <1>6, <1>7, <1>8 DEF StackIntact

-------------------------------------------------------------------------------
\* The abstract stack: the values of the list, and what each thread has taken.
LEMMA SameSequence ==
    ASSUME NEW V, NEW W, NEW s \in Seq(V), NEW r \in Seq(W), Len(s) = Len(r),
           \A k \in 1 .. Len(s) : s[k] = r[k]
    PROVE  s = r
OBVIOUS

ContentOf(c) ==
    /\ Content \in Seq(Values) /\ Len(Content) = Len(c)
    /\ \A k \in 1 .. Len(c) : Content[k] = data[c[k]]

LEMMA ContentFacts == \A c \in Seq(Nodes) : StackList(c) => ContentOf(c)
<1> SUFFICES ASSUME NEW c \in Seq(Nodes), StackList(c) PROVE ContentOf(c)
  OBVIOUS
<1>1. PICK L \in Nat : L = Len(c) /\ DOMAIN c = 1 .. L /\ \A k \in 1 .. L : data[c[k]] \in Values
  <2>1. Len(c) \in Nat /\ DOMAIN c = 1 .. Len(c)
    OBVIOUS
  <2> QED
    BY <2>1 DEF StackList, Held
<1>2. Content = [k \in 1 .. L |-> data[c[k]]]
  BY <1>1, ChainIsList DEF Content
<1>3. Content \in Seq(Values) /\ Len(Content) = L
  BY <1>1, <1>2
<1> QED
  BY <1>1, <1>2, <1>3 DEF ContentOf

LEMMA ContentNext == (\A c \in Seq(Nodes) : StackList(c) => ContentOf(c))'
BY ContentFacts, PTL

TakenBy == [t \in Threads |-> Taken(t)]

\* A step that leaves the list and what the nodes out of the pool hold.
LEMMA ContentSame ==
    ASSUME NEW c \in Seq(Nodes), StackList(c), StackList(c)',
           \A k \in 1 .. Len(c) : data'[c[k]] = data[c[k]]
    PROVE  Content' = Content
<1>1. ContentOf(c) /\ ContentOf(c)'
  BY ContentFacts, ContentNext
<1>2. PICK s \in Seq(Values), r \in Seq(Values) :
        s = Content /\ r = Content' /\ Len(s) = Len(c) /\ Len(r) = Len(c)
  BY <1>1 DEF ContentOf
<1>3. \A k \in 1 .. Len(c) : s[k] = data[c[k]] /\ r[k] = data'[c[k]]
  BY <1>1, <1>2 DEF ContentOf
<1>4. s = r
  BY <1>2, <1>3, SameSequence
<1> QED
  BY <1>2, <1>4

\* A thread that moves anywhere but to the CAS of Pop or from the end of one.
LEMMA TakenSame ==
    ASSUME StackTypes, NEW t \in Threads, \A u \in Threads \ {t} : /\ pc'[u] = pc[u]
                                                       /\ top'[u] = top[u] /\ val'[u] = val[u],
           \A u \in Threads \ {t} : pc[u] = "take" => data'[GetRealAddr(top[u])] = data[GetRealAddr(top[u])],
           Taken(t)' = Taken(t)
    PROVE  TakenBy' = TakenBy
<1>1. \A u \in Threads \ {t} : Taken(u)' = Taken(u)
  BY DEF Taken
<1> QED
  BY <1>1 DEF TakenBy

\* All steps but the two a Lifo sees in its content and the last of a Pop.
Quiet(t) ==
    \/ \E v \in Values : BeginPush(t, v)
    \/ ReadTop(t) \/ GetTag(t) \/ PushRead(t) \/ Link(t) \/ EndPush(t) \/ ReadNext(t)
    \/ TakeData(t)
    \/ Push(t) /\ pc'[t] # "pushed"
    \/ Pop(t) /\ pc'[t] # "take"

LEMMA QuietKeeps ==
    ASSUME NEW c \in Seq(Nodes), StackList(c), NEW t \in Threads, Quiet(t)
    PROVE  StackList(c)'
BY BeginPushKeeps, ReadTopKeeps, GetTagKeeps, PushReadKeeps, LinkKeeps, EndKeeps, ReadNextKeeps,
   TakeDataKeeps, FailKeeps DEF Quiet

LEMMA StepKinds ==
    ASSUME Next
    PROVE  \E t \in Threads : \/ Quiet(t) \/ EndPop(t)
                              \/ Push(t) /\ pc'[t] = "pushed"
                              \/ Pop(t) /\ pc'[t] = "take"
BY DEF Next, Step, PushStep, PopStep, BeginPop, Quiet

\* What the other threads see of a quiet step.
LEMMA QuietFrame ==
    ASSUME NEW c \in Seq(Nodes), StackList(c), NEW t \in Threads, Quiet(t)
    PROVE  /\ \A u \in Threads \ {t} : pc'[u] = pc[u] /\ top'[u] = top[u] /\ val'[u] = val[u]
           /\ \A n \in inUse : n # Own[t] => data'[n] = data[n]
           /\ pc[t] # "take" => \A n \in inUse : data'[n] = data[n]
           /\ Taken(t)' = Taken(t)
<1>1. /\ StackTypes /\ top \in [Threads -> Words(Nodes)] /\ new \in [Threads -> Words(Nodes)]
      /\ pc[t] = "take" => Own[t] = GetRealAddr(top[t])
  BY StackFacts
<1>2. CASE \E v \in Values : BeginPush(t, v)
  <2>1. PICK n \in Nodes, v \in Values :
          n \notin inUse /\ data' = [data EXCEPT ![n] = v] /\ pc[t] = "idle" /\ Goto(t, "tag")
          /\ UNCHANGED <<top, val>>
    BY <1>2 DEF BeginPush, NodePool!Alloc
  <2>2. \A i \in inUse : data'[i] = data[i]
    BY <1>1, <2>1 DEF StackTypes
  <2>3. pc'[t] = "tag" /\ \A u \in Threads \ {t} : pc'[u] = pc[u]
    BY <1>1, <2>1 DEF Goto, StackTypes
  <2>4. Taken(t)' = Taken(t)
    BY <2>1, <2>3 DEF Taken
  <2> QED
    BY <2>1, <2>2, <2>3, <2>4
<1>3. CASE TakeData(t)
  <2>1. PICK n \in {GetRealAddr(top[t])} :
          /\ pc[t] = "take" /\ Goto(t, "taken") /\ val' = [val EXCEPT ![t] = data[n]]
          /\ data' = [data EXCEPT ![n] = NoValue] /\ UNCHANGED top
    BY <1>3 DEF TakeData
  <2>2. pc'[t] = "taken" /\ \A u \in Threads \ {t} : pc'[u] = pc[u] /\ val'[u] = val[u]
    BY <1>1, <2>1 DEF Goto, StackTypes
  <2>3. Taken(t)' = Taken(t)
    BY <1>1, <2>1, <2>2 DEF Taken, StackTypes
  <2>4. \A i \in inUse : i # Own[t] => data'[i] = data[i]
    BY <1>1, <2>1 DEF StackTypes
  <2> QED
    BY <2>1, <2>2, <2>3, <2>4
<1>4. CASE ~TakeData(t) /\ ~(\E v \in Values : BeginPush(t, v))
  <2>1. PICK l \in Labels : Goto(t, l) /\ l \notin {"take", "taken"} /\ pc[t] \notin {"take", "taken"}
    <3>1. Push(t) /\ pc'[t] # "pushed" => pc[t] = "push" /\ Goto(t, "pushRead")
      BY <1>1 DEF Push, Goto, StackTypes
    <3>2. Pop(t) /\ pc'[t] # "take" => pc[t] = "pop" /\ Goto(t, "read")
      BY <1>1 DEF Pop, Goto, StackTypes
    <3>3. ReadTop(t) => pc[t] \in {"idle", "read"} /\ \E l \in {"idle", "next"} : Goto(t, l)
      BY DEF ReadTop
    <3>4. GetTag(t) => pc[t] = "tag" /\ Goto(t, "pushRead")
      BY DEF GetTag
    <3>5. PushRead(t) => pc[t] = "pushRead" /\ Goto(t, "link")
      BY DEF PushRead
    <3>6. Link(t) => pc[t] = "link" /\ Goto(t, "push")
      BY DEF Link
    <3>7. EndPush(t) => pc[t] = "pushed" /\ Goto(t, "idle")
      BY DEF EndPush, Return
    <3>8. ReadNext(t) => pc[t] = "next" /\ Goto(t, "pop")
      BY DEF ReadNext
    <3> QED
      BY <1>4, <3>1, <3>2, <3>3, <3>4, <3>5, <3>6, <3>7, <3>8 DEF Quiet, Labels
  <2>2. data' = data
    BY <1>4 DEF Quiet, ReadTop, GetTag, PushRead, Link, EndPush, ReadNext, Push, Pop, nodeVars
  <2>3. \A u \in Threads \ {t} : top'[u] = top[u] /\ val'[u] = val[u]
    <3>1. top' = top \/ \E w : top' = [top EXCEPT ![t] = w]
      BY <1>4 DEF Quiet, ReadTop, GetTag, PushRead, Link, EndPush, ReadNext, Push, Pop, Return
    <3>2. val' = val \/ val' = [val EXCEPT ![t] = NoValue]
      BY <1>4 DEF Quiet, ReadTop, GetTag, PushRead, Link, EndPush, ReadNext, Push, Pop, Return
    <3> QED
      BY <1>1, <3>1, <3>2 DEF StackTypes
  <2>4. pc'[t] = l /\ \A u \in Threads \ {t} : pc'[u] = pc[u]
    BY <1>1, <2>1 DEF Goto, StackTypes
  <2>5. Taken(t)' = Taken(t)
    BY <2>1, <2>4 DEF Taken
  <2> QED
    BY <2>2, <2>3, <2>4, <2>5
<1> QED
  BY <1>2, <1>3, <1>4

LEMMA QuietStutters ==
    ASSUME NEW c \in Seq(Nodes), StackList(c), NEW t \in Threads, Quiet(t)
    PROVE  Content' = Content /\ TakenBy' = TakenBy
<1>1. /\ StackTypes /\ StackList(c)'
      /\ \A k \in 1 .. Len(c) : c[k] \in inUse /\ (Own[t] # NULL => c[k] # Own[t])
      /\ \A u \in Threads : pc[u] = "take" => Own[u] = GetRealAddr(top[u]) /\ Own[u] \in inUse
                                              /\ Own[u] # NULL
  BY QuietKeeps, StackFacts DEF StackList, Held
<1>2. \A u \in Threads \ {t} : pc[u] = "take" => Own[u] # Own[t]
  BY <1>1 DEF StackList, List, Owns
<1>3. /\ \A u \in Threads \ {t} : pc'[u] = pc[u] /\ top'[u] = top[u] /\ val'[u] = val[u]
      /\ \A n \in inUse : n # Own[t] => data'[n] = data[n]
      /\ Taken(t)' = Taken(t)
  BY QuietFrame
<1>4. \A k \in 1 .. Len(c) : c[k] # Own[t]
  BY StackFacts
<1>5. Content' = Content
  BY <1>1, <1>3, <1>4, ContentSame
<1>6. TakenBy' = TakenBy
  BY <1>1, <1>2, <1>3, TakenSame
<1> QED
  BY <1>5, <1>6

\* The CAS of Push is where the element goes in.
LEMMA PushPushes ==
    ASSUME NEW c \in Seq(Nodes), StackList(c), NEW t \in Threads, Push(t), pc'[t] = "pushed"
    PROVE  \E v \in Values : Content' = <<v>> \o Content /\ TakenBy' = TakenBy
<1>1. PICK d \in Seq(Nodes), n \in inUse : d = <<n>> \o c /\ n = Own[t] /\ StackList(d)'
  BY PushPutsIn
<1>2. StackTypes /\ n \in Nodes /\ data[n] \in Values
  BY <1>1 DEF StackList, StackTypes, Held
<1>3. PICK v \in Values : v = data[n]
  BY <1>2
<1>4. ContentOf(c) /\ ContentOf(d)' /\ data' = data
  BY <1>1, ContentFacts, ContentNext DEF Push, nodeVars
<1>5. PICK L \in Nat : /\ L = Len(c) /\ Len(d) = L + 1 /\ d[1] = n
                       /\ \A k \in 2 .. L + 1 : d[k] = c[k - 1]
  BY <1>1, <1>2, ConsFacts
<1>6. PICK s \in Seq(Values), r \in Seq(Values) :
        /\ s = Content /\ r = Content' /\ Len(s) = L /\ Len(r) = L + 1
        /\ \A k \in 1 .. L : s[k] = data[c[k]]
        /\ \A k \in 1 .. L + 1 : r[k] = data[d[k]]
  <2>1. Content \in Seq(Values) /\ Len(Content) = L /\ \A k \in 1 .. L : Content[k] = data[c[k]]
    BY <1>4, <1>5 DEF ContentOf
  <2>2. /\ Content' \in Seq(Values) /\ Len(Content') = L + 1
        /\ \A k \in 1 .. L + 1 : Content'[k] = data'[d[k]]
    BY <1>4, <1>5 DEF ContentOf
  <2> QED
    BY <1>4, <2>1, <2>2
<1>7. PICK a \in Seq(Values) : /\ a = <<v>> \o s /\ Len(a) = L + 1 /\ a[1] = v
                               /\ \A k \in 2 .. L + 1 : a[k] = s[k - 1]
  <2>1. /\ <<v>> \o s \in Seq(Values) /\ Len(<<v>> \o s) = L + 1 /\ (<<v>> \o s)[1] = v
        /\ \A k \in 2 .. L + 1 : (<<v>> \o s)[k] = s[k - 1]
    BY <1>6, ConsFacts
  <2> QED
    BY <2>1
<1>8. \A k \in 1 .. L + 1 : r[k] = a[k]
  <2> TAKE k \in 1 .. L + 1
  <2>1. CASE k = 1
    BY <1>3, <1>5, <1>6, <1>7, <2>1
  <2>2. CASE k # 1
    <3>1. k \in 2 .. L + 1 /\ k - 1 \in 1 .. L
      BY <1>5, <2>2
    <3> QED
      BY <1>5, <1>6, <1>7, <3>1
  <2> QED
    BY <2>1, <2>2
<1>9. r = a
  BY <1>6, <1>7, <1>8, SameSequence
<1>10. TakenBy' = TakenBy
  <2>1. pc[t] = "push" /\ \A u \in Threads \ {t} : /\ pc'[u] = pc[u]
                                                   /\ top'[u] = top[u] /\ val'[u] = val[u]
    BY <1>2 DEF Push, Goto, StackTypes
  <2>2. Taken(t)' = Taken(t)
    BY <2>1 DEF Taken
  <2> QED
    BY <1>2, <1>4, <2>1, <2>2, TakenSame
<1> QED
  BY <1>6, <1>7, <1>9, <1>10

\* The CAS of Pop is where it comes out.
LEMMA PopPops ==
    ASSUME NEW c \in Seq(Nodes), StackList(c), NEW t \in Threads, Pop(t), pc'[t] = "take"
    PROVE  /\ TakenBy[t] = NoValue /\ Content # <<>> /\ Content' = Tail(Content)
           /\ TakenBy' = [TakenBy EXCEPT ![t] = Head(Content)]
<1>1. PICK d \in Seq(Nodes) : /\ d = Tail(c) /\ StackList(d)' /\ c # <<>>
                              /\ c[1] = GetRealAddr(top[t])
  BY PopTakesOut
<1>2. StackTypes /\ pc[t] = "pop" /\ UNCHANGED <<data, top, val>>
      /\ \A u \in Threads \ {t} : pc'[u] = pc[u]
  BY DEF StackList, Pop, nodeVars, Goto, StackTypes
<1>3. ContentOf(c) /\ ContentOf(d)'
  BY <1>1, ContentFacts, ContentNext
<1>4. PICK L \in Nat : Len(c) = L + 1
  <2>1. Len(c) \in Nat /\ Len(c) # 0
    BY <1>1
  <2>2. Len(c) - 1 \in Nat /\ Len(c) = (Len(c) - 1) + 1
    BY <2>1
  <2> QED
    BY <2>2
<1>5. Len(d) = L /\ \A k \in 1 .. L : d[k] = c[k + 1]
  BY <1>1, <1>4, TailFacts
<1>6. PICK s \in Seq(Values), r \in Seq(Values) :
        /\ s = Content /\ r = Content' /\ Len(s) = L + 1 /\ Len(r) = L
        /\ \A k \in 1 .. L + 1 : s[k] = data[c[k]]
        /\ \A k \in 1 .. L : r[k] = data[d[k]]
  <2>1. /\ Content \in Seq(Values) /\ Len(Content) = L + 1
        /\ \A k \in 1 .. L + 1 : Content[k] = data[c[k]]
    BY <1>3, <1>4 DEF ContentOf
  <2>2. Content' \in Seq(Values) /\ Len(Content') = L /\ \A k \in 1 .. L : Content'[k] = data'[d[k]]
    BY <1>3, <1>5 DEF ContentOf
  <2> QED
    BY <1>2, <2>1, <2>2
<1>7. PICK a \in Seq(Values) : a = Tail(s) /\ Len(a) = L /\ \A k \in 1 .. L : a[k] = s[k + 1]
  <2>1. Tail(s) \in Seq(Values) /\ Len(Tail(s)) = L /\ \A k \in 1 .. L : Tail(s)[k] = s[k + 1]
    BY <1>4, <1>6, TailFacts
  <2> QED
    BY <2>1
<1>8. Head(s) = data[GetRealAddr(top[t])] /\ s # <<>>
  <2>1. Head(s) = s[1] /\ 1 \in 1 .. L + 1
    BY <1>6, TailFacts
  <2> QED
    BY <1>1, <1>6, <2>1
<1>9. \A k \in 1 .. L : r[k] = a[k]
  <2>1. \A k \in 1 .. L : k + 1 \in 1 .. L + 1
    OBVIOUS
  <2> QED
    BY <1>5, <1>6, <1>7, <2>1
<1>10. r = a
  BY <1>6, <1>7, <1>9, SameSequence
<1>11. TakenBy[t] = NoValue /\ TakenBy' = [TakenBy EXCEPT ![t] = Head(s)]
  <2>1. Taken(t) = NoValue /\ Taken(t)' = Head(s)
    BY <1>2, <1>8 DEF Taken
  <2>2. \A u \in Threads \ {t} : Taken(u)' = Taken(u)
    BY <1>2 DEF Taken
  <2> QED
    BY <2>1, <2>2 DEF TakenBy
<1> QED
  BY <1>6, <1>7, <1>8, <1>10, <1>11

LEMMA EndPopReturns ==
    ASSUME NEW c \in Seq(Nodes), StackList(c), NEW t \in Threads, EndPop(t)
    PROVE  Content' = Content /\ TakenBy' = [TakenBy EXCEPT ![t] = NoValue]
<1>1. StackList(c)' /\ data' = data
  BY EndKeeps DEF EndPop, nodeVars
<1>2. Content' = Content
  BY <1>1, ContentSame
<1>3. /\ StackTypes /\ pc'[t] = "idle"
      /\ \A u \in Threads \ {t} : pc'[u] = pc[u] /\ top'[u] = top[u] /\ val'[u] = val[u]
  BY DEF StackList, EndPop, Return, Goto, StackTypes
<1>4. Taken(t)' = NoValue /\ \A u \in Threads \ {t} : Taken(u)' = Taken(u)
  BY <1>1, <1>3 DEF Taken
<1> QED
  BY <1>2, <1>4 DEF TakenBy

StackInv == \E c \in Seq(Nodes) : StackList(c)

LEMMA StackInvInductive ==
    /\ Init => StackInv
    /\ StackInv /\ [Next]_vars => StackInv'
<1>1. Init => StackInv
  <2>1. <<>> \in Seq(Nodes)
    OBVIOUS
  <2> QED
    BY <2>1, InitKeeps DEF StackInv
<1>2. ASSUME StackInv, Next PROVE StackInv'
  <2>1. PICK c \in Seq(Nodes) : StackList(c)
    BY <1>2 DEF StackInv
  <2>2. PICK t \in Threads : \/ Quiet(t) \/ EndPop(t)
                             \/ Push(t) /\ pc'[t] = "pushed"
                             \/ Pop(t) /\ pc'[t] = "take"
    BY <1>2, StepKinds
  <2>3. \E d \in Seq(Nodes) : StackList(d)'
    BY <2>1, <2>2, QuietKeeps, EndKeeps, PushPutsIn, PopTakesOut
  <2> QED
    BY <2>3 DEF StackInv
<1>3. ASSUME StackInv, UNCHANGED vars PROVE StackInv'
  <2>1. PICK c \in Seq(Nodes) : StackList(c)
    BY <1>3 DEF StackInv
  <2>2. Own' = Own
    BY <1>3 DEF vars, Own
  <2>3. StackList(c)'
    BY <1>3, <2>1, <2>2 DEF vars, stackVars, nodeVars, StackList, StackTypes, Held, Counted
  <2> QED
    BY <2>3 DEF StackInv
<1> QED
  BY <1>1, <1>2, <1>3

LEMMA StackImplements ==
    /\ Init => Lifo!Init
    /\ StackInv /\ [Next]_vars => [Lifo!Next]_<<Content, TakenBy>>
<1>1. ASSUME Init PROVE Lifo!Init
  <2>1. PICK c \in Seq(Nodes) : c = <<>> /\ Len(c) = 0
    <3>1. <<>> \in Seq(Nodes) /\ Len(<<>>) = 0
      OBVIOUS
    <3> QED
      BY <3>1
  <2>2. Content \in Seq(Values) /\ Len(Content) = 0
    BY <1>1, <2>1, InitKeeps, ContentFacts DEF ContentOf
  <2>3. Content = <<>>
    BY <2>2
  <2>4. \A t \in Threads : Taken(t) = NoValue
    BY <1>1 DEF Init, Taken
  <2> QED
    BY <2>3, <2>4 DEF Lifo!Init
<1>2. ASSUME StackInv, Next PROVE [Lifo!Next]_<<Content, TakenBy>>
  <2>1. PICK c \in Seq(Nodes) : StackList(c)
    BY <1>2 DEF StackInv
  <2>2. PICK t \in Threads : \/ Quiet(t) \/ EndPop(t)
                             \/ Push(t) /\ pc'[t] = "pushed"
                             \/ Pop(t) /\ pc'[t] = "take"
    BY <1>2, StepKinds
  <2>3. CASE Quiet(t)
    BY <2>1, <2>3, QuietStutters
  <2>4. CASE EndPop(t)
    <3>1. Content' = Content /\ TakenBy' = [TakenBy EXCEPT ![t] = NoValue]
      BY <2>1, <2>4, EndPopReturns
    <3>2. Lifo!Return(t)
      BY <3>1 DEF Lifo!Return, TakenBy
    <3> QED
      BY <3>2 DEF Lifo!Next
  <2>5. CASE Push(t) /\ pc'[t] = "pushed"
    <3>1. PICK v \in Values : Content' = <<v>> \o Content /\ TakenBy' = TakenBy
      BY <2>1, <2>5, PushPushes
    <3>2. Lifo!Push(v)
      BY <3>1 DEF Lifo!Push, TakenBy
    <3> QED
      BY <3>2 DEF Lifo!Next
  <2>6. CASE Pop(t) /\ pc'[t] = "take"
    <3>1. /\ TakenBy[t] = NoValue /\ Content # <<>> /\ Content' = Tail(Content)
          /\ TakenBy' = [TakenBy EXCEPT ![t] = Head(Content)]
      BY <2>1, <2>6, PopPops
    <3>2. Lifo!Pop(t)
      BY <3>1 DEF Lifo!Pop, TakenBy
    <3> QED
      BY <3>2 DEF Lifo!Next
  <2> QED
    BY <2>2, <2>3, <2>4, <2>5, <2>6
<1>3. ASSUME UNCHANGED vars PROVE [Lifo!Next]_<<Content, TakenBy>>
  <2>1. Content' = Content /\ \A t \in Threads : Taken(t)' = Taken(t)
    BY <1>3 DEF vars, stackVars, nodeVars, Content, Chain, Taken
  <2> QED
    BY <2>1 DEF TakenBy
<1> QED
  BY <1>1, <1>2, <1>3

-------------------------------------------------------------------------------
\* The pool: the same list, of the objects nobody has.
LEMMA SameWords ==
    /\ Pool!ZeroMeta = ZeroMeta
    /\ \A m : Pool!GetRealAddr(m) = GetRealAddr(m)
    /\ \A i, n : Pool!GetMetaAddr(i, n) = GetMetaAddr(i, n)
    /\ \A i : Pool!IncCnt(i) = IncCnt(i)
BY DEF Pool!ZeroMeta, Pool!GetRealAddr, Pool!GetMetaAddr, Pool!IncCnt,
       ZeroMeta, GetRealAddr, GetMetaAddr, IncCnt

LEMMA SameCount == \A S : Pool!Cardinality(S) = Cardinality(S)
BY DEF Pool!Cardinality, Cardinality

PoolLabels == {"idle", "read", "new", "next", "pop", "taken", "pushRead", "link", "push", "pushed"}

PoolNode(l, nw, tp) ==
    IF l \in Pushes THEN GetRealAddr(nw) ELSE IF l = "taken" THEN GetRealAddr(tp) ELSE NULL

PoolOwn == [t \in Threads |-> PoolNode(pPc[t], pNew[t], pTop[t])]

PoolTypes ==
    /\ pMetaCnt \in Counters /\ pCapacity \in Int /\ pSize \in Int
    /\ pHeap \in SUBSET Values /\ pLive \in SUBSET pHeap
    /\ pPc \in [Threads -> PoolLabels] /\ pCleared \in BOOLEAN

\* An object that exists is handed out, or in the list, or some thread's own.
PoolHeld(f) ==
    /\ \A k \in 1 .. Len(f) : f[k] \notin pLive /\ (f[k] \in pHeap <=> ~pCleared)
    /\ \A t \in Threads : PoolOwn[t] # NULL => PoolOwn[t] \in pHeap /\ PoolOwn[t] \notin pLive
    /\ \A n \in pHeap : \/ n \in pLive
                        \/ \E k \in 1 .. Len(f) : f[k] = n
                        \/ \E t \in Threads : PoolOwn[t] = n
    /\ \A t \in Threads : pPc[t] = "taken" => PoolOwn[t] # NULL
    /\ pCleared => \A t \in Threads : pPc[t] = "idle"

PoolCounted(f) ==
    /\ pCapacity = Cardinality(pHeap)
    /\ pSize = (IF pCleared THEN 0 ELSE Len(f))
                 + CountAt(Threads, pPc, {"taken"}) - CountAt(Threads, pPc, {"pushed"})

PoolList(f) ==
    /\ PoolTypes
    /\ List(Values, Threads, f, pMetaTop, pMetaNext, pPc, pTop, pNew, PoolOwn)
    /\ PoolHeld(f)
    /\ PoolCounted(f)

LEMMA PoolFacts ==
    ASSUME NEW f, PoolList(f)
    PROVE  /\ PoolTypes /\ List(Values, Threads, f, pMetaTop, pMetaNext, pPc, pTop, pNew, PoolOwn)
           /\ f \in Seq(Values) /\ Len(f) \in Nat /\ NULL \notin Values
           /\ pMetaTop \in Words(Values) /\ pMetaNext \in [Values -> Words(Values)]
           /\ pTop \in [Threads -> Words(Values)] /\ pNew \in [Threads -> Words(Values)]
           /\ \A t \in Threads :
                /\ PoolOwn[t] = PoolNode(pPc[t], pNew[t], pTop[t])
                /\ pPc[t] \in Pushes => PoolOwn[t] = GetRealAddr(pNew[t]) /\ PoolOwn[t] # NULL
                /\ pPc[t] = "taken" => PoolOwn[t] = GetRealAddr(pTop[t]) /\ PoolOwn[t] # NULL
                /\ pPc[t] \notin Pushes \cup {"taken"} => PoolOwn[t] = NULL
                /\ PoolOwn[t] # NULL => PoolOwn[t] \in Values /\ \A k \in 1 .. Len(f) : f[k] # PoolOwn[t]
                /\ pPc[t] # "idle" => ~pCleared
           /\ pMetaTop # ZeroMeta => 1 \in 1 .. Len(f) /\ f[1] = GetRealAddr(pMetaTop)
<1>1. pMetaTop # ZeroMeta => 1 \in 1 .. Len(f) /\ f[1] = GetRealAddr(pMetaTop)
  <2> SUFFICES ASSUME pMetaTop # ZeroMeta PROVE 1 \in 1 .. Len(f) /\ f[1] = GetRealAddr(pMetaTop)
    OBVIOUS
  <2>1. f \in Seq(Values) /\ Len(f) \in Nat
    BY DEF PoolList, List, Linked
  <2>2. Len(f) # 0
    BY <2>1 DEF PoolList, List, Linked, WordTo
  <2>3. 1 \in 1 .. Len(f)
    BY <2>1, <2>2
  <2> QED
    BY <2>3 DEF PoolList, List, Linked, WordTo
<1>2. \A t \in Threads :
        /\ PoolOwn[t] = PoolNode(pPc[t], pNew[t], pTop[t])
        /\ pPc[t] \in Pushes => PoolOwn[t] = GetRealAddr(pNew[t]) /\ PoolOwn[t] # NULL
        /\ pPc[t] = "taken" => PoolOwn[t] = GetRealAddr(pTop[t]) /\ PoolOwn[t] # NULL
        /\ pPc[t] \notin Pushes \cup {"taken"} => PoolOwn[t] = NULL
        /\ PoolOwn[t] # NULL => PoolOwn[t] \in Values /\ \A k \in 1 .. Len(f) : f[k] # PoolOwn[t]
        /\ pPc[t] # "idle" => ~pCleared
  BY DEF PoolList, List, Owns, PoolHeld, PoolOwn, PoolNode, Pushes
<1> QED
  BY <1>1, <1>2, ObjectsAssumption DEF PoolList, List, Linked, Tags

LEMMA PoolSteps ==
    ASSUME PoolTypes, NEW t \in Threads, NEW l \in PoolLabels, Pool!Goto(t, l),
           NEW d, List(Values, Threads, d, pMetaTop', pMetaNext', pPc, pTop, pNew, PoolOwn),
           pTop' \in [Threads -> Words(Values)], pNew' \in [Threads -> Words(Values)],
           \A u \in Threads \ {t} : pTop'[u] = pTop[u] /\ pNew'[u] = pNew[u],
           l \in Looks => /\ GetRealAddr(pTop'[t]) \in Values
                          /\ \A u \in Threads \ {t} : pPc[u] \in Pushes => pNew[u] # pTop'[t],
           l \in Pushes => /\ GetRealAddr(pNew'[t]) # NULL
                           /\ \A u \in Threads \ {t} : pPc[u] \in Looks => pTop[u] # pNew'[t],
           l = "pop" => \A k \in 1 .. Len(d) :
                          WordTo(d, pMetaTop', pMetaNext', k) = pTop'[t] => pNew'[t] = pMetaNext'[d[k]],
           l = "push" => pMetaNext'[GetRealAddr(pNew'[t])] = pTop'[t],
           \/ PoolNode(l, pNew'[t], pTop'[t]) \in {NULL, PoolOwn[t]}
           \/ /\ PoolNode(l, pNew'[t], pTop'[t]) \in Values
              /\ \A k \in 1 .. Len(d) : d[k] # PoolNode(l, pNew'[t], pTop'[t])
              /\ \A u \in Threads \ {t} : PoolOwn[u] # PoolNode(l, pNew'[t], pTop'[t])
    PROVE  /\ pPc' \in [Threads -> PoolLabels] /\ pPc'[t] = l
           /\ \A u \in Threads \ {t} : pPc'[u] = pPc[u] /\ PoolOwn'[u] = PoolOwn[u]
           /\ PoolOwn'[t] = PoolNode(l, pNew'[t], pTop'[t])
           /\ List(Values, Threads, d, pMetaTop', pMetaNext', pPc', pTop', pNew', PoolOwn')
<1>1. pPc' \in [Threads -> PoolLabels] /\ pPc'[t] = l /\ \A u \in Threads \ {t} : pPc'[u] = pPc[u]
  BY DEF PoolTypes, Pool!Goto
<1>2. /\ \A u \in Threads \ {t} : PoolOwn'[u] = PoolOwn[u]
      /\ PoolOwn'[t] = PoolNode(l, pNew'[t], pTop'[t])
  BY <1>1 DEF PoolOwn
<1>3. PICK o, o2 : o = PoolOwn /\ o2 = PoolOwn'
  OBVIOUS
<1>4. o2[t] # NULL => /\ o2[t] \in Values /\ \A k \in 1 .. Len(d) : d[k] # o2[t]
                      /\ \A u \in Threads \ {t} : o[u] # o2[t]
  BY <1>2, <1>3 DEF List, Owns
<1>5. l \in Pushes => o2[t] # NULL /\ o2[t] = GetRealAddr(pNew'[t])
  BY <1>2, <1>3 DEF PoolNode
<1>6. List(Values, Threads, d, pMetaTop', pMetaNext', pPc', pTop', pNew', o2)
  <2>1. PICK m, nx, p, tp, nw, p2, tp2, nw2 :
          /\ m = pMetaTop' /\ nx = pMetaNext' /\ p = pPc /\ tp = pTop /\ nw = pNew
          /\ p2 = pPc' /\ tp2 = pTop' /\ nw2 = pNew'
    OBVIOUS
  <2>2. /\ List(Values, Threads, d, m, nx, p, tp, nw, o)
        /\ Alone(Values, Threads, d, m, nx, p, tp, nw, o, t, p2, tp2, nw2, o2)
    BY <1>1, <1>2, <1>3, <1>4, <1>5, <2>1 DEF Alone
  <2>3. List(Values, Threads, d, m, nx, p2, tp2, nw2, o2)
    BY <2>2, LocalStep
  <2> QED
    BY <2>1, <2>3
<1> QED
  BY <1>1, <1>2, <1>3, <1>6

PoolWeight(l) == IF l = "taken" THEN 1 ELSE IF l = "pushed" THEN -1 ELSE 0

LEMMA SizeKept ==
    ASSUME NEW c \in Seq(Values), NEW d \in Seq(Values), PoolCounted(c), pSize \in Int,
           NEW t \in Threads, \A u \in Threads \ {t} : pPc'[u] = pPc[u],
           ~pCleared, ~pCleared', pCapacity' = Cardinality(pHeap'),
           pSize' = pSize + (Len(d) - Len(c)) + (PoolWeight(pPc'[t]) - PoolWeight(pPc[t]))
    PROVE  PoolCounted(d)'
<1>0. PICK p, p2 : p = pPc /\ p2 = pPc' /\ \A u \in Threads \ {t} : p2[u] = p[u]
  OBVIOUS
<1>1. PICK a, a2 \in Nat, i, i2 \in {0, 1} :
        /\ a = CountAt(Threads, pPc, {"taken"}) /\ a2 = CountAt(Threads, pPc', {"taken"})
        /\ a2 = a + i2 - i
        /\ (i = 1 <=> pPc[t] \in {"taken"}) /\ (i2 = 1 <=> pPc'[t] \in {"taken"})
  BY <1>0, CountMoves, StackAssumption
<1>2. PICK b, b2 \in Nat, j, j2 \in {0, 1} :
        /\ b = CountAt(Threads, pPc, {"pushed"}) /\ b2 = CountAt(Threads, pPc', {"pushed"})
        /\ b2 = b + j2 - j
        /\ (j = 1 <=> pPc[t] \in {"pushed"}) /\ (j2 = 1 <=> pPc'[t] \in {"pushed"})
  BY <1>0, CountMoves, StackAssumption
<1>3. PoolWeight(pPc[t]) = i - j /\ PoolWeight(pPc'[t]) = i2 - j2
  BY <1>1, <1>2 DEF PoolWeight
<1>4. PICK L \in Nat, M \in Nat, n \in Int : L = Len(c) /\ M = Len(d) /\ n = pSize /\ n = L + a - b
  <2>1. pSize = Len(c) + a - b
    BY <1>1, <1>2 DEF PoolCounted
  <2>2. Len(c) \in Nat /\ Len(d) \in Nat
    OBVIOUS
  <2> QED
    BY <2>1, <2>2
<1>5. pSize' = n + (M - L) + ((i2 - j2) - (i - j))
  BY <1>3, <1>4
<1>6. pSize' = M + a2 - b2
  <2>1. n = L + a - b /\ a2 = a + i2 - i /\ b2 = b + j2 - j
    BY <1>1, <1>2, <1>4
  <2> QED
    BY <1>5, <2>1
<1> QED
  BY <1>1, <1>2, <1>4, <1>6 DEF PoolCounted

\* A step that leaves the list and all objects where they are.
LEMMA PoolSame ==
    ASSUME NEW f, PoolList(f), NEW t \in Threads,
           List(Values, Threads, f, pMetaTop', pMetaNext', pPc', pTop', pNew', PoolOwn'),
           pPc' \in [Threads -> PoolLabels], \A u \in Threads \ {t} : pPc'[u] = pPc[u],
           \A u \in Threads : PoolOwn'[u] = PoolOwn[u],
           UNCHANGED <<pMetaCnt, pCapacity, pHeap, pLive, pCleared>>, ~pCleared, pPc'[t] # "taken",
           pSize' = pSize + (PoolWeight(pPc'[t]) - PoolWeight(pPc[t]))
    PROVE  PoolList(f)'
<1>1. /\ PoolTypes /\ f \in Seq(Values) /\ PoolWeight(pPc'[t]) \in Int /\ PoolWeight(pPc[t]) \in Int
      /\ pSize \in Int /\ PoolCounted(f) /\ Len(f) \in Nat
  BY DEF PoolList, PoolTypes, PoolWeight, List, Linked
<1>2. PoolTypes'
  BY <1>1 DEF PoolTypes
<1>3. PoolHeld(f)'
  BY DEF PoolList, PoolHeld
<1>4. PoolCounted(f)'
  <2>1. pSize' = pSize + (Len(f) - Len(f)) + (PoolWeight(pPc'[t]) - PoolWeight(pPc[t]))
    BY <1>1
  <2>2. pCapacity' = Cardinality(pHeap')
    BY <1>1 DEF PoolCounted
  <2> QED
    BY <1>1, <2>1, <2>2, SizeKept
<1> QED
  BY <1>2, <1>3, <1>4 DEF PoolList

LEMMA PoolReadTopKeeps ==
    ASSUME NEW f, PoolList(f), NEW t \in Threads, Pool!ReadTop(t)
    PROVE  PoolList(f)'
<1>1. /\ pPc[t] \in {"idle", "read"} /\ pTop' = [pTop EXCEPT ![t] = pMetaTop] /\ ~pCleared
      /\ UNCHANGED <<pMetaTop, pMetaCnt, pSize, pMetaNext, pNew, pCapacity, pHeap, pLive, pCleared>>
  BY DEF Pool!ReadTop, Pool!poolVars
<1>2. PICK l \in {"new", "next"} : Pool!Goto(t, l) /\ (l = "next" => pMetaTop # ZeroMeta)
  BY SameWords DEF Pool!ReadTop
<1>3. /\ PoolTypes /\ List(Values, Threads, f, pMetaTop', pMetaNext', pPc, pTop, pNew, PoolOwn)
      /\ pTop' \in [Threads -> Words(Values)] /\ pNew' \in [Threads -> Words(Values)]
      /\ \A u \in Threads \ {t} : pTop'[u] = pTop[u] /\ pNew'[u] = pNew[u]
      /\ pTop'[t] = pMetaTop /\ pNew'[t] = pNew[t] /\ PoolOwn[t] = NULL /\ l \in PoolLabels
  BY <1>1, <1>2, PoolFacts DEF Pushes, PoolLabels
<1>4. l \in Looks => /\ GetRealAddr(pTop'[t]) \in Values
                     /\ \A u \in Threads \ {t} : pPc[u] \in Pushes => pNew[u] # pTop'[t]
  <2> SUFFICES ASSUME pMetaTop # ZeroMeta
               PROVE  /\ GetRealAddr(pMetaTop) \in Values
                      /\ \A u \in Threads \ {t} : pPc[u] \in Pushes => pNew[u] # pMetaTop
    BY <1>2, <1>3 DEF Looks
  <2>1. 1 \in 1 .. Len(f) /\ f[1] = GetRealAddr(pMetaTop) /\ f[1] \in Values
    BY PoolFacts
  <2>2. \A u \in Threads : pPc[u] \in Pushes => PoolOwn[u] = GetRealAddr(pNew[u]) /\ f[1] # PoolOwn[u]
    BY <2>1, PoolFacts
  <2> QED
    BY <2>1, <2>2
<1>5. PoolNode(l, pNew'[t], pTop'[t]) = NULL /\ l \notin Pushes /\ l # "pop" /\ l # "push"
  BY <1>2 DEF PoolNode, Pushes
<1>6. /\ pPc' \in [Threads -> PoolLabels] /\ pPc'[t] = l
      /\ \A u \in Threads \ {t} : pPc'[u] = pPc[u] /\ PoolOwn'[u] = PoolOwn[u]
      /\ PoolOwn'[t] = NULL
      /\ List(Values, Threads, f, pMetaTop', pMetaNext', pPc', pTop', pNew', PoolOwn')
  BY <1>2, <1>3, <1>4, <1>5, PoolSteps
<1>7. pSize' = pSize + (PoolWeight(pPc'[t]) - PoolWeight(pPc[t]))
  BY <1>1, <1>2, <1>3, <1>6 DEF PoolTypes, PoolWeight
<1>8. pPc'[t] # "taken" /\ \A u \in Threads : PoolOwn'[u] = PoolOwn[u]
  BY <1>2, <1>3, <1>6
<1> QED
  BY <1>1, <1>6, <1>7, <1>8, PoolSame

LEMMA PoolReadNextKeeps ==
    ASSUME NEW f, PoolList(f), NEW t \in Threads, Pool!ReadNext(t)
    PROVE  PoolList(f)'
<1>1. PICK l \in {"pop"} :
        /\ pPc[t] = "next" /\ pNew' = [pNew EXCEPT ![t] = pMetaNext[GetRealAddr(pTop[t])]]
        /\ Pool!Goto(t, l)
        /\ UNCHANGED <<pMetaTop, pMetaCnt, pSize, pMetaNext, pTop, pCapacity, pHeap, pLive, pCleared>>
  BY SameWords DEF Pool!ReadNext, Pool!poolVars, Pool!Goto
<1>2. /\ GetRealAddr(pTop[t]) \in Values /\ ~pCleared
      /\ \A u \in Threads \ {t} : pPc[u] \in Pushes => pNew[u] # pTop[t]
  BY <1>1, PoolFacts DEF PoolList, List, Tags, Looks
<1>3. /\ PoolTypes /\ List(Values, Threads, f, pMetaTop', pMetaNext', pPc, pTop, pNew, PoolOwn)
      /\ pTop' \in [Threads -> Words(Values)] /\ pNew' \in [Threads -> Words(Values)]
      /\ \A u \in Threads \ {t} : pTop'[u] = pTop[u] /\ pNew'[u] = pNew[u]
      /\ pTop'[t] = pTop[t] /\ pNew'[t] = pMetaNext[GetRealAddr(pTop[t])] /\ PoolOwn[t] = NULL
      /\ l \in PoolLabels
  BY <1>1, <1>2, PoolFacts DEF Pushes, PoolLabels
<1>4. \A k \in 1 .. Len(f) : WordTo(f, pMetaTop', pMetaNext', k) = pTop'[t] => pNew'[t] = pMetaNext'[f[k]]
  BY <1>1, <1>3, PoolFacts DEF List, Linked
<1>5. PoolNode(l, pNew'[t], pTop'[t]) = NULL /\ l \notin Pushes /\ l # "push"
  BY DEF PoolNode, Pushes
<1>6. /\ pPc' \in [Threads -> PoolLabels] /\ pPc'[t] = l
      /\ \A u \in Threads \ {t} : pPc'[u] = pPc[u] /\ PoolOwn'[u] = PoolOwn[u]
      /\ PoolOwn'[t] = NULL
      /\ List(Values, Threads, f, pMetaTop', pMetaNext', pPc', pTop', pNew', PoolOwn')
  <2>1. l \in Looks => /\ GetRealAddr(pTop'[t]) \in Values
                       /\ \A u \in Threads \ {t} : pPc[u] \in Pushes => pNew[u] # pTop'[t]
    BY <1>2, <1>3
  <2>2. Pool!Goto(t, l)
    BY <1>1
  <2> QED
    BY <1>3, <1>4, <1>5, <2>1, <2>2, PoolSteps
<1>7. pSize' = pSize + (PoolWeight(pPc'[t]) - PoolWeight(pPc[t]))
  BY <1>1, <1>3, <1>6 DEF PoolTypes, PoolWeight
<1>8. pPc'[t] # "taken" /\ \A u \in Threads : PoolOwn'[u] = PoolOwn[u]
  BY <1>3, <1>6
<1> QED
  BY <1>1, <1>2, <1>6, <1>7, <1>8, PoolSame

LEMMA PoolFailKeeps ==
    ASSUME NEW f, PoolList(f), NEW t \in Threads,
           \/ Pool!Pop(t) /\ pPc'[t] # "taken"
           \/ Pool!Push(t) /\ pPc'[t] # "pushed"
    PROVE  PoolList(f)'
<1>1. PICK l \in {"read", "pushRead"} :
        /\ Pool!Goto(t, l) /\ pPc[t] = IF l = "read" THEN "pop" ELSE "push"
        /\ UNCHANGED <<pMetaTop, pMetaCnt, pSize, pMetaNext, pTop, pNew, pCapacity, pHeap, pLive,
                       pCleared>>
  BY DEF Pool!Pop, Pool!Push, Pool!Goto, PoolList, PoolTypes
<1>2. /\ PoolTypes /\ List(Values, Threads, f, pMetaTop', pMetaNext', pPc, pTop, pNew, PoolOwn)
      /\ pTop' \in [Threads -> Words(Values)] /\ pNew' \in [Threads -> Words(Values)]
      /\ \A u \in Threads \ {t} : pTop'[u] = pTop[u] /\ pNew'[u] = pNew[u]
      /\ pTop'[t] = pTop[t] /\ pNew'[t] = pNew[t] /\ l \in PoolLabels /\ ~pCleared
  BY <1>1, PoolFacts DEF PoolLabels
<1>3. PoolNode(l, pNew'[t], pTop'[t]) = PoolOwn[t]
  BY <1>1, <1>2, PoolFacts DEF PoolNode, Pushes
<1>4. l \in Pushes => /\ GetRealAddr(pNew'[t]) # NULL
                      /\ \A u \in Threads \ {t} : pPc[u] \in Looks => pTop[u] # pNew'[t]
  <2> SUFFICES ASSUME l = "pushRead"
               PROVE  /\ GetRealAddr(pNew'[t]) # NULL
                      /\ \A u \in Threads \ {t} : pPc[u] \in Looks => pTop[u] # pNew'[t]
    BY <1>1 DEF Pushes
  <2>1. pPc[t] \in Pushes
    BY <1>1 DEF Pushes
  <2> QED
    BY <1>2, <2>1, PoolFacts DEF List, Tags
<1>5. l \notin Looks /\ l # "pop" /\ l # "push"
  BY <1>1 DEF Looks
<1>6. /\ pPc' \in [Threads -> PoolLabels] /\ pPc'[t] = l
      /\ \A u \in Threads \ {t} : pPc'[u] = pPc[u] /\ PoolOwn'[u] = PoolOwn[u]
      /\ PoolOwn'[t] = PoolOwn[t]
      /\ List(Values, Threads, f, pMetaTop', pMetaNext', pPc', pTop', pNew', PoolOwn')
  BY <1>1, <1>2, <1>3, <1>4, <1>5, PoolSteps
<1>7. pSize' = pSize + (PoolWeight(pPc'[t]) - PoolWeight(pPc[t]))
  BY <1>1, <1>2, <1>6 DEF PoolTypes, PoolWeight
<1>8. pPc'[t] # "taken" /\ \A u \in Threads : PoolOwn'[u] = PoolOwn[u]
  BY <1>1, <1>6
<1> QED
  BY <1>1, <1>2, <1>6, <1>7, <1>8, PoolSame

LEMMA PoolPushReadKeeps ==
    ASSUME NEW f, PoolList(f), NEW t \in Threads, Pool!PushRead(t)
    PROVE  PoolList(f)'
<1>1. PICK l \in {"link"} :
        /\ pPc[t] = "pushRead" /\ pTop' = [pTop EXCEPT ![t] = pMetaTop] /\ Pool!Goto(t, l)
        /\ UNCHANGED <<pMetaTop, pMetaCnt, pSize, pMetaNext, pNew, pCapacity, pHeap, pLive, pCleared>>
  BY DEF Pool!PushRead, Pool!poolVars
<1>2. /\ PoolTypes /\ List(Values, Threads, f, pMetaTop', pMetaNext', pPc, pTop, pNew, PoolOwn)
      /\ pTop' \in [Threads -> Words(Values)] /\ pNew' \in [Threads -> Words(Values)]
      /\ \A u \in Threads \ {t} : pTop'[u] = pTop[u] /\ pNew'[u] = pNew[u]
      /\ pTop'[t] = pMetaTop /\ pNew'[t] = pNew[t] /\ l \in PoolLabels
      /\ PoolOwn[t] = GetRealAddr(pNew[t]) /\ PoolOwn[t] # NULL /\ ~pCleared
  BY <1>1, PoolFacts DEF PoolLabels, Pushes
<1>3. l \in Pushes => /\ GetRealAddr(pNew'[t]) # NULL
                      /\ \A u \in Threads \ {t} : pPc[u] \in Looks => pTop[u] # pNew'[t]
  BY <1>1, <1>2 DEF List, Tags, Pushes
<1>4. l \notin Looks /\ l # "pop" /\ l # "push" /\ PoolNode(l, pNew'[t], pTop'[t]) = PoolOwn[t]
  BY <1>2 DEF Looks, PoolNode, Pushes
<1>5. Pool!Goto(t, l)
  BY <1>1
<1>6. /\ pPc' \in [Threads -> PoolLabels] /\ pPc'[t] = l
      /\ \A u \in Threads \ {t} : pPc'[u] = pPc[u] /\ PoolOwn'[u] = PoolOwn[u]
      /\ PoolOwn'[t] = PoolOwn[t]
      /\ List(Values, Threads, f, pMetaTop', pMetaNext', pPc', pTop', pNew', PoolOwn')
  BY <1>2, <1>3, <1>4, <1>5, PoolSteps
<1>7. pSize' = pSize + (PoolWeight(pPc'[t]) - PoolWeight(pPc[t]))
  BY <1>1, <1>2, <1>6 DEF PoolTypes, PoolWeight
<1>8. pPc'[t] # "taken" /\ \A u \in Threads : PoolOwn'[u] = PoolOwn[u]
  BY <1>1, <1>6
<1> QED
  BY <1>1, <1>2, <1>6, <1>7, <1>8, PoolSame

LEMMA PoolLinkKeeps ==
    ASSUME NEW f, PoolList(f), NEW t \in Threads, Pool!Link(t)
    PROVE  PoolList(f)'
<1>1. PICK l \in {"push"} :
        /\ pPc[t] = "link" /\ pMetaNext' = [pMetaNext EXCEPT ![GetRealAddr(pNew[t])] = pTop[t]]
        /\ Pool!Goto(t, l)
        /\ UNCHANGED <<pMetaTop, pMetaCnt, pSize, pTop, pNew, pCapacity, pHeap, pLive, pCleared>>
  BY SameWords DEF Pool!Link, Pool!poolVars
<1>2. /\ PoolTypes /\ PoolOwn[t] = GetRealAddr(pNew[t]) /\ PoolOwn[t] # NULL /\ PoolOwn[t] \in Values
      /\ pTop[t] \in Words(Values) /\ \A k \in 1 .. Len(f) : f[k] # PoolOwn[t]
      /\ pMetaNext \in [Values -> Words(Values)] /\ ~pCleared
  BY <1>1, PoolFacts DEF Pushes
<1>3. \A u \in Threads : pPc[u] = "push" => GetRealAddr(pNew[u]) # PoolOwn[t]
  BY <1>1, <1>2 DEF PoolList, List, Owns, Pushes
<1>4. List(Values, Threads, f, pMetaTop', pMetaNext', pPc, pTop, pNew, PoolOwn)
  <2>1. PICK n \in Values, w \in Words(Values) :
          /\ n = GetRealAddr(pNew[t]) /\ w = pTop[t] /\ \A k \in 1 .. Len(f) : f[k] # n
          /\ \A u \in Threads : pPc[u] = "push" => GetRealAddr(pNew[u]) # n
    BY <1>2, <1>3
  <2>2. List(Values, Threads, f, pMetaTop, [pMetaNext EXCEPT ![n] = w], pPc, pTop, pNew, PoolOwn)
    BY <2>1, PoolFacts, Rewritten
  <2> QED
    BY <1>1, <2>1, <2>2
<1>5. /\ pTop' \in [Threads -> Words(Values)] /\ pNew' \in [Threads -> Words(Values)]
      /\ \A u \in Threads \ {t} : pTop'[u] = pTop[u] /\ pNew'[u] = pNew[u]
      /\ pTop'[t] = pTop[t] /\ pNew'[t] = pNew[t] /\ l \in PoolLabels
  BY <1>1, PoolFacts DEF PoolLabels
<1>6. l \in Pushes => /\ GetRealAddr(pNew'[t]) # NULL
                      /\ \A u \in Threads \ {t} : pPc[u] \in Looks => pTop[u] # pNew'[t]
  BY <1>1, <1>2, <1>5 DEF PoolList, List, Tags, Pushes
<1>7. /\ l \notin Looks /\ l # "pop" /\ PoolNode(l, pNew'[t], pTop'[t]) = PoolOwn[t]
      /\ l = "push" => pMetaNext'[GetRealAddr(pNew'[t])] = pTop'[t]
  BY <1>1, <1>2, <1>5 DEF Looks, PoolNode, Pushes
<1>8. Pool!Goto(t, l)
  BY <1>1
<1>9. /\ pPc' \in [Threads -> PoolLabels] /\ pPc'[t] = l
      /\ \A u \in Threads \ {t} : pPc'[u] = pPc[u] /\ PoolOwn'[u] = PoolOwn[u]
      /\ PoolOwn'[t] = PoolOwn[t]
      /\ List(Values, Threads, f, pMetaTop', pMetaNext', pPc', pTop', pNew', PoolOwn')
  BY <1>2, <1>4, <1>5, <1>6, <1>7, <1>8, PoolSteps
<1>10. pSize' = pSize + (PoolWeight(pPc'[t]) - PoolWeight(pPc[t]))
  BY <1>1, <1>2, <1>9 DEF PoolTypes, PoolWeight
<1>11. pPc'[t] # "taken" /\ \A u \in Threads : PoolOwn'[u] = PoolOwn[u]
  BY <1>1, <1>9
<1> QED
  BY <1>1, <1>2, <1>9, <1>10, <1>11, PoolSame

LEMMA EndFreeKeeps ==
    ASSUME NEW f, PoolList(f), NEW t \in Threads, Pool!EndFree(t)
    PROVE  PoolList(f)'
<1>1. PICK l \in {"idle"} :
        /\ pPc[t] = "pushed" /\ Pool!Goto(t, l)
        /\ pTop' = [pTop EXCEPT ![t] = ZeroMeta] /\ pNew' = [pNew EXCEPT ![t] = ZeroMeta]
        /\ pSize' = pSize + 1
        /\ UNCHANGED <<pMetaTop, pMetaCnt, pMetaNext, pCapacity, pHeap, pLive, pCleared>>
  BY SameWords DEF Pool!EndFree, Pool!Return
<1>2. /\ PoolTypes /\ List(Values, Threads, f, pMetaTop', pMetaNext', pPc, pTop, pNew, PoolOwn)
      /\ pTop' \in [Threads -> Words(Values)] /\ pNew' \in [Threads -> Words(Values)]
      /\ \A u \in Threads \ {t} : pTop'[u] = pTop[u] /\ pNew'[u] = pNew[u]
      /\ l \in PoolLabels /\ PoolOwn[t] = NULL /\ ~pCleared
  BY <1>1, PoolFacts, Zero DEF PoolLabels, Pushes
<1>3. l \notin Looks /\ l \notin Pushes /\ l # "pop" /\ l # "push" /\ PoolNode(l, pNew'[t], pTop'[t]) = NULL
  BY DEF Looks, Pushes, PoolNode
<1>4. Pool!Goto(t, l)
  BY <1>1
<1>5. /\ pPc' \in [Threads -> PoolLabels] /\ pPc'[t] = l
      /\ \A u \in Threads \ {t} : pPc'[u] = pPc[u] /\ PoolOwn'[u] = PoolOwn[u]
      /\ PoolOwn'[t] = NULL
      /\ List(Values, Threads, f, pMetaTop', pMetaNext', pPc', pTop', pNew', PoolOwn')
  BY <1>2, <1>3, <1>4, PoolSteps
<1>6. pSize' = pSize + (PoolWeight(pPc'[t]) - PoolWeight(pPc[t]))
  BY <1>1, <1>2, <1>5 DEF PoolTypes, PoolWeight
<1>7. pPc'[t] # "taken" /\ \A u \in Threads : PoolOwn'[u] = PoolOwn[u]
  BY <1>1, <1>2, <1>5
<1> QED
  BY <1>1, <1>2, <1>5, <1>6, <1>7, PoolSame

-------------------------------------------------------------------------------
\* The steps of the pool that move an object.
LEMMA BeginFreeKeeps ==
    ASSUME NEW f, PoolList(f), NEW t \in Threads, NEW v \in Values, Pool!BeginFree(t, v)
    PROVE  PoolList(f)'
<1>1. PICK l \in {"pushRead"}, w \in {GetMetaAddr(pMetaCnt, v)} :
        /\ pPc[t] = "idle" /\ ~pCleared /\ v \in pLive /\ Pool!NotReissued(w)
        /\ pNew' = [pNew EXCEPT ![t] = w] /\ pMetaCnt' = IncCnt(pMetaCnt) /\ pLive' = pLive \ {v}
        /\ Pool!Goto(t, l)
        /\ UNCHANGED <<pMetaTop, pSize, pMetaNext, pTop, pCapacity, pHeap, pCleared>>
  BY SameWords DEF Pool!BeginFree
<1>2. /\ PoolTypes /\ PoolOwn[t] = NULL /\ NULL \notin Values /\ v \in pHeap
      /\ \A k \in 1 .. Len(f) : f[k] # v
      /\ \A u \in Threads : PoolOwn[u] # v
  BY <1>1, PoolFacts DEF PoolList, PoolHeld, PoolTypes, Pushes
<1>3. w \in Words(Values) /\ GetRealAddr(w) = v
  BY <1>1, <1>2, WordMade DEF PoolTypes
<1>4. /\ List(Values, Threads, f, pMetaTop', pMetaNext', pPc, pTop, pNew, PoolOwn)
      /\ pTop' \in [Threads -> Words(Values)] /\ pNew' \in [Threads -> Words(Values)]
      /\ \A u \in Threads \ {t} : pTop'[u] = pTop[u] /\ pNew'[u] = pNew[u]
      /\ pNew'[t] = w /\ l \in PoolLabels
  BY <1>1, <1>3, PoolFacts DEF PoolLabels
<1>5. l \in Pushes => /\ GetRealAddr(pNew'[t]) # NULL
                      /\ \A u \in Threads \ {t} : pPc[u] \in Looks => pTop[u] # pNew'[t]
  BY <1>1, <1>2, <1>3, <1>4 DEF Pool!NotReissued, Looks
<1>6. l \notin Looks /\ l # "pop" /\ l # "push" /\ PoolNode(l, pNew'[t], pTop'[t]) = v
  BY <1>1, <1>3, <1>4 DEF Looks, PoolNode, Pushes
<1>7. Pool!Goto(t, l)
  BY <1>1
<1>8. /\ pPc' \in [Threads -> PoolLabels] /\ pPc'[t] = l
      /\ \A u \in Threads \ {t} : pPc'[u] = pPc[u] /\ PoolOwn'[u] = PoolOwn[u]
      /\ PoolOwn'[t] = v
      /\ List(Values, Threads, f, pMetaTop', pMetaNext', pPc', pTop', pNew', PoolOwn')
  <2>1. /\ PoolNode(l, pNew'[t], pTop'[t]) \in Values
        /\ \A k \in 1 .. Len(f) : f[k] # PoolNode(l, pNew'[t], pTop'[t])
        /\ \A u \in Threads \ {t} : PoolOwn[u] # PoolNode(l, pNew'[t], pTop'[t])
    BY <1>2, <1>6
  <2> QED
    BY <1>2, <1>4, <1>5, <1>6, <1>7, <2>1, PoolSteps
<1>9. PoolTypes'
  BY <1>1, <1>2, <1>8, CounterAssumption DEF PoolTypes, IncCnt, Counters
<1>10. PoolHeld(f)'
  <2>1. \A k \in 1 .. Len(f) : f[k] \notin pLive' /\ (f[k] \in pHeap' <=> ~pCleared')
    BY <1>1 DEF PoolList, PoolHeld
  <2>2. \A u \in Threads : PoolOwn'[u] # NULL => PoolOwn'[u] \in pHeap' /\ PoolOwn'[u] \notin pLive'
    BY <1>1, <1>2, <1>8 DEF PoolList, PoolHeld
  <2>3. \A n \in pHeap' : \/ n \in pLive'
                          \/ \E k \in 1 .. Len(f) : f[k] = n
                          \/ \E u \in Threads : PoolOwn'[u] = n
    <3> TAKE n \in pHeap'
    <3>1. CASE n = v
      BY <1>8, <3>1
    <3>2. CASE n # v
      <4>1. n \in Values /\ n # NULL /\ n \in pHeap
        BY <1>1, <1>2 DEF PoolTypes
      <4>2. \/ n \in pLive
            \/ \E k \in 1 .. Len(f) : f[k] = n
            \/ \E u \in Threads \ {t} : PoolOwn[u] = n
        BY <1>2, <4>1 DEF PoolList, PoolHeld
      <4> QED
        BY <1>1, <1>8, <3>2, <4>2
    <3> QED
      BY <3>1, <3>2
  <2>4. \A u \in Threads : pPc'[u] = "taken" => PoolOwn'[u] # NULL
    BY <1>1, <1>8 DEF PoolList, PoolHeld
  <2>5. ~pCleared'
    BY <1>1
  <2> QED
    BY <2>1, <2>2, <2>3, <2>4, <2>5 DEF PoolHeld
<1>11. PoolCounted(f)'
  <2>1. /\ f \in Seq(Values) /\ Len(f) \in Nat /\ pSize \in Int /\ PoolCounted(f)
        /\ PoolWeight(pPc'[t]) = 0 /\ PoolWeight(pPc[t]) = 0
    BY <1>1, <1>2, <1>8, PoolFacts DEF PoolList, PoolTypes, PoolWeight
  <2>2. /\ pSize' = pSize + (Len(f) - Len(f)) + (PoolWeight(pPc'[t]) - PoolWeight(pPc[t]))
        /\ pCapacity' = Cardinality(pHeap') /\ ~pCleared /\ ~pCleared'
    BY <1>1, <2>1 DEF PoolCounted
  <2> QED
    BY <1>8, <2>1, <2>2, SizeKept
<1> QED
  BY <1>8, <1>9, <1>10, <1>11 DEF PoolList

\* A new object goes to its caller at once.
LEMMA NewNodeKeeps ==
    ASSUME NEW f, PoolList(f), NEW t \in Threads, Pool!NewNode(t)
    PROVE  PoolList(f)'
<1>1. PICK l \in {"idle"}, n \in Values \ pHeap :
        /\ pPc[t] = "new" /\ Pool!Goto(t, l) /\ pCapacity' = pCapacity + 1
        /\ pHeap' = pHeap \cup {n} /\ pLive' = pLive \cup {n}
        /\ pMetaNext' = [pMetaNext EXCEPT ![n] = ZeroMeta]
        /\ pTop' = [pTop EXCEPT ![t] = ZeroMeta] /\ pNew' = [pNew EXCEPT ![t] = ZeroMeta]
        /\ UNCHANGED <<pMetaTop, pMetaCnt, pSize, pCleared>>
  BY SameWords DEF Pool!NewNode, Pool!Return
<1>2. /\ PoolTypes /\ PoolOwn[t] = NULL /\ ~pCleared
      /\ \A k \in 1 .. Len(f) : f[k] # n
      /\ \A u \in Threads : PoolOwn[u] # n
  <2>1. PoolTypes /\ PoolOwn[t] = NULL /\ ~pCleared /\ NULL \notin Values /\ PoolHeld(f)
    BY <1>1, PoolFacts DEF PoolList, Pushes
  <2>2. \A k \in 1 .. Len(f) : f[k] # n
    BY <1>1, <2>1 DEF PoolHeld
  <2>3. \A u \in Threads : PoolOwn[u] # n
    BY <1>1, <2>1 DEF PoolHeld
  <2> QED
    BY <2>1, <2>2, <2>3
<1>3. List(Values, Threads, f, pMetaTop', pMetaNext', pPc, pTop, pNew, PoolOwn)
  <2>1. \A u \in Threads : pPc[u] = "push" => GetRealAddr(pNew[u]) # n
    BY <1>2, PoolFacts DEF Pushes
  <2>2. List(Values, Threads, f, pMetaTop, [pMetaNext EXCEPT ![n] = ZeroMeta], pPc, pTop, pNew, PoolOwn)
    BY <1>2, <2>1, Zero, PoolFacts, Rewritten
  <2> QED
    BY <1>1, <2>2
<1>4. /\ pTop' \in [Threads -> Words(Values)] /\ pNew' \in [Threads -> Words(Values)]
      /\ \A u \in Threads \ {t} : pTop'[u] = pTop[u] /\ pNew'[u] = pNew[u]
      /\ l \in PoolLabels
  BY <1>1, PoolFacts, Zero DEF PoolLabels
<1>5. /\ l \notin Looks /\ l \notin Pushes /\ l # "pop" /\ l # "push"
      /\ PoolNode(l, pNew'[t], pTop'[t]) = NULL
  BY DEF Looks, Pushes, PoolNode
<1>6. Pool!Goto(t, l)
  BY <1>1
<1>7. /\ pPc' \in [Threads -> PoolLabels] /\ pPc'[t] = l
      /\ \A u \in Threads \ {t} : pPc'[u] = pPc[u] /\ PoolOwn'[u] = PoolOwn[u]
      /\ PoolOwn'[t] = NULL
      /\ List(Values, Threads, f, pMetaTop', pMetaNext', pPc', pTop', pNew', PoolOwn')
  BY <1>2, <1>3, <1>4, <1>5, <1>6, PoolSteps
<1>8. PoolTypes'
  BY <1>1, <1>2, <1>7 DEF PoolTypes
<1>9. PoolHeld(f)'
  <2>1. \A k \in 1 .. Len(f) : f[k] \notin pLive' /\ (f[k] \in pHeap' <=> ~pCleared')
    BY <1>1, <1>2 DEF PoolList, PoolHeld
  <2>2. \A u \in Threads : PoolOwn'[u] # NULL => PoolOwn'[u] \in pHeap' /\ PoolOwn'[u] \notin pLive'
    BY <1>1, <1>2, <1>7 DEF PoolList, PoolHeld
  <2>3. \A i \in pHeap' : \/ i \in pLive'
                          \/ \E k \in 1 .. Len(f) : f[k] = i
                          \/ \E u \in Threads : PoolOwn'[u] = i
    BY <1>1, <1>2, <1>7 DEF PoolList, PoolHeld
  <2>4. \A u \in Threads : pPc'[u] = "taken" => PoolOwn'[u] # NULL
    BY <1>1, <1>7 DEF PoolList, PoolHeld
  <2>5. ~pCleared'
    BY <1>1, <1>2
  <2> QED
    BY <2>1, <2>2, <2>3, <2>4, <2>5 DEF PoolHeld
<1>10. PoolCounted(f)'
  <2>1. /\ f \in Seq(Values) /\ Len(f) \in Nat /\ pSize \in Int /\ PoolCounted(f)
        /\ PoolWeight(pPc'[t]) = 0 /\ PoolWeight(pPc[t]) = 0
    BY <1>1, <1>2, <1>7, PoolFacts DEF PoolList, PoolTypes, PoolWeight
  <2>2. IsFiniteSet(pHeap)
    BY <1>2, FS_Subset, ObjectsAssumption DEF PoolTypes
  <2>3. Cardinality(pHeap \cup {n}) = Cardinality(pHeap) + 1
    BY <1>1, <2>2, FS_AddElement
  <2>4. /\ pSize' = pSize + (Len(f) - Len(f)) + (PoolWeight(pPc'[t]) - PoolWeight(pPc[t]))
        /\ pCapacity' = Cardinality(pHeap') /\ ~pCleared /\ ~pCleared'
    BY <1>1, <1>2, <2>1, <2>3 DEF PoolCounted
  <2> QED
    BY <1>7, <2>1, <2>4, SizeKept
<1> QED
  BY <1>7, <1>8, <1>9, <1>10 DEF PoolList

\* An Alloc ends: the object is its caller's.
LEMMA EndAllocKeeps ==
    ASSUME NEW f, PoolList(f), NEW t \in Threads, Pool!EndAlloc(t)
    PROVE  PoolList(f)'
<1>1. PICK l \in {"idle"}, n \in {GetRealAddr(pTop[t])} :
        /\ pPc[t] = "taken" /\ Pool!Goto(t, l) /\ pSize' = pSize - 1
        /\ pLive' = pLive \cup {n}
        /\ pTop' = [pTop EXCEPT ![t] = ZeroMeta] /\ pNew' = [pNew EXCEPT ![t] = ZeroMeta]
        /\ UNCHANGED <<pMetaTop, pMetaCnt, pMetaNext, pCapacity, pHeap, pCleared>>
  BY SameWords DEF Pool!EndAlloc, Pool!Return
<1>2. /\ PoolTypes /\ PoolOwn[t] = n /\ n # NULL /\ n \in pHeap /\ ~pCleared
      /\ \A k \in 1 .. Len(f) : f[k] # n
      /\ \A u \in Threads \ {t} : PoolOwn[u] # n
  BY <1>1, PoolFacts DEF PoolList, PoolHeld, List, Owns
<1>3. /\ List(Values, Threads, f, pMetaTop', pMetaNext', pPc, pTop, pNew, PoolOwn)
      /\ pTop' \in [Threads -> Words(Values)] /\ pNew' \in [Threads -> Words(Values)]
      /\ \A u \in Threads \ {t} : pTop'[u] = pTop[u] /\ pNew'[u] = pNew[u]
      /\ l \in PoolLabels
  BY <1>1, PoolFacts, Zero DEF PoolLabels
<1>4. /\ l \notin Looks /\ l \notin Pushes /\ l # "pop" /\ l # "push"
      /\ PoolNode(l, pNew'[t], pTop'[t]) = NULL
  BY DEF Looks, Pushes, PoolNode
<1>5. Pool!Goto(t, l)
  BY <1>1
<1>6. /\ pPc' \in [Threads -> PoolLabels] /\ pPc'[t] = l
      /\ \A u \in Threads \ {t} : pPc'[u] = pPc[u] /\ PoolOwn'[u] = PoolOwn[u]
      /\ PoolOwn'[t] = NULL
      /\ List(Values, Threads, f, pMetaTop', pMetaNext', pPc', pTop', pNew', PoolOwn')
  BY <1>2, <1>3, <1>4, <1>5, PoolSteps
<1>7. PoolTypes'
  BY <1>1, <1>2, <1>6 DEF PoolTypes
<1>8. PoolHeld(f)'
  <2>1. \A k \in 1 .. Len(f) : f[k] \notin pLive' /\ (f[k] \in pHeap' <=> ~pCleared')
    BY <1>1, <1>2 DEF PoolList, PoolHeld
  <2>2. \A u \in Threads : PoolOwn'[u] # NULL => PoolOwn'[u] \in pHeap' /\ PoolOwn'[u] \notin pLive'
    BY <1>1, <1>2, <1>6 DEF PoolList, PoolHeld
  <2>3. \A i \in pHeap' : \/ i \in pLive'
                          \/ \E k \in 1 .. Len(f) : f[k] = i
                          \/ \E u \in Threads : PoolOwn'[u] = i
    <3> TAKE i \in pHeap'
    <3>1. \/ i = n \/ i \in pLive
          \/ \E k \in 1 .. Len(f) : f[k] = i
          \/ \E u \in Threads \ {t} : PoolOwn[u] = i
      BY <1>1, <1>2 DEF PoolList, PoolHeld
    <3> QED
      BY <1>1, <1>6, <3>1
  <2>4. \A u \in Threads : pPc'[u] = "taken" => PoolOwn'[u] # NULL
    BY <1>1, <1>6 DEF PoolList, PoolHeld
  <2>5. ~pCleared'
    BY <1>1, <1>2
  <2> QED
    BY <2>1, <2>2, <2>3, <2>4, <2>5 DEF PoolHeld
<1>9. PoolCounted(f)'
  <2>1. /\ f \in Seq(Values) /\ Len(f) \in Nat /\ pSize \in Int /\ PoolCounted(f)
        /\ PoolWeight(pPc'[t]) = 0 /\ PoolWeight(pPc[t]) = 1
    BY <1>1, <1>2, <1>6, PoolFacts DEF PoolList, PoolTypes, PoolWeight
  <2>2. /\ pSize' = pSize + (Len(f) - Len(f)) + (PoolWeight(pPc'[t]) - PoolWeight(pPc[t]))
        /\ pCapacity' = Cardinality(pHeap') /\ ~pCleared /\ ~pCleared'
    BY <1>1, <1>2, <2>1 DEF PoolCounted
  <2> QED
    BY <1>6, <2>1, <2>2, SizeKept
<1> QED
  BY <1>6, <1>7, <1>8, <1>9 DEF PoolList

\* The CAS of Alloc takes the first object of the list.
LEMMA PoolPopTakesOut ==
    ASSUME NEW f, PoolList(f), NEW t \in Threads, Pool!Pop(t), pPc'[t] = "taken"
    PROVE  \E d \in Seq(Values) : PoolList(d)'
<1>1. PICK l \in {"taken"} :
        /\ pPc[t] = "pop" /\ Pool!Goto(t, l) /\ pMetaTop = pTop[t] /\ pMetaTop' = pNew[t]
        /\ UNCHANGED <<pMetaCnt, pSize, pMetaNext, pTop, pNew, pCapacity, pHeap, pLive, pCleared>>
  BY DEF Pool!Pop, Pool!Goto, PoolList, PoolTypes
<1>2. /\ PoolTypes /\ PoolOwn[t] = NULL /\ f \in Seq(Values) /\ Len(f) \in Nat /\ NULL \notin Values
      /\ List(Values, Threads, f, pMetaTop, pMetaNext, pPc, pTop, pNew, PoolOwn) /\ ~pCleared
      /\ pTop \in [Threads -> Words(Values)] /\ pNew \in [Threads -> Words(Values)]
  BY <1>1, PoolFacts DEF Pushes
<1>3. /\ f # <<>> /\ f[1] = GetRealAddr(pMetaTop)
      /\ List(Values, Threads, Tail(f), pNew[t], pMetaNext, pPc, pTop, pNew, PoolOwn)
      /\ \A k \in 1 .. Len(Tail(f)) : Tail(f)[k] # f[1]
  BY <1>1, <1>2, PopTakes
<1>4. PICK L \in Nat : Len(f) = L + 1
  <2>1. Len(f) # 0
    BY <1>2, <1>3
  <2>2. Len(f) - 1 \in Nat /\ Len(f) = (Len(f) - 1) + 1
    BY <1>2, <2>1
  <2> QED
    BY <2>2
<1>5. PICK d \in Seq(Values) :
        /\ d = Tail(f) /\ Len(d) = L /\ f[1] \in Values
        /\ \A k \in 1 .. L : d[k] = f[k + 1]
  BY <1>2, <1>4, TailFacts
<1>6. /\ \A k \in 1 .. L : k + 1 \in 1 .. L + 1
      /\ \A k \in 1 .. L + 1 : k = 1 \/ (k - 1 \in 1 .. L /\ (k - 1) + 1 = k)
      /\ 1 \in 1 .. L + 1
  OBVIOUS
<1>7. PICK n \in Values : /\ n = f[1] /\ n = GetRealAddr(pTop[t]) /\ n \in pHeap /\ n \notin pLive
                          /\ \A u \in Threads : PoolOwn[u] # n
  BY <1>1, <1>2, <1>3, <1>4, <1>5, <1>6 DEF PoolList, PoolHeld, List, Owns
<1>8. /\ List(Values, Threads, d, pMetaTop', pMetaNext', pPc, pTop, pNew, PoolOwn)
      /\ pTop' \in [Threads -> Words(Values)] /\ pNew' \in [Threads -> Words(Values)]
      /\ \A u \in Threads \ {t} : pTop'[u] = pTop[u] /\ pNew'[u] = pNew[u]
      /\ l \in PoolLabels
  BY <1>1, <1>2, <1>3, <1>5 DEF PoolLabels
<1>9. /\ l \notin Looks /\ l \notin Pushes /\ l # "pop" /\ l # "push"
      /\ PoolNode(l, pNew'[t], pTop'[t]) = n
  BY <1>1, <1>7 DEF Looks, Pushes, PoolNode
<1>10. Pool!Goto(t, l)
  BY <1>1
<1>11. /\ pPc' \in [Threads -> PoolLabels] /\ pPc'[t] = l
       /\ \A u \in Threads \ {t} : pPc'[u] = pPc[u] /\ PoolOwn'[u] = PoolOwn[u]
       /\ PoolOwn'[t] = n
       /\ List(Values, Threads, d, pMetaTop', pMetaNext', pPc', pTop', pNew', PoolOwn')
  <2>1. /\ PoolNode(l, pNew'[t], pTop'[t]) \in Values
        /\ \A k \in 1 .. Len(d) : d[k] # PoolNode(l, pNew'[t], pTop'[t])
        /\ \A u \in Threads \ {t} : PoolOwn[u] # PoolNode(l, pNew'[t], pTop'[t])
    BY <1>3, <1>5, <1>7, <1>9
  <2> QED
    BY <1>2, <1>8, <1>9, <1>10, <2>1, PoolSteps
<1>12. PoolTypes'
  BY <1>1, <1>2, <1>11 DEF PoolTypes
<1>13. PoolHeld(d)'
  <2>1. \A k \in 1 .. L : d[k] \notin pLive /\ d[k] \in pHeap
    BY <1>2, <1>4, <1>5, <1>6 DEF PoolList, PoolHeld
  <2>2. \A u \in Threads : PoolOwn'[u] # NULL => PoolOwn'[u] \in pHeap /\ PoolOwn'[u] \notin pLive
    BY <1>7, <1>11 DEF PoolList, PoolHeld
  <2>3. \A i \in pHeap : i \in pLive \/ (\E k \in 1 .. L : d[k] = i) \/ (\E u \in Threads : PoolOwn'[u] = i)
    <3> TAKE i \in pHeap
    <3>1. CASE \E u \in Threads : PoolOwn[u] = i
      <4>1. PICK u \in Threads : PoolOwn[u] = i
        BY <3>1
      <4>2. i \in Values /\ u # t
        BY <1>2, <4>1 DEF PoolTypes
      <4> QED
        BY <1>11, <4>1, <4>2
    <3>2. CASE \E k \in 1 .. L + 1 : f[k] = i
      <4>1. PICK k \in 1 .. L + 1 : f[k] = i
        BY <3>2
      <4>2. CASE k = 1
        BY <1>7, <1>11, <4>1, <4>2
      <4>3. CASE k # 1
        BY <1>5, <1>6, <4>1, <4>3
      <4> QED
        BY <4>2, <4>3
    <3> QED
      BY <1>4, <3>1, <3>2 DEF PoolList, PoolHeld
  <2>4. \A u \in Threads : pPc'[u] = "taken" => PoolOwn'[u] # NULL
    BY <1>2, <1>7, <1>11 DEF PoolList, PoolHeld
  <2>5. ~pCleared' /\ pHeap' = pHeap /\ pLive' = pLive /\ Len(d) = L
    BY <1>1, <1>2, <1>5
  <2> QED
    BY <2>1, <2>2, <2>3, <2>4, <2>5 DEF PoolHeld
<1>14. PoolCounted(d)'
  <2>1. PoolWeight(pPc'[t]) = 1 /\ PoolWeight(pPc[t]) = 0 /\ pSize \in Int /\ PoolCounted(f)
    BY <1>1, <1>2, <1>11 DEF PoolWeight, PoolTypes, PoolList
  <2>2. /\ pSize' = pSize + (Len(d) - Len(f)) + (PoolWeight(pPc'[t]) - PoolWeight(pPc[t]))
        /\ pCapacity' = Cardinality(pHeap') /\ ~pCleared /\ ~pCleared'
    <3>1. pSize' = pSize + (Len(d) - Len(f)) + (PoolWeight(pPc'[t]) - PoolWeight(pPc[t]))
      BY <1>1, <1>4, <1>5, <2>1
    <3> QED
      BY <1>1, <1>2, <2>1, <3>1 DEF PoolCounted
  <2> QED
    BY <1>2, <1>11, <2>1, <2>2, SizeKept
<1>15. PoolList(d)'
  BY <1>11, <1>12, <1>13, <1>14 DEF PoolList
<1> QED
  BY <1>15

\* The CAS of Free puts its object first.
LEMMA PoolPushPutsIn ==
    ASSUME NEW f, PoolList(f), NEW t \in Threads, Pool!Push(t), pPc'[t] = "pushed"
    PROVE  \E d \in Seq(Values) : PoolList(d)'
<1>1. PICK l \in {"pushed"} :
        /\ pPc[t] = "push" /\ Pool!Goto(t, l) /\ pMetaTop = pTop[t] /\ pMetaTop' = pNew[t]
        /\ UNCHANGED <<pMetaCnt, pSize, pMetaNext, pTop, pNew, pCapacity, pHeap, pLive, pCleared>>
  BY DEF Pool!Push, Pool!Goto, PoolList, PoolTypes
<1>2. /\ PoolTypes /\ PoolOwn[t] = GetRealAddr(pNew[t]) /\ PoolOwn[t] # NULL /\ PoolOwn[t] \in Values
      /\ f \in Seq(Values) /\ Len(f) \in Nat /\ NULL \notin Values /\ ~pCleared
      /\ List(Values, Threads, f, pMetaTop, pMetaNext, pPc, pTop, pNew, PoolOwn)
  BY <1>1, PoolFacts DEF Pushes
<1>3. PICK n \in Values : n = GetRealAddr(pNew[t]) /\ n = PoolOwn[t] /\ n \in pHeap /\ n \notin pLive
  BY <1>1, <1>2 DEF PoolList, PoolHeld
<1>4. /\ pPc' \in [Threads -> PoolLabels] /\ pPc'[t] = "pushed"
      /\ \A u \in Threads \ {t} : pPc'[u] = pPc[u]
  BY <1>1, <1>2 DEF Pool!Goto, PoolTypes, PoolLabels
<1>5. PoolOwn'[t] = NULL /\ \A u \in Threads \ {t} : PoolOwn'[u] = PoolOwn[u]
  BY <1>1, <1>4 DEF PoolOwn, PoolNode, Pushes
<1>6. PICK L \in Nat, d \in Seq(Values) :
        /\ L = Len(f) /\ d = <<n>> \o f /\ Len(d) = L + 1 /\ d[1] = n
        /\ \A k \in 2 .. L + 1 : d[k] = f[k - 1]
  <2>1. PICK L \in Nat : L = Len(f)
    BY <1>2
  <2>2. /\ <<n>> \o f \in Seq(Values) /\ Len(<<n>> \o f) = L + 1 /\ (<<n>> \o f)[1] = n
        /\ \A k \in 2 .. L + 1 : (<<n>> \o f)[k] = f[k - 1]
    BY <1>2, <2>1, ConsFacts
  <2> QED
    BY <2>1, <2>2
<1>7. List(Values, Threads, d, pMetaTop', pMetaNext', pPc', pTop', pNew', PoolOwn')
  <2>1. PICK p2, o2 : p2 = pPc' /\ o2 = PoolOwn'
    OBVIOUS
  <2>2. List(Values, Threads, <<GetRealAddr(pNew[t])>> \o f, pNew[t], pMetaNext, p2, pTop, pNew, o2)
    BY <1>1, <1>2, <1>4, <1>5, <2>1, PushPuts
  <2> QED
    BY <1>1, <1>3, <1>6, <2>1, <2>2
<1>8. PoolTypes'
  BY <1>1, <1>2, <1>4 DEF PoolTypes
<1>9. /\ \A k \in 1 .. L + 1 : k = 1 \/ (k - 1 \in 1 .. L /\ k \in 2 .. L + 1)
      /\ \A k \in 1 .. L : k + 1 \in 1 .. L + 1 /\ k + 1 \in 2 .. L + 1 /\ (k + 1) - 1 = k
      /\ 1 \in 1 .. L + 1
  OBVIOUS
<1>10. PoolHeld(d)'
  <2>1. \A k \in 1 .. L + 1 : d[k] \notin pLive /\ d[k] \in pHeap
    BY <1>2, <1>3, <1>6, <1>9 DEF PoolList, PoolHeld
  <2>2. \A u \in Threads : PoolOwn'[u] # NULL => PoolOwn'[u] \in pHeap /\ PoolOwn'[u] \notin pLive
    BY <1>5 DEF PoolList, PoolHeld
  <2>3. \A i \in pHeap : i \in pLive \/ (\E k \in 1 .. L + 1 : d[k] = i) \/ (\E u \in Threads : PoolOwn'[u] = i)
    <3> TAKE i \in pHeap
    <3>1. CASE \E k \in 1 .. L : f[k] = i
      <4>1. PICK k \in 1 .. L : f[k] = i
        BY <3>1
      <4>2. k + 1 \in 1 .. L + 1 /\ d[k + 1] = i
        BY <1>6, <1>9, <4>1
      <4> QED
        BY <4>2
    <3>2. CASE ~(\E k \in 1 .. L : f[k] = i) /\ i \notin pLive
      <4>1. PICK u \in Threads : PoolOwn[u] = i
        BY <1>6, <3>2 DEF PoolList, PoolHeld
      <4> QED
        BY <1>3, <1>5, <1>6, <1>9, <4>1
    <3> QED
      BY <3>1, <3>2
  <2>4. \A u \in Threads : pPc'[u] = "taken" => PoolOwn'[u] # NULL
    BY <1>4, <1>5 DEF PoolList, PoolHeld
  <2>5. ~pCleared' /\ pHeap' = pHeap /\ pLive' = pLive /\ Len(d) = L + 1
    BY <1>1, <1>2, <1>6
  <2> QED
    BY <2>1, <2>2, <2>3, <2>4, <2>5 DEF PoolHeld
<1>11. PoolCounted(d)'
  <2>1. PoolWeight(pPc'[t]) = -1 /\ PoolWeight(pPc[t]) = 0 /\ pSize \in Int /\ PoolCounted(f)
    BY <1>1, <1>2, <1>4 DEF PoolWeight, PoolTypes, PoolList
  <2>2. pSize' = pSize + (Len(d) - Len(f)) + (PoolWeight(pPc'[t]) - PoolWeight(pPc[t]))
    BY <1>1, <1>6, <2>1
  <2>3. pCapacity' = Cardinality(pHeap') /\ ~pCleared /\ ~pCleared'
    BY <1>1, <1>2, <2>1 DEF PoolCounted
  <2> QED
    BY <1>2, <1>4, <2>1, <2>2, <2>3, SizeKept
<1>12. PoolList(d)'
  BY <1>7, <1>8, <1>10, <1>11 DEF PoolList
<1> QED
  BY <1>12

-------------------------------------------------------------------------------
\* What FreeNodes has after k steps: the first k + 1 of the list, and NULL behind it.
Seen(f, k, x) ==
    \/ \E i \in 1 .. Len(f) : i <= k + 1 /\ f[i] = x
    \/ Len(f) <= k /\ x = NULL

LEMMA FreeNodesAreList ==
    ASSUME NEW f, PoolList(f)
    PROVE  \A x : x \in Pool!FreeNodes <=> \E i \in 1 .. Len(f) : f[i] = x
<1>1. PICK s \in Seq(Values), L \in Nat, C \in Nat :
        s = f /\ L = Len(s) /\ C = Cardinality(Values) /\ L <= C
  BY ListFits, PoolFacts, ObjectsAssumption DEF List, Linked
<1>2. /\ NULL \notin Values /\ \A i \in 1 .. L : s[i] \in Values /\ s[i] # NULL
      /\ GetRealAddr(ZeroMeta) = NULL
  BY <1>1, ObjectsAssumption, Zero
<1>3. /\ L = 0 => GetRealAddr(pMetaTop) = NULL
      /\ L # 0 => GetRealAddr(pMetaTop) = s[1]
      /\ \A i \in 1 .. L : /\ i = L => GetRealAddr(pMetaNext[s[i]]) = NULL
                           /\ i # L => GetRealAddr(pMetaNext[s[i]]) = s[i + 1]
  <2>1. \A k \in 1 .. L : GetRealAddr(WordTo(s, pMetaTop, pMetaNext, k)) = s[k]
    BY <1>1 DEF PoolList, List, Linked
  <2>2. WordTo(s, pMetaTop, pMetaNext, L + 1) = ZeroMeta
    BY <1>1 DEF PoolList, List, Linked
  <2>3. \A i \in 1 .. L : WordTo(s, pMetaTop, pMetaNext, i + 1) = pMetaNext[s[i]]
    <3>1. \A i \in 1 .. L : i + 1 # 1 /\ (i + 1) - 1 = i
      BY <1>1
    <3> QED
      BY <3>1 DEF WordTo
  <2>4. WordTo(s, pMetaTop, pMetaNext, 1) = pMetaTop
    BY DEF WordTo
  <2>5. \A i \in 1 .. L : i # L => i + 1 \in 1 .. L
    BY <1>1
  <2>6. (L = 0 => L + 1 = 1) /\ (L # 0 => 1 \in 1 .. L)
    BY <1>1
  <2> QED
    BY <1>2, <2>1, <2>2, <2>3, <2>4, <2>5, <2>6
<1> DEFINE Universe == Values \cup {NULL}
           W == [k \in 0 .. C |-> {x \in Universe : Seen(s, k, x)}]
           F(g) == [k \in 0 .. C |->
                      IF k = 0 THEN {Pool!GetRealAddr(pMetaTop)}
                      ELSE g[k - 1] \cup {Pool!GetRealAddr(pMetaNext[n]) : n \in g[k - 1] \ {NULL}}]
<1>4. Pool!FreeNodes = (CHOOSE g : g = F(g))[C] \ {NULL}
  BY <1>1, SameCount DEF Pool!FreeNodes
<1>5. \A k \in 0 .. C : \A x : x \in W[k] <=> Seen(s, k, x)
  BY <1>1, <1>2 DEF Seen
<1>6. W = F(W)
  <2> SUFFICES ASSUME NEW k \in 0 .. C PROVE W[k] = F(W)[k]
    OBVIOUS
  <2>1. CASE k = 0
    <3>1. F(W)[k] = {GetRealAddr(pMetaTop)}
      BY <2>1, SameWords
    <3>2. \A x : Seen(s, 0, x) <=> x = GetRealAddr(pMetaTop)
      <4>1. CASE L = 0
        BY <1>1, <1>3, <4>1 DEF Seen
      <4>2. CASE L # 0
        <5>1. 1 \in 1 .. Len(s) /\ ~(Len(s) <= 0) /\ \A i \in 1 .. Len(s) : i <= 0 + 1 <=> i = 1
          BY <1>1, <4>2
        <5> QED
          BY <1>1, <1>3, <4>2, <5>1 DEF Seen
      <4> QED
        BY <4>1, <4>2
    <3> HIDE DEF W, F
    <3>3. \A x : x \in W[k] <=> x = GetRealAddr(pMetaTop)
      BY <1>5, <2>1, <3>2
    <3> QED
      BY <3>1, <3>3
  <2>2. CASE k # 0
    <3>1. k - 1 \in 0 .. C /\ (k - 1) + 1 = k
      BY <1>1, <2>2
    <3>2. PICK A, B : A = W[k - 1] /\ B = {GetRealAddr(pMetaNext[n]) : n \in A \ {NULL}}
      OBVIOUS
    <3>3. F(W)[k] = A \cup B
      BY <2>2, <3>1, <3>2, SameWords
    <3>4. \A x : x \in B <=> \E n \in A : n # NULL /\ x = GetRealAddr(pMetaNext[n])
      BY <3>2
    <3> HIDE DEF W, F
    <3>5. \A x : x \in A <=> Seen(s, k - 1, x)
      BY <1>5, <3>1, <3>2
    <3>6. \A x : x \in B <=> \E i \in 1 .. L : i <= k /\ x = GetRealAddr(pMetaNext[s[i]])
      BY <1>1, <1>2, <3>1, <3>4, <3>5 DEF Seen
    <3>7. ASSUME NEW x, x \in B PROVE Seen(s, k, x)
      <4>1. PICK i \in 1 .. L : i <= k /\ x = GetRealAddr(pMetaNext[s[i]])
        BY <3>6, <3>7
      <4>2. CASE i = L
        BY <1>1, <1>3, <4>1, <4>2 DEF Seen
      <4>3. CASE i # L
        <5>1. i + 1 \in 1 .. L /\ i + 1 <= k + 1 /\ x = s[i + 1]
          BY <1>1, <1>3, <4>1, <4>3
        <5> QED
          BY <1>1, <5>1 DEF Seen
      <4> QED
        BY <4>2, <4>3
    <3>8. ASSUME NEW x, x \in A PROVE Seen(s, k, x)
      <4>1. (\E i \in 1 .. L : i <= k /\ s[i] = x) \/ (L <= k - 1 /\ x = NULL)
        BY <1>1, <3>1, <3>5, <3>8 DEF Seen
      <4>2. \A i \in 1 .. L : i <= k => i <= k + 1
        BY <1>1
      <4>3. L <= k - 1 => L <= k
        BY <1>1
      <4> QED
        BY <1>1, <4>1, <4>2, <4>3 DEF Seen
    <3>9. ASSUME NEW x, Seen(s, k, x) PROVE x \in A \cup B
      <4>1. CASE \E i \in 1 .. L : i <= k + 1 /\ s[i] = x
        <5>1. PICK i \in 1 .. L : i <= k + 1 /\ s[i] = x
          BY <4>1
        <5>2. CASE i <= k
          BY <1>1, <3>1, <3>5, <5>1, <5>2 DEF Seen
        <5>3. CASE ~(i <= k)
          <6>1. i = k + 1 /\ k \in 1 .. L /\ k # L /\ k <= k
            BY <1>1, <2>2, <5>1, <5>3
          <6>2. x = GetRealAddr(pMetaNext[s[k]])
            BY <1>3, <5>1, <6>1
          <6> QED
            BY <3>6, <6>1, <6>2
        <5> QED
          BY <5>2, <5>3
      <4>2. CASE L <= k /\ x = NULL
        <5>1. CASE L = k
          <6>1. L \in 1 .. L /\ L <= k
            BY <1>1, <2>2, <5>1
          <6>2. x = GetRealAddr(pMetaNext[s[L]])
            BY <1>3, <4>2, <6>1
          <6> QED
            BY <3>6, <6>1, <6>2
        <5>2. CASE L # k
          <6>1. L <= k - 1
            BY <1>1, <4>2, <5>2
          <6> QED
            BY <1>1, <3>5, <4>2, <6>1 DEF Seen
        <5> QED
          BY <5>1, <5>2
      <4> QED
        BY <1>1, <3>9, <4>1, <4>2 DEF Seen
    <3>10. \A x : x \in W[k] <=> x \in A \cup B
      BY <1>5, <3>7, <3>8, <3>9
    <3> QED
      BY <3>3, <3>10
  <2> QED
    BY <2>1, <2>2
<1> HIDE DEF F
<1>7. PICK g : g = F(g) /\ Pool!FreeNodes = g[C] \ {NULL}
  BY <1>4, <1>6
<1> USE DEF F
<1>8. g[0] = W[0] /\ \A k \in 1 .. C : g[k - 1] = W[k - 1] => g[k] = W[k]
  <2>1. \A k \in 0 .. C : g[k] = F(g)[k] /\ W[k] = F(W)[k]
    BY <1>6, <1>7
  <2>2. 0 \in 0 .. C /\ \A k \in 1 .. C : k \in 0 .. C /\ k # 0
    BY <1>1
  <2> HIDE DEF W
  <2> QED
    BY <2>1, <2>2
<1>9. g[C] = W[C]
  <2>1. PICK h, w : h = g /\ w = W
    OBVIOUS
  <2>2. h[0] = w[0] /\ \A k \in 1 .. C : h[k - 1] = w[k - 1] => h[k] = w[k]
    BY <1>8, <2>1
  <2> HIDE DEF W, F
  <2>3. \A k \in 0 .. C : h[k] = w[k]
    BY <2>2, SameByInduction, SMTT(60)
  <2>4. C \in 0 .. C
    BY <1>1
  <2> QED
    BY <2>1, <2>3, <2>4
<1> HIDE DEF W, F
<1>10. \A x : x \in W[C] <=> Seen(s, C, x)
  <2>1. C \in 0 .. C
    BY <1>1
  <2> QED
    BY <1>5, <2>1
<1>11. \A i \in 1 .. L : i <= C + 1
  BY <1>1
<1> QED
  BY <1>1, <1>2, <1>7, <1>9, <1>10, <1>11 DEF Seen

LEMMA ListedCounted ==
    ASSUME NEW f, PoolList(f)
    PROVE  Cardinality(Pool!FreeNodes) = Len(f) /\ IsFiniteSet(Pool!FreeNodes)
<1>1. PICK S : S = Pool!FreeNodes
  OBVIOUS
<1>2. \A x : x \in S <=> \E k \in 1 .. Len(f) : f[k] = x
  BY <1>1, FreeNodesAreList
<1>3. f \in Seq(Values) /\ \A i, j \in 1 .. Len(f) : f[i] = f[j] => i = j
  BY DEF PoolList, List, Linked
<1> QED
  BY <1>1, <1>2, <1>3, ListFits, ObjectsAssumption

\* ClearAll, with no call under way: the objects of the list are gone.
LEMMA ClearAllKeeps ==
    ASSUME NEW f, PoolList(f), Pool!ClearAll
    PROVE  PoolList(f)'
<1>1. /\ ~pCleared /\ \A t \in Threads : pPc[t] = "idle"
      /\ pHeap' = pHeap \ Pool!FreeNodes
      /\ pCapacity' = pCapacity - Cardinality(Pool!FreeNodes)
      /\ pSize' = pSize - Cardinality(Pool!FreeNodes)
      /\ pCleared' = TRUE
      /\ UNCHANGED <<pMetaTop, pMetaCnt, pMetaNext, pLive, pPc, pTop, pNew>>
  BY SameCount DEF Pool!ClearAll, Pool!threadVars
<1>2. PICK L \in Nat, G \in {Pool!FreeNodes} :
        /\ G = Pool!FreeNodes /\ L = Len(f) /\ Cardinality(G) = L
        /\ \A x : x \in G <=> \E k \in 1 .. Len(f) : f[k] = x
  BY FreeNodesAreList, ListedCounted, PoolFacts
<1>3. /\ PoolTypes /\ PoolHeld(f) /\ PoolCounted(f) /\ f \in Seq(Values)
      /\ \A t \in Threads : PoolOwn[t] = NULL
  BY <1>1, PoolFacts DEF PoolList, Pushes
<1>4. IsFiniteSet(pHeap) /\ G \subseteq pHeap /\ Cardinality(pHeap) \in Nat
  <2>1. pHeap \in SUBSET Values
    BY <1>3 DEF PoolTypes
  <2>2. IsFiniteSet(pHeap)
    BY <2>1, FS_Subset, ObjectsAssumption
  <2>3. G \subseteq pHeap
    BY <1>1, <1>2, <1>3 DEF PoolHeld
  <2> QED
    BY <2>2, <2>3, FS_CardinalityType
<1>5. Cardinality(pHeap \ G) = Cardinality(pHeap) - L
  <2>1. PICK H : H = pHeap
    OBVIOUS
  <2>2. IsFiniteSet(H) /\ H \cap G = G
    BY <1>4, <2>1
  <2>3. Cardinality(H \ G) = Cardinality(H) - Cardinality(H \cap G)
    BY <2>2, FS_Difference
  <2>4. Cardinality(H \ G) = Cardinality(H) - L
    BY <1>2, <2>2, <2>3
  <2> QED
    BY <2>1, <2>4
<1>6. PoolOwn' = PoolOwn
  BY <1>1 DEF PoolOwn
<1>7. List(Values, Threads, f, pMetaTop', pMetaNext', pPc', pTop', pNew', PoolOwn')
  BY <1>1, <1>6 DEF PoolList
<1>8. \A k \in 1 .. Len(f) : f[k] \notin pLive /\ f[k] \in G
  BY <1>2, <1>3 DEF PoolHeld
<1>9. PoolTypes'
  <2>1. pLive \in SUBSET (pHeap \ G)
    BY <1>2, <1>3, <1>8 DEF PoolTypes
  <2>2. pCapacity' \in Int /\ pSize' \in Int
    BY <1>1, <1>2, <1>3 DEF PoolTypes
  <2> QED
    BY <1>1, <1>2, <1>3, <2>1, <2>2 DEF PoolTypes
<1>10. PoolHeld(f)'
  <2>1. \A k \in 1 .. Len(f) : f[k] \notin pLive' /\ f[k] \notin pHeap'
    BY <1>1, <1>2, <1>8
  <2>2. \A t \in Threads : PoolOwn'[t] = NULL /\ pPc'[t] = "idle"
    BY <1>1, <1>3, <1>6
  <2>3. \A n \in pHeap' : n \in pLive'
    <3> TAKE n \in pHeap'
    <3>1. n \in pHeap /\ n \in Values /\ n # NULL /\ ~\E k \in 1 .. Len(f) : f[k] = n
      BY <1>1, <1>2, <1>3, ObjectsAssumption DEF PoolTypes
    <3> QED
      BY <1>1, <1>3, <3>1 DEF PoolHeld
  <2> QED
    BY <1>1, <2>1, <2>2, <2>3 DEF PoolHeld
<1>11. PoolCounted(f)'
  <2>1. PICK a, b : a = CountAt(Threads, pPc, {"taken"}) /\ b = CountAt(Threads, pPc, {"pushed"})
    OBVIOUS
  <2>2. a = 0 /\ b = 0
    <3>1. {u \in Threads : pPc[u] \in {"taken"}} = {} /\ {u \in Threads : pPc[u] \in {"pushed"}} = {}
      BY <1>1
    <3> QED
      BY <2>1, <3>1, FS_EmptySet DEF CountAt
  <2>3. pSize = L
    BY <1>1, <1>2, <1>3, <2>1, <2>2 DEF PoolCounted
  <2>4. pSize' = 0 /\ pCapacity' = Cardinality(pHeap')
    BY <1>1, <1>2, <1>3, <1>5, <2>3 DEF PoolCounted
  <2>5. CountAt(Threads, pPc', {"taken"}) = 0 /\ CountAt(Threads, pPc', {"pushed"}) = 0
    BY <1>1, <2>1, <2>2
  <2> QED
    BY <1>1, <2>4, <2>5 DEF PoolCounted
<1> QED
  BY <1>7, <1>9, <1>10, <1>11 DEF PoolList

LEMMA PoolInitKeeps ==
    ASSUME Pool!Init
    PROVE  PoolList(<<>>)
<1>1. /\ \A t \in Threads : pPc[t] = "idle" /\ pTop[t] = ZeroMeta /\ pNew[t] = ZeroMeta
      /\ pTop \in [Threads -> Words(Values)] /\ pNew \in [Threads -> Words(Values)]
      /\ pMetaTop = ZeroMeta /\ pMetaNext \in [Values -> Words(Values)]
      /\ pHeap = {} /\ pLive = {} /\ pCleared = FALSE /\ pCapacity = 0 /\ pSize = 0
      /\ ZeroMeta \in Words(Values)
  BY Zero, SameWords DEF Pool!Init
<1>2. \A t \in Threads : PoolOwn[t] = NULL
  BY <1>1 DEF PoolOwn, PoolNode, Pushes
<1>3. PICK f \in Seq(Values) : f = <<>> /\ Len(f) = 0
  <2>1. <<>> \in Seq(Values) /\ Len(<<>>) = 0
    OBVIOUS
  <2> QED
    BY <2>1
<1>4. List(Values, Threads, f, pMetaTop, pMetaNext, pPc, pTop, pNew, PoolOwn)
  BY <1>1, <1>2, <1>3 DEF List, Linked, Tags, Owns, WordTo, Looks, Pushes
<1>5. PoolTypes
  <2>1. pMetaCnt \in Counters /\ pPc \in [Threads -> PoolLabels]
    BY CounterAssumption DEF Pool!Init, Counters, PoolLabels
  <2>2. pCapacity \in Int /\ pSize \in Int
    BY <1>1
  <2>3. pHeap \in SUBSET Values /\ pLive \in SUBSET pHeap
    BY <1>1
  <2>4. pCleared \in BOOLEAN
    BY <1>1, Zenon
  <2> QED
    BY <2>1, <2>2, <2>3, <2>4, Zenon DEF PoolTypes
<1>6. PoolHeld(f)
  BY <1>1, <1>2, <1>3 DEF PoolHeld
<1>7. PoolCounted(f)
  <2>1. {t \in Threads : pPc[t] \in {"taken"}} = {} /\ {t \in Threads : pPc[t] \in {"pushed"}} = {}
    BY <1>1
  <2>2. CountAt(Threads, pPc, {"taken"}) = 0 /\ CountAt(Threads, pPc, {"pushed"}) = 0
    BY <2>1, FS_EmptySet DEF CountAt
  <2> QED
    BY <1>1, <1>3, <2>2, FS_EmptySet DEF PoolCounted
<1> QED
  BY <1>3, <1>4, <1>5, <1>6, <1>7 DEF PoolList

\* A step of the pool, and what it does to the objects handed out.
LEMMA PoolStepKeeps ==
    ASSUME NEW f \in Seq(Values), PoolList(f), NEW t \in Threads,
           Pool!BeginAlloc(t) \/ Pool!Step(t)
    PROVE  \E g \in Seq(Values) : PoolList(g)'
<1>1. CASE Pool!ReadTop(t)
  BY <1>1, PoolReadTopKeeps
<1>2. CASE Pool!NewNode(t)
  BY <1>2, NewNodeKeeps
<1>3. CASE Pool!ReadNext(t)
  BY <1>3, PoolReadNextKeeps
<1>4. CASE Pool!Pop(t)
  BY <1>4, PoolFailKeeps, PoolPopTakesOut
<1>5. CASE Pool!EndAlloc(t)
  BY <1>5, EndAllocKeeps
<1>6. CASE Pool!PushRead(t)
  BY <1>6, PoolPushReadKeeps
<1>7. CASE Pool!Link(t)
  BY <1>7, PoolLinkKeeps
<1>8. CASE Pool!Push(t)
  BY <1>8, PoolFailKeeps, PoolPushPutsIn
<1>9. CASE Pool!EndFree(t)
  BY <1>9, EndFreeKeeps
<1> QED
  BY <1>1, <1>2, <1>3, <1>4, <1>5, <1>6, <1>7, <1>8, <1>9
     DEF Pool!BeginAlloc, Pool!Step, Pool!AllocStep, Pool!FreeStep

\* Objects that a list and some threads have between them, each in one place.
Shared(c, P, o, S) ==
    /\ c \in Seq(Values) /\ P \in SUBSET Threads
    /\ \A i, j \in 1 .. Len(c) : c[i] = c[j] => i = j
    /\ \A u, x \in P : o[u] = o[x] => u = x
    /\ \A u \in P : \A k \in 1 .. Len(c) : c[k] # o[u]
    /\ \A x : x \in S <=> (\E k \in 1 .. Len(c) : c[k] = x) \/ (\E u \in P : o[u] = x)

LEMMA ObjectsCounted ==
    ASSUME NEW c, NEW P, NEW o, NEW S, Shared(c, P, o, S)
    PROVE  Cardinality(S) = Len(c) + Cardinality(P)
<1>1. /\ c \in Seq(Values) /\ P \in SUBSET Threads
      /\ \A i, j \in 1 .. Len(c) : c[i] = c[j] => i = j
      /\ \A u, x \in P : o[u] = o[x] => u = x
      /\ \A u \in P : \A k \in 1 .. Len(c) : c[k] # o[u]
      /\ \A x : x \in S <=> (\E k \in 1 .. Len(c) : c[k] = x) \/ (\E u \in P : o[u] = x)
  BY DEF Shared
<1>2. IsFiniteSet(Values) /\ IsFiniteSet(Threads)
  BY ObjectsAssumption, StackAssumption
<1> QED
  BY <1>1, <1>2, NodesCounted

LEMMA PoolListIntact ==
    ASSUME NEW f, PoolList(f)
    PROVE  Pool!PoolIntact
<1>1. /\ PoolTypes /\ PoolHeld(f) /\ PoolCounted(f) /\ f \in Seq(Values) /\ Len(f) \in Nat
      /\ List(Values, Threads, f, pMetaTop, pMetaNext, pPc, pTop, pNew, PoolOwn)
      /\ NULL \notin Values
  BY PoolFacts DEF PoolList
<1>2. PICK P \in SUBSET Threads : P = {t \in Threads : pPc[t] \in {"taken", "pushRead", "link", "push"}}
  OBVIOUS
<1>3. \A t \in Threads : (t \in P <=> PoolOwn[t] # NULL)
                         /\ \A x : x \in Pool!Busy(t) <=> t \in P /\ PoolOwn[t] = x
  <2> TAKE t \in Threads
  <2>1. t \in P <=> pPc[t] \in Pushes \cup {"taken"}
    BY <1>2 DEF Pushes
  <2>2. \A x : x \in Pool!Busy(t) <=> \/ pPc[t] = "taken" /\ x = GetRealAddr(pTop[t])
                                      \/ pPc[t] \in Pushes /\ x = GetRealAddr(pNew[t])
    BY SameWords DEF Pool!Busy, Pushes
  <2>3. ~(pPc[t] = "taken" /\ pPc[t] \in Pushes)
    BY DEF Pushes
  <2>4. /\ pPc[t] \in Pushes => PoolOwn[t] = GetRealAddr(pNew[t]) /\ PoolOwn[t] # NULL
        /\ pPc[t] = "taken" => PoolOwn[t] = GetRealAddr(pTop[t]) /\ PoolOwn[t] # NULL
        /\ pPc[t] \notin Pushes \cup {"taken"} => PoolOwn[t] = NULL
    BY PoolFacts
  <2> QED
    BY <2>1, <2>2, <2>3, <2>4
<1>4. PICK Q : Q = Pool!Listed /\ \A x : x \in Q <=> ~pCleared /\ \E k \in 1 .. Len(f) : f[k] = x
  <2>1. \A x : x \in Pool!FreeNodes <=> \E k \in 1 .. Len(f) : f[k] = x
    BY FreeNodesAreList
  <2>2. CASE pCleared
    <3>1. Pool!Listed = {}
      BY <2>2, Zenon DEF Pool!Listed
    <3> QED
      BY <2>2, <3>1
  <2>3. CASE ~pCleared
    <3>1. Pool!Listed = Pool!FreeNodes
      BY <2>3, Zenon DEF Pool!Listed
    <3> QED
      BY <2>1, <2>3, <3>1
  <2> QED
    BY <2>2, <2>3
<1>5. pHeap = Pool!Listed \cup pLive \cup UNION {Pool!Busy(t) : t \in Threads}
  <2> DEFINE B == UNION {Pool!Busy(t) : t \in Threads}
  <2>1. \A x : x \in B <=> \E t \in Threads : x \in Pool!Busy(t)
    OBVIOUS
  <2> HIDE DEF B
  <2>2. \A x : x \in B <=> \E t \in P : PoolOwn[t] = x
    BY <1>2, <1>3, <2>1
  <2>3. \A x : x \in pHeap => x \in Q \/ x \in pLive \/ x \in B
    BY <1>1, <1>3, <1>4, <2>2 DEF PoolHeld, PoolTypes
  <2>4. \A x : x \in Q \/ x \in pLive \/ x \in B => x \in pHeap
    BY <1>1, <1>3, <1>4, <2>2 DEF PoolHeld, PoolTypes
  <2>5. pHeap = Q \cup pLive \cup B
    BY <2>3, <2>4
  <2> QED
    BY <1>4, <2>5 DEF B
<1>6. Cardinality(Q) = IF pCleared THEN 0 ELSE Len(f)
  <2>1. CASE pCleared
    <3>1. Q = {}
      BY <1>4, <2>1
    <3> QED
      BY <2>1, <3>1, FS_EmptySet
  <2>2. CASE ~pCleared
    BY <1>4, <2>2, ListedCounted DEF Pool!Listed
  <2> QED
    BY <2>1, <2>2
<1>7. Cardinality(pHeap) = Cardinality(Q) + Cardinality(pLive) + Cardinality(P)
  <2>1. \E h \in Seq(Values) : /\ Len(h) = Cardinality(Q)
                               /\ \A i, j \in 1 .. Len(h) : h[i] = h[j] => i = j
                               /\ \A x : (\E k \in 1 .. Len(h) : h[k] = x) <=> x \in Q
    <3>1. CASE pCleared
      <4>1. PICK h \in Seq(Values) : Len(h) = 0
        <5>1. <<>> \in Seq(Values) /\ Len(<<>>) = 0
          OBVIOUS
        <5> QED
          BY <5>1
      <4>2. Cardinality(Q) = 0 /\ \A x : x \notin Q
        BY <1>4, <1>6, <3>1
      <4>3. \A k : k \notin 1 .. Len(h)
        BY <4>1
      <4> QED
        BY <4>1, <4>2, <4>3
    <3>2. CASE ~pCleared
      <4>1. Cardinality(Q) = Len(f) /\ \A x : (\E k \in 1 .. Len(f) : f[k] = x) <=> x \in Q
        BY <1>4, <1>6, <3>2
      <4>2. \A i, j \in 1 .. Len(f) : f[i] = f[j] => i = j
        BY <1>1 DEF List, Linked
      <4> QED
        BY <1>1, <4>1, <4>2
    <3> QED
      BY <3>1, <3>2
  <2>12. PICK S, o : S = pHeap \ pLive /\ o = PoolOwn
    OBVIOUS
  <2>2. PICK h \in Seq(Values) :
          /\ o = PoolOwn /\ S = pHeap \ pLive
          /\ Len(h) = Cardinality(Q)
          /\ \A i, j \in 1 .. Len(h) : h[i] = h[j] => i = j
          /\ \A x : (\E k \in 1 .. Len(h) : h[k] = x) <=> x \in Q
    BY <2>1, <2>12
  <2>4. \A u, x \in P : o[u] = o[x] => u = x
    BY <1>1, <1>3, <2>2 DEF List, Owns
  <2>5. \A u \in P : \A k \in 1 .. Len(h) : h[k] # o[u]
    BY <1>1, <1>3, <1>4, <2>2 DEF List, Owns
  <2>6. \A x : x \in S <=> (\E k \in 1 .. Len(h) : h[k] = x) \/ (\E u \in P : o[u] = x)
    <3>1. \A x : x \in Q => x \in S
      BY <1>1, <1>4, <2>2 DEF PoolHeld
    <3>2. \A u \in P : o[u] \in S
      BY <1>1, <1>3, <2>2 DEF PoolHeld
    <3>3. \A x \in S : x \in Q \/ \E u \in P : o[u] = x
      <4> TAKE x \in S
      <4>1. x \in pHeap /\ x \notin pLive /\ x # NULL
        BY <1>1, <2>2 DEF PoolTypes
      <4> QED
        BY <1>1, <1>3, <1>4, <2>2, <4>1 DEF PoolHeld
    <3> QED
      BY <2>2, <3>1, <3>2, <3>3
  <2>7. Cardinality(S) = Len(h) + Cardinality(P) /\ IsFiniteSet(S)
    <3>1. Shared(h, P, o, S)
      BY <2>2, <2>4, <2>5, <2>6 DEF Shared
    <3>2. S \in SUBSET Values
      BY <1>1, <2>12 DEF PoolTypes
    <3>3. IsFiniteSet(S)
      BY <3>2, FS_Subset, ObjectsAssumption
    <3> QED
      BY <3>1, <3>3, ObjectsCounted
  <2>8. IsFiniteSet(pLive) /\ Cardinality(pLive) \in Nat /\ IsFiniteSet(P) /\ Cardinality(P) \in Nat
    <3>1. pLive \in SUBSET Values /\ P \in SUBSET Threads
      BY <1>1, <1>2 DEF PoolTypes
    <3>2. IsFiniteSet(pLive) /\ IsFiniteSet(P)
      BY <3>1, FS_Subset, ObjectsAssumption, StackAssumption
    <3> QED
      BY <3>2, FS_CardinalityType
  <2>9. pHeap = S \cup pLive /\ S \cap pLive = {}
    BY <1>1, <2>2 DEF PoolTypes
  <2>10. Cardinality(S \cup pLive) = Cardinality(S) + Cardinality(pLive)
    <3>1. Cardinality(S \cap pLive) = 0
      BY <2>9, FS_EmptySet
    <3>2. Cardinality(S \cup pLive) = Cardinality(S) + Cardinality(pLive) - Cardinality(S \cap pLive)
      BY <2>7, <2>8, FS_Union
    <3>3. Cardinality(S) \in Nat
      BY <2>7, FS_CardinalityType
    <3> QED
      BY <2>8, <3>1, <3>2, <3>3
  <2>11. Len(h) \in Nat /\ Cardinality(Q) = Len(h)
    BY <2>2
  <2> QED
    BY <2>7, <2>8, <2>9, <2>10, <2>11
<1>8. /\ Pool!At({"taken", "pushRead", "link", "push"}) = Cardinality(P)
      /\ Pool!At({"taken"}) = CountAt(Threads, pPc, {"taken"})
      /\ Pool!At({"pushed"}) = CountAt(Threads, pPc, {"pushed"})
  BY <1>2, SameCount DEF Pool!At, CountAt
<1>9. pCapacity = Cardinality(pHeap) /\ pSize = Cardinality(Pool!Listed) + Pool!At({"taken"}) - Pool!At({"pushed"})
  BY <1>1, <1>4, <1>6, <1>8 DEF PoolCounted
<1> QED
  BY <1>4, <1>5, <1>7, <1>8, <1>9, SameCount DEF Pool!PoolIntact

-------------------------------------------------------------------------------
\* The objects handed out are parted among those who have them: the threads, h[t]; the
\* nodes in use, d[n] for n in s; and the calls of Pop that have given their node back
\* and not returned, o[t].
Parted(h, live, s, d, o) ==
    /\ h \in [Threads -> SUBSET Values]
    /\ \A t \in Threads : \A v \in h[t] : v \in live
    /\ \A n \in s : d[n] \in live
    /\ \A t \in Threads : o[t] # NoValue => o[t] \in live
    /\ \A t, u \in Threads : \A v \in h[t] : v \in h[u] => t = u
    /\ \A t \in Threads : \A n \in s : d[n] \notin h[t]
    /\ \A t, u \in Threads : o[t] # NoValue => o[t] \notin h[u]
    /\ \A m, n \in s : d[m] = d[n] => m = n
    /\ \A n \in s : \A t \in Threads : o[t] # d[n]
    /\ \A t, u \in Threads : o[t] # NoValue /\ o[t] = o[u] => t = u
    /\ \A v \in live : \/ \E t \in Threads : v \in h[t]
                       \/ \E n \in s : d[n] = v
                       \/ \E t \in Threads : o[t] = v

\* Alloc returns an object nobody has.
LEMMA PartedGain ==
    ASSUME NEW h, NEW live \in SUBSET Values, NEW s, NEW d, NEW o, Parted(h, live, s, d, o),
           NEW t \in Threads, NEW v \in Values \ live
    PROVE  Parted([h EXCEPT ![t] = @ \cup {v}], live \cup {v}, s, d, o)
<1>1. PICK g : g = [h EXCEPT ![t] = @ \cup {v}]
  OBVIOUS
<1>2. /\ g \in [Threads -> SUBSET Values] /\ \A x : x \in g[t] <=> x \in h[t] \/ x = v
      /\ \A u \in Threads \ {t} : g[u] = h[u]
  BY <1>1 DEF Parted
<1>3. Parted(g, live \cup {v}, s, d, o)
  BY <1>2 DEF Parted
<1> QED
  BY <1>1, <1>3

\* Free takes back one its thread has.
LEMMA PartedLose ==
    ASSUME NEW h, NEW live, NEW s, NEW d, NEW o, Parted(h, live, s, d, o),
           NEW t \in Threads, NEW v \in h[t]
    PROVE  Parted([h EXCEPT ![t] = @ \ {v}], live \ {v}, s, d, o)
<1>1. PICK g : g = [h EXCEPT ![t] = @ \ {v}]
  OBVIOUS
<1>2. /\ g \in [Threads -> SUBSET Values] /\ \A x : x \in g[t] <=> x \in h[t] /\ x # v
      /\ \A u \in Threads \ {t} : g[u] = h[u]
  BY <1>1 DEF Parted
<1>3. Parted(g, live \ {v}, s, d, o)
  BY <1>2, StackAssumption DEF Parted
<1> QED
  BY <1>1, <1>3

\* Push puts it into a node nobody uses.
LEMMA PartedPush ==
    ASSUME NEW h, NEW live \in SUBSET Values, NEW s, NEW d, NEW o, Parted(h, live, s, d, o),
           NEW t \in Threads, NEW v \in h[t], NEW n, n \notin s,
           NEW d2, d2[n] = v, \A m \in s : d2[m] = d[m]
    PROVE  Parted([h EXCEPT ![t] = @ \ {v}], live, s \cup {n}, d2, o)
<1>1. PICK g : g = [h EXCEPT ![t] = @ \ {v}]
  OBVIOUS
<1>2. /\ g \in [Threads -> SUBSET Values] /\ \A x : x \in g[t] <=> x \in h[t] /\ x # v
      /\ \A u \in Threads \ {t} : g[u] = h[u]
      /\ v \in live /\ v # NoValue
  BY <1>1, StackAssumption DEF Parted
<1>3. Parted(g, live, s \cup {n}, d2, o)
  BY <1>2 DEF Parted
<1> QED
  BY <1>1, <1>3

\* Pop takes it out and frees the node.
LEMMA PartedTake ==
    ASSUME NEW h, NEW live \in SUBSET Values, NEW s, NEW d, NEW o, Parted(h, live, s, d, o),
           NEW t \in Threads, NEW n \in s, NEW d2, \A m \in s \ {n} : d2[m] = d[m],
           NEW o2, o[t] = NoValue, o2[t] = d[n], \A u \in Threads \ {t} : o2[u] = o[u]
    PROVE  Parted(h, live, s \ {n}, d2, o2)
<1>1. PICK v : v = d[n]
  OBVIOUS
<1>2. /\ v \in live /\ v # NoValue /\ \A u \in Threads : v \notin h[u] /\ o[u] # v
      /\ \A m \in s \ {n} : d[m] # v
  BY <1>1, StackAssumption DEF Parted
<1>3. /\ o2[t] = v /\ \A u \in Threads : o2[u] = o[u] \/ (u = t /\ o2[u] = v)
      /\ o[t] = NoValue
  BY <1>1
<1>4. /\ \A m \in s \ {n} : d2[m] \in live
      /\ \A u \in Threads : o2[u] # NoValue => o2[u] \in live
      /\ \A u \in Threads : \A m \in s \ {n} : d2[m] \notin h[u]
      /\ \A u, x \in Threads : o2[u] # NoValue => o2[u] \notin h[x]
      /\ \A k, m \in s \ {n} : d2[k] = d2[m] => k = m
      /\ \A m \in s \ {n} : \A u \in Threads : o2[u] # d2[m]
      /\ \A u, x \in Threads : o2[u] # NoValue /\ o2[u] = o2[x] => u = x
  BY <1>2, <1>3 DEF Parted
<1>5. ASSUME NEW x \in live
      PROVE  \/ \E i \in Threads : x \in h[i]
             \/ \E m \in s \ {n} : d2[m] = x
             \/ \E i \in Threads : o2[i] = x
  <2>1. x # NoValue
    BY StackAssumption
  <2>2. CASE \E i \in Threads : x \in h[i]
    BY <2>2
  <2>3. CASE \E m \in s : d[m] = x
    <3>1. PICK m \in s : d[m] = x
      BY <2>3
    <3>2. CASE m = n
      <4>1. o2[t] = x
        BY <1>1, <1>3, <3>1, <3>2
      <4> QED
        BY <4>1
    <3>3. CASE m # n
      <4>1. m \in s \ {n} /\ d2[m] = x
        BY <3>1, <3>3
      <4> QED
        BY <4>1
    <3> QED
      BY <3>2, <3>3
  <2>4. CASE \E i \in Threads : o[i] = x
    <3>1. PICK i \in Threads : o[i] = x
      BY <2>4
    <3>2. o2[i] = x
      BY <1>3, <2>1, <3>1
    <3> QED
      BY <3>2
  <2> QED
    BY <2>2, <2>3, <2>4 DEF Parted
<1> QED
  BY <1>4, <1>5 DEF Parted

\* Pop returns it.
LEMMA PartedReturn ==
    ASSUME NEW h, NEW live \in SUBSET Values, NEW s, NEW d, NEW o, Parted(h, live, s, d, o),
           NEW t \in Threads, NEW v \in Values, o[t] = v,
           NEW o2, o2[t] = NoValue, \A u \in Threads \ {t} : o2[u] = o[u]
    PROVE  Parted([h EXCEPT ![t] = @ \cup {v}], live, s, d, o2)
<1>1. PICK g : g = [h EXCEPT ![t] = @ \cup {v}]
  OBVIOUS
<1>2. /\ g \in [Threads -> SUBSET Values] /\ \A x : x \in g[t] <=> x \in h[t] \/ x = v
      /\ \A u \in Threads \ {t} : g[u] = h[u]
      /\ v # NoValue
  BY <1>1, StackAssumption DEF Parted
<1>3. Parted(g, live, s, d, o2)
  BY <1>2, StackAssumption DEF Parted
<1> QED
  BY <1>1, <1>3

Out == [t \in Threads |-> IF pc[t] = "taken" THEN val[t] ELSE NoValue]

HoldInv == Parted(hold, pLive, inUse, data, Out)

MCInv ==
    /\ \E c \in Seq(Nodes) : StackList(c)
    /\ \E f \in Seq(Values) : PoolList(f)
    /\ HoldInv

\* What a step of a thread does to the objects it has, and nobody else's.
LEMMA StackStepParts ==
    ASSUME NEW c, StackList(c), HoldInv, pLive \in SUBSET Values, NEW t \in Threads,
           StackCall(t)
    PROVE  HoldInv'
<1>1. /\ StackTypes /\ pLive' = pLive
      /\ pc[t] = "taken" => val[t] \in Values
      /\ pc[t] = "take" => GetRealAddr(top[t]) = Own[t]
  BY StackFacts DEF StackCall, poolVars, StackList, Held
<1>2. PICK o, o2 : o = Out /\ o2 = Out'
  OBVIOUS
<1>3. \A u \in Threads : /\ o[u] = IF pc[u] = "taken" THEN val[u] ELSE NoValue
                         /\ o2[u] = IF pc'[u] = "taken" THEN val'[u] ELSE NoValue
  BY <1>2 DEF Out
<1>4. Parted(hold, pLive, inUse, data, o)
  BY <1>2 DEF HoldInv
<1>5. ASSUME NEW v \in hold[t], BeginPush(t, v), Lose(t, v)
      PROVE  Parted(hold', pLive, inUse', data', o2)
  <2>1. PICK n \in Nodes \ inUse :
          /\ inUse' = inUse \cup {n} /\ data' = [data EXCEPT ![n] = v]
          /\ pc[t] = "idle" /\ Goto(t, "tag") /\ val' = val
    BY <1>5 DEF BeginPush, NodePool!Alloc
  <2>2. data'[n] = v /\ \A m \in inUse : data'[m] = data[m]
    BY <1>1, <2>1 DEF StackTypes
  <2>3. \A u \in Threads : o2[u] = o[u]
    BY <1>1, <1>3, <2>1 DEF Goto, StackTypes
  <2>4. o2 = o
    BY <1>2, <2>3 DEF Out
  <2>5. Parted([hold EXCEPT ![t] = @ \ {v}], pLive, inUse \cup {n}, data', o)
    BY <1>4, <2>2, PartedPush
  <2> QED
    BY <1>5, <2>1, <2>4, <2>5 DEF Lose
<1>6. ASSUME pc[t] = "taken", Step(t), Give(t, val[t])
      PROVE  Parted(hold', pLive, inUse', data', o2)
  <2>1. Goto(t, "idle") /\ val' = [val EXCEPT ![t] = NoValue] /\ UNCHANGED <<data, inUse>>
    BY <1>6 DEF Step, PushStep, PopStep, GetTag, PushRead, Link, Push, EndPush, ReadNext, Pop,
                TakeData, EndPop, Return, nodeVars
  <2>2. o2[t] = NoValue /\ (\A u \in Threads \ {t} : o2[u] = o[u]) /\ o[t] = val[t]
    BY <1>1, <1>3, <1>6, <2>1 DEF Goto, StackTypes
  <2>3. Parted([hold EXCEPT ![t] = @ \cup {val[t]}], pLive, inUse, data, o2)
    BY <1>1, <1>4, <1>6, <2>2, PartedReturn
  <2> QED
    BY <1>6, <2>1, <2>3 DEF Give
<1>7. ASSUME TakeData(t), hold' = hold
      PROVE  Parted(hold', pLive, inUse', data', o2)
  <2>1. PICK n \in inUse :
          /\ inUse' = inUse \ {n} /\ data' = [data EXCEPT ![n] = NoValue]
          /\ pc[t] = "take" /\ Goto(t, "taken") /\ val' = [val EXCEPT ![t] = data[n]]
    BY <1>7 DEF TakeData, NodePool!Free
  <2>2. \A m \in inUse \ {n} : data'[m] = data[m]
    BY <1>1, <2>1 DEF StackTypes
  <2>3. o2[t] = data[n] /\ (\A u \in Threads \ {t} : o2[u] = o[u]) /\ o[t] = NoValue
    BY <1>1, <1>3, <2>1 DEF Goto, StackTypes
  <2>4. Parted(hold, pLive, inUse \ {n}, data', o2)
    BY <1>4, <2>2, <2>3, PartedTake
  <2> QED
    BY <1>7, <2>1, <2>4
<1>8. ASSUME BeginPop(t) \/ Step(t), pc[t] # "taken", ~TakeData(t), hold' = hold
      PROVE  Parted(hold', pLive, inUse', data', o2)
  <2>1. UNCHANGED <<data, inUse>>
    BY <1>8 DEF BeginPop, Step, PushStep, PopStep, GetTag, PushRead, Link, Push, EndPush, ReadNext,
                ReadTop, Pop, EndPop, nodeVars
  <2>2. /\ val' = val \/ val' = [val EXCEPT ![t] = NoValue]
        /\ \E l \in Labels \ {"taken"} : Goto(t, l)
    BY <1>8 DEF BeginPop, Step, PushStep, PopStep, GetTag, PushRead, Link, Push, EndPush, ReadNext,
                ReadTop, Pop, EndPop, Return, Labels
  <2>3. \A u \in Threads : o2[u] = o[u]
    BY <1>1, <1>3, <1>8, <2>2 DEF Goto, StackTypes
  <2>4. o2 = o
    BY <1>2, <2>3 DEF Out
  <2> QED
    BY <1>4, <1>8, <2>1, <2>4
<1>9. Parted(hold', pLive, inUse', data', o2)
  <2>1. CASE \E v \in hold[t] : BeginPush(t, v) /\ Lose(t, v)
    BY <1>5, <2>1
  <2>2. CASE BeginPop(t) /\ hold' = hold
    BY <1>7, <1>8, <2>2 DEF BeginPop
  <2>3. CASE Step(t) /\ IF pc[t] = "taken" THEN Give(t, val[t]) ELSE UNCHANGED hold
    BY <1>6, <1>7, <1>8, <2>3
  <2> QED
    BY <2>1, <2>2, <2>3 DEF StackCall
<1> QED
  BY <1>1, <1>2, <1>9 DEF HoldInv

LEMMA PoolStepParts ==
    ASSUME NEW f, PoolList(f), HoldInv, NEW t \in Threads, PoolCall(t)
    PROVE  HoldInv'
<1>1. /\ inUse' = inUse /\ data' = data /\ pc' = pc /\ val' = val
  BY DEF PoolCall, vars, nodeVars, stackVars
<1>2. Out' = Out
  BY <1>1 DEF Out
<1>3. Parted(hold, pLive, inUse, data, Out) /\ hold \in [Threads -> SUBSET Values]
  BY DEF HoldInv, Parted
<1>4. pLive \in SUBSET pHeap /\ pLive \in SUBSET Values /\ pHeap \in SUBSET Values
  BY DEF PoolList, PoolTypes
<1>5. Parted(hold', pLive', inUse, data, Out)
  <2>1. CASE Pool!BeginAlloc(t) /\ hold' = hold
    BY <1>3, <2>1 DEF Pool!BeginAlloc, Pool!ReadTop
  <2>2. CASE \E v \in hold[t] : Pool!BeginFree(t, v) /\ Lose(t, v)
    <3>1. PICK v \in hold[t] : Pool!BeginFree(t, v) /\ Lose(t, v)
      BY <2>2
    <3>2. pLive' = pLive \ {v} /\ hold' = [hold EXCEPT ![t] = @ \ {v}]
      BY <3>1 DEF Pool!BeginFree, Lose
    <3> QED
      BY <1>3, <3>2, PartedLose
  <2>3. CASE Pool!Step(t) /\ hold' = [hold EXCEPT ![t] = @ \cup (pLive' \ pLive)]
    <3>1. CASE pLive' = pLive
      <4>1. hold' = [hold EXCEPT ![t] = @ \cup {}]
        BY <2>3, <3>1
      <4>2. hold' = hold
        BY <1>3, <4>1
      <4> QED
        BY <1>3, <3>1, <4>2
    <3>2. CASE \E n \in Values \ pLive : pLive' = pLive \cup {n}
      <4>1. PICK n \in Values \ pLive : pLive' = pLive \cup {n}
        BY <3>2
      <4>2. pLive' \ pLive = {n}
        BY <4>1
      <4>3. hold' = [hold EXCEPT ![t] = @ \cup {n}]
        BY <2>3, <4>2
      <4> QED
        BY <1>3, <1>4, <4>1, <4>3, PartedGain
    <3>3. CASE Pool!NewNode(t)
      BY <1>4, <3>2, <3>3 DEF Pool!NewNode
    <3>4. CASE Pool!EndAlloc(t)
      <4>1. PICK n : n = GetRealAddr(pTop[t]) /\ pPc[t] = "taken" /\ pLive' = pLive \cup {n}
        BY <3>4, SameWords DEF Pool!EndAlloc
      <4>2. n = PoolOwn[t] /\ n # NULL
        BY <4>1, PoolFacts
      <4>3. n \in Values \ pLive
        BY <1>4, <4>2 DEF PoolList, PoolHeld
      <4> QED
        BY <3>2, <4>1, <4>3
    <3>5. CASE ~Pool!NewNode(t) /\ ~Pool!EndAlloc(t)
      <4>1. pLive' = pLive
        BY <2>3, <3>5 DEF Pool!Step, Pool!AllocStep, Pool!FreeStep, Pool!ReadTop, Pool!ReadNext,
                          Pool!Pop, Pool!PushRead, Pool!Link, Pool!Push, Pool!EndFree
      <4> QED
        BY <3>1, <4>1
    <3> QED
      BY <3>3, <3>4, <3>5
  <2> QED
    BY <2>1, <2>2, <2>3 DEF PoolCall
<1> QED
  BY <1>1, <1>2, <1>5 DEF HoldInv

-------------------------------------------------------------------------------
LEMMA MCInitHolds == MCInit => MCInv
<1> SUFFICES ASSUME MCInit PROVE MCInv
  OBVIOUS
<1>1. Init /\ Pool!Init /\ hold = [t \in Threads |-> {}]
  BY DEF MCInit
<1>2. \E c \in Seq(Nodes) : StackList(c)
  BY <1>1, StackInvInductive DEF StackInv
<1>3. \E f \in Seq(Values) : PoolList(f)
  <2>1. <<>> \in Seq(Values)
    OBVIOUS
  <2> QED
    BY <1>1, <2>1, PoolInitKeeps
<1>4. HoldInv
  <2>1. pLive = {} /\ inUse = {} /\ \A t \in Threads : Out[t] = NoValue /\ hold[t] = {}
    BY <1>1 DEF Init, Pool!Init, Out
  <2>2. hold \in [Threads -> SUBSET Values]
    BY <1>1
  <2> QED
    BY <2>1, <2>2 DEF HoldInv, Parted
<1> QED
  BY <1>2, <1>3, <1>4 DEF MCInv

\* Nothing of the one happens while the other steps.
LEMMA PoolStays ==
    ASSUME NEW f, PoolList(f), UNCHANGED poolVars
    PROVE  PoolList(f)'
<1>1. PoolOwn' = PoolOwn
  BY DEF poolVars, PoolOwn
<1> QED
  BY <1>1 DEF poolVars, PoolList, PoolTypes, PoolHeld, PoolCounted

LEMMA HoldStays ==
    ASSUME HoldInv, UNCHANGED vars, pLive' = pLive, hold' = hold
    PROVE  HoldInv'
<1>1. Out' = Out
  BY DEF vars, Out
<1> QED
  BY <1>1 DEF vars, nodeVars, HoldInv

LEMMA MCStackSteps ==
    ASSUME HoldInv, [MCNext]_<<vars, poolVars, hold>>
    PROVE  [Next]_vars
<1>1. ASSUME NEW t \in Threads, PoolCall(t) PROVE [Next]_vars
  BY <1>1 DEF PoolCall
<1>2. ASSUME NEW t \in Threads, StackCall(t) PROVE [Next]_vars
  <2>1. \A v \in hold[t] : v \in Values
    BY DEF HoldInv, Parted
  <2> QED
    BY <1>2, <2>1 DEF StackCall, Next
<1>3. ASSUME Pool!ClearAll, UNCHANGED <<vars, hold>> PROVE [Next]_vars
  BY <1>3
<1>4. ASSUME UNCHANGED <<vars, poolVars, hold>> PROVE [Next]_vars
  BY <1>4
<1> QED
  BY <1>1, <1>2, <1>3, <1>4 DEF MCNext

LEMMA MCStepHolds == MCInv /\ [MCNext]_<<vars, poolVars, hold>> => MCInv'
<1> SUFFICES ASSUME MCInv, [MCNext]_<<vars, poolVars, hold>> PROVE MCInv'
  OBVIOUS
<1>1. PICK c \in Seq(Nodes) : StackList(c)
  BY DEF MCInv
<1>2. PICK f \in Seq(Values) : PoolList(f)
  BY DEF MCInv
<1>3. HoldInv /\ pLive \in SUBSET Values
  BY <1>2 DEF MCInv, PoolList, PoolTypes
<1>4. \E d \in Seq(Nodes) : StackList(d)'
  <2>1. StackInv /\ [Next]_vars
    BY <1>1, <1>3, MCStackSteps DEF StackInv
  <2>2. StackInv'
    BY <2>1, StackInvInductive
  <2> QED
    BY <2>2 DEF StackInv
<1>5. (\E g \in Seq(Values) : PoolList(g)') /\ HoldInv'
  <2>1. ASSUME NEW t \in Threads, PoolCall(t)
        PROVE  (\E g \in Seq(Values) : PoolList(g)') /\ HoldInv'
    <3>1. HoldInv'
      BY <1>2, <1>3, <2>1, PoolStepParts
    <3>2. CASE \E v \in hold[t] : Pool!BeginFree(t, v)
      <4>1. PICK v \in Values : Pool!BeginFree(t, v)
        BY <1>3, <3>2 DEF HoldInv, Parted
      <4>2. PoolList(f)'
        BY <1>2, <4>1, BeginFreeKeeps
      <4> QED
        BY <3>1, <4>2
    <3>3. CASE Pool!BeginAlloc(t) \/ Pool!Step(t)
      BY <1>2, <3>1, <3>3, PoolStepKeeps
    <3> QED
      BY <2>1, <3>2, <3>3 DEF PoolCall
  <2>2. ASSUME NEW t \in Threads, StackCall(t)
        PROVE  (\E g \in Seq(Values) : PoolList(g)') /\ HoldInv'
    <3>1. HoldInv'
      BY <1>1, <1>3, <2>2, StackStepParts
    <3>2. PoolList(f)'
      BY <1>2, <2>2, PoolStays DEF StackCall
    <3> QED
      BY <3>1, <3>2
  <2>3. ASSUME Pool!ClearAll, UNCHANGED <<vars, hold>>
        PROVE  (\E g \in Seq(Values) : PoolList(g)') /\ HoldInv'
    <3>1. PoolList(f)'
      BY <1>2, <2>3, ClearAllKeeps
    <3>2. pLive' = pLive
      BY <2>3 DEF Pool!ClearAll
    <3> QED
      BY <1>3, <2>3, <3>1, <3>2, HoldStays
  <2>4. ASSUME UNCHANGED <<vars, poolVars, hold>>
        PROVE  (\E g \in Seq(Values) : PoolList(g)') /\ HoldInv'
    <3>1. PoolList(f)'
      BY <1>2, <2>4, PoolStays
    <3>2. pLive' = pLive
      BY <2>4 DEF poolVars
    <3> QED
      BY <1>3, <2>4, <3>1, <3>2, HoldStays
  <2> QED
    BY <2>1, <2>2, <2>3, <2>4 DEF MCNext
<1> QED
  BY <1>4, <1>5 DEF MCInv

\* In every state there is a sequence of nodes that the stack is, one of objects that the
\* pool's list is, and every object handed out has one owner.
THEOREM MCInvAlways == MCSpec => []MCInv
BY MCInitHolds, MCStepHolds, PTL DEF MCSpec

\* Neither list loses or repeats a node, whatever the threads do between the reads and
\* the CAS of Push, Pop, Alloc and Free, and num_, size_ and capacity_ are what the
\* calls under way leave of the number of nodes.
THEOREM ListsIntactAlways == MCSpec => []ListsIntact
<1>1. MCInv => ListsIntact
  BY StackListIntact, PoolListIntact DEF MCInv, ListsIntact
<1> QED
  BY <1>1, MCInvAlways, PTL

\* CLockFreeStack is a stack: the CAS of Push puts an element in front and the CAS of
\* Pop takes the first out, also when its node was popped, freed and pushed again while
\* the thread slept between the read of metaTop_ and the CAS.
THEOREM ImplementsLifo == MCSpec => StackSpec
<1>1. Init => Lifo!Init
  BY StackImplements
<1>2. MCInv /\ [MCNext]_<<vars, poolVars, hold>> => [Lifo!Next]_<<Content, TakenBy>>
  BY StackImplements, MCStackSteps DEF MCInv, StackInv
<1>3. MCInit => Lifo!Init
  BY <1>1 DEF MCInit
<1> QED
  BY <1>2, <1>3, MCInvAlways, PTL DEF MCSpec, StackSpec, Lifo!Spec, TakenBy

-------------------------------------------------------------------------------
\* The pairs of a thread and an object it has are as many as the objects threads have.
Pairs(h, H, V) ==
    /\ h \in [Threads -> SUBSET Values]
    /\ \A t, u \in Threads : \A v \in h[t] : v \in h[u] => t = u
    /\ H \in SUBSET (Threads \X Values)
    /\ \A x \in Threads \X Values : x \in H <=> x[2] \in h[x[1]]
    /\ \A v : v \in V <=> \E x \in H : x[2] = v

LEMMA PairsCounted ==
    ASSUME NEW h, NEW H, NEW V, Pairs(h, H, V)
    PROVE  /\ Cardinality(H) = Cardinality(V)
           /\ \A v : v \in V <=> \E t \in Threads : v \in h[t]
<1>0. /\ h \in [Threads -> SUBSET Values]
      /\ \A t, u \in Threads : \A v \in h[t] : v \in h[u] => t = u
      /\ H \in SUBSET (Threads \X Values)
      /\ \A x \in Threads \X Values : x \in H <=> x[2] \in h[x[1]]
      /\ \A v : v \in V <=> \E x \in H : x[2] = v
  BY DEF Pairs
<1>1. \A x \in H : x[1] \in Threads /\ x[2] \in Values /\ x[2] \in h[x[1]] /\ x = <<x[1], x[2]>>
  BY <1>0
<1>2. \A t \in Threads : \A v \in h[t] : <<t, v>> \in H
  BY <1>0
<1>3. \A v : v \in V <=> \E x \in H : x[2] = v
  BY <1>0
<1>4. \A v : v \in V <=> \E t \in Threads : v \in h[t]
  <2>1. ASSUME NEW t \in Threads, NEW v \in h[t] PROVE v \in V
    <3>1. <<t, v>> \in H /\ <<t, v>>[2] = v
      BY <1>2
    <3> QED
      BY <1>3, <3>1
  <2> QED
    BY <1>1, <1>3, <2>1
<1>5. PICK g : g = [x \in H |-> x[2]]
  OBVIOUS
<1>6. g \in [H -> V] /\ \A x \in H : g[x] = x[2]
  BY <1>3, <1>5
<1>7. ASSUME NEW x \in H, NEW y \in H, g[x] = g[y] PROVE x = y
  <2>1. x[2] = y[2] /\ x[1] = y[1]
    BY <1>0, <1>1, <1>6, <1>7
  <2> QED
    BY <1>1, <2>1
<1>8. \A v \in V : \E x \in H : g[x] = v
  BY <1>3, <1>6
<1>9. g \in Bijection(H, V)
  BY <1>6, <1>7, <1>8 DEF Bijection, Injection, Surjection, IsInjective
<1>10. ExistsBijection(H, V)
  BY <1>9 DEF ExistsBijection
<1>11. IsFiniteSet(H)
  <2>1. IsFiniteSet(Threads \X Values)
    BY StackAssumption, ObjectsAssumption, FS_Product
  <2> QED
    BY <1>0, <2>1, FS_Subset
<1>12. IsFiniteSet(V) /\ Cardinality(H) = Cardinality(V)
  BY <1>10, <1>11, FS_Bijection
<1> QED
  BY <1>4, <1>12

\* Where an object that no thread has is: in a node of the list, or with a Push or a Pop.
LEMMA HandedOnNow ==
    ASSUME NEW c \in Seq(Nodes), StackList(c), HoldInv, pLive \in SUBSET Values
    PROVE  HandedOn
<1>1. /\ Chain = c /\ Len(c) \in Nat /\ DOMAIN c = 1 .. Len(c)
      /\ \A i, j \in 1 .. Len(c) : c[i] = c[j] => i = j
      /\ \A k \in 1 .. Len(c) : c[k] \in inUse /\ data[c[k]] \in Values
      /\ \A t \in Threads : Own[t] # NULL => Own[t] \in inUse
      /\ \A n \in inUse : (\E k \in 1 .. Len(c) : c[k] = n) \/ (\E t \in Threads : Own[t] = n)
      /\ \A n \in inUse : n # NULL
      /\ \A t \in Threads : pc[t] = "taken" => val[t] \in Values
  BY ChainIsList, StackAssumption DEF StackList, List, Linked, Held, StackTypes
<1>2. \A t \in Threads : /\ pc[t] \in Building => Own[t] = GetRealAddr(new[t]) /\ Own[t] # NULL
                         /\ pc[t] = "take" => Own[t] = GetRealAddr(top[t]) /\ Own[t] # NULL
                         /\ pc[t] \notin Building \cup {"take"} => Own[t] = NULL
                         /\ \A k \in 1 .. Len(c) : c[k] = Own[t] => Own[t] = NULL
  BY StackFacts
<1>3. \A t, u \in Threads : Own[t] # NULL /\ Own[t] = Own[u] => t = u
  BY DEF StackList, List, Owns
<1>4. /\ Pushing \in SUBSET Threads /\ Popping \in SUBSET Threads
      /\ \A t \in Threads : (t \in Pushing <=> pc[t] \in Building)
                            /\ (t \in Popping <=> pc[t] \in {"take", "taken"})
  BY DEF Pushing, Popping, At, Building
<1>5. PICK P \in SUBSET Threads : P = Pushing \cup Popping
  BY <1>4
<1>6. PICK o : /\ \A t \in Pushing : o[t] = data[GetRealAddr(new[t])]
               /\ \A t \in Popping : o[t] = Taken(t)
               /\ \A t \in P : \/ pc[t] \in Building \cup {"take"} /\ o[t] = data[Own[t]]
                               \/ pc[t] = "taken" /\ o[t] = val[t]
  <2> DEFINE w == [t \in Threads |-> IF t \in Pushing THEN data[GetRealAddr(new[t])] ELSE Taken(t)]
  <2>1. \A t \in Pushing : t \notin Popping
    BY <1>4 DEF Building
  <2>2. \A t \in Pushing : w[t] = data[GetRealAddr(new[t])]
    BY <1>4
  <2>3. \A t \in Popping : w[t] = Taken(t)
    BY <1>4, <2>1
  <2>4. \A t \in Popping : \/ pc[t] = "take" /\ Taken(t) = data[GetRealAddr(top[t])]
                           \/ pc[t] = "taken" /\ Taken(t) = val[t]
    BY <1>4 DEF Taken
  <2> HIDE DEF w
  <2>5. \A t \in P : \/ pc[t] \in Building \cup {"take"} /\ w[t] = data[Own[t]]
                     \/ pc[t] = "taken" /\ w[t] = val[t]
    BY <1>2, <1>4, <1>5, <2>2, <2>3, <2>4
  <2> QED
    BY <2>2, <2>3, <2>5
<1>7. PICK h, H, V, out :
        /\ h = hold /\ H = {x \in Threads \X Values : x[2] \in hold[x[1]]} /\ V = {x[2] : x \in H}
        /\ out = Out
  OBVIOUS
<1>8. /\ Parted(h, pLive, inUse, data, out)
      /\ \A t \in Threads : out[t] = IF pc[t] = "taken" THEN val[t] ELSE NoValue
  BY <1>7 DEF HoldInv, Out
<1>9. /\ Cardinality(H) = Cardinality(V) /\ IsFiniteSet(V)
      /\ \A v : v \in V <=> \E t \in Threads : v \in h[t]
  <2>1. h \in [Threads -> SUBSET Values] /\ \A t, u \in Threads : \A v \in h[t] : v \in h[u] => t = u
    BY <1>8 DEF Parted
  <2>2. H \in SUBSET (Threads \X Values) /\ \A x \in Threads \X Values : x \in H <=> x[2] \in h[x[1]]
    BY <1>7
  <2>3. \A v : v \in V <=> \E x \in H : x[2] = v
    BY <1>7
  <2>8. Pairs(h, H, V)
    BY <2>1, <2>2, <2>3 DEF Pairs
  <2>4. Cardinality(H) = Cardinality(V)
    BY <2>8, PairsCounted
  <2>5. \A v : v \in V <=> \E t \in Threads : v \in h[t]
    BY <2>8, PairsCounted
  <2>6. V \in SUBSET Values
    BY <2>1, <2>5
  <2>7. IsFiniteSet(V)
    BY <2>6, FS_Subset, ObjectsAssumption
  <2> QED
    BY <2>4, <2>5, <2>7
<1>10. PICK e \in Seq(Values) : Len(e) = Len(c) /\ \A k \in 1 .. Len(c) : e[k] = data[c[k]]
  BY <1>1, ContentFacts DEF ContentOf
<1>11. PICK S : S = pLive \ V
  OBVIOUS
<1>12. \A x : x \in S <=> x \in pLive /\ ~\E t \in Threads : x \in h[t]
  BY <1>9, <1>11
<1>13. \A t \in P : o[t] \in S
  BY <1>1, <1>2, <1>4, <1>5, <1>6, <1>8, <1>12, StackAssumption DEF Parted
<1>14. \A k \in 1 .. Len(c) : e[k] \in S
  BY <1>1, <1>8, <1>10, <1>12 DEF Parted
<1>15. \A x \in S : (\E k \in 1 .. Len(c) : e[k] = x) \/ (\E u \in P : o[u] = x)
  <2> TAKE x \in S
  <2>1. x \in Values /\ x # NoValue
    BY <1>12, StackAssumption
  <2>2. CASE \E n \in inUse : data[n] = x
    <3>1. PICK n \in inUse : data[n] = x
      BY <2>2
    <3>2. CASE \E k \in 1 .. Len(c) : c[k] = n
      BY <1>10, <3>1, <3>2
    <3>3. CASE \E t \in Threads : Own[t] = n
      <4>1. PICK t \in Threads : Own[t] = n /\ n # NULL
        BY <1>1, <3>3
      <4>2. t \in P /\ pc[t] # "taken"
        BY <1>2, <1>4, <1>5, <4>1 DEF Building
      <4>3. o[t] = x
        BY <1>6, <3>1, <4>1, <4>2
      <4> QED
        BY <4>2, <4>3
    <3> QED
      BY <1>1, <3>2, <3>3
  <2>3. CASE \E t \in Threads : out[t] = x
    <3>1. PICK t \in Threads : pc[t] = "taken" /\ val[t] = x
      BY <1>8, <2>1, <2>3
    <3>2. t \in P /\ o[t] = x
      BY <1>4, <1>5, <1>6, <3>1 DEF Building
    <3> QED
      BY <3>2
  <2> QED
    BY <1>8, <1>12, <2>2, <2>3 DEF Parted
<1>16. Shared(e, P, o, S)
  <2>1. \A i, j \in 1 .. Len(e) : e[i] = e[j] => i = j
    BY <1>1, <1>8, <1>10 DEF Parted
  <2>2. \A u, x \in P : o[u] = o[x] => u = x
    BY <1>1, <1>2, <1>3, <1>5, <1>6, <1>8, StackAssumption DEF Parted
  <2>3. \A u \in P : \A k \in 1 .. Len(e) : e[k] # o[u]
    BY <1>1, <1>2, <1>5, <1>6, <1>8, <1>10, StackAssumption DEF Parted
  <2> QED
    BY <1>10, <1>13, <1>14, <1>15, <2>1, <2>2, <2>3 DEF Shared
<1>17. Cardinality(pLive) = Cardinality(H) + Len(c) + Cardinality(P)
  <2>1. Cardinality(S) = Len(c) + Cardinality(P)
    BY <1>10, <1>16, ObjectsCounted
  <2>2. V \subseteq pLive /\ S \cup V = pLive /\ S \cap V = {}
    BY <1>8, <1>9, <1>11 DEF Parted
  <2>3. S \in SUBSET Values
    BY <1>11
  <2>4. IsFiniteSet(S) /\ IsFiniteSet(P)
    BY <2>3, FS_Subset, ObjectsAssumption, StackAssumption
  <2>5. Cardinality(S \cup V) = Cardinality(S) + Cardinality(V) - Cardinality(S \cap V)
    BY <1>9, <2>4, FS_Union
  <2>6. Cardinality(S \cap V) = 0
    BY <2>2, FS_EmptySet
  <2>7. Cardinality(V) \in Nat /\ Cardinality(S) \in Nat /\ Cardinality(P) \in Nat
    BY <1>9, <2>4, FS_CardinalityType
  <2>8. PICK p, q, r, s \in Nat : /\ p = Cardinality(V) /\ q = Cardinality(S)
                                  /\ r = Cardinality(P) /\ s = Len(c)
    BY <1>1, <2>7
  <2>9. Cardinality(pLive) = q + p - 0
    BY <2>2, <2>5, <2>6, <2>8
  <2>10. q = s + r
    BY <2>1, <2>8
  <2>11. Cardinality(H) = p
    BY <1>9, <2>8
  <2>12. q + p - 0 = p + s + r
    BY <2>10
  <2> QED
    BY <2>8, <2>9, <2>11, <2>12
<1>18. PICK A \in {{data[c[k]] : k \in 1 .. Len(c)}},
            B \in {{data[GetRealAddr(new[t])] : t \in Pushing}},
            D \in {{Taken(t) : t \in Popping}} :
                      /\ A = {data[c[k]] : k \in 1 .. Len(c)}
                      /\ B = {data[GetRealAddr(new[t])] : t \in Pushing}
                      /\ D = {Taken(t) : t \in Popping}
                      /\ \A x : x \in A <=> \E k \in 1 .. Len(c) : e[k] = x
                      /\ \A x : x \in B <=> \E t \in Pushing : o[t] = x
                      /\ \A x : x \in D <=> \E t \in Popping : o[t] = x
  <2>1. \A x : x \in {data[c[k]] : k \in 1 .. Len(c)} <=> \E k \in 1 .. Len(c) : e[k] = x
    BY <1>10
  <2>2. \A x : x \in {data[GetRealAddr(new[t])] : t \in Pushing} <=> \E t \in Pushing : o[t] = x
    BY <1>6
  <2>3. \A x : x \in {Taken(t) : t \in Popping} <=> \E t \in Popping : o[t] = x
    BY <1>6
  <2> QED
    BY <2>1, <2>2, <2>3
<1>19. pLive = V \cup A \cup B \cup D
  <2>1. \A x : x \in pLive <=> x \in V \/ x \in S
    BY <1>8, <1>9, <1>11 DEF Parted
  <2>2. \A x : x \in S <=> x \in A \/ x \in B \/ x \in D
    BY <1>5, <1>10, <1>16, <1>18 DEF Shared
  <2> QED
    BY <2>1, <2>2
<1> QED
  BY <1>1, <1>5, <1>7, <1>17, <1>18, <1>19 DEF HandedOn

\* Across the two lists no object is lost and none is had twice: what Alloc handed out
\* and no Free took back is with one thread, in one node of the stack, or with the one
\* Push or Pop that is moving it.
THEOREM HandedOnAlways == MCSpec => []HandedOn
<1>1. MCInv => HandedOn
  <2> SUFFICES ASSUME MCInv PROVE HandedOn
    OBVIOUS
  <2>1. PICK c \in Seq(Nodes) : StackList(c)
    BY DEF MCInv
  <2>2. HoldInv /\ pLive \in SUBSET Values
    BY DEF MCInv, PoolList, PoolTypes
  <2> QED
    BY <2>1, <2>2, HandedOnNow
<1> QED
  BY <1>1, MCInvAlways, PTL

===============================================================================
