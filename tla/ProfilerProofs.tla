----------------------------- MODULE ProfilerProofs -----------------------------
(***************************************************************************)
(* Profiler, for any finite numbers of threads, keepers, statements and    *)
(* nested scopes that leave the top bit of state free, in three parts,     *)
(* each on top of the one before: the mutual exclusion (IInv), that the    *)
(* loops of a Reset and an output pass by nothing (HInv), and that samples *)
(* are exact (SInv).                                                       *)
(***************************************************************************)
EXTENDS Profiler, FiniteSetTheorems, WellFoundedInduction, TLAPS

Jobs == {"reset", "output"}

LocInv == loc \in [Requests -> Locs] /\ job \in [Keepers -> Jobs \cup {NoJob}]

IInv == LocInv /\ Exclusion

-------------------------------------------------------------------------------
LEMMA FiniteRequests == IsFiniteSet(Requests) /\ Cardinality(Requests) \in Nat
<1>1. IsFiniteSet(1 .. MaxDepth)
  BY FS_Interval, ProfilerAssumption
<1>2. IsFiniteSet(Requests)
  BY <1>1, FS_Product, ProfilerAssumption DEF Requests
<1> QED
  BY <1>2, FS_CardinalityType

\* The two counts in state are numbers, and the first stays below the flag.
LEMMA Counts ==
  /\ IsFiniteSet(Active) /\ Cardinality(Active) \in Nat
  /\ Cardinality(Active) < RELEASE_FLAG
  /\ Active # Requests => Cardinality(Active) + 1 < RELEASE_FLAG
  /\ IsFiniteSet(Holders) /\ Cardinality(Holders) \in Nat
<1>1. Active \in SUBSET Requests /\ Holders \in SUBSET Keepers
  BY DEF Active, Holders
<1>2. IsFiniteSet(Active) /\ IsFiniteSet(Holders)
  BY <1>1, FiniteRequests, FS_Subset, ProfilerAssumption
<1>3. Cardinality(Active) \in Nat /\ Cardinality(Holders) \in Nat
  BY <1>2, FS_CardinalityType
<1>4. /\ Cardinality(Active) <= Cardinality(Requests)
      /\ Cardinality(Requests) = Cardinality(Active) => Requests = Active
  BY <1>1, FiniteRequests, FS_Subset
<1> QED
  BY <1>2, <1>3, <1>4, FiniteRequests, ProfilerAssumption

LEMMA NoHolder == Holders = {} <=> Cardinality(Holders) = 0
BY Counts, FS_EmptySet

\* state shows the flag exactly while somebody holds it, also to the request
\* that has just counted itself.
LEMMA FlagTells ==
  ASSUME Exclusion
  PROVE  /\ HasFlag(state) <=> Holders # {}
         /\ Active # Requests => (HasFlag(state + 1) <=> Holders # {})
         /\ state = 0 => Holders = {} /\ Active = {}
         /\ Holders # {} => Cardinality(Holders) = 1
<1>1. Holders # {} => Cardinality(Holders) = 1
  BY Counts, NoHolder DEF Exclusion
<1>2. RELEASE_FLAG \in Nat
  BY ProfilerAssumption
<1>3. state = Cardinality(Active) + (IF Holders = {} THEN 0 ELSE RELEASE_FLAG)
  BY <1>1, <1>2, NoHolder, Counts DEF Exclusion
<1>4. state = 0 => Holders = {} /\ Cardinality(Active) = 0
  BY <1>2, <1>3, Counts
<1>5. state = 0 => Holders = {} /\ Active = {}
  BY <1>4, Counts, FS_EmptySet
<1>6. HasFlag(state) <=> Holders # {}
  BY <1>2, <1>3, Counts DEF HasFlag
<1>7. Active # Requests => (HasFlag(state + 1) <=> Holders # {})
  BY <1>2, <1>3, Counts DEF HasFlag
<1> QED
  BY <1>1, <1>5, <1>6, <1>7

-------------------------------------------------------------------------------
LEMMA InitInv == Init => IInv
<1> SUFFICES ASSUME Init PROVE IInv
  OBVIOUS
<1>1. LocInv
  BY DEF Init, LocInv, Locs, Jobs
<1>2. Active = {} /\ Holders = {}
  BY DEF Init, Active, Holders
<1>3. Cardinality(Active) = 0 /\ Cardinality(Holders) = 0
  BY <1>2, FS_EmptySet
<1>4. state = 0 /\ RELEASE_FLAG \in Nat
  BY ProfilerAssumption DEF Init
<1> QED
  BY <1>1, <1>2, <1>3, <1>4 DEF IInv, Exclusion

\* A request that moves on without counting itself in or out.
LEMMA Moves ==
  ASSUME IInv, NEW r \in Requests, NEW l \in Locs \ {"none"}, loc[r] # "none",
         Holders # {} => l \notin {"index", "describe", "sample", "open", "recorded"},
         Move(r, l), UNCHANGED <<state, job>>
  PROVE  IInv'
<1>1. LocInv'
  BY DEF IInv, LocInv, Move
<1>2. Active' = Active /\ Holders' = Holders
  BY DEF IInv, LocInv, Move, Active, Holders
<1>3. Holders # {} => Measuring' = {} /\ \A q \in Requests : loc'[q] # "recorded"
  BY DEF IInv, LocInv, Exclusion, Move, Measuring
<1> QED
  BY <1>1, <1>2, <1>3 DEF IInv, Exclusion

LEMMA BeginInv ==
  ASSUME IInv, NEW r \in Requests, NEW s \in Sites, Begin(r, s)
  PROVE  IInv'
<1> DEFINE l == IF HasFlag(state + 1) THEN "refused"
                ELSE IF tls[r[1]] = 0 THEN "index" ELSE "sample"
<1>1. Move(r, l) /\ state' = state + 1 /\ job' = job /\ loc[r] = "none"
  BY DEF Begin
<1>2. l \in {"refused", "index", "sample"} /\ (HasFlag(state + 1) <=> l = "refused")
  OBVIOUS
<1>3. LocInv'
  BY <1>1, <1>2 DEF IInv, LocInv, Move, Locs
<1>4. Active # Requests /\ r \notin Active /\ Active' = Active \cup {r} /\ Holders' = Holders
  BY <1>1, <1>2 DEF IInv, LocInv, Move, Active, Holders
<1>5. Cardinality(Active') = Cardinality(Active) + 1
  BY <1>4, Counts, FS_AddElement
<1>6. Holders # {} => l = "refused"
  BY <1>2, <1>4, FlagTells DEF IInv
<1>7. Holders # {} => Measuring' = {} /\ \A q \in Requests : loc'[q] # "recorded"
  BY <1>1, <1>6 DEF IInv, LocInv, Exclusion, Move, Measuring
<1>8. state' = Cardinality(Active') + RELEASE_FLAG * Cardinality(Holders')
  BY <1>1, <1>4, <1>5, Counts, ProfilerAssumption DEF IInv, Exclusion
<1> QED
  BY <1>3, <1>4, <1>7, <1>8 DEF IInv, Exclusion

LEMMA LeaveInv ==
  ASSUME IInv, NEW r \in Requests, Leave(r)
  PROVE  IInv'
<1>1. Move(r, "none") /\ state' = state - 1 /\ job' = job /\ loc[r] # "none"
  BY DEF Leave
<1>2. LocInv'
  BY <1>1 DEF IInv, LocInv, Move, Locs
<1>3. r \in Active /\ Active' = Active \ {r} /\ Holders' = Holders
  BY <1>1 DEF IInv, LocInv, Move, Active, Holders
<1>4. Cardinality(Active') = Cardinality(Active) - 1
  BY <1>3, Counts, FS_RemoveElement
<1>5. Holders # {} => Measuring' = {} /\ \A q \in Requests : loc'[q] # "recorded"
  BY <1>1 DEF IInv, LocInv, Exclusion, Move, Measuring
<1>6. state' = Cardinality(Active') + RELEASE_FLAG * Cardinality(Holders')
  BY <1>1, <1>3, <1>4, Counts, ProfilerAssumption DEF IInv, Exclusion
<1> QED
  BY <1>2, <1>3, <1>5, <1>6 DEF IInv, Exclusion

LEMMA LockInv ==
  ASSUME IInv, NEW k \in Keepers, NEW j \in Jobs, Lock(k, j)
  PROVE  IInv'
<1>1. Holders = {} /\ Active = {}
  BY FlagTells DEF IInv, Lock
<1>2. job' = [job EXCEPT ![k] = j] /\ loc' = loc /\ state' = RELEASE_FLAG
  BY DEF Lock
<1>3. LocInv'
  BY <1>2 DEF IInv, LocInv
<1>4. Holders' = {k} /\ Active' = {}
  BY <1>1, <1>2, ProfilerAssumption DEF IInv, LocInv, Holders, Active, Jobs
<1>5. Cardinality(Holders') = 1 /\ Cardinality(Active') = 0
  BY <1>4, FS_Singleton, FS_EmptySet
<1>6. Measuring' = {} /\ \A r \in Requests : loc'[r] # "recorded"
  BY <1>4 DEF Active, Measuring
<1>7. state' = Cardinality(Active') + RELEASE_FLAG * Cardinality(Holders')
  BY <1>2, <1>5, ProfilerAssumption
<1> QED
  BY <1>3, <1>5, <1>6, <1>7 DEF IInv, Exclusion

LEMMA UnlockInv ==
  ASSUME IInv, NEW k \in Keepers, Unlock(k)
  PROVE  IInv'
<1>1. /\ k \in Holders /\ job' = [job EXCEPT ![k] = NoJob] /\ loc' = loc
      /\ state' = ClearFlag(state)
  BY ProfilerAssumption DEF Unlock, Holders
<1>2. LocInv'
  BY <1>1 DEF IInv, LocInv
<1>3. Cardinality(Holders) = 1
  BY <1>1, FlagTells DEF IInv
<1>4. Holders' = Holders \ {k} /\ Active' = Active
  BY <1>1 DEF IInv, LocInv, Holders, Active
<1>5. IsFiniteSet(Holders \ {k}) /\ Cardinality(Holders \ {k}) = Cardinality(Holders) - 1
  BY <1>1, Counts, FS_RemoveElement
<1>6. Holders' = {} /\ Cardinality(Holders') = 0
  BY <1>3, <1>4, <1>5, FS_EmptySet
<1>7. HasFlag(state)
  BY <1>1, FlagTells DEF IInv
<1>8. state' = state - RELEASE_FLAG
  BY <1>1, <1>7 DEF ClearFlag
<1>9. state' = Cardinality(Active') + RELEASE_FLAG * Cardinality(Holders')
  BY <1>3, <1>4, <1>6, <1>8, Counts, ProfilerAssumption DEF IInv, Exclusion
<1> QED
  BY <1>2, <1>6, <1>9 DEF IInv, Exclusion

-------------------------------------------------------------------------------
LEMMA StepInv == IInv /\ [Next]_vars => IInv'
<1> SUFFICES ASSUME IInv, [Next]_vars PROVE IInv'
  OBVIOUS
<1>1. ASSUME NEW r \in Requests, RequestStep(r) PROVE IInv'
  <2>1. ASSUME NEW s \in Sites, Begin(r, s) PROVE IInv'
    BY <2>1, BeginInv
  <2>2. CASE Leave(r)
    BY <2>2, LeaveInv
  <2>3. loc[r] \in {"index", "describe", "sample", "open"} => Holders = {}
    BY DEF IInv, Exclusion, Measuring
  <2>4. CASE AllocIndex(r)
    BY <2>3, <2>4, Moves DEF AllocIndex, Locs
  <2>5. CASE Describe(r)
    BY <2>3, <2>5, Moves DEF Describe, Locs
  <2>6. CASE UseSample(r)
    BY <2>3, <2>6, Moves DEF UseSample, Locs
  <2>7. CASE Record(r)
    BY <2>3, <2>7, Moves DEF Record, Locs
  <2> QED
    BY <1>1, <2>1, <2>2, <2>4, <2>5, <2>6, <2>7 DEF RequestStep
<1>2. ASSUME UNCHANGED <<state, loc, job>> PROVE IInv'
  <2>1. Active' = Active /\ Holders' = Holders /\ Measuring' = Measuring
    BY <1>2 DEF Active, Holders, Measuring
  <2> QED
    BY <1>2, <2>1 DEF IInv, LocInv, Exclusion
<1>3. ASSUME NEW k \in Keepers, KeeperStep(k) PROVE IInv'
  <2>1. ASSUME NEW j \in Jobs, Lock(k, j) PROVE IInv'
    BY <2>1, LockInv
  <2>2. CASE Visit(k)
    BY <1>2, <2>2 DEF Visit
  <2>3. CASE Unlock(k)
    BY <2>3, UnlockInv
  <2> QED
    BY <1>3, <2>1, <2>2, <2>3 DEF KeeperStep, Jobs
<1>4. CASE UNCHANGED vars
  BY <1>2, <1>4 DEF vars
<1> QED
  BY <1>1, <1>3, <1>4 DEF Next

\* A Reset or an output has the samples to itself, and state is the number of
\* requests that exist and the flag, however many threads measure.
THEOREM ExclusionAlways == Spec => []Exclusion
<1>1. Init => IInv
  BY InitInv
<1>2. IInv /\ [Next]_vars => IInv'
  BY StepInv
<1>3. IInv => Exclusion
  BY DEF IInv
<1> QED
  BY <1>1, <1>2, <1>3, PTL DEF Spec

-------------------------------------------------------------------------------
\* What NothingHidden rests on, part by part.

\* A request with another one inside it is in its scope or was refused, so that
\* a thread has one request at most somewhere else.
Busy   == {"index", "describe", "sample", "recorded"}
Nested == \A r \in Requests : loc[r] # "none" => Enclosed(r)

\* The indices given out are 1 .. lastIdx, each to one thread.
IndexInv ==
    /\ lastIdx \in Nat /\ tls \in [Threads -> 0 .. lastIdx]
    /\ lastIdx = Cardinality({t \in Threads : tls[t] # 0})
    /\ \A t, u \in Threads : tls[t] # 0 /\ tls[t] = tls[u] => t = u
    /\ \A i \in 1 .. lastIdx : \E t \in Threads : tls[t] = i

\* An index without a descriptor belongs to a thread that is about to make it.
DescribedInv ==
    /\ described \subseteq 1 .. lastIdx
    /\ \A t \in Threads : tls[t] # 0 /\ tls[t] \notin described =>
         \E r \in Requests : r[1] = t /\ loc[r] = "describe"
    /\ \A r \in Requests :
         /\ loc[r] = "index" => tls[r[1]] = 0
         /\ loc[r] = "describe" => tls[r[1]] # 0 /\ tls[r[1]] \notin described
         /\ loc[r] \in {"sample", "open", "recorded"} => tls[r[1]] \in described

\* Each statement that has begun in a thread has an index of its own there, and
\* these are the first ones.
SiteInv ==
    /\ testIdx \in [Threads -> [Sites -> Samples \cup {-1}]]
    /\ site \in [Requests -> Sites \cup {NoSite}]
    /\ turnedAway \subseteq Threads
    /\ \A r \in Requests : loc[r] # "none" => site[r] \in Sites /\ IndexOf(r) >= 0
    /\ \A t \in Threads, s \in Sites : testIdx[t][s] < NextIndex(t)

UsedOf(i) == {j \in Samples : sample[i][j].used}

SampleType == [used : BOOLEAN, callNum : Nat, totalTime : Nat,
               iMin : [1 .. 2 -> 0 .. UINT_MAX], iMax : [1 .. 2 -> 0 .. UINT_MAX]]

SampleInv ==
    /\ sample \in [Descs -> [Samples -> SampleType]]
    /\ valid \in [Descs -> Nat]
    /\ \A i \in Descs : valid[i] = Cardinality(UsedOf(i))

\* The first v samples of thread t are used; if one more of its statements has
\* begun than that, the thread is on the way to the sample of that statement.
FirstUsed(t, v) ==
    /\ UsedOf(tls[t]) = 0 .. v - 1
    /\ \/ v = NextIndex(t)
       \/ /\ v + 1 = NextIndex(t)
          /\ \E r \in Requests : r[1] = t /\ loc[r] = "sample" /\ IndexOf(r) = v

NoneUsed(t) ==
    \/ NextIndex(t) = 0
    \/ /\ NextIndex(t) = 1
       /\ \E r \in Requests : r[1] = t /\ loc[r] \in {"index", "describe"}

UsedInv ==
    \A t \in Threads \ turnedAway :
      IF tls[t] \in described THEN FirstUsed(t, valid[tls[t]]) ELSE NoneUsed(t)

KeeperInv ==
    /\ at \in [Keepers -> Nat]
    /\ \A k \in Keepers : IF job[k] = NoJob THEN at[k] = 0 ELSE at[k] \in 1 .. lastIdx + 1

HInv == /\ IInv /\ Nested /\ IndexInv /\ DescribedInv
        /\ SiteInv /\ SampleInv /\ UsedInv /\ KeeperInv

-------------------------------------------------------------------------------
LEMMA Pairs ==
  /\ \A r \in Requests : r[1] \in Threads /\ r[2] \in 1 .. MaxDepth /\ r = <<r[1], r[2]>>
  /\ \A t \in Threads, d \in 1 .. MaxDepth : <<t, d>> \in Requests
  /\ MaxDepth \in Nat
BY ProfilerAssumption DEF Requests

\* A thread is busy in one request at a time.
LEMMA OneBusy ==
  ASSUME Nested, NEW q \in Requests, NEW r \in Requests, q[1] = r[1],
         loc[q] \in Busy, loc[r] \in Busy
  PROVE  q = r
<1>1. ASSUME NEW x \in Requests, NEW y \in Requests, x[1] = y[1], x[2] < y[2],
             loc[y] \in Busy
      PROVE  loc[x] \in {"open", "refused"}
  <2>1. Enclosed(y)
    BY <1>1 DEF Nested, Busy
  <2>2. x[2] \in 1 .. y[2] - 1 /\ x = <<y[1], x[2]>>
    BY <1>1, Pairs
  <2> QED
    BY <2>1, <2>2 DEF Enclosed
<1>2. ~ (q[2] < r[2]) /\ ~ (r[2] < q[2])
  BY <1>1 DEF Busy
<1>3. q[2] \in Int /\ r[2] \in Int /\ q = <<q[1], q[2]>> /\ r = <<r[1], r[2]>>
  BY Pairs
<1>4. q[2] = r[2]
  BY <1>2, <1>3
<1> QED
  BY <1>3, <1>4

\* There is nothing inside a request that is not in its scope.
LEMMA NoneInside ==
  ASSUME Nested, NEW r \in Requests, loc[r] \notin {"open", "refused"}
  PROVE  \A d \in r[2] + 1 .. MaxDepth : loc[<<r[1], d>>] = "none"
<1> SUFFICES ASSUME NEW d \in r[2] + 1 .. MaxDepth, loc[<<r[1], d>>] # "none" PROVE FALSE
  OBVIOUS
<1>1. r[2] \in 1 .. MaxDepth /\ r[1] \in Threads /\ r = <<r[1], r[2]>> /\ MaxDepth \in Nat
  BY Pairs
<1>2. d \in 1 .. MaxDepth /\ r[2] \in 1 .. d - 1
  BY <1>1
<1>3. <<r[1], d>> \in Requests
  BY <1>1, <1>2, Pairs
<1>4. Enclosed(<<r[1], d>>)
  BY <1>3 DEF Nested
<1>5. loc[<<r[1], r[2]>>] \in {"open", "refused"}
  BY <1>2, <1>4 DEF Enclosed
<1> QED
  BY <1>1, <1>5

\* A thread that begins a request is busy in none.
LEMMA NoneBusy ==
  ASSUME Nested, NEW r \in Requests, loc[r] = "none", Enclosed(r),
         NEW q \in Requests, q[1] = r[1]
  PROVE  loc[q] \notin Busy
<1>1. r[2] \in 1 .. MaxDepth /\ q[2] \in 1 .. MaxDepth /\ MaxDepth \in Nat
      /\ q = <<r[1], q[2]>> /\ r = <<r[1], r[2]>>
  BY Pairs
<1>2. CASE q[2] < r[2]
  <2>1. q[2] \in 1 .. r[2] - 1
    BY <1>1, <1>2
  <2> QED
    BY <1>1, <2>1 DEF Enclosed, Busy
<1>3. CASE q[2] = r[2]
  <2>1. q = r
    BY <1>1, <1>3
  <2> QED
    BY <2>1 DEF Busy
<1>4. CASE q[2] > r[2]
  <2>1. q[2] \in r[2] + 1 .. MaxDepth
    BY <1>1, <1>4
  <2>2. loc[<<r[1], q[2]>>] = "none"
    BY <2>1, NoneInside
  <2> QED
    BY <1>1, <2>2 DEF Busy
<1> QED
  BY <1>1, <1>2, <1>3, <1>4

LEMMA NestedMoves ==
  ASSUME LocInv, Nested, NEW r \in Requests, NEW l \in Locs, Move(r, l), Enclosed(r),
         \A d \in r[2] + 1 .. MaxDepth : loc[<<r[1], d>>] = "none"
  PROVE  Nested'
<1> SUFFICES ASSUME NEW q \in Requests, loc'[q] # "none", NEW d \in 1 .. q[2] - 1
             PROVE  loc'[<<q[1], d>>] \in {"open", "refused"}
  BY DEF Nested, Enclosed
<1>1. q[1] \in Threads /\ q[2] \in 1 .. MaxDepth /\ MaxDepth \in Nat /\ q = <<q[1], q[2]>>
      /\ r[2] \in 1 .. MaxDepth /\ r = <<r[1], r[2]>>
  BY Pairs
<1>2. d \in 1 .. MaxDepth
  BY <1>1
<1>3. <<q[1], d>> \in Requests
  BY <1>1, <1>2, Pairs
<1>4. \A x \in Requests : loc'[x] = IF x = r THEN l ELSE loc[x]
  BY DEF Move, LocInv
<1>5. CASE q = r
  <2>1. <<q[1], d>> # r
    BY <1>1, <1>5
  <2>2. loc[<<q[1], d>>] \in {"open", "refused"}
    BY <1>5 DEF Enclosed
  <2> QED
    BY <1>3, <1>4, <2>1, <2>2
<1>6. CASE q # r
  <2>1. Enclosed(q)
    BY <1>4, <1>6 DEF Nested
  <2>2. loc[<<q[1], d>>] \in {"open", "refused"}
    BY <2>1 DEF Enclosed
  <2>3. ASSUME <<q[1], d>> = r PROVE FALSE
    <3>1. q[1] = r[1] /\ d = r[2]
      BY <2>3
    <3>2. q[2] \in r[2] + 1 .. MaxDepth
      BY <1>1, <3>1
    <3>3. loc[q] = "none"
      BY <1>1, <3>1, <3>2
    <3> QED
      BY <1>4, <1>6, <3>3
  <2> QED
    BY <1>3, <1>4, <2>2, <2>3
<1> QED
  BY <1>5, <1>6

\* The steps of a request but its first: nothing is inside it before and after.
LEMMA StepNested ==
  ASSUME LocInv, Nested, NEW r \in Requests, NEW l \in Locs, Move(r, l), loc[r] # "none",
         loc[r] \in Busy \/ Innermost(r)
  PROVE  Nested'
<1>1. Enclosed(r)
  BY DEF Nested
<1>2. \A d \in r[2] + 1 .. MaxDepth : loc[<<r[1], d>>] = "none"
  <2>1. CASE loc[r] \in Busy
    BY <2>1, NoneInside DEF Busy
  <2>2. CASE Innermost(r)
    BY <2>2 DEF Innermost
  <2> QED
    BY <2>1, <2>2
<1> QED
  BY <1>1, <1>2, NestedMoves

LEMMA SampleSet ==
  /\ Cardinality(Sites) \in Nat
  /\ IsFiniteSet(Samples) /\ Cardinality(Samples) = Cardinality(Sites)
  /\ Samples \subseteq Nat
<1>1. Cardinality(Sites) \in Nat
  BY FS_CardinalityType, ProfilerAssumption
<1>2. Cardinality(Sites) - 1 \in Int
  BY <1>1
<1>3. /\ IsFiniteSet(0 .. Cardinality(Sites) - 1)
      /\ 0 > Cardinality(Sites) - 1 => Cardinality(0 .. Cardinality(Sites) - 1) = 0
      /\ 0 <= Cardinality(Sites) - 1 =>
           Cardinality(0 .. Cardinality(Sites) - 1) = Cardinality(Sites) - 1 - 0 + 1
  BY <1>2, FS_Interval
<1>4. Cardinality(0 .. Cardinality(Sites) - 1) = Cardinality(Sites)
  BY <1>1, <1>3
<1> QED
  BY <1>1, <1>3, <1>4 DEF Samples

LEMMA SampleNumbers == \A j \in Samples : j \in Nat
<1>1. Samples \subseteq Nat
  BY SampleSet
<1> QED
  BY <1>1

\* A thread numbers the statements that begin in it.
LEMMA NextIndexBound ==
  ASSUME NEW t \in Threads
  PROVE  /\ NextIndex(t) \in Nat
         /\ \A s \in Sites : testIdx[t][s] = -1 => NextIndex(t) \in Samples
<1> DEFINE N == {s \in Sites : testIdx[t][s] >= 0}
<1>1. N \in SUBSET Sites
  OBVIOUS
<1>2. IsFiniteSet(N) /\ Cardinality(N) <= Cardinality(Sites)
      /\ (Cardinality(Sites) = Cardinality(N) => Sites = N)
  BY <1>1, FS_Subset, ProfilerAssumption
<1>3. Cardinality(N) \in Nat
  BY <1>2, FS_CardinalityType
<1>4. \A s \in Sites : testIdx[t][s] = -1 => s \notin N
  OBVIOUS
<1>5. NextIndex(t) = Cardinality(N)
  BY DEF NextIndex
<1> HIDE DEF N
<1> QED
  BY <1>1, <1>2, <1>3, <1>4, <1>5, SampleSet DEF Samples

\* The samples in use are as many as valid says, so that the count stays a number
\* of samples.
LEMMA ValidBound ==
  ASSUME SampleInv, NEW i \in Descs
  PROVE  valid[i] \in 0 .. Cardinality(Sites)
<1>1. UsedOf(i) \in SUBSET Samples
  BY DEF UsedOf
<1>2. Cardinality(UsedOf(i)) <= Cardinality(Samples) /\ IsFiniteSet(UsedOf(i))
  BY <1>1, SampleSet, FS_Subset
<1>3. valid[i] \in Nat /\ valid[i] = Cardinality(UsedOf(i))
  BY DEF SampleInv
<1> QED
  BY <1>2, <1>3, SampleSet

\* There is always a free entry behind the last descriptor.
LEMMA IndexBound ==
  ASSUME IndexInv
  PROVE  lastIdx + 1 \in 0 .. ThreadNum /\ 1 .. lastIdx \subseteq Descs /\ ThreadNum \in Nat
<1> DEFINE I == {t \in Threads : tls[t] # 0}
<1>1. I \in SUBSET Threads
  OBVIOUS
<1>2. Cardinality(I) <= Cardinality(Threads)
  BY <1>1, FS_Subset, ProfilerAssumption
<1>3. Cardinality(Threads) \in Nat
  BY FS_CardinalityType, ProfilerAssumption
<1>4. lastIdx = Cardinality(I) /\ lastIdx \in Nat
  BY DEF IndexInv
<1> HIDE DEF I
<1>5. lastIdx + 1 <= ThreadNum /\ ThreadNum \in Nat
  BY <1>2, <1>3, <1>4, ProfilerAssumption
<1> QED
  BY <1>4, <1>5 DEF Descs

-------------------------------------------------------------------------------
\* Steps that leave the indices of the statements alone.
LEMMA SameIndices ==
  ASSUME UNCHANGED testIdx
  PROVE  \A t \in Threads : NextIndex(t)' = NextIndex(t)
BY DEF NextIndex

LEMMA IndexKept == IndexInv /\ UNCHANGED <<lastIdx, tls>> => IndexInv'
BY DEF IndexInv

LEMMA SampleKept == SampleInv /\ UNCHANGED <<sample, valid>> => SampleInv'
BY DEF SampleInv, UsedOf

LEMMA KeeperKept ==
  ASSUME KeeperInv, IndexInv, UNCHANGED <<job, at>>, lastIdx' \in {lastIdx, lastIdx + 1}
  PROVE  KeeperInv'
<1>1. at \in [Keepers -> Nat] /\ lastIdx \in Nat
  BY DEF KeeperInv, IndexInv
<1> QED
  BY <1>1 DEF KeeperInv

\* A request that goes on in its statement.
LEMMA SiteKept ==
  ASSUME LocInv, SiteInv, NEW r \in Requests, loc[r] # "none", NEW l \in Locs, Move(r, l),
         UNCHANGED <<testIdx, site>>, turnedAway' = turnedAway
  PROVE  SiteInv'
<1>1. \A q \in Requests : loc'[q] # "none" => loc[q] # "none"
  BY DEF LocInv, Move
<1>2. \A q \in Requests : IndexOf(q)' = IndexOf(q)
  BY DEF IndexOf
<1>3. \A q \in Requests : loc'[q] # "none" => site'[q] \in Sites /\ IndexOf(q)' >= 0
  BY <1>1, <1>2 DEF SiteInv
<1>4. \A t \in Threads, s \in Sites : testIdx'[t][s] < NextIndex(t)'
  BY SameIndices DEF SiteInv
<1> QED
  BY <1>3, <1>4 DEF SiteInv

\* Which samples of the threads are used stays the same, and so do the requests
\* that are on the way to one.
LEMMA UsedKept ==
  ASSUME UsedInv, IndexInv, DescribedInv, UNCHANGED <<words, described, site, turnedAway>>,
         \A i \in Descs : UsedOf(i)' = UsedOf(i) /\ valid'[i] = valid[i],
         \A r \in Requests : loc[r] \in {"index", "describe", "sample"} => loc'[r] = loc[r]
  PROVE  UsedInv'
<1> SUFFICES ASSUME NEW t \in Threads \ turnedAway
             PROVE  IF tls[t] \in described THEN FirstUsed(t, valid[tls[t]])' ELSE NoneUsed(t)'
  BY DEF UsedInv, words
<1>1. \A r \in Requests : IndexOf(r)' = IndexOf(r)
  BY DEF IndexOf, words
<1>2. NextIndex(t)' = NextIndex(t)
  BY SameIndices DEF words
<1>3. tls' = tls /\ described' = described
  BY DEF words
<1>4. CASE tls[t] \in described
  <2>1. tls[t] \in Descs
    BY <1>4, IndexBound DEF DescribedInv
  <2>2. PICK i \in Descs : i = tls[t]
    BY <2>1
  <2>3. UsedOf(i)' = UsedOf(i) /\ valid'[i] = valid[i]
    OBVIOUS
  <2>4. FirstUsed(t, valid[i])
    BY <1>4, <2>2 DEF UsedInv
  <2>5. UsedOf(tls[t])' = UsedOf(tls[t])
    BY <1>3, <2>2, <2>3 DEF UsedOf
  <2>6. FirstUsed(t, valid[tls[t]])'
    BY <1>1, <1>2, <1>3, <2>2, <2>3, <2>4, <2>5 DEF FirstUsed
  <2> QED
    BY <1>4, <2>6
<1>5. CASE tls[t] \notin described
  <2>1. NoneUsed(t)
    BY <1>5 DEF UsedInv
  <2>2. NoneUsed(t)'
    BY <1>1, <1>2, <2>1 DEF NoneUsed
  <2> QED
    BY <1>5, <2>2
<1> QED
  BY <1>4, <1>5

-------------------------------------------------------------------------------
\* What Begin does, and what holds of its thread.
LEMMA BeginFacts ==
  ASSUME HInv, NEW r \in Requests, NEW s \in Sites, Begin(r, s), NEW t, t = r[1]
  PROVE  /\ t \in Threads
         /\ \A q \in Requests : q # r => loc'[q] = loc[q]
         /\ loc'[r] = IF HasFlag(state + 1) THEN "refused"
                      ELSE IF tls[t] = 0 THEN "index" ELSE "sample"
         /\ \A q \in Requests : site'[q] = IF q = r THEN s ELSE site[q]
         /\ \A q \in Requests : q[1] = t => loc[q] \notin Busy
         /\ tls[t] # 0 => tls[t] \in described
         /\ tls[t] = 0 => tls[t] \notin described
<1>1. t \in Threads
  BY Pairs
<1>2. /\ loc' = [loc EXCEPT ![r] = IF HasFlag(state + 1) THEN "refused"
                                   ELSE IF tls[t] = 0 THEN "index" ELSE "sample"]
      /\ site' = [site EXCEPT ![r] = s] /\ loc[r] = "none" /\ Enclosed(r)
  BY DEF Begin, Move
<1>3. \A q \in Requests : q[1] = t => loc[q] \notin Busy
  BY <1>2, NoneBusy DEF HInv
<1>4. tls[t] # 0 => tls[t] \in described
  BY <1>1, <1>3 DEF HInv, DescribedInv, Busy
<1>5. 0 \notin described
  BY DEF HInv, DescribedInv, IndexInv
<1> QED
  BY <1>1, <1>2, <1>3, <1>4, <1>5 DEF HInv, IInv, LocInv, SiteInv

LEMMA BeginIndices ==
  ASSUME HInv, NEW r \in Requests, NEW s \in Sites, Begin(r, s), NEW t, t = r[1]
  PROVE  /\ \A u \in Threads : u # t => testIdx'[u] = testIdx[u] /\ NextIndex(u)' = NextIndex(u)
         /\ \A x \in Sites : x # s => testIdx'[t][x] = testIdx[t][x]
         /\ testIdx' \in [Threads -> [Sites -> Samples \cup {-1}]]
         /\ testIdx[t][s] # -1 =>
              testIdx'[t][s] = testIdx[t][s] /\ testIdx[t][s] >= 0 /\ NextIndex(t)' = NextIndex(t)
         /\ testIdx[t][s] = -1 =>
              testIdx'[t][s] = NextIndex(t) /\ NextIndex(t)' = NextIndex(t) + 1
         /\ NextIndex(t) \in Nat
<1>1. t \in Threads /\ testIdx \in [Threads -> [Sites -> Samples \cup {-1}]]
  BY BeginFacts DEF HInv, SiteInv
<1>2. NextIndex(t) \in Nat /\ (testIdx[t][s] = -1 => NextIndex(t) \in Samples)
  BY <1>1, NextIndexBound
<1>3. testIdx' = IF testIdx[t][s] = -1 THEN [testIdx EXCEPT ![t][s] = NextIndex(t)] ELSE testIdx
  BY DEF Begin
<1>4. \A u \in Threads : u # t => testIdx'[u] = testIdx[u]
  BY <1>1, <1>3
<1>5. \A u \in Threads : u # t => NextIndex(u)' = NextIndex(u)
  BY <1>4 DEF NextIndex
<1>6. CASE testIdx[t][s] # -1
  <2>1. testIdx[t][s] \in Samples
    BY <1>1, <1>6
  <2>2. testIdx[t][s] >= 0
    BY <2>1, SampleNumbers
  <2>3. testIdx' = testIdx
    BY <1>3, <1>6
  <2>4. NextIndex(t)' = NextIndex(t)
    BY <1>1, <2>3, SameIndices
  <2> QED
    BY <1>1, <1>2, <1>4, <1>5, <1>6, <2>2, <2>3, <2>4
<1>7. CASE testIdx[t][s] = -1
  <2>1. testIdx' = [testIdx EXCEPT ![t][s] = NextIndex(t)] /\ NextIndex(t) \in Samples
    BY <1>2, <1>3, <1>7
  <2>2. testIdx' \in [Threads -> [Sites -> Samples \cup {-1}]]
    BY <1>1, <2>1
  <2>3. testIdx'[t][s] = NextIndex(t) /\ \A x \in Sites : x # s => testIdx'[t][x] = testIdx[t][x]
    BY <1>1, <2>1
  <2> DEFINE N == {x \in Sites : testIdx[t][x] >= 0}
  <2>4. {x \in Sites : testIdx'[t][x] >= 0} = N \cup {s} /\ s \notin N
    BY <1>2, <1>7, <2>3
  <2>5. IsFiniteSet(N)
    BY FS_Subset, ProfilerAssumption
  <2>6. Cardinality(N \cup {s}) = Cardinality(N) + 1
    BY <2>4, <2>5, FS_AddElement
  <2>7. NextIndex(t)' = NextIndex(t) + 1
    BY <2>4, <2>6 DEF NextIndex
  <2> QED
    BY <1>2, <1>4, <1>5, <1>7, <2>2, <2>3, <2>7
<1> QED
  BY <1>6, <1>7

LEMMA BeginSite ==
  ASSUME HInv, NEW r \in Requests, NEW s \in Sites, Begin(r, s)
  PROVE  SiteInv'
<1>1. PICK t \in Threads : t = r[1]
  BY Pairs
<1> DEFINE old == testIdx[t][s] # -1
<1>2. /\ \A u \in Threads : u # t => testIdx'[u] = testIdx[u] /\ NextIndex(u)' = NextIndex(u)
      /\ \A x \in Sites : x # s => testIdx'[t][x] = testIdx[t][x]
      /\ testIdx' \in [Threads -> [Sites -> Samples \cup {-1}]]
      /\ old => testIdx'[t][s] = testIdx[t][s] /\ testIdx[t][s] >= 0 /\ NextIndex(t)' = NextIndex(t)
      /\ ~old => testIdx'[t][s] = NextIndex(t) /\ NextIndex(t)' = NextIndex(t) + 1
      /\ NextIndex(t) \in Nat
  BY <1>1, BeginIndices
<1>3. /\ \A q \in Requests : q # r => loc'[q] = loc[q]
      /\ \A q \in Requests : site'[q] = IF q = r THEN s ELSE site[q]
  BY <1>1, BeginFacts
<1>4. SiteInv
  BY DEF HInv
<1>5. \A u \in Threads, x \in Sites : testIdx[u][x] \in Int /\ testIdx'[u][x] \in Int
  BY <1>2, <1>4, SampleNumbers DEF SiteInv
<1>6. \A u \in Threads, x \in Sites : testIdx[u][x] >= 0 => testIdx'[u][x] >= 0
  BY <1>2
<1>7. testIdx'[t][s] >= 0
  BY <1>2
<1>8. ASSUME NEW q \in Requests, loc'[q] # "none" PROVE site'[q] \in Sites /\ IndexOf(q)' >= 0
  <2>1. CASE q = r
    BY <1>1, <1>3, <1>7, <2>1 DEF IndexOf
  <2>2. CASE q # r
    <3>1. site[q] \in Sites /\ IndexOf(q) >= 0 /\ site'[q] = site[q]
      BY <1>3, <1>4, <1>8, <2>2 DEF SiteInv
    <3>2. q[1] \in Threads
      BY Pairs
    <3> QED
      BY <1>6, <3>1, <3>2 DEF IndexOf
  <2> QED
    BY <2>1, <2>2
<1>9. ASSUME NEW u \in Threads, NEW x \in Sites PROVE testIdx'[u][x] < NextIndex(u)'
  <2>1. testIdx[u][x] < NextIndex(u)
    BY <1>4 DEF SiteInv
  <2>2. CASE u # t
    BY <1>2, <2>1, <2>2
  <2>3. CASE u = t /\ old
    BY <1>2, <2>1, <2>3
  <2>4. CASE u = t /\ ~old
    BY <1>2, <1>5, <2>1, <2>4
  <2> QED
    BY <2>2, <2>3, <2>4
<1>10. site' \in [Requests -> Sites \cup {NoSite}] /\ turnedAway' \subseteq Threads
  BY <1>1, <1>4 DEF SiteInv, Begin
<1> QED
  BY <1>2, <1>8, <1>9, <1>10 DEF SiteInv

LEMMA BeginUsed ==
  ASSUME HInv, NEW r \in Requests, NEW s \in Sites, Begin(r, s)
  PROVE  UsedInv'
<1>1. PICK t \in Threads : t = r[1]
  BY Pairs
<1> DEFINE old == testIdx[t][s] # -1
<1>2. /\ \A u \in Threads : u # t => testIdx'[u] = testIdx[u] /\ NextIndex(u)' = NextIndex(u)
      /\ \A x \in Sites : x # s => testIdx'[t][x] = testIdx[t][x]
      /\ old => testIdx'[t][s] = testIdx[t][s] /\ NextIndex(t)' = NextIndex(t)
      /\ ~old => testIdx'[t][s] = NextIndex(t) /\ NextIndex(t)' = NextIndex(t) + 1
      /\ NextIndex(t) \in Nat
  BY <1>1, BeginIndices
<1>3. /\ \A q \in Requests : q # r => loc'[q] = loc[q]
      /\ loc'[r] = IF HasFlag(state + 1) THEN "refused" ELSE IF tls[t] = 0 THEN "index" ELSE "sample"
      /\ \A q \in Requests : site'[q] = IF q = r THEN s ELSE site[q]
      /\ \A q \in Requests : q[1] = t => loc[q] \notin Busy
      /\ tls[t] # 0 => tls[t] \in described
      /\ tls[t] = 0 => tls[t] \notin described
  BY <1>1, BeginFacts
<1>4. tls' = tls /\ described' = described /\ valid' = valid /\ sample' = sample /\ loc[r] = "none"
      /\ turnedAway' = IF ~old /\ HasFlag(state + 1) THEN turnedAway \cup {t} ELSE turnedAway
  BY <1>1 DEF Begin, tables
<1>5. UsedInv
  BY DEF HInv
<1>6. \A i : UsedOf(i)' = UsedOf(i)
  BY <1>4 DEF UsedOf
<1>7. \A u \in Threads : UsedOf(tls[u])' = UsedOf(tls[u])
  BY <1>4 DEF UsedOf
<1>8. ASSUME NEW q \in Requests, q # r, q[1] # t \/ old, site[q] \in Sites
      PROVE IndexOf(q)' = IndexOf(q)
  BY <1>2, <1>3, <1>8, Pairs DEF IndexOf
<1>9. ASSUME NEW u \in Threads \ turnedAway', u # t \/ old
      PROVE  IF tls'[u] \in described' THEN FirstUsed(u, valid[tls[u]])' ELSE NoneUsed(u)'
  <2>1. NextIndex(u)' = NextIndex(u) /\ u \in Threads \ turnedAway
    BY <1>2, <1>4, <1>9
  <2>2. \A q \in Requests : q[1] = u /\ loc[q] # "none" => IndexOf(q)' = IndexOf(q) /\ loc'[q] = loc[q]
    BY <1>3, <1>4, <1>8, <1>9 DEF HInv, SiteInv
  <2>3. CASE tls[u] \in described
    <3>1. FirstUsed(u, valid[tls[u]])
      BY <1>5, <2>1, <2>3 DEF UsedInv
    <3>2. FirstUsed(u, valid[tls[u]])'
      BY <1>4, <1>7, <2>1, <2>2, <3>1 DEF FirstUsed
    <3> QED
      BY <1>4, <2>3, <3>2
  <2>4. CASE tls[u] \notin described
    <3>1. NoneUsed(u)
      BY <1>5, <2>1, <2>4 DEF UsedInv
    <3>2. NoneUsed(u)'
      BY <2>1, <2>2, <3>1 DEF NoneUsed
    <3> QED
      BY <1>4, <2>4, <3>2
  <2> QED
    BY <2>3, <2>4
<1>10. ASSUME t \notin turnedAway', ~old
       PROVE  IF tls'[t] \in described' THEN FirstUsed(t, valid[tls[t]])' ELSE NoneUsed(t)'
  <2>1. ~HasFlag(state + 1) /\ t \notin turnedAway
    BY <1>4, <1>10
  <2>2. \A q \in Requests : q[1] = t => loc[q] \notin {"index", "describe", "sample"}
    BY <1>3 DEF Busy
  <2>3. IndexOf(r)' = NextIndex(t) /\ NextIndex(t)' = NextIndex(t) + 1
    BY <1>1, <1>2, <1>3, <1>10 DEF IndexOf
  <2>4. CASE tls[t] \in described
    <3>1. FirstUsed(t, valid[tls[t]])
      BY <1>5, <2>1, <2>4 DEF UsedInv
    <3>2. UsedOf(tls[t]) = 0 .. valid[tls[t]] - 1 /\ valid[tls[t]] = NextIndex(t)
      BY <2>2, <3>1 DEF FirstUsed
    <3>3. loc'[r] = "sample"
      BY <1>3, <2>1, <2>4
    <3>4. FirstUsed(t, valid[tls[t]])'
      BY <1>1, <1>4, <1>7, <2>3, <3>2, <3>3 DEF FirstUsed
    <3> QED
      BY <1>4, <2>4, <3>4
  <2>5. CASE tls[t] \notin described
    <3>1. NoneUsed(t)
      BY <1>5, <2>1, <2>5 DEF UsedInv
    <3>2. NextIndex(t) = 0
      BY <2>2, <3>1 DEF NoneUsed
    <3>3. loc'[r] = "index"
      BY <1>3, <2>1, <2>5
    <3>4. NoneUsed(t)'
      BY <1>1, <2>3, <3>2, <3>3 DEF NoneUsed
    <3> QED
      BY <1>4, <2>5, <3>4
  <2> QED
    BY <2>4, <2>5
<1> QED
  BY <1>9, <1>10 DEF UsedInv

LEMMA BeginKeeps ==
  ASSUME HInv, NEW r \in Requests, NEW s \in Sites, Begin(r, s)
  PROVE  HInv'
<1>1. PICK t \in Threads : t = r[1]
  BY Pairs
<1>2. /\ \A q \in Requests : q # r => loc'[q] = loc[q]
      /\ loc'[r] = IF HasFlag(state + 1) THEN "refused" ELSE IF tls[t] = 0 THEN "index" ELSE "sample"
      /\ tls[t] # 0 => tls[t] \in described
  BY <1>1, BeginFacts
<1>3. IInv'
  BY BeginInv DEF HInv
<1>4. Nested'
  <2>1. PICK l \in Locs : Move(r, l)
    BY DEF Begin, Locs
  <2>2. Enclosed(r) /\ loc[r] = "none"
    BY DEF Begin
  <2>3. \A d \in r[2] + 1 .. MaxDepth : loc[<<r[1], d>>] = "none"
    BY <2>2, NoneInside DEF HInv
  <2> QED
    BY <2>1, <2>2, <2>3, NestedMoves DEF HInv, IInv
<1>5. IndexInv' /\ SampleInv'
  BY IndexKept, SampleKept DEF Begin, HInv, tables
<1>6. KeeperInv'
  BY KeeperKept DEF Begin, HInv
<1>7. DescribedInv'
  <2>1. lastIdx' = lastIdx /\ tls' = tls /\ described' = described /\ loc[r] = "none"
    BY DEF Begin, tables
  <2>2. DescribedInv
    BY DEF HInv
  <2>3. \A u \in Threads : tls[u] # 0 /\ tls[u] \notin described =>
           \E q \in Requests : q[1] = u /\ loc'[q] = "describe"
    BY <1>2, <2>1, <2>2 DEF DescribedInv
  <2>4. ASSUME NEW q \in Requests
        PROVE  /\ loc'[q] = "index" => tls[q[1]] = 0
               /\ loc'[q] = "describe" => tls[q[1]] # 0 /\ tls[q[1]] \notin described
               /\ loc'[q] \in {"sample", "open", "recorded"} => tls[q[1]] \in described
    BY <1>1, <1>2, <2>2 DEF DescribedInv
  <2> QED
    BY <2>1, <2>2, <2>3, <2>4 DEF DescribedInv
<1> QED
  BY <1>3, <1>4, <1>5, <1>6, <1>7, BeginSite, BeginUsed DEF HInv

-------------------------------------------------------------------------------
LEMMA AllocIndexKeeps ==
  ASSUME HInv, NEW r \in Requests, AllocIndex(r)
  PROVE  HInv'
<1>1. PICK t \in Threads : t = r[1]
  BY Pairs
<1>2. /\ loc[r] = "index" /\ Move(r, "describe") /\ lastIdx' = lastIdx + 1
      /\ tls' = [tls EXCEPT ![t] = lastIdx + 1]
      /\ UNCHANGED <<testIdx, described, valid, sample, site, turnedAway, job, at>>
  BY <1>1 DEF AllocIndex, tables, histories
<1>3. IInv'
  BY StepInv DEF HInv, Next, RequestStep
<1>4. Nested'
  BY <1>2, StepNested DEF HInv, IInv, Locs, Busy
<1>5. SiteInv'
  BY <1>2, SiteKept DEF HInv, IInv, Locs
<1>6. SampleInv'
  BY <1>2, SampleKept DEF HInv
<1>7. KeeperInv'
  BY <1>2, KeeperKept DEF HInv
<1>8. IndexInv /\ DescribedInv /\ tls[t] = 0 /\ lastIdx \in Nat
  BY <1>1, <1>2 DEF HInv, DescribedInv, IndexInv
<1>9. \A u \in Threads : tls'[u] = IF u = t THEN lastIdx + 1 ELSE tls[u]
  BY <1>2, <1>8 DEF IndexInv
<1>10. \A u \in Threads : tls[u] \in 0 .. lastIdx
  BY <1>8 DEF IndexInv
<1>11. \A q \in Requests : loc'[q] = IF q = r THEN "describe" ELSE loc[q]
  BY <1>2 DEF HInv, IInv, LocInv, Move
<1>12. IndexInv'
  <2> DEFINE I == {u \in Threads : tls[u] # 0}
  <2>1. t \notin I /\ {u \in Threads : tls'[u] # 0} = I \cup {t}
    BY <1>8, <1>9
  <2>2. IsFiniteSet(I)
    BY FS_Subset, ProfilerAssumption
  <2>3. Cardinality(I \cup {t}) = Cardinality(I) + 1
    BY <2>1, <2>2, FS_AddElement
  <2>4. lastIdx' = Cardinality({u \in Threads : tls'[u] # 0})
    BY <1>2, <1>8, <2>1, <2>3 DEF IndexInv
  <2>5. lastIdx' \in Nat /\ tls' \in [Threads -> 0 .. lastIdx']
    BY <1>2, <1>8 DEF IndexInv
  <2>6. ASSUME NEW u \in Threads, NEW v \in Threads, tls'[u] # 0, tls'[u] = tls'[v]
        PROVE  u = v
    BY <1>8, <1>9, <1>10, <2>6 DEF IndexInv
  <2>7. ASSUME NEW i \in 1 .. lastIdx' PROVE \E u \in Threads : tls'[u] = i
    <3>1. CASE i = lastIdx + 1
      BY <1>9, <3>1
    <3>2. CASE i # lastIdx + 1
      <4>1. i \in 1 .. lastIdx
        BY <1>2, <1>8, <3>2
      <4>2. PICK u \in Threads : tls[u] = i
        BY <1>8, <4>1 DEF IndexInv
      <4>3. u # t
        BY <1>8, <4>1, <4>2
      <4> QED
        BY <1>9, <4>2, <4>3
    <3> QED
      BY <3>1, <3>2
  <2> QED
    BY <2>4, <2>5, <2>6, <2>7 DEF IndexInv
<1>13. lastIdx + 1 \notin described /\ 0 \notin described
  BY <1>8 DEF DescribedInv
<1>14. DescribedInv'
  <2>1. described' \subseteq 1 .. lastIdx'
    BY <1>2, <1>8 DEF DescribedInv
  <2>2. ASSUME NEW u \in Threads, tls'[u] # 0, tls'[u] \notin described
        PROVE  \E q \in Requests : q[1] = u /\ loc'[q] = "describe"
    <3>1. CASE u = t
      BY <1>1, <1>11, <3>1
    <3>2. CASE u # t
      <4>1. PICK q \in Requests : q[1] = u /\ loc[q] = "describe"
        BY <1>8, <1>9, <2>2, <3>2 DEF DescribedInv
      <4> QED
        BY <1>11, <4>1
    <3> QED
      BY <3>1, <3>2
  <2>3. ASSUME NEW q \in Requests, q # r, loc'[q] = "index" PROVE tls'[q[1]] = 0
    <3>1. loc[q] = "index"
      BY <1>11, <2>3
    <3>2. q[1] # t
      BY <1>1, <1>2, <2>3, <3>1, OneBusy DEF HInv, Busy
    <3> QED
      BY <1>8, <1>9, <3>1, <3>2, Pairs DEF DescribedInv
  <2>4. ASSUME NEW q \in Requests, loc'[q] = "describe"
        PROVE  tls'[q[1]] # 0 /\ tls'[q[1]] \notin described
    <3>1. CASE q[1] = t
      BY <1>8, <1>9, <1>13, <3>1
    <3>2. CASE q[1] # t
      BY <1>1, <1>8, <1>9, <1>11, <2>4, <3>2, Pairs DEF DescribedInv
    <3> QED
      BY <3>1, <3>2
  <2>5. ASSUME NEW q \in Requests, loc'[q] \in {"sample", "open", "recorded"}
        PROVE  tls'[q[1]] \in described
    <3>1. tls[q[1]] \in described
      BY <1>8, <1>11, <2>5 DEF DescribedInv
    <3>2. q[1] # t
      BY <1>8, <1>13, <3>1
    <3> QED
      BY <1>9, <3>1, <3>2, Pairs
  <2>6. loc'[r] # "index"
    BY <1>11
  <2> QED
    BY <1>2, <2>1, <2>2, <2>3, <2>4, <2>5, <2>6 DEF DescribedInv
<1>15. UsedInv'
  <2>1. \A q \in Requests : IndexOf(q)' = IndexOf(q)
    BY <1>2 DEF IndexOf
  <2>2. \A u \in Threads : NextIndex(u)' = NextIndex(u) /\ NextIndex(u) \in Nat
    BY <1>2, SameIndices, NextIndexBound
  <2>3. ASSUME NEW u \in Threads \ turnedAway, u # t
        PROVE  IF tls'[u] \in described THEN FirstUsed(u, valid[tls[u]])' ELSE NoneUsed(u)'
    <3>1. tls'[u] = tls[u] /\ UsedOf(tls[u])' = UsedOf(tls[u])
      BY <1>2, <1>9, <2>3 DEF UsedOf
    <3>2. CASE tls[u] \in described
      <4>1. FirstUsed(u, valid[tls[u]])
        BY <3>2 DEF HInv, UsedInv
      <4>2. \A q \in Requests : loc[q] = "sample" => loc'[q] = "sample"
        BY <1>2, <1>11
      <4>3. FirstUsed(u, valid[tls[u]])'
        BY <1>2, <2>1, <2>2, <3>1, <4>1, <4>2 DEF FirstUsed
      <4> QED
        BY <3>1, <3>2, <4>3
    <3>3. CASE tls[u] \notin described
      <4>1. NoneUsed(u)
        BY <3>3 DEF HInv, UsedInv
      <4>2. NoneUsed(u)'
        BY <1>11, <2>2, <4>1 DEF NoneUsed
      <4> QED
        BY <3>1, <3>3, <4>2
    <3> QED
      BY <3>2, <3>3
  <2>4. t \notin turnedAway => NoneUsed(t)'
    <3>1. SUFFICES ASSUME t \notin turnedAway PROVE NoneUsed(t)'
      OBVIOUS
    <3>2. NoneUsed(t)
      BY <1>8, <1>13, <3>1 DEF HInv, UsedInv
    <3>3. NextIndex(t) # 0
      <4>1. site[r] \in Sites /\ testIdx[t][site[r]] >= 0 /\ testIdx[t][site[r]] < NextIndex(t)
        BY <1>1, <1>2 DEF HInv, SiteInv, IndexOf
      <4>2. testIdx[t][site[r]] \in Int
        BY <4>1, SampleNumbers DEF HInv, SiteInv
      <4> QED
        BY <4>1, <4>2
    <3>4. NextIndex(t) = 1
      BY <3>2, <3>3 DEF NoneUsed
    <3>5. loc'[r] = "describe"
      BY <1>11
    <3> QED
      BY <1>1, <2>2, <3>4, <3>5 DEF NoneUsed
  <2>5. tls'[t] \notin described
    BY <1>9, <1>13
  <2>6. ASSUME NEW u \in Threads \ turnedAway'
        PROVE  IF tls'[u] \in described' THEN FirstUsed(u, valid[tls[u]])' ELSE NoneUsed(u)'
    BY <1>2, <2>3, <2>4, <2>5
  <2> QED
    BY <2>6 DEF UsedInv
<1> QED
  BY <1>3, <1>4, <1>5, <1>6, <1>7, <1>12, <1>14, <1>15 DEF HInv

\* The thread of a request that makes its descriptor has begun one statement.
LEMMA FirstStatement ==
  ASSUME HInv, NEW r \in Requests, loc[r] \in {"index", "describe"}, NEW t \in Threads, t = r[1],
         t \notin turnedAway
  PROVE  NextIndex(t) = 1 /\ IndexOf(r) = 0
<1>1. IndexInv /\ DescribedInv /\ SiteInv /\ UsedInv
  BY DEF HInv
<1>2. tls[t] \notin described
  BY <1>1 DEF DescribedInv
<1>3. NoneUsed(t)
  BY <1>1, <1>2 DEF UsedInv
<1>4. site[r] \in Sites /\ IndexOf(r) >= 0 /\ IndexOf(r) < NextIndex(t)
  BY <1>1 DEF SiteInv, IndexOf
<1>5. IndexOf(r) \in Int
  BY <1>1, <1>4, SampleNumbers DEF SiteInv, IndexOf
<1>6. NextIndex(t) = 0 \/ NextIndex(t) = 1
  BY <1>3 DEF NoneUsed
<1> QED
  BY <1>4, <1>5, <1>6

LEMMA ResetFields ==
  ASSUME NEW s \in SampleType
  PROVE  /\ ResetSample(s) \in SampleType /\ ResetSample(s).used = s.used
         /\ ResetSample(s).callNum = 0 /\ ResetSample(s).totalTime = 0
         /\ ResetSample(s).iMin = <<UINT_MAX, UINT_MAX>> /\ ResetSample(s).iMax = <<0, 0>>
<1>1. UINT_MAX \in Nat
  BY ProfilerAssumption
<1>2. <<UINT_MAX, UINT_MAX>> \in [1 .. 2 -> 0 .. UINT_MAX] /\ <<0, 0>> \in [1 .. 2 -> 0 .. UINT_MAX]
  BY <1>1
<1> QED
  BY <1>2 DEF ResetSample, SampleType

LEMMA NewFields ==
  \E s \in SampleType : NewSample = ResetSample(s) /\ s.used = FALSE
<1>1. UINT_MAX \in Nat
  BY ProfilerAssumption
<1>2. PICK s : s = [used |-> FALSE, callNum |-> 0, totalTime |-> 0,
                    iMin |-> <<0, 0>>, iMax |-> <<0, 0>>]
  OBVIOUS
<1>3. s \in SampleType /\ s.used = FALSE
  BY <1>1, <1>2 DEF SampleType
<1>4. NewSample = ResetSample(s)
  BY <1>2 DEF NewSample
<1> QED
  BY <1>3, <1>4

LEMMA FreshSamples ==
  ASSUME NEW f, f = [j \in Samples |-> NewSample]
  PROVE  f \in [Samples -> SampleType] /\ {j \in Samples : f[j].used} = {}
<1>1. NewSample \in SampleType /\ NewSample.used = FALSE
  BY NewFields, ResetFields
<1> QED
  BY <1>1

LEMMA DescribeKeeps ==
  ASSUME HInv, NEW r \in Requests, Describe(r)
  PROVE  HInv'
<1>1. PICK t \in Threads : t = r[1]
  BY Pairs
<1>2. PICK i : i = tls[t]
  OBVIOUS
<1>3. /\ loc[r] = "describe" /\ Move(r, "sample") /\ described' = described \cup {i}
      /\ valid' = [valid EXCEPT ![i] = 0]
      /\ sample' = [sample EXCEPT ![i] = [j \in Samples |-> NewSample]]
      /\ UNCHANGED <<lastIdx, tls, testIdx, site, turnedAway, job, at>>
  BY <1>1, <1>2 DEF Describe, words, histories
<1>4. IndexInv /\ DescribedInv /\ SampleInv /\ i # 0 /\ i \notin described
  BY <1>1, <1>2, <1>3 DEF HInv, DescribedInv
<1>5. i \in 1 .. lastIdx /\ i \in Descs
  <2>1. i \in 1 .. lastIdx
    BY <1>2, <1>4 DEF IndexInv
  <2> QED
    BY <1>4, <2>1, IndexBound
<1>6. IInv'
  BY StepInv DEF HInv, Next, RequestStep
<1>7. Nested'
  BY <1>3, StepNested DEF HInv, IInv, Locs, Busy
<1>8. SiteInv'
  BY <1>3, SiteKept DEF HInv, IInv, Locs
<1>9. IndexInv'
  BY <1>3, <1>4, IndexKept
<1>10. KeeperInv'
  BY <1>3, KeeperKept DEF HInv
<1>11. \A q \in Requests : loc'[q] = IF q = r THEN "sample" ELSE loc[q]
  BY <1>3 DEF HInv, IInv, LocInv, Move
<1>12. \A u \in Threads : u # t => tls[u] # i
  BY <1>2, <1>4 DEF IndexInv
<1>13. DescribedInv'
  <2>1. described' \subseteq 1 .. lastIdx'
    BY <1>3, <1>4, <1>5 DEF DescribedInv
  <2>2. ASSUME NEW u \in Threads, tls[u] # 0, tls[u] \notin described'
        PROVE  \E q \in Requests : q[1] = u /\ loc'[q] = "describe"
    <3>1. u # t /\ tls[u] \notin described
      BY <1>2, <1>3, <2>2
    <3>2. PICK q \in Requests : q[1] = u /\ loc[q] = "describe"
      BY <1>4, <2>2, <3>1 DEF DescribedInv
    <3> QED
      BY <1>1, <1>11, <3>1, <3>2
  <2>3. ASSUME NEW q \in Requests
        PROVE  /\ loc'[q] = "index" => tls[q[1]] = 0
               /\ loc'[q] = "describe" => tls[q[1]] # 0 /\ tls[q[1]] \notin described'
               /\ loc'[q] \in {"sample", "open", "recorded"} => tls[q[1]] \in described'
    <3>1. CASE q = r
      BY <1>1, <1>2, <1>3, <1>11, <3>1
    <3>2. CASE q # r
      <4>1. loc'[q] = loc[q]
        BY <1>11, <3>2
      <4>2. loc[q] = "describe" => q[1] # t
        BY <1>1, <1>3, <3>2, OneBusy DEF HInv, Busy
      <4>3. loc[q] = "describe" => tls[q[1]] # i
        BY <1>12, <4>2, Pairs
      <4> QED
        BY <1>3, <1>4, <4>1, <4>3 DEF DescribedInv
    <3> QED
      BY <3>1, <3>2
  <2> QED
    BY <1>3, <2>1, <2>2, <2>3 DEF DescribedInv
<1>14. /\ valid' \in [Descs -> Nat] /\ sample' \in [Descs -> [Samples -> SampleType]]
       /\ valid'[i] = 0 /\ UsedOf(i)' = {}
       /\ \A d \in Descs : d # i => valid'[d] = valid[d] /\ UsedOf(d)' = UsedOf(d)
  <2>1. PICK f : f = [j \in Samples |-> NewSample]
    OBVIOUS
  <2>2. f \in [Samples -> SampleType] /\ {j \in Samples : f[j].used} = {}
    BY <2>1, FreshSamples
  <2>3. sample' = [sample EXCEPT ![i] = f]
    BY <1>3, <2>1
  <2>4. sample' \in [Descs -> [Samples -> SampleType]] /\ sample'[i] = f
        /\ \A d \in Descs : d # i => sample'[d] = sample[d]
    BY <1>4, <1>5, <2>2, <2>3 DEF SampleInv
  <2>5. UsedOf(i)' = {}
    BY <2>2, <2>4 DEF UsedOf
  <2>6. \A d \in Descs : d # i => UsedOf(d)' = UsedOf(d)
    BY <2>4 DEF UsedOf
  <2>7. valid' \in [Descs -> Nat] /\ valid'[i] = 0 /\ \A d \in Descs : d # i => valid'[d] = valid[d]
    BY <1>3, <1>4, <1>5 DEF SampleInv
  <2> QED
    BY <2>4, <2>5, <2>6, <2>7
<1>15. SampleInv'
  <2>1. ASSUME NEW d \in Descs PROVE valid'[d] = Cardinality(UsedOf(d)')
    <3>1. CASE d = i
      BY <1>14, <3>1, FS_EmptySet
    <3>2. CASE d # i
      BY <1>4, <1>14, <3>2 DEF SampleInv
    <3> QED
      BY <3>1, <3>2
  <2> QED
    BY <1>14, <2>1 DEF SampleInv
<1>16. UsedInv'
  <2>1. \A q \in Requests : IndexOf(q)' = IndexOf(q)
    BY <1>3 DEF IndexOf
  <2>2. \A u \in Threads : NextIndex(u)' = NextIndex(u)
    BY <1>3, SameIndices
  <2>3. ASSUME NEW u \in Threads \ turnedAway, u # t
        PROVE  IF tls[u] \in described' THEN FirstUsed(u, valid[tls[u]])' ELSE NoneUsed(u)'
    <3>1. tls[u] \in described' <=> tls[u] \in described
      BY <1>3, <1>12, <2>3
    <3>2. CASE tls[u] \in described
      <4>1. PICK d \in Descs : d = tls[u]
        BY <1>4, <3>2, IndexBound DEF DescribedInv
      <4>2. d # i
        BY <1>12, <2>3, <4>1
      <4>3. UsedOf(d)' = UsedOf(d) /\ valid'[d] = valid[d]
        BY <1>14, <4>2
      <4>4. FirstUsed(u, valid[d])
        BY <3>2, <4>1 DEF HInv, UsedInv
      <4>5. UsedOf(tls[u])' = UsedOf(d) /\ tls' = tls
        BY <1>3, <4>1, <4>3 DEF UsedOf
      <4>6. \A q \in Requests : loc[q] = "sample" => loc'[q] = "sample"
        BY <1>11
      <4>7. FirstUsed(u, valid[tls[u]])'
        BY <2>1, <2>2, <4>1, <4>3, <4>4, <4>5, <4>6 DEF FirstUsed
      <4> QED
        BY <3>1, <3>2, <4>7
    <3>3. CASE tls[u] \notin described
      <4>1. NoneUsed(u)
        BY <3>3 DEF HInv, UsedInv
      <4>2. \A q \in Requests : q[1] = u => loc'[q] = loc[q]
        BY <1>1, <1>11, <2>3
      <4>3. NoneUsed(u)'
        BY <2>2, <4>1, <4>2 DEF NoneUsed
      <4> QED
        BY <3>1, <3>3, <4>3
    <3> QED
      BY <3>2, <3>3
  <2>4. t \notin turnedAway => FirstUsed(t, valid[tls[t]])'
    <3>1. SUFFICES ASSUME t \notin turnedAway PROVE FirstUsed(t, valid[tls[t]])'
      OBVIOUS
    <3>2. NextIndex(t) = 1 /\ IndexOf(r) = 0
      BY <1>1, <1>3, <3>1, FirstStatement
    <3>3. UsedOf(tls[t])' = {} /\ valid'[tls'[t]] = 0
      BY <1>2, <1>3, <1>14 DEF UsedOf
    <3>4. 0 .. 0 - 1 = {}
      OBVIOUS
    <3>5. loc'[r] = "sample" /\ r[1] = t
      BY <1>1, <1>11
    <3> QED
      BY <2>1, <2>2, <3>2, <3>3, <3>4, <3>5 DEF FirstUsed
  <2>5. tls[t] \in described'
    BY <1>2, <1>3
  <2>6. ASSUME NEW u \in Threads \ turnedAway'
        PROVE  IF tls'[u] \in described' THEN FirstUsed(u, valid[tls[u]])' ELSE NoneUsed(u)'
    BY <1>3, <2>3, <2>4, <2>5
  <2> QED
    BY <2>6 DEF UsedInv
<1> QED
  BY <1>6, <1>7, <1>8, <1>9, <1>10, <1>13, <1>15, <1>16 DEF HInv

-------------------------------------------------------------------------------
\* The steps of a request that has a descriptor: what is described stays.
LEMMA DescribedKept ==
  ASSUME LocInv, DescribedInv, NEW r \in Requests, NEW l \in Locs, Move(r, l),
         loc[r] \notin {"none", "index", "describe"}, l \notin {"index", "describe"},
         l \in {"open", "recorded"} => loc[r] \in {"sample", "open"}, l # "sample",
         UNCHANGED <<lastIdx, tls, described>>
  PROVE  DescribedInv'
<1>1. \A q \in Requests : loc'[q] = IF q = r THEN l ELSE loc[q]
  BY DEF LocInv, Move
<1>2. \A t \in Threads : tls[t] # 0 /\ tls[t] \notin described =>
         \E q \in Requests : q[1] = t /\ loc'[q] = "describe"
  BY <1>1 DEF DescribedInv
<1>3. ASSUME NEW q \in Requests
      PROVE  /\ loc'[q] = "index" => tls[q[1]] = 0
             /\ loc'[q] = "describe" => tls[q[1]] # 0 /\ tls[q[1]] \notin described
             /\ loc'[q] \in {"sample", "open", "recorded"} => tls[q[1]] \in described
  <2>1. CASE q = r
    BY <1>1, <2>1 DEF DescribedInv
  <2>2. CASE q # r
    BY <1>1, <2>2 DEF DescribedInv
  <2> QED
    BY <2>1, <2>2
<1> QED
  BY <1>2, <1>3 DEF DescribedInv

LEMMA MarkUsed ==
  ASSUME SampleInv, NEW i \in Descs, NEW j \in Samples,
         sample' = [sample EXCEPT ![i][j].used = TRUE],
         valid' = IF sample[i][j].used THEN valid ELSE [valid EXCEPT ![i] = @ + 1]
  PROVE  /\ SampleInv'
         /\ UsedOf(i)' = UsedOf(i) \cup {j}
         /\ valid'[i] = IF j \in UsedOf(i) THEN valid[i] ELSE valid[i] + 1
         /\ \A d \in Descs : d # i => UsedOf(d)' = UsedOf(d) /\ valid'[d] = valid[d]
<1>1. sample \in [Descs -> [Samples -> SampleType]] /\ valid \in [Descs -> Nat]
  BY DEF SampleInv
<1>2. PICK s \in SampleType : s = sample[i][j]
  BY <1>1
<1>3. PICK m : m = [s EXCEPT !.used = TRUE]
  OBVIOUS
<1>4. m \in SampleType /\ m.used = TRUE
  BY <1>3 DEF SampleType
<1>5. sample' = [sample EXCEPT ![i] = [sample[i] EXCEPT ![j] = m]]
  BY <1>1, <1>2, <1>3
<1>6. sample'[i] = [sample[i] EXCEPT ![j] = m] /\ \A d \in Descs : d # i => sample'[d] = sample[d]
  BY <1>1, <1>5
<1>7. sample' \in [Descs -> [Samples -> SampleType]]
  <2>1. PICK f : f = [sample[i] EXCEPT ![j] = m]
    OBVIOUS
  <2>2. f \in [Samples -> SampleType]
    BY <1>1, <1>4, <2>1
  <2>3. sample' = [sample EXCEPT ![i] = f]
    BY <1>5, <2>1
  <2> QED
    BY <1>1, <2>2, <2>3
<1>8. sample'[i][j] = m /\ \A x \in Samples : x # j => sample'[i][x] = sample[i][x]
  BY <1>1, <1>6
<1>9. UsedOf(i)' = UsedOf(i) \cup {j}
  BY <1>4, <1>8 DEF UsedOf
<1>10. \A d \in Descs : d # i => UsedOf(d)' = UsedOf(d)
  BY <1>6 DEF UsedOf
<1>11. sample[i][j].used <=> j \in UsedOf(i)
  BY DEF UsedOf
<1>12. valid' \in [Descs -> Nat]
  BY <1>1
<1>13. /\ valid'[i] = IF j \in UsedOf(i) THEN valid[i] ELSE valid[i] + 1
       /\ \A d \in Descs : d # i => valid'[d] = valid[d]
  BY <1>1, <1>11
<1>14. valid'[i] = Cardinality(UsedOf(i)')
  <2>1. CASE j \in UsedOf(i)
    <3>1. UsedOf(i) \cup {j} = UsedOf(i)
      BY <2>1
    <3> QED
      BY <1>9, <1>13, <2>1, <3>1 DEF SampleInv
  <2>2. CASE j \notin UsedOf(i)
    <3>1. UsedOf(i) \in SUBSET Samples
      BY DEF UsedOf
    <3>2. IsFiniteSet(UsedOf(i))
      BY <3>1, SampleSet, FS_Subset
    <3>3. Cardinality(UsedOf(i) \cup {j}) = Cardinality(UsedOf(i)) + 1
      BY <2>2, <3>2, FS_AddElement
    <3> QED
      BY <1>9, <1>13, <2>2, <3>3 DEF SampleInv
  <2> QED
    BY <2>1, <2>2
<1>15. \A d \in Descs : valid'[d] = Cardinality(UsedOf(d)')
  <2>1. ASSUME NEW d \in Descs, d # i PROVE valid'[d] = Cardinality(UsedOf(d)')
    BY <1>10, <1>13, <2>1 DEF SampleInv
  <2> QED
    BY <1>14, <2>1
<1> QED
  BY <1>7, <1>9, <1>10, <1>12, <1>13, <1>15 DEF SampleInv

LEMMA UseSampleKeeps ==
  ASSUME HInv, NEW r \in Requests, UseSample(r)
  PROVE  HInv'
<1>1. PICK t \in Threads : t = r[1]
  BY Pairs
<1>2. PICK i, j : i = tls[t] /\ j = IndexOf(r)
  OBVIOUS
<1>3. /\ loc[r] = "sample" /\ Move(r, "open")
      /\ sample' = [sample EXCEPT ![i][j].used = TRUE]
      /\ valid' = IF sample[i][j].used THEN valid ELSE [valid EXCEPT ![i] = @ + 1]
      /\ UNCHANGED <<lastIdx, tls, testIdx, described, site, turnedAway, job, at>>
  BY <1>1, <1>2 DEF UseSample, words, histories
<1>4. IndexInv /\ DescribedInv /\ SiteInv /\ SampleInv /\ UsedInv
  BY DEF HInv
<1>5. i \in described /\ i \in Descs
  BY <1>1, <1>2, <1>3, <1>4, IndexBound DEF DescribedInv
<1>6. /\ j \in Samples /\ j >= 0 /\ j < NextIndex(t)
  BY <1>1, <1>2, <1>3, <1>4 DEF SiteInv, IndexOf
<1>7. /\ SampleInv' /\ UsedOf(i)' = UsedOf(i) \cup {j}
      /\ valid'[i] = IF j \in UsedOf(i) THEN valid[i] ELSE valid[i] + 1
      /\ \A d \in Descs : d # i => UsedOf(d)' = UsedOf(d) /\ valid'[d] = valid[d]
  BY <1>3, <1>4, <1>5, <1>6, MarkUsed
<1>8. IInv'
  BY StepInv DEF HInv, Next, RequestStep
<1>9. Nested'
  BY <1>3, StepNested DEF HInv, IInv, Locs, Busy
<1>10. SiteInv'
  BY <1>3, SiteKept DEF HInv, IInv, Locs
<1>11. IndexInv'
  BY <1>3, <1>4, IndexKept
<1>12. KeeperInv'
  BY <1>3, KeeperKept DEF HInv
<1>13. DescribedInv'
  BY <1>3, <1>4, DescribedKept DEF HInv, IInv, Locs
<1>14. \A q \in Requests : loc'[q] = IF q = r THEN "open" ELSE loc[q]
  BY <1>3 DEF HInv, IInv, LocInv, Move
<1>15. UsedInv'
  <2>1. \A q \in Requests : IndexOf(q)' = IndexOf(q)
    BY <1>3 DEF IndexOf
  <2>2. \A u \in Threads : NextIndex(u)' = NextIndex(u)
    BY <1>3, SameIndices
  <2>3. ASSUME NEW u \in Threads \ turnedAway, u # t
        PROVE  IF tls[u] \in described THEN FirstUsed(u, valid[tls[u]])' ELSE NoneUsed(u)'
    <3>1. \A q \in Requests : q[1] = u => loc'[q] = loc[q]
      BY <1>1, <1>14, <2>3
    <3>2. CASE tls[u] \in described
      <4>1. PICK d \in Descs : d = tls[u]
        BY <1>4, <3>2, IndexBound DEF DescribedInv
      <4>2. d # i
        <5>1. tls[t] # 0
          BY <1>2, <1>4, <1>5 DEF DescribedInv, IndexInv
        <5> QED
          BY <1>2, <1>4, <2>3, <4>1, <5>1 DEF IndexInv
      <4>3. UsedOf(d)' = UsedOf(d) /\ valid'[d] = valid[d]
        BY <1>7, <4>2
      <4>4. FirstUsed(u, valid[d])
        BY <1>4, <3>2, <4>1 DEF UsedInv
      <4>5. UsedOf(tls[u])' = UsedOf(d) /\ tls' = tls
        BY <1>3, <4>1, <4>3 DEF UsedOf
      <4>6. FirstUsed(u, valid[tls[u]])'
        BY <2>1, <2>2, <3>1, <4>1, <4>3, <4>4, <4>5 DEF FirstUsed
      <4> QED
        BY <3>2, <4>6
    <3>3. CASE tls[u] \notin described
      <4>1. NoneUsed(u)
        BY <1>4, <3>3 DEF UsedInv
      <4>2. NoneUsed(u)'
        BY <2>2, <3>1, <4>1 DEF NoneUsed
      <4> QED
        BY <3>3, <4>2
    <3> QED
      BY <3>2, <3>3
  <2>4. t \notin turnedAway => FirstUsed(t, valid[tls[t]])'
    <3>1. SUFFICES ASSUME t \notin turnedAway PROVE FirstUsed(t, valid[tls[t]])'
      OBVIOUS
    <3>2. PICK v : v = valid[i]
      OBVIOUS
    <3>3. v \in Nat
      BY <1>4, <1>5, <3>2 DEF SampleInv
    <3>4. FirstUsed(t, v)
      BY <1>2, <1>4, <1>5, <3>1, <3>2 DEF UsedInv
    <3>5. UsedOf(i) = 0 .. v - 1
      BY <1>2, <3>4 DEF FirstUsed
    <3>6. UsedOf(tls[t])' = UsedOf(i) \cup {j} /\ tls' = tls
      BY <1>2, <1>3, <1>7 DEF UsedOf
    <3>7. j \in Nat
      BY <1>6, SampleNumbers
    <3>8. CASE v = NextIndex(t)
      <4>1. j \in 0 .. v - 1
        BY <1>6, <3>3, <3>7, <3>8
      <4>2. UsedOf(i) \cup {j} = 0 .. v - 1 /\ valid'[i] = v
        BY <1>7, <3>2, <3>5, <4>1
      <4> QED
        BY <1>2, <2>2, <3>6, <3>8, <4>2 DEF FirstUsed
    <3>9. CASE v # NextIndex(t)
      <4>1. PICK q \in Requests : q[1] = t /\ loc[q] = "sample" /\ IndexOf(q) = v
        BY <3>4, <3>9 DEF FirstUsed
      <4>2. v + 1 = NextIndex(t)
        BY <3>4, <3>9 DEF FirstUsed
      <4>3. q = r
        BY <1>1, <1>3, <4>1, OneBusy DEF HInv, Busy
      <4>4. j = v
        BY <1>2, <4>1, <4>3
      <4>5. j \notin UsedOf(i)
        BY <3>3, <3>5, <4>4
      <4>6. (0 .. v - 1) \cup {v} = 0 .. (v + 1) - 1
        BY <3>3
      <4>7. UsedOf(i) \cup {j} = 0 .. (v + 1) - 1 /\ valid'[i] = v + 1
        BY <1>7, <3>2, <3>5, <4>4, <4>5, <4>6
      <4> QED
        BY <1>2, <2>2, <3>6, <4>2, <4>7 DEF FirstUsed
    <3> QED
      BY <3>8, <3>9
  <2>5. tls[t] \in described
    BY <1>2, <1>5
  <2>6. ASSUME NEW u \in Threads \ turnedAway'
        PROVE  IF tls'[u] \in described' THEN FirstUsed(u, valid[tls[u]])' ELSE NoneUsed(u)'
    BY <1>3, <2>3, <2>4, <2>5
  <2> QED
    BY <2>6 DEF UsedInv
<1> QED
  BY <1>7, <1>8, <1>9, <1>10, <1>11, <1>12, <1>13, <1>15 DEF HInv

-------------------------------------------------------------------------------
\* What a measurement, a Reset and an output do to a sample.
LEMMA MeasuredFields ==
  ASSUME NEW s \in SampleType, NEW e \in Elapsed
  PROVE  /\ Measured(s, e) \in SampleType /\ Measured(s, e).used = s.used
         /\ Measured(s, e).callNum = s.callNum + 1
         /\ Measured(s, e).totalTime = s.totalTime + e
         /\ Measured(s, e).iMin = IF e < s.iMin[1] THEN <<e, s.iMin[1]>>
                                  ELSE IF e < s.iMin[2] THEN <<s.iMin[1], e>> ELSE s.iMin
         /\ Measured(s, e).iMax = IF e > s.iMax[1] THEN <<e, s.iMax[1]>>
                                  ELSE IF e > s.iMax[2] THEN <<s.iMax[1], e>> ELSE s.iMax
<1>1. e \in Nat /\ e \in 0 .. UINT_MAX /\ UINT_MAX \in Nat
  BY ProfilerAssumption
<1>2. s.iMin[1] \in 0 .. UINT_MAX /\ s.iMin[2] \in 0 .. UINT_MAX
      /\ s.iMax[1] \in 0 .. UINT_MAX /\ s.iMax[2] \in 0 .. UINT_MAX
  BY DEF SampleType
<1>3. s.iMin \in [1 .. 2 -> 0 .. UINT_MAX] /\ s.iMax \in [1 .. 2 -> 0 .. UINT_MAX]
      /\ s.callNum + 1 \in Nat /\ s.totalTime + e \in Nat
  BY <1>1 DEF SampleType
<1>4. \A a, b \in 0 .. UINT_MAX : <<a, b>> \in [1 .. 2 -> 0 .. UINT_MAX]
  OBVIOUS
<1>5. PICK low : low = IF e < s.iMin[1] THEN <<e, s.iMin[1]>>
                       ELSE IF e < s.iMin[2] THEN <<s.iMin[1], e>> ELSE s.iMin
  OBVIOUS
<1>6. PICK high : high = IF e > s.iMax[1] THEN <<e, s.iMax[1]>>
                         ELSE IF e > s.iMax[2] THEN <<s.iMax[1], e>> ELSE s.iMax
  OBVIOUS
<1>7. low \in [1 .. 2 -> 0 .. UINT_MAX]
  BY <1>1, <1>2, <1>3, <1>4, <1>5
<1>8. high \in [1 .. 2 -> 0 .. UINT_MAX]
  BY <1>1, <1>2, <1>3, <1>4, <1>6
<1>9. Measured(s, e) = [s EXCEPT !.callNum = s.callNum + 1, !.totalTime = s.totalTime + e,
                                 !.iMin = low, !.iMax = high]
  BY <1>5, <1>6 DEF Measured, SampleType
<1>10. /\ Measured(s, e) \in SampleType /\ Measured(s, e).used = s.used
       /\ Measured(s, e).callNum = s.callNum + 1 /\ Measured(s, e).totalTime = s.totalTime + e
       /\ Measured(s, e).iMin = low /\ Measured(s, e).iMax = high
  BY <1>3, <1>7, <1>8, <1>9 DEF SampleType
<1> QED
  BY <1>5, <1>6, <1>10

LEMMA TreatedFields ==
  ASSUME NEW s \in SampleType, NEW j \in Jobs
  PROVE  /\ Treated(j, s) \in SampleType /\ Treated(j, s).used = s.used
         /\ j = "reset" => Treated(j, s) = ResetSample(s)
         /\ j = "output" =>
              /\ Treated(j, s).callNum = s.callNum /\ Treated(j, s).totalTime = s.totalTime
              /\ Treated(j, s).iMax = s.iMax
              /\ \A m \in 1 .. 2 : Treated(j, s).iMin[m] = IF s.iMin[m] = UINT_MAX THEN 0 ELSE s.iMin[m]
<1>1. CASE j = "reset"
  BY <1>1, ResetFields DEF Treated
<1>2. CASE j # "reset"
  <2>1. PICK low : low = [m \in 1 .. 2 |-> IF s.iMin[m] = UINT_MAX THEN 0 ELSE s.iMin[m]]
    OBVIOUS
  <2>2. low \in [1 .. 2 -> 0 .. UINT_MAX]
    BY <2>1, ProfilerAssumption DEF SampleType
  <2>3. Treated(j, s) = [s EXCEPT !.iMin = low]
    BY <1>2, <2>1 DEF Treated, SampleType
  <2>4. /\ Treated(j, s) \in SampleType /\ Treated(j, s).used = s.used
        /\ Treated(j, s).callNum = s.callNum /\ Treated(j, s).totalTime = s.totalTime
        /\ Treated(j, s).iMax = s.iMax /\ Treated(j, s).iMin = low
    BY <2>2, <2>3 DEF SampleType
  <2> QED
    BY <1>2, <2>1, <2>4
<1> QED
  BY <1>1, <1>2

\* A step that replaces samples and leaves used alone.
LEMMA SampleReplaced ==
  ASSUME SampleInv, valid' = valid, NEW i \in Descs, NEW f \in [Samples -> SampleType],
         sample' = [sample EXCEPT ![i] = f], \A j \in Samples : f[j].used = sample[i][j].used
  PROVE  SampleInv' /\ \A d \in Descs : UsedOf(d)' = UsedOf(d) /\ valid'[d] = valid[d]
<1>1. sample \in [Descs -> [Samples -> SampleType]]
  BY DEF SampleInv
<1>2. sample' \in [Descs -> [Samples -> SampleType]] /\ sample'[i] = f
      /\ \A d \in Descs : d # i => sample'[d] = sample[d]
  BY <1>1
<1>3. UsedOf(i)' = UsedOf(i)
  BY <1>2 DEF UsedOf
<1>4. \A d \in Descs : d # i => UsedOf(d)' = UsedOf(d)
  BY <1>2 DEF UsedOf
<1>5. \A d \in Descs : UsedOf(d)' = UsedOf(d)
  BY <1>3, <1>4
<1>6. \A d \in Descs : valid'[d] = Cardinality(UsedOf(d)')
  BY <1>5 DEF SampleInv
<1> QED
  BY <1>2, <1>5, <1>6 DEF SampleInv

LEMMA RecordKeeps ==
  ASSUME HInv, NEW r \in Requests, Record(r)
  PROVE  HInv'
<1>1. PICK t \in Threads : t = r[1]
  BY Pairs
<1>2. PICK i, j : i = tls[t] /\ j = IndexOf(r)
  OBVIOUS
<1>3. PICK e \in Elapsed : sample' = [sample EXCEPT ![i][j] = Measured(@, e)]
  BY <1>1, <1>2 DEF Record
<1>4. /\ loc[r] = "open" /\ Innermost(r) /\ Move(r, "recorded")
      /\ UNCHANGED <<lastIdx, tls, testIdx, described, valid, site, turnedAway, job, at>>
  BY DEF Record, words
<1>5. IndexInv /\ DescribedInv /\ SiteInv /\ SampleInv /\ UsedInv
  BY DEF HInv
<1>6. i \in Descs
  BY <1>1, <1>2, <1>4, <1>5, IndexBound DEF DescribedInv
<1>7. j \in Samples
  BY <1>1, <1>2, <1>4, <1>5 DEF SiteInv, IndexOf
<1>8. SampleInv' /\ \A d \in Descs : UsedOf(d)' = UsedOf(d) /\ valid'[d] = valid[d]
  <2>1. sample \in [Descs -> [Samples -> SampleType]]
    BY <1>5 DEF SampleInv
  <2>2. PICK s \in SampleType : s = sample[i][j]
    BY <1>6, <1>7, <2>1
  <2>3. PICK m : m = Measured(s, e)
    OBVIOUS
  <2>4. m \in SampleType /\ m.used = s.used
    BY <2>3, MeasuredFields
  <2>5. PICK f : f = [sample[i] EXCEPT ![j] = m]
    OBVIOUS
  <2>6. sample' = [sample EXCEPT ![i] = f]
    BY <1>3, <1>6, <1>7, <2>1, <2>2, <2>3, <2>5
  <2>7. f \in [Samples -> SampleType]
    BY <1>6, <2>1, <2>4, <2>5
  <2>8. \A x \in Samples : f[x].used = sample[i][x].used
    BY <1>6, <1>7, <2>1, <2>2, <2>4, <2>5
  <2> QED
    BY <1>4, <1>5, <1>6, <2>6, <2>7, <2>8, SampleReplaced
<1>9. IInv'
  BY StepInv DEF HInv, Next, RequestStep
<1>10. Nested'
  BY <1>4, StepNested DEF HInv, IInv, Locs
<1>11. SiteInv'
  BY <1>4, SiteKept DEF HInv, IInv, Locs
<1>12. IndexInv'
  BY <1>4, <1>5, IndexKept
<1>13. KeeperInv'
  BY <1>4, KeeperKept DEF HInv
<1>14. DescribedInv'
  BY <1>4, <1>5, DescribedKept DEF HInv, IInv, Locs
<1>15. \A q \in Requests : loc[q] \in {"index", "describe", "sample"} => loc'[q] = loc[q]
  BY <1>4 DEF HInv, IInv, LocInv, Move
<1>16. UsedInv'
  BY <1>4, <1>5, <1>8, <1>15, UsedKept DEF words
<1> QED
  BY <1>8, <1>9, <1>10, <1>11, <1>12, <1>13, <1>14, <1>16 DEF HInv

LEMMA LeaveKeeps ==
  ASSUME HInv, NEW r \in Requests, Leave(r)
  PROVE  HInv'
<1>1. /\ loc[r] \in {"refused", "recorded"} /\ Innermost(r) /\ Move(r, "none")
      /\ site' = [site EXCEPT ![r] = NoSite]
      /\ UNCHANGED <<lastIdx, tls, testIdx, described, valid, sample, turnedAway, job, at>>
  BY DEF Leave, words, tables, histories
<1>2. IndexInv /\ DescribedInv /\ SiteInv /\ SampleInv /\ UsedInv
  BY DEF HInv
<1>3. IInv'
  BY LeaveInv DEF HInv
<1>4. Nested'
  BY <1>1, StepNested DEF HInv, IInv, Locs
<1>5. IndexInv' /\ SampleInv'
  BY <1>1, <1>2, IndexKept, SampleKept
<1>6. KeeperInv'
  BY <1>1, KeeperKept DEF HInv
<1>7. DescribedInv'
  BY <1>1, <1>2, DescribedKept DEF HInv, IInv, Locs
<1>8. \A q \in Requests : loc'[q] = IF q = r THEN "none" ELSE loc[q]
  BY <1>1 DEF HInv, IInv, LocInv, Move
<1>9. \A q \in Requests : q # r => site'[q] = site[q] /\ IndexOf(q)' = IndexOf(q)
  BY <1>1, <1>2 DEF SiteInv, IndexOf
<1>10. SiteInv'
  <2>1. \A q \in Requests : loc'[q] # "none" => site'[q] \in Sites /\ IndexOf(q)' >= 0
    BY <1>2, <1>8, <1>9 DEF SiteInv
  <2>2. \A u \in Threads, s \in Sites : testIdx'[u][s] < NextIndex(u)'
    BY <1>1, <1>2, SameIndices DEF SiteInv
  <2>3. site' \in [Requests -> Sites \cup {NoSite}]
    BY <1>1, <1>2 DEF SiteInv
  <2> QED
    BY <1>1, <1>2, <2>1, <2>2, <2>3 DEF SiteInv
<1>11. UsedInv'
  <2>1. ASSUME NEW u \in Threads \ turnedAway'
        PROVE  IF tls'[u] \in described' THEN FirstUsed(u, valid[tls[u]])' ELSE NoneUsed(u)'
    <3>1. u \in Threads \ turnedAway /\ NextIndex(u)' = NextIndex(u)
      BY <1>1, SameIndices
    <3>2. UsedOf(tls[u])' = UsedOf(tls[u]) /\ tls' = tls /\ valid' = valid /\ described' = described
      BY <1>1 DEF UsedOf
    <3>3. \A q \in Requests : loc[q] \in {"index", "describe", "sample"} =>
             loc'[q] = loc[q] /\ IndexOf(q)' = IndexOf(q)
      BY <1>1, <1>8, <1>9
    <3>4. CASE tls[u] \in described
      <4>1. FirstUsed(u, valid[tls[u]])
        BY <1>2, <3>1, <3>4 DEF UsedInv
      <4>2. FirstUsed(u, valid[tls[u]])'
        BY <3>1, <3>2, <3>3, <4>1 DEF FirstUsed
      <4> QED
        BY <3>2, <3>4, <4>2
    <3>5. CASE tls[u] \notin described
      <4>1. NoneUsed(u)
        BY <1>2, <3>1, <3>5 DEF UsedInv
      <4>2. NoneUsed(u)'
        BY <3>1, <3>3, <4>1 DEF NoneUsed
      <4> QED
        BY <3>2, <3>5, <4>2
    <3> QED
      BY <3>4, <3>5
  <2> QED
    BY <2>1 DEF UsedInv
<1> QED
  BY <1>3, <1>4, <1>5, <1>6, <1>7, <1>10, <1>11 DEF HInv

-------------------------------------------------------------------------------
\* The requests stand still while a keeper moves.
LEMMA KeeperMoves ==
  ASSUME HInv, UNCHANGED <<words, described, valid, loc, site, turnedAway>>,
         \A i \in Descs : UsedOf(i)' = UsedOf(i)
  PROVE  Nested' /\ IndexInv' /\ DescribedInv' /\ SiteInv' /\ UsedInv'
<1>1. UNCHANGED <<lastIdx, tls, testIdx>>
  BY DEF words
<1>2. Nested'
  BY DEF HInv, Nested, Enclosed
<1>3. IndexInv'
  BY <1>1, IndexKept DEF HInv
<1>4. DescribedInv'
  BY <1>1 DEF HInv, DescribedInv
<1>5. SiteInv'
  BY <1>1, SameIndices DEF HInv, SiteInv, IndexOf
<1>6. UsedInv'
  BY UsedKept DEF HInv
<1> QED
  BY <1>2, <1>3, <1>4, <1>5, <1>6

LEMMA LockKeeps ==
  ASSUME HInv, NEW k \in Keepers, NEW j \in Jobs, Lock(k, j)
  PROVE  HInv'
<1>1. /\ job' = [job EXCEPT ![k] = j] /\ at' = [at EXCEPT ![k] = 1]
      /\ UNCHANGED <<words, described, valid, sample, loc, site, turnedAway>>
  BY DEF Lock, tables, histories
<1>2. IInv'
  BY LockInv DEF HInv
<1>3. \A i \in Descs : UsedOf(i)' = UsedOf(i)
  BY <1>1 DEF UsedOf
<1>4. Nested' /\ IndexInv' /\ DescribedInv' /\ SiteInv' /\ UsedInv'
  BY <1>1, <1>3, KeeperMoves
<1>5. SampleInv'
  BY <1>1, SampleKept DEF HInv
<1>6. KeeperInv'
  <2>1. lastIdx \in Nat /\ lastIdx' = lastIdx /\ j # NoJob
    BY <1>1, ProfilerAssumption DEF HInv, IndexInv, words, Jobs
  <2>2. \A m \in Keepers : job'[m] = IF m = k THEN j ELSE job[m]
    BY <1>1 DEF HInv, IInv, LocInv
  <2>3. at' \in [Keepers -> Nat] /\ \A m \in Keepers : at'[m] = IF m = k THEN 1 ELSE at[m]
    BY <1>1 DEF HInv, KeeperInv
  <2> QED
    BY <2>1, <2>2, <2>3 DEF HInv, KeeperInv
<1> QED
  BY <1>2, <1>4, <1>5, <1>6 DEF HInv

LEMMA VisitKeeps ==
  ASSUME HInv, NEW k \in Keepers, Visit(k)
  PROVE  HInv'
<1>1. PICK i : i = at[k]
  OBVIOUS
<1>2. PICK f : f = [j \in Samples |-> IF j < valid[i] THEN Treated(job[k], sample[i][j])
                                      ELSE sample[i][j]]
  OBVIOUS
<1>3. /\ job[k] \in Jobs /\ i \in described
      /\ at' = [at EXCEPT ![k] = i + 1]
      /\ UNCHANGED <<words, described, valid, loc, site, turnedAway, job>>
  BY <1>1 DEF Visit, Jobs, histories
<1>4. IndexInv /\ DescribedInv /\ SampleInv /\ lastIdx \in Nat
  BY DEF HInv, IndexInv
<1>5. i \in 1 .. lastIdx /\ i \in Descs
  BY <1>3, <1>4, IndexBound DEF DescribedInv
<1>6. sample \in [Descs -> [Samples -> SampleType]]
  BY <1>4 DEF SampleInv
<1>7. sample' = [sample EXCEPT ![i] = f]
  BY <1>1, <1>2, <1>5, <1>6 DEF Visit
<1>8. \A j \in Samples : sample[i][j] \in SampleType
  BY <1>5, <1>6
<1>9. \A j \in Samples : f[j] \in SampleType /\ f[j].used = sample[i][j].used
  BY <1>2, <1>3, <1>8, TreatedFields
<1>10. f \in [Samples -> SampleType]
  BY <1>2, <1>9
<1>11. SampleInv' /\ \A d \in Descs : UsedOf(d)' = UsedOf(d)
  BY <1>3, <1>4, <1>5, <1>7, <1>9, <1>10, SampleReplaced
<1>12. IInv'
  BY StepInv DEF HInv, Next, KeeperStep
<1>13. Nested' /\ IndexInv' /\ DescribedInv' /\ SiteInv' /\ UsedInv'
  BY <1>3, <1>11, KeeperMoves
<1>14. KeeperInv'
  <2>1. lastIdx' = lastIdx /\ i + 1 \in 1 .. lastIdx + 1 /\ i + 1 \in Nat
    BY <1>3, <1>4, <1>5 DEF words
  <2>2. at' \in [Keepers -> Nat] /\ \A m \in Keepers : at'[m] = IF m = k THEN i + 1 ELSE at[m]
    BY <1>3, <2>1 DEF HInv, KeeperInv
  <2>3. job[k] # NoJob
    BY <1>3, ProfilerAssumption DEF Jobs
  <2> QED
    BY <1>3, <2>1, <2>2, <2>3 DEF HInv, KeeperInv
<1> QED
  BY <1>11, <1>12, <1>13, <1>14 DEF HInv

LEMMA UnlockKeeps ==
  ASSUME HInv, NEW k \in Keepers, Unlock(k)
  PROVE  HInv'
<1>1. /\ job' = [job EXCEPT ![k] = NoJob] /\ at' = [at EXCEPT ![k] = 0]
      /\ UNCHANGED <<words, described, valid, sample, loc, site, turnedAway>>
  BY DEF Unlock, tables
<1>2. IInv'
  BY UnlockInv DEF HInv
<1>3. \A i \in Descs : UsedOf(i)' = UsedOf(i)
  BY <1>1 DEF UsedOf
<1>4. Nested' /\ IndexInv' /\ DescribedInv' /\ SiteInv' /\ UsedInv'
  BY <1>1, <1>3, KeeperMoves
<1>5. SampleInv'
  BY <1>1, SampleKept DEF HInv
<1>6. KeeperInv'
  <2>1. lastIdx' = lastIdx
    BY <1>1 DEF words
  <2>2. \A m \in Keepers : job'[m] = IF m = k THEN NoJob ELSE job[m]
    BY <1>1 DEF HInv, IInv, LocInv
  <2>3. at' \in [Keepers -> Nat] /\ \A m \in Keepers : at'[m] = IF m = k THEN 0 ELSE at[m]
    BY <1>1 DEF HInv, KeeperInv
  <2> QED
    BY <2>1, <2>2, <2>3 DEF HInv, KeeperInv
<1> QED
  BY <1>2, <1>4, <1>5, <1>6 DEF HInv

-------------------------------------------------------------------------------
LEMMA InitHidden == Init => HInv
<1> SUFFICES ASSUME Init PROVE HInv
  OBVIOUS
<1>1. IInv
  BY InitInv
<1>2. Nested
  BY DEF Init, Nested
<1>3. lastIdx = 0 /\ tls = [t \in Threads |-> 0] /\ described = {}
      /\ loc = [r \in Requests |-> "none"] /\ turnedAway = {}
      /\ testIdx = [t \in Threads |-> [s \in Sites |-> -1]] /\ site = [r \in Requests |-> NoSite]
  BY DEF Init
<1>4. IndexInv
  <2>1. {t \in Threads : tls[t] # 0} = {}
    BY <1>3
  <2>2. Cardinality({t \in Threads : tls[t] # 0}) = 0
    BY <2>1, FS_EmptySet
  <2>3. tls \in [Threads -> 0 .. lastIdx] /\ lastIdx \in Nat /\ 1 .. lastIdx = {}
    BY <1>3
  <2>4. \A t \in Threads : tls[t] = 0
    BY <1>3
  <2> QED
    BY <1>3, <2>2, <2>3, <2>4 DEF IndexInv
<1>5. DescribedInv
  BY <1>3 DEF DescribedInv
<1>6. \A t \in Threads : NextIndex(t) = 0
  <2>1. SUFFICES ASSUME NEW t \in Threads PROVE NextIndex(t) = 0
    OBVIOUS
  <2>2. {s \in Sites : testIdx[t][s] >= 0} = {}
    BY <1>3
  <2> QED
    BY <2>2, FS_EmptySet DEF NextIndex
<1>7. SiteInv
  <2>1. testIdx \in [Threads -> [Sites -> Samples \cup {-1}]] /\ site \in [Requests -> Sites \cup {NoSite}]
    BY <1>3
  <2>2. \A t \in Threads, s \in Sites : testIdx[t][s] = -1
    BY <1>3
  <2>3. \A t \in Threads, s \in Sites : testIdx[t][s] < NextIndex(t)
    BY <1>6, <2>2
  <2>4. \A r \in Requests : loc[r] = "none"
    BY <1>3
  <2> QED
    BY <1>3, <2>1, <2>3, <2>4 DEF SiteInv
<1>8. SampleInv
  <2>1. PICK f : f = [j \in Samples |-> NewSample]
    OBVIOUS
  <2>2. f \in [Samples -> SampleType] /\ {j \in Samples : f[j].used} = {}
    BY <2>1, FreshSamples
  <2>3. sample = [i \in Descs |-> f] /\ valid = [i \in Descs |-> 0]
    BY <2>1 DEF Init
  <2>4. \A i \in Descs : UsedOf(i) = {}
    BY <2>2, <2>3 DEF UsedOf
  <2>5. \A i \in Descs : Cardinality(UsedOf(i)) = 0
    BY <2>4, FS_EmptySet
  <2>6. valid \in [Descs -> Nat] /\ \A i \in Descs : valid[i] = 0
    BY <2>3
  <2>7. sample \in [Descs -> [Samples -> SampleType]]
    BY <2>2, <2>3
  <2> QED
    BY <2>5, <2>6, <2>7 DEF SampleInv
<1>9. UsedInv
  BY <1>3, <1>6 DEF UsedInv, NoneUsed
<1>10. KeeperInv
  BY DEF Init, KeeperInv
<1> QED
  BY <1>1, <1>2, <1>4, <1>5, <1>7, <1>8, <1>9, <1>10 DEF HInv

LEMMA StepHidden == HInv /\ [Next]_vars => HInv'
<1> SUFFICES ASSUME HInv, [Next]_vars PROVE HInv'
  OBVIOUS
<1>1. ASSUME NEW r \in Requests, RequestStep(r) PROVE HInv'
  BY <1>1, BeginKeeps, AllocIndexKeeps, DescribeKeeps, UseSampleKeeps, RecordKeeps, LeaveKeeps
     DEF RequestStep
<1>2. ASSUME NEW k \in Keepers, KeeperStep(k) PROVE HInv'
  BY <1>2, LockKeeps, VisitKeeps, UnlockKeeps DEF KeeperStep, Jobs
<1>3. CASE UNCHANGED vars
  <2>1. UNCHANGED <<words, tables, loc, site, job, at, histories>>
    BY <1>3 DEF vars
  <2>2. UNCHANGED <<described, valid, sample, turnedAway, lastIdx>>
    BY <2>1 DEF tables, histories, words
  <2>3. \A i \in Descs : UsedOf(i)' = UsedOf(i)
    BY <2>2 DEF UsedOf
  <2>4. IInv'
    BY StepInv DEF HInv
  <2>5. Nested' /\ IndexInv' /\ DescribedInv' /\ SiteInv' /\ UsedInv'
    BY <2>1, <2>2, <2>3, KeeperMoves
  <2>6. SampleInv'
    BY <2>2, SampleKept DEF HInv
  <2>7. KeeperInv'
    BY <2>1, <2>2, KeeperKept DEF HInv
  <2> QED
    BY <2>4, <2>5, <2>6, <2>7 DEF HInv
<1> QED
  BY <1>1, <1>2, <1>3 DEF Next

LEMMA HiddenTypes == HInv => TypeOK
<1> SUFFICES ASSUME HInv PROVE TypeOK
  OBVIOUS
<1>1. IInv /\ IndexInv /\ DescribedInv /\ SiteInv /\ SampleInv /\ KeeperInv
  BY DEF HInv
<1>2. lastIdx + 1 \in 0 .. ThreadNum /\ 1 .. lastIdx \subseteq Descs /\ lastIdx \in Nat /\ ThreadNum \in Nat
  BY <1>1, IndexBound DEF IndexInv
<1>3. lastIdx \in 0 .. ThreadNum /\ \A n \in 0 .. lastIdx : n \in 0 .. ThreadNum
  BY <1>2
<1>4. tls \in [Threads -> 0 .. ThreadNum]
  BY <1>1, <1>3 DEF IndexInv
<1>5. described \subseteq Descs
  BY <1>1, <1>2 DEF DescribedInv
<1>6. valid \in [Descs -> 0 .. Cardinality(Sites)]
  BY <1>1, ValidBound DEF SampleInv
<1>7. \A k \in Keepers : at[k] \in 0 .. ThreadNum
  BY <1>1, <1>2 DEF KeeperInv
<1>8. at \in [Keepers -> 0 .. ThreadNum]
  BY <1>1, <1>7 DEF KeeperInv
<1>9. state \in 0 .. 2 * RELEASE_FLAG - 1
  <2>1. RELEASE_FLAG \in Nat /\ Cardinality(Active) \in Nat /\ Cardinality(Active) < RELEASE_FLAG
    BY Counts, ProfilerAssumption
  <2>2. Cardinality(Holders) = 0 \/ Cardinality(Holders) = 1
    BY <1>1, FlagTells, NoHolder DEF IInv
  <2>3. state = Cardinality(Active) + RELEASE_FLAG * Cardinality(Holders)
    BY <1>1 DEF IInv, Exclusion
  <2>4. state = Cardinality(Active) \/ state = Cardinality(Active) + RELEASE_FLAG
    BY <2>1, <2>2, <2>3
  <2> QED
    BY <2>1, <2>4
<1> QED
  BY <1>1, <1>3, <1>4, <1>5, <1>6, <1>8, <1>9 DEF TypeOK, IInv, LocInv, SiteInv, Jobs

\* Whoever holds the flag finds a descriptor for every index given out.
LEMMA AllDescribed ==
  ASSUME HInv, Holders # {}
  PROVE  described = 1 .. lastIdx
<1>1. IInv /\ IndexInv /\ DescribedInv
  BY DEF HInv
<1>2. \A r \in Requests : loc[r] # "describe"
  BY <1>1 DEF IInv, Exclusion, Measuring
<1>3. ASSUME NEW i \in 1 .. lastIdx PROVE i \in described
  <2>1. PICK t \in Threads : tls[t] = i
    BY <1>1 DEF IndexInv
  <2>2. i # 0
    BY <1>1 DEF IndexInv
  <2> QED
    BY <1>1, <1>2, <2>1, <2>2 DEF DescribedInv
<1> QED
  BY <1>1, <1>3 DEF DescribedInv

\* A Reset and an output miss nothing: while one holds the flag every index given
\* out has its descriptor, and valid counts the first samples, the used ones.
THEOREM NothingHiddenAlways == Spec => []NothingHidden
<1>1. Init => HInv
  BY InitHidden
<1>2. HInv /\ [Next]_vars => HInv'
  BY StepHidden
<1>3. HInv => NothingHidden
  <2>1. SUFFICES ASSUME HInv PROVE NothingHidden
    OBVIOUS
  <2>2. IInv /\ IndexInv /\ DescribedInv /\ UsedInv
    BY <2>1 DEF HInv
  <2>3. Holders # {} => described = 1 .. lastIdx
    BY <2>1, AllDescribed
  <2>4. ASSUME NEW t \in Threads \ turnedAway, tls[t] \in described
        PROVE  {j \in Samples : sample[tls[t]][j].used} = 0 .. valid[tls[t]] - 1
    BY <2>2, <2>4 DEF UsedInv, FirstUsed, UsedOf
  <2> QED
    BY <2>1, <2>3, <2>4, HiddenTypes DEF NothingHidden
<1> QED
  BY <1>1, <1>2, <1>3, PTL DEF Spec
-------------------------------------------------------------------------------
\* The total of a sample is a fold over the set of times: what MapThenSumSet
\* unfolds to, and how one measurement changes it.
Chosen(T) == CHOOSE x \in T : TRUE

Sums(h, g, S) ==
    h = [T \in SUBSET S |-> IF T = {} THEN 0 ELSE g[Chosen(T)] + h[T \ {Chosen(T)}]]

Total(c, S) == MapThenSumSet(LAMBDA e : e * c[e], S)

LEMMA ChosenIn ==
  ASSUME NEW T, T # {}
  PROVE  Chosen(T) \in T
BY DEF Chosen

LEMMA SubsetInduction ==
  ASSUME NEW S, IsFiniteSet(S), NEW P \in SUBSET (SUBSET S),
         \A T \in SUBSET S : (\A U \in SUBSET T : U # T => U \in P) => T \in P
  PROVE  P = SUBSET S
<1> DEFINE Bad == (SUBSET S) \ P
<1>1. SUFFICES ASSUME Bad # {} PROVE FALSE
  OBVIOUS
<1>2. IsWellFoundedOn(StrictSubsetOrdering(S), FiniteSubsetsOf(S))
  BY FS_StrictSubsetOrderingWellFounded
<1>3. FiniteSubsetsOf(S) = SUBSET S
  BY FS_FiniteSubsetsOfFinite
<1>4. IsWellFoundedOn(StrictSubsetOrdering(S), SUBSET S) /\ Bad \subseteq SUBSET S
  BY <1>2, <1>3
<1>5. PICK T \in Bad : \A U \in Bad : ~ (<<U, T>> \in StrictSubsetOrdering(S))
  <2> HIDE DEF Bad
  <2> QED
    BY <1>1, <1>4, WFMin
<1>6. ASSUME NEW U \in SUBSET T, U # T PROVE U \in P
  <2>1. U \in SUBSET S /\ T \in SUBSET S
    OBVIOUS
  <2>2. <<U, T>> \in StrictSubsetOrdering(S)
    BY <1>6, <2>1 DEF StrictSubsetOrdering
  <2> QED
    BY <1>5, <2>1, <2>2
<1> QED
  BY <1>6

\* The terms of f and g differ at e, by d; their sums differ by it, too.
OffBy(f, g, S, e, d) ==
    d \in Int /\ \A x \in S : g[x] \in Int /\ f[x] = IF x = e THEN g[x] + d ELSE g[x]

LEMMA SumsDiffer ==
  ASSUME NEW A, NEW B, NEW S, S \subseteq A, S \subseteq B, IsFiniteSet(S),
         NEW g, NEW f, NEW e, NEW d, OffBy(f, g, S, e, d),
         NEW h, NEW k, Sums(h, g, A), Sums(k, f, B)
  PROVE  h[S] \in Int /\ k[S] = IF e \in S THEN h[S] + d ELSE h[S]
<1> DEFINE P == {T \in SUBSET S : h[T] \in Int /\ k[T] = IF e \in T THEN h[T] + d ELSE h[T]}
<1>1. /\ d \in Int
      /\ \A x \in S : g[x] \in Int /\ f[x] = IF x = e THEN g[x] + d ELSE g[x]
  BY DEF OffBy
<1>2. ASSUME NEW T \in SUBSET S, \A U \in SUBSET T : U # T => U \in P
      PROVE  T \in P
  <2>1. T \in SUBSET A /\ T \in SUBSET B
    OBVIOUS
  <2>2. CASE T = {}
    <3>1. h[T] = 0 /\ k[T] = 0
      BY <2>1, <2>2 DEF Sums
    <3> QED
      BY <2>2, <3>1
  <2>3. CASE T # {}
    <3>1. PICK x \in T : x = Chosen(T)
      BY <2>3, ChosenIn
    <3>2. h[T] = g[x] + h[T \ {x}] /\ k[T] = f[x] + k[T \ {x}]
      BY <2>1, <2>3, <3>1 DEF Sums
    <3>3. T \ {x} \in P
      BY <1>2, <3>1
    <3>4. /\ h[T \ {x}] \in Int
          /\ k[T \ {x}] = IF e \in T \ {x} THEN h[T \ {x}] + d ELSE h[T \ {x}]
      BY <3>3
    <3>5. d \in Int /\ g[x] \in Int /\ f[x] = IF x = e THEN g[x] + d ELSE g[x]
      BY <1>1, <3>1
    <3>6. h[T] \in Int
      BY <3>2, <3>4, <3>5
    <3>7. k[T] = IF e \in T THEN h[T] + d ELSE h[T]
      <4>1. CASE x = e
        BY <3>1, <3>2, <3>4, <3>5, <4>1
      <4>2. CASE x # e /\ e \in T
        BY <3>1, <3>2, <3>4, <3>5, <4>2
      <4>3. CASE e \notin T
        BY <3>1, <3>2, <3>4, <3>5, <4>3
      <4> QED
        BY <4>1, <4>2, <4>3
    <3> QED
      BY <3>6, <3>7
  <2> QED
    BY <2>2, <2>3
<1>3. P \in SUBSET (SUBSET S)
  OBVIOUS
<1>4. P = SUBSET S
  <2> HIDE DEF P
  <2> QED
    BY <1>2, <1>3, SubsetInduction
<1>5. S \in P
  BY <1>4
<1> QED
  BY <1>5

LEMMA SumsExist ==
  ASSUME NEW S, IsFiniteSet(S), NEW g, \A x \in S : g[x] \in Int
  PROVE  \E h : Sums(h, g, S)
<1> DEFINE P == {T \in SUBSET S : \E h : Sums(h, g, T)}
           sum(T) == (CHOOSE h : Sums(h, g, T))[T]
\* Where there are sums, sum obeys their equation.
<1>1. ASSUME NEW T \in P, T # {}, T \ {Chosen(T)} \in P
      PROVE  sum(T) = g[Chosen(T)] + sum(T \ {Chosen(T)})
  <2>1. PICK x \in T : x = Chosen(T)
    BY <1>1, ChosenIn
  <2>2. PICK h : h = CHOOSE k : Sums(k, g, T)
    OBVIOUS
  <2>3. Sums(h, g, T)
    BY <2>2
  <2>4. sum(T) = g[x] + h[T \ {x}]
    BY <1>1, <2>1, <2>2, <2>3 DEF Sums
  <2>5. PICK k : k = CHOOSE l : Sums(l, g, T \ {x})
    OBVIOUS
  <2>6. Sums(k, g, T \ {x})
    BY <1>1, <2>1, <2>5
  <2>7. PICK V : V = T \ {x}
    OBVIOUS
  <2>8. IsFiniteSet(V) /\ V \subseteq T /\ V \subseteq V /\ (\A y \in V : g[y] \in Int)
    BY <2>7, FS_Subset
  <2>9. OffBy(g, g, V, x, 0)
    BY <2>8 DEF OffBy
  <2>10. Sums(k, g, V)
    BY <2>6, <2>7
  <2>11. k[V] = IF x \in V THEN h[V] + 0 ELSE h[V]
    <3> HIDE DEF P
    <3> QED
      BY <2>3, <2>8, <2>9, <2>10, SumsDiffer
  <2>12. k[V] = h[V]
    BY <2>7, <2>11
  <2> QED
    BY <2>1, <2>4, <2>5, <2>7, <2>12
<1>2. ASSUME NEW T \in SUBSET S, \A U \in SUBSET T : U # T => U \in P
      PROVE  T \in P
  <2>1. PICK h : h = [U \in SUBSET T |-> IF U = {} THEN 0
                                         ELSE g[Chosen(U)] + sum(U \ {Chosen(U)})]
    OBVIOUS
  <2>2. {} \in P => sum({}) = 0
    <3>1. SUFFICES ASSUME {} \in P PROVE sum({}) = 0
      OBVIOUS
    <3>2. PICK k : k = CHOOSE l : Sums(l, g, {})
      OBVIOUS
    <3>3. \E l : Sums(l, g, {})
      BY <3>1
    <3>4. Sums(k, g, {})
      BY <3>2, <3>3
    <3>5. k[{}] = 0
      BY <3>4 DEF Sums
    <3> QED
      BY <3>2, <3>5
  <2>3. ASSUME NEW U \in SUBSET T, U # {}
        PROVE  h[U] = g[Chosen(U)] + h[U \ {Chosen(U)}]
    <3>1. PICK x \in U : x = Chosen(U)
      BY <2>3, ChosenIn
    <3>2. PICK V : V = U \ {x}
      OBVIOUS
    <3>3. V \in SUBSET T /\ V # T
      BY <3>1, <3>2
    <3>6. V \in P
      BY <1>2, <3>3
    <3>4. h[U] = g[x] + sum(V)
      BY <2>1, <2>3, <3>1, <3>2
    <3>5. h[V] = sum(V)
      <4>1. CASE V = {}
        <5>1. h[V] = 0
          BY <2>1, <3>3, <4>1
        <5>2. sum({}) = 0
          BY <2>2, <3>6, <4>1
        <5> QED
          BY <4>1, <5>1, <5>2
      <4>2. CASE V # {}
        <5>1. PICK y \in V : y = Chosen(V)
          BY <4>2, ChosenIn
        <5>2. PICK W : W = V \ {y}
          OBVIOUS
        <5>3. W \in SUBSET T /\ W # T
          BY <3>3, <5>1, <5>2
        <5>4. W \in P
          BY <1>2, <5>3
        <5>5. sum(V) = g[y] + sum(W)
          BY <1>1, <3>6, <4>2, <5>1, <5>2, <5>4
        <5>6. h[V] = g[y] + sum(W)
          BY <2>1, <3>3, <4>2, <5>1, <5>2
        <5> QED
          BY <5>5, <5>6
      <4> QED
        BY <4>1, <4>2
    <3> QED
      BY <3>1, <3>2, <3>4, <3>5
  <2>4. h[{}] = 0
    BY <2>1
  <2>5. h = [U \in SUBSET T |-> h[U]]
    BY <2>1
  <2>6. \A U \in SUBSET T : h[U] = IF U = {} THEN 0 ELSE g[Chosen(U)] + h[U \ {Chosen(U)}]
    BY <2>3, <2>4
  <2>7. Sums(h, g, T)
    BY <2>5, <2>6 DEF Sums
  <2> QED
    BY <2>7
<1>3. P \in SUBSET (SUBSET S)
  OBVIOUS
<1>4. P = SUBSET S
  <2> HIDE DEF P
  <2> QED
    BY <1>2, <1>3, SubsetInduction
<1>5. S \in P
  BY <1>4
<1> QED
  BY <1>5

LEMMA TotalSums ==
  ASSUME NEW S, IsFiniteSet(S), S \subseteq Nat, NEW c, \A e \in S : c[e] \in Nat
  PROVE  \E h : Sums(h, [e \in S |-> e * c[e]], S) /\ Total(c, S) = h[S]
<1> DEFINE Eqn(h) == h = [T \in SUBSET S |-> IF T = {} THEN 0
                            ELSE Chosen(T) * c[Chosen(T)] + h[T \ {Chosen(T)}]]
<1>1. PICK m : m = CHOOSE h : Eqn(h)
  OBVIOUS
<1>2. Total(c, S) = m[S]
  BY <1>1 DEF Total, MapThenSumSet, MapThenFoldSet, Chosen
<1>3. PICK g : g = [e \in S |-> e * c[e]]
  OBVIOUS
<1>4. \A e \in S : g[e] \in Int /\ g[e] = e * c[e]
  BY <1>3
<1>5. PICK h : Sums(h, g, S)
  BY <1>4, SumsExist
<1>6. \A T \in SUBSET S : T # {} => g[Chosen(T)] = Chosen(T) * c[Chosen(T)]
  BY <1>4, ChosenIn
<1>7. \A k : Sums(k, g, S) <=> Eqn(k)
  <2>1. SUFFICES ASSUME NEW k PROVE Sums(k, g, S) <=> Eqn(k)
    OBVIOUS
  <2>2. \A T \in SUBSET S :
          (IF T = {} THEN 0 ELSE g[Chosen(T)] + k[T \ {Chosen(T)}])
          = (IF T = {} THEN 0 ELSE Chosen(T) * c[Chosen(T)] + k[T \ {Chosen(T)}])
    BY <1>6
  <2>3. [T \in SUBSET S |-> IF T = {} THEN 0 ELSE g[Chosen(T)] + k[T \ {Chosen(T)}]]
        = [T \in SUBSET S |-> IF T = {} THEN 0 ELSE Chosen(T) * c[Chosen(T)] + k[T \ {Chosen(T)}]]
    BY <2>2
  <2> QED
    BY <2>3 DEF Sums
<1>8. \E k : Eqn(k)
  BY <1>5, <1>7
<1>9. Eqn(m)
  <2> HIDE DEF Eqn
  <2> QED
    BY <1>1, <1>8
<1>10. Sums(m, g, S)
  BY <1>7, <1>9
<1> QED
  BY <1>2, <1>3, <1>10

LEMMA SumOfZeros ==
  ASSUME NEW S, IsFiniteSet(S), NEW g, \A x \in S : g[x] = 0, NEW h, Sums(h, g, S)
  PROVE  h[S] = 0
<1> DEFINE P == {T \in SUBSET S : h[T] = 0}
<1>1. ASSUME NEW T \in SUBSET S, \A U \in SUBSET T : U # T => U \in P
      PROVE  T \in P
  <2>1. CASE T = {}
    <3>1. h[T] = 0
      BY <2>1 DEF Sums
    <3> QED
      BY <3>1
  <2>2. CASE T # {}
    <3>1. PICK x \in T : x = Chosen(T)
      BY <2>2, ChosenIn
    <3>2. h[T] = g[x] + h[T \ {x}]
      BY <2>2, <3>1 DEF Sums
    <3>3. T \ {x} \in P
      BY <1>1, <3>1
    <3>4. h[T] = 0
      BY <3>1, <3>2, <3>3
    <3> QED
      BY <3>4
  <2> QED
    BY <2>1, <2>2
<1>2. P \in SUBSET (SUBSET S)
  OBVIOUS
<1>3. P = SUBSET S
  <2> HIDE DEF P
  <2> QED
    BY <1>1, <1>2, SubsetInduction
<1>4. S \in P
  BY <1>3
<1> QED
  BY <1>4

-------------------------------------------------------------------------------
\* Counting the measurements of one thread in one statement.
Counted == [Elapsed -> 0 .. MaxCalls]
UpTo(x) == {y \in Elapsed : y <= x}
From(x) == {y \in Elapsed : y >= x}

LEMMA Times ==
  /\ \A e \in Elapsed : e \in Nat /\ 0 < e /\ e < UINT_MAX
  /\ UINT_MAX \in Nat /\ MaxCalls \in Nat
BY ProfilerAssumption

LEMMA FiniteTimes == IsFiniteSet(Elapsed) /\ IsFiniteSet(1 .. MaxCalls)
<1>1. UINT_MAX - 1 \in Int /\ MaxCalls \in Int /\ Elapsed \in SUBSET (1 .. UINT_MAX - 1)
  BY ProfilerAssumption
<1>2. IsFiniteSet(1 .. UINT_MAX - 1)
  BY <1>1, FS_Interval
<1>3. IsFiniteSet(1 .. MaxCalls)
  BY <1>1, FS_Interval
<1>4. IsFiniteSet(Elapsed)
  BY <1>1, <1>2, FS_Subset
<1> QED
  BY <1>3, <1>4

LEMMA CallsFinite ==
  ASSUME NEW c, NEW S \in SUBSET Elapsed
  PROVE  /\ IsFiniteSet({x \in S \X (1 .. MaxCalls) : x[2] <= c[x[1]]})
         /\ Calls(c, S) \in Nat
<1>1. IsFiniteSet(S)
  BY FiniteTimes, FS_Subset
<1>2. IsFiniteSet(S \X (1 .. MaxCalls))
  BY <1>1, FiniteTimes, FS_Product
<1>3. {x \in S \X (1 .. MaxCalls) : x[2] <= c[x[1]]} \in SUBSET (S \X (1 .. MaxCalls))
  OBVIOUS
<1>4. IsFiniteSet({x \in S \X (1 .. MaxCalls) : x[2] <= c[x[1]]})
  BY <1>2, <1>3, FS_Subset
<1> QED
  BY <1>4, FS_CardinalityType DEF Calls

LEMMA CallsOfNone ==
  ASSUME NEW S \in SUBSET Elapsed
  PROVE  Calls(NothingMeasured, S) = 0
<1>1. {x \in S \X (1 .. MaxCalls) : x[2] <= NothingMeasured[x[1]]} = {}
  BY Times DEF NothingMeasured
<1> QED
  BY <1>1, FS_EmptySet DEF Calls

LEMMA CallsOfMore ==
  ASSUME NEW c, NEW S \in SUBSET Elapsed, NEW T \in SUBSET S
  PROVE  Calls(c, T) <= Calls(c, S)
<1>1. {x \in T \X (1 .. MaxCalls) : x[2] <= c[x[1]]}
      \in SUBSET {x \in S \X (1 .. MaxCalls) : x[2] <= c[x[1]]}
  OBVIOUS
<1> QED
  BY <1>1, CallsFinite, FS_Subset DEF Calls

\* d counts what c counts and one measurement more, of time e.
OneMore(d, c, e) ==
    c \in Counted /\ e \in Elapsed /\ c[e] < MaxCalls /\ d = [c EXCEPT ![e] = @ + 1]

LEMMA CallsOneMore ==
  ASSUME NEW d, NEW c, NEW e, OneMore(d, c, e), NEW S \in SUBSET Elapsed
  PROVE  Calls(d, S) = IF e \in S THEN Calls(c, S) + 1 ELSE Calls(c, S)
<1> DEFINE C == {x \in S \X (1 .. MaxCalls) : x[2] <= c[x[1]]}
           D == {x \in S \X (1 .. MaxCalls) : x[2] <= d[x[1]]}
<1>1. c[e] \in Nat /\ c[e] + 1 \in 1 .. MaxCalls
      /\ \A x \in Elapsed : d[x] = IF x = e THEN c[e] + 1 ELSE c[x]
  BY Times DEF Counted, OneMore
<1>2. \A x \in Elapsed : c[x] \in Nat
  BY DEF Counted, OneMore
<1>3. ASSUME e \in S PROVE D = C \cup {<<e, c[e] + 1>>} /\ <<e, c[e] + 1>> \notin C
  <2>1. <<e, c[e] + 1>> \notin C
    BY <1>1
  <2>2. <<e, c[e] + 1>> \in D
    BY <1>1, <1>3
  <2>3. ASSUME NEW x \in C PROVE x \in D
    <3>1. x[1] \in Elapsed /\ x[2] \in Nat /\ x[2] <= c[x[1]]
      BY Times
    <3>2. x[2] <= d[x[1]]
      BY <1>1, <3>1
    <3> QED
      BY <3>2
  <2>4. ASSUME NEW x \in D, x \notin C PROVE x = <<e, c[e] + 1>>
    <3>1. x[1] \in Elapsed /\ x[2] \in 1 .. MaxCalls /\ x = <<x[1], x[2]>> /\ x[2] <= d[x[1]]
      BY <2>4
    <3>2. ~ (x[2] <= c[x[1]])
      BY <2>4
    <3>3. x[1] = e /\ x[2] = c[e] + 1
      BY <1>1, <1>2, <3>1, <3>2, Times
    <3> QED
      BY <3>1, <3>3
  <2> QED
    BY <2>1, <2>2, <2>3, <2>4
<1>4. ASSUME e \notin S PROVE D = C
  <2>1. \A x \in S : d[x] = c[x]
    BY <1>1, <1>4
  <2> QED
    BY <2>1
<1>5. IsFiniteSet(C)
  BY CallsFinite
<1>6. Calls(c, S) = Cardinality(C) /\ Calls(d, S) = Cardinality(D)
  BY DEF Calls
<1> HIDE DEF C, D
<1>7. e \in S => Cardinality(D) = Cardinality(C) + 1
  BY <1>3, <1>5, FS_AddElement
<1> QED
  BY <1>4, <1>6, <1>7

-------------------------------------------------------------------------------
\* The k-th least time in c, by what it is compared with, and the k-th greatest.
Least(c, k, m) ==
    /\ m \in Elapsed \cup {UINT_MAX}
    /\ \A x \in Elapsed : Calls(c, UpTo(x)) >= k <=> m <= x
Greatest(c, k, m) ==
    /\ m \in Elapsed \cup {0}
    /\ \A x \in Elapsed : Calls(c, From(x)) >= k <=> x <= m

LEMMA LeastNumber ==
  ASSUME NEW S \in SUBSET Nat, S # {}
  PROVE  Min(S) \in S /\ \A x \in S : Min(S) <= x
<1>1. PICK R : R = OpToRel(<, Nat)
  OBVIOUS
<1>2. IsWellFoundedOn(R, Nat)
  BY <1>1, NatLessThanWellFounded
<1>3. PICK m \in S : \A x \in S : ~ (<<x, m>> \in R)
  BY <1>2, WFMin
<1>4. \A x, y \in Nat : x < y => <<x, y>> \in R
  BY <1>1 DEF OpToRel
<1>5. ASSUME NEW x \in S PROVE m <= x
  <2>1. x \in Nat /\ m \in Nat /\ ~ (x < m)
    BY <1>3, <1>4
  <2> QED
    BY <2>1
<1> QED
  BY <1>5 DEF Min

LEMMA GreatestNumber ==
  ASSUME NEW n \in Nat, NEW S \in SUBSET (0 .. n), S # {}
  PROVE  Max(S) \in S /\ \A x \in S : Max(S) >= x
<1> DEFINE T == {n - x : x \in S}
<1>1. T \in SUBSET Nat /\ T # {}
  <2>1. \A x \in S : n - x \in Nat
    OBVIOUS
  <2>2. PICK x \in S : TRUE
    OBVIOUS
  <2>3. n - x \in T
    OBVIOUS
  <2> QED
    BY <2>1, <2>3
<1>2. PICK t \in T : \A y \in T : t <= y
  <2> HIDE DEF T
  <2> QED
    BY <1>1, LeastNumber
<1>3. PICK m \in S : t = n - m
  BY <1>2
<1>4. \A x \in S : m >= x
  BY <1>2, <1>3
<1> QED
  BY <1>4 DEF Max

LEMMA LeastExists ==
  ASSUME NEW c, NEW k \in Nat
  PROVE  Least(c, k, KthLeast(c, k))
<1> DEFINE S == {e \in Elapsed : Calls(c, UpTo(e)) >= k}
<1>1. KthLeast(c, k) = IF S = {} THEN UINT_MAX ELSE Min(S)
  BY DEF KthLeast, UpTo
<1>2. \A x \in Elapsed : UpTo(x) \in SUBSET Elapsed
  BY DEF UpTo
<1>3. \A x \in Elapsed : Calls(c, UpTo(x)) \in Nat
  BY <1>2, CallsFinite
<1>4. \A x, y \in Elapsed : x <= y => UpTo(x) \in SUBSET UpTo(y)
  BY Times DEF UpTo
<1>5. \A x, y \in Elapsed : x <= y => Calls(c, UpTo(x)) <= Calls(c, UpTo(y))
  BY <1>2, <1>4, CallsOfMore
<1>6. CASE S = {}
  <2>1. \A x \in Elapsed : ~ (Calls(c, UpTo(x)) >= k) /\ ~ (UINT_MAX <= x)
    BY <1>6, Times
  <2> QED
    BY <1>1, <1>6, <2>1 DEF Least
<1>7. CASE S # {}
  <2>1. S \in SUBSET Nat
    BY Times
  <2>2. PICK m \in S : m = Min(S) /\ \A x \in S : m <= x
    <3> HIDE DEF S
    <3> QED
      BY <1>7, <2>1, LeastNumber
  <2>3. \A x \in Elapsed : Calls(c, UpTo(x)) >= k <=> m <= x
    BY <1>3, <1>5, <2>2
  <2> QED
    BY <1>1, <1>7, <2>2, <2>3 DEF Least
<1> QED
  BY <1>6, <1>7

LEMMA LeastUnique ==
  ASSUME NEW c, NEW k \in Nat, NEW m, Least(c, k, m)
  PROVE  KthLeast(c, k) = m
<1>1. PICK n : n = KthLeast(c, k)
  OBVIOUS
<1>2. Least(c, k, n)
  BY <1>1, LeastExists
<1>3. m \in Nat /\ n \in Nat /\ (m \in Elapsed \/ m = UINT_MAX) /\ (n \in Elapsed \/ n = UINT_MAX)
  BY <1>2, Times DEF Least
<1>4. m \in Elapsed => n <= m
  BY <1>2, <1>3 DEF Least
<1>5. n \in Elapsed => m <= n
  BY <1>2, <1>3 DEF Least
<1>6. m = n
  BY <1>3, <1>4, <1>5, Times
<1> QED
  BY <1>1, <1>6

LEMMA GreatestExists ==
  ASSUME NEW c, NEW k \in Nat
  PROVE  Greatest(c, k, KthGreatest(c, k))
<1> DEFINE S == {e \in Elapsed : Calls(c, From(e)) >= k}
<1>1. KthGreatest(c, k) = IF S = {} THEN 0 ELSE Max(S)
  BY DEF KthGreatest, From
<1>2. \A x \in Elapsed : From(x) \in SUBSET Elapsed
  BY DEF From
<1>3. \A x \in Elapsed : Calls(c, From(x)) \in Nat
  BY <1>2, CallsFinite
<1>4. \A x, y \in Elapsed : x <= y => From(y) \in SUBSET From(x)
  BY Times DEF From
<1>5. \A x, y \in Elapsed : x <= y => Calls(c, From(y)) <= Calls(c, From(x))
  BY <1>2, <1>4, CallsOfMore
<1>6. CASE S = {}
  <2>1. \A x \in Elapsed : ~ (Calls(c, From(x)) >= k) /\ ~ (x <= 0)
    BY <1>6, Times
  <2> QED
    BY <1>1, <1>6, <2>1 DEF Greatest
<1>7. CASE S # {}
  <2>1. S \in SUBSET (0 .. UINT_MAX) /\ UINT_MAX \in Nat
    BY Times
  <2>2. PICK m \in S : m = Max(S) /\ \A x \in S : m >= x
    <3> HIDE DEF S
    <3> QED
      BY <1>7, <2>1, GreatestNumber
  <2>3. \A x \in Elapsed : Calls(c, From(x)) >= k <=> x <= m
    BY <1>3, <1>5, <2>2, Times
  <2> QED
    BY <1>1, <1>7, <2>2, <2>3 DEF Greatest
<1> QED
  BY <1>6, <1>7

LEMMA GreatestUnique ==
  ASSUME NEW c, NEW k \in Nat, NEW m, Greatest(c, k, m)
  PROVE  KthGreatest(c, k) = m
<1>1. PICK n : n = KthGreatest(c, k)
  OBVIOUS
<1>2. Greatest(c, k, n)
  BY <1>1, GreatestExists
<1>3. m \in Nat /\ n \in Nat /\ (m \in Elapsed \/ m = 0) /\ (n \in Elapsed \/ n = 0)
  BY <1>2, Times DEF Greatest
<1>4. m \in Elapsed => m <= n
  BY <1>2, <1>3 DEF Greatest
<1>5. n \in Elapsed => n <= m
  BY <1>2, <1>3 DEF Greatest
<1>6. m = n
  BY <1>3, <1>4, <1>5, Times
<1> QED
  BY <1>1, <1>6

\* One more measurement, of time e, compared with the two least times before.
LEMMA LeastStep ==
  ASSUME NEW d, NEW c, NEW e, OneMore(d, c, e),
         NEW m, NEW n, m = KthLeast(c, 1), n = KthLeast(c, 2)
  PROVE  /\ m \in Elapsed \cup {UINT_MAX} /\ n \in Elapsed \cup {UINT_MAX} /\ m <= n
         /\ e < m => KthLeast(d, 1) = e /\ KthLeast(d, 2) = m
         /\ m <= e /\ e < n => KthLeast(d, 1) = m /\ KthLeast(d, 2) = e
         /\ m <= e /\ n <= e => KthLeast(d, 1) = m /\ KthLeast(d, 2) = n
<1>1. Least(c, 1, m) /\ Least(c, 2, n)
  BY LeastExists
<1>2. m \in Elapsed \cup {UINT_MAX} /\ n \in Elapsed \cup {UINT_MAX} /\ m \in Nat /\ n \in Nat
  BY <1>1, Times DEF Least
<1>3. \A x \in Elapsed : (Calls(c, UpTo(x)) >= 1 <=> m <= x) /\ (Calls(c, UpTo(x)) >= 2 <=> n <= x)
  BY <1>1 DEF Least
<1>4. \A x \in Elapsed : UpTo(x) \in SUBSET Elapsed /\ (e \in UpTo(x) <=> e <= x)
  BY DEF UpTo, OneMore
<1>5. \A x \in Elapsed : Calls(c, UpTo(x)) \in Nat
  BY <1>4, CallsFinite
<1>6. ASSUME NEW x \in Elapsed
      PROVE  Calls(d, UpTo(x)) = IF e <= x THEN Calls(c, UpTo(x)) + 1 ELSE Calls(c, UpTo(x))
  <2>1. PICK S \in SUBSET Elapsed : S = UpTo(x) /\ (e \in S <=> e <= x)
    BY <1>4
  <2>2. Calls(d, S) = IF e \in S THEN Calls(c, S) + 1 ELSE Calls(c, S)
    BY CallsOneMore
  <2> QED
    BY <2>1, <2>2
<1>7. m <= n
  <2>1. CASE n \in Elapsed
    BY <1>2, <1>3, <1>5, <2>1
  <2>2. CASE n = UINT_MAX
    BY <1>2, <2>2, Times
  <2> QED
    BY <1>2, <2>1, <2>2
<1>8. e \in Elapsed /\ e \in Nat /\ e < UINT_MAX /\ \A x \in Elapsed : x \in Nat
  BY Times DEF OneMore
<1>9. ASSUME NEW x \in Elapsed
      PROVE  /\ Calls(d, UpTo(x)) >= 1 <=> (m <= x \/ e <= x)
             /\ Calls(d, UpTo(x)) >= 2 <=> (n <= x \/ (m <= x /\ e <= x))
  <2>1. PICK p \in Nat : p = Calls(c, UpTo(x))
    BY <1>5
  <2>2. (p >= 1 <=> m <= x) /\ (p >= 2 <=> n <= x)
    BY <1>3, <2>1
  <2>3. PICK q : q = Calls(d, UpTo(x))
    OBVIOUS
  <2>4. q = IF e <= x THEN p + 1 ELSE p
    BY <1>6, <2>1, <2>3
  <2>5. (q >= 1 <=> (m <= x \/ e <= x)) /\ (q >= 2 <=> (n <= x \/ (m <= x /\ e <= x)))
    BY <2>2, <2>4
  <2> QED
    BY <2>3, <2>5
<1>10. ASSUME e < m PROVE Least(d, 1, e) /\ Least(d, 2, m)
  <2>1. ASSUME NEW x \in Elapsed
        PROVE  (Calls(d, UpTo(x)) >= 1 <=> e <= x) /\ (Calls(d, UpTo(x)) >= 2 <=> m <= x)
    <3>1. x \in Nat /\ m \in Nat /\ n \in Nat /\ e \in Nat
      BY <1>2, <1>8
    <3>2. /\ Calls(d, UpTo(x)) >= 1 <=> (m <= x \/ e <= x)
          /\ Calls(d, UpTo(x)) >= 2 <=> (n <= x \/ (m <= x /\ e <= x))
      BY <1>9
    <3> QED
      BY <1>7, <1>10, <3>1, <3>2
  <2> QED
    BY <1>2, <1>8, <2>1 DEF Least
<1>11. ASSUME m <= e /\ e < n PROVE Least(d, 1, m) /\ Least(d, 2, e)
  <2>1. ASSUME NEW x \in Elapsed
        PROVE  (Calls(d, UpTo(x)) >= 1 <=> m <= x) /\ (Calls(d, UpTo(x)) >= 2 <=> e <= x)
    <3>1. x \in Nat /\ m \in Nat /\ n \in Nat /\ e \in Nat
      BY <1>2, <1>8
    <3>2. /\ Calls(d, UpTo(x)) >= 1 <=> (m <= x \/ e <= x)
          /\ Calls(d, UpTo(x)) >= 2 <=> (n <= x \/ (m <= x /\ e <= x))
      BY <1>9
    <3> QED
      BY <1>7, <1>11, <3>1, <3>2
  <2> QED
    BY <1>2, <1>8, <2>1 DEF Least
<1>12. ASSUME m <= e /\ n <= e PROVE Least(d, 1, m) /\ Least(d, 2, n)
  <2>1. ASSUME NEW x \in Elapsed
        PROVE  (Calls(d, UpTo(x)) >= 1 <=> m <= x) /\ (Calls(d, UpTo(x)) >= 2 <=> n <= x)
    <3>1. x \in Nat /\ m \in Nat /\ n \in Nat /\ e \in Nat
      BY <1>2, <1>8
    <3>2. /\ Calls(d, UpTo(x)) >= 1 <=> (m <= x \/ e <= x)
          /\ Calls(d, UpTo(x)) >= 2 <=> (n <= x \/ (m <= x /\ e <= x))
      BY <1>9
    <3> QED
      BY <1>7, <1>12, <3>1, <3>2
  <2> QED
    BY <1>2, <1>8, <2>1 DEF Least
<1>13. \A x : (Least(d, 1, x) => KthLeast(d, 1) = x) /\ (Least(d, 2, x) => KthLeast(d, 2) = x)
  BY LeastUnique
<1> QED
  BY <1>2, <1>7, <1>10, <1>11, <1>12, <1>13

LEMMA GreatestStep ==
  ASSUME NEW d, NEW c, NEW e, OneMore(d, c, e),
         NEW m, NEW n, m = KthGreatest(c, 1), n = KthGreatest(c, 2)
  PROVE  /\ m \in Elapsed \cup {0} /\ n \in Elapsed \cup {0} /\ n <= m
         /\ e > m => KthGreatest(d, 1) = e /\ KthGreatest(d, 2) = m
         /\ e <= m /\ e > n => KthGreatest(d, 1) = m /\ KthGreatest(d, 2) = e
         /\ e <= m /\ e <= n => KthGreatest(d, 1) = m /\ KthGreatest(d, 2) = n
<1>1. Greatest(c, 1, m) /\ Greatest(c, 2, n)
  BY GreatestExists
<1>2. m \in Elapsed \cup {0} /\ n \in Elapsed \cup {0} /\ m \in Nat /\ n \in Nat
  BY <1>1, Times DEF Greatest
<1>3. \A x \in Elapsed : (Calls(c, From(x)) >= 1 <=> x <= m) /\ (Calls(c, From(x)) >= 2 <=> x <= n)
  BY <1>1 DEF Greatest
<1>4. \A x \in Elapsed : From(x) \in SUBSET Elapsed /\ (e \in From(x) <=> x <= e)
  BY Times DEF From, OneMore
<1>5. \A x \in Elapsed : Calls(c, From(x)) \in Nat
  BY <1>4, CallsFinite
<1>6. ASSUME NEW x \in Elapsed
      PROVE  Calls(d, From(x)) = IF x <= e THEN Calls(c, From(x)) + 1 ELSE Calls(c, From(x))
  <2>1. PICK S \in SUBSET Elapsed : S = From(x) /\ (e \in S <=> x <= e)
    BY <1>4
  <2>2. Calls(d, S) = IF e \in S THEN Calls(c, S) + 1 ELSE Calls(c, S)
    BY CallsOneMore
  <2> QED
    BY <2>1, <2>2
<1>7. n <= m
  <2>1. CASE n \in Elapsed
    BY <1>2, <1>3, <1>5, <2>1
  <2>2. CASE n = 0
    BY <1>2, <2>2, Times
  <2> QED
    BY <1>2, <2>1, <2>2
<1>8. e \in Elapsed /\ e \in Nat /\ 0 < e /\ \A x \in Elapsed : x \in Nat
  BY Times DEF OneMore
<1>9. ASSUME NEW x \in Elapsed
      PROVE  /\ Calls(d, From(x)) >= 1 <=> (x <= m \/ x <= e)
             /\ Calls(d, From(x)) >= 2 <=> (x <= n \/ (x <= m /\ x <= e))
  <2>1. PICK p \in Nat : p = Calls(c, From(x))
    BY <1>5
  <2>2. (p >= 1 <=> x <= m) /\ (p >= 2 <=> x <= n)
    BY <1>3, <2>1
  <2>3. PICK q : q = Calls(d, From(x))
    OBVIOUS
  <2>4. q = IF x <= e THEN p + 1 ELSE p
    BY <1>6, <2>1, <2>3
  <2>5. (q >= 1 <=> (x <= m \/ x <= e)) /\ (q >= 2 <=> (x <= n \/ (x <= m /\ x <= e)))
    BY <2>2, <2>4
  <2> QED
    BY <2>3, <2>5
<1>10. ASSUME e > m PROVE Greatest(d, 1, e) /\ Greatest(d, 2, m)
  <2>1. ASSUME NEW x \in Elapsed
        PROVE  (Calls(d, From(x)) >= 1 <=> x <= e) /\ (Calls(d, From(x)) >= 2 <=> x <= m)
    <3>1. x \in Nat /\ m \in Nat /\ n \in Nat /\ e \in Nat
      BY <1>2, <1>8
    <3>2. /\ Calls(d, From(x)) >= 1 <=> (x <= m \/ x <= e)
          /\ Calls(d, From(x)) >= 2 <=> (x <= n \/ (x <= m /\ x <= e))
      BY <1>9
    <3> QED
      BY <1>7, <1>10, <3>1, <3>2
  <2> QED
    BY <1>2, <1>8, <2>1 DEF Greatest
<1>11. ASSUME e <= m /\ e > n PROVE Greatest(d, 1, m) /\ Greatest(d, 2, e)
  <2>1. ASSUME NEW x \in Elapsed
        PROVE  (Calls(d, From(x)) >= 1 <=> x <= m) /\ (Calls(d, From(x)) >= 2 <=> x <= e)
    <3>1. x \in Nat /\ m \in Nat /\ n \in Nat /\ e \in Nat
      BY <1>2, <1>8
    <3>2. /\ Calls(d, From(x)) >= 1 <=> (x <= m \/ x <= e)
          /\ Calls(d, From(x)) >= 2 <=> (x <= n \/ (x <= m /\ x <= e))
      BY <1>9
    <3> QED
      BY <1>7, <1>11, <3>1, <3>2
  <2> QED
    BY <1>2, <1>8, <2>1 DEF Greatest
<1>12. ASSUME e <= m /\ e <= n PROVE Greatest(d, 1, m) /\ Greatest(d, 2, n)
  <2>1. ASSUME NEW x \in Elapsed
        PROVE  (Calls(d, From(x)) >= 1 <=> x <= m) /\ (Calls(d, From(x)) >= 2 <=> x <= n)
    <3>1. x \in Nat /\ m \in Nat /\ n \in Nat /\ e \in Nat
      BY <1>2, <1>8
    <3>2. /\ Calls(d, From(x)) >= 1 <=> (x <= m \/ x <= e)
          /\ Calls(d, From(x)) >= 2 <=> (x <= n \/ (x <= m /\ x <= e))
      BY <1>9
    <3> QED
      BY <1>7, <1>12, <3>1, <3>2
  <2> QED
    BY <1>2, <1>8, <2>1 DEF Greatest
<1>13. \A x : (Greatest(d, 1, x) => KthGreatest(d, 1) = x) /\ (Greatest(d, 2, x) => KthGreatest(d, 2) = x)
  BY GreatestUnique
<1> QED
  BY <1>2, <1>7, <1>10, <1>11, <1>12, <1>13

-------------------------------------------------------------------------------
\* A sample agrees with a record of measurements: all there is to SamplesExact.
\* An output may have put 0 for a least time that does not exist yet; then there
\* is none in the second place either.
Match(s, c) ==
    /\ s.callNum = Calls(c, Elapsed)
    /\ s.totalTime = Total(c, Elapsed)
    /\ s.iMax = <<KthGreatest(c, 1), KthGreatest(c, 2)>>
    /\ s.iMin[1] \in {KthLeast(c, 1), 0} /\ s.iMin[2] \in {KthLeast(c, 2), 0}
    /\ s.iMin[1] = 0 => s.iMin[2] = 0

LEMMA NoneMeasured ==
  /\ Calls(NothingMeasured, Elapsed) = 0
  /\ Total(NothingMeasured, Elapsed) = 0
  /\ KthGreatest(NothingMeasured, 1) = 0 /\ KthGreatest(NothingMeasured, 2) = 0
  /\ KthLeast(NothingMeasured, 1) = UINT_MAX /\ KthLeast(NothingMeasured, 2) = UINT_MAX
<1>1. PICK c : c = NothingMeasured
  OBVIOUS
<1>2. \A S \in SUBSET Elapsed : Calls(c, S) = 0
  BY <1>1, CallsOfNone
<1>3. \A e \in Elapsed : e \in Nat /\ c[e] = 0 /\ e * c[e] = 0
  BY <1>1, Times DEF NothingMeasured
<1>4. PICK h : /\ Sums(h, [e \in Elapsed |-> e * c[e]], Elapsed)
               /\ Total(c, Elapsed) = h[Elapsed]
  <2>1. IsFiniteSet(Elapsed) /\ Elapsed \subseteq Nat /\ \A e \in Elapsed : c[e] \in Nat
    BY <1>3, FiniteTimes
  <2> QED
    BY <2>1, TotalSums
<1>5. h[Elapsed] = 0
  <2>1. PICK g : g = [e \in Elapsed |-> e * c[e]]
    OBVIOUS
  <2>2. \A e \in Elapsed : g[e] = 0
    BY <1>3, <2>1
  <2>3. Sums(h, g, Elapsed)
    BY <1>4, <2>1
  <2> QED
    BY <2>2, <2>3, FiniteTimes, SumOfZeros
<1>6. \A x \in Elapsed : UpTo(x) \in SUBSET Elapsed /\ From(x) \in SUBSET Elapsed
  BY DEF UpTo, From
<1>7. \A x \in Elapsed : Calls(c, UpTo(x)) = 0 /\ Calls(c, From(x)) = 0
  BY <1>2, <1>6
<1>8. \A k \in {1, 2} : Least(c, k, UINT_MAX) /\ Greatest(c, k, 0)
  <2>1. ASSUME NEW k \in {1, 2}, NEW x \in Elapsed
        PROVE  /\ Calls(c, UpTo(x)) >= k <=> UINT_MAX <= x
               /\ Calls(c, From(x)) >= k <=> x <= 0
    <3>1. ~ (UINT_MAX <= x) /\ ~ (x <= 0) /\ ~ (0 >= k)
      BY Times
    <3> QED
      BY <1>7, <3>1
  <2> QED
    BY <2>1 DEF Least, Greatest
<1>9. \A k \in {1, 2} : KthLeast(c, k) = UINT_MAX /\ KthGreatest(c, k) = 0
  BY <1>8, LeastUnique, GreatestUnique
<1> QED
  BY <1>1, <1>2, <1>4, <1>5, <1>9

LEMMA ResetMatches ==
  ASSUME NEW s \in SampleType
  PROVE  Match(ResetSample(s), NothingMeasured)
<1>1. PICK r : r = ResetSample(s)
  OBVIOUS
<1>2. r.callNum = 0 /\ r.totalTime = 0 /\ r.iMin = <<UINT_MAX, UINT_MAX>> /\ r.iMax = <<0, 0>>
  BY <1>1, ResetFields
<1>3. r.iMin[1] = UINT_MAX /\ r.iMin[2] = UINT_MAX
  BY <1>2
<1> QED
  BY <1>1, <1>2, <1>3, NoneMeasured DEF Match

LEMMA TotalOneMore ==
  ASSUME NEW d, NEW c, NEW e, OneMore(d, c, e)
  PROVE  Total(d, Elapsed) = Total(c, Elapsed) + e
<1>1. c \in Counted /\ e \in Elapsed /\ d = [c EXCEPT ![e] = @ + 1]
  BY DEF OneMore
<1>2. IsFiniteSet(Elapsed) /\ Elapsed \subseteq Nat
  BY FiniteTimes, Times
<1>3. \A x \in Elapsed : x \in Nat /\ c[x] \in Nat /\ d[x] = IF x = e THEN c[x] + 1 ELSE c[x]
  BY <1>1, <1>2 DEF Counted
<1>4. \A x \in Elapsed : d[x] \in Nat
  BY <1>3
<1>5. PICK g, f : g = [x \in Elapsed |-> x * c[x]] /\ f = [x \in Elapsed |-> x * d[x]]
  OBVIOUS
<1>6. PICK h : Sums(h, g, Elapsed) /\ Total(c, Elapsed) = h[Elapsed]
  BY <1>2, <1>3, <1>5, TotalSums
<1>7. PICK k : Sums(k, f, Elapsed) /\ Total(d, Elapsed) = k[Elapsed]
  BY <1>2, <1>4, <1>5, TotalSums
<1>8. OffBy(f, g, Elapsed, e, e)
  <2>1. ASSUME NEW x \in Elapsed
        PROVE  g[x] \in Int /\ f[x] = IF x = e THEN g[x] + e ELSE g[x]
    <3>1. x \in Nat /\ c[x] \in Nat /\ g[x] = x * c[x] /\ f[x] = x * d[x]
      BY <1>3, <1>5
    <3>2. x * c[x] \in Nat /\ x * (c[x] + 1) = x * c[x] + x
      BY <3>1
    <3> QED
      BY <1>3, <3>1, <3>2
  <2>2. e \in Int
    BY <1>1, <1>3
  <2> QED
    BY <2>1, <2>2 DEF OffBy
<1>9. k[Elapsed] = IF e \in Elapsed THEN h[Elapsed] + e ELSE h[Elapsed]
  BY <1>2, <1>6, <1>7, <1>8, SumsDiffer
<1> QED
  BY <1>1, <1>6, <1>7, <1>9

LEMMA MeasuredMatches ==
  ASSUME NEW s \in SampleType, NEW d, NEW c, NEW e, OneMore(d, c, e), Match(s, c)
  PROVE  Match(Measured(s, e), d)
<1>1. e \in Elapsed /\ c \in Counted /\ e \in Nat /\ 0 < e /\ e < UINT_MAX /\ UINT_MAX \in Nat
  BY Times DEF OneMore
<1>2. PICK r : r = Measured(s, e)
  OBVIOUS
<1>3. /\ r.callNum = s.callNum + 1 /\ r.totalTime = s.totalTime + e
      /\ r.iMin = IF e < s.iMin[1] THEN <<e, s.iMin[1]>>
                  ELSE IF e < s.iMin[2] THEN <<s.iMin[1], e>> ELSE s.iMin
      /\ r.iMax = IF e > s.iMax[1] THEN <<e, s.iMax[1]>>
                  ELSE IF e > s.iMax[2] THEN <<s.iMax[1], e>> ELSE s.iMax
  BY <1>1, <1>2, MeasuredFields
<1>4. r.callNum = Calls(d, Elapsed)
  <2>1. Calls(d, Elapsed) = IF e \in Elapsed THEN Calls(c, Elapsed) + 1 ELSE Calls(c, Elapsed)
    BY CallsOneMore
  <2> QED
    BY <1>1, <1>3, <2>1 DEF Match
<1>5. r.totalTime = Total(d, Elapsed)
  BY <1>3, TotalOneMore DEF Match
<1>6. r.iMax = <<KthGreatest(d, 1), KthGreatest(d, 2)>>
  <2>1. PICK m, n : m = KthGreatest(c, 1) /\ n = KthGreatest(c, 2)
    OBVIOUS
  <2>2. /\ m \in Elapsed \cup {0} /\ n \in Elapsed \cup {0} /\ n <= m
        /\ e > m => KthGreatest(d, 1) = e /\ KthGreatest(d, 2) = m
        /\ e <= m /\ e > n => KthGreatest(d, 1) = m /\ KthGreatest(d, 2) = e
        /\ e <= m /\ e <= n => KthGreatest(d, 1) = m /\ KthGreatest(d, 2) = n
    BY <2>1, GreatestStep
  <2>3. s.iMax = <<m, n>> /\ s.iMax[1] = m /\ s.iMax[2] = n
    BY <2>1 DEF Match
  <2>4. m \in Nat /\ n \in Nat
    BY <2>2, Times
  <2> QED
    BY <1>1, <1>3, <2>2, <2>3, <2>4
<1>7. PICK m, n : m = KthLeast(c, 1) /\ n = KthLeast(c, 2)
  OBVIOUS
<1>8. /\ m \in Elapsed \cup {UINT_MAX} /\ n \in Elapsed \cup {UINT_MAX} /\ m <= n
      /\ e < m => KthLeast(d, 1) = e /\ KthLeast(d, 2) = m
      /\ m <= e /\ e < n => KthLeast(d, 1) = m /\ KthLeast(d, 2) = e
      /\ m <= e /\ n <= e => KthLeast(d, 1) = m /\ KthLeast(d, 2) = n
  BY <1>7, LeastStep
<1>9. m \in Nat /\ n \in Nat /\ 0 < m
  BY <1>1, <1>8, Times
<1>10. /\ s.iMin[1] \in {m, 0} /\ s.iMin[2] \in {n, 0}
       /\ s.iMin[1] = 0 => s.iMin[2] = 0
  BY <1>7 DEF Match
<1>11. CASE s.iMin[1] = 0
  <2>1. r.iMin[1] = 0 /\ r.iMin[2] = 0
    BY <1>1, <1>3, <1>10, <1>11
  <2> QED
    BY <1>2, <1>4, <1>5, <1>6, <2>1 DEF Match
<1>12. CASE s.iMin[1] = m /\ e < m
  <2>1. r.iMin = <<e, m>>
    BY <1>3, <1>12
  <2>2. r.iMin[1] = KthLeast(d, 1) /\ r.iMin[2] = KthLeast(d, 2) /\ r.iMin[1] # 0
    BY <1>1, <1>8, <1>12, <2>1
  <2> QED
    BY <1>2, <1>4, <1>5, <1>6, <2>2 DEF Match
<1>13. CASE s.iMin[1] = m /\ m <= e
  <2>1. r.iMin[1] = m /\ r.iMin[2] = IF e < s.iMin[2] THEN e ELSE s.iMin[2]
    BY <1>1, <1>3, <1>9, <1>13
  <2>2. KthLeast(d, 1) = m /\ KthLeast(d, 2) = IF e < n THEN e ELSE n
    BY <1>1, <1>8, <1>9, <1>13
  <2>3. r.iMin[2] \in {KthLeast(d, 2), 0}
    BY <1>1, <1>9, <1>10, <2>1, <2>2
  <2>4. r.iMin[1] # 0
    BY <1>9, <2>1
  <2> QED
    BY <1>2, <1>4, <1>5, <1>6, <2>1, <2>2, <2>3, <2>4 DEF Match
<1>14. e < m \/ m <= e
  BY <1>1, <1>9
<1> QED
  BY <1>10, <1>11, <1>12, <1>13, <1>14

\* What an output changes.
LEMMA TreatedMatches ==
  ASSUME NEW s \in SampleType, NEW c, Match(s, c)
  PROVE  Match(Treated("output", s), c)
<1>1. PICK r : r = Treated("output", s)
  OBVIOUS
<1>2. /\ r.callNum = s.callNum /\ r.totalTime = s.totalTime /\ r.iMax = s.iMax
      /\ \A m \in 1 .. 2 : r.iMin[m] = IF s.iMin[m] = UINT_MAX THEN 0 ELSE s.iMin[m]
  BY <1>1, TreatedFields DEF Jobs
<1>3. PICK m, n : m = KthLeast(c, 1) /\ n = KthLeast(c, 2)
  OBVIOUS
<1>4. Least(c, 1, m) /\ Least(c, 2, n)
  BY <1>3, LeastExists
<1>5. m = UINT_MAX => n = UINT_MAX
  <2>1. SUFFICES ASSUME n \in Elapsed PROVE m <= n
    BY <1>4, Times DEF Least
  <2>2. Calls(c, UpTo(n)) >= 2
    BY <1>4, <2>1, Times DEF Least
  <2>3. UpTo(n) \in SUBSET Elapsed
    BY DEF UpTo
  <2>4. Calls(c, UpTo(n)) \in Nat
    BY <2>3, CallsFinite
  <2>5. Calls(c, UpTo(n)) >= 1
    BY <2>2, <2>4
  <2> QED
    BY <1>4, <2>1, <2>5 DEF Least
<1>6. /\ s.iMin[1] \in {m, 0} /\ s.iMin[2] \in {n, 0} /\ (s.iMin[1] = 0 => s.iMin[2] = 0)
  BY <1>3 DEF Match
<1>7. r.iMin[1] = (IF s.iMin[1] = UINT_MAX THEN 0 ELSE s.iMin[1])
      /\ r.iMin[2] = (IF s.iMin[2] = UINT_MAX THEN 0 ELSE s.iMin[2])
  BY <1>2
<1>8. r.iMin[1] \in {m, 0} /\ r.iMin[2] \in {n, 0}
  BY <1>6, <1>7
<1>9. r.iMin[1] = 0 => r.iMin[2] = 0
  BY <1>5, <1>6, <1>7
<1>10. /\ r.callNum = Calls(c, Elapsed)
       /\ r.totalTime = Total(c, Elapsed)
       /\ r.iMax = <<KthGreatest(c, 1), KthGreatest(c, 2)>>
  BY <1>2 DEF Match
<1> QED
  BY <1>1, <1>3, <1>8, <1>9, <1>10 DEF Match

-------------------------------------------------------------------------------
\* What SamplesExact rests on beside HInv.

\* The times measured since a Reset reached the sample stay within the bound.
LogInv == log \in [Threads -> [Sites -> Counted]]

\* Two statements of a thread have different samples.
DistinctInv ==
    \A t \in Threads, s, x \in Sites : testIdx[t][s] >= 0 /\ testIdx[t][s] = testIdx[t][x] => s = x

\* Every measurement that has begun can be recorded within MaxCalls.
BoundInv == Cardinality(Measuring) + Recorded <= MaxCalls

\* The Reset under way has been at the sample, for all of its valid ones.
Done(t, j) == \E k \in Keepers : job[k] = "reset" /\ tls[t] < at[k] /\ j < valid[tls[t]]

Unlogged(t) ==
    \A s \in Sites : testIdx[t][s] = -1 \/ tls[t] \notin described => log[t][s] = NothingMeasured
NamedMatch(t) ==
    \A s \in Sites : testIdx[t][s] >= 0 =>
      Match(sample[tls[t]][testIdx[t][s]],
            IF Done(t, testIdx[t][s]) THEN NothingMeasured ELSE log[t][s])
FreshMatch(t) ==
    \A j \in Samples : j >= NextIndex(t) => Match(sample[tls[t]][j], NothingMeasured)

\* The samples of a thread agree with the log; those no statement has yet, with
\* an empty one.
Accords(t) ==
    /\ Unlogged(t)
    /\ tls[t] \in described => NamedMatch(t) /\ FreshMatch(t)

MatchInv == \A t \in Threads : Accords(t)

SInv == HInv /\ LogInv /\ DistinctInv /\ BoundInv /\ MatchInv

-------------------------------------------------------------------------------
LEMMA NoneDone ==
  ASSUME Holders = {}
  PROVE  \A t \in Threads, j \in Samples : ~ Done(t, j)
BY ProfilerAssumption DEF Holders, Done

\* A thread whose samples a step leaves alone, or changes for no record.
LEMMA AccordsKept ==
  ASSUME NEW t \in Threads, Accords(t), SiteInv,
         tls'[t] = tls[t], testIdx'[t] = testIdx[t], log'[t] = log[t],
         tls[t] \in described' <=> tls[t] \in described,
         tls[t] \in described =>
           \A j \in Samples : /\ Done(t, j)' <=> Done(t, j)
                              /\ \A c : Match(sample[tls[t]][j], c) => Match(sample'[tls[t]][j], c)
  PROVE  Accords(t)'
<1>1. Unlogged(t)'
  BY DEF Accords, Unlogged
<1>2. NextIndex(t)' = NextIndex(t)
  BY DEF NextIndex
<1>3. ASSUME tls[t] \in described PROVE NamedMatch(t)' /\ FreshMatch(t)'
  <2>1. ASSUME NEW s \in Sites, testIdx[t][s] >= 0
        PROVE  Match(sample'[tls[t]][testIdx[t][s]],
                     IF Done(t, testIdx[t][s])' THEN NothingMeasured ELSE log[t][s])
    <3>1. PICK j \in Samples : j = testIdx[t][s]
      BY <2>1 DEF SiteInv
    <3>2. Match(sample[tls[t]][j], IF Done(t, j) THEN NothingMeasured ELSE log[t][s])
      BY <1>3, <2>1, <3>1 DEF Accords, NamedMatch
    <3>3. Done(t, testIdx[t][s])' <=> Done(t, j)'
      BY <3>1 DEF Done
    <3>4. Done(t, j)' <=> Done(t, j)
      BY <1>3
    <3>5. Match(sample'[tls[t]][j], IF Done(t, j) THEN NothingMeasured ELSE log[t][s])
      BY <1>3, <3>2
    <3> QED
      BY <3>1, <3>3, <3>4, <3>5
  <2>2. \A j \in Samples : j >= NextIndex(t) => Match(sample'[tls[t]][j], NothingMeasured)
    BY <1>3 DEF Accords, FreshMatch
  <2>3. FreshMatch(t)'
    BY <1>2, <2>2 DEF FreshMatch
  <2>4. NamedMatch(t)'
    BY <2>1 DEF NamedMatch
  <2> QED
    BY <2>3, <2>4
<1> QED
  BY <1>1, <1>3 DEF Accords

-------------------------------------------------------------------------------
\* The measurements on record are counted by pairs of a statement in a thread and
\* a time with its number.
Records == {x \in (Threads \X Sites) \X (Elapsed \X (1 .. MaxCalls)) :
              x[2][2] <= log[x[1][1]][x[1][2]][x[2][1]]}

LEMMA RecordsFinite ==
  /\ IsFiniteSet(Records) /\ IsFiniteSet(Records') /\ IsFiniteSet(Measuring)
  /\ Recorded = Cardinality(Records) /\ Recorded \in Nat /\ Cardinality(Measuring) \in Nat
<1>1. IsFiniteSet(Threads \X Sites) /\ IsFiniteSet(Elapsed \X (1 .. MaxCalls))
  BY FiniteTimes, FS_Product, ProfilerAssumption
<1>2. IsFiniteSet((Threads \X Sites) \X (Elapsed \X (1 .. MaxCalls)))
  BY <1>1, FS_Product
<1>3. /\ Records \in SUBSET ((Threads \X Sites) \X (Elapsed \X (1 .. MaxCalls)))
      /\ Records' \in SUBSET ((Threads \X Sites) \X (Elapsed \X (1 .. MaxCalls)))
  BY DEF Records
<1>4. IsFiniteSet(Records) /\ IsFiniteSet(Records')
  BY <1>2, <1>3, FS_Subset
<1>5. Measuring \in SUBSET Requests
  BY DEF Measuring
<1>6. IsFiniteSet(Measuring)
  BY <1>5, FiniteRequests, FS_Subset
<1>7. Recorded = Cardinality(Records)
  BY DEF Recorded, Records
<1> QED
  BY <1>4, <1>6, <1>7, FS_CardinalityType

LEMMA BoundKept ==
  ASSUME BoundInv, Records' \in SUBSET Records, Measuring' \in SUBSET Measuring
  PROVE  BoundInv'
<1>1. Recorded' = Cardinality(Records') /\ Recorded = Cardinality(Records)
  BY DEF Recorded, Records
<1>2. Cardinality(Records') <= Cardinality(Records)
  BY RecordsFinite, FS_Subset
<1>3. Cardinality(Measuring') <= Cardinality(Measuring) /\ IsFiniteSet(Measuring')
  BY RecordsFinite, FS_Subset
<1>4. Cardinality(Measuring') \in Nat /\ Cardinality(Records') \in Nat
  BY <1>3, RecordsFinite, FS_CardinalityType
<1> QED
  BY <1>1, <1>2, <1>3, <1>4, RecordsFinite, Times DEF BoundInv

\* While a request measures there is room for its record.
LEMMA RoomForOne ==
  ASSUME BoundInv, LogInv, NEW r \in Measuring, NEW t \in Threads, NEW s \in Sites, NEW e \in Elapsed
  PROVE  log[t][s][e] \in 0 .. MaxCalls /\ log[t][s][e] < MaxCalls
<1>1. PICK n \in 0 .. MaxCalls : n = log[t][s][e]
  BY DEF LogInv, Counted
<1>2. Cardinality(Measuring) # 0
  BY RecordsFinite, FS_EmptySet
<1>3. Recorded < MaxCalls
  BY <1>2, RecordsFinite, Times DEF BoundInv
<1>4. Cardinality(1 .. n) = n
  <2>1. 1 \in Int /\ n \in Int
    OBVIOUS
  <2>2. Cardinality(1 .. n) = IF 1 > n THEN 0 ELSE n - 1 + 1
    BY <2>1, FS_Interval
  <2> QED
    BY <2>2
<1>5. Cardinality(1 .. n) <= Cardinality(Records)
  <2>1. PICK f : f = [m \in 1 .. n |-> <<<<t, s>>, <<e, m>>>>]
    OBVIOUS
  <2>2. \A m \in 1 .. n : m \in 1 .. MaxCalls /\ m <= n
    BY Times
  <2>3. \A m \in 1 .. n : <<<<t, s>>, <<e, m>>>> \in Records
    BY <1>1, <2>2 DEF Records
  <2>4. f \in [1 .. n -> Records]
    BY <2>1, <2>3
  <2>5. \A m, l \in 1 .. n : f[m] = f[l] => m = l
    BY <2>1
  <2>6. f \in Injection(1 .. n, Records)
    BY <2>4, <2>5 DEF Injection, IsInjective
  <2> QED
    BY <2>6, RecordsFinite, FS_Injection
<1>6. n < MaxCalls
  BY <1>3, <1>4, <1>5, RecordsFinite, Times
<1> QED
  BY <1>1, <1>6

LEMMA RecordOne ==
  ASSUME LogInv, NEW t \in Threads, NEW s \in Sites, NEW e \in Elapsed,
         log[t][s][e] < MaxCalls, log' = [log EXCEPT ![t][s][e] = @ + 1]
  PROVE  /\ LogInv' /\ OneMore(log'[t][s], log[t][s], e)
         /\ \A u \in Threads : u # t => log'[u] = log[u]
         /\ \A x \in Sites : x # s => log'[t][x] = log[t][x]
         /\ Recorded' = Recorded + 1
<1>1. PICK c \in Counted : c = log[t][s]
  BY DEF LogInv
<1>2. PICK d : d = [c EXCEPT ![e] = @ + 1]
  OBVIOUS
<1>3. c[e] \in Nat /\ c[e] + 1 \in 0 .. MaxCalls /\ c[e] + 1 \in 1 .. MaxCalls
  BY <1>1, Times DEF Counted
<1>4. d \in Counted /\ d[e] = c[e] + 1 /\ \A x \in Elapsed : x # e => d[x] = c[x]
  BY <1>2, <1>3 DEF Counted
<1>5. log' = [log EXCEPT ![t] = [log[t] EXCEPT ![s] = d]]
  BY <1>1, <1>2 DEF LogInv
<1>6. PICK f : f = [log[t] EXCEPT ![s] = d]
  OBVIOUS
<1>7. f \in [Sites -> Counted] /\ f[s] = d /\ \A x \in Sites : x # s => f[x] = log[t][x]
  BY <1>4, <1>6 DEF LogInv
<1>8. log' \in [Threads -> [Sites -> Counted]] /\ log'[t] = f
      /\ \A u \in Threads : u # t => log'[u] = log[u]
  BY <1>5, <1>6, <1>7 DEF LogInv
<1>9. LogInv'
  BY <1>8 DEF LogInv
<1>10. OneMore(log'[t][s], log[t][s], e)
  BY <1>1, <1>2, <1>7, <1>8 DEF OneMore
<1>11. \A u \in Threads, x \in Sites, y \in Elapsed :
          log'[u][x][y] = IF u = t /\ x = s /\ y = e THEN c[e] + 1 ELSE log[u][x][y]
  <2>1. \A u \in Threads, x \in Sites : u # t \/ x # s => log'[u][x] = log[u][x]
    BY <1>7, <1>8
  <2>2. log'[t][s] = d /\ log[t][s] = c
    BY <1>1, <1>7, <1>8
  <2>3. \A y \in Elapsed : d[y] = IF y = e THEN c[e] + 1 ELSE c[y]
    BY <1>4
  <2>4. ASSUME NEW u \in Threads, NEW x \in Sites, NEW y \in Elapsed
        PROVE  log'[u][x][y] = IF u = t /\ x = s /\ y = e THEN c[e] + 1 ELSE log[u][x][y]
    <3>1. CASE u = t /\ x = s
      BY <2>2, <2>3, <3>1
    <3>2. CASE ~ (u = t /\ x = s)
      BY <2>1, <3>2
    <3> QED
      BY <3>1, <3>2
  <2> QED
    BY <2>4
<1>12. PICK p : p = <<<<t, s>>, <<e, c[e] + 1>>>>
  OBVIOUS
<1>13. p \notin Records
  BY <1>1, <1>3, <1>12 DEF Records
<1>14. Records' = Records \cup {p}
  <2>1. p \in Records'
    <3>1. log'[t][s][e] = c[e] + 1 /\ c[e] + 1 <= c[e] + 1
      BY <1>3, <1>11
    <3> QED
      BY <1>3, <1>12, <3>1 DEF Records
  <2>2. ASSUME NEW q \in Records PROVE q \in Records'
    <3>1. PICK u \in Threads, x \in Sites, y \in Elapsed, n \in 1 .. MaxCalls :
             q = <<<<u, x>>, <<y, n>>>> /\ n <= log[u][x][y]
      BY DEF Records
    <3>2. n <= log'[u][x][y]
      BY <1>1, <1>3, <1>11, <3>1
    <3> QED
      BY <3>1, <3>2 DEF Records
  <2>3. ASSUME NEW q \in Records', q \notin Records PROVE q = p
    <3>1. PICK u \in Threads, x \in Sites, y \in Elapsed, n \in 1 .. MaxCalls :
             q = <<<<u, x>>, <<y, n>>>> /\ n <= log'[u][x][y]
      BY DEF Records
    <3>2. ~ (n <= log[u][x][y])
      BY <2>3, <3>1 DEF Records
    <3>3. u = t /\ x = s /\ y = e /\ n <= c[e] + 1 /\ ~ (n <= c[e])
      BY <1>1, <1>11, <3>1, <3>2
    <3>4. n = c[e] + 1
      BY <1>3, <3>3
    <3> QED
      BY <1>12, <3>1, <3>3, <3>4
  <2> QED
    BY <2>1, <2>2, <2>3
<1>15. Cardinality(Records \cup {p}) = Cardinality(Records) + 1
  BY <1>13, RecordsFinite, FS_AddElement
<1>16. Recorded' = Recorded + 1
  BY <1>14, <1>15 DEF Recorded, Records
<1> QED
  BY <1>7, <1>8, <1>9, <1>10, <1>16

-------------------------------------------------------------------------------
LEMMA BeginAccords ==
  ASSUME SInv, NEW r \in Requests, NEW s \in Sites, Begin(r, s)
  PROVE  LogInv' /\ DistinctInv' /\ BoundInv' /\ MatchInv'
<1>1. PICK t \in Threads : t = r[1]
  BY Pairs
<1>2. HInv /\ SiteInv /\ LogInv /\ DistinctInv /\ BoundInv /\ MatchInv
  BY DEF SInv, HInv
<1> DEFINE old == testIdx[t][s] # -1
<1>3. /\ \A u \in Threads : u # t => testIdx'[u] = testIdx[u] /\ NextIndex(u)' = NextIndex(u)
      /\ \A x \in Sites : x # s => testIdx'[t][x] = testIdx[t][x]
      /\ testIdx' \in [Threads -> [Sites -> Samples \cup {-1}]]
      /\ old => testIdx'[t][s] = testIdx[t][s] /\ NextIndex(t)' = NextIndex(t)
      /\ ~old => testIdx'[t][s] = NextIndex(t) /\ NextIndex(t)' = NextIndex(t) + 1
      /\ NextIndex(t) \in Nat
  BY <1>1, <1>2, BeginIndices
<1>4. UNCHANGED <<lastIdx, tls, described, valid, sample, job, at, log>>
  BY DEF Begin, tables
<1>5. LogInv'
  BY <1>2, <1>4 DEF LogInv
<1>6. \A u \in Threads, x \in Sites :
        testIdx[u][x] \in Int /\ testIdx'[u][x] \in Int /\ testIdx[u][x] < NextIndex(u)
  BY <1>2, <1>3, SampleNumbers DEF SiteInv
<1>7. DistinctInv'
  <2>1. SUFFICES ASSUME NEW u \in Threads, NEW x \in Sites, NEW y \in Sites,
                        testIdx'[u][x] >= 0, testIdx'[u][x] = testIdx'[u][y]
                 PROVE  x = y
    BY DEF DistinctInv
  <2>2. CASE u # t \/ old
    <3>1. testIdx'[u][x] = testIdx[u][x] /\ testIdx'[u][y] = testIdx[u][y]
      BY <1>3, <2>2
    <3> QED
      BY <1>2, <2>1, <3>1 DEF DistinctInv
  <2>3. CASE u = t /\ ~old
    <3>1. \A z \in Sites : z # s => testIdx'[t][z] # NextIndex(t)
      BY <1>3, <1>6
    <3>2. CASE x = s \/ y = s
      BY <1>3, <2>1, <2>3, <3>1, <3>2
    <3>3. CASE x # s /\ y # s
      BY <1>2, <1>3, <2>1, <2>3, <3>3 DEF DistinctInv
    <3> QED
      BY <3>2, <3>3
  <2> QED
    BY <2>2, <2>3
<1>8. BoundInv'
  <2>1. \A q \in Requests : q # r => loc'[q] = loc[q]
    BY <1>1, <1>2, BeginFacts
  <2>2. Measuring' \in SUBSET (Active \cup {r}) /\ r \notin Active
    BY <2>1 DEF Measuring, Active, Begin
  <2>3. /\ Cardinality(Active \cup {r}) = Cardinality(Active) + 1
        /\ IsFiniteSet(Active \cup {r})
    BY <2>2, Counts, FS_AddElement
  <2>4. Cardinality(Measuring') <= Cardinality(Active \cup {r}) /\ IsFiniteSet(Measuring')
    BY <2>2, <2>3, FS_Subset
  <2>5. Cardinality(Measuring') \in Nat
    BY <2>4, FS_CardinalityType
  <2>6. Recorded' = Recorded
    BY <1>4 DEF Recorded
  <2>7. Cardinality(Active) + Recorded < MaxCalls
    BY DEF Begin
  <2>8. Cardinality(Active) \in Nat /\ Recorded \in Nat /\ MaxCalls \in Nat
    BY Counts, RecordsFinite, Times
  <2> QED
    BY <2>3, <2>4, <2>5, <2>6, <2>7, <2>8 DEF BoundInv
<1>9. \A u \in Threads, j \in Samples : Done(u, j)' <=> Done(u, j)
  BY <1>4 DEF Done
<1>10. ASSUME NEW u \in Threads, u # t \/ old PROVE Accords(u)'
  <2>1. testIdx'[u] = testIdx[u]
    <3>1. CASE u # t
      BY <1>3, <3>1
    <3>2. CASE old
      BY <1>1, <3>2 DEF Begin
    <3> QED
      BY <1>10, <3>1, <3>2
  <2>2. Accords(u)
    BY <1>2 DEF MatchInv
  <2> QED
    BY <1>2, <1>4, <1>9, <2>1, <2>2, AccordsKept
<1>11. ASSUME ~old PROVE Accords(t)'
  <2>1. Accords(t)
    BY <1>2 DEF MatchInv
  <2>2. Unlogged(t) /\ log[t][s] = NothingMeasured
    BY <1>11, <2>1 DEF Accords, Unlogged
  <2>3. Unlogged(t)'
    <3>1. ASSUME NEW x \in Sites, testIdx'[t][x] = -1 \/ tls[t] \notin described
          PROVE  log[t][x] = NothingMeasured
      BY <1>3, <1>11, <2>2, <3>1 DEF Unlogged
    <3> QED
      BY <1>4, <3>1 DEF Unlogged
  <2>4. ASSUME tls[t] \in described PROVE NamedMatch(t)' /\ FreshMatch(t)'
    <3>1. NamedMatch(t) /\ FreshMatch(t)
      BY <2>1, <2>4 DEF Accords
    <3>2. FreshMatch(t)'
      <4>1. ASSUME NEW j \in Samples, j >= NextIndex(t) + 1
            PROVE  Match(sample[tls[t]][j], NothingMeasured)
        <5>1. j >= NextIndex(t)
          BY <1>3, <4>1, SampleNumbers
        <5> QED
          BY <3>1, <5>1 DEF FreshMatch
      <4> QED
        BY <1>3, <1>4, <1>11, <4>1 DEF FreshMatch
    <3>3. NextIndex(t) \in Samples
      BY <1>3, <1>11, NextIndexBound
    <3>4. ASSUME NEW x \in Sites, NEW j \in Samples, j = testIdx'[t][x]
          PROVE  Match(sample[tls[t]][j], IF Done(t, j) THEN NothingMeasured ELSE log[t][x])
      <4>1. CASE x = s
        <5>1. Match(sample[tls[t]][NextIndex(t)], NothingMeasured)
          BY <1>3, <3>1, <3>3 DEF FreshMatch
        <5> QED
          BY <1>3, <1>11, <2>2, <3>4, <4>1, <5>1
      <4>2. CASE x # s
        <5>1. j = testIdx[t][x] /\ j >= 0
          BY <1>3, <3>4, <4>2, SampleNumbers
        <5> QED
          BY <3>1, <5>1 DEF NamedMatch
      <4> QED
        BY <4>1, <4>2
    <3>5. ASSUME NEW x \in Sites, NEW j \in Samples, j = testIdx'[t][x]
          PROVE  Match(sample[tls[t]][j], IF Done(t, j)' THEN NothingMeasured ELSE log[t][x])
      BY <1>9, <3>4, <3>5
    <3>6. \A x \in Sites : testIdx'[t][x] >= 0 => testIdx'[t][x] \in Samples
      BY <1>3
    <3>7. NamedMatch(t)'
      BY <1>4, <3>5, <3>6 DEF NamedMatch, Done
    <3> QED
      BY <3>2, <3>7
  <2> QED
    BY <1>4, <2>3, <2>4 DEF Accords
<1>12. MatchInv'
  BY <1>10, <1>11 DEF MatchInv
<1> QED
  BY <1>5, <1>7, <1>8, <1>12

-------------------------------------------------------------------------------
LEMMA LogKept ==
  ASSUME LogInv, DistinctInv, UNCHANGED <<testIdx, log>>
  PROVE  LogInv' /\ DistinctInv' /\ Records' = Records
BY DEF LogInv, DistinctInv, Records

LEMMA StillNone ==
  ASSUME Holders = {}, job' = job
  PROVE  \A t \in Threads, j \in Samples : ~ Done(t, j) /\ ~ Done(t, j)'
BY ProfilerAssumption DEF Holders, Done

\* While a request measures nobody holds the flag.
LEMMA MeasuringAlone ==
  ASSUME IInv, NEW r \in Requests, loc[r] \in {"index", "describe", "sample", "open", "recorded"}
  PROVE  Holders = {}
BY DEF IInv, Exclusion, Measuring

LEMMA AllocIndexAccords ==
  ASSUME SInv, NEW r \in Requests, AllocIndex(r)
  PROVE  LogInv' /\ DistinctInv' /\ BoundInv' /\ MatchInv'
<1>1. PICK t \in Threads : t = r[1]
  BY Pairs
<1>2. /\ loc[r] = "index" /\ Move(r, "describe") /\ tls' = [tls EXCEPT ![t] = lastIdx + 1]
      /\ UNCHANGED <<testIdx, described, valid, sample, job, at, log>>
  BY <1>1 DEF AllocIndex, tables, histories
<1>3. IInv /\ IndexInv /\ DescribedInv /\ SiteInv /\ LogInv /\ DistinctInv /\ BoundInv /\ MatchInv
  BY DEF SInv, HInv
<1>4. LogInv' /\ DistinctInv' /\ Records' = Records
  BY <1>2, <1>3, LogKept
<1>5. Measuring' \in SUBSET Measuring
  BY <1>2, <1>3 DEF Measuring, Move, IInv, LocInv
<1>6. BoundInv'
  BY <1>3, <1>4, <1>5, BoundKept
<1>7. \A u \in Threads, j \in Samples : ~ Done(u, j) /\ ~ Done(u, j)'
  BY <1>2, <1>3, MeasuringAlone, StillNone
<1>8. tls[t] \notin described /\ lastIdx + 1 \notin described /\ tls'[t] = lastIdx + 1
      /\ \A u \in Threads : u # t => tls'[u] = tls[u]
  BY <1>1, <1>2, <1>3 DEF DescribedInv, IndexInv
<1>9. ASSUME NEW u \in Threads, u # t PROVE Accords(u)'
  <2>1. Accords(u)
    BY <1>3 DEF MatchInv
  <2> QED
    BY <1>2, <1>3, <1>7, <1>8, <1>9, <2>1, AccordsKept
<1>10. Accords(t)'
  <2>1. \A s \in Sites : log[t][s] = NothingMeasured
    BY <1>3, <1>8 DEF MatchInv, Accords, Unlogged
  <2> QED
    BY <1>2, <1>8, <2>1 DEF Accords, Unlogged
<1> QED
  BY <1>4, <1>6, <1>9, <1>10 DEF MatchInv

LEMMA DescribeAccords ==
  ASSUME SInv, NEW r \in Requests, Describe(r)
  PROVE  LogInv' /\ DistinctInv' /\ BoundInv' /\ MatchInv'
<1>1. PICK t \in Threads : t = r[1]
  BY Pairs
<1>2. PICK i : i = tls[t]
  OBVIOUS
<1>3. /\ loc[r] = "describe" /\ Move(r, "sample") /\ described' = described \cup {i}
      /\ sample' = [sample EXCEPT ![i] = [j \in Samples |-> NewSample]]
      /\ UNCHANGED <<tls, testIdx, job, at, log>>
  BY <1>1, <1>2 DEF Describe, words, histories
<1>4. /\ IInv /\ IndexInv /\ DescribedInv /\ SiteInv /\ SampleInv
      /\ LogInv /\ DistinctInv /\ BoundInv /\ MatchInv
  BY DEF SInv, HInv
<1>5. LogInv' /\ DistinctInv' /\ Records' = Records
  BY <1>3, <1>4, LogKept
<1>6. Measuring' \in SUBSET Measuring
  BY <1>3, <1>4 DEF Measuring, Move, IInv, LocInv
<1>7. BoundInv'
  BY <1>4, <1>5, <1>6, BoundKept
<1>8. \A u \in Threads, j \in Samples : ~ Done(u, j) /\ ~ Done(u, j)'
  BY <1>3, <1>4, MeasuringAlone, StillNone
<1>9. i # 0 /\ i \notin described
  BY <1>1, <1>2, <1>3, <1>4 DEF DescribedInv
<1>10. i \in Descs
  <2>1. i \in 1 .. lastIdx
    BY <1>2, <1>4, <1>9 DEF IndexInv
  <2> QED
    BY <1>4, <2>1, IndexBound
<1>11. \A u \in Threads : u # t => tls[u] # i
  BY <1>2, <1>4, <1>9 DEF IndexInv
<1>12. sample'[i] = [j \in Samples |-> NewSample]
       /\ \A d \in Descs : d # i => sample'[d] = sample[d]
  BY <1>3, <1>4, <1>10 DEF SampleInv
<1>13. ASSUME NEW u \in Threads, u # t PROVE Accords(u)'
  <2>1. Accords(u)
    BY <1>4 DEF MatchInv
  <2>2. tls[u] \in described' <=> tls[u] \in described
    BY <1>3, <1>11, <1>13
  <2>3. tls[u] \in described => sample'[tls[u]] = sample[tls[u]]
    <3>1. tls[u] \in described => tls[u] \in Descs /\ tls[u] # i
      BY <1>4, <1>9, IndexBound DEF DescribedInv
    <3> QED
      BY <1>12, <3>1
  <2> QED
    BY <1>3, <1>4, <1>8, <2>1, <2>2, <2>3, AccordsKept
<1>14. Accords(t)'
  <2>1. \A s \in Sites : log[t][s] = NothingMeasured
    BY <1>2, <1>4, <1>9 DEF MatchInv, Accords, Unlogged
  <2>2. Match(NewSample, NothingMeasured)
    BY NewFields, ResetMatches
  <2>3. \A j \in Samples : Match(sample'[tls[t]][j], NothingMeasured)
    BY <1>2, <1>12, <2>2
  <2>4. FreshMatch(t)'
    BY <1>3, <2>3 DEF FreshMatch
  <2>5. \A s \in Sites : testIdx[t][s] >= 0 => testIdx[t][s] \in Samples
    BY <1>4 DEF SiteInv
  <2>6. NamedMatch(t)'
    BY <1>3, <2>1, <2>3, <2>5 DEF NamedMatch
  <2>7. Unlogged(t)'
    BY <1>3, <2>1 DEF Unlogged
  <2> QED
    BY <2>4, <2>6, <2>7 DEF Accords
<1> QED
  BY <1>5, <1>7, <1>13, <1>14 DEF MatchInv

LEMMA UseSampleAccords ==
  ASSUME SInv, NEW r \in Requests, UseSample(r)
  PROVE  LogInv' /\ DistinctInv' /\ BoundInv' /\ MatchInv'
<1>1. PICK t \in Threads : t = r[1]
  BY Pairs
<1>2. PICK i, j : i = tls[t] /\ j = IndexOf(r)
  OBVIOUS
<1>3. /\ loc[r] = "sample" /\ Move(r, "open")
      /\ sample' = [sample EXCEPT ![i][j].used = TRUE]
      /\ UNCHANGED <<lastIdx, tls, testIdx, described, job, at, log>>
  BY <1>1, <1>2 DEF UseSample, words, histories
<1>4. /\ IInv /\ IndexInv /\ DescribedInv /\ SiteInv /\ SampleInv
      /\ LogInv /\ DistinctInv /\ BoundInv /\ MatchInv
  BY DEF SInv, HInv
<1>5. LogInv' /\ DistinctInv' /\ Records' = Records
  BY <1>3, <1>4, LogKept
<1>6. Measuring' \in SUBSET Measuring
  BY <1>3, <1>4 DEF Measuring, Move, IInv, LocInv
<1>7. BoundInv'
  BY <1>4, <1>5, <1>6, BoundKept
<1>8. \A u \in Threads, x \in Samples : ~ Done(u, x) /\ ~ Done(u, x)'
  BY <1>3, <1>4, MeasuringAlone, StillNone
<1>9. i \in Descs /\ j \in Samples
  BY <1>1, <1>2, <1>3, <1>4, IndexBound DEF DescribedInv, SiteInv, IndexOf
<1>10. ASSUME NEW d \in Descs, NEW x \in Samples, NEW c, Match(sample[d][x], c)
       PROVE  Match(sample'[d][x], c)
  <2>1. sample \in [Descs -> [Samples -> SampleType]]
    BY <1>4 DEF SampleInv
  <2>2. PICK s \in SampleType : s = sample[i][j]
    BY <1>9, <2>1
  <2>3. PICK m : m = [s EXCEPT !.used = TRUE]
    OBVIOUS
  <2>4. m.callNum = s.callNum /\ m.totalTime = s.totalTime /\ m.iMin = s.iMin /\ m.iMax = s.iMax
    BY <2>3 DEF SampleType
  <2>5. sample' = [sample EXCEPT ![i] = [sample[i] EXCEPT ![j] = m]]
    BY <1>3, <1>9, <2>1, <2>2, <2>3
  <2>6. CASE d = i /\ x = j
    <3>1. sample'[d][x] = m /\ sample[d][x] = s
      BY <1>9, <2>1, <2>2, <2>5, <2>6
    <3> QED
      BY <1>10, <2>4, <3>1 DEF Match
  <2>7. CASE ~ (d = i /\ x = j)
    <3>1. sample'[d][x] = sample[d][x]
      BY <1>9, <2>1, <2>5, <2>7
    <3> QED
      BY <1>10, <3>1
  <2> QED
    BY <2>6, <2>7
<1>11. ASSUME NEW u \in Threads PROVE Accords(u)'
  <2>1. Accords(u)
    BY <1>4 DEF MatchInv
  <2>2. tls[u] \in described => tls[u] \in Descs
    BY <1>4, IndexBound DEF DescribedInv
  <2>3. tls[u] \in described => \A x \in Samples : \A c :
           Match(sample[tls[u]][x], c) => Match(sample'[tls[u]][x], c)
    BY <1>10, <2>2
  <2> QED
    BY <1>3, <1>4, <1>8, <2>1, <2>3, AccordsKept
<1> QED
  BY <1>5, <1>7, <1>11 DEF MatchInv

LEMMA RecordAccords ==
  ASSUME SInv, NEW r \in Requests, Record(r)
  PROVE  LogInv' /\ DistinctInv' /\ BoundInv' /\ MatchInv'
<1>1. PICK t \in Threads : t = r[1]
  BY Pairs
<1>2. PICK i, j, s : i = tls[t] /\ j = IndexOf(r) /\ s = site[r]
  OBVIOUS
<1>3. PICK e \in Elapsed : /\ sample' = [sample EXCEPT ![i][j] = Measured(@, e)]
                           /\ log' = [log EXCEPT ![t][s][e] = @ + 1]
  BY <1>1, <1>2 DEF Record
<1>4. /\ loc[r] = "open" /\ Move(r, "recorded")
      /\ UNCHANGED <<lastIdx, tls, testIdx, described, valid, job, at>>
  BY DEF Record, words
<1>5. /\ IInv /\ IndexInv /\ DescribedInv /\ SiteInv /\ SampleInv
      /\ LogInv /\ DistinctInv /\ BoundInv /\ MatchInv
  BY DEF SInv, HInv
<1>6. i \in described /\ i \in Descs
  BY <1>1, <1>2, <1>4, <1>5, IndexBound DEF DescribedInv
<1>7. s \in Sites /\ j = testIdx[t][s] /\ j \in Samples /\ j >= 0 /\ j < NextIndex(t)
  BY <1>1, <1>2, <1>4, <1>5 DEF SiteInv, IndexOf
<1>8. r \in Measuring
  BY <1>4 DEF Measuring
<1>9. log[t][s][e] < MaxCalls
  BY <1>5, <1>7, <1>8, RoomForOne
<1>10. /\ LogInv' /\ OneMore(log'[t][s], log[t][s], e)
       /\ \A u \in Threads : u # t => log'[u] = log[u]
       /\ \A x \in Sites : x # s => log'[t][x] = log[t][x]
       /\ Recorded' = Recorded + 1
  BY <1>3, <1>5, <1>7, <1>9, RecordOne
<1>11. DistinctInv'
  BY <1>4, <1>5 DEF DistinctInv
<1>12. BoundInv'
  <2>1. Measuring' = Measuring \ {r}
    BY <1>4, <1>5 DEF Measuring, Move, IInv, LocInv
  <2>2. Cardinality(Measuring \ {r}) = Cardinality(Measuring) - 1
    BY <1>8, RecordsFinite, FS_RemoveElement
  <2> QED
    BY <1>5, <1>10, <2>1, <2>2, RecordsFinite, Times DEF BoundInv
<1>13. \A u \in Threads, x \in Samples : ~ Done(u, x) /\ ~ Done(u, x)'
  BY <1>4, <1>5, MeasuringAlone, StillNone
<1>14. PICK q \in SampleType : q = sample[i][j]
  BY <1>5, <1>6, <1>7 DEF SampleInv
<1>15. PICK m : m = Measured(q, e)
  OBVIOUS
<1>16. /\ sample'[i][j] = m /\ \A x \in Samples : x # j => sample'[i][x] = sample[i][x]
       /\ \A d \in Descs : d # i => sample'[d] = sample[d]
  <2>1. sample \in [Descs -> [Samples -> SampleType]]
    BY <1>5 DEF SampleInv
  <2>2. sample' = [sample EXCEPT ![i] = [sample[i] EXCEPT ![j] = m]]
    BY <1>3, <1>6, <1>7, <1>14, <1>15, <2>1
  <2> QED
    BY <1>6, <1>7, <2>1, <2>2
<1>17. ASSUME NEW u \in Threads, u # t PROVE Accords(u)'
  <2>1. Accords(u)
    BY <1>5 DEF MatchInv
  <2>2. tls[u] \in described => tls[u] \in Descs /\ tls[u] # i
    <3>1. i # 0
      BY <1>5, <1>6 DEF DescribedInv, IndexInv
    <3>2. tls[u] # i
      BY <1>2, <1>5, <1>17, <3>1 DEF IndexInv
    <3> QED
      BY <1>5, <3>2, IndexBound DEF DescribedInv
  <2>3. tls[u] \in described => sample'[tls[u]] = sample[tls[u]]
    BY <1>16, <2>2
  <2> QED
    BY <1>4, <1>5, <1>10, <1>13, <1>17, <2>1, <2>3, AccordsKept
<1>18. Accords(t)'
  <2>1. Unlogged(t) /\ NamedMatch(t) /\ FreshMatch(t)
    BY <1>2, <1>5, <1>6 DEF MatchInv, Accords
  <2>2. Unlogged(t)'
    <3>1. ASSUME NEW x \in Sites, testIdx[t][x] = -1 \/ tls[t] \notin described
          PROVE  log'[t][x] = NothingMeasured
      <4>1. x # s
        BY <1>2, <1>6, <1>7, <3>1
      <4> QED
        BY <1>10, <2>1, <3>1, <4>1 DEF Unlogged
    <3> QED
      BY <1>4, <3>1 DEF Unlogged
  <2>3. FreshMatch(t)'
    <3>1. ASSUME NEW x \in Samples, x >= NextIndex(t) PROVE Match(sample'[i][x], NothingMeasured)
      <4>1. x # j
        BY <1>7, <3>1, SampleNumbers, NextIndexBound
      <4>2. Match(sample[i][x], NothingMeasured)
        BY <1>2, <2>1, <3>1 DEF FreshMatch
      <4> QED
        BY <1>16, <4>1, <4>2
    <3>2. NextIndex(t)' = NextIndex(t)
      BY <1>4, SameIndices
    <3> QED
      BY <1>2, <1>4, <3>1, <3>2 DEF FreshMatch
  <2>4. ASSUME NEW x \in Sites, testIdx[t][x] >= 0
        PROVE  Match(sample'[i][testIdx[t][x]], log'[t][x])
    <3>1. PICK y \in Samples : y = testIdx[t][x]
      BY <1>5, <2>4 DEF SiteInv
    <3>2. Match(sample[i][y], log[t][x])
      BY <1>2, <1>13, <2>1, <2>4, <3>1 DEF NamedMatch
    <3>3. CASE x = s
      <4>1. Match(q, log[t][s])
        BY <1>7, <1>14, <3>1, <3>2, <3>3
      <4>2. Match(m, log'[t][s])
        BY <1>10, <1>15, <4>1, MeasuredMatches
      <4> QED
        BY <1>7, <1>16, <3>3, <4>2
    <3>4. CASE x # s
      <4>1. y # j
        BY <1>5, <1>7, <2>4, <3>1, <3>4 DEF DistinctInv
      <4> QED
        BY <1>10, <1>16, <3>1, <3>2, <3>4, <4>1
    <3> QED
      BY <3>3, <3>4
  <2>5. \A x \in Sites : testIdx[t][x] >= 0 => testIdx[t][x] \in Samples
    BY <1>5 DEF SiteInv
  <2>6. \A x \in Sites : testIdx[t][x] >= 0 => ~ Done(t, testIdx[t][x])'
    BY <1>4, <1>13, <2>5 DEF Done
  <2>7. NamedMatch(t)'
    BY <1>2, <1>4, <2>4, <2>6 DEF NamedMatch
  <2> QED
    BY <2>2, <2>3, <2>7 DEF Accords
<1> QED
  BY <1>10, <1>11, <1>12, <1>17, <1>18 DEF MatchInv

\* Steps that change neither samples nor log.
LEMMA StillAccords ==
  ASSUME SInv, UNCHANGED <<tls, testIdx, described, sample, log>>, Measuring' \in SUBSET Measuring,
         \A t \in Threads, j \in Samples : tls[t] \in described => (Done(t, j)' <=> Done(t, j))
  PROVE  LogInv' /\ DistinctInv' /\ BoundInv' /\ MatchInv'
<1>1. SiteInv /\ LogInv /\ DistinctInv /\ BoundInv /\ MatchInv
  BY DEF SInv, HInv
<1>2. LogInv' /\ DistinctInv' /\ Records' = Records
  BY <1>1, LogKept
<1>3. BoundInv'
  BY <1>1, <1>2, BoundKept
<1>4. ASSUME NEW t \in Threads PROVE Accords(t)'
  <2>1. Accords(t)
    BY <1>1 DEF MatchInv
  <2> QED
    BY <1>1, <2>1, AccordsKept
<1> QED
  BY <1>2, <1>3, <1>4 DEF MatchInv

LEMMA LeaveAccords ==
  ASSUME SInv, NEW r \in Requests, Leave(r)
  PROVE  LogInv' /\ DistinctInv' /\ BoundInv' /\ MatchInv'
<1>1. /\ Move(r, "none") /\ loc[r] # "none"
      /\ UNCHANGED <<tls, testIdx, described, valid, sample, job, at, log>>
  BY DEF Leave, words, tables, histories
<1>2. Measuring' \in SUBSET Measuring
  BY <1>1 DEF Measuring, Move, SInv, HInv, IInv, LocInv
<1>3. \A t \in Threads, j \in Samples : Done(t, j)' <=> Done(t, j)
  BY <1>1 DEF Done
<1> QED
  BY <1>1, <1>2, <1>3, StillAccords

\* While k holds the flag nobody else does.
LEMMA OneHolder ==
  ASSUME IInv, NEW k \in Keepers, job[k] # NoJob
  PROVE  \A m \in Keepers : m # k => job[m] = NoJob
<1>1. k \in Holders
  BY DEF Holders
<1>2. Cardinality(Holders) = 1
  BY <1>1, FlagTells DEF IInv
<1>3. PICK x : Holders = {x}
  BY <1>2, Counts, FS_Singleton
<1>4. \A m \in Keepers : m # k => m \notin Holders
  BY <1>1, <1>3
<1> QED
  BY <1>4 DEF Holders

LEMMA LockAccords ==
  ASSUME SInv, NEW k \in Keepers, NEW j \in Jobs, Lock(k, j)
  PROVE  LogInv' /\ DistinctInv' /\ BoundInv' /\ MatchInv'
<1>1. /\ state = 0 /\ job' = [job EXCEPT ![k] = j] /\ at' = [at EXCEPT ![k] = 1]
      /\ UNCHANGED <<tls, testIdx, described, valid, sample, log, loc>>
  BY DEF Lock, words, tables, histories
<1>2. IInv /\ LocInv /\ KeeperInv /\ DescribedInv /\ lastIdx \in Nat
  BY DEF SInv, HInv, IInv, IndexInv
<1>3. Holders = {}
  BY <1>1, <1>2, FlagTells DEF IInv
<1>4. \A m \in Keepers : job[m] # "reset"
  BY <1>3, ProfilerAssumption DEF Holders
<1>5. \A m \in Keepers : m # k => job'[m] # "reset"
  BY <1>1, <1>2, <1>4 DEF LocInv
<1>6. at'[k] = 1
  BY <1>1, <1>2 DEF KeeperInv
<1>7. ASSUME NEW t \in Threads, NEW x \in Samples, tls[t] \in described
      PROVE  Done(t, x)' <=> Done(t, x)
  <2>1. PICK i \in 1 .. lastIdx : i = tls[t]
    BY <1>2, <1>7 DEF DescribedInv
  <2>2. ~ (tls[t] < 1)
    BY <2>1
  <2>3. ~ Done(t, x)'
    BY <1>1, <1>5, <1>6, <2>2 DEF Done
  <2> QED
    BY <1>4, <2>3 DEF Done
<1>8. Measuring' = Measuring
  BY <1>1 DEF Measuring
<1> QED
  BY <1>1, <1>7, <1>8, StillAccords

LEMMA VisitAccords ==
  ASSUME SInv, NEW k \in Keepers, Visit(k)
  PROVE  LogInv' /\ DistinctInv' /\ BoundInv' /\ MatchInv'
<1>1. PICK i : i = at[k]
  OBVIOUS
<1>2. /\ job[k] \in Jobs /\ i \in described /\ at' = [at EXCEPT ![k] = i + 1]
      /\ UNCHANGED <<tls, testIdx, described, valid, loc, job, log>>
  BY <1>1 DEF Visit, Jobs, words, histories
<1>3. /\ IInv /\ IndexInv /\ DescribedInv /\ SiteInv /\ SampleInv /\ KeeperInv
      /\ LogInv /\ DistinctInv /\ BoundInv /\ MatchInv
  BY DEF SInv, HInv
<1>4. i \in Descs /\ i \in Nat
  BY <1>2, <1>3, IndexBound DEF DescribedInv, IndexInv
<1>5. LogInv' /\ DistinctInv' /\ Records' = Records
  BY <1>2, <1>3, LogKept
<1>6. Measuring' = Measuring
  BY <1>2 DEF Measuring
<1>7. BoundInv'
  BY <1>3, <1>5, <1>6, BoundKept
<1>8. /\ \A x \in Samples : sample'[i][x] = IF x < valid[i] THEN Treated(job[k], sample[i][x])
                                            ELSE sample[i][x]
      /\ \A d \in Descs : d # i => sample'[d] = sample[d]
  BY <1>1, <1>3, <1>4 DEF Visit, SampleInv
<1>9. at'[k] = i + 1 /\ at[k] = i
  BY <1>1, <1>2, <1>3 DEF KeeperInv
<1>10. \A m \in Keepers : m # k => job[m] # "reset"
  BY <1>2, <1>3, OneHolder, ProfilerAssumption DEF Jobs
<1>11. \A u \in Threads, x \in Samples :
          /\ Done(u, x) <=> job[k] = "reset" /\ tls[u] < i /\ x < valid[tls[u]]
          /\ Done(u, x)' <=> job[k] = "reset" /\ tls[u] < i + 1 /\ x < valid[tls[u]]
  BY <1>2, <1>9, <1>10 DEF Done
<1>12. \A u \in Threads : tls[u] \in Nat /\ (tls[u] \in described => tls[u] \in Descs)
  BY <1>3, IndexBound DEF IndexInv, DescribedInv
<1>13. \A x \in Samples : sample[i][x] \in SampleType
  BY <1>3, <1>4 DEF SampleInv
<1>14. ASSUME NEW u \in Threads, tls[u] # i PROVE Accords(u)'
  <2>1. Accords(u)
    BY <1>3 DEF MatchInv
  <2>2. tls[u] < i + 1 <=> tls[u] < i
    BY <1>4, <1>12, <1>14
  <2>3. \A x \in Samples : Done(u, x)' <=> Done(u, x)
    BY <1>11, <2>2
  <2>4. tls[u] \in described => sample'[tls[u]] = sample[tls[u]]
    BY <1>8, <1>12, <1>14
  <2> QED
    BY <1>2, <1>3, <2>1, <2>3, <2>4, AccordsKept
<1>15. ASSUME NEW u \in Threads, tls[u] = i, job[k] = "output" PROVE Accords(u)'
  <2>1. Accords(u)
    BY <1>3 DEF MatchInv
  <2>2. \A x \in Samples : Done(u, x)' <=> Done(u, x)
    BY <1>11, <1>15
  <2>3. ASSUME NEW x \in Samples, NEW c, Match(sample[i][x], c) PROVE Match(sample'[i][x], c)
    <3>1. Match(Treated("output", sample[i][x]), c)
      BY <1>13, <2>3, TreatedMatches
    <3> QED
      BY <1>8, <1>15, <2>3, <3>1
  <2> QED
    BY <1>2, <1>3, <1>15, <2>1, <2>2, <2>3, AccordsKept
<1>16. ASSUME NEW u \in Threads, tls[u] = i, job[k] = "reset" PROVE Accords(u)'
  <2>1. Unlogged(u) /\ NamedMatch(u) /\ FreshMatch(u)
    BY <1>2, <1>3, <1>16 DEF MatchInv, Accords
  <2>2. ASSUME NEW x \in Samples
        PROVE  /\ ~ Done(u, x) /\ (Done(u, x)' <=> x < valid[i])
               /\ x < valid[i] => Match(sample'[i][x], NothingMeasured)
               /\ ~ (x < valid[i]) => sample'[i][x] = sample[i][x]
    <3>1. ~ (i < i) /\ i < i + 1
      BY <1>4
    <3>2. ~ Done(u, x) /\ (Done(u, x)' <=> x < valid[i])
      BY <1>11, <1>16, <3>1
    <3>3. Treated("reset", sample[i][x]) = ResetSample(sample[i][x])
      BY DEF Treated
    <3>4. Match(ResetSample(sample[i][x]), NothingMeasured)
      BY <1>13, ResetMatches
    <3> QED
      BY <1>8, <1>16, <3>2, <3>3, <3>4
  <2>3. FreshMatch(u)'
    <3>1. ASSUME NEW x \in Samples, x >= NextIndex(u) PROVE Match(sample'[i][x], NothingMeasured)
      <4>1. Match(sample[i][x], NothingMeasured)
        BY <1>16, <2>1, <3>1 DEF FreshMatch
      <4> QED
        BY <2>2, <4>1
    <3>2. NextIndex(u)' = NextIndex(u)
      BY <1>2, SameIndices
    <3> QED
      BY <1>2, <1>16, <3>1, <3>2 DEF FreshMatch
  <2>4. NamedMatch(u)'
    <3>1. ASSUME NEW s \in Sites, NEW x \in Samples, x = testIdx[u][s], x >= 0
          PROVE  Match(sample'[i][x], IF Done(u, x)' THEN NothingMeasured ELSE log[u][s])
      <4>1. Match(sample[i][x], log[u][s])
        BY <1>16, <2>1, <2>2, <3>1 DEF NamedMatch
      <4> QED
        BY <2>2, <4>1
    <3>2. \A s \in Sites : testIdx[u][s] >= 0 => testIdx[u][s] \in Samples
      BY <1>3 DEF SiteInv
    <3> QED
      BY <1>2, <1>16, <3>1, <3>2 DEF NamedMatch, Done
  <2>5. Unlogged(u)'
    BY <1>2, <2>1 DEF Unlogged
  <2> QED
    BY <2>3, <2>4, <2>5 DEF Accords
<1> QED
  BY <1>2, <1>5, <1>7, <1>14, <1>15, <1>16 DEF MatchInv, Jobs

\* The end of a Reset: it has been at all the samples it promised.
LEMMA ResetEnds ==
  ASSUME SInv, NEW k \in Keepers, Unlock(k), job[k] = "reset"
  PROVE  LogInv' /\ DistinctInv' /\ BoundInv' /\ MatchInv'
<1>1. /\ at[k] \notin described /\ job' = [job EXCEPT ![k] = NoJob]
      /\ log' = [t \in Threads |-> [s \in Sites |->
                   IF Reached(t, s) THEN NothingMeasured ELSE log[t][s]]]
      /\ UNCHANGED <<lastIdx, tls, testIdx, described, valid, sample, loc>>
  BY DEF Unlock, words, tables
<1>2. /\ IInv /\ LocInv /\ IndexInv /\ DescribedInv /\ SiteInv /\ SampleInv /\ KeeperInv
      /\ LogInv /\ DistinctInv /\ BoundInv /\ MatchInv
  BY DEF SInv, HInv, IInv
<1>3. Holders # {} /\ job[k] # NoJob
  BY ProfilerAssumption DEF Holders
<1>4. lastIdx \in Nat /\ described = 1 .. lastIdx /\ at[k] \in 1 .. lastIdx + 1
  BY <1>2, <1>3, AllDescribed DEF SInv, IndexInv, KeeperInv
<1>5. at[k] = lastIdx + 1
  BY <1>1, <1>4
<1>6. \A m \in Keepers : m # k => job[m] # "reset"
  BY <1>2, <1>3, OneHolder, ProfilerAssumption
<1>7. \A m \in Keepers : job'[m] # "reset"
  BY <1>1, <1>2, <1>6, ProfilerAssumption DEF LocInv
<1>8. \A t \in Threads, s \in Sites :
         log'[t][s] = IF Reached(t, s) THEN NothingMeasured ELSE log[t][s]
  BY <1>1
<1>9. NothingMeasured \in Counted
  BY Times DEF NothingMeasured, Counted
<1>10. LogInv'
  <2>1. \A t \in Threads : log'[t] \in [Sites -> Counted]
    BY <1>1, <1>2, <1>9 DEF LogInv
  <2> QED
    BY <1>1, <2>1 DEF LogInv
<1>11. DistinctInv'
  BY <1>1, <1>2 DEF DistinctInv
<1>12. BoundInv'
  <2>1. ASSUME NEW t \in Threads, NEW s \in Sites, NEW e \in Elapsed, NEW n \in 1 .. MaxCalls,
               n <= log'[t][s][e]
        PROVE  n <= log[t][s][e]
    <3>1. ~ (n <= 0) /\ NothingMeasured[e] = 0
      BY Times DEF NothingMeasured
    <3> QED
      BY <1>8, <2>1, <3>1
  <2>2. Records' \in SUBSET Records
    BY <2>1 DEF Records
  <2>3. Measuring' = Measuring
    BY <1>1 DEF Measuring
  <2> QED
    BY <1>2, <2>2, <2>3, BoundKept
<1>13. ASSUME NEW t \in Threads PROVE Accords(t)'
  <2>1. Accords(t)
    BY <1>2 DEF MatchInv
  <2>2. Unlogged(t)'
    BY <1>1, <1>8, <2>1 DEF Accords, Unlogged
  <2>3. ASSUME tls[t] \in described PROVE NamedMatch(t)' /\ FreshMatch(t)'
    <3>1. tls[t] \in Nat /\ tls[t] # 0 /\ tls[t] < at[k]
      BY <1>4, <1>5, <2>3
    <3>2. FreshMatch(t)'
      <4>1. NextIndex(t)' = NextIndex(t)
        BY <1>1, SameIndices
      <4> QED
        BY <1>1, <2>1, <2>3, <4>1 DEF Accords, FreshMatch
    <3>3. ASSUME NEW s \in Sites, NEW x \in Samples, x = testIdx[t][s]
          PROVE  Match(sample[tls[t]][x], log'[t][s])
      <4>1. x \in Nat
        BY SampleNumbers
      <4>2. Match(sample[tls[t]][x], IF Done(t, x) THEN NothingMeasured ELSE log[t][s])
        BY <2>1, <2>3, <3>3, <4>1 DEF Accords, NamedMatch
      <4>3. valid[tls[t]] \in Nat
        BY <1>2, <2>3, IndexBound DEF SampleInv, DescribedInv
      <4>4. Done(t, x) <=> x < valid[tls[t]]
        BY <3>1, <1>6 DEF Done
      <4>5. Reached(t, s) <=> x < valid[tls[t]]
        BY <3>1, <3>3, <4>1, <4>3 DEF Reached
      <4> QED
        BY <1>8, <4>2, <4>4, <4>5
    <3>4. \A s \in Sites : testIdx[t][s] >= 0 => testIdx[t][s] \in Samples
      BY <1>2 DEF SiteInv
    <3>5. NamedMatch(t)'
      BY <1>1, <1>7, <3>3, <3>4 DEF NamedMatch, Done
    <3> QED
      BY <3>2, <3>5
  <2> QED
    BY <1>1, <2>2, <2>3 DEF Accords
<1> QED
  BY <1>10, <1>11, <1>12, <1>13 DEF MatchInv

LEMMA UnlockAccords ==
  ASSUME SInv, NEW k \in Keepers, Unlock(k)
  PROVE  LogInv' /\ DistinctInv' /\ BoundInv' /\ MatchInv'
<1>1. CASE job[k] = "reset"
  BY <1>1, ResetEnds
<1>2. CASE job[k] # "reset"
  <2>1. /\ job[k] # NoJob /\ job' = [job EXCEPT ![k] = NoJob]
        /\ UNCHANGED <<tls, testIdx, described, valid, sample, log, loc>>
    BY <1>2, ProfilerAssumption DEF Unlock, words, tables
  <2>2. IInv /\ LocInv
    BY DEF SInv, HInv, IInv
  <2>3. \A m \in Keepers : job[m] # "reset"
    BY <1>2, <2>1, <2>2, OneHolder, ProfilerAssumption
  <2>4. \A m \in Keepers : job'[m] # "reset"
    BY <2>1, <2>2, <2>3, ProfilerAssumption DEF LocInv
  <2>5. \A t \in Threads, x \in Samples : Done(t, x)' <=> Done(t, x)
    BY <2>3, <2>4 DEF Done
  <2>6. Measuring' = Measuring
    BY <2>1 DEF Measuring
  <2> QED
    BY <2>1, <2>5, <2>6, StillAccords
<1> QED
  BY <1>1, <1>2

-------------------------------------------------------------------------------
LEMMA InitAccords == Init => SInv
<1> SUFFICES ASSUME Init PROVE SInv
  OBVIOUS
<1>1. HInv
  BY InitHidden
<1>2. /\ log = [t \in Threads |-> [s \in Sites |-> NothingMeasured]]
      /\ testIdx = [t \in Threads |-> [s \in Sites |-> -1]]
      /\ described = {} /\ loc = [r \in Requests |-> "none"]
  BY DEF Init
<1>3. LogInv
  <2>1. NothingMeasured \in Counted
    BY Times DEF NothingMeasured, Counted
  <2> QED
    BY <1>2, <2>1 DEF LogInv
<1>4. DistinctInv
  <2>1. \A t \in Threads, s \in Sites : testIdx[t][s] = -1 /\ ~ (-1 >= 0)
    BY <1>2
  <2> QED
    BY <2>1 DEF DistinctInv
<1>5. BoundInv
  <2>1. Measuring = {}
    BY <1>2 DEF Measuring
  <2>2. Records = {}
    <3>1. ASSUME NEW t \in Threads, NEW s \in Sites, NEW e \in Elapsed, NEW n \in 1 .. MaxCalls,
                 n <= log[t][s][e]
          PROVE  FALSE
      <4>1. log[t][s][e] = 0
        BY <1>2 DEF NothingMeasured
      <4> QED
        BY <3>1, <4>1, Times
    <3> QED
      BY <3>1 DEF Records
  <2>3. Cardinality({}) = 0
    BY FS_EmptySet
  <2>4. Cardinality(Measuring) = 0 /\ Cardinality(Records) = 0
    BY <2>1, <2>2, <2>3
  <2> QED
    BY <2>4, RecordsFinite, Times DEF BoundInv
<1>6. MatchInv
  BY <1>2 DEF MatchInv, Accords, Unlogged
<1> QED
  BY <1>1, <1>3, <1>4, <1>5, <1>6 DEF SInv

LEMMA StepAccords == SInv /\ [Next]_vars => SInv'
<1> SUFFICES ASSUME SInv, [Next]_vars PROVE SInv'
  OBVIOUS
<1>1. HInv'
  BY StepHidden DEF SInv
<1>2. ASSUME NEW r \in Requests, RequestStep(r)
      PROVE  LogInv' /\ DistinctInv' /\ BoundInv' /\ MatchInv'
  BY <1>2, BeginAccords, AllocIndexAccords, DescribeAccords, UseSampleAccords, RecordAccords,
     LeaveAccords DEF RequestStep
<1>3. ASSUME NEW k \in Keepers, KeeperStep(k)
      PROVE  LogInv' /\ DistinctInv' /\ BoundInv' /\ MatchInv'
  BY <1>3, LockAccords, VisitAccords, UnlockAccords DEF KeeperStep, Jobs
<1>4. CASE UNCHANGED vars
  <2>1. UNCHANGED <<tls, testIdx, described, valid, sample, log, loc, job, at>>
    BY <1>4 DEF vars, words, tables, histories
  <2>2. Measuring' = Measuring /\ \A t \in Threads, x \in Samples : Done(t, x)' <=> Done(t, x)
    BY <2>1 DEF Measuring, Done
  <2>3. LogInv' /\ DistinctInv' /\ BoundInv' /\ MatchInv'
    BY <2>1, <2>2, StillAccords
  <2> QED
    BY <1>1, <2>3 DEF SInv
<1> QED
  BY <1>1, <1>2, <1>3, <1>4 DEF Next, SInv

\* Between two Resets every sample holds what was measured and nothing else: no
\* measurement straddles a Reset, none is made by two threads in one sample.
THEOREM SamplesExactAlways == Spec => []SamplesExact
<1>1. Init => SInv
  BY InitAccords
<1>2. SInv /\ [Next]_vars => SInv'
  BY StepAccords
<1>3. SInv => SamplesExact
  <2>1. SUFFICES ASSUME SInv, \A k \in Keepers : job[k] # "reset",
                        NEW t \in Threads, NEW s \in Sites, tls[t] \in described, testIdx[t][s] >= 0,
                        NEW smp, smp = sample[tls[t]][testIdx[t][s]], NEW c, c = log[t][s]
                 PROVE  /\ smp.callNum = Calls(c, Elapsed)
                        /\ smp.totalTime = MapThenSumSet(LAMBDA e : e * c[e], Elapsed)
                        /\ smp.iMax = <<KthGreatest(c, 1), KthGreatest(c, 2)>>
                        /\ \A k \in 1 .. 2 : smp.iMin[k] \in {KthLeast(c, k), 0}
    BY DEF SamplesExact
  <2>2. ~ Done(t, testIdx[t][s])
    BY <2>1 DEF Done
  <2>3. NamedMatch(t)
    BY <2>1 DEF SInv, MatchInv, Accords
  <2>4. Match(smp, c)
    BY <2>1, <2>2, <2>3 DEF NamedMatch
  <2>5. smp.totalTime = MapThenSumSet(LAMBDA e : e * c[e], Elapsed)
    BY <2>4 DEF Match, Total
  <2>6. \A k \in 1 .. 2 : k = 1 \/ k = 2
    OBVIOUS
  <2> QED
    BY <2>4, <2>5, <2>6 DEF Match
<1> QED
  BY <1>1, <1>2, <1>3, PTL DEF Spec
================================================================================
