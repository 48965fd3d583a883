-------------------------------- MODULE Profiler --------------------------------
(***************************************************************************)
(* The multithreaded profiler: PROFILE(num, tag) opens a PROFILE_REQUEST   *)
(* whose constructor and destructor measure the scope they stand in, each  *)
(* thread into the samples of a descriptor of its own.  PROFILER::Reset    *)
(* and PROFILER::ProfileDataOutText go over the descriptors of all threads.*)
(*                                                                         *)
(* One word, state, keeps them apart: its low bits count the requests in   *)
(* existence, its top bit is taken by a Reset or an output, which waits    *)
(* for the whole word to be 0.  A request that finds the bit set measures  *)
(* nothing.  There is no other synchronisation: every plain access below   *)
(* relies on it.                                                           *)
(*                                                                         *)
(* A step is one interlocked operation, or the plain accesses between two. *)
(***************************************************************************)
EXTENDS Integers, FiniteSets, FiniteSetsExt

CONSTANTS
  Threads,       \* threads with measured scopes
  Keepers,       \* threads that call Reset and ProfileDataOutText
  Sites,         \* the PROFILE statements of the program
  MaxDepth,      \* bound: scopes a thread has nested in one another
  ThreadNum,     \* DESC_ARR has the indices 0 .. ThreadNum
  RELEASE_FLAG,  \* the top bit of state
  UINT_MAX,      \* the value iMin starts with
  Elapsed,       \* times a scope may take
  MaxCalls,      \* bound: measurements under way or recorded since a Reset
  NoSite, NoJob

Descs    == 1 .. ThreadNum
Samples  == 0 .. Cardinality(Sites) - 1
Requests == Threads \X (1 .. MaxDepth)

\* The loops over DESC_ARR end at a nullptr: with a thread for each of its
\* entries they read past it.
ASSUME ProfilerAssumption ==
    /\ ThreadNum \in Nat /\ Cardinality(Threads) < ThreadNum
    /\ IsFiniteSet(Threads) /\ IsFiniteSet(Keepers) /\ IsFiniteSet(Sites)
    /\ MaxDepth \in Nat \ {0} /\ MaxCalls \in Nat
    /\ RELEASE_FLAG \in Nat /\ Cardinality(Requests) < RELEASE_FLAG
    /\ UINT_MAX \in Nat /\ Elapsed \subseteq 1 .. UINT_MAX - 1
    /\ NoSite \notin Sites /\ NoJob \notin {"reset", "output"}

VARIABLES
  state,          \* PROFILER::state
  lastIdx,        \* PROFILE_DESC_IDX_ALLOCATOR
  tls,            \* TlsGetValue(tlsIdx) of each thread
  testIdx,        \* test_Index of each thread and statement, -1 before its first pass
  described,      \* the i with DESC_ARR[i] # nullptr
  valid,          \* validSampleNumber_
  sample,         \* pProfileSampleArr_
  loc, site,      \* where each request is, and the statement it belongs to
  job, at,        \* what each keeper is doing, and its loop variable
  log,            \* history: what was measured since a Reset reached the sample
  turnedAway      \* history: threads that were refused the first pass of a statement

words     == <<lastIdx, tls, testIdx>>
tables    == <<described, valid, sample>>
histories == <<log, turnedAway>>
vars == <<state, words, tables, loc, site, job, at, histories>>

HasFlag(s) == s >= RELEASE_FLAG

\* s & ~RELEASE_FLAG
ClearFlag(s) == IF HasFlag(s) THEN s - RELEASE_FLAG ELSE s

ResetSample(s) ==
    [s EXCEPT !.callNum = 0, !.totalTime = 0,
              !.iMin = <<UINT_MAX, UINT_MAX>>, !.iMax = <<0, 0>>]

NewSample == ResetSample([used |-> FALSE, callNum |-> 0, totalTime |-> 0,
                          iMin |-> <<0, 0>>, iMax |-> <<0, 0>>])

NothingMeasured == [e \in Elapsed |-> 0]

Init ==
    /\ state = 0 /\ lastIdx = 0
    /\ tls = [t \in Threads |-> 0]
    /\ testIdx = [t \in Threads |-> [s \in Sites |-> -1]]
    /\ described = {}
    /\ valid = [i \in Descs |-> 0]
    /\ sample = [i \in Descs |-> [j \in Samples |-> NewSample]]
    /\ loc = [r \in Requests |-> "none"] /\ site = [r \in Requests |-> NoSite]
    /\ job = [k \in Keepers |-> NoJob] /\ at = [k \in Keepers |-> 0]
    /\ log = [t \in Threads |-> [s \in Sites |-> NothingMeasured]]
    /\ turnedAway = {}

-------------------------------------------------------------------------------
\* The requests of a thread are nested: the innermost one is the running one.
Innermost(r) == \A d \in r[2] + 1 .. MaxDepth : loc[<<r[1], d>>] = "none"
Enclosed(r)  == \A d \in 1 .. r[2] - 1 : loc[<<r[1], d>>] \in {"open", "refused"}

Move(r, l) == loc' = [loc EXCEPT ![r] = l]

Active    == {r \in Requests : loc[r] # "none"}
Measuring == {r \in Requests : loc[r] \in {"index", "describe", "sample", "open"}}

\* How many of the measurements in c took a time of S; the recorded ones of all.
Calls(c, S) == Cardinality({x \in S \X (1 .. MaxCalls) : x[2] <= c[x[1]]})
Recorded    == Cardinality({x \in (Threads \X Sites) \X (Elapsed \X (1 .. MaxCalls)) :
                              x[2][2] <= log[x[1][1]][x[1][2]][x[2][1]]})

IndexOf(r)    == testIdx[r[1]][site[r]]
NextIndex(t)  == Cardinality({s \in Sites : testIdx[t][s] >= 0})

\* The statement's thread_local index on its first pass, then
\* InterlockedIncrement(&state) and the test of what it returns.
Begin(r, s) ==
    /\ loc[r] = "none" /\ Enclosed(r)
    /\ Cardinality(Active) + Recorded < MaxCalls
    /\ LET first   == testIdx[r[1]][s] = -1
           refused == HasFlag(state + 1)
       IN  /\ testIdx' = IF first THEN [testIdx EXCEPT ![r[1]][s] = NextIndex(r[1])] ELSE testIdx
           /\ turnedAway' = IF first /\ refused THEN turnedAway \cup {r[1]} ELSE turnedAway
           /\ Move(r, IF refused THEN "refused" ELSE IF tls[r[1]] = 0 THEN "index" ELSE "sample")
    /\ state' = state + 1
    /\ site' = [site EXCEPT ![r] = s]
    /\ UNCHANGED <<lastIdx, tls, tables, job, at, log>>

\* Mutation: two threads may be given one index.
AllocIndexShared(r) ==
    /\ loc[r] = "index"
    /\ lastIdx' = lastIdx + 1
    /\ tls' = [tls EXCEPT ![r[1]] = 1]
    /\ Move(r, "describe")
    /\ UNCHANGED <<state, testIdx, tables, site, job, at, histories>>

\* AllocSampleArrayIndex and TlsSetValue
AllocIndex(r) ==
    /\ loc[r] = "index"
    /\ lastIdx' = lastIdx + 1
    /\ tls' = [tls EXCEPT ![r[1]] = lastIdx + 1]
    /\ Move(r, "describe")
    /\ UNCHANGED <<state, testIdx, tables, site, job, at, histories>>

\* DESC_ARR[idx] = new PROFILE_SAMPLE_DESCRIPTOR
Describe(r) ==
    /\ loc[r] = "describe"
    /\ LET i == tls[r[1]]
       IN  /\ described' = described \cup {i}
           /\ valid'  = [valid EXCEPT ![i] = 0]
           /\ sample' = [sample EXCEPT ![i] = [j \in Samples |-> NewSample]]
    /\ Move(r, "sample")
    /\ UNCHANGED <<state, words, site, job, at, histories>>

\* The sample gets its name on its first use; the measurement starts.
UseSample(r) ==
    /\ loc[r] = "sample"
    /\ LET i == tls[r[1]]
           j == IndexOf(r)
       IN  /\ sample' = [sample EXCEPT ![i][j].used = TRUE]
           /\ valid'  = IF sample[i][j].used THEN valid ELSE [valid EXCEPT ![i] = @ + 1]
    /\ Move(r, "open")
    /\ UNCHANGED <<state, words, described, site, job, at, histories>>

\* The sample after one more measurement: the two least and two greatest times.
Measured(s, e) ==
    [s EXCEPT !.callNum = @ + 1, !.totalTime = @ + e,
              !.iMin = IF e < @[1] THEN <<e, @[1]>> ELSE IF e < @[2] THEN <<@[1], e>> ELSE @,
              !.iMax = IF e > @[1] THEN <<e, @[1]>> ELSE IF e > @[2] THEN <<@[1], e>> ELSE @]

\* ~PROFILE_REQUEST of a request that measured
Record(r) ==
    /\ loc[r] = "open" /\ Innermost(r)
    /\ \E e \in Elapsed :
         /\ sample' = [sample EXCEPT ![tls[r[1]]][IndexOf(r)] = Measured(@, e)]
         /\ log' = [log EXCEPT ![r[1]][site[r]][e] = @ + 1]
    /\ Move(r, "recorded")
    /\ UNCHANGED <<state, words, described, valid, site, job, at, turnedAway>>

\* InterlockedDecrement(&state), of both kinds of request
Leave(r) ==
    /\ loc[r] \in {"refused", "recorded"} /\ Innermost(r)
    /\ state' = state - 1
    /\ Move(r, "none")
    /\ site' = [site EXCEPT ![r] = NoSite]
    /\ UNCHANGED <<words, tables, job, at, histories>>

-------------------------------------------------------------------------------
\* Mutation: the flag is taken although requests are under way.
LockEarly(k, j) ==
    /\ job[k] = NoJob
    /\ ~HasFlag(state)
    /\ state' = state + RELEASE_FLAG
    /\ job' = [job EXCEPT ![k] = j] /\ at' = [at EXCEPT ![k] = 1]
    /\ UNCHANGED <<words, tables, loc, site, histories>>

\* Reset or ProfileDataOutText, when its InterlockedCompareExchange succeeds.
Lock(k, j) ==
    /\ job[k] = NoJob
    /\ state = 0
    /\ state' = RELEASE_FLAG
    /\ job' = [job EXCEPT ![k] = j] /\ at' = [at EXCEPT ![k] = 1]
    /\ UNCHANGED <<words, tables, loc, site, histories>>

\* What each loop does to one sample: PROFILE_SAMPLE::Reset, and the output's
\* replacement of what is left of UINT_MAX.
Treated(j, s) ==
    IF j = "reset" THEN ResetSample(s)
    ELSE [s EXCEPT !.iMin = [m \in 1 .. 2 |-> IF @[m] = UINT_MAX THEN 0 ELSE @[m]]]

\* Mutation: the last of the valid samples is left out.
VisitAllButLast(k) ==
    /\ job[k] \in {"reset", "output"} /\ at[k] \in described
    /\ sample' = [sample EXCEPT ![at[k]] = [j \in Samples |->
                      IF j < valid[at[k]] - 1 THEN Treated(job[k], @[j]) ELSE @[j]]]
    /\ at' = [at EXCEPT ![k] = @ + 1]
    /\ UNCHANGED <<state, words, described, valid, loc, site, job, histories>>

\* One descriptor, as long as DESC_ARR[i] # nullptr.
Visit(k) ==
    /\ job[k] \in {"reset", "output"} /\ at[k] \in described
    /\ sample' = [sample EXCEPT ![at[k]] = [j \in Samples |->
                      IF j < valid[at[k]] THEN Treated(job[k], @[j]) ELSE @[j]]]
    /\ at' = [at EXCEPT ![k] = @ + 1]
    /\ UNCHANGED <<state, words, described, valid, loc, site, job, histories>>

\* The samples a Reset promises to bring back to nothing.
Reached(t, s) == tls[t] # 0 /\ testIdx[t][s] \in 0 .. valid[tls[t]] - 1

\* The loop met a nullptr: InterlockedAnd(&state, ~RELEASE_FLAG).
Unlock(k) ==
    /\ job[k] \in {"reset", "output"} /\ at[k] \notin described
    /\ state' = ClearFlag(state)
    /\ log' = IF job[k] # "reset" THEN log
              ELSE [t \in Threads |-> [s \in Sites |->
                      IF Reached(t, s) THEN NothingMeasured ELSE log[t][s]]]
    /\ job' = [job EXCEPT ![k] = NoJob] /\ at' = [at EXCEPT ![k] = 0]
    /\ UNCHANGED <<words, tables, loc, site, turnedAway>>

-------------------------------------------------------------------------------
RequestStep(r) ==
    \/ \E s \in Sites : Begin(r, s)
    \/ AllocIndex(r) \/ Describe(r) \/ UseSample(r) \/ Record(r) \/ Leave(r)

KeeperStep(k) ==
    (\E j \in {"reset", "output"} : Lock(k, j)) \/ Visit(k) \/ Unlock(k)

Next == (\E r \in Requests : RequestStep(r)) \/ (\E k \in Keepers : KeeperStep(k))

Spec == Init /\ [][Next]_vars

-------------------------------------------------------------------------------
Locs == {"none", "index", "describe", "sample", "open", "recorded", "refused"}

\* Every variable has its type; state is a counter with a flag, never negative.
TypeOK ==
    /\ state \in 0 .. 2 * RELEASE_FLAG - 1
    /\ lastIdx \in 0 .. ThreadNum
    /\ tls \in [Threads -> 0 .. ThreadNum]
    /\ testIdx \in [Threads -> [Sites -> Samples \cup {-1}]]
    /\ described \subseteq Descs
    /\ valid \in [Descs -> 0 .. Cardinality(Sites)]
    /\ loc \in [Requests -> Locs] /\ site \in [Requests -> Sites \cup {NoSite}]
    /\ job \in [Keepers -> {"reset", "output", NoJob}]
    /\ at \in [Keepers -> 0 .. ThreadNum]
    /\ turnedAway \subseteq Threads

Holders == {k \in Keepers : job[k] # NoJob}

\* While a Reset or an output goes over the samples nobody else does, and no
\* request is measuring: the ones that exist were refused, and all state is is
\* the count of the requests that exist and the flag.
Exclusion ==
    /\ Cardinality(Holders) <= 1
    /\ Holders # {} => Measuring = {} /\ \A r \in Requests : loc[r] # "recorded"
    /\ state = Cardinality(Active) + RELEASE_FLAG * Cardinality(Holders)

\* The k-th least and the k-th greatest of the times measured.
KthLeast(c, k) ==
    LET S == {e \in Elapsed : Calls(c, {x \in Elapsed : x <= e}) >= k}
    IN  IF S = {} THEN UINT_MAX ELSE Min(S)
KthGreatest(c, k) ==
    LET S == {e \in Elapsed : Calls(c, {x \in Elapsed : x >= e}) >= k}
    IN  IF S = {} THEN 0 ELSE Max(S)

\* Unless a Reset is under way, every sample holds exactly what was measured
\* since a Reset reached it: the number of calls, their total, the two greatest
\* times and the two least (or 0, once an output has written 0 for UINT_MAX).
\* No measurement straddles a Reset, none is taken by two threads at once.
SamplesExact ==
    (\A k \in Keepers : job[k] # "reset") =>
      \A t \in Threads, s \in Sites :
        tls[t] \in described /\ testIdx[t][s] >= 0 =>
          LET smp == sample[tls[t]][testIdx[t][s]]
              c   == log[t][s]
          IN  /\ smp.callNum = Calls(c, Elapsed)
              /\ smp.totalTime = MapThenSumSet(LAMBDA e : e * c[e], Elapsed)
              /\ smp.iMax = <<KthGreatest(c, 1), KthGreatest(c, 2)>>
              /\ \A k \in 1 .. 2 : smp.iMin[k] \in {KthLeast(c, k), 0}

\* The loops of Reset and of the output miss nothing: no descriptor stands behind
\* a nullptr, and the used samples of a thread are its first validSampleNumber_
\* ones, unless the thread was refused the first pass of a statement.
NothingHidden ==
    /\ TypeOK
    /\ Holders # {} => described = 1 .. lastIdx
    /\ \A t \in Threads \ turnedAway :
         tls[t] \in described =>
           {j \in Samples : sample[tls[t]][j].used} = 0 .. valid[tls[t]] - 1

================================================================================
