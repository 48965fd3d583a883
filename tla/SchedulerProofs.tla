---------------------------- MODULE SchedulerProofs ----------------------------
(***************************************************************************)
(* Proofs about Scheduler and the UpdateGate it extends, for any servers,  *)
(* workers, updates and limits.                                            *)
(*                                                                         *)
(* The argument about the gate: the worker inside and the value of the     *)
(* gate determine each other.  Nobody inside means the gate is 0, so only  *)
(* then Enter lets a worker in; and a call turned away raises the gate     *)
(* above 1, so the decrement of the worker inside cannot bring it to 0.    *)
(*                                                                         *)
(* What is proved of UpdateGate holds through the whole life of the        *)
(* thread, and no server comes back from Release_SchedulerThread before    *)
(* its last post.                                                          *)
(*                                                                         *)
(* The arithmetic of FrameTimer: every state a schedule or the runs of     *)
(* Update can reach has the next wait, or the frame begun, in step with    *)
(* the first time, and a round or a run leads from such states to such.    *)
(***************************************************************************)
EXTENDS Scheduler, FiniteSetTheorems, TLAPS

GateNat == \A u \in Updates : gate[u] >= 0

\* The inductive invariant: gate and worker inside, and what the gate still owes.
IInv == TypeOK /\ GateNat /\ GateTellsOwner /\ Serialized /\ NoLostUpdate

LEMMA InitIInv == Init => IInv
<1> SUFFICES ASSUME Init PROVE IInv
  OBVIOUS
<1> USE DEF Init
<1>1. TypeOK
  <2>1. /\ gate \in [Updates -> Int] /\ unProcessed \in [Updates -> Int]
        /\ queue \in [Updates -> Nat] /\ owed \in [Updates -> Nat]
    OBVIOUS
  <2>2. /\ pc \in [Workers -> {"idle", "enter", "run", "impl", "rearm", "leave", "done"}]
        /\ cur \in [Workers -> Updates \cup {None}]
        /\ \A w \in Workers : pc[w] # "idle" => cur[w] \in Updates
    OBVIOUS
  <2>3. todo \in SUBSET Updates
    OBVIOUS
  <2> QED
    BY <2>1, <2>2, <2>3 DEF TypeOK
<1>2. \A w \in Workers, u \in Updates : ~Inside(w, u)
  BY DEF Inside
<1>3. \A u \in Updates : gate[u] = 0 /\ owed[u] = 0
  OBVIOUS
<1>4. GateNat /\ GateTellsOwner /\ Serialized
  BY <1>2, <1>3 DEF GateNat, GateTellsOwner, Serialized
<1>5. NoLostUpdate
  BY <1>3 DEF NoLostUpdate
<1> QED
  BY <1>1, <1>4, <1>5 DEF IInv

\* Every step keeps the types.
LEMMA TypeStep == TypeOK /\ [Next]_vars => TypeOK'
<1> SUFFICES ASSUME TypeOK, [Next]_vars PROVE TypeOK'
  OBVIOUS
<1> USE DEF TypeOK, gateVars, workerVars, schedVars
<1>1. ASSUME NEW w \in Workers, WorkerStep(w) PROVE TypeOK'
  <2>1. CASE Enter(w)
    BY <2>1 DEF Enter, Goto
  <2>2. CASE BeginImpl(w)
    BY <2>2 DEF BeginImpl, Goto
  <2>3. CASE EndImpl(w)
    BY <2>3 DEF EndImpl, Goto
  <2>4. CASE Rearm(w)
    BY <2>4 DEF Rearm, Goto
  <2>5. CASE Leave(w)
    BY <2>5 DEF Leave, Goto
  <2>6. CASE Finish(w)
    BY <2>6 DEF Finish, Goto
  <2> QED
    BY <1>1, <2>1, <2>2, <2>3, <2>4, <2>5, <2>6 DEF WorkerStep
<1>2. ASSUME NEW w \in Workers, NEW u \in Updates, Take(w, u) PROVE TypeOK'
  BY <1>2 DEF Take, Goto
<1>3. CASE SchedulerStep
  <2>1. CASE Wait
    BY <2>1 DEF Wait
  <2>2. CASE Increment
    BY <2>2 DEF Increment
  <2>3. CASE Post
    BY <2>3 DEF Post
  <2>4. ASSUME NEW u \in Updates, First(u) PROVE TypeOK'
    BY <2>4 DEF First
  <2>5. ASSUME NEW u \in Updates, Check(u) PROVE TypeOK'
    BY <2>5 DEF Check
  <2> QED
    BY <1>3, <2>1, <2>2, <2>3, <2>4, <2>5 DEF SchedulerStep
<1>4. CASE Terminate
  BY <1>4 DEF Terminate
<1>5. CASE UNCHANGED vars
  BY <1>5 DEF vars
<1> QED
  BY <1>1, <1>2, <1>3, <1>4, <1>5 DEF Next

\* A step that moves no worker across a gate and leaves the gates alone.
LEMMA GateFrame ==
  ASSUME GateNat, GateTellsOwner, Serialized, NoLostUpdate,
         UNCHANGED gateVars,
         \A w \in Workers, u \in Updates : Inside(w, u)' <=> Inside(w, u),
         \A w \in Workers : pc'[w] \in {"impl", "leave"} => pc[w] \in {"impl", "leave"}
  PROVE  GateNat' /\ GateTellsOwner' /\ Serialized' /\ NoLostUpdate'
  BY DEF GateNat, GateTellsOwner, Serialized, NoLostUpdate, gateVars

\* Every step keeps the correspondence of gate and worker.
LEMMA GateStep == IInv /\ [Next]_vars => IInv'
<1> SUFFICES ASSUME IInv, [Next]_vars PROVE IInv'
  OBVIOUS
<1>t. TypeOK /\ TypeOK'
  BY TypeStep DEF IInv
<1> DEFINE G == GateNat /\ GateTellsOwner /\ Serialized /\ NoLostUpdate
<1>g. G
  BY DEF IInv
<1>1. ASSUME NEW w \in Workers, Enter(w) PROVE G'
  <2>1. cur[w] \in Updates /\ cur' = cur
    BY <1>1, <1>t DEF Enter, TypeOK
  <2>2. CASE gate[cur[w]] > 0
    <3>1. \A v \in Workers, u \in Updates : Inside(v, u)' <=> Inside(v, u)
      BY <1>1, <1>t, <2>1, <2>2 DEF Enter, Goto, Inside, TypeOK
    <3>2. \A u \in Updates : gate'[u] = IF u = cur[w] THEN gate[u] + 1 ELSE gate[u]
      BY <1>1, <1>t, <2>1 DEF Enter, TypeOK
    <3>3. GateNat' /\ GateTellsOwner' /\ Serialized'
      <4>1. GateNat'
        BY <1>t, <1>g, <2>2, <3>2 DEF GateNat, TypeOK
      <4>2. \A u \in Updates : gate'[u] = 0 <=> gate[u] = 0
        BY <1>t, <2>2, <3>2 DEF TypeOK
      <4>3. GateTellsOwner'
        BY <1>g, <3>1, <4>2 DEF GateTellsOwner
      <4>4. Serialized'
        BY <1>g, <3>1 DEF Serialized
      <4> QED
        BY <4>1, <4>3, <4>4
    <3>4. NoLostUpdate'
      <4> SUFFICES ASSUME NEW u \in Updates, owed'[u] > 0
                   PROVE  \E v \in Workers : /\ Inside(v, u)'
                                             /\ pc'[v] \in {"impl", "leave"} => gate'[u] > 1
        BY DEF NoLostUpdate
      <4>1. CASE u = cur[w]
        <5>1. PICK v \in Workers : Inside(v, u)
          BY <1>g, <2>2, <4>1 DEF GateTellsOwner
        <5> QED
          BY <1>t, <2>2, <3>1, <3>2, <4>1, <5>1 DEF TypeOK
      <4>2. CASE u # cur[w]
        <5>1. owed'[u] = owed[u]
          BY <1>1, <1>t, <4>2 DEF Enter, TypeOK
        <5>2. PICK v \in Workers : /\ Inside(v, u)
                                   /\ pc[v] \in {"impl", "leave"} => gate[u] > 1
          BY <1>g, <5>1 DEF NoLostUpdate
        <5>3. v # w
          BY <4>2, <5>2 DEF Inside
        <5>4. pc'[v] = pc[v]
          BY <1>1, <1>t, <5>3 DEF Enter, Goto, TypeOK
        <5> QED
          BY <3>1, <3>2, <4>2, <5>2, <5>4
      <4> QED
        BY <4>1, <4>2
    <3> QED
      BY <3>3, <3>4
  <2>3. CASE ~(gate[cur[w]] > 0)
    <3>1. gate[cur[w]] = 0
      BY <1>t, <1>g, <2>1, <2>3 DEF GateNat, TypeOK
    <3>2. \A v \in Workers : ~Inside(v, cur[w])
      BY <1>g, <2>1, <3>1 DEF GateTellsOwner
    <3>3. owed' = owed /\ pc' = [pc EXCEPT ![w] = "run"]
          /\ gate' = [gate EXCEPT ![cur[w]] = @ + 1]
      BY <1>1, <2>3 DEF Enter, Goto
    <3>4. Inside(w, cur[w])'
      BY <1>t, <2>1, <3>3 DEF Inside, TypeOK
    <3>5. \A v \in Workers, u \in Updates :
            u # cur[w] => (Inside(v, u)' <=> Inside(v, u))
      BY <1>t, <2>1, <3>3 DEF Inside, TypeOK
    <3>6. \A v \in Workers : Inside(v, cur[w])' => v = w
      BY <1>t, <2>1, <3>2, <3>3 DEF Inside, TypeOK
    <3>7. \A u \in Updates : gate'[u] = IF u = cur[w] THEN 1 ELSE gate[u]
      BY <1>t, <2>1, <3>1, <3>3 DEF TypeOK
    <3>8. GateNat' /\ GateTellsOwner' /\ Serialized'
      BY <1>g, <2>1, <3>4, <3>5, <3>6, <3>7 DEF GateNat, GateTellsOwner, Serialized
    <3>9. NoLostUpdate'
      BY <1>t, <1>g, <2>1, <3>2, <3>3, <3>5, <3>7 DEF NoLostUpdate, Inside, TypeOK
    <3> QED
      BY <3>8, <3>9
  <2> QED
    BY <2>2, <2>3
<1>2. ASSUME NEW w \in Workers, BeginImpl(w) PROVE G'
  <2>1. \A v \in Workers, u \in Updates : Inside(v, u)' <=> Inside(v, u)
    BY <1>2, <1>t DEF BeginImpl, Goto, Inside, TypeOK
  <2>2. GateNat' /\ GateTellsOwner' /\ Serialized'
    BY <1>2, <1>g, <2>1 DEF BeginImpl, GateNat, GateTellsOwner, Serialized
  <2>3. NoLostUpdate'
    BY <1>2, <1>t, <1>g, <2>1 DEF BeginImpl, Goto, NoLostUpdate, Inside, TypeOK
  <2> QED
    BY <2>2, <2>3
<1>3. ASSUME NEW w \in Workers, EndImpl(w) PROVE G'
  <2>1. \A v \in Workers, u \in Updates : Inside(v, u)' <=> Inside(v, u)
    BY <1>3, <1>t DEF EndImpl, Goto, Inside, TypeOK
  <2>2. \A v \in Workers : pc'[v] \in {"impl", "leave"} => pc[v] \in {"impl", "leave"}
    BY <1>3, <1>t DEF EndImpl, Goto, TypeOK
  <2> QED
    BY <1>3, <1>g, <2>1, <2>2, GateFrame DEF EndImpl
<1>4. ASSUME NEW w \in Workers, Rearm(w) PROVE G'
  <2>1. cur[w] \in Updates /\ Inside(w, cur[w])
    BY <1>4, <1>t DEF Rearm, Inside, TypeOK
  <2>2. \A v \in Workers, u \in Updates : Inside(v, u)' <=> Inside(v, u)
    BY <1>4, <1>t DEF Rearm, Goto, Inside, TypeOK
  <2>3. \A u \in Updates : gate'[u] = IF u = cur[w] THEN 1 ELSE gate[u]
    BY <1>4, <1>t, <2>1 DEF Rearm, TypeOK
  <2>4. GateNat' /\ GateTellsOwner' /\ Serialized'
    BY <1>g, <2>1, <2>2, <2>3 DEF GateNat, GateTellsOwner, Serialized
  <2>5. NoLostUpdate'
    <3> SUFFICES ASSUME NEW u \in Updates, owed'[u] > 0
                 PROVE  \E v \in Workers : /\ Inside(v, u)'
                                           /\ pc'[v] \in {"impl", "leave"} => gate'[u] > 1
      BY DEF NoLostUpdate
    <3>1. CASE u = cur[w]
      <4>1. pc'[w] = "run"
        BY <1>4, <1>t DEF Rearm, Goto, TypeOK
      <4> QED
        BY <2>1, <2>2, <3>1, <4>1
    <3>2. CASE u # cur[w]
      BY <1>4, <1>t, <1>g, <2>1, <2>2, <2>3, <3>2
         DEF Rearm, Goto, NoLostUpdate, Inside, TypeOK
    <3> QED
      BY <3>1, <3>2
  <2> QED
    BY <2>4, <2>5
<1>5. ASSUME NEW w \in Workers, Leave(w) PROVE G'
  <2>1. cur[w] \in Updates /\ Inside(w, cur[w]) /\ pc[w] = "leave"
    BY <1>5, <1>t DEF Leave, Inside, TypeOK
  <2>2. \A u \in Updates : gate'[u] = IF u = cur[w] THEN gate[u] - 1 ELSE gate[u]
    BY <1>5, <1>t, <2>1 DEF Leave, TypeOK
  <2>3. gate[cur[w]] >= 1
    BY <1>t, <1>g, <2>1 DEF GateNat, GateTellsOwner, TypeOK
  <2>4. \A v \in Workers : Inside(v, cur[w]) => v = w
    BY <1>g, <2>1 DEF Serialized
  <2>5. CASE gate[cur[w]] - 1 > 0
    <3>1. pc' = [pc EXCEPT ![w] = "rearm"] /\ owed' = owed /\ cur' = cur
      BY <1>5, <2>5 DEF Leave, Goto
    <3>2. \A v \in Workers, u \in Updates : Inside(v, u)' <=> Inside(v, u)
      BY <1>t, <2>1, <3>1 DEF Inside, TypeOK
    <3>3. GateNat' /\ GateTellsOwner' /\ Serialized'
      BY <1>t, <1>g, <2>1, <2>2, <2>5, <3>2 DEF GateNat, GateTellsOwner, Serialized, TypeOK
    <3>4. NoLostUpdate'
      BY <1>t, <1>g, <2>1, <2>2, <3>1, <3>2 DEF NoLostUpdate, Inside, TypeOK
    <3> QED
      BY <3>3, <3>4
  <2>6. CASE ~(gate[cur[w]] - 1 > 0)
    <3>1. pc' = [pc EXCEPT ![w] = "done"] /\ owed' = owed /\ cur' = cur
      BY <1>5, <2>6 DEF Leave, Goto
    <3>2. gate[cur[w]] = 1
      BY <1>t, <2>1, <2>3, <2>6 DEF TypeOK
    <3>3. \A v \in Workers, u \in Updates :
            u # cur[w] => (Inside(v, u)' <=> Inside(v, u))
      BY <1>t, <3>1 DEF Inside, TypeOK
    <3>4. \A v \in Workers : ~Inside(v, cur[w])'
      BY <1>t, <2>4, <3>1 DEF Inside, TypeOK
    <3>5. GateNat' /\ GateTellsOwner' /\ Serialized'
      BY <1>t, <1>g, <2>1, <2>2, <3>1, <3>2, <3>3, <3>4
         DEF GateNat, GateTellsOwner, Serialized, TypeOK
    <3>6. ~(owed[cur[w]] > 0)
      BY <1>g, <2>1, <2>4, <3>2 DEF NoLostUpdate
    <3>7. NoLostUpdate'
      BY <1>t, <1>g, <2>1, <2>2, <3>1, <3>3, <3>6 DEF NoLostUpdate, Inside, TypeOK
    <3> QED
      BY <3>5, <3>7
  <2> QED
    BY <2>5, <2>6
<1>6. ASSUME NEW w \in Workers, Finish(w) PROVE G'
  <2>1. \A v \in Workers, u \in Updates : Inside(v, u)' <=> Inside(v, u)
    BY <1>6, <1>t DEF Finish, Goto, Inside, TypeOK
  <2>2. \A v \in Workers : pc'[v] \in {"impl", "leave"} => pc[v] \in {"impl", "leave"}
    BY <1>6, <1>t DEF Finish, Goto, TypeOK
  <2> QED
    BY <1>6, <1>g, <2>1, <2>2, GateFrame DEF Finish
<1>7. ASSUME NEW w \in Workers, NEW u \in Updates, Take(w, u) PROVE G'
  <2>1. \A v \in Workers, x \in Updates : Inside(v, x)' <=> Inside(v, x)
    BY <1>7, <1>t DEF Take, Goto, Inside, TypeOK
  <2>2. \A v \in Workers : pc'[v] \in {"impl", "leave"} => pc[v] \in {"impl", "leave"}
    BY <1>7, <1>t DEF Take, Goto, TypeOK
  <2> QED
    BY <1>7, <1>g, <2>1, <2>2, GateFrame DEF Take
<1>8. ASSUME UNCHANGED <<gateVars, workerVars>> PROVE G'
  BY <1>8, <1>g, GateFrame DEF gateVars, workerVars, Inside
<1>9. ASSUME SchedulerStep PROVE G'
  BY <1>8, <1>9
     DEF SchedulerStep, Wait, Increment, Post, First, Check, gateVars, workerVars
<1>10. ASSUME Terminate PROVE G'
  BY <1>8, <1>10 DEF Terminate, gateVars, workerVars
<1>11. ASSUME UNCHANGED vars PROVE G'
  BY <1>8, <1>11 DEF vars, gateVars, workerVars
<1>12. G'
  BY <1>1, <1>2, <1>3, <1>4, <1>5, <1>6, <1>7, <1>9, <1>10, <1>11 DEF Next, WorkerStep
<1> QED
  BY <1>t, <1>12 DEF IInv

\* The inductive invariant of the gate (UpdateBase::Update); the theorems below follow
\* from it.
THEOREM Invariance == Spec => []IInv
  BY InitIInv, GateStep, PTL DEF Spec

-------------------------------------------------------------------------------
\* Types are kept.
THEOREM TypeCorrect == Spec => []TypeOK
<1>1. IInv => TypeOK
  BY DEF IInv
<1> QED
  BY <1>1, Invariance, PTL

\* Update_IMPL of one object is never run by two workers at once (the guarantee
\* stated in the comment above the call of Update_IMPL).
THEOREM SerializedAlways == Spec => []Serialized
<1>1. IInv => Serialized
  BY DEF IInv
<1> QED
  BY <1>1, Invariance, PTL

\* A call that was turned away always leaves the worker inside with another run
\* of Update_IMPL to do.
THEOREM NoLostUpdateAlways == Spec => []NoLostUpdate
<1>1. IInv => NoLostUpdate
  BY DEF IInv
<1> QED
  BY <1>1, Invariance, PTL

\* The gate is 0 exactly when nobody is inside.
THEOREM GateTellsOwnerAlways == Spec => []GateTellsOwner
<1>1. IInv => GateTellsOwner
  BY DEF IInv
<1> QED
  BY <1>1, Invariance, PTL

-------------------------------------------------------------------------------
\* Only the scheduler raises the count, and what it read can only have fallen
\* since; before an update's first post the count has not been raised at all.
LimitInv ==
    /\ TypeOK /\ WithinLimit
    /\ scheduler = "increment" => unProcessed[posting] < Limit
    /\ scheduler \in {"first", "firstPost"} => \A u \in todo : unProcessed[u] <= 0

\* A step that raises no count and leaves the scheduler alone.
LEMMA LimitFrame ==
  ASSUME LimitInv, TypeOK', UNCHANGED schedVars,
         \A u \in Updates : unProcessed'[u] <= unProcessed[u]
  PROVE  LimitInv'
<1> USE GateAssumption DEF LimitInv, TypeOK, schedVars
<1>1. WithinLimit'
  BY DEF WithinLimit
<1>2. (scheduler = "increment" => unProcessed[posting] < Limit)'
  OBVIOUS
<1>3. (scheduler \in {"first", "firstPost"} => \A u \in todo : unProcessed[u] <= 0)'
  OBVIOUS
<1> QED
  BY <1>1, <1>2, <1>3

LEMMA LimitStep == LimitInv /\ [Next]_vars => LimitInv'
<1> SUFFICES ASSUME LimitInv, [Next]_vars PROVE LimitInv'
  OBVIOUS
<1>t. TypeOK /\ TypeOK'
  BY TypeStep DEF LimitInv
<1>1. ASSUME UNCHANGED <<unProcessed, schedVars>> PROVE LimitInv'
  BY <1>1, <1>t, LimitFrame DEF TypeOK
<1>2. ASSUME NEW w \in Workers, WorkerStep(w) PROVE LimitInv'
  <2>1. CASE Finish(w)
    <3>1. \A u \in Updates : unProcessed'[u] <= unProcessed[u]
      BY <2>1, <1>t DEF Finish, TypeOK
    <3> QED
      BY <2>1, <3>1, <1>t, LimitFrame DEF Finish
  <2> QED
    BY <1>1, <1>2, <2>1 DEF WorkerStep, Enter, BeginImpl, EndImpl, Rearm, Leave, schedVars
<1>3. ASSUME NEW w \in Workers, NEW u \in Updates, Take(w, u) PROVE LimitInv'
  BY <1>1, <1>3 DEF Take, schedVars
<1>4. ASSUME Terminate PROVE LimitInv'
  BY <1>1, <1>4 DEF Terminate, schedVars
<1>5. ASSUME UNCHANGED vars PROVE LimitInv'
  BY <1>1, <1>5 DEF vars, schedVars
<1>6. ASSUME NEW u \in Updates, First(u) PROVE LimitInv'
  <2>1. unProcessed[u] <= 0 /\ scheduler' = "firstPost" /\ todo' = todo \ {u}
        /\ unProcessed' = [unProcessed EXCEPT ![u] = @ + 1]
    BY <1>6 DEF First, LimitInv
  <2>2. \A x \in Updates : unProcessed'[x] = IF x = u THEN unProcessed[u] + 1
                                                     ELSE unProcessed[x]
    BY <1>t, <2>1 DEF TypeOK
  <2>3. WithinLimit'
    BY <1>t, <2>1, <2>2, GateAssumption DEF WithinLimit, LimitInv, TypeOK
  <2>4. \A x \in todo' : unProcessed'[x] <= 0
    BY <1>6, <1>t, <2>1, <2>2 DEF First, LimitInv, TypeOK
  <2> QED
    BY <1>t, <2>1, <2>3, <2>4 DEF LimitInv
<1>7. ASSUME NEW u \in Updates, Check(u) PROVE LimitInv'
  <2>1. WithinLimit'
    BY <1>7 DEF Check, WithinLimit, LimitInv
  <2>2. (scheduler = "increment" => unProcessed[posting] < Limit)'
    BY <1>7 DEF Check, LimitInv
  <2>3. scheduler' \notin {"first", "firstPost"}
    BY <1>7 DEF Check
  <2> QED
    BY <1>t, <2>1, <2>2, <2>3 DEF LimitInv
<1>8. ASSUME Increment PROVE LimitInv'
  <2>1. posting \in Updates /\ unProcessed[posting] < Limit /\ scheduler' = "post"
        /\ unProcessed' = [unProcessed EXCEPT ![posting] = @ + 1]
    BY <1>8, <1>t DEF Increment, LimitInv, TypeOK
  <2>2. \A x \in Updates : unProcessed'[x] = IF x = posting THEN unProcessed[posting] + 1
                                                     ELSE unProcessed[x]
    BY <1>t, <2>1 DEF TypeOK
  <2>3. WithinLimit'
    BY <1>t, <2>1, <2>2, GateAssumption DEF WithinLimit, LimitInv, TypeOK
  <2> QED
    BY <1>t, <2>1, <2>3 DEF LimitInv
<1>9. ASSUME Post PROVE LimitInv'
  BY <1>9, <1>t DEF Post, LimitInv, WithinLimit
<1>10. ASSUME Wait PROVE LimitInv'
  BY <1>10, <1>t DEF Wait, LimitInv, WithinLimit
<1> QED
  BY <1>2, <1>3, <1>4, <1>5, <1>6, <1>7, <1>8, <1>9, <1>10 DEF Next, SchedulerStep

\* The number of unprocessed completions of an update never exceeds the limit
\* it was given (the one first post excepted, when the limit is below 1).
THEOREM WithinLimitAlways == Spec => []WithinLimit
<1>1. Init => LimitInv
  <2> SUFFICES ASSUME Init PROVE LimitInv
    OBVIOUS
  <2>1. \A u \in Updates : unProcessed[u] = 0
    BY DEF Init
  <2>2. TypeOK
    BY InitIInv DEF IInv
  <2> QED
    BY <2>1, <2>2, GateAssumption DEF Init, LimitInv, WithinLimit
<1>2. LimitInv => WithinLimit
  BY DEF LimitInv
<1> QED
  BY <1>1, <1>2, LimitStep, PTL DEF Spec

-------------------------------------------------------------------------------
\* The inductive invariant of the count: a worker outside Update is in no call.
CountInv ==
    /\ TypeOK /\ UnprocessedExact
    /\ \A w \in Workers : pc[w] = "idle" => cur[w] = None

\* The one completion that is counted and not posted yet.
Coming(u) == IF posting = u /\ scheduler \in {"firstPost", "post"} THEN 1 ELSE 0

LEMMA CountIs ==
    UnprocessedExact <=>
      \A u \in Updates : unProcessed[u] = queue[u] + Cardinality(InCall(u)) + Coming(u)
  BY DEF UnprocessedExact, Coming

LEMMA CallsFinite ==
  ASSUME NEW u
  PROVE  IsFiniteSet(InCall(u)) /\ Cardinality(InCall(u)) \in Nat
<1>1. InCall(u) \in SUBSET Workers
  BY DEF InCall
<1>2. IsFiniteSet(InCall(u))
  BY <1>1, GateAssumption, FS_Subset
<1> QED
  BY <1>2, FS_CardinalityType

\* A step that neither counts, posts, takes nor finishes.
LEMMA CountFrame ==
  ASSUME CountInv, TypeOK', UNCHANGED <<unProcessed, queue, cur>>,
         \A u \in Updates : Coming(u)' = Coming(u),
         \A w \in Workers : pc'[w] = "idle" => pc[w] = "idle"
  PROVE  CountInv'
<1>1. \A u \in Updates : InCall(u)' = InCall(u)
  BY DEF InCall
<1>2. UnprocessedExact'
  BY <1>1, CountIs DEF CountInv, UnprocessedExact, Coming
<1> QED
  BY <1>2 DEF CountInv

LEMMA TakeCounts ==
  ASSUME CountInv, TypeOK', NEW w \in Workers, NEW u \in Updates, Take(w, u)
  PROVE  CountInv'
<1>1. pc' = [pc EXCEPT ![w] = "enter"] /\ cur' = [cur EXCEPT ![w] = u]
      /\ queue' = [queue EXCEPT ![u] = @ - 1] /\ UNCHANGED <<unProcessed, schedVars>>
      /\ cur[w] = None
  BY DEF Take, Goto, CountInv
<1>2. \A x \in Updates :
        /\ InCall(x)' = IF x = u THEN InCall(x) \cup {w} ELSE InCall(x)
        /\ queue'[x] = IF x = u THEN queue[x] - 1 ELSE queue[x]
        /\ w \notin InCall(x)
        /\ queue[x] \in Nat
  BY <1>1, GateAssumption DEF InCall, CountInv, TypeOK
<1>3. \A x \in Updates :
        Cardinality(InCall(x)') = IF x = u THEN Cardinality(InCall(x)) + 1
                                           ELSE Cardinality(InCall(x))
  BY <1>2, CallsFinite, FS_AddElement
<1>4. \A x \in Updates : Coming(x)' = Coming(x)
  BY <1>1 DEF Coming, schedVars
<1>5. \A x \in Updates :
        unProcessed'[x] = queue'[x] + Cardinality(InCall(x)') + Coming(x)'
  <2> TAKE x \in Updates
  <2>1. unProcessed[x] = queue[x] + Cardinality(InCall(x)) + Coming(x)
    BY CountIs DEF CountInv
  <2>2. Cardinality(InCall(x)) \in Nat /\ Coming(x) \in Nat
    BY CallsFinite DEF Coming
  <2> QED
    BY <1>1, <1>2, <1>3, <1>4, <2>1, <2>2
<1>6. UnprocessedExact'
  BY <1>5 DEF UnprocessedExact, Coming
<1>7. \A v \in Workers : pc'[v] = "idle" => cur'[v] = None
  BY <1>1 DEF CountInv, TypeOK
<1> QED
  BY <1>6, <1>7 DEF CountInv

LEMMA FinishCounts ==
  ASSUME CountInv, TypeOK', NEW w \in Workers, Finish(w)
  PROVE  CountInv'
<1> DEFINE u == cur[w]
<1>1. u \in Updates /\ pc' = [pc EXCEPT ![w] = "idle"] /\ cur' = [cur EXCEPT ![w] = None]
      /\ unProcessed' = [unProcessed EXCEPT ![u] = @ - 1] /\ UNCHANGED <<queue, schedVars>>
  BY DEF Finish, Goto, CountInv, TypeOK
<1>2. \A x \in Updates :
        /\ InCall(x)' = IF x = u THEN InCall(x) \ {w} ELSE InCall(x)
        /\ unProcessed'[x] = IF x = u THEN unProcessed[x] - 1 ELSE unProcessed[x]
        /\ queue[x] \in Nat
  BY <1>1, GateAssumption DEF InCall, CountInv, TypeOK
<1>3. w \in InCall(u)
  BY DEF InCall
<1>4. \A x \in Updates :
        Cardinality(InCall(x)') = IF x = u THEN Cardinality(InCall(x)) - 1
                                           ELSE Cardinality(InCall(x))
  BY <1>2, <1>3, CallsFinite, FS_RemoveElement
<1>5. \A x \in Updates : Coming(x)' = Coming(x)
  BY <1>1 DEF Coming, schedVars
<1>6. \A x \in Updates :
        unProcessed'[x] = queue'[x] + Cardinality(InCall(x)') + Coming(x)'
  <2> TAKE x \in Updates
  <2>1. unProcessed[x] = queue[x] + Cardinality(InCall(x)) + Coming(x)
    BY CountIs DEF CountInv
  <2>2. Cardinality(InCall(x)) \in Nat /\ Coming(x) \in Nat
    BY CallsFinite DEF Coming
  <2> QED
    BY <1>1, <1>2, <1>4, <1>5, <2>1, <2>2
<1>7. UnprocessedExact'
  BY <1>6 DEF UnprocessedExact, Coming
<1>8. \A v \in Workers : pc'[v] = "idle" => cur'[v] = None
  BY <1>1 DEF CountInv, TypeOK
<1> QED
  BY <1>7, <1>8 DEF CountInv

\* First and Increment count a completion that the next step posts.
LEMMA CountAhead ==
  ASSUME CountInv, TypeOK', NEW u \in Updates, UNCHANGED <<queue, pc, cur>>,
         unProcessed' = [unProcessed EXCEPT ![u] = @ + 1],
         scheduler \notin {"firstPost", "post"},
         scheduler' \in {"firstPost", "post"}, posting' = u
  PROVE  CountInv'
<1>1. \A x \in Updates : InCall(x)' = InCall(x)
  BY DEF InCall
<1>2. \A x \in Updates : Coming(x) = 0 /\ Coming(x)' = IF x = u THEN 1 ELSE 0
  BY DEF Coming
<1>3. \A x \in Updates :
        unProcessed'[x] = queue'[x] + Cardinality(InCall(x)') + Coming(x)'
  <2> TAKE x \in Updates
  <2>1. unProcessed[x] = queue[x] + Cardinality(InCall(x)) + Coming(x)
    BY CountIs DEF CountInv
  <2>2. Cardinality(InCall(x)) \in Nat /\ queue[x] \in Nat
    BY CallsFinite DEF CountInv, TypeOK
  <2>3. unProcessed'[x] = IF x = u THEN unProcessed[x] + 1 ELSE unProcessed[x]
    BY DEF CountInv, TypeOK
  <2> QED
    BY <1>1, <1>2, <2>1, <2>2, <2>3
<1>4. UnprocessedExact'
  BY <1>3 DEF UnprocessedExact, Coming
<1> QED
  BY <1>4 DEF CountInv

LEMMA PostCounts == CountInv /\ TypeOK' /\ Post => CountInv'
<1> SUFFICES ASSUME CountInv, TypeOK', Post PROVE CountInv'
  OBVIOUS
<1>1. posting \in Updates /\ queue' = [queue EXCEPT ![posting] = @ + 1]
      /\ posting' = None /\ UNCHANGED <<unProcessed, pc, cur>>
      /\ scheduler \in {"firstPost", "post"}
  BY DEF Post, CountInv, TypeOK, workerVars
<1>2. \A x \in Updates : InCall(x)' = InCall(x)
  BY <1>1 DEF InCall
<1>3. \A x \in Updates : Coming(x)' = 0 /\ Coming(x) = IF x = posting THEN 1 ELSE 0
  BY <1>1, GateAssumption DEF Coming
<1>4. \A x \in Updates :
        unProcessed'[x] = queue'[x] + Cardinality(InCall(x)') + Coming(x)'
  <2> TAKE x \in Updates
  <2>1. unProcessed[x] = queue[x] + Cardinality(InCall(x)) + Coming(x)
    BY CountIs DEF CountInv
  <2>2. Cardinality(InCall(x)) \in Nat /\ queue[x] \in Nat
    BY CallsFinite DEF CountInv, TypeOK
  <2>3. queue'[x] = IF x = posting THEN queue[x] + 1 ELSE queue[x]
    BY <1>1 DEF CountInv, TypeOK
  <2> QED
    BY <1>1, <1>2, <1>3, <2>1, <2>2, <2>3
<1>5. UnprocessedExact'
  BY <1>4 DEF UnprocessedExact, Coming
<1> QED
  BY <1>1, <1>5 DEF CountInv

LEMMA CountStep == CountInv /\ [Next]_vars => CountInv'
<1> SUFFICES ASSUME CountInv, [Next]_vars PROVE CountInv'
  OBVIOUS
<1>t. TypeOK /\ TypeOK'
  BY TypeStep DEF CountInv
<1>1. ASSUME NEW w \in Workers, WorkerStep(w) PROVE CountInv'
  <2>1. CASE Finish(w)
    BY <1>t, <2>1, FinishCounts
  <2>2. ASSUME Enter(w) \/ BeginImpl(w) \/ EndImpl(w) \/ Rearm(w) \/ Leave(w)
        PROVE  CountInv'
    <3>1. UNCHANGED <<unProcessed, queue, cur, schedVars>>
      BY <2>2 DEF Enter, BeginImpl, EndImpl, Rearm, Leave
    <3>2. \A v \in Workers : pc'[v] = "idle" => pc[v] = "idle"
      BY <1>t, <2>2 DEF Enter, BeginImpl, EndImpl, Rearm, Leave, Goto, TypeOK
    <3>3. \A u \in Updates : Coming(u)' = Coming(u)
      BY <3>1 DEF Coming, schedVars
    <3> QED
      BY <1>t, <3>1, <3>2, <3>3, CountFrame
  <2> QED
    BY <1>1, <2>1, <2>2 DEF WorkerStep
<1>2. ASSUME NEW w \in Workers, NEW u \in Updates, Take(w, u) PROVE CountInv'
  BY <1>t, <1>2, TakeCounts
<1>3. ASSUME NEW u \in Updates, First(u) PROVE CountInv'
  BY <1>t, <1>3, CountAhead DEF First, workerVars
<1>4. CASE Increment
  BY <1>t, <1>4, CountAhead DEF Increment, TypeOK, workerVars
<1>5. CASE Post
  BY <1>t, <1>5, PostCounts
<1>6. ASSUME Wait \/ (\E u \in Updates : Check(u)) \/ Terminate \/ UNCHANGED vars
      PROVE  CountInv'
  <2>1. UNCHANGED <<unProcessed, queue, pc, cur>>
    BY <1>6 DEF Wait, Check, Terminate, vars, workerVars
  <2>2. \A u \in Updates : Coming(u)' = Coming(u)
    BY <1>6 DEF Wait, Check, Terminate, vars, schedVars, Coming
  <2> QED
    BY <1>t, <2>1, <2>2, CountFrame
<1> QED
  BY <1>1, <1>2, <1>3, <1>4, <1>5, <1>6 DEF Next, SchedulerStep

\* unProcessedPqcsCnt_ of an update is always the number of its completions that are
\* posted, in a worker or about to be posted: every path through Update counts one down.
THEOREM UnprocessedExactAlways == Spec => []UnprocessedExact
<1>1. Init => CountInv
  <2> SUFFICES ASSUME Init PROVE CountInv
    OBVIOUS
  <2>1. TypeOK
    BY InitIInv DEF IInv
  <2>2. \A u \in Updates : InCall(u) = {}
    BY GateAssumption DEF Init, InCall
  <2>3. UnprocessedExact
    BY <2>2, FS_EmptySet DEF Init, UnprocessedExact
  <2> QED
    BY <2>1, <2>3 DEF Init, CountInv
<1>2. CountInv => UnprocessedExact
  BY DEF CountInv
<1> QED
  BY <1>1, <1>2, CountStep, PTL DEF Spec

-------------------------------------------------------------------------------
LTypeOK ==
    /\ hThread \in {"NULL", "open", "closed", "INVALID"}
    /\ server \in [Servers -> {"up", "set", "wait", "waiting", "hung", "close", "invalidate", "down"}]

\* Nobody releases a thread that was not created, and past the wait, in this server or
\* another, the thread has ended.
LifeInv ==
    /\ LTypeOK
    /\ hThread = "NULL" => \A s \in Servers : server[s] = "up"
    /\ hThread \in {"closed", "INVALID"} => scheduler = "stopped"
    /\ \A s \in Servers :
         server[s] \in {"close", "invalidate", "down"} => scheduler = "stopped"
    /\ scheduler = "stopped" => posting = None

\* Between posts the scheduler thread has no update in hand.
Unposting == scheduler \in {"first", "round"} => posting = None

LEMMA Unhindered ==
  ASSUME NEW s \in Servers, ReleaseStep(s) \/ Release(s) \/ Create \/ Start
  PROVE  UNCHANGED vars \/ (Terminate /\ UNCHANGED schedVars)
BY DEF ReleaseStep, Release, Create, Start, SetTerminate, WaitForThread, EndWait,
       Close, Invalidate, Terminate, vars

\* Every step of the thread's life is a step of the gate or leaves the gate alone.
LEMMA LifeIsGate == [LNext]_allVars => [Next]_vars
<1> SUFFICES ASSUME LNext PROVE [Next]_vars
  BY DEF allVars, vars, lifeVars
<1>1. CASE Create \/ Start
  BY <1>1 DEF Create, Start, vars
<1>2. ASSUME NEW s \in Servers, Release(s) \/ ReleaseStep(s) PROVE [Next]_vars
  BY <1>2, Unhindered DEF Next
<1>3. CASE ThreadFunc
  BY <1>3 DEF ThreadFunc, Next
<1>4. ASSUME NEW w \in Workers, Worker(w) PROVE [Next]_vars
  BY <1>4 DEF Worker, Next
<1>5. ASSUME NEW w \in Workers, NEW u \in Updates, Take(w, u) PROVE [Next]_vars
  BY <1>5 DEF Next
<1> QED
  BY <1>1, <1>2, <1>3, <1>4, <1>5 DEF LNext

\* Init, Start and Release_SchedulerThread change nothing that Update and the scheduler's
\* loop rely on: with them the service still is one of UpdateGate.
THEOREM ImplementsGate == LSpec => Spec
<1>1. LInit => Init
  BY DEF LInit
<1> QED
  BY <1>1, LifeIsGate, PTL DEF LSpec, Spec

-------------------------------------------------------------------------------
\* The worker's side never touches the scheduler.
LEMMA WorkersApart ==
  ASSUME NEW w \in Workers, NEW u \in Updates, WorkerStep(w) \/ Take(w, u)
  PROVE  UNCHANGED schedVars
BY DEF WorkerStep, Take, Enter, BeginImpl, EndImpl, Rearm, Leave, Finish

LEMMA ThreadStep ==
  ASSUME Unposting, scheduler = "stopped" => posting = None, SchedulerStep
  PROVE  /\ Unposting' /\ scheduler # "stopped"
         /\ scheduler' = "stopped" => posting' = None
BY DEF Unposting, SchedulerStep, Wait, Increment, Post, First, Check

LEMMA LifeStep == LifeInv /\ Unposting /\ [LNext]_allVars => LifeInv' /\ Unposting'
<1> SUFFICES ASSUME LifeInv, Unposting, [LNext]_allVars PROVE LifeInv' /\ Unposting'
  OBVIOUS
<1> USE DEF LifeInv, LTypeOK, Unposting
<1>1. CASE Create
  BY <1>1 DEF Create, vars, schedVars
<1>2. CASE Start
  BY <1>2 DEF Start, vars, schedVars
<1>3. ASSUME NEW s \in Servers, Release(s) PROVE LifeInv' /\ Unposting'
  BY <1>3 DEF Release, At, vars, schedVars
<1>4. ASSUME NEW s \in Servers, ReleaseStep(s) PROVE LifeInv' /\ Unposting'
  <2>1. CASE SetTerminate(s)
    BY <2>1 DEF SetTerminate, At, Terminate, vars, schedVars
  <2>2. CASE WaitForThread(s)
    BY <2>2 DEF WaitForThread, At, vars, schedVars
  <2>3. CASE EndWait(s)
    BY <2>3 DEF EndWait, At, vars, schedVars
  <2>4. CASE Close(s)
    BY <2>4 DEF Close, At, vars, schedVars
  <2>5. CASE Invalidate(s)
    BY <2>5 DEF Invalidate, At, vars, schedVars
  <2> QED
    BY <1>4, <2>1, <2>2, <2>3, <2>4, <2>5 DEF ReleaseStep
<1>5. CASE ThreadFunc
  BY <1>5, ThreadStep DEF ThreadFunc, lifeVars
<1>6. ASSUME NEW w \in Workers, Worker(w) PROVE LifeInv' /\ Unposting'
  BY <1>6 DEF Worker, WorkerStep, Enter, BeginImpl, EndImpl, Rearm, Leave, Finish, lifeVars,
     schedVars
<1>7. ASSUME NEW w \in Workers, NEW u \in Updates, Take(w, u), UNCHANGED lifeVars
      PROVE  LifeInv' /\ Unposting'
  BY <1>7, WorkersApart DEF lifeVars, schedVars
<1>8. CASE UNCHANGED allVars
  BY <1>8 DEF allVars, vars, lifeVars, schedVars
<1> QED
  BY <1>1, <1>2, <1>3, <1>4, <1>5, <1>6, <1>7, <1>8 DEF LNext

\* When any server is back from Release_SchedulerThread, whether it waited for the thread
\* itself or came late, the thread has ended and owes no post.
THEOREM StoppedAfterReleaseAlways == LSpec => []StoppedAfterRelease
<1>1. LInit => LifeInv /\ Unposting
  BY DEF LInit, Init, LifeInv, LTypeOK, Unposting
<1>2. LifeInv => StoppedAfterRelease
  BY DEF LifeInv, StoppedAfterRelease
<1> QED
  BY <1>1, <1>2, LifeStep, PTL DEF LSpec

\* Whatever servers start and release the thread, Update_IMPL of an object is never run
\* by two workers at once.
THEOREM ServiceSerialized == LSpec => []Serialized
  BY ImplementsGate, SerializedAlways, PTL

-------------------------------------------------------------------------------
\* Induction, as far as it is needed: the provers cannot instantiate a theorem about
\* a predicate, but a set of numbers has a least element.
LEMMA LeastElement ==
    ASSUME NEW N \in Nat, NEW T \in SUBSET (0 .. N), T # {}
    PROVE  \E n \in T : \A m \in T : n <= m
<1> DEFINE Intervals == {0 .. n : n \in T}
           Less      == StrictSubsetOrdering(0 .. N)
<1>1. /\ IsFiniteSet(0 .. N)
      /\ \A n \in T : n \in Nat /\ 0 .. n \in SUBSET (0 .. N)
  BY FS_Interval
<1>2. IsWellFoundedOn(Less, FiniteSubsetsOf(0 .. N))
  BY FS_StrictSubsetOrderingWellFounded
<1>3. Intervals \subseteq FiniteSubsetsOf(0 .. N) /\ Intervals # {}
  <2>1. FiniteSubsetsOf(0 .. N) = SUBSET (0 .. N)
    BY <1>1, FS_FiniteSubsetsOfFinite
  <2>2. ASSUME NEW I \in Intervals PROVE I \in SUBSET (0 .. N)
    <3>1. PICK n \in T : I = 0 .. n
      BY <2>2
    <3> QED
      BY <1>1, <3>1, Zenon
  <2>3. Intervals # {}
    <3>1. PICK n \in T : TRUE
      OBVIOUS
    <3>2. 0 .. n \in Intervals
      BY <3>1
    <3> QED
      BY <3>2
  <2> QED
    BY <2>1, <2>2, <2>3, Zenon
<1>4. \E I \in Intervals : \A J \in Intervals : <<J, I>> \notin Less
  <2> HIDE DEF Less, Intervals
  <2> QED
    BY <1>2, <1>3, WFMin
<1>5. PICK n \in T : \A J \in Intervals : <<J, 0 .. n>> \notin Less
  BY <1>4
<1>6. ASSUME NEW m \in T, m < n PROVE FALSE
  <2>1. /\ 0 .. m \subseteq 0 .. n /\ n \notin 0 .. m /\ n \in 0 .. n
        /\ 0 .. m \in SUBSET (0 .. N) /\ 0 .. n \in SUBSET (0 .. N)
    BY <1>1, <1>6
  <2>2. <<0 .. m, 0 .. n>> \in Less
    BY <2>1 DEF StrictSubsetOrdering
  <2> QED
    BY <1>5, <2>2
<1> QED
  BY <1>1, <1>6

LEMMA DivMod ==
  ASSUME NEW a \in Int, NEW T \in Nat \ {0}
  PROVE  a % T \in 0 .. T - 1 /\ a \div T \in Int /\ a = T * (a \div T) + (a % T)
OBVIOUS

LEMMA SmallProduct ==
  ASSUME NEW T \in Nat \ {0}, NEW q \in Int, T * q < T, - T < T * q
  PROVE  q = 0
<1>1. CASE q >= 1
  <2>1. T * q >= T
    BY <1>1, SMTT(30)
  <2> QED
    BY <2>1
<1>2. CASE q <= -1
  <2>1. T * q <= - T
    BY <1>2, SMTT(30)
  <2> QED
    BY <2>1
<1> QED
  BY <1>1, <1>2

LEMMA ModUnique ==
  ASSUME NEW a \in Int, NEW T \in Nat \ {0}, NEW q \in Int, NEW r \in 0 .. T - 1, a = T * q + r
  PROVE  a % T = r
<1>1. PICK d \in Int, m \in 0 .. T - 1 : d = a \div T /\ m = a % T /\ a = T * d + m
  BY DivMod
<1>2. T * (q - d) = T * q - T * d
  OBVIOUS
<1>3. T * (q - d) = m - r
  BY <1>1, <1>2
<1>4. q - d = 0
  BY <1>1, <1>3, SmallProduct
<1> QED
  BY <1>1, <1>4

LEMMA TickFacts ==
  ASSUME NEW tick \in 1 .. MaxTick
  PROVE  tick \in Nat \ {0} /\ tick < CLOCK /\ CLOCK \in Nat \ {0} /\ CLOCK - 1 \in Nat
BY TimerAssumption

\* A number with the same remainder.
LEMMA ModShift ==
  ASSUME NEW a \in Int, NEW b \in Int, NEW T \in Nat \ {0}
  PROVE  /\ ((a % T) + b) % T = (a + b) % T
         /\ ((a % T) - b) % T = (a - b) % T
         /\ (b - (a % T)) % T = (b - a) % T
<1>1. PICK d \in Int, m \in 0 .. T - 1 : m = a % T /\ a = T * d + m
  BY DivMod
<1>2. ASSUME NEW c \in Int, NEW k \in Int PROVE (T * k + c) % T = c % T
  <2>1. PICK e \in Int, n \in 0 .. T - 1 : n = c % T /\ c = T * e + n
    BY DivMod
  <2>2. T * (k + e) = T * k + T * e /\ k + e \in Int /\ T * k \in Int /\ T * e \in Int
    OBVIOUS
  <2>3. T * k + c = T * (k + e) + n /\ T * k + c \in Int
    BY <2>1, <2>2
  <2> QED
    BY <2>1, <2>2, <2>3, ModUnique
<1>3. T * d \in Int /\ T * (- d) = - (T * d) /\ - d \in Int
  OBVIOUS
<1>4. (T * d + (m + b)) % T = (m + b) % T /\ (T * d + (m - b)) % T = (m - b) % T
      /\ (T * (- d) + (b - m)) % T = (b - m) % T
  <2>1. PICK z \in Int : z = - d
    BY <1>3
  <2>2. m + b \in Int /\ m - b \in Int /\ b - m \in Int
    OBVIOUS
  <2>3. (T * d + (m + b)) % T = (m + b) % T
    BY <1>2, <2>2
  <2>4. (T * d + (m - b)) % T = (m - b) % T
    BY <1>2, <2>2
  <2>5. (T * z + (b - m)) % T = (b - m) % T
    BY <1>2, <2>2
  <2> QED
    BY <2>1, <2>3, <2>4, <2>5
<1>5. T * d + (m + b) = a + b /\ T * d + (m - b) = a - b /\ T * (- d) + (b - m) = b - a
  BY <1>1, <1>3
<1> QED
  BY <1>1, <1>4, <1>5

LEMMA ModSmall ==
  ASSUME NEW T \in Nat \ {0}, NEW r \in 0 .. T - 1
  PROVE  r % T = r
<1>1. r = T * 0 + r
  OBVIOUS
<1> QED
  BY <1>1, ModUnique

\* What Update's and the scheduler's frames have in common: from first on they are
\* counted in whole ticks.
LEMMA OnPhase ==
  ASSUME NEW a \in Int, NEW T \in Nat \ {0}
  PROVE  (a - (a % T)) % T = 0 /\ (a + (T - (a % T))) % T = 0 /\ (a % T = 0 => (a + T) % T = 0)
<1>1. PICK d \in Int, m \in 0 .. T - 1 : m = a % T /\ a = T * d + m
  BY DivMod
<1>2. T * (d + 1) = T * d + T /\ d + 1 \in Int /\ T * d \in Int
  OBVIOUS
<1>3. a - m = T * d + 0 /\ a + (T - m) = T * (d + 1) + 0 /\ (m = 0 => a + T = T * (d + 1) + 0)
  BY <1>1, <1>2
<1>4. (T * d + 0) % T = 0 /\ (T * (d + 1) + 0) % T = 0
  BY <1>2, ModUnique
<1> QED
  BY <1>1, <1>3, <1>4

-------------------------------------------------------------------------------
LEMMA SleepTime ==
  ASSUME NEW now \in Int, NEW first \in Int, NEW tick \in 1 .. MaxTick
  PROVE  UpdateAndGetTimeToSleep(now % CLOCK, first, tick)
           = tick - (((now - first) % CLOCK) % tick)
<1>1. tick \in Nat \ {0} /\ tick < CLOCK /\ CLOCK \in Nat \ {0}
  BY TickFacts
<1>2. PICK x \in 0 .. CLOCK - 1 : x = now % CLOCK
  BY <1>1, DivMod
<1>3. PICK e \in 0 .. CLOCK - 1 : e = (now - first) % CLOCK
  <2>1. PICK a \in Int : a = now - first
    OBVIOUS
  <2>2. a % CLOCK \in 0 .. CLOCK - 1
    BY <1>1, DivMod
  <2> QED
    BY <2>1, <2>2
<1>4. Minus(x, first) = e
  BY <1>1, <1>2, <1>3, ModShift DEF Minus
<1>5. PICK r \in 0 .. tick - 1 : r = e % tick
  <2>1. e \in Int
    BY <1>1
  <2>2. e % tick \in 0 .. tick - 1
    BY <1>1, <2>1, DivMod
  <2> QED
    BY <2>2
<1>6. PICK y \in 0 .. CLOCK - 1 : y = FrameStart(x, first, tick) /\ y = (x - r) % CLOCK
  <2>1. FrameStart(x, first, tick) = (x - r) % CLOCK
    BY <1>4, <1>5 DEF FrameStart, Minus
  <2>2. (x - r) % CLOCK \in 0 .. CLOCK - 1
    BY <1>1, DivMod
  <2> QED
    BY <2>1, <2>2
<1>7. Minus(x, y) = r
  <2>1. (x - y) % CLOCK = (x - (x - r)) % CLOCK
    <3>1. PICK a \in Int : a = x - r
      OBVIOUS
    <3>2. x \in Int
      BY <1>1
    <3>3. (x - (a % CLOCK)) % CLOCK = (x - a) % CLOCK
      BY <1>1, <3>2, ModShift
    <3> QED
      BY <1>6, <3>1, <3>3
  <2>2. x - (x - r) = r /\ r \in 0 .. CLOCK - 1
    BY <1>1
  <2> QED
    BY <1>1, <2>1, <2>2, ModSmall DEF Minus
<1>8. Minus(tick, r) = tick - r
  <2>1. tick - r \in 0 .. CLOCK - 1
    BY <1>1
  <2> QED
    BY <1>1, <2>1, ModSmall DEF Minus
<1> QED
  BY <1>2, <1>3, <1>5, <1>6, <1>7, <1>8 DEF UpdateAndGetTimeToSleep

\* A wait is never 0 or more than a frame, and ends where a frame begins.
LEMMA Sleeps ==
  ASSUME NEW now \in Int, NEW first \in Int, NEW tick \in 1 .. MaxTick,
         NEW t, t = UpdateAndGetTimeToSleep(now % CLOCK, first, tick)
  PROVE  /\ t \in 1 .. tick
         /\ first <= now /\ now - first < CLOCK => ((now + t) - first) % tick = 0
<1>1. tick \in Nat \ {0} /\ tick < CLOCK /\ CLOCK \in Nat \ {0}
  BY TickFacts
<1>2. PICK e \in 0 .. CLOCK - 1 : e = (now - first) % CLOCK
  <2>1. PICK a \in Int : a = now - first
    OBVIOUS
  <2>2. a % CLOCK \in 0 .. CLOCK - 1
    BY <1>1, DivMod
  <2> QED
    BY <2>1, <2>2
<1>3. PICK r \in 0 .. tick - 1 : r = e % tick
  <2>1. e \in Int
    BY <1>1
  <2>2. e % tick \in 0 .. tick - 1
    BY <1>1, <2>1, DivMod
  <2> QED
    BY <2>2
<1>4. t = tick - r
  BY <1>2, <1>3, SleepTime
<1>5. ASSUME first <= now, now - first < CLOCK PROVE ((now + t) - first) % tick = 0
  <2>1. now - first \in 0 .. CLOCK - 1
    BY <1>1, <1>5
  <2>2. e = now - first
    BY <1>1, <1>2, <2>1, ModSmall
  <2>3. (e + (tick - r)) % tick = 0
    <3>1. e \in Int
      BY <1>1
    <3>2. (e + (tick - (e % tick))) % tick = 0
      BY <1>1, <3>1, OnPhase
    <3> QED
      BY <1>3, <3>2
  <2>4. (now + t) - first = e + (tick - r)
    BY <1>4, <2>2
  <2> QED
    BY <2>3, <2>4
<1> QED
  BY <1>1, <1>4, <1>5

-------------------------------------------------------------------------------
Pair   == 1 .. 2
States == [now : Int, arr : [Pair -> Int], looked : [Pair -> Int], late : [Pair -> Nat],
           begun : SUBSET [tick : Int, since : Int, late : Int]]

\* A wait of update u ends in its frame or, but for the delays, where that frame ends.
InFrame(first, tick, now, wait, looked, late) ==
    /\ wait \in 1 .. tick
    /\ (now + wait) - looked <= tick + late
    /\ late = 0 /\ now - first < CLOCK => ((now + wait) - first) % tick = 0

OnTime(first, now, b) ==
    /\ now - b.since <= b.tick + b.late
    /\ b.late = 0 /\ now - first < CLOCK => (now - first) % b.tick = 0

Keeps(first, ticks, s) ==
    /\ s \in States /\ first <= s.now
    /\ \A u \in Pair : InFrame(first, ticks[u], s.now, s.arr[u], s.looked[u], s.late[u])
    /\ \A b \in s.begun : OnTime(first, s.now, b)

GoodSchedules(first, ticks) == {s \in States : Keeps(first, ticks, s)}

\* An update that was looked at a moment ago has its next wait.
LEMMA LookedAt ==
  ASSUME NEW now \in Int, NEW first \in Int, NEW tick \in 1 .. MaxTick, first <= now,
         NEW t, t = UpdateAndGetTimeToSleep(now % CLOCK, first, tick)
  PROVE  InFrame(first, tick, now, t, now, 0)
<1>1. t \in 1 .. tick /\ (now - first < CLOCK => ((now + t) - first) % tick = 0)
  BY Sleeps
<1>2. (now + t) - now <= tick + 0
  BY <1>1
<1> QED
  BY <1>1, <1>2 DEF InFrame

LEMMA FirstKeeps ==
  ASSUME NEW first \in 0 .. CLOCK - 1, NEW ticks \in [Pair -> 1 .. MaxTick], NEW delay \in 0 .. MaxLate
  PROVE  FirstRound(first, ticks, delay) \in GoodSchedules(first, ticks)
<1>1. PICK s : s = FirstRound(first, ticks, delay)
  OBVIOUS
<1>2. first \in Int /\ delay \in Nat /\ first + delay \in Int /\ DOMAIN ticks = Pair
  BY TimerAssumption
<1>3. PICK arr : arr = [u \in Pair |-> UpdateAndGetTimeToSleep((first + delay) % CLOCK, first, ticks[u])]
  OBVIOUS
<1>4. s = [now |-> first + delay, arr |-> arr, looked |-> [u \in Pair |-> first],
           late |-> [u \in Pair |-> delay], begun |-> {}]
  BY <1>1, <1>2, <1>3 DEF FirstRound
<1>5. ASSUME NEW u \in Pair
      PROVE  arr[u] \in 1 .. ticks[u] /\ InFrame(first, ticks[u], first + delay, arr[u], first, delay)
  <2>1. PICK tick \in 1 .. MaxTick : tick = ticks[u]
    OBVIOUS
  <2>2. PICK now \in Int : now = first + delay /\ first <= now
    BY <1>2
  <2>3. arr[u] = UpdateAndGetTimeToSleep(now % CLOCK, first, tick)
    BY <1>3, <2>1, <2>2
  <2>4. InFrame(first, tick, now, arr[u], now, 0)
    BY <1>2, <2>2, <2>3, LookedAt
  <2>5. arr[u] \in 1 .. tick
        /\ (now - first < CLOCK => ((now + arr[u]) - first) % tick = 0)
    BY <2>4 DEF InFrame
  <2>6. (now + arr[u]) - first <= tick + delay
    BY <1>2, <2>2, <2>5
  <2> QED
    BY <2>1, <2>2, <2>5, <2>6 DEF InFrame
<1>6. arr \in [Pair -> Int]
  BY <1>3, <1>5
<1>7. s \in States
  BY <1>2, <1>4, <1>6 DEF States
<1>8. /\ s.now = first + delay /\ s.arr = arr /\ s.begun = {}
      /\ \A u \in Pair : s.looked[u] = first /\ s.late[u] = delay
  BY <1>4
<1>9. first <= s.now
  BY <1>2, <1>8
<1>10. \A u \in Pair : InFrame(first, ticks[u], s.now, s.arr[u], s.looked[u], s.late[u])
  BY <1>5, <1>8
<1>11. \A b \in s.begun : OnTime(first, s.now, b)
  BY <1>8
<1> QED
  BY <1>1, <1>7, <1>9, <1>10, <1>11 DEF GoodSchedules, Keeps

LEMMA Shortest ==
  ASSUME NEW arr \in [Pair -> Int]
  PROVE  /\ Min(Range(arr)) \in Int /\ \E v \in Pair : Min(Range(arr)) = arr[v]
         /\ \A u \in Pair : Min(Range(arr)) <= arr[u]
<1>1. Range(arr) = {arr[u] : u \in Pair}
  BY DEF Range
<1>2. PICK v \in Pair : \A u \in Pair : arr[v] <= arr[u]
  <2>1. \A u \in Pair : arr[u] \in Int /\ (u = 1 \/ u = 2)
    BY DEF Pair
  <2>2. 1 \in Pair /\ 2 \in Pair
    BY DEF Pair
  <2>3. CASE arr[1] <= arr[2]
    BY <2>1, <2>2, <2>3
  <2>4. CASE ~ (arr[1] <= arr[2])
    <3>1. arr[2] <= arr[1]
      BY <2>1, <2>2, <2>4
    <3> QED
      BY <2>1, <2>2, <3>1
  <2> QED
    BY <2>3, <2>4
<1>3. arr[v] \in Range(arr) /\ \A x \in Range(arr) : arr[v] <= x
  BY <1>1, <1>2
<1>4. PICK m : m = Min(Range(arr))
  OBVIOUS
<1>5. m \in Range(arr) /\ \A x \in Range(arr) : m <= x
  BY <1>3, <1>4 DEF Min
<1> QED
  BY <1>1, <1>4, <1>5

LEMMA RoundKeeps ==
  ASSUME NEW first \in 0 .. CLOCK - 1, NEW ticks \in [Pair -> 1 .. MaxTick],
         NEW s \in GoodSchedules(first, ticks), NEW delay \in 0 .. MaxLate
  PROVE  Round(first, ticks, s, delay) \in GoodSchedules(first, ticks)
<1>1. first \in Int /\ delay \in Nat /\ DOMAIN ticks = Pair
  BY TimerAssumption
<1>2. /\ s.now \in Int /\ s.arr \in [Pair -> Int] /\ s.looked \in [Pair -> Int]
      /\ s.late \in [Pair -> Nat] /\ first <= s.now
      /\ \A u \in Pair : InFrame(first, ticks[u], s.now, s.arr[u], s.looked[u], s.late[u])
  BY DEF GoodSchedules, Keeps, States
<1>3. PICK arr \in [Pair -> Int], looked \in [Pair -> Int], late \in [Pair -> Nat], old \in Int :
        arr = s.arr /\ looked = s.looked /\ late = s.late /\ old = s.now
  BY <1>2
<1>4. PICK m \in Int : /\ m = Min(Range(arr)) /\ (\E v \in Pair : m = arr[v])
                       /\ \A u \in Pair : m <= arr[u]
  BY Shortest
<1>5. \A u \in Pair : /\ ticks[u] \in 1 .. MaxTick /\ arr[u] \in 1 .. ticks[u] /\ looked[u] \in Int
                      /\ late[u] \in Nat
                      /\ InFrame(first, ticks[u], old, arr[u], looked[u], late[u])
  BY <1>2, <1>3 DEF InFrame
<1>6. m >= 1
  <2>1. PICK v \in Pair : m = arr[v]
    BY <1>4
  <2>2. ticks[v] \in 1 .. MaxTick /\ arr[v] \in 1 .. ticks[v]
    BY <1>5
  <2> QED
    BY <2>1, <2>2
<1>7. PICK now \in Int : now = old + m + delay /\ first <= now /\ old <= now
  BY <1>1, <1>2, <1>3, <1>6
<1>8. PICK left : left = [u \in Pair |-> arr[u] - m]
  OBVIOUS
<1>9. PICK due : due = {u \in Pair : left[u] <= 0}
  OBVIOUS
<1>10. PICK slow : slow = [u \in Pair |-> late[u] + delay]
  OBVIOUS
<1>11. PICK wait : wait = [u \in Pair |-> IF u \in due
                              THEN UpdateAndGetTimeToSleep(now % CLOCK, first, ticks[u]) ELSE left[u]]
  OBVIOUS
<1>12. PICK at : at = [u \in Pair |-> IF u \in due THEN now ELSE looked[u]]
  OBVIOUS
<1>13. PICK since : since = [u \in Pair |-> IF u \in due THEN 0 ELSE slow[u]]
  OBVIOUS
<1>14. PICK begun : begun = {[tick |-> ticks[u], since |-> looked[u], late |-> slow[u]] : u \in due}
  OBVIOUS
<1>15. PICK n : n = Round(first, ticks, s, delay)
  OBVIOUS
<1>16. n = [now |-> now, arr |-> wait, looked |-> at, late |-> since, begun |-> begun]
  <2>1. WaitsLeft(s.arr) = left
    BY <1>3, <1>4, <1>8 DEF WaitsLeft
  <2>2. s.now + Min(Range(s.arr)) + delay = now
    BY <1>3, <1>4, <1>7
  <2> QED
    BY <1>1, <1>3, <1>9, <1>10, <1>11, <1>12, <1>13, <1>14, <1>15, <2>1, <2>2 DEF Round
<1>17. due \subseteq Pair /\ \A u \in due : arr[u] = m
  <2>1. ASSUME NEW u \in Pair, left[u] <= 0 PROVE arr[u] = m
    <3>1. arr[u] - m <= 0 /\ m <= arr[u] /\ arr[u] \in Int
      BY <1>4, <1>8, <2>1
    <3> QED
      BY <3>1
  <2> QED
    BY <1>9, <2>1
<1>18. ASSUME NEW u \in Pair
       PROVE  /\ wait[u] \in Int /\ at[u] \in Int /\ since[u] \in Nat
              /\ InFrame(first, ticks[u], now, wait[u], at[u], since[u])
  <2>1. PICK tick \in 1 .. MaxTick, a \in 1 .. MaxTick, k \in Int, l \in Nat :
          /\ tick = ticks[u] /\ a = arr[u] /\ k = looked[u] /\ l = late[u] /\ a <= tick
          /\ InFrame(first, tick, old, a, k, l)
    <3>1. ticks[u] \in 1 .. MaxTick /\ arr[u] \in 1 .. MaxTick /\ arr[u] <= ticks[u]
      BY <1>5, TimerAssumption
    <3> QED
      BY <1>5, <3>1
  <2>2. CASE u \in due
    <3>1. wait[u] = UpdateAndGetTimeToSleep(now % CLOCK, first, tick) /\ at[u] = now /\ since[u] = 0
      BY <1>11, <1>12, <1>13, <2>1, <2>2
    <3>2. InFrame(first, tick, now, wait[u], now, 0)
      BY <1>1, <1>7, <3>1, LookedAt
    <3>3. wait[u] \in Int
      BY <3>2 DEF InFrame
    <3> QED
      BY <2>1, <3>1, <3>2, <3>3
  <2>3. CASE u \notin due
    <3>1. wait[u] = a - m /\ at[u] = k /\ since[u] = l + delay
      BY <1>8, <1>10, <1>11, <1>12, <1>13, <2>1, <2>3
    <3>2. a - m \in 1 .. tick
      <4>1. ~ (a - m <= 0)
        BY <1>8, <1>9, <2>1, <2>3
      <4> QED
        BY <1>6, <2>1, <4>1
    <3>3. /\ (old + a) - k <= tick + l
          /\ l = 0 /\ old - first < CLOCK => ((old + a) - first) % tick = 0
      BY <2>1 DEF InFrame
    <3>4. (now + (a - m)) - k <= tick + (l + delay)
      BY <1>1, <1>7, <2>1, <3>3
    <3>5. ASSUME l + delay = 0, now - first < CLOCK PROVE ((now + (a - m)) - first) % tick = 0
      <4>1. l = 0 /\ delay = 0 /\ old - first < CLOCK
        BY <1>1, <1>2, <1>7, <3>5, TimerAssumption
      <4>2. now + (a - m) = old + a
        BY <1>7, <2>1, <4>1
      <4> QED
        BY <3>3, <4>1, <4>2
    <3>6. InFrame(first, tick, now, a - m, k, l + delay)
      BY <3>2, <3>4, <3>5 DEF InFrame
    <3>7. a - m \in Int /\ l + delay \in Nat
      BY <1>1, <2>1
    <3> QED
      BY <2>1, <3>1, <3>6, <3>7
  <2> QED
    BY <2>2, <2>3
<1>19. ASSUME NEW b \in begun
       PROVE  b \in [tick : Int, since : Int, late : Int] /\ OnTime(first, now, b)
  <2>1. PICK u \in due : b = [tick |-> ticks[u], since |-> looked[u], late |-> slow[u]]
    BY <1>14
  <2>2. PICK tick \in 1 .. MaxTick, k \in Int, l \in Nat :
          /\ tick = ticks[u] /\ k = looked[u] /\ l = late[u] /\ slow[u] = l + delay
          /\ InFrame(first, tick, old, m, k, l)
    BY <1>5, <1>10, <1>17
  <2>3. b = [tick |-> tick, since |-> k, late |-> l + delay]
    BY <2>1, <2>2
  <2>4. b.tick = tick /\ b.since = k /\ b.late = l + delay
    BY <2>3
  <2>5. /\ (old + m) - k <= tick + l
        /\ l = 0 /\ old - first < CLOCK => ((old + m) - first) % tick = 0
    BY <2>2 DEF InFrame
  <2>6. now - k <= tick + (l + delay)
    BY <1>1, <1>7, <2>5
  <2>7. ASSUME l + delay = 0, now - first < CLOCK PROVE (now - first) % tick = 0
    <3>1. l = 0 /\ delay = 0 /\ old - first < CLOCK /\ now = old + m
      BY <1>1, <1>2, <1>7, <2>7, TimerAssumption
    <3> QED
      BY <2>5, <3>1
  <2>8. OnTime(first, now, b)
    BY <2>4, <2>6, <2>7 DEF OnTime
  <2>9. tick \in Int /\ l + delay \in Int
    BY <1>1
  <2> QED
    BY <2>3, <2>8, <2>9
<1>20. wait \in [Pair -> Int] /\ at \in [Pair -> Int] /\ since \in [Pair -> Nat]
  BY <1>11, <1>12, <1>13, <1>18
<1>21. begun \in SUBSET [tick : Int, since : Int, late : Int]
  BY <1>19
<1>22. n \in States
  BY <1>16, <1>20, <1>21 DEF States
<1>23. n.now = now /\ n.arr = wait /\ n.looked = at /\ n.late = since /\ n.begun = begun
  BY <1>16
<1>24. /\ first <= n.now
       /\ \A u \in Pair : InFrame(first, ticks[u], n.now, n.arr[u], n.looked[u], n.late[u])
       /\ \A b \in n.begun : OnTime(first, n.now, b)
  BY <1>7, <1>18, <1>19, <1>23
<1> QED
  BY <1>15, <1>22, <1>24 DEF GoodSchedules, Keeps

-------------------------------------------------------------------------------
\* Frames of Update, followed as far as the clock has not wrapped.
RunStates == [now : Int, before : Int, again : BOOLEAN, old : Int]

RunKeeps(first, tick, s) ==
    /\ s \in RunStates /\ first <= s.now
    /\ s.now - first < CLOCK => first <= s.old /\ (s.old - first) % tick = 0
    /\ s.now < CLOCK =>
         /\ s.now <= s.old + tick
         /\ s.again => s.now > s.before + tick \/ s.before + tick >= CLOCK

GoodRuns(first, tick) == {s \in RunStates : RunKeeps(first, tick, s)}

FirstRun(first) == [now |-> first, before |-> first, again |-> FALSE, old |-> first]

LEMMA FirstRunKeeps ==
  ASSUME NEW first \in 0 .. CLOCK - 1, NEW tick \in 1 .. MaxTick
  PROVE  FirstRun(first) \in GoodRuns(first, tick)
<1>1. tick \in Nat \ {0} /\ 0 \in 0 .. tick - 1 /\ first - first = 0
  BY TickFacts
<1>2. (first - first) % tick = 0
  BY <1>1, ModSmall
<1>3. PICK s : s = FirstRun(first)
  OBVIOUS
<1>4. s \in RunStates /\ s.now = first /\ s.old = first /\ s.again = FALSE
  BY <1>3 DEF FirstRun, RunStates
<1> QED
  BY <1>1, <1>2, <1>3, <1>4 DEF GoodRuns, RunKeeps

LEMMA RunStepKeeps ==
  ASSUME NEW first \in 0 .. CLOCK - 1, NEW tick \in 1 .. MaxTick,
         NEW s \in GoodRuns(first, tick), NEW t \in Int, s.now <= t
  PROVE  EndRun(first, tick, s, t) \in GoodRuns(first, tick)
<1>1. tick \in Nat \ {0} /\ tick < CLOCK /\ CLOCK \in Nat \ {0} /\ first \in Nat
  BY TickFacts
<1>2. PICK old \in Int, now \in Int :
        /\ old = s.old /\ now = s.now /\ first <= now /\ now <= t
        /\ now - first < CLOCK => first <= old /\ (old - first) % tick = 0
  BY DEF GoodRuns, RunKeeps, RunStates
<1>3. PICK e \in 0 .. CLOCK - 1 : e = (t - first) % CLOCK
  <2>1. PICK a \in Int : a = t - first
    OBVIOUS
  <2>2. a % CLOCK \in 0 .. CLOCK - 1
    BY <1>1, DivMod
  <2> QED
    BY <2>1, <2>2
<1>4. PICK r \in 0 .. tick - 1 : r = e % tick
  <2>1. e \in Int
    BY <1>1
  <2>2. e % tick \in 0 .. tick - 1
    BY <1>1, <2>1, DivMod
  <2> QED
    BY <2>2
<1>5. LateFrame(t, first, tick) = t - r
  <2>1. PICK x : x = t % CLOCK
    OBVIOUS
  <2>2. (x - first) % CLOCK = e
    <3>1. first \in Int
      BY <1>1
    <3>2. ((t % CLOCK) - first) % CLOCK = (t - first) % CLOCK
      BY <1>1, <3>1, ModShift, Zenon
    <3> QED
      BY <1>3, <2>1, <3>2
  <2> QED
    BY <1>4, <2>1, <2>2 DEF LateFrame, Minus
<1>6. PICK again \in BOOLEAN : again = Late(t, old, tick)
  <2>1. PICK x, y : x = t % CLOCK /\ y = Plus(old % CLOCK, tick)
    OBVIOUS
  <2>2. Late(t, old, tick) = (x > y)
    BY <2>1 DEF Late
  <2>3. x \in Int /\ y \in Int
    <3>1. t % CLOCK \in Int
      BY <1>1, DivMod
    <3>2. (old % CLOCK) \in Int
      BY <1>1, DivMod
    <3>3. PICK z \in Int : z = (old % CLOCK) + tick
      BY <1>1, <3>2
    <3>4. z % CLOCK \in Int
      BY <1>1, DivMod
    <3> QED
      BY <2>1, <3>1, <3>3, <3>4 DEF Plus
  <2>4. (x > y) \in BOOLEAN
    BY <2>3
  <2> QED
    BY <2>2, <2>4
<1>7. PICK f \in Int : f = IF again THEN t - r ELSE old + tick
  <2>1. t - r \in Int /\ old + tick \in Int
    BY <1>1
  <2> QED
    BY <2>1
<1>8. PICK n : n = EndRun(first, tick, s, t)
  OBVIOUS
<1>9. n = [now |-> t, before |-> old, again |-> again, old |-> f]
  BY <1>2, <1>5, <1>6, <1>7, <1>8 DEF EndRun
<1>10. n \in RunStates /\ n.now = t /\ n.before = old /\ n.again = again /\ n.old = f
  BY <1>9 DEF RunStates
<1>11. ASSUME t - first < CLOCK PROVE first <= f /\ (f - first) % tick = 0
  <2>1. t - first \in 0 .. CLOCK - 1 /\ now - first < CLOCK
    BY <1>1, <1>2, <1>11
  <2>2. e = t - first
    BY <1>1, <1>3, <2>1, ModSmall
  <2>3. CASE again
    <3>1. e \in Int
      BY <1>1
    <3>2. (e - r) % tick = 0
      BY <1>1, <1>4, <3>1, OnPhase
    <3>3. f - first = e - r
      BY <1>7, <2>2, <2>3
    <3>4. r <= e
      <4>1. CASE e < tick
        <5>1. e \in 0 .. tick - 1
          BY <1>1, <4>1
        <5> QED
          BY <1>1, <1>4, <5>1, ModSmall
      <4>2. CASE e >= tick
        BY <1>1, <4>2
      <4> QED
        BY <1>1, <4>1, <4>2
    <3> QED
      BY <1>1, <3>2, <3>3, <3>4
  <2>4. CASE ~ again
    <3>1. f = old + tick /\ first <= old /\ (old - first) % tick = 0
      BY <1>2, <1>7, <2>1, <2>4
    <3>2. PICK a \in Int : a = old - first
      OBVIOUS
    <3>3. (a + tick) % tick = 0
      BY <1>1, <3>1, <3>2, OnPhase
    <3>4. f - first = a + tick
      BY <1>1, <3>1, <3>2
    <3> QED
      BY <1>1, <3>1, <3>3, <3>4
  <2> QED
    BY <2>3, <2>4
<1>12. ASSUME t < CLOCK
       PROVE  t <= f + tick /\ (again => t > old + tick \/ old + tick >= CLOCK)
  <2>1. t \in 0 .. CLOCK - 1 /\ now - first < CLOCK
    BY <1>1, <1>2, <1>12
  <2>2. t % CLOCK = t
    BY <1>1, <2>1, ModSmall
  <2>3. old \in Nat
    BY <1>1, <1>2, <2>1
  <2>4. Late(t, old, tick) <=> t > (old + tick) % CLOCK
    <3>1. tick \in Int
      BY <1>1
    <3>2. ((old % CLOCK) + tick) % CLOCK = (old + tick) % CLOCK
      BY <1>1, <3>1, ModShift, Zenon
    <3> QED
      BY <2>2, <3>2 DEF Late, Plus
  <2>5. CASE old + tick < CLOCK
    <3>1. old + tick \in 0 .. CLOCK - 1
      BY <1>1, <2>3, <2>5
    <3>2. (old + tick) % CLOCK = old + tick
      BY <1>1, <3>1, ModSmall
    <3>3. again <=> t > old + tick
      BY <1>6, <2>4, <3>2
    <3> QED
      BY <1>1, <1>7, <2>3, <3>3
  <2>6. CASE ~ (old + tick < CLOCK)
    BY <1>1, <1>7, <1>12, <2>3, <2>6
  <2> QED
    BY <2>5, <2>6
<1>13. first <= n.now
  BY <1>1, <1>2, <1>10
<1> QED
  BY <1>8, <1>10, <1>11, <1>12, <1>13 DEF GoodRuns, RunKeeps

-------------------------------------------------------------------------------
\* What is reached from members of G by steps that stay in G.
LEMMA StaysGood ==
  ASSUME NEW N \in Nat, NEW G, NEW f, f[0] \subseteq G,
         \A k \in 1 .. N : f[k - 1] \subseteq G => f[k] \subseteq G
  PROVE  \A k \in 0 .. N : f[k] \subseteq G
<1> DEFINE T == {k \in 0 .. N : ~ (f[k] \subseteq G)}
<1> SUFFICES ASSUME T # {} PROVE FALSE
  OBVIOUS
<1>1. PICK n \in T : \A m \in T : n <= m
  <2>1. T \in SUBSET (0 .. N)
    OBVIOUS
  <2> HIDE DEF T
  <2> QED
    BY <2>1, LeastElement
<1>2. n \in 1 .. N /\ n - 1 \in 0 .. N /\ n - 1 \notin T
  BY <1>1
<1> QED
  BY <1>1, <1>2

\* f[k] is what k steps reach from A, where R[s] is what one step reaches from s.
Reaches(N, A, R, f) ==
    f[0] = A /\ \A k \in 1 .. N : f[k] = UNION {R[s] : s \in f[k - 1]}

\* There is such a function.
LEMMA Reached ==
  ASSUME NEW N \in Nat, NEW G, NEW A \in SUBSET G, NEW R \in [G -> SUBSET G]
  PROVE  \E f \in [0 .. N -> SUBSET G] : Reaches(N, A, R, f)
<1> DEFINE Upto(n, f) == f[0] = A /\ \A k \in 1 .. n : f[k] = UNION {R[s] : s \in f[k - 1]}
           T == {n \in 0 .. N : ~ \E f \in [0 .. N -> SUBSET G] : Upto(n, f)}
<1> SUFFICES ASSUME T # {} PROVE FALSE
  <2>1. N \in 0 .. N
    OBVIOUS
  <2>2. PICK f \in [0 .. N -> SUBSET G] : Upto(N, f)
    BY <2>1
  <2>3. Reaches(N, A, R, f)
    BY <2>2 DEF Reaches
  <2> QED
    BY <2>3
<1>1. PICK n \in T : \A m \in T : n <= m
  <2>1. T \in SUBSET (0 .. N)
    OBVIOUS
  <2> HIDE DEF T
  <2> QED
    BY <2>1, LeastElement
<1>2. n # 0
  <2>1. PICK f : f = [k \in 0 .. N |-> A]
    OBVIOUS
  <2>2. f \in [0 .. N -> SUBSET G] /\ f[0] = A
    BY <2>1
  <2>3. Upto(0, f)
    BY <2>2
  <2> QED
    BY <1>1, <2>2, <2>3
<1>3. n \in 1 .. N /\ n - 1 \in 0 .. N /\ n - 1 \notin T
  BY <1>1, <1>2
<1>4. PICK f \in [0 .. N -> SUBSET G] : Upto(n - 1, f)
  BY <1>3
<1>5. PICK B \in SUBSET G : B = UNION {R[s] : s \in f[n - 1]}
  <2>1. f[n - 1] \subseteq G
    BY <1>3
  <2>2. \A s \in f[n - 1] : R[s] \subseteq G
    BY <2>1
  <2> QED
    BY <2>2
<1>6. PICK g : g = [k \in 0 .. N |-> IF k = n THEN B ELSE f[k]]
  OBVIOUS
<1>7. g \in [0 .. N -> SUBSET G]
  BY <1>6
<1>8. g[0] = A
  BY <1>2, <1>4, <1>6
<1>9. ASSUME NEW k \in 1 .. n PROVE g[k] = UNION {R[s] : s \in g[k - 1]}
  <2>1. k \in 0 .. N /\ k - 1 \in 0 .. N /\ k - 1 # n
    BY <1>3
  <2>2. g[k - 1] = f[k - 1]
    BY <1>6, <2>1
  <2>3. CASE k = n
    BY <1>5, <1>6, <2>1, <2>2, <2>3
  <2>4. CASE k # n
    <3>1. k \in 1 .. n - 1
      BY <1>3, <2>4
    <3> QED
      BY <1>4, <1>6, <2>1, <2>2, <2>4, <3>1
  <2> QED
    BY <2>3, <2>4
<1>10. Upto(n, g)
  BY <1>8, <1>9
<1> QED
  BY <1>1, <1>7, <1>10

-------------------------------------------------------------------------------
LEMMA SchedulesGood ==
  ASSUME NEW first \in 0 .. CLOCK - 1, NEW ticks \in [Pair -> 1 .. MaxTick]
  PROVE  Schedules(first, ticks) \subseteq GoodSchedules(first, ticks)
<1> DEFINE A == {FirstRound(first, ticks, d) : d \in 0 .. MaxLate}
           Then(X) == {Round(first, ticks, s, d) : s \in X, d \in 0 .. MaxLate}
           F(f) == [k \in 0 .. Rounds |->
                      IF k = 0 THEN A
                      ELSE Then(f[k - 1])]
<1>1. PICK m : m = CHOOSE f : f = F(f)
  OBVIOUS
<1>2. Schedules(first, ticks) = UNION {m[k] : k \in 0 .. Rounds}
  BY <1>1 DEF Schedules
<1>3. PICK G : G = GoodSchedules(first, ticks)
  OBVIOUS
<1>4. A \subseteq G
  BY <1>3, FirstKeeps
<1>5. \A s \in G, d \in 0 .. MaxLate : Round(first, ticks, s, d) \in G
  BY <1>3, RoundKeeps
<1>6. PICK R : R = [s \in G |-> {Round(first, ticks, s, d) : d \in 0 .. MaxLate}]
  OBVIOUS
<1>7. R \in [G -> SUBSET G]
  BY <1>5, <1>6
<1>8. Rounds \in Nat
  BY TimerAssumption
<1>9. PICK f \in [0 .. Rounds -> SUBSET G] :
        f[0] = A /\ \A k \in 1 .. Rounds : f[k] = UNION {R[s] : s \in f[k - 1]}
  <2> HIDE DEF A
  <2>1. A \in SUBSET G
    BY <1>4
  <2>2. PICK f \in [0 .. Rounds -> SUBSET G] : Reaches(Rounds, A, R, f)
    BY <1>7, <1>8, <2>1, Reached
  <2> QED
    BY <2>2 DEF Reaches
<1>10. f = F(f)
  <2> SUFFICES ASSUME NEW k \in 0 .. Rounds PROVE f[k] = F(f)[k]
    OBVIOUS
  <2>1. CASE k = 0
    BY <1>9, <2>1
  <2>2. CASE k # 0
    <3>1. k \in 1 .. Rounds /\ k - 1 \in 0 .. Rounds
      BY <1>8, <2>2
    <3>2. f[k - 1] \subseteq G
      BY <3>1
    <3>3. f[k] = UNION {R[s] : s \in f[k - 1]}
      BY <1>9, <3>1
    <3>4. \A s \in f[k - 1] : R[s] = {Round(first, ticks, s, d) : d \in 0 .. MaxLate}
      BY <1>6, <3>2
    <3>5. f[k] = Then(f[k - 1])
      BY <3>3, <3>4
    <3> QED
      BY <2>2, <3>5
  <2> QED
    BY <2>1, <2>2
<1>11. m = F(m)
  <2> HIDE DEF F
  <2> QED
    BY <1>1, <1>10
<1>12. m[0] = A /\ \A k \in 1 .. Rounds :
          m[k] = Then(m[k - 1])
  <2>1. ASSUME NEW k \in 0 .. Rounds PROVE m[k] = F(m)[k]
    <3> HIDE DEF F
    <3> QED
      BY <1>11
  <2>2. 0 \in 0 .. Rounds /\ \A k \in 1 .. Rounds : k \in 0 .. Rounds /\ k # 0
    BY <1>8
  <2> HIDE DEF A, Then
  <2>3. m[0] = A
    BY <2>1, <2>2
  <2>4. ASSUME NEW k \in 1 .. Rounds
        PROVE  m[k] = Then(m[k - 1])
    BY <2>1, <2>2
  <2> QED
    BY <2>3, <2>4
<1>13. \A k \in 1 .. Rounds : m[k - 1] \subseteq G => m[k] \subseteq G
  BY <1>5, <1>12
<1>14. \A k \in 0 .. Rounds : m[k] \subseteq G
  <2> HIDE DEF A, F
  <2>1. m[0] \subseteq G
    BY <1>4, <1>12
  <2> QED
    BY <1>8, <1>13, <2>1, StaysGood
<1> QED
  BY <1>2, <1>3, <1>14

LEMMA RunsGood ==
  ASSUME NEW first \in 0 .. CLOCK - 1, NEW tick \in 1 .. MaxTick
  PROVE  Runs(first, tick) \subseteq GoodRuns(first, tick)
<1> DEFINE A == {FirstRun(first)}
           E == 0 .. tick + MaxLate
           Then(X) == {EndRun(first, tick, s, s.now + d) : s \in X, d \in E}
           F(f) == [k \in 0 .. Rounds |->
                      IF k = 0 THEN A
                      ELSE Then(f[k - 1])]
<1>1. PICK m : m = CHOOSE f : f = F(f)
  OBVIOUS
<1>2. Runs(first, tick) = UNION {m[k] : k \in 1 .. Rounds}
  BY <1>1 DEF Runs, FirstRun
<1>3. PICK G : G = GoodRuns(first, tick)
  OBVIOUS
<1>4. A \subseteq G
  BY <1>3, FirstRunKeeps
<1>5. ASSUME NEW s \in G, NEW d \in E PROVE EndRun(first, tick, s, s.now + d) \in G
  <2>1. s.now \in Int /\ d \in Nat
    BY <1>3 DEF GoodRuns, RunStates
  <2>2. PICK t \in Int : t = s.now + d /\ s.now <= t
    BY <2>1
  <2>3. s \in GoodRuns(first, tick)
    BY <1>3
  <2>4. EndRun(first, tick, s, t) \in GoodRuns(first, tick)
    BY <2>2, <2>3, RunStepKeeps
  <2> QED
    BY <1>3, <2>2, <2>4
<1>6. PICK R : R = [s \in G |-> {EndRun(first, tick, s, s.now + d) : d \in E}]
  OBVIOUS
<1>7. R \in [G -> SUBSET G]
  <2> HIDE DEF E
  <2> QED
    BY <1>5, <1>6
<1>8. Rounds \in Nat
  BY TimerAssumption
<1>9. PICK f \in [0 .. Rounds -> SUBSET G] :
        f[0] = A /\ \A k \in 1 .. Rounds : f[k] = UNION {R[s] : s \in f[k - 1]}
  <2> HIDE DEF A
  <2>1. A \in SUBSET G
    BY <1>4
  <2>2. PICK f \in [0 .. Rounds -> SUBSET G] : Reaches(Rounds, A, R, f)
    BY <1>7, <1>8, <2>1, Reached
  <2> QED
    BY <2>2 DEF Reaches
<1>10. f = F(f)
  <2> SUFFICES ASSUME NEW k \in 0 .. Rounds PROVE f[k] = F(f)[k]
    OBVIOUS
  <2>1. CASE k = 0
    BY <1>9, <2>1
  <2>2. CASE k # 0
    <3>1. k \in 1 .. Rounds /\ k - 1 \in 0 .. Rounds
      BY <1>8, <2>2
    <3>2. f[k - 1] \subseteq G
      BY <3>1
    <3>3. f[k] = UNION {R[s] : s \in f[k - 1]}
      BY <1>9, <3>1
    <3>4. \A s \in f[k - 1] : R[s] = {EndRun(first, tick, s, s.now + d) : d \in E}
      BY <1>6, <3>2
    <3>5. f[k] = Then(f[k - 1])
      <4> HIDE DEF E
      <4> QED
        BY <3>3, <3>4
    <3> QED
      BY <2>2, <3>5
  <2> QED
    BY <2>1, <2>2
<1>11. m = F(m)
  <2> HIDE DEF F
  <2> QED
    BY <1>1, <1>10
<1>12. m[0] = A /\ \A k \in 1 .. Rounds :
          m[k] = Then(m[k - 1])
  <2>1. ASSUME NEW k \in 0 .. Rounds PROVE m[k] = F(m)[k]
    <3> HIDE DEF F
    <3> QED
      BY <1>11
  <2>2. 0 \in 0 .. Rounds /\ \A k \in 1 .. Rounds : k \in 0 .. Rounds /\ k # 0
    BY <1>8
  <2> HIDE DEF A, Then
  <2>3. m[0] = A
    BY <2>1, <2>2
  <2>4. ASSUME NEW k \in 1 .. Rounds
        PROVE  m[k] = Then(m[k - 1])
    BY <2>1, <2>2
  <2> QED
    BY <2>3, <2>4
<1>13. \A k \in 1 .. Rounds : m[k - 1] \subseteq G => m[k] \subseteq G
  <2> HIDE DEF E
  <2> QED
    BY <1>5, <1>12
<1>14. \A k \in 0 .. Rounds : m[k] \subseteq G
  <2> HIDE DEF A, E, F
  <2>1. m[0] \subseteq G
    BY <1>4, <1>12
  <2> QED
    BY <1>8, <1>13, <2>1, StaysGood
<1> QED
  BY <1>2, <1>3, <1>14

\* However late waits and runs end, wherever the clock wraps, and for any frame lengths:
\* the scheduler's waits and the frames of Update keep their phase (Scheduler.cpp,
\* threadFunc; UpdateBase.cpp, Update).
LEMMA AlwaysKept == \A first \in 0 .. CLOCK - 1 : Kept[first]
<1> SUFFICES ASSUME NEW first \in 0 .. CLOCK - 1 PROVE Kept[first]
  OBVIOUS
<1>1. ASSUME NEW ticks \in [Pair -> 1 .. MaxTick] PROVE ScheduleKept(first, ticks)
  <2>1. DOMAIN ticks = Pair
    OBVIOUS
  <2>2. ASSUME NEW s \in Schedules(first, ticks)
        PROVE  /\ \A u \in Pair : s.arr[u] \in 1 .. ticks[u]
               /\ \A b \in s.begun : OnTime(first, s.now, b)
    <3>1. Keeps(first, ticks, s)
      BY <2>2, SchedulesGood DEF GoodSchedules
    <3> QED
      BY <3>1 DEF Keeps, InFrame
  <2> QED
    BY <2>1, <2>2 DEF ScheduleKept, OnTime
<1>2. ASSUME NEW tick \in 1 .. MaxTick PROVE RunsKept(first, tick)
  <2>1. ASSUME NEW s \in Runs(first, tick) PROVE RunKeeps(first, tick, s)
    BY RunsGood DEF GoodRuns
  <2> QED
    BY <2>1 DEF RunsKept, RunKeeps
<1> QED
  BY <1>1, <1>2 DEF Kept, Pair

\* The same, of the thread that Start has resumed: for any clock, any frame length below
\* its period, any delays and any number of rounds and runs.
THEOREM FramesKeptAlways == LSpec => []FramesKept
<1>1. FramesKept
  BY AlwaysKept DEF FramesKept
<1> QED
  BY <1>1, PTL

===============================================================================
