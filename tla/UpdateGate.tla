------------------------------ MODULE UpdateGate ------------------------------
(***************************************************************************)
(* UpdateBase::Update and the scheduler thread that has it called.  The    *)
(* scheduler posts a completion for every UpdateBase whose frame is due;   *)
(* any IOCP worker may take it and calls Update.  singleThreadGate_ lets   *)
(* one worker in; a worker that is turned away leaves its increment behind *)
(* so that the one inside runs Update_IMPL once more.                      *)
(*                                                                         *)
(* Which updates are due, and whether a run ended late, is arbitrary here  *)
(* (module FrameTimer has the times, module Scheduler the thread's life).  *)
(* Each interlocked operation and the plain read of unProcessedPqcsCnt_ is *)
(* an action.                                                              *)
(***************************************************************************)
EXTENDS Integers, FiniteSets

CONSTANTS
  Workers,     \* IOCP worker threads
  Updates,     \* the UpdateBase objects that were registered
  None,        \* not an update
  Limit,       \* AllowedUnProcessedPqcsLimit
  GateBound    \* bound: calls turned away during one run of Update_IMPL

ASSUME GateAssumption ==
    /\ IsFiniteSet(Workers) /\ None \notin Updates
    /\ Limit \in Int /\ GateBound \in Int

VARIABLES
  gate,        \* singleThreadGate_
  unProcessed, \* unProcessedPqcsCnt_
  queue,       \* completions posted to the port and not taken, per update
  owed,        \* history: calls turned away since Update_IMPL last began
  pc, cur,     \* where each worker is, and the update it was called for
  scheduler,   \* where the scheduler thread is
  todo,        \* updates the scheduler still has to look at in this round
  posting,     \* the update it is posting for
  terminate    \* hTerminateEvent_ has been set

gateVars   == <<gate, owed>>
workerVars == <<pc, cur>>
schedVars  == <<scheduler, todo, posting>>
vars == <<gateVars, unProcessed, queue, workerVars, schedVars, terminate>>

Init ==
    /\ gate = [u \in Updates |-> 0]
    /\ unProcessed = [u \in Updates |-> 0]
    /\ queue = [u \in Updates |-> 0]
    /\ owed = [u \in Updates |-> 0]
    /\ pc = [w \in Workers |-> "idle"]
    /\ cur = [w \in Workers |-> None]
    /\ scheduler = "first" /\ todo = Updates /\ posting = None
    /\ terminate = FALSE

Goto(w, label) == pc' = [pc EXCEPT ![w] = label]

-------------------------------------------------------------------------------
\* The worker: GetQueuedCompletionStatus, then Update.
Take(w, u) ==
    /\ pc[w] = "idle"
    /\ queue[u] > 0
    /\ queue' = [queue EXCEPT ![u] = @ - 1]
    /\ cur' = [cur EXCEPT ![w] = u]
    /\ Goto(w, "enter")
    /\ UNCHANGED <<gateVars, unProcessed, schedVars, terminate>>

\* Mutation: a call that is turned away does not count down.
EnterUncounted(w) ==
    /\ pc[w] = "enter"
    /\ LET u == cur[w]
       IN  /\ gate' = [gate EXCEPT ![u] = @ + 1]
           /\ IF gate[u] > 0
              THEN /\ Goto(w, "idle") /\ cur' = [cur EXCEPT ![w] = None]
                   /\ owed' = [owed EXCEPT ![u] = @ + 1]
              ELSE Goto(w, "run") /\ UNCHANGED <<owed, cur>>
    /\ UNCHANGED <<unProcessed, queue, schedVars, terminate>>

\* InterlockedIncrement(&singleThreadGate_) - 1 > 0
Enter(w) ==
    /\ pc[w] = "enter"
    /\ LET u == cur[w]
       IN  /\ gate' = [gate EXCEPT ![u] = @ + 1]
           /\ IF gate[u] > 0
              THEN Goto(w, "done") /\ owed' = [owed EXCEPT ![u] = @ + 1]
              ELSE Goto(w, "run") /\ UNCHANGED owed
    /\ UNCHANGED <<unProcessed, queue, cur, schedVars, terminate>>

\* Update_IMPL begins: a call turned away from now on is not served by it ...
BeginImpl(w) ==
    /\ pc[w] = "run"
    /\ owed' = [owed EXCEPT ![cur[w]] = 0]
    /\ Goto(w, "impl")
    /\ UNCHANGED <<gate, unProcessed, queue, cur, schedVars, terminate>>

\* ... and returns, and the frame is found to be late or not.
EndImpl(w) ==
    /\ pc[w] = "impl"
    /\ \E late \in BOOLEAN : Goto(w, IF late THEN "rearm" ELSE "leave")
    /\ UNCHANGED <<gateVars, unProcessed, queue, cur, schedVars, terminate>>

\* Mutation: the gate is reset to 0 before the next run.
RearmToZero(w) ==
    /\ pc[w] = "rearm"
    /\ gate' = [gate EXCEPT ![cur[w]] = 0]
    /\ Goto(w, "run")
    /\ UNCHANGED <<owed, unProcessed, queue, cur, schedVars, terminate>>

\* InterlockedExchange(&singleThreadGate_, 1); continue
Rearm(w) ==
    /\ pc[w] = "rearm"
    /\ gate' = [gate EXCEPT ![cur[w]] = 1]
    /\ Goto(w, "run")
    /\ UNCHANGED <<owed, unProcessed, queue, cur, schedVars, terminate>>

\* Mutation: the gate is opened with a store of 0, whatever it had counted.
LeaveByStore(w) ==
    /\ pc[w] = "leave"
    /\ gate' = [gate EXCEPT ![cur[w]] = 0]
    /\ Goto(w, "done")
    /\ UNCHANGED <<owed, unProcessed, queue, cur, schedVars, terminate>>

\* Mutation: the worker leaves although the gate has counted other calls.
LeaveAnyway(w) ==
    /\ pc[w] = "leave"
    /\ gate' = [gate EXCEPT ![cur[w]] = @ - 1]
    /\ Goto(w, "done")
    /\ UNCHANGED <<owed, unProcessed, queue, cur, schedVars, terminate>>

\* InterlockedDecrement(&singleThreadGate_) > 0
Leave(w) ==
    /\ pc[w] = "leave"
    /\ gate' = [gate EXCEPT ![cur[w]] = @ - 1]
    /\ Goto(w, IF gate[cur[w]] - 1 > 0 THEN "rearm" ELSE "done")
    /\ UNCHANGED <<owed, unProcessed, queue, cur, schedVars, terminate>>

\* InterlockedDecrement(&unProcessedPqcsCnt_), of either kind of call.
Finish(w) ==
    /\ pc[w] = "done"
    /\ unProcessed' = [unProcessed EXCEPT ![cur[w]] = @ - 1]
    /\ cur' = [cur EXCEPT ![w] = None]
    /\ Goto(w, "idle")
    /\ UNCHANGED <<gateVars, queue, schedVars, terminate>>

-------------------------------------------------------------------------------
\* The scheduler thread.  The first round posts for every update, unasked.
First(u) ==
    /\ scheduler = "first"
    /\ u \in todo
    /\ scheduler' = "firstPost" /\ posting' = u /\ todo' = todo \ {u}
    /\ unProcessed' = [unProcessed EXCEPT ![u] = @ + 1]
    /\ UNCHANGED <<gateVars, queue, workerVars, terminate>>

\* WaitForSingleObject returns WAIT_TIMEOUT, with some updates due, or the event.
Wait ==
    /\ scheduler \in {"first", "round"}
    /\ todo = {}
    /\ IF terminate
       THEN scheduler' = "stopped" /\ UNCHANGED todo
       ELSE scheduler' = "round" /\ todo' \in SUBSET Updates
    /\ UNCHANGED <<gateVars, unProcessed, queue, workerVars, posting, terminate>>

\* Mutation: the limit itself is let through.
CheckAtMost(u) ==
    /\ scheduler = "round"
    /\ u \in todo
    /\ gate[u] < GateBound
    /\ todo' = todo \ {u}
    /\ IF unProcessed[u] <= Limit
       THEN scheduler' = "increment" /\ posting' = u
       ELSE UNCHANGED <<scheduler, posting>>
    /\ UNCHANGED <<gateVars, unProcessed, queue, workerVars, terminate>>

\* unProcessedPqcsCnt_ < AllowedUnProcessedPqcsLimit
Check(u) ==
    /\ scheduler = "round"
    /\ u \in todo
    /\ gate[u] < GateBound
    /\ todo' = todo \ {u}
    /\ IF unProcessed[u] < Limit
       THEN scheduler' = "increment" /\ posting' = u
       ELSE UNCHANGED <<scheduler, posting>>
    /\ UNCHANGED <<gateVars, unProcessed, queue, workerVars, terminate>>

Increment ==
    /\ scheduler = "increment"
    /\ scheduler' = "post"
    /\ unProcessed' = [unProcessed EXCEPT ![posting] = @ + 1]
    /\ UNCHANGED <<gateVars, queue, workerVars, todo, posting, terminate>>

\* PostQueuedCompletionStatus
Post ==
    /\ scheduler \in {"firstPost", "post"}
    /\ queue' = [queue EXCEPT ![posting] = @ + 1]
    /\ scheduler' = IF scheduler = "firstPost" THEN "first" ELSE "round"
    /\ posting' = None
    /\ UNCHANGED <<gateVars, unProcessed, workerVars, todo, terminate>>

\* Release_SchedulerThread sets the event.
Terminate ==
    /\ ~terminate
    /\ terminate' = TRUE
    /\ UNCHANGED <<gateVars, unProcessed, queue, workerVars, schedVars>>

-------------------------------------------------------------------------------
WorkerStep(w) == Enter(w) \/ BeginImpl(w) \/ EndImpl(w) \/ Rearm(w) \/ Leave(w) \/ Finish(w)

SchedulerStep ==
    Wait \/ Increment \/ Post \/ \E u \in Updates : First(u) \/ Check(u)

Next ==
    \/ \E w \in Workers : WorkerStep(w) \/ \E u \in Updates : Take(w, u)
    \/ SchedulerStep
    \/ Terminate

Spec == Init /\ [][Next]_vars

\* A worker inside Update is a runnable thread: the system keeps running it.
LiveSpec == Spec /\ \A w \in Workers : WF_vars(WorkerStep(w))

-------------------------------------------------------------------------------
\* Every variable has its type.
TypeOK ==
    /\ gate \in [Updates -> Int]
    /\ unProcessed \in [Updates -> Int]
    /\ queue \in [Updates -> Nat]
    /\ owed \in [Updates -> Nat]
    /\ pc \in [Workers -> {"idle", "enter", "run", "impl", "rearm", "leave", "done"}]
    /\ cur \in [Workers -> Updates \cup {None}]
    /\ \A w \in Workers : pc[w] # "idle" => cur[w] \in Updates
    /\ scheduler \in {"first", "firstPost", "round", "increment", "post", "stopped"}
    /\ todo \in SUBSET Updates
    /\ posting \in Updates \cup {None}
    /\ scheduler \in {"firstPost", "increment", "post"} => posting \in Updates
    /\ terminate \in BOOLEAN

\* The worker has passed the gate of u and not left it.
Inside(w, u) == cur[w] = u /\ pc[w] \in {"run", "impl", "rearm", "leave"}

\* Update_IMPL of one object is run by one worker at a time, whatever way the
\* exchanges, decrements and late frames of several workers interleave.
Serialized ==
    \A u \in Updates, v, w \in Workers : Inside(v, u) /\ Inside(w, u) => v = w

\* A call that was turned away is never lost: a worker is inside, and unless it
\* is about to begin Update_IMPL anyway, the gate will make it run once more.
NoLostUpdate ==
    \A u \in Updates :
      owed[u] > 0 =>
        \E w \in Workers :
          /\ Inside(w, u)
          /\ pc[w] \in {"impl", "leave"} => gate[u] > 1

\* The gate is open exactly when nobody is inside.
GateTellsOwner ==
    \A u \in Updates : gate[u] = 0 <=> \A w \in Workers : ~Inside(w, u)

InCall(u) == {w \in Workers : cur[w] = u}

\* unProcessedPqcsCnt_ counts the completions posted and not finished, plus the
\* one the scheduler is about to post: no path of Update counts down twice.
UnprocessedExact ==
    \A u \in Updates :
      unProcessed[u] = queue[u] + Cardinality(InCall(u))
        + (IF posting = u /\ scheduler \in {"firstPost", "post"} THEN 1 ELSE 0)

\* The scheduler's test keeps the count within the limit although it reads,
\* increments and posts in three steps; only the first post is unasked.
WithinLimit ==
    \A u \in Updates : unProcessed[u] <= (IF Limit > 1 THEN Limit ELSE 1)

\* Every call that was turned away is made good by a run of Update_IMPL.
OwedRuns == \A u \in Updates : owed[u] > 0 ~> owed[u] = 0

===============================================================================
