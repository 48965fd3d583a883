------------------------------- MODULE Scheduler -------------------------------
(***************************************************************************)
(* The life of the scheduler thread around UpdateGate: Scheduler::Init     *)
(* creates it suspended, Start resumes it, and every server of the process *)
(* calls Release_SchedulerThread when it shuts down, one after another or  *)
(* at the same time.                                                       *)
(*                                                                         *)
(* Every update was registered before Start, and no server shuts down      *)
(* before Init.                                                            *)
(***************************************************************************)
EXTENDS UpdateGate, FrameTimer

CONSTANT Servers

VARIABLES
  hThread,    \* NULL, the open or the closed handle, or INVALID_HANDLE_VALUE
  resumed,    \* the thread was created suspended and has been resumed
  server      \* where each server is in Release_SchedulerThread; "hung" in a wait that
              \* never ends

lifeVars == <<hThread, resumed, server>>
allVars  == <<vars, lifeVars>>

LInit ==
    /\ Init
    /\ hThread = "NULL" /\ resumed = FALSE
    /\ server = [s \in Servers |-> "up"]

At(s, from, to) == server[s] = from /\ server' = [server EXCEPT ![s] = to]

\* Scheduler::Init
Create ==
    /\ hThread = "NULL"
    /\ hThread' = "open"
    /\ UNCHANGED <<vars, resumed, server>>

\* Scheduler::Start; to resume a thread that runs changes nothing.
Start ==
    /\ hThread = "open"
    /\ resumed' = TRUE
    /\ UNCHANGED <<vars, hThread, server>>

\* Mutation: the handle is given up before the thread was waited for.
ReleaseForgetting(s) ==
    /\ hThread # "NULL"
    /\ At(s, "up", IF hThread = "INVALID" THEN "down" ELSE "set")
    /\ hThread' = "INVALID"
    /\ UNCHANGED <<vars, resumed>>

\* Release_SchedulerThread returns at once if another server has done with the thread.
Release(s) ==
    /\ hThread # "NULL"
    /\ At(s, "up", IF hThread = "INVALID" THEN "down" ELSE "set")
    /\ UNCHANGED <<vars, hThread, resumed>>

\* Mutation: nobody sets the event.
SetTerminateNot(s) ==
    /\ At(s, "set", "wait")
    /\ UNCHANGED <<vars, hThread, resumed>>

\* SetEvent(uPI.hTerminateEvent_)
SetTerminate(s) ==
    /\ At(s, "set", "wait")
    /\ terminate \/ Terminate
    /\ terminate => UNCHANGED vars
    /\ UNCHANGED <<hThread, resumed>>

\* WaitForSingleObject(hThread, INFINITE) with the handle read now: it fails at once on one
\* that another server has closed meanwhile, and on INVALID_HANDLE_VALUE never ends.
WaitForThread(s) ==
    /\ \/ hThread = "open" /\ At(s, "wait", "waiting")
       \/ hThread = "closed" /\ At(s, "wait", "close")
       \/ hThread = "INVALID" /\ At(s, "wait", "hung")
    /\ UNCHANGED <<vars, hThread, resumed>>

\* The wait for the thread ends with the thread, whatever becomes of the handle.
EndWait(s) ==
    /\ At(s, "waiting", "close")
    /\ scheduler = "stopped"
    /\ UNCHANGED <<vars, hThread, resumed>>

Close(s) ==
    /\ At(s, "close", "invalidate")
    /\ hThread' = IF hThread = "open" THEN "closed" ELSE hThread
    /\ UNCHANGED <<vars, resumed>>

Invalidate(s) ==
    /\ At(s, "invalidate", "down")
    /\ hThread' = "INVALID"
    /\ UNCHANGED <<vars, resumed>>

ReleaseStep(s) ==
    SetTerminate(s) \/ WaitForThread(s) \/ EndWait(s) \/ Close(s) \/ Invalidate(s)

ThreadFunc == resumed /\ SchedulerStep /\ UNCHANGED lifeVars

Worker(w) == WorkerStep(w) /\ UNCHANGED lifeVars

LNext ==
    \/ Create \/ Start
    \/ \E s \in Servers : Release(s) \/ ReleaseStep(s)
    \/ ThreadFunc
    \/ \E w \in Workers : Worker(w) \/ \E u \in Updates : Take(w, u) /\ UNCHANGED lifeVars

\* Threads that can run do run: workers inside Update, the scheduler, whose waits end at
\* the latest with their timeout, and servers inside Release_SchedulerThread.
LSpec ==
    /\ LInit /\ [][LNext]_allVars
    /\ \A w \in Workers : WF_allVars(Worker(w))
    /\ WF_allVars(ThreadFunc)
    /\ \A s \in Servers : WF_allVars(ReleaseStep(s))

-------------------------------------------------------------------------------
\* Whenever threadFunc may take its first time, scheduler and updates keep to their frames
\* from then on, however late waits and runs end and wherever the clock wraps.
FramesKept == resumed => \A first \in 0 .. CLOCK - 1 : Kept[first]

\* A server that has come back from Release_SchedulerThread, also when another one did
\* the work, can count on it that nothing is posted any more: its update objects and
\* their completion port may go.
StoppedAfterRelease ==
    (\E s \in Servers : server[s] = "down") => scheduler = "stopped" /\ posting = None

\* Once the thread was started, a server that releases it comes back, or another one has
\* come back and left it INVALID_HANDLE_VALUE to wait on: nothing else holds it up.
ReleaseEnds ==
    \A s \in Servers :
      resumed /\ server[s] # "up" ~>
        \/ server[s] = "down"
        \/ server[s] = "hung" /\ \E t \in Servers : server[t] = "down"

\* What the comments of Release_SchedulerThread claim: of two servers that shut down one
\* does the work, and no wait is for ever.  Every server comes back.
ReleaseReturns ==
    \A s \in Servers : resumed /\ server[s] # "up" ~> server[s] = "down"

===============================================================================
