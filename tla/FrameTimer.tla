------------------------------- MODULE FrameTimer -------------------------------
(***************************************************************************)
(* The arithmetic of frames, on a clock (timeGetTime) that wraps.  The     *)
(* scheduler keeps, in arr, how long every update has to wait and sleeps   *)
(* for the shortest wait; Update keeps the beginning of the current frame  *)
(* in oldFrameTick_ and runs again when the frame it ends is late.         *)
(*                                                                         *)
(* A schedule is followed in real time, which does not wrap: the code sees *)
(* only its remainder.                                                     *)
(***************************************************************************)
EXTENDS Integers, FiniteSets, FiniteSetsExt, Functions

CONSTANTS
  CLOCK,         \* 2^32: timeGetTime returns 0 .. CLOCK - 1
  MaxTick,       \* bound: the longest TICK_PER_FRAME_
  MaxLate,       \* bound: how much longer than asked for a wait or a run may take
  Rounds         \* bound: rounds of the scheduler and runs of Update_IMPL followed

ASSUME TimerAssumption ==
    /\ MaxTick \in Nat \ {0} /\ CLOCK \in Nat /\ CLOCK > MaxTick
    /\ MaxLate \in Nat /\ Rounds \in Nat

Minus(a, b) == (a - b) % CLOCK
Plus(a, b)  == (a + b) % CLOCK

-------------------------------------------------------------------------------
\* UpdateAndGetTimeToSleep: from timeStamp to the end of its frame.
FrameStart(timeStamp, first, tick) == Minus(timeStamp, Minus(timeStamp, first) % tick)

UpdateAndGetTimeToSleep(timeStamp, first, tick) ==
    Minus(tick, Minus(timeStamp, FrameStart(timeStamp, first, tick)))

\* The start of threadFunc, for updates with the frames in ticks: firstTimeInit, the first
\* posts, and the waits, worked out a little later.  looked and late: the real time at
\* which each update was last found due, and by how much waits were too long since.
FirstRound(first, ticks, delay) ==
    [now    |-> first + delay,
     arr    |-> [u \in DOMAIN ticks |->
                   UpdateAndGetTimeToSleep((first + delay) % CLOCK, first, ticks[u])],
     looked |-> [u \in DOMAIN ticks |-> first],
     late   |-> [u \in DOMAIN ticks |-> delay],
     begun  |-> {}]

\* Mutation: an update that is not due yet keeps its wait as it is.
WaitsLeftKept(arr) == [u \in DOMAIN arr |-> IF arr[u] > Min(Range(arr)) THEN arr[u] ELSE 0]

\* arr[i] -= min
WaitsLeft(arr) == [u \in DOMAIN arr |-> arr[u] - Min(Range(arr))]

\* A wait that ends `delay` too late, and one turn of the while loop after it.
Round(first, ticks, s, delay) ==
    LET now  == s.now + Min(Range(s.arr)) + delay
        left == WaitsLeft(s.arr)
        due  == {u \in DOMAIN ticks : left[u] <= 0}
        slow == [u \in DOMAIN ticks |-> s.late[u] + delay]
    IN  [now |-> now,
         arr |-> [u \in DOMAIN ticks |->
                    IF u \in due THEN UpdateAndGetTimeToSleep(now % CLOCK, first, ticks[u])
                                 ELSE left[u]],
         looked |-> [u \in DOMAIN ticks |-> IF u \in due THEN now ELSE s.looked[u]],
         late   |-> [u \in DOMAIN ticks |-> IF u \in due THEN 0 ELSE slow[u]],
         begun  |-> {[tick |-> ticks[u], since |-> s.looked[u], late |-> slow[u]] : u \in due}]

\* The states after at most Rounds rounds, whatever the delays; begun: who was due in
\* the last one, since when, and how late the waits were.
Schedules(first, ticks) ==
    LET after[k \in 0 .. Rounds] ==
          IF k = 0 THEN {FirstRound(first, ticks, d) : d \in 0 .. MaxLate}
          ELSE {Round(first, ticks, s, d) : s \in after[k - 1], d \in 0 .. MaxLate}
    IN  UNION {after[k] : k \in 0 .. Rounds}

-------------------------------------------------------------------------------
\* The end of a run in Update at real time t, when the frame began at old.
Late(t, old, tick) == t % CLOCK > Plus(old % CLOCK, tick)

\* oldFrameTick_ of a late frame, in real time.
LateFrame(t, first, tick) == t - (Minus(t % CLOCK, first) % tick)

EndRun(first, tick, s, t) ==
    LET again == Late(t, s.old, tick)
    IN  [now |-> t, before |-> s.old, again |-> again,
         old |-> IF again THEN LateFrame(t, first, tick) ELSE s.old + tick]

\* The states after at most Rounds runs, from firstTimeInit on: a run begins when the one
\* before it ended or some time later, and may take longer than a frame.
Runs(first, tick) ==
    LET after[k \in 0 .. Rounds] ==
          IF k = 0 THEN {[now |-> first, before |-> first, again |-> FALSE, old |-> first]}
          ELSE {EndRun(first, tick, s, s.now + d) : s \in after[k - 1], d \in 0 .. tick + MaxLate}
    IN  UNION {after[k] : k \in 1 .. Rounds}

-------------------------------------------------------------------------------
\* However waits are delayed and wherever the clock wraps: the scheduler never asks for a
\* wait of 0, and comes back to an update after one frame and the delays since at
\* most; when no wait was too long since, and the time since the start did not wrap, it
\* comes back exactly where a frame of that update begins.
ScheduleKept(first, ticks) ==
    \A s \in Schedules(first, ticks) :
      /\ \A u \in DOMAIN ticks : s.arr[u] \in 1 .. ticks[u]
      /\ \A b \in s.begun :
           /\ s.now - b.since <= b.tick + b.late
           /\ b.late = 0 /\ s.now - first < CLOCK => (s.now - first) % b.tick = 0

\* Update's frames begin where the scheduler's would, counted from the first call; until
\* the clock wraps Update is never behind, and runs again only if the frame was
\* late or its end is beyond the wrap.
RunsKept(first, tick) ==
    \A s \in Runs(first, tick) :
      /\ s.now - first < CLOCK => (s.old - first) % tick = 0
      /\ s.now < CLOCK =>
           /\ s.now <= s.old + tick
           /\ s.again => s.now > s.before + tick \/ s.before + tick >= CLOCK

\* For every two updates, by the time at which the clock stood first.
Kept == [first \in 0 .. CLOCK - 1 |->
           /\ \A ticks \in [1 .. 2 -> 1 .. MaxTick] : ScheduleKept(first, ticks)
           /\ \A tick \in 1 .. MaxTick : RunsKept(first, tick)]

===============================================================================
