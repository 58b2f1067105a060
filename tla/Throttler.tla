----------------------------- MODULE Throttler ------------------------------
(***************************************************************************)
(* core/net/throttler.py: Throttler, one rate limit of it.                 *)
(*                                                                         *)
(* Tasks of one event loop call execute(): each holds the limit's lock     *)
(* from the look at the window to the end of the throttled call, also over *)
(* its sleep.  A caller of execute_sync() in one thread, as the data       *)
(* pipeline is, behaves like a single task.                                *)
(*                                                                         *)
(* The clock is read twice, before and after the sleep, and moves at any   *)
(* time; a call takes at least one unit of it, and a sleep ends at the     *)
(* asked time or later.                                                    *)
(*                                                                         *)
(* Bounds: EndOfTime on the clock.                                         *)
(***************************************************************************)
EXTENDS Integers, Sequences

CONSTANTS Tasks, MaxRequests, Window, EndOfTime

VARIABLES
  clock,      \* time.time()
  stage,      \* where each task is
  wake,       \* when the sleeping task wakes up
  started,    \* when the running call began
  times,      \* _request_times
  requests    \* history: times of all requests

vars == <<clock, stage, wake, started, times, requests>>

Init ==
  /\ clock = 0 /\ stage = [t \in Tasks |-> "idle"]
  /\ wake = 0 /\ started = 0 /\ times = <<>> /\ requests = <<>>

Tick ==
  /\ clock < EndOfTime /\ clock' = clock + 1
  /\ UNCHANGED <<stage, wake, started, times, requests>>

LockIsFree == \A t \in Tasks : stage[t] = "idle"

(* Requests are popped from the left until one is in the window.           *)
BrokenInWindow(r) == r > clock - Window + 1
InWindow(r) == r >= clock - Window

Popped(n) ==
  /\ n \in 0..Len(times)
  /\ \A i \in 1..n : ~InWindow(times[i])
  /\ n < Len(times) => InWindow(times[n + 1])

(* _wait_if_needed(): only the oldest request left is looked at, once.     *)
Enter(t) ==
  /\ LockIsFree
  /\ \E n \in 0..Len(times) :
       /\ Popped(n) /\ times' = SubSeq(times, n + 1, Len(times))
       /\ wake' = IF Len(times) - n >= MaxRequests THEN times[n + 1] + Window ELSE clock
  /\ stage' = [stage EXCEPT ![t] = IF wake' > clock THEN "sleeping" ELSE "recording"]
  /\ UNCHANGED <<clock, started, requests>>

WakeUp(t) ==
  /\ stage[t] = "sleeping" /\ clock >= wake
  /\ stage' = [stage EXCEPT ![t] = "recording"]
  /\ UNCHANGED <<clock, wake, started, times, requests>>

Record(t) ==
  /\ stage[t] = "recording"
  /\ times' = Append(times, clock) /\ requests' = Append(requests, clock)
  /\ started' = clock /\ stage' = [stage EXCEPT ![t] = "calling"]
  /\ UNCHANGED <<clock, wake>>

(* The call returns or raises; the lock is released either way.            *)
Return(t) ==
  /\ stage[t] = "calling" /\ clock > started
  /\ stage' = [stage EXCEPT ![t] = "idle"]
  /\ UNCHANGED <<clock, wake, started, times, requests>>

Next ==
  \/ Tick
  \/ \E t \in Tasks : Enter(t) \/ WakeUp(t) \/ Record(t) \/ Return(t)

Spec == Init /\ [][Next]_vars
-----------------------------------------------------------------------------
(* However tasks queue, sleep and wake late: no MaxRequests + 1 requests   *)
(* fall into less than a window, although only the oldest is waited for.   *)
WindowKept ==
  \A i, j \in DOMAIN requests :
    j - i = MaxRequests => requests[j] - requests[i] >= Window
=============================================================================
