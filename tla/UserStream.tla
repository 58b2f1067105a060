----------------------------- MODULE UserStream -----------------------------
(***************************************************************************)
(* core/realtime/user_stream_tracker.py: UserStreamTracker, the websocket  *)
(* of trade and account updates, on one asyncio event loop.                *)
(*                                                                         *)
(* start() connects and then creates the task of _receive_loop(); both     *)
(* run _connect(), which opens a socket, authenticates and, when one of    *)
(* the two fails, pauses and starts over.  Tasks change at an await only:  *)
(* a step here goes from one await to the next.  start() number i creates  *)
(* reader i.  Messages and handlers are left out, apart from the failures  *)
(* they can cause.                                                         *)
(***************************************************************************)
EXTENDS Naturals, FiniteSets

CONSTANTS MaxStarts, MaxSockets

VARIABLES
  running, ws,      \* _is_running, _ws (0 for None)
  sockets, open,    \* sockets made so far, those not closed by this side
  starter, reader,  \* where each start() and each receive task is
  task,             \* _receive_task (0 for None)
  stopper, closing, \* where stop() is, and the socket it closes
  starts,           \* calls of start() that did something
  overlapped        \* history: a start() and a stop() were under way together

vars == <<running, ws, sockets, open, starter, reader, task, stopper, closing, starts, overlapped>>

Starts == 1 .. MaxStarts
Connecting == {"connect", "authenticate", "pause"}

Init ==
  /\ running = FALSE /\ ws = 0 /\ sockets = 0 /\ open = {}
  /\ starter = [i \in Starts |-> "none"] /\ reader = [i \in Starts |-> "none"]
  /\ task = 0 /\ stopper = "none" /\ closing = 0 /\ starts = 0 /\ overlapped = FALSE

Starting == \E i \in Starts : starter[i] \in Connecting

-----------------------------------------------------------------------------
Start ==
  /\ ~running /\ starts < MaxStarts
  /\ starts' = starts + 1 /\ running' = TRUE
  /\ starter' = [starter EXCEPT ![starts + 1] = "connect"]
  /\ overlapped' = (overlapped \/ Starting \/ stopper # "none")
  /\ UNCHANGED <<ws, sockets, open, reader, task, stopper, closing>>

(* One step of _connect() from where: the socket is made, or it is         *)
(* authenticated and subscribed, or either fails.                          *)
OpenSocket(from, to) ==
  /\ from = "connect" /\ sockets < MaxSockets
  /\ sockets' = sockets + 1 /\ ws' = sockets + 1 /\ open' = open \cup {sockets + 1}
  /\ to = "authenticate"

Subscribed(from, to) ==
  /\ from = "authenticate" /\ ws # 0
  /\ to = "return"
  /\ UNCHANGED <<ws, sockets, open>>

Fails(from, to) ==
  /\ from \in {"connect", "authenticate"}
  /\ to = IF running THEN "pause" ELSE "return"
  /\ UNCHANGED <<ws, sockets, open>>

PauseEnds(from, to) ==
  /\ from = "pause"
  /\ to = IF running THEN "connect" ELSE "return"
  /\ UNCHANGED <<ws, sockets, open>>

ConnectStep(from, to) ==
  OpenSocket(from, to) \/ Subscribed(from, to) \/ Fails(from, to) \/ PauseEnds(from, to)

(* start() goes on; back from _connect() it creates its receive task,      *)
(* whether or not the tracker has been stopped in the meantime.            *)
StarterSteps(i) ==
  /\ \E to \in Connecting \cup {"return"} :
       /\ ConnectStep(starter[i], to)
       /\ IF to = "return"
          THEN /\ starter' = [starter EXCEPT ![i] = "done"]
               /\ reader' = [reader EXCEPT ![i] = "loop"] /\ task' = i
          ELSE starter' = [starter EXCEPT ![i] = to] /\ UNCHANGED <<reader, task>>
  /\ UNCHANGED <<running, stopper, closing, starts, overlapped>>

-----------------------------------------------------------------------------
(* The head of _receive_loop().                                            *)
ReaderLoops(i) ==
  /\ reader[i] = "loop"
  /\ reader' = [reader EXCEPT ![i] =
       IF ~running THEN "ended" ELSE IF ws = 0 THEN "connect" ELSE "recv"]
  /\ UNCHANGED <<running, ws, sockets, open, starter, task, stopper, closing, starts, overlapped>>

(* A message, or a pause after a failure; a connection that closes is      *)
(* replaced after a pause, without looking at _is_running again.           *)
ReaderReceives(i) ==
  /\ reader[i] = "recv"
  /\ reader' \in {[reader EXCEPT ![i] = s] :
       s \in {"loop", IF running THEN "closed" ELSE "ended"}}
  /\ UNCHANGED <<running, ws, sockets, open, starter, task, stopper, closing, starts, overlapped>>

ReaderReconnects(i) ==
  /\ reader[i] = "closed"
  /\ reader' = [reader EXCEPT ![i] = "connect"]
  /\ UNCHANGED <<running, ws, sockets, open, starter, task, stopper, closing, starts, overlapped>>

ReaderConnects(i) ==
  /\ \E to \in Connecting \cup {"return"} :
       /\ ConnectStep(reader[i], to)
       /\ reader' = [reader EXCEPT ![i] = IF to = "return" THEN "loop" ELSE to]
  /\ UNCHANGED <<running, starter, task, stopper, closing, starts, overlapped>>

-----------------------------------------------------------------------------
BrokenToCancel == 0
ToCancel == task

(* stop(): the receive task is cancelled at the await it is in, and awaited. *)
Stop ==
  /\ running /\ stopper = "none"
  /\ running' = FALSE
  /\ reader' = [i \in Starts |-> IF i = ToCancel THEN "ended" ELSE reader[i]]
  /\ stopper' = "cancelled"
  /\ overlapped' = (overlapped \/ Starting)
  /\ UNCHANGED <<ws, sockets, open, starter, task, closing, starts>>

StopCloses ==
  /\ stopper = "cancelled"
  /\ closing' = ws
  /\ stopper' = IF ws = 0 THEN "none" ELSE "closing"
  /\ UNCHANGED <<running, ws, sockets, open, starter, reader, task, starts, overlapped>>

StopEnds ==
  /\ stopper = "closing"
  /\ open' = open \ {closing} /\ ws' = 0 /\ closing' = 0
  /\ stopper' = "none"
  /\ UNCHANGED <<running, sockets, starter, reader, task, starts, overlapped>>

Next ==
  \/ Start \/ Stop \/ StopCloses \/ StopEnds
  \/ \E i \in Starts : \/ StarterSteps(i) \/ ReaderLoops(i) \/ ReaderReceives(i)
                       \/ ReaderReconnects(i) \/ ReaderConnects(i)

Spec == Init /\ [][Next]_vars

-----------------------------------------------------------------------------
(* As long as no stop() met a start() that was still connecting, a stopped *)
(* tracker is quiet: no task of any start() reads or reconnects, and there *)
(* is no current socket; and there is never more than one reader.          *)
Alive(i) == reader[i] \notin {"none", "ended"}

QuietAfterStop ==
  ~overlapped =>
    /\ Cardinality({i \in Starts : Alive(i)}) <= 1
    /\ ~running /\ stopper = "none" => ws = 0 /\ \A i \in Starts : ~Alive(i)
=============================================================================
