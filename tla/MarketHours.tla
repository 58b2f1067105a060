----------------------------- MODULE MarketHours -----------------------------
(***************************************************************************)
(* How the main loop keeps to market hours: AlpacaBrokerConnector          *)
(* .get_clock() with its cache and retries, _check_market_open() and       *)
(* compute_adaptive_sleep() in core/runtime/app.py, the circuit breaker,   *)
(* and the order the loop of run() calls them in.                          *)
(*                                                                         *)
(* The broker's schedule is external: sessions of one length, at the same  *)
(* time every day, and an answer that is true when it is given.  The       *)
(* monotonic clock, the local clock and the broker's agree.  A request     *)
(* with its retries takes up to MaxCall, a cycle of trading up to MaxCycle. *)
(***************************************************************************)
EXTENDS Integers, FiniteSetsExt

CONSTANTS DayLength, OpenAt, CloseAt,   \* the schedule
          Ttl,                          \* MARKET_CLOCK_CACHE_S
          BaseInterval, ClosedInterval, PreOpenInterval, PreOpenWindow,
          MaxFailures,                  \* of the circuit breaker
          MaxCall, MaxCycle, EndOfTime

VARIABLES
  now,
  failOpen,                        \* MQD_FAIL_OPEN_MARKET_HOURS
  cache, cachedAt,                 \* _clock_cache and _clock_cache_ts
  stage, began, wake,              \* where the loop is, since and until when
  status,                          \* _market_status of this cycle
  breaker                          \* failures in a row

vars == <<now, failOpen, cache, cachedAt, stage, began, wake, status, breaker>>

NoTime == -1
NoAnswer == [open |-> FALSE, nextOpen |-> NoTime, nextClose |-> NoTime, source |-> "none"]

Init ==
  /\ now = 0 /\ failOpen \in BOOLEAN
  /\ cache = NoAnswer /\ cachedAt = NoTime
  /\ stage = "check" /\ began = 0 /\ wake = 0 /\ status = NoAnswer /\ breaker = 0

-----------------------------------------------------------------------------
(* The broker's clock.                                                     *)
InSession(t) == OpenAt <= t % DayLength /\ t % DayLength < CloseAt
NextOpen(t) == LET day == t - (t % DayLength) IN
  IF t % DayLength < OpenAt THEN day + OpenAt ELSE day + DayLength + OpenAt
NextClose(t) == LET day == t - (t % DayLength) IN
  IF t % DayLength < CloseAt THEN day + CloseAt ELSE day + DayLength + CloseAt

ClockAt(t) == [open |-> InSession(t), nextOpen |-> NextOpen(t), nextClose |-> NextClose(t), source |-> "broker"]

(* The cached clock is used while it is young and neither of its two       *)
(* boundaries has passed.                                                  *)
BrokenCacheHolds == cache # NoAnswer /\ now - cachedAt < Ttl
CacheHolds ==
  /\ cache # NoAnswer /\ now - cachedAt < Ttl
  /\ now < cache.nextOpen /\ now < cache.nextClose

CheckFromCache ==
  /\ stage = "check" /\ CacheHolds
  /\ status' = cache
  /\ stage' = "decide"
  /\ UNCHANGED <<now, failOpen, cache, cachedAt, began, wake, breaker>>

AskClock ==
  /\ stage = "check" /\ ~CacheHolds
  /\ stage' = "asking" /\ began' = now
  /\ UNCHANGED <<now, failOpen, cache, cachedAt, wake, status, breaker>>

(* The age of the entry counts from before the request.                    *)
ClockAnswers ==
  /\ stage = "asking"
  /\ cache' = ClockAt(now) /\ cachedAt' = began /\ status' = ClockAt(now)
  /\ stage' = "decide"
  /\ UNCHANGED <<now, failOpen, began, wake, breaker>>

(* Retries run out: the market counts as closed, or, when the environment  *)
(* says so, as open.                                                       *)
ClockFails ==
  /\ stage = "asking"
  /\ status' = [NoAnswer EXCEPT !.open = failOpen, !.source = "fallback"]
  /\ stage' = "decide"
  /\ UNCHANGED <<now, failOpen, cache, cachedAt, began, wake, breaker>>

-----------------------------------------------------------------------------
AdaptiveSleep ==
  IF status.open THEN Max({1, BaseInterval})
  ELSE LET wait == status.nextOpen - now IN
       IF status.nextOpen # NoTime /\ 0 < wait /\ wait <= PreOpenWindow
       THEN Max({1, PreOpenInterval}) ELSE Max({1, ClosedInterval})

FallAsleep(seconds) == stage' = "sleep" /\ began' = now /\ wake' = now + seconds

BlockClosed ==
  /\ stage = "decide" /\ ~status.open
  /\ FallAsleep(AdaptiveSleep)
  /\ breaker' = 0
  /\ UNCHANGED <<now, failOpen, cache, cachedAt, status>>

Trade ==
  /\ stage = "decide" /\ status.open
  /\ stage' = "trade" /\ began' = now
  /\ UNCHANGED <<now, failOpen, cache, cachedAt, wake, status, breaker>>

CycleEnds ==
  /\ stage = "trade"
  /\ FallAsleep(AdaptiveSleep)
  /\ breaker' = 0
  /\ UNCHANGED <<now, failOpen, cache, cachedAt, status>>

(* The loop's last resort: too many failures in a row end the process.     *)
CycleRaises ==
  /\ stage = "trade"
  /\ breaker' = breaker + 1
  /\ IF breaker' >= MaxFailures
     THEN stage' = "exit" /\ UNCHANGED <<began, wake>>
     ELSE FallAsleep(BaseInterval)
  /\ UNCHANGED <<now, failOpen, cache, cachedAt, status>>

WakeUp ==
  /\ stage = "sleep" /\ now = wake
  /\ stage' = "check" /\ status' = NoAnswer
  /\ UNCHANGED <<now, failOpen, cache, cachedAt, began, wake, breaker>>

Tick ==
  /\ now < EndOfTime
  /\ \/ stage = "sleep" /\ now < wake
     \/ stage = "asking" /\ now < began + MaxCall
     \/ stage = "trade" /\ now < began + MaxCycle
  /\ now' = now + 1
  /\ UNCHANGED <<failOpen, cache, cachedAt, stage, began, wake, status, breaker>>

Next ==
  \/ CheckFromCache \/ AskClock \/ ClockAnswers \/ ClockFails
  \/ BlockClosed \/ Trade \/ CycleEnds \/ CycleRaises \/ WakeUp \/ Tick

Spec == Init /\ [][Next]_vars

-----------------------------------------------------------------------------
(* Cached or asked, across the boundaries of the session: a cycle of       *)
(* trading never begins outside the session, unless the clock failed and   *)
(* failing open is configured; and no session is slept into for longer     *)
(* than the interval before the open, unless the clock failed or the sleep *)
(* followed a cycle of trading.                                            *)
LastOpen(t) == LET day == t - (t % DayLength) IN
  IF t % DayLength < OpenAt THEN day - DayLength + OpenAt ELSE day + OpenAt

KeepsHours ==
  /\ stage = "trade" => InSession(began) \/ (status.source = "fallback" /\ failOpen)
  /\ stage = "sleep" /\ status.source = "broker" /\ ~status.open =>
       ~InSession(began) /\ (InSession(wake) => wake - LastOpen(wake) < PreOpenInterval)
=============================================================================
