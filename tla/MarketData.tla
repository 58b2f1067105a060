----------------------------- MODULE MarketData ------------------------------
(***************************************************************************)
(* Bars on their way to the strategies: core/data/pipeline.py with its     *)
(* providers and its cache, the closed-bar filter of the main loop, and    *)
(* core/data/validator.py.                                                 *)
(*                                                                         *)
(* A bar is the time it opens at; a frame is a set of bars.  One symbol    *)
(* and timeframe, so the cache has one entry.  A provider (external)       *)
(* answers with bars up to the one in progress, late, with bars missing,   *)
(* or not at all; retries inside one fetch only take time.  The clock      *)
(* moves between a fetch and the look at its answer.  Prices and their     *)
(* checks are left out.                                                    *)
(***************************************************************************)
EXTENDS Integers, FiniteSets, FiniteSetsExt

CONSTANTS
  Interval,   \* length of a bar
  Grace,      \* grace_period_seconds
  MaxStale,   \* max_staleness
  Ttl,        \* cache_ttl
  Lookback,   \* bars a caller may ask for
  Providers,  \* length of provider_sequence
  EndOfTime

None == {}

VARIABLES
  clock,
  paper,      \* stale bars are allowed: _stale_allowed(), _stale_is_allowed()
  cache,      \* cached frame, None without one
  cachedAt,   \* when it was cached
  stage,      \* where get_latest_bars() is, or its caller
  provider,   \* provider asked
  frame,      \* frame under way
  asked       \* lookback_bars of the caller

vars == <<clock, paper, cache, cachedAt, stage, provider, frame, asked>>

Init ==
  /\ clock = 0 /\ paper \in BOOLEAN
  /\ cache = None /\ cachedAt = 0
  /\ stage = "idle" /\ provider = 0 /\ frame = None /\ asked = 0

Tick ==
  /\ clock < EndOfTime /\ clock' = clock + 1 /\ stage \notin {"served", "used"}
  /\ UNCHANGED <<paper, cache, cachedAt, stage, provider, frame, asked>>

Last(bars) == Max(bars)
Latest(bars, n) == {b \in bars : Cardinality({c \in bars : c > b}) < n}
IsComplete(b, grace) == clock >= b + Interval + grace
IsStale(b) == clock - b > MaxStale

-----------------------------------------------------------------------------
(* get_latest_bars()                                                       *)

BrokenExpired == FALSE

Expired == clock - cachedAt > Ttl

ServeCached(n) ==
  /\ stage = "idle" /\ cache # None /\ ~Expired
  /\ frame' = Latest(cache, n) /\ asked' = n /\ stage' = "served"
  /\ UNCHANGED <<clock, paper, cache, cachedAt, provider>>

AskFirst(n) ==
  /\ stage = "idle" /\ (cache # None => Expired)
  /\ cache' = None /\ provider' = 1 /\ asked' = n /\ stage' = "fetch"
  /\ UNCHANGED <<clock, paper, cachedAt, frame>>

NextProvider ==
  IF provider < Providers
  THEN provider' = provider + 1 /\ stage' = "fetch"
  ELSE provider' = 0 /\ stage' = "idle"

FetchFails ==
  /\ stage = "fetch" /\ NextProvider
  /\ UNCHANGED <<clock, paper, cache, cachedAt, frame, asked>>

(* fetch_n: two bars more than asked for, at least three.                  *)
FetchSize == IF asked + 2 > 3 THEN asked + 2 ELSE 3

Bars == {b \in 0..clock : b % Interval = 0}

FetchReturns(bars) ==
  /\ stage = "fetch" /\ bars # None /\ Cardinality(bars) <= FetchSize
  /\ frame' = bars /\ stage' = "judge"
  /\ UNCHANGED <<clock, paper, cache, cachedAt, provider, asked>>

(* _drop_incomplete_last_bar(): not from a frame of one bar.               *)
Dropped(bars) ==
  IF Cardinality(bars) > 1 /\ ~IsComplete(Last(bars), 0) THEN bars \ {Last(bars)} ELSE bars

Good(bars) == IsStale(Last(bars)) => paper

Judge ==
  /\ stage = "judge"
  /\ LET bars == Dropped(frame)
     IN IF Good(bars)
        THEN /\ cache' = (IF Ttl > 0 THEN bars ELSE None) /\ cachedAt' = clock
             /\ frame' = Latest(bars, asked) /\ stage' = "served"
             /\ UNCHANGED provider
        ELSE NextProvider /\ frame' = None /\ UNCHANGED <<cache, cachedAt>>
  /\ UNCHANGED <<clock, paper, asked>>

-----------------------------------------------------------------------------
(* The main loop: bars that are not closed are popped, and the validator   *)
(* judges what is left.                                                    *)

Closed(bars) == {b \in bars : \E c \in bars : c >= b /\ IsComplete(c, 0)}

(* _check_gaps(): bars missing between the first and the last, in percent  *)
(* of those expected.                                                      *)
GapsTolerable(bars) ==
  LET expected == (Last(bars) - Min(bars)) \div Interval + 1
  IN (expected - Cardinality(bars)) * 100 <= 5 * expected

Valid(bars) ==
  /\ IsStale(Last(bars)) => paper
  /\ IsComplete(Last(bars), Grace)
  /\ GapsTolerable(bars)

Use ==
  /\ stage = "served"
  /\ LET bars == Closed(frame)
     IN IF bars # None /\ Valid(bars)
        THEN stage' = "used" /\ frame' = bars
        ELSE stage' = "idle" /\ frame' = None
  /\ UNCHANGED <<clock, paper, cache, cachedAt, provider, asked>>

Done ==
  /\ stage = "used" /\ stage' = "idle" /\ frame' = None
  /\ UNCHANGED <<clock, paper, cache, cachedAt, provider, asked>>

Next ==
  \/ Tick \/ FetchFails \/ Judge \/ Use \/ Done
  \/ \E n \in Lookback : ServeCached(n) \/ AskFirst(n)
  \/ \E bars \in SUBSET Bars : FetchReturns(bars)

Spec == Init /\ [][Next]_vars
-----------------------------------------------------------------------------
(* Where stale bars are not allowed, the last bar handed out is no older   *)
(* than the staleness limit and the life of a cache entry together, which  *)
(* provider it came from and however long it was on its way.               *)
ServedWithinBound ==
  (stage = "served" /\ ~paper) => clock - Last(frame) <= MaxStale + Ttl
=============================================================================
