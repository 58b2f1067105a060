-------------------------------- MODULE Quotes --------------------------------
(***************************************************************************)
(* core/recovery/degradation.py: ResilientDataProvider.  A quote is asked  *)
(* of the providers in their order, each a few times, and taken from a     *)
(* cache when none gives one; a provider that keeps failing is FAILED and  *)
(* no longer asked.                                                        *)
(*                                                                         *)
(* One symbol, one caller; time may pass between the attempts of a call.   *)
(* A provider that is up gives a quote of some age, or an empty answer; one *)
(* that is down raises.  Success rates and latencies, which nothing reads, *)
(* are left out.                                                           *)
(*                                                                         *)
(* Bounds: EndOfTime; MaxAttempts answers per provider.                    *)
(***************************************************************************)
EXTENDS Naturals, Sequences

CONSTANTS Providers,           \* providers 1..Providers, the primary first
          Retries, Staleness, CacheTtl,
          Ages,                \* ages of the quotes that providers give
          EndOfTime, MaxAttempts

VARIABLES
  now, up,           \* clock; providers that work
  status, failures,  \* ProviderHealth: status, consecutive_failures
  cache,             \* _cache: time of the quote
  turn, attempt,     \* the call: provider whose turn it is, its attempt
  result,            \* the last call's answer
  answers            \* history: each provider's answers since its last reset

vars == <<now, up, status, failures, cache, turn, attempt, result, answers>>
health == <<status, failures, answers>>

Provider == 1 .. Providers
NoCall == 0
NoQuote == [time |-> 0, at |-> 0, stale |-> FALSE, from |-> "nobody"]

Init ==
  /\ now = 1 /\ up = Provider
  /\ status = [p \in Provider |-> "HEALTHY"] /\ failures = [p \in Provider |-> 0]
  /\ cache = NoQuote /\ turn = NoCall /\ attempt = 1 /\ result = NoQuote
  /\ answers = [p \in Provider |-> <<>>]

Usable(p) == status[p] # "FAILED"

-----------------------------------------------------------------------------
GetQuote ==
  /\ turn = NoCall
  /\ turn' = 1 /\ attempt' = 1
  /\ UNCHANGED <<now, up, health, cache, result>>

NextProvider(p) == turn' = p + 1 /\ attempt' = 1
Retry(p) == IF attempt < Retries THEN turn' = p /\ attempt' = attempt + 1 ELSE NextProvider(p)

SkipFailed(p) ==
  /\ turn = p /\ ~Usable(p)
  /\ NextProvider(p)
  /\ UNCHANGED <<now, up, health, cache, result>>

Asked(p) == turn = p /\ Usable(p) /\ Len(answers[p]) < MaxAttempts
Heard(p, what) == answers' = [answers EXCEPT ![p] = Append(@, what)]

BrokenSucceeded(p) == failures
Succeeded(p) == [failures EXCEPT ![p] = 0]

(* The status of a provider that is asked is not FAILED, and a success     *)
(* leaves DEGRADED as it is.                                               *)
RecordSuccess(p) ==
  /\ failures' = Succeeded(p)
  /\ status' = IF status[p] = "FAILED" THEN [status EXCEPT ![p] = "HEALTHY"] ELSE status
  /\ Heard(p, "quote")

Quoted(p, age) ==
  /\ Asked(p) /\ p \in up /\ age <= now
  /\ cache' = [time |-> now - age, at |-> now, stale |-> age > Staleness, from |-> "provider"]
  /\ result' = cache'
  /\ RecordSuccess(p)
  /\ turn' = NoCall /\ attempt' = 1
  /\ UNCHANGED <<now, up>>

(* An empty answer is neither a success nor a failure.                     *)
Empty(p) ==
  /\ Asked(p) /\ p \in up
  /\ Retry(p)
  /\ UNCHANGED <<now, up, health, cache, result>>

RecordFailure(p) ==
  /\ failures' = [failures EXCEPT ![p] = @ + 1]
  /\ status' = [status EXCEPT ![p] =
       IF failures'[p] >= 3 THEN "FAILED" ELSE IF failures'[p] >= 2 THEN "DEGRADED" ELSE @]
  /\ Heard(p, "failure")

Raises(p) ==
  /\ Asked(p) /\ p \notin up
  /\ RecordFailure(p)
  /\ IF status'[p] = "FAILED" THEN NextProvider(p) ELSE Retry(p)
  /\ UNCHANGED <<now, up, cache, result>>

(* The cached quote is marked stale, in the hands of its first taker too.  *)
FromCache ==
  /\ turn = Providers + 1
  /\ IF cache = NoQuote \/ now - cache.time > CacheTtl
     THEN result' = NoQuote /\ UNCHANGED cache
     ELSE cache' = [cache EXCEPT !.stale = TRUE, !.at = now, !.from = "cache"] /\ result' = cache'
  /\ turn' = NoCall
  /\ UNCHANGED <<now, up, health, attempt>>

ResetProvider(p) ==
  /\ turn = NoCall
  /\ status' = [status EXCEPT ![p] = "HEALTHY"] /\ failures' = [failures EXCEPT ![p] = 0]
  /\ answers' = [answers EXCEPT ![p] = <<>>]
  /\ UNCHANGED <<now, up, cache, turn, attempt, result>>

Breaks(p) == up' = up \ {p} /\ UNCHANGED <<now, health, cache, turn, attempt, result>>
Repaired(p) == up' = up \cup {p} /\ UNCHANGED <<now, health, cache, turn, attempt, result>>

Tick ==
  /\ now < EndOfTime
  /\ now' = now + 1
  /\ UNCHANGED <<up, health, cache, turn, attempt, result>>

Call ==
  \/ GetQuote \/ FromCache
  \/ \E p \in Provider : \/ SkipFailed(p) \/ Empty(p) \/ Raises(p)
                         \/ \E age \in Ages : Quoted(p, age)

Next ==
  \/ Call \/ Tick
  \/ \E p \in Provider : ResetProvider(p) \/ Breaks(p) \/ Repaired(p)

Spec == Init /\ [][Next]_vars

-----------------------------------------------------------------------------
(* What a provider's status says of its answers since it was last reset:   *)
(* it is FAILED after three failures in a row, DEGRADED once two have come *)
(* in a row whatever came later, and HEALTHY otherwise.  FAILED is final   *)
(* until a reset_provider(): get_quote() does not ask the provider again,  *)
(* so the recovery that _record_success() provides for never happens.      *)
InRow(log, n) == \E k \in 1 .. Len(log) - n + 1 : \A j \in k .. k + n - 1 : log[j] = "failure"

HealthIsHistory ==
  \A p \in Provider :
    status[p] = IF InRow(answers[p], 3) THEN "FAILED"
                ELSE IF InRow(answers[p], 2) THEN "DEGRADED" ELSE "HEALTHY"

(* A quote that is not called stale was fresh when it was handed out, and  *)
(* one from the cache is called stale and within the cache's lifetime.     *)
(* None is answered only when no quote is cached or the cached one is too  *)
(* old: a quote that a provider gave is not lost to later failures.        *)
AnswersAreHonest ==
  /\ result # NoQuote =>
       /\ result.stale \/ result.at - result.time <= Staleness
       /\ result.from = "cache" => result.stale /\ result.at - result.time <= CacheTtl
  /\ result = NoQuote => cache = NoQuote \/ now - cache.time > CacheTtl

QuotesAreHonest == HealthIsHistory /\ AnswersAreHonest

=============================================================================
