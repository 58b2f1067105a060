-------------------------------- MODULE News --------------------------------
(***************************************************************************)
(* News and the risk veto in scanners/standalone_scanner.py: the REST      *)
(* clients of Finnhub, Alpaca and FMP with their caches, NewsService that  *)
(* asks them, and _tag_readiness(), which keeps a candidate whose newest   *)
(* headline speaks of dilution or a reverse split from being READY.        *)
(*                                                                         *)
(* One symbol.  A headline is what CatalystClassifier makes of it; each    *)
(* source gives its newest one, or none when there is nothing in its       *)
(* lookback.  A request takes time, so the clock moves between the steps   *)
(* of a scan.  Which sources the environment configures is chosen first.   *)
(***************************************************************************)
EXTENDS Naturals

CONSTANTS Ttl, EndOfTime, MaxHeadlines

VARIABLES
  now, provider, fmpOn,   \* clock; NEWS_PROVIDER; ENABLE_FMP_NEWS with a key
  feed, since, published, \* newest headline of a followed source, since when; count
  cache,                  \* per source: until when, and the headline
  disabled,               \* AlpacaNewsREST._disabled
  stage, hit, asked,      \* a scan: where it is, what was found, when asked
  ready,                  \* what the last scan said of the candidate
  failed                  \* history: sources whose last request failed

vars == <<now, provider, fmpOn, feed, since, published, cache, disabled,
          stage, hit, asked, ready, failed>>

Sources == {"finnhub", "alpaca", "fmp"}
Followed == Sources \ {"alpaca"}
Headlines == {"plain", "reverse", "dilution"}
None == "none"

Init ==
  /\ now = 0 /\ provider \in {"AUTO", "FINNHUB", "ALPACA"} /\ fmpOn \in BOOLEAN
  /\ feed = [p \in Followed |-> None] /\ since = [p \in Followed |-> 0] /\ published = 0
  /\ cache = [p \in Sources |-> [until |-> 0, hit |-> None]]
  /\ disabled = FALSE /\ stage = "idle" /\ hit = None
  /\ asked = [p \in Sources |-> 0] /\ ready = FALSE /\ failed = {}

-----------------------------------------------------------------------------
(* An Alpaca entry of age Ttl is still used, the others' are not.          *)
BrokenIsCached(p) == cache[p].until > 0
IsCached(p) == cache[p].until > now

(* What a source sends now.  Alpaca sends anything: the classifier is not  *)
(* applied to it, so every headline of its is a plain one.                 *)
Sent(p) == IF p = "alpaca" THEN {None, "plain"} ELSE {feed[p]}

(* get_latest_for_symbol() of one source: the cached headline or a request *)
(* whose answer is cached, the absence of one and a failure included.      *)
Answer(p, h) ==
  /\ asked' = [asked EXCEPT ![p] = now]
  /\ IF IsCached(p)
     THEN h = cache[p].hit /\ UNCHANGED <<cache, failed, disabled>>
     ELSE \/ /\ h \in Sent(p)
             /\ failed' = failed \ {p}
             /\ UNCHANGED disabled
             /\ cache' = [cache EXCEPT ![p] =
                  [until |-> now + Ttl + (IF p = "alpaca" THEN 1 ELSE 0), hit |-> h]]
          \/ /\ h = None
             /\ failed' = failed \cup {p}
             /\ disabled' \in {disabled, p = "alpaca" \/ disabled}
             /\ cache' = [cache EXCEPT ![p] =
                  [until |-> now + Ttl + (IF p = "alpaca" THEN 1 ELSE 0), hit |-> None]]

Scan == <<now, provider, fmpOn, feed, since, published, ready>>
Answers == Headlines \cup {None}

StartScan ==
  /\ stage = "idle"
  /\ stage' = IF provider = "ALPACA" THEN "alpaca" ELSE "finnhub"
  /\ UNCHANGED <<Scan, hit, cache, disabled, asked, failed>>

AskFinnhub ==
  /\ stage = "finnhub"
  /\ \E h \in Answers :
       /\ Answer("finnhub", h)
       /\ hit' = h
       /\ stage' = IF h = None /\ provider = "AUTO" THEN "alpaca" ELSE "fmp"
  /\ UNCHANGED Scan

AskAlpaca ==
  /\ stage = "alpaca"
  /\ IF disabled THEN UNCHANGED <<hit, cache, disabled, asked, failed>>
     ELSE \E h \in Answers : Answer("alpaca", h) /\ hit' = h
  /\ stage' = "fmp"
  /\ UNCHANGED Scan

(* FMP is believed only when it speaks of dilution.                        *)
AskFmp ==
  /\ stage = "fmp"
  /\ IF ~fmpOn THEN UNCHANGED <<hit, cache, disabled, asked, failed>>
     ELSE \E h \in Answers :
            /\ Answer("fmp", h)
            /\ hit' = IF h = "dilution" THEN h ELSE hit
  /\ stage' = "tag"
  /\ UNCHANGED Scan

Vetoed == hit \in {"dilution", "reverse"}

(* _attach_news_to_rows() and _tag_readiness(): the trend, the volumes, the *)
(* persistence and the score are good or not.                              *)
TagReadiness ==
  /\ stage = "tag"
  /\ stage' = "idle" /\ hit' = None
  /\ \E technical \in BOOLEAN : ready' = (technical /\ ~Vetoed)
  /\ UNCHANGED <<now, provider, fmpOn, feed, since, published, cache, disabled, asked, failed>>

-----------------------------------------------------------------------------
(* The world: headlines appear and leave the lookback, time passes.        *)
Publish(p, h) ==
  /\ published < MaxHeadlines /\ h # feed[p]
  /\ feed' = [feed EXCEPT ![p] = h] /\ since' = [since EXCEPT ![p] = now]
  /\ published' = published + 1
  /\ UNCHANGED <<now, provider, fmpOn, cache, disabled, stage, hit, asked, ready, failed>>

Tick ==
  /\ now < EndOfTime
  /\ now' = now + 1
  /\ UNCHANGED <<provider, fmpOn, feed, since, published, cache, disabled, stage, hit, asked, ready, failed>>

Next ==
  \/ StartScan \/ AskFinnhub \/ AskAlpaca \/ AskFmp \/ TagReadiness \/ Tick
  \/ \E p \in Followed, h \in Headlines \cup {None} : Publish(p, h)

Spec == Init /\ [][Next]_vars

-----------------------------------------------------------------------------
(* A candidate is not READY on the strength of an old answer: when a       *)
(* source that is asked and classified has carried a bad headline for      *)
(* longer than the lifetime of a cache entry before the scan asked it, the *)
(* scan does not call the candidate READY, unless the last request to that *)
(* source failed.                                                          *)
Bad(p) == feed[p] = "dilution" \/ (p = "finnhub" /\ feed[p] = "reverse")

Watching == (IF provider # "ALPACA" THEN {"finnhub"} ELSE {}) \cup (IF fmpOn THEN {"fmp"} ELSE {})

VetoWithinTtl ==
  stage = "idle" /\ ready =>
    \A p \in Watching : Bad(p) /\ since[p] + Ttl <= asked[p] => p \in failed
=============================================================================
