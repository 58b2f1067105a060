---------------------------- MODULE UniverseCache ----------------------------
(***************************************************************************)
(* scanners/universe_builder.py: UniverseBuilder, which lists the symbols  *)
(* to scan, in a normal and in a penny price band, and keeps the lists in  *)
(* a JSON file for the day.                                                *)
(*                                                                         *)
(* Two processes (a scanner and one started beside it) read and write the  *)
(* same file.  Each has the filters its environment gave it at its start:  *)
(* the price and volume limits, modelled as one choice of bands.  A build  *)
(* reads the assets, then the snapshots, and stamps its result when it is  *)
(* done; write_text() truncates the file before it writes it, and a        *)
(* process can die in between.  A snapshot is the price and the volume     *)
(* that _snapshot_price_and_prev_vol() makes of it, if any.                *)
(***************************************************************************)
EXTENDS Naturals, FiniteSetsExt

CONSTANTS Processes, Symbols, Prices, Volumes,
          Filters,            \* settings: records of the bands and volumes
          HoursPerDay, MaxAge, EndOfTime

VARIABLES
  now,
  filters,                \* per process, fixed while it runs
  file,                   \* the cache file
  stage, building, result, \* per process: what it does, what it has built
  served                  \* per process: what its last load_or_build() returned

vars == <<now, filters, file, stage, building, result, served>>

NoFile == [kind |-> "missing"]
TornFile == [kind |-> "torn"]
Nothing == [at |-> 0, date |-> 0, sig |-> "none", normal |-> {}, penny |-> {}, given |-> 0, how |-> "none"]
Unknown == 1 + Max(Volumes)   \* no volume in the snapshot

Today(t) == t \div HoursPerDay

Init ==
  /\ now = 0 /\ filters \in [Processes -> DOMAIN Filters] /\ file = NoFile
  /\ stage = [p \in Processes |-> "idle"]
  /\ building = [p \in Processes |-> {}]
  /\ result = [p \in Processes |-> Nothing]
  /\ served = [p \in Processes |-> Nothing]

-----------------------------------------------------------------------------
(* _vol_ok(): an unknown volume passes every threshold.                    *)
VolumeOk(volume, least) == volume = Unknown \/ volume >= least

InBand(price, band) == band[1] <= price /\ price <= band[2]

(* The penny band is tried first, and a symbol in it is never normal, even *)
(* when its volume is too low for the penny list.                          *)
Penny(f, seen) ==
  {s \in DOMAIN seen : InBand(seen[s].price, f.penny) /\ VolumeOk(seen[s].volume, f.pennyVolume)}
BrokenNormal(f, seen) ==
  {s \in DOMAIN seen : InBand(seen[s].price, f.normal) /\ VolumeOk(seen[s].volume, f.normalVolume)}
Normal(f, seen) ==
  {s \in DOMAIN seen : /\ ~InBand(seen[s].price, f.penny) /\ InBand(seen[s].price, f.normal)
                       /\ VolumeOk(seen[s].volume, f.normalVolume)}

BrokenUsable(p) == file.kind = "lists" /\ now - file.at <= MaxAge /\ file.date = Today(now)

(* _try_load_cache(): the entry, unless it is old, of another day, made    *)
(* with other filters or not readable.                                     *)
Usable(p) ==
  /\ file.kind = "lists"
  /\ now - file.at <= MaxAge
  /\ file.date = Today(now)
  /\ file.sig = filters[p]

(* load_or_build(): a cached pair of empty lists is built again.           *)
Load(p) ==
  /\ stage[p] = "idle"
  /\ IF Usable(p) /\ file.normal \cup file.penny # {}
     THEN /\ served' = [served EXCEPT ![p] =
               [at |-> file.at, date |-> file.date, sig |-> file.sig,
                normal |-> file.normal, penny |-> file.penny, given |-> now, how |-> "cache"]]
          /\ UNCHANGED stage
     ELSE stage' = [stage EXCEPT ![p] = "assets"] /\ served' = [served EXCEPT ![p] = Nothing]
  /\ UNCHANGED <<now, filters, file, building, result>>

(* load_or_build(force=True).                                              *)
Force(p) ==
  /\ stage[p] = "idle"
  /\ stage' = [stage EXCEPT ![p] = "assets"] /\ served' = [served EXCEPT ![p] = Nothing]
  /\ UNCHANGED <<now, filters, file, building, result>>

(* _fetch_assets() and _filter_assets_to_symbols(): some of the symbols are *)
(* tradable.                                                               *)
FetchAssets(p) ==
  /\ stage[p] = "assets"
  /\ \E S \in SUBSET Symbols : building' = [building EXCEPT ![p] = S]
  /\ stage' = [stage EXCEPT ![p] = "snapshots"]
  /\ UNCHANGED <<now, filters, file, result, served>>

(* _fetch_snapshots_batched() and build(): some of them have a price.      *)
Build(p) ==
  /\ stage[p] = "snapshots"
  /\ \E S \in SUBSET building[p] : \E seen \in [S -> [price : Prices, volume : Volumes \cup {Unknown}]] :
       result' = [result EXCEPT ![p] =
         [at |-> now, date |-> Today(now), sig |-> filters[p], given |-> 0, how |-> "built",
          normal |-> Normal(Filters[filters[p]], seen), penny |-> Penny(Filters[filters[p]], seen)]]
  /\ building' = [building EXCEPT ![p] = {}]
  /\ stage' = [stage EXCEPT ![p] = "write"]
  /\ UNCHANGED <<now, filters, file, served>>

(* Either request answers an error: RuntimeError, and nothing is returned. *)
RequestFails(p) ==
  /\ stage[p] \in {"assets", "snapshots"}
  /\ stage' = [stage EXCEPT ![p] = "idle"] /\ building' = [building EXCEPT ![p] = {}]
  /\ UNCHANGED <<now, filters, file, result, served>>

(* _write_cache(): truncate, then write and return what was built.  When   *)
(* the other process has written in between, the end of its longer text    *)
(* can stay behind.                                                        *)
Truncate(p) ==
  /\ stage[p] = "write"
  /\ file' = TornFile
  /\ stage' = [stage EXCEPT ![p] = "writing"]
  /\ UNCHANGED <<now, filters, building, result, served>>

Write(p) ==
  /\ stage[p] = "writing"
  /\ LET r == result[p] IN
       /\ file' \in {[kind |-> "lists", at |-> r.at, date |-> r.date, sig |-> r.sig,
                     normal |-> r.normal, penny |-> r.penny]}
                   \cup (IF file = TornFile THEN {} ELSE {TornFile})
       /\ served' = [served EXCEPT ![p] = [r EXCEPT !.given = now]]
  /\ result' = [result EXCEPT ![p] = Nothing]
  /\ stage' = [stage EXCEPT ![p] = "idle"]
  /\ UNCHANGED <<now, filters, building>>

(* The process dies and is started again, perhaps with other filters.      *)
Restart(p) ==
  /\ \E f \in DOMAIN Filters : filters' = [filters EXCEPT ![p] = f]
  /\ stage' = [stage EXCEPT ![p] = "idle"] /\ building' = [building EXCEPT ![p] = {}]
  /\ result' = [result EXCEPT ![p] = Nothing] /\ served' = [served EXCEPT ![p] = Nothing]
  /\ UNCHANGED <<now, file>>

Tick ==
  /\ now < EndOfTime
  /\ now' = now + 1
  /\ UNCHANGED <<filters, file, stage, building, result, served>>

Next ==
  \/ \E p \in Processes : \/ Load(p) \/ Force(p) \/ FetchAssets(p) \/ Build(p)
                          \/ RequestFails(p) \/ Truncate(p) \/ Write(p) \/ Restart(p)
  \/ Tick

Spec == Init /\ [][Next]_vars

-----------------------------------------------------------------------------
(* Whatever the other process builds or writes and wherever it dies, the   *)
(* lists a process is given were made with its own filters, no symbol is   *)
(* on both of them, and lists from the file are of the day they are given, *)
(* not older than the limit and not both empty.                            *)
ServedIsCurrent ==
  \A p \in Processes : LET s == served[p] IN s # Nothing =>
    /\ s.sig = filters[p] /\ s.normal \cap s.penny = {}
    /\ s.how = "cache" => /\ s.date = Today(s.given) /\ s.given - s.at <= MaxAge
                          /\ s.normal \cup s.penny # {}
=============================================================================
