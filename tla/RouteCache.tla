------------------------------ MODULE RouteCache ------------------------------
(***************************************************************************)
(* The route cache, cache/route_cache.py, with its clock: an in-process    *)
(* TTLCache, or Redis, in which any call may fail.  TripPlanner has entries *)
(* vanish at any time; here they vanish when the code has them vanish.     *)
(***************************************************************************)
EXTENDS Naturals, FiniteSets

CONSTANTS Routes,       \* (origin, destination, date), as requests spell them
          Upper,        \* route -> the route in upper case
          Cabins,       \* cabin classes
          NoEntry,      \* None
          TTL,          \* _TTL_SECONDS, in ticks
          MaxEntries,   \* _MAX_ENTRIES of the in-process cache
          MaxTime       \* bound: ticks of the clock

VARIABLES backend,   \* which of the two _get_backend made: "memory" or "redis"
          entries,   \* key -> NoEntry, or [value, expires]
          now,       \* the clock
          dropped    \* history: the keys an entry of which was ever lost before its time

cacheVars == <<backend, entries, now, dropped>>

ASSUME CacheAssumption ==
  /\ Upper \in [Routes -> Routes]
  /\ TTL \in Nat /\ MaxEntries \in Nat /\ MaxTime \in Nat

Keys == Routes \X Cabins

\* Mutant: the airports are taken as they are spelt.
KeyAsSpelt(route, cabin) == <<route, cabin>>

Key(route, cabin) == <<Upper[route], cabin>>

CacheInit ==
  /\ backend \in {"memory", "redis"}
  /\ entries = [k \in Keys |-> NoEntry]
  /\ now = 0
  /\ dropped = {}

\* Mutant: an entry is served until another takes its place.
LiveForEver(k) == entries[k] # NoEntry

Live(k) == entries[k] # NoEntry /\ now < entries[k].expires

\* What get may answer: a failing Redis looks like a miss.
GetAnswers(k) ==
  {IF Live(k) THEN entries[k].value ELSE NoEntry} \cup (IF backend = "redis" THEN {NoEntry} ELSE {})

Entry(value) == [value |-> value, expires |-> now + TTL]

\* A full in-process cache evicts another live entry, the least recently used.
SetInMemory(k, value) ==
  /\ backend = "memory"
  /\ IF Cardinality({j \in Keys \ {k} : Live(j)}) < MaxEntries
     THEN /\ entries' = [entries EXCEPT ![k] = Entry(value)]
          /\ UNCHANGED dropped
     ELSE \E j \in {j \in Keys \ {k} : Live(j)} :
            /\ entries' = [entries EXCEPT ![k] = Entry(value), ![j] = NoEntry]
            /\ dropped' = dropped \cup {j}

\* A failing Redis caches nothing, and keeps what it had.
SetInRedis(k, value) ==
  /\ backend = "redis"
  /\ \/ entries' = [entries EXCEPT ![k] = Entry(value)] /\ UNCHANGED dropped
     \/ UNCHANGED entries /\ dropped' = dropped \cup {k}

Set(k, value) == (SetInMemory(k, value) \/ SetInRedis(k, value)) /\ UNCHANGED <<backend, now>>

Tick == now < MaxTime /\ now' = now + 1 /\ UNCHANGED <<backend, entries, dropped>>

\* The process starts again; Redis goes on.
CacheRestart ==
  /\ entries' = IF backend = "memory" THEN [k \in Keys |-> NoEntry] ELSE entries
  /\ dropped' = IF backend = "memory" THEN Keys ELSE dropped
  /\ UNCHANGED <<backend, now>>
===============================================================================
