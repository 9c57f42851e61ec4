---------------------------- MODULE FlightNodeProofs ----------------------------
(***************************************************************************)
(* The four invariants of FlightNode, for any requests, routes, cabins,    *)
(* fares, costs, time to live and cache size: what the cache serves was    *)
(* found, and is not old; what is searched again was not to be found.      *)
(***************************************************************************)
EXTENDS FlightNode, TLAPS

-------------------------------------------------------------------------------
(* The inductive invariant. *)

Of(s, k) == <<s.route, s.cabin>> = k

\* What a stored entry says it saved is what the search cost.
SavingsAreCosts == \A s \in searches : s.cost = s.value.agent_cost_saved_usd

\* Times are not ahead of the clock.
InThePast ==
  /\ \A s \in searches : s.at <= now /\ s.asked <= now
  /\ \A t \in Trips : asked[t] <= now

\* Every entry is the result of a search, and expires the TTL after it.
EntriesWereFound ==
  \A k \in Keys : entries[k] # NoEntry =>
    \E s \in searches : Of(s, k) /\ s.value = entries[k].value /\ entries[k].expires = s.at + TTL

\* Only Redis answers later; what it answered was an entry for the request's
\* key, and live then.
RepliesWereFound ==
  \A t \in Trips :
    /\ pc[t] = "reading" => backend = "redis"
    /\ reply[t] # NoEntry =>
         /\ pc[t] = "reading"
         /\ \E s \in searches :
              Of(s, TripKey(t)) /\ s.value = reply[t] /\ s.at <= asked[t] /\ asked[t] < s.at + TTL

\* cost_before is the ledger before the run, for as long as it matters.
RunsAddUp ==
  \A t \in Trips :
    /\ pc[t] = "searching" => ledger[t] = costBefore[t]
    /\ pc[t] = "storing" => ledger[t] = costBefore[t] + paid[t] /\ found[t] \in Fares

\* In memory, the result of a search is an entry until its time, or was dropped.
ResultsAreKept ==
  backend = "memory" =>
    \A s \in searches :
      <<s.route, s.cabin>> \notin dropped /\ now < s.at + TTL =>
        /\ entries[<<s.route, s.cabin>>] # NoEntry
        /\ entries[<<s.route, s.cabin>>].expires >= s.at + TTL

\* Whoever searches, had found nothing that was live.
MissesAreReal ==
  backend = "memory" =>
    \A t \in Trips : pc[t] \in {"searching", "storing"} =>
      \A s \in searches : Of(s, TripKey(t)) /\ TripKey(t) \notin dropped =>
        ~(s.at < asked[t] /\ asked[t] < s.at + TTL)

\* A trace is made by a client, which stays the process's client.
TracesHaveAClient == active # {} => client = "real"

IInv ==
  /\ TypeOK /\ SavingsAreCosts /\ InThePast /\ EntriesWereFound /\ RepliesWereFound
  /\ RunsAddUp /\ ResultsAreKept /\ MissesAreReal
  /\ ServedIsFresh /\ OnlyOverlappingSearchesRepeat /\ TracesFollowRequests /\ TracesHaveAClient

\* What IInv says of the cache and the searches.
CacheInv ==
  SavingsAreCosts /\ EntriesWereFound /\ ResultsAreKept /\ OnlyOverlappingSearchesRepeat

\* A request's key is a key of the cache.
LEMMA KeysAreKeys ==
  ASSUME TypeOK, NEW t \in Trips
  PROVE  /\ TripKey(t) \in Keys /\ TripKey(t) = <<Upper[route[t]], cabin[t]>>
         /\ Upper[route[t]] \in Routes /\ cabin[t] \in Cabins
BY CacheAssumption DEF TypeOK, TripKey, Key, Keys

\* A live entry is the result of a search less than the TTL ago.
LEMMA LiveWasFound ==
  ASSUME IInv, NEW k \in Keys, Live(k)
  PROVE  /\ entries[k].value \in Values
         /\ \E s \in searches : /\ Of(s, k) /\ s.value = entries[k].value
                                /\ s.at <= now /\ now < s.at + TTL
<1>1. entries[k] # NoEntry /\ now < entries[k].expires
  BY DEF Live
<1>2. PICK s \in searches : Of(s, k) /\ s.value = entries[k].value /\ entries[k].expires = s.at + TTL
  BY <1>1 DEF IInv, EntriesWereFound
<1>3. entries[k] \in [value : Values, expires : Nat]
  BY <1>1 DEF IInv, TypeOK
<1>4. QED BY <1>1, <1>2, <1>3 DEF IInv, InThePast

\* Where the cache, the searches and the clock are left alone, so is what is
\* said of them.
LEMMA CacheUntouched ==
  ASSUME CacheInv, UNCHANGED <<cacheVars, searches>>
  PROVE  CacheInv'
BY DEF CacheInv, SavingsAreCosts, EntriesWereFound, ResultsAreKept, OnlyOverlappingSearchesRepeat, Of, cacheVars

-------------------------------------------------------------------------------
(* The initial states. *)

LEMMA InitInv == Init => IInv
<1> SUFFICES ASSUME Init PROVE IInv
  OBVIOUS
<1> USE DEF Init, CacheInit, TraceInit
<1>1. TypeOK
  <2>1. route \in [Trips -> Routes] /\ cabin \in [Trips -> Cabins]
    BY NodeAssumption
  <2>2. retries \in [Trips -> 0..MaxRetries] /\ restarts \in 0..MaxRestarts
    BY NodeAssumption
  <2>3. QED BY <2>1, <2>2 DEF TypeOK, Running
<1>2. SavingsAreCosts /\ EntriesWereFound /\ ResultsAreKept /\ OnlyOverlappingSearchesRepeat /\ MissesAreReal
  BY DEF SavingsAreCosts, EntriesWereFound, ResultsAreKept, OnlyOverlappingSearchesRepeat, MissesAreReal
<1>3. InThePast
  BY DEF InThePast
<1>4. RepliesWereFound /\ RunsAddUp /\ ServedIsFresh /\ TracesFollowRequests /\ TracesHaveAClient
  BY DEF RepliesWereFound, RunsAddUp, ServedIsFresh, TracesFollowRequests, TracesHaveAClient
<1>5. QED BY <1>1, <1>2, <1>3, <1>4 DEF IInv

-------------------------------------------------------------------------------
(* The steps of a request, each over a cache it leaves alone. *)

LEMMA ReceiveKeeps ==
  ASSUME IInv, NEW t \in Trips, Receive(t)
  PROVE  IInv'
<1> USE DEF Receive, Move
<1>1. UNCHANGED <<cacheVars, searches, reqVars, ledger, costBefore, reply, found, paid, asked, served, restarts>>
  OBVIOUS
<1>2. pc' = [pc EXCEPT ![t] = "lookup"] /\ pc[t] = "idle"
  OBVIOUS
<1>3. TypeOK'
  BY <1>1, <1>2 DEF IInv, TypeOK, Running, cacheVars, reqVars, StartTrace, GetClient
<1>4. CacheInv' /\ InThePast'
  BY <1>1, CacheUntouched DEF IInv, CacheInv, InThePast, cacheVars
<1>5. RepliesWereFound'
  BY <1>1, <1>2 DEF IInv, TypeOK, RepliesWereFound, Of, TripKey, Key, cacheVars, reqVars
<1>6. RunsAddUp'
  BY <1>1, <1>2 DEF IInv, TypeOK, RunsAddUp
<1>7. MissesAreReal'
  BY <1>1, <1>2 DEF IInv, TypeOK, MissesAreReal, Of, TripKey, Key, cacheVars, reqVars
<1>8. ServedIsFresh'
  BY <1>1 DEF IInv, ServedIsFresh
<1>9. TracesFollowRequests' /\ TracesHaveAClient'
  BY <1>2 DEF IInv, TypeOK, TracesFollowRequests, TracesHaveAClient, StartTrace, GetClient, Running
<1>10. QED BY <1>3, <1>4, <1>5, <1>6, <1>7, <1>8, <1>9 DEF IInv, CacheInv

\* Complete and Fail leave everything but the trace and where the request is.
LEMMA EndKeeps ==
  ASSUME IInv, NEW t \in Trips, Complete(t) \/ Fail(t)
  PROVE  IInv'
<1> USE DEF Complete, Fail, Move
<1>1. UNCHANGED <<cacheVars, searches, reqVars, ledger, costBefore, reply, found, paid, asked, served, restarts>>
  OBVIOUS
<1>2. /\ pc' = [pc EXCEPT ![t] = "completed"] \/ pc' = [pc EXCEPT ![t] = "failed"]
      /\ pc[t] \in {"lookup", "searching", "policy"}
  OBVIOUS
<1>3. TypeOK'
  BY <1>1, <1>2 DEF IInv, TypeOK, Running, cacheVars, reqVars, traceVars, EndTrace, GetClient
<1>4. CacheInv' /\ InThePast'
  BY <1>1, CacheUntouched DEF IInv, CacheInv, InThePast, cacheVars
<1>5. RepliesWereFound'
  BY <1>1, <1>2 DEF IInv, TypeOK, RepliesWereFound, Of, TripKey, Key, cacheVars, reqVars
<1>6. RunsAddUp'
  BY <1>1, <1>2 DEF IInv, TypeOK, RunsAddUp
<1>7. MissesAreReal'
  BY <1>1, <1>2 DEF IInv, TypeOK, MissesAreReal, Of, TripKey, Key, cacheVars, reqVars
<1>8. ServedIsFresh'
  BY <1>1 DEF IInv, ServedIsFresh
<1>9. TracesFollowRequests' /\ TracesHaveAClient'
  <2>1. CASE Complete(t)
    BY <1>2, <2>1 DEF IInv, TypeOK, TracesFollowRequests, TracesHaveAClient, EndTrace, GetClient, Running
  <2>2. CASE Fail(t)
    BY <1>2, <2>2 DEF IInv, TypeOK, TracesFollowRequests, TracesHaveAClient, Running, traceVars
  <2>3. QED BY <2>1, <2>2
<1>10. QED BY <1>3, <1>4, <1>5, <1>6, <1>7, <1>8, <1>9 DEF IInv, CacheInv

\* Reflect asks for another cabin, while the request neither searches nor reads.
LEMMA ReflectKeeps ==
  ASSUME IInv, NEW t \in Trips, NEW cost \in Costs, NEW lower \in LowerCabins, Reflect(t, cost, lower)
  PROVE  IInv'
<1> USE DEF Reflect, Move
<1>1. UNCHANGED <<cacheVars, traceVars, searches, route, costBefore, reply, found, paid, asked, served, restarts>>
  OBVIOUS
<1>2. /\ pc' = [pc EXCEPT ![t] = "lookup"] /\ pc[t] = "policy"
      /\ cabin' = [cabin EXCEPT ![t] = lower]
      /\ ledger' = [ledger EXCEPT ![t] = @ + cost]
      /\ retries' = [retries EXCEPT ![t] = @ + 1] /\ retries[t] < MaxRetries
  OBVIOUS
<1>3. cost \in Nat /\ lower \in Cabins /\ MaxRetries \in Nat
  BY NodeAssumption
<1>4. TypeOK'
  <2>1. ledger' \in [Trips -> Nat]
    BY <1>2, <1>3 DEF IInv, TypeOK
  <2>2. retries' \in [Trips -> 0..MaxRetries]
    BY <1>2, <1>3 DEF IInv, TypeOK
  <2>3. cabin' \in [Trips -> Cabins] /\ pc' \in [Trips -> {"idle", "completed", "failed", "lost"} \cup Running]
    BY <1>2, <1>3 DEF IInv, TypeOK, Running
  <2>4. QED BY <1>1, <2>1, <2>2, <2>3 DEF IInv, TypeOK, cacheVars, traceVars
<1>5. CacheInv' /\ InThePast'
  BY <1>1, CacheUntouched DEF IInv, CacheInv, InThePast, cacheVars
<1>6. RepliesWereFound'
  BY <1>1, <1>2 DEF IInv, TypeOK, RepliesWereFound, Of, TripKey, Key, cacheVars
<1>7. RunsAddUp'
  BY <1>1, <1>2 DEF IInv, TypeOK, RunsAddUp
<1>8. MissesAreReal'
  BY <1>1, <1>2 DEF IInv, TypeOK, MissesAreReal, Of, TripKey, Key, cacheVars
<1>9. ServedIsFresh'
  BY <1>1 DEF IInv, ServedIsFresh
<1>10. TracesFollowRequests' /\ TracesHaveAClient'
  BY <1>1, <1>2 DEF IInv, TypeOK, TracesFollowRequests, TracesHaveAClient, Running, traceVars
<1>11. QED BY <1>4, <1>5, <1>6, <1>7, <1>8, <1>9, <1>10 DEF IInv, CacheInv

\* The agent's run ends: what it cost is the difference that is stored.
LEMMA AgentReturnsKeeps ==
  ASSUME IInv, NEW t \in Trips, NEW cost \in Costs, NEW result \in Fares \cup {NoFare},
         AgentReturns(t, cost, result)
  PROVE  IInv'
<1> USE DEF AgentReturns, Move
<1>1. UNCHANGED <<cacheVars, traceVars, searches, reqVars, reply, served, restarts>>
  OBVIOUS
<1>2. ledger' = [ledger EXCEPT ![t] = @ + cost] /\ pc[t] = "searching"
  OBVIOUS
<1>3. \/ /\ pc' = [pc EXCEPT ![t] = "storing"] /\ result \in Fares
         /\ found' = [found EXCEPT ![t] = result] /\ paid' = [paid EXCEPT ![t] = cost]
         /\ UNCHANGED <<costBefore, asked>>
      \/ /\ pc' = [pc EXCEPT ![t] = "policy"]
         /\ costBefore' = [costBefore EXCEPT ![t] = 0] /\ asked' = [asked EXCEPT ![t] = 0]
         /\ UNCHANGED <<found, paid>>
  OBVIOUS
<1>4. cost \in Nat
  BY NodeAssumption
<1>5. TypeOK'
  <2>1. ledger' \in [Trips -> Nat]
    BY <1>2, <1>4 DEF IInv, TypeOK
  <2>2. /\ costBefore' \in [Trips -> Nat] /\ paid' \in [Trips -> Nat] /\ asked' \in [Trips -> Nat]
        /\ found' \in [Trips -> Fares \cup {NoFare}]
    BY <1>3, <1>4 DEF IInv, TypeOK
  <2>3. pc' \in [Trips -> {"idle", "completed", "failed", "lost"} \cup Running]
    BY <1>3 DEF IInv, TypeOK, Running
  <2>4. QED BY <1>1, <2>1, <2>2, <2>3 DEF IInv, TypeOK, cacheVars, traceVars, reqVars
<1>6. CacheInv'
  BY <1>1, CacheUntouched DEF IInv, CacheInv
<1>7. InThePast'
  BY <1>1, <1>3 DEF IInv, TypeOK, InThePast, cacheVars
<1>8. RepliesWereFound'
  BY <1>1, <1>2, <1>3 DEF IInv, TypeOK, RepliesWereFound, Of, TripKey, Key, reqVars, cacheVars
<1>9. RunsAddUp'
  BY <1>2, <1>3, <1>4 DEF IInv, TypeOK, RunsAddUp
<1>10. MissesAreReal'
  BY <1>1, <1>2, <1>3 DEF IInv, TypeOK, MissesAreReal, Of, TripKey, Key, cacheVars, reqVars
<1>11. ServedIsFresh'
  BY <1>1 DEF IInv, ServedIsFresh
<1>12. TracesFollowRequests' /\ TracesHaveAClient'
  BY <1>1, <1>3 DEF IInv, TypeOK, TracesFollowRequests, TracesHaveAClient, Running, traceVars
<1>13. QED BY <1>5, <1>6, <1>7, <1>8, <1>9, <1>10, <1>11, <1>12 DEF IInv, CacheInv

\* What follows a lookup, in memory or in Redis: a hit is of a search that is
\* not older than the TTL, and in memory a miss means there was none.
LEMMA GoOnKeeps ==
  ASSUME IInv, NEW t \in Trips, NEW value, NEW at \in Nat, GoOn(t, value, at),
         UNCHANGED <<reqVars, ledger, found, paid, searches, restarts, cacheVars, traceVars>>,
         pc[t] \in {"lookup", "reading"}, at <= now,
         reply' = [reply EXCEPT ![t] = NoEntry],
         value # NoEntry =>
           /\ value \in Values
           /\ \E s \in searches : Of(s, TripKey(t)) /\ s.value = value /\ s.at <= at /\ at < s.at + TTL,
         backend = "memory" /\ value = NoEntry =>
           \A s \in searches : Of(s, TripKey(t)) /\ TripKey(t) \notin dropped =>
             ~(s.at < at /\ at < s.at + TTL)
  PROVE  IInv'
<1>1. \/ /\ value # NoEntry /\ pc' = [pc EXCEPT ![t] = "policy"]
         /\ served' = [served EXCEPT ![t] = [route |-> route[t], cabin |-> cabin[t],
                                             value |-> value, at |-> at]]
         /\ asked' = [asked EXCEPT ![t] = 0] /\ UNCHANGED costBefore
      \/ /\ value = NoEntry /\ pc' = [pc EXCEPT ![t] = "searching"]
         /\ costBefore' = [costBefore EXCEPT ![t] = ledger[t]]
         /\ asked' = [asked EXCEPT ![t] = at] /\ UNCHANGED served
  BY DEF GoOn
<1>2. TypeOK'
  <2>1. pc' \in [Trips -> {"idle", "completed", "failed", "lost"} \cup Running]
    BY <1>1 DEF IInv, TypeOK, Running
  <2>2. reply' \in [Trips -> Values \cup {NoEntry}]
    BY DEF IInv, TypeOK
  <2>3. costBefore' \in [Trips -> Nat] /\ asked' \in [Trips -> Nat]
    BY <1>1 DEF IInv, TypeOK
  <2>4. served' \in [Trips -> Hits \cup {NoEntry}]
    BY <1>1 DEF IInv, TypeOK, Hits
  <2>5. QED BY <2>1, <2>2, <2>3, <2>4 DEF IInv, TypeOK, cacheVars, traceVars, reqVars
<1>3. CacheInv'
  BY CacheUntouched DEF IInv, CacheInv
<1>4. InThePast'
  BY <1>1 DEF IInv, TypeOK, InThePast, cacheVars
<1>5. RepliesWereFound'
  BY <1>1 DEF IInv, TypeOK, RepliesWereFound, Of, TripKey, Key, reqVars, cacheVars
<1>6. RunsAddUp'
  BY <1>1 DEF IInv, TypeOK, RunsAddUp
<1>7. MissesAreReal'
  <2> SUFFICES ASSUME backend = "memory", NEW u \in Trips, pc'[u] \in {"searching", "storing"},
                      NEW s \in searches, Of(s, TripKey(u)), TripKey(u) \notin dropped
               PROVE  ~(s.at < asked'[u] /\ asked'[u] < s.at + TTL)
    BY DEF MissesAreReal, Of, TripKey, Key, reqVars, cacheVars
  <2>1. CASE u = t
    BY <1>1, <2>1 DEF IInv, TypeOK
  <2>2. CASE u # t
    <3>1. pc'[u] = pc[u] /\ asked'[u] = asked[u]
      BY <1>1, <2>2 DEF IInv, TypeOK
    <3>2. QED BY <3>1 DEF IInv, MissesAreReal
  <2>3. QED BY <2>1, <2>2
<1>8. ServedIsFresh'
  <2> SUFFICES ASSUME NEW u \in Trips, served'[u] # NoEntry
               PROVE  \E s \in searches :
                        /\ s.route = Upper[served'[u].route] /\ s.cabin = served'[u].cabin
                        /\ s.value = served'[u].value
                        /\ s.at <= served'[u].at /\ served'[u].at < s.at + TTL
                        /\ s.cost = served'[u].value.agent_cost_saved_usd
    BY DEF ServedIsFresh
  <2>1. CASE u = t /\ value # NoEntry
    <3>1. PICK s \in searches : Of(s, TripKey(t)) /\ s.value = value /\ s.at <= at /\ at < s.at + TTL
      BY <2>1
    <3>2. s.route = Upper[route[t]] /\ s.cabin = cabin[t]
      BY <3>1, KeysAreKeys DEF Of, IInv
    <3>3. s.cost = value.agent_cost_saved_usd
      BY <3>1 DEF IInv, SavingsAreCosts
    <3>4. served'[t] = [route |-> route[t], cabin |-> cabin[t], value |-> value, at |-> at]
      BY <1>1, <2>1 DEF IInv, TypeOK
    <3>5. QED BY <2>1, <3>1, <3>2, <3>3, <3>4
  <2>2. CASE ~(u = t /\ value # NoEntry)
    <3>1. served'[u] = served[u]
      BY <1>1, <2>2 DEF IInv, TypeOK
    <3>2. QED BY <3>1 DEF IInv, ServedIsFresh
  <2>3. QED BY <2>1, <2>2
<1>9. TracesFollowRequests' /\ TracesHaveAClient'
  BY <1>1 DEF IInv, TypeOK, TracesFollowRequests, TracesHaveAClient, Running, traceVars
<1>10. QED BY <1>2, <1>3, <1>4, <1>5, <1>6, <1>7, <1>8, <1>9 DEF IInv, CacheInv

LEMMA LookUpInMemoryKeeps ==
  ASSUME IInv, NEW t \in Trips, LookUpInMemory(t)
  PROVE  IInv'
<1> USE DEF LookUpInMemory
<1>1. PICK value \in GetAnswers(TripKey(t)) : GoOn(t, value, now)
  OBVIOUS
<1>2. TripKey(t) \in Keys
  BY KeysAreKeys DEF IInv
<1>3. value = IF Live(TripKey(t)) THEN entries[TripKey(t)].value ELSE NoEntry
  BY <1>1 DEF GetAnswers
<1>4. now \in Nat /\ now <= now /\ pc[t] = "lookup"
  BY DEF IInv, TypeOK
<1>5. reply' = [reply EXCEPT ![t] = NoEntry]
  BY <1>4 DEF IInv, TypeOK, RepliesWereFound
<1>6. value # NoEntry =>
        /\ value \in Values
        /\ \E s \in searches : Of(s, TripKey(t)) /\ s.value = value /\ s.at <= now /\ now < s.at + TTL
  BY <1>2, <1>3, LiveWasFound
<1>7. ASSUME value = NoEntry, NEW s \in searches, Of(s, TripKey(t)), TripKey(t) \notin dropped
      PROVE  ~(s.at < now /\ now < s.at + TTL)
  <2>1. ~Live(TripKey(t))
    <3>1. Live(TripKey(t)) => value \in Values
      BY <1>2, <1>3, LiveWasFound
    <3>2. NoEntry \notin Values
      BY NodeAssumption
    <3>3. QED BY <1>7, <3>1, <3>2
  <2>2. s.at \in Nat /\ TTL \in Nat /\ now \in Nat
    BY CacheAssumption DEF IInv, TypeOK, Searches
  <2>3. entries[TripKey(t)] # NoEntry => entries[TripKey(t)].expires \in Nat
    BY <1>2 DEF IInv, TypeOK
  <2>4. QED BY <1>7, <2>1, <2>2, <2>3 DEF IInv, ResultsAreKept, Of, Live
<1>8. QED BY <1>1, <1>4, <1>5, <1>6, <1>7, GoOnKeeps

LEMMA ReadReplyKeeps ==
  ASSUME IInv, NEW t \in Trips, ReadReply(t)
  PROVE  IInv'
<1> USE DEF ReadReply
<1>1. asked[t] \in Nat /\ asked[t] <= now /\ backend = "redis"
  BY DEF IInv, TypeOK, InThePast, RepliesWereFound
<1>2. reply[t] # NoEntry =>
        /\ reply[t] \in Values
        /\ \E s \in searches :
             Of(s, TripKey(t)) /\ s.value = reply[t] /\ s.at <= asked[t] /\ asked[t] < s.at + TTL
  BY DEF IInv, TypeOK, RepliesWereFound
<1>3. QED BY <1>1, <1>2, GoOnKeeps

LEMMA LookUpInRedisKeeps ==
  ASSUME IInv, NEW t \in Trips, LookUpInRedis(t)
  PROVE  IInv'
<1> USE DEF LookUpInRedis, Move
<1>1. /\ UNCHANGED <<reqVars, ledger, costBefore, found, paid, served, searches, restarts, cacheVars, traceVars>>
      /\ pc' = [pc EXCEPT ![t] = "reading"] /\ pc[t] = "lookup" /\ backend = "redis"
      /\ asked' = [asked EXCEPT ![t] = now]
  OBVIOUS
<1>2. PICK value \in GetAnswers(TripKey(t)) : reply' = [reply EXCEPT ![t] = value]
  OBVIOUS
<1>3. value # NoEntry =>
        /\ value \in Values
        /\ \E s \in searches : Of(s, TripKey(t)) /\ s.value = value /\ s.at <= now /\ now < s.at + TTL
  <2>1. TripKey(t) \in Keys
    BY KeysAreKeys DEF IInv
  <2>2. value # NoEntry => Live(TripKey(t)) /\ value = entries[TripKey(t)].value
    BY <1>2 DEF GetAnswers
  <2>3. QED BY <2>1, <2>2, LiveWasFound
<1>4. TypeOK'
  <2>1. reply' \in [Trips -> Values \cup {NoEntry}]
    BY <1>2, <1>3 DEF IInv, TypeOK
  <2>2. asked' \in [Trips -> Nat] /\ pc' \in [Trips -> {"idle", "completed", "failed", "lost"} \cup Running]
    BY <1>1 DEF IInv, TypeOK, Running
  <2>3. QED BY <1>1, <2>1, <2>2 DEF IInv, TypeOK, cacheVars, traceVars, reqVars
<1>5. CacheInv'
  BY <1>1, CacheUntouched DEF IInv, CacheInv
<1>6. InThePast'
  BY <1>1 DEF IInv, TypeOK, InThePast, cacheVars
<1>7. RepliesWereFound'
  <2>1. ASSUME NEW u \in Trips, u # t
        PROVE  pc'[u] = pc[u] /\ reply'[u] = reply[u] /\ asked'[u] = asked[u]
    BY <1>1, <1>2, <2>1 DEF IInv, TypeOK
  <2>2. pc'[t] = "reading" /\ reply'[t] = value /\ asked'[t] = now
    BY <1>1, <1>2 DEF IInv, TypeOK
  <2>3. QED BY <1>1, <1>3, <2>1, <2>2 DEF IInv, RepliesWereFound, Of, TripKey, Key, reqVars, cacheVars
<1>8. RunsAddUp'
  BY <1>1 DEF IInv, TypeOK, RunsAddUp
<1>9. MissesAreReal'
  BY <1>1 DEF IInv, TypeOK, MissesAreReal, Of, TripKey, Key, reqVars, cacheVars
<1>10. ServedIsFresh'
  BY <1>1 DEF IInv, ServedIsFresh
<1>11. TracesFollowRequests' /\ TracesHaveAClient'
  BY <1>1 DEF IInv, TypeOK, TracesFollowRequests, TracesHaveAClient, Running, traceVars
<1>12. QED BY <1>4, <1>5, <1>6, <1>7, <1>8, <1>9, <1>10, <1>11 DEF IInv, CacheInv

-------------------------------------------------------------------------------
(* The steps that change the cache. *)

\* A store changes its own key; in memory it may cost one other key its entry,
\* in Redis the store itself may be lost.
LEMMA SetChanges ==
  ASSUME TypeOK, NEW k \in Keys, NEW value \in Values, Set(k, value)
  PROVE  /\ UNCHANGED <<backend, now>>
         /\ entries' \in [Keys -> [value : Values, expires : Nat] \cup {NoEntry}]
         /\ dropped \subseteq dropped' /\ dropped' \subseteq Keys
         /\ \A j \in Keys : \/ entries'[j] = entries[j]
                            \/ j = k /\ entries'[j] = Entry(value)
                            \/ j \in dropped' /\ entries'[j] = NoEntry
         /\ backend = "memory" => entries'[k] = Entry(value)
<1> USE DEF Set
<1>1. Entry(value) \in [value : Values, expires : Nat]
  BY CacheAssumption DEF TypeOK, Entry
<1>2. CASE SetInMemory(k, value)
  <2>1. CASE entries' = [entries EXCEPT ![k] = Entry(value)] /\ UNCHANGED dropped
    BY <1>1, <1>2, <2>1 DEF TypeOK
  <2>2. CASE \E j \in {j \in Keys \ {k} : Live(j)} :
               /\ entries' = [entries EXCEPT ![k] = Entry(value), ![j] = NoEntry]
               /\ dropped' = dropped \cup {j}
    <3>1. PICK j \in Keys \ {k} : /\ entries' = [entries EXCEPT ![k] = Entry(value), ![j] = NoEntry]
                                  /\ dropped' = dropped \cup {j}
      BY <2>2
    <3>2. QED BY <1>1, <1>2, <3>1 DEF TypeOK
  <2>3. QED BY <1>2, <2>1, <2>2 DEF SetInMemory
<1>3. CASE SetInRedis(k, value)
  BY <1>1, <1>3 DEF TypeOK, SetInRedis
<1>4. QED BY <1>2, <1>3

LEMMA StoreKeeps ==
  ASSUME IInv, NEW t \in Trips, Store(t)
  PROVE  IInv'
<1> DEFINE k == TripKey(t)
           new == [route |-> Upper[route[t]], cabin |-> cabin[t], value |-> EntryOf(t),
                   cost |-> paid[t], asked |-> asked[t], at |-> now]
<1>1. /\ UNCHANGED <<reqVars, ledger, reply, served, restarts, traceVars>>
      /\ pc' = [pc EXCEPT ![t] = "policy"] /\ pc[t] = "storing"
      /\ found' = [found EXCEPT ![t] = NoFare] /\ paid' = [paid EXCEPT ![t] = 0]
      /\ asked' = [asked EXCEPT ![t] = 0] /\ costBefore' = [costBefore EXCEPT ![t] = 0]
      /\ searches' = searches \cup {new} /\ Set(k, EntryOf(t))
  BY DEF Store, Move
<1>2. k \in Keys /\ k = <<Upper[route[t]], cabin[t]>> /\ Upper[route[t]] \in Routes /\ cabin[t] \in Cabins
  BY KeysAreKeys DEF IInv
<1>3. EntryOf(t) \in Values /\ EntryOf(t).agent_cost_saved_usd = paid[t]
  <2>1. ledger[t] = costBefore[t] + paid[t] /\ found[t] \in Fares
    BY <1>1 DEF IInv, RunsAddUp
  <2>2. ledger[t] \in Nat /\ costBefore[t] \in Nat /\ paid[t] \in Nat
    BY DEF IInv, TypeOK
  <2>3. QED BY <2>1, <2>2 DEF EntryOf, Values
<1>4. new \in Searches /\ Of(new, k) /\ new.at = now /\ new.asked = asked[t]
      /\ new.value = EntryOf(t) /\ new.cost = paid[t]
  BY <1>2, <1>3 DEF IInv, TypeOK, Searches, Of
<1> HIDE DEF k, new
<1>5. /\ UNCHANGED <<backend, now>>
      /\ entries' \in [Keys -> [value : Values, expires : Nat] \cup {NoEntry}]
      /\ dropped \subseteq dropped' /\ dropped' \subseteq Keys
      /\ \A j \in Keys : \/ entries'[j] = entries[j]
                         \/ j = k /\ entries'[j] = Entry(EntryOf(t))
                         \/ j \in dropped' /\ entries'[j] = NoEntry
      /\ backend = "memory" => entries'[k] = Entry(EntryOf(t))
  BY <1>1, <1>2, <1>3, SetChanges DEF IInv
<1>6. TTL \in Nat /\ now \in Nat /\ asked[t] \in Nat /\ asked[t] <= now
      /\ \A s \in searches : s.at \in Nat /\ s.asked \in Nat /\ s.at <= now /\ s.asked <= now
  BY CacheAssumption DEF IInv, TypeOK, InThePast, Searches
<1>7. Entry(EntryOf(t)).value = EntryOf(t) /\ Entry(EntryOf(t)).expires = now + TTL
      /\ Entry(EntryOf(t)) # NoEntry
  <2>1. Entry(EntryOf(t)) \in [value : Values, expires : Nat]
    BY <1>3, <1>6 DEF Entry
  <2>2. QED BY <2>1, NodeAssumption DEF Entry
<1>8. TypeOK'
  <2>1. searches' \subseteq Searches
    BY <1>1, <1>4 DEF IInv, TypeOK
  <2>2. /\ costBefore' \in [Trips -> Nat] /\ paid' \in [Trips -> Nat] /\ asked' \in [Trips -> Nat]
        /\ found' \in [Trips -> Fares \cup {NoFare}]
        /\ pc' \in [Trips -> {"idle", "completed", "failed", "lost"} \cup Running]
    BY <1>1 DEF IInv, TypeOK, Running
  <2>3. QED BY <1>1, <1>5, <2>1, <2>2 DEF IInv, TypeOK, traceVars, reqVars
<1>9. SavingsAreCosts'
  BY <1>1, <1>3, <1>4 DEF IInv, SavingsAreCosts
<1>10. InThePast'
  BY <1>1, <1>4, <1>5, <1>6 DEF IInv, TypeOK, InThePast
<1>11. EntriesWereFound'
  <2> SUFFICES ASSUME NEW j \in Keys, entries'[j] # NoEntry
               PROVE  \E s \in searches' :
                        Of(s, j) /\ s.value = entries'[j].value /\ entries'[j].expires = s.at + TTL
    BY DEF EntriesWereFound, Of
  <2>1. CASE entries'[j] = entries[j]
    BY <1>1, <2>1 DEF IInv, EntriesWereFound
  <2>2. CASE j = k /\ entries'[j] = Entry(EntryOf(t))
    BY <1>1, <1>4, <1>7, <2>2
  <2>3. QED BY <1>5, <2>1, <2>2
<1>12. RepliesWereFound'
  <2>1. ASSUME NEW u \in Trips
        PROVE  reply'[u] = reply[u] /\ (reply[u] # NoEntry => u # t)
    BY <1>1 DEF IInv, RepliesWereFound
  <2>2. ASSUME NEW u \in Trips, u # t PROVE pc'[u] = pc[u] /\ asked'[u] = asked[u]
    BY <1>1, <2>2 DEF IInv, TypeOK
  <2>3. pc'[t] = "policy"
    BY <1>1 DEF IInv, TypeOK
  <2>4. ASSUME NEW u \in Trips PROVE TripKey(u)' = TripKey(u)
    BY <1>1 DEF TripKey, Key, reqVars
  <2>5. QED BY <1>1, <1>5, <2>1, <2>2, <2>3, <2>4 DEF IInv, RepliesWereFound, Of
<1>13. RunsAddUp'
  BY <1>1 DEF IInv, TypeOK, RunsAddUp
<1>14. ResultsAreKept'
  <2> SUFFICES ASSUME backend = "memory", NEW s \in searches', <<s.route, s.cabin>> \notin dropped',
                      now < s.at + TTL
               PROVE  /\ entries'[<<s.route, s.cabin>>] # NoEntry
                      /\ entries'[<<s.route, s.cabin>>].expires >= s.at + TTL
    BY <1>5 DEF ResultsAreKept
  <2>1. CASE Of(s, k)
    <3>1. s.at <= now /\ s.at \in Nat
      BY <1>1, <1>4, <1>6
    <3>2. QED BY <1>5, <1>6, <1>7, <2>1, <3>1 DEF Of
  <2>2. CASE ~Of(s, k)
    <3>1. s \in searches
      BY <1>1, <1>4, <2>2
    <3>2. <<s.route, s.cabin>> \in Keys
      BY <3>1 DEF IInv, TypeOK, Searches, Keys
    <3>3. entries'[<<s.route, s.cabin>>] = entries[<<s.route, s.cabin>>]
      BY <1>5, <2>2, <3>2 DEF Of
    <3>4. QED BY <1>5, <3>1, <3>3 DEF IInv, ResultsAreKept
  <2>3. QED BY <2>1, <2>2
<1>15. OnlyOverlappingSearchesRepeat'
  <2> SUFFICES ASSUME backend = "memory", NEW a \in searches', NEW b \in searches',
                      a.route = b.route, a.cabin = b.cabin, <<a.route, a.cabin>> \notin dropped'
               PROVE  ~(a.at < b.asked /\ b.asked < a.at + TTL)
    BY <1>5 DEF OnlyOverlappingSearchesRepeat
  <2>1. CASE a \in searches /\ b \in searches
    BY <1>5, <2>1 DEF IInv, OnlyOverlappingSearchesRepeat
  <2>2. CASE a \in searches /\ b = new
    BY <1>1, <1>4, <1>5, <2>2 DEF IInv, MissesAreReal, Of, k
  <2>3. CASE a = new
    BY <1>1, <1>4, <1>6, <2>3
  <2>4. QED BY <1>1, <2>1, <2>2, <2>3
<1>16. MissesAreReal'
  <2> SUFFICES ASSUME backend = "memory", NEW u \in Trips, pc'[u] \in {"searching", "storing"},
                      NEW s \in searches', Of(s, TripKey(u)), TripKey(u) \notin dropped'
               PROVE  ~(s.at < asked'[u] /\ asked'[u] < s.at + TTL)
    BY <1>1, <1>5 DEF MissesAreReal, Of, TripKey, Key, reqVars
  <2>1. u # t /\ pc'[u] = pc[u] /\ asked'[u] = asked[u]
    BY <1>1 DEF IInv, TypeOK
  <2>2. CASE s \in searches
    BY <1>5, <2>1, <2>2 DEF IInv, MissesAreReal
  <2>3. CASE s = new
    <3>1. asked[u] <= now /\ asked[u] \in Nat
      BY DEF IInv, TypeOK, InThePast
    <3>2. QED BY <1>4, <1>6, <2>1, <2>3, <3>1
  <2>4. QED BY <1>1, <2>2, <2>3
<1>17. ServedIsFresh'
  BY <1>1 DEF IInv, ServedIsFresh
<1>18. TracesFollowRequests' /\ TracesHaveAClient'
  BY <1>1 DEF IInv, TypeOK, TracesFollowRequests, TracesHaveAClient, Running, traceVars
<1>19. QED BY <1>8, <1>9, <1>10, <1>11, <1>12, <1>13, <1>14, <1>15, <1>16, <1>17, <1>18 DEF IInv

\* An older clock makes entries expire, and nothing live.
LEMMA ClockKeeps ==
  ASSUME IInv, Clock
  PROVE  IInv'
<1> USE DEF Clock, Tick
<1>1. UNCHANGED <<nodeVars, traceVars, backend, entries, dropped>> /\ now' = now + 1 /\ now \in Nat
  BY DEF IInv, TypeOK
<1>2. TypeOK'
  BY <1>1 DEF IInv, TypeOK, nodeVars, reqVars, traceVars
<1>3. InThePast'
  BY <1>1 DEF IInv, TypeOK, InThePast, Searches, nodeVars
<1>4. ResultsAreKept'
  BY <1>1, CacheAssumption DEF IInv, TypeOK, ResultsAreKept, Searches, nodeVars
<1>5. EntriesWereFound' /\ SavingsAreCosts' /\ OnlyOverlappingSearchesRepeat'
  BY <1>1 DEF IInv, EntriesWereFound, SavingsAreCosts, OnlyOverlappingSearchesRepeat, Of, nodeVars
<1>6. RepliesWereFound' /\ RunsAddUp' /\ MissesAreReal'
  BY <1>1 DEF IInv, RepliesWereFound, RunsAddUp, MissesAreReal, Of, TripKey, Key, nodeVars, reqVars
<1>7. ServedIsFresh' /\ TracesFollowRequests' /\ TracesHaveAClient'
  BY <1>1 DEF IInv, ServedIsFresh, TracesFollowRequests, TracesHaveAClient, nodeVars, traceVars
<1>8. QED BY <1>2, <1>3, <1>4, <1>5, <1>6, <1>7 DEF IInv

LEMMA RestartKeeps ==
  ASSUME IInv, Restart
  PROVE  IInv'
<1> USE DEF Restart, CacheRestart, TraceRestart
<1>1. UNCHANGED <<reqVars, served, searches, backend, now>> /\ active' = {} /\ client' = "unknown"
  OBVIOUS
<1>2. \A t \in Trips : pc'[t] \notin Running
  BY DEF IInv, TypeOK, Running
<1>3. TypeOK'
  <2>1. pc' \in [Trips -> {"idle", "completed", "failed", "lost"} \cup Running]
    BY DEF IInv, TypeOK, Running
  <2>2. restarts' \in 0..MaxRestarts
    BY NodeAssumption DEF IInv, TypeOK
  <2>3. entries' \in [Keys -> [value : Values, expires : Nat] \cup {NoEntry}] /\ dropped' \subseteq Keys
    BY DEF IInv, TypeOK
  <2>4. QED BY <1>1, <2>1, <2>2, <2>3 DEF IInv, TypeOK, reqVars
<1>4. InThePast'
  BY <1>1 DEF IInv, TypeOK, InThePast
<1>5. EntriesWereFound' /\ SavingsAreCosts'
  BY <1>1 DEF IInv, EntriesWereFound, SavingsAreCosts, Of
<1>6. ResultsAreKept' /\ OnlyOverlappingSearchesRepeat'
  <2>1. ASSUME NEW s \in searches PROVE <<s.route, s.cabin>> \in Keys
    BY <2>1 DEF IInv, TypeOK, Searches, Keys
  <2>2. backend = "memory" => dropped' = Keys
    OBVIOUS
  <2>3. QED BY <1>1, <2>1, <2>2 DEF ResultsAreKept, OnlyOverlappingSearchesRepeat
<1>7. RepliesWereFound' /\ RunsAddUp' /\ MissesAreReal'
  BY <1>1, <1>2 DEF RepliesWereFound, RunsAddUp, MissesAreReal, Running
<1>8. ServedIsFresh' /\ TracesFollowRequests' /\ TracesHaveAClient'
  BY <1>1 DEF IInv, ServedIsFresh, TracesFollowRequests, TracesHaveAClient
<1>9. QED BY <1>3, <1>4, <1>5, <1>6, <1>7, <1>8 DEF IInv

-------------------------------------------------------------------------------
(* The theorems. *)

\* IInv is inductive.
LEMMA Inductive == IInv /\ [Next]_vars => IInv'
<1> SUFFICES ASSUME IInv, [Next]_vars PROVE IInv'
  OBVIOUS
<1>1. ASSUME NEW t \in Trips,
             \/ Receive(t) \/ LookUpInMemory(t) \/ LookUpInRedis(t) \/ ReadReply(t)
             \/ Store(t) \/ Complete(t) \/ Fail(t)
      PROVE  IInv'
  BY <1>1, ReceiveKeeps, LookUpInMemoryKeeps, LookUpInRedisKeeps, ReadReplyKeeps, StoreKeeps, EndKeeps
<1>2. ASSUME NEW t \in Trips, NEW cost \in Costs, NEW result \in Fares \cup {NoFare},
             AgentReturns(t, cost, result)
      PROVE  IInv'
  BY <1>2, AgentReturnsKeeps
<1>3. ASSUME NEW t \in Trips, NEW cost \in Costs, NEW lower \in LowerCabins, Reflect(t, cost, lower)
      PROVE  IInv'
  BY <1>3, ReflectKeeps
<1>4. CASE Clock
  BY <1>4, ClockKeeps
<1>5. CASE Restart
  BY <1>5, RestartKeeps
<1>6. CASE UNCHANGED vars
  <2> USE <1>6 DEF vars, nodeVars, reqVars, cacheVars, traceVars
  <2>1. TypeOK' /\ InThePast'
    BY DEF IInv, TypeOK, InThePast
  <2>2. CacheInv'
    BY CacheUntouched DEF IInv, CacheInv
  <2>3. RepliesWereFound' /\ RunsAddUp' /\ MissesAreReal'
    BY DEF IInv, RepliesWereFound, RunsAddUp, MissesAreReal, Of, TripKey, Key
  <2>4. ServedIsFresh' /\ TracesFollowRequests' /\ TracesHaveAClient'
    BY DEF IInv, ServedIsFresh, TracesFollowRequests, TracesHaveAClient
  <2>5. QED BY <2>1, <2>2, <2>3, <2>4 DEF IInv, CacheInv
<1>7. QED BY <1>1, <1>2, <1>3, <1>4, <1>5, <1>6 DEF Next

\* In every reachable state the strengthened invariant holds.
THEOREM Invariance == Spec => []IInv
BY InitInv, Inductive, PTL DEF Spec

\* Every variable has the type the code gives it.
THEOREM TypeCorrect == Spec => []TypeOK
<1>1. IInv => TypeOK
  BY DEF IInv
<1>2. QED BY <1>1, Invariance, PTL

\* What the cache serves was found less than the TTL ago, at the cost it names
\* (route_cache.get, flight_node).
THEOREM CacheServesFreshFares == Spec => []ServedIsFresh
<1>1. IInv => ServedIsFresh
  BY DEF IInv
<1>2. QED BY <1>1, Invariance, PTL

\* In memory, a search is repeated only by requests that overlap, or where the
\* entry was lost (route_cache.get and set, flight_node).
THEOREM CacheSparesSearches == Spec => []OnlyOverlappingSearchesRepeat
<1>1. IInv => OnlyOverlappingSearchesRepeat
  BY DEF IInv
<1>2. QED BY <1>1, Invariance, PTL

\* A trace in the table is of a request under way, or of one that raised
\* (start_request_trace, end_request_trace).
THEOREM TracesAreOfRequests == Spec => []TracesFollowRequests
<1>1. IInv => TracesFollowRequests
  BY DEF IInv
<1>2. QED BY <1>1, Invariance, PTL
===============================================================================
