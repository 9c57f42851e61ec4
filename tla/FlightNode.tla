------------------------------ MODULE FlightNode ------------------------------
(***************************************************************************)
(* flight_node of orchestrator/graph.py in detail, for concurrent requests *)
(* that share the route cache: the lookup, the Flight Agent's run and what *)
(* it costs, the store, and the reflection that brings a request back with *)
(* another cabin.  Around it, the request's trace.                         *)
(***************************************************************************)
EXTENDS Integers, RouteCache, Tracing

CONSTANTS Requests,     \* [route, cabin]: the requests employees send
          Fares,        \* the results of searches that found fares
          NoFare,       \* any other result
          LowerCabins,  \* the cabins next_lower_cabin_class may name: not the highest
          Costs,        \* what an agent run may cost
          MaxRetries,   \* max_reflection_retries
          MaxRestarts   \* bound: restarts of the process

VARIABLES pc,          \* trip -> where its request is
          route,       \* trip -> the route it asks for
          cabin,       \* trip -> the cabin its next search is for
          retries,     \* trip -> reflections so far
          ledger,      \* trip -> agent_cost_usd
          costBefore,  \* trip -> cost_before
          reply,       \* trip -> what Redis has answered to its lookup
          found,       \* trip -> fares of the agent's run, until they are stored
          paid,        \* history: trip -> the cost of the run that found them
          asked,       \* history: trip -> when the lookup under way was answered
          served,      \* history: trip -> [route, cabin, value, at] of its last cache hit
          searches,    \* history: the searches whose result was stored
          restarts

reqVars == <<route, cabin, retries>>
nodeVars == <<pc, reqVars, ledger, costBefore, reply, found, paid, asked, served, searches, restarts>>
vars == <<nodeVars, cacheVars, traceVars>>

Values == [result : Fares, agent_cost_saved_usd : Nat]
Hits == [route : Routes, cabin : Cabins, value : Values, at : Nat]

ASSUME NodeAssumption ==
  /\ NoEntry \notin Values \cup [value : Values, expires : Nat] \cup Hits
  /\ NoFare \notin Fares
  /\ Requests \subseteq [route : Routes, cabin : Cabins]
  /\ LowerCabins \subseteq Cabins
  /\ Costs \subseteq Nat
  /\ MaxRetries \in Nat /\ MaxRestarts \in Nat

Running == {"lookup", "reading", "searching", "storing", "policy"}

Init ==
  /\ pc = [t \in Trips |-> "idle"]
  /\ \E sent \in [Trips -> Requests] : /\ route = [t \in Trips |-> sent[t].route]
                                       /\ cabin = [t \in Trips |-> sent[t].cabin]
  /\ retries = [t \in Trips |-> 0]
  /\ ledger = [t \in Trips |-> 0]
  /\ costBefore = [t \in Trips |-> 0]
  /\ reply = [t \in Trips |-> NoEntry]
  /\ found = [t \in Trips |-> NoFare]
  /\ paid = [t \in Trips |-> 0]
  /\ asked = [t \in Trips |-> 0]
  /\ served = [t \in Trips |-> NoEntry]
  /\ searches = {}
  /\ restarts = 0
  /\ CacheInit
  /\ TraceInit

Move(t, from, to) == pc[t] = from /\ pc' = [pc EXCEPT ![t] = to]
TripKey(t) == Key(route[t], cabin[t])

\* The request is received and its trace started.
Receive(t) ==
  /\ Move(t, "idle", "lookup")
  /\ StartTrace(t)
  /\ UNCHANGED <<reqVars, ledger, costBefore, reply, found, paid, asked, served, searches, restarts, cacheVars>>

\* The rest of the node after the await of route_cache.get: serve, or run the agent.
GoOn(t, value, at) ==
  IF value # NoEntry
  THEN /\ pc' = [pc EXCEPT ![t] = "policy"]
       /\ served' = [served EXCEPT ![t] = [route |-> route[t], cabin |-> cabin[t],
                                           value |-> value, at |-> at]]
       /\ asked' = [asked EXCEPT ![t] = 0]
       /\ UNCHANGED costBefore
  ELSE /\ pc' = [pc EXCEPT ![t] = "searching"]
       /\ costBefore' = [costBefore EXCEPT ![t] = ledger[t]]
       /\ asked' = [asked EXCEPT ![t] = at]
       /\ UNCHANGED served

\* The in-process cache answers without suspending the coroutine.
LookUpInMemory(t) ==
  /\ pc[t] = "lookup" /\ backend = "memory"
  /\ \E value \in GetAnswers(TripKey(t)) : GoOn(t, value, now)
  /\ UNCHANGED <<reqVars, ledger, reply, found, paid, searches, restarts, cacheVars, traceVars>>

\* Redis answers the lookup; what it answered may be stale when the reply is read.
LookUpInRedis(t) ==
  /\ Move(t, "lookup", "reading") /\ backend = "redis"
  /\ \E value \in GetAnswers(TripKey(t)) :
       reply' = [reply EXCEPT ![t] = value]
  /\ asked' = [asked EXCEPT ![t] = now]
  /\ UNCHANGED <<reqVars, ledger, costBefore, found, paid, served, searches, restarts, cacheVars, traceVars>>

ReadReply(t) ==
  /\ pc[t] = "reading"
  /\ GoOn(t, reply[t], asked[t])
  /\ reply' = [reply EXCEPT ![t] = NoEntry]
  /\ UNCHANGED <<reqVars, ledger, found, paid, searches, restarts, cacheVars, traceVars>>

\* The Flight Agent returns, and its usage is in the ledger; fares go on to be
\* stored, any other result to policy_check.
AgentReturns(t, cost, result) ==
  /\ ledger' = [ledger EXCEPT ![t] = @ + cost]
  /\ IF result # NoFare
     THEN /\ Move(t, "searching", "storing")
          /\ found' = [found EXCEPT ![t] = result]
          /\ paid' = [paid EXCEPT ![t] = cost]
          /\ UNCHANGED <<costBefore, asked>>
     ELSE /\ Move(t, "searching", "policy")
          /\ costBefore' = [costBefore EXCEPT ![t] = 0]
          /\ asked' = [asked EXCEPT ![t] = 0]
          /\ UNCHANGED <<found, paid>>
  /\ UNCHANGED <<reqVars, reply, served, searches, restarts, cacheVars, traceVars>>

\* Mutant: the saving is all the request has cost so far.
EntryOfTotal(t) == [result |-> found[t], agent_cost_saved_usd |-> ledger[t]]

\* Mutant: the difference is taken the wrong way round.
EntryOfNegative(t) == [result |-> found[t], agent_cost_saved_usd |-> costBefore[t] - ledger[t]]

\* What is stored: the fares, and what finding them has cost.
EntryOf(t) == [result |-> found[t], agent_cost_saved_usd |-> ledger[t] - costBefore[t]]

\* route_cache.set, whose failure the node does not see.
Store(t) ==
  /\ Move(t, "storing", "policy")
  /\ Set(TripKey(t), EntryOf(t))
  /\ searches' = searches \cup
       {[route |-> Upper[route[t]], cabin |-> cabin[t], value |-> EntryOf(t), cost |-> paid[t],
         asked |-> asked[t], at |-> now]}
  /\ found' = [found EXCEPT ![t] = NoFare]
  /\ paid' = [paid EXCEPT ![t] = 0]
  /\ asked' = [asked EXCEPT ![t] = 0]
  /\ costBefore' = [costBefore EXCEPT ![t] = 0]
  /\ UNCHANGED <<reqVars, ledger, reply, served, restarts, traceVars>>

\* The policy agent's run costs too; then the fare is decided about, or another
\* cabin is asked for.
Reflect(t, cost, lower) ==
  /\ Move(t, "policy", "lookup")
  /\ retries[t] < MaxRetries
  /\ retries' = [retries EXCEPT ![t] = @ + 1]
  /\ cabin' = [cabin EXCEPT ![t] = lower]
  /\ ledger' = [ledger EXCEPT ![t] = @ + cost]
  /\ UNCHANGED <<route, costBefore, reply, found, paid, asked, served, searches, restarts, cacheVars, traceVars>>

Complete(t) ==
  /\ Move(t, "policy", "completed")
  /\ EndTrace(t)
  /\ UNCHANGED <<reqVars, ledger, costBefore, reply, found, paid, asked, served, searches, restarts, cacheVars>>

\* An agent raises, the weather node's before the first lookup, and the exception
\* leaves run_trip_planning.
Fail(t) ==
  /\ \/ Move(t, "searching", "failed") \/ Move(t, "policy", "failed")
     \/ Move(t, "lookup", "failed") /\ retries[t] = 0
  /\ UNCHANGED <<reqVars, ledger, costBefore, reply, found, paid, asked, served, searches, restarts,
                 cacheVars, traceVars>>

\* The process starts again: what its requests held is gone.
Restart ==
  /\ restarts < MaxRestarts
  /\ restarts' = restarts + 1
  /\ pc' = [t \in Trips |-> IF pc[t] \in Running THEN "lost" ELSE pc[t]]
  /\ ledger' = [t \in Trips |-> 0]
  /\ CacheRestart /\ TraceRestart
  /\ costBefore' = [t \in Trips |-> 0]
  /\ reply' = [t \in Trips |-> NoEntry]
  /\ found' = [t \in Trips |-> NoFare]
  /\ paid' = [t \in Trips |-> 0]
  /\ asked' = [t \in Trips |-> 0]
  /\ UNCHANGED <<reqVars, served, searches>>

Clock == Tick /\ UNCHANGED <<nodeVars, traceVars>>

Next ==
  \/ \E t \in Trips :
       \/ Receive(t) \/ LookUpInMemory(t) \/ LookUpInRedis(t) \/ ReadReply(t)
       \/ \E cost \in Costs : \/ \E result \in Fares \cup {NoFare} : AgentReturns(t, cost, result)
                              \/ \E lower \in LowerCabins : Reflect(t, cost, lower)
       \/ Store(t) \/ Complete(t) \/ Fail(t)
  \/ Clock \/ Restart

Spec == Init /\ [][Next]_vars
-------------------------------------------------------------------------------
(* Properties. *)

Searches == [route : Routes, cabin : Cabins, value : Values, cost : Nat, asked : Nat, at : Nat]

\* Every variable has the type the code gives it.
TypeOK ==
  /\ pc \in [Trips -> {"idle", "completed", "failed", "lost"} \cup Running]
  /\ route \in [Trips -> Routes]
  /\ cabin \in [Trips -> Cabins]
  /\ retries \in [Trips -> 0..MaxRetries]
  /\ ledger \in [Trips -> Nat] /\ costBefore \in [Trips -> Nat] /\ paid \in [Trips -> Nat]
  /\ reply \in [Trips -> Values \cup {NoEntry}]
  /\ found \in [Trips -> Fares \cup {NoFare}]
  /\ asked \in [Trips -> Nat]
  /\ served \in [Trips -> Hits \cup {NoEntry}]
  /\ searches \subseteq Searches
  /\ restarts \in 0..MaxRestarts
  /\ backend \in {"memory", "redis"}
  /\ entries \in [Keys -> [value : Values, expires : Nat] \cup {NoEntry}]
  /\ now \in Nat
  /\ dropped \subseteq Keys
  /\ client \in {"unknown", "real", "none"}
  /\ active \subseteq Trips

\* A cached result is one that a search for this route and this cabin found
\* less than the TTL before the lookup, and the saving it is served with is
\* what that search cost: through reflections, concurrent stores, failing
\* Redis calls and restarts (route_cache.get, flight_node).
ServedIsFresh ==
  \A t \in Trips : served[t] # NoEntry =>
    \E s \in searches :
      /\ s.route = Upper[served[t].route] /\ s.cabin = served[t].cabin
      /\ s.value = served[t].value
      /\ s.at <= served[t].at /\ served[t].at < s.at + TTL
      /\ s.cost = served[t].value.agent_cost_saved_usd

\* "Identical searches within a TTL are served from cache instead of re-hitting
\* the flight API", however the airports are spelt: a search is paid for twice
\* only by requests that both looked up before either stored, or when the entry
\* was lost before its time (flight_node).
OnlyOverlappingSearchesRepeat ==
  backend = "memory" =>
    \A a, b \in searches :
      a.route = b.route /\ a.cabin = b.cabin /\ <<a.route, a.cabin>> \notin dropped
        => ~(a.at < b.asked /\ b.asked < a.at + TTL)

\* The table of active traces holds requests that are under way, and those that
\* raised: a request that completed, or that another process had, is not in it
\* (start_request_trace, end_request_trace).
TracesFollowRequests == \A t \in active : pc[t] \in Running \cup {"failed"}
===============================================================================
