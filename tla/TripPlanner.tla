----------------------------- MODULE TripPlanner ------------------------------
(***************************************************************************)
(* The orchestrator, orchestrator/graph.py: concurrent trip requests, each *)
(* a run of weather -> flight_search -> policy_check with the edge back to *)
(* flight_search, over the process's shared state: the route cache, the    *)
(* approval records, the ledger's business costs and the audit store.      *)
(*                                                                         *)
(* The nodes are coroutines of one event loop, so a step here runs from    *)
(* one await to the next.  What an agent answers is the environment's      *)
(* choice: a language model decides whether its tool is called, and for    *)
(* which cabin.                                                            *)
(***************************************************************************)
EXTENDS Thresholds, ApprovalGate

CONSTANTS Requests,       \* [level, international, route, cabin]: the requests employees send
          Routes,         \* (origin, destination, date) of a request
          MaxRetries,     \* max_reflection_retries of guardrails.yaml
          CacheMayFail,   \* whether a Redis call may fail
          MaxRestarts     \* bound: how often the gateway process restarts

VARIABLES pc,            \* trip -> the node it is in, or how it ended
          request,       \* trip -> state["request"]
          flight,        \* trip -> cheapest fare of state["flight_search"]; NoFare if not usable
          reflections,   \* trip -> state["reflection_count"]
          status,        \* trip -> state["status"]
          cache,         \* route cache: key -> cheapest fare of the cached result, or NoFare
          business,      \* ledger: trip -> business_cost_usd
          searches,      \* history: trip -> how often the Flight Agent ran
          restarts       \* how often the process restarted

stateVars == <<request, flight, reflections, status>>
vars == <<pc, stateVars, cache, business, searches, restarts, gateVars>>

RequestRecords == [level : Levels, international : BOOLEAN, route : Routes, cabin : Cabins]

ASSUME PlannerAssumption ==
  /\ Requests \subseteq RequestRecords
  /\ Fares \subseteq [price : Nat, cabin : Cabins]
  /\ NoFare \notin Fares
  /\ NoPrice \notin Nat
  /\ MaxRetries \in Nat
  /\ MaxRestarts \in Nat
  /\ AuditMayFail \in BOOLEAN
  /\ CacheMayFail \in BOOLEAN

Keys == Routes \X Cabins
EmptyCache == [k \in Keys |-> NoFare]

\* The nodes in which a request can be, and the ways its run can end.
Running == {"weather", "flight", "searching", "storing", "policy", "completing"}
Ended == {"completed", "failed", "refused", "lost"}

Init ==
  /\ pc = [t \in Trips |-> "idle"]
  /\ request \in [Trips -> Requests]
  /\ flight = [t \in Trips |-> NoFare]
  /\ reflections = [t \in Trips |-> 0]
  /\ status = [t \in Trips |-> "ok"]
  /\ cache = EmptyCache
  /\ business = [t \in Trips |-> NoPrice]
  /\ searches = [t \in Trips |-> 0]
  /\ restarts = 0
  /\ GateInit

Move(t, from, to) == pc[t] = from /\ pc' = [pc EXCEPT ![t] = to]

CacheKey(t) == <<request[t].route, request[t].cabin>>
InPolicy(t, fare) == WithinPolicy(request[t].level, request[t].international, fare)

-------------------------------------------------------------------------------
(* Receiving a request, and the weather node. *)

Receive(t) ==
  /\ Move(t, "idle", "weather")
  /\ UNCHANGED <<stateVars, cache, business, searches, restarts, gateVars>>

\* reject_if_suspicious raises, status code 400.  Its one event is only listed in
\* the call sequence.
Refuse(t) ==
  /\ Move(t, "idle", "refused")
  /\ UNCHANGED <<stateVars, cache, business, searches, restarts, gateVars>>

\* The Weather Agent answered.  Nothing later reads what it found.
WeatherNode(t) ==
  /\ Move(t, "weather", "flight")
  /\ UNCHANGED <<stateVars, cache, business, searches, restarts, gateVars>>

\* An agent raises (its model, its MCP server, a timeout) and the exception
\* leaves run_trip_planning: status code 500.
AgentFails(t) ==
  /\ \/ Move(t, "weather", "failed")
     \/ Move(t, "searching", "failed")
     \/ Move(t, "policy", "failed") /\ flight[t] # NoFare
  /\ UNCHANGED <<stateVars, cache, business, searches, restarts, gateVars>>

-------------------------------------------------------------------------------
(* flight_node. *)

RouteCacheHit(t) ==
  /\ Move(t, "flight", "policy")
  /\ cache[CacheKey(t)] # NoFare
  /\ flight' = [flight EXCEPT ![t] = cache[CacheKey(t)]]
  /\ UNCHANGED <<request, reflections, status, cache, business, searches, restarts, gateVars>>

\* No live entry, or Redis did not answer: the Flight Agent is asked.
RouteCacheMiss(t) ==
  /\ Move(t, "flight", "searching")
  /\ cache[CacheKey(t)] = NoFare \/ CacheMayFail
  /\ searches' = [searches EXCEPT ![t] = @ + 1]
  /\ UNCHANGED <<stateVars, cache, business, restarts, gateVars>>

\* search_flights found fares, of which `fare` is the cheapest.  Its cabin is
\* the one the model asked the tool for, whatever the request says.
SearchFindsFares(t, fare) ==
  /\ Move(t, "searching", "storing")
  /\ flight' = [flight EXCEPT ![t] = fare]
  /\ UNCHANGED <<request, reflections, status, cache, business, searches, restarts, gateVars>>

\* Mutant: the outage is noted, and the previous search's result kept.
SearchUnavailableKeepsFares(t) ==
  /\ Move(t, "searching", "policy")
  /\ status' = [status EXCEPT ![t] = "degraded"]
  /\ UNCHANGED <<request, reflections, flight, cache, business, searches, restarts, gateVars>>

\* available: False.  The event carries no fares.
SearchUnavailable(t) ==
  /\ Move(t, "searching", "policy")
  /\ flight' = [flight EXCEPT ![t] = NoFare]
  /\ status' = [status EXCEPT ![t] = "degraded"]
  /\ UNCHANGED <<request, reflections, cache, business, searches, restarts, gateVars>>

\* The tool's message was no JSON: {"raw": ...} replaces the previous result.
SearchUnparsed(t) ==
  /\ Move(t, "searching", "policy")
  /\ flight' = [flight EXCEPT ![t] = NoFare]
  /\ UNCHANGED <<request, reflections, status, cache, business, searches, restarts, gateVars>>

\* Mutant: an agent that did not search is asked again, for as long as it does not.
SearchAskedAgain(t) ==
  /\ Move(t, "searching", "flight")
  /\ UNCHANGED <<stateVars, cache, business, searches, restarts, gateVars>>

\* The agent answered without calling its tool: flight_search keeps the value
\* the previous search gave it, if there was one.
SearchNotCalled(t) ==
  /\ Move(t, "searching", "policy")
  /\ UNCHANGED <<stateVars, cache, business, searches, restarts, gateVars>>

\* route_cache.set, which may fail silently, then flight_node_complete.
StoreInRouteCache(t) ==
  /\ Move(t, "storing", "policy")
  /\ \/ cache' = [cache EXCEPT ![CacheKey(t)] = flight[t]]
     \/ CacheMayFail /\ UNCHANGED cache
  /\ RecordFares(t, flight[t])
  /\ UNCHANGED <<stateVars, business, searches, restarts, records, granted, booked>>

-------------------------------------------------------------------------------
(* policy_check_node, and the completion of the request. *)

\* Mutant: only an outage counts as having no fare.
NoFareAfterOutage(t) ==
  /\ Move(t, "policy", "completing")
  /\ flight[t] = NoFare /\ status[t] = "degraded"
  /\ UNCHANGED <<stateVars, cache, business, searches, restarts, gateVars>>

NoFareToEvaluate(t) ==
  /\ Move(t, "policy", "completing")
  /\ flight[t] = NoFare
  /\ UNCHANGED <<stateVars, cache, business, searches, restarts, gateVars>>

\* Mutant: the price alone is compared, not the cabin.
ApproveWithinCap(t) ==
  /\ Move(t, "policy", "completing")
  /\ flight[t] # NoFare
  /\ flight[t].price <= CapUsd(request[t].level, request[t].international)
  /\ AutoApprove(t, flight[t])
  /\ UNCHANGED <<stateVars, cache, business, searches, restarts>>

ApproveWithinPolicy(t) ==
  /\ Move(t, "policy", "completing")
  /\ flight[t] # NoFare
  /\ InPolicy(t, flight[t])
  /\ AutoApprove(t, flight[t])
  /\ UNCHANGED <<stateVars, cache, business, searches, restarts>>

\* Mutant: the lowest tier is not treated apart.
CanReflectBelowEconomy(t) == reflections[t] < MaxRetries

\* Whether the planner goes back to flight_search with a lower cabin.
CanReflect(t) ==
  /\ reflections[t] < MaxRetries
  /\ NextLowerCabin(flight[t].cabin) # NoCabin

\* Mutant: the retry is not counted.
AskLowerCabinUncounted(t) ==
  /\ Move(t, "policy", "flight")
  /\ flight[t] # NoFare
  /\ ~InPolicy(t, flight[t])
  /\ CanReflect(t)
  /\ request' = [request EXCEPT ![t].cabin = NextLowerCabin(flight[t].cabin)]
  /\ UNCHANGED <<flight, reflections, status, cache, business, searches, restarts, gateVars>>

\* The next cabin is the one below the fare's, not below the request's.
AskLowerCabin(t) ==
  /\ Move(t, "policy", "flight")
  /\ flight[t] # NoFare
  /\ ~InPolicy(t, flight[t])
  /\ CanReflect(t)
  /\ reflections' = [reflections EXCEPT ![t] = @ + 1]
  /\ request' = [request EXCEPT ![t].cabin = NextLowerCabin(flight[t].cabin)]
  /\ UNCHANGED <<flight, status, cache, business, searches, restarts, gateVars>>

\* Mutant: the approver is asked while a lower cabin could still be searched.
RouteToApproverAtOnce(t) ==
  /\ Move(t, "policy", "completing")
  /\ flight[t] # NoFare
  /\ ~InPolicy(t, flight[t])
  /\ CreatePending(t, flight[t])
  /\ UNCHANGED <<stateVars, cache, business, searches, restarts>>

\* Mutant: the pending approval does not end the loop, which searches on.
RouteToApproverAndRetry(t) ==
  /\ Move(t, "policy", "flight")
  /\ flight[t] # NoFare
  /\ ~InPolicy(t, flight[t])
  /\ ~CanReflect(t)
  /\ CreatePending(t, flight[t])
  /\ UNCHANGED <<stateVars, cache, business, searches, restarts>>

RouteToApprover(t) ==
  /\ Move(t, "policy", "completing")
  /\ flight[t] # NoFare
  /\ ~InPolicy(t, flight[t])
  /\ ~CanReflect(t)
  /\ CreatePending(t, flight[t])
  /\ UNCHANGED <<stateVars, cache, business, searches, restarts>>

\* Mutant: the ledger is written and the event of it forgotten.
CompleteUnaudited(t) ==
  /\ Move(t, "completing", "completed")
  /\ business' = IF records[t].status = "none" THEN business
                 ELSE [business EXCEPT ![t] = records[t].fare.price]
  /\ UNCHANGED <<stateVars, cache, searches, restarts, gateVars>>

\* The tail of run_trip_planning.  state["approval"] is the record itself,
\* so an approval that has a fare is a trip that has a record.
Complete(t) ==
  /\ Move(t, "completing", "completed")
  /\ IF records[t].status # "none"
     THEN /\ business' = [business EXCEPT ![t] = records[t].fare.price]
          /\ RecordBusinessCost(t, records[t].fare.price)
     ELSE UNCHANGED <<business, auditVars>>
  /\ UNCHANGED <<stateVars, cache, searches, restarts, records, granted, booked>>

-------------------------------------------------------------------------------
(* The endpoints an approver and an employee call, and the environment. *)

GrantApproval(t) == Grant(t) /\ UNCHANGED <<pc, stateVars, cache, business, searches, restarts>>
RejectApproval(t) == Reject(t) /\ UNCHANGED <<pc, stateVars, cache, business, searches, restarts>>
BookTrip(t) == Book(t) /\ UNCHANGED <<pc, stateVars, cache, business, searches, restarts>>

\* An entry outlives its 600 s, or is the one a full cache evicts.
CacheExpire(k) ==
  /\ cache[k] # NoFare
  /\ cache' = [cache EXCEPT ![k] = NoFare]
  /\ UNCHANGED <<pc, stateVars, business, searches, restarts, gateVars>>

\* The gateway process ends and starts again: its runs, records and ledgers
\* are gone, and the route cache with them unless Redis holds it.
Restart ==
  /\ restarts < MaxRestarts
  /\ restarts' = restarts + 1
  /\ pc' = [t \in Trips |-> IF pc[t] \in Running THEN "lost" ELSE pc[t]]
  /\ business' = [t \in Trips |-> NoPrice]
  /\ cache' \in {cache, EmptyCache}
  /\ GateRestart
  /\ UNCHANGED <<stateVars, searches>>

PlannerStep(t) ==
  \/ WeatherNode(t) \/ AgentFails(t)
  \/ RouteCacheHit(t) \/ RouteCacheMiss(t)
  \/ \E fare \in Fares : SearchFindsFares(t, fare)
  \/ SearchUnavailable(t) \/ SearchUnparsed(t) \/ SearchNotCalled(t)
  \/ StoreInRouteCache(t)
  \/ NoFareToEvaluate(t) \/ ApproveWithinPolicy(t)
  \/ AskLowerCabin(t) \/ RouteToApprover(t)
  \/ Complete(t)

Next ==
  \/ \E t \in Trips : \/ PlannerStep(t)
                      \/ Receive(t) \/ Refuse(t)
                      \/ GrantApproval(t) \/ RejectApproval(t) \/ BookTrip(t)
  \/ \E k \in Keys : CacheExpire(k)
  \/ Restart

\* The event loop runs a coroutine whose await is over, and every await ends:
\* agents and providers answer or time out.  Nobody has to send a request, decide or book.
Fairness == \A t \in Trips : WF_vars(PlannerStep(t))

Spec == Init /\ [][Next]_vars /\ Fairness
-------------------------------------------------------------------------------
(* Properties. *)

TrailRecords ==
  [candidate : Fares \cup {NoFare}, outcome : Statuses,
   final_fare : Fares \cup {NoFare}, business : Nat \cup {NoPrice}]

\* Every variable has the type its Python annotation, or the code, gives it.
TypeOK ==
  /\ pc \in [Trips -> {"idle"} \cup Running \cup Ended]
  /\ request \in [Trips -> RequestRecords]
  /\ flight \in [Trips -> Fares \cup {NoFare}]
  /\ reflections \in [Trips -> 0..MaxRetries]
  /\ status \in [Trips -> {"ok", "degraded"}]
  /\ cache \in [Keys -> Fares \cup {NoFare}]
  /\ business \in [Trips -> Nat \cup {NoPrice}]
  /\ searches \in [Trips -> Nat]
  /\ restarts \in 0..MaxRestarts
  /\ records \in [Trips -> [status : Statuses, fare : Fares \cup {NoFare}]]
  /\ granted \subseteq Trips
  /\ booked \in [Trips -> SUBSET Fares]
  /\ trail \in [Trips -> TrailRecords]
  /\ lost \subseteq Trips

\* A fare is approved without a human only if it is within the caps and the
\* cabin of the employee who asked, also when the fare comes from the cache,
\* where a search of somebody at another job level may have put it, or is left
\* over from an earlier search of the same request (policy_check_node).
AutoApprovedIsInPolicy ==
  \A t \in Trips : records[t].status = "auto_approved" => InPolicy(t, records[t].fare)

\* Whatever was ever booked was in policy for that employee, or some approver
\* had granted that trip: through any order of approvals, rejections, bookings
\* and restarts (require_approval_for_booking).
BookedIsAuthorised ==
  \A t \in Trips : \A fare \in booked[t] : t \in granted \/ InPolicy(t, fare)

\* A trip has one fare: the planner never replaces the fare of a record an
\* approver may already have looked at, and all bookings of a trip are of it.
OneFarePerTrip ==
  \A t \in Trips : \A f, g \in booked[t] \cup ({records[t].fare} \ {NoFare}) : f = g

\* A request whose search ran into an outage ends without a decision, even when
\* an earlier search of its reflection loop had found fares (flight_node).
DegradedIsUndecided ==
  \A t \in Trips : status[t] = "degraded" =>
    records[t] = NoRecord /\ booked[t] = {} /\ trail[t].outcome = "none"

\* An approver is asked only about a fare that is out of policy, and only when
\* the retries are used up or no cabin is lower (policy_check_node).
PendingIsLastResort ==
  \A t \in Trips : records[t].status = "pending" =>
    ~InPolicy(t, records[t].fare) /\ ~CanReflect(t)

\* One request costs at most one Flight Agent run per reflection and one more,
\* however its cache lookups fall out (the reflection loop of build_graph).
SearchesAreBounded == \A t \in Trips : searches[t] <= MaxRetries + 1

\* GET /audit agrees with the gate: the outcome and the fare of the trail are
\* those of the live record, and the trail still names the booked fare after
\* a restart has dropped the record.  Unless an event of the trip was lost.
TrailTellsTheOutcome ==
  \A t \in Trips \ lost :
    /\ records[t].status # "none" =>
         trail[t].outcome = records[t].status /\ trail[t].final_fare = records[t].fare
    /\ booked[t] \subseteq {trail[t].final_fare}

\* The ledger's business cost is the price of the fare the record holds, and a
\* finished trip's trail shows the price of the trail's own final fare.
CostIsTheFares ==
  \A t \in Trips :
    /\ business[t] # NoPrice => business[t] = records[t].fare.price
    /\ pc[t] = "completed" /\ t \notin lost /\ trail[t].final_fare # NoFare
         => trail[t].business = trail[t].final_fare.price

\* How many steps a request can take at most until it has ended: those of the
\* chain, and four for each turn of the reflection loop it has left.
Place == [n \in Running |->
  CASE n = "weather" -> 6 [] n = "flight" -> 5 [] n = "searching" -> 4
    [] n = "storing" -> 3 [] n = "policy" -> 2 [] n = "completing" -> 1]
StepsLeft(t) ==
  IF pc[t] \in Running THEN Place[pc[t]] + 4 * (MaxRetries - reflections[t]) ELSE 0

\* The graph takes no running request back: whatever the agents and the cache
\* answer, a step of its own leaves it fewer steps than it had, and no step of
\* another request, of an approver or of the cache leaves it more.  As StepsLeft is
\* a natural number, what can keep a request from its end is only a step that is
\* never taken (the reflection loop of build_graph).
EveryStepIsProgress ==
  [][\A t \in Trips : pc[t] \in Running =>
       \/ StepsLeft(t)' < StepsLeft(t)
       \/ pc'[t] = pc[t] /\ StepsLeft(t)' = StepsLeft(t)]_vars

\* Every accepted request comes to an end: the reflection loop cannot go on for
\* ever, through the cache or around it.
EveryRequestEnds == \A t \in Trips : pc[t] \in Running ~> pc[t] \in Ended

-------------------------------------------------------------------------------
(* What the documents say and the code does not do. *)

\* docs/LLD.md:159 gives the grant endpoint "404 if no pending record": then a
\* rejected record, which is no longer pending, stays rejected (grant_approval).
RejectedIsNotGranted ==
  [][\A t \in Trips : records[t].status = "rejected" => records'[t].status # "approved"]_vars

\* docs/LLD.md:186-187: the business cost is recorded "from the approved
\* fare's price_usd" (run_trip_planning).
CostIsOfAnApprovedFare ==
  \A t \in Trips : business[t] # NoPrice => records[t].status \in {"auto_approved", "approved"}

\* docs/runbook_audit_trace.md:86: candidate_fares is null because "the flight
\* provider was unavailable/quota-exhausted for that request": then a trip whose
\* trail shows no candidates has had no fare to decide on (flight_node).
NoCandidatesMeansNoFares ==
  \A t \in Trips \ lost :
    pc[t] = "completed" /\ trail[t].candidate = NoFare => flight[t] = NoFare
===============================================================================
