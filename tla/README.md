# Trip planner: TLA+ specifications

The trip planner takes an employee's trip request, lets language-model agents
look up weather and fares, rules on the cheapest fare against the travel policy
of the employee's job level, asks an approver where the policy says no, and
books what was approved. This directory holds a formal model of it, the
configurations with which TLC checks the model, and proofs checked by TLAPS.
Paths below are relative to the repository; `planner/` stands for
`src/trip_planner/`.

## 1. The system

One gateway process (FastAPI, `planner/api/main.py`) runs everything on one
event loop. It keeps five tables in memory: the approval records, the ledgers,
the active traces, the semantic cache and, without Redis, the route cache. Tools
run in MCP server processes it spawns. The audit store is a database on disk,
which the gateway and the booking server both write. The web UI is a client.

| Component | State | Operations | Talks to |
|---|---|---|---|
| Orchestrator `planner/orchestrator/graph.py` | one `TripState` per running request | the nodes weather, flight_search, policy_check; the retry edge; entry and completion | agents, route cache, gate, ledger, audit |
| Thresholds `planner/guardrails/thresholds.py` | none (`config/guardrails.yaml`) | ruling on a fare, next lower cabin | |
| Approval gate `planner/guardrails/approval_gate.py` | `_RECORDS` | auto-approve, create pending, grant, reject, require for booking | audit |
| Booking `planner/tools/booking_tools.py` | none (a stub) | book | gate |
| Audit store `planner/audit/store.py` | append-only events | record, fold into a trail | every component writes |
| Route cache `planner/cache/route_cache.py` | Redis or a TTL cache | get, set | orchestrator |
| Cost ledger `planner/cost/ledger.py` | `_LEDGERS` | LLM usage, business cost | audit |
| Flight search, weather `planner/tools/` | none | search through a provider; geocode, forecast | Duffel, Aviationstack, Open-Meteo |
| Agents `planner/agents/base.py`, `tool_messages.py` | none | a ReAct loop; read a result and the usage out of its messages | tool server, ledger |
| Policy questions `planner/agents/policy_agent.py` | none | answer a question | semantic cache, retriever |
| Semantic cache `planner/cache/semantic_cache.py` | entries per job level | get, set, invalidate | ingest |
| Ingest, retrieval `planner/rag/` | the Qdrant collection | parse, upsert, query | semantic cache |
| Booking server `planner/mcp_servers/booking_server.py` | its own `_RECORDS` | `book_flight` | gate code, audit store |
| Redaction `planner/audit/redact.py` | none | redact a payload at every depth | audit store |
| Guardrails: groundedness, prompt injection, allow-list | none | pure functions | |
| Tracing `planner/observability/tracing.py` | active traces, one client | start, span, end | Langfuse |
| Web UI `streamlit_app/app.py` | the widgets of one page | plan, ask, grant, reject, book | gateway |

What is hard here:

- **Interleaving.** Every `await` lets other requests, approvers and bookings
  run: between the ruling and the completion of a request, between a cache miss
  and the store that answers it.
- **The language model decides control flow.** Whether a tool is called at all,
  and for which cabin, is up to it; the planner sees fares, an outage, a message
  that does not parse, or nothing, in which case the previous search's result
  stays in the state.
- **Partial failure.** An audit write that fails is printed and forgotten, a
  Redis call that fails is a miss, an agent that raises ends the request. Of a
  provider's failures some are caught and some reach the agent as a text that is
  not JSON.
- **Two writers of one log**, with transactions that overlap and fail and clocks
  that are set back.
- **Time.** A cache entry expires while its answer is on the way.
- **Reruns.** The page's script starts again at every click.
- **Restart.** Records and ledgers are gone, the audit store stays.
- **Another process changes the corpus** while questions are answered from it.
- **Two totals of one cost**, rounded at different places.
- **The reflection loop**, whose termination rests on a counter and on a cabin
  ladder that starts from the fare and not from the request.

What makes each component correct: the *orchestrator* ends every request, after
a bounded number of searches, and lets the policy decide before an approver is
asked; an *agent* returns what its tools found last, and no other agent's
results; the *thresholds* approve nothing over a cap or above a cabin; the *gate*
lets nothing be booked that neither policy nor an approver approved, and one
fare per trip; the *audit trail* tells what the gate decided, only ever grows,
and holds no raw employee id but an approver's; the *ledger* holds the price of
that fare and what the agents used; the *caches* serve nothing old, change what
a request costs and never what it may do.

`PROJECT.json` lists every component, and every hazard at its line with the
properties that cover it.

## 2. The modules

| Module | Models |
|---|---|
| `Thresholds` | `thresholds.py` and the caps of `guardrails.yaml`, as constants |
| `AuditTrail` | `record_event`, which may lose an event, and the fold of `get_trip_audit_trail` |
| `ApprovalGate` | `approval_gate.py`, `booking_tools.py` and the loss of the records |
| `TripPlanner` | `orchestrator/graph.py` over `Thresholds` and `ApprovalGate`, with the route cache, the business cost and the endpoints |
| `TripApproval` | the abstract promise: one fare and one first decision per trip, and no booking but of an approved fare |
| `TripRefinement` | the mapping by which `TripPlanner` implements `TripApproval` |
| `FlightSearch` | `search_flights` of `flight_tools.py`: answers and failures of both providers, the exceptions it catches, the fares it sorts |
| `AgentRun` | a run of the Weather or the Flight Agent: `agents/base.py`, `tool_messages.py`, the tool server, and what `weather_node` and `flight_node` read out of it |
| `AgentPromise` | the abstract promise: searches, then the last one's result or an exception |
| `RouteCache`, `Tracing` | both backends of `route_cache.py` with a clock; the active traces and the client of `tracing.py` |
| `FlightNode` | `flight_node` of concurrent requests in detail, over `RouteCache` and `Tracing` |
| `AuditLog` | the table of event rows under `AuditTrail`: sessions and commits of `store.py`, redaction, and the aggregation of the trail |
| `BookingServer` | the gateway and the booking server, two processes over one `AuditLog` |
| `WebUI` | one browser session of `app.py` |
| `CorpusParser` | `parse_policy_corpus`, line by line, the corpus an upsert makes of its sections, and what is written in a document, stated without the loop |
| `PolicyCorpus` | the Qdrant collection: `rag/ingest.py`, in a process of its own, and the filtered query of `rag/retriever.py` |
| `PolicyQA` | `answer_policy_question` and the semantic cache over `PolicyCorpus` |
| `CostLedger` | the agent cost of `cost/ledger.py` and the sum the audit trail makes of its events |
| `MCTripPlanner`, `MCAgentRun`, `MCFlightNode`, `MCBookingServer`, `MCPolicyQA`, `MCCostLedger` | small instances for TLC |
| `InductionFacts` | induction over the natural numbers, stated of sets and of functions: least elements, and that a function defined by recursion exists |
| `TripPlannerProofs`, `TripRefinementProofs`, `AgentRunProofs`, `FlightNodeProofs`, `BookingServerProofs`, `PolicyQAProofs`, `CostLedgerProofs` | theorems and proofs |

`TripPlanner` is the whole, in which an agent's run is one choice, the cache may
forget anything at any time and the trail is the fold of the events. Three
modules look underneath: `AgentRun` (which implements `AgentPromise`, whose
`Return` of fares, an outage, a text or nothing and whose `Raise` are the ways
`TripPlanner` leaves `searching`), `FlightNode` and `AuditLog` (which implements
`AuditTrail`, the module `TripPlanner` writes its events with).

### How the model corresponds to the code

**Steps.** A step of `TripPlanner` runs from one `await` to the next, because
the coroutines of one event loop interleave only there. `pc[t]` is where
request `t` waits: `weather` and `searching` in an agent, `flight` before the
cache lookup, `storing` at the cache's `set`, `policy` in the Policy Agent,
`completing` between the graph's end and the tail of `run_trip_planning`.

**State.** `request`, `flight`, `reflections` and `status` are the fields of
`TripState` that decide something. `flight` is `NoFare` in each case
`policy_check_node` treats alike (no result, not available, no fares), and
otherwise the cheapest fare, the only one the planner reads. `records` is
`_RECORDS`, `business` the ledger's `business_cost_usd`, `cache` the route
cache. `trail` is what `GET /audit/{trace_id}` answers: each event overwrites
the fields it speaks of, so the fold of the events so far stands for the log.
`granted`, `booked`, `searches` and `lost` are history: nothing reads them but
the properties.

**Data.** A route stands for origin, destination and date. A cabin is one of the
four tiers or `unlisted`, which stands for every other text a request may carry
(`cabin_class` is a plain string in the API). A fare is a price in whole dollars
and a cabin; only comparisons with caps are made of prices.

**Agents.** What an agent finds is the environment's choice among everything
the code can receive: `SearchFindsFares` (any fare, in any cabin: the model
chooses the tool's arguments), `SearchUnavailable`, `SearchUnparsed`,
`SearchNotCalled`, `AgentFails`.

**Approvers and bookings** may act at any time on any trip with a record, in any
order and any number of times, also while its request is running.

**A restart** drops records, ledgers, running requests and, unless Redis holds
it, the route cache. The audit store stays.

### A run of an agent

`AgentRun` is one `ainvoke`. `phase` is `building` while the tool server is
spawned and the constructor checks the allow-list, then alternates between
`model` and `tools`, and ends `returned`, `cut_off` at the recursion limit, or
`raised`. `messages` is the list the loop builds, a message being of a model,
with the tokens it used, or of a tool, with what its text holds. `calls` are the
calls of the last turn; `asked` and `paid` are history. Which tools a turn calls
is the model's choice, tools of other agents and cabins that do not exist
included; the loop answers the former and the server the latter with an error's
text. LangGraph's loop, the MCP adapter and FastMCP are external and modelled
from how `base.py` and `trip_lookup_server.py` use them. Of a result, only what
the nodes read is kept: the cheapest fare, an outage, a text that is no JSON.

`FlightSearch` takes an answer of a provider: a kind of failure, or a list of
offers whose amounts are numbers, missing (which the code reads as 0.0), null or no
number. Reading the second
and third kind raises, and of what is raised `search_flights` catches a list;
`TypeError` and `AttributeError` are not on it. How a result arrives in a message
(`ResultShape`) is a constant: a text, content blocks or the object itself.

### The flight node and its cache

In `FlightNode`, `pc[t]` is `lookup` before `route_cache.get`, `reading` while
Redis' answer is on the way (`reply`, and the time `asked`), `searching` in the
agent, `storing` at the cache's `set`, `policy` until the request completes or
reflects with another cabin. `ledger` and `costBefore` are `agent_cost_usd` and
`cost_before`, whose difference is the saving stored with a result. `entries` is
the cache, by upper-case route and cabin; `now` counts in ticks of the clock,
`TTL` of which an entry lives. The in-process cache answers in one step and
evicts when it is full; a Redis call may fail. `searches`, `served`, `paid` and
`dropped` are history. What the Policy Agent finds is left out: a request leaves
`policy` either way.

### The audit store and its two processes

`AuditLog` has the rows that are committed (`rows`, by id) and, for each
process, the row its session is writing (`open`). A `record_event` is `Insert`
and then `Commit` or `Lose`; it may also fail before (`NotInserted`). With
SQLite one transaction writes at a time; with Postgres ids are given out at the
insert and rows appear in the order of the commits. SQLite uses the id of a row
that was rolled back again; the model goes on counting, which gives the same
order. A payload is a function from the paths of its leaves to their values, so
that `redact_payload` looks at the last key of a path and strips by any.

`BookingServer` adds who writes: the trips of the gateway by the events of their
run (`stage`), and a table of records for each process, of which the booking
server's stays empty, because it imports the gate's code and not its state.

### The web UI

A run of the script goes from `sidebar` to `form`, and after a submission to
`waiting`, `result` and `rest`; `clicked` is the widget that answers True in this
run, `drawn` the widgets the run has reached, `page` what the employee can click
on. How Streamlit reruns a script is external.

### Questions and the corpus

A question (`PolicyQA`) waits only for its agent: embedding, cache and retrieval
block the event loop. So it is `idle`, then either served or `asking`, and while
it asks, its agent may retrieve (`Retrieve`, any number of times; the last
successful call counts), other questions are answered, and the corpus changes.
It ends `answered`, or `dropped` when it was refused, failed or was lost in a
restart. `kept` is history: the questions answered since an ingest last ended and
since the gateway started. `entries` is the
semantic cache, one list per job level, and `Score` an arbitrary similarity of
texts of which only this is assumed: a text is similar to itself. A section's
text is stood for by the number of the ingest it came from (`version`), and what
an agent writes by the sections it mentions. `Retrievals` leaves the ranking to
the vector search: any `TopK` of the sections of the asker's level.

`CorpusParser` turns a document into the sections an ingest upserts, by the
loop's state, line after line. A line is a heading, a `job_levels` comment or
other text (`Lines`); which characters make it one is left out. `CorpusOf` is the
upsert's view of the sections: of several with one id, the last. Its other half
says what a document means without a loop: the levels of a heading are those of
the first comment between it and the next heading, and of several headings with
one id the last counts (`Written`). `Documents` is a constant, any set of
sequences of lines; an ingest parses one of them. `asWritten` is history: the
point each section should have, made by the same upsert from what is written.

An ingest is two steps, the upsert and its end, because questions run in
between; ingests do not overlap. `invalidate_all` does not appear: ingest calls
it on the default cache of its own process, and no code calls it in the gateway.

### Costs

`CostLedger` counts in cents of a micro-dollar: a price in cents per million
tokens is just that per token, so costs are integers and `round(x, 6)` is
division by 100. Of two equally near micro-dollars either may come out
(`Rounded`), since it is the binary fraction that is rounded. `exact`, `runs`
and `ties` are history.

## 3. What is checked

The instances of `MCTripPlanner` take the caps, the cabins and the two retries of
`config/guardrails.yaml`. The fares lie on caps, one dollar above them, and in cabins on both sides of what the level allows.

| Run | Instance | Shows |
|---|---|---|
| `trip` | 1 trip, 12 requests (2 levels, domestic or not, 3 cabins), 4 fares, lost audit events, Redis failures, 1 restart | `TypeOK`, `BookedIsAuthorised`, `DegradedIsUndecided`, `PendingIsLastResort`, `SearchesAreBounded`, `TrailTellsTheOutcome`, `CostIsTheFares`, and that every request ends (`EveryRequestEnds`) |
| `trips` | 2 trips at once, 2 employees with different policies, 2 fares, 1 restart | `AutoApprovedIsInPolicy`, `OneFarePerTrip`, `ImplementsTripApproval`, and that no step, of a request or of others around it, leaves a running request more steps to its end (`EveryStepIsProgress`) |
| `grant_rejected` | as `trip` | violation: a rejected trip is granted |
| `cost_pending` | as `trip` | violation: a cost of a fare nobody approved |
| `candidates_null` | 2 trips | violation: a trail without candidates for a trip that had a fare |
| `agent` | either agent, 3 tool calls in 2 rounds, every kind of answer of every service (a timeout is handled as an HTTP error is), a tool or a cabin it may not ask for | `TypeOK`, `ToolsStayInScope`, `RecordedIsPaid`, `NoInventedFare`, `SignalMeansNotCalled`, `FailureDegrades`, `KeepsPromise` |
| `flights` | 2 requests that spell one route differently, 2 cabins, 1 reflection each, either backend, TTL of 2 ticks, 1 entry, 1 restart | `TypeOK`, `ServedIsFresh`, `OnlyOverlappingSearchesRepeat`, `TracesFollowRequests` |
| `audit_log` | 1 trip, 2 processes, 3 rows, SQLite or Postgres, clocks that may be set back, any number of restarts | `TypeOK`, `RawIdOnlyAsApprover`, `CallSequenceOnlyGrows`, `ImplementsAuditTrail` |
| `decision_lost` | 1 session, 2 trips | violation: a click on grant or reject is never sent |
| `questions` | 3 questions, 2 levels, 2 sections, 2 documents between which a section changes levels, 3 texts of which only neighbours are similar, 2 ingests or an ingest and a restart (`TwoUpheavals`) | `TypeOK`, `AnswerIsForTheAsker`, `ServedAnswersWereGiven`, `PointsAreAsWritten`, and that a repeated question starts no agent until an ingest ends or the gateway starts again (`AskedAgainIsFree`) |
| `stale_answer` | as `questions` | violation: a cached answer of the corpus before an ingest |
| `cost` | 1 trace, 7 agent runs of 4 kinds, at the configured prices, lost events, 1 restart | `TypeOK`, `TotalsAreNearTheCost`, `TotalsAgree`, `CostNeverDecreases` |

**Bounds.** In `TripPlanner`, `MaxRestarts` is the only bound that is not the
code's own. One restart is enough for each hazard of a restart: it forgets
everything in memory, and a second finds nothing the first did not. One trip is enough for the
properties of `trip`: the only state trips share is the route cache, and it
holds nothing but fares, any of which a search may return anyway; the proof
covers any number. Two trips on one route are what it takes for one to be
served what another stored, with different levels so that a ruling carried over
would be seen. Two retries, the configured number, let a fare go down the ladder
and stop both at economy and at the limit. In `trips` the trips are symmetric:
`Requests` are chosen freely for each and no property names one. No run with a
liveness property uses symmetry.

In `agent`, three calls in two rounds allow for a search that is repeated within
a turn and in the next, with a call of another tool before, between or after;
`MaxOffers = 2` stands for the ten offers read, of answers with up to three, so
that a cheaper one lies beyond. `flights` needs a TTL of two ticks for an entry
to be live, then expire, within `MaxTime = 2`, and one entry for a second cabin
to evict the first; the requests are symmetric, and each may send any of
`Requests`. In `audit_log` three rows let an event of each process overlap and a
third follow; a trip's log depends on no other trip's but by the locks of
SQLite, which an event of the same trip meets as well. `MaxRows`, `MaxRounds`, `MaxCalls`, `MaxTime`, `MaxTrips` and
`MaxRestarts` are the bounds that are not the code's own (`MaxRounds` is
LangGraph's recursion limit, made small).

Three questions are what it takes for an answer to be given, served, and served
on from there; the three texts are then similar in pairs and not all alike. Two
ingests replace a corpus once, and `TopK = 1` of two sections makes the choice
of the search matter. An ingest and a restart are each enough to end what a
repetition may count on; `TwoUpheavals` leaves out only the states after two
ingests and a restart, which the proof covers. Questions are symmetric: no
property names one. Seven agent runs are what one trip may cost: one of the
Weather Agent and three each of the Flight and Policy Agents
(`SearchesAreBounded`); the token counts give whole and half micro-dollars, and
more cached tokens than input.

**Fairness.** `WF_vars(PlannerStep(t))`: a request that can take a step takes
one. The event loop runs a coroutine whose await is over, and awaits end:
providers are called with timeouts (`flight_tools.py:76,133`,
`weather_tools.py:39`), model calls with the client's own, and an answer of any
kind, an exception included, is a step. Nothing is assumed of employees,
approvers, restarts or the expiry of cache entries, and no particular answer of
an agent is assumed. Deadlock is not checked: a finite set of requests, questions
or runs ends.

**Findings.** Each violation run shows a trace of what the code does and a
document or a comment does not say.

1. `docs/LLD.md:159` gives granting "404 if no pending record". The code refuses
   only a trip without any record: a rejected one is granted, and then booked.
2. `docs/LLD.md:185-187` says the business cost comes "from the approved fare's
   `price_usd`". The code also records it for a pending fare, and a rejection
   leaves it.
3. `docs/runbook_audit_trace.md:86` explains a null `candidate_fares` by an
   unavailable provider. A route-cache hit has the same effect: it returns before
   the event that carries the fares.
4. `planner/cache/semantic_cache.py:4-6` and `docs/LLD.md:201-202` say the
   semantic cache is invalidated by every ingest. Every ingest is a process of its
   own (`scripts/seed_policy_corpus.py`, `python -m trip_planner.rag.ingest`) and
   clears its own cache; the gateway serves the old answers until it restarts.
5. `streamlit_app/app.py:134` puts "Grant/reject below" over two buttons. They
   are drawn inside `if submitted:`, and a click on one reruns the script with
   the form not submitted: the run ends before it reaches the button, and the
   decision is not sent. The booking button has the same fate.

Two more disagreements can be read off the model, and no run is spent on them.
`planner/tools/flight_tools.py:178-180` and
`planner/mcp_servers/trip_lookup_server.py:66` say that `search_flights` never
raises: an offer whose amount is null, or data that is null, raises what line 194
does not catch (`FlightSearch`), the graph gets a text that is no JSON, and the
trip ends without fares and without being reported as degraded. And
`docs/runbook_audit_trace.md:88` explains an agent cost of 0 by the route cache: an
agent that raises after calls of its model leaves 0 as well, since `ainvoke`
records usage once the run has returned (`AgentRun`).

**Mutants.** Each checked property comes with a mutated definition, such as a
retry that is not counted or a gate that books any record, that TLC finds to
violate it. They stand before the definition they mutate, marked `Mutant:`.

## 4. What is proved

`TripPlannerProofs` and `TripRefinementProofs` hold for any finite or infinite
sets of trips, requests, routes and fares, any caps, any number of retries and
restarts, under the assumptions `PolicyAssumption` and `PlannerAssumption` (the
constants have their types; the null fare is no fare; the null price is no
price). The other modules' assumptions likewise give the constants' types, and
that a text is similar to itself.

- `InductionFacts`: that a set of numbers has a least element, from the
  well-foundedness the library proves of `<`; induction up to a bound, stated of a
  set (`UpTo`); that a function defined by recursion over `0..n` exists
  (`RecursionExists`). The library's own induction theorems take the statement as
  an operator, which the provers cannot instantiate; of a set, they can.
- `TripPlannerProofs`: a retry asks for a cabin strictly below the fare's
  (`RetryLowersTheCabin`); the ruling is monotone in price and cabin
  (`RulingIsMonotone`); every invariant the runs check, and
  `Spec => EveryStepIsProgress`.
- `TripRefinementProofs`: `Spec => ImplementsTripApproval`.
- `PolicyQAProofs`: every property of `questions`, for any levels, sections (a
  finite set), documents, texts and similarities, any number of questions, ingests
  and restarts; and of the parser alone, `ParserIsFaithful`.
- `CostLedgerProofs`: every property of `cost`, for any natural prices and token
  counts and any number of agent runs.
- `AgentRunProofs`: every property of `agent`, which includes
  `Spec => KeepsPromise`. For any served tools, answers, result shapes, numbers of
  calls and rounds, and any number of offers.
- `FlightNodeProofs`: every property of `flights`, for any requests, routes,
  cabins, costs, time to live, cache size, retries and restarts.
- `BookingServerProofs`: every property of `audit_log`, which includes
  `Spec => ImplementsAuditTrail`. For any trips, employees, clocks and numbers of
  rows, either database, and any fares, of which there is at least one.

**The argument.** The invariants are not inductive one by one. `IInv` is the
conjunction of

- `TypeOK`;
- `GateInv`: a trip that has not been ruled on has no record and no booking; an
  auto-approved record is in policy, a pending one is not and no retry was left;
  an approved one has been granted; what is booked is authorised,
  and is the record's fare while there is a record;
- `LoopInv`: searches are at most reflections and one more, strictly fewer
  before a search; a fare is at hand where one is used; a degraded request has
  no fare and is past its ruling without a record;
- `TrailInv`: of a trip none of whose events was lost, the trail's outcome and
  fare are the record's, and what was booked is the trail's fare; the cost is
  the record's price and, once complete, the trail's.

That a trip has one fare needs the first conjunct of `GateInv`: only because a
record is written when no record exists, and a request that is ruled on never
returns to the loop, does no write replace a fare that was booked. That a restart
is harmless needs it too: a lost request never runs again, so a trip whose record
was dropped gets no second one. Each step touches one trip (`OtherTripsStay`),
so the proof of a step is about that trip, action by action; `Restart` and
`CacheExpire` are apart. The job level, the direction and the route of a request never
change, only its cabin, which the ruling does not read: hence `Allowed` is
constant and the refinement maps each ruling to a decision within it.

**Questions.** What a cache serves is safe because of what was stored, so `IInv`
of `PolicyQAProofs` adds to the properties that each entry is the answer of a
question that was not itself served from the cache, with the same text and level
(`EntryInv`); that what a running agent has retrieved applied to its asker
(`RetrievedInv`, which no later ingest touches: a clause carries the levels it
had); that an open question has no answer and no hit (`OpenInv`); and that a
question in `kept`, answered since the last restart and the last end of an ingest,
finds an entry at least as similar as the threshold (`KeptInv`), which gives
`AskedAgainIsFree`.

**The corpus.** `ParserIsFaithful` says of every document, of any length, that
the loop and the upsert give what is written: `CorpusOf(ParsePolicyCorpus(lines)) =
Written(lines)`. The loop is a function defined by recursion over the lines.
`RecursionExists` gives one with the states the loop has, `ParseExists` that the
parser is that one, and `UpTo` is the induction. What holds after line i
(`HasRead`) is that the loop is at the last heading up to i, has the levels that
the lines up to i give it, and has collected exactly what is written before that
heading. A heading collects one section more (`FlushCompletes`, and
`OneMoreSection` for what an upsert makes of it), and a comment counts only if it
is the first (`NextLine`), which is where it matters that a comment names at
least one level: the code tells that none was read by its list being empty. That
a heading starts without levels is the case `i` of `HasRead` at the heading. With
it the invariant has `PointsAreAsWritten`, and that no point is of an ingest to
come, so that an upsert leaves the points of earlier ingests as they were.

**Costs.** A total and an event differ in what they add by a micro-dollar at
most, and by nothing unless the call costs a half (`TotalsMoveTogether`); the
rest is induction over the runs, with `FreshInv` for the first one.

**A run of an agent.** What holds is that reading a tool's result out of the
messages gives what its last call was answered, whatever else is in them
(`Agrees`): a model's message holds no result (`ModelMessageIsNoResult`), and the
answers of a turn either name the tool, and then the last of them is the one
read, or leave what was read before (`AnswersAreRead`). Every answer parses to
something (`TextIsKnown`), so no later call is skipped for an earlier one. The
rest follows from what one search returns (`SearchIsHonest`,
`FailureIsUnavailable`): `NoInventedFare`, `FailureDegrades`, the signal of the
Weather Agent, and the refinement, since a turn is a search of `AgentPromise` or
none. What `_record_cost` records is a sum over the messages, a function defined
by recursion: `UsageAddsUp` shows that it is additive, so that the answers of a
turn, which cost nothing, leave it where it was and a reply adds its own usage.

**The flight node.** A hit is fresh because of what the entry was made from:
`EntriesWereFound` ties each entry to a search, `RepliesWereFound` each answer
that is on the way to an entry that was live when it was read, and `RunsAddUp`
keeps the difference of the two ledger values equal to the run's cost while
other requests write theirs. That searches repeat only where they overlap takes
the converse: a result that was not dropped is an entry until its time
(`ResultsAreKept`), hence whoever searches found none (`MissesAreReal`).

**The audit store.** Payloads hold raw ids under two keys at most (`Plain`), of
which redaction knows the one and `approved_by` is the other
(`RedactionCleans`); rows and open sessions hold nothing else (`LogClean`).

A trail is read by selecting a trip's rows and ordering them by id (`GetEvents`),
and the aggregation goes over them once (`Gateways` and the trail's fields): both
are functions defined by recursion over the ids. Reading the table with a row
more therefore gives the events with that row inserted among them, at its id
(`OneInserted` of `InductionFacts`). A commit is at the end only for some writers:
with SQLite one transaction is open at a time and nothing has a higher id; with
Postgres the other process may have committed above an id the gateway was given
earlier. `OrderInv` says what it can have committed there: nothing but refused
bookings, since the booking server's table of records stays empty (`TripType`,
`DecidedInv`) and the gateway writes one row at a time. A refused booking sets
none of the fields of a trail. So the calls of the gateway only grow at the end
(`TrailOnlyGrows`), and a commit of the gateway changes the aggregated trail as
`AuditTrail` says, one of the server not at all (`TableImplementsTrail`).

*That requests end.* `StepsLeft` is the variant of the planner's loop: the nodes
still ahead of a request, and four for each reflection it has left, at most
`6 + 4 * MaxRetries` in all. Each `PlannerStep` lowers it, whatever the agents
and the cache answer, the edge back to `flight_search` because it counts a
reflection (`PlannerProgress`); a restart ends the request, and every other step
leaves it as it was (`RequestsOnlyProgress`). What is left of termination is that
a running request can take a step and that one it can take is taken, which is
`Fairness`.

**Not proved, only checked:** `EveryRequestEnds`, since `ENABLED` and liveness
under fairness are beyond the prover: that a running request never gets stuck is
what its run adds to `RequestsOnlyProgress`. The properties of the violation runs are false of the code.

## 5. What is not modelled

- **The tool allow-list wrapper** `guard_tools` (`guardrails/allowlist.py`): no
  code of the program calls it, only its tests. The allow-list the agents are
  built with is in `AgentRun`.
- **Prompt injection** and **groundedness**: that a request may be refused, and
  the count of cited sections against the minimum, are in `TripPlanner` and
  `PolicyQA`. The patterns are data, and how a section's id is matched in a text
  is a matter of characters: `PolicyQA` lets an answer mention any sections.
  Reading the code shows what that covers: the comment of `groundedness.py:27`
  has ids matched "as a whole token", but the pattern has no boundary before the
  id, so that section 4 is cited by "24 hours".
- **The mock personas and the rate limit** of the gateway: a table and a library.
- **`policy_clauses_applied`** of the audit trail: `get_trip_audit_trail`
  returns it (`store.py:104`) and no code fills it.
- **Spans** of a trace, logging and wording: output that nothing reads back.
- **Embeddings, the creation of the collection, reading YAML**: remote services
  and I/O without a state of the program's own.
- **`scripts/run_policy_eval.py`**: an evaluation against live services.

What would come next: the matching of section ids in answers
(`groundedness.py`) against a definition on characters; that an approved trip is
refused by the booking server, as a property of its own; and a promise on what
the page shows after a decision, once the page sends it.
