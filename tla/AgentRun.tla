------------------------------- MODULE AgentRun -------------------------------
(***************************************************************************)
(* One run of the Weather or the Flight Agent inside its node: the ReAct   *)
(* loop of agents/base.py, the tools of mcp_servers/trip_lookup_server.py, *)
(* and how orchestrator/graph.py reads a result and the cost out of the    *)
(* messages.  Which tools a turn calls is the model's choice; the loop     *)
(* itself and the adapter that turns a tool's answer into a message are    *)
(* the libraries'.                                                         *)
(***************************************************************************)
EXTENDS FlightSearch

CONSTANTS Replies,       \* tool -> what the service behind it may answer
          ResultShape,   \* how a result arrives in a message, one of Shapes
          Served,        \* the names of the tools the server lists
          AskedCabins,   \* the cabins a model may ask search_flights for
          TokenCounts,   \* the usage a model call may report
          MaxRounds,     \* bound: rounds of tool calls, LangGraph's recursion limit
          MaxCalls       \* bound: tool calls of a run

VARIABLES agent,      \* which agent runs
          phase,      \* where the run is, or how it ended
          tools,      \* the tools it was built with
          messages,   \* result["messages"]
          calls,      \* the tool calls of the model's last turn
          rounds,     \* how many turns have called tools
          ledger,     \* the tokens record_llm_usage was given for this run
          paid,       \* history: the tokens the model calls of this run used
          asked,      \* history: each tool call and its service's answer, in call order
          update      \* what the node returns to the graph

run == <<messages, calls, rounds, paid, asked>>
vars == <<agent, phase, tools, run, ledger, update>>

ToolNames == {"geocode", "get_weather", "search_flights"}
AllowedTools == [weather |-> {"geocode", "get_weather"}, flight |-> {"search_flights"}]

\* The argument that matters is the cabin search_flights is called for.
Calls == [tool : ToolNames \ {"search_flights"}, cabin : {"none"}]
         \cup [tool : {"search_flights"}, cabin : AskedCabins]
Answers ==
  {a \in [kind : Kinds \cup {"found", "not_found", "not_asked"}, offers : Seq(Nat \cup {Missing, Null, Garbled})] :
     a.kind # "offers" => a.offers = <<>>}

\* No service is reached: the call is refused before.
NotAsked == [kind |-> "not_asked", offers |-> <<>>]

\* A text, a list of content blocks with one, or the result itself.
Shapes == {"string", "blocks", "object"}

ASSUME RunAssumption ==
  /\ Replies \in [ToolNames -> SUBSET Answers]
  /\ ResultShape \in Shapes
  /\ Served \subseteq ToolNames
  /\ AskedCabins \subseteq CabinClass \cup {"unlisted"}
  /\ TokenCounts \subseteq Nat
  /\ MaxRounds \in Nat
  /\ MaxCalls \in Nat

-------------------------------------------------------------------------------
(* Results, as what is found in them; of a fare search, with its cheapest. *)

Nothing == [kind |-> "nothing", cheapest |-> NoFare]
RawText == [kind |-> "raw", cheapest |-> NoFare]
Looked(what) == [kind |-> what, cheapest |-> NoFare]

\* The text of an exception, in place of a result's JSON.
ErrorText == [kind |-> "error", cheapest |-> NoFare]

\* geocode and get_weather let every failure out, as an exception.
LookUp(call, answer) ==
  IF answer.kind = "found" THEN Looked(call.tool) ELSE ErrorText

\* The loop refuses a tool the agent does not have; the server checks the
\* arguments against the tool's annotations before it calls the tool.
Accepted(call) ==
  call.tool \in tools /\ (call.tool = "search_flights" => call.cabin \in CabinClass)

\* Of whatever a tool raises, its server answers the text.
TextOf(call, answer) ==
  IF answer = NotAsked THEN ErrorText
  ELSE IF call.tool # "search_flights" THEN LookUp(call, answer)
  ELSE IF SearchFlights(answer, call.cabin) = Raised THEN ErrorText
  ELSE SearchFlights(answer, call.cabin)

Ai(tokens) == [type |-> "ai", tokens |-> tokens]
ToolMessage(tool, text) ==
  [type |-> "tool", name |-> tool, text |-> text,
   shape |-> IF text = ErrorText THEN "string" ELSE ResultShape]

\* Mutant: a list of content blocks is not looked into.
ParseStringsOnly(message) ==
  IF message.shape # "string" THEN Nothing
  ELSE IF message.text = ErrorText THEN RawText ELSE message.text

\* Mutant: a text that is no JSON is handed on as it is.
ParseKeepingText(message) ==
  IF message.shape \notin Shapes THEN Nothing ELSE message.text

\* parse_tool_message_content: a text that is no JSON is kept as {"raw": text}, an
\* object handed back as it is.  Any other content, and a list without a block, is
\* no result; a tool of these servers returns neither.
ParseToolMessage(message) ==
  IF message.shape \notin Shapes THEN Nothing
  ELSE IF message.text = ErrorText THEN RawText ELSE message.text

\* The messages that hold a result of the tool.
ResultsOf(ms, tool) ==
  {i \in DOMAIN ms : ms[i].type = "tool" /\ ms[i].name = tool /\ ParseToolMessage(ms[i]) # Nothing}

\* Mutant: the messages are read from the first to the last.
ExtractFirstResult(ms, tool) ==
  IF ResultsOf(ms, tool) = {} THEN Nothing
  ELSE ParseToolMessage(ms[CHOOSE i \in ResultsOf(ms, tool) : \A j \in ResultsOf(ms, tool) : i <= j])

\* _extract_tool_result reads the messages backwards.
ExtractToolResult(ms, tool) ==
  IF ResultsOf(ms, tool) = {} THEN Nothing
  ELSE ParseToolMessage(ms[CHOOSE i \in ResultsOf(ms, tool) : \A j \in ResultsOf(ms, tool) : j <= i])

\* Mutant: the usage of the answer alone is recorded.
UsageOfAnswer(ms) == ms[Len(ms)].tokens

\* The tokens _record_cost adds up.
UsageOf(ms) ==
  LET sum[i \in 0..Len(ms)] ==
        IF i = 0 THEN 0 ELSE sum[i - 1] + (IF ms[i].type = "ai" THEN ms[i].tokens ELSE 0)
  IN  sum[Len(ms)]

NoUpdate == [flight_search |-> Nothing, status |-> "ok", geocode |-> Nothing,
             weather |-> Nothing, not_called |-> FALSE]

\* What weather_node, and flight_node, make of a run's messages.
NodeUpdate(ms) ==
  IF agent = "weather"
  THEN [NoUpdate EXCEPT !.geocode = ExtractToolResult(ms, "geocode"),
                        !.weather = ExtractToolResult(ms, "get_weather"),
                        !.not_called = (ExtractToolResult(ms, "get_weather") = Nothing)]
  ELSE [NoUpdate EXCEPT !.flight_search = ExtractToolResult(ms, "search_flights"),
                        !.status = IF ExtractToolResult(ms, "search_flights") = Unavailable
                                   THEN "degraded" ELSE "ok"]

-------------------------------------------------------------------------------
Init ==
  /\ agent \in {"weather", "flight"}
  /\ phase = "building"
  /\ tools = {}
  /\ messages = <<>>
  /\ calls = <<>>
  /\ rounds = 0
  /\ ledger = 0
  /\ paid = 0
  /\ asked = <<>>
  /\ update = NoUpdate

Move(from, to) == phase = from /\ phase' = to

\* Mutant: the server's list is handed on as it is.
LoadEveryTool(name) == Served

\* load_tools: the tools the server lists, if they are the agent's.
LoadTools(name) == Served \cap AllowedTools[name]

\* The server is spawned, and the constructor checks what it is given.
Build ==
  /\ Move("building", IF LoadTools(agent) \subseteq AllowedTools[agent] THEN "model" ELSE "refused")
  /\ tools' = LoadTools(agent)
  /\ UNCHANGED <<agent, run, ledger, update>>

\* The server does not start, the model does not answer, or a tool's error is
\* let out of the loop: the exception leaves the node, and nothing is recorded.
Raise ==
  /\ \/ Move("building", "raised")
     \/ Move("model", "raised")
     \/ Move("tools", "raised")
  /\ UNCHANGED <<agent, tools, run, ledger, update>>

ModelCallsTools(cs, tokens) ==
  /\ Move("model", "tools")
  /\ rounds < MaxRounds /\ Len(asked) + Len(cs) <= MaxCalls
  /\ rounds' = rounds + 1
  /\ messages' = Append(messages, Ai(tokens))
  /\ calls' = cs
  /\ paid' = paid + tokens
  /\ UNCHANGED <<agent, tools, ledger, asked, update>>

\* The calls of a turn run side by side; their messages come in call order.
ToolsAnswer(answers) ==
  /\ Move("tools", "model")
  /\ messages' = messages \o
       [i \in DOMAIN calls |-> ToolMessage(calls[i].tool, TextOf(calls[i], answers[i]))]
  /\ asked' = asked \o [i \in DOMAIN calls |-> [call |-> calls[i], answer |-> answers[i]]]
  /\ calls' = <<>>
  /\ UNCHANGED <<agent, tools, rounds, ledger, paid, update>>

\* The rest of ainvoke and of the node: no await is left but the route cache's.
Return(ms) ==
  /\ messages' = ms
  /\ ledger' = ledger + UsageOf(ms)
  /\ update' = NodeUpdate(ms)
  /\ UNCHANGED <<agent, tools, calls, rounds, asked>>

ModelAnswers(tokens) ==
  /\ Move("model", "returned")
  /\ paid' = paid + tokens
  /\ Return(Append(messages, Ai(tokens)))

\* Out of steps: the loop answers in the model's place, and the usage of the
\* turn that asked for more tools is gone with that turn's message.
RunOutOfSteps(tokens) ==
  /\ Move("model", "cut_off")
  /\ rounds = MaxRounds
  /\ paid' = paid + tokens
  /\ Return(Append(messages, Ai(0)))

Turns == UNION {[1..n -> Calls] : n \in 1..MaxCalls}

AnswersTo(cs) ==
  {as \in [DOMAIN cs -> {NotAsked} \cup UNION {Replies[tool] : tool \in tools}] :
     \A i \in DOMAIN cs : as[i] \in IF Accepted(cs[i]) THEN Replies[cs[i].tool] ELSE {NotAsked}}

Next ==
  \/ Build \/ Raise
  \/ \E tokens \in TokenCounts : \/ \E cs \in Turns : ModelCallsTools(cs, tokens)
                                 \/ ModelAnswers(tokens)
                                 \/ RunOutOfSteps(tokens)
  \/ \E as \in AnswersTo(calls) : ToolsAnswer(as)

Spec == Init /\ [][Next]_vars
-------------------------------------------------------------------------------
(* Properties. *)

Results == {Nothing, RawText, Unavailable, Looked("geocode"), Looked("get_weather")}
           \cup [kind : {"fares"}, cheapest : [price : Nat, cabin : CabinClass]]

Messages ==
  [type : {"ai"}, tokens : Nat]
  \cup [type : {"tool"}, name : ToolNames, shape : Shapes, text : Results \cup {ErrorText}]

\* Every variable has the type the code gives it.
TypeOK ==
  /\ agent \in {"weather", "flight"}
  /\ phase \in {"building", "refused", "raised", "model", "tools", "returned", "cut_off"}
  /\ tools \subseteq ToolNames
  /\ messages \in Seq(Messages)
  /\ calls \in Seq(Calls)
  /\ rounds \in 0..MaxRounds
  /\ ledger \in Nat
  /\ paid \in Nat
  /\ asked \in Seq([call : Calls, answer : Answers])
  /\ update \in [flight_search : Results, status : {"ok", "degraded"}, geocode : Results,
                 weather : Results, not_called : BOOLEAN]

Returned == phase \in {"returned", "cut_off"}

\* The rule of agents/base.py that a tool set is allow-listed: the agents of
\* the planner are built with what their server lists, the constructor never
\* has to refuse, and no result of another agent's tool gets into the messages.
ToolsStayInScope ==
  /\ phase # "refused"
  /\ \A i \in DOMAIN messages :
       messages[i].type = "tool" /\ messages[i].text # ErrorText
         => messages[i].name \in AllowedTools[agent]

\* What the ledger is given for a run is what the run's model calls used, all
\* its turns together: nothing is counted twice, and what is missing is a run
\* that raised or the turn the loop answered itself (_record_cost).
RecordedIsPaid ==
  /\ ledger <= paid
  /\ phase = "returned" => ledger = paid
  /\ phase \notin {"returned", "cut_off"} => ledger = 0

\* A fare the planner goes on to decide about is one the provider offered in
\* this very run, in the cabin the model asked for, and the cheapest of the
\* offers read: errors, other tools' results and the order of the calls never
\* make one up; an offer without an amount counts as 0.0, as the code reads it
\* (flight_node, search_flights).
NoInventedFare ==
  update.flight_search.kind = "fares" =>
    \E i \in DOMAIN asked :
      LET offers == FaresOf(asked[i].answer, asked[i].call.cabin)
          fare == update.flight_search.cheapest
      IN  /\ asked[i].call.tool = "search_flights"
          /\ fare \in {offers[k] : k \in DOMAIN offers}
          /\ \A k \in DOMAIN offers : fare.price <= offers[k].price

\* weather_tool_not_called tells what its name says: it is recorded when no
\* forecast was asked for, and not when one was and failed (weather_node).
SignalMeansNotCalled ==
  Returned /\ agent = "weather" =>
    (update.not_called <=> \A i \in DOMAIN asked : asked[i].call.tool # "get_weather")

\* The searches the Flight Agent's tool was really called for.
Searched == {i \in DOMAIN asked : agent = "flight" /\ asked[i].call.tool = "search_flights"}
LastSearch == asked[CHOOSE i \in Searched : \A j \in Searched : j <= i]

Failures == {"no_key", "error_body", "no_json", "http_error", "timeout"}

\* "Never raises -- on any provider failure (timeout, missing key, quota
\* exhausted, HTTP error) returns available: False": when the last search met
\* one, the request is degraded, whatever earlier searches found (search_flights).
FailureDegrades ==
  Returned /\ Searched # {} /\ LastSearch.answer.kind \in Failures => update.status = "degraded"

\* The Flight Agent as the planner sees it: a search after another, and in the
\* end the last one's result.
LastAnswer ==
  IF Searched = {} THEN Nothing
  ELSE LET text == TextOf(LastSearch.call, LastSearch.answer)
       IN  IF text = ErrorText THEN RawText ELSE text
Outcome ==
  CASE Returned -> update.flight_search
    [] phase \in {"refused", "raised"} -> Raised
    [] OTHER -> [Nothing EXCEPT !.kind = "running"]

Promise == INSTANCE AgentPromise WITH last <- LastAnswer, outcome <- Outcome, Fares <- [price : Nat, cabin : CabinClass]

\* Whatever the model calls and the services answer, a run keeps the promise.
KeepsPromise == Promise!Spec
===============================================================================
