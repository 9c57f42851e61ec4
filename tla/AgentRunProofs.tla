---------------------------- MODULE AgentRunProofs ----------------------------
(***************************************************************************)
(* A run of an agent, for every set of served tools, every reply and every *)
(* bound: it stays with its own tools, what it returns is the last result  *)
(* of the tool, and it implements AgentPromise.  The argument: whatever is *)
(* in the messages, reading a tool's result out of them gives what the     *)
(* last call of that tool was answered (Agrees), and adding up their usage *)
(* gives what the model calls so far used (UsageInv).                      *)
(***************************************************************************)
EXTENDS AgentRun, InductionFacts

-------------------------------------------------------------------------------
(* One search. *)

\* FirstOf names an index, the least of those it is given.
LEMMA FirstOfIsFirst ==
  ASSUME NEW S \in SUBSET Nat, S # {}
  PROVE  FirstOf(S) \in S /\ \A j \in S : FirstOf(S) <= j
BY LeastExists DEF FirstOf

\* The cheapest of some fares is one of them, and none is cheaper.
LEMMA CheapestIsCheapest ==
  ASSUME NEW n \in Nat, NEW fares \in [1..n -> [price : Nat, cabin : CabinClass]], n # 0
  PROVE  \E k \in DOMAIN fares :
           Cheapest(fares) = fares[k] /\ \A j \in DOMAIN fares : fares[k].price <= fares[j].price
<1> DEFINE Prices == {fares[i].price : i \in 1..n}
           Least == {i \in DOMAIN fares : \A j \in DOMAIN fares : fares[i].price <= fares[j].price}
<1>1. \A i \in 1..n : fares[i].price \in Nat
  OBVIOUS
<1>2. PICK p \in Prices : \A q \in Prices : p <= q
  <2>1. Prices \in SUBSET Nat /\ Prices # {}
    <3>1. 1 \in 1..n
      OBVIOUS
    <3> QED
      BY <1>1, <3>1
  <2> HIDE DEF Prices
  <2> QED
    BY <2>1, LeastExists
<1>3. PICK i \in 1..n : p = fares[i].price
  OBVIOUS
<1>4. i \in Least
  BY <1>2, <1>3
<1>5. FirstOf(Least) \in Least
  <2>1. Least \in SUBSET Nat
    OBVIOUS
  <2> HIDE DEF Least
  <2> QED
    BY <1>4, <2>1, FirstOfIsFirst
<1>6. Cheapest(fares) = fares[FirstOf(Least)]
  BY DEF Cheapest
<1> QED
  BY <1>5, <1>6

\* The offers that are read are some first offers of the answer.
LEMMA OffersRead ==
  ASSUME NEW reply \in Answers
  PROVE  \E n \in Nat : Read(reply) \in [1..n -> Nat \cup {Missing, Null, Garbled}]
<1> DEFINE Amounts == Nat \cup {Missing, Null, Garbled}
           n == IF Len(reply.offers) < MaxOffers THEN Len(reply.offers) ELSE MaxOffers
<1>1. reply.offers \in Seq(Amounts)
  BY DEF Answers
<1> HIDE DEF Amounts
<1>2. n \in Nat /\ n <= Len(reply.offers)
  BY <1>1, SearchAssumption, LenProperties
<1>3. \A i \in 1..n : reply.offers[i] \in Amounts
  BY <1>1, <1>2, ElementOfSeq, LenProperties
<1>4. SubSeq(reply.offers, 1, n) \in Seq(Amounts)
  BY <1>2, <1>3, SubSeqProperties
<1>5. Read(reply) \in Seq(Amounts)
  BY <1>4 DEF Read
<1> QED
  BY <1>5, LenProperties DEF Amounts

\* A search that is neither refused nor unavailable found the cheapest of what
\* the provider offered, in the cabin asked for.
LEMMA SearchIsHonest ==
  ASSUME NEW reply \in Answers, NEW cabin \in CabinClass
  PROVE  \/ SearchFlights(reply, cabin) \in {Unavailable, Raised}
         \/ \E k \in DOMAIN FaresOf(reply, cabin) :
              /\ SearchFlights(reply, cabin) = Found(FaresOf(reply, cabin)[k])
              /\ FaresOf(reply, cabin)[k] \in [price : Nat, cabin : CabinClass]
              /\ \A j \in DOMAIN FaresOf(reply, cabin) :
                   FaresOf(reply, cabin)[k].price <= FaresOf(reply, cabin)[j].price
<1>1. CASE SearchFlights(reply, cabin) \in {Unavailable, Raised}
  BY <1>1
<1>2. CASE SearchFlights(reply, cabin) \notin {Unavailable, Raised}
  <2> DEFINE fares == FaresOf(reply, cabin)
  <2>1. /\ Provider \in Providers
        /\ ErrorOf(reply) = "none"
        /\ fares # <<>>
        /\ SearchFlights(reply, cabin) = Found(Cheapest(fares))
    BY <1>2 DEF SearchFlights, Caught
  <2>2. PICK n \in Nat : Read(reply) \in [1..n -> Nat \cup {Missing, Null, Garbled}]
    BY OffersRead
  <2>3. Unreadable(reply) = {} \/ Provider = "aviationstack"
    <3>1. reply.kind = "offers" \/ Unreadable(reply) = {}
      <4>1. CASE reply.kind # "offers"
        <5>1. reply.offers = <<>>
          BY <4>1 DEF Answers
        <5>2. Read(reply) = <<>>
          BY <5>1, SearchAssumption, EmptySeq, SubSeqEmpty DEF Read
        <5> QED
          BY <5>2 DEF Unreadable
      <4> QED
        BY <4>1
    <3> QED
      BY <2>1, <3>1 DEF ErrorOf
  <2>4. ASSUME NEW i \in 1..n
        PROVE  PriceUsd(Read(reply)[i], cabin) \in Nat
    <3>1. CASE Provider = "aviationstack"
      BY <3>1 DEF PriceUsd, EstimatedBaseFare, CabinClass
    <3>2. CASE Provider # "aviationstack"
      <4>1. Provider = "duffel"
        BY <2>1, <3>2 DEF Providers
      <4>2. Read(reply)[i] \notin {Null, Garbled}
        BY <2>2, <2>3, <4>1 DEF Unreadable
      <4> QED
        BY <2>2, <3>2, <4>2 DEF PriceUsd
    <3> QED
      BY <3>1, <3>2
  <2>5. fares \in [1..n -> [price : Nat, cabin : CabinClass]]
    BY <2>2, <2>4 DEF FaresOf
  <2>6. n # 0
    <3>1. SUFFICES ASSUME n = 0 PROVE fares = <<>>
      BY <2>1
    <3>2. DOMAIN fares = {}
      BY <2>5, <3>1
    <3> QED
      BY <2>2, <3>1, <3>2 DEF FaresOf
  <2> HIDE DEF fares
  <2>7. PICK k \in DOMAIN fares :
          Cheapest(fares) = fares[k] /\ \A j \in DOMAIN fares : fares[k].price <= fares[j].price
    BY <2>5, <2>6, CheapestIsCheapest
  <2>8. fares[k] \in [price : Nat, cabin : CabinClass]
    BY <2>5, <2>7
  <2> QED
    BY <2>1, <2>7, <2>8 DEF fares
<1> QED
  BY <1>1, <1>2

-------------------------------------------------------------------------------
(* What is read out of the messages. *)

Entries == [call : Calls, answer : Answers]
Texts == Results \cup {ErrorText}

\* What _extract_tool_result makes of the message a call was answered with.
ResultOf(entry) ==
  LET text == TextOf(entry.call, entry.answer) IN IF text = ErrorText THEN RawText ELSE text

CallsOf(entries, tool) == {i \in DOMAIN entries : entries[i].call.tool = tool}
LastIn(indices) == CHOOSE i \in indices : \A j \in indices : j <= i

LastResult(entries, tool) ==
  IF CallsOf(entries, tool) = {} THEN Nothing
  ELSE ResultOf(entries[LastIn(CallsOf(entries, tool))])

\* Reading a tool's result out of the messages gives what its last call was
\* answered.
Agrees(tool) == ExtractToolResult(messages, tool) = LastResult(asked, tool)

\* A call that reached its service was of a tool of the agent's, and a search
\* among them for a cabin there is.
Asked(entry) ==
  entry.answer # NotAsked =>
    /\ entry.call.tool \in AllowedTools[agent]
    /\ entry.call.tool = "search_flights" => entry.call.cabin \in CabinClass

AllAsked == \A i \in DOMAIN asked : Asked(asked[i])

Types ==
  /\ agent \in {"weather", "flight"}
  /\ phase \in {"building", "raised", "model", "tools", "returned", "cut_off"}
  /\ tools \subseteq AllowedTools[agent]
  /\ messages \in Seq(Messages)
  /\ calls \in Seq(Calls)
  /\ asked \in Seq(Entries)

InScope(ms) ==
  \A i \in DOMAIN ms : ms[i].type = "tool" /\ ms[i].text # ErrorText
                         => ms[i].name \in AllowedTools[agent]

\* The inductive invariant: every tool's result is read as its last call left
\* it, and the node's update is made of nothing else.
IInv ==
  /\ Types
  /\ AllAsked
  /\ \A tool \in ToolNames : Agrees(tool)
  /\ InScope(messages)
  /\ update = IF Returned THEN NodeUpdate(messages) ELSE NoUpdate

\* The greatest of some positions of a sequence is one of them.
LEMMA LastInIsLast ==
  ASSUME NEW n \in Nat, NEW S \in SUBSET (1..n), S # {}
  PROVE  LastIn(S) \in S /\ \A j \in S : j <= LastIn(S)
BY GreatestExists DEF LastIn

\* There is only one such position.
LEMMA LastInIsUnique ==
  ASSUME NEW n \in Nat, NEW S \in SUBSET (1..n), NEW i \in S, \A j \in S : j <= i
  PROVE  LastIn(S) = i
<1>1. LastIn(S) \in S /\ i <= LastIn(S)
  BY LastInIsLast
<1>2. LastIn(S) <= i
  BY <1>1
<1>3. LastIn(S) \in 1..n /\ i \in 1..n
  BY <1>1
<1> QED
  BY <1>1, <1>2, <1>3

\* What a call is answered is one of the texts the planner knows.
LEMMA TextIsKnown ==
  ASSUME NEW entry \in Entries, Asked(entry), agent \in {"weather", "flight"}
  PROVE  /\ TextOf(entry.call, entry.answer) \in Texts
         /\ ResultOf(entry) \in Results \ {Nothing}
<1> DEFINE text == TextOf(entry.call, entry.answer)
<1>1. entry.call \in Calls /\ entry.answer \in Answers /\ entry.call.tool \in ToolNames
  BY DEF Entries, Calls, ToolNames
<1>2. text \in Texts \ {Nothing}
  <2>1. CASE entry.answer = NotAsked
    BY <2>1 DEF TextOf, Texts, ErrorText, Nothing
  <2>2. CASE entry.answer # NotAsked /\ entry.call.tool # "search_flights"
    <3>1. entry.call.tool \in {"geocode", "get_weather"}
      BY <1>1, <2>2 DEF ToolNames
    <3> QED
      BY <2>2, <3>1 DEF TextOf, Texts, LookUp, Looked, ErrorText, Nothing, Results
  <2>3. CASE entry.answer # NotAsked /\ entry.call.tool = "search_flights"
    <3>1. entry.call.cabin \in CabinClass
      BY <2>3 DEF Asked
    <3>2. text = IF SearchFlights(entry.answer, entry.call.cabin) = Raised THEN ErrorText
                 ELSE SearchFlights(entry.answer, entry.call.cabin)
      BY <2>3 DEF TextOf
    <3>3. CASE SearchFlights(entry.answer, entry.call.cabin) \in {Unavailable, Raised}
      BY <3>2, <3>3 DEF Texts, Results, ErrorText, Nothing, Unavailable, Raised
    <3>4. CASE SearchFlights(entry.answer, entry.call.cabin) \notin {Unavailable, Raised}
      <4>1. PICK fare \in [price : Nat, cabin : CabinClass] :
              SearchFlights(entry.answer, entry.call.cabin) = Found(fare)
        BY <1>1, <3>1, <3>4, SearchIsHonest
      <4> QED
        BY <3>2, <3>4, <4>1 DEF Texts, Results, Found, Nothing
    <3> QED
      BY <3>3, <3>4
  <2> QED
    BY <2>1, <2>2, <2>3
<1>3. RawText \in Results \ {Nothing}
  BY DEF Results, RawText, Nothing
<1> QED
  BY <1>2, <1>3 DEF ResultOf, Texts

\* The message of a call is read as the call's result.
LEMMA ParsedIsResult ==
  ASSUME NEW entry \in Entries, Asked(entry), agent \in {"weather", "flight"}
  PROVE  LET message == ToolMessage(entry.call.tool, TextOf(entry.call, entry.answer))
         IN  /\ message \in Messages
             /\ message.type = "tool" /\ message.name = entry.call.tool
             /\ ParseToolMessage(message) = ResultOf(entry)
             /\ ParseToolMessage(message) # Nothing
<1>1. TextOf(entry.call, entry.answer) \in Texts /\ ResultOf(entry) # Nothing
  BY TextIsKnown
<1>2. entry.call.tool \in ToolNames
  BY DEF Entries, Calls, ToolNames
<1> QED
  BY <1>1, <1>2, RunAssumption DEF ToolMessage, Messages, Shapes, Texts, ParseToolMessage, ResultOf

\* A model's message changes nothing that is read out of the messages.
LEMMA ModelMessageIsNoResult ==
  ASSUME NEW ms \in Seq(Messages), NEW tokens \in Nat, NEW tool \in ToolNames
  PROVE  /\ Append(ms, Ai(tokens)) \in Seq(Messages)
         /\ ExtractToolResult(Append(ms, Ai(tokens)), tool) = ExtractToolResult(ms, tool)
         /\ InScope(ms) => InScope(Append(ms, Ai(tokens)))
<1> DEFINE longer == Append(ms, Ai(tokens))
<1>1. Ai(tokens) \in Messages /\ Ai(tokens).type = "ai"
  BY DEF Ai, Messages
<1>2. /\ longer \in Seq(Messages)
      /\ DOMAIN ms = 1..Len(ms) /\ DOMAIN longer = 1..(Len(ms) + 1) /\ Len(ms) \in Nat
      /\ \A i \in 1..Len(ms) : longer[i] = ms[i]
      /\ longer[Len(ms) + 1] = Ai(tokens)
  BY <1>1, AppendProperties, LenProperties
<1> HIDE DEF longer
<1>3. \A i \in DOMAIN longer : i \in DOMAIN ms \/ i = Len(ms) + 1
  BY <1>2
<1>4. ResultsOf(longer, tool) = ResultsOf(ms, tool)
  BY <1>1, <1>2, <1>3 DEF ResultsOf
<1>5. ExtractToolResult(longer, tool) = ExtractToolResult(ms, tool)
  <2>1. CASE ResultsOf(ms, tool) = {}
    BY <1>4, <2>1 DEF ExtractToolResult
  <2>2. CASE ResultsOf(ms, tool) # {}
    <3>1. ResultsOf(ms, tool) \in SUBSET (1..Len(ms))
      BY <1>2 DEF ResultsOf
    <3>2. LastIn(ResultsOf(ms, tool)) \in 1..Len(ms)
      BY <1>2, <2>2, <3>1, LastInIsLast
    <3> QED
      BY <1>2, <1>4, <2>2, <3>2 DEF ExtractToolResult, LastIn
  <2> QED
    BY <2>1, <2>2
<1>6. InScope(ms) => InScope(longer)
  BY <1>1, <1>2, <1>3 DEF InScope
<1> QED
  BY <1>2, <1>5, <1>6 DEF longer

\* The answers of a turn: of a tool that was called, the last one is read from
\* then on; what is read of any other tool stays.
LEMMA AnswersAreRead ==
  ASSUME Types, NEW new \in Seq(Entries), NEW tool \in ToolNames,
         \A i \in DOMAIN new : Asked(new[i]), Agrees(tool),
         NEW replies, replies = [i \in DOMAIN new |->
                                   ToolMessage(new[i].call.tool, TextOf(new[i].call, new[i].answer))]
  PROVE  /\ messages \o replies \in Seq(Messages)
         /\ asked \o new \in Seq(Entries)
         /\ \A i \in DOMAIN (asked \o new) : \/ i \in DOMAIN asked /\ (asked \o new)[i] = asked[i]
                                             \/ \E j \in DOMAIN new : (asked \o new)[i] = new[j]
         /\ InScope(messages) => InScope(messages \o replies)
         /\ ExtractToolResult(messages \o replies, tool) = LastResult(asked \o new, tool)
<1> DEFINE ms == messages \o replies
           entries == asked \o new
           m == Len(messages)
           a == Len(asked)
           n == Len(new)
<1>1. /\ messages \in Seq(Messages) /\ asked \in Seq(Entries)
      /\ m \in Nat /\ a \in Nat /\ n \in Nat
      /\ DOMAIN messages = 1..m /\ DOMAIN asked = 1..a /\ DOMAIN new = 1..n
  BY LenProperties DEF Types
<1>2. ASSUME NEW i \in 1..n
      PROVE  /\ new[i] \in Entries
             /\ replies[i] \in Messages /\ replies[i].type = "tool"
             /\ replies[i].name = new[i].call.tool
             /\ ParseToolMessage(replies[i]) = ResultOf(new[i])
             /\ ParseToolMessage(replies[i]) # Nothing
             /\ replies[i].text # ErrorText => replies[i].name \in AllowedTools[agent]
  <2>1. new[i] \in Entries /\ Asked(new[i])
    BY <1>1, ElementOfSeq
  <2>2. replies[i] = ToolMessage(new[i].call.tool, TextOf(new[i].call, new[i].answer))
    BY <1>1
  <2>3. replies[i].text = TextOf(new[i].call, new[i].answer) /\ replies[i].name = new[i].call.tool
    BY <2>2 DEF ToolMessage
  <2>4. new[i].answer = NotAsked => TextOf(new[i].call, new[i].answer) = ErrorText
    BY DEF TextOf
  <2>5. replies[i].text # ErrorText => replies[i].name \in AllowedTools[agent]
    BY <2>1, <2>3, <2>4 DEF Asked
  <2> QED
    BY <2>1, <2>2, <2>5, ParsedIsResult DEF Types
<1>3. replies \in Seq(Messages) /\ Len(replies) = n
  <2>1. replies \in [1..n -> Messages]
    BY <1>1, <1>2
  <2>2. replies \in Seq(Messages)
    BY <1>1, <2>1, SeqDef
  <2>3. DOMAIN replies = 1..Len(replies) /\ Len(replies) \in Nat
    BY <2>2, LenProperties
  <2> QED
    BY <1>1, <2>1, <2>2, <2>3
<1>4. /\ ms \in Seq(Messages) /\ DOMAIN ms = 1..(m + n)
      /\ \A i \in 1..m : ms[i] = messages[i]
      /\ \A i \in 1..n : ms[m + i] = replies[i]
  <2>1. /\ ms \in Seq(Messages) /\ Len(ms) = m + n
        /\ \A i \in 1..(m + n) : ms[i] = IF i <= m THEN messages[i] ELSE replies[i - m]
    BY <1>1, <1>3, ConcatProperties
  <2>2. DOMAIN ms = 1..(m + n)
    BY <2>1, LenProperties
  <2> HIDE DEF ms
  <2>3. ASSUME NEW i \in 1..m PROVE ms[i] = messages[i]
    <3>1. i \in 1..(m + n) /\ i <= m
      BY <1>1
    <3> QED
      BY <2>1, <3>1
  <2>4. ASSUME NEW i \in 1..n PROVE ms[m + i] = replies[i]
    <3>1. m + i \in 1..(m + n) /\ ~(m + i <= m) /\ (m + i) - m = i
      BY <1>1
    <3>2. ms[m + i] = replies[(m + i) - m]
      BY <2>1, <3>1
    <3> QED
      BY <3>1, <3>2
  <2> QED
    BY <2>1, <2>2, <2>3, <2>4
<1>5. /\ entries \in Seq(Entries) /\ DOMAIN entries = 1..(a + n)
      /\ \A i \in 1..a : entries[i] = asked[i]
      /\ \A i \in 1..n : entries[a + i] = new[i]
  <2>1. /\ entries \in Seq(Entries) /\ Len(entries) = a + n
        /\ \A i \in 1..(a + n) : entries[i] = IF i <= a THEN asked[i] ELSE new[i - a]
    BY <1>1, ConcatProperties
  <2>2. DOMAIN entries = 1..(a + n)
    BY <2>1, LenProperties
  <2> HIDE DEF entries
  <2>3. ASSUME NEW i \in 1..a PROVE entries[i] = asked[i]
    <3>1. i \in 1..(a + n) /\ i <= a
      BY <1>1
    <3> QED
      BY <2>1, <3>1
  <2>4. ASSUME NEW i \in 1..n PROVE entries[a + i] = new[i]
    <3>1. a + i \in 1..(a + n) /\ ~(a + i <= a) /\ (a + i) - a = i
      BY <1>1
    <3>2. entries[a + i] = new[(a + i) - a]
      BY <2>1, <3>1
    <3> QED
      BY <3>1, <3>2
  <2> QED
    BY <2>1, <2>2, <2>3, <2>4
<1> HIDE DEF ms, entries
<1>6. InScope(messages) => InScope(ms)
  <2>1. \A i \in 1..(m + n) : i \in 1..m \/ \E j \in 1..n : i = m + j
    BY <1>1, IndexOfConcat
  <2>2. ASSUME InScope(messages), NEW i \in 1..(m + n), ms[i].type = "tool", ms[i].text # ErrorText
        PROVE  ms[i].name \in AllowedTools[agent]
    <3>1. CASE i \in 1..m
      BY <1>1, <1>4, <2>2, <3>1 DEF InScope
    <3>2. CASE \E j \in 1..n : i = m + j
      <4>1. PICK j \in 1..n : ms[i] = replies[j]
        BY <1>4, <3>2
      <4> QED
        BY <1>2, <2>2, <4>1
    <3> QED
      BY <2>1, <3>1, <3>2
  <2> QED
    BY <1>4, <2>2 DEF InScope
<1>7. \A i \in DOMAIN entries : \/ i \in DOMAIN asked /\ entries[i] = asked[i]
                                \/ \E j \in DOMAIN new : entries[i] = new[j]
  <2>1. \A i \in 1..(a + n) : i \in 1..a \/ \E j \in 1..n : i = a + j
    BY <1>1, IndexOfConcat
  <2>2. ASSUME NEW i \in 1..(a + n)
        PROVE  \/ i \in 1..a /\ entries[i] = asked[i]
               \/ \E j \in 1..n : entries[i] = new[j]
    <3>1. CASE i \in 1..a
      BY <1>5, <3>1
    <3>2. CASE \E j \in 1..n : i = a + j
      BY <1>5, <3>2
    <3> QED
      BY <2>1, <3>1, <3>2
  <2> QED
    BY <1>1, <1>5, <2>2
<1>8. CASE CallsOf(new, tool) = {}
  <2>1. ResultsOf(ms, tool) = ResultsOf(messages, tool)
    <3>1. \A i \in 1..n : replies[i].name # tool
      BY <1>1, <1>2, <1>8 DEF CallsOf
    <3>2. \A i \in 1..(m + n) : i \in 1..m \/ \E j \in 1..n : i = m + j
      BY <1>1, IndexOfConcat
    <3>3. \A i \in 1..m : i \in 1..(m + n)
      BY <1>1
    <3> QED
      BY <1>1, <1>4, <3>1, <3>2, <3>3 DEF ResultsOf
  <2>2. CallsOf(entries, tool) = CallsOf(asked, tool)
    <3>1. \A i \in 1..n : new[i].call.tool # tool
      BY <1>1, <1>8 DEF CallsOf
    <3>2. \A i \in 1..(a + n) : i \in 1..a \/ \E j \in 1..n : i = a + j
      BY <1>1, IndexOfConcat
    <3>3. \A i \in 1..a : i \in 1..(a + n)
      BY <1>1
    <3>4. \A i \in 1..n : entries[a + i].call.tool # tool
      BY <1>5, <3>1
    <3>5. ASSUME NEW i \in 1..(a + n), entries[i].call.tool = tool
          PROVE  i \in 1..a /\ asked[i].call.tool = tool
      <4>1. i \in 1..a
        BY <3>2, <3>4, <3>5
      <4> QED
        BY <1>5, <3>5, <4>1
    <3>6. ASSUME NEW i \in 1..a, asked[i].call.tool = tool
          PROVE  i \in 1..(a + n) /\ entries[i].call.tool = tool
      BY <1>5, <3>3, <3>6
    <3>7. CallsOf(entries, tool) \subseteq CallsOf(asked, tool)
      BY <1>1, <1>5, <3>5 DEF CallsOf
    <3>8. CallsOf(asked, tool) \subseteq CallsOf(entries, tool)
      BY <1>1, <1>5, <3>6 DEF CallsOf
    <3> QED
      BY <3>7, <3>8
  <2>3. ExtractToolResult(ms, tool) = ExtractToolResult(messages, tool)
    <3>1. CASE ResultsOf(messages, tool) = {}
      BY <2>1, <3>1 DEF ExtractToolResult
    <3>2. CASE ResultsOf(messages, tool) # {}
      <4>1. ResultsOf(messages, tool) \in SUBSET (1..m)
        BY <1>1 DEF ResultsOf
      <4>2. LastIn(ResultsOf(messages, tool)) \in 1..m
        BY <1>1, <3>2, <4>1, LastInIsLast
      <4> QED
        BY <1>4, <2>1, <3>2, <4>2 DEF ExtractToolResult, LastIn
    <3> QED
      BY <3>1, <3>2
  <2>4. LastResult(entries, tool) = LastResult(asked, tool)
    <3>1. CASE CallsOf(asked, tool) = {}
      BY <2>2, <3>1 DEF LastResult
    <3>2. CASE CallsOf(asked, tool) # {}
      <4>1. CallsOf(asked, tool) \in SUBSET (1..a)
        BY <1>1 DEF CallsOf
      <4>2. LastIn(CallsOf(asked, tool)) \in 1..a
        BY <1>1, <3>2, <4>1, LastInIsLast
      <4> QED
        BY <1>5, <2>2, <3>2, <4>2 DEF LastResult
    <3> QED
      BY <3>1, <3>2
  <2> QED
    BY <1>4, <1>5, <1>6, <1>7, <2>3, <2>4 DEF Agrees, ms, entries
<1>9. CASE CallsOf(new, tool) # {}
  <2>1. PICK k \in 1..n : new[k].call.tool = tool /\ \A j \in 1..n : new[j].call.tool = tool => j <= k
    <3>1. CallsOf(new, tool) \in SUBSET (1..n)
      BY <1>1 DEF CallsOf
    <3>2. PICK k \in CallsOf(new, tool) : \A j \in CallsOf(new, tool) : j <= k
      BY <1>1, <1>9, <3>1, GreatestExists
    <3> QED
      BY <1>1, <3>2 DEF CallsOf
  <2>2. LastIn(ResultsOf(ms, tool)) = m + k /\ ResultsOf(ms, tool) # {}
    <3>1. m + k \in ResultsOf(ms, tool)
      BY <1>1, <1>2, <1>4, <2>1 DEF ResultsOf
    <3>2. ASSUME NEW i \in ResultsOf(ms, tool) PROVE i <= m + k
      <4>1. i \in 1..(m + n) /\ ms[i].type = "tool" /\ ms[i].name = tool
        BY <1>4 DEF ResultsOf
      <4>2. CASE i <= m
        BY <1>1, <4>1, <4>2
      <4>3. CASE i > m
        <5>1. i - m \in 1..n /\ i = m + (i - m)
          BY <1>1, <4>1, <4>3
        <5>2. ms[i] = replies[i - m]
          BY <1>4, <5>1
        <5>3. new[i - m].call.tool = tool
          BY <1>2, <4>1, <5>1, <5>2
        <5>4. i - m <= k
          BY <2>1, <5>1, <5>3
        <5> QED
          BY <1>1, <4>1, <5>4
      <4> QED
        BY <1>1, <4>1, <4>2, <4>3
    <3>3. ResultsOf(ms, tool) \in SUBSET (1..(m + n)) /\ m + n \in Nat
      BY <1>1, <1>4 DEF ResultsOf
    <3> QED
      BY <3>1, <3>2, <3>3, LastInIsUnique
  <2>3. LastIn(CallsOf(entries, tool)) = a + k /\ CallsOf(entries, tool) # {}
    <3>1. a + k \in CallsOf(entries, tool)
      BY <1>1, <1>5, <2>1 DEF CallsOf
    <3>2. ASSUME NEW i \in CallsOf(entries, tool) PROVE i <= a + k
      <4>1. i \in 1..(a + n) /\ entries[i].call.tool = tool
        BY <1>5 DEF CallsOf
      <4>2. CASE i <= a
        BY <1>1, <4>1, <4>2
      <4>3. CASE i > a
        <5>1. i - a \in 1..n /\ i = a + (i - a)
          BY <1>1, <4>1, <4>3
        <5>2. entries[i] = new[i - a]
          BY <1>5, <5>1
        <5>3. i - a <= k
          BY <2>1, <4>1, <5>1, <5>2
        <5> QED
          BY <1>1, <4>1, <5>3
      <4> QED
        BY <1>1, <4>1, <4>2, <4>3
    <3>3. CallsOf(entries, tool) \in SUBSET (1..(a + n)) /\ a + n \in Nat
      BY <1>1, <1>5 DEF CallsOf
    <3> QED
      BY <3>1, <3>2, <3>3, LastInIsUnique
  <2>4. ExtractToolResult(ms, tool) = ParseToolMessage(ms[m + k])
    BY <2>2 DEF ExtractToolResult, LastIn
  <2>5. LastResult(entries, tool) = ResultOf(entries[a + k])
    BY <2>3 DEF LastResult
  <2>6. ParseToolMessage(ms[m + k]) = ResultOf(entries[a + k])
    <3>1. ms[m + k] = replies[k] /\ entries[a + k] = new[k]
      BY <1>4, <1>5
    <3> QED
      BY <1>2, <3>1
  <2> QED
    BY <1>4, <1>5, <1>6, <1>7, <2>4, <2>5, <2>6 DEF ms, entries
<1> QED
  BY <1>8, <1>9

-------------------------------------------------------------------------------
(* The usage of a run. *)

\* What one message counts for.
TokensOf(m) == IF m.type = "ai" THEN m.tokens ELSE 0

\* f is the running sum over the messages.
Sums(f, ms) ==
  /\ f \in [0..Len(ms) -> Nat]
  /\ f[0] = 0
  /\ \A i \in 1..Len(ms) : f[i] = f[i - 1] + TokensOf(ms[i])

LEMMA TokensAreNumbers ==
  ASSUME NEW m \in Messages
  PROVE  TokensOf(m) \in Nat
BY DEF TokensOf, Messages

\* UsageOf is the last of the running sums, which exist.
LEMMA UsageIsTheSum ==
  ASSUME NEW ms \in Seq(Messages)
  PROVE  \E f : Sums(f, ms) /\ UsageOf(ms) = f[Len(ms)]
<1> DEFINE n == Len(ms)
           step == [i \in 1..n |-> [sum \in Nat |-> sum + TokensOf(ms[i])]]
           IsSum(g) == g = [i \in 0..n |-> IF i = 0 THEN 0
                                          ELSE g[i - 1] + (IF ms[i].type = "ai" THEN ms[i].tokens ELSE 0)]
<1>1. n \in Nat
  BY LenProperties
<1>2. \A i \in 1..n : TokensOf(ms[i]) \in Nat
  BY ElementOfSeq, TokensAreNumbers
<1> HIDE DEF n
<1>3. step \in [1..n -> [Nat -> Nat]]
  BY <1>2
<1>4. \A i \in 1..n, sum \in Nat : step[i][sum] = sum + TokensOf(ms[i])
  OBVIOUS
<1> HIDE DEF step
<1>5. PICK f \in [0..n -> Nat] : f[0] = 0 /\ \A i \in 1..n : f[i] = step[i][f[i - 1]]
  <2>1. PICK f : Recursion(f, n, Nat, 0, step)
    BY <1>1, <1>3, RecursionExists
  <2> QED
    BY <2>1 DEF Recursion
<1>6. \A i \in 1..n : i - 1 \in 0..n
  BY <1>1
<1>7. \A i \in 1..n : f[i] = f[i - 1] + TokensOf(ms[i])
  BY <1>4, <1>5, <1>6
<1>8. IsSum(f)
  <2>1. \A i \in 0..n : i # 0 => i \in 1..n
    BY <1>1
  <2>2. \A i \in 0..n : f[i] = IF i = 0 THEN 0
                                ELSE f[i - 1] + (IF ms[i].type = "ai" THEN ms[i].tokens ELSE 0)
    BY <1>5, <1>7, <2>1 DEF TokensOf
  <2> QED
    BY <1>5, <2>2
<1>9. PICK g : IsSum(g) /\ UsageOf(ms) = g[n]
  <2>1. IsSum(CHOOSE g : IsSum(g))
    <3> HIDE DEF IsSum
    <3> QED
      BY <1>8
  <2>2. UsageOf(ms) = (CHOOSE g : IsSum(g))[n]
    BY DEF UsageOf, n
  <2> HIDE DEF IsSum
  <2> QED
    BY <2>1, <2>2
<1>10. g = f
  <2>1. DOMAIN g = 0..n /\ g[0] = 0 /\ \A i \in 1..n : g[i] = g[i - 1] + TokensOf(ms[i])
    BY <1>1, <1>9 DEF TokensOf
  <2> DEFINE Same == {i \in 0..n : g[i] = f[i]}
  <2>2. 0 \in Same
    BY <1>1, <1>5, <2>1
  <2>3. \A i \in 1..n : i - 1 \in Same => i \in Same
    BY <1>1, <1>7, <2>1
  <2>4. \A i \in 0..n : i \in Same
    <3> HIDE DEF Same
    <3> QED
      BY <1>1, <2>2, <2>3, UpTo
  <2>5. \A i \in 0..n : g[i] = f[i]
    BY <2>4
  <2>6. g = [i \in 0..n |-> g[i]] /\ f = [i \in 0..n |-> f[i]]
    BY <1>5, <1>9, <2>1
  <2> QED
    BY <2>5, <2>6
<1> QED
  BY <1>5, <1>7, <1>9, <1>10 DEF Sums, n

\* Messages after others: the usage of the others is a running sum of all.
LEMMA UsageOfTheFirst ==
  ASSUME NEW ms \in Seq(Messages), NEW longer \in Seq(Messages), Len(ms) <= Len(longer),
         \A i \in 1..Len(ms) : longer[i] = ms[i], NEW f, Sums(f, longer)
  PROVE  UsageOf(ms) = f[Len(ms)]
<1>1. PICK g : Sums(g, ms) /\ UsageOf(ms) = g[Len(ms)]
  BY UsageIsTheSum
<1>2. Len(ms) \in Nat /\ Len(longer) \in Nat
  BY LenProperties
<1> DEFINE Same == {i \in 0..Len(ms) : f[i] = g[i]}
<1>3. 0 \in Same
  BY <1>1, <1>2 DEF Sums
<1>4. ASSUME NEW i \in 1..Len(ms), i - 1 \in Same PROVE i \in Same
  <2>1. i \in 1..Len(longer) /\ longer[i] = ms[i]
    BY <1>2
  <2>2. f[i] = f[i - 1] + TokensOf(longer[i]) /\ g[i] = g[i - 1] + TokensOf(ms[i])
    BY <1>1, <2>1 DEF Sums
  <2> QED
    BY <1>2, <1>4, <2>1, <2>2
<1>5. Len(ms) \in Same
  <2>1. Len(ms) \in 0..Len(ms)
    BY <1>2
  <2> HIDE DEF Same
  <2> QED
    BY <1>2, <1>3, <1>4, <2>1, UpTo
<1> QED
  BY <1>1, <1>5

\* A model's message adds what it used.
LEMMA UsageOfAppend ==
  ASSUME NEW ms \in Seq(Messages), NEW tokens \in Nat
  PROVE  /\ UsageOf(ms) \in Nat
         /\ UsageOf(Append(ms, Ai(tokens))) = UsageOf(ms) + tokens
<1> DEFINE longer == Append(ms, Ai(tokens))
<1>1. Ai(tokens) \in Messages /\ TokensOf(Ai(tokens)) = tokens
  BY DEF Ai, Messages, TokensOf
<1>2. /\ longer \in Seq(Messages) /\ Len(longer) = Len(ms) + 1 /\ Len(ms) \in Nat
      /\ \A i \in 1..Len(ms) : longer[i] = ms[i]
      /\ longer[Len(ms) + 1] = Ai(tokens)
  BY <1>1, AppendProperties, LenProperties
<1> HIDE DEF longer
<1>3. PICK f : Sums(f, longer) /\ UsageOf(longer) = f[Len(longer)]
  BY <1>2, UsageIsTheSum
<1>4. UsageOf(ms) = f[Len(ms)]
  <2>1. Len(ms) <= Len(longer)
    BY <1>2
  <2> QED
    BY <1>2, <1>3, <2>1, UsageOfTheFirst
<1>5. f[Len(ms)] \in Nat /\ f[Len(ms) + 1] = f[Len(ms)] + TokensOf(longer[Len(ms) + 1])
  <2>1. Len(ms) \in 0..Len(longer) /\ Len(ms) + 1 \in 1..Len(longer) /\ (Len(ms) + 1) - 1 = Len(ms)
    BY <1>2
  <2>2. f[Len(ms) + 1] = f[(Len(ms) + 1) - 1] + TokensOf(longer[Len(ms) + 1])
    BY <1>3, <2>1 DEF Sums
  <2> QED
    BY <1>3, <2>1, <2>2 DEF Sums
<1> QED
  BY <1>1, <1>2, <1>3, <1>4, <1>5 DEF longer

\* Tools' messages add nothing.
LEMMA UsageOfReplies ==
  ASSUME NEW ms \in Seq(Messages), NEW replies \in Seq(Messages),
         \A i \in 1..Len(replies) : replies[i].type = "tool"
  PROVE  UsageOf(ms \o replies) = UsageOf(ms)
<1> DEFINE longer == ms \o replies
           m == Len(ms)
           n == Len(replies)
<1>1. /\ longer \in Seq(Messages) /\ Len(longer) = m + n /\ m \in Nat /\ n \in Nat
      /\ \A i \in 1..(m + n) : longer[i] = IF i <= m THEN ms[i] ELSE replies[i - m]
  BY ConcatProperties, LenProperties
<1> HIDE DEF longer, m, n
<1>2. PICK f : Sums(f, longer) /\ UsageOf(longer) = f[m + n]
  BY <1>1, UsageIsTheSum
<1>3. UsageOf(ms) = f[m]
  <2>1. m <= Len(longer) /\ \A i \in 1..m : longer[i] = ms[i]
    <3>1. m <= m + n /\ \A i \in 1..m : i \in 1..(m + n) /\ i <= m
      BY <1>1
    <3> QED
      BY <1>1, <3>1
  <2> QED
    BY <1>1, <1>2, <2>1, UsageOfTheFirst DEF m
<1> DEFINE Same == {j \in 0..n : f[m + j] = f[m]}
<1>4. 0 \in Same
  BY <1>1
<1>5. ASSUME NEW j \in 1..n, j - 1 \in Same PROVE j \in Same
  <2>1. /\ m + j \in 1..(m + n) /\ ~(m + j <= m) /\ (m + j) - m = j
        /\ (m + j) - 1 = m + (j - 1) /\ m + (j - 1) \in 0..(m + n)
    BY <1>1
  <2>2. longer[m + j] = replies[(m + j) - m]
    BY <1>1, <2>1
  <2>3. TokensOf(longer[m + j]) = 0
    <3>1. replies[j].type = "tool"
      BY DEF n
    <3> QED
      BY <2>1, <2>2, <3>1 DEF TokensOf
  <2>4. f[m + j] = f[(m + j) - 1] + TokensOf(longer[m + j])
    BY <1>1, <1>2, <2>1 DEF Sums
  <2>5. f[m + (j - 1)] \in Nat
    BY <1>1, <1>2, <2>1 DEF Sums
  <2>6. f[m + j] = f[m]
    BY <1>5, <2>1, <2>3, <2>4, <2>5
  <2> QED
    BY <2>6
<1>6. n \in Same
  <2>1. n \in 0..n
    BY <1>1
  <2> HIDE DEF Same
  <2> QED
    BY <1>1, <1>4, <1>5, <2>1, UpTo
<1> QED
  BY <1>2, <1>3, <1>6 DEF longer, m, n

-------------------------------------------------------------------------------
(* The invariant. *)

\* A turn's answers, and that every call of it is one the invariant allows.
LEMMA TurnIsAsked ==
  ASSUME Types, NEW as \in AnswersTo(calls)
  PROVE  LET new == [i \in DOMAIN calls |-> [call |-> calls[i], answer |-> as[i]]]
         IN  new \in Seq(Entries) /\ \A i \in DOMAIN new : Asked(new[i])
<1> DEFINE new == [i \in DOMAIN calls |-> [call |-> calls[i], answer |-> as[i]]]
<1>1. Len(calls) \in Nat /\ DOMAIN calls = 1..Len(calls)
  BY LenProperties DEF Types
<1>2. DOMAIN new = 1..Len(calls) /\ \A i \in 1..Len(calls) : new[i] = [call |-> calls[i], answer |-> as[i]]
  BY <1>1
<1>3. new \in [1..Len(calls) -> {new[i] : i \in 1..Len(calls)}]
  BY <1>1
<1> HIDE DEF new
<1>4. ASSUME NEW i \in 1..Len(calls)
      PROVE  new[i] \in Entries /\ Asked(new[i])
  <2>1. calls[i] \in Calls
    BY ElementOfSeq DEF Types
  <2>2. as[i] \in IF Accepted(calls[i]) THEN Replies[calls[i].tool] ELSE {NotAsked}
    BY <1>1 DEF AnswersTo
  <2>3. as[i] \in Answers
    <3>1. CASE Accepted(calls[i])
      <4>1. calls[i].tool \in ToolNames
        BY <2>1 DEF Calls, ToolNames
      <4> QED
        BY <2>2, <3>1, <4>1, RunAssumption
    <3>2. CASE ~Accepted(calls[i])
      <4>1. as[i] = NotAsked
        BY <2>2, <3>2
      <4>2. <<>> \in Seq(Nat \cup {Missing, Null, Garbled})
        BY EmptySeq
      <4> QED
        BY <4>1, <4>2 DEF NotAsked, Answers
    <3> QED
      BY <3>1, <3>2
  <2>4. new[i] = [call |-> calls[i], answer |-> as[i]]
    BY <1>2
  <2>5. Asked(new[i])
    <3>1. as[i] # NotAsked => Accepted(calls[i])
      BY <2>2
    <3>2. tools \subseteq AllowedTools[agent]
      BY DEF Types
    <3>3. new[i].call = calls[i] /\ new[i].answer = as[i]
      BY <2>4
    <3> QED
      BY <3>1, <3>2, <3>3 DEF Asked, Accepted
  <2>6. [call |-> calls[i], answer |-> as[i]] \in Entries
    BY <2>1, <2>3 DEF Entries
  <2> QED
    BY <2>4, <2>5, <2>6
<1>5. new \in Seq(Entries)
  <2>1. new \in [1..Len(calls) -> Entries]
    BY <1>4, <1>3
  <2> QED
    BY <1>1, <2>1, SeqDef
<1> QED
  BY <1>4, <1>5, <1>2 DEF new

\* The model's message changes neither the calls nor what is read.
LEMMA ModelMessageKeepsInvariant ==
  ASSUME IInv, NEW tokens \in Nat, messages' = Append(messages, Ai(tokens)),
         asked' = asked, agent' = agent
  PROVE  /\ messages' \in Seq(Messages)
         /\ AllAsked'
         /\ \A tool \in ToolNames : Agrees(tool)'
         /\ InScope(messages)'
<1>1. ASSUME NEW tool \in ToolNames
      PROVE  messages' \in Seq(Messages) /\ Agrees(tool)' /\ InScope(messages')
  BY ModelMessageIsNoResult DEF IInv, Types, Agrees
<1>2. "geocode" \in ToolNames
  BY DEF ToolNames
<1> QED
  BY <1>1, <1>2 DEF IInv, AllAsked, Asked, InScope

LEMMA InitInvariant == Init => IInv
<1> SUFFICES ASSUME Init PROVE IInv
  OBVIOUS
<1>1. \A S : <<>> \in Seq(S) /\ DOMAIN <<>> = {}
  BY EmptySeq
<1>2. \A tool : ResultsOf(<<>>, tool) = {} /\ CallsOf(<<>>, tool) = {}
  BY DEF ResultsOf, CallsOf
<1> QED
  BY <1>1, <1>2
  DEF Init, IInv, Types, AllAsked, Agrees, ExtractToolResult, LastResult, InScope, Returned

\* Every step keeps the invariant.
LEMMA Inductive == IInv /\ [Next]_vars => IInv'
<1> SUFFICES ASSUME IInv, [Next]_vars PROVE IInv'
  OBVIOUS
<1>1. CASE Build
  BY <1>1 DEF Build, Move, LoadTools, run, IInv, Types, AllAsked, Asked, Agrees, InScope, Returned
<1>2. CASE Raise
  BY <1>2 DEF Raise, Move, run, IInv, Types, AllAsked, Asked, Agrees, InScope, Returned
<1>3. ASSUME NEW tokens \in TokenCounts, NEW cs \in Turns, ModelCallsTools(cs, tokens)
      PROVE  IInv'
  <2>1. tokens \in Nat
    BY RunAssumption
  <2>2. cs \in Seq(Calls)
    BY SeqDef, RunAssumption DEF Turns
  <2>3. messages' = Append(messages, Ai(tokens)) /\ asked' = asked /\ agent' = agent
    BY <1>3 DEF ModelCallsTools
  <2>4. /\ messages' \in Seq(Messages)
        /\ AllAsked'
        /\ \A tool \in ToolNames : Agrees(tool)'
        /\ InScope(messages)'
    BY <2>1, <2>3, ModelMessageKeepsInvariant
  <2>5. Types'
    BY <1>3, <2>2, <2>4 DEF ModelCallsTools, Move, IInv, Types
  <2>6. update' = NoUpdate /\ ~Returned'
    BY <1>3 DEF ModelCallsTools, Move, IInv, Returned
  <2> QED
    BY <2>4, <2>5, <2>6 DEF IInv
<1>4. ASSUME NEW tokens \in Nat, Return(Append(messages, Ai(tokens))),
             phase' \in {"returned", "cut_off"}
      PROVE  IInv'
  <2>1. /\ messages' = Append(messages, Ai(tokens)) /\ asked' = asked /\ agent' = agent
        /\ update' = NodeUpdate(messages') /\ tools' = tools /\ calls' = calls
    BY <1>4 DEF Return
  <2>2. /\ messages' \in Seq(Messages)
        /\ AllAsked'
        /\ \A tool \in ToolNames : Agrees(tool)'
        /\ InScope(messages)'
    BY <2>1, ModelMessageKeepsInvariant
  <2>3. Types'
    BY <1>4, <2>1, <2>2 DEF IInv, Types
  <2>4. NodeUpdate(messages)' = NodeUpdate(messages')
    BY <2>1 DEF NodeUpdate
  <2>5. Returned'
    BY <1>4 DEF Returned
  <2> QED
    BY <2>1, <2>2, <2>3, <2>4, <2>5 DEF IInv
<1>5. ASSUME NEW tokens \in TokenCounts, ModelAnswers(tokens)
      PROVE  IInv'
  BY <1>4, <1>5, RunAssumption DEF ModelAnswers, Move
<1>6. ASSUME NEW tokens \in TokenCounts, RunOutOfSteps(tokens)
      PROVE  IInv'
  BY <1>4, <1>6 DEF RunOutOfSteps, Move
<1>7. ASSUME NEW as \in AnswersTo(calls), ToolsAnswer(as)
      PROVE  IInv'
  <2> DEFINE new == [i \in DOMAIN calls |-> [call |-> calls[i], answer |-> as[i]]]
             replies == [i \in DOMAIN calls |-> ToolMessage(calls[i].tool, TextOf(calls[i], as[i]))]
  <2>1. new \in Seq(Entries) /\ \A i \in DOMAIN new : Asked(new[i])
    BY <1>7, TurnIsAsked DEF IInv
  <2>2. replies = [i \in DOMAIN new |->
                     ToolMessage(new[i].call.tool, TextOf(new[i].call, new[i].answer))]
    OBVIOUS
  <2>3. /\ messages' = messages \o replies /\ asked' = asked \o new /\ calls' = <<>>
        /\ agent' = agent /\ tools' = tools /\ update' = update
        /\ phase = "tools" /\ phase' = "model"
    BY <1>7 DEF ToolsAnswer, Move
  <2> HIDE DEF new, replies
  <2>4. ASSUME NEW tool \in ToolNames
        PROVE  /\ messages' \in Seq(Messages) /\ asked' \in Seq(Entries)
               /\ \A i \in DOMAIN asked' : \/ i \in DOMAIN asked /\ asked'[i] = asked[i]
                                           \/ \E j \in DOMAIN new : asked'[i] = new[j]
               /\ InScope(messages')
               /\ Agrees(tool)'
    BY <2>1, <2>2, <2>3, AnswersAreRead DEF IInv, Agrees
  <2>5. "geocode" \in ToolNames
    BY DEF ToolNames
  <2>6. AllAsked'
    BY <2>1, <2>3, <2>4, <2>5 DEF IInv, AllAsked, Asked
  <2>7. Types'
    BY <2>3, <2>4, <2>5, EmptySeq DEF IInv, Types
  <2>8. InScope(messages)'
    BY <2>3, <2>4, <2>5 DEF InScope
  <2>9. update' = NoUpdate /\ ~Returned'
    BY <2>3 DEF IInv, Returned
  <2> QED
    BY <2>4, <2>6, <2>7, <2>8, <2>9 DEF IInv
<1>8. CASE UNCHANGED vars
  BY <1>8 DEF vars, run, IInv, Types, AllAsked, Asked, Agrees, InScope, Returned, NodeUpdate
<1> QED
  BY <1>1, <1>2, <1>3, <1>5, <1>6, <1>7, <1>8 DEF Next

\* The invariant holds in every state of a run.
THEOREM Invariance == Spec => []IInv
BY InitInvariant, Inductive, PTL DEF Spec

-------------------------------------------------------------------------------
(* The types, and the usage that is recorded. *)

\* Until the node returns, what the messages add up to is what was used, and
\* nothing is recorded; what it records then is that, or less when the loop
\* answered in the model's place.
UsageInv ==
  /\ rounds \in 0..MaxRounds /\ ledger \in Nat /\ paid \in Nat
  /\ ~Returned => ledger = 0 /\ paid = UsageOf(messages)
  /\ phase = "returned" => ledger = paid
  /\ phase = "cut_off" => ledger <= paid

\* The usage of no messages is nothing.
LEMMA UsageOfNothing == UsageOf(<<>>) = 0
<1>1. <<>> \in Seq(Messages) /\ Len(<<>>) = 0
  BY EmptySeq
<1>2. PICK f : Sums(f, <<>>) /\ UsageOf(<<>>) = f[Len(<<>>)]
  BY <1>1, UsageIsTheSum
<1> QED
  BY <1>1, <1>2 DEF Sums

LEMMA UsageInductive == IInv /\ UsageInv /\ [Next]_vars => UsageInv'
<1> SUFFICES ASSUME IInv, UsageInv, [Next]_vars PROVE UsageInv'
  OBVIOUS
<1>0. messages \in Seq(Messages) /\ MaxRounds \in Nat /\ TokenCounts \subseteq Nat
  BY RunAssumption DEF IInv, Types
<1>1. CASE Build
  BY <1>1 DEF Build, Move, LoadTools, run, UsageInv, Returned
<1>2. CASE Raise
  BY <1>2 DEF Raise, Move, run, UsageInv, Returned
<1>3. ASSUME NEW tokens \in TokenCounts, NEW cs \in Turns, ModelCallsTools(cs, tokens)
      PROVE  UsageInv'
  <2>1. UsageOf(messages') = UsageOf(messages) + tokens
    BY <1>0, <1>3, UsageOfAppend DEF ModelCallsTools
  <2>2. /\ ~Returned /\ ~Returned' /\ ledger' = ledger
        /\ paid' = paid + tokens /\ rounds < MaxRounds /\ rounds' = rounds + 1
    BY <1>3 DEF ModelCallsTools, Move, Returned
  <2>3. rounds' \in 0..MaxRounds
    BY <1>0, <2>2 DEF UsageInv
  <2>4. paid' = UsageOf(messages)'
    BY <2>1, <2>2 DEF UsageInv
  <2> QED
    BY <1>0, <2>2, <2>3, <2>4 DEF UsageInv, Returned
<1>4. ASSUME NEW tokens \in TokenCounts, ModelAnswers(tokens)
      PROVE  UsageInv'
  <2>1. UsageOf(Append(messages, Ai(tokens))) = UsageOf(messages) + tokens
    BY <1>0, UsageOfAppend
  <2>2. /\ ~Returned /\ phase' = "returned" /\ rounds' = rounds /\ paid' = paid + tokens
        /\ ledger' = ledger + UsageOf(Append(messages, Ai(tokens)))
    BY <1>4 DEF ModelAnswers, Move, Return, Returned
  <2> QED
    BY <1>0, <2>1, <2>2 DEF UsageInv, Returned
<1>5. ASSUME NEW tokens \in TokenCounts, RunOutOfSteps(tokens)
      PROVE  UsageInv'
  <2>1. UsageOf(Append(messages, Ai(0))) = UsageOf(messages) + 0 /\ UsageOf(messages) \in Nat
    BY <1>0, UsageOfAppend
  <2>2. /\ ~Returned /\ phase' = "cut_off" /\ rounds' = rounds /\ paid' = paid + tokens
        /\ ledger' = ledger + UsageOf(Append(messages, Ai(0)))
    BY <1>5 DEF RunOutOfSteps, Move, Return, Returned
  <2> QED
    BY <1>0, <2>1, <2>2 DEF UsageInv, Returned
<1>6. ASSUME NEW as \in AnswersTo(calls), ToolsAnswer(as)
      PROVE  UsageInv'
  <2> DEFINE new == [i \in DOMAIN calls |-> [call |-> calls[i], answer |-> as[i]]]
             replies == [i \in DOMAIN calls |-> ToolMessage(calls[i].tool, TextOf(calls[i], as[i]))]
  <2>1. new \in Seq(Entries) /\ \A i \in DOMAIN new : Asked(new[i])
    BY <1>6, TurnIsAsked DEF IInv
  <2>2. /\ DOMAIN calls = 1..Len(calls) /\ Len(calls) \in Nat
        /\ DOMAIN new = 1..Len(calls)
        /\ \A i \in 1..Len(calls) : new[i].call = calls[i] /\ new[i].answer = as[i]
        /\ \A i \in 1..Len(calls) : replies[i] = ToolMessage(calls[i].tool, TextOf(calls[i], as[i]))
        /\ replies = [i \in 1..Len(calls) |-> replies[i]]
    BY LenProperties DEF IInv, Types
  <2>3. messages' = messages \o replies
    BY <1>6 DEF ToolsAnswer
  <2>4. Len(new) = Len(calls)
    BY <2>1, <2>2, LenProperties
  <2> HIDE DEF new, replies
  <2>5. ASSUME NEW i \in 1..Len(calls)
        PROVE  replies[i] \in Messages /\ replies[i].type = "tool"
    <3>1. new[i] \in Entries /\ Asked(new[i])
      BY <2>1, <2>2, <2>4, ElementOfSeq
    <3>2. replies[i] = ToolMessage(new[i].call.tool, TextOf(new[i].call, new[i].answer))
      BY <2>2
    <3> QED
      BY <3>1, <3>2, ParsedIsResult DEF IInv, Types
  <2>6. replies \in Seq(Messages) /\ Len(replies) = Len(calls)
    <3>1. replies \in [1..Len(calls) -> Messages]
      BY <2>2, <2>5
    <3>2. replies \in Seq(Messages)
      BY <2>2, <3>1, SeqDef
    <3> QED
      BY <2>2, <3>1, <3>2, LenProperties
  <2>7. UsageOf(messages') = UsageOf(messages)
    BY <1>0, <2>3, <2>5, <2>6, UsageOfReplies
  <2>8. /\ ~Returned /\ ~Returned' /\ rounds' = rounds /\ ledger' = ledger /\ paid' = paid
        /\ phase' = "model"
    BY <1>6 DEF ToolsAnswer, Move, Returned
  <2> QED
    BY <2>7, <2>8 DEF UsageInv
<1>7. CASE UNCHANGED vars
  BY <1>7 DEF vars, run, UsageInv, Returned
<1> QED
  BY <1>1, <1>2, <1>3, <1>4, <1>5, <1>6, <1>7 DEF Next

THEOREM UsageAddsUp == Spec => []UsageInv
<1>1. Init => UsageInv
  BY UsageOfNothing, RunAssumption DEF Init, UsageInv, Returned
<1> QED
  BY <1>1, UsageInductive, Invariance, PTL DEF Spec

\* What the ledger is given for a run is what the run's model calls used; it is
\* less only when the run raised or was cut off.
THEOREM RecordedUsageIsPaid == Spec => []RecordedIsPaid
<1>1. UsageInv => RecordedIsPaid
  <2> SUFFICES ASSUME UsageInv PROVE RecordedIsPaid
    OBVIOUS
  <2>1. ledger \in Nat /\ paid \in Nat
    BY DEF UsageInv
  <2> QED
    BY <2>1 DEF UsageInv, RecordedIsPaid, Returned
<1> QED
  BY <1>1, UsageAddsUp, PTL

\* What is read of a tool's messages is a result of the planner's.
LEMMA ResultsAreKnown ==
  ASSUME IInv, NEW tool \in ToolNames
  PROVE  ExtractToolResult(messages, tool) \in Results
<1>1. ExtractToolResult(messages, tool) = LastResult(asked, tool)
  BY DEF IInv, Agrees
<1>2. CASE CallsOf(asked, tool) = {}
  BY <1>1, <1>2 DEF LastResult, Results
<1>3. CASE CallsOf(asked, tool) # {}
  <2>1. Len(asked) \in Nat /\ DOMAIN asked = 1..Len(asked) /\ asked \in Seq(Entries)
    BY LenProperties DEF IInv, Types
  <2>2. CallsOf(asked, tool) \in SUBSET (1..Len(asked))
    BY <2>1 DEF CallsOf
  <2>3. PICK i \in 1..Len(asked) : i = LastIn(CallsOf(asked, tool))
    BY <1>3, <2>1, <2>2, LastInIsLast
  <2>4. asked[i] \in Entries /\ Asked(asked[i]) /\ agent \in {"weather", "flight"}
    BY <2>1, ElementOfSeq DEF IInv, AllAsked, Types
  <2> QED
    BY <1>1, <1>3, <2>3, <2>4, TextIsKnown DEF LastResult
<1> QED
  BY <1>2, <1>3

\* Every variable of a run has its type, the messages and the node's update
\* included.
THEOREM TypeCorrect == Spec => []TypeOK
<1>1. ASSUME IInv, UsageInv PROVE TypeOK
  <2> DEFINE Updates == [flight_search : Results, status : {"ok", "degraded"}, geocode : Results,
                         weather : Results, not_called : BOOLEAN]
  <2>1. \A tool \in ToolNames : ExtractToolResult(messages, tool) \in Results
    BY <1>1, ResultsAreKnown
  <2>2. Nothing \in Results /\ ToolNames = {"geocode", "get_weather", "search_flights"}
    BY DEF Results, ToolNames
  <2>3. NoUpdate \in Updates
    BY <2>2 DEF NoUpdate
  <2>4. NodeUpdate(messages) \in Updates
    <3>1. CASE agent = "weather"
      <4> DEFINE missing == ExtractToolResult(messages, "get_weather") = Nothing
      <4>1. missing \in BOOLEAN
        OBVIOUS
      <4>2. NodeUpdate(messages) =
              [flight_search |-> Nothing, status |-> "ok",
               geocode |-> ExtractToolResult(messages, "geocode"),
               weather |-> ExtractToolResult(messages, "get_weather"), not_called |-> missing]
        BY <3>1 DEF NodeUpdate, NoUpdate
      <4> HIDE DEF missing
      <4> QED
        BY <2>1, <2>2, <4>1, <4>2
    <3>2. CASE agent # "weather"
      <4> DEFINE result == ExtractToolResult(messages, "search_flights")
                 status == IF result = Unavailable THEN "degraded" ELSE "ok"
      <4>1. NodeUpdate(messages) =
              [flight_search |-> result, status |-> status, geocode |-> Nothing,
               weather |-> Nothing, not_called |-> FALSE]
        BY <3>2 DEF NodeUpdate, NoUpdate
      <4>2. result \in Results /\ status \in {"ok", "degraded"}
        BY <2>1, <2>2
      <4> HIDE DEF result, status
      <4> QED
        BY <2>2, <4>1, <4>2
    <3> QED
      BY <3>1, <3>2
  <2>5. update \in Updates
    BY <1>1, <2>3, <2>4 DEF IInv
  <2>6. tools \subseteq ToolNames
    BY <1>1 DEF IInv, Types, AllowedTools, ToolNames
  <2> QED
    BY <1>1, <2>5, <2>6 DEF IInv, Types, UsageInv, TypeOK, Entries
<1> QED
  BY <1>1, Invariance, UsageAddsUp, PTL

-------------------------------------------------------------------------------
(* What it gives. *)

\* The rule that a tool set is allow-listed: no run is refused its tools, and
\* no result of another agent's tool is in its messages.
THEOREM ScopeHolds == Spec => []ToolsStayInScope
<1>1. IInv => ToolsStayInScope
  BY DEF IInv, Types, InScope, ToolsStayInScope
<1> QED
  BY <1>1, Invariance, PTL

\* The last search of the Flight Agent, when there is one.
LEMMA LastSearchIsAsked ==
  ASSUME IInv, agent = "flight", CallsOf(asked, "search_flights") # {}
  PROVE  /\ Searched = CallsOf(asked, "search_flights")
         /\ LastSearch = asked[LastIn(Searched)]
         /\ LastIn(Searched) \in DOMAIN asked
         /\ LastSearch.call.tool = "search_flights"
         /\ LastSearch \in Entries /\ Asked(LastSearch)
<1>1. Searched = CallsOf(asked, "search_flights")
  BY DEF Searched, CallsOf
<1>2. Len(asked) \in Nat /\ DOMAIN asked = 1..Len(asked) /\ asked \in Seq(Entries)
  BY LenProperties DEF IInv, Types
<1>3. Searched \in SUBSET (1..Len(asked))
  BY <1>2 DEF Searched
<1>4. LastIn(Searched) \in Searched
  BY <1>1, <1>2, <1>3, LastInIsLast
<1>5. LastSearch = asked[LastIn(Searched)]
  BY DEF LastSearch, LastIn
<1>6. LastIn(Searched) \in DOMAIN asked /\ LastSearch.call.tool = "search_flights"
  BY <1>4, <1>5 DEF Searched
<1>7. LastSearch \in Entries /\ Asked(LastSearch)
  BY <1>2, <1>5, <1>6, ElementOfSeq DEF IInv, AllAsked
<1> QED
  BY <1>1, <1>5, <1>6, <1>7

\* What flight_node returns is what the last search was answered.
LEMMA UpdateIsLastAnswer ==
  ASSUME IInv, Returned
  PROVE  update.flight_search = LastAnswer
<1>1. update = NodeUpdate(messages)
  BY DEF IInv
<1>2. CASE agent = "weather"
  BY <1>1, <1>2 DEF NodeUpdate, NoUpdate, LastAnswer, Searched
<1>3. CASE agent = "flight"
  <2>1. update.flight_search = LastResult(asked, "search_flights")
    BY <1>1, <1>3 DEF NodeUpdate, NoUpdate, IInv, Agrees, ToolNames
  <2>2. CASE CallsOf(asked, "search_flights") = {}
    BY <2>1, <2>2 DEF LastResult, LastAnswer, Searched, CallsOf
  <2>3. CASE CallsOf(asked, "search_flights") # {}
    <3>1. Searched = CallsOf(asked, "search_flights") /\ LastSearch = asked[LastIn(Searched)]
      BY <1>3, <2>3, LastSearchIsAsked
    <3> QED
      BY <2>1, <2>3, <3>1 DEF LastResult, LastAnswer, ResultOf
  <2> QED
    BY <2>2, <2>3
<1> QED
  BY <1>2, <1>3 DEF IInv, Types

\* A fare the planner decides about was offered in this run, and no offer that
\* was read with it is cheaper.
THEOREM FaresAreOffered == Spec => []NoInventedFare
<1>1. ASSUME IInv PROVE NoInventedFare
  <2> SUFFICES ASSUME update.flight_search.kind = "fares"
               PROVE  \E i \in DOMAIN asked :
                        LET offers == FaresOf(asked[i].answer, asked[i].call.cabin)
                            fare == update.flight_search.cheapest
                        IN  /\ asked[i].call.tool = "search_flights"
                            /\ fare \in {offers[k] : k \in DOMAIN offers}
                            /\ \A k \in DOMAIN offers : fare.price <= offers[k].price
    BY DEF NoInventedFare
  <2>1. Returned
    BY <1>1 DEF IInv, NoUpdate, Nothing
  <2>2. update.flight_search = LastAnswer
    BY <1>1, <2>1, UpdateIsLastAnswer
  <2>3. agent = "flight" /\ CallsOf(asked, "search_flights") # {}
    <3>1. Searched # {}
      BY <2>2 DEF LastAnswer, Nothing
    <3> QED
      BY <3>1 DEF Searched, CallsOf
  <2>4. /\ LastSearch = asked[LastIn(Searched)] /\ LastIn(Searched) \in DOMAIN asked
        /\ LastSearch.call.tool = "search_flights"
        /\ LastSearch \in Entries /\ Asked(LastSearch) /\ Searched # {}
    BY <1>1, <2>3, LastSearchIsAsked
  <2> DEFINE answer == LastSearch.answer
             cabin == LastSearch.call.cabin
  <2>5. /\ answer # NotAsked
        /\ update.flight_search = SearchFlights(answer, cabin)
        /\ SearchFlights(answer, cabin) \notin {Unavailable, Raised}
    <3>1. update.flight_search = IF TextOf(LastSearch.call, answer) = ErrorText THEN RawText
                                 ELSE TextOf(LastSearch.call, answer)
      BY <2>2, <2>4 DEF LastAnswer
    <3>2. TextOf(LastSearch.call, answer) # ErrorText
      BY <3>1 DEF RawText
    <3>3. TextOf(LastSearch.call, answer) = SearchFlights(answer, cabin) /\ answer # NotAsked
      BY <2>4, <3>2 DEF TextOf
    <3> QED
      BY <3>1, <3>2, <3>3 DEF Unavailable, Raised
  <2>6. answer \in Answers /\ cabin \in CabinClass
    BY <2>4, <2>5 DEF Entries, Asked
  <2>7. PICK k \in DOMAIN FaresOf(answer, cabin) :
          /\ SearchFlights(answer, cabin) = Found(FaresOf(answer, cabin)[k])
          /\ \A j \in DOMAIN FaresOf(answer, cabin) :
               FaresOf(answer, cabin)[k].price <= FaresOf(answer, cabin)[j].price
    BY <2>5, <2>6, SearchIsHonest
  <2>8. update.flight_search.cheapest = FaresOf(answer, cabin)[k]
    BY <2>5, <2>7 DEF Found
  <2> QED
    BY <2>4, <2>7, <2>8
<1> QED
  BY <1>1, Invariance, PTL

\* weather_tool_not_called is recorded when no forecast was asked for, and only
\* then.
THEOREM SignalIsTrue == Spec => []SignalMeansNotCalled
<1>1. ASSUME IInv, Returned, agent = "weather"
      PROVE  update.not_called <=> CallsOf(asked, "get_weather") = {}
  <2>1. update.not_called <=> LastResult(asked, "get_weather") = Nothing
    BY <1>1 DEF IInv, NodeUpdate, NoUpdate, Agrees, ToolNames
  <2>2. CASE CallsOf(asked, "get_weather") = {}
    BY <2>1, <2>2 DEF LastResult
  <2>3. CASE CallsOf(asked, "get_weather") # {}
    <3>1. Len(asked) \in Nat /\ DOMAIN asked = 1..Len(asked) /\ asked \in Seq(Entries)
      BY <1>1, LenProperties DEF IInv, Types
    <3>2. CallsOf(asked, "get_weather") \in SUBSET (1..Len(asked))
      BY <3>1 DEF CallsOf
    <3>3. PICK i \in 1..Len(asked) : i = LastIn(CallsOf(asked, "get_weather"))
      BY <2>3, <3>1, <3>2, LastInIsLast
    <3>4. asked[i] \in Entries /\ Asked(asked[i]) /\ agent \in {"weather", "flight"}
      BY <1>1, <3>1, ElementOfSeq DEF IInv, AllAsked
    <3>5. ResultOf(asked[i]) # Nothing
      BY <3>4, TextIsKnown
    <3> QED
      BY <2>1, <2>3, <3>3, <3>5 DEF LastResult
  <2> QED
    BY <2>2, <2>3
<1>2. IInv => SignalMeansNotCalled
  BY <1>1 DEF SignalMeansNotCalled, CallsOf
<1> QED
  BY <1>2, Invariance, PTL

\* A search that met a failure of its provider found no fare.
LEMMA FailureIsUnavailable ==
  ASSUME NEW reply \in Answers, NEW cabin, reply.kind \in Failures
  PROVE  SearchFlights(reply, cabin) = Unavailable
<1>1. reply.offers = <<>>
  BY DEF Answers, Failures
<1>2. Read(reply) = <<>>
  BY <1>1, SearchAssumption, EmptySeq, SubSeqEmpty DEF Read
<1>3. FaresOf(reply, cabin) = <<>>
  BY <1>2 DEF FaresOf
<1>4. ErrorOf(reply) \in Caught \cup {"none"}
  BY DEF ErrorOf, Failures, Caught
<1> QED
  BY <1>3, <1>4 DEF SearchFlights, Caught

\* When the last search met a failure the request is degraded, whatever the
\* searches before it found.
THEOREM FailuresDegrade == Spec => []FailureDegrades
<1>1. ASSUME IInv, Returned, Searched # {}, LastSearch.answer.kind \in Failures
      PROVE  update.status = "degraded"
  <2>1. agent = "flight" /\ CallsOf(asked, "search_flights") # {}
    BY <1>1 DEF Searched, CallsOf
  <2>2. LastSearch.call.tool = "search_flights" /\ LastSearch \in Entries
    BY <1>1, <2>1, LastSearchIsAsked
  <2>3. SearchFlights(LastSearch.answer, LastSearch.call.cabin) = Unavailable
    BY <1>1, <2>2, FailureIsUnavailable DEF Entries
  <2>4. LastSearch.answer # NotAsked
    BY <1>1 DEF Failures, NotAsked
  <2>5. LastAnswer = Unavailable
    BY <1>1, <2>2, <2>3, <2>4 DEF LastAnswer, TextOf, Unavailable, Raised, ErrorText
  <2>6. update.flight_search = Unavailable
    BY <1>1, <2>5, UpdateIsLastAnswer
  <2> QED
    BY <1>1, <2>1, <2>6 DEF IInv, NodeUpdate, NoUpdate
<1>2. IInv => FailureDegrades
  BY <1>1 DEF FailureDegrades
<1> QED
  BY <1>2, Invariance, PTL

-------------------------------------------------------------------------------
(* The run keeps the promise of AgentPromise. *)

Fares == [price : Nat, cabin : CabinClass]
SearchResults == [kind : {"fares"}, cheapest : Fares] \cup {Unavailable, RawText}

\* The last answer is one a search may leave, once there was a search.
LEMMA LastAnswerIsAResult ==
  ASSUME IInv
  PROVE  IF Searched = {} THEN LastAnswer = Nothing ELSE LastAnswer \in SearchResults
<1>1. CASE Searched = {}
  BY <1>1 DEF LastAnswer
<1>2. CASE Searched # {}
  <2>1. agent = "flight" /\ CallsOf(asked, "search_flights") # {}
    BY <1>2 DEF Searched, CallsOf
  <2>2. LastSearch.call.tool = "search_flights" /\ LastSearch \in Entries /\ Asked(LastSearch)
    BY <2>1, LastSearchIsAsked
  <2> DEFINE text == TextOf(LastSearch.call, LastSearch.answer)
  <2>3. LastAnswer = IF text = ErrorText THEN RawText ELSE text
    BY <1>2 DEF LastAnswer
  <2>4. text \in {ErrorText, Unavailable} \cup [kind : {"fares"}, cheapest : Fares]
    <3>1. CASE LastSearch.answer = NotAsked
      BY <3>1 DEF TextOf
    <3>2. CASE LastSearch.answer # NotAsked
      <4>1. LastSearch.answer \in Answers /\ LastSearch.call.cabin \in CabinClass
        BY <2>2, <3>2 DEF Entries, Asked
      <4>2. text = IF SearchFlights(LastSearch.answer, LastSearch.call.cabin) = Raised THEN ErrorText
                   ELSE SearchFlights(LastSearch.answer, LastSearch.call.cabin)
        BY <2>2, <3>2 DEF TextOf
      <4>3. \/ SearchFlights(LastSearch.answer, LastSearch.call.cabin) \in {Unavailable, Raised}
            \/ \E fare \in Fares :
                 SearchFlights(LastSearch.answer, LastSearch.call.cabin) = Found(fare)
        BY <4>1, SearchIsHonest DEF Fares
      <4>4. ASSUME NEW fare \in Fares PROVE Found(fare) \in [kind : {"fares"}, cheapest : Fares]
        BY DEF Found
      <4> QED
        BY <4>2, <4>3, <4>4
    <3> QED
      BY <3>1, <3>2
  <2> QED
    BY <1>2, <2>3, <2>4 DEF SearchResults
<1> QED
  BY <1>1, <1>2

\* A turn of tool calls is a search or none, and a turn never undoes one.
LEMMA TurnIsASearch ==
  ASSUME IInv, NEW as \in AnswersTo(calls), ToolsAnswer(as),
         IF Searched' = {} THEN LastAnswer' = Nothing ELSE LastAnswer' \in SearchResults
  PROVE  Promise!Search \/ UNCHANGED Promise!promiseVars
<1>1. Outcome = Promise!Pending /\ Outcome' = Outcome
  BY DEF ToolsAnswer, Move, Outcome, Returned, Promise!Pending, Promise!Result, Nothing
<1>2. CASE Searched' # {}
  BY <1>1, <1>2
  DEF Promise!Search, Promise!Result, SearchResults, Fares, Unavailable, RawText
<1>3. CASE Searched' = {}
  <2> DEFINE new == [i \in DOMAIN calls |-> [call |-> calls[i], answer |-> as[i]]]
  <2>1. new \in Seq(Entries) /\ asked \in Seq(Entries)
    BY TurnIsAsked DEF IInv, Types
  <2>2. asked' = asked \o new /\ agent' = agent
    BY DEF ToolsAnswer
  <2> HIDE DEF new
  <2>3. /\ DOMAIN asked = 1..Len(asked) /\ Len(asked) \in Nat /\ Len(new) \in Nat
        /\ DOMAIN asked' = 1..(Len(asked) + Len(new))
        /\ \A i \in 1..(Len(asked) + Len(new)) :
             asked'[i] = IF i <= Len(asked) THEN asked[i] ELSE new[i - Len(asked)]
    BY <2>1, <2>2, ConcatProperties, LenProperties
  <2>4. \A i \in DOMAIN asked : i \in DOMAIN asked' /\ asked'[i] = asked[i]
    BY <2>3
  <2>5. Searched = {}
    BY <1>3, <2>2, <2>4 DEF Searched
  <2>6. LastAnswer' = LastAnswer
    BY <1>3, <2>5 DEF LastAnswer
  <2> QED
    BY <1>1, <2>6 DEF Promise!promiseVars
<1> QED
  BY <1>2, <1>3

\* Whatever the model calls and the services answer, a run of the Flight Agent
\* is searches, of which the last one's result is what flight_node returns, or
\* an exception: the states and the steps the planner's model is built on.
THEOREM AgentKeepsPromise == Spec => KeepsPromise
<1>1. IInv => IF Searched = {} THEN LastAnswer = Nothing ELSE LastAnswer \in SearchResults
  BY LastAnswerIsAResult
<1>2. IInv /\ Returned => update.flight_search = LastAnswer
  BY UpdateIsLastAnswer
<1>3. Init => Promise!Init
  BY DEF Init, Promise!Init, Promise!NotCalled, Promise!Pending, Promise!Result, LastAnswer,
         Searched, Outcome, Returned, Nothing
<1>4. ASSUME IInv, [Next]_vars, IInv',
             (IInv => IF Searched = {} THEN LastAnswer = Nothing ELSE LastAnswer \in SearchResults)',
             (IInv /\ Returned => update.flight_search = LastAnswer)'
      PROVE  [Promise!Next]_(Promise!promiseVars)
  <2>1. ASSUME asked' = asked, agent' = agent PROVE LastAnswer' = LastAnswer
    BY <2>1 DEF LastAnswer, Searched, LastSearch
  <2>2. CASE Build
    <3>1. Outcome' = Outcome /\ asked' = asked /\ agent' = agent
      BY <1>4, <2>2 DEF Build, Move, run, LoadTools, Outcome, Returned
    <3> QED
      BY <2>1, <3>1 DEF Promise!promiseVars
  <2>3. CASE Raise
    <3>1. /\ Outcome = Promise!Pending /\ Outcome' = Raised
          /\ asked' = asked /\ agent' = agent
      BY <2>3 DEF Raise, Move, run, Outcome, Returned, Promise!Pending, Promise!Result, Nothing
    <3> QED
      BY <2>1, <3>1 DEF Promise!Next, Promise!Raise, Promise!Result, Raised
  <2>4. ASSUME NEW tokens \in TokenCounts, NEW cs \in Turns, ModelCallsTools(cs, tokens)
        PROVE  [Promise!Next]_(Promise!promiseVars)
    <3>1. Outcome' = Outcome /\ asked' = asked /\ agent' = agent
      BY <2>4 DEF ModelCallsTools, Move, Outcome, Returned
    <3> QED
      BY <2>1, <3>1 DEF Promise!promiseVars
  <2>5. ASSUME NEW tokens \in TokenCounts, ModelAnswers(tokens) \/ RunOutOfSteps(tokens)
        PROVE  [Promise!Next]_(Promise!promiseVars)
    <3>1. asked' = asked /\ agent' = agent /\ Outcome = Promise!Pending /\ Returned'
      BY <2>5
      DEF ModelAnswers, RunOutOfSteps, Return, Move, Outcome, Returned, Promise!Pending,
          Promise!Result, Nothing
    <3>2. update'.flight_search = LastAnswer'
      BY <1>4, <3>1
    <3>3. Outcome' = update'.flight_search
      BY <3>1 DEF Outcome, Returned
    <3> QED
      BY <2>1, <3>1, <3>2, <3>3 DEF Promise!Next, Promise!Return
  <2>6. ASSUME NEW as \in AnswersTo(calls), ToolsAnswer(as)
        PROVE  [Promise!Next]_(Promise!promiseVars)
    BY <1>4, <2>6, TurnIsASearch DEF Promise!Next
  <2>7. CASE UNCHANGED vars
    <3>1. asked' = asked /\ agent' = agent /\ phase' = phase /\ update' = update
      BY <2>7 DEF vars, run
    <3>2. Outcome' = Outcome
      BY <3>1 DEF Outcome, Returned
    <3> QED
      BY <2>1, <3>1, <3>2 DEF Promise!promiseVars
  <2> QED
    BY <1>4, <2>2, <2>3, <2>4, <2>5, <2>6, <2>7 DEF Next
<1> QED
  BY <1>1, <1>2, <1>3, <1>4, Invariance, PTL DEF Spec, KeepsPromise, Promise!Spec
===============================================================================
