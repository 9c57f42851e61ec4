------------------------------ MODULE MCAgentRun ------------------------------
(***************************************************************************)
(* Small instances of AgentRun: three offers are read where the code reads *)
(* ten, and every kind of answer a service may give is there.              *)
(***************************************************************************)
EXTENDS AgentRun

Answer(kind) == [kind |-> kind, offers |-> <<>>]
Offers(amounts) == [kind |-> "offers", offers |-> amounts]

\* A cheaper offer after the ones read, an offer without a price, offers no
\* amount can be read of, and no offer at all.
SomeReplies ==
  {Offers(<<500, 400, 300>>), Offers(<<400, Missing>>), Offers(<<500, Null>>), Offers(<<Garbled>>)}
  \cup {Answer(kind) : kind \in Kinds \ {"offers", "timeout"}}

MCReplies ==
  [geocode |-> {Answer("found"), Answer("not_found"), Answer("http_error")},
   get_weather |-> {Answer("found"), Answer("http_error")},
   search_flights |-> SomeReplies]

MCServed == ToolNames
MCAskedCabins == {"economy", "unlisted"}
MCTokenCounts == {3}
===============================================================================
