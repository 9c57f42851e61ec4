----------------------------- MODULE FlightSearch -----------------------------
(***************************************************************************)
(* search_flights, tools/flight_tools.py: one answer of a flight provider, *)
(* turned into what the tool returns.  Of a fare only its price and cabin  *)
(* matter later, and of a list of fares only its first, the cheapest.      *)
(***************************************************************************)
EXTENDS Naturals, Sequences

CONSTANTS Provider,    \* active_flight_provider()
          MaxOffers,   \* how many offers of an answer are read: offers[:10]
          NoFare,      \* a result without fares
          Missing,     \* the total_amount of an offer that has none,
          Null,        \* ... that is null,
          Garbled      \* ... that is a text float() does not take

CabinClass == {"economy", "premium_economy", "business", "first"}
Providers == {"duffel", "aviationstack"}
\* What a search meets: no key in the environment, or one of these answers.
Kinds == {"no_key", "offers", "error_body", "null_data", "no_json", "http_error", "timeout"}

ASSUME SearchAssumption ==
  /\ MaxOffers \in Nat
  /\ {Missing, Null, Garbled} \cap Nat = {}
  /\ Missing \notin {Null, Garbled}
  /\ NoFare \notin [price : Nat, cabin : CabinClass]

EstimatedBaseFare ==
  [economy |-> 250, premium_economy |-> 450, business |-> 1400, first |-> 3000]

\* Only the first offers are read, in the provider's order.
Read(reply) ==
  SubSeq(reply.offers, 1, IF Len(reply.offers) < MaxOffers THEN Len(reply.offers) ELSE MaxOffers)

\* The offers at which reading an amount raises.
Unreadable(reply) ==
  {i \in DOMAIN Read(reply) : Provider = "duffel" /\ Read(reply)[i] \in {Null, Garbled}}

FirstOf(indices) == CHOOSE i \in indices : \A j \in indices : i <= j

\* What the provider's adapter raises over an answer, if anything.
ErrorOf(reply) ==
  CASE reply.kind = "no_key" -> "FlightProviderError"
    [] reply.kind = "http_error" -> "HTTPError"
    [] reply.kind = "timeout" -> "TimeoutException"
    [] reply.kind = "no_json" -> "ValueError"
    [] reply.kind = "error_body" /\ Provider = "aviationstack" -> "FlightProviderError"
    [] reply.kind = "null_data" ->
         IF Provider = "duffel" THEN "AttributeError" ELSE "TypeError"
    [] reply.kind = "offers" /\ Unreadable(reply) # {} ->
         IF Read(reply)[FirstOf(Unreadable(reply))] = Null THEN "TypeError" ELSE "ValueError"
    [] OTHER -> "none"

\* Mutant: a body that is no JSON is not expected.
CaughtOfHttp == {"FlightProviderError", "HTTPError", "TimeoutException", "KeyError"}

\* The exceptions search_flights expects.
Caught == {"FlightProviderError", "HTTPError", "TimeoutException", "KeyError", "ValueError"}

\* An offer without a total_amount costs 0.0; aviationstack quotes no prices.
PriceUsd(amount, cabin) ==
  IF Provider = "aviationstack" THEN EstimatedBaseFare[cabin]
  ELSE IF amount = Missing THEN 0 ELSE amount

FaresOf(reply, cabin) ==
  [i \in DOMAIN Read(reply) |-> [price |-> PriceUsd(Read(reply)[i], cabin), cabin |-> cabin]]

\* Mutant: the fares keep the provider's order.
AsOffered(fares) == fares[1]

\* sorted(fares, key = price)[0].
Cheapest(fares) ==
  fares[FirstOf({i \in DOMAIN fares : \A j \in DOMAIN fares : fares[i].price <= fares[j].price})]

Unavailable == [kind |-> "outage", cheapest |-> NoFare]
Raised == [kind |-> "raised", cheapest |-> NoFare]
Found(fare) == [kind |-> "fares", cheapest |-> fare]

\* search_flights as a whole: a result, or the exception it lets through.
SearchFlights(reply, cabin) ==
  CASE Provider \notin Providers \/ ErrorOf(reply) \in Caught -> Unavailable
    [] Provider \in Providers /\ ErrorOf(reply) \notin Caught \cup {"none"} -> Raised
    [] Provider \in Providers /\ ErrorOf(reply) = "none" ->
         IF FaresOf(reply, cabin) = <<>> THEN Unavailable ELSE Found(Cheapest(FaresOf(reply, cabin)))
===============================================================================
