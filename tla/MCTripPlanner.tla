---------------------------- MODULE MCTripPlanner -----------------------------
(***************************************************************************)
(* Small instances of TripPlanner.  The caps are those of                  *)
(* config/guardrails.yaml, the fares sit on both sides of them.            *)
(***************************************************************************)
EXTENDS TripRefinement, TLC

CONSTANTS t1, t2

MCLevels == {"ic", "manager", "director"}
MCMaxCabin == [ic |-> "economy", manager |-> "premium_economy", director |-> "business"]
MCDomesticCap == [ic |-> 600, manager |-> 1200, director |-> 2500]
MCInternationalCap == [ic |-> 1800, manager |-> 3500, director |-> 6000]

Req(level, international, cabin) ==
  [level |-> level, international |-> international, route |-> "SFO-JFK", cabin |-> cabin]
Fare(price, cabin) == [price |-> price, cabin |-> cabin]

OneTrip == {t1}
TwoTrips == {t1, t2}
TripSymmetry == Permutations(TwoTrips)
MCRoutes == {"SFO-JFK"}

\* Two employees who differ in what they may book, on one route.
TwoRequests == {Req("ic", FALSE, "premium_economy"), Req("manager", FALSE, "premium_economy")}

\* At the lower cap in a cabin only the manager may use, and above that cap in the
\* cabin both may use: the other employee may have neither, each for one reason.
TwoFares == {Fare(600, "premium_economy"), Fare(601, "economy")}

\* One request in each cabin, known or not, for one employee after another.
AllRequests ==
  {Req(l, i, c) : l \in {"ic", "director"}, i \in BOOLEAN, c \in {"economy", "first", "unlisted"}}
SomeFares ==
  {Fare(600, "economy"), Fare(1801, "economy"), Fare(2500, "business"), Fare(2501, "first")}
===============================================================================
