----------------------------- MODULE MCFlightNode -----------------------------
(***************************************************************************)
(* Small instances of FlightNode: one route in two spellings, two cabins,  *)
(* and an in-process cache that holds one entry.                           *)
(***************************************************************************)
EXTENDS FlightNode, TLC

CONSTANTS t1, t2

TwoTrips == {t1, t2}
TripSymmetry == Permutations(TwoTrips)
MCRoutes == {"SFO-JFK", "sfo-jfk"}
MCUpper == [r \in MCRoutes |-> "SFO-JFK"]
MCCabins == {"economy", "business"}
MCRequests == {[route |-> "SFO-JFK", cabin |-> "business"], [route |-> "sfo-jfk", cabin |-> "economy"]}
MCLowerCabins == {"economy"}
MCFares == {"fares"}
MCCosts == {1}
===============================================================================
