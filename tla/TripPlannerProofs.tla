-------------------------- MODULE TripPlannerProofs ---------------------------
(***************************************************************************)
(* Safety of the trip planner, for every number of trips and retries, every *)
(* configuration of the job levels and every set of requests and fares.    *)
(* The invariants of TripPlanner are not inductive; IInv below is, and it  *)
(* says for one trip at a time what each node may rely on.                 *)
(***************************************************************************)
EXTENDS TripPlanner, TLAPS

-------------------------------------------------------------------------------
(* The cabin ladder and the ruling on a fare. *)

\* The tiers, spelled out.
LEMMA TiersAre == Tiers = {"economy", "premium_economy", "business", "first"}
<1>1. DOMAIN CabinTiers = 1..4 /\ Len(CabinTiers) = 4
  BY DEF CabinTiers
<1>2. 1..4 = {1, 2, 3, 4}
  OBVIOUS
<1> QED
  BY <1>1, <1>2 DEF Tiers, CabinTiers

\* _cabin_rank on each tier, and above them all on anything else.
LEMMA RankOf ==
  /\ CabinRank("economy") = 0
  /\ CabinRank("premium_economy") = 1
  /\ CabinRank("business") = 2
  /\ CabinRank("first") = 3
  /\ \A cabin : cabin \notin Tiers => CabinRank(cabin) = 4
<1>1. Len(CabinTiers) = 4 /\ 1..Len(CabinTiers) = {1, 2, 3, 4}
  BY DEF CabinTiers
<1>2. /\ (CHOOSE i \in 1..Len(CabinTiers) : CabinTiers[i] = "economy") = 1
      /\ (CHOOSE i \in 1..Len(CabinTiers) : CabinTiers[i] = "premium_economy") = 2
      /\ (CHOOSE i \in 1..Len(CabinTiers) : CabinTiers[i] = "business") = 3
      /\ (CHOOSE i \in 1..Len(CabinTiers) : CabinTiers[i] = "first") = 4
  BY <1>1 DEF CabinTiers
<1> QED
  BY <1>1, <1>2, TiersAre DEF CabinRank

\* The next lower cabin is a tier, or there is none.
LEMMA NextLowerCabinType ==
  ASSUME NEW cabin
  PROVE  NextLowerCabin(cabin) \in Tiers \cup {NoCabin}
<1>1. CASE cabin \in Tiers
  BY <1>1, RankOf, TiersAre DEF NextLowerCabin, CabinTiers
<1>2. CASE cabin \notin Tiers
  BY <1>2, RankOf, TiersAre DEF NextLowerCabin, CabinTiers
<1> QED
  BY <1>1, <1>2

\* Each retry of the reflection loop asks for a cabin exactly one tier below
\* the fare's, and there is nothing to ask for only in economy: so the ladder
\* is walked down without a gap, from an unknown cabin too
\* (next_lower_cabin_class).
THEOREM RetryLowersTheCabin ==
  ASSUME NEW cabin
  PROVE  IF cabin = "economy"
         THEN NextLowerCabin(cabin) = NoCabin
         ELSE CabinRank(NextLowerCabin(cabin)) = CabinRank(cabin) - 1
<1>1. CASE cabin \in Tiers
  BY <1>1, RankOf, TiersAre DEF NextLowerCabin, CabinTiers
<1>2. CASE cabin \notin Tiers
  BY <1>2, RankOf, TiersAre DEF NextLowerCabin, CabinTiers
<1> QED
  BY <1>1, <1>2

\* The ruling is monotone: what is no dearer and in no higher a cabin than a
\* fare within policy is within policy.  So when the cheapest fare of a cabin
\* is out of policy, so is every other of that cabin: looking at fares[0]
\* alone loses nothing within a cabin (policy_check_node, evaluate_fare).
THEOREM RulingIsMonotone ==
  ASSUME NEW level \in Levels, NEW international \in BOOLEAN,
         NEW fare \in [price : Nat, cabin : Cabins],
         NEW better \in [price : Nat, cabin : Cabins],
         better.price <= fare.price,
         CabinRank(better.cabin) <= CabinRank(fare.cabin),
         WithinPolicy(level, international, fare)
  PROVE  WithinPolicy(level, international, better)
<1>1. CapUsd(level, international) \in Nat
  BY PolicyAssumption DEF CapUsd
<1>2. \A cabin : CabinRank(cabin) \in 0..4
  BY RankOf, TiersAre
<1> QED
  BY <1>1, <1>2 DEF WithinPolicy

-------------------------------------------------------------------------------
(* The constants. *)

\* The facts about the constants that the steps below rest on.
LEMMA ConstantFacts ==
  /\ NoFare \notin Fares
  /\ NoPrice \notin Nat
  /\ MaxRetries \in Nat
  /\ MaxRestarts \in Nat
  /\ Requests \subseteq RequestRecords
  /\ \A fare \in Fares : fare.price \in Nat /\ fare.cabin \in Cabins
  /\ "no_cabin" \notin Tiers
BY PlannerAssumption, TiersAre

-------------------------------------------------------------------------------
(* The inductive invariant. *)

\* The nodes up to the ruling, and the ends that never reach one.
BeforeRuling ==
  {"idle", "refused", "weather", "flight", "searching", "storing", "policy", "failed"}

\* What the gate knows of trip t: no record before the ruling, a fare in every
\* record, and an approval that policy or an approver stands behind.
GateInv(t) ==
  /\ records[t].status = "none" <=> records[t].fare = NoFare
  /\ pc[t] \in BeforeRuling => records[t] = NoRecord /\ booked[t] = {}
  /\ records[t].status # "none" => pc[t] \in {"completing", "completed"}
  /\ records[t].status = "auto_approved" => InPolicy(t, records[t].fare)
  /\ records[t].status = "approved" => t \in granted
  /\ \A fare \in booked[t] : t \in granted \/ InPolicy(t, fare)
  /\ \A f, g \in booked[t] \cup ({records[t].fare} \ {NoFare}) : f = g

\* How far trip t's reflection loop has come: a search per reflection and one
\* more, an outage leaves no fare behind, and a record is of the fare that the
\* loop ended with.
LoopInv(t) ==
  /\ pc[t] \in {"idle", "weather"} => searches[t] = 0
  /\ pc[t] = "flight" => searches[t] <= reflections[t]
  /\ searches[t] <= reflections[t] + 1
  /\ status[t] = "degraded" =>
       /\ flight[t] = NoFare
       /\ pc[t] \in {"policy", "completing"} \cup Ended
       /\ records[t] = NoRecord /\ booked[t] = {} /\ trail[t].outcome = "none"
  /\ records[t].status # "none" => flight[t] = records[t].fare
  /\ records[t].status = "pending" => ~InPolicy(t, records[t].fare) /\ ~CanReflect(t)

\* What the audit store and the ledger say of trip t, as far as the trip has
\* come and no event of it was lost.
TrailInv(t) ==
  /\ (pc[t] \in BeforeRuling \/ (pc[t] = "completing" /\ records[t].status = "none"))
       => trail[t].final_fare = NoFare /\ trail[t].outcome = "none" /\ booked[t] = {}
  /\ business[t] # NoPrice => records[t].status # "none" /\ business[t] = records[t].fare.price
  /\ t \notin lost =>
       /\ records[t].status # "none" =>
            trail[t].outcome = records[t].status /\ trail[t].final_fare = records[t].fare
       /\ booked[t] \subseteq {trail[t].final_fare}
       /\ pc[t] = "completed" /\ trail[t].final_fare # NoFare
            => trail[t].business = trail[t].final_fare.price

IInv == TypeOK /\ \A t \in Trips : GateInv(t) /\ LoopInv(t) /\ TrailInv(t)

-------------------------------------------------------------------------------
(* Steps, one trip at a time. *)

\* Everything the planner, the gate and the audit store know of trip u stays.
Same(u) ==
  /\ pc'[u] = pc[u] /\ request'[u] = request[u] /\ flight'[u] = flight[u]
  /\ reflections'[u] = reflections[u] /\ status'[u] = status[u]
  /\ business'[u] = business[u] /\ searches'[u] = searches[u]
  /\ records'[u] = records[u] /\ booked'[u] = booked[u] /\ trail'[u] = trail[u]
  /\ (u \in granted') = (u \in granted) /\ (u \in lost') = (u \in lost)

\* The steps that are about one trip.
TripStep(t) ==
  \/ PlannerStep(t) \/ Receive(t) \/ Refuse(t)
  \/ GrantApproval(t) \/ RejectApproval(t) \/ BookTrip(t)

\* A trip's step leaves every other trip alone.
LEMMA OtherTripsStay ==
  ASSUME TypeOK, NEW t \in Trips, TripStep(t), NEW u \in Trips, u # t
  PROVE  Same(u)
<1> USE DEF TypeOK, Move, stateVars, gateVars, auditVars
<1>1. CASE Receive(t) \/ Refuse(t) \/ WeatherNode(t) \/ AgentFails(t)
  BY <1>1 DEF Receive, Refuse, WeatherNode, AgentFails, Same
<1>2. CASE RouteCacheHit(t) \/ RouteCacheMiss(t) \/ \E fare \in Fares : SearchFindsFares(t, fare)
  BY <1>2 DEF RouteCacheHit, RouteCacheMiss, SearchFindsFares, Same
<1>3. CASE SearchUnavailable(t) \/ SearchUnparsed(t) \/ SearchNotCalled(t)
  BY <1>3 DEF SearchUnavailable, SearchUnparsed, SearchNotCalled, Same
<1>4. CASE StoreInRouteCache(t)
  BY <1>4 DEF StoreInRouteCache, RecordFares, Record, Same
<1>5. CASE NoFareToEvaluate(t) \/ AskLowerCabin(t)
  BY <1>5 DEF NoFareToEvaluate, AskLowerCabin, Same
<1>6. CASE ApproveWithinPolicy(t)
  BY <1>6 DEF ApproveWithinPolicy, AutoApprove, Write, RecordOutcome, Record, Same
<1>7. CASE RouteToApprover(t)
  BY <1>7 DEF RouteToApprover, CreatePending, Write, RecordOutcome, Record, Same
<1>8. CASE Complete(t)
  BY <1>8 DEF Complete, RecordBusinessCost, Record, Same
<1>9. CASE GrantApproval(t)
  BY <1>9 DEF GrantApproval, Grant, Write, RecordOutcome, Record, Same
<1>10. CASE RejectApproval(t)
  BY <1>10 DEF RejectApproval, Reject, Write, RecordOutcome, Record, Same
<1>11. CASE BookTrip(t)
  BY <1>11 DEF BookTrip, Book, Same
<1> QED
  BY <1>1, <1>2, <1>3, <1>4, <1>5, <1>6, <1>7, <1>8, <1>9, <1>10, <1>11 DEF TripStep, PlannerStep

\* So for one trip a step is a step of its own, a restart, or nothing.
LEMMA StepOfOneTrip ==
  ASSUME TypeOK, [Next]_vars, NEW u \in Trips
  PROVE  TripStep(u) \/ Same(u) \/ Restart
<1>1. CASE \E t \in Trips : TripStep(t)
  BY <1>1, OtherTripsStay
<1>2. CASE \E k \in Keys : CacheExpire(k)
  BY <1>2 DEF CacheExpire, stateVars, gateVars, auditVars, Same
<1>3. CASE UNCHANGED vars
  BY <1>3 DEF vars, stateVars, gateVars, auditVars, Same
<1> QED
  BY <1>1, <1>2, <1>3 DEF Next, TripStep

-------------------------------------------------------------------------------
(* The type invariant. *)

\* Writing one audit event, or losing it, keeps the types.
LEMMA RecordKeepsType ==
  ASSUME TypeOK, NEW t \in Trips, NEW new \in TrailRecords, Record(t, new)
  PROVE  trail' \in [Trips -> TrailRecords] /\ lost' \subseteq Trips
BY DEF Record, TypeOK

\* An event overwrites fields of the trail that it speaks of.
LEMMA EventsAreTyped ==
  ASSUME NEW old \in TrailRecords, NEW fare \in Fares \cup {NoFare}, NEW s \in Statuses,
         NEW price \in Nat
  PROVE  /\ [old EXCEPT !.candidate = fare] \in TrailRecords
         /\ [old EXCEPT !.outcome = s, !.final_fare = fare] \in TrailRecords
         /\ [old EXCEPT !.business = price] \in TrailRecords
<1>1. [old EXCEPT !.candidate = fare] \in TrailRecords
  BY DEF TrailRecords
<1>2. [old EXCEPT !.outcome = s, !.final_fare = fare] \in TrailRecords
  <2>1. [old EXCEPT !.outcome = s] \in TrailRecords
    BY DEF TrailRecords
  <2>2. [old EXCEPT !.outcome = s, !.final_fare = fare] = [[old EXCEPT !.outcome = s] EXCEPT !.final_fare = fare]
    BY DEF TrailRecords
  <2> QED
    BY <2>1, <2>2 DEF TrailRecords
<1>3. [old EXCEPT !.business = price] \in TrailRecords
  BY DEF TrailRecords
<1> QED
  BY <1>1, <1>2, <1>3

\* The same for a write of an approval record with its event.
LEMMA WriteKeepsType ==
  ASSUME TypeOK, NEW t \in Trips, NEW s \in Statuses, NEW fare \in Fares \cup {NoFare},
         Write(t, s, fare)
  PROVE  /\ records' \in [Trips -> [status : Statuses, fare : Fares \cup {NoFare}]]
         /\ trail' \in [Trips -> TrailRecords]
         /\ lost' \subseteq Trips
<1>1. records' \in [Trips -> [status : Statuses, fare : Fares \cup {NoFare}]]
  BY DEF Write, TypeOK
<1>2. Record(t, [trail[t] EXCEPT !.outcome = s, !.final_fare = fare])
  BY DEF Write, RecordOutcome
<1>3. [trail[t] EXCEPT !.outcome = s, !.final_fare = fare] \in TrailRecords
  <2>1. trail[t] \in TrailRecords /\ 0 \in Nat
    BY DEF TypeOK
  <2> QED
    BY <2>1, EventsAreTyped
<1> QED
  BY <1>1, <1>2, <1>3, RecordKeepsType

\* Every step of the planner and its environment keeps the types.
LEMMA TypeStep == IInv /\ [Next]_vars => TypeOK'
<1> SUFFICES ASSUME IInv, [Next]_vars PROVE TypeOK'
  OBVIOUS
<1> TypeOK
  BY DEF IInv
<1> USE ConstantFacts DEF Running, Ended
<1>1. ASSUME NEW t \in Trips, Receive(t) \/ Refuse(t) \/ WeatherNode(t) \/ AgentFails(t)
      PROVE  TypeOK'
  BY <1>1 DEF TypeOK, Receive, Refuse, WeatherNode, AgentFails, Move, stateVars, gateVars, auditVars
<1>2. ASSUME NEW t \in Trips, RouteCacheHit(t) PROVE TypeOK'
  <2>1. CacheKey(t) \in Keys
    BY DEF TypeOK, CacheKey, Keys, RequestRecords
  <2> QED
    BY <1>2, <2>1 DEF TypeOK, RouteCacheHit, Move, gateVars, auditVars
<1>3. ASSUME NEW t \in Trips, RouteCacheMiss(t) PROVE TypeOK'
  BY <1>3 DEF TypeOK, RouteCacheMiss, Move, stateVars, gateVars, auditVars
<1>4. ASSUME NEW t \in Trips, NEW fare \in Fares, SearchFindsFares(t, fare) PROVE TypeOK'
  BY <1>4 DEF TypeOK, SearchFindsFares, Move, gateVars, auditVars
<1>5. ASSUME NEW t \in Trips, SearchUnavailable(t) \/ SearchUnparsed(t) \/ SearchNotCalled(t)
      PROVE  TypeOK'
  BY <1>5 DEF TypeOK, SearchUnavailable, SearchUnparsed, SearchNotCalled, Move, stateVars,
              gateVars, auditVars
<1>6. ASSUME NEW t \in Trips, StoreInRouteCache(t) PROVE TypeOK'
  <2>1. cache' \in [Keys -> Fares \cup {NoFare}]
    BY <1>6 DEF TypeOK, StoreInRouteCache
  <2>2. Record(t, [trail[t] EXCEPT !.candidate = flight[t]])
    BY <1>6 DEF StoreInRouteCache, RecordFares
  <2>3. [trail[t] EXCEPT !.candidate = flight[t]] \in TrailRecords
    <3>1. trail[t] \in TrailRecords /\ flight[t] \in Fares \cup {NoFare} /\ 0 \in Nat
      BY DEF TypeOK
    <3>2. records[t].status \in Statuses
      BY DEF TypeOK
    <3> QED
      BY <3>1, <3>2, EventsAreTyped
  <2>4. trail' \in [Trips -> TrailRecords] /\ lost' \subseteq Trips
    BY <2>2, <2>3, RecordKeepsType
  <2> QED
    BY <1>6, <2>1, <2>4 DEF TypeOK, StoreInRouteCache, Move, stateVars
<1>7. ASSUME NEW t \in Trips, NoFareToEvaluate(t) PROVE TypeOK'
  BY <1>7 DEF TypeOK, NoFareToEvaluate, Move, stateVars, gateVars, auditVars
<1>8. ASSUME NEW t \in Trips, ApproveWithinPolicy(t) PROVE TypeOK'
  <2>1. flight[t] \in Fares /\ Write(t, "auto_approved", flight[t])
    BY <1>8 DEF TypeOK, ApproveWithinPolicy, AutoApprove
  <2> QED
    BY <1>8, <2>1, WriteKeepsType
    DEF TypeOK, ApproveWithinPolicy, AutoApprove, Move, stateVars, Statuses
<1>9. ASSUME NEW t \in Trips, AskLowerCabin(t) PROVE TypeOK'
  <2>1. NextLowerCabin(flight[t].cabin) \in Cabins
    BY <1>9, NextLowerCabinType DEF AskLowerCabin, CanReflect, Cabins
  <2>2. [request[t] EXCEPT !.cabin = NextLowerCabin(flight[t].cabin)] \in RequestRecords
    <3>1. request[t] \in RequestRecords
      BY DEF TypeOK
    <3> QED
      BY <2>1, <3>1 DEF RequestRecords
  <2>3. request' \in [Trips -> RequestRecords]
    BY <1>9, <2>2 DEF TypeOK, AskLowerCabin
  <2>4. reflections' \in [Trips -> 0..MaxRetries]
    BY <1>9 DEF TypeOK, AskLowerCabin, CanReflect
  <2> QED
    BY <1>9, <2>3, <2>4 DEF TypeOK, AskLowerCabin, Move, gateVars, auditVars
<1>10. ASSUME NEW t \in Trips, RouteToApprover(t) PROVE TypeOK'
  <2>1. flight[t] \in Fares /\ Write(t, "pending", flight[t])
    BY <1>10 DEF TypeOK, RouteToApprover, CreatePending
  <2> QED
    BY <1>10, <2>1, WriteKeepsType
    DEF TypeOK, RouteToApprover, CreatePending, Move, stateVars, Statuses
<1>11. ASSUME NEW t \in Trips, Complete(t) PROVE TypeOK'
  <2>1. CASE records[t].status = "none"
    BY <1>11, <2>1 DEF TypeOK, Complete, Move, stateVars, auditVars
  <2>2. CASE records[t].status # "none"
    <3>1. records[t].fare.price \in Nat
      BY <2>2 DEF IInv, GateInv, TypeOK
    <3>2. /\ Record(t, [trail[t] EXCEPT !.business = records[t].fare.price])
          /\ business' = [business EXCEPT ![t] = records[t].fare.price]
      BY <1>11, <2>2 DEF Complete, RecordBusinessCost
    <3>3. [trail[t] EXCEPT !.business = records[t].fare.price] \in TrailRecords
      <4>1. trail[t] \in TrailRecords /\ flight[t] \in Fares \cup {NoFare}
        BY DEF TypeOK
      <4>2. records[t].status \in Statuses
        BY DEF TypeOK
      <4> QED
        BY <3>1, <4>1, <4>2, EventsAreTyped
    <3>4. trail' \in [Trips -> TrailRecords] /\ lost' \subseteq Trips
      BY <3>2, <3>3, RecordKeepsType
    <3> QED
      BY <1>11, <3>1, <3>2, <3>4 DEF TypeOK, Complete, Move, stateVars
  <2> QED
    BY <2>1, <2>2
<1>12. ASSUME NEW t \in Trips, GrantApproval(t) PROVE TypeOK'
  <2>1. records[t].fare \in Fares \cup {NoFare} /\ Write(t, "approved", records[t].fare)
    BY <1>12 DEF TypeOK, GrantApproval, Grant
  <2> QED
    BY <1>12, <2>1, WriteKeepsType DEF TypeOK, GrantApproval, Grant, stateVars, Statuses
<1>13. ASSUME NEW t \in Trips, RejectApproval(t) PROVE TypeOK'
  <2>1. records[t].fare \in Fares \cup {NoFare} /\ Write(t, "rejected", records[t].fare)
    BY <1>13 DEF TypeOK, RejectApproval, Reject
  <2> QED
    BY <1>13, <2>1, WriteKeepsType DEF TypeOK, RejectApproval, Reject, stateVars, Statuses
<1>14. ASSUME NEW t \in Trips, BookTrip(t) PROVE TypeOK'
  <2>1. records[t].fare \in Fares
    BY <1>14 DEF IInv, GateInv, TypeOK, BookTrip, Book
  <2> QED
    BY <1>14, <2>1 DEF TypeOK, BookTrip, Book, stateVars, auditVars
<1>15. ASSUME NEW k \in Keys, CacheExpire(k) PROVE TypeOK'
  BY <1>15 DEF TypeOK, CacheExpire, stateVars, gateVars, auditVars
<1>16. ASSUME Restart PROVE TypeOK'
  BY <1>16 DEF TypeOK, Restart, GateRestart, NoRecord, Statuses, EmptyCache, stateVars, auditVars
<1>17. CASE UNCHANGED vars
  BY <1>17 DEF TypeOK, vars, stateVars, gateVars, auditVars
<1> QED
  BY <1>1, <1>2, <1>3, <1>4, <1>5, <1>6, <1>7, <1>8, <1>9, <1>10, <1>11, <1>12, <1>13, <1>14,
     <1>15, <1>16, <1>17 DEF Next, PlannerStep
-------------------------------------------------------------------------------
(* What the gate, the loop and the trail know of a trip. *)

\* Nothing happens to a trip that a step is not about.
LEMMA SameKeeps ==
  ASSUME IInv, NEW u \in Trips, Same(u)
  PROVE  GateInv(u)' /\ LoopInv(u)' /\ TrailInv(u)'
<1>1. GateInv(u) /\ LoopInv(u) /\ TrailInv(u)
  BY DEF IInv
<1>2. GateInv(u)'
  BY <1>1 DEF GateInv, Same, InPolicy
<1>3. LoopInv(u)'
  BY <1>1 DEF LoopInv, Same, InPolicy, CanReflect
<1>4. TrailInv(u)'
  BY <1>1 DEF TrailInv, Same
<1> QED
  BY <1>2, <1>3, <1>4

\* A restart drops the record, keeps what was booked, and ends a running trip.
LEMMA RestartKeeps ==
  ASSUME IInv, NEW u \in Trips, Restart
  PROVE  GateInv(u)' /\ LoopInv(u)' /\ TrailInv(u)'
<1>1. GateInv(u) /\ LoopInv(u) /\ TrailInv(u) /\ TypeOK
  BY DEF IInv
<1>2. /\ records'[u] = NoRecord /\ business'[u] = NoPrice
      /\ pc'[u] = IF pc[u] \in Running THEN "lost" ELSE pc[u]
      /\ UNCHANGED <<stateVars, searches, granted, booked, trail, lost>>
  BY DEF Restart, GateRestart, auditVars
<1>3. GateInv(u)'
  BY <1>1, <1>2 DEF GateInv, stateVars, InPolicy, NoRecord, BeforeRuling, Running
<1>4. LoopInv(u)'
  BY <1>1, <1>2 DEF LoopInv, stateVars, InPolicy, CanReflect, NoRecord, Running, Ended
<1>5. TrailInv(u)'
  BY <1>1, <1>2 DEF TrailInv, NoRecord, BeforeRuling, Running
<1> QED
  BY <1>3, <1>4, <1>5

\* A trip's own step keeps what the gate knows of it.
LEMMA GateStep ==
  ASSUME IInv, NEW t \in Trips, TripStep(t)
  PROVE  GateInv(t)'
<1>1. GateInv(t) /\ TypeOK
  BY DEF IInv
<1> USE <1>1, ConstantFacts DEF TypeOK, GateInv, Move, stateVars, gateVars, auditVars
<1>2. CASE Receive(t) \/ Refuse(t) \/ WeatherNode(t) \/ AgentFails(t)
  BY <1>2 DEF Receive, Refuse, WeatherNode, AgentFails, BeforeRuling, InPolicy
<1>3. CASE RouteCacheHit(t) \/ RouteCacheMiss(t) \/ \E fare \in Fares : SearchFindsFares(t, fare)
  BY <1>3 DEF RouteCacheHit, RouteCacheMiss, SearchFindsFares, BeforeRuling, InPolicy
<1>4. CASE SearchUnavailable(t) \/ SearchUnparsed(t) \/ SearchNotCalled(t)
  BY <1>4 DEF SearchUnavailable, SearchUnparsed, SearchNotCalled, BeforeRuling, InPolicy
<1>5. CASE StoreInRouteCache(t)
  BY <1>5 DEF StoreInRouteCache, BeforeRuling, InPolicy
<1>6. CASE NoFareToEvaluate(t)
  BY <1>6 DEF NoFareToEvaluate, BeforeRuling, InPolicy, NoRecord
<1>7. CASE AskLowerCabin(t)
  BY <1>7 DEF AskLowerCabin, BeforeRuling, NoRecord
<1>8. CASE ApproveWithinPolicy(t)
  BY <1>8 DEF ApproveWithinPolicy, AutoApprove, Write, BeforeRuling, InPolicy
<1>9. CASE RouteToApprover(t)
  BY <1>9 DEF RouteToApprover, CreatePending, Write, BeforeRuling, InPolicy
<1>10. CASE Complete(t)
  BY <1>10 DEF Complete, BeforeRuling, InPolicy
<1>11. CASE GrantApproval(t)
  BY <1>11 DEF GrantApproval, Grant, Write, BeforeRuling, InPolicy, NoRecord
<1>12. CASE RejectApproval(t)
  BY <1>12 DEF RejectApproval, Reject, Write, BeforeRuling, InPolicy, NoRecord
<1>13. CASE BookTrip(t)
  <2>1. /\ records[t].status \in {"auto_approved", "approved"}
        /\ booked'[t] = booked[t] \cup {records[t].fare}
        /\ UNCHANGED <<pc, request, flight, reflections, status, records, granted>>
    BY <1>13 DEF BookTrip, Book
  <2> QED
    BY <2>1 DEF BeforeRuling, InPolicy, NoRecord, CanReflect
<1> QED
  BY <1>2, <1>3, <1>4, <1>5, <1>6, <1>7, <1>8, <1>9, <1>10, <1>11, <1>12, <1>13
  DEF TripStep, PlannerStep

\* A trip's own step keeps what is known of its reflection loop.
LEMMA LoopStep ==
  ASSUME IInv, NEW t \in Trips, TripStep(t)
  PROVE  LoopInv(t)'
<1>1. LoopInv(t) /\ GateInv(t) /\ TypeOK
  BY DEF IInv
<1> USE <1>1, ConstantFacts DEF TypeOK, LoopInv, GateInv, Move, stateVars, gateVars, auditVars
<1>2. CASE Receive(t) \/ Refuse(t) \/ WeatherNode(t) \/ AgentFails(t)
  BY <1>2 DEF Receive, Refuse, WeatherNode, AgentFails, BeforeRuling, InPolicy, CanReflect,
              NoRecord, Ended
<1>3. CASE RouteCacheHit(t) \/ RouteCacheMiss(t) \/ \E fare \in Fares : SearchFindsFares(t, fare)
  BY <1>3 DEF RouteCacheHit, RouteCacheMiss, SearchFindsFares, BeforeRuling, NoRecord, Ended
<1>4. CASE SearchUnavailable(t) \/ SearchUnparsed(t) \/ SearchNotCalled(t)
  <2>1. pc[t] \in BeforeRuling
    BY <1>4 DEF SearchUnavailable, SearchUnparsed, SearchNotCalled, BeforeRuling
  <2>2. trail[t].outcome = "none" /\ records[t] = NoRecord /\ booked[t] = {}
    BY <2>1 DEF IInv, TrailInv
  <2> QED
    BY <1>4, <2>2 DEF SearchUnavailable, SearchUnparsed, SearchNotCalled, NoRecord, Ended
<1>5. CASE StoreInRouteCache(t)
  BY <1>5 DEF StoreInRouteCache, BeforeRuling, NoRecord, Ended
<1>6. CASE NoFareToEvaluate(t)
  BY <1>6 DEF NoFareToEvaluate, BeforeRuling, NoRecord, Ended
<1>7. CASE AskLowerCabin(t)
  BY <1>7 DEF AskLowerCabin, BeforeRuling, NoRecord, Ended
<1>8. CASE ApproveWithinPolicy(t)
  BY <1>8 DEF ApproveWithinPolicy, AutoApprove, Write, Ended
<1>9. CASE RouteToApprover(t)
  BY <1>9 DEF RouteToApprover, CreatePending, Write, InPolicy, CanReflect, Ended
<1>10. CASE Complete(t)
  BY <1>10 DEF Complete, InPolicy, CanReflect, Ended, NoRecord, RecordBusinessCost, Record
<1>11. CASE GrantApproval(t)
  BY <1>11 DEF GrantApproval, Grant, Write, Ended, NoRecord
<1>12. CASE RejectApproval(t)
  BY <1>12 DEF RejectApproval, Reject, Write, Ended, NoRecord
<1>13. CASE BookTrip(t)
  BY <1>13 DEF BookTrip, Book, InPolicy, CanReflect, Ended, NoRecord
<1> QED
  BY <1>2, <1>3, <1>4, <1>5, <1>6, <1>7, <1>8, <1>9, <1>10, <1>11, <1>12, <1>13
  DEF TripStep, PlannerStep

\* After a write the trail shows the record, or the trip's event is lost.
LEMMA WriteShows ==
  ASSUME TypeOK, NEW t \in Trips, NEW s, NEW fare, Write(t, s, fare)
  PROVE  /\ records'[t] = [status |-> s, fare |-> fare]
         /\ t \notin lost' => /\ t \notin lost
                             /\ trail'[t].outcome = s /\ trail'[t].final_fare = fare
                             /\ trail'[t].business = trail[t].business
<1>1. records'[t] = [status |-> s, fare |-> fare]
  BY DEF Write, TypeOK
<1>2. CASE t \notin lost'
  <2> DEFINE new == [trail[t] EXCEPT !.outcome = s, !.final_fare = fare]
  <2>1. t \notin lost /\ trail' = [trail EXCEPT ![t] = new]
    BY <1>2 DEF Write, RecordOutcome, Record
  <2>2. trail'[t] = new
    BY <2>1 DEF TypeOK
  <2>3. trail[t] \in TrailRecords
    BY DEF TypeOK
  <2>4. new.outcome = s /\ new.final_fare = fare /\ new.business = trail[t].business
    BY <2>3 DEF TrailRecords
  <2> QED
    BY <1>1, <2>1, <2>2, <2>4
<1> QED
  BY <1>1, <1>2

\* A trip's own step keeps what its audit trail and its costs say.
LEMMA TrailStep ==
  ASSUME IInv, NEW t \in Trips, TripStep(t)
  PROVE  TrailInv(t)'
<1>1. TrailInv(t) /\ GateInv(t) /\ TypeOK
  BY DEF IInv
<1> USE <1>1, ConstantFacts
    DEF TypeOK, TrailInv, TrailRecords, Move, stateVars, gateVars, auditVars
<1>2. CASE Receive(t) \/ Refuse(t) \/ WeatherNode(t) \/ AgentFails(t)
  BY <1>2 DEF Receive, Refuse, WeatherNode, AgentFails, BeforeRuling
<1>3. CASE RouteCacheHit(t) \/ RouteCacheMiss(t) \/ \E fare \in Fares : SearchFindsFares(t, fare)
  BY <1>3 DEF RouteCacheHit, RouteCacheMiss, SearchFindsFares, BeforeRuling
<1>4. CASE SearchUnavailable(t) \/ SearchUnparsed(t) \/ SearchNotCalled(t)
  BY <1>4 DEF SearchUnavailable, SearchUnparsed, SearchNotCalled, BeforeRuling
<1>5. CASE StoreInRouteCache(t)
  BY <1>5 DEF StoreInRouteCache, RecordFares, Record, BeforeRuling, GateInv, NoRecord
<1>6. CASE NoFareToEvaluate(t) \/ AskLowerCabin(t)
  BY <1>6 DEF NoFareToEvaluate, AskLowerCabin, BeforeRuling
<1>7. CASE ApproveWithinPolicy(t)
  <2>1. Write(t, "auto_approved", flight[t])
    BY <1>7 DEF ApproveWithinPolicy, AutoApprove
  <2>2. /\ records'[t] = [status |-> "auto_approved", fare |-> flight[t]]
        /\ t \notin lost' => /\ t \notin lost
                            /\ trail'[t].outcome = "auto_approved" /\ trail'[t].final_fare = flight[t]
                            /\ trail'[t].business = trail[t].business
    BY <2>1, WriteShows, <1>1
  <2> QED
    BY <1>7, <2>2 DEF ApproveWithinPolicy, AutoApprove, BeforeRuling, GateInv
<1>8. CASE RouteToApprover(t)
  <2>1. Write(t, "pending", flight[t])
    BY <1>8 DEF RouteToApprover, CreatePending
  <2>2. /\ records'[t] = [status |-> "pending", fare |-> flight[t]]
        /\ t \notin lost' => /\ t \notin lost
                            /\ trail'[t].outcome = "pending" /\ trail'[t].final_fare = flight[t]
                            /\ trail'[t].business = trail[t].business
    BY <2>1, WriteShows, <1>1
  <2> QED
    BY <1>8, <2>2 DEF RouteToApprover, CreatePending, BeforeRuling, GateInv
<1>9. CASE Complete(t)
  BY <1>9 DEF Complete, RecordBusinessCost, Record, BeforeRuling, GateInv
<1>10. CASE GrantApproval(t)
  <2>1. Write(t, "approved", records[t].fare)
    BY <1>10 DEF GrantApproval, Grant
  <2>2. /\ records'[t] = [status |-> "approved", fare |-> records[t].fare]
        /\ t \notin lost' => /\ t \notin lost
                            /\ trail'[t].outcome = "approved" /\ trail'[t].final_fare = records[t].fare
                            /\ trail'[t].business = trail[t].business
    BY <2>1, WriteShows, <1>1
  <2> QED
    BY <1>10, <2>2 DEF GrantApproval, Grant, BeforeRuling, GateInv, NoRecord
<1>11. CASE RejectApproval(t)
  <2>1. Write(t, "rejected", records[t].fare)
    BY <1>11 DEF RejectApproval, Reject
  <2>2. /\ records'[t] = [status |-> "rejected", fare |-> records[t].fare]
        /\ t \notin lost' => /\ t \notin lost
                            /\ trail'[t].outcome = "rejected" /\ trail'[t].final_fare = records[t].fare
                            /\ trail'[t].business = trail[t].business
    BY <2>1, WriteShows, <1>1
  <2> QED
    BY <1>11, <2>2 DEF RejectApproval, Reject, BeforeRuling, GateInv, NoRecord
<1>12. CASE BookTrip(t)
  BY <1>12 DEF BookTrip, Book, BeforeRuling, GateInv, NoRecord
<1> QED
  BY <1>2, <1>3, <1>4, <1>5, <1>6, <1>7, <1>8, <1>9, <1>10, <1>11, <1>12
  DEF TripStep, PlannerStep
-------------------------------------------------------------------------------
(* The theorems. *)

\* IInv is inductive.
THEOREM Invariance == Spec => []IInv
<1>1. Init => IInv
  <2> SUFFICES ASSUME Init PROVE IInv
    OBVIOUS
  <2> USE ConstantFacts DEF Init, GateInit, AuditInit, EmptyTrail, NoRecord
  <2>1. TypeOK
    BY DEF TypeOK, TrailRecords, Statuses, EmptyCache, Running, Ended
  <2>2. ASSUME NEW t \in Trips PROVE GateInv(t) /\ LoopInv(t) /\ TrailInv(t)
    <3>1. GateInv(t)
      BY DEF GateInv
    <3>2. LoopInv(t)
      BY DEF LoopInv
    <3>3. TrailInv(t)
      BY DEF TrailInv
    <3> QED
      BY <3>1, <3>2, <3>3
  <2> QED
    BY <2>1, <2>2 DEF IInv
<1>2. IInv /\ [Next]_vars => IInv'
  <2> SUFFICES ASSUME IInv, [Next]_vars PROVE IInv'
    OBVIOUS
  <2>1. TypeOK'
    BY TypeStep
  <2>2. ASSUME NEW u \in Trips PROVE GateInv(u)' /\ LoopInv(u)' /\ TrailInv(u)'
    <3>1. TripStep(u) \/ Same(u) \/ Restart
      BY StepOfOneTrip DEF IInv
    <3> QED
      BY <3>1, GateStep, LoopStep, TrailStep, SameKeeps, RestartKeeps
  <2> QED
    BY <2>1, <2>2 DEF IInv
<1> QED
  BY <1>1, <1>2, PTL DEF Spec

\* Every variable keeps its type.
THEOREM TypeCorrect == Spec => []TypeOK
<1>1. IInv => TypeOK
  BY DEF IInv
<1> QED
  BY <1>1, Invariance, PTL

\* Nothing is approved without a human but what the employee's own caps and
\* cabin allow, whoever searched for it first.
THEOREM PolicyHolds == Spec => []AutoApprovedIsInPolicy
<1>1. IInv => AutoApprovedIsInPolicy
  BY DEF IInv, GateInv, AutoApprovedIsInPolicy
<1> QED
  BY <1>1, Invariance, PTL

\* Nothing is booked but what policy allows or an approver granted.
THEOREM BookingIsAuthorised == Spec => []BookedIsAuthorised
<1>1. IInv => BookedIsAuthorised
  BY DEF IInv, GateInv, BookedIsAuthorised
<1> QED
  BY <1>1, Invariance, PTL

\* A trip's record and all its bookings are of one fare.
THEOREM TripHasOneFare == Spec => []OneFarePerTrip
<1>1. IInv => OneFarePerTrip
  BY DEF IInv, GateInv, OneFarePerTrip
<1> QED
  BY <1>1, Invariance, PTL

\* A request that met an outage is never decided.
THEOREM OutageMeansNoDecision == Spec => []DegradedIsUndecided
<1>1. IInv => DegradedIsUndecided
  BY DEF IInv, LoopInv, DegradedIsUndecided
<1> QED
  BY <1>1, Invariance, PTL

\* An approver is asked only after the reflection loop has run out.
THEOREM ApproverIsLastResort == Spec => []PendingIsLastResort
<1>1. IInv => PendingIsLastResort
  BY DEF IInv, LoopInv, PendingIsLastResort
<1> QED
  BY <1>1, Invariance, PTL

\* The reflection loop costs at most MaxRetries + 1 runs of the Flight Agent.
THEOREM LoopIsBounded == Spec => []SearchesAreBounded
<1>1. IInv => SearchesAreBounded
  <2> SUFFICES ASSUME IInv, NEW t \in Trips PROVE searches[t] <= MaxRetries + 1
    BY DEF SearchesAreBounded
  <2>1. searches[t] \in Nat /\ reflections[t] \in 0..MaxRetries
    BY DEF IInv, TypeOK
  <2>2. searches[t] <= reflections[t] + 1
    BY DEF IInv, LoopInv
  <2> QED
    BY <2>1, <2>2, ConstantFacts
<1> QED
  BY <1>1, Invariance, PTL

\* Without a lost event, the audit trail shows the live record and what was booked.
THEOREM TrailIsFaithful == Spec => []TrailTellsTheOutcome
<1>1. IInv => TrailTellsTheOutcome
  BY DEF IInv, TrailInv, TrailTellsTheOutcome
<1> QED
  BY <1>1, Invariance, PTL

\* The ledger and the trail show the price of the one fare of the trip.
THEOREM CostIsFaithful == Spec => []CostIsTheFares
<1>1. IInv => CostIsTheFares
  BY DEF IInv, TrailInv, CostIsTheFares
<1> QED
  BY <1>1, Invariance, PTL

\* The nodes of the chain, counted from its end.
LEMMA PlaceOf ==
  /\ Place["weather"] = 6 /\ Place["flight"] = 5 /\ Place["searching"] = 4
  /\ Place["storing"] = 3 /\ Place["policy"] = 2 /\ Place["completing"] = 1
BY DEF Place, Running

\* A step of the planner for a request uses up one of the steps it has left.
LEMMA PlannerProgress ==
  ASSUME TypeOK, NEW t \in Trips, PlannerStep(t)
  PROVE  StepsLeft(t)' < StepsLeft(t)
<1>1. /\ reflections[t] \in 0..MaxRetries /\ MaxRetries \in Nat
      /\ pc \in [Trips -> {"idle"} \cup Running \cup Ended] /\ reflections \in [Trips -> 0..MaxRetries]
  BY ConstantFacts DEF TypeOK
<1> DEFINE Left(n, r) == IF n \in Running THEN Place[n] + 4 * (MaxRetries - r) ELSE 0
<1>2. StepsLeft(t) = Left(pc[t], reflections[t]) /\ StepsLeft(t)' = Left(pc'[t], reflections'[t])
  BY DEF StepsLeft, Place
\* Steps along the chain.
<1>3. ASSUME reflections' = reflections, NEW from \in Running, NEW to \in Running \cup Ended,
             Move(t, from, to), to \in Running => Place[to] < Place[from]
      PROVE  StepsLeft(t)' < StepsLeft(t)
  <2>1. pc[t] = from /\ pc'[t] = to /\ reflections'[t] = reflections[t]
    BY <1>1, <1>3 DEF Move
  <2>2. Place[from] \in 1..6 /\ (to \in Running => Place[to] \in 1..6)
    BY PlaceOf DEF Running
  <2>3. 4 * (MaxRetries - reflections[t]) \in Nat
    BY <1>1
  <2>4. StepsLeft(t) = Place[from] + 4 * (MaxRetries - reflections[t])
    BY <1>2, <2>1
  <2>5. CASE to \in Running
    <3>1. StepsLeft(t)' = Place[to] + 4 * (MaxRetries - reflections[t])
      BY <1>2, <2>1, <2>5
    <3> QED
      BY <1>3, <2>2, <2>3, <2>4, <2>5, <3>1
  <2>6. CASE to \notin Running
    <3>1. StepsLeft(t)' = 0
      BY <1>2, <2>1, <2>6
    <3> QED
      BY <2>2, <2>3, <2>4, <3>1
  <2> QED
    BY <2>5, <2>6
<1>4. CASE WeatherNode(t) \/ AgentFails(t)
  BY <1>3, <1>4, PlaceOf DEF WeatherNode, AgentFails, stateVars, Running, Ended
<1>5. CASE RouteCacheHit(t) \/ RouteCacheMiss(t) \/ \E fare \in Fares : SearchFindsFares(t, fare)
  BY <1>3, <1>5, PlaceOf DEF RouteCacheHit, RouteCacheMiss, SearchFindsFares, stateVars, Running
<1>6. CASE SearchUnavailable(t) \/ SearchUnparsed(t) \/ SearchNotCalled(t) \/ StoreInRouteCache(t)
  BY <1>3, <1>6, PlaceOf
  DEF SearchUnavailable, SearchUnparsed, SearchNotCalled, StoreInRouteCache, stateVars, Running
<1>7. CASE NoFareToEvaluate(t) \/ ApproveWithinPolicy(t) \/ RouteToApprover(t) \/ Complete(t)
  BY <1>3, <1>7, PlaceOf
  DEF NoFareToEvaluate, ApproveWithinPolicy, RouteToApprover, Complete, stateVars, Running, Ended
\* The edge back to flight_search costs a reflection.
<1>8. CASE AskLowerCabin(t)
  <2>1. /\ pc[t] = "policy" /\ pc'[t] = "flight"
        /\ reflections'[t] = reflections[t] + 1 /\ reflections[t] < MaxRetries
    BY <1>1, <1>8 DEF AskLowerCabin, Move, CanReflect
  <2>2. /\ StepsLeft(t) = 2 + 4 * (MaxRetries - reflections[t])
        /\ StepsLeft(t)' = 5 + 4 * (MaxRetries - (reflections[t] + 1))
    BY <1>2, <2>1, PlaceOf DEF Running
  <2> QED
    BY <1>1, <2>2
<1> QED
  BY <1>4, <1>5, <1>6, <1>7, <1>8 DEF PlannerStep

\* No running request is taken back, by its own steps or by anybody else's.
THEOREM RequestsOnlyProgress == Spec => EveryStepIsProgress
<1> DEFINE Step ==
      \A t \in Trips : pc[t] \in Running =>
        \/ StepsLeft(t)' < StepsLeft(t)
        \/ pc'[t] = pc[t] /\ StepsLeft(t)' = StepsLeft(t)
<1>1. IInv /\ [Next]_vars => [Step]_vars
  <2> SUFFICES ASSUME IInv, [Next]_vars, NEW t \in Trips, pc[t] \in Running
               PROVE  \/ StepsLeft(t)' < StepsLeft(t)
                      \/ pc'[t] = pc[t] /\ StepsLeft(t)' = StepsLeft(t)
    OBVIOUS
  <2>1. TypeOK
    BY DEF IInv
  <2>2. TripStep(t) \/ Same(t) \/ Restart
    BY <2>1, StepOfOneTrip
  <2>3. CASE PlannerStep(t)
    BY <2>1, <2>3, PlannerProgress
  <2>4. CASE Receive(t) \/ Refuse(t)
    BY <2>4 DEF Receive, Refuse, Move, Running
  <2>5. CASE Same(t) \/ GrantApproval(t) \/ RejectApproval(t) \/ BookTrip(t)
    <3>1. pc'[t] = pc[t] /\ reflections'[t] = reflections[t]
      BY <2>5 DEF Same, GrantApproval, RejectApproval, BookTrip, stateVars
    <3> QED
      BY <3>1 DEF StepsLeft, Place
  <2>6. CASE Restart
    <3>1. pc'[t] = "lost"
      BY <2>6 DEF Restart
    <3>2. StepsLeft(t)' = 0
      BY <3>1 DEF StepsLeft, Running
    <3>3. StepsLeft(t) > 0
      <4>1. reflections[t] \in 0..MaxRetries /\ MaxRetries \in Nat
        BY <2>1, ConstantFacts DEF TypeOK
      <4>2. Place[pc[t]] \in 1..6
        BY PlaceOf DEF Running
      <4>3. StepsLeft(t) = Place[pc[t]] + 4 * (MaxRetries - reflections[t])
        BY DEF StepsLeft
      <4> QED
        BY <4>1, <4>2, <4>3
    <3> QED
      BY <3>2, <3>3
  <2> QED
    BY <2>2, <2>3, <2>4, <2>5, <2>6 DEF TripStep
<1> QED
  BY <1>1, Invariance, PTL DEF Spec, EveryStepIsProgress
===============================================================================
