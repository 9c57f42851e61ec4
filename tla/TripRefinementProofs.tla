------------------------- MODULE TripRefinementProofs -------------------------
(***************************************************************************)
(* TripPlanner implements TripApproval, for every value of the constants.  *)
(***************************************************************************)
EXTENDS TripRefinement, TripPlannerProofs

\* The planner changes the cabin of a request, never its level or its caps.
LEMMA AllowedIsConstant ==
  ASSUME IInv, [Next]_vars
  PROVE  Allowed' = Allowed
<1>1. SUFFICES ASSUME NEW t \in Trips
               PROVE  /\ request'[t].level = request[t].level
                      /\ request'[t].international = request[t].international
  BY DEF Allowed, InPolicy
<1>2. TypeOK
  BY DEF IInv
<1>3. CASE TripStep(t)
  <2>1. CASE AskLowerCabin(t)
    <3>1. request[t] \in RequestRecords
      BY <1>2 DEF TypeOK
    <3>2. request'[t] = [request[t] EXCEPT !.cabin = NextLowerCabin(flight[t].cabin)]
      BY <1>2, <2>1 DEF TypeOK, AskLowerCabin
    <3> QED
      BY <3>1, <3>2 DEF RequestRecords
  <2>2. CASE ~AskLowerCabin(t)
    <3>1. request' = request
      BY <1>3, <2>2
      DEF TripStep, PlannerStep, Receive, Refuse, WeatherNode, AgentFails, RouteCacheHit,
          RouteCacheMiss, SearchFindsFares, SearchUnavailable, SearchUnparsed, SearchNotCalled,
          StoreInRouteCache, NoFareToEvaluate, ApproveWithinPolicy, RouteToApprover, Complete,
          GrantApproval, RejectApproval, BookTrip, stateVars
    <3> QED
      BY <3>1
  <2> QED
    BY <2>1, <2>2
<1>4. CASE Same(t)
  BY <1>4 DEF Same
<1>5. CASE Restart
  BY <1>5 DEF Restart, stateVars
<1> QED
  BY <1>2, <1>3, <1>4, <1>5, StepOfOneTrip

\* A step of trip t is, for the promise, a step of trip t alone.
LEMMA OtherDecisionsStay ==
  ASSUME IInv, NEW t \in Trips, TripStep(t)
  PROVE  Decision' = [Decision EXCEPT ![t] = DecisionOf(t)']
<1>1. \A u \in Trips \ {t} : DecisionOf(u)' = DecisionOf(u)
  BY OtherTripsStay DEF IInv, Same, DecisionOf
<1> QED
  BY <1>1 DEF Decision

\* A restart is one Forget: it closes what was decided and what was running.
LEMMA RestartForgets ==
  ASSUME IInv, Restart, Allowed' = Allowed
  PROVE  Approval!Forget
<1> DEFINE running == {t \in Trips : Decision[t] = Approval!Undecided /\ pc[t] \in Running}
<1>1. running \in SUBSET {t \in Trips : Decision[t] = Approval!Undecided}
  OBVIOUS
<1>2. ASSUME NEW t \in Trips
      PROVE  DecisionOf(t)' = IF Decision[t] = Approval!Undecided /\ t \notin running
                              THEN Approval!Undecided ELSE Approval!Closed
  <2>1. records'[t] = NoRecord /\ pc'[t] = IF pc[t] \in Running THEN "lost" ELSE pc[t]
    BY DEF Restart, GateRestart
  <2>2. GateInv(t) /\ TypeOK
    BY DEF IInv
  <2>3. Decision[t] = DecisionOf(t)
    BY DEF Decision
  <2>4. CASE records[t].status = "none"
    BY <2>1, <2>2, <2>3, <2>4
    DEF DecisionOf, NoRecord, Approval!Undecided, Approval!Closed, TypeOK, Running, Ended
  <2>5. CASE records[t].status # "none"
    BY <2>1, <2>2, <2>3, <2>5, ConstantFacts
    DEF DecisionOf, NoRecord, Approval!Undecided, Approval!Closed, TypeOK, GateInv, Running,
        Ended, Statuses
  <2> QED
    BY <2>4, <2>5
<1>3. Decision' = [t \in Trips |-> IF Decision[t] = Approval!Undecided /\ t \notin running
                                   THEN Approval!Undecided ELSE Approval!Closed]
  BY <1>2 DEF Decision
<1>4. booked' = booked
  BY DEF Restart, GateRestart
<1> QED
  BY <1>1, <1>3, <1>4 DEF Approval!Forget

\* A step of one trip is a step of the promise, or changes nothing it speaks of.
LEMMA TripStepRefines ==
  ASSUME IInv, NEW t \in Trips, TripStep(t), Allowed' = Allowed
  PROVE  Approval!Next \/ UNCHANGED Approval!vars
<1>1. GateInv(t) /\ TypeOK /\ Decision[t] = DecisionOf(t)
  BY DEF IInv, Decision
<1>2. Decision' = [Decision EXCEPT ![t] = DecisionOf(t)']
  BY OtherDecisionsStay
<1>3. ASSUME DecisionOf(t)' = DecisionOf(t), booked' = booked
      PROVE  UNCHANGED Approval!vars
  BY <1>1, <1>2, <1>3 DEF Approval!vars, Decision
<1>4. ASSUME DecisionOf(t) = Approval!Undecided, DecisionOf(t)' = Approval!Closed,
             booked' = booked
      PROVE  Approval!Close(t)
  BY <1>1, <1>2, <1>4 DEF Approval!Close, Approval!Decide, Approval!Closed
<1>5. CASE Receive(t) \/ WeatherNode(t) \/ RouteCacheHit(t) \/ RouteCacheMiss(t)
           \/ (\E fare \in Fares : SearchFindsFares(t, fare))
  <2>1. DecisionOf(t)' = DecisionOf(t) /\ booked' = booked
    BY <1>1, <1>5
    DEF Receive, WeatherNode, RouteCacheHit, RouteCacheMiss, SearchFindsFares, Move, gateVars,
        TypeOK, DecisionOf, Ended
  <2> QED
    BY <1>3, <2>1
<1>6. CASE SearchUnavailable(t) \/ SearchUnparsed(t) \/ SearchNotCalled(t)
           \/ StoreInRouteCache(t) \/ NoFareToEvaluate(t) \/ AskLowerCabin(t)
  <2>1. DecisionOf(t)' = DecisionOf(t) /\ booked' = booked
    BY <1>1, <1>6
    DEF SearchUnavailable, SearchUnparsed, SearchNotCalled, StoreInRouteCache,
        NoFareToEvaluate, AskLowerCabin, Move, gateVars, TypeOK, DecisionOf, Ended
  <2> QED
    BY <1>3, <2>1
<1>7. CASE Refuse(t) \/ AgentFails(t)
  <2>1. /\ DecisionOf(t) = Approval!Undecided
        /\ DecisionOf(t)' = Approval!Closed
        /\ booked' = booked
    BY <1>1, <1>7
    DEF Refuse, AgentFails, Move, gateVars, TypeOK, GateInv, BeforeRuling, NoRecord,
        DecisionOf, Ended, Approval!Undecided, Approval!Closed
  <2> QED
    BY <1>4, <2>1 DEF Approval!Next
<1>8. CASE ApproveWithinPolicy(t)
  <2>1. flight[t] \in Fares /\ flight[t] \in Allowed[t]
    BY <1>1, <1>8 DEF ApproveWithinPolicy, TypeOK, Allowed
  <2>2. DecisionOf(t) = Approval!Undecided
    BY <1>1, <1>8
    DEF ApproveWithinPolicy, Move, GateInv, BeforeRuling, NoRecord, DecisionOf, Ended,
        Approval!Undecided
  <2>3. records'[t] = [status |-> "auto_approved", fare |-> flight[t]] /\ booked' = booked
    BY <1>1, <1>8 DEF ApproveWithinPolicy, AutoApprove, Write, TypeOK
  <2>4. DecisionOf(t)' = [state |-> "approved", fare |-> flight[t]]
    BY <2>3 DEF DecisionOf
  <2>5. Approval!ByPolicy(t, flight[t])
    BY <1>1, <1>2, <2>1, <2>2, <2>3, <2>4 DEF Approval!ByPolicy, Approval!Decide
  <2> QED
    BY <2>1, <2>5 DEF Approval!Next
<1>9. CASE RouteToApprover(t)
  <2>1. flight[t] \in Fares /\ flight[t] \notin Allowed[t]
    BY <1>1, <1>9 DEF RouteToApprover, TypeOK, Allowed
  <2>2. DecisionOf(t) = Approval!Undecided
    BY <1>1, <1>9
    DEF RouteToApprover, Move, GateInv, BeforeRuling, NoRecord, DecisionOf, Ended,
        Approval!Undecided
  <2>3. records'[t] = [status |-> "pending", fare |-> flight[t]] /\ booked' = booked
    BY <1>1, <1>9 DEF RouteToApprover, CreatePending, Write, TypeOK
  <2>4. DecisionOf(t)' = [state |-> "pending", fare |-> flight[t]]
    BY <2>3 DEF DecisionOf
  <2>5. Approval!AskApprover(t, flight[t])
    BY <1>1, <1>2, <2>1, <2>2, <2>3, <2>4 DEF Approval!AskApprover, Approval!Decide
  <2> QED
    BY <2>1, <2>5 DEF Approval!Next
<1>10. CASE Complete(t)
  <2>1. records' = records /\ booked' = booked /\ pc[t] = "completing" /\ pc'[t] = "completed"
    BY <1>1, <1>10 DEF Complete, Move, TypeOK
  <2>2. CASE records[t].status = "none"
    <3>1. DecisionOf(t) = Approval!Undecided /\ DecisionOf(t)' = Approval!Closed
      BY <2>1, <2>2 DEF DecisionOf, Ended, Approval!Undecided, Approval!Closed
    <3> QED
      BY <1>4, <2>1, <3>1 DEF Approval!Next
  <2>3. CASE records[t].status # "none"
    <3>1. DecisionOf(t)' = DecisionOf(t)
      BY <2>1, <2>3 DEF DecisionOf
    <3> QED
      BY <1>3, <2>1, <3>1
  <2> QED
    BY <2>2, <2>3
<1>11. ASSUME NEW s \in {"approved", "rejected"}, records[t].status # "none",
              Write(t, s, records[t].fare), booked' = booked
       PROVE  Approval!Overrule(t, s)
  <2>1. records'[t] = [status |-> s, fare |-> records[t].fare]
    BY <1>1, <1>11 DEF Write, TypeOK
  <2>2. DecisionOf(t)' = [state |-> s, fare |-> DecisionOf(t).fare]
    BY <1>11, <2>1 DEF DecisionOf
  <2>3. DecisionOf(t) \notin {Approval!Undecided, Approval!Closed}
    BY <1>1, <1>11 DEF DecisionOf, TypeOK, Statuses, Approval!Undecided, Approval!Closed
  <2> QED
    BY <1>1, <1>2, <1>11, <2>2, <2>3 DEF Approval!Overrule, Approval!Decide
<1>12. CASE GrantApproval(t) \/ RejectApproval(t)
  BY <1>11, <1>12 DEF GrantApproval, Grant, RejectApproval, Reject, Approval!Next
<1>13. CASE BookTrip(t)
  <2>1. records' = records /\ pc' = pc /\ records[t].status \in {"auto_approved", "approved"}
        /\ booked' = [booked EXCEPT ![t] = @ \cup {records[t].fare}]
    BY <1>13 DEF BookTrip, Book
  <2>2. DecisionOf(t).state = "approved" /\ DecisionOf(t).fare = records[t].fare
    BY <2>1 DEF DecisionOf
  <2>3. Decision' = Decision
    BY <2>1 DEF Decision, DecisionOf
  <2>4. Approval!Book(t)
    BY <1>1, <2>1, <2>2, <2>3 DEF Approval!Book
  <2> QED
    BY <2>4 DEF Approval!Next
<1> QED
  BY <1>5, <1>6, <1>7, <1>8, <1>9, <1>10, <1>12, <1>13 DEF TripStep, PlannerStep

\* The planner, the gate and the booking tool keep the promise of TripApproval:
\* one fare per trip, one first decision, policy's or an approver's, and no
\* booking but of an approved fare; through concurrent requests, lost audit
\* events, cache failures and restarts.
THEOREM PlannerImplementsApproval == Spec => ImplementsTripApproval
<1>1. Init => Approval!Init
  <2> SUFFICES ASSUME Init PROVE Approval!Init
    OBVIOUS
  <2>1. Allowed \in [Trips -> SUBSET Fares]
    BY DEF Allowed
  <2>2. Decision = [t \in Trips |-> Approval!Undecided]
    BY DEF Init, GateInit, NoRecord, Decision, DecisionOf, Ended, Approval!Undecided
  <2>3. booked = [t \in Trips |-> {}]
    BY DEF Init, GateInit
  <2> QED
    BY <2>1, <2>2, <2>3 DEF Approval!Init
<1>2. IInv /\ [Next]_vars => [Approval!Next]_(Approval!vars)
  <2> SUFFICES ASSUME IInv, [Next]_vars PROVE Approval!Next \/ UNCHANGED Approval!vars
    OBVIOUS
  <2>1. Allowed' = Allowed
    BY AllowedIsConstant
  <2>2. CASE \E t \in Trips : TripStep(t)
    BY <2>1, <2>2, TripStepRefines
  <2>3. CASE \E k \in Keys : CacheExpire(k)
    BY <2>1, <2>3 DEF CacheExpire, gateVars, Approval!vars, Decision, DecisionOf
  <2>4. CASE Restart
    BY <2>1, <2>4, RestartForgets DEF Approval!Next
  <2>5. CASE UNCHANGED vars
    BY <2>1, <2>5 DEF vars, gateVars, Approval!vars, Decision, DecisionOf
  <2> QED
    BY <2>2, <2>3, <2>4, <2>5 DEF Next, TripStep
<1> QED
  BY <1>1, <1>2, Invariance, PTL DEF Spec, ImplementsTripApproval, Approval!Spec
===============================================================================
