--------------------------- MODULE TripRefinement -----------------------------
(***************************************************************************)
(* TripPlanner implements TripApproval.                                    *)
(***************************************************************************)
EXTENDS TripPlanner

\* The fares policy_check_node would approve by itself.  The cabin of a request
\* changes as the planner reflects, its job level and its caps do not.
Allowed == [t \in Trips |-> {fare \in Fares : InPolicy(t, fare)}]

\* A record is a decision; a trip that has none is undecided until it ends.
DecisionOf(t) ==
  IF records[t].status = "none"
  THEN [state |-> IF pc[t] \in Ended THEN "closed" ELSE "undecided", fare |-> NoFare]
  ELSE [state |-> IF records[t].status = "auto_approved" THEN "approved" ELSE records[t].status,
        fare |-> records[t].fare]

Decision == [t \in Trips |-> DecisionOf(t)]

Approval == INSTANCE TripApproval WITH allowed <- Allowed, decision <- Decision

\* Every step of the planner, the gate and the endpoints is a step of the
\* promise or changes nothing it speaks of: one fare, one first decision, no
\* booking but of an approved fare.
ImplementsTripApproval == Approval!Spec
===============================================================================
