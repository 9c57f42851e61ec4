---------------------------- MODULE TripApproval ------------------------------
(***************************************************************************)
(* What the planner, the gate and the booking tool promise together, with  *)
(* no searches, caches or audit: booking is "blocked without a granted     *)
(* approval record", docs/LLD.md:161.  A trip gets one fare and one first  *)
(* decision; after that only approvers change the decision, and a booking  *)
(* takes that fare while the decision is an approval.                      *)
(***************************************************************************)
CONSTANTS Trips, Fares, NoFare

VARIABLES allowed,    \* trip -> the fares its employee may take without asking
          decision,   \* trip -> how the trip stands, and its fare
          booked      \* trip -> the fares that were booked

vars == <<allowed, decision, booked>>

Undecided == [state |-> "undecided", fare |-> NoFare]
Closed == [state |-> "closed", fare |-> NoFare]

Init ==
  /\ allowed \in [Trips -> SUBSET Fares]
  /\ decision = [t \in Trips |-> Undecided]
  /\ booked = [t \in Trips |-> {}]

Decide(t, state, fare) ==
  /\ decision' = [decision EXCEPT ![t] = [state |-> state, fare |-> fare]]
  /\ UNCHANGED <<allowed, booked>>

ByPolicy(t, fare) ==
  decision[t] = Undecided /\ fare \in allowed[t] /\ Decide(t, "approved", fare)

AskApprover(t, fare) ==
  decision[t] = Undecided /\ fare \notin allowed[t] /\ Decide(t, "pending", fare)

\* An approver speaks; a later decision overrules an earlier one, and policy.
Overrule(t, state) ==
  decision[t] \notin {Undecided, Closed} /\ Decide(t, state, decision[t].fare)

Book(t) ==
  /\ decision[t].state = "approved"
  /\ booked' = [booked EXCEPT ![t] = @ \cup {decision[t].fare}]
  /\ UNCHANGED <<allowed, decision>>

\* A request ends without a decision.
Close(t) == decision[t] = Undecided /\ Decide(t, "closed", NoFare)

\* A restart forgets every decision, and ends some of the undecided requests.
Forget ==
  /\ \E running \in SUBSET {t \in Trips : decision[t] = Undecided} :
       decision' = [t \in Trips |->
         IF decision[t] = Undecided /\ t \notin running THEN Undecided ELSE Closed]
  /\ UNCHANGED <<allowed, booked>>

Next ==
  \/ \E t \in Trips :
       \/ \E fare \in Fares : ByPolicy(t, fare) \/ AskApprover(t, fare)
       \/ \E state \in {"approved", "rejected"} : Overrule(t, state)
       \/ Book(t) \/ Close(t)
  \/ Forget

Spec == Init /\ [][Next]_vars
===============================================================================
