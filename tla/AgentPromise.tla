----------------------------- MODULE AgentPromise -----------------------------
(***************************************************************************)
(* What flight_node relies on when it runs the Flight Agent: any number of *)
(* searches, of which the last one's result is the run's result.  These    *)
(* are the ways in which the planner's searching state is left.            *)
(***************************************************************************)
CONSTANTS NoFare,   \* a result without fares
          Fares     \* [price, cabin]

VARIABLES last,     \* the result of the last search
          outcome   \* the result of the run

promiseVars == <<last, outcome>>

Result(kind, fare) == [kind |-> kind, cheapest |-> fare]
NotCalled == Result("nothing", NoFare)
Pending == Result("running", NoFare)

Init == last = NotCalled /\ outcome = Pending

\* A search leaves the cheapest of its fares, "available": False, or a text.
Search ==
  /\ outcome = Pending
  /\ \/ last' \in [kind : {"fares"}, cheapest : Fares]
     \/ last' \in {Result("outage", NoFare), Result("raw", NoFare)}
  /\ UNCHANGED outcome

Return == outcome = Pending /\ outcome' = last /\ UNCHANGED last
Raise == outcome = Pending /\ outcome' = Result("raised", NoFare) /\ UNCHANGED last

Next == Search \/ Return \/ Raise

Spec == Init /\ [][Next]_promiseVars
===============================================================================
