--------------------------------- MODULE WebUI ---------------------------------
(***************************************************************************)
(* One browser session of the web UI, streamlit_app/app.py, in front of    *)
(* the gateway.  Streamlit (external) runs the whole script again for      *)
(* every click: in that run the widget that was clicked, and no other,     *)
(* answers True, provided the run gets as far as drawing it; afterwards    *)
(* the page shows the widgets that the run has drawn.  A click in the      *)
(* middle of a run ends it, but not before the request it waits for.       *)
(***************************************************************************)
EXTENDS Naturals, Sequences

CONSTANTS MaxTrips,    \* bound: trip requests that are sent
          NoTrip       \* no trace_id

VARIABLES line,       \* where the script is: "idle" when no run is under way
          clicked,    \* the click the run under way, or the last one, answers
          drawn,      \* the widgets the run under way has drawn
          page,       \* the widgets the employee sees
          planned,    \* trips of the gateway -> the status of the approval record
          waiting,    \* the trip whose response the script waits for, or NoTrip
          shown,      \* what the response said: [trip, status]
          posts       \* history: the requests sent for a trip, [what, trip]

vars == <<line, clicked, drawn, page, planned, waiting, shown, posts>>

Widget(what, trip) == [what |-> what, trip |-> trip]
Ask == Widget("ask", NoTrip)
Plan == Widget("plan", NoTrip)
NoClick == Widget("none", NoTrip)
Statuses == {"auto_approved", "pending", "approved", "rejected", "not_applicable"}
Decisions == {"grant", "reject"}
Nothing == [trip |-> NoTrip, status |-> "none"]

\* A session begins with a run no click has started.
Init ==
  /\ line = "sidebar" /\ clicked = NoClick
  /\ drawn = {} /\ page = {}
  /\ planned = <<>>
  /\ waiting = NoTrip /\ shown = Nothing
  /\ posts = {}

Goes(from, to) == line = from /\ line' = to

\* Streamlit starts the script again.
StartsAgain(click) ==
  /\ line' = "sidebar"
  /\ clicked' = click
  /\ drawn' = {}
  /\ shown' = Nothing

Click(widget) ==
  /\ line # "waiting"
  /\ widget \in page
  /\ StartsAgain(widget)
  /\ UNCHANGED <<page, planned, waiting, posts>>

\* The script is over, or st.stop() ends it.
Stops(widgets) == line' = "idle" /\ drawn' = widgets /\ page' = widgets

\* The persona, and a policy question, answered or not before the script goes on.
Sidebar ==
  /\ Goes("sidebar", "form")
  /\ drawn' = drawn \cup {Ask}
  /\ UNCHANGED <<clicked, page, planned, waiting, shown, posts>>

\* The form.  Its button answers True only in the run that its click started.
Submitted ==
  /\ Goes("form", "waiting") /\ clicked = Plan
  /\ Len(planned) < MaxTrips
  /\ planned' = Append(planned, "running")
  /\ waiting' = Len(planned')
  /\ drawn' = drawn \cup {Plan}
  /\ posts' = posts \cup {Widget("plan", Len(planned'))}
  /\ UNCHANGED <<clicked, page, shown>>

NotSubmitted ==
  /\ line = "form" /\ clicked # Plan
  /\ Stops(drawn \cup {Plan})
  /\ UNCHANGED <<clicked, planned, waiting, shown, posts>>

\* The gateway finishes a trip, whether or not somebody still waits for it.
GatewayPlans(trip, status) ==
  /\ planned[trip] = "running"
  /\ planned' = [planned EXCEPT ![trip] = status]
  /\ UNCHANGED <<line, clicked, drawn, page, waiting, shown, posts>>

ResponseArrives ==
  /\ Goes("waiting", "result")
  /\ planned[waiting] # "running"
  /\ shown' = [trip |-> waiting, status |-> planned[waiting]]
  /\ waiting' = NoTrip
  /\ UNCHANGED <<clicked, drawn, page, planned, posts>>

\* After 120 seconds, or on a status code of an error.
RequestFails ==
  /\ line = "waiting"
  /\ waiting' = NoTrip
  /\ Stops(drawn)
  /\ UNCHANGED <<clicked, planned, shown, posts>>

DecisionsOn(trip) == {Widget(what, trip) : what \in Decisions}

\* A decision is asked for when a record is pending.
ShowPending ==
  /\ Goes("result", "rest")
  /\ shown.status = "pending" /\ clicked \notin DecisionsOn(shown.trip)
  /\ drawn' = drawn \cup DecisionsOn(shown.trip)
  /\ UNCHANGED <<clicked, page, planned, waiting, shown, posts>>

\* A button that answers True sends the decision, and st.rerun() follows.
SendDecision ==
  /\ line = "result"
  /\ shown.status = "pending" /\ clicked \in DecisionsOn(shown.trip)
  /\ posts' = posts \cup {clicked}
  /\ StartsAgain(NoClick)
  /\ UNCHANGED <<page, planned, waiting>>

\* The rest of the page: the booking button, the costs, the errors.
ShowRest ==
  /\ line = "rest" \/ (line = "result" /\ shown.status # "pending")
  /\ LET book == {Widget("book", shown.trip) : s \in {shown.status} \cap {"auto_approved", "approved"}}
     IN  /\ posts' = posts \cup ({clicked} \cap book)
         /\ Stops(drawn \cup book)
  /\ UNCHANGED <<clicked, planned, waiting, shown>>

Next ==
  \/ \E widget \in page : Click(widget)
  \/ \E trip \in DOMAIN planned, status \in Statuses : GatewayPlans(trip, status)
  \/ Sidebar \/ Submitted \/ NotSubmitted \/ ResponseArrives \/ RequestFails
  \/ ShowPending \/ SendDecision \/ ShowRest

Spec == Init /\ [][Next]_vars
-------------------------------------------------------------------------------
(* What the documents say and the code does not do. *)

\* app.py:134 puts "Grant/reject below" over its buttons, and the sequence
\* diagram of docs/architecture.md:119 ends with "approve/reject buttons": when
\* a run that the click of one has started is over, the decision was sent (app.py).
DecisionsAreSent ==
  [][line # "idle" /\ line' = "idle" /\ clicked.what \in Decisions => clicked \in posts']_vars
===============================================================================
