---------------------------- MODULE BookingServer -----------------------------
(***************************************************************************)
(* Two processes over one audit store: the gateway, in which trips run and *)
(* are decided, and the booking server, mcp_servers/booking_server.py,     *)
(* which imports the same gate and so has approval records of its own.     *)
(*                                                                         *)
(* Of a trip's run this module keeps the events and their order; how it is *)
(* decided is TripPlanner's.                                               *)
(***************************************************************************)
EXTENDS AuditLog

CONSTANTS Fares,     \* the fares a search may find
          PriceOf    \* fare -> its price_usd

VARIABLES stage,     \* trip -> how far its run in the gateway is
          records,   \* process -> trip -> its approval record
          employee   \* trip -> whose request it is

vars == <<logVars, stage, records, employee>>

Statuses == {"auto_approved", "pending", "approved", "rejected"}
NoRecord == [status |-> "none", approved_by |-> Null, fare |-> Null]
NoRecords == [t \in Trips |-> NoRecord]

ASSUME ServerAssumption ==
  /\ Processes = {"gateway", "booking"}
  /\ Statuses \subseteq Values
  /\ Fares \subseteq Values /\ Fares # {}
  /\ PriceOf \in [Fares -> Values]
  /\ Null \notin Fares

Init ==
  /\ stage = [t \in Trips |-> "new"]
  /\ records = [p \in Processes |-> NoRecords]
  /\ employee \in [Trips -> EmployeeIds]
  /\ LogInit

GoOn(t, from, to) == stage[t] \in from /\ stage' = [stage EXCEPT ![t] = to]

\* run_trip_planning begins.
RequestReceived(t) ==
  /\ GoOn(t, {"new"}, "running")
  /\ RecordEvent("gateway", t, "request_received", [path \in {RequestsEmployee} |-> employee[t]])
  /\ UNCHANGED <<records, employee>>

\* flight_node, after a search that found this fare, or nothing; a retry
\* searches again.
FlightNodeComplete(t, found) ==
  /\ GoOn(t, {"running"}, "running")
  /\ RecordEvent("gateway", t, "flight_node_complete",
       [path \in {RequestsEmployee} \cup (IF found = Null THEN {} ELSE {FoundFares}) |->
          IF path = FoundFares THEN found ELSE employee[t]])
  /\ UNCHANGED <<records, employee>>

\* A record is written, and its copy recorded.
Write(t, event, record) ==
  /\ records' = [records EXCEPT !["gateway"][t] = record]
  /\ RecordEvent("gateway", t, event,
       [path \in {Status, ApprovedBy, Fare} |->
          CASE path = Status -> record.status
            [] path = ApprovedBy -> record.approved_by
            [] path = Fare -> record.fare])
  /\ UNCHANGED employee

\* policy_check_node, on a fare just found or one of the route cache.
Decide(t, fare) ==
  /\ GoOn(t, {"running"}, "decided")
  /\ \/ Write(t, "approval_auto_approved", [NoRecord EXCEPT !.status = "auto_approved", !.fare = fare])
     \/ Write(t, "approval_required", [NoRecord EXCEPT !.status = "pending", !.fare = fare])

\* Mutant: a record is not asked for.
GrantWithoutRecord(t, by) ==
  /\ Write(t, "approval_granted", [records["gateway"][t] EXCEPT !.status = "approved", !.approved_by = by])
  /\ UNCHANGED stage

Grant(t, by) ==
  /\ records["gateway"][t] # NoRecord
  /\ Write(t, "approval_granted", [records["gateway"][t] EXCEPT !.status = "approved", !.approved_by = by])
  /\ UNCHANGED stage

Reject(t, by) ==
  /\ records["gateway"][t] # NoRecord
  /\ Write(t, "approval_rejected", [records["gateway"][t] EXCEPT !.status = "rejected", !.approved_by = by])
  /\ UNCHANGED stage

\* run_trip_planning goes on with the record of a decided trip.
BusinessCost(t) ==
  /\ GoOn(t, {"decided"}, "completed")
  /\ RecordEvent("gateway", t, "business_cost_recorded",
       [path \in {FarePrice} |-> PriceOf[records["gateway"][t].fare]])
  /\ UNCHANGED <<records, employee>>

\* require_approval_for_booking, in the process that was asked: the gateway's
\* endpoint has seen that there is a record, the server's tool asks at once.
BookingBlocked(p, t) ==
  /\ p = "gateway" => records[p][t] # NoRecord
  /\ records[p][t].status \notin {"auto_approved", "approved"}
  /\ RecordEvent(p, t, "booking_blocked_no_approval", [path \in {<<"trace_id">>} |-> Null])
  /\ UNCHANGED <<stage, records, employee>>

\* A process starts again: its records are gone, and the row it was writing.
Restart(p) ==
  /\ IF open[p] # NoRow THEN Lose(p) ELSE UNCHANGED logVars
  /\ records' = [records EXCEPT ![p] = NoRecords]
  /\ stage' = IF p = "gateway"
              THEN [t \in Trips |-> IF stage[t] \in {"running", "decided"} THEN "gone" ELSE stage[t]]
              ELSE stage
  /\ UNCHANGED employee

Session(p) ==
  (Commit(p) \/ Lose(p)) /\ UNCHANGED <<stage, records, employee>>

Next ==
  \/ \E t \in Trips :
       \/ RequestReceived(t) \/ BusinessCost(t)
       \/ \E found \in Fares \cup {Null} : FlightNodeComplete(t, found)
       \/ \E fare \in Fares : Decide(t, fare)
       \/ \E by \in EmployeeIds : Grant(t, by) \/ Reject(t, by)
       \/ \E p \in Processes : BookingBlocked(p, t)
  \/ \E p \in Processes : Session(p) \/ Restart(p)

Spec == Init /\ [][Next]_vars
-------------------------------------------------------------------------------
(* Properties. *)

Events == ApprovalEvents \cup {"request_received", "flight_node_complete", "business_cost_recorded",
                               "booking_blocked_no_approval"}
Paths == {RequestsEmployee, FoundFares, Fare, Status, ApprovedBy, FarePrice, <<"trace_id">>}

Records == [status : Statuses, approved_by : EmployeeIds \cup {Null}, fare : Fares]

IsRow(row) ==
  /\ DOMAIN row = {"id", "trip", "event", "payload", "time"}
  /\ row.id \in 1..MaxRows /\ row.trip \in Trips /\ row.event \in Events /\ row.time \in Times
  /\ DOMAIN row.payload \subseteq Paths
  /\ \A path \in DOMAIN row.payload : row.payload[path] \in Values \cup EmployeeIds

\* Every variable has the type the code gives it.
TypeOK ==
  /\ database \in {"sqlite", "postgres"}
  /\ DOMAIN rows \subseteq 1..MaxRows /\ \A id \in DOMAIN rows : IsRow(rows[id])
  /\ DOMAIN open = Processes
  /\ \A p \in Processes : open[p] = NoRow \/ IsRow(open[p])
  /\ lastId \in 0..MaxRows
  /\ lost \subseteq Trips
  /\ stage \in [Trips -> {"new", "running", "decided", "completed", "gone"}]
  /\ records \in [Processes -> [Trips -> Records \cup {NoRecord}]]
  /\ employee \in [Trips -> EmployeeIds]

\* "The append-only store must never hold raw PII": at rest, and in a
\* transaction, an employee's raw id is only where runbook_audit_trace.md:54
\* says that it is, in the approver's field (redact_payload, record_event).
RawIdOnlyAsApprover ==
  \A row \in Range(rows) \cup {open[p] : p \in {p \in Processes : open[p] # NoRow}} :
    \A path \in DOMAIN row.payload : path # ApprovedBy => row.payload[path] \notin EmployeeIds

\* The calls of the gateway.
Gateways(calls) ==
  LET own[i \in 0..Len(calls)] ==
        IF i = 0 THEN <<>>
        ELSE IF calls[i].event = "booking_blocked_no_approval" THEN own[i - 1]
        ELSE Append(own[i - 1], calls[i])
  IN  own[Len(calls)]

\* "Rows are never updated or deleted": a trail read again begins with what it
\* said before.  With Postgres an event of the booking server may turn up
\* between the gateway's, which still are in the order they happened in
\* (get_events, whatever the clocks show).
CallSequenceOnlyGrows ==
  [][\A t \in Trips :
       /\ IsPrefix(Gateways(CallSequence(t)), Gateways(CallSequence(t)'))
       /\ database = "sqlite" => IsPrefix(CallSequence(t), CallSequence(t)')]_vars

\* What GET /audit/{trace_id} answers, as AuditTrail has it.
TrailOf(t) ==
  LET trail == GetTripAuditTrail(t)
  IN  [candidate |-> trail.candidate_fares, outcome |-> trail.approval_outcome.status,
       final_fare |-> trail.final_fare, business |-> trail.business_cost_usd]

Trail == INSTANCE AuditTrail WITH
  trail <- [t \in Trips |-> TrailOf(t)], NoFare <- Null, NoPrice <- Null, AuditMayFail <- TRUE

TrailStep(t) ==
  \/ \E fare \in Fares : Trail!RecordFares(t, fare)
  \/ \E fare \in Fares, status \in Statuses : Trail!RecordOutcome(t, status, fare)
  \/ \E fare \in Fares : Trail!RecordBusinessCost(t, PriceOf[fare])

\* The table, read back and aggregated, is the trail the other modules take it
\* for: each event one step, in the order of the trip, and a lost one none, in
\* spite of two writers, their transactions and their clocks (store.py).
ImplementsAuditTrail == Trail!AuditInit /\ [][\E t \in Trips : TrailStep(t)]_(Trail!auditVars)
===============================================================================
