------------------------------- MODULE AuditLog -------------------------------
(***************************************************************************)
(* The audit store underneath AuditTrail: audit/store.py's table of event  *)
(* rows, which several processes write, what audit/redact.py leaves of a   *)
(* payload before it is written, and the aggregation GET /audit/{trace_id} *)
(* answers with.                                                           *)
(*                                                                         *)
(* A payload is a function from the paths of its leaves to their values: a *)
(* path is the sequence of the keys that lead there, "[]" for a list.      *)
(***************************************************************************)
EXTENDS Naturals, SequencesExt

CONSTANTS Trips,            \* the trace_ids
          Processes,        \* the processes that write to the database
          EmployeeIds,      \* raw employee ids
          HashEmployeeId,   \* employee id -> its token
          Values,           \* whatever else a payload may hold
          Null,             \* None
          NoRow,            \* a process without a session
          Times,            \* what a clock may show: it may be set back
          MaxRows           \* bound: ids given out

VARIABLES database,   \* which one AUDIT_DB_URL names: "sqlite" or "postgres"
          rows,       \* id -> row: the committed rows of audit_events
          open,       \* process -> the event its session is writing, or NoRow
          lastId,     \* the last id given out
          lost        \* history: the trips one of whose events was lost

logVars == <<database, rows, open, lastId, lost>>

ASSUME LogAssumption ==
  /\ HashEmployeeId \in [EmployeeIds -> Values]
  /\ EmployeeIds \cap Values = {}
  /\ Null \in Values
  /\ MaxRows \in Nat

StripKeys == {"ssn", "passport_number", "credit_card", "personal_notes", "date_of_birth"}

Kept(payload) == {path \in DOMAIN payload : \A i \in DOMAIN path : path[i] \notin StripKeys}

\* Mutant: only the payload's own keys are looked at.
RedactTopLevel(payload) ==
  [path \in Kept(payload) |->
     IF path = <<"employee_id">> /\ payload[path] \in EmployeeIds
     THEN HashEmployeeId[payload[path]] ELSE payload[path]]

\* redact_payload, at every depth.
RedactPayload(payload) ==
  [path \in Kept(payload) |->
     IF path # <<>> /\ path[Len(path)] = "employee_id" /\ payload[path] \in EmployeeIds
     THEN HashEmployeeId[payload[path]] ELSE payload[path]]

LogInit ==
  /\ database \in {"sqlite", "postgres"}
  /\ rows = <<>>
  /\ open = [p \in Processes |-> NoRow]
  /\ lastId = 0
  /\ lost = {}

-------------------------------------------------------------------------------
(* record_event, which blocks its process until it is over. *)

\* The row is inserted, with the time, the redacted payload and an id the
\* database gives it; SQLite lets one transaction write at a time.
Insert(p, t, event, payload) ==
  /\ database = "sqlite" => \A q \in Processes : open[q] = NoRow
  /\ lastId' = lastId + 1
  /\ \E time \in Times :
       open' = [open EXCEPT ![p] = [id |-> lastId', trip |-> t, event |-> event,
                                    payload |-> RedactPayload(payload), time |-> time]]
  /\ UNCHANGED <<database, rows, lost>>

\* Or nothing is: no connection, or a lock that timed out.
NotInserted(t) ==
  /\ lost' = lost \cup {t}
  /\ UNCHANGED <<database, rows, open, lastId>>

RecordEvent(p, t, event, payload) ==
  /\ open[p] = NoRow /\ lastId < MaxRows
  /\ Insert(p, t, event, payload) \/ NotInserted(t)

Commit(p) ==
  /\ open[p] # NoRow
  /\ rows' = [id \in DOMAIN rows \cup {open[p].id} |-> IF id = open[p].id THEN open[p] ELSE rows[id]]
  /\ open' = [open EXCEPT ![p] = NoRow]
  /\ UNCHANGED <<database, lastId, lost>>

\* The commit raises, the row is rolled back and the exception printed; or the
\* process is killed.
Lose(p) ==
  /\ open[p] # NoRow
  /\ lost' = lost \cup {open[p].trip}
  /\ open' = [open EXCEPT ![p] = NoRow]
  /\ UNCHANGED <<database, rows, lastId>>

-------------------------------------------------------------------------------
(* Reading. *)

\* Mutant: the events are read in the order of their timestamps.
GetEventsByTime(t) ==
  LET ids == SelectSeq([i \in 1..lastId |-> i], LAMBDA i : i \in DOMAIN rows /\ rows[i].trip = t)
  IN  SortSeq([i \in DOMAIN ids |-> rows[ids[i]]], LAMBDA a, b : a.time < b.time)

\* The trip's rows, by their ids.
GetEvents(t) ==
  LET events[id \in 0..lastId] ==
        IF id = 0 THEN <<>>
        ELSE IF id \in DOMAIN rows /\ rows[id].trip = t THEN Append(events[id - 1], rows[id])
        ELSE events[id - 1]
  IN  events[lastId]

CallSequence(t) ==
  LET events == GetEvents(t)
  IN  [i \in DOMAIN events |-> [event |-> events[i].event, time |-> events[i].time]]

ApprovalEvents == {"approval_auto_approved", "approval_required", "approval_granted", "approval_rejected"}
Fare == <<"fare">>
Status == <<"status">>
ApprovedBy == <<"approved_by">>
FarePrice == <<"fare_price_usd">>
FoundFares == <<"result", "flight_search", "fares">>
RequestsEmployee == <<"request", "employee_id">>

NoOutcome == [status |-> "none", approved_by |-> Null]

\* Mutant: the latest search counts, if it found no fares too.
AggregateLatest(trail, row) ==
  IF row.event = "flight_node_complete"
  THEN [trail EXCEPT !.candidate_fares = IF FoundFares \in DOMAIN row.payload THEN row.payload[FoundFares] ELSE Null]
  ELSE trail

\* What one event makes of the record.
Aggregate(trail, row) ==
  CASE row.event = "flight_node_complete" ->
         [trail EXCEPT !.candidate_fares =
            IF FoundFares \in DOMAIN row.payload THEN row.payload[FoundFares] ELSE @]
    [] row.event \in ApprovalEvents ->
         [trail EXCEPT !.approval_outcome = [status |-> row.payload[Status],
                                             approved_by |-> row.payload[ApprovedBy]],
                       !.final_fare = row.payload[Fare]]
    [] row.event = "business_cost_recorded" ->
         [trail EXCEPT !.business_cost_usd = row.payload[FarePrice]]
    [] OTHER -> trail

NewTrail == [candidate_fares |-> Null, approval_outcome |-> NoOutcome,
             final_fare |-> Null, business_cost_usd |-> Null]

GetTripAuditTrail(t) ==
  LET events == GetEvents(t)
      trail[i \in 0..Len(events)] ==
        IF i = 0 THEN NewTrail ELSE Aggregate(trail[i - 1], events[i])
  IN  trail[Len(events)]
===============================================================================
