------------------------------ MODULE AuditTrail ------------------------------
(***************************************************************************)
(* The audit store, audit/store.py, as a reader of GET /audit/{trace_id}   *)
(* sees it.  get_trip_audit_trail folds a trip's events, oldest first, into *)
(* one record, and each kind of event overwrites the fields it speaks of;  *)
(* so the fold of the log so far stands for the log.  Events the fold only *)
(* lists in call_sequence change nothing here.                             *)
(***************************************************************************)
CONSTANTS Trips,         \* the trace_ids
          NoFare,        \* a field that is null, or a missing fare
          NoPrice,       \* the same for a price
          AuditMayFail   \* whether record_event may lose an event

VARIABLES trail,   \* trip -> what GET /audit/{trace_id} answers
          lost     \* history: the trips one of whose events was lost

auditVars == <<trail, lost>>

EmptyTrail == [candidate |-> NoFare, outcome |-> "none",
               final_fare |-> NoFare, business |-> NoPrice]

AuditInit ==
  /\ trail = [t \in Trips |-> EmptyTrail]
  /\ lost = {}

\* One event of trip t is committed, or swallowed by record_event's except.
Record(t, trailWithEvent) ==
  \/ /\ trail' = [trail EXCEPT ![t] = trailWithEvent]
     /\ UNCHANGED lost
  \/ /\ AuditMayFail
     /\ lost' = lost \cup {t}
     /\ UNCHANGED trail

\* flight_node_complete with fares: the cheapest stands for the list.
RecordFares(t, fare) == Record(t, [trail[t] EXCEPT !.candidate = fare])

\* approval_auto_approved, _required, _granted and _rejected carry the record.
RecordOutcome(t, status, fare) ==
  Record(t, [trail[t] EXCEPT !.outcome = status, !.final_fare = fare])

RecordBusinessCost(t, price) == Record(t, [trail[t] EXCEPT !.business = price])
===============================================================================
