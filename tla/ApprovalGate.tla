----------------------------- MODULE ApprovalGate -----------------------------
(***************************************************************************)
(* The approval gate of the gateway process, guardrails/approval_gate.py,  *)
(* with the one write it guards, tools/booking_tools.py.  A record lives   *)
(* in the process's _RECORDS; each write is mirrored to the audit store.   *)
(* The planner calls the first two operations, the API's approver and      *)
(* booking endpoints the others.                                           *)
(***************************************************************************)
EXTENDS AuditTrail

CONSTANT Fares   \* [price, cabin]: what a provider may offer

VARIABLES records,   \* trip -> its approval record; status "none" if it has none
          granted,   \* history: the trips some approver has ever granted
          booked     \* history: trip -> the fares the booking system confirmed

gateVars == <<records, granted, booked, auditVars>>

Statuses == {"none", "auto_approved", "pending", "approved", "rejected"}

NoRecord == [status |-> "none", fare |-> NoFare]

GateInit ==
  /\ records = [t \in Trips |-> NoRecord]
  /\ granted = {}
  /\ booked = [t \in Trips |-> {}]
  /\ AuditInit

\* _RECORDS[trace_id] = record, then the record's event.  No check of what
\* was there before.
Write(t, status, fare) ==
  /\ records' = [records EXCEPT ![t] = [status |-> status, fare |-> fare]]
  /\ RecordOutcome(t, status, fare)

AutoApprove(t, fare) ==
  /\ Write(t, "auto_approved", fare)
  /\ UNCHANGED <<granted, booked>>

CreatePending(t, fare) ==
  /\ Write(t, "pending", fare)
  /\ UNCHANGED <<granted, booked>>

\* Mutant: the decision is stored and its audit event forgotten.
GrantUnaudited(t) ==
  /\ records[t].status # "none"
  /\ records' = [records EXCEPT ![t].status = "approved"]
  /\ granted' = granted \cup {t}
  /\ UNCHANGED <<booked, auditVars>>

\* The only refusal is for a trip without a record: the status is not read.
Grant(t) ==
  /\ records[t].status # "none"
  /\ Write(t, "approved", records[t].fare)
  /\ granted' = granted \cup {t}
  /\ UNCHANGED booked

Reject(t) ==
  /\ records[t].status # "none"
  /\ Write(t, "rejected", records[t].fare)
  /\ UNCHANGED <<granted, booked>>

\* Mutant: any record will do, whatever was decided.
BookAnyRecord(t) ==
  /\ records[t].status # "none"
  /\ booked' = [booked EXCEPT ![t] = @ \cup {records[t].fare}]
  /\ UNCHANGED <<records, granted, auditVars>>

\* Mutant: the caller's fare is booked, not the record's.
BookCallersFare(t) ==
  /\ records[t].status \in {"auto_approved", "approved"}
  /\ \E fare \in Fares : booked' = [booked EXCEPT ![t] = @ \cup {fare}]
  /\ UNCHANGED <<records, granted, auditVars>>

\* POST /trip-requests/{trace_id}/book.  Without a record, or with one that is
\* pending or rejected, nothing changes but call_sequence.
Book(t) ==
  /\ records[t].status \in {"auto_approved", "approved"}
  /\ booked' = [booked EXCEPT ![t] = @ \cup {records[t].fare}]
  /\ UNCHANGED <<records, granted, auditVars>>

\* The process ends: _RECORDS was in its memory, the audit store is on disk.
GateRestart ==
  /\ records' = [t \in Trips |-> NoRecord]
  /\ UNCHANGED <<granted, booked, auditVars>>
===============================================================================
