-------------------------- MODULE BookingServerProofs --------------------------
(***************************************************************************)
(* The two processes over the audit store, for any trips, employees, fares *)
(* and clocks.  No raw employee id gets into a row but as the approver's;  *)
(* what a reader finds in a trail stays there; and the table, read back    *)
(* and aggregated, implements AuditTrail.  The argument for the last two:  *)
(* only the gateway writes what the aggregation reads, so that above a row *)
(* it is writing there are but refused bookings (OrderInv), and a commit   *)
(* adds its row as the last of the gateway's, whatever its id.             *)
(***************************************************************************)
EXTENDS BookingServer, InductionFacts

-------------------------------------------------------------------------------
(* Payloads and their redaction. *)

IsPayload(payload) ==
  /\ DOMAIN payload \subseteq Paths
  /\ \A path \in DOMAIN payload : payload[path] \in Values \cup EmployeeIds

\* Raw ids are under two keys only, of which redaction knows one.
Plain(payload) ==
  /\ IsPayload(payload)
  /\ \A path \in DOMAIN payload \ {ApprovedBy, RequestsEmployee} : payload[path] \in Values

\* Without a raw id but the approver's.
Clean(payload) == \A path \in DOMAIN payload : path # ApprovedBy => payload[path] \notin EmployeeIds

LogType ==
  /\ database \in {"sqlite", "postgres"}
  /\ DOMAIN rows \subseteq 1..MaxRows /\ \A id \in DOMAIN rows : IsRow(rows[id])
  /\ DOMAIN open = Processes
  /\ \A p \in Processes : open[p] = NoRow \/ IsRow(open[p])
  /\ lastId \in 0..MaxRows
  /\ lost \subseteq Trips

LogClean ==
  /\ \A id \in DOMAIN rows : Clean(rows[id].payload)
  /\ \A p \in Processes : open[p] # NoRow => Clean(open[p].payload)

TripType ==
  /\ stage \in [Trips -> {"new", "running", "decided", "completed", "gone"}]
  /\ records \in [Processes -> [Trips -> Records \cup {NoRecord}]]
  /\ employee \in [Trips -> EmployeeIds]

\* A trip whose cost is still to be recorded has a record, unless it is gone.
DecidedInv == \A t \in Trips : stage[t] = "decided" => records["gateway"][t] # NoRecord

\* The rows of LogClean are the rows of RawIdOnlyAsApprover.
LEMMA CleanLogIsClean == LogType => (LogClean <=> RawIdOnlyAsApprover)
BY DEF LogType, RawIdOnlyAsApprover, LogClean, Clean, Range

\* What redaction leaves of a plain payload is clean.
LEMMA RedactionCleans ==
  ASSUME NEW payload, Plain(payload)
  PROVE  IsPayload(RedactPayload(payload)) /\ Clean(RedactPayload(payload))
<1> DEFINE redacted == RedactPayload(payload)
<1>1. DOMAIN redacted = Kept(payload) /\ Kept(payload) \subseteq DOMAIN payload
  BY DEF RedactPayload, Kept
<1>2. ASSUME NEW path \in DOMAIN redacted
      PROVE  /\ redacted[path] \in Values \cup EmployeeIds
             /\ path # ApprovedBy => redacted[path] \notin EmployeeIds
  <2>1. path \in DOMAIN payload /\ path \in Kept(payload)
    BY <1>1, <1>2
  <2>2. payload[path] \in Values \cup EmployeeIds
    BY <2>1 DEF Plain, IsPayload
  <2>3. ASSUME NEW id \in EmployeeIds PROVE HashEmployeeId[id] \in Values
    BY <2>3, LogAssumption
  <2>4. CASE path = RequestsEmployee
    <3>1. path # <<>> /\ path[Len(path)] = "employee_id"
      BY <2>4 DEF RequestsEmployee
    <3>2. redacted[path] = IF payload[path] \in EmployeeIds
                           THEN HashEmployeeId[payload[path]] ELSE payload[path]
      BY <2>1, <3>1 DEF RedactPayload
    <3>3. redacted[path] \in Values
      BY <2>2, <2>3, <3>2
    <3>4. QED BY <3>3, LogAssumption
  <2>5. CASE path # RequestsEmployee
    <3>1. redacted[path] \in {HashEmployeeId[payload[path]], payload[path]}
          /\ (payload[path] \notin EmployeeIds => redacted[path] = payload[path])
          /\ (redacted[path] # payload[path] => payload[path] \in EmployeeIds)
      BY <2>1 DEF RedactPayload
    <3>2. redacted[path] \in Values \cup EmployeeIds
      BY <2>2, <2>3, <3>1
    <3>3. ASSUME path # ApprovedBy PROVE redacted[path] \notin EmployeeIds
      <4>1. payload[path] \in Values
        BY <2>1, <2>5, <3>3 DEF Plain
      <4>2. QED BY <3>1, <4>1, LogAssumption
    <3>4. QED BY <3>2, <3>3
  <2>6. QED BY <2>4, <2>5
<1>3. IsPayload(redacted)
  BY <1>1, <1>2 DEF Plain, IsPayload
<1>4. Clean(redacted)
  BY <1>2 DEF Clean
<1>5. QED BY <1>3, <1>4

-------------------------------------------------------------------------------
(* Reading a trip's rows. *)

\* What GetEvents makes of a table with n ids given out.
IsReading(f, table, n, t) ==
  f = [id \in 0..n |->
         IF id = 0 THEN <<>>
         ELSE IF id \in DOMAIN table /\ table[id].trip = t THEN Append(f[id - 1], table[id])
         ELSE f[id - 1]]

EventsOf(table, n, t) == (CHOOSE f : IsReading(f, table, n, t))[n]

\* f has the trip's rows up to each id.
Listing(f, table, n, t) ==
  /\ f \in [0..n -> Seq({table[id] : id \in DOMAIN table})]
  /\ f[0] = <<>>
  /\ \A id \in 1..n :
       f[id] = IF id \in DOMAIN table /\ table[id].trip = t THEN Append(f[id - 1], table[id]) ELSE f[id - 1]

\* GetEvents is such a reading.
LEMMA GetEventsReads == \A t : GetEvents(t) = EventsOf(rows, lastId, t)
BY DEF GetEvents, EventsOf, IsReading

\* EventsOf is the last of the lists, which exist.
LEMMA EventsAreListed ==
  ASSUME NEW n \in Nat, NEW table, NEW t
  PROVE  \E f : Listing(f, table, n, t) /\ EventsOf(table, n, t) = f[n]
<1> DEFINE D == Seq({table[id] : id \in DOMAIN table})
           Of(id) == id \in DOMAIN table /\ table[id].trip = t
           step == [id \in 1..n |-> [s \in D |-> IF Of(id) THEN Append(s, table[id]) ELSE s]]
<1>1. \A id \in 1..n, s \in D : step[id][s] = IF Of(id) THEN Append(s, table[id]) ELSE s
  OBVIOUS
<1>2. \A id \in 1..n : step[id] \in [D -> D]
  <2>1. ASSUME NEW id \in 1..n, NEW s \in D PROVE (IF Of(id) THEN Append(s, table[id]) ELSE s) \in D
    <3>1. CASE Of(id)
      BY <3>1, AppendProperties
    <3> QED
      BY <3>1
  <2> HIDE DEF Of, D
  <2> QED
    BY <2>1
<1>3. <<>> \in D
  BY EmptySeq
<1> HIDE DEF step, D
<1>4. PICK f : Recursion(f, n, D, <<>>, step)
  BY <1>2, <1>3, RecursionExists
<1>5. /\ f \in [0..n -> D] /\ f[0] = <<>>
      /\ \A id \in 1..n : f[id] = IF Of(id) THEN Append(f[id - 1], table[id]) ELSE f[id - 1]
  <2>1. \A id \in 1..n : id - 1 \in 0..n
    OBVIOUS
  <2> HIDE DEF Of
  <2> QED
    BY <1>1, <1>4, <2>1 DEF Recursion
<1>6. IsReading(f, table, n, t)
  <2>1. \A id \in 0..n : id # 0 => id \in 1..n
    OBVIOUS
  <2>2. \A id \in 0..n : f[id] = IF id = 0 THEN <<>>
                                 ELSE IF Of(id) THEN Append(f[id - 1], table[id]) ELSE f[id - 1]
    BY <1>5, <2>1
  <2> QED
    BY <1>5, <2>2 DEF IsReading
<1>7. PICK g : IsReading(g, table, n, t) /\ EventsOf(table, n, t) = g[n]
  <2>1. IsReading(CHOOSE g : IsReading(g, table, n, t), table, n, t)
    BY <1>6
  <2> QED
    BY <2>1 DEF EventsOf
<1>8. \A id \in 0..n : g[id] = f[id]
  <2>1. /\ g[0] = <<>>
        /\ \A id \in 1..n : g[id] = IF Of(id) THEN Append(g[id - 1], table[id]) ELSE g[id - 1]
    <3>1. 0 \in 0..n /\ \A id \in 1..n : id \in 0..n /\ id # 0
      OBVIOUS
    <3>2. g = [id \in 0..n |-> IF id = 0 THEN <<>>
                               ELSE IF Of(id) THEN Append(g[id - 1], table[id]) ELSE g[id - 1]]
      BY <1>7 DEF IsReading
    <3>3. \A id \in 0..n : g[id] = IF id = 0 THEN <<>>
                                   ELSE IF Of(id) THEN Append(g[id - 1], table[id]) ELSE g[id - 1]
      <4> HIDE DEF Of
      <4> QED
        BY <3>2, Zenon
    <3> HIDE DEF Of
    <3> QED
      BY <3>1, <3>3
  <2> DEFINE Same == {id \in 0..n : g[id] = f[id]}
  <2>2. 0 \in Same
    BY <1>5, <2>1
  <2>3. \A id \in 1..n : id - 1 \in Same => id \in Same
    BY <1>5, <2>1
  <2>4. \A id \in 0..n : id \in Same
    <3> HIDE DEF Same
    <3> QED
      BY <2>2, <2>3, UpTo
  <2> QED
    BY <2>4
<1>9. Listing(f, table, n, t)
  BY <1>5 DEF Listing, D
<1>10. n \in 0..n
  OBVIOUS
<1> QED
  BY <1>7, <1>8, <1>9, <1>10

-------------------------------------------------------------------------------
(* The calls of the gateway among a trip's. *)

IsOwn(f, calls) ==
  f = [i \in 0..Len(calls) |->
         IF i = 0 THEN <<>>
         ELSE IF calls[i].event = "booking_blocked_no_approval" THEN f[i - 1]
         ELSE Append(f[i - 1], calls[i])]

\* f has the gateway's calls up to each of some calls.
Own(f, calls, S) ==
  /\ f \in [0..Len(calls) -> Seq(S)]
  /\ f[0] = <<>>
  /\ \A i \in 1..Len(calls) :
       f[i] = IF calls[i].event = "booking_blocked_no_approval" THEN f[i - 1] ELSE Append(f[i - 1], calls[i])

LEMMA GatewaysAreOwn ==
  ASSUME NEW S, NEW calls \in Seq(S)
  PROVE  \E f : Own(f, calls, S) /\ Gateways(calls) = f[Len(calls)]
<1> DEFINE n == Len(calls)
           Other(i) == calls[i].event = "booking_blocked_no_approval"
           D == Seq(S)
           step == [i \in 1..n |-> [s \in D |-> IF Other(i) THEN s ELSE Append(s, calls[i])]]
<1>1. n \in Nat /\ \A i \in 1..n : calls[i] \in S
  BY LenProperties, ElementOfSeq
<1> HIDE DEF n, Other
<1>2. \A i \in 1..n, s \in D : step[i][s] = IF Other(i) THEN s ELSE Append(s, calls[i])
  OBVIOUS
<1>3. \A i \in 1..n : step[i] \in [D -> D]
  <2>1. ASSUME NEW i \in 1..n, NEW s \in D PROVE (IF Other(i) THEN s ELSE Append(s, calls[i])) \in D
    BY <1>1, AppendProperties
  <2> HIDE DEF D
  <2> QED
    BY <2>1
<1>4. <<>> \in D
  BY EmptySeq
<1> HIDE DEF step, D
<1>5. PICK f : Recursion(f, n, D, <<>>, step)
  BY <1>1, <1>3, <1>4, RecursionExists
<1>6. /\ f \in [0..n -> D] /\ f[0] = <<>>
      /\ \A i \in 1..n : f[i] = IF Other(i) THEN f[i - 1] ELSE Append(f[i - 1], calls[i])
  <2>1. \A i \in 1..n : i - 1 \in 0..n
    BY <1>1
  <2> QED
    BY <1>2, <1>5, <2>1 DEF Recursion
<1>7. 0 \in 0..n /\ n \in 0..n /\ \A i \in 0..n : i # 0 <=> i \in 1..n
  BY <1>1
<1>8. IsOwn(f, calls)
  <2>1. \A i \in 0..n : f[i] = IF i = 0 THEN <<>>
                               ELSE IF Other(i) THEN f[i - 1] ELSE Append(f[i - 1], calls[i])
    BY <1>6, <1>7
  <2> QED
    BY <1>6, <2>1 DEF IsOwn, Other, n
<1>9. PICK g : IsOwn(g, calls) /\ Gateways(calls) = g[n]
  <2>1. IsOwn(CHOOSE g : IsOwn(g, calls), calls)
    BY <1>8
  <2>2. Gateways(calls) = (CHOOSE g : IsOwn(g, calls))[n]
    BY DEF Gateways, IsOwn, n
  <2> QED
    BY <2>1, <2>2
<1>10. \A i \in 0..n : g[i] = f[i]
  <2>1. \A i \in 0..n : g[i] = IF i = 0 THEN <<>>
                               ELSE IF Other(i) THEN g[i - 1] ELSE Append(g[i - 1], calls[i])
    <3>1. g = [i \in 0..n |-> IF i = 0 THEN <<>>
                              ELSE IF Other(i) THEN g[i - 1] ELSE Append(g[i - 1], calls[i])]
      BY <1>9 DEF IsOwn, Other, n
    <3> QED
      BY <3>1, Zenon
  <2> DEFINE Same == {i \in 0..n : g[i] = f[i]}
  <2>2. 0 \in Same
    BY <1>6, <1>7, <2>1
  <2>3. ASSUME NEW i \in 1..n, i - 1 \in Same PROVE i \in Same
    <3>1. i \in 0..n /\ i # 0 /\ g[i - 1] = f[i - 1]
      BY <1>1, <2>3
    <3>2. g[i] = f[i]
      BY <1>6, <2>1, <3>1
    <3> QED
      BY <3>1, <3>2
  <2>4. \A i \in 0..n : i \in Same
    <3> HIDE DEF Same
    <3> QED
      BY <1>1, <2>2, <2>3, UpTo
  <2> QED
    BY <2>4
<1>11. Own(f, calls, S)
  BY <1>6 DEF Own, D, n, Other
<1>12. Gateways(calls) = f[n]
  BY <1>7, <1>9, <1>10
<1> QED
  BY <1>11, <1>12 DEF n

\* A call more is one more of the gateway's, unless it is a refused booking.
LEMMA GatewaysOfAppend ==
  ASSUME NEW S, NEW calls \in Seq(S), NEW call \in S
  PROVE  /\ Gateways(calls) \in Seq(S)
         /\ Gateways(Append(calls, call)) =
              IF call.event = "booking_blocked_no_approval" THEN Gateways(calls) ELSE Append(Gateways(calls), call)
<1> DEFINE longer == Append(calls, call)
           n == Len(calls)
<1>1. /\ longer \in Seq(S) /\ Len(longer) = n + 1 /\ n \in Nat
      /\ \A i \in 1..n : longer[i] = calls[i]
      /\ longer[n + 1] = call
  BY AppendProperties, LenProperties
<1> HIDE DEF longer
<1>2. PICK f : Own(f, longer, S) /\ Gateways(longer) = f[n + 1]
  BY <1>1, GatewaysAreOwn
<1>3. PICK g : Own(g, calls, S) /\ Gateways(calls) = g[n]
  BY GatewaysAreOwn
<1>4. f[n] = g[n]
  <2> DEFINE Same == {i \in 0..n : f[i] = g[i]}
  <2>1. 0 \in Same
    BY <1>1, <1>2, <1>3 DEF Own
  <2>2. ASSUME NEW i \in 1..n, i - 1 \in Same PROVE i \in Same
    <3>1. i \in 1..Len(longer) /\ i \in 0..n /\ longer[i] = calls[i] /\ f[i - 1] = g[i - 1]
      BY <1>1, <2>2
    <3> QED
      BY <1>2, <1>3, <3>1 DEF Own
  <2>3. n \in 0..n
    BY <1>1
  <2> HIDE DEF n
  <2>4. \A i \in 0..n : i \in Same
    <3> HIDE DEF Same
    <3> QED
      BY <1>1, <2>1, <2>2, UpTo
  <2> QED
    BY <2>3, <2>4
<1>5. /\ g[n] \in Seq(S)
      /\ f[n + 1] = IF longer[n + 1].event = "booking_blocked_no_approval"
                    THEN f[n] ELSE Append(f[n], longer[n + 1])
  <2>1. n \in 0..n /\ n + 1 \in 1..Len(longer) /\ (n + 1) - 1 = n
    BY <1>1
  <2> QED
    BY <1>2, <1>3, <2>1 DEF Own
<1> QED
  BY <1>1, <1>2, <1>3, <1>4, <1>5 DEF longer

-------------------------------------------------------------------------------
(* What the events are aggregated to. *)

Outcomes == [status : Statuses \cup {"none"}, approved_by : Values \cup EmployeeIds]

TrailRecords ==
  [candidate_fares : Fares \cup {Null},
   approval_outcome : Outcomes,
   final_fare : Fares \cup {Null},
   business_cost_usd : Values]

\* The payload has what the aggregation reads of an event.
Tells(row) ==
  /\ row.event = "flight_node_complete" /\ FoundFares \in DOMAIN row.payload =>
       row.payload[FoundFares] \in Fares
  /\ row.event \in ApprovalEvents =>
       /\ {Status, ApprovedBy, Fare} \subseteq DOMAIN row.payload
       /\ row.payload[Status] \in Statuses
       /\ row.payload[ApprovedBy] \in Values \cup EmployeeIds
       /\ row.payload[Fare] \in Fares
  /\ row.event = "business_cost_recorded" =>
       /\ FarePrice \in DOMAIN row.payload
       /\ \E fare \in Fares : row.payload[FarePrice] = PriceOf[fare]

IsAccount(f, events) ==
  f = [i \in 0..Len(events) |-> IF i = 0 THEN NewTrail ELSE Aggregate(f[i - 1], events[i])]

AccountOf(events) == (CHOOSE f : IsAccount(f, events))[Len(events)]

\* f is what is told by the events up to each.
Account(f, events) ==
  /\ f \in [0..Len(events) -> TrailRecords]
  /\ f[0] = NewTrail
  /\ \A i \in 1..Len(events) : f[i] = Aggregate(f[i - 1], events[i])

LEMMA TrailIsAccount == \A t : GetTripAuditTrail(t) = AccountOf(GetEvents(t))
BY DEF GetTripAuditTrail, AccountOf, IsAccount

LEMMA AggregateIsTyped ==
  ASSUME NEW trail \in TrailRecords, NEW row, Tells(row)
  PROVE  Aggregate(trail, row) \in TrailRecords
<1>1. CASE row.event = "flight_node_complete"
  <2>1. row.event \notin ApprovalEvents /\ row.event # "business_cost_recorded"
    BY <1>1 DEF ApprovalEvents
  <2> DEFINE found == IF FoundFares \in DOMAIN row.payload THEN row.payload[FoundFares]
                      ELSE trail.candidate_fares
  <2>2. Aggregate(trail, row) = [trail EXCEPT !.candidate_fares = found]
    BY <1>1, <2>1 DEF Aggregate
  <2>3. found \in Fares \cup {Null}
    BY <1>1 DEF Tells, TrailRecords
  <2> HIDE DEF found
  <2> QED
    BY <2>2, <2>3 DEF TrailRecords
<1>2. CASE row.event \in ApprovalEvents
  <2>1. row.event # "flight_node_complete" /\ row.event # "business_cost_recorded"
    BY <1>2 DEF ApprovalEvents
  <2>2. Aggregate(trail, row) =
          [trail EXCEPT !.approval_outcome = [status |-> row.payload[Status],
                                              approved_by |-> row.payload[ApprovedBy]],
                        !.final_fare = row.payload[Fare]]
    BY <1>2, <2>1 DEF Aggregate
  <2>3. /\ row.payload[Status] \in Statuses /\ row.payload[Fare] \in Fares
        /\ row.payload[ApprovedBy] \in Values \cup EmployeeIds
    BY <1>2 DEF Tells
  <2>4. [status |-> row.payload[Status], approved_by |-> row.payload[ApprovedBy]] \in Outcomes
    BY <2>3 DEF Outcomes
  <2> QED
    BY <2>2, <2>3, <2>4 DEF TrailRecords
<1>3. CASE row.event = "business_cost_recorded"
  <2>1. row.event # "flight_node_complete" /\ row.event \notin ApprovalEvents
    BY <1>3 DEF ApprovalEvents
  <2>2. row.payload[FarePrice] \in Values
    BY <1>3, ServerAssumption DEF Tells
  <2> QED
    BY <1>3, <2>1, <2>2 DEF Aggregate, TrailRecords
<1>4. CASE row.event \notin {"flight_node_complete", "business_cost_recorded"} \cup ApprovalEvents
  BY <1>4 DEF Aggregate
<1> QED
  BY <1>1, <1>2, <1>3, <1>4

LEMMA AccountsExist ==
  ASSUME NEW S, NEW events \in Seq(S), \A row \in S : Tells(row)
  PROVE  \E f : Account(f, events) /\ AccountOf(events) = f[Len(events)]
<1> DEFINE n == Len(events)
           step == [i \in 1..n |-> [trail \in TrailRecords |-> Aggregate(trail, events[i])]]
<1>1. n \in Nat /\ \A i \in 1..n : events[i] \in S
  BY LenProperties, ElementOfSeq
<1> HIDE DEF n
<1>2. \A i \in 1..n, trail \in TrailRecords : step[i][trail] = Aggregate(trail, events[i])
  OBVIOUS
<1>3. \A i \in 1..n : step[i] \in [TrailRecords -> TrailRecords]
  BY <1>1, AggregateIsTyped
<1>4. NewTrail \in TrailRecords
  BY LogAssumption DEF NewTrail, NoOutcome, Outcomes, TrailRecords
<1> HIDE DEF step
<1>5. PICK f : Recursion(f, n, TrailRecords, NewTrail, step)
  BY <1>1, <1>3, <1>4, RecursionExists
<1>6. /\ f \in [0..n -> TrailRecords] /\ f[0] = NewTrail
      /\ \A i \in 1..n : f[i] = Aggregate(f[i - 1], events[i])
  <2>1. \A i \in 1..n : i - 1 \in 0..n
    BY <1>1
  <2> QED
    BY <1>2, <1>5, <2>1 DEF Recursion
<1>7. 0 \in 0..n /\ n \in 0..n /\ \A i \in 0..n : i # 0 <=> i \in 1..n
  BY <1>1
<1>8. IsAccount(f, events)
  <2>1. \A i \in 0..n : f[i] = IF i = 0 THEN NewTrail ELSE Aggregate(f[i - 1], events[i])
    BY <1>6, <1>7
  <2> QED
    BY <1>6, <2>1 DEF IsAccount, n
<1>9. PICK g : IsAccount(g, events) /\ AccountOf(events) = g[n]
  <2>1. IsAccount(CHOOSE g : IsAccount(g, events), events)
    BY <1>8
  <2> QED
    BY <2>1 DEF AccountOf, n
<1>10. \A i \in 0..n : g[i] = f[i]
  <2>1. \A i \in 0..n : g[i] = IF i = 0 THEN NewTrail ELSE Aggregate(g[i - 1], events[i])
    <3>1. g = [i \in 0..n |-> IF i = 0 THEN NewTrail ELSE Aggregate(g[i - 1], events[i])]
      BY <1>9 DEF IsAccount, n
    <3> QED
      BY <3>1, Zenon
  <2> DEFINE Same == {i \in 0..n : g[i] = f[i]}
  <2>2. 0 \in Same
    BY <1>6, <1>7, <2>1
  <2>3. ASSUME NEW i \in 1..n, i - 1 \in Same PROVE i \in Same
    <3>1. i \in 0..n /\ i # 0 /\ g[i - 1] = f[i - 1]
      BY <1>1, <2>3
    <3>2. g[i] = f[i]
      BY <1>6, <2>1, <3>1
    <3> QED
      BY <3>1, <3>2
  <2>4. \A i \in 0..n : i \in Same
    <3> HIDE DEF Same
    <3> QED
      BY <1>1, <2>2, <2>3, UpTo
  <2> QED
    BY <2>4
<1>11. Account(f, events) /\ AccountOf(events) = f[n]
  BY <1>6, <1>7, <1>9, <1>10 DEF Account, n
<1> QED
  BY <1>11 DEF n

\* An event more is aggregated to what the others told.
LEMMA AccountOfAppend ==
  ASSUME NEW S, NEW events \in Seq(S), NEW row \in S, \A other \in S : Tells(other)
  PROVE  /\ AccountOf(events) \in TrailRecords
         /\ AccountOf(Append(events, row)) = Aggregate(AccountOf(events), row)
<1> DEFINE longer == Append(events, row)
           n == Len(events)
<1>1. /\ longer \in Seq(S) /\ Len(longer) = n + 1 /\ n \in Nat
      /\ \A i \in 1..n : longer[i] = events[i]
      /\ longer[n + 1] = row
  BY AppendProperties, LenProperties
<1> HIDE DEF longer
<1>2. PICK f : Account(f, longer) /\ AccountOf(longer) = f[n + 1]
  BY <1>1, AccountsExist
<1>3. PICK g : Account(g, events) /\ AccountOf(events) = g[n]
  BY AccountsExist
<1>4. f[n] = g[n]
  <2> DEFINE Same == {i \in 0..n : f[i] = g[i]}
  <2>1. 0 \in Same
    BY <1>1, <1>2, <1>3 DEF Account
  <2>2. ASSUME NEW i \in 1..n, i - 1 \in Same PROVE i \in Same
    <3>1. i \in 1..Len(longer) /\ i \in 0..n /\ longer[i] = events[i] /\ f[i - 1] = g[i - 1]
      BY <1>1, <2>2
    <3> QED
      BY <1>2, <1>3, <3>1 DEF Account
  <2>3. n \in 0..n
    BY <1>1
  <2> HIDE DEF n
  <2>4. \A i \in 0..n : i \in Same
    <3> HIDE DEF Same
    <3> QED
      BY <1>1, <2>1, <2>2, UpTo
  <2> QED
    BY <2>3, <2>4
<1>5. g[n] \in TrailRecords /\ f[n + 1] = Aggregate(f[n], longer[n + 1])
  <2>1. n \in 0..n /\ n + 1 \in 1..Len(longer) /\ (n + 1) - 1 = n
    BY <1>1
  <2> QED
    BY <1>2, <1>3, <2>1 DEF Account
<1> QED
  BY <1>1, <1>2, <1>3, <1>4, <1>5 DEF longer

-------------------------------------------------------------------------------
(* What a row more, committed, adds to what is read. *)

Blocked == "booking_blocked_no_approval"

CallOf(row) == [event |-> row.event, time |-> row.time]

CallsOf(events) == [i \in DOMAIN events |-> CallOf(events[i])]

OwnCalls(events) == Gateways(CallsOf(events))

\* The table with a row more.
With(table, k, row) == [id \in DOMAIN table \cup {k} |-> IF id = k THEN row ELSE table[id]]

\* The calls of some events are theirs, one by one.
LEMMA CallsOfAppend ==
  ASSUME NEW S, NEW events \in Seq(S), NEW row \in S
  PROVE  /\ CallsOf(events) \in Seq({CallOf(r) : r \in S})
         /\ CallsOf(Append(events, row)) = Append(CallsOf(events), CallOf(row))
<1> DEFINE n == Len(events)
           longer == Append(events, row)
           calls == CallsOf(events)
           C == {CallOf(r) : r \in S}
<1>1. /\ longer \in Seq(S) /\ Len(longer) = n + 1 /\ n \in Nat
      /\ \A i \in 1..n : longer[i] = events[i]
      /\ longer[n + 1] = row
  BY AppendProperties, LenProperties
<1>2. DOMAIN events = 1..n /\ DOMAIN longer = 1..(n + 1) /\ \A i \in 1..n : events[i] \in S
  BY <1>1, LenProperties, ElementOfSeq
<1> HIDE DEF longer, n
<1>3. calls = [i \in 1..n |-> CallOf(events[i])]
  BY <1>2 DEF CallsOf
<1>4. CallsOf(longer) = [i \in 1..(n + 1) |-> CallOf(longer[i])]
  BY <1>2 DEF CallsOf
<1> HIDE DEF calls
<1>5. calls \in [1..n -> C]
  BY <1>2, <1>3
<1> HIDE DEF C
<1>6. calls \in Seq(C) /\ Len(calls) = n
  BY <1>1, <1>5, SeqDef, LenProperties
<1> DEFINE added == Append(calls, CallOf(row))
<1>7. CallOf(row) \in C
  BY DEF C
<1>8. /\ added \in Seq(C)
      /\ Len(added) = n + 1
      /\ \A i \in 1..n : added[i] = calls[i]
      /\ added[n + 1] = CallOf(row)
  BY <1>6, <1>7, AppendProperties
<1> HIDE DEF added
<1>9. ASSUME NEW i \in 1..(n + 1) PROVE CallsOf(longer)[i] = added[i]
  <2>1. CallsOf(longer)[i] = CallOf(longer[i])
    BY <1>4
  <2>2. CASE i \in 1..n
    <3>1. calls[i] = CallOf(events[i]) /\ longer[i] = events[i]
      BY <1>1, <1>3, <2>2
    <3>2. added[i] = calls[i]
      BY <1>8, <2>2
    <3> QED
      BY <2>1, <3>1, <3>2
  <2>3. CASE i = n + 1
    <3>1. longer[i] = row
      BY <1>1, <2>3
    <3>2. added[i] = CallOf(row)
      BY <1>8, <2>3
    <3> QED
      BY <2>1, <3>1, <3>2
  <2> QED
    BY <1>1, <2>2, <2>3
<1>10. CallsOf(longer) = added
  <2>1. added = [i \in 1..(n + 1) |-> added[i]]
    BY <1>8, LenProperties
  <2> QED
    BY <1>4, <1>9, <2>1
<1> QED
  BY <1>6, <1>10 DEF calls, C, longer, added

\* With the next id a reading has, or has not, one row more.
LEMMA ReadingSteps ==
  ASSUME NEW n \in Nat, NEW table, \A id \in DOMAIN table : Tells(table[id]),
         NEW t, NEW f, Listing(f, table, n, t), NEW id \in 1..n
  PROVE  /\ id \in DOMAIN table /\ table[id].trip = t =>
              /\ f[id] = Append(f[id - 1], table[id])
              /\ OwnCalls(f[id]) = IF table[id].event = Blocked THEN OwnCalls(f[id - 1])
                                   ELSE Append(OwnCalls(f[id - 1]), CallOf(table[id]))
              /\ AccountOf(f[id]) = Aggregate(AccountOf(f[id - 1]), table[id])
         /\ ~(id \in DOMAIN table /\ table[id].trip = t) => f[id] = f[id - 1]
<1> DEFINE S == {table[i] : i \in DOMAIN table}
<1>1. f[id - 1] \in Seq(S)
  <2>1. id - 1 \in 0..n
    OBVIOUS
  <2> QED
    BY <2>1 DEF Listing
<1>2. f[id] = IF id \in DOMAIN table /\ table[id].trip = t THEN Append(f[id - 1], table[id]) ELSE f[id - 1]
  BY DEF Listing
<1>3. ASSUME id \in DOMAIN table, table[id].trip = t
      PROVE  /\ f[id] = Append(f[id - 1], table[id])
             /\ OwnCalls(f[id]) = IF table[id].event = Blocked THEN OwnCalls(f[id - 1])
                                  ELSE Append(OwnCalls(f[id - 1]), CallOf(table[id]))
             /\ AccountOf(f[id]) = Aggregate(AccountOf(f[id - 1]), table[id])
  <2>1. table[id] \in S /\ \A row \in S : Tells(row)
    BY <1>3
  <2>2. f[id] = Append(f[id - 1], table[id])
    BY <1>2, <1>3
  <2> DEFINE C == {CallOf(r) : r \in S}
  <2>3. CallOf(table[id]) \in C /\ CallOf(table[id]).event = table[id].event
    BY <2>1 DEF CallOf
  <2> HIDE DEF S
  <2>4. /\ CallsOf(f[id - 1]) \in Seq(C)
        /\ CallsOf(f[id]) = Append(CallsOf(f[id - 1]), CallOf(table[id]))
    BY <1>1, <2>1, <2>2, CallsOfAppend
  <2>5. AccountOf(f[id]) = Aggregate(AccountOf(f[id - 1]), table[id])
    BY <1>1, <2>1, <2>2, AccountOfAppend
  <2> HIDE DEF C
  <2>6. OwnCalls(f[id]) = IF table[id].event = Blocked THEN OwnCalls(f[id - 1])
                          ELSE Append(OwnCalls(f[id - 1]), CallOf(table[id]))
    BY <2>3, <2>4, GatewaysOfAppend DEF OwnCalls, Blocked
  <2> QED
    BY <2>2, <2>5, <2>6
<1> QED
  BY <1>2, <1>3

\* A refused booking tells nothing.
LEMMA BlockedTellsNothing ==
  ASSUME NEW trail, NEW row, row.event = Blocked
  PROVE  Aggregate(trail, row) = trail /\ Tells(row)
BY DEF Aggregate, Blocked, ApprovalEvents, Tells

\* A row of another trip changes nothing.
LEMMA OtherTripsRow ==
  ASSUME NEW n \in Nat, NEW table, NEW k \in 1..n, k \notin DOMAIN table, NEW row, NEW t, row.trip # t
  PROVE  EventsOf(With(table, k, row), n, t) = EventsOf(table, n, t)
<1> DEFINE more == With(table, k, row)
<1>1. PICK f : Listing(f, table, n, t) /\ EventsOf(table, n, t) = f[n]
  BY EventsAreListed
<1>2. PICK g : Listing(g, more, n, t) /\ EventsOf(more, n, t) = g[n]
  BY EventsAreListed
<1>3. DOMAIN more = DOMAIN table \cup {k} /\ more[k] = row /\ \A id \in DOMAIN table : more[id] = table[id]
  BY DEF With
<1> HIDE DEF more
<1> DEFINE Same == {id \in 0..n : g[id] = f[id]}
<1>4. 0 \in Same
  BY <1>1, <1>2 DEF Listing
<1>5. ASSUME NEW id \in 1..n, id - 1 \in Same PROVE id \in Same
  <2>1. id \in 0..n /\ g[id - 1] = f[id - 1]
    BY <1>5
  <2>2. id \in DOMAIN more /\ more[id].trip = t <=> id \in DOMAIN table /\ table[id].trip = t
    BY <1>3
  <2>3. g[id] = f[id]
    BY <1>1, <1>2, <1>3, <2>1, <2>2 DEF Listing
  <2> QED
    BY <2>1, <2>3
<1>6. n \in Same
  <2>1. n \in 0..n
    OBVIOUS
  <2> HIDE DEF Same
  <2> QED
    BY <1>4, <1>5, <2>1, UpTo
<1> QED
  BY <1>1, <1>2, <1>6 DEF more

\* Nor does an id without a row.
LEMMA NoRowAdded ==
  ASSUME NEW n \in Nat, NEW table, n + 1 \notin DOMAIN table, NEW t
  PROVE  EventsOf(table, n + 1, t) = EventsOf(table, n, t)
<1>1. PICK f : Listing(f, table, n, t) /\ EventsOf(table, n, t) = f[n]
  BY EventsAreListed
<1>2. PICK g : Listing(g, table, n + 1, t) /\ EventsOf(table, n + 1, t) = g[n + 1]
  BY EventsAreListed
<1> DEFINE Same == {id \in 0..n : g[id] = f[id]}
<1>3. 0 \in Same
  BY <1>1, <1>2 DEF Listing
<1>4. ASSUME NEW id \in 1..n, id - 1 \in Same PROVE id \in Same
  <2>1. id \in 0..n /\ id \in 1..(n + 1) /\ g[id - 1] = f[id - 1]
    BY <1>4
  <2>2. g[id] = f[id]
    BY <1>1, <1>2, <2>1 DEF Listing
  <2> QED
    BY <2>1, <2>2
<1>5. n \in Same
  <2>1. n \in 0..n
    OBVIOUS
  <2> HIDE DEF Same
  <2> QED
    BY <1>3, <1>4, <2>1, UpTo
<1>6. g[n + 1] = g[n]
  <2>1. n + 1 \in 1..(n + 1) /\ (n + 1) - 1 = n
    OBVIOUS
  <2> QED
    BY <1>2, <2>1 DEF Listing
<1> QED
  BY <1>1, <1>2, <1>5, <1>6

AllBelow(table, k) == DOMAIN table \subseteq Nat /\ \A id \in DOMAIN table : id < k

\* A row above all others is the last that is read.
LEMMA LastRow ==
  ASSUME NEW n \in Nat, NEW table, NEW k \in 1..n, AllBelow(table, k),
         NEW row, NEW t, row.trip = t
  PROVE  EventsOf(With(table, k, row), n, t) = Append(EventsOf(table, n, t), row)
<1> DEFINE more == With(table, k, row)
<1>1. PICK f : Listing(f, table, n, t) /\ EventsOf(table, n, t) = f[n]
  BY EventsAreListed
<1>2. PICK g : Listing(g, more, n, t) /\ EventsOf(more, n, t) = g[n]
  BY EventsAreListed
<1>3. DOMAIN more = DOMAIN table \cup {k} /\ more[k] = row /\ \A id \in DOMAIN table : more[id] = table[id]
  <2>1. k \notin DOMAIN table
    BY DEF AllBelow
  <2> QED
    BY <2>1 DEF With
<1> HIDE DEF more
<1> USE DEF AllBelow
<1>4. f[0] = g[0]
  BY <1>1, <1>2 DEF Listing
<1>5. ASSUME NEW id \in 1..n, id < k, f[id - 1] = g[id - 1] PROVE f[id] = g[id]
  <2>1. id \in DOMAIN more <=> id \in DOMAIN table
    BY <1>3, <1>5
  <2> QED
    BY <1>1, <1>2, <1>3, <1>5, <2>1 DEF Listing
<1>6. f[k] = f[k - 1] /\ g[k] = Append(g[k - 1], row)
  <2>1. k \notin DOMAIN table
    OBVIOUS
  <2> QED
    BY <1>1, <1>2, <1>3, <2>1 DEF Listing
<1>7. ASSUME NEW id \in 1..n, id > k PROVE f[id] = f[id - 1] /\ g[id] = g[id - 1]
  <2>1. id \notin DOMAIN table /\ id \notin DOMAIN more
    BY <1>3, <1>7
  <2> QED
    BY <1>1, <1>2, <2>1 DEF Listing
<1>8. f[n] = f[k - 1] /\ f[k - 1] = g[k - 1] /\ g[n] = g[k]
  <2>1. AlikeBut(f, g, n, k)
    BY <1>4, <1>5, <1>6, <1>7 DEF AlikeBut
  <2>2. DifferBy(f, g, n, k)
    BY <2>1, OneInserted
  <2> QED
    BY <2>2 DEF DifferBy
<1> QED
  BY <1>1, <1>2, <1>6, <1>8 DEF more

\* A refused booking, wherever its row is, changes neither the gateway's calls
\* nor the record.
LEMMA BlockedRow ==
  ASSUME NEW n \in Nat, NEW table, \A id \in DOMAIN table : Tells(table[id]),
         NEW k \in 1..n, k \notin DOMAIN table, NEW row, row.event = Blocked, NEW t
  PROVE  /\ OwnCalls(EventsOf(With(table, k, row), n, t)) = OwnCalls(EventsOf(table, n, t))
         /\ AccountOf(EventsOf(With(table, k, row), n, t)) = AccountOf(EventsOf(table, n, t))
<1> DEFINE more == With(table, k, row)
<1>1. PICK f : Listing(f, table, n, t) /\ EventsOf(table, n, t) = f[n]
  BY EventsAreListed
<1>2. PICK g : Listing(g, more, n, t) /\ EventsOf(more, n, t) = g[n]
  BY EventsAreListed
<1>3. DOMAIN more = DOMAIN table \cup {k} /\ more[k] = row /\ \A id \in DOMAIN table : more[id] = table[id]
  BY DEF With
<1>4. \A id \in DOMAIN more : Tells(more[id])
  BY <1>3, BlockedTellsNothing
<1> HIDE DEF more
<1> DEFINE Same == {id \in 0..n : OwnCalls(g[id]) = OwnCalls(f[id]) /\ AccountOf(g[id]) = AccountOf(f[id])}
<1>5. 0 \in Same
  BY <1>1, <1>2 DEF Listing
<1>6. ASSUME NEW id \in 1..n, id - 1 \in Same PROVE id \in Same
  <2>1. id \in 0..n /\ OwnCalls(g[id - 1]) = OwnCalls(f[id - 1]) /\ AccountOf(g[id - 1]) = AccountOf(f[id - 1])
    BY <1>6
  <2> DEFINE Reads(h, tb) ==
        /\ id \in DOMAIN tb /\ tb[id].trip = t =>
             /\ OwnCalls(h[id]) = IF tb[id].event = Blocked THEN OwnCalls(h[id - 1])
                                  ELSE Append(OwnCalls(h[id - 1]), CallOf(tb[id]))
             /\ AccountOf(h[id]) = Aggregate(AccountOf(h[id - 1]), tb[id])
        /\ ~(id \in DOMAIN tb /\ tb[id].trip = t) => h[id] = h[id - 1]
  <2>2. Reads(f, table)
    BY <1>1, ReadingSteps
  <2>3. Reads(g, more)
    BY <1>2, <1>4, ReadingSteps
  <2>4. OwnCalls(g[id]) = OwnCalls(f[id]) /\ AccountOf(g[id]) = AccountOf(f[id])
    <3>1. CASE id = k
      <4>1. f[id] = f[id - 1]
        BY <2>2, <3>1
      <4>2. id \in DOMAIN more /\ more[id] = row
        BY <1>3, <3>1
      <4>3. Aggregate(AccountOf(g[id - 1]), row) = AccountOf(g[id - 1])
        BY BlockedTellsNothing
      <4> QED
        BY <2>1, <2>3, <4>1, <4>2, <4>3
    <3>2. CASE id # k
      <4>1. (id \in DOMAIN more <=> id \in DOMAIN table) /\ (id \in DOMAIN table => more[id] = table[id])
        BY <1>3, <3>2
      <4> QED
        BY <2>1, <2>2, <2>3, <4>1
    <3> QED
      BY <3>1, <3>2
  <2> QED
    BY <2>1, <2>4
<1>7. n \in Same
  <2>1. n \in 0..n
    OBVIOUS
  <2> HIDE DEF Same
  <2> QED
    BY <1>5, <1>6, <2>1, UpTo
<1> QED
  BY <1>1, <1>2, <1>7 DEF more

\* Another event, with but refused bookings above it, is the gateway's last and
\* the last that the record is made of.
LEMMA GatewaysRow ==
  ASSUME NEW n \in Nat, NEW table, \A id \in DOMAIN table : Tells(table[id]),
         NEW k \in 1..n, k \notin DOMAIN table, NEW row, row.event # Blocked, Tells(row),
         \A id \in DOMAIN table : id > k => table[id].event = Blocked,
         NEW t, row.trip = t
  PROVE  /\ OwnCalls(EventsOf(With(table, k, row), n, t)) = Append(OwnCalls(EventsOf(table, n, t)), CallOf(row))
         /\ AccountOf(EventsOf(With(table, k, row), n, t)) = Aggregate(AccountOf(EventsOf(table, n, t)), row)
<1> DEFINE more == With(table, k, row)
<1>1. PICK f : Listing(f, table, n, t) /\ EventsOf(table, n, t) = f[n]
  BY EventsAreListed
<1>2. PICK g : Listing(g, more, n, t) /\ EventsOf(more, n, t) = g[n]
  BY EventsAreListed
<1>3. DOMAIN more = DOMAIN table \cup {k} /\ more[k] = row /\ \A id \in DOMAIN table : more[id] = table[id]
  BY DEF With
<1>4. \A id \in DOMAIN more : Tells(more[id])
  BY <1>3
<1> HIDE DEF more
<1> DEFINE Reads(h, tb, id) ==
      /\ id \in DOMAIN tb /\ tb[id].trip = t =>
           /\ OwnCalls(h[id]) = IF tb[id].event = Blocked THEN OwnCalls(h[id - 1])
                                ELSE Append(OwnCalls(h[id - 1]), CallOf(tb[id]))
           /\ AccountOf(h[id]) = Aggregate(AccountOf(h[id - 1]), tb[id])
      /\ ~(id \in DOMAIN tb /\ tb[id].trip = t) => h[id] = h[id - 1]
<1>5. \A id \in 1..n : Reads(f, table, id) /\ Reads(g, more, id)
  BY <1>1, <1>2, <1>4, ReadingSteps
<1> DEFINE fo == [id \in 0..n |-> OwnCalls(f[id])]
           go == [id \in 0..n |-> OwnCalls(g[id])]
           fa == [id \in 0..n |-> AccountOf(f[id])]
           ga == [id \in 0..n |-> AccountOf(g[id])]
<1>6. \A id \in 0..n : /\ fo[id] = OwnCalls(f[id]) /\ go[id] = OwnCalls(g[id])
                       /\ fa[id] = AccountOf(f[id]) /\ ga[id] = AccountOf(g[id])
  OBVIOUS
<1> HIDE DEF fo, go, fa, ga
<1>7. 0 \in 0..n /\ n \in 0..n /\ \A id \in 1..n : id \in 0..n /\ id - 1 \in 0..n
  OBVIOUS
<1>8. fo[0] = go[0] /\ fa[0] = ga[0]
  BY <1>1, <1>2, <1>6, <1>7 DEF Listing
<1>9. ASSUME NEW id \in 1..n, id < k
      PROVE  (fo[id - 1] = go[id - 1] => fo[id] = go[id]) /\ (fa[id - 1] = ga[id - 1] => fa[id] = ga[id])
  <2>1. (id \in DOMAIN more <=> id \in DOMAIN table) /\ (id \in DOMAIN table => more[id] = table[id])
    BY <1>3, <1>9
  <2>2. Reads(f, table, id) /\ Reads(g, more, id)
    BY <1>5
  <2> QED
    BY <1>6, <1>7, <2>1, <2>2
<1>10. /\ fo[k] = fo[k - 1] /\ fa[k] = fa[k - 1]
       /\ go[k] = Append(go[k - 1], CallOf(row))
       /\ ga[k] = Aggregate(ga[k - 1], row)
  <2>1. Reads(f, table, k) /\ Reads(g, more, k)
    BY <1>5
  <2>2. k \in DOMAIN more /\ more[k] = row
    BY <1>3
  <2>3. f[k] = f[k - 1]
    BY <2>1
  <2>4. OwnCalls(g[k]) = Append(OwnCalls(g[k - 1]), CallOf(row)) /\ AccountOf(g[k]) = Aggregate(AccountOf(g[k - 1]), row)
    BY <2>1, <2>2
  <2> QED
    BY <1>6, <1>7, <2>3, <2>4
<1>11. ASSUME NEW id \in 1..n, id > k
       PROVE  fo[id] = fo[id - 1] /\ go[id] = go[id - 1] /\ fa[id] = fa[id - 1] /\ ga[id] = ga[id - 1]
  <2>1. (id \in DOMAIN more <=> id \in DOMAIN table) /\ (id \in DOMAIN table => more[id] = table[id])
    BY <1>3, <1>11
  <2>2. Reads(f, table, id) /\ Reads(g, more, id)
    BY <1>5
  <2>3. id \in DOMAIN table => table[id].event = Blocked
    BY <1>11
  <2>4. \A trail : id \in DOMAIN table => Aggregate(trail, table[id]) = trail
    BY <2>3, BlockedTellsNothing
  <2>5. OwnCalls(f[id]) = OwnCalls(f[id - 1]) /\ AccountOf(f[id]) = AccountOf(f[id - 1])
    BY <2>2, <2>3, <2>4
  <2>6. OwnCalls(g[id]) = OwnCalls(g[id - 1]) /\ AccountOf(g[id]) = AccountOf(g[id - 1])
    BY <2>1, <2>2, <2>3, <2>4
  <2> QED
    BY <1>6, <1>7, <2>5, <2>6
<1>12. fo[n] = fo[k - 1] /\ fo[k - 1] = go[k - 1] /\ go[n] = go[k]
  <2>1. AlikeBut(fo, go, n, k)
    BY <1>8, <1>9, <1>10, <1>11 DEF AlikeBut
  <2>2. DifferBy(fo, go, n, k)
    BY <2>1, OneInserted
  <2> QED
    BY <2>2 DEF DifferBy
<1>13. fa[n] = fa[k - 1] /\ fa[k - 1] = ga[k - 1] /\ ga[n] = ga[k]
  <2>1. AlikeBut(fa, ga, n, k)
    BY <1>8, <1>9, <1>10, <1>11 DEF AlikeBut
  <2>2. DifferBy(fa, ga, n, k)
    BY <2>1, OneInserted
  <2> QED
    BY <2>2 DEF DifferBy
<1>14. OwnCalls(g[n]) = Append(OwnCalls(f[n]), CallOf(row))
  <2>1. go[n] = Append(fo[n], CallOf(row))
    BY <1>10, <1>12
  <2> QED
    BY <1>6, <1>7, <2>1
<1>15. AccountOf(g[n]) = Aggregate(AccountOf(f[n]), row)
  <2>1. ga[n] = Aggregate(fa[n], row)
    BY <1>10, <1>13
  <2> QED
    BY <1>6, <1>7, <2>1
<1> QED
  BY <1>1, <1>2, <1>14, <1>15, Zenon DEF more

-------------------------------------------------------------------------------
(* The steps of the log. *)

LEMMA RecordKeeps ==
  ASSUME LogType, LogClean, NEW p \in Processes, NEW t \in Trips, NEW event \in Events,
         NEW payload, Plain(payload), RecordEvent(p, t, event, payload)
  PROVE  LogType' /\ LogClean'
<1>1. MaxRows \in Nat
  BY LogAssumption
<1>2. CASE Insert(p, t, event, payload)
  <2>1. PICK time \in Times :
          open' = [open EXCEPT ![p] = [id |-> lastId', trip |-> t, event |-> event,
                                       payload |-> RedactPayload(payload), time |-> time]]
    BY <1>2 DEF Insert
  <2>2. UNCHANGED <<database, rows, lost>> /\ lastId' = lastId + 1 /\ lastId < MaxRows
    BY <1>2 DEF Insert, RecordEvent
  <2>3. lastId' \in 1..MaxRows
    BY <1>1, <2>2 DEF LogType
  <2> DEFINE row == [id |-> lastId', trip |-> t, event |-> event,
                     payload |-> RedactPayload(payload), time |-> time]
  <2>4. IsRow(row) /\ Clean(row.payload)
    <3>1. IsPayload(RedactPayload(payload)) /\ Clean(RedactPayload(payload))
      BY RedactionCleans
    <3>2. row.payload = RedactPayload(payload) /\ row.id = lastId' /\ row.trip = t
          /\ row.event = event /\ row.time = time
      OBVIOUS
    <3>3. DOMAIN row = {"id", "trip", "event", "payload", "time"}
      OBVIOUS
    <3> HIDE DEF row
    <3>4. QED BY <2>3, <3>1, <3>2, <3>3 DEF IsRow, IsPayload
  <2>5. \A q \in Processes : open'[q] = IF q = p THEN row ELSE open[q]
    BY <2>1 DEF LogType
  <2>6. DOMAIN open' = Processes
    BY <2>1 DEF LogType
  <2>7. LogType'
    BY <2>2, <2>3, <2>4, <2>5, <2>6 DEF LogType, IsRow
  <2>8. LogClean'
    BY <2>2, <2>4, <2>5 DEF LogClean, Clean
  <2>9. QED BY <2>7, <2>8
<1>3. CASE NotInserted(t)
  BY <1>3 DEF NotInserted, LogType, LogClean, IsRow, Clean
<1>4. QED BY <1>2, <1>3 DEF RecordEvent

LEMMA CommitKeeps ==
  ASSUME LogType, LogClean, NEW p \in Processes, Commit(p)
  PROVE  LogType' /\ LogClean'
<1>1. IsRow(open[p]) /\ Clean(open[p].payload) /\ open[p] # NoRow
  BY DEF Commit, LogType, LogClean
<1>2. DOMAIN open' = Processes /\ \A q \in Processes : open'[q] = IF q = p THEN NoRow ELSE open[q]
  BY DEF Commit, LogType
<1>3. /\ DOMAIN rows' = DOMAIN rows \cup {open[p].id}
      /\ \A id \in DOMAIN rows' : rows'[id] = IF id = open[p].id THEN open[p] ELSE rows[id]
  BY DEF Commit
<1>4. UNCHANGED <<database, lastId, lost>>
  BY DEF Commit
<1>5. open[p].id \in 1..MaxRows
  BY <1>1 DEF IsRow
<1>6. LogType'
  BY <1>1, <1>2, <1>3, <1>4, <1>5 DEF LogType, IsRow
<1>7. LogClean'
  BY <1>1, <1>2, <1>3 DEF LogClean, Clean
<1>8. QED BY <1>6, <1>7

LEMMA LoseKeeps ==
  ASSUME LogType, LogClean, NEW p \in Processes, Lose(p)
  PROVE  LogType' /\ LogClean'
<1>1. open[p].trip \in Trips
  BY DEF Lose, LogType, IsRow
<1>2. DOMAIN open' = Processes /\ \A q \in Processes : open'[q] = IF q = p THEN NoRow ELSE open[q]
  BY DEF Lose, LogType
<1>3. UNCHANGED <<database, rows, lastId>> /\ lost' = lost \cup {open[p].trip}
  BY DEF Lose
<1>4. LogType'
  BY <1>1, <1>2, <1>3 DEF LogType, IsRow
<1>5. LogClean'
  BY <1>2, <1>3 DEF LogClean, Clean
<1>6. QED BY <1>4, <1>5

-------------------------------------------------------------------------------
(* The order of the rows. *)

\* Ids are given once; SQLite has one transaction at a time, which has the last.
IdsInv ==
  /\ DOMAIN rows \subseteq 1..lastId
  /\ \A p \in Processes : open[p] # NoRow =>
       /\ open[p].id \in 1..lastId /\ open[p].id \notin DOMAIN rows
       /\ database = "sqlite" => open[p].id = lastId
       /\ \A q \in Processes \ {p} : open[q] # NoRow => database # "sqlite" /\ open[q].id # open[p].id

\* Every row has what is aggregated of it.
TellsInv ==
  /\ \A id \in DOMAIN rows : Tells(rows[id])
  /\ \A p \in Processes : open[p] # NoRow => Tells(open[p])

\* The booking server only refuses, and so what is above a row the gateway is
\* writing is a refused booking.
OrderInv ==
  /\ open["booking"] # NoRow => open["booking"].event = Blocked
  /\ open["gateway"] # NoRow =>
       \A id \in DOMAIN rows : id > open["gateway"].id => rows[id].event = Blocked

TableInv == IdsInv /\ TellsInv /\ OrderInv

\* Redaction leaves what is aggregated.
LEMMA RedactionTells ==
  ASSUME NEW row, Tells(row), NEW redacted, redacted.event = row.event,
         redacted.payload = RedactPayload(row.payload)
  PROVE  Tells(redacted)
<1> DEFINE payload == row.payload
           Read == {FoundFares, Status, ApprovedBy, Fare, FarePrice}
<1>1. \A path \in Read : path # <<>> /\ path[Len(path)] # "employee_id"
  <2>1. FoundFares # <<>> /\ FoundFares[Len(FoundFares)] # "employee_id"
    BY DEF FoundFares
  <2>2. Status # <<>> /\ Status[Len(Status)] # "employee_id"
    BY DEF Status
  <2>3. ApprovedBy # <<>> /\ ApprovedBy[Len(ApprovedBy)] # "employee_id"
    BY DEF ApprovedBy
  <2>4. Fare # <<>> /\ Fare[Len(Fare)] # "employee_id"
    BY DEF Fare
  <2>5. FarePrice # <<>> /\ FarePrice[Len(FarePrice)] # "employee_id"
    BY DEF FarePrice
  <2> QED
    BY <2>1, <2>2, <2>3, <2>4, <2>5
<1>2. \A path \in Read : \A i \in DOMAIN path : path[i] \notin StripKeys
  BY DEF FoundFares, Status, ApprovedBy, Fare, FarePrice, StripKeys
<1>3. DOMAIN RedactPayload(payload) \subseteq DOMAIN payload
  BY DEF RedactPayload, Kept
<1> HIDE DEF Read
<1>4. \A path \in Read : path \in DOMAIN payload =>
        path \in DOMAIN RedactPayload(payload) /\ RedactPayload(payload)[path] = payload[path]
  BY <1>1, <1>2 DEF RedactPayload, Kept
<1>5. {FoundFares, Status, ApprovedBy, Fare, FarePrice} \subseteq Read
  BY DEF Read
<1> HIDE DEF payload
<1> QED
  BY <1>3, <1>4, <1>5 DEF Tells, payload

LEMMA RecordKeepsTable ==
  ASSUME LogType, TableInv, NEW p \in Processes, NEW t \in Trips, NEW event \in Events, NEW payload,
         Tells([event |-> event, payload |-> payload]), p = "gateway" \/ event = Blocked,
         RecordEvent(p, t, event, payload)
  PROVE  TableInv'
<1>1. CASE Insert(p, t, event, payload)
  <2>1. PICK time \in Times :
          open' = [open EXCEPT ![p] = [id |-> lastId', trip |-> t, event |-> event,
                                       payload |-> RedactPayload(payload), time |-> time]]
    BY <1>1 DEF Insert
  <2>2. /\ UNCHANGED <<database, rows, lost>> /\ lastId' = lastId + 1 /\ open[p] = NoRow
        /\ database = "sqlite" => \A q \in Processes : open[q] = NoRow
    BY <1>1 DEF Insert, RecordEvent
  <2>3. lastId \in Nat
    BY LogAssumption DEF LogType
  <2> DEFINE row == [id |-> lastId', trip |-> t, event |-> event,
                     payload |-> RedactPayload(payload), time |-> time]
             plain == [event |-> event, payload |-> payload]
  <2>4. row.id = lastId' /\ row.event = event /\ Tells(row)
    <3>1. row.event = plain.event /\ row.payload = RedactPayload(plain.payload)
      OBVIOUS
    <3>2. Tells(plain)
      OBVIOUS
    <3>3. row.id = lastId' /\ plain.event = event
      OBVIOUS
    <3> HIDE DEF row, plain
    <3> QED
      BY <3>1, <3>2, <3>3, RedactionTells
  <2>5. \A q \in Processes : open'[q] = IF q = p THEN row ELSE open[q]
    BY <2>1 DEF LogType
  <2>6. {"gateway", "booking"} = Processes
    BY ServerAssumption
  <2> HIDE DEF row
  <2>7. IdsInv'
    <3>1. ASSUME NEW q \in Processes, open[q] # NoRow PROVE open[q].id \in 1..lastId
      BY <3>1 DEF TableInv, IdsInv
    <3>2. DOMAIN rows \subseteq 1..lastId
      BY DEF TableInv, IdsInv
    <3>3. DOMAIN rows' \subseteq 1..lastId'
      BY <2>2, <2>3, <3>2
    <3>4. ASSUME NEW q \in Processes, open'[q] # NoRow
          PROVE  /\ open'[q].id \in 1..lastId' /\ open'[q].id \notin DOMAIN rows'
                 /\ database' = "sqlite" => open'[q].id = lastId'
                 /\ \A r \in Processes \ {q} : open'[r] # NoRow => database' # "sqlite" /\ open'[r].id # open'[q].id
      <4>1. CASE q = p
        BY <2>2, <2>3, <2>4, <2>5, <3>1, <3>2, <4>1
      <4>2. CASE q # p
        <5>1. open'[q] = open[q] /\ database # "sqlite"
          BY <2>2, <2>5, <3>4, <4>2
        <5>2. open[q].id \in 1..lastId /\ open[q].id \notin DOMAIN rows
          BY <3>4, <5>1 DEF TableInv, IdsInv
        <5>3. \A r \in Processes \ {q} : r = p
          BY <2>6, <4>2
        <5> QED
          BY <2>2, <2>3, <2>4, <2>5, <5>1, <5>2, <5>3
      <4> QED
        BY <4>1, <4>2
    <3> QED
      BY <3>3, <3>4 DEF IdsInv
  <2>8. TellsInv'
    BY <2>2, <2>4, <2>5 DEF TableInv, TellsInv, Tells
  <2>9. OrderInv'
    <3>1. \A id \in DOMAIN rows : id \in Nat /\ id < lastId'
      BY <2>2, <2>3 DEF TableInv, IdsInv
    <3> QED
      BY <2>2, <2>3, <2>4, <2>5, <2>6, <3>1 DEF TableInv, OrderInv, Blocked
  <2> QED
    BY <2>7, <2>8, <2>9 DEF TableInv
<1>2. CASE NotInserted(t)
  BY <1>2 DEF NotInserted, TableInv, IdsInv, TellsInv, OrderInv, Tells, Blocked
<1> QED
  BY <1>1, <1>2 DEF RecordEvent

\* A commit puts the row into the table.
LEMMA CommitWith ==
  ASSUME NEW p, Commit(p)
  PROVE  rows' = With(rows, open[p].id, open[p]) /\ UNCHANGED <<database, lastId, lost>>
BY DEF Commit, With

LEMMA CommitKeepsTable ==
  ASSUME LogType, TableInv, NEW p \in Processes, Commit(p)
  PROVE  TableInv'
<1>1. open[p] # NoRow /\ \A q \in Processes : open'[q] = IF q = p THEN NoRow ELSE open[q]
  BY DEF Commit, LogType
<1>2. /\ DOMAIN rows' = DOMAIN rows \cup {open[p].id}
      /\ \A id \in DOMAIN rows' : rows'[id] = IF id = open[p].id THEN open[p] ELSE rows[id]
      /\ UNCHANGED <<database, lastId, lost>>
  BY DEF Commit
<1>3. {"gateway", "booking"} = Processes
  BY ServerAssumption
<1>4. IdsInv'
  BY <1>1, <1>2 DEF TableInv, IdsInv
<1>5. TellsInv'
  <2>1. \A id \in DOMAIN rows' : Tells(rows'[id])
    BY <1>1, <1>2 DEF TableInv, TellsInv
  <2>2. \A q \in Processes : open'[q] # NoRow => Tells(open'[q])
    BY <1>1 DEF TableInv, TellsInv
  <2> QED
    BY <2>1, <2>2 DEF TellsInv, Tells
<1>6. OrderInv'
  BY <1>1, <1>2, <1>3 DEF TableInv, OrderInv, Blocked
<1> QED
  BY <1>4, <1>5, <1>6 DEF TableInv

LEMMA LoseKeepsTable ==
  ASSUME LogType, TableInv, NEW p \in Processes, Lose(p)
  PROVE  TableInv'
<1>1. \A q \in Processes : open'[q] = IF q = p THEN NoRow ELSE open[q]
  BY DEF Lose, LogType
<1>2. UNCHANGED <<database, rows, lastId>>
  BY DEF Lose
<1>3. {"gateway", "booking"} = Processes
  BY ServerAssumption
<1>4. IdsInv' /\ OrderInv'
  BY <1>1, <1>2, <1>3 DEF TableInv, IdsInv, OrderInv, Blocked
<1>5. TellsInv'
  BY <1>1, <1>2 DEF TableInv, TellsInv, Tells
<1> QED
  BY <1>4, <1>5 DEF TableInv

-------------------------------------------------------------------------------
(* The payloads of the events. *)

LEMMA EventsArePlain ==
  ASSUME TripType, NEW t \in Trips
  PROVE  /\ Plain([path \in {RequestsEmployee} |-> employee[t]])
         /\ \A found \in Fares \cup {Null} :
              Plain([path \in {RequestsEmployee} \cup (IF found = Null THEN {} ELSE {FoundFares}) |->
                       IF path = FoundFares THEN found ELSE employee[t]])
         /\ \A fare \in Fares : Plain([path \in {FarePrice} |-> PriceOf[fare]])
         /\ Plain([path \in {<<"trace_id">>} |-> Null])
<1>1. employee[t] \in EmployeeIds
  BY DEF TripType
<1>2. Null \in Values /\ Fares \subseteq Values /\ \A fare \in Fares : PriceOf[fare] \in Values
  BY LogAssumption, ServerAssumption
<1>3. RequestsEmployee # FoundFares
  BY DEF RequestsEmployee, FoundFares
<1>4. {RequestsEmployee, FoundFares, FarePrice, <<"trace_id">>} \subseteq Paths
  BY DEF Paths
<1>5. Plain([path \in {RequestsEmployee} |-> employee[t]])
  BY <1>1, <1>4 DEF Plain, IsPayload
<1>6. ASSUME NEW found \in Fares \cup {Null}
      PROVE  Plain([path \in {RequestsEmployee} \cup (IF found = Null THEN {} ELSE {FoundFares}) |->
                      IF path = FoundFares THEN found ELSE employee[t]])
  BY <1>1, <1>2, <1>3, <1>4, <1>6 DEF Plain, IsPayload
<1>7. ASSUME NEW fare \in Fares PROVE Plain([path \in {FarePrice} |-> PriceOf[fare]])
  BY <1>2, <1>4, <1>7 DEF Plain, IsPayload
<1>8. Plain([path \in {<<"trace_id">>} |-> Null])
  BY <1>2, <1>4 DEF Plain, IsPayload
<1>9. QED BY <1>5, <1>6, <1>7, <1>8

LEMMA RecordsArePlain ==
  ASSUME NEW record \in Records
  PROVE  Plain([path \in {Status, ApprovedBy, Fare} |->
                  CASE path = Status -> record.status
                    [] path = ApprovedBy -> record.approved_by
                    [] path = Fare -> record.fare])
<1> DEFINE payload == [path \in {Status, ApprovedBy, Fare} |->
                         CASE path = Status -> record.status
                           [] path = ApprovedBy -> record.approved_by
                           [] path = Fare -> record.fare]
<1>1. Status # ApprovedBy /\ Status # Fare /\ ApprovedBy # Fare
  BY DEF Status, ApprovedBy, Fare
<1>2. payload[Status] = record.status /\ payload[ApprovedBy] = record.approved_by
      /\ payload[Fare] = record.fare
  BY <1>1
<1>3. record.status \in Values /\ record.fare \in Values /\ record.approved_by \in Values \cup EmployeeIds
  BY LogAssumption, ServerAssumption DEF Records
<1>4. DOMAIN payload = {Status, ApprovedBy, Fare} /\ {Status, ApprovedBy, Fare} \subseteq Paths
  BY DEF Paths
<1> HIDE DEF payload
<1>5. Plain(payload)
  BY <1>2, <1>3, <1>4 DEF Plain, IsPayload
<1>6. QED BY <1>5 DEF payload

\* And they have what is aggregated of them.
LEMMA EventsTell ==
  ASSUME NEW id
  PROVE  /\ \A payload : /\ Tells([event |-> "request_received", payload |-> payload])
                         /\ Tells([event |-> Blocked, payload |-> payload])
         /\ \A found \in Fares \cup {Null} :
              Tells([event |-> "flight_node_complete", payload |->
                       [path \in {RequestsEmployee} \cup (IF found = Null THEN {} ELSE {FoundFares}) |->
                          IF path = FoundFares THEN found ELSE id]])
         /\ \A fare \in Fares :
              Tells([event |-> "business_cost_recorded", payload |-> [path \in {FarePrice} |-> PriceOf[fare]]])
<1>1. ASSUME NEW payload
      PROVE  /\ Tells([event |-> "request_received", payload |-> payload])
             /\ Tells([event |-> Blocked, payload |-> payload])
  BY DEF Tells, Blocked, ApprovalEvents
<1>2. ASSUME NEW found \in Fares \cup {Null}
      PROVE  Tells([event |-> "flight_node_complete", payload |->
                      [path \in {RequestsEmployee} \cup (IF found = Null THEN {} ELSE {FoundFares}) |->
                         IF path = FoundFares THEN found ELSE id]])
  <2>1. RequestsEmployee # FoundFares
    BY DEF RequestsEmployee, FoundFares
  <2> QED
    BY <1>2, <2>1 DEF Tells, ApprovalEvents
<1>3. ASSUME NEW fare \in Fares
      PROVE  Tells([event |-> "business_cost_recorded", payload |-> [path \in {FarePrice} |-> PriceOf[fare]]])
  BY <1>3 DEF Tells, ApprovalEvents
<1> QED
  BY <1>1, <1>2, <1>3

LEMMA RecordsTell ==
  ASSUME NEW event \in ApprovalEvents, NEW record \in Records
  PROVE  Tells([event |-> event, payload |->
                  [path \in {Status, ApprovedBy, Fare} |->
                     CASE path = Status -> record.status
                       [] path = ApprovedBy -> record.approved_by
                       [] path = Fare -> record.fare]])
<1> DEFINE payload == [path \in {Status, ApprovedBy, Fare} |->
                         CASE path = Status -> record.status
                           [] path = ApprovedBy -> record.approved_by
                           [] path = Fare -> record.fare]
<1>1. Status # ApprovedBy /\ Status # Fare /\ ApprovedBy # Fare
  BY DEF Status, ApprovedBy, Fare
<1>2. payload[Status] = record.status /\ payload[ApprovedBy] = record.approved_by
      /\ payload[Fare] = record.fare
  BY <1>1
<1>3. record.status \in Statuses /\ record.fare \in Fares /\ record.approved_by \in Values \cup EmployeeIds
  BY LogAssumption DEF Records
<1>4. DOMAIN payload = {Status, ApprovedBy, Fare}
  OBVIOUS
<1>5. event # "flight_node_complete" /\ event # "business_cost_recorded"
  BY DEF ApprovalEvents
<1> HIDE DEF payload
<1>6. Tells([event |-> event, payload |-> payload])
  BY <1>2, <1>3, <1>4, <1>5 DEF Tells
<1> QED
  BY <1>6 DEF payload

-------------------------------------------------------------------------------
(* The steps of the processes. *)

LogInv == LogType /\ LogClean /\ TableInv

IInv == LogInv /\ TripType /\ DecidedInv

\* An event is written, or lost.
LEMMA RecordKeepsLog ==
  ASSUME LogInv, NEW p \in Processes, NEW t \in Trips, NEW event \in Events, NEW payload,
         Plain(payload), Tells([event |-> event, payload |-> payload]), p = "gateway" \/ event = Blocked,
         RecordEvent(p, t, event, payload)
  PROVE  LogInv'
BY RecordKeeps, RecordKeepsTable DEF LogInv

LEMMA SessionKeepsLog ==
  ASSUME LogInv, NEW p \in Processes, Commit(p) \/ Lose(p)
  PROVE  LogInv'
BY CommitKeeps, CommitKeepsTable, LoseKeeps, LoseKeepsTable DEF LogInv

LEMMA StutterKeepsLog ==
  ASSUME LogInv, UNCHANGED logVars
  PROVE  LogInv'
<1>1. LogType' /\ LogClean'
  BY DEF LogInv, logVars, LogType, LogClean, IsRow, Clean
<1>2. TableInv'
  BY DEF LogInv, logVars, TableInv, IdsInv, TellsInv, OrderInv, Tells, Blocked
<1> QED
  BY <1>1, <1>2 DEF LogInv

LEMMA WriteKeeps ==
  ASSUME LogInv, TripType, NEW t \in Trips, NEW event \in ApprovalEvents,
         NEW record \in Records, Write(t, event, record)
  PROVE  /\ LogInv'
         /\ records' \in [Processes -> [Trips -> Records \cup {NoRecord}]]
         /\ \A u \in Trips : records["gateway"][u] # NoRecord => records'["gateway"][u] # NoRecord
         /\ records'["gateway"][t] # NoRecord
         /\ UNCHANGED employee
<1>1. "gateway" \in Processes
  BY ServerAssumption
<1>2. LogInv'
  BY <1>1, RecordsArePlain, RecordsTell, RecordKeepsLog DEF Write, Events
<1>3. records' = [records EXCEPT !["gateway"][t] = record] /\ UNCHANGED employee
  BY DEF Write
<1>4. record # NoRecord
  BY DEF Records, NoRecord, Statuses
<1>5. QED BY <1>1, <1>2, <1>3, <1>4 DEF TripType

THEOREM Inductive == IInv /\ [Next]_vars => IInv'
<1> SUFFICES ASSUME IInv, [Next]_vars PROVE IInv'
  OBVIOUS
<1> USE DEF IInv
<1>0. {"gateway", "booking"} = Processes /\ ApprovalEvents \subseteq Events
      /\ {"request_received", "flight_node_complete", "business_cost_recorded",
          "booking_blocked_no_approval"} \subseteq Events
  BY ServerAssumption DEF Events
<1>1. ASSUME NEW t \in Trips, RequestReceived(t) PROVE IInv'
  <2>1. LogInv'
    BY <1>0, <1>1, EventsArePlain, EventsTell, RecordKeepsLog DEF RequestReceived
  <2>2. TripType' /\ DecidedInv'
    BY <1>1 DEF RequestReceived, GoOn, TripType, DecidedInv
  <2>3. QED BY <2>1, <2>2
<1>2. ASSUME NEW t \in Trips, NEW found \in Fares \cup {Null}, FlightNodeComplete(t, found) PROVE IInv'
  <2>1. LogInv'
    <3> DEFINE payload == [path \in {RequestsEmployee} \cup (IF found = Null THEN {} ELSE {FoundFares}) |->
                             IF path = FoundFares THEN found ELSE employee[t]]
    <3>1. Plain(payload)
      BY EventsArePlain
    <3>2. Tells([event |-> "flight_node_complete", payload |-> payload])
      BY EventsTell
    <3>3. RecordEvent("gateway", t, "flight_node_complete", payload)
      BY <1>2 DEF FlightNodeComplete
    <3> HIDE DEF payload
    <3> QED
      BY <1>0, <3>1, <3>2, <3>3, RecordKeepsLog
  <2>2. TripType' /\ DecidedInv'
    BY <1>2 DEF FlightNodeComplete, GoOn, TripType, DecidedInv
  <2>3. QED BY <2>1, <2>2
<1>3. ASSUME NEW t \in Trips, NEW fare \in Fares, Decide(t, fare) PROVE IInv'
  <2>1. PICK event \in ApprovalEvents, record \in Records : Write(t, event, record)
    <3>1. \A status \in {"auto_approved", "pending"} :
            [NoRecord EXCEPT !.status = status, !.fare = fare] \in Records
      BY DEF NoRecord, Records, Statuses
    <3>2. QED BY <1>0, <1>3, <3>1 DEF Decide, ApprovalEvents
  <2>2. GoOn(t, {"running"}, "decided")
    BY <1>3 DEF Decide
  <2>3. QED BY <2>1, <2>2, WriteKeeps DEF GoOn, TripType, DecidedInv
<1>4. ASSUME NEW t \in Trips, NEW by \in EmployeeIds, Grant(t, by) \/ Reject(t, by) PROVE IInv'
  <2>1. PICK event \in ApprovalEvents, record \in Records : Write(t, event, record)
    <3>1. records["gateway"][t] \in Records
      BY <1>0, <1>4 DEF Grant, Reject, TripType
    <3>2. \A status \in {"approved", "rejected"} :
            [records["gateway"][t] EXCEPT !.status = status, !.approved_by = by] \in Records
      BY <3>1 DEF Records, Statuses
    <3>3. QED BY <1>0, <1>4, <3>2 DEF Grant, Reject, ApprovalEvents
  <2>2. UNCHANGED stage
    BY <1>4 DEF Grant, Reject
  <2>3. QED BY <2>1, <2>2, WriteKeeps DEF TripType, DecidedInv
<1>5. ASSUME NEW t \in Trips, BusinessCost(t) PROVE IInv'
  <2>1. records["gateway"][t].fare \in Fares
    BY <1>0, <1>5 DEF BusinessCost, GoOn, DecidedInv, TripType, Records
  <2>2. LogInv'
    BY <1>0, <1>5, <2>1, EventsArePlain, EventsTell, RecordKeepsLog DEF BusinessCost
  <2>3. TripType' /\ DecidedInv'
    BY <1>5 DEF BusinessCost, GoOn, TripType, DecidedInv
  <2>4. QED BY <2>2, <2>3
<1>6. ASSUME NEW t \in Trips, NEW p \in Processes, BookingBlocked(p, t) PROVE IInv'
  <2>1. LogInv'
    BY <1>0, <1>6, EventsArePlain, EventsTell, RecordKeepsLog DEF BookingBlocked, Blocked
  <2>2. TripType' /\ DecidedInv'
    BY <1>6 DEF BookingBlocked, TripType, DecidedInv
  <2>3. QED BY <2>1, <2>2
<1>7. ASSUME NEW p \in Processes, Session(p) PROVE IInv'
  <2>1. LogInv'
    BY <1>7, SessionKeepsLog DEF Session
  <2>2. TripType' /\ DecidedInv'
    BY <1>7 DEF Session, TripType, DecidedInv
  <2>3. QED BY <2>1, <2>2
<1>8. ASSUME NEW p \in Processes, Restart(p) PROVE IInv'
  <2>1. LogInv'
    <3>1. CASE open[p] # NoRow
      BY <1>8, <3>1, SessionKeepsLog DEF Restart
    <3>2. CASE open[p] = NoRow
      BY <1>8, <3>2, StutterKeepsLog DEF Restart
    <3>3. QED BY <3>1, <3>2
  <2>2. TripType'
    BY <1>8 DEF Restart, TripType, NoRecords
  <2>3. DecidedInv'
    <3>1. CASE p = "gateway"
      BY <1>8, <3>1 DEF Restart, DecidedInv, TripType
    <3>2. CASE p # "gateway"
      BY <1>0, <1>8, <3>2 DEF Restart, DecidedInv, TripType
    <3>3. QED BY <3>1, <3>2
  <2>4. QED BY <2>1, <2>2, <2>3
<1>9. CASE UNCHANGED vars
  <2>1. UNCHANGED logVars /\ UNCHANGED <<stage, records, employee>>
    BY <1>9 DEF vars
  <2>2. LogInv'
    BY <2>1, StutterKeepsLog
  <2>3. TripType' /\ DecidedInv'
    BY <2>1 DEF TripType, DecidedInv
  <2>4. QED BY <2>2, <2>3
<1>10. QED
  BY <1>1, <1>2, <1>3, <1>4, <1>5, <1>6, <1>7, <1>8, <1>9 DEF Next

\* The inductive invariant: types, clean rows, and a record for a decided trip.
THEOREM Invariance == Spec => []IInv
<1>1. Init => IInv
  <2> SUFFICES ASSUME Init PROVE IInv
    OBVIOUS
  <2>1. LogType /\ LogClean /\ TripType /\ DecidedInv
    BY LogAssumption DEF Init, LogInit, LogType, LogClean, TripType, DecidedInv, NoRecords
  <2>2. {"gateway", "booking"} = Processes
    BY ServerAssumption
  <2>3. TableInv
    BY <2>2 DEF Init, LogInit, TableInv, IdsInv, TellsInv, OrderInv
  <2> QED
    BY <2>1, <2>3 DEF IInv, LogInv
<1>2. QED BY <1>1, Inductive, PTL DEF Spec

\* Every variable of the two processes and of the table has its type.
THEOREM TypeCorrect == Spec => []TypeOK
<1>1. IInv => TypeOK
  BY DEF IInv, LogInv, LogType, TripType, TypeOK
<1>2. QED BY <1>1, Invariance, PTL

\* No raw employee id gets into the audit store but as the approver's.
THEOREM RedactionHolds == Spec => []RawIdOnlyAsApprover
<1>1. IInv => RawIdOnlyAsApprover
  BY CleanLogIsClean DEF IInv, LogInv
<1>2. QED BY <1>1, Invariance, PTL

-------------------------------------------------------------------------------
(* What a reader sees of a step. *)

LEMMA SeqWith ==
  ASSUME NEW S, NEW s \in Seq(S), NEW x
  PROVE  s \in Seq(S \cup {x})
<1>1. Len(s) \in Nat /\ s \in [1..Len(s) -> S]
  BY LenProperties
<1>2. s \in [1..Len(s) -> S \cup {x}]
  BY <1>1
<1> QED
  BY <1>1, <1>2, SeqDef

LEMMA PrefixOfAppend ==
  ASSUME NEW S, NEW s \in Seq(S)
  PROVE  /\ IsPrefix(s, s)
         /\ \A x : IsPrefix(s, Append(s, x))
<1>1. Len(s) \in Nat
  BY LenProperties
<1>2. IsPrefix(s, s)
  BY <1>1 DEF IsPrefix
<1>3. ASSUME NEW x PROVE IsPrefix(s, Append(s, x))
  <2> DEFINE longer == Append(s, x)
  <2>1. /\ longer \in Seq(S \cup {x}) /\ Len(longer) = Len(s) + 1
        /\ \A i \in 1..Len(s) : longer[i] = s[i]
    <3>1. s \in Seq(S \cup {x}) /\ x \in S \cup {x}
      BY SeqWith
    <3> QED
      BY <3>1, AppendProperties
  <2> HIDE DEF longer
  <2>2. /\ SubSeq(longer, 1, Len(s)) = [i \in 1..Len(s) |-> longer[i]]
        /\ SubSeq(s, 1, Len(s)) = [i \in 1..Len(s) |-> s[i]]
    BY <1>1, <2>1
  <2>3. IsPrefix(s, longer)
    BY <1>1, <2>1, <2>2 DEF IsPrefix
  <2> QED
    BY <2>3 DEF longer
<1> QED
  BY <1>2, <1>3

\* The calls of a trip, and the gateway's of them, are calls of rows.
LEMMA ReadingIsTyped ==
  ASSUME NEW n \in Nat, NEW table, NEW t
  PROVE  LET S == {table[id] : id \in DOMAIN table}
             C == {CallOf(row) : row \in S}
         IN  /\ EventsOf(table, n, t) \in Seq(S)
             /\ CallsOf(EventsOf(table, n, t)) \in Seq(C)
             /\ OwnCalls(EventsOf(table, n, t)) \in Seq(C)
<1> DEFINE S == {table[id] : id \in DOMAIN table}
           C == {CallOf(row) : row \in S}
           events == EventsOf(table, n, t)
<1>1. events \in Seq(S)
  <2>1. PICK f : Listing(f, table, n, t) /\ EventsOf(table, n, t) = f[n]
    BY EventsAreListed
  <2> QED
    BY <2>1 DEF Listing
<1> HIDE DEF S, events
<1>2. CallsOf(events) \in Seq(C)
  <2>1. Len(events) \in Nat /\ events \in [1..Len(events) -> S]
    BY <1>1, LenProperties
  <2>2. CallsOf(events) \in [1..Len(events) -> C]
    BY <2>1 DEF CallsOf
  <2> HIDE DEF C
  <2> QED
    BY <2>1, <2>2, SeqDef
<1>3. OwnCalls(events) \in Seq(C)
  <2> HIDE DEF C
  <2>1. PICK f : Own(f, CallsOf(events), C) /\ Gateways(CallsOf(events)) = f[Len(CallsOf(events))]
    BY <1>2, GatewaysAreOwn
  <2>2. Len(CallsOf(events)) \in 0..Len(CallsOf(events))
    BY <1>2, LenProperties
  <2> QED
    BY <2>1, <2>2 DEF Own, OwnCalls
<1> QED
  BY <1>1, <1>2, <1>3 DEF S, C, events

\* The table changes with a commit only; an id may be given out, or an event be
\* lost, without.
Quiet ==
  /\ UNCHANGED <<database, rows>>
  /\ lastId' \in {lastId, lastId + 1}
  /\ UNCHANGED lost \/ \E t \in Trips : lost' = lost \cup {t}

LEMMA LogSteps ==
  ASSUME LogType, [Next]_vars
  PROVE  Quiet \/ \E p \in Processes : Commit(p)
<1>1. {"gateway", "booking"} = Processes
  BY ServerAssumption
<1>2. ASSUME NEW p \in Processes, NEW t \in Trips, NEW event, NEW payload, RecordEvent(p, t, event, payload)
      PROVE  Quiet
  BY <1>2 DEF RecordEvent, Insert, NotInserted, Quiet
<1>3. ASSUME NEW p \in Processes, Lose(p) PROVE Quiet
  BY <1>3 DEF Lose, Quiet, LogType, IsRow
<1>4. ASSUME NEW t \in Trips, RequestReceived(t) \/ BusinessCost(t) PROVE Quiet
  BY <1>1, <1>2, <1>4 DEF RequestReceived, BusinessCost
<1>5. ASSUME NEW t \in Trips, NEW found \in Fares \cup {Null}, FlightNodeComplete(t, found) PROVE Quiet
  BY <1>1, <1>2, <1>5 DEF FlightNodeComplete
<1>6. ASSUME NEW t \in Trips, NEW event, NEW record, Write(t, event, record) PROVE Quiet
  BY <1>1, <1>2, <1>6 DEF Write
<1>7. ASSUME NEW t \in Trips, NEW fare, Decide(t, fare) PROVE Quiet
  BY <1>6, <1>7 DEF Decide
<1>8. ASSUME NEW t \in Trips, NEW by, Grant(t, by) \/ Reject(t, by) PROVE Quiet
  BY <1>6, <1>8 DEF Grant, Reject
<1>9. ASSUME NEW t \in Trips, NEW p \in Processes, BookingBlocked(p, t) PROVE Quiet
  BY <1>2, <1>9 DEF BookingBlocked
<1>10. ASSUME NEW p \in Processes, Restart(p) PROVE Quiet
  <2>1. CASE open[p] # NoRow
    BY <1>3, <1>10, <2>1 DEF Restart
  <2>2. CASE open[p] = NoRow
    BY <1>10, <2>2 DEF Restart, logVars, Quiet
  <2> QED
    BY <2>1, <2>2
<1>11. CASE UNCHANGED vars
  BY <1>11 DEF vars, logVars, Quiet
<1> QED
  BY <1>3, <1>4, <1>5, <1>7, <1>8, <1>9, <1>10, <1>11 DEF Next, Session

\* What is read stays as it was but for the trip of a row that is committed.
LEMMA QuietReads ==
  ASSUME LogInv, Quiet, NEW t \in Trips
  PROVE  EventsOf(rows', lastId', t) = EventsOf(rows, lastId, t)
<1>1. lastId \in Nat /\ lastId + 1 \notin DOMAIN rows
  BY LogAssumption DEF LogInv, LogType, TableInv, IdsInv
<1> QED
  BY <1>1, NoRowAdded DEF Quiet

\* And that trip's reader sees one call more, of whose event the gateway's is
\* the last of the gateway's and of the record.
LEMMA CommitReads ==
  ASSUME LogInv, NEW p \in Processes, Commit(p), NEW t \in Trips
  PROVE  LET row    == open[p]
             before == EventsOf(rows, lastId, t)
             after  == EventsOf(rows', lastId', t)
         IN  /\ row.trip # t => after = before
             /\ row.trip = t =>
                  /\ database = "sqlite" => after = Append(before, row)
                  /\ row.event = Blocked =>
                       OwnCalls(after) = OwnCalls(before) /\ AccountOf(after) = AccountOf(before)
                  /\ row.event # Blocked =>
                       /\ OwnCalls(after) = Append(OwnCalls(before), CallOf(row))
                       /\ AccountOf(after) = Aggregate(AccountOf(before), row)
<1> DEFINE row == open[p]
           k == row.id
           before == EventsOf(rows, lastId, t)
           after == EventsOf(rows', lastId', t)
<1>1. rows' = With(rows, k, row) /\ UNCHANGED <<database, lastId, lost>> /\ row # NoRow
  BY CommitWith DEF Commit
<1>2. /\ lastId \in Nat /\ k \in 1..lastId /\ k \notin DOMAIN rows /\ DOMAIN rows \subseteq 1..lastId
      /\ database = "sqlite" => k = lastId
  BY <1>1, LogAssumption DEF LogInv, LogType, TableInv, IdsInv
<1>3. Tells(row) /\ \A id \in DOMAIN rows : Tells(rows[id])
  BY <1>1 DEF LogInv, TableInv, TellsInv
<1>4. row.event # Blocked => \A id \in DOMAIN rows : id > k => rows[id].event = Blocked
  <2>1. p = "gateway" \/ p = "booking"
    BY ServerAssumption
  <2> QED
    BY <1>1, <2>1 DEF LogInv, TableInv, OrderInv
<1>5. after = EventsOf(With(rows, k, row), lastId, t)
  BY <1>1
<1>6. ASSUME row.trip # t PROVE after = before
  BY <1>2, <1>5, <1>6, OtherTripsRow
<1>7. ASSUME row.trip = t, database = "sqlite" PROVE after = Append(before, row)
  <2>1. DOMAIN rows \subseteq Nat
    BY <1>2
  <2>2. AllBelow(rows, k)
    BY <1>2, <1>7, <2>1 DEF AllBelow
  <2>3. lastId \in Nat /\ k \in 1..lastId
    BY <1>2
  <2> HIDE DEF row, k
  <2>4. EventsOf(With(rows, k, row), lastId, t) = Append(EventsOf(rows, lastId, t), row)
    BY <1>7, <2>2, <2>3, LastRow
  <2> QED
    BY <1>5, <2>4
<1> HIDE DEF row, k
<1>8. ASSUME row.event = Blocked
      PROVE  OwnCalls(after) = OwnCalls(before) /\ AccountOf(after) = AccountOf(before)
  BY <1>2, <1>3, <1>5, <1>8, BlockedRow
<1>9. ASSUME row.trip = t, row.event # Blocked
      PROVE  /\ OwnCalls(after) = Append(OwnCalls(before), CallOf(row))
             /\ AccountOf(after) = Aggregate(AccountOf(before), row)
  BY <1>2, <1>3, <1>4, <1>5, <1>9, GatewaysRow
<1> QED
  BY <1>6, <1>7, <1>8, <1>9 DEF row

\* Rows are never updated or deleted, and whoever reads a trail again finds it
\* to begin with what it was, in the order the gateway's events happened in.
THEOREM TrailOnlyGrows == Spec => CallSequenceOnlyGrows
<1> DEFINE Grows(t) ==
      /\ IsPrefix(Gateways(CallSequence(t)), Gateways(CallSequence(t)'))
      /\ database = "sqlite" => IsPrefix(CallSequence(t), CallSequence(t)')
<1>1. IInv /\ [Next]_vars => \A t \in Trips : Grows(t)
  <2> SUFFICES ASSUME IInv, [Next]_vars, NEW t \in Trips PROVE Grows(t)
    OBVIOUS
  <2> DEFINE before == EventsOf(rows, lastId, t)
             after == EventsOf(rows', lastId', t)
             S == {rows[id] : id \in DOMAIN rows}
             C == {CallOf(row) : row \in S}
  <2>1. CallSequence(t) = CallsOf(before) /\ CallSequence(t)' = CallsOf(after)
    BY DEF CallSequence, CallsOf, CallOf, GetEvents, EventsOf, IsReading
  <2>2. LogInv /\ lastId \in Nat
    BY LogAssumption DEF IInv, LogInv, LogType
  <2>3. before \in Seq(S) /\ CallsOf(before) \in Seq(C) /\ OwnCalls(before) \in Seq(C)
    BY <2>2, ReadingIsTyped
  <2> HIDE DEF before, after, S, C
  <2>4. /\ IsPrefix(CallsOf(before), CallsOf(before)) /\ IsPrefix(OwnCalls(before), OwnCalls(before))
        /\ \A call : /\ IsPrefix(CallsOf(before), Append(CallsOf(before), call))
                     /\ IsPrefix(OwnCalls(before), Append(OwnCalls(before), call))
    BY <2>3, PrefixOfAppend
  <2>5. SUFFICES /\ IsPrefix(OwnCalls(before), OwnCalls(after))
                 /\ database = "sqlite" => IsPrefix(CallsOf(before), CallsOf(after))
    BY <2>1 DEF OwnCalls
  <2>6. CASE after = before
    BY <2>4, <2>6
  <2>7. CASE after # before
    <3>1. PICK p \in Processes : Commit(p)
      BY <2>2, <2>7, LogSteps, QuietReads DEF LogInv, before, after
    <3> DEFINE row == open[p]
    <3>2. /\ database = "sqlite" => after = Append(before, row)
          /\ OwnCalls(after) \in {OwnCalls(before), Append(OwnCalls(before), CallOf(row))}
      BY <2>2, <2>7, <3>1, CommitReads DEF before, after
    <3>3. CallsOf(Append(before, row)) = Append(CallsOf(before), CallOf(row))
      <4>1. before \in Seq(S \cup {row}) /\ row \in S \cup {row}
        BY <2>3, SeqWith
      <4> QED
        BY <4>1, CallsOfAppend
    <3> HIDE DEF row
    <3> QED
      BY <2>4, <3>2, <3>3
  <2> QED
    BY <2>6, <2>7
<1> QED
  BY <1>1, Invariance, PTL DEF Spec, CallSequenceOnlyGrows

-------------------------------------------------------------------------------
(* The trail of AuditTrail. *)

\* What of the record AuditTrail has.
View(trail) ==
  [candidate |-> trail.candidate_fares, outcome |-> trail.approval_outcome.status,
   final_fare |-> trail.final_fare, business |-> trail.business_cost_usd]

\* What one event may do to it.
ViewStep(view, next) ==
  \/ next = view
  \/ \E fare \in Fares : next = [view EXCEPT !.candidate = fare]
  \/ \E fare \in Fares, status \in Statuses : next = [view EXCEPT !.outcome = status, !.final_fare = fare]
  \/ \E fare \in Fares : next = [view EXCEPT !.business = PriceOf[fare]]

LEMMA AggregateSteps ==
  ASSUME NEW trail \in TrailRecords, NEW row, Tells(row)
  PROVE  ViewStep(View(trail), View(Aggregate(trail, row)))
<1>1. CASE row.event = "flight_node_complete"
  <2>1. row.event \notin ApprovalEvents /\ row.event # "business_cost_recorded"
    BY <1>1 DEF ApprovalEvents
  <2>2. Aggregate(trail, row) =
          [trail EXCEPT !.candidate_fares =
             IF FoundFares \in DOMAIN row.payload THEN row.payload[FoundFares] ELSE trail.candidate_fares]
    BY <1>1, <2>1 DEF Aggregate
  <2>3. CASE FoundFares \in DOMAIN row.payload
    <3>1. PICK fare \in Fares : fare = row.payload[FoundFares]
      BY <1>1, <2>3 DEF Tells
    <3>2. Aggregate(trail, row) = [trail EXCEPT !.candidate_fares = fare]
      BY <2>2, <2>3, <3>1
    <3>3. View(Aggregate(trail, row)) = [View(trail) EXCEPT !.candidate = fare]
      BY <3>2 DEF View, TrailRecords
    <3> QED
      BY <3>3 DEF ViewStep
  <2>4. CASE FoundFares \notin DOMAIN row.payload
    <3>1. Aggregate(trail, row) = trail
      BY <2>2, <2>4 DEF TrailRecords
    <3> QED
      BY <3>1 DEF ViewStep
  <2> QED
    BY <2>3, <2>4
<1>2. CASE row.event \in ApprovalEvents
  <2>1. row.event # "flight_node_complete" /\ row.event # "business_cost_recorded"
    BY <1>2 DEF ApprovalEvents
  <2>2. Aggregate(trail, row) =
          [trail EXCEPT !.approval_outcome = [status |-> row.payload[Status],
                                              approved_by |-> row.payload[ApprovedBy]],
                        !.final_fare = row.payload[Fare]]
    BY <1>2, <2>1 DEF Aggregate
  <2>3. PICK fare \in Fares, status \in Statuses : fare = row.payload[Fare] /\ status = row.payload[Status]
    BY <1>2 DEF Tells
  <2>4. View(Aggregate(trail, row)) = [View(trail) EXCEPT !.outcome = status, !.final_fare = fare]
    <3> DEFINE outcome == [status |-> row.payload[Status], approved_by |-> row.payload[ApprovedBy]]
               next == [trail EXCEPT !.approval_outcome = outcome, !.final_fare = fare]
    <3>1. Aggregate(trail, row) = next /\ outcome.status = status
      BY <2>2, <2>3
    <3> HIDE DEF outcome
    <3>2. /\ next.approval_outcome = outcome /\ next.final_fare = fare
          /\ next.candidate_fares = trail.candidate_fares
          /\ next.business_cost_usd = trail.business_cost_usd
      BY DEF TrailRecords
    <3> HIDE DEF next
    <3> DEFINE view == [candidate |-> trail.candidate_fares, outcome |-> status,
                        final_fare |-> fare, business |-> trail.business_cost_usd]
    <3>3. View(next) = view
      BY <3>1, <3>2 DEF View
    <3>4. [View(trail) EXCEPT !.outcome = status, !.final_fare = fare] = view
      <4> DEFINE other == [View(trail) EXCEPT !.outcome = status]
      <4>1. other = [candidate |-> trail.candidate_fares, outcome |-> status,
                     final_fare |-> trail.final_fare, business |-> trail.business_cost_usd]
        BY DEF View
      <4> HIDE DEF other
      <4>2. [other EXCEPT !.final_fare = fare] = view
        BY <4>1
      <4> QED
        BY <4>2 DEF other
    <3> QED
      BY <3>1, <3>3, <3>4
  <2> QED
    BY <2>4 DEF ViewStep
<1>3. CASE row.event = "business_cost_recorded"
  <2>1. row.event # "flight_node_complete" /\ row.event \notin ApprovalEvents
    BY <1>3 DEF ApprovalEvents
  <2>2. PICK fare \in Fares : row.payload[FarePrice] = PriceOf[fare]
    BY <1>3 DEF Tells
  <2>3. Aggregate(trail, row) = [trail EXCEPT !.business_cost_usd = PriceOf[fare]]
    BY <1>3, <2>1, <2>2 DEF Aggregate
  <2>4. View(Aggregate(trail, row)) = [View(trail) EXCEPT !.business = PriceOf[fare]]
    BY <2>3 DEF View, TrailRecords
  <2> QED
    BY <2>4 DEF ViewStep
<1>4. CASE row.event \notin {"flight_node_complete", "business_cost_recorded"} \cup ApprovalEvents
  BY <1>4 DEF Aggregate, ViewStep
<1> QED
  BY <1>1, <1>2, <1>3, <1>4

\* In a state that the invariant allows, a record is one.
LEMMA AccountIsTyped ==
  ASSUME NEW n \in Nat, NEW table, \A id \in DOMAIN table : Tells(table[id]), NEW t
  PROVE  AccountOf(EventsOf(table, n, t)) \in TrailRecords
<1> DEFINE S == {table[id] : id \in DOMAIN table}
           events == EventsOf(table, n, t)
<1>1. events \in Seq(S) /\ \A row \in S : Tells(row)
  BY ReadingIsTyped
<1> HIDE DEF S, events
<1>2. PICK f : Account(f, events) /\ AccountOf(events) = f[Len(events)]
  BY <1>1, AccountsExist
<1>3. Len(events) \in 0..Len(events)
  BY <1>1, LenProperties
<1>4. AccountOf(events) \in TrailRecords
  BY <1>2, <1>3 DEF Account
<1> QED
  BY <1>4 DEF events

\* The table with the code that reads it implements AuditTrail.
THEOREM TableImplementsTrail == Spec => ImplementsAuditTrail
<1> DEFINE Viewed == [t \in Trips |-> TrailOf(t)]
<1>1. Init => Trail!AuditInit
  <2> SUFFICES ASSUME Init PROVE Trail!AuditInit
    OBVIOUS
  <2>1. rows = <<>> /\ lastId = 0 /\ lost = {}
    BY DEF Init, LogInit
  <2>2. ASSUME NEW t \in Trips PROVE TrailOf(t) = Trail!EmptyTrail
    <3>1. GetEvents(t) = <<>>
      <4>1. PICK f : Listing(f, rows, 0, t) /\ EventsOf(rows, 0, t) = f[0]
        BY EventsAreListed
      <4>2. GetEvents(t) = EventsOf(rows, lastId, t)
        BY GetEventsReads
      <4> QED
        BY <2>1, <4>1, <4>2 DEF Listing
    <3>2. AccountOf(<<>>) = NewTrail
      <4> DEFINE none == <<>>
                 Nobody == {}
      <4>1. none \in Seq(Nobody) /\ Len(none) = 0
        BY EmptySeq
      <4>2. \A row \in Nobody : Tells(row)
        OBVIOUS
      <4> HIDE DEF none, Nobody
      <4>3. PICK f : Account(f, none) /\ AccountOf(none) = f[Len(none)]
        BY <4>1, <4>2, AccountsExist
      <4>4. AccountOf(none) = NewTrail
        BY <4>1, <4>3 DEF Account
      <4> QED
        BY <4>4 DEF none
    <3>3. GetTripAuditTrail(t) = NewTrail
      BY <3>1, <3>2, TrailIsAccount
    <3> QED
      BY <3>3 DEF TrailOf, NewTrail, NoOutcome, Trail!EmptyTrail
  <2> QED
    BY <2>1, <2>2 DEF Trail!AuditInit
<1>2. IInv /\ [Next]_vars => (\E t \in Trips : TrailStep(t)) \/ UNCHANGED Trail!auditVars
  <2> SUFFICES ASSUME IInv, [Next]_vars
               PROVE  (\E t \in Trips : TrailStep(t)) \/ UNCHANGED Trail!auditVars
    OBVIOUS
  <2>1. LogInv /\ lastId \in Nat /\ \A id \in DOMAIN rows : Tells(rows[id])
    BY LogAssumption DEF IInv, LogInv, LogType, TableInv, TellsInv
  <2>2. ASSUME NEW t \in Trips
        PROVE  /\ TrailOf(t) = View(AccountOf(EventsOf(rows, lastId, t)))
               /\ TrailOf(t)' = View(AccountOf(EventsOf(rows', lastId', t)))
    BY DEF TrailOf, View, GetTripAuditTrail, AccountOf, IsAccount, GetEvents, EventsOf, IsReading
  <2>3. CASE Quiet
    <3>1. \A t \in Trips : TrailOf(t)' = TrailOf(t)
      BY <2>1, <2>2, <2>3, QuietReads
    <3>2. Viewed' = Viewed
      BY <3>1
    <3>3. CASE UNCHANGED lost
      BY <3>2, <3>3 DEF Trail!auditVars
    <3>4. CASE \E t \in Trips : lost' = lost \cup {t}
      <4>1. PICK t \in Trips : lost' = lost \cup {t}
        BY <3>4
      <4>2. PICK fare : fare \in Fares
        BY ServerAssumption
      <4>3. Trail!RecordFares(t, fare)
        BY <3>2, <4>1 DEF Trail!RecordFares, Trail!Record
      <4> QED
        BY <4>2, <4>3 DEF TrailStep
    <3> QED
      BY <2>3, <3>3, <3>4 DEF Quiet
  <2>4. CASE \E p \in Processes : Commit(p)
    <3>1. PICK p \in Processes : Commit(p)
      BY <2>4
    <3>2. PICK row, u : row = open[p] /\ u = row.trip /\ u \in Trips /\ Tells(row)
      BY <2>1, <3>1 DEF Commit, LogInv, LogType, IsRow, TableInv, TellsInv
    <3>3. UNCHANGED lost
      BY <3>1 DEF Commit
    <3>4. \A t \in Trips \ {u} : TrailOf(t)' = TrailOf(t)
      BY <2>1, <2>2, <3>1, <3>2, CommitReads
    <3>5. ViewStep(TrailOf(u), TrailOf(u)')
      <4> DEFINE before == AccountOf(EventsOf(rows, lastId, u))
                 after == AccountOf(EventsOf(rows', lastId', u))
      <4>1. before \in TrailRecords
        BY <2>1, AccountIsTyped
      <4>2. after \in {before, Aggregate(before, row)}
        BY <2>1, <3>1, <3>2, CommitReads
      <4>3. TrailOf(u) = View(before) /\ TrailOf(u)' = View(after)
        BY <2>2, <3>2
      <4> HIDE DEF before, after
      <4>4. CASE after = before
        BY <4>3, <4>4 DEF ViewStep
      <4>5. CASE after = Aggregate(before, row)
        BY <3>2, <4>1, <4>3, <4>5, AggregateSteps
      <4> QED
        BY <4>2, <4>4, <4>5
    <3> DEFINE next == TrailOf(u)'
    <3>6. Viewed' = [Viewed EXCEPT ![u] = next] /\ Viewed[u] = TrailOf(u)
      BY <3>2, <3>4
    <3>7. CASE next = TrailOf(u)
      <4>1. Viewed' = Viewed
        BY <3>4, <3>7
      <4> QED
        BY <3>3, <4>1 DEF Trail!auditVars
    <3>8. CASE \E fare \in Fares : next = [TrailOf(u) EXCEPT !.candidate = fare]
      <4>1. PICK fare \in Fares : next = [TrailOf(u) EXCEPT !.candidate = fare]
        BY <3>8
      <4>2. Trail!RecordFares(u, fare)
        BY <3>3, <3>6, <4>1 DEF Trail!RecordFares, Trail!Record
      <4> QED
        BY <3>2, <4>2 DEF TrailStep
    <3>9. CASE \E fare \in Fares, status \in Statuses :
                 next = [TrailOf(u) EXCEPT !.outcome = status, !.final_fare = fare]
      <4>1. PICK fare \in Fares, status \in Statuses :
              next = [TrailOf(u) EXCEPT !.outcome = status, !.final_fare = fare]
        BY <3>9
      <4>2. Trail!RecordOutcome(u, status, fare)
        BY <3>3, <3>6, <4>1 DEF Trail!RecordOutcome, Trail!Record
      <4> QED
        BY <3>2, <4>2 DEF TrailStep
    <3>10. CASE \E fare \in Fares : next = [TrailOf(u) EXCEPT !.business = PriceOf[fare]]
      <4>1. PICK fare \in Fares : next = [TrailOf(u) EXCEPT !.business = PriceOf[fare]]
        BY <3>10
      <4>2. Trail!RecordBusinessCost(u, PriceOf[fare])
        BY <3>3, <3>6, <4>1 DEF Trail!RecordBusinessCost, Trail!Record
      <4> QED
        BY <3>2, <4>2 DEF TrailStep
    <3> QED
      BY <3>5, <3>7, <3>8, <3>9, <3>10 DEF ViewStep
  <2> QED
    BY <2>1, <2>3, <2>4, LogSteps DEF LogInv
<1> QED
  BY <1>1, <1>2, Invariance, PTL DEF Spec, ImplementsAuditTrail
===============================================================================
