--------------------------- MODULE MCBookingServer ----------------------------
(***************************************************************************)
(* Small instances of BookingServer: two employees, two fares and a clock  *)
(* that may be set back.                                                   *)
(***************************************************************************)
EXTENDS BookingServer

CONSTANTS t1, t2, e1, e2, h1, h2

OneTrip == {t1}
TwoTrips == {t1, t2}
MCProcesses == {"gateway", "booking"}
MCEmployeeIds == {e1}
MCHash == e1 :> h1
MCFares == {"fare1"}
MCPriceOf == [f \in MCFares |-> "price1"]
MCValues == {Null, h1, h2} \cup Statuses \cup MCFares \cup {"price1"}
MCTimes == {1, 2}
===============================================================================
