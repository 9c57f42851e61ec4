-------------------------------- MODULE Tracing --------------------------------
(***************************************************************************)
(* The table of active traces, observability/tracing.py, and the client it *)
(* depends on, which is made once in a process (langfuse_client.py).  Any  *)
(* call of the client may raise, and the exception is swallowed.           *)
(***************************************************************************)
CONSTANT Trips   \* trace_ids

VARIABLES client,   \* get_client(): "unknown" until it is called, then "real" or "none"
          active    \* the keys of _ACTIVE_TRACES

traceVars == <<client, active>>

TraceInit == client = "unknown" /\ active = {}

\* lru_cache keeps the first answer, the None of a client that failed too.
GetClient == client' \in IF client = "unknown" THEN {"real", "none"} ELSE {client}

StartTrace(t) ==
  /\ GetClient
  /\ active' \in IF client' = "real" THEN {active, active \cup {t}} ELSE {active}

\* Mutant: the trace is looked up and stays in the table.
EndTraceKeepingIt(t) == GetClient /\ UNCHANGED active

EndTrace(t) == GetClient /\ active' = IF client' = "real" THEN active \ {t} ELSE active

TraceRestart == client' = "unknown" /\ active' = {}
===============================================================================
