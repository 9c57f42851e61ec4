------------------------------ MODULE CostLedger ------------------------------
(***************************************************************************)
(* The agent cost of a trace: cost/ledger.py keeps a running total in      *)
(* memory, and every call's cost also goes to the audit store, whose trail *)
(* adds the costs up (agents/base.py, audit/store.py).  Both round to the  *)
(* micro-dollar, one the total and the other each call.                    *)
(***************************************************************************)
EXTENDS Integers

CONSTANTS Traces,           \* trace_ids
          Usages,           \* token counts an agent run may report
          InputPrice,       \* config/model_prices.yaml, in cents per million
          OutputPrice,      \* tokens, which is in cents of a micro-dollar
          CacheReadPrice,   \* per token
          MaxCalls,         \* bound: agent runs of a trace
          MaxRestarts       \* bound: restarts of the gateway

VARIABLES ledger,     \* trace -> [calls, agent_cost_usd]; agent_cost_usd in micro-dollars
          trailCost,  \* trace -> agent_cost_usd of its trail, in micro-dollars
          over,       \* the traces whose request has ended, or was lost in a restart
          restarts,
          runs,       \* history: trace -> its recorded agent runs
          exact,      \* history: trace -> their cost in cents of a micro-dollar
          ties,       \* history: trace -> those of them that cost a half micro-dollar
          lost        \* history: the traces of which an event was lost

vars == <<ledger, trailCost, over, restarts, runs, exact, ties, lost>>

ASSUME PriceAssumption ==
  /\ Usages \subseteq [input_tokens : Nat, output_tokens : Nat, cache_read_tokens : Nat]
  /\ InputPrice \in Nat /\ OutputPrice \in Nat /\ CacheReadPrice \in Nat
  /\ MaxCalls \in Nat /\ MaxRestarts \in Nat

EmptyLedger == [calls |-> 0, agent_cost_usd |-> 0]

Init ==
  /\ ledger = [t \in Traces |-> EmptyLedger]
  /\ trailCost = [t \in Traces |-> 0]
  /\ over = {}
  /\ restarts = 0
  /\ runs = [t \in Traces |-> 0]
  /\ exact = [t \in Traces |-> 0]
  /\ ties = [t \in Traces |-> 0]
  /\ lost = {}

\* Mutant: nothing keeps the uncached tokens from being negative.
CostUnclipped(u) ==
  (u.input_tokens - u.cache_read_tokens) * InputPrice
    + u.cache_read_tokens * CacheReadPrice + u.output_tokens * OutputPrice

Uncached(u) ==
  IF u.input_tokens > u.cache_read_tokens THEN u.input_tokens - u.cache_read_tokens ELSE 0

\* The cost of an agent run, in cents of a micro-dollar.
CostOf(u) ==
  Uncached(u) * InputPrice + u.cache_read_tokens * CacheReadPrice + u.output_tokens * OutputPrice

\* Mutant: five digits are kept.
RoundedToFive(cents) ==
  {10 * m : m \in {n \in (cents \div 1000)..(cents \div 1000 + 1) :
                     2 * (1000 * n - cents) \in -1000..1000}}

\* round(x, 6): a micro-dollar nearest to x.  The nearest one to a half is
\* whichever the binary fraction that stands for x is closer to.
Rounded(cents) ==
  {m \in (cents \div 100)..(cents \div 100 + 1) : 2 * (100 * m - cents) \in -100..100}

IsTie(cents) == cents % 100 = 50

\* Mutant: the trail's event carries what the run costs beyond the total.
RecordUsageOfTotal(t, u, written) ==
  /\ t \notin over /\ ledger[t].calls < MaxCalls
  /\ u.input_tokens + u.output_tokens > 0
  /\ \E total \in Rounded(100 * ledger[t].agent_cost_usd + CostOf(u)) :
       /\ ledger' = [ledger EXCEPT ![t] = [calls |-> @.calls + 1, agent_cost_usd |-> total]]
       /\ trailCost' = IF written THEN [trailCost EXCEPT ![t] = @ + total] ELSE trailCost
  /\ runs' = [runs EXCEPT ![t] = @ + 1]
  /\ exact' = [exact EXCEPT ![t] = @ + CostOf(u)]
  /\ ties' = IF IsTie(CostOf(u)) THEN [ties EXCEPT ![t] = @ + 1] ELSE ties
  /\ lost' = IF written THEN lost ELSE lost \cup {t}
  /\ UNCHANGED <<over, restarts>>

\* An agent run is recorded: once, when it has returned, if it used any tokens;
\* `written' tells whether the audit store took the event.
RecordUsage(t, u, written) ==
  /\ t \notin over /\ ledger[t].calls < MaxCalls
  /\ u.input_tokens + u.output_tokens > 0
  /\ \E total \in Rounded(100 * ledger[t].agent_cost_usd + CostOf(u)), cost \in Rounded(CostOf(u)) :
       /\ ledger' = [ledger EXCEPT ![t] = [calls |-> @.calls + 1, agent_cost_usd |-> total]]
       /\ trailCost' = IF written THEN [trailCost EXCEPT ![t] = @ + cost] ELSE trailCost
  /\ runs' = [runs EXCEPT ![t] = @ + 1]
  /\ exact' = [exact EXCEPT ![t] = @ + CostOf(u)]
  /\ ties' = IF IsTie(CostOf(u)) THEN [ties EXCEPT ![t] = @ + 1] ELSE ties
  /\ lost' = IF written THEN lost ELSE lost \cup {t}
  /\ UNCHANGED <<over, restarts>>

\* The request is answered, or fails: also when _price_for knows no price of the
\* model, which it finds before it has recorded anything.
End(t) ==
  /\ t \notin over
  /\ over' = over \cup {t}
  /\ UNCHANGED <<ledger, trailCost, restarts, runs, exact, ties, lost>>

\* Ledgers are in memory, the audit store is not.  A request that was running is
\* lost; a trace without a run is one that has not begun.
Restart ==
  /\ restarts < MaxRestarts
  /\ restarts' = restarts + 1
  /\ ledger' = [t \in Traces |-> EmptyLedger]
  /\ over' = over \cup {t \in Traces : ledger[t].calls # 0}
  /\ UNCHANGED <<trailCost, runs, exact, ties, lost>>

TraceStep(t) == (\E u \in Usages, written \in BOOLEAN : RecordUsage(t, u, written)) \/ End(t)

Next == (\E t \in Traces : TraceStep(t)) \/ Restart

Spec == Init /\ [][Next]_vars
-------------------------------------------------------------------------------
(* Properties. *)

TypeOK ==
  /\ ledger \in [Traces -> [calls : 0..MaxCalls, agent_cost_usd : Nat]]
  /\ trailCost \in [Traces -> Nat]
  /\ over \subseteq Traces
  /\ restarts \in 0..MaxRestarts
  /\ runs \in [Traces -> Nat]
  /\ exact \in [Traces -> Nat]
  /\ ties \in [Traces -> Nat]
  /\ lost \subseteq Traces

\* The rounding of every total does not add up to more than half a micro-dollar
\* for each agent run, of the ledger while the process lives, and of the trail as
\* long as no event was lost (record_llm_usage, get_trip_audit_trail).
TotalsAreNearTheCost ==
  \A t \in Traces :
    /\ ledger[t].calls # 0 =>
         100 * ledger[t].agent_cost_usd - exact[t] \in -(50 * runs[t])..(50 * runs[t])
    /\ t \notin lost =>
         100 * trailCost[t] - exact[t] \in -(50 * runs[t])..(50 * runs[t])

\* The two agent costs a trip is reported with, that of the response and that of
\* the audit endpoint, are the same but for the runs that cost a half
\* micro-dollar, as runs that read an odd number of tokens from the cache may.
TotalsAgree ==
  \A t \in Traces \ lost : ledger[t].calls # 0 =>
    ledger[t].agent_cost_usd - trailCost[t] \in -ties[t]..ties[t]

\* No agent run makes a trip cheaper, however its tokens are counted, and a
\* restart takes nothing from what the trail has (record_llm_usage).
CostNeverDecreases ==
  [][\A t \in Traces :
       /\ trailCost'[t] >= trailCost[t]
       /\ ledger'[t].agent_cost_usd >= ledger[t].agent_cost_usd \/ ledger'[t] = EmptyLedger]_vars
===============================================================================
