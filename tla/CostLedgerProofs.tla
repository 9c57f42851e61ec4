--------------------------- MODULE CostLedgerProofs ---------------------------
(***************************************************************************)
(* The two totals of a trace stay near its cost and near each other, for   *)
(* any prices and any number of agent runs.                                *)
(***************************************************************************)
EXTENDS CostLedger, TLAPS

\* A trace that has not begun has nothing in any total.
FreshInv(t) ==
  t \notin over /\ ledger[t].calls = 0 =>
    /\ ledger[t].agent_cost_usd = 0 /\ trailCost[t] = 0
    /\ runs[t] = 0 /\ exact[t] = 0 /\ ties[t] = 0

IInv ==
  /\ TypeOK
  /\ \A t \in Traces : FreshInv(t)
  /\ TotalsAreNearTheCost
  /\ TotalsAgree

-------------------------------------------------------------------------------
(* Costs and rounding. *)

\* An agent run costs a natural number, whatever token counts it reports.
LEMMA CostType ==
  ASSUME NEW u \in Usages
  PROVE  CostOf(u) \in Nat
<1>1. u \in [input_tokens : Nat, output_tokens : Nat, cache_read_tokens : Nat]
  BY PriceAssumption
<1> DEFINE n == Uncached(u)
           r == u.cache_read_tokens
           o == u.output_tokens
<1>2. n \in Nat /\ r \in Nat /\ o \in Nat
  BY <1>1 DEF Uncached
<1>3. \A x, y \in Nat : x * y \in Nat
  OBVIOUS
<1>4. n * InputPrice \in Nat /\ r * CacheReadPrice \in Nat /\ o * OutputPrice \in Nat
  BY <1>2, <1>3, PriceAssumption
<1> HIDE DEF n, r, o
<1>5. n * InputPrice + r * CacheReadPrice + o * OutputPrice \in Nat
  BY <1>4
<1>6. QED BY <1>5 DEF CostOf, n, r, o

\* Rounding is off by half a micro-dollar at most.
LEMMA RoundedIsNear ==
  ASSUME NEW cents \in Nat, NEW m \in Rounded(cents)
  PROVE  m \in Nat /\ 100 * m - cents \in -50..50
BY DEF Rounded

\* And by less, unless the cost is a half.
LEMMA RoundedIsNearer ==
  ASSUME NEW cents \in Nat, NEW m \in Rounded(cents), ~IsTie(cents)
  PROVE  100 * m - cents \in -49..49
<1>1. m \in Nat /\ 100 * m - cents \in -50..50
  BY RoundedIsNear
<1>2. 100 * m - cents # 50 /\ 100 * m - cents # -50
  BY <1>1 DEF IsTie
<1>3. QED BY <1>1, <1>2

\* What one agent run adds to the two totals differs by a micro-dollar at most,
\* and not at all unless the cost is a half.
LEMMA TotalsMoveTogether ==
  ASSUME NEW before \in Nat, NEW cents \in Nat,
         NEW total \in Rounded(100 * before + cents), NEW cost \in Rounded(cents)
  PROVE  /\ total >= before
         /\ total - before - cost \in -1..1
         /\ ~IsTie(cents) => total - before = cost
<1>1. 100 * before + cents \in Nat
  OBVIOUS
<1>2. total \in Nat /\ 100 * total - (100 * before + cents) \in -50..50
  BY <1>1, RoundedIsNear
<1>3. cost \in Nat /\ 100 * cost - cents \in -50..50
  BY RoundedIsNear
<1>4. total >= before /\ total - before - cost \in -1..1
  BY <1>2, <1>3
<1>5. ASSUME ~IsTie(cents) PROVE total - before = cost
  <2>1. 100 * cost - cents \in -49..49
    BY <1>5, RoundedIsNearer
  <2>2. QED BY <1>2, <1>3, <2>1
<1>6. QED BY <1>4, <1>5

-------------------------------------------------------------------------------
(* The steps. *)

LEMMA InitHolds == Init => IInv
BY PriceAssumption DEF Init, EmptyLedger, IInv, TypeOK, FreshInv, TotalsAreNearTheCost, TotalsAgree

\* An agent run that is recorded (record_llm_usage).
LEMMA RecordStep ==
  ASSUME IInv, NEW t \in Traces, NEW u \in Usages, NEW written \in BOOLEAN,
         RecordUsage(t, u, written)
  PROVE  IInv' /\ trailCost'[t] >= trailCost[t]
               /\ ledger'[t].agent_cost_usd >= ledger[t].agent_cost_usd
<1> DEFINE cents == CostOf(u)
           before == ledger[t].agent_cost_usd
<1>1. PICK total \in Rounded(100 * before + cents), cost \in Rounded(cents) :
        /\ ledger' = [ledger EXCEPT ![t] = [calls |-> @.calls + 1, agent_cost_usd |-> total]]
        /\ trailCost' = IF written THEN [trailCost EXCEPT ![t] = @ + cost] ELSE trailCost
  BY DEF RecordUsage
<1>2. cents \in Nat
  BY CostType
<1>3. /\ ledger \in [Traces -> [calls : 0..MaxCalls, agent_cost_usd : Nat]]
      /\ trailCost \in [Traces -> Nat]
      /\ runs \in [Traces -> Nat] /\ exact \in [Traces -> Nat] /\ ties \in [Traces -> Nat]
  BY DEF IInv, TypeOK
<1>4. before \in Nat /\ ledger[t].calls \in 0..MaxCalls
  BY <1>3
<1>5. /\ t \notin over /\ ledger[t].calls < MaxCalls
      /\ runs' = [runs EXCEPT ![t] = @ + 1]
      /\ exact' = [exact EXCEPT ![t] = @ + cents]
      /\ ties' = IF IsTie(cents) THEN [ties EXCEPT ![t] = @ + 1] ELSE ties
      /\ lost' = IF written THEN lost ELSE lost \cup {t}
      /\ over' = over /\ restarts' = restarts
  BY DEF RecordUsage
<1> HIDE DEF cents, before
<1>6. 100 * before + cents \in Nat
  BY <1>2, <1>4
<1>7. total \in Nat /\ 100 * total - (100 * before + cents) \in -50..50
  BY <1>1, <1>6, RoundedIsNear
<1>8. cost \in Nat /\ 100 * cost - cents \in -50..50
  BY <1>1, <1>2, RoundedIsNear
<1>9. /\ total >= before
      /\ total - before - cost \in -1..1
      /\ ~IsTie(cents) => total - before = cost
  BY <1>1, <1>2, <1>4, TotalsMoveTogether
<1>10. /\ ledger'[t].calls = ledger[t].calls + 1 /\ ledger'[t].agent_cost_usd = total
       /\ runs'[t] = runs[t] + 1 /\ exact'[t] = exact[t] + cents
       /\ IsTie(cents) => ties'[t] = ties[t] + 1
       /\ ~IsTie(cents) => ties'[t] = ties[t]
       /\ written => trailCost'[t] = trailCost[t] + cost /\ lost' = lost
       /\ ~written => trailCost'[t] = trailCost[t] /\ t \in lost'
  BY <1>1, <1>3, <1>5
<1>11. \A s \in Traces \ {t} :
         /\ ledger'[s] = ledger[s] /\ trailCost'[s] = trailCost[s] /\ runs'[s] = runs[s]
         /\ exact'[s] = exact[s] /\ ties'[s] = ties[s] /\ (s \in lost' <=> s \in lost)
  BY <1>1, <1>3, <1>5
<1>12. TypeOK'
  <2>1. ledger[t].calls + 1 \in 0..MaxCalls
    BY <1>4, <1>5, PriceAssumption
  <2>2. ledger' \in [Traces -> [calls : 0..MaxCalls, agent_cost_usd : Nat]]
    BY <1>1, <1>3, <1>7, <2>1
  <2>3. trailCost' \in [Traces -> Nat]
    <3>1. trailCost[t] + cost \in Nat
      BY <1>3, <1>8
    <3>2. QED BY <1>1, <1>3, <3>1
  <2>4. runs' \in [Traces -> Nat] /\ exact' \in [Traces -> Nat] /\ ties' \in [Traces -> Nat]
    <3>1. runs[t] + 1 \in Nat /\ exact[t] + cents \in Nat /\ ties[t] + 1 \in Nat
      BY <1>2, <1>3
    <3>2. QED BY <1>3, <1>5, <3>1
  <2>5. QED BY <1>5, <2>2, <2>3, <2>4 DEF IInv, TypeOK
<1>13. \A s \in Traces : FreshInv(s)'
  <2>1. FreshInv(t)'
    BY <1>4, <1>10 DEF FreshInv
  <2>2. \A s \in Traces \ {t} : FreshInv(s)'
    BY <1>5, <1>11 DEF IInv, FreshInv
  <2>3. QED BY <2>1, <2>2
<1>14. ledger[t].calls = 0 =>
         before = 0 /\ trailCost[t] = 0 /\ runs[t] = 0 /\ exact[t] = 0 /\ ties[t] = 0
  BY <1>5 DEF IInv, FreshInv, before
<1>15. runs[t] \in Nat /\ exact[t] \in Nat /\ ties[t] \in Nat /\ trailCost[t] \in Nat
  BY <1>3
<1>16. 100 * before - exact[t] \in -(50 * runs[t])..(50 * runs[t])
  <2>1. CASE ledger[t].calls = 0
    BY <1>14, <2>1
  <2>2. CASE ledger[t].calls # 0
    BY <2>2 DEF IInv, TotalsAreNearTheCost, before
  <2>3. QED BY <2>1, <2>2
<1>17. TotalsAreNearTheCost'
  <2>1. 100 * ledger'[t].agent_cost_usd - exact'[t] \in -(50 * runs'[t])..(50 * runs'[t])
    BY <1>2, <1>4, <1>7, <1>10, <1>15, <1>16
  <2>2. t \notin lost' =>
          100 * trailCost'[t] - exact'[t] \in -(50 * runs'[t])..(50 * runs'[t])
    <3> SUFFICES ASSUME t \notin lost'
                 PROVE  100 * trailCost'[t] - exact'[t] \in -(50 * runs'[t])..(50 * runs'[t])
      OBVIOUS
    <3>1. 100 * trailCost[t] - exact[t] \in -(50 * runs[t])..(50 * runs[t])
      BY <1>10 DEF IInv, TotalsAreNearTheCost
    <3>2. QED BY <1>2, <1>8, <1>10, <1>15, <3>1
  <2>3. ASSUME NEW s \in Traces \ {t}
        PROVE  /\ ledger'[s].calls # 0 =>
                    100 * ledger'[s].agent_cost_usd - exact'[s] \in -(50 * runs'[s])..(50 * runs'[s])
               /\ s \notin lost' =>
                    100 * trailCost'[s] - exact'[s] \in -(50 * runs'[s])..(50 * runs'[s])
    BY <1>11 DEF IInv, TotalsAreNearTheCost
  <2>4. QED BY <2>1, <2>2, <2>3 DEF TotalsAreNearTheCost
<1>18. TotalsAgree'
  <2>1. t \notin lost' => ledger'[t].agent_cost_usd - trailCost'[t] \in -ties'[t]..ties'[t]
    <3> SUFFICES ASSUME t \notin lost'
                 PROVE  ledger'[t].agent_cost_usd - trailCost'[t] \in -ties'[t]..ties'[t]
      OBVIOUS
    <3>1. before - trailCost[t] \in -ties[t]..ties[t]
      <4>1. CASE ledger[t].calls = 0
        BY <1>14, <4>1
      <4>2. CASE ledger[t].calls # 0
        BY <1>10, <4>2 DEF IInv, TotalsAgree, before
      <4>3. QED BY <4>1, <4>2
    <3>2. CASE IsTie(cents)
      BY <1>4, <1>7, <1>8, <1>9, <1>10, <1>15, <3>1, <3>2
    <3>3. CASE ~IsTie(cents)
      BY <1>4, <1>7, <1>8, <1>9, <1>10, <1>15, <3>1, <3>3
    <3>4. QED BY <3>2, <3>3
  <2>2. \A s \in Traces \ {t} : s \notin lost' /\ ledger'[s].calls # 0 =>
          ledger'[s].agent_cost_usd - trailCost'[s] \in -ties'[s]..ties'[s]
    BY <1>11 DEF IInv, TotalsAgree
  <2>3. QED BY <2>1, <2>2 DEF TotalsAgree
<1>19. trailCost'[t] >= trailCost[t] /\ ledger'[t].agent_cost_usd >= ledger[t].agent_cost_usd
  BY <1>8, <1>9, <1>10, <1>15 DEF before
<1>20. QED BY <1>12, <1>13, <1>17, <1>18, <1>19 DEF IInv

\* A request ends, or the gateway restarts and forgets the ledgers.
LEMMA OtherSteps ==
  ASSUME IInv, (\E t \in Traces : End(t)) \/ Restart \/ UNCHANGED vars
  PROVE  IInv'
<1>1. CASE \E t \in Traces : End(t)
  BY <1>1 DEF End, IInv, TypeOK, FreshInv, TotalsAreNearTheCost, TotalsAgree
<1>2. CASE Restart
  <2>1. TypeOK'
    BY <1>2, PriceAssumption DEF Restart, EmptyLedger, IInv, TypeOK
  <2>2. ASSUME NEW t \in Traces PROVE FreshInv(t)'
    BY <1>2 DEF Restart, EmptyLedger, IInv, FreshInv
  <2>3. TotalsAreNearTheCost' /\ TotalsAgree'
    BY <1>2 DEF Restart, EmptyLedger, IInv, TotalsAreNearTheCost, TotalsAgree
  <2>4. QED BY <2>1, <2>2, <2>3 DEF IInv
<1>3. CASE UNCHANGED vars
  BY <1>3 DEF vars, IInv, TypeOK, FreshInv, TotalsAreNearTheCost, TotalsAgree
<1>4. QED BY <1>1, <1>2, <1>3
-------------------------------------------------------------------------------
(* The theorems. *)

\* IInv holds in every reachable state.
THEOREM Invariance == Spec => []IInv
<1>1. IInv /\ [Next]_vars => IInv'
  <2> SUFFICES ASSUME IInv, [Next]_vars PROVE IInv'
    OBVIOUS
  <2>1. CASE \E t \in Traces, u \in Usages, written \in BOOLEAN : RecordUsage(t, u, written)
    BY <2>1, RecordStep
  <2>2. CASE (\E t \in Traces : End(t)) \/ Restart \/ UNCHANGED vars
    BY <2>2, OtherSteps
  <2>3. QED BY <2>1, <2>2 DEF Next, TraceStep
<1>2. QED BY <1>1, InitHolds, PTL DEF Spec

\* Every total is a natural number of micro-dollars.
THEOREM TypeCorrect == Spec => []TypeOK
<1>1. IInv => TypeOK
  BY DEF IInv
<1>2. QED BY <1>1, Invariance, PTL

\* Rounding adds up to no more than half a micro-dollar for each agent run.
THEOREM RoundingIsBounded == Spec => []TotalsAreNearTheCost
<1>1. IInv => TotalsAreNearTheCost
  BY DEF IInv
<1>2. QED BY <1>1, Invariance, PTL

\* The ledger and the trail agree but for the runs that cost a half micro-dollar.
THEOREM LedgerAgreesWithTrail == Spec => []TotalsAgree
<1>1. IInv => TotalsAgree
  BY DEF IInv
<1>2. QED BY <1>1, Invariance, PTL

\* No step makes a trace cheaper, but a restart, which forgets the ledger.
THEOREM CostIsMonotone == Spec => CostNeverDecreases
<1> DEFINE Grows(t) ==
      /\ trailCost'[t] >= trailCost[t]
      /\ ledger'[t].agent_cost_usd >= ledger[t].agent_cost_usd \/ ledger'[t] = EmptyLedger
<1>1. IInv /\ [Next]_vars => [\A t \in Traces : Grows(t)]_vars
  <2> SUFFICES ASSUME IInv, Next PROVE \A s \in Traces : Grows(s)
    OBVIOUS
  <2>1. \A s \in Traces : trailCost[s] \in Nat /\ ledger[s].agent_cost_usd \in Nat
    BY DEF IInv, TypeOK
  <2>2. CASE \E t \in Traces, u \in Usages, written \in BOOLEAN : RecordUsage(t, u, written)
    <3>1. PICK t \in Traces, u \in Usages, written \in BOOLEAN : RecordUsage(t, u, written)
      BY <2>2
    <3>2. Grows(t)
      BY <3>1, RecordStep
    <3>3. \A s \in Traces \ {t} : trailCost'[s] = trailCost[s] /\ ledger'[s] = ledger[s]
      BY <3>1 DEF RecordUsage, IInv, TypeOK
    <3>4. \A s \in Traces \ {t} : Grows(s)
      BY <2>1, <3>3
    <3>5. QED BY <3>2, <3>4
  <2>3. CASE \E t \in Traces : End(t)
    BY <2>1, <2>3 DEF End
  <2>4. CASE Restart
    BY <2>1, <2>4 DEF Restart
  <2>5. QED BY <2>2, <2>3, <2>4 DEF Next, TraceStep
<1>2. QED BY <1>1, Invariance, PTL DEF Spec, CostNeverDecreases
===============================================================================
