----------------------------- MODULE MCCostLedger -----------------------------
(***************************************************************************)
(* A small instance of CostLedger, with the prices of                      *)
(* config/model_prices.yaml.                                               *)
(***************************************************************************)
EXTENDS CostLedger

Usage(input, output, cached) ==
  [input_tokens |-> input, output_tokens |-> output, cache_read_tokens |-> cached]

\* Whole micro-dollars; a half, by an odd number of cached tokens; more cached
\* tokens than input, at a half again; and a run that used nothing.
MCUsages == {Usage(2, 1, 0), Usage(2, 1, 1), Usage(1, 0, 3), Usage(0, 0, 0)}
===============================================================================
