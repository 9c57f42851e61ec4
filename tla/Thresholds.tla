------------------------------ MODULE Thresholds ------------------------------
(***************************************************************************)
(* Spend caps and cabin tiers, guardrails/thresholds.py, over the job      *)
(* levels of config/guardrails.yaml.  Nothing here has state: the ruling   *)
(* on a fare is a function of the configuration, which is read once.       *)
(***************************************************************************)
EXTENDS Naturals, Sequences

CONSTANTS Levels,            \* the job levels of guardrails.yaml
          MaxCabin,          \* level -> max_cabin_class
          DomesticCap,       \* level -> domestic_spend_cap_usd
          InternationalCap   \* level -> international_spend_cap_usd

CabinTiers == <<"economy", "premium_economy", "business", "first">>

Tiers == {CabinTiers[i] : i \in 1..Len(CabinTiers)}

\* A request's cabin_class is free text: every text that is no tier is "unlisted".
Cabins == Tiers \cup {"unlisted"}

ASSUME PolicyAssumption ==
  /\ MaxCabin \in [Levels -> Cabins]
  /\ DomesticCap \in [Levels -> Nat]
  /\ InternationalCap \in [Levels -> Nat]

\* What next_lower_cabin_class returns when there is nothing below.
NoCabin == "no_cabin"

\* A tier's index from zero; a cabin that is no tier ranks above them all.
CabinRank(cabin) ==
  IF cabin \in Tiers
  THEN (CHOOSE i \in 1..Len(CabinTiers) : CabinTiers[i] = cabin) - 1
  ELSE Len(CabinTiers)

NextLowerCabin(cabin) ==
  IF CabinRank(cabin) = 0 THEN NoCabin ELSE CabinTiers[CabinRank(cabin)]

CapUsd(level, international) ==
  IF international THEN InternationalCap[level] ELSE DomesticCap[level]

WithinPolicy(level, international, fare) ==
  /\ fare.price <= CapUsd(level, international)
  /\ CabinRank(fare.cabin) <= CabinRank(MaxCabin[level])
===============================================================================
