------------------------------- MODULE Pricing -------------------------------
(***************************************************************************)
(* services/pricing.py: one Virtual Object per region.                     *)
(*                                                                         *)
(* refresh awaits three answers of Features with the key held; refreshStep *)
(* says which.  quote, note_demand and note_supply wait for it.  Money is  *)
(* in cents and multipliers in hundredths, computed exactly where the code *)
(* computes with floating point.                                           *)
(***************************************************************************)
EXTENDS Features

VARIABLES
  multiplier,      \* [region], in hundredths
  supplyCount,
  demandCount,
  refreshTimer,    \* [region]: sends of refresh not yet begun, delayed ones included
  refreshStep,     \* [region]: "none", or what the executing refresh awaits
  refreshRead      \* [region]: what it has read so far

pricingVars == <<multiplier, supplyCount, demandCount, refreshTimer, refreshStep, refreshRead>>

NothingRead == [weather |-> "clear", accidents |-> 0]

PricingInit ==
  /\ multiplier = [r \in Regions |-> 100]
  /\ supplyCount = [r \in Regions |-> 0]
  /\ demandCount = [r \in Regions |-> 0]
  /\ refreshTimer = [r \in Regions |-> 0]
  /\ refreshStep = [r \in Regions |-> "none"]
  /\ refreshRead = [r \in Regions |-> NothingRead]

-----------------------------------------------------------------------------
(* _multiplier_from_signals: a product of factors, each <<p, q>> for p/q.  *)

SupplyFactor(supply, demand) ==
  IF supply > 0 /\ demand > supply THEN <<demand, supply>> ELSE <<1, 1>>

\* 1 + (rate - 0.5) * 0.25, at most 1.5; the rate in thousandths.
IntensityFactor(rate) ==
  IF rate <= 500 THEN <<1, 1>>
  ELSE <<IF rate > 2500 THEN 6000 ELSE 3500 + rate, 4000>>

WeatherFactor(w) == IF w \in {"rain_heavy", "snow"} THEN <<5, 4>> ELSE <<1, 1>>
AccidentsFactor(a) == IF a > 50 THEN <<23, 20>> ELSE <<1, 1>>

\* The product to the nearest hundredth.
Hundredths(f, g, h, k) ==
  LET p == 100 * f[1] * g[1] * h[1] * k[1]
      q == f[2] * g[2] * h[2] * k[2]
  IN  (2 * p + q) \div (2 * q)

\* Mutant of Capped: the cap is missing.
Uncapped(m) == m
Capped(m) == IF m > 300 THEN 300 ELSE m

MultiplierFromSignals(supply, demand, w, a, rate) ==
  Capped(Hundredths(SupplyFactor(supply, demand), IntensityFactor(rate),
                    WeatherFactor(w), AccidentsFactor(a)))

-----------------------------------------------------------------------------
PricingKeyFree(r) == refreshStep[r] = "none"

\* Pricing.refresh, sent by the first start of the region's feed and by every
\* start that follows a pause (sim_mapping.py:48-51).
Bootstrap(r) ==
  /\ refreshTimer' = [refreshTimer EXCEPT ![r] = @ + 1]
  /\ UNCHANGED <<multiplier, supplyCount, demandCount, refreshStep, refreshRead>>

RefreshBegins(r) ==
  /\ refreshTimer[r] > 0
  /\ PricingKeyFree(r)
  /\ refreshTimer' = [refreshTimer EXCEPT ![r] = @ - 1]
  /\ refreshStep' = [refreshStep EXCEPT ![r] = "weather"]
  /\ UNCHANGED <<multiplier, supplyCount, demandCount, refreshRead>>

\* Mutant of Answers: get waits for the writers of the key.
AnswersInTurn(k) == setQueue[k] = << >>

\* `get' is shared: it answers at once, whatever is queued.
Answers(k) == k \in PointKeys

RefreshReadsWeather(r) ==
  /\ refreshStep[r] = "weather"
  /\ Answers(WeatherKey(r))
  /\ refreshRead' = [refreshRead EXCEPT ![r].weather = value[WeatherKey(r)]]
  /\ refreshStep' = [refreshStep EXCEPT ![r] = "accidents"]
  /\ UNCHANGED <<multiplier, supplyCount, demandCount, refreshTimer>>

RefreshReadsAccidents(r) ==
  /\ refreshStep[r] = "accidents"
  /\ Answers(AccidentsKey(r))
  /\ refreshRead' = [refreshRead EXCEPT ![r].accidents = value[AccidentsKey(r)]]
  /\ refreshStep' = [refreshStep EXCEPT ![r] = "rate"]
  /\ UNCHANGED <<multiplier, supplyCount, demandCount, refreshTimer>>

RefreshedMultiplier(r) ==
  MultiplierFromSignals(supplyCount[r], demandCount[r],
    refreshRead[r].weather, refreshRead[r].accidents, EventRate(r))

\* Mutants of RefreshEnds: the next refresh is not scheduled; the price is only
\* ever raised.
RefreshEndsForGood(r) ==
  /\ refreshStep[r] = "rate"
  /\ multiplier' = [multiplier EXCEPT ![r] = RefreshedMultiplier(r)]
  /\ refreshRead' = [refreshRead EXCEPT ![r] = NothingRead]
  /\ refreshStep' = [refreshStep EXCEPT ![r] = "none"]
  /\ UNCHANGED <<supplyCount, demandCount, refreshTimer>>
RefreshEndsHigher(r) ==
  /\ refreshStep[r] = "rate"
  /\ multiplier' = [multiplier EXCEPT ![r] =
                      IF RefreshedMultiplier(r) > @ THEN RefreshedMultiplier(r) ELSE @]
  /\ refreshRead' = [refreshRead EXCEPT ![r] = NothingRead]
  /\ refreshTimer' = [refreshTimer EXCEPT ![r] = @ + 1]
  /\ refreshStep' = [refreshStep EXCEPT ![r] = "none"]
  /\ UNCHANGED <<supplyCount, demandCount>>

\* The rate arrives: the multiplier is set and the next refresh scheduled.
RefreshEnds(r) ==
  /\ refreshStep[r] = "rate"
  /\ multiplier' = [multiplier EXCEPT ![r] = RefreshedMultiplier(r)]
  /\ refreshRead' = [refreshRead EXCEPT ![r] = NothingRead]
  /\ refreshTimer' = [refreshTimer EXCEPT ![r] = @ + 1]
  /\ refreshStep' = [refreshStep EXCEPT ![r] = "none"]
  /\ UNCHANGED <<supplyCount, demandCount>>

NoteDemand(r) ==
  /\ PricingKeyFree(r)
  /\ demandCount' = [demandCount EXCEPT ![r] = @ + 1]
  /\ UNCHANGED <<multiplier, supplyCount, refreshTimer, refreshStep, refreshRead>>

\* Every sender passes delta = 1.
NoteSupply(r) ==
  /\ PricingKeyFree(r)
  /\ supplyCount' = [supplyCount EXCEPT ![r] = @ + 1]
  /\ UNCHANGED <<multiplier, demandCount, refreshTimer, refreshStep, refreshRead>>

\* quote: total_cents.
Total(base, metres, m) == ((base + (metres * 150) \div 1000) * m) \div 100
==============================================================================
