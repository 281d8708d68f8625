------------------------------- MODULE Market --------------------------------
(***************************************************************************)
(* Features, Pricing, Offers and ETA together with their clients: riders   *)
(* who ask for rides, drivers who come online, the feeds and scripts that  *)
(* set features, the start of a region's feed, and a clock.                *)
(***************************************************************************)
EXTENDS Offers, Functions

CONSTANTS
  Weather, Accidents,   \* values somebody sets
  MaxSets,              \* bound: sets of features
  MaxRequests,          \* bound: rides asked for in a region
  MaxBootstraps,        \* bound: starts of a region's feed
  MaxDrivers            \* bound: drivers that come online

ASSUME BoundsAreNumbers ==
  /\ MaxSets \in Nat
  /\ MaxRequests \in Nat
  /\ MaxBootstraps \in Nat
  /\ MaxDrivers \in Nat

\* Nobody sets a density below 0 (sim_mapping.py:37); they are in hundredths.
ASSUME DensitiesAreNumbers == Accidents \subseteq Nat

VARIABLES
  lastSet,      \* history: the value each key was last sent
  accepted,     \* history: the sets accepted of each key
  bootstraps,   \* history: refreshes sent from outside
  arrivals      \* history: what samples would hold if it were never trimmed

history == <<lastSet, accepted, bootstraps, arrivals>>
vars == <<featureVars, pricingVars, offersVars, history>>

Init ==
  /\ FeaturesInit
  /\ PricingInit
  /\ OffersInit
  /\ lastSet = [k \in PointKeys |-> Default(k)]
  /\ accepted = [k \in PointKeys |-> 0]
  /\ bootstraps = [r \in Regions |-> 0]
  /\ arrivals = [r \in Regions |-> NoEvents]

-----------------------------------------------------------------------------
(* The clients.                                                            *)

Settings(k) == IF k[2] = "weather" THEN Weather \cup {"POISON"} ELSE Accidents

FeatureIsSet(k, v) ==
  /\ SumFunction(accepted) < MaxSets
  /\ AcceptSet(k, v)
  /\ accepted' = [accepted EXCEPT ![k] = @ + 1]
  /\ lastSet' = [lastSet EXCEPT ![k] = v]
  /\ UNCHANGED <<pricingVars, offersVars, bootstraps, arrivals>>

FixIsDeployed ==
  /\ ~ graceful
  /\ DeployFix
  /\ UNCHANGED <<pricingVars, offersVars, history>>

FeedStarts(r) ==
  /\ bootstraps[r] < MaxBootstraps
  /\ Bootstrap(r)
  /\ bootstraps' = [bootstraps EXCEPT ![r] = @ + 1]
  /\ UNCHANGED <<featureVars, offersVars, lastSet, accepted, arrivals>>

DriverComesOnline(r) ==
  /\ supplyCount[r] < MaxDrivers
  /\ NoteSupply(r)
  /\ UNCHANGED <<featureVars, offersVars, history>>

\* RiderSim.tick calls request_ride, in any region.
RiderAsks(i, r) ==
  /\ demandNotes[r] + demandCount[r] < MaxRequests
  /\ AsksForRide(i, r)
  /\ UNCHANGED <<featureVars, pricingVars, history>>

ClockTicks ==
  /\ FeaturesAge
  /\ arrivals' = [r \in Regions |-> Older(arrivals[r])]
  /\ UNCHANGED <<pricingVars, offersVars, lastSet, accepted, bootstraps>>

-----------------------------------------------------------------------------
(* What Restate runs.                                                      *)

FeatureWritten(k) ==
  /\ SetValue(k)
  /\ UNCHANGED <<pricingVars, offersVars, history>>

RefreshDue(r) == RefreshBegins(r) /\ UNCHANGED <<featureVars, offersVars, history>>

RefreshContinues(r) ==
  /\ RefreshReadsWeather(r) \/ RefreshReadsAccidents(r) \/ RefreshEnds(r)
  /\ UNCHANGED <<featureVars, offersVars, history>>

EstimateContinues(i) ==
  /\ EtaReadsWeather(i) \/ EtaEstimates(i)
  /\ UNCHANGED <<featureVars, pricingVars, history>>

RiderIsQuoted(i) == Quote(i) /\ UNCHANGED <<featureVars, pricingVars, history>>

DemandIsNoted(r) ==
  /\ DemandNoteArrives(r)
  /\ NoteDemand(r)
  /\ UNCHANGED <<featureVars, history>>

EventIsRecorded(r) ==
  /\ EventNoteArrives(r)
  /\ RecordEvent(r)
  /\ arrivals' = [arrivals EXCEPT ![r] = WithNew(@)]
  /\ UNCHANGED <<pricingVars, lastSet, accepted, bootstraps>>

Next ==
  \/ \E k \in PointKeys : FeatureWritten(k) \/ \E v \in Settings(k) : FeatureIsSet(k, v)
  \/ \E r \in Regions :
       \/ FeedStarts(r) \/ DriverComesOnline(r) \/ RefreshDue(r) \/ RefreshContinues(r)
       \/ DemandIsNoted(r) \/ EventIsRecorded(r)
       \/ \E i \in Riders : RiderAsks(i, r)
  \/ \E i \in Riders : EstimateContinues(i) \/ RiderIsQuoted(i)
  \/ FixIsDeployed
  \/ ClockTicks

Spec == Init /\ [][Next]_vars

\* Restate runs what it accepted; a call that competes for Pricing's key with
\* refreshes gets its turn.  Time passes.  Nobody owes a set, a ride or a fix.
FairSpec ==
  /\ Spec
  /\ WF_vars(ClockTicks)
  /\ \A k \in PointKeys : WF_vars(FeatureWritten(k))
  /\ \A r \in Regions :
       /\ SF_vars(RefreshDue(r)) /\ WF_vars(RefreshContinues(r))
       /\ SF_vars(DemandIsNoted(r)) /\ WF_vars(EventIsRecorded(r))
  /\ \A i \in Riders : WF_vars(EstimateContinues(i)) /\ SF_vars(RiderIsQuoted(i))

-----------------------------------------------------------------------------
\* What a rider may be offered: a multiplier of 1 to 3, the classes in order of
\* price, none below the base fare or above 3 times the dearest class.
IsOffer(o) ==
  /\ o.multiplier \in 100..300
  /\ \A i \in DOMAIN o.candidates :
       /\ o.candidates[i].price >= BaseFare
       /\ o.candidates[i].price <= Total(BaseFare, Metres, 3 * 240)
       /\ i > 1 => o.candidates[i].price >= o.candidates[i - 1].price
       /\ o.candidates[i].reliability \in 50..100

TypeOK ==
  /\ \A k \in PointKeys :
       /\ value[k] \in Settings(k) \cup {Default(k)}
       /\ setQueue[k] \in Seq(Settings(k))
  /\ version \in [PointKeys -> Nat]
  /\ accepted \in [PointKeys -> Nat]
  /\ samples \in [Regions -> [Ages -> Nat]]
  /\ arrivals \in [Regions -> [Ages -> Nat]]
  /\ graceful \in BOOLEAN
  /\ multiplier \in [Regions -> 100..300]
  /\ supplyCount \in [Regions -> Nat]
  /\ demandCount \in [Regions -> Nat]
  /\ refreshTimer \in [Regions -> Nat]
  /\ refreshStep \in [Regions -> {"none", "weather", "accidents", "rate"}]
  /\ bootstraps \in [Regions -> Nat]
  /\ asking \in [Riders -> {"none", "weather", "accidents", "quote"}]
  /\ askedIn \in [Riders -> Regions]
  /\ demandNotes \in [Regions -> Nat]
  /\ eventNotes \in [Regions -> Nat]
  /\ \A i \in Riders : asking[i] = "quote" => IsOffer(OfferTo(i))

\* Whatever was accepted for a key is stored or waits, in order: no set is lost
\* or overtaken, however long a poisoned one is retried ("the value is durable
\* on the Restate log from the moment ingress acks", features.py:5-6).
UpdatesAreKept ==
  \A k \in PointKeys :
    /\ version[k] + Len(setQueue[k]) = accepted[k]
    /\ lastSet[k] = IF setQueue[k] = << >> THEN value[k] ELSE setQueue[k][Len(setQueue[k])]

\* event_rate counts each event of the last EventWindow ticks, and no other,
\* although record_event keeps only some of them (features.py:99-103, 121-122).
RateCountsWindow == \A r \in Regions : EventCount(r) = NumberOf(arrivals[r], 0..EventWindow)

Refreshing(r) == IF refreshStep[r] = "none" THEN 0 ELSE 1

\* Every refresh that was sent goes on for ever, as one loop: no interleaving with
\* quotes, notes or a poisoned feature ends a loop or forks it.
RefreshLoopsAreKept ==
  \A r \in Regions : refreshTimer[r] + Refreshing(r) = bootstraps[r]

\* A key of Features keeps working while another is stuck, and the stuck one
\* drains when the fix is deployed: "Other Features VOs (other keys) keep
\* working" (features.py:32), "the stuck invocation drains on its next retry"
\* (features.py:43).
Poisoned(k) == \E i \in DOMAIN setQueue[k] : IsPoison(k, setQueue[k][i])
KeysAreIndependent ==
  \A k \in PointKeys : <>[](graceful \/ ~ Poisoned(k)) => []<>(setQueue[k] = << >>)

\* A rider who asks is made an offer, even while a feature it depends on is
\* poisoned and Pricing is refreshing.
RidersAreQuoted == \A i \in Riders : asking[i] # "none" ~> asking[i] = "none"

\* The multiplier the stored features, the counters and the stream ask for.
Target(r) ==
  MultiplierFromSignals(supplyCount[r], demandCount[r],
    value[WeatherKey(r)], value[AccidentsKey(r)], EventRate(r))

\* Once its inputs stay as they are, the multiplier follows them, although a
\* refresh reads them one by one while they change (pricing.py:89-113).
PricesFollow ==
  \A r \in Regions :
    <>[][Target(r)' = Target(r)]_vars =>
      (bootstraps[r] > 0 ~> multiplier[r] = Target(r))

\* Surge "responds to recent demand instead of all-time demand" (pricing.py:42,
\* README.md:324-325): when no request came for a while and features are calm,
\* the fare is the base fare again.
Calm(r) ==
  /\ bootstraps[r] > 0
  /\ EventCount(r) = 0
  /\ value[WeatherKey(r)] = "clear"
  /\ value[AccidentsKey(r)] = 0
SurgeDecays == \A r \in Regions : <>[](Calm(r)) => <>[](multiplier[r] = 100)
==============================================================================
