------------------------------- MODULE Offers --------------------------------
(***************************************************************************)
(* services/offers.py, services/eta.py and the request_ride that calls     *)
(* them.  Neither service keeps state: a request is the chain of calls     *)
(* Trip -> Offers -> ETA -> Features (twice), then Offers -> Pricing, and  *)
(* asking says which answer it waits for.  A rider's tick awaits the whole *)
(* chain, so a rider asks for one ride after another.  Times are in        *)
(* seconds, lengths in metres, factors and scores in hundredths, cut off   *)
(* where the code does so, without the errors of floating point.           *)
(***************************************************************************)
EXTENDS Pricing

CONSTANTS Riders, Metres, BaseFare

ASSUME PlacesAreApart == Metres \in Nat /\ BaseFare \in Nat

VARIABLES
  asking,       \* [rider]: "none", or the answer the request awaits
  askedIn,      \* [rider]: the region of its last request
  etaRead,      \* [rider]: the weather its ETA has read
  eta,          \* [rider]: the estimate
  demandNotes,  \* [region]: note_demand messages on their way
  eventNotes    \* [region]: record_event messages on their way

offersVars == <<asking, askedIn, etaRead, eta, demandNotes, eventNotes>>

NoEta == [seconds |-> 0, reliability |-> 0]

OffersInit ==
  /\ asking = [i \in Riders |-> "none"]
  /\ askedIn \in [Riders -> Regions]
  /\ etaRead = [i \in Riders |-> "clear"]
  /\ eta = [i \in Riders |-> NoEta]
  /\ demandNotes = [r \in Regions |-> 0]
  /\ eventNotes = [r \in Regions |-> 0]

-----------------------------------------------------------------------------
WeatherPenalty(w) == CASE w = "rain_light" -> 110
                       [] w = "rain_heavy" -> 135
                       [] w = "snow" -> 150
                       [] w = "fog" -> 115
                       [] OTHER -> 100

\* 40 km/h, slowed by weather and accidents (a in hundredths).
EtaSeconds(w, a) == (Metres * WeatherPenalty(w) * (1000 + 4 * a)) \div (11 * 100 * 1000)

\* 1 less 0.2 per unit of weather and 0.3 of accidents, at least 0.5.
Reliability(w, a) ==
  LET loss == 20 * (WeatherPenalty(w) - 100) + 12 * a
  IN  IF loss > 5000 THEN 50 ELSE (10000 - loss + 50) \div 100

CarClasses == <<[name |-> "Standard", price |-> 100, eta |-> 100],
                [name |-> "XL", price |-> 160, eta |-> 105],
                [name |-> "Lux", price |-> 240, eta |-> 85]>>

\* The offers of all classes for one estimate and one quote.
Candidates(e, total) ==
  [i \in DOMAIN CarClasses |->
     [car_class |-> CarClasses[i].name,
      eta |-> (e.seconds * CarClasses[i].eta) \div 100,
      price |-> (total * CarClasses[i].price) \div 100,
      reliability |-> e.reliability]]

-----------------------------------------------------------------------------
\* request_ride, generate and estimate up to the first call to Features.
AsksForRide(i, r) ==
  /\ asking[i] = "none"
  /\ asking' = [asking EXCEPT ![i] = "weather"]
  /\ askedIn' = [askedIn EXCEPT ![i] = r]
  /\ UNCHANGED <<etaRead, eta, demandNotes, eventNotes>>

EtaReadsWeather(i) ==
  /\ asking[i] = "weather"
  /\ Answers(WeatherKey(askedIn[i]))
  /\ etaRead' = [etaRead EXCEPT ![i] = value[WeatherKey(askedIn[i])]]
  /\ asking' = [asking EXCEPT ![i] = "accidents"]
  /\ UNCHANGED <<askedIn, eta, demandNotes, eventNotes>>

EtaEstimates(i) ==
  LET a == value[AccidentsKey(askedIn[i])]
  IN  /\ asking[i] = "accidents"
      /\ Answers(AccidentsKey(askedIn[i]))
      /\ eta' = [eta EXCEPT ![i] = [seconds |-> EtaSeconds(etaRead[i], a),
                                    reliability |-> Reliability(etaRead[i], a)]]
      /\ etaRead' = [etaRead EXCEPT ![i] = "clear"]
      /\ asking' = [asking EXCEPT ![i] = "quote"]
      /\ UNCHANGED <<askedIn, demandNotes, eventNotes>>

\* What Offers composes when Pricing answers; the first candidate is selected.
OfferTo(i) ==
  LET m == multiplier[askedIn[i]]
  IN  [multiplier |-> m, candidates |-> Candidates(eta[i], Total(BaseFare, Metres, m))]

\* Pricing quotes, with its key free, and request_ride returns the offer, having
\* sent what Pricing and Features count.  The offer is data to the trip.
Quote(i) ==
  /\ asking[i] = "quote"
  /\ PricingKeyFree(askedIn[i])
  /\ eta' = [eta EXCEPT ![i] = NoEta]
  /\ asking' = [asking EXCEPT ![i] = "none"]
  /\ demandNotes' = [demandNotes EXCEPT ![askedIn[i]] = @ + 1]
  /\ eventNotes' = [eventNotes EXCEPT ![askedIn[i]] = @ + 1]
  /\ UNCHANGED <<askedIn, etaRead>>

DemandNoteArrives(r) ==
  /\ demandNotes[r] > 0
  /\ demandNotes' = [demandNotes EXCEPT ![r] = @ - 1]
  /\ UNCHANGED <<asking, askedIn, etaRead, eta, eventNotes>>

EventNoteArrives(r) ==
  /\ eventNotes[r] > 0
  /\ eventNotes' = [eventNotes EXCEPT ![r] = @ - 1]
  /\ UNCHANGED <<asking, askedIn, etaRead, eta, demandNotes>>
==============================================================================
