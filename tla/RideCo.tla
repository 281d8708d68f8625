------------------------------- MODULE RideCo --------------------------------
(***************************************************************************)
(* The matching core of RideCo: Trip, Dispatch and Locations exchanging    *)
(* messages through Restate, driven by riders, drivers, operators and the  *)
(* safety agent.                                                           *)
(*                                                                         *)
(* An action here is one handler of one object, taking the message that    *)
(* started it.  The clients are constrained only by what the code of the   *)
(* simulators, the scripts and the dashboard can send.                     *)
(***************************************************************************)
EXTENDS Trip, Locations, Dispatch

CONSTANTS
  Home,             \* [driver]: the regions it may be told to be idle in
  Extras,           \* the optional calls that some client makes
  MaxConfirms,      \* bound: confirm calls per trip
  MaxBacklog,       \* bound: undelivered messages of a client-driven sender
  AcceptBeatsEpoch  \* assumption: a driver learns of its match within an epoch

ASSUME ClientAssumptions ==
  /\ Home \in [Drivers -> SUBSET Regions]
  /\ Extras \subseteq {"cancel", "complete", "force_idle", "offline", "halt"}
  /\ MaxConfirms \in Nat
  /\ MaxBacklog \in Nat
  /\ AcceptBeatsEpoch \in BOOLEAN

VARIABLES
  confirms,       \* [trip]: how often confirm was called
  regionActive    \* [region]: the safety agent's own view of the gate

clientVars == <<confirms, regionActive>>
vars == <<restateVars, tripVars, locationsVars, dispatchVars, clientVars>>

Init ==
  /\ RestateInit
  /\ TripInit
  /\ LocationsInit
  /\ DispatchInit
  /\ confirms = [t \in Trips |-> 0]
  /\ regionActive = [r \in Regions |-> TRUE]

TypeOK ==
  /\ RestateTypeOK
  /\ TripTypeOK
  /\ LocationsTypeOK
  /\ DispatchTypeOK
  /\ confirms \in [Trips -> Nat]
  /\ regionActive \in [Regions -> BOOLEAN]

-----------------------------------------------------------------------------
(* Riders and operators.                                                   *)

\* RiderSim and the dashboard make up a new trip_id for each request.
RiderRequests(t, r) ==
  /\ tripStatus[t] = "none"
  /\ RequestRide(t, r)
  /\ UNCHANGED <<locationsVars, dispatchVars, clientVars>>

OffersAnswers(t) ==
  /\ QuoteReturned(t)
  /\ UNCHANGED <<locationsVars, dispatchVars, clientVars>>

RiderConfirms(t) ==
  /\ confirms[t] < MaxConfirms
  /\ Confirm(t)
  /\ confirms' = [confirms EXCEPT ![t] = @ + 1]
  /\ UNCHANGED <<locationsVars, dispatchVars, regionActive>>

ConfirmResumes(t) ==
  /\ MatchArrives(t)
  /\ UNCHANGED <<locationsVars, dispatchVars, clientVars>>

RideTimerFires(t) ==
  /\ RideEnds(t)
  /\ UNCHANGED <<locationsVars, dispatchVars, clientVars>>

OperatorCompletes(t) ==
  /\ "complete" \in Extras
  /\ tripStatus[t] # "none"
  /\ Complete(t)
  /\ UNCHANGED <<locationsVars, dispatchVars, clientVars>>

OperatorCancels(t) ==
  /\ "cancel" \in Extras
  /\ tripStatus[t] # "none"
  /\ Cancel(t)
  /\ UNCHANGED <<locationsVars, dispatchVars, clientVars>>

-----------------------------------------------------------------------------
(* Drivers.                                                                *)

RestOfLocations ==
  UNCHANGED <<tripToDispatch, tripToLocations, agentToDispatch, awakeable,
              tripVars, dispatchVars, clientVars>>

\* DriverSim.start, or scripts/setup-region.sh.
DriverGoesOnline(d, r) ==
  /\ r \in Home[d]
  /\ driverStatus[d] = "offline"
  /\ SetStatus(d, "idle", r)
  /\ RestOfLocations

\* The same call made for a driver that is online already.
OperatorForcesIdle(d, r) ==
  /\ "force_idle" \in Extras
  /\ r \in Home[d]
  /\ driverStatus[d] # "offline"
  /\ Len(locationsToDispatch[d][r]) < MaxBacklog
  /\ SetStatus(d, "idle", r)
  /\ RestOfLocations

DriverGoesOffline(d) ==
  /\ "offline" \in Extras
  /\ driverStatus[d] # "offline"
  /\ \A r \in Regions : Len(locationsToDispatch[d][r]) < MaxBacklog
  /\ SetStatus(d, "offline", NoRegion)
  /\ RestOfLocations

DriverPings(d) ==
  /\ Ping(d)
  /\ UNCHANGED <<restateVars, tripVars, dispatchVars, clientVars>>

LocationsTakesAcceptTrip(t, d) ==
  /\ Arrived(tripToLocations, t, d, AcceptTripMsg)
  /\ tripToLocations' = Take(tripToLocations, t, d)
  /\ AcceptTrip(d, t)
  /\ UNCHANGED <<tripToDispatch, agentToDispatch, awakeable,
                 tripVars, dispatchVars, clientVars>>

LocationsTakesSetStatus(t, d, r) ==
  /\ Arrived(tripToLocations, t, d, SetIdleMsg(r))
  /\ tripToLocations' = Take(tripToLocations, t, d)
  /\ SetStatus(d, "idle", r)
  /\ UNCHANGED <<tripToDispatch, agentToDispatch, awakeable,
                 tripVars, dispatchVars, clientVars>>

-----------------------------------------------------------------------------
(* The safety agent, reduced to what SafetyAgent shows it to implement: it *)
(* closes an open gate, and opens it on the verdict approve or on          *)
(* force_resume.                                                           *)

Gate == INSTANCE HaltGate

RestOfAgent ==
  UNCHANGED <<tripToDispatch, tripToLocations, locationsToDispatch, awakeable,
              tripVars, locationsVars, dispatchVars, confirms>>

AgentHalts(r) ==
  /\ "halt" \in Extras
  /\ Len(agentToDispatch[r]) < MaxBacklog
  /\ Gate!Halt(r)
  /\ RestOfAgent

AgentResumes(r) ==
  /\ "halt" \in Extras
  /\ Len(agentToDispatch[r]) < MaxBacklog
  /\ Gate!Resume(r)
  /\ RestOfAgent

-----------------------------------------------------------------------------
(* Dispatch.                                                               *)

RestOfDispatch == UNCHANGED <<tripVars, locationsVars, clientVars>>

DispatchTakesTrip(t, r) ==
  /\ Arrived(tripToDispatch, t, r, "enqueue_trip")
  /\ tripToDispatch' = Take(tripToDispatch, t, r)
  /\ EnqueueTrip(r, t)
  /\ UNCHANGED <<tripToLocations, locationsToDispatch, agentToDispatch, awakeable>>
  /\ RestOfDispatch

DispatchTakesCompletion(t, r) ==
  /\ Arrived(tripToDispatch, t, r, "note_completion")
  /\ tripToDispatch' = Take(tripToDispatch, t, r)
  /\ NoteCompletion(r)
  /\ UNCHANGED <<tripToLocations, locationsToDispatch, agentToDispatch, awakeable>>
  /\ RestOfDispatch

DispatchTakesDriver(d, r) ==
  /\ \/ /\ Arrived(locationsToDispatch, d, r, "register_driver")
        /\ RegisterDriver(r, d)
     \/ /\ Arrived(locationsToDispatch, d, r, "deregister_driver")
        /\ DeregisterDriver(r, d)
  /\ locationsToDispatch' = Take(locationsToDispatch, d, r)
  /\ UNCHANGED <<tripToDispatch, tripToLocations, agentToDispatch, awakeable>>
  /\ RestOfDispatch

DispatchTakesSetActive(r) ==
  /\ agentToDispatch[r] # << >>
  /\ SetActive(r, Head(agentToDispatch[r]))
  /\ agentToDispatch' = [agentToDispatch EXCEPT ![r] = Tail(@)]
  /\ UNCHANGED <<tripToDispatch, tripToLocations, locationsToDispatch, awakeable>>
  /\ RestOfDispatch

\* Every match made in region r has reached its driver.
MatchesDelivered(r) ==
  \A t \in Trips : tripRegion[t] = r =>
    /\ ~ (tripHolder[t] = "confirm" /\ awakeable[t] # NoDriver)
    /\ \A d \in Drivers : ~ InFlight(tripToLocations, t, d, AcceptTripMsg)

EpochSkipped(r) ==
  /\ CloseEpochHalted(r)
  /\ UNCHANGED restateVars
  /\ RestOfDispatch

EpochBegins(r) ==
  /\ AcceptBeatsEpoch => MatchesDelivered(r)
  /\ CloseEpochBegin(r)
  /\ UNCHANGED restateVars
  /\ RestOfDispatch

EpochReads(r, d) ==
  /\ ReadPosition(r, d, Matchable(d))
  /\ UNCHANGED restateVars
  /\ RestOfDispatch

EpochMatches(r) ==
  /\ CloseEpochMatch(r)
  /\ UNCHANGED channels
  /\ RestOfDispatch

-----------------------------------------------------------------------------
TripStep(t) ==
  \/ \E r \in Regions : RiderRequests(t, r)
  \/ OffersAnswers(t)
  \/ RiderConfirms(t)
  \/ ConfirmResumes(t)
  \/ RideTimerFires(t)
  \/ OperatorCompletes(t)
  \/ OperatorCancels(t)

DriverStep(d) ==
  \/ \E r \in Regions : DriverGoesOnline(d, r) \/ OperatorForcesIdle(d, r)
  \/ DriverGoesOffline(d)
  \/ DriverPings(d)
  \/ \E t \in Trips : LocationsTakesAcceptTrip(t, d)
  \/ \E t \in Trips, r \in Regions : LocationsTakesSetStatus(t, d, r)

RegionStep(r) ==
  \/ AgentHalts(r)
  \/ AgentResumes(r)
  \/ \E t \in Trips : DispatchTakesTrip(t, r) \/ DispatchTakesCompletion(t, r)
  \/ \E d \in Drivers : DispatchTakesDriver(d, r)
  \/ DispatchTakesSetActive(r)
  \/ EpochSkipped(r)
  \/ EpochBegins(r)
  \/ \E d \in Drivers : EpochReads(r, d)
  \/ EpochMatches(r)

Next ==
  \/ \E t \in Trips : TripStep(t)
  \/ \E d \in Drivers : DriverStep(d)
  \/ \E r \in Regions : RegionStep(r)

Spec == Init /\ [][Next]_vars

-----------------------------------------------------------------------------
(* Fairness.  Restate runs every invocation it accepted, and an object's   *)
(* inbox is served in turn: a message for a key that is held again and     *)
(* again gets its turn, which is strong fairness.  The drivers' simulators *)
(* start and ping on durable timers of their own.  Riders, operators and   *)
(* the agent owe nothing.                                                  *)

TripFairness(t) ==
  /\ WF_vars(OffersAnswers(t))
  /\ WF_vars(ConfirmResumes(t))
  /\ SF_vars(RideTimerFires(t))

DriverFairness(d) ==
  /\ WF_vars(\E r \in Regions : DriverGoesOnline(d, r))
  /\ WF_vars(DriverPings(d))
  /\ \A t \in Trips : WF_vars(LocationsTakesAcceptTrip(t, d)
                              \/ \E r \in Regions : LocationsTakesSetStatus(t, d, r))

RegionFairness(r) ==
  /\ \A t \in Trips : SF_vars(DispatchTakesTrip(t, r) \/ DispatchTakesCompletion(t, r))
  /\ \A d \in Drivers : SF_vars(DispatchTakesDriver(d, r))
  /\ SF_vars(DispatchTakesSetActive(r))
  /\ WF_vars(EpochBegins(r))
  /\ WF_vars(\E d \in Drivers : EpochReads(r, d))
  /\ WF_vars(EpochMatches(r))

FairSpec ==
  /\ Spec
  /\ \A t \in Trips : TripFairness(t)
  /\ \A d \in Drivers : DriverFairness(d)
  /\ \A r \in Regions : RegionFairness(r)
==============================================================================
