-------------------------------- MODULE Trip ---------------------------------
(***************************************************************************)
(* services/trip.py: one Virtual Object per trip_id.                       *)
(*                                                                         *)
(* tripHolder is the exclusive invocation that holds the key while it      *)
(* awaits: request_ride during the call to Offers, confirm while it is     *)
(* suspended on its awakeable.  Every other exclusive handler waits for    *)
(* "none".  complete and cancel await nothing but their own state and are  *)
(* one step each.                                                          *)
(*                                                                         *)
(* The offer, rider, places and multiplier are data no step branches on    *)
(* and are left out, with the note_demand and record_event messages that   *)
(* go to Pricing and Features.                                             *)
(***************************************************************************)
EXTENDS Restate

VARIABLES
  tripStatus,      \* "none" before request_ride, then TripStatus
  tripRegion,
  assignedDriver,
  tripHolder,
  completeTimer    \* number of delayed self-sends of complete outstanding

tripVars == <<tripStatus, tripRegion, assignedDriver, tripHolder, completeTimer>>

TripStatus ==
  {"none", "requested", "quoted", "dispatching", "assigned", "completed", "cancelled"}

TripInit ==
  /\ tripStatus = [t \in Trips |-> "none"]
  /\ tripRegion = [t \in Trips |-> NoRegion]
  /\ assignedDriver = [t \in Trips |-> NoDriver]
  /\ tripHolder = [t \in Trips |-> "none"]
  /\ completeTimer = [t \in Trips |-> 0]

TripTypeOK ==
  /\ tripStatus \in [Trips -> TripStatus]
  /\ tripRegion \in [Trips -> Regions \cup {NoRegion}]
  /\ assignedDriver \in [Trips -> Drivers \cup {NoDriver}]
  /\ tripHolder \in [Trips -> {"none", "request_ride", "confirm"}]
  /\ completeTimer \in [Trips -> Nat]

\* Restate runs an exclusive handler of trip t only when no other one holds it.
KeyFree(t) == tripHolder[t] = "none"

-----------------------------------------------------------------------------
\* request_ride up to its await on Offers.generate.
RequestRide(t, r) ==
  /\ KeyFree(t)
  /\ tripHolder' = [tripHolder EXCEPT ![t] = "request_ride"]
  /\ tripRegion' = [tripRegion EXCEPT ![t] = r]
  /\ tripStatus' = [tripStatus EXCEPT ![t] = "requested"]
  /\ UNCHANGED <<assignedDriver, completeTimer, restateVars>>

\* The bundle of offers comes back.
QuoteReturned(t) ==
  /\ tripHolder[t] = "request_ride"
  /\ tripStatus' = [tripStatus EXCEPT ![t] = "quoted"]
  /\ tripHolder' = [tripHolder EXCEPT ![t] = "none"]
  /\ UNCHANGED <<tripRegion, assignedDriver, completeTimer, restateVars>>

-----------------------------------------------------------------------------
\* The only precondition confirm checks: the trip was quoted at some time.
WasQuoted(t) == tripRegion[t] # NoRegion

\* confirm up to its suspension: a fresh awakeable travels to Dispatch.
\* An unquoted trip is a TerminalError, which changes nothing.
Confirm(t) ==
  /\ KeyFree(t)
  /\ WasQuoted(t)
  /\ tripStatus' = [tripStatus EXCEPT ![t] = "dispatching"]
  /\ awakeable' = [awakeable EXCEPT ![t] = NoDriver]
  /\ tripToDispatch' = Send(tripToDispatch, t, tripRegion[t], "enqueue_trip")
  /\ tripHolder' = [tripHolder EXCEPT ![t] = "confirm"]
  /\ UNCHANGED <<tripRegion, assignedDriver, completeTimer,
                 tripToLocations, locationsToDispatch, agentToDispatch>>

\* The ride starts: the driver is told and the end of the ride is scheduled.
StartRide(t, d) ==
  /\ tripToLocations' = Send(tripToLocations, t, d, AcceptTripMsg)
  /\ completeTimer' = [completeTimer EXCEPT ![t] = @ + 1]

\* confirm resumes with the driver its awakeable was resolved with.
MatchArrives(t) ==
  /\ tripHolder[t] = "confirm"
  /\ awakeable[t] # NoDriver
  /\ assignedDriver' = [assignedDriver EXCEPT ![t] = awakeable[t]]
  /\ tripStatus' = [tripStatus EXCEPT ![t] = "assigned"]
  /\ tripHolder' = [tripHolder EXCEPT ![t] = "none"]
  /\ StartRide(t, awakeable[t])
  /\ UNCHANGED <<tripRegion, awakeable,
                 tripToDispatch, locationsToDispatch, agentToDispatch>>

-----------------------------------------------------------------------------
\* Mutants of Over: complete tests for one of the two final states only.
OverIfCompleted(t) == tripStatus[t] = "completed"
OverIfCancelled(t) == tripStatus[t] = "cancelled"

Over(t) == tripStatus[t] \in {"completed", "cancelled"}

\* Mutants of FreeDriver: the message lacks its region, or is not sent.
FreeDriverWithoutRegion(t) ==
  IF assignedDriver[t] # NoDriver
  THEN Send(tripToLocations, t, assignedDriver[t], SetIdleMsg(NoRegion))
  ELSE tripToLocations
FreeDriverForgotten(t) == tripToLocations

\* complete sends the assigned driver, if there is one, back to idle.
FreeDriver(t) ==
  IF assignedDriver[t] # NoDriver /\ tripRegion[t] # NoRegion
  THEN Send(tripToLocations, t, assignedDriver[t], SetIdleMsg(tripRegion[t]))
  ELSE tripToLocations

\* Mutant of CountCompletion: Dispatch is not told.
CountCompletionForgotten(t) == tripToDispatch

CountCompletion(t) ==
  IF tripRegion[t] # NoRegion
  THEN Send(tripToDispatch, t, tripRegion[t], "note_completion")
  ELSE tripToDispatch

\* What complete does, from whatever source it was called.
FinishRide(t) ==
  /\ tripStatus' = [tripStatus EXCEPT ![t] = IF Over(t) THEN @ ELSE "completed"]
  /\ tripToLocations' = IF Over(t) THEN tripToLocations ELSE FreeDriver(t)
  /\ tripToDispatch' = IF Over(t) THEN tripToDispatch ELSE CountCompletion(t)
  /\ UNCHANGED <<tripRegion, assignedDriver, tripHolder,
                 locationsToDispatch, agentToDispatch, awakeable>>

\* complete, called by an operator (scripts/complete-trip.sh).
Complete(t) ==
  /\ KeyFree(t)
  /\ FinishRide(t)
  /\ UNCHANGED completeTimer

\* complete, sent by confirm to its own trip with a delay of RIDE_DURATION.
RideEnds(t) ==
  /\ completeTimer[t] > 0
  /\ KeyFree(t)
  /\ completeTimer' = [completeTimer EXCEPT ![t] = @ - 1]
  /\ FinishRide(t)

Cancel(t) ==
  /\ KeyFree(t)
  /\ tripStatus' = [tripStatus EXCEPT ![t] = "cancelled"]
  /\ UNCHANGED <<tripRegion, assignedDriver, tripHolder, completeTimer, restateVars>>
==============================================================================
