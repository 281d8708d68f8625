-------------------------- MODULE RideCoProperties ---------------------------
(***************************************************************************)
(* What the matching core of RideCo is expected to guarantee.              *)
(***************************************************************************)
EXTENDS RideCo

-----------------------------------------------------------------------------
(* The cadence loop of a region.                                           *)

\* Exactly one close_epoch is scheduled or executing while loop_running is
\* set, and none otherwise: the loop neither dies nor forks, whatever the
\* order of enqueues, halts and idle rounds (dispatch.py, loop_running).
EpochLoop ==
  \A r \in Regions :
    epochTimer[r] + (IF epochRunning[r] THEN 1 ELSE 0) = (IF loopRunning[r] THEN 1 ELSE 0)

\* A trip that Dispatch holds is served by a running loop: has_more_work never
\* stops the loop over a trip that waits.
NoStrandedTrip == \A r \in Regions : pending[r] # << >> => loopRunning[r]

-----------------------------------------------------------------------------
(* The awakeable of a suspended confirm.                                   *)

Waiting(t) == tripHolder[t] = "confirm" /\ awakeable[t] = NoDriver

\* The positions of x in a sequence.
Places(s, x) == {i \in 1..Len(s) : s[i] = x}

SentTo(t, r) == Places(tripToDispatch[t][r], "enqueue_trip")
QueuedIn(t, r) == Places(pending[r], t)

Singleton(S) == \E x \in S : S = {x}

TokenInOnePlace(t, r) ==
  IF Waiting(t) /\ r = tripRegion[t]
  THEN \/ Singleton(SentTo(t, r)) /\ QueuedIn(t, r) = {}
       \/ SentTo(t, r) = {} /\ Singleton(QueuedIn(t, r))
  ELSE SentTo(t, r) = {} /\ QueuedIn(t, r) = {}

\* The token of a confirm that waits is in one place, on its way to the trip's
\* region or once in that region's queue; nobody holds the token of a confirm
\* that was answered.  So a promise is resolved at most once, no waiting trip
\* is dropped between two rounds, and none is queued twice.
TokenConserved == \A t \in Trips, r \in Regions : TokenInOnePlace(t, r)

-----------------------------------------------------------------------------
(* The pool of idle drivers.                                               *)

\* The last thing Dispatch[r] was told about driver d, or will be.
InPoolEventually(d, r) ==
  LET news == locationsToDispatch[d][r]
  IN  IF news = << >> THEN d \in pool[r] ELSE news[Len(news)] = "register_driver"

\* Once the messages on their way have arrived, the pool of a region holds
\* exactly the drivers that are idle in it, however set_status, accept_trip
\* and the completions of several trips interleave (locations.py:60-69, 81-86).
PoolTracksStatus ==
  \A d \in Drivers, r \in Regions :
    InPoolEventually(d, r) <=> (driverStatus[d] = "idle" /\ driverRegion[d] = r)

-----------------------------------------------------------------------------
(* Bookings.                                                               *)

\* Trip t has been promised driver d and the ride is not over.
Booked(t, d) ==
  \/ tripHolder[t] = "confirm" /\ awakeable[t] = d
  \/ tripStatus[t] = "assigned" /\ assignedDriver[t] = d

\* A driver is promised to one trip at a time.
NoDoubleBooking ==
  \A d \in Drivers, t1, t2 \in Trips : Booked(t1, d) /\ Booked(t2, d) => t1 = t2

\* A driver on its way for a trip is not offered to another: "Pull the driver
\* out of the region's idle pool while they're driving" (locations.py:81).
DrivingDriverNotMatchable ==
  \A d \in Drivers, t \in Trips :
    /\ tripStatus[t] = "assigned"
    /\ assignedDriver[t] = d
    /\ ~ InFlight(tripToLocations, t, d, AcceptTripMsg)
    => ~ Matchable(d)

\* The end of a ride sends back to idle only the driver that is driving it.
FreesItsOwnDriver ==
  \A t \in Trips, d \in Drivers, r \in Regions :
    Arrived(tripToLocations, t, d, SetIdleMsg(r)) =>
      driverStatus[d] = "en_route" /\ currentTrip[d] = t

\* in_flight of the inspector is the number of trips that were matched and
\* whose completion Dispatch has not counted yet (dispatch.py:46-54).
CompletionsInFlight(r) ==
  {t \in Trips : InFlight(tripToDispatch, t, r, "note_completion")}
RidesUnderWay(r) ==
  {t \in Trips : tripRegion[t] = r /\ awakeable[t] # NoDriver /\ tripStatus[t] # "completed"}
InFlightAccounting ==
  \A r \in Regions :
    InFlightReported(r) = Cardinality(RidesUnderWay(r)) + Cardinality(CompletionsInFlight(r))

-----------------------------------------------------------------------------
(* Halting a region.                                                       *)

\* A round that matches is never executing while the region is halted.
NoRoundWhileHalted == \A r \in Regions : epochRunning[r] => active[r]

\* While a region is halted its trips stay queued, in order, and its loop goes
\* on ("trips stay queued", dispatch.py:14; "keep the cadence loop running").
HaltedRegionKeepsItsTrips ==
  [][\A r \in Regions : ~ active[r] =>
       /\ Len(pending[r]) <= Len(pending'[r])
       /\ \A i \in 1..Len(pending[r]) : pending'[r][i] = pending[r][i]
       /\ loopRunning[r] => loopRunning'[r]]_vars

-----------------------------------------------------------------------------
(* Terminal states.                                                        *)

\* A trip that is over stays over as long as nobody confirms or cancels it:
\* neither its ride timer nor a late match brings it back or ends it again.
OverUnlessCalled ==
  [][\A t \in Trips :
       /\ tripStatus[t] \in {"completed", "cancelled"}
       /\ tripStatus'[t] # tripStatus[t]
       => confirms'[t] > confirms[t] \/ tripStatus'[t] = "cancelled"]_vars

-----------------------------------------------------------------------------
(* Progress.                                                               *)

\* A driver that took a trip comes back: the delayed complete "closes out the
\* trip and flips the driver back to idle" (trip.py:36-39).
DriverReturns ==
  \A d \in Drivers : driverStatus[d] = "en_route" ~> driverStatus[d] = "idle"

\* Every confirm returns once its region stays open: the trip is queued, survives
\* the halts and the rounds that have no driver for it, and its suspended
\* invocation is woken (dispatch.py:14-16, trip.py:131, README.md:411-413).
BacklogDrainsOnResume ==
  \A t \in Trips, r \in Regions :
    <>[](active[r]) =>
      (tripRegion[t] = r /\ tripHolder[t] = "confirm" ~> tripHolder[t] # "confirm")

-----------------------------------------------------------------------------
(* Refinement.  Under AcceptBeatsEpoch the services implement Matchmaking:   *)
(* a trip waits while its promise is open and is booked until its ride ends. *)

BookedDriver(t) ==
  IF \E d \in Drivers : Booked(t, d) THEN CHOOSE d \in Drivers : Booked(t, d) ELSE NoDriver

Abstract == INSTANCE Matchmaking WITH
  waiting <- {t \in Trips : Waiting(t)},
  booked <- [t \in Trips |-> BookedDriver(t)]

\* The composed services promise what Matchmaking promises: each round serves
\* riders who wait, with drivers that no ride in progress has.
ImplementsMatchmaking == Abstract!MatchmakingSpec
==============================================================================
