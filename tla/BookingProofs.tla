---------------------------- MODULE BookingProofs ----------------------------
(***************************************************************************)
(* The bookings of drivers, the refinement of Matchmaking and the count of *)
(* rides in flight, for any trips, drivers and regions.                    *)
(***************************************************************************)
EXTENDS PoolProofs, FunctionTheorems

\* A match reaches its driver before the next round of its region, a driver has
\* one home, and nobody but its own simulator tells a driver its status.
Timely ==
  /\ AcceptBeatsEpoch
  /\ OneHome
  /\ Extras \subseteq {"cancel", "complete", "halt"}

-----------------------------------------------------------------------------
(* Engagements.  A trip engages a driver from the match until the driver    *)
(* took the message that ends the ride.                                     *)

Promised(t, d) == tripHolder[t] = "confirm" /\ awakeable[t] = d
Riding(t, d) == tripStatus[t] = "assigned" /\ assignedDriver[t] = d
Drives(t, d) == driverStatus[d] = "en_route" /\ currentTrip[d] = t

Engaged(t, d) ==
  \/ Promised(t, d)
  \/ Riding(t, d)
  \/ Drives(t, d)
  \/ tripToLocations[t][d] # << >>

\* What is on its way from trip t to driver d: the start of the ride, its end, or
\* both in that order, as far as the driver did not take them.
InboxFits(t, d) ==
  LET inbox == tripToLocations[t][d]
  IN  \/ inbox = << >>
      \/ driverStatus[d] = "idle" /\ inbox = <<AcceptTripMsg>>
      \/ driverStatus[d] = "idle" /\ \E r \in Regions : inbox = <<AcceptTripMsg, SetIdleMsg(r)>>
      \/ Drives(t, d) /\ \E r \in Regions : inbox = <<SetIdleMsg(r)>>

RideFits(t, d) ==
  /\ InboxFits(t, d)
  /\ Promised(t, d) => driverStatus[d] = "idle" /\ tripToLocations[t][d] = << >>
  /\ Riding(t, d) => \/ driverStatus[d] = "idle" /\ tripToLocations[t][d] = <<AcceptTripMsg>>
                     \/ Drives(t, d) /\ tripToLocations[t][d] = << >>
  /\ tripToLocations[t][d] # << >> => tripRegion[t] \in Home[d]

\* A driver that a round may still match is idle and has nothing to do.
RoundIsFair(r) ==
  epochRunning[r] =>
    /\ MatchesDelivered(r)
    /\ \A d \in idle[r] : driverStatus[d] = "idle" /\ \A t \in Trips : ~ Engaged(t, d)

\* A trip that is dispatching holds its key; one that is not yet has no driver.
PhaseFits(t) ==
  /\ tripStatus[t] = "dispatching" => tripHolder[t] = "confirm"
  /\ tripStatus[t] \in {"none", "requested", "quoted"} => assignedDriver[t] = NoDriver

RidesFit == \A t \in Trips, d \in Drivers : RideFits(t, d)
Exclusive == \A d \in Drivers, t, u \in Trips : Engaged(t, d) /\ Engaged(u, d) => t = u
RoundsAreFair == \A r \in Regions : RoundIsFair(r)
PhasesFit == \A t \in Trips : PhaseFits(t)

BookingInv == RidesFit /\ Exclusive /\ RoundsAreFair /\ PhasesFit

\* The match of trip t did not reach its driver yet.
Undelivered(t) ==
  \/ tripHolder[t] = "confirm" /\ awakeable[t] # NoDriver
  \/ \E d \in Drivers : InFlight(tripToLocations, t, d, AcceptTripMsg)

\* Matches of a region are delivered when none of its trips has one under way.
LEMMA DeliveredIs ==
  ASSUME NEW r \in Regions
  PROVE  MatchesDelivered(r) <=> \A t \in Trips : tripRegion[t] = r => ~ Undelivered(t)
  BY DEF MatchesDelivered, Undelivered

\* The start of a ride is no end of one.
LEMMA MessagesDiffer ==
  ASSUME NEW r
  PROVE  AcceptTripMsg # SetIdleMsg(r)
  BY DEF AcceptTripMsg, SetIdleMsg

\* What a message added to none, or to one, makes.
LEMMA AppendShort ==
  ASSUME NEW S, NEW a \in S, NEW m \in S
  PROVE  Append(<< >>, m) = <<m>> /\ Append(<<a>>, m) = <<a, m>>
  <1>1. Append(<< >>, m) = <<m>>
    OBVIOUS
  <1> DEFINE s == Append(<<a>>, m)
             u == <<a, m>>
  <1>2. s \in Seq(S) /\ Len(s) = 2 /\ s[1] = a /\ s[2] = m
    OBVIOUS
  <1>3. u \in Seq(S) /\ Len(u) = 2 /\ u[1] = a /\ u[2] = m
    OBVIOUS
  <1>4. \A i \in 1..2 : s[i] = u[i]
    BY <1>2, <1>3
  <1> HIDE DEF s, u
  <1>5. s = u
    BY <1>2, <1>3, <1>4, SeqEqual
  <1> QED  BY <1>1, <1>5 DEF s, u

\* A step that changes nothing between a trip and a driver but to end a promise
\* or a ride keeps what fits.
LEMMA RideFrame ==
  ASSUME NEW t \in Trips, NEW d \in Drivers, RideFits(t, d),
         tripToLocations'[t][d] = tripToLocations[t][d],
         driverStatus'[d] = driverStatus[d], currentTrip'[d] = currentTrip[d],
         tripToLocations[t][d] # << >> => tripRegion'[t] = tripRegion[t],
         Promised(t, d)' => Promised(t, d),
         Riding(t, d)' => Riding(t, d)
  PROVE  RideFits(t, d)' /\ (Engaged(t, d)' => Engaged(t, d))
  BY DEF RideFits, InboxFits, Drives, Engaged

\* If no trip engages a driver that did not engage it before, drivers stay exclusive.
LEMMA ExclusiveFrame ==
  ASSUME Exclusive, \A t \in Trips, d \in Drivers : Engaged(t, d)' => Engaged(t, d)
  PROVE  Exclusive'
  BY DEF Exclusive

\* A round stays fair while nothing is sent in its region and its drivers stay free.
LEMMA RoundFrame ==
  ASSUME NEW r \in Regions, RoundIsFair(r),
         epochRunning'[r] => epochRunning[r], idle'[r] \subseteq idle[r],
         \A d \in idle[r] : driverStatus'[d] = driverStatus[d],
         \A d \in idle[r], t \in Trips : Engaged(t, d)' => Engaged(t, d),
         \A t \in Trips : tripRegion'[t] = r /\ Undelivered(t)' =>
                            tripRegion[t] = r /\ Undelivered(t)
  PROVE  RoundIsFair(r)'
  <1> SUFFICES ASSUME epochRunning'[r]
               PROVE  /\ MatchesDelivered(r)'
                      /\ \A d \in idle'[r] : driverStatus'[d] = "idle" /\ \A t \in Trips : ~ Engaged(t, d)'
    BY DEF RoundIsFair
  <1>1. MatchesDelivered(r)'
    BY DeliveredIs DEF RoundIsFair, MatchesDelivered, Undelivered
  <1>2. \A d \in idle'[r] : driverStatus'[d] = "idle" /\ \A t \in Trips : ~ Engaged(t, d)'
    BY DEF RoundIsFair
  <1> QED  BY <1>1, <1>2

-----------------------------------------------------------------------------
(* BookingInv is inductive.                                                *)

\* A step that changes nothing BookingInv speaks of preserves it.
LEMMA BookingFrame ==
  ASSUME BookingInv,
         UNCHANGED <<driverStatus, currentTrip, tripToLocations, awakeable, tripVars, epochRunning, idle>>
  PROVE  BookingInv'
  <1>1. RidesFit'
    BY DEF BookingInv, RidesFit, RideFits, InboxFits, Promised, Riding, Drives, tripVars
  <1>2. Exclusive'
    BY DEF BookingInv, Exclusive, Engaged, Promised, Riding, Drives, tripVars
  <1>3. RoundsAreFair'
    BY DEF BookingInv, RoundsAreFair, RoundIsFair, MatchesDelivered, InFlight, Engaged, Promised,
       Riding, Drives, tripVars
  <1>4. PhasesFit'
    BY DEF BookingInv, PhasesFit, PhaseFits, tripVars
  <1> QED  BY <1>1, <1>2, <1>3, <1>4 DEF BookingInv

\* Steps of a trip that send no driver anything.
LEMMA SilentTripStep ==
  ASSUME TypeOK, HomeInv, TripPhase, BookingInv, NEW t \in Trips,
         \/ \E r \in Regions : RiderRequests(t, r)
         \/ OffersAnswers(t) \/ RiderConfirms(t) \/ OperatorCancels(t)
  PROVE  BookingInv'
  <1> USE NamesAreDistinct, ClientAssumptions
  <1>0. /\ tripStatus \in [Trips -> TripStatus]
        /\ tripHolder \in [Trips -> {"none", "request_ride", "confirm"}]
        /\ tripRegion \in [Trips -> Regions \cup {NoRegion}]
        /\ awakeable \in [Trips -> Drivers \cup {NoDriver}]
        /\ tripToLocations \in [Trips -> [Drivers -> Seq(LocationsMsgs)]]
    BY DEF TypeOK, TripTypeOK, RestateTypeOK
  <1>1. UNCHANGED <<tripToLocations, assignedDriver, locationsVars, dispatchVars>>
    BY DEF RiderRequests, RequestRide, OffersAnswers, QuoteReturned, RiderConfirms, Confirm,
       OperatorCancels, Cancel, restateVars, channels
  <1> DEFINE Quiet(u) ==
               /\ \/ tripRegion'[u] = tripRegion[u]
                  \/ tripRegion[u] = NoRegion /\ tripHolder'[u] = "request_ride"
               /\ awakeable'[u] = awakeable[u] \/ awakeable'[u] = NoDriver
               /\ tripHolder'[u] = "confirm" => tripHolder[u] = "confirm" \/ awakeable'[u] = NoDriver
               /\ tripStatus'[u] = "assigned" => tripStatus[u] = "assigned"
  <1>2. ASSUME NEW u \in Trips PROVE Quiet(u) /\ PhaseFits(u)'
    <2>0. PhaseFits(u) /\ MatchIsLocal(u)
      BY DEF BookingInv, PhasesFit, HomeInv, MatchesAreLocal
    <2>1. ASSUME NEW r \in Regions, RiderRequests(t, r) PROVE Quiet(u) /\ PhaseFits(u)'
      BY <1>0, <2>0, <2>1 DEF RiderRequests, RequestRide, restateVars, PhaseFits, MatchIsLocal
    <2>2. CASE OffersAnswers(t)
      <3>1. tripStatus[t] = "requested"
        BY <2>2 DEF OffersAnswers, QuoteReturned, TripPhase
      <3> QED
        BY <1>0, <2>0, <2>2, <3>1 DEF OffersAnswers, QuoteReturned, restateVars, PhaseFits
    <2>3. CASE RiderConfirms(t)
      BY <1>0, <2>0, <2>3 DEF RiderConfirms, Confirm, PhaseFits
    <2>4. CASE OperatorCancels(t)
      BY <1>0, <2>0, <2>4 DEF OperatorCancels, Cancel, restateVars, PhaseFits
    <2> QED  BY <2>1, <2>2, <2>3, <2>4
  <1>3. ASSUME NEW u \in Trips, NEW d \in Drivers
        PROVE  RideFits(u, d)' /\ (Engaged(u, d)' => Engaged(u, d))
    <2>1. RideFits(u, d)
      BY DEF BookingInv, RidesFit
    <2>2. /\ tripToLocations'[u][d] = tripToLocations[u][d]
          /\ driverStatus'[d] = driverStatus[d] /\ currentTrip'[d] = currentTrip[d]
      BY <1>1 DEF locationsVars
    <2>3. tripToLocations[u][d] # << >> => tripRegion'[u] = tripRegion[u]
      BY <1>2, <2>1 DEF RideFits
    <2>4. (Promised(u, d)' => Promised(u, d)) /\ (Riding(u, d)' => Riding(u, d))
      BY <1>1, <1>2 DEF Promised, Riding
    <2> QED  BY <2>1, <2>2, <2>3, <2>4, RideFrame
  <1>4. ASSUME NEW r \in Regions PROVE RoundIsFair(r)'
    <2>1. RoundIsFair(r) /\ idle[r] \subseteq Drivers
      BY DEF BookingInv, RoundsAreFair, TypeOK, DispatchTypeOK
    <2>2. epochRunning' = epochRunning /\ idle' = idle /\ driverStatus' = driverStatus
      BY <1>1 DEF dispatchVars, epochVars, locationsVars
    <2>3. ASSUME NEW u \in Trips, tripRegion'[u] = r, Undelivered(u)'
          PROVE  tripRegion[u] = r /\ Undelivered(u)
      <3>1. CASE tripHolder'[u] = "confirm" /\ awakeable'[u] # NoDriver
        BY <1>2, <2>3, <3>1 DEF Undelivered
      <3>2. ASSUME NEW d \in Drivers, InFlight(tripToLocations, u, d, AcceptTripMsg)'
            PROVE  tripRegion[u] = r /\ Undelivered(u)
        <4>1. InFlight(tripToLocations, u, d, AcceptTripMsg)
          BY <1>1, <3>2 DEF InFlight
        <4>2. tripToLocations[u][d] # << >>
          BY <4>1 DEF InFlight
        <4>3. tripRegion[u] # NoRegion
          BY <4>2 DEF BookingInv, RidesFit, RideFits
        <4> QED  BY <1>2, <2>3, <4>1, <4>3 DEF Undelivered
      <3> QED  BY <2>3, <3>1, <3>2 DEF Undelivered
    <2> QED  BY <1>3, <2>1, <2>2, <2>3, RoundFrame
  <1> QED
    BY <1>2, <1>3, <1>4, ExclusiveFrame DEF BookingInv, RidesFit, RoundsAreFair, PhasesFit

\* A step that sends a driver m and changes no driver leaves every other
\* driver's messages alone.
LEMMA SendIs ==
  ASSUME TypeOK, NEW t \in Trips, NEW e \in Drivers, NEW m \in LocationsMsgs,
         tripToLocations' = Send(tripToLocations, t, e, m)
  PROVE  /\ tripToLocations'[t][e] = Append(tripToLocations[t][e], m)
         /\ \A u \in Trips, d \in Drivers :
              u # t \/ d # e => tripToLocations'[u][d] = tripToLocations[u][d]
  BY DEF TypeOK, RestateTypeOK, Send

\* The ride of the promised driver starts.
LEMMA ConfirmResumesFits ==
  ASSUME TypeOK, HomeInv, TripPhase, BookingInv, NEW t \in Trips, ConfirmResumes(t)
  PROVE  BookingInv'
  <1> USE NamesAreDistinct, ClientAssumptions
  <1>0. /\ tripStatus \in [Trips -> TripStatus]
        /\ tripHolder \in [Trips -> {"none", "request_ride", "confirm"}]
        /\ assignedDriver \in [Trips -> Drivers \cup {NoDriver}]
        /\ awakeable \in [Trips -> Drivers \cup {NoDriver}]
        /\ tripToLocations \in [Trips -> [Drivers -> Seq(LocationsMsgs)]]
    BY DEF TypeOK, TripTypeOK, RestateTypeOK
  <1>p. PICK e \in Drivers : awakeable[t] = e
    BY <1>0 DEF ConfirmResumes, MatchArrives
  <1>1. /\ UNCHANGED <<tripRegion, awakeable, locationsVars, dispatchVars>>
        /\ tripHolder' = [tripHolder EXCEPT ![t] = "none"]
        /\ tripStatus' = [tripStatus EXCEPT ![t] = "assigned"]
        /\ assignedDriver' = [assignedDriver EXCEPT ![t] = e]
        /\ Promised(t, e)
        /\ tripToLocations' = Send(tripToLocations, t, e, AcceptTripMsg)
    BY <1>p DEF ConfirmResumes, MatchArrives, StartRide, Promised
  <1>2. AcceptTripMsg \in LocationsMsgs
    BY DEF LocationsMsgs
  <1>3. /\ tripToLocations'[t][e] = Append(tripToLocations[t][e], AcceptTripMsg)
        /\ \A u \in Trips, d \in Drivers :
             u # t \/ d # e => tripToLocations'[u][d] = tripToLocations[u][d]
    BY <1>1, <1>2, SendIs
  <1>4. RideFits(t, e) /\ tripToLocations[t][e] = << >> /\ driverStatus[e] = "idle"
    BY <1>1 DEF BookingInv, RidesFit, RideFits
  <1>5. tripToLocations'[t][e] = <<AcceptTripMsg>>
    BY <1>3, <1>4
  <1>6. tripRegion[t] \in Home[e]
    BY <1>1 DEF HomeInv, MatchesAreLocal, MatchIsLocal, Promised
  <1>7. ASSUME NEW u \in Trips, NEW d \in Drivers
        PROVE  RideFits(u, d)' /\ (Engaged(u, d)' => Engaged(u, d))
    <2>0. RideFits(u, d)
      BY DEF BookingInv, RidesFit
    <2>1. driverStatus' = driverStatus /\ currentTrip' = currentTrip
      BY <1>1 DEF locationsVars
    <2>2. CASE u = t /\ d = e
      <3>1. ~ Promised(t, e)'
        BY <1>0, <1>1 DEF Promised
      <3>2. Engaged(t, e)
        BY <1>1 DEF Engaged
      <3> QED  BY <1>1, <1>4, <1>5, <1>6, <2>1, <2>2, <3>1, <3>2 DEF RideFits, InboxFits
    <2>3. CASE ~ (u = t /\ d = e)
      <3>1. tripToLocations'[u][d] = tripToLocations[u][d]
        BY <1>3, <2>3
      <3>2. (Promised(u, d)' => Promised(u, d)) /\ (Riding(u, d)' => Riding(u, d))
        BY <1>0, <1>1, <2>3 DEF Promised, Riding
      <3> QED  BY <1>1, <2>0, <2>1, <3>1, <3>2, RideFrame
    <2> QED  BY <2>2, <2>3
  <1>8. ASSUME NEW r \in Regions PROVE RoundIsFair(r)'
    <2>1. RoundIsFair(r) /\ idle[r] \subseteq Drivers
      BY DEF BookingInv, RoundsAreFair, TypeOK, DispatchTypeOK
    <2>2. epochRunning' = epochRunning /\ idle' = idle /\ driverStatus' = driverStatus
      BY <1>1 DEF dispatchVars, epochVars, locationsVars
    <2>3. ASSUME NEW u \in Trips, tripRegion'[u] = r, Undelivered(u)'
          PROVE  tripRegion[u] = r /\ Undelivered(u)
      <3>1. CASE u = t
        BY <1>1, <1>p, <2>3, <3>1 DEF Undelivered, Promised
      <3>2. CASE u # t
        <4>1. \A d \in Drivers : tripToLocations'[u][d] = tripToLocations[u][d]
          BY <1>3, <3>2
        <4> QED  BY <1>0, <1>1, <2>3, <3>2, <4>1 DEF Undelivered, InFlight
      <3> QED  BY <3>1, <3>2
    <2> QED  BY <1>7, <2>1, <2>2, <2>3, RoundFrame
  <1>9. PhasesFit'
    BY <1>0, <1>1 DEF BookingInv, PhasesFit, PhaseFits
  <1> QED
    BY <1>7, <1>8, <1>9, ExclusiveFrame DEF BookingInv, RidesFit, RoundsAreFair

\* The end of a ride is sent to the driver that drives or is about to.
LEMMA EndSentFits ==
  ASSUME NEW t \in Trips, NEW d \in Drivers, NEW r \in Regions, RideFits(t, d), Riding(t, d),
         ~ Riding(t, d)', ~ Promised(t, d)',
         tripToLocations'[t][d] = Append(tripToLocations[t][d], SetIdleMsg(r)),
         driverStatus'[d] = driverStatus[d], currentTrip'[d] = currentTrip[d],
         tripRegion'[t] \in Home[d]
  PROVE  /\ RideFits(t, d)'
         /\ Engaged(t, d)
         /\ InFlight(tripToLocations, t, d, AcceptTripMsg)' =>
              InFlight(tripToLocations, t, d, AcceptTripMsg)
  <1>1. \/ driverStatus[d] = "idle" /\ tripToLocations[t][d] = <<AcceptTripMsg>>
        \/ Drives(t, d) /\ tripToLocations[t][d] = << >>
    BY DEF RideFits
  <1>2. \/ /\ driverStatus[d] = "idle" /\ tripToLocations[t][d] = <<AcceptTripMsg>>
           /\ tripToLocations'[t][d] = <<AcceptTripMsg, SetIdleMsg(r)>>
        \/ Drives(t, d) /\ tripToLocations'[t][d] = <<SetIdleMsg(r)>>
    <2>1. /\ AcceptTripMsg \in LocationsMsgs /\ SetIdleMsg(r) \in LocationsMsgs
      BY DEF LocationsMsgs
    <2>2. /\ Append(<< >>, SetIdleMsg(r)) = <<SetIdleMsg(r)>>
          /\ Append(<<AcceptTripMsg>>, SetIdleMsg(r)) = <<AcceptTripMsg, SetIdleMsg(r)>>
      BY <2>1, AppendShort
    <2> QED  BY <1>1, <2>2
  <1>3. InboxFits(t, d)'
    BY <1>2 DEF InboxFits, Drives
  <1>4. RideFits(t, d)'
    BY <1>3 DEF RideFits
  <1>5. ASSUME tripToLocations'[t][d] = <<SetIdleMsg(r)>>
        PROVE  ~ InFlight(tripToLocations, t, d, AcceptTripMsg)'
    BY <1>5, MessagesDiffer DEF InFlight
  <1>6. ASSUME tripToLocations[t][d] = <<AcceptTripMsg>>
        PROVE  InFlight(tripToLocations, t, d, AcceptTripMsg)
    BY <1>6 DEF InFlight
  <1> QED  BY <1>2, <1>4, <1>5, <1>6 DEF Engaged

\* The ride ends, and its driver is told.
LEMMA FinishRideFits ==
  ASSUME TypeOK, HomeInv, TripPhase, BookingInv, NEW t \in Trips, KeyFree(t), FinishRide(t),
         UNCHANGED <<locationsVars, dispatchVars>>
  PROVE  BookingInv'
  <1> USE NamesAreDistinct, ClientAssumptions
  <1>0. /\ tripStatus \in [Trips -> TripStatus]
        /\ tripRegion \in [Trips -> Regions \cup {NoRegion}]
        /\ assignedDriver \in [Trips -> Drivers \cup {NoDriver}]
    BY DEF TypeOK, TripTypeOK
  <1>1. /\ UNCHANGED <<tripRegion, awakeable, tripHolder, assignedDriver>>
        /\ \A u \in Trips : tripStatus'[u] = tripStatus[u] \/ tripStatus'[u] = "completed"
        /\ UNCHANGED <<driverStatus, currentTrip, epochRunning, idle>>
    BY <1>0 DEF FinishRide, locationsVars, dispatchVars, epochVars
  <1>2. \/ tripToLocations' = tripToLocations
        \/ \E e \in Drivers, q \in Regions :
             /\ Riding(t, e) /\ tripStatus'[t] = "completed" /\ tripRegion[t] = q
             /\ tripToLocations' = Send(tripToLocations, t, e, SetIdleMsg(q))
    <2>1. CASE Over(t) \/ assignedDriver[t] = NoDriver \/ tripRegion[t] = NoRegion
      BY <2>1 DEF FinishRide, FreeDriver
    <2>2. CASE ~ Over(t) /\ assignedDriver[t] # NoDriver /\ tripRegion[t] # NoRegion
      <3>1. PhaseFits(t)
        BY DEF BookingInv, PhasesFit
      <3>2. tripStatus[t] = "assigned"
        BY <1>0, <2>2, <3>1 DEF KeyFree, PhaseFits, Over, TripStatus
      <3>3. /\ assignedDriver[t] \in Drivers /\ tripRegion[t] \in Regions
            /\ tripStatus'[t] = "completed"
            /\ Riding(t, assignedDriver[t])
            /\ tripToLocations' =
                 Send(tripToLocations, t, assignedDriver[t], SetIdleMsg(tripRegion[t]))
        BY <1>0, <2>2, <3>2 DEF FinishRide, FreeDriver, Riding
      <3> QED  BY <3>3
    <2> QED  BY <2>1, <2>2
  <1>3. ASSUME NEW u \in Trips, NEW d \in Drivers
        PROVE  /\ RideFits(u, d)'
               /\ Engaged(u, d)' => Engaged(u, d)
               /\ InFlight(tripToLocations, u, d, AcceptTripMsg)' =>
                    InFlight(tripToLocations, u, d, AcceptTripMsg)
    <2>0. RideFits(u, d) /\ MatchIsLocal(u)
      BY DEF BookingInv, RidesFit, HomeInv, MatchesAreLocal
    <2>1. (Promised(u, d)' => Promised(u, d)) /\ (Riding(u, d)' => Riding(u, d))
      BY <1>1 DEF Promised, Riding
    <2>2. CASE tripToLocations'[u][d] = tripToLocations[u][d]
      BY <1>1, <2>0, <2>1, <2>2, RideFrame DEF InFlight
    <2>3. ASSUME NEW q \in Regions, u = t, Riding(u, d), tripStatus'[u] = "completed",
                 tripToLocations'[u][d] = Append(tripToLocations[u][d], SetIdleMsg(q))
          PROVE  /\ RideFits(u, d)'
                 /\ Engaged(u, d)
                 /\ InFlight(tripToLocations, u, d, AcceptTripMsg)' =>
                      InFlight(tripToLocations, u, d, AcceptTripMsg)
      <3>1. ~ Riding(u, d)' /\ ~ Promised(u, d)'
        BY <1>1, <2>3 DEF KeyFree, Riding, Promised
      <3>2. tripRegion'[u] \in Home[d]
        BY <1>1, <2>0, <2>3 DEF MatchIsLocal, Riding
      <3> QED  BY <1>1, <2>0, <2>3, <3>1, <3>2, EndSentFits
    <2>4. CASE tripToLocations' = tripToLocations
      BY <2>2, <2>4
    <2>5. ASSUME NEW e \in Drivers, NEW q \in Regions, Riding(t, e), tripStatus'[t] = "completed",
                 tripToLocations' = Send(tripToLocations, t, e, SetIdleMsg(q))
          PROVE  \/ tripToLocations'[u][d] = tripToLocations[u][d]
                 \/ /\ u = t /\ d = e
                    /\ tripToLocations'[u][d] = Append(tripToLocations[u][d], SetIdleMsg(q))
      BY <2>5, SendIs DEF LocationsMsgs
    <2> QED  BY <1>2, <2>2, <2>3, <2>4, <2>5
  <1>4. ASSUME NEW r \in Regions PROVE RoundIsFair(r)'
    <2>1. RoundIsFair(r) /\ idle[r] \subseteq Drivers
      BY DEF BookingInv, RoundsAreFair, TypeOK, DispatchTypeOK
    <2>2. ASSUME NEW u \in Trips, tripRegion'[u] = r, Undelivered(u)'
          PROVE  tripRegion[u] = r /\ Undelivered(u)
      BY <1>1, <1>3, <2>2 DEF Undelivered
    <2> QED  BY <1>1, <1>3, <2>1, <2>2, RoundFrame
  <1>5. PhasesFit'
    BY <1>1 DEF BookingInv, PhasesFit, PhaseFits
  <1> QED
    BY <1>3, <1>4, <1>5, ExclusiveFrame DEF BookingInv, RidesFit, RoundsAreFair

\* A step of a trip preserves BookingInv.
LEMMA TripStepBooking ==
  ASSUME TypeOK, HomeInv, TripPhase, BookingInv, NEW t \in Trips, TripStep(t)
  PROVE  BookingInv'
  <1>1. CASE RideTimerFires(t) \/ OperatorCompletes(t)
    BY <1>1, FinishRideFits DEF RideTimerFires, RideEnds, OperatorCompletes, Complete
  <1> QED  BY <1>1, SilentTripStep, ConfirmResumesFits DEF TripStep

\* The first of one message, or of two, and what is left without it.
LEMMA TakeShort ==
  ASSUME NEW S, NEW a \in S, NEW m \in S
  PROVE  /\ <<a>> # << >> /\ Head(<<a>>) = a /\ Tail(<<a>>) = << >>
         /\ <<a, m>> # << >> /\ Head(<<a, m>>) = a /\ Tail(<<a, m>>) = <<m>>
         /\ <<a, m>> # <<a>>
  <1>1. <<a>> # << >> /\ Head(<<a>>) = a
    OBVIOUS
  <1>2. Tail(<<a>>) = << >>
    OBVIOUS
  <1>3. <<a, m>> # << >> /\ Head(<<a, m>>) = a
    OBVIOUS
  <1>4. <<a, m>> # <<a>>
    OBVIOUS
  <1>5. Tail(<<a, m>>) = <<m>>
    <2> DEFINE s == Tail(<<a, m>>)
               u == <<m>>
    <2>1. s \in Seq(S) /\ Len(s) = 1 /\ s[1] = m
      OBVIOUS
    <2>2. u \in Seq(S) /\ Len(u) = 1 /\ u[1] = m
      OBVIOUS
    <2> HIDE DEF s, u
    <2>3. s = u
      BY <2>1, <2>2, SeqEqual
    <2> QED  BY <2>3 DEF s, u
  <1> QED  BY <1>1, <1>2, <1>3, <1>4, <1>5

\* A step of driver d preserves BookingInv if what it does fits and no round
\* may match d.
LEMMA DriverStepFits ==
  ASSUME TypeOK, BookingInv, NEW d \in Drivers,
         UNCHANGED <<tripVars, awakeable, dispatchVars>>,
         \A e \in Drivers : e # d =>
           /\ driverStatus'[e] = driverStatus[e] /\ currentTrip'[e] = currentTrip[e]
           /\ \A u \in Trips : tripToLocations'[u][e] = tripToLocations[u][e],
         \A u \in Trips :
           /\ RideFits(u, d)'
           /\ Engaged(u, d)' => Engaged(u, d)
           /\ InFlight(tripToLocations, u, d, AcceptTripMsg)' =>
                InFlight(tripToLocations, u, d, AcceptTripMsg),
         driverStatus[d] # "idle" \/ \E u \in Trips : Engaged(u, d)
  PROVE  BookingInv'
  <1>0. UNCHANGED <<tripStatus, tripRegion, tripHolder, assignedDriver, awakeable,
                    epochRunning, idle>>
    BY DEF tripVars, dispatchVars, epochVars
  <1>1. ASSUME NEW u \in Trips, NEW e \in Drivers
        PROVE  /\ RideFits(u, e)'
               /\ Engaged(u, e)' => Engaged(u, e)
               /\ InFlight(tripToLocations, u, e, AcceptTripMsg)' =>
                    InFlight(tripToLocations, u, e, AcceptTripMsg)
    <2>1. CASE e = d
      BY <2>1
    <2>2. CASE e # d
      <3>1. RideFits(u, e)
        BY DEF BookingInv, RidesFit
      <3>2. (Promised(u, e)' => Promised(u, e)) /\ (Riding(u, e)' => Riding(u, e))
        BY <1>0 DEF Promised, Riding
      <3>3. RideFits(u, e)' /\ (Engaged(u, e)' => Engaged(u, e))
        BY <1>0, <2>2, <3>1, <3>2, RideFrame
      <3> QED  BY <2>2, <3>3 DEF InFlight
    <2> QED  BY <2>1, <2>2
  <1>2. ASSUME NEW r \in Regions PROVE RoundIsFair(r)'
    <2>0. RoundIsFair(r) /\ idle[r] \subseteq Drivers
      BY DEF BookingInv, RoundsAreFair, TypeOK, DispatchTypeOK
    <2>1. CASE ~ epochRunning[r]
      BY <1>0, <2>1 DEF RoundIsFair
    <2>2. CASE epochRunning[r]
      <3>1. d \notin idle[r]
        BY <2>0, <2>2 DEF RoundIsFair
      <3>2. \A e \in idle[r] : driverStatus'[e] = driverStatus[e]
        BY <2>0, <3>1
      <3>3. ASSUME NEW u \in Trips, tripRegion'[u] = r, Undelivered(u)'
            PROVE  tripRegion[u] = r /\ Undelivered(u)
        BY <1>0, <1>1, <3>3 DEF Undelivered
      <3> QED  BY <1>0, <1>1, <2>0, <3>2, <3>3, RoundFrame
    <2> QED  BY <2>1, <2>2
  <1>3. PhasesFit'
    BY <1>0 DEF BookingInv, PhasesFit, PhaseFits
  <1> QED
    BY <1>1, <1>2, <1>3, ExclusiveFrame DEF BookingInv, RidesFit, RoundsAreFair

\* A driver that is nobody's and has no messages fits any status.
LEMMA FreeFits ==
  ASSUME NEW u \in Trips, NEW d \in Drivers,
         ~ Promised(u, d)', ~ Riding(u, d)', tripToLocations'[u][d] = << >>
  PROVE  RideFits(u, d)'
  BY DEF RideFits, InboxFits

\* Taking a message of trip t leaves the other trips' and drivers' messages alone.
LEMMA TakeIs ==
  ASSUME TypeOK, NEW t \in Trips, NEW d \in Drivers,
         tripToLocations' = Take(tripToLocations, t, d)
  PROVE  /\ tripToLocations'[t][d] = Tail(tripToLocations[t][d])
         /\ \A u \in Trips, e \in Drivers :
              u # t \/ e # d => tripToLocations'[u][e] = tripToLocations[u][e]
  BY DEF TypeOK, RestateTypeOK, Take

\* The driver of a started ride sets off.
LEMMA AcceptTripFits ==
  ASSUME TypeOK, BookingInv, NEW t \in Trips, NEW d \in Drivers, LocationsTakesAcceptTrip(t, d)
  PROVE  BookingInv'
  <1>0. /\ driverStatus \in [Drivers -> DriverStatus]
        /\ currentTrip \in [Drivers -> Trips \cup {NoTrip}]
        /\ RideFits(t, d)
    BY DEF TypeOK, LocationsTypeOK, BookingInv, RidesFit
  <1>1. /\ tripToLocations[t][d] # << >> /\ Head(tripToLocations[t][d]) = AcceptTripMsg
        /\ tripToLocations' = Take(tripToLocations, t, d)
        /\ currentTrip' = [currentTrip EXCEPT ![d] = t]
        /\ driverStatus' = [driverStatus EXCEPT ![d] = "en_route"]
        /\ UNCHANGED <<tripVars, awakeable, dispatchVars>>
    BY DEF LocationsTakesAcceptTrip, Arrived, AcceptTrip
  <1>2. UNCHANGED <<tripStatus, tripRegion, tripHolder, assignedDriver, awakeable>>
    BY <1>1 DEF tripVars
  <1>3. ASSUME NEW r \in Regions
        PROVE  /\ AcceptTripMsg \in LocationsMsgs /\ SetIdleMsg(r) \in LocationsMsgs
               /\ Head(<<SetIdleMsg(r)>>) # AcceptTripMsg
               /\ Tail(<<AcceptTripMsg>>) = << >>
               /\ Tail(<<AcceptTripMsg, SetIdleMsg(r)>>) = <<SetIdleMsg(r)>>
               /\ <<AcceptTripMsg, SetIdleMsg(r)>> # <<AcceptTripMsg>>
    <2>1. AcceptTripMsg \in LocationsMsgs /\ SetIdleMsg(r) \in LocationsMsgs
      BY DEF LocationsMsgs
    <2> QED  BY <2>1, TakeShort, MessagesDiffer
  <1>4. /\ tripToLocations'[t][d] = Tail(tripToLocations[t][d])
        /\ \A u \in Trips, e \in Drivers :
             u # t \/ e # d => tripToLocations'[u][e] = tripToLocations[u][e]
    BY <1>1, TakeIs
  <1>5. \/ tripToLocations[t][d] = <<AcceptTripMsg>> /\ tripToLocations'[t][d] = << >>
        \/ \E r \in Regions : /\ tripToLocations[t][d] = <<AcceptTripMsg, SetIdleMsg(r)>>
                               /\ tripToLocations'[t][d] = <<SetIdleMsg(r)>>
    <2>1. CASE tripToLocations[t][d] = <<AcceptTripMsg>>
      <3>1. AcceptTripMsg \in LocationsMsgs
        BY DEF LocationsMsgs
      <3> QED  BY <1>4, <2>1, <3>1, TakeShort
    <2>2. ASSUME NEW r \in Regions, tripToLocations[t][d] = <<AcceptTripMsg, SetIdleMsg(r)>>
          PROVE  tripToLocations'[t][d] = <<SetIdleMsg(r)>>
      BY <1>3, <1>4, <2>2
    <2>3. ASSUME NEW r \in Regions, tripToLocations[t][d] = <<SetIdleMsg(r)>>
          PROVE  FALSE
      BY <1>1, <1>3, <2>3
    <2> QED  BY <1>0, <1>1, <2>1, <2>2, <2>3 DEF RideFits, InboxFits
  <1>6. Engaged(t, d)
    BY <1>1 DEF Engaged
  <1>7. ASSUME NEW u \in Trips
        PROVE  /\ RideFits(u, d)'
               /\ Engaged(u, d)' => Engaged(u, d)
               /\ InFlight(tripToLocations, u, d, AcceptTripMsg)' =>
                    InFlight(tripToLocations, u, d, AcceptTripMsg)
    <2>1. CASE u = t
      <3>1. Drives(t, d)'
        BY <1>0, <1>1 DEF Drives
      <3>2. InboxFits(t, d)'
        BY <1>5, <3>1 DEF InboxFits
      <3>3. ~ Promised(t, d)' /\ (Riding(t, d)' => tripToLocations'[t][d] = << >>)
        BY <1>0, <1>1, <1>2, <1>3, <1>5 DEF RideFits, Promised, Riding
      <3>4. RideFits(t, d)'
        BY <1>0, <1>1, <1>2, <3>1, <3>2, <3>3 DEF RideFits
      <3>5. InFlight(tripToLocations, t, d, AcceptTripMsg)
        <4>1. tripToLocations[t][d] \in Seq(LocationsMsgs)
          BY DEF TypeOK, RestateTypeOK
        <4>2. /\ 1 \in 1..Len(tripToLocations[t][d])
              /\ tripToLocations[t][d][1] = AcceptTripMsg
          BY <1>1, <4>1
        <4> QED  BY <4>2 DEF InFlight
      <3> QED  BY <1>6, <2>1, <3>4, <3>5
    <2>2. CASE u # t
      <3>1. ~ Engaged(u, d)
        BY <1>6, <2>2 DEF BookingInv, Exclusive
      <3>2. tripToLocations'[u][d] = << >> /\ ~ Promised(u, d)' /\ ~ Riding(u, d)'
        BY <1>2, <1>4, <2>2, <3>1 DEF Engaged, Promised, Riding
      <3>3. ~ Drives(u, d)'
        BY <1>0, <1>1, <2>2 DEF Drives
      <3>4. ~ Engaged(u, d)' /\ ~ InFlight(tripToLocations, u, d, AcceptTripMsg)'
        BY <3>2, <3>3 DEF Engaged, InFlight
      <3> QED  BY <3>2, <3>4, FreeFits
    <2> QED  BY <2>1, <2>2
  <1>8. ASSUME NEW e \in Drivers, e # d
        PROVE  /\ driverStatus'[e] = driverStatus[e] /\ currentTrip'[e] = currentTrip[e]
               /\ \A u \in Trips : tripToLocations'[u][e] = tripToLocations[u][e]
    BY <1>0, <1>1, <1>4, <1>8
  <1> QED  BY <1>1, <1>6, <1>7, <1>8, DriverStepFits

\* The driver of a ride that ended is free.
LEMMA SetStatusFits ==
  ASSUME TypeOK, BookingInv, NEW t \in Trips, NEW d \in Drivers, NEW r \in Regions,
         LocationsTakesSetStatus(t, d, r)
  PROVE  BookingInv'
  <1>0. /\ driverStatus \in [Drivers -> DriverStatus]
        /\ RideFits(t, d)
        /\ AcceptTripMsg \in LocationsMsgs
        /\ \A q \in Regions : SetIdleMsg(q) \in LocationsMsgs
    BY DEF TypeOK, LocationsTypeOK, BookingInv, RidesFit, LocationsMsgs
  <1>1. /\ tripToLocations[t][d] # << >> /\ Head(tripToLocations[t][d]) = SetIdleMsg(r)
        /\ tripToLocations' = Take(tripToLocations, t, d)
        /\ currentTrip' = currentTrip
        /\ driverStatus' = [driverStatus EXCEPT ![d] = "idle"]
        /\ UNCHANGED <<tripVars, awakeable, dispatchVars>>
    BY DEF LocationsTakesSetStatus, Arrived, SetStatus
  <1>2. UNCHANGED <<tripStatus, tripRegion, tripHolder, assignedDriver, awakeable>>
    BY <1>1 DEF tripVars
  <1>3. /\ tripToLocations'[t][d] = Tail(tripToLocations[t][d])
        /\ \A u \in Trips, e \in Drivers :
             u # t \/ e # d => tripToLocations'[u][e] = tripToLocations[u][e]
    BY <1>1, TakeIs
  <1>4. Head(tripToLocations[t][d]) # AcceptTripMsg
    BY <1>1, MessagesDiffer
  <1>5. Drives(t, d) /\ \E q \in Regions : tripToLocations[t][d] = <<SetIdleMsg(q)>>
    <2>1. tripToLocations[t][d] # <<AcceptTripMsg>>
      BY <1>0, <1>4, TakeShort
    <2>2. ASSUME NEW q \in Regions PROVE tripToLocations[t][d] # <<AcceptTripMsg, SetIdleMsg(q)>>
      BY <1>0, <1>4, TakeShort
    <2> QED  BY <1>0, <1>1, <2>1, <2>2 DEF RideFits, InboxFits
  <1>6. tripToLocations'[t][d] = << >>
    BY <1>0, <1>3, <1>5, TakeShort
  <1>7. driverStatus[d] # "idle" /\ driverStatus'[d] = "idle" /\ Engaged(t, d)
    BY <1>0, <1>1, <1>5 DEF Drives, Engaged
  <1>8. ASSUME NEW u \in Trips
        PROVE  /\ RideFits(u, d)'
               /\ Engaged(u, d)' => Engaged(u, d)
               /\ InFlight(tripToLocations, u, d, AcceptTripMsg)' =>
                    InFlight(tripToLocations, u, d, AcceptTripMsg)
    <2>1. tripToLocations'[u][d] = << >> /\ ~ Promised(u, d) /\ ~ Riding(u, d)
      <3>1. CASE u = t
        BY <1>0, <1>1, <1>6, <1>7, <3>1 DEF RideFits
      <3>2. CASE u # t
        BY <1>3, <1>7, <3>2 DEF BookingInv, Exclusive, Engaged
      <3> QED  BY <3>1, <3>2
    <2>2. ~ Promised(u, d)' /\ ~ Riding(u, d)' /\ ~ Drives(u, d)'
      BY <1>2, <1>7, <2>1 DEF Promised, Riding, Drives
    <2>3. ~ Engaged(u, d)' /\ ~ InFlight(tripToLocations, u, d, AcceptTripMsg)'
      BY <2>1, <2>2 DEF Engaged, InFlight
    <2> QED  BY <2>1, <2>2, <2>3, FreeFits
  <1>9. ASSUME NEW e \in Drivers, e # d
        PROVE  /\ driverStatus'[e] = driverStatus[e] /\ currentTrip'[e] = currentTrip[e]
               /\ \A u \in Trips : tripToLocations'[u][e] = tripToLocations[u][e]
    BY <1>0, <1>1, <1>3, <1>9
  <1> QED  BY <1>1, <1>7, <1>8, <1>9, DriverStepFits

\* A step of a driver preserves BookingInv, if nobody else tells it its status.
LEMMA DriverStepBooking ==
  ASSUME TypeOK, BookingInv, Timely, NEW d \in Drivers, DriverStep(d)
  PROVE  BookingInv'
  <1>1. ASSUME NEW r \in Regions, DriverGoesOnline(d, r) PROVE BookingInv'
    <2>0. /\ driverStatus \in [Drivers -> DriverStatus]
          /\ \A u \in Trips : RideFits(u, d)
      BY DEF TypeOK, LocationsTypeOK, BookingInv, RidesFit
    <2>1. /\ driverStatus[d] = "offline"
          /\ driverStatus' = [driverStatus EXCEPT ![d] = "idle"]
          /\ UNCHANGED <<currentTrip, tripToLocations, tripVars, awakeable, dispatchVars>>
      BY <1>1 DEF DriverGoesOnline, SetStatus, RestOfLocations
    <2>2. ASSUME NEW u \in Trips
          PROVE  /\ RideFits(u, d)'
                 /\ Engaged(u, d)' => Engaged(u, d)
                 /\ InFlight(tripToLocations, u, d, AcceptTripMsg)' =>
                      InFlight(tripToLocations, u, d, AcceptTripMsg)
      <3>1. ~ Promised(u, d) /\ ~ Riding(u, d) /\ tripToLocations[u][d] = << >>
        BY <2>0, <2>1 DEF RideFits, InboxFits, Drives
      <3>2. /\ ~ Promised(u, d)' /\ ~ Riding(u, d)' /\ ~ Drives(u, d)'
            /\ tripToLocations'[u][d] = << >>
        BY <2>0, <2>1, <3>1 DEF Promised, Riding, Drives, tripVars
      <3>3. ~ Engaged(u, d)' /\ ~ InFlight(tripToLocations, u, d, AcceptTripMsg)'
        BY <3>2 DEF Engaged, InFlight
      <3> QED  BY <3>2, <3>3, FreeFits
    <2>3. ASSUME NEW e \in Drivers, e # d
          PROVE  /\ driverStatus'[e] = driverStatus[e] /\ currentTrip'[e] = currentTrip[e]
                 /\ \A u \in Trips : tripToLocations'[u][e] = tripToLocations[u][e]
      BY <2>0, <2>1, <2>3
    <2> QED  BY <2>1, <2>2, <2>3, DriverStepFits
  <1>2. CASE DriverPings(d)
    <2>1. UNCHANGED <<driverStatus, currentTrip, tripToLocations, awakeable, tripVars, dispatchVars>>
      BY <1>2 DEF DriverPings, Ping, restateVars, channels
    <2> QED  BY <2>1, BookingFrame DEF dispatchVars, epochVars
  <1>3. ASSUME NEW r \in Regions, OperatorForcesIdle(d, r) PROVE FALSE
    BY <1>3 DEF Timely, OperatorForcesIdle
  <1>4. ~ DriverGoesOffline(d)
    BY DEF Timely, DriverGoesOffline
  <1> QED  BY <1>1, <1>2, <1>3, <1>4, AcceptTripFits, SetStatusFits DEF DriverStep

\* A driver that is read idle while its region's matches are delivered is free.
LEMMA ReadIdleIsFree ==
  ASSUME HomeInv, BookingInv, OneHome, NEW r \in Regions, NEW d \in Drivers, d \in unread[r],
         epochRunning[r], driverStatus[d] = "idle", NEW t \in Trips
  PROVE  ~ Engaged(t, d)
  <1> USE NamesAreDistinct
  <1>1. /\ RideFits(t, d) /\ MatchesDelivered(r) /\ r \in Home[d]
        /\ awakeable[t] # NoDriver => tripRegion[t] \in Home[awakeable[t]]
    BY DEF BookingInv, RidesFit, RoundsAreFair, RoundIsFair, HomeInv, PoolsOfResidents,
       PoolOfResidents, MatchesAreLocal, MatchIsLocal
  <1>2. \A q \in Home[d] : q = r
    BY <1>1 DEF OneHome
  <1>3. ~ Promised(t, d)
    BY <1>1, <1>2 DEF Promised, MatchesDelivered
  <1>4. tripToLocations[t][d] = << >>
    <2>1. ASSUME tripToLocations[t][d] # << >> PROVE FALSE
      <3>1. tripRegion[t] = r /\ ~ InFlight(tripToLocations, t, d, AcceptTripMsg)
        BY <1>1, <1>2, <2>1 DEF RideFits, MatchesDelivered
      <3>2. \/ tripToLocations[t][d] = <<AcceptTripMsg>>
            \/ \E q \in Regions : tripToLocations[t][d] = <<AcceptTripMsg, SetIdleMsg(q)>>
        BY <1>1, <2>1 DEF RideFits, InboxFits, Drives
      <3>3. ASSUME tripToLocations[t][d] = <<AcceptTripMsg>> PROVE FALSE
        BY <3>1, <3>3 DEF InFlight
      <3>4. ASSUME NEW q \in Regions, tripToLocations[t][d] = <<AcceptTripMsg, SetIdleMsg(q)>>
            PROVE  FALSE
        BY <3>1, <3>4 DEF InFlight
      <3> QED  BY <3>2, <3>3, <3>4
    <2> QED  BY <2>1
  <1>5. ~ Riding(t, d)
    BY <1>1, <1>4 DEF RideFits, Drives
  <1> QED  BY <1>3, <1>4, <1>5 DEF Engaged, Drives

\* A promise is open already or made by the round, to the driver it drew.
LEMMA PromiseIs ==
  ASSUME TypeOK, NEW r \in Regions, NEW f \in Assignments(r), awakeable' = Resolve(r, f),
         tripHolder' = tripHolder, NEW t \in Trips, NEW d \in Drivers, Promised(t, d)'
  PROVE  \/ Promised(t, d)
         \/ \E i \in 1..Matches(r) : pending[r][i] = t /\ f[i] = d /\ d \in idle[r]
  <1>1. f \in [1..Matches(r) -> idle[r]]
    BY DEF Assignments
  <1>2. CASE \E i \in DOMAIN f : pending[r][i] = t
    <2>1. PICK i : i = CHOOSE j \in DOMAIN f : pending[r][j] = t
      OBVIOUS
    <2>2. i \in DOMAIN f /\ pending[r][i] = t
      BY <1>2, <2>1
    <2>3. awakeable'[t] = f[i]
      BY <1>2, <2>1 DEF Resolve
    <2> QED  BY <1>1, <2>2, <2>3 DEF Promised
  <1>3. CASE ~ \E i \in DOMAIN f : pending[r][i] = t
    BY <1>3 DEF Promised, Resolve
  <1> QED  BY <1>2, <1>3

\* A round promises free drivers, each to one trip.
LEMMA RoundFits ==
  ASSUME TypeOK, TokenConserved, HomeInv, BookingInv, OneHome, NEW r \in Regions, EpochMatches(r)
  PROVE  BookingInv'
  <1>0. PICK f \in Assignments(r) : awakeable' = Resolve(r, f)
    BY DEF EpochMatches, CloseEpochMatch
  <1>1. /\ UNCHANGED <<tripStatus, tripRegion, tripHolder, assignedDriver, driverStatus,
                       currentTrip, tripToLocations>>
        /\ epochRunning[r]
        /\ epochRunning' = [epochRunning EXCEPT ![r] = FALSE]
        /\ idle' = [idle EXCEPT ![r] = {}]
    BY DEF EpochMatches, CloseEpochMatch, channels, RestOfDispatch, tripVars, locationsVars
  <1>2. /\ epochRunning \in [Regions -> BOOLEAN]
        /\ idle \in [Regions -> SUBSET Drivers]
    BY DEF TypeOK, DispatchTypeOK
  <1>3. \A d \in idle[r] : driverStatus[d] = "idle" /\ \A t \in Trips : ~ Engaged(t, d)
    BY <1>1 DEF BookingInv, RoundsAreFair, RoundIsFair
  <1> DEFINE Drawn(t, d) == \E i \in 1..Matches(r) : pending[r][i] = t /\ f[i] = d /\ d \in idle[r]
  <1>4. ASSUME NEW t \in Trips, NEW d \in Drivers
        PROVE  /\ Engaged(t, d)' => Engaged(t, d) \/ Drawn(t, d)
               /\ Promised(t, d)' => Promised(t, d) \/ Drawn(t, d)
    <2>1. Promised(t, d)' => Promised(t, d) \/ Drawn(t, d)
      BY <1>0, <1>1, PromiseIs
    <2> QED  BY <1>1, <2>1 DEF Engaged, Riding, Drives
  <1>5. ASSUME NEW t \in Trips, NEW d \in Drivers PROVE RideFits(t, d)'
    <2>0. RideFits(t, d)
      BY DEF BookingInv, RidesFit
    <2>1. CASE ~ Drawn(t, d)
      BY <1>1, <1>4, <2>0, <2>1, RideFrame DEF Riding
    <2>2. CASE Drawn(t, d)
      <3>1. driverStatus[d] = "idle" /\ ~ Engaged(t, d)
        BY <1>3, <2>2
      <3>2. /\ tripToLocations'[t][d] = << >> /\ driverStatus'[d] = "idle" /\ ~ Riding(t, d)'
        BY <1>1, <3>1 DEF Engaged, Riding
      <3> QED  BY <3>2 DEF RideFits, InboxFits
    <2> QED  BY <2>1, <2>2
  <1>6. Exclusive'
    <2> SUFFICES ASSUME NEW d \in Drivers, NEW t \in Trips, NEW u \in Trips,
                        Engaged(t, d)', Engaged(u, d)'
                 PROVE  t = u
      BY DEF Exclusive
    <2>1. CASE Drawn(t, d) \/ Drawn(u, d)
      <3>1. Drawn(t, d) /\ Drawn(u, d)
        BY <1>3, <1>4, <2>1
      <3>2. \A i, j \in 1..Matches(r) : f[i] = f[j] => i = j
        BY DEF Assignments
      <3> QED  BY <3>1, <3>2
    <2>2. CASE ~ (Drawn(t, d) \/ Drawn(u, d))
      BY <1>4, <2>2 DEF BookingInv, Exclusive
    <2> QED  BY <2>1, <2>2
  <1>7. ASSUME NEW q \in Regions PROVE RoundIsFair(q)'
    <2>0. RoundIsFair(q)
      BY DEF BookingInv, RoundsAreFair
    <2>1. CASE q = r
      BY <1>1, <1>2, <2>1 DEF RoundIsFair
    <2>2. CASE q # r
      <3>1. epochRunning'[q] = epochRunning[q] /\ idle'[q] = idle[q]
        BY <1>1, <1>2, <2>2
      <3>2. \A d \in idle[q] : d \in Drivers /\ d \notin idle[r]
        BY <1>2, <2>2 DEF HomeInv, PoolsOfResidents, PoolOfResidents, OneHome
      <3>3. \A d \in idle[q], t \in Trips : Engaged(t, d)' => Engaged(t, d)
        BY <1>4, <3>2
      <3>4. ASSUME NEW t \in Trips, tripRegion'[t] = q, Undelivered(t)'
            PROVE  tripRegion[t] = q /\ Undelivered(t)
        <4>1. awakeable'[t] = awakeable[t]
          BY <1>0, <1>1, <2>2, <3>4, ResolvesLocally
        <4> QED  BY <1>1, <3>4, <4>1 DEF Undelivered, InFlight
      <3> QED  BY <1>1, <2>0, <3>1, <3>3, <3>4, RoundFrame
    <2> QED  BY <2>1, <2>2
  <1>8. PhasesFit'
    BY <1>1 DEF BookingInv, PhasesFit, PhaseFits
  <1> QED  BY <1>5, <1>6, <1>7, <1>8 DEF BookingInv, RidesFit, RoundsAreFair

\* What a round has read changes, and nothing else BookingInv speaks of.
LEMMA ReadingFits ==
  ASSUME BookingInv, RoundsAreFair',
         UNCHANGED <<driverStatus, currentTrip, tripToLocations, awakeable, tripVars>>
  PROVE  BookingInv'
  <1>1. RidesFit'
    BY DEF BookingInv, RidesFit, RideFits, InboxFits, Promised, Riding, Drives, tripVars
  <1>2. Exclusive'
    BY DEF BookingInv, Exclusive, Engaged, Promised, Riding, Drives, tripVars
  <1>3. PhasesFit'
    BY DEF BookingInv, PhasesFit, PhaseFits, tripVars
  <1> QED  BY <1>1, <1>2, <1>3 DEF BookingInv

\* A step of a region preserves BookingInv.
LEMMA RegionStepBooking ==
  ASSUME TypeOK, TokenConserved, HomeInv, BookingInv, Timely, NEW r \in Regions, RegionStep(r)
  PROVE  BookingInv'
  <1>0. /\ epochRunning \in [Regions -> BOOLEAN]
        /\ idle \in [Regions -> SUBSET Drivers]
        /\ unread \in [Regions -> SUBSET Drivers]
    BY DEF TypeOK, DispatchTypeOK
  <1>1. CASE \/ AgentHalts(r) \/ AgentResumes(r)
             \/ \E t \in Trips : DispatchTakesTrip(t, r) \/ DispatchTakesCompletion(t, r)
             \/ \E d \in Drivers : DispatchTakesDriver(d, r)
             \/ DispatchTakesSetActive(r) \/ EpochSkipped(r)
    <2>1. UNCHANGED <<driverStatus, currentTrip, tripToLocations, awakeable, tripVars,
                      epochRunning, idle>>
      BY <1>1 DEF AgentHalts, AgentResumes, RestOfAgent, dispatchVars, epochVars, DispatchTakesTrip,
         EnqueueTrip, DispatchTakesCompletion, NoteCompletion, DispatchTakesDriver, RegisterDriver,
         DeregisterDriver, DispatchTakesSetActive, SetActive, EpochSkipped, CloseEpochHalted,
         RestOfDispatch, restateVars, channels, locationsVars
    <2> QED  BY <2>1, BookingFrame
  <1>2. ASSUME UNCHANGED restateVars, RestOfDispatch
        PROVE  UNCHANGED <<driverStatus, currentTrip, tripToLocations, awakeable, tripVars>>
    BY <1>2 DEF restateVars, channels, RestOfDispatch, locationsVars
  <1>3. ASSUME UNCHANGED <<driverStatus, currentTrip, tripToLocations, awakeable, tripVars>>,
               NEW q \in Regions, epochRunning'[q] = epochRunning[q], idle'[q] = idle[q]
        PROVE  RoundIsFair(q)'
    <2>1. RoundIsFair(q)
      BY DEF BookingInv, RoundsAreFair
    <2>2. MatchesDelivered(q) => MatchesDelivered(q)'
      BY <1>3 DEF MatchesDelivered, InFlight, tripVars
    <2>3. \A d, t : Engaged(t, d)' <=> Engaged(t, d)
      BY <1>3 DEF Engaged, Promised, Riding, Drives, tripVars
    <2> QED  BY <1>3, <2>1, <2>2, <2>3 DEF RoundIsFair
  <1>4. CASE EpochBegins(r)
    <2>1. /\ MatchesDelivered(r)
          /\ UNCHANGED <<driverStatus, currentTrip, tripToLocations, awakeable, tripVars>>
          /\ epochRunning' = [epochRunning EXCEPT ![r] = TRUE]
          /\ idle' = [idle EXCEPT ![r] = {}]
      BY <1>2, <1>4 DEF EpochBegins, CloseEpochBegin, Timely
    <2>2. RoundIsFair(r)'
      BY <1>0, <2>1 DEF RoundIsFair, MatchesDelivered, InFlight, tripVars
    <2>3. ASSUME NEW q \in Regions PROVE RoundIsFair(q)'
      BY <1>0, <1>3, <2>1, <2>2
    <2> QED  BY <2>1, <2>3, ReadingFits DEF RoundsAreFair
  <1>5. ASSUME NEW d \in Drivers, EpochReads(r, d) PROVE BookingInv'
    <2>1. /\ epochRunning[r] /\ d \in unread[r]
          /\ UNCHANGED <<driverStatus, currentTrip, tripToLocations, awakeable, tripVars>>
          /\ epochRunning' = epochRunning
          /\ idle' = [idle EXCEPT ![r] = IF Matchable(d) THEN @ \cup {d} ELSE @]
      BY <1>2, <1>5 DEF EpochReads, ReadPosition
    <2>2. RoundIsFair(r)'
      <3>1. \A e \in idle[r] : driverStatus[e] = "idle" /\ \A t \in Trips : ~ Engaged(t, e)
        BY <2>1 DEF BookingInv, RoundsAreFair, RoundIsFair
      <3>2. MatchesDelivered(r)
        BY <2>1 DEF BookingInv, RoundsAreFair, RoundIsFair
      <3>3. MatchesDelivered(r)'
        BY <2>1, <3>2 DEF MatchesDelivered, InFlight, tripVars
      <3>4. ASSUME NEW e \in idle'[r]
            PROVE  driverStatus[e] = "idle" /\ \A t \in Trips : ~ Engaged(t, e)
        <4>1. CASE e \in idle[r]
          BY <3>1, <4>1
        <4>2. CASE e \notin idle[r]
          <5>1. e = d /\ driverStatus[d] = "idle"
            BY <1>0, <2>1, <4>2 DEF Matchable
          <5> QED  BY <2>1, <5>1, ReadIdleIsFree DEF Timely
        <4> QED  BY <4>1, <4>2
      <3>5. \A e, t : Engaged(t, e)' <=> Engaged(t, e)
        BY <2>1 DEF Engaged, Promised, Riding, Drives, tripVars
      <3> QED  BY <2>1, <3>3, <3>4, <3>5 DEF RoundIsFair
    <2>3. ASSUME NEW q \in Regions PROVE RoundIsFair(q)'
      BY <1>0, <1>3, <2>1, <2>2
    <2> QED  BY <2>1, <2>3, ReadingFits DEF RoundsAreFair
  <1> QED  BY <1>1, <1>4, <1>5, RoundFits DEF RegionStep, Timely

\* Every step, and every stutter, preserves BookingInv.
LEMMA NextBooking ==
  ASSUME TypeOK, TokenConserved, HomeInv, TripPhase, BookingInv, Timely, [Next]_vars
  PROVE  BookingInv'
  <1>1. CASE UNCHANGED vars
    BY <1>1, BookingFrame DEF vars, restateVars, channels, locationsVars, dispatchVars, epochVars
  <1> QED  BY <1>1, TripStepBooking, DriverStepBooking, RegionStepBooking DEF Next

\* Nobody is engaged at the start.
LEMMA InitBooking == Init => BookingInv
  <1> USE NamesAreDistinct DEF Init, RestateInit, NoMessages, TripInit, LocationsInit, DispatchInit
  <1> SUFFICES ASSUME Init PROVE BookingInv
    OBVIOUS
  <1>1. ASSUME NEW t \in Trips, NEW d \in Drivers
        PROVE  /\ ~ Promised(t, d) /\ ~ Riding(t, d) /\ ~ Drives(t, d)
               /\ tripToLocations[t][d] = << >>
    BY <1>1 DEF Promised, Riding, Drives
  <1>2. RidesFit /\ Exclusive
    BY <1>1 DEF RidesFit, RideFits, InboxFits, Exclusive, Engaged
  <1>3. RoundsAreFair /\ PhasesFit
    BY DEF RoundsAreFair, RoundIsFair, PhasesFit, PhaseFits
  <1> QED  BY <1>2, <1>3 DEF BookingInv

\* BookingInv holds in every reachable state.
LEMMA BookingInvariant ==
  ASSUME Timely
  PROVE  Spec => []BookingInv
  <1>1. TypeOK /\ TokenConserved /\ HomeInv /\ TripPhase /\ BookingInv /\ [Next]_vars => BookingInv'
    BY NextBooking
  <1> QED
    BY <1>1, InitBooking, TypeCorrect, TokensAreConserved, HomeInvariant, PhaseInvariant, PTL DEF Spec

\* No driver is promised to two trips at a time, if a match reaches its driver
\* before the next round, each driver has one home, and only simulators and rides
\* set a driver's status.
THEOREM DriversAreBookedOnce ==
  ASSUME Timely
  PROVE  Spec => []NoDoubleBooking
  <1>1. BookingInv => NoDoubleBooking
    BY DEF BookingInv, Exclusive, Engaged, Promised, Riding, NoDoubleBooking, Booked
  <1> QED  BY <1>1, BookingInvariant, PTL

\* Under the same assumptions a driver that knows of its ride is not matchable.
THEOREM RidingDriversAreNotOffered ==
  ASSUME Timely
  PROVE  Spec => []DrivingDriverNotMatchable
  <1>1. ASSUME BookingInv PROVE DrivingDriverNotMatchable
    <2> SUFFICES ASSUME NEW d \in Drivers, NEW t \in Trips, Riding(t, d),
                        ~ InFlight(tripToLocations, t, d, AcceptTripMsg)
                 PROVE  ~ Matchable(d)
      BY DEF DrivingDriverNotMatchable, Riding
    <2>1. ASSUME tripToLocations[t][d] = <<AcceptTripMsg>> PROVE FALSE
      BY <2>1 DEF InFlight
    <2>2. Drives(t, d)
      BY <1>1, <2>1 DEF BookingInv, RidesFit, RideFits
    <2> QED  BY <2>2 DEF Drives, Matchable
  <1> QED  BY <1>1, BookingInvariant, PTL

\* Under the same assumptions the end of a ride frees the driver that drives it.
THEOREM RidesFreeTheirOwnDriver ==
  ASSUME Timely
  PROVE  Spec => []FreesItsOwnDriver
  <1>1. ASSUME BookingInv PROVE FreesItsOwnDriver
    <2> SUFFICES ASSUME NEW t \in Trips, NEW d \in Drivers, NEW r \in Regions,
                        Arrived(tripToLocations, t, d, SetIdleMsg(r))
                 PROVE  Drives(t, d)
      BY DEF FreesItsOwnDriver, Drives
    <2>1. tripToLocations[t][d] # << >> /\ Head(tripToLocations[t][d]) # AcceptTripMsg
      BY MessagesDiffer DEF Arrived
    <2>2. RideFits(t, d)
      BY <1>1 DEF BookingInv, RidesFit
    <2>3. /\ AcceptTripMsg \in LocationsMsgs
          /\ \A q \in Regions : SetIdleMsg(q) \in LocationsMsgs
      BY DEF LocationsMsgs
    <2>4. tripToLocations[t][d] # <<AcceptTripMsg>>
      BY <2>1, <2>3, TakeShort
    <2>5. ASSUME NEW q \in Regions PROVE tripToLocations[t][d] # <<AcceptTripMsg, SetIdleMsg(q)>>
      BY <2>1, <2>3, TakeShort
    <2> QED  BY <2>1, <2>2, <2>4, <2>5 DEF RideFits, InboxFits
  <1> QED  BY <1>1, BookingInvariant, PTL

-----------------------------------------------------------------------------
(* The services implement Matchmaking.                                     *)

\* What the refinement mapping says of the trips that wait and of a trip's driver.
WaitingTrips == {t \in Trips : Waiting(t)}
Bookings == [t \in Trips |-> BookedDriver(t)]

\* The driver a trip is booked with, told by its status.
DriverOf(t) ==
  IF tripHolder[t] = "confirm" THEN awakeable[t]
  ELSE IF tripStatus[t] = "assigned" THEN assignedDriver[t] ELSE NoDriver

\* A trip has one driver at most.
LEMMA BookingsAre == TypeOK /\ TripPhase => Bookings = [t \in Trips |-> DriverOf(t)]
  <1> SUFFICES ASSUME TypeOK, TripPhase, NEW t \in Trips PROVE BookedDriver(t) = DriverOf(t)
    BY DEF Bookings
  <1>1. /\ awakeable[t] \in Drivers \cup {NoDriver}
        /\ assignedDriver[t] \in Drivers \cup {NoDriver}
        /\ tripHolder[t] = "confirm" => tripStatus[t] = "dispatching"
    BY DEF TypeOK, RestateTypeOK, TripTypeOK, TripPhase
  <1>2. \A d \in Drivers : Booked(t, d) <=> DriverOf(t) = d
    BY <1>1, NamesAreDistinct DEF Booked, DriverOf
  <1>3. DriverOf(t) \in Drivers \cup {NoDriver}
    BY <1>1 DEF DriverOf
  <1>4. CASE DriverOf(t) \in Drivers
    <2>1. Booked(t, DriverOf(t))
      BY <1>2, <1>4
    <2>2. (CHOOSE d \in Drivers : Booked(t, d)) \in Drivers
      BY <1>4, <2>1
    <2>3. Booked(t, CHOOSE d \in Drivers : Booked(t, d))
      BY <1>4, <2>1
    <2> QED  BY <1>2, <1>4, <2>1, <2>2, <2>3 DEF BookedDriver
  <1>5. CASE DriverOf(t) = NoDriver
    BY <1>2, <1>5, NamesAreDistinct DEF BookedDriver
  <1> QED  BY <1>3, <1>4, <1>5

\* Riders ask, rides end and rounds serve, in the words of the mapping: a trip more
\* waits.
LEMMA AskIs ==
  ASSUME NEW t \in Trips, ~ Waiting(t), WaitingTrips' = WaitingTrips \cup {t},
         Bookings' = [Bookings EXCEPT ![t] = NoDriver]
  PROVE  Abstract!Ask(t)
  BY DEF Abstract!Ask, WaitingTrips, Bookings

\* A trip that had a driver has none.
LEMMA FinishIs ==
  ASSUME NEW t \in Trips, Bookings[t] # NoDriver, UNCHANGED WaitingTrips,
         Bookings' = [Bookings EXCEPT ![t] = NoDriver]
  PROVE  Abstract!Finish(t)
  BY DEF Abstract!Finish, WaitingTrips, Bookings

\* Trips that waited have drivers that nobody had, each its own.
LEMMA RoundIs ==
  ASSUME NEW Served \in SUBSET WaitingTrips, Served # {},
         NEW g \in [Served -> {d \in Drivers : \A t \in Trips : Bookings[t] # d}],
         \A t, u \in Served : g[t] = g[u] => t = u,
         Bookings' = [t \in Trips |-> IF t \in Served THEN g[t] ELSE Bookings[t]],
         WaitingTrips' = WaitingTrips \ Served
  PROVE  Abstract!Round(Served)
  BY DEF Abstract!Round, Abstract!Free, WaitingTrips, Bookings

\* A step of a trip is a rider that asks, a ride that ends, or nothing.
LEMMA TripStepMaps ==
  ASSUME TypeOK, TripPhase, NEW t \in Trips, TripStep(t),
         Bookings = [u \in Trips |-> DriverOf(u)], Bookings' = [u \in Trips |-> DriverOf(u)']
  PROVE  Abstract!Ask(t) \/ Abstract!Finish(t) \/ UNCHANGED <<WaitingTrips, Bookings>>
  <1> USE NamesAreDistinct
  <1>0. /\ tripStatus \in [Trips -> TripStatus]
        /\ tripHolder \in [Trips -> {"none", "request_ride", "confirm"}]
        /\ assignedDriver \in [Trips -> Drivers \cup {NoDriver}]
        /\ awakeable \in [Trips -> Drivers \cup {NoDriver}]
        /\ tripHolder[t] = "request_ride" => tripStatus[t] = "requested"
    BY DEF TypeOK, TripTypeOK, RestateTypeOK, TripPhase
  <1> DEFINE Same == \A u \in Trips : (Waiting(u)' <=> Waiting(u)) /\ DriverOf(u)' = DriverOf(u)
  <1>1. ASSUME Same PROVE UNCHANGED <<WaitingTrips, Bookings>>
    BY <1>1 DEF WaitingTrips
  <1>2. ASSUME NEW r \in Regions, RiderRequests(t, r) PROVE Same
    BY <1>0, <1>2 DEF RiderRequests, RequestRide, KeyFree, Waiting, DriverOf, restateVars
  <1>3. CASE OffersAnswers(t)
    BY <1>0, <1>1, <1>3 DEF OffersAnswers, QuoteReturned, Waiting, DriverOf, restateVars
  <1>4. CASE RiderConfirms(t)
    <2> USE <1>4 DEF RiderConfirms, Confirm, KeyFree
    <2>1. ~ Waiting(t) /\ Waiting(t)' /\ \A u \in Trips : u # t => (Waiting(u)' <=> Waiting(u))
      BY <1>0 DEF Waiting
    <2>2. DriverOf(t)' = NoDriver /\ \A u \in Trips : u # t => DriverOf(u)' = DriverOf(u)
      BY <1>0 DEF DriverOf
    <2>3. WaitingTrips' = WaitingTrips \cup {t}
      BY <2>1 DEF WaitingTrips
    <2>4. Bookings' = [Bookings EXCEPT ![t] = NoDriver]
      BY <2>2
    <2> QED  BY <2>1, <2>3, <2>4, AskIs
  <1>5. CASE ConfirmResumes(t)
    BY <1>0, <1>1, <1>5 DEF ConfirmResumes, MatchArrives, Waiting, DriverOf
  <1>6. ASSUME KeyFree(t), NEW s \in {"completed", "cancelled"}, s # tripStatus[t],
               tripStatus' = [tripStatus EXCEPT ![t] = s],
               UNCHANGED <<tripHolder, assignedDriver, awakeable>>
        PROVE  Abstract!Finish(t) \/ UNCHANGED <<WaitingTrips, Bookings>>
    <2>1. WaitingTrips' = WaitingTrips
      BY <1>6 DEF WaitingTrips, Waiting
    <2>2. DriverOf(t)' = NoDriver /\ \A u \in Trips : u # t => DriverOf(u)' = DriverOf(u)
      BY <1>0, <1>6 DEF DriverOf, KeyFree
    <2>3. Bookings' = [Bookings EXCEPT ![t] = NoDriver]
      BY <2>2
    <2>4. CASE Bookings[t] # NoDriver
      BY <2>1, <2>3, <2>4, FinishIs
    <2>5. CASE Bookings[t] = NoDriver
      BY <2>1, <2>2, <2>5
    <2> QED  BY <2>4, <2>5
  <1>7. ASSUME UNCHANGED <<tripStatus, tripHolder, assignedDriver, awakeable>> PROVE Same
    BY <1>7 DEF Waiting, DriverOf
  <1>8. CASE RideTimerFires(t) \/ OperatorCompletes(t)
    <2>1. /\ KeyFree(t)
          /\ UNCHANGED <<tripHolder, assignedDriver, awakeable>>
          /\ tripStatus' = [tripStatus EXCEPT ![t] = IF Over(t) THEN @ ELSE "completed"]
      BY <1>8 DEF RideTimerFires, RideEnds, OperatorCompletes, Complete, FinishRide
    <2>2. CASE Over(t)
      <3>1. tripStatus' = tripStatus
        BY <1>0, <2>1, <2>2
      <3> QED  BY <1>1, <1>7, <2>1, <3>1
    <2>3. CASE ~ Over(t)
      BY <1>6, <2>1, <2>3 DEF Over
    <2> QED  BY <2>2, <2>3
  <1>9. CASE OperatorCancels(t)
    <2>1. /\ KeyFree(t)
          /\ UNCHANGED <<tripHolder, assignedDriver, awakeable>>
          /\ tripStatus' = [tripStatus EXCEPT ![t] = "cancelled"]
      BY <1>9 DEF OperatorCancels, Cancel, restateVars
    <2>2. CASE tripStatus[t] = "cancelled"
      <3>1. tripStatus' = tripStatus
        BY <1>0, <2>1, <2>2
      <3> QED  BY <1>1, <1>7, <2>1, <3>1
    <2>3. CASE tripStatus[t] # "cancelled"
      BY <1>6, <2>1, <2>3
    <2> QED  BY <2>2, <2>3
  <1> QED  BY <1>1, <1>2, <1>3, <1>4, <1>5, <1>8, <1>9 DEF TripStep

\* The trips a round serves with assignment f, and what it answers them.
LEMMA ServedAre ==
  ASSUME TypeOK, NEW r \in Regions, NEW f \in Assignments(r), NEW t \in Trips
  PROVE  IF \E i \in 1..Matches(r) : pending[r][i] = t
         THEN \E i \in 1..Matches(r) :
                pending[r][i] = t /\ Resolve(r, f)[t] = f[i] /\ f[i] \in idle[r]
         ELSE Resolve(r, f)[t] = awakeable[t]
  <1>1. f \in [1..Matches(r) -> idle[r]]
    BY DEF Assignments
  <1>2. CASE \E i \in DOMAIN f : pending[r][i] = t
    <2>1. PICK i : i = CHOOSE j \in DOMAIN f : pending[r][j] = t
      OBVIOUS
    <2>2. i \in DOMAIN f /\ pending[r][i] = t
      BY <1>2, <2>1
    <2>3. Resolve(r, f)[t] = f[i]
      BY <1>2, <2>1 DEF Resolve
    <2> QED  BY <1>1, <2>2, <2>3
  <1>3. CASE ~ \E i \in DOMAIN f : pending[r][i] = t
    BY <1>1, <1>3 DEF Resolve
  <1> QED  BY <1>2, <1>3

\* A round is a round of the abstract specification, or matches nobody.
LEMMA EpochMatchesMaps ==
  ASSUME TypeOK, TokenConserved, BookingInv, NEW r \in Regions, EpochMatches(r),
         Bookings = [u \in Trips |-> DriverOf(u)], Bookings' = [u \in Trips |-> DriverOf(u)']
  PROVE  \/ \E Served \in SUBSET WaitingTrips : Abstract!Round(Served)
         \/ UNCHANGED <<WaitingTrips, Bookings>>
  <1> USE NamesAreDistinct
  <1>0. PICK f \in Assignments(r) : awakeable' = Resolve(r, f)
    BY DEF EpochMatches, CloseEpochMatch
  <1>1. UNCHANGED <<tripStatus, tripHolder, assignedDriver>> /\ epochRunning[r]
    BY DEF EpochMatches, CloseEpochMatch, RestOfDispatch, tripVars
  <1>2. /\ idle[r] \subseteq Drivers
        /\ Matches(r) \in Nat /\ Matches(r) <= Len(pending[r]) /\ Len(pending[r]) \in Nat
        /\ pending[r] \in Seq(Trips)
    BY MatchesBounds DEF TypeOK, DispatchTypeOK
  <1> DEFINE Served == {t \in Trips : \E i \in 1..Matches(r) : pending[r][i] = t}
             g == [t \in Served |-> awakeable'[t]]
  <1>3. ASSUME NEW t \in Trips, t \notin Served PROVE awakeable'[t] = awakeable[t]
    BY <1>0, <1>3, ServedAre
  <1>4. ASSUME NEW t \in Served
        PROVE  \E i \in 1..Matches(r) :
                 pending[r][i] = t /\ awakeable'[t] = f[i] /\ f[i] \in idle[r]
    BY <1>0, ServedAre
  <1>5. ASSUME NEW t \in Served PROVE Waiting(t)
    <2>1. PICK i \in 1..Matches(r) : pending[r][i] = t
      OBVIOUS
    <2>2. i \in QueuedIn(t, r)
      BY <1>2, <2>1 DEF QueuedIn, Places
    <2> QED  BY <2>2 DEF TokenConserved, TokenInOnePlace
  <1>6. CASE Served = {}
    BY <1>1, <1>3, <1>6 DEF WaitingTrips, Waiting, DriverOf
  <1>7. CASE Served # {}
    <2>1. Served \in SUBSET WaitingTrips
      BY <1>5 DEF WaitingTrips
    <2>2. ASSUME NEW d \in idle[r], NEW u \in Trips PROVE Bookings[u] # d
      <3>1. ~ Promised(u, d) /\ ~ Riding(u, d)
        BY <1>1, <1>2 DEF BookingInv, RoundsAreFair, RoundIsFair, Engaged
      <3> QED  BY <1>2, <3>1 DEF DriverOf, Promised, Riding
    <2>3. g \in [Served -> {d \in Drivers : \A u \in Trips : Bookings[u] # d}]
      BY <1>2, <1>4, <2>2
    <2>4. \A t, u \in Served : g[t] = g[u] => t = u
      <3>1. \A i, j \in 1..Matches(r) : f[i] = f[j] => i = j
        BY DEF Assignments
      <3> QED  BY <1>4, <3>1
    <2>5. WaitingTrips' = WaitingTrips \ Served
      <3>1. \A t \in Served : awakeable'[t] # NoDriver
        BY <1>2, <1>4
      <3> QED  BY <1>1, <1>3, <3>1 DEF WaitingTrips, Waiting
    <2>6. Bookings' = [t \in Trips |-> IF t \in Served THEN g[t] ELSE Bookings[t]]
      <3>1. ASSUME NEW t \in Served PROVE DriverOf(t)' = g[t]
        BY <1>1, <1>5 DEF DriverOf, Waiting
      <3>2. ASSUME NEW t \in Trips, t \notin Served PROVE DriverOf(t)' = DriverOf(t)
        BY <1>1, <1>3, <3>2 DEF DriverOf
      <3> QED  BY <3>1, <3>2
    <2> HIDE DEF Served, g
    <2>7. Abstract!Round(Served)
      BY <1>7, <2>1, <2>3, <2>4, <2>5, <2>6, RoundIs
    <2> QED  BY <2>1, <2>7
  <1> QED  BY <1>6, <1>7

\* Every step maps to a step of the abstract specification or a stutter.
LEMMA NextMaps ==
  ASSUME TypeOK, TypeOK', TripPhase, TripPhase', TokenConserved, BookingInv, [Next]_vars
  PROVE  [Abstract!MatchmakingNext]_(Abstract!matchmakingVars)
  <1>1. Bookings = [u \in Trips |-> DriverOf(u)]
    BY BookingsAre
  <1>2. Bookings' = [u \in Trips |-> DriverOf(u)']
    <2>1. (TypeOK /\ TripPhase => Bookings = [t \in Trips |-> DriverOf(t)])'
      BY BookingsAre, PTL
    <2> QED  BY <2>1
  <1>3. ASSUME UNCHANGED <<WaitingTrips, Bookings>>
        PROVE  UNCHANGED Abstract!matchmakingVars
    BY <1>3 DEF Abstract!matchmakingVars, WaitingTrips, Bookings
  <1>4. ASSUME UNCHANGED <<tripVars, awakeable>> PROVE UNCHANGED <<WaitingTrips, Bookings>>
    BY <1>1, <1>2, <1>4 DEF tripVars, WaitingTrips, Waiting, DriverOf
  <1>5. ASSUME NEW t \in Trips, TripStep(t)
        PROVE  Abstract!MatchmakingNext \/ UNCHANGED <<WaitingTrips, Bookings>>
    BY <1>1, <1>2, <1>5, TripStepMaps DEF Abstract!MatchmakingNext
  <1>6. ASSUME NEW d \in Drivers, DriverStep(d) PROVE UNCHANGED <<tripVars, awakeable>>
    BY <1>6 DEF DriverStep, DriverGoesOnline, OperatorForcesIdle, DriverGoesOffline,
       RestOfLocations, DriverPings, restateVars, LocationsTakesAcceptTrip, LocationsTakesSetStatus
  <1>7. ASSUME NEW r \in Regions, RegionStep(r)
        PROVE  Abstract!MatchmakingNext \/ UNCHANGED <<WaitingTrips, Bookings>>
    <2>1. CASE EpochMatches(r)
      <3>1. \/ \E Served \in SUBSET WaitingTrips : Abstract!Round(Served)
            \/ UNCHANGED <<WaitingTrips, Bookings>>
        BY <1>1, <1>2, <2>1, EpochMatchesMaps
      <3> QED  BY <3>1 DEF Abstract!MatchmakingNext, WaitingTrips
    <2>2. CASE ~ EpochMatches(r)
      BY <1>4, <1>7, <2>2 DEF RegionStep, AgentHalts, AgentResumes, RestOfAgent, RestOfDispatch,
         DispatchTakesTrip, DispatchTakesCompletion, DispatchTakesDriver, DispatchTakesSetActive,
         EpochSkipped, EpochBegins, EpochReads, restateVars
    <2> QED  BY <2>1, <2>2
  <1>8. ASSUME UNCHANGED vars PROVE UNCHANGED <<tripVars, awakeable>>
    BY <1>8 DEF vars, restateVars
  <1> QED  BY <1>3, <1>4, <1>5, <1>6, <1>7, <1>8 DEF Next

\* Nobody waits and nobody is booked at the start.
LEMMA InitMaps == Init => Abstract!MatchmakingInit
  BY NamesAreDistinct DEF Init, RestateInit, TripInit, Abstract!MatchmakingInit, Waiting,
     BookedDriver, Booked

\* Under the same assumptions the composed services implement Matchmaking: a round
\* serves riders who wait with drivers that no ride in progress has.
THEOREM ServicesMatch ==
  ASSUME Timely
  PROVE  Spec => ImplementsMatchmaking
  <1>1. /\ TypeOK /\ TypeOK' /\ TripPhase /\ TripPhase' /\ TokenConserved /\ BookingInv
        /\ [Next]_vars
        => [Abstract!MatchmakingNext]_(Abstract!matchmakingVars)
    BY NextMaps
  <1> QED
    BY <1>1, InitMaps, TypeCorrect, TokensAreConserved, PhaseInvariant, BookingInvariant, PTL
       DEF Spec, ImplementsMatchmaking, Abstract!MatchmakingSpec

-----------------------------------------------------------------------------
(* The count of the rides in flight.                                       *)

\* RiderSim confirms an offer once and nobody but the ride itself ends it.
RidesRunTheirCourse == MaxConfirms <= 1 /\ Extras \cap {"cancel", "complete"} = {}

NotesTo(t, r) == Places(tripToDispatch[t][r], "note_completion")

MatchedIn(r) == {t \in Trips : tripRegion[t] = r /\ awakeable[t] # NoDriver}
CountedIn(r) ==
  {t \in Trips : tripRegion[t] = r /\ tripStatus[t] = "completed" /\ NotesTo(t, r) = {}}

\* A trip notes its completion once, to its own region, and completes only after
\* a match; a trip that nobody confirmed was not matched.
CourseFits(t) ==
  /\ \A r \in Regions : NotesTo(t, r) # {} =>
       Singleton(NotesTo(t, r)) /\ tripRegion[t] = r /\ tripStatus[t] = "completed"
  /\ completeTimer[t] > 0 \/ tripStatus[t] \in {"assigned", "completed"} =>
       tripStatus[t] \in {"assigned", "completed"} /\ awakeable[t] # NoDriver
  /\ confirms[t] = 0 => awakeable[t] = NoDriver /\ tripStatus[t] \in {"none", "requested", "quoted"}

CountsFit(r) ==
  /\ IsFiniteSet(MatchedIn(r))
  /\ totalMatched[r] = Cardinality(MatchedIn(r))
  /\ totalCompleted[r] = Cardinality(CountedIn(r))

CoursesFit == \A t \in Trips : CourseFits(t)
AccountInv == CoursesFit /\ \A r \in Regions : CountsFit(r)

\* A step that matches and counts no trip preserves the counts.
LEMMA AccountFrame ==
  ASSUME AccountInv, CoursesFit', UNCHANGED <<totalMatched, totalCompleted>>,
         \A r \in Regions : MatchedIn(r)' = MatchedIn(r) /\ CountedIn(r)' = CountedIn(r)
  PROVE  AccountInv'
  BY DEF AccountInv, CountsFit

\* A note more, or another message, on the way from a trip.
LEMMA NotesAfterSend ==
  ASSUME TypeOK, NEW t \in Trips, NEW q \in Regions, NEW m \in {"enqueue_trip", "note_completion"},
         tripToDispatch' = Send(tripToDispatch, t, q, m), NEW u \in Trips, NEW r \in Regions
  PROVE  /\ u # t \/ r # q \/ m = "enqueue_trip" => NotesTo(u, r)' = NotesTo(u, r)
         /\ u = t /\ r = q /\ m = "note_completion" /\ NotesTo(u, r) = {} => Singleton(NotesTo(u, r)')
  <1>0. /\ tripToDispatch \in [Trips -> [Regions -> Seq({"enqueue_trip", "note_completion"})]]
        /\ tripToDispatch[u][r] \in Seq({"enqueue_trip", "note_completion"})
    BY DEF TypeOK, RestateTypeOK
  <1>1. /\ u # t \/ r # q => tripToDispatch'[u][r] = tripToDispatch[u][r]
        /\ u = t /\ r = q => tripToDispatch'[u][r] = Append(tripToDispatch[u][r], m)
    BY <1>0 DEF Send
  <1>2. m = "enqueue_trip" =>
          Places(Append(tripToDispatch[u][r], m), "note_completion") = NotesTo(u, r)
    BY <1>0, PlacesAppendOther DEF NotesTo
  <1>3. NotesTo(u, r) = {} =>
          Singleton(Places(Append(tripToDispatch[u][r], "note_completion"), "note_completion"))
    BY <1>0, PlacesAppendSame DEF NotesTo
  <1>4. u # t \/ r # q \/ m = "enqueue_trip" => NotesTo(u, r)' = NotesTo(u, r)
    BY <1>1, <1>2 DEF NotesTo
  <1>5. u = t /\ r = q /\ m = "note_completion" /\ NotesTo(u, r) = {} => Singleton(NotesTo(u, r)')
    BY <1>1, <1>3 DEF NotesTo
  <1> QED  BY <1>4, <1>5

\* A step of a trip matches and counts nothing.
LEMMA TripStepAccount ==
  ASSUME TypeOK, HomeInv, TripPhase, AccountInv, RidesRunTheirCourse, NEW t \in Trips, TripStep(t)
  PROVE  AccountInv'
  <1> USE NamesAreDistinct, ClientAssumptions
  <1>0. /\ tripStatus \in [Trips -> TripStatus]
        /\ tripRegion \in [Trips -> Regions \cup {NoRegion}]
        /\ tripHolder \in [Trips -> {"none", "request_ride", "confirm"}]
        /\ completeTimer \in [Trips -> Nat]
        /\ awakeable \in [Trips -> Drivers \cup {NoDriver}]
        /\ confirms \in [Trips -> Nat]
        /\ tripHolder[t] = "request_ride" => tripStatus[t] = "requested"
        /\ tripHolder[t] = "confirm" => tripStatus[t] = "dispatching"
        /\ \A u \in Trips : CourseFits(u)
        /\ MatchIsLocal(t)
    BY DEF TypeOK, TripTypeOK, RestateTypeOK, TripPhase, AccountInv, CoursesFit, HomeInv,
       MatchesAreLocal
  <1>1. UNCHANGED <<totalMatched, totalCompleted>>
    BY OthersLeaveDispatch DEF dispatchVars
  <1>2. ASSUME \A u \in Trips : CourseFits(u)' /\ awakeable'[u] = awakeable[u],
               \A u \in Trips : tripRegion'[u] = tripRegion[u] \/ awakeable[u] = NoDriver,
               \A u \in Trips, r \in Regions :
                 (tripRegion[u] = r /\ tripStatus[u] = "completed" /\ NotesTo(u, r) = {})'
                 <=> (tripRegion[u] = r /\ tripStatus[u] = "completed" /\ NotesTo(u, r) = {})
        PROVE  AccountInv'
    <2>1. ASSUME NEW r \in Regions PROVE MatchedIn(r)' = MatchedIn(r) /\ CountedIn(r)' = CountedIn(r)
      BY <1>2 DEF MatchedIn, CountedIn
    <2> QED  BY <1>1, <1>2, <2>1, AccountFrame DEF CoursesFit
  <1>3. ASSUME UNCHANGED tripToDispatch
        PROVE  \A u \in Trips, r \in Regions : NotesTo(u, r)' = NotesTo(u, r)
    BY <1>3 DEF NotesTo
  <1>4. ASSUME NEW q \in Regions, RiderRequests(t, q) PROVE AccountInv'
    <2>1. /\ UNCHANGED <<tripToDispatch, awakeable, confirms, completeTimer>>
          /\ tripRegion' = [tripRegion EXCEPT ![t] = q]
          /\ tripStatus' = [tripStatus EXCEPT ![t] = "requested"]
          /\ tripStatus[t] = "none"
      BY <1>4 DEF RiderRequests, RequestRide, restateVars, channels, clientVars
    <2>2. awakeable[t] = NoDriver
      BY <1>0, <2>1 DEF MatchIsLocal
    <2> QED  BY <1>0, <1>2, <1>3, <2>1, <2>2 DEF CourseFits
  <1>5. CASE OffersAnswers(t)
    <2>1. /\ UNCHANGED <<tripToDispatch, awakeable, confirms, completeTimer, tripRegion>>
          /\ tripStatus' = [tripStatus EXCEPT ![t] = "quoted"]
          /\ tripStatus[t] = "requested"
      BY <1>0, <1>5 DEF OffersAnswers, QuoteReturned, restateVars, channels, clientVars
    <2> QED  BY <1>0, <1>2, <1>3, <2>1 DEF CourseFits
  <1>6. CASE RiderConfirms(t)
    <2>1. /\ UNCHANGED <<completeTimer, tripRegion>>
          /\ tripStatus' = [tripStatus EXCEPT ![t] = "dispatching"]
          /\ confirms[t] = 0 /\ confirms' = [confirms EXCEPT ![t] = @ + 1]
          /\ awakeable' = [awakeable EXCEPT ![t] = NoDriver]
          /\ tripRegion[t] \in Regions
          /\ tripToDispatch' = Send(tripToDispatch, t, tripRegion[t], "enqueue_trip")
      BY <1>0, <1>6 DEF RiderConfirms, Confirm, WasQuoted, RidesRunTheirCourse
    <2>2. \A u \in Trips, r \in Regions : NotesTo(u, r)' = NotesTo(u, r)
      BY <2>1, NotesAfterSend
    <2>3. tripStatus[t] \in {"none", "requested", "quoted"} /\ awakeable' = awakeable
      BY <1>0, <2>1 DEF CourseFits
    <2>4. ASSUME NEW u \in Trips PROVE CourseFits(u)'
      BY <1>0, <2>1, <2>2, <2>3 DEF CourseFits
    <2> QED  BY <1>0, <1>2, <2>1, <2>2, <2>3, <2>4
  <1>7. CASE ConfirmResumes(t)
    <2>1. /\ UNCHANGED <<tripToDispatch, awakeable, confirms, tripRegion>>
          /\ tripStatus' = [tripStatus EXCEPT ![t] = "assigned"]
          /\ completeTimer' = [completeTimer EXCEPT ![t] = @ + 1]
          /\ tripStatus[t] = "dispatching" /\ awakeable[t] # NoDriver
      BY <1>0, <1>7 DEF ConfirmResumes, MatchArrives, StartRide, clientVars
    <2> QED  BY <1>0, <1>2, <1>3, <2>1 DEF CourseFits
  <1>8. CASE RideTimerFires(t)
    <2>1. /\ UNCHANGED <<awakeable, confirms, tripRegion>>
          /\ completeTimer[t] > 0
          /\ completeTimer' = [completeTimer EXCEPT ![t] = @ - 1]
          /\ tripStatus' = [tripStatus EXCEPT ![t] = IF Over(t) THEN @ ELSE "completed"]
          /\ tripToDispatch' = IF Over(t) THEN tripToDispatch ELSE CountCompletion(t)
      BY <1>8 DEF RideTimerFires, RideEnds, FinishRide, clientVars
    <2>2. tripStatus[t] \in {"assigned", "completed"} /\ awakeable[t] # NoDriver
      BY <1>0, <2>1 DEF CourseFits
    <2>3. CASE Over(t)
      <3>1. tripStatus' = tripStatus /\ tripToDispatch' = tripToDispatch
        BY <1>0, <2>1, <2>3
      <3> QED  BY <1>0, <1>2, <1>3, <2>1, <3>1 DEF CourseFits
    <2>4. CASE ~ Over(t)
      <3>1. /\ tripStatus[t] = "assigned" /\ tripStatus' = [tripStatus EXCEPT ![t] = "completed"]
            /\ tripRegion[t] \in Regions
            /\ tripToDispatch' = Send(tripToDispatch, t, tripRegion[t], "note_completion")
        BY <1>0, <2>1, <2>2, <2>4 DEF Over, MatchIsLocal, CountCompletion
      <3>2. \A r \in Regions : NotesTo(t, r) = {}
        BY <1>0, <3>1 DEF CourseFits
      <3>3. ASSUME NEW u \in Trips, NEW r \in Regions
            PROVE  /\ u # t \/ r # tripRegion[t] => NotesTo(u, r)' = NotesTo(u, r)
                   /\ u = t /\ r = tripRegion[t] => Singleton(NotesTo(u, r)')
        BY <3>1, <3>2, NotesAfterSend
      <3>4. Singleton(NotesTo(t, tripRegion[t])') => NotesTo(t, tripRegion[t])' # {}
        BY DEF Singleton
      <3>5. ASSUME NEW u \in Trips PROVE CourseFits(u)'
        <4>1. CASE u = t
          BY <1>0, <2>1, <2>2, <3>1, <3>2, <3>3, <4>1 DEF CourseFits
        <4>2. CASE u # t
          BY <1>0, <2>1, <3>1, <3>3, <4>2 DEF CourseFits
        <4> QED  BY <4>1, <4>2
      <3>6. ASSUME NEW u \in Trips, NEW r \in Regions
            PROVE  (tripRegion[u] = r /\ tripStatus[u] = "completed" /\ NotesTo(u, r) = {})'
                   <=> (tripRegion[u] = r /\ tripStatus[u] = "completed" /\ NotesTo(u, r) = {})
        <4>1. CASE u = t
          BY <2>1, <3>1, <3>3, <3>4, <4>1
        <4>2. CASE u # t
          BY <1>0, <2>1, <3>1, <3>3, <4>2
        <4> QED  BY <4>1, <4>2
      <3> QED  BY <1>2, <2>1, <3>5, <3>6
    <2> QED  BY <2>3, <2>4
  <1>9. ~ OperatorCompletes(t) /\ ~ OperatorCancels(t)
    BY DEF RidesRunTheirCourse, OperatorCompletes, OperatorCancels
  <1> QED  BY <1>4, <1>5, <1>6, <1>7, <1>8, <1>9 DEF TripStep

\* As many trips are served as the round makes matches.
LEMMA ServedCount ==
  ASSUME TypeOK, TokenConserved, NEW r \in Regions,
         NEW Served, Served = {t \in Trips : \E i \in 1..Matches(r) : pending[r][i] = t}
  PROVE  IsFiniteSet(Served) /\ Cardinality(Served) = Matches(r)
  <1>1. /\ Matches(r) \in Nat /\ Matches(r) <= Len(pending[r]) /\ Len(pending[r]) \in Nat
        /\ pending[r] \in Seq(Trips)
    BY MatchesBounds DEF TypeOK, DispatchTypeOK
  <1> DEFINE m == Matches(r)
             f == [i \in 1..m |-> pending[r][i]]
  <1>2. \A i \in 1..m : i \in 1..Len(pending[r]) /\ pending[r][i] \in Trips
    BY <1>1
  <1>3. ASSUME NEW i \in 1..m, NEW j \in 1..m, pending[r][i] = pending[r][j] PROVE i = j
    <2>1. PICK t \in Trips : pending[r][i] = t
      BY <1>2
    <2>2. i \in QueuedIn(t, r) /\ j \in QueuedIn(t, r)
      BY <1>2, <1>3, <2>1 DEF QueuedIn, Places
    <2>3. Singleton(QueuedIn(t, r))
      BY <2>2 DEF TokenConserved, TokenInOnePlace
    <2> QED  BY <2>2, <2>3 DEF Singleton
  <1>4. f \in Bijection(1..m, Served)
    <2>1. f \in [1..m -> Served]
      BY <1>2
    <2>2. \A i, j \in 1..m : f[i] = f[j] => i = j
      BY <1>3
    <2>3. \A t \in Served : \E i \in 1..m : f[i] = t
      OBVIOUS
    <2> HIDE DEF f, m
    <2> QED  BY <2>1, <2>2, <2>3, Fun_IsBij
  <1>5. IsFiniteSet(1..m) /\ Cardinality(1..m) = m
    BY <1>1, FS_Interval
  <1> HIDE DEF f, m
  <1>6. ExistsBijection(1..m, Served)
    BY <1>4 DEF ExistsBijection
  <1>7. IsFiniteSet(Served) /\ Cardinality(Served) = m
    BY <1>5, <1>6, FS_Bijection
  <1> QED  BY <1>7 DEF m

\* Every other course stays as it fits while nothing is said of it.
LEMMA CourseFrame ==
  ASSUME NEW u \in Trips, CourseFits(u),
         UNCHANGED <<tripRegion, tripStatus, completeTimer, confirms>>,
         awakeable'[u] = awakeable[u],
         \A r \in Regions : /\ NotesTo(u, r)' = {} <=> NotesTo(u, r) = {}
                            /\ Singleton(NotesTo(u, r)) => Singleton(NotesTo(u, r)')
  PROVE  CourseFits(u)'
  BY DEF CourseFits

\* Dispatch counts a completion once.
LEMMA CompletionAccount ==
  ASSUME TypeOK, AccountInv, NEW t \in Trips, NEW q \in Regions, DispatchTakesCompletion(t, q)
  PROVE  AccountInv'
  <1>0. /\ tripToDispatch \in [Trips -> [Regions -> Seq({"enqueue_trip", "note_completion"})]]
        /\ tripToDispatch[t][q] \in Seq({"enqueue_trip", "note_completion"})
        /\ totalCompleted \in [Regions -> Nat]
        /\ \A u \in Trips : CourseFits(u)
        /\ \A r \in Regions : CountsFit(r)
    BY DEF TypeOK, RestateTypeOK, DispatchTypeOK, AccountInv, CoursesFit
  <1>1. /\ tripToDispatch[t][q] # << >> /\ Head(tripToDispatch[t][q]) = "note_completion"
        /\ tripToDispatch' = Take(tripToDispatch, t, q)
        /\ totalCompleted' = [totalCompleted EXCEPT ![q] = @ + 1]
        /\ UNCHANGED <<tripRegion, tripStatus, completeTimer, confirms, awakeable, totalMatched>>
    BY DEF DispatchTakesCompletion, Arrived, NoteCompletion, RestOfDispatch, tripVars, clientVars
  <1>2. /\ NotesTo(t, q) # {}
        /\ Singleton(NotesTo(t, q)) => Places(Tail(tripToDispatch[t][q]), "note_completion") = {}
    BY <1>0, <1>1, PlacesTail DEF NotesTo
  <1>3. Singleton(NotesTo(t, q)) /\ tripRegion[t] = q /\ tripStatus[t] = "completed"
    BY <1>0, <1>2 DEF CourseFits
  <1>4. NotesTo(t, q)' = {}
    BY <1>0, <1>1, <1>2, <1>3 DEF NotesTo, Take
  <1>5. ASSUME NEW u \in Trips, NEW r \in Regions, u # t \/ r # q
        PROVE  NotesTo(u, r)' = NotesTo(u, r)
    BY <1>0, <1>1, <1>5 DEF NotesTo, Take
  <1>6. ASSUME NEW u \in Trips PROVE CourseFits(u)'
    <2>1. CASE u = t
      BY <1>0, <1>1, <1>4, <1>5, <2>1 DEF CourseFits
    <2>2. CASE u # t
      BY <1>0, <1>1, <1>5, <2>2, CourseFrame
    <2> QED  BY <2>1, <2>2
  <1>7. ASSUME NEW r \in Regions PROVE CountsFit(r)'
    <2>0. MatchedIn(r)' = MatchedIn(r)
      BY <1>1 DEF MatchedIn
    <2>1. CASE r # q
      <3>1. CountedIn(r)' = CountedIn(r)
        BY <1>1, <1>5, <2>1 DEF CountedIn
      <3> QED  BY <1>0, <1>1, <2>0, <2>1, <3>1 DEF CountsFit
    <2>2. CASE r = q
      <3>1. CountedIn(r)' = CountedIn(r) \cup {t} /\ t \notin CountedIn(r)
        BY <1>1, <1>2, <1>3, <1>4, <1>5, <2>2 DEF CountedIn
      <3>2. CountedIn(r) \in SUBSET MatchedIn(r)
        BY <1>0 DEF CountedIn, MatchedIn, CourseFits
      <3>3. IsFiniteSet(CountedIn(r))
        BY <1>0, <3>2, FS_Subset DEF CountsFit
      <3>4. Cardinality(CountedIn(r) \cup {t}) = Cardinality(CountedIn(r)) + 1
        BY <3>1, <3>3, FS_AddElement
      <3>5. totalCompleted'[r] = totalCompleted[r] + 1
        BY <1>0, <1>1, <2>2
      <3> QED  BY <1>0, <1>1, <2>0, <3>1, <3>4, <3>5 DEF CountsFit
    <2> QED  BY <2>1, <2>2
  <1> QED  BY <1>6, <1>7 DEF AccountInv, CoursesFit

\* A round counts the trips it serves.
LEMMA RoundAccount ==
  ASSUME TypeOK, TokenConserved, TripPhase, AccountInv, NEW q \in Regions, EpochMatches(q)
  PROVE  AccountInv'
  <1> USE NamesAreDistinct
  <1>0. /\ idle[q] \subseteq Drivers /\ totalMatched \in [Regions -> Nat]
        /\ \A u \in Trips : CourseFits(u)
        /\ \A r \in Regions : CountsFit(r)
        /\ Matches(q) \in Nat /\ Matches(q) <= Len(pending[q]) /\ Len(pending[q]) \in Nat
    BY MatchesBounds DEF TypeOK, DispatchTypeOK, AccountInv, CoursesFit
  <1>1. PICK f \in Assignments(q) : awakeable' = Resolve(q, f)
    BY DEF EpochMatches, CloseEpochMatch
  <1>2. /\ UNCHANGED <<tripRegion, tripStatus, tripHolder, completeTimer, confirms, tripToDispatch,
                       totalCompleted>>
        /\ totalMatched' = [totalMatched EXCEPT ![q] = @ + Matches(q)]
    BY DEF EpochMatches, CloseEpochMatch, channels, RestOfDispatch, tripVars, clientVars
  <1>3. PICK Served : Served = {t \in Trips : \E i \in 1..Matches(q) : pending[q][i] = t}
    OBVIOUS
  <1>4. ASSUME NEW t \in Served PROVE awakeable'[t] # NoDriver
    BY <1>0, <1>1, <1>3, ServedAre
  <1>5. ASSUME NEW t \in Trips, t \notin Served PROVE awakeable'[t] = awakeable[t]
    BY <1>1, <1>3, <1>5, ServedAre
  <1>6. ASSUME NEW t \in Served
        PROVE  t \in Trips /\ Waiting(t) /\ tripRegion[t] = q /\ tripStatus[t] = "dispatching"
    <2>1. PICK i \in 1..Matches(q) : pending[q][i] = t
      BY <1>3
    <2>2. i \in QueuedIn(t, q)
      BY <1>0, <2>1 DEF QueuedIn, Places
    <2>3. t \in Trips /\ Waiting(t) /\ tripRegion[t] = q
      BY <1>3, <2>2 DEF TokenConserved, TokenInOnePlace
    <2> QED  BY <2>3 DEF Waiting, TripPhase
  <1>7. \A u \in Trips, r \in Regions : NotesTo(u, r)' = NotesTo(u, r)
    BY <1>2 DEF NotesTo
  <1>8. ASSUME NEW u \in Trips PROVE CourseFits(u)'
    <2>1. CASE u \in Served
      BY <1>0, <1>2, <1>4, <1>6, <1>7, <2>1 DEF CourseFits
    <2>2. CASE u \notin Served
      BY <1>0, <1>2, <1>5, <1>7, <2>2, CourseFrame
    <2> QED  BY <2>1, <2>2
  <1>9. ASSUME NEW r \in Regions PROVE CountsFit(r)'
    <2>0. CountedIn(r)' = CountedIn(r)
      BY <1>2, <1>7 DEF CountedIn
    <2>1. CASE r # q
      <3>1. MatchedIn(r)' = MatchedIn(r)
        BY <1>2, <1>5, <1>6, <2>1 DEF MatchedIn
      <3> QED  BY <1>0, <1>2, <2>0, <2>1, <3>1 DEF CountsFit
    <2>2. CASE r = q
      <3>1. MatchedIn(r)' = MatchedIn(r) \cup Served /\ MatchedIn(r) \cap Served = {}
        BY <1>2, <1>4, <1>5, <1>6, <2>2 DEF MatchedIn, Waiting
      <3>2. IsFiniteSet(Served) /\ Cardinality(Served) = Matches(q)
        BY <1>3, ServedCount
      <3>3. IsFiniteSet(MatchedIn(r)) /\ Cardinality(MatchedIn(r)) \in Nat
        BY <1>0, FS_CardinalityType DEF CountsFit
      <3>4. /\ IsFiniteSet(MatchedIn(r) \cup Served)
            /\ Cardinality(MatchedIn(r) \cup Served) = Cardinality(MatchedIn(r)) + Matches(q)
        <4>1. /\ IsFiniteSet(MatchedIn(r) \cup Served)
              /\ Cardinality(MatchedIn(r) \cup Served) =
                   Cardinality(MatchedIn(r)) + Cardinality(Served) - Cardinality({})
          BY <3>1, <3>2, <3>3, FS_Union
        <4> QED  BY <1>0, <3>2, <3>3, <4>1, FS_EmptySet
      <3>5. totalMatched'[r] = totalMatched[r] + Matches(q)
        BY <1>0, <1>2, <2>2
      <3> QED  BY <1>0, <1>2, <2>0, <3>1, <3>4, <3>5 DEF CountsFit
    <2> QED  BY <2>1, <2>2
  <1> QED  BY <1>8, <1>9 DEF AccountInv, CoursesFit

\* Every step, and every stutter, preserves AccountInv.
LEMMA NextAccount ==
  ASSUME TypeOK, TokenConserved, HomeInv, TripPhase, AccountInv, RidesRunTheirCourse, [Next]_vars
  PROVE  AccountInv'
  <1>1. ASSUME UNCHANGED <<tripVars, awakeable, confirms, totalMatched, totalCompleted>>,
               \A u \in Trips, r \in Regions :
                 /\ NotesTo(u, r)' = {} <=> NotesTo(u, r) = {}
                 /\ Singleton(NotesTo(u, r)) => Singleton(NotesTo(u, r)')
        PROVE  AccountInv'
    <2>1. CoursesFit'
      BY <1>1, CourseFrame DEF AccountInv, CoursesFit, tripVars
    <2>2. \A r \in Regions : MatchedIn(r)' = MatchedIn(r) /\ CountedIn(r)' = CountedIn(r)
      BY <1>1 DEF MatchedIn, CountedIn, tripVars
    <2> QED  BY <1>1, <2>1, <2>2, AccountFrame
  <1>2. ASSUME UNCHANGED <<tripVars, awakeable, confirms, totalMatched, totalCompleted, tripToDispatch>>
        PROVE  AccountInv'
    BY <1>1, <1>2 DEF NotesTo
  <1>3. CASE UNCHANGED vars
    BY <1>2, <1>3 DEF vars, restateVars, channels, dispatchVars, clientVars
  <1>4. ASSUME NEW d \in Drivers, DriverStep(d) PROVE AccountInv'
    <2>1. UNCHANGED <<tripVars, awakeable, confirms, totalMatched, totalCompleted, tripToDispatch>>
      BY <1>4 DEF DriverStep, DriverGoesOnline, OperatorForcesIdle, DriverGoesOffline,
         RestOfLocations, DriverPings, restateVars, channels, LocationsTakesAcceptTrip,
         LocationsTakesSetStatus, dispatchVars, clientVars
    <2> QED  BY <1>2, <2>1
  <1>5. ASSUME NEW r \in Regions, RegionStep(r) PROVE AccountInv'
    <2>1. CASE \/ AgentHalts(r) \/ AgentResumes(r)
               \/ \E d \in Drivers : DispatchTakesDriver(d, r) \/ EpochReads(r, d)
               \/ DispatchTakesSetActive(r) \/ EpochSkipped(r) \/ EpochBegins(r)
      <3>1. UNCHANGED <<tripVars, awakeable, confirms, totalMatched, totalCompleted, tripToDispatch>>
        BY <2>1 DEF AgentHalts, AgentResumes, RestOfAgent, RestOfDispatch, DispatchTakesDriver,
           RegisterDriver, DeregisterDriver, EpochReads, ReadPosition, DispatchTakesSetActive,
           SetActive, EpochSkipped, CloseEpochHalted, EpochBegins, CloseEpochBegin, restateVars,
           channels, dispatchVars, clientVars
      <3> QED  BY <1>2, <3>1
    <2>2. ASSUME NEW t \in Trips, DispatchTakesTrip(t, r) PROVE AccountInv'
      <3>0. /\ tripToDispatch \in [Trips -> [Regions -> Seq({"enqueue_trip", "note_completion"})]]
            /\ tripToDispatch[t][r] \in Seq({"enqueue_trip", "note_completion"})
            /\ CourseFits(t)
        BY DEF TypeOK, RestateTypeOK, AccountInv, CoursesFit
      <3>1. /\ UNCHANGED <<tripVars, awakeable, confirms, totalMatched, totalCompleted>>
            /\ tripToDispatch[t][r] # << >> /\ Head(tripToDispatch[t][r]) # "note_completion"
            /\ tripToDispatch' = Take(tripToDispatch, t, r)
        BY <2>2 DEF DispatchTakesTrip, Arrived, EnqueueTrip, RestOfDispatch, clientVars
      <3>2. /\ NotesTo(t, r) = {} => Places(Tail(tripToDispatch[t][r]), "note_completion") = {}
            /\ Singleton(NotesTo(t, r)) =>
                 Singleton(Places(Tail(tripToDispatch[t][r]), "note_completion"))
        BY <3>0, <3>1, PlacesTail DEF NotesTo
      <3>3. tripToDispatch'[t][r] = Tail(tripToDispatch[t][r])
        BY <3>0, <3>1 DEF Take
      <3>4. Singleton(NotesTo(t, r)') => NotesTo(t, r)' # {}
        BY DEF Singleton
      <3>5. /\ NotesTo(t, r)' = {} <=> NotesTo(t, r) = {}
            /\ Singleton(NotesTo(t, r)) => Singleton(NotesTo(t, r)')
        BY <3>0, <3>2, <3>3, <3>4 DEF NotesTo, CourseFits
      <3>6. ASSUME NEW u \in Trips, NEW q \in Regions, u # t \/ q # r
            PROVE  NotesTo(u, q)' = NotesTo(u, q)
        BY <3>0, <3>1, <3>6 DEF NotesTo, Take
      <3> QED  BY <1>1, <3>1, <3>5, <3>6
    <2>3. ASSUME NEW t \in Trips, DispatchTakesCompletion(t, r) PROVE AccountInv'
      BY <2>3, CompletionAccount
    <2>4. CASE EpochMatches(r)
      BY <2>4, RoundAccount
    <2> QED  BY <1>5, <2>1, <2>2, <2>3, <2>4 DEF RegionStep
  <1> QED  BY <1>3, <1>4, <1>5, TripStepAccount DEF Next

\* Nothing is matched, completed or noted at the start.
LEMMA InitAccount == Init => AccountInv
  <1> USE DEF Init, RestateInit, NoMessages, TripInit, DispatchInit
  <1> SUFFICES ASSUME Init PROVE AccountInv
    OBVIOUS
  <1>1. ASSUME NEW t \in Trips PROVE CourseFits(t)
    <2>1. ASSUME NEW r \in Regions PROVE NotesTo(t, r) = {}
      BY DEF NotesTo, Places
    <2> QED  BY <2>1 DEF CourseFits
  <1>2. ASSUME NEW r \in Regions PROVE CountsFit(r)
    <2>1. MatchedIn(r) = {} /\ CountedIn(r) = {}
      BY DEF MatchedIn, CountedIn
    <2> QED  BY <2>1, FS_EmptySet DEF CountsFit
  <1> QED  BY <1>1, <1>2 DEF AccountInv, CoursesFit

\* A trip that was matched rides, has its completion on the way, or is counted.
LEMMA CountsAddUp ==
  ASSUME AccountInv, NEW r \in Regions
  PROVE  InFlightReported(r) = Cardinality(RidesUnderWay(r)) + Cardinality(CompletionsInFlight(r))
  <1>1. /\ CountsFit(r)
        /\ \A t \in Trips : CourseFits(t)
    BY DEF AccountInv, CoursesFit
  <1> DEFINE M == MatchedIn(r)
             C == CountedIn(r)
             U == RidesUnderWay(r)
             F == CompletionsInFlight(r)
  <1>2. \A t \in Trips : t \in F <=> NotesTo(t, r) # {}
    BY DEF CompletionsInFlight, InFlight, NotesTo, Places
  <1>3. /\ M = (U \cup F) \cup C
        /\ U \cap F = {} /\ (U \cup F) \cap C = {}
        /\ F \subseteq Trips /\ U \subseteq Trips /\ C \subseteq Trips
    <2>1. F \subseteq Trips /\ U \subseteq Trips /\ C \subseteq Trips /\ M \subseteq Trips
      BY DEF CompletionsInFlight, RidesUnderWay, CountedIn, MatchedIn
    <2>2. ASSUME NEW t \in Trips
          PROVE  /\ t \in M <=> t \in U \/ t \in F \/ t \in C
                 /\ ~ (t \in U /\ t \in F) /\ ~ (t \in U /\ t \in C) /\ ~ (t \in F /\ t \in C)
      BY <1>1, <1>2 DEF RidesUnderWay, CountedIn, MatchedIn, CourseFits
    <2> HIDE DEF M, C, U, F
    <2> QED  BY <2>1, <2>2
  <1>4. IsFiniteSet(M) /\ totalMatched[r] = Cardinality(M) /\ totalCompleted[r] = Cardinality(C)
    BY <1>1 DEF CountsFit
  <1> HIDE DEF M, C, U, F
  <1>5. IsFiniteSet(U) /\ IsFiniteSet(F) /\ IsFiniteSet(C) /\ IsFiniteSet(U \cup F)
    BY <1>3, <1>4, FS_Subset
  <1>6. /\ Cardinality(U) \in Nat /\ Cardinality(F) \in Nat /\ Cardinality(C) \in Nat
        /\ Cardinality(U \cup F) \in Nat
    BY <1>5, FS_CardinalityType
  <1>7. Cardinality(U \cup F) = Cardinality(U) + Cardinality(F)
    <2>1. Cardinality(U \cup F) = Cardinality(U) + Cardinality(F) - Cardinality({})
      BY <1>3, <1>5, FS_Union
    <2> QED  BY <1>6, <2>1, FS_EmptySet
  <1>8. Cardinality(M) = Cardinality(U \cup F) + Cardinality(C)
    <2>1. Cardinality(M) = Cardinality(U \cup F) + Cardinality(C) - Cardinality({})
      BY <1>3, <1>5, FS_Union
    <2> QED  BY <1>6, <2>1, FS_EmptySet
  <1>9. InFlightReported(r) = Cardinality(U) + Cardinality(F)
    BY <1>4, <1>6, <1>7, <1>8 DEF InFlightReported
  <1> QED  BY <1>9 DEF U, F

\* The inspector's in_flight is the number of trips that ride or whose completion is
\* on its way to Dispatch, if a rider confirms once and only the ride ends a trip.
THEOREM InFlightIsExact ==
  ASSUME RidesRunTheirCourse
  PROVE  Spec => []InFlightAccounting
  <1>1. TypeOK /\ TokenConserved /\ HomeInv /\ TripPhase /\ AccountInv /\ [Next]_vars => AccountInv'
    BY NextAccount
  <1>2. AccountInv => InFlightAccounting
    BY CountsAddUp DEF InFlightAccounting
  <1> QED
    BY <1>1, <1>2, InitAccount, TypeCorrect, TokensAreConserved, HomeInvariant, PhaseInvariant, PTL
       DEF Spec
==============================================================================
