------------------------------ MODULE PoolProofs ------------------------------
(***************************************************************************)
(* The pools of idle drivers, for any trips, drivers, regions and client   *)
(* calls, where each driver has one region it is told to be idle in.       *)
(***************************************************************************)
EXTENDS RideCoProofs

\* RegionalFleet and setup-region.sh give a driver one region.
OneHome == \A d \in Drivers : \A r, s \in Home[d] : r = s

-----------------------------------------------------------------------------
(* Regions.  Whatever a driver is told, asked or matched for is in one of   *)
(* its own regions.                                                         *)

\* A driver stores and tells regions of its own only, and has one when idle.
DriverAtHome(d) ==
  /\ driverRegion[d] # NoRegion => driverRegion[d] \in Home[d]
  /\ driverStatus[d] = "idle" => driverRegion[d] # NoRegion
  /\ \A r \in Regions : locationsToDispatch[d][r] # << >> => r \in Home[d]

\* A region knows of its own drivers only.
PoolOfResidents(r) == \A d \in pool[r] \cup unread[r] \cup idle[r] : r \in Home[d]

\* A trip is matched with a driver of its region.
MatchIsLocal(t) ==
  /\ tripStatus[t] = "none" => tripRegion[t] = NoRegion
  /\ awakeable[t] # NoDriver => tripRegion[t] \in Home[awakeable[t]]
  /\ assignedDriver[t] # NoDriver => tripRegion[t] \in Home[assignedDriver[t]]

\* The end of a ride sends its driver back to idle in one of its own regions.
FreedAtHome(t, d) ==
  \A i \in 1..Len(tripToLocations[t][d]) :
    tripToLocations[t][d][i].handler = "set_status" =>
      tripToLocations[t][d][i].region \in Home[d]

DriversAtHome == \A d \in Drivers : DriverAtHome(d)
PoolsOfResidents == \A r \in Regions : PoolOfResidents(r)
MatchesAreLocal == \A t \in Trips : MatchIsLocal(t)
DriversFreedAtHome == \A t \in Trips, d \in Drivers : FreedAtHome(t, d)

HomeInv == DriversAtHome /\ PoolsOfResidents /\ MatchesAreLocal /\ DriversFreedAtHome

\* Appending a message that is no set_status, or one for a region of the driver's.
LEMMA AppendFreed ==
  ASSUME NEW s \in Seq(LocationsMsgs), NEW m \in LocationsMsgs, NEW H,
         \A i \in 1..Len(s) : s[i].handler = "set_status" => s[i].region \in H,
         m.handler = "set_status" => m.region \in H
  PROVE  \A i \in 1..Len(Append(s, m)) :
           Append(s, m)[i].handler = "set_status" => Append(s, m)[i].region \in H
  <1>1. Len(s) \in Nat /\ Len(Append(s, m)) = Len(s) + 1
    OBVIOUS
  <1>2. \A i \in 1..Len(s) : Append(s, m)[i] = s[i]
    OBVIOUS
  <1>3. Append(s, m)[Len(s) + 1] = m
    OBVIOUS
  <1> QED  BY <1>1, <1>2, <1>3

\* Taking the first message leaves the others.
LEMMA TailFreed ==
  ASSUME NEW s \in Seq(LocationsMsgs), s # << >>, NEW H,
         \A i \in 1..Len(s) : s[i].handler = "set_status" => s[i].region \in H
  PROVE  \A i \in 1..Len(Tail(s)) :
           Tail(s)[i].handler = "set_status" => Tail(s)[i].region \in H
  <1>1. Len(s) \in Nat /\ Len(Tail(s)) = Len(s) - 1
    OBVIOUS
  <1>2. \A i \in 1..(Len(s) - 1) : i + 1 \in 1..Len(s) /\ Tail(s)[i] = s[i + 1]
    OBVIOUS
  <1> QED  BY <1>1, <1>2

\* A trip sends its driver home.
LEMMA TripStepHome ==
  ASSUME TypeOK, HomeInv, NEW t \in Trips, TripStep(t)
  PROVE  HomeInv'
  <1> USE ClientAssumptions, NamesAreDistinct
  <1>0. /\ tripStatus \in [Trips -> TripStatus]
        /\ tripRegion \in [Trips -> Regions \cup {NoRegion}]
        /\ assignedDriver \in [Trips -> Drivers \cup {NoDriver}]
        /\ awakeable \in [Trips -> Drivers \cup {NoDriver}]
        /\ tripToLocations \in [Trips -> [Drivers -> Seq(LocationsMsgs)]]
    BY DEF TypeOK, TripTypeOK, RestateTypeOK
  <1>1. UNCHANGED <<locationsVars, dispatchVars, locationsToDispatch>>
    BY DEF TripStep, RiderRequests, RequestRide, OffersAnswers, QuoteReturned, RiderConfirms,
       Confirm, ConfirmResumes, MatchArrives, RideTimerFires, RideEnds, OperatorCompletes,
       Complete, FinishRide, OperatorCancels, Cancel, restateVars, channels
  <1>2. DriversAtHome' /\ PoolsOfResidents'
    BY <1>1 DEF HomeInv, DriversAtHome, DriverAtHome, PoolsOfResidents, PoolOfResidents,
       locationsVars, dispatchVars, epochVars
  <1>3. MatchesAreLocal'
    <2> SUFFICES ASSUME NEW u \in Trips PROVE MatchIsLocal(u)'
      BY DEF MatchesAreLocal
    <2>0. MatchIsLocal(u) /\ MatchIsLocal(t)
      BY DEF HomeInv, MatchesAreLocal
    <2> USE DEF MatchIsLocal
    <2>1. ASSUME NEW r \in Regions, RiderRequests(t, r) PROVE MatchIsLocal(u)'
      <3>1. awakeable[t] = NoDriver /\ assignedDriver[t] = NoDriver
        BY <1>0, <2>0, <2>1 DEF RiderRequests
      <3> QED
        BY <1>0, <2>0, <2>1, <3>1 DEF RiderRequests, RequestRide, restateVars
    <2>2. CASE OffersAnswers(t)
      BY <1>0, <2>0, <2>2 DEF OffersAnswers, QuoteReturned, restateVars
    <2>3. CASE RiderConfirms(t)
      BY <1>0, <2>0, <2>3 DEF RiderConfirms, Confirm
    <2>4. CASE ConfirmResumes(t)
      BY <1>0, <2>0, <2>4 DEF ConfirmResumes, MatchArrives
    <2>5. CASE RideTimerFires(t) \/ OperatorCompletes(t)
      BY <1>0, <2>0, <2>5 DEF RideTimerFires, RideEnds, OperatorCompletes, Complete, FinishRide
    <2>6. CASE OperatorCancels(t)
      BY <1>0, <2>0, <2>6 DEF OperatorCancels, Cancel, restateVars
    <2> QED  BY <2>1, <2>2, <2>3, <2>4, <2>5, <2>6 DEF TripStep
  <1>4. DriversFreedAtHome'
    <2> SUFFICES ASSUME NEW u \in Trips, NEW d \in Drivers PROVE FreedAtHome(u, d)'
      BY DEF DriversFreedAtHome
    <2>0. FreedAtHome(u, d) /\ tripToLocations[u][d] \in Seq(LocationsMsgs)
      BY <1>0 DEF HomeInv, DriversFreedAtHome
    <2>1. CASE tripToLocations' = tripToLocations
      BY <2>0, <2>1 DEF FreedAtHome
    <2>2. ASSUME NEW e \in Drivers, NEW m \in LocationsMsgs,
                 m.handler = "set_status" => m.region \in Home[e],
                 tripToLocations' = Send(tripToLocations, t, e, m)
          PROVE  FreedAtHome(u, d)'
      <3>1. \/ tripToLocations'[u][d] = tripToLocations[u][d]
            \/ d = e /\ tripToLocations'[u][d] = Append(tripToLocations[u][d], m)
        BY <1>0, <2>2 DEF Send
      <3>2. CASE tripToLocations'[u][d] = tripToLocations[u][d]
        BY <2>0, <3>2 DEF FreedAtHome
      <3>3. CASE d = e /\ tripToLocations'[u][d] = Append(tripToLocations[u][d], m)
        <4> DEFINE q == tripToLocations[u][d]
        <4>1. \A i \in 1..Len(Append(q, m)) :
                Append(q, m)[i].handler = "set_status" => Append(q, m)[i].region \in Home[d]
          BY <2>0, <2>2, <3>3, AppendFreed DEF FreedAtHome
        <4> QED  BY <3>3, <4>1 DEF FreedAtHome
      <3> QED  BY <3>1, <3>2, <3>3
    <2>3. CASE ConfirmResumes(t)
      <3>1. awakeable[t] \in Drivers /\ AcceptTripMsg \in LocationsMsgs
                                     /\ AcceptTripMsg.handler # "set_status"
        BY <1>0, <2>3 DEF ConfirmResumes, MatchArrives, LocationsMsgs, AcceptTripMsg
      <3> QED  BY <2>2, <2>3, <3>1 DEF ConfirmResumes, MatchArrives, StartRide
    <2>4. CASE RideTimerFires(t) \/ OperatorCompletes(t)
      <3>1. tripToLocations' = tripToLocations \/ tripToLocations' = FreeDriver(t)
        BY <2>4 DEF RideTimerFires, RideEnds, OperatorCompletes, Complete, FinishRide
      <3>2. ASSUME assignedDriver[t] # NoDriver, tripRegion[t] # NoRegion
            PROVE  /\ assignedDriver[t] \in Drivers
                   /\ SetIdleMsg(tripRegion[t]) \in LocationsMsgs
                   /\ SetIdleMsg(tripRegion[t]).region \in Home[assignedDriver[t]]
        BY <1>0, <3>2 DEF LocationsMsgs, SetIdleMsg, HomeInv, MatchesAreLocal, MatchIsLocal
      <3> QED  BY <2>1, <2>2, <3>1, <3>2 DEF FreeDriver
    <2>5. CASE (\E r \in Regions : RiderRequests(t, r)) \/ OffersAnswers(t) \/ RiderConfirms(t)
               \/ OperatorCancels(t)
      BY <2>1, <2>5 DEF RiderRequests, RequestRide, OffersAnswers, QuoteReturned, RiderConfirms,
         Confirm, OperatorCancels, Cancel, restateVars, channels
    <2> QED  BY <2>3, <2>4, <2>5 DEF TripStep
  <1> QED  BY <1>2, <1>3, <1>4 DEF HomeInv

\* What set_status stores and tells is of the region it names or the one stored.
LEMMA SetStatusHome ==
  ASSUME TypeOK, DriversAtHome, NEW d \in Drivers, NEW s \in DriverStatus,
         NEW r \in Regions \cup {NoRegion}, r # NoRegion => r \in Home[d],
         s = "idle" => r # NoRegion, SetStatus(d, s, r)
  PROVE  DriversAtHome'
  <1> USE NamesAreDistinct
  <1> SUFFICES ASSUME NEW e \in Drivers PROVE DriverAtHome(e)'
    BY DEF DriversAtHome
  <1>0. /\ driverStatus \in [Drivers -> DriverStatus]
        /\ driverRegion \in [Drivers -> Regions \cup {NoRegion}]
        /\ locationsToDispatch \in
             [Drivers -> [Regions -> Seq({"register_driver", "deregister_driver"})]]
    BY DEF TypeOK, LocationsTypeOK, RestateTypeOK
  <1>1. DriverAtHome(e)
    BY DEF DriversAtHome
  <1>2. ASSUME NEW q \in Regions, locationsToDispatch'[e][q] # << >> PROVE q \in Home[e]
    <2>1. \/ locationsToDispatch'[e][q] = locationsToDispatch[e][q]
          \/ e = d /\ q = r
          \/ e = d /\ q = driverRegion[d]
      BY <1>0 DEF SetStatus, Membership, Send
    <2> QED  BY <1>1, <1>2, <2>1 DEF DriverAtHome
  <1>3. /\ driverRegion'[e] # NoRegion => driverRegion'[e] \in Home[e]
        /\ driverStatus'[e] = "idle" => driverRegion'[e] # NoRegion
    BY <1>0, <1>1 DEF SetStatus, DriverAtHome
  <1> QED  BY <1>2, <1>3 DEF DriverAtHome

\* The first message, if it is a set_status, names one of the driver's regions.
LEMMA FirstFreed ==
  ASSUME TypeOK, NEW t \in Trips, NEW d \in Drivers, FreedAtHome(t, d), NEW r \in Regions,
         tripToLocations[t][d] # << >>, Head(tripToLocations[t][d]) = SetIdleMsg(r)
  PROVE  r \in Home[d]
  <1>1. tripToLocations[t][d] \in Seq(LocationsMsgs)
    BY DEF TypeOK, RestateTypeOK
  <1>2. 1 \in 1..Len(tripToLocations[t][d]) /\ tripToLocations[t][d][1] = SetIdleMsg(r)
    BY <1>1
  <1> QED  BY <1>2 DEF FreedAtHome, SetIdleMsg

\* A driver stays at home.
LEMMA DriverStepHome ==
  ASSUME TypeOK, HomeInv, NEW d \in Drivers, DriverStep(d)
  PROVE  HomeInv'
  <1> USE ClientAssumptions, NamesAreDistinct
  <1>0. tripToLocations \in [Trips -> [Drivers -> Seq(LocationsMsgs)]]
    BY DEF TypeOK, RestateTypeOK
  <1>1. UNCHANGED <<tripVars, dispatchVars, awakeable>>
    BY DEF DriverStep, DriverGoesOnline, OperatorForcesIdle, DriverGoesOffline, RestOfLocations,
       DriverPings, restateVars, LocationsTakesAcceptTrip, LocationsTakesSetStatus
  <1>2. PoolsOfResidents' /\ MatchesAreLocal'
    BY <1>1 DEF HomeInv, PoolsOfResidents, PoolOfResidents, MatchesAreLocal, MatchIsLocal,
       tripVars, dispatchVars, epochVars
  <1>3. ASSUME DriversAtHome', DriversFreedAtHome' PROVE HomeInv'
    BY <1>2, <1>3 DEF HomeInv
  <1>4. ASSUME UNCHANGED tripToLocations PROVE DriversFreedAtHome'
    BY <1>4 DEF HomeInv, DriversFreedAtHome, FreedAtHome
  <1>5. ASSUME NEW t \in Trips, tripToLocations[t][d] # << >>,
               tripToLocations' = Take(tripToLocations, t, d)
        PROVE  DriversFreedAtHome'
    <2> SUFFICES ASSUME NEW u \in Trips, NEW e \in Drivers PROVE FreedAtHome(u, e)'
      BY DEF DriversFreedAtHome
    <2>0. FreedAtHome(u, e) /\ tripToLocations[u][e] \in Seq(LocationsMsgs)
      BY <1>0 DEF HomeInv, DriversFreedAtHome
    <2>1. \/ tripToLocations'[u][e] = tripToLocations[u][e]
          \/ /\ tripToLocations[u][e] # << >>
             /\ tripToLocations'[u][e] = Tail(tripToLocations[u][e])
      BY <1>0, <1>5 DEF Take
    <2>2. CASE tripToLocations'[u][e] = tripToLocations[u][e]
      BY <2>0, <2>2 DEF FreedAtHome
    <2>3. CASE tripToLocations[u][e] # << >> /\ tripToLocations'[u][e] = Tail(tripToLocations[u][e])
      <3> DEFINE q == tripToLocations[u][e]
      <3>1. \A i \in 1..Len(Tail(q)) :
              Tail(q)[i].handler = "set_status" => Tail(q)[i].region \in Home[e]
        BY <2>0, <2>3, TailFreed DEF FreedAtHome
      <3> QED  BY <2>3, <3>1 DEF FreedAtHome
    <2> QED  BY <2>1, <2>2, <2>3
  <1>6. ASSUME NEW r \in Regions, DriverGoesOnline(d, r) \/ OperatorForcesIdle(d, r) PROVE HomeInv'
    BY <1>3, <1>4, <1>6, SetStatusHome
       DEF HomeInv, DriverGoesOnline, OperatorForcesIdle, RestOfLocations, DriverStatus
  <1>7. CASE DriverGoesOffline(d)
    BY <1>3, <1>4, <1>7, SetStatusHome
       DEF HomeInv, DriverGoesOffline, RestOfLocations, DriverStatus
  <1>8. CASE DriverPings(d)
    <2>1. DriversAtHome'
      BY <1>8 DEF HomeInv, DriversAtHome, DriverAtHome, DriverPings, Ping, restateVars, channels
    <2> QED  BY <1>3, <1>4, <1>8, <2>1 DEF DriverPings, restateVars, channels
  <1>9. ASSUME NEW t \in Trips, LocationsTakesAcceptTrip(t, d) PROVE HomeInv'
    <2>1. DriversFreedAtHome'
      BY <1>5, <1>9 DEF LocationsTakesAcceptTrip, Arrived
    <2>2. DriversAtHome'
      <3> SUFFICES ASSUME NEW e \in Drivers PROVE DriverAtHome(e)'
        BY DEF DriversAtHome
      <3>0. /\ driverStatus \in [Drivers -> DriverStatus]
            /\ locationsToDispatch \in
                 [Drivers -> [Regions -> Seq({"register_driver", "deregister_driver"})]]
            /\ DriverAtHome(e)
        BY DEF TypeOK, LocationsTypeOK, RestateTypeOK, HomeInv, DriversAtHome
      <3>1. ASSUME NEW q \in Regions, locationsToDispatch'[e][q] # << >> PROVE q \in Home[e]
        <4>1. \/ locationsToDispatch'[e][q] = locationsToDispatch[e][q]
              \/ e = d /\ q = driverRegion[d]
          BY <1>9, <3>0 DEF LocationsTakesAcceptTrip, AcceptTrip, LeavePool, Send
        <4> QED  BY <3>0, <3>1, <4>1 DEF DriverAtHome
      <3>2. driverRegion' = driverRegion /\ (driverStatus'[e] = "idle" => driverStatus[e] = "idle")
        BY <1>9, <3>0 DEF LocationsTakesAcceptTrip, AcceptTrip
      <3> QED  BY <3>0, <3>1, <3>2 DEF DriverAtHome
    <2> QED  BY <1>3, <2>1, <2>2
  <1>10. ASSUME NEW t \in Trips, NEW r \in Regions, LocationsTakesSetStatus(t, d, r) PROVE HomeInv'
    <2>0. /\ tripToLocations[t][d] # << >> /\ Head(tripToLocations[t][d]) = SetIdleMsg(r)
          /\ tripToLocations' = Take(tripToLocations, t, d)
      BY <1>10 DEF LocationsTakesSetStatus, Arrived
    <2>1. DriversFreedAtHome'
      BY <1>5, <2>0
    <2>2. r \in Home[d]
      BY <2>0, FirstFreed DEF HomeInv, DriversFreedAtHome
    <2>3. DriversAtHome'
      BY <1>10, <2>2, SetStatusHome DEF LocationsTakesSetStatus, DriverStatus, HomeInv
    <2> QED  BY <1>3, <2>1, <2>3
  <1> QED
    BY <1>6, <1>7, <1>8, <1>9, <1>10 DEF DriverStep

\* A round promises a trip of its region only drivers it read idle.
LEMMA ResolvesLocally ==
  ASSUME TypeOK, TokenConserved, HomeInv, NEW r \in Regions, NEW f \in Assignments(r),
         NEW t \in Trips
  PROVE  \/ Resolve(r, f)[t] = awakeable[t]
         \/ tripRegion[t] = r /\ Resolve(r, f)[t] \in idle[r]
  <1>1. /\ f \in [1..Matches(r) -> idle[r]]
        /\ Matches(r) \in Nat /\ Matches(r) <= Len(pending[r]) /\ Len(pending[r]) \in Nat
    BY MatchesBounds DEF Assignments
  <1>2. CASE \E i \in DOMAIN f : pending[r][i] = t
    <2>1. PICK i \in DOMAIN f : pending[r][i] = t
      BY <1>2
    <2>2. i \in QueuedIn(t, r)
      BY <1>1, <2>1 DEF QueuedIn, Places
    <2>3. tripRegion[t] = r
      BY <2>2 DEF TokenConserved, TokenInOnePlace
    <2>4. (CHOOSE j \in DOMAIN f : pending[r][j] = t) \in DOMAIN f
      BY <2>1
    <2>5. Resolve(r, f)[t] = f[CHOOSE j \in DOMAIN f : pending[r][j] = t]
      BY <2>1 DEF Resolve
    <2> QED  BY <1>1, <2>3, <2>4, <2>5
  <1>3. CASE ~ \E i \in DOMAIN f : pending[r][i] = t
    BY <1>3 DEF Resolve
  <1> QED  BY <1>2, <1>3

\* A region learns of its own drivers and matches only them.
LEMMA RegionStepHome ==
  ASSUME TypeOK, TokenConserved, HomeInv, NEW r \in Regions, RegionStep(r)
  PROVE  HomeInv'
  <1>0. /\ pool \in [Regions -> SUBSET Drivers]
        /\ unread \in [Regions -> SUBSET Drivers]
        /\ idle \in [Regions -> SUBSET Drivers]
        /\ PoolsOfResidents
    BY DEF TypeOK, DispatchTypeOK, HomeInv
  <1>1. UNCHANGED <<tripVars, locationsVars, tripToLocations>>
    BY DEF RegionStep, AgentHalts, AgentResumes, RestOfAgent, RestOfDispatch, DispatchTakesTrip,
       DispatchTakesCompletion, DispatchTakesDriver, DispatchTakesSetActive, EpochSkipped,
       EpochBegins, EpochReads, EpochMatches, restateVars, channels
  <1>2. DriversFreedAtHome'
    BY <1>1 DEF HomeInv, DriversFreedAtHome, FreedAtHome
  <1>3. ASSUME UNCHANGED <<pool, unread, idle>> PROVE PoolsOfResidents'
    BY <1>0, <1>3 DEF PoolsOfResidents, PoolOfResidents
  <1>4. ASSUME UNCHANGED awakeable PROVE MatchesAreLocal'
    BY <1>1, <1>4 DEF HomeInv, MatchesAreLocal, MatchIsLocal, tripVars
  <1>5. ASSUME UNCHANGED locationsToDispatch PROVE DriversAtHome'
    BY <1>1, <1>5 DEF HomeInv, DriversAtHome, DriverAtHome, locationsVars
  <1>6. CASE \/ AgentHalts(r) \/ AgentResumes(r)
             \/ \E t \in Trips : DispatchTakesTrip(t, r) \/ DispatchTakesCompletion(t, r)
             \/ DispatchTakesSetActive(r) \/ EpochSkipped(r)
    <2>1. UNCHANGED <<pool, unread, idle, awakeable, locationsToDispatch>>
      BY <1>6 DEF AgentHalts, AgentResumes, RestOfAgent, dispatchVars, epochVars, DispatchTakesTrip,
         EnqueueTrip, DispatchTakesCompletion, NoteCompletion, DispatchTakesSetActive, SetActive,
         EpochSkipped, CloseEpochHalted, restateVars, channels
    <2> QED  BY <1>2, <1>3, <1>4, <1>5, <2>1 DEF HomeInv
  <1>7. ASSUME NEW d \in Drivers, DispatchTakesDriver(d, r) PROVE HomeInv'
    <2>0. /\ locationsToDispatch \in
               [Drivers -> [Regions -> Seq({"register_driver", "deregister_driver"})]]
          /\ DriversAtHome
      BY DEF TypeOK, RestateTypeOK, HomeInv
    <2>1. locationsToDispatch[d][r] # << >> /\ locationsToDispatch' = Take(locationsToDispatch, d, r)
      BY <1>7 DEF DispatchTakesDriver, Arrived
    <2>2. r \in Home[d]
      BY <2>0, <2>1 DEF DriversAtHome, DriverAtHome
    <2>3. DriversAtHome'
      <3> SUFFICES ASSUME NEW e \in Drivers, NEW q \in Regions, locationsToDispatch'[e][q] # << >>
                   PROVE  q \in Home[e]
        BY <1>1, <2>0 DEF DriversAtHome, DriverAtHome, locationsVars
      <3>1. locationsToDispatch'[e][q] = locationsToDispatch[e][q] \/ (e = d /\ q = r)
        BY <2>0, <2>1 DEF Take
      <3> QED  BY <2>0, <2>2, <3>1 DEF DriversAtHome, DriverAtHome
    <2>4. PoolsOfResidents'
      <3>1. /\ UNCHANGED <<unread, idle>>
            /\ \/ pool' = [pool EXCEPT ![r] = @ \cup {d}]
               \/ pool' = [pool EXCEPT ![r] = @ \ {d}]
        BY <1>7 DEF DispatchTakesDriver, RegisterDriver, DeregisterDriver, epochVars
      <3> QED  BY <1>0, <2>2, <3>1 DEF PoolsOfResidents, PoolOfResidents
    <2>5. UNCHANGED awakeable
      BY <1>7 DEF DispatchTakesDriver
    <2> QED  BY <1>2, <1>4, <2>3, <2>4, <2>5 DEF HomeInv
  <1>8. CASE EpochBegins(r)
    <2>1. PoolsOfResidents'
      BY <1>0, <1>8 DEF EpochBegins, CloseEpochBegin, PoolsOfResidents, PoolOfResidents
    <2> QED  BY <1>2, <1>4, <1>5, <1>8, <2>1 DEF EpochBegins, restateVars, channels, HomeInv
  <1>9. ASSUME NEW d \in Drivers, EpochReads(r, d) PROVE HomeInv'
    <2>1. PoolsOfResidents'
      BY <1>0, <1>9 DEF EpochReads, ReadPosition, PoolsOfResidents, PoolOfResidents
    <2> QED  BY <1>2, <1>4, <1>5, <1>9, <2>1 DEF EpochReads, restateVars, channels, HomeInv
  <1>10. CASE EpochMatches(r)
    <2>1. PoolsOfResidents'
      BY <1>0, <1>10 DEF EpochMatches, CloseEpochMatch, PoolsOfResidents, PoolOfResidents
    <2>2. PICK f \in Assignments(r) : awakeable' = Resolve(r, f)
      BY <1>10 DEF EpochMatches, CloseEpochMatch
    <2>3. MatchesAreLocal'
      <3> SUFFICES ASSUME NEW t \in Trips PROVE MatchIsLocal(t)'
        BY DEF MatchesAreLocal
      <3>1. awakeable'[t] = awakeable[t] \/ (tripRegion[t] = r /\ awakeable'[t] \in idle[r])
        BY <2>2, ResolvesLocally
      <3>2. MatchIsLocal(t)
        BY DEF HomeInv, MatchesAreLocal
      <3> QED
        BY <1>0, <1>1, <3>1, <3>2 DEF MatchIsLocal, PoolsOfResidents, PoolOfResidents, tripVars
    <2> QED  BY <1>2, <1>5, <1>10, <2>1, <2>3 DEF EpochMatches, channels, HomeInv
  <1> QED
    BY <1>6, <1>7, <1>8, <1>9, <1>10 DEF RegionStep

\* HomeInv holds in every reachable state.
LEMMA HomeInvariant == Spec => []HomeInv
  <1>1. Init => HomeInv
    BY NamesAreDistinct DEF Init, RestateInit, NoMessages, TripInit, LocationsInit, DispatchInit,
       HomeInv, DriversAtHome, DriverAtHome, PoolsOfResidents, PoolOfResidents, MatchesAreLocal,
       MatchIsLocal, DriversFreedAtHome, FreedAtHome
  <1>2. ASSUME TypeOK, TokenConserved, HomeInv, [Next]_vars PROVE HomeInv'
    <2>1. CASE UNCHANGED vars
      BY <1>2, <2>1 DEF vars, restateVars, channels, tripVars, locationsVars, dispatchVars, epochVars,
         HomeInv, DriversAtHome, DriverAtHome, PoolsOfResidents, PoolOfResidents, MatchesAreLocal,
         MatchIsLocal, DriversFreedAtHome, FreedAtHome
    <2> QED  BY <1>2, <2>1, TripStepHome, DriverStepHome, RegionStepHome DEF Next
  <1> QED  BY <1>1, <1>2, TypeCorrect, TokensAreConserved, PTL DEF Spec

-----------------------------------------------------------------------------
(* The pool follows the status.                                            *)

\* One driver in one region.
PoolTracks(d, r) == InPoolEventually(d, r) <=> (driverStatus[d] = "idle" /\ driverRegion[d] = r)

\* Nothing that PoolTracks speaks of changes.
LEMMA TracksFrame ==
  ASSUME NEW d \in Drivers, NEW r \in Regions, PoolTracks(d, r),
         locationsToDispatch'[d][r] = locationsToDispatch[d][r],
         locationsToDispatch[d][r] = << >> => (d \in pool'[r] <=> d \in pool[r]),
         (driverStatus'[d] = "idle" /\ driverRegion'[d] = r) <=>
           (driverStatus[d] = "idle" /\ driverRegion[d] = r)
  PROVE  PoolTracks(d, r)'
  BY DEF PoolTracks, InPoolEventually

\* Dispatch is told of a driver last what the driver's status says.
LEMMA TracksTold ==
  ASSUME NEW d \in Drivers, NEW r \in Regions, NEW m \in {"register_driver", "deregister_driver"},
         locationsToDispatch[d][r] \in Seq({"register_driver", "deregister_driver"}),
         locationsToDispatch'[d][r] = Append(locationsToDispatch[d][r], m),
         m = "register_driver" <=> (driverStatus'[d] = "idle" /\ driverRegion'[d] = r)
  PROVE  PoolTracks(d, r)'
  <1> DEFINE s == locationsToDispatch[d][r]
  <1>1. /\ Append(s, m) # << >>
        /\ Len(Append(s, m)) = Len(s) + 1
        /\ Append(s, m)[Len(s) + 1] = m
    OBVIOUS
  <1> QED  BY <1>1 DEF PoolTracks, InPoolEventually

\* set_status tells the pools what it stores, if the driver has one home.
LEMMA SetStatusTracks ==
  ASSUME TypeOK, DriversAtHome, OneHome, PoolTracksStatus, NEW d \in Drivers,
         NEW s \in DriverStatus, NEW r \in Regions \cup {NoRegion},
         r # NoRegion => r \in Home[d], s = "idle" => r # NoRegion,
         SetStatus(d, s, r), UNCHANGED pool
  PROVE  PoolTracksStatus'
  <1> USE NamesAreDistinct
  <1> SUFFICES ASSUME NEW e \in Drivers, NEW q \in Regions PROVE PoolTracks(e, q)'
    BY DEF PoolTracksStatus, PoolTracks
  <1>0. /\ driverStatus \in [Drivers -> DriverStatus]
        /\ driverRegion \in [Drivers -> Regions \cup {NoRegion}]
        /\ locationsToDispatch \in
             [Drivers -> [Regions -> Seq({"register_driver", "deregister_driver"})]]
    BY DEF TypeOK, LocationsTypeOK, RestateTypeOK
  <1>1. PoolTracks(e, q) /\ DriverAtHome(d)
    BY DEF PoolTracksStatus, PoolTracks, DriversAtHome
  <1>2. CASE e # d
    <2>1. /\ locationsToDispatch'[e][q] = locationsToDispatch[e][q]
          /\ driverStatus'[e] = driverStatus[e] /\ driverRegion'[e] = driverRegion[e]
      BY <1>0, <1>2 DEF SetStatus, Membership, Send
    <2> QED  BY <1>1, <2>1, TracksFrame
  <1>3. CASE e = d /\ GoingIdle(d, s) /\ q = r
    <2>1. /\ locationsToDispatch'[d][q] = Append(locationsToDispatch[d][q], "register_driver")
          /\ driverStatus'[d] = "idle" /\ driverRegion'[d] = q
      BY <1>0, <1>3 DEF SetStatus, Membership, Send, GoingIdle
    <2> QED  BY <1>0, <1>3, <2>1, TracksTold
  <1>4. CASE e = d /\ LeavingIdle(d, s) /\ q = driverRegion[d]
    <2>1. /\ locationsToDispatch'[d][q] = Append(locationsToDispatch[d][q], "deregister_driver")
          /\ driverStatus'[d] # "idle"
      BY <1>0, <1>4 DEF SetStatus, Membership, Send, GoingIdle, LeavingIdle
    <2>2. e = d
      BY <1>4
    <2> QED  BY <1>0, <2>1, <2>2, TracksTold
  <1>5. CASE e = d /\ ~ (GoingIdle(d, s) /\ q = r) /\ ~ (LeavingIdle(d, s) /\ q = driverRegion[d])
    <2>1. locationsToDispatch'[d][q] = locationsToDispatch[d][q]
      BY <1>0, <1>5 DEF SetStatus, Membership, Send
    <2>2. driverStatus[d] = "idle" /\ s = "idle" => driverRegion[d] = r
      BY <1>1 DEF DriverAtHome, OneHome
    <2>3. (driverStatus'[d] = "idle" /\ driverRegion'[d] = q) <=>
            (driverStatus[d] = "idle" /\ driverRegion[d] = q)
      BY <1>0, <1>5, <2>2 DEF SetStatus, GoingIdle, LeavingIdle
    <2> QED  BY <1>1, <1>5, <2>1, <2>3, TracksFrame
  <1> QED  BY <1>2, <1>3, <1>4, <1>5

\* accept_trip takes the driver out of the one pool it is in.
LEMMA AcceptTripTracks ==
  ASSUME TypeOK, DriversAtHome, PoolTracksStatus, NEW d \in Drivers, NEW t \in Trips,
         AcceptTrip(d, t), UNCHANGED pool
  PROVE  PoolTracksStatus'
  <1> USE NamesAreDistinct
  <1> SUFFICES ASSUME NEW e \in Drivers, NEW q \in Regions PROVE PoolTracks(e, q)'
    BY DEF PoolTracksStatus, PoolTracks
  <1>0. /\ driverStatus \in [Drivers -> DriverStatus]
        /\ driverRegion \in [Drivers -> Regions \cup {NoRegion}]
        /\ locationsToDispatch \in
             [Drivers -> [Regions -> Seq({"register_driver", "deregister_driver"})]]
    BY DEF TypeOK, LocationsTypeOK, RestateTypeOK
  <1>1. PoolTracks(e, q)
    BY DEF PoolTracksStatus, PoolTracks
  <1>2. CASE e = d /\ q = driverRegion[d]
    <2>1. /\ locationsToDispatch'[d][q] = Append(locationsToDispatch[d][q], "deregister_driver")
          /\ driverStatus'[d] # "idle"
      BY <1>0, <1>2 DEF AcceptTrip, LeavePool, Send
    <2> QED  BY <1>0, <1>2, <2>1, TracksTold
  <1>3. CASE ~ (e = d /\ q = driverRegion[d])
    <2>1. /\ locationsToDispatch'[e][q] = locationsToDispatch[e][q]
          /\ (driverStatus'[e] = "idle" /\ driverRegion'[e] = q) <=>
               (driverStatus[e] = "idle" /\ driverRegion[e] = q)
      BY <1>0, <1>3 DEF AcceptTrip, LeavePool, Send
    <2> QED  BY <1>1, <2>1, TracksFrame
  <1> QED  BY <1>2, <1>3

\* Dispatch does what it was told first; what it was told last stands.
LEMMA TakesDriverTracks ==
  ASSUME TypeOK, PoolTracksStatus, NEW d \in Drivers, NEW r \in Regions, DispatchTakesDriver(d, r)
  PROVE  PoolTracksStatus'
  <1> SUFFICES ASSUME NEW e \in Drivers, NEW q \in Regions PROVE PoolTracks(e, q)'
    BY DEF PoolTracksStatus, PoolTracks
  <1>0. /\ pool \in [Regions -> SUBSET Drivers]
        /\ locationsToDispatch \in
             [Drivers -> [Regions -> Seq({"register_driver", "deregister_driver"})]]
    BY DEF TypeOK, DispatchTypeOK, RestateTypeOK
  <1>1. PoolTracks(e, q)
    BY DEF PoolTracksStatus, PoolTracks
  <1>2. driverStatus' = driverStatus /\ driverRegion' = driverRegion
    BY DEF DispatchTakesDriver, RestOfDispatch, locationsVars
  <1>3. CASE ~ (e = d /\ q = r)
    <2>1. /\ locationsToDispatch'[e][q] = locationsToDispatch[e][q]
          /\ e \in pool'[q] <=> e \in pool[q]
      BY <1>0, <1>3 DEF DispatchTakesDriver, RegisterDriver, DeregisterDriver, Take
    <2> QED  BY <1>1, <1>2, <2>1, TracksFrame
  <1>4. CASE e = d /\ q = r
    <2> DEFINE s == locationsToDispatch[d][r]
    <2>1. /\ s \in Seq({"register_driver", "deregister_driver"}) /\ s # << >>
          /\ locationsToDispatch'[d][r] = Tail(s)
      BY <1>0 DEF DispatchTakesDriver, Arrived, Take
    <2>2. /\ Head(s) = s[1] /\ Len(s) \in Nat /\ Len(s) >= 1
          /\ Len(Tail(s)) = Len(s) - 1
          /\ Tail(s) = << >> <=> Len(s) = 1
          /\ \A i \in 1..(Len(s) - 1) : Tail(s)[i] = s[i + 1]
      <3> HIDE DEF s
      <3>1. /\ Head(s) = s[1] /\ Len(s) \in Nat /\ Len(s) >= 1
            /\ Len(Tail(s)) = Len(s) - 1
            /\ Tail(s) \in Seq({"register_driver", "deregister_driver"})
        BY <2>1
      <3>2. /\ Len(<< >>) = 0
            /\ Tail(s) # << >> => Len(Tail(s)) \in Nat \ {0}
        BY <3>1, EmptySeq, Zenon
      <3>3. Tail(s) = << >> <=> Len(s) = 1
        <4>1. Tail(s) = << >> => Len(Tail(s)) = 0
          BY <3>2, Zenon
        <4> QED  BY <3>1, <3>2, <4>1
      <3>4. \A i \in 1..(Len(s) - 1) : Tail(s)[i] = s[i + 1]
        BY <2>1
      <3> QED  BY <3>1, <3>3, <3>4
    <2>3. d \in pool'[r] <=> Head(s) = "register_driver"
      BY <1>0 DEF DispatchTakesDriver, RegisterDriver, DeregisterDriver, Arrived
    <2> HIDE DEF s
    <2>4. CASE Len(s) = 1
      BY <1>1, <1>2, <1>4, <2>1, <2>2, <2>3, <2>4 DEF PoolTracks, InPoolEventually, s
    <2>5. CASE Len(s) > 1
      <3>1. Tail(s)[Len(Tail(s))] = s[Len(s)]
        BY <2>2, <2>5
      <3> QED
        BY <1>1, <1>2, <1>4, <2>1, <2>2, <2>5, <3>1 DEF PoolTracks, InPoolEventually, s
    <2> QED  BY <2>2, <2>4, <2>5
  <1> QED  BY <1>3, <1>4

\* Every step, and every stutter, keeps the pools in step with the drivers.
LEMMA NextTracks ==
  ASSUME TypeOK, HomeInv, OneHome, PoolTracksStatus, [Next]_vars
  PROVE  PoolTracksStatus'
  <1> USE ClientAssumptions, NamesAreDistinct
  <1>1. ASSUME UNCHANGED <<pool, locationsToDispatch, locationsVars>> PROVE PoolTracksStatus'
    BY <1>1 DEF PoolTracksStatus, InPoolEventually, locationsVars
  <1>2. CASE UNCHANGED vars
    BY <1>1, <1>2 DEF vars, restateVars, channels, dispatchVars
  <1>3. CASE \E t \in Trips : TripStep(t)
    <2>1. UNCHANGED <<pool, locationsToDispatch, locationsVars>>
      BY <1>3 DEF TripStep, RiderRequests, RequestRide, OffersAnswers, QuoteReturned, RiderConfirms,
         Confirm, ConfirmResumes, MatchArrives, RideTimerFires, RideEnds, OperatorCompletes,
         Complete, FinishRide, OperatorCancels, Cancel, restateVars, channels, dispatchVars
    <2> QED  BY <1>1, <2>1
  <1>4. ASSUME NEW d \in Drivers, DriverStep(d) PROVE PoolTracksStatus'
    <2>0. UNCHANGED pool /\ DriversAtHome /\ DriversFreedAtHome
      BY <1>4, OthersLeaveDispatch DEF dispatchVars, HomeInv
    <2>1. ASSUME NEW r \in Regions, DriverGoesOnline(d, r) \/ OperatorForcesIdle(d, r)
          PROVE  PoolTracksStatus'
      BY <2>0, <2>1, SetStatusTracks DEF DriverGoesOnline, OperatorForcesIdle, DriverStatus
    <2>2. CASE DriverGoesOffline(d)
      BY <2>0, <2>2, SetStatusTracks DEF DriverGoesOffline, DriverStatus
    <2>3. CASE DriverPings(d)
      BY <2>0, <2>3 DEF DriverPings, Ping, restateVars, channels, PoolTracksStatus, InPoolEventually
    <2>4. ASSUME NEW t \in Trips, LocationsTakesAcceptTrip(t, d) PROVE PoolTracksStatus'
      BY <2>0, <2>4, AcceptTripTracks DEF LocationsTakesAcceptTrip
    <2>5. ASSUME NEW t \in Trips, NEW r \in Regions, LocationsTakesSetStatus(t, d, r)
          PROVE  PoolTracksStatus'
      <3>1. r \in Home[d]
        BY <2>0, <2>5, FirstFreed DEF LocationsTakesSetStatus, Arrived, DriversFreedAtHome
      <3> QED  BY <2>0, <2>5, <3>1, SetStatusTracks DEF LocationsTakesSetStatus, DriverStatus
    <2> QED  BY <1>4, <2>1, <2>2, <2>3, <2>4, <2>5 DEF DriverStep
  <1>5. ASSUME NEW r \in Regions, RegionStep(r) PROVE PoolTracksStatus'
    <2>1. ASSUME NEW d \in Drivers, DispatchTakesDriver(d, r) PROVE PoolTracksStatus'
      BY <2>1, TakesDriverTracks
    <2>2. CASE \/ AgentHalts(r) \/ AgentResumes(r)
               \/ \E t \in Trips : DispatchTakesTrip(t, r) \/ DispatchTakesCompletion(t, r)
               \/ DispatchTakesSetActive(r) \/ EpochSkipped(r) \/ EpochBegins(r)
               \/ (\E d \in Drivers : EpochReads(r, d)) \/ EpochMatches(r)
      BY <1>1, <2>2 DEF AgentHalts, AgentResumes, RestOfAgent, dispatchVars, RestOfDispatch,
         DispatchTakesTrip, EnqueueTrip, DispatchTakesCompletion, NoteCompletion,
         DispatchTakesSetActive, SetActive, EpochSkipped, CloseEpochHalted, EpochBegins,
         CloseEpochBegin, EpochReads, ReadPosition, EpochMatches, CloseEpochMatch,
         restateVars, channels
    <2> QED  BY <1>5, <2>1, <2>2 DEF RegionStep
  <1> QED  BY <1>2, <1>3, <1>4, <1>5 DEF Next

\* Once what is on its way has arrived, a region's pool holds exactly the drivers
\* that are idle in it, however set_status, accept_trip and completions interleave,
\* if each driver has one home.
THEOREM PoolFollowsStatus ==
  ASSUME OneHome
  PROVE  Spec => []PoolTracksStatus
  <1>1. Init => PoolTracksStatus
    BY DEF Init, RestateInit, NoMessages, LocationsInit, DispatchInit, PoolTracksStatus,
       InPoolEventually
  <1>2. TypeOK /\ HomeInv /\ PoolTracksStatus /\ [Next]_vars => PoolTracksStatus'
    BY NextTracks
  <1> QED  BY <1>1, <1>2, TypeCorrect, HomeInvariant, PTL DEF Spec
==============================================================================
