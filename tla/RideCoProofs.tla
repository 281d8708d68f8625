---------------------------- MODULE RideCoProofs -----------------------------
(***************************************************************************)
(* Theorems about the matching core, for any trips, drivers, regions,      *)
(* homes, optional client calls and bounds.                                *)
(***************************************************************************)
EXTENDS RideCoProperties, SequenceTheorems, FiniteSetTheorems, TLAPS

-----------------------------------------------------------------------------
(* Channels.                                                               *)

\* Sending keeps a channel a channel.
LEMMA SendType ==
  ASSUME NEW From, NEW To, NEW Msg, NEW ch \in [From -> [To -> Seq(Msg)]],
         NEW a \in From, NEW b \in To, NEW m \in Msg
  PROVE  Send(ch, a, b, m) \in [From -> [To -> Seq(Msg)]]
  BY DEF Send

\* Taking the oldest message keeps a channel a channel.
LEMMA TakeType ==
  ASSUME NEW From, NEW To, NEW Msg, NEW ch \in [From -> [To -> Seq(Msg)]],
         NEW a \in From, NEW b \in To, ch[a][b] # << >>
  PROVE  Take(ch, a, b) \in [From -> [To -> Seq(Msg)]]
  <1>1. Tail(ch[a][b]) \in Seq(Msg)
    OBVIOUS
  <1> QED  BY <1>1 DEF Take

-----------------------------------------------------------------------------
(* Type correctness.                                                       *)

\* The steps of a trip keep every variable in its type.
LEMMA TripStepType ==
  ASSUME TypeOK, NEW t \in Trips, TripStep(t)
  PROVE  TypeOK'
  <1> USE NamesAreDistinct DEF TypeOK, RestateTypeOK, TripTypeOK
  <1>1. ASSUME NEW r \in Regions, RiderRequests(t, r) PROVE TypeOK'
    BY <1>1 DEF RiderRequests, RequestRide, LocationsTypeOK, locationsVars,
       DispatchTypeOK, dispatchVars, epochVars, clientVars, restateVars, channels, TripStatus
  <1>2. CASE OffersAnswers(t)
    BY <1>2 DEF OffersAnswers, QuoteReturned, LocationsTypeOK, locationsVars,
       DispatchTypeOK, dispatchVars, epochVars, clientVars, restateVars, channels, TripStatus
  <1>3. CASE RiderConfirms(t)
    <2>1. tripRegion[t] \in Regions
      BY <1>3 DEF RiderConfirms, Confirm, WasQuoted
    <2>2. tripToDispatch' \in [Trips -> [Regions -> Seq({"enqueue_trip", "note_completion"})]]
      BY <1>3, <2>1, SendType DEF RiderConfirms, Confirm
    <2> QED
      BY <1>3, <2>2 DEF RiderConfirms, Confirm, LocationsTypeOK, locationsVars,
         DispatchTypeOK, dispatchVars, epochVars, clientVars, TripStatus
  <1>4. CASE ConfirmResumes(t)
    <2>1. awakeable[t] \in Drivers
      BY <1>4 DEF ConfirmResumes, MatchArrives
    <2>2. tripToLocations' \in [Trips -> [Drivers -> Seq(LocationsMsgs)]]
      BY <1>4, <2>1, SendType DEF ConfirmResumes, MatchArrives, StartRide, LocationsMsgs
    <2>3. TripTypeOK'
      BY <1>4, <2>1 DEF ConfirmResumes, MatchArrives, StartRide, TripStatus
    <2>4. RestateTypeOK'
      BY <1>4, <2>2 DEF ConfirmResumes, MatchArrives
    <2> QED
      BY <1>4, <2>3, <2>4 DEF ConfirmResumes, LocationsTypeOK,
         locationsVars, DispatchTypeOK, dispatchVars, epochVars, clientVars
  <1>5. ASSUME FinishRide(t), UNCHANGED <<locationsVars, dispatchVars, clientVars>>,
               completeTimer' \in [Trips -> Nat]
        PROVE  TypeOK'
    <2>0. FreeDriver(t) \in [Trips -> [Drivers -> Seq(LocationsMsgs)]]
      <3>1. CASE assignedDriver[t] # NoDriver /\ tripRegion[t] # NoRegion
        <4>1. /\ assignedDriver[t] \in Drivers
              /\ SetIdleMsg(tripRegion[t]) \in LocationsMsgs
          BY <3>1 DEF LocationsMsgs
        <4> QED  BY <3>1, <4>1, SendType DEF FreeDriver
      <3>2. CASE ~ (assignedDriver[t] # NoDriver /\ tripRegion[t] # NoRegion)
        BY <3>2 DEF FreeDriver
      <3> QED  BY <3>1, <3>2
    <2>1. tripToLocations' \in [Trips -> [Drivers -> Seq(LocationsMsgs)]]
      BY <1>5, <2>0 DEF FinishRide
    <2>2. tripToDispatch' \in [Trips -> [Regions -> Seq({"enqueue_trip", "note_completion"})]]
      BY <1>5, SendType DEF FinishRide, CountCompletion
    <2> QED
      BY <1>5, <2>1, <2>2 DEF FinishRide, LocationsTypeOK, locationsVars,
         DispatchTypeOK, dispatchVars, epochVars, clientVars, TripStatus
  <1>6. CASE RideTimerFires(t)
    BY <1>5, <1>6 DEF RideTimerFires, RideEnds
  <1>7. CASE OperatorCompletes(t)
    BY <1>5, <1>7 DEF OperatorCompletes, Complete
  <1>8. CASE OperatorCancels(t)
    BY <1>8 DEF OperatorCancels, Cancel, LocationsTypeOK, locationsVars,
       DispatchTypeOK, dispatchVars, epochVars, clientVars, restateVars, channels, TripStatus
  <1> QED
    BY <1>1, <1>2, <1>3, <1>4, <1>6, <1>7, <1>8 DEF TripStep
\* What set_status tells Dispatch keeps the channels in their type.
LEMMA SetStatusType ==
  ASSUME TypeOK, NEW d \in Drivers, NEW s \in DriverStatus,
         NEW r \in Regions \cup {NoRegion}, SetStatus(d, s, r)
  PROVE  LocationsTypeOK' /\ locationsToDispatch' \in
           [Drivers -> [Regions -> Seq({"register_driver", "deregister_driver"})]]
  <1> USE NamesAreDistinct DEF TypeOK
  <1>1. LocationsTypeOK'
    BY DEF SetStatus, LocationsTypeOK
  <1>2. Membership(d, s, r) \in
          [Drivers -> [Regions -> Seq({"register_driver", "deregister_driver"})]]
    <2> USE DEF RestateTypeOK, LocationsTypeOK
    <2>1. CASE GoingIdle(d, s) /\ r # NoRegion
      BY <2>1, SendType DEF Membership
    <2>2. CASE ~ (GoingIdle(d, s) /\ r # NoRegion) /\ LeavingIdle(d, s) /\ driverRegion[d] # NoRegion
      BY <2>2, SendType DEF Membership
    <2>3. CASE /\ ~ (GoingIdle(d, s) /\ r # NoRegion)
               /\ ~ (LeavingIdle(d, s) /\ driverRegion[d] # NoRegion)
      BY <2>3 DEF Membership
    <2> QED  BY <2>1, <2>2, <2>3
  <1> QED  BY <1>1, <1>2 DEF SetStatus

\* The steps of a driver keep every variable in its type.
LEMMA DriverStepType ==
  ASSUME TypeOK, NEW d \in Drivers, DriverStep(d)
  PROVE  TypeOK'
  <1> USE DEF TypeOK, RestateTypeOK
  <1> DEFINE Rest == UNCHANGED <<tripToDispatch, agentToDispatch, awakeable,
                                 tripVars, dispatchVars, clientVars>>
             Inbox == [Trips -> [Drivers -> Seq(LocationsMsgs)]]
             News == [Drivers -> [Regions -> Seq({"register_driver", "deregister_driver"})]]
  <1>1. ASSUME Rest, LocationsTypeOK', locationsToDispatch' \in News, tripToLocations' \in Inbox
        PROVE  TypeOK'
    BY <1>1 DEF TripTypeOK, tripVars, DispatchTypeOK, dispatchVars, epochVars, clientVars
  <1>2. ASSUME NEW r \in Regions, DriverGoesOnline(d, r) \/ OperatorForcesIdle(d, r) PROVE TypeOK'
    BY <1>1, <1>2, SetStatusType
       DEF DriverGoesOnline, OperatorForcesIdle, RestOfLocations, DriverStatus
  <1>3. CASE DriverGoesOffline(d)
    BY <1>1, <1>3, SetStatusType DEF DriverGoesOffline, RestOfLocations, DriverStatus
  <1>4. CASE DriverPings(d)
    BY <1>1, <1>4 DEF DriverPings, Ping, LocationsTypeOK, restateVars, channels
  <1>5. ASSUME NEW t \in Trips, LocationsTakesAcceptTrip(t, d) PROVE TypeOK'
    <2>1. tripToLocations' \in Inbox
      BY <1>5, TakeType DEF LocationsTakesAcceptTrip, Arrived
    <2>2. LocationsTypeOK'
      BY <1>5 DEF LocationsTakesAcceptTrip, AcceptTrip, LocationsTypeOK, DriverStatus
    <2>3. LeavePool(d) \in News
      BY SendType DEF LeavePool, LocationsTypeOK
    <2> QED  BY <1>1, <1>5, <2>1, <2>2, <2>3 DEF LocationsTakesAcceptTrip, AcceptTrip
  <1>6. ASSUME NEW t \in Trips, NEW r \in Regions, LocationsTakesSetStatus(t, d, r) PROVE TypeOK'
    <2>1. tripToLocations' \in Inbox
      BY <1>6, TakeType DEF LocationsTakesSetStatus, Arrived
    <2> QED  BY <1>1, <1>6, <2>1, SetStatusType DEF LocationsTakesSetStatus, DriverStatus
  <1> QED
    BY <1>2, <1>3, <1>4, <1>5, <1>6 DEF DriverStep

\* A round serves no more trips than wait, and no more than there are idle drivers.
LEMMA MatchesBounds ==
  ASSUME TypeOK, NEW r \in Regions
  PROVE  /\ Matches(r) \in Nat
         /\ Matches(r) <= Len(pending[r])
         /\ Matches(r) <= Cardinality(idle[r])
         /\ Len(pending[r]) \in Nat
         /\ Cardinality(idle[r]) \in Nat
  <1>1. idle[r] \subseteq Drivers /\ pending[r] \in Seq(Trips)
    BY DEF TypeOK, DispatchTypeOK
  <1>2. IsFiniteSet(idle[r])
    BY <1>1, DriversAreFinite, FS_Subset
  <1>3. Cardinality(idle[r]) \in Nat /\ Len(pending[r]) \in Nat
    BY <1>1, <1>2, FS_CardinalityType
  <1> QED  BY <1>3 DEF Matches

\* The trips carried forward are the ones after the last match.
LEMMA LeftoverIs ==
  ASSUME TypeOK, NEW r \in Regions
  PROVE  /\ Leftover(r) \in Seq(Trips)
         /\ Len(Leftover(r)) = Len(pending[r]) - Matches(r)
         /\ \A i \in 1..Len(Leftover(r)) : Leftover(r)[i] = pending[r][Matches(r) + i]
  <1>1. pending[r] \in Seq(Trips)
    BY DEF TypeOK, DispatchTypeOK
  <1> DEFINE m == Matches(r) + 1
             n == Len(pending[r])
  <1>2. /\ m \in Int /\ n \in Int /\ m \in 1..(n + 1)
        /\ \A i \in m..n : pending[r][i] \in Trips
    BY <1>1, MatchesBounds
  <1> HIDE DEF m, n
  <1>3. /\ SubSeq(pending[r], m, n) \in Seq(Trips)
        /\ Len(SubSeq(pending[r], m, n)) = IF m <= n THEN n - m + 1 ELSE 0
        /\ \A i \in 1..(n - m + 1) : SubSeq(pending[r], m, n)[i] = pending[r][m + i - 1]
    BY <1>2, SubSeqProperties
  <1>4. Leftover(r) = SubSeq(pending[r], m, n)
    BY DEF Leftover, m, n
  <1>5. Len(Leftover(r)) = n - m + 1
    BY <1>2, <1>3, <1>4
  <1>6. ASSUME NEW i \in 1..Len(Leftover(r)) PROVE Leftover(r)[i] = pending[r][m + i - 1]
    BY <1>3, <1>4, <1>5
  <1> QED  BY <1>3, <1>4, <1>5, <1>6, MatchesBounds DEF m, n
\* A round resolves promises with drivers only.
LEMMA ResolveType ==
  ASSUME TypeOK, NEW r \in Regions, NEW f \in Assignments(r)
  PROVE  Resolve(r, f) \in [Trips -> Drivers \cup {NoDriver}]
  <1>1. f \in [1..Matches(r) -> idle[r]] /\ idle[r] \subseteq Drivers
    BY DEF Assignments, TypeOK, DispatchTypeOK
  <1>2. ASSUME NEW t \in Trips, \E i \in DOMAIN f : pending[r][i] = t
        PROVE  f[CHOOSE i \in DOMAIN f : pending[r][i] = t] \in Drivers
    <2>1. (CHOOSE i \in DOMAIN f : pending[r][i] = t) \in DOMAIN f
      BY <1>2
    <2> QED  BY <1>1, <2>1
  <1> QED  BY <1>2 DEF Resolve, TypeOK, RestateTypeOK

\* The steps of a region keep every variable in its type.
LEMMA RegionStepType ==
  ASSUME TypeOK, NEW r \in Regions, RegionStep(r)
  PROVE  TypeOK'
  <1> USE DEF TypeOK
  <1> DEFINE Inbox == [Trips -> [Regions -> Seq({"enqueue_trip", "note_completion"})]]
             News == [Drivers -> [Regions -> Seq({"register_driver", "deregister_driver"})]]
             GateNews == [Regions -> Seq(BOOLEAN)]
  <1>1. ASSUME RestOfDispatch, RestateTypeOK', DispatchTypeOK' PROVE TypeOK'
    BY <1>1 DEF RestOfDispatch, TripTypeOK, tripVars, LocationsTypeOK, locationsVars, clientVars
  <1>2. ASSUME RestOfAgent, agentToDispatch' \in GateNews, regionActive' \in [Regions -> BOOLEAN]
        PROVE  TypeOK'
    BY <1>2 DEF RestOfAgent, RestateTypeOK, TripTypeOK, tripVars, LocationsTypeOK, locationsVars,
       DispatchTypeOK, dispatchVars, epochVars
  <1>3. CASE AgentHalts(r)
    BY <1>2, <1>3 DEF AgentHalts, Gate!Halt, Gate!Set, RestateTypeOK
  <1>4. CASE AgentResumes(r)
    BY <1>2, <1>4 DEF AgentResumes, Gate!Resume, Gate!Set, RestateTypeOK
  <1>5. ASSUME NEW t \in Trips, DispatchTakesTrip(t, r) PROVE TypeOK'
    <2>1. tripToDispatch' \in Inbox
      BY <1>5, TakeType DEF DispatchTakesTrip, Arrived, RestateTypeOK
    <2>2. DispatchTypeOK'
      <3>1. Append(pending[r], t) \in Seq(Trips)
        BY DEF DispatchTypeOK
      <3> QED  BY <1>5, <3>1 DEF DispatchTakesTrip, EnqueueTrip, TimersAfterEnqueue, DispatchTypeOK, epochVars
    <2> QED  BY <1>1, <1>5, <2>1, <2>2 DEF DispatchTakesTrip, RestateTypeOK
  <1>6. ASSUME NEW t \in Trips, DispatchTakesCompletion(t, r) PROVE TypeOK'
    <2>1. tripToDispatch' \in Inbox
      BY <1>6, TakeType DEF DispatchTakesCompletion, Arrived, RestateTypeOK
    <2>2. DispatchTypeOK'
      BY <1>6 DEF DispatchTakesCompletion, NoteCompletion, DispatchTypeOK, epochVars
    <2> QED  BY <1>1, <1>6, <2>1, <2>2 DEF DispatchTakesCompletion, RestateTypeOK
  <1>7. ASSUME NEW d \in Drivers, DispatchTakesDriver(d, r) PROVE TypeOK'
    <2>1. locationsToDispatch' \in News
      BY <1>7, TakeType DEF DispatchTakesDriver, Arrived, RestateTypeOK
    <2>2. DispatchTypeOK'
      <3>1. CASE RegisterDriver(r, d)
        BY <3>1 DEF RegisterDriver, DispatchTypeOK, epochVars
      <3>2. CASE DeregisterDriver(r, d)
        BY <3>2 DEF DeregisterDriver, DispatchTypeOK, epochVars
      <3> QED  BY <1>7, <3>1, <3>2 DEF DispatchTakesDriver
    <2> QED  BY <1>1, <1>7, <2>1, <2>2 DEF DispatchTakesDriver, RestateTypeOK
  <1>8. CASE DispatchTakesSetActive(r)
    <2>1. agentToDispatch' \in GateNews
      BY <1>8 DEF DispatchTakesSetActive, RestateTypeOK
    <2>2. Head(agentToDispatch[r]) \in BOOLEAN
      <3>1. agentToDispatch[r] \in Seq(BOOLEAN) /\ agentToDispatch[r] # << >>
        BY <1>8 DEF DispatchTakesSetActive, RestateTypeOK
      <3> QED  BY <3>1, HeadTailProperties, Zenon
    <2>3. DispatchTypeOK'
      BY <1>8, <2>2 DEF DispatchTakesSetActive, SetActive, DispatchTypeOK, epochVars
    <2> QED  BY <1>1, <1>8, <2>1, <2>3 DEF DispatchTakesSetActive, RestateTypeOK
  <1>9. CASE EpochSkipped(r)
    <2>1. DispatchTypeOK'
      <3>1. epochTimer' \in [Regions -> Nat]
        BY <1>9 DEF EpochSkipped, CloseEpochHalted, EpochDue, DispatchTypeOK
      <3> QED  BY <1>9, <3>1 DEF EpochSkipped, CloseEpochHalted, DispatchTypeOK, epochVars
    <2> QED  BY <1>1, <1>9, <2>1 DEF EpochSkipped, RestateTypeOK, restateVars, channels
  <1>10. CASE EpochBegins(r)
    BY <1>1, <1>10 DEF EpochBegins, CloseEpochBegin, EpochDue, DispatchTypeOK, epochVars,
       RestateTypeOK, restateVars, channels
  <1>11. ASSUME NEW d \in Drivers, EpochReads(r, d) PROVE TypeOK'
    BY <1>1, <1>11 DEF EpochReads, ReadPosition, DispatchTypeOK, epochVars,
       RestateTypeOK, restateVars, channels
  <1>12. CASE EpochMatches(r)
    <2>1. awakeable' \in [Trips -> Drivers \cup {NoDriver}]
      BY <1>12, ResolveType DEF EpochMatches, CloseEpochMatch
    <2>2. DispatchTypeOK'
      <3>1. HasMoreWork(r) \in BOOLEAN
        BY DEF HasMoreWork
      <3>2. Matches(r) \in Nat /\ Leftover(r) \in Seq(Trips)
        BY MatchesBounds, LeftoverIs
      <3>3. CloseEpochMatch(r)
        BY <1>12 DEF EpochMatches
      <3>4. totalMatched' \in [Regions -> Nat] /\ pending' \in [Regions -> Seq(Trips)]
        BY <3>2, <3>3 DEF CloseEpochMatch, DispatchTypeOK
      <3>5. /\ loopRunning' \in [Regions -> BOOLEAN]
            /\ epochTimer' \in [Regions -> Nat]
        BY <3>1, <3>3 DEF CloseEpochMatch, DispatchTypeOK
      <3> QED  BY <3>3, <3>4, <3>5 DEF CloseEpochMatch, DispatchTypeOK
    <2> QED  BY <1>1, <1>12, <2>1, <2>2 DEF EpochMatches, RestateTypeOK, channels
  <1> QED
    BY <1>3, <1>4, <1>5, <1>6, <1>7, <1>8, <1>9, <1>10, <1>11, <1>12 DEF RegionStep

\* Every step, and every stutter, keeps every variable in its type.
LEMMA NextType ==
  ASSUME TypeOK, [Next]_vars
  PROVE  TypeOK'
  <1>1. CASE Next
    BY <1>1, TripStepType, DriverStepType, RegionStepType DEF Next
  <1>2. CASE UNCHANGED vars
    BY <1>2 DEF vars, TypeOK, RestateTypeOK, restateVars, channels, TripTypeOK, tripVars,
       LocationsTypeOK, locationsVars, DispatchTypeOK, dispatchVars, epochVars, clientVars
  <1> QED  BY <1>1, <1>2

\* The initial values are in their types.
LEMMA InitType == Init => TypeOK
  BY DEF Init, RestateInit, NoMessages, TripInit, LocationsInit, DispatchInit,
     TypeOK, RestateTypeOK, TripTypeOK, LocationsTypeOK, DispatchTypeOK, TripStatus, DriverStatus

\* Every variable keeps the type the code gives it: in particular every promise
\* is resolved with a driver, and no counter or timer goes below zero.
THEOREM TypeCorrect == Spec => []TypeOK
  <1> QED  BY InitType, NextType, PTL DEF Spec
-----------------------------------------------------------------------------
(* The cadence loop.  LoopInv is inductive over well-typed states.          *)

LoopInv == EpochLoop /\ NoStrandedTrip /\ NoRoundWhileHalted

\* Trips and drivers touch nothing Dispatch stores.
LEMMA OthersLeaveDispatch ==
  ASSUME (\E t \in Trips : TripStep(t)) \/ (\E d \in Drivers : DriverStep(d))
  PROVE  UNCHANGED dispatchVars
  <1>1. ASSUME NEW t \in Trips, TripStep(t) PROVE UNCHANGED dispatchVars
    BY <1>1 DEF TripStep, RiderRequests, OffersAnswers, RiderConfirms, ConfirmResumes,
       RideTimerFires, OperatorCompletes, OperatorCancels
  <1>2. ASSUME NEW d \in Drivers, DriverStep(d) PROVE UNCHANGED dispatchVars
    BY <1>2 DEF DriverStep, DriverGoesOnline, OperatorForcesIdle, DriverGoesOffline,
       DriverPings, RestOfLocations, LocationsTakesAcceptTrip, LocationsTakesSetStatus
  <1> QED  BY <1>1, <1>2

\* A step of a region preserves LoopInv.
LEMMA RegionStepLoop ==
  ASSUME TypeOK, LoopInv, NEW r \in Regions, RegionStep(r)
  PROVE  LoopInv'
  <1> USE DEF LoopInv, EpochLoop, NoStrandedTrip, NoRoundWhileHalted
  <1>0. DispatchTypeOK
    BY DEF TypeOK
  <1>1. CASE AgentHalts(r) \/ AgentResumes(r)
    BY <1>1 DEF AgentHalts, AgentResumes, RestOfAgent, dispatchVars, epochVars
  <1>2. ASSUME NEW t \in Trips, DispatchTakesTrip(t, r) PROVE LoopInv'
    <2>1. /\ EnqueueTrip(r, t)
          /\ TimersAfterEnqueue(r) = IF loopRunning[r] THEN epochTimer[r] ELSE epochTimer[r] + 1
          /\ epochTimer[r] \in Nat
          /\ ~ epochRunning[r]
      BY <1>0, <1>2 DEF DispatchTakesTrip, EnqueueTrip, TimersAfterEnqueue, DispatchKeyFree,
         DispatchTypeOK
    <2>2. EpochLoop'
      BY <1>0, <2>1 DEF EnqueueTrip, epochVars, DispatchTypeOK
    <2> QED  BY <1>0, <2>1, <2>2 DEF EnqueueTrip, epochVars, DispatchTypeOK
  <1>3. ASSUME NEW t \in Trips, DispatchTakesCompletion(t, r) PROVE LoopInv'
    BY <1>3 DEF DispatchTakesCompletion, NoteCompletion, epochVars
  <1>4. ASSUME NEW d \in Drivers, DispatchTakesDriver(d, r) PROVE LoopInv'
    BY <1>4 DEF DispatchTakesDriver, RegisterDriver, DeregisterDriver, epochVars
  <1>5. CASE DispatchTakesSetActive(r)
    BY <1>0, <1>5 DEF DispatchTakesSetActive, SetActive, DispatchKeyFree, epochVars, DispatchTypeOK
  <1>6. CASE EpochSkipped(r)
    <2>1. epochTimer' = epochTimer
      BY <1>0, <1>6 DEF EpochSkipped, CloseEpochHalted, EpochDue, DispatchTypeOK
    <2> QED  BY <1>6, <2>1 DEF EpochSkipped, CloseEpochHalted, epochVars
  <1>7. CASE EpochBegins(r)
    BY <1>0, <1>7 DEF EpochBegins, CloseEpochBegin, EpochDue, DispatchKeyFree, DispatchTypeOK
  <1>8. ASSUME NEW d \in Drivers, EpochReads(r, d) PROVE LoopInv'
    BY <1>8 DEF EpochReads, ReadPosition
  <1>9. CASE EpochMatches(r)
    <2>1. CloseEpochMatch(r) /\ HasMoreWork(r) \in BOOLEAN
      BY <1>9 DEF EpochMatches, HasMoreWork
    <2>2. /\ epochRunning[r]
          /\ epochTimer[r] = 0
          /\ loopRunning[r]
      BY <1>0, <2>1 DEF CloseEpochMatch, DispatchTypeOK
    <2>3. EpochLoop'
      BY <1>0, <2>1, <2>2 DEF CloseEpochMatch, DispatchTypeOK
    <2>4. NoStrandedTrip'
      BY <1>0, <2>1 DEF CloseEpochMatch, DispatchTypeOK, HasMoreWork
    <2>5. NoRoundWhileHalted'
      BY <1>0, <2>1 DEF CloseEpochMatch, DispatchTypeOK
    <2> QED  BY <2>3, <2>4, <2>5
  <1> QED
    BY <1>1, <1>2, <1>3, <1>4, <1>5, <1>6, <1>7, <1>8, <1>9 DEF RegionStep

\* Every step, and every stutter, preserves LoopInv.
LEMMA NextLoop ==
  ASSUME TypeOK, LoopInv, [Next]_vars
  PROVE  LoopInv'
  <1>1. CASE UNCHANGED dispatchVars
    BY <1>1 DEF LoopInv, EpochLoop, NoStrandedTrip, NoRoundWhileHalted, dispatchVars, epochVars
  <1>2. CASE \E r \in Regions : RegionStep(r)
    BY <1>2, RegionStepLoop
  <1>3. CASE UNCHANGED vars
    BY <1>1, <1>3 DEF vars
  <1> QED  BY <1>1, <1>2, <1>3, OthersLeaveDispatch DEF Next

\* No region's loop runs, waits or is halted at the start.
LEMMA InitLoop == Init => LoopInv
  BY DEF Init, DispatchInit, LoopInv, EpochLoop, NoStrandedTrip, NoRoundWhileHalted

\* LoopInv holds in every reachable state.
LEMMA LoopInvariant == Spec => []LoopInv
  <1> QED  BY InitLoop, NextLoop, TypeCorrect, PTL DEF Spec

\* A region has one epoch scheduled or executing while its loop runs, and none
\* otherwise, for any number of trips, drivers and regions.
THEOREM OneEpochPerLoop == Spec => []EpochLoop
  <1>1. LoopInv => EpochLoop
    BY DEF LoopInv
  <1> QED  BY <1>1, LoopInvariant, PTL

\* The loop never stops while a trip is queued.
THEOREM QueuedTripsAreServed == Spec => []NoStrandedTrip
  <1>1. LoopInv => NoStrandedTrip
    BY DEF LoopInv
  <1> QED  BY <1>1, LoopInvariant, PTL

\* No matching round is under way in a halted region.
THEOREM HaltExcludesRounds == Spec => []NoRoundWhileHalted
  <1>1. LoopInv => NoRoundWhileHalted
    BY DEF LoopInv
  <1> QED  BY <1>1, LoopInvariant, PTL
-----------------------------------------------------------------------------
(* Positions in a sequence.                                                *)

\* Appending something else moves nothing.
LEMMA PlacesAppendOther ==
  ASSUME NEW S, NEW s \in Seq(S), NEW m \in S, NEW x, m # x
  PROVE  Places(Append(s, m), x) = Places(s, x)
  BY DEF Places

\* Appending x where there was none puts it at the end.
LEMMA PlacesAppendSame ==
  ASSUME NEW S, NEW s \in Seq(S), NEW x \in S, Places(s, x) = {}
  PROVE  Singleton(Places(Append(s, x), x))
  <1>1. Len(s) \in Nat /\ Len(Append(s, x)) = Len(s) + 1
    OBVIOUS
  <1>2. ASSUME NEW i \in 1..Len(s) PROVE Append(s, x)[i] # x
    <2>1. s[i] # x
      BY DEF Places
    <2> QED  BY <2>1
  <1>3. Append(s, x)[Len(s) + 1] = x
    OBVIOUS
  <1>4. Places(Append(s, x), x) = {Len(s) + 1}
    BY <1>1, <1>2, <1>3 DEF Places
  <1> QED  BY <1>4 DEF Singleton

\* w is s without its first elements.
IsSuffix(w, s) ==
  /\ Len(w) <= Len(s)
  /\ \A i \in 1..Len(w) : w[i] = s[(Len(s) - Len(w)) + i]

\* What was nowhere, or was among the dropped elements, is nowhere afterwards.
LEMMA PlacesDropped ==
  ASSUME NEW S, NEW s \in Seq(S), NEW w \in Seq(S), NEW x, IsSuffix(w, s),
         \A i \in Places(s, x) : i <= Len(s) - Len(w)
  PROVE  Places(w, x) = {}
  <1>1. Len(s) \in Nat /\ Len(w) \in Nat
    OBVIOUS
  <1>2. ASSUME NEW i \in Places(w, x) PROVE FALSE
    <2>1. i \in 1..Len(w) /\ w[i] = x
      BY DEF Places
    <2>2. s[(Len(s) - Len(w)) + i] = x
      BY <2>1 DEF IsSuffix
    <2>3. (Len(s) - Len(w)) + i \in 1..Len(s)
      BY <1>1, <2>1 DEF IsSuffix
    <2>4. (Len(s) - Len(w)) + i \in Places(s, x)
      BY <2>2, <2>3 DEF Places
    <2> QED  BY <1>1, <2>1, <2>4
  <1> QED  BY <1>2

\* What was once among the kept elements is still there once.
LEMMA PlacesKept ==
  ASSUME NEW S, NEW s \in Seq(S), NEW w \in Seq(S), NEW x, IsSuffix(w, s),
         NEW j \in Nat, Places(s, x) = {j}, j > Len(s) - Len(w)
  PROVE  Singleton(Places(w, x))
  <1>1. Len(s) \in Nat /\ Len(w) \in Nat /\ Len(s) - Len(w) \in Nat
    BY DEF IsSuffix
  <1> DEFINE k == Len(s) - Len(w)
  <1>2. k \in Nat /\ Len(w) = Len(s) - k /\ j > k
    BY <1>1
  <1>3. \A i \in 1..Len(w) : w[i] = s[k + i]
    BY DEF IsSuffix
  <1> HIDE DEF k
  <1>4. j \in 1..Len(s) /\ s[j] = x
    BY DEF Places
  <1>5. j - k \in 1..Len(w) /\ k + (j - k) = j
    BY <1>1, <1>2, <1>4
  <1>6. w[j - k] = x
    BY <1>3, <1>4, <1>5
  <1>7. j - k \in Places(w, x)
    BY <1>5, <1>6 DEF Places
  <1>8. ASSUME NEW i \in Places(w, x) PROVE i = j - k
    <2>1. i \in 1..Len(w) /\ w[i] = x
      BY DEF Places
    <2>2. k + i \in 1..Len(s) /\ s[k + i] = x
      BY <1>1, <1>2, <1>3, <2>1
    <2>3. k + i \in Places(s, x)
      BY <2>2 DEF Places
    <2> QED  BY <1>2, <2>1, <2>3
  <1>9. Places(w, x) = {j - k}
    BY <1>7, <1>8
  <1> QED  BY <1>9 DEF Singleton

\* Dropping the first element, when it is x and when it is not.
LEMMA PlacesTail ==
  ASSUME NEW S, NEW s \in Seq(S), s # << >>, NEW x
  PROVE  /\ Places(s, x) = {} => Places(Tail(s), x) = {}
         /\ Head(s) = x /\ Singleton(Places(s, x)) => Places(Tail(s), x) = {}
         /\ Head(s) # x /\ Singleton(Places(s, x)) => Singleton(Places(Tail(s), x))
         /\ Head(s) = x => Places(s, x) # {}
  <1>1. /\ Tail(s) \in Seq(S)
        /\ Len(Tail(s)) = Len(s) - 1
        /\ \A i \in 1..Len(Tail(s)) : Tail(s)[i] = s[1 + i]
        /\ Head(s) = s[1]
        /\ Len(s) \in Nat /\ Len(s) >= 1
    OBVIOUS
  <1>2. IsSuffix(Tail(s), s) /\ Len(s) - Len(Tail(s)) = 1
    BY <1>1 DEF IsSuffix
  <1>3. Head(s) = x => 1 \in Places(s, x)
    BY <1>1 DEF Places
  <1>4. ASSUME Places(s, x) = {} PROVE Places(Tail(s), x) = {}
    BY <1>1, <1>2, <1>4, PlacesDropped
  <1>5. ASSUME Singleton(Places(s, x)), Head(s) = x PROVE Places(Tail(s), x) = {}
    <2>1. Places(s, x) = {1}
      BY <1>3, <1>5 DEF Singleton
    <2>2. \A i \in Places(s, x) : i <= Len(s) - Len(Tail(s))
      BY <1>2, <2>1
    <2> QED  BY <1>1, <1>2, <2>2, PlacesDropped
  <1>6. ASSUME Singleton(Places(s, x)), Head(s) # x PROVE Singleton(Places(Tail(s), x))
    <2>1. PICK j : Places(s, x) = {j}
      BY <1>6 DEF Singleton
    <2>2. j \in 1..Len(s) /\ s[j] = x
      BY <2>1 DEF Places
    <2>3. j \in Nat /\ j > 1
      BY <1>1, <1>6, <2>2
    <2> QED  BY <1>1, <1>2, <2>1, <2>3, PlacesKept
  <1> QED  BY <1>3, <1>4, <1>5, <1>6

-----------------------------------------------------------------------------
(* The token of a waiting confirm.  TokenConserved is inductive over        *)
(* well-typed states.                                                       *)

\* A step that leaves a trip's messages, its queue positions and its wait
\* alone leaves its token where it is.
LEMMA TokenFrame ==
  ASSUME NEW u \in Trips, NEW q \in Regions, TokenInOnePlace(u, q),
         SentTo(u, q)' = SentTo(u, q), QueuedIn(u, q)' = QueuedIn(u, q),
         Waiting(u)' <=> Waiting(u),
         Waiting(u) => tripRegion'[u] = tripRegion[u]
  PROVE  TokenInOnePlace(u, q)'
  BY DEF TokenInOnePlace

\* A step of a trip preserves TokenConserved.
LEMMA TripStepToken ==
  ASSUME TypeOK, TokenConserved, NEW t \in Trips, TripStep(t)
  PROVE  TokenConserved'
  <1> SUFFICES ASSUME NEW u \in Trips, NEW q \in Regions
               PROVE  TokenInOnePlace(u, q)'
    BY DEF TokenConserved
  <1>a. TokenInOnePlace(u, q)
    BY DEF TokenConserved
  <1>b. QueuedIn(u, q)' = QueuedIn(u, q)
    BY OthersLeaveDispatch DEF QueuedIn, Places, dispatchVars
  <1>c. /\ tripToDispatch \in [Trips -> [Regions -> Seq({"enqueue_trip", "note_completion"})]]
        /\ tripHolder \in [Trips -> {"none", "request_ride", "confirm"}]
        /\ tripRegion \in [Trips -> Regions \cup {NoRegion}]
        /\ awakeable \in [Trips -> Drivers \cup {NoDriver}]
    BY DEF TypeOK, RestateTypeOK, TripTypeOK
  <1>d. tripToDispatch[u][q] \in Seq({"enqueue_trip", "note_completion"})
    BY <1>c
  <1>1. ASSUME NEW r \in Regions, RiderRequests(t, r) PROVE TokenInOnePlace(u, q)'
    <2>1. /\ SentTo(u, q)' = SentTo(u, q)
          /\ Waiting(u)' <=> Waiting(u)
          /\ Waiting(u) => tripRegion'[u] = tripRegion[u]
      BY <1>c, <1>1 DEF RiderRequests, RequestRide, KeyFree, SentTo, Waiting, restateVars, channels
    <2> QED  BY <1>a, <1>b, <2>1, TokenFrame
  <1>2. CASE OffersAnswers(t)
    <2>1. /\ SentTo(u, q)' = SentTo(u, q)
          /\ Waiting(u)' <=> Waiting(u)
          /\ Waiting(u) => tripRegion'[u] = tripRegion[u]
      BY <1>c, <1>2 DEF OffersAnswers, QuoteReturned, SentTo, Waiting, restateVars, channels
    <2> QED  BY <1>a, <1>b, <2>1, TokenFrame
  <1>3. CASE RiderConfirms(t)
    <2> USE <1>3 DEF RiderConfirms, Confirm, KeyFree
    <2>1. CASE u = t /\ q = tripRegion[t]
      <3>1. ~ Waiting(t) /\ Waiting(t)' /\ tripRegion' = tripRegion
        BY <1>c DEF Waiting
      <3>2. SentTo(u, q) = {} /\ QueuedIn(u, q) = {}
        BY <1>a, <2>1, <3>1 DEF TokenInOnePlace
      <3>3. tripToDispatch'[u][q] = Append(tripToDispatch[u][q], "enqueue_trip")
        BY <1>c, <2>1 DEF Send
      <3>4. Singleton(Places(Append(tripToDispatch[u][q], "enqueue_trip"), "enqueue_trip"))
        BY <1>d, <3>2, PlacesAppendSame DEF SentTo
      <3>5. Singleton(SentTo(u, q)')
        BY <3>3, <3>4 DEF SentTo
      <3> QED  BY <1>b, <2>1, <3>1, <3>2, <3>5 DEF TokenInOnePlace
    <2>2. CASE u = t /\ q # tripRegion[t]
      <3>1. ~ Waiting(t) /\ tripRegion' = tripRegion
        BY DEF Waiting
      <3>2. SentTo(u, q) = {} /\ QueuedIn(u, q) = {}
        BY <1>a, <2>2, <3>1 DEF TokenInOnePlace
      <3>3. tripToDispatch'[u][q] = tripToDispatch[u][q]
        BY <1>c, <2>2 DEF Send
      <3>4. SentTo(u, q)' = SentTo(u, q)
        BY <3>3 DEF SentTo
      <3> QED  BY <1>b, <2>2, <3>1, <3>2, <3>4 DEF TokenInOnePlace
    <2>3. CASE u # t
      <3>1. /\ SentTo(u, q)' = SentTo(u, q)
            /\ Waiting(u)' <=> Waiting(u)
            /\ tripRegion' = tripRegion
        BY <1>c, <2>3 DEF Send, SentTo, Waiting
      <3> QED  BY <1>a, <1>b, <3>1, TokenFrame
    <2> QED  BY <2>1, <2>2, <2>3
  <1>4. CASE ConfirmResumes(t)
    <2>1. /\ SentTo(u, q)' = SentTo(u, q)
          /\ Waiting(u)' <=> Waiting(u)
          /\ Waiting(u) => tripRegion'[u] = tripRegion[u]
      BY <1>c, <1>4 DEF ConfirmResumes, MatchArrives, SentTo, Waiting
    <2> QED  BY <1>a, <1>b, <2>1, TokenFrame
  <1>5. ASSUME FinishRide(t) PROVE TokenInOnePlace(u, q)'
    <2>1. /\ Waiting(u)' <=> Waiting(u)
          /\ Waiting(u) => tripRegion'[u] = tripRegion[u]
      BY <1>5 DEF FinishRide, Waiting
    <2>2. CASE tripToDispatch'[u][q] = tripToDispatch[u][q]
      BY <1>a, <1>b, <2>1, <2>2, TokenFrame DEF SentTo
    <2>3. CASE tripToDispatch'[u][q] = Append(tripToDispatch[u][q], "note_completion")
      <3>0. Places(Append(tripToDispatch[u][q], "note_completion"), "enqueue_trip") = SentTo(u, q)
        BY <1>d, PlacesAppendOther DEF SentTo
      <3>1. SentTo(u, q)' = SentTo(u, q)
        BY <2>3, <3>0 DEF SentTo
      <3> QED  BY <1>a, <1>b, <2>1, <3>1, TokenFrame
    <2>4. \/ tripToDispatch'[u][q] = tripToDispatch[u][q]
          \/ tripToDispatch'[u][q] = Append(tripToDispatch[u][q], "note_completion")
      BY <1>c, <1>5 DEF FinishRide, CountCompletion, Send
    <2> QED  BY <2>2, <2>3, <2>4
  <1>6. CASE RideTimerFires(t) \/ OperatorCompletes(t)
    BY <1>5, <1>6 DEF RideTimerFires, RideEnds, OperatorCompletes, Complete
  <1>7. CASE OperatorCancels(t)
    <2>1. /\ SentTo(u, q)' = SentTo(u, q)
          /\ Waiting(u)' <=> Waiting(u)
          /\ Waiting(u) => tripRegion'[u] = tripRegion[u]
      BY <1>7 DEF OperatorCancels, Cancel, SentTo, Waiting, restateVars, channels
    <2> QED  BY <1>a, <1>b, <2>1, TokenFrame
  <1> QED
    BY <1>1, <1>2, <1>3, <1>4, <1>6, <1>7 DEF TripStep

\* A step of a driver preserves TokenConserved.
LEMMA DriverStepToken ==
  ASSUME TokenConserved, NEW d \in Drivers, DriverStep(d)
  PROVE  TokenConserved'
  <1>1. UNCHANGED <<tripToDispatch, awakeable, tripVars, dispatchVars>>
    BY DEF DriverStep, DriverGoesOnline, OperatorForcesIdle, DriverGoesOffline, RestOfLocations,
       DriverPings, restateVars, channels, LocationsTakesAcceptTrip, LocationsTakesSetStatus
  <1>2. ASSUME NEW u \in Trips, NEW q \in Regions PROVE TokenInOnePlace(u, q)'
    BY <1>1, TokenFrame DEF TokenConserved, SentTo, QueuedIn, Waiting, tripVars, dispatchVars
  <1> QED  BY <1>2 DEF TokenConserved
\* Which promises a round resolves: those of the trips it matched.
LEMMA ResolveIs ==
  ASSUME TypeOK, NEW r \in Regions, NEW f \in Assignments(r), NEW u \in Trips
  PROVE  /\ \A j \in Nat : QueuedIn(u, r) = {j} /\ j <= Matches(r) => Resolve(r, f)[u] # NoDriver
         /\ \A j \in Nat : QueuedIn(u, r) = {j} /\ j > Matches(r) => Resolve(r, f)[u] = awakeable[u]
         /\ QueuedIn(u, r) = {} => Resolve(r, f)[u] = awakeable[u]
  <1>1. /\ f \in [1..Matches(r) -> idle[r]] /\ idle[r] \subseteq Drivers
        /\ Matches(r) \in Nat /\ Matches(r) <= Len(pending[r]) /\ Len(pending[r]) \in Nat
    BY MatchesBounds DEF Assignments, TypeOK, DispatchTypeOK
  <1>2. ASSUME NEW i \in DOMAIN f, pending[r][i] = u
        PROVE  i \in QueuedIn(u, r) /\ i <= Matches(r) /\ i \in Nat
    BY <1>1, <1>2 DEF QueuedIn, Places
  <1>3. ASSUME NEW j \in Nat, QueuedIn(u, r) = {j}, j <= Matches(r)
        PROVE  Resolve(r, f)[u] # NoDriver
    <2>1. j \in DOMAIN f /\ pending[r][j] = u
      <3>1. j \in 1..Len(pending[r]) /\ pending[r][j] = u
        BY <1>3 DEF QueuedIn, Places
      <3> QED  BY <1>1, <1>3, <3>1
    <2>2. (CHOOSE i \in DOMAIN f : pending[r][i] = u) \in DOMAIN f
      BY <2>1
    <2>3. Resolve(r, f)[u] = f[CHOOSE i \in DOMAIN f : pending[r][i] = u]
      BY <2>1 DEF Resolve
    <2>4. Resolve(r, f)[u] \in Drivers
      BY <1>1, <2>2, <2>3
    <2> QED  BY <2>4, NamesAreDistinct
  <1>4. (~ \E i \in DOMAIN f : pending[r][i] = u) => Resolve(r, f)[u] = awakeable[u]
    BY DEF Resolve
  <1>5. ASSUME NEW j \in Nat, QueuedIn(u, r) = {j}, j > Matches(r)
        PROVE  ~ \E i \in DOMAIN f : pending[r][i] = u
    BY <1>1, <1>2, <1>5
  <1>6. ASSUME QueuedIn(u, r) = {} PROVE ~ \E i \in DOMAIN f : pending[r][i] = u
    BY <1>2, <1>6
  <1> QED  BY <1>3, <1>4, <1>5, <1>6

\* Where a trip stands in the queue once the served trips have left it.
LEMMA SuffixOfPending ==
  ASSUME TypeOK, NEW r \in Regions, NEW u \in Trips
  PROVE  /\ Places(pending[r], u) = {} => Places(Leftover(r), u) = {}
         /\ \A j \in Nat : Places(pending[r], u) = {j} /\ j <= Matches(r) =>
              Places(Leftover(r), u) = {}
         /\ \A j \in Nat : Places(pending[r], u) = {j} /\ j > Matches(r) =>
              Singleton(Places(Leftover(r), u))
  <1> DEFINE w == Leftover(r)
             p == pending[r]
  <1>1. w \in Seq(Trips) /\ p \in Seq(Trips)
    BY LeftoverIs DEF TypeOK, DispatchTypeOK
  <1>2. Len(p) \in Nat /\ Len(p) - Len(w) = Matches(r) /\ Len(w) <= Len(p)
    BY LeftoverIs, MatchesBounds
  <1>3. IsSuffix(w, p)
    BY <1>2, LeftoverIs DEF IsSuffix
  <1> HIDE DEF w, p
  <1>4. ASSUME Places(p, u) = {} PROVE Places(w, u) = {}
    BY <1>1, <1>3, <1>4, PlacesDropped
  <1>5. ASSUME NEW j \in Nat, Places(p, u) = {j}, j <= Matches(r) PROVE Places(w, u) = {}
    BY <1>1, <1>2, <1>3, <1>5, PlacesDropped
  <1>6. ASSUME NEW j \in Nat, Places(p, u) = {j}, j > Matches(r) PROVE Singleton(Places(w, u))
    BY <1>1, <1>2, <1>3, <1>6, PlacesKept
  <1> QED  BY <1>4, <1>5, <1>6 DEF w, p

\* A matching round takes the tokens of the trips it serves and keeps the rest.
LEMMA RoundToken ==
  ASSUME TypeOK, TokenConserved, NEW r \in Regions, EpochMatches(r),
         NEW u \in Trips, NEW q \in Regions
  PROVE  TokenInOnePlace(u, q)'
  <1>1. TokenInOnePlace(u, q) /\ TokenInOnePlace(u, r)
    BY DEF TokenConserved
  <1>2. CloseEpochMatch(r) /\ SentTo(u, q)' = SentTo(u, q) /\ tripHolder' = tripHolder
                           /\ tripRegion' = tripRegion
    BY DEF EpochMatches, SentTo, channels, RestOfDispatch, tripVars
  <1>3. PICK f \in Assignments(r) : awakeable' = Resolve(r, f)
    BY <1>2 DEF CloseEpochMatch
  <1>q. pending[r] \in Seq(Trips) /\ Len(pending[r]) \in Nat
    BY DEF TypeOK, DispatchTypeOK
  <1>4. /\ pending' = [pending EXCEPT ![r] = Leftover(r)]
        /\ pending \in [Regions -> Seq(Trips)]
    BY <1>2 DEF CloseEpochMatch, TypeOK, DispatchTypeOK
  <1>5. /\ QueuedIn(u, r) = {} => Places(Leftover(r), u) = {}
        /\ \A j \in Nat : QueuedIn(u, r) = {j} /\ j <= Matches(r) => Places(Leftover(r), u) = {}
        /\ \A j \in Nat : QueuedIn(u, r) = {j} /\ j > Matches(r) => Singleton(Places(Leftover(r), u))
    BY <1>q, SuffixOfPending DEF QueuedIn
  <1>6. ASSUME QueuedIn(u, r) = {} PROVE TokenInOnePlace(u, q)'
    <2>1. Waiting(u)' <=> Waiting(u)
      BY <1>2, <1>3, <1>6, ResolveIs DEF Waiting
    <2>2. QueuedIn(u, q)' = QueuedIn(u, q)
      BY <1>4, <1>5, <1>6 DEF QueuedIn
    <2> QED  BY <1>1, <1>2, <2>1, <2>2, TokenFrame
  <1>7. ASSUME QueuedIn(u, r) # {} PROVE TokenInOnePlace(u, q)'
    <2>1. /\ Waiting(u) /\ r = tripRegion[u]
          /\ SentTo(u, r) = {} /\ Singleton(QueuedIn(u, r))
      BY <1>1, <1>7, Zenon DEF TokenInOnePlace
    <2>2. PICK j : QueuedIn(u, r) = {j}
      BY <2>1 DEF Singleton
    <2>3. j \in Nat
      <3>1. j \in 1..Len(pending[r])
        BY <2>2 DEF QueuedIn, Places
      <3> QED  BY <1>q, <3>1
    <2>4. CASE q # r
      <3>1. SentTo(u, q) = {} /\ QueuedIn(u, q) = {}
        BY <1>1, <2>1, <2>4 DEF TokenInOnePlace
      <3>2. QueuedIn(u, q)' = QueuedIn(u, q)
        BY <1>4, <2>4 DEF QueuedIn
      <3> QED  BY <1>2, <2>1, <2>4, <3>1, <3>2 DEF TokenInOnePlace
    <2>5. CASE q = r /\ j <= Matches(r)
      <3>1. ~ Waiting(u)'
        BY <1>2, <1>3, <2>2, <2>3, <2>5, ResolveIs DEF Waiting
      <3>2. QueuedIn(u, q)' = {}
        BY <1>4, <1>5, <2>2, <2>3, <2>5 DEF QueuedIn
      <3> QED  BY <1>2, <2>1, <2>5, <3>1, <3>2 DEF TokenInOnePlace
    <2>6. CASE q = r /\ j > Matches(r)
      <3>1. Waiting(u)'
        BY <1>2, <1>3, <2>1, <2>2, <2>3, <2>6, ResolveIs DEF Waiting
      <3>2. Singleton(QueuedIn(u, q)')
        BY <1>4, <1>5, <2>2, <2>3, <2>6 DEF QueuedIn
      <3> QED  BY <1>2, <2>1, <2>6, <3>1, <3>2 DEF TokenInOnePlace
    <2>7. j <= Matches(r) \/ j > Matches(r)
      BY <2>3, MatchesBounds
    <2> QED  BY <2>4, <2>5, <2>6, <2>7
  <1> QED  BY <1>6, <1>7
\* A step of a region preserves TokenConserved.
LEMMA RegionStepToken ==
  ASSUME TypeOK, TokenConserved, NEW r \in Regions, RegionStep(r)
  PROVE  TokenConserved'
  <1> SUFFICES ASSUME NEW u \in Trips, NEW q \in Regions
               PROVE  TokenInOnePlace(u, q)'
    BY DEF TokenConserved
  <1>a. TokenInOnePlace(u, q)
    BY DEF TokenConserved
  <1>b. /\ tripToDispatch \in [Trips -> [Regions -> Seq({"enqueue_trip", "note_completion"})]]
        /\ pending \in [Regions -> Seq(Trips)]
    BY DEF TypeOK, RestateTypeOK, DispatchTypeOK
  <1>c. /\ tripToDispatch[u][q] \in Seq({"enqueue_trip", "note_completion"})
        /\ pending[q] \in Seq(Trips)
    BY <1>b
  <1>1. ASSUME UNCHANGED <<tripToDispatch, awakeable, pending, tripVars>>
        PROVE  TokenInOnePlace(u, q)'
    BY <1>a, <1>1, TokenFrame DEF SentTo, QueuedIn, Waiting, tripVars
  <1>2. CASE AgentHalts(r) \/ AgentResumes(r)
    BY <1>1, <1>2 DEF AgentHalts, AgentResumes, RestOfAgent, dispatchVars
  <1>3. CASE \/ \E d \in Drivers : DispatchTakesDriver(d, r) \/ EpochReads(r, d)
             \/ DispatchTakesSetActive(r) \/ EpochSkipped(r) \/ EpochBegins(r)
    BY <1>1, <1>3 DEF DispatchTakesDriver, RegisterDriver, DeregisterDriver, EpochReads,
       ReadPosition, DispatchTakesSetActive, SetActive, EpochSkipped, CloseEpochHalted,
       EpochBegins, CloseEpochBegin, RestOfDispatch, restateVars, channels
  <1>4. ASSUME NEW t \in Trips, DispatchTakesTrip(t, r) PROVE TokenInOnePlace(u, q)'
    <2> USE <1>4 DEF DispatchTakesTrip, EnqueueTrip, Arrived
    <2>1. /\ Waiting(u)' <=> Waiting(u)
          /\ tripRegion' = tripRegion
      BY DEF Waiting, RestOfDispatch, tripVars
    <2>2. CASE u = t /\ q = r
      <3>1. /\ tripToDispatch'[u][q] = Tail(tripToDispatch[u][q])
            /\ pending'[q] = Append(pending[q], u)
            /\ tripToDispatch[u][q] # << >> /\ Head(tripToDispatch[u][q]) = "enqueue_trip"
        BY <1>b, <2>2 DEF Take
      <3>2. SentTo(u, q) # {}
        BY <1>c, <3>1, PlacesTail DEF SentTo
      <3>3. /\ Waiting(u) /\ q = tripRegion[u]
            /\ Singleton(SentTo(u, q)) /\ QueuedIn(u, q) = {}
        BY <1>a, <3>2, Zenon DEF TokenInOnePlace
      <3>4. Places(Tail(tripToDispatch[u][q]), "enqueue_trip") = {}
        BY <1>c, <3>1, <3>3, PlacesTail DEF SentTo
      <3>5. Singleton(Places(Append(pending[q], u), u))
        BY <1>c, <3>3, PlacesAppendSame DEF QueuedIn
      <3>6. SentTo(u, q)' = {} /\ Singleton(QueuedIn(u, q)')
        BY <3>1, <3>4, <3>5 DEF SentTo, QueuedIn
      <3> QED  BY <2>1, <3>3, <3>6 DEF TokenInOnePlace
    <2>3. CASE ~ (u = t /\ q = r)
      <3>1. tripToDispatch'[u][q] = tripToDispatch[u][q]
        BY <1>b, <2>3 DEF Take
      <3>2. \/ pending'[q] = pending[q]
            \/ pending'[q] = Append(pending[q], t) /\ t # u
        BY <1>b, <2>3
      <3>3. Places(pending'[q], u) = Places(pending[q], u)
        <4>1. t # u => Places(Append(pending[q], t), u) = Places(pending[q], u)
          BY <1>c, PlacesAppendOther
        <4> QED  BY <3>2, <4>1
      <3> QED  BY <1>a, <2>1, <3>1, <3>3, TokenFrame DEF SentTo, QueuedIn
    <2> QED  BY <2>2, <2>3
  <1>5. ASSUME NEW t \in Trips, DispatchTakesCompletion(t, r) PROVE TokenInOnePlace(u, q)'
    <2> USE <1>5 DEF DispatchTakesCompletion, NoteCompletion, Arrived
    <2>1. /\ Waiting(u)' <=> Waiting(u)
          /\ tripRegion' = tripRegion
          /\ QueuedIn(u, q)' = QueuedIn(u, q)
      BY DEF Waiting, RestOfDispatch, tripVars, QueuedIn
    <2>2. CASE u = t /\ q = r
      <3>1. /\ tripToDispatch'[u][q] = Tail(tripToDispatch[u][q])
            /\ tripToDispatch[u][q] # << >> /\ Head(tripToDispatch[u][q]) # "enqueue_trip"
        BY <1>b, <2>2 DEF Take
      <3>2. /\ SentTo(u, q) = {} => Places(Tail(tripToDispatch[u][q]), "enqueue_trip") = {}
            /\ Singleton(SentTo(u, q)) =>
                 Singleton(Places(Tail(tripToDispatch[u][q]), "enqueue_trip"))
        BY <1>c, <3>1, PlacesTail DEF SentTo
      <3>3. /\ SentTo(u, q) = {} => SentTo(u, q)' = {}
            /\ Singleton(SentTo(u, q)) => Singleton(SentTo(u, q)')
        BY <3>1, <3>2 DEF SentTo
      <3> QED  BY <1>a, <2>1, <3>3 DEF TokenInOnePlace
    <2>3. CASE ~ (u = t /\ q = r)
      <3>1. tripToDispatch'[u][q] = tripToDispatch[u][q]
        BY <1>b, <2>3 DEF Take
      <3> QED  BY <1>a, <2>1, <3>1, TokenFrame DEF SentTo
    <2> QED  BY <2>2, <2>3
  <1>6. CASE EpochMatches(r)
    BY <1>6, RoundToken
  <1> QED
    BY <1>2, <1>3, <1>4, <1>5, <1>6 DEF RegionStep

\* Every step, and every stutter, preserves TokenConserved.
LEMMA NextToken ==
  ASSUME TypeOK, TokenConserved, [Next]_vars
  PROVE  TokenConserved'
  <1>1. CASE Next
    BY <1>1, TripStepToken, DriverStepToken, RegionStepToken DEF Next
  <1>2. CASE UNCHANGED vars
    <2>1. ASSUME NEW u \in Trips, NEW q \in Regions PROVE TokenInOnePlace(u, q)'
      BY <1>2, TokenFrame DEF TokenConserved, SentTo, QueuedIn, Waiting,
         vars, restateVars, channels, tripVars, dispatchVars
    <2> QED  BY <2>1 DEF TokenConserved
  <1> QED  BY <1>1, <1>2

\* Nothing is sent, queued or awaited at the start.
LEMMA InitToken == Init => TokenConserved
  <1> SUFFICES ASSUME Init, NEW u \in Trips, NEW q \in Regions
               PROVE  TokenInOnePlace(u, q)
    BY DEF TokenConserved
  <1>1. tripToDispatch[u][q] = << >> /\ pending[q] = << >> /\ tripHolder[u] = "none"
    BY DEF Init, RestateInit, NoMessages, TripInit, DispatchInit
  <1> QED  BY <1>1 DEF TokenInOnePlace, Waiting, SentTo, QueuedIn, Places

\* The promise of a waiting confirm is always in exactly one place, and nobody
\* holds the promise of a confirm that was answered.
THEOREM TokensAreConserved == Spec => []TokenConserved
  <1> QED  BY InitToken, NextToken, TypeCorrect, PTL DEF Spec
-----------------------------------------------------------------------------
(* A halted region.                                                        *)

\* In a halted region no step takes a trip out of the queue or stops the loop.
LEMMA HaltedStep ==
  ASSUME TypeOK, LoopInv, [Next]_vars, NEW r \in Regions, ~ active[r]
  PROVE  /\ Len(pending[r]) <= Len(pending'[r])
         /\ \A i \in 1..Len(pending[r]) : pending'[r][i] = pending[r][i]
         /\ loopRunning[r] => loopRunning'[r]
  <1>0. /\ pending \in [Regions -> Seq(Trips)]
        /\ loopRunning \in [Regions -> BOOLEAN]
        /\ pending[r] \in Seq(Trips)
        /\ Len(pending[r]) \in Nat
    BY DEF TypeOK, DispatchTypeOK
  <1>1. ~ epochRunning[r]
    BY DEF LoopInv, NoRoundWhileHalted
  <1>2. CASE pending'[r] = pending[r] /\ loopRunning'[r] = loopRunning[r]
    BY <1>0, <1>2
  <1>3. CASE UNCHANGED dispatchVars
    BY <1>2, <1>3 DEF dispatchVars
  <1>4. ASSUME NEW q \in Regions, RegionStep(q)
        PROVE  /\ Len(pending[r]) <= Len(pending'[r])
               /\ \A i \in 1..Len(pending[r]) : pending'[r][i] = pending[r][i]
               /\ loopRunning[r] => loopRunning'[r]
    <2>1. CASE AgentHalts(q) \/ AgentResumes(q)
      BY <1>2, <2>1 DEF AgentHalts, AgentResumes, RestOfAgent, dispatchVars
    <2>2. CASE \/ \E t \in Trips : DispatchTakesCompletion(t, q)
               \/ \E d \in Drivers : DispatchTakesDriver(d, q) \/ EpochReads(q, d)
               \/ DispatchTakesSetActive(q) \/ EpochSkipped(q) \/ EpochBegins(q)
      BY <1>2, <2>2 DEF DispatchTakesCompletion, NoteCompletion, DispatchTakesDriver,
         RegisterDriver, DeregisterDriver, EpochReads, ReadPosition, DispatchTakesSetActive,
         SetActive, EpochSkipped, CloseEpochHalted, EpochBegins, CloseEpochBegin
    <2>3. ASSUME NEW t \in Trips, DispatchTakesTrip(t, q)
          PROVE  /\ pending'[r] = pending[r] \/ pending'[r] = Append(pending[r], t)
                 /\ loopRunning[r] => loopRunning'[r]
      BY <1>0, <2>3 DEF DispatchTakesTrip, EnqueueTrip
    <2>4. CASE \E t \in Trips : DispatchTakesTrip(t, q)
      <3>1. PICK t \in Trips : pending'[r] = pending[r] \/ pending'[r] = Append(pending[r], t)
        BY <2>3, <2>4
      <3>2. loopRunning[r] => loopRunning'[r]
        BY <2>3, <2>4
      <3>3. CASE pending'[r] = Append(pending[r], t)
        <4>1. /\ Len(Append(pending[r], t)) = Len(pending[r]) + 1
              /\ \A i \in 1..Len(pending[r]) : Append(pending[r], t)[i] = pending[r][i]
          BY <1>0
        <4> QED  BY <1>0, <3>2, <3>3, <4>1
      <3>4. CASE pending'[r] = pending[r]
        BY <1>0, <3>2, <3>4
      <3> QED  BY <3>1, <3>3, <3>4
    <2>5. CASE EpochMatches(q)
      <3>1. q # r
        BY <1>1, <2>5 DEF EpochMatches, CloseEpochMatch
      <3> QED  BY <1>0, <1>2, <2>5, <3>1 DEF EpochMatches, CloseEpochMatch
    <2> QED
      BY <1>4, <2>1, <2>2, <2>4, <2>5 DEF RegionStep
  <1> QED
    BY <1>3, <1>4, OthersLeaveDispatch DEF Next, vars

\* Trips stay queued, in order, and the loop goes on while a region is halted.
THEOREM HaltKeepsTrips == Spec => HaltedRegionKeepsItsTrips
  <1>1. ASSUME TypeOK, LoopInv, [Next]_vars
        PROVE  [\A r \in Regions : ~ active[r] =>
                  /\ Len(pending[r]) <= Len(pending'[r])
                  /\ \A i \in 1..Len(pending[r]) : pending'[r][i] = pending[r][i]
                  /\ loopRunning[r] => loopRunning'[r]]_vars
    BY <1>1, HaltedStep
  <1> QED  BY <1>1, TypeCorrect, LoopInvariant, PTL DEF Spec, HaltedRegionKeepsItsTrips

-----------------------------------------------------------------------------
(* Trips that are over.                                                    *)

\* The status a trip has while one of its invocations is suspended.
TripPhase ==
  \A t \in Trips :
    /\ tripHolder[t] = "request_ride" => tripStatus[t] = "requested"
    /\ tripHolder[t] = "confirm" => tripStatus[t] = "dispatching"

\* A step of trip t preserves TripPhase and keeps every trip that is over so.
LEMMA TripStepPhase ==
  ASSUME TypeOK, TripPhase, NEW t \in Trips, TripStep(t)
  PROVE  /\ TripPhase'
         /\ \A u \in Trips :
              /\ tripStatus[u] \in {"completed", "cancelled"}
              /\ tripStatus'[u] # tripStatus[u]
              => confirms'[u] > confirms[u] \/ tripStatus'[u] = "cancelled"
  <1> DEFINE Kept == \A u \in Trips :
                       /\ tripStatus[u] \in {"completed", "cancelled"}
                       /\ tripStatus'[u] # tripStatus[u]
                       => confirms'[u] > confirms[u] \/ tripStatus'[u] = "cancelled"
  <1> SUFFICES TripPhase' /\ Kept
    OBVIOUS
  <1>0. /\ tripStatus \in [Trips -> TripStatus]
        /\ tripHolder \in [Trips -> {"none", "request_ride", "confirm"}]
        /\ confirms \in [Trips -> Nat]
    BY DEF TypeOK, TripTypeOK
  <1>1. ASSUME NEW r \in Regions, RiderRequests(t, r) PROVE TripPhase' /\ Kept
    BY <1>0, <1>1 DEF RiderRequests, RequestRide, KeyFree, TripPhase
  <1>2. CASE OffersAnswers(t)
    BY <1>0, <1>2 DEF OffersAnswers, QuoteReturned, TripPhase
  <1>3. CASE RiderConfirms(t)
    BY <1>0, <1>3 DEF RiderConfirms, Confirm, KeyFree, TripPhase
  <1>4. CASE ConfirmResumes(t)
    BY <1>0, <1>4 DEF ConfirmResumes, MatchArrives, TripPhase
  <1>5. ASSUME FinishRide(t), KeyFree(t) PROVE TripPhase' /\ Kept
    BY <1>0, <1>5 DEF FinishRide, Over, KeyFree, TripPhase
  <1>6. CASE RideTimerFires(t) \/ OperatorCompletes(t)
    BY <1>5, <1>6 DEF RideTimerFires, RideEnds, OperatorCompletes, Complete
  <1>7. CASE OperatorCancels(t)
    BY <1>0, <1>7 DEF OperatorCancels, Cancel, KeyFree, TripPhase
  <1> QED
    BY <1>1, <1>2, <1>3, <1>4, <1>6, <1>7 DEF TripStep

\* Drivers and regions leave every trip alone.
LEMMA OthersLeaveTrips ==
  ASSUME (\E d \in Drivers : DriverStep(d)) \/ (\E r \in Regions : RegionStep(r))
  PROVE  UNCHANGED tripVars
  <1>1. ASSUME NEW d \in Drivers, DriverStep(d) PROVE UNCHANGED tripVars
    BY <1>1 DEF DriverStep, DriverGoesOnline, OperatorForcesIdle, DriverGoesOffline,
       DriverPings, RestOfLocations, LocationsTakesAcceptTrip, LocationsTakesSetStatus
  <1>2. ASSUME NEW r \in Regions, RegionStep(r) PROVE UNCHANGED tripVars
    BY <1>2 DEF RegionStep, AgentHalts, AgentResumes, RestOfAgent, RestOfDispatch,
       DispatchTakesTrip, DispatchTakesCompletion, DispatchTakesDriver, DispatchTakesSetActive,
       EpochSkipped, EpochBegins, EpochReads, EpochMatches
  <1> QED  BY <1>1, <1>2

\* TripPhase holds in every reachable state.
LEMMA PhaseInvariant == Spec => []TripPhase
  <1>1. Init => TripPhase
    BY DEF Init, TripInit, TripPhase
  <1>2. ASSUME TypeOK, TripPhase, [Next]_vars PROVE TripPhase'
    <2>1. CASE UNCHANGED tripVars
      BY <1>2, <2>1 DEF TripPhase, tripVars
    <2>2. CASE \E t \in Trips : TripStep(t)
      BY <1>2, <2>2, TripStepPhase
    <2> QED  BY <1>2, <2>1, <2>2, OthersLeaveTrips DEF Next, vars
  <1> QED  BY <1>1, <1>2, TypeCorrect, PTL DEF Spec

\* Neither a ride timer nor a late match touches a trip that is over.
THEOREM OverStaysOver == Spec => OverUnlessCalled
  <1>1. ASSUME TypeOK, TripPhase, [Next]_vars
        PROVE  [\A t \in Trips :
                  /\ tripStatus[t] \in {"completed", "cancelled"}
                  /\ tripStatus'[t] # tripStatus[t]
                  => confirms'[t] > confirms[t] \/ tripStatus'[t] = "cancelled"]_vars
    <2>1. CASE UNCHANGED tripVars
      BY <2>1 DEF tripVars
    <2> QED  BY <1>1, <2>1, TripStepPhase, OthersLeaveTrips DEF Next, vars
  <1> QED  BY <1>1, TypeCorrect, PhaseInvariant, PTL DEF Spec, OverUnlessCalled
==============================================================================
