------------------------------ MODULE Locations ------------------------------
(***************************************************************************)
(* services/locations.py: one Virtual Object per driver_id.  No handler    *)
(* awaits anything but its own state, so each is one step.  Of a driver's  *)
(* position only whether there is one matters: a driver without a position *)
(* is never matched.                                                       *)
(***************************************************************************)
EXTENDS Restate

VARIABLES driverStatus, driverRegion, hasPosition, currentTrip

locationsVars == <<driverStatus, driverRegion, hasPosition, currentTrip>>

DriverStatus == {"offline", "idle", "en_route", "on_trip"}

\* get_position reports a driver without a stored status as offline.
LocationsInit ==
  /\ driverStatus = [d \in Drivers |-> "offline"]
  /\ driverRegion = [d \in Drivers |-> NoRegion]
  /\ hasPosition = [d \in Drivers |-> FALSE]
  /\ currentTrip = [d \in Drivers |-> NoTrip]

LocationsTypeOK ==
  /\ driverStatus \in [Drivers -> DriverStatus]
  /\ driverRegion \in [Drivers -> Regions \cup {NoRegion}]
  /\ hasPosition \in [Drivers -> BOOLEAN]
  /\ currentTrip \in [Drivers -> Trips \cup {NoTrip}]

\* The first GPS observation gives the driver a position, later ones smooth it.
Ping(d) ==
  /\ hasPosition' = [hasPosition EXCEPT ![d] = TRUE]
  /\ UNCHANGED <<driverStatus, driverRegion, currentTrip>>

-----------------------------------------------------------------------------
\* Mutant of LeavingIdle: only a driver that starts a ride leaves the pool.
LeavingIdleToDrive(d, s) == s = "en_route" /\ driverStatus[d] = "idle"

GoingIdle(d, s) == s = "idle" /\ driverStatus[d] # "idle"
LeavingIdle(d, s) == s # "idle" /\ driverStatus[d] = "idle"

\* What set_status(s, r) tells the Dispatch objects: the region it names when
\* the driver becomes idle, the region stored before when it stops being idle.
Membership(d, s, r) ==
  IF GoingIdle(d, s) /\ r # NoRegion
  THEN Send(locationsToDispatch, d, r, "register_driver")
  ELSE IF LeavingIdle(d, s) /\ driverRegion[d] # NoRegion
  THEN Send(locationsToDispatch, d, driverRegion[d], "deregister_driver")
  ELSE locationsToDispatch

SetStatus(d, s, r) ==
  /\ driverStatus' = [driverStatus EXCEPT ![d] = s]
  /\ driverRegion' = [driverRegion EXCEPT ![d] = IF r = NoRegion THEN @ ELSE r]
  /\ locationsToDispatch' = Membership(d, s, r)
  /\ UNCHANGED <<hasPosition, currentTrip>>

\* Mutant of LeavePool: the driver stays in the pool.
LeavePoolForgotten(d) == locationsToDispatch

\* The driver leaves the idle pool of its region while it drives.
LeavePool(d) ==
  IF driverRegion[d] # NoRegion
  THEN Send(locationsToDispatch, d, driverRegion[d], "deregister_driver")
  ELSE locationsToDispatch

\* Mutant of AcceptTrip: the driver's status stays what it was.
AcceptTripKeepsStatus(d, t) ==
  /\ currentTrip' = [currentTrip EXCEPT ![d] = t]
  /\ locationsToDispatch' = LeavePool(d)
  /\ UNCHANGED <<driverStatus, driverRegion, hasPosition>>

AcceptTrip(d, t) ==
  /\ currentTrip' = [currentTrip EXCEPT ![d] = t]
  /\ driverStatus' = [driverStatus EXCEPT ![d] = "en_route"]
  /\ locationsToDispatch' = LeavePool(d)
  /\ UNCHANGED <<driverRegion, hasPosition>>

-----------------------------------------------------------------------------
\* What Dispatch asks of get_position: a position, and the status idle.
Matchable(d) == hasPosition[d] /\ driverStatus[d] = "idle"
==============================================================================
