------------------------------ MODULE Dispatch -------------------------------
(***************************************************************************)
(* services/dispatch.py: one Virtual Object per region.                    *)
(*                                                                         *)
(* close_epoch awaits a call to Locations.get_position for every driver of *)
(* the pool, one after the other, while the object's key is held and the   *)
(* drivers go on changing status: it is a begin, a read per driver and a   *)
(* match.  All other handlers await only their own state: one step each.   *)
(*                                                                         *)
(* active_driver_ids never holds a driver twice, so it is a set here: the  *)
(* nearest driver wins a trip, and which driver is nearest is any of them. *)
(* epoch_id and last_enqueued_trip_id are only reported, and the Features  *)
(* read of close_epoch only logged.                                        *)
(***************************************************************************)
EXTENDS Restate

\* A round counts the idle drivers.
ASSUME DriversAreFinite == IsFiniteSet(Drivers)

VARIABLES
  active,
  pool,            \* active_driver_ids
  pending,         \* pending_trips, each standing for its awakeable too
  loopRunning,
  epochTimer,      \* number of delayed self-sends of close_epoch outstanding
  epochRunning,    \* a close_epoch holds the key, reading positions
  unread,          \* drivers of its snapshot it has yet to ask
  idle,            \* driver_positions: those that answered idle with a position
  totalMatched,
  totalCompleted

epochVars == <<epochRunning, unread, idle>>
dispatchVars == <<active, pool, pending, loopRunning, epochTimer, epochVars,
                  totalMatched, totalCompleted>>

DispatchInit ==
  /\ active = [r \in Regions |-> TRUE]
  /\ pool = [r \in Regions |-> {}]
  /\ pending = [r \in Regions |-> << >>]
  /\ loopRunning = [r \in Regions |-> FALSE]
  /\ epochTimer = [r \in Regions |-> 0]
  /\ epochRunning = [r \in Regions |-> FALSE]
  /\ unread = [r \in Regions |-> {}]
  /\ idle = [r \in Regions |-> {}]
  /\ totalMatched = [r \in Regions |-> 0]
  /\ totalCompleted = [r \in Regions |-> 0]

DispatchTypeOK ==
  /\ active \in [Regions -> BOOLEAN]
  /\ pool \in [Regions -> SUBSET Drivers]
  /\ pending \in [Regions -> Seq(Trips)]
  /\ loopRunning \in [Regions -> BOOLEAN]
  /\ epochTimer \in [Regions -> Nat]
  /\ epochRunning \in [Regions -> BOOLEAN]
  /\ unread \in [Regions -> SUBSET Drivers]
  /\ idle \in [Regions -> SUBSET Drivers]
  /\ totalMatched \in [Regions -> Nat]
  /\ totalCompleted \in [Regions -> Nat]

\* Restate runs an exclusive handler of region r only when no other holds it.
DispatchKeyFree(r) == ~ epochRunning[r]

-----------------------------------------------------------------------------
NoteCompletion(r) ==
  /\ DispatchKeyFree(r)
  /\ totalCompleted' = [totalCompleted EXCEPT ![r] = @ + 1]
  /\ UNCHANGED <<active, pool, pending, loopRunning, epochTimer, epochVars, totalMatched>>

SetActive(r, a) ==
  /\ DispatchKeyFree(r)
  /\ active' = [active EXCEPT ![r] = a]
  /\ UNCHANGED <<pool, pending, loopRunning, epochTimer, epochVars,
                 totalMatched, totalCompleted>>

RegisterDriver(r, d) ==
  /\ DispatchKeyFree(r)
  /\ pool' = [pool EXCEPT ![r] = @ \cup {d}]
  /\ UNCHANGED <<active, pending, loopRunning, epochTimer, epochVars,
                 totalMatched, totalCompleted>>

DeregisterDriver(r, d) ==
  /\ DispatchKeyFree(r)
  /\ pool' = [pool EXCEPT ![r] = @ \ {d}]
  /\ UNCHANGED <<active, pending, loopRunning, epochTimer, epochVars,
                 totalMatched, totalCompleted>>

\* Mutant of TimersAfterEnqueue: each trip starts a loop of its own.
TimersAfterEveryEnqueue(r) == epochTimer[r] + 1

\* A loop that is not running is started.
TimersAfterEnqueue(r) == IF loopRunning[r] THEN epochTimer[r] ELSE epochTimer[r] + 1

EnqueueTrip(r, t) ==
  /\ DispatchKeyFree(r)
  /\ pending' = [pending EXCEPT ![r] = Append(@, t)]
  /\ loopRunning' = [loopRunning EXCEPT ![r] = TRUE]
  /\ epochTimer' = [epochTimer EXCEPT ![r] = TimersAfterEnqueue(r)]
  /\ UNCHANGED <<active, pool, epochVars, totalMatched, totalCompleted>>

-----------------------------------------------------------------------------
EpochDue(r) == epochTimer[r] > 0 /\ DispatchKeyFree(r)

\* Mutant of CloseEpochHalted: the next epoch is not scheduled.
CloseEpochHaltedStops(r) ==
  /\ EpochDue(r)
  /\ ~ active[r]
  /\ epochTimer' = [epochTimer EXCEPT ![r] = @ - 1]
  /\ UNCHANGED <<active, pool, pending, loopRunning, epochVars,
                 totalMatched, totalCompleted>>

\* close_epoch of a halted region schedules the next epoch and nothing else.
CloseEpochHalted(r) ==
  /\ EpochDue(r)
  /\ ~ active[r]
  /\ epochTimer' = [epochTimer EXCEPT ![r] = (@ - 1) + 1]
  /\ UNCHANGED <<active, pool, pending, loopRunning, epochVars,
                 totalMatched, totalCompleted>>

\* Mutant of CloseEpochBegin: the halt is not tested.
CloseEpochBeginHalted(r) ==
  /\ EpochDue(r)
  /\ epochTimer' = [epochTimer EXCEPT ![r] = @ - 1]
  /\ epochRunning' = [epochRunning EXCEPT ![r] = TRUE]
  /\ unread' = [unread EXCEPT ![r] = pool[r]]
  /\ idle' = [idle EXCEPT ![r] = {}]
  /\ UNCHANGED <<active, pool, pending, loopRunning, totalMatched, totalCompleted>>

\* close_epoch up to its first await: the snapshot of the pool.
CloseEpochBegin(r) ==
  /\ EpochDue(r)
  /\ active[r]
  /\ epochTimer' = [epochTimer EXCEPT ![r] = @ - 1]
  /\ epochRunning' = [epochRunning EXCEPT ![r] = TRUE]
  /\ unread' = [unread EXCEPT ![r] = pool[r]]
  /\ idle' = [idle EXCEPT ![r] = {}]
  /\ UNCHANGED <<active, pool, pending, loopRunning, totalMatched, totalCompleted>>

\* Locations answers for driver d; `matchable' is what it reports.
ReadPosition(r, d, matchable) ==
  /\ epochRunning[r]
  /\ d \in unread[r]
  /\ unread' = [unread EXCEPT ![r] = @ \ {d}]
  /\ idle' = [idle EXCEPT ![r] = IF matchable THEN @ \cup {d} ELSE @]
  /\ UNCHANGED <<active, pool, pending, loopRunning, epochTimer, epochRunning,
                 totalMatched, totalCompleted>>

\* How many of the waiting trips, oldest first, get a driver.
Matches(r) == IF Len(pending[r]) <= Cardinality(idle[r])
              THEN Len(pending[r]) ELSE Cardinality(idle[r])

\* Mutant of Assignments: used_drivers is not consulted.
AssignmentsReusingDrivers(r) == [1..Matches(r) -> idle[r]]

\* used_drivers: no driver is given to two trips of one round.
Assignments(r) ==
  {f \in [1..Matches(r) -> idle[r]] : \A i, j \in 1..Matches(r) : f[i] = f[j] => i = j}

\* Mutant of Leftover: one waiting trip too many leaves the queue.
LeftoverOffByOne(r) == SubSeq(pending[r], Matches(r) + 2, Len(pending[r]))

\* The trips carried forward.
Leftover(r) == SubSeq(pending[r], Matches(r) + 1, Len(pending[r]))

\* Mutant of HasMoreWork: the trips carried forward do not count.
HasIdleDrivers(r) == idle[r] # {}

HasMoreWork(r) == Leftover(r) # << >> \/ idle[r] # {}

\* Resolve the awakeable of the i-th pending trip with driver f[i].
Resolve(r, f) ==
  [t \in Trips |->
     IF \E i \in DOMAIN f : pending[r][i] = t
     THEN f[CHOOSE i \in DOMAIN f : pending[r][i] = t]
     ELSE awakeable[t]]

CloseEpochMatch(r) ==
  /\ epochRunning[r]
  /\ unread[r] = {}
  /\ \E f \in Assignments(r) : awakeable' = Resolve(r, f)
  /\ totalMatched' = [totalMatched EXCEPT ![r] = @ + Matches(r)]
  /\ pending' = [pending EXCEPT ![r] = Leftover(r)]
  /\ loopRunning' = [loopRunning EXCEPT ![r] = HasMoreWork(r)]
  /\ epochTimer' = [epochTimer EXCEPT ![r] = IF HasMoreWork(r) THEN @ + 1 ELSE @]
  /\ epochRunning' = [epochRunning EXCEPT ![r] = FALSE]
  /\ idle' = [idle EXCEPT ![r] = {}]
  /\ UNCHANGED <<active, pool, unread, totalCompleted>>

\* The inspector's estimate of the rides under way.
InFlightReported(r) ==
  IF totalMatched[r] >= totalCompleted[r] THEN totalMatched[r] - totalCompleted[r] ELSE 0
==============================================================================
