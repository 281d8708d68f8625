# A TLA+ verification of RideCo

RideCo (`src/rideco`) is a ride-hailing demo built from Restate Virtual
Objects: durable, keyed, single-writer actors that exchange durable messages.
This directory holds TLA+ modules that model it, the TLC configurations that
model-check them on small instances, and theorems about them that TLAPS proves
for every instance.

## 1. The system

| Component | State it keeps | Operations | Talks to |
|---|---|---|---|
| `Trip` (per trip) | status, region, assigned driver, awakeable | `request_ride`, `confirm`, `complete`, `cancel`, `get` | calls Offers; sends to Dispatch, Locations, Pricing, Features and itself |
| `Dispatch` (per region) | `active`, `active_driver_ids`, `pending_trips`, `loop_running`, counters | `enqueue_trip`, `register_driver`, `deregister_driver`, `set_active`, `note_completion`, `close_epoch`, `get` | calls Locations and Features, resolves Trip's awakeables, schedules itself |
| `Locations` (per driver) | position, status, region, current trip | `ping`, `set_status`, `accept_trip`, `get_position` | sends to Dispatch |
| `RegionSafetyAgent` (per region) | `active`, `region_active`, pending awakeable, last score | `start_monitoring`, `tick`, `force_resume`, `stop_monitoring`, `get` | calls Features, sends to Dispatch, suspends on the operator's verdict |
| `Features` (per key) | value, version; samples of an event stream | `set`, `get`, `record_event`, `event_rate` | none |
| `Pricing` (per region) | multiplier, supply, demand | `quote`, `refresh`, `note_demand`, `note_supply` | calls Features, schedules itself |
| `Offers`, `ETA` | none | `generate`, `estimate` | Offers calls ETA and Pricing |
| `RiderSim`, `DriverSim`, `MappingSim` | `active` and their settings | `start`, `pause`, `resume`, `tick`, ... | drive Trip, Locations, Features, Pricing and the agent |
| `SimControl` | size and rate of the fleet | `start_all`, `stop_all`, `pause_*`, `resume_*`, `set_rider_rate` | sends to the simulators |
| TUI: `ProcessManager` | a process, a status and a log reader per service | start, stop, restart, boot, teardown | operating system, Restate admin |
| TUI: `RidecoApp`, `watch_regions` | what is on the screen | key actions, polling | HTTP calls to the above |
| scripts | none | one or a few HTTP calls each | HTTP calls to the above |

### What is hard

* **A suspended handler holds its key.** `Trip.confirm` waits for a match and
  `RegionSafetyAgent.tick` for an operator while every other exclusive call of
  the key queues up behind them.  A cancel of a waiting trip runs *after* the
  trip was matched.
* **Rounds read while the world moves.** `close_epoch` asks the drivers one by
  one and writes the queue back at the end; drivers change status meanwhile.
* **A match needs two hops to reach its driver**: the awakeable to the trip,
  `accept_trip` to the driver, and a third, `deregister_driver`, to the pool.
  The next round may begin in between.
* **The pool is maintained by messages** that three objects cause, one driver's
  transitions being triggered by several trips, a simulator and operators.
* **Self-scheduled loops** (rounds, ticks, refresh) are started by one handler
  and stopped by another, so they can die or fork.
* **Halting** races rounds, verdicts, overrides and restarts of the monitoring.
* **A poisoned feature** is retried for ever and holds up its key, with the
  services that read the feature in the middle of their own work.
* **The dashboard's tasks share fields across awaits**: a rate that was read, a
  process that was started, a flag that is to say what the fleet does.
* **Crashes and retries** do not appear as such: Restate replays a handler over
  its journal, so a crash between two durable effects is a delay between them.
  The models have every such delay.

### What makes each component correct

* Trip: its confirm returns; a trip that is over stays over; a driver it took
  is freed, by that trip and no other.
* Dispatch: one round at a time and never none while a trip waits; each token
  resolved once; no driver twice; nothing happens while halted and nothing is
  lost by it.
* Locations: the pools follow the drivers' status.
* RegionSafetyAgent: one tick loop; the gate it believes in is the one Dispatch
  has; only this halt's approval, or an override, reopens it; an unsafe region
  is halted.
* Features: a stuck key does not reach other keys or readers; the rate counts
  each event of the window once.
* Pricing: the multiplier is between 1 and 3 and follows its inputs; one
  refresh loop.
* Simulators and SimControl: one loop while active, none while paused; stop
  reaches the whole fleet.
* ProcessManager: the status shown is true, a crash is reported, a stop ends
  the process in bounded time.
* RidecoApp: its pause flag and its rate are what the fleet was told.

## 2. The modules

```
Restate            channels, awakeables (external)
  Trip   Locations   Dispatch        one component each
      \      |      /
       \     |     /        HaltGate  the gate between agent and Dispatch
         RideCo  ----------'   |
           |                 SafetyAgent ---- SafetyAgentProofs
    RideCoProperties ---- Matchmaking (abstract)
       |         |
    MCRideCo   RideCoProofs <- PoolProofs <- BookingProofs

Features <- Pricing <- Offers      one component each, by EXTENDS
                         |
                       Market      with riders, drivers, feeds, clock ---- MarketProofs

Simulators   RiderSim, DriverSim, MappingSim
    |
 SimFleet    with SimControl ---- SimFleetProofs

Processes    one service of ProcessManager ---- ProcessesProofs
Dashboard    fleet keys and panel of RidecoApp ---- DashboardProofs
```

| Module | Code | Correspondence |
|---|---|---|
| `Restate` | external | `Send`/`Take` on one queue per sender and receiver: messages of one sender keep their order, those of two may be taken in either order.  `awakeable[t]` is the promise of the confirm that trip `t` has open.  |
| `Trip` | `services/trip.py` | `RequestRide`/`QuoteReturned` are `request_ride` before and after the await on Offers; `Confirm`/`MatchArrives` are `confirm` before and after it is suspended; `FinishRide` is `complete`, reached by `Complete` (a call) and `RideEnds` (the delayed self-send); `Cancel`.  `tripHolder` is the invocation that holds the key across an await. |
| `Locations` | `services/locations.py` | `Ping`, `SetStatus`, `AcceptTrip`, each one step; `Matchable` is what `close_epoch` asks of `get_position`. |
| `Dispatch` | `services/dispatch.py` | the one-step handlers, and `close_epoch` as `CloseEpochHalted` (the early return) or `CloseEpochBegin`, a `ReadPosition` per driver of the snapshot, and `CloseEpochMatch`.  `epochTimer` counts the delayed self-sends outstanding. |
| `RideCo` | the three together | each action is a handler with the message that started it taken from its queue, or a client's call: the simulators (`RiderRequests`, `RiderConfirms`, `DriverGoesOnline`, `DriverPings`), scripts and dashboard (`Operator...`), `set_status` offline.  `Extras` says which optional calls somebody makes. |
| `HaltGate` | the gate as both sides see it | `Halt`, `Resume`, `Deliver`, and `Restart`, by which the agent takes the region to be open without telling Dispatch; RideCo takes `Halt` and `Resume` for the agent, SafetyAgent is shown to implement it. |
| `SafetyAgent` | `services/region_safety_agent.py` | `tickStep` is the await a tick is at (weather, accidents, verdict); `HaltAndWait` and `VerdictArrives` are the two halves of `_halt_and_wait`; `shown` is the awakeable an operator has read, of this halt or an earlier one.  `stopped` is a history variable: monitoring was stopped once. |
| `Matchmaking` | abstract | riders ask, a round serves some of them with drivers that nobody has, rides end. |
| `RideCoProperties` | | the properties of RideCo and the refinement mapping. |
| `Features` | `services/features.py` | `AcceptSet` is ingress taking a `set`, `SetValue` the handler that carries it out; `Stuck` says that the oldest call of a key can only be retried.  `RecordEvent` and `EventRate` trim the window as the code does; the list of times is a count of events per age, as its order is never looked at; `DeployFix` turns `HANDLE_POISON_GRACEFULLY` on. |
| `Pricing` | `services/pricing.py` | `RefreshBegins`, `RefreshReadsWeather`, `RefreshReadsAccidents`, `RefreshEnds` are `refresh` between its three awaits, with the key held; `NoteDemand`, `NoteSupply`; `MultiplierFromSignals` and `Total` are the arithmetic. |
| `Offers` | `services/offers.py`, `services/eta.py` | `asking` is the answer that a request waits for on its way through ETA and Pricing: `AsksForRide`, `EtaReadsWeather`, `EtaEstimates`, `Quote`.  `Candidates` composes the offers. |
| `Market` | the three together | their clients (`FeatureIsSet`, `FeedStarts`, `DriverComesOnline`, `RiderAsks`), the clock, and what Restate delivers.  `lastSet`, `accepted`, `bootstraps`, `arrivals` are history variables. |
| `Simulators` | `services/sim_*.py` | a simulator is a pair of kind and number.  `inbox` is what SimControl has sent it; `StartRider`, `StartDriver`/`DriverOnline` (before and after the call to Locations), `StartMapping`, `SetRate`, `Pause`, `Resume` take one command; `TickBegins`/`TickEnds` are a tick, during which the key is held. |
| `SimFleet` | `services/sim_control.py` | one action per handler: `StartAll`, `StopAll`, `PauseKind`, `ResumeKind`, `SetRiderRate`; each sends one command to every simulator that is counted.  `ordered` is a history variable. |
| `Processes` | `tui/processes.py` | `StartService`/`Spawned`/`SpawnFails` are `start_service` before and after its await; `StopService`, `StopReturns`, `TermTimesOut`, `KillTimesOut` are `stop_service` at its two bounded waits; `ReaderAtEof`, `ReaderBreaks` ("[reader error]") and `ReaderReports` are `_reader`, which waits for whatever process is current when it stops reading.  `Idle` says that the event loop has run what was ready.  `clean` is a history variable. |
| `Dashboard` | `tui/app.py` | `NudgeRate`/`NudgeReturns`/`NudgeTimesOut`, `PollStarts` to `PollFails`, `Toggle`/`ToggleReturns`/`ToggleTimesOut`, are the tasks of the rate keys, the panel and the pause key between their awaits.  A reset is `ResetBegins` (its stop), `ServerIsWiped` or `ServerStays` (the teardown, or a `docker compose down` that failed unseen), `BootStarts` (up to the call of `start_all`) or `BootFails` (no `start_all` is accepted), and `ResetEnds` or `StartTimesOut`.  `server` says whether calls are refused, accepted and left lying, or carried out; `ControlRuns` is SimControl carrying out a call it has accepted.  `told` is a history variable. |
| `MCRideCo` | | values of the constants and symmetry. |
| `...Proofs` | | the proofs. |

Data is abstracted to what the properties tell apart: a driver either has a
position or not, the nearest idle driver is any idle driver, an offer is
nothing to the trip that selects it, the accident density has the three values
that the risk score tells apart.  `active_driver_ids` never holds a driver twice
(`register_driver` tests it), so it is a set, read in any order.  Features that
`close_epoch` only logs are left out, and so are `epoch_id`,
`last_enqueued_trip_id` and the tick counters, which are only reported.  Money,
multipliers, rates and factors are exact numbers of cents, hundredths or
thousandths, cut off or rounded where the code does it; what floating point adds
to that, a cent at most, is abstracted.  Operators marked *Mutant of ...* are
never part of a specification: each is a plausible error in the operator it
names, and breaks the property that guards against it.

RideCo and Market are two views of the same request: RideCo has the trip wait
for an answer of Offers that always comes, and `RidersAreQuoted` of Market is
what shows that it does.

## 3. The runs

| Run | Instance | Shows |
|---|---|---|
| `operators` | 2 trips, 1 driver; every optional call | `TypeOK`, `EpochLoop`, `NoStrandedTrip`, `PoolTracksStatus`, `NoRoundWhileHalted`, `HaltedRegionKeepsItsTrips`, `OverUnlessCalled` |
| `timed` | 2 trips, 2 drivers; cancel, 2 confirms per trip; `AcceptBeatsEpoch` | `TokenConserved`, `NoDoubleBooking`, `DrivingDriverNotMatchable`, `FreesItsOwnDriver`, and the refinement `ImplementsMatchmaking` |
| `live` | 2 trips, 1 driver; halts; fairness | `InFlightAccounting`, `DriverReturns`, `BacklogDrainsOnResume` |
| `agent` | 1 region; monitoring started and stopped at any time; fairness | `TypeOK`, `TickLoop`, `GateAgrees`, `ImplementsGate`, `HaltedUntilApproved`, `UnsafeRegionIsHalted` |
| `sims` | 1 rider, 1 driver, 1 region, started twice, at two rates; fairness | `TypeOK`, `ActiveSimTicks`, `RidersEndAtFleetRate`, `SupplyCoversDrivers`, `FeedIsBootstrapped`, `StoppedFleetGoesQuiet`, `FleetKeepsTicking` |
| `market` | 1 region, 1 rider, 1 driver, 2 sets (snow, poison, accidents), 2 requests, a window of 2 ticks; fairness | `TypeOK`, `UpdatesAreKept`, `RateCountsWindow`, `RefreshLoopsAreKept`, `KeysAreIndependent`, `RidersAreQuoted`, `PricesFollow` |
| `procs` | 2 processes, 2 stops of one service; fairness | `StatusIsTrue`, `CrashIsReported`, `StopEndsTheProcess` |
| `dashboard` | 2 rate keys, 2 pause keys, 1 reset; fairness | `PauseFlagIsTrue`, `PanelCatchesUp` |

Bounds, and why they suffice.

* `MaxConfirms`: a second confirm is the first one that can follow a trip's end
  or assignment.  `MaxBacklog` bounds the queue of a sender whom a client can
  make send without limit (forced idle, offline, halt, override); two
  undelivered messages are enough for a later one to contradict an earlier one.
  Trips and drivers are few because every property speaks of a pair at most: two
  trips compete for one driver, and a trip without one is carried over.  One
  region suffices where a driver is only ever idle in one.
* `MaxTimers`: two tick loops, the one that was out at a stop and the one of the
  start after it.
* `MaxLoad` bounds what a simulator has outstanding: two places hold a tick and
  a command, or two commands, which is all that one step can race.  `MaxStarts`
  is two, a start and a restart.  One rider, driver and region suffice, as each
  property speaks of one simulator; that fleets of several can shrink is covered
  by the proofs, where the sizes are arbitrary.
* `MaxSets`: a poisoned set and one behind it, of the same key or another.
  `MaxRequests`: a second request makes demand exceed the one driver and an
  event of the window that is younger than the other.  `EventWindow`: events of
  ages on both sides of the cutoff and at it.  `MaxBootstraps` is one; a second
  loop behaves as the first.  Weather and accidents have one value beside the
  default, as the factors they cause are fixed.
* `MaxSpawns`: the reader of a first process outlives it while the second one
  runs, is stopped or crashes.  `MaxStops`: a stop that overlaps another.  A third
  process, which takes much longer, changes nothing; `StatusIsTrue` is proved for
  any number.
* `MaxNudges`, `MaxToggles`: one press that overtakes another.  `MaxResets` is
  one: the invariant was also checked with two resets and three toggles, which
  add nothing, and is proved for any number.  The rates are
  chosen (in hundredths: 2 to 20 by 5 from 10) such that both bounds clamp.

`operators` uses symmetry in trips and drivers, which is sound as `AnyHome` and
all else treat them alike and it checks no liveness.  `CHECK_DEADLOCK FALSE`
appears where the system may come to rest: a paused fleet (`sims`, `v_double`), a
service that was stopped (`procs`), and a dashboard whose keys nobody presses any
more (`dashboard`); progress there is what the liveness properties are for.

`AcceptBeatsEpoch` is an assumption about time, not code: a match reaches its
driver before the next round of its region begins.  Epochs are five seconds
apart and the path is three messages, so it holds while the services are up; it
fails when Trip or Locations is down for an epoch (which the dashboard's kill
key demonstrates).  The properties that need it are checked with it in `timed`,
and `v_driving` shows what happens without it.  All else is checked without it.

`StatusIsTrue` and `PauseFlagIsTrue` speak only of histories that are `clean`
and `told`: no start overlapped a stop; and since the last reset began, a toggle
went through or the reset's `start_all` was answered with the flag down.  A reset
that fails makes `told` false, as nobody knows what then runs; so does one that
completes though `start_all` was refused.  `PauseFlagIsTrue` also asks for `fleet`:
a SimControl that was wiped and never started has no counts, and a resume of it
reaches nobody but the feeds (sim_control.py:101, 152).  What happens otherwise is
listed below.

Two simplifications in `Dashboard`: the three resumes of one press are accepted
at one moment, though any of them may be refused, and carried out as one; and
the registrations of a boot count as one, that of SimControl.

### What the code does otherwise than it says

Each of these runs checks one sentence of a comment or of the documentation and
finds a behaviour of the code that contradicts it.

| Run | Behaviour |
|---|---|
| `v_leak` | A trip is cancelled with a driver on the way; the delayed `complete` returns early (trip.py:163) and the driver stays `en_route` for good. |
| `v_driving` | A driver that has not yet taken its trip is matched again; the first ride's end makes it idle during the second. |
| `v_double` | The dashboard's pause key pressed twice within a tick interval: the resume schedules a tick beside the one that was outstanding, and the simulator runs at twice its rate for good (sim_rider.py:88-91). |
| `v_surge` | Prices never come back: `demand_count` and `supply_count` only grow, so a region once asked more often than it has drivers keeps its surge in a quiet window (pricing.py:46), though the multiplier should respond to recent demand "instead of all-time demand" (pricing.py:41-42, README.md:324-325). |

More disagreements have no run of their own; each is visible in the model.

* A cancelled trip is confirmed and dispatched if a confirm is queued or called
  after the cancel: `confirm` tests only that the trip was quoted
  (trip.py:110-117), and `cancel` overwrites the status of a completed trip
  (trip.py:189-195), though scripts/cancel-trip.sh:2 speaks of a terminal state
  transition.  `OverUnlessCalled` says that nothing *but* such a call does it.
* With two regions and `AnyHome`, an idle driver told to be idle in the other
  region stays in the old pool and is missing from the new one: `PoolTracksStatus`
  fails (locations.py:61).
* A start after a stop of the monitoring reopens the agent's view without
  telling Dispatch (region_safety_agent.py:71), and within a tick interval leaves
  two tick loops (region_safety_agent.py:76).  `GateAgrees` and the second half
  of `TickLoop` are claimed only of regions whose monitoring was never stopped;
  nothing in the repository stops it.
* With a smaller fleet at the second `start_all` (`Shrinks`), `stop_all` misses
  the simulators beyond it and `StoppedFleetGoesQuiet` fails (sim_control.py:42).
* With a resume before the first start (`Cold`), a feed runs in a region whose
  prices and safety nobody looks after: `FeedIsBootstrapped` fails
  (sim_mapping.py:48).
* A paused feed that is started again sends `refresh` a second time, so prices
  are refreshed by two loops (sim_mapping.py:48-51); `bootstraps` counts them.
* A start that overlaps a stop of the same service leaves a process that nobody
  will stop, as the stop clears `svc.process` after its wait (processes.py:190-191),
  although a kill is to clean up (README.md:554-557).  `clean` excludes it.
* Where asyncio's `wait()` waits for the pipe too, as in the older of the
  versions that `requires-python` allows, a reader may report the exit of an
  earlier process as the death of the current one; `clean` excludes it.
* A reset restarts the fleet but leaves `_sims_paused` as it was, against "we
  track what we last told the fleet" (app.py:995-997, 1447-1457): a fleet that was
  paused and reset runs and is called paused.  `told` excludes it.
* A reset that fails leaves `_sims_paused` as it was, with no fleet running
  (app.py:1454-1455): with the flag down the dashboard calls an empty system a
  running one (`BootFails`).  If it fails because `start_all` took ten seconds, the
  call stays accepted and the fleet starts later (`StartTimesOut`).
* "reset complete" (app.py:1453) need not mean that a fleet runs: `sim_start_all`
  does not look at the status of its answer (processes.py:219-224), `register_all`
  and `restate_down` not at the exit codes of their commands (processes.py:205-210,
  93-94, 238-246).  `BootFails` and `ServerStays` are these outcomes; `told` excludes
  them.
* After such a reset the pause key can seem to work: a resume of a SimControl
  without counts is answered, and only the feeds run.
* Two presses of a rate key within one call count once, and a poll that was
  answered before a press is stored after it (app.py:1569-1571, 1166).
  `PanelCatchesUp` shows that the panel recovers at the next poll.

### Fairness

Restate runs every invocation it accepted.  An object's inbox is served in
turn, so a message for a key that is held time and again gets its turn: strong
fairness for handlers that compete for a key with others that clients may
repeat (`RideTimerFires`, Dispatch's handlers, `TickBegins`, and Pricing's
`RefreshDue`, `DemandIsNoted` and `RiderIsQuoted`), weak fairness for the rest,
a set of Features that can be carried out among them.  The simulators have the
same: strong fairness for commands and ticks, which compete for their key, weak
for a handler's second half; nobody has to call SimControl.  Drivers go online
and ping since the simulators' durable timers make them.  The clock ticks.
Riders, operators and the agent owe nothing: no trip need be requested or
confirmed, no verdict need come, no feature need be set and no fix deployed.
`EpochSkipped` needs no fairness, as only an open region has to make progress.

In `procs` the event loop runs tasks that are ready and its timers fire.
Nothing is asked of the processes, which need not heed SIGTERM, nor of the
watcher that notices their exits.  In `dashboard` the poll timer fires, answers
are handled, a poll that nobody serves times out after its second, an accepted
call is carried out while the service is up, and a reset comes to its end, well or
not, as each of its steps is bounded; no reset need succeed.  A poll may fail for
ever, which is why `PanelCatchesUp` supposes that it does not.

## 4. The proofs

Each theorem holds for any values of the constants: any trips, drivers and
regions and any clients, any fleet, any number of processes or key presses.

| Module | Theorem | Property |
|---|---|---|
| `RideCoProofs` | `TypeCorrect` | `TypeOK` |
| | `OneEpochPerLoop` | `EpochLoop` |
| | `QueuedTripsAreServed` | `NoStrandedTrip` |
| | `HaltExcludesRounds` | `NoRoundWhileHalted` |
| | `TokensAreConserved` | `TokenConserved` |
| | `HaltKeepsTrips` | `HaltedRegionKeepsItsTrips` |
| | `OverStaysOver` | `OverUnlessCalled` |
| `PoolProofs` | `PoolFollowsStatus` | `PoolTracksStatus`, if each driver has one home (`OneHome`) |
| `BookingProofs` | `DriversAreBookedOnce` | `NoDoubleBooking`, if `Timely` |
| | `RidingDriversAreNotOffered` | `DrivingDriverNotMatchable`, if `Timely` |
| | `RidesFreeTheirOwnDriver` | `FreesItsOwnDriver`, if `Timely` |
| | `ServicesMatch` | `ImplementsMatchmaking`, if `Timely` |
| | `InFlightIsExact` | `InFlightAccounting`, if `RidesRunTheirCourse` |
| `SimFleetProofs` | `FleetTypeCorrect` | `TypeOK` |
| | `LoopsStayAlive` | `ActiveSimTicks` |
| | `FeedsAreBootstrapped` | `FeedIsBootstrapped`, if nobody resumes a fleet before its first start (`~ Cold`) |
| | `SupplyIsCounted` | `SupplyCoversDrivers` |
| | `RatesArrive` | `RidersEndAtFleetRate` |
| `SafetyAgentProofs` | `AgentTypeCorrect` | `TypeOK` |
| | `OneLoopPerRegion` | `TickLoop` |
| | `GateInStep` | `GateAgrees` |
| | `AgentImplementsGate` | `ImplementsGate` |
| | `HaltIsHumanGated` | `HaltedUntilApproved` |
| `MarketProofs` | `SetsAreKept` | `UpdatesAreKept` |
| | `RefreshGoesOn` | `RefreshLoopsAreKept` |
| | `WindowIsCounted` | `RateCountsWindow` |
| | `MarketTypeCorrect` | `TypeOK`, offers included |
| `DashboardProofs` | `FlagIsTrue` | `PauseFlagIsTrue` |
| `ProcessesProofs` | `StatusCorrect` | `StatusIsTrue` |

The assumptions are those the modules declare: `NamesAreDistinct` (the three
"none" values are no trip, driver or region), `DriversAreFinite` (a round counts
the idle drivers), `ClientAssumptions` and `AgentAssumptions` (the constants are
of their kind), `BoundsAreNumbers`, `DensitiesAreNumbers` (nobody sets a negative
accident density), and `RatesAreOrdered` (the rate at boot is between the bounds
of the keys).  The theorems of `BookingProofs` suppose more, in their statement:

* `Timely` is what the rides need.  `AcceptBeatsEpoch`: a match reaches its driver
  before the next round of its region; without it `v_driving` finds the driver
  matched twice.  `OneHome`: a driver of two regions may be in both pools and be
  matched by both rounds; SimControl gives each driver one region
  (sim_control.py:54).  And nobody but simulators and rides sets a driver's status:
  an operator who forces a driver idle in the middle of a ride offers it to the
  next one, as `set_status` asks nothing.  Cancels, completions and halts by
  clients are allowed at any time.
* `RidesRunTheirCourse` is what the count needs: one confirm per trip, and no
  client that cancels or completes it.  A cancelled ride is never counted as
  completed, so `in_flight` would report it for good, and a trip completed by a
  call before its match is counted without having been matched.

Nothing else assumes anything of time: `AcceptBeatsEpoch` may be false.

*The loop of rounds.*  `EpochLoop`, `NoStrandedTrip` and `NoRoundWhileHalted` are
proved together as one inductive invariant, `LoopInv`, over `TypeOK`.  None is
inductive alone: a matching round may schedule the next one only because no
other is scheduled, a halted round keeps the loop that the trips rely on, and a
halt cannot arrive during a round because the round holds the key that
`SetActive` needs.

*The tokens.*  `TokenConserved` is inductive over `TypeOK`.  Each action moves
a token by one place: `Confirm` appends it to a queue that holds none,
`DispatchTakesTrip` moves it to `pending`, and `CloseEpochMatch` removes exactly
the prefix of `pending` that `Resolve` answers.  The lemmas about `Places` say
what `Append`, `Tail` and `SubSeq` do to the positions of an element.

*The action properties* are proved action by action: `HaltKeepsTrips` from
`LoopInv` (a halted region runs no round that could take its trips),
`OverStaysOver` from `TripPhase` (a trip whose key is held by `request_ride` or
`confirm` is in the status that handler gave it, so what they do when they
resume is never done to a trip that is over).

*The pools.*  `PoolTracksStatus` needs `HomeInv`: what a driver stores and tells,
what a pool or a round holds, the match of a trip and the message that ends its
ride all name one of the driver's own regions.  The match of a round is local
because `TokenConserved` has the trips of a region's queue belong to it.  With one
home a driver that is told to be idle again is told nothing new, and otherwise
the last message on its way says what was stored with it.  `OneHome` cannot be
dropped: with two homes the property fails (section 3).

*The bookings.*  `NoDoubleBooking` is not inductive: a driver is chosen by a round
which read its status earlier, and a trip that was promised a driver has to send
two messages before that status says so.  `BookingInv` follows a ride from end to
end.  A trip *engages* a driver while it is promised it, rides with it, is what
the driver drives for, or has a message on its way to it.  `RidesFit` says what
that message queue may hold next to the driver's status: nothing, the start of
the ride, its end, or both in that order.  `Exclusive` says that two trips never
engage one driver.  `RoundsAreFair` carries both through a round: while it runs
no match of its region is undelivered, and each driver it has found idle so far
is idle still and engaged by no trip, though others of its drivers start and end
rides meanwhile.  `PhasesFit` ties a trip's status to the invocation that holds
its key.  The three booking properties follow by reading the invariant.

*The refinement.*  A trip waits in `Matchmaking` while its promise is open, and is
booked from the match to the end of its ride.  `BookedDriver` chooses a driver;
`Exclusive` and `TokenConserved` make the choice unique, so that a step which
touches one trip maps to that trip's step alone.  `TripStepMaps` has the steps of
a trip (a rider that asks, a ride that ends, a stutter), `EpochMatchesMaps` the matching
round: its prefix of `pending` is the set of riders served, its drivers are free
since the round was fair, and no two of its trips share one.

*The count of rides in flight.*  `in_flight` is a difference of two counters that
Dispatch keeps by messages.  `AccountInv` says what each one counts:
`totalMatched` the trips of the region whose promise was kept, `totalCompleted`
those that completed and whose note has arrived; a note is sent once, and only by
a trip that was matched.  What is left is the set on the right-hand side of the
property, by the theorems on cardinality.

*The simulators.*  `ActiveSimTicks` is inductive over the types: a step of one
simulator leaves the others alone.  `FeedIsBootstrapped` needs `BootInv`: until
the region is bootstrapped its feed is off, a start is on its way if `start_all`
was called, and no resume is ahead of it in the inbox.  `AppendKeepsOrder` and
`TailKeepsOrder` say that sending and taking commands keep it so.
`SupplyCoversDrivers` needs `SupplyInv`: there is a set of drivers that the supply
counts, and a driver outside it is being started, or is offline with no resume
ahead of a start in its inbox, and with a start there if SimControl counts it.
Nothing is assumed of who resumes or shrinks.  `RidersEndAtFleetRate` needs
`RateInv`, which names the last command of an inbox that carries a rate: each
call of SimControl that changes the rate puts one behind all others, for every
rider it counts, and a rider that takes its last one has that rate.

*The safety agent.*  `TickLoop` counts ticks that are scheduled or under way: a
start adds one only where monitoring is off, and the first tick that finds it
off ends.  `GateAgrees` follows the last message on its way: `Set` appends what
the agent notes, `Deliver` takes the first, and only a start notes without
sending; `GateInv` adds that a region which is neither monitored nor was stopped
is open, so that its first start notes nothing new.  `ImplementsGate` maps each
action to one of the gate, a start to `Restart`, or to a stutter.
`HaltedUntilApproved` needs that a verdict belongs to the halt at hand: it was
emptied when that halt began, and only an operator who has read this awakeable
can fill it.

*The market.*  `UpdatesAreKept` and `RefreshLoopsAreKept` are each inductive over
the types of the variables they speak of.  A set that is taken is the head of
its queue and becomes the value; if it was the last, it is what `lastSet` says.  A
refresh moves from the timer to the step and back.  `RateCountsWindow` holds since
the trimmed and the untrimmed stream have the same number of events of each age
of the window (`StreamInv`); the clock and a new event keep it so.  Market's
`TypeOK` speaks of numbers: `MultiplierRange` says that a product of factors of
at least 1, rounded and capped, is between 1 and 3; `FareRange` and `PriceGrows`
bound a fare that is cut off twice and keep the classes in order; `OfferInv`
adds that what a refresh or an estimate has read is a reading.  The proof showed
that the upper bound on a price was too strict: 3 times the dearest class is cut
off to a cent less than the dearest class at a surge of 3, for some fares that the
run does not reach; `IsOffer` now states the bound before it is cut off.

*The dashboard.*  `PauseFlagIsTrue` is not inductive: that an answered toggle is
the last word needs to be known of the calls still queued.  `FlagInv` says that the
call which a toggle or a boot waits for is queued behind those of all earlier
presses, a start that a reset gave up on among them, and that nothing but rates
is queued once it was answered.  From the start of a reset `told` is false and
stays so on every path on which it fails; the steps of `ResetFlag` and `BootFlag`
only have to keep what is queued older than the next press.

*The processes.*  `StatusIsTrue` is not inductive: a reader that waits for an
earlier process may still write the status.  `Clean` says why it does no harm:
a process whose exit has not been reported is the current one, and who was woken
by an exit runs before the next spawn.

Only model-checked: liveness (`DriverReturns`, `BacklogDrainsOnResume`,
`UnsafeRegionIsHalted`, `StoppedFleetGoesQuiet`, `FleetKeepsTicking`,
`KeysAreIndependent`, `RidersAreQuoted`, `PricesFollow`, `CrashIsReported`,
`StopEndsTheProcess`, `PanelCatchesUp`), which rests on fairness and is out of the
prover's reach.  Every invariant and every action property that a passing run
checks has its theorem, and so have both refinements.

## 5. Not modelled, and the plan

Left out for good:

* the region watcher (`sim/watch_regions.py`), a display of what `get` returns;
* the panes, widgets, narration and latest-trip ticker of the dashboard;
* what the docker and restate command lines of boot and teardown do beyond
  succeeding or failing, which are programs outside the repository, and the first
  boot.  A quit during the boot may leave processes behind; `Processes` shows the
  start and stop that it consists of;
* the kill and boot keys in `Dashboard`, which has calls wait for SimControl as
  long as they like;
* coordinates and their smoothing, region tables, log formatting.

The documentation of `scripts/complete-trip.sh` and `cancel-trip.sh` mentions a
`stop_monitoring` sent by Trip; there is no such call in the code.

Planned:

1. DriverSim in front of RideCo in place of `OperatorForcesIdle`: a restart in
   the middle of a ride.
2. The safety half of the liveness properties, where it says something of its
   own: what a stop of a service may not outlast, what a poisoned key may not
   hold up.
