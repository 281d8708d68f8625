----------------------------- MODULE Simulators -----------------------------
(***************************************************************************)
(* RiderSim, DriverSim and MappingSim: Virtual Objects that play the       *)
(* clients of RideCo.  Each has a flag `active' and a loop of delayed      *)
(* self-sends of `tick'; start and resume schedule a tick when the flag    *)
(* was down, and a tick that finds the flag down ends without another.     *)
(*                                                                         *)
(* What a tick sends (a ride, a position, the weather) is a client's       *)
(* action of RideCo and of SafetyAgent; here it is the step during which   *)
(* the simulator is busy.  Intervals, positions, the random picks and the  *)
(* counters trips_started, pings_sent and emits are left out.              *)
(***************************************************************************)
EXTENDS Naturals, Sequences, FiniteSets, SequencesExt

CONSTANTS
  MaxRiders, MaxDrivers,   \* bounds: rider-000 .. and driver-000 .., by number
  NumRegions,              \* regions by their index in all_regions()
  Rates

ASSUME FleetIsFinite ==
  /\ MaxRiders \in Nat
  /\ MaxDrivers \in Nat
  /\ NumRegions \in Nat \ {0}
  /\ Rates # {}

VARIABLES
  inbox,       \* [sim]: what SimControl has sent it, in order
  simActive,   \* the flag `active'
  rate,        \* [rider]
  tickTimer,   \* [sim]: delayed ticks outstanding
  busy,        \* [sim]: the handler that holds its key, "start", "tick" or "none"
  supply,      \* [region]: Pricing's supply_count when every note has arrived
  bootstraps   \* [region]: how often Pricing.refresh and start_monitoring were sent

simVars == <<inbox, simActive, rate, tickTimer, busy, supply, bootstraps>>

Riders == 0..(MaxRiders - 1)
Regions == 0..(NumRegions - 1)
RiderSims == {"rider"} \X Riders
DriverSims == {"driver"} \X (0..(MaxDrivers - 1))
MappingSims == {"mapping"} \X Regions
Sims == RiderSims \cup DriverSims \cup MappingSims

Command(op) == [op |-> op, rate |-> CHOOSE v \in Rates : TRUE]
RateCommand(op, v) == [op |-> op, rate |-> v]
Commands == [op : {"start", "pause", "resume", "set_rate"}, rate : Rates]

\* regions[i % len(regions)]
Home(s) == s[2] % NumRegions

SimInit ==
  /\ inbox = [s \in Sims |-> << >>]
  /\ simActive = [s \in Sims |-> FALSE]
  /\ rate = [i \in Riders |-> CHOOSE v \in Rates : TRUE]
  /\ tickTimer = [s \in Sims |-> 0]
  /\ busy = [s \in Sims |-> "none"]
  /\ supply = [r \in Regions |-> 0]
  /\ bootstraps = [r \in Regions |-> 0]

-----------------------------------------------------------------------------
KeyFree(s) == busy[s] = "none"

Takes(s, op) ==
  /\ KeyFree(s)
  /\ inbox[s] # << >>
  /\ Head(inbox[s]).op = op
  /\ inbox' = [inbox EXCEPT ![s] = Tail(@)]

Activate(s) == simActive' = [simActive EXCEPT ![s] = TRUE]

\* The first tick, of a simulator whose flag was down.
Kick(s) == tickTimer' = [tickTimer EXCEPT ![s] = IF simActive[s] THEN @ ELSE @ + 1]

TakesRate(s) == rate' = [rate EXCEPT ![s[2]] = Head(inbox[s]).rate]

StartRider(s) ==
  /\ s \in RiderSims
  /\ Takes(s, "start")
  /\ TakesRate(s)
  /\ Activate(s)
  /\ Kick(s)
  /\ UNCHANGED <<busy, supply, bootstraps>>

SetRate(s) ==
  /\ s \in RiderSims
  /\ Takes(s, "set_rate")
  /\ TakesRate(s)
  /\ UNCHANGED <<simActive, tickTimer, busy, supply, bootstraps>>

\* start of a driver up to its call to Locations.set_status.
StartDriver(s) ==
  /\ s \in DriverSims
  /\ Takes(s, "start")
  /\ Activate(s)
  /\ busy' = [busy EXCEPT ![s] = IF simActive[s] THEN @ ELSE "start"]
  /\ UNCHANGED <<rate, tickTimer, supply, bootstraps>>

\* Mutant of DriverOnline: the region's supply is not told.
DriverOnlineUncounted(s) ==
  /\ busy[s] = "start"
  /\ tickTimer' = [tickTimer EXCEPT ![s] = @ + 1]
  /\ busy' = [busy EXCEPT ![s] = "none"]
  /\ UNCHANGED <<inbox, simActive, rate, supply, bootstraps>>

\* The call has answered: the driver is counted and ticks.
DriverOnline(s) ==
  /\ busy[s] = "start"
  /\ supply' = [supply EXCEPT ![Home(s)] = @ + 1]
  /\ tickTimer' = [tickTimer EXCEPT ![s] = @ + 1]
  /\ busy' = [busy EXCEPT ![s] = "none"]
  /\ UNCHANGED <<inbox, simActive, rate, bootstraps>>

\* Mutant of StartMapping: the flag is read after it was set.
StartMappingReadsLate(s) ==
  /\ s \in MappingSims
  /\ Takes(s, "start")
  /\ Activate(s)
  /\ Kick(s)
  /\ UNCHANGED <<rate, busy, supply, bootstraps>>

StartMapping(s) ==
  /\ s \in MappingSims
  /\ Takes(s, "start")
  /\ Activate(s)
  /\ Kick(s)
  /\ bootstraps' = [bootstraps EXCEPT ![s[2]] = IF simActive[s] THEN @ ELSE @ + 1]
  /\ UNCHANGED <<rate, busy, supply>>

Pause(s) ==
  /\ Takes(s, "pause")
  /\ simActive' = [simActive EXCEPT ![s] = FALSE]
  /\ UNCHANGED <<rate, tickTimer, busy, supply, bootstraps>>

\* Mutant of Resume: the flag is read after it was set.
ResumeReadsLate(s) ==
  /\ Takes(s, "resume")
  /\ Activate(s)
  /\ UNCHANGED <<rate, tickTimer, busy, supply, bootstraps>>

Resume(s) ==
  /\ Takes(s, "resume")
  /\ Activate(s)
  /\ Kick(s)
  /\ UNCHANGED <<rate, busy, supply, bootstraps>>

\* Mutants of TickBegins: nothing had to be scheduled; the flag is not read.
TickBeginsUnscheduled(s) ==
  /\ KeyFree(s)
  /\ tickTimer' = [tickTimer EXCEPT ![s] = @ - 1]
  /\ busy' = [busy EXCEPT ![s] = IF simActive[s] THEN "tick" ELSE "none"]
  /\ UNCHANGED <<inbox, simActive, rate, supply, bootstraps>>
TickBeginsUnread(s) ==
  /\ KeyFree(s)
  /\ tickTimer[s] > 0
  /\ tickTimer' = [tickTimer EXCEPT ![s] = @ - 1]
  /\ busy' = [busy EXCEPT ![s] = "tick"]
  /\ UNCHANGED <<inbox, simActive, rate, supply, bootstraps>>

TickBegins(s) ==
  /\ KeyFree(s)
  /\ tickTimer[s] > 0
  /\ tickTimer' = [tickTimer EXCEPT ![s] = @ - 1]
  /\ busy' = [busy EXCEPT ![s] = IF simActive[s] THEN "tick" ELSE "none"]
  /\ UNCHANGED <<inbox, simActive, rate, supply, bootstraps>>

\* Mutant of TickEnds: the next tick is not scheduled.
TickEndsForGood(s) ==
  /\ busy[s] = "tick"
  /\ busy' = [busy EXCEPT ![s] = "none"]
  /\ UNCHANGED <<inbox, simActive, rate, tickTimer, supply, bootstraps>>

TickEnds(s) ==
  /\ busy[s] = "tick"
  /\ busy' = [busy EXCEPT ![s] = "none"]
  /\ tickTimer' = [tickTimer EXCEPT ![s] = @ + 1]
  /\ UNCHANGED <<inbox, simActive, rate, supply, bootstraps>>

SimTakesCommand(s) ==
  \/ StartRider(s) \/ SetRate(s) \/ StartDriver(s) \/ StartMapping(s)
  \/ Pause(s) \/ Resume(s)
SimContinues(s) == DriverOnline(s) \/ TickEnds(s)
SimStep(s) == SimTakesCommand(s) \/ TickBegins(s) \/ SimContinues(s)

SimTypeOK ==
  /\ inbox \in [Sims -> Seq(Commands)]
  /\ simActive \in [Sims -> BOOLEAN]
  /\ rate \in [Riders -> Rates]
  /\ tickTimer \in [Sims -> Nat]
  /\ busy \in [Sims -> {"none", "start", "tick"}]
  /\ supply \in [Regions -> Nat]
  /\ bootstraps \in [Regions -> Nat]
=============================================================================
