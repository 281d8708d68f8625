------------------------------ MODULE SimFleet ------------------------------
(***************************************************************************)
(* SimControl, the one object that starts, pauses and tunes the fleet of   *)
(* simulators, and the fleet.  Each of its handlers sends one command to   *)
(* every simulator it counts and returns without waiting for them.         *)
(***************************************************************************)
EXTENDS Simulators

CONSTANTS
  Shrinks,     \* may start_all ask for a smaller fleet than before
  Cold,        \* may anyone resume a fleet that was never started
  MaxStarts,   \* bound: calls of start_all
  MaxLoad      \* bound: commands and ticks of one simulator outstanding

ASSUME CallerAssumptions ==
  /\ Shrinks \in BOOLEAN
  /\ Cold \in BOOLEAN
  /\ MaxStarts \in Nat
  /\ MaxLoad \in Nat

VARIABLES
  fleet,     \* SimControl's state: drivers, riders, rider_rate
  starts,    \* calls of start_all
  ordered    \* history: what each kind of simulator was last told, "run" or "stop"

vars == <<simVars, fleet, starts, ordered>>

Kinds == {"rider", "driver", "mapping"}

\* range(riders), range(drivers), all_regions()
Members(f, kind) ==
  CASE kind = "rider" -> {s \in RiderSims : s[2] < f.riders}
    [] kind = "driver" -> {s \in DriverSims : s[2] < f.drivers}
    [] kind = "mapping" -> MappingSims

Everyone(f) == UNION {Members(f, k) : k \in Kinds}

Init ==
  /\ SimInit
  /\ fleet = [drivers |-> 0, riders |-> 0, rider_rate |-> CHOOSE v \in Rates : TRUE]
  /\ starts = 0
  /\ ordered = [k \in Kinds |-> "stop"]

-----------------------------------------------------------------------------
Room == \A s \in Sims :
  Len(inbox[s]) + tickTimer[s] + (IF KeyFree(s) THEN 0 ELSE 1) < MaxLoad

\* One command to each simulator in the domain of commands.
Sends(commands) ==
  inbox' = [s \in Sims |-> IF s \in DOMAIN commands THEN Append(inbox[s], commands[s])
                                                    ELSE inbox[s]]

SendTo(targets, command) == Sends([s \in targets |-> command])

Order(kinds, what) == ordered' = [k \in Kinds |-> IF k \in kinds THEN what ELSE ordered[k]]

SimsUntouched == UNCHANGED <<simActive, rate, tickTimer, busy, supply, bootstraps>>

\* Any mapping interval; every kind is started, each rider at the given rate.
StartAll(d, n, v) ==
  LET f == [drivers |-> d, riders |-> n, rider_rate |-> v]
  IN  /\ Room
      /\ starts < MaxStarts
      /\ Shrinks \/ (d >= fleet.drivers /\ n >= fleet.riders)
      /\ starts' = starts + 1
      /\ fleet' = f
      /\ Sends([s \in Everyone(f) |->
                 IF s \in RiderSims THEN RateCommand("start", v) ELSE Command("start")])
      /\ Order(Kinds, "run")
      /\ SimsUntouched

StopAll ==
  /\ Room
  /\ SendTo(Everyone(fleet), Command("pause"))
  /\ Order(Kinds, "stop")
  /\ SimsUntouched
  /\ UNCHANGED <<fleet, starts>>

\* pause_riders, pause_drivers, pause_mapping
PauseKind(k) ==
  /\ Room
  /\ SendTo(Members(fleet, k), Command("pause"))
  /\ Order({k}, "stop")
  /\ SimsUntouched
  /\ UNCHANGED <<fleet, starts>>

\* resume_riders, resume_drivers, resume_mapping
ResumeKind(k) ==
  /\ Room
  /\ starts > 0 \/ Cold
  /\ SendTo(Members(fleet, k), Command("resume"))
  /\ Order({k}, "run")
  /\ SimsUntouched
  /\ UNCHANGED <<fleet, starts>>

\* Mutant of SetRiderRate: only the riders are told.
SetRiderRateUnsaved(v) ==
  /\ Room
  /\ SendTo(Members(fleet, "rider"), RateCommand("set_rate", v))
  /\ SimsUntouched
  /\ UNCHANGED <<fleet, starts, ordered>>

SetRiderRate(v) ==
  /\ Room
  /\ fleet' = [fleet EXCEPT !.rider_rate = v]
  /\ SendTo(Members(fleet, "rider"), RateCommand("set_rate", v))
  /\ SimsUntouched
  /\ UNCHANGED <<starts, ordered>>

-----------------------------------------------------------------------------
Next ==
  \/ \E d \in 0..MaxDrivers, n \in 0..MaxRiders, v \in Rates : StartAll(d, n, v)
  \/ StopAll
  \/ \E k \in Kinds : PauseKind(k) \/ ResumeKind(k)
  \/ \E v \in Rates : SetRiderRate(v)
  \/ \E s \in Sims : SimStep(s) /\ UNCHANGED <<fleet, starts, ordered>>

Spec == Init /\ [][Next]_vars

\* Restate runs what it accepted, and a call that waits for a key that is held
\* time and again gets its turn.  Nobody has to call SimControl.
FairSpec ==
  /\ Spec
  /\ \A s \in Sims :
       SF_simVars(SimTakesCommand(s)) /\ SF_simVars(TickBegins(s)) /\ WF_simVars(SimContinues(s))

-----------------------------------------------------------------------------
TypeOK ==
  /\ SimTypeOK
  /\ fleet \in [drivers : 0..MaxDrivers, riders : 0..MaxRiders, rider_rate : Rates]
  /\ starts \in 0..MaxStarts
  /\ ordered \in [Kinds -> {"run", "stop"}]

Loops(s) == tickTimer[s] + (IF KeyFree(s) THEN 0 ELSE 1)

\* A simulator that believes it is running has a tick coming: no interleaving of
\* start, pause, resume and ticks lets the loop die while the flag is up, after
\* which no start or resume would revive it.
ActiveSimTicks == \A s \in Sims : simActive[s] => Loops(s) >= 1

\* A simulator has one loop: each rider asks for rides at rider_rate, "per-rider
\* trips/sec" (sim_control.py:31).
OneLoopPerSim == \A s \in Sims : Loops(s) <= 1

\* The rate a rider has once it took what SimControl sent it: that of the last
\* command that carries one.
Carriers(q) == {k \in 1..Len(q) : q[k].op \in {"start", "set_rate"}}
RateToBe(i) ==
  LET q == inbox[<<"rider", i>>]
  IN  IF Carriers(q) = {} THEN rate[i] ELSE q[Max(Carriers(q))].rate

\* Every rider of the fleet ends at the rate SimControl reports, whatever calls
\* of start_all and set_rider_rate overtake each other.
RidersEndAtFleetRate == \A i \in Riders : i < fleet.riders => RateToBe(i) = fleet.rider_rate

\* Surge divides by supply_count: no driver that is online goes uncounted.
SupplyCoversDrivers ==
  \A r \in Regions :
    supply[r] >= Cardinality({s \in DriverSims : Home(s) = r /\ simActive[s] /\ busy[s] # "start"})

\* A region whose feed is on has had its price refresh and its safety monitoring
\* started, by whichever start came first.
FeedIsBootstrapped == \A s \in MappingSims : simActive[s] => bootstraps[s[2]] >= 1

ToldTo(s, what) == ordered[s[1]] = what /\ s \in Members(fleet, s[1])

\* A fleet that was stopped falls silent: the last tick of each of its simulators
\* comes to an end, and no other follows.
StoppedFleetGoesQuiet ==
  \A s \in Sims : <>[](ToldTo(s, "stop")) => <>[](Loops(s) = 0)

\* A fleet that was told to run keeps running, through every earlier pause.
FleetKeepsTicking ==
  \A s \in Sims : <>[](ToldTo(s, "run")) => []<>(busy[s] = "tick")
=============================================================================
