----------------------------- MODULE SafetyAgent -----------------------------
(***************************************************************************)
(* services/region_safety_agent.py: one Virtual Object per region, with    *)
(* the features it reads, the operator who answers its escalations and the *)
(* gate it works.                                                          *)
(*                                                                         *)
(* tick awaits a call to Features for the weather, another for the         *)
(* accidents, and, when it halts the region, the operator's verdict; the   *)
(* key is held all that time and tickStep says which await it is at.  The  *)
(* scoring awaits nothing but its own journal.  ticks, halts and the last_ *)
(* fields are only reported.                                               *)
(***************************************************************************)
EXTENDS Naturals, Sequences

CONSTANTS
  Regions,
  MaxTimers,   \* bound: delayed ticks outstanding in a region
  MaxBacklog   \* bound: set_active messages on their way

ASSUME AgentAssumptions == MaxTimers \in Nat /\ MaxBacklog \in Nat

VARIABLES
  monitoring,       \* the object's own `active'
  regionActive,
  tickTimer,        \* number of delayed self-sends of tick outstanding
  tickStep,         \* "none", or what the executing tick awaits
  weatherRead,
  verdict,          \* what the awakeable of the last halt was resolved with
  weather, accidents,       \* the features; accident_density in hundredths, 0 if unset
  shown,            \* the awakeable an operator has read: of this halt or an earlier
  agentToDispatch, active,
  stopped           \* history: somebody has called stop_monitoring

agentVars == <<monitoring, tickTimer, tickStep, weatherRead, verdict>>
featureVars == <<weather, accidents>>
vars == <<agentVars, regionActive, agentToDispatch, active, featureVars, shown, stopped>>

Gate == INSTANCE HaltGate

Weather == {"clear", "fog", "rain_heavy", "snow"}
Accidents == {0, 30, 50}

Init ==
  /\ Gate!GateInit
  /\ monitoring = [r \in Regions |-> FALSE]
  /\ tickTimer = [r \in Regions |-> 0]
  /\ tickStep = [r \in Regions |-> "none"]
  /\ weatherRead = [r \in Regions |-> "clear"]
  /\ verdict = [r \in Regions |-> "none"]
  /\ weather = [r \in Regions |-> "unset"]
  /\ accidents = [r \in Regions |-> 0]
  /\ shown = [r \in Regions |-> "none"]
  /\ stopped = [r \in Regions |-> FALSE]

-----------------------------------------------------------------------------
(* The mocked risk model, in hundredths.                                   *)

RiskThreshold == 60

AccidentRisk(a) == IF a >= 50 THEN 50 ELSE IF a >= 30 THEN 20 ELSE 0

WeatherRisk(w) == CASE w = "snow" -> 35
                    [] w = "rain_heavy" -> 30
                    [] w = "fog" -> 15
                    [] OTHER -> 0

CompositeRisk(w, a) ==
  LET score == AccidentRisk(a) + WeatherRisk(w)
  IN  IF score <= 100 THEN score ELSE 100

Unsafe(w, a) == CompositeRisk(w, a) >= RiskThreshold

-----------------------------------------------------------------------------
AgentKeyFree(r) == tickStep[r] = "none"

\* Mutant of StartMonitoring: the monitoring that runs already is not looked at.
StartMonitoringAgain(r) ==
  /\ AgentKeyFree(r)
  /\ tickTimer[r] < MaxTimers
  /\ monitoring' = [monitoring EXCEPT ![r] = TRUE]
  /\ regionActive' = [regionActive EXCEPT ![r] = TRUE]
  /\ tickTimer' = [tickTimer EXCEPT ![r] = @ + 1]
  /\ UNCHANGED <<tickStep, weatherRead, verdict, agentToDispatch, active, featureVars, shown, stopped>>

\* start_monitoring of a region that is monitored already does nothing.
StartMonitoring(r) ==
  /\ AgentKeyFree(r)
  /\ ~ monitoring[r]
  /\ tickTimer[r] < MaxTimers
  /\ monitoring' = [monitoring EXCEPT ![r] = TRUE]
  /\ regionActive' = [regionActive EXCEPT ![r] = TRUE]
  /\ tickTimer' = [tickTimer EXCEPT ![r] = @ + 1]
  /\ UNCHANGED <<tickStep, weatherRead, verdict, agentToDispatch, active, featureVars, shown, stopped>>

StopMonitoring(r) ==
  /\ AgentKeyFree(r)
  /\ monitoring' = [monitoring EXCEPT ![r] = FALSE]
  /\ stopped' = [stopped EXCEPT ![r] = TRUE]
  /\ UNCHANGED <<tickTimer, tickStep, weatherRead, verdict,
                 regionActive, agentToDispatch, active, featureVars, shown>>

\* The out-of-band override; it waits while a tick awaits its verdict.
ForceResume(r) ==
  /\ AgentKeyFree(r)
  /\ Len(agentToDispatch[r]) < MaxBacklog
  /\ Gate!Resume(r)
  /\ UNCHANGED <<agentVars, featureVars, shown, stopped>>

-----------------------------------------------------------------------------
(* tick.                                                                   *)

\* tick up to its first await; one that finds monitoring stopped ends here.
TickBegins(r) ==
  /\ tickTimer[r] > 0
  /\ AgentKeyFree(r)
  /\ Len(agentToDispatch[r]) < MaxBacklog
  /\ tickTimer' = [tickTimer EXCEPT ![r] = @ - 1]
  /\ tickStep' = [tickStep EXCEPT ![r] = IF monitoring[r] THEN "weather" ELSE "none"]
  /\ UNCHANGED <<monitoring, weatherRead, verdict,
                 regionActive, agentToDispatch, active, featureVars, shown, stopped>>

\* Mutant of WeatherOf: the default is not passed.
WeatherWithoutDefault(r) == weather[r]

\* Features answers with the default it was passed when nothing is stored.
WeatherOf(r) == IF weather[r] = "unset" THEN "clear" ELSE weather[r]

WeatherAnswers(r) ==
  /\ tickStep[r] = "weather"
  /\ weatherRead' = [weatherRead EXCEPT ![r] = WeatherOf(r)]
  /\ tickStep' = [tickStep EXCEPT ![r] = "accidents"]
  /\ UNCHANGED <<monitoring, tickTimer, verdict,
                 regionActive, agentToDispatch, active, featureVars, shown, stopped>>

\* Mutant of TickEnds: a halted region's ticks are not continued.
TickEndsUnlessHalted(r) ==
  /\ tickStep' = [tickStep EXCEPT ![r] = "none"]
  /\ tickTimer' = [tickTimer EXCEPT ![r] = IF regionActive[r] THEN @ + 1 ELSE @]

TickEnds(r) ==
  /\ tickStep' = [tickStep EXCEPT ![r] = "none"]
  /\ tickTimer' = [tickTimer EXCEPT ![r] = IF monitoring[r] THEN @ + 1 ELSE @]

\* The score is below the threshold, or the region is halted already.
AccidentsAnswer(r) ==
  /\ tickStep[r] = "accidents"
  /\ ~ (Unsafe(weatherRead[r], accidents[r]) /\ regionActive[r])
  /\ TickEnds(r)
  /\ UNCHANGED <<monitoring, weatherRead, verdict,
                 regionActive, agentToDispatch, active, featureVars, shown, stopped>>

\* Mutant of SendHalt: Dispatch is not told.
SendHaltForgotten(r) ==
  /\ regionActive' = [regionActive EXCEPT ![r] = FALSE]
  /\ UNCHANGED <<agentToDispatch, active>>

SendHalt(r) == Gate!Set(r, FALSE)

\* _halt_and_wait: close the gate and suspend on a new awakeable.
HaltAndWait(r) ==
  /\ tickStep[r] = "accidents"
  /\ Unsafe(weatherRead[r], accidents[r])
  /\ regionActive[r]
  /\ SendHalt(r)
  /\ tickStep' = [tickStep EXCEPT ![r] = "verdict"]
  /\ verdict' = [verdict EXCEPT ![r] = "none"]
  /\ shown' = [shown EXCEPT ![r] = IF @ = "this" THEN "earlier" ELSE @]
  /\ UNCHANGED <<monitoring, tickTimer, weatherRead, featureVars, stopped>>

\* Mutants of SendVerdict: the verdict is not looked at; the agent reopens the
\* gate for itself only.
SendVerdictUnread(r) == Gate!Set(r, TRUE)
SendVerdictForgotten(r) ==
  /\ regionActive' = [regionActive EXCEPT ![r] = @ \/ verdict[r] = "approve"]
  /\ UNCHANGED <<agentToDispatch, active>>

SendVerdict(r) ==
  \/ verdict[r] = "approve" /\ Gate!Set(r, TRUE)
  \/ verdict[r] # "approve" /\ UNCHANGED <<regionActive, agentToDispatch, active>>

VerdictArrives(r) ==
  /\ tickStep[r] = "verdict"
  /\ verdict[r] # "none"
  /\ SendVerdict(r)
  /\ TickEnds(r)
  /\ UNCHANGED <<monitoring, weatherRead, verdict, featureVars, shown, stopped>>

-----------------------------------------------------------------------------
(* The operator, and what changes the features.                            *)

\* The dashboard reads pending_awakeable with get.
OperatorReads(r) ==
  /\ tickStep[r] = "verdict"
  /\ shown' = [shown EXCEPT ![r] = "this"]
  /\ UNCHANGED <<agentVars, regionActive, agentToDispatch, active, featureVars, stopped>>

\* It resolves the awakeable it read.  A promise is resolved once: an answer
\* to an earlier halt, or a second answer, is lost.
OperatorAnswers(r, v) ==
  /\ shown[r] # "none"
  /\ verdict' = [verdict EXCEPT ![r] =
                   IF shown[r] = "this" /\ tickStep[r] = "verdict" /\ @ = "none" THEN v ELSE @]
  /\ UNCHANGED <<monitoring, tickTimer, tickStep, weatherRead,
                 regionActive, agentToDispatch, active, featureVars, shown, stopped>>

FeaturesChange(r, w, a) ==
  /\ weather' = [weather EXCEPT ![r] = w]
  /\ accidents' = [accidents EXCEPT ![r] = a]
  /\ UNCHANGED <<agentVars, regionActive, agentToDispatch, active, shown, stopped>>

DispatchTakesSetActive(r) ==
  /\ Gate!Deliver(r)
  /\ UNCHANGED <<agentVars, featureVars, shown, stopped>>

-----------------------------------------------------------------------------
TickStep(r) == TickBegins(r) \/ WeatherAnswers(r) \/ AccidentsAnswer(r)
               \/ HaltAndWait(r) \/ VerdictArrives(r)

Next ==
  \E r \in Regions :
    \/ StartMonitoring(r)
    \/ StopMonitoring(r)
    \/ ForceResume(r)
    \/ TickStep(r)
    \/ OperatorReads(r)
    \/ \E v \in {"approve", "deny"} : OperatorAnswers(r, v)
    \/ \E w \in Weather, a \in Accidents : FeaturesChange(r, w, a)
    \/ DispatchTakesSetActive(r)

Spec == Init /\ [][Next]_vars

\* Restate runs the ticks and delivers the messages, and a tick that is due gets
\* its turn between the other calls of its key; the operator may never answer
\* and the features need not change.
FairSpec ==
  /\ Spec
  /\ \A r \in Regions :
       SF_vars(TickBegins(r)) /\ WF_vars(TickStep(r)) /\ WF_vars(DispatchTakesSetActive(r))

-----------------------------------------------------------------------------
TypeOK ==
  /\ monitoring \in [Regions -> BOOLEAN]
  /\ regionActive \in [Regions -> BOOLEAN]
  /\ tickTimer \in [Regions -> Nat]
  /\ tickStep \in [Regions -> {"none", "weather", "accidents", "verdict"}]
  /\ weatherRead \in [Regions -> Weather]
  /\ verdict \in [Regions -> {"none", "approve", "deny"}]
  /\ weather \in [Regions -> Weather \cup {"unset"}]
  /\ accidents \in [Regions -> Accidents]
  /\ shown \in [Regions -> {"none", "this", "earlier"}]
  /\ agentToDispatch \in [Regions -> Seq(BOOLEAN)]
  /\ active \in [Regions -> BOOLEAN]
  /\ stopped \in [Regions -> BOOLEAN]

Loops(r) == tickTimer[r] + (IF tickStep[r] = "none" THEN 0 ELSE 1)

\* A monitored region has its tick scheduled or under way, through halts, verdicts,
\* denials, stops and starts, and one tick only, however often start_monitoring
\* is called ("Idempotent.", region_safety_agent.py:62); only after a stop may a
\* start overtake the tick that is still out.
TickLoop ==
  \A r \in Regions :
    /\ monitoring[r] => Loops(r) >= 1
    /\ ~ stopped[r] => Loops(r) = (IF monitoring[r] THEN 1 ELSE 0)

\* Dispatch ends up where the agent believes it is, "dispatch starts allowed"
\* (region_safety_agent.py:71), as long as no start follows a stop.
GateAgrees == \A r \in Regions : ~ stopped[r] => Gate!Agrees(r)

\* The agent halts only an open region and tells Dispatch of each change of its
\* view but one: it starts again without a word.
ImplementsGate == Gate!GateSpec

\* A region that is halted is opened again by an approval of that very halt, by
\* force_resume or by a start that follows a stop, never by a denial or an answer
\* to an earlier halt.
HaltedUntilApproved ==
  [][\A r \in Regions : ~ regionActive[r] /\ regionActive'[r] =>
       \/ tickStep[r] = "verdict" /\ verdict[r] = "approve" /\ shown[r] = "this"
       \/ ForceResume(r)
       \/ ~ monitoring[r] /\ stopped[r]]_vars

\* While a monitored region stays unsafe, it is halted again after every
\* approval, every override and every start.
UnsafeRegionIsHalted ==
  \A r \in Regions :
    <>[](monitoring[r] /\ Unsafe(WeatherOf(r), accidents[r])) => []<>(~ active[r])
==============================================================================
