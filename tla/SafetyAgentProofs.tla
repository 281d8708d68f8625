------------------------- MODULE SafetyAgentProofs --------------------------
(***************************************************************************)
(* Theorems about the safety agent of any set of regions: whatever the     *)
(* operator, the features and the callers of start_monitoring,             *)
(* stop_monitoring and force_resume do.                                    *)
(***************************************************************************)
EXTENDS SafetyAgent, SequenceTheorems, TLAPS

-----------------------------------------------------------------------------
(* Type correctness.                                                       *)

LEMMA InitType == Init => TypeOK
  BY DEF Init, TypeOK, Weather, Accidents, Gate!GateInit

\* What is on its way to Dispatch is a queue of flags.
LEMMA QueueType ==
  ASSUME TypeOK, NEW r \in Regions, NEW b \in BOOLEAN
  PROVE  /\ Gate!Set(r, b) => /\ agentToDispatch' \in [Regions -> Seq(BOOLEAN)]
                              /\ regionActive' \in [Regions -> BOOLEAN]
                              /\ active' \in [Regions -> BOOLEAN]
         /\ Gate!Deliver(r) => /\ agentToDispatch' \in [Regions -> Seq(BOOLEAN)]
                               /\ regionActive' \in [Regions -> BOOLEAN]
                               /\ active' \in [Regions -> BOOLEAN]
  <1>1. agentToDispatch[r] \in Seq(BOOLEAN)
    BY DEF TypeOK
  <1>2. ASSUME agentToDispatch[r] # << >>
        PROVE  Head(agentToDispatch[r]) \in BOOLEAN /\ Tail(agentToDispatch[r]) \in Seq(BOOLEAN)
    BY <1>1, <1>2, HeadTailProperties, Zenon
  <1>3. Append(agentToDispatch[r], b) \in Seq(BOOLEAN)
    BY <1>1
  <1> QED  BY <1>2, <1>3 DEF TypeOK, Gate!Set, Gate!Deliver

LEMMA TickStepType ==
  ASSUME TypeOK, NEW r \in Regions, TickStep(r)
  PROVE  TypeOK'
  <1> USE DEF TypeOK, featureVars
  <1>1. CASE TickBegins(r)
    BY <1>1 DEF TickBegins
  <1>2. CASE WeatherAnswers(r)
    <2>1. WeatherOf(r) \in Weather
      BY DEF WeatherOf, Weather
    <2> QED  BY <1>2, <2>1 DEF WeatherAnswers
  <1>3. CASE AccidentsAnswer(r)
    BY <1>3 DEF AccidentsAnswer, TickEnds
  <1>4. CASE HaltAndWait(r)
    BY <1>4, QueueType DEF HaltAndWait, SendHalt
  <1>5. CASE VerdictArrives(r)
    <2>1. /\ agentToDispatch' \in [Regions -> Seq(BOOLEAN)]
          /\ regionActive' \in [Regions -> BOOLEAN]
          /\ active' \in [Regions -> BOOLEAN]
      BY <1>5, QueueType DEF VerdictArrives, SendVerdict
    <2>2. tickTimer' \in [Regions -> Nat] /\ tickStep' \in [Regions -> {"none", "weather", "accidents", "verdict"}]
      BY <1>5 DEF VerdictArrives, TickEnds
    <2> QED  BY <1>5, <2>1, <2>2 DEF VerdictArrives
  <1> QED  BY <1>1, <1>2, <1>3, <1>4, <1>5 DEF TickStep

LEMMA StepType == TypeOK /\ [Next]_vars => TypeOK'
  <1> SUFFICES ASSUME TypeOK, [Next]_vars PROVE TypeOK'
    OBVIOUS
  <1> USE DEF TypeOK, featureVars, agentVars
  <1>1. ASSUME NEW r \in Regions, StartMonitoring(r) PROVE TypeOK'
    BY <1>1 DEF StartMonitoring
  <1>2. ASSUME NEW r \in Regions, StopMonitoring(r) PROVE TypeOK'
    BY <1>2 DEF StopMonitoring
  <1>3. ASSUME NEW r \in Regions, ForceResume(r) PROVE TypeOK'
    BY <1>3, QueueType DEF ForceResume, Gate!Resume
  <1>4. ASSUME NEW r \in Regions, TickStep(r) PROVE TypeOK'
    BY <1>4, TickStepType
  <1>5. ASSUME NEW r \in Regions, OperatorReads(r) PROVE TypeOK'
    BY <1>5 DEF OperatorReads
  <1>6. ASSUME NEW r \in Regions, NEW v \in {"approve", "deny"}, OperatorAnswers(r, v) PROVE TypeOK'
    BY <1>6 DEF OperatorAnswers
  <1>7. ASSUME NEW r \in Regions, NEW w \in Weather, NEW a \in Accidents, FeaturesChange(r, w, a)
        PROVE  TypeOK'
    BY <1>7 DEF FeaturesChange
  <1>8. ASSUME NEW r \in Regions, DispatchTakesSetActive(r) PROVE TypeOK'
    BY <1>8, QueueType DEF DispatchTakesSetActive
  <1>9. CASE UNCHANGED vars
    BY <1>9 DEF vars
  <1> QED  BY <1>1, <1>2, <1>3, <1>4, <1>5, <1>6, <1>7, <1>8, <1>9 DEF Next

\* Every variable of the agent keeps its type.
THEOREM AgentTypeCorrect == Spec => []TypeOK
  BY InitType, StepType, PTL DEF Spec

-----------------------------------------------------------------------------
(* One tick loop.                                                          *)

\* The loop of region r is as TickLoop wants it.
LoopKept(r) ==
  /\ monitoring[r] => Loops(r) >= 1
  /\ ~ stopped[r] => Loops(r) = (IF monitoring[r] THEN 1 ELSE 0)

LEMMA InitLoop == Init => TickLoop
  <1> SUFFICES ASSUME Init, NEW r \in Regions PROVE LoopKept(r)
    BY DEF TickLoop, LoopKept
  <1>1. /\ monitoring[r] = FALSE
        /\ tickTimer[r] = 0
        /\ tickStep[r] = "none"
    BY DEF Init
  <1> QED  BY <1>1 DEF LoopKept, Loops

LEMMA StepLoop == TypeOK /\ TickLoop /\ [Next]_vars => TickLoop'
  <1> SUFFICES ASSUME TypeOK, TickLoop, [Next]_vars, NEW q \in Regions
               PROVE  LoopKept(q)'
    BY DEF TickLoop, LoopKept
  <1>0. LoopKept(q)
    BY DEF TickLoop, LoopKept
  <1> USE <1>0 DEF TypeOK, LoopKept, Loops
  <1>1. ASSUME tickTimer' = tickTimer, tickStep' = tickStep, monitoring' = monitoring,
               stopped' = stopped
        PROVE  LoopKept(q)'
    BY <1>1
  <1>2. ASSUME NEW r \in Regions, StartMonitoring(r) PROVE LoopKept(q)'
    BY <1>2 DEF StartMonitoring, AgentKeyFree
  <1>3. ASSUME NEW r \in Regions, StopMonitoring(r) PROVE LoopKept(q)'
    BY <1>3 DEF StopMonitoring
  <1>4. ASSUME NEW r \in Regions, TickStep(r) PROVE LoopKept(q)'
    <2>1. CASE TickBegins(r)
      BY <2>1 DEF TickBegins, AgentKeyFree
    <2>2. CASE WeatherAnswers(r)
      BY <2>2 DEF WeatherAnswers
    <2>3. CASE AccidentsAnswer(r)
      BY <2>3 DEF AccidentsAnswer, TickEnds
    <2>4. CASE HaltAndWait(r)
      BY <2>4 DEF HaltAndWait, featureVars
    <2>5. CASE VerdictArrives(r)
      BY <2>5 DEF VerdictArrives, TickEnds, featureVars
    <2> QED  BY <1>4, <2>1, <2>2, <2>3, <2>4, <2>5 DEF TickStep
  <1>5. CASE \E r \in Regions : \/ ForceResume(r) \/ OperatorReads(r) \/ DispatchTakesSetActive(r)
                                \/ \E v \in {"approve", "deny"} : OperatorAnswers(r, v)
                                \/ \E w \in Weather, a \in Accidents : FeaturesChange(r, w, a)
    BY <1>1, <1>5 DEF ForceResume, OperatorReads, DispatchTakesSetActive, OperatorAnswers,
       FeaturesChange, agentVars
  <1>6. CASE UNCHANGED vars
    BY <1>1, <1>6 DEF vars, agentVars
  <1> QED  BY <1>2, <1>3, <1>4, <1>5, <1>6 DEF Next

\* Monitoring that is never stopped is one loop of ticks, and a monitored region
\* is ticked in any case.
THEOREM OneLoopPerRegion == Spec => []TickLoop
  <1>1. Init => TypeOK /\ TickLoop
    BY InitType, InitLoop
  <1>2. TypeOK /\ TickLoop /\ [Next]_vars => (TypeOK /\ TickLoop)'
    BY StepType, StepLoop
  <1> QED  BY <1>1, <1>2, PTL DEF Spec

-----------------------------------------------------------------------------
(* The gate.                                                               *)

\* A region that is not monitored, and was not before, is open.
OpenAtRest(r) == ~ stopped[r] /\ ~ monitoring[r] => regionActive[r]

\* The telling of a flag, and its delivery, keep agent and Dispatch in step.
LEMMA SetAgrees ==
  ASSUME TypeOK, NEW r \in Regions, NEW b \in BOOLEAN, Gate!Set(r, b)
  PROVE  /\ Gate!Agrees(r)'
         /\ \A q \in Regions \ {r} : Gate!Agrees(q) => Gate!Agrees(q)'
  <1>1. agentToDispatch[r] \in Seq(BOOLEAN)
    BY DEF TypeOK
  <1>2. /\ Append(agentToDispatch[r], b) # << >>
        /\ Append(agentToDispatch[r], b)[Len(Append(agentToDispatch[r], b))] = b
    BY <1>1
  <1>3. /\ agentToDispatch'[r] = Append(agentToDispatch[r], b)
        /\ regionActive'[r] = b
        /\ \A q \in Regions \ {r} : /\ agentToDispatch'[q] = agentToDispatch[q]
                                    /\ regionActive'[q] = regionActive[q]
        /\ active' = active
    BY DEF Gate!Set, TypeOK
  <1> QED  BY <1>2, <1>3 DEF Gate!Agrees, Gate!Told

LEMMA DeliverAgrees ==
  ASSUME TypeOK, NEW r \in Regions, Gate!Deliver(r)
  PROVE  \A q \in Regions : Gate!Agrees(q) => Gate!Agrees(q)'
  <1> DEFINE s == agentToDispatch[r]
  <1>1. s \in Seq(BOOLEAN) /\ s # << >>
    BY DEF TypeOK, Gate!Deliver
  <1>2. /\ agentToDispatch'[r] = Tail(s)
        /\ active'[r] = Head(s)
        /\ \A q \in Regions \ {r} : /\ agentToDispatch'[q] = agentToDispatch[q]
                                    /\ active'[q] = active[q]
        /\ regionActive' = regionActive
    BY DEF Gate!Deliver, TypeOK
  <1>a. /\ Len(s) \in Nat \ {0}
        /\ Head(s) = s[1]
        /\ Tail(s) \in Seq(BOOLEAN)
        /\ Len(Tail(s)) = Len(s) - 1
        /\ \A i \in 1..Len(Tail(s)) : Tail(s)[i] = s[i + 1]
    <2> HIDE DEF s
    <2> QED  BY <1>1, HeadTailProperties
  <1>3. Gate!Told(r)' = Gate!Told(r)
    <2>1. CASE Tail(s) = << >>
      <3>1. Len(s) = 1
        <4> HIDE DEF s
        <4>1. Len(Tail(s)) = 0
          BY <1>a, <2>1, EmptySeq
        <4>2. Len(Tail(s)) = Len(s) - 1 /\ Len(s) \in Nat
          BY <1>a
        <4> QED  BY <4>1, <4>2
      <3> QED  BY <1>1, <1>2, <1>a, <2>1, <3>1 DEF Gate!Told
    <2>2. CASE Tail(s) # << >>
      <3>1. /\ Len(Tail(s)) = Len(s) - 1
            /\ Len(Tail(s)) \in Nat \ {0}
            /\ Tail(s)[Len(Tail(s))] = s[Len(s)]
        <4> HIDE DEF s
        <4> QED  BY <1>a, <2>2
      <3> QED  BY <1>1, <1>2, <2>2, <3>1 DEF Gate!Told
    <2> QED  BY <2>1, <2>2
  <1>4. \A q \in Regions \ {r} : Gate!Told(q)' = Gate!Told(q)
    BY <1>2 DEF Gate!Told
  <1> QED  BY <1>2, <1>3, <1>4 DEF Gate!Agrees

\* What holds of the gate of region r.
GateKept(r) == /\ ~ stopped[r] => Gate!Agrees(r)
               /\ OpenAtRest(r)
GateInv == \A r \in Regions : GateKept(r)

LEMMA InitGate == Init => GateInv
  <1> SUFFICES ASSUME Init, NEW r \in Regions PROVE GateKept(r)
    BY DEF GateInv
  <1>1. regionActive[r] = TRUE /\ active[r] = TRUE /\ agentToDispatch[r] = << >>
    BY DEF Init, Gate!GateInit
  <1> QED  BY <1>1 DEF GateKept, OpenAtRest, Gate!Agrees, Gate!Told

LEMMA StepGate == TypeOK /\ TickLoop /\ GateInv /\ [Next]_vars => GateInv'
  <1> SUFFICES ASSUME TypeOK, TickLoop, GateInv, [Next]_vars, NEW q \in Regions
               PROVE  GateKept(q)'
    BY DEF GateInv
  <1>0. GateKept(q) /\ LoopKept(q)
    BY DEF GateInv, TickLoop, LoopKept
  <1> USE <1>0
  <1>1. ASSUME regionActive' = regionActive, agentToDispatch' = agentToDispatch,
               active' = active, monitoring' = monitoring, stopped' = stopped
        PROVE  GateKept(q)'
    BY <1>1 DEF GateKept, OpenAtRest, Gate!Agrees, Gate!Told
  <1>2. ASSUME NEW r \in Regions, NEW b \in BOOLEAN, Gate!Set(r, b),
               b \/ (stopped[r] \/ monitoring[r]),
               monitoring' = monitoring, stopped' = stopped
        PROVE  GateKept(q)'
    <2>1. CASE q = r
      <3>1. regionActive'[r] = b
        BY <1>2 DEF Gate!Set, TypeOK
      <3> QED  BY <1>2, <2>1, <3>1, SetAgrees DEF GateKept, OpenAtRest
    <2>2. CASE q # r
      <3>1. regionActive'[q] = regionActive[q]
        BY <1>2, <2>2 DEF Gate!Set, TypeOK
      <3>2. Gate!Agrees(q) => Gate!Agrees(q)'
        BY <1>2, <2>2, SetAgrees
      <3> QED  BY <1>2, <3>1, <3>2 DEF GateKept, OpenAtRest
    <2> QED  BY <2>1, <2>2
  <1>3. ASSUME NEW r \in Regions, StartMonitoring(r) PROVE GateKept(q)'
    <2>1. /\ ~ stopped[r] => regionActive[r]
          /\ q = r => ~ monitoring[q]
      BY <1>3 DEF GateInv, GateKept, OpenAtRest, StartMonitoring
    <2>2. /\ ~ stopped[q] => regionActive'[q] = regionActive[q]
          /\ regionActive'[q] = TRUE \/ regionActive'[q] = regionActive[q]
          /\ monitoring'[q] = monitoring[q] \/ monitoring'[q] = TRUE
      BY <1>3, <2>1 DEF StartMonitoring, TypeOK
    <2>3. agentToDispatch' = agentToDispatch /\ active' = active /\ stopped' = stopped
      BY <1>3 DEF StartMonitoring
    <2> QED  BY <2>2, <2>3 DEF GateKept, OpenAtRest, Gate!Agrees, Gate!Told
  <1>4. ASSUME NEW r \in Regions, StopMonitoring(r) PROVE GateKept(q)'
    <2>1. /\ stopped'[r] = TRUE
          /\ q # r => monitoring'[q] = monitoring[q] /\ stopped'[q] = stopped[q]
      BY <1>4 DEF StopMonitoring, TypeOK
    <2>2. regionActive' = regionActive /\ agentToDispatch' = agentToDispatch /\ active' = active
      BY <1>4 DEF StopMonitoring
    <2> QED  BY <2>1, <2>2 DEF GateKept, OpenAtRest, Gate!Agrees, Gate!Told
  <1>5. ASSUME NEW r \in Regions, ForceResume(r) PROVE GateKept(q)'
    BY <1>2, <1>5 DEF ForceResume, Gate!Resume, agentVars
  <1>6. ASSUME NEW r \in Regions, HaltAndWait(r) PROVE GateKept(q)'
    <2>1. stopped[r] \/ monitoring[r]
      <3>1. /\ tickTimer[r] \in Nat
            /\ tickStep[r] # "none"
            /\ ~ stopped[r] => Loops(r) = (IF monitoring[r] THEN 1 ELSE 0)
        BY <1>6 DEF HaltAndWait, TickLoop, TypeOK
      <3> QED  BY <3>1 DEF Loops
    <2> QED  BY <1>2, <1>6, <2>1 DEF HaltAndWait, SendHalt
  <1>7. ASSUME NEW r \in Regions, VerdictArrives(r) PROVE GateKept(q)'
    <2>1. CASE Gate!Set(r, TRUE)
      BY <1>2, <1>7, <2>1 DEF VerdictArrives
    <2>2. CASE UNCHANGED <<regionActive, agentToDispatch, active>>
      BY <1>1, <1>7, <2>2 DEF VerdictArrives
    <2> QED  BY <1>7, <2>1, <2>2 DEF VerdictArrives, SendVerdict
  <1>8. ASSUME NEW r \in Regions, DispatchTakesSetActive(r) PROVE GateKept(q)'
    <2>1. Gate!Agrees(q) => Gate!Agrees(q)'
      BY <1>8, DeliverAgrees DEF DispatchTakesSetActive
    <2> QED  BY <1>8, <2>1 DEF DispatchTakesSetActive, agentVars, Gate!Deliver, GateKept, OpenAtRest
  <1>9. CASE \E r \in Regions : \/ TickBegins(r) \/ WeatherAnswers(r) \/ AccidentsAnswer(r)
                                \/ OperatorReads(r)
                                \/ \E v \in {"approve", "deny"} : OperatorAnswers(r, v)
                                \/ \E w \in Weather, a \in Accidents : FeaturesChange(r, w, a)
    BY <1>1, <1>9 DEF TickBegins, WeatherAnswers, AccidentsAnswer, OperatorReads, OperatorAnswers,
       FeaturesChange, agentVars
  <1>10. CASE UNCHANGED vars
    BY <1>1, <1>10 DEF vars, agentVars
  <1> QED  BY <1>3, <1>4, <1>5, <1>6, <1>7, <1>8, <1>9, <1>10 DEF Next, TickStep

IInv == TypeOK /\ TickLoop /\ GateInv

LEMMA IInvHolds == Spec => []IInv
  <1>1. Init => IInv
    BY InitType, InitLoop, InitGate DEF IInv
  <1>2. IInv /\ [Next]_vars => IInv'
    BY StepType, StepLoop, StepGate DEF IInv
  <1> QED  BY <1>1, <1>2, PTL DEF Spec

\* Dispatch is told whatever the agent decides, until a stop and a start let the
\* agent take a halted region for open.
THEOREM GateInStep == Spec => []GateAgrees
  <1>1. IInv => GateAgrees
    BY DEF IInv, GateInv, GateKept, GateAgrees
  <1> QED  BY <1>1, IInvHolds, PTL

-----------------------------------------------------------------------------
(* Refinement.                                                             *)

\* Every step of the agent is a step of the gate or leaves the gate alone.
LEMMA StepImplementsGate == IInv /\ [Next]_vars => [Gate!GateNext]_(Gate!gateVars)
  <1> SUFFICES ASSUME IInv, [Next]_vars
               PROVE  Gate!GateNext \/ UNCHANGED Gate!gateVars
    OBVIOUS
  <1> USE DEF Gate!gateVars, Gate!GateNext
  <1>1. ASSUME NEW r \in Regions, StartMonitoring(r) PROVE Gate!Restart(r)
    BY <1>1 DEF StartMonitoring, Gate!Restart
  <1>2. ASSUME NEW r \in Regions, ForceResume(r) PROVE Gate!Resume(r)
    BY <1>2 DEF ForceResume
  <1>3. ASSUME NEW r \in Regions, HaltAndWait(r) PROVE Gate!Halt(r)
    BY <1>3 DEF HaltAndWait, SendHalt, Gate!Halt
  <1>4. ASSUME NEW r \in Regions, VerdictArrives(r) PROVE Gate!Resume(r) \/ UNCHANGED Gate!gateVars
    BY <1>4 DEF VerdictArrives, SendVerdict, Gate!Resume
  <1>5. ASSUME NEW r \in Regions, DispatchTakesSetActive(r) PROVE Gate!Deliver(r)
    BY <1>5 DEF DispatchTakesSetActive
  <1>6. CASE \E r \in Regions : \/ TickBegins(r) \/ WeatherAnswers(r) \/ AccidentsAnswer(r)
                                \/ StopMonitoring(r) \/ OperatorReads(r)
                                \/ \E v \in {"approve", "deny"} : OperatorAnswers(r, v)
                                \/ \E w \in Weather, a \in Accidents : FeaturesChange(r, w, a)
    BY <1>6 DEF TickBegins, WeatherAnswers, AccidentsAnswer, StopMonitoring, OperatorReads,
       OperatorAnswers, FeaturesChange
  <1>7. CASE UNCHANGED vars
    BY <1>7 DEF vars
  <1> QED  BY <1>1, <1>2, <1>3, <1>4, <1>5, <1>6, <1>7 DEF Next, TickStep

\* The safety agent implements the gate.
THEOREM AgentImplementsGate == Spec => ImplementsGate
  <1>1. Init => Gate!GateInit
    BY DEF Init
  <1> QED  BY <1>1, IInvHolds, StepImplementsGate, PTL DEF Spec, ImplementsGate, Gate!GateSpec

-----------------------------------------------------------------------------
(* What opens a region.                                                    *)

\* A verdict that waits to be taken is the answer to the halt at hand.
VerdictIsOfThisHalt ==
  \A r \in Regions : tickStep[r] = "verdict" /\ verdict[r] # "none" => shown[r] = "this"

LEMMA StepVerdict ==
  TypeOK /\ VerdictIsOfThisHalt /\ [Next]_vars => VerdictIsOfThisHalt'
  <1> SUFFICES ASSUME TypeOK, VerdictIsOfThisHalt, [Next]_vars, NEW q \in Regions,
                      tickStep'[q] = "verdict", verdict'[q] # "none"
               PROVE  shown'[q] = "this"
    BY DEF VerdictIsOfThisHalt
  <1>0. tickStep[q] = "verdict" /\ verdict[q] # "none" => shown[q] = "this"
    BY DEF VerdictIsOfThisHalt
  <1> USE <1>0 DEF TypeOK, agentVars, featureVars
  <1>1. ASSUME NEW r \in Regions, TickStep(r) PROVE shown'[q] = "this"
    <2>1. CASE TickBegins(r)
      BY <2>1 DEF TickBegins
    <2>2. CASE WeatherAnswers(r)
      BY <2>2 DEF WeatherAnswers
    <2>3. CASE AccidentsAnswer(r)
      BY <2>3 DEF AccidentsAnswer, TickEnds
    <2>4. CASE HaltAndWait(r)
      BY <2>4 DEF HaltAndWait
    <2>5. CASE VerdictArrives(r)
      BY <2>5 DEF VerdictArrives, TickEnds
    <2> QED  BY <1>1, <2>1, <2>2, <2>3, <2>4, <2>5 DEF TickStep
  <1>2. ASSUME NEW r \in Regions, OperatorReads(r) PROVE shown'[q] = "this"
    BY <1>2 DEF OperatorReads
  <1>3. ASSUME NEW r \in Regions, NEW v \in {"approve", "deny"}, OperatorAnswers(r, v)
        PROVE  shown'[q] = "this"
    BY <1>3 DEF OperatorAnswers
  <1>4. CASE \E r \in Regions : \/ StartMonitoring(r) \/ StopMonitoring(r) \/ ForceResume(r)
                                \/ DispatchTakesSetActive(r)
                                \/ \E w \in Weather, a \in Accidents : FeaturesChange(r, w, a)
    BY <1>4 DEF StartMonitoring, StopMonitoring, ForceResume, DispatchTakesSetActive, FeaturesChange
  <1>5. CASE UNCHANGED vars
    BY <1>5 DEF vars
  <1> QED  BY <1>1, <1>2, <1>3, <1>4, <1>5 DEF Next

\* What may open the halted region r.
Opens(r) ==
  \/ tickStep[r] = "verdict" /\ verdict[r] = "approve" /\ shown[r] = "this"
  \/ ForceResume(r)
  \/ ~ monitoring[r] /\ stopped[r]

LEMMA StepOpens ==
  ASSUME IInv, VerdictIsOfThisHalt, [Next]_vars,
         NEW q \in Regions, ~ regionActive[q], regionActive'[q]
  PROVE  Opens(q)
  <1> USE DEF IInv, TypeOK
  <1>1. ASSUME regionActive' = regionActive PROVE FALSE
    BY <1>1
  <1>2. ASSUME NEW r \in Regions, StartMonitoring(r) PROVE Opens(q)
    <2>1. q = r
      BY <1>2 DEF StartMonitoring
    <2>2. ~ stopped[q] /\ ~ monitoring[q] => regionActive[q]
      BY DEF GateInv, GateKept, OpenAtRest
    <2> QED  BY <1>2, <2>1, <2>2 DEF StartMonitoring, Opens
  <1>3. ASSUME NEW r \in Regions, ForceResume(r) PROVE Opens(q)
    <2>1. q = r
      BY <1>3 DEF ForceResume, Gate!Resume, Gate!Set
    <2> QED  BY <1>3, <2>1 DEF Opens
  <1>4. ASSUME NEW r \in Regions, HaltAndWait(r) PROVE FALSE
    BY <1>4 DEF HaltAndWait, SendHalt, Gate!Set
  <1>5. ASSUME NEW r \in Regions, VerdictArrives(r) PROVE Opens(q)
    <2>1. verdict[r] = "approve" /\ Gate!Set(r, TRUE)
      BY <1>1, <1>5 DEF VerdictArrives, SendVerdict
    <2>2. q = r
      BY <2>1 DEF Gate!Set
    <2> QED  BY <1>5, <2>1, <2>2 DEF VerdictArrives, VerdictIsOfThisHalt, Opens
  <1>6. ASSUME NEW r \in Regions, DispatchTakesSetActive(r) PROVE FALSE
    BY <1>1, <1>6 DEF DispatchTakesSetActive, Gate!Deliver
  <1>7. CASE \E r \in Regions : \/ TickBegins(r) \/ WeatherAnswers(r) \/ AccidentsAnswer(r)
                                \/ StopMonitoring(r) \/ OperatorReads(r)
                                \/ \E v \in {"approve", "deny"} : OperatorAnswers(r, v)
                                \/ \E w \in Weather, a \in Accidents : FeaturesChange(r, w, a)
    BY <1>1, <1>7 DEF TickBegins, WeatherAnswers, AccidentsAnswer, StopMonitoring, OperatorReads,
       OperatorAnswers, FeaturesChange
  <1>8. CASE UNCHANGED vars
    BY <1>1, <1>8 DEF vars
  <1> QED  BY <1>2, <1>3, <1>4, <1>5, <1>6, <1>7, <1>8 DEF Next, TickStep

\* A halted region is opened by an approval of that halt, an override, or a start
\* that follows a stop, and by nothing else.
THEOREM HaltIsHumanGated == Spec => HaltedUntilApproved
  <1>1. Init => VerdictIsOfThisHalt
    BY DEF Init, VerdictIsOfThisHalt
  <1>2. Spec => []VerdictIsOfThisHalt
    <2>1. IInv => TypeOK
      BY DEF IInv
    <2> QED  BY <1>1, <2>1, StepVerdict, IInvHolds, PTL DEF Spec
  <1>3. IInv /\ VerdictIsOfThisHalt /\ [Next]_vars =>
          [\A r \in Regions : ~ regionActive[r] /\ regionActive'[r] =>
             \/ tickStep[r] = "verdict" /\ verdict[r] = "approve" /\ shown[r] = "this"
             \/ ForceResume(r)
             \/ ~ monitoring[r] /\ stopped[r]]_vars
    BY StepOpens DEF Opens
  <1> QED  BY <1>2, <1>3, IInvHolds, PTL DEF Spec, HaltedUntilApproved
=============================================================================
