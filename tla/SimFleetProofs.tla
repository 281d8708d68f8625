--------------------------- MODULE SimFleetProofs ---------------------------
(***************************************************************************)
(* Theorems about SimControl and its fleet, for any number of simulators,  *)
(* any rates and any use of the start, pause and resume calls.             *)
(***************************************************************************)
EXTENDS SimFleet, FiniteSetTheorems, TLAPS

-----------------------------------------------------------------------------
(* Type correctness.                                                       *)

LEMMA CommandsAreTyped ==
  /\ \A op \in {"start", "pause", "resume", "set_rate"} : Command(op) \in Commands
  /\ \A op \in {"start", "pause", "resume", "set_rate"}, v \in Rates :
       RateCommand(op, v) \in Commands
  BY FleetIsFinite DEF Command, RateCommand, Commands

\* The region of a simulator is a region.
LEMMA RegionsOfSims ==
  ASSUME NEW s \in Sims
  PROVE  Home(s) \in Regions /\ (s \in MappingSims => s[2] \in Regions)
  <1>1. s[2] \in Nat
    BY FleetIsFinite DEF Sims, RiderSims, DriverSims, MappingSims, Riders, Regions
  <1>2. s[2] % NumRegions \in 0..(NumRegions - 1)
    BY <1>1, FleetIsFinite
  <1>3. s \in MappingSims => s[2] \in Regions
    BY DEF MappingSims
  <1> QED  BY <1>2, <1>3 DEF Home, Regions

\* A round of commands keeps the inboxes inboxes.
LEMMA SendsType ==
  ASSUME SimTypeOK, NEW targets, NEW c \in [targets -> Commands], Sends(c)
  PROVE  inbox' \in [Sims -> Seq(Commands)]
  BY DEF Sends, SimTypeOK

LEMMA InitType == Init => TypeOK
  BY FleetIsFinite, CallerAssumptions DEF Init, SimInit, TypeOK, SimTypeOK, Regions

\* Each step of a simulator keeps every variable in its type.
LEMMA SimStepType ==
  ASSUME TypeOK, NEW s \in Sims, SimStep(s), UNCHANGED <<fleet, starts, ordered>>
  PROVE  TypeOK'
  <1>1. SimTypeOK'
    <2> USE DEF TypeOK, SimTypeOK
    <2>1. ASSUME NEW op, Takes(s, op) PROVE /\ inbox' \in [Sims -> Seq(Commands)]
                                           /\ Head(inbox[s]) \in Commands
      BY <2>1 DEF Takes
    <2>2. CASE StartRider(s)
      <3>1. rate' \in [Riders -> Rates]
        BY <2>1, <2>2 DEF StartRider, TakesRate, Commands
      <3>2. tickTimer' \in [Sims -> Nat]
        BY <2>2 DEF StartRider, Kick
      <3> QED  BY <2>1, <2>2, <3>1, <3>2 DEF StartRider, Activate
    <2>3. CASE SetRate(s)
      BY <2>1, <2>3 DEF SetRate, TakesRate, Commands
    <2>4. CASE StartDriver(s)
      BY <2>1, <2>4 DEF StartDriver, Activate
    <2>5. CASE StartMapping(s)
      <3>1. bootstraps' \in [Regions -> Nat]
        <4> DEFINE r == s[2]
        <4>1. bootstraps' = [bootstraps EXCEPT ![r] = IF simActive[s] THEN @ ELSE @ + 1]
          BY <2>5 DEF StartMapping
        <4>2. r \in Regions
          BY <2>5, RegionsOfSims DEF StartMapping
        <4> HIDE DEF r
        <4> QED  BY <4>1, <4>2
      <3>2. tickTimer' \in [Sims -> Nat]
        BY <2>5 DEF StartMapping, Kick
      <3> QED  BY <2>1, <2>5, <3>1, <3>2 DEF StartMapping, Activate
    <2>6. CASE Pause(s)
      BY <2>1, <2>6 DEF Pause
    <2>7. CASE Resume(s)
      BY <2>1, <2>7 DEF Resume, Activate, Kick
    <2>8. CASE TickBegins(s)
      BY <2>8 DEF TickBegins
    <2>9. CASE DriverOnline(s)
      <3>1. supply' \in [Regions -> Nat]
        <4> DEFINE r == Home(s)
        <4>1. supply' = [supply EXCEPT ![r] = @ + 1]
          BY <2>9 DEF DriverOnline
        <4>2. r \in Regions
          BY RegionsOfSims
        <4> HIDE DEF r
        <4> QED  BY <4>1, <4>2
      <3>2. tickTimer' \in [Sims -> Nat]
        BY <2>9 DEF DriverOnline
      <3> QED  BY <2>9, <3>1, <3>2 DEF DriverOnline
    <2>10. CASE TickEnds(s)
      BY <2>10 DEF TickEnds
    <2> QED  BY <2>2, <2>3, <2>4, <2>5, <2>6, <2>7, <2>8, <2>9, <2>10
             DEF SimStep, SimTakesCommand, SimContinues
  <1> QED  BY <1>1 DEF TypeOK

\* Each call of SimControl does.
LEMMA OrderType ==
  ASSUME TypeOK,
         \/ \E d \in 0..MaxDrivers, n \in 0..MaxRiders, v \in Rates : StartAll(d, n, v)
         \/ StopAll
         \/ \E k \in Kinds : PauseKind(k) \/ ResumeKind(k)
         \/ \E v \in Rates : SetRiderRate(v)
  PROVE  TypeOK'
  <1> USE CommandsAreTyped, SendsType DEF TypeOK
  <1>0. ASSUME NEW targets, NEW c \in Commands, SendTo(targets, c)
        PROVE  inbox' \in [Sims -> Seq(Commands)]
    BY <1>0 DEF SendTo
  <1>a. ASSUME NEW ks, NEW what \in {"run", "stop"}, Order(ks, what)
        PROVE  ordered' \in [Kinds -> {"run", "stop"}]
    BY <1>a DEF Order
  <1>1. ASSUME NEW d \in 0..MaxDrivers, NEW n \in 0..MaxRiders, NEW v \in Rates, StartAll(d, n, v)
        PROVE  TypeOK'
    <2>1. inbox' \in [Sims -> Seq(Commands)]
      BY <1>1 DEF StartAll
    <2> QED
      BY <1>1, <1>a, <2>1, CallerAssumptions DEF StartAll, SimsUntouched, SimTypeOK
  <1>2. CASE StopAll
    BY <1>2, <1>0, <1>a DEF StopAll, SimsUntouched, SimTypeOK
  <1>3. ASSUME NEW k \in Kinds, PauseKind(k) PROVE TypeOK'
    BY <1>3, <1>0, <1>a DEF PauseKind, SimsUntouched, SimTypeOK
  <1>4. ASSUME NEW k \in Kinds, ResumeKind(k) PROVE TypeOK'
    BY <1>4, <1>0, <1>a DEF ResumeKind, SimsUntouched, SimTypeOK
  <1>5. ASSUME NEW v \in Rates, SetRiderRate(v) PROVE TypeOK'
    BY <1>5, <1>0 DEF SetRiderRate, SimsUntouched, SimTypeOK
  <1> QED  BY <1>1, <1>2, <1>3, <1>4, <1>5

SimControlCalls ==
  \/ \E d \in 0..MaxDrivers, n \in 0..MaxRiders, v \in Rates : StartAll(d, n, v)
  \/ StopAll
  \/ \E k \in Kinds : PauseKind(k) \/ ResumeKind(k)
  \/ \E v \in Rates : SetRiderRate(v)

LEMMA NextType == TypeOK /\ [Next]_vars => TypeOK'
  <1> SUFFICES ASSUME TypeOK, [Next]_vars PROVE TypeOK'
    OBVIOUS
  <1>1. CASE UNCHANGED vars
    BY <1>1 DEF vars, simVars, TypeOK, SimTypeOK
  <1>2. ASSUME NEW s \in Sims, SimStep(s) /\ UNCHANGED <<fleet, starts, ordered>> PROVE TypeOK'
    BY <1>2, SimStepType
  <1>3. CASE SimControlCalls
    BY <1>3, OrderType DEF SimControlCalls
  <1> QED  BY <1>1, <1>2, <1>3 DEF Next, SimControlCalls

\* The variables keep to their types (TypeOK).
THEOREM FleetTypeCorrect == Spec => []TypeOK
  BY InitType, NextType, PTL DEF Spec

-----------------------------------------------------------------------------
(* A running simulator has a tick coming.                                  *)

\* What a step of one simulator leaves alone of the others.
LEMMA OthersUntouched ==
  ASSUME TypeOK, NEW s \in Sims, SimStep(s), NEW u \in Sims, u # s
  PROVE  simActive'[u] = simActive[u] /\ tickTimer'[u] = tickTimer[u] /\ busy'[u] = busy[u]
  <1> USE DEF TypeOK, SimTypeOK
  <1>1. CASE SimTakesCommand(s)
    BY <1>1 DEF SimTakesCommand, StartRider, SetRate, StartDriver, StartMapping, Pause, Resume,
       Activate, Kick
  <1>2. CASE TickBegins(s)
    BY <1>2 DEF TickBegins
  <1>3. CASE SimContinues(s)
    BY <1>3 DEF SimContinues, DriverOnline, TickEnds
  <1> QED  BY <1>1, <1>2, <1>3 DEF SimStep

\* A step of a simulator leaves it with a tick coming if its flag is up.
LEMMA OwnLoop ==
  ASSUME TypeOK, ActiveSimTicks, NEW s \in Sims, SimStep(s), simActive'[s]
  PROVE  tickTimer'[s] >= 1 \/ busy'[s] # "none"
  <1> USE DEF TypeOK, SimTypeOK
  <1>0. simActive[s] => tickTimer[s] >= 1 \/ busy[s] # "none"
    BY DEF ActiveSimTicks, Loops, KeyFree
  <1>1. CASE StartRider(s) \/ StartMapping(s) \/ Resume(s)
    BY <1>0, <1>1 DEF StartRider, StartMapping, Resume, Kick
  <1>2. CASE SetRate(s)
    BY <1>0, <1>2 DEF SetRate
  <1>3. CASE StartDriver(s)
    BY <1>0, <1>3 DEF StartDriver
  <1>4. CASE Pause(s)
    BY <1>4 DEF Pause
  <1>5. CASE TickBegins(s)
    BY <1>0, <1>5 DEF TickBegins
  <1>6. CASE DriverOnline(s) \/ TickEnds(s)
    BY <1>6 DEF DriverOnline, TickEnds
  <1> QED  BY <1>1, <1>2, <1>3, <1>4, <1>5, <1>6 DEF SimStep, SimTakesCommand, SimContinues

LEMMA NextTicks == TypeOK /\ ActiveSimTicks /\ [Next]_vars => ActiveSimTicks'
  <1> SUFFICES ASSUME TypeOK, ActiveSimTicks, [Next]_vars PROVE ActiveSimTicks'
    OBVIOUS
  <1>0. TypeOK'
    BY NextType
  <1>1. CASE UNCHANGED simVars
    BY <1>1 DEF simVars, ActiveSimTicks, Loops, KeyFree
  <1>2. ASSUME NEW s \in Sims, SimStep(s) PROVE ActiveSimTicks'
    <2> SUFFICES ASSUME NEW u \in Sims, simActive'[u] PROVE Loops(u)' >= 1
      BY DEF ActiveSimTicks
    <2>1. CASE u = s
      BY <1>0, <1>2, <2>1, OwnLoop DEF Loops, KeyFree, TypeOK, SimTypeOK
    <2>2. CASE u # s
      BY <1>2, <2>2, OthersUntouched DEF ActiveSimTicks, Loops, KeyFree
    <2> QED  BY <2>1, <2>2
  <1>3. CASE SimControlCalls
    <2>1. UNCHANGED <<simActive, tickTimer, busy>>
      BY <1>3 DEF SimControlCalls, StartAll, StopAll, PauseKind, ResumeKind, SetRiderRate, SimsUntouched
    <2> QED  BY <2>1 DEF ActiveSimTicks, Loops, KeyFree
  <1> QED  BY <1>1, <1>2, <1>3 DEF Next, vars, SimControlCalls

\* Whatever the order of starts, pauses, resumes and ticks, a simulator whose
\* flag is up has a tick scheduled or under way (ActiveSimTicks).
THEOREM LoopsStayAlive == Spec => []ActiveSimTicks
  <1>1. Init => ActiveSimTicks
    BY DEF Init, SimInit, ActiveSimTicks
  <1> QED  BY <1>1, NextTicks, FleetTypeCorrect, PTL DEF Spec

-----------------------------------------------------------------------------
(* A feed that is on was bootstrapped.                                     *)

IsAt(s, i, op) == inbox[s][i].op = op

\* As long as nothing was bootstrapped the feed is off, a start is on its way if
\* start_all was called, and no resume overtakes it.
AwaitsStart(s) ==
  /\ ~ simActive[s]
  /\ starts > 0 => \E j \in 1..Len(inbox[s]) : IsAt(s, j, "start")
  /\ \A i \in 1..Len(inbox[s]) :
       IsAt(s, i, "resume") => \E j \in 1..(i - 1) : IsAt(s, j, "start")

BootInv == \A s \in MappingSims : bootstraps[s[2]] = 0 => AwaitsStart(s)

\* A command appended behind a start, or a start itself, keeps the order.
LEMMA AppendKeepsOrder ==
  ASSUME TypeOK, NEW s \in Sims, AwaitsStart(s), NEW c \in Commands,
         simActive' = simActive, starts' \in Nat,
         inbox'[s] = Append(inbox[s], c),
         c.op = "resume" => starts > 0,
         starts' > 0 => starts > 0 \/ c.op = "start"
  PROVE  AwaitsStart(s)'
  <1> DEFINE q == inbox[s]
  <1>1. q \in Seq(Commands)
    BY DEF TypeOK, SimTypeOK
  <1>2. /\ Len(inbox'[s]) = Len(q) + 1
        /\ inbox'[s][Len(q) + 1] = c
        /\ \A i \in 1..Len(q) : inbox'[s][i] = q[i]
        /\ Len(q) \in Nat
    BY <1>1
  <1> HIDE DEF q
  <1>3. /\ ~ simActive[s]
        /\ starts > 0 => \E j \in 1..Len(q) : q[j].op = "start"
        /\ \A i \in 1..Len(q) : q[i].op = "resume" => \E j \in 1..(i - 1) : q[j].op = "start"
    BY DEF AwaitsStart, IsAt, q
  <1>4. starts' > 0 => \E j \in 1..(Len(q) + 1) : inbox'[s][j].op = "start"
    <2>1. CASE starts > 0
      <3>1. PICK j \in 1..Len(q) : q[j].op = "start"
        BY <1>3, <2>1
      <3> QED  BY <1>2, <3>1
    <2>2. CASE c.op = "start"
      BY <1>2, <2>2
    <2> QED  BY <2>1, <2>2
  <1>5. ASSUME NEW i \in 1..(Len(q) + 1), inbox'[s][i].op = "resume"
        PROVE  \E j \in 1..(i - 1) : inbox'[s][j].op = "start"
    <2>1. CASE i = Len(q) + 1
      <3>1. PICK j \in 1..Len(q) : q[j].op = "start"
        BY <1>2, <1>3, <1>5, <2>1
      <3> QED  BY <1>2, <2>1, <3>1
    <2>2. CASE i \in 1..Len(q)
      <3>1. PICK j \in 1..(i - 1) : q[j].op = "start"
        BY <1>2, <1>3, <1>5, <2>2
      <3>2. j \in 1..Len(q)
        BY <2>2, <3>1, <1>2
      <3> QED  BY <1>2, <3>1, <3>2
    <2> QED  BY <1>2, <2>1, <2>2
  <1> QED  BY <1>2, <1>3, <1>4, <1>5 DEF AwaitsStart, IsAt

\* A pause taken from the head keeps it too.
LEMMA TailKeepsOrder ==
  ASSUME TypeOK, NEW s \in Sims, AwaitsStart(s), ~ simActive'[s], starts' = starts,
         inbox[s] # << >>, inbox'[s] = Tail(inbox[s]), Head(inbox[s]).op = "pause"
  PROVE  AwaitsStart(s)'
  <1> DEFINE q == inbox[s]
  <1>1. q \in Seq(Commands) /\ q # << >>
    BY DEF TypeOK, SimTypeOK
  <1>a. inbox'[s] = Tail(q) /\ Head(q).op = "pause"
    OBVIOUS
  <1> HIDE DEF q
  <1>b. Head(q) = q[1] /\ Len(q) \in Nat \ {0}
    BY <1>1
  <1>c. Len(Tail(q)) = Len(q) - 1 /\ \A i \in 1..(Len(q) - 1) : Tail(q)[i] = q[i + 1]
    BY <1>1
  <1>2. /\ Len(q) \in Nat \ {0}
        /\ Len(inbox'[s]) = Len(q) - 1
        /\ \A i \in 1..(Len(q) - 1) : inbox'[s][i] = q[i + 1]
        /\ q[1].op = "pause"
    BY <1>a, <1>b, <1>c
  <1>3. /\ starts > 0 => \E j \in 1..Len(q) : q[j].op = "start"
        /\ \A i \in 1..Len(q) : q[i].op = "resume" => \E j \in 1..(i - 1) : q[j].op = "start"
    BY DEF AwaitsStart, IsAt, q
  <1>4. ASSUME NEW j \in 2..Len(q), q[j].op = "start"
        PROVE  j - 1 \in 1..(Len(q) - 1) /\ inbox'[s][j - 1].op = "start"
    <2>1. j - 1 \in 1..(Len(q) - 1) /\ (j - 1) + 1 = j
      BY <1>2
    <2>2. inbox'[s][j - 1] = q[(j - 1) + 1]
      BY <1>2, <2>1
    <2> QED  BY <1>4, <2>1, <2>2
  <1>5. starts > 0 => \E j \in 1..(Len(q) - 1) : inbox'[s][j].op = "start"
    <2> HAVE starts > 0
    <2>1. PICK j \in 1..Len(q) : q[j].op = "start"
      BY <1>3
    <2>2. j \in 2..Len(q)
      BY <1>2, <2>1
    <2> QED  BY <1>4, <2>1, <2>2
  <1>6. ASSUME NEW i \in 1..(Len(q) - 1), inbox'[s][i].op = "resume"
        PROVE  \E j \in 1..(i - 1) : inbox'[s][j].op = "start"
    <2>1. i + 1 \in 1..Len(q) /\ q[i + 1].op = "resume"
      BY <1>2, <1>6
    <2>2. PICK j \in 1..i : q[j].op = "start"
      BY <1>2, <1>3, <2>1
    <2>3. j \in 2..i
      BY <1>2, <2>2
    <2>4. j - 1 \in 1..(i - 1) /\ inbox'[s][j - 1].op = "start"
      BY <1>2, <2>2, <2>3
    <2> QED  BY <2>4
  <1> QED  BY <1>2, <1>5, <1>6 DEF AwaitsStart, IsAt

\* A command of SimControl reaches every feed behind what was sent before.
LEMMA OrdersKeepBootInv ==
  ASSUME TypeOK, BootInv, ~ Cold, SimControlCalls
  PROVE  BootInv'
  <1>0. TypeOK'
    BY OrderType DEF SimControlCalls
  <1>a. UNCHANGED <<simActive, bootstraps>>
    BY DEF SimControlCalls, StartAll, StopAll, PauseKind, ResumeKind, SetRiderRate, SimsUntouched
  <1>b. starts' \in Nat
    BY <1>0, CallerAssumptions DEF TypeOK
  <1>1. UNCHANGED <<simActive, bootstraps>> /\ starts' \in Nat
    BY <1>a, <1>b
  <1> SUFFICES ASSUME NEW s \in MappingSims, bootstraps[s[2]] = 0 PROVE AwaitsStart(s)'
    BY <1>1 DEF BootInv
  <1>2. AwaitsStart(s) /\ s \in Sims
    BY DEF BootInv, Sims
  <1>3. \A f : s \in Everyone(f)
    <2>1. \A f : Members(f, "mapping") = MappingSims
      BY DEF Members
    <2> QED  BY <2>1 DEF Everyone, Kinds
  <1>4. ASSUME NEW c \in Commands, inbox'[s] = Append(inbox[s], c),
               c.op = "resume" => starts > 0, starts' > 0 => starts > 0 \/ c.op = "start"
        PROVE  AwaitsStart(s)'
    BY <1>1, <1>2, <1>4, AppendKeepsOrder
  <1>5. ASSUME inbox'[s] = inbox[s], starts' = starts PROVE AwaitsStart(s)'
    BY <1>1, <1>2, <1>5 DEF AwaitsStart, IsAt
  <1>6. ASSUME NEW targets, NEW c, SendTo(targets, c)
        PROVE  inbox'[s] = IF s \in targets THEN Append(inbox[s], c) ELSE inbox[s]
    BY <1>2, <1>6 DEF SendTo, Sends
  <1>7. starts \in Nat
    BY DEF TypeOK
  <1>8. ASSUME NEW d \in 0..MaxDrivers, NEW n \in 0..MaxRiders, NEW v \in Rates, StartAll(d, n, v)
        PROVE  AwaitsStart(s)'
    <2>1. s \notin RiderSims
      BY DEF MappingSims, RiderSims
    <2>2. inbox'[s] = Append(inbox[s], Command("start"))
      BY <1>2, <1>3, <1>8, <2>1 DEF StartAll, Sends
    <2> QED  BY <1>4, <2>2, CommandsAreTyped DEF Command
  <1>9. CASE StopAll
    <2>1. inbox'[s] = Append(inbox[s], Command("pause")) /\ starts' = starts
      BY <1>3, <1>6, <1>9 DEF StopAll
    <2> QED  BY <1>4, <2>1, CommandsAreTyped DEF Command
  <1>10. ASSUME NEW k \in Kinds, PauseKind(k) PROVE AwaitsStart(s)'
    <2>1. /\ starts' = starts
          /\ inbox'[s] = Append(inbox[s], Command("pause")) \/ inbox'[s] = inbox[s]
      BY <1>6, <1>10 DEF PauseKind
    <2> QED  BY <1>4, <1>5, <2>1, CommandsAreTyped DEF Command
  <1>11. ASSUME NEW k \in Kinds, ResumeKind(k) PROVE AwaitsStart(s)'
    <2>1. /\ starts' = starts
          /\ starts > 0
          /\ inbox'[s] = Append(inbox[s], Command("resume")) \/ inbox'[s] = inbox[s]
      BY <1>6, <1>11 DEF ResumeKind
    <2> QED  BY <1>4, <1>5, <2>1, CommandsAreTyped DEF Command
  <1>12. ASSUME NEW v \in Rates, SetRiderRate(v) PROVE AwaitsStart(s)'
    <2>1. s \notin Members(fleet, "rider")
      BY DEF Members, MappingSims, RiderSims
    <2>2. starts' = starts /\ inbox'[s] = inbox[s]
      BY <1>6, <1>12, <2>1 DEF SetRiderRate
    <2> QED  BY <1>5, <2>2
  <1> QED  BY <1>8, <1>9, <1>10, <1>11, <1>12 DEF SimControlCalls

\* A step of a simulator bootstraps its own feed, or takes a pause, or leaves
\* what BootInv speaks of alone.
LEMMA SimStepKeepsBootInv ==
  ASSUME TypeOK, BootInv, NEW u \in Sims, SimStep(u), UNCHANGED <<fleet, starts, ordered>>
  PROVE  BootInv'
  <1> USE DEF TypeOK, SimTypeOK
  <1> SUFFICES ASSUME NEW s \in MappingSims, bootstraps'[s[2]] = 0 PROVE AwaitsStart(s)'
    BY DEF BootInv
  <1>0. s \in Sims /\ s[2] \in Regions
    BY RegionsOfSims DEF Sims
  <1>1. bootstraps[s[2]] = 0
    <2>1. CASE StartMapping(u)
      <3>1. bootstraps' = [bootstraps EXCEPT ![u[2]] = IF simActive[u] THEN @ ELSE @ + 1]
        BY <2>1 DEF StartMapping
      <3>2. u[2] \in Regions
        BY <2>1, RegionsOfSims DEF StartMapping
      <3> QED  BY <1>0, <3>1, <3>2
    <2>2. CASE bootstraps' = bootstraps
      BY <2>2
    <2> QED  BY <2>1, <2>2 DEF SimStep, SimTakesCommand, SimContinues, StartRider, SetRate,
                StartDriver, Pause, Resume, TickBegins, DriverOnline, TickEnds
  <1>2. AwaitsStart(s)
    BY <1>1 DEF BootInv
  <1>3. CASE u # s
    <2>1. simActive'[s] = simActive[s]
      BY <1>0, <1>3, OthersUntouched
    <2>2. inbox'[s] = inbox[s]
      BY <1>0, <1>3 DEF SimStep, SimTakesCommand, SimContinues, Takes, StartRider, SetRate,
         StartDriver, StartMapping, Pause, Resume, TickBegins, DriverOnline, TickEnds
    <2> QED  BY <1>2, <2>1, <2>2 DEF AwaitsStart, IsAt
  <1>4. CASE u = s
    <2>0. s \notin RiderSims /\ s \notin DriverSims
      BY DEF RiderSims, DriverSims, MappingSims
    <2>1. CASE StartMapping(s)
      <3>1. bootstraps'[s[2]] = bootstraps[s[2]] + 1
        BY <1>0, <1>2, <2>1 DEF StartMapping, AwaitsStart
      <3> QED  BY <1>0, <1>1, <3>1
    <2>2. CASE Pause(s)
      <3>1. /\ inbox[s] # << >>
            /\ Head(inbox[s]).op = "pause"
            /\ inbox'[s] = Tail(inbox[s])
            /\ ~ simActive'[s]
        BY <1>0, <2>2 DEF Pause, Takes
      <3> QED  BY <1>0, <1>2, <3>1, TailKeepsOrder
    <2>3. CASE Resume(s)
      <3>1. inbox[s] # << >> /\ Head(inbox[s]).op = "resume" /\ inbox[s] \in Seq(Commands)
        BY <1>0, <2>3 DEF Resume, Takes
      <3>2. Len(inbox[s]) \in Nat \ {0} /\ Head(inbox[s]) = inbox[s][1]
        BY <3>1
      <3>a. 1 \in 1..Len(inbox[s]) /\ IsAt(s, 1, "resume")
        BY <3>1, <3>2 DEF IsAt
      <3>b. \A i \in 1..Len(inbox[s]) :
              IsAt(s, i, "resume") => \E j \in 1..(i - 1) : IsAt(s, j, "start")
        BY <1>2 DEF AwaitsStart
      <3>3. \E j \in 1..(1 - 1) : IsAt(s, j, "start")
        BY <3>a, <3>b
      <3> QED  BY <3>3
    <2>4. CASE TickBegins(s) \/ SimContinues(s)
      <3>1. UNCHANGED <<inbox, simActive>>
        BY <2>4 DEF TickBegins, SimContinues, DriverOnline, TickEnds
      <3> QED  BY <1>2, <3>1 DEF AwaitsStart, IsAt
    <2> QED  BY <1>4, <2>0, <2>1, <2>2, <2>3, <2>4
             DEF SimStep, SimTakesCommand, StartRider, SetRate, StartDriver
  <1> QED  BY <1>3, <1>4

\* Unless someone resumes a fleet that was never started, a region whose feed is
\* on has had its price refresh and its monitoring started (FeedIsBootstrapped).
THEOREM FeedsAreBootstrapped ==
  ASSUME ~ Cold
  PROVE  Spec => []FeedIsBootstrapped
  <1>1. Init => BootInv
    BY DEF Init, SimInit, BootInv, AwaitsStart, MappingSims, Sims
  <1>2. TypeOK /\ BootInv /\ [Next]_vars => BootInv'
    <2> SUFFICES ASSUME TypeOK, BootInv, [Next]_vars PROVE BootInv'
      OBVIOUS
    <2>1. CASE UNCHANGED vars
      BY <2>1 DEF vars, simVars, BootInv, AwaitsStart, IsAt
    <2> QED
      BY <2>1, OrdersKeepBootInv, SimStepKeepsBootInv DEF Next, SimControlCalls
  <1>3. TypeOK /\ BootInv => FeedIsBootstrapped
    BY RegionsOfSims DEF BootInv, AwaitsStart, FeedIsBootstrapped, TypeOK, SimTypeOK, Sims
  <1> QED  BY <1>1, <1>2, <1>3, FleetTypeCorrect, PTL DEF Spec

-----------------------------------------------------------------------------
(* Every driver that is online is counted.                                 *)

HasStart(q) == \E j \in 1..Len(q) : q[j].op = "start"
StartAhead(q) == \A i \in 1..Len(q) : q[i].op = "resume" => \E j \in 1..(i - 1) : q[j].op = "start"

LEMMA AppendOrder ==
  ASSUME NEW q \in Seq(Commands), NEW c \in Commands, StartAhead(q),
         c.op = "resume" => HasStart(q)
  PROVE  /\ StartAhead(Append(q, c))
         /\ HasStart(q) \/ c.op = "start" => HasStart(Append(q, c))
  <1> DEFINE t == Append(q, c)
  <1>1. /\ Len(t) = Len(q) + 1
        /\ t[Len(q) + 1] = c
        /\ \A i \in 1..Len(q) : t[i] = q[i]
        /\ Len(q) \in Nat
    OBVIOUS
  <1> HIDE DEF t
  <1>2. HasStart(q) \/ c.op = "start" => HasStart(t)
    BY <1>1 DEF HasStart
  <1>3. ASSUME NEW i \in 1..Len(t), t[i].op = "resume"
        PROVE  \E j \in 1..(i - 1) : t[j].op = "start"
    <2>1. CASE i = Len(q) + 1
      <3>1. PICK j \in 1..Len(q) : q[j].op = "start"
        BY <1>1, <1>3, <2>1 DEF HasStart
      <3> QED  BY <1>1, <2>1, <3>1
    <2>2. CASE i \in 1..Len(q)
      <3>1. PICK j \in 1..(i - 1) : q[j].op = "start"
        BY <1>1, <1>3, <2>2 DEF StartAhead
      <3>2. j \in 1..Len(q)
        BY <1>1, <2>2, <3>1
      <3> QED  BY <1>1, <3>1, <3>2
    <2> QED  BY <1>1, <2>1, <2>2
  <1> QED  BY <1>2, <1>3 DEF StartAhead, t

LEMMA TailOrder ==
  ASSUME NEW q \in Seq(Commands), q # << >>, StartAhead(q), Head(q).op # "start"
  PROVE  /\ Head(q).op # "resume"
         /\ StartAhead(Tail(q))
         /\ HasStart(q) => HasStart(Tail(q))
  <1>1. Head(q) = q[1] /\ Len(q) \in Nat \ {0}
    OBVIOUS
  <1>2. Len(Tail(q)) = Len(q) - 1 /\ \A i \in 1..(Len(q) - 1) : Tail(q)[i] = q[i + 1]
    OBVIOUS
  <1>3. Head(q).op # "resume"
    BY <1>1 DEF StartAhead
  <1>4. ASSUME NEW j \in 2..Len(q), q[j].op = "start"
        PROVE  j - 1 \in 1..(Len(q) - 1) /\ Tail(q)[j - 1].op = "start"
    <2>1. j - 1 \in 1..(Len(q) - 1) /\ (j - 1) + 1 = j
      BY <1>1
    <2>2. Tail(q)[j - 1] = q[(j - 1) + 1]
      BY <1>2, <2>1
    <2> QED  BY <1>4, <2>1, <2>2
  <1>5. HasStart(q) => HasStart(Tail(q))
    <2> SUFFICES ASSUME HasStart(q) PROVE HasStart(Tail(q))
      OBVIOUS
    <2>1. PICK j \in 1..Len(q) : q[j].op = "start"
      BY DEF HasStart
    <2>2. j \in 2..Len(q)
      BY <1>1, <2>1
    <2> QED  BY <1>2, <1>4, <2>1, <2>2 DEF HasStart
  <1>6. ASSUME NEW i \in 1..Len(Tail(q)), Tail(q)[i].op = "resume"
        PROVE  \E j \in 1..(i - 1) : Tail(q)[j].op = "start"
    <2>1. i + 1 \in 1..Len(q) /\ q[i + 1].op = "resume"
      BY <1>1, <1>2, <1>6
    <2>2. PICK j \in 1..((i + 1) - 1) : q[j].op = "start"
      BY <2>1 DEF StartAhead
    <2>3. j \in 2..i
      BY <1>1, <2>2
    <2>4. j \in 2..Len(q) /\ j - 1 \in 1..(i - 1)
      BY <1>1, <2>1, <2>3
    <2> QED  BY <1>4, <2>2, <2>4
  <1> QED  BY <1>3, <1>5, <1>6 DEF StartAhead

\* A driver that was not counted yet is about to be, or offline: a start is on
\* its way if SimControl counts it, and no resume is ahead of it.
DriverAwaits(s) ==
  \/ busy[s] = "start"
  \/ /\ ~ simActive[s]
     /\ s \in Members(fleet, "driver") => HasStart(inbox[s])
     /\ StartAhead(inbox[s])

CountedIn(C, r) == {s \in C : Home(s) = r}

Counted(C) ==
  /\ \A r \in Regions : supply[r] >= Cardinality(CountedIn(C, r))
  /\ \A s \in DriverSims \ C : DriverAwaits(s)

SupplyInv == \E C \in SUBSET DriverSims : Counted(C)

LEMMA DriversAreFinite == IsFiniteSet(DriverSims)
  <1> DEFINE D == 0..(MaxDrivers - 1)
             f == [i \in D |-> <<"driver", i>>]
  <1>1. IsFiniteSet(D)
    BY FS_Interval, FleetIsFinite
  <1>2. f \in Surjection(D, DriverSims)
    BY DEF Surjection, DriverSims
  <1> QED  BY <1>1, <1>2, FS_Surjection

LEMMA CountedFinite ==
  ASSUME NEW C \in SUBSET DriverSims, NEW r
  PROVE  IsFiniteSet(CountedIn(C, r)) /\ Cardinality(CountedIn(C, r)) \in Nat
  <1>1. CountedIn(C, r) \in SUBSET DriverSims
    BY DEF CountedIn
  <1> QED  BY <1>1, DriversAreFinite, FS_Subset, FS_CardinalityType

LEMMA InitSupply == Init => SupplyInv
  <1> SUFFICES ASSUME Init PROVE Counted({})
    BY DEF SupplyInv
  <1>1. \A r \in Regions : CountedIn({}, r) = {}
    BY DEF CountedIn
  <1>2. ASSUME NEW s \in DriverSims PROVE DriverAwaits(s)
    <2>1. s \in Sims /\ inbox[s] = << >> /\ simActive[s] = FALSE
      BY DEF Init, SimInit, Sims
    <2>2. s \notin Members(fleet, "driver")
      <3>1. s[2] \in Nat /\ fleet.drivers = 0
        BY FleetIsFinite DEF Init, DriverSims
      <3> QED  BY <3>1 DEF Members
    <2> QED  BY <2>1, <2>2 DEF DriverAwaits, StartAhead
  <1>3. \A r \in Regions : supply[r] = 0 /\ Cardinality(CountedIn({}, r)) = 0
    BY <1>1, FS_EmptySet DEF Init, SimInit
  <1> QED  BY <1>2, <1>3 DEF Counted

\* What SimControl sends reaches a driver behind what it was sent before.
LEMMA OrdersKeepSupply ==
  ASSUME TypeOK, SupplyInv, SimControlCalls
  PROVE  SupplyInv'
  <1>1. UNCHANGED <<simActive, busy, supply>>
    BY DEF SimControlCalls, StartAll, StopAll, PauseKind, ResumeKind, SetRiderRate, SimsUntouched
  <1>2. PICK C \in SUBSET DriverSims : Counted(C)
    BY DEF SupplyInv
  <1> SUFFICES ASSUME NEW s \in DriverSims \ C, busy[s] # "start" PROVE DriverAwaits(s)'
    BY <1>1, <1>2 DEF SupplyInv, Counted, DriverAwaits
  <1>3. /\ ~ simActive[s]
        /\ s \in Members(fleet, "driver") => HasStart(inbox[s])
        /\ StartAhead(inbox[s])
        /\ s \in Sims
        /\ inbox[s] \in Seq(Commands)
    BY <1>2 DEF Counted, DriverAwaits, Sims, TypeOK, SimTypeOK
  <1>4. ASSUME NEW c \in Commands, inbox'[s] = Append(inbox[s], c), c.op = "resume" => HasStart(inbox[s]),
               s \in Members(fleet', "driver") => s \in Members(fleet, "driver") \/ c.op = "start"
        PROVE  DriverAwaits(s)'
    BY <1>1, <1>3, <1>4, AppendOrder DEF DriverAwaits
  <1>5. ASSUME inbox'[s] = inbox[s],
               s \in Members(fleet', "driver") => s \in Members(fleet, "driver")
        PROVE  DriverAwaits(s)'
    BY <1>1, <1>3, <1>5 DEF DriverAwaits
  <1>6. ASSUME NEW targets, NEW c, SendTo(targets, c)
        PROVE  inbox'[s] = IF s \in targets THEN Append(inbox[s], c) ELSE inbox[s]
    BY <1>3, <1>6 DEF SendTo, Sends
  <1>7. \A k \in Kinds : s \in Members(fleet, k) => k = "driver"
    BY DEF Kinds, Members, DriverSims, RiderSims, MappingSims
  <1>8. \A f : s \in Members(f, "driver") <=> s \in Everyone(f)
    <2>1. \A f : s \notin Members(f, "rider") /\ s \notin Members(f, "mapping")
      BY DEF Members, DriverSims, RiderSims, MappingSims
    <2> QED  BY <2>1 DEF Everyone, Kinds
  <1>9. ASSUME NEW d \in 0..MaxDrivers, NEW n \in 0..MaxRiders, NEW v \in Rates, StartAll(d, n, v)
        PROVE  DriverAwaits(s)'
    <2> DEFINE f == [drivers |-> d, riders |-> n, rider_rate |-> v]
    <2>1. s \notin RiderSims
      BY DEF DriverSims, RiderSims
    <2>2. fleet' = f
      BY <1>9 DEF StartAll
    <2>3. inbox'[s] = IF s \in Everyone(f) THEN Append(inbox[s], Command("start")) ELSE inbox[s]
      BY <1>3, <1>9, <2>1 DEF StartAll, Sends
    <2>4. Command("start") \in Commands /\ Command("start").op = "start"
      BY CommandsAreTyped DEF Command
    <2> HIDE DEF f
    <2>5. CASE s \in Everyone(f)
      BY <1>4, <2>3, <2>4, <2>5
    <2>6. CASE s \notin Everyone(f)
      BY <1>5, <1>8, <2>2, <2>3, <2>6
    <2> QED  BY <2>5, <2>6
  <1>10. CASE StopAll
    <2>1. fleet' = fleet /\ (inbox'[s] = Append(inbox[s], Command("pause")) \/ inbox'[s] = inbox[s])
      BY <1>6, <1>10 DEF StopAll
    <2> QED  BY <1>4, <1>5, <2>1, CommandsAreTyped DEF Command
  <1>11. ASSUME NEW k \in Kinds, PauseKind(k) PROVE DriverAwaits(s)'
    <2>1. fleet' = fleet /\ (inbox'[s] = Append(inbox[s], Command("pause")) \/ inbox'[s] = inbox[s])
      BY <1>6, <1>11 DEF PauseKind
    <2> QED  BY <1>4, <1>5, <2>1, CommandsAreTyped DEF Command
  <1>12. ASSUME NEW k \in Kinds, ResumeKind(k) PROVE DriverAwaits(s)'
    <2>1. /\ fleet' = fleet
          /\ \/ s \in Members(fleet, "driver") /\ inbox'[s] = Append(inbox[s], Command("resume"))
             \/ inbox'[s] = inbox[s]
      BY <1>6, <1>7, <1>12 DEF ResumeKind
    <2> QED  BY <1>3, <1>4, <1>5, <2>1, CommandsAreTyped DEF Command
  <1>13. ASSUME NEW v \in Rates, SetRiderRate(v) PROVE DriverAwaits(s)'
    <2>1. inbox'[s] = inbox[s]
      BY <1>6, <1>7, <1>13 DEF SetRiderRate, Kinds
    <2>2. Members(fleet', "driver") = Members(fleet, "driver")
      BY <1>13 DEF SetRiderRate, Members, TypeOK
    <2> QED  BY <1>5, <2>1, <2>2
  <1> QED  BY <1>9, <1>10, <1>11, <1>12, <1>13 DEF SimControlCalls

\* A driver that comes online is counted; whatever else a simulator does leaves
\* the others as they are.
LEMMA OnlineIsCounted ==
  ASSUME TypeOK, NEW C \in SUBSET DriverSims, Counted(C), NEW u \in DriverSims, DriverOnline(u),
         fleet' = fleet
  PROVE  Counted(C \cup {u})'
  <1> DEFINE D == C \cup {u}
             h == Home(u)
  <1>1. u \in Sims /\ h \in Regions
    BY RegionsOfSims DEF Sims
  <1>2. supply' = [supply EXCEPT ![h] = @ + 1] /\ inbox' = inbox /\ simActive' = simActive
        /\ \A s \in Sims : s # u => busy'[s] = busy[s]
    BY <1>1 DEF DriverOnline, TypeOK, SimTypeOK
  <1>3. ASSUME NEW r \in Regions PROVE supply'[r] >= Cardinality(CountedIn(D, r))
    <2>1. supply[r] \in Nat /\ supply[r] >= Cardinality(CountedIn(C, r))
          /\ IsFiniteSet(CountedIn(C, r)) /\ Cardinality(CountedIn(C, r)) \in Nat
      BY CountedFinite DEF Counted, TypeOK, SimTypeOK
    <2>2. CASE r = h
      <3>1. CountedIn(D, r) = CountedIn(C, r) \cup {u}
        BY <2>2 DEF CountedIn
      <3>2. Cardinality(CountedIn(D, r)) <= Cardinality(CountedIn(C, r)) + 1
        <4> DEFINE S == CountedIn(C, r)
        <4>1. IsFiniteSet(S) /\ Cardinality(S) \in Nat
          BY <2>1
        <4> HIDE DEF S
        <4>2. Cardinality(S \cup {u}) = IF u \in S THEN Cardinality(S) ELSE Cardinality(S) + 1
          BY <4>1, FS_AddElement
        <4>3. Cardinality(S \cup {u}) <= Cardinality(S) + 1
          BY <4>1, <4>2
        <4> QED  BY <3>1, <4>3 DEF S
      <3>3. supply'[r] = supply[r] + 1
        <4> HIDE DEF h
        <4> QED  BY <1>1, <1>2, <2>2 DEF TypeOK, SimTypeOK
      <3>4. Cardinality(CountedIn(D, r)) \in Nat
        BY CountedFinite
      <3> QED  BY <2>1, <3>2, <3>3, <3>4
    <2>3. CASE r # h
      <3>1. CountedIn(D, r) = CountedIn(C, r)
        BY <2>3 DEF CountedIn
      <3>2. supply'[r] = supply[r]
        <4> HIDE DEF h
        <4> QED  BY <1>2, <2>3 DEF TypeOK, SimTypeOK
      <3> QED  BY <2>1, <3>1, <3>2
    <2> QED  BY <2>2, <2>3
  <1>4. ASSUME NEW s \in DriverSims \ D PROVE DriverAwaits(s)'
    <2>1. DriverAwaits(s) /\ s # u /\ s \in Sims
      BY DEF Counted, Sims
    <2> QED  BY <1>2, <2>1 DEF DriverAwaits
  <1> QED  BY <1>3, <1>4 DEF Counted, CountedIn

LEMMA SimStepKeepsSupply ==
  ASSUME TypeOK, SupplyInv, NEW u \in Sims, SimStep(u), UNCHANGED <<fleet, starts, ordered>>
  PROVE  SupplyInv'
  <1> USE DEF TypeOK, SimTypeOK
  <1>1. PICK C \in SUBSET DriverSims : Counted(C)
    BY DEF SupplyInv
  <1>2. CASE DriverOnline(u) /\ u \in DriverSims
    <2>1. Counted(C \cup {u})'
      BY <1>1, <1>2, OnlineIsCounted
    <2> QED  BY <1>2, <2>1 DEF SupplyInv
  <1>3. CASE DriverOnline(u) /\ u \notin DriverSims
    <2>1. ASSUME NEW r \in Regions PROVE supply'[r] >= supply[r]
      <3> DEFINE h == Home(u)
      <3>1. supply' = [supply EXCEPT ![h] = @ + 1]
        BY <1>3 DEF DriverOnline
      <3> HIDE DEF h
      <3> QED  BY <3>1
    <2>2. supply' \in [Regions -> Nat]
      BY SimStepType
    <2>3. \A r \in Regions : Cardinality(CountedIn(C, r)) \in Nat
      BY CountedFinite
    <2>4. \A r \in Regions : supply'[r] >= Cardinality(CountedIn(C, r))
      BY <1>1, <2>1, <2>2, <2>3 DEF Counted
    <2>5. \A s \in DriverSims \ C : DriverAwaits(s)'
      BY <1>1, <1>3 DEF DriverOnline, Counted, DriverAwaits
    <2> QED  BY <2>4, <2>5 DEF SupplyInv, Counted, CountedIn
  <1>4. ASSUME supply' = supply, \A s \in DriverSims \ C : DriverAwaits(s)' PROVE SupplyInv'
    BY <1>1, <1>4 DEF SupplyInv, Counted, CountedIn
  <1>5. CASE ~ DriverOnline(u)
    <2>1. supply' = supply
      BY <1>5 DEF SimStep, SimTakesCommand, SimContinues, StartRider, SetRate, StartDriver,
         StartMapping, Pause, Resume, TickBegins, TickEnds
    <2>2. ASSUME NEW s \in DriverSims \ C PROVE DriverAwaits(s)'
      <3>0. DriverAwaits(s) /\ s \in Sims /\ s \notin RiderSims /\ s \notin MappingSims
        BY <1>1 DEF Counted, Sims, DriverSims, RiderSims, MappingSims
      <3>1. CASE u # s
        <4>1. simActive'[s] = simActive[s] /\ busy'[s] = busy[s]
          BY <3>0, <3>1, OthersUntouched
        <4>2. inbox'[s] = inbox[s]
          BY <3>0, <3>1 DEF SimStep, SimTakesCommand, SimContinues, Takes, StartRider, SetRate,
             StartDriver, StartMapping, Pause, Resume, TickBegins, DriverOnline, TickEnds
        <4> QED  BY <3>0, <4>1, <4>2 DEF DriverAwaits
      <3>2. CASE u = s /\ StartDriver(s)
        BY <3>0, <3>2 DEF StartDriver, Takes, KeyFree, DriverAwaits
      <3>3. CASE u = s /\ (Pause(s) \/ Resume(s))
        <4>1. /\ busy[s] = "none"
              /\ inbox[s] \in Seq(Commands) /\ inbox[s] # << >>
              /\ inbox'[s] = Tail(inbox[s])
              /\ Head(inbox[s]).op # "start"
              /\ Resume(s) => Head(inbox[s]).op = "resume"
              /\ Pause(s) => ~ simActive'[s]
          BY <3>0, <3>3 DEF Pause, Resume, Takes, KeyFree
        <4>2. StartAhead(inbox[s]) /\ (s \in Members(fleet, "driver") => HasStart(inbox[s]))
          BY <3>0, <4>1 DEF DriverAwaits
        <4> QED  BY <3>3, <4>1, <4>2, TailOrder DEF DriverAwaits
      <3>4. CASE u = s /\ TickBegins(s)
        BY <3>0, <3>4 DEF TickBegins, KeyFree, DriverAwaits
      <3>5. CASE u = s /\ TickEnds(s)
        BY <3>0, <3>5 DEF TickEnds, DriverAwaits
      <3> QED  BY <1>5, <3>0, <3>1, <3>2, <3>3, <3>4, <3>5
               DEF SimStep, SimTakesCommand, SimContinues, StartRider, SetRate, StartMapping
    <2> QED  BY <1>4, <2>1, <2>2
  <1> QED  BY <1>2, <1>3, <1>5

\* No driver that is online goes uncounted, for any fleets, whoever resumes or
\* shrinks them (SupplyCoversDrivers).
THEOREM SupplyIsCounted == Spec => []SupplyCoversDrivers
  <1>1. TypeOK /\ SupplyInv /\ [Next]_vars => SupplyInv'
    <2> SUFFICES ASSUME TypeOK, SupplyInv, [Next]_vars PROVE SupplyInv'
      OBVIOUS
    <2>1. CASE UNCHANGED vars
      BY <2>1 DEF vars, simVars, SupplyInv, Counted, CountedIn, DriverAwaits
    <2> QED
      BY <2>1, OrdersKeepSupply, SimStepKeepsSupply DEF Next, SimControlCalls
  <1>2. TypeOK /\ SupplyInv => SupplyCoversDrivers
    <2> SUFFICES ASSUME TypeOK, SupplyInv, NEW r \in Regions
                 PROVE  supply[r] >= Cardinality({s \in DriverSims : Home(s) = r /\ simActive[s] /\ busy[s] # "start"})
      BY DEF SupplyCoversDrivers
    <2> DEFINE On == {s \in DriverSims : Home(s) = r /\ simActive[s] /\ busy[s] # "start"}
    <2>1. PICK C \in SUBSET DriverSims : Counted(C)
      BY DEF SupplyInv
    <2>2. On \in SUBSET CountedIn(C, r)
      BY <2>1 DEF Counted, CountedIn, DriverAwaits
    <2>3. /\ Cardinality(On) <= Cardinality(CountedIn(C, r))
          /\ IsFiniteSet(On)
          /\ Cardinality(CountedIn(C, r)) \in Nat
      BY <2>2, CountedFinite, FS_Subset
    <2>4. Cardinality(On) \in Nat
      BY <2>3, FS_CardinalityType
    <2>5. supply[r] \in Nat /\ supply[r] >= Cardinality(CountedIn(C, r))
      BY <2>1 DEF Counted, TypeOK, SimTypeOK
    <2> QED  BY <2>3, <2>4, <2>5
  <1> QED  BY <1>1, <1>2, InitSupply, FleetTypeCorrect, PTL DEF Spec

-----------------------------------------------------------------------------
(* Every rider ends at the fleet's rate.                                   *)

\* The last command that carries a rate carries v, or none does and v is held.
SettlesAt(q, held, v) ==
  \/ \E k \in Carriers(q) : q[k].rate = v /\ \A j \in Carriers(q) : j <= k
  \/ Carriers(q) = {} /\ held = v

RateInv ==
  \A i \in Riders : i < fleet.riders =>
    SettlesAt(inbox[<<"rider", i>>], rate[i], fleet.rider_rate)

\* RateInv is RidersEndAtFleetRate, with the last command named.
LEMMA SettledRate == RateInv => RidersEndAtFleetRate
  <1> SUFFICES ASSUME RateInv, NEW i \in Riders, i < fleet.riders
               PROVE  RateToBe(i) = fleet.rider_rate
    BY DEF RidersEndAtFleetRate
  <1> DEFINE q == inbox[<<"rider", i>>]
  <1>1. SettlesAt(q, rate[i], fleet.rider_rate)
    BY DEF RateInv
  <1>2. RateToBe(i) = IF Carriers(q) = {} THEN rate[i] ELSE q[Max(Carriers(q))].rate
    BY DEF RateToBe
  <1> HIDE DEF q
  <1>3. ASSUME NEW k \in Carriers(q), q[k].rate = fleet.rider_rate,
               \A j \in Carriers(q) : j <= k
        PROVE  RateToBe(i) = fleet.rider_rate
    <2>1. Carriers(q) \subseteq Int
      BY DEF Carriers
    <2> DEFINE m == Max(Carriers(q))
    <2>2. m \in Carriers(q) /\ \A j \in Carriers(q) : m >= j
      BY <1>3, <2>1 DEF Max
    <2>3. m = k
      <3> HIDE DEF m
      <3> QED  BY <1>3, <2>1, <2>2
    <2> QED  BY <1>2, <1>3, <2>3
  <1> QED  BY <1>1, <1>2, <1>3 DEF SettlesAt

\* A command sent behind the others settles the rate it carries.
LEMMA SendSettles ==
  ASSUME NEW q \in Seq(Commands), NEW c \in Commands, c.op \in {"start", "set_rate"}, NEW held
  PROVE  SettlesAt(Append(q, c), held, c.rate)
  <1>1. /\ Len(q) \in Nat
        /\ Len(Append(q, c)) = Len(q) + 1
        /\ Append(q, c)[Len(q) + 1] = c
    OBVIOUS
  <1>2. Len(q) + 1 \in Carriers(Append(q, c)) /\ \A j \in Carriers(Append(q, c)) : j <= Len(q) + 1
    BY <1>1 DEF Carriers
  <1> QED  BY <1>1, <1>2 DEF SettlesAt

\* A pause or a resume sent behind the others changes nothing of it.
LEMMA OtherSendsKeep ==
  ASSUME NEW q \in Seq(Commands), NEW c \in Commands, c.op \notin {"start", "set_rate"},
         NEW held, NEW v, SettlesAt(q, held, v)
  PROVE  SettlesAt(Append(q, c), held, v)
  <1>1. /\ Len(q) \in Nat
        /\ Len(Append(q, c)) = Len(q) + 1
        /\ Append(q, c)[Len(q) + 1] = c
        /\ \A k \in 1..Len(q) : Append(q, c)[k] = q[k]
    OBVIOUS
  <1>2. Carriers(Append(q, c)) = Carriers(q)
    BY <1>1 DEF Carriers
  <1>3. \A k \in Carriers(q) : Append(q, c)[k] = q[k]
    BY <1>1 DEF Carriers
  <1> QED  BY <1>2, <1>3 DEF SettlesAt

\* A rider that takes the head of its commands, with the rate if it carries one,
\* stays settled.
LEMMA TakingKeeps ==
  ASSUME NEW q \in Seq(Commands), q # << >>, NEW held, NEW heldNext, NEW v,
         SettlesAt(q, held, v),
         heldNext = IF Head(q).op \in {"start", "set_rate"} THEN Head(q).rate ELSE held
  PROVE  SettlesAt(Tail(q), heldNext, v)
  <1>1. /\ Len(q) \in Nat \ {0}
        /\ Len(Tail(q)) = Len(q) - 1
        /\ Head(q) = q[1]
        /\ \A k \in 1..(Len(q) - 1) : Tail(q)[k] = q[k + 1]
    OBVIOUS
  <1>2. \A k \in Carriers(q) : k # 1 => k - 1 \in Carriers(Tail(q)) /\ Tail(q)[k - 1] = q[k]
    <2> SUFFICES ASSUME NEW k \in 2..Len(q), q[k].op \in {"start", "set_rate"}
                 PROVE  k - 1 \in Carriers(Tail(q)) /\ Tail(q)[k - 1] = q[k]
      BY <1>1 DEF Carriers
    <2>1. k - 1 \in 1..(Len(q) - 1) /\ (k - 1) + 1 = k
      BY <1>1
    <2>2. Tail(q)[k - 1] = q[(k - 1) + 1]
      BY <1>1, <2>1
    <2> QED  BY <1>1, <2>1, <2>2 DEF Carriers
  <1>3. \A k \in Carriers(Tail(q)) : k + 1 \in Carriers(q) /\ k \in Nat \ {0}
    BY <1>1 DEF Carriers
  <1>4. 1 \in Carriers(q) <=> Head(q).op \in {"start", "set_rate"}
    BY <1>1 DEF Carriers
  <1>5. Carriers(q) \subseteq Nat
    BY DEF Carriers
  <1>6. ASSUME NEW k \in Carriers(q), q[k].rate = v, \A j \in Carriers(q) : j <= k
        PROVE  SettlesAt(Tail(q), heldNext, v)
    <2>1. CASE k = 1
      <3>1. Carriers(Tail(q)) = {}
        <4> SUFFICES ASSUME NEW j \in Carriers(Tail(q)) PROVE FALSE
          OBVIOUS
        <4>1. j + 1 <= 1 /\ j \in Nat \ {0}
          BY <1>3, <1>6, <2>1
        <4> QED  BY <4>1
      <3> QED  BY <1>1, <1>4, <1>6, <2>1, <3>1 DEF SettlesAt
    <2>2. CASE k # 1
      <3>1. k - 1 \in Carriers(Tail(q)) /\ Tail(q)[k - 1] = q[k]
        BY <1>2, <1>6, <2>2
      <3>2. \A j \in Carriers(Tail(q)) : j <= k - 1
        BY <1>3, <1>5, <1>6
      <3> QED  BY <1>6, <3>1, <3>2 DEF SettlesAt
    <2> QED  BY <2>1, <2>2
  <1>7. CASE Carriers(q) = {} /\ held = v
    <2>1. Carriers(Tail(q)) = {} /\ heldNext = v
      BY <1>3, <1>4, <1>7
    <2> QED  BY <2>1 DEF SettlesAt
  <1> QED  BY <1>6, <1>7 DEF SettlesAt

LEMMA InitRate == Init => RateInv
  BY FleetIsFinite DEF Init, RateInv, Riders

\* What SimControl orders settles every rider of its fleet at the rate it saves.
LEMMA OrdersKeepRate ==
  ASSUME TypeOK, RateInv, SimControlCalls
  PROVE  RateInv'
  <1>0. TypeOK' /\ rate' = rate
    BY OrderType DEF SimControlCalls, StartAll, StopAll, PauseKind, ResumeKind, SetRiderRate,
       SimsUntouched
  <1> SUFFICES ASSUME NEW i \in Riders, i < fleet'.riders
               PROVE  SettlesAt(inbox'[<<"rider", i>>], rate[i], fleet'.rider_rate)
    BY <1>0 DEF RateInv
  <1> DEFINE s == <<"rider", i>>
             q == inbox[s]
  <1>1. s \in Sims /\ s \in RiderSims /\ s[2] = i
    BY DEF Sims, RiderSims
  <1>2. q \in Seq(Commands)
    BY <1>1 DEF TypeOK, SimTypeOK
  <1>3. \A f : i < f.riders => s \in Members(f, "rider") /\ s \in Everyone(f)
    <2>1. \A f : i < f.riders => s \in Members(f, "rider")
      BY <1>1 DEF Members
    <2> QED  BY <2>1 DEF Everyone, Kinds
  <1>4. ASSUME NEW targets, NEW c, SendTo(targets, c)
        PROVE  inbox'[s] = IF s \in targets THEN Append(q, c) ELSE q
    BY <1>1, <1>4 DEF SendTo, Sends
  <1>5. ASSUME NEW c \in Commands, c.op \notin {"start", "set_rate"}, fleet' = fleet,
               NEW targets, SendTo(targets, c)
        PROVE  SettlesAt(inbox'[s], rate[i], fleet'.rider_rate)
    <2>1. SettlesAt(q, rate[i], fleet.rider_rate)
      BY <1>5 DEF RateInv
    <2>2. inbox'[s] = Append(q, c) \/ inbox'[s] = q
      BY <1>4, <1>5
    <2> HIDE DEF q, s
    <2> QED  BY <1>2, <1>5, <2>1, <2>2, OtherSendsKeep
  <1>6. ASSUME NEW op \in {"start", "set_rate"}, NEW v \in Rates, fleet'.rider_rate = v,
               inbox'[s] = Append(q, RateCommand(op, v))
        PROVE  SettlesAt(inbox'[s], rate[i], fleet'.rider_rate)
    <2>1. RateCommand(op, v) \in Commands /\ RateCommand(op, v).op = op /\ RateCommand(op, v).rate = v
      BY <1>6, CommandsAreTyped DEF RateCommand
    <2> HIDE DEF q, s
    <2> QED  BY <1>2, <1>6, <2>1, SendSettles
  <1>7. ASSUME NEW d \in 0..MaxDrivers, NEW n \in 0..MaxRiders, NEW v \in Rates, StartAll(d, n, v)
        PROVE  SettlesAt(inbox'[s], rate[i], fleet'.rider_rate)
    <2>1. fleet' = [drivers |-> d, riders |-> n, rider_rate |-> v]
      BY <1>7 DEF StartAll
    <2>2. s \in Everyone(fleet')
      BY <1>3
    <2>3. inbox'[s] = Append(q, RateCommand("start", v))
      BY <1>1, <1>7, <2>1, <2>2 DEF StartAll, Sends
    <2> QED  BY <1>6, <2>1, <2>3
  <1>8. ASSUME NEW v \in Rates, SetRiderRate(v)
        PROVE  SettlesAt(inbox'[s], rate[i], fleet'.rider_rate)
    <2>1. fleet'.rider_rate = v /\ fleet'.riders = fleet.riders
      BY <1>8 DEF SetRiderRate, TypeOK
    <2>2. inbox'[s] = Append(q, RateCommand("set_rate", v))
      BY <1>3, <1>4, <1>8, <2>1 DEF SetRiderRate
    <2> QED  BY <1>6, <2>1, <2>2
  <1>9. CASE StopAll
    BY <1>5, <1>9, CommandsAreTyped DEF StopAll, Command
  <1>10. ASSUME NEW k \in Kinds, PauseKind(k) PROVE SettlesAt(inbox'[s], rate[i], fleet'.rider_rate)
    BY <1>5, <1>10, CommandsAreTyped DEF PauseKind, Command
  <1>11. ASSUME NEW k \in Kinds, ResumeKind(k) PROVE SettlesAt(inbox'[s], rate[i], fleet'.rider_rate)
    BY <1>5, <1>11, CommandsAreTyped DEF ResumeKind, Command
  <1> QED  BY <1>7, <1>8, <1>9, <1>10, <1>11 DEF SimControlCalls

\* A rider that works through its commands stays settled, and nobody else's
\* step touches it.
LEMMA SimStepKeepsRate ==
  ASSUME TypeOK, RateInv, NEW u \in Sims, SimStep(u), UNCHANGED <<fleet, starts, ordered>>
  PROVE  RateInv'
  <1> SUFFICES ASSUME NEW i \in Riders, i < fleet.riders
               PROVE  SettlesAt(inbox'[<<"rider", i>>], rate'[i], fleet.rider_rate)
    BY DEF RateInv
  <1> DEFINE s == <<"rider", i>>
             q == inbox[s]
  <1>1. s \in Sims /\ s \in RiderSims /\ s[2] = i
    BY DEF Sims, RiderSims
  <1>2. q \in Seq(Commands)
    BY <1>1 DEF TypeOK, SimTypeOK
  <1>3. SettlesAt(q, rate[i], fleet.rider_rate)
    BY DEF RateInv
  <1>4. u # s /\ u \in RiderSims => u[2] # i
    BY DEF RiderSims
  <1>5. CASE inbox'[s] = q /\ rate'[i] = rate[i]
    BY <1>3, <1>5
  <1>6. CASE u # s
    <2>1. inbox'[s] = q
      BY <1>1, <1>6 DEF TypeOK, SimTypeOK, SimStep, SimTakesCommand, SimContinues, Takes,
         StartRider, SetRate, StartDriver, StartMapping, Pause, Resume, TickBegins, DriverOnline,
         TickEnds
    <2>2. rate'[i] = rate[i]
      BY <1>4, <1>6 DEF TypeOK, SimTypeOK, SimStep, SimTakesCommand, SimContinues, TakesRate,
         StartRider, SetRate, StartDriver, StartMapping, Pause, Resume, TickBegins, DriverOnline,
         TickEnds
    <2> QED  BY <1>3, <2>1, <2>2
  <1>7. CASE u = s /\ SimTakesCommand(s)
    <2>1. q # << >> /\ inbox'[s] = Tail(q)
      BY <1>1, <1>7 DEF TypeOK, SimTypeOK, SimTakesCommand, Takes, StartRider, SetRate,
         StartDriver, StartMapping, Pause, Resume
    <2>2. rate'[i] = IF Head(q).op \in {"start", "set_rate"} THEN Head(q).rate ELSE rate[i]
      BY <1>1, <1>7 DEF TypeOK, SimTypeOK, SimTakesCommand, Takes, TakesRate, StartRider, SetRate,
         StartDriver, StartMapping, Pause, Resume, DriverSims, MappingSims
    <2> DEFINE held == rate'[i]
    <2>3. held = IF Head(q).op \in {"start", "set_rate"} THEN Head(q).rate ELSE rate[i]
      BY <2>2
    <2> HIDE DEF q, s, held
    <2>4. SettlesAt(Tail(q), held, fleet.rider_rate)
      BY <1>2, <1>3, <2>1, <2>3, TakingKeeps
    <2> QED  BY <2>1, <2>4 DEF held, s
  <1>8. CASE TickBegins(u) \/ SimContinues(u)
    BY <1>3, <1>8 DEF TickBegins, SimContinues, DriverOnline, TickEnds
  <1> QED  BY <1>6, <1>7, <1>8 DEF SimStep

\* Every rider of the fleet ends at the rate SimControl reports, however calls of
\* start_all and set_rider_rate overtake each other (RidersEndAtFleetRate).
THEOREM RatesArrive == Spec => []RidersEndAtFleetRate
  <1>1. TypeOK /\ RateInv /\ [Next]_vars => RateInv'
    <2> SUFFICES ASSUME TypeOK, RateInv, [Next]_vars PROVE RateInv'
      OBVIOUS
    <2>1. CASE UNCHANGED vars
      BY <2>1 DEF vars, simVars, RateInv
    <2> QED
      BY <2>1, OrdersKeepRate, SimStepKeepsRate DEF Next, SimControlCalls
  <1> QED  BY <1>1, InitRate, SettledRate, FleetTypeCorrect, PTL DEF Spec
=============================================================================
