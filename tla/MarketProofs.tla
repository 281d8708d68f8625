---------------------------- MODULE MarketProofs -----------------------------
(***************************************************************************)
(* Proofs about Market, for any regions, riders, readings and bounds: the  *)
(* sets accepted of each feature are kept in order, and the refresh loops  *)
(* neither end nor fork.  Each is inductive over the types of the          *)
(* variables it speaks of, and most actions leave those alone.             *)
(***************************************************************************)
EXTENDS Market, SequenceTheorems, FiniteSetTheorems, TLAPS

-----------------------------------------------------------------------------
(* Sets.                                                                   *)

Readings == Weather \cup Accidents \cup {"POISON"}
Answered == Readings \cup {"clear", 0}

setVars == <<value, version, setQueue, lastSet, accepted>>

SetTypes ==
  /\ setQueue \in [PointKeys -> Seq(Readings)]
  /\ version \in [PointKeys -> Nat]
  /\ accepted \in [PointKeys -> Nat]
  /\ value \in [PointKeys -> Answered]
  /\ lastSet \in [PointKeys -> Answered]

SetInv == SetTypes /\ UpdatesAreKept

LEMMA InitSets == Init => SetInv
<1>1. \A k \in PointKeys : Default(k) \in Answered
  BY DEF Default, Answered
<1>2. << >> \in Seq(Readings) /\ Len(<< >>) = 0
  OBVIOUS
<1> QED
  BY <1>1, <1>2 DEF Init, FeaturesInit, SetInv, SetTypes, UpdatesAreKept

\* A set that is accepted comes last in its queue.
LEMMA AcceptKeepsSets ==
  ASSUME SetInv, NEW k \in PointKeys, NEW v \in Settings(k), FeatureIsSet(k, v)
  PROVE  SetInv'
<1>1. v \in Readings
  BY DEF Settings, Readings
<1>2. setQueue[k] \in Seq(Readings)
  BY DEF SetInv, SetTypes
<1>3. SetTypes'
  <2>1. Append(setQueue[k], v) \in Seq(Readings) /\ v \in Answered
    BY <1>1, <1>2 DEF Answered
  <2> QED
    BY <2>1 DEF SetInv, SetTypes, FeatureIsSet, AcceptSet
<1>4. ASSUME NEW q \in PointKeys
      PROVE  /\ (version[q] + Len(setQueue[q]) = accepted[q])'
             /\ (lastSet[q] = IF setQueue[q] = << >> THEN value[q]
                              ELSE setQueue[q][Len(setQueue[q])])'
  <2>1. CASE q = k
    <3>1. setQueue'[q] = Append(setQueue[q], v) /\ lastSet'[q] = v /\ accepted'[q] = accepted[q] + 1
      BY <2>1 DEF SetInv, SetTypes, FeatureIsSet, AcceptSet
    <3>2. Len(setQueue'[q]) = Len(setQueue[q]) + 1 /\ setQueue'[q][Len(setQueue'[q])] = v
      BY <1>1, <1>2, <2>1, <3>1
    <3>3. setQueue'[q] # << >>
      BY <1>1, <1>2, <2>1, <3>1
    <3>4. version[q] \in Nat /\ accepted[q] \in Nat /\ Len(setQueue[q]) \in Nat
      BY <1>2, <2>1 DEF SetInv, SetTypes
    <3>5. version'[q] = version[q] /\ version[q] + Len(setQueue[q]) = accepted[q]
      BY DEF SetInv, UpdatesAreKept, FeatureIsSet, AcceptSet
    <3>6. version'[q] + Len(setQueue'[q]) = accepted'[q]
      BY <3>1, <3>2, <3>4, <3>5
    <3> QED
      BY <3>1, <3>2, <3>3, <3>6, Zenon
  <2>2. CASE q # k
    BY <2>2 DEF SetInv, SetTypes, UpdatesAreKept, FeatureIsSet, AcceptSet
  <2> QED
    BY <2>1, <2>2
<1> QED
  BY <1>3, <1>4 DEF SetInv, UpdatesAreKept

\* A queue without its first element ends as it did.
LEMMA LastOfTail ==
  ASSUME NEW s \in Seq(Readings), s # << >>
  PROVE  IF Tail(s) = << >> THEN s[Len(s)] = Head(s)
         ELSE s[Len(s)] = Tail(s)[Len(Tail(s))]
<1>1. Len(s) \in Nat \ {0} /\ Head(s) = s[1]
  BY EmptySeq, LenProperties
<1>2. PICK t \in Seq(Readings) : t = Tail(s)
  BY HeadTailProperties
<1>3. Len(t) = Len(s) - 1 /\ \A i \in 1..Len(t) : t[i] = s[i + 1]
  BY <1>1, <1>2, HeadTailProperties
<1>4. t = << >> <=> Len(t) = 0
  BY EmptySeq
<1>5. Len(t) # 0 => t[Len(t)] = s[Len(s)]
  BY <1>1, <1>3
<1> QED
  BY <1>1, <1>2, <1>3, <1>4, <1>5

\* The oldest set of a queue becomes the value.
LEMMA WriteKeepsSets ==
  ASSUME SetInv, NEW k \in PointKeys, FeatureWritten(k)
  PROVE  SetInv'
<1> USE DEF FeatureWritten, SetValue, history
<1>1. setQueue[k] \in Seq(Readings) /\ setQueue[k] # << >>
  BY DEF SetInv, SetTypes
<1>2. Tail(setQueue[k]) \in Seq(Readings) /\ Len(Tail(setQueue[k])) = Len(setQueue[k]) - 1
  BY <1>1
<1>3. SetTypes'
  <2>1. Head(setQueue[k]) \in Answered
    BY <1>1 DEF Answered
  <2> QED
    BY <1>2, <2>1 DEF SetInv, SetTypes
<1>4. ASSUME NEW q \in PointKeys
      PROVE  /\ (version[q] + Len(setQueue[q]) = accepted[q])'
             /\ (lastSet[q] = IF setQueue[q] = << >> THEN value[q]
                              ELSE setQueue[q][Len(setQueue[q])])'
  <2>1. CASE q = k
    <3>1. /\ setQueue'[q] = Tail(setQueue[q])
          /\ value'[q] = Head(setQueue[q])
          /\ version'[q] = version[q] + 1
      BY <2>1 DEF SetInv, SetTypes
    <3>2. version[q] \in Nat /\ accepted[q] \in Nat /\ Len(setQueue[q]) \in Nat
      BY <1>1, <2>1 DEF SetInv, SetTypes
    <3>3. lastSet[q] = setQueue[q][Len(setQueue[q])]
      BY <1>1, <2>1 DEF SetInv, UpdatesAreKept
    <3>4. version'[q] + Len(setQueue'[q]) = accepted'[q]
      <4>1. version[q] + Len(setQueue[q]) = accepted[q]
        BY DEF SetInv, UpdatesAreKept
      <4>2. Len(setQueue'[q]) = Len(setQueue[q]) - 1
        BY <1>2, <2>1, <3>1, Zenon
      <4>3. accepted'[q] = accepted[q]
        OBVIOUS
      <4> QED
        <5>1. version'[q] = version[q] + 1
          BY <3>1
        <5> HIDE DEF FeatureWritten, SetValue
        <5> QED
          BY <3>2, <4>1, <4>2, <4>3, <5>1
    <3>5. lastSet'[q] = lastSet[q]
      BY DEF SetInv, SetTypes
    <3>6. setQueue[q] \in Seq(Readings) /\ setQueue[q] # << >>
      BY <1>1, <2>1
    <3>7. IF Tail(setQueue[q]) = << >> THEN setQueue[q][Len(setQueue[q])] = Head(setQueue[q])
          ELSE setQueue[q][Len(setQueue[q])] = Tail(setQueue[q])[Len(Tail(setQueue[q]))]
      BY <3>6, LastOfTail
    <3> QED
      BY <3>1, <3>3, <3>4, <3>5, <3>7
  <2>2. CASE q # k
    BY <2>2 DEF SetInv, SetTypes, UpdatesAreKept
  <2> QED
    BY <2>1, <2>2
<1> QED
  BY <1>3, <1>4 DEF SetInv, UpdatesAreKept

LEMMA UnchangedKeepsSets ==
  ASSUME SetInv, UNCHANGED setVars
  PROVE  SetInv'
  BY DEF SetInv, SetTypes, UpdatesAreKept, setVars

LEMMA SetsAreInductive ==
  ASSUME SetInv, [Next]_vars
  PROVE  SetInv'
<1>1. ASSUME NEW k \in PointKeys, FeatureWritten(k) PROVE SetInv'
  BY <1>1, WriteKeepsSets
<1>2. ASSUME NEW k \in PointKeys, NEW v \in Settings(k), FeatureIsSet(k, v) PROVE SetInv'
  BY <1>2, AcceptKeepsSets
<1>3. ASSUME NEW r \in Regions,
             \/ FeedStarts(r) \/ DriverComesOnline(r) \/ RefreshDue(r) \/ RefreshContinues(r)
             \/ DemandIsNoted(r) \/ EventIsRecorded(r)
             \/ \E i \in Riders : RiderAsks(i, r)
      PROVE  UNCHANGED setVars
  BY <1>3 DEF setVars, history, featureVars, FeedStarts, DriverComesOnline, RefreshDue,
       RefreshContinues, DemandIsNoted, EventIsRecorded, RecordEvent, RiderAsks
<1>4. ASSUME NEW i \in Riders, EstimateContinues(i) \/ RiderIsQuoted(i)
      PROVE  UNCHANGED setVars
  BY <1>4 DEF setVars, history, featureVars, EstimateContinues, RiderIsQuoted
<1>5. ASSUME FixIsDeployed \/ ClockTicks PROVE UNCHANGED setVars
  BY <1>5 DEF setVars, history, FixIsDeployed, DeployFix, ClockTicks, FeaturesAge
<1>6. ASSUME UNCHANGED vars PROVE UNCHANGED setVars
  BY <1>6 DEF setVars, vars, featureVars, history
<1> QED
  BY <1>1, <1>2, <1>3, <1>4, <1>5, <1>6, UnchangedKeepsSets DEF Next

\* Every set that was accepted for a key is stored or waits in its order, for any
\* number of poisoned ones before it.
THEOREM SetsAreKept == Spec => []UpdatesAreKept
<1>1. SetInv => UpdatesAreKept
  BY DEF SetInv
<1> QED
  BY InitSets, SetsAreInductive, <1>1, PTL DEF Spec

-----------------------------------------------------------------------------
(* Refresh loops.                                                          *)

loopVars == <<refreshTimer, refreshStep, bootstraps>>

LoopTypes ==
  /\ refreshTimer \in [Regions -> Nat]
  /\ bootstraps \in [Regions -> Nat]
  /\ refreshStep \in [Regions -> {"none", "weather", "accidents", "rate"}]

LoopInv == LoopTypes /\ RefreshLoopsAreKept

LEMMA InitLoops == Init => LoopInv
  BY DEF Init, PricingInit, LoopInv, LoopTypes, RefreshLoopsAreKept, Refreshing

LEMMA BootstrapKeepsLoops ==
  ASSUME LoopInv, NEW r \in Regions, FeedStarts(r)
  PROVE  LoopInv'
  BY DEF LoopInv, LoopTypes, RefreshLoopsAreKept, Refreshing, FeedStarts, Bootstrap

LEMMA RefreshKeepsLoops ==
  ASSUME LoopInv, NEW r \in Regions, RefreshDue(r) \/ RefreshContinues(r)
  PROVE  LoopInv'
<1> USE DEF LoopInv, LoopTypes, RefreshLoopsAreKept, Refreshing, history
<1>1. CASE RefreshDue(r)
  BY <1>1 DEF RefreshDue, RefreshBegins, PricingKeyFree
<1>2. CASE RefreshContinues(r) /\ RefreshReadsWeather(r)
  BY <1>2 DEF RefreshContinues, RefreshReadsWeather
<1>3. CASE RefreshContinues(r) /\ RefreshReadsAccidents(r)
  BY <1>3 DEF RefreshContinues, RefreshReadsAccidents
<1>4. CASE RefreshContinues(r) /\ RefreshEnds(r)
  BY <1>4 DEF RefreshContinues, RefreshEnds
<1> QED
  BY <1>1, <1>2, <1>3, <1>4 DEF RefreshContinues

LEMMA UnchangedKeepsLoops ==
  ASSUME LoopInv, UNCHANGED loopVars
  PROVE  LoopInv'
  BY DEF LoopInv, LoopTypes, RefreshLoopsAreKept, Refreshing, loopVars

LEMMA LoopsAreInductive ==
  ASSUME LoopInv, [Next]_vars
  PROVE  LoopInv'
<1>1. ASSUME NEW k \in PointKeys,
             FeatureWritten(k) \/ \E v \in Settings(k) : FeatureIsSet(k, v)
      PROVE  UNCHANGED loopVars
  BY <1>1 DEF loopVars, history, pricingVars, FeatureWritten, FeatureIsSet
<1>2. ASSUME NEW r \in Regions, FeedStarts(r) PROVE LoopInv'
  BY <1>2, BootstrapKeepsLoops
<1>3. ASSUME NEW r \in Regions, RefreshDue(r) \/ RefreshContinues(r) PROVE LoopInv'
  BY <1>3, RefreshKeepsLoops
<1>4. ASSUME NEW r \in Regions,
             \/ DriverComesOnline(r) \/ DemandIsNoted(r) \/ EventIsRecorded(r)
             \/ \E i \in Riders : RiderAsks(i, r)
      PROVE  UNCHANGED loopVars
  BY <1>4 DEF loopVars, history, pricingVars, DriverComesOnline, NoteSupply, DemandIsNoted,
       NoteDemand, EventIsRecorded, RiderAsks
<1>5. ASSUME NEW i \in Riders, EstimateContinues(i) \/ RiderIsQuoted(i)
      PROVE  UNCHANGED loopVars
  BY <1>5 DEF loopVars, history, pricingVars, EstimateContinues, RiderIsQuoted
<1>6. ASSUME FixIsDeployed \/ ClockTicks PROVE UNCHANGED loopVars
  BY <1>6 DEF loopVars, history, pricingVars, FixIsDeployed, ClockTicks
<1>7. ASSUME UNCHANGED vars PROVE UNCHANGED loopVars
  BY <1>7 DEF loopVars, vars, pricingVars, history
<1> QED
  BY <1>1, <1>2, <1>3, <1>4, <1>5, <1>6, <1>7, UnchangedKeepsLoops DEF Next

\* Every refresh that was sent from outside goes on as one loop, for any calls
\* that compete for its key and any features it waits for.
THEOREM RefreshGoesOn == Spec => []RefreshLoopsAreKept
<1>1. LoopInv => RefreshLoopsAreKept
  BY DEF LoopInv
<1> QED
  BY InitLoops, LoopsAreInductive, <1>1, PTL DEF Spec

-----------------------------------------------------------------------------
(* The window of ride requests.                                            *)

streamVars == <<samples, arrivals>>

StreamTypes ==
  /\ samples \in [Regions -> [Ages -> Nat]]
  /\ arrivals \in [Regions -> [Ages -> Nat]]

\* What was trimmed from a stream is past the window, and stays so.
StreamInv ==
  /\ StreamTypes
  /\ \A r \in Regions : \A a \in 0..EventWindow : samples[r][a] = arrivals[r][a]

\* Events are counted in natural numbers.
LEMMA NumberOfType ==
  ASSUME NEW events \in [Ages -> Nat], NEW ages \in SUBSET Ages
  PROVE  NumberOf(events, ages) \in Nat
<1> DEFINE Numbered(a) == {a} \X (1..events[a])
           f == [a \in ages |-> Numbered(a)]
           S == {Numbered(a) : a \in ages}
<1>1. IsFiniteSet(ages)
  <2>1. IsFiniteSet(0..(EventWindow + 1))
    BY WindowIsPositive, FS_Interval
  <2> QED
    BY <2>1, FS_Subset DEF Ages
<1>2. IsFiniteSet(S)
  <2>1. f \in Surjection(ages, S)
    BY DEF Surjection
  <2> HIDE DEF f, S
  <2> QED
    BY <1>1, <2>1, FS_Surjection
<1>3. ASSUME NEW a \in ages PROVE IsFiniteSet(Numbered(a))
  <2>1. IsFiniteSet({a})
    BY FS_Singleton
  <2>2. IsFiniteSet(1..events[a])
    BY FS_Interval
  <2> QED
    BY <2>1, <2>2, FS_Product
<1>4. IsFiniteSet(UNION S)
  <2>1. \A T \in S : IsFiniteSet(T)
    BY <1>3
  <2> HIDE DEF S
  <2> QED
    BY <1>2, <2>1, FS_UNION
<1> QED
  BY <1>4, FS_CardinalityType DEF NumberOf

\* Streams that agree on some ages have as many events of these.
LEMMA SameNumber ==
  ASSUME NEW e, NEW f, NEW ages, \A a \in ages : e[a] = f[a]
  PROVE  NumberOf(e, ages) = NumberOf(f, ages)
<1>1. {{a} \X (1..e[a]) : a \in ages} = {{a} \X (1..f[a]) : a \in ages}
  OBVIOUS
<1> QED
  BY <1>1 DEF NumberOf

LEMMA InitStreams == Init => StreamInv
  BY WindowIsPositive DEF Init, FeaturesInit, NoEvents, StreamInv, StreamTypes, Ages

\* The clock keeps a stream a stream.
LEMMA OlderType ==
  ASSUME NEW events \in [Ages -> Nat]
  PROVE  Older(events) \in [Ages -> Nat]
<1> SUFFICES ASSUME NEW a \in Ages
             PROVE  (IF a > 0 THEN events[a - 1] ELSE 0)
                    + (IF a > EventWindow THEN events[a] ELSE 0) \in Nat
  BY DEF Older
<1>1. a > 0 => a - 1 \in Ages
  BY WindowIsPositive DEF Ages
<1> QED
  BY <1>1

\* An event that is recorded is young, in the trimmed stream and in the other.
LEMMA RecordKeepsStreams ==
  ASSUME StreamInv, NEW r \in Regions, EventIsRecorded(r)
  PROVE  StreamInv'
<1> USE DEF StreamInv, StreamTypes
<1>1. 0 \in Ages /\ 0..EventWindow \subseteq Ages /\ (\A a \in 0..EventWindow : Recent(a))
  BY WindowIsPositive DEF Ages, Recent
<1>2. /\ samples' = [samples EXCEPT ![r] = WithNew(Trimmed(samples[r]))]
      /\ arrivals' = [arrivals EXCEPT ![r] = WithNew(arrivals[r])]
  BY DEF EventIsRecorded, RecordEvent
<1>3. Trimmed(samples[r]) \in [Ages -> Nat]
  BY DEF Trimmed
<1>4. WithNew(Trimmed(samples[r])) \in [Ages -> Nat] /\ WithNew(arrivals[r]) \in [Ages -> Nat]
  BY <1>1, <1>3 DEF WithNew
<1>5. StreamTypes'
  BY <1>2, <1>4
<1>6. ASSUME NEW a \in 0..EventWindow
      PROVE  WithNew(Trimmed(samples[r]))[a] = WithNew(arrivals[r])[a]
  <2>1. \A b \in 0..EventWindow : Trimmed(samples[r])[b] = arrivals[r][b]
    BY <1>1 DEF Trimmed
  <2> QED
    BY <1>1, <1>3, <2>1, WindowIsPositive DEF WithNew
<1> QED
  BY <1>2, <1>5, <1>6

\* So are they all when they are older: what leaves the window leaves both.
LEMMA ClockKeepsStreams ==
  ASSUME StreamInv, ClockTicks
  PROVE  StreamInv'
<1> USE DEF StreamInv, StreamTypes
<1>1. /\ samples' = [r \in Regions |-> Older(samples[r])]
      /\ arrivals' = [r \in Regions |-> Older(arrivals[r])]
  BY DEF ClockTicks, FeaturesAge
<1>2. StreamTypes'
  BY <1>1, OlderType
<1>3. ASSUME NEW r \in Regions, NEW a \in 0..EventWindow
      PROVE  Older(samples[r])[a] = Older(arrivals[r])[a]
  <2>1. a \in Ages /\ ~ (a > EventWindow) /\ (a > 0 => a - 1 \in 0..EventWindow)
    BY WindowIsPositive DEF Ages
  <2> QED
    BY <2>1 DEF Older
<1> QED
  BY <1>1, <1>2, <1>3

LEMMA StreamsAreInductive ==
  ASSUME StreamInv, [Next]_vars
  PROVE  StreamInv'
<1>1. ASSUME NEW k \in PointKeys,
             FeatureWritten(k) \/ \E v \in Settings(k) : FeatureIsSet(k, v)
      PROVE  UNCHANGED streamVars
  BY <1>1 DEF streamVars, history, FeatureWritten, SetValue, FeatureIsSet, AcceptSet
<1>2. ASSUME NEW r \in Regions, EventIsRecorded(r) PROVE StreamInv'
  BY <1>2, RecordKeepsStreams
<1>3. ASSUME NEW r \in Regions,
             \/ FeedStarts(r) \/ DriverComesOnline(r) \/ RefreshDue(r) \/ RefreshContinues(r)
             \/ DemandIsNoted(r) \/ \E i \in Riders : RiderAsks(i, r)
      PROVE  UNCHANGED streamVars
  BY <1>3 DEF streamVars, history, featureVars, FeedStarts, DriverComesOnline, RefreshDue,
       RefreshContinues, DemandIsNoted, RiderAsks
<1>4. ASSUME NEW i \in Riders, EstimateContinues(i) \/ RiderIsQuoted(i)
      PROVE  UNCHANGED streamVars
  BY <1>4 DEF streamVars, history, featureVars, EstimateContinues, RiderIsQuoted
<1>5. ASSUME FixIsDeployed PROVE UNCHANGED streamVars
  BY <1>5 DEF streamVars, history, FixIsDeployed, DeployFix
<1>6. ASSUME UNCHANGED vars PROVE UNCHANGED streamVars
  BY <1>6 DEF streamVars, vars, featureVars, history
<1>7. UNCHANGED streamVars => StreamInv'
  BY DEF StreamInv, StreamTypes, streamVars
<1> QED
  BY <1>1, <1>2, <1>3, <1>4, <1>5, <1>6, <1>7, ClockKeepsStreams DEF Next

\* event_rate counts each event of the window and no other, for any window and
\* whenever record_event trimmed the stream (RateCountsWindow).
THEOREM WindowIsCounted == Spec => []RateCountsWindow
<1>1. StreamInv => RateCountsWindow
  <2> SUFFICES ASSUME StreamInv, NEW r \in Regions
               PROVE  EventCount(r) = NumberOf(arrivals[r], 0..EventWindow)
    BY DEF RateCountsWindow
  <2>1. {a \in Ages : Recent(a)} = 0..EventWindow
    BY WindowIsPositive DEF Ages, Recent
  <2>2. \A a \in 0..EventWindow : samples[r][a] = arrivals[r][a]
    BY DEF StreamInv
  <2>3. NumberOf(samples[r], 0..EventWindow) = NumberOf(arrivals[r], 0..EventWindow)
    BY <2>2, SameNumber
  <2>4. EventCount(r) = NumberOf(samples[r], {a \in Ages : Recent(a)})
    BY DEF EventCount
  <2> QED
    BY <2>1, <2>3, <2>4, Zenon
<1> QED
  BY InitStreams, StreamsAreInductive, <1>1, PTL DEF Spec

-----------------------------------------------------------------------------
(* The arithmetic of surge and fares.                                      *)

\* Fractions of at least 1 multiply to one.
LEMMA ProductAtLeast ==
  ASSUME NEW a \in Nat, NEW b \in Nat \ {0}, a >= b,
         NEW c \in Nat, NEW d \in Nat \ {0}, c >= d
  PROVE  a * c \in Nat /\ b * d \in Nat \ {0} /\ a * c >= b * d
OBVIOUS

\* Natural numbers multiply to one.
LEMMA ProductType ==
  ASSUME NEW a \in Nat, NEW b \in Nat
  PROVE  a * b \in Nat
OBVIOUS

\* A quotient is at least what its divisor fits in the dividend.
LEMMA DivAtLeast ==
  ASSUME NEW n \in Nat, NEW d \in Nat \ {0}, NEW k \in Nat, n >= k * d
  PROVE  n \div d \in Nat /\ n \div d >= k
OBVIOUS

\* A factor of the surge: a fraction of at least 1.
IsFactor(f) == f[1] \in Nat /\ f[2] \in Nat \ {0} /\ f[1] >= f[2]

LEMMA FactorsAreFactors ==
  ASSUME NEW supply \in Nat, NEW demand \in Nat, NEW w, NEW a \in Nat, NEW rate \in Nat
  PROVE  /\ IsFactor(SupplyFactor(supply, demand))
         /\ IsFactor(IntensityFactor(rate))
         /\ IsFactor(WeatherFactor(w))
         /\ IsFactor(AccidentsFactor(a))
BY DEF IsFactor, SupplyFactor, IntensityFactor, WeatherFactor, AccidentsFactor

\* Rounding to hundredths does not take a product of factors below 1.
LEMMA HundredthsRange ==
  ASSUME NEW f, NEW g, NEW h, NEW k, IsFactor(f), IsFactor(g), IsFactor(h), IsFactor(k)
  PROVE  Hundredths(f, g, h, k) \in Nat /\ Hundredths(f, g, h, k) >= 100
<1> DEFINE p2 == f[1] * g[1]
           q2 == f[2] * g[2]
           p3 == p2 * h[1]
           q3 == q2 * h[2]
           p4 == p3 * k[1]
           q4 == q3 * k[2]
<1>1. p2 \in Nat /\ q2 \in Nat \ {0} /\ p2 >= q2
  BY ProductAtLeast, Zenon DEF IsFactor
<1> HIDE DEF p2, q2
<1>2. p3 \in Nat /\ q3 \in Nat \ {0} /\ p3 >= q3
  BY <1>1, ProductAtLeast, Zenon DEF IsFactor
<1> HIDE DEF p3, q3
<1>3. p4 \in Nat /\ q4 \in Nat \ {0} /\ p4 >= q4
  BY <1>2, ProductAtLeast, Zenon DEF IsFactor
<1>4. 100 * f[1] * g[1] * h[1] * k[1] = 100 * p4
  BY <1>1, <1>2 DEF p2, p3, IsFactor
<1>5. f[2] * g[2] * h[2] * k[2] = q4
  BY DEF q2, q3
<1> HIDE DEF p4, q4
<1> DEFINE p == 100 * p4
<1>6. /\ 2 * p + q4 \in Nat /\ 2 * q4 \in Nat \ {0} /\ 100 \in Nat
      /\ 2 * p + q4 >= 100 * (2 * q4)
  BY <1>3
<1>7. (2 * p + q4) \div (2 * q4) \in Nat /\ (2 * p + q4) \div (2 * q4) >= 100
  BY <1>6, DivAtLeast, Zenon
<1>8. Hundredths(f, g, h, k) = (2 * p + q4) \div (2 * q4)
  BY <1>4, <1>5 DEF Hundredths
<1> QED
  BY <1>7, <1>8

\* Surge is between 1 and 3, whatever the signals.
LEMMA MultiplierRange ==
  ASSUME NEW supply \in Nat, NEW demand \in Nat, NEW w, NEW a \in Nat, NEW rate \in Nat
  PROVE  MultiplierFromSignals(supply, demand, w, a, rate) \in 100..300
<1> DEFINE m == Hundredths(SupplyFactor(supply, demand), IntensityFactor(rate),
                           WeatherFactor(w), AccidentsFactor(a))
<1>1. m \in Nat /\ m >= 100
  BY FactorsAreFactors, HundredthsRange
<1>2. MultiplierFromSignals(supply, demand, w, a, rate) = Capped(m)
  BY DEF MultiplierFromSignals
<1> HIDE DEF m
<1> QED
  BY <1>1, <1>2 DEF Capped

\* The fare of x cents under surge, in a class, cut off twice.
Fare(x, m, c) == (((x * m) \div 100) * c) \div 100

\* A fare of x cents is not below that, nor above 3 times the dearest class.
FareFits(x, fare) == fare \in Nat /\ fare >= x /\ fare <= (x * 720) \div 100

LEMMA FareRange ==
  ASSUME NEW x \in Nat, NEW m \in 100..300, NEW c \in 100..240
  PROVE  FareFits(x, Fare(x, m, c))
<1> DEFINE t == (x * m) \div 100
<1>1. x * m \in Nat /\ x * m >= x * 100 /\ x * m <= x * 300
  OBVIOUS
<1>2. t \in Nat /\ t >= x /\ t <= x * 3
  BY <1>1
<1> HIDE DEF t
<1>3. t * c \in Nat /\ t * c >= t * 100 /\ t * c <= t * 240
  BY <1>2
<1>4. t * c >= x * 100 /\ t * c <= x * 720
  BY <1>2, <1>3
<1>5. /\ (t * c) \div 100 \in Nat
      /\ (t * c) \div 100 >= x
      /\ (t * c) \div 100 <= (x * 720) \div 100
  BY <1>3, <1>4
<1> QED
  BY <1>5 DEF t, Fare, FareFits

\* A dearer class is never cut off to a lower price.
LEMMA PriceGrows ==
  ASSUME NEW t \in Nat, NEW c \in Nat, NEW d \in Nat, c <= d
  PROVE  (t * c) \div 100 <= (t * d) \div 100
<1>1. t * c \in Nat /\ t * d \in Nat /\ t * c <= t * d
  OBVIOUS
<1> QED
  BY <1>1

LEMMA ReliabilityRange ==
  ASSUME NEW w, NEW a \in Nat
  PROVE  Reliability(w, a) \in 50..100
<1>1. WeatherPenalty(w) \in 100..150
  BY DEF WeatherPenalty
<1> DEFINE loss == 20 * (WeatherPenalty(w) - 100) + 12 * a
<1>2. loss \in Nat
  BY <1>1
<1>3. Reliability(w, a) = IF loss > 5000 THEN 50 ELSE (10000 - loss + 50) \div 100
  BY DEF Reliability
<1> HIDE DEF loss
<1> QED
  BY <1>2, <1>3

\* An estimate is a number of seconds.
LEMMA EstimateType ==
  ASSUME NEW w, NEW a \in Nat
  PROVE  EtaSeconds(w, a) \in Nat
<1> DEFINE p == WeatherPenalty(w)
           q == Metres * p
           k == 1000 + 4 * a
<1>1. p \in Nat
  BY DEF WeatherPenalty
<1> HIDE DEF p
<1>2. q \in Nat
  BY <1>1, PlacesAreApart, ProductType, Zenon
<1>a. k \in Nat
  OBVIOUS
<1>3. EtaSeconds(w, a) = (q * k) \div (11 * 100 * 1000)
  BY DEF EtaSeconds, p
<1> HIDE DEF q, k
<1>4. q * k \in Nat
  BY <1>2, <1>a, ProductType, Zenon
<1> QED
  BY <1>3, <1>4

\* The rate of a stream is a number, so a refresh computes a multiplier in range.
LEMMA RateType ==
  ASSUME StreamTypes, NEW r \in Regions
  PROVE  EventRate(r) \in Nat
<1>1. EventCount(r) \in Nat
  <2>1. {a \in Ages : Recent(a)} \in SUBSET Ages /\ samples[r] \in [Ages -> Nat]
    BY DEF StreamTypes
  <2> QED
    BY <2>1, NumberOfType DEF EventCount
<1> DEFINE n == 2 * 1000 * EventCount(r) + EventWindow
<1>2. n \in Nat /\ 2 * EventWindow \in Nat \ {0} /\ 0 \in Nat /\ n >= 0 * (2 * EventWindow)
  BY <1>1, WindowIsPositive
<1>3. EventRate(r) = n \div (2 * EventWindow)
  BY DEF EventRate
<1> HIDE DEF n
<1> QED
  BY <1>2, <1>3, DivAtLeast, Zenon

\* Every offer composed of a reliable estimate and a multiplier in range is one
\* that a rider may be made.
LEMMA OffersAreOffers ==
  ASSUME NEW i \in Riders, multiplier[askedIn[i]] \in 100..300, eta[i].reliability \in 50..100
  PROVE  IsOffer(OfferTo(i))
<1> DEFINE m == multiplier[askedIn[i]]
           x == BaseFare + (Metres * 150) \div 1000
           t == Total(BaseFare, Metres, m)
           c == OfferTo(i).candidates
           Share(j) == CarClasses[j].price
<1>0. m \in 100..300
  OBVIOUS
<1>1. x \in Nat /\ x >= BaseFare /\ BaseFare \in Nat
  BY PlacesAreApart
<1>2. t = (x * m) \div 100
  BY DEF Total
<1>3. /\ DOMAIN CarClasses = 1..3
      /\ Share(1) = 100 /\ Share(2) = 160 /\ Share(3) = 240
  BY DEF CarClasses
<1>4. /\ DOMAIN c = 1..3
      /\ \A j \in 1..3 : c[j].price = (t * Share(j)) \div 100
      /\ \A j \in 1..3 : c[j].reliability = eta[i].reliability
      /\ OfferTo(i).multiplier = m
  BY <1>3 DEF OfferTo, Candidates
<1>5. Total(BaseFare, Metres, 3 * 240) = (x * 720) \div 100
  BY DEF Total
<1>a. \A j \in 1..3 : Share(j) \in 100..240
  BY <1>3
<1>b. \A j \in 1..3 : j > 1 => j - 1 \in 1..3 /\ Share(j - 1) <= Share(j)
  BY <1>3
<1> HIDE DEF m, x, t, c, Share
<1>6. ASSUME NEW j \in 1..3
      PROVE  /\ c[j].price >= BaseFare
             /\ c[j].price <= Total(BaseFare, Metres, 3 * 240)
  <2>1. c[j].price = Fare(x, m, Share(j))
    BY <1>2, <1>4 DEF Fare
  <2>2. c[j].price \in Nat /\ c[j].price >= x /\ c[j].price <= (x * 720) \div 100
    <3> DEFINE s == Share(j)
    <3>1. s \in 100..240
      BY <1>a
    <3> HIDE DEF s
    <3>2. x \in Nat
      BY <1>1
    <3>3. FareFits(x, Fare(x, m, s))
      BY <1>0, <3>1, <3>2, FareRange
    <3> QED
      BY <2>1, <3>3 DEF s, FareFits
  <2>3. (x * 720) \div 100 \in Int
    BY <1>1
  <2> QED
    BY <1>1, <1>5, <2>2, <2>3
<1>7. ASSUME NEW j \in 1..3, j > 1 PROVE c[j].price >= c[j - 1].price
  <2>1. t \in Nat
    <3>1. x * m \in Nat
      BY <1>0, <1>1
    <3> QED
      BY <1>2, <3>1
  <2>2. /\ j - 1 \in 1..3 /\ Share(j - 1) \in Nat /\ Share(j) \in Nat
        /\ Share(j - 1) <= Share(j)
    BY <1>a, <1>b, <1>7
  <2>3. (t * Share(j - 1)) \div 100 <= (t * Share(j)) \div 100
    BY <2>1, <2>2, PriceGrows, Zenon
  <2>4. /\ c[j].price = (t * Share(j)) \div 100
        /\ c[j - 1].price = (t * Share(j - 1)) \div 100
    BY <1>4, <2>2
  <2>5. (t * Share(j - 1)) \div 100 \in Int /\ (t * Share(j)) \div 100 \in Int
    <3>1. t * Share(j - 1) \in Nat /\ t * Share(j) \in Nat
      BY <2>1, <2>2
    <3> QED
      BY <3>1
  <2> QED
    BY <2>3, <2>4, <2>5
<1> QED
  BY <1>0, <1>4, <1>6, <1>7 DEF IsOffer, c

-----------------------------------------------------------------------------
(* Type correctness, offers included.                                      *)

\* A key holds and awaits settings of its own kind.
SettingsFit ==
  /\ \A k \in PointKeys :
       value[k] \in Settings(k) \cup {Default(k)} /\ setQueue[k] \in Seq(Settings(k))
  /\ graceful \in BOOLEAN

\* What Pricing keeps, and what its refreshes have read.
PricesFit ==
  /\ multiplier \in [Regions -> 100..300]
  /\ supplyCount \in [Regions -> Nat]
  /\ demandCount \in [Regions -> Nat]
  /\ refreshRead \in [Regions -> [weather : Answered, accidents : Nat]]

\* The requests under way: one that awaits its quote has a reliable estimate.
RequestsFit ==
  /\ asking \in [Riders -> {"none", "weather", "accidents", "quote"}]
  /\ askedIn \in [Riders -> Regions]
  /\ demandNotes \in [Regions -> Nat]
  /\ eventNotes \in [Regions -> Nat]
  /\ eta \in [Riders -> [seconds : Nat, reliability : 0..100]]
  /\ \A i \in Riders : asking[i] = "quote" => eta[i].reliability \in 50..100

OfferInv == SetInv /\ LoopInv /\ StreamInv /\ SettingsFit /\ PricesFit /\ RequestsFit

settingVars == <<value, setQueue, graceful>>
priceVars == <<multiplier, supplyCount, demandCount, refreshRead>>
requestVars == <<asking, askedIn, demandNotes, eventNotes, eta>>

LEMMA InitOffers == Init => OfferInv
<1> SUFFICES ASSUME Init PROVE SettingsFit /\ PricesFit /\ RequestsFit
  BY InitSets, InitLoops, InitStreams DEF OfferInv
<1>1. SettingsFit
  <2>1. \A k : << >> \in Seq(Settings(k))
    OBVIOUS
  <2> QED
    BY <2>1 DEF Init, FeaturesInit, SettingsFit
<1>2. PricesFit
  BY DEF Init, PricingInit, PricesFit, NothingRead, Answered
<1>3. RequestsFit
  BY DEF Init, OffersInit, RequestsFit, NoEta
<1> QED
  BY <1>1, <1>2, <1>3

\* A density is a number, set or not.
LEMMA DensitiesAreRead ==
  ASSUME SettingsFit, NEW r \in Regions
  PROVE  value[AccidentsKey(r)] \in Nat
<1>1. AccidentsKey(r) \in PointKeys /\ AccidentsKey(r)[2] # "weather"
  BY DEF AccidentsKey, PointKeys
<1>2. value[AccidentsKey(r)] \in Accidents \cup {0}
  BY <1>1 DEF SettingsFit, Settings, Default
<1>3. Accidents \cup {0} \subseteq Nat
  BY DensitiesAreNumbers
<1> QED
  BY <1>2, <1>3

LEMMA WeatherIsRead ==
  ASSUME SetTypes, NEW r \in Regions
  PROVE  value[WeatherKey(r)] \in Answered
BY DEF SetTypes, WeatherKey, PointKeys

LEMMA SetsKeepSettings ==
  ASSUME SetTypes, SettingsFit, NEW k \in PointKeys,
         FeatureWritten(k) \/ \E v \in Settings(k) : FeatureIsSet(k, v)
  PROVE  SettingsFit'
<1> USE DEF SettingsFit, SetTypes
<1>1. CASE FeatureWritten(k)
  <2>1. setQueue[k] \in Seq(Settings(k)) /\ setQueue[k] # << >>
    BY <1>1 DEF FeatureWritten, SetValue
  <2>2. Head(setQueue[k]) \in Settings(k) /\ Tail(setQueue[k]) \in Seq(Settings(k))
    BY <2>1
  <2> QED
    BY <1>1, <2>2 DEF FeatureWritten, SetValue
<1>2. ASSUME NEW v \in Settings(k), FeatureIsSet(k, v) PROVE SettingsFit'
  <2>1. Append(setQueue[k], v) \in Seq(Settings(k))
    OBVIOUS
  <2> QED
    BY <1>2, <2>1 DEF FeatureIsSet, AcceptSet
<1> QED
  BY <1>1, <1>2

LEMMA RefreshKeepsPrices ==
  ASSUME OfferInv, NEW r \in Regions, RefreshContinues(r)
  PROVE  PricesFit'
<1> USE DEF PricesFit
<1>0. OfferInv => PricesFit
  BY DEF OfferInv
<1>1. CASE RefreshReadsWeather(r)
  <2>1. value[WeatherKey(r)] \in Answered
    BY WeatherIsRead DEF OfferInv, SetInv
  <2> QED
    BY <1>0, <1>1, <2>1 DEF RefreshReadsWeather
<1>2. CASE RefreshReadsAccidents(r)
  <2>1. value[AccidentsKey(r)] \in Nat
    BY DensitiesAreRead DEF OfferInv
  <2> QED
    BY <1>0, <1>2, <2>1 DEF RefreshReadsAccidents
<1>3. CASE RefreshEnds(r)
  <2>1. EventRate(r) \in Nat
    BY RateType DEF OfferInv, StreamInv
  <2>2. RefreshedMultiplier(r) \in 100..300
    BY <1>0, <2>1, MultiplierRange DEF RefreshedMultiplier
  <2>3. NothingRead \in [weather : Answered, accidents : Nat]
    BY DEF NothingRead, Answered
  <2> QED
    BY <1>0, <1>3, <2>2, <2>3 DEF RefreshEnds
<1> QED
  BY <1>1, <1>2, <1>3 DEF RefreshContinues

LEMMA NotesKeepPrices ==
  ASSUME PricesFit, NEW r \in Regions, DriverComesOnline(r) \/ DemandIsNoted(r)
  PROVE  PricesFit'
BY DEF PricesFit, DriverComesOnline, NoteSupply, DemandIsNoted, NoteDemand

LEMMA EstimatesKeepRequests ==
  ASSUME SettingsFit, RequestsFit, NEW i \in Riders, EstimateContinues(i)
  PROVE  RequestsFit'
<1> USE DEF RequestsFit
<1>1. CASE EtaReadsWeather(i)
  BY <1>1 DEF EtaReadsWeather
<1>2. CASE EtaEstimates(i)
  <2> DEFINE a == value[AccidentsKey(askedIn[i])]
             e == [seconds |-> EtaSeconds(etaRead[i], a), reliability |-> Reliability(etaRead[i], a)]
  <2>1. a \in Nat
    BY DensitiesAreRead
  <2>2. /\ eta' = [eta EXCEPT ![i] = e]
        /\ asking' = [asking EXCEPT ![i] = "quote"]
        /\ UNCHANGED <<askedIn, demandNotes, eventNotes>>
    BY <1>2 DEF EtaEstimates
  <2> HIDE DEF a
  <2>3. Reliability(etaRead[i], a) \in 50..100
    BY <2>1, ReliabilityRange
  <2>4. EtaSeconds(etaRead[i], a) \in Nat
    BY <2>1, EstimateType
  <2>5. e \in [seconds : Nat, reliability : 0..100] /\ e.reliability \in 50..100
    BY <2>3, <2>4
  <2> HIDE DEF e
  <2> QED
    BY <2>2, <2>5
<1> QED
  BY <1>1, <1>2 DEF EstimateContinues

LEMMA OtherRequestsFit ==
  ASSUME RequestsFit,
         \/ \E i \in Riders : RiderIsQuoted(i) \/ \E r \in Regions : RiderAsks(i, r)
         \/ \E r \in Regions : DemandIsNoted(r) \/ EventIsRecorded(r)
  PROVE  RequestsFit'
<1> USE DEF RequestsFit
<1>1. ASSUME NEW i \in Riders, RiderIsQuoted(i) PROVE RequestsFit'
  <2>1. NoEta \in [seconds : Nat, reliability : 0..100]
    BY DEF NoEta
  <2>2. /\ eta' = [eta EXCEPT ![i] = NoEta]
        /\ asking' = [asking EXCEPT ![i] = "none"]
        /\ askedIn' = askedIn
    BY <1>1 DEF RiderIsQuoted, Quote
  <2>3. /\ eta' \in [Riders -> [seconds : Nat, reliability : 0..100]]
        /\ asking' \in [Riders -> {"none", "weather", "accidents", "quote"}]
        /\ \A j \in Riders : asking'[j] = "quote" => asking[j] = "quote" /\ eta'[j] = eta[j]
    BY <2>1, <2>2
  <2>4. demandNotes' \in [Regions -> Nat] /\ eventNotes' \in [Regions -> Nat]
    <3>1. askedIn[i] \in Regions /\ demandNotes \in [Regions -> Nat] /\ eventNotes \in [Regions -> Nat]
      OBVIOUS
    <3>2. /\ demandNotes' = [demandNotes EXCEPT ![askedIn[i]] = @ + 1]
          /\ eventNotes' = [eventNotes EXCEPT ![askedIn[i]] = @ + 1]
      BY <1>1 DEF RiderIsQuoted, Quote
    <3> HIDE DEF RequestsFit
    <3> QED
      BY <3>1, <3>2
  <2> QED
    BY <2>2, <2>3, <2>4
<1>2. ASSUME NEW i \in Riders, NEW r \in Regions, RiderAsks(i, r) PROVE RequestsFit'
  BY <1>2 DEF RiderAsks, AsksForRide
<1>3. ASSUME NEW r \in Regions, DemandIsNoted(r) PROVE RequestsFit'
  BY <1>3 DEF DemandIsNoted, DemandNoteArrives
<1>4. ASSUME NEW r \in Regions, EventIsRecorded(r) PROVE RequestsFit'
  BY <1>4 DEF EventIsRecorded, EventNoteArrives
<1> QED
  BY <1>1, <1>2, <1>3, <1>4

\* What a step leaves alone stays as it fits.
LEMMA UnchangedFits ==
  /\ SettingsFit /\ UNCHANGED settingVars => SettingsFit'
  /\ PricesFit /\ UNCHANGED priceVars => PricesFit'
  /\ RequestsFit /\ UNCHANGED requestVars => RequestsFit'
<1>1. SettingsFit /\ UNCHANGED settingVars => SettingsFit'
  BY DEF SettingsFit, settingVars
<1>2. PricesFit /\ UNCHANGED priceVars => PricesFit'
  BY DEF PricesFit, priceVars
<1>3. RequestsFit /\ UNCHANGED requestVars => RequestsFit'
  BY DEF RequestsFit, requestVars
<1> QED
  BY <1>1, <1>2, <1>3

LEMMA OffersAreInductive ==
  ASSUME OfferInv, [Next]_vars
  PROVE  OfferInv'
<1>0. SetInv' /\ LoopInv' /\ StreamInv'
  BY SetsAreInductive, LoopsAreInductive, StreamsAreInductive DEF OfferInv
<1> SUFFICES SettingsFit' /\ PricesFit' /\ RequestsFit'
  BY <1>0 DEF OfferInv
<1>a. SettingsFit /\ PricesFit /\ RequestsFit /\ SetTypes
  BY DEF OfferInv, SetInv
<1> USE DEF settingVars, priceVars, requestVars, history, featureVars, pricingVars, offersVars
<1>1. ASSUME NEW k \in PointKeys,
             FeatureWritten(k) \/ \E v \in Settings(k) : FeatureIsSet(k, v)
      PROVE  SettingsFit' /\ UNCHANGED <<priceVars, requestVars>>
  <2>1. SettingsFit'
    BY <1>1, <1>a, SetsKeepSettings
  <2> QED
    BY <1>1, <2>1 DEF FeatureWritten, FeatureIsSet
<1>2. ASSUME NEW r \in Regions, FeedStarts(r) \/ RefreshDue(r)
      PROVE  UNCHANGED <<settingVars, priceVars, requestVars>>
  BY <1>2 DEF FeedStarts, Bootstrap, RefreshDue, RefreshBegins
<1>3. ASSUME NEW r \in Regions, RefreshContinues(r)
      PROVE  PricesFit' /\ UNCHANGED <<settingVars, requestVars>>
  BY <1>3, RefreshKeepsPrices DEF RefreshContinues
<1>4. ASSUME NEW r \in Regions, DriverComesOnline(r)
      PROVE  PricesFit' /\ UNCHANGED <<settingVars, requestVars>>
  BY <1>4, <1>a, NotesKeepPrices DEF DriverComesOnline
<1>5. ASSUME NEW r \in Regions, DemandIsNoted(r)
      PROVE  PricesFit' /\ RequestsFit' /\ UNCHANGED settingVars
  BY <1>5, <1>a, NotesKeepPrices, OtherRequestsFit DEF DemandIsNoted
<1>6. ASSUME NEW r \in Regions, EventIsRecorded(r)
      PROVE  RequestsFit' /\ UNCHANGED <<settingVars, priceVars>>
  BY <1>6, <1>a, OtherRequestsFit DEF EventIsRecorded, RecordEvent
<1>7. ASSUME NEW i \in Riders, RiderIsQuoted(i) \/ \E r \in Regions : RiderAsks(i, r)
      PROVE  RequestsFit' /\ UNCHANGED <<settingVars, priceVars>>
  BY <1>7, <1>a, OtherRequestsFit DEF RiderIsQuoted, RiderAsks
<1>8. ASSUME NEW i \in Riders, EstimateContinues(i)
      PROVE  RequestsFit' /\ UNCHANGED <<settingVars, priceVars>>
  BY <1>8, <1>a, EstimatesKeepRequests DEF EstimateContinues
<1>9. CASE FixIsDeployed
  BY <1>9, <1>a, UnchangedFits DEF FixIsDeployed, DeployFix, SettingsFit
<1>10. CASE ClockTicks
  BY <1>10, <1>a, UnchangedFits DEF ClockTicks, FeaturesAge
<1>11. CASE UNCHANGED vars
  BY <1>11, <1>a, UnchangedFits DEF vars
<1> HIDE DEF settingVars, priceVars, requestVars
<1> QED
  BY <1>a, <1>1, <1>2, <1>3, <1>4, <1>5, <1>6, <1>7, <1>8, <1>9, <1>10, <1>11, UnchangedFits
     DEF Next

\* Every variable keeps to its type and every rider is made a sound offer: a
\* multiplier of 1 to 3, classes in order of price, no fare below the base or
\* above 3 times the dearest class, for any signals, fares and readings (TypeOK).
THEOREM MarketTypeCorrect == Spec => []TypeOK
<1>1. OfferInv => TypeOK
  <2> SUFFICES ASSUME OfferInv PROVE TypeOK
    OBVIOUS
  <2>1. \A i \in Riders : asking[i] = "quote" => IsOffer(OfferTo(i))
    <3> SUFFICES ASSUME NEW i \in Riders, asking[i] = "quote" PROVE IsOffer(OfferTo(i))
      OBVIOUS
    <3>1. multiplier[askedIn[i]] \in 100..300 /\ eta[i].reliability \in 50..100
      BY DEF OfferInv, PricesFit, RequestsFit
    <3> QED
      BY <3>1, OffersAreOffers
  <2> QED
    BY <2>1 DEF OfferInv, SetInv, SetTypes, LoopInv, LoopTypes, StreamInv, StreamTypes,
       SettingsFit, PricesFit, RequestsFit, TypeOK
<1> QED
  BY InitOffers, OffersAreInductive, <1>1, PTL DEF Spec
==============================================================================
