--------------------------- MODULE DashboardProofs ---------------------------
(***************************************************************************)
(* Proof about Dashboard that the pause flag is true, for any rates and    *)
(* any number of key presses and resets, however these fail.               *)
(* PauseFlagIsTrue is not inductive: that a toggle which was answered is   *)
(* the last word needs to be known of the calls that are still queued,     *)
(* which FlagInv does.                                                     *)
(***************************************************************************)
EXTENDS Dashboard, SequenceTheorems, TLAPS

-----------------------------------------------------------------------------
(* Types.                                                                  *)

Call == [op : {"rate", "stop", "resume", "start"}, rate : Int, kinds : SUBSET Kinds, by : Nat]
Press == [step : {"unused", "called", "answered", "over"}, rate : Int]

Types ==
  /\ rate \in Int
  /\ fleet \in BOOLEAN
  /\ running \in SUBSET Kinds
  /\ calls \in Seq(Call)
  /\ server \in {"down", "stopped", "up"}
  /\ shownRate \in Int
  /\ paused \in BOOLEAN
  /\ polled \in Int
  /\ nudge \in [Nudges -> Press]
  /\ keys \in {"none", "toggle", "answered", "stopping", "reset", "starting", "started"}
  /\ toggles \in Nat
  /\ resets \in Nat
  /\ told \in BOOLEAN

LEMMA Numbers ==
  /\ RateMin \in Int /\ RateMax \in Int /\ RateStep \in Int /\ RateAtBoot \in Int
  /\ Unknown \in Int /\ Nudges \subseteq Nat
  BY RatesAreOrdered, BoundsAreNumbers DEF Unknown, Nudges

LEMMA PressesType == ASSUME Types PROVE presses \in Nat
  BY DEF Types, presses

LEMMA InitTypes == Init => Types
<1> SUFFICES ASSUME Init PROVE Types
  OBVIOUS
<1>1. nudge \in [Nudges -> Press]
  BY DEF Init, Press
<1>2. calls \in Seq(Call)
  BY EmptySeq DEF Init
<1> QED
  BY <1>1, <1>2, Numbers DEF Init, Types

LEMMA ClampedType == ASSUME NEW v \in Int PROVE Clamped(v) \in Int
  BY Numbers DEF Clamped

LEMMA NudgeTypes ==
  ASSUME Types, NEW n \in Nudges, NEW delta \in Int, NudgeRate(n, delta)
  PROVE  Types'
<1> DEFINE new == Clamped(shownRate + delta)
<1>1. new \in Int
  BY ClampedType DEF Types
<1>2. RateCall(n, new) \in Call
  BY <1>1, Numbers DEF RateCall, Call
<1>3. calls' = Append(calls, RateCall(n, new)) /\ calls' \in Seq(Call)
  BY <1>2 DEF NudgeRate, Types
<1>4. nudge' \in [Nudges -> Press]
  BY <1>1 DEF NudgeRate, Types, Press
<1> QED
  BY <1>3, <1>4 DEF NudgeRate, Types, poll, counters

LEMMA ToggleCallTypes ==
  ASSUME NEW k \in Nat, NEW accepted \in SUBSET Kinds
  PROVE  StopCall(k) \in Call /\ ResumeCall(k, accepted) \in Call /\ StartCall(k) \in Call
  BY DEF StopCall, ResumeCall, StartCall, Call

LEMMA ToggleTypes ==
  ASSUME Types, NEW accepted \in SUBSET Kinds, Toggle(accepted)
  PROVE  Types'
<1>1. toggles' \in Nat /\ keys' \in {"none", "toggle"} /\ told' \in BOOLEAN
  BY DEF Types, Toggle
<1>2. StopCall(presses + 1) \in Call /\ ResumeCall(presses + 1, accepted) \in Call
  <2>1. presses + 1 \in Nat
    BY PressesType
  <2> QED
    BY <2>1, ToggleCallTypes
<1>3. calls' \in Seq(Call)
  BY <1>2 DEF Types, Toggle
<1> QED
  BY <1>1, <1>3 DEF Types, Toggle, poll

LEMMA ResetTypes ==
  ASSUME Types, ResetBegins \/ ServerIsWiped \/ ServerStays \/ BootStarts \/ BootFails
  PROVE  Types'
<1> USE DEF Types, control, poll, counters
<1>1. CASE ResetBegins
  <2>1. StopCall(Nobody) \in Call
    BY ToggleCallTypes DEF Nobody
  <2>2. calls' \in Seq(Call)
    BY <1>1, <2>1 DEF ResetBegins
  <2>3. keys' = "stopping" /\ resets' \in Nat /\ told' = FALSE
    BY <1>1 DEF ResetBegins
  <2>4. UNCHANGED <<rate, fleet, running, server, shownRate, paused, polled, nudge, toggles>>
    BY <1>1 DEF ResetBegins
  <2> QED
    BY <2>2, <2>3, <2>4
<1>2. CASE ServerIsWiped
  <2>1. nudge' \in [Nudges -> Press]
    BY <1>2 DEF ServerIsWiped, Press
  <2>2. calls' \in Seq(Call)
    BY <1>2, EmptySeq DEF ServerIsWiped
  <2> QED
    BY <1>2, <2>1, <2>2, Numbers DEF ServerIsWiped
<1>3. CASE ServerStays
  BY <1>3 DEF ServerStays
<1>4. CASE BootStarts
  <2>1. StartCall(presses) \in Call
    BY ToggleCallTypes, PressesType
  <2>2. calls' \in Seq(Call)
    BY <1>4, <2>1 DEF BootStarts
  <2> QED
    BY <1>4, <2>2 DEF BootStarts
<1>5. CASE BootFails
  BY <1>5 DEF BootFails
<1> QED
  BY <1>1, <1>2, <1>3, <1>4, <1>5

LEMMA RunTypes ==
  ASSUME Types, ControlRuns
  PROVE  Types'
<1> DEFINE c == Head(calls)
<1>1. c \in Call /\ Tail(calls) \in Seq(Call)
  BY HeadTailProperties DEF Types, ControlRuns
<1>2. /\ calls' = Tail(calls)
      /\ RunsRate(c) \/ RunsToggle(c) \/ RunsStart(c)
      /\ UNCHANGED <<server, shownRate, paused, polled, toggles, resets, told>>
  BY DEF ControlRuns, poll, counters
<1> HIDE DEF c
<1>3. CASE RunsRate(c)
  <2>1. c.rate \in Int
    BY <1>1 DEF Call
  <2>2. nudge' \in [Nudges -> Press]
    BY <1>3 DEF RunsRate, Types, Press
  <2> QED
    BY <1>1, <1>2, <1>3, <2>1, <2>2 DEF RunsRate, Types
<1>4. CASE RunsToggle(c)
  <2>1. c.kinds \in SUBSET Kinds
    BY <1>1 DEF Call
  <2>2. running' \in SUBSET Kinds
    BY <1>4, <2>1 DEF RunsToggle, Types
  <2> QED
    BY <1>1, <1>2, <1>4, <2>2 DEF RunsToggle, Answers, Types
<1>5. CASE RunsStart(c)
  BY <1>1, <1>2, <1>5, Numbers DEF RunsStart, Answers, Types
<1> QED
  BY <1>2, <1>3, <1>4, <1>5

LEMMA StepTypes == ASSUME Types, [Next]_vars PROVE Types'
<1> USE DEF Types, control, poll, counters
<1>1. ASSUME NEW n \in Nudges, NudgeRate(n, RateStep) \/ NudgeRate(n, -RateStep) PROVE Types'
  BY <1>1, NudgeTypes, Numbers
<1>2. ASSUME NEW n \in Nudges, NudgeReturns(n) PROVE Types'
  BY <1>2 DEF NudgeReturns, Press
<1>3. ASSUME NEW n \in Nudges, NudgeTimesOut(n) PROVE Types'
  BY <1>3 DEF NudgeTimesOut, Press
<1>4. CASE PollStarts
  BY <1>4 DEF PollStarts
<1>5. CASE PollReturns
  BY <1>5, Numbers DEF PollReturns, PollIsServed, PollEnds, PollStores
<1>6. CASE PollFails
  BY <1>6, Numbers DEF PollFails, PollStores
<1>7. ASSUME NEW accepted \in Acceptable, Toggle(accepted) PROVE Types'
  BY <1>7, ToggleTypes DEF Acceptable
<1>8. CASE ToggleReturns
  BY <1>8 DEF ToggleReturns
<1>9. CASE ToggleTimesOut
  BY <1>9 DEF ToggleTimesOut
<1>10. CASE ResetBegins \/ ServerIsWiped \/ ServerStays \/ BootStarts \/ BootFails
  BY <1>10, ResetTypes
<1>11. CASE ResetEnds \/ StartTimesOut
  BY <1>11 DEF ResetEnds, StartTimesOut
<1>12. CASE ControlRuns
  BY <1>12, RunTypes
<1>13. CASE UNCHANGED vars
  BY <1>13 DEF vars
<1> QED
  BY <1>1, <1>2, <1>3, <1>4, <1>5, <1>6, <1>7, <1>8, <1>9, <1>10, <1>11, <1>12, <1>13 DEF Next

-----------------------------------------------------------------------------
(* The flag.                                                               *)

\* No stop, resume or start is queued.
Quiet == \A i \in DOMAIN calls : calls[i].op = "rate"

\* The calls of the keys that are queued are those of earlier presses.
Earlier == \A i \in DOMAIN calls : calls[i].op = "rate" \/ calls[i].by < presses

\* The call that the key under way waits for: what it will do to the fleet.
IsAwaited(c) ==
  /\ c.by = presses
  /\ c.op = IF keys = "starting" THEN "start" ELSE IF paused THEN "resume" ELSE "stop"
  /\ keys = "toggle" /\ paused => c.kinds = Kinds

\* It is queued behind those of earlier presses, and only rates are behind it.
IsLastWord(i) ==
  /\ IsAwaited(calls[i])
  /\ \A j \in DOMAIN calls : j > i => calls[j].op = "rate"
  /\ \A j \in DOMAIN calls : j < i => calls[j].op = "rate" \/ calls[j].by < presses

FlagInv ==
  /\ \A i \in DOMAIN calls : calls[i].op = "rate" \/ calls[i].by <= presses
  /\ keys \in {"stopping", "reset"} => ~ told /\ Earlier
  /\ keys \in {"toggle", "starting"} => ~ told /\ \E i \in DOMAIN calls : IsLastWord(i)
  /\ keys = "answered" => Quiet /\ (fleet => running = IF paused THEN Kinds ELSE {})
  /\ keys = "started" => Quiet /\ running = Kinds
  /\ keys = "none" /\ told => Quiet /\ (fleet => running = IF paused THEN {} ELSE Kinds)

LEMMA InitFlag == Init => FlagInv
  BY DEF Init, FlagInv, Quiet

\* What the flag depends on.
flagVars == <<fleet, running, calls, paused, keys, toggles, resets, told>>

LEMMA UnchangedFlag == ASSUME FlagInv, UNCHANGED flagVars PROVE FlagInv'
  BY DEF FlagInv, flagVars, Quiet, Earlier, IsLastWord, IsAwaited, presses

LEMMA QueuedCalls ==
  ASSUME Types
  PROVE  \A i \in DOMAIN calls : calls[i] \in Call /\ calls[i].by \in Nat
<1>1. \A i \in DOMAIN calls : calls[i] \in Call
  BY ElementOfSeq, LenProperties DEF Types
<1> QED
  BY <1>1 DEF Call

LEMMA Appended ==
  ASSUME Types, NEW c \in Call, calls' = Append(calls, c)
  PROVE  /\ DOMAIN calls = 1..Len(calls) /\ Len(calls) \in Nat
         /\ DOMAIN calls' = 1..(Len(calls) + 1)
         /\ \A i \in DOMAIN calls : calls'[i] = calls[i]
         /\ calls'[Len(calls) + 1] = c
         /\ \A i \in DOMAIN calls : calls[i] \in Call
  BY DEF Types

\* The call of a key that is queued behind earlier ones has the last word.
LEMMA AppendedIsLastWord ==
  ASSUME Types, NEW c \in Call, calls' = Append(calls, c), IsAwaited(c)',
         \A i \in DOMAIN calls : calls[i].op = "rate" \/ calls[i].by < presses'
  PROVE  \E i \in DOMAIN calls' : IsLastWord(i)'
<1>1. PICK n \in Nat : n = Len(calls) + 1
  BY Appended
<1>2. n \in DOMAIN calls' /\ calls'[n] = c
  BY <1>1, Appended
<1>3. \A j \in DOMAIN calls' :
        /\ j > n => calls'[j].op = "rate"
        /\ j < n => calls'[j].op = "rate" \/ calls'[j].by < presses'
  BY <1>1, Appended
<1>4. IsAwaited(calls[n])'
  BY <1>2 DEF IsAwaited
<1> QED
  BY <1>2, <1>3, <1>4 DEF IsLastWord

\* A rate call that is queued last changes nothing.
LEMMA NudgeFlag ==
  ASSUME Types, FlagInv, NEW n \in Nudges, NEW delta \in Int, NudgeRate(n, delta)
  PROVE  FlagInv'
<1>1. PICK c \in Call : c.op = "rate" /\ calls' = Append(calls, c)
  <2> DEFINE new == Clamped(shownRate + delta)
  <2>1. new \in Int
    BY ClampedType DEF Types
  <2>2. RateCall(n, new) \in Call /\ RateCall(n, new).op = "rate"
    BY <2>1, Numbers DEF RateCall, Call
  <2> QED
    BY <2>2 DEF NudgeRate
<1>2. UNCHANGED <<fleet, running, paused, keys, toggles, resets, told>>
  BY DEF NudgeRate, counters
<1>3. presses' = presses
  BY <1>2 DEF presses
<1>4. /\ DOMAIN calls \subseteq DOMAIN calls'
      /\ \A i \in DOMAIN calls : calls'[i] = calls[i]
      /\ \A i \in DOMAIN calls' : i \notin DOMAIN calls => calls'[i].op = "rate"
  BY <1>1, Appended
<1>5. (Quiet => Quiet') /\ (Earlier => Earlier')
  BY <1>3, <1>4 DEF Quiet, Earlier
<1>6. ASSUME NEW i \in DOMAIN calls, IsLastWord(i)
      PROVE  i \in DOMAIN calls' /\ IsLastWord(i)'
  <2>1. i \in DOMAIN calls' /\ calls'[i] = calls[i]
    BY <1>4
  <2>2. IsAwaited(calls[i])'
    BY <1>2, <1>3, <1>6, <2>1 DEF IsLastWord, IsAwaited
  <2> QED
    BY <1>3, <1>4, <1>6, <2>1, <2>2 DEF IsLastWord
<1>7. \A i \in DOMAIN calls' : calls'[i].op = "rate" \/ calls'[i].by <= presses'
  BY <1>3, <1>4 DEF FlagInv
<1> QED
  BY <1>2, <1>5, <1>6, <1>7 DEF FlagInv

LEMMA AllAreEarlier ==
  ASSUME Types, FlagInv
  PROVE  \A i \in DOMAIN calls : calls[i].op = "rate" \/ calls[i].by < presses + 1
  BY QueuedCalls, PressesType DEF FlagInv

\* The call of a toggle is queued last; one that none was accepted of is none.
LEMMA ToggleFlag ==
  ASSUME Types, FlagInv, NEW accepted \in Acceptable, Toggle(accepted)
  PROVE  FlagInv'
<1>0. accepted \in SUBSET Kinds
  BY DEF Acceptable
<1>1. /\ keys = "none" /\ UNCHANGED <<fleet, running, paused>>
      /\ presses \in Nat /\ presses' = presses + 1
  BY PressesType DEF Toggle, Types, presses
<1>2. \A i \in DOMAIN calls : calls[i].op = "rate" \/ calls[i].by < presses'
  BY <1>1, AllAreEarlier
<1>3. CASE accepted = {}
  <2>1. UNCHANGED <<calls, keys, told>>
    BY <1>1, <1>3 DEF Toggle, Kinds, Types
  <2>2. \A i \in DOMAIN calls' : calls'[i].op = "rate" \/ calls'[i].by <= presses'
    BY <1>1, <1>2, <2>1, QueuedCalls
  <2> QED
    BY <1>1, <2>1, <2>2 DEF FlagInv, Quiet
<1>4. CASE accepted # {}
  <2>1. PICK c \in Call :
          /\ calls' = Append(calls, c)
          /\ c.by = presses'
          /\ c.op = IF paused THEN "resume" ELSE "stop"
          /\ paused => c.kinds = accepted
    <3>1. StopCall(presses + 1) \in Call /\ ResumeCall(presses + 1, accepted) \in Call
      BY <1>0, <1>1, ToggleCallTypes
    <3>2. CASE paused
      <4>1. calls' = Append(calls, ResumeCall(presses + 1, accepted))
        BY <1>4, <3>2 DEF Toggle
      <4> QED
        BY <1>1, <3>1, <3>2, <4>1 DEF ResumeCall
    <3>3. CASE ~ paused
      <4>1. calls' = Append(calls, StopCall(presses + 1))
        BY <1>4, <3>3 DEF Toggle
      <4> QED
        BY <1>1, <3>1, <3>3, <4>1 DEF StopCall
    <3> QED
      BY <3>2, <3>3
  <2>2. /\ told' = FALSE
        /\ keys' = IF accepted = Kinds THEN "toggle" ELSE "none"
    BY <1>4 DEF Toggle, Types
  <2>3. \A i \in DOMAIN calls' : calls'[i].op = "rate" \/ calls'[i].by <= presses'
    BY <1>1, <1>2, <2>1, Appended DEF Call
  <2>4. ASSUME keys' = "toggle"
        PROVE  \E i \in DOMAIN calls' : IsLastWord(i)'
    <3>1. IsAwaited(c)'
      BY <1>1, <2>1, <2>2, <2>4 DEF IsAwaited
    <3> QED
      BY <1>2, <2>1, <3>1, AppendedIsLastWord
  <2> QED
    BY <2>2, <2>3, <2>4 DEF FlagInv
<1> QED
  BY <1>3, <1>4

\* From its start to start_all a reset leaves only calls that nobody waits for.
LEMMA ResetFlag ==
  ASSUME Types, FlagInv, ResetBegins \/ ServerIsWiped \/ ServerStays
  PROVE  FlagInv'
<1>1. CASE ResetBegins
  <2>1. keys' = "stopping" /\ told' = FALSE /\ presses \in Nat /\ presses' = presses + 1
    BY <1>1, PressesType DEF ResetBegins, Types, presses
  <2>2. \A i \in DOMAIN calls : calls[i].op = "rate" \/ calls[i].by < presses'
    BY <2>1, AllAreEarlier
  <2>3. CASE UNCHANGED calls
    <3>1. \A i \in DOMAIN calls' : calls'[i].op = "rate" \/ calls'[i].by <= presses'
      BY <2>1, <2>2, <2>3, QueuedCalls
    <3> QED
      BY <2>1, <2>2, <2>3, <3>1 DEF FlagInv, Earlier
  <2>4. CASE calls' = Append(calls, StopCall(Nobody))
    <3>1. PICK c \in Call : calls' = Append(calls, c) /\ c.by = 0
      <4>1. Nobody \in Nat /\ Nobody = 0
        BY DEF Nobody
      <4>2. StopCall(Nobody) \in Call /\ StopCall(Nobody).by = Nobody
        BY <4>1, ToggleCallTypes DEF StopCall
      <4> QED
        BY <2>4, <4>1, <4>2
    <3>2. Earlier'
      BY <2>1, <2>2, <3>1, Appended DEF Earlier
    <3>3. \A i \in DOMAIN calls' : calls'[i].op = "rate" \/ calls'[i].by <= presses'
      BY <2>1, <2>2, <3>1, Appended DEF Call
    <3> QED
      BY <2>1, <3>2, <3>3 DEF FlagInv
  <2> QED
    BY <1>1, <2>3, <2>4 DEF ResetBegins
<1>2. CASE ServerIsWiped
  BY <1>2 DEF ServerIsWiped, FlagInv, Earlier
<1>3. CASE ServerStays
  BY <1>3 DEF ServerStays, FlagInv, Earlier, presses, counters
<1> QED
  BY <1>1, <1>2, <1>3

\* start_all is queued last, or not at all.
LEMMA BootFlag ==
  ASSUME Types, FlagInv, BootStarts \/ BootFails
  PROVE  FlagInv'
<1>1. /\ keys = "reset" /\ ~ told /\ Earlier
      /\ UNCHANGED <<fleet, running, paused, told>> /\ presses' = presses
  BY DEF BootStarts, BootFails, FlagInv, presses, counters
<1>2. CASE BootStarts
  <2>1. PICK c \in Call : calls' = Append(calls, c) /\ c.by = presses /\ c.op = "start"
    <3>1. StartCall(presses) \in Call
      BY PressesType, ToggleCallTypes
    <3> QED
      BY <1>2, <3>1 DEF BootStarts, StartCall
  <2>2. keys' = "starting"
    BY <1>2 DEF BootStarts
  <2>3. IsAwaited(c)'
    BY <1>1, <2>1, <2>2 DEF IsAwaited
  <2>4. \E i \in DOMAIN calls' : IsLastWord(i)'
    BY <1>1, <2>1, <2>3, AppendedIsLastWord DEF Earlier
  <2>5. \A i \in DOMAIN calls' : calls'[i].op = "rate" \/ calls'[i].by <= presses'
    BY <1>1, <2>1, Appended, PressesType DEF Earlier, Call
  <2> QED
    BY <1>1, <2>2, <2>4, <2>5 DEF FlagInv
<1>3. CASE BootFails
  BY <1>1, <1>3 DEF BootFails, FlagInv
<1> QED
  BY <1>2, <1>3

\* A call that is carried out leaves the queue, and the one that the key under way
\* waits for leaves it quiet.
LEMMA RunFlag ==
  ASSUME Types, FlagInv, ControlRuns
  PROVE  FlagInv'
<1> DEFINE c == Head(calls)
<1>1. /\ calls # << >> /\ calls' = Tail(calls)
      /\ UNCHANGED <<paused, told>> /\ presses' = presses
      /\ RunsRate(c) \/ RunsToggle(c) \/ RunsStart(c)
  BY DEF ControlRuns, counters, presses
<1>2. /\ DOMAIN calls = 1..Len(calls) /\ Len(calls) \in Nat \ {0}
      /\ DOMAIN calls' = 1..(Len(calls) - 1)
      /\ \A i \in DOMAIN calls' : calls'[i] = calls[i + 1]
      /\ c = calls[1] /\ c \in Call
      /\ \A i \in DOMAIN calls : calls[i] \in Call
  BY <1>1, EmptySeq, HeadTailProperties, LenProperties, ElementOfSeq DEF Types
<1> HIDE DEF c
<1>3. \A i \in DOMAIN calls' : i + 1 \in DOMAIN calls
  BY <1>2
<1>4. \A i \in DOMAIN calls' : calls'[i].op = "rate" \/ calls'[i].by <= presses'
  BY <1>1, <1>2, <1>3 DEF FlagInv
<1>5. (Earlier => Earlier') /\ (Quiet => Quiet' /\ c.op = "rate")
  BY <1>1, <1>2, <1>3 DEF Earlier, Quiet
<1>6. keys \notin {"toggle", "starting"} => keys' = keys
  BY <1>1 DEF RunsRate, RunsToggle, RunsStart, Answers
<1>7. c.op = "rate" => UNCHANGED <<fleet, running, keys>>
  BY <1>1 DEF RunsRate, RunsToggle, RunsStart
<1>8. CASE keys \notin {"toggle", "starting"}
  BY <1>1, <1>4, <1>5, <1>6, <1>7, <1>8 DEF FlagInv
<1>9. CASE keys \in {"toggle", "starting"}
  <2>0. ~ told'
    BY <1>1, <1>9 DEF FlagInv
  <2>1. PICK i \in DOMAIN calls : IsLastWord(i)
    BY <1>9 DEF FlagInv
  <2>2. CASE i = 1
    <3>1. IsAwaited(c)
      BY <1>2, <2>1, <2>2 DEF IsLastWord
    <3>2. Quiet'
      BY <1>1, <1>2, <1>3, <2>1, <2>2 DEF IsLastWord, Quiet
    <3>3. CASE keys = "toggle"
      <4>1. keys' = "answered" /\ (fleet' => running' = IF paused THEN Kinds ELSE {})
        <5>1. /\ c.by = presses /\ c.op = IF paused THEN "resume" ELSE "stop"
              /\ paused => c.kinds = Kinds
          BY <3>1, <3>3 DEF IsAwaited
        <5>2. RunsToggle(c)
          BY <1>1, <5>1 DEF RunsRate, RunsStart
        <5>3. fleet' = fleet /\ keys' = "answered"
          BY <3>3, <5>1, <5>2 DEF RunsToggle, Answers
        <5>4. CASE paused
          BY <5>1, <5>2, <5>3, <5>4 DEF RunsToggle, Types
        <5>5. CASE ~ paused
          BY <5>1, <5>2, <5>3, <5>5 DEF RunsToggle
        <5> QED
          BY <5>3, <5>4, <5>5
      <4> QED
        BY <1>1, <1>4, <3>2, <4>1 DEF FlagInv
    <3>4. CASE keys = "starting"
      <4>1. keys' = "started" /\ running' = Kinds
        BY <1>1, <3>1, <3>4 DEF IsAwaited, RunsRate, RunsToggle, RunsStart, Answers
      <4> QED
        BY <1>1, <1>4, <3>2, <4>1 DEF FlagInv
    <3> QED
      BY <1>9, <3>3, <3>4
  <2>3. CASE i # 1
    <3>1. c.op = "rate" \/ c.by < presses
      BY <1>2, <2>1, <2>3 DEF IsLastWord
    <3>2. c.op = "rate" \/ c.by # presses
      BY <1>2, <3>1, PressesType DEF Call
    <3>3. keys' = keys
      BY <1>1, <3>2 DEF RunsRate, RunsToggle, RunsStart, Answers
    <3>4. i - 1 \in DOMAIN calls' /\ calls'[i - 1] = calls[i]
      BY <1>2, <2>3
    <3>5. IsAwaited(calls[i - 1])'
      BY <1>1, <2>1, <3>3, <3>4 DEF IsLastWord, IsAwaited
    <3>6. \A j \in DOMAIN calls' :
            /\ j > i - 1 => calls'[j].op = "rate"
            /\ j < i - 1 => calls'[j].op = "rate" \/ calls'[j].by < presses'
      BY <1>1, <1>2, <1>3, <2>1 DEF IsLastWord
    <3>7. IsLastWord(i - 1)'
      BY <3>5, <3>6 DEF IsLastWord
    <3> QED
      BY <1>4, <1>9, <2>0, <3>3, <3>4, <3>7 DEF FlagInv
  <2> QED
    BY <2>2, <2>3
<1> QED
  BY <1>8, <1>9

LEMMA StepFlag == ASSUME Types, FlagInv, [Next]_vars PROVE FlagInv'
<1>1. ASSUME NEW n \in Nudges, NudgeRate(n, RateStep) \/ NudgeRate(n, -RateStep) PROVE FlagInv'
  BY <1>1, NudgeFlag, Numbers
<1>2. ASSUME NEW n \in Nudges, NudgeReturns(n) \/ NudgeTimesOut(n) PROVE UNCHANGED flagVars
  BY <1>2 DEF NudgeReturns, NudgeTimesOut, flagVars, control, counters
<1>3. ASSUME PollStarts \/ PollReturns \/ PollFails PROVE UNCHANGED flagVars
  BY <1>3 DEF PollStarts, PollReturns, PollIsServed, PollEnds, PollFails, PollStores, flagVars,
       control, counters
<1>4. ASSUME NEW accepted \in Acceptable, Toggle(accepted) PROVE FlagInv'
  BY <1>4, ToggleFlag
<1>5. CASE ToggleReturns
  BY <1>5 DEF ToggleReturns, FlagInv, Quiet, Types, presses, control, counters
<1>6. CASE ToggleTimesOut
  BY <1>6 DEF ToggleTimesOut, FlagInv, presses, control, counters
<1>7. CASE ResetBegins \/ ServerIsWiped \/ ServerStays
  BY <1>7, ResetFlag
<1>8. CASE BootStarts \/ BootFails
  BY <1>8, BootFlag
<1>9. CASE ResetEnds
  BY <1>9 DEF ResetEnds, FlagInv, Quiet, Types, presses, control, counters
<1>10. CASE StartTimesOut
  BY <1>10 DEF StartTimesOut, FlagInv, presses, control, counters
<1>11. CASE ControlRuns
  BY <1>11, RunFlag
<1>12. ASSUME UNCHANGED vars PROVE UNCHANGED flagVars
  BY <1>12 DEF vars, flagVars, control, counters
<1> QED
  BY <1>1, <1>2, <1>3, <1>4, <1>5, <1>6, <1>7, <1>8, <1>9, <1>10, <1>11, <1>12, UnchangedFlag DEF Next

\* Once a toggle went through, the pause flag is what SimControl told the fleet it
\* knows, although presses, their timeouts, calls that are carried out late, resets
\* and resets that fail came before (app.py:995-997).
THEOREM FlagIsTrue == Spec => []PauseFlagIsTrue
<1>1. Init => Types /\ FlagInv
  BY InitTypes, InitFlag
<1>2. Types /\ FlagInv /\ [Next]_vars => (Types /\ FlagInv)'
  BY StepTypes, StepFlag
<1>3. FlagInv => PauseFlagIsTrue
  BY DEF FlagInv, PauseFlagIsTrue
<1> QED
  BY <1>1, <1>2, <1>3, PTL DEF Spec
==============================================================================
