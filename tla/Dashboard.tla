------------------------------ MODULE Dashboard ------------------------------
(***************************************************************************)
(* tui/app.py: the keys that act on the fleet of simulators, the panel     *)
(* that shows it, and SimControl as they see it.                           *)
(*                                                                         *)
(* A rate key starts a task of its own; the pause key and the reset are    *)
(* carried out one at a time.  A call that Restate has accepted is carried *)
(* out in its turn, also when the dashboard stopped waiting for it.  Rates *)
(* are in hundredths.  The dashboard has booted the fleet.                 *)
(*                                                                         *)
(* A reset wipes Restate and boots again.  Every part of it may fail: some *)
(* failures end it ("reset failed"), others pass unseen, for the results   *)
(* of the commands and the status of start_all are not looked at.          *)
(***************************************************************************)
EXTENDS Integers, Sequences

CONSTANTS
  RateMin, RateMax, RateStep,   \* of the [ and ] keys
  RateAtBoot,                   \* what start_all sets
  MaxNudges, MaxToggles, MaxResets   \* bounds: presses of the keys

ASSUME RatesAreOrdered ==
  /\ {RateMin, RateMax, RateStep, RateAtBoot} \subseteq Nat
  /\ RateMin <= RateAtBoot /\ RateAtBoot <= RateMax
ASSUME BoundsAreNumbers == {MaxNudges, MaxToggles, MaxResets} \subseteq Nat

Kinds == {"rider", "driver", "mapping"}
Nudges == 1..MaxNudges
Unknown == -1

VARIABLES
  rate,        \* SimControl: rider_rate
  fleet,       \* SimControl: start_all was carried out, so it has counts
  running,     \* SimControl: the kinds of simulators last told to run
  calls,       \* the calls SimControl has accepted and not yet carried out
  server,      \* "down": calls are refused; "stopped": they are accepted, but
               \* the service is not there to carry them out; "up"
  shownRate,   \* _last_sim_state's rider_rate
  paused,      \* _sims_paused
  refreshing,  \* _refreshing_sim
  polling,     \* the step of the poll under way
  polled,      \* what `get' has answered to it
  nudge,       \* [rate key press]: its step and the rate it asks for
  keys,        \* what the pause key or the reset under way awaits
  toggles, resets,
  told         \* history: the last toggle was answered, and every reset since
               \* started the fleet with the flag down

control == <<rate, fleet, running, calls, server>>
poll == <<refreshing, polling, polled>>
counters == <<toggles, resets>>
vars == <<control, shownRate, paused, poll, nudge, keys, counters, told>>

Init ==
  /\ rate = RateAtBoot
  /\ fleet = TRUE
  /\ running = Kinds
  /\ calls = << >>
  /\ server = "up"
  /\ shownRate = Unknown
  /\ paused = FALSE
  /\ refreshing = FALSE
  /\ polling = "none"
  /\ polled = Unknown
  /\ nudge = [n \in Nudges |-> [step |-> "unused", rate |-> 0]]
  /\ keys = "none"
  /\ toggles = 0
  /\ resets = 0
  /\ told = TRUE

\* The presses of the pause key and the resets, which are one at a time.
presses == toggles + resets

-----------------------------------------------------------------------------
(* _nudge_rate.                                                            *)

Clamped(v) == IF v < RateMin THEN RateMin ELSE IF v > RateMax THEN RateMax ELSE v

RateCall(n, v) == [op |-> "rate", rate |-> v, kinds |-> {}, by |-> n]

\* A press that finds the rate unknown, or at its bound, has no effect; a call
\* that is refused has none either.
NudgeRate(n, delta) ==
  LET new == Clamped(shownRate + delta)
  IN  /\ nudge[n].step = "unused"
      /\ \A m \in Nudges : m < n => nudge[m].step # "unused"
      /\ shownRate # Unknown
      /\ new # shownRate
      /\ server # "down"
      /\ calls' = Append(calls, RateCall(n, new))
      /\ nudge' = [nudge EXCEPT ![n] = [step |-> "called", rate |-> new]]
      /\ UNCHANGED <<rate, fleet, running, server, shownRate, paused, poll, keys, counters, told>>

\* The panel takes the rate that this press asked for.
NudgeReturns(n) ==
  /\ nudge[n].step = "answered"
  /\ shownRate' = nudge[n].rate
  /\ nudge' = [nudge EXCEPT ![n].step = "over"]
  /\ UNCHANGED <<control, paused, poll, keys, counters, told>>

\* Five seconds without an answer.
NudgeTimesOut(n) ==
  /\ nudge[n].step = "called"
  /\ nudge' = [nudge EXCEPT ![n].step = "over"]
  /\ UNCHANGED <<control, shownRate, paused, poll, keys, counters, told>>

-----------------------------------------------------------------------------
(* _refresh_sim and _fetch.                                                *)

PollStarts ==
  /\ ~ refreshing
  /\ refreshing' = TRUE
  /\ polling' = "asking"
  /\ UNCHANGED <<control, shownRate, paused, polled, nudge, keys, counters, told>>

PollIsServed ==
  /\ polling = "asking"
  /\ server = "up"
  /\ polling' = "answered"
  /\ polled' = rate
  /\ UNCHANGED <<control, shownRate, paused, refreshing, nudge, keys, counters, told>>

\* The panel takes the answer: the rate, or {} in the place of a failure.
PollStores(answer) ==
  /\ shownRate' = answer
  /\ polling' = "none"
  /\ polled' = Unknown
  /\ UNCHANGED <<control, paused, nudge, keys, counters, told>>

\* Mutant of PollEnds: the flag stays up.
PollEndsForGood == polling = "answered" /\ PollStores(polled) /\ UNCHANGED refreshing

PollEnds == polling = "answered" /\ PollStores(polled) /\ refreshing' = FALSE

\* An error, or a second without an answer.
PollFails == polling # "none" /\ PollStores(Unknown) /\ refreshing' = FALSE

PollIsInVain == server # "up" /\ PollFails

-----------------------------------------------------------------------------
(* action_sims_toggle.                                                     *)

StopCall(k) == [op |-> "stop", rate |-> 0, kinds |-> Kinds, by |-> k]
ResumeCall(k, kinds) == [op |-> "resume", rate |-> 0, kinds |-> kinds, by |-> k]

\* What Restate may accept of stop_all, or of the three resumes at once.
Acceptable == IF server = "down" THEN {{}} ELSE IF paused THEN SUBSET Kinds ELSE {{}, Kinds}

\* Mutant of Toggle: a resume of which a part was refused counts as one.
ToggleLeniently(accepted) ==
  /\ keys = "none"
  /\ toggles' = toggles + 1
  /\ keys' = IF accepted # {} THEN "toggle" ELSE "none"
  /\ told' = (told /\ accepted = {})
  /\ calls' = IF accepted = {} THEN calls
              ELSE Append(calls, IF paused THEN ResumeCall(presses + 1, accepted)
                                 ELSE StopCall(presses + 1))
  /\ UNCHANGED <<rate, fleet, running, server, shownRate, paused, poll, nudge, resets>>

\* stop_all, or the three resumes at once, each of which may be refused; it gives
\* up at the first that is.
Toggle(accepted) ==
  /\ keys = "none"
  /\ toggles' = toggles + 1
  /\ keys' = IF accepted = Kinds THEN "toggle" ELSE "none"
  /\ told' = (told /\ accepted = {})
  /\ calls' = IF accepted = {} THEN calls
              ELSE Append(calls, IF paused THEN ResumeCall(presses + 1, accepted)
                                 ELSE StopCall(presses + 1))
  /\ UNCHANGED <<rate, fleet, running, server, shownRate, paused, poll, nudge, resets>>

ToggleReturns ==
  /\ keys = "answered"
  /\ keys' = "none"
  /\ paused' = ~ paused
  /\ told' = TRUE
  /\ UNCHANGED <<control, shownRate, poll, nudge, counters>>

\* Ten seconds without an answer.
ToggleTimesOut ==
  /\ keys = "toggle"
  /\ keys' = "none"
  /\ UNCHANGED <<control, shownRate, paused, poll, nudge, counters, told>>

-----------------------------------------------------------------------------
(* action_reset_all.  It does not touch _sims_paused.                      *)

Nobody == 0
StartCall(k) == [op |-> "start", rate |-> 0, kinds |-> Kinds, by |-> k]

\* sim_stop_all, "best-effort": it may be refused, and its answer is not awaited
\* for long.
ResetBegins ==
  /\ keys = "none"
  /\ keys' = "stopping"
  /\ resets' = resets + 1
  /\ told' = FALSE
  /\ \/ UNCHANGED calls
     \/ server # "down" /\ calls' = Append(calls, StopCall(Nobody))
  /\ UNCHANGED <<rate, fleet, running, server, shownRate, paused, poll, nudge, toggles>>

\* The services are stopped and the container goes, and with it all that Restate
\* has stored; who waits for a call is refused.
ServerIsWiped ==
  /\ keys = "stopping"
  /\ keys' = "reset"
  /\ server' = "down"
  /\ rate' = Unknown
  /\ fleet' = FALSE
  /\ running' = {}
  /\ calls' = << >>
  /\ nudge' = [n \in Nudges |-> [nudge[n] EXCEPT !.step = IF @ = "called" THEN "over" ELSE @]]
  /\ UNCHANGED <<shownRate, paused, poll, counters, told>>

\* docker compose down fails, which is not looked at: the container stays.
ServerStays ==
  /\ keys = "stopping"
  /\ keys' = "reset"
  /\ server' = IF server = "down" THEN "down" ELSE "stopped"
  /\ UNCHANGED <<rate, fleet, running, calls, shownRate, paused, poll, nudge, counters, told>>

\* The boot comes as far as start_all.
BootStarts ==
  /\ keys = "reset"
  /\ keys' = "starting"
  /\ server' = "up"
  /\ calls' = Append(calls, StartCall(presses))
  /\ UNCHANGED <<rate, fleet, running, shownRate, paused, poll, nudge, counters, told>>

\* Or start_all is not accepted.  The server does not come up or cannot be
\* reached: "reset failed".  A registration failed, or the answer to start_all is
\* an error: "reset complete" all the same.
BootFails ==
  /\ keys = "reset"
  /\ keys' = "none"
  /\ server' \in {server, "up"}
  /\ UNCHANGED <<rate, fleet, running, calls, shownRate, paused, poll, nudge, counters, told>>

\* "reset complete": the fleet was told to run, whatever the flag says.
ResetEnds ==
  /\ keys = "started"
  /\ keys' = "none"
  /\ told' = ~ paused
  /\ UNCHANGED <<control, shownRate, paused, poll, nudge, counters>>

\* Ten seconds without an answer: "reset failed", but the call stays accepted.
StartTimesOut ==
  /\ keys = "starting"
  /\ keys' = "none"
  /\ UNCHANGED <<control, shownRate, paused, poll, nudge, counters, told>>

-----------------------------------------------------------------------------
(* SimControl.                                                             *)

\* Who waits for the call of this press is answered.
Answers(c, waiting, answered) ==
  keys' = IF keys = waiting /\ c.by = presses THEN answered ELSE keys

RunsRate(c) ==
  /\ c.op = "rate"
  /\ rate' = c.rate
  /\ nudge' = [nudge EXCEPT ![c.by].step = IF @ = "called" THEN "answered" ELSE @]
  /\ UNCHANGED <<fleet, running, keys>>

\* Without counts a resume reaches nobody but the feeds.
RunsToggle(c) ==
  /\ c.op \in {"stop", "resume"}
  /\ running' = IF c.op = "stop" THEN {}
                ELSE running \cup (IF fleet THEN c.kinds ELSE c.kinds \cap {"mapping"})
  /\ Answers(c, "toggle", "answered")
  /\ UNCHANGED <<rate, fleet, nudge>>

RunsStart(c) ==
  /\ c.op = "start"
  /\ rate' = RateAtBoot
  /\ fleet' = TRUE
  /\ running' = Kinds
  /\ Answers(c, "starting", "started")
  /\ UNCHANGED nudge

\* The oldest call.
ControlRuns ==
  /\ server = "up"
  /\ calls # << >>
  /\ calls' = Tail(calls)
  /\ LET c == Head(calls) IN RunsRate(c) \/ RunsToggle(c) \/ RunsStart(c)
  /\ UNCHANGED <<server, shownRate, paused, poll, counters, told>>

-----------------------------------------------------------------------------
PollReturns == PollIsServed \/ PollEnds

Next ==
  \/ \E n \in Nudges :
       \/ NudgeRate(n, RateStep) \/ NudgeRate(n, -RateStep)
       \/ NudgeReturns(n) \/ NudgeTimesOut(n)
  \/ PollStarts \/ PollReturns \/ PollFails
  \/ toggles < MaxToggles /\ \E accepted \in Acceptable : Toggle(accepted)
  \/ ToggleReturns \/ ToggleTimesOut
  \/ resets < MaxResets /\ ResetBegins
  \/ ServerIsWiped \/ ServerStays \/ BootStarts \/ BootFails
  \/ ResetEnds \/ StartTimesOut
  \/ ControlRuns

Spec == Init /\ [][Next]_vars

\* The timer polls, the event loop runs what is ready, a poll that nobody answers
\* times out, Restate carries out what it accepted and a reset comes to its end,
\* well or not; nobody owes a key press.
FairSpec ==
  /\ Spec
  /\ WF_vars(PollStarts) /\ WF_vars(PollReturns) /\ WF_vars(PollIsInVain)
  /\ \A n \in Nudges : WF_vars(NudgeReturns(n))
  /\ WF_vars(ToggleReturns) /\ WF_vars(ControlRuns)
  /\ WF_vars(ServerIsWiped \/ ServerStays) /\ WF_vars(BootStarts \/ BootFails)
  /\ WF_vars(ResetEnds)

-----------------------------------------------------------------------------
\* "we track what we last told the fleet and trust it" (app.py:995-997): once a
\* toggle went through, the pause flag is what SimControl told the fleet it knows,
\* whatever was given up, refused in part or carried out late before.  From the
\* begin of a reset on nothing is claimed until the next toggle that goes through,
\* but when start_all was answered and the flag is down.
PauseFlagIsTrue ==
  told /\ fleet /\ keys = "none" => running = (IF paused THEN {} ELSE Kinds)

\* Once polls are answered the panel ends up at SimControl's rate, although nudges
\* overwrite each other, a late poll overwrites a nudge (app.py:1551-1574), and a
\* boot that failed leaves SimControl without a rate.
PanelCatchesUp == <>[][~ PollFails]_vars => <>[](shownRate = rate)
==============================================================================
