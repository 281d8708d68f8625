------------------------------ MODULE Features -------------------------------
(***************************************************************************)
(* services/features.py: one Virtual Object per feature of a region.       *)
(*                                                                         *)
(* A point value is written by `set', which is exclusive: the calls that   *)
(* were accepted for a key wait in setQueue and run in order.  One that    *)
(* carries POISON fails and is retried for ever by a deployment that does  *)
(* not handle it, and every later call of its key waits behind it.  `get'  *)
(* and `event_rate' are shared: they wait for nobody.                      *)
(*                                                                         *)
(* An event stream keeps the times of its events.  Only how old they are   *)
(* matters, so samples counts the events of each age, which the clock      *)
(* makes grow; an age past the window grows no further.  last_updated_ms   *)
(* is only reported.                                                       *)
(***************************************************************************)
EXTENDS Naturals, Sequences, FiniteSets

CONSTANTS
  Regions,
  EventWindow    \* EVENT_WINDOW_MS, in ticks of the clock, each a second

ASSUME WindowIsPositive == EventWindow \in Nat \ {0}

VARIABLES
  value,      \* [key]: what `get' answers; the default its callers pass, if unset
  version,
  setQueue,   \* [key]: the values of the set calls not yet carried out
  samples,    \* [region][age]: events in the stream of its ride requests
  graceful    \* HANDLE_POISON_GRACEFULLY of the deployment that serves

featureVars == <<value, version, setQueue, samples, graceful>>

WeatherKey(r) == <<r, "weather">>
AccidentsKey(r) == <<r, "accident_density">>
PointKeys == Regions \X {"weather", "accident_density"}

\* The ages told apart; the last stands for all that are past the window.
Ages == 0..(EventWindow + 1)
NoEvents == [a \in Ages |-> 0]

\* All readers pass the same default.
Default(k) == IF k[2] = "weather" THEN "clear" ELSE 0

FeaturesInit ==
  /\ value = [k \in PointKeys |-> Default(k)]
  /\ version = [k \in PointKeys |-> 0]
  /\ setQueue = [k \in PointKeys |-> << >>]
  /\ samples = [r \in Regions |-> NoEvents]
  /\ graceful = FALSE

-----------------------------------------------------------------------------
\* A set is durable from the moment ingress acknowledges it.
AcceptSet(k, v) ==
  /\ setQueue' = [setQueue EXCEPT ![k] = Append(@, v)]
  /\ UNCHANGED <<value, version, samples, graceful>>

\* Scripts and dashboard poison a weather feature only.
IsPoison(k, v) == k[2] = "weather" /\ v = "POISON"

\* Mutant of Stuck: one poisoned key holds up every other.
StuckAnywhere(k) ==
  /\ ~ graceful
  /\ \E q \in PointKeys : setQueue[q] # << >> /\ IsPoison(q, Head(setQueue[q]))

\* The oldest call of the key can only be retried.
Stuck(k) == ~ graceful /\ setQueue[k] # << >> /\ IsPoison(k, Head(setQueue[k]))

\* Mutant of SetValue: a poisoned call fails for good instead of being retried.
SetValueOrFail(k) ==
  /\ setQueue[k] # << >>
  /\ value' = [value EXCEPT ![k] = IF Stuck(k) THEN @ ELSE Head(setQueue[k])]
  /\ version' = [version EXCEPT ![k] = IF Stuck(k) THEN @ ELSE @ + 1]
  /\ setQueue' = [setQueue EXCEPT ![k] = Tail(@)]
  /\ UNCHANGED <<samples, graceful>>

SetValue(k) ==
  /\ setQueue[k] # << >>
  /\ ~ Stuck(k)
  /\ value' = [value EXCEPT ![k] = Head(setQueue[k])]
  /\ version' = [version EXCEPT ![k] = @ + 1]
  /\ setQueue' = [setQueue EXCEPT ![k] = Tail(@)]
  /\ UNCHANGED <<samples, graceful>>

\* Features is deployed again with the flag turned on.
DeployFix ==
  /\ graceful' = TRUE
  /\ UNCHANGED <<value, version, setQueue, samples>>

-----------------------------------------------------------------------------
\* Mutants of Recent: the cutoff is off by one; nothing is trimmed.
RecentStrictly(age) == age < EventWindow
RecentAlways(age) == age <= EventWindow + 1

\* t >= cutoff
Recent(age) == age <= EventWindow

Trimmed(events) == [a \in Ages |-> IF Recent(a) THEN events[a] ELSE 0]
WithNew(events) == [events EXCEPT ![0] = @ + 1]

RecordEvent(r) ==
  /\ samples' = [samples EXCEPT ![r] = WithNew(Trimmed(@))]
  /\ UNCHANGED <<value, version, setQueue, graceful>>

\* How many events have an age of the set: those of one age are numbered.
NumberOf(events, ages) == Cardinality(UNION {{a} \X (1..events[a]) : a \in ages})

EventCount(r) == NumberOf(samples[r], {a \in Ages : Recent(a)})

\* rate_per_s, rounded to thousandths, in thousandths.
EventRate(r) == (2 * 1000 * EventCount(r) + EventWindow) \div (2 * EventWindow)

\* Every event is a tick of the clock older.
Older(events) ==
  [a \in Ages |-> (IF a > 0 THEN events[a - 1] ELSE 0)
                   + (IF a > EventWindow THEN events[a] ELSE 0)]

FeaturesAge ==
  /\ samples' = [r \in Regions |-> Older(samples[r])]
  /\ UNCHANGED <<value, version, setQueue, graceful>>
==============================================================================
