------------------------------ MODULE HaltGate -------------------------------
(***************************************************************************)
(* The gate between the safety agent of a region and its Dispatch object:  *)
(* the agent's own view, the set_active messages on their way, and the     *)
(* flag close_epoch tests.  SafetyAgent implements it; RideCo takes Halt   *)
(* and Resume in the agent's place.                                        *)
(***************************************************************************)
EXTENDS Sequences

CONSTANT Regions

VARIABLES
  regionActive,     \* [region]: RegionSafetyAgent's region_active
  agentToDispatch,  \* [region]: set_active messages on their way
  active            \* [region]: Dispatch's active

gateVars == <<regionActive, agentToDispatch, active>>

GateInit ==
  /\ regionActive = [r \in Regions |-> TRUE]
  /\ agentToDispatch = [r \in Regions |-> << >>]
  /\ active = [r \in Regions |-> TRUE]

\* The agent opens or closes the gate: it tells Dispatch and notes it.
Set(r, open) ==
  /\ regionActive' = [regionActive EXCEPT ![r] = open]
  /\ agentToDispatch' = [agentToDispatch EXCEPT ![r] = Append(@, open)]
  /\ UNCHANGED active

Halt(r) == regionActive[r] /\ Set(r, FALSE)
Resume(r) == Set(r, TRUE)

\* Monitoring starts after a stop: the agent takes the region to be open and does
\* not tell Dispatch.
Restart(r) ==
  /\ regionActive' = [regionActive EXCEPT ![r] = TRUE]
  /\ UNCHANGED <<agentToDispatch, active>>

Deliver(r) ==
  /\ agentToDispatch[r] # << >>
  /\ active' = [active EXCEPT ![r] = Head(agentToDispatch[r])]
  /\ agentToDispatch' = [agentToDispatch EXCEPT ![r] = Tail(@)]
  /\ UNCHANGED regionActive

GateNext == \E r \in Regions : Halt(r) \/ Resume(r) \/ Restart(r) \/ Deliver(r)

GateSpec == GateInit /\ [][GateNext]_gateVars

\* What Dispatch was told last, or will be.
Told(r) == IF agentToDispatch[r] = << >> THEN active[r]
           ELSE agentToDispatch[r][Len(agentToDispatch[r])]

\* The agent and Dispatch do not disagree for good: once its messages have
\* arrived, Dispatch matches exactly when the agent believes it may
\* (region_safety_agent.py:145-147, 163-166, 178-180).
Agrees(r) == Told(r) = regionActive[r]
==============================================================================
