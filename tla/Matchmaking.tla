----------------------------- MODULE Matchmaking -----------------------------
(***************************************************************************)
(* What matching promises its riders and drivers, without objects,         *)
(* messages or epochs: a rider asks, a round gives some of those who wait  *)
(* a driver that nobody has, and a ride ends.                              *)
(***************************************************************************)
EXTENDS FiniteSets

CONSTANTS Trips, Drivers, NoDriver

VARIABLES
  waiting,  \* trips that asked and were not answered
  booked    \* [trip]: its driver while it rides, else NoDriver

matchmakingVars == <<waiting, booked>>

MatchmakingInit ==
  /\ waiting = {}
  /\ booked = [t \in Trips |-> NoDriver]

Free == {d \in Drivers : \A t \in Trips : booked[t] # d}

Ask(t) ==
  /\ t \notin waiting
  /\ waiting' = waiting \cup {t}
  /\ booked' = [booked EXCEPT ![t] = NoDriver]

Round(Served) ==
  /\ Served # {}
  /\ \E f \in [Served -> Free] :
       /\ \A t, u \in Served : f[t] = f[u] => t = u
       /\ booked' = [t \in Trips |-> IF t \in Served THEN f[t] ELSE booked[t]]
  /\ waiting' = waiting \ Served

Finish(t) ==
  /\ booked[t] # NoDriver
  /\ booked' = [booked EXCEPT ![t] = NoDriver]
  /\ UNCHANGED waiting

MatchmakingNext ==
  \/ \E t \in Trips : Ask(t) \/ Finish(t)
  \/ \E Served \in SUBSET waiting : Round(Served)

MatchmakingSpec == MatchmakingInit /\ [][MatchmakingNext]_matchmakingVars
==============================================================================
