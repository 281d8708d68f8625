--------------------------- MODULE ProcessesProofs ---------------------------
(***************************************************************************)
(* Proof about Processes that the status the dashboard shows is true, for  *)
(* any number of processes and stops, as long as `clean' holds.            *)
(*                                                                         *)
(* StatusIsTrue is not inductive: a reader that waits for an earlier       *)
(* process may still write the status.  Clean says why it cannot do so     *)
(* once a new process lives: a process that has not been reported yet is   *)
(* the current one, and tasks that an exit has woken run before the next   *)
(* spawn.                                                                  *)
(***************************************************************************)
EXTENDS Processes, TLAPS

-----------------------------------------------------------------------------
(* Types.                                                                  *)

Types ==
  /\ status \in {"stopped", "starting", "running", "dead"}
  /\ process \in Procs \cup {None}
  /\ spawning \in Nat
  /\ os \in [Procs -> Life]
  /\ eof \in [Procs -> BOOLEAN]
  /\ reader \in [Procs -> {"none", "reading", "waiting", "done"}]
  /\ waitsFor \in [Procs -> Procs \cup {None}]
  /\ \A p \in Procs : reader[p] = "waiting" => waitsFor[p] \in Procs
  /\ stop \in [Stops -> {"none", "term", "kill", "done"}]
  /\ target \in [Stops -> Procs \cup {None}]
  /\ \A k \in Stops : stop[k] \in {"term", "kill"} => target[k] \in Procs
  /\ clean \in BOOLEAN

LEMMA NoneIsNoProcess == None \notin Procs
  BY BoundsAreNumbers DEF None, Procs

LEMMA InitTypes == Init => Types
  BY DEF Init, Types, Life

LEMMA KilledType == ASSUME Types, NEW p \in Procs PROVE Killed(p) \in [Procs -> Life]
  BY DEF Types, Killed, Life

LEMMA StepTypes == ASSUME Types, [Next]_vars PROVE Types'
<1> USE DEF Types, service, system, readers, stops
<1>1. CASE StartService
  BY <1>1 DEF StartService
<1>2. CASE SpawnFails
  BY <1>2 DEF SpawnFails
<1>3. ASSUME NEW p \in Procs, Spawned(p) PROVE Types'
  BY <1>3 DEF Spawned, Life
<1>4. ASSUME NEW p \in Procs, ReaderStopsReading(p) PROVE Types'
  BY <1>4 DEF ReaderStopsReading
<1>5. ASSUME NEW p \in Procs, ReaderReports(p) PROVE Types'
  BY <1>5 DEF ReaderReports
<1>6. ASSUME NEW p \in Procs, Exits(p) PROVE Types'
  BY <1>6 DEF Exits, Life
<1>7. ASSUME NEW p \in Procs, PipeCloses(p) PROVE Types'
  BY <1>7 DEF PipeCloses, Life
<1>8. ASSUME NEW p \in Procs, ExitIsNoticed(p) PROVE Types'
  BY <1>8 DEF ExitIsNoticed, Life
<1>9. ASSUME NEW k \in Stops, StopService(k) PROVE Types'
  BY <1>9 DEF StopService
<1>10. ASSUME NEW k \in Stops, StopReturns(k) PROVE Types'
  BY <1>10 DEF StopReturns
<1>11. ASSUME NEW k \in Stops, TermTimesOut(k) PROVE Types'
  <2>1. target[k] \in Procs
    BY <1>11 DEF TermTimesOut
  <2> QED
    BY <1>11, <2>1, KilledType DEF TermTimesOut
<1>12. ASSUME NEW k \in Stops, KillTimesOut(k) PROVE Types'
  BY <1>12 DEF KillTimesOut
<1>13. CASE UNCHANGED vars
  BY <1>13 DEF vars
<1> QED
  BY <1>1, <1>2, <1>3, <1>4, <1>5, <1>6, <1>7, <1>8, <1>9, <1>10, <1>11, <1>12, <1>13 DEF Next, ReaderAtEof, ReaderBreaks

-----------------------------------------------------------------------------
(* The status.                                                             *)

\* The exit of every process there was has been reported to who waited for it.
Settled == \A p \in Procs : os[p] \in {"unborn", "woken"}

Clean ==
  /\ \A p \in Procs : os[p] # "reaped"
  /\ \A p \in Procs : os[p] \in {"alive", "exited"} => process = p
  /\ \A p \in Procs : reader[p] = "waiting" /\ os[waitsFor[p]] = "woken" => Settled
  /\ spawning \in {0, 1}
  /\ spawning = 1 => Settled
  /\ status = "running" => process # None
  /\ status = "dead" => Settled
  /\ status = "stopped" => Settled \/ Stopping
  /\ \A k \in Stops : stop[k] \in {"term", "kill"} =>
       /\ process # target[k] => process = None /\ os[target[k]] = "woken"
       /\ status = "stopped"
       /\ spawning = 0

StatusInv == clean => Clean

LEMMA InitStatus == Init => StatusInv
  BY DEF Init, StatusInv, Clean, Settled

LEMMA StartKeepsStatus ==
  ASSUME Types, StatusInv, StartService, clean'
  PROVE  Clean'
<1> USE DEF StartService, StatusInv, Clean, Settled, Stopping, system, readers, stops
<1>1. clean /\ ~ Stopping /\ spawning = 0 /\ status \in {"stopped", "dead"}
  <2>1. clean /\ ~ Stopping /\ (spawning > 0 => status = "starting")
    OBVIOUS
  <2>2. status \in {"stopped", "dead"}
    BY DEF MayStart, Types
  <2>3. spawning \in {0, 1}
    BY <2>1
  <2> HIDE DEF StartService, StatusInv, Clean, Settled, Stopping
  <2> QED
    BY <2>1, <2>2, <2>3
<1>2. Settled
  BY <1>1
<1> QED
  BY <1>1, <1>2 DEF Types

LEMMA SpawnKeepsStatus ==
  ASSUME Types, StatusInv, NEW p \in Procs, Spawned(p), clean
  PROVE  Clean'
<1> USE DEF Spawned, StatusInv, Clean, Settled, Types, stops
<1> HIDE DEF Spawned, StatusInv, Clean, Settled, Types
<1>a. Clean
  BY DEF StatusInv
<1>b. spawning > 0 /\ spawning' = spawning - 1
  BY DEF Spawned
<1>c. spawning = 1 /\ Settled
  <2>1. spawning \in {0, 1} /\ (spawning = 1 => Settled)
    BY <1>a DEF Clean
  <2> QED
    BY <1>b, <2>1
<1>1. spawning = 1 /\ spawning' = 0 /\ Settled
  BY <1>b, <1>c
<1> USE DEF Spawned, StatusInv, Clean, Settled, Types
<1>2. \A k \in Stops : stop[k] \notin {"term", "kill"} /\ stop'[k] = stop[k]
  BY <1>1
<1>3. /\ \A q \in Procs : os'[q] = IF q = p THEN "alive" ELSE os[q]
      /\ \A q \in Procs : reader'[q] = IF q = p THEN "reading" ELSE reader[q]
      /\ waitsFor' = waitsFor
  OBVIOUS
<1>4. \A q \in Procs : ~ (reader'[q] = "waiting" /\ os'[waitsFor'[q]] = "woken")
  BY <1>3 DEF Idle, ReaderReady
<1> QED
  BY <1>1, <1>2, <1>3, <1>4, NoneIsNoProcess

LEMMA SpawnFailsKeepsStatus ==
  ASSUME Types, StatusInv, SpawnFails, clean
  PROVE  Clean'
<1> USE DEF SpawnFails, StatusInv, Clean, Settled, Types, Stopping, system, readers, stops
<1>1. spawning = 1 /\ spawning' = 0 /\ Settled /\ UNCHANGED <<process, os, reader, waitsFor, stop, target>>
  OBVIOUS
<1> QED
  BY <1>1

\* A reader that reports finds no other process to be alive.
LEMMA ReaderKeepsStatus ==
  ASSUME Types, StatusInv, NEW p \in Procs, ReaderStopsReading(p) \/ ReaderReports(p), clean
  PROVE  Clean'
<1> USE DEF StatusInv, Clean, Settled, Types, Stopping, system, stops
<1>1. UNCHANGED <<process, spawning, os, stop, target>>
  BY DEF ReaderStopsReading, ReaderReports
<1>2. CASE ReaderReports(p)
  <2>1. Settled
    BY <1>2 DEF ReaderReports
  <2>2. /\ status' = IF status = "stopped" THEN status ELSE "dead"
        /\ \A q \in Procs : reader'[q] = "waiting" => reader[q] = "waiting"
        /\ waitsFor' = waitsFor
    BY <1>2 DEF ReaderReports
  <2> QED
    BY <1>1, <2>1, <2>2
<1>3. CASE ReaderStopsReading(p) /\ reader'[p] = "waiting"
  <2>1. /\ process \in Procs /\ os[process] # "woken" /\ status' = status
        /\ \A q \in Procs : reader'[q] = IF q = p THEN "waiting" ELSE reader[q]
        /\ \A q \in Procs : waitsFor'[q] = IF q = p THEN process ELSE waitsFor[q]
    BY <1>3 DEF ReaderStopsReading, HasReturncode
  <2> QED
    BY <1>1, <2>1
<1>4. CASE ReaderStopsReading(p) /\ reader'[p] # "waiting"
  <2>1. /\ \A q \in Procs : reader'[q] = "waiting" => reader[q] = "waiting"
        /\ waitsFor' = waitsFor
        /\ \/ status' = status
           \/ process \in Procs /\ os[process] = "woken" /\ status' = IF status = "stopped" THEN status ELSE "dead"
    BY <1>4 DEF ReaderStopsReading, HasReturncode
  <2>2. CASE status' = status
    BY <1>1, <2>1, <2>2
  <2>3. CASE process \in Procs /\ os[process] = "woken" /\ status' = IF status = "stopped" THEN status ELSE "dead"
    <3>1. Settled
      BY <2>3 DEF Life
    <3> QED
      BY <1>1, <2>1, <2>3, <3>1
  <2> QED
    BY <2>1, <2>2, <2>3
<1> QED
  BY <1>2, <1>3, <1>4

LEMMA SystemKeepsStatus ==
  ASSUME Types, StatusInv, NEW p \in Procs, Exits(p) \/ PipeCloses(p) \/ ExitIsNoticed(p), clean'
  PROVE  Clean'
<1> USE DEF StatusInv, Clean, Settled, Types, Stopping, service, readers, stops
<1>1. clean /\ UNCHANGED <<status, process, spawning, reader, waitsFor, stop, target>>
  BY DEF Exits, PipeCloses, ExitIsNoticed
<1>2. CASE Exits(p)
  <2>1. \A q \in Procs : os'[q] = IF q = p THEN "exited" ELSE os[q]
    BY <1>2 DEF Exits
  <2>2. os[p] = "alive"
    BY <1>2 DEF Exits, Alive
  <2>3. ~ Settled
    BY <2>2
  <2> QED
    BY <1>1, <2>1, <2>2, <2>3
<1>3. CASE PipeCloses(p)
  <2>1. os' = os
    BY <1>1, <1>3 DEF PipeCloses
  <2> QED
    BY <1>1, <2>1
<1>4. CASE ExitIsNoticed(p)
  <2>1. os[p] = "exited" /\ \A q \in Procs : os'[q] = IF q = p THEN "woken" ELSE os[q]
    BY <1>4 DEF ExitIsNoticed
  <2>2. process = p
    BY <1>1, <2>1
  <2>3. Settled'
    BY <1>1, <2>1, <2>2 DEF Life
  <2> QED
    BY <1>1, <2>1, <2>2, <2>3
<1> QED
  BY <1>2, <1>3, <1>4

LEMMA StopKeepsStatus ==
  ASSUME Types, StatusInv, NEW k \in Stops, StopService(k), clean'
  PROVE  Clean'
<1> USE DEF StatusInv, Clean, Settled, Types, Stopping, system, readers
<1>1. /\ clean /\ spawning = 0 /\ status' = "stopped"
      /\ UNCHANGED <<spawning, os, reader, waitsFor>>
  BY DEF StopService
<1>2. CASE process = None \/ HasReturncode(process)
  <2>1. /\ process' = None /\ target' = target
        /\ \A j \in Stops : stop'[j] = IF j = k THEN "done" ELSE stop[j]
    BY <1>2 DEF StopService
  <2>2. Settled
    BY <1>1, <1>2, NoneIsNoProcess DEF HasReturncode, Life
  <2>3. Settled'
    BY <1>1, <2>2
  <2>4. ASSUME NEW j \in Stops, stop'[j] \in {"term", "kill"}
        PROVE  os'[target'[j]] = "woken"
    <3>1. stop[j] \in {"term", "kill"} /\ target[j] \in Procs
      BY <2>1, <2>4
    <3>2. process # target[j] => process = None /\ os[target[j]] = "woken"
      BY <1>1, <3>1
    <3>3. process = target[j] => os[target[j]] = "woken"
      BY <1>1, <1>2, <3>1, NoneIsNoProcess DEF HasReturncode
    <3> QED
      BY <1>1, <2>1, <3>2, <3>3
  <2> HIDE DEF Stopping
  <2> QED
    BY <1>1, <2>1, <2>2, <2>3, <2>4
<1>3. CASE ~ (process = None \/ HasReturncode(process))
  <2>1. /\ process' = process /\ process \in Procs
        /\ \A j \in Stops : stop'[j] = IF j = k THEN "term" ELSE stop[j]
        /\ \A j \in Stops : target'[j] = IF j = k THEN process ELSE target[j]
    BY <1>3 DEF StopService
  <2>2. Stopping'
    BY <2>1
  <2> QED
    BY <1>1, <2>1, <2>2
<1> QED
  BY <1>2, <1>3

\* The stop that returns was of the only process there was.
LEMMA StopReturnsKeepsStatus ==
  ASSUME Types, StatusInv, NEW k \in Stops, StopReturns(k), clean
  PROVE  Clean'
<1> USE DEF StatusInv, Clean, Settled, Types, Stopping, system, readers, StopReturns
<1>1. stop[k] \in {"term", "kill"} /\ os[target[k]] = "woken" /\ target[k] \in Procs
  BY DEF StopReady
<1>2. /\ process' = None /\ status = "stopped" /\ spawning = 0
      /\ UNCHANGED <<status, spawning, os, reader, waitsFor, target>>
      /\ \A j \in Stops : stop'[j] = IF j = k THEN "done" ELSE stop[j]
  BY <1>1
<1>3. Settled
  BY <1>1, NoneIsNoProcess DEF Life
<1> QED
  BY <1>1, <1>2, <1>3, NoneIsNoProcess

LEMMA TermKeepsStatus ==
  ASSUME Types, StatusInv, NEW k \in Stops, TermTimesOut(k), clean
  PROVE  Clean'
<1> USE DEF StatusInv, Clean, Settled, Types, Stopping, readers, TermTimesOut
<1>1. stop[k] = "term" /\ target[k] \in Procs /\ os[target[k]] # "woken"
  BY DEF Idle, StopReady
<1>2. process = target[k] /\ status = "stopped" /\ ~ HasReturncode(target[k])
  BY <1>1 DEF HasReturncode
<1>3. /\ UNCHANGED <<process, status, spawning, reader, waitsFor, target>>
      /\ \A j \in Stops : stop'[j] = IF j = k THEN "kill" ELSE stop[j]
      /\ \A q \in Procs : os'[q] = IF q = target[k] /\ os[q] = "alive" THEN "exited" ELSE os[q]
  BY <1>1, <1>2 DEF Killed, Alive
<1>4. Stopping' /\ (Settled => Settled')
  BY <1>3
<1> QED
  BY <1>1, <1>2, <1>3, <1>4

LEMMA StepStatus == ASSUME Types, StatusInv, [Next]_vars PROVE StatusInv'
<1> SUFFICES ASSUME clean' PROVE Clean'
  BY DEF StatusInv
<1>1. CASE StartService
  BY <1>1, StartKeepsStatus
<1>2. CASE SpawnFails
  BY <1>2, SpawnFailsKeepsStatus DEF SpawnFails
<1>3. ASSUME NEW p \in Procs, Spawned(p) PROVE Clean'
  BY <1>3, SpawnKeepsStatus DEF Spawned
<1>4. ASSUME NEW p \in Procs, ReaderStopsReading(p) \/ ReaderReports(p) PROVE Clean'
  BY <1>4, ReaderKeepsStatus DEF ReaderStopsReading, ReaderReports
<1>5. ASSUME NEW p \in Procs, Exits(p) \/ PipeCloses(p) \/ ExitIsNoticed(p) PROVE Clean'
  BY <1>5, SystemKeepsStatus
<1>6. ASSUME NEW k \in Stops, StopService(k) PROVE Clean'
  BY <1>6, StopKeepsStatus
<1>7. ASSUME NEW k \in Stops, StopReturns(k) PROVE Clean'
  BY <1>7, StopReturnsKeepsStatus DEF StopReturns
<1>8. ASSUME NEW k \in Stops, TermTimesOut(k) PROVE Clean'
  BY <1>8, TermKeepsStatus DEF TermTimesOut
<1>9. ASSUME NEW k \in Stops, KillTimesOut(k) PROVE Clean'
  BY <1>9 DEF KillTimesOut
<1>10. CASE UNCHANGED vars
  BY <1>10 DEF vars, service, system, readers, stops, StatusInv, Clean, Settled, Stopping
<1> QED
  BY <1>1, <1>2, <1>3, <1>4, <1>5, <1>6, <1>7, <1>8, <1>9, <1>10 DEF Next, ReaderAtEof, ReaderBreaks

\* As long as no start or stop overlaps another, the status shown is true.
THEOREM StatusCorrect == Spec => []StatusIsTrue
<1>1. Init => Types /\ StatusInv
  BY InitTypes, InitStatus
<1>2. Types /\ StatusInv /\ [Next]_vars => (Types /\ StatusInv)'
  BY StepTypes, StepStatus
<1>3. Types /\ StatusInv => StatusIsTrue
  BY DEF Types, StatusInv, Clean, Settled, StatusIsTrue, AllGone, Alive, Stopping
<1> QED
  BY <1>1, <1>2, <1>3, PTL DEF Spec
==============================================================================
