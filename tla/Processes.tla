------------------------------ MODULE Processes ------------------------------
(***************************************************************************)
(* tui/processes.py: what the dashboard's ProcessManager does for one      *)
(* service; no step looks at another.  start_service, stop_service and the *)
(* log reader of each process are asyncio tasks that share the ServiceProc *)
(* (status, process).                                                      *)
(*                                                                         *)
(* A task runs until it awaits.  Tasks that an event has woken run, in any *)
(* order, before the loop turns to the next event: a key, an exit, the end *)
(* of a pipe, a timeout.  asyncio sets returncode when it learns of an     *)
(* exit.  Its earlier versions wake who waits for the process only once    *)
(* its pipe is closed too, which a worker left behind may hold open; later *)
(* ones wake them at once.  Both are allowed here.                         *)
(***************************************************************************)
EXTENDS Naturals

CONSTANTS
  MaxSpawns,   \* bound: processes that are spawned
  MaxStops     \* bound: calls of stop_service

ASSUME BoundsAreNumbers == MaxSpawns \in Nat /\ MaxStops \in Nat

Procs == 1..MaxSpawns
Stops == 1..MaxStops
None == 0

VARIABLES
  status, process,   \* the fields of the ServiceProc
  spawning,          \* number of start_service tasks that await their spawn
  os,                \* [process]: what has become of it, see Life
  eof,               \* [process]: its pipe is closed
  reader,            \* [process]: its log reader's step
  waitsFor,          \* [process]: the process its log reader waits for
  stop,              \* [stop_service task]: its step
  target,            \* [stop_service task]: the process it stops
  clean              \* history: no call overlapped another, no stop gave up,
                     \* and no exit was known before who waited for it knew

service == <<status, process>>
system == <<os, eof>>
readers == <<reader, waitsFor>>
stops == <<stop, target>>
vars == <<service, spawning, system, readers, stops, clean>>

\* "reaped": returncode is set; "woken": and those who waited know.
Life == {"unborn", "alive", "exited", "reaped", "woken"}

Init ==
  /\ status = "stopped"
  /\ process = None
  /\ spawning = 0
  /\ os = [p \in Procs |-> "unborn"]
  /\ eof = [p \in Procs |-> FALSE]
  /\ reader = [p \in Procs |-> "none"]
  /\ waitsFor = [p \in Procs |-> None]
  /\ stop = [k \in Stops |-> "none"]
  /\ target = [k \in Stops |-> None]
  /\ clean = TRUE

Alive(p) == os[p] = "alive"
HasReturncode(p) == os[p] \in {"reaped", "woken"}
Stopping == \E k \in Stops : stop[k] \in {"term", "kill"}

ReaderReady(p) ==
  \/ reader[p] = "reading" /\ eof[p]
  \/ reader[p] = "waiting" /\ os[waitsFor[p]] = "woken"
StopReady(k) == stop[k] \in {"term", "kill"} /\ os[target[k]] = "woken"

\* The event loop has run every task that could.
Idle == (\A p \in Procs : ~ ReaderReady(p)) /\ (\A k \in Stops : ~ StopReady(k))

-----------------------------------------------------------------------------
(* start_service.                                                          *)

\* Mutant of MayStart: a start that is under way is not looked at.
MayStartUnlessRunning == status # "running"
MayStart == status \notin {"starting", "running"}

\* Up to the spawn; a service that starts or runs is left alone.
StartService ==
  /\ Idle
  /\ MayStart
  /\ status' = "starting"
  /\ spawning' = spawning + 1
  /\ clean' = (clean /\ ~ Stopping /\ (spawning > 0 => status = "starting"))
  /\ UNCHANGED <<process, system, readers, stops>>

Spawned(p) ==
  /\ Idle
  /\ spawning > 0
  /\ os[p] = "unborn"
  /\ \A q \in Procs : q < p => os[q] # "unborn"
  /\ spawning' = spawning - 1
  /\ os' = [os EXCEPT ![p] = "alive"]
  /\ process' = p
  /\ status' = "running"
  /\ reader' = [reader EXCEPT ![p] = "reading"]
  /\ UNCHANGED <<eof, waitsFor, stops, clean>>

SpawnFails ==
  /\ Idle
  /\ spawning > 0
  /\ spawning' = spawning - 1
  /\ status' = "dead"
  /\ UNCHANGED <<process, system, readers, stops, clean>>

-----------------------------------------------------------------------------
(* _reader.                                                                *)

\* Once it reads no more it looks up the process to wait for: not necessarily its
\* own.  None has no wait() and ends the reader; an exit that is known already
\* is reported at once.
ReaderStopsReading(p) ==
  /\ reader[p] = "reading"
  /\ \/ /\ process = None
        /\ reader' = [reader EXCEPT ![p] = "done"]
        /\ UNCHANGED <<status, waitsFor>>
     \/ /\ process # None
        /\ HasReturncode(process)
        /\ reader' = [reader EXCEPT ![p] = "done"]
        /\ status' = IF status = "stopped" THEN status ELSE "dead"
        /\ UNCHANGED waitsFor
     \/ /\ process # None
        /\ ~ HasReturncode(process)
        /\ reader' = [reader EXCEPT ![p] = "waiting"]
        /\ waitsFor' = [waitsFor EXCEPT ![p] = process]
        /\ UNCHANGED status
  /\ UNCHANGED <<process, spawning, system, stops, clean>>

\* Its pipe ends.
ReaderAtEof(p) == eof[p] /\ ReaderStopsReading(p)

\* "[reader error]", as at a line that asyncio has no room for.
ReaderBreaks(p) == Idle /\ ~ eof[p] /\ ReaderStopsReading(p)

\* Mutant of ReaderReports: only the exit of a process that is starting counts.
ReaderReportsEarlyExit(p) ==
  /\ reader[p] = "waiting"
  /\ os[waitsFor[p]] = "woken"
  /\ reader' = [reader EXCEPT ![p] = "done"]
  /\ status' = IF status = "starting" THEN "dead" ELSE status
  /\ UNCHANGED <<process, spawning, system, waitsFor, stops, clean>>

ReaderReports(p) ==
  /\ reader[p] = "waiting"
  /\ os[waitsFor[p]] = "woken"
  /\ reader' = [reader EXCEPT ![p] = "done"]
  /\ status' = IF status = "stopped" THEN status ELSE "dead"
  /\ UNCHANGED <<process, spawning, system, waitsFor, stops, clean>>

-----------------------------------------------------------------------------
(* stop_service.                                                           *)

\* SIGTERM to the group and the first wait, unless there is nothing to stop.
StopService(k) ==
  /\ Idle
  /\ stop[k] = "none"
  /\ \A j \in Stops : j < k => stop[j] # "none"
  /\ status' = "stopped"
  /\ IF process = None \/ HasReturncode(process)
     THEN /\ process' = None
          /\ stop' = [stop EXCEPT ![k] = "done"]
          /\ UNCHANGED target
     ELSE /\ stop' = [stop EXCEPT ![k] = "term"]
          /\ target' = [target EXCEPT ![k] = process]
          /\ UNCHANGED process
  /\ clean' = (clean /\ spawning = 0)
  /\ UNCHANGED <<spawning, system, readers>>

\* The wait is over; finally: svc.process = None.
StopReturns(k) ==
  /\ StopReady(k)
  /\ stop' = [stop EXCEPT ![k] = "done"]
  /\ process' = None
  /\ UNCHANGED <<status, spawning, system, readers, target, clean>>

Killed(p) == IF Alive(p) THEN [os EXCEPT ![p] = "exited"] ELSE os

\* Mutant of TermTimesOut: SIGTERM is waited for without bound.
TermNeverTimesOut(k) == FALSE /\ UNCHANGED vars

\* Two seconds: SIGKILL to the group and the second wait, which is over at once
\* if the exit became known meanwhile.
TermTimesOut(k) ==
  /\ Idle
  /\ stop[k] = "term"
  /\ os' = Killed(target[k])
  /\ IF HasReturncode(target[k])
     THEN stop' = [stop EXCEPT ![k] = "done"] /\ process' = None
     ELSE stop' = [stop EXCEPT ![k] = "kill"] /\ UNCHANGED process
  /\ UNCHANGED <<status, spawning, eof, readers, target, clean>>

\* One more second: give up waiting.
KillTimesOut(k) ==
  /\ Idle
  /\ stop[k] = "kill"
  /\ stop' = [stop EXCEPT ![k] = "done"]
  /\ process' = None
  /\ clean' = FALSE
  /\ UNCHANGED <<status, spawning, system, readers, target>>

-----------------------------------------------------------------------------
(* The operating system and asyncio's watcher.                             *)

\* The process ends, by itself or at a SIGTERM.
Exits(p) ==
  /\ Idle
  /\ Alive(p)
  /\ os' = [os EXCEPT ![p] = "exited"]
  /\ UNCHANGED <<service, spawning, eof, readers, stops, clean>>

\* Nobody holds its pipe any more.  Who still waits for the process is woken.
PipeCloses(p) ==
  /\ Idle
  /\ os[p] \in {"exited", "reaped", "woken"}
  /\ ~ eof[p]
  /\ eof' = [eof EXCEPT ![p] = TRUE]
  /\ os' = [os EXCEPT ![p] = IF @ = "reaped" THEN "woken" ELSE @]
  /\ UNCHANGED <<service, spawning, readers, stops, clean>>

ExitIsNoticed(p) ==
  /\ Idle
  /\ os[p] = "exited"
  /\ \/ /\ os' = [os EXCEPT ![p] = "woken"]
        /\ UNCHANGED clean
     \/ /\ ~ eof[p]
        /\ os' = [os EXCEPT ![p] = "reaped"]
        /\ clean' = FALSE
  /\ UNCHANGED <<service, spawning, eof, readers, stops>>

-----------------------------------------------------------------------------
Next ==
  \/ StartService \/ SpawnFails
  \/ \E p \in Procs :
       \/ Spawned(p) \/ ReaderAtEof(p) \/ ReaderBreaks(p) \/ ReaderReports(p)
       \/ Exits(p) \/ PipeCloses(p) \/ ExitIsNoticed(p)
  \/ \E k \in Stops : StopService(k) \/ StopReturns(k) \/ TermTimesOut(k) \/ KillTimesOut(k)

Spec == Init /\ [][Next]_vars

\* The event loop runs the tasks that are ready and its timers fire.  Nothing is
\* asked of the processes, which need not heed SIGTERM, nor of the watcher.
FairSpec ==
  /\ Spec
  /\ \A p \in Procs : WF_vars(ReaderAtEof(p) \/ ReaderReports(p))
  /\ \A k \in Stops : WF_vars(StopReturns(k) \/ TermTimesOut(k) \/ KillTimesOut(k))

-----------------------------------------------------------------------------
AllGone == \A p \in Procs : ~ Alive(p)

\* As long as no start or stop overlaps another, what the dashboard shows is
\* true, although the readers of earlier processes still write the status: the
\* only process alive is the one a stop would find, a stopped or dead service
\* has none, and one that is being stopped is not shown as dead (processes.py:171).
StatusIsTrue ==
  clean =>
    /\ \A p \in Procs : Alive(p) => process = p
    /\ status = "running" => process # None
    /\ status = "dead" => AllGone
    /\ status = "stopped" => AllGone \/ Stopping
    /\ Stopping => status = "stopped"

\* The exit of the current process is reported, by whichever reader notices.
CrashIsReported ==
  \A p \in Procs :
    (process = p /\ os[p] = "woken" /\ eof[p]) ~> (process # p \/ status # "running")

\* stop_service is "Hard-bounded: returns in ~3.5s even if the child or its
\* workers are unresponsive" (processes.py:164-165), and "the process is gone"
\* then (processes.py:187).
StopEndsTheProcess ==
  \A k \in Stops, p \in Procs :
    (stop[k] = "term" /\ target[k] = p) ~> (stop[k] = "done" /\ ~ Alive(p))
==============================================================================
