----------------------------- MODULE HookService -----------------------------
(***************************************************************************)
(* The Windows service of HookAgent that keeps the print host alive: the   *)
(* service control handlers of CServiceBase and SmartClientService, the    *)
(* worker thread that launches SmartClient.ServerHost.exe whenever no      *)
(* process of that name is running, and the host as far as its Main shows. *)
(*                                                                         *)
(* Every start of the service is a process of its own with its own flag,   *)
(* event and worker thread; the hosts outlive it unless they are killed.   *)
(***************************************************************************)
CONSTANTS
  Processes, \* processes of the service; one that has ended is used again
  Hosts,     \* processes of the host
  Machines   \* what may go wrong on a machine, for each kind of machine

FaultKinds ==
  {"snapshot", "launch", "kill", "wait", "bind", "host", "service"}
ASSUME FaultsAreKnown == Machines \subseteq SUBSET FaultKinds

VARIABLES
  status,   \* what the service control manager was told last
  current,  \* the process it started last
  ctl,      \* where that process is in Start or Stop
  down,     \* the machine is shutting down
  faults,   \* what may go wrong in the calls to the operating system
  alive,    \* the processes of the service that have not ended
  stopping, \* m_fStopping of each of them
  event,    \* m_hStoppedEvent of each of them is signalled
  worker,   \* where their worker thread is
  host      \* what the hosts are doing

ctlVars == <<status, current, ctl, down, faults>>
procVars == <<alive, stopping, event>>
vars == <<ctlVars, procVars, worker, host>>

Statuses == {"Stopped", "StartPending", "Running", "StopPending"}
CtlLabels == {"idle", "onstart", "started", "kill", "flag", "wait"}
WorkerLabels == {"none", "test", "check", "hook", "launch", "sleep", "signal"}
HostStates == {"none", "starting", "serving", "deaf"}

TypeOK ==
  /\ status \in Statuses
  /\ current \in Processes
  /\ ctl \in CtlLabels
  /\ down \in BOOLEAN
  /\ faults \in SUBSET FaultKinds
  /\ alive \subseteq Processes
  /\ stopping \in [Processes -> BOOLEAN]
  /\ event \in [Processes -> BOOLEAN]
  /\ worker \in [Processes -> WorkerLabels]
  /\ host \in [Hosts -> HostStates]
  /\ ctl \in {"onstart", "started"} <=> status = "StartPending"
  /\ ctl \in {"kill", "flag", "wait"} <=> status = "StopPending"

Init ==
  /\ status = "Stopped"
  /\ current \in Processes
  /\ ctl = "idle"
  /\ down = FALSE
  /\ faults \in Machines
  /\ alive = {}
  /\ stopping = [p \in Processes |-> FALSE]
  /\ event = [p \in Processes |-> FALSE]
  /\ worker = [p \in Processes |-> "none"]
  /\ host = [h \in Hosts |-> "none"]

Present == {h \in Hosts : host[h] # "none"}
Serving == {h \in Hosts : host[h] = "serving"}
Turn(p, label) == worker' = [worker EXCEPT ![p] = label]

-----------------------------------------------------------------------------
(* Starting and stopping                                                     *)

\* The manager starts a process: wmain makes a new service object and Run
\* gets it to ServiceMain and Start.
Start(p) ==
  /\ status = "Stopped" /\ ~down
  /\ p \notin alive
  /\ status' = "StartPending"
  /\ current' = p
  /\ ctl' = "onstart"
  /\ alive' = alive \cup {p}
  /\ stopping' = [stopping EXCEPT ![p] = FALSE]
  /\ event' = [event EXCEPT ![p] = FALSE]
  /\ UNCHANGED <<down, faults, worker, host>>

\* OnStart queues the worker thread; if that throws, the start is called off.
OnStart ==
  /\ ctl = "onstart"
  /\ \/ /\ Turn(current, "test")
        /\ ctl' = "started"
        /\ UNCHANGED status
     \/ /\ status' = "Stopped"
        /\ ctl' = "idle"
        /\ UNCHANGED worker
  /\ UNCHANGED <<current, down, faults, procVars, host>>

Started ==
  /\ ctl = "started"
  /\ status' = "Running"
  /\ ctl' = "idle"
  /\ UNCHANGED <<current, down, faults, procVars, worker, host>>

\* Mutant of Stop: the manager is not told that the service is stopping.
StopUnreported ==
  /\ status = "Running" /\ ctl = "idle"
  /\ ctl' = "kill"
  /\ UNCHANGED <<status, current, down, faults, procVars, worker, host>>

\* The manager passes a control on only while the service is running.
Stop ==
  /\ status = "Running" /\ ctl = "idle"
  /\ status' = "StopPending"
  /\ ctl' = "kill"
  /\ UNCHANGED <<current, down, faults, procVars, worker, host>>

\* The first host found is ended, whatever it is doing. It may not be found,
\* being past the 250 processes that are looked at, or not be allowed to end.
KILL_PROC_BY_NAME ==
  \/ \E h \in Present : host' = [host EXCEPT ![h] = "none"]
  \/ (Present = {} \/ "kill" \in faults) /\ UNCHANGED host

\* OnStop does not learn what came of it.
KillApplicationProc ==
  /\ ctl = "kill"
  /\ KILL_PROC_BY_NAME
  /\ ctl' = "flag"
  /\ UNCHANGED <<status, current, down, faults, procVars, worker>>

SetStopping ==
  /\ ctl = "flag"
  /\ stopping' = [stopping EXCEPT ![current] = TRUE]
  /\ ctl' = "wait"
  /\ UNCHANGED <<status, current, down, faults, alive, event, worker, host>>

\* Mutant of Stopped: OnStop does not wait for the worker.
StoppedUnawaited ==
  /\ ctl = "wait"
  /\ status' = "Stopped"
  /\ ctl' = "idle"
  /\ UNCHANGED <<current, down, faults, procVars, worker, host>>

Stopped ==
  /\ ctl = "wait"
  /\ event[current]
  /\ status' = "Stopped"
  /\ ctl' = "idle"
  /\ UNCHANGED <<current, down, faults, procVars, worker, host>>

\* OnStop throws, and Stop restores the status there was. The flag stays set,
\* so that the service is running from then on and its worker is not.
WaitFails ==
  /\ ctl = "wait"
  /\ "wait" \in faults
  /\ status' = "Running"
  /\ ctl' = "idle"
  /\ UNCHANGED <<current, down, faults, procVars, worker, host>>

\* Run returns once the service is stopped, and the process ends.
Exit(p) ==
  /\ p \in alive
  /\ status = "Stopped" \/ current # p
  /\ alive' = alive \ {p}
  /\ Turn(p, "none")
  /\ UNCHANGED <<ctlVars, stopping, event, host>>

\* OnShutdown does nothing: the worker is neither told nor waited for, and
\* goes on until the machine is off.
Shutdown ==
  /\ status = "Running" /\ ctl = "idle"
  /\ status' = "Stopped"
  /\ down' = TRUE
  /\ UNCHANGED <<current, ctl, faults, procVars, worker, host>>

PowerOff ==
  /\ down
  /\ down' = FALSE
  /\ alive' = {}
  /\ worker' = [p \in Processes |-> "none"]
  /\ host' = [h \in Hosts |-> "none"]
  /\ UNCHANGED <<status, current, ctl, faults, stopping, event>>

-----------------------------------------------------------------------------
(* The worker thread                                                         *)

\* Mutant of Test: the flag is tested once, in place of on every turn.
TestIgnored(p) ==
  /\ p \in alive
  /\ worker[p] = "test"
  /\ Turn(p, "check")
  /\ UNCHANGED <<ctlVars, procVars, host>>

Test(p) ==
  /\ p \in alive
  /\ worker[p] = "test"
  /\ Turn(p, IF stopping[p] THEN "signal" ELSE "check")
  /\ UNCHANGED <<ctlVars, procVars, host>>

\* isProcessRunning finds the host by its name, in whatever state it is; a
\* snapshot that fails shows no process at all.
SeesNoHost == Present = {} \/ "snapshot" \in faults
SeesHost == Present # {}

Check(p) ==
  /\ p \in alive
  /\ worker[p] = "check"
  /\ \/ SeesHost /\ Turn(p, "sleep")
     \/ SeesNoHost /\ Turn(p, "hook")
  /\ UNCHANGED <<ctlVars, procVars, host>>

\* HookTheRunTime looks once more...
CheckAgain(p) ==
  /\ p \in alive
  /\ worker[p] = "hook"
  /\ \/ SeesHost /\ Turn(p, "sleep")
     \/ SeesNoHost /\ Turn(p, "launch")
  /\ UNCHANGED <<ctlVars, procVars, host>>

\* ... before it creates the process; that this may fail is not noticed.
CreateHost(p) ==
  /\ p \in alive
  /\ worker[p] = "launch"
  /\ \E h \in Hosts \ Present : host' = [host EXCEPT ![h] = "starting"]
  /\ Turn(p, "sleep")
  /\ UNCHANGED <<ctlVars, procVars>>

CreateFails(p) ==
  /\ p \in alive
  /\ worker[p] = "launch"
  /\ "launch" \in faults
  /\ Turn(p, "sleep")
  /\ UNCHANGED <<ctlVars, procVars, host>>

\* Mutant of Sleep: the loop ends after one turn.
SleepForGood(p) ==
  /\ p \in alive
  /\ worker[p] = "sleep"
  /\ Turn(p, "signal")
  /\ UNCHANGED <<ctlVars, procVars, host>>

Sleep(p) ==
  /\ p \in alive
  /\ worker[p] = "sleep"
  /\ Turn(p, "test")
  /\ UNCHANGED <<ctlVars, procVars, host>>

SetEvent(p) ==
  /\ p \in alive
  /\ worker[p] = "signal"
  /\ event' = [event EXCEPT ![p] = TRUE]
  /\ Turn(p, "none")
  /\ UNCHANGED <<ctlVars, alive, stopping, host>>

WorkerStep(p) ==
  \/ Test(p) \/ Check(p) \/ CheckAgain(p)
  \/ CreateHost(p) \/ CreateFails(p) \/ Sleep(p) \/ SetEvent(p)

-----------------------------------------------------------------------------
(* The host                                                                  *)

\* Main starts the server on its fixed port...
Serve(h) ==
  /\ host[h] = "starting"
  /\ Serving = {}
  /\ host' = [host EXCEPT ![h] = "serving"]
  /\ UNCHANGED <<ctlVars, procVars, worker>>

\* ... and if it cannot have the port, logs that and reads the console: the
\* process stays and serves nobody.
ServeFails(h) ==
  /\ host[h] = "starting"
  /\ Serving # {} \/ "bind" \in faults
  /\ host' = [host EXCEPT ![h] = "deaf"]
  /\ UNCHANGED <<ctlVars, procVars, worker>>

HostDies(h) ==
  /\ "host" \in faults
  /\ host[h] # "none"
  /\ host' = [host EXCEPT ![h] = "none"]
  /\ UNCHANGED <<ctlVars, procVars, worker>>

ServiceDies ==
  /\ "service" \in faults
  /\ status # "Stopped"
  /\ status' = "Stopped"
  /\ ctl' = "idle"
  /\ alive' = alive \ {current}
  /\ Turn(current, "none")
  /\ UNCHANGED <<current, down, faults, stopping, event, host>>

-----------------------------------------------------------------------------

CtlStep ==
  \/ OnStart \/ Started
  \/ KillApplicationProc \/ SetStopping \/ Stopped \/ WaitFails

Next ==
  \/ CtlStep \/ Stop \/ Shutdown \/ PowerOff \/ ServiceDies
  \/ \E p \in Processes : Start(p) \/ Exit(p) \/ WorkerStep(p)
  \/ \E h \in Hosts : Serve(h) \/ ServeFails(h) \/ HostDies(h)

Spec == Init /\ [][Next]_vars

\* Threads run on; the operating system does not refuse to create a process
\* or to give the port away for ever.
Fairness ==
  /\ WF_vars(CtlStep)
  /\ \A p \in Processes : WF_vars(WorkerStep(p)) /\ SF_vars(CreateHost(p))
  /\ SF_vars(\E h \in Hosts : Serve(h))

FairSpec == Spec /\ Fairness

-----------------------------------------------------------------------------
(* Properties *)

\* There is never a second host, over any number of stops, restarts, crashes
\* and launches that fail: OnStop lets no worker outlive its service, and the
\* one worker there is looks before it launches. What it sees must be true: a
\* snapshot of the processes that fails is taken for an empty one.
AtMostOneHost ==
  "snapshot" \notin faults =>
    \A g, h \in Hosts : host[g] # "none" /\ host[h] # "none" => g = h

\* A stop comes to its end, whatever the worker is doing when it is asked for;
\* only a wait for the worker that fails calls it off.
StopEnds ==
  status = "StopPending" ~>
    \/ status = "Stopped"
    \/ status = "Running" /\ "wait" \in faults

\* A service that stays running gets a serving host again after every crash
\* of the host and every launch that fails. A host that cannot have its port
\* stays, and so does a second one, and a service whose stop was called off has
\* no worker; those machines are left out.
ServesAgain ==
  status = "Running" /\ faults \cap {"snapshot", "bind", "wait"} = {} ~>
    Serving # {} \/ status # "Running"

\* "When the service stops, kill the corresponding process"
\* (SmartClientService.cpp line 267).
HostDiesWithService ==
  status = "Stopped" /\ ~down => Present = {}
=============================================================================
