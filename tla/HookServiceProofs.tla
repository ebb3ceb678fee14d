-------------------------- MODULE HookServiceProofs --------------------------
(***************************************************************************)
(* Proofs about HookService, for all sets of service processes and hosts.  *)
(***************************************************************************)
EXTENDS HookService, TLAPS

\* A worker that runs belongs to the process started last, and that process
\* is not stopped, or stopped by a shutdown that no start comes after.
WorkerIsCurrent ==
  \A p \in Processes :
    worker[p] # "none" => p = current /\ (status # "Stopped" \/ down)

\* The event stands for the end of the worker, from before there is one.
EventEndsWorker ==
  /\ \A p \in Processes : event[p] = TRUE => worker[p] = "none"
  /\ ctl = "onstart" => event[current] = FALSE /\ worker[current] = "none"

DownIsStopped == down = TRUE => status = "Stopped"

\* Only the worker that has looked launches, and it has seen no host.
LaunchSeesNone ==
  "snapshot" \notin faults =>
    \A p \in Processes :
      worker[p] = "launch" => \A h \in Hosts : host[h] = "none"

IInv ==
  /\ TypeOK /\ WorkerIsCurrent /\ EventEndsWorker /\ DownIsStopped
  /\ LaunchSeesNone /\ AtMostOneHost

-----------------------------------------------------------------------------

LEMMA StepTypeOK == TypeOK /\ [Next]_vars => TypeOK'
<1> SUFFICES ASSUME TypeOK, [Next]_vars
             PROVE  TypeOK'
  OBVIOUS
<1> USE DEF TypeOK, Statuses, CtlLabels, WorkerLabels, HostStates, Turn,
        ctlVars, procVars
<1>1. CASE UNCHANGED vars
  BY <1>1 DEF vars
<1>2. CASE CtlStep
  <2>1. CASE OnStart
    BY <2>1 DEF OnStart
  <2>2. CASE Started
    BY <2>2 DEF Started
  <2>3. CASE KillApplicationProc
    BY <2>3 DEF KillApplicationProc, KILL_PROC_BY_NAME, Present
  <2>4. CASE SetStopping
    BY <2>4 DEF SetStopping
  <2>5. CASE Stopped
    BY <2>5 DEF Stopped
  <2>6. CASE WaitFails
    BY <2>6 DEF WaitFails
  <2> QED
    BY <1>2, <2>1, <2>2, <2>3, <2>4, <2>5, <2>6 DEF CtlStep
<1>3. CASE Stop \/ Shutdown \/ PowerOff \/ ServiceDies
  BY <1>3 DEF Stop, Shutdown, PowerOff, ServiceDies
<1>4. ASSUME NEW p \in Processes, Start(p)
      PROVE  TypeOK'
  BY <1>4 DEF Start
<1>5. ASSUME NEW p \in Processes, Exit(p)
      PROVE  TypeOK'
  BY <1>5 DEF Exit
<1>6. ASSUME NEW p \in Processes, WorkerStep(p)
      PROVE  TypeOK'
  BY <1>6 DEF WorkerStep, Test, Check, CheckAgain, CreateHost, CreateFails,
              Sleep, SetEvent, Present
<1>7. ASSUME NEW h \in Hosts, Serve(h) \/ ServeFails(h) \/ HostDies(h)
      PROVE  TypeOK'
  BY <1>7 DEF Serve, ServeFails, HostDies
<1> QED
  BY <1>1, <1>2, <1>3, <1>4, <1>5, <1>6, <1>7 DEF Next

(* The model of the service keeps its types, and its status follows the      *)
(* control it is handling, in every behaviour.                               *)
THEOREM TypeCorrect == Spec => []TypeOK
<1>1. Init => TypeOK
  BY FaultsAreKnown
     DEF Init, TypeOK, Statuses, CtlLabels, WorkerLabels, HostStates
<1> QED
  BY <1>1, StepTypeOK, PTL DEF Spec

-----------------------------------------------------------------------------

LEMMA StepWorker ==
  IInv /\ [Next]_vars => WorkerIsCurrent' /\ EventEndsWorker' /\ DownIsStopped'
<1> SUFFICES ASSUME IInv, [Next]_vars
             PROVE  WorkerIsCurrent' /\ EventEndsWorker' /\ DownIsStopped'
  OBVIOUS
<1> DEFINE Goal == WorkerIsCurrent' /\ EventEndsWorker' /\ DownIsStopped'
<1>0. TypeOK /\ WorkerIsCurrent /\ EventEndsWorker /\ DownIsStopped
  BY DEF IInv
<1> USE <1>0 DEF TypeOK, WorkerIsCurrent, EventEndsWorker, DownIsStopped, Turn,
        ctlVars, procVars
<1>1. CASE UNCHANGED vars
  BY <1>1 DEF vars
<1>2. CASE OnStart
  BY <1>2 DEF OnStart
<1>3. CASE Started \/ KillApplicationProc \/ SetStopping \/ Stop
  BY <1>3 DEF Started, KillApplicationProc, SetStopping, Stop
<1>4. CASE Stopped \/ WaitFails
  BY <1>4 DEF Stopped, WaitFails
<1>5. CASE Shutdown \/ PowerOff \/ ServiceDies
  BY <1>5 DEF Shutdown, PowerOff, ServiceDies
<1>6. ASSUME NEW p \in Processes, Start(p)
      PROVE  Goal
  BY <1>6 DEF Start
<1>7. ASSUME NEW p \in Processes, Exit(p)
      PROVE  Goal
  BY <1>7 DEF Exit
<1>8. ASSUME NEW p \in Processes, WorkerStep(p)
      PROVE  Goal
  <2>1. worker[p] # "none" /\ p = current /\ ctl # "onstart" /\ event[p] = FALSE
    BY <1>8 DEF WorkerStep, Test, Check, CheckAgain, CreateHost, CreateFails,
                Sleep, SetEvent
  <2>2. CASE SetEvent(p)
    BY <2>1, <2>2 DEF SetEvent
  <2>3. CASE /\ \E l \in WorkerLabels : Turn(p, l)
             /\ UNCHANGED <<ctlVars, procVars>>
    BY <2>1, <2>3
  <2> QED
    BY <1>8, <2>2, <2>3 DEF WorkerStep, Test, Check, CheckAgain, CreateHost,
                            CreateFails, Sleep, WorkerLabels
<1>9. ASSUME NEW h \in Hosts, Serve(h) \/ ServeFails(h) \/ HostDies(h)
      PROVE  Goal
  BY <1>9 DEF Serve, ServeFails, HostDies
<1> QED
  BY <1>1, <1>2, <1>3, <1>4, <1>5, <1>6, <1>7, <1>8, <1>9 DEF Next, CtlStep

LEMMA StepHosts ==
  IInv /\ [Next]_vars => LaunchSeesNone' /\ AtMostOneHost'
<1> SUFFICES ASSUME IInv, [Next]_vars
             PROVE  LaunchSeesNone' /\ AtMostOneHost'
  OBVIOUS
<1> DEFINE Goal == LaunchSeesNone' /\ AtMostOneHost'
<1>0. /\ TypeOK /\ WorkerIsCurrent /\ EventEndsWorker
      /\ LaunchSeesNone /\ AtMostOneHost
  BY DEF IInv
<1> USE <1>0 DEF TypeOK, LaunchSeesNone, AtMostOneHost, Turn, ctlVars, procVars
<1>1. CASE UNCHANGED vars
  BY <1>1 DEF vars
<1>2. CASE CtlStep
  BY <1>2 DEF CtlStep, OnStart, Started, KillApplicationProc,
              KILL_PROC_BY_NAME, SetStopping, Stopped, WaitFails, Present
<1>3. CASE Stop \/ Shutdown \/ PowerOff \/ ServiceDies
  BY <1>3 DEF Stop, Shutdown, PowerOff, ServiceDies
<1>4. ASSUME NEW p \in Processes, Start(p) \/ Exit(p)
      PROVE  Goal
  BY <1>4 DEF Start, Exit
<1>5. ASSUME NEW p \in Processes, WorkerStep(p)
      PROVE  Goal
  <2>1. CASE CheckAgain(p)
    BY <2>1 DEF CheckAgain, SeesNoHost, SeesHost, Present
  <2>2. CASE CreateHost(p)
    <3>1. worker[p] = "launch" /\ p = current /\ worker'[p] = "sleep"
      BY <2>2 DEF CreateHost, WorkerIsCurrent
    <3>2. \A q \in Processes : worker'[q] # "launch"
      BY <2>2, <3>1 DEF CreateHost, WorkerIsCurrent
    <3> QED
      BY <2>2, <3>1, <3>2 DEF CreateHost
  <2>3. CASE /\ \E l \in WorkerLabels \ {"launch"} : Turn(p, l)
             /\ UNCHANGED <<faults, host>>
    BY <2>3
  <2> QED
    BY <1>5, <2>1, <2>2, <2>3 DEF WorkerStep, Test, Check, CreateFails, Sleep,
                                  SetEvent, WorkerLabels
<1>6. ASSUME NEW h \in Hosts, Serve(h) \/ ServeFails(h) \/ HostDies(h)
      PROVE  Goal
  BY <1>6 DEF Serve, ServeFails, HostDies
<1> QED
  BY <1>1, <1>2, <1>3, <1>4, <1>5, <1>6 DEF Next

(* However the service is stopped, restarted, shut down or killed, and       *)
(* whatever launches, kills and binds fail, no two hosts are ever running,   *)
(* as long as the snapshot of the processes does not fail.                   *)
THEOREM OneHost == Spec => []AtMostOneHost
<1>1. Init => IInv
  BY FaultsAreKnown
     DEF Init, IInv, TypeOK, WorkerIsCurrent, EventEndsWorker, DownIsStopped,
         LaunchSeesNone, AtMostOneHost, Statuses, CtlLabels, WorkerLabels,
         HostStates
<1>2. IInv /\ [Next]_vars => IInv'
  BY StepTypeOK, StepWorker, StepHosts DEF IInv
<1>3. IInv => AtMostOneHost
  BY DEF IInv
<1> QED
  BY <1>1, <1>2, <1>3, PTL DEF Spec
=============================================================================
