--------------------------- MODULE PrintComponent ---------------------------
(***************************************************************************)
(* Starting, restarting and closing the CaiNiao print component over HTTP: *)
(* the methods of SystemAppExtension, called by any number of requests at  *)
(* once, and the component's own processes, a client and its monitor.      *)
(***************************************************************************)
EXTENDS Naturals, FiniteSets

CONSTANTS
  Calls, \* requests that may be at work at once
  Procs  \* process ids; bounds how many there are

ASSUME CallsAreFinite == IsFiniteSet(Calls)
ASSUME ProcsAreFinite == IsFiniteSet(Procs)

VARIABLES
  proc,    \* which process has an id
  pc,      \* what a request does next
  held,    \* the processes it is about to kill
  counter, \* of TerminalCaiNiaoPrinter
  failed,  \* the first Process.Start of SatrtCaiNiaoPrinter has thrown
  reply    \* the last answer of a request

locals == <<held, counter, failed>>
vars == <<proc, pc, locals, reply>>

TypeOK ==
  /\ proc \in [Procs -> {"none", "client", "monitor"}]
  /\ pc \in [Calls -> {"idle", "launch", "again", "recheck", "pick", "kill",
                       "list", "terminate"}]
  /\ held \in [Calls -> SUBSET Procs]
  /\ counter \in [Calls -> 0 .. 1]
  /\ failed \in [Calls -> BOOLEAN]
  /\ reply \in [Calls -> {"none", "0", "1", "error"}]

Init ==
  /\ proc = [p \in Procs |-> "none"]
  /\ pc = [t \in Calls |-> "idle"]
  /\ held = [t \in Calls |-> {}]
  /\ counter = [t \in Calls |-> 0]
  /\ failed = [t \in Calls |-> FALSE]
  /\ reply = [t \in Calls |-> "none"]

Running(kind) == {p \in Procs : proc[p] = kind}

\* CheckCaiNiaoPrinterStatus
IsRunning == Running("client") # {}

\* An id is not used again while a request knows the process it belonged to.
Free(p) == proc[p] = "none" /\ \A t \in Calls : p \notin held[t]

Appears(kind) == \E p \in Procs : Free(p) /\ proc' = [proc EXCEPT ![p] = kind]

Goto(t, label) ==
  /\ pc' = [pc EXCEPT ![t] = label]
  /\ reply' = [reply EXCEPT ![t] = "none"]

Return(t, answer) ==
  /\ pc' = [pc EXCEPT ![t] = "idle"]
  /\ reply' = [reply EXCEPT ![t] = answer]
  /\ held' = [held EXCEPT ![t] = {}]
  /\ counter' = [counter EXCEPT ![t] = 0]
  /\ failed' = [failed EXCEPT ![t] = FALSE]

-----------------------------------------------------------------------------
(* SatrtCaiNiaoPrinter *)

\* Mutant of Start: whether the component runs is not looked at.
StartUnchecked(t) ==
  /\ pc[t] = "idle"
  /\ Goto(t, "launch")
  /\ UNCHANGED <<proc, locals>>

Start(t) ==
  /\ pc[t] = "idle"
  /\ \/ IsRunning /\ Return(t, "1")
     \/ ~IsRunning /\ Goto(t, "launch") /\ UNCHANGED locals
  /\ UNCHANGED proc

\* The installed component, or the built-in one if there is none.
Launch(t) ==
  /\ pc[t] = "launch"
  /\ Goto(t, "again")
  /\ \/ Appears("client") /\ UNCHANGED failed
     \/ failed' = [failed EXCEPT ![t] = TRUE] /\ UNCHANGED proc
  /\ UNCHANGED <<held, counter>>

\* The finally block: result has not been set, so the built-in component is
\* started whatever the try block has done.
LaunchAgain(t) ==
  /\ pc[t] = "again"
  /\ \/ Appears("client") /\ Goto(t, "recheck") /\ UNCHANGED locals
     \/ Return(t, "error") /\ UNCHANGED proc

Recheck(t) ==
  /\ pc[t] = "recheck"
  /\ Return(t, IF failed[t] THEN "error" ELSE IF IsRunning THEN "1" ELSE "0")
  /\ UNCHANGED proc

-----------------------------------------------------------------------------
(* RestartCaiNiaoPrinter and TerminalCaiNiaoPrinter *)

\* A request that is to kill fails when the component does not run.
BeginToKill(t, label) ==
  /\ pc[t] = "idle"
  /\ \/ ~IsRunning /\ Return(t, "error")
     \/ IsRunning /\ Goto(t, label) /\ UNCHANGED locals
  /\ UNCHANGED proc

Restart(t) == BeginToKill(t, "pick")
Terminal(t) == BeginToKill(t, "list")

Hold(t, ps) == held' = [held EXCEPT ![t] = ps]

\* GetProcessesByName, a second look, and FirstOrDefault.
Pick(t) ==
  /\ pc[t] = "pick"
  /\ \/ ~IsRunning /\ Return(t, "0")
     \/ /\ \E p \in Running("client") : Hold(t, {p})
        /\ Goto(t, "kill")
        /\ UNCHANGED <<counter, failed>>
  /\ UNCHANGED proc

\* GetProcesses: a picture of the processes there are.
List(t) ==
  /\ pc[t] = "list"
  /\ Hold(t, Running("client") \cup Running("monitor"))
  /\ Goto(t, "terminate")
  /\ UNCHANGED <<proc, counter, failed>>

Kill(p) == proc[p] # "none" /\ proc' = [proc EXCEPT ![p] = "none"]

\* Kill throws when the process is gone.
KillThrows(t) ==
  /\ pc[t] \in {"kill", "terminate"}
  /\ \E p \in held[t] : proc[p] = "none"
  /\ Return(t, "error")
  /\ UNCHANGED proc

KillPicked(t) ==
  /\ pc[t] = "kill"
  /\ \E p \in held[t] : Kill(p)
  /\ Return(t, "1")

\* The loop goes through the processes in some order and stops after two...
KillFirst(t) ==
  /\ pc[t] = "terminate" /\ counter[t] = 0
  /\ \E p \in held[t] : Kill(p) /\ Hold(t, held[t] \ {p})
  /\ counter' = [counter EXCEPT ![t] = 1]
  /\ UNCHANGED <<pc, failed, reply>>

\* Mutant of KillSecond: the loop does not stop after two.
KillSecondAndGoOn(t) ==
  /\ pc[t] = "terminate" /\ counter[t] > 0
  /\ \E p \in held[t] : Kill(p) /\ Hold(t, held[t] \ {p})
  /\ counter' = [counter EXCEPT ![t] = @ + 1]
  /\ UNCHANGED <<pc, failed, reply>>

KillSecond(t) ==
  /\ pc[t] = "terminate" /\ counter[t] = 1
  /\ \E p \in held[t] : Kill(p)
  /\ Return(t, "1")

\* ... or when there are no more.
NoMore(t) ==
  /\ pc[t] = "terminate" /\ held[t] = {}
  /\ Return(t, "1")
  /\ UNCHANGED proc

-----------------------------------------------------------------------------
(* The component itself *)

\* A client sees to it that there is a monitor, and a monitor that there is a
\* client.
ComponentStarts ==
  /\ \/ Running("monitor") = {} /\ IsRunning /\ Appears("monitor")
     \/ Running("monitor") # {} /\ ~IsRunning /\ Appears("client")
  /\ UNCHANGED <<pc, locals, reply>>

ComponentEnds ==
  /\ \E p \in Procs : Kill(p)
  /\ UNCHANGED <<pc, locals, reply>>

-----------------------------------------------------------------------------

Request(t) ==
  \/ Start(t) \/ Launch(t) \/ LaunchAgain(t) \/ Recheck(t)
  \/ Restart(t) \/ Pick(t) \/ KillPicked(t)
  \/ Terminal(t) \/ List(t) \/ KillFirst(t) \/ KillSecond(t) \/ NoMore(t)
  \/ KillThrows(t)

Next ==
  \/ \E t \in Calls : Request(t)
  \/ ComponentStarts
  \/ ComponentEnds

Spec == Init /\ [][Next]_vars

-----------------------------------------------------------------------------
(* Properties *)

\* The launches that are still to come.
Launches ==
  {l \in Calls \X {1, 2} : \/ pc[l[1]] = "launch"
                           \/ pc[l[1]] = "again" /\ l[2] = 2}

\* However requests overlap, no more clients are started than two by each
\* request that may be at work at once and one by the monitor, in spite of the
\* status test and the launches being separate looks (SystemAppExtension.cs
\* SatrtCaiNiaoPrinter).
LaunchesAreBounded ==
  Cardinality(Running("client")) + Cardinality(Launches)
    <= 2 * Cardinality(Calls) + 1
=============================================================================
