------------------------ MODULE PrintComponentProofs ------------------------
(***************************************************************************)
(* How many print components can be started, for any number of requests.   *)
(***************************************************************************)
EXTENDS PrintComponent, FiniteSetTheorems, TLAPS

\* Only the three that count launches and processes.
Shape ==
  /\ proc \in [Procs -> {"none", "client", "monitor"}]
  /\ pc \in [Calls -> {"idle", "launch", "again", "recheck", "pick", "kill",
                       "list", "terminate"}]

IInv == Shape /\ LaunchesAreBounded

-----------------------------------------------------------------------------

LEMMA AllLaunches ==
  /\ IsFiniteSet(Calls \X {1, 2})
  /\ Cardinality(Calls \X {1, 2}) = 2 * Cardinality(Calls)
<1>1. IsFiniteSet({1, 2}) /\ Cardinality({1, 2}) = 2
  <2>1. IsFiniteSet({1}) /\ Cardinality({1}) = 1
    BY FS_Singleton
  <2>2. /\ IsFiniteSet({1} \cup {2})
        /\ Cardinality({1} \cup {2})
             = IF 2 \in {1} THEN Cardinality({1}) ELSE Cardinality({1}) + 1
    BY ONLY <2>1, FS_AddElement
  <2>3. {1} \cup {2} = {1, 2}
    OBVIOUS
  <2> QED BY <2>1, <2>2, <2>3
<1>2. Cardinality(Calls) \in Nat
  BY CallsAreFinite, FS_CardinalityType
<1> QED BY <1>1, <1>2, CallsAreFinite, FS_Product

LEMMA RunningIsFinite ==
  ASSUME NEW kind
  PROVE  IsFiniteSet(Running(kind)) /\ Cardinality(Running(kind)) \in Nat
<1>1. Running(kind) \subseteq Procs
  BY DEF Running
<1> QED BY <1>1, ProcsAreFinite, FS_Subset, FS_CardinalityType

LEMMA LaunchesAreFinite ==
  /\ IsFiniteSet(Launches)
  /\ Cardinality(Launches) \in Nat
  /\ Cardinality(Launches) <= 2 * Cardinality(Calls)
<1>1. Launches \subseteq Calls \X {1, 2}
  BY DEF Launches
<1> QED BY <1>1, AllLaunches, FS_Subset, FS_CardinalityType

\* Neither more clients nor more launches keep the bound.
LEMMA NoMoreIsFine ==
  ASSUME IInv, Shape', Running("client")' \subseteq Running("client"),
         Launches' \subseteq Launches
  PROVE  IInv'
<1>1. /\ Cardinality(Running("client")') <= Cardinality(Running("client"))
      /\ Cardinality(Running("client")') \in Nat
  BY RunningIsFinite, FS_Subset, FS_CardinalityType
<1>2. /\ Cardinality(Launches') <= Cardinality(Launches)
      /\ Cardinality(Launches') \in Nat
  BY LaunchesAreFinite, FS_Subset, FS_CardinalityType
<1>3. Cardinality(Calls) \in Nat
  BY CallsAreFinite, FS_CardinalityType
<1> QED BY <1>1, <1>2, <1>3, RunningIsFinite, LaunchesAreFinite
        DEF IInv, LaunchesAreBounded

\* A request that finds no client may have all launches before it.
LEMMA NoneRunningIsFine ==
  ASSUME Shape', Running("client") = {}, proc' = proc
  PROVE  IInv'
<1>1. Running("client")' = {}
  BY DEF Running
<1>2. Cardinality(Running("client")') = 0
  BY <1>1, FS_EmptySet
<1>3. Launches' \subseteq Calls \X {1, 2}
  BY DEF Launches
<1>4. /\ Cardinality(Launches') <= 2 * Cardinality(Calls)
      /\ Cardinality(Launches') \in Nat /\ Cardinality(Calls) \in Nat
  BY <1>3, AllLaunches, CallsAreFinite, FS_Subset, FS_CardinalityType
<1> QED BY <1>2, <1>4 DEF IInv, LaunchesAreBounded

\* A launch turns one that was still to come into a client.
LEMMA LaunchIsFine ==
  ASSUME IInv, Shape', NEW p \in Procs, proc[p] = "none",
         proc' = [proc EXCEPT ![p] = "client"],
         NEW l \in Launches, Launches' \subseteq Launches \ {l}
  PROVE  IInv'
<1>1. Running("client")' = Running("client") \cup {p}
  BY DEF Running, IInv, Shape
<1>2. p \notin Running("client")
  BY DEF Running
<1>3. Cardinality(Running("client")') = Cardinality(Running("client")) + 1
  BY <1>1, <1>2, RunningIsFinite, FS_AddElement
<1>4. /\ IsFiniteSet(Launches \ {l})
      /\ Cardinality(Launches \ {l}) = Cardinality(Launches) - 1
  BY LaunchesAreFinite, FS_RemoveElement
<1>5. /\ Cardinality(Launches') <= Cardinality(Launches) - 1
      /\ Cardinality(Launches') \in Nat
  BY <1>4, FS_Subset, FS_CardinalityType
<1>6. Cardinality(Calls) \in Nat
  BY CallsAreFinite, FS_CardinalityType
<1> QED BY <1>3, <1>5, <1>6, RunningIsFinite, LaunchesAreFinite
        DEF IInv, LaunchesAreBounded

\* The monitor starts a client where there is none.
LEMMA MonitorIsFine ==
  ASSUME IInv, Shape', NEW p \in Procs, Running("client") = {},
         proc' = [proc EXCEPT ![p] = "client"], pc' = pc
  PROVE  IInv'
<1>1. Running("client")' = {p}
  BY DEF Running, IInv, Shape
<1>2. Cardinality(Running("client")') = 1
  BY <1>1, FS_Singleton
<1>3. Launches' = Launches
  BY DEF Launches
<1>4. Cardinality(Calls) \in Nat
  BY CallsAreFinite, FS_CardinalityType
<1> QED BY <1>2, <1>3, <1>4, LaunchesAreFinite DEF IInv, LaunchesAreBounded

-----------------------------------------------------------------------------

LEMMA InitIsFine == Init => IInv
<1> SUFFICES ASSUME Init PROVE IInv
  OBVIOUS
<1>1. Shape
  BY DEF Init, Shape
<1>2. Running("client") = {} /\ Launches = {}
  BY DEF Init, Running, Launches
<1>3. Cardinality(Running("client")) = 0 /\ Cardinality(Launches) = 0
  BY <1>2, FS_EmptySet
<1>4. Cardinality(Calls) \in Nat
  BY CallsAreFinite, FS_CardinalityType
<1> QED BY <1>1, <1>3, <1>4 DEF IInv, LaunchesAreBounded

\* A request goes where nothing is to be launched, or ends.
LEMMA GoingIsFine ==
  ASSUME IInv, NEW t \in Calls,
         NEW label \in {"idle", "recheck", "pick", "kill", "list",
                        "terminate"},
         pc' = [pc EXCEPT ![t] = label],
         proc' = proc \/ \E p \in Procs : Kill(p)
  PROVE  IInv'
<1>1. Shape'
  BY DEF IInv, Shape, Kill
<1>2. Running("client")' \subseteq Running("client")
  BY DEF IInv, Shape, Kill, Running
<1>3. Launches' \subseteq Launches
  BY DEF IInv, Shape, Launches
<1> QED BY <1>1, <1>2, <1>3, NoMoreIsFine

LEMMA RequestIsFine ==
  ASSUME IInv, TypeOK, NEW t \in Calls, Request(t)
  PROVE  IInv'
<1>1. ASSUME Start(t) PROVE IInv'
  <2>1. CASE Return(t, "1")
    BY <1>1, <2>1, GoingIsFine DEF Start, Return
  <2>2. CASE ~IsRunning /\ Goto(t, "launch")
    <3>1. proc' = proc /\ Running("client") = {}
      BY <1>1, <2>2 DEF Start, IsRunning
    <3>2. Shape'
      BY <2>2, <3>1 DEF Goto, IInv, Shape
    <3> QED BY <3>1, <3>2, NoneRunningIsFine
  <2> QED BY <1>1, <2>1, <2>2 DEF Start
<1>2. ASSUME Launch(t) PROVE IInv'
  <2>1. pc[t] = "launch" /\ pc' = [pc EXCEPT ![t] = "again"]
    BY <1>2 DEF Launch, Goto
  <2>2. <<t, 1>> \in Launches /\ Launches' \subseteq Launches \ {<<t, 1>>}
    BY <2>1 DEF Launches, IInv, Shape
  <2>3. CASE Appears("client")
    <3>1. PICK p \in Procs :
            proc[p] = "none" /\ proc' = [proc EXCEPT ![p] = "client"]
      BY <2>3 DEF Appears, Free
    <3>2. Shape'
      BY <2>1, <3>1 DEF IInv, Shape
    <3> QED BY <2>2, <3>1, <3>2, LaunchIsFine
  <2>4. CASE UNCHANGED proc
    <3>1. Shape' /\ Running("client")' \subseteq Running("client")
      BY <2>1, <2>4 DEF IInv, Shape, Running
    <3> QED BY <2>2, <3>1, NoMoreIsFine
  <2> QED BY <1>2, <2>3, <2>4 DEF Launch
<1>3. ASSUME LaunchAgain(t) PROVE IInv'
  <2>1. CASE Appears("client") /\ Goto(t, "recheck")
    <3>1. PICK p \in Procs :
            proc[p] = "none" /\ proc' = [proc EXCEPT ![p] = "client"]
      BY <2>1 DEF Appears, Free
    <3>2. pc[t] = "again" /\ pc' = [pc EXCEPT ![t] = "recheck"]
      BY <1>3, <2>1 DEF LaunchAgain, Goto
    <3>3. <<t, 2>> \in Launches /\ Launches' \subseteq Launches \ {<<t, 2>>}
      BY <3>2 DEF Launches, IInv, Shape
    <3>4. Shape'
      BY <3>1, <3>2 DEF IInv, Shape
    <3> QED BY <3>1, <3>3, <3>4, LaunchIsFine
  <2>2. CASE Return(t, "error") /\ UNCHANGED proc
    BY <2>2, GoingIsFine DEF Return
  <2> QED BY <1>3, <2>1, <2>2 DEF LaunchAgain
<1>4. ASSUME Recheck(t) \/ KillThrows(t) \/ NoMore(t) PROVE IInv'
  BY <1>4, GoingIsFine DEF Recheck, KillThrows, NoMore, Return
<1>5. ASSUME Restart(t) \/ Terminal(t) PROVE IInv'
  BY <1>5, GoingIsFine DEF Restart, Terminal, BeginToKill, Return, Goto
<1>6. ASSUME Pick(t) PROVE IInv'
  BY <1>6, GoingIsFine DEF Pick, Return, Goto
<1>7. ASSUME List(t) PROVE IInv'
  BY <1>7, GoingIsFine DEF List, Goto
<1>8. ASSUME KillPicked(t) \/ KillSecond(t) PROVE IInv'
  <2>1. \E p \in Procs : Kill(p)
    BY <1>8 DEF KillPicked, KillSecond, TypeOK
  <2> QED BY <1>8, <2>1, GoingIsFine DEF KillPicked, KillSecond, Return
<1>9. ASSUME KillFirst(t) PROVE IInv'
  <2>1. PICK p \in Procs : Kill(p) /\ pc' = pc
    BY <1>9 DEF KillFirst, TypeOK
  <2>2. /\ Shape' /\ Running("client")' \subseteq Running("client")
        /\ Launches' \subseteq Launches
    BY <2>1 DEF IInv, Shape, Kill, Running, Launches
  <2> QED BY <2>2, NoMoreIsFine
<1> QED BY <1>1, <1>2, <1>3, <1>4, <1>5, <1>6, <1>7, <1>8, <1>9 DEF Request

LEMMA ComponentIsFine ==
  ASSUME IInv, ComponentStarts \/ ComponentEnds
  PROVE  IInv'
<1>1. pc' = pc
  BY DEF ComponentStarts, ComponentEnds
<1>2. CASE Appears("monitor") \/ \E p \in Procs : Kill(p)
  <2>1. PICK p \in Procs, kind \in {"none", "monitor"} :
          proc' = [proc EXCEPT ![p] = kind]
    BY <1>2 DEF Appears, Kill
  <2>2. /\ Shape' /\ Running("client")' \subseteq Running("client")
        /\ Launches' \subseteq Launches
    BY <1>1, <2>1 DEF IInv, Shape, Running, Launches
  <2> QED BY <2>2, NoMoreIsFine
<1>3. CASE ~IsRunning /\ Appears("client")
  <2>1. PICK p \in Procs : proc' = [proc EXCEPT ![p] = "client"]
    BY <1>3 DEF Appears
  <2>2. Shape' /\ Running("client") = {}
    BY <1>1, <1>3, <2>1 DEF IInv, Shape, IsRunning
  <2> QED BY <1>1, <2>1, <2>2, MonitorIsFine
<1> QED BY <1>2, <1>3 DEF ComponentStarts, ComponentEnds

-----------------------------------------------------------------------------

LEMMA ReturnTypes ==
  ASSUME TypeOK, NEW t \in Calls, NEW answer \in {"0", "1", "error"},
         Return(t, answer)
  PROVE  /\ pc' \in [Calls -> {"idle", "launch", "again", "recheck", "pick",
                               "kill", "list", "terminate"}]
         /\ held' \in [Calls -> SUBSET Procs]
         /\ counter' \in [Calls -> 0 .. 1]
         /\ failed' \in [Calls -> BOOLEAN]
         /\ reply' \in [Calls -> {"none", "0", "1", "error"}]
  BY DEF TypeOK, Return

LEMMA GotoTypes ==
  ASSUME TypeOK, NEW t \in Calls,
         NEW label \in {"launch", "again", "recheck", "pick", "kill", "list",
                        "terminate"},
         Goto(t, label)
  PROVE  /\ pc' \in [Calls -> {"idle", "launch", "again", "recheck", "pick",
                               "kill", "list", "terminate"}]
         /\ reply' \in [Calls -> {"none", "0", "1", "error"}]
  BY DEF TypeOK, Goto

\* Every variable has its type, for every number of requests and processes.
THEOREM ComponentTypeCorrect == Spec => []TypeOK
<1>1. Init => TypeOK
  BY DEF Init, TypeOK
<1>2. TypeOK /\ [Next]_vars => TypeOK'
  <2> SUFFICES ASSUME TypeOK, [Next]_vars PROVE TypeOK'
    OBVIOUS
  <2> USE DEF locals
  <2>1. ASSUME NEW t \in Calls, Start(t) PROVE TypeOK'
    BY <2>1, ReturnTypes, GotoTypes DEF Start, TypeOK
  <2>2. ASSUME NEW t \in Calls, Launch(t) PROVE TypeOK'
    BY <2>2, GotoTypes DEF Launch, Appears, TypeOK
  <2>3. ASSUME NEW t \in Calls, LaunchAgain(t) PROVE TypeOK'
    BY <2>3, ReturnTypes, GotoTypes DEF LaunchAgain, Appears, TypeOK
  <2>4. ASSUME NEW t \in Calls, Recheck(t) \/ KillThrows(t) \/ NoMore(t)
        PROVE  TypeOK'
    BY <2>4, ReturnTypes DEF Recheck, KillThrows, NoMore, TypeOK
  <2>5. ASSUME NEW t \in Calls, Restart(t) \/ Terminal(t) PROVE TypeOK'
    BY <2>5, ReturnTypes, GotoTypes DEF Restart, Terminal, BeginToKill,
       TypeOK
  <2>6. ASSUME NEW t \in Calls, Pick(t) PROVE TypeOK'
    BY <2>6, ReturnTypes, GotoTypes DEF Pick, Hold, Running, TypeOK
  <2>7. ASSUME NEW t \in Calls, List(t) PROVE TypeOK'
    BY <2>7, GotoTypes DEF List, Hold, Running, TypeOK
  <2>8. ASSUME NEW t \in Calls, KillPicked(t) \/ KillSecond(t) PROVE TypeOK'
    BY <2>8, ReturnTypes DEF KillPicked, KillSecond, Kill, TypeOK
  <2>9. ASSUME NEW t \in Calls, KillFirst(t) PROVE TypeOK'
    BY <2>9 DEF KillFirst, Kill, Hold, TypeOK
  <2>10. CASE ComponentStarts
    BY <2>10 DEF ComponentStarts, Appears, TypeOK
  <2>11. CASE ComponentEnds
    BY <2>11 DEF ComponentEnds, Kill, TypeOK
  <2>12. CASE UNCHANGED vars
    BY <2>12 DEF vars, TypeOK
  <2> QED BY <2>1, <2>2, <2>3, <2>4, <2>5, <2>6, <2>7, <2>8, <2>9, <2>10,
             <2>11, <2>12 DEF Next, Request
<1> QED BY <1>1, <1>2, PTL DEF Spec

\* No more clients are started than two by each request that may be at work
\* at once and one by the monitor (SystemAppExtension.cs SatrtCaiNiaoPrinter).
THEOREM StartsAreBounded == Spec => []LaunchesAreBounded
<1>1. IInv /\ TypeOK /\ [Next]_vars => IInv'
  <2> SUFFICES ASSUME IInv, TypeOK, [Next]_vars PROVE IInv'
    OBVIOUS
  <2>1. CASE UNCHANGED vars
    <3>1. UNCHANGED <<proc, pc>>
      BY <2>1 DEF vars
    <3>2. /\ Shape' /\ Running("client")' \subseteq Running("client")
          /\ Launches' \subseteq Launches
      BY <3>1 DEF IInv, Shape, Running, Launches
    <3> QED BY <3>2, NoMoreIsFine
  <2> QED BY <2>1, RequestIsFine, ComponentIsFine DEF Next
<1>2. IInv => LaunchesAreBounded
  BY DEF IInv
<1> QED BY <1>1, <1>2, InitIsFine, ComponentTypeCorrect, PTL DEF Spec
=============================================================================
