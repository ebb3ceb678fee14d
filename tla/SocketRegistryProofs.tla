------------------------ MODULE SocketRegistryProofs ------------------------
(* What holds of SocketRegistry for any number of clients, calls, objects    *)
(* and message ids, and for any limits.                                      *)
EXTENDS SocketRegistry, FiniteSetTheorems, TLAPS

-----------------------------------------------------------------------------
(* Types                                                                     *)

(* A call that carries an answer has one, a sweep that asks asks a client.   *)
AnswerOK ==
  /\ \A t \in Calls : pc[t] \in InAnswer => answer[t] \in Clients \X Msgs
  /\ sweep = "ask" => cur \in Clients

LEMMA ResetIdle ==
  ASSUME NEW f \in [Objs -> 0..MAX_LIMIT_TIME], NEW o
  PROVE  [f EXCEPT ![o] = 0] \in [Objs -> 0..MAX_LIMIT_TIME]
<1>1. 0 \in 0..MAX_LIMIT_TIME
  BY LimitsAreNat
<1>2. QED
  BY <1>1, Zenon

LEMMA InitTypeOK == Init => TypeOK /\ AnswerOK
<1> SUFFICES ASSUME Init PROVE TypeOK /\ AnswerOK
  OBVIOUS
<1> USE LimitsAreNat, NullIsNone
<1>1. /\ DicOfUserWebSocket \in [Clients -> Objs \cup {Null}]
      /\ LstOfRecycleTasks \in SUBSET (Clients \X Msgs)
      /\ page \in [Clients -> BOOLEAN]
      /\ queries \in SUBSET (Clients \X Msgs)
  BY DEF Init
<1>2. /\ ClientId \in [Objs -> Clients \cup {Null}]
      /\ IsWillBeGarbage \in [Objs -> BOOLEAN]
      /\ idle \in [Objs -> 0..MAX_LIMIT_TIME]
      /\ asked \in [Objs -> 0..MAX_OUT_TIME]
  BY DEF Init
<1>3. /\ hasSocket \in [Objs -> BOOLEAN]
      /\ ReadyState \in [Objs -> SocketStates]
  BY DEF Init, SocketStates
<1>4. /\ pc \in [Calls -> Labels]
      /\ op \in [Calls -> {"ping", "send"}]
      /\ held \in [Calls -> Objs \cup {Null}]
      /\ answer \in [Calls -> (Clients \X Msgs) \cup {Null}]
  BY DEF Init, Labels
<1>5. /\ sweep \in SweepLabels
      /\ todo \in SUBSET Clients
      /\ cur \in Clients \cup {Null}
      /\ timer \in 0..Interval
  BY DEF Init, SweepLabels
<1>6. dirty \in BOOLEAN /\ prompt \in BOOLEAN /\ intact \in BOOLEAN
  BY DEF Init
<1>7. AnswerOK
  BY DEF Init, AnswerOK, InAnswer
<1>8. QED
  BY <1>1, <1>2, <1>3, <1>4, <1>5, <1>6, <1>7 DEF TypeOK

LEMMA StepTypeOK ==
  ASSUME TypeOK, AnswerOK, [Next]_vars
  PROVE  TypeOK' /\ AnswerOK'
<1> USE LimitsAreNat, NullIsNone
    DEF TypeOK, AnswerOK, Labels, InSend, InAnswer, SweepLabels, SocketStates,
        objVars, callVars, sweepVars, Disturbed
<1>1. ASSUME NEW t \in Calls, NEW c \in Clients, Ping(t, c)
      PROVE  TypeOK' /\ AnswerOK'
  BY <1>1 DEF Ping, Construct, Goto
<1>2. ASSUME NEW t \in Calls, NEW c \in Clients, SendFound(t, c)
      PROVE  TypeOK' /\ AnswerOK'
  BY <1>2 DEF SendFound, Goto
<1>3. ASSUME NEW t \in Calls, NEW c \in Clients, SendNotFound(t, c)
      PROVE  TypeOK' /\ AnswerOK'
  BY <1>3 DEF SendNotFound, Construct, Goto
<1>4. ASSUME NEW t \in Calls, ContainsKey(t)
      PROVE  TypeOK' /\ AnswerOK'
  BY <1>4 DEF ContainsKey, AfterInit, Return, Goto
<1>5. ASSUME NEW t \in Calls, Add(t)
      PROVE  TypeOK' /\ AnswerOK'
  <2>1. DicOfUserWebSocket' \in [Clients -> Objs \cup {Null}]
    BY <1>5 DEF Add
  <2>2. /\ pc' \in [Calls -> Labels]
        /\ op' \in [Calls -> {"ping", "send"}]
        /\ held' \in [Calls -> Objs \cup {Null}]
        /\ answer' \in [Calls -> (Clients \X Msgs) \cup {Null}]
    BY <1>5 DEF Add, AfterInit, Return, Goto
  <2>3. dirty' \in BOOLEAN
    BY <1>5 DEF Add
  <2>4. AnswerOK'
    BY <1>5 DEF Add, AfterInit, Return, Goto
  <2>5. UNCHANGED <<LstOfRecycleTasks, objVars, sweepVars, page, prompt,
                    intact, queries>>
    BY <1>5 DEF Add
  <2>6. QED
    BY <2>1, <2>2, <2>3, <2>4, <2>5
<1>5a. ASSUME NEW t \in Calls, FindSlot(t)
      PROVE  TypeOK' /\ AnswerOK'
  BY <1>5a DEF FindSlot, Goto
<1>6. ASSUME NEW t \in Calls, AddThrows(t)
      PROVE  TypeOK' /\ AnswerOK'
  BY <1>6 DEF AddThrows, Return, Goto
<1>7. ASSUME Overlap PROVE TypeOK' /\ AnswerOK'
  BY <1>7 DEF Overlap
<1>8. ASSUME NEW t \in Calls, TestState(t)
      PROVE  TypeOK' /\ AnswerOK'
  BY <1>8 DEF TestState, Return, Goto
<1>9. ASSUME NEW t \in Calls, Connect(t)
      PROVE  TypeOK' /\ AnswerOK'
  BY <1>9 DEF Connect, Return, Goto
<1>10. ASSUME NEW t \in Calls, Send(t)
      PROVE  TypeOK' /\ AnswerOK'
  <2>1. /\ pc' \in [Calls -> Labels]
        /\ op' \in [Calls -> {"ping", "send"}]
        /\ held' \in [Calls -> Objs \cup {Null}]
        /\ answer' \in [Calls -> (Clients \X Msgs) \cup {Null}]
    BY <1>10 DEF Send, Return, Goto
  <2>2. AnswerOK'
    BY <1>10 DEF Send, Return, Goto
  <2>3. UNCHANGED <<DicOfUserWebSocket, LstOfRecycleTasks, objVars, sweepVars,
                    dirty, page, prompt, intact, queries>>
    BY <1>10 DEF Send
  <2>4. QED
    BY <2>1, <2>2, <2>3
<1>11. ASSUME NEW t \in Calls, Transmit(t)
      PROVE  TypeOK' /\ AnswerOK'
  BY <1>11 DEF Transmit, Return, Goto
<1>12. ASSUME NEW t \in Calls, NEW c \in Clients, NEW m \in Msgs,
             GiveMoneyToHouseOwner(t, c, m)
      PROVE  TypeOK' /\ AnswerOK'
  BY <1>12 DEF GiveMoneyToHouseOwner, Goto
<1>13. ASSUME NEW t \in Calls, FindPair(t)
      PROVE  TypeOK' /\ AnswerOK'
  BY <1>13 DEF FindPair, Return, Goto
<1>14. ASSUME NEW t \in Calls, Strike(t)
      PROVE  TypeOK' /\ AnswerOK'
  <2>1. LstOfRecycleTasks' \in SUBSET (Clients \X Msgs)
    BY <1>14 DEF Strike, AfterChange
  <2>2. /\ pc' \in [Calls -> Labels]
        /\ answer' \in [Calls -> (Clients \X Msgs) \cup {Null}]
    BY <1>14 DEF Strike, AfterChange
  <2>3. AnswerOK'
    BY <1>14 DEF Strike, AfterChange
  <2>4. UNCHANGED <<DicOfUserWebSocket, objVars, op, held, sweepVars, dirty,
                    page, prompt, intact, queries>>
    BY <1>14 DEF Strike, AfterChange
  <2>5. QED
    BY <2>1, <2>2, <2>3, <2>4
<1>15. ASSUME NEW t \in Calls, LookUp(t)
      PROVE  TypeOK' /\ AnswerOK'
  BY <1>15 DEF LookUp, Return, Goto
<1>16. ASSUME NEW t \in Calls, ResetFlags(t)
      PROVE  TypeOK' /\ AnswerOK'
  <2>1. IsWillBeGarbage' \in [Objs -> BOOLEAN]
    BY <1>16 DEF ResetFlags, Return, Goto
  <2>2. idle' \in [Objs -> 0..MAX_LIMIT_TIME]
    BY <1>16, ResetIdle DEF ResetFlags, Return, Goto
  <2>3. /\ pc' \in [Calls -> Labels]
        /\ op' \in [Calls -> {"ping", "send"}]
        /\ held' \in [Calls -> Objs \cup {Null}]
        /\ answer' \in [Calls -> (Clients \X Msgs) \cup {Null}]
    BY <1>16 DEF ResetFlags, Return, Goto
  <2>4. AnswerOK'
    BY <1>16 DEF ResetFlags, Return, Goto
  <2>5. UNCHANGED <<DicOfUserWebSocket, LstOfRecycleTasks, ClientId, asked,
                    hasSocket, ReadyState, sweepVars, dirty, page,
                    prompt, intact, queries>>
    BY <1>16 DEF ResetFlags, Return, Goto
  <2>6. QED
    BY <2>1, <2>2, <2>3, <2>4, <2>5
<1>17. ASSUME NEW q \in queries, LoseQuery(q)
      PROVE  TypeOK' /\ AnswerOK'
  BY <1>17 DEF LoseQuery
<1>18. ASSUME NEW c \in Clients, PageLeaves(c)
      PROVE  TypeOK' /\ AnswerOK'
  BY <1>18 DEF PageLeaves
<1>19. ASSUME NEW o \in Objs, ComponentCloses(o)
      PROVE  TypeOK' /\ AnswerOK'
  BY <1>19 DEF ComponentCloses
<1>20. ASSUME Elapsed PROVE TypeOK' /\ AnswerOK'
  <2>1. /\ sweep' \in SweepLabels
        /\ todo' \in SUBSET Clients
    BY <1>20 DEF Elapsed, Entries
  <2>2. timer' \in 0..Interval
    BY <1>20 DEF Elapsed, Entries
  <2>3. dirty' \in BOOLEAN
    BY <1>20 DEF Elapsed, Entries
  <2>4. AnswerOK'
    BY <1>20 DEF Elapsed, Entries
  <2>5. UNCHANGED <<DicOfUserWebSocket, LstOfRecycleTasks, objVars, callVars,
                    cur, page, prompt, intact, queries>>
    BY <1>20 DEF Elapsed, Entries
  <2>6. QED
    BY <2>1, <2>2, <2>3, <2>4, <2>5
<1>21. ASSUME NEW c \in Clients, QueryEntry(c)
      PROVE  TypeOK' /\ AnswerOK'
  <2>1. AnswerOK'
    BY <1>21 DEF QueryEntry
  <2>2. IsWillBeGarbage' \in [Objs -> BOOLEAN]
    BY <1>21 DEF QueryEntry
  <2>3. asked' \in [Objs -> 0..MAX_OUT_TIME]
    BY <1>21 DEF QueryEntry
  <2>4. /\ sweep' \in SweepLabels
        /\ todo' \in SUBSET Clients
        /\ cur' \in Clients \cup {Null}
    BY <1>21 DEF QueryEntry
  <2>5. UNCHANGED <<DicOfUserWebSocket, LstOfRecycleTasks, queries, ClientId,
                    idle, hasSocket, ReadyState, callVars, timer, dirty, page,
                    prompt, intact>>
    BY <1>21 DEF QueryEntry
  <2>6. QED
    BY <2>1, <2>2, <2>3, <2>4, <2>5
<1>22. ASSUME AskClient PROVE TypeOK' /\ AnswerOK'
  <2>1. /\ LstOfRecycleTasks' \in SUBSET (Clients \X Msgs)
        /\ queries' \in SUBSET (Clients \X Msgs)
    BY <1>22 DEF AskClient, AfterChange
  <2>2. /\ pc' \in [Calls -> Labels]
        /\ answer' \in [Calls -> (Clients \X Msgs) \cup {Null}]
    BY <1>22 DEF AskClient, AfterChange
  <2>3. AnswerOK'
    BY <1>22 DEF AskClient, AfterChange
  <2>4. /\ sweep' \in SweepLabels
        /\ cur' \in Clients \cup {Null}
    BY <1>22 DEF AskClient, AfterChange
  <2>5. UNCHANGED <<DicOfUserWebSocket, objVars, op, held, todo, timer,
                    dirty, page, prompt, intact>>
    BY <1>22 DEF AskClient, AfterChange
  <2>6. QED
    BY <2>1, <2>2, <2>3, <2>4, <2>5
<1>23. ASSUME QueryEnds PROVE TypeOK' /\ AnswerOK'
  BY <1>23 DEF QueryEnds
<1>24. ASSUME SweepThrows PROVE TypeOK' /\ AnswerOK'
  BY <1>24 DEF SweepThrows
<1>25. ASSUME CheckOutTime PROVE TypeOK' /\ AnswerOK'
  BY <1>25 DEF CheckOutTime, Entries
<1>26. ASSUME NEW c \in Clients, CloseEntry(c)
      PROVE  TypeOK' /\ AnswerOK'
  BY <1>26 DEF CloseEntry
<1>27. ASSUME DropSocket PROVE TypeOK' /\ AnswerOK'
  BY <1>27 DEF DropSocket
<1>28. ASSUME RemoveEntry PROVE TypeOK' /\ AnswerOK'
  BY <1>28 DEF RemoveEntry
<1>29. ASSUME Tick PROVE TypeOK' /\ AnswerOK'
  BY <1>29 DEF Tick
<1>30. CASE UNCHANGED vars
  BY <1>30 DEF vars
<1>31. QED
  BY <1>1, <1>2, <1>3, <1>4, <1>5, <1>5a, <1>6, <1>7, <1>8, <1>9, <1>10,
     <1>11, <1>12, <1>13, <1>14, <1>15, <1>16, <1>17, <1>18, <1>19, <1>20,
     <1>21, <1>22, <1>23, <1>24, <1>25, <1>26, <1>27, <1>28, <1>29, <1>30
     DEF Next, Calling, CallStep, SendStep, AnswerStep, Answering, Faults,
         SweepStep

(* Every step keeps every variable in its type.                              *)
THEOREM TypeCorrect == Spec => []TypeOK
<1>1. TypeOK /\ AnswerOK /\ [Next]_vars => TypeOK' /\ AnswerOK'
  BY StepTypeOK
<1>2. QED
  BY <1>1, InitTypeOK, PTL DEF Spec

-----------------------------------------------------------------------------
(* Who holds which object                                                    *)

(* An object that has been constructed and is not yet offered to the table   *)
(* is in the hands of one call, unmarked, with its socket, and unregistered; *)
(* an object not constructed is in nobody's hands.                           *)
PrivateIsClean ==
  \A t \in Calls : pc[t] \in {"contains", "add", "insert"} =>
    LET o == held[t] IN
    /\ o \in Objs
    /\ ClientId[o] \in Clients
    /\ ~IsWillBeGarbage[o] /\ hasSocket[o]
    /\ \A c \in Clients : DicOfUserWebSocket[c] # o
    /\ \A u \in Calls \ {t} : held[u] # o

UnmadeIsClean ==
  \A o \in Objs : ClientId[o] = Null =>
    /\ ~IsWillBeGarbage[o] /\ hasSocket[o]
    /\ \A t \in Calls : held[t] # o

(* A call in the middle of an Add is alone in it, and its key is not there.   *)
InsertsAlone ==
  \A t \in Inserting :
    /\ DicOfUserWebSocket[ClientOf(t)] = Null
    /\ Inserting = {t}

(* Every entry is an object made for the client it is filed under.           *)
EntriesMatch ==
  \A c \in Entries : ClientId[DicOfUserWebSocket[c]] = c

(* The entries the sweep has still to ask, and the one it has in hand, are   *)
(* there: nobody but the sweep removes any.                                  *)
SweepHasEntries ==
  /\ sweep \in {"query", "ask"} => todo \subseteq Entries
  /\ sweep \in {"ask", "drop", "remove"} => cur \in Entries

SocketsInWindow ==
  \A c \in Entries :
    ~hasSocket[DicOfUserWebSocket[c]] => sweep = "remove" /\ cur = c

(* What holds as long as no two writers of the Dictionary overlap.           *)
SafeInv ==
  /\ TypeOK
  /\ AnswerOK
  /\ PrivateIsClean
  /\ UnmadeIsClean
  /\ InsertsAlone
  /\ EntriesMatch
  /\ SweepHasEntries
  /\ SocketsInWindow

LEMMA InitSafe == Init => SafeInv
<1> SUFFICES ASSUME Init PROVE SafeInv
  OBVIOUS
<1>1. TypeOK /\ AnswerOK
  BY InitTypeOK
<1>2. QED
  BY <1>1, NullIsNone
     DEF Init, SafeInv, PrivateIsClean, UnmadeIsClean, EntriesMatch,
         InsertsAlone, Inserting, SweepHasEntries, SocketsInWindow, Entries

LEMMA StepSafe ==
  ASSUME SafeInv, intact', [Next]_vars
  PROVE  SafeInv'
<1>0. /\ TypeOK /\ TypeOK'
      /\ AnswerOK /\ AnswerOK'
  BY StepTypeOK DEF SafeInv
<1> USE <1>0, NullIsNone
    DEF SafeInv, PrivateIsClean, UnmadeIsClean, EntriesMatch, SweepHasEntries,
        SocketsInWindow, InsertsAlone, Inserting, TypeOK, AnswerOK, InAnswer,
        Entries, ClientOf, objVars, callVars, sweepVars
<1>1. ASSUME NEW t \in Calls, NEW c \in Clients, Ping(t, c)
      PROVE  SafeInv'
  BY <1>1 DEF Ping, Construct, Goto
<1>2. ASSUME NEW t \in Calls, NEW c \in Clients, SendFound(t, c)
      PROVE  SafeInv'
  BY <1>2 DEF SendFound, Goto
<1>3. ASSUME NEW t \in Calls, NEW c \in Clients, SendNotFound(t, c)
      PROVE  SafeInv'
  BY <1>3 DEF SendNotFound, Construct, Goto
<1>4. ASSUME NEW t \in Calls, ContainsKey(t)
      PROVE  SafeInv'
  BY <1>4 DEF ContainsKey, AfterInit, Return, Goto
<1>5. ASSUME NEW t \in Calls, Add(t)
      PROVE  SafeInv'
  BY <1>5 DEF Add, AfterInit, Return, Goto
<1>5a. ASSUME NEW t \in Calls, FindSlot(t)
      PROVE  SafeInv'
  BY <1>5a DEF FindSlot, Goto
<1>6. ASSUME NEW t \in Calls, AddThrows(t)
      PROVE  SafeInv'
  BY <1>6 DEF AddThrows, Return, Goto
<1>7. ASSUME Overlap PROVE SafeInv'
  BY <1>7 DEF Overlap
<1>8. ASSUME NEW t \in Calls, TestState(t)
      PROVE  SafeInv'
  BY <1>8 DEF TestState, Return, Goto
<1>9. ASSUME NEW t \in Calls, Connect(t)
      PROVE  SafeInv'
  BY <1>9 DEF Connect, Return, Goto
<1>10. ASSUME NEW t \in Calls, Send(t)
      PROVE  SafeInv'
  BY <1>10 DEF Send, Return, Goto
<1>11. ASSUME NEW t \in Calls, Transmit(t)
      PROVE  SafeInv'
  BY <1>11 DEF Transmit, Return, Goto
<1>12. ASSUME NEW t \in Calls, NEW c \in Clients, NEW m \in Msgs,
             GiveMoneyToHouseOwner(t, c, m)
      PROVE  SafeInv'
  BY <1>12 DEF GiveMoneyToHouseOwner, Goto
<1>13. ASSUME NEW t \in Calls, FindPair(t)
      PROVE  SafeInv'
  BY <1>13 DEF FindPair, Return, Goto
<1>14. ASSUME NEW t \in Calls, Strike(t)
      PROVE  SafeInv'
  BY <1>14 DEF Strike, AfterChange
<1>15. ASSUME NEW t \in Calls, LookUp(t)
      PROVE  SafeInv'
  BY <1>15 DEF LookUp, Return, Goto
<1>16. ASSUME NEW t \in Calls, ResetFlags(t)
      PROVE  SafeInv'
  BY <1>16 DEF ResetFlags, Return, Goto
<1>17. ASSUME NEW q \in queries, LoseQuery(q)
      PROVE  SafeInv'
  BY <1>17 DEF LoseQuery
<1>18. ASSUME NEW c \in Clients, PageLeaves(c)
      PROVE  SafeInv'
  BY <1>18 DEF PageLeaves
<1>19. ASSUME NEW o \in Objs, ComponentCloses(o)
      PROVE  SafeInv'
  BY <1>19 DEF ComponentCloses
<1>20. ASSUME Elapsed PROVE SafeInv'
  BY <1>20 DEF Elapsed
<1>21. ASSUME NEW c \in Clients, QueryEntry(c)
      PROVE  SafeInv'
  BY <1>21 DEF QueryEntry
<1>22. ASSUME AskClient PROVE SafeInv'
  BY <1>22 DEF AskClient, AfterChange
<1>23. ASSUME QueryEnds PROVE SafeInv'
  BY <1>23 DEF QueryEnds
<1>24. ASSUME SweepThrows PROVE SafeInv'
  BY <1>24 DEF SweepThrows
<1>25. ASSUME CheckOutTime PROVE SafeInv'
  BY <1>25 DEF CheckOutTime
<1>26. ASSUME NEW c \in Clients, CloseEntry(c)
      PROVE  SafeInv'
  BY <1>26 DEF CloseEntry
<1>27. ASSUME DropSocket PROVE SafeInv'
  BY <1>27 DEF DropSocket
<1>28. ASSUME RemoveEntry PROVE SafeInv'
  BY <1>28 DEF RemoveEntry
<1>29. ASSUME Tick PROVE SafeInv'
  BY <1>29 DEF Tick
<1>30. CASE UNCHANGED vars
  BY <1>30 DEF vars
<1>31. QED
  BY <1>1, <1>2, <1>3, <1>4, <1>5, <1>5a, <1>6, <1>7, <1>8, <1>9, <1>10,
     <1>11, <1>12, <1>13, <1>14, <1>15, <1>16, <1>17, <1>18, <1>19, <1>20,
     <1>21, <1>22, <1>23, <1>24, <1>25, <1>26, <1>27, <1>28, <1>29, <1>30
     DEF Next, Calling, CallStep, SendStep, AnswerStep, Answering, Faults,
         SweepStep

(* Once two writers have overlapped the Dictionary is never intact again.    *)
LEMMA IntactBefore == ASSUME TypeOK, intact', [Next]_vars PROVE intact
<1>1. intact' = intact
  BY DEF vars, Next, Calling, CallStep, SendStep, AnswerStep, Answering,
         Faults, SweepStep, Ping, SendFound, SendNotFound, ContainsKey,
         FindSlot, Add, AddThrows, Overlap, TestState, Connect, Send,
         Transmit, GiveMoneyToHouseOwner, FindPair, Strike, LookUp,
         ResetFlags, LoseQuery, PageLeaves, ComponentCloses, Elapsed,
         QueryEntry, AskClient, QueryEnds, SweepThrows, CheckOutTime,
         CloseEntry, DropSocket, RemoveEntry, Tick
<1> QED
  BY <1>1

LEMMA SafeHolds == Spec => [](intact => SafeInv)
<1>1. Init => SafeInv
  BY InitSafe
<1>2. TypeOK /\ (intact => SafeInv) /\ [Next]_vars => (intact' => SafeInv')
  BY IntactBefore, StepSafe
<1>3. QED
  BY <1>1, <1>2, TypeCorrect, PTL DEF Spec

(* Where accesses do not overlap the Dictionary stays intact.                *)
LEMMA AtomicIsIntact ==
  ASSUME Races = FALSE PROVE Spec => [](intact /\ SafeInv)
<1>1. Init => intact
  BY DEF Init
<1>2. intact /\ [Next]_vars => intact'
  BY DEF vars, Next, Calling, CallStep, SendStep, AnswerStep, Answering,
         Faults, SweepStep, Ping, SendFound, SendNotFound, ContainsKey,
         FindSlot, Add, AddThrows, Overlap, TestState, Connect, Send,
         Transmit, GiveMoneyToHouseOwner, FindPair, Strike, LookUp,
         ResetFlags, LoseQuery, PageLeaves, ComponentCloses, Elapsed,
         QueryEntry, AskClient, QueryEnds, SweepThrows, CheckOutTime,
         CloseEntry, DropSocket, RemoveEntry, Tick
<1>3. QED
  BY <1>1, <1>2, SafeHolds, PTL DEF Spec

(* A look-up meets an object without a socket only between the sweep's       *)
(* Recycle and Remove of that very entry, however hub calls overlap, until   *)
(* two of them write the Dictionary at once.                                 *)
THEOREM OneWindow == Spec => []RecycledOnlyInWindow
<1>1. (intact => SafeInv) => RecycledOnlyInWindow
  BY DEF SafeInv, SocketsInWindow, RecycledOnlyInWindow
<1>2. QED
  BY <1>1, SafeHolds, PTL

LEMMA EntryStays ==
  ASSUME SafeInv, intact', Next, NEW c \in Entries,
         DicOfUserWebSocket'[c] # DicOfUserWebSocket[c]
  PROVE  /\ sweep = "remove" /\ cur = c
         /\ DicOfUserWebSocket'[c] = Null
<1> USE DEF Entries, objVars, callVars, sweepVars, SafeInv, TypeOK
<1>1. ASSUME NEW t \in Calls, Add(t) PROVE FALSE
  BY <1>1 DEF Add, InsertsAlone, Inserting
<1>2. ~Overlap
  BY DEF Overlap
<1>3. RemoveEntry
  BY <1>1, <1>2
     DEF Next, Calling, CallStep, SendStep, AnswerStep, Answering, Faults,
         SweepStep, Ping, SendFound, SendNotFound, ContainsKey, FindSlot,
         AddThrows, TestState, Connect, Send, Transmit, GiveMoneyToHouseOwner,
         FindPair, Strike, LookUp, ResetFlags, LoseQuery, PageLeaves,
         ComponentCloses, Elapsed, QueryEntry, AskClient, QueryEnds,
         SweepThrows, CheckOutTime, CloseEntry, DropSocket, Tick
<1>4. QED
  BY <1>3 DEF RemoveEntry

(* An entry changes only when the sweep removes the one it has recycled:     *)
(* calls that race to register a client between ContainsKey and Add replace  *)
(* nothing, until two accesses that write the Dictionary overlap.            *)
THEOREM EntriesStay == Spec => RegistrationIsStable
<1> DEFINE Stable == intact' => \A c \in Entries :
                       DicOfUserWebSocket'[c] # DicOfUserWebSocket[c] =>
                         /\ sweep = "remove" /\ cur = c
                         /\ DicOfUserWebSocket'[c] = Null
<1>1. TypeOK /\ (intact => SafeInv) /\ [Next]_vars => [Stable]_vars
  BY EntryStays, IntactBefore
<1>2. QED
  BY <1>1, SafeHolds, TypeCorrect, PTL DEF Spec, RegistrationIsStable

-----------------------------------------------------------------------------
(* Marks and queries, as long as calls do not overlap in the collections     *)

LEMMA EntryKept ==
  ASSUME SafeInv, intact', Next, NEW c \in Entries, c \in Entries'
  PROVE  DicOfUserWebSocket'[c] = DicOfUserWebSocket[c]
  BY EntryStays DEF Entries

(* Only the sweep marks, and it goes on to ask the client.                   *)
LEMMA MarkIsNew ==
  ASSUME SafeInv, Next, NEW o \in Objs,
         IsWillBeGarbage'[o], ~IsWillBeGarbage[o]
  PROVE  \E c \in Entries : DicOfUserWebSocket[c] = o /\ QueryEntry(c)
                            /\ sweep' = "ask" /\ cur' = c
<1> USE DEF objVars, callVars, sweepVars, SafeInv, TypeOK
<1>1. ASSUME NEW t \in Calls, ResetFlags(t) PROVE FALSE
  BY <1>1 DEF ResetFlags
<1>2. PICK c \in Clients : QueryEntry(c)
  BY <1>1
     DEF Next, Calling, CallStep, SendStep, AnswerStep, Answering, Faults,
         SweepStep, Ping, SendFound, SendNotFound, ContainsKey, FindSlot,
         Add, AddThrows, Overlap, TestState, Connect, Send, Transmit,
         GiveMoneyToHouseOwner, FindPair, Strike, LookUp, LoseQuery,
         PageLeaves, ComponentCloses, Elapsed, AskClient, QueryEnds,
         SweepThrows, CheckOutTime, CloseEntry, DropSocket, RemoveEntry, Tick,
         Construct
<1>3. QED
  BY <1>2, NullIsNone DEF QueryEntry, SweepHasEntries

(* Nothing but an answer takes a pair out, and it takes its own.             *)
LEMMA PairStays ==
  ASSUME ~Races, SafeInv, Next,
         NEW q \in LstOfRecycleTasks, q \notin LstOfRecycleTasks'
  PROVE  \E t \in Calls : Strike(t) /\ answer[t] = q
<1> USE DEF objVars, callVars, sweepVars
<1>1. PICK t \in Calls : Strike(t)
  BY DEF Next, Calling, CallStep, SendStep, AnswerStep, Answering, Faults,
         SweepStep, Ping, SendFound, SendNotFound, ContainsKey, FindSlot,
         Add, AddThrows, Overlap, TestState, Connect, Send, Transmit,
         GiveMoneyToHouseOwner, FindPair, LookUp, ResetFlags, LoseQuery,
         PageLeaves, ComponentCloses, Elapsed, QueryEntry, AskClient,
         QueryEnds, SweepThrows, CheckOutTime, CloseEntry, DropSocket,
         RemoveEntry, Tick
<1>2. QED
  BY <1>1 DEF Strike

(* A call that has taken an answer goes on with it undisturbed.              *)
LEMMA AnswerStays ==
  ASSUME ~Races, SafeInv, Next, NEW t \in Calls,
         pc[t] \in InAnswer, ~AnswerStep(t)
  PROVE  pc'[t] = pc[t] /\ answer'[t] = answer[t] /\ held'[t] = held[t]
<1> DEFINE Kept == /\ pc'[t] = pc[t]
                   /\ answer'[t] = answer[t]
                   /\ held'[t] = held[t]
<1> USE DEF SafeInv, TypeOK, InAnswer
<1>1. ASSUME NEW u \in Calls, SendStep(u) PROVE Kept
  BY <1>1 DEF SendStep, ContainsKey, FindSlot, Add, AddThrows, TestState,
              Connect, Send, Transmit, AfterInit, Return, Goto, callVars
<1>2. ASSUME Overlap PROVE Kept
  BY <1>2 DEF Overlap, callVars
<1>3. ASSUME NEW u \in Calls, AnswerStep(u) PROVE Kept
  BY <1>3 DEF AnswerStep, FindPair, Strike, LookUp, ResetFlags, AfterChange,
              Disturbed, Return, Goto, callVars
<1>4. ASSUME NEW u \in Calls, NEW c \in Clients,
             Ping(u, c) \/ SendFound(u, c) \/ SendNotFound(u, c)
      PROVE  Kept
  BY <1>4 DEF Ping, SendFound, SendNotFound, Construct, Goto, Busy
<1>5. ASSUME NEW u \in Calls, NEW c \in Clients, NEW m \in Msgs,
             GiveMoneyToHouseOwner(u, c, m)
      PROVE  Kept
  BY <1>5 DEF GiveMoneyToHouseOwner, Goto, Busy
<1>6. CASE AskClient
  BY <1>6 DEF AskClient, AfterChange, Disturbed
<1>7. CASE UNCHANGED callVars
  BY <1>7 DEF callVars
<1>8. QED
  BY <1>1, <1>2, <1>3, <1>4, <1>5, <1>6, <1>7
     DEF Next, Calling, CallStep, Answering, Faults, LoseQuery, PageLeaves,
         ComponentCloses, SweepStep, Elapsed, QueryEntry, QueryEnds,
         SweepThrows, CheckOutTime, CloseEntry, DropSocket, RemoveEntry, Tick

(* A mark is new, not the object that bears it: a new object is clean.       *)
LEMMA NewMark ==
  ASSUME SafeInv, intact', Next, NEW c \in Clients, Marked(c)', ~Marked(c)
  PROVE  QueryEntry(c) /\ AboutToBeAsked(c)'
<1>1. CASE c \in Entries
  <2>1. DicOfUserWebSocket'[c] = DicOfUserWebSocket[c]
    BY <1>1, EntryKept DEF Marked
  <2>2. PICK d \in Entries : /\ DicOfUserWebSocket[d] = DicOfUserWebSocket[c]
                             /\ QueryEntry(d) /\ sweep' = "ask" /\ cur' = d
    BY <1>1, <2>1, MarkIsNew, NullIsNone DEF Marked, Entries, SafeInv, TypeOK
  <2>3. d = c
    BY <1>1, <2>2 DEF SafeInv, EntriesMatch
  <2>4. QED
    BY <2>2, <2>3 DEF AboutToBeAsked
<1>2. CASE c \notin Entries
  <2>1. PICK t \in Calls : /\ pc[t] = "insert"
                           /\ DicOfUserWebSocket'[c] = held[t]
                           /\ UNCHANGED IsWillBeGarbage
    BY <1>2
       DEF Marked, Entries, SafeInv, TypeOK, objVars, callVars, sweepVars,
           Next, Calling, CallStep, SendStep, AnswerStep, Answering, Faults,
           SweepStep, Ping, SendFound, SendNotFound, ContainsKey, FindSlot,
           Add, AddThrows, Overlap, TestState, Connect, Send, Transmit,
           GiveMoneyToHouseOwner, FindPair, Strike, LookUp, ResetFlags,
           LoseQuery, PageLeaves, ComponentCloses, Elapsed, QueryEntry,
           AskClient, QueryEnds, SweepThrows, CheckOutTime, CloseEntry,
           DropSocket, RemoveEntry, Tick
  <2>2. QED
    BY <2>1 DEF Marked, SafeInv, PrivateIsClean
<1>3. QED
  BY <1>1, <1>2

LEMMA StepMarked ==
  ASSUME ~Races, SafeInv, intact', MarkedIsRecoverable, [Next]_vars
  PROVE  MarkedIsRecoverable'
<1>1. CASE UNCHANGED vars
  BY <1>1 DEF vars, objVars, callVars, sweepVars, MarkedIsRecoverable, Marked,
              AboutToBeAsked, CanAnswer, HasAnswered, Entries
<1>2. CASE Next
  <2> SUFFICES ASSUME NEW c \in Clients, Marked(c)'
               PROVE  (AboutToBeAsked(c) \/ CanAnswer(c) \/ HasAnswered(c))'
    BY DEF MarkedIsRecoverable
  <2>1. CASE ~Marked(c)
    BY <1>2, <2>1, NewMark
  <2>2. CASE Marked(c)
    <3>0. DicOfUserWebSocket'[c] = DicOfUserWebSocket[c]
      BY <1>2, <2>2, EntryKept DEF Marked
    <3>1. CASE AboutToBeAsked(c)
      <4>1. CASE AskClient
        BY <3>1, <4>1 DEF AboutToBeAsked, AskClient, CanAnswer, Disturbed
      <4>2. CASE ~AskClient
        BY <1>2, <3>1, <4>2
           DEF AboutToBeAsked, objVars, callVars, sweepVars, RemoveEntry, Add,
               Overlap, Next, Calling, CallStep, SendStep, AnswerStep,
               Answering, Faults, SweepStep, Ping, SendFound, SendNotFound,
               ContainsKey, FindSlot, AddThrows, TestState, Connect, Send,
               Transmit, GiveMoneyToHouseOwner, FindPair, Strike, LookUp,
               ResetFlags, LoseQuery, PageLeaves, ComponentCloses, Elapsed,
               QueryEntry, QueryEnds, SweepThrows, CheckOutTime, CloseEntry,
               DropSocket, Tick
      <4>3. QED
        BY <4>1, <4>2
    <3>2. CASE CanAnswer(c)
      <4>1. PICK m \in Msgs : <<c, m>> \in LstOfRecycleTasks
        BY <3>2 DEF CanAnswer
      <4>2. CASE <<c, m>> \in LstOfRecycleTasks'
        BY <4>2 DEF CanAnswer
      <4>3. CASE <<c, m>> \notin LstOfRecycleTasks'
        <5>1. PICK t \in Calls : Strike(t) /\ answer[t] = <<c, m>>
          BY <1>2, <4>1, <4>3, PairStays
        <5>2. pc'[t] = "lookup" /\ answer'[t] = <<c, m>>
          BY <5>1 DEF Strike, AfterChange, Disturbed, SafeInv, TypeOK
        <5>3. QED
          BY <5>2 DEF HasAnswered
      <4>4. QED
        BY <4>2, <4>3
    <3>3. CASE HasAnswered(c)
      <4>1. PICK t \in Calls :
              \/ pc[t] = "lookup" /\ answer[t][1] = c
              \/ pc[t] = "reset" /\ held[t] = DicOfUserWebSocket[c]
        BY <3>3 DEF HasAnswered
      <4>2. CASE LookUp(t)
        <5>1. pc'[t] = "reset" /\ held'[t] = DicOfUserWebSocket'[c]
          BY <2>2, <3>0, <4>1, <4>2
             DEF LookUp, Goto, Marked, Entries, SafeInv, TypeOK
        <5>2. QED
          BY <5>1 DEF HasAnswered
      <4>3. CASE ResetFlags(t)
        BY <2>2, <3>0, <4>1, <4>3, NullIsNone
           DEF ResetFlags, Marked, Entries, SafeInv, TypeOK
      <4>4. CASE ~LookUp(t) /\ ~ResetFlags(t)
        <5>1. pc'[t] = pc[t] /\ answer'[t] = answer[t] /\ held'[t] = held[t]
          BY <1>2, <4>1, <4>4, AnswerStays
             DEF AnswerStep, FindPair, Strike, InAnswer
        <5>2. QED
          BY <3>0, <4>1, <5>1 DEF HasAnswered
      <4>5. QED
        BY <4>2, <4>3, <4>4
    <3>4. QED
      BY <2>2, <3>1, <3>2, <3>3 DEF MarkedIsRecoverable
  <2>3. QED
    BY <2>1, <2>2
<1>3. QED
  BY <1>1, <1>2

(* While a registered object is marked, its client is about to be asked, or  *)
(* can still answer, or has just answered. Overlapping accesses to the list  *)
(* would lose queries and answers.                                           *)
THEOREM MarkedCanAnswer ==
  ASSUME Races = FALSE PROVE Spec => []MarkedIsRecoverable
<1>1. Init => MarkedIsRecoverable
  BY DEF Init, MarkedIsRecoverable, Marked, Entries
<1>2. SafeInv /\ intact' /\ MarkedIsRecoverable /\ [Next]_vars
        => MarkedIsRecoverable'
  BY StepMarked
<1>3. QED
  BY <1>1, <1>2, AtomicIsIntact, PTL DEF Spec

-----------------------------------------------------------------------------
(* Pages that answer in time                                                 *)

(* The query has been broadcast, or its answer been taken in.                *)
IsOpen(q) ==
  \/ q \in queries
  \/ \E t \in Calls : pc[t] \in {"find", "strike"} /\ answer[t] = q

(* Time stands still while a query is open, so a mark is never old, and the  *)
(* sweep never gets past its check.                                          *)
PromptInv ==
  /\ \A q \in LstOfRecycleTasks : IsOpen(q)
  /\ \A c \in Clients : Marked(c) => asked[DicOfUserWebSocket[c]] = 0
  /\ page = [c \in Clients |-> TRUE]
  /\ sweep \in {"idle", "query", "ask", "check"}

(* A step that leaves prompt true is none of a page that fails to answer.    *)
PromptNext ==
  \/ Calling \/ Answering \/ SweepStep
  \/ Tick /\ NothingUnanswered
  \/ \E o \in Objs : ComponentCloses(o)

LEMMA PromptIsKept ==
  ASSUME Next, prompt' = TRUE
  PROVE  PromptNext /\ prompt = TRUE
<1>1. CASE Calling
  BY <1>1 DEF PromptNext, Calling, CallStep, SendStep, AnswerStep, Ping,
              SendFound, SendNotFound, ContainsKey, FindSlot, Add, AddThrows,
              Overlap, TestState, Connect, Send, Transmit, FindPair, Strike,
              LookUp, ResetFlags
<1>2. CASE Answering
  BY <1>2 DEF PromptNext, Answering, GiveMoneyToHouseOwner
<1>3. CASE Faults
  BY <1>3 DEF Faults, LoseQuery, PageLeaves
<1>4. CASE SweepStep
  BY <1>4 DEF PromptNext, SweepStep, Elapsed, QueryEntry, AskClient, QueryEnds,
              SweepThrows, CheckOutTime, CloseEntry, DropSocket, RemoveEntry
<1>5. CASE Tick
  BY <1>5 DEF PromptNext, Tick
<1>6. CASE \E o \in Objs : ComponentCloses(o)
  BY <1>6 DEF PromptNext, ComponentCloses
<1>7. QED
  BY <1>1, <1>2, <1>3, <1>4, <1>5, <1>6 DEF Next

LEMMA PromptIsNext == PromptNext => Next
  BY DEF PromptNext, Next

(* The pair of a query stays open: it is broadcast, or taken by a call that  *)
(* has yet to strike it out.                                                 *)
LEMMA StepOpen ==
  ASSUME ~Races, SafeInv, PromptInv, PromptNext, NEW q \in LstOfRecycleTasks'
  PROVE  IsOpen(q)'
<1> USE DEF PromptInv, SafeInv, TypeOK, IsOpen
<1> DEFINE Taken(t) == pc[t] \in {"find", "strike"} /\ answer[t] = q
           Given == \E t \in Calls, c \in Clients, m \in Msgs :
                      GiveMoneyToHouseOwner(t, c, m)
<1>1. ASSUME AskClient
      PROVE  IsOpen(q)'
  <2>1. pc' = pc /\ answer' = answer
    BY <1>1 DEF AskClient, AfterChange, Disturbed
  <2>2. q \in LstOfRecycleTasks \/ q \in queries'
    BY <1>1 DEF AskClient, AnswerOK
  <2>3. queries \subseteq queries'
    BY <1>1 DEF AskClient
  <2>4. QED
    BY <2>1, <2>2, <2>3
<1>2. ASSUME NEW t \in Calls, NEW c \in Clients, NEW m \in Msgs,
             GiveMoneyToHouseOwner(t, c, m)
      PROVE  IsOpen(q)'
  BY <1>2 DEF GiveMoneyToHouseOwner, Goto, Busy
<1>3. ASSUME ~AskClient, ~Given
      PROVE  q \in LstOfRecycleTasks /\ queries' = queries
  BY <1>3
     DEF PromptNext, Calling, CallStep, SendStep, AnswerStep, Answering,
         SweepStep, Ping, SendFound, SendNotFound, ContainsKey, FindSlot,
         Add, AddThrows, Overlap, TestState, Connect, Send, Transmit, FindPair,
         Strike, LookUp, ResetFlags, ComponentCloses, Elapsed, QueryEntry,
         QueryEnds, SweepThrows, CheckOutTime, CloseEntry, DropSocket,
         RemoveEntry, Tick
<1>4. ASSUME NEW t \in Calls, Taken(t), ~FindPair(t), ~Strike(t)
      PROVE  pc'[t] = pc[t] /\ answer'[t] = answer[t]
  BY <1>4, PromptIsNext, AnswerStays
     DEF AnswerStep, LookUp, ResetFlags, InAnswer
<1>5. ASSUME NEW t \in Calls, Taken(t), FindPair(t), q \in LstOfRecycleTasks
      PROVE  pc'[t] = "strike" /\ answer'[t] = q
  BY <1>5 DEF FindPair, Goto
<1>6. ASSUME NEW t \in Calls, Taken(t), Strike(t)
      PROVE  FALSE
  BY <1>6 DEF Strike
<1>7. QED
  <2>1. CASE AskClient \/ Given
    BY <1>1, <1>2, <2>1
  <2>2. CASE ~(AskClient \/ Given)
    <3>1. q \in LstOfRecycleTasks /\ queries' = queries
      BY <1>3, <2>2
    <3>2. CASE q \in queries
      BY <3>1, <3>2
    <3>3. CASE \E t \in Calls : Taken(t)
      BY <1>4, <1>5, <1>6, <2>2, <3>1, <3>3
    <3>4. QED
      BY <3>1, <3>2, <3>3
  <2>3. QED
    BY <2>1, <2>2

LEMMA StepPrompt ==
  ASSUME ~Races, SafeInv, intact', MarkedIsRecoverable, PromptInv,
         [PromptNext]_vars
  PROVE  PromptInv'
<1>1. CASE UNCHANGED vars
  BY <1>1 DEF vars, objVars, callVars, sweepVars, PromptInv, IsOpen, Marked,
              Entries
<1>2. CASE PromptNext
  <2>0. Next
    BY <1>2, PromptIsNext
  <2>1. ASSUME NEW q \in LstOfRecycleTasks'
        PROVE  IsOpen(q)'
    BY <1>2, <2>1, StepOpen
  <2>2. ASSUME NEW c \in Clients, Marked(c)'
        PROVE  asked'[DicOfUserWebSocket'[c]] = 0
    <3>1. CASE ~Marked(c)
      <4>1. QueryEntry(c)
        BY <2>0, <2>2, <3>1, NewMark
      <4>2. QED
        BY <2>2, <3>1, <4>1, NullIsNone
           DEF QueryEntry, Marked, Entries, SafeInv, TypeOK
    <3>2. CASE Marked(c)
      <4>1. DicOfUserWebSocket'[c] = DicOfUserWebSocket[c]
        BY <2>0, <2>2, <3>2, EntryKept DEF Marked
      <4>2. ~(Tick /\ NothingUnanswered)
        BY <3>2
           DEF PromptInv, IsOpen, MarkedIsRecoverable, AboutToBeAsked,
               CanAnswer, HasAnswered, NothingUnanswered, InAnswer
      <4>3. asked[DicOfUserWebSocket[c]] = 0
        BY <3>2 DEF PromptInv
      <4>4. asked' = asked \/ \E d \in Clients : QueryEntry(d)
        BY <1>2, <4>2
           DEF objVars, Construct, PromptNext, Calling, CallStep, SendStep,
               AnswerStep, Answering, SweepStep, Ping, SendFound, SendNotFound,
               ContainsKey, FindSlot, Add, AddThrows, Overlap, TestState,
               Connect, Send, Transmit, GiveMoneyToHouseOwner, FindPair, Strike,
               LookUp, ResetFlags, ComponentCloses, Elapsed, AskClient,
               QueryEnds, SweepThrows, CheckOutTime, CloseEntry, DropSocket,
               RemoveEntry
      <4>5. CASE asked' = asked
        BY <4>1, <4>3, <4>5
      <4>6. ASSUME NEW d \in Clients, QueryEntry(d)
            PROVE  asked'[DicOfUserWebSocket'[c]] = 0
        BY <3>2, <4>1, <4>3, <4>6
           DEF QueryEntry, Marked, Entries, SafeInv, TypeOK
      <4>7. QED
        BY <4>4, <4>5, <4>6
    <3>3. QED
      BY <3>1, <3>2
  <2>3. page' = page
    BY <1>2
       DEF PromptNext, Calling, CallStep, SendStep, AnswerStep, Answering,
           SweepStep, Ping, SendFound, SendNotFound, ContainsKey, FindSlot,
           Add, AddThrows, Overlap, TestState, Connect, Send, Transmit,
           GiveMoneyToHouseOwner, FindPair, Strike, LookUp, ResetFlags,
           ComponentCloses, Elapsed, QueryEntry, AskClient, QueryEnds,
           SweepThrows, CheckOutTime, CloseEntry, DropSocket, RemoveEntry,
           Tick
  <2>4. sweep' \in {"idle", "query", "ask", "check"}
    <3>1. CASE CheckOutTime
      <4>1. \A c \in Entries : ~Unanswered(DicOfUserWebSocket[c])
        BY LimitsAreNat DEF PromptInv, Marked, Entries, Unanswered
      <4>2. QED
        BY <3>1, <4>1 DEF CheckOutTime
    <3>2. CASE ~CheckOutTime
      BY <1>2, <3>2
         DEF PromptInv, sweepVars, PromptNext, Calling, CallStep, SendStep,
             AnswerStep, Answering, SweepStep, Ping, SendFound, SendNotFound,
             ContainsKey, FindSlot, Add, AddThrows, Overlap, TestState, Connect,
             Send, Transmit, GiveMoneyToHouseOwner, FindPair, Strike, LookUp,
             ResetFlags, ComponentCloses, Elapsed, QueryEntry, AskClient,
             QueryEnds, SweepThrows, CloseEntry, DropSocket, RemoveEntry, Tick
    <3>3. QED
      BY <3>1, <3>2
  <2>5. QED
    BY <2>1, <2>2, <2>3, <2>4 DEF PromptInv
<1>3. QED
  BY <1>1, <1>2

(* Pages that stay open and answer in time keep their sockets, whatever they *)
(* call, as long as no two calls overlap in the collections.                 *)
THEOREM PromptPagesKeepSockets ==
  ASSUME Races = FALSE PROVE Spec => PromptPagesAreSpared
<1> DEFINE Inv == prompt = TRUE => PromptInv
           Spared == \A c \in Entries :
                       DicOfUserWebSocket'[c] = DicOfUserWebSocket[c]
<1>1. Init => Inv
  BY DEF Init, PromptInv, Marked, Entries
<1>2. SafeInv /\ intact' /\ MarkedIsRecoverable /\ Inv /\ [Next]_vars => Inv'
  <2> SUFFICES ASSUME SafeInv, intact', MarkedIsRecoverable, Inv, [Next]_vars,
                      prompt' = TRUE
               PROVE  PromptInv'
    OBVIOUS
  <2>1. prompt = TRUE /\ [PromptNext]_vars
    BY PromptIsKept DEF vars
  <2> QED
    BY <2>1, StepPrompt
<1>3. SafeInv /\ intact' /\ Inv /\ [Next]_vars => [prompt => Spared]_vars
  <2> SUFFICES ASSUME SafeInv, intact', Inv, Next, prompt, NEW c \in Entries
               PROVE  DicOfUserWebSocket'[c] = DicOfUserWebSocket[c]
    BY DEF vars
  <2>1. prompt = TRUE
    BY DEF SafeInv, TypeOK
  <2> QED
    BY <2>1, EntryStays DEF PromptInv
<1>4. QED
  BY <1>1, <1>2, <1>3, AtomicIsIntact, MarkedCanAnswer, PTL
     DEF Spec, PromptPagesAreSpared

-----------------------------------------------------------------------------
(* The size of the list of open queries                                      *)

(* The calls that have struck their pair out and not yet reset an object.    *)
InHand == {t \in Calls : pc[t] \in {"lookup", "reset"}}

Garbage == {o \in Objs : IsWillBeGarbage[o]}

Asking == IF sweep = "ask" THEN 1 ELSE 0

(* No two calls carry the same answer, none that is still on its way, and a  *)
(* call that has found its pair will find it when it removes it.             *)
AnswersDiffer ==
  \A t \in Calls :
    /\ pc[t] \in InAnswer =>
         /\ answer[t] \notin queries
         /\ \A u \in Calls \ {t} : pc[u] \in InAnswer => answer[u] # answer[t]
    /\ pc[t] = "strike" => answer[t] \in LstOfRecycleTasks

(* Every pair, every pair just struck out and the one about to be put in     *)
(* have a marked object of their own.                                        *)
PairsAreFew ==
  /\ IsFiniteSet(LstOfRecycleTasks)
  /\ Cardinality(LstOfRecycleTasks) + Cardinality(InHand) + Asking
       <= Cardinality(Garbage)

LEMMA HandIsFinite ==
  /\ IsFiniteSet(InHand) /\ Cardinality(InHand) \in Nat
  /\ IsFiniteSet(InHand') /\ Cardinality(InHand') \in Nat
<1>1. InHand \in SUBSET Calls /\ InHand' \in SUBSET Calls
  BY DEF InHand
<1> QED
  BY <1>1, CallsAndObjsAreFinite, FS_Subset, FS_CardinalityType

LEMMA GarbageIsFinite ==
  /\ IsFiniteSet(Garbage) /\ Cardinality(Garbage) \in Nat
  /\ IsFiniteSet(Garbage') /\ Cardinality(Garbage') \in Nat
<1>1. Garbage \in SUBSET Objs /\ Garbage' \in SUBSET Objs
  BY DEF Garbage
<1> QED
  BY <1>1, CallsAndObjsAreFinite, FS_Subset, FS_CardinalityType

LEMMA StepDiffer ==
  ASSUME ~Races, SafeInv, AnswersDiffer, [Next]_vars
  PROVE  AnswersDiffer'
<1> USE DEF AnswersDiffer, SafeInv, TypeOK, AnswerOK, InAnswer, Disturbed
<1>1. ASSUME NEW t \in Calls, SendStep(t) PROVE AnswersDiffer'
  BY <1>1 DEF SendStep, ContainsKey, FindSlot, Add, AddThrows, TestState,
              Connect, Send, Transmit, AfterInit, Return, Goto, callVars
<1>2. ASSUME Overlap PROVE AnswersDiffer'
  BY <1>2 DEF Overlap
<1>3. ASSUME NEW t \in Calls, NEW c \in Clients,
             Ping(t, c) \/ SendFound(t, c) \/ SendNotFound(t, c)
      PROVE  AnswersDiffer'
  BY <1>3 DEF Ping, SendFound, SendNotFound, Construct, Goto, Busy
<1>4. ASSUME NEW t \in Calls, NEW c \in Clients, NEW m \in Msgs,
             GiveMoneyToHouseOwner(t, c, m)
      PROVE  AnswersDiffer'
  BY <1>4 DEF GiveMoneyToHouseOwner, Goto, Busy
<1>5. ASSUME NEW t \in Calls, FindPair(t) PROVE AnswersDiffer'
  BY <1>5 DEF FindPair, Return, Goto
<1>6. ASSUME NEW t \in Calls, Strike(t) PROVE AnswersDiffer'
  BY <1>6 DEF Strike, AfterChange
<1>7. ASSUME NEW t \in Calls, LookUp(t) \/ ResetFlags(t) PROVE AnswersDiffer'
  BY <1>7 DEF LookUp, ResetFlags, Return, Goto
<1>8. CASE AskClient
  BY <1>8 DEF AskClient, AfterChange, IsFresh
<1>9. ASSUME UNCHANGED <<callVars, LstOfRecycleTasks>>,
             queries' \subseteq queries
      PROVE  AnswersDiffer'
  BY <1>9 DEF callVars
<1> QED
  BY <1>1, <1>2, <1>3, <1>4, <1>5, <1>6, <1>7, <1>8, <1>9
     DEF vars, Next, Calling, CallStep, AnswerStep, Answering, Faults,
         LoseQuery, PageLeaves, ComponentCloses, SweepStep, Elapsed,
         QueryEntry, QueryEnds, SweepThrows, CheckOutTime, CloseEntry,
         DropSocket, RemoveEntry, Tick

(* Most steps add no pair and no mark, and put no pair in hand.              *)
Quiet ==
  /\ LstOfRecycleTasks' = LstOfRecycleTasks
  /\ InHand' \subseteq InHand
  /\ Garbage' = Garbage
  /\ Asking' = Asking

LEMMA MostAreQuiet ==
  ASSUME SafeInv, [Next]_vars
  PROVE  \/ Quiet
         \/ AskClient
         \/ \E c \in Clients : QueryEntry(c)
         \/ \E t \in Calls : Strike(t) \/ ResetFlags(t)
<1> USE DEF SafeInv, TypeOK, Quiet, InHand, Garbage, Asking
<1>1. ASSUME NEW t \in Calls, SendStep(t) PROVE Quiet
  BY <1>1 DEF SendStep, ContainsKey, FindSlot, Add, AddThrows, TestState,
              Connect, Send, Transmit, AfterInit, Return, Goto, callVars,
              objVars, sweepVars
<1>2. ASSUME Overlap PROVE Quiet
  BY <1>2 DEF Overlap, callVars, objVars, sweepVars
<1>3. ASSUME NEW t \in Calls, NEW c \in Clients,
             Ping(t, c) \/ SendFound(t, c) \/ SendNotFound(t, c)
      PROVE  Quiet
  BY <1>3 DEF Ping, SendFound, SendNotFound, Construct, Goto, sweepVars
<1>4. ASSUME NEW t \in Calls, NEW c \in Clients, NEW m \in Msgs,
             GiveMoneyToHouseOwner(t, c, m)
      PROVE  Quiet
  BY <1>4 DEF GiveMoneyToHouseOwner, Goto, objVars, sweepVars
<1>5. ASSUME NEW t \in Calls, FindPair(t) \/ LookUp(t) PROVE Quiet
  BY <1>5 DEF FindPair, LookUp, Return, Goto, objVars, sweepVars
<1>6. ASSUME UNCHANGED <<callVars, LstOfRecycleTasks, IsWillBeGarbage>>,
             sweep' = "ask" <=> sweep = "ask"
      PROVE  Quiet
  BY <1>6 DEF callVars
<1>7. ASSUME SweepStep, ~AskClient, \A c \in Clients : ~QueryEntry(c)
      PROVE  Quiet
  BY <1>6, <1>7 DEF objVars, sweepVars, SweepStep, Elapsed, QueryEnds,
                    SweepThrows, CheckOutTime, CloseEntry, DropSocket,
                    RemoveEntry
<1>8. ASSUME Faults \/ Tick \/ \E o \in Objs : ComponentCloses(o)
      PROVE  Quiet
  BY <1>6, <1>8 DEF objVars, sweepVars, Faults, LoseQuery, PageLeaves, Tick,
                    ComponentCloses
<1>9. CASE UNCHANGED vars
  BY <1>6, <1>9 DEF vars, objVars, sweepVars
<1> QED
  BY <1>1, <1>2, <1>3, <1>4, <1>5, <1>7, <1>8, <1>9
     DEF Next, Calling, CallStep, AnswerStep, Answering

LEMMA StepFew ==
  ASSUME ~Races, SafeInv, AnswersDiffer, PairsAreFew, [Next]_vars
  PROVE  PairsAreFew'
<1>0. /\ Cardinality(LstOfRecycleTasks) \in Nat
      /\ Asking \in {0, 1} /\ Asking' \in {0, 1}
  BY FS_CardinalityType DEF PairsAreFew, Asking
<1> USE HandIsFinite, GarbageIsFinite
<1>1. CASE Quiet
  <2>1. Cardinality(InHand') <= Cardinality(InHand)
    BY <1>1, FS_Subset DEF Quiet
  <2> QED
    BY <1>0, <1>1, <2>1 DEF Quiet, PairsAreFew
<1>2. CASE AskClient
  <2>1. \E m \in Msgs :
          \/ LstOfRecycleTasks' = LstOfRecycleTasks
          \/ LstOfRecycleTasks' = LstOfRecycleTasks \cup {<<cur, m>>}
    BY <1>2 DEF AskClient
  <2>2. /\ IsFiniteSet(LstOfRecycleTasks')
        /\ Cardinality(LstOfRecycleTasks') <= Cardinality(LstOfRecycleTasks) + 1
        /\ Cardinality(LstOfRecycleTasks') \in Nat
    <3> PICK m \in Msgs :
          \/ LstOfRecycleTasks' = LstOfRecycleTasks
          \/ LstOfRecycleTasks' = LstOfRecycleTasks \cup {<<cur, m>>}
      BY <2>1
    <3> DEFINE q == <<cur, m>>
    <3>1. LstOfRecycleTasks' \in {LstOfRecycleTasks, LstOfRecycleTasks \cup {q}}
      OBVIOUS
    <3> HIDE DEF q
    <3>2. IsFiniteSet(LstOfRecycleTasks)
      BY DEF PairsAreFew
    <3>3. CASE LstOfRecycleTasks' = LstOfRecycleTasks
      BY <1>0, <3>2, <3>3
    <3>4. CASE LstOfRecycleTasks' = LstOfRecycleTasks \cup {q}
      <4>1. IsFiniteSet(LstOfRecycleTasks \cup {q})
        BY <3>2, FS_AddElement
      <4>2. Cardinality(LstOfRecycleTasks \cup {q}) =
              IF q \in LstOfRecycleTasks THEN Cardinality(LstOfRecycleTasks)
                                         ELSE Cardinality(LstOfRecycleTasks) + 1
        BY <3>2, FS_AddElement
      <4> QED
        BY <1>0, <3>4, <4>1, <4>2
    <3> QED
      BY <3>1, <3>3, <3>4
  <2>3. /\ InHand' = InHand /\ Garbage' = Garbage
        /\ Asking = 1 /\ Asking' = 0
    BY <1>2 DEF AskClient, AfterChange, Disturbed, InHand, Garbage, Asking,
                objVars, SafeInv, TypeOK
  <2> QED
    BY <1>0, <2>2, <2>3 DEF PairsAreFew
<1>3. ASSUME NEW c \in Clients, QueryEntry(c) PROVE PairsAreFew'
  <2>1. InHand' = InHand /\ LstOfRecycleTasks' = LstOfRecycleTasks
    BY <1>3 DEF QueryEntry, InHand, callVars
  <2>2. CASE sweep' = "ask"
    <3> DEFINE o == DicOfUserWebSocket[c]
    <3>1. o \in Objs
      BY <1>3, NullIsNone DEF QueryEntry, SafeInv, SweepHasEntries, Entries,
                              TypeOK
    <3>2. Garbage' = Garbage \cup {o} /\ o \notin Garbage
      BY <1>3, <2>2, <3>1 DEF QueryEntry, Garbage, SafeInv, TypeOK
    <3>3. Cardinality(Garbage') = Cardinality(Garbage) + 1
      BY <3>2, FS_AddElement
    <3>4. Asking = 0 /\ Asking' = 1
      BY <1>3, <2>2 DEF QueryEntry, Asking
    <3> QED
      BY <1>0, <2>1, <3>3, <3>4 DEF PairsAreFew
  <2>3. CASE sweep' # "ask"
    <3>1. Garbage' = Garbage /\ Asking' = 0
      BY <1>3, <2>3 DEF QueryEntry, Garbage, Asking
    <3> QED
      BY <1>0, <2>1, <3>1 DEF PairsAreFew
  <2> QED
    BY <2>2, <2>3
<1>4. ASSUME NEW t \in Calls, Strike(t) PROVE PairsAreFew'
  <2>1. /\ LstOfRecycleTasks' = LstOfRecycleTasks \ {answer[t]}
        /\ answer[t] \in LstOfRecycleTasks
    BY <1>4 DEF Strike, AnswersDiffer
  <2>2. /\ IsFiniteSet(LstOfRecycleTasks')
        /\ Cardinality(LstOfRecycleTasks') = Cardinality(LstOfRecycleTasks) - 1
    BY <2>1, FS_RemoveElement DEF PairsAreFew
  <2>3. InHand' = InHand \cup {t} /\ t \notin InHand
    BY <1>4 DEF Strike, AfterChange, Disturbed, InHand, SafeInv, TypeOK
  <2>4. Cardinality(InHand') = Cardinality(InHand) + 1
    BY <2>3, FS_AddElement
  <2>5. Garbage' = Garbage /\ Asking' = Asking
    BY <1>4 DEF Strike, Garbage, Asking, objVars, sweepVars
  <2> QED
    BY <1>0, <2>2, <2>4, <2>5 DEF PairsAreFew
<1>5. ASSUME NEW t \in Calls, ResetFlags(t) PROVE PairsAreFew'
  <2>1. InHand' = InHand \ {t} /\ t \in InHand
    BY <1>5 DEF ResetFlags, Return, Goto, InHand, SafeInv, TypeOK
  <2>2. Cardinality(InHand') = Cardinality(InHand) - 1
    BY <2>1, FS_RemoveElement
  <2>3. Garbage' = Garbage \ {held[t]}
    BY <1>5 DEF ResetFlags, Garbage, SafeInv, TypeOK
  <2>4. Cardinality(Garbage') >= Cardinality(Garbage) - 1
    BY <2>3, FS_RemoveElement
  <2>5. LstOfRecycleTasks' = LstOfRecycleTasks /\ Asking' = Asking
    BY <1>5 DEF ResetFlags, Asking, sweepVars
  <2> QED
    BY <1>0, <2>2, <2>4, <2>5 DEF PairsAreFew
<1> QED
  BY <1>1, <1>2, <1>3, <1>4, <1>5, MostAreQuiet

(* The list of open queries has at most one pair for every object made, as   *)
(* long as no two calls overlap in the collections: a pair that is taken out *)
(* is paid for by the mark it takes back (UserWebSocketResolver.cs           *)
(* LstOfRecycleTasks).                                                       *)
THEOREM ListStaysShort ==
  ASSUME Races = FALSE PROVE Spec => []LeakIsBounded
<1>1. Init => AnswersDiffer /\ PairsAreFew
  <2> SUFFICES ASSUME Init PROVE AnswersDiffer /\ PairsAreFew
    OBVIOUS
  <2>1. AnswersDiffer
    BY DEF Init, AnswersDiffer, InAnswer
  <2>2. LstOfRecycleTasks = {} /\ InHand = {} /\ Garbage = {} /\ Asking = 0
    BY DEF Init, InHand, Garbage, Asking
  <2> QED
    BY <2>1, <2>2, FS_EmptySet DEF PairsAreFew
<1>2. SafeInv /\ AnswersDiffer /\ PairsAreFew /\ [Next]_vars
        => AnswersDiffer' /\ PairsAreFew'
  BY StepDiffer, StepFew
<1>3. SafeInv /\ PairsAreFew => LeakIsBounded
  <2> SUFFICES ASSUME SafeInv, PairsAreFew PROVE LeakIsBounded
    OBVIOUS
  <2> DEFINE Made == {o \in Objs : ClientId[o] # Null}
  <2>1. Garbage \in SUBSET Made /\ Made \in SUBSET Objs
    BY DEF Garbage, SafeInv, UnmadeIsClean
  <2>2. IsFiniteSet(Made) /\ Cardinality(Made) \in Nat
    BY <2>1, CallsAndObjsAreFinite, FS_Subset, FS_CardinalityType
  <2>3. Cardinality(Garbage) <= Cardinality(Made)
    BY <2>1, <2>2, FS_Subset
  <2>4. Cardinality(LstOfRecycleTasks) \in Nat /\ Asking \in {0, 1}
    BY FS_CardinalityType DEF PairsAreFew, Asking
  <2> QED
    BY <2>2, <2>3, <2>4, HandIsFinite, GarbageIsFinite
       DEF PairsAreFew, LeakIsBounded
<1> QED
  BY <1>1, <1>2, <1>3, AtomicIsIntact, PTL DEF Spec
=============================================================================
