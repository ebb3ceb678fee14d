--------------------------- MODULE SocketRegistry ---------------------------
(***************************************************************************)
(* The table of proxied WebSockets of the host process: the static class   *)
(* UserWebSocketResolver, the UserWebSocket objects it holds, the hub      *)
(* calls of PrinterHub that look sockets up and add them, and the timer    *)
(* that asks idle clients whether they still live and recycles sockets.    *)
(*                                                                         *)
(* Hub calls run on pool threads, the sweep runs on the timer's thread,    *)
(* and neither the Dictionary nor the List they share is locked: every     *)
(* access to one of them is a step of its own, and what accesses that      *)
(* overlap do to each other is part of the steps (Races).                  *)
(*                                                                         *)
(* A DateTime field is modelled by its age: the time since it was set,     *)
(* counted in Ticks and capped at the only limit it is compared with.      *)
(***************************************************************************)
EXTENDS Naturals, FiniteSets

CONSTANTS
  Clients,        \* client ids, one per js object of a page
  Calls,          \* slots for hub calls that run at the same time
  Objs,           \* UserWebSocket objects; bounds how many are constructed
  Msgs,           \* message ids of the queries to a client (GUIDs in the code)
  Null,           \* no object, no client, no answer
  Races,          \* calls that overlap disturb each other in the collections
  MAX_LIMIT_TIME, \* idle time after which a client is asked, in Ticks
  MAX_OUT_TIME,   \* time a client has to answer, in Ticks
  Interval        \* period of the timer, in Ticks

ASSUME LimitsAreNat ==
  /\ MAX_LIMIT_TIME \in Nat \ {0}
  /\ MAX_OUT_TIME \in Nat \ {0}
  /\ Interval \in Nat \ {0}

ASSUME RacesIsBoolean == Races \in BOOLEAN
ASSUME NullIsNone == Null \notin Objs /\ Null \notin Clients
ASSUME CallsAndObjsAreFinite == IsFiniteSet(Calls) /\ IsFiniteSet(Objs)

VARIABLES
  \* the two static collections
  DicOfUserWebSocket, \* client id -> its registered object, or Null
  LstOfRecycleTasks,  \* <<client, message>> of queries without an answer
  \* the fields of each UserWebSocket
  ClientId,           \* the client the object was made for; Null: not made
  IsWillBeGarbage,    \* it was queried and has not answered
  idle,               \* age of LastAccessTime
  asked,              \* age of LastQueryClientStatusTime
  hasSocket,          \* its Socket property is not null
  ReadyState,         \* state of the WebSocket it was constructed with
  \* the hub calls
  pc, op, held,
  answer,             \* the <<client, message>> a call is given as an answer
  \* the timer's handler
  sweep, todo, cur,
  dirty,              \* the Dictionary changed since the handler's enumerator
  timer,              \* time since the timer last elapsed
  \* the pages
  page,               \* the page of a client is open
  queries,            \* <<client, message>> broadcast and not yet answered
  \* what has happened so far
  prompt,             \* the pages have stayed and answered in time
  intact              \* no two accesses that write the Dictionary overlapped

objVars   == <<ClientId, IsWillBeGarbage, idle, asked, hasSocket, ReadyState>>
callVars  == <<pc, op, held, answer>>
sweepVars == <<sweep, todo, cur, timer>>
vars == <<DicOfUserWebSocket, LstOfRecycleTasks, objVars, callVars, sweepVars,
          dirty, page, queries, prompt, intact>>

-----------------------------------------------------------------------------
(* Shape of the state *)

InSend == {"contains", "add", "insert", "state", "connect", "send", "transmit"}
InAnswer == {"find", "strike", "lookup", "reset"}
Labels == {"free"} \cup InSend \cup InAnswer
SweepLabels == {"idle", "query", "ask", "check", "close", "drop", "remove"}
SocketStates == {"Connecting", "Open", "Closed"}

TypeOK ==
  /\ DicOfUserWebSocket \in [Clients -> Objs \cup {Null}]
  /\ LstOfRecycleTasks \in SUBSET (Clients \X Msgs)
  /\ ClientId \in [Objs -> Clients \cup {Null}]
  /\ IsWillBeGarbage \in [Objs -> BOOLEAN]
  /\ idle \in [Objs -> 0..MAX_LIMIT_TIME]
  /\ asked \in [Objs -> 0..MAX_OUT_TIME]
  /\ hasSocket \in [Objs -> BOOLEAN]
  /\ ReadyState \in [Objs -> SocketStates]
  /\ pc \in [Calls -> Labels]
  /\ op \in [Calls -> {"ping", "send"}]
  /\ held \in [Calls -> Objs \cup {Null}]
  /\ answer \in [Calls -> (Clients \X Msgs) \cup {Null}]
  /\ sweep \in SweepLabels
  /\ todo \in SUBSET Clients
  /\ cur \in Clients \cup {Null}
  /\ dirty \in BOOLEAN
  /\ timer \in 0..Interval
  /\ page \in [Clients -> BOOLEAN]
  /\ queries \in SUBSET (Clients \X Msgs)
  /\ prompt \in BOOLEAN
  /\ intact \in BOOLEAN

Init ==
  /\ DicOfUserWebSocket = [c \in Clients |-> Null]
  /\ LstOfRecycleTasks = {}
  /\ ClientId = [o \in Objs |-> Null]
  /\ IsWillBeGarbage = [o \in Objs |-> FALSE]
  /\ idle = [o \in Objs |-> 0]
  /\ asked = [o \in Objs |-> MAX_OUT_TIME]     \* DateTime.MinValue
  /\ hasSocket = [o \in Objs |-> TRUE]
  /\ ReadyState = [o \in Objs |-> "Connecting"]
  /\ pc = [t \in Calls |-> "free"]
  /\ op = [t \in Calls |-> "ping"]
  /\ held = [t \in Calls |-> Null]
  /\ answer = [t \in Calls |-> Null]
  /\ sweep = "idle" /\ todo = {} /\ cur = Null /\ timer = 0
  /\ dirty = FALSE
  /\ page = [c \in Clients |-> TRUE]
  /\ queries = {}
  /\ prompt = TRUE
  /\ intact = TRUE

Entries == {c \in Clients : DicOfUserWebSocket[c] # Null}
Busy(t) == pc[t] # "free"
ClientOf(t) == ClientId[held[t]]

Goto(t, label) == pc' = [pc EXCEPT ![t] = label]

\* The call returns to its caller; the locals of the method are gone.
Return(t) ==
  /\ Goto(t, "free")
  /\ op' = [op EXCEPT ![t] = "ping"]
  /\ held' = [held EXCEPT ![t] = Null]
  /\ answer' = [answer EXCEPT ![t] = Null]

\* After InitOneCaiNiaoSocket a ping is done; a send goes on with the object
\* that was returned, whether or not it is the one the Dictionary holds.
AfterInit(t) ==
  IF op[t] = "ping" THEN Return(t)
  ELSE Goto(t, "state") /\ UNCHANGED <<op, held, answer>>

-----------------------------------------------------------------------------
(* Hub calls *)

\* new WebSocket and new UserWebSocket; nobody else can see the object yet.
Construct(t, o, c, what) ==
  /\ ClientId[o] = Null
  /\ ClientId' = [ClientId EXCEPT ![o] = c]
  /\ idle' = [idle EXCEPT ![o] = 0]
  /\ Goto(t, "contains")
  /\ op' = [op EXCEPT ![t] = what]
  /\ held' = [held EXCEPT ![t] = o]
  /\ UNCHANGED <<answer, IsWillBeGarbage, asked, hasSocket, ReadyState>>

\* The page pings; the hub answers it and a pool task makes a socket for it.
Ping(t, c) ==
  /\ ~Busy(t) /\ page[c]
  /\ \E o \in Objs : Construct(t, o, c, "ping")
  /\ UNCHANGED <<DicOfUserWebSocket, LstOfRecycleTasks, sweepVars, dirty,
                 page, prompt, intact, queries>>

\* The page sends, and GetUserSocketFromDic finds its socket.
SendFound(t, c) ==
  LET o == DicOfUserWebSocket[c] IN
  /\ ~Busy(t) /\ page[c]
  /\ o # Null
  /\ idle' = [idle EXCEPT ![o] = 0]
  /\ Goto(t, "state")
  /\ op' = [op EXCEPT ![t] = "send"]
  /\ held' = [held EXCEPT ![t] = o]
  /\ UNCHANGED <<answer, ClientId, IsWillBeGarbage, asked, hasSocket,
                 ReadyState, DicOfUserWebSocket, LstOfRecycleTasks, sweepVars,
                 dirty, page, prompt, intact, queries>>

\* The page sends, and there is no socket for it yet.
SendNotFound(t, c) ==
  /\ ~Busy(t) /\ page[c]
  /\ DicOfUserWebSocket[c] = Null
  /\ \E o \in Objs : Construct(t, o, c, "send")
  /\ UNCHANGED <<DicOfUserWebSocket, LstOfRecycleTasks, sweepVars, dirty,
                 page, prompt, intact, queries>>

\* AddUserSocketToDic: the ContainsKey test...
ContainsKey(t) ==
  /\ pc[t] = "contains"
  /\ IF DicOfUserWebSocket[ClientOf(t)] = Null
     THEN Goto(t, "add") /\ UNCHANGED <<op, held, answer>>
     ELSE AfterInit(t)
  /\ UNCHANGED <<DicOfUserWebSocket, LstOfRecycleTasks, objVars, sweepVars,
                 dirty, page, prompt, intact, queries>>

\* ... and the Add. It looks for the key, and throws, and so does the hub, when
\* the key has come since the test...
AddThrows(t) ==
  /\ pc[t] = "add"
  /\ DicOfUserWebSocket[ClientOf(t)] # Null
  /\ Return(t)
  /\ UNCHANGED <<DicOfUserWebSocket, LstOfRecycleTasks, objVars, sweepVars,
                 dirty, page, prompt, intact, queries>>

\* The calls that are in the middle of an Add.
Inserting == {t \in Calls : pc[t] = "insert"}

\* Mutant of FindSlot: dic[key] = value in place of Add(key, value).
FindSlotOrOverwrite(t) ==
  /\ pc[t] = "add" /\ Inserting = {}
  /\ DicOfUserWebSocket' =
       IF DicOfUserWebSocket[ClientOf(t)] = Null THEN DicOfUserWebSocket
       ELSE [DicOfUserWebSocket EXCEPT ![ClientOf(t)] = held[t]]
  /\ IF DicOfUserWebSocket[ClientOf(t)] = Null
     THEN Goto(t, "insert") /\ UNCHANGED <<op, held, answer>>
     ELSE AfterInit(t)
  /\ UNCHANGED <<LstOfRecycleTasks, objVars, sweepVars, dirty, page, prompt,
                 intact, queries>>

\* ... or takes a slot...
FindSlot(t) ==
  /\ pc[t] = "add" /\ Inserting = {}
  /\ DicOfUserWebSocket[ClientOf(t)] = Null
  /\ Goto(t, "insert")
  /\ UNCHANGED <<op, held, answer, DicOfUserWebSocket, LstOfRecycleTasks,
                 objVars, sweepVars, dirty, page, prompt, intact, queries>>

\* ... and fills it.
Add(t) ==
  /\ pc[t] = "insert"
  /\ DicOfUserWebSocket' =
       [DicOfUserWebSocket EXCEPT ![ClientOf(t)] = held[t]]
  /\ dirty' = (sweep # "idle")
  /\ AfterInit(t)
  /\ UNCHANGED <<LstOfRecycleTasks, objVars, sweepVars, page, prompt, intact,
                 queries>>

\* A second Add, or the sweep's Remove, while an Add is under way: both may take
\* the same slot, the same client may be filed twice, an entry that was there
\* may be overwritten. The table may hold anything from here on.
Overlap ==
  /\ Races
  /\ Inserting # {}
  /\ sweep = "remove" \/ \E t \in Calls : pc[t] = "add"
  /\ intact' = FALSE
  /\ DicOfUserWebSocket' \in [Clients -> Objs \cup {Null}]
  /\ dirty' = (sweep # "idle")
  /\ UNCHANGED <<LstOfRecycleTasks, objVars, callVars, sweepVars, page, prompt,
                 queries>>

\* The ReadyState test of ProcessClientMessage. It is outside every try: with
\* a recycled socket the NullReferenceException leaves the hub method.
TestState(t) ==
  LET o == held[t] IN
  /\ pc[t] = "state"
  /\ IF ~hasSocket[o] THEN Return(t)
     ELSE /\ Goto(t, IF ReadyState[o] = "Open" THEN "send" ELSE "connect")
          /\ UNCHANGED <<op, held, answer>>
  /\ UNCHANGED <<DicOfUserWebSocket, LstOfRecycleTasks, objVars, sweepVars,
                 dirty, page, prompt, intact, queries>>

\* WebSocket.Connect reports failure by events, not by throwing. The one
\* exception is a recycled socket, and the handler for it throws again.
Connect(t) ==
  LET o == held[t] IN
  /\ pc[t] = "connect"
  /\ IF ~hasSocket[o] THEN Return(t) /\ UNCHANGED ReadyState
     ELSE /\ \E s \in {"Open", "Closed"} :
               /\ ReadyState[o] = "Open" => s = "Open"
               /\ ReadyState' = [ReadyState EXCEPT ![o] = s]
          /\ Goto(t, "send")
          /\ UNCHANGED <<op, held, answer>>
  /\ UNCHANGED <<ClientId, IsWillBeGarbage, idle, asked, hasSocket,
                 DicOfUserWebSocket, LstOfRecycleTasks, sweepVars, dirty,
                 page, prompt, intact, queries>>

\* WebSocket.Send tests the state; a null or unopened socket is reported.
Send(t) ==
  LET o == held[t] IN
  /\ pc[t] = "send"
  /\ IF hasSocket[o] /\ ReadyState[o] = "Open"
     THEN Goto(t, "transmit") /\ UNCHANGED <<op, held, answer>>
     ELSE Return(t)
  /\ UNCHANGED <<DicOfUserWebSocket, LstOfRecycleTasks, objVars, sweepVars,
                 dirty, page, prompt, intact, queries>>

\* The frame is written under the state lock, after a second test of the state
\* whose failure returns a false that nobody reads.
Transmit(t) ==
  /\ pc[t] = "transmit"
  /\ Return(t)
  /\ UNCHANGED <<DicOfUserWebSocket, LstOfRecycleTasks, objVars, sweepVars,
                 dirty, page, prompt, intact, queries>>

SendStep(t) ==
  \/ ContainsKey(t) \/ AddThrows(t) \/ FindSlot(t) \/ Add(t)
  \/ TestState(t) \/ Connect(t) \/ Send(t) \/ Transmit(t)

-----------------------------------------------------------------------------
(* The answer of a page, and the ways the page fails to give one *)

\* GiveMoneyToHouseOwner hands the answer to OnReceiveMessageFromClient.
GiveMoneyToHouseOwner(t, c, m) ==
  /\ ~Busy(t)
  /\ <<c, m>> \in queries
  /\ queries' = queries \ {<<c, m>>}
  /\ Goto(t, "find")
  /\ answer' = [answer EXCEPT ![t] = <<c, m>>]
  /\ UNCHANGED <<DicOfUserWebSocket, LstOfRecycleTasks, objVars, op, held,
                 sweepVars, dirty, page, prompt, intact>>

\* FirstOrDefault: an answer to a query no longer in the list is ignored.
FindPair(t) ==
  /\ pc[t] = "find"
  /\ IF answer[t] \in LstOfRecycleTasks
     THEN Goto(t, "strike") /\ UNCHANGED <<op, held, answer>>
     ELSE Return(t)
  /\ UNCHANGED <<DicOfUserWebSocket, LstOfRecycleTasks, objVars, sweepVars,
                 dirty, page, prompt, intact, queries>>

\* A change of the list makes the enumerators of FirstOrDefault throw: the
\* calls T leave the hub and their answers are lost.
Disturbed(T) ==
  /\ T \in SUBSET {t \in Calls : pc[t] = "find"}
  /\ Races \/ T = {}

AfterChange(T, changed) ==
  /\ pc' = [t \in Calls |-> IF t \in T THEN "free"
                            ELSE IF t \in changed THEN "lookup" ELSE pc[t]]
  /\ answer' = [t \in Calls |-> IF t \in T THEN Null ELSE answer[t]]
  /\ UNCHANGED <<op, held>>

\* Mutant of Strike: the pair stays in the list.
StrikeNothing(t) ==
  /\ pc[t] = "strike"
  /\ AfterChange({}, {t})
  /\ UNCHANGED <<DicOfUserWebSocket, LstOfRecycleTasks, objVars, sweepVars,
                 dirty, page, prompt, intact, queries>>

\* List.Remove looks for the pair and removes by index. While another call
\* removes, the index may have come to stand for any other pair.
Strike(t) ==
  /\ pc[t] = "strike"
  /\ \E q \in LstOfRecycleTasks \cup {answer[t]} :
       /\ q # answer[t] => Races /\ \E u \in Calls \ {t} : pc[u] = "strike"
       /\ LstOfRecycleTasks' = LstOfRecycleTasks \ {q}
  /\ \E T \in SUBSET Calls : Disturbed(T) /\ AfterChange(T, {t})
  /\ UNCHANGED <<DicOfUserWebSocket, objVars, sweepVars, dirty, page, prompt,
                 intact, queries>>

\* What the client has registered now is reset, whichever object was queried.
LookUp(t) ==
  LET o == DicOfUserWebSocket[answer[t][1]] IN
  /\ pc[t] = "lookup"
  /\ IF o = Null THEN Return(t)
     ELSE /\ Goto(t, "reset")
          /\ held' = [held EXCEPT ![t] = o]
          /\ UNCHANGED <<op, answer>>
  /\ UNCHANGED <<DicOfUserWebSocket, LstOfRecycleTasks, objVars, sweepVars,
                 dirty, page, prompt, intact, queries>>

\* Mutant of ResetFlags: the time is taken and the mark stays.
ResetTimeOnly(t) ==
  /\ pc[t] = "reset"
  /\ idle' = [idle EXCEPT ![held[t]] = 0]
  /\ Return(t)
  /\ UNCHANGED <<DicOfUserWebSocket, LstOfRecycleTasks, ClientId, asked,
                 IsWillBeGarbage, hasSocket, ReadyState, sweepVars, dirty,
                 page, prompt, intact, queries>>

\* Two writes; a sweep that comes between them only asks the client again.
ResetFlags(t) ==
  /\ pc[t] = "reset"
  /\ IsWillBeGarbage' = [IsWillBeGarbage EXCEPT ![held[t]] = FALSE]
  /\ idle' = [idle EXCEPT ![held[t]] = 0]
  /\ Return(t)
  /\ UNCHANGED <<DicOfUserWebSocket, LstOfRecycleTasks, ClientId, asked,
                 hasSocket, ReadyState, sweepVars, dirty, page, prompt,
                 intact, queries>>

AnswerStep(t) == FindPair(t) \/ Strike(t) \/ LookUp(t) \/ ResetFlags(t)

\* The broadcast or the answer is lost on the way, or a second js object of
\* the same page has taken over the handler and ignores the client id.
LoseQuery(q) ==
  /\ q \in queries
  /\ queries' = queries \ {q}
  /\ prompt' = FALSE
  /\ UNCHANGED <<DicOfUserWebSocket, LstOfRecycleTasks, objVars, callVars,
                 sweepVars, dirty, page, intact>>

PageLeaves(c) ==
  /\ page[c]
  /\ page' = [page EXCEPT ![c] = FALSE]
  /\ queries' = {q \in queries : q[1] # c}
  /\ prompt' = FALSE
  /\ UNCHANGED <<DicOfUserWebSocket, LstOfRecycleTasks, objVars, callVars,
                 sweepVars, dirty, intact>>

\* The print component closes or drops a connection.
ComponentCloses(o) ==
  /\ ReadyState[o] = "Open"
  /\ ReadyState' = [ReadyState EXCEPT ![o] = "Closed"]
  /\ UNCHANGED <<ClientId, IsWillBeGarbage, idle, asked, hasSocket,
                 DicOfUserWebSocket, LstOfRecycleTasks, callVars, sweepVars,
                 dirty, page, prompt, intact, queries>>


-----------------------------------------------------------------------------
(* The timer's handler *)

\* The id is new: no pair with it is about.
IsFresh(c, m) ==
  /\ <<c, m>> \notin LstOfRecycleTasks \cup queries
  /\ \A t \in Calls : answer[t] # <<c, m>>

\* Steps 1 and 2 of the handler are skipped when nobody is over the limit.
Elapsed ==
  /\ sweep = "idle" /\ timer = Interval
  /\ timer' = 0
  /\ IF \E c \in Entries : idle[DicOfUserWebSocket[c]] >= MAX_LIMIT_TIME
     THEN sweep' = "query" /\ todo' = Entries
     ELSE sweep' = "check" /\ UNCHANGED todo
  /\ dirty' = FALSE
  /\ UNCHANGED <<DicOfUserWebSocket, LstOfRecycleTasks, objVars, callVars,
                 cur, page, prompt, intact, queries>>

\* Mutant of QueryEntry: the query goes out and the object is not marked.
QueryWithoutMark(c) ==
  /\ sweep = "query" /\ ~dirty /\ c \in todo
  /\ todo' = todo \ {c}
  /\ UNCHANGED <<DicOfUserWebSocket, LstOfRecycleTasks, queries, objVars,
                 callVars, sweep, cur, timer, dirty, page, prompt, intact>>

\* One turn of the foreach: the lazy Where tests the entry when it is reached,
\* and OnCallBackForCheckClientStatus marks one that is not marked already...
QueryEntry(c) ==
  LET o == DicOfUserWebSocket[c] IN
  /\ sweep = "query" /\ ~dirty /\ c \in todo
  /\ todo' = todo \ {c}
  /\ IF idle[o] >= MAX_LIMIT_TIME /\ ~IsWillBeGarbage[o]
     THEN /\ IsWillBeGarbage' = [IsWillBeGarbage EXCEPT ![o] = TRUE]
          /\ asked' = [asked EXCEPT ![o] = 0]
          /\ sweep' = "ask" /\ cur' = c
     ELSE UNCHANGED <<IsWillBeGarbage, asked, sweep, cur>>
  /\ UNCHANGED <<DicOfUserWebSocket, LstOfRecycleTasks, queries, ClientId,
                 idle, hasSocket, ReadyState, callVars, timer, dirty,
                 page, prompt, intact>>

\* ... puts the query into the list, where an answer that is being removed
\* may cost it its place, and broadcasts it.
AskClient ==
  /\ sweep = "ask"
  /\ \E m \in Msgs :
       /\ IsFresh(cur, m)
       /\ \/ LstOfRecycleTasks' = LstOfRecycleTasks \cup {<<cur, m>>}
          \/ /\ Races /\ \E t \in Calls : pc[t] = "strike"
             /\ UNCHANGED LstOfRecycleTasks
       /\ queries' = IF page[cur] THEN queries \cup {<<cur, m>>} ELSE queries
  /\ \E T \in SUBSET Calls : Disturbed(T) /\ AfterChange(T, {})
  /\ sweep' = "query" /\ cur' = Null
  /\ UNCHANGED <<DicOfUserWebSocket, objVars, todo, timer, dirty, page, prompt,
                 intact>>

QueryEnds ==
  /\ sweep = "query" /\ ~dirty /\ todo = {}
  /\ sweep' = "check"
  /\ UNCHANGED <<DicOfUserWebSocket, LstOfRecycleTasks, objVars, callVars,
                 todo, cur, timer, dirty, page, prompt, intact, queries>>

\* Mutant of SweepThrows: nobody catches what the handler throws, and it is not
\* called again.
SweepThrowsForGood ==
  /\ sweep \in {"query", "check", "close"} /\ dirty
  /\ UNCHANGED vars

\* MoveNext throws when an entry was added under the enumerator, and so may
\* ElementAt; the timer swallows the exception and the rest of the handler.
SweepThrows ==
  /\ sweep \in {"query", "check", "close"} /\ dirty
  /\ sweep' = "idle" /\ todo' = {} /\ dirty' = FALSE
  /\ UNCHANGED <<DicOfUserWebSocket, LstOfRecycleTasks, objVars, callVars,
                 cur, timer, page, prompt, intact, queries>>

Unanswered(o) == IsWillBeGarbage[o] /\ asked[o] >= MAX_OUT_TIME

\* Step 3: when one client is overdue, the loop goes through the whole table.
CheckOutTime ==
  /\ sweep = "check"
  /\ IF \E c \in Entries : Unanswered(DicOfUserWebSocket[c])
     THEN sweep' = "close" /\ todo' = Entries
     ELSE sweep' = "idle" /\ todo' = {}
  /\ dirty' = FALSE
  /\ UNCHANGED <<DicOfUserWebSocket, LstOfRecycleTasks, objVars, callVars,
                 cur, timer, page, prompt, intact, queries>>

\* One turn of the loop for every entry there was, last index first. Entries
\* that were added meanwhile may have moved the others to other indices.
\* Recycle: Close blocks until the socket is closed...
CloseEntry(c) ==
  LET o == DicOfUserWebSocket[c] IN
  /\ sweep = "close" /\ c \in Entries
  /\ \E d \in todo : /\ c \in todo => d = c
                     /\ todo' = todo \ {d}
  /\ cur' = c
  /\ IF hasSocket[o] /\ ReadyState[o] # "Closed"
     THEN /\ ReadyState' = [ReadyState EXCEPT ![o] = "Closed"]
          /\ sweep' = "drop"
     ELSE sweep' = "remove" /\ UNCHANGED ReadyState
  /\ UNCHANGED <<DicOfUserWebSocket, LstOfRecycleTasks, ClientId,
                 IsWillBeGarbage, idle, asked, hasSocket, callVars,
                 timer, dirty, page, prompt, intact, queries>>

\* ... then the property is cleared...
DropSocket ==
  /\ sweep = "drop"
  /\ hasSocket' = [hasSocket EXCEPT ![DicOfUserWebSocket[cur]] = FALSE]
  /\ sweep' = "remove"
  /\ UNCHANGED <<DicOfUserWebSocket, LstOfRecycleTasks, ClientId,
                 IsWillBeGarbage, idle, asked, ReadyState, callVars, todo, cur,
                 timer, dirty, page, prompt, intact, queries>>

\* Mutant of RemoveEntry: the loop recycles and forgets to remove.
RecycleWithoutRemove ==
  /\ sweep = "remove" /\ Inserting = {}
  /\ cur' = Null
  /\ sweep' = IF todo = {} THEN "idle" ELSE "close"
  /\ dirty' = FALSE
  /\ UNCHANGED <<DicOfUserWebSocket, LstOfRecycleTasks, objVars, callVars,
                 todo, timer, page, prompt, intact, queries>>

\* ... and the loop removes the entry.
RemoveEntry ==
  /\ sweep = "remove" /\ Inserting = {}
  /\ DicOfUserWebSocket' = [DicOfUserWebSocket EXCEPT ![cur] = Null]
  /\ cur' = Null
  /\ sweep' = IF todo = {} THEN "idle" ELSE "close"
  /\ dirty' = FALSE
  /\ UNCHANGED <<LstOfRecycleTasks, objVars, callVars, todo, timer,
                 page, prompt, intact, queries>>

SweepStep ==
  \/ Elapsed \/ QueryEnds \/ SweepThrows \/ CheckOutTime
  \/ AskClient \/ DropSocket \/ RemoveEntry
  \/ \E c \in Clients : QueryEntry(c) \/ CloseEntry(c)

\* Every query has been broadcast and its answer been taken in.
NothingUnanswered ==
  /\ queries = {} /\ sweep # "ask"
  /\ \A t \in Calls : pc[t] \notin InAnswer

\* Mutant of Tick: an age runs past its cap.
TickUncapped ==
  /\ timer < Interval
  /\ timer' = timer + 1
  /\ prompt' = (prompt /\ NothingUnanswered)
  /\ idle' = [o \in Objs |-> idle[o] + 1]
  /\ UNCHANGED <<DicOfUserWebSocket, LstOfRecycleTasks, ClientId, asked,
                 IsWillBeGarbage, hasSocket, ReadyState, callVars,
                 sweep, todo, cur, dirty, page, queries, intact>>

\* Time passes for every object; a sweep takes less than one period.
Tick ==
  LET Older(age, cap) == IF age < cap THEN age + 1 ELSE age IN
  /\ timer < Interval
  /\ timer' = timer + 1
  /\ prompt' = (prompt /\ NothingUnanswered)
  /\ idle' = [o \in Objs |-> Older(idle[o], MAX_LIMIT_TIME)]
  /\ asked' = [o \in Objs |-> Older(asked[o], MAX_OUT_TIME)]
  /\ UNCHANGED <<DicOfUserWebSocket, LstOfRecycleTasks, ClientId,
                 IsWillBeGarbage, hasSocket, ReadyState, callVars,
                 sweep, todo, cur, dirty, page, queries, intact>>

-----------------------------------------------------------------------------
(* Specifications *)

CallStep(t) == SendStep(t) \/ AnswerStep(t)

Calling ==
  \/ \E t \in Calls, c \in Clients :
       Ping(t, c) \/ SendFound(t, c) \/ SendNotFound(t, c)
  \/ \E t \in Calls : CallStep(t)
  \/ Overlap

Answering ==
  \E t \in Calls, c \in Clients, m \in Msgs : GiveMoneyToHouseOwner(t, c, m)

Faults ==
  \/ \E q \in queries : LoseQuery(q)
  \/ \E c \in Clients : PageLeaves(c)

Next ==
  \/ Calling \/ Answering \/ Faults \/ SweepStep \/ Tick
  \/ \E o \in Objs : ComponentCloses(o)

Spec == Init /\ [][Next]_vars

\* The clock runs, the timer's thread runs, and a hub call that was started is
\* carried to its end. Pages owe nothing: they may never call or answer.
Fairness ==
  /\ WF_vars(Tick)
  /\ WF_vars(SweepStep)
  /\ \A t \in Calls : WF_vars(CallStep(t))

FairSpec == Spec /\ Fairness

-----------------------------------------------------------------------------
(* Properties *)

Marked(c) == c \in Entries /\ IsWillBeGarbage[DicOfUserWebSocket[c]]
AboutToBeAsked(c) == sweep = "ask" /\ cur = c
CanAnswer(c) == \E m \in Msgs : <<c, m>> \in LstOfRecycleTasks
HasAnswered(c) ==
  \E t \in Calls : \/ pc[t] = "lookup" /\ answer[t][1] = c
                   \/ pc[t] = "reset" /\ held[t] = DicOfUserWebSocket[c]

\* Whoever is marked for recycling can still save itself. While a registered
\* object is marked, the sweep is about to ask its client, or the query is in
\* the list, so that the answer will be taken, or the answer has been taken.
MarkedIsRecoverable ==
  \A c \in Clients :
    Marked(c) => AboutToBeAsked(c) \/ CanAnswer(c) \/ HasAnswered(c)

\* A look-up finds an object without a socket only in the window between
\* Recycle and Remove of the sweep that is taking this very entry down; that
\* window is the only reason for the unguarded ReadyState test to fail on an
\* object it has just been given. Two writers of the Dictionary that overlap
\* could put any object back.
RecycledOnlyInWindow ==
  intact => \A c \in Entries :
    ~hasSocket[DicOfUserWebSocket[c]] => sweep = "remove" /\ cur = c

\* The list of open queries keeps pairs of objects that are long gone (nothing
\* but an answer takes a pair out), but never more pairs than objects made.
LeakIsBounded ==
  Cardinality(LstOfRecycleTasks) <=
    Cardinality({o \in Objs : ClientId[o] # Null})

\* Calls and pings that race to register a client between ContainsKey and Add
\* never replace the object already registered: until two accesses that write
\* the Dictionary overlap, an entry only goes when the sweep that closed its
\* socket removes it.
RegistrationIsStable ==
  [][intact' => \A c \in Entries :
       DicOfUserWebSocket'[c] # DicOfUserWebSocket[c] =>
         /\ sweep = "remove" /\ cur = c
         /\ DicOfUserWebSocket'[c] = Null]_vars

\* As long as pages stay open and have each query answered before it is
\* MAX_OUT_TIME old, no socket is recycled, whatever calls, pings and the
\* print component do.
PromptPagesAreSpared ==
  [][prompt => \A c \in Entries :
                 DicOfUserWebSocket'[c] = DicOfUserWebSocket[c]]_vars

\* An entry of a page that is gone does not stay, as long as the Dictionary is
\* intact: the sweeps ask for it, get no answer, and remove it. Other clients
\* that register while a sweep is under way make it give up (SweepThrows), and
\* the next one starts anew; Objs bounds how often, and without such a bound
\* they could keep every sweep from its end.
AbandonedEntryIsRemoved ==
  \A c \in Clients :
    (~page[c] /\ c \in Entries) ~> (c \notin Entries \/ ~intact)

-----------------------------------------------------------------------------
(* What the comments say and the code does not do *)

Recycles(o) ==
  \E c \in Entries : /\ DicOfUserWebSocket[c] = o
                     /\ DicOfUserWebSocket'[c] = Null

\* "A socket object that does not answer within 10s of being asked is taken to
\* be garbage" (lines 183 and 175 to 177): only such an object is destroyed.
DestroysOnlyUnanswered ==
  [][\A o \in Objs : Recycles(o) => Unanswered(o)]_vars
=============================================================================
