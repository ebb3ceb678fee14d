---------------------------- MODULE PageClients -----------------------------
(***************************************************************************)
(* The client objects of a page, PrinterHttpClient.createNew, on the one   *)
(* connection of the page, with SignalR's hub proxies between them, and    *)
(* the calls and events they exchange with PrinterHub.                     *)
(*                                                                         *)
(* The connection is the abstract one that HubConnection implements. A     *)
(* client has one registered socket, and may have others that a hub call   *)
(* made and could not register, which report to the page all the same.     *)
(* Looking a socket up, registering one and connecting it are steps of     *)
(* their own; what overlapping calls and sweeps do inside one of them is   *)
(* in SocketRegistry. The component's answers, which the object hands to   *)
(* the page, are left out: they change nothing here.                       *)
(***************************************************************************)
EXTENDS Naturals, FiniteSets, SequencesExt

CONSTANTS
  Clients,  \* objects the page may create
  Starts,   \* starts that find the connection down
  MaxCalls, \* bounds the calls under way, and their sockets, at a send
  MaxInbox  \* bounds the messages under way to the page

None == "none"

ASSUME NoneIsNoStart == None \notin Starts
ASSUME ClientsAreFinite == IsFiniteSet(Clients)
ASSUME BoundsAreNat == MaxCalls \in Nat /\ MaxInbox \in Nat

VARIABLES
  state, promise, \* of the connection
  conn,           \* the start whose connection id is the last one
  created,        \* client objects
  proxyClient,    \* whose functions proxyClient.client holds
  bound,          \* whose functions are bound to the hub's events, in order
  waiting,        \* done-callbacks on a promise that is still open
  wire,           \* calls on their way to the hub
  inbox,          \* messages on their way to the connection conn
  readyState,     \* of the client objects
  socket,         \* the socket registered for a client, and its hub's Caller
  asked,          \* clients that a sweep has marked and asked
  hub,            \* calls inside ProcessClientMessage, and how far they are
  strays,         \* open sockets that are not registered, by their call
  strayed         \* history: clients for which such a socket was connected

page == <<created, proxyClient, readyState>>
processing == <<hub, strays, strayed>>
server == <<socket, asked, processing>>
vars == <<state, promise, conn, bound, waiting, wire, inbox, page, server>>

Link == INSTANCE Connection

Kinds == {"ping", "send", "sendTask", "answer"}
Call == [kind : Kinds, client : Clients, conn : Starts]
\* A call that has found no socket, holds the registered one, or another.
Processed == [call : Call, at : {"missed", "registered", "own"}]
Event == [kind : {"open", "close", "query"}, client : Clients]
NoSocket == [caller |-> None, ReadyState |-> "Closed"]

TypeOK ==
  /\ Link!LinkTypeOK
  /\ conn \in Starts \cup {None}
  /\ created \subseteq Clients
  /\ proxyClient \in Clients \cup {None}
  /\ bound \in Seq(Clients)
  /\ waiting \subseteq Call /\ wire \subseteq Call
  /\ inbox \in Seq(Event) /\ Len(inbox) <= MaxInbox
  /\ readyState \in [Clients -> {"OPEN", "CLOSED"}]
  /\ socket \in [Clients -> [caller : Starts \cup {None},
                             ReadyState : {"Connecting", "Open", "Closed"}]]
  /\ asked \subseteq Clients
  /\ hub \subseteq Processed
  /\ strays \subseteq Call
  /\ strayed \subseteq Clients

Init ==
  /\ Link!LinkInit
  /\ conn = None
  /\ created = {} /\ proxyClient = None
  /\ bound = <<>>
  /\ waiting = {} /\ wire = {} /\ inbox = <<>>
  /\ readyState = [i \in Clients |-> "CLOSED"]
  /\ socket = [i \in Clients |-> NoSocket]
  /\ asked = {}
  /\ hub = {} /\ strays = {} /\ strayed = {}

-----------------------------------------------------------------------------
(* $.connection.hub.start().done(function () { proxyClient.server... }) *)

\* The start finds the connection down: the starting event binds what
\* proxyClient.client holds then.
StartFor(kind, i, functions) ==
  /\ \E a \in Starts :
       /\ Link!Open(a)
       /\ conn' = a
       /\ waiting' = waiting \cup {[kind |-> kind, client |-> i, conn |-> a]}
  /\ bound' = Append(bound, functions)
  /\ UNCHANGED wire

\* It returns the promise of the start under way, or that of the connection.
\* The callback of a rejected promise is dropped.
JoinStart(kind, i) ==
  LET c == [kind |-> kind, client |-> i, conn |-> conn] IN
  /\ state # "disconnected"
  /\ waiting' = IF promise[conn] = "pending" THEN waiting \cup {c} ELSE waiting
  /\ wire' = IF promise[conn] = "resolved" THEN wire \cup {c} ELSE wire
  /\ UNCHANGED <<state, promise, conn, bound>>

CallServer(kind, i, functions) ==
  \/ StartFor(kind, i, functions)
  \/ JoinStart(kind, i)

\* createNew: the functions of the new object take the place of those in
\* proxyClient.client, and it pings.
createNew(i) ==
  /\ i \notin created
  /\ created' = created \cup {i}
  /\ proxyClient' = i
  /\ CallServer("ping", i, i)
  /\ UNCHANGED <<inbox, readyState, server>>

\* send and sendTask.
send(i) ==
  /\ i \in created
  /\ Cardinality(waiting \cup wire) + Cardinality(hub) + Cardinality(strays)
       < MaxCalls
  /\ \E kind \in {"send", "sendTask"} : CallServer(kind, i, proxyClient)
  /\ UNCHANGED <<inbox, page, server>>

-----------------------------------------------------------------------------
(* What the connection does *)

\* The callbacks of what has been settled run or are dropped. A callback of a
\* start that was cut off makes its call on the connection there is now. The
\* call of one that finds the connection down, and throws, is lost there.
Settle ==
  /\ waiting' = {w \in waiting : promise'[w.conn] = "pending"}
  /\ wire' = wire \cup
       {[w EXCEPT !.conn = conn] :
          w \in {v \in waiting : promise'[v.conn] = "resolved"}}

\* Mutant of ComesUp: the start event reaches the last start only.
ComesUpAlone ==
  /\ state = "connecting"
  /\ state' = "connected"
  /\ promise' = [promise EXCEPT ![conn] = "resolved"]
  /\ Settle
  /\ UNCHANGED <<conn, bound, inbox, page, server>>

ComesUp ==
  /\ Link!ComeUp
  /\ Settle
  /\ UNCHANGED <<conn, bound, inbox, page, server>>

Drops ==
  /\ Link!Change("connected", "reconnecting")
  /\ UNCHANGED <<conn, bound, waiting, wire, inbox, page, server>>

\* The server keeps the messages for a connection that is restored.
IsRestored ==
  /\ Link!Change("reconnecting", "connected")
  /\ UNCHANGED <<conn, bound, waiting, wire, inbox, page, server>>

\* Mutant of GoesDown: the disconnected event does not unsubscribe.
GoesDownSubscribed ==
  /\ Link!GoDown
  /\ Settle
  /\ inbox' = <<>>
  /\ UNCHANGED <<conn, bound, page, server>>

\* The disconnected event. off finds a callback by its text, which is the same
\* for all of them, and so it removes the one that was bound last.
GoesDown ==
  /\ Link!GoDown
  /\ Settle
  /\ bound' = Front(bound)
  /\ inbox' = <<>>
  /\ UNCHANGED <<conn, page, server>>

StartFails ==
  /\ Link!Fail
  /\ Settle
  /\ UNCHANGED <<conn, bound, inbox, page, server>>

-----------------------------------------------------------------------------
(* PrinterHub *)

\* An event for Clients.Caller, the connection the socket was made for. To a
\* connection that is no more it is lost.
ToCaller(to, kind, i) ==
  IF to = conn /\ Link!Up
  THEN /\ Len(inbox) < MaxInbox
       /\ inbox' = Append(inbox, [kind |-> kind, client |-> i])
  ELSE UNCHANGED inbox

Received(c) == c \in wire /\ wire' = wire \ {c}

HasSocket(i) == socket[i].caller # None

\* AddUserSocketToDic: a socket that is registered stays.
Register(c) ==
  socket' = IF HasSocket(c.client) THEN socket
            ELSE [socket EXCEPT ![c.client] =
                    [caller |-> c.conn, ReadyState |-> "Connecting"]]

\* Its pool task. A socket that it cannot register it drops, unconnected.
Ping(c) ==
  /\ c.kind = "ping" /\ Received(c)
  /\ Register(c)
  /\ UNCHANGED <<state, promise, conn, bound, waiting, inbox, page, asked,
                 processing>>

\* Send and SendTask. One call of a kind is in the hub for a client: a bound.
GetUserSocketFromDic(c) ==
  /\ c.kind \in {"send", "sendTask"} /\ Received(c)
  /\ \A h \in hub : h.call.client = c.client => h.call.kind # c.kind
  /\ hub' = hub \cup
       {[call |-> c,
         at |-> IF HasSocket(c.client) THEN "registered" ELSE "missed"]}
  /\ UNCHANGED <<state, promise, conn, bound, waiting, inbox, page, socket,
                 asked, strays, strayed>>

\* The call that found none makes one and goes on with it, also if another
\* has been registered since.
InitOneCaiNiaoSocket(h) ==
  /\ h.at = "missed"
  /\ Register(h.call)
  /\ hub' = (hub \ {h}) \cup
       {[h EXCEPT !.at = IF HasSocket(h.call.client) THEN "own"
                         ELSE "registered"]}
  /\ UNCHANGED <<state, promise, conn, bound, waiting, wire, inbox, page,
                 asked, strays, strayed>>

\* A socket that is not open is connected; OnOpen or OnClose says how that
\* went.
ConnectRegistered(h) ==
  LET i == h.call.client
      Connected(to, kind) ==
        /\ socket' = [socket EXCEPT ![i].ReadyState = to]
        /\ ToCaller(socket[i].caller, kind, i)
  IN
  /\ h.at = "registered"
  /\ hub' = hub \ {h}
  /\ IF socket[i].ReadyState = "Open" THEN UNCHANGED <<socket, inbox>>
     ELSE Connected("Open", "open") \/ Connected("Closed", "close")
  /\ UNCHANGED <<state, promise, conn, bound, waiting, wire, page, asked,
                 strays, strayed>>

\* One open socket for each call there may be: a bound.
ConnectOwn(h) ==
  LET c == h.call
      Connected(opened, kind) ==
        /\ strays' = strays \cup opened
        /\ ToCaller(c.conn, kind, c.client)
  IN
  /\ h.at = "own" /\ c \notin strays
  /\ hub' = hub \ {h}
  /\ strayed' = strayed \cup {c.client}
  /\ Connected({c}, "open") \/ Connected({}, "close")
  /\ UNCHANGED <<state, promise, conn, bound, waiting, wire, page, socket,
                 asked>>

\* The socket that no call and no sweep finds again, closed by the component.
StrayCloses(c) ==
  /\ c \in strays /\ strays' = strays \ {c}
  /\ ToCaller(c.conn, "close", c.client)
  /\ UNCHANGED <<state, promise, conn, bound, waiting, wire, page, socket,
                 asked, hub, strayed>>

GiveMoneyToHouseOwner(c) ==
  /\ c.kind = "answer" /\ Received(c)
  /\ asked' = asked \ {c.client}
  /\ UNCHANGED <<state, promise, conn, bound, waiting, inbox, page, socket,
                 processing>>

\* A call is lost with the connection that carries it.
LoseCall(c) ==
  /\ state = "connected" => c.conn # conn
  /\ Received(c)
  /\ UNCHANGED <<state, promise, conn, bound, waiting, inbox, page, server>>

\* Mutant of ComponentCloses: OnClose has no handler.
ComponentClosesUnreported(i) ==
  /\ socket[i].ReadyState = "Open"
  /\ socket' = [socket EXCEPT ![i].ReadyState = "Closed"]
  /\ UNCHANGED <<state, promise, conn, bound, waiting, wire, inbox, page,
                 asked, processing>>

ComponentCloses(i) ==
  /\ socket[i].ReadyState = "Open"
  /\ socket' = [socket EXCEPT ![i].ReadyState = "Closed"]
  /\ ToCaller(socket[i].caller, "close", i)
  /\ UNCHANGED <<state, promise, conn, bound, waiting, wire, page, asked,
                 processing>>

\* A sweep marks an idle socket and asks all pages whose it is.
Query(i) ==
  /\ HasSocket(i) /\ i \notin asked
  /\ asked' = asked \cup {i}
  /\ ToCaller(conn, "query", i)
  /\ UNCHANGED <<state, promise, conn, bound, waiting, wire, page, socket,
                 processing>>

\* A sweep finds a mark that has not been taken back, and recycles them all.
\* A call that holds a registered socket is left with none, and throws, or
\* with one that was closed already, which it connects.
Recycle ==
  LET Told == {i \in Clients : /\ HasSocket(i) /\ socket[i].caller = conn
                               /\ socket[i].ReadyState # "Closed" /\ Link!Up}
  IN
  /\ asked # {}
  /\ \E is \in SetToSeqs(Told) :
       inbox' = inbox \o [n \in DOMAIN is |->
                            [kind |-> "close", client |-> is[n]]]
  /\ Len(inbox') <= MaxInbox
  /\ socket' = [i \in Clients |-> NoSocket]
  /\ asked' = {}
  /\ hub' = {h \in hub : h.at # "registered"} \cup
       {[call |-> [h.call EXCEPT !.conn = socket[h.call.client].caller],
         at |-> "own"] :
          h \in {g \in hub : /\ g.at = "registered"
                             /\ socket[g.call.client].ReadyState = "Closed"}}
  /\ UNCHANGED <<state, promise, conn, bound, waiting, wire, page, strays,
                 strayed>>

-----------------------------------------------------------------------------
(* The hub proxy's events *)

Listeners == {bound[n] : n \in DOMAIN bound}

\* Mutant of setClientSocketDescription: an event tells the state the socket
\* has before it.
setClientSocketDescriptionEarly(status) ==
  /\ readyState' =
       [i \in Clients |-> IF i \in Listeners
                          THEN IF status = "OPEN" THEN "CONNECTING" ELSE "OPEN"
                          ELSE readyState[i]]
  /\ UNCHANGED <<state, promise, conn, bound, waiting, wire>>

\* setClientSocketDescription carries no client id: whoever is bound takes it.
setClientSocketDescription(status) ==
  /\ readyState' =
       [i \in Clients |-> IF i \in Listeners THEN status ELSE readyState[i]]
  /\ UNCHANGED <<state, promise, conn, bound, waiting, wire>>

\* Mutant of onCheckClientStatus: nobody answers.
onCheckClientStatusSilent(e) ==
  UNCHANGED <<state, promise, conn, bound, waiting, wire, readyState>>

onCheckClientStatus(e) ==
  /\ IF e.client \in Listeners
     THEN CallServer("answer", e.client, proxyClient)
     ELSE UNCHANGED <<state, promise, conn, bound, waiting, wire>>
  /\ UNCHANGED readyState

Deliver ==
  /\ state = "connected" /\ inbox # <<>>
  /\ inbox' = Tail(inbox)
  /\ LET e == Head(inbox) IN
       \/ e.kind = "open" /\ setClientSocketDescription("OPEN")
       \/ e.kind = "close" /\ setClientSocketDescription("CLOSED")
       \/ e.kind = "query" /\ onCheckClientStatus(e)
  /\ UNCHANGED <<created, proxyClient, server>>

-----------------------------------------------------------------------------

HubCall(c) == Ping(c) \/ GetUserSocketFromDic(c) \/ GiveMoneyToHouseOwner(c)
ProcessClientMessage(h) ==
  InitOneCaiNiaoSocket(h) \/ ConnectRegistered(h) \/ ConnectOwn(h)

Next ==
  \/ \E i \in Clients : createNew(i) \/ send(i)
  \/ ComesUp \/ Drops \/ IsRestored \/ GoesDown \/ StartFails
  \/ \E c \in wire : HubCall(c) \/ LoseCall(c)
  \/ \E h \in hub : ProcessClientMessage(h)
  \/ \E c \in strays : StrayCloses(c)
  \/ \E i \in Clients : ComponentCloses(i) \/ Query(i)
  \/ Recycle
  \/ Deliver

Spec == Init /\ [][Next]_vars

\* A connection that is up delivers, and what has been sent is carried out.
Fairness ==
  /\ WF_vars(Deliver)
  /\ \A i \in Clients, a \in Starts :
       WF_vars(GiveMoneyToHouseOwner([kind |-> "answer", client |-> i,
                                      conn |-> a]))

FairSpec == Spec /\ Fairness

-----------------------------------------------------------------------------
(* Properties *)

\* While the connection is not down exactly one object's functions are bound
\* to the hub's events, and none are when it is down: whatever sequence of
\* starts, failures and stops there was, no event is handled twice and none
\* by an object of an earlier start (hubs.js createHubProxies).
OneHandler ==
  IF state = "disconnected" THEN bound = <<>> ELSE Len(bound) = 1

\* Once the connection is up every call that waited for a start, also for one
\* that a stop has cut off, has been made or dropped.
NoCallWaits == Link!Up => waiting = {}

\* For a page with one object and one connection, when no message is under way
\* readyState is OPEN only if a socket of the object is open, and is OPEN if
\* the registered one is, unless a hub call connected another beside it. That
\* one reports for the object too: its closing makes readyState CLOSED while
\* the registered one is open, and its opening OPEN while that one is not.
SocketOpen(i) ==
  socket[i].ReadyState = "Open" \/ \E c \in strays : c.client = i

DescribesOwnSocket ==
  \A i \in Clients :
    /\ created = {i}
    /\ Link!Up /\ inbox = <<>>
    /\ \A a \in Starts : promise[a] # "unused" => a = conn
    => /\ readyState[i] = "OPEN" => SocketOpen(i)
       /\ socket[i].ReadyState = "Open" /\ i \notin strayed
          => readyState[i] = "OPEN"

\* A query for the object that is bound is answered, and the mark taken back,
\* unless the connection drops first (or is one that a cut-off start has
\* brought up after the last one failed: calls on it are dropped).
QueryIsAnswered ==
  \A i \in Clients :
    /\ state = "connected" /\ promise[conn] = "resolved"
    /\ Listeners = {i}
    /\ [kind |-> "query", client |-> i] \in {inbox[n] : n \in DOMAIN inbox}
    ~> i \notin asked \/ state # "connected"
=============================================================================
