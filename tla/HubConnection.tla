--------------------------- MODULE HubConnection ----------------------------
(***************************************************************************)
(* $.connection.hub of a page: SignalR's JavaScript client as the pages of *)
(* WebPrinter use it, across domains, with the transports webSockets and,  *)
(* where that fails, longPolling.                                          *)
(*                                                                         *)
(* A page is one thread: a timer, a network event or a call of the page    *)
(* runs to its end. So an action is a handler, the connection is one       *)
(* record, and a function of the code is an operator that takes the record *)
(* as it is and gives the record as the function leaves it.                *)
(***************************************************************************)
CONSTANTS
  Starts, \* the starts that may find the connection down
  Loops   \* calls of longPolling.start; bounds how many are under way

ASSUME NoneIsNoName == "none" \notin Starts /\ "none" \notin Loops

VARIABLE connection

vars == <<connection>>

None == "none"

\* A promise is "hollow" if its done-callbacks ran while the connection was
\* not up.
Promises == {"unused", "pending", "resolved", "hollow", "rejected"}

\* connection.socket. Its onSuccess and onFailed are those of a start, or
\* undefined if it was opened to reconnect.
Sockets ==
  {s \in [status : {"none", "new", "open", "closed"},
          start : Starts \cup {None},
          onSuccess : BOOLEAN, \* not called yet
          timeOut : BOOLEAN] : \* timeOutHandle
     s.timeOut => s.start # None}

NoSocket == [status |-> "none", start |-> None,
             onSuccess |-> FALSE, timeOut |-> FALSE]

\* The variables that a call of longPolling.start closes over.
Closures ==
  {l \in [at : {"end", "ping", "reping", "delay", "poll", "wait",
                 "pause", "pauseRaising"}, \* LongPollDelay
          start : Starts \cup {None},
          fireConnect : BOOLEAN, \* onSuccess has not been called yet
          onFailed : BOOLEAN,    \* not null yet
          polled : BOOLEAN,
          timer : BOOLEAN,       \* fireConnect is due within 250 ms
          raise : BOOLEAN] :     \* fireReconnected is due
     l.onFailed => l.start # None}

Ended == [at |-> "end", start |-> None, fireConnect |-> FALSE,
          onFailed |-> FALSE, polled |-> FALSE, timer |-> FALSE,
          raise |-> FALSE]

LoopIds == Loops \cup {None}

Connections ==
  [state : {"connecting", "connected", "reconnecting", "disconnected"},
   deferral : Starts \cup {None},
   promise : [Starts -> Promises],
   onStart : SUBSET Starts,           \* handlers bound to the start event
   negotiating : Starts \cup {None},  \* negotiateRequest, while in flight
   transport : {"none", "webSockets", "longPolling"},
   socket : Sockets,
   reconnectTimeout : {"none", "due", "fired"},
   stopTimeout : BOOLEAN,             \* stopReconnectingTimeout
   monitoring : BOOLEAN,              \* keepAliveData.monitoring
   lastActiveAt : {"unset", "recent", "stale"},
   beating : BOOLEAN,                 \* beatHandle
   loop : [Loops -> Closures],
   pollXhr : LoopIds,
   pollTimeoutId : LoopIds,
   pingLoopId : LoopIds,
   reconnectTimeoutId : LoopIds,
   newMessageId : BOOLEAN,            \* messageId === null
   alone : BOOLEAN]                   \* history, see LeftAlive

TypeOK == connection \in Connections

Init ==
  connection =
    [state |-> "disconnected", deferral |-> None,
     promise |-> [a \in Starts |-> "unused"], onStart |-> {},
     negotiating |-> None, transport |-> "none", socket |-> NoSocket,
     reconnectTimeout |-> "none", stopTimeout |-> FALSE,
     monitoring |-> FALSE, lastActiveAt |-> "recent", beating |-> FALSE,
     loop |-> [k \in Loops |-> Ended],
     pollXhr |-> None, pollTimeoutId |-> None, pingLoopId |-> None,
     reconnectTimeoutId |-> None, newMessageId |-> FALSE, alone |-> TRUE]

Connected(c) == c.state \in {"connected", "reconnecting"}
Down(c) == c.state = "disconnected"

-----------------------------------------------------------------------------
(* States and promises *)

\* Mutant of changeState: the timeout of a reconnect is not cleared.
changeStateTimed(c, from, to) ==
  IF c.state # from THEN c ELSE [c EXCEPT !.state = to]

\* stateChanged clears the timeout that watches over a reconnect.
changeState(c, from, to) ==
  IF c.state # from THEN c
  ELSE [c EXCEPT !.state = to,
                 !.stopTimeout = IF from = "reconnecting" THEN FALSE ELSE @]

ensureReconnectingState(c) ==
  IF c.state # "connected" THEN c
  ELSE [c EXCEPT !.state = "reconnecting", !.stopTimeout = TRUE]

reject(c, a) ==
  IF c.promise[a] # "pending" THEN c
  ELSE [c EXCEPT !.promise[a] = "rejected"]

\* The start event reaches the handler of every start there ever was.
onStartEvent(c) ==
  [c EXCEPT !.promise =
     [a \in Starts |->
        IF a \in c.onStart /\ c.promise[a] = "pending"
        THEN IF Connected(c) THEN "resolved" ELSE "hollow"
        ELSE c.promise[a]]]

-----------------------------------------------------------------------------
(* Stopping *)

webSocketsStop(c) ==
  [c EXCEPT !.socket = NoSocket, !.reconnectTimeout = "none"]

\* What the handles in the connection refer to is cleared; a timer whose
\* handle another call has overwritten goes on.
StoppedLoop(c, k) ==
  [c.loop[k] EXCEPT
     !.at = IF \/ /\ k = c.pollTimeoutId
                  /\ @ \in {"delay", "wait", "pause", "pauseRaising"}
               \/ k = c.pollXhr /\ @ = "poll"
            THEN "end" ELSE @,
     !.raise = IF k = c.reconnectTimeoutId THEN FALSE ELSE @]

longPollingStop(c) ==
  [c EXCEPT !.loop = [k \in Loops |-> StoppedLoop(c, k)],
            !.pollXhr = None,
            !.pollTimeoutId = None,
            !.reconnectTimeoutId = None]

transportStop(c) ==
  CASE c.transport = "webSockets" ->
         [webSocketsStop(c) EXCEPT !.monitoring = FALSE, !.transport = "none"]
    [] c.transport = "longPolling" ->
         [longPollingStop(c) EXCEPT !.transport = "none"]
    [] OTHER -> c

\* An aborted negotiation rejects its promise, an aborted ping tells nobody.
AbortedLoop(c, k) ==
  [c.loop[k] EXCEPT
     !.at = IF @ = "ping" \/ (@ = "reping" /\ k = c.pingLoopId)
            THEN "end" ELSE @]

abortRequests(c) ==
  [(IF c.negotiating = None THEN c ELSE reject(c, c.negotiating))
     EXCEPT !.negotiating = None,
            !.loop = [k \in Loops |-> AbortedLoop(c, k)],
            !.pingLoopId = None]

stop(c) ==
  LET d == [c EXCEPT !.deferral = None]
      e == changeState(d, d.state, "disconnected")
      f == abortRequests(transportStop([e EXCEPT !.beating = FALSE]))
  IN  IF Down(c) THEN d
      ELSE [f EXCEPT !.lastActiveAt = "unset", !.newMessageId = FALSE]

-----------------------------------------------------------------------------
(* Starting *)

\* The end of beat: it goes on unless the page was inactive for too long.
markActive(c) ==
  IF c.lastActiveAt = "stale" THEN stop(c)
  ELSE [c EXCEPT !.lastActiveAt = "recent", !.beating = TRUE]

\* Mutant of started: a stop that has come between is not noticed.
startedAnyway(c, transport) ==
  LET d == [c EXCEPT !.monitoring = @ \/ transport = "webSockets"]
  IN  onStartEvent(changeState(markActive(d), "connecting", "connected"))

\* The success callback of initialize for a transport.
started(c, transport) ==
  LET d == [c EXCEPT !.monitoring = @ \/ transport = "webSockets"]
  IN  IF Down(c) THEN c
      ELSE onStartEvent(changeState(markActive(d), "connecting", "connected"))

FreeLoops(c) ==
  {k \in Loops : c.loop[k].at = "end" /\ ~c.loop[k].timer /\ ~c.loop[k].raise}

longPollingStart(c, a) ==
  LET d == IF c.pollXhr = None THEN c ELSE stop(c)
      k == CHOOSE l \in FreeLoops(c) : TRUE
  IN  [d EXCEPT !.loop[k] = [Ended EXCEPT !.at = "ping", !.start = a,
                                          !.fireConnect = TRUE,
                                          !.onFailed = TRUE],
                !.pollTimeoutId = None,
                !.reconnectTimeoutId = None]

\* A socket that is there, in whatever state, is taken for a connection.
webSocketsStart(c, a) ==
  IF c.socket.status # "none" THEN c
  ELSE [c EXCEPT !.socket = [status |-> "new", start |-> a,
                             onSuccess |-> a # None, timeOut |-> a # None]]

\* initialize for each of the transports, and when there is none left.
initWebSockets(c, a) ==
  IF Down(c) THEN c
  ELSE webSocketsStart([c EXCEPT !.transport = "webSockets"], a)

\* Mutant of initLongPolling: another of SignalR's transports is tried.
initForeverFrame(c, a) ==
  IF Down(c) THEN c
  ELSE longPollingStart([c EXCEPT !.transport = "foreverFrame"], a)

initLongPolling(c, a) ==
  IF Down(c) THEN c
  ELSE longPollingStart([c EXCEPT !.transport = "longPolling"], a)

initNone(c, a) == stop(reject(c, a))

\* stop does not close a WebSocket that another transport has replaced, nor
\* the timers whose handles are not kept or have been overwritten. Something
\* an earlier start has left that may still act on the connection:
LeftAlive(c) ==
  \/ c.socket.status \in {"new", "open"}
  \/ c.reconnectTimeout = "due"
  \/ FreeLoops(c) # Loops

\* Mutant of Start: only a connection that is not connected is asked for.
StartOverReconnect(a) ==
  /\ connection.state \in {"disconnected", "reconnecting"}
  /\ connection.promise[a] = "unused"
  /\ connection' = [connection EXCEPT !.state = "connecting",
                                      !.deferral = a,
                                      !.promise[a] = "pending",
                                      !.onStart = @ \cup {a},
                                      !.negotiating = a,
                                      !.alone = ~LeftAlive(connection)]

\* The other starts return a promise there is already, and change nothing.
Start(a) ==
  /\ Down(connection)
  /\ connection.promise[a] = "unused"
  /\ connection' = [connection EXCEPT !.state = "connecting",
                                      !.deferral = a,
                                      !.promise[a] = "pending",
                                      !.onStart = @ \cup {a},
                                      !.negotiating = a,
                                      !.alone = ~LeftAlive(connection)]

\* A page's call, or a beforeunload after which the user stays.
Stop == ~Down(connection) /\ connection' = stop(connection)

Negotiating(c) == [c EXCEPT !.negotiating = None]

NegotiateFails ==
  /\ connection.negotiating # None
  /\ connection' = initNone(Negotiating(connection), connection.negotiating)

\* A server of another version: rejected, and left in connecting.
NegotiateMismatch ==
  /\ connection.negotiating # None
  /\ connection' = reject(Negotiating(connection), connection.negotiating)

\* The server says whether to try webSockets.
Negotiated(TryWebSockets) ==
  /\ connection.negotiating # None
  /\ FreeLoops(connection) # {}
  /\ LET c == Negotiating(connection)
         a == connection.negotiating
     IN  connection' = IF TryWebSockets THEN initWebSockets(c, a)
                       ELSE initLongPolling(c, a)

-----------------------------------------------------------------------------
(* Heartbeat, inactivity, and losing a connection *)

reconnect(c) ==
  IF ~Connected(c) \/ c.reconnectTimeout # "none" THEN c
  ELSE IF c.lastActiveAt = "stale" THEN stop(c)
  ELSE [c EXCEPT !.reconnectTimeout = "due"]

\* The time since the last beat exceeds reconnectWindow: the page was asleep;
\* or there was no beat yet since the script was loaded, because the page has
\* not started for so long, or its first start takes so long. A stop unsets
\* the time until the next beat, which may be the rest of the beat that has
\* stopped the connection.
Sleep ==
  /\ connection.lastActiveAt = "recent"
  /\ connection' = [connection EXCEPT !.lastActiveAt = "stale"]

BeatFindsInactive ==
  /\ connection.beating
  /\ connection.lastActiveAt = "stale"
  /\ connection' = [stop(connection) EXCEPT !.beating = FALSE]

\* No message for too long. longPolling.lostConnection throws, which ends
\* the heartbeat.
KeepAliveTimesOut ==
  /\ connection.beating /\ connection.monitoring
  /\ connection.state = "connected"
  /\ connection' = IF connection.transport = "webSockets"
                   THEN markActive(reconnect(connection))
                   ELSE [connection EXCEPT !.beating = FALSE]

ReconnectTimeout ==
  /\ connection.reconnectTimeout = "due"
  /\ LET c == [connection EXCEPT !.reconnectTimeout = "fired"]
         d == ensureReconnectingState(webSocketsStop(c))
     IN  connection' = IF c.lastActiveAt = "stale" THEN stop(c)
                       ELSE IF d.state = "reconnecting"
                       THEN webSocketsStart(d, None) ELSE d

DisconnectTimeout ==
  /\ connection.stopTimeout
  /\ connection' = stop([connection EXCEPT !.stopTimeout = FALSE])

-----------------------------------------------------------------------------
(* webSockets *)

socket == connection.socket

\* The attempt has timed out and the page has gone on to longPolling. The
\* socket stays, with its handlers.
TimedOut == socket.start # None /\ ~socket.timeOut

SocketOpens ==
  /\ socket.status = "new"
  /\ connection' = [connection EXCEPT !.socket.status = "open",
                                      !.socket.timeOut = FALSE]

\* Mutant of SocketTimesOut: onFailed is not called.
SocketTimesOutQuietly ==
  /\ socket.timeOut
  /\ connection' = [connection EXCEPT !.socket.timeOut = FALSE]

\* onFailed of a start: on to longPolling. A reconnect has no onFailed.
SocketTimesOut ==
  /\ socket.timeOut
  /\ FreeLoops(connection) # {}
  /\ connection' = initLongPolling([connection EXCEPT !.socket.timeOut = FALSE],
                                   socket.start)

SocketIsRefused ==
  /\ socket.status = "new"
  /\ FreeLoops(connection) # {}
  /\ LET c == [connection EXCEPT !.socket.status = "closed",
                                 !.socket.timeOut = FALSE]
     IN  connection' = IF socket.start # None
                       THEN initLongPolling(c, socket.start)
                       ELSE reconnect(c)

\* Mutant of SocketCloses: a close while connected goes unnoticed.
SocketClosesQuietly ==
  /\ socket.status = "open"
  /\ connection' = [connection EXCEPT !.socket.status = "closed"]

SocketCloses ==
  /\ socket.status = "open"
  /\ connection' = reconnect([connection EXCEPT !.socket.status = "closed"])

\* onmessage up to the message itself.
socketIsHeard(c) ==
  LET d == IF c.socket.onSuccess
           THEN started([c EXCEPT !.socket.onSuccess = FALSE], "webSockets")
           ELSE changeState(c, "reconnecting", "connected")
  IN  [d EXCEPT !.reconnectTimeout = "none"]

SocketMessage ==
  /\ socket.status = "open"
  /\ connection' = socketIsHeard(connection)

\* A message with the Disconnect command.
SocketDisconnects ==
  /\ socket.status = "open"
  /\ LET c == socketIsHeard(connection)
     IN  connection' = IF c.transport = "none" THEN c ELSE stop(c)

\* While connecting a message that cannot be parsed is a failure to start.
SocketGarbled ==
  /\ socket.status = "open"
  /\ FreeLoops(connection) # {}
  /\ connection' = IF connection.state # "connecting" THEN stop(connection)
                   ELSE IF socket.start = None THEN connection
                   ELSE initLongPolling(connection, socket.start)

-----------------------------------------------------------------------------
(* longPolling *)

at(k) == connection.loop[k].at
Goto(c, k, label) == [c EXCEPT !.loop[k].at = label]

fireConnect(c, k) ==
  IF ~c.loop[k].fireConnect THEN c
  ELSE started([c EXCEPT !.loop[k].fireConnect = FALSE,
                         !.loop[k].onFailed = FALSE], "longPolling")

clearReconnectTimeout(c) ==
  IF c.reconnectTimeoutId = None THEN c
  ELSE [c EXCEPT !.loop[c.reconnectTimeoutId].raise = FALSE,
                 !.reconnectTimeoutId = None]

fireReconnected(c) ==
  changeState(clearReconnectTimeout(c), "reconnecting", "connected")

\* The first poll of a connection cannot raise the reconnect event.
poll(c, k, raiseReconnect) ==
  IF Down(c) THEN Goto(c, k, "end")
  ELSE LET d == [c EXCEPT !.loop[k].at = "poll", !.loop[k].polled = TRUE,
                          !.pollXhr = k]
       IN  IF raiseReconnect /\ ~c.newMessageId
           THEN [d EXCEPT !.loop[k].raise = TRUE, !.reconnectTimeoutId = k]
           ELSE d

PingAnswers(k) ==
  /\ at(k) = "ping"
  /\ connection' =
       IF connection.loop[k].polled THEN poll(connection, k, TRUE)
       ELSE [Goto(connection, k, "delay") EXCEPT !.newMessageId = TRUE,
                                                 !.pollTimeoutId = k]

\* Mutant of pingFail: a ping that fails is not sent again.
pingGivesUp(c, k) == Goto(c, k, "end")

pingFail(c, k) ==
  IF Down(c) THEN Goto(c, k, "end")
  ELSE [Goto(c, k, "reping") EXCEPT !.pingLoopId = k]

PingFails(k) == at(k) = "ping" /\ connection' = pingFail(connection, k)

\* Status 401 or 403, or an answer that cannot be parsed.
PingIsRefused(k) ==
  at(k) = "ping" /\ connection' = stop(pingFail(connection, k))

PingAgain(k) ==
  at(k) \in {"reping", "wait"} /\ connection' = Goto(connection, k, "ping")

FirstPoll(k) ==
  /\ at(k) = "delay"
  /\ connection' = [poll(connection, k, FALSE) EXCEPT !.loop[k].timer = TRUE]

ConnectTimer(k) ==
  /\ connection.loop[k].timer
  /\ connection' = fireConnect([connection EXCEPT !.loop[k].timer = FALSE], k)

RaiseTimer(k) ==
  /\ connection.loop[k].raise
  /\ connection' = fireReconnected([connection EXCEPT !.loop[k].raise = FALSE])

\* The success handler up to the messages.
pollIsHeard(c, k) ==
  fireConnect(IF c.reconnectTimeoutId = None THEN c ELSE fireReconnected(c), k)

\* The next poll is made at once, or after the LongPollDelay of the answer.
PollAnswers(k, ShouldReconnect, Delay) ==
  /\ at(k) = "poll"
  /\ LET c == pollIsHeard(connection, k)
         d == IF c.transport = "none" THEN c
              ELSE [c EXCEPT !.newMessageId = FALSE]
         e == IF ShouldReconnect /\ ~Down(d) THEN ensureReconnectingState(d)
              ELSE d
     IN  connection' =
           IF Down(e) \/ ~Delay THEN poll(e, k, ShouldReconnect)
           ELSE [Goto(e, k, IF ShouldReconnect THEN "pauseRaising"
                                               ELSE "pause")
                   EXCEPT !.pollTimeoutId = k]

PollAgain(k) ==
  /\ at(k) \in {"pause", "pauseRaising"}
  /\ connection' = poll(connection, k, at(k) = "pauseRaising")

PollDisconnects(k) ==
  /\ at(k) = "poll"
  /\ LET c == Goto(pollIsHeard(connection, k), k, "end")
     IN  connection' = IF c.transport = "none" THEN c ELSE stop(c)

\* tryFailConnect: there is no transport after longPolling.
failConnect(c, k) ==
  initNone([c EXCEPT !.loop[k].onFailed = FALSE], c.loop[k].start)

PollGarbled(k) ==
  /\ at(k) = "poll"
  /\ LET c == Goto(connection, k, "end")
     IN  connection' = IF c.state # "connecting" THEN stop(c)
                       ELSE IF c.loop[k].onFailed THEN failConnect(c, k)
                       ELSE c

PollFails(k) ==
  /\ at(k) = "poll"
  /\ LET c == clearReconnectTimeout(connection)
         d == ensureReconnectingState(c)
     IN  connection' =
           IF c.loop[k].onFailed THEN failConnect(Goto(c, k, "end"), k)
           ELSE IF Connected(c) /\ c.lastActiveAt = "stale"
           THEN stop(Goto(c, k, "end"))
           ELSE IF d.state # "reconnecting" THEN Goto(d, k, "end")
           ELSE [Goto(d, k, "wait") EXCEPT !.pollTimeoutId = k]

-----------------------------------------------------------------------------

Page == Stop \/ Sleep \/ \E a \in Starts : Start(a)

Negotiation ==
  NegotiateFails \/ NegotiateMismatch \/ \E ws \in BOOLEAN : Negotiated(ws)

Timers ==
  \/ BeatFindsInactive \/ KeepAliveTimesOut
  \/ ReconnectTimeout \/ DisconnectTimeout

WebSockets ==
  \/ SocketOpens \/ SocketTimesOut \/ SocketIsRefused \/ SocketCloses
  \/ SocketMessage \/ SocketDisconnects \/ SocketGarbled

PingEnds(k) == PingAnswers(k) \/ PingFails(k) \/ PingIsRefused(k)
LoopTimer(k) == PingAgain(k) \/ FirstPoll(k) \/ PollAgain(k)
PollEnds(k) ==
  \/ PollDisconnects(k) \/ PollGarbled(k) \/ PollFails(k)
  \/ \E r, d \in BOOLEAN : PollAnswers(k, r, d)

LongPolling ==
  \E k \in Loops :
    \/ PingEnds(k) \/ LoopTimer(k) \/ PollEnds(k)
    \/ ConnectTimer(k) \/ RaiseTimer(k)

Next == Page \/ Negotiation \/ Timers \/ WebSockets \/ LongPolling

Spec == Init /\ [][Next]_vars

\* A socket that has opened gets a first message, a keep-alive at the latest,
\* or it closes.
SocketStarts ==
  \/ SocketOpens \/ SocketTimesOut \/ SocketIsRefused
  \/ /\ socket.onSuccess
     /\ SocketMessage \/ SocketDisconnects \/ SocketGarbled \/ SocketCloses

\* The browser ends every request and attempt, and fires the timers of the
\* page.
Fairness ==
  /\ WF_vars(Negotiation)
  /\ WF_vars(SocketStarts)
  /\ \A k \in Loops :
       /\ WF_vars(PingEnds(k) \/ LoopTimer(k) \/ PollEnds(k))
       /\ WF_vars(ConnectTimer(k))

FairSpec == Spec /\ Fairness

-----------------------------------------------------------------------------
(* Properties *)

\* Logic after a start belongs into start().done(), says the error that send
\* throws (core.js line 669). Its callbacks run while the connection is up,
\* but for one case: the connection has come up after more than
\* reconnectWindow without a beat, and the first beat stops it just before the
\* callbacks run. No stop that comes in between, and no call of an earlier
\* transport that comes late, gets callbacks to run.
DoneMeansStarted ==
  [][\A a \in Starts :
       connection'.promise[a] = "hollow" /\ connection.promise[a] # "hollow"
         => /\ connection.state = "connecting"
            /\ connection.lastActiveAt = "stale"]_vars

\* A connection that is reconnecting, and no other, is under the timeout that
\* gives it up, across all the ways into that state and out of it.
ReconnectIsTimed ==
  connection.stopTimeout <=> connection.state = "reconnecting"

\* Starts that the code does not bring to an end.
\* An earlier start has left a socket: webSockets.start takes it for its own
\* and never calls back (webSockets.js line 38).
SocketInTheWay ==
  connection.transport = "webSockets" /\ socket.start # connection.deferral

\* The socket was closed when the start found it, or it has opened and closed
\* without a message: neither onSuccess nor onFailed is called any more.
SocketIsDead ==
  connection.transport = "webSockets" /\ socket.status = "closed"

\* The server was of another version: rejected, but not stopped.
WrongVersion == connection.promise[connection.deferral] = "rejected"

\* A start that finds nothing of an earlier one alive is on its way as long as
\* the connection is connecting: a request, an attempt, a loop or a timer of
\* it is under way that will end it, whatever its transports do, unless it has
\* run into a dead socket or a server of another version.
ConnectingIsCarried ==
  connection.state = "connecting" /\ connection.alone =>
    \/ connection.negotiating # None
    \/ socket.onSuccess /\ (socket.timeOut \/ socket.status = "open")
    \/ \E k \in Loops : connection.loop[k].fireConnect /\ at(k) # "end"
    \/ SocketIsDead
    \/ WrongVersion

\* A connection that is up, and whose start found nothing of an earlier one
\* alive, is watched over the transport it uses: its socket is open or
\* opening, a call of longPolling.start is at work, or the timer is due that
\* opens another socket. What a transport before has left does not count.
UpIsWatched ==
  Connected(connection) /\ connection.alone =>
    \/ /\ connection.transport = "webSockets"
       /\ \/ socket.status = "open"
          \/ socket.status = "new" /\ ~TimedOut
          \/ connection.reconnectTimeout = "due"
    \/ /\ connection.transport = "longPolling"
       /\ \E k \in Loops : at(k) # "end"

\* A start comes to an end: its promise is settled, or a stop comes between,
\* or its socket is not its own or dead; or the host stays away, and is pinged
\* again and again.
StartEnds ==
  \/ []<>(\E k \in Loops : at(k) = "reping")
  \/ \A a \in Starts :
       connection.deferral = a /\ connection.promise[a] = "pending" ~>
         \/ connection.promise[a] # "pending"
         \/ connection.deferral # a
         \/ SocketInTheWay
         \/ SocketIsDead

\* What a page hears of its starts: that the callbacks have run.
Told ==
  [a \in Starts |-> IF connection.promise[a] = "hollow" THEN "resolved"
                    ELSE connection.promise[a]]

Link == INSTANCE Connection WITH
          state <- connection.state,
          promise <- Told

\* The connection is what the client objects of a page take it for.
ImplementsConnection == Link!LinkSpec
=============================================================================
