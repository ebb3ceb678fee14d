---------------------- MODULE HubConnectionWatchProofs ----------------------
(***************************************************************************)
(* Proofs that a connection on its way is carried and one that is up is    *)
(* watched (ConnectingIsCarried, UpIsWatched of HubConnection), for any    *)
(* starts and loops.                                                       *)
(*                                                                         *)
(* While a start that found nothing of an earlier one alive has the        *)
(* connection, it has one of three shapes: it is asking the server which   *)
(* transport to use, it runs over a socket, or over longPolling. Each      *)
(* handler takes a shape to a shape or the connection down.                *)
(***************************************************************************)
EXTENDS HubConnectionProofs

\* An attempt that may time out is not open yet, and a call of
\* longPolling.start that may come up can still be told that it has failed.
Known(c) ==
  /\ c.socket.timeOut => c.socket.status = "new"
  /\ \A k \in Loops :
       c.loop[k].at # "end" /\ c.loop[k].fireConnect => c.loop[k].onFailed

Asking(c) ==
  /\ c.state = "connecting"
  /\ ~LeftAlive(c)
  /\ c.deferral \in Starts
  /\ \/ c.negotiating = c.deferral /\ c.promise[c.deferral] = "pending"
     \/ c.negotiating = None /\ c.promise[c.deferral] = "rejected"

\* The socket will answer the start, or it is dead.
Trying(c) ==
  /\ c.state = "connecting" /\ c.reconnectTimeout # "due"
  /\ \/ c.socket.onSuccess /\ (c.socket.timeOut \/ c.socket.status = "open")
     \/ c.socket.status = "closed"

InUse(c) ==
  /\ Connected(c) /\ c.reconnectTimeout # "fired"
  /\ \/ c.reconnectTimeout = "due"
     \/ c.socket.status = "open"
     \/ c.socket.status = "new" /\ c.socket.start = None

OverSocket(c) ==
  /\ c.transport = "webSockets" /\ c.negotiating = None
  /\ FreeLoops(c) = Loops
  /\ Trying(c) \/ InUse(c)

OverPolls(c) ==
  /\ c.transport = "longPolling" /\ c.negotiating = None
  /\ \E k \in Loops :
       /\ c.loop[k].at # "end"
       /\ c.state = "connecting" => c.loop[k].fireConnect

\* The inductive invariant.
Watched(c) ==
  /\ Known(c)
  /\ c.alone /\ ~Down(c) => Asking(c) \/ OverSocket(c) \/ OverPolls(c)

Stopped(d) == Known(d) /\ Down(d)

LEMMA StoppedIsWatched ==
  ASSUME NEW d, Stopped(d)
  PROVE  Watched(d)
BY DEF Stopped, Watched

-----------------------------------------------------------------------------
(* Functions that change nothing the shapes tell apart *)

Kept(c, d) ==
  /\ d.deferral = c.deferral /\ d.negotiating = c.negotiating
  /\ d.transport = c.transport /\ d.socket = c.socket
  /\ d.reconnectTimeout = c.reconnectTimeout /\ d.loop = c.loop
  /\ d.alone = c.alone

LEMMA KeptIsKnown ==
  ASSUME NEW c, NEW d, Kept(c, d), Known(c)
  PROVE  Known(d)
BY DEF Kept, Known

Alike(c, d) == Kept(c, d) /\ d.state = c.state /\ d.promise = c.promise

LEMMA AlikeIsWatched ==
  ASSUME NEW c, NEW d, Alike(c, d), Watched(c)
  PROVE  Watched(d)
<1>1. Known(d)
  BY KeptIsKnown DEF Alike, Watched
<1>2. Asking(c) => Asking(d)
  BY DEF Alike, Kept, Asking, LeftAlive, FreeLoops
<1>3. OverSocket(c) => OverSocket(d)
  BY DEF Alike, Kept, OverSocket, Trying, InUse, Connected, FreeLoops
<1>4. OverPolls(c) => OverPolls(d)
  BY DEF Alike, Kept, OverPolls
<1> QED BY <1>1, <1>2, <1>3, <1>4 DEF Watched, Alike, Kept, Down

LEMMA changeStateKeeps ==
  ASSUME NEW c \in Connections, NEW from, NEW to, NEW d,
         d = changeState(c, from, to)
  PROVE  /\ Kept(c, d) /\ d.promise = c.promise
         /\ d.state = IF c.state = from THEN to ELSE c.state
<1> DEFINE t == IF from = "reconnecting" THEN FALSE ELSE c.stopTimeout
<1>1. d = IF c.state # from THEN c
          ELSE [c EXCEPT !.state = to, !.stopTimeout = t]
  BY DEF changeState
<1> HIDE DEF t
<1> QED BY <1>1 DEF Kept, Connections

LEMMA ensureReconnectingStateKeeps ==
  ASSUME NEW c \in Connections, NEW d, d = ensureReconnectingState(c)
  PROVE  /\ Kept(c, d) /\ d.promise = c.promise
         /\ d.state = IF c.state = "connected" THEN "reconnecting"
                      ELSE c.state
BY DEF ensureReconnectingState, Kept, Connections

LEMMA onStartEventKeeps ==
  ASSUME NEW c \in Connections, NEW d, d = onStartEvent(c)
  PROVE  Kept(c, d) /\ d.state = c.state
<1> DEFINE p == [a \in Starts |->
        IF a \in c.onStart /\ c.promise[a] = "pending"
        THEN IF Connected(c) THEN "resolved" ELSE "hollow"
        ELSE c.promise[a]]
<1>1. d = [c EXCEPT !.promise = p]
  BY DEF onStartEvent
<1> HIDE DEF p
<1> QED BY <1>1 DEF Kept, Connections

LEMMA rejectKeeps ==
  ASSUME NEW c \in Connections, NEW a, NEW d, d = reject(c, a)
  PROVE  Kept(c, d) /\ d.state = c.state
BY DEF reject, Kept, Connections

-----------------------------------------------------------------------------
(* A stop takes the connection down, whatever it leaves alive *)

\* What a stop does to the socket and the loops.
Pruned(c, d) ==
  /\ d.socket \in {c.socket, NoSocket}
  /\ \A k \in Loops :
       /\ d.loop[k].at \in {c.loop[k].at, "end"}
       /\ d.loop[k].fireConnect = c.loop[k].fireConnect
       /\ d.loop[k].onFailed = c.loop[k].onFailed

LEMMA PrunedIsKnown ==
  ASSUME NEW c, NEW d, Pruned(c, d), Known(c)
  PROVE  Known(d)
<1>1. ~NoSocket.timeOut
  BY DEF NoSocket
<1> QED BY <1>1 DEF Pruned, Known

LEMMA transportStopPrunes ==
  ASSUME NEW c \in Connections, NEW d, d = transportStop(c)
  PROVE  Pruned(c, d) /\ d.state = c.state
<1>1. CASE c.transport = "webSockets"
  <2>1. d = [c EXCEPT !.socket = NoSocket, !.reconnectTimeout = "none",
                      !.monitoring = FALSE, !.transport = "none"]
    BY <1>1 DEF transportStop, webSocketsStop, Connections
  <2> QED BY <2>1 DEF Connections, Pruned
<1>2. CASE c.transport = "longPolling"
  <2> DEFINE l == [k \in Loops |-> StoppedLoop(c, k)]
  <2>1. \A k \in Loops :
          /\ l[k].at \in {c.loop[k].at, "end"}
          /\ l[k].fireConnect = c.loop[k].fireConnect
          /\ l[k].onFailed = c.loop[k].onFailed
    <3> SUFFICES ASSUME NEW k \in Loops
                 PROVE  /\ l[k].at \in {c.loop[k].at, "end"}
                        /\ l[k].fireConnect = c.loop[k].fireConnect
                        /\ l[k].onFailed = c.loop[k].onFailed
      OBVIOUS
    <3>1. c.loop[k] \in Closures
      BY DEF Connections
    <3> QED BY <3>1 DEF Closures, StoppedLoop
  <2> HIDE DEF l
  <2>2. d = [c EXCEPT !.loop = l, !.pollXhr = None, !.pollTimeoutId = None,
                      !.reconnectTimeoutId = None, !.transport = "none"]
    BY <1>2 DEF transportStop, longPollingStop, Connections, l
  <2> QED BY <2>1, <2>2 DEF Connections, Pruned
<1>3. CASE c.transport = "none"
  BY <1>3 DEF transportStop, Connections, Pruned
<1> QED BY <1>1, <1>2, <1>3 DEF Connections

LEMMA abortRequestsPrunes ==
  ASSUME NEW c \in Connections, NEW d, d = abortRequests(c)
  PROVE  Pruned(c, d) /\ d.state = c.state
<1> DEFINE e == IF c.negotiating = None THEN c ELSE reject(c, c.negotiating)
           l == [k \in Loops |-> AbortedLoop(c, k)]
<1>1. \A k \in Loops :
        /\ l[k].at \in {c.loop[k].at, "end"}
        /\ l[k].fireConnect = c.loop[k].fireConnect
        /\ l[k].onFailed = c.loop[k].onFailed
  <2> SUFFICES ASSUME NEW k \in Loops
               PROVE  /\ l[k].at \in {c.loop[k].at, "end"}
                      /\ l[k].fireConnect = c.loop[k].fireConnect
                      /\ l[k].onFailed = c.loop[k].onFailed
    OBVIOUS
  <2>1. c.loop[k] \in Closures
    BY DEF Connections
  <2> QED BY <2>1 DEF Closures, AbortedLoop
<1>2. e \in Connections /\ e.state = c.state /\ e.socket = c.socket
  BY rejectType DEF reject, Connections
<1>3. d = [e EXCEPT !.negotiating = None, !.loop = l, !.pingLoopId = None]
  BY DEF abortRequests
<1> HIDE DEF e, l
<1> QED BY <1>1, <1>2, <1>3 DEF Connections, Pruned

LEMMA stopStops ==
  ASSUME NEW c \in Connections, Known(c)
  PROVE  Stopped(stop(c))
<1> DEFINE t == IF c.state = "reconnecting" THEN FALSE ELSE c.stopTimeout
           g == [c EXCEPT !.deferral = None, !.state = "disconnected",
                          !.stopTimeout = t, !.beating = FALSE]
           h == transportStop(g)
           f == abortRequests(h)
<1>1. CASE Down(c)
  <2>1. stop(c) = [c EXCEPT !.deferral = None]
    BY <1>1 DEF stop
  <2> QED BY <1>1, <2>1 DEF Stopped, Known, Down, Connections
<1>2. CASE ~Down(c)
  <2>1. stop(c) = [f EXCEPT !.lastActiveAt = "unset", !.newMessageId = FALSE]
    BY <1>2 DEF stop, changeState, Connections, Down
  <2>2. g \in Connections /\ Known(g) /\ Down(g)
    <3>1. t \in BOOLEAN
      BY DEF Connections
    <3> HIDE DEF t
    <3>2. g \in Connections
      BY <3>1 DEF Connections
    <3> QED BY <3>2 DEF Connections, Known, Down
  <2> HIDE DEF g
  <2>3. h \in Connections /\ Known(h) /\ Down(h)
    BY <2>2, transportStopType, transportStopPrunes, PrunedIsKnown DEF Down
  <2> HIDE DEF h
  <2>4. f \in Connections /\ Known(f) /\ Down(f)
    BY <2>3, abortRequestsType, abortRequestsPrunes, PrunedIsKnown DEF Down
  <2> HIDE DEF f
  <2> QED BY <2>1, <2>4 DEF Stopped, Known, Down, Connections
<1> QED BY <1>1, <1>2

LEMMA initNoneStops ==
  ASSUME NEW c \in Connections, Known(c), NEW a \in Starts
  PROVE  Stopped(initNone(c, a))
<1>1. reject(c, a) \in Connections /\ Known(reject(c, a))
  BY rejectType, rejectKeeps, KeptIsKnown
<1> QED BY <1>1, stopStops DEF initNone

-----------------------------------------------------------------------------
(* What handlers call *)

LEMMA markActiveKeeps ==
  ASSUME NEW c \in Connections, Known(c)
  PROVE  LET d == markActive(c) IN Stopped(d) \/ Alike(c, d)
BY stopStops DEF markActive, Alike, Kept, Connections

\* A start that calls back is up, unless it was or is stopped.
LEMMA startedKeeps ==
  ASSUME NEW c \in Connections, Known(c), NEW transport
  PROVE  LET d == started(c, transport)
         IN  Stopped(d) \/ (~Down(c) /\ Kept(c, d) /\ Connected(d))
<1> DEFINE b == [c EXCEPT !.monitoring = @ \/ transport = "webSockets"]
           e == markActive(b)
           f == changeState(e, "connecting", "connected")
           d == onStartEvent(f)
<1>1. CASE Down(c)
  BY <1>1 DEF started, Stopped
<1>2. CASE ~Down(c)
  <2>1. started(c, transport) = d
    BY <1>2 DEF started
  <2>2. b \in Connections /\ Alike(c, b)
    <3> DEFINE m == c.monitoring \/ transport = "webSockets"
    <3>1. m \in BOOLEAN
      OBVIOUS
    <3>2. b = [c EXCEPT !.monitoring = m]
      OBVIOUS
    <3> HIDE DEF m, b
    <3> QED BY <3>1, <3>2 DEF Connections, Alike, Kept
  <2> HIDE DEF b
  <2>3. Known(b)
    BY <2>2, KeptIsKnown DEF Alike
  <2>4. e \in Connections /\ (Stopped(e) \/ Alike(b, e))
    BY <2>2, <2>3, markActiveType, markActiveKeeps
  <2> HIDE DEF e
  <2>5. /\ f \in Connections /\ Kept(e, f)
        /\ f.state = IF e.state = "connecting" THEN "connected" ELSE e.state
    BY <2>4, changeStateType, changeStateKeeps DEF States
  <2> HIDE DEF f
  <2>6. Kept(f, d) /\ d.state = f.state
    BY <2>5, onStartEventKeeps
  <2> HIDE DEF d
  <2>7. CASE Stopped(e)
    <3>1. Known(f) /\ Known(d)
      BY <2>5, <2>6, <2>7, KeptIsKnown DEF Stopped
    <3> QED BY <2>1, <2>5, <2>6, <2>7, <3>1 DEF Stopped, Down
  <2>8. CASE Alike(b, e)
    <3>1. Kept(c, d)
      BY <2>2, <2>5, <2>6, <2>8 DEF Alike, Kept
    <3>2. Connected(d)
      BY <1>2, <2>2, <2>5, <2>6, <2>8
         DEF Alike, Connected, Down, Connections
    <3> QED BY <1>2, <2>1, <3>1, <3>2
  <2> QED BY <2>4, <2>7, <2>8
<1> QED BY <1>1, <1>2

\* A connection whose socket may be lost, but is not given up.
Losing(c) ==
  /\ Known(c)
  /\ c.alone /\ ~Down(c) =>
       \/ Asking(c) \/ OverPolls(c)
       \/ /\ c.transport = "webSockets" /\ c.negotiating = None
          /\ FreeLoops(c) = Loops
          /\ Trying(c) \/ (Connected(c) /\ c.reconnectTimeout # "fired")

LEMMA reconnectIsWatched ==
  ASSUME NEW c \in Connections, Losing(c)
  PROVE  Watched(reconnect(c))
<1> DEFINE d == [c EXCEPT !.reconnectTimeout = "due"]
<1>1. CASE /\ Connected(c) /\ c.reconnectTimeout = "none"
           /\ c.lastActiveAt = "stale"
  BY <1>1, stopStops, StoppedIsWatched DEF reconnect, Losing
<1>2. CASE /\ Connected(c) /\ c.reconnectTimeout = "none"
           /\ c.lastActiveAt # "stale"
  <2>1. reconnect(c) = d
    BY <1>2 DEF reconnect
  <2>2. /\ d.state = c.state /\ d.transport = c.transport /\ d.loop = c.loop
        /\ d.negotiating = c.negotiating /\ d.alone = c.alone
        /\ d.socket = c.socket /\ d.reconnectTimeout = "due"
    BY DEF Connections
  <2> HIDE DEF d
  <2>3. Known(d)
    BY <2>2 DEF Losing, Known
  <2>4. OverPolls(c) => OverPolls(d)
    BY <2>2 DEF OverPolls
  <2>5. ~Asking(c) /\ ~Trying(c)
    BY <1>2 DEF Asking, Trying, Connected
  <2>6. InUse(d) /\ FreeLoops(d) = FreeLoops(c) /\ Down(d) = Down(c)
    BY <1>2, <2>2 DEF InUse, Connected, FreeLoops, Down
  <2> QED BY <2>1, <2>2, <2>3, <2>4, <2>5, <2>6
          DEF Watched, Losing, OverSocket
<1>3. CASE ~Connected(c)
  <2>1. reconnect(c) = c
    BY <1>3 DEF reconnect
  <2> QED BY <1>3, <2>1 DEF Losing, Watched, OverSocket
<1>4. CASE Connected(c) /\ c.reconnectTimeout # "none"
  <2>1. reconnect(c) = c
    BY <1>4 DEF reconnect
  <2>2. c.reconnectTimeout # "fired" => c.reconnectTimeout = "due"
    BY <1>4 DEF Connections
  <2> QED BY <1>4, <2>1, <2>2 DEF Losing, Watched, OverSocket, InUse
<1> QED BY <1>1, <1>2, <1>3, <1>4

\* A new call of longPolling.start carries the connection.
LEMMA initLongPollingIsWatched ==
  ASSUME NEW c \in Connections, Known(c), NEW a \in Starts,
         FreeLoops(c) # {},
         c.alone /\ ~Down(c) => c.negotiating = None
  PROVE  Watched(initLongPolling(c, a))
<1> DEFINE b == [c EXCEPT !.transport = "longPolling"]
           e == IF b.pollXhr = None THEN b ELSE stop(b)
           k == CHOOSE l \in FreeLoops(b) : TRUE
           n == [Ended EXCEPT !.at = "ping", !.start = a,
                              !.fireConnect = TRUE, !.onFailed = TRUE]
           d == [e EXCEPT !.loop[k] = n, !.pollTimeoutId = None,
                          !.reconnectTimeoutId = None]
<1>1. CASE Down(c)
  <2>1. initLongPolling(c, a) = c
    BY <1>1 DEF initLongPolling
  <2> QED BY <1>1, <2>1 DEF Watched
<1>2. CASE ~Down(c)
  <2>1. initLongPolling(c, a) = d
    BY <1>2 DEF initLongPolling, longPollingStart
  <2>2. /\ b \in Connections /\ Known(b) /\ ~Down(b)
        /\ b.alone => b.negotiating = None
        /\ b.transport = "longPolling" /\ b.loop = c.loop
    BY <1>2 DEF Connections, Known, Down
  <2> HIDE DEF b
  <2>3. k \in Loops
    BY <2>2 DEF FreeLoops
  <2> HIDE DEF k
  <2>4. n.at = "ping" /\ n.fireConnect /\ n.onFailed
    BY DEF Ended
  <2> HIDE DEF n
  <2>5. e \in Connections /\ Known(e) /\ (Down(e) \/ e = b)
    BY <2>2, stopType, stopStops DEF Stopped
  <2> HIDE DEF e
  <2>6. /\ d.loop = [e.loop EXCEPT ![k] = n] /\ d.state = e.state
        /\ d.socket = e.socket /\ d.transport = e.transport
        /\ d.negotiating = e.negotiating /\ d.alone = e.alone
    BY <2>5 DEF Connections
  <2> HIDE DEF d
  <2>7. d.loop[k] = n /\ \A l \in Loops \ {k} : d.loop[l] = e.loop[l]
    BY <2>3, <2>5, <2>6 DEF Connections
  <2>8. Known(d)
    BY <2>4, <2>5, <2>6, <2>7 DEF Known
  <2>9. CASE Down(e)
    BY <2>1, <2>6, <2>8, <2>9 DEF Watched, Down
  <2>10. CASE e = b
    BY <2>1, <2>2, <2>3, <2>4, <2>6, <2>7, <2>8, <2>10
       DEF Watched, OverPolls
  <2> QED BY <2>5, <2>9, <2>10
<1> QED BY <1>1, <1>2

-----------------------------------------------------------------------------
(* Starts, stops and timers *)

LEMMA StartKeepsWatch ==
  ASSUME NEW c \in Connections, Watched(c), Down(c), NEW a \in Starts,
         NEW d, d = [c EXCEPT !.state = "connecting", !.deferral = a,
                              !.promise[a] = "pending",
                              !.onStart = @ \cup {a}, !.negotiating = a,
                              !.alone = ~LeftAlive(c)]
  PROVE  Watched(d)
<1>1. /\ d.state = "connecting" /\ d.deferral = a /\ d.negotiating = a
      /\ d.promise[a] = "pending" /\ d.alone = ~LeftAlive(c)
      /\ d.socket = c.socket /\ d.loop = c.loop
      /\ d.reconnectTimeout = c.reconnectTimeout
  BY DEF Connections
<1>2. Known(d) /\ LeftAlive(d) = LeftAlive(c)
  BY <1>1 DEF Watched, Known, LeftAlive, FreeLoops
<1> QED BY <1>1, <1>2 DEF Watched, Asking

LEMMA NegotiationKeepsWatch ==
  ASSUME NEW c \in Connections, Watched(c), c.negotiating # None
  PROVE  LET b == Negotiating(c)
             a == c.negotiating
         IN  /\ Watched(initNone(b, a))
             /\ Watched(reject(b, a))
             /\ Watched(initWebSockets(b, a))
             /\ FreeLoops(c) # {} => Watched(initLongPolling(b, a))
<1> DEFINE b == Negotiating(c)
           a == c.negotiating
<1>1. a \in Starts
  BY DEF Connections
<1>2. /\ b \in Connections /\ b.negotiating = None
      /\ b.state = c.state /\ b.promise = c.promise /\ b.loop = c.loop
      /\ b.socket = c.socket /\ b.reconnectTimeout = c.reconnectTimeout
      /\ b.deferral = c.deferral /\ b.alone = c.alone
  BY DEF Negotiating, Connections
<1>3. c.alone /\ ~Down(c) => Asking(c)
  BY DEF Watched, OverSocket, OverPolls
<1> HIDE DEF b
<1>4. Known(b)
  BY <1>2 DEF Watched, Known
<1>5. Watched(initNone(b, a))
  BY <1>1, <1>2, <1>4, initNoneStops, StoppedIsWatched
<1>6. Watched(reject(b, a))
  <2> DEFINE d == reject(b, a)
  <2>1. /\ Kept(b, d) /\ d.state = b.state
        /\ d.promise[a] = IF b.promise[a] = "pending" THEN "rejected"
                          ELSE b.promise[a]
    BY <1>1, <1>2 DEF reject, Kept, Connections
  <2> HIDE DEF d
  <2>2. Known(d)
    BY <1>4, <2>1, KeptIsKnown
  <2>3. Asking(c) => Asking(d)
    BY <1>1, <1>2, <2>1 DEF Asking, Kept, LeftAlive, FreeLoops
  <2> QED BY <1>2, <1>3, <2>1, <2>2, <2>3 DEF Watched, Kept, Down, d
<1>7. Watched(initWebSockets(b, a))
  <2> DEFINE e == [b EXCEPT !.transport = "webSockets"]
             d == webSocketsStart(e, a)
  <2>1. CASE Down(b)
    BY <1>4, <2>1 DEF initWebSockets, Watched
  <2>2. CASE ~Down(b)
    <3>1. initWebSockets(b, a) = d
      BY <2>2 DEF initWebSockets
    <3>2. /\ d.transport = "webSockets" /\ d.negotiating = None
          /\ d.state = b.state /\ d.loop = b.loop /\ d.alone = b.alone
          /\ d.reconnectTimeout = b.reconnectTimeout
          /\ \/ b.socket.status # "none" /\ d.socket = b.socket
             \/ /\ d.socket.onSuccess /\ d.socket.timeOut
                /\ d.socket.status = "new"
      BY <1>1, <1>2, NoneIsNoName DEF webSocketsStart, Connections, None
    <3> HIDE DEF d
    <3>3. Known(d)
      BY <1>4, <3>2 DEF Known
    <3>4. b.socket.status \in {"none", "new", "open", "closed"}
      BY <1>2 DEF Connections, Sockets
    <3>5. Asking(c) => OverSocket(d)
      BY <1>2, <3>2, <3>4
         DEF Asking, LeftAlive, OverSocket, Trying, FreeLoops
    <3> QED BY <1>2, <1>3, <3>1, <3>2, <3>3, <3>5 DEF Watched, Down
  <2> QED BY <2>1, <2>2
<1>8. FreeLoops(c) # {} => Watched(initLongPolling(b, a))
  BY <1>1, <1>2, <1>4, initLongPollingIsWatched DEF FreeLoops
<1> QED BY <1>5, <1>6, <1>7, <1>8 DEF b

LEMMA KeepAliveKeepsWatch ==
  ASSUME NEW c \in Connections, Watched(c)
  PROVE  Watched(markActive(reconnect(c)))
<1>1. Losing(c)
  BY DEF Watched, Losing, OverSocket, InUse
<1>2. reconnect(c) \in Connections /\ Watched(reconnect(c))
  BY <1>1, reconnectType, reconnectIsWatched
<1> QED BY <1>2, markActiveKeeps, StoppedIsWatched, AlikeIsWatched
        DEF Watched

LEMMA ReconnectTimeoutKeepsWatch ==
  ASSUME NEW c \in Connections, Watched(c), c.reconnectTimeout = "due"
  PROVE  LET b == [c EXCEPT !.reconnectTimeout = "fired"]
             d == ensureReconnectingState(webSocketsStop(b))
         IN  /\ Watched(stop(b))
             /\ IF d.state = "reconnecting"
                THEN Watched(webSocketsStart(d, None)) ELSE Watched(d)
<1> DEFINE b == [c EXCEPT !.reconnectTimeout = "fired"]
           e == webSocketsStop(b)
           d == ensureReconnectingState(e)
           f == webSocketsStart(d, None)
<1>1. b \in Connections /\ Known(b)
  BY DEF Connections, Watched, Known
<1>2. Watched(stop(b))
  BY <1>1, stopStops, StoppedIsWatched
<1>3. /\ e \in Connections /\ e.socket = NoSocket /\ e.state = c.state
      /\ e.reconnectTimeout = "none" /\ e.loop = c.loop
      /\ e.transport = c.transport /\ e.negotiating = c.negotiating
      /\ e.alone = c.alone
  BY <1>1, webSocketsStopType DEF webSocketsStop, Connections
<1> HIDE DEF b, e
<1>4. /\ d \in Connections /\ Kept(e, d)
      /\ d.state = IF c.state = "connected" THEN "reconnecting" ELSE c.state
  BY <1>3, ensureReconnectingStateType, ensureReconnectingStateKeeps
<1> HIDE DEF d
<1>5. Known(d) /\ (c.alone /\ ~Down(c) => OverPolls(d) \/ Connected(c))
  <2>1. Known(d)
    BY <1>3, <1>4 DEF Watched, Known, Kept, NoSocket
  <2>2. OverPolls(c) => OverPolls(d)
    BY <1>3, <1>4 DEF OverPolls, Kept
  <2> QED BY <2>1, <2>2
          DEF Watched, Asking, LeftAlive, OverSocket, Trying, InUse
<1>6. CASE d.state # "reconnecting"
  BY <1>2, <1>3, <1>4, <1>5, <1>6
     DEF Watched, Connected, Down, Kept, b, e, d
<1>7. CASE d.state = "reconnecting"
  <2>1. /\ f.socket = [status |-> "new", start |-> None,
                       onSuccess |-> FALSE, timeOut |-> FALSE]
        /\ f.state = d.state /\ f.reconnectTimeout = "none"
        /\ f.loop = d.loop /\ f.transport = d.transport
        /\ f.negotiating = d.negotiating /\ f.alone = d.alone
    <3> DEFINE s == [status |-> "new", start |-> None,
                     onSuccess |-> FALSE, timeOut |-> FALSE]
    <3>1. f = [d EXCEPT !.socket = s]
      <4>1. d.socket.status = "none"
        BY <1>3, <1>4 DEF Kept, NoSocket
      <4>2. s = [status |-> "new", start |-> None,
                 onSuccess |-> None # None, timeOut |-> None # None]
        OBVIOUS
      <4> QED BY <4>1, <4>2 DEF webSocketsStart
    <3> HIDE DEF s, f
    <3>2. f.socket = s
      BY <1>4, <3>1 DEF Connections
    <3> QED BY <1>3, <1>4, <3>1, <3>2 DEF Connections, Kept, s
  <2> HIDE DEF f
  <2>2. Known(f) /\ InUse(f)
    BY <1>5, <1>7, <2>1 DEF Known, InUse, Connected
  <2>3. OverPolls(d) => OverPolls(f)
    BY <2>1 DEF OverPolls
  <2>4. OverSocket(c) => OverSocket(f)
    BY <1>3, <1>4, <2>1, <2>2 DEF OverSocket, Kept, FreeLoops
  <2>5. OverPolls(c) => OverPolls(d)
    BY <1>3, <1>4 DEF OverPolls, Kept
  <2>6. ~Asking(c) /\ (Down(c) => Down(d))
    BY <1>4 DEF Asking, LeftAlive, Down
  <2>7. f.alone = c.alone
    BY <1>3, <1>4, <2>1 DEF Kept
  <2>8. Watched(f)
    BY <1>7, <2>1, <2>2, <2>3, <2>4, <2>5, <2>6, <2>7 DEF Watched, Down
  <2> QED BY <1>2, <1>7, <2>8 DEF b, e, d, f
<1> QED BY <1>6, <1>7 DEF b, e, d

-----------------------------------------------------------------------------
(* The socket *)

\* What becomes of the socket alone.
Resocketed(c, d, status, timeOut) ==
  /\ d.state = c.state /\ d.transport = c.transport /\ d.loop = c.loop
  /\ d.negotiating = c.negotiating /\ d.alone = c.alone
  /\ d.reconnectTimeout = c.reconnectTimeout
  /\ d.socket.start = c.socket.start
  /\ d.socket.onSuccess = c.socket.onSuccess
  /\ d.socket.status = status /\ d.socket.timeOut = timeOut

LEMMA SocketFrame ==
  ASSUME NEW c \in Connections, NEW s \in {"new", "open", "closed"}
  PROVE  /\ LET d == [c EXCEPT !.socket.status = s, !.socket.timeOut = FALSE]
            IN  d \in Connections /\ Resocketed(c, d, s, FALSE)
         /\ LET d == [c EXCEPT !.socket.timeOut = FALSE]
            IN  d \in Connections /\ Resocketed(c, d, c.socket.status, FALSE)
         /\ LET d == [c EXCEPT !.socket.status = s]
            IN  ~c.socket.timeOut =>
                  d \in Connections /\ Resocketed(c, d, s, FALSE)
BY DEF Connections, Sockets, Resocketed

LEMMA OpenKeepsWatch ==
  ASSUME NEW c \in Connections, Watched(c), c.socket.status = "new",
         NEW d, Resocketed(c, d, "open", FALSE)
  PROVE  Watched(d)
<1>1. ~Asking(c) /\ Known(d)
  BY DEF Asking, LeftAlive, Watched, Known, Resocketed
<1>2. OverPolls(c) => OverPolls(d)
  BY DEF OverPolls, Resocketed
<1>3. OverSocket(c) => OverSocket(d)
  BY DEF OverSocket, Trying, InUse, Connected, FreeLoops, Resocketed
<1> QED BY <1>1, <1>2, <1>3 DEF Watched, Resocketed, Down

LEMMA LostIsLosing ==
  ASSUME NEW c \in Connections, Watched(c),
         c.socket.status \in {"new", "open"},
         NEW d, Resocketed(c, d, "closed", FALSE)
  PROVE  Losing(d)
<1>1. ~Asking(c) /\ Known(d)
  BY DEF Asking, LeftAlive, Watched, Known, Resocketed
<1>2. OverPolls(c) => OverPolls(d)
  BY DEF OverPolls, Resocketed
<1>3. OverSocket(c) =>
        /\ d.transport = "webSockets" /\ d.negotiating = None
        /\ FreeLoops(d) = Loops
        /\ Trying(d) \/ (Connected(d) /\ d.reconnectTimeout # "fired")
  BY DEF OverSocket, Trying, InUse, Connected, FreeLoops, Resocketed
<1> QED BY <1>1, <1>2, <1>3 DEF Losing, Watched, Resocketed, Down

\* An attempt that fails hands the connection over to longPolling.
LEMMA FailedAttemptKeepsWatch ==
  ASSUME NEW c \in Connections, Watched(c), FreeLoops(c) # {},
         c.socket.status \in {"new", "open"}, c.socket.start # None,
         NEW d \in Connections, NEW s, NEW t, Resocketed(c, d, s, t),
         t => s = "new"
  PROVE  Watched(initLongPolling(d, c.socket.start))
<1>1. ~Asking(c)
  BY DEF Asking, LeftAlive
<1>2. Known(d) /\ FreeLoops(d) # {}
  BY DEF Watched, Known, Resocketed, FreeLoops
<1>3. d.alone /\ ~Down(d) => d.negotiating = None
  BY <1>1 DEF Watched, OverSocket, OverPolls, Resocketed, Down
<1>4. c.socket.start \in Starts
  BY DEF Connections, Sockets
<1> QED BY <1>2, <1>3, <1>4, initLongPollingIsWatched

LEMMA socketIsHeardKeepsWatch ==
  ASSUME NEW c \in Connections, Watched(c), c.socket.status = "open"
  PROVE  Watched(socketIsHeard(c))
<1> DEFINE b == [c EXCEPT !.socket.onSuccess = FALSE]
           e == IF c.socket.onSuccess THEN started(b, "webSockets")
                ELSE changeState(c, "reconnecting", "connected")
           d == [e EXCEPT !.reconnectTimeout = "none"]
<1>1. socketIsHeard(c) = d
  BY DEF socketIsHeard
<1>2. /\ b \in Connections /\ b.state = c.state /\ b.loop = c.loop
      /\ b.transport = c.transport /\ b.negotiating = c.negotiating
      /\ b.alone = c.alone /\ b.socket.status = "open" /\ Known(b)
      /\ b.socket.timeOut = c.socket.timeOut
  BY DEF Connections, Sockets, Watched, Known
<1> HIDE DEF b
<1>3. /\ ~Asking(c)
      /\ OverSocket(c) => Connected(c) \/ c.socket.onSuccess
  BY DEF Asking, LeftAlive, OverSocket, Trying, InUse
<1>4. /\ e \in Connections
      /\ \/ Stopped(e)
         \/ /\ e.loop = c.loop /\ e.transport = c.transport
            /\ e.negotiating = c.negotiating /\ e.alone = c.alone
            /\ e.socket.status = "open"
            /\ e.socket.timeOut = c.socket.timeOut
            /\ e.state = "connecting" => c.state = "connecting"
            /\ Down(c) => Down(e)
            /\ OverSocket(c) => Connected(e)
  <2>1. CASE c.socket.onSuccess
    BY <1>2, <2>1, startedType, startedKeeps
       DEF Kept, Connected, Down
  <2>2. CASE ~c.socket.onSuccess
    <3>1. /\ e \in Connections /\ Kept(c, e)
          /\ e.state = IF c.state = "reconnecting" THEN "connected"
                       ELSE c.state
      BY <2>2, changeStateType, changeStateKeeps DEF States
    <3> QED BY <1>3, <2>2, <3>1 DEF Kept, Connected, Down
  <2> QED BY <2>1, <2>2
<1> HIDE DEF e
<1>5. /\ d.state = e.state /\ d.loop = e.loop /\ d.alone = e.alone
      /\ d.transport = e.transport /\ d.negotiating = e.negotiating
      /\ d.socket = e.socket /\ d.reconnectTimeout = "none"
  BY <1>4 DEF Connections
<1> HIDE DEF d
<1>6. CASE Stopped(e)
  BY <1>1, <1>5, <1>6 DEF Stopped, Watched, Known, Down
<1>7. CASE ~Stopped(e)
  <2>1. Known(d)
    BY <1>4, <1>5, <1>7 DEF Watched, Known
  <2>2. OverPolls(c) => OverPolls(d)
    BY <1>4, <1>5, <1>7 DEF OverPolls
  <2>3. OverSocket(c) => OverSocket(d)
    BY <1>4, <1>5, <1>7 DEF OverSocket, InUse, Connected, FreeLoops
  <2> QED BY <1>1, <1>3, <1>4, <1>5, <1>7, <2>1, <2>2, <2>3
          DEF Watched, Down
<1> QED BY <1>6, <1>7

-----------------------------------------------------------------------------
(* The calls of longPolling.start *)

\* The shape in which a call of longPolling.start is at work.
Polled(c) == Known(c) /\ (c.alone /\ ~Down(c) => OverPolls(c))

LEMMA AtWorkIsPolled ==
  ASSUME NEW c, Watched(c), NEW k \in Loops, k \notin FreeLoops(c)
  PROVE  Polled(c)
BY DEF Watched, Polled, Asking, LeftAlive, OverSocket

LEMMA PolledIsWatched ==
  ASSUME NEW c, Polled(c)
  PROVE  Watched(c)
BY DEF Watched, Polled

LEMMA StoppedIsPolled ==
  ASSUME NEW c, Stopped(c)
  PROVE  Polled(c)
BY DEF Stopped, Polled

\* Functions that change nothing this shape tells apart.
SamePolls(c, d) ==
  /\ d.socket = c.socket /\ d.transport = c.transport
  /\ d.negotiating = c.negotiating /\ d.alone = c.alone
  /\ d.state = "connecting" => c.state = "connecting"
  /\ Down(c) => Down(d)
  /\ \A k \in Loops : /\ d.loop[k].at = c.loop[k].at
                      /\ d.loop[k].fireConnect = c.loop[k].fireConnect
                      /\ d.loop[k].onFailed = c.loop[k].onFailed

LEMMA SamePollsIsPolled ==
  ASSUME NEW c, NEW d, Polled(c), SamePolls(c, d)
  PROVE  Polled(d)
<1>1. Known(d)
  BY DEF Polled, Known, SamePolls
<1>2. OverPolls(c) => OverPolls(d)
  BY DEF OverPolls, SamePolls
<1> QED BY <1>1, <1>2 DEF Polled, SamePolls

\* A call goes on, or it ends while the connection is down, or before the
\* connection is up though the call was told that it has failed.
LEMMA GotoIsPolled ==
  ASSUME NEW c \in Connections, Polled(c), NEW k \in Loops, NEW label,
         \/ c.loop[k].at # "end" /\ label # "end"
         \/ label = "end" /\ Down(c)
         \/ /\ label = "end" /\ c.loop[k].at # "end"
            /\ c.state = "connecting" /\ ~c.loop[k].onFailed
  PROVE  Polled(Goto(c, k, label))
<1> DEFINE d == Goto(c, k, label)
<1>1. /\ d.state = c.state /\ d.socket = c.socket
      /\ d.transport = c.transport /\ d.negotiating = c.negotiating
      /\ d.alone = c.alone
      /\ d.loop = [c.loop EXCEPT ![k].at = label]
  BY DEF Goto, Connections
<1>2. /\ d.loop[k].at = label
      /\ \A l \in Loops : /\ d.loop[l].fireConnect = c.loop[l].fireConnect
                          /\ d.loop[l].onFailed = c.loop[l].onFailed
                          /\ l # k => d.loop[l].at = c.loop[l].at
  BY <1>1 DEF Connections, Closures
<1> HIDE DEF d
<1>3. Known(d)
  BY <1>1, <1>2 DEF Polled, Known
<1>4. ~Down(c) => (OverPolls(c) => OverPolls(d))
  BY <1>1, <1>2 DEF Polled, Known, OverPolls
<1> QED BY <1>1, <1>3, <1>4 DEF Polled, Down, d

LEMMA GotoFrame ==
  ASSUME NEW c \in Connections, NEW k \in Loops, NEW label
  PROVE  LET d == Goto(c, k, label)
         IN  /\ d.state = c.state /\ d.transport = c.transport
             /\ d.loop[k].onFailed = c.loop[k].onFailed
             /\ d.loop[k].start = c.loop[k].start
             /\ d.loop[k].fireConnect = c.loop[k].fireConnect
             /\ d.loop[k].at = label
             /\ Known(c) /\ label = "end" => Known(d)
<1> DEFINE d == Goto(c, k, label)
<1>1. d.state = c.state /\ d.transport = c.transport /\ d.socket = c.socket
  BY DEF Goto, Connections
<1>2. /\ d.loop[k].at = label /\ d.loop[k].start = c.loop[k].start
      /\ \A l \in Loops : /\ d.loop[l].fireConnect = c.loop[l].fireConnect
                          /\ d.loop[l].onFailed = c.loop[l].onFailed
                          /\ l # k => d.loop[l].at = c.loop[l].at
  BY DEF Goto, Connections, Closures
<1> HIDE DEF d
<1> QED BY <1>1, <1>2 DEF Known, d

LEMMA fireConnectPolls ==
  ASSUME NEW c \in Connections, Polled(c), NEW k \in Loops
  PROVE  LET d == fireConnect(c, k)
         IN  /\ d \in Connections /\ Polled(d)
             /\ ~Down(d) => d.loop[k].at = c.loop[k].at
<1> DEFINE b == [c EXCEPT !.loop[k].fireConnect = FALSE,
                          !.loop[k].onFailed = FALSE]
<1>1. CASE ~c.loop[k].fireConnect
  BY <1>1 DEF fireConnect
<1>2. CASE c.loop[k].fireConnect
  <2> DEFINE d == started(b, "longPolling")
  <2>1. b \in Connections
    <3> DEFINE l == [c.loop[k] EXCEPT !.fireConnect = FALSE,
                                      !.onFailed = FALSE]
    <3>1. l \in Closures
      BY ClosureType DEF Connections
    <3>2. b = [c EXCEPT !.loop[k] = l]
      BY DEF Connections
    <3> HIDE DEF b, l
    <3> QED BY <3>1, <3>2, LoopType
  <2>2. /\ b.socket = c.socket /\ b.transport = c.transport
        /\ b.negotiating = c.negotiating /\ b.alone = c.alone
        /\ \A l \in Loops : b.loop[l].at = c.loop[l].at
        /\ \A l \in Loops \ {k} : b.loop[l] = c.loop[l]
        /\ ~b.loop[k].fireConnect /\ b.state = c.state
    BY DEF Connections, Closures
  <2> HIDE DEF b
  <2>3. Known(b)
    BY <2>2 DEF Polled, Known
  <2>4. d \in Connections
    BY <2>1, startedType
  <2>5. \/ Stopped(d)
        \/ ~Down(b) /\ Kept(b, d) /\ Connected(d)
    BY <2>1, <2>3, startedKeeps
  <2> HIDE DEF d
  <2>6. Known(d)
    BY <2>3, <2>5, KeptIsKnown DEF Stopped
  <2>7. CASE Stopped(d)
    BY <1>2, <2>4, <2>7, StoppedIsPolled DEF fireConnect, Stopped, b, d
  <2>8. CASE ~Down(b) /\ Kept(b, d) /\ Connected(d)
    <3>1. OverPolls(c) => OverPolls(d)
      BY <2>2, <2>8 DEF OverPolls, Kept, Connected
    <3>2. Polled(d) /\ d.loop[k].at = c.loop[k].at
      BY <2>2, <2>6, <2>8, <3>1 DEF Polled, Kept, Down
    <3> QED BY <1>2, <2>4, <3>2 DEF fireConnect, b, d
  <2> QED BY <2>5, <2>7, <2>8
<1> QED BY <1>1, <1>2

LEMMA clearReconnectTimeoutPolls ==
  ASSUME NEW c \in Connections
  PROVE  LET d == clearReconnectTimeout(c)
         IN  SamePolls(c, d) /\ d.state = c.state
             /\ \A k \in Loops : d.loop[k].start = c.loop[k].start
<1> DEFINE i == c.reconnectTimeoutId
           l == [c.loop EXCEPT ![i].raise = FALSE]
           d == [c EXCEPT !.loop = l, !.reconnectTimeoutId = None]
<1>1. CASE i = None
  BY <1>1 DEF clearReconnectTimeout, SamePolls
<1>2. CASE i # None
  <2>1. \A k \in Loops : /\ l[k].at = c.loop[k].at
                        /\ l[k].fireConnect = c.loop[k].fireConnect
                        /\ l[k].onFailed = c.loop[k].onFailed
                        /\ l[k].start = c.loop[k].start
    <3> SUFFICES ASSUME NEW k \in Loops
                 PROVE  /\ l[k].at = c.loop[k].at
                        /\ l[k].fireConnect = c.loop[k].fireConnect
                        /\ l[k].onFailed = c.loop[k].onFailed
                        /\ l[k].start = c.loop[k].start
      OBVIOUS
    <3>1. c.loop[k] \in Closures /\ c.loop \in [Loops -> Closures]
      BY DEF Connections
    <3>2. l[k] = IF k = i THEN [c.loop[k] EXCEPT !.raise = FALSE]
                 ELSE c.loop[k]
      BY <3>1
    <3> HIDE DEF l
    <3> QED BY <3>1, <3>2 DEF Closures
  <2>2. clearReconnectTimeout(c) = d
    BY <1>2 DEF clearReconnectTimeout, Connections
  <2> HIDE DEF l
  <2>3. SamePolls(c, d) /\ d.state = c.state
        /\ \A k \in Loops : d.loop[k].start = c.loop[k].start
    BY <2>1 DEF SamePolls, Connections, Down
  <2> QED BY <2>2, <2>3
<1> QED BY <1>1, <1>2

LEMMA fireReconnectedPolls ==
  ASSUME NEW c \in Connections
  PROVE  SamePolls(c, fireReconnected(c))
<1> DEFINE b == clearReconnectTimeout(c)
           d == changeState(b, "reconnecting", "connected")
<1>1. b \in Connections /\ SamePolls(c, b)
  BY clearReconnectTimeoutType, clearReconnectTimeoutPolls
<1> HIDE DEF b
<1>2. Kept(b, d) /\ d.state = IF b.state = "reconnecting" THEN "connected"
                             ELSE b.state
  BY <1>1, changeStateKeeps
<1> HIDE DEF d
<1>3. SamePolls(c, d)
  BY <1>1, <1>2 DEF SamePolls, Kept, Down
<1> QED BY <1>3 DEF fireReconnected, b, d

LEMMA pollPolls ==
  ASSUME NEW c \in Connections, Polled(c), NEW k \in Loops,
         ~Down(c) => c.loop[k].at # "end", NEW raiseReconnect
  PROVE  Polled(poll(c, k, raiseReconnect))
<1> DEFINE g == Goto(c, k, "poll")
           d == poll(c, k, raiseReconnect)
<1>1. CASE Down(c)
  BY <1>1, GotoIsPolled DEF poll
<1>2. CASE ~Down(c)
  <2>1. Polled(g)
    BY <1>2, GotoIsPolled
  <2>2. SamePolls(g, d)
    <3> DEFINE e == [c EXCEPT !.loop[k].at = "poll", !.loop[k].polled = TRUE,
                              !.pollXhr = k]
               f == [e EXCEPT !.loop[k].raise = TRUE,
                              !.reconnectTimeoutId = k]
    <3>1. d = IF raiseReconnect /\ ~c.newMessageId THEN f ELSE e
      BY <1>2 DEF poll
    <3>2. SamePolls(g, e)
      BY DEF Goto, SamePolls, Connections, Closures, Down
    <3>3. SamePolls(g, f)
      BY DEF Goto, SamePolls, Connections, Closures, Down
    <3> HIDE DEF d, e, f, g
    <3> QED BY <3>1, <3>2, <3>3
  <2> HIDE DEF d, g
  <2>3. Polled(d)
    BY <2>1, <2>2, SamePollsIsPolled
  <2> QED BY <2>3 DEF d
<1> QED BY <1>1, <1>2

\* The success handler: what it leaves is watched, and the call is where it
\* was unless the connection is down.
LEMMA pollIsHeardPolls ==
  ASSUME NEW c \in Connections, Polled(c), NEW k \in Loops
  PROVE  LET d == pollIsHeard(c, k)
         IN  /\ d \in Connections /\ Polled(d)
             /\ ~Down(d) => d.loop[k].at = c.loop[k].at
<1> DEFINE b == IF c.reconnectTimeoutId = None THEN c ELSE fireReconnected(c)
<1>1. b \in Connections /\ SamePolls(c, b)
  BY fireReconnectedType, fireReconnectedPolls DEF SamePolls
<1> HIDE DEF b
<1>2. Polled(b) /\ b.loop[k].at = c.loop[k].at
  BY <1>1, SamePollsIsPolled DEF SamePolls
<1> QED BY <1>1, <1>2, fireConnectPolls DEF pollIsHeard, b

LEMMA PingKeepsWatch ==
  ASSUME NEW c \in Connections, Polled(c), NEW k \in Loops,
         c.loop[k].at = "ping"
  PROVE  /\ Polled(poll(c, k, TRUE))
         /\ Polled([Goto(c, k, "delay") EXCEPT !.newMessageId = TRUE,
                                               !.pollTimeoutId = k])
         /\ Polled(pingFail(c, k))
         /\ Polled(stop(pingFail(c, k)))
<1> DEFINE g == Goto(c, k, "delay")
           d == [g EXCEPT !.newMessageId = TRUE, !.pollTimeoutId = k]
           r == Goto(c, k, "reping")
           f == pingFail(c, k)
<1>1. Polled(poll(c, k, TRUE))
  BY pollPolls
<1>2. Polled(d)
  <2>1. g \in Connections /\ Polled(g)
    BY GotoType, GotoIsPolled DEF Labels
  <2> HIDE DEF g
  <2>2. SamePolls(g, d)
    BY <2>1 DEF SamePolls, Connections, Down
  <2> QED BY <2>1, <2>2, SamePollsIsPolled
<1>3. Polled(f)
  <2>1. CASE Down(c)
    BY <2>1, GotoIsPolled DEF pingFail
  <2>2. CASE ~Down(c)
    <3>1. r \in Connections /\ Polled(r)
      BY GotoType, GotoIsPolled DEF Labels
    <3>2. f = [r EXCEPT !.pingLoopId = k]
      BY <2>2 DEF pingFail
    <3> HIDE DEF r, f
    <3>3. SamePolls(r, f)
      BY <3>1, <3>2 DEF SamePolls, Connections, Down
    <3> QED BY <3>1, <3>3, SamePollsIsPolled
  <2> QED BY <2>1, <2>2
<1>4. Polled(stop(f))
  BY <1>3, pingFailType, stopStops, StoppedIsPolled DEF Polled
<1> QED BY <1>1, <1>2, <1>3, <1>4

LEMMA LoopTimerKeepsWatch ==
  ASSUME NEW c \in Connections, Polled(c), NEW k \in Loops
  PROVE  /\ c.loop[k].at # "end" =>
              /\ Polled(Goto(c, k, "ping"))
              /\ \A r \in BOOLEAN : Polled(poll(c, k, r))
              /\ Polled([poll(c, k, FALSE) EXCEPT !.loop[k].timer = TRUE])
         /\ Polled(fireConnect([c EXCEPT !.loop[k].timer = FALSE], k))
         /\ Polled(fireReconnected([c EXCEPT !.loop[k].raise = FALSE]))
<1> DEFINE p == poll(c, k, FALSE)
           t == [c EXCEPT !.loop[k].timer = FALSE]
           r == [c EXCEPT !.loop[k].raise = FALSE]
<1>1. ASSUME c.loop[k].at # "end"
      PROVE  Polled([p EXCEPT !.loop[k].timer = TRUE])
  <2>1. p \in Connections /\ Polled(p)
    BY <1>1, pollType, pollPolls
  <2> HIDE DEF p
  <2>2. SamePolls(p, [p EXCEPT !.loop[k].timer = TRUE])
    BY <2>1 DEF SamePolls, Connections, Closures, Down
  <2> QED BY <2>1, <2>2, SamePollsIsPolled
<1>2. ASSUME c.loop[k].at # "end"
      PROVE  /\ Polled(Goto(c, k, "ping"))
             /\ \A q \in BOOLEAN : Polled(poll(c, k, q))
  BY <1>2, GotoIsPolled, pollPolls
<1>3. Polled(fireConnect(t, k))
  <2>1. t \in Connections
    BY ClosureType, LoopType DEF Connections
  <2>2. SamePolls(c, t)
    BY DEF SamePolls, Connections, Closures, Down
  <2> HIDE DEF t
  <2> QED BY <2>1, <2>2, SamePollsIsPolled, fireConnectPolls
<1>4. Polled(fireReconnected(r))
  <2>1. r \in Connections
    BY ClosureType, LoopType DEF Connections
  <2>2. SamePolls(c, r)
    BY DEF SamePolls, Connections, Closures, Down
  <2> HIDE DEF r
  <2>3. Polled(r)
    BY <2>2, SamePollsIsPolled
  <2> QED BY <2>1, <2>3, fireReconnectedPolls, SamePollsIsPolled
<1> QED BY <1>1, <1>2, <1>3, <1>4

LEMMA PollAnswersKeepsWatch ==
  ASSUME Good(connection), Polled(connection), NEW k \in Loops,
         NEW ShouldReconnect \in BOOLEAN, NEW Delay \in BOOLEAN,
         PollAnswers(k, ShouldReconnect, Delay)
  PROVE  Polled(connection')
<1> DEFINE c == pollIsHeard(connection, k)
           d == IF c.transport = "none" THEN c
                ELSE [c EXCEPT !.newMessageId = FALSE]
           e == IF ShouldReconnect /\ ~Down(d) THEN ensureReconnectingState(d)
                ELSE d
           label == IF ShouldReconnect THEN "pauseRaising" ELSE "pause"
           g == Goto(e, k, label)
           h == [g EXCEPT !.pollTimeoutId = k]
<1>1. /\ connection.loop[k].at = "poll"
      /\ connection' = IF Down(e) \/ ~Delay THEN poll(e, k, ShouldReconnect)
                       ELSE h
  BY DEF PollAnswers, at
<1>2. /\ c \in Connections /\ Polled(c)
      /\ ~Down(c) => c.loop[k].at = "poll"
  BY <1>1, pollIsHeardPolls DEF Good
<1> HIDE DEF c
<1>3. d \in Connections /\ SamePolls(c, d) /\ d.state = c.state
  <2> DEFINE n == [c EXCEPT !.newMessageId = FALSE]
  <2>1. n \in Connections /\ SamePolls(c, n) /\ n.state = c.state
    BY <1>2 DEF SamePolls, Connections, Down
  <2>2. SamePolls(c, c)
    BY DEF SamePolls
  <2> HIDE DEF n
  <2>3. d = c \/ d = n
    BY DEF n
  <2> HIDE DEF d
  <2> QED BY <1>2, <2>1, <2>2, <2>3
<1> HIDE DEF d
<1>4. e \in Connections /\ SamePolls(c, e) /\ Down(e) = Down(c)
  <2>1. CASE ShouldReconnect /\ ~Down(d)
    <3>1. /\ e \in Connections /\ Kept(d, e)
          /\ e.state = IF d.state = "connected" THEN "reconnecting"
                       ELSE d.state
      BY <1>3, <2>1, ensureReconnectingStateType, ensureReconnectingStateKeeps
    <3> HIDE DEF e
    <3> QED BY <1>3, <3>1 DEF SamePolls, Kept, Down
  <2>2. CASE ~(ShouldReconnect /\ ~Down(d))
    BY <1>3, <2>2 DEF Down
  <2> QED BY <2>1, <2>2
<1> HIDE DEF e
<1>5. Polled(e) /\ (~Down(e) => e.loop[k].at # "end")
  BY <1>2, <1>4, SamePollsIsPolled DEF SamePolls
<1>6. CASE Down(e) \/ ~Delay
  BY <1>1, <1>4, <1>5, <1>6, pollPolls
<1>7. CASE ~Down(e) /\ Delay
  <2>1. label \in Labels \ {"end"}
    BY DEF Labels
  <2> HIDE DEF label
  <2>2. g \in Connections /\ Polled(g)
    BY <1>4, <1>5, <1>7, <2>1, GotoType, GotoIsPolled
  <2> HIDE DEF g
  <2>3. SamePolls(g, h)
    BY <2>2 DEF SamePolls, Connections, Down
  <2> HIDE DEF h
  <2> QED BY <1>1, <1>7, <2>2, <2>3, SamePollsIsPolled
<1> QED BY <1>6, <1>7

LEMMA PollDisconnectsKeepsWatch ==
  ASSUME Good(connection), Polled(connection), NEW k \in Loops,
         PollDisconnects(k)
  PROVE  Watched(connection')
<1> DEFINE d == pollIsHeard(connection, k)
           c == Goto(d, k, "end")
<1>1. connection' = IF c.transport = "none" THEN c ELSE stop(c)
  BY DEF PollDisconnects
<1>2. d \in Connections /\ Polled(d)
  BY pollIsHeardPolls DEF Good
<1> HIDE DEF d
<1>3. /\ c \in Connections /\ Known(c) /\ c.alone = d.alone
      /\ c.state = d.state /\ c.transport = d.transport
  <2>1. c.alone = d.alone
    BY <1>2 DEF Goto, Connections
  <2> QED BY <1>2, <2>1, GotoType, GotoFrame DEF Labels, Polled
<1> HIDE DEF c
<1>4. CASE c.transport = "none"
  BY <1>1, <1>2, <1>3, <1>4 DEF Watched, Polled, OverPolls, Down
<1>5. CASE c.transport # "none"
  BY <1>1, <1>3, <1>5, stopStops, StoppedIsWatched
<1> QED BY <1>4, <1>5

\* A call that has ended and is told so takes the connection down.
LEMMA failConnectStops ==
  ASSUME NEW c \in Connections, Known(c), NEW k \in Loops,
         c.loop[k].onFailed
  PROVE  Stopped(failConnect(Goto(c, k, "end"), k))
<1> DEFINE e == Goto(c, k, "end")
           b == [e EXCEPT !.loop[k].onFailed = FALSE]
           a == e.loop[k].start
<1>1. /\ e \in Connections /\ Known(e) /\ e.loop[k].onFailed
      /\ e.loop[k].at = "end"
  <2>1. e \in Connections
    BY GotoType DEF Labels
  <2>2. Known(e) /\ e.loop[k].at = "end"
    BY GotoFrame
  <2>3. e.loop[k].onFailed = c.loop[k].onFailed
    BY GotoFrame
  <2> HIDE DEF e
  <2> QED BY <2>1, <2>2, <2>3
<1> HIDE DEF e
<1>2. a \in Starts
  BY <1>1 DEF Connections, Closures
<1>3. b \in Connections
  <2> DEFINE l == [e.loop[k] EXCEPT !.onFailed = FALSE]
  <2>1. l \in Closures
    BY <1>1, ClosureType DEF Connections
  <2>2. b = [e EXCEPT !.loop[k] = l]
    BY <1>1 DEF Connections
  <2> HIDE DEF b, l
  <2> QED BY <1>1, <2>1, <2>2, LoopType
<1>4. Known(b)
  BY <1>1 DEF Known, Connections, Closures
<1> HIDE DEF b
<1> QED BY <1>2, <1>3, <1>4, initNoneStops DEF failConnect, b, e

LEMMA PollGarbledKeepsWatch ==
  ASSUME Good(connection), Polled(connection), NEW k \in Loops,
         PollGarbled(k)
  PROVE  Watched(connection')
<1> DEFINE c == Goto(connection, k, "end")
<1>1. /\ connection.loop[k].at = "poll"
      /\ connection' = IF c.state # "connecting" THEN stop(c)
                       ELSE IF c.loop[k].onFailed THEN failConnect(c, k)
                       ELSE c
  BY DEF PollGarbled, at
<1>2. /\ c \in Connections /\ Known(c) /\ c.state = connection.state
      /\ c.loop[k].onFailed = connection.loop[k].onFailed
  BY GotoType, GotoFrame DEF Good, Polled, Labels
<1>3. ASSUME c.state = "connecting", ~c.loop[k].onFailed
      PROVE  Polled(c)
  BY <1>1, <1>2, <1>3, GotoIsPolled DEF Good
<1>4. connection.loop[k].onFailed => Stopped(failConnect(c, k))
  BY failConnectStops DEF Good, Polled
<1> HIDE DEF c
<1> QED BY <1>1, <1>2, <1>3, <1>4, stopStops, StoppedIsWatched,
           PolledIsWatched

LEMMA PollFailsKeepsWatch ==
  ASSUME Good(connection), Polled(connection), NEW k \in Loops, PollFails(k)
  PROVE  Watched(connection')
<1> DEFINE c == clearReconnectTimeout(connection)
           d == ensureReconnectingState(c)
           w == Goto(d, k, "wait")
<1>1. /\ connection.loop[k].at = "poll"
      /\ connection' =
           IF c.loop[k].onFailed THEN failConnect(Goto(c, k, "end"), k)
           ELSE IF Connected(c) /\ c.lastActiveAt = "stale"
           THEN stop(Goto(c, k, "end"))
           ELSE IF d.state # "reconnecting" THEN Goto(d, k, "end")
           ELSE [w EXCEPT !.pollTimeoutId = k]
  BY DEF PollFails, at
<1>2. c \in Connections /\ SamePolls(connection, c)
  BY clearReconnectTimeoutType, clearReconnectTimeoutPolls DEF Good
<1> HIDE DEF c
<1>3. Polled(c) /\ c.loop[k].at = "poll"
  BY <1>1, <1>2, SamePollsIsPolled DEF SamePolls
<1>4. /\ d \in Connections /\ Kept(c, d)
      /\ d.state = IF c.state = "connected" THEN "reconnecting" ELSE c.state
  BY <1>2, ensureReconnectingStateType, ensureReconnectingStateKeeps
<1> HIDE DEF d
<1>5. Polled(d) /\ d.loop[k] = c.loop[k]
  <2>1. SamePolls(c, d)
    BY <1>4 DEF SamePolls, Kept, Down
  <2> QED BY <1>3, <1>4, <2>1, SamePollsIsPolled DEF Kept
<1>6. CASE c.loop[k].onFailed
  BY <1>1, <1>2, <1>3, <1>6, failConnectStops, StoppedIsWatched DEF Polled
<1>7. CASE ~c.loop[k].onFailed /\ Connected(c) /\ c.lastActiveAt = "stale"
  <2>1. Goto(c, k, "end") \in Connections /\ Known(Goto(c, k, "end"))
    BY <1>2, <1>3, GotoType, GotoFrame DEF Polled, Labels
  <2> QED BY <1>1, <1>7, <2>1, stopStops, StoppedIsWatched
<1>8. CASE /\ ~c.loop[k].onFailed /\ d.state # "reconnecting"
           /\ ~(Connected(c) /\ c.lastActiveAt = "stale")
  <2>1. Down(d) \/ d.state = "connecting"
    BY <1>4, <1>8 DEF Connections, Down
  <2>2. Polled(Goto(d, k, "end"))
    BY <1>3, <1>4, <1>5, <1>8, <2>1, GotoIsPolled
  <2> QED BY <1>1, <1>8, <2>2, PolledIsWatched
<1>9. CASE /\ ~c.loop[k].onFailed /\ d.state = "reconnecting"
           /\ ~(Connected(c) /\ c.lastActiveAt = "stale")
  <2>1. w \in Connections /\ Polled(w)
    BY <1>3, <1>4, <1>5, GotoType, GotoIsPolled DEF Labels
  <2> HIDE DEF w
  <2>2. SamePolls(w, [w EXCEPT !.pollTimeoutId = k])
    BY <2>1 DEF SamePolls, Connections, Down
  <2> QED BY <1>1, <1>9, <2>1, <2>2, SamePollsIsPolled, PolledIsWatched
<1> QED BY <1>6, <1>7, <1>8, <1>9

-----------------------------------------------------------------------------
(* Every step *)

LEMMA PageKeepsWatch ==
  ASSUME Good(connection), Watched(connection),
         Page \/ Timers \/ UNCHANGED vars
  PROVE  Watched(connection')
<1> DEFINE c == connection
<1>0. c \in Connections /\ Known(c)
  BY DEF Good, Watched
<1>1. CASE Stop
  BY <1>0, <1>1, stopStops, StoppedIsWatched DEF Stop
<1>2. CASE Sleep
  <2>1. Alike(c, connection')
    BY <1>0, <1>2 DEF Sleep, Alike, Kept, Connections
  <2> QED BY <2>1, AlikeIsWatched
<1>3. ASSUME NEW a \in Starts, Start(a)
      PROVE  Watched(connection')
  BY <1>0, <1>3, StartKeepsWatch DEF Start
<1>4. CASE BeatFindsInactive
  <2> DEFINE d == stop(c)
  <2>1. d \in Connections /\ Stopped(d)
    BY <1>0, stopStops, stopType
  <2>2. connection' = [d EXCEPT !.beating = FALSE]
    BY <1>4 DEF BeatFindsInactive
  <2> HIDE DEF d
  <2> QED BY <2>1, <2>2 DEF Stopped, Known, Down, Watched, Connections
<1>5. CASE KeepAliveTimesOut
  <2>1. Alike(c, [c EXCEPT !.beating = FALSE])
    BY <1>0 DEF Alike, Kept, Connections
  <2> QED BY <1>0, <1>5, <2>1, KeepAliveKeepsWatch, AlikeIsWatched
          DEF KeepAliveTimesOut
<1>6. CASE ReconnectTimeout
  BY <1>0, <1>6, ReconnectTimeoutKeepsWatch DEF ReconnectTimeout
<1>7. CASE DisconnectTimeout
  <2> DEFINE d == [c EXCEPT !.stopTimeout = FALSE]
  <2>1. d \in Connections /\ Known(d)
    BY <1>0 DEF Connections, Known
  <2>2. connection' = stop(d)
    BY <1>7 DEF DisconnectTimeout
  <2> HIDE DEF d
  <2> QED BY <2>1, <2>2, stopStops, StoppedIsWatched
<1>8. CASE UNCHANGED vars
  BY <1>8 DEF vars
<1> QED BY <1>1, <1>2, <1>3, <1>4, <1>5, <1>6, <1>7, <1>8
        DEF Page, Timers

LEMMA WebSocketsKeepWatch ==
  ASSUME Good(connection), Watched(connection), WebSockets
  PROVE  Watched(connection')
<1> DEFINE c == connection
<1> USE DEF socket
<1>0. c \in Connections /\ Known(c)
  BY DEF Good, Watched
<1>1. CASE SocketOpens
  BY <1>0, <1>1, SocketFrame, OpenKeepsWatch DEF SocketOpens
<1>2. CASE SocketTimesOut
  <2> DEFINE d == [c EXCEPT !.socket.timeOut = FALSE]
  <2>1. /\ c.socket.timeOut /\ c.socket.status = "new"
        /\ FreeLoops(c) # {} /\ c.socket.start # None
        /\ connection' = initLongPolling(d, c.socket.start)
    BY <1>0, <1>2 DEF SocketTimesOut, Known, Connections, Sockets
  <2>2. d \in Connections /\ Resocketed(c, d, c.socket.status, FALSE)
    BY <1>0, SocketFrame
  <2> HIDE DEF d
  <2> QED BY <1>0, <2>1, <2>2, FailedAttemptKeepsWatch
<1>3. CASE SocketIsRefused
  <2> DEFINE d == [c EXCEPT !.socket.status = "closed",
                            !.socket.timeOut = FALSE]
  <2>1. d \in Connections /\ Resocketed(c, d, "closed", FALSE)
    BY <1>0, SocketFrame
  <2>2. /\ c.socket.status = "new" /\ FreeLoops(c) # {}
        /\ connection' = IF c.socket.start # None
                         THEN initLongPolling(d, c.socket.start)
                         ELSE reconnect(d)
    BY <1>3 DEF SocketIsRefused
  <2> HIDE DEF d
  <2>3. c.socket.start # None => Watched(initLongPolling(d, c.socket.start))
    BY <1>0, <2>1, <2>2, FailedAttemptKeepsWatch
  <2>4. Watched(reconnect(d))
    BY <1>0, <2>1, <2>2, LostIsLosing, reconnectIsWatched
  <2> QED BY <2>2, <2>3, <2>4
<1>4. CASE SocketCloses
  <2> DEFINE d == [c EXCEPT !.socket.status = "closed"]
  <2>1. c.socket.status = "open" /\ connection' = reconnect(d)
    BY <1>4 DEF SocketCloses
  <2>2. d \in Connections /\ Resocketed(c, d, "closed", FALSE)
    BY <1>0, <2>1, SocketFrame DEF Known
  <2> HIDE DEF d
  <2> QED BY <1>0, <2>1, <2>2, LostIsLosing, reconnectIsWatched
<1>5. CASE SocketMessage
  BY <1>0, <1>5, socketIsHeardKeepsWatch DEF SocketMessage
<1>6. CASE SocketDisconnects
  <2> DEFINE d == socketIsHeard(c)
  <2>1. /\ c.socket.status = "open"
        /\ connection' = IF d.transport = "none" THEN d ELSE stop(d)
    BY <1>6 DEF SocketDisconnects
  <2>2. d \in Connections /\ Watched(d)
    BY <1>0, <2>1, socketIsHeardType, socketIsHeardKeepsWatch
  <2> HIDE DEF d
  <2> QED BY <2>1, <2>2, stopStops, StoppedIsWatched DEF Watched
<1>7. CASE SocketGarbled
  <2>1. Resocketed(c, c, c.socket.status, c.socket.timeOut)
    BY <1>0 DEF Resocketed
  <2>2. c.socket.start # None => Watched(initLongPolling(c, c.socket.start))
    BY <1>0, <1>7, <2>1, FailedAttemptKeepsWatch DEF SocketGarbled, Known
  <2> QED BY <1>0, <1>7, <2>2, stopStops, StoppedIsWatched
          DEF SocketGarbled
<1> QED BY <1>1, <1>2, <1>3, <1>4, <1>5, <1>6, <1>7 DEF WebSockets

LEMMA LongPollingKeepsWatch ==
  ASSUME Good(connection), Watched(connection), LongPolling
  PROVE  Watched(connection')
<1> DEFINE c == connection
<1> USE DEF at
<1>0. c \in Connections /\ Known(c)
  BY DEF Good, Watched
<1>1. PICK k \in Loops : \/ PingEnds(k) \/ LoopTimer(k) \/ PollEnds(k)
                         \/ ConnectTimer(k) \/ RaiseTimer(k)
  BY DEF LongPolling
<1>2. Polled(c)
  <2>1. k \notin FreeLoops(c)
    BY <1>1 DEF FreeLoops, PingEnds, LoopTimer, PollEnds, ConnectTimer,
       RaiseTimer, PingAnswers, PingFails, PingIsRefused, PingAgain,
       FirstPoll, PollAgain, PollDisconnects, PollGarbled, PollFails,
       PollAnswers
  <2> QED BY <2>1, AtWorkIsPolled
<1>3. CASE PingEnds(k)
  BY <1>0, <1>2, <1>3, PingKeepsWatch, LoopTimerKeepsWatch, PolledIsWatched
     DEF PingEnds, PingAnswers, PingFails, PingIsRefused
<1>4. CASE LoopTimer(k)
  BY <1>0, <1>2, <1>4, LoopTimerKeepsWatch, PolledIsWatched
     DEF LoopTimer, PingAgain, FirstPoll, PollAgain
<1>5. CASE PollEnds(k)
  BY <1>2, <1>5, PollAnswersKeepsWatch, PollDisconnectsKeepsWatch,
     PollGarbledKeepsWatch, PollFailsKeepsWatch, PolledIsWatched
     DEF PollEnds
<1>6. CASE ConnectTimer(k) \/ RaiseTimer(k)
  BY <1>0, <1>2, <1>6, LoopTimerKeepsWatch, PolledIsWatched
     DEF ConnectTimer, RaiseTimer
<1> QED BY <1>1, <1>3, <1>4, <1>5, <1>6

LEMMA NextKeepsWatch ==
  ASSUME Good(connection), Watched(connection), [Next]_vars
  PROVE  Watched(connection')
<1>1. CASE Negotiation
  BY <1>1, NegotiationKeepsWatch
     DEF Negotiation, NegotiateFails, NegotiateMismatch, Negotiated, Good
<1> QED BY <1>1, PageKeepsWatch, WebSocketsKeepWatch, LongPollingKeepsWatch
        DEF Next

LEMMA WatchInvariance == Spec => [](Good(connection) /\ Watched(connection))
<1>1. Init => Watched(connection)
  BY DEF Init, Watched, Known, Down, NoSocket, Ended
<1>2. Good(connection) /\ Watched(connection) /\ [Next]_vars
        => Watched(connection)'
  BY NextKeepsWatch
<1> QED BY <1>1, <1>2, Invariance, PTL DEF Spec

\* A start that finds nothing of an earlier one alive is always on its way,
\* whichever transports fail, and however late.
THEOREM StartIsCarried == Spec => []ConnectingIsCarried
<1>1. Watched(connection) => ConnectingIsCarried
  BY NoneIsNoName DEF None, Watched, Asking, OverSocket, Trying, InUse,
     OverPolls, Connected, Down, ConnectingIsCarried, SocketIsDead,
     WrongVersion, socket, at
<1> QED BY <1>1, WatchInvariance, PTL

\* A connection that is up after such a start is watched over the transport
\* that it uses.
THEOREM UpConnectionIsWatched == Spec => []UpIsWatched
<1>1. Good(connection) /\ Watched(connection) => UpIsWatched
  <2> SUFFICES ASSUME Good(connection), Watched(connection),
                      Connected(connection), connection.alone
               PROVE  \/ /\ connection.transport = "webSockets"
                         /\ InUse(connection)
                      \/ /\ connection.transport = "longPolling"
                         /\ \E k \in Loops : at(k) # "end"
    BY DEF UpIsWatched, InUse, TimedOut, socket
  <2> QED BY DEF Watched, Asking, OverSocket, Trying, OverPolls, Connected,
                 Down, at
<1> QED BY <1>1, WatchInvariance, PTL
=============================================================================
