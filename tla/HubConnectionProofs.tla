------------------------ MODULE HubConnectionProofs -------------------------
(***************************************************************************)
(* Proofs about HubConnection, for any starts and loops.                   *)
(*                                                                         *)
(* A function of the client is an operator on the connection record, and   *)
(* its lemmas come in two kinds: it gives a connection for a connection    *)
(* (...Type), and of the state and the promises it changes no more than    *)
(* its effect says (...Same, ...Effect). A handler chains functions; the   *)
(* lemmas on chains say which effect the whole has. There are seven, and   *)
(* each preserves the inductive invariant Good and is a step of            *)
(* Connection, or a stutter.                                               *)
(***************************************************************************)
EXTENDS HubConnection, TLAPS

States == {"connecting", "connected", "reconnecting", "disconnected"}
Labels ==
  {"end", "ping", "reping", "delay", "poll", "wait", "pause", "pauseRaising"}

LEMMA changeStateType ==
  ASSUME NEW c \in Connections, NEW from, NEW to \in States
  PROVE  changeState(c, from, to) \in Connections
<1> DEFINE s == IF from = "reconnecting" THEN FALSE ELSE c.stopTimeout
<1>1. s \in BOOLEAN
  BY DEF Connections
<1> HIDE DEF s
<1>2. [c EXCEPT !.state = to, !.stopTimeout = s] \in Connections
  BY <1>1 DEF Connections, States
<1> QED BY <1>2 DEF changeState, s

LEMMA ensureReconnectingStateType ==
  ASSUME NEW c \in Connections
  PROVE  ensureReconnectingState(c) \in Connections
<1>1. [c EXCEPT !.state = "reconnecting", !.stopTimeout = TRUE] \in Connections
  BY DEF Connections
<1> QED BY <1>1 DEF ensureReconnectingState

LEMMA rejectType ==
  ASSUME NEW c \in Connections, NEW a \in Starts
  PROVE  reject(c, a) \in Connections
<1>1. [c EXCEPT !.promise[a] = "rejected"] \in Connections
  BY DEF Connections, Promises
<1> QED BY <1>1 DEF reject

LEMMA onStartEventType ==
  ASSUME NEW c \in Connections
  PROVE  onStartEvent(c) \in Connections
<1> DEFINE p == [a \in Starts |->
        IF a \in c.onStart /\ c.promise[a] = "pending"
        THEN IF Connected(c) THEN "resolved" ELSE "hollow"
        ELSE c.promise[a]]
<1>1. p \in [Starts -> Promises]
  BY DEF Connections, Promises
<1> HIDE DEF p
<1>2. [c EXCEPT !.promise = p] \in Connections
  BY <1>1 DEF Connections
<1> QED BY <1>2 DEF onStartEvent, p

LEMMA webSocketsStopType ==
  ASSUME NEW c \in Connections
  PROVE  webSocketsStop(c) \in Connections
<1>1. NoSocket \in Sockets
  BY DEF NoSocket, Sockets, None
<1> QED BY <1>1 DEF webSocketsStop, Connections

LEMMA StoppedLoopType ==
  ASSUME NEW c \in Connections, NEW k \in Loops
  PROVE  StoppedLoop(c, k) \in Closures
<1> DEFINE l == c.loop[k]
           pc == IF \/ /\ k = c.pollTimeoutId
                       /\ l.at \in {"delay", "wait", "pause", "pauseRaising"}
                    \/ k = c.pollXhr /\ l.at = "poll"
                 THEN "end" ELSE l.at
           r == IF k = c.reconnectTimeoutId THEN FALSE ELSE l.raise
<1>1. l \in Closures
  BY DEF Connections
<1>2. r \in BOOLEAN /\ pc \in Labels
  BY <1>1 DEF Closures, Labels
<1>3. StoppedLoop(c, k) = [l EXCEPT !.at = pc, !.raise = r]
  BY DEF StoppedLoop
<1> HIDE DEF l, pc, r
<1> QED BY <1>1, <1>2, <1>3 DEF Closures, Labels

LEMMA longPollingStopType ==
  ASSUME NEW c \in Connections
  PROVE  longPollingStop(c) \in Connections
<1>1. [k \in Loops |-> StoppedLoop(c, k)] \in [Loops -> Closures]
  BY StoppedLoopType
<1> QED BY <1>1 DEF longPollingStop, Connections, LoopIds

LEMMA transportStopType ==
  ASSUME NEW c \in Connections
  PROVE  transportStop(c) \in Connections
<1> DEFINE d == webSocketsStop(c)
           e == longPollingStop(c)
<1>1. d \in Connections /\ e \in Connections
  BY webSocketsStopType, longPollingStopType
<1> HIDE DEF d, e
<1>2. [d EXCEPT !.monitoring = FALSE, !.transport = "none"] \in Connections
  BY <1>1 DEF Connections
<1>3. [e EXCEPT !.transport = "none"] \in Connections
  BY <1>1 DEF Connections
<1> QED BY <1>2, <1>3 DEF transportStop, d, e

LEMMA AbortedLoopType ==
  ASSUME NEW c \in Connections, NEW k \in Loops
  PROVE  AbortedLoop(c, k) \in Closures
<1> DEFINE l == c.loop[k]
           pc == IF l.at = "ping" \/ (l.at = "reping" /\ k = c.pingLoopId)
                 THEN "end" ELSE l.at
<1>1. l \in Closures
  BY DEF Connections
<1>2. pc \in Labels
  BY <1>1 DEF Closures, Labels
<1>3. AbortedLoop(c, k) = [l EXCEPT !.at = pc]
  BY DEF AbortedLoop
<1> HIDE DEF l, pc
<1> QED BY <1>1, <1>2, <1>3 DEF Closures, Labels

LEMMA abortRequestsType ==
  ASSUME NEW c \in Connections
  PROVE  abortRequests(c) \in Connections
<1> DEFINE d == IF c.negotiating = None THEN c ELSE reject(c, c.negotiating)
           l == [k \in Loops |-> AbortedLoop(c, k)]
<1>1. l \in [Loops -> Closures]
  BY AbortedLoopType
<1>2. c.negotiating \in Starts \cup {None}
  BY DEF Connections
<1>3. d \in Connections
  BY <1>2, rejectType
<1> HIDE DEF d, l
<1>4. [d EXCEPT !.negotiating = None, !.loop = l, !.pingLoopId = None]
        \in Connections
  BY <1>1, <1>3 DEF Connections, LoopIds
<1> QED BY <1>4 DEF abortRequests, d, l

LEMMA stopType ==
  ASSUME NEW c \in Connections
  PROVE  stop(c) \in Connections
<1> DEFINE d == [c EXCEPT !.deferral = None]
           e == changeState(d, d.state, "disconnected")
           g == [e EXCEPT !.beating = FALSE]
           f == abortRequests(transportStop(g))
<1>1. d \in Connections
  BY DEF Connections
<1>2. e \in Connections
  BY <1>1, changeStateType DEF States
<1>3. g \in Connections
  <2> HIDE DEF e
  <2> QED BY <1>2 DEF Connections
<1>4. f \in Connections
  BY <1>3, transportStopType, abortRequestsType
<1>5. [f EXCEPT !.lastActiveAt = "unset", !.newMessageId = FALSE]
        \in Connections
  <2> HIDE DEF f
  <2> QED BY <1>4 DEF Connections
<1> QED BY <1>1, <1>5 DEF stop

LEMMA markActiveType ==
  ASSUME NEW c \in Connections
  PROVE  markActive(c) \in Connections
<1>1. [c EXCEPT !.lastActiveAt = "recent", !.beating = TRUE] \in Connections
  BY DEF Connections
<1> QED BY <1>1, stopType DEF markActive

LEMMA startedType ==
  ASSUME NEW c \in Connections, NEW transport
  PROVE  started(c, transport) \in Connections
<1> DEFINE m == c.monitoring \/ transport = "webSockets"
           d == [c EXCEPT !.monitoring = m]
<1>1. m \in BOOLEAN
  OBVIOUS
<1>2. d \in Connections
  <2> HIDE DEF m
  <2> QED BY <1>1 DEF Connections
<1>3. changeState(markActive(d), "connecting", "connected") \in Connections
  <2> HIDE DEF d
  <2> QED BY <1>2, markActiveType, changeStateType DEF States
<1> QED BY <1>3, onStartEventType DEF started

LEMMA longPollingStartType ==
  ASSUME NEW c \in Connections, NEW a \in Starts, FreeLoops(c) # {}
  PROVE  longPollingStart(c, a) \in Connections
<1> DEFINE d == IF c.pollXhr = None THEN c ELSE stop(c)
           k == CHOOSE l \in FreeLoops(c) : TRUE
           l == [Ended EXCEPT !.at = "ping", !.start = a,
                              !.fireConnect = TRUE, !.onFailed = TRUE]
<1>1. d \in Connections
  BY stopType
<1>2. k \in Loops
  BY DEF FreeLoops
<1>3. l \in Closures
  BY NoneIsNoName DEF Ended, Closures, None
<1> HIDE DEF d, k, l
<1>4. [d EXCEPT !.loop[k] = l, !.pollTimeoutId = None,
                !.reconnectTimeoutId = None] \in Connections
  BY <1>1, <1>2, <1>3 DEF Connections, LoopIds
<1> QED BY <1>4 DEF longPollingStart, d, k, l

LEMMA webSocketsStartType ==
  ASSUME NEW c \in Connections, NEW a \in Starts \cup {None}
  PROVE  webSocketsStart(c, a) \in Connections
<1> DEFINE s == [status |-> "new", start |-> a,
                 onSuccess |-> a # None, timeOut |-> a # None]
<1>1. s \in Sockets
  BY DEF Sockets
<1> HIDE DEF s
<1>2. [c EXCEPT !.socket = s] \in Connections
  BY <1>1 DEF Connections
<1> QED BY <1>2 DEF webSocketsStart, s

LEMMA initWebSocketsType ==
  ASSUME NEW c \in Connections, NEW a \in Starts
  PROVE  initWebSockets(c, a) \in Connections
<1> DEFINE d == [c EXCEPT !.transport = "webSockets"]
<1>1. d \in Connections
  BY DEF Connections
<1> HIDE DEF d
<1> QED BY <1>1, webSocketsStartType DEF initWebSockets, d

LEMMA initLongPollingType ==
  ASSUME NEW c \in Connections, NEW a \in Starts, FreeLoops(c) # {}
  PROVE  initLongPolling(c, a) \in Connections
<1> DEFINE d == [c EXCEPT !.transport = "longPolling"]
<1>1. d \in Connections /\ FreeLoops(d) # {}
  BY DEF Connections, FreeLoops
<1> HIDE DEF d
<1> QED BY <1>1, longPollingStartType DEF initLongPolling, d

LEMMA initNoneType ==
  ASSUME NEW c \in Connections, NEW a \in Starts
  PROVE  initNone(c, a) \in Connections
BY rejectType, stopType DEF initNone

LEMMA reconnectType ==
  ASSUME NEW c \in Connections
  PROVE  reconnect(c) \in Connections
<1>1. [c EXCEPT !.reconnectTimeout = "due"] \in Connections
  BY DEF Connections
<1> QED BY <1>1, stopType DEF reconnect

LEMMA socketIsHeardType ==
  ASSUME NEW c \in Connections
  PROVE  socketIsHeard(c) \in Connections
<1> DEFINE e == [c EXCEPT !.socket.onSuccess = FALSE]
           d == IF c.socket.onSuccess THEN started(e, "webSockets")
                ELSE changeState(c, "reconnecting", "connected")
<1>1. e \in Connections
  BY DEF Connections, Sockets
<1>2. d \in Connections
  <2> HIDE DEF e
  <2> QED BY <1>1, startedType, changeStateType DEF States
<1> HIDE DEF d
<1>3. [d EXCEPT !.reconnectTimeout = "none"] \in Connections
  BY <1>2 DEF Connections
<1> QED BY <1>3 DEF socketIsHeard, d

\* What the handlers assign to the variables of a longPolling.start.
LEMMA ClosureType ==
  ASSUME NEW l \in Closures
  PROVE  /\ [l EXCEPT !.raise = FALSE] \in Closures
         /\ [l EXCEPT !.timer = FALSE] \in Closures
         /\ [l EXCEPT !.timer = TRUE] \in Closures
         /\ [l EXCEPT !.onFailed = FALSE] \in Closures
         /\ [l EXCEPT !.fireConnect = FALSE, !.onFailed = FALSE] \in Closures
         /\ [l EXCEPT !.at = "poll", !.polled = TRUE] \in Closures
         /\ [l EXCEPT !.at = "poll", !.polled = TRUE, !.raise = TRUE]
              \in Closures
<1>1. [l EXCEPT !.raise = FALSE] \in Closures
  BY DEF Closures
<1>2. [l EXCEPT !.timer = FALSE] \in Closures
  BY DEF Closures
<1>3. [l EXCEPT !.timer = TRUE] \in Closures
  BY DEF Closures
<1>4. [l EXCEPT !.onFailed = FALSE] \in Closures
  BY DEF Closures
<1>5. [l EXCEPT !.fireConnect = FALSE, !.onFailed = FALSE] \in Closures
  BY DEF Closures
<1>6. [l EXCEPT !.at = "poll", !.polled = TRUE] \in Closures
  BY DEF Closures
<1>7. [l EXCEPT !.at = "poll", !.polled = TRUE, !.raise = TRUE] \in Closures
  BY DEF Closures
<1> QED BY <1>1, <1>2, <1>3, <1>4, <1>5, <1>6, <1>7

LEMMA LoopType ==
  ASSUME NEW c \in Connections, NEW k \in Loops, NEW l \in Closures
  PROVE  [c EXCEPT !.loop[k] = l] \in Connections
BY DEF Connections

LEMMA GotoType ==
  ASSUME NEW c \in Connections, NEW k \in Loops, NEW label \in Labels
  PROVE  Goto(c, k, label) \in Connections
<1> DEFINE l == [c.loop[k] EXCEPT !.at = label]
<1>1. l \in Closures
  BY DEF Connections, Closures, Labels
<1>2. Goto(c, k, label) = [c EXCEPT !.loop[k] = l]
  BY DEF Connections, Goto
<1> HIDE DEF l
<1> QED BY <1>1, <1>2, LoopType

LEMMA fireConnectType ==
  ASSUME NEW c \in Connections, NEW k \in Loops
  PROVE  fireConnect(c, k) \in Connections
<1> DEFINE d == [c EXCEPT !.loop[k].fireConnect = FALSE,
                          !.loop[k].onFailed = FALSE]
           l == [c.loop[k] EXCEPT !.fireConnect = FALSE, !.onFailed = FALSE]
<1>1. l \in Closures
  BY ClosureType DEF Connections
<1>2. d = [c EXCEPT !.loop[k] = l]
  BY DEF Connections
<1>3. d \in Connections
  <2> HIDE DEF l
  <2> QED BY <1>1, <1>2, LoopType
<1> HIDE DEF d
<1> QED BY <1>3, startedType DEF fireConnect, d

LEMMA clearReconnectTimeoutType ==
  ASSUME NEW c \in Connections
  PROVE  clearReconnectTimeout(c) \in Connections
<1> DEFINE k == c.reconnectTimeoutId
           l == [c.loop[k] EXCEPT !.raise = FALSE]
           d == [c EXCEPT !.loop[k] = l]
<1>1. k \in Loops \cup {None}
  BY DEF Connections, LoopIds
<1>2. CASE k \in Loops
  <2> HIDE DEF k
  <2>1. l \in Closures
    BY <1>2, ClosureType DEF Connections
  <2>2. d \in Connections
    <3> HIDE DEF l
    <3> QED BY <1>2, <2>1, LoopType
  <2>3. [d EXCEPT !.reconnectTimeoutId = None] \in Connections
    <3> HIDE DEF d
    <3> QED BY <2>2 DEF Connections, LoopIds
  <2>4. [c EXCEPT !.loop[k].raise = FALSE, !.reconnectTimeoutId = None]
          = [d EXCEPT !.reconnectTimeoutId = None]
    BY <1>2 DEF Connections
  <2> QED BY <2>3, <2>4 DEF clearReconnectTimeout, k
<1> QED BY <1>1, <1>2 DEF clearReconnectTimeout

LEMMA fireReconnectedType ==
  ASSUME NEW c \in Connections
  PROVE  fireReconnected(c) \in Connections
BY clearReconnectTimeoutType, changeStateType DEF fireReconnected, States

LEMMA pollType ==
  ASSUME NEW c \in Connections, NEW k \in Loops, NEW raiseReconnect
  PROVE  poll(c, k, raiseReconnect) \in Connections
<1> DEFINE d == [c EXCEPT !.loop[k].at = "poll", !.loop[k].polled = TRUE,
                          !.pollXhr = k]
           l == [c.loop[k] EXCEPT !.at = "poll", !.polled = TRUE]
           m == [c.loop[k] EXCEPT !.at = "poll", !.polled = TRUE,
                                  !.raise = TRUE]
           e == [c EXCEPT !.loop[k] = l]
           f == [c EXCEPT !.loop[k] = m]
<1>1. l \in Closures /\ m \in Closures
  BY ClosureType DEF Connections
<1>2. e \in Connections /\ f \in Connections
  <2> HIDE DEF l, m
  <2> QED BY <1>1, LoopType
<1>3. /\ [e EXCEPT !.pollXhr = k] \in Connections
      /\ [f EXCEPT !.pollXhr = k, !.reconnectTimeoutId = k] \in Connections
  <2> HIDE DEF e, f
  <2>1. [e EXCEPT !.pollXhr = k] \in Connections
    BY <1>2 DEF Connections, LoopIds
  <2>2. [f EXCEPT !.pollXhr = k, !.reconnectTimeoutId = k] \in Connections
    BY <1>2 DEF Connections, LoopIds
  <2> QED BY <2>1, <2>2
<1>4. d = [e EXCEPT !.pollXhr = k]
  BY DEF Connections
<1>5. [d EXCEPT !.loop[k].raise = TRUE, !.reconnectTimeoutId = k]
        = [f EXCEPT !.pollXhr = k, !.reconnectTimeoutId = k]
  BY DEF Connections
<1> HIDE DEF d, e, f
<1> QED BY <1>3, <1>4, <1>5, GotoType DEF poll, d, Labels

LEMMA pingFailType ==
  ASSUME NEW c \in Connections, NEW k \in Loops
  PROVE  pingFail(c, k) \in Connections
<1> DEFINE d == Goto(c, k, "reping")
<1>1. d \in Connections
  BY GotoType DEF Labels
<1> HIDE DEF d
<1>2. [d EXCEPT !.pingLoopId = k] \in Connections
  BY <1>1 DEF Connections, LoopIds
<1> QED BY <1>2, GotoType DEF pingFail, d, Labels

LEMMA pollIsHeardType ==
  ASSUME NEW c \in Connections, NEW k \in Loops
  PROVE  pollIsHeard(c, k) \in Connections
BY fireReconnectedType, fireConnectType DEF pollIsHeard

LEMMA failConnectType ==
  ASSUME NEW c \in Connections, NEW k \in Loops, c.loop[k].onFailed
  PROVE  failConnect(c, k) \in Connections
<1> DEFINE d == [c EXCEPT !.loop[k].onFailed = FALSE]
           l == [c.loop[k] EXCEPT !.onFailed = FALSE]
<1>1. c.loop[k].start \in Starts
  BY DEF Connections, Closures
<1>2. l \in Closures
  BY ClosureType DEF Connections
<1>3. d = [c EXCEPT !.loop[k] = l]
  BY DEF Connections
<1>4. d \in Connections
  <2> HIDE DEF l
  <2> QED BY <1>2, <1>3, LoopType
<1> HIDE DEF d
<1> QED BY <1>1, <1>4, initNoneType DEF failConnect, d

-----------------------------------------------------------------------------
(* What a handler does to the state and to the promises *)

Rejects(p, q) ==
  \A a \in Starts : q[a] = p[a] \/ (p[a] = "pending" /\ q[a] = "rejected")

Resolves(p, q) ==
  \A a \in Starts : q[a] = IF p[a] = "pending" THEN "resolved" ELSE p[a]

Frame(c, d) ==
  /\ d.onStart = c.onStart
  /\ d.lastActiveAt = "stale" => c.lastActiveAt = "stale"

Timed(c) == c.stopTimeout <=> c.state = "reconnecting"

Same(c, d) ==
  /\ Frame(c, d)
  /\ d.state = c.state
  /\ d.promise = c.promise
  /\ d.stopTimeout = c.stopTimeout

Failed(c, d) ==
  /\ Frame(c, d)
  /\ d.state = c.state
  /\ d.stopTimeout = c.stopTimeout
  /\ \E a \in Starts : /\ c.promise[a] = "pending"
                       /\ d.promise = [c.promise EXCEPT ![a] = "rejected"]

IsDown(c, d) ==
  /\ ~Down(c) /\ Down(d)
  /\ ~d.stopTimeout
  /\ d.onStart = c.onStart
  /\ d.lastActiveAt # "stale"

Fell(c, d) == IsDown(c, d) /\ Rejects(c.promise, d.promise)

Rose(c, d) ==
  /\ Frame(c, d) /\ Timed(d)
  /\ c.state = "connecting" /\ Connected(d)
  /\ Resolves(c.promise, d.promise)

RoseAndFell(c, d) ==
  /\ IsDown(c, d)
  /\ c.state = "connecting"
  /\ Resolves(c.promise, d.promise)

Swapped(c, d) ==
  /\ Frame(c, d) /\ Timed(d)
  /\ Connected(c) /\ Connected(d)
  /\ d.promise = c.promise

Hollows(p, q) ==
  \A a \in Starts : IF p[a] = "pending" THEN q[a] \in {"hollow", "rejected"}
                    ELSE q[a] = p[a]

\* The callbacks of a start that found the page inactive.
Hollowed(c, d) ==
  /\ IsDown(c, d)
  /\ c.state = "connecting"
  /\ c.lastActiveAt = "stale"
  /\ Hollows(c.promise, d.promise)

Effect(c, d) ==
  \/ Same(c, d) \/ Failed(c, d) \/ Fell(c, d) \/ Rose(c, d)
  \/ RoseAndFell(c, d) \/ Swapped(c, d) \/ Hollowed(c, d)

\* The inductive invariant. A start whose promise is open will hear of the
\* start event, and has not come up.
Good(c) ==
  /\ c \in Connections
  /\ Timed(c)
  /\ \A a \in Starts :
       c.promise[a] = "pending" => a \in c.onStart /\ ~Connected(c)

LEMMA EffectIsGood ==
  ASSUME NEW c, NEW d \in Connections, Good(c), Effect(c, d)
  PROVE  Good(d)
<1> USE DEF Good
<1>1. CASE Same(c, d)
  BY <1>1 DEF Same, Frame, Timed, Connected
<1>2. CASE Failed(c, d)
  BY <1>2 DEF Failed, Frame, Timed, Connected, Connections
<1>3. CASE Fell(c, d)
  BY <1>3 DEF Fell, IsDown, Rejects, Timed, Connected, Down
<1>4. CASE Rose(c, d)
  BY <1>4 DEF Rose, Frame, Resolves, Connected
<1>5. CASE RoseAndFell(c, d)
  BY <1>5 DEF RoseAndFell, IsDown, Resolves, Timed, Connected, Down
<1>6. CASE Swapped(c, d)
  BY <1>6 DEF Swapped, Frame, Connected
<1>7. CASE Hollowed(c, d)
  BY <1>7 DEF Hollowed, IsDown, Hollows, Timed, Connected, Down
<1> QED BY <1>1, <1>2, <1>3, <1>4, <1>5, <1>6, <1>7 DEF Effect

LEMMA SameIsTransitive ==
  ASSUME NEW c, NEW d, NEW e, Same(c, d), Same(d, e)
  PROVE  Same(c, e)
BY DEF Same, Frame

\* stop and what it calls.
LEMMA transportStopSame ==
  ASSUME NEW c \in Connections
  PROVE  /\ Same(c, transportStop(c))
         /\ transportStop(c).negotiating = c.negotiating
<1>1. CASE c.transport = "webSockets"
  BY <1>1 DEF transportStop, webSocketsStop, Same, Frame, Connections
<1>2. CASE c.transport = "longPolling"
  BY <1>2 DEF transportStop, longPollingStop, Same, Frame, Connections
<1>3. CASE c.transport = "none"
  BY <1>3 DEF transportStop, Same, Frame
<1> QED BY <1>1, <1>2, <1>3 DEF Connections

LEMMA abortRequestsSame ==
  ASSUME NEW c \in Connections
  PROVE  LET d == abortRequests(c)
         IN  /\ d.state = c.state
             /\ Frame(c, d)
             /\ d.stopTimeout = c.stopTimeout
             /\ Rejects(c.promise, d.promise)
<1> DEFINE d == IF c.negotiating = None THEN c ELSE reject(c, c.negotiating)
           e == abortRequests(c)
<1>1. c.negotiating \in Starts \cup {None}
  BY DEF Connections
<1>2. /\ d \in Connections
      /\ d.state = c.state /\ Frame(c, d) /\ d.stopTimeout = c.stopTimeout
      /\ Rejects(c.promise, d.promise)
  BY <1>1, rejectType DEF reject, Connections, Rejects, Frame
<1>3. /\ e.state = d.state /\ e.promise = d.promise /\ e.onStart = d.onStart
      /\ e.lastActiveAt = d.lastActiveAt /\ e.stopTimeout = d.stopTimeout
  <2> DEFINE l == [k \in Loops |-> AbortedLoop(c, k)]
  <2>1. e = [d EXCEPT !.negotiating = None, !.loop = l, !.pingLoopId = None]
    BY DEF abortRequests
  <2> HIDE DEF d, l, e
  <2> QED BY <2>1, <1>2 DEF Connections
<1> HIDE DEF d, e
<1>4. Frame(c, e) /\ Rejects(c.promise, e.promise)
  BY <1>2, <1>3 DEF Frame, Rejects
<1> QED BY <1>2, <1>3, <1>4 DEF e

LEMMA stopEffect ==
  ASSUME NEW c \in Connections, c.stopTimeout => c.state = "reconnecting"
  PROVE  IF Down(c) THEN Same(c, stop(c)) ELSE Fell(c, stop(c))
<1> DEFINE d == [c EXCEPT !.deferral = None]
           e == changeState(d, d.state, "disconnected")
           g == [e EXCEPT !.beating = FALSE]
           t == transportStop(g)
           f == abortRequests(t)
           h == [f EXCEPT !.lastActiveAt = "unset", !.newMessageId = FALSE]
<1>1. d \in Connections /\ Same(c, d)
  BY DEF Connections, Same, Frame
<1>2. CASE Down(c)
  BY <1>1, <1>2 DEF stop
<1>3. CASE ~Down(c)
  <2>1. e \in Connections
    BY <1>1, changeStateType DEF States
  <2>2. /\ e.state = "disconnected"
        /\ e.promise = c.promise /\ e.onStart = c.onStart
        /\ ~e.stopTimeout
    <3> HIDE DEF d
    <3>1. /\ e.state = "disconnected"
          /\ e.promise = d.promise /\ e.onStart = d.onStart
          /\ e.stopTimeout = IF d.state = "reconnecting" THEN FALSE
                             ELSE d.stopTimeout
      BY <1>1 DEF changeState, Connections
    <3> HIDE DEF e
    <3> QED BY <1>1, <3>1 DEF Same, Frame
  <2>3. g \in Connections /\ Same(e, g)
    <3> HIDE DEF e
    <3> QED BY <2>1 DEF Connections, Same, Frame
  <2>4. t \in Connections /\ Same(e, t)
    <3> HIDE DEF e, g
    <3> QED BY <2>3, transportStopType, transportStopSame, SameIsTransitive
  <2>5. /\ f \in Connections
        /\ f.state = t.state /\ f.onStart = t.onStart
        /\ f.stopTimeout = t.stopTimeout
        /\ Rejects(t.promise, f.promise)
    <3> HIDE DEF t
    <3> QED BY <2>4, abortRequestsType, abortRequestsSame DEF Frame
  <2> HIDE DEF f, t, e
  <2>6. /\ h.state = f.state /\ h.onStart = f.onStart
        /\ h.stopTimeout = f.stopTimeout /\ h.promise = f.promise
        /\ h.lastActiveAt = "unset"
    BY <2>5 DEF Connections
  <2>7. h = stop(c)
    BY <1>3 DEF stop, f, t, e
  <2> HIDE DEF h
  <2> QED BY <1>3, <2>2, <2>4, <2>5, <2>6, <2>7
          DEF Fell, IsDown, Same, Frame, Down
<1> QED BY <1>2, <1>3

LEMMA stopOfGood ==
  ASSUME NEW c, Good(c)
  PROVE  /\ stop(c) \in Connections
         /\ Same(c, stop(c)) \/ Fell(c, stop(c))
         /\ Down(stop(c))
BY stopType, stopEffect DEF Good, Timed, Same, Fell, IsDown, Down

LEMMA SameIsGood ==
  ASSUME NEW c, NEW d \in Connections, Good(c), Same(c, d)
  PROVE  Good(d)
BY EffectIsGood DEF Effect

\* A step whose first part leaves the link alone has the effect of the rest.
LEMMA SameThenEffect ==
  ASSUME NEW c, NEW d, NEW e, Same(c, d), Effect(d, e)
  PROVE  Effect(c, e)
<1> USE DEF Same, Frame
<1>1. CASE Same(d, e)
  BY <1>1 DEF Effect
<1>2. CASE Failed(d, e)
  BY <1>2 DEF Effect, Failed
<1>3. CASE Fell(d, e)
  BY <1>3 DEF Effect, Fell, IsDown, Down
<1>4. CASE Rose(d, e)
  BY <1>4 DEF Effect, Rose
<1>5. CASE RoseAndFell(d, e)
  BY <1>5 DEF Effect, RoseAndFell, IsDown, Down
<1>6. CASE Swapped(d, e)
  BY <1>6 DEF Effect, Swapped, Connected
<1>7. CASE Hollowed(d, e)
  BY <1>7 DEF Effect, Hollowed, IsDown, Down
<1> QED BY <1>1, <1>2, <1>3, <1>4, <1>5, <1>6, <1>7 DEF Effect

\* The start event changes the promises of the starts that are pending.
LEMMA onStartEventEffect ==
  ASSUME NEW c \in Connections
  PROVE  LET d == onStartEvent(c)
         IN  /\ d.state = c.state /\ d.onStart = c.onStart
             /\ d.lastActiveAt = c.lastActiveAt
             /\ d.stopTimeout = c.stopTimeout
             /\ d.promise = [a \in Starts |->
                   IF a \in c.onStart /\ c.promise[a] = "pending"
                   THEN IF Connected(c) THEN "resolved" ELSE "hollow"
                   ELSE c.promise[a]]
<1> DEFINE p == [a \in Starts |->
                   IF a \in c.onStart /\ c.promise[a] = "pending"
                   THEN IF Connected(c) THEN "resolved" ELSE "hollow"
                   ELSE c.promise[a]]
<1>1. onStartEvent(c) = [c EXCEPT !.promise = p]
  BY DEF onStartEvent
<1> HIDE DEF p
<1>2. LET d == [c EXCEPT !.promise = p]
      IN  /\ d.state = c.state /\ d.onStart = c.onStart
          /\ d.lastActiveAt = c.lastActiveAt
          /\ d.stopTimeout = c.stopTimeout
          /\ d.promise = p
  BY DEF Connections
<1> QED BY <1>1, <1>2 DEF p

LEMMA onStartEventIdle ==
  ASSUME NEW c \in Connections, \A a \in Starts : c.promise[a] # "pending"
  PROVE  onStartEvent(c).promise = c.promise
<1> DEFINE p == onStartEvent(c).promise
<1>1. p = [a \in Starts |->
              IF a \in c.onStart /\ c.promise[a] = "pending"
              THEN IF Connected(c) THEN "resolved" ELSE "hollow"
              ELSE c.promise[a]]
  BY onStartEventEffect
<1> HIDE DEF p
<1>2. p = [a \in Starts |-> c.promise[a]]
  BY <1>1
<1>3. c.promise = [a \in Starts |-> c.promise[a]]
  BY DEF Connections
<1> QED BY <1>2, <1>3 DEF p

\* The effects of a start that succeeds.
StartedEffect(c, d) ==
  \/ Same(c, d) \/ Fell(c, d) \/ Hollowed(c, d)
  \/ Rose(c, d) /\ d.state = "connected"

LEMMA startedEffect ==
  ASSUME NEW c, Good(c), NEW transport
  PROVE  StartedEffect(c, started(c, transport))
<1> DEFINE m == c.monitoring \/ transport = "webSockets"
           d == [c EXCEPT !.monitoring = m]
           e == markActive(d)
           f == changeState(e, "connecting", "connected")
           g == onStartEvent(f)
<1>1. CASE Down(c)
  BY <1>1 DEF started, StartedEffect, Same, Frame
<1>2. CASE ~Down(c)
  <2>1. started(c, transport) = g
    BY <1>2 DEF started
  <2>2. d \in Connections /\ Same(c, d)
    <3>1. m \in BOOLEAN
      OBVIOUS
    <3> HIDE DEF m
    <3> QED BY <3>1 DEF Good, Connections, Same, Frame
  <2> HIDE DEF d
  <2>3. Good(d)
    BY <2>2, SameIsGood
  <2>4. e \in Connections /\ f \in Connections
    BY <2>2, markActiveType, changeStateType DEF States
  <2>5. CASE d.lastActiveAt = "stale"
    <3>1. e = stop(d)
      BY <2>5 DEF markActive
    <3> HIDE DEF e
    <3>2. Fell(d, e)
      BY <1>2, <2>2, <2>3, <3>1, stopEffect DEF Same, Good, Timed, Down
    <3>3. f = e
      BY <3>2 DEF changeState, Fell, IsDown, Down
    <3> HIDE DEF f
    <3>4. CASE Connected(c)
      <4>1. \A a \in Starts : f.promise[a] # "pending"
        BY <2>3, <2>2, <3>2, <3>3, <3>4
           DEF Good, Fell, Rejects, Same, Connected
      <4>2. g.promise = f.promise
        BY <2>4, <3>3, <4>1, onStartEventIdle
      <4>3. /\ g.state = e.state /\ g.onStart = e.onStart
            /\ g.lastActiveAt = e.lastActiveAt
            /\ g.stopTimeout = e.stopTimeout /\ g.promise = e.promise
        BY <2>4, <3>3, <4>2, onStartEventEffect
      <4> HIDE DEF g
      <4>4. Fell(c, g)
        BY <2>2, <3>2, <4>3 DEF Fell, IsDown, Same, Frame, Down
      <4> QED BY <2>1, <4>4 DEF StartedEffect
    <3>5. CASE ~Connected(c)
      <4>1. c.state = "connecting" /\ c.lastActiveAt = "stale"
        BY <1>2, <2>2, <2>5, <3>5
           DEF Good, Connections, Connected, Down, Same, Frame
      <4>2. /\ ~Connected(f) /\ f.onStart = c.onStart
            /\ Rejects(c.promise, f.promise)
        BY <2>2, <3>2, <3>3 DEF Fell, IsDown, Same, Frame, Connected, Down
      <4>3. g.promise = [a \in Starts |->
              IF a \in f.onStart /\ f.promise[a] = "pending"
              THEN IF Connected(f) THEN "resolved" ELSE "hollow"
              ELSE f.promise[a]]
        BY <2>4, onStartEventEffect
      <4>4. /\ g.state = e.state /\ g.onStart = e.onStart
            /\ g.lastActiveAt = e.lastActiveAt
            /\ g.stopTimeout = e.stopTimeout
        BY <2>4, <3>3, onStartEventEffect
      <4> HIDE DEF g
      <4>5. Hollows(c.promise, g.promise)
        BY <4>2, <4>3 DEF Good, Hollows, Rejects
      <4> QED BY <2>1, <2>2, <3>2, <4>1, <4>4, <4>5
              DEF StartedEffect, Hollowed, Fell, IsDown, Same, Frame, Down
    <3> QED BY <3>4, <3>5
  <2>6. CASE d.lastActiveAt # "stale"
    <3>1. e.state = d.state /\ e.promise = d.promise /\ e.onStart = d.onStart
          /\ e.stopTimeout = d.stopTimeout /\ e.lastActiveAt = "recent"
      BY <2>2, <2>6 DEF markActive, Connections
    <3> HIDE DEF e
    <3>2. CASE c.state = "connecting"
      <4>1. /\ f.state = "connected" /\ f.promise = c.promise
            /\ f.onStart = c.onStart /\ f.stopTimeout = c.stopTimeout
            /\ f.lastActiveAt = "recent"
        BY <2>2, <2>4, <3>1, <3>2 DEF changeState, Same, Frame, Connections
      <4> HIDE DEF f
      <4>2. ~c.stopTimeout
        BY <3>2 DEF Good, Timed
      <4>3. Resolves(c.promise, g.promise)
        <5>1. g.promise = [a \in Starts |->
                IF a \in f.onStart /\ f.promise[a] = "pending"
                THEN IF Connected(f) THEN "resolved" ELSE "hollow"
                ELSE f.promise[a]]
          BY <2>4, onStartEventEffect
        <5> HIDE DEF g
        <5> QED BY <4>1, <5>1 DEF Good, Resolves, Connected
      <4> QED BY <2>1, <2>4, <3>2, <4>1, <4>2, <4>3, onStartEventEffect
              DEF StartedEffect, Rose, Frame, Timed, Connected
    <3>3. CASE c.state # "connecting"
      <4>1. f = e
        BY <2>2, <3>1, <3>3 DEF changeState, Same
      <4>2. Connected(c)
        BY <1>2, <3>3 DEF Good, Connections, Connected, Down
      <4> HIDE DEF f
      <4>3. \A a \in Starts : f.promise[a] # "pending"
        BY <2>2, <3>1, <4>1, <4>2 DEF Good, Same
      <4>4. g.promise = f.promise
        BY <2>4, <4>1, <4>3, onStartEventIdle
      <4> QED BY <2>1, <2>2, <2>4, <3>1, <4>1, <4>4, onStartEventEffect
              DEF StartedEffect, Same, Frame
    <3> QED BY <3>2, <3>3
  <2> QED BY <2>5, <2>6
<1> QED BY <1>1, <1>2

LEMMA markActiveEffect ==
  ASSUME NEW c, Good(c)
  PROVE  Same(c, markActive(c)) \/ Fell(c, markActive(c))
<1>1. CASE c.lastActiveAt = "stale"
  BY <1>1, stopOfGood DEF markActive
<1>2. CASE c.lastActiveAt # "stale"
  BY <1>2 DEF markActive, Same, Frame, Good, Connections
<1> QED BY <1>1, <1>2

LEMMA longPollingStartEffect ==
  ASSUME NEW c, Good(c), NEW a \in Starts
  PROVE  LET d == longPollingStart(c, a) IN Same(c, d) \/ Fell(c, d)
<1> DEFINE d == IF c.pollXhr = None THEN c ELSE stop(c)
           l == [Ended EXCEPT !.at = "ping", !.start = a,
                              !.fireConnect = TRUE, !.onFailed = TRUE]
           k == CHOOSE j \in FreeLoops(c) : TRUE
           e == [d EXCEPT !.loop[k] = l, !.pollTimeoutId = None,
                          !.reconnectTimeoutId = None]
<1>1. d \in Connections /\ (Same(c, d) \/ Fell(c, d))
  BY stopOfGood DEF Good, Same, Frame
<1>2. e = longPollingStart(c, a)
  BY DEF longPollingStart
<1> HIDE DEF d, k, l
<1>3. Same(d, e)
  BY <1>1 DEF Same, Frame, Connections
<1> HIDE DEF e
<1> QED BY <1>1, <1>2, <1>3 DEF Same, Frame, Fell, IsDown, Down

LEMMA webSocketsStartSame ==
  ASSUME NEW c \in Connections, NEW a
  PROVE  Same(c, webSocketsStart(c, a))
BY DEF webSocketsStart, Same, Frame, Connections

LEMMA initWebSocketsSame ==
  ASSUME NEW c \in Connections, NEW a
  PROVE  Same(c, initWebSockets(c, a))
<1> DEFINE d == [c EXCEPT !.transport = "webSockets"]
<1>1. d \in Connections /\ Same(c, d)
  BY DEF Connections, Same, Frame
<1> HIDE DEF d
<1>2. Same(c, webSocketsStart(d, a))
  BY <1>1, webSocketsStartSame, SameIsTransitive
<1> QED BY <1>2 DEF initWebSockets, d, Same, Frame

LEMMA initLongPollingEffect ==
  ASSUME NEW c, Good(c), NEW a \in Starts
  PROVE  LET d == initLongPolling(c, a) IN Same(c, d) \/ Fell(c, d)
<1> DEFINE d == [c EXCEPT !.transport = "longPolling"]
           e == longPollingStart(d, a)
<1>1. d \in Connections /\ Same(c, d)
  BY DEF Good, Connections, Same, Frame
<1> HIDE DEF d
<1>2. Same(d, e) \/ Fell(d, e)
  BY <1>1, SameIsGood, longPollingStartEffect
<1> HIDE DEF e
<1>3. Same(c, e) \/ Fell(c, e)
  BY <1>1, <1>2 DEF Same, Frame, Fell, IsDown, Down
<1> QED BY <1>3 DEF initLongPolling, d, e, Same, Frame

LEMMA rejectEffect ==
  ASSUME NEW c, Good(c), NEW a \in Starts
  PROVE  LET d == reject(c, a) IN Same(c, d) \/ Failed(c, d)
BY DEF Good, reject, Same, Failed, Frame, Connections

LEMMA FailedRejects ==
  ASSUME NEW c \in Connections, NEW d, Failed(c, d)
  PROVE  Rejects(c.promise, d.promise)
BY DEF Failed, Rejects, Connections

LEMMA initNoneEffect ==
  ASSUME NEW c, Good(c), NEW a \in Starts
  PROVE  Effect(c, initNone(c, a))
<1> DEFINE d == reject(c, a)
           e == stop(d)
<1>1. d \in Connections /\ (Same(c, d) \/ Failed(c, d))
  BY rejectType, rejectEffect DEF Good
<1>2. initNone(c, a) = e
  BY DEF initNone
<1> HIDE DEF d
<1>3. Good(d)
  BY <1>1, EffectIsGood DEF Effect
<1>4. Same(d, e) \/ Fell(d, e)
  BY <1>3, stopOfGood
<1> HIDE DEF e
<1>5. CASE Same(c, d)
  BY <1>2, <1>4, <1>5, SameThenEffect DEF Effect
<1>6. CASE Failed(c, d) /\ Same(d, e)
  BY <1>2, <1>6 DEF Effect, Failed, Same, Frame
<1>7. CASE Failed(c, d) /\ Fell(d, e)
  <2>1. Rejects(c.promise, d.promise) /\ Rejects(d.promise, e.promise)
    BY <1>7, FailedRejects DEF Good, Fell
  <2>2. Rejects(c.promise, e.promise)
    BY <2>1 DEF Rejects
  <2> QED BY <1>2, <1>7, <2>2 DEF Effect, Failed, Fell, IsDown, Frame, Down
<1> QED BY <1>1, <1>4, <1>5, <1>6, <1>7

LEMMA reconnectEffect ==
  ASSUME NEW c, Good(c)
  PROVE  LET d == reconnect(c) IN Same(c, d) \/ Fell(c, d)
<1>1. Same(c, [c EXCEPT !.reconnectTimeout = "due"])
  BY DEF Good, Same, Frame, Connections
<1> QED BY <1>1, stopOfGood DEF reconnect, Same, Frame

\* The effects of hearing a message.
Heard(c, d) ==
  StartedEffect(c, d) \/ (Swapped(c, d) /\ d.state = "connected")

LEMMA HeardIsEffect ==
  ASSUME NEW c, NEW d, Heard(c, d)
  PROVE  Effect(c, d)
BY DEF Heard, StartedEffect, Effect

LEMMA HeardAfterSame ==
  ASSUME NEW c, NEW d, NEW e, Same(c, d), Heard(d, e)
  PROVE  Heard(c, e)
<1> USE DEF Same, Frame
<1>1. CASE Same(d, e)
  BY <1>1 DEF Heard, StartedEffect
<1>2. CASE Fell(d, e)
  BY <1>2 DEF Heard, StartedEffect, Fell, IsDown, Down
<1>3. CASE Hollowed(d, e)
  BY <1>3 DEF Heard, StartedEffect, Hollowed, IsDown, Down
<1>4. CASE Rose(d, e) /\ e.state = "connected"
  BY <1>4 DEF Heard, StartedEffect, Rose
<1>5. CASE Swapped(d, e) /\ e.state = "connected"
  BY <1>5 DEF Heard, Swapped, Connected
<1> QED BY <1>1, <1>2, <1>3, <1>4, <1>5 DEF Heard, StartedEffect

LEMMA HeardThenSame ==
  ASSUME NEW c, NEW d, NEW e, Heard(c, d), Same(d, e)
  PROVE  Heard(c, e)
<1> USE DEF Same, Frame
<1>1. CASE Same(c, d)
  BY <1>1 DEF Heard, StartedEffect
<1>2. CASE Fell(c, d)
  BY <1>2 DEF Heard, StartedEffect, Fell, IsDown, Down
<1>3. CASE Hollowed(c, d)
  BY <1>3 DEF Heard, StartedEffect, Hollowed, IsDown, Down
<1>4. CASE Rose(c, d) /\ d.state = "connected"
  BY <1>4 DEF Heard, StartedEffect, Rose, Timed, Connected
<1>5. CASE Swapped(c, d) /\ d.state = "connected"
  BY <1>5 DEF Heard, Swapped, Timed, Connected
<1> QED BY <1>1, <1>2, <1>3, <1>4, <1>5 DEF Heard, StartedEffect

\* A message heard, and then a stop.
LEMMA HeardThenStop ==
  ASSUME NEW c, NEW d, Good(c), Good(d), Heard(c, d)
  PROVE  Effect(c, stop(d))
<1> DEFINE e == stop(d)
<1>1. IF Down(d) THEN Same(d, e) ELSE Fell(d, e)
  BY stopEffect DEF Good, Timed
<1> HIDE DEF e
<1>2. CASE Same(d, e)
  BY <1>2, HeardThenSame, HeardIsEffect DEF e
<1>3. CASE Fell(d, e)
  <2>1. CASE Same(c, d)
    BY <1>3, <2>1 DEF e, Effect, Same, Frame, Fell, IsDown, Down
  <2>2. CASE Fell(c, d) \/ Hollowed(c, d)
    BY <1>3, <2>2 DEF Fell, Hollowed, IsDown
  <2>3. CASE Rose(c, d)
    <3>1. \A a \in Starts : d.promise[a] # "pending"
      BY <2>3 DEF Rose, Resolves
    <3>2. Resolves(c.promise, e.promise)
      BY <1>3, <2>3, <3>1 DEF Fell, Rejects, Rose, Resolves
    <3> QED BY <1>3, <2>3, <3>2
            DEF e, Effect, RoseAndFell, Fell, IsDown, Rose, Frame, Down
  <2>4. CASE Swapped(c, d)
    BY <1>3, <2>4
       DEF e, Effect, Swapped, Fell, IsDown, Frame, Down, Connected
  <2> QED BY <2>1, <2>2, <2>3, <2>4 DEF Heard, StartedEffect
<1> QED BY <1>1, <1>2, <1>3

LEMMA ensureReconnectingStateEffect ==
  ASSUME NEW c \in Connections
  PROVE  LET d == ensureReconnectingState(c)
         IN  /\ d.onStart = c.onStart /\ d.lastActiveAt = c.lastActiveAt
             /\ d.promise = c.promise
             /\ IF c.state = "connected"
                THEN d.state = "reconnecting" /\ d.stopTimeout
                ELSE d = c
BY DEF ensureReconnectingState, Connections

\* A message heard, and then the server asks to reconnect.
LEMMA HeardThenReconnecting ==
  ASSUME NEW c, NEW d, Good(c), Good(d), Heard(c, d)
  PROVE  Effect(c, ensureReconnectingState(d))
<1> DEFINE e == ensureReconnectingState(d)
<1>1. CASE d.state # "connected"
  BY <1>1, HeardIsEffect DEF ensureReconnectingState
<1>2. CASE d.state = "connected"
  <2>1. /\ e.onStart = d.onStart /\ e.lastActiveAt = d.lastActiveAt
        /\ e.promise = d.promise /\ e.state = "reconnecting"
        /\ e.stopTimeout
    BY <1>2, ensureReconnectingStateEffect DEF Good
  <2> HIDE DEF e
  <2>2. CASE Same(c, d)
    BY <1>2, <2>1, <2>2 DEF e, Effect, Swapped, Same, Frame, Timed, Connected
  <2>3. CASE Rose(c, d)
    BY <2>1, <2>3 DEF e, Effect, Rose, Frame, Timed, Connected
  <2>4. CASE Swapped(c, d)
    BY <2>1, <2>4 DEF e, Effect, Swapped, Frame, Timed, Connected
  <2> QED BY <1>2, <2>2, <2>3, <2>4
          DEF Heard, StartedEffect, Fell, Hollowed, IsDown, Down
<1> QED BY <1>1, <1>2

LEMMA UpAgain ==
  ASSUME NEW c, Good(c)
  PROVE  LET d == changeState(c, "reconnecting", "connected")
         IN  Same(c, d) \/ (Swapped(c, d) /\ d.state = "connected")
<1> DEFINE d == changeState(c, "reconnecting", "connected")
<1>1. CASE c.state # "reconnecting"
  BY <1>1 DEF changeState, Same, Frame
<1>2. CASE c.state = "reconnecting"
  <2>1. /\ d.state = "connected" /\ d.promise = c.promise
        /\ d.onStart = c.onStart /\ d.lastActiveAt = c.lastActiveAt
        /\ d.stopTimeout = FALSE
    BY <1>2 DEF Good, changeState, Connections
  <2> HIDE DEF d
  <2>2. Swapped(c, d)
    BY <1>2, <2>1 DEF Swapped, Frame, Timed, Connected
  <2> QED BY <2>1, <2>2 DEF d
<1> QED BY <1>1, <1>2

LEMMA socketIsHeardEffect ==
  ASSUME NEW c, Good(c)
  PROVE  Heard(c, socketIsHeard(c))
<1> DEFINE e == [c EXCEPT !.socket.onSuccess = FALSE]
           d == IF c.socket.onSuccess THEN started(e, "webSockets")
                ELSE changeState(c, "reconnecting", "connected")
           f == [d EXCEPT !.reconnectTimeout = "none"]
<1>1. e \in Connections /\ Same(c, e)
  BY DEF Good, Connections, Sockets, Same, Frame
<1>2. d \in Connections
  <2> HIDE DEF e
  <2> QED BY <1>1, startedType, changeStateType DEF Good, States
<1>3. Heard(c, d)
  <2> HIDE DEF e
  <2>1. Good(e)
    BY <1>1, SameIsGood
  <2>2. CASE c.socket.onSuccess
    BY <1>1, <2>1, <2>2, startedEffect, HeardAfterSame DEF Heard
  <2>3. CASE ~c.socket.onSuccess
    BY <2>3, UpAgain DEF Heard, StartedEffect
  <2> QED BY <2>2, <2>3
<1>4. f = socketIsHeard(c)
  BY DEF socketIsHeard
<1> HIDE DEF d
<1>5. Same(d, f)
  BY <1>2 DEF Same, Frame, Connections
<1> HIDE DEF f
<1> QED BY <1>3, <1>4, <1>5, HeardThenSame

LEMMA GotoSame ==
  ASSUME NEW c \in Connections, NEW k, NEW label
  PROVE  Same(c, Goto(c, k, label))
BY DEF Goto, Same, Frame, Connections

LEMMA fireConnectEffect ==
  ASSUME NEW c, Good(c), NEW k \in Loops
  PROVE  StartedEffect(c, fireConnect(c, k))
<1> DEFINE d == [c EXCEPT !.loop[k].fireConnect = FALSE,
                          !.loop[k].onFailed = FALSE]
           l == [c.loop[k] EXCEPT !.fireConnect = FALSE, !.onFailed = FALSE]
<1>1. l \in Closures
  BY ClosureType DEF Good, Connections
<1>2. d = [c EXCEPT !.loop[k] = l]
  BY DEF Good, Connections
<1>3. d \in Connections /\ Same(c, d)
  <2> HIDE DEF l
  <2> QED BY <1>1, <1>2, LoopType DEF Good, Same, Frame, Connections
<1>4. CASE ~c.loop[k].fireConnect
  BY <1>4 DEF fireConnect, StartedEffect, Same, Frame
<1>5. CASE c.loop[k].fireConnect
  <2> DEFINE e == started(d, "longPolling")
  <2>1. e = fireConnect(c, k)
    BY <1>5 DEF fireConnect
  <2> HIDE DEF d
  <2>2. StartedEffect(d, e)
    BY <1>3, SameIsGood, startedEffect
  <2> HIDE DEF e
  <2>3. StartedEffect(c, e)
    BY <1>3, <2>2 DEF StartedEffect, Same, Frame, Fell, Hollowed, Rose,
                      IsDown, Down
  <2> QED BY <2>1, <2>3
<1> QED BY <1>4, <1>5

LEMMA clearReconnectTimeoutSame ==
  ASSUME NEW c \in Connections
  PROVE  Same(c, clearReconnectTimeout(c))
BY DEF clearReconnectTimeout, Same, Frame, Connections

LEMMA fireReconnectedEffect ==
  ASSUME NEW c, Good(c)
  PROVE  LET d == fireReconnected(c)
         IN  Same(c, d) \/ (Swapped(c, d) /\ d.state = "connected")
<1> DEFINE d == clearReconnectTimeout(c)
           e == changeState(d, "reconnecting", "connected")
<1>1. d \in Connections /\ Same(c, d)
  BY clearReconnectTimeoutType, clearReconnectTimeoutSame DEF Good
<1>2. e = fireReconnected(c)
  BY DEF fireReconnected
<1> HIDE DEF d
<1>3. Same(d, e) \/ (Swapped(d, e) /\ e.state = "connected")
  BY <1>1, SameIsGood, UpAgain
<1> HIDE DEF e
<1> QED BY <1>1, <1>2, <1>3 DEF Same, Frame, Swapped, Connected

LEMMA pollSame ==
  ASSUME NEW c \in Connections, NEW k \in Loops, NEW raiseReconnect
  PROVE  Same(c, poll(c, k, raiseReconnect))
<1> DEFINE d == [c EXCEPT !.loop[k].at = "poll", !.loop[k].polled = TRUE,
                          !.pollXhr = k]
           e == [d EXCEPT !.loop[k].raise = TRUE, !.reconnectTimeoutId = k]
<1>1. Same(c, d)
  BY DEF Same, Frame, Connections
<1>2. Same(c, e)
  BY DEF Same, Frame, Connections
<1> HIDE DEF d, e
<1> QED BY <1>1, <1>2, GotoSame DEF poll, d, e

LEMMA pingFailSame ==
  ASSUME NEW c \in Connections, NEW k \in Loops
  PROVE  Same(c, pingFail(c, k))
<1> DEFINE d == Goto(c, k, "reping")
           e == [d EXCEPT !.pingLoopId = k]
<1>1. d \in Connections /\ Same(c, d)
  BY GotoType, GotoSame DEF Labels
<1> HIDE DEF d
<1>2. Same(d, e)
  BY <1>1 DEF Same, Frame, Connections
<1> HIDE DEF e
<1>3. Same(c, e)
  BY <1>1, <1>2, SameIsTransitive
<1> QED BY <1>3, GotoSame DEF pingFail, d, e

LEMMA pollIsHeardEffect ==
  ASSUME NEW c, Good(c), NEW k \in Loops
  PROVE  Heard(c, pollIsHeard(c, k))
<1> DEFINE d == IF c.reconnectTimeoutId = None THEN c ELSE fireReconnected(c)
           e == fireConnect(d, k)
<1>1. Same(c, d) \/ (Swapped(c, d) /\ d.state = "connected")
  BY fireReconnectedEffect DEF Same, Frame
<1>2. d \in Connections
  BY fireReconnectedType DEF Good
<1>3. e = pollIsHeard(c, k)
  BY DEF pollIsHeard
<1> HIDE DEF d
<1>4. Good(d)
  BY <1>1, <1>2, EffectIsGood DEF Effect
<1>5. StartedEffect(d, e)
  BY <1>4, fireConnectEffect
<1> HIDE DEF e
<1>6. CASE Same(c, d)
  BY <1>3, <1>5, <1>6, HeardAfterSame DEF Heard
<1>7. CASE Swapped(c, d) /\ d.state = "connected"
  <2>1. CASE Same(d, e)
    BY <1>3, <1>7, <2>1 DEF Heard, Swapped, Same, Frame, Timed, Connected
  <2>2. CASE Fell(d, e)
    <3>1. Fell(c, e)
      BY <1>7, <2>2 DEF Fell, IsDown, Swapped, Frame, Down, Connected
    <3> QED BY <1>3, <3>1 DEF Heard, StartedEffect
  <2>3. CASE Hollowed(d, e)
    <3>1. FALSE
      BY <1>7, <2>3 DEF Hollowed
    <3> QED BY <3>1
  <2>4. ~Rose(d, e)
    BY <1>7 DEF Rose
  <2> QED BY <1>5, <2>1, <2>2, <2>3, <2>4 DEF StartedEffect
<1> QED BY <1>1, <1>6, <1>7

LEMMA failConnectEffect ==
  ASSUME NEW c, Good(c), NEW k \in Loops, c.loop[k].onFailed
  PROVE  Effect(c, failConnect(c, k))
<1> DEFINE d == [c EXCEPT !.loop[k].onFailed = FALSE]
           l == [c.loop[k] EXCEPT !.onFailed = FALSE]
           a == c.loop[k].start
           e == initNone(d, a)
<1>1. a \in Starts
  BY DEF Good, Connections, Closures
<1>2. l \in Closures
  BY ClosureType DEF Good, Connections
<1>3. d = [c EXCEPT !.loop[k] = l]
  BY DEF Good, Connections
<1>4. d \in Connections /\ Same(c, d)
  <2> HIDE DEF l
  <2>1. d \in Connections
    BY <1>2, <1>3, LoopType DEF Good
  <2>2. Same(c, d)
    BY <1>3 DEF Good, Same, Frame, Connections
  <2> QED BY <2>1, <2>2
<1>5. e = failConnect(c, k)
  BY DEF failConnect
<1> HIDE DEF d, a
<1>6. Effect(d, e)
  BY <1>1, <1>4, SameIsGood, initNoneEffect
<1> HIDE DEF e
<1> QED BY <1>4, <1>5, <1>6, SameThenEffect

-----------------------------------------------------------------------------
(* Every step is a start, or has one of the effects *)

Opened(c, d) ==
  /\ Down(c) /\ d.state = "connecting"
  /\ d.stopTimeout = c.stopTimeout
  /\ d.lastActiveAt = c.lastActiveAt
  /\ \E a \in Starts : /\ c.promise[a] = "unused"
                       /\ d.promise = [c.promise EXCEPT ![a] = "pending"]
                       /\ d.onStart = c.onStart \cup {a}

Slept(c, d) ==
  /\ d.state = c.state /\ d.promise = c.promise
  /\ d.onStart = c.onStart /\ d.stopTimeout = c.stopTimeout

Moves(c, d) ==
  d \in Connections /\ (Effect(c, d) \/ Opened(c, d) \/ Slept(c, d))

LEMMA EffectThenSame ==
  ASSUME NEW c, NEW d, NEW e, Effect(c, d), Same(d, e)
  PROVE  Effect(c, e)
<1> USE DEF Same, Frame
<1>1. CASE Same(c, d)
  BY <1>1 DEF Effect
<1>2. CASE Failed(c, d)
  BY <1>2 DEF Effect, Failed
<1>3. CASE Fell(c, d)
  BY <1>3 DEF Effect, Fell, IsDown, Down
<1>4. CASE Rose(c, d)
  BY <1>4 DEF Effect, Rose, Timed, Connected
<1>5. CASE RoseAndFell(c, d)
  BY <1>5 DEF Effect, RoseAndFell, IsDown, Down
<1>6. CASE Swapped(c, d)
  BY <1>6 DEF Effect, Swapped, Timed, Connected
<1>7. CASE Hollowed(c, d)
  BY <1>7 DEF Effect, Hollowed, IsDown, Down
<1> QED BY <1>1, <1>2, <1>3, <1>4, <1>5, <1>6, <1>7 DEF Effect

LEMMA ensureEffect ==
  ASSUME NEW c, Good(c)
  PROVE  Effect(c, ensureReconnectingState(c))
<1>1. Heard(c, c)
  BY DEF Heard, StartedEffect, Same, Frame
<1> QED BY <1>1, HeardThenReconnecting

LEMMA StopMoves ==
  ASSUME NEW c, NEW d, Good(c), d \in Connections, Same(c, d) \/ Fell(c, d)
  PROVE  Moves(c, d)
BY DEF Moves, Effect

LEMMA PageMoves ==
  ASSUME Good(connection), Page
  PROVE  Moves(connection, connection')
<1>1. CASE Stop
  BY <1>1, stopOfGood, StopMoves DEF Stop
<1>2. CASE Sleep
  <2>1. connection' = [connection EXCEPT !.lastActiveAt = "stale"]
    BY <1>2 DEF Sleep
  <2>2. connection' \in Connections
    BY <2>1 DEF Good, Connections
  <2>3. Slept(connection, connection')
    BY <1>2, <2>1 DEF Good, Connections, Sleep, Slept
  <2> QED BY <2>2, <2>3 DEF Moves
<1>3. ASSUME NEW a \in Starts, Start(a)
      PROVE  Moves(connection, connection')
  <2>1. Down(connection) /\ connection.promise[a] = "unused"
    BY <1>3 DEF Start
  <2>2. connection' = [connection EXCEPT !.state = "connecting",
                                         !.deferral = a,
                                         !.promise[a] = "pending",
                                         !.onStart = @ \cup {a},
                                         !.negotiating = a,
                                         !.alone = ~LeftAlive(connection)]
    BY <1>3 DEF Start
  <2>3. connection' \in Connections
    <3>1. (~LeftAlive(connection)) \in BOOLEAN
      BY DEF LeftAlive
    <3> QED BY <2>2, <3>1 DEF Good, Connections, Promises
  <2>4. Opened(connection, connection')
    BY <2>1, <2>2 DEF Good, Opened, Connections
  <2> QED BY <2>3, <2>4 DEF Moves
<1> QED BY <1>1, <1>2, <1>3 DEF Page

LEMMA NegotiationMoves ==
  ASSUME Good(connection), Negotiation
  PROVE  Moves(connection, connection')
<1> DEFINE c == Negotiating(connection)
           a == connection.negotiating
<1>1. a \in Starts
  BY DEF Negotiation, NegotiateFails, NegotiateMismatch, Negotiated, Good,
         Connections
<1>2. c \in Connections /\ Same(connection, c)
  BY DEF Good, Negotiating, Connections, Same, Frame
<1>3. FreeLoops(connection) = FreeLoops(c)
  BY DEF Good, Negotiating, FreeLoops, Connections
<1> HIDE DEF c, a
<1>4. Good(c)
  BY <1>2, SameIsGood
<1>5. CASE NegotiateFails
  <2>1. connection' = initNone(c, a)
    BY <1>5 DEF NegotiateFails, c, a
  <2> QED BY <1>1, <1>2, <1>4, <2>1, initNoneType, initNoneEffect,
             SameThenEffect DEF Moves
<1>6. CASE NegotiateMismatch
  <2>1. connection' = reject(c, a)
    BY <1>6 DEF NegotiateMismatch, c, a
  <2>2. Effect(c, connection')
    BY <1>1, <1>4, <2>1, rejectEffect DEF Effect
  <2> QED BY <1>1, <1>2, <2>1, <2>2, rejectType, SameThenEffect DEF Moves
<1>7. ASSUME NEW ws \in BOOLEAN, Negotiated(ws)
      PROVE  Moves(connection, connection')
  <2>1. connection' = IF ws THEN initWebSockets(c, a) ELSE initLongPolling(c, a)
    BY <1>7 DEF Negotiated, c, a
  <2>2. FreeLoops(c) # {}
    BY <1>3, <1>7 DEF Negotiated
  <2>3. connection' \in Connections
    BY <1>1, <1>2, <2>1, <2>2, initWebSocketsType, initLongPollingType
  <2>4. Effect(c, connection')
    BY <1>1, <1>2, <1>4, <2>1, initWebSocketsSame, initLongPollingEffect
       DEF Effect
  <2> QED BY <1>2, <2>3, <2>4, SameThenEffect DEF Moves
<1> QED BY <1>5, <1>6, <1>7 DEF Negotiation

LEMMA TimersMove ==
  ASSUME Good(connection), Timers
  PROVE  Moves(connection, connection')
<1> DEFINE c == connection
<1>0. c \in Connections
  BY DEF Good
<1>1. CASE BeatFindsInactive
  <2> DEFINE d == stop(c)
  <2>1. d \in Connections /\ Effect(c, d)
    BY stopOfGood DEF Effect
  <2>2. connection' = [d EXCEPT !.beating = FALSE]
    BY <1>1 DEF BeatFindsInactive
  <2> HIDE DEF d
  <2>3. connection' \in Connections /\ Same(d, connection')
    BY <2>1, <2>2 DEF Connections, Same, Frame
  <2> QED BY <2>1, <2>3, EffectThenSame DEF Moves
<1>2. CASE KeepAliveTimesOut
  <2>1. CASE connection.transport = "webSockets"
    <3> DEFINE d == reconnect(c)
               e == markActive(d)
    <3>1. d \in Connections /\ (Same(c, d) \/ Fell(c, d))
      BY reconnectType, reconnectEffect DEF Good
    <3>2. connection' = e
      BY <1>2, <2>1 DEF KeepAliveTimesOut
    <3> HIDE DEF d
    <3>3. Good(d)
      BY <3>1, EffectIsGood DEF Effect
    <3>4. e \in Connections /\ (Same(d, e) \/ Fell(d, e))
      BY <3>1, <3>3, markActiveType, markActiveEffect
    <3> HIDE DEF e
    <3>5. Same(c, e) \/ Fell(c, e)
      BY <3>1, <3>4 DEF Same, Frame, Fell, IsDown, Down
    <3> QED BY <3>2, <3>4, <3>5, StopMoves
  <2>2. CASE connection.transport # "webSockets"
    <3>1. connection' = [c EXCEPT !.beating = FALSE]
      BY <1>2, <2>2 DEF KeepAliveTimesOut
    <3>2. connection' \in Connections /\ Same(c, connection')
      BY <1>0, <3>1 DEF Connections, Same, Frame
    <3> QED BY <3>2, StopMoves
  <2> QED BY <2>1, <2>2
<1>3. CASE ReconnectTimeout
  <2> DEFINE b == [c EXCEPT !.reconnectTimeout = "fired"]
             w == webSocketsStop(b)
             d == ensureReconnectingState(w)
  <2>1. /\ b \in Connections /\ Same(c, b)
    BY <1>0 DEF Connections, Same, Frame
  <2>2. connection' = IF b.lastActiveAt = "stale" THEN stop(b)
                      ELSE IF d.state = "reconnecting"
                      THEN webSocketsStart(d, None) ELSE d
    BY <1>3 DEF ReconnectTimeout
  <2> HIDE DEF b
  <2>3. Good(b)
    BY <2>1, SameIsGood
  <2>4. w \in Connections /\ Same(b, w)
    BY <2>1, webSocketsStopType DEF webSocketsStop, Connections, Same, Frame
  <2> HIDE DEF w
  <2>5. Good(w)
    BY <2>3, <2>4, SameIsGood
  <2>6. d \in Connections /\ Effect(w, d)
    BY <2>4, <2>5, ensureReconnectingStateType, ensureEffect
  <2> HIDE DEF d
  <2>7. CASE b.lastActiveAt = "stale"
    <3>1. connection' \in Connections /\ Effect(b, connection')
      BY <2>2, <2>3, <2>7, stopOfGood DEF Effect
    <3> QED BY <2>1, <3>1, SameThenEffect DEF Moves
  <2>8. CASE b.lastActiveAt # "stale"
    <3>1. /\ connection' \in Connections
          /\ Same(d, connection')
      BY <2>2, <2>6, <2>8, webSocketsStartType, webSocketsStartSame
         DEF Same, Frame
    <3>2. Effect(w, connection')
      BY <2>6, <3>1, EffectThenSame
    <3>3. Same(c, w)
      BY <2>1, <2>4, SameIsTransitive
    <3> QED BY <3>1, <3>2, <3>3, SameThenEffect DEF Moves
  <2> QED BY <2>7, <2>8
<1>4. CASE DisconnectTimeout
  <2> DEFINE d == [c EXCEPT !.stopTimeout = FALSE]
             e == stop(d)
  <2>1. c.stopTimeout /\ connection' = e
    BY <1>4 DEF DisconnectTimeout
  <2>2. d \in Connections
    BY <1>0 DEF Connections
  <2>3. /\ d.state = c.state /\ d.promise = c.promise
        /\ d.onStart = c.onStart /\ ~d.stopTimeout
    BY <1>0 DEF Connections
  <2>4. ~Down(c)
    BY <2>1 DEF Good, Timed, Down
  <2> HIDE DEF d
  <2>5. e \in Connections /\ Fell(d, e)
    BY <2>2, <2>3, <2>4, stopType, stopEffect DEF Down
  <2> HIDE DEF e
  <2>6. Fell(c, e)
    BY <2>3, <2>5 DEF Fell, IsDown, Down
  <2> QED BY <2>1, <2>5, <2>6, StopMoves
<1> QED BY <1>1, <1>2, <1>3, <1>4 DEF Timers

LEMMA WebSocketsMove ==
  ASSUME Good(connection), WebSockets
  PROVE  Moves(connection, connection')
<1> DEFINE c == connection
<1>0. c \in Connections /\ c.socket \in Sockets
  BY DEF Good, Connections
<1>1. CASE SocketOpens
  <2>1. connection' = [c EXCEPT !.socket.status = "open",
                                !.socket.timeOut = FALSE]
    BY <1>1 DEF SocketOpens
  <2>2. connection' \in Connections /\ Same(c, connection')
    BY <1>0, <2>1 DEF Connections, Sockets, Same, Frame
  <2> QED BY <2>2, StopMoves
<1>2. CASE SocketTimesOut
  <2> DEFINE d == [c EXCEPT !.socket.timeOut = FALSE]
  <2>1. d \in Connections /\ Same(c, d) /\ FreeLoops(d) = FreeLoops(c)
    BY <1>0 DEF Connections, Sockets, Same, Frame, FreeLoops
  <2>2. c.socket.start \in Starts
    BY <1>0, <1>2 DEF SocketTimesOut, socket, Sockets
  <2>3. /\ connection' = initLongPolling(d, c.socket.start)
        /\ FreeLoops(c) # {}
    BY <1>2 DEF SocketTimesOut, socket
  <2> HIDE DEF d
  <2>4. connection' \in Connections /\ Effect(d, connection')
    BY <2>1, <2>2, <2>3, SameIsGood, initLongPollingType,
       initLongPollingEffect DEF Effect
  <2> QED BY <2>1, <2>4, SameThenEffect DEF Moves
<1>3. CASE SocketIsRefused
  <2> DEFINE d == [c EXCEPT !.socket.status = "closed",
                            !.socket.timeOut = FALSE]
  <2>1. d \in Connections /\ Same(c, d) /\ FreeLoops(d) = FreeLoops(c)
    BY <1>0 DEF Connections, Sockets, Same, Frame, FreeLoops
  <2>2. /\ connection' = IF c.socket.start # None
                         THEN initLongPolling(d, c.socket.start)
                         ELSE reconnect(d)
        /\ FreeLoops(c) # {}
    BY <1>3 DEF SocketIsRefused, socket
  <2> HIDE DEF d
  <2>3. Good(d)
    BY <2>1, SameIsGood
  <2>4. CASE c.socket.start # None
    <3>1. c.socket.start \in Starts
      BY <1>0, <2>4 DEF Sockets
    <3>2. connection' \in Connections /\ Effect(d, connection')
      BY <2>1, <2>2, <2>3, <2>4, <3>1, initLongPollingType,
         initLongPollingEffect DEF Effect
    <3> QED BY <2>1, <3>2, SameThenEffect DEF Moves
  <2>5. CASE c.socket.start = None
    <3>1. connection' \in Connections /\ Effect(d, connection')
      BY <2>1, <2>2, <2>3, <2>5, reconnectType, reconnectEffect DEF Effect
    <3> QED BY <2>1, <3>1, SameThenEffect DEF Moves
  <2> QED BY <2>4, <2>5
<1>4. CASE SocketCloses
  <2> DEFINE d == [c EXCEPT !.socket.status = "closed"]
  <2>1. d \in Connections /\ Same(c, d)
    BY <1>0 DEF Connections, Sockets, Same, Frame
  <2>2. connection' = reconnect(d)
    BY <1>4 DEF SocketCloses
  <2> HIDE DEF d
  <2>3. connection' \in Connections /\ Effect(d, connection')
    BY <2>1, <2>2, SameIsGood, reconnectType, reconnectEffect DEF Effect
  <2> QED BY <2>1, <2>3, SameThenEffect DEF Moves
<1>5. CASE SocketMessage
  BY <1>0, <1>5, socketIsHeardType, socketIsHeardEffect, HeardIsEffect
     DEF SocketMessage, Moves
<1>6. CASE SocketDisconnects
  <2> DEFINE d == socketIsHeard(c)
  <2>1. d \in Connections /\ Heard(c, d)
    BY <1>0, socketIsHeardType, socketIsHeardEffect
  <2>2. connection' = IF d.transport = "none" THEN d ELSE stop(d)
    BY <1>6 DEF SocketDisconnects
  <2> HIDE DEF d
  <2>3. Good(d)
    BY <2>1, HeardIsEffect, EffectIsGood
  <2>4. connection' \in Connections
    BY <2>1, <2>2, stopType
  <2>5. Effect(c, connection')
    BY <2>1, <2>2, <2>3, HeardIsEffect, HeardThenStop
  <2> QED BY <2>4, <2>5 DEF Moves
<1>7. CASE SocketGarbled
  <2>1. CASE c.state # "connecting"
    BY <1>7, <2>1, stopOfGood, StopMoves DEF SocketGarbled
  <2>2. CASE c.state = "connecting" /\ c.socket.start = None
    <3>1. connection' = c
      BY <1>7, <2>2 DEF SocketGarbled, socket
    <3> QED BY <1>0, <3>1 DEF Moves, Effect, Same, Frame
  <2>3. CASE c.state = "connecting" /\ c.socket.start # None
    <3>1. /\ connection' = initLongPolling(c, c.socket.start)
          /\ FreeLoops(c) # {}
      BY <1>7, <2>3 DEF SocketGarbled, socket
    <3>2. c.socket.start \in Starts
      BY <1>0, <2>3 DEF Sockets
    <3> QED BY <1>0, <3>1, <3>2, initLongPollingType, initLongPollingEffect,
               StopMoves
  <2> QED BY <2>1, <2>2, <2>3
<1> QED BY <1>1, <1>2, <1>3, <1>4, <1>5, <1>6, <1>7 DEF WebSockets

LEMMA PingMoves ==
  ASSUME Good(connection), NEW k \in Loops, PingEnds(k) \/ LoopTimer(k)
  PROVE  Moves(connection, connection')
<1> DEFINE c == connection
<1>0. c \in Connections /\ c.loop[k] \in Closures
  BY DEF Good, Connections
<1>1. CASE PingAnswers(k)
  <2>1. CASE c.loop[k].polled
    <3>1. connection' = poll(c, k, TRUE)
      BY <1>1, <2>1 DEF PingAnswers
    <3> QED BY <1>0, <3>1, pollType, pollSame, StopMoves
  <2>2. CASE ~c.loop[k].polled
    <3> DEFINE d == Goto(c, k, "delay")
    <3>1. d \in Connections /\ Same(c, d)
      BY <1>0, GotoType, GotoSame DEF Labels
    <3>2. connection' = [d EXCEPT !.newMessageId = TRUE, !.pollTimeoutId = k]
      BY <1>1, <2>2 DEF PingAnswers
    <3> HIDE DEF d
    <3>3. connection' \in Connections /\ Same(d, connection')
      BY <3>1, <3>2 DEF Connections, LoopIds, Same, Frame
    <3> QED BY <3>1, <3>3, SameIsTransitive, StopMoves
  <2> QED BY <2>1, <2>2
<1>2. CASE PingFails(k)
  BY <1>0, <1>2, pingFailType, pingFailSame, StopMoves DEF PingFails
<1>3. CASE PingIsRefused(k)
  <2> DEFINE d == pingFail(c, k)
  <2>1. d \in Connections /\ Same(c, d) /\ connection' = stop(d)
    BY <1>0, <1>3, pingFailType, pingFailSame DEF PingIsRefused
  <2> HIDE DEF d
  <2>2. connection' \in Connections /\ Effect(d, connection')
    BY <2>1, SameIsGood, stopOfGood DEF Effect
  <2> QED BY <2>1, <2>2, SameThenEffect DEF Moves
<1>4. CASE PingAgain(k)
  BY <1>0, <1>4, GotoType, GotoSame, StopMoves DEF PingAgain, Labels
<1>5. CASE FirstPoll(k)
  <2> DEFINE d == poll(c, k, FALSE)
             l == [d.loop[k] EXCEPT !.timer = TRUE]
  <2>1. d \in Connections /\ Same(c, d)
    BY <1>0, pollType, pollSame
  <2>2. connection' = [d EXCEPT !.loop[k].timer = TRUE]
    BY <1>5 DEF FirstPoll
  <2> HIDE DEF d
  <2>3. l \in Closures
    BY <2>1, ClosureType DEF Connections
  <2>4. connection' = [d EXCEPT !.loop[k] = l]
    BY <2>1, <2>2 DEF Connections
  <2> HIDE DEF l
  <2>5. connection' \in Connections
    BY <2>1, <2>3, <2>4, LoopType
  <2>6. Same(d, connection')
    BY <2>1, <2>4 DEF Same, Frame, Connections
  <2> QED BY <2>1, <2>5, <2>6, SameIsTransitive, StopMoves
<1>6. CASE PollAgain(k)
  <2>1. connection' = poll(c, k, at(k) = "pauseRaising")
    BY <1>6 DEF PollAgain
  <2> QED BY <1>0, <2>1, pollType, pollSame, StopMoves
<1> QED BY <1>1, <1>2, <1>3, <1>4, <1>5, <1>6 DEF PingEnds, LoopTimer

LEMMA LoopTimersMove ==
  ASSUME Good(connection), NEW k \in Loops, ConnectTimer(k) \/ RaiseTimer(k)
  PROVE  Moves(connection, connection')
<1> DEFINE c == connection
           t == [c.loop[k] EXCEPT !.timer = FALSE]
           r == [c.loop[k] EXCEPT !.raise = FALSE]
           d == [c EXCEPT !.loop[k].timer = FALSE]
           e == [c EXCEPT !.loop[k].raise = FALSE]
<1>1. t \in Closures /\ r \in Closures
  BY ClosureType DEF Good, Connections
<1>2. d = [c EXCEPT !.loop[k] = t] /\ e = [c EXCEPT !.loop[k] = r]
  BY DEF Good, Connections
<1>3. d \in Connections /\ e \in Connections
  <2> HIDE DEF d, e, t, r
  <2> QED BY <1>1, <1>2, LoopType DEF Good
<1>4. Same(c, d) /\ Same(c, e)
  BY DEF Good, Same, Frame, Connections
<1>5. /\ ConnectTimer(k) => connection' = fireConnect(d, k)
      /\ RaiseTimer(k) => connection' = fireReconnected(e)
  BY DEF ConnectTimer, RaiseTimer
<1> HIDE DEF d, e
<1>6. Good(d) /\ Good(e)
  BY <1>3, <1>4, SameIsGood
<1>7. CASE ConnectTimer(k)
  <2>1. connection' \in Connections /\ Effect(d, connection')
    BY <1>3, <1>5, <1>6, <1>7, fireConnectType, fireConnectEffect
       DEF StartedEffect, Effect
  <2> QED BY <1>4, <2>1, SameThenEffect DEF Moves
<1>8. CASE RaiseTimer(k)
  <2>1. connection' \in Connections /\ Effect(e, connection')
    BY <1>3, <1>5, <1>6, <1>8, fireReconnectedType, fireReconnectedEffect
       DEF Effect
  <2> QED BY <1>4, <2>1, SameThenEffect DEF Moves
<1> QED BY <1>7, <1>8

LEMMA PollMoves ==
  ASSUME Good(connection), NEW k \in Loops, PollEnds(k)
  PROVE  Moves(connection, connection')
<1> DEFINE c == connection
           h == pollIsHeard(c, k)
           g == Goto(c, k, "end")
<1>0. c \in Connections /\ c.loop[k] \in Closures
  BY DEF Good, Connections
<1>1. h \in Connections /\ Heard(c, h)
  BY <1>0, pollIsHeardType, pollIsHeardEffect
<1>2. g \in Connections /\ Same(c, g) /\ g.loop[k].onFailed = c.loop[k].onFailed
  <2>1. g.loop[k].onFailed = c.loop[k].onFailed
    BY <1>0 DEF Goto, Connections, Closures
  <2> QED BY <1>0, <2>1, GotoType, GotoSame DEF Labels
<1>3. ASSUME NEW r \in BOOLEAN, NEW w \in BOOLEAN, PollAnswers(k, r, w)
      PROVE  Moves(connection, connection')
  <2> DEFINE d == IF h.transport = "none" THEN h
                  ELSE [h EXCEPT !.newMessageId = FALSE]
             e == IF r /\ ~Down(d) THEN ensureReconnectingState(d) ELSE d
             n == IF r THEN "pauseRaising" ELSE "pause"
             g1 == Goto(e, k, n)
  <2>1. connection' = IF Down(e) \/ ~w THEN poll(e, k, r)
                      ELSE [g1 EXCEPT !.pollTimeoutId = k]
    BY <1>3 DEF PollAnswers
  <2> HIDE DEF h, e, n, g1
  <2>2. d \in Connections /\ Same(h, d)
    <3>1. [h EXCEPT !.newMessageId = FALSE] \in Connections
      BY <1>1 DEF Connections
    <3>2. Same(h, [h EXCEPT !.newMessageId = FALSE])
      BY <1>1 DEF Connections, Same, Frame
    <3> QED BY <1>1, <3>1, <3>2 DEF Same, Frame
  <2> HIDE DEF d
  <2>3. Heard(c, d)
    BY <1>1, <2>2, HeardThenSame
  <2>4. Good(d)
    BY <2>2, <2>3, HeardIsEffect, EffectIsGood
  <2>5. e \in Connections /\ Effect(c, e)
    BY <2>2, <2>3, <2>4, ensureReconnectingStateType, HeardIsEffect,
       HeardThenReconnecting DEF e
  <2>6. g1 \in Connections /\ Same(e, g1)
    BY <2>5, GotoType, GotoSame DEF Labels, g1, n
  <2>7. connection' \in Connections /\ Same(e, connection')
    <3>1. CASE Down(e) \/ ~w
      BY <2>1, <2>5, <3>1, pollType, pollSame
    <3>2. CASE ~(Down(e) \/ ~w)
      <4>1. connection' = [g1 EXCEPT !.pollTimeoutId = k]
        BY <2>1, <3>2
      <4>2. connection' \in Connections /\ Same(g1, connection')
        BY <2>6, <4>1 DEF Connections, LoopIds, Same, Frame
      <4> QED BY <2>6, <4>2, SameIsTransitive
    <3> QED BY <3>1, <3>2
  <2> QED BY <2>5, <2>7, EffectThenSame DEF Moves
<1>4. CASE PollDisconnects(k)
  <2> DEFINE d == Goto(h, k, "end")
  <2>1. connection' = IF d.transport = "none" THEN d ELSE stop(d)
    BY <1>4 DEF PollDisconnects
  <2> HIDE DEF h
  <2>2. d \in Connections /\ Same(h, d)
    BY <1>1, GotoType, GotoSame DEF Labels
  <2> HIDE DEF d
  <2>3. Heard(c, d)
    BY <1>1, <2>2, HeardThenSame
  <2>4. Good(d)
    BY <2>2, <2>3, HeardIsEffect, EffectIsGood
  <2>5. connection' \in Connections
    BY <2>1, <2>2, stopType
  <2>6. Effect(c, connection')
    BY <2>1, <2>3, <2>4, HeardIsEffect, HeardThenStop
  <2> QED BY <2>5, <2>6 DEF Moves
<1>5. CASE PollGarbled(k)
  <2>1. connection' = IF g.state # "connecting" THEN stop(g)
                      ELSE IF g.loop[k].onFailed THEN failConnect(g, k)
                      ELSE g
    BY <1>5 DEF PollGarbled
  <2> HIDE DEF g
  <2>2. Good(g)
    BY <1>2, SameIsGood
  <2>3. connection' \in Connections
    BY <1>2, <2>1, stopType, failConnectType
  <2>4. Effect(g, connection')
    BY <2>1, <2>2, stopOfGood, failConnectEffect DEF Effect, Same, Frame
  <2> QED BY <1>2, <2>3, <2>4, SameThenEffect DEF Moves
<1>6. CASE PollFails(k)
  <2> DEFINE b == clearReconnectTimeout(c)
             d == ensureReconnectingState(b)
             f == Goto(b, k, "end")
             e == Goto(d, k, "end")
             w == Goto(d, k, "wait")
  <2>1. connection' =
          IF b.loop[k].onFailed THEN failConnect(f, k)
          ELSE IF Connected(b) /\ b.lastActiveAt = "stale" THEN stop(f)
          ELSE IF d.state # "reconnecting" THEN e
          ELSE [w EXCEPT !.pollTimeoutId = k]
    BY <1>6 DEF PollFails
  <2>2. b \in Connections /\ Same(c, b)
    BY <1>0, clearReconnectTimeoutType, clearReconnectTimeoutSame
  <2> HIDE DEF b
  <2>3. Good(b)
    BY <2>2, SameIsGood
  <2>4. d \in Connections /\ Effect(c, d)
    BY <2>2, <2>3, ensureReconnectingStateType, ensureEffect, SameThenEffect
  <2>5. f \in Connections /\ Same(b, f)
        /\ f.loop[k].onFailed = b.loop[k].onFailed
    <3>1. f.loop[k].onFailed = b.loop[k].onFailed
      BY <2>2 DEF Goto, Connections, Closures
    <3> QED BY <2>2, <3>1, GotoType, GotoSame DEF Labels
  <2> HIDE DEF d, f
  <2>6. /\ e \in Connections /\ Same(d, e)
        /\ w \in Connections /\ Same(d, w)
    BY <2>4, GotoType, GotoSame DEF Labels
  <2> HIDE DEF e, w
  <2>7. Same(c, f) /\ Good(f)
    BY <2>2, <2>3, <2>5, SameIsTransitive, SameIsGood
  <2>8. CASE b.loop[k].onFailed
    BY <2>1, <2>5, <2>7, <2>8, failConnectType, failConnectEffect,
       SameThenEffect DEF Moves
  <2>9. CASE /\ ~b.loop[k].onFailed
             /\ Connected(b) /\ b.lastActiveAt = "stale"
    <3>1. connection' \in Connections /\ Effect(f, connection')
      BY <2>1, <2>7, <2>9, stopOfGood DEF Effect
    <3> QED BY <2>7, <3>1, SameThenEffect DEF Moves
  <2>10. CASE /\ ~b.loop[k].onFailed
              /\ ~(Connected(b) /\ b.lastActiveAt = "stale")
    <3>1. CASE d.state # "reconnecting"
      BY <2>1, <2>4, <2>6, <2>10, <3>1, EffectThenSame DEF Moves
    <3>2. CASE d.state = "reconnecting"
      <4>1. connection' = [w EXCEPT !.pollTimeoutId = k]
        BY <2>1, <2>10, <3>2
      <4>2. connection' \in Connections /\ Same(w, connection')
        BY <2>6, <4>1 DEF Connections, LoopIds, Same, Frame
      <4> QED BY <2>4, <2>6, <4>2, SameIsTransitive, EffectThenSame DEF Moves
    <3> QED BY <3>1, <3>2
  <2> QED BY <2>8, <2>9, <2>10
<1> QED BY <1>3, <1>4, <1>5, <1>6 DEF PollEnds

LEMMA NextMoves ==
  ASSUME Good(connection), Next
  PROVE  Moves(connection, connection')
BY PageMoves, NegotiationMoves, TimersMove, WebSocketsMove, PingMoves,
   LoopTimersMove, PollMoves DEF Next, LongPolling

LEMMA MovesIsGood ==
  ASSUME NEW c, NEW d, Good(c), Moves(c, d)
  PROVE  Good(d)
<1>1. CASE Effect(c, d)
  BY <1>1, EffectIsGood DEF Moves
<1>2. CASE Opened(c, d)
  BY <1>2 DEF Moves, Opened, Good, Timed, Connected, Down, Connections
<1>3. CASE Slept(c, d)
  BY <1>3 DEF Moves, Slept, Good, Timed, Connected
<1> QED BY <1>1, <1>2, <1>3 DEF Moves

LEMMA InitIsGood == Init => Good(connection)
<1> SUFFICES ASSUME Init PROVE Good(connection)
  OBVIOUS
<1>1. NoSocket \in Sockets /\ Ended \in Closures
  BY DEF NoSocket, Sockets, Ended, Closures, None
<1>2. connection \in Connections
  BY <1>1 DEF Init, Connections, LoopIds, Promises
<1> QED BY <1>2 DEF Init, Good, Timed, Connected

LEMMA Invariance == Spec => []Good(connection)
<1>1. Good(connection) /\ [Next]_vars => Good(connection)'
  <2> SUFFICES ASSUME Good(connection), [Next]_vars
               PROVE  Good(connection')
    OBVIOUS
  <2>1. CASE Next
    BY <2>1, NextMoves, MovesIsGood
  <2>2. CASE UNCHANGED vars
    BY <2>2 DEF vars
  <2> QED BY <2>1, <2>2
<1> QED BY <1>1, InitIsGood, PTL DEF Spec

\* The connection of a page always has the shape its code assumes: a start
\* whose WebSocket or poll may still fail is known, so that it can be told.
THEOREM ConnectionTypeCorrect == Spec => []TypeOK
<1>1. Good(connection) => TypeOK
  BY DEF Good, TypeOK
<1> QED BY <1>1, Invariance, PTL

\* Whatever the network and the page do, the timeout that gives a reconnect
\* up runs exactly while the connection is reconnecting.
THEOREM ReconnectTimeoutRuns == Spec => []ReconnectIsTimed
<1>1. Good(connection) => ReconnectIsTimed
  BY DEF Good, Timed, ReconnectIsTimed
<1> QED BY <1>1, Invariance, PTL

\* The callbacks of a start run only while the connection is up, or when the
\* first beat finds it inactive and stops it: also if a WebSocket answers
\* late, closes without a message or sends one that cannot be parsed, if the
\* page restarts at once, and whatever an earlier start has left alive.
THEOREM CallbacksRunWhenUp == Spec => DoneMeansStarted
<1>1. Good(connection) /\ [Next]_vars =>
        [\A a \in Starts :
           connection'.promise[a] = "hollow" /\ connection.promise[a] # "hollow"
             => /\ connection.state = "connecting"
                /\ connection.lastActiveAt = "stale"]_vars
  <2> SUFFICES ASSUME Good(connection), Next, NEW a \in Starts,
                      connection'.promise[a] = "hollow",
                      connection.promise[a] # "hollow"
               PROVE  /\ connection.state = "connecting"
                      /\ connection.lastActiveAt = "stale"
    OBVIOUS
  <2>1. Moves(connection, connection')
    BY NextMoves
  <2>2. connection.promise \in [Starts -> Promises]
    BY DEF Good, Connections
  <2>3. Hollowed(connection, connection')
    BY <2>1, <2>2 DEF Moves, Effect, Same, Failed, Fell, Rejects, Rose,
       Resolves, RoseAndFell, Swapped, Opened, Slept
  <2> QED BY <2>3 DEF Hollowed
<1> QED BY <1>1, Invariance, PTL DEF Spec, DoneMeansStarted

-----------------------------------------------------------------------------
(* The connection implements the one that pages rely on *)

LEMMA DownLink ==
  ASSUME Good(connection), Good(connection)', IsDown(connection, connection'),
         \/ Rejects(connection.promise, connection'.promise)
         \/ /\ connection.state = "connecting"
            /\ \/ Resolves(connection.promise, connection'.promise)
               \/ Hollows(connection.promise, connection'.promise)
  PROVE  Link!GoDown
<1> DEFINE p == connection.promise
           q == connection'.promise
           as == {a \in Starts : p[a] = "pending" /\ q[a] = "rejected"}
           bs == {a \in Starts : /\ p[a] = "pending"
                                 /\ q[a] \in {"resolved", "hollow"}}
<1>0. p \in [Starts -> Promises] /\ q \in [Starts -> Promises]
  BY DEF Good, Connections
<1>1. connection.state # "disconnected" /\ connection'.state = "disconnected"
  BY DEF IsDown, Down
<1>2. Link!Pending = {a \in Starts : p[a] = "pending"}
  BY DEF Link!Pending, Told
<1>3. as \in SUBSET Link!Pending /\ bs \in SUBSET Link!Pending
  BY <1>2
<1>4. CASE Rejects(p, q)
  <2>1. Told' = [a \in Starts |-> CASE a \in as -> "rejected"
                                    [] a \in {} \ as -> "resolved"
                                    [] OTHER -> Told[a]]
    BY <1>0, <1>4 DEF Rejects, Told
  <2> QED BY <1>1, <1>3, <2>1 DEF Link!GoDown
<1>5. CASE connection.state = "connecting" /\ (Resolves(p, q) \/ Hollows(p, q))
  <2>1. \A a \in Starts : q[a] = IF a \in as THEN "rejected"
                                 ELSE IF p[a] # "pending" THEN p[a]
                                 ELSE IF q[a] = "hollow" THEN q[a]
                                 ELSE "resolved"
    BY <1>0, <1>5 DEF Resolves, Hollows
  <2>2. Told' = [a \in Starts |-> CASE a \in as -> "rejected"
                                    [] a \in bs \ as -> "resolved"
                                    [] OTHER -> Told[a]]
    BY <1>0, <2>1 DEF Told
  <2> QED BY <1>1, <1>3, <1>5, <2>2 DEF Link!GoDown
<1> QED BY <1>4, <1>5

LEMMA MovesLink ==
  ASSUME Good(connection), Good(connection)', Moves(connection, connection')
  PROVE  Link!LinkNext \/ UNCHANGED Link!link
<1> DEFINE c == connection
           d == connection'
<1>0. c.promise \in [Starts -> Promises] /\ d.promise \in [Starts -> Promises]
  BY DEF Good, Connections
<1>1. CASE Same(c, d) \/ Slept(c, d)
  BY <1>1 DEF Same, Slept, Link!link, Told
<1>2. CASE Failed(c, d)
  <2>1. PICK a \in Starts : /\ c.promise[a] = "pending"
                            /\ d.promise = [c.promise EXCEPT ![a] = "rejected"]
    BY <1>2 DEF Failed
  <2>2. Told' = Link!Settled({a}, "rejected")
    BY <1>0, <2>1 DEF Link!Settled, Told
  <2> QED BY <1>2, <2>1, <2>2
          DEF Failed, Link!LinkNext, Link!Fail, Link!Pending, Told
<1>3. CASE Fell(c, d) \/ RoseAndFell(c, d) \/ Hollowed(c, d)
  BY <1>3, DownLink DEF Fell, RoseAndFell, Hollowed, Link!LinkNext
<1>4. CASE Rose(c, d)
  <2>1. \A a \in Starts : d.promise[a] = IF c.promise[a] = "pending"
                                         THEN "resolved" ELSE c.promise[a]
    BY <1>4 DEF Rose, Resolves
  <2>2. Told' = Link!Settled(Link!Pending, "resolved")
    BY <1>0, <2>1 DEF Link!Settled, Link!Pending, Told
  <2> QED BY <1>4, <2>2 DEF Rose, Connected, Link!LinkNext, Link!ComeUp
<1>5. CASE Swapped(c, d)
  BY <1>5 DEF Swapped, Connected, Link!LinkNext, Link!Change, Link!link, Told
<1>6. CASE Opened(c, d)
  <2>1. PICK a \in Starts : /\ c.promise[a] = "unused"
                            /\ d.promise = [c.promise EXCEPT ![a] = "pending"]
    BY <1>6 DEF Opened
  <2>2. Told' = Link!Settled({a}, "pending") /\ Told[a] = "unused"
    BY <1>0, <2>1 DEF Link!Settled, Told
  <2> QED BY <1>6, <2>1, <2>2 DEF Opened, Down, Link!LinkNext, Link!Open
<1> QED BY <1>1, <1>2, <1>3, <1>4, <1>5, <1>6 DEF Moves, Effect

\* The client is, step by step, the connection that a page relies on, with
\* any late, silent or garbled WebSocket and any restart.
THEOREM ConnectionRefinement == Spec => ImplementsConnection
<1>1. Init => Link!LinkInit
  BY DEF Init, Link!LinkInit, Told
<1>2. Good(connection) /\ Good(connection)' /\ [Next]_vars
        => [Link!LinkNext]_(Link!link)
  <2> SUFFICES ASSUME Good(connection), Good(connection)', [Next]_vars
               PROVE  Link!LinkNext \/ UNCHANGED Link!link
    OBVIOUS
  <2>1. CASE Next
    BY <2>1, NextMoves, MovesLink
  <2>2. CASE UNCHANGED vars
    BY <2>2 DEF vars, Link!link, Told
  <2> QED BY <2>1, <2>2
<1> QED BY <1>1, <1>2, Invariance, PTL
        DEF Spec, ImplementsConnection, Link!LinkSpec
=============================================================================
