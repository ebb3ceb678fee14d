# A verification of WebPrinter

WebPrinter lets a web page print. A Windows service keeps a host process alive
on the user's machine; pages reach the host over HTTP and SignalR; the host
passes what they send on to the local CaiNiao print component over WebSockets it
opens in their name. This directory holds TLA+ models of the parts of that
program in which the order of events matters, TLC configurations that check them
on small instances, and theorems that TLAPS proves for every size.

Paths below are relative to the repository's root. `UserWebSocketResolver.cs` is
abbreviated UWR.

## 1. Inventory

| Component | State | Operations | Module |
|---|---|---|---|
| Socket registry (`src/SmartClientWebApp/Common/UserWebSocketResolver.cs`) | a static `Dictionary` client id -> `UserWebSocket`, a static `List` of open queries, per object its mark `IsWillBeGarbage`, two times and its `Socket` | look up, register, take an answer, the timer's sweep | `SocketRegistry` |
| Printer hub (`ServerHubs/PrinterHub.cs`) | none of its own, new per call | `Ping`, `Send`, `SendTask`, `GiveMoneyToHouseOwner`; relays a socket's events to the page | `SocketRegistry`, `TaskQueue` |
| Job queue (`Common/TaskQueue.cs`, `Singleton.cs`) | a static `List<TaskModel>` | add, find, remove | `TaskQueue`, `JobStore` |
| System controller (`Controllers/SystemController.cs`) | none | `ReceiveTaskMessage` posts a job; status and start of the workbench | `TaskQueue` |
| Windows service (`src/HookAgent/*.cpp`) | the status it reports, `m_fStopping`, `m_hStoppedEvent`, a worker thread | start, stop, shutdown; the worker's loop | `HookService` |
| Host (`src/SmartClientServerHost/Program.cs`) | a server on a fixed port | start; a keep-alive request to itself | `HookService` |
| WebSocket client (`src/src/WebSocket/WebSocket.cs`, websocket-sharp) | `_readyState`, a stream | connect, send, close | as far as the registry sees it |
| Page client (`web.site/demo/Scripts/printerHttpClient.js`) | one object per client id with its `readyState`, one proxy per page with the functions of the object created last | creates objects, sends, answers queries | `PageClients`; what its answers do in `SocketRegistry` |
| SignalR's JavaScript client (`web.site/demo/Scripts/signalR-src/*.js`) | the connection of the page: state, promises, a socket or polls, five timers, a heartbeat | start, stop, both transports, reconnect; binding of hub events | `Connection`, `HubConnection`, `PageClients` |
| Print component control (`SystemAppExtension.cs`, `WorkBenchController.cs`) | the machine's processes | start, restart, terminate | `PrintComponent` |
| Workbench (`src/SmartClient.Bootstraper`) | a tray form over the service controller | start, stop, single instance | not modelled |
| Request filter (`ScurityFilter.cs`) | a list of domains | one decision per request | not modelled |
| Compression (`LZString.cs`) | none | a codec | not modelled |
| Encryption, printer wrappers, configuration, logging, installer, routing, vendored Katana and SignalR, demo pages | - | - | not modelled |

How they interact:

* The service's worker looks for a process with the host's name every two
  seconds and launches one if there is none; a stop of the service ends the
  host. The two share nothing but the process list.
* A page posts a job over HTTP (`ReceiveTaskMessage`), gets a number, and sends
  the number over SignalR (`SendTask`). Request threads and hub threads share
  the list of jobs, without a lock.
* `Ping`, `Send` and `SendTask` look up the page's proxied socket in the
  dictionary, register one if there is none, connect it and send. The timer asks
  idle clients by a broadcast to all pages, pages answer by a hub call, and the
  next sweep recycles. Pool threads, hub threads and the timer's thread share
  the dictionary, the list and the objects, without a lock.
* All client objects of a page share one SignalR connection and the functions in
  `proxyClient.client`. Every call goes through
  `$.connection.hub.start().done(...)`; the events of a proxied socket go back
  to `Clients.Caller`, the connection of the call that made the socket.
* Pages start, restart and close the print component over HTTP; these requests
  share the process list with each other and with the component's own monitor.

What is hard in it, and what has to hold:

* **Registry.** Three kinds of threads interleave between every two accesses;
  `Dictionary` and `List` are not safe to share, so overlapping accesses lose an
  entry, remove the wrong pair, or make an enumerator throw. The mark is set
  before the client can answer it. An answer may be late or never come. A client
  may register again while everything about its last object is still on its way.
  To be correct, a registered object must not be displaced, whoever is marked
  must be able to save itself, whoever answers must be spared, whoever is gone
  must be removed, and a look-up must not hand out a dead object. Two writers
  that overlap inside the `Dictionary` void all of this, and the code does not
  keep them apart: what holds does so until then.
* **Queue.** `List.Add` and `List.RemoveAt` are sequences of reads and writes of
  a size and an array, and scans by index run beside them. A job whose number
  was handed out must be in the list until its own text has been sent, and then
  it and nothing else must go.
* **Service.** The test for a running host and the launch of one are separate
  steps of a thread that a stop, a shutdown or a restart overlaps, and every
  call of the operating system may fail, mostly unnoticed. There must never be
  two hosts, a stop must end, and a running service must bring a host back.
* **Connection.** A page is one thread, so handlers do not interleave; what is
  hard is what they leave behind for each other: timers that a stop does not
  clear, closures of earlier starts, a socket whose attempt has timed out and
  that opens or closes all the same, a
  state that has changed between a check and the callback that follows. A start
  must be settled, its callbacks must find the connection up, and a connection
  that is up or on its way must always have something under way that moves it
  on.
* **Page.** Functions are bound to hub events when the connection starts,
  removed by their text, and replaced by the next object. A client may have
  several sockets at the hub, which all report to the page. Events must reach
  one object, once; a query must be answered; no call may be left waiting by a
  start that was cut off; what an object is told must be true of a socket of
  its.
* **Print component.** A status test, a launch and a kill are separate looks at
  a list that others change. Starts that overlap must not pile up processes.

`PROJECT.json` lists the hazards line by line, with the properties that cover
them and, where none does, the reason.

## 2. Plan

Done, in this order:

1. `SocketRegistry` with `MCSocketRegistry` and `SocketRegistryProofs`
2. `JobStore` (abstract), `TaskQueue` which implements it, `MCTaskQueue`,
   `TaskQueueProofs`, at first with its types and then with `QueuedIsStored`
   and the refinement
3. `HookService` with `MCHookService` and `HookServiceProofs`
4. `PrintComponent` with `MCPrintComponent` and `PrintComponentProofs`
5. `Connection` (abstract), `HubConnection` which implements it,
   `MCHubConnection`, `HubConnectionProofs`
6. `PageClients`, which builds on `Connection`, with `MCPageClients` and
   `PageClientsProofs`
7. the proof of `LeakIsBounded` in `SocketRegistryProofs`
8. `HubConnectionWatchProofs`: `ConnectingIsCarried` and `UpIsWatched`
9. the type invariant and `DescribesOwnSocket` in `PageClientsProofs`, and that
   a page keeps to `Connection`

To come:

10. `ProxiedSocket`: the states of `WebSocket.cs` with its two locks (connect,
    close, receive and send on different threads), and an abstract socket that
    the registry's `ReadyState` steps are shown to be. `SocketRegistry` would
    then use the abstract one by `INSTANCE`.

## 3. The modules

### SocketRegistry

A `DateTime` field is its age in ticks, capped at the only limit it is compared
with: nothing in the code can tell two ages above the limit apart. A
`UserWebSocket` is an element of `Objs`; `ClientId[o] = Null` says that it has
not been constructed.

| Variable | Code |
|---|---|
| `DicOfUserWebSocket`, `LstOfRecycleTasks` | the statics of the same names; the list as a set, since its pairs are all different |
| `ClientId`, `IsWillBeGarbage`, `idle`, `asked`, `hasSocket` | fields of `UserWebSocket`: `LastAccessTime`, `LastQueryClientStatusTime`, `Socket != null` |
| `ReadyState` | `_readyState` of the socket it was made with |
| `pc`, `op`, `held`, `answer` | where each hub call or pool task is, and its locals |
| `sweep`, `todo`, `cur`, `timer` | where the timer's handler is, and its loop variables |
| `dirty` | the dictionary's version has changed since the handler's enumerator was made |
| `page`, `queries` | the pages that are open; the queries on their way to or from them |
| `intact` | history: no two writers of the dictionary have overlapped |

| Actions | Code |
|---|---|
| `Ping`, `SendFound`, `SendNotFound` | `PrinterHub.Ping`, `ProcessClientMessage` up to the look-up, `InitOneCaiNiaoSocket` up to the registration |
| `ContainsKey`, `FindSlot`, `Add`, `AddThrows` | `AddUserSocketToDic`; `Dictionary.Add` looks for the key and takes a slot, and then fills it |
| `Overlap` | a second `Dictionary.Add`, or the sweep's `Remove`, in between |
| `TestState`, `Connect`, `Send`, `Transmit` | the rest of `ProcessClientMessage` |
| `GiveMoneyToHouseOwner`, `FindPair`, `Strike`, `LookUp`, `ResetFlags` | `OnReceiveMessageFromClient` |
| `Elapsed`, `QueryEntry`, `AskClient`, `QueryEnds` | steps 1 and 2 of the handler, `OnCallBackForCheckClientStatus` |
| `CheckOutTime`, `CloseEntry`, `DropSocket`, `RemoveEntry` | step 3 and `Recycle` |
| `SweepThrows` | the handler's exceptions, which `System.Timers.Timer` swallows |
| `LoseQuery`, `PageLeaves`, `ComponentCloses`, `Tick` | lost messages, the browser, the print component, time |

`Races` chooses whether overlapping calls disturb each other in the two
collections. In the list, that is a `Remove` of the wrong pair, a lost pair, an
enumeration that throws. In the dictionary, two calls that add, of one client or
of two, may both pass the search for the key and take the same slot, and so may
the sweep's `Remove` beside an `Add`: `Overlap` lets the table hold anything
from there on and makes `intact` false. Nothing is claimed of the table
afterwards, because nothing holds of it. With `Races = FALSE` each access is
atomic, and all interleavings of accesses remain. A property that needs
`Races = FALSE` says so in its run and its theorem; those about the table need
`intact` only, and say so themselves.

`prompt` is a history variable: no page has left and no query was lost, and time
has not passed while one was unanswered.

Left out: damage to the dictionary that makes later look-ups fail or hang;
`BindingHub`, which no code sets, so that `Recycle` never disposes a hub; the
relays of socket events. `ResetFlags` makes its two writes in one step; a sweep
between them would only ask once more. A sweep takes less than the timer's
period, so that it does not overlap itself.

### TaskQueue and JobStore

Threads are named by their job: one request posts it, one call sends it. `items`
and `size` are the array and size inside the `List`. `Post`, `Grow` and `Fill`
are the read of the size, its write and the write of the slot in `List.Add`;
`Remove`, `Take`, `Shrink`, `Shift` and `Clear` are the bounds test, the two
accesses to the size, the copy and the clearing of the last slot in
`List.RemoveAt`. `SendTask`, `Find`, `ProcessClientMessage`, `Purge` and
`Search` are `PrinterHub.SendTask` with the loops of `GetModelById` and
`RemoveModelById`, one turn a step, and its `finally` block.

`DecompressFails` is the way out of `SendTask` for a job whose text
`GetTaskMessage` cannot decompress: the exception is logged, and the `finally`
block removes the job.

`Posters`, `Senders` and `Writers` bound how many requests are inside `Add`, how
many calls inside `SendTask`, and how many threads inside `Add` or `RemoveAt`,
at the same time. The code bounds none of them, and neither do the properties:
they only keep instances small. `inTurn` is a history variable that is true
until two calls are in each other's way inside the list (`Clash`): two `Add`s
overlap, or a `RemoveAt` overlaps an `Add`, a scan or another `RemoveAt`. So
what holds of the queue is claimed of every overlap of requests and calls, up
to the step in which they clash: posts in the middle of scans, and scans beside
scans, are part of it. After such a step the list may hold anything, which
`queue_two_senders` shows. Growth of the array is left out (`Capacity` is one
more than the jobs need).

`JobStore` is what a page may rely on: a job is kept, its text is delivered or
found to be of no use, it is dropped. `Jobs` in `TaskQueue` is the refinement
mapping: `Stage` reads a job's stage off its `pc`, and `store` is the set of
jobs in the list, to which the last slot belongs while `RemoveAt` has lowered
the size and not yet moved the rest.

### Connection and HubConnection

`HubConnection` is SignalR's client as these pages get it: the host is another
origin, so that of SignalR's four transports `webSockets` and then `longPolling`
are tried. The files of `signalR-src` are the source of the bundled
`jquery.signalR-1.2.2.js`; the copies elsewhere in the repository are the same.
A page runs one handler at a time, to its end. So the whole connection is one
record, a handler is an action, and a function of the code is an operator that
takes the record as it is and gives the record the function leaves: handlers
call functions that call functions (a failed poll calls `onFailed`, that calls
`stop`, that stops the transport), and each sees what the one before has left.

| Field | Code |
|---|---|
| `state`, `deferral`, `promise`, `onStart`, `negotiating` | `connection.state`, `_deferral`, the deferred of each start, the handlers bound to the start event, `_.negotiateRequest` |
| `transport`, `socket` | `connection.transport`; `connection.socket` with the variables its handlers close over |
| `reconnectTimeout`, `stopTimeout`, `monitoring`, `lastActiveAt`, `beating` | `reconnectTimeout`, `stopReconnectingTimeout`, `keepAliveData.monitoring`, `_.lastActiveAt`, `_.beatHandle` |
| `loop` | the closures of each `longPolling.start`: where it is, whether `fireConnect` was called, `onFailed` is null, and which of its timers run |
| `pollXhr`, `pollTimeoutId`, `pingLoopId`, `reconnectTimeoutId` | the handles of the same names: which closure they refer to, since a second loop overwrites them and `stop` clears only what they refer to |

| Actions | Code |
|---|---|
| `Start`, `Stop`, `Negotiated`, `NegotiateFails`, `NegotiateMismatch` | core.js `start`, `initialize`, `stop` and the callbacks of the negotiate request |
| `Sleep`, `BeatFindsInactive`, `KeepAliveTimesOut`, `ReconnectTimeout`, `DisconnectTimeout` | the page's idleness, transports.common.js `beat`, `checkIfAlive`, `reconnect`; core.js `configureStopReconnectingTimeout` |
| `SocketOpens`, `SocketTimesOut`, `SocketIsRefused`, `SocketCloses`, `SocketMessage`, `SocketDisconnects`, `SocketGarbled` | the handlers in transports.webSockets.js |
| `PingAnswers`, `PingFails`, `PingIsRefused`, `PingAgain`, `FirstPoll`, `ConnectTimer`, `RaiseTimer`, `PollAnswers`, `PollAgain`, `PollDisconnects`, `PollGarbled`, `PollFails` | the callbacks and timers in transports.longPolling.js |

Nothing a browser may do is left out of the handlers. In particular:

* *Stale pages.* `lastActiveAt` is set when the script is loaded and by each
  beat; a start does not set it. So it is stale when the page has been asleep,
  but also when an awake page first starts 30 s (`reconnectWindow`) after it was
  loaded, or when its first start takes that long. `Sleep` stands for all of
  these. The first beat of the heartbeat then stops the connection inside the
  success callback of the start, which goes on and runs the done-callbacks. That
  is the one case `DoneMeansStarted` leaves, and `Connection.GoDown` allows for
  it. A promise is "hollow" when its callbacks have run while the connection was
  not up.
* *Sockets past their time.* The timeout of an attempt only clears its own
  handle. The socket stays with its handlers, and opens, is refused or closes
  later, beside the longPolling that was started in its place (`TimedOut`). A
  second call of `longPolling.start` for the same start may come of that.
* *Dead ends.* Of a start that the code does not bring to an end there are these
  kinds, and the properties name them: its socket has opened and closes without
  a message, or was closed already, so that neither `onSuccess` nor `onFailed`
  is called (`SocketIsDead`); a socket that an earlier start left is taken for
  its own (`SocketInTheWay`); the server speaks another version, whereupon the
  start is rejected and the connection stays connecting (`WrongVersion`); the
  host stays away and is pinged for ever (in `StartEnds`).
* *Left-overs.* `stop` does not close a socket another transport has replaced,
  nor end the timers whose handles were not kept or were overwritten.
  `LeftAlive` says that there is something of the kind, and the history field
  `alone` that the last start found none. What a left-over loop or timer may do
  to a restart is part of every handler; that the restart is still carried and
  watched is false then and claimed only for starts that were `alone`. The
  other properties hold with left-overs.

Abstracted: the heartbeat is one Boolean; delays (`reconnectDelay`, the
`LongPollDelay` of an answer with its timer in `pollTimeoutId`, the back-off)
are timers that are due some time; keep-alive is
taken as activated by the server, as the host's configuration leaves it. Left
out: deferral of the start until the page has loaded; the pings of
`pingIntervalId`, which change nothing but may stop the connection as
`PingIsRefused` does; sending; groups and message ids but for whether there is
one.

`Connection` is what a user of the connection relies on: the four states,
promises that are settled once, callbacks that run while it is up or as it goes
down again in the step in which it came up. A callback that finds the connection
down throws (core.js line 669) and ends the dispatch of the start event, so that
`GoDown` may resolve any of the pending promises. `Link` in
`HubConnection` is the refinement mapping: it reads state and promises off the
record.

### PageClients

The client objects of one page on an abstract connection (`Link`, an instance of
`Connection`), with the hub on the other side. `HubConnection` implements that
connection, so what is shown here holds for the real one. That the page does
nothing to it that `Connection` does not allow is `PageKeepsToConnection` in
section 5.

| Variable | Code |
|---|---|
| `state`, `promise`, `conn` | the connection; which of the page's starts its id belongs to |
| `created`, `proxyClient`, `readyState` | `createNew` was called; whose functions `proxyClient.client` holds; `instance.readyState` |
| `bound` | whose functions are bound to the hub's events, in the order they were bound (`registerHubProxies`) |
| `waiting`, `wire`, `inbox` | done-callbacks on an open promise; calls and messages under way |
| `socket`, `asked` | the socket registered for a client with its hub's `Clients.Caller`; whether a sweep has marked it |
| `hub` | calls inside `ProcessClientMessage`: the look-up has found nothing, or the call holds the registered socket or one of its own |
| `strays`, `strayed` | open sockets that were not registered; history: for whom one was connected |

| Actions | Code |
|---|---|
| `createNew`, `send`, `StartFor`, `JoinStart` | `createNew`, `send`, `sendTask` and the call of `start()` in each |
| `ComesUp`, `Drops`, `IsRestored`, `GoesDown`, `StartFails` | the steps of the connection, with the handlers SignalR binds to them; `Settle` runs or drops the callbacks |
| `Ping`, `Register` | the pool task of a ping: it makes a socket without a look-up, and drops it if one is registered |
| `GetUserSocketFromDic`, `InitOneCaiNiaoSocket`, `ConnectRegistered`, `ConnectOwn` | `ProcessClientMessage` of `Send` and `SendTask`, with `Socket_OnOpen` and `Socket_OnClose` |
| `GiveMoneyToHouseOwner`, `LoseCall` | the answer; a call that is lost |
| `ComponentCloses`, `StrayCloses` | the component closes a registered socket, or another |
| `Query`, `Recycle` | the sweep, as far as a page hears of it |
| `Deliver` with `setClientSocketDescription`, `onCheckClientStatus` | the functions of an object, for an event |

`hubProxy.off` looks a callback up by its text. The functions of all objects are
the same text, so the map holds the one bound last and `GoesDown` removes that
one.

A send looks a socket up, makes and registers one, and connects it, in steps of
their own. Two sends, or a ping and a send, that overlap each make a socket; the
call whose socket could not be registered goes on with it and connects it. A
sweep that recycles the table takes the socket of a call that is about to
connect it. What calls and sweeps do to each other between the accesses inside
such a step is `SocketRegistry`'s. The component's answers, which objects only
pass on, are left out.

### PrintComponent

`proc` says which process, a client or a monitor, has an id. `Start`, `Launch`,
`LaunchAgain` and `Recheck` are `SatrtCaiNiaoPrinter` [sic]: the status test,
the `Process.Start` in its `try`, that in its `finally`, which runs in any case
since `result` is not set before, and the second status test. `Restart`, `Pick`
and `KillPicked` are `RestartCaiNiaoPrinter`; `Terminal`, `List`, `KillFirst`,
`KillSecond` and `NoMore` are `TerminalCaiNiaoPrinter`, whose loop stops after
two kills; `KillThrows` is `Kill` on a process that has gone, which another
request or an ending process may bring about. `ComponentStarts` is the component
looking after itself, `ComponentEnds` a crash. The system does not use an id
again while somebody holds the process (`Free`).

### HookService

Every start of the service is a process with its own flag, event and worker; a
host outlives them. `ctl` is where `CServiceBase::Start` or `Stop` is, `worker`
where `ServiceWorkerThread` and `HookTheRunTime` are. A host is starting,
serving, or "deaf": `WebApp.Start` threw, `Main` logged it and waits at its
console. `Machines` is a set of kinds of machine, each the set of what may go
wrong on it; the variable `faults` is the kind this machine is, chosen by
`Init`: a process snapshot, a launch, a kill or the wait of `OnStop` fails, the
port is refused, a host or the service ends. A wait that fails makes `OnStop`
throw, and `Stop` restores the status before (`WaitFails`); the flag stays set,
so that the service goes on without a worker. One run so checks several kinds of
machine, and a property that needs a machine without a fault says so. `Shutdown`
stops nobody, and the worker goes on until `PowerOff`. Pause and continue are
left out: `wmain` makes the service without them. `KillApplicationProc` returns
1 whatever happened, so `OnStop` never throws on its account. The kill may fail:
among other reasons, `KILL_PROC_BY_NAME` gives its list of processes a size of
1000 bytes and so looks at 250 of them.

## 4. The runs

| Run | Checks | Instance |
|---|---|---|
| `registry_races` | `TypeOK`, `RecycledOnlyInWindow`, `RegistrationIsStable` | 2 clients, 2 calls, 2 objects, 1 message id, races |
| `registry_answers` | `MarkedIsRecoverable`, `LeakIsBounded`, `PromptPagesAreSpared` | 2 clients, 2 calls, 2 objects, 2 message ids, no races |
| `registry_liveness` | `AbandonedEntryIsRemoved` under `FairSpec` | 2 clients of which one goes, 1 call, 3 objects, 2 message ids, no races |
| `registry_spares_answered` | finds `DestroysOnlyUnanswered` violated | 2 clients, 1 call |
| `queue_overlapping` | `TypeOK`, `QueuedIsStored`, `KeepsPromise`, `SendEnds` under `FairSpec` | 3 jobs, 2 posters, 2 senders, all may write |
| `queue_two_senders` | finds `ListIsPending` violated | 3 jobs, 2 senders, 1 writer |
| `service_faults` | `TypeOK`, `AtMostOneHost`, `StopEnds`, `ServesAgain` under `FairSpec` | 2 processes, 2 hosts; machines with every fault but snapshot, bind and wait, with wait too, and with every fault but wait |
| `service_relaunch` | finds `HostDiesWithService` violated | the same, a machine with no fault |
| `connection_restarts` | `TypeOK`, `DoneMeansStarted`, `ReconnectIsTimed`, `ConnectingIsCarried`, `UpIsWatched`, `ImplementsConnection` | 2 starts, 2 polling loops |
| `connection_settles` | `StartEnds` under `FairSpec` | 2 starts, 2 polling loops, as far as their starts |
| `page_clients` | `TypeOK`, `OneHandler`, `NoCallWaits`, `DescribesOwnSocket`, `QueryIsAnswered` under `FairSpec` | 2 client objects, 2 starts, up to 4 calls and sockets and 3 messages under way |
| `print_component` | `TypeOK`, `LaunchesAreBounded` | 2 requests, 6 process ids |

What the passing runs show:

* Until two writers of the dictionary overlap, registrations that race do not
  displace the registered object, and a recycled object is in the table only
  inside the window of the sweep that recycled it, whatever the list of open
  queries suffers meanwhile.
* Whoever is marked can save itself: the sweep is about to ask, or the pair is
  in the list, or the answer has been taken. A page that answers before the
  query is overdue never loses its entry. Both need accesses to the list that do
  not overlap: with `Races` an answer can be lost (`FirstOrDefault` throws) or
  the pair be (a torn `Add`).
* The list of open queries is never emptied of pairs of pages that are gone; it
  has at most one pair for every object ever made.
* An entry of a page that is gone is removed, although another page registers,
  sends and is recycled beside it, and its registration in the middle of a sweep
  makes that sweep throw. How often others may register is bounded by the
  objects: without a bound they could disturb every sweep.
* Until two calls clash inside the list of jobs, a posted job is in the list
  until it has been sent or turned out not to decompress, no scan passes it by
  though posts and other scans go on beside it, and then it and no other goes.
  Whether or not they clash, a call to `SendTask` ends.
* The service ends every stop, whatever else fails, unless the wait itself
  fails. While process snapshots work it never brings up a second host; where
  the port can be had too and no stop was called off, it brings a host back,
  over crashes, restarts and calls that fail.
* A start of the page's connection is settled or cut off by a stop, however its
  transports are refused, drop, fall silent or come late, unless it runs into
  one of the dead ends of section 3. Its callbacks find the connection up but
  for the stale case. The timeout of a reconnect runs exactly while the
  connection is reconnecting. If nothing of an earlier start is alive, a
  connection that is connecting has something under way that moves it on, or is
  in a dead end, and one that is up is watched over the very transport it uses.
* One object of a page hears the hub's events while the connection is not down,
  whatever the starts, failures and creations; a query for it is answered; calls
  of a start that was cut off are made or dropped, not forgotten. An object
  created while the connection is up hears nothing until the next start: its
  query goes unanswered, and its socket is recycled.
* A page's single object that was told OPEN has an open socket, until the page
  has to start again: the events of a socket still go to the old connection. It
  need not be the registered one: a hub call that overlaps another may have
  connected a second (`strayed`), whose events the page cannot tell apart.
* Overlapping starts of the print component launch at most two clients each.

What the violations show:

* `registry_spares_answered`: one overdue client makes the sweep recycle the
  whole table (UWR line 242), although the comments speak of clients that do not
  answer.
* `queue_two_senders`: the index `RemoveModelById` found is stale when it
  removes; its own job stays, or another's goes. (With two posters and two
  writers TLC finds the same property violated by two requests in `List.Add` at
  once, which lose a job whose number was handed out.)
* `service_relaunch`: the worker relaunches the host between the kill and the
  stopping flag in `OnStop`; the service stops, the host stays.

### Bounds

* *Registry.* Two clients are needed for one to disturb the other, two calls for
  a race, two objects for a client that registers again after it was recycled.
  One tick is 15 of the 30 seconds of `MAX_LIMIT_TIME` and the timer; in the
  runs where only the order of events matters all limits are one tick. In
  `registry_races` a client has one message id, so that a client recycled
  without an answer is not asked a second time; `registry_answers`, with two,
  covers that for atomic accesses, and the theorems for both. It also ends where
  two writers of the dictionary have overlapped (`IsIntact`), since nothing is
  claimed beyond. The two-client runs keep pages open (`PagesStay`): a page that
  never calls or answers again takes every step a closed one does. In
  `registry_liveness` one page goes and the other stays to disturb the sweeps
  (`OneLeaves`); its calls are pings, which add entries as sends do. When the
  message ids of a client run out the sweep stops at `AskClient`; the calls go
  on beside it, and every state before that is explored; in `registry_liveness`
  there are as many ids as a client gets objects. The number of objects bounds
  how often clients register. Objects and ids are taken in order where symmetry
  is not allowed (`InOrder`).
* *Queue.* Three jobs let two senders and a poster meet, and two posters a
  sender, with the third job to be shifted, lost or found. All jobs may end, so
  these runs do not check deadlock.
* *Service.* Two processes let a restart overlap the end of the process before;
  two hosts are one too many. Ended processes are used again, so runs are
  endless.
* *Connection.* Two starts: one that leaves whatever it can leave, and one that
  falls into it. A polling loop is used again when nothing of it is under way
  any more; the two that the late socket of a start brings about overlap each
  other. `FreeLoops` is the bound: a call of `longPolling.start` waits for a
  free loop. Once the second start has been made, `connection_restarts` does not
  go on from a state in which two loops are at work (`OneCallAfterRestart`): it
  explores a left-over loop or its timers beside a second start over webSockets,
  but checks only the first step of a second start that polls beside it. For the
  rest there are the proofs, which have no such bound and cover every property
  of this run. `connection_settles` asks how starts end, and leaves out what
  comes once the second one is up, and overlapping loops once the first one is
  (`UntilRestarted`). Starts are used once, so a run ends when they are spent,
  and deadlock is not checked.
* *Page.* Two objects, for one to take the place of the other, and two starts,
  for a connection that is lost and made again. `MaxCalls` bounds what the page
  sends, `MaxInbox` what the hub has on the way; an event of the hub waits for
  room. Up to four calls and sockets overlap on a page with one object and one
  start; with more of these a send begins only when no other call is under way
  (`OneByOne`), pings and answers beside it. Objects and starts are taken in
  order (`InOrder`). Starts are used up, so deadlock is not checked.
* *Print component.* Two requests and six ids: the five clients of
  `LaunchesAreBounded` and the monitor.

### Fairness

* *Registry*: the clock, the timer's thread and threads of calls that have begun
  go on. Pages are owed nothing, they may never call or answer.
* *Queue*: a call that has begun is run to its end by its thread. Nobody has to
  post or send.
* *Service*: the control thread and the worker run. Creation of a process and
  starting of the server are strongly fair: they may fail any number of times,
  but not for ever. `ServesAgain` is for machines without the faults `snapshot`,
  `bind` and `wait`, with which it is false: a second host cannot have the port,
  a deaf host is taken for a running one, and a service whose stop was called
  off has no worker.
* *Connection*: the browser ends every request and every attempt to open a
  socket, and fires the timers that are due; a socket that has opened gets its
  first message (the host sends one on connection, and keep-alives after) or
  closes. Nothing is assumed of the host: a ping may fail again and again, and
  `StartEnds` names that case instead of assuming it away. The page is not fair:
  it need not start or stop.
* *Page*: a connection that is up delivers its messages, and an answer that was
  sent arrives. `QueryIsAnswered` leaves out a connection that drops meanwhile,
  and one that a start brought up which had been rejected (`Fail` of
  `Connection`): `start()` then returns the rejected promise and every call on
  that connection is dropped.

## 5. The proofs

`SocketRegistryProofs`
* `TypeCorrect`: `TypeOK`, action by action.
* `OneWindow`, `EntriesStay`: `RecycledOnlyInWindow` and `RegistrationIsStable`,
  for any `Races`. Neither is inductive. The invariant `SafeInv`, which holds as
  long as `intact` does, adds what a thread may know: the object a call is about
  to register is not registered, has a socket and is nobody else's
  (`PrivateIsClean`); objects not yet made are clean (`UnmadeIsClean`); a call
  that has taken a slot is the only one, and its key is not there
  (`InsertsAlone`); the table holds under a client's id an object of that client
  (`EntriesMatch`); and the entry the sweep is working on is still there
  (`SweepHasEntries`).
* `MarkedCanAnswer`: `MarkedIsRecoverable`, from `Races = FALSE`. The step lemma
  follows one pair: a pair that can be answered stays until its answer is taken
  (`PairStays`), an answer that is on its way ends in a reset of the very object
  (`AnswerStays`), and a mark is only ever made by the sweep that is about to
  ask (`NewMark`).
* `PromptPagesKeepSockets`: `PromptPagesAreSpared`, from `Races = FALSE`. The
  invariant `PromptInv` says that every pair in the list is open (its query is
  on the way, or a call is about to take its answer) and that a marked entry was
  asked in this very tick: time passes only when nothing is open, and a mark
  with nothing open would contradict `MarkedIsRecoverable`. So no query is ever
  overdue and step 3 finds nobody.
* `ListStaysShort`: `LeakIsBounded`, from `Races = FALSE`, for any finite sets
  of calls and objects. Counting pairs against objects made is not inductive,
  since an object may be asked again. `PairsAreFew` counts against the marked
  objects: the pairs in the list, the pairs that a call has just struck out
  (until it resets the object it found), and the one about to be put in are
  together no more than these. A query marks an object before it adds a pair; a
  reset unmarks one object, when one call is done; what a sweep drops stays
  marked. `AnswersDiffer` says that two calls never carry the same answer, so
  that each strikes out a pair of its own.

`TaskQueueProofs`
* `TypeCorrect`: the size may fall below zero but stays below `Capacity`, for
  any overlap.
* `QueuedStays`, `PromiseIsKept`: `QueuedIsStored` and the refinement
  `KeepsPromise`, for any number of jobs, posters, senders and writers, with no
  assumption on any of them. Neither is inductive, for they speak of jobs and
  not of what a half-done `Add` or `RemoveAt` has left in the array. `IInv`
  holds as long as `inTurn` does, that is, while no two calls clash (`Apart`).
  It says that the slots up to the end of the list hold just the jobs that are
  kept (`KeptIsThere`, `ThereIsKept`), no job twice (`Once`), where the end is
  one slot further while a `RemoveAt` has lowered the size and not yet moved the
  rest, and the slot past it may still hold a job until it is cleared; that who
  is inside `Add` or `RemoveAt` has read the true size (`ReadIsTrue`); and that
  a scan's job lies at or below its index (`ScanIsAhead`), which posts at the
  end of the list, other scans and the scan's own removal leave true. The
  refinement then goes action by action: `Fill` keeps a job,
  `ProcessClientMessage` delivers, `DecompressFails` finds it of no use, `Shift`
  drops, and the others stutter.

`HookServiceProofs`
* `TypeCorrect`: with the tie between the control position and the status.
* `OneHost`: `AtMostOneHost`, for any number of processes, hosts and kinds of
  machine. The property is for machines without the fault `"snapshot"`. It is
  not inductive: two workers could both have looked. `IInv` adds that a worker
  that runs belongs to the process started last, which is not stopped but by a
  shutdown (`WorkerIsCurrent`), because a signalled event means that the worker
  has ended (`EventEndsWorker`); and that a worker about to launch sees no host
  (`LaunchSeesNone`).

`HubConnectionProofs`
* `ConnectionTypeCorrect`, `ReconnectTimeoutRuns`, `CallbacksRunWhenUp`,
  `ConnectionRefinement`: `TypeOK`, `ReconnectIsTimed`, `DoneMeansStarted` and
  `ImplementsConnection`, for any starts and loops and with no other assumption.

  A handler is a chain of functions on one record, so the proofs go by
  functions: for each a lemma that it gives a connection for a connection, and
  one that says what it does to state and promises at most ("the same", "goes
  down", "comes up", "starts to reconnect", ...). Lemmas on chains say which
  effect two effects in a row have. The invariant `Good` joins the type,
  `ReconnectIsTimed`, and what the other two need: a promise that is pending has
  a handler bound to the start event, and the connection is not up. Every effect
  preserves `Good` and is a step of `Connection` or a stutter.

`HubConnectionWatchProofs`
* `StartIsCarried`, `UpConnectionIsWatched`: `ConnectingIsCarried` and
  `UpIsWatched`, for any starts and loops and with no other assumption: sockets
  may come late, stay mute or be garbled, and pages may sleep or start again at
  once. That the start found nothing of an earlier one alive (`alone`) and the
  dead ends are in the properties themselves.

  Both say only what moves the connection on, and neither is inductive: a socket
  that closes must find the transport that its handlers take for granted. The
  invariant `Watched` says that a connection which is not down, and whose start
  was alone, has one of three shapes. `Asking`: a negotiate request of this very
  start, or one a mismatch has rejected. `OverSocket`: no loop is at work; while
  it connects, the socket has its `onSuccess` with a timeout that is running, or
  is open, or is dead (`Trying`); once it is up, the socket is open or
  opening or a reconnect is due (`InUse`). `OverPolls`: a loop is at work, with
  `fireConnect` while the connection is connecting; the socket that was given up
  may still open or close, and a second loop may come of it. The proof says of
  each function of the code from which shape it leads to which, and then follows
  the handlers.

`PageClientsProofs`
* `PageTypeCorrect`: `TypeOK`. All but the inbox is a matter of each action; a
  recycle tells all clients it takes in one sequence (`RecycleTells`), for which
  the clients have to be finitely many.
* `ReadyStateIsTrue`: `DescribesOwnSocket`, for any objects, starts and bounds.
  It speaks of moments without messages only. `Own(i)` says for a page that has
  had one object, `i`, and one connection what is under way: no call, hub call
  or socket is anybody else's, all are the connection's, nothing was heard of a
  socket before the connection came up (`Fresh`), and the last message under way
  that is not a query, or `readyState` if there is none, is true of the sockets
  (`Describes`): "open" of one of them, "close" of the registered one unless
  another was connected. A hub step adds a last message (`NewsIsLast`,
  `QueryComesAfter`, `RecycleIsNews`), a delivery takes the first
  (`DeliveredIsKnown`). `SoloBefore` says that a page with one connection has
  had no other before.
* `PageKeepsToConnection`: each step of the page is a step of `Connection` or
  leaves it alone. With `ConnectionRefinement` the two modules meet in the same
  specification, from both sides.
* `OneObjectHears`, `NoCallIsForgotten`: `OneHandler` and `NoCallWaits`, for any
  objects, starts and bounds. `IInv` adds that a connection that is up has no
  open promise and that only open promises are waited on, so that whatever
  brings it up empties `waiting`.

`PrintComponentProofs`
* `ComponentTypeCorrect`, `StartsAreBounded`, for any finite sets of requests
  and ids. `LaunchesAreBounded` counts launches to come with the clients there
  are, so that each step of a start trades one for the other; a start adds two
  only for a request of its own when no client runs.

The assumptions are those of the modules: limits are positive naturals, `Null`
is none of the objects or clients, `Races` is a Boolean, faults are among the
known kinds, `"none"` is no start or loop, jobs, calls, objects, clients,
requests and ids are finitely many. TLC evaluates them in every run. One thing
is assumed beyond them, and stated in the theorems that need it: `Races = FALSE`
in those about queries and answers.

Only model-checked: the liveness properties (`AbandonedEntryIsRemoved`,
`SendEnds`, `ServesAgain`, `StopEnds`, `StartEnds`, `QueryIsAnswered`), which
need fairness, beyond the prover's reach. Every invariant, action property and
refinement that a passing run checks is proved.

## 6. Not modelled

* `WebSocket.cs` beyond the states the registry looks at (section 2).
* What ends up in a job, a message or a compressed text: the request filter, the
  codec, encryption, routing, configuration and logging compute on strings and
  keep no state whose order of changes matters. Of the printer and Windows
  wrappers each is one call. The workbench's form calls the service controller,
  whose side is `HookService`; the installer runs when the service does not.
* What a host that is killed takes with it. The queue is a list in memory and
  nothing promises more, so a job whose host has died is lost by design.
* A dictionary so damaged by overlapping writes that a look-up hangs.
* Katana, SignalR's server, Web API and the server half of websocket-sharp are
  third-party code carried in the repository: of them the models keep only that
  hub calls and requests run on any thread at any time and that messages may be
  lost. SignalR's client is modelled because what the page's client does depends
  on it.

A word on size. Counted by lines of JavaScript, nearly all of this repository is
vendored: the same releases of jQuery, jQuery UI, knockout and others in several
directories, some 218000 lines, against the 450 of `printerHttpClient.js` and
the 2150 of the modelled files of SignalR's client. The program's own logic is
mostly C# and C++. So the mapped lines are a small share of the JavaScript of
the repository, and could not be a large one: a model of a DOM library would say
nothing of this program.

## 7. Running

`tlc -config <run>.cfg <module>` with the module `PROJECT.json` names for the
run; `tlapm <module>.tla` for the seven proof modules, whose names end in
`Proofs`.
