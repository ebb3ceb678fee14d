------------------------- MODULE PageClientsProofs --------------------------
(***************************************************************************)
(* What holds of a page's client objects for every number of objects and   *)
(* starts and however many messages are under way.                         *)
(***************************************************************************)
EXTENDS PageClients, FiniteSetTheorems, TLAPS

\* The types that the arguments below rest on.
Shape ==
  /\ Link!LinkTypeOK
  /\ conn \in Starts \cup {None}
  /\ state # "disconnected" => conn # None
  /\ waiting \subseteq Call
  /\ created \subseteq Clients
  /\ created # {} => proxyClient \in Clients
  /\ bound \in Seq(Clients)

\* No promise is open on a connection that is up.
UpIsSettled == Link!Up => Link!Pending = {}

\* Only open promises are waited on.
WaitingIsOpen == \A w \in waiting : promise[w.conn] = "pending"

IInv == Shape /\ UpIsSettled /\ WaitingIsOpen /\ OneHandler

-----------------------------------------------------------------------------

LEMMA InitIsFine == Init => IInv
  BY DEF Init, Link!LinkInit, IInv, Shape, Link!LinkTypeOK, UpIsSettled,
         Link!Up, Link!Pending, WaitingIsOpen, OneHandler

\* A start binds one object's functions and leaves its promise open.
LEMMA StartsAreFine ==
  ASSUME IInv, NEW i \in Clients, NEW j \in Clients,
         NEW kind \in Kinds, StartFor(kind, i, j)
  PROVE  /\ Link!LinkTypeOK' /\ conn' \in Starts /\ waiting' \subseteq Call
         /\ bound' \in Seq(Clients)
         /\ UpIsSettled' /\ WaitingIsOpen' /\ OneHandler'
<1>1. PICK a \in Starts :
        /\ Link!Open(a)
        /\ conn' = a
        /\ waiting' = waiting \cup {[kind |-> kind, client |-> i, conn |-> a]}
  BY DEF StartFor
<1>2. bound = <<>> /\ bound' = <<j>>
  <2>1. state = "disconnected"
    BY <1>1 DEF Link!Open
  <2>2. bound = <<>>
    BY <2>1 DEF IInv, OneHandler
  <2>3. bound' = Append(bound, j)
    BY DEF StartFor
  <2> QED BY <2>2, <2>3
<1>3. state' = "connecting" /\ promise' = Link!Settled({a}, "pending")
  BY <1>1 DEF Link!Open
<1>4. Link!LinkTypeOK'
  BY <1>3 DEF IInv, Shape, Link!LinkTypeOK, Link!Settled
<1>5. waiting' \subseteq Call
  BY <1>1 DEF IInv, Shape, Call
<1>6. WaitingIsOpen'
  BY <1>1, <1>3 DEF IInv, Shape, WaitingIsOpen, Link!LinkTypeOK,
     Link!Settled, Call
<1>7. UpIsSettled' /\ OneHandler'
  BY <1>2, <1>3 DEF UpIsSettled, Link!Up, OneHandler
<1> QED BY <1>1, <1>2, <1>4, <1>5, <1>6, <1>7

LEMMA JoinsAreFine ==
  ASSUME IInv, NEW i \in Clients, NEW kind \in Kinds,
         JoinStart(kind, i)
  PROVE  /\ Link!LinkTypeOK' /\ conn' \in Starts /\ waiting' \subseteq Call
         /\ bound' \in Seq(Clients)
         /\ UpIsSettled' /\ WaitingIsOpen' /\ OneHandler'
<1>1. /\ state # "disconnected" /\ conn \in Starts
      /\ UNCHANGED <<state, promise, conn, bound>>
  BY DEF IInv, Shape, JoinStart
<1>2. waiting' \subseteq Call
  BY <1>1 DEF IInv, Shape, JoinStart, Call
<1>3. WaitingIsOpen'
  BY <1>1 DEF IInv, Shape, JoinStart, WaitingIsOpen
<1>4. UpIsSettled' /\ OneHandler' /\ Link!LinkTypeOK'
  BY <1>1 DEF IInv, Shape, UpIsSettled, OneHandler, Link!Up, Link!Pending,
     Link!LinkTypeOK
<1> QED BY <1>1, <1>2, <1>3, <1>4 DEF IInv, Shape

LEMMA CallsAreFine ==
  ASSUME IInv, NEW i \in Clients, NEW j \in Clients,
         NEW kind \in Kinds, CallServer(kind, i, j)
  PROVE  /\ Link!LinkTypeOK' /\ conn' \in Starts /\ waiting' \subseteq Call
         /\ bound' \in Seq(Clients)
         /\ UpIsSettled' /\ WaitingIsOpen' /\ OneHandler'
  BY StartsAreFine, JoinsAreFine DEF CallServer

\* After Settle only open promises are waited on.
LEMMA SettleIsFine ==
  ASSUME IInv, Settle
  PROVE  waiting' \subseteq Call /\ WaitingIsOpen'
  BY DEF IInv, Shape, Settle, WaitingIsOpen

LEMMA FrontIsEmpty == ASSUME NEW s \in Seq(Clients), Len(s) = 1
                      PROVE  Front(s) = <<>>
  BY DEF Front

LEMMA StepsAreFine == IInv /\ [Next]_vars => IInv'
<1> SUFFICES ASSUME IInv, [Next]_vars PROVE IInv'
  OBVIOUS
<1> USE DEF page, processing, server
<1>0. ASSUME UNCHANGED <<state, promise, conn, bound, waiting, created,
                         proxyClient>>
      PROVE  IInv'
  BY <1>0 DEF IInv, Shape, Link!LinkTypeOK, UpIsSettled, Link!Up,
     Link!Pending, WaitingIsOpen, OneHandler
<1>1. ASSUME NEW i \in Clients, createNew(i) PROVE IInv'
  <2>1. CallServer("ping", i, i) /\ created' = created \cup {i}
        /\ proxyClient' = i
    BY <1>1 DEF createNew
  <2> QED BY <2>1, CallsAreFine, NoneIsNoStart DEF IInv, Shape, Kinds
<1>2. ASSUME NEW i \in Clients, send(i) PROVE IInv'
  <2>1. PICK kind \in Kinds : CallServer(kind, i, proxyClient)
    BY <1>2 DEF send, Kinds
  <2>2. proxyClient \in Clients /\ UNCHANGED <<created, proxyClient>>
    BY <1>2 DEF send, IInv, Shape
  <2> QED BY <2>1, <2>2, CallsAreFine, NoneIsNoStart DEF IInv, Shape
<1>3. CASE ComesUp
  <2>1. /\ state = "connecting" /\ state' \in {"connected", "reconnecting"}
        /\ promise' = Link!Settled(Link!Pending, "resolved")
        /\ UNCHANGED <<conn, bound, created, proxyClient>>
        /\ waiting' \subseteq Call /\ WaitingIsOpen'
    BY <1>3, SettleIsFine DEF ComesUp, Link!ComeUp
  <2>2. Link!LinkTypeOK' /\ UpIsSettled'
    BY <2>1 DEF IInv, Shape, Link!LinkTypeOK, Link!Settled, Link!Pending,
       UpIsSettled
  <2> QED BY <2>1, <2>2 DEF IInv, Shape, OneHandler
<1>4. CASE Drops \/ IsRestored
  BY <1>4 DEF Drops, IsRestored, Link!Change, IInv, Shape, Link!LinkTypeOK,
     UpIsSettled, Link!Up, Link!Pending, WaitingIsOpen, OneHandler
<1>5. CASE GoesDown
  <2>1. /\ state # "disconnected" /\ state' = "disconnected"
        /\ bound' = Front(bound)
        /\ UNCHANGED <<conn, created, proxyClient>>
        /\ waiting' \subseteq Call /\ WaitingIsOpen'
    BY <1>5, SettleIsFine DEF GoesDown, Link!GoDown
  <2>2. promise' \in
          [Starts -> {"unused", "pending", "resolved", "rejected"}]
    BY <1>5 DEF GoesDown, Link!GoDown, IInv, Shape, Link!LinkTypeOK
  <2>3. bound' = <<>>
    BY <2>1, FrontIsEmpty DEF IInv, Shape, OneHandler
  <2> QED BY <2>1, <2>2, <2>3 DEF IInv, Shape, Link!LinkTypeOK,
          UpIsSettled, Link!Up, OneHandler
<1>6. CASE StartFails
  <2>1. /\ UNCHANGED <<state, conn, bound, created, proxyClient>>
        /\ waiting' \subseteq Call /\ WaitingIsOpen'
    BY <1>6, SettleIsFine DEF StartFails, Link!Fail
  <2>2. PICK a \in Link!Pending : promise' = Link!Settled({a}, "rejected")
    BY <1>6 DEF StartFails, Link!Fail
  <2>3. Link!LinkTypeOK' /\ UpIsSettled'
    BY <2>1, <2>2 DEF IInv, Shape, Link!LinkTypeOK, Link!Settled,
       Link!Pending, Link!Up, UpIsSettled
  <2> QED BY <2>1, <2>3 DEF IInv, Shape, OneHandler
<1>7. ASSUME NEW c \in wire, HubCall(c) \/ LoseCall(c) PROVE IInv'
  BY <1>7, <1>0 DEF HubCall, Ping, GetUserSocketFromDic,
     GiveMoneyToHouseOwner, LoseCall
<1>8. ASSUME NEW i \in Clients, ComponentCloses(i) \/ Query(i) PROVE IInv'
  BY <1>8, <1>0 DEF ComponentCloses, Query
<1>9. CASE Recycle
  BY <1>9, <1>0 DEF Recycle
<1>10. CASE Deliver
  <2>1. UNCHANGED <<created, proxyClient>>
    BY <1>10 DEF Deliver
  <2>2. CASE UNCHANGED <<state, promise, conn, bound, waiting>>
    BY <2>1, <2>2, <1>0
  <2>3. ASSUME NEW i \in Listeners, state = "connected",
               CallServer("answer", i, proxyClient)
        PROVE  IInv'
    <3>1. i \in Clients
      BY <2>3 DEF Listeners, IInv, Shape
    <3>2. ~StartFor("answer", i, proxyClient)
      BY <2>3 DEF StartFor, Link!Open
    <3>3. JoinStart("answer", i)
      BY <2>3, <3>2 DEF CallServer
    <3> QED BY <2>1, <3>1, <3>3, JoinsAreFine, NoneIsNoStart
            DEF IInv, Shape, Kinds
  <2> QED BY <1>10, <2>2, <2>3 DEF Deliver, onCheckClientStatus,
             setClientSocketDescription
<1>11. CASE UNCHANGED vars
  BY <1>11, <1>0 DEF vars
<1>12. ASSUME NEW h \in hub, ProcessClientMessage(h) PROVE IInv'
  BY <1>12, <1>0 DEF ProcessClientMessage, InitOneCaiNiaoSocket,
     ConnectRegistered, ConnectOwn
<1>13. ASSUME NEW c \in strays, StrayCloses(c) PROVE IInv'
  BY <1>13, <1>0 DEF StrayCloses
<1> QED BY <1>1, <1>2, <1>3, <1>4, <1>5, <1>6, <1>7, <1>8, <1>9, <1>10,
        <1>11, <1>12, <1>13 DEF Next

LEMMA Invariance == Spec => []IInv
  BY InitIsFine, StepsAreFine, PTL DEF Spec

-----------------------------------------------------------------------------
(* Messages and calls keep their form, and the inbox its bound; a call that *)
(* goes on with a registered socket has one.                               *)

\* What a recycle takes from the clients of the connection that is up.
Taken == {i \in Clients : /\ HasSocket(i) /\ socket[i].caller = conn
                          /\ socket[i].ReadyState # "Closed" /\ Link!Up}

\* A recycle tells it in messages of one kind, and tells nothing if there is
\* nothing to tell.
LEMMA RecycleTells ==
  ASSUME Recycle
  PROVE  \E s \in Seq(Event) :
           /\ inbox' = inbox \o s
           /\ \A n \in 1..Len(s) : s[n].kind = "close"
           /\ Len(s) = 0 <=> Taken = {}
<1>1. PICK is \in SetToSeqs(Taken) :
        inbox' = inbox \o [n \in DOMAIN is |->
                             [kind |-> "close", client |-> is[n]]]
  BY DEF Recycle, Taken
<1> DEFINE N == Cardinality(Taken)
           s == [n \in 1..N |-> [kind |-> "close", client |-> is[n]]]
<1>2. IsFiniteSet(Taken) /\ N \in Nat
  BY ClientsAreFinite, FS_Subset, FS_CardinalityType DEF Taken
<1>3. N = 0 <=> Taken = {}
  BY <1>2, FS_EmptySet
<1>4. is \in [1..N -> Taken]
  BY DEF SetToSeqs
<1> HIDE DEF N
<1>5. s \in [1..N -> Event]
  BY <1>4 DEF Event, Taken
<1>6. inbox' = inbox \o s
  BY <1>1, <1>4
<1>7. \A n \in 1..N : s[n].kind = "close"
  OBVIOUS
<1> HIDE DEF s
<1>8. s \in Seq(Event) /\ Len(s) = N
  BY <1>2, <1>5
<1> QED BY <1>3, <1>6, <1>7, <1>8

\* A call whose start is settled is made on the connection of the page.
LEMMA SettleMakesCalls ==
  ASSUME IInv, wire \subseteq Call, Settle,
         \/ conn \in Starts
         \/ \A v \in waiting : promise'[v.conn] # "resolved"
  PROVE  wire' \subseteq Call
<1> SUFFICES ASSUME NEW v \in waiting, promise'[v.conn] = "resolved"
             PROVE  [v EXCEPT !.conn = conn] \in Call
  BY DEF Settle
<1> QED BY DEF Call, IInv, Shape

\* The rest of what TypeOK says, and what it rests on.
Rest ==
  /\ proxyClient \in Clients \cup {None}
  /\ wire \subseteq Call
  /\ inbox \in Seq(Event) /\ Len(inbox) <= MaxInbox
  /\ readyState \in [Clients -> {"OPEN", "CLOSED"}]
  /\ socket \in [Clients -> [caller : Starts \cup {None},
                             ReadyState : {"Connecting", "Open", "Closed"}]]
  /\ asked \subseteq Clients
  /\ hub \subseteq Processed
  /\ strays \subseteq Call
  /\ strayed \subseteq Clients
  /\ \A h \in hub : h.at = "registered" => HasSocket(h.call.client)

LEMMA RestIsTypeOK == IInv /\ Rest => TypeOK
  BY DEF IInv, Shape, TypeOK, Rest

\* A socket that is made takes nothing from one that is registered.
LEMMA RegisterKeepsSockets ==
  ASSUME Rest, NEW c \in Call, Register(c)
  PROVE  /\ socket' \in [Clients -> [caller : Starts \cup {None},
                             ReadyState : {"Connecting", "Open", "Closed"}]]
         /\ \A i \in Clients : HasSocket(i) => socket'[i] = socket[i]
         /\ HasSocket(c.client)'
         /\ \A i \in Clients : i # c.client => socket'[i] = socket[i]
         /\ ~HasSocket(c.client) =>
              socket'[c.client] = [caller |-> c.conn,
                                   ReadyState |-> "Connecting"]
  BY NoneIsNoStart DEF Register, HasSocket, Rest, Call

LEMMA HeldStay ==
  ASSUME Rest, hub' \subseteq hub,
         \A i \in Clients : HasSocket(i) => HasSocket(i)'
  PROVE  /\ hub' \subseteq Processed
         /\ \A h \in hub' : h.at = "registered" => HasSocket(h.call.client)'
  BY DEF Rest, Processed, Call

\* Only the socket of one client changes, and stays registered.
LEMMA ReadyStateKeepsSockets ==
  ASSUME Rest, NEW i \in Clients, NEW to \in {"Open", "Closed"},
         socket' = [socket EXCEPT ![i].ReadyState = to]
  PROVE  /\ socket' \in [Clients -> [caller : Starts \cup {None},
                             ReadyState : {"Connecting", "Open", "Closed"}]]
         /\ \A j \in Clients : socket'[j].caller = socket[j].caller
         /\ \A j \in Clients \ {i} : socket'[j] = socket[j]
         /\ socket'[i].ReadyState = to
  BY DEF Rest

LEMMA CallsKeepRest ==
  ASSUME IInv, Rest, NEW i \in Clients, NEW j,
         NEW kind \in Kinds, CallServer(kind, i, j)
  PROVE  wire' \subseteq Call
<1>1. CASE StartFor(kind, i, j)
  BY <1>1 DEF StartFor, Rest
<1>2. CASE JoinStart(kind, i)
  <2>1. conn \in Starts
    BY <1>2 DEF JoinStart, IInv, Shape
  <2>2. [kind |-> kind, client |-> i, conn |-> conn] \in Call
    BY <2>1 DEF Call
  <2> QED BY <1>2, <2>2 DEF JoinStart, Rest
<1> QED BY <1>1, <1>2 DEF CallServer

LEMMA ToCallerKeepsInbox ==
  ASSUME Rest, NEW to, NEW kind \in {"open", "close", "query"},
         NEW i \in Clients, ToCaller(to, kind, i)
  PROVE  inbox' \in Seq(Event) /\ Len(inbox') <= MaxInbox
<1> DEFINE e == [kind |-> kind, client |-> i]
<1>1. e \in Event
  BY DEF Event
<1>2. \/ UNCHANGED inbox
      \/ Len(inbox) < MaxInbox /\ inbox' = Append(inbox, e)
  BY DEF ToCaller
<1> HIDE DEF e
<1> QED BY <1>1, <1>2, BoundsAreNat DEF Rest

\* No call holds a registered socket after a recycle.
LEMMA RecycledCalls ==
  ASSUME Rest, Recycle
  PROVE  /\ hub' \subseteq Processed /\ \A h \in hub' : h.at # "registered"
         /\ \A h \in hub' : h \in hub \/ \E g \in hub :
              /\ h.call.client = g.call.client /\ HasSocket(g.call.client)
              /\ h.call.conn = socket[g.call.client].caller
<1> SUFFICES ASSUME NEW h \in hub'
             PROVE  /\ h \in Processed /\ h.at # "registered"
                    /\ h \in hub \/ \E g \in hub :
                         /\ h.call.client = g.call.client
                         /\ HasSocket(g.call.client)
                         /\ h.call.conn = socket[g.call.client].caller
  OBVIOUS
<1>1. CASE h \in hub /\ h.at # "registered"
  BY <1>1 DEF Rest
<1>2. CASE \E g \in hub :
             /\ g.at = "registered"
             /\ h = [call |-> [g.call EXCEPT
                                 !.conn = socket[g.call.client].caller],
                     at |-> "own"]
  <2>1. PICK g \in hub :
          /\ g.at = "registered"
          /\ h = [call |-> [g.call EXCEPT
                              !.conn = socket[g.call.client].caller],
                  at |-> "own"]
    BY <1>2
  <2>2. g.call \in Call /\ HasSocket(g.call.client)
    BY <2>1 DEF Rest, Processed
  <2>3. socket[g.call.client].caller \in Starts
    BY <2>2 DEF Rest, HasSocket, Call
  <2> DEFINE a == socket[g.call.client].caller
  <2>4. h = [call |-> [g.call EXCEPT !.conn = a], at |-> "own"] /\ a \in Starts
    BY <2>1, <2>3
  <2>5. [g.call EXCEPT !.conn = a] \in Call
        /\ [g.call EXCEPT !.conn = a].client = g.call.client
        /\ [g.call EXCEPT !.conn = a].conn = a
    BY <2>2, <2>4 DEF Call
  <2> QED BY <2>2, <2>4, <2>5 DEF Processed
<1> QED BY <1>1, <1>2 DEF Recycle

LEMMA RestIsKept == IInv /\ Rest /\ [Next]_vars => Rest'
<1> SUFFICES ASSUME IInv, Rest, [Next]_vars PROVE Rest'
  OBVIOUS
<1> USE DEF page, processing, server
<1>1. ASSUME NEW i \in Clients, createNew(i) PROVE Rest'
  BY <1>1, CallsKeepRest DEF createNew, Rest, Kinds, HasSocket
<1>2. ASSUME NEW i \in Clients, send(i) PROVE Rest'
  <2>1. PICK kind \in Kinds : CallServer(kind, i, proxyClient)
    BY <1>2 DEF send, Kinds
  <2> QED BY <1>2, <2>1, CallsKeepRest DEF send, Rest, HasSocket
<1>3. CASE ComesUp
  <2>1. conn \in Starts
    BY <1>3 DEF ComesUp, Link!ComeUp, IInv, Shape
  <2> QED BY <1>3, <2>1, SettleMakesCalls DEF ComesUp, Rest, HasSocket
<1>4. CASE Drops \/ IsRestored
  BY <1>4 DEF Drops, IsRestored, Rest, HasSocket
<1>5. CASE GoesDown
  <2>1. conn \in Starts
    BY <1>5 DEF GoesDown, Link!GoDown, IInv, Shape
  <2>2. inbox' = <<>> /\ UNCHANGED <<proxyClient, readyState, server>>
    BY <1>5 DEF GoesDown
  <2>3. wire' \subseteq Call
    BY <1>5, <2>1, SettleMakesCalls DEF GoesDown, Rest
  <2>4. inbox' \in Seq(Event) /\ Len(inbox') <= MaxInbox
    BY <2>2, BoundsAreNat
  <2> QED BY <2>2, <2>3, <2>4 DEF Rest, HasSocket
<1>6. CASE StartFails
  <2>1. \A v \in waiting : promise'[v.conn] # "resolved"
    BY <1>6 DEF StartFails, Link!Fail, Link!Settled, IInv, Shape, WaitingIsOpen,
       Call
  <2> QED BY <1>6, <2>1, SettleMakesCalls DEF StartFails, Rest, HasSocket
<1>7. ASSUME NEW c \in wire, Ping(c) PROVE Rest'
  <2>1. c \in Call /\ Register(c)
    BY <1>7 DEF Rest, Ping
  <2>2. \A i \in Clients : HasSocket(i) => HasSocket(i)'
    BY <2>1, RegisterKeepsSockets DEF HasSocket
  <2>3. hub' = hub /\ UNCHANGED <<proxyClient, inbox, page, asked, processing>>
        /\ wire' \subseteq wire
    BY <1>7 DEF Ping, Received
  <2> QED BY <2>1, <2>2, <2>3, RegisterKeepsSockets, HeldStay DEF Rest
<1>8. ASSUME NEW c \in wire, GetUserSocketFromDic(c) PROVE Rest'
  <2> DEFINE h == [call |-> c, at |-> IF HasSocket(c.client) THEN "registered"
                                      ELSE "missed"]
  <2>1. h \in Processed /\ hub' = hub \cup {h}
    BY <1>8 DEF GetUserSocketFromDic, Processed, Rest
  <2>2. h.at = "registered" => HasSocket(h.call.client)
    OBVIOUS
  <2>3. /\ wire' \subseteq wire
        /\ UNCHANGED <<inbox, page, socket, asked, strays, strayed>>
    BY <1>8 DEF GetUserSocketFromDic, Received
  <2> HIDE DEF h
  <2> QED BY <2>1, <2>2, <2>3 DEF Rest, HasSocket
<1>9. ASSUME NEW c \in wire, GiveMoneyToHouseOwner(c) \/ LoseCall(c)
      PROVE  Rest'
  BY <1>9 DEF GiveMoneyToHouseOwner, LoseCall, Received, Rest, HasSocket
<1>10. ASSUME NEW i \in Clients, ComponentCloses(i) PROVE Rest'
  <2>1. socket' = [socket EXCEPT ![i].ReadyState = "Closed"]
        /\ ToCaller(socket[i].caller, "close", i)
        /\ UNCHANGED <<wire, page, asked, processing>>
    BY <1>10 DEF ComponentCloses
  <2>2. inbox' \in Seq(Event) /\ Len(inbox') <= MaxInbox
    BY <2>1, ToCallerKeepsInbox
  <2> QED BY <2>1, <2>2, ReadyStateKeepsSockets DEF Rest, HasSocket, Processed,
          Call
<1>11. ASSUME NEW i \in Clients, Query(i) PROVE Rest'
  BY <1>11, ToCallerKeepsInbox DEF Query, Rest, HasSocket
<1>12. CASE Recycle
  <2>1. /\ Len(inbox') <= MaxInbox
        /\ socket' = [i \in Clients |-> NoSocket] /\ asked' = {}
        /\ UNCHANGED <<proxyClient, wire, readyState, strays, strayed>>
    BY <1>12 DEF Recycle
  <2>2. PICK s \in Seq(Event) : inbox' = inbox \o s
    BY <1>12, RecycleTells
  <2>3. inbox' \in Seq(Event)
    BY <2>2 DEF Rest
  <2>4. hub' \subseteq Processed /\ \A h \in hub' : h.at # "registered"
    BY <1>12, RecycledCalls
  <2> QED BY <2>1, <2>3, <2>4 DEF NoSocket, Rest
<1>13. CASE Deliver
  <2>1. /\ inbox # <<>> /\ inbox' = Tail(inbox)
        /\ UNCHANGED <<proxyClient, server>>
    BY <1>13 DEF Deliver
  <2>2. inbox' \in Seq(Event) /\ Len(inbox') <= MaxInbox
    BY <2>1, BoundsAreNat DEF Rest
  <2>3. ASSUME NEW status \in {"OPEN", "CLOSED"},
               setClientSocketDescription(status)
        PROVE  Rest'
    BY <2>1, <2>2, <2>3 DEF setClientSocketDescription, Rest, HasSocket
  <2>4. ASSUME NEW e \in Event, onCheckClientStatus(e)
        PROVE  Rest'
    <3>1. e.client \in Clients
      BY DEF Event
    <3> QED BY <2>1, <2>2, <2>4, <3>1, CallsKeepRest
            DEF onCheckClientStatus, Rest, Kinds, HasSocket
  <2>5. Head(inbox) \in Event
    BY <2>1 DEF Rest
  <2> QED BY <1>13, <2>3, <2>4, <2>5 DEF Deliver
<1>14. CASE UNCHANGED vars
  BY <1>14 DEF vars, Rest, HasSocket
<1>15. ASSUME NEW h \in hub, InitOneCaiNiaoSocket(h) PROVE Rest'
  <2> DEFINE g == [h EXCEPT !.at = IF HasSocket(h.call.client) THEN "own"
                                   ELSE "registered"]
  <2>1. h.call \in Call /\ Register(h.call)
    BY <1>15 DEF Rest, Processed, InitOneCaiNiaoSocket
  <2>2. /\ \A i \in Clients : HasSocket(i) => HasSocket(i)'
        /\ HasSocket(h.call.client)'
    BY <2>1, RegisterKeepsSockets DEF HasSocket
  <2>3. g \in Processed /\ g.call = h.call
    BY DEF Rest, Processed
  <2>4. /\ hub' = (hub \ {h}) \cup {g}
        /\ UNCHANGED <<wire, inbox, page, asked, strays, strayed>>
    BY <1>15 DEF InitOneCaiNiaoSocket
  <2> HIDE DEF g
  <2>5. /\ hub' \subseteq Processed
        /\ \A k \in hub' : k.at = "registered" => HasSocket(k.call.client)'
    BY <2>2, <2>3, <2>4 DEF Rest, Processed, Call
  <2> QED BY <2>1, <2>4, <2>5, RegisterKeepsSockets DEF Rest
<1>16. ASSUME NEW h \in hub, ConnectRegistered(h) PROVE Rest'
  <2>1. h.call.client \in Clients
    BY DEF Rest, Processed, Call
  <2>2. /\ hub' \subseteq hub
        /\ UNCHANGED <<wire, page, asked, strays, strayed>>
        /\ \/ UNCHANGED <<socket, inbox>>
           \/ \E to \in {"Open", "Closed"}, kind \in {"open", "close"} :
                /\ socket' = [socket EXCEPT ![h.call.client].ReadyState = to]
                /\ ToCaller(socket[h.call.client].caller, kind, h.call.client)
    BY <1>16 DEF ConnectRegistered
  <2>3. inbox' \in Seq(Event) /\ Len(inbox') <= MaxInbox
    <3>1. CASE UNCHANGED inbox
      BY <3>1 DEF Rest
    <3>2. ASSUME NEW to, NEW kind \in {"open", "close"},
                 ToCaller(to, kind, h.call.client)
          PROVE  inbox' \in Seq(Event) /\ Len(inbox') <= MaxInbox
      BY <2>1, <3>2, ToCallerKeepsInbox
    <3> QED BY <2>2, <3>1, <3>2
  <2>4. /\ \A i \in Clients : HasSocket(i) => HasSocket(i)'
        /\ socket' \in [Clients -> [caller : Starts \cup {None},
                             ReadyState : {"Connecting", "Open", "Closed"}]]
    BY <2>1, <2>2, ReadyStateKeepsSockets DEF HasSocket, Rest
  <2> QED BY <2>2, <2>3, <2>4, HeldStay DEF Rest
<1>17. ASSUME NEW h \in hub, ConnectOwn(h) PROVE Rest'
  <2>1. h.call \in Call /\ h.call.client \in Clients
    BY DEF Rest, Processed, Call
  <2>2. /\ hub' \subseteq hub /\ strays' \subseteq strays \cup {h.call}
        /\ strayed' = strayed \cup {h.call.client}
        /\ UNCHANGED <<wire, page, socket, asked>>
        /\ \E kind \in {"open", "close"} :
             ToCaller(h.call.conn, kind, h.call.client)
    BY <1>17 DEF ConnectOwn
  <2>3. inbox' \in Seq(Event) /\ Len(inbox') <= MaxInbox
    BY <2>1, <2>2, ToCallerKeepsInbox
  <2>4. \A i \in Clients : HasSocket(i) => HasSocket(i)'
    BY <2>2 DEF HasSocket
  <2> QED BY <2>1, <2>2, <2>3, <2>4, HeldStay DEF Rest
<1>18. ASSUME NEW c \in strays, StrayCloses(c) PROVE Rest'
  <2>1. c.client \in Clients
    BY DEF Rest, Call
  <2>2. inbox' \in Seq(Event) /\ Len(inbox') <= MaxInbox
    BY <1>18, <2>1, ToCallerKeepsInbox DEF StrayCloses
  <2> QED BY <1>18, <2>2 DEF StrayCloses, Rest, HasSocket
<1> QED BY <1>1, <1>2, <1>3, <1>4, <1>5, <1>6, <1>7, <1>8, <1>9, <1>10,
        <1>11, <1>12, <1>13, <1>14, <1>15, <1>16, <1>17, <1>18
        DEF Next, HubCall, ProcessClientMessage

LEMMA InitIsTyped == Init => Rest
<1>1. <<>> \in Seq(Event) /\ Len(<<>>) <= MaxInbox
  BY BoundsAreNat
<1> QED BY <1>1 DEF Init, Rest, NoSocket

LEMMA RestInvariance == Spec => []Rest
  BY InitIsTyped, RestIsKept, Invariance, PTL DEF Spec

-----------------------------------------------------------------------------
(* A page with one object and one connection *)

Sound ==
  /\ \A j \in Clients :
       socket[j].caller = None => socket[j].ReadyState = "Closed"
  /\ conn # None => promise[conn] # "unused"
  /\ state = "connecting" => promise[conn] # "resolved"
  /\ \A c \in strays : c.client \in strayed

Solo(i) ==
  created \subseteq {i} /\ \A a \in Starts : promise[a] # "unused" => a = conn

\* What the page is told last, or has been told if nothing is under way.
Tells(i, kind) ==
  \/ \E n \in 1..Len(inbox) :
       /\ inbox[n].kind = kind
       /\ \A m \in n+1..Len(inbox) : inbox[m].kind = "query"
  \/ /\ \A n \in 1..Len(inbox) : inbox[n].kind = "query"
     /\ readyState[i] = IF kind = "open" THEN "OPEN" ELSE "CLOSED"

\* That is true of its sockets.
Describes(i) ==
  \/ Tells(i, "open") /\ SocketOpen(i)
  \/ Tells(i, "close") /\ (i \in strayed \/ socket[i].ReadyState # "Open")

\* Until the connection has come up nobody has heard of a socket.
Fresh(i) ==
  /\ wire = {} /\ inbox = <<>> /\ hub = {} /\ strays = {}
  /\ socket[i] = NoSocket /\ readyState[i] = "CLOSED"

Own(i) ==
  /\ Listeners \subseteq {i} /\ (created # {} => proxyClient = i)
  /\ \A c \in waiting \cup wire : c.client = i /\ c.conn = conn
  /\ \A h \in hub : h.call.client = i /\ h.call.conn = conn
  /\ \A c \in strays : c.client = i /\ c.conn = conn
  /\ \A j \in Clients \ {i} : socket[j] = NoSocket
  /\ socket[i].caller \in {None, conn}
  /\ conn = None \/ state = "connecting" => Fresh(i)
  /\ Link!Up => Describes(i)

OwnIfSolo == \A i \in Clients : Solo(i) => Own(i)

LEMMA NewsIsLast ==
  ASSUME Rest, NEW i \in Clients, NEW e \in Event,
         inbox' = Append(inbox, e)
  PROVE  Tells(i, e.kind)'
<1>1. /\ Len(inbox') = Len(inbox) + 1 /\ Len(inbox) \in Nat
      /\ inbox'[Len(inbox) + 1] = e
  BY DEF Rest
<1> QED BY <1>1 DEF Tells

LEMMA QueryComesAfter ==
  ASSUME Rest, NEW i \in Clients, NEW e \in Event, NEW kind,
         Tells(i, kind), inbox' = Append(inbox, e), e.kind = "query",
         UNCHANGED readyState
  PROVE  Tells(i, kind)'
<1>1. /\ Len(inbox') = Len(inbox) + 1 /\ Len(inbox) \in Nat
      /\ inbox'[Len(inbox) + 1] = e
      /\ \A n \in 1..Len(inbox) : inbox'[n] = inbox[n]
  BY DEF Rest
<1>2. CASE \E n \in 1..Len(inbox) :
             /\ inbox[n].kind = kind
             /\ \A m \in n+1..Len(inbox) : inbox[m].kind = "query"
  <2>1. PICK n \in 1..Len(inbox) :
          /\ inbox[n].kind = kind
          /\ \A m \in n+1..Len(inbox) : inbox[m].kind = "query"
    BY <1>2
  <2>2. \A m \in n+1..Len(inbox') : inbox'[m].kind = "query"
    <3> SUFFICES ASSUME NEW m \in n+1..Len(inbox')
                 PROVE  inbox'[m].kind = "query"
      OBVIOUS
    <3>1. CASE m \in n+1..Len(inbox)
      BY <1>1, <2>1, <3>1
    <3>2. CASE m = Len(inbox) + 1
      BY <1>1, <3>2
    <3> QED BY <1>1, <3>1, <3>2
  <2>3. n \in 1..Len(inbox') /\ inbox'[n].kind = kind
    BY <1>1, <2>1
  <2> QED BY <2>2, <2>3 DEF Tells
<1>3. CASE /\ \A n \in 1..Len(inbox) : inbox[n].kind = "query"
           /\ readyState[i] = IF kind = "open" THEN "OPEN" ELSE "CLOSED"
  <2>1. \A n \in 1..Len(inbox') : inbox'[n].kind = "query"
    <3> SUFFICES ASSUME NEW n \in 1..Len(inbox')
                 PROVE  inbox'[n].kind = "query"
      OBVIOUS
    <3>1. CASE n \in 1..Len(inbox)
      BY <1>1, <1>3, <3>1
    <3>2. CASE n = Len(inbox) + 1
      BY <1>1, <3>2
    <3> QED BY <1>1, <3>1, <3>2
  <2> QED BY <1>3, <2>1 DEF Tells
<1> QED BY <1>2, <1>3 DEF Tells

LEMMA RecycleIsNews ==
  ASSUME Rest, Sound, NEW i \in Clients, Describes(i), Recycle,
         Link!Up, socket[i].caller \in {None, conn}
  PROVE  Describes(i)'
<1>1. PICK s \in Seq(Event) :
        /\ inbox' = inbox \o s
        /\ \A n \in 1..Len(s) : s[n].kind = "close"
        /\ Len(s) = 0 <=> Taken = {}
  BY RecycleTells
<1>2. /\ Len(inbox') = Len(inbox) + Len(s)
      /\ Len(inbox) \in Nat /\ Len(s) \in Nat
      /\ \A n \in 1..Len(inbox) : inbox'[n] = inbox[n]
      /\ \A n \in 1..Len(s) : inbox'[Len(inbox) + n] = s[n]
  BY <1>1 DEF Rest
<1>3. /\ socket'[i].ReadyState = "Closed"
      /\ UNCHANGED <<readyState, strays, strayed>>
  BY DEF Recycle, NoSocket, page
<1>4. CASE Len(s) # 0
  <2>1. /\ Len(inbox') \in 1..Len(inbox')
        /\ inbox'[Len(inbox')].kind = "close"
    BY <1>1, <1>2, <1>4
  <2>2. \A m \in Len(inbox')+1..Len(inbox') : inbox'[m].kind = "query"
    BY <1>2
  <2> QED BY <1>3, <2>1, <2>2 DEF Describes, Tells
<1>5. CASE Len(s) = 0
  <2>1. socket[i].ReadyState # "Open"
    BY <1>1, <1>5 DEF Taken, HasSocket, Sound
  <2>2. Len(inbox') = Len(inbox)
        /\ \A n \in 1..Len(inbox) : inbox'[n] = inbox[n]
    BY <1>2, <1>5
  <2>3. \A kind : Tells(i, kind) => Tells(i, kind)'
    BY <1>3, <2>2 DEF Tells
  <2>4. SocketOpen(i) => SocketOpen(i)'
    BY <1>3, <2>1 DEF SocketOpen
  <2> QED BY <1>3, <2>3, <2>4 DEF Describes
<1> QED BY <1>4, <1>5

\* An event that is handled tells the object what is under way no longer.
LEMMA DeliveredIsKnown ==
  ASSUME Rest, NEW i \in Clients, NEW news \in {"open", "close"},
         Tells(i, news), inbox # <<>>, inbox' = Tail(inbox),
         LET kind == Head(inbox).kind
         IN  readyState'[i] = CASE kind = "open" -> "OPEN"
                                [] kind = "close" -> "CLOSED"
                                [] kind = "query" -> readyState[i]
  PROVE  Tells(i, news)'
<1>1. /\ Len(inbox) \in Nat /\ Len(inbox) > 0
      /\ Len(inbox') = Len(inbox) - 1
      /\ \A n \in 1..Len(inbox') : inbox'[n] = inbox[n+1]
      /\ Head(inbox) = inbox[1] /\ inbox[1] \in Event
  BY DEF Rest
<1>2. inbox[1].kind \in {"open", "close", "query"}
  BY <1>1 DEF Event
<1>3. CASE \E n \in 1..Len(inbox) :
             /\ inbox[n].kind = news
             /\ \A m \in n+1..Len(inbox) : inbox[m].kind = "query"
  <2>1. PICK n \in 1..Len(inbox) :
          /\ inbox[n].kind = news
          /\ \A m \in n+1..Len(inbox) : inbox[m].kind = "query"
    BY <1>3
  <2>2. CASE n = 1
    <3>1. \A m \in 1..Len(inbox') : inbox'[m].kind = "query"
      BY <1>1, <2>1, <2>2
    <3>2. readyState'[i] = IF news = "open" THEN "OPEN" ELSE "CLOSED"
      BY <1>1, <2>1, <2>2
    <3> QED BY <3>1, <3>2 DEF Tells
  <2>3. CASE n # 1
    <3>1. n - 1 \in 1..Len(inbox') /\ inbox'[n-1].kind = news
      BY <1>1, <2>1, <2>3
    <3>2. \A m \in (n-1)+1..Len(inbox') : inbox'[m].kind = "query"
      BY <1>1, <2>1, <2>3
    <3> QED BY <3>1, <3>2 DEF Tells
  <2> QED BY <2>2, <2>3
<1>4. CASE /\ \A n \in 1..Len(inbox) : inbox[n].kind = "query"
           /\ readyState[i] = IF news = "open" THEN "OPEN" ELSE "CLOSED"
  <2>1. \A n \in 1..Len(inbox') : inbox'[n].kind = "query"
    BY <1>1, <1>4
  <2>2. readyState'[i] = readyState[i]
    BY <1>1, <1>4
  <2> QED BY <1>4, <2>1, <2>2 DEF Tells
<1> QED BY <1>3, <1>4 DEF Tells

LEMMA ToCallerSends ==
  ASSUME NEW to, NEW kind, NEW i, ToCaller(to, kind, i)
  PROVE  /\ to = conn /\ Link!Up =>
              inbox' = Append(inbox, [kind |-> kind, client |-> i])
         /\ ~Link!Up => inbox' = inbox
  BY DEF ToCaller

\* What a call of the page does to the connection.
LEMMA CallsAreSound ==
  ASSUME IInv, Rest, Sound, NEW i \in Clients, NEW j, NEW kind,
         CallServer(kind, i, j), UNCHANGED <<socket, strays, strayed>>
  PROVE  Sound'
<1>1. CASE StartFor(kind, i, j)
  <2>1. PICK a \in Starts : Link!Open(a) /\ conn' = a
    BY <1>1 DEF StartFor
  <2>2. promise'[a] = "pending"
    BY <2>1 DEF Link!Open, Link!Settled
  <2> QED BY <2>1, <2>2 DEF Sound
<1>2. CASE JoinStart(kind, i)
  BY <1>2 DEF JoinStart, Sound
<1> QED BY <1>1, <1>2 DEF CallServer

LEMMA SoundIsKept == IInv /\ Rest /\ Sound /\ [Next]_vars => Sound'
<1> SUFFICES ASSUME IInv, Rest, Sound, [Next]_vars PROVE Sound'
  OBVIOUS
<1> USE DEF page, processing, server
<1>0. promise \in [Starts -> {"unused", "pending", "resolved", "rejected"}]
      /\ conn \in Starts \cup {None}
  BY DEF IInv, Shape, Link!LinkTypeOK
<1>1. ASSUME NEW i \in Clients, createNew(i) \/ send(i) PROVE Sound'
  BY <1>1, CallsAreSound DEF createNew, send
<1>2. CASE ComesUp \/ GoesDown
  <2>1. /\ UNCHANGED <<conn, server>> /\ state' # "connecting"
        /\ conn # None
    BY <1>2 DEF ComesUp, GoesDown, Link!ComeUp, Link!GoDown, IInv, Shape
  <2>2. promise'[conn] # "unused"
    BY <1>0, <1>2, <2>1 DEF ComesUp, GoesDown, Link!ComeUp, Link!GoDown,
       Link!Settled, Sound
  <2> QED BY <2>1, <2>2 DEF Sound
<1>3. CASE Drops \/ IsRestored
  BY <1>3 DEF Drops, IsRestored, Link!Change, Sound
<1>4. CASE StartFails
  <2>1. PICK a \in Starts : promise' = Link!Settled({a}, "rejected")
    BY <1>4 DEF StartFails, Link!Fail, Link!Pending
  <2>2. /\ conn # None => promise'[conn] # "unused"
        /\ state = "connecting" => promise'[conn] # "resolved"
    BY <1>0, <2>1 DEF Link!Settled, Sound, IInv, Shape
  <2> QED BY <1>4, <2>2 DEF StartFails, Link!Fail, Sound
<1>5. ASSUME NEW c \in Call, Register(c),
             UNCHANGED <<state, promise, conn, strays, strayed>>
      PROVE  Sound'
  BY <1>5, NoneIsNoStart DEF Register, HasSocket, Sound, Rest, Call
<1>6. ASSUME NEW c \in wire, Ping(c) \/ GetUserSocketFromDic(c)
      PROVE  Sound'
  <2>1. c \in Call
    BY DEF Rest
  <2> QED BY <1>5, <1>6, <2>1 DEF Ping, GetUserSocketFromDic, Sound
<1>7. ASSUME NEW c \in wire, GiveMoneyToHouseOwner(c) \/ LoseCall(c)
      PROVE  Sound'
  BY <1>7 DEF GiveMoneyToHouseOwner, LoseCall, Sound
<1>8. ASSUME NEW i \in Clients, ComponentCloses(i) PROVE Sound'
  BY <1>8, NoneIsNoStart DEF ComponentCloses, Sound, Rest
<1>9. ASSUME NEW i \in Clients, Query(i) PROVE Sound'
  BY <1>9 DEF Query, Sound
<1>10. CASE Recycle
  BY <1>10 DEF Recycle, NoSocket, Sound
<1>11. CASE Deliver
  <2>1. UNCHANGED <<socket, strays, strayed>>
    BY <1>11 DEF Deliver
  <2>2. CASE UNCHANGED <<state, promise, conn>>
    BY <2>1, <2>2 DEF Sound
  <2>3. ASSUME NEW i \in Listeners, CallServer("answer", i, proxyClient)
        PROVE  Sound'
    <3>1. i \in Clients
      BY DEF Listeners, IInv, Shape
    <3> QED BY <2>1, <2>3, <3>1, CallsAreSound
  <2> QED BY <1>11, <2>2, <2>3 DEF Deliver, onCheckClientStatus,
             setClientSocketDescription
<1>12. CASE UNCHANGED vars
  BY <1>12 DEF vars, Sound
<1>13. ASSUME NEW h \in hub, InitOneCaiNiaoSocket(h) PROVE Sound'
  <2>1. h.call \in Call
    BY DEF Rest, Processed
  <2> QED BY <1>5, <1>13, <2>1 DEF InitOneCaiNiaoSocket
<1>14. ASSUME NEW h \in hub, ConnectRegistered(h) PROVE Sound'
  <2>1. h.call.client \in Clients /\ socket[h.call.client].caller # None
    BY <1>14 DEF ConnectRegistered, Rest, Processed, Call, HasSocket
  <2>2. /\ UNCHANGED <<state, promise, conn, strays, strayed>>
        /\ \/ UNCHANGED socket
           \/ \E to \in {"Open", "Closed"} :
                socket' = [socket EXCEPT ![h.call.client].ReadyState = to]
    BY <1>14 DEF ConnectRegistered
  <2> QED BY <2>1, <2>2 DEF Sound, Rest
<1>15. ASSUME NEW h \in hub, ConnectOwn(h) PROVE Sound'
  BY <1>15 DEF ConnectOwn, Sound
<1>16. ASSUME NEW c \in strays, StrayCloses(c) PROVE Sound'
  BY <1>16 DEF StrayCloses, Sound
<1> QED BY <1>1, <1>2, <1>3, <1>4, <1>6, <1>7, <1>8, <1>9, <1>10, <1>11,
        <1>12, <1>13, <1>14, <1>15, <1>16
        DEF Next, HubCall, ProcessClientMessage

\* A page that starts for the first time has not been heard of.
LEMMA FirstStart ==
  ASSUME IInv, Sound, OwnIfSolo, NEW i \in Clients, Solo(i)',
         created \subseteq created', NEW j, NEW k, NEW kind,
         StartFor(kind, j, k)
  PROVE  Solo(i) /\ Own(i) /\ conn = None /\ Fresh(i) /\ waiting = {}
<1>1. PICK a \in Starts : Link!Open(a) /\ conn' = a
  BY DEF StartFor
<1>2. /\ promise[a] = "unused"
      /\ \A b \in Starts \ {a} : promise'[b] = promise[b]
  BY <1>1 DEF Link!Open, Link!Settled
<1>3. \A b \in Starts : promise[b] = "unused"
  BY <1>1, <1>2 DEF Solo
<1>4. conn = None
  BY <1>3 DEF Sound, IInv, Shape
<1>5. Solo(i)
  BY <1>3 DEF Solo
<1>6. Own(i)
  BY <1>5 DEF OwnIfSolo
<1>7. waiting = {}
  BY <1>4, <1>6, NoneIsNoStart DEF Own, IInv, Shape, Call
<1> QED BY <1>4, <1>5, <1>6, <1>7 DEF Own

LEMMA StartIsOwn ==
  ASSUME IInv, Rest, Sound, OwnIfSolo, NEW i \in Clients, Solo(i)',
         created \subseteq created', NEW kind,
         StartFor(kind, i, i), proxyClient' = i,
         UNCHANGED <<inbox, readyState, server>>
  PROVE  Own(i)'
<1> USE DEF processing, server
<1>1. conn = None /\ Fresh(i) /\ waiting = {} /\ Own(i)
  BY FirstStart
<1>2. PICK a \in Starts :
        /\ Link!Open(a) /\ conn' = a
        /\ waiting' = waiting \cup {[kind |-> kind, client |-> i, conn |-> a]}
  BY DEF StartFor
<1>3. wire' = wire /\ state' = "connecting" /\ state = "disconnected"
  BY <1>2 DEF StartFor, Link!Open
<1>4. Listeners' \subseteq {i}
  <2>1. bound = <<>>
    BY <1>3 DEF IInv, OneHandler
  <2>2. bound' = <<i>>
    BY <2>1 DEF StartFor
  <2> QED BY <2>2 DEF Listeners
<1>5. \A c \in waiting' \cup wire' : c.client = i /\ c.conn = conn'
  BY <1>1, <1>2, <1>3 DEF Fresh
<1>6. Fresh(i)' /\ ~Link!Up'
  BY <1>1, <1>3 DEF Fresh, Link!Up
<1>7. \A j \in Clients \ {i} : socket'[j] = NoSocket
  BY <1>1 DEF Own
<1>8. socket'[i].caller \in {None, conn'}
  BY <1>1 DEF Own
<1>9. hub' = {} /\ strays' = {}
  BY <1>6 DEF Fresh
<1> QED BY <1>4, <1>5, <1>6, <1>7, <1>8, <1>9 DEF Own

LEMMA JoinIsOwn ==
  ASSUME IInv, Rest, Sound, NEW i \in Clients, Own(i), NEW kind,
         JoinStart(kind, i)
  PROVE  /\ \A c \in waiting' \cup wire' : c.client = i /\ c.conn = conn
         /\ conn # None /\ (state = "connecting" => wire' = wire)
         /\ UNCHANGED <<state, promise, conn, bound>>
<1> DEFINE d == [kind |-> kind, client |-> i, conn |-> conn]
<1>1. d.client = i /\ d.conn = conn
  OBVIOUS
<1>2. waiting' \subseteq waiting \cup {d} /\ wire' \subseteq wire \cup {d}
  BY DEF JoinStart
<1>3. conn # None /\ UNCHANGED <<state, promise, conn, bound>>
  BY DEF JoinStart, IInv, Shape
<1>4. state = "connecting" => wire' = wire
  BY DEF JoinStart, Sound
<1> HIDE DEF d
<1> QED BY <1>1, <1>2, <1>3, <1>4 DEF Own

\* Only a start that is the first leads to a page with one connection from
\* one that has none.
LEMMA SoloBefore ==
  ASSUME IInv, Rest, Sound, OwnIfSolo, [Next]_vars, NEW i \in Clients, Solo(i)'
  PROVE  Solo(i)
<1> USE DEF page, processing, server
<1>0. promise \in [Starts -> {"unused", "pending", "resolved", "rejected"}]
  BY DEF IInv, Shape, Link!LinkTypeOK
<1>1. ASSUME NEW j \in Clients, NEW k, NEW kind, CallServer(kind, j, k),
             created \subseteq created'
      PROVE  Solo(i)
  BY <1>1, FirstStart DEF CallServer, JoinStart, Solo
<1>2. ASSUME NEW j \in Clients, createNew(j) \/ send(j) PROVE Solo(i)
  BY <1>1, <1>2 DEF createNew, send
<1>3. ASSUME UNCHANGED <<conn, created>>,
             \A a \in Starts : promise[a] # "unused" => promise'[a] # "unused"
      PROVE  Solo(i)
  BY <1>3 DEF Solo
<1>4. CASE ComesUp \/ GoesDown \/ StartFails
  <2>1. UNCHANGED <<conn, created>>
    BY <1>4 DEF ComesUp, GoesDown, StartFails
  <2>2. \A a \in Starts : promise[a] # "unused" => promise'[a] # "unused"
    BY <1>0, <1>4 DEF ComesUp, GoesDown, StartFails, Link!ComeUp, Link!GoDown,
       Link!Fail, Link!Settled
  <2> QED BY <1>3, <2>1, <2>2
<1>5. CASE UNCHANGED <<promise, conn, created>>
  BY <1>3, <1>5
<1>6. CASE Deliver
  <2>1. UNCHANGED created
    BY <1>6 DEF Deliver
  <2>2. ASSUME NEW j \in Listeners, CallServer("answer", j, proxyClient)
        PROVE  Solo(i)
    <3>1. j \in Clients
      BY DEF Listeners, IInv, Shape
    <3> QED BY <1>1, <2>1, <2>2, <3>1
  <2> QED BY <1>5, <1>6, <2>1, <2>2 DEF Deliver, onCheckClientStatus,
             setClientSocketDescription
<1>7. CASE Drops \/ IsRestored \/ Recycle \/ UNCHANGED vars
  BY <1>5, <1>7 DEF Drops, IsRestored, Link!Change, Recycle, vars
<1>8. ASSUME NEW c \in wire, HubCall(c) \/ LoseCall(c) PROVE Solo(i)
  BY <1>5, <1>8 DEF HubCall, Ping, GetUserSocketFromDic,
     GiveMoneyToHouseOwner, LoseCall
<1>9. ASSUME NEW j \in Clients, ComponentCloses(j) \/ Query(j) PROVE Solo(i)
  BY <1>5, <1>9 DEF ComponentCloses, Query
<1>10. ASSUME NEW h \in hub, ProcessClientMessage(h) PROVE Solo(i)
  BY <1>5, <1>10 DEF ProcessClientMessage, InitOneCaiNiaoSocket,
     ConnectRegistered, ConnectOwn
<1>11. ASSUME NEW c \in strays, StrayCloses(c) PROVE Solo(i)
  BY <1>5, <1>11 DEF StrayCloses
<1> QED BY <1>2, <1>4, <1>6, <1>7, <1>8, <1>9, <1>10, <1>11 DEF Next

LEMMA CreateIsOwn ==
  ASSUME IInv, Rest, Sound, OwnIfSolo, NEW i \in Clients, Own(i), Solo(i)',
         NEW j \in Clients, createNew(j) \/ send(j)
  PROVE  Own(i)'
<1> USE DEF page, processing, server
<1>1. j = i /\ created \subseteq created'
  BY DEF createNew, send, Solo
<1>2. /\ proxyClient' = i /\ UNCHANGED <<inbox, readyState, server>>
      /\ \E kind \in Kinds : CallServer(kind, i, i)
  <2>1. CASE createNew(i)
    BY <2>1 DEF createNew, Kinds
  <2>2. CASE send(i)
    <3>1. proxyClient = i
      BY <2>2 DEF send, Own
    <3> QED BY <2>2, <3>1 DEF send, Kinds
  <2> QED BY <1>1, <2>1, <2>2
<1>3. PICK kind \in Kinds : CallServer(kind, i, i)
  BY <1>2
<1>4. CASE StartFor(kind, i, i)
  BY <1>1, <1>2, <1>4, StartIsOwn
<1>5. CASE JoinStart(kind, i)
  <2>1. /\ \A c \in waiting' \cup wire' : c.client = i /\ c.conn = conn
        /\ conn # None /\ (state = "connecting" => wire' = wire)
        /\ UNCHANGED <<state, promise, conn, bound>>
    BY <1>5, JoinIsOwn
  <2>2. Describes(i) => Describes(i)'
    BY <1>2 DEF Describes, Tells, SocketOpen
  <2>3. Listeners' = Listeners
    BY <2>1 DEF Listeners
  <2>4. state = "connecting" /\ Fresh(i) => Fresh(i)'
    BY <1>2, <2>1 DEF Fresh
  <2> QED BY <1>2, <2>1, <2>2, <2>3, <2>4 DEF Own, Link!Up
<1> QED BY <1>3, <1>4, <1>5 DEF CallServer

\* The calls that a settled start has been waited on with are the object's.
LEMMA SettleIsOwn ==
  ASSUME IInv, Rest, NEW i \in Clients, Own(i), Settle
  PROVE  /\ \A c \in waiting' \cup wire' : c.client = i /\ c.conn = conn
         /\ (\A v \in waiting : promise'[v.conn] # "resolved") => wire' = wire
<1>1. ASSUME NEW v \in waiting
      PROVE  /\ [v EXCEPT !.conn = conn].client = i
             /\ [v EXCEPT !.conn = conn].conn = conn
  BY DEF Own, IInv, Shape, Call
<1> QED BY <1>1 DEF Settle, Own

LEMMA LinkIsOwn ==
  ASSUME IInv, Rest, Sound, NEW i \in Clients, Own(i),
         ComesUp \/ Drops \/ IsRestored \/ GoesDown \/ StartFails
  PROVE  Own(i)'
<1> USE DEF page, processing, server
<1>1. CASE ComesUp
  <2>1. /\ state = "connecting" /\ state' # "connecting"
        /\ UNCHANGED <<conn, bound, inbox, page, server>> /\ Settle
        /\ conn # None
    BY <1>1 DEF ComesUp, Link!ComeUp, IInv, Shape
  <2>2. Fresh(i)
    BY <2>1 DEF Own
  <2>3. Describes(i)'
    <3>1. inbox' = <<>> /\ readyState'[i] = "CLOSED"
          /\ socket'[i].ReadyState = "Closed"
      BY <2>1, <2>2 DEF Fresh, NoSocket
    <3> QED BY <2>1, <3>1 DEF Describes, Tells
  <2> QED BY <2>1, <2>2, <2>3, SettleIsOwn DEF Own, Listeners
<1>2. CASE Drops \/ IsRestored
  BY <1>2 DEF Drops, IsRestored, Link!Change, Own, Fresh, Describes, Tells,
     SocketOpen, Listeners, Link!Up
<1>3. CASE GoesDown
  <2>1. /\ state # "disconnected" /\ state' = "disconnected"
        /\ bound' = Front(bound) /\ Settle
        /\ UNCHANGED <<conn, page, server>> /\ conn # None
    BY <1>3 DEF GoesDown, Link!GoDown, IInv, Shape
  <2>2. bound' = <<>>
    BY <2>1, FrontIsEmpty DEF IInv, Shape, OneHandler
  <2>3. Listeners' \subseteq {i}
    BY <2>2 DEF Listeners
  <2> QED BY <2>1, <2>3, SettleIsOwn DEF Own, Link!Up
<1>4. CASE StartFails
  <2>1. /\ UNCHANGED <<state, conn, bound, inbox, page, server>> /\ Settle
    BY <1>4 DEF StartFails, Link!Fail
  <2>2. \A v \in waiting : promise'[v.conn] # "resolved"
    BY <1>4 DEF StartFails, Link!Fail, Link!Settled, IInv, Shape, WaitingIsOpen,
       Call
  <2>3. wire' = wire
    BY <2>1, <2>2, SettleIsOwn
  <2>4. \A c \in waiting' \cup wire' : c.client = i /\ c.conn = conn'
    BY <2>1, SettleIsOwn
  <2>5. Fresh(i)' <=> Fresh(i)
    BY <2>1, <2>3 DEF Fresh
  <2>6. Describes(i)' <=> Describes(i)
    BY <2>1 DEF Describes, Tells, SocketOpen
  <2>7. Listeners' = Listeners
    BY <2>1 DEF Listeners
  <2> QED BY <2>1, <2>4, <2>5, <2>6, <2>7 DEF Own, Link!Up
<1> QED BY <1>1, <1>2, <1>3, <1>4

\* A socket that is registered is made by a call of the object, and not open.
LEMMA RegisterIsOwn ==
  ASSUME IInv, Rest, Sound, NEW i \in Clients, Own(i), NEW c \in Call,
         c.client = i, c.conn = conn, Register(c),
         UNCHANGED <<inbox, readyState, strays, strayed>>
  PROVE  /\ \A j \in Clients \ {i} : socket'[j] = NoSocket
         /\ socket'[i].caller \in {None, conn}
         /\ Describes(i) => Describes(i)'
<1>1. CASE HasSocket(i)
  <2>1. socket' = socket
    BY <1>1 DEF Register
  <2> QED BY <2>1 DEF Own, Describes, Tells, SocketOpen
<1>2. CASE ~HasSocket(i)
  <2>1. socket[i].ReadyState # "Open"
    BY <1>2 DEF HasSocket, Sound
  <2>2. socket' = [socket EXCEPT ![i] = [caller |-> conn,
                                         ReadyState |-> "Connecting"]]
    BY <1>2 DEF Register
  <2>3. /\ \A j \in Clients \ {i} : socket'[j] = socket[j]
        /\ socket'[i].caller = conn /\ socket'[i].ReadyState = "Connecting"
    BY <2>2 DEF Rest
  <2> QED BY <2>1, <2>3 DEF Own, Describes, Tells, SocketOpen
<1> QED BY <1>1, <1>2

LEMMA HubIsOwn ==
  ASSUME IInv, Rest, Sound, NEW i \in Clients, Own(i),
         NEW c \in wire, HubCall(c) \/ LoseCall(c)
  PROVE  Own(i)'
<1> USE DEF page, processing, server
<1>1. /\ wire' = wire \ {c}
      /\ UNCHANGED <<state, promise, conn, bound, waiting, inbox, page, strays,
                     strayed>>
  BY DEF HubCall, Ping, GetUserSocketFromDic, GiveMoneyToHouseOwner, LoseCall,
     Received
<1>2. /\ c \in Call /\ c.client = i /\ c.conn = conn /\ c.conn \in Starts
      /\ conn # None /\ state # "connecting"
  BY NoneIsNoStart DEF Own, Fresh, Rest, Call
<1>3. /\ Listeners' \subseteq {i} /\ (created' # {} => proxyClient' = i)
      /\ \A d \in waiting' \cup wire' : d.client = i /\ d.conn = conn'
      /\ \A d \in strays' : d.client = i /\ d.conn = conn'
  BY <1>1 DEF Own, Listeners
<1>4. \A h \in hub' : h.call.client = i /\ h.call.conn = conn
  BY <1>2 DEF HubCall, Ping, GetUserSocketFromDic, GiveMoneyToHouseOwner,
     LoseCall, Own
<1>5. /\ \A j \in Clients \ {i} : socket'[j] = NoSocket
      /\ socket'[i].caller \in {None, conn}
      /\ Describes(i) => Describes(i)'
  <2>1. CASE UNCHANGED socket
    BY <1>1, <2>1 DEF Own, Describes, Tells, SocketOpen
  <2>2. CASE Ping(c)
    BY <1>1, <1>2, <2>2, RegisterIsOwn DEF Ping
  <2> QED BY <2>1, <2>2 DEF HubCall, GetUserSocketFromDic,
          GiveMoneyToHouseOwner, LoseCall
<1> QED BY <1>1, <1>2, <1>3, <1>4, <1>5 DEF Own, Link!Up

LEMMA ProcessIsOwn ==
  ASSUME IInv, Rest, Sound, NEW i \in Clients, Own(i),
         NEW h \in hub, ProcessClientMessage(h)
  PROVE  Own(i)'
<1> USE DEF page, processing, server
<1>1. UNCHANGED <<state, promise, conn, bound, waiting, wire, page>>
  BY DEF ProcessClientMessage, InitOneCaiNiaoSocket, ConnectRegistered,
     ConnectOwn
<1>2. /\ h \in Processed /\ h.call \in Call
      /\ h.call.client = i /\ h.call.conn = conn /\ conn \in Starts
      /\ conn # None /\ state # "connecting"
  BY NoneIsNoStart DEF Own, Fresh, Rest, Processed, Call
<1>3. /\ Listeners' \subseteq {i} /\ (created' # {} => proxyClient' = i)
      /\ \A d \in waiting' \cup wire' : d.client = i /\ d.conn = conn'
  BY <1>1 DEF Own, Listeners
<1>4. /\ \A g \in hub' : g.call.client = i /\ g.call.conn = conn
      /\ \A d \in strays' : d.client = i /\ d.conn = conn
  <2>1. CASE InitOneCaiNiaoSocket(h)
    <3> DEFINE g == [h EXCEPT !.at = IF HasSocket(h.call.client) THEN "own"
                                     ELSE "registered"]
    <3>1. g.call = h.call
      BY <1>2 DEF Processed
    <3>2. hub' = (hub \ {h}) \cup {g} /\ strays' = strays
      BY <2>1 DEF InitOneCaiNiaoSocket
    <3> HIDE DEF g
    <3> QED BY <1>2, <3>1, <3>2 DEF Own
  <2>2. CASE ConnectRegistered(h) \/ ConnectOwn(h)
    BY <1>2, <2>2 DEF ConnectRegistered, ConnectOwn, Own
  <2> QED BY <2>1, <2>2 DEF ProcessClientMessage
<1>5. SUFFICES /\ \A j \in Clients \ {i} : socket'[j] = NoSocket
               /\ socket'[i].caller \in {None, conn}
               /\ Link!Up => Describes(i)'
  BY <1>1, <1>2, <1>3, <1>4 DEF Own, Link!Up
<1>6. CASE InitOneCaiNiaoSocket(h)
  BY <1>1, <1>2, <1>6, RegisterIsOwn DEF InitOneCaiNiaoSocket, Own
<1>7. CASE ConnectRegistered(h) /\ UNCHANGED <<socket, inbox>>
  BY <1>1, <1>7 DEF ConnectRegistered, Own, Describes, Tells, SocketOpen
<1>8. CASE ConnectRegistered(h) /\ ~UNCHANGED <<socket, inbox>>
  <2>1. socket[i].caller = conn
    BY <1>2, <1>8 DEF ConnectRegistered, Rest, HasSocket, Own
  <2>2. PICK to \in {"Open", "Closed"} :
          /\ socket' = [socket EXCEPT ![i].ReadyState = to]
          /\ ToCaller(conn, IF to = "Open" THEN "open" ELSE "close", i)
    BY <1>2, <1>8, <2>1 DEF ConnectRegistered
  <2> DEFINE e == [kind |-> IF to = "Open" THEN "open" ELSE "close",
                   client |-> i]
  <2>3. /\ \A j \in Clients \ {i} : socket'[j] = NoSocket
        /\ socket'[i].caller = conn /\ socket'[i].ReadyState = to
    BY <2>1, <2>2, ReadyStateKeepsSockets DEF Own
  <2>4. e \in Event /\ e.kind = IF to = "Open" THEN "open" ELSE "close"
    BY DEF Event
  <2>5. Link!Up => inbox' = Append(inbox, e)
    BY <2>2, ToCallerSends
  <2> HIDE DEF e
  <2>6. Link!Up => Tells(i, e.kind)'
    BY <2>4, <2>5, NewsIsLast
  <2> QED BY <2>3, <2>4, <2>6 DEF Describes, SocketOpen
<1>9. CASE ConnectOwn(h)
  <2>1. /\ UNCHANGED socket
        /\ i \in strayed'
        /\ \E kind \in {"open", "close"} :
             /\ ToCaller(conn, kind, i)
             /\ kind = "open" => h.call \in strays'
    BY <1>2, <1>9 DEF ConnectOwn
  <2>2. PICK kind \in {"open", "close"} :
          /\ ToCaller(conn, kind, i)
          /\ kind = "open" => h.call \in strays'
    BY <2>1
  <2> DEFINE e == [kind |-> kind, client |-> i]
  <2>3. e \in Event /\ e.kind = kind
    BY DEF Event
  <2>4. Link!Up => inbox' = Append(inbox, e)
    BY <2>2, ToCallerSends
  <2> HIDE DEF e
  <2>5. Link!Up => Tells(i, kind)'
    BY <2>3, <2>4, NewsIsLast
  <2> QED BY <1>2, <2>1, <2>2, <2>5 DEF Own, Describes, SocketOpen
<1> QED BY <1>6, <1>7, <1>8, <1>9 DEF ProcessClientMessage

LEMMA StrayIsOwn ==
  ASSUME IInv, Rest, Sound, NEW i \in Clients, Own(i),
         NEW c \in strays, StrayCloses(c)
  PROVE  Own(i)'
<1> USE DEF page, processing, server
<1>1. /\ UNCHANGED <<state, promise, conn, bound, waiting, wire, page, socket,
                     hub, strayed>>
      /\ strays' \subseteq strays /\ ToCaller(c.conn, "close", c.client)
  BY DEF StrayCloses
<1>2. /\ c.client = i /\ c.conn = conn /\ i \in strayed
      /\ conn # None /\ state # "connecting"
  BY NoneIsNoStart DEF Own, Fresh, Sound, Rest, Call
<1> DEFINE e == [kind |-> "close", client |-> i]
<1>3. e \in Event /\ e.kind = "close"
  BY DEF Event
<1>4. Link!Up => inbox' = Append(inbox, e)
  BY <1>1, <1>2, ToCallerSends
<1> HIDE DEF e
<1>5. Link!Up => Describes(i)'
  BY <1>1, <1>2, <1>3, <1>4, NewsIsLast DEF Describes
<1>6. Listeners' = Listeners
  BY <1>1 DEF Listeners
<1> QED BY <1>1, <1>2, <1>5, <1>6 DEF Own, Link!Up

LEMMA SweepIsOwn ==
  ASSUME IInv, Rest, Sound, NEW i \in Clients, Own(i),
         NEW j \in Clients, ComponentCloses(j) \/ Query(j)
  PROVE  Own(i)'
<1> USE DEF page, processing, server
<1>1. /\ UNCHANGED <<state, promise, conn, bound, waiting, wire, page,
                     processing>>
      /\ HasSocket(j)
  BY DEF ComponentCloses, Query, HasSocket, Sound
<1>2. j = i /\ socket[i].caller = conn /\ conn # None /\ state # "connecting"
  <2>1. j = i
    BY <1>1 DEF HasSocket, Own, NoSocket
  <2>2. socket[i].caller = conn /\ conn # None
    BY <1>1, <2>1 DEF HasSocket, Own
  <2>3. state # "connecting"
    BY <1>1, <2>1 DEF HasSocket, Own, Fresh, NoSocket
  <2> QED BY <2>1, <2>2, <2>3
<1>3. Listeners' = Listeners
  BY <1>1 DEF Listeners
<1>4. SUFFICES /\ \A k \in Clients \ {i} : socket'[k] = NoSocket
               /\ socket'[i].caller = conn
               /\ Link!Up => Describes(i)'
  BY <1>1, <1>2, <1>3 DEF Own, Link!Up
<1>5. CASE ComponentCloses(j)
  <2> DEFINE e == [kind |-> "close", client |-> i]
  <2>1. /\ socket' = [socket EXCEPT ![i].ReadyState = "Closed"]
        /\ ToCaller(conn, "close", i)
    BY <1>2, <1>5 DEF ComponentCloses
  <2>2. /\ \A k \in Clients \ {i} : socket'[k] = NoSocket
        /\ socket'[i].caller = conn /\ socket'[i].ReadyState = "Closed"
    BY <1>2, <2>1 DEF Own, Rest
  <2>3. e \in Event /\ e.kind = "close"
    BY DEF Event
  <2>4. Link!Up => inbox' = Append(inbox, e)
    BY <2>1, ToCallerSends
  <2> HIDE DEF e
  <2>5. Link!Up => Tells(i, "close")'
    BY <2>3, <2>4, NewsIsLast
  <2> QED BY <2>2, <2>5 DEF Describes
<1>6. CASE Query(j)
  <2> DEFINE e == [kind |-> "query", client |-> i]
  <2>1. UNCHANGED <<readyState, socket>> /\ ToCaller(conn, "query", i)
    BY <1>2, <1>6 DEF Query
  <2>2. e \in Event /\ e.kind = "query"
    BY DEF Event
  <2>3. Link!Up => inbox' = Append(inbox, e)
    BY <2>1, ToCallerSends
  <2> HIDE DEF e
  <2>4. Link!Up => Describes(i)'
    BY <1>1, <2>1, <2>2, <2>3, QueryComesAfter
       DEF Own, Describes, SocketOpen
  <2> QED BY <1>2, <2>1, <2>4 DEF Own
<1> QED BY <1>5, <1>6

LEMMA RecycleIsOwn ==
  ASSUME IInv, Rest, Sound, NEW i \in Clients, Own(i), Recycle
  PROVE  Own(i)'
<1> USE DEF page, processing, server
<1>1. /\ UNCHANGED <<state, promise, conn, bound, waiting, wire, page, strays,
                     strayed>>
      /\ socket' = [j \in Clients |-> NoSocket]
  BY DEF Recycle
<1>2. Listeners' = Listeners
  BY <1>1 DEF Listeners
<1>3. ~Link!Up => inbox' = inbox
  <2>1. PICK s \in Seq(Event) :
          inbox' = inbox \o s /\ (Len(s) = 0 <=> Taken = {})
    BY RecycleTells
  <2>2. ASSUME ~Link!Up PROVE s = <<>>
    BY <2>1, <2>2 DEF Taken
  <2> QED BY <2>1, <2>2 DEF Rest
<1>4. \A h \in hub' : h.call.client = i /\ h.call.conn = conn
  BY RecycledCalls DEF Own, HasSocket
<1>5. conn = None \/ state = "connecting" => Fresh(i)'
  <2>1. hub = {} => hub' = {}
    BY DEF Recycle
  <2> QED BY <1>1, <1>3, <2>1 DEF Own, Fresh, Link!Up, IInv, Shape
<1>6. Link!Up => Describes(i)'
  BY RecycleIsNews DEF Own
<1> QED BY <1>1, <1>2, <1>4, <1>5, <1>6 DEF Own, Link!Up, NoSocket

LEMMA DeliverIsOwn ==
  ASSUME IInv, Rest, Sound, NEW i \in Clients, Own(i), Deliver
  PROVE  Own(i)'
<1> USE DEF page, processing, server
<1> DEFINE e == Head(inbox)
<1>1. /\ state = "connected" /\ inbox # <<>> /\ inbox' = Tail(inbox)
      /\ UNCHANGED <<created, proxyClient, server>>
      /\ e \in Event
  BY DEF Deliver, Rest
<1>2. Listeners = {i}
  <2>1. Len(bound) = 1 /\ bound \in Seq(Clients)
    BY <1>1 DEF IInv, Shape, OneHandler
  <2>2. bound[1] \in Listeners
    BY <2>1 DEF Listeners
  <2> QED BY <2>2 DEF Own
<1>3. conn # None
  BY <1>1 DEF IInv, Shape
<1> HIDE DEF e
<1>4. SUFFICES /\ UNCHANGED <<state, promise, conn, bound>>
               /\ \A c \in waiting' \cup wire' : c.client = i /\ c.conn = conn
               /\ readyState'[i] = CASE e.kind = "open" -> "OPEN"
                                     [] e.kind = "close" -> "CLOSED"
                                     [] e.kind = "query" -> readyState[i]
  <2>1. Describes(i)'
    BY <1>1, <1>4, DeliveredIsKnown
       DEF Own, Link!Up, Describes, SocketOpen, e
  <2>2. Listeners' = Listeners
    BY <1>4 DEF Listeners
  <2> QED BY <1>1, <1>3, <1>4, <2>1, <2>2 DEF Own
<1>5. ASSUME NEW status, setClientSocketDescription(status)
      PROVE  /\ UNCHANGED <<state, promise, conn, bound, waiting, wire>>
             /\ readyState'[i] = status
  BY <1>2, <1>5 DEF setClientSocketDescription
<1>6. CASE e.kind = "open" /\ setClientSocketDescription("OPEN")
  BY <1>5, <1>6 DEF Own
<1>7. CASE e.kind = "close" /\ setClientSocketDescription("CLOSED")
  BY <1>5, <1>7 DEF Own
<1>8. CASE e.kind = "query" /\ onCheckClientStatus(e)
  <2>1. readyState' = readyState
    BY <1>8 DEF onCheckClientStatus
  <2>2. CASE UNCHANGED <<state, promise, conn, bound, waiting, wire>>
    BY <1>8, <2>1, <2>2 DEF Own
  <2>3. CASE e.client \in Listeners /\ CallServer("answer", i, proxyClient)
    <3>1. JoinStart("answer", i)
      BY <1>1, <2>3 DEF CallServer, StartFor, Link!Open
    <3> QED BY <1>8, <2>1, <3>1, JoinIsOwn
  <2> QED BY <1>2, <1>8, <2>2, <2>3 DEF onCheckClientStatus
<1> QED BY <1>6, <1>7, <1>8 DEF Deliver, e

LEMMA OwnIsKept == IInv /\ Rest /\ Sound /\ OwnIfSolo /\ [Next]_vars
                   => OwnIfSolo'
<1> SUFFICES ASSUME IInv, Rest, Sound, OwnIfSolo, [Next]_vars,
                    NEW i \in Clients, Solo(i)'
             PROVE  Own(i)'
  BY DEF OwnIfSolo
<1>1. Own(i)
  BY SoloBefore DEF OwnIfSolo
<1>2. ASSUME NEW j \in Clients, createNew(j) \/ send(j) PROVE Own(i)'
  BY <1>1, <1>2, CreateIsOwn
<1>3. CASE ComesUp \/ Drops \/ IsRestored \/ GoesDown \/ StartFails
  BY <1>1, <1>3, LinkIsOwn
<1>4. ASSUME NEW c \in wire, HubCall(c) \/ LoseCall(c) PROVE Own(i)'
  BY <1>1, <1>4, HubIsOwn
<1>5. ASSUME NEW j \in Clients, ComponentCloses(j) \/ Query(j) PROVE Own(i)'
  BY <1>1, <1>5, SweepIsOwn
<1>6. CASE Recycle
  BY <1>1, <1>6, RecycleIsOwn
<1>7. CASE Deliver
  BY <1>1, <1>7, DeliverIsOwn
<1>8. CASE UNCHANGED vars
  BY <1>1, <1>8 DEF vars, page, processing, server, Own, Fresh, Describes,
     Tells, SocketOpen, Listeners, Link!Up
<1>9. ASSUME NEW h \in hub, ProcessClientMessage(h) PROVE Own(i)'
  BY <1>1, <1>9, ProcessIsOwn
<1>10. ASSUME NEW c \in strays, StrayCloses(c) PROVE Own(i)'
  BY <1>1, <1>10, StrayIsOwn
<1> QED BY <1>2, <1>3, <1>4, <1>5, <1>6, <1>7, <1>8, <1>9, <1>10 DEF Next

LEMMA InitIsOwn == Init => Sound /\ OwnIfSolo
<1> SUFFICES ASSUME Init PROVE Sound /\ OwnIfSolo
  OBVIOUS
<1>1. Sound
  BY DEF Init, Link!LinkInit, Sound, NoSocket
<1>2. Listeners = {}
  BY DEF Init, Listeners
<1>3. ASSUME NEW i \in Clients PROVE Own(i)
  BY <1>2 DEF Init, Link!LinkInit, Link!Up, Own, Fresh, NoSocket
<1> QED BY <1>1, <1>3 DEF OwnIfSolo

LEMMA OwnInvariance == Spec => [](IInv /\ Rest /\ Sound /\ OwnIfSolo)
BY InitIsFine, InitIsTyped, InitIsOwn, StepsAreFine, RestIsKept, SoundIsKept,
   OwnIsKept, PTL DEF Spec

-----------------------------------------------------------------------------

\* While the connection is not down exactly one object's functions are bound
\* to the hub's events, and none are when it is down (hubs.js
\* createHubProxies).
THEOREM OneObjectHears == Spec => []OneHandler
<1>1. IInv => OneHandler
  BY DEF IInv
<1> QED BY <1>1, Invariance, PTL

\* When the connection is up every call that waited for a start has been made
\* or dropped (core.js start, printerHttpClient.js).
THEOREM NoCallIsForgotten == Spec => []NoCallWaits
<1>1. IInv => NoCallWaits
  <2> SUFFICES ASSUME IInv, Link!Up, NEW w \in waiting PROVE FALSE
    BY DEF NoCallWaits
  <2>1. w.conn \in Starts /\ promise[w.conn] = "pending"
    BY DEF IInv, Shape, Call, WaitingIsOpen
  <2> QED BY <2>1 DEF IInv, UpIsSettled, Link!Pending
<1> QED BY <1>1, Invariance, PTL

\* Every variable keeps its type, and no more messages are under way than the
\* inbox may hold.
THEOREM PageTypeCorrect == Spec => []TypeOK
BY Invariance, RestInvariance, RestIsTypeOK, PTL

\* On a page with one object and one connection, when no message is under way,
\* readyState is OPEN only if a socket of the object is open, and is OPEN if
\* the registered one is, unless another was connected beside it
\* (printerHttpClient.js setClientSocketDescription, PrinterHub.cs).
THEOREM ReadyStateIsTrue == Spec => []DescribesOwnSocket
<1>1. IInv /\ Rest /\ Sound /\ OwnIfSolo => DescribesOwnSocket
  <2> SUFFICES ASSUME OwnIfSolo, NEW i \in Clients, created = {i}, Link!Up,
                      inbox = <<>>,
                      \A a \in Starts : promise[a] # "unused" => a = conn
               PROVE  /\ readyState[i] = "OPEN" => SocketOpen(i)
                      /\ socket[i].ReadyState = "Open" /\ i \notin strayed
                         => readyState[i] = "OPEN"
    BY DEF DescribesOwnSocket
  <2>1. Solo(i)
    BY DEF Solo
  <2>2. Describes(i) /\ 1..Len(inbox) = {}
    BY <2>1 DEF OwnIfSolo, Own
  <2> QED BY <2>2 DEF Describes, Tells
<1> QED BY <1>1, OwnInvariance, PTL

LEMMA CallsAreLinkSteps ==
  ASSUME NEW i, NEW j, NEW kind, CallServer(kind, i, j)
  PROVE  [Link!LinkNext]_(Link!link)
<1>1. CASE StartFor(kind, i, j)
  BY <1>1 DEF StartFor, Link!LinkNext
<1>2. CASE JoinStart(kind, i)
  BY <1>2 DEF JoinStart, Link!link
<1> QED BY <1>1, <1>2 DEF CallServer

\* The page's objects and callbacks do nothing to the connection that
\* Connection does not allow: what HubConnection implements is what they are
\* modelled on (hubs.js, printerHttpClient.js).
THEOREM PageKeepsToConnection == Spec => Link!LinkSpec
<1>1. Init => Link!LinkInit
  BY DEF Init
<1>2. [Next]_vars => [Link!LinkNext]_(Link!link)
  <2> SUFFICES ASSUME [Next]_vars PROVE [Link!LinkNext]_(Link!link)
    OBVIOUS
  <2>1. ASSUME NEW i \in Clients, createNew(i) \/ send(i)
        PROVE  [Link!LinkNext]_(Link!link)
    BY <2>1, CallsAreLinkSteps DEF createNew, send
  <2>2. CASE ComesUp \/ Drops \/ IsRestored \/ GoesDown \/ StartFails
    BY <2>2 DEF ComesUp, Drops, IsRestored, GoesDown, StartFails,
       Link!LinkNext
  <2>3. CASE UNCHANGED <<state, promise>>
    BY <2>3 DEF Link!link
  <2>4. ASSUME NEW c \in wire, HubCall(c) \/ LoseCall(c)
        PROVE  [Link!LinkNext]_(Link!link)
    BY <2>3, <2>4 DEF HubCall, Ping, GetUserSocketFromDic,
       GiveMoneyToHouseOwner, LoseCall
  <2>5. ASSUME NEW i \in Clients, ComponentCloses(i) \/ Query(i)
        PROVE  [Link!LinkNext]_(Link!link)
    BY <2>3, <2>5 DEF ComponentCloses, Query
  <2>6. CASE Recycle \/ UNCHANGED vars
    BY <2>3, <2>6 DEF Recycle, vars
  <2>7. CASE Deliver
    BY <2>3, <2>7, CallsAreLinkSteps DEF Deliver, onCheckClientStatus,
       setClientSocketDescription
  <2>8. ASSUME NEW h \in hub, ProcessClientMessage(h)
        PROVE  [Link!LinkNext]_(Link!link)
    BY <2>3, <2>8 DEF ProcessClientMessage, InitOneCaiNiaoSocket,
       ConnectRegistered, ConnectOwn
  <2>9. ASSUME NEW c \in strays, StrayCloses(c)
        PROVE  [Link!LinkNext]_(Link!link)
    BY <2>3, <2>9 DEF StrayCloses
  <2> QED BY <2>1, <2>2, <2>4, <2>5, <2>6, <2>7, <2>8, <2>9 DEF Next
<1> QED BY <1>1, <1>2, PTL DEF Spec, Link!LinkSpec
=============================================================================
