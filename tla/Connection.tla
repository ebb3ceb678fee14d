----------------------------- MODULE Connection -----------------------------
(***************************************************************************)
(* What a page may rely on of $.connection.hub: a connection that is       *)
(* opened by a start, may come up, drop, be restored and go down, and      *)
(* starts whose promises are settled. A start's done-callbacks run while   *)
(* the connection is up, or as it goes down again in the step in which it  *)
(* has come up. HubConnection implements it.                               *)
(***************************************************************************)
CONSTANT Starts

VARIABLES
  state,  \* $.signalR.connectionState
  promise \* of each start that found the connection down

link == <<state, promise>>

LinkTypeOK ==
  /\ state \in {"connecting", "connected", "reconnecting", "disconnected"}
  /\ promise \in [Starts -> {"unused", "pending", "resolved", "rejected"}]

LinkInit ==
  /\ state = "disconnected"
  /\ promise = [a \in Starts |-> "unused"]

Up == state \in {"connected", "reconnecting"}
Pending == {a \in Starts : promise[a] = "pending"}
Settled(as, how) == [a \in Starts |-> IF a \in as THEN how ELSE promise[a]]

Open(a) ==
  /\ state = "disconnected"
  /\ promise[a] = "unused"
  /\ state' = "connecting"
  /\ promise' = Settled({a}, "pending")

\* Every start whose promise is still open is told, those that a stop has
\* cut off before included. The first answer may ask to reconnect.
ComeUp ==
  /\ state = "connecting"
  /\ state' \in {"connected", "reconnecting"}
  /\ promise' = Settled(Pending, "resolved")

Change(from, to) == state = from /\ state' = to /\ UNCHANGED promise

\* Going down may reject what is pending. A connection that comes up and
\* goes down again at once, sent away with its first message or inactive for
\* too long, resolves promises on the way: all, unless a callback that finds
\* the connection down throws.
GoDown ==
  /\ state # "disconnected"
  /\ state' = "disconnected"
  /\ \E rejected \in SUBSET Pending, resolved \in SUBSET Pending :
       /\ state # "connecting" => resolved = {}
       /\ promise' = [a \in Starts |->
                         CASE a \in rejected -> "rejected"
                           [] a \in resolved \ rejected -> "resolved"
                           [] OTHER -> promise[a]]

\* A start may fail and leave the connection as it is: the server speaks
\* another version, or the start was cut off by a stop and its transport
\* fails late.
Fail ==
  /\ \E a \in Pending : promise' = Settled({a}, "rejected")
  /\ UNCHANGED state

LinkNext ==
  \/ \E a \in Starts : Open(a)
  \/ ComeUp
  \/ Change("connected", "reconnecting")
  \/ Change("reconnecting", "connected")
  \/ GoDown
  \/ Fail

LinkSpec == LinkInit /\ [][LinkNext]_link
=============================================================================
