-------------------------- MODULE MCSocketRegistry --------------------------
(* Small instances of SocketRegistry for TLC. One Tick stands for 15 of the  *)
(* 30 seconds after which a client is asked and the timer elapses, and the   *)
(* 10 seconds a client has to answer are rounded up to one Tick.             *)
EXTENDS SocketRegistry, TLC

Symmetric == Permutations(Clients) \cup Permutations(Calls)
             \cup Permutations(Objs) \cup Permutations(Msgs)

(* Without symmetry, which liveness checking does not allow: objects and      *)
(* message ids are interchangeable, so the least free one stands for all.     *)
InOrder ==
  /\ \A o, p \in Objs :
       o < p /\ ClientId[o] = Null /\ ClientId[p] = Null => ClientId'[p] = Null
  /\ \A c \in Clients : \A m, n \in Msgs :
       m < n /\ IsFresh(c, m) /\ IsFresh(c, n) => IsFresh(c, n)'

(* With two clients: their pages stay open, which loses no order of steps, as *)
(* a page that never calls or answers again is as good as gone.               *)
PagesStay == \A c \in Clients : page[c]

(* Nothing is claimed of a Dictionary whose writers have overlapped.          *)
IsIntact == intact

(* One page goes and others stay to disturb the sweep. Only the table         *)
(* matters: every call is a ping, as a send adds an entry like a ping and     *)
(* makes one younger only while its page is open, and a client is made as     *)
(* many objects as there are ids for its queries.                             *)
OneLeaves ==
  /\ Cardinality({c \in Clients : ~page[c]}) <= 1
  /\ \A t \in Calls : op[t] = "ping"
  /\ \A c \in Clients :
       Cardinality({o \in Objs : ClientId[o] = c}) <= Cardinality(Msgs)
=============================================================================
