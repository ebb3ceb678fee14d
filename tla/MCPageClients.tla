--------------------------- MODULE MCPageClients ----------------------------
(* A small instance of PageClients: two objects and two starts, for one to   *)
(* take the place of the other.                                              *)
EXTENDS PageClients

FirstClient == CHOOSE i \in Clients : TRUE
FirstStart == CHOOSE a \in Starts : TRUE

(* Without symmetry, which liveness checking does not allow: objects and      *)
(* starts are interchangeable, so one of each comes first.                    *)
InOrder ==
  /\ created' # {} => FirstClient \in created'
  /\ \A a \in Starts :
       promise'[a] # "unused" => promise'[FirstStart] # "unused"

Crowded == Cardinality(created) > 1 \/ \A a \in Starts : promise[a] # "unused"
Sends == {c \in waiting \cup wire : c.kind \in {"send", "sendTask"}}
Sending == Cardinality(Sends) + Cardinality(hub) + Cardinality(strays)
AllCalls == Cardinality(waiting \cup wire) + Cardinality(hub)
            + Cardinality(strays)

(* Calls and sockets overlap on a page with one object and one connection.   *)
(* With more of these a send begins when no other call is under way.         *)
OneByOne ==
  Crowded' => /\ Len(inbox') <= 2
              /\ ~Crowded => AllCalls <= 1
              /\ Sending' > Sending => AllCalls = 0
=============================================================================
