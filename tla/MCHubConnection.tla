-------------------------- MODULE MCHubConnection ---------------------------
(* Small instances of HubConnection for TLC: a page starts the connection,   *)
(* and once more after it was down, when the first start has left whatever   *)
(* it leaves.                                                                *)
EXTENDS HubConnection

Restarted == \A a \in Starts : connection.promise[a] # "unused"
OneCall == \A j, k \in Loops \ FreeLoops(connection) : j = k

(* Two calls of longPolling.start are under way only before the restart.     *)
OneCallAfterRestart == Restarted => OneCall

(* The question is how starts end: what comes after the second one is up is  *)
(* left out, and two calls of longPolling.start are under way only while the *)
(* first start is coming up.                                                 *)
UntilRestarted ==
  /\ Restarted => OneCall
  /\ Connected(connection) => OneCall /\ ~Restarted
=============================================================================
