------------------------------ MODULE JobStore ------------------------------
(***************************************************************************)
(* What the queue of print jobs promises the page: a job that was given a  *)
(* number is kept until it is sent, its own text is what is sent unless it *)
(* is spoilt, and then it is dropped. Jobs do not disturb each other.      *)
(***************************************************************************)
CONSTANT Tasks

VARIABLES
  stage, \* how far a job has come
  store  \* the jobs that are kept

vars == <<stage, store>>

Init ==
  /\ stage = [k \in Tasks |-> "new"]
  /\ store = {}

\* The page posts the job and learns its number.
Keep(k) ==
  /\ stage[k] = "new"
  /\ stage' = [stage EXCEPT ![k] = "kept"]
  /\ store' = store \cup {k}

\* The page sends the number and the job's text is handed on to its socket.
Deliver(k) ==
  /\ stage[k] = "kept" /\ k \in store
  /\ stage' = [stage EXCEPT ![k] = "printed"]
  /\ UNCHANGED store

\* The job's text is of no use, and nothing is handed on.
Spoil(k) ==
  /\ stage[k] = "kept" /\ k \in store
  /\ stage' = [stage EXCEPT ![k] = "spoilt"]
  /\ UNCHANGED store

Drop(k) ==
  /\ stage[k] \in {"printed", "spoilt"}
  /\ stage' = [stage EXCEPT ![k] = "dropped"]
  /\ store' = store \ {k}

Next == \E k \in Tasks : Keep(k) \/ Deliver(k) \/ Spoil(k) \/ Drop(k)

Spec == Init /\ [][Next]_vars
=============================================================================
