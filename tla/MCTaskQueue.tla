---------------------------- MODULE MCTaskQueue ----------------------------
(* Small instances of TaskQueue. Every job is posted once, so the list never *)
(* needs more slots than there are jobs.                                     *)
EXTENDS TaskQueue, TLC

Symmetric == Permutations(Tasks)

(* Without symmetry, which liveness checking does not allow: jobs are         *)
(* interchangeable, so the least of those not posted yet stands for all.      *)
InOrder ==
  \A j, k \in Tasks :
    j < k /\ pc[j] = "new" /\ pc[k] = "new" => pc'[k] = "new"
=============================================================================
