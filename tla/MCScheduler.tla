------------------------------ MODULE MCScheduler ------------------------------
(***************************************************************************)
(* Instances of Scheduler for TLC.  The pool has three internal segments   *)
(* of 4 bytes, so that one worker can hold what the other one needs.  The  *)
(* liveness run has three workers and two segments instead, so that a      *)
(* worker waits for segments while other requests wait for a worker.       *)
(* With credits of one request or two (see CreditUnit), a client crosses   *)
(* from UNDER to OVER and back within its requests.  Safety is checked up  *)
(* to the names of the workers and the clients.                            *)
(***************************************************************************)
EXTENDS Scheduler

CONSTANTS w1, w2, w3, c1, c2, c3
MCWorkers == {w1, w2}
MCThreeWorkers == {w1, w2, w3}
MCTwoClients == {c1, c2}
MCThreeClients == {c1, c2, c3}

Symmetry == Permutations(Workers) \cup Permutations(Clients)
===============================================================================
