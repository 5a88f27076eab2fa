---------------------------- MODULE MCRegistration ----------------------------
(***************************************************************************)
(* Instance of Registration for TLC: two clients, one of which may have    *)
(* two requests under way, every queue with room for one message, and a    *)
(* service that is started twice.                                          *)
(***************************************************************************)
EXTENDS Registration
CONSTANTS p1, p2, w1
MCProcs == {p1, p2}
MCWorkers == {w1}
MCMortal == {p2}
MCRequests == (p1 :> 2) @@ (p2 :> 1)
===============================================================================
