------------------------------ MODULE MCServicer ------------------------------
(***************************************************************************)
(* Instance of Servicer for TLC: one application thread, as in App.cpp,    *)
(* with one request more than there are workers, so that sendRequests      *)
(* holds one back, and as many segments as workers, so that the service    *)
(* has to use one again.                                                   *)
(***************************************************************************)
EXTENDS Servicer

CONSTANTS main, s1, s2
MCCallers == {main}
MCSegments == {s1, s2}
===============================================================================
