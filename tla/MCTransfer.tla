------------------------------ MODULE MCTransfer ------------------------------
(***************************************************************************)
(* Instance of Transfer for TLC.  With two payload bytes in the segment,   *)
(* file sizes 0..5 and answers of 1..5 bytes need zero to three chunks,    *)
(* the last one full or not, and every combination of the two directions.  *)
(***************************************************************************)
EXTENDS Transfer

MCFileSizes == 0..5
MCCompressedSizes == 1..5
===============================================================================
