---------------------------- MODULE MCUringEngine ----------------------------
(***************************************************************************)
(* UringEngine for TLC: three requests of a file of three bytes read in    *)
(* blocks of two, on a ring of depth one.  j1 is read directly; j2 needs a *)
(* bounce buffer, begins in the middle of a block and ends at the last     *)
(* byte of the file; j3 begins behind it.                                  *)
(***************************************************************************)
EXTENDS UringEngine

CONSTANTS j1, j2, j3

MCOffset == [j \in Jobs |-> CASE j = j1 -> 0 [] j = j2 -> 1 [] j = j3 -> 3]
MCNBytes == [j \in Jobs |-> CASE j = j1 -> 2 [] j = j2 -> 2 [] j = j3 -> 1]
=============================================================================
