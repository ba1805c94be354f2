---------------------------- MODULE MCSelfRefine ----------------------------
(* Lengths around the thresholds 500 and 2000 and the shares 70% and 65%,  *)
(* in units of 100 characters.                                             *)
EXTENDS SelfRefine

MCLengths == 0..46
=============================================================================
