---------------------------- MODULE MCThreadFiles ----------------------------
(* Numbers of files for the uploads of ThreadFiles. *)
EXTENDS ThreadFiles

ThreeEach == [u \in Uploads |-> 3]
=============================================================================
