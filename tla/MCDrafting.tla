----------------------------- MODULE MCDrafting -----------------------------
(* Three conversations want the slots; the first comes back for more.      *)
EXTENDS Drafting

CONSTANTS t1, t2, t3

MCMaxTurns == [t \in Threads |-> IF t = t1 THEN 2 ELSE 1]
=============================================================================
