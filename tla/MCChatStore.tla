---------------------------- MODULE MCChatStore ----------------------------
(* Model values for ChatStore: few threads, two concurrent workers. *)
EXTENDS ChatStore, TLC

WorkerSymmetry == Permutations(Workers)
=============================================================================
