--------------------------- MODULE MCTurnPipeline ---------------------------
(* A query and the same query in capitals; a code, the same code in         *)
(* capitals and another one; with and without an appendix.  The first two   *)
(* asks share an entry of the cache, the others differ in one thing each.   *)
EXTENDS TurnPipeline, TLC

MCFolded == "q" :> "q" @@ "Q" :> "q" @@ "hi" :> "hi" @@ "HI" :> "hi" @@ "en" :> "en"

MCAsks ==
    {[query |-> "q", language |-> "hi", appendix |-> "unset"],
     [query |-> "Q", language |-> "HI", appendix |-> "unset"],
     [query |-> "q", language |-> "en", appendix |-> "unset"],
     [query |-> "q", language |-> "hi", appendix |-> "yes"]}
=============================================================================
