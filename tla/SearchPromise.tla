--------------------------- MODULE SearchPromise ---------------------------
(***************************************************************************)
(* What a search promises its caller: it is called, and later it returns   *)
(* one of the outcomes its callers are written for.                        *)
(***************************************************************************)
CONSTANTS Threads,     \* worker threads that run searches
          Searches,    \* Searches[t]: the names of those t runs
          Outcomes     \* Outcomes[s]: what the callers of search s are written for

VARIABLES called,      \* called[t]: the search t runs, "none" between two
          returned     \* returned[t]: what the last one came to

Init == /\ called = [t \in Threads |-> "none"]
        /\ returned = [t \in Threads |-> "nothing"]

Call(t) == /\ called[t] = "none"
           /\ \E s \in Searches[t] : called' = [called EXCEPT ![t] = s]
           /\ returned' = [returned EXCEPT ![t] = "nothing"]

Return(t) == /\ called[t] # "none"
             /\ \E o \in Outcomes[called[t]] : returned' = [returned EXCEPT ![t] = o]
             /\ called' = [called EXCEPT ![t] = "none"]

Next == \E t \in Threads : Call(t) \/ Return(t)

(* Nothing comes back but what was called for, and nothing unexpected.     *)
Safety == Init /\ [][Next]_<<called, returned>>

(* A search comes back: every query has a timeout of the client.           *)
Spec == Safety /\ \A t \in Threads : WF_<<called, returned>>(Return(t))
=============================================================================
