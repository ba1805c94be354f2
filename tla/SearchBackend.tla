--------------------------- MODULE SearchBackend ---------------------------
(***************************************************************************)
(* The searches of one worker process and the circuit breaker they share.  *)
(* Searches run in threads (asyncio.to_thread); the breaker is two module  *)
(* globals under a lock.  A query that passes the breaker reads it before  *)
(* it is sent and writes it when the answer is back, so answers of one     *)
(* period arrive in another.                                               *)
(***************************************************************************)
EXTENDS SearchCalls, FiniteSetsExt

CONSTANTS Threads,               \* worker threads
          Searches,              \* Searches[t]: the names of those t runs
          FAILURE_THRESHOLD,     \* _ES_FAILURE_THRESHOLD
          OPEN_DURATION          \* _ES_OPEN_DURATION_SEC, in ticks

ASSUME BackendAssumption ==
    /\ IsFiniteSet(Threads) /\ Searches \in [Threads -> SUBSET DOMAIN Catalogue]
    /\ FAILURE_THRESHOLD \in Nat \ {0} /\ OPEN_DURATION \in Nat \ {0}

VARIABLES failure_count,  \* _es_failure_count, counted no further than the threshold
          open_for,       \* ticks until _es_open_until; 0: the circuit is closed
          at,             \* at[t]: the search t runs: queries left, the one in flight, best hits
          called, returned,
          lost            \* history: queries lost in transport since an answer came
                          \* or an open period ended

breaker == <<failure_count, open_for, lost>>
vars == <<breaker, at, called, returned>>

Hits == {"none", "few", "many", "strong"}   \* many: enough, but weak; strong: ends the search

(* plan: queries left; asking: the first is in flight; found: hits so far  *)
Idle == [plan |-> <<>>, asking |-> FALSE, found |-> "none"]

Init == /\ failure_count = 0 /\ open_for = 0 /\ lost = 0
        /\ at = [t \in Threads |-> Idle]
        /\ called = [t \in Threads |-> "none"]
        /\ returned = [t \in Threads |-> "nothing"]

-----------------------------------------------------------------------------
(* The breaker                                                             *)

is_es_available == open_for = 0

record_es_failure(transport) ==
    LET count == IF failure_count < FAILURE_THRESHOLD THEN failure_count + 1 ELSE failure_count
    IN /\ failure_count' = count
       /\ open_for' = IF count = FAILURE_THRESHOLD THEN OPEN_DURATION ELSE open_for
       /\ lost' = IF transport THEN lost + 1 ELSE lost

record_es_success == failure_count' = 0 /\ open_for' = 0 /\ lost' = 0

(* Time passes                                                             *)
Tick == /\ open_for > 0
        /\ open_for' = open_for - 1
        /\ lost' = IF open_for = 1 THEN 0 ELSE lost
        /\ UNCHANGED <<failure_count, at, called, returned>>

-----------------------------------------------------------------------------
(* What an answer makes of the search                                      *)

(* _update_best keeps the longer list, whatever its scores.                *)
Longer(found, got) ==
    IF got = "none" THEN {found}
    ELSE IF found \in {"none", "few"} THEN {got}
    ELSE IF got = "few" THEN {found} ELSE {found, got}

Cascade == {"exact", "no_year", "swapped", "fuzzy", "single", "any_type", "provision",
            "multi_tier", "relaxed"}

Found(query, found, got) ==
    CASE query \in {"embed", "find_act", "find_source", "lookup"} -> {found}
      [] query \in {"source", "target", "unfiltered"} -> {got}
      [] OTHER -> Longer(found, got)

(* What is left when the queries of this name that come next are skipped.  *)
Others(rest, query) == {n \in 0..Len(rest) : n = Len(rest) \/ rest[n + 1] # query}
Without(rest, query) == SubSeq(rest, Min(Others(rest, query)) + 1, Len(rest))
More(rest, query) == rest # <<>> /\ Head(rest) = query

(* The queries left once `query` was answered with `got`, the best hits    *)
(* being `found` now.                                                      *)
Following(query, rest, got, found) ==
    CASE query = "variation" ->
            IF got = "strong" THEN Without(rest, "variation")
            ELSE IF More(rest, "source") /\ found = "none" THEN <<>> ELSE rest
      [] query = "discover" -> IF got = "none" THEN <<>> ELSE rest
      [] query = "table" -> IF got = "none" THEN rest ELSE <<>>
      [] query = "find_act" -> IF got = "none" THEN rest ELSE Without(rest, "find_source")
      [] query \in {"source", "citation"} -> IF got = "none" THEN rest ELSE <<>>
      [] query = "case_type" ->
            IF found = "strong" THEN <<>>
            ELSE IF got \in {"none", "few"} THEN rest ELSE Without(rest, "any_type")
      [] query \in Cascade ->
            IF found = "strong" /\ ~(query = "provision" /\ More(rest, "provision")) THEN <<>>
            ELSE IF query = "exact" /\ found = "many" THEN Without(rest, "no_year") ELSE rest
      [] OTHER -> rest

-----------------------------------------------------------------------------
(* A search from call to return                                            *)

Call(t) == /\ called[t] = "none"
           /\ \E s \in Searches[t] : \E plan \in Catalogue[s].plans :
                 /\ called' = [called EXCEPT ![t] = s]
                 /\ at' = [at EXCEPT ![t] =
                        [plan |-> plan, asking |-> FALSE, found |-> "none"]]
           /\ returned' = [returned EXCEPT ![t] = "nothing"]
           /\ UNCHANGED breaker

query(t) == Head(at[t].plan)
search(t) == Catalogue[called[t]]
ThroughCircuit(t) == search(t).circuit /\ query(t) \notin {"embed", "table"}

(* A failure ends the search unless this query is one it can do without.   *)
Failed(t, failure) ==
    IF <<query(t), failure>> \in search(t).spares
    THEN LET rest == Tail(at[t].plan) IN
         /\ at' = [at EXCEPT ![t] =
                [plan |-> Following(query(t), rest, "none", at[t].found),
                 asking |-> FALSE, found |-> at[t].found]]
         /\ UNCHANGED <<called, returned>>
    ELSE /\ returned' = [returned EXCEPT ![t] = IF search(t).tells THEN "message" ELSE failure]
         /\ called' = [called EXCEPT ![t] = "none"]
         /\ at' = [at EXCEPT ![t] = Idle]

(* Deviations: the breaker is not read; a query it holds back is counted   *)
(* as one more failure.                                                    *)
AskUnchecked(t) == /\ at[t].plan # <<>> /\ ~at[t].asking
                   /\ at' = [at EXCEPT ![t].asking = TRUE]
                   /\ UNCHANGED <<breaker, called, returned>>

AskCounting(t) == /\ at[t].plan # <<>> /\ ~at[t].asking
                  /\ IF ThroughCircuit(t) /\ ~is_es_available
                     THEN Failed(t, "unavailable") /\ record_es_failure(FALSE)
                     ELSE /\ at' = [at EXCEPT ![t].asking = TRUE]
                          /\ UNCHANGED <<breaker, called, returned>>

Ask(t) == /\ at[t].plan # <<>> /\ ~at[t].asking
          /\ IF ThroughCircuit(t) /\ ~is_es_available
             THEN Failed(t, "unavailable")
             ELSE /\ at' = [at EXCEPT ![t].asking = TRUE]
                  /\ UNCHANGED <<called, returned>>
          /\ UNCHANGED breaker

Answer(t) == /\ at[t].asking
             /\ \E got \in Hits : \E best \in Found(query(t), at[t].found, got) :
                   at' = [at EXCEPT ![t] =
                       [plan |-> Following(query(t), Tail(at[t].plan), got, best),
                        asking |-> FALSE, found |-> best]]
             /\ IF ThroughCircuit(t) THEN record_es_success ELSE UNCHANGED breaker
             /\ UNCHANGED <<called, returned>>

(* _es_search counts every exception, then tells transport failures apart. *)
Refuse(t) == /\ at[t].asking /\ "refused" \in CanFail(search(t), query(t))
             /\ IF ThroughCircuit(t) THEN record_es_failure(FALSE) ELSE UNCHANGED breaker
             /\ Failed(t, "refused")

(* Deviation: a transport error is raised as the client raised it.         *)
LoseRaw(t) == /\ at[t].asking /\ query(t) # "table"
              /\ IF ThroughCircuit(t) THEN record_es_failure(TRUE) ELSE UNCHANGED breaker
              /\ Failed(t, "broken")

Lose(t) == /\ at[t].asking /\ query(t) # "table"
           /\ IF ThroughCircuit(t)
              THEN record_es_failure(TRUE) /\ Failed(t, "unavailable")
              ELSE UNCHANGED breaker /\ Failed(t, "broken")

Return(t) == /\ called[t] # "none" /\ at[t].plan = <<>>
             /\ returned' = [returned EXCEPT ![t] = IF at[t].found = "none" THEN "empty" ELSE "hits"]
             /\ at' = [at EXCEPT ![t] = Idle]
             /\ called' = [called EXCEPT ![t] = "none"]
             /\ UNCHANGED breaker

Step(t) == Ask(t) \/ Answer(t) \/ Refuse(t) \/ Lose(t) \/ Return(t)
Next == Tick \/ \E t \in Threads : Call(t) \/ Step(t)

(* The clock runs, and every query is answered or timed out by the client. *)
Fairness == WF_vars(Tick) /\ \A t \in Threads : WF_vars(Step(t))
Spec == Init /\ [][Next]_vars /\ Fairness

-----------------------------------------------------------------------------
(* Properties                                                              *)

(* The type of the breaker and of the searches in the threads.             *)
TypeOK ==
    /\ failure_count \in 0..FAILURE_THRESHOLD /\ open_for \in 0..OPEN_DURATION /\ lost \in Nat
    /\ \A t \in Threads :
          /\ at[t].asking \in BOOLEAN /\ at[t].found \in Hits
          /\ at[t].asking => at[t].plan # <<>>

(* An outage costs few queries: between two moments at which Elasticsearch *)
(* is tried again at most FAILURE_THRESHOLD - 1 queries through the breaker*)
(* run into it, and one more for each thread, because the threads that had *)
(* asked before the circuit opened still wait for their own failure.       *)
OutageCostsFewQueries == lost <= FAILURE_THRESHOLD - 1 + Cardinality(Threads)

(* Whatever arrives late, an open circuit is tried again: failures of      *)
(* queries already in flight prolong the pause, but not for ever.          *)
CircuitClosesAgain == []<>is_es_available

(* A search returns, and with an outcome its caller is written for.        *)
Promise == INSTANCE SearchPromise WITH Threads <- Threads, Searches <- Searches,
               Outcomes <- Outcomes, called <- called, returned <- returned
KeepsThePromise == Promise!Spec
=============================================================================
