------------------------ MODULE SearchBackendProofs ------------------------
(***************************************************************************)
(* What an outage of Elasticsearch costs, and that every search comes to   *)
(* what its callers are written for, for any number of threads, any        *)
(* searches, any threshold and any open period.                            *)
(***************************************************************************)
EXTENDS SearchBackend, FiniteSetTheorems, SequenceTheorems, WellFoundedInduction, TLAPS

(* The threads with a query through the circuit breaker under way.         *)
InFlight == {t \in Threads : at[t].asking /\ ThroughCircuit(t)}

(* A search has the fields it is built from; it asks its first query.      *)
Shaped(s) ==
    /\ s = [plan |-> s.plan, asking |-> s.asking, found |-> s.found]
    /\ s.asking \in BOOLEAN /\ s.found \in Hits
    /\ s.asking => s.plan # <<>>

(* The breaker and the searches have the shape the steps count on.         *)
Shape ==
    /\ failure_count \in 0..FAILURE_THRESHOLD
    /\ open_for \in 0..OPEN_DURATION
    /\ lost \in Nat
    /\ at = [t \in Threads |-> at[t]]
    /\ called = [t \in Threads |-> called[t]]
    /\ \A t \in Threads : Shaped(at[t])

(* Each query lost while the circuit is closed was counted, and the count  *)
(* that opens it starts again when the period is over.                     *)
LostWhileClosed ==
    open_for = 0 => lost <= failure_count /\ lost <= FAILURE_THRESHOLD - 1

(* While it is open nobody can lose a query but those who had asked.       *)
LostWhileOpen ==
    open_for > 0 => lost + Cardinality(InFlight) <= FAILURE_THRESHOLD - 1 + Cardinality(Threads)

IInv == Shape /\ LostWhileClosed /\ LostWhileOpen

-----------------------------------------------------------------------------
LEMMA InFlightIsFinite ==
    /\ IsFiniteSet(InFlight) /\ Cardinality(InFlight) \in Nat
    /\ Cardinality(Threads) \in Nat
    /\ Cardinality(InFlight) <= Cardinality(Threads)
<1>1. InFlight \in SUBSET Threads /\ IsFiniteSet(Threads)
  BY BackendAssumption DEF InFlight
<1> QED
  BY <1>1, FS_Subset, FS_CardinalityType

(* A thread that is not, or no longer, asking leaves the queries of the    *)
(* others under way.                                                       *)
LEMMA OnlyOneThread ==
    ASSUME Shape, NEW t \in Threads, NEW p, NEW f, NEW n,
           at' = [at EXCEPT ![t] = [plan |-> p, asking |-> FALSE, found |-> f]],
           called' = [called EXCEPT ![t] = n]
    PROVE  InFlight' = InFlight \ {t}
<1>1. at'[t].asking = FALSE
  BY DEF Shape
<1>2. ASSUME NEW u \in Threads, u # t
      PROVE  at'[u] = at[u] /\ called'[u] = called[u]
  BY <1>2 DEF Shape
<1>3. ASSUME NEW u \in Threads, u # t
      PROVE  at'[u].asking /\ ThroughCircuit(u)' <=> at[u].asking /\ ThroughCircuit(u)
  BY <1>2, <1>3 DEF ThroughCircuit, search, query
<1> QED
  BY <1>1, <1>3 DEF InFlight

(* One query less under way, if the thread had one.                        *)
LEMMA OneQueryLess ==
    ASSUME NEW t \in Threads, InFlight' = InFlight \ {t}
    PROVE  /\ Cardinality(InFlight') \in Nat
           /\ Cardinality(InFlight') = IF t \in InFlight THEN Cardinality(InFlight) - 1
                                                         ELSE Cardinality(InFlight)
           /\ Cardinality(InFlight') <= Cardinality(Threads) - 1
<1>1. IsFiniteSet(InFlight) /\ IsFiniteSet(Threads)
  BY InFlightIsFinite, BackendAssumption
<1>2. /\ IsFiniteSet(InFlight \ {t})
      /\ Cardinality(InFlight \ {t}) = IF t \in InFlight THEN Cardinality(InFlight) - 1
                                                         ELSE Cardinality(InFlight)
  BY <1>1, FS_RemoveElement
<1>3. /\ IsFiniteSet(Threads \ {t})
      /\ Cardinality(Threads \ {t}) = Cardinality(Threads) - 1
  BY <1>1, FS_RemoveElement
<1>4. Cardinality(InFlight \ {t}) <= Cardinality(Threads \ {t})
  <2>1. InFlight \ {t} \in SUBSET (Threads \ {t})
    BY DEF InFlight
  <2> QED
    BY <1>3, <2>1, FS_Subset
<1>5. Cardinality(InFlight \ {t}) \in Nat
  BY <1>2, FS_CardinalityType
<1> QED
  BY <1>2, <1>3, <1>4, <1>5

-----------------------------------------------------------------------------
(* The searches keep their shape when one of them changes.                 *)
LEMMA ShapeOfSearches ==
    ASSUME Shape, NEW t \in Threads, NEW p, NEW a \in BOOLEAN, NEW f \in Hits, NEW n,
           a => p # <<>>,
           at' = [at EXCEPT ![t] = [plan |-> p, asking |-> a, found |-> f]],
           called' = [called EXCEPT ![t] = n]
    PROVE  /\ at' = [u \in Threads |-> at'[u]]
           /\ called' = [u \in Threads |-> called'[u]]
           /\ \A u \in Threads : Shaped(at'[u])
<1>1. at' = [u \in Threads |-> IF u = t THEN [plan |-> p, asking |-> a, found |-> f] ELSE at[u]]
  BY DEF Shape
<1>2. called' = [u \in Threads |-> IF u = t THEN n ELSE called[u]]
  BY DEF Shape
<1>3. ASSUME NEW u \in Threads
      PROVE  Shaped(at'[u])
  <2>1. CASE u = t
    <3>1. at'[u] = [plan |-> p, asking |-> a, found |-> f]
      BY <1>1, <2>1
    <3> QED
      BY <3>1 DEF Shaped
  <2>2. CASE u # t
    BY <1>1, <2>2 DEF Shape
  <2> QED
    BY <2>1, <2>2
<1> QED
  BY <1>1, <1>2, <1>3

(* What an answer makes of the hits are hits.                              *)
LEMMA FoundAreHits ==
    ASSUME NEW q, NEW found \in Hits, NEW got \in Hits
    PROVE  Found(q, found, got) \subseteq Hits
<1>1. Longer(found, got) \subseteq Hits
  BY DEF Longer, Hits
<1> QED
  BY <1>1 DEF Found

(* A failure, swallowed or not, ends the query.                            *)
LEMMA FailureEndsTheQuery ==
    ASSUME Shape, NEW t \in Threads, NEW failure, Failed(t, failure)
    PROVE  \E p, f, n :
              /\ f \in Hits
              /\ at' = [at EXCEPT ![t] = [plan |-> p, asking |-> FALSE, found |-> f]]
              /\ called' = [called EXCEPT ![t] = n]
<1>1. CASE <<query(t), failure>> \in search(t).spares
  <2>1. called = [called EXCEPT ![t] = called[t]]
    BY DEF Shape
  <2> QED
    BY <1>1, <2>1 DEF Failed, Shape, Shaped
<1>2. CASE <<query(t), failure>> \notin search(t).spares
  <2>1. "none" \in Hits
    BY DEF Hits
  <2> QED
    BY <1>2, <2>1 DEF Failed, Idle
<1> QED
  BY <1>1, <1>2

-----------------------------------------------------------------------------
(* The steps                                                               *)

LEMMA TypesOfTheCounts ==
    /\ FAILURE_THRESHOLD \in Nat \ {0} /\ OPEN_DURATION \in Nat \ {0}
    /\ Shape => failure_count \in Nat /\ open_for \in Nat /\ lost \in Nat
  BY BackendAssumption DEF Shape

(* A failure that is counted: of a query under way, lost or refused.       *)
LEMMA CountedFailure ==
    ASSUME IInv, NEW t \in Threads, t \in InFlight, NEW transport \in BOOLEAN,
           record_es_failure(transport), InFlight' = InFlight \ {t}
    PROVE  /\ LostWhileClosed' /\ LostWhileOpen'
           /\ failure_count' \in 0..FAILURE_THRESHOLD
           /\ open_for' \in 0..OPEN_DURATION
           /\ lost' \in Nat
<1> DEFINE count == IF failure_count < FAILURE_THRESHOLD THEN failure_count + 1 ELSE failure_count
<1>1. Shape /\ LostWhileClosed /\ LostWhileOpen
  BY DEF IInv
<1>2. /\ failure_count' = count
      /\ open_for' = IF count = FAILURE_THRESHOLD THEN OPEN_DURATION ELSE open_for
      /\ lost' = IF transport THEN lost + 1 ELSE lost
  BY DEF record_es_failure
<1>3. /\ Cardinality(InFlight)' = Cardinality(InFlight) - 1
      /\ Cardinality(InFlight)' \in Nat /\ Cardinality(InFlight) \in Nat
      /\ Cardinality(InFlight)' <= Cardinality(Threads) - 1
      /\ Cardinality(Threads) \in Nat
  BY OneQueryLess, InFlightIsFinite
<1>4. /\ count \in 0..FAILURE_THRESHOLD
      /\ count < FAILURE_THRESHOLD => count = failure_count + 1
      /\ lost' \in Nat /\ lost' <= lost + 1
  BY <1>1, <1>2, TypesOfTheCounts DEF Shape
<1>5. open_for' \in 0..OPEN_DURATION
  BY <1>1, <1>2, TypesOfTheCounts DEF Shape
<1>6. LostWhileClosed'
  <2>1. SUFFICES ASSUME open_for' = 0
                 PROVE  lost' <= failure_count' /\ lost' <= FAILURE_THRESHOLD - 1
    BY DEF LostWhileClosed
  <2>2. count < FAILURE_THRESHOLD /\ open_for = 0
    BY <1>2, <1>4, <2>1, TypesOfTheCounts
  <2> QED
    BY <1>1, <1>2, <1>4, <2>2, TypesOfTheCounts DEF LostWhileClosed
<1>7. LostWhileOpen'
  <2>1. SUFFICES ASSUME open_for' > 0
                 PROVE  lost' + Cardinality(InFlight)' <= FAILURE_THRESHOLD - 1 + Cardinality(Threads)
    BY DEF LostWhileOpen
  <2>2. CASE open_for = 0
    BY <1>1, <1>3, <1>4, <2>2, TypesOfTheCounts DEF LostWhileClosed
  <2>3. CASE open_for > 0
    BY <1>1, <1>3, <1>4, <2>3, TypesOfTheCounts DEF LostWhileOpen
  <2> QED
    BY <1>1, <2>2, <2>3, TypesOfTheCounts
<1> QED
  BY <1>2, <1>4, <1>5, <1>6, <1>7

(* Without a change of the breaker queries may only come to an end.        *)
LEMMA BreakerUntouched ==
    ASSUME IInv, UNCHANGED breaker, InFlight' \in SUBSET InFlight
    PROVE  /\ LostWhileClosed' /\ LostWhileOpen'
           /\ failure_count' \in 0..FAILURE_THRESHOLD
           /\ open_for' \in 0..OPEN_DURATION
           /\ lost' \in Nat
<1>1. Shape /\ LostWhileClosed /\ LostWhileOpen
  BY DEF IInv
<1>2. UNCHANGED <<failure_count, open_for, lost>>
  BY DEF breaker
<1>3. /\ Cardinality(InFlight)' \in Nat /\ Cardinality(InFlight) \in Nat
      /\ Cardinality(InFlight)' <= Cardinality(InFlight) /\ Cardinality(Threads) \in Nat
  BY InFlightIsFinite, FS_Subset, FS_CardinalityType
<1>4. LostWhileOpen'
  BY <1>1, <1>2, <1>3, TypesOfTheCounts DEF LostWhileOpen
<1> QED
  BY <1>1, <1>2, <1>4 DEF LostWhileClosed, Shape

LEMMA CallStep == ASSUME IInv, NEW t \in Threads, Call(t) PROVE IInv'
<1>1. Shape /\ UNCHANGED breaker
  BY DEF IInv, Call
<1>2. PICK s, p : /\ called' = [called EXCEPT ![t] = s]
                  /\ at' = [at EXCEPT ![t] = [plan |-> p, asking |-> FALSE, found |-> "none"]]
                  /\ "none" \in Hits
  BY DEF Call, Hits
<1>3. InFlight' = InFlight \ {t}
  BY <1>1, <1>2, OnlyOneThread
<1> QED
  BY <1>1, <1>2, <1>3, ShapeOfSearches, BreakerUntouched DEF IInv, Shape

LEMMA ReturnStep == ASSUME IInv, NEW t \in Threads, Return(t) PROVE IInv'
<1>1. Shape /\ UNCHANGED breaker
  BY DEF IInv, Return
<1>2. /\ called' = [called EXCEPT ![t] = "none"]
      /\ at' = [at EXCEPT ![t] = [plan |-> <<>>, asking |-> FALSE, found |-> "none"]]
      /\ "none" \in Hits
  BY DEF Return, Idle, Hits
<1>3. InFlight' = InFlight \ {t}
  BY <1>1, <1>2, OnlyOneThread
<1> QED
  BY <1>1, <1>2, <1>3, ShapeOfSearches, BreakerUntouched DEF IInv, Shape

LEMMA AnswerStep == ASSUME IInv, NEW t \in Threads, Answer(t) PROVE IInv'
<1>1. Shape /\ at[t].asking
  BY DEF IInv, Answer
<1>2. PICK p, f : f \in Hits /\ at' = [at EXCEPT ![t] = [plan |-> p, asking |-> FALSE, found |-> f]]
  <2>1. PICK got \in Hits : \E best \in Found(query(t), at[t].found, got) :
           at' = [at EXCEPT ![t] = [plan |-> Following(query(t), Tail(at[t].plan), got, best),
                                    asking |-> FALSE, found |-> best]]
    BY DEF Answer
  <2>2. at[t].found \in Hits
    BY <1>1 DEF Shape, Shaped
  <2>3. Found(query(t), at[t].found, got) \subseteq Hits
    BY <2>1, <2>2, FoundAreHits
  <2> QED
    BY <2>1, <2>3
<1>3. called' = [called EXCEPT ![t] = called[t]]
  BY <1>1 DEF Answer, Shape
<1>4. InFlight' = InFlight \ {t}
  BY <1>1, <1>2, <1>3, OnlyOneThread
<1>5. /\ at' = [u \in Threads |-> at'[u]] /\ called' = [u \in Threads |-> called'[u]]
      /\ \A u \in Threads : Shaped(at'[u])
  BY <1>1, <1>2, <1>3, ShapeOfSearches
<1>6. CASE ThroughCircuit(t)
  <2>1. failure_count' = 0 /\ open_for' = 0 /\ lost' = 0
    BY <1>6 DEF Answer, record_es_success
  <2> QED
    BY <1>5, <2>1, TypesOfTheCounts DEF IInv, Shape, LostWhileClosed, LostWhileOpen
<1>7. CASE ~ThroughCircuit(t)
  BY <1>4, <1>5, <1>7, BreakerUntouched DEF Answer, IInv, Shape
<1> QED
  BY <1>6, <1>7

LEMMA RefuseStep == ASSUME IInv, NEW t \in Threads, Refuse(t) PROVE IInv'
<1>1. Shape /\ at[t].asking
  BY DEF IInv, Refuse
<1>2. Failed(t, "refused")
  BY DEF Refuse
<1>3. PICK p, f, n :
        /\ f \in Hits
        /\ at' = [at EXCEPT ![t] = [plan |-> p, asking |-> FALSE, found |-> f]]
        /\ called' = [called EXCEPT ![t] = n]
  BY <1>1, <1>2, FailureEndsTheQuery
<1>4. InFlight' = InFlight \ {t}
  BY <1>1, <1>3, OnlyOneThread
<1>5. CASE ThroughCircuit(t)
  <2>1. t \in InFlight /\ record_es_failure(FALSE)
    BY <1>1, <1>5 DEF InFlight, Refuse
  <2> QED
    BY <1>1, <1>3, <1>4, <2>1, CountedFailure, ShapeOfSearches DEF IInv, Shape
<1>6. CASE ~ThroughCircuit(t)
  BY <1>1, <1>3, <1>4, <1>6, BreakerUntouched, ShapeOfSearches DEF Refuse, IInv, Shape
<1> QED
  BY <1>5, <1>6

LEMMA LoseStep == ASSUME IInv, NEW t \in Threads, Lose(t) PROVE IInv'
<1>1. Shape /\ at[t].asking
  BY DEF IInv, Lose
<1>2. \E failure : Failed(t, failure)
  BY DEF Lose
<1>3. PICK p, f, n :
        /\ f \in Hits
        /\ at' = [at EXCEPT ![t] = [plan |-> p, asking |-> FALSE, found |-> f]]
        /\ called' = [called EXCEPT ![t] = n]
  BY <1>1, <1>2, FailureEndsTheQuery
<1>4. InFlight' = InFlight \ {t}
  BY <1>1, <1>3, OnlyOneThread
<1>5. CASE ThroughCircuit(t)
  <2>1. t \in InFlight /\ record_es_failure(TRUE)
    BY <1>1, <1>5 DEF InFlight, Lose
  <2> QED
    BY <1>1, <1>3, <1>4, <2>1, CountedFailure, ShapeOfSearches DEF IInv, Shape
<1>6. CASE ~ThroughCircuit(t)
  BY <1>1, <1>3, <1>4, <1>6, BreakerUntouched, ShapeOfSearches DEF Lose, IInv, Shape
<1> QED
  BY <1>5, <1>6

(* While the circuit is open no query gets through it.                     *)
LEMMA AskStep == ASSUME IInv, NEW t \in Threads, Ask(t) PROVE IInv'
<1>1. Shape /\ ~at[t].asking /\ UNCHANGED breaker
  BY DEF IInv, Ask
<1>2. CASE ThroughCircuit(t) /\ ~is_es_available
  <2>1. Failed(t, "unavailable")
    BY <1>2 DEF Ask
  <2>2. PICK p, f, n :
        /\ f \in Hits
        /\ at' = [at EXCEPT ![t] = [plan |-> p, asking |-> FALSE, found |-> f]]
        /\ called' = [called EXCEPT ![t] = n]
    BY <1>1, <2>1, FailureEndsTheQuery
  <2>3. InFlight' = InFlight \ {t}
    BY <1>1, <2>2, OnlyOneThread
  <2> QED
    BY <1>1, <2>2, <2>3, BreakerUntouched, ShapeOfSearches DEF IInv, Shape
<1>3. CASE ~(ThroughCircuit(t) /\ ~is_es_available)
  <2>1. /\ at' = [at EXCEPT ![t] = [plan |-> at[t].plan, asking |-> TRUE, found |-> at[t].found]]
        /\ called' = [called EXCEPT ![t] = called[t]]
        /\ at[t].found \in Hits /\ at[t].plan # <<>>
    BY <1>1, <1>3 DEF Ask, Shape, Shaped
  <2>2. /\ at' = [u \in Threads |-> at'[u]] /\ called' = [u \in Threads |-> called'[u]]
        /\ \A u \in Threads : Shaped(at'[u])
    BY <1>1, <2>1, ShapeOfSearches
  <2>3. CASE is_es_available
    <3>1. open_for = 0 /\ UNCHANGED <<failure_count, open_for, lost>>
      BY <1>1, <2>3 DEF is_es_available, breaker
    <3> QED
      BY <2>2, <3>1, TypesOfTheCounts DEF IInv, Shape, LostWhileClosed, LostWhileOpen
  <2>4. CASE ~ThroughCircuit(t)
    <3>1. at'[t].plan = at[t].plan /\ called'[t] = called[t]
      BY <1>1, <2>1 DEF Shape
    <3>2. ~ThroughCircuit(t)'
      BY <2>4, <3>1 DEF ThroughCircuit, search, query
    <3>3. ASSUME NEW u \in Threads, u # t PROVE at'[u] = at[u] /\ called'[u] = called[u]
      BY <1>1, <2>1, <3>3 DEF Shape
    <3>4. ASSUME NEW u \in Threads, u # t
          PROVE  at'[u].asking /\ ThroughCircuit(u)' <=> at[u].asking /\ ThroughCircuit(u)
      BY <3>3, <3>4 DEF ThroughCircuit, search, query
    <3>5. InFlight' \in SUBSET InFlight
      BY <3>2, <3>4 DEF InFlight
    <3> QED
      BY <1>1, <2>2, <3>5, BreakerUntouched DEF IInv, Shape
  <2> QED
    BY <1>3, <2>3, <2>4
<1> QED
  BY <1>2, <1>3

(* The count of what was lost starts again when the circuit closes.        *)
LEMMA TickStep == ASSUME IInv, Tick PROVE IInv'
<1>1. /\ Shape /\ LostWhileOpen /\ open_for > 0 /\ open_for' = open_for - 1
      /\ lost' = IF open_for = 1 THEN 0 ELSE lost
      /\ UNCHANGED <<failure_count, at, called>>
  BY DEF IInv, Tick
<1>2. InFlight' = InFlight
  BY <1>1 DEF InFlight, ThroughCircuit, search, query
<1>3. Shape'
  BY <1>1, TypesOfTheCounts DEF Shape
<1>4. LostWhileClosed'
  BY <1>1, TypesOfTheCounts DEF LostWhileClosed, Shape
<1>5. LostWhileOpen'
  BY <1>1, <1>2, TypesOfTheCounts, InFlightIsFinite DEF LostWhileOpen
<1> QED
  BY <1>3, <1>4, <1>5 DEF IInv

LEMMA Inductive == Spec => []IInv
<1>1. Init => IInv
  <2>1. ASSUME Init PROVE \A t \in Threads : Shaped(at[t])
    BY <2>1 DEF Init, Idle, Shaped, Hits
  <2> QED
    BY <2>1, TypesOfTheCounts DEF Init, IInv, Shape, LostWhileClosed, LostWhileOpen
<1>2. IInv /\ [Next]_vars => IInv'
  <2>1. SUFFICES ASSUME IInv, [Next]_vars PROVE IInv'
    OBVIOUS
  <2>2. CASE Tick
    BY <2>1, <2>2, TickStep
  <2>3. ASSUME NEW t \in Threads, Call(t) PROVE IInv'
    BY <2>1, <2>3, CallStep
  <2>4. ASSUME NEW t \in Threads, Step(t) PROVE IInv'
    BY <2>1, <2>4, AskStep, AnswerStep, RefuseStep, LoseStep, ReturnStep DEF Step
  <2>5. CASE UNCHANGED vars
    <3>1. UNCHANGED <<failure_count, open_for, lost, at, called>>
      BY <2>5 DEF vars, breaker
    <3> QED
      BY <2>1, <3>1 DEF IInv, Shape, LostWhileClosed, LostWhileOpen, InFlight, ThroughCircuit, search, query
  <2> QED
    BY <2>1, <2>2, <2>3, <2>4, <2>5 DEF Next
<1> QED
  BY <1>1, <1>2, PTL DEF Spec

-----------------------------------------------------------------------------
(* The breaker keeps its counts in range, and a thread waits only for the  *)
(* answer to a query of its search.                                        *)
THEOREM TypeCorrect == Spec => []TypeOK
<1>1. IInv => TypeOK
  BY DEF IInv, Shape, Shaped, TypeOK
<1> QED
  BY <1>1, Inductive, PTL

(* However many threads search, whatever they search for, and whichever    *)
(* queries are lost, refused or answered in whichever order: an outage     *)
(* costs no more queries than the threshold and the threads account for.   *)
THEOREM AnOutageCostsFewQueries == Spec => []OutageCostsFewQueries
<1>1. IInv => OutageCostsFewQueries
  BY TypesOfTheCounts, InFlightIsFinite
     DEF IInv, LostWhileClosed, LostWhileOpen, OutageCostsFewQueries
<1> QED
  BY <1>1, Inductive, PTL

-----------------------------------------------------------------------------
(* Of a search come its own queries, and its own failures                  *)

QueryNames ==
    {"variation", "source", "unfiltered", "discover", "target", "find_act", "find_source", "section",
     "only", "embed", "table", "lookup", "act", "citation", "exact", "no_year", "swapped", "fuzzy",
     "single", "case_type", "any_type", "provision", "multi_tier", "relaxed"}

LEMMA PlansAreSequences ==
    \A name \in DOMAIN Catalogue : Catalogue[name].plans \subseteq Seq(QueryNames)
<1>1. /\ search_legislation.plans \subseteq Seq(QueryNames)
      /\ search_legislation_by_topic.plans \subseteq Seq(QueryNames)
      /\ search_legislation_multi_section.plans \subseteq Seq(QueryNames)
      /\ search_judgments.plans \subseteq Seq(QueryNames)
      /\ search_high_court.plans \subseteq Seq(QueryNames)
      /\ search_newacts.plans \subseteq Seq(QueryNames)
      /\ search_newacts_by_topic.plans \subseteq Seq(QueryNames)
      /\ get_nearby_sections.plans \subseteq Seq(QueryNames)
      /\ search_drafts.plans \subseteq Seq(QueryNames)
      /\ get_docs_by_source.plans \subseteq Seq(QueryNames)
      /\ search_constitution.plans \subseteq Seq(QueryNames)
      /\ search_constitution_by_part.plans \subseteq Seq(QueryNames)
      /\ search_legal_maxims.plans \subseteq Seq(QueryNames)
      /\ map_old_to_new_law.plans \subseteq Seq(QueryNames)
  BY DEF QueryNames, Search, search_legislation, search_legislation_by_topic, search_legislation_multi_section,
     search_judgments, search_high_court, search_newacts, search_newacts_by_topic,
     get_nearby_sections, search_drafts, get_docs_by_source, search_constitution,
     search_constitution_by_part, search_legal_maxims, map_old_to_new_law
<1>2. /\ legislation_agent_search.plans \subseteq Seq(QueryNames)
      /\ newacts_agent_search.plans \subseteq Seq(QueryNames)
      /\ newacts_agent_search_per_act.plans \subseteq Seq(QueryNames)
      /\ constitution_agent_search.plans \subseteq Seq(QueryNames)
      /\ Tool.plans \subseteq Seq(QueryNames)
  BY DEF QueryNames, Search, legislation_agent_search, newacts_agent_search, newacts_agent_search_per_act,
     constitution_agent_search, Tool
<1>3. smart_judgment_search.plans \subseteq Seq(QueryNames)
  <2>1. /\ CitationPlans \subseteq Seq(QueryNames) /\ PartyPlans \subseteq Seq(QueryNames)
        /\ CaseTypePlans \subseteq Seq(QueryNames) /\ ProvisionPlans \subseteq Seq(QueryNames)
        /\ <<"multi_tier", "relaxed">> \in Seq(QueryNames)
    BY DEF CitationPlans, PartyPlans, CaseTypePlans, ProvisionPlans, QueryNames
  <2> DEFINE InAll(c, p, t, l) == c \o p \o t \o l \o <<"multi_tier", "relaxed">>
  <2>2. smart_judgment_search.plans = {InAll(c, p, t, l) : c \in CitationPlans, p \in PartyPlans,
                                                          t \in CaseTypePlans, l \in ProvisionPlans}
    BY DEF smart_judgment_search, Search
  <2>3. ASSUME NEW c \in Seq(QueryNames), NEW p \in Seq(QueryNames), NEW t \in Seq(QueryNames),
               NEW l \in Seq(QueryNames)
        PROVE  InAll(c, p, t, l) \in Seq(QueryNames)
    <3>1. c \o p \in Seq(QueryNames)
      BY ConcatProperties
    <3>2. c \o p \o t \in Seq(QueryNames)
      BY <3>1, ConcatProperties
    <3>3. c \o p \o t \o l \in Seq(QueryNames)
      BY <3>2, ConcatProperties
    <3> QED
      BY <2>1, <3>3, ConcatProperties
  <2> HIDE DEF InAll
  <2>4. ASSUME NEW plan \in smart_judgment_search.plans
        PROVE  \E c \in CitationPlans, p \in PartyPlans, t \in CaseTypePlans, l \in ProvisionPlans :
                  plan = InAll(c, p, t, l)
    BY <2>2
  <2> QED
    BY <2>1, <2>3, <2>4
<1>4. ASSUME NEW name \in DOMAIN Catalogue
      PROVE  Catalogue[name] \in
               {search_legislation, search_legislation_by_topic, search_legislation_multi_section,
                search_judgments, search_high_court, search_newacts, search_newacts_by_topic,
                get_nearby_sections, search_drafts, get_docs_by_source, search_constitution,
                search_constitution_by_part, search_legal_maxims, map_old_to_new_law,
                legislation_agent_search, newacts_agent_search, newacts_agent_search_per_act,
                constitution_agent_search, smart_judgment_search, Tool}
  BY DEF Catalogue, sci_search_by_topic, sci_search_by_keyword, sci_search_by_case_number,
     sci_search_by_party_name, sci_search_by_date_range, sci_search_by_judge, sci_get_case_details,
     gst_search_by_topic, gst_search_by_keyword, gst_search_by_case_number,
     gst_search_by_party_name, gst_search_by_date_range, gst_search_by_state, gst_get_case_details
<1> QED
  BY <1>1, <1>2, <1>3, <1>4

(* A sequence of queries, each of them one of a set.                       *)
Queries(plan, S) == plan \in Seq(QueryNames) /\ \A i \in 1..Len(plan) : plan[i] \in S

(* All the queries a search may ask.                                       *)
Asked(name) == UNION {{plan[i] : i \in 1..Len(plan)} : plan \in Catalogue[name].plans}

LEMMA TailOfPlan ==
    ASSUME NEW S, NEW plan, Queries(plan, S), plan # <<>>
    PROVE  Queries(Tail(plan), S) /\ Head(plan) \in S
<1>1. /\ Tail(plan) \in Seq(QueryNames) /\ Len(Tail(plan)) = Len(plan) - 1
      /\ \A i \in 1..Len(Tail(plan)) : Tail(plan)[i] = plan[i + 1]
  BY HeadTailProperties DEF Queries
<1>2. Len(plan) \in Nat /\ Len(plan) # 0 /\ Head(plan) = plan[1]
  BY EmptySeq DEF Queries
<1>3. 1 \in 1..Len(plan) /\ \A i \in 1..Len(plan) - 1 : i + 1 \in 1..Len(plan)
  BY <1>2
<1> QED
  BY <1>1, <1>2, <1>3 DEF Queries

(* Skipping leaves the queries at the end.                                 *)
LEMMA SkippingKeepsTheRest ==
    ASSUME NEW S, NEW rest, Queries(rest, S), NEW q
    PROVE  Queries(Without(rest, q), S)
<1> DEFINE E == Others(rest, q)
<1>1. Len(rest) \in Nat
  BY DEF Queries
<1>2. E \subseteq Nat /\ E \subseteq 0..Len(rest) /\ Len(rest) \in E
  BY <1>1 DEF Others
<1>3. PICK least \in E : \A m \in E : least <= m
  <2>1. PICK n \in E : \A m \in E : ~(<<m, n>> \in OpToRel(<, Nat))
    <3> HIDE DEF E
    <3> QED
      BY <1>2, WFMin, NatLessThanWellFounded
  <2>2. ASSUME NEW m \in E PROVE n <= m
    <3>1. n \in Nat /\ m \in Nat
      BY <1>2, <2>1
    <3>2. ~(m < n)
      BY <2>1, <3>1 DEF OpToRel
    <3> QED
      BY <3>1, <3>2
  <2> QED
    BY <2>1, <2>2
<1>4. Min(E) \in E
  <2> HIDE DEF E
  <2> QED
    BY <1>3 DEF Min
<1> DEFINE n == Min(E)
<1>5. n \in 0..Len(rest)
  BY <1>2, <1>4
<1>6. Without(rest, q) = SubSeq(rest, n + 1, Len(rest))
  BY DEF Without
<1> HIDE DEF n
<1>7. n + 1 \in Int /\ Len(rest) \in Int /\ \A i \in (n + 1)..Len(rest) : i \in 1..Len(rest) /\ rest[i] \in QueryNames
  BY <1>1, <1>5 DEF Queries
<1>8. /\ SubSeq(rest, n + 1, Len(rest)) \in Seq(QueryNames)
      /\ Len(SubSeq(rest, n + 1, Len(rest))) = IF n + 1 <= Len(rest) THEN Len(rest) - (n + 1) + 1 ELSE 0
      /\ \A i \in 1..Len(rest) - (n + 1) + 1 : SubSeq(rest, n + 1, Len(rest))[i] = rest[(n + 1) + i - 1]
  BY <1>7, SubSeqProperties
<1>9. ASSUME NEW i \in 1..Len(SubSeq(rest, n + 1, Len(rest)))
      PROVE  SubSeq(rest, n + 1, Len(rest))[i] \in S
  <2>1. n + 1 <= Len(rest) /\ i \in 1..Len(rest) - (n + 1) + 1
    BY <1>1, <1>5, <1>8
  <2>2. (n + 1) + i - 1 \in 1..Len(rest)
    BY <1>1, <1>5, <2>1
  <2> QED
    BY <1>8, <2>1, <2>2 DEF Queries
<1> QED
  BY <1>6, <1>8, <1>9 DEF Queries

(* An answer shortens the plan, and adds nothing to it.                    *)
LEMMA FollowingKeepsTheRest ==
    ASSUME NEW S, NEW rest, Queries(rest, S), NEW q, NEW got, NEW found
    PROVE  Queries(Following(q, rest, got, found), S)
<1>1. Queries(<<>>, S)
  BY DEF Queries
<1>2. Following(q, rest, got, found) \in
         {rest, <<>>, Without(rest, "variation"), Without(rest, "find_source"),
          Without(rest, "any_type"), Without(rest, "no_year")}
  BY DEF Following
<1> QED
  BY <1>1, <1>2, SkippingKeepsTheRest

-----------------------------------------------------------------------------
(* A thread runs a search of its own, or none, and has queries of that     *)
(* search left only.                                                       *)
OwnQueries(t) ==
    /\ called[t] \in {"none"} \cup DOMAIN Catalogue
    /\ called[t] = "none" => at[t].plan = <<>>
    /\ Queries(at[t].plan, Asked(called[t]))

Own == \A t \in Threads : OwnQueries(t)

LEMMA NoneIsNoSearch == "none" \notin DOMAIN Catalogue
  BY DEF Catalogue

(* What a failure that is not swallowed comes back as is an outcome of the *)
(* search.                                                                 *)
LEMMA FailureIsAnOutcome ==
    ASSUME Own, NEW t \in Threads, at[t].plan # <<>>,
           NEW failure \in Failures, failure \in CanFail(search(t), query(t)),
           <<query(t), failure>> \notin search(t).spares
    PROVE  /\ called[t] \in DOMAIN Catalogue
           /\ (IF search(t).tells THEN "message" ELSE failure) \in Outcomes[called[t]]
<1>1. called[t] \in DOMAIN Catalogue /\ Queries(at[t].plan, Asked(called[t]))
  BY DEF Own, OwnQueries
<1>2. query(t) \in Asked(called[t])
  BY <1>1, TailOfPlan DEF query
<1>3. PICK plan \in search(t).plans : \E i \in 1..Len(plan) : query(t) = plan[i]
  BY <1>2 DEF Asked, search
<1>4. failure \in Raises(search(t))
  BY <1>3 DEF Raises
<1>5. Outcomes[called[t]] = {"hits", "empty"} \cup IF search(t).tells THEN {"message"} ELSE Raises(search(t))
  BY <1>1 DEF Outcomes, search
<1> QED
  BY <1>1, <1>4, <1>5

(* A query that fails is swallowed, or ends the search as promised.        *)
LEMMA FailedKeepsThePromise ==
    ASSUME Own, NEW t \in Threads, at[t].plan # <<>>,
           NEW failure \in Failures, failure \in CanFail(search(t), query(t)),
           Failed(t, failure)
    PROVE  Promise!Return(t) \/ UNCHANGED <<called, returned>>
<1>1. CASE <<query(t), failure>> \in search(t).spares
  BY <1>1 DEF Failed
<1>2. CASE <<query(t), failure>> \notin search(t).spares
  <2>1. /\ called[t] \in DOMAIN Catalogue
        /\ (IF search(t).tells THEN "message" ELSE failure) \in Outcomes[called[t]]
    BY <1>2, FailureIsAnOutcome
  <2>2. /\ returned' = [returned EXCEPT ![t] = IF search(t).tells THEN "message" ELSE failure]
        /\ called' = [called EXCEPT ![t] = "none"]
    BY <1>2 DEF Failed
  <2> QED
    BY <2>1, <2>2, NoneIsNoSearch DEF Promise!Return
<1> QED
  BY <1>1, <1>2

(* The queries that pass the breaker fail as "unavailable", or as refused; *)
(* the others as the client's error.                                       *)
LEMMA KindsOfFailure ==
    ASSUME NEW t \in Threads
    PROVE  /\ "refused" \in Failures /\ "unavailable" \in Failures /\ "broken" \in Failures
           /\ ThroughCircuit(t) => "unavailable" \in CanFail(search(t), query(t))
           /\ ~ThroughCircuit(t) /\ query(t) # "table" => "broken" \in CanFail(search(t), query(t))
  BY DEF Failures, ThroughCircuit, CanFail

(* Every step of a thread is one of the promise, or none.                  *)
LEMMA StepKeepsThePromise ==
    ASSUME Shape, Own, NEW t \in Threads, Call(t) \/ Step(t)
    PROVE  Promise!Call(t) \/ Promise!Return(t) \/ UNCHANGED <<called, returned>>
<1>1. at[t].asking => at[t].plan # <<>>
  BY DEF Shape, Shaped
<1>2. CASE Call(t)
  BY <1>2 DEF Call, Promise!Call
<1>3. CASE Ask(t)
  <2>1. CASE ThroughCircuit(t) /\ ~is_es_available
    BY <1>3, <2>1, KindsOfFailure, FailedKeepsThePromise DEF Ask
  <2> QED
    BY <1>3, <2>1 DEF Ask
<1>4. CASE Answer(t)
  BY <1>4 DEF Answer
<1>5. CASE Refuse(t)
  BY <1>1, <1>5, KindsOfFailure, FailedKeepsThePromise DEF Refuse
<1>6. CASE Lose(t)
  BY <1>1, <1>6, KindsOfFailure, FailedKeepsThePromise DEF Lose
<1>7. CASE Return(t)
  <2>1. called[t] \in DOMAIN Catalogue
    BY <1>7 DEF Return, Own, OwnQueries
  <2>2. (IF at[t].found = "none" THEN "empty" ELSE "hits") \in Outcomes[called[t]]
    BY <2>1 DEF Outcomes
  <2> QED
    BY <1>7, <2>2 DEF Return, Promise!Return
<1> QED
  BY <1>2, <1>3, <1>4, <1>5, <1>6, <1>7 DEF Step

LEMMA NothingLeft == ASSUME NEW S PROVE Queries(<<>>, S)
  BY DEF Queries

(* A thread whose search changes; those of the others are what they were.  *)
LEMMA OwnOneThread ==
    ASSUME Shape, Own, NEW t \in Threads, NEW p, NEW a, NEW f, NEW n,
           at' = [at EXCEPT ![t] = [plan |-> p, asking |-> a, found |-> f]],
           called' = [called EXCEPT ![t] = n],
           n \in {"none"} \cup DOMAIN Catalogue, n = "none" => p = <<>>, Queries(p, Asked(n))
    PROVE  Own'
<1>1. ASSUME NEW u \in Threads PROVE OwnQueries(u)'
  <2>1. CASE u = t
    <3>1. at'[u].plan = p /\ called'[u] = n
      BY <2>1 DEF Shape
    <3> QED
      BY <3>1 DEF OwnQueries
  <2>2. CASE u # t
    <3>1. at'[u] = at[u] /\ called'[u] = called[u]
      BY <2>2 DEF Shape
    <3> QED
      BY <3>1 DEF Own, OwnQueries
  <2> QED
    BY <2>1, <2>2
<1> QED
  BY <1>1 DEF Own

LEMMA FailedKeepsOwn ==
    ASSUME Shape, Own, NEW t \in Threads, at[t].plan # <<>>, NEW failure, Failed(t, failure)
    PROVE  Own'
<1>1. CASE <<query(t), failure>> \in search(t).spares
  <2> DEFINE p == Following(query(t), Tail(at[t].plan), "none", at[t].found)
  <2>1. /\ at' = [at EXCEPT ![t] = [plan |-> p, asking |-> FALSE, found |-> at[t].found]]
        /\ called' = [called EXCEPT ![t] = called[t]]
    BY <1>1 DEF Failed, Shape
  <2>2. called[t] \in DOMAIN Catalogue /\ Queries(at[t].plan, Asked(called[t]))
    BY DEF Own, OwnQueries
  <2>3. Queries(p, Asked(called[t]))
    BY <2>2, TailOfPlan, FollowingKeepsTheRest
  <2> HIDE DEF p
  <2> QED
    BY <2>1, <2>2, <2>3, NoneIsNoSearch, OwnOneThread
<1>2. CASE <<query(t), failure>> \notin search(t).spares
  <2>1. /\ at' = [at EXCEPT ![t] = [plan |-> <<>>, asking |-> FALSE, found |-> "none"]]
        /\ called' = [called EXCEPT ![t] = "none"]
    BY <1>2 DEF Failed, Idle
  <2> QED
    BY <2>1, NothingLeft, OwnOneThread
<1> QED
  BY <1>1, <1>2

LEMMA StepKeepsOwn ==
    ASSUME Shape, Own, NEW t \in Threads, Call(t) \/ Step(t)
    PROVE  Own'
<1>1. (at[t].asking => at[t].plan # <<>>) /\ called = [called EXCEPT ![t] = called[t]]
  BY DEF Shape, Shaped
<1>2. CASE Call(t)
  <2>1. PICK s \in Searches[t] :
           /\ called' = [called EXCEPT ![t] = s]
           /\ \E p \in Catalogue[s].plans :
                 at' = [at EXCEPT ![t] = [plan |-> p, asking |-> FALSE, found |-> "none"]]
    BY <1>2 DEF Call
  <2>2. PICK p \in Catalogue[s].plans :
           at' = [at EXCEPT ![t] = [plan |-> p, asking |-> FALSE, found |-> "none"]]
    BY <2>1
  <2>3. s \in DOMAIN Catalogue
    BY BackendAssumption
  <2>4. Queries(p, Asked(s))
    BY <2>3, PlansAreSequences DEF Queries, Asked
  <2> QED
    BY <2>1, <2>2, <2>3, <2>4, NoneIsNoSearch, OwnOneThread
<1>3. CASE Ask(t)
  <2>1. CASE ThroughCircuit(t) /\ ~is_es_available
    BY <1>3, <2>1, FailedKeepsOwn DEF Ask
  <2>2. CASE ~(ThroughCircuit(t) /\ ~is_es_available)
    <3>1. /\ at' = [at EXCEPT ![t] = [plan |-> at[t].plan, asking |-> TRUE, found |-> at[t].found]]
          /\ called' = [called EXCEPT ![t] = called[t]]
      BY <1>3, <2>2 DEF Ask, Shape, Shaped
    <3> QED
      BY <3>1, OwnOneThread DEF Own, OwnQueries
  <2> QED
    BY <2>1, <2>2
<1>4. CASE Answer(t)
  <2>1. PICK got \in Hits : \E best \in Found(query(t), at[t].found, got) :
           at' = [at EXCEPT ![t] = [plan |-> Following(query(t), Tail(at[t].plan), got, best),
                                    asking |-> FALSE, found |-> best]]
    BY <1>4 DEF Answer
  <2>2. PICK best : at' = [at EXCEPT ![t] = [plan |-> Following(query(t), Tail(at[t].plan), got, best),
                                             asking |-> FALSE, found |-> best]]
    BY <2>1
  <2> DEFINE p == Following(query(t), Tail(at[t].plan), got, best)
  <2>3. at[t].plan # <<>> /\ called[t] \in DOMAIN Catalogue /\ Queries(at[t].plan, Asked(called[t]))
    BY <1>1, <1>4 DEF Answer, Own, OwnQueries
  <2>4. Queries(p, Asked(called[t]))
    BY <2>3, TailOfPlan, FollowingKeepsTheRest
  <2>5. called' = [called EXCEPT ![t] = called[t]]
    BY <1>1, <1>4 DEF Answer
  <2> HIDE DEF p
  <2>6. at' = [at EXCEPT ![t] = [plan |-> p, asking |-> FALSE, found |-> best]]
    BY <2>2 DEF p
  <2> QED
    BY <2>3, <2>4, <2>5, <2>6, NoneIsNoSearch, OwnOneThread
<1>5. CASE Refuse(t)
  BY <1>1, <1>5, FailedKeepsOwn DEF Refuse
<1>6. CASE Lose(t)
  BY <1>1, <1>6, FailedKeepsOwn DEF Lose
<1>7. CASE Return(t)
  <2>1. /\ at' = [at EXCEPT ![t] = [plan |-> <<>>, asking |-> FALSE, found |-> "none"]]
        /\ called' = [called EXCEPT ![t] = "none"]
    BY <1>7 DEF Return, Idle
  <2> QED
    BY <2>1, NothingLeft, OwnOneThread
<1> QED
  BY <1>2, <1>3, <1>4, <1>5, <1>6, <1>7 DEF Step

LEMMA OwnInductive == Spec => []Own
<1>1. Init => Own
  <2> SUFFICES ASSUME Init, NEW t \in Threads PROVE OwnQueries(t)
    BY DEF Own
  <2>1. at[t].plan = <<>> /\ called[t] = "none"
    BY DEF Init, Idle
  <2> QED
    BY <2>1, NothingLeft DEF OwnQueries
<1>2. IInv /\ Own /\ [Next]_vars => Own'
  <2>1. SUFFICES ASSUME IInv, Own, [Next]_vars PROVE Own'
    OBVIOUS
  <2>2. CASE Tick \/ UNCHANGED vars
    BY <2>1, <2>2 DEF Tick, vars, Own, OwnQueries
  <2>3. ASSUME NEW t \in Threads, Call(t) \/ Step(t) PROVE Own'
    BY <2>1, <2>3, StepKeepsOwn DEF IInv
  <2> QED
    BY <2>1, <2>2, <2>3 DEF Next
<1> QED
  BY <1>1, <1>2, Inductive, PTL DEF Spec

(* Query by query, refused, lost or held back by the open circuit: what a  *)
(* thread does is a search called and one of its outcomes returned, or     *)
(* nothing its caller sees.                                                *)
THEOREM SearchesImplementThePromise == Spec => Promise!Safety
<1>1. Init => Promise!Init
  BY DEF Init, Promise!Init
<1>2. IInv /\ Own /\ [Next]_vars => [Promise!Next]_<<called, returned>>
  <2>1. SUFFICES ASSUME IInv, Own, [Next]_vars PROVE [Promise!Next]_<<called, returned>>
    OBVIOUS
  <2>2. CASE Tick \/ UNCHANGED vars
    BY <2>2 DEF Tick, vars
  <2>3. ASSUME NEW t \in Threads, Call(t) \/ Step(t) PROVE [Promise!Next]_<<called, returned>>
    BY <2>1, <2>3, StepKeepsThePromise DEF IInv, Promise!Next
  <2> QED
    BY <2>1, <2>2, <2>3 DEF Next
<1> QED
  BY <1>1, <1>2, Inductive, OwnInductive, PTL DEF Spec, Promise!Safety
=============================================================================
