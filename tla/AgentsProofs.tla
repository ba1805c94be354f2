---------------------------- MODULE AgentsProofs ----------------------------
(***************************************************************************)
(* What the flags of the agents' results say and what the page of an agent *)
(* alone shows, for every plan and whatever the searches, the model and    *)
(* the web come to; and that every step brings its writer nearer to its    *)
(* end.                                                                    *)
(***************************************************************************)
EXTENDS Agents, SequenceTheorems, TLAPS

(* What rests on hits when nothing marks it as web search or error.        *)
Grounded(h, r) == ~r.web /\ ~r.error => h # "none" /\ (r.text = "sorry" => h = "cross")

(* Agent a under plan p stands at x, has found h, is at attempt n with s   *)
(* pieces sent, and holds r.                                               *)
Knows(p, a, x, h, n, s, r) ==
    /\ h \in {"none", "found", "exact", "cross"} /\ n \in 0..4 /\ s \in 0..2
    /\ x \in {"search", "again", "judge", "ask"} => n = 0
    /\ x = "ask" => a \notin Retrieving
    /\ x # "generate" => n <= 3 \/ r # NoResult
    /\ x # "done" => r = NoResult
    /\ r.text = "web" => r.web
    /\ a \in Retrieving /\ x \in {"judge", "generate"} => h # "none"
    /\ a \in p \cap Retrieving /\ x = "done" => Grounded(h, r)
    /\ a \notin p => x = "done"

(* The orchestrator stands at x: once it has left its place every agent of *)
(* the plan is done, and what it has the cache remember used no web search.*)
Orchestrates(p, x, n, s, everyone, cache) ==
    /\ n \in 0..4 /\ s \in 0..2
    /\ x = "wait" => n = 0
    /\ x \in {"web", "web_twice"} => n <= 3
    /\ x # "wait" => everyone
    /\ cache \in BOOLEAN /\ (cache => x = "over")

AllDone == \A a \in plan : at[a] = "done"
NoWebText == \A a \in plan : result[a].text # "web"

IInv ==
    /\ plan \in Plans /\ plan \subseteq Agents
    /\ at = [w \in Writers |-> at[w]] /\ hits = [a \in Agents |-> hits[a]]
    /\ attempt = [w \in Writers |-> attempt[w]] /\ sent = [w \in Writers |-> sent[w]]
    /\ result = [a \in Agents |-> result[a]]
    /\ \A a \in Agents : Knows(plan, a, at[a], hits[a], attempt[a], sent[a], result[a])
    /\ Orchestrates(plan, at["Orchestrator"], attempt["Orchestrator"], sent["Orchestrator"],
                    AllDone, cached)
    /\ cached => NoWebText

-----------------------------------------------------------------------------
LEMMA NotAnAgent == "Orchestrator" \notin Agents /\ Agents \subseteq Writers /\ "Orchestrator" \in Writers
  BY DEF Agents, Writers, Retrieving, Reacting

LEMMA Same ==
    ASSUME IInv, NEW w \in Writers
    PROVE  /\ at = [at EXCEPT ![w] = at[w]] /\ attempt = [attempt EXCEPT ![w] = attempt[w]]
           /\ sent = [sent EXCEPT ![w] = sent[w]]
           /\ hits = [hits EXCEPT ![w] = hits[w]] /\ result = [result EXCEPT ![w] = result[w]]
<1>1. at = [at EXCEPT ![w] = at[w]]
  BY DEF IInv
<1>2. attempt = [attempt EXCEPT ![w] = attempt[w]]
  BY DEF IInv
<1>3. sent = [sent EXCEPT ![w] = sent[w]]
  BY DEF IInv
<1>4. hits = [hits EXCEPT ![w] = hits[w]]
  BY DEF IInv
<1>5. result = [result EXCEPT ![w] = result[w]]
  BY DEF IInv
<1> QED
  BY <1>1, <1>2, <1>3, <1>4, <1>5

(* An agent moves while the orchestrator waits, and moves nobody else.     *)
LEMMA AgentMoves ==
    ASSUME IInv, NEW a \in Agents, at[a] # "done",
           NEW x, NEW h, NEW n, NEW s, NEW r,
           at' = [at EXCEPT ![a] = x], hits' = [hits EXCEPT ![a] = h],
           attempt' = [attempt EXCEPT ![a] = n], sent' = [sent EXCEPT ![a] = s],
           result' = [result EXCEPT ![a] = r], UNCHANGED <<plan, cached>>,
           a \in plan => Knows(plan, a, x, h, n, s, r)
    PROVE  IInv'
<1>1. a \in plan
  BY DEF IInv, Knows
<1>2. /\ at[a] # "done" /\ at["Orchestrator"] = "wait" /\ cached = FALSE
  BY <1>1 DEF IInv, Orchestrates, AllDone
<1>3. /\ at'["Orchestrator"] = at["Orchestrator"] /\ attempt'["Orchestrator"] = attempt["Orchestrator"]
      /\ sent'["Orchestrator"] = sent["Orchestrator"]
  BY NotAnAgent DEF IInv
<1>4. Orchestrates(plan', at'["Orchestrator"], attempt'["Orchestrator"], sent'["Orchestrator"],
                   AllDone', cached')
  BY <1>2, <1>3 DEF IInv, Orchestrates
<1>5. ASSUME NEW b \in Agents
      PROVE  Knows(plan', b, at'[b], hits'[b], attempt'[b], sent'[b], result'[b])
  <2>1. CASE b = a
    <3>1. /\ at'[a] = x /\ hits'[a] = h /\ attempt'[a] = n /\ sent'[a] = s /\ result'[a] = r
      BY NotAnAgent DEF IInv
    <3> QED
      BY <1>1, <2>1, <3>1
  <2>2. CASE b # a
    <3>1. /\ at'[b] = at[b] /\ hits'[b] = hits[b] /\ attempt'[b] = attempt[b]
          /\ sent'[b] = sent[b] /\ result'[b] = result[b]
      BY <2>2, NotAnAgent DEF IInv
    <3> QED
      BY <3>1 DEF IInv
  <2> QED
    BY <2>1, <2>2
<1>6. /\ at' = [w \in Writers |-> at'[w]] /\ hits' = [b \in Agents |-> hits'[b]]
      /\ attempt' = [w \in Writers |-> attempt'[w]] /\ sent' = [w \in Writers |-> sent'[w]]
      /\ result' = [b \in Agents |-> result'[b]]
  BY DEF IInv
<1> QED
  BY <1>2, <1>4, <1>5, <1>6 DEF IInv

(* The orchestrator moves and no agent does.                               *)
LEMMA OrchestratorMoves ==
    ASSUME IInv, NEW x, NEW n, NEW s,
           at' = [at EXCEPT !["Orchestrator"] = x],
           attempt' = [attempt EXCEPT !["Orchestrator"] = n],
           sent' = [sent EXCEPT !["Orchestrator"] = s],
           UNCHANGED <<plan, hits, result>>,
           Orchestrates(plan, x, n, s, AllDone, cached'),
           cached' => NoWebText
    PROVE  IInv'
<1>1. ASSUME NEW b \in Agents
      PROVE  at'[b] = at[b] /\ attempt'[b] = attempt[b] /\ sent'[b] = sent[b]
  BY NotAnAgent DEF IInv
<1>2. /\ at'["Orchestrator"] = x /\ attempt'["Orchestrator"] = n /\ sent'["Orchestrator"] = s
  BY NotAnAgent DEF IInv
<1>3. /\ at' = [w \in Writers |-> at'[w]] /\ attempt' = [w \in Writers |-> attempt'[w]]
      /\ sent' = [w \in Writers |-> sent'[w]]
  BY DEF IInv
<1>4. AllDone' = AllDone /\ (NoWebText' <=> NoWebText)
  BY <1>1 DEF AllDone, NoWebText, IInv
<1>5. \A b \in Agents : Knows(plan', b, at'[b], hits'[b], attempt'[b], sent'[b], result'[b])
  BY <1>1 DEF IInv
<1>6. Orchestrates(plan', at'["Orchestrator"], attempt'["Orchestrator"], sent'["Orchestrator"],
                   AllDone', cached')
  BY <1>2, <1>4
<1>7. plan' \in Plans /\ plan' \subseteq Agents
  BY DEF IInv
<1>8. hits' = [b \in Agents |-> hits'[b]] /\ result' = [b \in Agents |-> result'[b]]
  BY DEF IInv
<1> QED
  BY <1>3, <1>4, <1>5, <1>6, <1>7, <1>8 DEF IInv

-----------------------------------------------------------------------------
(* The searches                                                            *)

LEMMA FoundIsKnown ==
    /\ \A outcomes : Found(outcomes) \subseteq {"found", "none", "error"}
    /\ \A outcomes : Swallowed(outcomes) \subseteq {"found", "none"}
    /\ \A outcomes : Tolerant(outcomes) \subseteq {"found", "none", "error"}
  BY DEF Found, Swallowed, Tolerant

LEMMA FindsAreKnown ==
    ASSUME NEW a
    PROVE  /\ Finds(a) \subseteq {"found", "exact", "cross", "none", "error"}
           /\ FindsAgain(a) \subseteq {"found", "exact", "cross", "none", "error"}
<1> DEFINE F == {"found", "none", "error"}
           G == {"found", "exact", "cross", "none", "error"}
<1>1. LegislationFinds \subseteq F /\ ByTopic \subseteq F /\ ConstitutionFinds \subseteq F
  BY FoundIsKnown DEF LegislationFinds, ByTopic, ConstitutionFinds
<1>2. OneAct \subseteq F
  BY <1>1, FoundIsKnown DEF OneAct
<1>3. \A found : found \subseteq F => Exactly(found) \subseteq G
  BY DEF Exactly
<1>4. CrossFinds \subseteq G
  <2> DEFINE S == Found(CrossActs) \cup Swallowed(Outcomes["search_newacts_by_topic"])
                  \cup IF "broken" \in CrossActs THEN ByTopic ELSE {}
  <2>1. S \subseteq F
    BY <1>1, FoundIsKnown
  <2>2. CrossFinds = {IF h = "found" THEN "cross" ELSE h : h \in S}
    BY DEF CrossFinds
  <2> HIDE DEF S
  <2> QED
    BY <2>1, <2>2
<1>5. NewactsFinds \subseteq G
  BY <1>1, <1>2, <1>3, <1>4, FoundIsKnown DEF NewactsFinds
<1>6. JudgmentFinds \subseteq G
  BY <1>3, FoundIsKnown DEF JudgmentFinds
<1>7. /\ Swallowed(Outcomes["legislation_agent_search"]) \subseteq F
      /\ Exactly(Swallowed(Outcomes["newacts_agent_search"])) \subseteq G
      /\ Exactly(Swallowed(Outcomes["smart_judgment_search"])) \subseteq G
  BY <1>3, FoundIsKnown
<1>8. Finds(a) \subseteq G
  BY <1>1, <1>5, <1>6 DEF Finds
<1>9. FindsAgain(a) \subseteq G
  BY <1>7 DEF FindsAgain
<1> QED
  BY <1>8, <1>9

LEMMA Own ==
    ASSUME IInv, NEW a \in Agents
    PROVE  Knows(plan, a, at[a], hits[a], attempt[a], sent[a], result[a]) /\ a \in Writers
  BY NotAnAgent DEF IInv

LEMMA Raises1 == /\ Raised.error = TRUE /\ Raised.text = "none" /\ Raised # NoResult
                 /\ NoResult.text = "none"
  BY DEF Raised, Result, NoResult

(* Whatever a search comes to: judged or generated is only what was found. *)
LEMMA LookUpStep == ASSUME IInv, NEW a \in Agents, LookUp(a) PROVE IInv'
<1>1. PICK found \in IF at[a] = "search" THEN Finds(a) ELSE FindsAgain(a) :
          /\ Go(a, AfterSearch(a, found))
          /\ IF found = "error" THEN Hold(a, Raised) /\ UNCHANGED hits
             ELSE hits' = [hits EXCEPT ![a] = found] /\ UNCHANGED result
  BY DEF LookUp
<1>2. found \in {"found", "exact", "cross", "none", "error"}
  BY FindsAreKnown
<1>3. at[a] \in {"search", "again"} /\ UNCHANGED <<plan, attempt, sent, cached>>
  BY DEF LookUp
<1>4. Knows(plan, a, at[a], hits[a], attempt[a], sent[a], result[a]) /\ a \in Writers
  BY Own
<1>5. attempt' = [attempt EXCEPT ![a] = attempt[a]] /\ sent' = [sent EXCEPT ![a] = sent[a]]
  BY <1>3, <1>4, Same
<1>6. attempt[a] = 0 /\ result[a] = NoResult
  BY <1>3, <1>4 DEF Knows
<1>7. at[a] # "done" /\ UNCHANGED <<plan, cached>>
  BY <1>3
<1>8. CASE found = "error"
  <2>1. /\ at' = [at EXCEPT ![a] = "done"] /\ result' = [result EXCEPT ![a] = Raised]
        /\ hits' = [hits EXCEPT ![a] = hits[a]]
    BY <1>1, <1>4, <1>8, Same DEF Go, AfterSearch, Hold
  <2>2. Knows(plan, a, "done", hits[a], attempt[a], sent[a], Raised)
    BY <1>4, <1>6, Raises1 DEF Knows, Grounded
  <2> QED
    BY <1>5, <1>7, <2>1, <2>2, AgentMoves
<1>9. CASE found # "error"
  <2> DEFINE x == AfterSearch(a, found)
  <2>1. /\ at' = [at EXCEPT ![a] = x] /\ hits' = [hits EXCEPT ![a] = found]
        /\ result' = [result EXCEPT ![a] = result[a]]
    BY <1>1, <1>4, <1>9, Same DEF Go
  <2>2. /\ x \in {"generate", "judge", "again", "web"}
        /\ x \in {"judge", "generate"} => found # "none"
    BY <1>2, <1>9 DEF AfterSearch
  <2> HIDE DEF x
  <2>3. a \in plan => Knows(plan, a, x, found, attempt[a], sent[a], result[a])
    BY <1>2, <1>4, <1>6, <1>9, <2>2, Raises1 DEF Knows
  <2> QED
    BY <1>5, <1>7, <2>1, <2>3, AgentMoves
<1> QED
  BY <1>8, <1>9

LEMMA JudgeStep == ASSUME IInv, NEW a \in Agents, check_retrieval_relevance(a) PROVE IInv'
<1>1. PICK x \in {"generate", "web"} : at' = [at EXCEPT ![a] = x]
  BY DEF check_retrieval_relevance, Go
<1>2. at[a] = "judge" /\ UNCHANGED <<plan, hits, attempt, sent, result, cached>>
  BY DEF check_retrieval_relevance
<1>3. Knows(plan, a, at[a], hits[a], attempt[a], sent[a], result[a]) /\ a \in Writers
  BY Own
<1>4. /\ attempt' = [attempt EXCEPT ![a] = attempt[a]] /\ sent' = [sent EXCEPT ![a] = sent[a]]
      /\ hits' = [hits EXCEPT ![a] = hits[a]] /\ result' = [result EXCEPT ![a] = result[a]]
  BY <1>2, <1>3, Same
<1>5. a \in plan => Knows(plan, a, x, hits[a], attempt[a], sent[a], result[a])
  BY <1>2, <1>3 DEF Knows
<1>6. at[a] # "done" /\ UNCHANGED <<plan, cached>>
  BY <1>2
<1> QED
  BY <1>1, <1>4, <1>5, <1>6, AgentMoves

-----------------------------------------------------------------------------
(* The texts                                                               *)

LEMMA TokenStep == ASSUME IInv, NEW w \in Writers, Token(w) PROVE IInv'
<1>1. /\ at[w] = "generate" /\ sent[w] < 2 /\ sent' = [sent EXCEPT ![w] = sent[w] + 1]
      /\ UNCHANGED <<plan, at, hits, attempt, result, cached>>
  BY DEF Token
<1>2. /\ at' = [at EXCEPT ![w] = at[w]] /\ attempt' = [attempt EXCEPT ![w] = attempt[w]]
      /\ hits' = [hits EXCEPT ![w] = hits[w]] /\ result' = [result EXCEPT ![w] = result[w]]
  BY <1>1, Same
<1>3. CASE w \in Agents
  <2>1. Knows(plan, w, at[w], hits[w], attempt[w], sent[w], result[w])
    BY <1>3, Own
  <2>2. Knows(plan, w, at[w], hits[w], attempt[w], sent[w] + 1, result[w])
    BY <1>1, <2>1 DEF Knows
  <2>3. at[w] # "done" /\ UNCHANGED <<plan, cached>> /\ sent' = [sent EXCEPT ![w] = sent[w] + 1]
    BY <1>1
  <2> QED
    BY <1>2, <1>3, <2>2, <2>3, AgentMoves
<1>4. CASE w = "Orchestrator"
  <2>1. Orchestrates(plan, at[w], attempt[w], sent[w], AllDone, cached) /\ (cached => NoWebText)
    BY <1>4 DEF IInv
  <2>2. Orchestrates(plan, at[w], attempt[w], sent[w] + 1, AllDone, cached')
    BY <1>1, <2>1 DEF Orchestrates
  <2> QED
    BY <1>1, <1>2, <1>4, <2>1, <2>2, OrchestratorMoves
<1> QED
  BY <1>3, <1>4 DEF Writers

LEMMA NextIsCounted ==
    ASSUME NEW n \in 0..4, NEW failure
    PROVE  NextAttempt(n, failure) \in 1..5
  BY DEF NextAttempt

LEMMA FailStep == ASSUME IInv, NEW w \in Writers, StreamFails(w) PROVE IInv'
<1>1. PICK failure \in {"timeout", "429", "other"} :
          IF NextAttempt(attempt[w], failure) < 5
          THEN /\ attempt' = [attempt EXCEPT ![w] = NextAttempt(attempt[w], failure)]
               /\ sent' = [sent EXCEPT ![w] = 0] /\ UNCHANGED <<at, result>>
          ELSE GivesUp(w) /\ UNCHANGED <<attempt, sent>>
  BY DEF StreamFails
<1> DEFINE n == NextAttempt(attempt[w], failure)
<1>2. at[w] = "generate" /\ UNCHANGED <<plan, hits, cached>>
  BY DEF StreamFails
<1>3. /\ at = [at EXCEPT ![w] = at[w]] /\ attempt = [attempt EXCEPT ![w] = attempt[w]]
      /\ sent = [sent EXCEPT ![w] = sent[w]]
      /\ hits' = [hits EXCEPT ![w] = hits[w]] /\ result = [result EXCEPT ![w] = result[w]]
  BY <1>2, Same
<1>4. CASE w \in Agents
  <2>1. Knows(plan, w, at[w], hits[w], attempt[w], sent[w], result[w])
    BY <1>4, Own
  <2>2. n \in 1..5
    BY <2>1, NextIsCounted DEF Knows
  <2> HIDE DEF n
  <2>3. CASE n < 5
    <3>1. Knows(plan, w, at[w], hits[w], n, 0, result[w])
      BY <1>2, <2>1, <2>2, <2>3 DEF Knows
    <3>2. /\ attempt' = [attempt EXCEPT ![w] = n] /\ sent' = [sent EXCEPT ![w] = 0]
          /\ at' = [at EXCEPT ![w] = at[w]] /\ result' = [result EXCEPT ![w] = result[w]]
      BY <1>1, <1>3, <2>3 DEF n
    <3> QED
      BY <1>2, <1>3, <1>4, <3>1, <3>2, AgentMoves
  <2>4. CASE ~(n < 5)
    <3>1. Knows(plan, w, "done", hits[w], attempt[w], sent[w], Raised)
      BY <2>1, Raises1 DEF Knows, Grounded
    <3>2. /\ attempt' = [attempt EXCEPT ![w] = attempt[w]] /\ sent' = [sent EXCEPT ![w] = sent[w]]
          /\ at' = [at EXCEPT ![w] = "done"] /\ result' = [result EXCEPT ![w] = Raised]
      BY <1>1, <1>3, <1>4, <2>4, NotAnAgent DEF n, GivesUp, Go, Hold
    <3> QED
      BY <1>2, <1>3, <1>4, <3>1, <3>2, AgentMoves
  <2> QED
    BY <2>3, <2>4
<1>5. CASE w = "Orchestrator"
  <2>1. Orchestrates(plan, at[w], attempt[w], sent[w], AllDone, cached) /\ (cached => NoWebText)
    BY <1>5 DEF IInv
  <2>2. n \in 1..5
    BY <2>1, NextIsCounted DEF Orchestrates
  <2> HIDE DEF n
  <2>3. CASE n < 5
    <3>1. Orchestrates(plan, at[w], n, 0, AllDone, cached')
      BY <1>2, <2>1, <2>2, <2>3 DEF Orchestrates
    <3>2. /\ attempt' = [attempt EXCEPT ![w] = n] /\ sent' = [sent EXCEPT ![w] = 0]
          /\ at' = [at EXCEPT ![w] = at[w]] /\ UNCHANGED result
      BY <1>1, <1>3, <2>3 DEF n
    <3> QED
      BY <1>2, <1>5, <2>1, <3>1, <3>2, OrchestratorMoves
  <2>4. CASE ~(n < 5)
    <3>1. Orchestrates(plan, "join", attempt[w], sent[w], AllDone, cached')
      BY <1>2, <2>1 DEF Orchestrates
    <3>2. /\ attempt' = [attempt EXCEPT ![w] = attempt[w]] /\ sent' = [sent EXCEPT ![w] = sent[w]]
          /\ at' = [at EXCEPT ![w] = "join"] /\ UNCHANGED result
      BY <1>1, <1>3, <1>5, <2>4 DEF n, GivesUp, Go
    <3> QED
      BY <1>2, <1>5, <2>1, <3>1, <3>2, OrchestratorMoves
  <2> QED
    BY <2>3, <2>4
<1> QED
  BY <1>4, <1>5 DEF Writers

LEMMA GeneratedStep == ASSUME IInv, NEW a \in Agents, Generated(a) PROVE IInv'
<1>1. PICK text \in {"grounded", "sorry"} :
          IF text = "sorry" /\ hits[a] # "cross" THEN Apologised(a) ELSE Answered(a, text)
  BY DEF Generated
<1>2. at[a] = "generate" /\ at[a] # "done" /\ UNCHANGED <<plan, hits, cached>>
  BY DEF Generated
<1>3. Knows(plan, a, at[a], hits[a], attempt[a], sent[a], result[a]) /\ a \in Writers
  BY Own
<1>4. /\ attempt = [attempt EXCEPT ![a] = attempt[a]] /\ sent = [sent EXCEPT ![a] = sent[a]]
      /\ hits' = [hits EXCEPT ![a] = hits[a]] /\ result = [result EXCEPT ![a] = result[a]]
  BY <1>2, <1>3, Same
<1>5. UNCHANGED <<plan, cached>>
  BY <1>2
<1>6. CASE text = "sorry" /\ hits[a] # "cross"
  <2> DEFINE x == IF a \in {"Constitution", "Maxim"} THEN "web_twice" ELSE "web"
  <2>1. /\ attempt' = [attempt EXCEPT ![a] = 0] /\ sent' = [sent EXCEPT ![a] = 0]
        /\ at' = [at EXCEPT ![a] = x] /\ result' = [result EXCEPT ![a] = result[a]]
    BY <1>1, <1>4, <1>6 DEF Apologised, Fresh, Go
  <2>2. x \in {"web", "web_twice"}
    OBVIOUS
  <2> HIDE DEF x
  <2>3. a \in plan => Knows(plan, a, x, hits[a], 0, 0, result[a])
    BY <1>2, <1>3, <2>2 DEF Knows
  <2> QED
    BY <1>2, <1>4, <1>5, <2>1, <2>3, AgentMoves
<1>7. CASE ~(text = "sorry" /\ hits[a] # "cross")
  <2> DEFINE r == Result(text, FALSE, FALSE)
  <2>1. /\ attempt' = [attempt EXCEPT ![a] = attempt[a]] /\ sent' = [sent EXCEPT ![a] = sent[a]]
        /\ at' = [at EXCEPT ![a] = "done"] /\ result' = [result EXCEPT ![a] = r]
    BY <1>1, <1>4, <1>7 DEF Answered, Go, Hold
  <2>2. r.text = text /\ r # NoResult
    BY DEF Result, NoResult
  <2> HIDE DEF r
  <2>3. a \in plan => Knows(plan, a, "done", hits[a], attempt[a], sent[a], r)
    BY <1>2, <1>3, <1>7, <2>2 DEF Knows, Grounded
  <2> QED
    BY <1>2, <1>4, <1>5, <2>1, <2>3, AgentMoves
<1> QED
  BY <1>6, <1>7

LEMMA RetryStep == ASSUME IInv, NEW w \in Writers, WebRetries(w) PROVE IInv'
<1>1. /\ at[w] \in {"web", "web_twice"} /\ attempt[w] < 3
      /\ attempt' = [attempt EXCEPT ![w] = attempt[w] + 1]
      /\ UNCHANGED <<plan, at, hits, sent, result, cached>>
  BY DEF WebRetries, Webbing
<1>2. /\ at' = [at EXCEPT ![w] = at[w]] /\ sent' = [sent EXCEPT ![w] = sent[w]]
      /\ hits' = [hits EXCEPT ![w] = hits[w]] /\ result' = [result EXCEPT ![w] = result[w]]
  BY <1>1, Same
<1>3. CASE w \in Agents
  <2>1. Knows(plan, w, at[w], hits[w], attempt[w], sent[w], result[w])
    BY <1>3, Own
  <2>2. Knows(plan, w, at[w], hits[w], attempt[w] + 1, sent[w], result[w])
    BY <1>1, <2>1 DEF Knows
  <2>3. /\ at[w] # "done" /\ UNCHANGED <<plan, cached>>
        /\ attempt' = [attempt EXCEPT ![w] = attempt[w] + 1]
    BY <1>1
  <2> QED
    BY <1>2, <1>3, <2>2, <2>3, AgentMoves
<1>4. CASE w = "Orchestrator"
  <2>1. Orchestrates(plan, at[w], attempt[w], sent[w], AllDone, cached) /\ (cached => NoWebText)
    BY <1>4 DEF IInv
  <2>2. Orchestrates(plan, at[w], attempt[w] + 1, sent[w], AllDone, cached')
    BY <1>1, <2>1 DEF Orchestrates
  <2> QED
    BY <1>1, <1>2, <1>4, <2>1, <2>2, OrchestratorMoves
<1> QED
  BY <1>3, <1>4 DEF Writers

(* A web search leaves its flag, however its result is wrapped.            *)
LEMMA WebIsFlagged ==
    ASSUME NEW a, NEW r \in WebResults
    PROVE  Wrapped(a, r).web = TRUE /\ Wrapped(a, r) # NoResult
  BY DEF WebResults, Wrapped, Result, NoResult

LEMMA WebStep == ASSUME IInv, NEW w \in Writers, web_search_fallback(w) PROVE IInv'
<1>1. PICK r \in WebResults :
          IF w = "Orchestrator" THEN UNCHANGED result ELSE Hold(w, Wrapped(w, r))
  BY DEF web_search_fallback
<1>2. /\ at[w] \in {"web", "web_twice"} /\ at' = [at EXCEPT ![w] = "done"]
      /\ UNCHANGED <<plan, hits, attempt, sent, cached>>
  BY DEF web_search_fallback, Webbing, Go
<1>3. /\ attempt' = [attempt EXCEPT ![w] = attempt[w]] /\ sent' = [sent EXCEPT ![w] = sent[w]]
      /\ hits' = [hits EXCEPT ![w] = hits[w]]
  BY <1>2, Same
<1>4. CASE w \in Agents
  <2> DEFINE x == Wrapped(w, r)
  <2>1. Knows(plan, w, at[w], hits[w], attempt[w], sent[w], result[w])
    BY <1>4, Own
  <2>2. x.web = TRUE /\ x # NoResult
    BY WebIsFlagged
  <2>3. result' = [result EXCEPT ![w] = x]
    BY <1>1, <1>4, NotAnAgent DEF Hold
  <2> HIDE DEF x
  <2>4. Knows(plan, w, "done", hits[w], attempt[w], sent[w], x)
    BY <2>1, <2>2 DEF Knows, Grounded
  <2>5. at[w] # "done" /\ UNCHANGED <<plan, cached>> /\ at' = [at EXCEPT ![w] = "done"]
    BY <1>2
  <2> QED
    BY <1>3, <1>4, <2>3, <2>4, <2>5, AgentMoves
<1>5. CASE w = "Orchestrator"
  <2>1. Orchestrates(plan, at[w], attempt[w], sent[w], AllDone, cached) /\ (cached => NoWebText)
    BY <1>5 DEF IInv
  <2>2. Orchestrates(plan, "done", attempt[w], sent[w], AllDone, cached')
    BY <1>2, <2>1 DEF Orchestrates
  <2> QED
    BY <1>1, <1>2, <1>3, <1>5, <2>1, <2>2, OrchestratorMoves
<1> QED
  BY <1>4, <1>5 DEF Writers

-----------------------------------------------------------------------------
(* The agents that do not stream                                           *)

(* An agent that asked for its text ends, with one that is not from the web*)
(* or goes to the web.                                                     *)
LEMMA AskedKeeps ==
    ASSUME IInv, NEW a \in Agents \ Retrieving, at[a] = "ask", NEW x \in {"done", "web"},
           NEW r, r.text # "web", x = "web" => r = result[a],
           at' = [at EXCEPT ![a] = x], result' = [result EXCEPT ![a] = r],
           UNCHANGED <<plan, hits, attempt, sent, cached>>
    PROVE  IInv'
<1>1. Knows(plan, a, at[a], hits[a], attempt[a], sent[a], result[a]) /\ a \in Writers
  BY Own
<1>2. /\ attempt' = [attempt EXCEPT ![a] = attempt[a]] /\ sent' = [sent EXCEPT ![a] = sent[a]]
      /\ hits' = [hits EXCEPT ![a] = hits[a]]
  BY <1>1, Same
<1>3. a \in plan => Knows(plan, a, x, hits[a], attempt[a], sent[a], r)
  BY <1>1 DEF Knows
<1>4. at[a] # "done" /\ UNCHANGED <<plan, cached>>
  OBVIOUS
<1> QED
  BY <1>2, <1>3, <1>4, AgentMoves, ZenonT(40)

LEMMA ReactStep == ASSUME IInv, NEW a \in Agents, React(a) PROVE IInv'
<1>1. /\ at[a] = "ask" /\ UNCHANGED <<plan, hits, attempt, sent, cached>>
      /\ a \in Agents \ Retrieving
  BY DEF React, Retrieving, Reacting
<1>2. result = [result EXCEPT ![a] = result[a]] /\ result[a].text # "web"
  BY <1>1, Own, Same, Raises1 DEF Knows
<1>3. PICK x \in {"done", "web"} : \E r :
          /\ at' = [at EXCEPT ![a] = x] /\ result' = [result EXCEPT ![a] = r]
          /\ r.text # "web" /\ (x = "web" => r = result[a])
  <2>1. CASE Go(a, "done") /\ Hold(a, Raised)
    BY <2>1, Raises1 DEF Go, Hold
  <2>2. CASE \E text \in ReactTexts(a) : \E sources \in BOOLEAN :
                IF text = "none" /\ ~sources THEN Go(a, "web") /\ UNCHANGED result
                ELSE Go(a, "done") /\ Hold(a, Result(text, FALSE, FALSE))
    <3>1. PICK text \in ReactTexts(a) : \/ Go(a, "web") /\ UNCHANGED result
                                        \/ Go(a, "done") /\ Hold(a, Result(text, FALSE, FALSE))
      BY <2>2
    <3>2. Result(text, FALSE, FALSE).text = text /\ text # "web"
      BY DEF Result, ReactTexts
    <3>3. CASE Go(a, "web") /\ UNCHANGED result
      BY <1>2, <3>3 DEF Go
    <3>4. CASE Go(a, "done") /\ Hold(a, Result(text, FALSE, FALSE))
      BY <3>2, <3>4 DEF Go, Hold
    <3> QED
      BY <3>1, <3>3, <3>4
  <2> QED
    BY <2>1, <2>2 DEF React
<1> QED
  BY <1>1, <1>3, AskedKeeps

LEMMA AskStep == ASSUME IInv, NEW a \in Agents, Ask(a) PROVE IInv'
<1>1. PICK r \in Reply(a) : at' = [at EXCEPT ![a] = "done"] /\ result' = [result EXCEPT ![a] = r]
  BY DEF Ask, Go, Hold
<1>2. at[a] = "ask" /\ UNCHANGED <<plan, hits, attempt, sent, cached>>
  BY DEF Ask
<1>3. r.text # "web"
  BY DEF Reply, document, scenario, non_legal, Result, Raised
<1>4. a \in Agents \ Retrieving
  BY <1>2, Own DEF Knows
<1> QED
  BY <1>1, <1>2, <1>3, <1>4, AskedKeeps

-----------------------------------------------------------------------------
(* The orchestrator                                                        *)

LEMMA Conducts ==
    ASSUME IInv
    PROVE  /\ Orchestrates(plan, at["Orchestrator"], attempt["Orchestrator"],
                           sent["Orchestrator"], AllDone, cached)
           /\ cached => NoWebText
           /\ attempt = [attempt EXCEPT !["Orchestrator"] = attempt["Orchestrator"]]
           /\ sent = [sent EXCEPT !["Orchestrator"] = sent["Orchestrator"]]
<1>1. "Orchestrator" \in Writers
  BY NotAnAgent
<1> QED
  BY <1>1, Same DEF IInv

LEMMA SynthesizeStep == ASSUME IInv, Synthesize PROVE IInv'
<1>1. /\ at["Orchestrator"] = "wait" /\ AllDone
      /\ UNCHANGED <<plan, hits, attempt, sent, result, cached>>
  BY DEF Synthesize, AllDone
<1>2. \A p, kept : Leads(p, kept) => at' = [at EXCEPT !["Orchestrator"] = "done"]
                                  \/ at' = [at EXCEPT !["Orchestrator"] = "generate"]
  BY DEF Leads, Settle, Merge, Go
<1>3. PICK x \in {"web", "done", "generate"} : at' = [at EXCEPT !["Orchestrator"] = x]
  BY <1>2 DEF Synthesize, Settle, Merge, Go
<1>4. Orchestrates(plan, x, attempt["Orchestrator"], sent["Orchestrator"], AllDone, cached')
  BY <1>1, Conducts DEF Orchestrates
<1>5. cached' => NoWebText
  BY <1>1, Conducts
<1>6. /\ attempt' = [attempt EXCEPT !["Orchestrator"] = attempt["Orchestrator"]]
      /\ sent' = [sent EXCEPT !["Orchestrator"] = sent["Orchestrator"]]
  BY <1>1, Conducts
<1> QED
  BY <1>1, <1>3, <1>4, <1>5, <1>6, OrchestratorMoves

LEMMA AnsweredStep == ASSUME IInv, Synthesized \/ Join PROVE IInv'
<1>1. /\ at["Orchestrator"] \in {"generate", "join"}
      /\ UNCHANGED <<plan, hits, attempt, sent, result, cached>>
      /\ at' = [at EXCEPT !["Orchestrator"] = "done"]
  BY DEF Synthesized, Join, Go
<1>2. Orchestrates(plan, "done", attempt["Orchestrator"], sent["Orchestrator"], AllDone, cached')
  BY <1>1, Conducts DEF Orchestrates
<1>3. cached' => NoWebText
  BY <1>1, Conducts
<1>4. /\ attempt' = [attempt EXCEPT !["Orchestrator"] = attempt["Orchestrator"]]
      /\ sent' = [sent EXCEPT !["Orchestrator"] = sent["Orchestrator"]]
  BY <1>1, Conducts
<1> QED
  BY <1>1, <1>2, <1>3, <1>4, OrchestratorMoves

(* What is remembered has no result flagged as web, so no text from it.    *)
LEMMA RememberStep == ASSUME IInv, Remember PROVE IInv'
<1>1. /\ at["Orchestrator"] = "done" /\ UNCHANGED <<plan, hits, attempt, sent, result>>
      /\ at' = [at EXCEPT !["Orchestrator"] = "over"]
      /\ cached' = (~any_fallback_used /\ "Document" \notin plan)
  BY DEF Remember, Go
<1>2. cached' \in BOOLEAN
  BY <1>1
<1>3. cached' => NoWebText
  <2>1. ASSUME NEW a \in plan, result[a].text = "web" PROVE result[a].web
    BY <2>1 DEF IInv, Knows
  <2>2. cached' => \A a \in plan : ~result[a].web
    BY <1>1 DEF any_fallback_used
  <2> QED
    BY <2>1, <2>2 DEF NoWebText
<1>4. Orchestrates(plan, "over", attempt["Orchestrator"], sent["Orchestrator"], AllDone, cached')
  BY <1>1, <1>2, Conducts DEF Orchestrates
<1>5. /\ attempt' = [attempt EXCEPT !["Orchestrator"] = attempt["Orchestrator"]]
      /\ sent' = [sent EXCEPT !["Orchestrator"] = sent["Orchestrator"]]
  BY <1>1, Conducts
<1> QED
  BY <1>1, <1>3, <1>4, <1>5, OrchestratorMoves

-----------------------------------------------------------------------------
LEMMA Initial == Init => IInv
<1> SUFFICES ASSUME Init PROVE IInv
  OBVIOUS
<1>1. plan \in Plans /\ plan \subseteq Agents
  BY PlansAssumption DEF Init
<1>2. /\ at["Orchestrator"] = "wait" /\ attempt["Orchestrator"] = 0
      /\ sent["Orchestrator"] = 0 /\ cached = FALSE
  BY <1>1, NotAnAgent DEF Init
<1>3. Orchestrates(plan, at["Orchestrator"], attempt["Orchestrator"], sent["Orchestrator"],
                   AllDone, cached)
  <2>1. Orchestrates(plan, "wait", 0, 0, AllDone, FALSE)
    BY DEF Orchestrates
  <2> QED
    BY <1>2, <2>1
<1>4. ASSUME NEW a \in Agents
      PROVE  Knows(plan, a, at[a], hits[a], attempt[a], sent[a], result[a])
  <2>1. /\ hits[a] = "none" /\ attempt[a] = 0 /\ sent[a] = 0 /\ result[a] = NoResult
        /\ at[a] = IF a \in plan THEN Entry(a) ELSE "done"
    BY NotAnAgent DEF Init
  <2>2. Entry(a) \in {"search", "web", "ask"} /\ (Entry(a) = "ask" => a \notin Retrieving)
    BY DEF Entry
  <2> QED
    BY <2>1, <2>2, Raises1 DEF Knows
<1>5. cached => NoWebText
  BY DEF Init
<1> QED
  BY <1>1, <1>3, <1>4, <1>5 DEF Init, IInv

LEMMA Inductive == IInv /\ [Next]_vars => IInv'
<1> SUFFICES ASSUME IInv, [Next]_vars PROVE IInv'
  OBVIOUS
<1>1. CASE UNCHANGED vars
  BY <1>1 DEF vars, IInv, AllDone, NoWebText
<1>2. ASSUME NEW w \in Writers, Step(w) PROVE IInv'
  <2>1. CASE Token(w) \/ StreamFails(w) \/ WebRetries(w) \/ web_search_fallback(w)
    BY <2>1, TokenStep, FailStep, RetryStep, WebStep
  <2>2. CASE w \in Agents /\ (LookUp(w) \/ check_retrieval_relevance(w) \/ React(w) \/ Ask(w))
    BY <2>2, LookUpStep, JudgeStep, ReactStep, AskStep
  <2>3. CASE Generated(w)
    <3>1. w \in Agents
      BY <2>3 DEF Generated
    <3> QED
      BY <2>3, <3>1, GeneratedStep
  <2>4. CASE Synthesize \/ Synthesized \/ Join \/ Remember
    BY <2>4, SynthesizeStep, AnsweredStep, RememberStep
  <2> QED
    BY <1>2, <2>1, <2>2, <2>3, <2>4 DEF Step
<1> QED
  BY <1>1, <1>2 DEF Next, Over

LEMMA Invariant == Spec => []IInv
  BY Initial, Inductive, PTL DEF Spec

(* The attempts of every call stay in their bounds, and an agent has no    *)
(* result before it is done.                                               *)
THEOREM TypeCorrect == Spec => []TypeOK
<1>1. IInv => TypeOK
  <2> SUFFICES ASSUME IInv PROVE TypeOK
    OBVIOUS
  <2>1. ASSUME NEW a \in Agents
        PROVE  /\ attempt[a] \in 0..4 /\ sent[a] \in 0..2
               /\ hits[a] \in {"none", "found", "exact", "cross"}
               /\ at[a] # "generate" => attempt[a] <= 3 \/ result[a] # NoResult
               /\ at[a] # "done" => result[a] = NoResult
    BY DEF IInv, Knows
  <2>2. /\ attempt["Orchestrator"] \in 0..4 /\ sent["Orchestrator"] \in 0..2
        /\ plan \in Plans /\ cached \in BOOLEAN
    BY DEF IInv, Orchestrates
  <2> QED
    BY <2>1, <2>2 DEF TypeOK, Writers
<1> QED
  BY <1>1, Invariant, PTL

(* In every plan, a retrieving agent's unflagged text was written from what*)
(* it found, and apologises only for a question across acts.               *)
THEOREM UnflaggedTextsRestOnHits == Spec => []UnflaggedTextRestsOnHits
<1>1. IInv => UnflaggedTextRestsOnHits
  BY DEF IInv, Knows, Grounded, UnflaggedTextRestsOnHits
<1> QED
  BY <1>1, Invariant, PTL

(* In every plan, no answer is cached when an agent's result is a text from*)
(* the web.                                                                *)
THEOREM AgentsWebIsNotCached == Spec => []AgentWebAnswersAreNotCached
<1>1. IInv => AgentWebAnswersAreNotCached
  BY DEF IInv, NoWebText, AgentWebAnswersAreNotCached
<1> QED
  BY <1>1, Invariant, PTL

-----------------------------------------------------------------------------
(* The page of an agent alone in its plan                                  *)

(* The first s pieces of the text of w.                                    *)
Written(w, s) == IF s = 0 THEN <<>> ELSE IF s = 1 THEN <<<<w, "head">>>> ELSE Text(w)

(* An agent that stands at x, with s pieces sent, and holds r has brought  *)
(* the page to b: nothing before its text, then what the running attempt   *)
(* has sent, and what it holds in the end unless it failed.                *)
Shows(a, x, s, r, b) ==
    /\ x # "web_twice"
    /\ x \in {"search", "again", "judge", "ask", "web"} => s = 0 /\ b = <<>>
    /\ x = "generate" => b = Written(a, s)
    /\ x = "done" /\ r.text # "none" /\ ~r.error =>
           b \in {<<>>, IF r.web THEN <<WebText(a)>> ELSE Text(a)}

(* While the orchestrator waits the page is the agent's; the agent's text  *)
(* is the answer only when the orchestrator has nothing left to write.     *)
PageOf(a) ==
    /\ at["Orchestrator"] = "wait" =>
           answer = NoAnswer /\ Shows(a, at[a], sent[a], result[a], bubble)
    /\ answer.by = a => at["Orchestrator"] \in {"done", "over"}
                        /\ bubble \in {<<>>, IF answer.web THEN <<WebText(a)>> ELSE Text(a)}

Alone(a) == plan = {a} /\ a \notin {"Constitution", "Maxim"}
PInv == \A a \in plan : Alone(a) => PageOf(a)

LEMMA WritingOn ==
    ASSUME NEW w, NEW s \in 0..1
    PROVE  Append(Written(w, s), <<w, IF s = 0 THEN "head" ELSE "tail">>) = Written(w, s + 1)
<1>1. CASE s = 0
  BY <1>1 DEF Written
<1>2. CASE s = 1
  <2>1. ASSUME NEW x, NEW y PROVE Append(<<x>>, y) = <<x, y>>
    <3> DEFINE new == Append(<<x>>, y)
               two == <<x, y>>
    <3>1. /\ new \in Seq({x, y}) /\ Len(new) = 2 /\ new[1] = x /\ new[2] = y
      OBVIOUS
    <3>2. /\ two \in Seq({x, y}) /\ Len(two) = 2 /\ two[1] = x /\ two[2] = y
      OBVIOUS
    <3> HIDE DEF new, two
    <3>3. ASSUME NEW i \in 1..Len(new) PROVE new[i] = two[i]
      <4>1. i = 1 \/ i = 2
        BY <3>1
      <4> QED
        BY <3>1, <3>2, <4>1
    <3>4. new = two
      BY <3>1, <3>2, <3>3, SeqEqual
    <3> QED
      BY <3>4 DEF new, two
  <2>2. Append(<<<<w, "head">>>>, <<w, "tail">>) = <<<<w, "head">>, <<w, "tail">>>>
    BY <2>1
  <2>3. Written(w, 1) = <<<<w, "head">>>> /\ Written(w, 2) = Text(w) /\ s + 1 = 2
    BY <1>2 DEF Written
  <2> QED
    <3>1. Append(Written(w, 1), <<w, "tail">>) = Written(w, 2)
      BY <2>2, <2>3 DEF Text
    <3> QED
      BY <1>2, <2>3, <3>1
<1> QED
  BY <1>1, <1>2

(* An agent at work is the only one of its plan, and the orchestrator waits.*)
LEMMA AtWork ==
    ASSUME IInv, NEW a \in plan, Alone(a), PageOf(a), NEW b \in Agents, at[b] # "done"
    PROVE  /\ b = a /\ at["Orchestrator"] = "wait" /\ answer = NoAnswer
           /\ Shows(a, at[a], sent[a], result[a], bubble)
<1>1. b = a
  BY DEF IInv, Knows, Alone
<1>2. at["Orchestrator"] = "wait"
  BY <1>1 DEF IInv, Orchestrates, AllDone
<1> QED
  BY <1>1, <1>2 DEF PageOf

(* What it does there is to be shown of its page only.                     *)
LEMMA AgentPaints ==
    ASSUME NEW a \in Agents, answer = NoAnswer, answer' = answer, NEW x, NEW s, NEW r, NEW b,
           at'[a] = x, sent'[a] = s, result'[a] = r, bubble' = b, Shows(a, x, s, r, b)
    PROVE  PageOf(a)'
<1>1. answer'.by = "nobody" /\ a # "nobody"
  BY DEF NoAnswer, Agents, Retrieving, Reacting
<1> QED
  BY <1>1 DEF PageOf

(* The fields of one agent that steps of its own change.                   *)
LEMMA Fields ==
    ASSUME IInv, NEW a \in Agents
    PROVE  /\ \A x : [at EXCEPT ![a] = x][a] = x
           /\ \A s : [sent EXCEPT ![a] = s][a] = s
           /\ \A r : [result EXCEPT ![a] = r][a] = r
  BY NotAnAgent DEF IInv

LEMMA AgentPage ==
    ASSUME IInv, NEW a \in plan, Alone(a), PageOf(a), NEW w \in Agents,
           \/ Token(w) \/ StreamFails(w) \/ Generated(w) \/ WebRetries(w)
           \/ web_search_fallback(w) \/ LookUp(w) \/ check_retrieval_relevance(w)
           \/ React(w) \/ Ask(w)
    PROVE  PageOf(a)'
<1>1. at[w] # "done"
  BY DEF Token, StreamFails, Generated, WebRetries, web_search_fallback, Webbing, LookUp,
         check_retrieval_relevance, React, Ask
<1>2. /\ w = a /\ answer = NoAnswer /\ Shows(a, at[a], sent[a], result[a], bubble)
      /\ a \in Agents
  BY <1>1, AtWork
<1>3. Knows(plan, a, at[a], hits[a], attempt[a], sent[a], result[a])
  BY <1>2, Own
<1>4. a \notin {"Constitution", "Maxim"} /\ a # "Orchestrator"
  BY <1>2, NotAnAgent DEF Alone
<1>5. CASE Token(a)
  <2>1. /\ at[a] = "generate" /\ sent[a] \in 0..1 /\ bubble = Written(a, sent[a])
        /\ at'[a] = "generate" /\ result'[a] = result[a] /\ answer' = answer
        /\ sent'[a] = sent[a] + 1
        /\ bubble' = Append(bubble, <<a, IF sent[a] = 0 THEN "head" ELSE "tail">>)
    <3>1. /\ at[a] = "generate" /\ sent[a] < 2 /\ UNCHANGED <<at, result, answer>>
          /\ sent' = [sent EXCEPT ![a] = sent[a] + 1]
          /\ bubble' = Append(bubble, <<a, IF sent[a] = 0 THEN "head" ELSE "tail">>)
      BY <1>5 DEF Token
    <3>2. sent[a] \in 0..1
      BY <1>3, <3>1 DEF Knows
    <3>3. sent'[a] = sent[a] + 1
      BY <1>2, <3>1, Fields
    <3> QED
      BY <1>2, <3>1, <3>2, <3>3 DEF Shows
  <2>2. bubble' = Written(a, sent[a] + 1)
    BY <2>1, WritingOn
  <2>3. Shows(a, "generate", sent[a] + 1, result[a], Written(a, sent[a] + 1))
    BY DEF Shows
  <2> QED
    BY <1>2, <2>1, <2>2, <2>3, AgentPaints
<1>6. CASE StreamFails(a)
  <2>1. PICK failure \in {"timeout", "429", "other"} :
          /\ bubble' = IF Clears(attempt[a], failure) THEN <<>> ELSE bubble
          /\ IF NextAttempt(attempt[a], failure) < 5
             THEN sent' = [sent EXCEPT ![a] = 0] /\ UNCHANGED <<at, result>>
             ELSE Go(a, "done") /\ Hold(a, Raised) /\ UNCHANGED sent
    BY <1>4, <1>6 DEF StreamFails, GivesUp
  <2>2. at[a] = "generate" /\ answer' = answer
    BY <1>6 DEF StreamFails
  <2>3. CASE NextAttempt(attempt[a], failure) < 5
    <3>1. /\ at'[a] = "generate" /\ sent'[a] = 0 /\ result'[a] = result[a] /\ bubble' = <<>>
      BY <1>2, <2>1, <2>2, <2>3, Fields DEF Clears
    <3>2. Shows(a, "generate", 0, result[a], <<>>)
      BY DEF Shows, Written
    <3> QED
      BY <1>2, <2>2, <3>1, <3>2, AgentPaints
  <2>4. CASE ~(NextAttempt(attempt[a], failure) < 5)
    <3>1. at'[a] = "done" /\ result'[a] = Raised
      BY <1>2, <2>1, <2>4, Fields DEF Go, Hold
    <3>2. Shows(a, "done", sent'[a], Raised, bubble')
      BY Raises1 DEF Shows
    <3> QED
      BY <1>2, <2>2, <3>1, <3>2, AgentPaints
  <2> QED
    BY <2>3, <2>4
<1>7. CASE Generated(a)
  <2>1. PICK text \in {"grounded", "sorry"} :
          \/ Apologised(a)
          \/ Answered(a, text)
    BY <1>7 DEF Generated
  <2>2. at[a] = "generate" /\ sent[a] = 2 /\ bubble = Text(a) /\ answer' = answer
    BY <1>2, <1>7 DEF Generated, Shows, Written
  <2>3. CASE Apologised(a)
    <3>1. at'[a] = "web" /\ sent'[a] = 0 /\ result'[a] = result[a] /\ bubble' = <<>>
      BY <1>2, <1>4, <2>3, Fields DEF Apologised, Fresh, Go
    <3>2. Shows(a, "web", 0, result[a], <<>>)
      BY DEF Shows
    <3> QED
      BY <1>2, <2>2, <3>1, <3>2, AgentPaints
  <2>4. CASE Answered(a, text)
    <3>1. at'[a] = "done" /\ result'[a] = Result(text, FALSE, FALSE) /\ bubble' = Text(a)
      BY <1>2, <2>2, <2>4, Fields DEF Answered, Go, Hold
    <3>2. Shows(a, "done", sent'[a], Result(text, FALSE, FALSE), Text(a))
      BY DEF Shows, Result
    <3> QED
      BY <1>2, <2>2, <3>1, <3>2, AgentPaints
  <2> QED
    BY <2>1, <2>3, <2>4
<1>8. CASE WebRetries(a)
  <2>1. UNCHANGED <<at, sent, result, bubble, answer>>
    BY <1>8 DEF WebRetries
  <2> QED
    BY <1>2, <2>1, AgentPaints
<1>9. CASE web_search_fallback(a)
  <2>1. PICK r \in WebResults :
          /\ bubble' = bubble \o (IF r.error THEN <<>> ELSE <<WebText(a)>>)
                              \o (IF at[a] = "web_twice" THEN <<WebText(a)>> ELSE <<>>)
          /\ Hold(a, Wrapped(a, r)) /\ answer' = answer
    BY <1>4, <1>9 DEF web_search_fallback
  <2>2. at[a] = "web" /\ bubble = <<>>
    BY <1>2, <1>9 DEF web_search_fallback, Webbing, Shows
  <2>3. bubble' \in {<<>>, <<WebText(a)>>}
    <3>1. <<WebText(a)>> \in Seq({WebText(a)})
      OBVIOUS
    <3> QED
      BY <2>1, <2>2, <3>1
  <2>4. at'[a] = "done" /\ result'[a] = Wrapped(a, r)
    BY <1>2, <1>9, <2>1, Fields DEF web_search_fallback, Go, Hold
  <2>5. Shows(a, "done", sent'[a], Wrapped(a, r), bubble')
    BY <2>3, WebIsFlagged DEF Shows
  <2> QED
    BY <1>2, <2>1, <2>4, <2>5, AgentPaints
<1>10. CASE LookUp(a)
  <2>1. PICK found : /\ at' = [at EXCEPT ![a] = AfterSearch(a, found)]
                     /\ IF found = "error" THEN result' = [result EXCEPT ![a] = Raised]
                        ELSE UNCHANGED result
    BY <1>10 DEF LookUp, Go, Hold
  <2>2. at[a] \in {"search", "again"} /\ UNCHANGED <<sent, bubble, answer>>
    BY <1>10 DEF LookUp
  <2>3. sent[a] = 0 /\ bubble = <<>>
    BY <1>2, <2>2 DEF Shows
  <2>4. CASE found = "error"
    <3>1. at'[a] = "done" /\ result'[a] = Raised
      BY <1>2, <2>1, <2>4, Fields DEF AfterSearch
    <3>2. Shows(a, "done", sent'[a], Raised, bubble')
      BY Raises1 DEF Shows
    <3> QED
      BY <1>2, <2>2, <3>1, <3>2, AgentPaints
  <2>5. CASE found # "error"
    <3>1. at'[a] = AfterSearch(a, found) /\ result'[a] = result[a]
      BY <1>2, <2>1, <2>5, Fields
    <3>2. AfterSearch(a, found) \in {"generate", "judge", "again", "web"}
      BY <2>5 DEF AfterSearch
    <3>3. Shows(a, AfterSearch(a, found), 0, result[a], <<>>)
      BY <3>2 DEF Shows, Written
    <3> QED
      BY <1>2, <2>2, <2>3, <3>1, <3>3, AgentPaints
  <2> QED
    BY <2>4, <2>5
<1>11. CASE check_retrieval_relevance(a)
  <2>1. PICK x \in {"generate", "web"} : at' = [at EXCEPT ![a] = x]
    BY <1>11 DEF check_retrieval_relevance, Go
  <2>2. sent[a] = 0 /\ bubble = <<>> /\ UNCHANGED <<sent, result, bubble, answer>>
    BY <1>2, <1>11 DEF check_retrieval_relevance, Shows
  <2>3. at'[a] = x /\ Shows(a, x, 0, result[a], <<>>)
    BY <1>2, <2>1, Fields DEF Shows, Written
  <2> QED
    BY <1>2, <2>2, <2>3, AgentPaints
<1>12. CASE React(a) \/ Ask(a)
  <2>1. /\ at[a] = "ask" /\ UNCHANGED <<sent, bubble, answer>>
    BY <1>12 DEF React, Ask
  <2>2. sent[a] = 0 /\ bubble = <<>>
    BY <1>2, <2>1 DEF Shows
  <2>3. PICK x \in {"done", "web"} : at' = [at EXCEPT ![a] = x]
    BY <1>12 DEF React, Ask, Go
  <2>4. at'[a] = x /\ Shows(a, x, 0, result'[a], <<>>)
    BY <1>2, <2>3, Fields DEF Shows
  <2> QED
    BY <1>2, <2>1, <2>2, <2>4, AgentPaints
<1> QED
  BY <1>2, <1>5, <1>6, <1>7, <1>8, <1>9, <1>10, <1>11, <1>12

(* The orchestrator takes a lone agent's text as it is, or writes its own. *)
LEMMA OrchestratorPage ==
    ASSUME IInv, NEW a \in plan, Alone(a), PageOf(a),
           \/ Token("Orchestrator") \/ StreamFails("Orchestrator") \/ WebRetries("Orchestrator")
           \/ web_search_fallback("Orchestrator")
           \/ Synthesize \/ Synthesized \/ Join \/ Remember
    PROVE  PageOf(a)'
<1> DEFINE O == "Orchestrator"
<1>1. /\ \A x : [at EXCEPT ![O] = x][O] = x
      /\ a \in Agents /\ a # O /\ a \notin {"agents", "nobody"}
  BY NotAnAgent DEF IInv, Agents, Retrieving, Reacting
<1>2. CASE Synthesize
  <2>1. at[O] = "wait" /\ at[a] = "done" /\ UNCHANGED <<sent, result>>
    BY <1>2 DEF Synthesize
  <2>2. answer = NoAnswer /\ Shows(a, "done", sent[a], result[a], bubble)
    BY <2>1 DEF PageOf
  <2>3. Valid \subseteq {a}
    BY DEF Valid, Alone
  <2>4. CASE answer' = AnswerOf(a) /\ a \in Valid /\ at' = [at EXCEPT ![O] = "done"] /\ bubble' = bubble
    <3>1. bubble \in {<<>>, IF result[a].web THEN <<WebText(a)>> ELSE Text(a)}
      BY <2>2, <2>4 DEF Valid, Shows
    <3>2. answer'.web = result[a].web /\ at'[O] = "done"
      BY <1>1, <2>4 DEF AnswerOf
    <3> QED
      BY <2>4, <3>1, <3>2 DEF PageOf
  <2>5. CASE answer' = answer /\ \E x \in {"web", "generate"} : at' = [at EXCEPT ![O] = x]
    <3>1. at'[O] \in {"web", "generate"} /\ answer'.by = "nobody"
      BY <1>1, <2>2, <2>5 DEF NoAnswer
    <3> QED
      BY <1>1, <3>1 DEF PageOf
  <2>6. ASSUME NEW p \in Valid, NEW kept \in SUBSET (Valid \ {p}), Leads(p, kept)
        PROVE  /\ answer' = AnswerOf(a) /\ a \in Valid /\ at' = [at EXCEPT ![O] = "done"]
               /\ bubble' = bubble
    <3>1. p = a /\ kept = {}
      BY <2>3
    <3> QED
      BY <2>6, <3>1 DEF Leads, Settle, Go
  <2> QED
    BY <1>2, <2>3, <2>4, <2>5, <2>6 DEF Synthesize, Settle, Merge, Go
<1>3. CASE Token(O) \/ StreamFails(O) \/ WebRetries(O) \/ web_search_fallback(O)
  <2>1. at[O] \in {"generate", "web", "web_twice"}
    BY <1>3 DEF Token, StreamFails, WebRetries, web_search_fallback, Webbing
  <2>2. answer.by # a
    BY <2>1 DEF PageOf
  <2>3. \E x \in {"generate", "web", "web_twice", "done", "join"} : at'[O] = x
    BY <1>1, <1>3, <2>1 DEF Token, StreamFails, GivesUp, WebRetries, web_search_fallback, Go
  <2>4. answer' = answer \/ answer'.by = O
    <3>1. CASE Token(O) \/ StreamFails(O) \/ WebRetries(O)
      BY <3>1 DEF Token, StreamFails, WebRetries
    <3>2. CASE web_search_fallback(O)
      <4>1. PICK r \in WebResults : answer' = [text |-> r.text, by |-> O, web |-> TRUE]
        BY <3>2 DEF web_search_fallback
      <4> QED
        BY <4>1
    <3> QED
      BY <1>3, <3>1, <3>2
  <2> QED
    BY <1>1, <2>2, <2>3, <2>4 DEF PageOf
<1>4. CASE Synthesized \/ Join
  <2>1. at'[O] = "done" /\ answer'.by \in {O, "agents"}
    BY <1>1, <1>4 DEF Synthesized, Join, Go
  <2> QED
    BY <1>1, <2>1 DEF PageOf
<1>5. CASE Remember
  <2>1. at[O] = "done" /\ at'[O] = "over" /\ UNCHANGED <<bubble, answer>>
    BY <1>1, <1>5 DEF Remember, Go
  <2> QED
    BY <2>1 DEF PageOf
<1> QED
  BY <1>2, <1>3, <1>4, <1>5

(* A page that one agent wrote shows its answer, once and nothing else, in *)
(* every plan of one agent and after however many failed attempts.         *)
THEOREM PageIsTheAnswer == Spec => []PageShowsTheAnswer
<1>1. Init => PInv
  <2> SUFFICES ASSUME Init, NEW a \in plan, Alone(a) PROVE PageOf(a)
    BY DEF PInv
  <2>1. /\ a \in Agents /\ at[a] = Entry(a) /\ sent[a] = 0 /\ result[a] = NoResult
        /\ bubble = <<>> /\ answer = NoAnswer
    BY PlansAssumption, NotAnAgent DEF Init
  <2>2. Entry(a) \in {"search", "web", "ask"}
    BY DEF Entry
  <2>3. answer.by # a
    BY <2>1 DEF NoAnswer, Agents, Retrieving, Reacting
  <2> QED
    BY <2>1, <2>2, <2>3 DEF PageOf, Shows
<1>2. IInv /\ PInv /\ [Next]_vars => PInv'
  <2> SUFFICES ASSUME IInv, PInv, [Next]_vars, NEW a \in plan', Alone(a)' PROVE PageOf(a)'
    BY DEF PInv
  <2>1. plan' = plan
    BY DEF Next, Over, vars, Step, Token, StreamFails, Generated, WebRetries, web_search_fallback,
           LookUp, check_retrieval_relevance, React, Ask, Synthesize, Synthesized, Join, Remember
  <2>2. a \in plan /\ Alone(a) /\ PageOf(a)
    BY <2>1 DEF PInv, Alone
  <2>3. CASE UNCHANGED vars
    BY <2>2, <2>3 DEF vars, PageOf
  <2>4. ASSUME NEW w \in Writers, Step(w) PROVE PageOf(a)'
    <3>1. CASE w \in Agents
      BY <2>2, <2>4, <3>1, AgentPage, NotAnAgent DEF Step
    <3>2. CASE w = "Orchestrator"
      <4>1. ~Generated(w) /\ w \notin Agents
        BY <3>2, NotAnAgent DEF Generated
      <4> QED
        BY <2>2, <2>4, <3>2, <4>1, OrchestratorPage DEF Step
    <3> QED
      BY <3>1, <3>2 DEF Writers
  <2> QED
    BY <2>3, <2>4 DEF Next, Over
<1>3. PInv => PageShowsTheAnswer
  BY DEF PInv, PageOf, Alone, PageShowsTheAnswer
<1> QED
  BY <1>1, <1>2, <1>3, Invariant, PTL DEF Spec

-----------------------------------------------------------------------------
(* How long a turn takes                                                   *)

Places == {"search", "again", "judge", "ask", "generate", "web", "web_twice", "wait", "join",
           "done", "over"}

(* Attempts that may still be made, the running one, n, included.          *)
AttemptsLeft(n) == CASE n = 0 -> 4 [] n = 2 -> 3 [] n = 3 -> 2 [] OTHER -> 1

(* The most steps that are left at place x, at attempt n with s pieces     *)
(* sent: an agent rests at "done", the orchestrator at "over".             *)
StepsLeft(x, n, s) ==
    CASE x = "search" -> 20
      [] x = "again" -> 19
      [] x \in {"judge", "wait"} -> 18
      [] x = "generate" -> 5 + 3 * AttemptsLeft(n) - s
      [] x = "ask" -> 6
      [] x \in {"web", "web_twice"} -> 5 - n
      [] x = "join" -> 2
      [] x = "done" -> 1
      [] x = "over" -> 0

Left(w) == StepsLeft(at[w], attempt[w], sent[w])

(* Every step of a writer, each failure, retry and apology among them,     *)
(* brings it nearer to its end, and takes no other writer back.            *)
WritersAdvance ==
    \A w \in Writers :
      /\ Step(w) => Left(w)' < Left(w)
      /\ Left(w)' < Left(w) \/ Left(w)' = Left(w)

Placed == \A w \in Writers : at[w] \in Places

(* A step moves w alone, to a place nearer to its end.                     *)
Nearer(w) ==
    \E x \in Places : \E n, s :
        /\ at' = [at EXCEPT ![w] = x] /\ attempt' = [attempt EXCEPT ![w] = n]
        /\ sent' = [sent EXCEPT ![w] = s]
        /\ StepsLeft(x, n, s) < Left(w)

(* What a writer's counts are where it stands.                             *)
LEMMA Counts ==
    ASSUME IInv, NEW w \in Writers
    PROVE  /\ attempt[w] \in 0..4 /\ sent[w] \in 0..2
           /\ at[w] \in {"search", "again", "judge", "ask"} /\ w # "Orchestrator" => attempt[w] = 0
           /\ at[w] = "wait" /\ w = "Orchestrator" => attempt[w] = 0
           /\ at[w] \in {"web", "web_twice"} => attempt[w] <= 3
           /\ at = [at EXCEPT ![w] = at[w]] /\ attempt = [attempt EXCEPT ![w] = attempt[w]]
           /\ sent = [sent EXCEPT ![w] = sent[w]]
<1>1. CASE w \in Agents
  <2>1. Knows(plan, w, at[w], hits[w], attempt[w], sent[w], result[w])
    BY <1>1, Own
  <2> QED
    BY <1>1, <2>1, Same, NotAnAgent DEF Knows
<1>2. CASE w = "Orchestrator"
  <2>1. Orchestrates(plan, at[w], attempt[w], sent[w], AllDone, cached)
    BY <1>2 DEF IInv
  <2> QED
    BY <1>2, <2>1, Same DEF Orchestrates
<1> QED
  BY <1>1, <1>2 DEF Writers

(* The steps left, place by place.                                         *)
LEMMA ByPlace ==
    ASSUME NEW x, NEW n, NEW s
    PROVE  /\ x = "search" => StepsLeft(x, n, s) = 20
           /\ x = "again" => StepsLeft(x, n, s) = 19
           /\ x \in {"judge", "wait"} => StepsLeft(x, n, s) = 18
           /\ x = "generate" => StepsLeft(x, n, s) = 5 + 3 * AttemptsLeft(n) - s
           /\ x = "ask" => StepsLeft(x, n, s) = 6
           /\ x \in {"web", "web_twice"} => StepsLeft(x, n, s) = 5 - n
           /\ x = "join" => StepsLeft(x, n, s) = 2
           /\ x = "done" => StepsLeft(x, n, s) = 1
           /\ x = "over" => StepsLeft(x, n, s) = 0
  BY DEF StepsLeft

(* Each retry uses an attempt up.                                          *)
LEMMA Retried ==
    ASSUME NEW n \in 0..4
    PROVE  /\ AttemptsLeft(n) \in 1..4 /\ AttemptsLeft(0) = 4
           /\ \A failure : LET m == NextAttempt(n, failure) IN
                 m < 5 => AttemptsLeft(m) \in 1..4 /\ AttemptsLeft(m) < AttemptsLeft(n)
<1>1. AttemptsLeft(n) \in 1..4 /\ AttemptsLeft(0) = 4
  BY DEF AttemptsLeft
<1>2. n \in {0, 1, 2, 3, 4}
  OBVIOUS
<1>3. ASSUME NEW failure, NEW m, m = NextAttempt(n, failure), m < 5
      PROVE  \/ n = 0 /\ m \in {1, 2, 4}
             \/ n = 2 /\ m \in {3, 4}
             \/ n = 3 /\ m = 4
  BY <1>2, <1>3 DEF NextAttempt
<1>4. /\ AttemptsLeft(0) = 4 /\ AttemptsLeft(1) = 1 /\ AttemptsLeft(2) = 3
      /\ AttemptsLeft(3) = 2 /\ AttemptsLeft(4) = 1
  BY DEF AttemptsLeft
<1> QED
  BY <1>1, <1>3, <1>4

(* Before the first attempt a generation is at most this long.             *)
LEMMA Ahead ==
    ASSUME NEW s \in 0..2
    PROVE  /\ StepsLeft("generate", 0, s) < 18
           /\ StepsLeft("web", 0, s) = 5 /\ StepsLeft("web_twice", 0, s) = 5
           /\ StepsLeft("done", 0, s) = 1
<1>1. AttemptsLeft(0) = 4
  BY DEF AttemptsLeft
<1> QED
  BY <1>1, ByPlace

(* The agents' steps before they write.                                    *)
LEMMA EarlyAdvance ==
    ASSUME IInv, NEW a \in Agents,
           LookUp(a) \/ check_retrieval_relevance(a) \/ React(a) \/ Ask(a)
    PROVE  Nearer(a)
<1>1. a \in Writers /\ a # "Orchestrator"
  BY NotAnAgent
<1>2. at[a] \in {"search", "again", "judge", "ask"} /\ UNCHANGED <<attempt, sent>>
  BY DEF LookUp, check_retrieval_relevance, React, Ask
<1>3. /\ attempt[a] = 0 /\ sent[a] \in 0..2
      /\ attempt' = [attempt EXCEPT ![a] = attempt[a]] /\ sent' = [sent EXCEPT ![a] = sent[a]]
  BY <1>1, <1>2, Counts
<1>4. PICK x \in {"again", "judge", "generate", "web", "done"} :
          /\ at' = [at EXCEPT ![a] = x]
          /\ x = "again" => at[a] = "search"
          /\ x = "judge" => at[a] \in {"search", "again"}
          /\ x = "generate" => at[a] \in {"search", "again", "judge"}
  <2>1. CASE LookUp(a)
    <3>1. PICK found : at' = [at EXCEPT ![a] = AfterSearch(a, found)]
      BY <2>1 DEF LookUp, Go
    <3>2. /\ AfterSearch(a, found) \in {"again", "judge", "generate", "web", "done"}
          /\ AfterSearch(a, found) = "again" => at[a] = "search"
      BY DEF AfterSearch
    <3> QED
      BY <2>1, <3>1, <3>2 DEF LookUp
  <2>2. CASE check_retrieval_relevance(a)
    BY <2>2 DEF check_retrieval_relevance, Go
  <2>3. CASE React(a)
    BY <2>3 DEF React, Go
  <2>4. CASE Ask(a)
    BY <2>4 DEF Ask, Go
  <2> QED
    BY <2>1, <2>2, <2>3, <2>4
<1>5. /\ at[a] = "search" => Left(a) = 20
      /\ at[a] = "again" => Left(a) = 19
      /\ at[a] = "judge" => Left(a) = 18
      /\ at[a] = "ask" => Left(a) = 6
  BY ByPlace DEF Left
<1>6. /\ x = "again" => StepsLeft(x, 0, sent[a]) = 19
      /\ x = "judge" => StepsLeft(x, 0, sent[a]) = 18
      /\ x = "generate" => StepsLeft(x, 0, sent[a]) < 18
      /\ x = "web" => StepsLeft(x, 0, sent[a]) = 5
      /\ x = "done" => StepsLeft(x, 0, sent[a]) = 1
  BY <1>3, ByPlace, Ahead
<1>7. StepsLeft(x, 0, sent[a]) < Left(a)
  <2>1. x = "generate" => StepsLeft(x, 0, sent[a]) \in Int
    BY <1>3, ByPlace, Retried
  <2> QED
    BY <1>2, <1>4, <1>5, <1>6, <2>1
<1>8. x \in Places
  BY <1>4 DEF Places
<1> QED
  BY <1>3, <1>4, <1>7, <1>8 DEF Nearer

(* A writer at its text has one step at least for each attempt left.       *)
LEMMA AtItsText ==
    ASSUME IInv, NEW w \in Writers, at[w] = "generate"
    PROVE  /\ Left(w) = 5 + 3 * AttemptsLeft(attempt[w]) - sent[w] /\ Left(w) > 5
           /\ AttemptsLeft(attempt[w]) \in 1..4 /\ sent[w] \in 0..2 /\ attempt[w] \in 0..4
  BY Counts, Retried, ByPlace DEF Left

LEMMA TokenAdvances == ASSUME IInv, NEW w \in Writers, Token(w) PROVE Nearer(w)
<1>1. /\ at[w] = "generate" /\ sent[w] < 2 /\ sent' = [sent EXCEPT ![w] = sent[w] + 1]
      /\ UNCHANGED <<at, attempt>>
  BY DEF Token
<1>2. /\ at' = [at EXCEPT ![w] = "generate"] /\ attempt' = [attempt EXCEPT ![w] = attempt[w]]
  BY <1>1, Counts
<1>3. StepsLeft("generate", attempt[w], sent[w] + 1) = 5 + 3 * AttemptsLeft(attempt[w]) - (sent[w] + 1)
  BY ByPlace
<1>4. StepsLeft("generate", attempt[w], sent[w] + 1) < Left(w)
  BY <1>1, <1>3, AtItsText
<1>5. "generate" \in Places
  BY DEF Places
<1> QED
  BY <1>1, <1>2, <1>4, <1>5 DEF Nearer

LEMMA FailAdvances == ASSUME IInv, NEW w \in Writers, StreamFails(w) PROVE Nearer(w)
<1>1. PICK failure \in {"timeout", "429", "other"} :
          IF NextAttempt(attempt[w], failure) < 5
          THEN /\ attempt' = [attempt EXCEPT ![w] = NextAttempt(attempt[w], failure)]
               /\ sent' = [sent EXCEPT ![w] = 0] /\ UNCHANGED at
          ELSE GivesUp(w) /\ UNCHANGED <<attempt, sent>>
  BY DEF StreamFails
<1> DEFINE n == NextAttempt(attempt[w], failure)
<1>2. at[w] = "generate"
  BY DEF StreamFails
<1>3. /\ at = [at EXCEPT ![w] = "generate"] /\ attempt = [attempt EXCEPT ![w] = attempt[w]]
      /\ sent = [sent EXCEPT ![w] = sent[w]]
  BY <1>2, Counts
<1>4. n < 5 => AttemptsLeft(n) \in 1..4 /\ AttemptsLeft(n) < AttemptsLeft(attempt[w])
  BY <1>2, AtItsText, Retried
<1>5. {"generate", "join", "done"} \subseteq Places
  BY DEF Places
<1>6. CASE n < 5
  <2>1. StepsLeft("generate", n, 0) = 5 + 3 * AttemptsLeft(n) - 0
    BY ByPlace
  <2>2. /\ attempt' = [attempt EXCEPT ![w] = n] /\ sent' = [sent EXCEPT ![w] = 0]
        /\ at' = [at EXCEPT ![w] = "generate"]
    BY <1>1, <1>3, <1>6
  <2> HIDE DEF n
  <2>3. StepsLeft("generate", n, 0) < Left(w)
    BY <1>2, <1>4, <1>6, <2>1, AtItsText
  <2> QED
    BY <1>5, <2>2, <2>3 DEF Nearer
<1>7. CASE ~(n < 5)
  <2>1. PICK x \in {"join", "done"} : at' = [at EXCEPT ![w] = x]
    BY <1>1, <1>7 DEF GivesUp, Go
  <2>2. attempt' = [attempt EXCEPT ![w] = attempt[w]] /\ sent' = [sent EXCEPT ![w] = sent[w]]
    BY <1>1, <1>3, <1>7
  <2> HIDE DEF n
  <2>3. StepsLeft(x, attempt[w], sent[w]) \in {1, 2}
    BY ByPlace
  <2>4. StepsLeft(x, attempt[w], sent[w]) < Left(w)
    BY <1>2, <2>3, AtItsText
  <2> QED
    BY <1>5, <2>1, <2>2, <2>4 DEF Nearer
<1> QED
  BY <1>6, <1>7

LEMMA GeneratedAdvances == ASSUME IInv, NEW a \in Agents, Generated(a) PROVE Nearer(a)
<1>1. a \in Writers /\ at[a] = "generate"
  BY NotAnAgent DEF Generated
<1>2. Left(a) > 5 /\ Left(a) \in Int /\ sent[a] \in 0..2
  BY <1>1, AtItsText
<1>3. attempt = [attempt EXCEPT ![a] = attempt[a]] /\ sent = [sent EXCEPT ![a] = sent[a]]
  BY <1>1, Counts
<1>4. PICK text : Apologised(a) \/ Answered(a, text)
  BY DEF Generated
<1>5. {"web", "web_twice", "done"} \subseteq Places
  BY DEF Places
<1>6. CASE Apologised(a)
  <2>1. PICK x \in {"web", "web_twice"} : at' = [at EXCEPT ![a] = x]
    BY <1>6 DEF Apologised, Go
  <2>2. attempt' = [attempt EXCEPT ![a] = 0] /\ sent' = [sent EXCEPT ![a] = 0]
    BY <1>6 DEF Apologised, Fresh
  <2>3. StepsLeft(x, 0, 0) = 5
    BY Ahead
  <2> QED
    BY <1>2, <1>5, <2>1, <2>2, <2>3 DEF Nearer
<1>7. CASE Answered(a, text)
  <2>1. at' = [at EXCEPT ![a] = "done"] /\ UNCHANGED <<attempt, sent>>
    BY <1>7 DEF Answered, Go
  <2>2. StepsLeft("done", attempt[a], sent[a]) = 1
    BY ByPlace
  <2>3. StepsLeft("done", attempt[a], sent[a]) < Left(a)
    BY <1>2, <2>2
  <2>4. attempt' = [attempt EXCEPT ![a] = attempt[a]] /\ sent' = [sent EXCEPT ![a] = sent[a]]
    BY <1>3, <2>1
  <2> QED
    BY <1>5, <2>1, <2>3, <2>4 DEF Nearer
<1> QED
  BY <1>4, <1>6, <1>7

LEMMA WebAdvances ==
    ASSUME IInv, NEW w \in Writers, WebRetries(w) \/ web_search_fallback(w)
    PROVE  Nearer(w)
<1>1. at[w] \in {"web", "web_twice"}
  BY DEF WebRetries, web_search_fallback, Webbing
<1>2. Left(w) = 5 - attempt[w] /\ attempt[w] \in 0..3
  BY <1>1, Counts, ByPlace DEF Left
<1>3. /\ at = [at EXCEPT ![w] = at[w]] /\ attempt = [attempt EXCEPT ![w] = attempt[w]]
      /\ sent = [sent EXCEPT ![w] = sent[w]]
  BY Counts
<1>4. {"web", "web_twice", "done"} \subseteq Places
  BY DEF Places
<1>5. CASE WebRetries(w)
  <2>1. attempt' = [attempt EXCEPT ![w] = attempt[w] + 1] /\ UNCHANGED <<at, sent>>
    BY <1>5 DEF WebRetries
  <2>2. StepsLeft(at[w], attempt[w] + 1, sent[w]) = 5 - (attempt[w] + 1)
    BY <1>1, ByPlace
  <2>3. StepsLeft(at[w], attempt[w] + 1, sent[w]) < Left(w)
    BY <1>2, <2>2
  <2>4. at' = [at EXCEPT ![w] = at[w]] /\ sent' = [sent EXCEPT ![w] = sent[w]]
    BY <1>3, <2>1
  <2> QED
    BY <1>1, <1>4, <2>1, <2>3, <2>4 DEF Nearer
<1>6. CASE web_search_fallback(w)
  <2>1. at' = [at EXCEPT ![w] = "done"] /\ UNCHANGED <<attempt, sent>>
    BY <1>6 DEF web_search_fallback, Go
  <2>2. StepsLeft("done", attempt[w], sent[w]) = 1
    BY ByPlace
  <2>3. StepsLeft("done", attempt[w], sent[w]) < Left(w)
    BY <1>2, <2>2
  <2> QED
    BY <1>3, <1>4, <2>1, <2>3 DEF Nearer
<1> QED
  BY <1>5, <1>6

LEMMA OrchestratorAdvances ==
    ASSUME IInv, Synthesize \/ Synthesized \/ Join \/ Remember
    PROVE  Nearer("Orchestrator")
<1> DEFINE o == "Orchestrator"
<1>1. o \in Writers
  BY NotAnAgent
<1>2. UNCHANGED <<attempt, sent>>
  BY DEF Synthesize, Synthesized, Join, Remember
<1>3. /\ attempt' = [attempt EXCEPT ![o] = attempt[o]] /\ sent' = [sent EXCEPT ![o] = sent[o]]
  BY <1>1, <1>2, Counts
<1>4. {"web", "generate", "done", "over"} \subseteq Places
  BY DEF Places
<1>5. CASE Synthesize
  <2>1. at[o] = "wait" /\ attempt[o] = 0 /\ sent[o] \in 0..2
    BY <1>1, <1>5, Counts DEF Synthesize
  <2>2. \A p, kept : Leads(p, kept) => at' = [at EXCEPT ![o] = "done"]
                                    \/ at' = [at EXCEPT ![o] = "generate"]
    BY DEF Leads, Settle, Merge, Go
  <2>3. PICK x \in {"web", "done", "generate"} : at' = [at EXCEPT ![o] = x]
    BY <1>5, <2>2 DEF Synthesize, Settle, Merge, Go
  <2>4. Left(o) = 18
    BY <2>1, ByPlace DEF Left
  <2>5. StepsLeft(x, attempt[o], sent[o]) < Left(o)
    BY <2>1, <2>3, <2>4, Ahead
  <2> QED
    BY <1>3, <1>4, <2>3, <2>5 DEF Nearer
<1>6. CASE Synthesized \/ Join
  <2>1. at[o] \in {"generate", "join"} /\ at' = [at EXCEPT ![o] = "done"]
    BY <1>6 DEF Synthesized, Join, Go
  <2>2. Left(o) > 1
    BY <1>1, <2>1, AtItsText, ByPlace DEF Left
  <2>3. StepsLeft("done", attempt[o], sent[o]) = 1
    BY ByPlace
  <2>4. StepsLeft("done", attempt[o], sent[o]) < Left(o)
    BY <2>2, <2>3
  <2> QED
    BY <1>3, <1>4, <2>1, <2>4 DEF Nearer
<1>7. CASE Remember
  <2>1. at[o] = "done" /\ at' = [at EXCEPT ![o] = "over"]
    BY <1>7 DEF Remember, Go
  <2>2. Left(o) = 1 /\ StepsLeft("over", attempt[o], sent[o]) = 0
    BY <2>1, ByPlace DEF Left
  <2>3. StepsLeft("over", attempt[o], sent[o]) < Left(o)
    BY <2>2
  <2> QED
    BY <1>3, <1>4, <2>1, <2>3 DEF Nearer
<1> QED
  BY <1>5, <1>6, <1>7

LEMMA StepAdvances == ASSUME IInv, NEW w \in Writers, Step(w) PROVE Nearer(w)
<1>1. CASE Token(w) \/ StreamFails(w) \/ WebRetries(w) \/ web_search_fallback(w)
  BY <1>1, TokenAdvances, FailAdvances, WebAdvances
<1>2. CASE Generated(w)
  BY <1>2, GeneratedAdvances DEF Generated
<1>3. CASE w \in Agents /\ (LookUp(w) \/ check_retrieval_relevance(w) \/ React(w) \/ Ask(w))
  BY <1>3, EarlyAdvance
<1>4. CASE w = "Orchestrator" /\ (Synthesize \/ Synthesized \/ Join \/ Remember)
  BY <1>4, OrchestratorAdvances
<1> QED
  BY <1>1, <1>2, <1>3, <1>4 DEF Step

LEMMA NearerAlone ==
    ASSUME IInv, Placed, NEW w \in Writers, Nearer(w)
    PROVE  /\ Left(w)' < Left(w) /\ \A v \in Writers : v # w => Left(v)' = Left(v)
           /\ Placed'
<1>1. PICK x \in Places : \E n, s :
        /\ at' = [at EXCEPT ![w] = x] /\ attempt' = [attempt EXCEPT ![w] = n]
        /\ sent' = [sent EXCEPT ![w] = s]
        /\ StepsLeft(x, n, s) < Left(w)
  BY DEF Nearer
<1>2. PICK n, s :
        /\ at' = [at EXCEPT ![w] = x] /\ attempt' = [attempt EXCEPT ![w] = n]
        /\ sent' = [sent EXCEPT ![w] = s]
        /\ StepsLeft(x, n, s) < Left(w)
  BY <1>1
<1>3. /\ at'[w] = x /\ attempt'[w] = n /\ sent'[w] = s
      /\ \A v \in Writers : v # w =>
            at'[v] = at[v] /\ attempt'[v] = attempt[v] /\ sent'[v] = sent[v]
  BY <1>2 DEF IInv
<1> QED
  BY <1>2, <1>3 DEF Left, Placed

LEMMA AdvanceStep == ASSUME IInv, Placed, [Next]_vars PROVE WritersAdvance /\ Placed'
<1>1. ASSUME NEW w \in Writers, Step(w)
      PROVE  /\ Left(w)' < Left(w) /\ Placed'
             /\ \A v \in Writers : v # w => Left(v)' = Left(v)
  BY <1>1, StepAdvances, NearerAlone
<1>2. (\E w \in Writers : Step(w)) \/ UNCHANGED vars
  BY DEF Next, Over
<1>3. UNCHANGED vars => Placed' /\ \A w \in Writers : Left(w)' = Left(w)
  BY DEF vars, Placed, Left
<1>4. Placed'
  BY <1>1, <1>2, <1>3
<1>5. ASSUME NEW w \in Writers PROVE Left(w)' < Left(w) \/ Left(w)' = Left(w)
  BY <1>1, <1>2, <1>3
<1> QED
  BY <1>1, <1>4, <1>5 DEF WritersAdvance

LEMMA AlwaysPlaced == Spec => [](IInv /\ Placed)
<1>1. Init => Placed
  BY DEF Init, Placed, Places, Entry
<1>2. IInv /\ Placed /\ [Next]_vars => Placed'
  BY AdvanceStep
<1> QED
  BY <1>1, <1>2, Initial, Inductive, PTL DEF Spec

(* No agent and no orchestrator starts over, whatever fails.               *)
THEOREM EveryStepAdvances == Spec => [][WritersAdvance]_vars
<1>1. IInv /\ Placed /\ [Next]_vars => [WritersAdvance]_vars
  BY AdvanceStep
<1> QED
  BY <1>1, AlwaysPlaced, PTL DEF Spec

(* An agent has at most 19 steps to its result and the orchestrator 18     *)
(* from then to the end of the turn (the attempts of stream_chain_response *)
(* and web_search_fallback counted).                                       *)
THEOREM TurnsAreBounded ==
    Spec => [](\A w \in Writers : /\ Left(w) \in 0..20
                                  /\ Left(w) = 0 <=> at[w] = "over"
                                  /\ Left(w) = 1 <=> at[w] = "done")
<1>1. ASSUME IInv, Placed, NEW w \in Writers
      PROVE  /\ Left(w) \in 0..20
             /\ Left(w) = 0 <=> at[w] = "over"
             /\ Left(w) = 1 <=> at[w] = "done"
  <2>1. CASE at[w] = "generate"
    BY <1>1, <2>1, AtItsText
  <2>2. CASE at[w] \in {"web", "web_twice"}
    <3>1. Left(w) = 5 - attempt[w] /\ attempt[w] \in 0..3
      BY <1>1, <2>2, Counts, ByPlace DEF Left
    <3> QED
      BY <2>2, <3>1
  <2>3. CASE at[w] \in Places \ {"generate", "web", "web_twice"}
    BY <2>3, ByPlace DEF Left, Places
  <2> QED
    BY <1>1, <2>1, <2>2, <2>3 DEF Placed
<1>2. IInv /\ Placed => \A w \in Writers : /\ Left(w) \in 0..20
                                           /\ Left(w) = 0 <=> at[w] = "over"
                                           /\ Left(w) = 1 <=> at[w] = "done"
  BY <1>1
<1> QED
  BY <1>2, AlwaysPlaced, PTL
=============================================================================
