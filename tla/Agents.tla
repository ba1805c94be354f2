------------------------------- MODULE Agents -------------------------------
(***************************************************************************)
(* The agents of one turn on the streaming endpoint, from their searches   *)
(* (SearchCalls) to the answer, what the reader's page shows meanwhile and *)
(* whether the answer is cached.  The agents of a plan run in parallel and *)
(* write their tokens to one stream; a token_reset clears the page for all *)
(* of them.  When all are done the orchestrator answers: with a text of    *)
(* theirs, with a merge it streams itself, or with a web search of its own.*)
(***************************************************************************)
EXTENDS SearchCalls, FiniteSets

CONSTANTS Plans         \* the plans that may come: sets of agents

Retrieving == {"Legislation", "Newacts", "Judgment", "Constitution", "Maxim"}
Reacting == {"SCI_Judgment", "GST_Judgment"}
Agents == Retrieving \cup Reacting \cup {"Legal_Concepts", "Document", "Scenario", "Non_legal"}
Writers == Agents \cup {"Orchestrator"}

ASSUME PlansAssumption == \A plan \in Plans : plan \subseteq Agents /\ plan # {}

VARIABLES plan,
          at,        \* at[w]: where w's handler is
          hits,      \* hits[a]: what a found: "exact" and "cross" skip the judge
          attempt,   \* attempt[w]: attempts of the model or web call before this one
          sent,      \* sent[w]: pieces of its text the running attempt has streamed
          result,    \* result[a]: AgentResult
          bubble,    \* the pieces of text on the reader's page
          answer,    \* final_response: [text, by, web]
          cached     \* whether the answer went into the response cache

vars == <<plan, at, hits, attempt, sent, result, bubble, answer, cached>>

Result(text, web, error) == [text |-> text, web |-> web, error |-> error]
NoResult == Result("none", FALSE, FALSE)
NoAnswer == [text |-> "none", by |-> "nobody", web |-> FALSE]

(* Where each handler begins                                               *)
Entry(a) == CASE a \in Retrieving -> "search" [] a = "Legal_Concepts" -> "web" [] OTHER -> "ask"

Init == /\ plan \in Plans
        /\ at = [w \in Writers |-> IF w \in plan THEN Entry(w) ELSE
                                   IF w = "Orchestrator" THEN "wait" ELSE "done"]
        /\ hits = [a \in Agents |-> "none"]
        /\ attempt = [w \in Writers |-> 0] /\ sent = [w \in Writers |-> 0]
        /\ result = [a \in Agents |-> NoResult]
        /\ bubble = <<>> /\ answer = NoAnswer /\ cached = FALSE

-----------------------------------------------------------------------------
(* What the searches of each handler come to: "found", "exact", "cross" (a *)
(* question across acts), "none", or "error" when one raises.              *)

Found(outcomes) == {IF o = "hits" THEN "found" ELSE IF o = "empty" THEN "none" ELSE "error" :
                       o \in outcomes}
Swallowed(outcomes) == {IF o = "hits" THEN "found" ELSE "none" : o \in outcomes}

(* Some refused queries (too many clauses) count as no hits.               *)
Tolerant(outcomes) == Found(outcomes) \cup IF "refused" \in outcomes THEN {"none"} ELSE {}

(* Several sections; one, or a name; then by topic if nothing was found.   *)
LegislationFinds == Found(Outcomes["search_legislation_multi_section"])
    \cup Tolerant(Outcomes["legislation_agent_search"])
    \cup Found(Outcomes["search_legislation_by_topic"])

ByTopic == Found(Outcomes["search_newacts_by_topic"])

(* One act: a refused or unembeddable query is searched again by words.    *)
OneAct == Found(Outcomes["newacts_agent_search"])
    \cup IF Outcomes["newacts_agent_search"] \cap {"refused", "broken"} = {} THEN {} ELSE ByTopic

CrossActs == Outcomes["newacts_agent_search_per_act"]
CrossFinds == {IF h = "found" THEN "cross" ELSE h :
                  h \in Found(CrossActs) \cup Swallowed(Outcomes["search_newacts_by_topic"])
                        \cup IF "broken" \in CrossActs THEN ByTopic ELSE {}}

Exactly(found) == found \cup IF "found" \in found THEN {"exact"} ELSE {}

(* The neighbours of a section and mapped sections may fill a gap.         *)
NewactsFinds == Exactly(ByTopic \cup OneAct \cup Swallowed(Outcomes["get_nearby_sections"]))
                \cup CrossFinds

(* The preliminary search first: it may fail or be too slow.               *)
JudgmentFinds == Exactly(Swallowed(Outcomes["smart_judgment_search"])
                         \cup Tolerant(Outcomes["smart_judgment_search"]))

ConstitutionFinds == Found(Outcomes["constitution_agent_search"])

Finds(a) == CASE a = "Legislation" -> LegislationFinds
              [] a = "Newacts" -> NewactsFinds
              [] a = "Judgment" -> JudgmentFinds
              [] OTHER -> ConstitutionFinds

(* The second search, with the query rewritten or the section and act read *)
(* from it by pattern; New Acts gives up when its time is nearly over.     *)
FindsAgain(a) ==
    CASE a = "Legislation" -> Swallowed(Outcomes["legislation_agent_search"])
      [] a = "Newacts" -> Exactly(Swallowed(Outcomes["newacts_agent_search"])) \cup {"cross", "error"}
      [] OTHER -> Exactly(Swallowed(Outcomes["smart_judgment_search"]))

-----------------------------------------------------------------------------
Go(w, where) == at' = [at EXCEPT ![w] = where]
Hold(w, r) == result' = [result EXCEPT ![w] = r]
Fresh(w) == attempt' = [attempt EXCEPT ![w] = 0] /\ sent' = [sent EXCEPT ![w] = 0]
Raised == Result("none", FALSE, TRUE)

AfterSearch(a, found) ==
    CASE found = "error" -> "done"
      [] found \in {"exact", "cross"} -> "generate"
      [] found = "found" -> "judge"
      [] OTHER -> IF at[a] = "search" /\ a \notin {"Constitution", "Maxim"} THEN "again" ELSE "web"

LookUp(a) ==
    /\ at[a] \in {"search", "again"}
    /\ \E found \in IF at[a] = "search" THEN Finds(a) ELSE FindsAgain(a) :
          /\ Go(a, AfterSearch(a, found))
          /\ IF found = "error" THEN Hold(a, Raised) /\ UNCHANGED hits
             ELSE hits' = [hits EXCEPT ![a] = found] /\ UNCHANGED result
    /\ UNCHANGED <<plan, attempt, sent, bubble, answer, cached>>

(* The semantic floor and the model's verdict; an error of either accepts. *)
check_retrieval_relevance(a) ==
    /\ at[a] = "judge"
    /\ \E relevant \in BOOLEAN : Go(a, IF relevant THEN "generate" ELSE "web")
    /\ UNCHANGED <<plan, hits, attempt, sent, result, bubble, answer, cached>>

-----------------------------------------------------------------------------
(* stream_chain_response: attempts 0 first, 1 after a timeout, 2 and 3     *)
(* after a 429, 4 the last                                                 *)

Token(w) == /\ at[w] = "generate" /\ sent[w] < 2
            /\ sent' = [sent EXCEPT ![w] = @ + 1]
            /\ bubble' = Append(bubble, <<w, IF sent[w] = 0 THEN "head" ELSE "tail">>)
            /\ UNCHANGED <<plan, at, hits, attempt, result, answer, cached>>

(* The attempt after this one failed so: 5 is none.                        *)
NextAttempt(n, failure) ==
    CASE n = 0 -> (CASE failure = "timeout" -> 1 [] failure = "429" -> 2 [] OTHER -> 4)
      [] n = 2 -> IF failure = "429" THEN 3 ELSE 4
      [] n = 3 -> 4
      [] OTHER -> 5

(* Deviation: the retry forgets to announce itself.                        *)
ClearsSilently(n, failure) == n # 0

(* Each retry clears the page first; of the attempts that are not followed *)
(* by another only the second timeout does.                                *)
Clears(n, failure) == NextAttempt(n, failure) < 5 \/ (n = 1 /\ failure = "timeout")

GivesUp(w) == IF w = "Orchestrator" THEN Go(w, "join") /\ UNCHANGED result
              ELSE Go(w, "done") /\ Hold(w, Raised)

(* Deviation: a 429 is always worth another attempt.                       *)
StreamFailsPatiently(w) ==
    /\ at[w] = "generate"
    /\ \E failure \in {"timeout", "429", "other"} :
          /\ bubble' = IF Clears(attempt[w], failure) THEN <<>> ELSE bubble
          /\ IF NextAttempt(attempt[w], failure) < 5 \/ failure = "429"
             THEN /\ attempt' = [attempt EXCEPT ![w] =
                         IF failure = "429" THEN 2 ELSE NextAttempt(@, failure)]
                  /\ sent' = [sent EXCEPT ![w] = 0] /\ UNCHANGED <<at, result>>
             ELSE GivesUp(w) /\ UNCHANGED <<attempt, sent>>
    /\ UNCHANGED <<plan, hits, answer, cached>>

StreamFails(w) ==
    /\ at[w] = "generate"
    /\ \E failure \in {"timeout", "429", "other"} :
          /\ bubble' = IF Clears(attempt[w], failure) THEN <<>> ELSE bubble
          /\ IF NextAttempt(attempt[w], failure) < 5
             THEN /\ attempt' = [attempt EXCEPT ![w] = NextAttempt(@, failure)]
                  /\ sent' = [sent EXCEPT ![w] = 0] /\ UNCHANGED <<at, result>>
             ELSE GivesUp(w) /\ UNCHANGED <<attempt, sent>>
    /\ UNCHANGED <<plan, hits, answer, cached>>

(* Deviation: the text is taken as it comes.                               *)
GeneratedUnread(a) ==
    /\ a \in Agents /\ at[a] = "generate" /\ sent[a] = 2
    /\ Go(a, "done") /\ \E text \in {"grounded", "sorry"} : Hold(a, Result(text, FALSE, FALSE))
    /\ UNCHANGED <<plan, hits, attempt, sent, bubble, answer, cached>>

(* A text that apologises is thrown away for a web search ...              *)
Apologised(a) ==
    /\ bubble' = <<>> /\ Fresh(a) /\ UNCHANGED result
    /\ Go(a, IF a \in {"Constitution", "Maxim"} THEN "web_twice" ELSE "web")

Answered(a, text) ==
    /\ Go(a, "done") /\ Hold(a, Result(text, FALSE, FALSE))
    /\ UNCHANGED <<bubble, attempt, sent>>

(* ... except across acts.                                                 *)
Generated(a) ==
    /\ a \in Agents /\ at[a] = "generate" /\ sent[a] = 2
    /\ \E text \in {"grounded", "sorry"} :
          IF text = "sorry" /\ hits[a] # "cross" THEN Apologised(a) ELSE Answered(a, text)
    /\ UNCHANGED <<plan, hits, answer, cached>>

-----------------------------------------------------------------------------
(* web_search_fallback: it always has a text, and streams it unless it     *)
(* failed.  Constitution and Maxim stream what it returns once more.       *)

Webbing(w) == at[w] \in {"web", "web_twice"}

(* Deviation: one retry too many.                                          *)
WebRetriesOnceMore(w) ==
    /\ Webbing(w) /\ attempt[w] < 4 /\ attempt' = [attempt EXCEPT ![w] = @ + 1]
    /\ UNCHANGED <<plan, at, hits, sent, result, bubble, answer, cached>>

WebRetries(w) == /\ Webbing(w) /\ attempt[w] < 3
                 /\ attempt' = [attempt EXCEPT ![w] = @ + 1]
                 /\ UNCHANGED <<plan, at, hits, sent, result, bubble, answer, cached>>

WebText(w) == <<w, "web">>

(* Grounded in sources it found, without any, or the apology of a failure. *)
WebResults == {Result("web", TRUE, FALSE), Result("sorry", TRUE, FALSE), Result("sorry", TRUE, TRUE)}

(* Deviation: the wrapping loses the flag as well.                         *)
WrappedPlainly(a, r) == IF a \in Reacting THEN Result(r.text, FALSE, FALSE) ELSE r

(* SCI and GST wrap the result anew, without its error.                    *)
Wrapped(a, r) == IF a \in Reacting THEN [r EXCEPT !.error = FALSE] ELSE r

web_search_fallback(w) ==
    /\ Webbing(w)
    /\ \E r \in WebResults :
          /\ bubble' = bubble \o (IF r.error THEN <<>> ELSE <<WebText(w)>>)
                              \o (IF at[w] = "web_twice" THEN <<WebText(w)>> ELSE <<>>)
          /\ IF w = "Orchestrator"
             THEN answer' = [text |-> r.text, by |-> w, web |-> TRUE] /\ UNCHANGED result
             ELSE Hold(w, Wrapped(w, r)) /\ UNCHANGED answer
    /\ Go(w, "done")
    /\ UNCHANGED <<plan, hits, attempt, sent, cached>>

-----------------------------------------------------------------------------
(* The agents that do not stream                                           *)

(* A model with the search tools.  It may answer without using one: then   *)
(* the topic search is forced on it.  A search's error comes back as text, *)
(* which the model may take for findings ("echo").                         *)
Forced(a) == IF a = "SCI_Judgment" THEN Outcomes["sci_search_by_topic"]
             ELSE Outcomes["gst_search_by_topic"]
ReactTexts(a) == {"grounded", "model", "none"}
                 \cup IF "message" \in Forced(a) THEN {"echo"} ELSE {}

React(a) ==
    /\ a \in Reacting /\ at[a] = "ask"
    /\ \/ Go(a, "done") /\ Hold(a, Raised)
       \/ \E text \in ReactTexts(a) : \E sources \in BOOLEAN :
             IF text = "none" /\ ~sources THEN Go(a, "web") /\ UNCHANGED result
             ELSE Go(a, "done") /\ Hold(a, Result(text, FALSE, FALSE))
    /\ UNCHANGED <<plan, hits, attempt, sent, bubble, answer, cached>>

(* The file may be unreadable, hold nothing on the question or be too big. *)
document == {Result("sorry", FALSE, TRUE), Result("sorry", FALSE, FALSE),
             Result("grounded", FALSE, FALSE), Result("none", FALSE, FALSE), Raised}

(* The grounded call, and without a text the call without grounding        *)
scenario == {Result("model", FALSE, FALSE), Result("none", FALSE, FALSE), Raised}

(* A model's reply, or the fixed greeting with the error                   *)
non_legal == {Result("model", FALSE, FALSE), Result("none", FALSE, FALSE),
              Result("model", FALSE, TRUE)}

Reply(a) == CASE a = "Document" -> document [] a = "Scenario" -> scenario [] OTHER -> non_legal

Ask(a) == /\ a \notin Reacting /\ at[a] = "ask"
          /\ Go(a, "done") /\ \E r \in Reply(a) : Hold(a, r)
          /\ UNCHANGED <<plan, hits, attempt, sent, bubble, answer, cached>>

-----------------------------------------------------------------------------
(* orchestrator_synthesize_node                                            *)

Valid == {a \in plan : result[a].text # "none" /\ ~result[a].error}

AnswerOf(a) == [text |-> result[a].text, by |-> a, web |-> result[a].web]
Settle(r) == answer' = r /\ Go("Orchestrator", "done") /\ UNCHANGED bubble
Merge(clearing) == /\ Go("Orchestrator", "generate") /\ UNCHANGED answer
                   /\ bubble' = IF clearing THEN <<>> ELSE bubble

(* special: a table or another language is wanted or a file was not read.  *)
(* The agent of the task leads; supporters that add nothing are dropped.   *)
Leads(p, kept) ==
    CASE kept = {} -> Settle(AnswerOf(p))
      [] kept # {} /\ p \in {"Judgment", "SCI_Judgment"} ->
            Settle([text |-> "joined", by |-> p, web |-> FALSE])
      [] OTHER -> Merge(TRUE)

Synthesize ==
    /\ at["Orchestrator"] = "wait" /\ \A a \in plan : at[a] = "done"
    /\ \/ /\ Valid = {} /\ Go("Orchestrator", "web") /\ UNCHANGED <<answer, bubble>>
       \/ \E a \in Valid : Valid = {a} /\ Settle(AnswerOf(a))
       \/ \E p \in Valid \ {"Document", "Non_legal"} :
             \E kept \in SUBSET (Valid \ {p}) : Cardinality(Valid) > 1 /\ Leads(p, kept)
       \/ Valid # {} /\ Merge(FALSE)
    /\ UNCHANGED <<plan, hits, attempt, sent, result, cached>>

Synthesized ==
    /\ at["Orchestrator"] = "generate" /\ sent["Orchestrator"] = 2
    /\ answer' = [text |-> "merged", by |-> "Orchestrator", web |-> FALSE]
    /\ Go("Orchestrator", "done")
    /\ UNCHANGED <<plan, hits, attempt, sent, result, bubble, cached>>

Join == /\ at["Orchestrator"] = "join"
        /\ answer' = [text |-> "joined", by |-> "agents", web |-> FALSE]
        /\ Go("Orchestrator", "done")
        /\ UNCHANGED <<plan, hits, attempt, sent, result, bubble, cached>>

(* run_chat_pipeline: the first turn of a thread without files             *)
any_fallback_used == \E a \in plan : result[a].web

Remember == /\ at["Orchestrator"] = "done"
            /\ cached' = (~any_fallback_used /\ "Document" \notin plan) /\ Go("Orchestrator", "over")
            /\ UNCHANGED <<plan, hits, attempt, sent, result, bubble, answer>>

-----------------------------------------------------------------------------
Step(w) == \/ Token(w) \/ StreamFails(w) \/ Generated(w)
           \/ WebRetries(w) \/ web_search_fallback(w)
           \/ /\ w \in Agents
              /\ \/ LookUp(w) \/ check_retrieval_relevance(w) \/ React(w) \/ Ask(w)
           \/ w = "Orchestrator" /\ (Synthesize \/ Synthesized \/ Join \/ Remember)

Over == at["Orchestrator"] = "over" /\ UNCHANGED vars
Next == Over \/ \E w \in Writers : Step(w)

(* Every model call, search and web call ends or times out.                *)
Spec == Init /\ [][Next]_vars /\ \A w \in Writers : WF_vars(Step(w))

-----------------------------------------------------------------------------
(* Properties                                                              *)

(* The types, and the attempts a call may make.                            *)
TypeOK ==
    /\ plan \in Plans /\ cached \in BOOLEAN
    /\ \A w \in Writers : attempt[w] \in 0..4 /\ sent[w] \in 0..2
    /\ \A a \in Agents : /\ hits[a] \in {"none", "found", "exact", "cross"}
                         /\ at[a] # "generate" => attempt[a] <= 3 \/ result[a] # NoResult
                         /\ at[a] # "done" => result[a] = NoResult

(* What a retrieving agent says without a flag rests on hits: whatever was *)
(* searched twice, judged, streamed anew or apologised for on the way, a   *)
(* result that is neither marked as web search nor as error was written    *)
(* from hits, and apologises only for a question across acts.              *)
UnflaggedTextRestsOnHits ==
    \A a \in plan \cap Retrieving : LET r == result[a] IN
        at[a] = "done" /\ ~r.web /\ ~r.error =>
            hits[a] # "none" /\ (r.text = "sorry" => hits[a] = "cross")

(* A page shows the answer when one agent wrote to it, alone in its plan,  *)
(* and its text is the answer.  After however many failed attempts it holds*)
(* the text once and nothing else, or nothing, and then the page shows the *)
(* answer itself (stream_chain_response's token_reset before each retry).  *)
(* Constitution and Maxim, who stream a web text twice, are left out.      *)
Text(w) == <<<<w, "head">>, <<w, "tail">>>>
PageShowsTheAnswer ==
    \A a \in plan : plan = {a} /\ answer.by = a /\ a \notin {"Constitution", "Maxim"} =>
        bubble \in {<<>>, IF answer.web THEN <<WebText(a)>> ELSE Text(a)}

(* An answer to which an agent's web search contributed is not cached: the *)
(* flag survives every wrapping of the result.                             *)
AgentWebAnswersAreNotCached ==
    cached => \A a \in plan : result[a].text # "web"

(* Every turn comes to an answer with a text, whatever fails.              *)
EveryTurnIsAnswered == <>(answer.text # "none" /\ at["Orchestrator"] = "over")

(* "any agent fell back to web-grounded search ... so we must NOT cache it"*)
(* (chat_runner.py:396-401), the orchestrator's own included.              *)
WebAnswersAreNotCached == cached => ~answer.web
=============================================================================
