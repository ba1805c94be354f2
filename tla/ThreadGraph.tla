----------------------------- MODULE ThreadGraph -----------------------------
(***************************************************************************)
(* One conversation thread of the agent graph (core/graph.py): guardrail,  *)
(* memory, plan, fan-out to the domain agents, synthesis, output guardrail,*)
(* over the state channels of core/state.py that the checkpointer keeps    *)
(* from one turn of the thread to the next, and the part of a turn that    *)
(* the two endpoints read out of a run: what is sent and what is saved.    *)
(*                                                                         *)
(* LangGraph runs supersteps: the nodes of a step see the channels as they *)
(* were before it, their writes are applied together when all of them have *)
(* finished, and the result is checkpointed.  A node that raises, or the   *)
(* timeout around the run, drops the writes of the step.  Each run works   *)
(* on its own copy of the channels, loaded from the latest checkpoint of   *)
(* the thread when its input arrives.                                      *)
(***************************************************************************)
EXTENDS Naturals, FiniteSets

CONSTANTS
    Agents,       \* names under which domain agents file their results
    Supporting,   \* those that are nobody's primary (Document, Non_legal)
    Runs,         \* requests that may be under way on the thread at once
    MaxTurns,     \* bound of the model: requests made on the thread
    Endpoint,     \* "stream" (core/chat_runner.py) or "batch" (/pyapi/search)
    Queries,      \* kinds of request: "empty", "ask", "greet", "regenerate"
    Files         \* what the request brings: "none", "text", "indexed"

ASSUME ThreadGraphAssumption ==
    /\ {"Drafting", "Scenario"} \subseteq Agents
    /\ "Refiner" \notin Agents
    /\ Supporting \subseteq Agents \ {"Drafting", "Scenario"}
    /\ MaxTurns \in Nat
    /\ Endpoint \in {"stream", "batch"}
    /\ Queries \subseteq {"empty", "ask", "greet", "regenerate"}
    /\ Files \subseteq {"none", "text", "indexed"}

Turn == 1..MaxTurns
Names == Agents \cup {"Refiner"}

VARIABLES
    turns,   \* requests received so far; a request's turn is its number
    saved,   \* the latest checkpoint of the thread
    pc,      \* pc[r]: the node run r executes next
    turn,    \* turn[r]: the request run r serves
    query,   \* query[r]: its kind
    chan,    \* chan[r]: run r's copy of the channels
    wrote,   \* wrote[r]: results written in the current step, not yet applied
    view,    \* view[r]: what the streaming endpoint noted of run r's updates
    reply    \* reply[r]: what was sent and saved for it

vars == <<turns, saved, pc, turn, query, chan, wrote, view, reply>>

-----------------------------------------------------------------------------
\* A result is known by the turn that made it and by its outcome: "apology"
\* is a message together with an error, as Drafting returns for a query it
\* refuses.
Result == [turn : 0..MaxTurns, outcome : {"none", "text", "empty", "error", "apology"}]
NoResult == [turn |-> 0, outcome |-> "none"]

\* What of the extracted user intent decides the shape of the answer.
Intent == [turn : 0..MaxTurns, table : BOOLEAN, language : BOOLEAN]
NoIntent == [turn |-> 0, table |-> FALSE, language |-> FALSE]

\* A final_response: who wrote it and the results whose text it holds.
Kinds == {"nothing", "blocked", "refined", "message", "web", "verbatim",
          "draft", "primary", "appended", "merged"}
Final == [turn : 0..MaxTurns, kind : Kinds,
          uses : SUBSET (Names \X (0..MaxTurns)), guarded : BOOLEAN]
NoFinal == [turn |-> 0, kind |-> "nothing", uses |-> {}, guarded |-> FALSE]

Chan == [blocked : BOOLEAN, task : Names \cup {"", "Refine"},
         planned : SUBSET (Agents \cup {"Refine"}), file : {"none", "text", "indexed"},
         intent : Intent, results : [Names -> Result], final : Final]

EmptyChan == [blocked |-> FALSE, task |-> "", planned |-> {}, file |-> "none",
              intent |-> NoIntent, results |-> [a \in Names |-> NoResult],
              final |-> NoFinal]

View == [final : Final, draft : BOOLEAN, intent : Intent, blocked : BOOLEAN]
NoView == [final |-> NoFinal, draft |-> FALSE, intent |-> NoIntent, blocked |-> FALSE]

Nodes == {"guardrail_input", "blocked_response", "memory", "orchestrator_plan",
          "agents", "orchestrator_synthesize", "guardrail_output", "end"}

Init ==
    /\ turns = 0
    /\ saved = EmptyChan
    /\ pc = [r \in Runs |-> "idle"]
    /\ turn = [r \in Runs |-> 0]
    /\ query = [r \in Runs |-> "ask"]
    /\ chan = [r \in Runs |-> EmptyChan]
    /\ wrote = [r \in Runs |-> [a \in Names |-> NoResult]]
    /\ view = [r \in Runs |-> NoView]
    /\ reply = [r \in Runs |-> NoView]

-----------------------------------------------------------------------------
(* Channels *)

\* Bug: without its reducer the channel takes the {} of the input as its value.
InputWriteNoReducer(c, f) ==
    [c EXCEPT !.blocked = FALSE, !.task = "", !.planned = {}, !.file = f,
              !.final = NoFinal, !.results = [a \in {} |-> NoResult]]

\* The input of a turn.  agent_results is {} in it, which its reducer merges
\* into what is there; user_intent is not in it at all.
InputWrite(c, f) ==
    [c EXCEPT !.blocked = FALSE, !.task = "", !.planned = {}, !.file = f,
              !.final = NoFinal]

\* _merge_agent_results: {**existing, **new}
Merge(existing, new) ==
    [a \in Names |-> IF new[a] = NoResult THEN existing[a] ELSE new[a]]

\* The superstep of run r ends with channels c and leads to node next.
Superstep(r, c, next) ==
    /\ chan' = [chan EXCEPT ![r] = c]
    /\ saved' = c
    /\ pc' = [pc EXCEPT ![r] = next]

\* The nodes that route_after_orchestrator fans out to, by the name their
\* result is filed under; an unknown task goes to Scenario.
FanOut(c) ==
    LET known == c.planned \cap Agents
    IN IF c.planned = known /\ known # {} THEN known ELSE known \cup {"Scenario"}

-----------------------------------------------------------------------------
(* Request and entry nodes *)

Begin(r) ==
    /\ pc[r] \in {"idle", "answered"}
    /\ turns < MaxTurns
    /\ \E q \in Queries, f \in Files :
          /\ query' = [query EXCEPT ![r] = q]
          /\ Superstep(r, InputWrite(saved, f), "guardrail_input")
    /\ turns' = turns + 1
    /\ turn' = [turn EXCEPT ![r] = turns + 1]
    /\ wrote' = [wrote EXCEPT ![r] = [a \in Names |-> NoResult]]
    /\ view' = [view EXCEPT ![r] = NoView]
    /\ reply' = [reply EXCEPT ![r] = NoView]

\* guardrail_input_node and route_after_guardrail.
GuardrailInput(r) ==
    /\ pc[r] = "guardrail_input"
    /\ LET b == query[r] = "empty"
       IN /\ Superstep(r, [chan[r] EXCEPT !.blocked = b],
                       IF b THEN "blocked_response" ELSE "memory")
          /\ view' = [view EXCEPT ![r].blocked = b]
    /\ UNCHANGED <<turns, turn, query, wrote, reply>>

BlockedResponse(r) ==
    /\ pc[r] = "blocked_response"
    /\ LET f == [turn |-> turn[r], kind |-> "blocked", uses |-> {}, guarded |-> FALSE]
       IN /\ Superstep(r, [chan[r] EXCEPT !.final = f], "guardrail_output")
          /\ view' = [view EXCEPT ![r].final = f]
    /\ UNCHANGED <<turns, turn, query, wrote, reply>>

\* memory_node: files of earlier turns come back when the request has none.
Memory(r) ==
    /\ pc[r] = "memory"
    /\ \E f \in Files \cup {chan[r].file} :
          /\ f # chan[r].file => chan[r].file = "none"
          /\ Superstep(r, [chan[r] EXCEPT !.file = f], "orchestrator_plan")
    /\ UNCHANGED <<turns, turn, query, wrote, view, reply>>

-----------------------------------------------------------------------------
(* orchestrator_plan_node and route_after_orchestrator *)

\* A greeting is planned without an intent; the channel keeps the last one.
\* Drafting leads every plan it is in.
Plan(r) ==
    /\ pc[r] = "orchestrator_plan"
    /\ query[r] \in {"ask", "greet"}
    /\ \E planned \in SUBSET Agents \ {{}}, table, language \in BOOLEAN :
        \E task \in planned :
          LET asked == query[r] = "ask"
              i == IF asked THEN [turn |-> turn[r], table |-> table, language |-> language]
                            ELSE chan[r].intent
          IN /\ asked \/ (planned = {task} /\ task \in Supporting /\ ~table /\ ~language)
             /\ "Drafting" \in planned => task = "Drafting"
             /\ Superstep(r, [chan[r] EXCEPT !.task = task, !.planned = planned,
                                             !.intent = i], "agents")
             /\ view' = [view EXCEPT ![r].intent = IF asked THEN i ELSE @]
    /\ UNCHANGED <<turns, turn, query, wrote, reply>>

\* Bug: the router does not know the task "Refine", so Scenario runs over it.
RouteRefineUnknown(text) == "agents"

\* With a refined text the agents and the synthesis are bypassed; without one
\* the task "Refine" is fanned out like any other.
RouteRefine(text) == IF text THEN "guardrail_output" ELSE "agents"

\* The regenerate short circuit: one refinement of the previous answer.
Refine(r) ==
    /\ pc[r] = "orchestrator_plan"
    /\ query[r] = "regenerate"
    /\ \E text \in BOOLEAN :
          LET f == IF text THEN [turn |-> turn[r], kind |-> "refined", uses |-> {},
                                 guarded |-> FALSE]
                           ELSE NoFinal
              c == [chan[r] EXCEPT !.task = "Refine", !.planned = {"Refine"},
                      !.results["Refiner"] = [turn |-> turn[r],
                                              outcome |-> IF text THEN "text" ELSE "empty"],
                      !.final = f]
          IN /\ Superstep(r, c, RouteRefine(text))
             /\ view' = [view EXCEPT ![r].final = IF text THEN f ELSE @]
    /\ UNCHANGED <<turns, turn, query, wrote, reply>>

-----------------------------------------------------------------------------
(* Domain agents *)

\* Bug: the capture looks at the content only.
IsDraftErrorIgnored(a, o) == a = "Drafting" /\ o \in {"text", "apology"}

\* A draft the next turn can modify.
IsDraft(a, o) == a = "Drafting" /\ o = "text"

\* One agent finishes.  The streaming endpoint sees its update at once and
\* notes a draft that can be modified by the next turn.
AgentAnswers(r, a) ==
    /\ pc[r] = "agents"
    /\ a \in FanOut(chan[r])
    /\ wrote[r][a] = NoResult
    /\ \E o \in {"text", "empty", "error", "apology"} :
          /\ wrote' = [wrote EXCEPT ![r][a] = [turn |-> turn[r], outcome |-> o]]
          /\ view' = [view EXCEPT ![r].draft = @ \/ IsDraft(a, o)]
    /\ UNCHANGED <<turns, saved, pc, turn, query, chan, reply>>

\* Bug: the edge of the first agent that finishes triggers the synthesis.
StepIsOverEarly(r) == \E a \in FanOut(chan[r]) : wrote[r][a] # NoResult

StepIsOver(r) == \A a \in FanOut(chan[r]) : wrote[r][a] # NoResult

\* All of them have: the step ends and their results are merged.
AgentsJoin(r) ==
    /\ pc[r] = "agents"
    /\ StepIsOver(r)
    /\ Superstep(r, [chan[r] EXCEPT !.results = Merge(@, wrote[r])],
                 "orchestrator_synthesize")
    /\ wrote' = [wrote EXCEPT ![r] = [a \in Names |-> NoResult]]
    /\ UNCHANGED <<turns, turn, query, view, reply>>

-----------------------------------------------------------------------------
(* orchestrator_synthesize_node *)

Valid(c) == {a \in Names : c.results[a].outcome = "text"}

\* The agent whose content leads the answer to c's task.
Primary(c) == IF c.task \in Agents \ (Supporting \cup {"Drafting"}) THEN c.task ELSE ""

\* A file that is indexed and that the Document agent has not read.
Unread(c) == c.file = "indexed" /\ "Document" \notin Valid(c)

\* The ways out of the synthesis, each as the kind of answer and the agents
\* whose text is in it.  No agent has a valid result: the web is searched, but
\* not for a draft from a file.
LastResort(c) ==
    IF (c.task = "Drafting" \/ "Drafting" \in c.planned) /\ c.file # "none"
    THEN {<<"message", {}>>} ELSE {<<"web", {}>>, <<"message", {}>>}

PassesThrough(c) ==
    /\ Cardinality(Valid(c)) = 1
    /\ ~Unread(c) /\ ~c.intent.table /\ ~c.intent.language

\* The draft, with the other results behind it; that of Document is dropped
\* when there is a file.
DraftAnswers(c) ==
    {<<"draft", IF c.file = "none" THEN Valid(c) ELSE Valid(c) \ {"Document"}>>}

PrimaryLeads(c) == Primary(c) \in Valid(c) /\ ~Unread(c) /\ ~c.intent.table

\* Redundant supporters are dropped, so some subset of them stays.  A merge by
\* the model may fail, and contents are appended, or answer nothing; a case-law
\* primary is never merged, which is one of the choices.
PrimaryAnswers(c) ==
    {<<"primary", {Primary(c)}>>} \cup
    UNION {{<<"appended", kept>>, <<"merged", kept>>, <<"nothing", {}>>} :
           kept \in {s \in SUBSET Valid(c) : {Primary(c)} \subseteq s /\ s # {Primary(c)}}}

MergedAnswers(c) ==
    {<<"merged", Valid(c)>>, <<"appended", Valid(c)>>, <<"nothing", {}>>}

Syntheses(c) ==
    IF Valid(c) = {} THEN LastResort(c)
    ELSE IF PassesThrough(c) THEN {<<"verbatim", Valid(c)>>}
    ELSE IF "Drafting" \in Valid(c) THEN DraftAnswers(c)
    ELSE IF PrimaryLeads(c) THEN PrimaryAnswers(c)
    ELSE MergedAnswers(c)

Synthesize(r) ==
    /\ pc[r] = "orchestrator_synthesize"
    /\ \E s \in Syntheses(chan[r]) :
          LET f == IF s[1] = "nothing" THEN NoFinal
                   ELSE [turn |-> turn[r], kind |-> s[1], guarded |-> FALSE,
                         uses |-> {<<a, chan[r].results[a].turn>> : a \in s[2]}]
          IN /\ Superstep(r, [chan[r] EXCEPT !.final = f], "guardrail_output")
             /\ view' = [view EXCEPT ![r].final = IF f = NoFinal THEN @ ELSE f]
    /\ UNCHANGED <<turns, turn, query, wrote, reply>>

-----------------------------------------------------------------------------
(* The way out *)

GuardrailOutput(r) ==
    /\ pc[r] = "guardrail_output"
    /\ LET f == IF chan[r].final = NoFinal
                THEN [turn |-> turn[r], kind |-> "message", uses |-> {}, guarded |-> TRUE]
                ELSE [chan[r].final EXCEPT !.guarded = TRUE]
       IN /\ Superstep(r, [chan[r] EXCEPT !.final = f], "end")
          /\ view' = [view EXCEPT ![r].final = f]
    /\ UNCHANGED <<turns, turn, query, wrote, reply>>

\* A node raises or the 300 s around the run are over.  The streaming endpoint
\* goes on with what it has seen; the batch endpoint answers with an error and
\* saves nothing.
Break(r) ==
    /\ pc[r] \in Nodes \ {"end"}
    /\ pc' = [pc EXCEPT ![r] = "answered"]
    /\ reply' = [reply EXCEPT ![r] = IF Endpoint = "stream" THEN view[r] ELSE NoView]
    /\ wrote' = [wrote EXCEPT ![r] = [a \in Names |-> NoResult]]
    /\ UNCHANGED <<turns, saved, turn, query, chan, view>>

\* Bug: the batch endpoint reads the final state back from the thread's checkpoint.
FinalStateOfThread(r) ==
    [final |-> saved.final, intent |-> saved.intent, blocked |-> saved.blocked,
     draft |-> ~saved.blocked /\ saved.results["Drafting"].outcome = "text"]

\* What the batch endpoint reads from the final state of the run.  For a
\* blocked request it sends block_reason and saves nothing.
FinalState(r) ==
    [final |-> [chan[r].final EXCEPT !.guarded = @ /\ ~chan[r].blocked],
     intent |-> chan[r].intent, blocked |-> chan[r].blocked,
     draft |-> ~chan[r].blocked /\ chan[r].results["Drafting"].outcome = "text"]

Finish(r) ==
    /\ pc[r] = "end"
    /\ pc' = [pc EXCEPT ![r] = "answered"]
    /\ reply' = [reply EXCEPT ![r] = IF Endpoint = "stream" THEN view[r] ELSE FinalState(r)]
    /\ UNCHANGED <<turns, saved, turn, query, chan, wrote, view>>

-----------------------------------------------------------------------------
Next ==
    \E r \in Runs :
        \/ Begin(r) \/ GuardrailInput(r) \/ BlockedResponse(r) \/ Memory(r)
        \/ Plan(r) \/ Refine(r)
        \/ \E a \in Agents : AgentAnswers(r, a)
        \/ AgentsJoin(r) \/ Synthesize(r) \/ GuardrailOutput(r)
        \/ Break(r) \/ Finish(r)

Spec == Init /\ [][Next]_vars

-----------------------------------------------------------------------------
(* Properties *)

TypeOK ==
    /\ turns \in 0..MaxTurns
    /\ saved \in Chan
    /\ pc \in [Runs -> Nodes \cup {"idle", "answered"}]
    /\ turn \in [Runs -> 0..MaxTurns]
    /\ query \in [Runs -> Queries \cup {"ask"}]
    /\ chan \in [Runs -> Chan]
    /\ wrote \in [Runs -> [Names -> Result]]
    /\ view \in [Runs -> View]
    /\ reply \in [Runs -> View]

Own(r) == {a \in Names : chan[r].results[a].turn = turn[r]}

\* The synthesis starts only when every agent of the plan has answered this
\* request, and no agent outside the plan has: "All domain agents converge",
\* whatever other requests do on the thread meanwhile.
SynthesisWaitsForThePlan ==
    \A r \in Runs : pc[r] = "orchestrator_synthesize" =>
        Own(r) \cap Agents = FanOut(chan[r])

\* What is sent and saved for a request was written by its own run, even when
\* two requests overlap on one thread and checkpoint over each other.
ReplyIsForThisRequest ==
    \A r \in Runs : reply[r].final # NoFinal => reply[r].final.turn = turn[r]

\* A turn saved with primary_artifact_kind "draft" has as its saved text an
\* answer that holds a draft made in that turn: the next turn's follow-up
\* directive modifies that text as a draft.
DraftTagMeansDraft ==
    \A r \in Runs : reply[r].draft /\ reply[r].final # NoFinal =>
        <<"Drafting", turn[r]>> \in reply[r].final.uses

\* When a regenerate request got a refined text, that text is the answer and
\* no agent has run for the request.
RefinementStandsAlone ==
    \A r \in Runs :
        /\ pc[r] \in {"guardrail_output", "end"}
        /\ chan[r].results["Refiner"] = [turn |-> turn[r], outcome |-> "text"]
        => /\ Own(r) = {"Refiner"}
           /\ chan[r].final.kind = "refined"
=============================================================================
