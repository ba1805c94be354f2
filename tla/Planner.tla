------------------------------- MODULE Planner -------------------------------
(***************************************************************************)
(* The plan node of the agent graph (orchestrator_plan_node in             *)
(* agents/orchestrator.py): two model calls run side by side, one for the  *)
(* user's intent and one for the task and its agents; either may fail or   *)
(* time out.  What they say is then reconciled, in a fixed order of rules, *)
(* into the agents that answer the request, and a third call may reword    *)
(* the query for each of them.                                             *)
(*                                                                         *)
(* A query is known by its length class and by whether it still is what    *)
(* the user wrote; an intent by what the rules read of it.                 *)
(***************************************************************************)
EXTENDS Naturals, FiniteSets, Sequences, SequencesExt

CONSTANTS
    Replies,   \* what the classifier may answer: task and agents
    Intents,   \* what the extractor may answer
    Requests   \* what of the request and the thread the rules read

Agents == {"Drafting", "Judgment", "Legislation", "Constitution", "Scenario",
           "Maxim", "Newacts", "Legal_Concepts", "SCI_Judgment",
           "GST_Judgment", "Document", "Non_legal"}
Tasks == Agents \cup {"Other"}

Reply == [task : Tasks, agents : Seq(Tasks)]

\* wants_* and include_case_law
Wishes == {"case_law", "statute", "constitution", "maxim", "scenario",
           "supreme_court", "gst"}

Intent == [confidence : {"low", "fair"},          \* below 0.5, from 0.5
           kind : {"draft", "analyze", "ask_about_file", "chat", "other"},
           wants : SUBSET Wishes,
           correspondence : BOOLEAN]              \* a legal notice or an office application

\* default_intent(), and the intent that a greeting does not get.
NoIntent == [confidence |-> "low", kind |-> "other", wants |-> {}, correspondence |-> FALSE]

Lengths == {"short", "middle", "long"}            \* below 500, from 500, from 1500 characters

Request == [greeting : BOOLEAN,
            file : BOOLEAN,                       \* file context, of this turn or restored
            follows : BOOLEAN,                    \* a short directive after a turn that drafted
            review : BOOLEAN,                     \* asks to review or redraft
            cite : BOOLEAN,                       \* cite_appendix, or its default
            english : BOOLEAN,                    \* and no format keyword
            expanded : BOOLEAN,                   \* the memory node has reworded it
            length : Lengths]

ASSUME PlannerAssumption ==
    /\ Replies \subseteq Reply
    /\ Intents \subseteq Intent
    /\ Requests \subseteq Request

VARIABLES
    request,  \* the request
    reply,    \* the classifier's answer, if it gave one
    intent,   \* extracted_intent
    query,    \* state["query"]: its length and whether it was condensed
    decision, \* task and tasks_planned
    reworded, \* the agents that have an entry in agent_queries
    pc

vars == <<request, reply, intent, query, decision, reworded, pc>>

NoReply == [task |-> "Other", agents |-> <<>>]
Decision == [task : Tasks, plan : Seq(Tasks)]
Query == [length : Lengths, condensed : BOOLEAN]

Init ==
    /\ request \in Requests
    /\ reply = NoReply
    /\ intent = NoIntent
    /\ query = [length |-> request.length, condensed |-> FALSE]
    /\ decision = [task |-> "Other", plan |-> <<>>]
    /\ reworded = {}
    /\ pc = "understand"

-----------------------------------------------------------------------------
(* Plans *)

Has(p, a) == a \in ToSet(p.plan)

\* A list comprehension: the agents of a plan that are wanted, in their order.
Kept(plan, wanted) == {i \in DOMAIN plan : plan[i] \in wanted}
Nth(places, n) == CHOOSE i \in places : Cardinality(places \cap 1..i) = n
Only(plan, wanted) ==
    [n \in 1..Cardinality(Kept(plan, wanted)) |-> plan[Nth(Kept(plan, wanted), n)]]

Without(plan, gone) == Only(plan, Tasks \ gone)
Adding(plan, more) == plan \o Without(more, ToSet(plan))
UpTo(n, plan) == SubSeq(plan, 1, IF Len(plan) < n THEN Len(plan) ELSE n)
When(c, a) == IF c THEN <<a>> ELSE <<>>

Confident(i) == i.confidence # "low"

\* _wants_drafting
WantsDraft(i) == Confident(i) /\ i.kind = "draft"

-----------------------------------------------------------------------------
(* What the two calls come to *)

\* _classify_and_plan: at most four agents, and the task itself when none is named.
Classified(a) ==
    [task |-> a.task, plan |-> IF a.agents = <<>> THEN <<a.task>> ELSE UpTo(4, a.agents)]

\* _classify_task_from_intent, for want of a classification.
TaskOfIntent(i) ==
    IF ~Confident(i) THEN "Legal_Concepts"
    ELSE IF i.kind = "chat" THEN "Non_legal"
    ELSE IF i.kind = "ask_about_file" THEN "Document"
    ELSE IF i.kind = "draft" THEN "Drafting"
    ELSE IF i.kind = "analyze" THEN "Scenario"
    ELSE IF "supreme_court" \in i.wants THEN "SCI_Judgment"
    ELSE IF "gst" \in i.wants THEN "GST_Judgment"
    ELSE IF "constitution" \in i.wants THEN "Constitution"
    ELSE IF "maxim" \in i.wants THEN "Maxim"
    ELSE IF "case_law" \in i.wants THEN "Judgment"
    ELSE IF "statute" \in i.wants THEN "Legislation"
    ELSE "Legal_Concepts"

\* A greeting is not classified.
Greeted == [task |-> "Non_legal", plan |-> <<"Non_legal">>]

-----------------------------------------------------------------------------
(* The rules, in their order.  q is the request, i the intent, p the plan so far. *)

\* "in Marathi" after a draft is about that draft.
KeepsDrafting(q, p) ==
    IF q.follows /\ ~Has(p, "Drafting")
    THEN [task |-> "Drafting", plan |-> <<"Drafting">> \o p.plan] ELSE p

\* With a file, what would not be legal is about the file, and a question about
\* the file is for Document alone.
AboutFile(q, p) ==
    IF q.file /\ p.task \in {"Non_legal", "Document"}
    THEN [task |-> "Document", plan |-> <<"Document">>] ELSE p

\* A file is always read, and drafted from when a draft is wanted.
ReadsFile(q, i, p) ==
    LET read == IF q.file THEN Adding(p.plan, <<"Document">>) ELSE p.plan
        draft == q.file /\ WantsDraft(i) /\ "Drafting" \notin ToSet(read)
    IN [p EXCEPT !.plan = IF draft THEN <<"Drafting">> \o read ELSE read]

\* _detect_multi_intent: a question of concepts stays with its one agent.
MultiIntent(i, task) ==
    LET wants(w, a) == w \in i.wants /\ task # a
    IN IF ~Confident(i) \/ task = "Legal_Concepts" THEN <<>>
       ELSE When(wants("case_law", "Judgment"), "Judgment")
         \o When(wants("case_law", "SCI_Judgment"), "SCI_Judgment")
         \o When("statute" \in i.wants /\ task \notin {"Legislation", "Newacts"}, "Legislation")
         \o When(wants("constitution", "Constitution"), "Constitution")
         \o When(wants("maxim", "Maxim"), "Maxim")
         \o When(wants("scenario", "Scenario"), "Scenario")
         \o When(wants("supreme_court", "SCI_Judgment") /\ "case_law" \notin i.wants, "SCI_Judgment")
         \o When(wants("gst", "GST_Judgment"), "GST_Judgment")
         \o When(i.kind = "draft" /\ task # "Drafting", "Drafting")

Enriched(i, p) ==
    IF p.task \in {"Non_legal", "Document"} THEN p
    ELSE [p EXCEPT !.plan = Adding(@, MultiIntent(i, p.task))]

\* Bug: the model's list alone is enough for a draft.
ReconciledByList(i, p) ==
    IF p.task = "Drafting" \/ ~Has(p, "Drafting") THEN p
    ELSE [task |-> "Drafting", plan |-> <<"Drafting">> \o Without(p.plan, {"Drafting"})]

\* Drafting beside another task leads if the intent confirms it and goes if not.
Reconciled(i, p) ==
    LET others == Without(p.plan, {"Drafting"})
    IN IF p.task = "Drafting" \/ ~Has(p, "Drafting") THEN p
       ELSE IF WantsDraft(i) THEN [task |-> "Drafting", plan |-> <<"Drafting">> \o others]
       ELSE [p EXCEPT !.plan = IF others = <<>> THEN <<p.task>> ELSE others]

\* _select_citation_agents; confidence is not asked for here.
CitationAgents(i, plan) ==
    <<"Judgment">> \o When("supreme_court" \in i.wants, "SCI_Judgment")
                   \o When("gst" \in i.wants, "GST_Judgment")
                   \o <<IF "Newacts" \in ToSet(plan) THEN "Newacts" ELSE "Legislation">>

\* Bug: the cap comes before Drafting is put in front.
BoundedTail(q, i, p) ==
    IF p.task # "Drafting" THEN [p EXCEPT !.plan = UpTo(4, @)]
    ELSE [p EXCEPT !.plan = UpTo(4, IF q.cite THEN Adding(@, CitationAgents(i, @)) ELSE @)]

\* A draft with its citations, when they are asked for and it is a pleading, and
\* otherwise alone with the file; anything else within four agents.
Bounded(q, i, p) ==
    LET led == IF Has(p, "Drafting") THEN p.plan ELSE <<"Drafting">> \o p.plan
    IN IF p.task # "Drafting" THEN [p EXCEPT !.plan = UpTo(4, @)]
       ELSE IF q.cite /\ ~i.correspondence
       THEN [p EXCEPT !.plan = UpTo(4, Adding(led, CitationAgents(i, led)))]
       ELSE [p EXCEPT !.plan = UpTo(3, Only(led, {"Drafting", "Document"}))]

\* Bug: the veto looks at the task, not at the plan.
VettedByTask(i, p) ==
    IF Confident(i) /\ p.task = "Newacts"
    THEN [p EXCEPT !.plan = Without(@, {"Legislation"})] ELSE p

\* Bug: an agent is added whether or not there is room.
VettedPastTheCap(i, p) ==
    LET once == IF Has(p, "Newacts") THEN Without(p.plan, {"Legislation"}) ELSE p.plan
        more(plan, w, a) == IF w \in i.wants THEN Adding(plan, <<a>>) ELSE plan
    IN IF ~Confident(i) THEN p
       ELSE [p EXCEPT !.plan = more(more(once, "supreme_court", "SCI_Judgment"), "gst", "GST_Judgment")]

\* _validate_and_enrich_plan: one agent for the criminal codes, and the Supreme
\* Court and GST agents while there is room.
Vetted(i, p) ==
    LET once == IF Has(p, "Newacts") THEN Without(p.plan, {"Legislation"}) ELSE p.plan
        room(plan, w, a) == IF w \in i.wants /\ Len(plan) < 3 THEN Adding(plan, <<a>>) ELSE plan
    IN IF ~Confident(i) THEN p
       ELSE [p EXCEPT !.plan = room(room(once, "supreme_court", "SCI_Judgment"),
                                    "gst", "GST_Judgment")]

CaseLaw == {"SCI_Judgment", "Judgment", "GST_Judgment"}

\* A review of an uploaded document finds its precedents itself.
Reviewed(q, p) ==
    IF q.file /\ q.review /\ Has(p, "Drafting")
    THEN [p EXCEPT !.plan = Without(@, CaseLaw)] ELSE p

\* All of them; c is the classification or the greeting.
Planned(q, i, c) ==
    LET kept == IF q.greeting THEN c ELSE KeepsDrafting(q, c)
        led  == Reconciled(i, Enriched(i, ReadsFile(q, i, AboutFile(q, kept))))
    IN Reviewed(q, Vetted(i, Bounded(q, i, led)))

-----------------------------------------------------------------------------
(* The node *)

\* The extractor's query replaces one that is neither short enough nor long
\* enough to be left alone, unless the memory node has reworded it before.
Condenses(q) == ~q.expanded /\ ~(q.english /\ q.length # "middle")

Settle(i, c, q) ==
    /\ intent' = i
    /\ decision' = Planned(request, i, c)
    /\ query' = q
    /\ pc' = IF Len(Planned(request, i, c).plan) > 1 THEN "reword" ELSE "planned"
    /\ UNCHANGED <<request, reworded>>

Greet ==
    /\ pc = "understand"
    /\ request.greeting
    /\ Settle(NoIntent, Greeted, query)
    /\ UNCHANGED reply

\* _extract_user_intent: the intent, and a query that may replace the user's.
Extracted ==
    {[intent |-> i,
      query |-> IF Condenses(request) THEN [length |-> l, condensed |-> TRUE] ELSE query] :
        i \in Intents, l \in Lengths}

\* Both calls answer, or one of them or neither within its time.
Understand ==
    /\ pc = "understand"
    /\ ~request.greeting
    /\ \E x \in Extracted \cup {[intent |-> NoIntent, query |-> query]} :
          \/ \E r \in Replies : Settle(x.intent, Classified(r), x.query) /\ reply' = r
          \/ LET task == TaskOfIntent(x.intent)
             IN Settle(x.intent, [task |-> task, plan |-> <<task>>], x.query) /\ reply' = NoReply

\* Bug: Drafting is rewritten with the rest.
AskedOfAll(q, plan) == ToSet(plan)

\* _rewrite_queries_for_agents: a query that stands on its own is reworded only
\* beside a draft, and then not for the draft.
AskedOf(q, plan) ==
    IF q.length = "short" THEN ToSet(plan)
    ELSE IF "Drafting" \in ToSet(plan) THEN ToSet(plan) \ {"Drafting"} ELSE {}

\* The call answers for some of them, or fails or times out and answers for none.
Reword ==
    /\ pc = "reword"
    /\ \E some \in SUBSET AskedOf(query, decision.plan) : reworded' = some
    /\ pc' = "planned"
    /\ UNCHANGED <<request, reply, intent, query, decision>>

Next == Greet \/ Understand \/ Reword

Spec == Init /\ [][Next]_vars

-----------------------------------------------------------------------------
(* Properties *)

\* A plan has one to four agents.
TypeOK ==
    /\ request \in Requests
    /\ reply \in Replies \cup {NoReply}
    /\ intent \in Intents \cup {NoIntent}
    /\ query \in Query
    /\ decision.task \in Tasks /\ ToSet(decision.plan) \subseteq Tasks
    /\ pc # "understand" => Len(decision.plan) \in 1..4
    /\ reworded \subseteq ToSet(decision.plan)
    /\ pc \in {"understand", "reword", "planned"}

\* No step takes repetitions from the classifier's list, and of Drafting and
\* Document the cut without citations keeps three.
DocumentThrice == <<"Document", "Document", "Document", "Drafting">>

\* The synthesis takes the task for the agent that leads the answer and the plan
\* for those that have answered: Drafting is in the plan exactly when it is the
\* task, by whichever of the rules it got there.  The one list that can cost the
\* task its Drafting is the one that names Document three times before it.
DraftingLeadsItsPlan ==
    pc # "understand" =>
        /\ Has(decision, "Drafting") => decision.task = "Drafting"
        /\ decision.task = "Drafting" =>
              \/ Has(decision, "Drafting")
              \/ reply.task = "Drafting" /\ UpTo(4, reply.agents) = DocumentThrice

\* "Drafting arrived from the LLM planner without intent-extractor backing
\* (classifier hallucination)": an agent list is never reason enough for a draft.
\* The task, the intent or the thread has to say so.
DraftsAreConfirmed ==
    Has(decision, "Drafting") =>
        reply.task = "Drafting" \/ WantsDraft(intent) \/ request.follows

\* The criminal codes are in one index: whenever the intent is known, no plan asks
\* both for them and for the statutes, whoever put them there.
CodesAreReadOnce ==
    Confident(intent) => ~(Has(decision, "Newacts") /\ Has(decision, "Legislation"))

\* A draft is written from the query the user wrote and not from one condensed
\* for a search, whenever that query was long enough to stand on its own: neither
\* step that words a query anew touches it.
LongPromptReachesDraftingWhole ==
    Has(decision, "Drafting") /\ request.english /\ request.length = "long" =>
        ~query.condensed /\ "Drafting" \notin reworded
=============================================================================
