---------------------------- MODULE SearchCalls ----------------------------
(***************************************************************************)
(* The searches the agents make, as data.  A search asks Elasticsearch one *)
(* or several queries in a fixed order.  Of each it is written down        *)
(*   circuit  whether its queries pass the circuit breaker (_es_search) or *)
(*            go to the client directly;                                   *)
(*   plans    the orders of its queries, one for each kind of request: a   *)
(*            query is named for what its answer decides;                  *)
(*   spares   the failures it swallows: <<query, failure>>;                *)
(*   tells    whether a failure comes back as a text for the model.        *)
(*                                                                         *)
(* Failures: "unavailable" is ESBackendUnavailable, "broken" a transport   *)
(* error of a direct call or of the embedding service, "refused" an error  *)
(* of the query itself (too many clauses, a script error).                 *)
(***************************************************************************)
EXTENDS Naturals, Sequences

Failures == {"unavailable", "refused", "broken"}

Search(circuit, plans, spares) ==
    [circuit |-> circuit, plans |-> plans, spares |-> spares, tells |-> FALSE]

Always(query) == {query} \X Failures

-----------------------------------------------------------------------------
(* tools/shared/elasticsearch_tools.py                                     *)

search_legislation ==
    Search(TRUE, {<<"variation", "source">>,
                  <<"variation", "variation", "variation", "variation", "source">>},
           {<<"variation", "refused">>})

search_legislation_by_topic == Search(TRUE, {<<"discover", "target">>}, {})

search_legislation_multi_section ==
    Search(TRUE, {<<"find_act", "find_source", "section", "section">>,
                  <<"find_source", "section", "section">>},
           Always("find_act") \cup Always("find_source") \cup {<<"section", "refused">>})

search_judgments == Search(FALSE, {<<"only">>}, {})
search_high_court == Search(FALSE, {<<"only">>}, {})

(* A hybrid search asks the embedding service for a vector first.          *)
search_newacts == Search(TRUE, {<<"only">>, <<"embed", "only">>}, {})
search_newacts_by_topic == Search(TRUE, {<<"only">>}, {})

(* An unknown act, or a section that is not a number, is answered unasked. *)
get_nearby_sections == Search(TRUE, {<<>>, <<"only">>}, {})

search_drafts == Search(TRUE, {<<"only">>}, {})
get_docs_by_source == Search(TRUE, {<<>>, <<"only">>}, {})

search_constitution == Search(TRUE, {<<"only">>}, Always("only"))
search_constitution_by_part == Search(TRUE, {<<"only">>}, Always("only"))
search_legal_maxims == Search(TRUE, {<<"only">>}, Always("only"))

(* The table of 23 sections first, then the index; the index's answer is   *)
(* a dictionary that the code slices like a list, so it never gets used.   *)
map_old_to_new_law == Search(TRUE, {<<"table", "lookup">>}, Always("lookup"))

(* The agents' own searches, past the breaker                              *)
legislation_agent_search ==
    Search(FALSE, {<<"variation", "source">>,
                   <<"variation", "variation", "source", "unfiltered">>},
           Always("variation"))

newacts_agent_search == Search(FALSE, {<<"only">>, <<"embed", "only">>}, {})

newacts_agent_search_per_act ==
    Search(FALSE, {<<"act", "act">>, <<"embed", "act", "embed", "act">>}, Always("act"))

constitution_agent_search == Search(FALSE, {<<"only">>}, Always("only"))

(* tools/shared/judgment_search.py: citation, parties, one party, kind of  *)
(* case, provisions, and at last two wide searches                         *)
CitationPlans == {<<>>, <<"citation">>}
PartyPlans == {<<>>, <<"single">>, <<"exact", "swapped", "fuzzy", "single">>,
               <<"exact", "no_year", "swapped", "fuzzy", "single">>}
CaseTypePlans == {<<>>, <<"case_type", "any_type">>}
ProvisionPlans == {<<>>, <<"provision", "provision">>}

smart_judgment_search ==
    Search(FALSE, {c \o p \o t \o l \o <<"multi_tier", "relaxed">> :
                       c \in CitationPlans, p \in PartyPlans,
                       t \in CaseTypePlans, l \in ProvisionPlans}, {})

(* tools/shared/sci_judgment_tools.py, gst_judgment_tools.py               *)
Tool == [circuit |-> FALSE, plans |-> {<<"only">>}, spares |-> {}, tells |-> TRUE]

sci_search_by_topic == Tool
sci_search_by_keyword == Tool
sci_search_by_case_number == Tool
sci_search_by_party_name == Tool
sci_search_by_date_range == Tool
sci_search_by_judge == Tool
sci_get_case_details == Tool
gst_search_by_topic == Tool
gst_search_by_keyword == Tool
gst_search_by_case_number == Tool
gst_search_by_party_name == Tool
gst_search_by_date_range == Tool
gst_search_by_state == Tool
gst_get_case_details == Tool

-----------------------------------------------------------------------------
(* All of them by name                                                     *)
Catalogue ==
    [search_legislation |-> search_legislation,
     search_legislation_by_topic |-> search_legislation_by_topic,
     search_legislation_multi_section |-> search_legislation_multi_section,
     search_judgments |-> search_judgments,
     search_high_court |-> search_high_court,
     search_newacts |-> search_newacts,
     search_newacts_by_topic |-> search_newacts_by_topic,
     get_nearby_sections |-> get_nearby_sections,
     search_drafts |-> search_drafts,
     get_docs_by_source |-> get_docs_by_source,
     search_constitution |-> search_constitution,
     search_constitution_by_part |-> search_constitution_by_part,
     search_legal_maxims |-> search_legal_maxims,
     map_old_to_new_law |-> map_old_to_new_law,
     legislation_agent_search |-> legislation_agent_search,
     newacts_agent_search |-> newacts_agent_search,
     newacts_agent_search_per_act |-> newacts_agent_search_per_act,
     constitution_agent_search |-> constitution_agent_search,
     smart_judgment_search |-> smart_judgment_search,
     sci_search_by_topic |-> sci_search_by_topic,
     sci_search_by_keyword |-> sci_search_by_keyword,
     sci_search_by_case_number |-> sci_search_by_case_number,
     sci_search_by_party_name |-> sci_search_by_party_name,
     sci_search_by_date_range |-> sci_search_by_date_range,
     sci_search_by_judge |-> sci_search_by_judge,
     sci_get_case_details |-> sci_get_case_details,
     gst_search_by_topic |-> gst_search_by_topic,
     gst_search_by_keyword |-> gst_search_by_keyword,
     gst_search_by_case_number |-> gst_search_by_case_number,
     gst_search_by_party_name |-> gst_search_by_party_name,
     gst_search_by_date_range |-> gst_search_by_date_range,
     gst_search_by_state |-> gst_search_by_state,
     gst_get_case_details |-> gst_get_case_details]

-----------------------------------------------------------------------------
(* What a caller has to be ready for                                       *)

CanFail(s, query) == CASE query = "table" -> {}
                       [] query = "embed" -> {"broken"}
                       [] OTHER -> IF s.circuit THEN {"unavailable", "refused"}
                                                ELSE {"refused", "broken"}

Raises(s) == {f \in Failures : \E plan \in s.plans : \E i \in 1..Len(plan) :
                 f \in CanFail(s, plan[i]) /\ <<plan[i], f>> \notin s.spares}

Outcomes == [name \in DOMAIN Catalogue |->
                {"hits", "empty"} \cup IF Catalogue[name].tells THEN {"message"}
                                       ELSE Raises(Catalogue[name])]
=============================================================================
