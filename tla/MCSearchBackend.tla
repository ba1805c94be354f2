-------------------------- MODULE MCSearchBackend --------------------------
EXTENDS SearchBackend, TLC
CONSTANTS t1, t2
MCThreads == {t1, t2}
MCSearches == (t1 :> {"search_legislation", "search_legislation_multi_section",
                      "search_newacts", "map_old_to_new_law",
                      "newacts_agent_search_per_act", "smart_judgment_search"})
           @@ (t2 :> {"search_legislation", "search_legislation_by_topic"})
=============================================================================
