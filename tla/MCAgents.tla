------------------------------ MODULE MCAgents ------------------------------
EXTENDS Agents
MCPlans == {{"Legislation", "Newacts"}, {"Judgment", "Constitution"},
            {"Newacts", "SCI_Judgment"}, {"Scenario", "GST_Judgment"}, {"Document", "Legislation"},
            {"Newacts"}, {"Judgment"}, {"Maxim"}, {"Legal_Concepts"}, {"Non_legal"}, {"SCI_Judgment"}}
=============================================================================
