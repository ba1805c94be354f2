------------------------------ MODULE MCPlanner ------------------------------
EXTENDS Planner

\* Lists of every length up to one beyond the cap, with and without Drafting, and
\* one that repeats an agent.
SomeReplies ==
    {[task |-> t, agents |-> s] :
        t \in {"Drafting", "Scenario", "Newacts", "Legal_Concepts", "Non_legal"},
        s \in {<<>>, <<"Newacts", "Legislation">>,
               <<"Scenario", "Judgment", "Maxim", "Legislation", "Drafting">>,
               <<"Judgment", "Drafting", "Newacts", "Document">>,
               <<"Document", "Document", "Document", "Drafting">>}}

SomeIntents ==
    {i \in [confidence : {"low", "fair"}, kind : {"draft", "ask_about_file", "other"},
            wants : SUBSET {"case_law", "statute", "supreme_court", "gst"},
            correspondence : BOOLEAN] : i.confidence = "low" => i.wants = {}}

SomeRequests ==
    {q \in Request :
        /\ q.greeting => ~q.follows /\ ~q.review /\ q.length = "short" /\ q.english /\ ~q.expanded
        /\ q.follows => q.length = "short" /\ ~q.review
        /\ q.length # "short" => ~q.review /\ ~q.cite
        /\ q.length = "middle" => q.file
        /\ q.expanded => q.english /\ ~q.follows /\ ~q.cite}
=============================================================================
