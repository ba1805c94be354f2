---------------------------- MODULE PlannerProofs ----------------------------
(***************************************************************************)
(* What the rules of the plan node leave of any plan, whatever the two     *)
(* model calls say and whichever of them fails.                            *)
(***************************************************************************)
EXTENDS Planner, FiniteSetTheorems, SequenceTheorems, TLAPS

-----------------------------------------------------------------------------
(* List comprehensions                                                     *)

\* The place of a kept agent among those that are kept.
Rank(places, i) == Cardinality(places \cap 1..i)

LEMMA PlacesAreFinite ==
    ASSUME NEW n \in Nat, NEW places \in SUBSET (1..n)
    PROVE  /\ IsFiniteSet(places) /\ Cardinality(places) \in Nat
           /\ \A i : IsFiniteSet(places \cap 1..i) /\ Rank(places, i) \in Nat
           /\ \A i : Rank(places, i) <= Cardinality(places)
  <1>1. IsFiniteSet(places)
    <2>1. 1 \in Int /\ n \in Int
      OBVIOUS
    <2>2. IsFiniteSet(1..n)
      BY <2>1, FS_Interval
    <2> QED
      BY <2>2, FS_Subset
  <1>2. ASSUME NEW i PROVE IsFiniteSet(places \cap 1..i) /\ Cardinality(places \cap 1..i) <= Cardinality(places)
    BY <1>1, FS_Subset
  <1> QED
    BY <1>1, <1>2, FS_CardinalityType DEF Rank

\* Of two kept agents the later one has the higher place.
LEMMA LaterRanksHigher ==
    ASSUME NEW n \in Nat, NEW places \in SUBSET (1..n), NEW i \in places, NEW j \in places, i < j
    PROVE  Rank(places, i) < Rank(places, j)
  <1> DEFINE I == places \cap 1..i
             J == places \cap 1..j
  <1>1. i \in Nat /\ j \in Nat /\ i \in 1..n /\ j \in 1..n
    OBVIOUS
  <1>2. I \subseteq J /\ j \in J /\ j \notin I
    BY <1>1
  <1>3. IsFiniteSet(J) /\ Cardinality(I) \in Nat /\ Cardinality(J) \in Nat
    BY PlacesAreFinite DEF Rank
  <1> HIDE DEF I, J
  <1>4. Cardinality(I) <= Cardinality(J) /\ Cardinality(I) # Cardinality(J)
    BY <1>2, <1>3, FS_Subset
  <1>5. Cardinality(I) < Cardinality(J)
    BY <1>3, <1>4
  <1> QED
    BY <1>5 DEF I, J, Rank

\* Every place but one is below some kept agent, and every kept agent has one.
LEMMA RanksCover ==
    ASSUME NEW n \in Nat, NEW places \in SUBSET (1..n)
    PROVE  /\ \A i \in places : Rank(places, i) \in 1..Cardinality(places)
           /\ \A i, j \in places : Rank(places, i) = Rank(places, j) => i = j
           /\ \A k \in 1..Cardinality(places) : \E i \in places : Rank(places, i) = k
  <1> DEFINE c == Cardinality(places)
             f == [i \in places |-> Rank(places, i)]
  <1>1. ASSUME NEW i \in places PROVE Rank(places, i) \in 1..c
    <2>1. i \in Nat /\ i \in places \cap 1..i
      OBVIOUS
    <2>2. Cardinality(places \cap 1..i) # 0
      BY <2>1, PlacesAreFinite, FS_EmptySet
    <2>3. Rank(places, i) \in Nat /\ Rank(places, i) # 0 /\ Rank(places, i) <= c /\ c \in Nat
      BY <2>2, PlacesAreFinite DEF Rank
    <2> HIDE DEF c
    <2> QED
      BY <2>3
  <1>2. ASSUME NEW i \in places, NEW j \in places, Rank(places, i) = Rank(places, j) PROVE i = j
    <2>1. i \in 1..n /\ j \in 1..n /\ Rank(places, i) \in Nat
      BY PlacesAreFinite
    <2>2. ~(Rank(places, i) < Rank(places, j)) /\ ~(Rank(places, j) < Rank(places, i))
      BY <1>2, <2>1
    <2>3. ~(i < j) /\ ~(j < i)
      BY <2>2, LaterRanksHigher
    <2> QED
      BY <2>1, <2>3
  <1>3. f \in Injection(places, 1..c)
    BY <1>1, <1>2 DEF Injection, IsInjective
  <1>4. IsFiniteSet(1..c) /\ Cardinality(1..c) = c
    <2>1. c \in Nat /\ c \in Int /\ 1 \in Int
      BY PlacesAreFinite
    <2> HIDE DEF c
    <2> QED
      BY <2>1, FS_Interval
  <1>5. f \in Surjection(places, 1..c)
    BY <1>3, <1>4, FS_Injection
  <1>6. ASSUME NEW k \in 1..c PROVE \E i \in places : Rank(places, i) = k
    BY <1>5 DEF Surjection
  <1> QED
    BY <1>1, <1>2, <1>6

LEMMA NthRanks ==
    ASSUME NEW n \in Nat, NEW places \in SUBSET (1..n)
    PROVE  /\ \A k \in 1..Cardinality(places) : Nth(places, k) \in places
           /\ \A i \in places : Nth(places, Rank(places, i)) = i
  <1>1. ASSUME NEW k \in 1..Cardinality(places)
        PROVE  Nth(places, k) \in places /\ Rank(places, Nth(places, k)) = k
    <2>1. PICK i \in places : Rank(places, i) = k
      BY RanksCover
    <2>2. \E j \in places : Cardinality(places \cap 1..j) = k
      BY <2>1 DEF Rank
    <2> QED
      BY <2>2 DEF Nth, Rank
  <1>2. ASSUME NEW i \in places PROVE Nth(places, Rank(places, i)) = i
    <2> DEFINE k == Rank(places, i)
    <2>1. k \in 1..Cardinality(places)
      BY RanksCover
    <2> HIDE DEF k
    <2>2. Nth(places, k) \in places /\ Rank(places, Nth(places, k)) = Rank(places, i)
      BY <1>1, <2>1 DEF k
    <2>3. Nth(places, k) = i
      BY <2>2, RanksCover
    <2> QED
      BY <2>3 DEF k
  <1> QED
    BY <1>1, <1>2

\* What a comprehension keeps of a plan.
LEMMA OnlyTheWanted ==
    ASSUME NEW plan \in Seq(Tasks), NEW wanted
    PROVE  /\ Only(plan, wanted) \in Seq(Tasks)
           /\ ToSet(Only(plan, wanted)) = ToSet(plan) \cap wanted
           /\ \A i \in Kept(plan, wanted) :
                /\ Rank(Kept(plan, wanted), i) \in 1..Len(Only(plan, wanted))
                /\ Only(plan, wanted)[Rank(Kept(plan, wanted), i)] = plan[i]
           /\ Len(Only(plan, wanted)) <= Len(plan)
  <1> DEFINE K == Kept(plan, wanted)
             c == Cardinality(K)
             s == Only(plan, wanted)
  <1>1. Len(plan) \in Nat /\ DOMAIN plan = 1..Len(plan) /\ K \in SUBSET (1..Len(plan))
    BY DEF Kept
  <1>2. c \in Nat /\ s = [n \in 1..c |-> plan[Nth(K, n)]]
    BY <1>1, PlacesAreFinite DEF Only
  <1>3. \A i \in K : plan[i] \in wanted /\ plan[i] \in Tasks /\ i \in DOMAIN plan
    BY DEF Kept
  <1>4. \A i \in DOMAIN plan : plan[i] \in wanted => i \in K
    BY DEF Kept
  <1>5. /\ \A k \in 1..c : Nth(K, k) \in K
        /\ \A i \in K : Nth(K, Rank(K, i)) = i /\ Rank(K, i) \in 1..c
    BY <1>1, NthRanks, RanksCover
  <1>6. c <= Len(plan)
    <2>1. IsFiniteSet(1..Len(plan)) /\ Cardinality(1..Len(plan)) = Len(plan)
      <3>1. 1 \in Int /\ Len(plan) \in Int
        OBVIOUS
      <3>2. /\ IsFiniteSet(1..Len(plan))
            /\ Cardinality(1..Len(plan)) = IF 1 > Len(plan) THEN 0 ELSE Len(plan) - 1 + 1
        BY <3>1, FS_Interval
      <3> QED
        BY <1>1, <3>2
    <2> QED
      BY <1>1, <2>1, FS_Subset
  <1> HIDE DEF K, c, s
  <1>7. s \in Seq(Tasks) /\ Len(s) = c /\ DOMAIN s = 1..c
    BY <1>2, <1>3, <1>5
  <1>8. ASSUME NEW i \in K PROVE Rank(K, i) \in 1..Len(s) /\ s[Rank(K, i)] = plan[i]
    BY <1>2, <1>5, <1>7
  <1>9. ToSet(s) = ToSet(plan) \cap wanted
    <2>1. ASSUME NEW k \in 1..c PROVE s[k] \in ToSet(plan) \cap wanted
      BY <1>2, <1>3, <1>5 DEF ToSet
    <2>2. ASSUME NEW i \in DOMAIN plan, plan[i] \in wanted PROVE plan[i] \in ToSet(s)
      <3>1. i \in K
        BY <1>4, <2>2
      <3>2. Rank(K, i) \in DOMAIN s /\ s[Rank(K, i)] = plan[i]
        BY <1>7, <1>8, <3>1
      <3> QED
        BY <3>2 DEF ToSet
    <2> QED
      BY <1>7, <2>1, <2>2 DEF ToSet
  <1> QED
    BY <1>6, <1>7, <1>8, <1>9 DEF K, s

LEMMA WithoutTheGone ==
    ASSUME NEW plan \in Seq(Tasks), NEW gone
    PROVE  /\ Without(plan, gone) \in Seq(Tasks)
           /\ ToSet(Without(plan, gone)) = ToSet(plan) \ gone
           /\ Len(Without(plan, gone)) <= Len(plan)
  <1>1. ToSet(plan) \subseteq Tasks
    BY DEF ToSet
  <1>2. (ToSet(plan) \cap (Tasks \ gone)) = ToSet(plan) \ gone
    BY <1>1
  <1> QED
    BY <1>2, OnlyTheWanted DEF Without

\* Lists appended to a plan leave it in front.
LEMMA Joined ==
    ASSUME NEW plan \in Seq(Tasks), NEW more \in Seq(Tasks)
    PROVE  /\ plan \o more \in Seq(Tasks)
           /\ Len(plan \o more) = Len(plan) + Len(more)
           /\ \A i \in 1..Len(plan) : (plan \o more)[i] = plan[i]
           /\ ToSet(plan \o more) = ToSet(plan) \cup ToSet(more)
  <1> DEFINE s == plan \o more
  <1>1. /\ s \in Seq(Tasks) /\ Len(s) = Len(plan) + Len(more) /\ DOMAIN s = 1..Len(s)
        /\ Len(plan) \in Nat /\ Len(more) \in Nat
        /\ DOMAIN plan = 1..Len(plan) /\ DOMAIN more = 1..Len(more)
    OBVIOUS
  <1>2. \A i \in 1..Len(plan) : s[i] = plan[i]
    OBVIOUS
  <1>3. ASSUME NEW j \in 1..Len(more) PROVE Len(plan) + j \in 1..Len(s) /\ s[Len(plan) + j] = more[j]
    OBVIOUS
  <1>4. ASSUME NEW i \in 1..Len(s) PROVE s[i] \in ToSet(plan) \cup ToSet(more)
    <2>1. CASE i <= Len(plan)
      <3>1. i \in DOMAIN plan /\ s[i] = plan[i]
        BY <1>1, <1>2, <2>1
      <3> QED
        BY <3>1 DEF ToSet
    <2>2. CASE i > Len(plan)
      <3>1. PICK j \in 1..Len(more) : i = Len(plan) + j
        <4>1. i - Len(plan) \in 1..Len(more) /\ i = Len(plan) + (i - Len(plan))
          BY <1>1, <2>2
        <4> QED
          BY <4>1
      <3> QED
        BY <1>1, <1>3, <3>1 DEF ToSet
    <2> QED
      BY <1>1, <2>1, <2>2
  <1> HIDE DEF s
  <1>5. ToSet(plan) \subseteq ToSet(s)
    BY <1>1, <1>2 DEF ToSet
  <1>6. ToSet(more) \subseteq ToSet(s)
    BY <1>1, <1>3 DEF ToSet
  <1>7. ToSet(s) = ToSet(plan) \cup ToSet(more)
    BY <1>1, <1>4, <1>5, <1>6 DEF ToSet
  <1> QED
    BY <1>1, <1>2, <1>7 DEF s

LEMMA Added ==
    ASSUME NEW plan \in Seq(Tasks), NEW more \in Seq(Tasks)
    PROVE  /\ Adding(plan, more) \in Seq(Tasks)
           /\ Len(Adding(plan, more)) >= Len(plan)
           /\ \A i \in 1..Len(plan) : Adding(plan, more)[i] = plan[i]
           /\ ToSet(Adding(plan, more)) = ToSet(plan) \cup ToSet(more)
  <1> DEFINE new == Without(more, ToSet(plan))
  <1>1. new \in Seq(Tasks) /\ ToSet(new) = ToSet(more) \ ToSet(plan) /\ Len(new) \in Nat
    BY WithoutTheGone
  <1>2. Adding(plan, more) = plan \o new
    BY DEF Adding
  <1> HIDE DEF new
  <1>3. Len(plan) \in Nat
    OBVIOUS
  <1> QED
    BY <1>1, <1>2, <1>3, Joined

\* One more agent.
LEMMA AddedOne ==
    ASSUME NEW plan \in Seq(Tasks), NEW a \in Tasks
    PROVE  Len(Adding(plan, <<a>>)) <= Len(plan) + 1
  <1> DEFINE new == Without(<<a>>, ToSet(plan))
  <1>1. <<a>> \in Seq(Tasks) /\ Len(<<a>>) = 1
    OBVIOUS
  <1>2. new \in Seq(Tasks) /\ Len(new) <= 1 /\ Len(new) \in Nat
    <2>1. new \in Seq(Tasks) /\ Len(new) <= Len(<<a>>)
      BY <1>1, WithoutTheGone
    <2> HIDE DEF new
    <2> QED
      BY <1>1, <2>1
  <1>3. Adding(plan, <<a>>) = plan \o new
    BY DEF Adding
  <1> HIDE DEF new
  <1> QED
    BY <1>2, <1>3, Joined

LEMMA OneAgent ==
    ASSUME NEW a \in Tasks
    PROVE  <<a>> \in Seq(Tasks) /\ ToSet(<<a>>) = {a} /\ Len(<<a>>) = 1 /\ <<a>>[1] = a
  BY DEF ToSet

\* The head of a plan.
LEMMA Upto ==
    ASSUME NEW plan \in Seq(Tasks), NEW n \in Nat
    PROVE  /\ UpTo(n, plan) \in Seq(Tasks) /\ Len(UpTo(n, plan)) <= n
           /\ Len(UpTo(n, plan)) = IF Len(plan) < n THEN Len(plan) ELSE n
           /\ ToSet(UpTo(n, plan)) \subseteq ToSet(plan)
           /\ \A i \in DOMAIN plan : i <= n => plan[i] \in ToSet(UpTo(n, plan))
           /\ \A i \in 1..Len(UpTo(n, plan)) : UpTo(n, plan)[i] = plan[i]
  <1> DEFINE m == IF Len(plan) < n THEN Len(plan) ELSE n
             s == SubSeq(plan, 1, m)
  <1>1. Len(plan) \in Nat /\ m \in Nat /\ m <= n /\ m <= Len(plan)
    OBVIOUS
  <1>2. \A i \in 1..Len(plan) : i <= n => i <= m
    BY <1>1
  <1>3. UpTo(n, plan) = s
    BY DEF UpTo
  <1>5. m = IF Len(plan) < n THEN Len(plan) ELSE n
    OBVIOUS
  <1> HIDE DEF m
  <1>4. s \in Seq(Tasks) /\ Len(s) = m /\ \A i \in 1..m : s[i] = plan[i]
    BY <1>1
  <1> HIDE DEF s
  <1>6. ToSet(s) \subseteq ToSet(plan)
    BY <1>1, <1>4 DEF ToSet
  <1>7. ASSUME NEW i \in DOMAIN plan, i <= n PROVE plan[i] \in ToSet(s)
    <2>1. i \in 1..m
      BY <1>1, <1>2, <1>7
    <2>2. i \in DOMAIN s /\ s[i] = plan[i]
      BY <1>4, <2>1
    <2> QED
      BY <2>2 DEF ToSet
  <1> QED
    BY <1>1, <1>3, <1>4, <1>5, <1>6, <1>7

-----------------------------------------------------------------------------
(* The rules                                                               *)

LEMMA Names ==
    {"Drafting", "Document", "Non_legal", "Legislation", "Newacts", "Judgment", "SCI_Judgment",
     "GST_Judgment", "Constitution", "Maxim", "Scenario", "Legal_Concepts", "Other"} \subseteq Tasks
  BY DEF Tasks, Agents

LEMMA NotEmpty ==
    ASSUME NEW plan \in Seq(Tasks)
    PROVE  /\ plan # <<>> <=> Len(plan) >= 1
           /\ plan # <<>> <=> ToSet(plan) # {}
           /\ ToSet(plan) \subseteq Tasks /\ Len(plan) \in Nat
  <1>1. Len(plan) \in Nat /\ DOMAIN plan = 1..Len(plan)
    OBVIOUS
  <1>2. plan = <<>> <=> Len(plan) = 0
    OBVIOUS
  <1>3. ToSet(plan) = {} <=> Len(plan) = 0
    <2>1. CASE Len(plan) = 0
      BY <1>1, <2>1 DEF ToSet
    <2>2. CASE Len(plan) # 0
      <3>1. 1 \in DOMAIN plan
        BY <1>1, <2>2
      <3> QED
        BY <2>2, <3>1 DEF ToSet
    <2> QED
      BY <2>1, <2>2
  <1>4. ToSet(plan) \subseteq Tasks
    BY DEF ToSet
  <1> QED
    BY <1>1, <1>2, <1>3, <1>4

\* A decision that somebody answers.
Sane(p) == p \in Decision /\ p.plan # <<>>

DraftOrFile == {"Drafting", "Document"}

\* Drafting is where neither of the cuts reaches it: among the first four, and
\* among the first three of Drafting and Document.
Early(plan) ==
    \E i \in DOMAIN plan :
      i <= 4 /\ plan[i] = "Drafting" /\ Rank(Kept(plan, DraftOrFile), i) <= 3

\* A draft that is the task and in the plan is early in it.
Led(p) == p.task = "Drafting" /\ Has(p, "Drafting") => Early(p.plan)

\* A rule makes r of p: somebody still answers, and Drafting is not moved back.
Keeps(p, r) == Sane(r) /\ (Led(p) => Led(r))

LEMMA TheDecision ==
    ASSUME NEW t \in Tasks, NEW s \in Seq(Tasks)
    PROVE  LET p == [task |-> t, plan |-> s]
           IN  p \in Decision /\ p.task = t /\ p.plan = s /\ (s # <<>> => Sane(p))
  BY DEF Decision, Sane

LEMMA PlanReplaced ==
    ASSUME NEW p, p \in Decision
    PROVE  /\ p.task \in Tasks /\ p.plan \in Seq(Tasks)
           /\ \A s \in Seq(Tasks) : LET r == [p EXCEPT !.plan = s]
                IN  r \in Decision /\ r.task = p.task /\ r.plan = s /\ (s # <<>> => Sane(r))
  BY DEF Decision, Sane

\* A list appended to has its first agents where they were.
LEMMA EarlyStays ==
    ASSUME NEW plan \in Seq(Tasks), NEW longer \in Seq(Tasks), Len(longer) >= Len(plan),
           \A i \in 1..Len(plan) : longer[i] = plan[i], Early(plan)
    PROVE  Early(longer)
  <1>1. PICK i \in DOMAIN plan :
          i <= 4 /\ plan[i] = "Drafting" /\ Rank(Kept(plan, DraftOrFile), i) <= 3
    BY DEF Early
  <1>2. /\ DOMAIN plan = 1..Len(plan) /\ DOMAIN longer = 1..Len(longer)
        /\ Len(plan) \in Nat /\ Len(longer) \in Nat /\ i \in 1..Len(plan)
    BY <1>1
  <1>3. i \in DOMAIN longer /\ longer[i] = "Drafting"
    BY <1>1, <1>2
  <1>4. Kept(plan, DraftOrFile) \cap 1..i = Kept(longer, DraftOrFile) \cap 1..i
    BY <1>2 DEF Kept
  <1> QED
    BY <1>1, <1>3, <1>4 DEF Early, Rank

LEMMA EarlyInFront ==
    ASSUME NEW plan \in Seq(Tasks), plan # <<>>, plan[1] = "Drafting"
    PROVE  Early(plan)
  <1>1. 1 \in DOMAIN plan /\ Len(plan) \in Nat /\ DOMAIN plan = 1..Len(plan)
    OBVIOUS
  <1>2. Kept(plan, DraftOrFile) \cap 1..1 = {1}
    BY <1>1 DEF Kept, DraftOrFile
  <1>3. Rank(Kept(plan, DraftOrFile), 1) = 1
    BY <1>2, FS_Singleton DEF Rank
  <1> QED
    BY <1>1, <1>3 DEF Early

\* An agent put in front of a list.
LEMMA InFront ==
    ASSUME NEW a \in Tasks, NEW plan \in Seq(Tasks)
    PROVE  /\ <<a>> \o plan \in Seq(Tasks) /\ <<a>> \o plan # <<>>
           /\ (<<a>> \o plan)[1] = a
           /\ ToSet(<<a>> \o plan) = {a} \cup ToSet(plan)
  <1> DEFINE h == <<a>>
             s == h \o plan
  <1>1. h \in Seq(Tasks) /\ ToSet(h) = {a} /\ Len(h) = 1 /\ h[1] = a
    BY OneAgent
  <1> HIDE DEF h
  <1>2. /\ s \in Seq(Tasks) /\ Len(s) = Len(h) + Len(plan)
        /\ \A i \in 1..Len(h) : s[i] = h[i]
        /\ ToSet(s) = ToSet(h) \cup ToSet(plan)
    BY <1>1, Joined
  <1>3. Len(plan) \in Nat /\ 1 \in 1..Len(h)
    BY <1>1
  <1> HIDE DEF s
  <1>4. s[1] = a /\ ToSet(s) = {a} \cup ToSet(plan) /\ Len(s) >= 1
    BY <1>1, <1>2, <1>3
  <1>5. s # <<>>
    BY <1>2, <1>4, NotEmpty
  <1> QED
    BY <1>2, <1>4, <1>5 DEF s, h

LEMMA DraftInFront ==
    ASSUME NEW plan \in Seq(Tasks)
    PROVE  /\ <<"Drafting">> \o plan \in Seq(Tasks) /\ <<"Drafting">> \o plan # <<>>
           /\ ToSet(<<"Drafting">> \o plan) = {"Drafting"} \cup ToSet(plan)
           /\ Early(<<"Drafting">> \o plan)
  <1>1. "Drafting" \in Tasks
    BY Names
  <1> DEFINE s == <<"Drafting">> \o plan
  <1>2. s \in Seq(Tasks) /\ s # <<>> /\ s[1] = "Drafting" /\ ToSet(s) = {"Drafting"} \cup ToSet(plan)
    BY <1>1, InFront
  <1> HIDE DEF s
  <1>3. Early(s)
    BY <1>2, EarlyInFront
  <1> QED
    BY <1>2, <1>3 DEF s

LEMMA AddedTo ==
    ASSUME NEW p, Sane(p), NEW more \in Seq(Tasks),
           p.task = "Drafting" => "Drafting" \notin ToSet(more)
    PROVE  /\ Keeps(p, [p EXCEPT !.plan = Adding(p.plan, more)])
           /\ [p EXCEPT !.plan = Adding(p.plan, more)].task = p.task
  <1> DEFINE s == Adding(p.plan, more)
             r == [p EXCEPT !.plan = s]
  <1>1. p \in Decision /\ p.plan \in Seq(Tasks) /\ p.plan # <<>>
    BY DEF Sane, Decision
  <1>2. /\ s \in Seq(Tasks) /\ Len(s) >= Len(p.plan)
        /\ \A i \in 1..Len(p.plan) : s[i] = p.plan[i]
        /\ ToSet(s) = ToSet(p.plan) \cup ToSet(more)
    BY <1>1, Added
  <1> HIDE DEF s
  <1>3. s # <<>>
    BY <1>1, <1>2, NotEmpty
  <1>4. r.task = p.task /\ r.plan = s /\ Sane(r)
    BY <1>1, <1>2, <1>3, PlanReplaced
  <1>5. ASSUME Led(p), p.task = "Drafting", "Drafting" \in ToSet(s) PROVE Early(s)
    <2>1. Early(p.plan)
      BY <1>2, <1>5 DEF Led, Has
    <2> QED
      BY <1>1, <1>2, <2>1, EarlyStays
  <1> HIDE DEF r
  <1>6. Keeps(p, r) /\ r.task = p.task
    BY <1>4, <1>5 DEF Keeps, Led, Has
  <1> QED
    BY <1>6 DEF r, s

\* A task that is its own plan.
LEMMA AloneIsFine ==
    ASSUME NEW t \in Tasks
    PROVE  LET p == [task |-> t, plan |-> <<t>>] IN Sane(p) /\ Led(p) /\ p.task = t
  <1>1. <<t>> \in Seq(Tasks) /\ Len(<<t>>) = 1 /\ <<t>>[1] = t
    BY OneAgent
  <1> DEFINE s == <<t>>
             p == [task |-> t, plan |-> s]
  <1>2. s \in Seq(Tasks) /\ s # <<>> /\ s[1] = t
    BY <1>1, NotEmpty
  <1> HIDE DEF s
  <1>3. p.task = t /\ p.plan = s /\ Sane(p)
    BY <1>2, TheDecision
  <1>4. t = "Drafting" => Early(s)
    BY <1>2, EarlyInFront
  <1> HIDE DEF p
  <1>5. Led(p)
    BY <1>3, <1>4 DEF Led
  <1> QED
    BY <1>3, <1>5 DEF p, s

\* Where an interval has few members, so has what is kept of it.
LEMMA FewOfThem ==
    ASSUME NEW n \in Nat, NEW J \in SUBSET (1..n)
    PROVE  /\ IsFiniteSet(J) /\ Cardinality(J) \in Nat /\ Cardinality(J) <= n
           /\ \A j \in 1..n : j \notin J => Cardinality(J) <= n - 1
  <1>1. IsFiniteSet(1..n) /\ Cardinality(1..n) = n
    <2>1. 1 \in Int /\ n \in Int
      OBVIOUS
    <2>2. IsFiniteSet(1..n) /\ Cardinality(1..n) = IF 1 > n THEN 0 ELSE n - 1 + 1
      BY <2>1, FS_Interval
    <2> QED
      BY <2>2
  <1>2. IsFiniteSet(J) /\ Cardinality(J) <= Cardinality(1..n)
    BY <1>1, FS_Subset
  <1>3. Cardinality(J) \in Nat
    BY <1>2, FS_CardinalityType
  <1>4. ASSUME NEW j \in 1..n, j \notin J PROVE Cardinality(J) <= n - 1
    <2> DEFINE R == (1..n) \ {j}
    <2>1. IsFiniteSet(R) /\ Cardinality(R) = Cardinality(1..n) - 1
      BY <1>1, FS_RemoveElement
    <2>2. J \in SUBSET R
      BY <1>4
    <2> HIDE DEF R
    <2>3. Cardinality(J) <= Cardinality(R)
      BY <2>1, <2>2, FS_Subset
    <2> QED
      BY <1>1, <2>1, <2>3
  <1> QED
    BY <1>1, <1>2, <1>3, <1>4

\* In every list of four but one Drafting is where the cuts do not reach it.
LEMMA EarlyButOne ==
    ASSUME NEW s \in Seq(Tasks), Len(s) <= 4, "Drafting" \in ToSet(s), s # DocumentThrice
    PROVE  Early(s)
  <1>1. DOMAIN s = 1..Len(s) /\ Len(s) \in Nat
    OBVIOUS
  <1>2. CASE \E i \in 1..Len(s) : s[i] = "Drafting" /\ i <= 3
    <2>1. PICK i \in 1..Len(s) : s[i] = "Drafting" /\ i <= 3
      BY <1>2
    <2>2. i \in Nat /\ i <= 4 /\ i \in DOMAIN s
      BY <1>1, <2>1
    <2> DEFINE J == Kept(s, DraftOrFile) \cap 1..i
    <2>3. J \in SUBSET (1..i)
      OBVIOUS
    <2> HIDE DEF J
    <2>4. Cardinality(J) \in Nat /\ Cardinality(J) <= i
      BY <2>2, <2>3, FewOfThem
    <2>5. Cardinality(J) <= 3
      BY <2>1, <2>2, <2>4
    <2>6. Rank(Kept(s, DraftOrFile), i) <= 3
      BY <2>5 DEF Rank, J
    <2> QED
      BY <2>1, <2>2, <2>6 DEF Early
  <1>3. CASE ~ \E i \in 1..Len(s) : s[i] = "Drafting" /\ i <= 3
    <2>1. PICK i \in 1..Len(s) : s[i] = "Drafting"
      BY <1>1 DEF ToSet
    <2>2. i = 4 /\ Len(s) = 4
      BY <1>1, <1>3, <2>1
    <2>3. s[4] = "Drafting" /\ \A j \in 1..3 : s[j] # "Drafting"
      BY <1>1, <1>3, <2>1, <2>2
    <2>4. \E j \in 1..3 : s[j] \notin DraftOrFile
      <3> SUFFICES ASSUME \A j \in 1..3 : s[j] \in DraftOrFile PROVE FALSE
        OBVIOUS
      <3>1. s[1] = "Document" /\ s[2] = "Document" /\ s[3] = "Document"
        BY <2>3 DEF DraftOrFile
      <3>2. s = <<s[1], s[2], s[3], s[4]>>
        BY <2>2
      <3>3. s = DocumentThrice
        BY <2>3, <3>1, <3>2 DEF DocumentThrice
      <3> QED
        BY <3>3
    <2>5. PICK j \in 1..3 : s[j] \notin DraftOrFile
      BY <2>4
    <2> DEFINE J == Kept(s, DraftOrFile) \cap 1..4
    <2>6. J \in SUBSET (1..4) /\ j \notin J /\ j \in 1..4
      BY <2>5 DEF Kept
    <2> HIDE DEF J
    <2>7. Cardinality(J) \in Nat /\ Cardinality(J) <= 4 - 1
      BY <2>6, FewOfThem
    <2>8. Cardinality(J) <= 3
      BY <2>7
    <2>9. Rank(Kept(s, DraftOrFile), 4) <= 3
      BY <2>8 DEF Rank, J
    <2>10. 4 \in DOMAIN s
      BY <1>1, <2>2
    <2> QED
      BY <2>3, <2>9, <2>10 DEF Early
  <1> QED
    BY <1>2, <1>3

LEMMA ClassifiedIsSane ==
    ASSUME NEW r \in Reply
    PROVE  /\ Sane(Classified(r)) /\ Classified(r).task = r.task
           /\ UpTo(4, r.agents) # DocumentThrice => Led(Classified(r))
  <1>1. r.task \in Tasks /\ r.agents \in Seq(Tasks)
    BY DEF Reply
  <1>2. CASE r.agents = <<>>
    <2>1. Classified(r) = [task |-> r.task, plan |-> <<r.task>>]
      BY <1>2 DEF Classified
    <2> QED
      BY <1>1, <2>1, AloneIsFine
  <1>3. CASE r.agents # <<>>
    <2> DEFINE s == UpTo(4, r.agents)
               p == [task |-> r.task, plan |-> s]
    <2>1. /\ s \in Seq(Tasks) /\ Len(s) <= 4
          /\ Len(s) = IF Len(r.agents) < 4 THEN Len(r.agents) ELSE 4
          /\ \A i \in 1..Len(s) : s[i] = r.agents[i]
      BY <1>1, Upto
    <2>2. Len(r.agents) >= 1 /\ Len(r.agents) \in Nat
      BY <1>1, <1>3, NotEmpty
    <2>3. Classified(r) = p
      BY <1>3 DEF Classified
    <2> HIDE DEF s
    <2>4. s # <<>> /\ Len(s) <= Len(r.agents) /\ Len(s) \in Nat
      BY <2>1, <2>2, NotEmpty
    <2>5. p.task = r.task /\ p.plan = s /\ Sane(p)
      BY <1>1, <2>1, <2>4, TheDecision
    <2> HIDE DEF p
    <2>6. ASSUME s # DocumentThrice PROVE Led(p)
      BY <2>1, <2>5, <2>6, EarlyButOne DEF Led, Has
    <2> QED
      BY <2>3, <2>5, <2>6 DEF s
  <1> QED
    BY <1>2, <1>3

LEMMA KeepsDraftingKeeps ==
    ASSUME NEW q \in Request, NEW p, Sane(p)
    PROVE  /\ Keeps(p, KeepsDrafting(q, p))
           /\ KeepsDrafting(q, p).task = "Drafting" => p.task = "Drafting" \/ q.follows
  <1> DEFINE s == <<"Drafting">> \o p.plan
             r == [task |-> "Drafting", plan |-> s]
  <1>1. p.plan \in Seq(Tasks) /\ "Drafting" \in Tasks
    BY Names DEF Sane, Decision
  <1>2. s \in Seq(Tasks) /\ s # <<>> /\ Early(s)
    BY <1>1, DraftInFront
  <1> HIDE DEF s
  <1>3. Sane(r) /\ r.plan = s
    BY <1>1, <1>2, TheDecision
  <1>4. Keeps(p, r)
    BY <1>2, <1>3 DEF Keeps, Led
  <1>5. KeepsDrafting(q, p) = IF q.follows /\ ~Has(p, "Drafting") THEN r ELSE p
    BY DEF KeepsDrafting, s
  <1> HIDE DEF r
  <1> QED
    BY <1>4, <1>5 DEF Keeps

LEMMA AboutFileKeeps ==
    ASSUME NEW q \in Request, NEW p, Sane(p)
    PROVE  /\ Keeps(p, AboutFile(q, p))
           /\ AboutFile(q, p).task = "Drafting" => p.task = "Drafting"
  <1> DEFINE r == [task |-> "Document", plan |-> <<"Document">>]
  <1>1. Sane(r) /\ Led(r) /\ r.task = "Document"
    BY Names, AloneIsFine
  <1>2. AboutFile(q, p) = IF q.file /\ p.task \in {"Non_legal", "Document"} THEN r ELSE p
    BY DEF AboutFile
  <1> HIDE DEF r
  <1> QED
    BY <1>1, <1>2 DEF Keeps

LEMMA ReadsFileKeeps ==
    ASSUME NEW q \in Request, NEW i, NEW p, Sane(p)
    PROVE  Keeps(p, ReadsFile(q, i, p)) /\ ReadsFile(q, i, p).task = p.task
  <1> DEFINE read == IF q.file THEN Adding(p.plan, <<"Document">>) ELSE p.plan
             r == [p EXCEPT !.plan = read]
             front == <<"Drafting">> \o read
             d == [p EXCEPT !.plan = front]
  <1>1. p \in Decision /\ p.plan \in Seq(Tasks) /\ p.plan # <<>>
    BY DEF Sane, Decision
  <1>2. Keeps(p, r) /\ r.task = p.task
    <2>1. CASE q.file
      <3>1. <<"Document">> \in Seq(Tasks) /\ "Drafting" \notin ToSet(<<"Document">>)
        BY Names, OneAgent
      <3> QED
        BY <2>1, <3>1, AddedTo
    <2>2. CASE ~q.file
      <3>1. r = p
        BY <1>1, <2>2 DEF Decision
      <3> QED
        BY <3>1 DEF Keeps
    <2> QED
      BY <2>1, <2>2
  <1>3. read \in Seq(Tasks)
    <2>1. r.plan = read
      BY <1>1 DEF Decision
    <2> HIDE DEF read
    <2> QED
      BY <1>2, <2>1 DEF Keeps, Sane, Decision
  <1>4. ReadsFile(q, i, p) = IF q.file /\ WantsDraft(i) /\ "Drafting" \notin ToSet(read) THEN d ELSE r
    BY DEF ReadsFile
  <1> HIDE DEF read
  <1>5. front \in Seq(Tasks) /\ front # <<>> /\ Early(front)
    BY <1>3, DraftInFront
  <1> HIDE DEF front
  <1>6. d.task = p.task /\ d.plan = front /\ Sane(d)
    BY <1>1, <1>5, PlanReplaced
  <1> HIDE DEF d, r
  <1>7. Keeps(p, d)
    BY <1>5, <1>6 DEF Keeps, Led
  <1> QED
    BY <1>2, <1>4, <1>6, <1>7

\* The enrichment names agents, and Drafting only beside another task.
LEMMA MultiIntentNames ==
    ASSUME NEW i \in Intent, NEW task \in Tasks
    PROVE  /\ MultiIntent(i, task) \in Seq(Tasks)
           /\ task = "Drafting" => "Drafting" \notin ToSet(MultiIntent(i, task))
  <1> DEFINE S == IF task = "Drafting" THEN Tasks \ {"Drafting"} ELSE Tasks
  <1>1. /\ {"Judgment", "SCI_Judgment", "Legislation", "Constitution", "Maxim", "Scenario",
            "GST_Judgment"} \subseteq S
        /\ task # "Drafting" => "Drafting" \in S
        /\ S \subseteq Tasks
        /\ task = "Drafting" => "Drafting" \notin S
    BY Names
  <1> HIDE DEF S
  <1>2. ASSUME NEW c, NEW a, c => a \in S PROVE When(c, a) \in Seq(S)
    BY <1>2 DEF When
  <1>3. ASSUME NEW s \in Seq(S), NEW t \in Seq(S) PROVE s \o t \in Seq(S)
    OBVIOUS
  <1> DEFINE wants(w, a) == w \in i.wants /\ task # a
             w1 == When(wants("case_law", "Judgment"), "Judgment")
             w2 == When(wants("case_law", "SCI_Judgment"), "SCI_Judgment")
             w3 == When("statute" \in i.wants /\ task \notin {"Legislation", "Newacts"}, "Legislation")
             w4 == When(wants("constitution", "Constitution"), "Constitution")
             w5 == When(wants("maxim", "Maxim"), "Maxim")
             w6 == When(wants("scenario", "Scenario"), "Scenario")
             w7 == When(wants("supreme_court", "SCI_Judgment") /\ "case_law" \notin i.wants, "SCI_Judgment")
             w8 == When(wants("gst", "GST_Judgment"), "GST_Judgment")
             w9 == When(i.kind = "draft" /\ task # "Drafting", "Drafting")
  <1>4. /\ w1 \in Seq(S) /\ w2 \in Seq(S) /\ w3 \in Seq(S) /\ w4 \in Seq(S) /\ w5 \in Seq(S)
        /\ w6 \in Seq(S) /\ w7 \in Seq(S) /\ w8 \in Seq(S)
    BY <1>1, <1>2
  <1>5. w9 \in Seq(S)
    BY <1>1, <1>2
  <1>6. MultiIntent(i, task) =
          IF ~Confident(i) \/ task = "Legal_Concepts" THEN <<>>
          ELSE w1 \o w2 \o w3 \o w4 \o w5 \o w6 \o w7 \o w8 \o w9
    BY DEF MultiIntent
  <1> HIDE DEF wants, w1, w2, w3, w4, w5, w6, w7, w8, w9
  <1>7. w1 \o w2 \o w3 \o w4 \o w5 \in Seq(S)
    BY <1>4, <1>3
  <1>8. w1 \o w2 \o w3 \o w4 \o w5 \o w6 \o w7 \o w8 \o w9 \in Seq(S)
    BY <1>4, <1>5, <1>7, <1>3
  <1>9. <<>> \in Seq(S)
    OBVIOUS
  <1> DEFINE m == MultiIntent(i, task)
  <1>10. m \in Seq(S)
    BY <1>6, <1>8, <1>9
  <1> HIDE DEF m
  <1>11. m \in Seq(Tasks)
    BY <1>1, <1>10
  <1>12. ToSet(m) \subseteq S
    BY <1>10 DEF ToSet
  <1> QED
    BY <1>1, <1>11, <1>12 DEF m

LEMMA EnrichedKeeps ==
    ASSUME NEW i \in Intent, NEW p, Sane(p)
    PROVE  Keeps(p, Enriched(i, p)) /\ Enriched(i, p).task = p.task
  <1> DEFINE more == MultiIntent(i, p.task)
             r == [p EXCEPT !.plan = Adding(p.plan, more)]
  <1>1. p.task \in Tasks /\ Keeps(p, p)
    BY DEF Sane, Decision, Keeps
  <1>2. more \in Seq(Tasks) /\ (p.task = "Drafting" => "Drafting" \notin ToSet(more))
    BY <1>1, MultiIntentNames
  <1>3. Enriched(i, p) = IF p.task \in {"Non_legal", "Document"} THEN p ELSE r
    BY DEF Enriched
  <1> HIDE DEF more
  <1>4. Keeps(p, r) /\ r.task = p.task
    BY <1>2, AddedTo
  <1> HIDE DEF r
  <1> QED
    BY <1>1, <1>3, <1>4

\* Drafting is in the plan only as the task, and the task only if the intent
\* confirms it or it had been the task.
LEMMA ReconciledKeeps ==
    ASSUME NEW i \in Intent, NEW p, Sane(p)
    PROVE  /\ Keeps(p, Reconciled(i, p))
           /\ Has(Reconciled(i, p), "Drafting") => Reconciled(i, p).task = "Drafting"
           /\ Reconciled(i, p).task = "Drafting" => p.task = "Drafting" \/ WantsDraft(i)
  <1> DEFINE others == Without(p.plan, {"Drafting"})
             front == <<"Drafting">> \o others
             led == [task |-> "Drafting", plan |-> front]
             rest == IF others = <<>> THEN <<p.task>> ELSE others
             r == [p EXCEPT !.plan = rest]
  <1>1. p \in Decision /\ p.task \in Tasks /\ p.plan \in Seq(Tasks) /\ "Drafting" \in Tasks
    BY Names DEF Sane, Decision
  <1>2. others \in Seq(Tasks) /\ ToSet(others) = ToSet(p.plan) \ {"Drafting"}
    BY <1>1, WithoutTheGone
  <1>3. Reconciled(i, p) = IF p.task = "Drafting" \/ ~Has(p, "Drafting") THEN p
                           ELSE IF WantsDraft(i) THEN led ELSE r
    BY DEF Reconciled
  <1> HIDE DEF others
  <1>4. front \in Seq(Tasks) /\ front # <<>> /\ Early(front)
    BY <1>2, DraftInFront
  <1> HIDE DEF front
  <1>5. Sane(led) /\ led.plan = front /\ led.task = "Drafting"
    BY <1>1, <1>4, TheDecision
  <1> HIDE DEF led
  <1>6. Keeps(p, led)
    BY <1>4, <1>5 DEF Keeps, Led
  <1>7. rest \in Seq(Tasks) /\ rest # <<>> /\ ToSet(rest) \subseteq {p.task} \cup (ToSet(p.plan) \ {"Drafting"})
    <2>1. CASE others = <<>>
      <3> DEFINE one == <<p.task>>
      <3>1. one \in Seq(Tasks) /\ ToSet(one) = {p.task} /\ Len(one) = 1
        BY <1>1, OneAgent
      <3>2. rest = one
        BY <2>1
      <3> HIDE DEF one, rest
      <3>3. one # <<>>
        BY <3>1, NotEmpty
      <3> QED
        BY <3>1, <3>2, <3>3
    <2>2. CASE others # <<>>
      BY <1>2, <2>2
    <2> QED
      BY <2>1, <2>2
  <1> HIDE DEF rest
  <1>8. Sane(r) /\ r.plan = rest /\ r.task = p.task
    BY <1>1, <1>7, PlanReplaced
  <1> HIDE DEF r
  <1>9. CASE p.task = "Drafting" \/ ~Has(p, "Drafting")
    BY <1>3, <1>9 DEF Keeps
  <1>10. CASE p.task # "Drafting" /\ Has(p, "Drafting") /\ WantsDraft(i)
    BY <1>3, <1>5, <1>6, <1>10
  <1>11. CASE p.task # "Drafting" /\ Has(p, "Drafting") /\ ~WantsDraft(i)
    BY <1>3, <1>7, <1>8, <1>11 DEF Keeps, Led, Has
  <1> QED
    BY <1>9, <1>10, <1>11

\* A plan of one to four agents that drafts only as its task.
Settled(p) ==
    /\ Sane(p) /\ Len(p.plan) <= 4
    /\ Has(p, "Drafting") => p.task = "Drafting"

LEMMA CitationAgentsNames ==
    ASSUME NEW i \in Intent, NEW plan \in Seq(Tasks)
    PROVE  CitationAgents(i, plan) \in Seq(Tasks)
  <1>1. ASSUME NEW c, NEW a \in Tasks PROVE When(c, a) \in Seq(Tasks)
    BY DEF When
  <1>2. ASSUME NEW s \in Seq(Tasks), NEW t \in Seq(Tasks) PROVE s \o t \in Seq(Tasks)
    OBVIOUS
  <1> DEFINE c1 == <<"Judgment">>
             c2 == When("supreme_court" \in i.wants, "SCI_Judgment")
             c3 == When("gst" \in i.wants, "GST_Judgment")
             c4 == <<IF "Newacts" \in ToSet(plan) THEN "Newacts" ELSE "Legislation">>
  <1>3. /\ "Judgment" \in Tasks /\ "SCI_Judgment" \in Tasks /\ "GST_Judgment" \in Tasks
        /\ "Newacts" \in Tasks /\ "Legislation" \in Tasks
    BY Names
  <1>4. c1 \in Seq(Tasks) /\ c2 \in Seq(Tasks) /\ c3 \in Seq(Tasks) /\ c4 \in Seq(Tasks)
    BY <1>1, <1>3
  <1>5. CitationAgents(i, plan) = c1 \o c2 \o c3 \o c4
    BY DEF CitationAgents
  <1> HIDE DEF c1, c2, c3, c4
  <1> QED
    BY <1>2, <1>4, <1>5

\* The cut of a plan that is not empty is not.
LEMMA UptoSome ==
    ASSUME NEW plan \in Seq(Tasks), plan # <<>>, NEW n \in 1..4
    PROVE  UpTo(n, plan) \in Seq(Tasks) /\ UpTo(n, plan) # <<>> /\ Len(UpTo(n, plan)) <= 4
  <1> DEFINE s == UpTo(n, plan)
  <1>1. n \in Nat /\ n >= 1 /\ n <= 4
    OBVIOUS
  <1>2. /\ s \in Seq(Tasks) /\ Len(s) = IF Len(plan) < n THEN Len(plan) ELSE n
        /\ Len(s) <= n
    BY <1>1, Upto
  <1>3. Len(plan) >= 1 /\ Len(plan) \in Nat
    BY NotEmpty
  <1> HIDE DEF s
  <1>4. Len(s) >= 1 /\ Len(s) <= 4
    BY <1>1, <1>2, <1>3
  <1> QED
    BY <1>2, <1>4, NotEmpty DEF s

\* An early Drafting is in both cuts.
LEMMA EarlyIsCut ==
    ASSUME NEW plan \in Seq(Tasks), Early(plan)
    PROVE  /\ "Drafting" \in ToSet(UpTo(4, plan))
           /\ "Drafting" \in ToSet(UpTo(3, Only(plan, DraftOrFile)))
  <1> DEFINE K == Kept(plan, DraftOrFile)
             s == Only(plan, DraftOrFile)
  <1>1. PICK i \in DOMAIN plan : i <= 4 /\ plan[i] = "Drafting" /\ Rank(K, i) <= 3
    BY DEF Early
  <1>2. "Drafting" \in ToSet(UpTo(4, plan))
    BY <1>1, Upto
  <1>3. i \in K
    BY <1>1 DEF Kept, DraftOrFile
  <1>4. s \in Seq(Tasks) /\ Rank(K, i) \in 1..Len(s) /\ s[Rank(K, i)] = plan[i]
    BY <1>3, OnlyTheWanted
  <1> HIDE DEF s, K
  <1>5. Rank(K, i) \in DOMAIN s
    BY <1>4
  <1>6. s[Rank(K, i)] \in ToSet(UpTo(3, s))
    BY <1>1, <1>4, <1>5, Upto
  <1>7. "Drafting" \in ToSet(UpTo(3, s))
    BY <1>1, <1>4, <1>6
  <1> QED
    BY <1>2, <1>7 DEF s

LEMMA BoundedSettles ==
    ASSUME NEW q \in Request, NEW i \in Intent, NEW p, Sane(p),
           Has(p, "Drafting") => p.task = "Drafting"
    PROVE  /\ Settled(Bounded(q, i, p)) /\ Bounded(q, i, p).task = p.task
           /\ Led(p) /\ p.task = "Drafting" => Has(Bounded(q, i, p), "Drafting")
  <1> DEFINE led == IF Has(p, "Drafting") THEN p.plan ELSE <<"Drafting">> \o p.plan
             cited == Adding(led, CitationAgents(i, led))
             own == Only(led, {"Drafting", "Document"})
             s == IF p.task # "Drafting" THEN UpTo(4, p.plan)
                  ELSE IF q.cite /\ ~i.correspondence THEN UpTo(4, cited) ELSE UpTo(3, own)
             r == [p EXCEPT !.plan = s]
  <1>1. p \in Decision /\ p.plan \in Seq(Tasks) /\ p.plan # <<>>
    BY DEF Sane, Decision
  <1>2. Bounded(q, i, p) = r
    BY DEF Bounded
  <1>3. led \in Seq(Tasks) /\ led # <<>> /\ "Drafting" \in ToSet(led)
        /\ (Led(p) /\ p.task = "Drafting" => Early(led))
    <2>1. CASE Has(p, "Drafting")
      BY <1>1, <2>1 DEF Led, Has
    <2>2. CASE ~Has(p, "Drafting")
      <3> DEFINE front == <<"Drafting">> \o p.plan
      <3>1. front \in Seq(Tasks) /\ front # <<>> /\ ToSet(front) = {"Drafting"} \cup ToSet(p.plan)
            /\ Early(front)
        BY <1>1, DraftInFront
      <3>2. led = front
        BY <2>2
      <3> HIDE DEF front, led
      <3> QED
        BY <3>1, <3>2
    <2> QED
      BY <2>1, <2>2
  <1> HIDE DEF led
  <1>4. cited \in Seq(Tasks) /\ cited # <<>> /\ (Early(led) => Early(cited))
    <2> DEFINE more == CitationAgents(i, led)
    <2>1. more \in Seq(Tasks)
      BY <1>3, CitationAgentsNames
    <2>2. cited = Adding(led, more)
      OBVIOUS
    <2> HIDE DEF more, cited
    <2>3. /\ cited \in Seq(Tasks) /\ Len(cited) >= Len(led) /\ ToSet(cited) = ToSet(led) \cup ToSet(more)
          /\ \A j \in 1..Len(led) : cited[j] = led[j]
      BY <1>3, <2>1, <2>2, Added
    <2>4. cited # <<>>
      BY <1>3, <2>3, NotEmpty
    <2> QED
      BY <1>3, <2>3, <2>4, EarlyStays
  <1>5. own \in Seq(Tasks) /\ own # <<>>
    <2>1. own \in Seq(Tasks) /\ ToSet(own) = ToSet(led) \cap {"Drafting", "Document"}
      BY <1>3, OnlyTheWanted
    <2> HIDE DEF own
    <2> QED
      BY <1>3, <2>1, NotEmpty
  <1>6. Early(cited) => "Drafting" \in ToSet(UpTo(4, cited))
    BY <1>4, EarlyIsCut
  <1>7. Early(led) => "Drafting" \in ToSet(UpTo(3, own))
    BY <1>3, EarlyIsCut DEF DraftOrFile
  <1> HIDE DEF cited, own
  <1>8. s \in Seq(Tasks) /\ s # <<>> /\ Len(s) <= 4
        /\ (p.task # "Drafting" => ToSet(s) \subseteq ToSet(p.plan))
        /\ (p.task = "Drafting" /\ Early(led) => "Drafting" \in ToSet(s))
    <2>1. CASE p.task # "Drafting"
      <3>1. s = UpTo(4, p.plan)
        BY <2>1
      <3>2. ToSet(UpTo(4, p.plan)) \subseteq ToSet(p.plan)
        BY <1>1, Upto
      <3> HIDE DEF s
      <3> QED
        BY <1>1, <2>1, <3>1, <3>2, UptoSome
    <2>2. CASE p.task = "Drafting" /\ q.cite /\ ~i.correspondence
      <3>1. s = UpTo(4, cited)
        BY <2>2
      <3> HIDE DEF s
      <3> QED
        BY <1>4, <1>6, <2>2, <3>1, UptoSome
    <2>3. CASE p.task = "Drafting" /\ ~(q.cite /\ ~i.correspondence)
      <3>1. s = UpTo(3, own)
        BY <2>3
      <3> HIDE DEF s
      <3> QED
        BY <1>5, <1>7, <2>3, <3>1, UptoSome
    <2> QED
      BY <2>1, <2>2, <2>3
  <1> HIDE DEF s
  <1>9. Sane(r) /\ r.task = p.task /\ r.plan = s
    BY <1>1, <1>8, PlanReplaced
  <1> HIDE DEF r
  <1>10. Has(r, "Drafting") => r.task = "Drafting"
    BY <1>8, <1>9 DEF Has
  <1>11. Led(p) /\ p.task = "Drafting" => Has(r, "Drafting")
    BY <1>3, <1>8, <1>9 DEF Has
  <1> QED
    BY <1>2, <1>8, <1>9, <1>10, <1>11 DEF Settled

Once(plan) == ~("Newacts" \in ToSet(plan) /\ "Legislation" \in ToSet(plan))

\* An agent that is no draft and no code is added while there is room.
LEMMA RoomForOne ==
    ASSUME NEW plan \in Seq(Tasks), plan # <<>>, Len(plan) <= 4, NEW c,
           NEW a \in {"SCI_Judgment", "GST_Judgment"}
    PROVE  LET s == IF c /\ Len(plan) < 3 THEN Adding(plan, <<a>>) ELSE plan
           IN  /\ s \in Seq(Tasks) /\ s # <<>> /\ Len(s) <= 4
               /\ ToSet(s) \subseteq ToSet(plan) \cup {a} /\ ToSet(plan) \subseteq ToSet(s)
  <1> DEFINE s == Adding(plan, <<a>>)
  <1>1. a \in Tasks
    BY Names
  <1>2. <<a>> \in Seq(Tasks) /\ ToSet(<<a>>) = {a}
    BY <1>1, OneAgent
  <1>3. s \in Seq(Tasks) /\ ToSet(s) = ToSet(plan) \cup {a} /\ Len(s) <= Len(plan) + 1
    BY <1>1, <1>2, Added, AddedOne
  <1>4. Len(plan) \in Nat /\ ToSet(plan) # {}
    BY NotEmpty
  <1> HIDE DEF s
  <1>5. s # <<>> /\ Len(s) \in Nat
    BY <1>3, <1>4, NotEmpty
  <1>6. Len(plan) < 3 => Len(s) <= 4
    BY <1>3, <1>4, <1>5
  <1> QED
    BY <1>3, <1>5, <1>6 DEF s

LEMMA VettedSettles ==
    ASSUME NEW i \in Intent, NEW p, Settled(p)
    PROVE  /\ Settled(Vetted(i, p)) /\ Vetted(i, p).task = p.task
           /\ Has(Vetted(i, p), "Drafting") <=> Has(p, "Drafting")
           /\ Confident(i) => Once(Vetted(i, p).plan)
  <1> DEFINE once == IF Has(p, "Newacts") THEN Without(p.plan, {"Legislation"}) ELSE p.plan
             sc == IF "supreme_court" \in i.wants /\ Len(once) < 3 THEN Adding(once, <<"SCI_Judgment">>) ELSE once
             s == IF "gst" \in i.wants /\ Len(sc) < 3 THEN Adding(sc, <<"GST_Judgment">>) ELSE sc
             r == [p EXCEPT !.plan = s]
  <1>1. p \in Decision /\ p.plan \in Seq(Tasks) /\ p.plan # <<>> /\ Len(p.plan) <= 4
    BY DEF Settled, Sane, Decision
  <1>2. Vetted(i, p) = IF ~Confident(i) THEN p ELSE r
    BY DEF Vetted
  <1>3. /\ once \in Seq(Tasks) /\ once # <<>> /\ Len(once) <= 4 /\ Once(once)
        /\ "Drafting" \in ToSet(once) <=> Has(p, "Drafting")
    <2>1. CASE Has(p, "Newacts")
      <3> DEFINE w == Without(p.plan, {"Legislation"})
      <3>1. w \in Seq(Tasks) /\ ToSet(w) = ToSet(p.plan) \ {"Legislation"} /\ Len(w) <= Len(p.plan)
        BY <1>1, WithoutTheGone
      <3>2. once = w
        BY <2>1
      <3> HIDE DEF once, w
      <3>3. w # <<>> /\ Len(w) \in Nat /\ Len(p.plan) \in Nat
        BY <1>1, <2>1, <3>1, NotEmpty DEF Has
      <3>4. Len(w) <= 4
        BY <1>1, <3>1, <3>3
      <3> QED
        BY <3>1, <3>2, <3>3, <3>4 DEF Once, Has
    <2>2. CASE ~Has(p, "Newacts")
      BY <1>1, <2>2 DEF Once, Has
    <2> QED
      BY <2>1, <2>2
  <1> HIDE DEF once
  <1>4. /\ sc \in Seq(Tasks) /\ sc # <<>> /\ Len(sc) <= 4
        /\ ToSet(sc) \subseteq ToSet(once) \cup {"SCI_Judgment"} /\ ToSet(once) \subseteq ToSet(sc)
    BY <1>3, RoomForOne
  <1> HIDE DEF sc
  <1>5. /\ s \in Seq(Tasks) /\ s # <<>> /\ Len(s) <= 4
        /\ ToSet(s) \subseteq ToSet(sc) \cup {"GST_Judgment"} /\ ToSet(sc) \subseteq ToSet(s)
    BY <1>4, RoomForOne
  <1> HIDE DEF s
  <1>6. Once(s) /\ ("Drafting" \in ToSet(s) <=> Has(p, "Drafting"))
    BY <1>3, <1>4, <1>5 DEF Once
  <1>7. Sane(r) /\ r.task = p.task /\ r.plan = s
    BY <1>1, <1>5, PlanReplaced
  <1> HIDE DEF r
  <1>8. Settled(r) /\ Once(r.plan) /\ (Has(r, "Drafting") <=> Has(p, "Drafting"))
    BY <1>5, <1>6, <1>7 DEF Settled, Has
  <1> QED
    BY <1>2, <1>7, <1>8

LEMMA ReviewedSettles ==
    ASSUME NEW q \in Request, NEW p, Settled(p)
    PROVE  /\ Settled(Reviewed(q, p)) /\ Reviewed(q, p).task = p.task
           /\ Has(Reviewed(q, p), "Drafting") <=> Has(p, "Drafting")
           /\ Once(p.plan) => Once(Reviewed(q, p).plan)
  <1> DEFINE s == Without(p.plan, CaseLaw)
             r == [p EXCEPT !.plan = s]
  <1>1. p \in Decision /\ p.plan \in Seq(Tasks) /\ p.plan # <<>> /\ Len(p.plan) <= 4
    BY DEF Settled, Sane, Decision
  <1>2. s \in Seq(Tasks) /\ ToSet(s) = ToSet(p.plan) \ CaseLaw /\ Len(s) <= Len(p.plan)
    BY <1>1, WithoutTheGone
  <1>3. Reviewed(q, p) = IF q.file /\ q.review /\ Has(p, "Drafting") THEN r ELSE p
    BY DEF Reviewed
  <1> HIDE DEF s
  <1>4. ASSUME Has(p, "Drafting")
        PROVE  Settled(r) /\ r.task = p.task /\ Has(r, "Drafting") /\ (Once(p.plan) => Once(r.plan))
    <2>1. "Drafting" \in ToSet(s)
      BY <1>2, <1>4 DEF Has, CaseLaw
    <2>2. s # <<>> /\ Len(s) \in Nat /\ Len(p.plan) \in Nat
      BY <1>1, <1>2, <2>1, NotEmpty
    <2>3. Len(s) <= 4
      BY <1>1, <1>2, <2>2
    <2>4. Sane(r) /\ r.task = p.task /\ r.plan = s
      BY <1>1, <1>2, <2>2, PlanReplaced
    <2> HIDE DEF r
    <2> QED
      BY <1>2, <1>4, <2>1, <2>3, <2>4 DEF Settled, Has, Once
  <1> HIDE DEF r
  <1> QED
    BY <1>3, <1>4

\* What all the rules together leave of a classification.
LEMMA WhatIsPlanned ==
    ASSUME NEW q \in Request, NEW i \in Intent, NEW c, Sane(c)
    PROVE  LET r == Planned(q, i, c)
           IN  /\ Settled(r)
               /\ r.task = "Drafting" => c.task = "Drafting" \/ q.follows \/ WantsDraft(i)
               /\ Confident(i) => Once(r.plan)
               /\ Led(c) /\ r.task = "Drafting" => Has(r, "Drafting")
  <1> DEFINE p1 == IF q.greeting THEN c ELSE KeepsDrafting(q, c)
             p2 == AboutFile(q, p1)
             p3 == ReadsFile(q, i, p2)
             p4 == Enriched(i, p3)
             p5 == Reconciled(i, p4)
             p6 == Bounded(q, i, p5)
             p7 == Vetted(i, p6)
             p8 == Reviewed(q, p7)
  <1>0. Planned(q, i, c) = p8
    BY DEF Planned
  <1>1. Keeps(c, p1) /\ (p1.task = "Drafting" => c.task = "Drafting" \/ q.follows)
    BY KeepsDraftingKeeps DEF Keeps
  <1> HIDE DEF p1
  <1>2. Keeps(p1, p2) /\ (p2.task = "Drafting" => p1.task = "Drafting")
    BY <1>1, AboutFileKeeps DEF Keeps
  <1> HIDE DEF p2
  <1>3. Keeps(p2, p3) /\ p3.task = p2.task
    BY <1>2, ReadsFileKeeps DEF Keeps
  <1> HIDE DEF p3
  <1>4. Keeps(p3, p4) /\ p4.task = p3.task
    BY <1>3, EnrichedKeeps DEF Keeps
  <1> HIDE DEF p4
  <1>5. /\ Keeps(p4, p5) /\ (Has(p5, "Drafting") => p5.task = "Drafting")
        /\ p5.task = "Drafting" => p4.task = "Drafting" \/ WantsDraft(i)
    BY <1>4, ReconciledKeeps DEF Keeps
  <1> HIDE DEF p5
  <1>6. Settled(p6) /\ p6.task = p5.task /\ (Led(p5) /\ p5.task = "Drafting" => Has(p6, "Drafting"))
    BY <1>5, BoundedSettles DEF Keeps
  <1> HIDE DEF p6
  <1>7. /\ Settled(p7) /\ p7.task = p6.task /\ (Has(p7, "Drafting") <=> Has(p6, "Drafting"))
        /\ Confident(i) => Once(p7.plan)
    BY <1>6, VettedSettles
  <1> HIDE DEF p7
  <1>8. /\ Settled(p8) /\ p8.task = p7.task /\ (Has(p8, "Drafting") <=> Has(p7, "Drafting"))
        /\ Once(p7.plan) => Once(p8.plan)
    BY <1>7, ReviewedSettles
  <1> HIDE DEF p8
  <1>9. Led(c) => Led(p5)
    BY <1>1, <1>2, <1>3, <1>4, <1>5 DEF Keeps
  <1>10. p5.task = "Drafting" => c.task = "Drafting" \/ q.follows \/ WantsDraft(i)
    BY <1>1, <1>2, <1>3, <1>4, <1>5
  <1> QED
    BY <1>0, <1>6, <1>7, <1>8, <1>9, <1>10

-----------------------------------------------------------------------------
(* The node                                                                *)

\* Until the calls are back the query is the user's and nothing is planned.
Untouched ==
    /\ query = [length |-> request.length, condensed |-> FALSE]
    /\ decision = [task |-> "Other", plan |-> <<>>]
    /\ reworded = {}

\* A query the node hands on: a long English one is the user's own.
HandedOn(q) ==
    /\ q \in Query
    /\ request.english /\ request.length = "long" => q = [length |-> "long", condensed |-> FALSE]

IInv ==
    /\ request \in Requests
    /\ reply \in Replies \cup {NoReply}
    /\ intent \in Intents \cup {NoIntent}
    /\ reworded \subseteq ToSet(decision.plan)
    /\ pc \in {"understand", "reword", "planned"}
    /\ pc = "understand" => Untouched
    /\ HandedOn(query)
    /\ pc # "understand" => Settled(decision)
    /\ DraftsAreConfirmed
    /\ CodesAreReadOnce
    /\ LongPromptReachesDraftingWhole

LEMMA NothingPlanned == Sane([task |-> "Other", plan |-> <<"Other">>]) /\ ToSet(<<>>) = {}
  <1>1. "Other" \in Tasks
    BY Names
  <1>2. Sane([task |-> "Other", plan |-> <<"Other">>])
    BY <1>1, AloneIsFine
  <1> QED
    BY <1>2 DEF ToSet

LEMMA NoIntentIsOne == NoIntent \in Intent
  BY DEF NoIntent, Intent

LEMMA InitInv == Init => IInv /\ DraftingLeadsItsPlan
  <1> SUFFICES ASSUME Init PROVE IInv /\ DraftingLeadsItsPlan
    OBVIOUS
  <1>1. Untouched /\ pc = "understand" /\ request \in Requests /\ reply = NoReply /\ intent = NoIntent
    BY DEF Init, Untouched
  <1>2. request.length \in Lengths
    BY <1>1, PlannerAssumption DEF Request
  <1>3. HandedOn(query)
    BY <1>1, <1>2 DEF Untouched, Query, HandedOn
  <1>4. decision.plan = <<>> /\ reworded = {}
    BY <1>1 DEF Untouched
  <1>5. ToSet(decision.plan) = {}
    BY <1>4, NothingPlanned
  <1>6. ~Has(decision, "Drafting") /\ ~Has(decision, "Newacts")
    BY <1>5 DEF Has
  <1> QED
    BY <1>1, <1>3, <1>4, <1>6 DEF IInv, DraftsAreConfirmed, CodesAreReadOnce,
       LongPromptReachesDraftingWhole, DraftingLeadsItsPlan

\* A decision confirmed by what the two calls have said.
Confirmed(c, i, r) == Sane(c) /\ (c.task = "Drafting" => r.task = "Drafting" \/ WantsDraft(i))

LEMMA SettleStep ==
    ASSUME NEW i \in Intents \cup {NoIntent}, NEW r \in Replies \cup {NoReply}, NEW c, NEW q,
           IInv, pc = "understand", HandedOn(q), Confirmed(c, i, r),
           Settle(i, c, q), reply' = r
    PROVE  /\ IInv'
           /\ Led(c) \/ (r.task = "Drafting" /\ UpTo(4, r.agents) = DocumentThrice)
                => DraftingLeadsItsPlan'
  <1> DEFINE d == Planned(request, i, c)
  <1>1. request \in Request /\ i \in Intent /\ Sane(c)
    <2>1. request \in Request /\ Sane(c)
      BY PlannerAssumption DEF IInv, Confirmed
    <2>2. i \in Intent
      BY NoIntentIsOne, PlannerAssumption
    <2> QED
      BY <2>1, <2>2
  <1>2. /\ Settled(d)
        /\ d.task = "Drafting" => c.task = "Drafting" \/ request.follows \/ WantsDraft(i)
        /\ Confident(i) => Once(d.plan)
        /\ Led(c) /\ d.task = "Drafting" => Has(d, "Drafting")
    BY <1>1, WhatIsPlanned
  <1>3. /\ intent' = i /\ decision' = d /\ query' = q /\ pc' \in {"reword", "planned"}
        /\ request' = request /\ reworded' = reworded /\ reworded = {}
    BY DEF Settle, IInv, Untouched
  <1> HIDE DEF d
  <1>4. Has(d, "Drafting") => d.task = "Drafting"
    BY <1>2 DEF Settled
  <1>5. DraftsAreConfirmed'
    BY <1>2, <1>3, <1>4 DEF DraftsAreConfirmed, Confirmed, Has
  <1>6. CodesAreReadOnce'
    BY <1>2, <1>3 DEF CodesAreReadOnce, Once, Has
  <1>7. LongPromptReachesDraftingWhole'
    BY <1>3 DEF LongPromptReachesDraftingWhole, HandedOn
  <1>8. Settled(decision)' /\ HandedOn(query)'
    BY <1>2, <1>3 DEF Settled, Sane, Has, HandedOn
  <1>9. IInv'
    BY <1>3, <1>5, <1>6, <1>7, <1>8 DEF IInv
  <1>10. ASSUME Led(c) PROVE DraftingLeadsItsPlan'
    BY <1>2, <1>3, <1>4, <1>10 DEF DraftingLeadsItsPlan, Has
  <1>11. ASSUME r.task = "Drafting", UpTo(4, r.agents) = DocumentThrice PROVE DraftingLeadsItsPlan'
    <2>1. reply'.task = "Drafting" /\ UpTo(4, reply'.agents) = DocumentThrice
      BY <1>11
    <2> QED
      BY <1>3, <1>4, <2>1 DEF DraftingLeadsItsPlan, Has
  <1> QED
    BY <1>9, <1>10, <1>11

\* A greeting drafts nothing.
LEMMA GreetStep == ASSUME IInv, Greet PROVE IInv' /\ DraftingLeadsItsPlan'
  <1>1. PICK q : q = query
    OBVIOUS
  <1>2. PICK r \in Replies \cup {NoReply} : r = reply
    BY DEF IInv
  <1>3. Sane(Greeted) /\ Led(Greeted) /\ Greeted.task = "Non_legal"
    BY Names, AloneIsFine DEF Greeted
  <1>4. Confirmed(Greeted, NoIntent, r)
    BY <1>3 DEF Confirmed
  <1>5. HandedOn(q)
    BY <1>1 DEF IInv, HandedOn
  <1>6. pc = "understand" /\ Settle(NoIntent, Greeted, q) /\ reply' = r
    BY <1>1, <1>2 DEF Greet
  <1> QED
    BY <1>3, <1>4, <1>5, <1>6, SettleStep

\* Neither the classifier's list nor the intent behind a task of its own names
\* a draft that the one or the other has not asked for.
LEMMA UnderstandStep == ASSUME IInv, Understand PROVE IInv' /\ DraftingLeadsItsPlan'
  <1>1. pc = "understand" /\ Untouched /\ request \in Request
    BY PlannerAssumption DEF Understand, IInv
  <1>2. PICK x \in Extracted \cup {[intent |-> NoIntent, query |-> query]} :
          \/ \E r \in Replies : Settle(x.intent, Classified(r), x.query) /\ reply' = r
          \/ /\ Settle(x.intent, [task |-> TaskOfIntent(x.intent), plan |-> <<TaskOfIntent(x.intent)>>], x.query)
             /\ reply' = NoReply
    BY DEF Understand
  <1>3. PICK i \in Intents \cup {NoIntent} : i = x.intent
    BY DEF Extracted
  <1>4. PICK q : q = x.query
    OBVIOUS
  <1>5. HandedOn(q)
    <2>1. HandedOn(query)
      BY DEF IInv
    <2>2. request.english /\ request.length = "long" => ~Condenses(request)
      BY DEF Condenses
    <2>3. \A l \in Lengths : [length |-> l, condensed |-> TRUE] \in Query
      BY DEF Query
    <2>4. q = query \/ (Condenses(request) /\ \E l \in Lengths : q = [length |-> l, condensed |-> TRUE])
      <3>1. CASE x = [intent |-> NoIntent, query |-> query]
        BY <1>4, <3>1
      <3>2. CASE x \in Extracted
        <4>1. PICK j \in Intents, l \in Lengths :
                x = [intent |-> j,
                     query |-> IF Condenses(request) THEN [length |-> l, condensed |-> TRUE] ELSE query]
          BY <3>2 DEF Extracted
        <4>2. q = IF Condenses(request) THEN [length |-> l, condensed |-> TRUE] ELSE query
          BY <1>4, <4>1
        <4> QED
          BY <4>2
      <3> QED
        BY <1>2, <3>1, <3>2
    <2> QED
      BY <2>1, <2>2, <2>3, <2>4 DEF HandedOn
  <1>6. ASSUME NEW r \in Replies, Settle(x.intent, Classified(r), x.query), reply' = r
        PROVE  IInv' /\ DraftingLeadsItsPlan'
    <2> DEFINE c == Classified(r)
    <2>1. r \in Reply
      BY PlannerAssumption
    <2>2. Sane(c) /\ c.task = r.task /\ (UpTo(4, r.agents) # DocumentThrice => Led(c))
      BY <2>1, ClassifiedIsSane
    <2>3. Settle(i, c, q)
      BY <1>3, <1>4, <1>6
    <2> HIDE DEF c
    <2>4. Confirmed(c, i, r)
      BY <2>2 DEF Confirmed
    <2>5. Led(c) \/ (r.task = "Drafting" /\ UpTo(4, r.agents) = DocumentThrice)
      <3>1. CASE r.task = "Drafting"
        BY <2>2, <3>1
      <3>2. CASE r.task # "Drafting"
        BY <2>2, <3>2 DEF Led
      <3> QED
        BY <3>1, <3>2
    <2> QED
      BY <1>1, <1>5, <1>6, <2>3, <2>4, <2>5, SettleStep
  <1>7. ASSUME Settle(x.intent, [task |-> TaskOfIntent(x.intent), plan |-> <<TaskOfIntent(x.intent)>>], x.query),
               reply' = NoReply
        PROVE  IInv' /\ DraftingLeadsItsPlan'
    <2> DEFINE t == TaskOfIntent(i)
               c == [task |-> t, plan |-> <<t>>]
    <2>1. t \in Tasks /\ (t = "Drafting" => WantsDraft(i))
      <3>1. /\ t \in {"Legal_Concepts", "Non_legal", "Document", "Drafting", "Scenario", "SCI_Judgment",
                      "GST_Judgment", "Constitution", "Maxim", "Judgment", "Legislation"}
            /\ t = "Drafting" => Confident(i) /\ i.kind = "draft"
        BY DEF TaskOfIntent
      <3> QED
        BY <3>1, Names DEF WantsDraft
    <2>2. Settle(i, c, q)
      BY <1>3, <1>4, <1>7
    <2> HIDE DEF t
    <2>3. Sane(c) /\ Led(c) /\ c.task = t
      BY <2>1, AloneIsFine
    <2> HIDE DEF c
    <2>4. Confirmed(c, i, NoReply)
      BY <2>1, <2>3 DEF Confirmed
    <2> QED
      BY <1>1, <1>5, <1>7, <2>2, <2>3, <2>4, SettleStep
  <1> QED
    BY <1>2, <1>6, <1>7

LEMMA RewordStep ==
    ASSUME IInv, Reword
    PROVE  IInv' /\ (DraftingLeadsItsPlan => DraftingLeadsItsPlan')
  <1>1. /\ pc = "reword" /\ pc' = "planned" /\ request' = request /\ reply' = reply
        /\ intent' = intent /\ query' = query /\ decision' = decision
        /\ reworded' \subseteq AskedOf(query, decision.plan)
    BY DEF Reword
  <1>2. reworded' \subseteq ToSet(decision.plan)
    BY <1>1 DEF AskedOf
  <1>3. DraftsAreConfirmed' /\ CodesAreReadOnce'
    BY <1>1 DEF IInv, DraftsAreConfirmed, CodesAreReadOnce, Has
  <1>4. LongPromptReachesDraftingWhole'
    BY <1>1 DEF IInv, HandedOn, LongPromptReachesDraftingWhole, Has, AskedOf
  <1>5. Settled(decision)' /\ HandedOn(query)'
    BY <1>1 DEF IInv, Settled, Sane, Has, HandedOn
  <1>6. DraftingLeadsItsPlan => DraftingLeadsItsPlan'
    BY <1>1 DEF DraftingLeadsItsPlan, Has
  <1> QED
    BY <1>1, <1>2, <1>3, <1>4, <1>5, <1>6 DEF IInv

LEMMA Idle ==
    ASSUME IInv, UNCHANGED vars
    PROVE  IInv' /\ (DraftingLeadsItsPlan => DraftingLeadsItsPlan')
  BY DEF vars, IInv, Untouched, HandedOn, Settled, Sane, Has, DraftsAreConfirmed, CodesAreReadOnce,
     LongPromptReachesDraftingWhole, DraftingLeadsItsPlan

LEMMA Inductive == Spec => []IInv
  <1>1. IInv /\ [Next]_vars => IInv'
    <2> SUFFICES ASSUME IInv, [Next]_vars PROVE IInv'
      OBVIOUS
    <2>1. CASE Greet
      BY <2>1, GreetStep
    <2>2. CASE Understand
      BY <2>2, UnderstandStep
    <2>3. CASE Reword
      BY <2>3, RewordStep
    <2>4. CASE UNCHANGED vars
      BY <2>4, Idle
    <2> QED
      BY <2>1, <2>2, <2>3, <2>4 DEF Next
  <1> QED
    BY <1>1, InitInv, PTL DEF Spec

\* Whatever the two calls say, and also when both are silent, somebody answers,
\* and no more than four do.
THEOREM TypeCorrect == Spec => []TypeOK
  <1>1. IInv => TypeOK
    <2> SUFFICES ASSUME IInv PROVE TypeOK
      OBVIOUS
    <2>1. CASE pc = "understand"
      <3>1. decision.task = "Other" /\ decision.plan = <<>>
        BY <2>1 DEF IInv, Untouched
      <3>2. decision.task \in Tasks /\ ToSet(decision.plan) \subseteq Tasks
        BY <3>1, Names, NothingPlanned
      <3> QED
        BY <2>1, <3>2 DEF IInv, HandedOn, TypeOK
    <2>2. CASE pc # "understand"
      <3>1. decision.task \in Tasks /\ decision.plan \in Seq(Tasks) /\ decision.plan # <<>>
            /\ Len(decision.plan) <= 4
        BY <2>2 DEF IInv, Settled, Sane, Decision
      <3>2. ToSet(decision.plan) \subseteq Tasks /\ Len(decision.plan) \in Nat /\ Len(decision.plan) >= 1
        BY <3>1, NotEmpty
      <3> DEFINE n == Len(decision.plan)
      <3>3. n \in Nat /\ 1 <= n /\ n <= 4
        BY <3>1, <3>2
      <3> HIDE DEF n
      <3>4. n \in 1..4
        BY <3>3
      <3> QED
        BY <2>2, <3>1, <3>2, <3>4 DEF IInv, HandedOn, TypeOK, n
    <2> QED
      BY <2>1, <2>2
  <1> QED
    BY <1>1, Inductive, PTL

\* No list of agents, of whatever length, is reason enough for a draft.
THEOREM DraftsWereAskedFor == Spec => []DraftsAreConfirmed
  <1>1. IInv => DraftsAreConfirmed
    BY DEF IInv
  <1> QED
    BY <1>1, Inductive, PTL

\* No rule, nor the order of the rules, puts both indexes in one plan.
THEOREM CodesOnce == Spec => []CodesAreReadOnce
  <1>1. IInv => CodesAreReadOnce
    BY DEF IInv
  <1> QED
    BY <1>1, Inductive, PTL

\* A long English prompt comes to the draft as it was written.
THEOREM LongPromptIsWhole == Spec => []LongPromptReachesDraftingWhole
  <1>1. IInv => LongPromptReachesDraftingWhole
    BY DEF IInv
  <1> QED
    BY <1>1, Inductive, PTL

\* Drafting leads every plan it is the task of, whatever list the classifier
\* gives, save the one of which the cut keeps Document three times.
THEOREM DraftingLeads == Spec => []DraftingLeadsItsPlan
  <1>1. IInv /\ DraftingLeadsItsPlan /\ [Next]_vars => DraftingLeadsItsPlan'
    <2> SUFFICES ASSUME IInv, DraftingLeadsItsPlan, [Next]_vars PROVE DraftingLeadsItsPlan'
      OBVIOUS
    <2>1. CASE Greet
      BY <2>1, GreetStep
    <2>2. CASE Understand
      BY <2>2, UnderstandStep
    <2>3. CASE Reword
      BY <2>3, RewordStep
    <2>4. CASE UNCHANGED vars
      BY <2>4, Idle
    <2> QED
      BY <2>1, <2>2, <2>3, <2>4 DEF Next
  <1> QED
    BY <1>1, InitInv, Inductive, PTL DEF Spec
=============================================================================
