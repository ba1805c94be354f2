-------------------------- MODULE ThreadGraphProofs --------------------------
(***************************************************************************)
(* What one run of the agent graph keeps true of its own turn, for any     *)
(* number of runs that overlap on the thread and checkpoint over each      *)
(* other, any agents, and any number of turns.                             *)
(***************************************************************************)
EXTENDS ThreadGraph, TLAPS

\* Channels c at a time when n turns have been received.
Dated(c, n) == c \in Chan /\ \A a \in Names : c.results[a].turn <= n

\* The results that turn t left in channels c.
OwnOf(c, t) == {a \in Names : c.results[a].turn = t}

\* The refiner has given turn t a text.
RefinedIn(c, t) == c.results["Refiner"] = [turn |-> t, outcome |-> "text"]

\* A final response that can be sent for turn t, if there is one.
Sendable(f, t) == f # NoFinal => f.turn = t

HoldsDraft(f, t) == <<"Drafting", t>> \in f.uses

\* Nothing has been written for turn t yet.
Fresh(c, v) == c.final = NoFinal /\ v.final = NoFinal

Unplanned(t, c, w, v) ==
    /\ OwnOf(c, t) = {}
    /\ Fresh(c, v) /\ ~v.draft
    /\ \A a \in Names : w[a] = NoResult

\* The agents of the plan write, and only they; none of it is merged.
Answering(t, c, w, v) ==
    /\ OwnOf(c, t) \cap Agents = {} /\ ~RefinedIn(c, t)
    /\ Fresh(c, v)
    /\ \A a \in Names : w[a] # NoResult => a \in FanOut(c) /\ w[a].turn = t
    /\ v.draft => w["Drafting"] # NoResult /\ w["Drafting"].outcome = "text"

Joined(t, c, v) ==
    /\ OwnOf(c, t) \cap Agents = FanOut(c) /\ ~RefinedIn(c, t)
    /\ Fresh(c, v)
    /\ v.draft => c.results["Drafting"] = [turn |-> t, outcome |-> "text"]

Written(t, c, v) ==
    /\ Sendable(c.final, t) /\ Sendable(v.final, t)
    /\ v.draft => v.final = c.final /\ HoldsDraft(c.final, t) /\ c.final # NoFinal
    /\ RefinedIn(c, t) => OwnOf(c, t) = {"Refiner"} /\ c.final.kind = "refined"

\* What the streaming endpoint noted is of this turn wherever the run stands.
Sent(t, rp) ==
    /\ Sendable(rp.final, t)
    /\ Endpoint = "stream" /\ rp.draft /\ rp.final # NoFinal => HoldsDraft(rp.final, t)

\* Run at node p serves turn t of n, with channels c, unmerged results w, notes
\* v and reply rp.
Knows(p, t, n, c, w, v, rp) ==
    /\ p \in Nodes \cup {"idle", "answered"} /\ t \in 0..MaxTurns /\ t <= n
    /\ Dated(c, n) /\ w \in [Names -> Result] /\ v \in View /\ rp \in View
    /\ p \in Nodes => t > 0
    /\ p \in {"guardrail_input", "blocked_response", "memory", "orchestrator_plan"}
          => Unplanned(t, c, w, v)
    /\ p = "agents" => Answering(t, c, w, v)
    /\ p = "orchestrator_synthesize" => Joined(t, c, v)
    /\ p \in {"guardrail_output", "end"} => Written(t, c, v)
    /\ p = "end" => c.final.turn = t
    /\ Sent(t, rp)

IInv ==
    /\ turns \in 0..MaxTurns
    /\ Dated(saved, turns)
    /\ pc = [r \in Runs |-> pc[r]] /\ turn = [r \in Runs |-> turn[r]]
    /\ query \in [Runs -> Queries \cup {"ask"}]
    /\ chan = [r \in Runs |-> chan[r]] /\ wrote = [r \in Runs |-> wrote[r]]
    /\ view = [r \in Runs |-> view[r]] /\ reply = [r \in Runs |-> reply[r]]
    /\ \A r \in Runs : Knows(pc[r], turn[r], turns, chan[r], wrote[r], view[r], reply[r])

-----------------------------------------------------------------------------
LEMMA Numbers == MaxTurns \in Nat
  BY ThreadGraphAssumption

LEMMA Turns ==
    ASSUME NEW c, NEW n, Dated(c, n), NEW a \in Names
    PROVE  c.results[a] \in Result /\ c.results[a].turn \in Nat /\ c.results[a].turn <= n
<1>1. c.results[a] \in Result
  BY DEF Dated, Chan
<1>2. c.results[a].turn \in 0..MaxTurns
  BY <1>1 DEF Result
<1> QED
  BY <1>1, <1>2, Numbers DEF Dated

\* That turns go by leaves what a run knows true.
LEMMA LaterStill ==
    ASSUME NEW p, NEW t, NEW n \in Nat, NEW m \in Nat, n <= m, NEW c, NEW w, NEW v, NEW rp,
           Knows(p, t, n, c, w, v, rp)
    PROVE  Knows(p, t, m, c, w, v, rp)
<1>1. Dated(c, m)
  <2>1. Dated(c, n) /\ c \in Chan
    BY DEF Knows, Dated
  <2>2. \A a \in Names : c.results[a].turn \in Nat /\ c.results[a].turn <= n
    BY <2>1, Turns
  <2> QED
    BY <2>1, <2>2 DEF Dated
<1>2. t \in Nat /\ t <= n
  BY Numbers DEF Knows
<1> QED
  BY <1>1, <1>2 DEF Knows

\* The run r that takes a step; the others do not move.
LEMMA OneRun ==
    ASSUME IInv, NEW r \in Runs, NEW p, NEW t, NEW c, NEW w, NEW v, NEW rp,
           turns' \in 0..MaxTurns, turns <= turns', Dated(saved', turns'),
           query' \in [Runs -> Queries \cup {"ask"}],
           pc' = [pc EXCEPT ![r] = p], turn' = [turn EXCEPT ![r] = t],
           chan' = [chan EXCEPT ![r] = c], wrote' = [wrote EXCEPT ![r] = w],
           view' = [view EXCEPT ![r] = v], reply' = [reply EXCEPT ![r] = rp],
           Knows(p, t, turns', c, w, v, rp)
    PROVE  IInv'
<1>1. ASSUME NEW o \in Runs, o # r
      PROVE  Knows(pc'[o], turn'[o], turns', chan'[o], wrote'[o], view'[o], reply'[o])
  <2>1. /\ pc'[o] = pc[o] /\ turn'[o] = turn[o] /\ chan'[o] = chan[o]
        /\ wrote'[o] = wrote[o] /\ view'[o] = view[o] /\ reply'[o] = reply[o]
    BY <1>1 DEF IInv
  <2>2. Knows(pc[o], turn[o], turns, chan[o], wrote[o], view[o], reply[o])
    BY DEF IInv
  <2>3. turns \in Nat /\ turns' \in Nat
    BY Numbers DEF IInv
  <2>4. Knows(pc[o], turn[o], turns', chan[o], wrote[o], view[o], reply[o])
    BY <2>2, <2>3, LaterStill
  <2> QED
    BY <2>1, <2>4
<1>2. /\ pc'[r] = p /\ turn'[r] = t /\ chan'[r] = c
      /\ wrote'[r] = w /\ view'[r] = v /\ reply'[r] = rp
  BY DEF IInv
<1>3. /\ pc' = [o \in Runs |-> pc'[o]] /\ turn' = [o \in Runs |-> turn'[o]]
      /\ chan' = [o \in Runs |-> chan'[o]] /\ wrote' = [o \in Runs |-> wrote'[o]]
      /\ view' = [o \in Runs |-> view'[o]] /\ reply' = [o \in Runs |-> reply'[o]]
  BY DEF IInv
<1>4. \A o \in Runs : Knows(pc'[o], turn'[o], turns', chan'[o], wrote'[o], view'[o], reply'[o])
  BY <1>1, <1>2
<1> QED
  BY <1>3, <1>4 DEF IInv

-----------------------------------------------------------------------------
\* Nothing stands in channels or views that have just been made.
LEMMA Empties ==
    /\ NoResult \in Result /\ NoFinal \in Final /\ NoIntent \in Intent
    /\ NoView \in View /\ EmptyChan \in Chan
    /\ [a \in Names |-> NoResult] \in [Names -> Result]
    /\ NoView.final = NoFinal /\ NoView.draft = FALSE /\ NoFinal.turn = 0
    /\ NoResult.turn = 0
<1>1. 0 \in 0..MaxTurns
  BY Numbers
<1>2. NoResult \in Result /\ NoIntent \in Intent /\ NoFinal \in Final
  BY <1>1 DEF NoResult, Result, NoFinal, Final, Kinds, NoIntent, Intent
<1>3. NoView \in View
  BY <1>2 DEF NoView, View
<1>4. EmptyChan \in Chan
  BY <1>2 DEF EmptyChan, Chan
<1> QED
  BY <1>2, <1>3, <1>4 DEF NoView, NoFinal, NoResult

LEMMA NothingSent == ASSUME NEW t PROVE Sent(t, NoView)
  BY Empties DEF Sent, Sendable

LEMMA Names3 == /\ "Drafting" \in Names /\ "Refiner" \in Names /\ "Refiner" \notin Agents
                /\ "Drafting" \in Agents /\ Agents \subseteq Names
  BY ThreadGraphAssumption DEF Names

-----------------------------------------------------------------------------
\* A new turn: no channel of the thread holds a result of it.
LEMMA BeginStep == ASSUME IInv, NEW r \in Runs, Begin(r) PROVE IInv'
<1>1. PICK q \in Queries, f \in Files :
          /\ query' = [query EXCEPT ![r] = q]
          /\ Superstep(r, InputWrite(saved, f), "guardrail_input")
  BY DEF Begin
<1> DEFINE c == InputWrite(saved, f)
           w == [a \in Names |-> NoResult]
<1>2. turns' = turns + 1 /\ turns' \in 0..MaxTurns /\ turns <= turns' /\ turns \in Nat
  BY Numbers DEF Begin, IInv
<1>3. c \in Chan /\ c.results = saved.results /\ c.final = NoFinal
  BY ThreadGraphAssumption, Empties DEF InputWrite, IInv, Dated, Chan
<1>4. \A a \in Names : saved.results[a].turn \in Nat /\ saved.results[a].turn <= turns
  BY Turns DEF IInv
<1> HIDE DEF c
<1>5. Dated(c, turns') /\ OwnOf(c, turns + 1) = {}
  BY <1>2, <1>3, <1>4 DEF Dated, OwnOf
<1>6. Unplanned(turns + 1, c, w, NoView)
  BY <1>3, <1>5, Empties DEF Unplanned, Fresh
<1>7. Knows("guardrail_input", turns + 1, turns', c, w, NoView, NoView)
  BY <1>2, <1>5, <1>6, Empties, NothingSent DEF Knows, Nodes
<1>8. query' \in [Runs -> Queries \cup {"ask"}]
  BY <1>1 DEF IInv
<1>9. saved' = c /\ chan' = [chan EXCEPT ![r] = c] /\ pc' = [pc EXCEPT ![r] = "guardrail_input"]
  BY <1>1 DEF Superstep, c
<1> QED
  BY <1>2, <1>5, <1>7, <1>8, <1>9, OneRun DEF Begin

-----------------------------------------------------------------------------
(* Supersteps *)

LEMMA Mine ==
    ASSUME IInv, NEW r \in Runs
    PROVE  /\ Knows(pc[r], turn[r], turns, chan[r], wrote[r], view[r], reply[r])
           /\ Dated(chan[r], turns) /\ chan[r] \in Chan
           /\ turns \in Nat /\ turns \in 0..MaxTurns
           /\ turn = [turn EXCEPT ![r] = turn[r]] /\ wrote = [wrote EXCEPT ![r] = wrote[r]]
           /\ view = [view EXCEPT ![r] = view[r]] /\ reply = [reply EXCEPT ![r] = reply[r]]
           /\ chan = [chan EXCEPT ![r] = chan[r]]
<1>1. turns \in Nat /\ turns \in 0..MaxTurns
  BY Numbers DEF IInv
<1>2. turn = [turn EXCEPT ![r] = turn[r]] /\ wrote = [wrote EXCEPT ![r] = wrote[r]]
  BY DEF IInv
<1>3. view = [view EXCEPT ![r] = view[r]] /\ reply = [reply EXCEPT ![r] = reply[r]]
  BY DEF IInv
<1>4. chan = [chan EXCEPT ![r] = chan[r]]
  BY DEF IInv
<1>5. Knows(pc[r], turn[r], turns, chan[r], wrote[r], view[r], reply[r])
  BY DEF IInv
<1>6. Dated(chan[r], turns) /\ chan[r] \in Chan
  BY <1>5 DEF Knows, Dated
<1> QED
  BY <1>1, <1>2, <1>3, <1>4, <1>5, <1>6

\* A superstep of run r changes nothing of the others, though it is the latest
\* checkpoint of the thread.
LEMMA SuperstepKeeps ==
    ASSUME IInv, NEW r \in Runs, NEW c, NEW next, NEW w, NEW v, Superstep(r, c, next),
           UNCHANGED <<turns, turn, query, reply>>,
           wrote' = [wrote EXCEPT ![r] = w], view' = [view EXCEPT ![r] = v],
           Knows(next, turn[r], turns, c, w, v, reply[r])
    PROVE  IInv'
<1>1. Dated(c, turns)
  BY DEF Knows
<1>2. turn' = [turn EXCEPT ![r] = turn[r]] /\ reply' = [reply EXCEPT ![r] = reply[r]]
  BY Mine
<1>3. turns' = turns /\ turns' \in 0..MaxTurns /\ turns <= turns'
  BY Mine
<1>4. query' \in [Runs -> Queries \cup {"ask"}]
  BY DEF IInv
<1>5. Dated(saved', turns') /\ pc' = [pc EXCEPT ![r] = next] /\ chan' = [chan EXCEPT ![r] = c]
  BY <1>1, <1>3 DEF Superstep
<1>6. Knows(next, turn[r], turns', c, w, v, reply[r])
  BY <1>3
<1> QED
  BY <1>2, <1>3, <1>4, <1>5, <1>6, OneRun

LEMMA GuardrailInputStep == ASSUME IInv, NEW r \in Runs, GuardrailInput(r) PROVE IInv'
<1> DEFINE b == query[r] = "empty"
           c == [chan[r] EXCEPT !.blocked = b]
           v == [view[r] EXCEPT !.blocked = b]
           n == IF b THEN "blocked_response" ELSE "memory"
<1>1. /\ Superstep(r, c, n) /\ view' = [view EXCEPT ![r] = v] /\ pc[r] = "guardrail_input"
      /\ UNCHANGED <<turns, turn, query, wrote, reply>>
  BY DEF GuardrailInput
<1>2. /\ Knows(pc[r], turn[r], turns, chan[r], wrote[r], view[r], reply[r])
      /\ chan[r] \in Chan /\ view[r] \in View /\ wrote' = [wrote EXCEPT ![r] = wrote[r]]
  BY <1>1, Mine DEF Knows
<1>3. /\ c \in Chan /\ c.results = chan[r].results /\ c.final = chan[r].final
      /\ v \in View /\ v.final = view[r].final /\ v.draft = view[r].draft
  BY <1>2 DEF Chan, View
<1>4. n \in {"blocked_response", "memory"}
  OBVIOUS
<1> HIDE DEF c, v, n, b
<1>5. Dated(c, turns) /\ Unplanned(turn[r], c, wrote[r], v)
  BY <1>1, <1>2, <1>3 DEF Knows, Dated, Unplanned, Fresh, OwnOf
<1>6. Knows(n, turn[r], turns, c, wrote[r], v, reply[r])
  BY <1>1, <1>2, <1>3, <1>4, <1>5 DEF Knows, Nodes
<1> QED
  BY <1>1, <1>2, <1>6, SuperstepKeeps

LEMMA BlockedResponseStep == ASSUME IInv, NEW r \in Runs, BlockedResponse(r) PROVE IInv'
<1> DEFINE f == [turn |-> turn[r], kind |-> "blocked", uses |-> {}, guarded |-> FALSE]
           c == [chan[r] EXCEPT !.final = f]
           v == [view[r] EXCEPT !.final = f]
<1>1. /\ Superstep(r, c, "guardrail_output") /\ view' = [view EXCEPT ![r] = v]
      /\ pc[r] = "blocked_response" /\ UNCHANGED <<turns, turn, query, wrote, reply>>
  BY DEF BlockedResponse
<1>2. /\ Knows(pc[r], turn[r], turns, chan[r], wrote[r], view[r], reply[r])
      /\ chan[r] \in Chan /\ view[r] \in View /\ wrote' = [wrote EXCEPT ![r] = wrote[r]]
      /\ turn[r] \in 0..MaxTurns /\ turn[r] > 0
  BY <1>1, Mine DEF Knows, Nodes
<1>3. f \in Final /\ f.turn = turn[r]
  BY <1>2 DEF Final, Kinds
<1> HIDE DEF f
<1>4. /\ c \in Chan /\ c.results = chan[r].results /\ c.final = f
      /\ v \in View /\ v.final = f /\ v.draft = view[r].draft
  BY <1>2, <1>3 DEF Chan, View
<1> HIDE DEF c, v
<1>5. Dated(c, turns) /\ OwnOf(c, turn[r]) = {} /\ v.draft = FALSE
  BY <1>1, <1>2, <1>4 DEF Knows, Dated, Unplanned, OwnOf, View
<1>6. ~RefinedIn(c, turn[r])
  BY <1>5, Names3 DEF OwnOf, RefinedIn
<1>7. Written(turn[r], c, v)
  BY <1>3, <1>4, <1>5, <1>6 DEF Written, Sendable
<1>8. Knows("guardrail_output", turn[r], turns, c, wrote[r], v, reply[r])
  BY <1>2, <1>4, <1>5, <1>7 DEF Knows, Nodes
<1> QED
  BY <1>1, <1>2, <1>8, SuperstepKeeps

LEMMA MemoryStep == ASSUME IInv, NEW r \in Runs, Memory(r) PROVE IInv'
<1>1. pc[r] = "memory" /\ UNCHANGED <<turns, turn, query, wrote, view, reply>>
  BY DEF Memory
<1>2. /\ Knows(pc[r], turn[r], turns, chan[r], wrote[r], view[r], reply[r])
      /\ chan[r] \in Chan /\ wrote' = [wrote EXCEPT ![r] = wrote[r]]
      /\ view' = [view EXCEPT ![r] = view[r]]
  BY <1>1, Mine
<1>3. chan[r].file \in {"none", "text", "indexed"}
  BY <1>2 DEF Chan
<1>4. PICK f \in {"none", "text", "indexed"} :
          Superstep(r, [chan[r] EXCEPT !.file = f], "orchestrator_plan")
  BY <1>3, ThreadGraphAssumption DEF Memory
<1> DEFINE c == [chan[r] EXCEPT !.file = f]
<1>5. c \in Chan /\ c.results = chan[r].results /\ c.final = chan[r].final
  BY <1>2 DEF Chan
<1>6. Superstep(r, c, "orchestrator_plan")
  BY <1>4
<1> HIDE DEF c
<1>7. Dated(c, turns) /\ Unplanned(turn[r], c, wrote[r], view[r])
  BY <1>1, <1>2, <1>5 DEF Knows, Dated, Unplanned, Fresh, OwnOf
<1>8. Knows("orchestrator_plan", turn[r], turns, c, wrote[r], view[r], reply[r])
  BY <1>1, <1>2, <1>7 DEF Knows, Nodes
<1>9. UNCHANGED <<turns, turn, query, reply>>
  BY <1>1
<1> QED
  BY <1>2, <1>6, <1>8, <1>9, SuperstepKeeps

-----------------------------------------------------------------------------
(* Planning *)

\* A plan names agents and an intent; no agent has answered yet.
LEMMA PlanStep == ASSUME IInv, NEW r \in Runs, Plan(r) PROVE IInv'
<1> DEFINE asked == query[r] = "ask"
<1>0. PICK planned \in SUBSET Agents \ {{}}, table, language \in BOOLEAN :
          \E task \in planned :
            LET asks == query[r] = "ask"
                i == IF asks THEN [turn |-> turn[r], table |-> table, language |-> language]
                             ELSE chan[r].intent
            IN /\ asks \/ (planned = {task} /\ task \in Supporting /\ ~table /\ ~language)
               /\ "Drafting" \in planned => task = "Drafting"
               /\ Superstep(r, [chan[r] EXCEPT !.task = task, !.planned = planned,
                                               !.intent = i], "agents")
               /\ view' = [view EXCEPT ![r].intent = IF asks THEN i ELSE @]
  BY Zenon DEF Plan
<1>1. PICK task \in planned :
          LET i == IF asked THEN [turn |-> turn[r], table |-> table, language |-> language]
                            ELSE chan[r].intent
          IN /\ Superstep(r, [chan[r] EXCEPT !.task = task, !.planned = planned,
                                             !.intent = i], "agents")
             /\ view' = [view EXCEPT ![r].intent = IF asked THEN i ELSE @]
  BY <1>0, Zenon
<1> DEFINE i == IF asked THEN [turn |-> turn[r], table |-> table, language |-> language]
                         ELSE chan[r].intent
           j == IF asked THEN i ELSE view[r].intent
           c == [chan[r] EXCEPT !.task = task, !.planned = planned, !.intent = i]
           v == [view[r] EXCEPT !.intent = j]
<1>2. /\ Superstep(r, c, "agents") /\ view' = [view EXCEPT ![r] = v]
      /\ pc[r] = "orchestrator_plan" /\ UNCHANGED <<turns, turn, query, wrote, reply>>
  BY <1>1 DEF Plan
<1>3. /\ Knows(pc[r], turn[r], turns, chan[r], wrote[r], view[r], reply[r])
      /\ chan[r] \in Chan /\ view[r] \in View /\ wrote' = [wrote EXCEPT ![r] = wrote[r]]
      /\ turn[r] \in 0..MaxTurns
  BY <1>2, Mine DEF Knows
<1>4. i \in Intent /\ j \in Intent
  BY <1>3 DEF Intent, Chan, View
<1>5. task \in Names \cup {"", "Refine"} /\ planned \in SUBSET (Agents \cup {"Refine"})
  BY Names3
<1> HIDE DEF i, j
<1>6. /\ c \in Chan /\ c.results = chan[r].results /\ c.final = chan[r].final
      /\ v \in View /\ v.final = view[r].final /\ v.draft = view[r].draft
  BY <1>3, <1>4, <1>5 DEF Chan, View
<1> HIDE DEF c, v
<1>7. Dated(c, turns) /\ Unplanned(turn[r], c, wrote[r], v)
  BY <1>2, <1>3, <1>6 DEF Knows, Dated, Unplanned, Fresh, OwnOf
<1>8. ~RefinedIn(c, turn[r])
  BY <1>7, Names3 DEF Unplanned, OwnOf, RefinedIn
<1>9. Answering(turn[r], c, wrote[r], v)
  BY <1>7, <1>8 DEF Unplanned, Answering
<1>10. Knows("agents", turn[r], turns, c, wrote[r], v, reply[r])
  BY <1>2, <1>3, <1>6, <1>7, <1>9 DEF Knows, Nodes
<1> QED
  BY <1>2, <1>3, <1>10, SuperstepKeeps

\* A refinement is the only result of its turn, and the answer if it has text.
LEMMA RefineStep == ASSUME IInv, NEW r \in Runs, Refine(r) PROVE IInv'
<1> DEFINE f(text) == IF text THEN [turn |-> turn[r], kind |-> "refined", uses |-> {},
                                    guarded |-> FALSE]
                              ELSE NoFinal
           g(text) == [turn |-> turn[r], outcome |-> IF text THEN "text" ELSE "empty"]
           c(text) == [chan[r] EXCEPT !.task = "Refine", !.planned = {"Refine"},
                                      !.results["Refiner"] = g(text), !.final = f(text)]
           u(text) == IF text THEN f(text) ELSE view[r].final
           v(text) == [view[r] EXCEPT !.final = u(text)]
<1>1. PICK text \in BOOLEAN :
          /\ Superstep(r, c(text), RouteRefine(text)) /\ view' = [view EXCEPT ![r] = v(text)]
  BY DEF Refine
<1>2. pc[r] = "orchestrator_plan" /\ UNCHANGED <<turns, turn, query, wrote, reply>>
  BY DEF Refine
<1>3. /\ Knows(pc[r], turn[r], turns, chan[r], wrote[r], view[r], reply[r])
      /\ chan[r] \in Chan /\ view[r] \in View /\ wrote' = [wrote EXCEPT ![r] = wrote[r]]
      /\ turn[r] \in 0..MaxTurns /\ turn[r] \in Nat /\ turn[r] <= turns /\ turn[r] > 0
  BY <1>2, Mine, Numbers DEF Knows, Nodes
<1>4. f(text) \in Final /\ g(text) \in Result /\ u(text) \in Final /\ g(text).turn = turn[r]
  BY <1>3, Empties DEF Final, Kinds, Result, View
<1>5. c(text) = [chan[r] EXCEPT !.task = "Refine", !.planned = {"Refine"},
                     !.results = [chan[r].results EXCEPT !["Refiner"] = g(text)],
                     !.final = f(text)]
  BY <1>3 DEF Chan
<1> HIDE DEF f, g, u
<1>6. [chan[r].results EXCEPT !["Refiner"] = g(text)] \in [Names -> Result]
  BY <1>3, <1>4 DEF Chan
<1>7. /\ c(text) \in Chan /\ c(text).final = f(text)
      /\ c(text).results = [chan[r].results EXCEPT !["Refiner"] = g(text)]
      /\ v(text) \in View /\ v(text).final = u(text) /\ v(text).draft = view[r].draft
  BY <1>3, <1>4, <1>5, <1>6 DEF Chan, View
<1> HIDE DEF c, v
<1>8. /\ c(text).results["Refiner"] = g(text)
      /\ \A a \in Names : a # "Refiner" => c(text).results[a] = chan[r].results[a]
  BY <1>3, <1>7, Names3 DEF Chan
<1>9. Unplanned(turn[r], chan[r], wrote[r], view[r]) /\ Dated(chan[r], turns)
  BY <1>2, <1>3 DEF Knows
<1>10. Dated(c(text), turns)
  BY <1>3, <1>4, <1>7, <1>8, <1>9 DEF Dated
<1>11. OwnOf(c(text), turn[r]) = {"Refiner"}
  BY <1>4, <1>8, <1>9, Names3 DEF OwnOf, Unplanned
<1>12. CASE text
  <2>1. u(text) = f(text) /\ f(text).turn = turn[r] /\ f(text).kind = "refined"
    BY <1>12 DEF u, f
  <2>2. Written(turn[r], c(text), v(text))
    BY <1>7, <1>9, <1>11, <2>1 DEF Written, Sendable, Unplanned
  <2>3. Knows("guardrail_output", turn[r], turns, c(text), wrote[r], v(text), reply[r])
    BY <1>2, <1>3, <1>7, <1>10, <2>2 DEF Knows, Nodes
  <2> QED
    BY <1>1, <1>2, <1>3, <1>12, <2>3, SuperstepKeeps DEF RouteRefine
<1>13. CASE ~text
  <2>1. f(text) = NoFinal /\ u(text) = view[r].final /\ g(text).outcome = "empty"
    BY <1>13 DEF f, u, g
  <2>2. ~RefinedIn(c(text), turn[r])
    BY <1>8, <2>1 DEF RefinedIn
  <2>3. Answering(turn[r], c(text), wrote[r], v(text))
    BY <1>7, <1>9, <1>11, <2>1, <2>2, Names3 DEF Answering, Unplanned, Fresh
  <2>4. Knows("agents", turn[r], turns, c(text), wrote[r], v(text), reply[r])
    BY <1>2, <1>3, <1>7, <1>10, <2>3 DEF Knows, Nodes
  <2> QED
    BY <1>1, <1>2, <1>3, <1>13, <2>4, SuperstepKeeps DEF RouteRefine
<1> QED
  BY <1>12, <1>13

-----------------------------------------------------------------------------
(* The agents *)

LEMMA FanOutAgents == ASSUME NEW c PROVE FanOut(c) \subseteq Agents
  BY ThreadGraphAssumption DEF FanOut

\* An agent of the plan files a result of this turn; nothing is merged yet.
LEMMA AgentStep ==
    ASSUME IInv, NEW r \in Runs, NEW a \in Agents, AgentAnswers(r, a)
    PROVE  IInv'
<1>1. PICK o \in {"text", "empty", "error", "apology"} :
          /\ wrote' = [wrote EXCEPT ![r][a] = [turn |-> turn[r], outcome |-> o]]
          /\ view' = [view EXCEPT ![r].draft = @ \/ IsDraft(a, o)]
  BY DEF AgentAnswers
<1> DEFINE x == [turn |-> turn[r], outcome |-> o]
           w == [wrote[r] EXCEPT ![a] = x]
           d == view[r].draft \/ IsDraft(a, o)
           v == [view[r] EXCEPT !.draft = d]
<1>2. /\ pc[r] = "agents" /\ a \in FanOut(chan[r])
      /\ UNCHANGED <<turns, saved, pc, turn, query, chan, reply>>
  BY DEF AgentAnswers
<1>3. /\ Knows(pc[r], turn[r], turns, chan[r], wrote[r], view[r], reply[r])
      /\ view[r] \in View /\ wrote[r] \in [Names -> Result]
      /\ turn[r] \in 0..MaxTurns
  BY Mine DEF Knows
<1>4. wrote' = [wrote EXCEPT ![r] = w] /\ view' = [view EXCEPT ![r] = v]
  BY <1>1
<1>5. x \in Result /\ d \in BOOLEAN /\ x # NoResult /\ x.turn = turn[r] /\ x.outcome = o
  BY <1>3 DEF Result, View, IsDraft, NoResult
<1> HIDE DEF x, d
<1>6. /\ w \in [Names -> Result] /\ w[a] = x
      /\ \A b \in Names : b # a => w[b] = wrote[r][b]
  BY <1>3, <1>5, Names3
<1>7. v \in View /\ v.final = view[r].final /\ v.draft = d
  BY <1>3, <1>5 DEF View
<1> HIDE DEF w, v
<1>8. Answering(turn[r], chan[r], wrote[r], view[r])
  BY <1>2, <1>3 DEF Knows
<1>9. d => w["Drafting"] # NoResult /\ w["Drafting"].outcome = "text"
  <2>1. CASE a = "Drafting"
    <3>1. ~(view[r].draft /\ ~IsDraft(a, o)) \/ wrote[r][a] # NoResult
      BY <1>8, <2>1 DEF Answering
    <3>2. wrote[r][a] = NoResult
      BY DEF AgentAnswers
    <3>3. d => o = "text"
      BY <3>1, <3>2, <1>8, <2>1 DEF d, IsDraft, Answering
    <3> QED
      BY <1>5, <1>6, <2>1, <3>3
  <2>2. CASE a # "Drafting"
    <3>1. d => view[r].draft
      BY <2>2 DEF d, IsDraft
    <3> QED
      BY <1>6, <1>8, <2>2, <3>1, Names3 DEF Answering
  <2> QED
    BY <2>1, <2>2
<1>10. \A b \in Names : w[b] # NoResult => b \in FanOut(chan[r]) /\ w[b].turn = turn[r]
  BY <1>2, <1>5, <1>6, <1>8 DEF Answering
<1>11. Answering(turn[r], chan[r], w, v)
  BY <1>7, <1>8, <1>9, <1>10 DEF Answering, Fresh
<1>12. Knows("agents", turn[r], turns, chan[r], w, v, reply[r])
  BY <1>2, <1>3, <1>6, <1>7, <1>11 DEF Knows, Nodes
<1>13. /\ turn' = [turn EXCEPT ![r] = turn[r]] /\ reply' = [reply EXCEPT ![r] = reply[r]]
       /\ chan' = [chan EXCEPT ![r] = chan[r]] /\ turns' = turns
       /\ turns \in 0..MaxTurns /\ turns <= turns
  BY <1>2, Mine
<1>14. pc' = [pc EXCEPT ![r] = "agents"]
  BY <1>2 DEF IInv
<1>15. Dated(saved', turns') /\ query' \in [Runs -> Queries \cup {"ask"}]
  BY <1>2 DEF IInv
<1> QED
  BY <1>4, <1>12, <1>13, <1>14, <1>15, OneRun

\* The step ends when all agents of the plan have written: their results, and
\* no others of this turn, are in the channel.
LEMMA JoinStep == ASSUME IInv, NEW r \in Runs, AgentsJoin(r) PROVE IInv'
<1> DEFINE m == Merge(chan[r].results, wrote[r])
           c == [chan[r] EXCEPT !.results = m]
           w == [a \in Names |-> NoResult]
           t == turn[r]
<1>1. /\ pc[r] = "agents" /\ StepIsOver(r) /\ Superstep(r, c, "orchestrator_synthesize")
      /\ wrote' = [wrote EXCEPT ![r] = w] /\ UNCHANGED <<turns, turn, query, view, reply>>
  BY DEF AgentsJoin
<1>2. /\ Knows(pc[r], t, turns, chan[r], wrote[r], view[r], reply[r])
      /\ chan[r] \in Chan /\ wrote[r] \in [Names -> Result] /\ view[r] \in View
      /\ t <= turns /\ t \in Nat /\ t > 0
      /\ view' = [view EXCEPT ![r] = view[r]]
  BY <1>1, Mine, Numbers DEF Knows, Nodes
<1>3. Answering(t, chan[r], wrote[r], view[r]) /\ Dated(chan[r], turns)
  BY <1>1, <1>2 DEF Knows
<1>4. /\ m \in [Names -> Result]
      /\ \A a \in Names : m[a] = IF wrote[r][a] = NoResult THEN chan[r].results[a] ELSE wrote[r][a]
  BY <1>2 DEF Merge, Chan
<1> HIDE DEF m
<1>5. c \in Chan /\ c.results = m /\ c.final = chan[r].final /\ c.planned = chan[r].planned
  BY <1>2, <1>4 DEF Chan
<1>6. FanOut(c) = FanOut(chan[r]) /\ FanOut(c) \subseteq Agents
  BY <1>5, FanOutAgents DEF FanOut
<1> HIDE DEF c
<1>7. ASSUME NEW a \in Names
      PROVE  /\ a \in FanOut(c) => m[a] = wrote[r][a] /\ m[a].turn = t
             /\ a \notin FanOut(c) => m[a] = chan[r].results[a]
             /\ m[a].turn <= turns
  <2>1. CASE a \in FanOut(c)
    BY <1>1, <1>2, <1>3, <1>4, <1>6, <2>1 DEF StepIsOver, Answering
  <2>2. CASE a \notin FanOut(c)
    <3>1. wrote[r][a] = NoResult
      BY <1>3, <1>6, <2>2 DEF Answering
    <3> QED
      BY <1>3, <1>4, <2>2, <3>1 DEF Dated
  <2> QED
    BY <2>1, <2>2
<1>8. Dated(c, turns)
  BY <1>5, <1>7 DEF Dated
<1>9. OwnOf(c, t) \cap Agents = FanOut(c)
  BY <1>3, <1>5, <1>6, <1>7, Names3 DEF OwnOf, Answering
<1>10. ~RefinedIn(c, t)
  BY <1>3, <1>5, <1>6, <1>7, Names3 DEF RefinedIn, Answering
<1>11. view[r].draft => c.results["Drafting"] = [turn |-> t, outcome |-> "text"]
  <2>1. SUFFICES ASSUME view[r].draft
                 PROVE  m["Drafting"] = [turn |-> t, outcome |-> "text"]
    BY <1>5
  <2>2. wrote[r]["Drafting"] # NoResult /\ wrote[r]["Drafting"].outcome = "text"
    BY <1>3, <2>1 DEF Answering
  <2>3. wrote[r]["Drafting"].turn = t /\ m["Drafting"] = wrote[r]["Drafting"]
    BY <1>3, <1>4, <2>2, Names3 DEF Answering
  <2>4. wrote[r]["Drafting"] \in Result
    BY <1>2, Names3
  <2> QED
    BY <2>2, <2>3, <2>4 DEF Result
<1>12. Joined(t, c, view[r])
  BY <1>3, <1>5, <1>9, <1>10, <1>11 DEF Joined, Answering, Fresh
<1>13. Knows("orchestrator_synthesize", t, turns, c, w, view[r], reply[r])
  BY <1>2, <1>8, <1>12, Empties DEF Knows, Nodes
<1> QED
  BY <1>1, <1>2, <1>13, SuperstepKeeps

-----------------------------------------------------------------------------
(* The synthesis *)

\* An answer is of a known kind and holds the text of agents with a result.
LEMMA AnswerParts ==
    ASSUME NEW c, NEW s \in Syntheses(c)
    PROVE  s[1] \in Kinds /\ s[2] \in SUBSET Names
<1>1. Valid(c) \in SUBSET Names
  BY DEF Valid
<1>2. CASE s \in LastResort(c)
  BY <1>2 DEF LastResort, Kinds
<1>3. CASE s = <<"verbatim", Valid(c)>>
  BY <1>1, <1>3 DEF Kinds
<1>4. CASE s \in DraftAnswers(c)
  BY <1>1, <1>4 DEF DraftAnswers, Kinds
<1>5. CASE s \in PrimaryAnswers(c) /\ PrimaryLeads(c)
  <2>1. CASE s = <<"primary", {Primary(c)}>>
    BY <1>1, <1>5, <2>1 DEF PrimaryLeads, Kinds
  <2>2. CASE s # <<"primary", {Primary(c)}>>
    <3>1. PICK kept \in SUBSET Valid(c) :
              s \in {<<"appended", kept>>, <<"merged", kept>>, <<"nothing", {}>>}
      BY <1>5, <2>2 DEF PrimaryAnswers
    <3> QED
      BY <1>1, <3>1 DEF Kinds
  <2> QED
    BY <2>1, <2>2
<1>6. CASE s \in MergedAnswers(c)
  BY <1>1, <1>6 DEF MergedAnswers, Kinds
<1> QED
  BY <1>2, <1>3, <1>4, <1>5, <1>6 DEF Syntheses

\* When Drafting has a valid result the answer holds it.
LEMMA DraftIsUsed ==
    ASSUME NEW c, NEW s \in Syntheses(c), "Drafting" \in Valid(c)
    PROVE  s[1] # "nothing" /\ "Drafting" \in s[2]
<1>1. CASE s = <<"verbatim", Valid(c)>>
  BY <1>1
<1>2. CASE s \in DraftAnswers(c)
  BY <1>2 DEF DraftAnswers
<1> QED
  BY <1>1, <1>2 DEF Syntheses

LEMMA SynthesizeStep == ASSUME IInv, NEW r \in Runs, Synthesize(r) PROVE IInv'
<1> DEFINE uses(s) == {<<a, chan[r].results[a].turn>> : a \in s[2]}
           f(s) == IF s[1] = "nothing" THEN NoFinal
                   ELSE [turn |-> turn[r], kind |-> s[1], guarded |-> FALSE, uses |-> uses(s)]
           u(s) == IF f(s) = NoFinal THEN view[r].final ELSE f(s)
           c(s) == [chan[r] EXCEPT !.final = f(s)]
           v(s) == [view[r] EXCEPT !.final = u(s)]
           t == turn[r]
<1>1. PICK s \in Syntheses(chan[r]) :
          Superstep(r, c(s), "guardrail_output") /\ view' = [view EXCEPT ![r] = v(s)]
  BY DEF Synthesize
<1>2. pc[r] = "orchestrator_synthesize" /\ UNCHANGED <<turns, turn, query, wrote, reply>>
  BY DEF Synthesize
<1>3. /\ Knows(pc[r], t, turns, chan[r], wrote[r], view[r], reply[r])
      /\ chan[r] \in Chan /\ view[r] \in View /\ wrote' = [wrote EXCEPT ![r] = wrote[r]]
      /\ t \in 0..MaxTurns /\ t > 0
  BY <1>2, Mine DEF Knows, Nodes
<1>4. Joined(t, chan[r], view[r]) /\ Dated(chan[r], turns)
  BY <1>2, <1>3 DEF Knows
<1>5. s[1] \in Kinds /\ s[2] \in SUBSET Names
  BY AnswerParts
<1>6. uses(s) \in SUBSET (Names \X (0..MaxTurns))
  <2>1. ASSUME NEW a \in Names PROVE chan[r].results[a].turn \in 0..MaxTurns
    BY <1>4, Turns DEF Result
  <2> QED
    BY <1>5, <2>1
<1> HIDE DEF uses
<1>7. /\ f(s) \in Final /\ u(s) \in Final
      /\ f(s) # NoFinal => f(s).turn = t
      /\ s[1] # "nothing" => f(s).uses = uses(s) /\ f(s).turn = t
  BY <1>3, <1>5, <1>6, Empties DEF Final, View
<1>8. /\ Sendable(f(s), t) /\ Sendable(u(s), t)
  BY <1>4, <1>7 DEF Joined, Fresh, Sendable
<1> HIDE DEF u
<1>9. /\ c(s) \in Chan /\ c(s).results = chan[r].results /\ c(s).final = f(s)
      /\ v(s) \in View /\ v(s).final = u(s) /\ v(s).draft = view[r].draft
  BY <1>3, <1>7 DEF Chan, View
<1> HIDE DEF c, v, f
<1>10. Dated(c(s), turns) /\ ~RefinedIn(c(s), t)
  BY <1>4, <1>9 DEF Dated, Joined, RefinedIn
<1>11. ASSUME view[r].draft
       PROVE  v(s).final = c(s).final /\ HoldsDraft(c(s).final, t) /\ c(s).final # NoFinal
  <2>1. chan[r].results["Drafting"] = [turn |-> t, outcome |-> "text"]
    BY <1>4, <1>11 DEF Joined
  <2>2. "Drafting" \in Valid(chan[r])
    BY <2>1, Names3 DEF Valid
  <2>3. s[1] # "nothing" /\ "Drafting" \in s[2]
    BY <2>2, DraftIsUsed
  <2>4. <<"Drafting", t>> \in uses(s)
    BY <2>1, <2>3 DEF uses
  <2>5. f(s).turn # 0
    BY <1>3, <1>7, <2>3
  <2>6. f(s) # NoFinal /\ u(s) = f(s)
    BY <2>5, Empties DEF u
  <2> QED
    BY <1>7, <1>9, <2>3, <2>4, <2>6 DEF HoldsDraft
<1>12. Written(t, c(s), v(s))
  BY <1>8, <1>9, <1>10, <1>11 DEF Written
<1>13. Knows("guardrail_output", t, turns, c(s), wrote[r], v(s), reply[r])
  BY <1>3, <1>9, <1>10, <1>12 DEF Knows, Nodes
<1> QED
  BY <1>1, <1>2, <1>3, <1>13, SuperstepKeeps

-----------------------------------------------------------------------------
(* The way out *)

\* The guardrail rewords what there is, or says something for it.
LEMMA GuardrailOutputStep == ASSUME IInv, NEW r \in Runs, GuardrailOutput(r) PROVE IInv'
<1> DEFINE f == IF chan[r].final = NoFinal
                THEN [turn |-> turn[r], kind |-> "message", uses |-> {}, guarded |-> TRUE]
                ELSE [chan[r].final EXCEPT !.guarded = TRUE]
           c == [chan[r] EXCEPT !.final = f]
           v == [view[r] EXCEPT !.final = f]
           t == turn[r]
<1>1. /\ Superstep(r, c, "end") /\ view' = [view EXCEPT ![r] = v]
      /\ pc[r] = "guardrail_output" /\ UNCHANGED <<turns, turn, query, wrote, reply>>
  BY DEF GuardrailOutput
<1>2. /\ Knows(pc[r], t, turns, chan[r], wrote[r], view[r], reply[r])
      /\ chan[r] \in Chan /\ view[r] \in View /\ wrote' = [wrote EXCEPT ![r] = wrote[r]]
      /\ t \in 0..MaxTurns /\ t > 0
  BY <1>1, Mine DEF Knows, Nodes
<1>3. Written(t, chan[r], view[r]) /\ Dated(chan[r], turns)
  BY <1>1, <1>2 DEF Knows
<1>4. chan[r].final \in Final
  BY <1>2 DEF Chan
<1>5. /\ f \in Final /\ f.turn = t
      /\ chan[r].final # NoFinal => f.uses = chan[r].final.uses /\ f.kind = chan[r].final.kind
  BY <1>2, <1>3, <1>4 DEF Final, Kinds, Written, Sendable
<1> HIDE DEF f
<1>6. /\ c \in Chan /\ c.results = chan[r].results /\ c.final = f
      /\ v \in View /\ v.final = f /\ v.draft = view[r].draft
  BY <1>2, <1>5 DEF Chan, View
<1> HIDE DEF c, v
<1>7. Dated(c, turns)
  BY <1>3, <1>6 DEF Dated
<1>8. v.draft => v.final = c.final /\ HoldsDraft(c.final, t) /\ c.final # NoFinal
  BY <1>2, <1>3, <1>5, <1>6, Empties DEF Written, HoldsDraft
<1>9. RefinedIn(c, t) => OwnOf(c, t) = {"Refiner"} /\ c.final.kind = "refined"
  <2>1. NoFinal.kind # "refined"
    BY DEF NoFinal
  <2> QED
    BY <1>3, <1>5, <1>6, <2>1 DEF Written, RefinedIn, OwnOf
<1>10. Written(t, c, v)
  BY <1>5, <1>6, <1>8, <1>9 DEF Written, Sendable
<1>11. Knows("end", t, turns, c, wrote[r], v, reply[r])
  BY <1>2, <1>5, <1>6, <1>7, <1>10 DEF Knows, Nodes
<1> QED
  BY <1>1, <1>2, <1>11, SuperstepKeeps

\* What the streaming endpoint has noted is of this turn at every node, and a
\* final response it noted after a draft holds the draft.
LEMMA NotesAreOwn ==
    ASSUME NEW p \in Nodes, NEW t, NEW n, NEW c, NEW w, NEW v, NEW rp,
           Knows(p, t, n, c, w, v, rp)
    PROVE  /\ Sendable(v.final, t)
           /\ v.draft /\ v.final # NoFinal => HoldsDraft(v.final, t)
<1>1. CASE p \in {"guardrail_input", "blocked_response", "memory", "orchestrator_plan"}
  BY <1>1 DEF Knows, Unplanned, Fresh, Sendable
<1>2. CASE p = "agents"
  BY <1>2 DEF Knows, Answering, Fresh, Sendable
<1>3. CASE p = "orchestrator_synthesize"
  BY <1>3 DEF Knows, Joined, Fresh, Sendable
<1>4. CASE p \in {"guardrail_output", "end"}
  BY <1>4 DEF Knows, Written
<1> QED
  BY <1>1, <1>2, <1>3, <1>4 DEF Nodes

\* A run that is over only replies.
LEMMA ReplyKeeps ==
    ASSUME IInv, NEW r \in Runs, NEW w, NEW rp \in View, pc[r] \in Nodes,
           w \in [Names -> Result], Sent(turn[r], rp),
           UNCHANGED <<turns, saved, turn, query, chan, view>>,
           wrote' = [wrote EXCEPT ![r] = w],
           pc' = [pc EXCEPT ![r] = "answered"], reply' = [reply EXCEPT ![r] = rp]
    PROVE  IInv'
<1>1. Knows(pc[r], turn[r], turns, chan[r], wrote[r], view[r], reply[r])
  BY Mine
<1>2. Knows("answered", turn[r], turns', chan[r], w, view[r], rp)
  BY <1>1 DEF Knows, Nodes
<1>3. /\ turn' = [turn EXCEPT ![r] = turn[r]] /\ chan' = [chan EXCEPT ![r] = chan[r]]
      /\ view' = [view EXCEPT ![r] = view[r]]
      /\ turns' \in 0..MaxTurns /\ turns <= turns'
  BY Mine
<1>4. Dated(saved', turns') /\ query' \in [Runs -> Queries \cup {"ask"}]
  BY DEF IInv
<1> QED
  BY <1>2, <1>3, <1>4, OneRun

LEMMA BreakStep == ASSUME IInv, NEW r \in Runs, Break(r) PROVE IInv'
<1> DEFINE w == [a \in Names |-> NoResult]
           rp == IF Endpoint = "stream" THEN view[r] ELSE NoView
<1>1. /\ pc[r] \in Nodes /\ UNCHANGED <<turns, saved, turn, query, chan, view>>
      /\ wrote' = [wrote EXCEPT ![r] = w] /\ reply' = [reply EXCEPT ![r] = rp]
      /\ pc' = [pc EXCEPT ![r] = "answered"]
  BY DEF Break
<1>2. Knows(pc[r], turn[r], turns, chan[r], wrote[r], view[r], reply[r]) /\ view[r] \in View
  BY Mine DEF Knows
<1>3. Sent(turn[r], view[r])
  BY <1>1, <1>2, NotesAreOwn DEF Sent
<1>4. rp \in View /\ Sent(turn[r], rp) /\ w \in [Names -> Result]
  BY <1>2, <1>3, NothingSent, Empties
<1> HIDE DEF w, rp
<1> QED
  BY <1>1, <1>4, ReplyKeeps

LEMMA FinishStep == ASSUME IInv, NEW r \in Runs, Finish(r) PROVE IInv'
<1> DEFINE rp == IF Endpoint = "stream" THEN view[r] ELSE FinalState(r)
<1>1. /\ pc[r] = "end" /\ UNCHANGED <<turns, saved, turn, query, chan, view, wrote>>
      /\ reply' = [reply EXCEPT ![r] = rp] /\ pc' = [pc EXCEPT ![r] = "answered"]
  BY DEF Finish
<1>2. /\ Knows(pc[r], turn[r], turns, chan[r], wrote[r], view[r], reply[r]) /\ view[r] \in View
      /\ chan[r] \in Chan /\ wrote[r] \in [Names -> Result]
      /\ wrote' = [wrote EXCEPT ![r] = wrote[r]] /\ pc[r] \in Nodes
  BY <1>1, Mine DEF Knows, Nodes
<1>3. Sent(turn[r], view[r])
  BY <1>2, NotesAreOwn DEF Sent
<1>4. FinalState(r) \in View /\ FinalState(r).final.turn = turn[r]
  <2> DEFINE g == chan[r].final.guarded /\ ~chan[r].blocked
             d == ~chan[r].blocked /\ chan[r].results["Drafting"].outcome = "text"
  <2>1. /\ chan[r].final \in Final /\ chan[r].blocked \in BOOLEAN
        /\ chan[r].intent \in Intent /\ chan[r].final.turn = turn[r]
    BY <1>1, <1>2 DEF Chan, Knows
  <2>2. g \in BOOLEAN /\ d \in BOOLEAN
    BY <2>1 DEF Final
  <2>3. FinalState(r) = [final |-> [chan[r].final EXCEPT !.guarded = g], intent |-> chan[r].intent,
                         blocked |-> chan[r].blocked, draft |-> d]
    BY DEF FinalState
  <2> HIDE DEF g, d
  <2> DEFINE f == [chan[r].final EXCEPT !.guarded = g]
  <2>4. f \in Final /\ f.turn = turn[r]
    BY <2>1, <2>2 DEF Final
  <2>5. FinalState(r) = [final |-> f, intent |-> chan[r].intent,
                         blocked |-> chan[r].blocked, draft |-> d]
    BY <2>3
  <2> HIDE DEF f
  <2> QED
    BY <2>1, <2>2, <2>4, <2>5 DEF View
<1>5. CASE Endpoint = "stream"
  BY <1>1, <1>2, <1>3, <1>5, ReplyKeeps
<1>6. CASE Endpoint # "stream"
  <2>1. Sent(turn[r], FinalState(r))
    BY <1>4, <1>6 DEF Sent, Sendable
  <2> QED
    BY <1>1, <1>2, <1>4, <1>6, <2>1, ReplyKeeps
<1> QED
  BY <1>5, <1>6

-----------------------------------------------------------------------------
LEMMA Initial == Init => IInv
<1> SUFFICES ASSUME Init PROVE IInv
  OBVIOUS
<1>1. turns \in 0..MaxTurns /\ turns = 0
  BY Numbers DEF Init
<1>2. Dated(EmptyChan, 0)
  <2>1. \A a \in Names : EmptyChan.results[a].turn = 0
    BY Empties DEF EmptyChan
  <2> QED
    BY <2>1, Empties DEF Dated
<1>3. Sent(0, NoView)
  BY NothingSent
<1>4. Knows("idle", 0, 0, EmptyChan, [a \in Names |-> NoResult], NoView, NoView)
  BY <1>1, <1>2, <1>3, Empties DEF Knows, Nodes
<1>5. \A r \in Runs : Knows(pc[r], turn[r], turns, chan[r], wrote[r], view[r], reply[r])
  BY <1>1, <1>4 DEF Init
<1>6. Dated(saved, turns)
  BY <1>1, <1>2 DEF Init
<1> QED
  BY <1>1, <1>5, <1>6 DEF Init, IInv

LEMMA Inductive == IInv /\ [Next]_vars => IInv'
<1> SUFFICES ASSUME IInv, [Next]_vars PROVE IInv'
  OBVIOUS
<1>1. CASE UNCHANGED vars
  BY <1>1 DEF vars, IInv
<1>2. ASSUME NEW r \in Runs,
             \/ Begin(r) \/ GuardrailInput(r) \/ BlockedResponse(r) \/ Memory(r)
             \/ Plan(r) \/ Refine(r)
             \/ AgentsJoin(r) \/ Synthesize(r) \/ GuardrailOutput(r)
             \/ Break(r) \/ Finish(r)
      PROVE  IInv'
  BY <1>2, BeginStep, GuardrailInputStep, BlockedResponseStep, MemoryStep, PlanStep, RefineStep,
     JoinStep, SynthesizeStep, GuardrailOutputStep, BreakStep, FinishStep
<1>3. ASSUME NEW r \in Runs, NEW a \in Agents, AgentAnswers(r, a) PROVE IInv'
  BY <1>3, AgentStep
<1> QED
  BY <1>1, <1>2, <1>3 DEF Next

LEMMA Invariant == Spec => []IInv
  BY Initial, Inductive, PTL DEF Spec

\* The channels, the views and the replies of all runs keep their types, the
\* checkpoint they share included.
THEOREM TypeCorrect == Spec => []TypeOK
<1>1. IInv => TypeOK
  <2> SUFFICES ASSUME IInv PROVE TypeOK
    OBVIOUS
  <2>1. turns \in 0..MaxTurns /\ saved \in Chan /\ query \in [Runs -> Queries \cup {"ask"}]
    BY DEF IInv, Dated
  <2>2. ASSUME NEW r \in Runs
        PROVE  /\ pc[r] \in Nodes \cup {"idle", "answered"} /\ turn[r] \in 0..MaxTurns
               /\ chan[r] \in Chan /\ wrote[r] \in [Names -> Result]
               /\ view[r] \in View /\ reply[r] \in View
    BY DEF IInv, Knows, Dated
  <2>3. /\ pc \in [Runs -> Nodes \cup {"idle", "answered"}] /\ turn \in [Runs -> 0..MaxTurns]
        /\ chan \in [Runs -> Chan] /\ wrote \in [Runs -> [Names -> Result]]
        /\ view \in [Runs -> View] /\ reply \in [Runs -> View]
    BY <2>2 DEF IInv
  <2> QED
    BY <2>1, <2>3 DEF TypeOK
<1> QED
  BY <1>1, Invariant, PTL

\* The edge of add_edge([...agents], "orchestrator_synthesize") waits for all
\* agents of the plan, and finds results of this request from no other.
THEOREM SynthesisWaits == Spec => []SynthesisWaitsForThePlan
<1>1. IInv => SynthesisWaitsForThePlan
  BY DEF IInv, Knows, Joined, OwnOf, Own, SynthesisWaitsForThePlan
<1> QED
  BY <1>1, Invariant, PTL

\* Both endpoints send and save what the run of the request wrote, however many
\* requests overlap on the thread.
THEOREM RepliesAreOwn == Spec => []ReplyIsForThisRequest
<1>1. IInv => ReplyIsForThisRequest
  BY DEF IInv, Knows, Sent, Sendable, ReplyIsForThisRequest
<1> QED
  BY <1>1, Invariant, PTL

\* On the streaming endpoint a turn tagged "draft" is saved with an answer that
\* holds a draft of that turn.  (The batch endpoint may tag an older one.)
THEOREM TaggedDraftsAreDrafts ==
    ASSUME Endpoint = "stream"
    PROVE  Spec => []DraftTagMeansDraft
<1>1. IInv => DraftTagMeansDraft
  BY DEF IInv, Knows, Sent, HoldsDraft, DraftTagMeansDraft
<1> QED
  BY <1>1, Invariant, PTL

\* A refined answer stands alone (the regenerate branch of orchestrator_plan_node
\* and route_after_orchestrator).
THEOREM RefinementsStandAlone == Spec => []RefinementStandsAlone
<1>1. IInv => RefinementStandsAlone
  BY DEF IInv, Knows, Written, RefinedIn, OwnOf, Own, RefinementStandsAlone
<1> QED
  BY <1>1, Invariant, PTL
=============================================================================
