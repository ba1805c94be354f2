# Lawtech-AI: specifications, model checks and proofs

TLA+ modules for the parts of the Lawtech-AI backend that decide and remember:
how a request is planned, searched for, drafted, answered, cached and saved, and
what its workers, requests, threads and stores do to each other's state on the
way. Prompts, wording and formatting are not modelled; wherever a text decides
something, the models allow every outcome the code distinguishes.

    tlc -workers 2 -config ChatStore_concurrent.cfg MCChatStore   # check a run
    tlapm ChatStoreProofs.tla                                     # check the proofs

`PROJECT.json` lists the runs, what each property is for, and which source
lines each definition stands for.

## 1. The system

A request reaches a gunicorn worker (`core/gateway.py`) as batch
(`/pyapi/search`), streaming (`/pyapi/search/stream`) or multipart with files
(`/pyapi/chat`). The last two share `run_chat_pipeline` (`core/chat_runner.py`).

    client -> gateway -> [file_processor] -> response_cache -> agent graph -> chat_store -> response_cache
                               |                                  |
                        ChromaDB, thread_files           LangGraph checkpoint of the thread

    agent graph:  guardrail -> memory -> plan -> agents in parallel -> synthesis -> guardrail
                                                   |          |
                                        Elasticsearch    tokens to the client's page

| Component | State | Operations | What makes it correct | Modelled in |
|---|---|---|---|---|
| Chat history, `core/chat_store.py` (PostgreSQL class) | `threads`, `messages`, row locks | save a turn, summarise, load, expire | turns numbered once and without holes; the summary claims only turns it was made from; nothing falls between summary and recent turns | `ChatStore` |
| Planner, `agents/orchestrator.py` | none between calls | classify and extract side by side, reconcile, bound, vet, reword | a draft somebody asked for leads its plan, one nobody asked for is dropped; a long prompt arrives whole | `Planner` |
| Agent graph, `core/graph.py`, `core/state.py`, guardrail, memory and synthesis nodes | the channels of a thread, checkpointed after every superstep | guardrail, memory, plan, fan-out, join, synthesise, guardrail | an answer is this request's; synthesis waits for its plan; a draft tag means a draft | `ThreadGraph` |
| Search tools, `tools/`, and the circuit breaker of `core/clients.py` | failure count and open-until of a worker, under a lock | the queries of a search, one after another; available, failure, success | a caller meets only failures it handles; an outage costs few queries; the circuit is tried again | `SearchCalls`, `SearchPromise`, `SearchBackend` |
| Retrieval, Supreme Court, GST, concept, document, scenario and non-legal agents; `core/agent_fallback.py`; `core/streaming.py` | one stream and one page per request | search, search again, judge, stream with retries, web fallback, merge | what is not flagged rests on hits; the page shows the answer; every turn is answered | `Agents` |
| Drafting, `agents/drafting.py` | per-worker semaphore, the thread's previous draft | queue with heartbeat, modify, gather, judge, write in pairs | slots are neither lost nor invented; what is missing is named; every turn leaves | `Drafting` |
| Self-refine loop, `core/self_refine.py` | text, iteration, critique history | critique, refine, guards | a rewrite goes out unread only if the critic failed, and none cut short; it ends | `SelfRefine` |
| Request pipeline, `core/chat_runner.py`, `/pyapi/search` | one coroutine per request | cache lookup, graph under 300 s, respond, save, fill cache, done | `done` means remembered; every request ends | `TurnPipeline` |
| Response cache, `core/response_cache.py` | entries of one worker under a lock | get, set, evict | bounded; a hit is fresh, answers what was asked and is replayable | `TurnPipeline` |
| File uploads, `core/file_processor.py` | files on disk, ChromaDB collections, write semaphore | admit, extract, write with retries, save | a record tells the truth about its collection; slots balance; uploads end | `ThreadFiles` |
| Thread files, restore and delete (`chat_store`, `agents/memory.py`, gateway) | `thread_files` rows | save, load, restore, delete | what is deleted stays deleted | `ThreadFiles` |

Not modelled: the in-flight gate (`gateway.py:391`; one semaphore in one
function), the deadline (`core/deadline.py`; the models have no clock that spans
nested timeouts, so a timeout may fire at any time instead), the SQLite twin of
the store (development only), the choice of checkpointer, query rewriting,
language and sanitising (pure text), export, memo, table of authorities and
draft repair (formatting of finished answers), telemetry and quality scoring
(append-only logs nothing reads), authentication and settings, the embedding
service, third-party integrations, the web page and Word add-in, deployment.
`PROJECT.json` gives the reason for each.

Left out inside modelled parts: the scenario agent's semaphore of three, the
Gemini breakers (the Elasticsearch breaker with other numbers), reads of
ChromaDB, how text is extracted (OCR, tables, compression), the choice of source
paragraphs for a section of a draft (off by default), what `validate_draft`
repairs, the telemetry tables of the store, integration URLs of a request.

What is hard in this code: calls into PostgreSQL from many processes, two
statements of one logical step with other writers between them, model calls of
seconds between a read and the write based on it; a conversation state that
outlives the request and that two requests may run on; eight rules that each
rewrite the plan the last one left; a breaker that threads read before a query
and write after it; agents that write to one page in parallel; pool threads that
go on after their awaiter has given up; timeouts in three layers; steps that
fail and are only logged; a cache whose key must hold everything that shapes an
answer. The list of hazards, each at its line and with the properties about it,
is in `PROJECT.json`.

## 2. The modules

How they fit together: `Planner` yields the plans that `ThreadGraph` takes as
free; `ThreadGraph` treats an agent as one step with any outcome, and `Agents`
and `Drafting` are those steps; `Agents` in turn takes the outcomes of a search
from `SearchCalls`, and `SearchBackend` shows that the searches, query by query,
have no others. `TurnPipeline` treats the graph and the store as what they
return. Two modules are abstract specifications: `SearchPromise` of a search, which
`SearchBackend` implements, and `ThreadLog` of the turns of a conversation, which
`ChatStore` implements.

### ChatStore, ThreadLog
A `Worker` is one thread-pool call of any process. Each SQL statement is an
action, because PostgreSQL runs at READ COMMITTED: `SaveUpsert` takes the row
lock and the number, `SaveCommit` inserts the message and commits, `SaveAbort`
and `WorkerCrash` roll back. The summary is three actions after the commit
(`SummaryStart`, `SummaryRead`, `SummaryWrite`), with the model call before the
last. `LoadRow`/`LoadMessages` are the two statements of `load_history`, and
`SweepMessages`/`SweepCommit` those of the expiry. `SweepRefused` is the foreign
key of `thread_files`. A text is the set of turns it tells of (`covers`). `lost` is
a history variable: turns that a sweep deleted while their thread stayed. The
retention window is the bit `stale`.

`ThreadLog` knows neither rows nor statements nor workers: a turn is recorded under
the next number and kept; a thread falls out of use; an expiry makes threads that
are out of use start over, and may cost any other its oldest turns, never the last.
`Log` in `ChatStore` maps to it: the count is `total_turns`, what is kept are the
numbers of the `messages` rows, out of use are the stale threads. A save is
recorded at its commit, an expiry happens at its commit, and everything else is
invisible.

### Planner
`Understand` runs the two model calls of `orchestrator_plan_node` side by side;
each may fail, alone or with the other. `Planned` is the composition, in the
code's order, of the rules that rewrite the decision: `KeepsDrafting`,
`AboutFile`, `ReadsFile`, `Enriched`, `Reconciled` (citation agents), `Bounded`
(the cap of four), `Vetted` (the drafting guards), `Reviewed`. `Reword` is the
third call, which words the query for each agent and has a length limit of its
own. A query is its length class and whether it is still what the user wrote;
an intent is what the rules read of it. What a regular expression finds in a text
is a free bit of the request.

### SearchCalls, SearchPromise, SearchBackend
`SearchCalls` writes down each search of Elasticsearch as a record: whether it
passes the breaker, the orders of its queries, which failures of which query it
swallows, whether a failure comes back as a text. `Outcomes` follows from that.
`SearchPromise` says that a search, once called, returns one of its outcomes; it
knows a search by nothing else (its constant `Outcomes`). In `SearchBackend` a
query that found something, or failed, skips those of the same kind that follow
it (`Without`).
`SearchBackend` runs the searches query by query in threads (`Ask`, `Answer`,
`Refuse`, `Lose`, `Return`) under the shared breaker (`failure_count`,
`open_for`): the breaker is read when a query is sent and written when its answer
is back, so an answer of one period arrives in another. `lost` is a history
variable: queries lost in transport since an answer came or an open period ended.

### Agents
One turn on the streaming endpoint. Each writer of `plan` and the orchestrator
goes through its handler: `LookUp` (first search), `check_retrieval_relevance`,
the second search, `Token`/`StreamFails`/`Generated` (the attempts of
`stream_chain_response`, each with a `token_reset` where the code sends one),
`web_search_fallback` with its retries, `React` for the two agents that drive
tools themselves. `bubble` is the text on the page, built by the events in the
order they were written. When all are done, `Synthesize` answers with one text,
with a merge it streams, or with a web search of the orchestrator's own;
`Remember` is the decision to cache.

### Drafting
The semaphore is `asyncio.Semaphore` as it is implemented: a value, a line of
waiters and those woken but not yet resumed, so that a cancelled waiter hands its
slot on. `Begin`/`ProbeTimesOut`/`Resume`/`HeartbeatStops` are the probe, the
queue and its heartbeat; `Cancelled` may strike at any await. With a slot a turn
modifies the previous draft (`Modify`) or gathers (`Reference`, `Web`,
`Context`), judges how many sections there are (`Judge`), and writes them in one
pass or in pairs, each tried twice (`PairWritten`, `PairRetried`, `PairFailed`).
A draft is what tells drafts apart: whether it lacks a section, says so, and was
worded anew by the refiner.

### ThreadGraph
A superstep is atomic in its writes, as in LangGraph: `Superstep` applies the
writes and checkpoints them in `saved`. `Begin` loads the latest checkpoint and
applies the request's input with the reducers (`agent_results` is merged, so `{}`
leaves it alone). Agents finish in any order with any outcome (`AgentAnswers`);
`AgentsJoin` waits for all; `Syntheses` enumerates every return of
`orchestrator_synthesize_node`. `Break` is an exception or the 300 s timeout at
any node. `view` is what the streaming endpoint notes of updates while they pass;
the batch endpoint reads the final state (`FinalState`). A result is known by its
turn, which is what lets properties tell an old one from a new one. LangGraph is
external: the superstep and the join are modelled from the way the graph is built
and run. How a plan comes out of a query is free: any non-empty plan that Drafting
leads when it is in it, which is what `Planner`'s properties say of its plans.

### TurnPipeline
One request is one coroutine; each action runs up to the next `await`. `Receive`,
`CacheHit`/`CacheMiss`, `GraphEnds`/`GraphBreaks`, `Respond`, `SaveTurn`,
`CacheSet` follow `run_chat_pipeline`; the batch endpoint differs where the code
does (a blocked turn is returned unsaved, an error ends the request).
`Disconnect` cancels the generator anywhere after its start. The `get` and `set`
of the cache each run under its lock, hence one action each; `Room` is the
eviction. An answer is known by its flaws (blocked, web fallback, cut off) and by
what its request brought: nothing, files (the integration context counts as
files, both keep an answer out of the cache) or a text to refine. `remembers` and
`loaded` hold what the client was told at the start and what the graph found.

What a request asks is a query, a language and an appendix flag as they were sent
(`Asks`). `Key` folds the first two as `_make_key` does (`Folded`: lower case,
outer blanks off) and leaves out only the hash. The language of the answer is
another function of the same field: `Spoken`, in which `_build_initial_state`
takes a code as it stands or not at all. An entry remembers the ask it was made
for (`madeFor`), which is how a hit can be held against what this request asks.
Requests arrive in a fixed order and open new threads in a fixed order
(`NextRequest`, `NextThread`; a thread id is a fresh uuid4), which loses nothing
but names.

### SelfRefine
The for loop of `self_refine` with its two length guards. A text is a version and
a length; critic and refiner are free. The critic has read (`audited`) only what it
gave a verdict on: one that fails, times out or is skipped by its breaker returns
`passes=True` unread, which is an action of its own (`CriticFails`, `unheard`).

### ThreadFiles
`Admit` to `Save` are `process_files`, one file after another. A pool thread in
`_store_in_chromadb` is `writer[f]`: it survives the timeout of the coroutine that
awaits it (`AwaitStore` may give up at any time) and the 240 s envelope
(`Cancel`). A save that timed out may still commit (`LateSave`). A retry drops
the partial collection unless that fails, which leaves a `doubled` one. The four
steps of a deletion, of which each may fail in part, interleave with all this;
`Restored` is what a turn without files would get at any moment.

### Abstractions to be aware of
Byte limits and file validation are refusals; the Gemini Files channel is dead
code in the source ("Phase F") and is left out. Searches are known by how their
hits rank (`none`, `few`, `many`, `strong`), never by what they say. A stream is
two pieces of text, enough to be cut between them. `Agents` has no clock: that the
attempts end is checked, how long they take against 300 s is not.

## 3. The runs

| Run | Module | Shows |
|---|---|---|
| `chatstore_concurrent` | ChatStore | `TurnsNumberedOnce`, `SummaryCountHonest`, and `KeepsTheLog`: the store implements `ThreadLog`, under two workers, crashes, aborts, expiry |
| `chatstore_sequential` | ChatStore | `NoTurnForgotten`: with gap 3 and window 5 a turn is in the summary or among the recent ones, also when saves are refused and rolled back |
| `planner` | Planner | `TypeOK`, `DraftingLeadsItsPlan`, `DraftsAreConfirmed`, `CodesAreReadOnce`, `LongPromptReachesDraftingWhole` over every pair of classification and intent |
| `search` | SearchBackend | `OutageCostsFewQueries`, `CircuitClosesAgain`, and `KeepsThePromise`: the searches implement `SearchPromise` |
| `agents` | Agents | `TypeOK`, `UnflaggedTextRestsOnHits`, `PageShowsTheAnswer`, `AgentWebAnswersAreNotCached`, `EveryTurnIsAnswered` |
| `agents_outage` (violated) | Agents | `WebAnswersAreNotCached` |
| `drafting` | Drafting | `SlotsAddUp`, `MissingSectionsAreNamed`, `EveryTurnLeaves` |
| `graph_stream` | ThreadGraph | `TypeOK`, `DraftTagMeansDraft`, `RefinementStandsAlone` |
| `graph_overlap` | ThreadGraph | `SynthesisWaitsForThePlan`, `ReplyIsForThisRequest` with two runs on one thread |
| `pipeline` | TurnPipeline | `TypeOK`, `CacheWithinLimit`, `HitFitsTheRequest`, `HitIsReplayable`, `DoneMeansRemembered`, `EveryRequestEnds` |
| `self_refine` | SelfRefine | `LoopTypeOK`, `LongAnswerKeepsItsLength`, `UnreadOnlyIfTheCriticFailed`, `LoopEnds` |
| `files_uploads` | ThreadFiles | `TypeOK`, `RecordedCollectionIsWhole`, `SlotsBalance`, `DeletedStaysDeleted`, `EveryUploadEnds` |

Bounds and why they are enough:
- **ChatStore**: two workers are the least that race for a lock, a summary or a
  sweep. Five turns let two summaries follow each other (gap 3) while a third is
  being computed; eight turns, sequentially, push turns out of the window of 5
  after a summary. The gap and window are the code's.
- **Planner**: no bound of its own, one pass of the node. The classifier names any
  of five tasks and lists of nought, two, four and five agents, one beyond the
  cap, among them the list that repeats Document until the cut has no room for
  Drafting; the intent ranges over four of the seven wishes (the other three add an
  agent by the same rule as `statute` does); requests over the combinations that
  a text can have.
- **SearchBackend**: two threads, one over six searches that between them have
  every shape (swallowing, raising, telling, cascading, per act, direct and through
  the breaker), the other over two. Threshold 3 is above the number of threads,
  so that an outage needs several queries of one; two ticks open let queries of
  either period end in the other.
- **Agents**: eleven plans of one or two agents, which take every handler; two
  agents are the least that share a page or meet in a merge.
- **Drafting**: three turns for two slots, so that one waits while another is
  cancelled; one thread comes back and modifies its draft; a cap of three sections
  has a full pair, a half pair and one section too many.
- **ThreadGraph**: two turns are the least in which the checkpoint carries
  anything over; Drafting, Scenario and one supporting agent cover every branch of
  the synthesis. The overlap run drops the supporter and the files, which only
  choose between branches the other run takes.
- **TurnPipeline**: four asks, of which two share an entry (`q` in `hi`, `Q` in `HI`)
  and the others differ in the language or the appendix flag alone, contend for a
  cache of one entry;
  lifetime 1 and clock 2 reach an entry that is fresh, at its limit and past it.
  Two threads let a second request be a first turn (and hit) or a follow-up. A
  request that brings a text to refine is in the module but not in the run, which
  it would make several times longer; the theorems cover it.
- **SelfRefine**: lengths in units of 100 characters (thresholds 500 and 2000
  become 5 and 20); three rounds, one more than the code's default.
- **ThreadFiles**: one write slot and one upload of three files, so that an
  abandoned write holds the slot while two others wait for it; two attempts, so
  that there is a retry.

`CHECK_DEADLOCK FALSE` stands where the system may stop: a plan made, all turns
or requests served, the refinement returned, no more uploads. ChatStore,
SearchBackend and Agents are checked for deadlock (a turn of `Agents` that is
over stutters, any other state that cannot move is an error).

### Fairness
- `SearchBackend`: weak fairness of the clock and of a thread's search once it is
  called, because the client's timeout answers every query that nobody else
  answers. Not of calls: nobody has to search.
- `Agents`: weak fairness of each writer; every model, search and web call of the
  agents ends, fails or runs into its timeout.
- `Drafting`: weak fairness of each turn's timers, wake-ups and calls, because the
  event loop runs every ready coroutine and each model call is bounded by its
  client. Not of `Begin` or `Cancelled`.
- `TurnPipeline`: weak fairness of a request's own steps; `async_timeout(300)` /
  `wait_for(.., 300)` ends a graph that hangs. Not of `GraphEnds` (a model may
  never answer), arrivals or disconnects. The model call behind the follow-up
  suggestions, inside `Respond`, relies on the client library's own timeout.
- `SelfRefine`: weak fairness of the loop; both model calls run under
  `bounded_wait_for`.
- `ThreadFiles`: weak fairness of an upload's steps; each of its awaits has a
  `wait_for`. None for the pool threads: ChromaDB may keep one for ever.
- `ChatStore`, `Planner` and `ThreadGraph` state no liveness and assume none.

## 4. Where the code and what it says of itself differ

**`agents_outage`** is a run that TLC must find violated: when every agent of a
plan fails, the orchestrator searches the web itself (`orchestrator.py`) and
returns a text without an `AgentResult`; `any_fallback_used` looks at agent
results only, so the answer of the outage is cached for everybody who asks the
same (`chat_runner.py:670`), against the comment at `chat_runner.py:396-400`.

The models follow the code in the following, too; where a property would be
about them it is stated so as to hold with them.

Against what a comment, a setting or a document says:
- one old thread with a file makes the sweep roll back, and nothing expires
  (`chat_store.py:2718`, `:2703`);
- `agent_results` of earlier turns survive in the checkpoint and are merged into a
  later answer, also when one agent was asked (`gateway.py:566`,
  `orchestrator.py:1589`, `docs/followup_pipeline_simplification_plan.md:93`);
- the cache key folds the case of `preferred_language` (`response_cache.py:80`), the
  gateway takes a code only as it stands (`gateway.py:551`): a request with `HI` is
  answered in the detected language and its answer replayed to one with `hi`, against
  `response_cache.py:70-72` and `settings.py:149-151`, by which two languages never
  collide. `HitFitsTheRequest` therefore asks for equal languages only of requests that
  write their codes as the gateway knows them (`Proper`); without that condition TLC
  finds the replay;
- a refinement (`regenerate_of`) is cached and replayed under the key of its query
  (`gateway.py:615`, `settings.py:149`);
- a write that outlives its timeout leaves a collection no record names, so no
  deletion removes it (`gateway.py:1351`, `:1324`);
- a retry of the ChromaDB write deletes the partial collection first "to avoid duplicate
  chunks" (`file_processor.py:1419-1421`), but a failure of that deletion is ignored
  (`:1472`) and the chunks are then there twice; `RecordedCollectionIsWhole` admits
  that collection (`doubled`), since it holds all of the file;
- thread files are loaded without `created_at`, so every batch counts as the newest
  (`memory.py:370`, `:349`);
- the citation agents dropped for a legal notice are put back by a later rule
  (`orchestrator.py:1398`, `:1350-1355`), and the cap of four may cut the Document
  agent a comment wants kept (`:1275`);
- an error of the query itself counts as a failure of the backend
  (`elasticsearch_tools.py:167`, `:145-149`);
- the text of a plan's primary agent is not on the page when the synthesis uses it
  (`orchestrator.py:1921`, `:1918-1919`);
- the cap of twelve sections cuts off sections 13 to 15 that the prompt allows,
  without naming them in the banner (`drafting.py:2168`, `config/prompts.py:1521`);
- the refiner may word the banner away, so that the next turn modifies an
  incomplete draft (`drafting.py:219`,
  `docs/followup_pipeline_simplification_plan.md:442`; off by default);
- a section whose router failed is drafted from its mate's paragraphs only
  (`drafting.py:1779`, `:1239`; off by default, not modelled);
- the retry of a pair is said to be bounded by the deadline, which only exceptions
  look at (`drafting.py:1863-1868`).

Not against anything written, but worth knowing:
- `constitution_maxim.py:246` streams a web text twice;
- an error of a Supreme Court or GST search passes as findings;
- a Legislation outage ends in an error, not in a web answer, unlike its siblings;
- the reference a draft looks up on the web is streamed to the page though it is not
  the draft, and an apology can serve as reference;
- waiting for the heartbeat (`drafting.py:2403`) swallows a cancellation;
- incomplete drafts are cached; `frontend.html:2048` reads `failed_sections`, a list,
  as a number;
- a classifier that lists Document three times before Drafting (nothing removes the
  repetitions, `orchestrator.py:343`) loses Drafting to the cut of three
  (`:1383`): a turn whose task is a draft has a plan without one. It is the only such
  list, and the one exception that `DraftingLeadsItsPlan` makes; the run has it;
- a rewrite may be returned unread when the critic fails on it, as
  `self_refine.py:1418-1421` intends; `UnreadOnlyIfTheCriticFailed` says that nothing
  else lets one out;
- a file whose save is still under way when its thread's files are deleted
  (`gateway.py:1331`) has no row yet and is recorded right after: `DeletedStaysDeleted`
  is about files that were on record;
- with two writers on one page, what remains of it depends on who was reset last;
- the batch endpoint may tag a turn with an earlier turn's draft (`gateway.py:816`);
- a run cut off between synthesis and output guardrail is sent unsanitised
  (`chat_runner.py:557`);
- an explicit language does not force a synthesis when a draft or a lone primary
  answers (`orchestrator.py:1808`);
- a turn saved between the two statements of the sweep keeps its thread without its
  earlier turns (`chat_store.py:2711`); of two overlapping summaries the older may
  win (`:2037`); concurrent uploads may together exceed `MAX_FILES_PER_THREAD`.

## 5. Proofs

TLAPS checks the following for every value of the constants. No property is
inductive as it stands; each module's `IInv` says what has to be added.

- **`ChatStoreProofs`**: `TypeCorrect`, `TurnsAreNumberedOnce`,
  `SummaryCountIsHonest`. `IInv` adds what the row lock is for (`LockHeld`: whoever
  has a number has the lock, and the number is the next one), that deleted and
  doomed turns had been saved (`LostWereSaved`, `DoomedWereSaved`), that nobody
  summarises a thread that is not there (`SummariserKeepsThread`, from "no call
  takes as long as the retention window"), and what a summariser or a loader
  carries across its statements (`SeenHonest`, `BatchComplete`).
  `NothingIsForgotten` proves `NoTurnForgotten` from four assumptions, which are
  those under which it is true: the calls on one thread follow one another
  (`OneCallAThread`; other threads may do what they like), no summary call fails
  (`"llm" \notin Faults`), no worker dies between commit and summary
  (`"crash" \notin Faults`), and `SummaryGap <= RecentTurns + 1`; the code has 3 and
  5, in two constants nothing ties together. `SeqInv` says that an idle thread is
  less than a gap behind (`NotBehind`), that a summariser has read the turn count
  as it is (`SeenIsRow`), and that what a loader has read is honest and its window
  whole (`LoadedHonest`, `WindowComplete`).
  `StoreImplementsTheLog` is the refinement, the whole of it since `ThreadLog` states
  no liveness. `GoneInOrder` is what it needs beyond `IInv`: the lost turns of a
  thread are its oldest, and with those the sweep has chosen they still are; neither
  has the last, unless the thread is still out of use and goes as a whole. A turn
  saved between the two statements of the sweep is why the last stays: its number is
  above all that were chosen (`SaveRecords`). `WhatIsPresent` reduces the mapping to
  the count and the lost turns.
- **`SearchBackendProofs`**: `TypeCorrect`, `AnOutageCostsFewQueries`. The bound
  counts queries that are lost as well as those in flight that may yet be:
  `LostWhileClosed` bounds the losses by the failure count, `LostWhileOpen` bounds
  losses and queries in flight together once the circuit is open, since no new one
  is sent. `SearchesImplementThePromise` is the safety half of the refinement:
  every step of a thread is, under `Promise == INSTANCE SearchPromise WITH ...`, a
  call, a return of one of the outcomes of the search called, or a stutter. It
  needs `Own`: the queries a thread has yet to send are queries of a plan of its
  own search, whatever was skipped of it, so that a failure that ends the search is
  one its callers expect.
- **`AgentsProofs`**: `TypeCorrect`, `UnflaggedTextsRestOnHits`,
  `AgentsWebIsNotCached`. `Knows` says for every agent what its place in the
  handler implies about its hits; `Orchestrates`, `AllDone` and `NoWebText` carry
  the agents' flags to the decision to cache. `AgentMoves` and `OrchestratorMoves`
  are the frame lemmas that reduce a step to the one writer it moves.
  `PageIsTheAnswer`: for an agent alone in its plan, `PInv` says what the page
  holds at each place of its handler (`Shows`: nothing before its text, then what
  the running attempt has sent, then the text of its result unless it failed), and
  that the agent's text is the answer only when the orchestrator has nothing left
  to write.
  `EveryStepAdvances` and `TurnsAreBounded`: `Left` counts the attempts, pieces and
  places still before a writer; every step lessens it, at most 19 to an agent's
  result and 18 for the orchestrator from there.
- **`DraftingProofs`**: `LacksAreNamed`, `NoSlotIsLost`. `Settled` says that written and failed
  sections are the first ones of the draft; with it a draft that has reached its
  last section lacks exactly those that failed, which the banner names, and a
  draft that is modified has none. `SlotInv` says of the semaphore what `asyncio`
  relies on (`Balanced`): nobody stands in line twice, nobody who was woken still
  stands in line, and the two together are exactly the turns at the acquire;
  without that a cancelled waiter could not be told from one that was handed a
  slot. Each operation of the semaphore keeps the balance (`WakeKeepsBalance`,
  `AbandonBalance`, `TakeBalance`, ...), and `TurnMoves` ties the turns to it.
  The module extends `SelfRefine` as well, the loop behind `Refine`, and proves
  `LoopIsTyped`, `LengthIsKept` and `UnreadOnlyIfUnheard` of it: `LoopInv` says that
  a rewrite is numbered by the rounds used up, that the text kept so far is long
  enough (`KeptLength`), that every text it replaced has been read
  (`ReplacedIsRead`), that it has been read itself when the loop is about to rewrite
  it, and that what is returned has been read or is the one text on which the critic
  failed (`ReadOrUnheard`).
  The module also proves the measures behind two liveness properties.
  `EveryStepAdvances`: each step of a turn, a cancellation or a call that comes too
  late included, lessens `Left`, and no step of another turn adds to it;
  `TurnsAreBounded`: it starts at no more than 2 * Cap + 10 and is 0 only at the end,
  so a slot is kept for at most 2 * Cap + 8 steps. It is the wait in the queue that
  is left to fairness. `CallsAreUsedUp` says the same of the loop, whose calls are
  at most 2 * MaxIterations + 2.
- **`PlannerProofs`**: `TypeCorrect`, `DraftsWereAskedFor`, `CodesOnce`,
  `LongPromptIsWhole`, `DraftingLeads`, for classifier lists of any length and
  content. The lemmas on list operations (`OnlyTheWanted` for the comprehensions,
  `Joined`, `Added`, `Upto`) say which agents are left and in which order. Each
  rule up to `Reconciled` keeps a plan sane and Drafting among those the cuts
  leave (`Keeps`, `Led`, `Early`), where it is in every list of the classifier but
  `DocumentThrice` (`EarlyButOne`); from `Bounded` on a plan is `Settled`: of one to
  four agents, with Drafting only where it is the task. `IInv` adds what the query
  is between the steps (`HandedOn`, and `Untouched` before the first); without it a
  long query could be condensed by the second of the two steps that may word it
  anew.
- **`ThreadGraphProofs`**: `TypeCorrect`, `SynthesisWaits`, `RepliesAreOwn`,
  `RefinementsStandAlone`, and `TaggedDraftsAreDrafts` for the streaming endpoint
  (`ASSUME Endpoint = "stream"`: the batch endpoint may tag an older draft).
  `Dated` says that no channel, checkpointed or running, holds a result of a turn
  that has not been received; then one predicate per node says what a run has when
  it gets there (`Unplanned`, `Answering`, `Joined`, `Written`, `Sent`). `OneRun`
  and `SuperstepKeeps` reduce a step to the run that takes it.
- **`TurnPipelineProofs`**: `TypeCorrect`, `CacheStaysWithinLimit`, `HitsFit`,
  `HitsAreReplayable`, `DoneIsRemembered`. `CacheTrue` says that an entry
  lies under the key of the ask it was made for and is without flaw;
  `OneKeyOneLanguage` is what equal keys say of two asks whose codes are as the
  gateway knows them; `CacheFits`
  bounds the entries before and after an eviction, `Sound` follows a request
  (saved implies stored, what a client was told is stored); `OneRequest` rests on
  turns never being taken back.
- **`ThreadFilesProofs`**: `TypeCorrect`, `RecordsAreTrue`, `SlotsAreBalanced`,
  `DeletionIsFinal`. `IInv` adds that a file whose upload has not come to its save
  has no record and no abandoned save (`Unsaved`), that an upload and a late save
  name a collection only after its write was seen to end (`MarkTrue`,
  `RecordTrue`), that only a deletion drops what was stored (`StoredKept`) and only
  after the record (`DeletionTrue`), and that the writers in flight are finitely
  many.
  `UploadsKeepAdvancing` and `UploadsAreBounded`: an upload of n files takes at most
  3n + 1 steps (`UploadLeft`), a pool thread that has its slot MaxAttempts
  (`WriterLeft`), and `Unsaved` makes sure that a file gets one pool thread only.

Assumptions: the named one of each module on its constants (finite sets, positive
sizes, non-empty plans), and what is said above of `TaggedDraftsAreDrafts` and
`NothingIsForgotten`. That of `TurnPipeline` says that folding leaves the gateway's
codes as they are; they are all in lower case (`gateway.py:430-432`).

The type invariants of `ChatStore` and `SearchBackend` are proved (`TypeCorrect`) and
in no run of their own.

Only model-checked: the liveness properties (`CircuitClosesAgain`,
`EveryTurnIsAnswered`, `EveryTurnLeaves`, `EveryRequestEnds`, `LoopEnds`,
`EveryUploadEnds`, and the liveness half of `KeepsThePromise`), because TLAPS does
not do `ENABLED`. Of four of them the part that needs no fairness is proved, that
every step lessens a number which starts bounded and is least at the end
(`AgentsProofs`, `DraftingProofs` for turns and for the loop, `ThreadFilesProofs`);
that the next step is taken at all is the part left to TLC. The stages of a request
of `TurnPipeline` follow one another without a loop, and it has no such theorem.

## 6. What is left

- The two other bounded resources of a worker, the in-flight gate and the
  scenario agent's semaphore, and the deadline against nested timeouts.
- `ThreadLog` in `TurnPipeline`, in place of `stored`, so that a request's promise and
  the store's are one.
- `PageShowsTheAnswer` for plans of several writers, once the code says what the
  page should show while they write.
- The disagreements of section 4 as runs of their own, as they are fixed or
  declared intended.
