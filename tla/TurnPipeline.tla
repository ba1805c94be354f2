---------------------------- MODULE TurnPipeline ----------------------------
(***************************************************************************)
(* The life of a request around the agent graph (run_chat_pipeline of      *)
(* core/chat_runner.py and the body of /pyapi/search in core/gateway.py):  *)
(* look up the response cache, run the graph under the 300 s timeout, send *)
(* the response, make follow-up suggestions, save the turn, fill the       *)
(* cache, report that the request is done.  The requests of one worker     *)
(* share the worker's ResponseCache (core/response_cache.py); those of one *)
(* thread share its saved turns.                                           *)
(***************************************************************************)
EXTENDS Naturals, FiniteSets

CONSTANTS
    Requests,    \* requests the worker receives
    Threads,     \* conversation threads
    Queries,     \* query texts, as they are sent
    Languages,   \* values of preferred_language as they are sent, "" if none is
    Asks,        \* what requests ask for: a query, a language, the appendix or not
    Codes,       \* the language codes the gateway knows (_VALID_LANGUAGES)
    Folded,      \* Folded[x]: x in lower case, without blanks around it
    Endpoints,   \* of "search", "search/stream" and "chat"
    MaxEntries,  \* capacity of the cache (500)
    Ttl,         \* lifetime of an entry (3600 s)
    Flaws,       \* what may happen to an answer: "blocked", "fallback", "partial"
    Brings,      \* what requests carry besides the query: "nothing", "files"
                 \* (uploaded or linked), "text" to refine (regenerate_of)
    MaxTime      \* bound of the model: clock ticks

ASSUME TurnPipelineAssumption ==
    /\ Threads # {} /\ Asks # {}
    /\ Asks \subseteq [query : Queries, language : Languages,
                        appendix : {"unset", "yes", "no"}]
    /\ \A c \in Codes \cap Languages : Folded[c] = c
    /\ Endpoints \subseteq {"search", "search/stream", "chat"}
    /\ MaxEntries \in Nat \ {0}
    /\ Ttl \in Nat
    /\ Flaws \subseteq {"blocked", "fallback", "partial"}
    /\ Brings \subseteq {"nothing", "files", "text"}
    /\ MaxTime \in Nat

VARIABLES
    now,      \* the clock the cache reads
    cache,    \* cache[k]: the entry stored under k, if exists
    stored,   \* stored[t]: requests whose turn the chat store holds
    req       \* req[r]: request r

vars == <<now, cache, stored, req>>

-----------------------------------------------------------------------------
\* An answer, known by its flaws: fallback is a web-grounded search by an agent,
\* partial a run that was cut off after its first final text.
\* from is what came with the request it was made for.
Answer == [exists : BOOLEAN, flaws : SUBSET Flaws, from : Brings \cup {"nothing"}]
NoAnswer == [exists |-> FALSE, flaws |-> {}, from |-> "nothing"]

\* Bug: the language is left out of the key.
KeyWithoutLanguage(a) == <<Folded[a.query], a.appendix>>

\* _make_key
Key(a) == <<Folded[a.query], Folded[a.language], a.appendix>>

Keys == {Key(a) : a \in Asks}

\* The language of an answer: the gateway takes a preference only if it is one
\* of its codes as it stands; else the memory node detects it from the query.
Spoken(l) == IF l \in Codes THEN l ELSE "detected"

\* An entry knows what its answer was made for, to tell what a hit replays.
Entry == [exists : BOOLEAN, at : 0..MaxTime, madeFor : Asks, answer : Answer]

Stages == {"idle", "lookup", "graph", "respond", "save", "cache",
           "done", "gone"}

\* remembers is what the client may rely on: the turns of the thread reported
\* as saved before the request.  loaded is what memory_node found.  age is how
\* old a replayed entry was, madeFor what its answer was made for.
Request == [pc : Stages, thread : Threads, first : BOOLEAN, asks : Asks,
            endpoint : {"search", "search/stream", "chat"},
            brings : Brings \cup {"nothing"}, answer : Answer, hit : BOOLEAN, age : 0..MaxTime,
            madeFor : Asks, saved : BOOLEAN, remembers : SUBSET Requests,
            loaded : SUBSET Requests]

SomeAsk == CHOOSE a \in Asks : TRUE

NoEntry == [exists |-> FALSE, at |-> 0, madeFor |-> SomeAsk, answer |-> NoAnswer]

NotReceived ==
    [pc |-> "idle", thread |-> CHOOSE t \in Threads : TRUE, first |-> FALSE,
     asks |-> SomeAsk, endpoint |-> "search", brings |-> "nothing", answer |-> NoAnswer,
     hit |-> FALSE, age |-> 0, madeFor |-> SomeAsk, saved |-> FALSE,
     remembers |-> {}, loaded |-> {}]

Init ==
    /\ now = 0
    /\ cache = [k \in Keys |-> NoEntry]
    /\ stored = [t \in Threads |-> {}]
    /\ req = [r \in Requests |-> NotReceived]

-----------------------------------------------------------------------------
(* ResponseCache *)

Used(c) == {k \in Keys : c[k].exists}

Expired(e) == now - e.at > Ttl

Drop(c, K) == [k \in Keys |-> [c[k] EXCEPT !.exists = @ /\ k \notin K]]

\* Bug: only expired entries make room.
RoomIfExpired(c) ==
    {IF Cardinality(Used(c)) >= MaxEntries THEN Drop(c, {k \in Used(c) : Expired(c[k])}) ELSE c}

\* The caches that set may find after its evictions: the expired entries go
\* when it is full, and the oldest when it is full still.
Room(c) ==
    LET d == IF Cardinality(Used(c)) >= MaxEntries
             THEN Drop(c, {k \in Used(c) : Expired(c[k])}) ELSE c
    IN IF Cardinality(Used(d)) >= MaxEntries
       THEN {Drop(d, {k}) : k \in {o \in Used(d) : \A u \in Used(d) : d[o].at <= d[u].at}}
       ELSE {d}

-----------------------------------------------------------------------------
(* The steps of a request *)

\* The requests of thread t that have been received.
Earlier(t) == {o \in Requests : req[o].pc # "idle" /\ req[o].thread = t}

\* Requests are named as they arrive, and new threads (uuid4) in turn.
NextRequest == CHOOSE r \in Requests : req[r].pc = "idle"
NextThread == CHOOSE t \in Threads : Earlier(t) = {}

\* A request without a thread id opens a thread: it is its first turn.
Received(r, t, a, e, b) ==
    [req[r] EXCEPT !.pc = "lookup", !.thread = t, !.asks = a,
                   !.endpoint = e, !.brings = b, !.first = (Earlier(t) = {}),
                   !.remembers = {o \in Earlier(t) : req[o].pc = "done" /\ req[o].saved}]

Receive(r) ==
    /\ req[r].pc = "idle" /\ r = NextRequest
    /\ \E t \in Threads, a \in Asks, e \in Endpoints, b \in Brings :
          /\ e = "search" => b # "files"
          /\ Earlier(t) # {} \/ t = NextThread
          /\ req' = [req EXCEPT ![r] = Received(r, t, a, e, b)]
    /\ UNCHANGED <<now, cache, stored>>

\* What is left of a request that has ended.
Ended(r, pc) == [NotReceived EXCEPT !.pc = pc, !.thread = req[r].thread, !.saved = req[r].saved]

UsesCache(r) == req[r].endpoint # "chat" /\ req[r].first

CacheHit(r) ==
    /\ req[r].pc = "lookup" /\ UsesCache(r)
    /\ LET e == cache[Key(req[r].asks)]
       IN /\ e.exists /\ ~Expired(e)
          /\ req' = [req EXCEPT ![r].pc = "respond", ![r].hit = TRUE,
                                ![r].answer = e.answer, ![r].age = now - e.at,
                                ![r].madeFor = e.madeFor]
    /\ UNCHANGED <<now, cache, stored>>

\* get deletes the expired entry it finds.
CacheMiss(r) ==
    /\ req[r].pc = "lookup"
    /\ LET k == Key(req[r].asks)
       IN \/ /\ UsesCache(r)
             /\ ~cache[k].exists \/ Expired(cache[k])
             /\ cache' = Drop(cache, {k})
          \/ ~UsesCache(r) /\ UNCHANGED cache
    /\ req' = [req EXCEPT ![r].pc = "graph", ![r].loaded = stored[req[r].thread]]
    /\ UNCHANGED <<now, stored>>

\* The graph finishes; its output guardrail leaves no answer empty.  The batch
\* endpoint returns a blocked turn without saving it.
GraphEnds(r) ==
    /\ req[r].pc = "graph"
    /\ \E f \in SUBSET (Flaws \ {"partial"}) :
          /\ "blocked" \in f => f = {"blocked"}
          /\ req' = IF f = {"blocked"} /\ req[r].endpoint = "search"
                    THEN [req EXCEPT ![r] = Ended(r, "done")]
                    ELSE [req EXCEPT ![r].pc = "respond",
                                     ![r].answer = [exists |-> TRUE, flaws |-> f,
                                                    from |-> req[r].brings]]
    /\ UNCHANGED <<now, cache, stored>>

\* Bug: nothing bounds the run.
GraphUnbounded(r) == FALSE /\ UNCHANGED vars

\* 300 s are over or a node raises: batch answers with an error; the stream
\* sends an error and goes on with what the run had written by then.
GraphBreaks(r) ==
    /\ req[r].pc = "graph"
    /\ IF req[r].endpoint = "search"
       THEN req' = [req EXCEPT ![r] = Ended(r, "done")]
       ELSE \E f \in {g \in SUBSET (Flaws \ {"blocked"}) : "partial" \in g \/ g = {}} :
              req' = [req EXCEPT ![r].pc = "respond",
                                 ![r].answer = [exists |-> "partial" \in f, flaws |-> f,
                                                from |-> req[r].brings]]
    /\ UNCHANGED <<now, cache, stored>>

\* The stream sends the response, its sources and the follow-up suggestions,
\* if the model makes any, before the turn is saved.
Respond(r) ==
    /\ req[r].pc = "respond"
    /\ req' = [req EXCEPT ![r].pc = IF req[r].answer.exists THEN "save" ELSE "cache"]
    /\ UNCHANGED <<now, cache, stored>>

\* Bug: the turn number is taken as given before the store has answered.
SaveTurnUnchecked(r) ==
    /\ req[r].pc = "save"
    /\ \E ok \in BOOLEAN :
          stored' = [stored EXCEPT ![req[r].thread] = IF ok THEN @ \cup {r} ELSE @]
    /\ req' = [req EXCEPT ![r].pc = "cache", ![r].saved = TRUE]
    /\ UNCHANGED <<now, cache>>

\* save_turn; a failure is logged and leaves conversation_turn at 0.
SaveTurn(r) ==
    /\ req[r].pc = "save"
    /\ \E ok \in BOOLEAN :
          /\ stored' = [stored EXCEPT ![req[r].thread] = IF ok THEN @ \cup {r} ELSE @]
          /\ req' = [req EXCEPT ![r].pc = "cache", ![r].saved = ok]
    /\ UNCHANGED <<now, cache>>

\* Bug: the check for an agent's web search is lost.
CacheableFallback(r) ==
    /\ UsesCache(r) /\ ~req[r].hit
    /\ req[r].answer.exists
    /\ req[r].brings # "files" /\ "blocked" \notin req[r].answer.flaws

Cacheable(r) ==
    /\ UsesCache(r) /\ ~req[r].hit
    /\ req[r].answer.exists
    /\ req[r].brings # "files" /\ req[r].answer.flaws \cap {"blocked", "fallback"} = {}

\* Bug: the entry carries the time it expires, which get takes for its age.
CacheEntryExpiry(r) ==
    [exists |-> TRUE, at |-> now + Ttl, madeFor |-> req[r].asks, answer |-> req[r].answer]

CacheEntry(r) ==
    [exists |-> TRUE, at |-> now, madeFor |-> req[r].asks, answer |-> req[r].answer]

CacheSet(r) ==
    /\ req[r].pc = "cache"
    /\ IF Cacheable(r)
       THEN \E c \in Room(cache) :
              cache' = [c EXCEPT ![Key(req[r].asks)] = CacheEntry(r)]
       ELSE UNCHANGED cache
    /\ req' = [req EXCEPT ![r] = Ended(r, "done")]
    /\ UNCHANGED <<now, stored>>

\* The client closes the stream: the generator is cancelled where it stands.
\* A save already handed to its thread still commits.
Disconnect(r) ==
    /\ req[r].pc \in {"graph", "respond", "save", "cache"}
    /\ req[r].endpoint # "search"
    /\ req' = [req EXCEPT ![r] = Ended(r, "gone")]
    /\ \E late \in BOOLEAN :
          /\ late => req[r].pc = "save"
          /\ stored' = [stored EXCEPT ![req[r].thread] = IF late THEN @ \cup {r} ELSE @]
    /\ UNCHANGED <<now, cache>>

Tick ==
    /\ now < MaxTime
    /\ now' = now + 1
    /\ UNCHANGED <<cache, stored, req>>

-----------------------------------------------------------------------------
Step(r) ==
    \/ CacheHit(r) \/ CacheMiss(r) \/ GraphBreaks(r) \/ Respond(r)
    \/ SaveTurn(r) \/ CacheSet(r)

Next ==
    \/ \E r \in Requests : Step(r) \/ Receive(r) \/ GraphEnds(r) \/ Disconnect(r)
    \/ Tick

\* The event loop runs every coroutine that can go on, and the timeout ends a
\* graph that does not end by itself; nothing makes the graph end, a client
\* come or leave.
Fairness == \A r \in Requests : WF_vars(Step(r))

Spec == Init /\ [][Next]_vars /\ Fairness

-----------------------------------------------------------------------------
(* Properties *)

TypeOK ==
    /\ now \in 0..MaxTime
    /\ cache \in [Keys -> Entry]
    /\ stored \in [Threads -> SUBSET Requests]
    /\ req \in [Requests -> Request]

\* set makes room before it stores: the cache never holds more entries than
\* max_entries, however gets, sets and expiry interleave.
CacheWithinLimit == Cardinality(Used(cache)) <= MaxEntries

\* Written as the gateway knows it, if it is a code at all ("HI" and " hi" are not).
Proper(l) == Folded[l] \in Codes => l \in Codes

\* A replayed answer is no older than the lifetime of an entry and was made for
\* the same query, but for case and outer blanks, with the same appendix flag; and
\* in the language this request would be answered in, if both requests write their
\* codes as the gateway knows them.  A code in capitals shares the entry of the
\* code but is answered in the detected language: without the last condition this
\* is false of the code (gateway.py:551, response_cache.py:80).
HitFitsTheRequest ==
    \A r \in Requests : req[r].hit =>
        LET here == req[r].asks
            there == req[r].madeFor
        IN /\ req[r].age <= Ttl
           /\ Folded[there.query] = Folded[here.query]
           /\ there.appendix = here.appendix
           /\ Proper(here.language) /\ Proper(there.language) =>
                 Spoken(there.language) = Spoken(here.language)

\* No user is served from the cache what reflects one user's documents, a block
\* message or an agent's web-search fallback.
HitIsReplayable ==
    \A r \in Requests : req[r].hit =>
        /\ req[r].answer.from # "files"
        /\ req[r].answer.flaws \cap {"blocked", "fallback"} = {}

\* A turn whose done event reported it saved is found by every later request
\* of the thread that loads the history: cache hits, failures of the store and
\* disconnects included.
DoneMeansRemembered ==
    \A r \in Requests : req[r].pc = "graph" =>
        req[r].remembers \subseteq req[r].loaded

\* Every request received ends, by its done event, its error or its client.
EveryRequestEnds ==
    \A r \in Requests : req[r].pc = "lookup" ~> req[r].pc \in {"done", "gone"}
=============================================================================
