------------------------ MODULE TurnPipelineProofs ------------------------
(***************************************************************************)
(* What the response cache and the saved turns keep true of the requests   *)
(* of a worker: for any number of requests and threads, whatever they ask  *)
(* for, and any size and lifetime of the cache.                            *)
(***************************************************************************)
EXTENDS TurnPipeline, FiniteSetTheorems, TLAPS

Shareable(a) == a.from # "files" /\ a.flaws \cap {"blocked", "fallback"} = {}

\* A cache c at time n holds, under each key, an answer to a request with that key that may be
\* shown to anybody.
CacheTrue(c, n) ==
    /\ c \in [Keys -> Entry]
    /\ \A k \in Keys : c[k].exists =>
          /\ Key(c[k].madeFor) = k
          /\ c[k].at <= n
          /\ Shareable(c[k].answer)

\* Nor does it ever hold more than it may.
CacheFits(c) == IsFiniteSet(Used(c)) /\ Cardinality(Used(c)) <= MaxEntries

\* What request r with record q knows: a hit replays what fits it, a turn it saw
\* saved is stored, and so are those its client may rely on.
Sound(q, r, st) ==
    /\ q \in Request
    /\ q.pc \in {"idle", "lookup", "graph"} => ~q.hit
    /\ q.pc = "idle" => ~q.saved
    /\ q.hit => Key(q.madeFor) = Key(q.asks) /\ q.age <= Ttl /\ Shareable(q.answer)
    /\ q.saved => r \in st[q.thread]
    /\ q.remembers \subseteq st[q.thread]
    /\ q.pc = "graph" => q.remembers \subseteq q.loaded
    /\ q.pc \in {"respond", "save", "cache"} /\ ~q.hit => q.answer.from = q.brings

IInv ==
    /\ now \in 0..MaxTime
    /\ CacheTrue(cache, now)
    /\ CacheFits(cache)
    /\ stored \in [Threads -> SUBSET Requests]
    /\ req \in [Requests -> Request]
    /\ \A r \in Requests : Sound(req[r], r, stored)

-----------------------------------------------------------------------------
(* The cache *)

LEMMA Numbers == MaxEntries \in Nat /\ MaxEntries > 0 /\ Ttl \in Nat /\ MaxTime \in Nat
  BY TurnPipelineAssumption

\* What is left after dropping keys was there before.
LEMMA DropKeeps ==
    ASSUME NEW c, NEW n, CacheTrue(c, n), NEW K
    PROVE  CacheTrue(Drop(c, K), n) /\ Used(Drop(c, K)) = Used(c) \ K
<1>1. ASSUME NEW k \in Keys
      PROVE  /\ Drop(c, K)[k] \in Entry
             /\ Drop(c, K)[k].exists <=> c[k].exists /\ k \notin K
             /\ Drop(c, K)[k].madeFor = c[k].madeFor
             /\ Drop(c, K)[k].at = c[k].at /\ Drop(c, K)[k].answer = c[k].answer
  <2>1. c[k] \in Entry /\ Drop(c, K)[k] = [c[k] EXCEPT !.exists = @ /\ k \notin K]
    BY DEF CacheTrue, Drop
  <2> QED
    BY <2>1 DEF Entry
<1>2. Drop(c, K) \in [Keys -> Entry]
  BY <1>1 DEF Drop
<1>3. CacheTrue(Drop(c, K), n)
  BY <1>1, <1>2 DEF CacheTrue
<1> QED
  BY <1>1, <1>3 DEF Used

LEMMA DropFits ==
    ASSUME NEW c, NEW n, CacheTrue(c, n), CacheFits(c), NEW K
    PROVE  CacheFits(Drop(c, K))
<1>1. Used(Drop(c, K)) \in SUBSET Used(c)
  BY DropKeeps
<1>2. /\ IsFiniteSet(Used(Drop(c, K))) /\ Cardinality(Used(Drop(c, K))) <= Cardinality(Used(c))
      /\ Cardinality(Used(Drop(c, K))) \in Nat /\ Cardinality(Used(c)) \in Nat
  BY <1>1, FS_Subset, FS_CardinalityType DEF CacheFits
<1> QED
  BY <1>2, Numbers DEF CacheFits

\* set makes room for one entry at least.
LEMMA RoomForOne ==
    ASSUME CacheTrue(cache, now), CacheFits(cache), NEW c \in Room(cache)
    PROVE  /\ CacheTrue(c, now)
           /\ IsFiniteSet(Used(c)) /\ Cardinality(Used(c)) < MaxEntries
<1> DEFINE d == IF Cardinality(Used(cache)) >= MaxEntries
                THEN Drop(cache, {k \in Used(cache) : Expired(cache[k])}) ELSE cache
<1>1. CacheTrue(d, now) /\ CacheFits(d)
  BY DropKeeps, DropFits
<1>2. c \in IF Cardinality(Used(d)) >= MaxEntries
            THEN {Drop(d, {k}) : k \in {o \in Used(d) : \A u \in Used(d) : d[o].at <= d[u].at}}
            ELSE {d}
  BY DEF Room
<1> HIDE DEF d
<1>3. Cardinality(Used(d)) \in Nat
  BY <1>1, FS_CardinalityType DEF CacheFits
<1>4. CASE Cardinality(Used(d)) >= MaxEntries
  <2>1. PICK k \in Used(d) : c = Drop(d, {k})
    BY <1>2, <1>4
  <2>2. CacheTrue(c, now) /\ Used(c) = Used(d) \ {k}
    BY <1>1, <2>1, DropKeeps
  <2>3. IsFiniteSet(Used(d) \ {k}) /\ Cardinality(Used(d) \ {k}) = Cardinality(Used(d)) - 1
    BY <1>1, FS_RemoveElement DEF CacheFits
  <2>4. Cardinality(Used(d)) - 1 < MaxEntries
    BY <1>1, <1>3, Numbers DEF CacheFits
  <2> QED
    BY <2>2, <2>3, <2>4
<1>5. CASE ~(Cardinality(Used(d)) >= MaxEntries)
  <2>1. c = d
    BY <1>2, <1>5
  <2> QED
    BY <1>1, <1>3, <1>5, <2>1, Numbers DEF CacheFits
<1> QED
  BY <1>4, <1>5

\* An entry for its own key keeps the cache true and within its limit.
LEMMA EntryStored ==
    ASSUME NEW c, CacheTrue(c, now), IsFiniteSet(Used(c)), Cardinality(Used(c)) < MaxEntries,
           NEW k \in Keys, NEW e \in Entry, Key(e.madeFor) = k, e.at <= now,
           Shareable(e.answer)
    PROVE  CacheTrue([c EXCEPT ![k] = e], now) /\ CacheFits([c EXCEPT ![k] = e])
<1> DEFINE d == [c EXCEPT ![k] = e]
<1>1. d \in [Keys -> Entry] /\ d[k] = e /\ \A x \in Keys : x # k => d[x] = c[x]
  BY DEF CacheTrue
<1> HIDE DEF d
<1>2. CacheTrue(d, now)
  BY <1>1 DEF CacheTrue
<1>3. Used(d) \in SUBSET (Used(c) \cup {k})
  BY <1>1 DEF Used
<1>4. IsFiniteSet(Used(c) \cup {k}) /\ Cardinality(Used(c) \cup {k}) <= Cardinality(Used(c)) + 1
  <2>1. /\ IsFiniteSet(Used(c) \cup {k})
        /\ Cardinality(Used(c) \cup {k}) = IF k \in Used(c) THEN Cardinality(Used(c)) ELSE Cardinality(Used(c)) + 1
    BY FS_AddElement
  <2> QED
    BY <2>1, FS_CardinalityType
<1>5. IsFiniteSet(Used(d)) /\ Cardinality(Used(d)) <= Cardinality(Used(c) \cup {k})
  BY <1>3, <1>4, FS_Subset
<1>6. CacheFits(d)
  <2>1. /\ Cardinality(Used(d)) \in Nat /\ Cardinality(Used(c)) \in Nat
        /\ Cardinality(Used(c) \cup {k}) \in Nat
    BY <1>4, <1>5, FS_CardinalityType
  <2> QED
    BY <1>4, <1>5, <2>1, Numbers DEF CacheFits
<1> QED
  BY <1>2, <1>6 DEF d

-----------------------------------------------------------------------------
(* One step of one request *)

\* Request r goes to new and the other requests stay.
Goes(r, new) ==
    /\ new \in Request
    /\ req' = [req EXCEPT ![r] = new]

\* Turns are never taken back, so that what the other requests know stays true.
LEMMA OneRequest ==
    ASSUME IInv, NEW r \in Requests, NEW new, Goes(r, new),
           stored' \in [Threads -> SUBSET Requests],
           \A t \in Threads : stored[t] \subseteq stored'[t],
           Sound(new, r, stored')
    PROVE  /\ req' \in [Requests -> Request]
           /\ \A q \in Requests : Sound(req'[q], q, stored')
<1>1. req' \in [Requests -> Request] /\ req'[r] = new /\ \A q \in Requests : q # r => req'[q] = req[q]
  BY DEF Goes, IInv
<1>2. ASSUME NEW q \in Requests, q # r
      PROVE  Sound(req[q], q, stored')
  <2>1. Sound(req[q], q, stored) /\ req[q].thread \in Threads
    BY DEF IInv, Request
  <2>2. stored[req[q].thread] \subseteq stored'[req[q].thread]
    BY <2>1
  <2> QED
    BY <2>1, <2>2 DEF Sound
<1> QED
  BY <1>1, <1>2

LEMMA Blank ==
    /\ NotReceived \in Request
    /\ NotReceived.hit = FALSE /\ NotReceived.saved = FALSE /\ NotReceived.remembers = {}
    /\ NotReceived.pc = "idle" /\ NotReceived.age = 0
<1>1. (CHOOSE t \in Threads : TRUE) \in Threads /\ SomeAsk \in Asks
  BY TurnPipelineAssumption DEF SomeAsk
<1>2. NoAnswer \in Answer
  BY DEF NoAnswer, Answer
<1>3. 0 \in 0..MaxTime
  BY Numbers
<1> QED
  BY <1>1, <1>2, <1>3 DEF NotReceived, Request, Stages

\* A request that has ended knows nothing but whether its turn was saved.
LEMMA EndedIsSound ==
    ASSUME IInv, NEW r \in Requests, NEW e \in {"done", "gone"}, NEW st,
           stored[req[r].thread] \subseteq st[req[r].thread]
    PROVE  Ended(r, e) \in Request /\ Sound(Ended(r, e), r, st)
<1>1. /\ req[r] \in Request /\ Sound(req[r], r, stored)
      /\ req[r].thread \in Threads /\ req[r].saved \in BOOLEAN
  BY DEF IInv, Request
<1> DEFINE q == Ended(r, e)
<1>2. q \in Request
  BY <1>1, Blank DEF Ended, Request, Stages
<1>3. /\ q.pc = e /\ q.thread = req[r].thread /\ q.saved = req[r].saved
      /\ q.hit = FALSE /\ q.remembers = {}
  BY Blank DEF Ended, Request
<1> HIDE DEF q
<1>4. Sound(q, r, st)
  BY <1>1, <1>2, <1>3 DEF Sound
<1> QED
  BY <1>2, <1>4 DEF q

\* What a step shows of the requests and of the store, whatever it does to the cache.
Requestwise ==
    /\ stored' \in [Threads -> SUBSET Requests]
    /\ req' \in [Requests -> Request]
    /\ \A q \in Requests : Sound(req'[q], q, stored')

LEMMA ReceiveIsSound ==
    ASSUME IInv, NEW r \in Requests, Receive(r)
    PROVE  Requestwise
<1>1. PICK t \in Threads, a \in Asks, e \in Endpoints, b \in Brings :
          /\ e = "search" => b # "files"
          /\ Earlier(t) # {} \/ t = NextThread
          /\ req' = [req EXCEPT ![r] = Received(r, t, a, e, b)]
  BY Zenon DEF Receive
<1> DEFINE R == {o \in Earlier(t) : req[o].pc = "done" /\ req[o].saved}
           f == Earlier(t) = {}
           n == Received(r, t, a, e, b)
<1>2. R \in SUBSET Requests /\ R \subseteq stored[t]
  BY DEF IInv, Sound, Earlier
<1>3. req[r] \in Request /\ Sound(req[r], r, stored) /\ req[r].pc = "idle" /\ UNCHANGED stored
  BY DEF IInv, Receive
<1>4. e \in {"search", "search/stream", "chat"}
  BY TurnPipelineAssumption
<1>5. n = [req[r] EXCEPT !.pc = "lookup", !.thread = t, !.asks = a,
                         !.endpoint = e, !.brings = b, !.first = f, !.remembers = R]
  BY DEF Received
<1>6. f \in BOOLEAN
  OBVIOUS
<1> HIDE DEF R, f, n
<1>7. /\ n \in Request /\ n.pc = "lookup" /\ n.thread = t /\ n.remembers = R
      /\ n.hit = req[r].hit /\ n.saved = req[r].saved
  BY <1>2, <1>3, <1>4, <1>5, <1>6 DEF Request, Stages
<1>8. Sound(n, r, stored')
  BY <1>2, <1>3, <1>7 DEF Sound
<1> QED
  BY <1>1, <1>3, <1>7, <1>8, OneRequest DEF Goes, IInv, Requestwise, n

\* A hit replays what the cache holds, and that fits.
LEMMA HitIsSound ==
    ASSUME IInv, NEW r \in Requests, CacheHit(r)
    PROVE  Requestwise
<1> DEFINE k == Key(req[r].asks)
           e == cache[k]
           n == [req[r] EXCEPT !.pc = "respond", !.hit = TRUE, !.answer = e.answer,
                               !.age = now - e.at, !.madeFor = e.madeFor]
<1>1. req[r] \in Request /\ Sound(req[r], r, stored) /\ UNCHANGED stored
  BY DEF IInv, CacheHit
<1>2. k \in Keys /\ req[r].asks \in Asks
  BY <1>1 DEF Request, Keys
<1>3. e.exists /\ ~Expired(e)
  BY DEF CacheHit
<1>4. /\ e \in Entry /\ e.at <= now /\ Shareable(e.answer)
      /\ Key(e.madeFor) = k
  BY <1>2, <1>3 DEF IInv, CacheTrue
<1>5. e.madeFor \in Asks
  BY <1>4 DEF Entry
<1>6. now - e.at \in 0..MaxTime /\ now - e.at <= Ttl
  BY <1>3, <1>4, Numbers DEF Entry, IInv, Expired
<1>7. req' = [req EXCEPT ![r] = n]
  BY DEF CacheHit
<1>8. e.answer \in Answer
  BY <1>4 DEF Entry
<1> HIDE DEF e
<1>9. /\ n \in Request /\ n.pc = "respond" /\ n.hit = TRUE /\ n.answer = e.answer
      /\ n.age <= Ttl /\ n.madeFor = e.madeFor /\ n.asks = req[r].asks /\ n.saved = req[r].saved /\ n.thread = req[r].thread
      /\ n.remembers = req[r].remembers
  BY <1>1, <1>5, <1>6, <1>8 DEF Request, Stages
<1> HIDE DEF n
<1>10. Sound(n, r, stored')
  BY <1>1, <1>4, <1>9 DEF Sound
<1> QED
  BY <1>1, <1>7, <1>9, <1>10, OneRequest DEF Goes, IInv, Requestwise

LEMMA MissIsSound ==
    ASSUME IInv, NEW r \in Requests, CacheMiss(r)
    PROVE  Requestwise
<1> DEFINE n == [req[r] EXCEPT !.pc = "graph", !.loaded = stored[req[r].thread]]
<1>1. /\ req[r] \in Request /\ Sound(req[r], r, stored) /\ UNCHANGED stored
      /\ req[r].pc = "lookup"
  BY DEF IInv, CacheMiss
<1>2. req' = [req EXCEPT ![r] = n]
  BY DEF CacheMiss
<1>3. stored[req[r].thread] \in SUBSET Requests
  BY <1>1 DEF IInv, Request
<1>4. /\ n \in Request /\ n.pc = "graph" /\ n.loaded = stored[req[r].thread]
      /\ n.hit = req[r].hit /\ n.saved = req[r].saved /\ n.thread = req[r].thread
      /\ n.remembers = req[r].remembers
  BY <1>1, <1>3 DEF Request, Stages
<1> HIDE DEF n
<1>5. Sound(n, r, stored')
  BY <1>1, <1>4 DEF Sound
<1> QED
  BY <1>1, <1>2, <1>4, <1>5, OneRequest DEF Goes, IInv, Requestwise

\* The answer of a run is made from what came with the request.
LEMMA AnswerIsSound ==
    ASSUME IInv, NEW r \in Requests, req[r].pc = "graph", UNCHANGED stored,
           NEW f \in SUBSET Flaws, NEW x \in BOOLEAN,
           req' = [req EXCEPT ![r].pc = "respond",
                              ![r].answer = [exists |-> x, flaws |-> f, from |-> req[r].brings]]
    PROVE  Requestwise
<1> DEFINE a == [exists |-> x, flaws |-> f, from |-> req[r].brings]
           n == [req[r] EXCEPT !.pc = "respond", !.answer = a]
<1>1. req[r] \in Request /\ Sound(req[r], r, stored)
  BY DEF IInv
<1>2. a \in Answer /\ a.from = req[r].brings
  BY <1>1 DEF Answer, Request
<1>3. req' = [req EXCEPT ![r] = n]
  OBVIOUS
<1> HIDE DEF a
<1>4. /\ n \in Request /\ n.pc = "respond" /\ n.answer = a /\ n.brings = req[r].brings
      /\ n.hit = req[r].hit /\ n.saved = req[r].saved /\ n.thread = req[r].thread
      /\ n.remembers = req[r].remembers
  BY <1>1, <1>2 DEF Request, Stages
<1> HIDE DEF n
<1>5. Sound(n, r, stored')
  BY <1>1, <1>2, <1>4 DEF Sound
<1> QED
  BY <1>1, <1>3, <1>4, <1>5, OneRequest DEF Goes, IInv, Requestwise

LEMMA EndIsSound ==
    ASSUME IInv, NEW r \in Requests, NEW e \in {"done", "gone"},
           stored' \in [Threads -> SUBSET Requests],
           \A t \in Threads : stored[t] \subseteq stored'[t],
           req' = [req EXCEPT ![r] = Ended(r, e)]
    PROVE  Requestwise
<1>1. req[r].thread \in Threads
  BY DEF IInv, Request
<1>2. Ended(r, e) \in Request /\ Sound(Ended(r, e), r, stored')
  BY <1>1, EndedIsSound
<1> QED
  BY <1>2, OneRequest DEF Goes, Requestwise

LEMMA GraphEndsIsSound ==
    ASSUME IInv, NEW r \in Requests, GraphEnds(r)
    PROVE  Requestwise
<1>1. req[r].pc = "graph" /\ UNCHANGED stored /\ stored' \in [Threads -> SUBSET Requests]
  BY DEF GraphEnds, IInv
<1>2. PICK f \in SUBSET (Flaws \ {"partial"}) :
          req' = IF f = {"blocked"} /\ req[r].endpoint = "search"
                 THEN [req EXCEPT ![r] = Ended(r, "done")]
                 ELSE [req EXCEPT ![r].pc = "respond",
                                  ![r].answer = [exists |-> TRUE, flaws |-> f,
                                                 from |-> req[r].brings]]
  BY DEF GraphEnds
<1>3. f \in SUBSET Flaws
  OBVIOUS
<1>4. CASE f = {"blocked"} /\ req[r].endpoint = "search"
  BY <1>1, <1>2, <1>4, EndIsSound
<1>5. CASE ~(f = {"blocked"} /\ req[r].endpoint = "search")
  <2>1. req' = [req EXCEPT ![r].pc = "respond",
                           ![r].answer = [exists |-> TRUE, flaws |-> f, from |-> req[r].brings]]
    BY <1>2, <1>5
  <2> QED
    BY <1>1, <1>3, <2>1, AnswerIsSound
<1> QED
  BY <1>4, <1>5

LEMMA GraphBreaksIsSound ==
    ASSUME IInv, NEW r \in Requests, GraphBreaks(r)
    PROVE  Requestwise
<1>1. req[r].pc = "graph" /\ UNCHANGED stored /\ stored' \in [Threads -> SUBSET Requests]
  BY DEF GraphBreaks, IInv
<1>2. CASE req[r].endpoint = "search"
  <2>1. req' = [req EXCEPT ![r] = Ended(r, "done")]
    BY <1>2 DEF GraphBreaks
  <2> QED
    BY <1>1, <2>1, EndIsSound
<1>3. CASE req[r].endpoint # "search"
  <2>1. PICK f \in {g \in SUBSET (Flaws \ {"blocked"}) : "partial" \in g \/ g = {}} :
            req' = [req EXCEPT ![r].pc = "respond",
                               ![r].answer = [exists |-> "partial" \in f, flaws |-> f,
                                              from |-> req[r].brings]]
    BY <1>3 DEF GraphBreaks
  <2>2. f \in SUBSET Flaws /\ ("partial" \in f) \in BOOLEAN
    OBVIOUS
  <2> QED
    BY <1>1, <2>1, <2>2, AnswerIsSound
<1> QED
  BY <1>2, <1>3

LEMMA RespondIsSound ==
    ASSUME IInv, NEW r \in Requests, Respond(r)
    PROVE  Requestwise
<1> DEFINE to == IF req[r].answer.exists THEN "save" ELSE "cache"
           n == [req[r] EXCEPT !.pc = to]
<1>1. /\ req[r] \in Request /\ Sound(req[r], r, stored) /\ UNCHANGED stored
      /\ req[r].pc = "respond"
  BY DEF IInv, Respond
<1>2. req' = [req EXCEPT ![r] = n]
  BY DEF Respond
<1>3. to \in {"save", "cache"}
  OBVIOUS
<1> HIDE DEF to
<1>4. /\ n \in Request /\ n.pc \in {"save", "cache"} /\ n.answer = req[r].answer
      /\ n.brings = req[r].brings /\ n.hit = req[r].hit /\ n.madeFor = req[r].madeFor /\ n.asks = req[r].asks
      /\ n.age = req[r].age /\ n.saved = req[r].saved /\ n.thread = req[r].thread
      /\ n.remembers = req[r].remembers
  BY <1>1, <1>3 DEF Request, Stages
<1> HIDE DEF n
<1>5. Sound(n, r, stored')
  BY <1>1, <1>4 DEF Sound
<1> QED
  BY <1>1, <1>2, <1>4, <1>5, OneRequest DEF Goes, IInv, Requestwise

\* What the store gains is a turn.
LEMMA StoreGrows ==
    ASSUME IInv, NEW r \in Requests, NEW ok \in BOOLEAN,
           stored' = [stored EXCEPT ![req[r].thread] = IF ok THEN @ \cup {r} ELSE @]
    PROVE  /\ stored' \in [Threads -> SUBSET Requests]
           /\ \A t \in Threads : stored[t] \subseteq stored'[t]
           /\ ok => r \in stored'[req[r].thread]
<1>1. req[r].thread \in Threads /\ stored \in [Threads -> SUBSET Requests]
  BY DEF IInv, Request
<1> QED
  BY <1>1

LEMMA SaveIsSound ==
    ASSUME IInv, NEW r \in Requests, SaveTurn(r)
    PROVE  Requestwise
<1>1. PICK ok \in BOOLEAN :
          /\ stored' = [stored EXCEPT ![req[r].thread] = IF ok THEN @ \cup {r} ELSE @]
          /\ req' = [req EXCEPT ![r].pc = "cache", ![r].saved = ok]
  BY DEF SaveTurn
<1> DEFINE n == [req[r] EXCEPT !.pc = "cache", !.saved = ok]
<1>2. /\ req[r] \in Request /\ Sound(req[r], r, stored) /\ req[r].pc = "save"
      /\ req[r].thread \in Threads
  BY DEF IInv, SaveTurn, Request
<1>3. /\ stored' \in [Threads -> SUBSET Requests]
      /\ \A t \in Threads : stored[t] \subseteq stored'[t]
      /\ ok => r \in stored'[req[r].thread]
  BY <1>1, StoreGrows
<1>4. req' = [req EXCEPT ![r] = n]
  BY <1>1
<1>5. /\ n \in Request /\ n.pc = "cache" /\ n.answer = req[r].answer
      /\ n.brings = req[r].brings /\ n.hit = req[r].hit /\ n.madeFor = req[r].madeFor /\ n.asks = req[r].asks
      /\ n.age = req[r].age /\ n.saved = ok /\ n.thread = req[r].thread
      /\ n.remembers = req[r].remembers
  BY <1>2 DEF Request, Stages
<1> HIDE DEF n
<1>6. stored[req[r].thread] \subseteq stored'[req[r].thread]
  BY <1>2, <1>3
<1>7. Sound(n, r, stored')
  BY <1>2, <1>3, <1>5, <1>6 DEF Sound
<1> QED
  BY <1>3, <1>4, <1>5, <1>7, OneRequest DEF Goes, Requestwise

LEMMA DisconnectIsSound ==
    ASSUME IInv, NEW r \in Requests, Disconnect(r)
    PROVE  Requestwise
<1>1. PICK late \in BOOLEAN :
          stored' = [stored EXCEPT ![req[r].thread] = IF late THEN @ \cup {r} ELSE @]
  BY DEF Disconnect
<1>2. /\ stored' \in [Threads -> SUBSET Requests]
      /\ \A t \in Threads : stored[t] \subseteq stored'[t]
  BY <1>1, StoreGrows
<1>3. req' = [req EXCEPT ![r] = Ended(r, "gone")]
  BY DEF Disconnect
<1> QED
  BY <1>2, <1>3, EndIsSound

\* What is put in the cache was made for its key, and may be shown to anybody.
LEMMA SetIsSound ==
    ASSUME IInv, NEW r \in Requests, CacheSet(r)
    PROVE  Requestwise /\ CacheTrue(cache', now) /\ CacheFits(cache')
<1>1. Requestwise
  <2>1. UNCHANGED stored /\ req' = [req EXCEPT ![r] = Ended(r, "done")]
    BY DEF CacheSet
  <2> QED
    BY <2>1, EndIsSound DEF IInv
<1>2. CASE ~Cacheable(r)
  BY <1>1, <1>2 DEF CacheSet, IInv
<1>3. CASE Cacheable(r)
  <2> DEFINE k == Key(req[r].asks)
             e == CacheEntry(r)
  <2>1. PICK c \in Room(cache) : cache' = [c EXCEPT ![k] = e]
    BY <1>3 DEF CacheSet
  <2>2. CacheTrue(c, now) /\ IsFiniteSet(Used(c)) /\ Cardinality(Used(c)) < MaxEntries
    BY RoomForOne DEF IInv
  <2>3. req[r] \in Request /\ Sound(req[r], r, stored) /\ req[r].pc = "cache"
    BY DEF IInv, CacheSet
  <2>4. /\ k \in Keys /\ e \in Entry /\ Key(e.madeFor) = k /\ e.at = now
        /\ e.answer = req[r].answer
    BY <2>3 DEF Keys, CacheEntry, Entry, Request, IInv
  <2>5. Shareable(req[r].answer)
    BY <1>3, <2>3 DEF Cacheable, Sound, Shareable
  <2>6. e.at <= now
    BY <2>4 DEF IInv
  <2> HIDE DEF k, e
  <2>7. CacheTrue([c EXCEPT ![k] = e], now) /\ CacheFits([c EXCEPT ![k] = e])
    BY <2>2, <2>4, <2>5, <2>6, EntryStored
  <2> QED
    BY <1>1, <2>1, <2>7
<1> QED
  BY <1>1, <1>2, <1>3

-----------------------------------------------------------------------------
(* The invariant *)

LEMMA Initial == Init => IInv
<1> SUFFICES ASSUME Init PROVE IInv
  OBVIOUS
<1>1. ASSUME NEW k \in Keys
      PROVE  cache[k] \in Entry /\ cache[k].exists = FALSE
  <2>1. SomeAsk \in Asks
    BY TurnPipelineAssumption DEF SomeAsk
  <2>2. 0 \in 0..MaxTime /\ NoAnswer \in Answer
    BY Numbers DEF NoAnswer, Answer
  <2>3. cache[k] = NoEntry
    BY DEF Init
  <2> QED
    BY <2>1, <2>2, <2>3 DEF NoEntry, Entry
<1>2. CacheTrue(cache, now)
  BY <1>1 DEF Init, CacheTrue
<1>3. CacheFits(cache)
  <2>1. Used(cache) = {}
    BY <1>1 DEF Used
  <2>2. IsFiniteSet({}) /\ Cardinality({}) = 0
    BY FS_EmptySet
  <2> QED
    BY <2>1, <2>2, Numbers DEF CacheFits
<1>4. ASSUME NEW r \in Requests
      PROVE  req[r] \in Request /\ Sound(req[r], r, stored)
  <2>1. req[r] = NotReceived
    BY DEF Init
  <2> QED
    BY <2>1, Blank DEF Sound
<1>5. req \in [Requests -> Request] /\ stored \in [Threads -> SUBSET Requests]
  BY Blank DEF Init
<1>6. now \in 0..MaxTime
  BY Numbers DEF Init
<1> QED
  BY <1>2, <1>3, <1>4, <1>5, <1>6 DEF IInv

\* What requests learned is true after a step, and the cache as well.
LEMMA Inductive == IInv /\ [Next]_vars => IInv'
<1> SUFFICES ASSUME IInv, [Next]_vars PROVE IInv'
  OBVIOUS
<1> DEFINE CacheKept == CacheTrue(cache', now') /\ CacheFits(cache') /\ now' \in 0..MaxTime
<1>1. ASSUME Requestwise, CacheKept
      PROVE  IInv'
  BY <1>1 DEF Requestwise, IInv
<1>2. ASSUME UNCHANGED <<now, cache>> PROVE CacheKept
  BY <1>2 DEF IInv
<1> HIDE DEF CacheKept
<1>3. ASSUME NEW r \in Requests, Receive(r) PROVE IInv'
  BY <1>1, <1>2, <1>3, ReceiveIsSound DEF Receive
<1>4. ASSUME NEW r \in Requests, CacheHit(r) PROVE IInv'
  BY <1>1, <1>2, <1>4, HitIsSound DEF CacheHit
<1>5. ASSUME NEW r \in Requests, CacheMiss(r) PROVE IInv'
  <2> DEFINE k == Key(req[r].asks)
  <2>1. now' = now /\ (cache' = cache \/ cache' = Drop(cache, {k}))
    BY <1>5 DEF CacheMiss
  <2>2. CacheTrue(Drop(cache, {k}), now) /\ CacheFits(Drop(cache, {k}))
    BY DropKeeps, DropFits DEF IInv
  <2> HIDE DEF k
  <2>3. CacheKept
    BY <2>1, <2>2 DEF CacheKept, IInv
  <2> QED
    BY <1>1, <1>5, <2>3, MissIsSound
<1>6. ASSUME NEW r \in Requests, GraphEnds(r) PROVE IInv'
  BY <1>1, <1>2, <1>6, GraphEndsIsSound DEF GraphEnds
<1>7. ASSUME NEW r \in Requests, GraphBreaks(r) PROVE IInv'
  BY <1>1, <1>2, <1>7, GraphBreaksIsSound DEF GraphBreaks
<1>8. ASSUME NEW r \in Requests, Respond(r) PROVE IInv'
  BY <1>1, <1>2, <1>8, RespondIsSound DEF Respond
<1>9. ASSUME NEW r \in Requests, SaveTurn(r) PROVE IInv'
  BY <1>1, <1>2, <1>9, SaveIsSound DEF SaveTurn
<1>10. ASSUME NEW r \in Requests, CacheSet(r) PROVE IInv'
  <2>1. now' = now
    BY <1>10 DEF CacheSet
  <2>2. CacheKept
    BY <1>10, <2>1, SetIsSound DEF CacheKept, IInv
  <2> QED
    BY <1>1, <1>10, <2>2, SetIsSound
<1>11. ASSUME NEW r \in Requests, Disconnect(r) PROVE IInv'
  BY <1>1, <1>2, <1>11, DisconnectIsSound DEF Disconnect
<1>12. CASE Tick
  <2>1. now' \in 0..MaxTime /\ now <= now' /\ now \in Nat /\ cache' = cache
    BY <1>12, Numbers DEF Tick, IInv
  <2>2. CacheTrue(cache, now')
    BY <2>1, Numbers DEF CacheTrue, Entry, IInv
  <2>3. CacheKept
    BY <2>1, <2>2 DEF CacheKept, IInv
  <2>4. Requestwise
    BY <1>12 DEF Tick, IInv, Requestwise
  <2> QED
    BY <1>1, <2>3, <2>4
<1>13. CASE UNCHANGED vars
  <2>1. Requestwise
    BY <1>13 DEF vars, IInv, Requestwise
  <2> QED
    BY <1>1, <1>2, <1>13, <2>1 DEF vars
<1> QED
  BY <1>3, <1>4, <1>5, <1>6, <1>7, <1>8, <1>9, <1>10, <1>11, <1>12, <1>13 DEF Next, Step

LEMMA Invariant == Spec => []IInv
  BY Initial, Inductive, PTL DEF Spec

\* The clock, the cache, the saved turns and the records of all requests keep
\* their types: also the age of a replayed entry, which is never negative.
THEOREM TypeCorrect == Spec => []TypeOK
<1>1. IInv => TypeOK
  BY DEF IInv, CacheTrue, TypeOK
<1> QED
  BY <1>1, Invariant, PTL

\* A cache of any size stays within max_entries (ResponseCache.set).
THEOREM CacheStaysWithinLimit == Spec => []CacheWithinLimit
<1>1. IInv => CacheWithinLimit
  BY DEF IInv, CacheFits, CacheWithinLimit
<1> QED
  BY <1>1, Invariant, PTL

\* Requests that share a key are answered in one language, if both write their
\* codes as the gateway knows them: folding maps no two of these to one.
LEMMA OneKeyOneLanguage ==
    ASSUME NEW a \in Asks, NEW b \in Asks, Key(a) = Key(b),
           Proper(a.language), Proper(b.language)
    PROVE  Spoken(a.language) = Spoken(b.language)
<1>1. a.language \in Languages /\ b.language \in Languages
  BY TurnPipelineAssumption
<1>2. Folded[a.language] = Folded[b.language]
  BY DEF Key
<1>3. CASE Folded[a.language] \in Codes
  <2>1. a.language \in Codes /\ b.language \in Codes
    BY <1>2, <1>3 DEF Proper
  <2>2. Folded[a.language] = a.language /\ Folded[b.language] = b.language
    BY <1>1, <2>1, TurnPipelineAssumption
  <2> QED
    BY <1>2, <2>2
<1>4. CASE Folded[a.language] \notin Codes
  <2>1. a.language \notin Codes /\ b.language \notin Codes
    BY <1>1, <1>2, <1>4, TurnPipelineAssumption
  <2> QED
    BY <2>1 DEF Spoken
<1> QED
  BY <1>3, <1>4

\* A hit replays a fresh answer to the same query, but for case and outer blanks,
\* with the same appendix flag; in this request's language, if this request and
\* the one it was made for write their codes as the gateway knows them
\* (ResponseCache.get and _make_key, _build_initial_state).
THEOREM HitsFit == Spec => []HitFitsTheRequest
<1>1. ASSUME IInv, NEW r \in Requests, req[r].hit
      PROVE  LET here == req[r].asks
                 there == req[r].madeFor
             IN /\ req[r].age <= Ttl
                /\ Folded[there.query] = Folded[here.query]
                /\ there.appendix = here.appendix
                /\ Proper(here.language) /\ Proper(there.language) =>
                      Spoken(there.language) = Spoken(here.language)
  <2>1. /\ Key(req[r].madeFor) = Key(req[r].asks) /\ req[r].age <= Ttl
        /\ req[r].madeFor \in Asks /\ req[r].asks \in Asks
    BY <1>1 DEF IInv, Sound, Request
  <2>2. /\ Folded[req[r].madeFor.query] = Folded[req[r].asks.query]
        /\ req[r].madeFor.appendix = req[r].asks.appendix
    BY <2>1 DEF Key
  <2> QED
    BY <2>1, <2>2, OneKeyOneLanguage
<1>2. IInv => HitFitsTheRequest
  BY <1>1 DEF HitFitsTheRequest
<1> QED
  BY <1>2, Invariant, PTL

\* A hit never replays another user's documents, a block message or a web-search
\* fallback (run_chat_pipeline's condition for the cache).
THEOREM HitsAreReplayable == Spec => []HitIsReplayable
<1>1. IInv => HitIsReplayable
  BY DEF IInv, Sound, Shareable, HitIsReplayable
<1> QED
  BY <1>1, Invariant, PTL

\* Whatever done reported as saved is loaded by the later requests of the thread
\* (save_turn before the done event, memory_node after it).
THEOREM DoneIsRemembered == Spec => []DoneMeansRemembered
<1>1. IInv => DoneMeansRemembered
  BY DEF IInv, Sound, DoneMeansRemembered
<1> QED
  BY <1>1, Invariant, PTL
=============================================================================
