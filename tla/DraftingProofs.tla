--------------------------- MODULE DraftingProofs ---------------------------
(***************************************************************************)
(* That a saved draft names the sections it lacks, and that no slot of the *)
(* semaphore is lost or given twice, for any number of threads and turns,  *)
(* of slots and of sections, and whatever fails, is cancelled or is worded *)
(* anew; what the loop that words it anew may do to a text; and that every *)
(* step brings the turn, or the loop, nearer to its end.                   *)
(***************************************************************************)
EXTENDS Drafting, SelfRefine, FiniteSetTheorems, SequenceTheorems, TLAPS

(* A text that lacks a section says so, unless the refiner worded it.      *)
Named(d) == d \in Draft /\ (d.lacks => d.banner \/ d.refined)

(* The sections w written and f given up are the first ones of the draft,  *)
(* none of them both.                                                      *)
Settled(w, f) ==
    /\ IsFiniteSet(w) /\ IsFiniteSet(f) /\ w \cap f = {}
    /\ w \cup f = 1..Cardinality(w) + Cardinality(f)

(* A turn at step p, with the draft pr of the last turn and its own, d, of *)
(* n sections.                                                             *)
Sound(p, pr, d, n, w, f) ==
    /\ Named(pr) /\ Named(d) /\ n \in Nat
    /\ Settled(w, f)
    /\ p = "modify" => ~pr.banner
    /\ p = "pair" => Cardinality(w) + Cardinality(f) < n
    /\ p \notin {"pair", "refine"} => w = {} /\ f = {}

IInv ==
    /\ pc = [t \in Threads |-> pc[t]]
    /\ prior = [t \in Threads |-> prior[t]]
    /\ draft = [t \in Threads |-> draft[t]]
    /\ total = [t \in Threads |-> total[t]]
    /\ written = [t \in Threads |-> written[t]]
    /\ failed = [t \in Threads |-> failed[t]]
    /\ \A t \in Threads : Sound(pc[t], prior[t], draft[t], total[t], written[t], failed[t])

-----------------------------------------------------------------------------
LEMMA Nothing == Settled({}, {}) /\ Named(NoDraft) /\ Named(Plain)
<1>1. IsFiniteSet({}) /\ Cardinality({}) = 0
  BY FS_EmptySet
<1>2. 1..0 + 0 = {}
  OBVIOUS
<1> QED
  BY <1>1, <1>2 DEF Settled, Named, Plain, NoDraft, Draft

(* The pair after c sections of n: the next two, or the last one.          *)
After(c, n) == {i \in 1..n : i - (1 + c) \in {0, 1}}

(* What a pair is for the sections settled before it.                      *)
Follows(pair, w, f, n) ==
    /\ IsFiniteSet(pair) /\ Cardinality(pair) \in {1, 2}
    /\ pair \cap (w \cup f) = {}
    /\ Cardinality(w) + Cardinality(f) + Cardinality(pair) <= n
    /\ w \cup f \cup pair = 1..Cardinality(w) + Cardinality(f) + Cardinality(pair)

LEMMA NextTwo ==
    ASSUME NEW w, NEW f, Settled(w, f), NEW n \in Nat,
           Cardinality(w) + Cardinality(f) < n
    PROVE  Follows(After(Cardinality(w) + Cardinality(f), n), w, f, n)
<1> DEFINE pair == After(Cardinality(w) + Cardinality(f), n)
           c == Cardinality(w) + Cardinality(f)
           last == IF c + 2 <= n THEN c + 2 ELSE c + 1
<1>1. c \in Nat /\ Cardinality(w) \in Nat /\ Cardinality(f) \in Nat
  BY FS_CardinalityType DEF Settled
<1>2. pair = (c + 1)..last
  <2>1. \A i \in Int : i - (1 + c) \in {0, 1} <=> i = c + 1 \/ i = c + 2
    BY <1>1
  <2>2. \A i \in 1..n : i \in pair <=> i = c + 1 \/ i = c + 2
    BY <2>1 DEF After
  <2>3. pair \subseteq 1..n
    BY DEF After
  <2>4. \A i : i \in (c + 1)..last <=> i \in 1..n /\ (i = c + 1 \/ i = c + 2)
    BY <1>1
  <2> QED
    BY <2>2, <2>3, <2>4
<1>3. IsFiniteSet(pair) /\ Cardinality(pair) = last - c
  <2>1. c + 1 \in Int /\ last \in Int /\ ~(c + 1 > last) /\ last - (c + 1) + 1 = last - c
    BY <1>1
  <2>2. /\ IsFiniteSet((c + 1)..last)
        /\ Cardinality((c + 1)..last) = last - (c + 1) + 1
    BY <2>1, FS_Interval
  <2> HIDE DEF c, last, pair
  <2> QED
    BY <1>2, <2>1, <2>2
<1>4. w \cup f = 1..c
  BY DEF Settled
<1>5. Cardinality(pair) \in {1, 2} /\ c + Cardinality(pair) = last /\ last <= n
  BY <1>1, <1>3
<1>6. pair \cap (w \cup f) = {} /\ w \cup f \cup pair = 1..last
  BY <1>1, <1>2, <1>4
<1>7. last = Cardinality(w) + Cardinality(f) + Cardinality(pair)
  BY <1>1, <1>5
<1>8. Cardinality(w) + Cardinality(f) + Cardinality(pair) <= n
  BY <1>1, <1>5
<1> HIDE DEF last, c, pair
<1>9. Follows(pair, w, f, n)
  BY <1>3, <1>5, <1>6, <1>7, <1>8 DEF Follows
<1> QED
  BY <1>9 DEF pair

(* It is settled by being written or by being given up.                    *)
LEMMA PairIsSettled ==
    ASSUME NEW w, NEW f, Settled(w, f), NEW n, NEW pair, Follows(pair, w, f, n)
    PROVE  /\ Settled(w \cup pair, f) /\ Settled(w, f \cup pair)
           /\ Cardinality(w \cup pair) + Cardinality(f) = Cardinality(w) + Cardinality(f) + Cardinality(pair)
           /\ Cardinality(w) + Cardinality(f \cup pair) = Cardinality(w) + Cardinality(f) + Cardinality(pair)
<1>1. /\ Cardinality(w) \in Nat /\ Cardinality(f) \in Nat /\ Cardinality(pair) \in Nat
      /\ IsFiniteSet(w) /\ IsFiniteSet(f) /\ w \cap f = {} /\ Cardinality({}) = 0
  BY FS_CardinalityType, FS_EmptySet DEF Settled, Follows
<1>2. w \cap pair = {} /\ f \cap pair = {}
  BY DEF Follows
<1>7. IsFiniteSet(pair)
  BY DEF Follows
<1>3. IsFiniteSet(w \cup pair) /\ Cardinality(w \cup pair) = Cardinality(w) + Cardinality(pair)
  <2>1. /\ IsFiniteSet(w \cup pair)
        /\ Cardinality(w \cup pair) = Cardinality(w) + Cardinality(pair) - Cardinality(w \cap pair)
    BY <1>1, <1>7, FS_Union
  <2>2. Cardinality(w \cap pair) = 0
    BY <1>1, <1>2, Zenon
  <2> QED
    BY <1>1, <2>1, <2>2
<1>4. IsFiniteSet(f \cup pair) /\ Cardinality(f \cup pair) = Cardinality(f) + Cardinality(pair)
  <2>1. /\ IsFiniteSet(f \cup pair)
        /\ Cardinality(f \cup pair) = Cardinality(f) + Cardinality(pair) - Cardinality(f \cap pair)
    BY <1>1, <1>7, FS_Union
  <2>2. Cardinality(f \cap pair) = 0
    BY <1>1, <1>2, Zenon
  <2> QED
    BY <1>1, <2>1, <2>2
<1>5. /\ Cardinality(w \cup pair) + Cardinality(f) = Cardinality(w) + Cardinality(f) + Cardinality(pair)
      /\ Cardinality(w) + Cardinality(f \cup pair) = Cardinality(w) + Cardinality(f) + Cardinality(pair)
  BY <1>1, <1>3, <1>4
<1>6. /\ (w \cup pair) \cap f = {} /\ w \cap (f \cup pair) = {}
      /\ (w \cup pair) \cup f = w \cup f \cup pair /\ w \cup (f \cup pair) = w \cup f \cup pair
  BY <1>1, <1>2
<1> QED
  BY <1>1, <1>3, <1>4, <1>5, <1>6 DEF Settled, Follows

-----------------------------------------------------------------------------
(* A step changes the turn of one thread.                                  *)
Becomes(t, p, pr, d, n, w, f) ==
    /\ pc' = [pc EXCEPT ![t] = p] /\ prior' = [prior EXCEPT ![t] = pr]
    /\ draft' = [draft EXCEPT ![t] = d] /\ total' = [total EXCEPT ![t] = n]
    /\ written' = [written EXCEPT ![t] = w] /\ failed' = [failed EXCEPT ![t] = f]

LEMMA OneTurn ==
    ASSUME IInv, NEW t \in Threads, NEW p, NEW pr, NEW d, NEW n, NEW w, NEW f,
           Becomes(t, p, pr, d, n, w, f), Sound(p, pr, d, n, w, f)
    PROVE  IInv'
<1>1. /\ pc' = [u \in Threads |-> IF u = t THEN p ELSE pc[u]]
      /\ prior' = [u \in Threads |-> IF u = t THEN pr ELSE prior[u]]
      /\ draft' = [u \in Threads |-> IF u = t THEN d ELSE draft[u]]
      /\ total' = [u \in Threads |-> IF u = t THEN n ELSE total[u]]
      /\ written' = [u \in Threads |-> IF u = t THEN w ELSE written[u]]
      /\ failed' = [u \in Threads |-> IF u = t THEN f ELSE failed[u]]
  BY DEF IInv, Becomes
<1>2. ASSUME NEW u \in Threads
      PROVE  Sound(pc'[u], prior'[u], draft'[u], total'[u], written'[u], failed'[u])
  BY <1>1 DEF IInv
<1> QED
  BY <1>1, <1>2 DEF IInv

(* What is not changed is what it is.                                      *)
LEMMA Unchanged ==
    ASSUME IInv, NEW t \in Threads
    PROVE  /\ pc = [pc EXCEPT ![t] = pc[t]] /\ prior = [prior EXCEPT ![t] = prior[t]]
           /\ draft = [draft EXCEPT ![t] = draft[t]] /\ total = [total EXCEPT ![t] = total[t]]
           /\ written = [written EXCEPT ![t] = written[t]]
           /\ failed = [failed EXCEPT ![t] = failed[t]]
           /\ Sound(pc[t], prior[t], draft[t], total[t], written[t], failed[t])
  BY DEF IInv

(* A turn that only moves on, to a step that is not one of the pairs'.     *)
LEMMA MovesOn ==
    ASSUME IInv, NEW t \in Threads, NEW p, Go(t, p), unchangedWork, UNCHANGED prior,
           pc[t] \notin {"pair", "refine"}, p \notin {"pair", "refine"},
           p = "modify" => ~prior[t].banner
    PROVE  IInv'
<1>1. Sound(p, prior[t], draft[t], total[t], written[t], failed[t])
  BY Unchanged DEF Sound
<1>2. Becomes(t, p, prior[t], draft[t], total[t], written[t], failed[t])
  BY Unchanged DEF Becomes, Go, unchangedWork
<1> QED
  BY <1>1, <1>2, OneTurn

(* A turn that ends leaves what it saves.                                  *)
LEMMA Ends ==
    ASSUME IInv, NEW t \in Threads, NEW d, Named(d), Go(t, "idle"), Saves(t, d)
    PROVE  IInv'
<1>1. Sound("idle", d, NoDraft, 0, {}, {})
  BY Nothing DEF Sound
<1>2. Becomes(t, "idle", d, NoDraft, 0, {}, {})
  BY DEF Becomes, Go, Saves
<1> QED
  BY <1>1, <1>2, OneTurn

(* A turn that has its draft in one go.                                    *)
LEMMA HasItsDraft ==
    ASSUME IInv, NEW t \in Threads, NEW d, Named(d), Drafted(t, d),
           UNCHANGED <<written, failed>>
    PROVE  IInv'
<1>1. Sound("refine", prior[t], d, total[t], written[t], failed[t])
  BY Unchanged DEF Sound
<1>2. pc' = [pc EXCEPT ![t] = "refine"] /\ draft' = [draft EXCEPT ![t] = d]
  BY DEF Drafted, Go
<1>3. /\ prior' = [prior EXCEPT ![t] = prior[t]] /\ total' = [total EXCEPT ![t] = total[t]]
      /\ written' = [written EXCEPT ![t] = written[t]] /\ failed' = [failed EXCEPT ![t] = failed[t]]
  BY Unchanged DEF Drafted
<1>4. Becomes(t, "refine", prior[t], d, total[t], written[t], failed[t])
  BY <1>2, <1>3 DEF Becomes
<1> QED
  BY <1>1, <1>4, OneTurn

(* The pair is settled: the next one follows, or the draft is put together. *)
LEMMA PairOver ==
    ASSUME IInv, NEW t \in Threads, pc[t] = "pair", NEW w, NEW f,
           \/ w = written[t] \cup Pair(t) /\ f = failed[t]
           \/ w = written[t] /\ f = failed[t] \cup Pair(t),
           written' = [written EXCEPT ![t] = w], failed' = [failed EXCEPT ![t] = f],
           NextPair(t, Pair(t)), UNCHANGED <<prior, total>>
    PROVE  IInv'
<1> DEFINE c == Cardinality(written[t]) + Cardinality(failed[t])
<1>1. /\ Settled(written[t], failed[t]) /\ total[t] \in Nat
      /\ Cardinality(written[t]) + Cardinality(failed[t]) < total[t]
      /\ Named(prior[t]) /\ Named(draft[t])
  BY Unchanged DEF Sound
<1>2. Pair(t) = After(Cardinality(written[t]) + Cardinality(failed[t]), total[t])
  BY <1>1, FS_CardinalityType DEF Pair, Position, After, Settled
<1>3. Follows(Pair(t), written[t], failed[t], total[t])
  BY <1>1, <1>2, NextTwo
<1>4. Settled(w, f) /\ Cardinality(w) + Cardinality(f) = c + Cardinality(Pair(t))
  <2>1. /\ Settled(written[t] \cup Pair(t), failed[t]) /\ Settled(written[t], failed[t] \cup Pair(t))
        /\ Cardinality(written[t] \cup Pair(t)) + Cardinality(failed[t])
              = Cardinality(written[t]) + Cardinality(failed[t]) + Cardinality(Pair(t))
        /\ Cardinality(written[t]) + Cardinality(failed[t] \cup Pair(t))
              = Cardinality(written[t]) + Cardinality(failed[t]) + Cardinality(Pair(t))
    BY <1>1, <1>3, PairIsSettled
  <2>2. CASE w = written[t] \cup Pair(t) /\ f = failed[t]
    BY <2>1, <2>2, Zenon
  <2>3. CASE w = written[t] /\ f = failed[t] \cup Pair(t)
    BY <2>1, <2>3, Zenon
  <2> QED
    BY <2>2, <2>3
<1>5. c \in Nat /\ Cardinality(written[t]) \in Nat /\ Cardinality(failed[t]) \in Nat
  BY <1>1, FS_CardinalityType DEF Settled
<1>6. /\ prior' = [prior EXCEPT ![t] = prior[t]] /\ total' = [total EXCEPT ![t] = total[t]]
      /\ w = written'[t] /\ f = failed'[t]
  BY Unchanged DEF IInv
<1>7. CASE PairsLeft(t, Pair(t))
  <2>1. Cardinality(w) + Cardinality(f) < total[t]
    BY <1>1, <1>3, <1>4, <1>5, <1>7 DEF PairsLeft, Position, Follows
  <2>2. Sound("pair", prior[t], draft[t], total[t], w, f)
    BY <1>1, <1>4, <2>1 DEF Sound
  <2>3. pc' = [pc EXCEPT ![t] = "pair"] /\ draft' = [draft EXCEPT ![t] = draft[t]]
    BY <1>7, Unchanged DEF NextPair
  <2> QED
    <3>1. Becomes(t, "pair", prior[t], draft[t], total[t], w, f)
      BY <1>6, <2>3 DEF Becomes
    <3> QED
      BY <2>2, <3>1, OneTurn
<1>8. CASE ~PairsLeft(t, Pair(t))
  <2> DEFINE d == [Plain EXCEPT !.lacks = w # 1..total[t], !.banner = f # {}]
  <2>1. c + Cardinality(Pair(t)) = total[t]
    BY <1>1, <1>3, <1>5, <1>8 DEF PairsLeft, Position, Follows
  <2>2. w \cup f = 1..total[t]
    BY <1>4, <2>1 DEF Settled
  <2>3. Named(d)
    BY <2>2 DEF Named, Plain, NoDraft, Draft
  <2>4. pc' = [pc EXCEPT ![t] = "refine"] /\ draft' = [draft EXCEPT ![t] = d]
    BY <1>6, <1>8 DEF NextPair, Go
  <2>5. Sound("refine", prior[t], d, total[t], w, f)
    BY <1>1, <1>4, <2>3 DEF Sound
  <2> QED
    <3>1. Becomes(t, "refine", prior[t], d, total[t], w, f)
      BY <1>6, <2>4 DEF Becomes
    <3> QED
      BY <2>5, <3>1, OneTurn
<1> QED
  BY <1>7, <1>8

-----------------------------------------------------------------------------
(* The steps                                                               *)

LEMMA BlockedStep == ASSUME IInv, NEW t \in Threads, Blocked(t) PROVE IInv'
<1>1. Sound(pc[t], NoDraft, draft[t], total[t], written[t], failed[t])
  BY Unchanged, Nothing DEF Sound, NoDraft
<1>2. Becomes(t, pc[t], NoDraft, draft[t], total[t], written[t], failed[t])
  BY Unchanged DEF Becomes, Blocked, unchangedWork
<1> QED
  BY <1>1, <1>2, OneTurn

LEMMA BeginStep == ASSUME IInv, NEW t \in Threads, Begin(t) PROVE IInv'
  BY MovesOn DEF Begin

LEMMA WaitsStep == ASSUME IInv, NEW t \in Threads, Waits(t) PROVE IInv'
<1>1. CASE ProbeTimesOut(t)
  BY <1>1, MovesOn DEF ProbeTimesOut
<1>2. CASE Resume(t)
  BY <1>2, MovesOn DEF Resume
<1>3. CASE HeartbeatStops(t)
  BY <1>3, MovesOn DEF HeartbeatStops
<1> QED
  BY <1>1, <1>2, <1>3 DEF Waits

LEMMA CancelledStep == ASSUME IInv, NEW t \in Threads, Cancelled(t) PROVE IInv'
<1>1. Named(prior[t]) /\ Named(NoDraft)
  BY Unchanged, Nothing DEF Sound
<1>2. CASE Go(t, "idle") /\ \E d \in {prior[t], NoDraft} : Saves(t, d)
  BY <1>1, <1>2, Ends
<1>3. CASE pc[t] = "settle" /\ Go(t, "start") /\ UNCHANGED prior /\ unchangedWork
  BY <1>3, MovesOn
<1> QED
  BY <1>2, <1>3 DEF Cancelled, Leaves

(* A draft that carries no banner lacks nothing, or has been worded anew.  *)
LEMMA FastPath == ASSUME IInv, NEW t \in Threads, Start(t) \/ Modify(t) PROVE IInv'
<1>1. CASE Start(t)
  <2>1. PICK p \in {"reference", "context", "modify"} :
           Go(t, p) /\ (p = "modify" => Modifiable(t))
    BY <1>1 DEF Start
  <2> QED
    BY <1>1, <2>1, MovesOn DEF Start, Modifiable
<1>2. CASE Modify(t)
  <2>1. Named(prior[t]) /\ ~prior[t].banner
    BY <1>2, Unchanged DEF Modify, Sound
  <2>2. ASSUME NEW keeps \in BOOLEAN PROVE Named([prior[t] EXCEPT !.banner = @ /\ keeps])
    BY <2>1 DEF Named, Draft
  <2>3. CASE Go(t, "idle") /\ \E keeps \in BOOLEAN : Saves(t, [prior[t] EXCEPT !.banner = @ /\ keeps])
    BY <2>2, <2>3, Ends
  <2>4. CASE (Go(t, "reference") \/ Go(t, "context")) /\ UNCHANGED prior /\ unchangedWork
    BY <1>2, <2>4, MovesOn DEF Modify
  <2> QED
    BY <1>2, <2>3, <2>4 DEF Modify, Leaves
<1> QED
  BY <1>1, <1>2

LEMMA AwaitSteps ==
    ASSUME IInv, NEW t \in Threads, Reference(t) \/ Web(t) \/ Context(t)
    PROVE  IInv'
<1>1. PICK from \in {"reference", "web", "context"} : \E p \in {"generate", "web"} :
         pc[t] = from /\ Go(t, p) /\ UNCHANGED prior /\ unchangedWork
  BY DEF Reference, Web, Context, Proceeds
<1> QED
  BY <1>1, MovesOn

LEMMA TooLargeStep == ASSUME IInv, NEW t \in Threads, TooLarge(t) PROVE IInv'
<1>1. Named([NoDraft EXCEPT !.kind = "notice"])
  BY DEF Named, NoDraft, Draft
<1> QED
  BY <1>1, HasItsDraft DEF TooLarge

LEMMA FailsStep == ASSUME IInv, NEW t \in Threads, Fails(t) PROVE IInv'
  BY Ends, Nothing DEF Fails, Leaves

LEMMA OnePassSteps ==
    ASSUME IInv, NEW t \in Threads, SinglePass(t) \/ Paraphrase(t)
    PROVE  IInv'
<1>1. CASE Drafted(t, Plain) /\ UNCHANGED <<written, failed>>
  BY <1>1, Nothing, HasItsDraft
<1>2. CASE Proceeds(t, "single", {"paraphrase"})
  BY <1>2, MovesOn DEF Proceeds
<1> QED
  BY <1>1, <1>2, FailsStep DEF SinglePass, Paraphrase

LEMMA JudgeStep == ASSUME IInv, NEW t \in Threads, Judge(t) PROVE IInv'
<1>1. PICK n \in 0..Cap + 1 :
         /\ total' = [total EXCEPT ![t] = Trimmed(n)]
         /\ pc' = [pc EXCEPT ![t] = IF n = 0 THEN "single" ELSE "pair"]
  BY DEF Judge, Judged, Go
<1>2. Trimmed(n) \in Nat /\ (n # 0 => 0 < Trimmed(n))
  BY DraftingAssumption DEF Trimmed
<1>3. written[t] = {} /\ failed[t] = {} /\ Cardinality({}) = 0
  BY Unchanged, FS_EmptySet DEF Judge, Sound
<1>4. Sound(IF n = 0 THEN "single" ELSE "pair", prior[t], draft[t], Trimmed(n), written[t], failed[t])
  <2>1. Named(prior[t]) /\ Named(draft[t]) /\ Settled(written[t], failed[t])
    BY Unchanged DEF Sound
  <2>2. n # 0 => Cardinality(written[t]) + Cardinality(failed[t]) < Trimmed(n)
    BY <1>2, <1>3
  <2> QED
    BY <1>2, <1>3, <2>1, <2>2 DEF Sound
<1>5. Becomes(t, IF n = 0 THEN "single" ELSE "pair", prior[t], draft[t], Trimmed(n), written[t], failed[t])
  BY <1>1, Unchanged DEF Becomes, Judge
<1> QED
  BY <1>4, <1>5, OneTurn

LEMMA PairSteps ==
    ASSUME IInv, NEW t \in Threads, PairWritten(t) \/ PairRetried(t) \/ PairFailed(t)
    PROVE  IInv'
<1>1. CASE PairWritten(t)
  <2>1. /\ written' = [written EXCEPT ![t] = written[t] \cup Pair(t)]
        /\ failed' = [failed EXCEPT ![t] = failed[t]]
    BY <1>1, Unchanged DEF PairWritten
  <2> QED
    BY <1>1, <2>1, PairOver DEF PairWritten
<1>2. CASE PairFailed(t)
  <2>1. /\ failed' = [failed EXCEPT ![t] = failed[t] \cup Pair(t)]
        /\ written' = [written EXCEPT ![t] = written[t]]
    BY <1>2, Unchanged DEF PairFailed
  <2> QED
    BY <1>2, <2>1, PairOver DEF PairFailed
<1>3. CASE PairRetried(t)
  BY <1>3 DEF PairRetried, IInv
<1> QED
  BY <1>1, <1>2, <1>3

LEMMA RefineStep == ASSUME IInv, NEW t \in Threads, Refine(t) PROVE IInv'
<1>1. Named(draft[t])
  BY Unchanged DEF Sound
<1>2. ASSUME NEW keeps \in BOOLEAN
      PROVE  Named([draft[t] EXCEPT !.refined = TRUE, !.banner = @ /\ keeps])
  BY <1>1 DEF Named, Draft
<1> QED
  BY <1>1, <1>2, Ends DEF Refine, Leaves

LEMMA Inductive == Spec => []IInv
<1>1. Init => IInv
  <2>1. Sound("idle", NoDraft, NoDraft, 0, {}, {})
    BY Nothing DEF Sound
  <2> QED
    BY <2>1 DEF Init, IInv
<1>2. IInv /\ [Next]_vars => IInv'
  <2>1. SUFFICES ASSUME IInv, [Next]_vars PROVE IInv'
    OBVIOUS
  <2>2. ASSUME NEW t \in Threads, Blocked(t) \/ Begin(t) \/ Waits(t) \/ Cancelled(t) PROVE IInv'
    BY <2>1, <2>2, BlockedStep, BeginStep, WaitsStep, CancelledStep
  <2>3. ASSUME NEW t \in Threads, Works(t) PROVE IInv'
    BY <2>1, <2>3, FastPath, AwaitSteps, TooLargeStep, OnePassSteps, JudgeStep, PairSteps,
       RefineStep DEF Works
  <2>4. CASE UNCHANGED vars
    BY <2>1, <2>4 DEF vars, IInv
  <2> QED
    BY <2>1, <2>2, <2>3, <2>4 DEF Next
<1> QED
  BY <1>1, <1>2, PTL DEF Spec

-----------------------------------------------------------------------------
(* Over any number of turns, modified, drafted anew, cancelled or lost: a  *)
(* saved draft that lacks a section says so, or the refiner has worded it. *)
THEOREM LacksAreNamed == Spec => []MissingSectionsAreNamed
<1>1. IInv => MissingSectionsAreNamed
  BY DEF IInv, Sound, Named, MissingSectionsAreNamed
<1> QED
  BY <1>1, Inductive, PTL

-----------------------------------------------------------------------------
(* The semaphore                                                           *)

(* The semaphore s with the turns w at its acquire, and k slots not held:  *)
(* each of them is free, or on its way to a woken waiter.                  *)
Balanced(s, w, k) ==
    /\ s \in [value : Nat, waiters : Seq(Threads), woken : SUBSET Threads]
    /\ IsInjective(s.waiters) /\ ToSet(s.waiters) \cap s.woken = {}
    /\ ToSet(s.waiters) \cup s.woken = w
    /\ s.value + Cardinality(s.woken) = k

LEMMA AThread ==
    ASSUME NEW t \in Threads, NEW S \in SUBSET Threads
    PROVE  /\ IsFiniteSet(S) /\ Cardinality(S) \in Nat
           /\ t \notin S => Cardinality(S \cup {t}) = Cardinality(S) + 1
           /\ t \in S => Cardinality(S \ {t}) = Cardinality(S) - 1
<1>1. IsFiniteSet(S) /\ Cardinality(S) \in Nat
  BY DraftingAssumption, FS_Subset, FS_CardinalityType
<1> QED
  BY <1>1, FS_AddElement, FS_RemoveElement

(* The n first in line are woken.                                          *)
Woken(s, n) ==
    [value |-> s.value - n,
     waiters |-> SubSeq(s.waiters, n + 1, Len(s.waiters)),
     woken |-> s.woken \cup {s.waiters[i] : i \in 1..n}]

LEMMA WokenKeepsBalance ==
    ASSUME NEW s, NEW w, NEW k, Balanced(s, w, k),
           NEW n \in Nat, n <= s.value, n <= Len(s.waiters)
    PROVE  Balanced(Woken(s, n), w, k)
<1> DEFINE line == s.waiters
           rest == SubSeq(line, n + 1, Len(line))
           first == {line[i] : i \in 1..n}
<1>1. s.value \in Nat /\ line \in Seq(Threads) /\ s.woken \in SUBSET Threads
  BY DEF Balanced
<1>2. Len(line) \in Nat /\ DOMAIN line = 1..Len(line) /\ \A i \in 1..Len(line) : line[i] \in Threads
  BY <1>1
<1>3. /\ \A i, j \in 1..Len(line) : line[i] = line[j] => i = j
      /\ \A i \in 1..Len(line) : line[i] \notin s.woken
      /\ \A t : t \in w <=> t \in s.woken \/ \E i \in 1..Len(line) : t = line[i]
      /\ s.value + Cardinality(s.woken) = k
  BY <1>2 DEF Balanced, IsInjective, ToSet
<1>4. /\ rest \in Seq(Threads) /\ Len(rest) = Len(line) - n /\ DOMAIN rest = 1..Len(line) - n
      /\ \A i \in 1..Len(line) - n : rest[i] = line[n + i]
  <2>1. n + 1 \in Int /\ Len(line) \in Int /\ \A i \in (n + 1)..Len(line) : line[i] \in Threads
    BY <1>2
  <2>2. /\ rest \in Seq(Threads)
        /\ Len(rest) = IF n + 1 <= Len(line) THEN Len(line) - (n + 1) + 1 ELSE 0
        /\ \A i \in 1..Len(line) - (n + 1) + 1 : rest[i] = line[(n + 1) + i - 1]
    BY <2>1, SubSeqProperties
  <2> HIDE DEF rest
  <2>3. Len(rest) = Len(line) - n /\ Len(line) - (n + 1) + 1 = Len(line) - n
    BY <1>2, <2>2
  <2>4. \A i \in 1..Len(line) - n : (n + 1) + i - 1 = n + i
    BY <1>2
  <2> QED
    BY <2>2, <2>3, <2>4
<1>5. \A j : j \in 1..Len(line) <=> j \in 1..n \/ \E i \in 1..Len(line) - n : j = n + i
  <2>1. ASSUME NEW j \in 1..Len(line), j \notin 1..n
        PROVE  \E i \in 1..Len(line) - n : j = n + i
    <3>1. j - n \in 1..Len(line) - n /\ j = n + (j - n)
      BY <1>2, <2>1
    <3> QED
      BY <3>1
  <2>2. 1..n \subseteq 1..Len(line) /\ \A i \in 1..Len(line) - n : n + i \in 1..Len(line)
    BY <1>2
  <2> QED
    BY <2>1, <2>2
<1>6. ToSet(rest) = {line[n + i] : i \in 1..Len(line) - n}
  BY <1>4 DEF ToSet
<1>7. Cardinality(first) = n /\ IsFiniteSet(first)
  <2>1. 1..n \subseteq 1..Len(line)
    BY <1>2
  <2>2. [i \in 1..n |-> line[i]] \in Bijection(1..n, first)
    BY <1>3, <2>1 DEF Bijection, Injection, Surjection, IsInjective
  <2>3. IsFiniteSet(1..n) /\ Cardinality(1..n) = n
    BY FS_Interval
  <2> QED
    BY <2>2, <2>3, FS_Bijection, FS_SameCardinalityBij DEF ExistsBijection
<1>8. first \cap s.woken = {} /\ first \subseteq Threads
  BY <1>2, <1>3, <1>5
<1>9. s.value - n \in Nat /\ (s.value - n) + Cardinality(s.woken \cup first) = k
  <2>1. IsFiniteSet(s.woken) /\ Cardinality(s.woken) \in Nat
    BY <1>1, DraftingAssumption, FS_Subset, FS_CardinalityType
  <2>2. Cardinality(s.woken \cup first) = Cardinality(s.woken) + Cardinality(first) - Cardinality(s.woken \cap first)
    BY <1>7, <2>1, FS_Union
  <2>3. Cardinality(s.woken \cap first) = 0
    <3>1. s.woken \cap first = {}
      BY <1>8
    <3> QED
      BY <3>1, FS_EmptySet
  <2> HIDE DEF first
  <2>4. Cardinality(s.woken \cup first) = Cardinality(s.woken) + n
    BY <1>7, <2>1, <2>2, <2>3
  <2> QED
    BY <1>1, <1>3, <2>1, <2>4
<1>10. IsInjective(rest)
  <2> HIDE DEF rest
  <2>1. ASSUME NEW i \in DOMAIN rest, NEW j \in DOMAIN rest, rest[i] = rest[j] PROVE i = j
    <3>1. i \in 1..Len(line) - n /\ j \in 1..Len(line) - n /\ line[n + i] = line[n + j]
      BY <1>4, <2>1
    <3>2. n + i \in 1..Len(line) /\ n + j \in 1..Len(line)
      BY <1>2, <3>1
    <3>3. n + i = n + j
      BY <1>3, <3>1, <3>2
    <3> QED
      BY <1>2, <3>1, <3>3
  <2> QED
    BY <2>1 DEF IsInjective
<1>11. ToSet(rest) \cap (s.woken \cup first) = {}
  <2>1. ASSUME NEW i \in 1..Len(line) - n PROVE line[n + i] \notin s.woken \cup first
    <3>1. n + i \in 1..Len(line) /\ \A j \in 1..n : j \in 1..Len(line) /\ j # n + i
      BY <1>2
    <3> QED
      BY <1>3, <3>1
  <2> QED
    BY <1>6, <2>1
<1>12. ToSet(rest) \cup (s.woken \cup first) = w
  <2>1. ASSUME NEW t PROVE t \in w <=> t \in s.woken \/ t \in first \/ \E i \in 1..Len(line) - n : t = line[n + i]
    BY <1>3, <1>5
  <2> QED
    BY <1>6, <2>1
<1> HIDE DEF rest, first
<1> DEFINE q == [value |-> s.value - n, waiters |-> rest, woken |-> s.woken \cup first]
<1>13. q \in [value : Nat, waiters : Seq(Threads), woken : SUBSET Threads]
  BY <1>1, <1>4, <1>8, <1>9
<1>14. Balanced(q, w, k)
  BY <1>9, <1>10, <1>11, <1>12, <1>13 DEF Balanced
<1> QED
  BY <1>14 DEF Woken, rest, first

(* Slots that are free go to turns in line; none comes or goes.            *)
LEMMA WakeKeepsBalance ==
    ASSUME NEW s, NEW w, NEW k, Balanced(s, w, k), NEW most \in Nat
    PROVE  Balanced(Wake(s, most), w, k)
<1> DEFINE Fits(n) == /\ n <= s.value /\ n <= Len(s.waiters)
                      /\ n = most \/ n = s.value \/ n = Len(s.waiters)
           least == IF most <= s.value /\ most <= Len(s.waiters) THEN most
                    ELSE IF s.value <= Len(s.waiters) THEN s.value ELSE Len(s.waiters)
           n == CHOOSE n \in 0..most : Fits(n)
<1>1. s.value \in Nat /\ Len(s.waiters) \in Nat
  BY DEF Balanced
<1>2. least \in 0..most /\ Fits(least)
  BY <1>1
<1>3. n \in 0..most /\ Fits(n)
  <2> HIDE DEF least, Fits
  <2> QED
    BY <1>2
<1>4. Balanced(Woken(s, n), w, k)
  <2> HIDE DEF n
  <2> QED
    BY <1>3, WokenKeepsBalance
<1> QED
  BY <1>4 DEF Wake, Woken

LEMMA ReleaseBalance ==
    ASSUME NEW s, NEW w, NEW k, Balanced(s, w, k)
    PROVE  Balanced(Release(s), w, k + 1)
<1> DEFINE r == [s EXCEPT !.value = @ + 1]
<1>1. s.value \in Nat /\ Cardinality(s.woken) \in Nat /\ s.value + Cardinality(s.woken) = k
  BY AThread, FS_Subset, FS_CardinalityType, DraftingAssumption DEF Balanced
<1>2. /\ r \in [value : Nat, waiters : Seq(Threads), woken : SUBSET Threads]
      /\ r.value = s.value + 1 /\ r.waiters = s.waiters /\ r.woken = s.woken
  BY <1>1 DEF Balanced
<1>3. (s.value + 1) + Cardinality(s.woken) = k + 1
  BY <1>1
<1>4. Balanced(r, w, k + 1)
  <2> HIDE DEF r
  <2> QED
    BY <1>2, <1>3 DEF Balanced
<1> QED
  BY <1>4, WakeKeepsBalance DEF Release

(* A woken turn goes on, and takes the slot it was woken for with it.      *)
LEMMA ResumedBalance ==
    ASSUME NEW s, NEW w, NEW k, Balanced(s, w, k), NEW t \in s.woken
    PROVE  Balanced(Resumed(s, t), w \ {t}, k - 1)
<1> DEFINE r == [s EXCEPT !.woken = @ \ {t}]
<1>1. s.value \in Nat /\ s.woken \in SUBSET Threads /\ s.value + Cardinality(s.woken) = k
  BY DEF Balanced
<1>2. /\ r \in [value : Nat, waiters : Seq(Threads), woken : SUBSET Threads]
      /\ r.value = s.value /\ r.waiters = s.waiters /\ r.woken = s.woken \ {t}
  BY <1>1 DEF Balanced
<1>3. s.value + Cardinality(s.woken \ {t}) = k - 1
  <2>1. t \in Threads /\ Cardinality(s.woken) \in Nat
    BY <1>1, AThread
  <2>2. Cardinality(s.woken \ {t}) = Cardinality(s.woken) - 1
    BY <1>1, <2>1, AThread
  <2> QED
    BY <1>1, <2>1, <2>2
<1>4. /\ IsInjective(s.waiters) /\ ToSet(s.waiters) \cap (s.woken \ {t}) = {}
      /\ ToSet(s.waiters) \cup (s.woken \ {t}) = w \ {t}
  BY DEF Balanced
<1>5. Balanced(r, w \ {t}, k - 1)
  <2> HIDE DEF r
  <2> QED
    BY <1>2, <1>3, <1>4 DEF Balanced
<1>6. Cardinality(Threads) \in Nat
  BY DraftingAssumption, FS_CardinalityType
<1> QED
  BY <1>5, <1>6, WakeKeepsBalance DEF Resumed

(* Without its one place for t, the line is what it was.                   *)
LEMMA StepsOutOfLine ==
    ASSUME NEW line \in Seq(Threads), IsInjective(line), NEW t \in ToSet(line)
    PROVE  /\ StepsOut(line, t) \in Seq(Threads) /\ IsInjective(StepsOut(line, t))
           /\ ToSet(StepsOut(line, t)) = ToSet(line) \ {t}
<1> DEFINE p == Place(line, t)
           front == SubSeq(line, 1, p - 1)
           back == SubSeq(line, p + 1, Len(line))
           rest == front \o back
<1>1. Len(line) \in Nat /\ DOMAIN line = 1..Len(line) /\ \A i \in 1..Len(line) : line[i] \in Threads
  OBVIOUS
<1>2. \A i, j \in 1..Len(line) : line[i] = line[j] => i = j
  BY <1>1 DEF IsInjective
<1>3. p \in 1..Len(line) /\ line[p] = t
  <2>1. \E i \in DOMAIN line : line[i] = t
    BY DEF ToSet
  <2> QED
    BY <1>1, <2>1 DEF Place
<1> HIDE DEF p
<1>4. front \in Seq(Threads) /\ Len(front) = p - 1 /\ \A i \in 1..p - 1 : front[i] = line[i]
  <2>1. 1 \in Int /\ p - 1 \in Int /\ \A i \in 1..p - 1 : line[i] \in Threads
    BY <1>1, <1>3
  <2>2. /\ front \in Seq(Threads) /\ Len(front) = IF 1 <= p - 1 THEN p - 1 - 1 + 1 ELSE 0
        /\ \A i \in 1..p - 1 - 1 + 1 : front[i] = line[1 + i - 1]
    BY <2>1, SubSeqProperties
  <2>3. p - 1 - 1 + 1 = p - 1 /\ (~(1 <= p - 1) => p - 1 = 0) /\ \A i \in 1..p - 1 : 1 + i - 1 = i
    BY <1>1, <1>3
  <2> HIDE DEF front
  <2> QED
    BY <2>2, <2>3
<1>5. /\ back \in Seq(Threads) /\ Len(back) = Len(line) - p
      /\ \A i \in 1..Len(line) - p : back[i] = line[p + i]
  <2>1. p + 1 \in Int /\ Len(line) \in Int /\ \A i \in (p + 1)..Len(line) : line[i] \in Threads
    BY <1>1, <1>3
  <2>2. /\ back \in Seq(Threads)
        /\ Len(back) = IF p + 1 <= Len(line) THEN Len(line) - (p + 1) + 1 ELSE 0
        /\ \A i \in 1..Len(line) - (p + 1) + 1 : back[i] = line[(p + 1) + i - 1]
    BY <2>1, SubSeqProperties
  <2>3. /\ Len(line) - (p + 1) + 1 = Len(line) - p
        /\ ~(p + 1 <= Len(line)) => Len(line) - p = 0
    <3> DEFINE n == Len(line)
    <3>1. n \in Nat /\ p \in 1..n
      BY <1>1, <1>3
    <3> HIDE DEF n
    <3>2. n - (p + 1) + 1 = n - p /\ (~(p + 1 <= n) => n - p = 0)
      BY <3>1
    <3> QED
      BY <3>2 DEF n
  <2>4. \A i \in 1..Len(line) - p : (p + 1) + i - 1 = p + i
    BY <1>1, <1>3
  <2> HIDE DEF back
  <2> QED
    BY <2>2, <2>3, <2>4
<1> HIDE DEF front, back
<1>6. /\ rest \in Seq(Threads) /\ Len(rest) = Len(line) - 1 /\ DOMAIN rest = 1..Len(line) - 1
      /\ \A i \in 1..Len(line) - 1 : rest[i] = IF i < p THEN line[i] ELSE line[i + 1]
  <2>1. /\ rest \in Seq(Threads) /\ Len(rest) = Len(front) + Len(back)
        /\ \A i \in 1..Len(front) + Len(back) :
             rest[i] = IF i <= Len(front) THEN front[i] ELSE back[i - Len(front)]
    BY <1>4, <1>5, ConcatProperties
  <2> HIDE DEF rest
  <2>2. Len(front) + Len(back) = Len(line) - 1
    BY <1>1, <1>3, <1>4, <1>5
  <2>3. ASSUME NEW i \in 1..Len(line) - 1 PROVE rest[i] = IF i < p THEN line[i] ELSE line[i + 1]
    <3>1. CASE i < p
      <4>1. i \in 1..p - 1 /\ i <= Len(front)
        BY <1>1, <1>3, <1>4, <3>1
      <4> QED
        BY <1>4, <2>1, <2>2, <3>1, <4>1
    <3>2. CASE ~(i < p)
      <4>1. ~(i <= Len(front)) /\ i - Len(front) \in 1..Len(line) - p /\ p + (i - Len(front)) = i + 1
        BY <1>1, <1>3, <1>4, <3>2
      <4>2. rest[i] = back[i - Len(front)] /\ back[i - Len(front)] = line[p + (i - Len(front))]
        BY <1>5, <2>1, <2>2, <4>1
      <4> QED
        BY <3>2, <4>1, <4>2
    <3> QED
      BY <3>1, <3>2
  <2> QED
    BY <2>1, <2>2, <2>3, LenProperties
<1> DEFINE from(i) == IF i < p THEN i ELSE i + 1
<1>7. /\ \A i \in 1..Len(line) - 1 : rest[i] = line[from(i)]
      /\ \A i \in 1..Len(line) - 1 : from(i) \in 1..Len(line) /\ from(i) # p
      /\ \A i, j \in 1..Len(line) - 1 : from(i) = from(j) => i = j
      /\ \A j \in 1..Len(line) : j # p => \E i \in 1..Len(line) - 1 : from(i) = j
  <2>1. \A j \in 1..Len(line) : j < p => j \in 1..Len(line) - 1 /\ from(j) = j
    BY <1>1, <1>3
  <2>2. \A j \in 1..Len(line) : p < j => j - 1 \in 1..Len(line) - 1 /\ from(j - 1) = j
    BY <1>1, <1>3
  <2>3. \A j \in 1..Len(line) : j # p => j < p \/ p < j
    BY <1>1, <1>3
  <2>4. /\ \A i \in 1..Len(line) - 1 : from(i) \in 1..Len(line) /\ from(i) # p
        /\ \A i, j \in 1..Len(line) - 1 : from(i) = from(j) => i = j
    BY <1>1, <1>3
  <2>5. \A i \in 1..Len(line) - 1 : rest[i] = line[from(i)]
    BY <1>6
  <2>6. ASSUME NEW j \in 1..Len(line), j # p
        PROVE  \E i \in 1..Len(line) - 1 : from(i) = j
    <3> HIDE DEF from, rest
    <3> QED
      BY <2>1, <2>2, <2>3, <2>6
  <2> QED
    BY <2>4, <2>5, <2>6
<1> HIDE DEF rest, from
<1>8. IsInjective(rest)
  <2>1. ASSUME NEW i \in DOMAIN rest, NEW j \in DOMAIN rest, rest[i] = rest[j] PROVE i = j
    <3>1. i \in 1..Len(line) - 1 /\ j \in 1..Len(line) - 1
      BY <1>6
    <3>2. line[from(i)] = line[from(j)]
      BY <1>7, <2>1, <3>1
    <3>3. from(i) = from(j)
      BY <1>2, <1>7, <3>1, <3>2
    <3> QED
      BY <1>7, <3>1, <3>3
  <2> QED
    BY <2>1 DEF IsInjective
<1>9. ToSet(rest) = ToSet(line) \ {t}
  <2>1. ASSUME NEW u \in ToSet(rest) PROVE u \in ToSet(line) /\ u # t
    <3>1. PICK i \in 1..Len(line) - 1 : u = rest[i]
      BY <1>6 DEF ToSet
    <3>2. u = line[from(i)] /\ from(i) \in 1..Len(line) /\ from(i) # p
      BY <1>7, <3>1
    <3>3. line[from(i)] # line[p]
      BY <1>2, <1>3, <3>2
    <3> QED
      BY <1>1, <1>3, <3>2, <3>3 DEF ToSet
  <2>2. ASSUME NEW u \in ToSet(line), u # t PROVE u \in ToSet(rest)
    <3>1. PICK j \in 1..Len(line) : u = line[j]
      BY <1>1 DEF ToSet
    <3>2. PICK i \in 1..Len(line) - 1 : from(i) = j
      BY <1>3, <1>7, <2>2, <3>1
    <3> QED
      BY <1>6, <1>7, <3>1, <3>2 DEF ToSet
  <2> QED
    BY <2>1, <2>2
<1>10. rest = StepsOut(line, t)
  BY DEF rest, front, back, p, StepsOut, RemoveAt
<1> QED
  BY <1>6, <1>8, <1>9, <1>10

(* A cancelled acquire holds nothing.                                      *)
LEMMA AbandonBalance ==
    ASSUME NEW s, NEW w, NEW k, Balanced(s, w, k), NEW t \in w
    PROVE  Balanced(Abandon(s, t), w \ {t}, k)
<1>1. /\ s.value \in Nat /\ s.waiters \in Seq(Threads) /\ s.woken \in SUBSET Threads
      /\ s.value + Cardinality(s.woken) = k /\ IsInjective(s.waiters)
      /\ ToSet(s.waiters) \cap s.woken = {} /\ ToSet(s.waiters) \cup s.woken = w
      /\ s \in [value : Nat, waiters : Seq(Threads), woken : SUBSET Threads]
  BY DEF Balanced
<1>2. Cardinality(s.woken) \in Nat /\ Cardinality(Threads) \in Nat
  BY <1>1, DraftingAssumption, FS_Subset, FS_CardinalityType
<1>3. CASE t \in s.woken
  <2> DEFINE r == [s EXCEPT !.value = @ + 1]
  <2>1. /\ r \in [value : Nat, waiters : Seq(Threads), woken : SUBSET Threads]
        /\ r.value = s.value + 1 /\ r.waiters = s.waiters /\ r.woken = s.woken
    BY <1>1
  <2> HIDE DEF r
  <2>2. Balanced(r, w, k + 1)
    <3>1. r.value + Cardinality(r.woken) = k + 1
      BY <1>1, <1>2, <2>1
    <3> QED
      BY <1>1, <2>1, <3>1 DEF Balanced
  <2> DEFINE free == k + 1
  <2>3. Balanced(r, w, free) /\ t \in r.woken /\ free - 1 = k
    BY <1>1, <1>2, <1>3, <2>1, <2>2
  <2> HIDE DEF free
  <2>4. Balanced(Resumed(r, t), w \ {t}, free - 1)
    BY <2>3, ResumedBalance
  <2>5. Abandon(s, t) = Resumed(r, t)
    BY <1>3 DEF Abandon, r
  <2> QED
    BY <2>3, <2>4, <2>5
<1>4. CASE t \notin s.woken
  <2> DEFINE r == [s EXCEPT !.waiters = StepsOut(@, t)]
  <2>1. t \in ToSet(s.waiters)
    BY <1>1, <1>4
  <2>2. /\ StepsOut(s.waiters, t) \in Seq(Threads) /\ IsInjective(StepsOut(s.waiters, t))
        /\ ToSet(StepsOut(s.waiters, t)) = ToSet(s.waiters) \ {t}
    BY <1>1, <2>1, StepsOutOfLine
  <2>3. /\ r \in [value : Nat, waiters : Seq(Threads), woken : SUBSET Threads]
        /\ r.value = s.value /\ r.waiters = StepsOut(s.waiters, t) /\ r.woken = s.woken
    BY <1>1, <2>2
  <2>4. (ToSet(s.waiters) \ {t}) \cap s.woken = {} /\ (ToSet(s.waiters) \ {t}) \cup s.woken = w \ {t}
    BY <1>1, <1>4
  <2>5. Balanced(r, w \ {t}, k)
    <3> HIDE DEF r
    <3> QED
      BY <1>1, <2>2, <2>3, <2>4 DEF Balanced
  <2> QED
    BY <1>2, <1>4, <2>5, WakeKeepsBalance DEF Abandon
<1> QED
  BY <1>3, <1>4

LEMMA LineBalance ==
    ASSUME NEW s, NEW w, NEW k, Balanced(s, w, k), NEW t \in Threads, t \notin w
    PROVE  Balanced(Line(s, t), w \cup {t}, k)
<1> DEFINE line == s.waiters
           longer == Append(line, t)
<1>1. /\ line \in Seq(Threads) /\ IsInjective(line)
      /\ ToSet(line) \cap s.woken = {} /\ ToSet(line) \cup s.woken = w
      /\ s.value + Cardinality(s.woken) = k
      /\ s \in [value : Nat, waiters : Seq(Threads), woken : SUBSET Threads]
  BY DEF Balanced
<1>2. /\ Len(line) \in Nat /\ DOMAIN line = 1..Len(line)
      /\ longer \in Seq(Threads) /\ DOMAIN longer = 1..Len(line) + 1
      /\ \A i \in 1..Len(line) : longer[i] = line[i]
      /\ longer[Len(line) + 1] = t
  BY <1>1
<1>3. \A i : i \in 1..Len(line) + 1 <=> i \in 1..Len(line) \/ i = Len(line) + 1
  BY <1>2
<1> HIDE DEF longer
<1>4. ToSet(longer) = ToSet(line) \cup {t}
  BY <1>2, <1>3 DEF ToSet
<1>5. t \notin ToSet(line) /\ t \notin s.woken
  BY <1>1
<1>6. IsInjective(longer)
  BY <1>1, <1>2, <1>3, <1>5 DEF IsInjective, ToSet
<1> DEFINE r == Line(s, t)
<1>7. /\ r \in [value : Nat, waiters : Seq(Threads), woken : SUBSET Threads]
      /\ r.value = s.value /\ r.waiters = longer /\ r.woken = s.woken
  BY <1>1, <1>2 DEF Line, longer
<1>8. ToSet(longer) \cap s.woken = {} /\ ToSet(longer) \cup s.woken = w \cup {t}
  BY <1>1, <1>4, <1>5
<1> HIDE DEF r
<1>9. Balanced(r, w \cup {t}, k)
  BY <1>1, <1>6, <1>7, <1>8 DEF Balanced
<1> QED
  BY <1>9 DEF r

LEMMA TakeBalance ==
    ASSUME NEW s, NEW w, NEW k, Balanced(s, w, k), ~Locked(s)
    PROVE  Balanced(Take(s), w, k - 1)
<1> DEFINE r == Take(s)
<1>1. s.value \in Nat \ {0} /\ s.woken \in SUBSET Threads /\ s.value + Cardinality(s.woken) = k
  BY DEF Balanced, Locked
<1>2. Cardinality(s.woken) \in Nat
  BY <1>1, DraftingAssumption, FS_Subset, FS_CardinalityType
<1>3. (s.value - 1) + Cardinality(s.woken) = k - 1 /\ s.value - 1 \in Nat
  BY <1>1, <1>2
<1>4. /\ r \in [value : Nat, waiters : Seq(Threads), woken : SUBSET Threads]
      /\ r.value = s.value - 1 /\ r.waiters = s.waiters /\ r.woken = s.woken
  BY <1>1, <1>3 DEF Take, Balanced
<1> HIDE DEF r
<1>5. Balanced(r, w, k - 1)
  BY <1>3, <1>4 DEF Balanced
<1> QED
  BY <1>5 DEF r

-----------------------------------------------------------------------------
(* The turns and the semaphore                                             *)

AtAcquire == {t \in Threads : pc[t] \in {"probe", "queue"}}

SlotInv ==
    /\ pc = [t \in Threads |-> pc[t]]
    /\ Balanced(semaphore, AtAcquire, Slots - Cardinality(Holders))

Holding == Drafts \cup {"settle"}

(* One turn moves on to step p.                                            *)
LEMMA TurnMoves ==
    ASSUME SlotInv, NEW t \in Threads, NEW p, Go(t, p)
    PROVE  /\ pc' = [u \in Threads |-> pc'[u]]
           /\ AtAcquire' = IF p \in {"probe", "queue"} THEN AtAcquire \cup {t} ELSE AtAcquire \ {t}
           /\ Slots - Cardinality(Holders') =
                CASE pc[t] \in Holding /\ p \notin Holding -> Slots - Cardinality(Holders) + 1
                  [] pc[t] \notin Holding /\ p \in Holding -> Slots - Cardinality(Holders) - 1
                  [] OTHER -> Slots - Cardinality(Holders)
<1>1. pc' = [u \in Threads |-> IF u = t THEN p ELSE pc[u]]
  BY DEF SlotInv, Go
<1>2. AtAcquire' = IF p \in {"probe", "queue"} THEN AtAcquire \cup {t} ELSE AtAcquire \ {t}
  BY <1>1 DEF AtAcquire
<1>3. Holders' = IF p \in Holding THEN Holders \cup {t} ELSE Holders \ {t}
  BY <1>1 DEF Holders, Holding
<1>4. Holders \in SUBSET Threads /\ (t \in Holders <=> pc[t] \in Holding)
  BY DEF Holders, Holding
<1>5. /\ Cardinality(Holders) \in Nat
      /\ t \notin Holders => Cardinality(Holders \cup {t}) = Cardinality(Holders) + 1
      /\ t \in Holders => Cardinality(Holders \ {t}) = Cardinality(Holders) - 1
  BY <1>4, AThread
<1>6. (t \in Holders => Holders \cup {t} = Holders) /\ (t \notin Holders => Holders \ {t} = Holders)
  OBVIOUS
<1>7. Slots \in Nat
  BY DraftingAssumption
<1>8. CASE pc[t] \in Holding /\ p \notin Holding
  <2>1. Cardinality(Holders') = Cardinality(Holders) - 1
    BY <1>3, <1>4, <1>5, <1>8
  <2> QED
    BY <1>1, <1>2, <1>5, <1>7, <1>8, <2>1
<1>9. CASE pc[t] \notin Holding /\ p \in Holding
  <2>1. Cardinality(Holders') = Cardinality(Holders) + 1
    BY <1>3, <1>4, <1>5, <1>9
  <2> QED
    BY <1>1, <1>2, <1>5, <1>7, <1>9, <2>1
<1>10. CASE pc[t] \in Holding <=> p \in Holding
  <2>1. Holders' = Holders
    BY <1>3, <1>4, <1>6, <1>10
  <2> QED
    BY <1>1, <1>2, <1>10, <2>1
<1> QED
  BY <1>8, <1>9, <1>10

(* A turn that drafts stays with its slot.                                 *)
LEMMA KeepsItsSlot ==
    ASSUME SlotInv, NEW t \in Threads, NEW p, Go(t, p), UNCHANGED semaphore,
           pc[t] \in Holding, p \in Holding
    PROVE  SlotInv'
<1>1. AtAcquire \ {t} = AtAcquire /\ p \notin {"probe", "queue"}
  BY DEF AtAcquire, Holding, Drafts
<1> QED
  BY <1>1, TurnMoves DEF SlotInv

(* A turn that ends gives its slot back.                                   *)
LEMMA GivesItBack ==
    ASSUME SlotInv, NEW t \in Threads, pc[t] \in Drafts, Leaves(t)
    PROVE  SlotInv'
<1>1. AtAcquire \ {t} = AtAcquire /\ pc[t] \in Holding /\ "idle" \notin Holding
  BY DEF AtAcquire, Holding, Drafts
<1>2. AtAcquire' = AtAcquire /\ Slots - Cardinality(Holders') = Slots - Cardinality(Holders) + 1
  BY <1>1, TurnMoves DEF Leaves
<1>3. Balanced(semaphore', AtAcquire, Slots - Cardinality(Holders) + 1)
  BY ReleaseBalance DEF SlotInv, Leaves
<1> QED
  BY <1>2, <1>3, TurnMoves DEF SlotInv, Leaves

LEMMA SlotBegin == ASSUME SlotInv, NEW t \in Threads, Begin(t) PROVE SlotInv'
<1> DEFINE k == Slots - Cardinality(Holders)
<1>1. Balanced(semaphore, AtAcquire, k) /\ t \notin AtAcquire /\ pc[t] \notin Holding
  BY DEF SlotInv, AtAcquire, Begin, Holding, Drafts
<1>2. CASE Locked(semaphore)
  <2>1. semaphore' = Line(semaphore, t) /\ Go(t, "probe")
    BY <1>2 DEF Begin
  <2>2. AtAcquire' = AtAcquire \cup {t} /\ Slots - Cardinality(Holders') = k
    <3>1. "probe" \notin Holding
      BY DEF Holding, Drafts
    <3> QED
      BY <1>1, <2>1, <3>1, TurnMoves
  <2>3. Balanced(semaphore', AtAcquire \cup {t}, k)
    BY <1>1, <2>1, LineBalance
  <2> QED
    BY <2>1, <2>2, <2>3, TurnMoves DEF SlotInv
<1>3. CASE ~Locked(semaphore)
  <2>1. semaphore' = Take(semaphore) /\ Go(t, "start")
    BY <1>3 DEF Begin
  <2>2. AtAcquire' = AtAcquire /\ Slots - Cardinality(Holders') = k - 1
    <3>1. "start" \in Holding /\ AtAcquire \ {t} = AtAcquire
      BY <1>1 DEF Holding, Drafts
    <3> QED
      BY <1>1, <2>1, <3>1, TurnMoves
  <2>3. Balanced(semaphore', AtAcquire, k - 1)
    BY <1>1, <1>3, <2>1, TakeBalance
  <2> QED
    BY <2>1, <2>2, <2>3, TurnMoves DEF SlotInv
<1> QED
  BY <1>2, <1>3

LEMMA SlotProbe == ASSUME SlotInv, NEW t \in Threads, ProbeTimesOut(t) PROVE SlotInv'
<1> DEFINE k == Slots - Cardinality(Holders)
           left == Abandon(semaphore, t)
<1>1. Balanced(semaphore, AtAcquire, k) /\ t \in AtAcquire /\ pc[t] \notin Holding
  BY DEF SlotInv, AtAcquire, ProbeTimesOut, Holding, Drafts
<1>2. Balanced(left, AtAcquire \ {t}, k)
  BY <1>1, AbandonBalance
<1>3. CASE Locked(left)
  <2>1. semaphore' = Line(left, t) /\ Go(t, "queue")
    BY <1>3 DEF ProbeTimesOut
  <2>2. AtAcquire' = (AtAcquire \ {t}) \cup {t} /\ Slots - Cardinality(Holders') = k
    <3>1. "queue" \notin Holding /\ (AtAcquire \ {t}) \cup {t} = AtAcquire \cup {t}
      BY DEF Holding, Drafts
    <3> QED
      BY <1>1, <2>1, <3>1, TurnMoves
  <2>3. Balanced(semaphore', (AtAcquire \ {t}) \cup {t}, k)
    <3>1. t \notin AtAcquire \ {t}
      OBVIOUS
    <3> HIDE DEF left, k
    <3> QED
      BY <1>2, <2>1, <3>1, LineBalance
  <2> QED
    BY <2>1, <2>2, <2>3, TurnMoves DEF SlotInv
<1>4. CASE ~Locked(left)
  <2>1. semaphore' = Take(left) /\ Go(t, "settle")
    BY <1>4 DEF ProbeTimesOut
  <2>2. AtAcquire' = AtAcquire \ {t} /\ Slots - Cardinality(Holders') = k - 1
    <3>1. "settle" \in Holding /\ "settle" \notin {"probe", "queue"}
      BY DEF Holding
    <3> QED
      BY <1>1, <2>1, <3>1, TurnMoves
  <2>3. Balanced(semaphore', AtAcquire \ {t}, k - 1)
    <3> HIDE DEF left, k
    <3> QED
      BY <1>2, <1>4, <2>1, TakeBalance
  <2> QED
    BY <2>1, <2>2, <2>3, TurnMoves DEF SlotInv
<1> QED
  BY <1>3, <1>4

LEMMA SlotResume == ASSUME SlotInv, NEW t \in Threads, Resume(t) PROVE SlotInv'
<1> DEFINE k == Slots - Cardinality(Holders)
           p == IF pc[t] = "probe" THEN "start" ELSE "settle"
<1>1. Balanced(semaphore, AtAcquire, k) /\ t \in semaphore.woken /\ pc[t] \notin Holding
  BY DEF SlotInv, Resume, Holding, Drafts
<1>2. Go(t, p) /\ p \in Holding /\ p \notin {"probe", "queue"}
  BY DEF Resume, Holding, Drafts
<1>3. AtAcquire' = AtAcquire \ {t} /\ Slots - Cardinality(Holders') = k - 1
  <2> HIDE DEF p
  <2> QED
    BY <1>1, <1>2, TurnMoves
<1>4. Balanced(semaphore', AtAcquire \ {t}, k - 1)
  BY <1>1, ResumedBalance DEF Resume
<1> QED
  BY <1>2, <1>3, <1>4, TurnMoves DEF SlotInv

LEMMA SlotCancelled == ASSUME SlotInv, NEW t \in Threads, Cancelled(t) PROVE SlotInv'
<1>1. CASE pc[t] \in {"probe", "queue"} /\ semaphore' = Abandon(semaphore, t) /\ Go(t, "idle")
  <2> DEFINE k == Slots - Cardinality(Holders)
  <2>1. Balanced(semaphore, AtAcquire, k) /\ t \in AtAcquire /\ pc[t] \notin Holding
    BY <1>1 DEF SlotInv, AtAcquire, Holding, Drafts
  <2>2. AtAcquire' = AtAcquire \ {t} /\ Slots - Cardinality(Holders') = k
    <3>1. "idle" \notin Holding /\ "idle" \notin {"probe", "queue"}
      BY DEF Holding, Drafts
    <3> QED
      BY <1>1, <2>1, <3>1, TurnMoves
  <2>3. Balanced(semaphore', AtAcquire \ {t}, k)
    BY <1>1, <2>1, AbandonBalance
  <2> QED
    BY <1>1, <2>2, <2>3, TurnMoves DEF SlotInv
<1>2. CASE pc[t] = "settle" /\ Go(t, "start") /\ UNCHANGED semaphore
  <2>1. pc[t] \in Holding /\ "start" \in Holding
    BY <1>2 DEF Holding, Drafts
  <2> QED
    BY <1>2, <2>1, KeepsItsSlot
<1>3. CASE pc[t] \in Drafts \ {"start"} /\ Leaves(t)
  BY <1>3, GivesItBack
<1> QED
  BY <1>1, <1>2, <1>3 DEF Cancelled

(* Whatever a turn that drafts does, it stays with its slot or ends.       *)
LEMMA SlotWorks ==
    ASSUME SlotInv, NEW t \in Threads, Works(t) \/ HeartbeatStops(t)
    PROVE  SlotInv'
<1>1. \/ pc[t] \in Drafts /\ Leaves(t)
      \/ pc[t] \in Holding /\ UNCHANGED semaphore /\ \E p \in Holding : Go(t, p)
      \/ UNCHANGED <<semaphore, pc>>
  <2> USE DEF Holding, Drafts
  <2>1. CASE HeartbeatStops(t)
    BY <2>1 DEF HeartbeatStops
  <2>2. CASE Start(t) \/ Modify(t) \/ Refine(t)
    BY <2>2 DEF Start, Modify, Refine, Leaves
  <2>3. CASE Reference(t) \/ Web(t) \/ Context(t)
    BY <2>3 DEF Reference, Web, Context, Proceeds
  <2>4. CASE TooLarge(t) \/ Judge(t)
    BY <2>4 DEF TooLarge, Judge, Drafted
  <2>5. CASE SinglePass(t) \/ Paraphrase(t)
    BY <2>5 DEF SinglePass, Paraphrase, Drafted, Proceeds, Fails
  <2>6. CASE PairWritten(t) \/ PairRetried(t) \/ PairFailed(t)
    BY <2>6 DEF PairWritten, PairRetried, PairFailed, NextPair
  <2> QED
    BY <2>1, <2>2, <2>3, <2>4, <2>5, <2>6 DEF Works
<1>2. CASE UNCHANGED <<semaphore, pc>>
  BY <1>2 DEF SlotInv, AtAcquire, Holders
<1> QED
  BY <1>1, <1>2, GivesItBack, KeepsItsSlot

LEMMA SlotInductive == Spec => []SlotInv
<1>1. Init => SlotInv
  <2> SUFFICES ASSUME Init PROVE SlotInv
    OBVIOUS
  <2>1. AtAcquire = {} /\ Holders = {} /\ pc = [t \in Threads |-> pc[t]]
    BY DEF Init, AtAcquire, Holders, Drafts
  <2>2. Cardinality({}) = 0 /\ Slots \in Nat /\ Slots - 0 = Slots /\ Slots + 0 = Slots
    BY FS_EmptySet, DraftingAssumption
  <2>3. /\ semaphore \in [value : Nat, waiters : Seq(Threads), woken : SUBSET Threads]
        /\ semaphore.value = Slots /\ semaphore.waiters = <<>> /\ semaphore.woken = {}
    BY <2>2 DEF Init
  <2>4. ToSet(<<>>) = {} /\ IsInjective(<<>>)
    BY DEF ToSet, IsInjective
  <2>5. Balanced(semaphore, {}, Slots)
    BY <2>2, <2>3, <2>4 DEF Balanced
  <2> QED
    BY <2>1, <2>2, <2>5 DEF SlotInv
<1>2. SlotInv /\ [Next]_vars => SlotInv'
  <2>1. SUFFICES ASSUME SlotInv, [Next]_vars PROVE SlotInv'
    OBVIOUS
  <2>2. CASE UNCHANGED <<semaphore, pc>>
    BY <2>1, <2>2 DEF SlotInv, AtAcquire, Holders
  <2>3. ASSUME NEW t \in Threads, Begin(t) \/ Waits(t) \/ Cancelled(t) \/ Works(t) PROVE SlotInv'
    BY <2>1, <2>3, SlotBegin, SlotProbe, SlotResume, SlotCancelled, SlotWorks DEF Waits
  <2> QED
    BY <2>1, <2>2, <2>3 DEF Next, Blocked, vars
<1> QED
  BY <1>1, <1>2, PTL DEF Spec

(* A slot is free, on its way to a woken waiter, or held by a turn that    *)
(* drafts, and those in line are the turns that wait.                      *)
THEOREM NoSlotIsLost == Spec => []SlotsAddUp
<1>1. SlotInv => SlotsAddUp
  <2> SUFFICES ASSUME SlotInv PROVE SlotsAddUp
    OBVIOUS
  <2>1. semaphore.value \in Nat /\ semaphore.woken \in SUBSET Threads /\ Holders \in SUBSET Threads
    BY DEF SlotInv, Balanced, Holders
  <2>2. Cardinality(semaphore.woken) \in Nat /\ Cardinality(Holders) \in Nat /\ Slots \in Nat
    BY <2>1, DraftingAssumption, FS_Subset, FS_CardinalityType
  <2>3. semaphore.value + Cardinality(semaphore.woken) = Slots - Cardinality(Holders)
    BY DEF SlotInv, Balanced
  <2>4. /\ semaphore.value \in 0..Slots
        /\ semaphore.value + Cardinality(semaphore.woken) + Cardinality(Holders) = Slots
    BY <2>1, <2>2, <2>3
  <2> QED
    BY <2>4 DEF SlotsAddUp, SlotInv, Balanced, AtAcquire
<1> QED
  BY <1>1, SlotInductive, PTL

-----------------------------------------------------------------------------
(* How long a turn has its slot                                            *)

Steps == Drafts \cup {"idle", "probe", "queue", "settle"}

(* The most that is left of a turn at step p, with c of n sections settled *)
(* and a attempts at the next pair behind it.                              *)
Rank(p, n, c, a) ==
    CASE p = "idle" -> 0
      [] p = "refine" -> 1
      [] p = "paraphrase" -> 2
      [] p = "single" -> 3
      [] p = "pair" -> 2 + 2 * (n - c) - a
      [] p = "generate" -> 2 * Cap + 3
      [] p \in {"web", "context"} -> 2 * Cap + 4
      [] p = "reference" -> 2 * Cap + 5
      [] p = "modify" -> 2 * Cap + 6
      [] p = "start" -> 2 * Cap + 7
      [] p = "settle" -> 2 * Cap + 8
      [] p = "queue" -> 2 * Cap + 9
      [] p = "probe" -> 2 * Cap + 10

Done(t) == Cardinality(written[t]) + Cardinality(failed[t])
Left(t) == Rank(pc[t], total[t], Done(t), attempt[t])

(* Every step of a turn, a cancellation included, brings it nearer to its  *)
(* end, and no other turn takes it back.                                   *)
TurnsAdvance ==
    \A t \in Threads :
      /\ Waits(t) \/ Works(t) \/ Cancelled(t) => Left(t)' < Left(t)
      /\ pc[t] # "idle" => Left(t)' < Left(t) \/ Left(t)' = Left(t)

Tried == /\ attempt \in [Threads -> {0, 1}]
         /\ pc \in [Threads -> Steps]
         /\ total \in [Threads -> 0..Cap]

(* A step moves the turn of one thread to p, ...                           *)
Moves(t, p, n, w, f, a) ==
    /\ pc' = [pc EXCEPT ![t] = p] /\ total' = [total EXCEPT ![t] = n]
    /\ written' = [written EXCEPT ![t] = w] /\ failed' = [failed EXCEPT ![t] = f]
    /\ attempt' = [attempt EXCEPT ![t] = a]
    /\ p \in Steps /\ n \in 0..Cap /\ a \in {0, 1}

(* ... and nearer to its end.                                              *)
Advances(t) ==
    \E p, n, w, f, a : Moves(t, p, n, w, f, a) /\ Rank(p, n, Cardinality(w) + Cardinality(f), a) < Left(t)

LEMMA AsItIs ==
    ASSUME IInv, Tried, NEW t \in Threads
    PROVE  /\ pc = [pc EXCEPT ![t] = pc[t]] /\ total = [total EXCEPT ![t] = total[t]]
           /\ written = [written EXCEPT ![t] = written[t]]
           /\ failed = [failed EXCEPT ![t] = failed[t]]
           /\ attempt = [attempt EXCEPT ![t] = attempt[t]]
           /\ pc[t] \in Steps /\ total[t] \in 0..Cap /\ attempt[t] \in {0, 1}
           /\ Cap \in Nat
<1>1. Cap \in Nat
  BY DraftingAssumption
<1> QED
  BY <1>1 DEF IInv, Tried

(* A turn that only goes on to another step.                               *)
LEMMA GoesOn ==
    ASSUME IInv, Tried, NEW t \in Threads, NEW p \in Steps, Go(t, p), UNCHANGED <<total, written, failed, attempt>>,
           Rank(p, total[t], Done(t), attempt[t]) < Left(t)
    PROVE  Advances(t)
<1>1. Moves(t, p, total[t], written[t], failed[t], attempt[t])
  BY AsItIs DEF Moves, Go
<1> QED
  BY <1>1 DEF Advances, Done

LEMMA GoesHome ==
    ASSUME IInv, Tried, NEW t \in Threads, NEW d, Go(t, "idle"), Saves(t, d), 0 < Left(t)
    PROVE  Advances(t)
<1>1. Moves(t, "idle", 0, {}, {}, 0)
  BY AsItIs DEF Moves, Go, Saves, Steps
<1>2. Rank("idle", 0, Cardinality({}) + Cardinality({}), 0) = 0
  BY DEF Rank
<1> QED
  BY <1>1, <1>2 DEF Advances

(* The ranks in numbers.                                                   *)
LEMMA Ranks ==
    ASSUME IInv, Tried, NEW t \in Threads
    PROVE  /\ pc[t] # "idle" => 0 < Left(t)
           /\ Left(t) \in 0..2 * Cap + 10
<1>1. pc[t] \in Steps /\ total[t] \in 0..Cap /\ attempt[t] \in {0, 1} /\ Cap \in Nat
  BY AsItIs
<1>2. Settled(written[t], failed[t]) /\ (pc[t] = "pair" => Done(t) < total[t])
  BY Unchanged DEF Sound, Done
<1>3. Done(t) \in Nat
  BY <1>2, FS_CardinalityType DEF Settled, Done
<1>4. CASE pc[t] = "pair"
  <2>1. Left(t) = 2 + 2 * (total[t] - Done(t)) - attempt[t]
    BY <1>4 DEF Left, Rank
  <2> QED
    BY <1>1, <1>2, <1>3, <1>4, <2>1
<1>5. CASE pc[t] \in {"idle", "refine", "paraphrase", "single"}
  <2>1. /\ pc[t] = "idle" => Left(t) = 0
        /\ pc[t] = "refine" => Left(t) = 1
        /\ pc[t] = "paraphrase" => Left(t) = 2
        /\ pc[t] = "single" => Left(t) = 3
    BY DEF Left, Rank
  <2> QED
    BY <1>1, <1>5, <2>1
<1>6. CASE pc[t] \in {"generate", "web", "context", "reference", "modify", "start", "settle", "queue", "probe"}
  <2>1. \E k \in 3..10 : Left(t) = 2 * Cap + k
    BY <1>6 DEF Left, Rank
  <2>2. pc[t] # "idle"
    BY <1>6
  <2> QED
    BY <1>1, <2>1, <2>2
<1> QED
  BY <1>1, <1>4, <1>5, <1>6 DEF Steps, Drafts

LEMMA WaitsAdvance ==
    ASSUME IInv, Tried, NEW t \in Threads, Waits(t) \/ Cancelled(t)
    PROVE  Advances(t)
<1>1. Cap \in Nat
  BY AsItIs
<1>2. CASE ProbeTimesOut(t)
  <2>1. pc[t] = "probe" /\ (Go(t, "queue") \/ Go(t, "settle")) /\ UNCHANGED <<total, written, failed, attempt>>
    BY <1>2 DEF ProbeTimesOut, unchangedWork
  <2> QED
    BY <1>1, <2>1, GoesOn DEF Rank, Left, Steps
<1>3. CASE Resume(t)
  <2>1. /\ (pc[t] = "probe" /\ Go(t, "start")) \/ (pc[t] = "queue" /\ Go(t, "settle"))
        /\ UNCHANGED <<total, written, failed, attempt>>
    BY <1>3 DEF Resume, unchangedWork
  <2> QED
    BY <1>1, <2>1, GoesOn DEF Rank, Left, Steps, Drafts
<1>4. CASE pc[t] = "settle" /\ Go(t, "start") /\ unchangedWork
  BY <1>1, <1>4, GoesOn DEF Rank, Left, Steps, Drafts, unchangedWork
<1>5. CASE pc[t] # "idle" /\ Go(t, "idle") /\ \E d : Saves(t, d)
  BY <1>5, GoesHome, Ranks
<1> QED
  BY <1>2, <1>3, <1>4, <1>5 DEF Waits, Cancelled, HeartbeatStops, Leaves, Drafts

LEMMA PairAdvances ==
    ASSUME IInv, Tried, NEW t \in Threads, PairWritten(t) \/ PairRetried(t) \/ PairFailed(t)
    PROVE  Advances(t)
<1> DEFINE c == Done(t)
           n == total[t]
<1>1. /\ pc[t] = "pair" /\ Settled(written[t], failed[t]) /\ c < n
      /\ n \in 0..Cap /\ Cap \in Nat /\ attempt[t] \in {0, 1}
  BY Unchanged, AsItIs DEF Sound, PairWritten, PairRetried, PairFailed, Done
<1>2. c \in Nat /\ n \in Nat
  BY <1>1, FS_CardinalityType DEF Settled, Done
<1>3. Left(t) = 2 + 2 * (n - c) - attempt[t]
  BY <1>1 DEF Left, Rank
<1>4. Pair(t) = After(Cardinality(written[t]) + Cardinality(failed[t]), total[t])
  BY <1>1, FS_CardinalityType DEF Pair, Position, After, Settled
<1>5. Follows(Pair(t), written[t], failed[t], total[t])
  BY <1>1, <1>2, <1>4, NextTwo DEF Done
<1>6. /\ Cardinality(Pair(t)) \in {1, 2}
      /\ Cardinality(written[t] \cup Pair(t)) + Cardinality(failed[t]) = c + Cardinality(Pair(t))
      /\ Cardinality(written[t]) + Cardinality(failed[t] \cup Pair(t)) = c + Cardinality(Pair(t))
  BY <1>1, <1>5, PairIsSettled DEF Done, Follows
<1>7. Position(t) = 1 + c
  BY <1>1, FS_CardinalityType DEF Position, Done, Settled
<1> HIDE DEF c, n
<1>8. CASE PairRetried(t)
  <2>1. attempt[t] = 0 /\ attempt' = [attempt EXCEPT ![t] = 1] /\ UNCHANGED <<pc, total, written, failed>>
    BY <1>8 DEF PairRetried
  <2>2. Moves(t, "pair", n, written[t], failed[t], 1)
    BY <1>1, <2>1, AsItIs DEF Moves, n, Steps, Drafts
  <2>3. Rank("pair", n, c, 1) < Left(t)
    BY <1>2, <1>3, <2>1 DEF Rank
  <2> QED
    BY <2>2, <2>3 DEF Advances, c, Done
<1>9. ASSUME NEW w, NEW f, Cardinality(w) + Cardinality(f) = c + Cardinality(Pair(t)),
             written' = [written EXCEPT ![t] = w], failed' = [failed EXCEPT ![t] = f],
             NextPair(t, Pair(t)), UNCHANGED total
      PROVE  Advances(t)
  <2>1. attempt' = [attempt EXCEPT ![t] = 0]
    BY <1>9 DEF NextPair
  <2>2. CASE PairsLeft(t, Pair(t))
    <3>1. Moves(t, "pair", n, w, f, 0)
      BY <1>1, <1>9, <2>1, <2>2, AsItIs DEF NextPair, Moves, n, Steps, Drafts
    <3>2. Rank("pair", n, c + Cardinality(Pair(t)), 0) < Left(t)
      BY <1>1, <1>2, <1>3, <1>6 DEF Rank
    <3> QED
      BY <1>9, <3>1, <3>2 DEF Advances
  <2>3. CASE ~PairsLeft(t, Pair(t))
    <3>1. Moves(t, "refine", n, w, f, 0)
      BY <1>1, <1>9, <2>1, <2>3, AsItIs DEF NextPair, Go, Moves, n, Steps, Drafts
    <3>2. Rank("refine", n, c + Cardinality(Pair(t)), 0) < Left(t)
      BY <1>1, <1>2, <1>3 DEF Rank
    <3> QED
      BY <1>9, <3>1, <3>2 DEF Advances
  <2> QED
    BY <2>2, <2>3
<1>10. CASE PairWritten(t)
  <2>1. /\ written' = [written EXCEPT ![t] = written[t] \cup Pair(t)]
        /\ failed' = [failed EXCEPT ![t] = failed[t]]
        /\ NextPair(t, Pair(t)) /\ UNCHANGED total
    BY <1>10, AsItIs DEF PairWritten
  <2> QED
    BY <1>6, <1>9, <2>1
<1>11. CASE PairFailed(t)
  <2>1. /\ failed' = [failed EXCEPT ![t] = failed[t] \cup Pair(t)]
        /\ written' = [written EXCEPT ![t] = written[t]]
        /\ NextPair(t, Pair(t)) /\ UNCHANGED total
    BY <1>11, AsItIs DEF PairFailed
  <2> QED
    BY <1>6, <1>9, <2>1
<1> QED
  BY <1>8, <1>10, <1>11

LEMMA WorkAdvances ==
    ASSUME IInv, Tried, NEW t \in Threads, Works(t)
    PROVE  Advances(t)
<1>1. Cap \in Nat
  BY AsItIs
<1>2. ASSUME pc[t] # "idle", Go(t, "idle"), \E d : Saves(t, d) PROVE Advances(t)
  BY <1>2, GoesHome, Ranks
<1>3. ASSUME NEW p \in Steps, Go(t, p), UNCHANGED <<total, written, failed, attempt>>,
             Rank(p, total[t], Done(t), attempt[t]) < Left(t)
      PROVE  Advances(t)
  BY <1>3, GoesOn
<1>4. CASE Start(t)
  <2>1. /\ pc[t] = "start" /\ UNCHANGED <<total, written, failed, attempt>>
        /\ \E p \in {"reference", "context", "modify"} : Go(t, p)
    BY <1>4 DEF Start, unchangedWork
  <2> QED
    BY <1>1, <1>3, <2>1 DEF Rank, Left, Steps, Drafts
<1>5. CASE Modify(t)
  <2>1. CASE Go(t, "idle") /\ \E d : Saves(t, d)
    BY <1>2, <1>5, <2>1 DEF Modify
  <2>2. CASE (Go(t, "reference") \/ Go(t, "context")) /\ unchangedWork
    BY <1>1, <1>3, <1>5, <2>2 DEF Modify, unchangedWork, Rank, Left, Steps, Drafts
  <2> QED
    BY <1>5, <2>1, <2>2 DEF Modify, Leaves
<1>6. CASE Reference(t)
  <2>1. /\ pc[t] = "reference" /\ UNCHANGED <<total, written, failed, attempt>>
        /\ \E p \in {"generate", "web"} : Go(t, p)
    BY <1>6 DEF Reference, Proceeds, unchangedWork
  <2> QED
    BY <1>1, <1>3, <2>1 DEF Rank, Left, Steps, Drafts
<1>7. CASE Web(t) \/ Context(t)
  <2>1. pc[t] \in {"web", "context"} /\ Go(t, "generate") /\ UNCHANGED <<total, written, failed, attempt>>
    BY <1>7 DEF Web, Context, Proceeds, unchangedWork
  <2> QED
    BY <1>1, <1>3, <2>1 DEF Rank, Left, Steps, Drafts
<1>8. ASSUME NEW d, Drafted(t, d), UNCHANGED <<written, failed>>,
             pc[t] \in {"generate", "single", "paraphrase"}
      PROVE  Advances(t)
  BY <1>1, <1>3, <1>8 DEF Drafted, Rank, Left, Steps, Drafts
<1>9. CASE TooLarge(t)
  BY <1>8, <1>9 DEF TooLarge
<1>10. CASE Judge(t)
  <2>1. PICK n \in 0..Cap + 1 :
           /\ total' = [total EXCEPT ![t] = Trimmed(n)]
           /\ pc' = [pc EXCEPT ![t] = IF n = 0 THEN "single" ELSE "pair"]
    BY <1>10 DEF Judge, Judged, Go
  <2>2. Trimmed(n) \in 0..Cap
    BY <1>1 DEF Trimmed
  <2>3. /\ pc[t] = "generate" /\ UNCHANGED <<written, failed, attempt>>
        /\ written[t] = {} /\ failed[t] = {} /\ Cardinality({}) = 0
    BY <1>10, Unchanged, FS_EmptySet DEF Judge, Sound
  <2>4. Moves(t, IF n = 0 THEN "single" ELSE "pair", Trimmed(n), written[t], failed[t], attempt[t])
    BY <2>1, <2>2, <2>3, AsItIs DEF Moves, Steps, Drafts
  <2>5. attempt[t] \in {0, 1} /\ Left(t) = 2 * Cap + 3
    BY <2>3, AsItIs DEF Left, Rank
  <2>6. Rank("single", Trimmed(n), 0, attempt[t]) < Left(t) /\ Rank("pair", Trimmed(n), 0, attempt[t]) < Left(t)
    <3>1. Rank("single", Trimmed(n), 0, attempt[t]) = 3
      BY DEF Rank
    <3>2. Rank("pair", Trimmed(n), 0, attempt[t]) = 2 + 2 * (Trimmed(n) - 0) - attempt[t]
      BY DEF Rank
    <3>3. Cap > 0
      BY DraftingAssumption
    <3> QED
      BY <1>1, <2>2, <2>5, <3>1, <3>2, <3>3
  <2>7. Cardinality(written[t]) + Cardinality(failed[t]) = 0
    BY <2>3
  <2>8. Rank(IF n = 0 THEN "single" ELSE "pair", Trimmed(n), Cardinality(written[t]) + Cardinality(failed[t]), attempt[t]) < Left(t)
    BY <2>6, <2>7
  <2> QED
    BY <2>4, <2>8 DEF Advances
<1>11. CASE SinglePass(t) \/ Paraphrase(t)
  <2>1. CASE Drafted(t, Plain) /\ UNCHANGED <<written, failed>>
    BY <1>8, <1>11, <2>1 DEF SinglePass, Paraphrase, Proceeds, Fails
  <2>2. CASE Proceeds(t, "single", {"paraphrase"})
    BY <1>1, <1>3, <2>2 DEF Proceeds, unchangedWork, Rank, Left, Steps, Drafts
  <2>3. CASE Fails(t)
    BY <1>2, <1>11, <2>3 DEF SinglePass, Paraphrase, Fails, Leaves
  <2> QED
    BY <1>11, <2>1, <2>2, <2>3 DEF SinglePass, Paraphrase
<1>12. CASE PairWritten(t) \/ PairRetried(t) \/ PairFailed(t)
  BY <1>12, PairAdvances
<1>13. CASE Refine(t)
  BY <1>2, <1>13 DEF Refine, Leaves
<1> QED
  BY <1>4, <1>5, <1>6, <1>7, <1>9, <1>10, <1>11, <1>12, <1>13 DEF Works

(* What a step does to its own turn and to the others.                     *)
LEMMA MovedOnly ==
    ASSUME IInv, Tried, NEW t \in Threads, NEW p, NEW n, NEW w, NEW f, NEW a, Moves(t, p, n, w, f, a)
    PROVE  /\ Tried'
           /\ Left(t)' = Rank(p, n, Cardinality(w) + Cardinality(f), a)
           /\ \A u \in Threads \ {t} : Left(u)' = Left(u) /\ pc'[u] = pc[u]
<1>1. /\ pc'[t] = p /\ total'[t] = n /\ written'[t] = w /\ failed'[t] = f /\ attempt'[t] = a
      /\ \A u \in Threads \ {t} :
           /\ pc'[u] = pc[u] /\ total'[u] = total[u] /\ written'[u] = written[u]
           /\ failed'[u] = failed[u] /\ attempt'[u] = attempt[u]
  BY DEF Moves, IInv, Tried
<1>2. Tried'
  BY DEF Moves, Tried
<1> QED
  BY <1>1, <1>2 DEF Left, Done
LEMMA BeginsOrIsBlocked ==
    ASSUME IInv, Tried, NEW t \in Threads, Begin(t) \/ Blocked(t)
    PROVE  \E p, n, w, f, a : Moves(t, p, n, w, f, a)
<1>1. PICK p \in {"probe", "start", pc[t]} : pc' = [pc EXCEPT ![t] = p]
  BY AsItIs DEF Begin, Blocked, Go
<1>2. UNCHANGED <<total, written, failed, attempt>>
  BY DEF Begin, Blocked, unchangedWork
<1>3. Moves(t, p, total[t], written[t], failed[t], attempt[t])
  BY <1>1, <1>2, AsItIs DEF Moves, Steps, Drafts
<1> QED
  BY <1>3

LEMMA AdvanceStep ==
    ASSUME IInv, Tried, [Next]_vars
    PROVE  Tried' /\ TurnsAdvance
<1>1. ASSUME NEW t \in Threads, Waits(t) \/ Works(t) \/ Cancelled(t)
      PROVE  Tried' /\ Left(t)' < Left(t) /\ \A u \in Threads \ {t} : Left(u)' = Left(u)
  <2>1. Advances(t)
    BY <1>1, WaitsAdvance, WorkAdvances
  <2>2. PICK p, n, w, f, a : Moves(t, p, n, w, f, a) /\ Rank(p, n, Cardinality(w) + Cardinality(f), a) < Left(t)
    BY <2>1 DEF Advances
  <2> QED
    BY <2>2, MovedOnly
<1>2. ASSUME NEW t \in Threads, Begin(t) \/ Blocked(t)
      PROVE  Tried' /\ pc[t] = "idle" /\ \A u \in Threads \ {t} : Left(u)' = Left(u)
  <2>1. PICK p, n, w, f, a : Moves(t, p, n, w, f, a)
    BY <1>2, BeginsOrIsBlocked
  <2> QED
    BY <1>2, <2>1, MovedOnly DEF Begin, Blocked
<1>3. CASE UNCHANGED vars
  <2>1. \A t \in Threads : Left(t)' = Left(t)
    BY <1>3 DEF vars, Left, Done
  <2> QED
    BY <1>1, <1>3, <2>1, Ranks DEF vars, Tried, TurnsAdvance
<1>4. ASSUME NEW t \in Threads,
             Waits(t) \/ Works(t) \/ Cancelled(t) \/ Begin(t) \/ Blocked(t)
      PROVE  Tried' /\ TurnsAdvance
  <2>1. Tried'
    BY <1>1, <1>2, <1>4
  <2>2. ASSUME NEW u \in Threads, pc[u] # "idle" PROVE Left(u)' < Left(u) \/ Left(u)' = Left(u)
    BY <1>1, <1>2, <1>4, <2>2
  <2> QED
    BY <1>1, <2>1, <2>2 DEF TurnsAdvance
<1> QED
  BY <1>3, <1>4 DEF Next

LEMMA AlwaysTried == Spec => []Tried
<1>1. Init => Tried
  <2>1. Cap \in Nat /\ 0 \in 0..Cap
    BY DraftingAssumption
  <2> QED
    BY <2>1 DEF Init, Tried, Steps
<1>2. IInv /\ Tried /\ [Next]_vars => Tried'
  BY AdvanceStep
<1> QED
  BY <1>1, <1>2, Inductive, PTL DEF Spec

(* A turn under way comes nearer to its end with every step it takes,      *)
(* whatever fails, is retried or is cancelled in it: it has its slot for no *)
(* more than 2 * Cap + 8 of its steps.                                     *)
THEOREM EveryStepAdvances == Spec => [][TurnsAdvance]_vars
<1>1. IInv /\ Tried /\ [Next]_vars => [TurnsAdvance]_vars
  BY AdvanceStep
<1> QED
  BY <1>1, Inductive, AlwaysTried, PTL DEF Spec

(* And it has a bounded way to go from wherever it is.                     *)
THEOREM TurnsAreBounded == Spec => [](\A t \in Threads : Left(t) \in 0..2 * Cap + 10 /\ (Left(t) = 0 <=> pc[t] = "idle"))
<1>1. IInv /\ Tried => \A t \in Threads : Left(t) \in 0..2 * Cap + 10 /\ (Left(t) = 0 <=> pc[t] = "idle")
  <2>1. \A t \in Threads : pc[t] = "idle" => Left(t) = 0
    BY DEF Left, Rank
  <2>2. Cap \in Nat
    BY DraftingAssumption
  <2> QED
    BY <2>1, <2>2, Ranks
<1> QED
  BY <1>1, Inductive, AlwaysTried, PTL

-----------------------------------------------------------------------------
(* The loop that Refine runs                                               *)

(* What Refine takes for one step that may word the draft anew is a run of *)
(* the generate-critique-refine loop of SelfRefine, which the synthesis of *)
(* the orchestrator runs as well.                                          *)

(* A text kept the share of the caller's response that guard 2 protects.   *)
KeptLength(text) ==
    response.length > GuardChars => 100 * text.length >= TotalPercent * response.length

(* All that the text replaced has been read by the critic.                 *)
ReplacedIsRead(text) == 0..(text.version - 1) \subseteq audited

(* The text has been read, or the critic failed on it and on no other.     *)
ReadOrUnheard(text) == text.version \in audited \/ unheard = {text.version}

(* The inductive invariant.  A rewrite is numbered by the rounds used up, so *)
(* there is always a number for the next one; the current text has passed  *)
(* guard 2 in every round; a text is rewritten only once it is read, and   *)
(* the loop does not go on without a verdict.                              *)
LoopInv ==
    /\ LoopTypeOK
    /\ current.version <= iteration
    /\ stage = "start" => current = response
    /\ stage = "refine" => iteration < MaxIterations /\ current.version \in audited
    /\ stage # "done" => unheard = {}
    /\ KeptLength(current) /\ ReplacedIsRead(current)
    /\ stage = "done" => /\ KeptLength(result)
                         /\ result.version > 0 => ReplacedIsRead(result) /\ ReadOrUnheard(result)

-----------------------------------------------------------------------------
(* A share of at most a hundred percent is at most the whole.              *)
LEMMA ShareOfWhole ==
    ASSUME NEW n \in Nat, NEW p \in 0..100
    PROVE  100 * n >= p * n
<1>1. PICK q \in Nat : q = 100 - p
  OBVIOUS
<1>2. 100 = p + q
  BY <1>1
<1>3. q * n \in Nat /\ p * n \in Nat
  OBVIOUS
<1>4. 100 * n = p * n + q * n
  BY <1>2
<1> QED
  BY <1>3, <1>4

(* The caller's response keeps its own length.                             *)
LEMMA ResponseKept ==
    ASSUME response \in Text
    PROVE  KeptLength(response)
<1>1. response.length \in Nat
  BY SelfRefineAssumption DEF Text
<1>2. TotalPercent \in 0..100
  BY SelfRefineAssumption
<1> QED
  BY <1>1, <1>2, ShareOfWhole DEF KeptLength

LEMMA LoopInvInit == ASSUME LoopInit PROVE LoopInv
<1>1. PICK n \in Lengths : response = [version |-> 0, length |-> n]
  BY DEF LoopInit
<1>2. response \in Text /\ response.version = 0
  BY <1>1, SelfRefineAssumption DEF Text
<1>3. current = response /\ stage = "start" /\ iteration = 0 /\ audited = {} /\ unheard = {} /\ result = NoText
  BY DEF LoopInit
<1>4. LoopTypeOK
  BY <1>2, <1>3, SelfRefineAssumption DEF LoopTypeOK, Versions
<1>5. KeptLength(current)
  BY <1>2, <1>3, ResponseKept DEF KeptLength
<1>6. ReplacedIsRead(current)
  BY <1>2, <1>3 DEF ReplacedIsRead
<1> QED
  BY <1>2, <1>3, <1>4, <1>5, <1>6 DEF LoopInv

LEMMA LoopInvStep ==
    ASSUME LoopInv, [LoopNext]_loopVars
    PROVE  LoopInv'
<1> USE SelfRefineAssumption
<1>0. /\ LoopTypeOK /\ current.version <= iteration
      /\ KeptLength(current) /\ ReplacedIsRead(current)
      /\ current.version \in Nat /\ iteration \in Nat /\ MaxIterations \in Nat
      /\ response \in Text /\ response.version = 0 /\ current \in Text
  BY DEF LoopInv, LoopTypeOK, Text
<1>1. CASE Skip
  <2>1. KeptLength(response)
    BY <1>0, ResponseKept
  <2>2. stage = "start" /\ stage' = "done" /\ result' = response
        /\ UNCHANGED <<response, current, iteration, audited, unheard>>
    BY <1>1 DEF Skip, Return
  <2> QED
    BY <1>0, <2>1, <2>2 DEF LoopInv, LoopTypeOK, KeptLength, ReplacedIsRead
<1>2. CASE Audit
  BY <1>0, <1>2 DEF Audit, LoopInv, LoopTypeOK, KeptLength, ReplacedIsRead
<1>3. CASE Accept \/ CriticFails \/ Exhausted
  <2>1. /\ stage = "critique" /\ stage' = "done" /\ result' = current
        /\ UNCHANGED <<response, current, iteration>>
        /\ \/ audited' = audited \cup {current.version} /\ unheard' = unheard
           \/ audited' = audited /\ unheard' = unheard \cup {current.version}
    BY <1>3 DEF Accept, CriticFails, Exhausted, Return, Critiqued
  <2>2. LoopTypeOK'
    BY <1>0, <2>1 DEF LoopTypeOK, Text, Versions
  <2>3. unheard = {}
    BY <2>1 DEF LoopInv
  <2>4. ReplacedIsRead(current)'
    BY <1>0, <2>1 DEF ReplacedIsRead
  <2>5. ReadOrUnheard(current)'
    BY <2>1, <2>3 DEF ReadOrUnheard
  <2>6. KeptLength(current)'
    BY <1>0, <2>1 DEF KeptLength
  <2> QED
    BY <1>0, <2>1, <2>2, <2>4, <2>5, <2>6 DEF LoopInv, KeptLength, ReplacedIsRead, ReadOrUnheard
<1>4. CASE Object
  <2>1. /\ iteration < MaxIterations /\ stage = "critique" /\ stage' = "refine"
        /\ audited' = audited \cup {current.version}
        /\ UNCHANGED <<response, current, iteration, unheard, result>>
    BY <1>0, <1>4 DEF Object, LastRound, Critiqued
  <2>2. LoopTypeOK'
    BY <1>0, <2>1 DEF LoopTypeOK, Text, Versions
  <2>3. ReplacedIsRead(current)' /\ KeptLength(current)'
    BY <1>0, <2>1 DEF ReplacedIsRead, KeptLength
  <2> QED
    BY <1>0, <2>1, <2>2, <2>3 DEF LoopInv
<1>5. ASSUME NEW n \in Lengths, Rewrite(n) PROVE LoopInv'
  <2>1. /\ iteration < MaxIterations /\ ~TotalLoss(n) /\ stage' = "critique"
        /\ current' = [version |-> current.version + 1, length |-> n]
        /\ iteration' = iteration + 1 /\ UNCHANGED <<response, audited, unheard, result>>
        /\ current.version \in audited /\ unheard = {}
    BY <1>5 DEF Rewrite, LoopInv
  <2>2. current'.version = current.version + 1 /\ current'.length = n
    BY <2>1
  <2>3. current' \in Text /\ iteration' \in 0..MaxIterations /\ current'.version <= iteration'
    BY <1>0, <2>1, <2>2 DEF Text
  <2>4. KeptLength(current)'
    <3>0. n \in Nat /\ TotalPercent \in Nat /\ response.length \in Nat
      <4>1. n \in Nat
        OBVIOUS
      <4>2. TotalPercent \in Nat
        OBVIOUS
      <4>3. response.length \in Nat
        BY <1>0 DEF Text
      <4> QED
        BY <4>1, <4>2, <4>3
    <3>1. 100 * n \in Nat /\ TotalPercent * response.length \in Nat
      BY <3>0
    <3> QED
      BY <2>1, <2>2, <3>1 DEF KeptLength, TotalLoss
  <2>5. ReplacedIsRead(current)'
    BY <1>0, <2>1, <2>2 DEF ReplacedIsRead
  <2> QED
    BY <1>0, <2>1, <2>3, <2>4, <2>5 DEF LoopInv, LoopTypeOK
<1>6. ASSUME NEW n \in Lengths, Destructive(n) PROVE LoopInv'
  <2>1. /\ stage = "refine" /\ stage' = "done" /\ result' \in {current, response}
        /\ UNCHANGED <<response, current, iteration, audited, unheard>>
    BY <1>6 DEF Destructive, Return
  <2>2. KeptLength(response) /\ ReadOrUnheard(current)
    BY <1>0, <2>1, ResponseKept DEF ReadOrUnheard, LoopInv
  <2>3. LoopTypeOK'
    BY <1>0, <2>1 DEF LoopTypeOK
  <2>4. CASE result' = current
    BY <1>0, <2>1, <2>2, <2>3, <2>4 DEF LoopInv, KeptLength, ReplacedIsRead, ReadOrUnheard
  <2>5. CASE result' = response
    BY <1>0, <2>1, <2>2, <2>3, <2>5 DEF LoopInv, KeptLength, ReplacedIsRead
  <2> QED
    BY <2>1, <2>4, <2>5
<1>7. CASE RefinerFails
  <2>1. /\ iteration < MaxIterations /\ stage' = "critique" /\ iteration' = iteration + 1
        /\ unheard = {} /\ UNCHANGED <<response, current, audited, unheard, result>>
    BY <1>7 DEF RefinerFails, LoopInv
  <2> QED
    BY <1>0, <2>1 DEF LoopInv, LoopTypeOK, KeptLength, ReplacedIsRead
<1>8. CASE UNCHANGED loopVars
  BY <1>8 DEF loopVars, LoopInv, LoopTypeOK, KeptLength, ReplacedIsRead, ReadOrUnheard
<1> QED
  BY <1>1, <1>2, <1>3, <1>4, <1>5, <1>6, <1>7, <1>8 DEF LoopNext

-----------------------------------------------------------------------------
(* The loop keeps its state well formed in every round: in particular a    *)
(* rewrite never runs out of rounds.                                       *)
THEOREM LoopIsTyped == LoopSpec => []LoopTypeOK
<1>1. LoopInit => LoopInv
  BY LoopInvInit
<1>2. LoopInv /\ [LoopNext]_loopVars => LoopInv'
  BY LoopInvStep
<1>3. LoopInv => LoopTypeOK
  BY DEF LoopInv
<1> QED
  BY <1>1, <1>2, <1>3, PTL DEF LoopSpec

(* Whatever the models answer in however many rounds, a response longer than *)
(* the guard's threshold is returned with at least the protected share of its *)
(* length.                                                                 *)
THEOREM LengthIsKept == LoopSpec => []LongAnswerKeepsItsLength
<1>1. LoopInit => LoopInv
  BY LoopInvInit
<1>2. LoopInv /\ [LoopNext]_loopVars => LoopInv'
  BY LoopInvStep
<1>3. LoopInv => LongAnswerKeepsItsLength
  BY DEF LoopInv, LongAnswerKeepsItsLength, KeptLength
<1> QED
  BY <1>1, <1>2, <1>3, PTL DEF LoopSpec

(* A rewrite that is returned replaced only what the critic had read and   *)
(* objected to, and has been read itself unless the critic failed, timed   *)
(* out or was skipped on this very text (self_refine, _critique).          *)
THEOREM UnreadOnlyIfUnheard == LoopSpec => []UnreadOnlyIfTheCriticFailed
<1>1. LoopInit => LoopInv
  BY LoopInvInit
<1>2. LoopInv /\ [LoopNext]_loopVars => LoopInv'
  BY LoopInvStep
<1>3. LoopInv => UnreadOnlyIfTheCriticFailed
  BY DEF LoopInv, UnreadOnlyIfTheCriticFailed, ReplacedIsRead, ReadOrUnheard
<1> QED
  BY <1>1, <1>2, <1>3, PTL DEF LoopSpec

(* Calls of critic and refiner that may still be made, the last one's      *)
(* return included.                                                        *)
CallsLeft ==
    CASE stage = "start" -> 2 * MaxIterations + 3
      [] stage = "critique" -> 2 * (MaxIterations - iteration) + 2
      [] stage = "refine" -> 2 * (MaxIterations - iteration) + 1
      [] stage = "done" -> 0

(* Every step uses one up, a failed call as well as one that answers, and  *)
(* none are left only when the loop has returned: with LoopEnds' fairness  *)
(* it ends after at most 2 * MaxIterations + 2 calls.                      *)
THEOREM CallsAreUsedUp ==
    /\ LoopSpec => [][CallsLeft' < CallsLeft]_loopVars
    /\ LoopSpec => [](CallsLeft \in 0..2 * MaxIterations + 3 /\ (CallsLeft = 0 <=> stage = "done"))
<1>1. LoopInit => LoopInv
  BY LoopInvInit
<1>2. LoopInv /\ [LoopNext]_loopVars => LoopInv'
  BY LoopInvStep
<1>3. ASSUME LoopInv
      PROVE  /\ MaxIterations \in Nat /\ iteration \in 0..MaxIterations
             /\ stage \in {"start", "critique", "refine", "done"}
             /\ stage = "refine" => iteration < MaxIterations
  BY <1>3, SelfRefineAssumption DEF LoopInv, LoopTypeOK
<1>4. /\ stage = "start" => CallsLeft = 2 * MaxIterations + 3
      /\ stage = "critique" => CallsLeft = 2 * (MaxIterations - iteration) + 2
      /\ stage = "refine" => CallsLeft = 2 * (MaxIterations - iteration) + 1
      /\ stage = "done" => CallsLeft = 0
  BY DEF CallsLeft
<1>5. /\ stage' = "critique" => CallsLeft' = 2 * (MaxIterations - iteration') + 2
      /\ stage' = "refine" => CallsLeft' = 2 * (MaxIterations - iteration') + 1
      /\ stage' = "done" => CallsLeft' = 0
  BY DEF CallsLeft
<1>6. LoopInv /\ [LoopNext]_loopVars => [CallsLeft' < CallsLeft]_loopVars
  <2> SUFFICES ASSUME LoopInv, LoopNext PROVE CallsLeft' < CallsLeft
    OBVIOUS
  <2>1. CASE Skip \/ Audit
    BY <1>3, <1>4, <1>5, <2>1 DEF Skip, Audit, Return
  <2>2. CASE Accept \/ CriticFails \/ Exhausted
    BY <1>3, <1>4, <1>5, <2>2 DEF Accept, CriticFails, Exhausted, Return
  <2>3. CASE Object
    BY <1>3, <1>4, <1>5, <2>3 DEF Object
  <2>4. ASSUME NEW n \in Lengths, Rewrite(n) \/ Destructive(n) PROVE CallsLeft' < CallsLeft
    BY <1>3, <1>4, <1>5, <2>4 DEF Rewrite, Destructive, Return
  <2>5. CASE RefinerFails
    BY <1>3, <1>4, <1>5, <2>5 DEF RefinerFails
  <2> QED
    BY <2>1, <2>2, <2>3, <2>4, <2>5 DEF LoopNext
<1>7. LoopInv => CallsLeft \in 0..2 * MaxIterations + 3 /\ (CallsLeft = 0 <=> stage = "done")
  BY <1>3, <1>4
<1>8. LoopSpec => [][CallsLeft' < CallsLeft]_loopVars
  BY <1>1, <1>2, <1>6, PTL DEF LoopSpec
<1>9. LoopSpec => [](CallsLeft \in 0..2 * MaxIterations + 3 /\ (CallsLeft = 0 <=> stage = "done"))
  BY <1>1, <1>2, <1>7, PTL DEF LoopSpec
<1> QED
  BY <1>8, <1>9
=============================================================================
