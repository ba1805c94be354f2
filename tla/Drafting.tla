------------------------------ MODULE Drafting ------------------------------
(***************************************************************************)
(* The drafting agent of one worker (drafting_node of agents/drafting.py). *)
(* Several threads want drafts; each waits for one of the worker's slots,  *)
(* an asyncio.Semaphore, then either modifies the draft of its last turn   *)
(* (the fast path) or drafts anew: in one pass, or two sections at a time, *)
(* each pair tried twice.  What could not be written is named in a banner  *)
(* on top of the draft, and self_refine may word the whole anew.           *)
(***************************************************************************)
EXTENDS Integers, FiniteSets, SequencesExt

CONSTANTS
    Threads,    \* conversations with a turn on this worker
    Slots,      \* _AGENT_SEMAPHORE (3)
    Cap,        \* _FANOUT_HARD_CAP (12)
    MaxTurns    \* bound: MaxTurns[t] turns of thread t

ASSUME DraftingAssumption ==
    /\ IsFiniteSet(Threads)
    /\ Slots \in Nat \ {0} /\ Cap \in Nat \ {0} /\ MaxTurns \in [Threads -> Nat]

VARIABLES
    semaphore,  \* [value, waiters: in line, woken: given a slot but not yet resumed]
    pc,         \* where the thread's turn is
    turns,      \* turns begun
    prior,      \* previous_artifact: the draft saved by the last turn
    draft,      \* the draft of this turn
    total,      \* sections of this draft, 0 for a single pass
    written,    \* those generated
    failed,     \* those given up
    attempt     \* attempts at the pair before this one

vars == <<semaphore, pc, turns, prior, draft, total, written, failed, attempt>>

(* lacks: a section is missing; banner: the text says so; refined: the     *)
(* refiner has worded this text, or the text it is a modification of.      *)
Draft == [kind : {"none", "notice", "draft"}, lacks : BOOLEAN, banner : BOOLEAN, refined : BOOLEAN]
NoDraft == [kind |-> "none", lacks |-> FALSE, banner |-> FALSE, refined |-> FALSE]
Plain == [NoDraft EXCEPT !.kind = "draft"]

Init ==
    /\ semaphore = [value |-> Slots, waiters |-> <<>>, woken |-> {}]
    /\ pc = [t \in Threads |-> "idle"]
    /\ turns = [t \in Threads |-> 0]
    /\ prior = [t \in Threads |-> NoDraft]
    /\ draft = [t \in Threads |-> NoDraft]
    /\ total = [t \in Threads |-> 0]
    /\ written = [t \in Threads |-> {}]
    /\ failed = [t \in Threads |-> {}]
    /\ attempt = [t \in Threads |-> 0]

-----------------------------------------------------------------------------
(* asyncio.Semaphore (Python 3.12), as drafting_node uses it               *)

Locked(s) == s.value = 0 \/ s.waiters # <<>> \/ s.woken # {}

(* Slots that are free go to the first in line, at most "most" of them.    *)
Wake(s, most) ==
    LET n == CHOOSE n \in 0..most :
                /\ n <= s.value /\ n <= Len(s.waiters)
                /\ n = most \/ n = s.value \/ n = Len(s.waiters)
    IN  [value |-> s.value - n,
         waiters |-> SubSeq(s.waiters, n + 1, Len(s.waiters)),
         woken |-> s.woken \cup {s.waiters[i] : i \in 1..n}]

Release(s) == Wake([s EXCEPT !.value = @ + 1], 1)

Resumed(s, t) == Wake([s EXCEPT !.woken = @ \ {t}], Cardinality(Threads))

(* Where a thread is in the line, and the line without it.                 *)
Place(line, t) == CHOOSE i \in DOMAIN line : line[i] = t
StepsOut(line, t) == RemoveAt(line, Place(line, t))

(* A cancelled acquire leaves the line, or gives back the slot it was woken for. *)
Abandon(s, t) ==
    IF t \in s.woken THEN Resumed([s EXCEPT !.value = @ + 1], t)
    ELSE Wake([s EXCEPT !.waiters = StepsOut(@, t)], Cardinality(Threads))

Line(s, t) == [s EXCEPT !.waiters = Append(@, t)]
Take(s) == [s EXCEPT !.value = @ - 1]

-----------------------------------------------------------------------------
(* The slot                                                                *)

Go(t, step) == pc' = [pc EXCEPT ![t] = step]
unchangedWork == UNCHANGED <<draft, total, written, failed, attempt>>

(* The facts are put together.  A request whose facts look like an         *)
(* injection is answered with a notice and an error.                       *)
Blocked(t) ==
    /\ pc[t] = "idle" /\ turns[t] < MaxTurns[t]
    /\ turns' = [turns EXCEPT ![t] = @ + 1]
    /\ prior' = [prior EXCEPT ![t] = NoDraft]
    /\ UNCHANGED <<semaphore, pc>> /\ unchangedWork

(* A slot is probed for 0.05 s.                                            *)
Begin(t) ==
    /\ pc[t] = "idle" /\ turns[t] < MaxTurns[t]
    /\ turns' = [turns EXCEPT ![t] = @ + 1]
    /\ IF Locked(semaphore)
       THEN semaphore' = Line(semaphore, t) /\ Go(t, "probe")
       ELSE semaphore' = Take(semaphore) /\ Go(t, "start")
    /\ UNCHANGED prior /\ unchangedWork

(* The probe is over: the place in line is lost, "queued" is sent, the     *)
(* heartbeat starts and the slot is acquired again, now without a limit.   *)
ProbeTimesOut(t) ==
    /\ pc[t] = "probe"
    /\ LET left == Abandon(semaphore, t) IN
       IF Locked(left) THEN semaphore' = Line(left, t) /\ Go(t, "queue")
                       ELSE semaphore' = Take(left) /\ Go(t, "settle")
    /\ UNCHANGED <<turns, prior>> /\ unchangedWork

(* The acquire returns.  After the queue the heartbeat is cancelled, and   *)
(* waited for.                                                             *)
Resume(t) ==
    /\ pc[t] \in {"probe", "queue"} /\ t \in semaphore.woken
    /\ semaphore' = Resumed(semaphore, t)
    /\ Go(t, IF pc[t] = "probe" THEN "start" ELSE "settle")
    /\ UNCHANGED <<turns, prior>> /\ unchangedWork

HeartbeatStops(t) ==
    /\ pc[t] = "settle" /\ Go(t, "start")
    /\ UNCHANGED <<semaphore, turns, prior>> /\ unchangedWork

Drafts == {"start", "modify", "reference", "web", "context", "generate", "single", "paraphrase", "pair", "refine"}

(* Bug: the release is not in a finally.                                   *)
LeavesKeepingTheSlot(t) == Go(t, "idle") /\ UNCHANGED semaphore

Leaves(t) == Go(t, "idle") /\ semaphore' = Release(semaphore)

Saves(t, d) ==
    /\ prior' = [prior EXCEPT ![t] = d]
    /\ draft' = [draft EXCEPT ![t] = NoDraft]
    /\ total' = [total EXCEPT ![t] = 0]
    /\ written' = [written EXCEPT ![t] = {}]
    /\ failed' = [failed EXCEPT ![t] = {}]
    /\ attempt' = [attempt EXCEPT ![t] = 0]

(* An exception becomes a result without content.                          *)
Fails(t) == Leaves(t) /\ Saves(t, NoDraft) /\ UNCHANGED turns

(* The reader has gone or the 300 s are over: CancelledError at the await  *)
(* the turn is in.  The wait for the heartbeat swallows it.  The turn is   *)
(* saved without a draft or not at all.                                    *)
Cancelled(t) ==
    /\ \/ /\ pc[t] \in {"probe", "queue"}
          /\ semaphore' = Abandon(semaphore, t) /\ Go(t, "idle")
          /\ \E d \in {prior[t], NoDraft} : Saves(t, d)
       \/ /\ pc[t] = "settle" /\ Go(t, "start")
          /\ UNCHANGED <<semaphore, prior>> /\ unchangedWork
       \/ /\ pc[t] \in Drafts \ {"start"} /\ Leaves(t)
          /\ \E d \in {prior[t], NoDraft} : Saves(t, d)
    /\ UNCHANGED turns

-----------------------------------------------------------------------------
(* The fast path                                                           *)

(* Bug: the prior draft is not looked at.                                  *)
ModifiesAnyDraft(t) == prior[t].kind = "draft"

(* A draft of some length that carries no banner.                          *)
Modifiable(t) == prior[t].kind = "draft" /\ ~prior[t].banner

(* Among the requests are short directives without a new upload, and those *)
(* to review an upload, which is its own reference.                        *)
Start(t) ==
    /\ pc[t] = "start"
    /\ \/ Go(t, "reference") \/ Go(t, "context")
       \/ Modifiable(t) /\ Go(t, "modify")
    /\ UNCHANGED <<semaphore, turns, prior>> /\ unchangedWork

(* One call rewrites the prior draft, and need not keep a banner; a call   *)
(* that fails or answers nothing leads to the whole pipeline.              *)
Modify(t) ==
    /\ pc[t] = "modify"
    /\ \/ /\ \E keeps \in BOOLEAN : Saves(t, [prior[t] EXCEPT !.banner = @ /\ keeps])
          /\ Leaves(t)
       \/ /\ Go(t, "reference") \/ Go(t, "context")
          /\ UNCHANGED <<semaphore, prior>> /\ unchangedWork
    /\ UNCHANGED turns

-----------------------------------------------------------------------------
(* The pipeline                                                            *)

(* An await that ends in one of several steps.                             *)
Proceeds(t, from, steps) ==
    /\ pc[t] = from /\ \E step \in steps : Go(t, step)
    /\ UNCHANGED <<semaphore, turns, prior>> /\ unchangedWork

(* Templates match the query, in English when its translation works.       *)
Searched == {"templates", "nothing"}

(* A model picks one of them, or none, or fails.                           *)
Picked == {"template", "nothing"}

(* The template is fetched.  When one of the three steps fails or finds    *)
(* nothing the web is asked instead; when that fails too there is no       *)
(* reference, or its apology is.                                           *)
Reference(t) == \E search \in Searched, pick \in Picked, fetched \in BOOLEAN :
    Proceeds(t, "reference", {IF search = "templates" /\ pick = "template" /\ fetched
                              THEN "generate" ELSE "web"})

Web(t) == Proceeds(t, "web", {"generate"})

(* Statutes and judgments for the draft; a search that fails adds nothing. *)
(* With a reference to find, both go on at the same time.                  *)
Context(t) == Proceeds(t, "context", {"generate"})

Drafted(t, d) ==
    /\ draft' = [draft EXCEPT ![t] = d] /\ Go(t, "refine")
    /\ UNCHANGED <<semaphore, turns, prior, total, attempt>>

(* Reference and context are there; documents that are too large are       *)
(* answered with a notice in the place of the draft.                       *)
TooLarge(t) ==
    /\ pc[t] = "generate"
    /\ Drafted(t, [NoDraft EXCEPT !.kind = "notice"]) /\ UNCHANGED <<written, failed>>

(* _judge_fanout: one pass (0), or sections; a judge that fails, or is     *)
(* skipped by its circuit breaker, means one pass.                         *)
Judged == 0..Cap + 1

(* Sections beyond the cap are dropped.                                    *)
Trimmed(n) == IF n > Cap THEN Cap ELSE n

Judge(t) ==
    /\ pc[t] = "generate"
    /\ \E n \in Judged :
        /\ total' = [total EXCEPT ![t] = Trimmed(n)]
        /\ Go(t, IF n = 0 THEN "single" ELSE "pair")
    /\ UNCHANGED <<semaphore, turns, prior, draft, written, failed, attempt>>

(* _generate_single_pass.  An answer withheld by the model's filters is    *)
(* asked for once more, in other words.                                    *)
SinglePass(t) ==
    /\ pc[t] = "single"
    /\ \/ Drafted(t, Plain) /\ UNCHANGED <<written, failed>>
       \/ Proceeds(t, "single", {"paraphrase"})
       \/ Fails(t)

Paraphrase(t) ==
    /\ pc[t] = "paraphrase"
    /\ \/ Drafted(t, Plain) /\ UNCHANGED <<written, failed>>
       \/ Fails(t)

Position(t) == 1 + Cardinality(written[t]) + Cardinality(failed[t])

Pair(t) == {i \in 1..total[t] : i - Position(t) \in {0, 1}}

PairsLeft(t, pair) == Position(t) + Cardinality(pair) <= total[t]

(* _generate_sectionwise: the draft is what was written, under a banner    *)
(* when a pair failed.                                                     *)
NextPair(t, pair) ==
    /\ attempt' = [attempt EXCEPT ![t] = 0]
    /\ IF PairsLeft(t, pair) THEN UNCHANGED <<draft, pc>>
       ELSE /\ Go(t, "refine")
            /\ draft' = [draft EXCEPT ![t] =
                 [Plain EXCEPT !.lacks = written'[t] # 1..total[t],
                               !.banner = failed'[t] # {}]]

(* _generate_section_pair answers with a text.                             *)
PairWritten(t) ==
    /\ pc[t] = "pair"
    /\ written' = [written EXCEPT ![t] = @ \cup Pair(t)] /\ UNCHANGED failed
    /\ NextPair(t, Pair(t))
    /\ UNCHANGED <<semaphore, turns, prior, total>>

(* Bug: a pair is tried once more whenever it fails.                       *)
PairRetriedAgain(t) ==
    /\ pc[t] = "pair"
    /\ attempt' = [attempt EXCEPT ![t] = 1 - @]
    /\ UNCHANGED <<semaphore, pc, turns, prior, draft, total, written, failed>>

(* It raises, or answers nothing even when asked in other words: once more. *)
PairRetried(t) ==
    /\ pc[t] = "pair" /\ attempt[t] = 0
    /\ attempt' = [attempt EXCEPT ![t] = 1]
    /\ UNCHANGED <<semaphore, pc, turns, prior, draft, total, written, failed>>

(* It is given up at the second attempt; at the first, when it raised and  *)
(* no more than 15 s are left.                                             *)
PairFailed(t) ==
    /\ pc[t] = "pair"
    /\ failed' = [failed EXCEPT ![t] = @ \cup Pair(t)] /\ UNCHANGED written
    /\ NextPair(t, Pair(t))
    /\ UNCHANGED <<semaphore, turns, prior, total>>

(* validate_draft, then self_refine unless the upload is the draft itself  *)
(* or no intent is known.  A refiner may word the text anew, banner or no. *)
Refine(t) ==
    /\ pc[t] = "refine"
    /\ \/ Saves(t, draft[t])
       \/ /\ draft[t].kind = "draft"
          /\ \E keeps \in BOOLEAN :
                Saves(t, [draft[t] EXCEPT !.refined = TRUE, !.banner = @ /\ keeps])
    /\ Leaves(t)
    /\ UNCHANGED turns

Works(t) == Start(t) \/ Modify(t) \/ Reference(t) \/ Web(t) \/ Context(t)
            \/ TooLarge(t) \/ Judge(t) \/ SinglePass(t) \/ Paraphrase(t)
            \/ PairWritten(t) \/ PairRetried(t) \/ PairFailed(t) \/ Refine(t)

Waits(t) == ProbeTimesOut(t) \/ Resume(t) \/ HeartbeatStops(t)

Next == \E t \in Threads : Blocked(t) \/ Begin(t) \/ Waits(t) \/ Cancelled(t) \/ Works(t)

(* Timers fire, woken waiters run, and the model calls return: the client  *)
(* library bounds them.                                                    *)
Spec == Init /\ [][Next]_vars /\ \A t \in Threads : WF_vars(Waits(t) \/ Works(t))

-----------------------------------------------------------------------------
(* Properties *)

Holders == {t \in Threads : pc[t] \in Drafts \cup {"settle"}}

\* Whatever is cancelled, fails or times out where: every slot of the worker is
\* free, on its way to a woken waiter, or held by a turn that drafts, and those
\* in line are the turns that wait.  A slot lost three times stops all drafting.
SlotsAddUp ==
    /\ semaphore.value \in 0..Slots
    /\ semaphore.value + Cardinality(semaphore.woken) + Cardinality(Holders) = Slots
    /\ ToSet(semaphore.waiters) \cup semaphore.woken = {t \in Threads : pc[t] \in {"probe", "queue"}}
    /\ IsInjective(semaphore.waiters) /\ ToSet(semaphore.waiters) \cap semaphore.woken = {}

\* "prepends banner naming failed sections": over however many turns, a saved
\* draft that lacks a section says so, unless the refiner has worded it.  The
\* fast path starts from the last turn's draft and could lose the banner.
MissingSectionsAreNamed ==
    \A t \in Threads : prior[t].lacks => prior[t].banner \/ prior[t].refined

\* No turn waits for a slot, or drafts, for ever.
EveryTurnLeaves == \A t \in Threads : []<>(pc[t] = "idle")
=============================================================================
