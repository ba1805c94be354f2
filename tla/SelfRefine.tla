----------------------------- MODULE SelfRefine -----------------------------
(***************************************************************************)
(* The generate-critique-refine loop over a finished answer (self_refine   *)
(* of core/self_refine.py).  A critic judges the text; while it finds      *)
(* violations a refiner rewrites it, at most max_iterations times.  Two    *)
(* guards throw a rewrite away that has lost too much of the text, in one  *)
(* step or in all.                                                         *)
(*                                                                         *)
(* A text is its length and its version: version 0 is the caller's         *)
(* response, and each rewrite that differs gets the next number.           *)
(* DraftingProofs extends this module together with Drafting, whose Refine *)
(* is one run of the loop, so what is defined here has names of its own.   *)
(***************************************************************************)
EXTENDS Naturals

CONSTANTS
    Lengths,        \* lengths that texts may have, in characters
    MaxIterations,  \* max_iterations (2)
    MinChars,       \* below this a response is not worth the critic (500)
    GuardChars,     \* above this the guards are on (2000)
    StepPercent,    \* what a rewrite keeps of the current text (70)
    TotalPercent    \* what it keeps of the caller's response (65)

ASSUME SelfRefineAssumption ==
    /\ Lengths \subseteq Nat
    /\ MaxIterations \in Nat
    /\ MinChars \in Nat
    /\ GuardChars \in Nat
    /\ StepPercent \in 0..100
    /\ TotalPercent \in 0..100

VARIABLES
    stage,      \* where the loop stands
    response,   \* the caller's text
    current,    \* the text of this iteration
    iteration,  \* iteration of the for loop
    audited,    \* the versions the critic has given its verdict on
    unheard,    \* the versions it was to read but gave none on
    result      \* what is returned

loopVars == <<stage, response, current, iteration, audited, unheard, result>>

Text == [version : 0..MaxIterations, length : Lengths]
NoText == [version |-> 0, length |-> 0]
Versions == 0..MaxIterations

LoopInit ==
    /\ stage = "start"
    /\ \E n \in Lengths : response = [version |-> 0, length |-> n]
    /\ current = response
    /\ iteration = 0
    /\ audited = {}
    /\ unheard = {}
    /\ result = NoText

Return(text) == stage' = "done" /\ result' = text

-----------------------------------------------------------------------------
\* No directive, no foreign source and no retrieved source: nothing to audit.
\* Or the response is too short to be worth it.
Skip ==
    /\ stage = "start"
    /\ Return(response)
    /\ UNCHANGED <<response, current, iteration, audited, unheard>>

Audit ==
    /\ stage = "start"
    /\ response.length >= MinChars
    /\ stage' = "critique"
    /\ UNCHANGED <<response, current, iteration, audited, unheard, result>>

\* The critic answers.
Critiqued == audited' = audited \cup {current.version}

\* It passes the text, or is not confident in its verdict.
Accept ==
    /\ stage = "critique"
    /\ Critiqued
    /\ Return(current)
    /\ UNCHANGED <<response, current, iteration, unheard>>

\* The critic fails, times out or is skipped by its circuit breaker: the text
\* passes with confidence 0, unread.
CriticFails ==
    /\ stage = "critique"
    /\ unheard' = unheard \cup {current.version}
    /\ Return(current)
    /\ UNCHANGED <<response, current, iteration, audited>>

\* Bug: one rewrite more than max_iterations.
LastRoundOffByOne == iteration > MaxIterations

LastRound == iteration >= MaxIterations

\* Violations are left but no rewrite is.
Exhausted ==
    /\ stage = "critique" /\ LastRound
    /\ Critiqued
    /\ Return(current)
    /\ UNCHANGED <<response, current, iteration, unheard>>

Object ==
    /\ stage = "critique" /\ ~LastRound
    /\ Critiqued
    /\ stage' = "refine"
    /\ UNCHANGED <<response, current, iteration, unheard, result>>

\* Guard 1: too much lost in this rewrite.
StepLoss(n) == current.length > GuardChars /\ 100 * n < StepPercent * current.length

\* Bug: only the single step is guarded.
TotalLossUnguarded(n) == FALSE

\* Guard 2: too much lost since the caller's response.
TotalLoss(n) == response.length > GuardChars /\ 100 * n < TotalPercent * response.length

\* Bug: without the extra round of the loop the last rewrite is returned as is.
RewriteWithoutFinalCritique(n) ==
    /\ stage = "refine"
    /\ ~StepLoss(n) /\ ~TotalLoss(n)
    /\ current' = [version |-> current.version + 1, length |-> n]
    /\ iteration' = iteration + 1
    /\ IF iteration + 1 < MaxIterations THEN stage' = "critique" /\ UNCHANGED result
                                        ELSE Return(current')
    /\ UNCHANGED <<response, audited, unheard>>

\* The refiner answers with a text of length n that the guards let pass.
Rewrite(n) ==
    /\ stage = "refine"
    /\ ~StepLoss(n) /\ ~TotalLoss(n)
    /\ current' = [version |-> current.version + 1, length |-> n]
    /\ iteration' = iteration + 1
    /\ stage' = "critique"
    /\ UNCHANGED <<response, audited, unheard, result>>

Destructive(n) ==
    /\ stage = "refine"
    /\ \/ StepLoss(n) /\ Return(current)
       \/ ~StepLoss(n) /\ TotalLoss(n) /\ Return(response)
    /\ UNCHANGED <<response, current, iteration, audited, unheard>>

\* Bug: a failed rewrite is tried again for free.
RefinerFailsForFree ==
    /\ stage = "refine"
    /\ stage' = "critique"
    /\ UNCHANGED <<response, current, iteration, audited, unheard, result>>

\* A refiner that fails, times out or is skipped returns the text as it is,
\* which no guard objects to.
RefinerFails ==
    /\ stage = "refine"
    /\ iteration' = iteration + 1
    /\ stage' = "critique"
    /\ UNCHANGED <<response, current, audited, unheard, result>>

LoopNext ==
    \/ Skip \/ Audit \/ Accept \/ CriticFails \/ Exhausted \/ Object \/ RefinerFails
    \/ \E n \in Lengths : Rewrite(n) \/ Destructive(n)

\* Critic and refiner calls are bounded by bounded_wait_for.
LoopSpec == LoopInit /\ [][LoopNext]_loopVars /\ WF_loopVars(LoopNext)

-----------------------------------------------------------------------------
(* Properties *)

LoopTypeOK ==
    /\ stage \in {"start", "critique", "refine", "done"}
    /\ response \in Text /\ response.version = 0
    /\ current \in Text
    /\ iteration \in 0..MaxIterations
    /\ audited \subseteq Versions /\ unheard \subseteq Versions
    /\ result \in Text \cup {NoText}

\* Whatever critic and refiner do in however many rounds, a long response is
\* not returned with less than TotalPercent of its length.
LongAnswerKeepsItsLength ==
    stage = "done" /\ response.length > GuardChars =>
        100 * result.length >= TotalPercent * response.length

\* Only a critic that fails lets a rewrite out unread.  Every text that was
\* replaced had been read and objected to; the last one has been read ("+1 for
\* the final critique"), or it is the one text on which the critic failed: then the
\* loop stops there and returns it ("Better to ship an un-audited draft").
UnreadOnlyIfTheCriticFailed ==
    stage = "done" /\ result.version > 0 =>
        /\ 0..(result.version - 1) \subseteq audited
        /\ result.version \in audited \/ unheard = {result.version}

\* The loop ends whatever the models answer.
LoopEnds == <>(stage = "done")
=============================================================================
