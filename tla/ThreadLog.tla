------------------------------ MODULE ThreadLog ------------------------------
(***************************************************************************)
(* What the history store promises of the turns of a conversation: each is *)
(* recorded once, under the next number, and stays.  Only expiry takes     *)
(* turns back: all of them of a thread that is out of use, or the oldest   *)
(* of one that came back into use meanwhile, never its last.               *)
(***************************************************************************)
EXTENDS Naturals

CONSTANTS Threads,     \* thread ids
          MaxTurns     \* bound: turns recorded in one life of a thread

VARIABLES count,       \* count[t]: turns recorded
          kept,        \* kept[t]: those still there
          unused       \* threads nothing was recorded in for the retention window

vars == <<count, kept, unused>>

Init == /\ count = [t \in Threads |-> 0]
        /\ kept = [t \in Threads |-> {}]
        /\ unused = {}

Record(t) == /\ count[t] < MaxTurns
             /\ count' = [count EXCEPT ![t] = @ + 1]
             /\ kept' = [kept EXCEPT ![t] = @ \cup {count[t] + 1}]
             /\ unused' = unused \ {t}

FallsOutOfUse(t) == /\ unused' = unused \cup {t}
                    /\ UNCHANGED <<count, kept>>

\* The threads of gone start over, any other keeps its turns from some one on.
Expire(gone, from) ==
    /\ gone \subseteq unused
    /\ \A t \in Threads : from[t] <= count[t]
    /\ count' = [t \in Threads |-> IF t \in gone THEN 0 ELSE count[t]]
    /\ kept' = [t \in Threads |-> IF t \in gone THEN {} ELSE {i \in kept[t] : i >= from[t]}]
    /\ unused' = unused \ gone

Next == \/ \E t \in Threads : Record(t) \/ FallsOutOfUse(t)
        \/ \E gone \in SUBSET Threads, from \in [Threads -> 0..MaxTurns] : Expire(gone, from)

Spec == Init /\ [][Next]_vars
=============================================================================
