------------------------------ MODULE ChatStore ------------------------------
(***************************************************************************)
(* The PostgreSQL chat-history store (class _PostgresChatHistoryStore of   *)
(* core/chat_store.py): numbered turns, the rolling summary, the registry  *)
(* of uploaded files as far as it holds a thread alive, and the admin      *)
(* sweep that expires unused threads.                                      *)
(*                                                                         *)
(* The store is shared by every request of every gunicorn worker; a Worker *)
(* here is one thread-pool call into it.  Transactions run at READ         *)
(* COMMITTED: a statement sees what was committed before it started, an    *)
(* uncommitted upsert of a threads row keeps the row's lock until it       *)
(* commits or rolls back, and a later writer of the row waits for it.      *)
(***************************************************************************)
EXTENDS Naturals, FiniteSets

CONSTANTS
    Threads,      \* thread ids
    Workers,      \* concurrent calls into the store
    NoWorker,     \* the owner of a row lock nobody holds
    MaxTurns,     \* bound of the model: turns saved in one life of a thread
    SummaryGap,   \* unsummarised turns that trigger a new summary (3)
    RecentTurns,  \* turns load_history returns verbatim (5)
    Faults        \* which of the faults "llm", "crash" and "abort" may occur

ASSUME ChatStoreAssumption ==
    /\ NoWorker \notin Workers
    /\ MaxTurns \in Nat
    /\ SummaryGap \in Nat \ {0}
    /\ RecentTurns \in Nat
    /\ Faults \subseteq {"llm", "crash", "abort"}

Turn == 1..MaxTurns

VARIABLES
    row,       \* the committed threads row of each thread
    messages,  \* messages[t][i]: committed messages rows numbered i
    hasFiles,  \* whether thread_files holds a row of the thread
    lock,      \* who holds the lock of the threads row
    job,       \* what each worker is doing
    sweep,     \* the expiry transaction
    lost       \* history: turns deleted although their thread lives on

vars == <<row, messages, hasFiles, lock, job, sweep, lost>>

-----------------------------------------------------------------------------
\* A threads row.  covers is what summary_text tells of: the turns whose text
\* went into it.  stale says updated_at lies before the retention window.
Row == [exists : BOOLEAN, total : 0..MaxTurns, summarised : 0..MaxTurns,
        covers : SUBSET Turn, stale : BOOLEAN]

NoRow == [exists |-> FALSE, total |-> 0, summarised |-> 0, covers |-> {},
          stale |-> FALSE]

\* seen is the row a worker has read, batch the messages it has read.
Job == [pc : {"idle", "upserted", "saved", "summing", "asking", "loading",
              "loaded"},
        thread : Threads, turn : 0..MaxTurns, seen : Row, batch : SUBSET Turn]

Sweep == [pc : {"idle", "messages_deleted"}, doomed : [Threads -> SUBSET Turn]]

NoSweep == [pc |-> "idle", doomed |-> [t \in Threads |-> {}]]
NoTurns == [i \in Turn |-> 0]
Present(t) == {i \in Turn : messages[t][i] > 0}
Stale == {t \in Threads : row[t].stale}
On(w) == job[w].thread
Finished(w) == [pc |-> "idle", thread |-> On(w), turn |-> 0, seen |-> NoRow,
                batch |-> {}]
Busy(t) == \E w \in Workers : job[w].pc # "idle" /\ On(w) = t

\* The newest RecentTurns of a set of turns (ORDER BY turn_number DESC LIMIT).
Newest(S) == {i \in S : Cardinality({j \in S : j > i}) < RecentTurns}

TypeOK ==
    /\ row \in [Threads -> Row]
    /\ messages \in [Threads -> [Turn -> Nat]]
    /\ hasFiles \in [Threads -> BOOLEAN]
    /\ lock \in [Threads -> Workers \cup {NoWorker}]
    /\ job \in [Workers -> Job]
    /\ sweep \in Sweep
    /\ lost \in [Threads -> SUBSET Turn]

Init ==
    /\ row = [t \in Threads |-> NoRow]
    /\ messages = [t \in Threads |-> NoTurns]
    /\ hasFiles = [t \in Threads |-> FALSE]
    /\ lock = [t \in Threads |-> NoWorker]
    /\ \E t \in Threads :
         job = [w \in Workers |-> [pc |-> "idle", thread |-> t, turn |-> 0,
                                   seen |-> NoRow, batch |-> {}]]
    /\ sweep = NoSweep
    /\ lost = [t \in Threads |-> {}]

-----------------------------------------------------------------------------
(* Saving a turn *)

\* Mutant: the next number is read without taking the row's lock.
SaveUpsertNoLock(w, t) ==
    /\ job[w].pc = "idle"
    /\ row[t].total < MaxTurns
    /\ job' = [job EXCEPT ![w] = [@ EXCEPT !.pc = "upserted", !.thread = t,
                                           !.turn = row[t].total + 1]]
    /\ UNCHANGED <<row, messages, hasFiles, lock, sweep, lost>>

\* INSERT ... ON CONFLICT DO UPDATE total_turns + 1 ... RETURNING: waits for
\* the row lock, then counts from the newest committed row.
SaveUpsert(w, t) ==
    /\ job[w].pc = "idle"
    /\ lock[t] = NoWorker
    /\ row[t].total < MaxTurns
    /\ lock' = [lock EXCEPT ![t] = w]
    /\ job' = [job EXCEPT ![w] = [@ EXCEPT !.pc = "upserted", !.thread = t,
                                           !.turn = row[t].total + 1]]
    /\ UNCHANGED <<row, messages, hasFiles, sweep, lost>>

\* The insert into messages and the commit of both statements.
SaveCommit(w) ==
    /\ job[w].pc = "upserted"
    /\ row' = [row EXCEPT ![On(w)] = [@ EXCEPT !.exists = TRUE, !.stale = FALSE,
                                               !.total = job[w].turn]]
    /\ messages' = [messages EXCEPT ![On(w)][job[w].turn] = @ + 1]
    /\ lock' = [lock EXCEPT ![On(w)] = NoWorker]
    /\ job' = [job EXCEPT ![w] = [@ EXCEPT !.pc = "saved", !.turn = 0]]
    /\ UNCHANGED <<hasFiles, sweep, lost>>

\* The insert raises (a value PostgreSQL refuses): both statements roll back
\* and save_turn raises to its caller.
SaveAbort(w) ==
    /\ "abort" \in Faults
    /\ job[w].pc = "upserted"
    /\ lock' = [lock EXCEPT ![On(w)] = NoWorker]
    /\ job' = [job EXCEPT ![w] = Finished(w)]
    /\ UNCHANGED <<row, messages, hasFiles, sweep, lost>>

-----------------------------------------------------------------------------
(* The rolling summary, regenerated after the commit by the same call *)

SummarySkip(w) ==
    /\ job[w].pc = "saved"
    /\ \/ ~row[On(w)].exists
       \/ row[On(w)].total < row[On(w)].summarised + SummaryGap
    /\ job' = [job EXCEPT ![w] = Finished(w)]
    /\ UNCHANGED <<row, messages, hasFiles, lock, sweep, lost>>

SummaryStart(w) ==
    /\ job[w].pc = "saved"
    /\ row[On(w)].exists
    /\ row[On(w)].total >= row[On(w)].summarised + SummaryGap
    /\ job' = [job EXCEPT ![w] = [@ EXCEPT !.pc = "summing",
                                           !.seen = row[On(w)]]]
    /\ UNCHANGED <<row, messages, hasFiles, lock, sweep, lost>>

\* Mutant: the first unsummarised turn is skipped (> for >=).
SummaryReadSkipsOne(w) ==
    /\ job[w].pc = "summing"
    /\ job' = [job EXCEPT ![w] = [@ EXCEPT !.pc = "asking",
                 !.batch = {i \in Present(On(w)) :
                              i > job[w].seen.summarised + 1}]]
    /\ UNCHANGED <<row, messages, hasFiles, lock, sweep, lost>>

\* A second statement, with a snapshot of its own: it may see turns saved
\* after the row was read.
SummaryRead(w) ==
    /\ job[w].pc = "summing"
    /\ job' = [job EXCEPT ![w] = [@ EXCEPT !.pc = "asking",
                 !.batch = {i \in Present(On(w)) : i > job[w].seen.summarised}]]
    /\ UNCHANGED <<row, messages, hasFiles, lock, sweep, lost>>

\* The model call raises or answers with next to nothing: no summary.
SummaryFail(w) ==
    /\ "llm" \in Faults
    /\ job[w].pc = "asking"
    /\ job' = [job EXCEPT ![w] = Finished(w)]
    /\ UNCHANGED <<row, messages, hasFiles, lock, sweep, lost>>

\* Mutant: summary_turn_count is set from the total of the moment.
SummaryWriteNewTotal(w) ==
    /\ job[w].pc = "asking"
    /\ lock[On(w)] = NoWorker
    /\ row' = [row EXCEPT ![On(w)] =
                 IF ~@.exists THEN @
                 ELSE [@ EXCEPT !.summarised = row[On(w)].total,
                                !.covers = job[w].seen.covers \cup job[w].batch]]
    /\ job' = [job EXCEPT ![w] = Finished(w)]
    /\ UNCHANGED <<messages, hasFiles, lock, sweep, lost>>

\* A blind UPDATE from the row read before the model call.
SummaryWrite(w) ==
    /\ job[w].pc = "asking"
    /\ lock[On(w)] = NoWorker
    /\ row' = [row EXCEPT ![On(w)] =
                 IF ~@.exists THEN @
                 ELSE [@ EXCEPT !.summarised = job[w].seen.total,
                                !.covers = job[w].seen.covers \cup job[w].batch]]
    /\ job' = [job EXCEPT ![w] = Finished(w)]
    /\ UNCHANGED <<messages, hasFiles, lock, sweep, lost>>

-----------------------------------------------------------------------------
(* Loading the history of a thread: two statements again *)

LoadRow(w, t) ==
    /\ job[w].pc = "idle"
    /\ row[t].exists
    /\ job' = [job EXCEPT ![w] = [@ EXCEPT !.pc = "loading", !.thread = t,
                                           !.seen = row[t]]]
    /\ UNCHANGED <<row, messages, hasFiles, lock, sweep, lost>>

LoadMessages(w) ==
    /\ job[w].pc = "loading"
    /\ job' = [job EXCEPT ![w] = [@ EXCEPT !.pc = "loaded",
                                           !.batch = Newest(Present(On(w)))]]
    /\ UNCHANGED <<row, messages, hasFiles, lock, sweep, lost>>

LoadReturn(w) ==
    /\ job[w].pc = "loaded"
    /\ job' = [job EXCEPT ![w] = Finished(w)]
    /\ UNCHANGED <<row, messages, hasFiles, lock, sweep, lost>>

\* The worker process dies: its connection closes and the server rolls back
\* what it had not committed.
WorkerCrash(w) ==
    /\ "crash" \in Faults
    /\ job[w].pc # "idle"
    /\ lock' = [t \in Threads |-> IF lock[t] = w THEN NoWorker ELSE lock[t]]
    /\ job' = [job EXCEPT ![w] = Finished(w)]
    /\ UNCHANGED <<row, messages, hasFiles, sweep, lost>>

-----------------------------------------------------------------------------
(* Uploaded files *)

\* save_thread_file creates the threads row if there is none; on one that
\* exists it leaves updated_at alone.
SaveThreadFile(t) ==
    /\ row[t].exists \/ lock[t] = NoWorker
    /\ row' = [row EXCEPT ![t].exists = TRUE]
    /\ hasFiles' = [hasFiles EXCEPT ![t] = TRUE]
    /\ UNCHANGED <<messages, lock, job, sweep, lost>>

DeleteThreadFiles(t) ==
    /\ hasFiles[t]
    /\ hasFiles' = [hasFiles EXCEPT ![t] = FALSE]
    /\ UNCHANGED <<row, messages, lock, job, sweep, lost>>

-----------------------------------------------------------------------------
(* Expiry *)

\* The retention window (7 days or more) passes without a save.  No call and
\* no sweep takes that long, so none is under way on the thread.
Age(t) ==
    /\ row[t].exists /\ ~row[t].stale
    /\ ~Busy(t)
    /\ sweep.pc = "idle"
    /\ row' = [row EXCEPT ![t].stale = TRUE]
    /\ UNCHANGED <<messages, hasFiles, lock, job, sweep, lost>>

\* First statement: delete the messages of every stale thread.
SweepMessages ==
    /\ sweep.pc = "idle"
    /\ Stale # {}
    /\ sweep' = [pc |-> "messages_deleted",
                 doomed |-> [t \in Threads |->
                               IF row[t].stale THEN Present(t) ELSE {}]]
    /\ UNCHANGED <<row, messages, hasFiles, lock, job, lost>>

\* Mutant: the second statement deletes the threads the first one picked.
SweepCommitAsPicked ==
    /\ sweep.pc = "messages_deleted"
    /\ \A t \in Stale : lock[t] = NoWorker /\ ~hasFiles[t]
    /\ row' = [t \in Threads |-> IF sweep.doomed[t] # {} THEN NoRow ELSE row[t]]
    /\ messages' = [t \in Threads |-> [i \in Turn |->
                      IF i \in sweep.doomed[t] THEN 0 ELSE messages[t][i]]]
    /\ UNCHANGED <<hasFiles, lock, job, lost>>
    /\ sweep' = NoSweep

\* Second statement: delete the threads that are still stale, after waiting
\* for the row locks, and commit.  A thread saved in between stays, without
\* the messages the first statement deleted.
SweepCommit ==
    /\ sweep.pc = "messages_deleted"
    /\ \A t \in Stale : lock[t] = NoWorker /\ ~hasFiles[t]
    /\ row' = [t \in Threads |-> IF row[t].stale THEN NoRow ELSE row[t]]
    /\ messages' = [t \in Threads |-> [i \in Turn |->
                      IF i \in sweep.doomed[t] THEN 0 ELSE messages[t][i]]]
    /\ lost' = [t \in Threads |->
                  IF row[t].stale THEN {} ELSE lost[t] \cup sweep.doomed[t]]
    /\ sweep' = NoSweep
    /\ UNCHANGED <<hasFiles, lock, job>>

\* thread_files references threads without ON DELETE CASCADE: one stale
\* thread with files and the whole transaction rolls back.
SweepRefused ==
    /\ sweep.pc = "messages_deleted"
    /\ \A t \in Stale : lock[t] = NoWorker
    /\ \E t \in Stale : hasFiles[t]
    /\ sweep' = NoSweep
    /\ UNCHANGED <<row, messages, hasFiles, lock, job, lost>>

-----------------------------------------------------------------------------
WorkerNext(w) ==
    \/ \E t \in Threads : SaveUpsert(w, t) \/ LoadRow(w, t)
    \/ SaveCommit(w) \/ SaveAbort(w)
    \/ SummarySkip(w) \/ SummaryStart(w) \/ SummaryRead(w)
    \/ SummaryFail(w) \/ SummaryWrite(w)
    \/ LoadMessages(w) \/ LoadReturn(w)
    \/ WorkerCrash(w)

Next ==
    \/ \E w \in Workers : WorkerNext(w)
    \/ \E t \in Threads : SaveThreadFile(t) \/ DeleteThreadFiles(t) \/ Age(t)
    \/ SweepMessages \/ SweepCommit \/ SweepRefused

Spec == Init /\ [][Next]_vars

-----------------------------------------------------------------------------
(* Properties *)

\* The turns of a thread are numbered 1, 2, ..., total_turns: each number is
\* on exactly one messages row, whatever saves, crashes and sweeps interleave,
\* save for turns a racing sweep took (_save_turn_sync).
TurnsNumberedOnce ==
    \A t \in Threads : \A i \in Turn :
      messages[t][i] = IF i <= row[t].total /\ i \notin lost[t] THEN 1 ELSE 0

\* summary_turn_count never claims a turn the summary text was not built
\* from: concurrent regenerations may overwrite each other, but the count and
\* the text they leave belong together (_maybe_regenerate_summary_sync).
SummaryCountHonest ==
    \A t \in Threads :
      /\ row[t].summarised <= row[t].total
      /\ 1..row[t].summarised \subseteq row[t].covers \cup lost[t]

\* What load_history hands to the model leaves out no turn: those older than
\* the verbatim window are told by the summary.  It holds when the calls on a
\* thread follow one another and the summary model answers (and the thread
\* did not expire between the two reads).
NoTurnForgotten ==
    \A w \in Workers :
      job[w].pc = "loaded" /\ row[On(w)].total >= job[w].seen.total =>
      1..job[w].seen.total \subseteq
        job[w].seen.covers \cup job[w].batch \cup lost[On(w)]

\* The store implements the log of turns of ThreadLog: whatever saves, sweeps,
\* rollbacks and crashes interleave, a turn once committed keeps its number and
\* stays; a sweep takes whole threads that are out of use and, of a thread that
\* comes back between its two statements, the older turns but not the last.
Log == INSTANCE ThreadLog WITH
         count <- [t \in Threads |-> row[t].total],
         kept <- [t \in Threads |-> Present(t)],
         unused <- Stale
KeepsTheLog == Log!Spec
=============================================================================
