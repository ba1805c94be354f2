--------------------------- MODULE ChatStoreProofs ---------------------------
(***************************************************************************)
(* Proofs about ChatStore for any number of threads, workers and turns and *)
(* any subset of the faults: the turns of a thread are numbered once and   *)
(* without holes, the summary count is honest, and the store implements    *)
(* the log of turns of ThreadLog.  And, with a summary model that answers, *)
(* load_history leaves no turn of a thread out while the calls on that     *)
(* thread follow one another.                                              *)
(***************************************************************************)
EXTENDS ChatStore, FiniteSetTheorems, TLAPS

\* The holder of a row lock is the one upsert under way on the row, and its
\* turn number is still the next one.
LockHeld ==
    \A w \in Workers : job[w].pc = "upserted" =>
      lock[On(w)] = w /\ job[w].turn = row[On(w)].total + 1

\* Only turns that were saved have been lost, ...
LostWereSaved == \A t \in Threads : lost[t] \subseteq 1..row[t].total

\* ... or are about to be deleted; and of a thread that is to go, all are.
DoomedWereSaved ==
    sweep.pc = "messages_deleted" =>
      \A t \in Threads :
        /\ sweep.doomed[t] \subseteq 1..row[t].total
        /\ row[t].stale => Present(t) \subseteq sweep.doomed[t]

\* A thread is in use while a call is between its commit and its summary.
SummariserKeepsThread ==
    \A w \in Workers : job[w].pc \in {"saved", "summing", "asking"} =>
      row[On(w)].exists /\ ~row[On(w)].stale

\* The row a summariser has read was honest, and the thread has not shrunk.
SeenHonest ==
    \A w \in Workers : job[w].pc \in {"summing", "asking"} =>
      /\ job[w].seen.total <= row[On(w)].total
      /\ job[w].seen.summarised <= job[w].seen.total
      /\ 1..job[w].seen.summarised \subseteq job[w].seen.covers \cup lost[On(w)]

\* With the messages it read it can vouch for every turn it is going to claim.
BatchComplete ==
    \A w \in Workers : job[w].pc = "asking" =>
      1..job[w].seen.total \subseteq
        job[w].seen.covers \cup job[w].batch \cup lost[On(w)]

IInv ==
    /\ TypeOK
    /\ TurnsNumberedOnce
    /\ SummaryCountHonest
    /\ LockHeld
    /\ LostWereSaved
    /\ DoomedWereSaved
    /\ SummariserKeepsThread
    /\ SeenHonest
    /\ BatchComplete

-----------------------------------------------------------------------------
(* Type correctness *)

\* Ending a call leaves a well-typed job.
LEMMA FinishedType ==
    ASSUME NEW w \in Workers, job \in [Workers -> Job]
    PROVE  Finished(w) \in Job /\ Finished(w).pc = "idle"
  BY ChatStoreAssumption DEF Finished, On, Job, NoRow, Row

\* The empty row and the empty message table are well typed.
LEMMA EmptyType ==
    /\ NoRow \in Row
    /\ NoTurns \in [Turn -> Nat]
    /\ NoSweep \in Sweep
  BY ChatStoreAssumption DEF NoRow, Row, NoTurns, NoSweep, Sweep

\* Counting one more messages row keeps the table well typed.
LEMMA MessageAdded ==
    ASSUME NEW M \in [Threads -> [Turn -> Nat]], NEW t \in Threads, NEW i
    PROVE  [M EXCEPT ![t][i] = @ + 1] \in [Threads -> [Turn -> Nat]]
  <1> DEFINE N == [M[t] EXCEPT ![i] = @ + 1]
  <1>1. M[t] \in [Turn -> Nat]
    OBVIOUS
  <1>2. N \in [Turn -> Nat]
    <2>1. CASE i \in Turn
      <3>1. M[t][i] + 1 \in Nat
        BY <1>1, <2>1
      <3> QED
        BY <1>1, <3>1
    <2>2. CASE i \notin Turn
      BY <1>1, <2>2
    <2> QED
      BY <2>1, <2>2
  <1> QED
    BY <1>2

\* What a worker reads is well typed.
LEMMA ReadType ==
    ASSUME TypeOK, NEW w \in Workers
    PROVE  job[w] \in Job /\ On(w) \in Threads /\ row[On(w)] \in Row
  <1>1. job[w] \in Job
    BY DEF TypeOK
  <1>2. On(w) \in Threads
    BY <1>1 DEF Job, On
  <1> QED
    BY <1>1, <1>2 DEF TypeOK

\* The empty store is well typed.
LEMMA TypeInit == Init => TypeOK
  <1> SUFFICES ASSUME Init PROVE TypeOK
    OBVIOUS
  <1>1. job \in [Workers -> Job]
    BY EmptyType, ChatStoreAssumption DEF Init, Job
  <1> QED
    BY <1>1, EmptyType DEF Init, TypeOK

\* Every step of the store keeps the types.
LEMMA TypeStep == TypeOK /\ [Next]_vars => TypeOK'
  <1> SUFFICES ASSUME TypeOK, [Next]_vars PROVE TypeOK'
    OBVIOUS
  <1> USE ChatStoreAssumption
  <1>1. ASSUME NEW w \in Workers, NEW t \in Threads, SaveUpsert(w, t)
        PROVE  TypeOK'
    <2>1. row[t].total + 1 \in 0..MaxTurns
      BY <1>1 DEF SaveUpsert, TypeOK, Row
    <2>2. [job[w] EXCEPT !.pc = "upserted", !.thread = t,
                         !.turn = row[t].total + 1] \in Job
      BY <2>1, ReadType DEF Job
    <2> QED
      BY <1>1, <2>2 DEF SaveUpsert, TypeOK
  <1>2. ASSUME NEW w \in Workers, SaveCommit(w)
        PROVE  TypeOK'
    <2>0. On(w) \in Threads /\ job[w].turn \in 0..MaxTurns /\ row[On(w)] \in Row
      BY ReadType DEF Job
    <2>1. [row[On(w)] EXCEPT !.exists = TRUE, !.stale = FALSE,
                             !.total = job[w].turn] \in Row
      BY <2>0 DEF Row
    <2>2. messages' \in [Threads -> [Turn -> Nat]]
      BY <1>2, <2>0, MessageAdded DEF SaveCommit, TypeOK
    <2>3. [job[w] EXCEPT !.pc = "saved", !.turn = 0] \in Job
      <3>1. job[w] \in Job /\ 0 \in 0..MaxTurns
        BY ReadType
      <3> QED
        BY <3>1 DEF Job
    <2> QED
      BY <1>2, <2>1, <2>2, <2>3 DEF SaveCommit, TypeOK
  <1>3. ASSUME NEW w \in Workers, SaveAbort(w)
        PROVE  TypeOK'
    BY <1>3, FinishedType DEF SaveAbort, TypeOK
  <1>4. ASSUME NEW w \in Workers, SummarySkip(w)
        PROVE  TypeOK'
    BY <1>4, FinishedType DEF SummarySkip, TypeOK
  <1>5. ASSUME NEW w \in Workers, SummaryStart(w)
        PROVE  TypeOK'
    <2>1. [job[w] EXCEPT !.pc = "summing", !.seen = row[On(w)]] \in Job
      BY ReadType DEF Job
    <2> QED
      BY <1>5, <2>1 DEF SummaryStart, TypeOK
  <1>6. ASSUME NEW w \in Workers, SummaryRead(w)
        PROVE  TypeOK'
    <2> DEFINE B == {i \in Present(On(w)) : i > job[w].seen.summarised}
    <2>1. B \in SUBSET Turn
      BY DEF Present
    <2> HIDE DEF B
    <2>2. [job[w] EXCEPT !.pc = "asking", !.batch = B] \in Job
      BY <2>1, ReadType DEF Job
    <2> USE DEF B
    <2> QED
      BY <1>6, <2>2 DEF SummaryRead, TypeOK
  <1>7. ASSUME NEW w \in Workers, SummaryFail(w)
        PROVE  TypeOK'
    BY <1>7, FinishedType DEF SummaryFail, TypeOK
  <1>8. ASSUME NEW w \in Workers, SummaryWrite(w)
        PROVE  TypeOK'
    <2>1. /\ On(w) \in Threads
          /\ row[On(w)] \in Row
          /\ job[w].seen.total \in 0..MaxTurns
          /\ job[w].seen.covers \cup job[w].batch \in SUBSET Turn
      BY ReadType DEF Job, Row
    <2>2. [row[On(w)] EXCEPT !.summarised = job[w].seen.total,
                             !.covers = job[w].seen.covers \cup job[w].batch]
            \in Row
      BY <2>1 DEF Row
    <2>3. row' \in [Threads -> Row]
      BY <1>8, <2>1, <2>2 DEF SummaryWrite, TypeOK
    <2> QED
      BY <1>8, <2>3, FinishedType DEF SummaryWrite, TypeOK
  <1>9. ASSUME NEW w \in Workers, NEW t \in Threads, LoadRow(w, t)
        PROVE  TypeOK'
    <2>0. row[t] \in Row
      BY DEF TypeOK
    <2>1. [job[w] EXCEPT !.pc = "loading", !.thread = t, !.seen = row[t]] \in Job
      BY <2>0, ReadType DEF Job
    <2> QED
      BY <1>9, <2>1 DEF LoadRow, TypeOK
  <1>10. ASSUME NEW w \in Workers, LoadMessages(w)
         PROVE  TypeOK'
    <2>1. Newest(Present(On(w))) \in SUBSET Turn
      BY DEF Present, Newest
    <2>2. [job[w] EXCEPT !.pc = "loaded",
                         !.batch = Newest(Present(On(w)))] \in Job
      BY <2>1, ReadType DEF Job
    <2> QED
      BY <1>10, <2>2 DEF LoadMessages, TypeOK
  <1>11. ASSUME NEW w \in Workers, LoadReturn(w)
         PROVE  TypeOK'
    BY <1>11, FinishedType DEF LoadReturn, TypeOK
  <1>12. ASSUME NEW w \in Workers, WorkerCrash(w)
         PROVE  TypeOK'
    BY <1>12, FinishedType DEF WorkerCrash, TypeOK
  <1>13. ASSUME NEW t \in Threads, SaveThreadFile(t)
         PROVE  TypeOK'
    <2>0. row[t] \in Row
      BY DEF TypeOK
    <2>1. [row[t] EXCEPT !.exists = TRUE] \in Row
      BY <2>0 DEF Row
    <2> QED
      BY <1>13, <2>0, <2>1 DEF SaveThreadFile, TypeOK
  <1>14. ASSUME NEW t \in Threads, DeleteThreadFiles(t)
         PROVE  TypeOK'
    BY <1>14 DEF DeleteThreadFiles, TypeOK
  <1>15. ASSUME NEW t \in Threads, Age(t)
         PROVE  TypeOK'
    <2>0. row[t] \in Row
      BY DEF TypeOK
    <2>1. [row[t] EXCEPT !.stale = TRUE] \in Row
      BY <2>0 DEF Row
    <2> QED
      BY <1>15, <2>1 DEF Age, TypeOK
  <1>16. ASSUME SweepMessages PROVE TypeOK'
    <2> DEFINE D == [t \in Threads |-> IF row[t].stale THEN Present(t) ELSE {}]
    <2>1. D \in [Threads -> SUBSET Turn]
      BY DEF Present
    <2>2. [pc |-> "messages_deleted", doomed |-> D] \in Sweep
      BY <2>1 DEF Sweep
    <2> QED
      BY <1>16, <2>2 DEF SweepMessages, TypeOK
  <1>17. ASSUME SweepCommit PROVE TypeOK'
    <2>1. row' \in [Threads -> Row]
      BY <1>17, EmptyType DEF SweepCommit, TypeOK
    <2>2. messages' \in [Threads -> [Turn -> Nat]]
      BY <1>17 DEF SweepCommit, TypeOK
    <2>3. lost' \in [Threads -> SUBSET Turn]
      BY <1>17 DEF SweepCommit, TypeOK, Sweep
    <2> QED
      BY <1>17, <2>1, <2>2, <2>3, EmptyType DEF SweepCommit, TypeOK
  <1>18. ASSUME SweepRefused PROVE TypeOK'
    BY <1>18, EmptyType DEF SweepRefused, TypeOK
  <1>19. CASE UNCHANGED vars
    BY <1>19 DEF vars, TypeOK
  <1> QED
    BY <1>1, <1>2, <1>3, <1>4, <1>5, <1>6, <1>7, <1>8, <1>9, <1>10, <1>11,
       <1>12, <1>13, <1>14, <1>15, <1>16, <1>17, <1>18, <1>19
    DEF Next, WorkerNext

\* The store's variables keep their types in every behaviour.
THEOREM TypeCorrect == Spec => []TypeOK
  <1>1. Init => TypeOK
    BY TypeInit
  <1>2. TypeOK /\ [Next]_vars => TypeOK'
    BY TypeStep
  <1> QED
    BY <1>1, <1>2, PTL DEF Spec

-----------------------------------------------------------------------------
(* The inductive invariant *)

\* The empty store satisfies the inductive invariant.
LEMMA IInvInit == Init => IInv
  <1> SUFFICES ASSUME Init PROVE IInv
    OBVIOUS
  <1>1. TypeOK
    BY TypeInit
  <1>2. /\ \A w \in Workers : job[w].pc = "idle"
        /\ \A t \in Threads : row[t] = NoRow /\ lost[t] = {}
    BY DEF Init
  <1>3. TurnsNumberedOnce
    BY <1>2 DEF Init, TurnsNumberedOnce, NoRow, NoTurns, Turn
  <1>4. SummaryCountHonest
    BY <1>2 DEF SummaryCountHonest, NoRow
  <1>5. DoomedWereSaved
    BY DEF Init, NoSweep, DoomedWereSaved
  <1> QED
    BY <1>1, <1>2, <1>3, <1>4, <1>5
    DEF IInv, LockHeld, LostWereSaved, SummariserKeepsThread, SeenHonest,
        BatchComplete

\* What a well-typed store gives the arithmetic below.
LEMMA Fields ==
    ASSUME TypeOK
    PROVE  /\ \A t \in Threads :
                /\ row[t].total \in 0..MaxTurns
                /\ row[t].summarised \in 0..MaxTurns
                /\ row[t].exists \in BOOLEAN /\ row[t].stale \in BOOLEAN
                /\ lost[t] \subseteq Turn
                /\ \A i \in Turn : messages[t][i] \in Nat
           /\ \A w \in Workers :
                /\ On(w) \in Threads
                /\ job[w].turn \in 0..MaxTurns
                /\ job[w].seen.total \in 0..MaxTurns
                /\ job[w].seen.summarised \in 0..MaxTurns
                /\ job[w].seen.covers \subseteq Turn
                /\ job[w].batch \subseteq Turn
  BY DEF TypeOK, Row, Job, On

\* A step that leaves the count, the age and the presence of every thread.
RowsStand ==
    \A t \in Threads :
      /\ row'[t].total = row[t].total
      /\ row'[t].stale = row[t].stale
      /\ row[t].exists => row'[t].exists

\* A step in which calls go on as they are, end or load.
JobsStand ==
    \A w \in Workers :
      \/ job'[w] = job[w] /\ \A t \in Threads : lock[t] = w => lock'[t] = w
      \/ job'[w].pc \in {"idle", "loading", "loaded"}

\* What is known of the calls under way relies on no more than that.
LEMMA CallsFrame ==
    ASSUME IInv, RowsStand, JobsStand, lost' = lost
    PROVE  LockHeld' /\ SummariserKeepsThread' /\ SeenHonest' /\ BatchComplete'
  <1>1. ASSUME NEW w \in Workers,
               job'[w].pc \notin {"idle", "loading", "loaded"}
        PROVE  /\ job'[w] = job[w]
               /\ \A t \in Threads : lock[t] = w => lock'[t] = w
               /\ On(w) \in Threads
               /\ row'[On(w)].total = row[On(w)].total
               /\ row'[On(w)].stale = row[On(w)].stale
               /\ row[On(w)].exists => row'[On(w)].exists
    <2>1. On(w) \in Threads
      BY Fields DEF IInv
    <2>2. job'[w] = job[w] /\ \A t \in Threads : lock[t] = w => lock'[t] = w
      BY <1>1 DEF JobsStand
    <2> QED
      BY <2>1, <2>2 DEF RowsStand
  <1>2. LockHeld'
    <2> SUFFICES ASSUME NEW w \in Workers, job'[w].pc = "upserted"
                 PROVE  /\ lock'[job'[w].thread] = w
                        /\ job'[w].turn = row'[job'[w].thread].total + 1
      BY DEF LockHeld, On
    <2> QED
      BY <1>1 DEF IInv, LockHeld, On
  <1>3. SummariserKeepsThread'
    <2> SUFFICES ASSUME NEW w \in Workers,
                        job'[w].pc \in {"saved", "summing", "asking"}
                 PROVE  row'[job'[w].thread].exists /\ ~row'[job'[w].thread].stale
      BY DEF SummariserKeepsThread, On
    <2> QED
      BY <1>1 DEF IInv, SummariserKeepsThread, On
  <1>4. SeenHonest'
    <2> SUFFICES ASSUME NEW w \in Workers, job'[w].pc \in {"summing", "asking"}
                 PROVE  /\ job'[w].seen.total <= row'[job'[w].thread].total
                        /\ job'[w].seen.summarised <= job'[w].seen.total
                        /\ 1..job'[w].seen.summarised \subseteq
                             job'[w].seen.covers \cup lost'[job'[w].thread]
      BY DEF SeenHonest, On
    <2> QED
      BY <1>1 DEF IInv, SeenHonest, On
  <1>5. BatchComplete'
    <2> SUFFICES ASSUME NEW w \in Workers, job'[w].pc = "asking"
                 PROVE  1..job'[w].seen.total \subseteq
                          job'[w].seen.covers \cup job'[w].batch
                            \cup lost'[job'[w].thread]
      BY DEF BatchComplete, On
    <2> QED
      BY <1>1 DEF IInv, BatchComplete, On
  <1> QED
    BY <1>2, <1>3, <1>4, <1>5

\* Nor does what is known of the messages.
LEMMA StoreFrame ==
    ASSUME IInv, RowsStand, UNCHANGED <<messages, sweep, lost>>
    PROVE  TurnsNumberedOnce' /\ LostWereSaved' /\ DoomedWereSaved'
  <1>1. TurnsNumberedOnce'
    BY DEF IInv, RowsStand, TurnsNumberedOnce
  <1>2. LostWereSaved'
    BY DEF IInv, RowsStand, LostWereSaved
  <1>3. DoomedWereSaved'
    BY DEF IInv, RowsStand, DoomedWereSaved, Present
  <1> QED
    BY <1>1, <1>2, <1>3

\* A call that ends, or begins to load, and touches nothing else.
LEMMA EndOfCall ==
    ASSUME IInv, UNCHANGED <<row, messages, sweep, lost>>, JobsStand
    PROVE  /\ TurnsNumberedOnce' /\ SummaryCountHonest' /\ LostWereSaved'
           /\ DoomedWereSaved' /\ LockHeld' /\ SummariserKeepsThread'
           /\ SeenHonest' /\ BatchComplete'
  <1>1. RowsStand
    BY DEF RowsStand
  <1>2. SummaryCountHonest'
    BY DEF IInv, SummaryCountHonest
  <1> QED
    BY <1>1, <1>2, CallsFrame, StoreFrame

\* Every step of the saving of a turn keeps the invariant.
LEMMA SaveStep ==
    ASSUME IInv, TypeOK', NEW w \in Workers,
           (\E t \in Threads : SaveUpsert(w, t)) \/ SaveCommit(w) \/ SaveAbort(w)
    PROVE  IInv'
  <1> USE ChatStoreAssumption
  <1>0. TypeOK
    BY DEF IInv
  <1>1. ASSUME NEW t \in Threads, SaveUpsert(w, t) PROVE IInv'
    <2>1. /\ job'[w].pc = "upserted" /\ job'[w].thread = t
          /\ job'[w].turn = row[t].total + 1
          /\ \A v \in Workers : v # w => job'[v] = job[v]
          /\ lock[t] = NoWorker /\ lock'[t] = w
          /\ \A u \in Threads : u # t => lock'[u] = lock[u]
          /\ UNCHANGED <<row, messages, sweep, lost>>
      <3>1. job' = [job EXCEPT ![w] = [@ EXCEPT !.pc = "upserted", !.thread = t,
                                                !.turn = row[t].total + 1]]
            /\ lock' = [lock EXCEPT ![t] = w] /\ lock[t] = NoWorker
            /\ UNCHANGED <<row, messages, sweep, lost>>
        BY <1>1 DEF SaveUpsert
      <3>2. job = [v \in Workers |-> job[v]] /\ lock = [u \in Threads |-> lock[u]]
        BY <1>0 DEF TypeOK
      <3>3. job[w] \in Job
        BY <1>0, ReadType
      <3>4. job'[w] = [job[w] EXCEPT !.pc = "upserted", !.thread = t, !.turn = row[t].total + 1]
            /\ \A v \in Workers : v # w => job'[v] = job[v]
        BY <3>1, <3>2
      <3>5. lock'[t] = w /\ \A u \in Threads : u # t => lock'[u] = lock[u]
        BY <3>1, <3>2
      <3>6. job'[w].pc = "upserted" /\ job'[w].thread = t /\ job'[w].turn = row[t].total + 1
        BY <3>3, <3>4 DEF Job
      <3> QED
        BY <3>1, <3>4, <3>5, <3>6
    <2>2. LockHeld'
      <3> SUFFICES ASSUME NEW v \in Workers, job'[v].pc = "upserted"
                   PROVE  /\ lock'[job'[v].thread] = v
                          /\ job'[v].turn = row'[job'[v].thread].total + 1
        BY DEF LockHeld, On
      <3>1. CASE v = w
        BY <2>1, <3>1
      <3>2. CASE v # w
        BY <1>0, <2>1, <3>2, Fields DEF IInv, LockHeld, On
      <3> QED
        BY <3>1, <3>2
    <2>3. SummariserKeepsThread' /\ SeenHonest' /\ BatchComplete'
      <3>1. ASSUME NEW v \in Workers, job'[v].pc # "upserted"
            PROVE  job'[v] = job[v]
        BY <2>1, <3>1
      <3> QED
        BY <2>1, <3>1
        DEF IInv, SummariserKeepsThread, SeenHonest, BatchComplete, On
    <2>4. RowsStand
      BY <2>1 DEF RowsStand
    <2>5. SummaryCountHonest'
      BY <2>1 DEF IInv, SummaryCountHonest
    <2> QED
      BY <2>1, <2>2, <2>3, <2>4, <2>5, StoreFrame DEF IInv
  <1>2. ASSUME SaveCommit(w) PROVE IInv'
    <2> DEFINE t == On(w)
               n == job[w].turn
    <2>1. /\ t \in Threads /\ n \in Turn
          /\ n = row[t].total + 1 /\ lock[t] = w
      BY <1>0, <1>2, Fields DEF SaveCommit, IInv, LockHeld, Turn
    <2>2. /\ row'[t].total = n /\ row'[t].exists /\ ~row'[t].stale
          /\ row'[t].summarised = row[t].summarised
          /\ row'[t].covers = row[t].covers
          /\ \A u \in Threads : u # t => row'[u] = row[u]
      BY <1>0, <1>2, <2>1 DEF SaveCommit, TypeOK, Row
    <2>3. /\ messages'[t][n] = messages[t][n] + 1
          /\ \A i \in Turn : i # n => messages'[t][i] = messages[t][i]
          /\ \A u \in Threads : u # t => messages'[u] = messages[u]
      BY <1>0, <1>2, <2>1 DEF SaveCommit, TypeOK
    <2>4. /\ job'[w].pc = "saved" /\ job'[w].thread = t
          /\ \A v \in Workers : v # w => job'[v] = job[v]
          /\ \A u \in Threads : u # t => lock'[u] = lock[u]
          /\ UNCHANGED <<sweep, lost>>
      <3>1. job = [v \in Workers |-> job[v]] /\ job[w] \in Job
            /\ lock = [u \in Threads |-> lock[u]]
        BY <1>0 DEF TypeOK
      <3>2. job'[w].pc = "saved" /\ job'[w].thread = t
            /\ \A v \in Workers : v # w => job'[v] = job[v]
        BY <1>2, <3>1 DEF SaveCommit, Job, On
      <3> QED
        BY <1>2, <3>1, <3>2 DEF SaveCommit
    <2> HIDE DEF t, n
    <2>5. TurnsNumberedOnce'
      <3> SUFFICES ASSUME NEW u \in Threads, NEW i \in Turn
                   PROVE  messages'[u][i] =
                            IF i <= row'[u].total /\ i \notin lost'[u]
                            THEN 1 ELSE 0
        BY DEF TurnsNumberedOnce
      <3>1. CASE u # t
        BY <2>2, <2>3, <2>4, <3>1 DEF IInv, TurnsNumberedOnce
      <3>2. CASE u = t /\ i = n
        <4>1. messages[t][n] = 0
          BY <1>0, <2>1, Fields DEF IInv, TurnsNumberedOnce, Turn
        <4>2. n \notin lost[t]
          BY <1>0, <2>1, Fields DEF IInv, LostWereSaved
        <4>3. n <= n
          BY <2>1 DEF Turn
        <4> QED
          BY <2>2, <2>3, <2>4, <3>2, <4>1, <4>2, <4>3
      <3>3. CASE u = t /\ i # n
        <4>1. i <= row'[t].total <=> i <= row[t].total
          BY <1>0, <2>1, <2>2, <3>3, Fields DEF Turn
        <4> QED
          BY <2>1, <2>3, <2>4, <3>3, <4>1 DEF IInv, TurnsNumberedOnce
      <3> QED
        BY <3>1, <3>2, <3>3
    <2>6. \A u \in Threads : /\ row[u].total <= row'[u].total
                             /\ 1..row[u].total \subseteq 1..row'[u].total
      BY <1>0, <2>1, <2>2, Fields
    <2>7. SummaryCountHonest'
      <3>1. \A u \in Threads : /\ row'[u].summarised = row[u].summarised
                               /\ row'[u].covers = row[u].covers
        BY <2>2
      <3> SUFFICES ASSUME NEW u \in Threads
                   PROVE  /\ row[u].summarised <= row'[u].total
                          /\ 1..row[u].summarised \subseteq
                               row[u].covers \cup lost[u]
        BY <2>4, <3>1 DEF SummaryCountHonest
      <3> QED
        BY <1>0, <2>1, <2>2, <2>6, Fields DEF IInv, SummaryCountHonest
    <2>8. LockHeld'
      <3> SUFFICES ASSUME NEW v \in Workers, job'[v].pc = "upserted"
                   PROVE  /\ lock'[job'[v].thread] = v
                          /\ job'[v].turn = row'[job'[v].thread].total + 1
        BY DEF LockHeld, On
      <3>1. v # w
        BY <2>4
      <3>2. job'[v] = job[v] /\ On(v) \in Threads
        BY <1>0, <2>4, <3>1, Fields
      <3>3. lock[On(v)] = v /\ job[v].turn = row[On(v)].total + 1
        BY <3>2 DEF IInv, LockHeld
      <3>4. On(v) # t
        BY <2>1, <3>1, <3>3
      <3> QED
        BY <2>2, <2>4, <3>2, <3>3, <3>4 DEF On
    <2>9. LostWereSaved' /\ DoomedWereSaved'
      <3>1. LostWereSaved'
        BY <2>4, <2>6 DEF IInv, LostWereSaved
      <3>2. ASSUME sweep.pc = "messages_deleted", NEW u \in Threads
            PROVE  /\ sweep.doomed[u] \subseteq 1..row'[u].total
                   /\ row'[u].stale => Present(u)' \subseteq sweep.doomed[u]
        BY <2>2, <2>3, <2>6, <3>2 DEF IInv, DoomedWereSaved, Present
      <3> QED
        BY <2>4, <3>1, <3>2 DEF DoomedWereSaved
    <2>10. SummariserKeepsThread'
      <3> SUFFICES ASSUME NEW v \in Workers,
                          job'[v].pc \in {"saved", "summing", "asking"}
                   PROVE  /\ row'[job'[v].thread].exists
                          /\ ~row'[job'[v].thread].stale
        BY DEF SummariserKeepsThread, On
      <3> QED
        BY <1>0, <2>2, <2>4, Fields DEF IInv, SummariserKeepsThread, On
    <2>11. SeenHonest'
      <3> SUFFICES ASSUME NEW v \in Workers,
                          job'[v].pc \in {"summing", "asking"}
                   PROVE  /\ job'[v].seen.total <= row'[job'[v].thread].total
                          /\ job'[v].seen.summarised <= job'[v].seen.total
                          /\ 1..job'[v].seen.summarised \subseteq
                               job'[v].seen.covers \cup lost'[job'[v].thread]
        BY DEF SeenHonest, On
      <3>1. v # w
        BY <2>4
      <3>2. job'[v] = job[v] /\ On(v) \in Threads
        BY <1>0, <2>4, <3>1, Fields
      <3>3. job[v].seen.total <= row[On(v)].total
        BY <3>2 DEF IInv, SeenHonest
      <3>4. job[v].seen.total <= row'[On(v)].total
        BY <1>0, <2>1, <2>2, <3>2, <3>3, Fields
      <3> QED
        BY <2>4, <3>2, <3>4 DEF IInv, SeenHonest, On
    <2>12. BatchComplete'
      <3>1. ASSUME NEW v \in Workers, job'[v].pc = "asking"
            PROVE  job'[v] = job[v]
        BY <2>4, <3>1
      <3> QED
        BY <2>4, <3>1 DEF IInv, BatchComplete, On
    <2> QED
      BY <2>5, <2>7, <2>8, <2>9, <2>10, <2>11, <2>12 DEF IInv
  <1>3. ASSUME SaveAbort(w) PROVE IInv'
    <2>1. job'[w].pc = "idle" /\ \A v \in Workers : v # w => job'[v] = job[v]
      BY <1>0, <1>3, FinishedType DEF SaveAbort, TypeOK
    <2>2. lock[On(w)] = w /\ \A u \in Threads : u # On(w) => lock'[u] = lock[u]
      BY <1>0, <1>3 DEF SaveAbort, TypeOK, IInv, LockHeld
    <2>3. JobsStand
      BY <2>1, <2>2 DEF JobsStand
    <2> QED
      BY <1>3, <2>3, EndOfCall DEF SaveAbort, IInv
  <1> QED
    BY <1>1, <1>2, <1>3

\* Every step of a summary regeneration keeps the invariant.
LEMMA SummaryStep ==
    ASSUME IInv, TypeOK', NEW w \in Workers,
           SummarySkip(w) \/ SummaryStart(w) \/ SummaryRead(w)
             \/ SummaryFail(w) \/ SummaryWrite(w)
    PROVE  IInv'
  <1> USE ChatStoreAssumption
  <1>0. TypeOK
    BY DEF IInv
  <1>a. On(w) \in Threads
    BY <1>0, Fields
  <1>1. ASSUME SummarySkip(w) \/ SummaryFail(w) PROVE IInv'
    <2>1. job'[w].pc = "idle" /\ \A v \in Workers : v # w => job'[v] = job[v]
      BY <1>0, <1>1, FinishedType DEF SummarySkip, SummaryFail, TypeOK
    <2>2. UNCHANGED <<row, messages, lock, sweep, lost>>
      BY <1>1 DEF SummarySkip, SummaryFail
    <2>3. JobsStand
      BY <2>1, <2>2 DEF JobsStand
    <2> QED
      BY <2>2, <2>3, EndOfCall DEF IInv
  <1>2. ASSUME SummaryStart(w) PROVE IInv'
    <2>1. /\ job[w].pc = "saved"
          /\ job'[w].pc = "summing" /\ job'[w].thread = On(w)
          /\ job'[w].seen = row[On(w)]
          /\ \A v \in Workers : v # w => job'[v] = job[v]
          /\ UNCHANGED <<row, messages, lock, sweep, lost>>
      BY <1>0, <1>2 DEF SummaryStart, TypeOK, Job, On
    <2>2. RowsStand
      BY <2>1 DEF RowsStand
    <2>3. SummaryCountHonest' /\ LockHeld' /\ BatchComplete'
      <3>1. ASSUME NEW v \in Workers, job'[v].pc \in {"upserted", "asking"}
            PROVE  job'[v] = job[v]
        BY <2>1, <3>1
      <3> QED
        BY <2>1, <3>1 DEF IInv, SummaryCountHonest, LockHeld, BatchComplete, On
    <2>4. SummariserKeepsThread'
      <3> SUFFICES ASSUME NEW v \in Workers,
                          job'[v].pc \in {"saved", "summing", "asking"}
                   PROVE  /\ row[job'[v].thread].exists
                          /\ ~row[job'[v].thread].stale
        BY <2>1 DEF SummariserKeepsThread, On
      <3> QED
        BY <2>1 DEF IInv, SummariserKeepsThread, On
    <2>5. SeenHonest'
      <3> SUFFICES ASSUME NEW v \in Workers,
                          job'[v].pc \in {"summing", "asking"}
                   PROVE  /\ job'[v].seen.total <= row[job'[v].thread].total
                          /\ job'[v].seen.summarised <= job'[v].seen.total
                          /\ 1..job'[v].seen.summarised \subseteq
                               job'[v].seen.covers \cup lost[job'[v].thread]
        BY <2>1 DEF SeenHonest, On
      <3>1. CASE v = w
        <4>1. row[On(w)].total <= row[On(w)].total
          BY <1>0, <1>a, Fields
        <4> QED
          BY <1>a, <2>1, <3>1, <4>1 DEF IInv, SummaryCountHonest
      <3>2. CASE v # w
        BY <2>1, <3>2 DEF IInv, SeenHonest, On
      <3> QED
        BY <3>1, <3>2
    <2> QED
      BY <2>1, <2>2, <2>3, <2>4, <2>5, StoreFrame DEF IInv
  <1>3. ASSUME SummaryRead(w) PROVE IInv'
    <2>1. /\ job[w].pc = "summing"
          /\ job'[w].pc = "asking" /\ job'[w].thread = On(w)
          /\ job'[w].seen = job[w].seen
          /\ job'[w].batch =
               {i \in Present(On(w)) : i > job[w].seen.summarised}
          /\ \A v \in Workers : v # w => job'[v] = job[v]
          /\ UNCHANGED <<row, messages, lock, sweep, lost>>
      <3>1. job = [v \in Workers |-> job[v]] /\ job[w] \in Job
        BY <1>0 DEF TypeOK
      <3> QED
        BY <1>3, <3>1 DEF SummaryRead, Job, On
    <2>2. RowsStand
      BY <2>1 DEF RowsStand
    <2>3. SummaryCountHonest' /\ LockHeld'
      <3>1. ASSUME NEW v \in Workers, job'[v].pc = "upserted"
            PROVE  job'[v] = job[v]
        BY <2>1, <3>1
      <3> QED
        BY <2>1, <3>1 DEF IInv, SummaryCountHonest, LockHeld, On
    <2>4. SummariserKeepsThread'
      <3> SUFFICES ASSUME NEW v \in Workers,
                          job'[v].pc \in {"saved", "summing", "asking"}
                   PROVE  /\ row[job'[v].thread].exists
                          /\ ~row[job'[v].thread].stale
        BY <2>1 DEF SummariserKeepsThread, On
      <3> QED
        BY <2>1 DEF IInv, SummariserKeepsThread, On
    <2>5. SeenHonest'
      <3> SUFFICES ASSUME NEW v \in Workers,
                          job'[v].pc \in {"summing", "asking"}
                   PROVE  /\ job'[v].seen.total <= row[job'[v].thread].total
                          /\ job'[v].seen.summarised <= job'[v].seen.total
                          /\ 1..job'[v].seen.summarised \subseteq
                               job'[v].seen.covers \cup lost[job'[v].thread]
        BY <2>1 DEF SeenHonest, On
      <3> QED
        BY <2>1 DEF IInv, SeenHonest, On
    <2>6. BatchComplete'
      <3> SUFFICES ASSUME NEW v \in Workers, job'[v].pc = "asking"
                   PROVE  1..job'[v].seen.total \subseteq
                            job'[v].seen.covers \cup job'[v].batch
                              \cup lost[job'[v].thread]
        BY <2>1 DEF BatchComplete, On
      <3>1. CASE v = w
        <4> SUFFICES ASSUME NEW i \in 1..job[w].seen.total,
                            i > job[w].seen.summarised, i \notin lost[On(w)]
                     PROVE  i \in Present(On(w))
          BY <1>0, <1>a, <2>1, <3>1, Fields DEF IInv, SeenHonest
        <4>1. i \in Turn /\ i <= row[On(w)].total
          BY <1>0, <1>a, <2>1, Fields DEF IInv, SeenHonest, Turn
        <4>2. messages[On(w)][i] = 1
          BY <1>a, <4>1 DEF IInv, TurnsNumberedOnce
        <4> QED
          BY <4>1, <4>2 DEF Present
      <3>2. CASE v # w
        BY <2>1, <3>2 DEF IInv, BatchComplete, On
      <3> QED
        BY <3>1, <3>2
    <2> QED
      BY <2>1, <2>2, <2>3, <2>4, <2>5, <2>6, StoreFrame DEF IInv
  <1>4. ASSUME SummaryWrite(w) PROVE IInv'
    <2> DEFINE t == On(w)
    <2>1. /\ job[w].pc = "asking" /\ job'[w].pc = "idle"
          /\ \A v \in Workers : v # w => job'[v] = job[v]
          /\ UNCHANGED <<messages, lock, sweep, lost>>
      BY <1>0, <1>4, FinishedType DEF SummaryWrite, TypeOK
    <2>2. /\ \A u \in Threads : u # t => row'[u] = row[u]
          /\ row'[t].total = row[t].total /\ row'[t].stale = row[t].stale
          /\ row'[t].exists = row[t].exists
          /\ row'[t].summarised = job[w].seen.total
          /\ row'[t].covers = job[w].seen.covers \cup job[w].batch
      <3>1. row[t].exists
        BY <2>1 DEF IInv, SummariserKeepsThread
      <3>2. row' = [row EXCEPT ![t] =
                      [@ EXCEPT !.summarised = job[w].seen.total,
                                !.covers = job[w].seen.covers
                                             \cup job[w].batch]]
        BY <1>0, <1>4, <1>a, <3>1 DEF SummaryWrite, TypeOK
      <3>3. row \in [Threads -> Row]
        BY <1>0 DEF TypeOK
      <3> QED
        BY <1>a, <3>2, <3>3 DEF Row
    <2> HIDE DEF t
    <2>3. RowsStand
      BY <2>2 DEF RowsStand
    <2>4. JobsStand
      BY <2>1 DEF JobsStand
    <2>5. SummaryCountHonest'
      <3> SUFFICES ASSUME NEW u \in Threads
                   PROVE  /\ row'[u].summarised <= row'[u].total
                          /\ 1..row'[u].summarised \subseteq
                               row'[u].covers \cup lost[u]
        BY <2>1 DEF SummaryCountHonest
      <3>1. CASE u = t
        BY <2>1, <2>2, <3>1 DEF IInv, SeenHonest, BatchComplete, t
      <3>2. CASE u # t
        BY <2>2, <3>2 DEF IInv, SummaryCountHonest
      <3> QED
        BY <3>1, <3>2
    <2> QED
      BY <2>1, <2>3, <2>4, <2>5, StoreFrame, CallsFrame DEF IInv
  <1> QED
    BY <1>1, <1>2, <1>3, <1>4

\* Loading a history and the death of a worker keep the invariant.
LEMMA LoadStep ==
    ASSUME IInv, TypeOK', NEW w \in Workers,
           (\E t \in Threads : LoadRow(w, t)) \/ LoadMessages(w)
             \/ LoadReturn(w) \/ WorkerCrash(w)
    PROVE  IInv'
  <1> USE ChatStoreAssumption
  <1>0. TypeOK
    BY DEF IInv
  <1>1. /\ job'[w].pc \in {"idle", "loading", "loaded"}
        /\ \A v \in Workers : v # w => job'[v] = job[v]
    <2>0. job = [v \in Workers |-> job[v]] /\ job[w] \in Job
      BY <1>0 DEF TypeOK
    <2>1. CASE \E t \in Threads : LoadRow(w, t)
      <3>1. PICK t \in Threads : LoadRow(w, t)
        BY <2>1
      <3>2. job' = [job EXCEPT ![w] = [@ EXCEPT !.pc = "loading", !.thread = t,
                                                !.seen = row[t]]]
        BY <3>1 DEF LoadRow
      <3> QED
        BY <1>0, <2>0, <3>2 DEF Job
    <2>2. CASE LoadMessages(w)
      BY <2>0, <2>2 DEF LoadMessages, Job
    <2>3. CASE LoadReturn(w) \/ WorkerCrash(w)
      BY <1>0, <2>3, FinishedType DEF LoadReturn, WorkerCrash, TypeOK
    <2> QED
      BY <2>1, <2>2, <2>3
  <1>2. \A v \in Workers, t \in Threads : v # w /\ lock[t] = v => lock'[t] = v
    BY <1>0 DEF LoadRow, LoadMessages, LoadReturn, WorkerCrash
  <1>3. JobsStand
    BY <1>1, <1>2 DEF JobsStand
  <1>4. UNCHANGED <<row, messages, sweep, lost>>
    BY DEF LoadRow, LoadMessages, LoadReturn, WorkerCrash
  <1> QED
    BY <1>3, <1>4, EndOfCall DEF IInv

\* Uploading and deleting files, and growing old, keep the invariant.
LEMMA FileStep ==
    ASSUME IInv, TypeOK', NEW t \in Threads,
           SaveThreadFile(t) \/ DeleteThreadFiles(t) \/ Age(t)
    PROVE  IInv'
  <1>0. TypeOK
    BY DEF IInv
  <1>1. UNCHANGED <<messages, lock, job, sweep, lost>>
    BY DEF SaveThreadFile, DeleteThreadFiles, Age
  <1>2. JobsStand
    BY <1>1 DEF JobsStand
  <1>3. \A u \in Threads : /\ row'[u].total = row[u].total
                           /\ row'[u].summarised = row[u].summarised
                           /\ row'[u].covers = row[u].covers
                           /\ row[u].exists => row'[u].exists
                           /\ u # t => row'[u] = row[u]
    BY <1>0 DEF SaveThreadFile, DeleteThreadFiles, Age, TypeOK, Row
  <1>4. SummaryCountHonest'
    BY <1>1, <1>3 DEF IInv, SummaryCountHonest
  <1>5. CASE SaveThreadFile(t) \/ DeleteThreadFiles(t)
    <2>1. row'[t].stale = row[t].stale
      BY <1>0, <1>5 DEF SaveThreadFile, DeleteThreadFiles, TypeOK, Row
    <2>2. RowsStand
      BY <1>3, <2>1 DEF RowsStand
    <2> QED
      BY <1>1, <1>2, <1>4, <2>2, StoreFrame, CallsFrame DEF IInv
  <1>6. CASE Age(t)
    <2>1. sweep.pc = "idle" /\ \A w \in Workers : job[w].pc # "idle" => On(w) # t
      BY <1>6 DEF Age, Busy
    <2>2. TurnsNumberedOnce' /\ LostWereSaved'
      BY <1>1, <1>3 DEF IInv, TurnsNumberedOnce, LostWereSaved
    <2>3. DoomedWereSaved'
      BY <1>1, <2>1 DEF DoomedWereSaved
    <2>4. \A w \in Workers : On(w)' = On(w) /\ On(w) \in Threads
      BY <1>0, <1>1, Fields DEF On
    <2>5. LockHeld'
      BY <1>1, <1>3, <2>4 DEF IInv, LockHeld
    <2>6. SummariserKeepsThread'
      BY <1>1, <1>3, <2>1, <2>4 DEF IInv, SummariserKeepsThread
    <2>7. SeenHonest' /\ BatchComplete'
      BY <1>1, <1>3, <2>4 DEF IInv, SeenHonest, BatchComplete
    <2> QED
      BY <1>4, <2>2, <2>3, <2>5, <2>6, <2>7 DEF IInv
  <1> QED
    BY <1>5, <1>6

\* The expiry sweep keeps the invariant: it takes whole threads, or turns it
\* leaves on record as lost, and never a thread a call is working on.
LEMMA SweepStep ==
    ASSUME IInv, TypeOK', SweepMessages \/ SweepCommit \/ SweepRefused
    PROVE  IInv'
  <1> USE ChatStoreAssumption
  <1>0. TypeOK
    BY DEF IInv
  <1>1. ASSUME SweepMessages \/ SweepRefused PROVE IInv'
    <2>1. UNCHANGED <<row, messages, lock, job, lost>>
      BY <1>1 DEF SweepMessages, SweepRefused
    <2>2. DoomedWereSaved'
      <3>1. CASE SweepRefused
        BY <3>1 DEF SweepRefused, NoSweep, DoomedWereSaved
      <3>2. CASE SweepMessages
        <4>1. \A t \in Threads : Present(t) \subseteq 1..row[t].total
          BY <1>0, Fields DEF IInv, TurnsNumberedOnce, Present, Turn
        <4>2. \A t \in Threads :
                sweep'.doomed[t] = IF row[t].stale THEN Present(t) ELSE {}
          BY <3>2 DEF SweepMessages
        <4> QED
          BY <2>1, <4>1, <4>2 DEF DoomedWereSaved, Present
      <3> QED
        BY <1>1, <3>1, <3>2
    <2>3. RowsStand /\ JobsStand
      BY <2>1 DEF RowsStand, JobsStand
    <2>4. TurnsNumberedOnce' /\ SummaryCountHonest' /\ LostWereSaved'
      BY <2>1 DEF IInv, TurnsNumberedOnce, SummaryCountHonest, LostWereSaved
    <2> QED
      BY <2>1, <2>2, <2>3, <2>4, CallsFrame DEF IInv
  <1>2. ASSUME SweepCommit PROVE IInv'
    <2>1. /\ sweep.pc = "messages_deleted"
          /\ \A t \in Threads : row[t].stale => lock[t] = NoWorker
          /\ UNCHANGED <<lock, job>> /\ sweep'.pc = "idle"
      BY <1>2 DEF SweepCommit, Stale, NoSweep
    <2>2. \A t \in Threads :
            row'[t] = IF row[t].stale THEN NoRow ELSE row[t]
      BY <1>2 DEF SweepCommit
    <2>3. \A t \in Threads : \A i \in Turn :
            messages'[t][i] = IF i \in sweep.doomed[t] THEN 0
                                                       ELSE messages[t][i]
      BY <1>2 DEF SweepCommit
    <2>4. \A t \in Threads :
            lost'[t] = IF row[t].stale THEN {} ELSE lost[t] \cup sweep.doomed[t]
      BY <1>2 DEF SweepCommit
    <2>5. \A w \in Workers :
            job[w].pc \in {"upserted", "saved", "summing", "asking"} =>
              /\ On(w)' = On(w) /\ On(w) \in Threads /\ ~row[On(w)].stale
              /\ row'[On(w)] = row[On(w)] /\ lost[On(w)] \subseteq lost'[On(w)]
      <3> SUFFICES ASSUME NEW w \in Workers,
                          job[w].pc \in {"upserted", "saved", "summing", "asking"}
                   PROVE  /\ On(w)' = On(w) /\ On(w) \in Threads
                          /\ ~row[On(w)].stale
                          /\ row'[On(w)] = row[On(w)]
                          /\ lost[On(w)] \subseteq lost'[On(w)]
        OBVIOUS
      <3>1. On(w) \in Threads /\ On(w)' = On(w)
        BY <1>0, <2>1, Fields DEF On
      <3>2. CASE job[w].pc = "upserted"
        <4>1. lock[On(w)] = w
          BY <3>2 DEF IInv, LockHeld
        <4>2. ~row[On(w)].stale
          BY <2>1, <3>1, <4>1
        <4> QED
          BY <2>2, <2>4, <3>1, <4>2
      <3>3. CASE job[w].pc # "upserted"
        <4>1. ~row[On(w)].stale
          BY <3>3 DEF IInv, SummariserKeepsThread
        <4> QED
          BY <2>2, <2>4, <3>1, <4>1
      <3> QED
        BY <3>2, <3>3
    <2>6. TurnsNumberedOnce'
      <3> SUFFICES ASSUME NEW t \in Threads, NEW i \in Turn
                   PROVE  messages'[t][i] =
                            IF i <= row'[t].total /\ i \notin lost'[t]
                            THEN 1 ELSE 0
        BY DEF TurnsNumberedOnce
      <3>1. CASE row[t].stale
        <4>1. messages[t][i] \in Nat /\ (messages[t][i] > 0 => i \in sweep.doomed[t])
          BY <1>0, <2>1, <3>1, Fields DEF IInv, DoomedWereSaved, Present
        <4>2. messages'[t][i] = 0
          BY <2>3, <4>1
        <4>3. ~(i <= row'[t].total)
          BY <2>2, <3>1 DEF NoRow, Turn
        <4> QED
          BY <4>2, <4>3
      <3>2. CASE ~row[t].stale
        <4>1. row'[t] = row[t] /\ lost'[t] = lost[t] \cup sweep.doomed[t]
          BY <2>2, <2>4, <3>2
        <4>2. messages[t][i] = IF i <= row[t].total /\ i \notin lost[t]
                               THEN 1 ELSE 0
          BY DEF IInv, TurnsNumberedOnce
        <4>3. CASE i \in sweep.doomed[t]
          BY <2>3, <4>1, <4>3
        <4>4. CASE i \notin sweep.doomed[t]
          BY <2>3, <4>1, <4>2, <4>4
        <4> QED
          BY <4>3, <4>4
      <3> QED
        BY <3>1, <3>2
    <2>7. SummaryCountHonest'
      <3> SUFFICES ASSUME NEW t \in Threads
                   PROVE  /\ row'[t].summarised <= row'[t].total
                          /\ 1..row'[t].summarised \subseteq
                               row'[t].covers \cup lost'[t]
        BY DEF SummaryCountHonest
      <3>1. CASE row[t].stale
        BY <2>2, <3>1 DEF NoRow
      <3>2. CASE ~row[t].stale
        BY <2>2, <2>4, <3>2 DEF IInv, SummaryCountHonest
      <3> QED
        BY <3>1, <3>2
    <2>8. LostWereSaved' /\ DoomedWereSaved'
      <3>1. DoomedWereSaved'
        BY <2>1 DEF DoomedWereSaved
      <3>2. ASSUME NEW t \in Threads PROVE lost'[t] \subseteq 1..row'[t].total
        BY <2>1, <2>2, <2>4 DEF IInv, LostWereSaved, DoomedWereSaved
      <3> QED
        BY <3>1, <3>2 DEF LostWereSaved
    <2>9. LockHeld' /\ SummariserKeepsThread'
      BY <2>1, <2>5 DEF IInv, LockHeld, SummariserKeepsThread
    <2>10. SeenHonest'
      BY <2>1, <2>5 DEF IInv, SeenHonest
    <2>11. BatchComplete'
      BY <2>1, <2>5 DEF IInv, BatchComplete
    <2> QED
      BY <2>6, <2>7, <2>8, <2>9, <2>10, <2>11 DEF IInv
  <1> QED
    BY <1>1, <1>2

\* The invariant is inductive.
LEMMA IInvStep == IInv /\ [Next]_vars => IInv'
  <1> SUFFICES ASSUME IInv, [Next]_vars PROVE IInv'
    OBVIOUS
  <1>1. TypeOK'
    BY TypeStep DEF IInv
  <1>2. CASE UNCHANGED vars
    <2>1. JobsStand /\ UNCHANGED <<row, messages, sweep, lost>>
      BY <1>2 DEF JobsStand, vars
    <2> QED
      BY <1>1, <2>1, EndOfCall DEF IInv
  <1>3. ASSUME NEW w \in Workers, WorkerNext(w) PROVE IInv'
    BY <1>1, <1>3, SaveStep, SummaryStep, LoadStep DEF WorkerNext
  <1>4. ASSUME NEW t \in Threads,
               SaveThreadFile(t) \/ DeleteThreadFiles(t) \/ Age(t)
        PROVE  IInv'
    BY <1>1, <1>4, FileStep
  <1>5. ASSUME SweepMessages \/ SweepCommit \/ SweepRefused PROVE IInv'
    BY <1>1, <1>5, SweepStep
  <1> QED
    BY <1>2, <1>3, <1>4, <1>5 DEF Next

\* However saves, regenerations, crashes and sweeps interleave, the inductive
\* invariant holds throughout.
THEOREM Inductive == Spec => []IInv
  <1> QED
    BY IInvInit, IInvStep, PTL DEF Spec

\* The turns of a thread are numbered 1, 2, ..., total_turns, each once
\* (_save_turn_sync), for any number of threads, workers and turns.
THEOREM TurnsAreNumberedOnce == Spec => []TurnsNumberedOnce
  <1>1. IInv => TurnsNumberedOnce
    BY DEF IInv
  <1> QED
    BY <1>1, Inductive, PTL

\* The summary count never claims a turn the summary was not built from
\* (_maybe_regenerate_summary_sync), however many regenerations overlap.
THEOREM SummaryCountIsHonest == Spec => []SummaryCountHonest
  <1>1. IInv => SummaryCountHonest
    BY DEF IInv
  <1> QED
    BY <1>1, Inductive, PTL

-----------------------------------------------------------------------------
(* The log of turns                                                        *)

\* Of a thread the oldest turns were lost, and never the last; and so it will be
\* with those that the sweep has chosen, unless the thread goes as a whole.
Oldest(S, t) == \E k \in 0..row[t].total : S = 1..k
LastStays(S, t) == row[t].total > 0 => row[t].total \notin S

GoneInOrder(t) ==
    /\ Oldest(lost[t], t) /\ LastStays(lost[t], t)
    /\ sweep.pc = "messages_deleted" =>
         /\ Oldest(lost[t] \cup sweep.doomed[t], t)
         /\ ~row[t].stale => LastStays(lost[t] \cup sweep.doomed[t], t)

LogInv == \A t \in Threads : GoneInOrder(t)

\* What is there of a thread is what was saved and not lost.
LEMMA WhatIsPresent ==
    ASSUME IInv
    PROVE  \A t \in Threads : Present(t) = {i \in Turn : i <= row[t].total /\ i \notin lost[t]}
  BY DEF IInv, TurnsNumberedOnce, Present

LEMMA WhatIsLeft ==
    ASSUME IInv'
    PROVE  \A t \in Threads : Present(t)' = {i \in Turn : i <= row'[t].total /\ i \notin lost'[t]}
  BY DEF IInv, TurnsNumberedOnce, Present

\* A step that the log does not see.
Unseen ==
    \A t \in Threads :
      /\ row'[t].total = row[t].total /\ row'[t].stale = row[t].stale
      /\ lost'[t] = lost[t]

LEMMA UnseenByTheLog == ASSUME IInv, IInv', Unseen PROVE UNCHANGED Log!vars
  <1>1. \A t \in Threads : Present(t)' = Present(t)
    BY WhatIsPresent, WhatIsLeft DEF Unseen
  <1>2. \A t \in Threads : row'[t].total = row[t].total
    BY DEF Unseen
  <1>3. Stale' = Stale
    BY DEF Stale, Unseen
  <1> QED
    BY <1>1, <1>2, <1>3 DEF Log!vars

LEMMA LogInvStands ==
    ASSUME LogInv, Unseen, sweep' = sweep \/ sweep'.pc = "idle"
    PROVE  LogInv'
  BY DEF LogInv, GoneInOrder, Unseen, Oldest, LastStays

\* The steps that neither save a turn nor begin or end a sweep, nor age a thread.
LEMMA QuietSteps ==
    ASSUME TypeOK,
           \/ \E w \in Workers, t \in Threads : SaveUpsert(w, t) \/ LoadRow(w, t)
           \/ \E w \in Workers :
                \/ SaveAbort(w) \/ SummarySkip(w) \/ SummaryStart(w) \/ SummaryRead(w)
                \/ SummaryFail(w) \/ SummaryWrite(w) \/ LoadMessages(w) \/ LoadReturn(w)
                \/ WorkerCrash(w)
           \/ \E t \in Threads : SaveThreadFile(t) \/ DeleteThreadFiles(t)
           \/ SweepRefused \/ UNCHANGED vars
    PROVE  Unseen /\ (sweep' = sweep \/ sweep'.pc = "idle")
  <1>1. ASSUME NEW w \in Workers, SummaryWrite(w) PROVE Unseen /\ sweep' = sweep
    <2>1. row[On(w)] \in Row /\ On(w) \in Threads
      BY ReadType
    <2>2. \A t \in Threads : row'[t].total = row[t].total /\ row'[t].stale = row[t].stale
      BY <1>1, <2>1 DEF SummaryWrite, TypeOK, Row
    <2> QED
      BY <1>1, <2>2 DEF SummaryWrite, Unseen
  <1>2. ASSUME NEW t \in Threads, SaveThreadFile(t) PROVE Unseen /\ sweep' = sweep
    <2>1. \A u \in Threads : row'[u].total = row[u].total /\ row'[u].stale = row[u].stale
      BY <1>2 DEF SaveThreadFile, TypeOK, Row
    <2> QED
      BY <1>2, <2>1 DEF SaveThreadFile, Unseen
  <1>3. ASSUME UNCHANGED <<row, lost>>, sweep' = sweep \/ sweep' = NoSweep
        PROVE  Unseen /\ (sweep' = sweep \/ sweep'.pc = "idle")
    BY <1>3 DEF Unseen, NoSweep
  <1>4. ASSUME \E w \in Workers, t \in Threads : SaveUpsert(w, t) \/ LoadRow(w, t)
        PROVE  UNCHANGED <<row, lost, sweep>>
    BY <1>4 DEF SaveUpsert, LoadRow
  <1>5. ASSUME NEW w \in Workers,
                \/ SaveAbort(w) \/ SummarySkip(w) \/ SummaryStart(w) \/ SummaryRead(w)
                \/ SummaryFail(w) \/ LoadMessages(w) \/ LoadReturn(w) \/ WorkerCrash(w)
        PROVE  UNCHANGED <<row, lost, sweep>>
    BY <1>5 DEF SaveAbort, SummarySkip, SummaryStart, SummaryRead, SummaryFail, LoadMessages,
       LoadReturn, WorkerCrash
  <1>6. ASSUME SweepRefused \/ (\E t \in Threads : DeleteThreadFiles(t)) \/ UNCHANGED vars
        PROVE  UNCHANGED <<row, lost>> /\ (sweep' = sweep \/ sweep' = NoSweep)
    BY <1>6 DEF SweepRefused, DeleteThreadFiles, vars
  <1> QED
    BY <1>1, <1>2, <1>3, <1>4, <1>5, <1>6

\* A committed turn is the next one of the log and, as the newest, no sweep's.
LEMMA SaveRecords ==
    ASSUME IInv, IInv', LogInv, NEW w \in Workers, SaveCommit(w)
    PROVE  LogInv' /\ \E t \in Threads : Log!Record(t)
  <1>1. PICK t \in Threads, n \in Turn : t = On(w) /\ n = job[w].turn
    BY Fields DEF IInv, LockHeld, SaveCommit, Turn
  <1>2. n = row[t].total + 1 /\ row[t].total \in Nat /\ MaxTurns \in Nat
    BY <1>1, Fields, ChatStoreAssumption DEF IInv, LockHeld, SaveCommit
  <1>3. /\ row'[t].total = n /\ ~row'[t].stale
        /\ \A u \in Threads : u # t => row'[u] = row[u]
    BY <1>1 DEF SaveCommit, IInv, TypeOK, Row
  <1>4. lost' = lost /\ sweep' = sweep
    BY DEF SaveCommit
  <1>5. lost[t] \subseteq 1..row[t].total
        /\ (sweep.pc = "messages_deleted" => sweep.doomed[t] \subseteq 1..row[t].total)
    BY DEF IInv, LostWereSaved, DoomedWereSaved
  <1>6. LogInv'
    <2>1. ASSUME NEW u \in Threads, u # t PROVE GoneInOrder(u)'
      BY <1>3, <1>4, <2>1 DEF LogInv, GoneInOrder, Oldest, LastStays
    <2>2. \A k \in 0..row[t].total : k \in 0..row'[t].total
      BY <1>2, <1>3
    <2>3. n \notin lost[t] /\ (sweep.pc = "messages_deleted" => n \notin sweep.doomed[t])
      BY <1>2, <1>5
    <2>4. GoneInOrder(t)'
      BY <1>3, <1>4, <2>2, <2>3 DEF LogInv, GoneInOrder, Oldest, LastStays
    <2> QED
      BY <2>1, <2>4 DEF LogInv
  <1>7. Log!Record(t)
    <2>1. row[t].total < MaxTurns
      BY <1>2 DEF Turn
    <2>2. \A u \in Threads : row'[u].total = IF u = t THEN row[t].total + 1 ELSE row[u].total
      BY <1>2, <1>3
    <2>3. Present(t)' = Present(t) \cup {row[t].total + 1}
      <3>1. n \notin lost[t]
        BY <1>2, <1>5
      <3>2. \A i \in Turn : i <= row'[t].total <=> i <= row[t].total \/ i = n
        BY <1>2, <1>3 DEF Turn
      <3> QED
        BY <1>2, <1>4, <3>1, <3>2, WhatIsPresent, WhatIsLeft
    <2>4. \A u \in Threads : u # t => Present(u)' = Present(u)
      BY <1>3, <1>4, WhatIsPresent, WhatIsLeft
    <2>5. Stale' = Stale \ {t}
      BY <1>3 DEF Stale
    <2>6. [u \in Threads |-> row'[u].total] = [[u \in Threads |-> row[u].total] EXCEPT ![t] = @ + 1]
      BY <2>2
    <2>7. [u \in Threads |-> Present(u)']
            = [[u \in Threads |-> Present(u)] EXCEPT ![t] = @ \cup {row[t].total + 1}]
      BY <2>3, <2>4
    <2> QED
      BY <2>1, <2>5, <2>6, <2>7 DEF Log!Record
  <1> QED
    BY <1>6, <1>7

LEMMA AgeIsDisuse ==
    ASSUME IInv, IInv', LogInv, NEW t \in Threads, Age(t)
    PROVE  LogInv' /\ Log!FallsOutOfUse(t)
  <1>1. /\ \A u \in Threads : row'[u].total = row[u].total
        /\ \A u \in Threads : row'[u].stale <=> (u = t \/ row[u].stale)
        /\ lost' = lost /\ sweep' = sweep /\ sweep.pc = "idle"
    BY DEF Age, IInv, TypeOK, Row
  <1>2. LogInv'
    BY <1>1 DEF LogInv, GoneInOrder, Oldest, LastStays
  <1>3. \A u \in Threads : Present(u)' = Present(u)
    BY <1>1, WhatIsPresent, WhatIsLeft
  <1>4. Stale' = Stale \cup {t}
    BY <1>1 DEF Stale
  <1> QED
    BY <1>1, <1>2, <1>3, <1>4 DEF Log!FallsOutOfUse

\* What the first statement deletes are the oldest turns there are: all.
LEMMA SweepChooses == ASSUME IInv, LogInv, SweepMessages PROVE LogInv' /\ Unseen
  <1>1. UNCHANGED <<row, lost>> /\ Unseen
    BY DEF SweepMessages, Unseen
  <1>2. ASSUME NEW t \in Threads
        PROVE  /\ Oldest(lost[t] \cup sweep'.doomed[t], t)
               /\ ~row[t].stale => LastStays(lost[t] \cup sweep'.doomed[t], t)
    <2>1. sweep'.doomed[t] = IF row[t].stale THEN Present(t) ELSE {}
      BY DEF SweepMessages
    <2>2. CASE row[t].stale
      <3>1. lost[t] \subseteq 1..row[t].total /\ row[t].total \in 0..MaxTurns /\ MaxTurns \in Nat
        BY Fields, ChatStoreAssumption DEF IInv, LostWereSaved
      <3>2. lost[t] \cup Present(t) = 1..row[t].total
        BY <3>1, WhatIsPresent DEF Turn
      <3>3. row[t].total \in 0..row[t].total
        BY <3>1
      <3> QED
        BY <2>1, <2>2, <3>2, <3>3 DEF Oldest
    <2>3. CASE ~row[t].stale
      <3>1. lost[t] \cup sweep'.doomed[t] = lost[t]
        BY <2>1, <2>3
      <3> QED
        BY <3>1 DEF LogInv, GoneInOrder
    <2> QED
      BY <2>2, <2>3
  <1> QED
    BY <1>1, <1>2 DEF LogInv, GoneInOrder, Oldest, LastStays

\* The sweep takes unused threads and, of others, the turns below some one.
LEMMA SweepExpires ==
    ASSUME IInv, IInv', LogInv, SweepCommit
    PROVE  LogInv' /\ \E from \in [Threads -> 0..MaxTurns] : Log!Expire(Stale, from)
  <1>1. /\ sweep.pc = "messages_deleted" /\ sweep'.pc = "idle"
        /\ \A t \in Threads : row'[t] = IF row[t].stale THEN NoRow ELSE row[t]
        /\ \A t \in Threads :
             lost'[t] = IF row[t].stale THEN {} ELSE lost[t] \cup sweep.doomed[t]
    BY DEF SweepCommit, NoSweep
  <1>2. ASSUME NEW t \in Threads, row[t].stale
        PROVE  /\ row'[t].total = 0 /\ ~row'[t].stale /\ lost'[t] = {} /\ Present(t)' = {}
    <2>1. row'[t].total = 0 /\ ~row'[t].stale /\ lost'[t] = {}
      <3>1. row'[t] = NoRow /\ lost'[t] = {}
        BY <1>1, <1>2
      <3> QED
        BY <3>1 DEF NoRow
    <2>2. \A i \in Turn : ~(i <= 0)
      BY DEF Turn
    <2> QED
      BY <2>1, <2>2, WhatIsLeft
  <1>3. ASSUME NEW t \in Threads, ~row[t].stale
        PROVE  \E n \in 0..MaxTurns :
                 /\ n <= row[t].total
                 /\ Present(t)' = {i \in Present(t) : i >= n}
    <2>1. row[t].total \in 0..MaxTurns /\ MaxTurns \in Nat
      BY Fields, ChatStoreAssumption DEF IInv
    <2>2. PICK k \in 0..row[t].total : lost'[t] = 1..k
      BY <1>1, <1>3 DEF LogInv, GoneInOrder, Oldest
    <2>3. row'[t] = row[t] /\ lost'[t] = lost[t] \cup sweep.doomed[t]
      BY <1>1, <1>3
    <2>4. \A i \in Turn : i \in Present(t)' <=> i \in Present(t) /\ i > k
      <3>1. \A i \in Turn : i \in Present(t)' <=> i <= row[t].total /\ i \notin 1..k
        BY <2>2, <2>3, WhatIsLeft
      <3>2. \A i \in Turn : i \in Present(t) <=> i <= row[t].total /\ i \notin lost[t]
        BY WhatIsPresent
      <3>3. \A i \in Turn : i \notin 1..k <=> i > k
        BY <2>1, <2>2 DEF Turn
      <3>4. lost[t] \subseteq 1..k
        BY <2>2, <2>3
      <3> QED
        BY <3>1, <3>2, <3>3, <3>4
    <2>5. Present(t) \subseteq Turn /\ Present(t)' \subseteq Turn
      BY DEF Present, Turn
    <2>6. CASE row[t].total = 0
      <3>1. k = 0 /\ 0 \in 0..MaxTurns /\ \A i \in Turn : i > 0 /\ i >= 0
        BY <2>1, <2>2, <2>6 DEF Turn
      <3> QED
        BY <2>4, <2>5, <2>6, <3>1
    <2>7. CASE row[t].total > 0
      <3>1. row[t].total \notin 1..k
        BY <1>1, <1>3, <2>2, <2>3, <2>7 DEF LogInv, GoneInOrder, LastStays
      <3>2. k + 1 \in 0..MaxTurns /\ k + 1 <= row[t].total
        BY <2>1, <2>2, <2>7, <3>1
      <3>3. \A i \in Turn : i > k <=> i >= k + 1
        BY <2>2 DEF Turn
      <3> QED
        BY <2>4, <2>5, <3>2, <3>3
    <2> QED
      BY <2>1, <2>6, <2>7
  <1>4. LogInv'
    <2> SUFFICES ASSUME NEW t \in Threads
                 PROVE  Oldest(lost[t], t)' /\ LastStays(lost[t], t)'
      BY <1>1 DEF LogInv, GoneInOrder
    <2>1. CASE row[t].stale
      <3>1. {} = 1..0 /\ 0 \in 0..0
        OBVIOUS
      <3> QED
        BY <1>2, <2>1, <3>1 DEF Oldest, LastStays
    <2>2. CASE ~row[t].stale
      BY <1>1, <2>2 DEF LogInv, GoneInOrder, Oldest, LastStays
    <2> QED
      BY <2>1, <2>2
  <1> DEFINE Fits(t, n) == n <= row[t].total /\ Present(t)' = {i \in Present(t) : i >= n}
             from == [t \in Threads |-> IF row[t].stale THEN 0 ELSE CHOOSE n \in 0..MaxTurns : Fits(t, n)]
  <1>5. \A t \in Threads : /\ from[t] \in 0..MaxTurns /\ from[t] <= row[t].total
                           /\ ~row[t].stale => Present(t)' = {i \in Present(t) : i >= from[t]}
    <2> SUFFICES ASSUME NEW t \in Threads
                 PROVE  /\ from[t] \in 0..MaxTurns /\ from[t] <= row[t].total
                        /\ ~row[t].stale => Present(t)' = {i \in Present(t) : i >= from[t]}
      OBVIOUS
    <2>1. CASE row[t].stale
      <3>1. row[t].total \in 0..MaxTurns /\ MaxTurns \in Nat
        BY Fields, ChatStoreAssumption DEF IInv
      <3>2. from[t] = 0
        BY <2>1
      <3> QED
        BY <2>1, <3>1, <3>2
    <2>2. CASE ~row[t].stale
      <3>1. \E n \in 0..MaxTurns : Fits(t, n)
        BY <1>3, <2>2
      <3>2. from[t] = CHOOSE n \in 0..MaxTurns : Fits(t, n)
        BY <2>2
      <3> HIDE DEF Fits, from
      <3>3. from[t] \in 0..MaxTurns /\ Fits(t, from[t])
        BY <3>1, <3>2
      <3> QED
        BY <3>3 DEF Fits
    <2> QED
      BY <2>1, <2>2
  <1>6. from \in [Threads -> 0..MaxTurns]
    BY <1>5
  <1> HIDE DEF from, Fits
  <1>7. \A t \in Threads : t \in Stale <=> row[t].stale
    BY DEF Stale
  <1>8. Stale' = Stale \ Stale
    BY <1>1, <1>2 DEF Stale
  <1>9. [t \in Threads |-> row'[t].total] = [t \in Threads |-> IF t \in Stale THEN 0 ELSE row[t].total]
    BY <1>1, <1>2, <1>7
  <1>10. [t \in Threads |-> Present(t)']
           = [t \in Threads |-> IF t \in Stale THEN {} ELSE {i \in Present(t) : i >= from[t]}]
    BY <1>2, <1>5, <1>7
  <1>11. PICK f \in [Threads -> 0..MaxTurns] : f = from
    BY <1>6
  <1>12. Log!Expire(Stale, f)
    BY <1>5, <1>8, <1>9, <1>10, <1>11 DEF Log!Expire
  <1> QED
    BY <1>4, <1>12

LEMMA LogStep ==
    ASSUME IInv, IInv', LogInv, [Next]_vars
    PROVE  LogInv' /\ [Log!Next]_Log!vars
  <1>1. ASSUME NEW w \in Workers, SaveCommit(w) PROVE LogInv' /\ [Log!Next]_Log!vars
    BY <1>1, SaveRecords DEF Log!Next
  <1>2. ASSUME NEW t \in Threads, Age(t) PROVE LogInv' /\ [Log!Next]_Log!vars
    BY <1>2, AgeIsDisuse DEF Log!Next
  <1>3. CASE SweepMessages
    BY <1>3, SweepChooses, UnseenByTheLog
  <1>4. CASE SweepCommit
    <2>1. Stale \in SUBSET Threads
      BY DEF Stale
    <2> QED
      BY <1>4, <2>1, SweepExpires DEF Log!Next
  <1>5. ASSUME Unseen, sweep' = sweep \/ sweep'.pc = "idle" PROVE LogInv' /\ [Log!Next]_Log!vars
    BY <1>5, LogInvStands, UnseenByTheLog
  <1>6. TypeOK
    BY DEF IInv
  <1>7. CASE UNCHANGED vars
    BY <1>5, <1>6, <1>7, QuietSteps
  <1>8. ASSUME NEW w \in Workers, WorkerNext(w), ~SaveCommit(w) PROVE LogInv' /\ [Log!Next]_Log!vars
    BY <1>5, <1>6, <1>8, QuietSteps DEF WorkerNext
  <1>9. CASE \/ \E t \in Threads : SaveThreadFile(t) \/ DeleteThreadFiles(t)
             \/ SweepRefused
    BY <1>5, <1>6, <1>9, QuietSteps
  <1> QED
    BY <1>1, <1>2, <1>3, <1>4, <1>7, <1>8, <1>9 DEF Next

\* The store implements the log: whatever saves, sweeps, rollbacks and crashes
\* interleave, a committed turn keeps its number and stays, but for whole threads
\* that are out of use and for the oldest turns of one that came back during a sweep.
THEOREM StoreImplementsTheLog == Spec => KeepsTheLog
  <1>1. Init => LogInv /\ Log!Init
    <2> SUFFICES ASSUME Init PROVE LogInv /\ Log!Init
      OBVIOUS
    <2>1. IInv
      BY IInvInit
    <2>2. \A t \in Threads : row[t].total = 0 /\ ~row[t].stale /\ lost[t] = {}
      BY DEF Init, NoRow
    <2>3. sweep.pc = "idle"
      BY DEF Init, NoSweep
    <2>4. {} = 1..0 /\ 0 \in 0..0
      OBVIOUS
    <2>5. LogInv
      BY <2>2, <2>3, <2>4 DEF LogInv, GoneInOrder, Oldest, LastStays
    <2>6. \A i \in Turn : ~(i <= 0)
      BY DEF Turn
    <2>7. \A t \in Threads : Present(t) = {}
      BY <2>1, <2>2, <2>6, WhatIsPresent
    <2>8. Stale = {}
      BY <2>2 DEF Stale
    <2> QED
      BY <2>2, <2>5, <2>7, <2>8 DEF Log!Init
  <1>2. IInv /\ IInv' /\ LogInv /\ [Next]_vars => LogInv' /\ [Log!Next]_Log!vars
    BY LogStep
  <1> QED
    BY <1>1, <1>2, Inductive, PTL DEF Spec, KeepsTheLog, Log!Spec

-----------------------------------------------------------------------------
(* One call at a time                                                      *)

\* The calls on a thread follow one another; those on others need not.
OneCallAThread ==
    \A v, w \in Workers :
      job[v].pc # "idle" /\ job[w].pc # "idle" /\ On(v) = On(w) => v = w

Summarises(w) == job[w].pc \in {"saved", "summing", "asking"}

\* Between two calls the summary is behind by less than a gap.
NotBehind(t) ==
    (\A w \in Workers : Summarises(w) => On(w) # t) =>
      row[t].total < row[t].summarised + SummaryGap

\* A summariser has read the row as it is.
SeenIsRow(w) ==
    job[w].pc \in {"summing", "asking"} => job[w].seen.total = row[On(w)].total

\* A loader has read a row with an honest summary that is not behind, and the
\* thread is as it was then unless it has expired.
LoadedHonest(w) ==
    job[w].pc \in {"loading", "loaded"} =>
      /\ row[On(w)].total <= job[w].seen.total
      /\ job[w].seen.summarised <= job[w].seen.total
      /\ job[w].seen.total < job[w].seen.summarised + SummaryGap
      /\ row[On(w)].total = job[w].seen.total =>
           1..job[w].seen.summarised \subseteq job[w].seen.covers \cup lost[On(w)]

\* The window holds what the summary does not tell.
WindowComplete(w) ==
    job[w].pc = "loaded" /\ row[On(w)].total = job[w].seen.total =>
      (job[w].seen.summarised + 1)..job[w].seen.total \subseteq
        job[w].batch \cup lost[On(w)]

SeqCall(w) == SeenIsRow(w) /\ LoadedHonest(w) /\ WindowComplete(w)

SeqInv == (\A t \in Threads : NotBehind(t)) /\ (\A w \in Workers : SeqCall(w))

\* A call of which nothing is known, or that is not concerned.
LEMMA OtherCalls ==
    ASSUME NEW w \in Workers, job'[w].pc \in {"idle", "upserted", "saved"}
    PROVE  SeqCall(w)'
  BY DEF SeqCall, SeenIsRow, LoadedHonest, WindowComplete

\* A call stands while its thread does, or loses turns.
LEMMA CallStands ==
    ASSUME NEW w \in Workers, SeqCall(w), job'[w] = job[w],
           row'[On(w)].total = row[On(w)].total, lost[On(w)] \subseteq lost'[On(w)]
    PROVE  SeqCall(w)'
  <1>1. On(w)' = On(w)
    BY DEF On
  <1>2. SeenIsRow(w)'
    BY <1>1 DEF SeqCall, SeenIsRow
  <1>3. LoadedHonest(w)'
    BY <1>1 DEF SeqCall, LoadedHonest
  <1>4. WindowComplete(w)'
    BY <1>1 DEF SeqCall, WindowComplete
  <1> QED
    BY <1>2, <1>3, <1>4 DEF SeqCall

\* One call takes a step on thread t, the only one of which the row may change.
Moves(w, t) ==
    /\ \A v \in Workers : v # w => job'[v] = job[v]
    /\ \A u \in Threads : u # t => row'[u] = row[u]
    /\ lost' = lost
    /\ job'[w].thread = t
    /\ job[w].pc = "idle" \/ On(w) = t
    /\ job[w].pc # "idle" \/ job'[w].pc # "idle"

\* What is then to be shown of the call and of its thread.
LEMMA OneCallMoves ==
    ASSUME TypeOK, SeqInv, OneCallAThread, OneCallAThread', NEW w \in Workers, NEW t \in Threads,
           Moves(w, t), SeqCall(w)', NotBehind(t)'
    PROVE  SeqInv'
  <1>0. \A v \in Workers : On(v) \in Threads
    BY DEF TypeOK, Job, On
  <1>1. ASSUME NEW v \in Workers, v # w PROVE SeqCall(v)'
    <2>1. job'[v] = job[v] /\ On(v)' = On(v) /\ On(w)' = t /\ lost' = lost
      BY <1>1 DEF On, Moves
    <2>2. CASE job[v].pc = "idle"
      BY <2>1, <2>2, OtherCalls
    <2>3. CASE job[v].pc # "idle"
      <3>1. On(v) # t
        BY <1>1, <2>1, <2>3 DEF OneCallAThread, Moves, On
      <3>2. row'[On(v)] = row[On(v)]
        BY <1>0, <3>1 DEF Moves
      <3> QED
        BY <2>1, <3>2, CallStands DEF SeqInv
    <2> QED
      BY <2>2, <2>3
  <1>2. ASSUME NEW u \in Threads, u # t PROVE NotBehind(u)'
    <2>1. row'[u] = row[u]
      BY <1>2 DEF Moves
    <2>2. ASSUME \A v \in Workers : Summarises(v)' => On(v)' # u
          PROVE  \A v \in Workers : Summarises(v) => On(v) # u
      <3>1. ASSUME NEW v \in Workers, Summarises(v) PROVE On(v) # u
        <4>1. CASE v = w
          BY <1>2, <3>1, <4>1 DEF Summarises, Moves
        <4>2. CASE v # w
          BY <2>2, <3>1, <4>2 DEF Summarises, On, Moves
        <4> QED
          BY <4>1, <4>2
      <3> QED
        BY <3>1
    <2> QED
      BY <2>1, <2>2 DEF SeqInv, NotBehind
  <1> QED
    BY <1>1, <1>2 DEF SeqInv

\* The thread of a call that does not summarise is not behind before it.
LEMMA WasNotBehind ==
    ASSUME SeqInv, OneCallAThread, NEW w \in Workers, On(w) \in Threads,
           job[w].pc \in {"upserted", "loading", "loaded"}
    PROVE  row[On(w)].total < row[On(w)].summarised + SummaryGap
  <1>1. ASSUME NEW v \in Workers, Summarises(v) PROVE On(v) # On(w)
    BY <1>1 DEF OneCallAThread, Summarises
  <1> QED
    BY <1>1 DEF SeqInv, NotBehind

-----------------------------------------------------------------------------
LEMMA SeqSave ==
    ASSUME IInv, SeqInv, OneCallAThread, OneCallAThread', NEW w \in Workers,
           (\E t \in Threads : SaveUpsert(w, t)) \/ SaveCommit(w) \/ SaveAbort(w)
    PROVE  SeqInv'
  <1>0. TypeOK /\ \A v \in Workers : On(v) \in Threads
    BY Fields DEF IInv
  <1>1. ASSUME NEW t \in Threads, SaveUpsert(w, t) PROVE SeqInv'
    <2>1. /\ job' = [job EXCEPT ![w] = [job[w] EXCEPT !.pc = "upserted", !.thread = t,
                                                      !.turn = row[t].total + 1]]
          /\ job[w].pc = "idle" /\ row' = row /\ lost' = lost
      BY <1>1 DEF SaveUpsert
    <2>2. job'[w].pc = "upserted" /\ job'[w].thread = t /\ \A v \in Workers : v # w => job'[v] = job[v]
      BY <1>0, <2>1 DEF TypeOK, Job
    <2>3. NotBehind(t)'
      <3>1. \A v \in Workers : v # w => On(v)' = On(v) /\ (Summarises(v)' <=> Summarises(v))
        BY <2>2 DEF On, Summarises
      <3>2. ~Summarises(w)
        BY <2>1 DEF Summarises
      <3> QED
        BY <2>1, <3>1, <3>2 DEF SeqInv, NotBehind
    <2> QED
      <3>1. Moves(w, t)
        BY <1>0, <2>1, <2>2, <2>3 DEF Moves, On
      <3>2. SeqCall(w)'
        BY <2>2, OtherCalls
      <3> QED
        BY <1>0, <2>3, <3>1, <3>2, OneCallMoves
  <1>2. ASSUME SaveCommit(w) PROVE SeqInv'
    <2>0. PICK t \in Threads : t = On(w)
      BY <1>0
    <2>1. /\ job' = [job EXCEPT ![w] = [job[w] EXCEPT !.pc = "saved", !.turn = 0]]
          /\ job[w].pc = "upserted" /\ lost' = lost
      BY <1>2 DEF SaveCommit
    <2>2. job'[w].pc = "saved" /\ job'[w].thread = On(w) /\ \A v \in Workers : v # w => job'[v] = job[v]
      BY <1>0, <2>1 DEF TypeOK, Job, On
    <2>3. \A u \in Threads : u # t => row'[u] = row[u]
      BY <1>0, <1>2, <2>0 DEF SaveCommit, TypeOK
    <2>4. NotBehind(t)'
      BY <2>0, <2>2 DEF NotBehind, Summarises, On
    <2> QED
      <3>1. Moves(w, t)
        BY <2>0, <1>0, <2>1, <2>2, <2>3, <2>4 DEF Moves, On
      <3>2. SeqCall(w)'
        BY <2>2, OtherCalls
      <3> QED
        BY <1>0, <2>4, <3>1, <3>2, OneCallMoves
  <1>3. ASSUME SaveAbort(w) PROVE SeqInv'
    <2>0. PICK t \in Threads : t = On(w)
      BY <1>0
    <2>1. /\ job' = [job EXCEPT ![w] = Finished(w)]
          /\ job[w].pc = "upserted" /\ lost' = lost /\ row' = row
      BY <1>3 DEF SaveAbort
    <2>2. job'[w].pc = "idle" /\ job'[w].thread = On(w) /\ \A v \in Workers : v # w => job'[v] = job[v]
      BY <1>0, <2>1 DEF TypeOK, Finished
    <2>3. NotBehind(t)'
      BY <2>0, <1>0, <2>1, WasNotBehind DEF NotBehind
    <2> QED
      <3>1. Moves(w, t)
        BY <2>0, <1>0, <2>1, <2>2, <2>3 DEF Moves, On
      <3>2. SeqCall(w)'
        BY <2>2, OtherCalls
      <3> QED
        BY <1>0, <2>3, <3>1, <3>2, OneCallMoves
  <1> QED
    BY <1>1, <1>2, <1>3

\* A summary that is written tells of every turn there is.
LEMMA SeqSummary ==
    ASSUME IInv, SeqInv, OneCallAThread, OneCallAThread', "llm" \notin Faults, NEW w \in Workers,
           SummarySkip(w) \/ SummaryStart(w) \/ SummaryRead(w) \/ SummaryFail(w) \/ SummaryWrite(w)
    PROVE  SeqInv'
  <1>0. TypeOK /\ On(w) \in Threads /\ row[On(w)] \in Row /\ job[w] \in Job
        /\ \A v \in Workers : On(v) \in Threads
    BY Fields, ReadType DEF IInv
  <1>1. CASE SummarySkip(w)
    <2>0. PICK t \in Threads : t = On(w)
      BY <1>0
    <2>1. /\ job' = [job EXCEPT ![w] = Finished(w)]
          /\ job[w].pc = "saved" /\ lost' = lost /\ row' = row
      BY <1>1 DEF SummarySkip
    <2>2. job'[w].pc = "idle" /\ job'[w].thread = On(w) /\ \A v \in Workers : v # w => job'[v] = job[v]
      BY <1>0, <2>1 DEF TypeOK, Finished
    <2>3. NotBehind(t)'
      BY <2>0, <1>1, <2>1 DEF SummarySkip, IInv, SummariserKeepsThread, NotBehind
    <2> QED
      <3>1. Moves(w, t)
        BY <2>0, <1>0, <2>1, <2>2, <2>3 DEF Moves, On
      <3>2. SeqCall(w)'
        BY <2>2, OtherCalls
      <3> QED
        BY <1>0, <2>3, <3>1, <3>2, OneCallMoves
  <1>2. CASE SummaryStart(w)
    <2>0. PICK t \in Threads : t = On(w)
      BY <1>0
    <2>1. /\ job' = [job EXCEPT ![w] = [job[w] EXCEPT !.pc = "summing", !.seen = row[On(w)]]]
          /\ job[w].pc = "saved" /\ lost' = lost /\ row' = row
      BY <1>2 DEF SummaryStart
    <2>2. /\ job'[w].pc = "summing" /\ job'[w].thread = On(w) /\ job'[w].seen = row[On(w)]
          /\ \A v \in Workers : v # w => job'[v] = job[v]
      BY <1>0, <2>1 DEF TypeOK, Job, On
    <2>3. NotBehind(t)'
      BY <2>0, <2>2 DEF NotBehind, Summarises, On
    <2>4. SeqCall(w)'
      BY <2>1, <2>2 DEF SeqCall, SeenIsRow, LoadedHonest, WindowComplete, On
    <2> QED
      <3>1. Moves(w, t)
        BY <2>0, <1>0, <2>1, <2>2, <2>3, <2>4 DEF Moves, On
      <3> QED
        BY <1>0, <2>4, <3>1, <2>3, OneCallMoves
  <1>3. CASE SummaryRead(w)
    <2>0. PICK t \in Threads : t = On(w)
      BY <1>0
    <2>1. /\ job' = [job EXCEPT ![w] = [job[w] EXCEPT !.pc = "asking",
                       !.batch = {i \in Present(On(w)) : i > job[w].seen.summarised}]]
          /\ job[w].pc = "summing" /\ lost' = lost /\ row' = row
      BY <1>3 DEF SummaryRead
    <2>2. /\ job'[w].pc = "asking" /\ job'[w].thread = On(w) /\ job'[w].seen = job[w].seen
          /\ \A v \in Workers : v # w => job'[v] = job[v]
      BY <1>0, <2>1 DEF TypeOK, Job, On
    <2>3. NotBehind(t)'
      BY <2>0, <2>2 DEF NotBehind, Summarises, On
    <2>4. SeqCall(w)'
      BY <2>1, <2>2 DEF SeqInv, SeqCall, SeenIsRow, LoadedHonest, WindowComplete, On
    <2> QED
      <3>1. Moves(w, t)
        BY <2>0, <1>0, <2>1, <2>2, <2>3, <2>4 DEF Moves, On
      <3> QED
        BY <1>0, <2>4, <3>1, <2>3, OneCallMoves
  <1>4. CASE SummaryWrite(w)
    <2> DEFINE r == [row[On(w)] EXCEPT !.summarised = job[w].seen.total,
                                       !.covers = job[w].seen.covers \cup job[w].batch]
    <2>0. PICK t \in Threads : t = On(w)
      BY <1>0
    <2>1. /\ job' = [job EXCEPT ![w] = Finished(w)]
          /\ job[w].pc = "asking" /\ lost' = lost
      BY <1>4 DEF SummaryWrite
    <2>2. job'[w].pc = "idle" /\ job'[w].thread = On(w) /\ \A v \in Workers : v # w => job'[v] = job[v]
      BY <1>0, <2>1 DEF TypeOK, Finished
    <2>3. row[On(w)].exists /\ row[On(w)].total = job[w].seen.total
      BY <2>1 DEF IInv, SummariserKeepsThread, SeqInv, SeqCall, SeenIsRow
    <2>4. row' = [row EXCEPT ![On(w)] = r]
      BY <1>4, <2>3 DEF SummaryWrite
    <2>5. /\ \A u \in Threads : u # t => row'[u] = row[u]
          /\ row'[On(w)].total = row[On(w)].total
          /\ row'[On(w)].summarised = job[w].seen.total
      BY <1>0, <2>0, <2>4 DEF TypeOK, Row
    <2>6. NotBehind(t)'
      <3>1. row'[On(w)].total \in Nat /\ SummaryGap \in Nat \ {0}
        BY <1>0, <2>5, ChatStoreAssumption DEF Row
      <3> QED
        BY <2>0, <2>3, <2>5, <3>1 DEF NotBehind
    <2> QED
      <3>1. Moves(w, t)
        BY <2>0, <1>0, <2>1, <2>2, <2>5, <2>6 DEF Moves, On
      <3>2. SeqCall(w)'
        BY <2>2, OtherCalls
      <3> QED
        BY <1>0, <2>6, <3>1, <3>2, OneCallMoves
  <1> QED
    BY <1>1, <1>2, <1>3, <1>4 DEF SummaryFail

\* The window reaches as far back as its number of turns.
LEMMA WindowReaches ==
    ASSUME NEW n \in Nat, NEW S \in SUBSET (1..n), NEW i \in S, n - i < RecentTurns
    PROVE  i \in Newest(S)
  <1> DEFINE later == {j \in S : j > i}
  <1>1. later \in SUBSET ((i + 1)..n)
    <2>1. ASSUME NEW j \in later PROVE j \in (i + 1)..n
      <3>1. i \in 1..n /\ j \in 1..n /\ j > i
        OBVIOUS
      <3> QED
        BY <3>1
    <2> QED
      BY <2>1
  <1>2. i + 1 \in Int /\ n \in Int /\ i \in 1..n
    OBVIOUS
  <1>3. /\ IsFiniteSet((i + 1)..n)
        /\ Cardinality((i + 1)..n) = IF i + 1 > n THEN 0 ELSE n - (i + 1) + 1
    BY <1>2, FS_Interval
  <1>4. IsFiniteSet(later) /\ Cardinality(later) <= Cardinality((i + 1)..n)
    BY <1>1, <1>3, FS_Subset
  <1>5. Cardinality(later) \in Nat
    BY <1>4, FS_CardinalityType
  <1> HIDE DEF later
  <1>6. Cardinality(later) < RecentTurns
    BY <1>2, <1>3, <1>4, <1>5, ChatStoreAssumption
  <1> QED
    BY <1>6 DEF Newest, later

LEMMA SeqLoad ==
    ASSUME IInv, SeqInv, OneCallAThread, OneCallAThread', SummaryGap <= RecentTurns + 1,
           NEW w \in Workers,
           (\E t \in Threads : LoadRow(w, t)) \/ LoadMessages(w) \/ LoadReturn(w)
    PROVE  SeqInv'
  <1>0. TypeOK /\ job[w] \in Job /\ \A v \in Workers : On(v) \in Threads
    BY Fields, ReadType DEF IInv
  <1>1. ASSUME NEW t \in Threads, LoadRow(w, t) PROVE SeqInv'
    <2>1. /\ job' = [job EXCEPT ![w] = [job[w] EXCEPT !.pc = "loading", !.thread = t, !.seen = row[t]]]
          /\ job[w].pc = "idle" /\ lost' = lost /\ row' = row
      BY <1>1 DEF LoadRow
    <2>2. /\ job'[w].pc = "loading" /\ job'[w].thread = t /\ job'[w].seen = row[t]
          /\ \A v \in Workers : v # w => job'[v] = job[v]
      BY <1>0, <2>1 DEF TypeOK, Job
    <2>3. row[t].total < row[t].summarised + SummaryGap
      <3>1. ASSUME NEW v \in Workers, Summarises(v) PROVE On(v) # t
        <4>1. v # w
          BY <2>1, <3>1 DEF Summarises
        <4>2. job'[v] = job[v] /\ job[v].pc # "idle" /\ On(w)' = t /\ On(v)' = On(v)
          BY <2>2, <3>1, <4>1 DEF Summarises, On
        <4> QED
          BY <2>2, <4>1, <4>2 DEF OneCallAThread
      <3> QED
        BY <3>1 DEF SeqInv, NotBehind
    <2>4. NotBehind(t)'
      BY <2>1, <2>3 DEF NotBehind
    <2>5. SeqCall(w)'
      <3>1. /\ row[t].summarised <= row[t].total
            /\ 1..row[t].summarised \subseteq row[t].covers \cup lost[t]
        BY DEF IInv, SummaryCountHonest
      <3>2. On(w)' = t /\ row'[t] = row[t] /\ row[t].total \in Nat
        BY <1>0, <2>1, <2>2, Fields DEF On
      <3>3. LoadedHonest(w)'
        BY <2>1, <2>2, <2>3, <3>1, <3>2 DEF LoadedHonest
      <3> QED
        BY <2>2, <3>3 DEF SeqCall, SeenIsRow, WindowComplete
    <2> QED
      <3>1. Moves(w, t)
        BY <1>0, <2>1, <2>2, <2>4, <2>5 DEF Moves, On
      <3> QED
        BY <1>0, <2>5, <3>1, <2>4, OneCallMoves
  <1>2. CASE LoadMessages(w)
    <2> DEFINE seen == job[w].seen
    <2>0. PICK t \in Threads : t = On(w)
      BY <1>0
    <2>1. /\ job' = [job EXCEPT ![w] = [job[w] EXCEPT !.pc = "loaded", !.batch = Newest(Present(t))]]
          /\ job[w].pc = "loading" /\ lost' = lost /\ row' = row
      BY <1>2, <2>0 DEF LoadMessages
    <2>2. /\ job'[w].pc = "loaded" /\ job'[w].thread = t /\ job'[w].seen = seen
          /\ job'[w].batch = Newest(Present(t))
          /\ \A v \in Workers : v # w => job'[v] = job[v]
      BY <1>0, <2>0, <2>1 DEF TypeOK, Job, On
    <2>3. NotBehind(t)'
      BY <1>0, <2>0, <2>1, WasNotBehind DEF NotBehind
    <2>4. /\ row[t].total <= seen.total /\ seen.summarised <= seen.total
          /\ seen.total < seen.summarised + SummaryGap
          /\ row[t].total = seen.total => 1..seen.summarised \subseteq seen.covers \cup lost[t]
      BY <2>0, <2>1 DEF SeqInv, SeqCall, LoadedHonest
    <2>5. ASSUME row[t].total = seen.total
          PROVE  (seen.summarised + 1)..seen.total \subseteq Newest(Present(t)) \cup lost[t]
      <3>1. row[t].total \in 0..MaxTurns /\ seen.summarised \in Nat /\ MaxTurns \in Nat
        BY <1>0, <2>0, Fields, ChatStoreAssumption
      <3>2. ASSUME NEW i \in Turn PROVE messages[t][i] = IF i <= row[t].total /\ i \notin lost[t] THEN 1 ELSE 0
        BY <1>0 DEF IInv, TurnsNumberedOnce
      <3>3. Present(t) \in SUBSET (1..row[t].total)
        <4>1. ASSUME NEW i \in Turn, messages[t][i] > 0 PROVE i <= row[t].total
          BY <3>2, <4>1
        <4> QED
          BY <3>1, <4>1 DEF Present, Turn
      <3>4. ASSUME NEW i \in (seen.summarised + 1)..seen.total, i \notin lost[t]
            PROVE  i \in Newest(Present(t))
        <4>1. i \in Turn /\ i <= row[t].total
          BY <2>5, <3>1 DEF Turn
        <4>2. i \in Present(t)
          BY <3>2, <3>4, <4>1 DEF Present
        <4>3. row[t].total - i < RecentTurns
          BY <2>4, <2>5, <3>1, ChatStoreAssumption
        <4> QED
          BY <3>1, <3>3, <4>2, <4>3, WindowReaches
      <3> QED
        BY <3>4
    <2>6. On(w)' = t /\ row'[t] = row[t]
      BY <2>1, <2>2 DEF On
    <2> HIDE DEF seen
    <2>7. LoadedHonest(w)'
      BY <2>1, <2>2, <2>4, <2>6 DEF LoadedHonest
    <2>8. WindowComplete(w)'
      BY <2>1, <2>2, <2>5, <2>6 DEF WindowComplete
    <2>9. SeqCall(w)'
      BY <2>2, <2>7, <2>8 DEF SeqCall, SeenIsRow
    <2> QED
      <3>1. Moves(w, t)
        BY <2>0, <1>0, <2>1, <2>2, <2>3, <2>9 DEF Moves, On
      <3> QED
        BY <1>0, <2>9, <3>1, <2>3, OneCallMoves
  <1>3. CASE LoadReturn(w)
    <2>0. PICK t \in Threads : t = On(w)
      BY <1>0
    <2>1. /\ job' = [job EXCEPT ![w] = Finished(w)]
          /\ job[w].pc = "loaded" /\ lost' = lost /\ row' = row
      BY <1>3 DEF LoadReturn
    <2>2. job'[w].pc = "idle" /\ job'[w].thread = On(w) /\ \A v \in Workers : v # w => job'[v] = job[v]
      BY <1>0, <2>1 DEF TypeOK, Finished
    <2>3. NotBehind(t)'
      BY <2>0, <1>0, <2>1, WasNotBehind DEF NotBehind
    <2> QED
      <3>1. Moves(w, t)
        BY <2>0, <1>0, <2>1, <2>2, <2>3 DEF Moves, On
      <3>2. SeqCall(w)'
        BY <2>2, OtherCalls
      <3> QED
        BY <1>0, <2>3, <3>1, <3>2, OneCallMoves
  <1> QED
    BY <1>1, <1>2, <1>3

\* Files, age and expiry: a thread keeps its counts, or goes.
LEMMA SeqStore ==
    ASSUME IInv, SeqInv,
           \/ \E t \in Threads : SaveThreadFile(t) \/ DeleteThreadFiles(t) \/ Age(t)
           \/ SweepMessages \/ SweepCommit \/ SweepRefused
    PROVE  SeqInv'
  <1>0. TypeOK /\ job' = job /\ \A w \in Workers : On(w) \in Threads
    BY Fields DEF IInv, SaveThreadFile, DeleteThreadFiles, Age, SweepMessages, SweepCommit, SweepRefused
  <1>1. ASSUME NEW u \in Threads
        PROVE  \/ /\ row'[u].total = row[u].total /\ row'[u].summarised = row[u].summarised
                  /\ lost[u] \subseteq lost'[u]
               \/ row'[u] = NoRow /\ row[u].stale
    <2>1. CASE \E t \in Threads : SaveThreadFile(t) \/ DeleteThreadFiles(t) \/ Age(t)
      <3>1. ASSUME NEW t \in Threads, SaveThreadFile(t)
            PROVE  row'[u].total = row[u].total /\ row'[u].summarised = row[u].summarised
        <4>1. row' = [row EXCEPT ![t] = [row[t] EXCEPT !.exists = TRUE]]
          BY <3>1 DEF SaveThreadFile
        <4>2. row[t] \in Row
          BY <1>0 DEF TypeOK
        <4> QED
          BY <1>0, <4>1, <4>2 DEF TypeOK, Row
      <3>2. ASSUME NEW t \in Threads, Age(t)
            PROVE  row'[u].total = row[u].total /\ row'[u].summarised = row[u].summarised
        <4>1. row' = [row EXCEPT ![t] = [row[t] EXCEPT !.stale = TRUE]]
          BY <3>2 DEF Age
        <4>2. row[t] \in Row
          BY <1>0 DEF TypeOK
        <4> QED
          BY <1>0, <4>1, <4>2 DEF TypeOK, Row
      <3>3. ASSUME NEW t \in Threads, DeleteThreadFiles(t) PROVE row' = row
        BY <3>3 DEF DeleteThreadFiles
      <3>4. lost' = lost
        BY <2>1 DEF SaveThreadFile, DeleteThreadFiles, Age
      <3> QED
        BY <2>1, <3>1, <3>2, <3>3, <3>4
    <2>2. CASE SweepMessages \/ SweepRefused
      BY <2>2 DEF SweepMessages, SweepRefused
    <2>3. CASE SweepCommit
      BY <2>3 DEF SweepCommit
    <2> QED
      BY <2>1, <2>2, <2>3
  <1>2. NoRow.total = 0 /\ NoRow.summarised = 0 /\ SummaryGap \in Nat \ {0}
    BY ChatStoreAssumption DEF NoRow
  <1>3. ASSUME NEW u \in Threads PROVE NotBehind(u)'
    <2>1. CASE row'[u] = NoRow
      BY <1>2, <2>1 DEF NotBehind
    <2>2. CASE row'[u].total = row[u].total /\ row'[u].summarised = row[u].summarised
      <3>1. \A v \in Workers : On(v)' = On(v) /\ (Summarises(v)' <=> Summarises(v))
        BY <1>0 DEF On, Summarises
      <3> QED
        BY <2>2, <3>1 DEF SeqInv, NotBehind
    <2> QED
      BY <1>1, <1>3, <2>1, <2>2
  <1>4. ASSUME NEW w \in Workers PROVE SeqCall(w)'
    <2>1. CASE row'[On(w)].total = row[On(w)].total /\ lost[On(w)] \subseteq lost'[On(w)]
      BY <1>0, <2>1, CallStands DEF SeqInv
    <2>2. CASE row'[On(w)] = NoRow /\ row[On(w)].stale
      <3>1. On(w)' = On(w) /\ job'[w] = job[w] /\ row'[On(w)].total = 0
        BY <1>0, <1>2, <2>2 DEF On
      <3>2. job[w].pc \notin {"summing", "asking"}
        BY <2>2 DEF IInv, SummariserKeepsThread
      <3>3. job[w].seen.total \in Nat /\ job[w].seen.summarised \in Nat
        BY <1>0, Fields
      <3>4. LoadedHonest(w)'
        <4>1. job[w].pc \in {"loading", "loaded"} =>
                /\ job[w].seen.summarised <= job[w].seen.total
                /\ job[w].seen.total < job[w].seen.summarised + SummaryGap
          BY DEF SeqInv, SeqCall, LoadedHonest
        <4>2. job[w].pc \in {"loading", "loaded"} /\ job[w].seen.total = 0 => 1..job[w].seen.summarised = {}
          BY <3>3, <4>1
        <4> QED
          BY <3>1, <3>3, <4>1, <4>2 DEF LoadedHonest
      <3>5. WindowComplete(w)'
        <4>1. job[w].seen.total = 0 => (job[w].seen.summarised + 1)..job[w].seen.total = {}
          BY <3>3
        <4> QED
          BY <3>1, <4>1 DEF WindowComplete
      <3> QED
        BY <3>1, <3>2, <3>4, <3>5 DEF SeqCall, SeenIsRow
    <2> QED
      BY <1>0, <1>1, <2>1, <2>2
  <1> QED
    BY <1>3, <1>4 DEF SeqInv

\* With a window that reaches back to the last summary but one turn, and a
\* summary model that answers, load_history leaves out no turn of a thread
\* whose calls follow one another, whatever happens on the other threads.
THEOREM NothingIsForgotten ==
    ASSUME "llm" \notin Faults, "crash" \notin Faults, SummaryGap <= RecentTurns + 1
    PROVE  Spec /\ []OneCallAThread => []NoTurnForgotten
  <1>1. Init => SeqInv
    <2> SUFFICES ASSUME Init PROVE SeqInv
      OBVIOUS
    <2>1. ASSUME NEW t \in Threads PROVE NotBehind(t)
      BY ChatStoreAssumption DEF Init, NoRow, NotBehind
    <2>2. ASSUME NEW w \in Workers PROVE SeqCall(w)
      BY DEF Init, SeqCall, SeenIsRow, LoadedHonest, WindowComplete
    <2> QED
      BY <2>1, <2>2 DEF SeqInv
  <1>2. IInv /\ SeqInv /\ OneCallAThread /\ OneCallAThread' /\ [Next]_vars => SeqInv'
    <2>1. SUFFICES ASSUME IInv, SeqInv, OneCallAThread, OneCallAThread', [Next]_vars PROVE SeqInv'
      OBVIOUS
    <2>2. ASSUME NEW w \in Workers, WorkerNext(w) PROVE SeqInv'
      BY <2>1, <2>2, SeqSave, SeqSummary, SeqLoad DEF WorkerNext, WorkerCrash
    <2>3. CASE \/ \E t \in Threads : SaveThreadFile(t) \/ DeleteThreadFiles(t) \/ Age(t)
               \/ SweepMessages \/ SweepCommit \/ SweepRefused
      BY <2>1, <2>3, SeqStore
    <2>4. CASE UNCHANGED vars
      BY <2>1, <2>4 DEF vars, SeqInv, SeqCall, NotBehind, SeenIsRow, LoadedHonest, WindowComplete,
         Summarises, On
    <2> QED
      BY <2>1, <2>2, <2>3, <2>4 DEF Next
  <1>3. IInv /\ SeqInv => NoTurnForgotten
    <2> SUFFICES ASSUME IInv, SeqInv, NEW w \in Workers, job[w].pc = "loaded",
                        row[On(w)].total >= job[w].seen.total
                 PROVE  1..job[w].seen.total \subseteq
                          job[w].seen.covers \cup job[w].batch \cup lost[On(w)]
      BY DEF NoTurnForgotten
    <2>1. LoadedHonest(w) /\ WindowComplete(w)
      BY DEF SeqInv, SeqCall
    <2>2. On(w) \in Threads /\ row[On(w)].total \in Nat /\ job[w].seen.total \in Nat
          /\ job[w].seen.summarised \in Nat
      BY Fields DEF IInv
    <2>3. row[On(w)].total = job[w].seen.total
      BY <2>1, <2>2 DEF LoadedHonest
    <2>4. ASSUME NEW i \in 1..job[w].seen.total
          PROVE  \/ i \in 1..job[w].seen.summarised
                 \/ i \in (job[w].seen.summarised + 1)..job[w].seen.total
      BY <2>2
    <2> QED
      BY <2>1, <2>3, <2>4 DEF LoadedHonest, WindowComplete
  <1> QED
    BY <1>1, <1>2, <1>3, Inductive, PTL DEF Spec
=============================================================================
