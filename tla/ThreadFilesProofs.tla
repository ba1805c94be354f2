-------------------------- MODULE ThreadFilesProofs --------------------------
(***************************************************************************)
(* What uploads and deletions keep true of a thread's files, for any       *)
(* number of uploads and files, of write slots and attempts, and of pool   *)
(* threads that outlive the upload that awaited them; and that every step  *)
(* brings an upload, or its pool thread, nearer to its end.                *)
(***************************************************************************)
EXTENDS ThreadFiles, FiniteSetTheorems, TLAPS

Writing == {f \in File : writer[f] = "writing"}

\* The files an upload has still to record are on no record and in no
\* abandoned save, and those it has still to store have no pool thread.
Unsaved ==
    \A u \in Uploads : upload[u].pc # "done" =>
        \A j \in upload[u].i..PerUpload[u] :
            /\ row[<<u, j>>] = "none"
            /\ late[<<u, j>>] = "none"
            /\ (j # upload[u].i \/ upload[u].pc \in {"idle", "extract"})
                 => writer[<<u, j>>] = "none"

\* An upload notes a collection only once it has seen the write end well.
MarkTrue ==
    \A u \in Uploads :
        /\ upload[u].pc \in {"idle", "extract"} => upload[u].mark = "plain"
        /\ upload[u].pc = "save" /\ upload[u].mark = "indexed"
             => writer[Current(u)] = "stored"

\* So does what is recorded, or on its way to be.
RecordTrue ==
    \A f \in File :
        /\ row[f] = "indexed" \/ late[f] = "indexed" => writer[f] = "stored"
        /\ late[f] # "none" => row[f] = "none"

\* What was stored stays, until its record is deleted.
StoredKept ==
    \A f \in File : writer[f] = "stored" /\ row[f] # "deleted" =>
        collection[f] \in {"whole", "doubled"}

\* A deletion drops the collections of records that are gone by then.
DeletionTrue ==
    \A f \in deletion.indexed :
        /\ deletion.pc = "loaded" => row[f] # "none"
        /\ deletion.pc = "unrecorded" => row[f] = "deleted"

IInv ==
    /\ TypeOK
    /\ IsFiniteSet(Writing)
    /\ SlotsBalance
    /\ Unsaved
    /\ MarkTrue
    /\ RecordTrue
    /\ StoredKept
    /\ DeletionTrue

-----------------------------------------------------------------------------
\* A place in an upload is a file, and two places are two files.
LEMMA Places ==
    /\ \A u \in Uploads : \A j \in 1..PerUpload[u] : <<u, j>> \in File
    /\ \A u, v : \A i, j : <<u, i>> = <<v, j>> => u = v /\ i = j
<1>1. ASSUME NEW u \in Uploads, NEW j \in 1..PerUpload[u] PROVE <<u, j>> \in File
  BY <1>1 DEF File
<1>2. \A u, v : \A i, j : <<u, i>> = <<v, j>> => u = v /\ i = j
  OBVIOUS
<1> QED
  BY <1>1, <1>2

\* The file an upload is at is a file.
LEMMA CurrentIsFile ==
    ASSUME TypeOK, NEW u \in Uploads, upload[u].pc # "done"
    PROVE  Current(u) \in File
  BY Places DEF TypeOK, Current

LEMMA IInvInit == Init => IInv
<1> SUFFICES ASSUME Init PROVE IInv
  OBVIOUS
<1>1. Writing = {}
  BY DEF Init, Writing
<1>2. IsFiniteSet(Writing) /\ SlotsBalance
  <2>1. IsFiniteSet(Writing) /\ Cardinality(Writing) = 0
    BY <1>1, FS_EmptySet
  <2>2. slots = Writers /\ Writers \in Nat
    BY ThreadFilesAssumption DEF Init
  <2>3. slots + Cardinality(Writing) = Writers
    BY <2>1, <2>2
  <2> QED
    BY <2>1, <2>3 DEF SlotsBalance, Writing
<1>3. TypeOK
  <2>1. upload \in [Uploads -> Upload]
    BY DEF Init, Upload
  <2>2. \A u \in Uploads : /\ upload[u].admitted <= PerUpload[u]
                           /\ upload[u].i \in 1..PerUpload[u]
    BY ThreadFilesAssumption DEF Init
  <2>3. deletion \in Deletion
    BY DEF Init, NoDeletion, Deletion
  <2>4. slots \in 0..Writers /\ attempt \in [File -> 0..MaxAttempts]
    BY ThreadFilesAssumption DEF Init
  <2> QED
    BY <2>1, <2>2, <2>3, <2>4 DEF Init, TypeOK, Record
<1>4. Unsaved
  <2> SUFFICES ASSUME NEW u \in Uploads, NEW j \in 1..PerUpload[u]
               PROVE  row[<<u, j>>] = "none" /\ late[<<u, j>>] = "none" /\ writer[<<u, j>>] = "none"
    BY DEF Init, Unsaved
  <2>1. <<u, j>> \in File
    BY Places
  <2> QED
    BY <2>1 DEF Init
<1>5. MarkTrue /\ RecordTrue /\ StoredKept /\ DeletionTrue
  BY DEF Init, MarkTrue, RecordTrue, StoredKept, DeletionTrue, NoDeletion
<1> QED
  BY <1>2, <1>3, <1>4, <1>5 DEF IInv

-----------------------------------------------------------------------------
(* The semaphore *)

\* Actions that take no slot and give none back leave the writers in flight.
LEMMA SlotsFrame ==
    ASSUME IsFiniteSet(Writing), SlotsBalance, slots' = slots,
           \A f \in File : (writer'[f] = "writing") = (writer[f] = "writing")
    PROVE  IsFiniteSet(Writing') /\ SlotsBalance'
<1>1. Writing' = Writing
  BY DEF Writing
<1> QED
  BY <1>1 DEF SlotsBalance, Writing

\* A pool thread that gets a slot, and one that gives it back.
LEMMA SlotTaken ==
    ASSUME TypeOK, IsFiniteSet(Writing), SlotsBalance, NEW f \in File,
           writer[f] # "writing", slots > 0, slots' = slots - 1,
           writer' = [writer EXCEPT ![f] = "writing"]
    PROVE  IsFiniteSet(Writing') /\ SlotsBalance' /\ slots' \in 0..Writers
<1>1. Writing' = Writing \cup {f}
  BY DEF Writing, TypeOK
<1>2. f \notin Writing
  BY DEF Writing
<1>3. IsFiniteSet(Writing') /\ Cardinality(Writing') = Cardinality(Writing) + 1
  BY <1>1, <1>2, FS_AddElement
<1>4. Cardinality(Writing) \in Nat /\ slots \in 0..Writers /\ Writers \in Nat
  BY FS_CardinalityType, ThreadFilesAssumption DEF TypeOK
<1>5. slots + Cardinality(Writing) = Writers
  BY DEF SlotsBalance, Writing
<1>6. slots' + Cardinality(Writing') = Writers
  BY <1>3, <1>4, <1>5
<1> QED
  BY <1>3, <1>4, <1>6 DEF SlotsBalance, Writing

LEMMA SlotReturned ==
    ASSUME TypeOK, IsFiniteSet(Writing), SlotsBalance, NEW f \in File, NEW end,
           writer[f] = "writing", end # "writing", slots' = slots + 1,
           writer' = [writer EXCEPT ![f] = end]
    PROVE  IsFiniteSet(Writing') /\ SlotsBalance' /\ slots' \in 0..Writers
<1>1. Writing' = Writing \ {f}
  BY DEF Writing, TypeOK
<1>2. f \in Writing
  BY DEF Writing
<1>3. IsFiniteSet(Writing') /\ Cardinality(Writing') = Cardinality(Writing) - 1
  BY <1>1, <1>2, FS_RemoveElement
<1>4. /\ Cardinality(Writing) \in Nat /\ Cardinality(Writing') \in Nat
      /\ slots \in 0..Writers /\ Writers \in Nat
  BY <1>3, FS_CardinalityType, ThreadFilesAssumption DEF TypeOK
<1>5. slots + Cardinality(Writing) = Writers
  BY DEF SlotsBalance, Writing
<1>6. slots' + Cardinality(Writing') = Writers
  BY <1>3, <1>4, <1>5
<1> QED
  BY <1>3, <1>4, <1>6 DEF SlotsBalance, Writing

-----------------------------------------------------------------------------
(* The steps *)

\* Admission: no file is on record or stored yet.
LEMMA AdmitStep ==
    ASSUME IInv, NEW u \in Uploads, Admit(u)
    PROVE  IInv'
<1>1. TypeOK
  BY DEF IInv
<1>2. PICK n \in 0..PerUpload[u] :
        /\ upload' = [upload EXCEPT ![u] =
              [@ EXCEPT !.pc = IF n = 0 THEN "done" ELSE "extract", !.admitted = n]]
        /\ disk' = [f \in File |-> disk[f] \/ (f[1] = u /\ f[2] <= n)]
  BY DEF Admit
<1>3. upload[u].pc = "idle" /\ UNCHANGED <<writer, attempt, slots, collection, row, late, deletion>>
  BY DEF Admit
<1>4. upload'[u] = [pc |-> IF n = 0 THEN "done" ELSE "extract", i |-> upload[u].i,
                    admitted |-> n, mark |-> upload[u].mark]
  <2>1. upload[u] \in Upload
    BY <1>1 DEF TypeOK
  <2>2. upload'[u] = [upload[u] EXCEPT !.pc = IF n = 0 THEN "done" ELSE "extract",
                        !.admitted = n]
    BY <1>1, <1>2, Zenon DEF TypeOK
  <2> QED
    BY <2>1, <2>2 DEF Upload
<1>5. \A v \in Uploads : v # u => upload'[v] = upload[v]
  BY <1>1, <1>2 DEF TypeOK
<1>6. TypeOK'
  <2>1. n \in Nat /\ n <= PerUpload[u]
    BY ThreadFilesAssumption
  <2>2. upload'[u] \in Upload
    BY <1>1, <1>4, <2>1 DEF TypeOK, Upload
  <2>3. upload' \in [Uploads -> Upload]
    BY <1>1, <1>2, <1>5, <2>2 DEF TypeOK
  <2>4. \A v \in Uploads : /\ upload'[v].admitted <= PerUpload[v]
                           /\ upload'[v].pc # "done" => upload'[v].i \in 1..PerUpload[v]
    BY <1>1, <1>3, <1>4, <1>5, <2>1 DEF TypeOK
  <2>5. disk' \in [File -> BOOLEAN]
    BY <1>2
  <2> QED
    BY <1>1, <1>3, <2>3, <2>4, <2>5 DEF TypeOK
<1>7. Unsaved'
  BY <1>3, <1>4, <1>5 DEF IInv, Unsaved
<1>8. MarkTrue'
  BY <1>3, <1>4, <1>5 DEF IInv, MarkTrue, Current
<1>9. (IsFiniteSet(Writing) /\ SlotsBalance /\ RecordTrue /\ StoredKept /\ DeletionTrue)'
  BY <1>3 DEF IInv, Writing, SlotsBalance, RecordTrue, StoredKept, DeletionTrue
<1> QED
  BY <1>6, <1>7, <1>8, <1>9 DEF IInv

\* Extraction hands the file to a pool thread that did not exist before.
LEMMA ExtractStep ==
    ASSUME IInv, NEW u \in Uploads, Extract(u)
    PROVE  IInv'
<1> DEFINE f == Current(u)
<1>1. TypeOK /\ upload[u].pc = "extract"
      /\ UNCHANGED <<attempt, slots, collection, disk, row, late, deletion>>
  BY DEF IInv, Extract
<1>2. f \in File /\ upload[u].i \in 1..PerUpload[u] /\ PerUpload[u] \in Nat
  BY <1>1, CurrentIsFile, ThreadFilesAssumption DEF TypeOK
<1>3. writer[f] = "none" /\ row[f] = "none" /\ late[f] = "none" /\ upload[u].mark = "plain"
  BY <1>1, <1>2 DEF IInv, Unsaved, MarkTrue, Current
<1>4. PICK to \in {"store", "save"} : upload' = [upload EXCEPT ![u].pc = to]
  BY DEF Extract
<1>5. writer' \in {writer, [writer EXCEPT ![f] = "waiting"]}
  BY DEF Extract
<1>6. upload'[u] = [upload[u] EXCEPT !.pc = to]
      /\ \A v \in Uploads : v # u => upload'[v] = upload[v]
  BY <1>1, <1>4 DEF TypeOK
<1>7. writer' \in [File -> {"none", "waiting", "writing", "stored", "failed"}]
      /\ \A g \in File : writer'[g] = writer[g] \/ (g = f /\ writer'[g] = "waiting")
  BY <1>1, <1>2, <1>5 DEF TypeOK
<1>8. /\ upload'[u].pc = to /\ upload'[u].i = upload[u].i
      /\ upload'[u].admitted = upload[u].admitted /\ upload'[u].mark = "plain"
      /\ upload'[u] \in Upload
  BY <1>1, <1>3, <1>6 DEF TypeOK, Upload
<1>9. TypeOK'
  <2>1. upload' \in [Uploads -> Upload]
    BY <1>1, <1>4, <1>6, <1>8 DEF TypeOK
  <2>2. \A v \in Uploads : /\ upload'[v].admitted <= PerUpload[v]
                           /\ upload'[v].pc # "done" => upload'[v].i \in 1..PerUpload[v]
    BY <1>1, <1>2, <1>6, <1>8 DEF TypeOK
  <2> QED
    BY <1>1, <1>7, <2>1, <2>2 DEF TypeOK
<1>10. (IsFiniteSet(Writing) /\ SlotsBalance)'
  BY <1>1, <1>3, <1>7, SlotsFrame DEF IInv
<1>11. Unsaved'
  <2> SUFFICES ASSUME NEW v \in Uploads, upload'[v].pc # "done",
                      NEW j \in upload'[v].i..PerUpload[v]
               PROVE  /\ row[<<v, j>>] = "none" /\ late[<<v, j>>] = "none"
                      /\ (j # upload'[v].i \/ upload'[v].pc \in {"idle", "extract"})
                           => writer'[<<v, j>>] = "none"
    BY <1>1 DEF Unsaved
  <2>1. upload[v].pc # "done" /\ upload'[v].i = upload[v].i
    BY <1>1, <1>6, <1>8
  <2>2. upload[v].i \in 1..PerUpload[v] /\ PerUpload[v] \in Nat
    BY <1>1, <2>1, ThreadFilesAssumption DEF TypeOK
  <2>3. <<v, j>> \in File
    BY <2>1, <2>2, Places
  <2>4. CASE v # u
    BY <1>6, <1>7, <2>1, <2>3, <2>4 DEF IInv, Unsaved, Current
  <2>5. CASE v = u
    BY <1>1, <1>7, <1>8, <2>1, <2>3, <2>5 DEF IInv, Unsaved, Current
  <2> QED
    BY <2>4, <2>5
<1>12. MarkTrue'
  <2> SUFFICES ASSUME NEW v \in Uploads, v # u
               PROVE  /\ upload[v].pc \in {"idle", "extract"} => upload[v].mark = "plain"
                      /\ upload[v].pc = "save" /\ upload[v].mark = "indexed"
                           => writer'[<<v, upload[v].i>>] = "stored"
    BY <1>6, <1>8 DEF MarkTrue, Current
  <2>1. upload[v].pc = "save" => Current(v) \in File
    BY <1>1, CurrentIsFile
  <2> QED
    BY <1>7, <2>1 DEF IInv, MarkTrue, Current
<1>13. (RecordTrue /\ StoredKept /\ DeletionTrue)'
  BY <1>1, <1>3, <1>7 DEF IInv, RecordTrue, StoredKept, DeletionTrue
<1> QED
  BY <1>9, <1>10, <1>11, <1>12, <1>13 DEF IInv

\* The write is noted only if it was seen to end well.
LEMMA AwaitStoreStep ==
    ASSUME IInv, NEW u \in Uploads, AwaitStore(u)
    PROVE  IInv'
<1>1. TypeOK /\ upload[u].pc = "store"
      /\ UNCHANGED <<writer, attempt, slots, collection, disk, row, late, deletion>>
  BY DEF IInv, AwaitStore
<1>2. PICK mark \in {"plain", "indexed"} :
        /\ mark = "indexed" => writer[Current(u)] = "stored"
        /\ upload' = [upload EXCEPT ![u].pc = "save", ![u].mark = mark]
  BY DEF AwaitStore
<1>3. /\ upload'[u].pc = "save" /\ upload'[u].mark = mark
      /\ upload'[u].i = upload[u].i /\ upload'[u].admitted = upload[u].admitted
      /\ upload'[u] \in Upload
  BY <1>1, <1>2 DEF TypeOK, Upload
<1>4. \A v \in Uploads : v # u => upload'[v] = upload[v]
  BY <1>1, <1>2 DEF TypeOK
<1>5. TypeOK'
  <2>1. upload' \in [Uploads -> Upload]
    BY <1>1, <1>2, <1>3, <1>4 DEF TypeOK
  <2> QED
    BY <1>1, <1>3, <1>4, <2>1 DEF TypeOK
<1>6. Unsaved'
  BY <1>1, <1>3, <1>4 DEF IInv, Unsaved
<1>7. MarkTrue'
  <2>1. mark = "indexed" => writer'[Current(u)'] = "stored"
    BY <1>1, <1>2, <1>3 DEF Current
  <2>2. \A v \in Uploads : v # u => Current(v)' = Current(v)
    BY <1>4 DEF Current
  <2> QED
    BY <1>1, <1>3, <1>4, <2>1, <2>2 DEF IInv, MarkTrue
<1>8. (IsFiniteSet(Writing) /\ SlotsBalance /\ RecordTrue /\ StoredKept /\ DeletionTrue)'
  BY <1>1 DEF IInv, Writing, SlotsBalance, RecordTrue, StoredKept, DeletionTrue
<1> QED
  BY <1>5, <1>6, <1>7, <1>8 DEF IInv

\* What is true while an upload saves its file stays true when it goes on to the
\* next one, or ends: only its own file can have got a record or a late save.
LEMMA UploadMovesOn ==
    ASSUME IInv, NEW u \in Uploads, upload[u].pc \in {"extract", "store", "save"},
           NEW next \in Upload, next.pc \in {"extract", "done"}, next.mark = "plain",
           next.admitted = upload[u].admitted,
           next.pc = "extract" => next.i = upload[u].i + 1 /\ next.i <= PerUpload[u],
           upload' = [upload EXCEPT ![u] = next], UNCHANGED writer,
           \A f \in File : f # Current(u) => row'[f] = row[f] /\ late'[f] = late[f]
    PROVE  /\ upload' \in [Uploads -> Upload]
           /\ \A v \in Uploads : /\ upload'[v].admitted <= PerUpload[v]
                                 /\ upload'[v].pc # "done" => upload'[v].i \in 1..PerUpload[v]
           /\ Unsaved'
           /\ MarkTrue'
<1>1. TypeOK
  BY DEF IInv
<1>2. upload'[u] = next /\ \A v \in Uploads : v # u => upload'[v] = upload[v]
  BY <1>1 DEF TypeOK
<1>3. upload[u].i \in 1..PerUpload[u] /\ PerUpload[u] \in Nat /\ next.i \in Nat
  BY <1>1, ThreadFilesAssumption DEF TypeOK, Upload
<1>4. upload' \in [Uploads -> Upload]
  BY <1>1, <1>2 DEF TypeOK
<1>5. \A v \in Uploads : /\ upload'[v].admitted <= PerUpload[v]
                         /\ upload'[v].pc # "done" => upload'[v].i \in 1..PerUpload[v]
  BY <1>1, <1>2, <1>3 DEF TypeOK
<1>6. Unsaved'
  <2> SUFFICES ASSUME NEW v \in Uploads, upload'[v].pc # "done",
                      NEW j \in upload'[v].i..PerUpload[v]
               PROVE  /\ row'[<<v, j>>] = "none" /\ late'[<<v, j>>] = "none"
                      /\ (j # upload'[v].i \/ upload'[v].pc \in {"idle", "extract"})
                           => writer[<<v, j>>] = "none"
    BY DEF Unsaved
  <2>1. <<v, j>> \in File
    BY <1>5, Places, ThreadFilesAssumption
  <2>2. CASE v # u
    BY <1>2, <2>1, <2>2 DEF IInv, Unsaved, Current
  <2>3. CASE v = u
    <3>1. j \in upload[u].i..PerUpload[u] /\ j # upload[u].i
      BY <1>2, <1>3, <2>3
    <3>2. <<v, j>> # Current(u)
      BY <3>1 DEF Current
    <3> QED
      BY <2>1, <2>3, <3>1, <3>2 DEF IInv, Unsaved
  <2> QED
    BY <2>2, <2>3
<1>7. MarkTrue'
  <2> SUFFICES ASSUME NEW v \in Uploads, v # u
               PROVE  /\ upload'[v].pc \in {"idle", "extract"} => upload'[v].mark = "plain"
                      /\ upload'[v].pc = "save" /\ upload'[v].mark = "indexed"
                           => writer[<<v, upload'[v].i>>] = "stored"
    BY <1>2 DEF MarkTrue, Current
  <2> QED
    BY <1>2 DEF IInv, MarkTrue, Current
<1> QED
  BY <1>4, <1>5, <1>6, <1>7

\* The next file of an upload is one of those let in.
LEMMA AdvanceIsNext ==
    ASSUME TypeOK, NEW u \in Uploads, upload[u].pc = "save"
    PROVE  /\ Advance(u) \in Upload
           /\ Advance(u).pc \in {"extract", "done"}
           /\ Advance(u).mark = "plain"
           /\ Advance(u).admitted = upload[u].admitted
           /\ Advance(u).pc = "extract"
                => Advance(u).i = upload[u].i + 1 /\ Advance(u).i <= PerUpload[u]
<1>1. upload[u] \in Upload /\ upload[u].admitted <= PerUpload[u] /\ PerUpload[u] \in Nat
  BY ThreadFilesAssumption DEF TypeOK
<1>2. upload[u].i \in Nat /\ upload[u].admitted \in Nat
  BY <1>1 DEF Upload
<1>3. PICK to \in {"extract", "done"} :
        /\ to = "extract" => upload[u].i < upload[u].admitted
        /\ Advance(u) = [upload[u] EXCEPT !.i = @ + 1, !.mark = "plain", !.pc = to]
  <2>1. CASE upload[u].i < upload[u].admitted
    BY <2>1 DEF Advance
  <2>2. CASE ~(upload[u].i < upload[u].admitted)
    BY <2>2 DEF Advance
  <2> QED
    BY <2>1, <2>2
<1>4. /\ Advance(u).pc = to /\ Advance(u).mark = "plain"
      /\ Advance(u).i = upload[u].i + 1 /\ Advance(u).admitted = upload[u].admitted
  BY <1>1, <1>3 DEF Upload
<1>5. Advance(u) \in Upload
  <2>1. upload[u].i + 1 \in Nat
    BY <1>2
  <2>2. Advance(u) = [pc |-> to, i |-> upload[u].i + 1, admitted |-> upload[u].admitted,
                      mark |-> "plain"]
    BY <1>1, <1>3 DEF Upload
  <2> QED
    BY <1>2, <1>3, <2>1, <2>2 DEF Upload
<1> QED
  BY <1>1, <1>2, <1>3, <1>4, <1>5

\* What the upload's file looks like when its record is due.
LEMMA CurrentIsUnsaved ==
    ASSUME IInv, NEW u \in Uploads, upload[u].pc \in {"extract", "store", "save"}
    PROVE  /\ Current(u) \in File
           /\ row[Current(u)] = "none"
           /\ late[Current(u)] = "none"
           /\ upload[u].mark \in {"plain", "indexed"}
           /\ upload[u].pc = "save" /\ upload[u].mark = "indexed"
                => writer[Current(u)] = "stored"
<1>1. TypeOK /\ upload[u].pc # "done"
  BY DEF IInv
<1>2. upload[u].i \in upload[u].i..PerUpload[u]
  BY <1>1, ThreadFilesAssumption DEF TypeOK
<1>3. upload[u].mark \in {"plain", "indexed"}
  BY <1>1 DEF TypeOK, Upload
<1> QED
  BY <1>1, <1>2, <1>3, CurrentIsFile DEF IInv, Unsaved, MarkTrue, Current

LEMMA SaveStep ==
    ASSUME IInv, NEW u \in Uploads, Save(u)
    PROVE  IInv'
<1> DEFINE f == Current(u)
<1>1. /\ TypeOK /\ upload[u].pc = "save"
      /\ row' = [row EXCEPT ![f] = upload[u].mark]
      /\ upload' = [upload EXCEPT ![u] = Advance(u)]
      /\ UNCHANGED <<writer, attempt, slots, collection, disk, late, deletion>>
  BY DEF IInv, Save
<1>2. /\ f \in File /\ row[f] = "none" /\ late[f] = "none"
      /\ upload[u].mark \in {"plain", "indexed"}
      /\ upload[u].mark = "indexed" => writer[f] = "stored"
  BY <1>1, CurrentIsUnsaved
<1>3. row'[f] = upload[u].mark /\ \A g \in File : g # f => row'[g] = row[g]
  BY <1>1, <1>2 DEF TypeOK
<1>4. /\ upload' \in [Uploads -> Upload]
      /\ \A v \in Uploads : /\ upload'[v].admitted <= PerUpload[v]
                            /\ upload'[v].pc # "done" => upload'[v].i \in 1..PerUpload[v]
      /\ Unsaved'
      /\ MarkTrue'
  BY <1>1, <1>3, AdvanceIsNext, UploadMovesOn
<1>5. TypeOK'
  <2>1. row' \in [File -> Record]
    BY <1>1, <1>2 DEF TypeOK, Record
  <2> QED
    BY <1>1, <1>4, <2>1 DEF TypeOK
<1>6. (IsFiniteSet(Writing) /\ SlotsBalance)'
  BY <1>1, SlotsFrame DEF IInv
<1>7. (RecordTrue /\ StoredKept)'
  BY <1>1, <1>2, <1>3 DEF IInv, RecordTrue, StoredKept
<1>8. DeletionTrue'
  <2>1. deletion.indexed \subseteq File
    BY <1>1 DEF TypeOK, Deletion
  <2> QED
    BY <1>1, <1>2, <1>3, <2>1 DEF IInv, DeletionTrue
<1> QED
  BY <1>4, <1>5, <1>6, <1>7, <1>8 DEF IInv

\* A save given up, by its own timeout or by that of the whole upload, can leave
\* behind what the upload knows of the file and nothing else.
LEMMA GivenUpStep ==
    ASSUME IInv, NEW u \in Uploads, upload[u].pc \in {"extract", "store", "save"},
           NEW next \in Upload, next.pc \in {"extract", "done"}, next.mark = "plain",
           next.admitted = upload[u].admitted,
           next.pc = "extract" => next.i = upload[u].i + 1 /\ next.i <= PerUpload[u],
           upload' = [upload EXCEPT ![u] = next],
           NEW pending \in {"none", "plain", "indexed"},
           pending # "none" => upload[u].pc = "save" /\ pending = upload[u].mark,
           late' = [late EXCEPT ![Current(u)] = pending],
           UNCHANGED <<writer, attempt, slots, collection, disk, row, deletion>>
    PROVE  IInv'
<1> DEFINE f == Current(u)
<1>1. TypeOK
  BY DEF IInv
<1>2. /\ f \in File /\ row[f] = "none"
      /\ pending = "indexed" => writer[f] = "stored"
  BY CurrentIsUnsaved
<1>3. late'[f] = pending /\ \A g \in File : g # f => late'[g] = late[g]
  BY <1>1, <1>2 DEF TypeOK
<1>4. /\ upload' \in [Uploads -> Upload]
      /\ \A v \in Uploads : /\ upload'[v].admitted <= PerUpload[v]
                            /\ upload'[v].pc # "done" => upload'[v].i \in 1..PerUpload[v]
      /\ Unsaved'
      /\ MarkTrue'
  BY <1>3, UploadMovesOn
<1>5. TypeOK'
  <2>1. late' \in [File -> {"none", "plain", "indexed"}]
    BY <1>1, <1>2 DEF TypeOK
  <2> QED
    BY <1>1, <1>4, <2>1 DEF TypeOK
<1>6. (IsFiniteSet(Writing) /\ SlotsBalance)'
  BY SlotsFrame DEF IInv
<1>7. (RecordTrue /\ StoredKept /\ DeletionTrue)'
  BY <1>2, <1>3 DEF IInv, RecordTrue, StoredKept, DeletionTrue
<1> QED
  BY <1>4, <1>5, <1>6, <1>7 DEF IInv

LEMMA SaveTimesOutStep ==
    ASSUME IInv, NEW u \in Uploads, SaveTimesOut(u)
    PROVE  IInv'
<1>1. TypeOK /\ upload[u].pc = "save" /\ upload[u].mark \in {"plain", "indexed"}
  BY CurrentIsUnsaved DEF IInv, SaveTimesOut
<1>2. PICK pending \in {"none", upload[u].mark} :
        late' = [late EXCEPT ![Current(u)] = pending]
  BY DEF SaveTimesOut
<1>3. /\ upload' = [upload EXCEPT ![u] = Advance(u)]
      /\ UNCHANGED <<writer, attempt, slots, collection, disk, row, deletion>>
  BY DEF SaveTimesOut
<1>4. pending \in {"none", "plain", "indexed"}
      /\ pending # "none" => pending = upload[u].mark
  BY <1>1, <1>2
<1> QED
  BY <1>1, <1>2, <1>3, <1>4, AdvanceIsNext, GivenUpStep

LEMMA CancelStep ==
    ASSUME IInv, NEW u \in Uploads, Cancel(u)
    PROVE  IInv'
<1> DEFINE ended == [upload[u] EXCEPT !.pc = "done", !.mark = "plain"]
<1>1. /\ TypeOK /\ upload[u].pc \in {"extract", "store", "save"}
      /\ UNCHANGED <<writer, attempt, slots, collection, disk, row, deletion>>
  BY DEF IInv, Cancel
<1>2. upload[u].mark \in {"plain", "indexed"}
  BY <1>1, CurrentIsUnsaved
<1>3. PICK pending \in {"none"} \cup (IF upload[u].pc = "save" THEN {upload[u].mark} ELSE {}) :
        late' = [late EXCEPT ![Current(u)] = pending]
  BY DEF Cancel
<1>4. /\ pending \in {"none", "plain", "indexed"}
      /\ pending # "none" => upload[u].pc = "save" /\ pending = upload[u].mark
  BY <1>2, <1>3
<1>5. /\ ended \in Upload /\ ended.pc = "done" /\ ended.mark = "plain"
      /\ ended.admitted = upload[u].admitted
  BY <1>1 DEF TypeOK, Upload
<1>6. upload' = [upload EXCEPT ![u] = ended]
  BY <1>1 DEF Cancel, TypeOK
<1> HIDE DEF ended
<1> QED
  BY <1>1, <1>3, <1>4, <1>5, <1>6, GivenUpStep

-----------------------------------------------------------------------------
(* The pool threads *)

\* What a pool thread that is not done with its file may do without the upload,
\* its record or the deletion noticing.
LEMMA WriterFrame ==
    ASSUME IInv, NEW f \in File, writer[f] \in {"waiting", "writing"},
           NEW to \in {"waiting", "writing", "stored", "failed"},
           writer' = [writer EXCEPT ![f] = to],
           UNCHANGED <<upload, row, late, deletion>>
    PROVE  /\ writer' \in [File -> {"none", "waiting", "writing", "stored", "failed"}]
           /\ \A g \in File : g # f => writer'[g] = writer[g]
           /\ writer'[f] = to
           /\ Unsaved' /\ MarkTrue' /\ RecordTrue' /\ DeletionTrue'
<1>1. TypeOK
  BY DEF IInv
<1>2. writer' \in [File -> {"none", "waiting", "writing", "stored", "failed"}]
      /\ writer'[f] = to /\ \A g \in File : g # f => writer'[g] = writer[g]
  BY <1>1 DEF TypeOK
<1>3. Unsaved'
  <2> SUFFICES ASSUME NEW u \in Uploads, upload[u].pc # "done",
                      NEW j \in upload[u].i..PerUpload[u]
               PROVE  /\ row[<<u, j>>] = "none" /\ late[<<u, j>>] = "none"
                      /\ (j # upload[u].i \/ upload[u].pc \in {"idle", "extract"})
                           => writer'[<<u, j>>] = "none"
    BY DEF Unsaved
  <2>1. <<u, j>> \in File
    BY <1>1, Places, ThreadFilesAssumption DEF TypeOK
  <2> QED
    BY <1>2, <2>1 DEF IInv, Unsaved
<1>4. MarkTrue'
  <2> SUFFICES ASSUME NEW u \in Uploads, upload[u].pc = "save", upload[u].mark = "indexed"
               PROVE  writer'[Current(u)] = "stored"
    BY DEF IInv, MarkTrue, Current
  <2>1. Current(u) \in File /\ writer[Current(u)] = "stored"
    BY <1>1, CurrentIsFile DEF IInv, MarkTrue
  <2> QED
    BY <1>2, <2>1
<1>5. RecordTrue' /\ DeletionTrue'
  BY <1>2 DEF IInv, RecordTrue, DeletionTrue
<1> QED
  BY <1>2, <1>3, <1>4, <1>5

LEMMA AcquireStep ==
    ASSUME IInv, NEW f \in File, Acquire(f)
    PROVE  IInv'
<1>1. /\ TypeOK /\ writer[f] = "waiting" /\ writer' = [writer EXCEPT ![f] = "writing"]
      /\ slots > 0 /\ slots' = slots - 1 /\ attempt' = [attempt EXCEPT ![f] = 1]
      /\ UNCHANGED <<upload, collection, disk, row, late, deletion>>
  BY DEF IInv, Acquire
<1>2. /\ writer' \in [File -> {"none", "waiting", "writing", "stored", "failed"}]
      /\ \A g \in File : g # f => writer'[g] = writer[g]
      /\ writer'[f] = "writing"
      /\ Unsaved' /\ MarkTrue' /\ RecordTrue' /\ DeletionTrue'
  BY <1>1, WriterFrame
<1>3. IsFiniteSet(Writing') /\ SlotsBalance' /\ slots' \in 0..Writers
  BY <1>1, SlotTaken DEF IInv
<1>4. TypeOK'
  <2>1. attempt' \in [File -> 0..MaxAttempts]
    BY <1>1, ThreadFilesAssumption DEF TypeOK
  <2> QED
    BY <1>1, <1>2, <1>3, <2>1 DEF TypeOK
<1>5. StoredKept'
  BY <1>1, <1>2 DEF IInv, StoredKept
<1> QED
  BY <1>2, <1>3, <1>4, <1>5 DEF IInv

LEMMA NoSlotStep ==
    ASSUME IInv, NEW f \in File, NoSlot(f)
    PROVE  IInv'
<1>1. /\ TypeOK /\ writer[f] = "waiting" /\ writer' = [writer EXCEPT ![f] = "failed"]
      /\ UNCHANGED <<upload, attempt, slots, collection, disk, row, late, deletion>>
  BY DEF IInv, NoSlot
<1>2. /\ writer' \in [File -> {"none", "waiting", "writing", "stored", "failed"}]
      /\ \A g \in File : g # f => writer'[g] = writer[g]
      /\ writer'[f] = "failed"
      /\ Unsaved' /\ MarkTrue' /\ RecordTrue' /\ DeletionTrue'
  BY <1>1, WriterFrame
<1>3. IsFiniteSet(Writing') /\ SlotsBalance'
  BY <1>1, <1>2, SlotsFrame DEF IInv
<1>4. TypeOK'
  BY <1>1, <1>2 DEF TypeOK
<1>5. StoredKept'
  BY <1>1, <1>2 DEF IInv, StoredKept
<1> QED
  BY <1>2, <1>3, <1>4, <1>5 DEF IInv

LEMMA WriteSucceedsStep ==
    ASSUME IInv, NEW f \in File, WriteSucceeds(f)
    PROVE  IInv'
<1>1. /\ TypeOK /\ writer[f] = "writing" /\ writer' = [writer EXCEPT ![f] = "stored"]
      /\ slots' = slots + 1 /\ attempt' = [attempt EXCEPT ![f] = 0]
      /\ UNCHANGED <<upload, disk, row, late, deletion>>
  BY DEF IInv, WriteSucceeds
<1>2. /\ writer' \in [File -> {"none", "waiting", "writing", "stored", "failed"}]
      /\ \A g \in File : g # f => writer'[g] = writer[g]
      /\ writer'[f] = "stored"
      /\ Unsaved' /\ MarkTrue' /\ DeletionTrue'
      /\ RecordTrue'
  BY <1>1, WriterFrame
<1>3. IsFiniteSet(Writing') /\ SlotsBalance' /\ slots' \in 0..Writers
  BY <1>1, SlotReturned DEF IInv
<1>4. PICK content \in {"whole", "doubled"} : collection' = [collection EXCEPT ![f] = content]
  BY DEF WriteSucceeds
<1>5. TypeOK'
  <2>1. attempt' \in [File -> 0..MaxAttempts]
    BY <1>1, ThreadFilesAssumption DEF TypeOK
  <2>2. collection' \in [File -> {"none", "partial", "whole", "doubled"}]
    BY <1>1, <1>4 DEF TypeOK
  <2> QED
    BY <1>1, <1>2, <1>3, <2>1, <2>2 DEF TypeOK
<1>6. StoredKept'
  <2>1. collection'[f] = content /\ \A g \in File : g # f => collection'[g] = collection[g]
    BY <1>1, <1>4 DEF TypeOK
  <2> QED
    BY <1>1, <1>2, <2>1 DEF IInv, StoredKept
<1> QED
  BY <1>2, <1>3, <1>5, <1>6 DEF IInv

LEMMA WriteFailsStep ==
    ASSUME IInv, NEW f \in File, WriteFails(f)
    PROVE  IInv'
<1>1. /\ TypeOK /\ writer[f] = "writing"
      /\ UNCHANGED <<upload, disk, row, late, deletion>>
  BY DEF IInv, WriteFails
<1>2. /\ collection' \in [File -> {"none", "partial", "whole", "doubled"}]
      /\ \A g \in File : g # f => collection'[g] = collection[g]
  <2>1. PICK after \in Before(f) \cup {"partial"} :
          collection' = [collection EXCEPT ![f] = after]
    BY DEF WriteFails
  <2>2. after \in {"none", "partial", "whole", "doubled"}
    BY <1>1, <2>1 DEF Before, TypeOK
  <2> QED
    BY <1>1, <2>1, <2>2 DEF TypeOK
<1>3. CASE LastAttempt(f)
  <2>1. /\ writer' = [writer EXCEPT ![f] = "failed"]
        /\ attempt' = [attempt EXCEPT ![f] = 0]
        /\ slots' = slots + 1
    BY <1>3 DEF WriteFails
  <2>2. /\ writer' \in [File -> {"none", "waiting", "writing", "stored", "failed"}]
        /\ \A g \in File : g # f => writer'[g] = writer[g]
        /\ writer'[f] = "failed"
        /\ Unsaved' /\ MarkTrue' /\ RecordTrue' /\ DeletionTrue'
    BY <1>1, <2>1, WriterFrame
  <2>3. IsFiniteSet(Writing') /\ SlotsBalance' /\ slots' \in 0..Writers
    BY <1>1, <2>1, SlotReturned DEF IInv
  <2>4. TypeOK'
    <3>1. attempt' \in [File -> 0..MaxAttempts]
      BY <1>1, <2>1, ThreadFilesAssumption DEF TypeOK
    <3> QED
      BY <1>1, <1>2, <2>2, <2>3, <3>1 DEF TypeOK
  <2>5. StoredKept'
    BY <1>1, <1>2, <2>2 DEF IInv, StoredKept
  <2> QED
    BY <2>2, <2>3, <2>4, <2>5 DEF IInv
<1>4. CASE ~LastAttempt(f)
  <2>1. attempt' = [attempt EXCEPT ![f] = @ + 1] /\ UNCHANGED <<writer, slots>>
    BY <1>4 DEF WriteFails
  <2>2. attempt' \in [File -> 0..MaxAttempts]
    <3>1. attempt[f] \in 0..MaxAttempts /\ ~(attempt[f] >= MaxAttempts) /\ MaxAttempts \in Nat
      BY <1>1, <1>4, ThreadFilesAssumption DEF TypeOK, LastAttempt
    <3>2. attempt[f] + 1 \in 0..MaxAttempts
      BY <3>1
    <3> QED
      BY <1>1, <2>1, <3>2 DEF TypeOK
  <2>3. TypeOK'
    BY <1>1, <1>2, <2>1, <2>2 DEF TypeOK
  <2>4. StoredKept'
    BY <1>1, <1>2, <2>1 DEF IInv, StoredKept
  <2>5. (IsFiniteSet(Writing) /\ SlotsBalance /\ Unsaved /\ MarkTrue /\ RecordTrue /\ DeletionTrue)'
    BY <1>1, <2>1
       DEF IInv, Writing, SlotsBalance, Unsaved, MarkTrue, Current, RecordTrue, DeletionTrue
  <2> QED
    BY <2>3, <2>4, <2>5 DEF IInv
<1> QED
  BY <1>3, <1>4

\* A save nobody awaits any more records what it knew when it was given up, which
\* is still so.
LEMMA LateSaveStep ==
    ASSUME IInv, NEW f \in File, LateSave(f)
    PROVE  IInv'
<1>1. /\ TypeOK /\ late[f] # "none"
      /\ late' = [late EXCEPT ![f] = "none"]
      /\ UNCHANGED <<upload, writer, attempt, slots, collection, disk, deletion>>
  BY DEF IInv, LateSave
<1>2. /\ row[f] = "none" /\ late[f] \in {"plain", "indexed"}
      /\ late[f] = "indexed" => writer[f] = "stored"
  BY <1>1 DEF IInv, TypeOK, RecordTrue
<1>3. /\ late'[f] = "none" /\ \A g \in File : g # f => late'[g] = late[g]
      /\ late' \in [File -> {"none", "plain", "indexed"}]
  BY <1>1 DEF TypeOK
<1>4. /\ row'[f] \in {"none", late[f]} /\ \A g \in File : g # f => row'[g] = row[g]
      /\ row' \in [File -> Record]
  BY <1>1, <1>2 DEF LateSave, TypeOK, Record
<1>5. TypeOK'
  BY <1>1, <1>3, <1>4 DEF TypeOK
<1>6. (IsFiniteSet(Writing) /\ SlotsBalance)'
  BY <1>1, SlotsFrame DEF IInv
<1>7. Unsaved'
  <2> SUFFICES ASSUME NEW u \in Uploads, upload[u].pc # "done",
                      NEW j \in upload[u].i..PerUpload[u]
               PROVE  row'[<<u, j>>] = "none" /\ late'[<<u, j>>] = "none"
    BY <1>1 DEF IInv, Unsaved
  <2>1. <<u, j>> \in File
    BY <1>1, Places, ThreadFilesAssumption DEF TypeOK
  <2>2. <<u, j>> # f
    BY <1>1 DEF IInv, Unsaved
  <2> QED
    BY <1>3, <1>4, <2>1, <2>2 DEF IInv, Unsaved
<1>8. MarkTrue'
  BY <1>1 DEF IInv, MarkTrue, Current
<1>9. (RecordTrue /\ StoredKept)'
  BY <1>1, <1>2, <1>3, <1>4 DEF IInv, RecordTrue, StoredKept
<1>10. DeletionTrue'
  <2>1. deletion.indexed \subseteq File
    BY <1>1 DEF TypeOK, Deletion
  <2> QED
    BY <1>1, <1>2, <1>4, <2>1 DEF IInv, DeletionTrue
<1> QED
  BY <1>5, <1>6, <1>7, <1>8, <1>9, <1>10 DEF IInv

-----------------------------------------------------------------------------
(* The deletion *)

LEMMA DeleteLoadStep == ASSUME IInv, DeleteLoad PROVE IInv'
<1>1. /\ TypeOK /\ deletion' = [pc |-> "loaded", indexed |-> Indexed]
      /\ UNCHANGED <<upload, writer, attempt, slots, collection, disk, row, late>>
  BY DEF IInv, DeleteLoad
<1>2. Recorded \subseteq File /\ Indexed \subseteq File
  BY DEF Recorded, Indexed
<1>3. TypeOK'
  <2>1. deletion' \in Deletion
    BY <1>1, <1>2 DEF Deletion
  <2> QED
    BY <1>1, <2>1 DEF TypeOK
<1>4. DeletionTrue'
  BY <1>1 DEF DeletionTrue, Indexed
<1>5. (IsFiniteSet(Writing) /\ SlotsBalance /\ Unsaved /\ MarkTrue /\ RecordTrue /\ StoredKept)'
  BY <1>1 DEF IInv, Writing, SlotsBalance, Unsaved, MarkTrue, Current, RecordTrue, StoredKept
<1> QED
  BY <1>3, <1>4, <1>5 DEF IInv

LEMMA DeleteRowsStep == ASSUME IInv, DeleteRows PROVE IInv'
<1>1. /\ TypeOK /\ deletion.pc = "loaded"
      /\ row' = [f \in File |-> IF row[f] = "none" THEN "none" ELSE "deleted"]
      /\ deletion' = [deletion EXCEPT !.pc = "unrecorded"]
      /\ UNCHANGED <<upload, writer, attempt, slots, collection, disk, late>>
  BY DEF IInv, DeleteRows
<1>2. /\ deletion' \in Deletion /\ deletion'.pc = "unrecorded"
      /\ deletion'.indexed = deletion.indexed /\ deletion.indexed \subseteq File
  BY <1>1 DEF TypeOK, Deletion
<1>3. TypeOK'
  <2>1. row' \in [File -> Record]
    BY <1>1 DEF Record
  <2> QED
    BY <1>1, <1>2, <2>1 DEF TypeOK
<1>4. (IsFiniteSet(Writing) /\ SlotsBalance /\ MarkTrue)'
  BY <1>1 DEF IInv, Writing, SlotsBalance, MarkTrue, Current
<1>5. Unsaved'
  <2> SUFFICES ASSUME NEW u \in Uploads, upload[u].pc # "done",
                      NEW j \in upload[u].i..PerUpload[u]
               PROVE  row'[<<u, j>>] = "none"
    BY <1>1 DEF IInv, Unsaved
  <2>1. <<u, j>> \in File
    BY <1>1, Places, ThreadFilesAssumption DEF TypeOK
  <2> QED
    BY <1>1, <2>1 DEF IInv, Unsaved
<1>6. (RecordTrue /\ StoredKept)'
  BY <1>1 DEF IInv, RecordTrue, StoredKept
<1>7. DeletionTrue'
  BY <1>1, <1>2 DEF IInv, DeletionTrue
<1> QED
  BY <1>3, <1>4, <1>5, <1>6, <1>7 DEF IInv

\* Only the collections of deleted records are dropped.
LEMMA DeleteCollectionsStep == ASSUME IInv, DeleteCollections PROVE IInv'
<1>1. /\ TypeOK /\ deletion.pc = "unrecorded"
      /\ UNCHANGED <<upload, writer, attempt, slots, disk, row, late>>
  BY DEF IInv, DeleteCollections
<1>2. PICK failed \in SUBSET deletion.indexed :
        /\ collection' = [f \in File |-> IF f \in deletion.indexed \ failed
                                         THEN "none" ELSE collection[f]]
        /\ deletion' = [deletion EXCEPT !.pc = "uncollected"]
  BY DEF DeleteCollections
<1>3. deletion' \in Deletion /\ deletion'.pc = "uncollected"
  BY <1>1, <1>2 DEF TypeOK, Deletion
<1>4. TypeOK'
  <2>1. collection' \in [File -> {"none", "partial", "whole", "doubled"}]
    BY <1>1, <1>2 DEF TypeOK
  <2> QED
    BY <1>1, <1>3, <2>1 DEF TypeOK
<1>5. (IsFiniteSet(Writing) /\ SlotsBalance /\ Unsaved /\ MarkTrue /\ RecordTrue)'
  BY <1>1 DEF IInv, Writing, SlotsBalance, Unsaved, MarkTrue, Current, RecordTrue
<1>6. StoredKept'
  BY <1>1, <1>2 DEF IInv, StoredKept, DeletionTrue
<1>7. DeletionTrue'
  BY <1>3 DEF DeletionTrue
<1> QED
  BY <1>4, <1>5, <1>6, <1>7 DEF IInv

LEMMA DeleteDirectoryStep == ASSUME IInv, DeleteDirectory PROVE IInv'
<1>1. /\ TypeOK /\ UNCHANGED <<upload, writer, attempt, slots, collection, row, late>>
  BY DEF IInv, DeleteDirectory
<1>2. /\ deletion' \in Deletion /\ deletion'.pc = "done"
      /\ disk' \in [File -> BOOLEAN]
  BY <1>1 DEF DeleteDirectory, TypeOK, Deletion
<1>3. TypeOK'
  BY <1>1, <1>2 DEF TypeOK
<1>4. (IsFiniteSet(Writing) /\ SlotsBalance /\ Unsaved /\ MarkTrue /\ RecordTrue /\ StoredKept)'
  BY <1>1 DEF IInv, Writing, SlotsBalance, Unsaved, MarkTrue, Current, RecordTrue, StoredKept
<1>5. DeletionTrue'
  BY <1>2 DEF DeletionTrue
<1> QED
  BY <1>3, <1>4, <1>5 DEF IInv

-----------------------------------------------------------------------------
LEMMA IInvStep == IInv /\ [Next]_vars => IInv'
<1> SUFFICES ASSUME IInv, [Next]_vars PROVE IInv'
  OBVIOUS
<1>1. ASSUME NEW u \in Uploads, Admit(u) \/ UploadStep(u) \/ Cancel(u) PROVE IInv'
  BY <1>1, AdmitStep, ExtractStep, AwaitStoreStep, SaveStep, SaveTimesOutStep, CancelStep
     DEF UploadStep
<1>2. ASSUME NEW f \in File, WriterStep(f) PROVE IInv'
  BY <1>2, AcquireStep, NoSlotStep, WriteSucceedsStep, WriteFailsStep, LateSaveStep
     DEF WriterStep
<1>3. CASE DeleteLoad \/ DeleteRows \/ DeleteCollections \/ DeleteDirectory
  BY <1>3, DeleteLoadStep, DeleteRowsStep, DeleteCollectionsStep, DeleteDirectoryStep
<1>4. CASE UNCHANGED vars
  BY <1>4 DEF vars, IInv, TypeOK, Writing, SlotsBalance, Unsaved, MarkTrue, Current,
              RecordTrue, StoredKept, DeletionTrue
<1> QED
  BY <1>1, <1>2, <1>3, <1>4 DEF Next

\* The inductive invariant of uploads and deletions.
THEOREM Inductive == Spec => []IInv
<1> QED
  BY IInvInit, IInvStep, PTL DEF Spec

\* Uploads, pool threads, records and the deletion keep their types.
THEOREM TypeCorrect == Spec => []TypeOK
<1>1. IInv => TypeOK
  BY DEF IInv
<1> QED
  BY <1>1, Inductive, PTL

\* The write semaphore is neither leaked nor released without having been acquired,
\* however many writes time out, fail or are abandoned.
THEOREM SlotsAreBalanced == Spec => []SlotsBalance
<1>1. IInv => SlotsBalance
  BY DEF IInv
<1> QED
  BY <1>1, Inductive, PTL

\* A record names a collection only if that holds all of its file.
THEOREM RecordsAreTrue == Spec => []RecordedCollectionIsWhole
<1>1. IInv => RecordedCollectionIsWhole
  BY DEF IInv, RecordTrue, StoredKept, RecordedCollectionIsWhole, Restored, Indexed
<1> QED
  BY <1>1, Inductive, PTL

\* No save, awaited or late, puts a deleted file back on record.
THEOREM DeletionIsFinal == Spec => DeletedStaysDeleted
<1>1. IInv /\ [Next]_vars => \A f \in File : row[f] = "deleted" => row'[f] = "deleted"
  <2> SUFFICES ASSUME IInv, [Next]_vars, NEW f \in File, row[f] = "deleted"
               PROVE  row'[f] = "deleted"
    OBVIOUS
  <2>1. TypeOK
    BY DEF IInv
  <2>2. ASSUME NEW u \in Uploads, Save(u) PROVE row'[f] = "deleted"
    <3>1. Current(u) # f
      BY <2>2, CurrentIsUnsaved DEF Save
    <3> QED
      BY <2>1, <2>2, <3>1 DEF Save, TypeOK
  <2>3. ASSUME NEW g \in File, LateSave(g) PROVE row'[f] = "deleted"
    <3>1. g # f
      BY <2>3 DEF LateSave, IInv, RecordTrue
    <3> QED
      BY <2>1, <2>3, <3>1 DEF LateSave, TypeOK
  <2>4. CASE DeleteRows
    BY <2>4 DEF DeleteRows
  <2>5. CASE UNCHANGED row
    BY <2>5
  <2>6. ASSUME NEW u \in Uploads, Admit(u) \/ Extract(u) \/ AwaitStore(u) \/ SaveTimesOut(u) \/ Cancel(u)
        PROVE  UNCHANGED row
    BY <2>6 DEF Admit, Extract, AwaitStore, SaveTimesOut, Cancel
  <2>7. ASSUME NEW g \in File, Acquire(g) \/ NoSlot(g) \/ WriteSucceeds(g) \/ WriteFails(g)
        PROVE  UNCHANGED row
    BY <2>7 DEF Acquire, NoSlot, WriteSucceeds, WriteFails
  <2>8. DeleteLoad \/ DeleteCollections \/ DeleteDirectory \/ UNCHANGED vars => UNCHANGED row
    BY DEF DeleteLoad, DeleteCollections, DeleteDirectory, vars
  <2> QED
    BY <2>2, <2>3, <2>4, <2>5, <2>6, <2>7, <2>8 DEF Next, UploadStep, WriterStep
<1>2. IInv /\ [Next]_vars => [\A f \in File : row[f] = "deleted" => row'[f] = "deleted"]_vars
  BY <1>1
<1> QED
  BY <1>2, Inductive, PTL DEF Spec, DeletedStaysDeleted
-----------------------------------------------------------------------------
(* How long an upload and its pool threads take *)

\* The most steps that are left of an upload q of n files: three for each.
StepsLeft(q, n) ==
    CASE q.pc = "idle" -> 3 * n + 1
      [] q.pc = "extract" -> 3 * (q.admitted - q.i) + 3
      [] q.pc = "store" -> 3 * (q.admitted - q.i) + 2
      [] q.pc = "save" -> 3 * (q.admitted - q.i) + 1
      [] q.pc = "done" -> 0

UploadLeft(u) == StepsLeft(upload[u], PerUpload[u])

\* Of a pool thread: it waits for a slot once and has its attempts.
WriterLeft(f) ==
    CASE writer[f] = "none" -> MaxAttempts + 2
      [] writer[f] = "waiting" -> MaxAttempts + 1
      [] writer[f] = "writing" -> MaxAttempts + 1 - attempt[f]
      [] OTHER -> 0

\* An upload comes nearer to its end with each of its steps, the timeouts among
\* them, and a pool thread with each of its own: neither is ever thrown back, and
\* a file that had its thread gets no other.
UploadsAdvance ==
    /\ \A u \in Uploads :
          /\ Admit(u) \/ UploadStep(u) \/ Cancel(u) => UploadLeft(u)' < UploadLeft(u)
          /\ UploadLeft(u)' < UploadLeft(u) \/ UploadLeft(u)' = UploadLeft(u)
    /\ \A f \in File :
          /\ Acquire(f) \/ NoSlot(f) \/ WriteSucceeds(f) \/ WriteFails(f)
               => WriterLeft(f)' < WriterLeft(f)
          /\ WriterLeft(f)' < WriterLeft(f) \/ WriterLeft(f)' = WriterLeft(f)

\* An upload is at one of the files that were let in.
AtItsFiles(q) ==
    /\ q.pc = "idle" => q.i = 1
    /\ q.pc \in {"extract", "store", "save"} => q.i <= q.admitted

AllAtTheirFiles == \A u \in Uploads : AtItsFiles(upload[u])

\* A step of upload u brings it nearer to its end.
Nearer(u) ==
    \E q \in Upload : /\ upload' = [upload EXCEPT ![u] = q] /\ AtItsFiles(q)
                      /\ StepsLeft(q, PerUpload[u]) < UploadLeft(u)

LEMMA UploadNumbers ==
    ASSUME TypeOK, NEW u \in Uploads
    PROVE  /\ upload[u] \in Upload /\ upload[u].i \in Nat /\ upload[u].admitted \in Nat
           /\ PerUpload[u] \in Nat /\ upload[u].admitted <= PerUpload[u]
           /\ upload[u].pc \in {"idle", "extract", "store", "save", "done"}
  BY ThreadFilesAssumption DEF TypeOK, Upload

\* The number of steps, stage by stage.
LEMMA StepsByStage ==
    ASSUME NEW q, NEW n
    PROVE  /\ q.pc = "idle" => StepsLeft(q, n) = 3 * n + 1
           /\ q.pc = "extract" => StepsLeft(q, n) = 3 * (q.admitted - q.i) + 3
           /\ q.pc = "store" => StepsLeft(q, n) = 3 * (q.admitted - q.i) + 2
           /\ q.pc = "save" => StepsLeft(q, n) = 3 * (q.admitted - q.i) + 1
           /\ q.pc = "done" => StepsLeft(q, n) = 0
  BY DEF StepsLeft

\* Two uploads that differ in their stage only.
LEMMA NextStage ==
    ASSUME TypeOK, NEW u \in Uploads, AtItsFiles(upload[u]), NEW q \in Upload,
           q.i = upload[u].i, q.admitted = upload[u].admitted,
           \/ upload[u].pc = "extract" /\ q.pc \in {"store", "save", "done"}
           \/ upload[u].pc = "store" /\ q.pc \in {"save", "done"}
           \/ upload[u].pc = "save" /\ q.pc = "done"
    PROVE  AtItsFiles(q) /\ StepsLeft(q, PerUpload[u]) < UploadLeft(u)
<1> DEFINE m == upload[u].admitted - upload[u].i
<1>1. AtItsFiles(q) /\ m \in Nat
  BY UploadNumbers DEF AtItsFiles
<1>2. /\ upload[u].pc = "extract" => UploadLeft(u) = 3 * m + 3
      /\ upload[u].pc = "store" => UploadLeft(u) = 3 * m + 2
      /\ upload[u].pc = "save" => UploadLeft(u) = 3 * m + 1
      /\ q.pc = "store" => StepsLeft(q, PerUpload[u]) = 3 * m + 2
      /\ q.pc = "save" => StepsLeft(q, PerUpload[u]) = 3 * m + 1
      /\ q.pc = "done" => StepsLeft(q, PerUpload[u]) = 0
  BY StepsByStage DEF UploadLeft
<1> HIDE DEF m
<1> QED
  BY <1>1, <1>2

LEMMA AdmitAdvances ==
    ASSUME TypeOK, NEW u \in Uploads, AtItsFiles(upload[u]), Admit(u)
    PROVE  Nearer(u)
<1>1. PICK n \in 0..PerUpload[u] :
        upload' = [upload EXCEPT ![u] =
                     [@ EXCEPT !.pc = IF n = 0 THEN "done" ELSE "extract", !.admitted = n]]
  BY DEF Admit
<1> DEFINE q == [upload[u] EXCEPT !.pc = IF n = 0 THEN "done" ELSE "extract", !.admitted = n]
<1>2. n \in Nat /\ n <= PerUpload[u] /\ PerUpload[u] \in Nat
  BY UploadNumbers
<1>3. /\ q \in Upload /\ q.i = 1 /\ q.admitted = n
      /\ q.pc = IF n = 0 THEN "done" ELSE "extract"
  BY <1>2, UploadNumbers DEF Admit, AtItsFiles, Upload
<1>4. upload' = [upload EXCEPT ![u] = q] /\ upload[u].pc = "idle"
  BY <1>1 DEF Admit
<1> HIDE DEF q
<1>5. UploadLeft(u) = 3 * PerUpload[u] + 1
  BY <1>4, StepsByStage DEF UploadLeft
<1>6. StepsLeft(q, PerUpload[u]) < UploadLeft(u) /\ AtItsFiles(q)
  <2>1. CASE n = 0
    BY <1>2, <1>3, <1>5, <2>1, StepsByStage DEF AtItsFiles
  <2>2. CASE n # 0
    <3>1. StepsLeft(q, PerUpload[u]) = 3 * (n - 1) + 3
      BY <1>3, <2>2, StepsByStage
    <3> QED
      BY <1>2, <1>3, <1>5, <2>2, <3>1 DEF AtItsFiles
  <2> QED
    BY <2>1, <2>2
<1> QED
  BY <1>3, <1>4, <1>6 DEF Nearer

\* With the file an upload goes to next.
LEMMA NextFile ==
    ASSUME TypeOK, NEW u \in Uploads, AtItsFiles(upload[u]), upload[u].pc = "save",
           upload' = [upload EXCEPT ![u] = Advance(u)]
    PROVE  Nearer(u)
<1> DEFINE q == Advance(u)
<1>1. q \in Upload /\ q.admitted = upload[u].admitted
  BY AdvanceIsNext
<1>2. q.i = upload[u].i + 1 /\ q.pc = IF upload[u].i < upload[u].admitted THEN "extract" ELSE "done"
  <2>1. upload[u] \in Upload
    BY UploadNumbers
  <2> QED
    BY <2>1 DEF Upload, Advance
<1> HIDE DEF q
<1>3. UploadLeft(u) = 3 * (upload[u].admitted - upload[u].i) + 1
  BY StepsByStage DEF UploadLeft
<1>4. upload[u].i <= upload[u].admitted /\ upload[u].i \in Nat /\ upload[u].admitted \in Nat
  BY UploadNumbers DEF AtItsFiles
<1>5. StepsLeft(q, PerUpload[u]) < UploadLeft(u) /\ AtItsFiles(q)
  <2>1. CASE upload[u].i < upload[u].admitted
    <3>1. StepsLeft(q, PerUpload[u]) = 3 * (upload[u].admitted - (upload[u].i + 1)) + 3
      BY <1>1, <1>2, <2>1, StepsByStage
    <3> QED
      BY <1>1, <1>2, <1>3, <1>4, <2>1, <3>1 DEF AtItsFiles
  <2>2. CASE ~(upload[u].i < upload[u].admitted)
    BY <1>1, <1>2, <1>3, <1>4, <2>2, StepsByStage DEF AtItsFiles
  <2> QED
    BY <2>1, <2>2
<1>6. upload' = [upload EXCEPT ![u] = q]
  BY DEF q
<1> QED
  BY <1>1, <1>5, <1>6 DEF Nearer

LEMMA StageAdvances ==
    ASSUME TypeOK, NEW u \in Uploads, AtItsFiles(upload[u]), Extract(u) \/ AwaitStore(u) \/ Cancel(u)
    PROVE  Nearer(u)
<1>1. PICK p \in {"store", "save", "done"}, mark \in {"plain", "indexed"} :
        /\ upload' = [upload EXCEPT ![u] = [upload[u] EXCEPT !.pc = p, !.mark = mark]]
        /\ \/ upload[u].pc = "extract" /\ p \in {"store", "save", "done"}
           \/ upload[u].pc = "store" /\ p \in {"save", "done"}
           \/ upload[u].pc = "save" /\ p = "done"
  <2>1. upload[u].mark \in {"plain", "indexed"} /\ upload \in [Uploads -> Upload]
    BY UploadNumbers DEF TypeOK, Upload
  <2>2. CASE Extract(u)
    <3>1. PICK p \in {"store", "save"} : upload' = [upload EXCEPT ![u].pc = p]
      BY <2>2 DEF Extract
    <3>2. [upload[u] EXCEPT !.pc = p] = [upload[u] EXCEPT !.pc = p, !.mark = upload[u].mark]
      BY <2>1 DEF Upload
    <3>3. upload' = [upload EXCEPT ![u] = [upload[u] EXCEPT !.pc = p, !.mark = upload[u].mark]]
      BY <3>1, <3>2
    <3> QED
      BY <2>1, <2>2, <3>3 DEF Extract
  <2>3. CASE AwaitStore(u)
    BY <2>3 DEF AwaitStore
  <2>4. CASE Cancel(u)
    BY <2>4 DEF Cancel
  <2> QED
    BY <2>2, <2>3, <2>4
<1> DEFINE q == [upload[u] EXCEPT !.pc = p, !.mark = mark]
<1>2. q \in Upload /\ q.pc = p /\ q.i = upload[u].i /\ q.admitted = upload[u].admitted
  BY UploadNumbers DEF Upload
<1>3. upload' = [upload EXCEPT ![u] = q]
  BY <1>1
<1> HIDE DEF q
<1>4. AtItsFiles(q) /\ StepsLeft(q, PerUpload[u]) < UploadLeft(u)
  BY <1>1, <1>2, NextStage
<1> QED
  BY <1>2, <1>3, <1>4 DEF Nearer

LEMMA UploadAdvances ==
    ASSUME TypeOK, NEW u \in Uploads, AtItsFiles(upload[u]),
           Admit(u) \/ UploadStep(u) \/ Cancel(u)
    PROVE  Nearer(u)
<1>1. CASE Save(u) \/ SaveTimesOut(u)
  BY <1>1, NextFile DEF Save, SaveTimesOut
<1>2. CASE Admit(u) \/ Extract(u) \/ AwaitStore(u) \/ Cancel(u)
  BY <1>2, AdmitAdvances, StageAdvances
<1> QED
  BY <1>1, <1>2 DEF UploadStep

LEMMA NearerUpload ==
    ASSUME TypeOK, AllAtTheirFiles, NEW u \in Uploads, Nearer(u)
    PROVE  /\ UploadLeft(u)' < UploadLeft(u)
           /\ \A v \in Uploads : v # u => UploadLeft(v)' = UploadLeft(v)
           /\ AllAtTheirFiles'
<1>1. PICK q \in Upload : /\ upload' = [upload EXCEPT ![u] = q] /\ AtItsFiles(q)
                          /\ StepsLeft(q, PerUpload[u]) < UploadLeft(u)
  BY DEF Nearer
<1>2. upload'[u] = q /\ \A v \in Uploads : v # u => upload'[v] = upload[v]
  BY <1>1 DEF TypeOK
<1> QED
  BY <1>1, <1>2 DEF UploadLeft, AllAtTheirFiles

\* No step but an upload's own concerns it.
LEMMA OtherSteps ==
    ASSUME [Next]_vars,
           ~\E u \in Uploads : Admit(u) \/ UploadStep(u) \/ Cancel(u)
    PROVE  UNCHANGED upload
<1>1. ASSUME NEW f \in File, WriterStep(f) PROVE UNCHANGED upload
  BY <1>1 DEF WriterStep, Acquire, NoSlot, WriteSucceeds, WriteFails, LateSave
<1>2. DeleteLoad \/ DeleteRows \/ DeleteCollections \/ DeleteDirectory \/ UNCHANGED vars
        => UNCHANGED upload
  BY DEF DeleteLoad, DeleteRows, DeleteCollections, DeleteDirectory, vars
<1> QED
  BY <1>1, <1>2 DEF Next

LEMMA UploadLeftIsNumber ==
    ASSUME TypeOK, AllAtTheirFiles, NEW u \in Uploads
    PROVE  /\ UploadLeft(u) \in 0..3 * PerUpload[u] + 1
           /\ UploadLeft(u) = 0 <=> upload[u].pc = "done"
<1> DEFINE m == upload[u].admitted - upload[u].i
<1>1. upload[u].pc \in {"extract", "store", "save"} => m \in Nat /\ m < PerUpload[u]
  BY UploadNumbers DEF AllAtTheirFiles, AtItsFiles, TypeOK
<1>2. /\ upload[u].pc = "idle" => UploadLeft(u) = 3 * PerUpload[u] + 1
      /\ upload[u].pc = "extract" => UploadLeft(u) = 3 * m + 3
      /\ upload[u].pc = "store" => UploadLeft(u) = 3 * m + 2
      /\ upload[u].pc = "save" => UploadLeft(u) = 3 * m + 1
      /\ upload[u].pc = "done" => UploadLeft(u) = 0
  BY StepsByStage DEF UploadLeft
<1> HIDE DEF m
<1> QED
  BY <1>1, <1>2, UploadNumbers

\* A pool thread's state, step by step.
LEMMA WriterAdvances ==
    ASSUME TypeOK, NEW f \in File,
           Acquire(f) \/ NoSlot(f) \/ WriteSucceeds(f) \/ WriteFails(f)
    PROVE  /\ WriterLeft(f)' < WriterLeft(f)
           /\ \A g \in File : g # f => WriterLeft(g)' = WriterLeft(g)
<1>1. /\ writer \in [File -> {"none", "waiting", "writing", "stored", "failed"}]
      /\ attempt \in [File -> 0..MaxAttempts] /\ MaxAttempts \in Nat /\ MaxAttempts > 0
  BY ThreadFilesAssumption DEF TypeOK
<1>2. \A g \in File : g # f => writer'[g] = writer[g] /\ attempt'[g] = attempt[g]
  BY <1>1 DEF Acquire, NoSlot, WriteSucceeds, WriteFails
<1>3. /\ writer[f] = "waiting" => WriterLeft(f) = MaxAttempts + 1
      /\ writer[f] = "writing" => WriterLeft(f) = MaxAttempts + 1 - attempt[f]
      /\ writer'[f] = "writing" => WriterLeft(f)' = MaxAttempts + 1 - attempt'[f]
      /\ writer'[f] \in {"stored", "failed"} => WriterLeft(f)' = 0
  BY DEF WriterLeft
<1>4. attempt[f] \in Nat /\ attempt[f] <= MaxAttempts
  BY <1>1
<1>5. CASE Acquire(f)
  <2>1. writer[f] = "waiting" /\ writer'[f] = "writing" /\ attempt'[f] = 1
    BY <1>1, <1>5 DEF Acquire
  <2> QED
    BY <1>1, <1>2, <1>3, <2>1 DEF WriterLeft
<1>6. CASE NoSlot(f)
  <2>1. writer[f] = "waiting" /\ writer'[f] = "failed"
    BY <1>1, <1>6 DEF NoSlot
  <2> QED
    BY <1>1, <1>2, <1>3, <2>1 DEF WriterLeft
<1>7. CASE WriteSucceeds(f)
  <2>1. writer[f] = "writing" /\ writer'[f] = "stored"
    BY <1>1, <1>7 DEF WriteSucceeds
  <2> QED
    BY <1>1, <1>2, <1>3, <1>4, <2>1 DEF WriterLeft
<1>8. CASE WriteFails(f) /\ LastAttempt(f)
  <2>1. writer[f] = "writing" /\ writer'[f] = "failed"
    BY <1>1, <1>8 DEF WriteFails
  <2> QED
    BY <1>1, <1>2, <1>3, <1>4, <2>1 DEF WriterLeft
<1>9. CASE WriteFails(f) /\ ~LastAttempt(f)
  <2>1. writer[f] = "writing" /\ writer'[f] = "writing" /\ attempt'[f] = attempt[f] + 1
    BY <1>1, <1>9 DEF WriteFails
  <2> QED
    BY <1>1, <1>2, <1>3, <1>4, <2>1 DEF WriterLeft
<1> QED
  BY <1>5, <1>6, <1>7, <1>8, <1>9

\* An upload starts the pool thread of a file that has had none.
LEMMA ExtractStarts ==
    ASSUME IInv, NEW u \in Uploads, Extract(u), NEW f \in File
    PROVE  WriterLeft(f)' = WriterLeft(f) \/ WriterLeft(f)' < WriterLeft(f)
<1>1. CASE writer'[f] = writer[f]
  BY <1>1 DEF Extract, WriterLeft
<1>2. CASE writer'[f] # writer[f]
  <2>1. f = Current(u) /\ writer'[f] = "waiting"
    BY <1>2 DEF Extract, IInv, TypeOK
  <2>2. writer[f] = "none"
    <3>1. upload[u].pc = "extract" /\ upload[u].i \in upload[u].i..PerUpload[u]
      BY ThreadFilesAssumption DEF Extract, IInv, TypeOK
    <3> QED
      BY <2>1, <3>1 DEF IInv, Unsaved, Current
  <2>3. WriterLeft(f) = MaxAttempts + 2 /\ WriterLeft(f)' = MaxAttempts + 1
    BY <2>1, <2>2 DEF WriterLeft
  <2> QED
    BY <2>3, ThreadFilesAssumption
<1> QED
  BY <1>1, <1>2

LEMMA WriterLeftIsNumber ==
    ASSUME TypeOK, NEW f \in File
    PROVE  /\ WriterLeft(f) \in 0..MaxAttempts + 2
           /\ writer[f] = "waiting" => WriterLeft(f) = MaxAttempts + 1
           /\ writer[f] = "writing" => WriterLeft(f) > 0
<1>1. /\ writer[f] \in {"none", "waiting", "writing", "stored", "failed"}
      /\ attempt[f] \in 0..MaxAttempts /\ MaxAttempts \in Nat
  BY ThreadFilesAssumption DEF TypeOK
<1> QED
  BY <1>1 DEF WriterLeft

LEMMA AdvanceStep ==
    ASSUME IInv, AllAtTheirFiles, [Next]_vars
    PROVE  UploadsAdvance /\ AllAtTheirFiles'
<1> TypeOK
  BY DEF IInv
<1>1. ASSUME NEW u \in Uploads, Admit(u) \/ UploadStep(u) \/ Cancel(u)
      PROVE  /\ UploadLeft(u)' < UploadLeft(u) /\ AllAtTheirFiles'
             /\ \A v \in Uploads : v # u => UploadLeft(v)' = UploadLeft(v)
  BY <1>1, UploadAdvances, NearerUpload DEF AllAtTheirFiles
<1>2. ASSUME NEW u \in Uploads
      PROVE  UploadLeft(u)' < UploadLeft(u) \/ UploadLeft(u)' = UploadLeft(u)
  <2>1. ASSUME NEW v \in Uploads, Admit(v) \/ UploadStep(v) \/ Cancel(v)
        PROVE  UploadLeft(u)' < UploadLeft(u) \/ UploadLeft(u)' = UploadLeft(u)
    BY <1>1, <2>1
  <2>2. ASSUME ~\E v \in Uploads : Admit(v) \/ UploadStep(v) \/ Cancel(v)
        PROVE  UploadLeft(u)' = UploadLeft(u)
    BY <2>2, OtherSteps DEF UploadLeft
  <2> QED
    BY <2>1, <2>2
<1>3. AllAtTheirFiles'
  <2>1. ASSUME ~\E v \in Uploads : Admit(v) \/ UploadStep(v) \/ Cancel(v)
        PROVE  AllAtTheirFiles'
    BY <2>1, OtherSteps DEF AllAtTheirFiles
  <2> QED
    BY <1>1, <2>1
<1>4. ASSUME NEW f \in File
      PROVE  WriterLeft(f)' < WriterLeft(f) \/ WriterLeft(f)' = WriterLeft(f)
  <2>1. ASSUME NEW g \in File, Acquire(g) \/ NoSlot(g) \/ WriteSucceeds(g) \/ WriteFails(g)
        PROVE  WriterLeft(f)' < WriterLeft(f) \/ WriterLeft(f)' = WriterLeft(f)
    BY <2>1, WriterAdvances
  <2>2. ASSUME NEW u \in Uploads, Extract(u)
        PROVE  WriterLeft(f)' < WriterLeft(f) \/ WriterLeft(f)' = WriterLeft(f)
    BY <2>2, ExtractStarts
  <2>3. CASE UNCHANGED <<writer, attempt>>
    BY <2>3 DEF WriterLeft
  <2>4. ASSUME NEW u \in Uploads, Admit(u) \/ AwaitStore(u) \/ Save(u) \/ SaveTimesOut(u) \/ Cancel(u)
        PROVE  UNCHANGED <<writer, attempt>>
    BY <2>4 DEF Admit, AwaitStore, Save, SaveTimesOut, Cancel
  <2>5. ASSUME NEW g \in File, LateSave(g) PROVE UNCHANGED <<writer, attempt>>
    BY <2>5 DEF LateSave
  <2>6. DeleteLoad \/ DeleteRows \/ DeleteCollections \/ DeleteDirectory \/ UNCHANGED vars
          => UNCHANGED <<writer, attempt>>
    BY DEF DeleteLoad, DeleteRows, DeleteCollections, DeleteDirectory, vars
  <2> QED
    BY <2>1, <2>2, <2>3, <2>4, <2>5, <2>6 DEF Next, UploadStep, WriterStep
<1>5. \A f \in File : Acquire(f) \/ NoSlot(f) \/ WriteSucceeds(f) \/ WriteFails(f)
                        => WriterLeft(f)' < WriterLeft(f)
  BY WriterAdvances
<1> QED
  BY <1>1, <1>2, <1>3, <1>4, <1>5 DEF UploadsAdvance

LEMMA AlwaysAtTheirFiles == Spec => [](IInv /\ AllAtTheirFiles)
<1>1. Init => AllAtTheirFiles
  BY DEF Init, AllAtTheirFiles, AtItsFiles
<1>2. IInv /\ AllAtTheirFiles /\ [Next]_vars => AllAtTheirFiles'
  BY AdvanceStep
<1> QED
  BY <1>1, <1>2, IInvInit, IInvStep, PTL DEF Spec

\* Nothing that happens to a thread's files sends an upload or a pool thread back
\* (the loop of process_files, the attempts of _store_in_chromadb).
THEOREM UploadsKeepAdvancing == Spec => [][UploadsAdvance]_vars
<1>1. IInv /\ AllAtTheirFiles /\ [Next]_vars => [UploadsAdvance]_vars
  BY AdvanceStep
<1> QED
  BY <1>1, AlwaysAtTheirFiles, PTL DEF Spec

\* An upload of n files takes at most 3 * n + 1 steps, whatever fails in them, and
\* none are left only when it has ended; a pool thread in line for the semaphore
\* has MaxAttempts + 1, so one that got its slot gives it back after MaxAttempts.
THEOREM UploadsAreBounded ==
    Spec => [](/\ \A u \in Uploads : /\ UploadLeft(u) \in 0..3 * PerUpload[u] + 1
                                     /\ UploadLeft(u) = 0 <=> upload[u].pc = "done"
               /\ \A f \in File : /\ WriterLeft(f) \in 0..MaxAttempts + 2
                                  /\ writer[f] = "waiting" => WriterLeft(f) = MaxAttempts + 1
                                  /\ writer[f] = "writing" => WriterLeft(f) > 0)
<1>1. IInv /\ AllAtTheirFiles =>
               /\ \A u \in Uploads : /\ UploadLeft(u) \in 0..3 * PerUpload[u] + 1
                                     /\ UploadLeft(u) = 0 <=> upload[u].pc = "done"
               /\ \A f \in File : /\ WriterLeft(f) \in 0..MaxAttempts + 2
                                  /\ writer[f] = "waiting" => WriterLeft(f) = MaxAttempts + 1
                                  /\ writer[f] = "writing" => WriterLeft(f) > 0
  BY UploadLeftIsNumber, WriterLeftIsNumber DEF IInv
<1> QED
  BY <1>1, AlwaysAtTheirFiles, PTL
=============================================================================
