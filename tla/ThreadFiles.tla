----------------------------- MODULE ThreadFiles -----------------------------
(***************************************************************************)
(* The files of one conversation thread: uploads with a /pyapi/chat        *)
(* request (process_files of core/file_processor.py), the threads that     *)
(* write their text into ChromaDB, the thread_files registry, restoring    *)
(* them for a later turn (agents/memory.py) and deleting them all          *)
(* (DELETE /pyapi/thread/{id}/files of core/gateway.py).                   *)
(*                                                                         *)
(* The upload awaits a write or a save for a time and then goes on; the    *)
(* pool thread it awaited cannot be stopped and may finish later.          *)
(***************************************************************************)
EXTENDS Naturals, FiniteSets

CONSTANTS
    Uploads,      \* requests that bring files
    PerUpload,    \* PerUpload[u]: how many it brings
    MaxFiles,     \* MAX_FILES_PER_THREAD (30)
    Writers,      \* CHROMA_WRITE_CONCURRENCY (2)
    MaxAttempts   \* attempts at one ChromaDB write (3)

ASSUME ThreadFilesAssumption ==
    /\ PerUpload \in [Uploads -> Nat \ {0}]
    /\ MaxFiles \in Nat
    /\ Writers \in Nat \ {0}
    /\ MaxAttempts \in Nat \ {0}

VARIABLES
    upload,     \* upload[u]: how far process_files is
    writer,     \* writer[f]: the pool thread in _store_in_chromadb
    attempt,    \* attempt[f]: its attempt
    slots,      \* free slots of _CHROMA_WRITE_SEMAPHORE
    collection, \* collection[f]: what ChromaDB holds of the file
    disk,       \* disk[f]: the copy under UPLOADS_ROOT
    row,        \* row[f]: its thread_files record
    late,       \* late[f]: a save under way that nobody awaits any more
    deletion    \* the DELETE request

vars == <<upload, writer, attempt, slots, collection, disk, row, late,
          deletion>>

-----------------------------------------------------------------------------
\* A file is the upload that brings it and its place in it; its file_id, and
\* with it the collection's name, is unique.
File == UNION {{u} \X (1..PerUpload[u]) : u \in Uploads}

\* A record either names the collection of its file ("indexed") or does not
\* ("plain").  "deleted" remembers that there was one.
Record == {"none", "plain", "indexed", "deleted"}

\* i is the file being processed, admitted how many were let in.
Upload == [pc : {"idle", "extract", "store", "save", "done"}, i : Nat, admitted : Nat,
           mark : {"plain", "indexed"}]

Deletion == [pc : {"idle", "loaded", "unrecorded", "uncollected", "done"},
             indexed : SUBSET File]

NoDeletion == [pc |-> "idle", indexed |-> {}]

Init ==
    /\ upload = [u \in Uploads |-> [pc |-> "idle", i |-> 1, admitted |-> 0,
                                    mark |-> "plain"]]
    /\ writer = [f \in File |-> "none"]
    /\ attempt = [f \in File |-> 0]
    /\ slots = Writers
    /\ collection = [f \in File |-> "none"]
    /\ disk = [f \in File |-> FALSE]
    /\ row = [f \in File |-> "none"]
    /\ late = [f \in File |-> "none"]
    /\ deletion = NoDeletion

Recorded == {f \in File : row[f] \in {"plain", "indexed"}}
Indexed == {f \in File : row[f] = "indexed"}
Current(u) == <<u, upload[u].i>>

\* The next file of the upload, if it has one.
Advance(u) ==
    [upload[u] EXCEPT !.i = @ + 1, !.mark = "plain",
                      !.pc = IF upload[u].i < upload[u].admitted THEN "extract" ELSE "done"]

-----------------------------------------------------------------------------
(* process_files *)

\* The thread's files are counted once, the upload's own are counted on top,
\* and those within the limit are copied.  Some may be refused on their own
\* account.
Admit(u) ==
    /\ upload[u].pc = "idle"
    /\ \E n \in 0..PerUpload[u] :
          /\ Cardinality(Recorded) + n <= MaxFiles \/ n = 0
          /\ upload' = [upload EXCEPT ![u] =
                [@ EXCEPT !.pc = IF n = 0 THEN "done" ELSE "extract", !.admitted = n]]
          /\ disk' = [f \in File |-> disk[f] \/ (f[1] = u /\ f[2] <= n)]
    /\ UNCHANGED <<writer, attempt, slots, collection, row, late, deletion>>

\* Text extraction and OCR succeed, or fail, time out or find no text.
Extract(u) ==
    /\ upload[u].pc = "extract"
    /\ \/ /\ upload' = [upload EXCEPT ![u].pc = "store"]
          /\ writer' = [writer EXCEPT ![Current(u)] = "waiting"]
       \/ upload' = [upload EXCEPT ![u].pc = "save"] /\ UNCHANGED writer
    /\ UNCHANGED <<attempt, slots, collection, disk, row, late, deletion>>

\* Bug: the collection is noted before its write has been awaited.
AwaitStoreOptimistic(u) ==
    /\ upload[u].pc = "store"
    /\ upload' = [upload EXCEPT ![u].pc = "save", ![u].mark = "indexed"]
    /\ UNCHANGED <<writer, attempt, slots, collection, disk, row, late, deletion>>

\* Bug: the write is awaited without a timeout.
AwaitStoreForever(u) ==
    /\ upload[u].pc = "store"
    /\ writer[Current(u)] \in {"stored", "failed"}
    /\ upload' = [upload EXCEPT ![u].pc = "save",
                    ![u].mark = IF writer[Current(u)] = "stored" THEN "indexed" ELSE "plain"]
    /\ UNCHANGED <<writer, attempt, slots, collection, disk, row, late, deletion>>

\* The write ends, or CHROMA_STORE_TIMEOUT_S are over, which may be just when it
\* ends.
AwaitStore(u) ==
    /\ upload[u].pc = "store"
    /\ \E mark \in {"plain", "indexed"} :
          /\ mark = "indexed" => writer[Current(u)] = "stored"
          /\ upload' = [upload EXCEPT ![u].pc = "save", ![u].mark = mark]
    /\ UNCHANGED <<writer, attempt, slots, collection, disk, row, late, deletion>>

Save(u) ==
    /\ upload[u].pc = "save"
    /\ row' = [row EXCEPT ![Current(u)] = upload[u].mark]
    /\ upload' = [upload EXCEPT ![u] = Advance(u)]
    /\ UNCHANGED <<writer, attempt, slots, collection, disk, late, deletion>>

\* Bug: a save that timed out is tried again.
SaveTimesOutRetried(u) ==
    /\ upload[u].pc = "save"
    /\ late[Current(u)] = "none"
    /\ late' = [late EXCEPT ![Current(u)] = upload[u].mark]
    /\ UNCHANGED <<upload, writer, attempt, slots, collection, disk, row, deletion>>

\* The save fails, or takes longer than SQLITE_SAVE_TIMEOUT_S and may still be
\* done: "file processed but not persisted".
SaveTimesOut(u) ==
    /\ upload[u].pc = "save"
    /\ \E pending \in {"none", upload[u].mark} :
          late' = [late EXCEPT ![Current(u)] = pending]
    /\ upload' = [upload EXCEPT ![u] = Advance(u)]
    /\ UNCHANGED <<writer, attempt, slots, collection, disk, row, deletion>>

\* The 240 s around process_files are over: its task is cancelled.
Cancel(u) ==
    /\ upload[u].pc \in {"extract", "store", "save"}
    /\ \E pending \in {"none"} \cup (IF upload[u].pc = "save" THEN {upload[u].mark} ELSE {}) :
          late' = [late EXCEPT ![Current(u)] = pending]
    /\ upload' = [upload EXCEPT ![u].pc = "done", ![u].mark = "plain"]
    /\ UNCHANGED <<writer, attempt, slots, collection, disk, row, deletion>>

\* The abandoned save commits, or fails after all.
LateSave(f) ==
    /\ late[f] # "none"
    /\ row' \in {row, [row EXCEPT ![f] = late[f]]}
    /\ late' = [late EXCEPT ![f] = "none"]
    /\ UNCHANGED <<upload, writer, attempt, slots, collection, disk, deletion>>

-----------------------------------------------------------------------------
(* _store_in_chromadb, in its pool thread *)

Acquire(f) ==
    /\ writer[f] = "waiting"
    /\ slots > 0
    /\ slots' = slots - 1
    /\ writer' = [writer EXCEPT ![f] = "writing"]
    /\ attempt' = [attempt EXCEPT ![f] = 1]
    /\ UNCHANGED <<upload, collection, disk, row, late, deletion>>

\* Bug: the acquire is inside the try whose finally releases the slot.
NoSlotReleased(f) ==
    /\ writer[f] = "waiting"
    /\ writer' = [writer EXCEPT ![f] = "failed"]
    /\ slots' = IF slots < Writers THEN slots + 1 ELSE slots
    /\ UNCHANGED <<upload, attempt, collection, disk, row, late, deletion>>

\* No slot in time, no chunks to store, or a pool thread that never started.
NoSlot(f) ==
    /\ writer[f] = "waiting"
    /\ writer' = [writer EXCEPT ![f] = "failed"]
    /\ UNCHANGED <<upload, attempt, slots, collection, disk, row, late, deletion>>

\* What an attempt starts from: a retry drops the partial collection of the one
\* before, unless that fails too, which is ignored.
Before(f) == IF attempt[f] > 1 THEN {"none", collection[f]} ELSE {collection[f]}

WriteSucceeds(f) ==
    /\ writer[f] = "writing"
    /\ \E before \in Before(f) :
          collection' = [collection EXCEPT ![f] = IF before = "none" THEN "whole" ELSE "doubled"]
    /\ writer' = [writer EXCEPT ![f] = "stored"]
    /\ attempt' = [attempt EXCEPT ![f] = 0]
    /\ slots' = slots + 1
    /\ UNCHANGED <<upload, disk, row, late, deletion>>

\* Bug: one attempt too many.
LastAttemptOffByOne(f) == attempt[f] > MaxAttempts

LastAttempt(f) == attempt[f] >= MaxAttempts

WriteFails(f) ==
    /\ writer[f] = "writing"
    /\ \E after \in Before(f) \cup {"partial"} :
          collection' = [collection EXCEPT ![f] = after]
    /\ IF LastAttempt(f)
       THEN /\ writer' = [writer EXCEPT ![f] = "failed"]
            /\ attempt' = [attempt EXCEPT ![f] = 0]
            /\ slots' = slots + 1
       ELSE /\ attempt' = [attempt EXCEPT ![f] = @ + 1]
            /\ UNCHANGED <<writer, slots>>
    /\ UNCHANGED <<upload, disk, row, late, deletion>>

-----------------------------------------------------------------------------
(* Restoring and deleting *)

\* _restore_file_context, when a turn brings no files.  The records come without
\* created_at, so every one of them counts as belonging to the newest batch.
Restored == Indexed

\* Nothing on record: 404.
DeleteLoad ==
    /\ deletion.pc \in {"idle", "done"}
    /\ Recorded # {}
    /\ deletion' = [pc |-> "loaded", indexed |-> Indexed]
    /\ UNCHANGED <<upload, writer, attempt, slots, collection, disk, row, late>>

DeleteRows ==
    /\ deletion.pc = "loaded"
    /\ row' = [f \in File |-> IF row[f] = "none" THEN "none" ELSE "deleted"]
    /\ deletion' = [deletion EXCEPT !.pc = "unrecorded"]
    /\ UNCHANGED <<upload, writer, attempt, slots, collection, disk, late>>

\* A collection that cannot be dropped is logged and left.
DeleteCollections ==
    /\ deletion.pc = "unrecorded"
    /\ \E failed \in SUBSET deletion.indexed :
          collection' = [f \in File |-> IF f \in deletion.indexed \ failed
                                        THEN "none" ELSE collection[f]]
    /\ deletion' = [deletion EXCEPT !.pc = "uncollected"]
    /\ UNCHANGED <<upload, writer, attempt, slots, disk, row, late>>

\* So is a directory that cannot be removed.
DeleteDirectory ==
    /\ deletion.pc = "uncollected"
    /\ disk' = [f \in File |-> FALSE] \/ disk' = disk
    /\ deletion' = [deletion EXCEPT !.pc = "done"]
    /\ UNCHANGED <<upload, writer, attempt, slots, collection, row, late>>

-----------------------------------------------------------------------------
UploadStep(u) == Extract(u) \/ AwaitStore(u) \/ Save(u) \/ SaveTimesOut(u)

WriterStep(f) == Acquire(f) \/ NoSlot(f) \/ WriteSucceeds(f) \/ WriteFails(f) \/ LateSave(f)

Next ==
    \/ \E u \in Uploads : Admit(u) \/ UploadStep(u) \/ Cancel(u)
    \/ \E f \in File : WriterStep(f)
    \/ DeleteLoad \/ DeleteRows \/ DeleteCollections \/ DeleteDirectory

\* Every await of an upload has its timeout.  A pool thread has none: ChromaDB
\* may keep it for ever.
Fairness == \A u \in Uploads : WF_vars(UploadStep(u))

Spec == Init /\ [][Next]_vars /\ Fairness

-----------------------------------------------------------------------------
(* Properties *)

TypeOK ==
    /\ upload \in [Uploads -> Upload]
    /\ \A u \in Uploads :
          /\ upload[u].admitted <= PerUpload[u]
          /\ upload[u].pc # "done" => upload[u].i \in 1..PerUpload[u]
    /\ writer \in [File -> {"none", "waiting", "writing", "stored", "failed"}]
    /\ attempt \in [File -> 0..MaxAttempts]
    /\ slots \in 0..Writers
    /\ collection \in [File -> {"none", "partial", "whole", "doubled"}]
    /\ disk \in [File -> BOOLEAN]
    /\ row \in [File -> Record]
    /\ late \in [File -> {"none", "plain", "indexed"}]
    /\ deletion \in Deletion

\* Every file that a later turn restores has a collection that holds all of it:
\* timed-out, failed and abandoned writes, late saves and deletions included.
RecordedCollectionIsWhole ==
    \A f \in Restored : collection[f] \in {"whole", "doubled"}

\* The write semaphore is neither leaked nor released without having been
\* acquired: with n writes in flight Writers - n slots are free.
SlotsBalance == slots + Cardinality({f \in File : writer[f] = "writing"}) = Writers

\* A file once deleted does not come back on record, whatever upload was saving
\* it when the deletion came.
DeletedStaysDeleted ==
    [][\A f \in File : row[f] = "deleted" => row'[f] = "deleted"]_vars

\* An upload comes to its end even when ChromaDB never answers.
EveryUploadEnds ==
    \A u \in Uploads : upload[u].pc = "extract" ~> upload[u].pc = "done"
=============================================================================
