----------------------------- MODULE UploadQueue -----------------------------
(***************************************************************************)
(* The connector's durable upload queue: clip workers that hand finished   *)
(* clip files over, the SQLite table upload_queue, the single uploader     *)
(* thread, the "clear local clips" handler and the pause switch, under     *)
(* crashes of the connector process.                                       *)
(*                                                                         *)
(* Source: connector/app/store.py, workers.py (run_uploader),              *)
(* orchestrator.py and main.py (on_clip), capture.py (_write_clip and      *)
(* clip_finished), admin.py (clear-local, upload-full-source, pause and    *)
(* resume).  Each SQL statement is one step: SQLite serialises statements  *)
(* and every one of them is committed before the method returns.           *)
(***************************************************************************)
EXTENDS Naturals

CONSTANTS Clips,        (* clip identities; each file name is a fresh uuid    *)
          MaxRetries,   (* cfg.max_upload_retries                             *)
          MultiCamera,  (* TRUE: on_clip of StoreOrchestrator; FALSE: main's  *)
          MaxCrashes,   (* bound: process crashes in one behaviour            *)
          NoClip        (* no job in the uploader's hands                     *)

ASSUME QueueAssumption ==
    /\ MaxRetries \in Nat \ {0}
    /\ MaxCrashes \in Nat
    /\ MultiCamera \in BOOLEAN
    /\ NoClip \notin Clips

VARIABLES
    stage,      (* how far the clip worker has got with each clip             *)
    files,      (* clips whose .mp4 exists under state_dir/clips              *)
    rowState,   (* upload_queue.state; "absent" before and "purged" after     *)
    rowId,      (* upload_queue.id, 0 before the row exists                   *)
    retries,    (* upload_queue.retries                                       *)
    lastId,     (* the AUTOINCREMENT counter                                  *)
    pc,         (* where the uploader thread is in its loop                   *)
    job,        (* the QueueJob it holds                                      *)
    jobRetries, (* job.retries, read with the row                             *)
    paused,     (* capture_paused and its durable setting                     *)
    backendUp,  (* the _backend_active event                                  *)
    clearing,   (* how far POST /clips/clear-local has got                    *)
    copies,     (* ghost: complete calls the backend carried out, per clip    *)
    lost,       (* ghost: of those, the ones whose reply never came back      *)
    discarded,  (* ghost: clips the operator cleared                          *)
    crashes     (* ghost: crashes so far                                      *)

workerVars   == <<stage>>
tableVars    == <<rowState, rowId, retries, lastId>>
uploaderVars == <<pc, job, jobRetries>>
controlVars  == <<paused, backendUp>>
ghostVars    == <<copies, lost, discarded, crashes>>
vars == <<stage, files, rowState, rowId, retries, lastId, pc, job, jobRetries,
          paused, backendUp, clearing, copies, lost, discarded, crashes>>

Stages    == {"none", "encoding", "written", "accepted", "saving", "queued",
              "dropped"}
RowStates == {"absent", "pending", "uploading", "done", "failed", "cancelled",
              "purged"}
Live      == {"pending", "uploading"}
HasRow    == RowStates \ {"absent", "purged"}
PCs       == {"idle", "awake", "gated", "picked", "checked", "marked", "granted",
              "stored", "completed", "removing", "erring"}

Init ==
    /\ stage = [c \in Clips |-> "none"]
    /\ files = {}
    /\ rowState = [c \in Clips |-> "absent"]
    /\ rowId = [c \in Clips |-> 0]
    /\ retries = [c \in Clips |-> 0]
    /\ lastId = 0
    /\ pc = "idle" /\ job = NoClip /\ jobRetries = 0
    /\ paused \in BOOLEAN
    /\ backendUp = TRUE
    /\ clearing = "idle"
    /\ copies = [c \in Clips |-> 0]
    /\ lost = [c \in Clips |-> 0]
    /\ discarded = {}
    /\ crashes = 0

-----------------------------------------------------------------------------
(* The clip workers: from the start of an encode to the row in the table.  *)

\* A pool thread starts _write_clip; the output file appears on disk.
BeginClip(c) ==
    /\ stage[c] = "none"
    /\ ~paused
    /\ stage' = [stage EXCEPT ![c] = "encoding"]
    /\ files' = files \cup {c}
    /\ UNCHANGED <<tableVars, uploaderVars, controlVars, clearing, ghostVars>>

\* Pause or a pipeline stop reaches the encode loop: the output is removed.
AbortEncode(c) ==
    /\ stage[c] = "encoding"
    /\ stage' = [stage EXCEPT ![c] = "dropped"]
    /\ files' = files \ {c}
    /\ UNCHANGED <<tableVars, uploaderVars, controlVars, clearing, ghostVars>>

FinishEncode(c) ==
    /\ stage[c] = "encoding"
    /\ stage' = [stage EXCEPT ![c] = "written"]
    /\ UNCHANGED <<files, tableVars, uploaderVars, controlVars, clearing, ghostVars>>

\* clip_finished: a clip that comes back while monitoring is paused, or whose
\* pipeline was stopped meanwhile, is not handed over.  Its file stays.
ClipFinished(c) ==
    /\ stage[c] = "written"
    /\ \/ /\ ~paused
          /\ stage' = [stage EXCEPT ![c] = "accepted"]
       \/ stage' = [stage EXCEPT ![c] = "dropped"]
    /\ UNCHANGED <<files, tableVars, uploaderVars, controlVars, clearing, ghostVars>>

\* on_clip.  The orchestrator's looks at the pause switch once more and removes
\* a stale clip; the single-camera one does not look.
OnClip(c) ==
    /\ stage[c] = "accepted"
    /\ \/ /\ MultiCamera /\ paused
          /\ stage' = [stage EXCEPT ![c] = "dropped"]
          /\ files' = files \ {c}
       \/ /\ ~(MultiCamera /\ paused)
          /\ stage' = [stage EXCEPT ![c] = "saving"]
          /\ UNCHANGED files
    /\ UNCHANGED <<tableVars, uploaderVars, controlVars, clearing, ghostVars>>

\* POST /clips/upload-full-source: refused while paused, then a long copy.
UploadFullSource(c) ==
    /\ stage[c] = "none"
    /\ ~paused
    /\ stage' = [stage EXCEPT ![c] = "saving"]
    /\ files' = files \cup {c}
    /\ UNCHANGED <<tableVars, uploaderVars, controlVars, clearing, ghostVars>>

\* LocalStore.enqueue.
Enqueue(c) ==
    /\ stage[c] = "saving"
    /\ stage' = [stage EXCEPT ![c] = "queued"]
    /\ rowState' = [rowState EXCEPT ![c] = "pending"]
    /\ rowId' = [rowId EXCEPT ![c] = lastId + 1]
    /\ lastId' = lastId + 1
    /\ UNCHANGED <<files, retries, uploaderVars, controlVars, clearing, ghostVars>>

-----------------------------------------------------------------------------
(* LocalStore as the uploader uses it.                                     *)

\* Mutants of next_pending: ORDER BY id DESC; pending rows only; rows not done.
NextPendingNewest(c) ==
    /\ rowState[c] \in Live
    /\ \A d \in Clips : rowState[d] \in Live => rowId[c] >= rowId[d]

NextPendingOnlyPending(c) ==
    /\ rowState[c] = "pending"
    /\ \A d \in Clips : rowState[d] = "pending" => rowId[c] <= rowId[d]

NextPendingNotDone(c) ==
    /\ rowState[c] \in Live \cup {"failed"}
    /\ \A d \in Clips : rowState[d] \in Live => rowId[c] <= rowId[d]

\* next_pending: the oldest row that is pending or was left uploading.
NextPending(c) ==
    /\ rowState[c] \in Live
    /\ \A d \in Clips : rowState[d] \in Live => rowId[c] <= rowId[d]

\* mark: UPDATE ... WHERE id = ?.  It looks at no earlier state of the row, and
\* touches nothing when the row is gone.
Mark(c, s) ==
    rowState' = IF rowState[c] \in HasRow
                THEN [rowState EXCEPT ![c] = s]
                ELSE rowState

-----------------------------------------------------------------------------
(* run_uploader, one iteration of its loop.                                *)

\* wait_until_running: monitoring first, then the backend.  The two events are
\* looked at one after the other, so either may change in between.
Gate ==
    /\ \/ pc = "idle" /\ ~paused /\ pc' = "awake"
       \/ pc = "awake" /\ backendUp /\ pc' = "gated"
       \/ pc = "awake" /\ ~backendUp /\ pc' = "idle"
    /\ UNCHANGED <<workerVars, files, tableVars, job, jobRetries, controlVars,
                   clearing, ghostVars>>

Select ==
    /\ pc = "gated"
    /\ \/ /\ \A c \in Clips : rowState[c] \notin Live
          /\ pc' = "idle"
          /\ UNCHANGED <<job, jobRetries>>
       \/ \E c \in Clips :
             /\ NextPending(c)
             /\ pc' = "picked"
             /\ job' = c
             /\ jobRetries' = retries[c]
    /\ UNCHANGED <<workerVars, files, tableVars, controlVars, clearing, ghostVars>>

\* The second look at capture_paused, after the row was read.
Recheck ==
    /\ pc = "picked"
    /\ \/ /\ paused
          /\ pc' = "idle" /\ job' = NoClip /\ jobRetries' = 0
       \/ /\ ~paused
          /\ pc' = "checked"
          /\ UNCHANGED <<job, jobRetries>>
    /\ UNCHANGED <<workerVars, files, tableVars, controlVars, clearing, ghostVars>>

MarkUploading ==
    /\ pc = "checked"
    /\ Mark(job, "uploading")
    /\ pc' = "marked"
    /\ UNCHANGED <<workerVars, files, rowId, retries, lastId, job, jobRetries,
                   controlVars, clearing, ghostVars>>

\* The call may be refused, time out, or be lost: every failure is one raise.
RequestUploadUrl ==
    /\ pc = "marked"
    /\ pc' \in {"granted", "erring"}
    /\ UNCHANGED <<workerVars, files, tableVars, job, jobRetries, controlVars,
                   clearing, ghostVars>>

\* upload_file opens the clip: a file that has gone is a failure as well.
UploadFile ==
    /\ pc = "granted"
    /\ \/ job \in files /\ pc' = "stored"
       \/ pc' = "erring"
    /\ UNCHANGED <<workerVars, files, tableVars, job, jobRetries, controlVars,
                   clearing, ghostVars>>

\* Mutant of CompleteClip: a good answer is taken for a failure.
CompleteClipMisread ==
    /\ pc = "stored"
    /\ \/ copies' = [copies EXCEPT ![job] = @ + 1]
       \/ UNCHANGED copies
    /\ pc' = "erring"
    /\ UNCHANGED <<workerVars, files, tableVars, job, jobRetries, controlVars,
                   clearing, lost, discarded, crashes>>

\* complete_clip: carried out and answered, carried out with the answer lost,
\* or not carried out at all.
CompleteClip ==
    /\ pc = "stored"
    /\ \/ /\ copies' = [copies EXCEPT ![job] = @ + 1]
          /\ pc' = "completed"
          /\ UNCHANGED lost
       \/ /\ copies' = [copies EXCEPT ![job] = @ + 1]
          /\ lost' = [lost EXCEPT ![job] = @ + 1]
          /\ pc' = "erring"
       \/ /\ pc' = "erring"
          /\ UNCHANGED <<copies, lost>>
    /\ UNCHANGED <<workerVars, files, tableVars, job, jobRetries, controlVars,
                   clearing, discarded, crashes>>

MarkDone ==
    /\ pc = "completed"
    /\ Mark(job, "done")
    /\ pc' = "removing"
    /\ UNCHANGED <<workerVars, files, rowId, retries, lastId, job, jobRetries,
                   controlVars, clearing, ghostVars>>

RemoveFile ==
    /\ pc = "removing"
    /\ files' = files \ {job}
    /\ pc' = "idle" /\ job' = NoClip /\ jobRetries' = 0
    /\ UNCHANGED <<workerVars, tableVars, controlVars, clearing, ghostVars>>

\* Mutants of the except branch: no budget at all; an off-by-one budget; the
\* local file removed there too, as a finally clause would.
HandleErrorEndless ==
    /\ pc = "erring"
    /\ Mark(job, "pending")
    /\ retries' = IF rowState[job] \in HasRow
                  THEN [retries EXCEPT ![job] = @ + 1]
                  ELSE retries
    /\ pc' = "idle" /\ job' = NoClip /\ jobRetries' = 0
    /\ UNCHANGED <<workerVars, files, rowId, lastId, controlVars, clearing, ghostVars>>

HandleErrorOneTooMany ==
    /\ pc = "erring"
    /\ Mark(job, IF jobRetries >= MaxRetries THEN "failed" ELSE "pending")
    /\ retries' = IF rowState[job] \in HasRow
                  THEN [retries EXCEPT ![job] = @ + 1]
                  ELSE retries
    /\ pc' = "idle" /\ job' = NoClip /\ jobRetries' = 0
    /\ UNCHANGED <<workerVars, files, rowId, lastId, controlVars, clearing, ghostVars>>

HandleErrorRemoving ==
    /\ pc = "erring"
    /\ Mark(job, IF jobRetries + 1 >= MaxRetries THEN "failed" ELSE "pending")
    /\ retries' = IF rowState[job] \in HasRow
                  THEN [retries EXCEPT ![job] = @ + 1]
                  ELSE retries
    /\ files' = files \ {job}
    /\ pc' = "idle" /\ job' = NoClip /\ jobRetries' = 0
    /\ UNCHANGED <<workerVars, rowId, lastId, controlVars, clearing, ghostVars>>

\* The except branch.  The verdict comes from job.retries, read with the row;
\* the increment is done by SQL on the row itself.
HandleError ==
    /\ pc = "erring"
    /\ Mark(job, IF jobRetries + 1 >= MaxRetries THEN "failed" ELSE "pending")
    /\ retries' = IF rowState[job] \in HasRow
                  THEN [retries EXCEPT ![job] = @ + 1]
                  ELSE retries
    /\ pc' = "idle" /\ job' = NoClip /\ jobRetries' = 0
    /\ UNCHANGED <<workerVars, files, rowId, lastId, controlVars, clearing, ghostVars>>

Uploader ==
    \/ Gate \/ Select \/ Recheck \/ MarkUploading \/ RequestUploadUrl
    \/ UploadFile \/ CompleteClip \/ MarkDone \/ RemoveFile \/ HandleError

-----------------------------------------------------------------------------
(* POST /clips/clear-local: three calls, none of them under a common lock. *)

CancelAllPending ==
    /\ clearing = "idle"
    /\ clearing' = "cancelled"
    /\ rowState' = [c \in Clips |-> IF rowState[c] \in Live THEN "cancelled"
                                    ELSE rowState[c]]
    /\ discarded' = discarded \cup {c \in Clips : rowState[c] \in Live}
    /\ UNCHANGED <<workerVars, files, rowId, retries, lastId, uploaderVars,
                   controlVars, copies, lost, crashes>>

PurgeDoneFailed ==
    /\ clearing = "cancelled"
    /\ clearing' = "purged"
    /\ rowState' = [c \in Clips |->
                      IF rowState[c] \in {"done", "failed", "cancelled"}
                      THEN "purged" ELSE rowState[c]]
    /\ discarded' = discarded \cup {c \in Clips : rowState[c] = "failed"}
    /\ UNCHANGED <<workerVars, files, rowId, retries, lastId, uploaderVars,
                   controlVars, copies, lost, crashes>>

\* os.remove on every clip; one the uploader holds open may resist.
ClearLocalClipFiles ==
    /\ clearing = "purged"
    /\ clearing' = "idle"
    /\ \E kept \in SUBSET (IF pc = "granted" THEN files \cap {job} ELSE {}) :
          /\ files' = kept
          /\ discarded' = discarded \cup (files \ kept)
    /\ UNCHANGED <<workerVars, tableVars, uploaderVars, controlVars, copies,
                   lost, crashes>>

ClearLocal == CancelAllPending \/ PurgeDoneFailed \/ ClearLocalClipFiles

-----------------------------------------------------------------------------
(* The switches, and the end of the process.                               *)

\* POST /capture/pause and /capture/resume; the setting is written first, so
\* the flag a restart reads is never older than the one in memory.
SetPaused ==
    /\ paused' = ~paused
    /\ UNCHANGED <<workerVars, files, tableVars, uploaderVars, backendUp,
                   clearing, ghostVars>>

\* set_backend_available, called by the orchestrator's poll.
SetBackendAvailable ==
    /\ backendUp' = ~backendUp
    /\ UNCHANGED <<workerVars, files, tableVars, uploaderVars, paused,
                   clearing, ghostVars>>

\* The process dies (the threads are daemons, so an orderly exit is the same)
\* and a new one starts: the table, the files and the pause setting survive.
Crash ==
    /\ crashes < MaxCrashes
    /\ crashes' = crashes + 1
    /\ stage' = [c \in Clips |-> IF stage[c] \in {"none", "queued"} THEN stage[c]
                                 ELSE "dropped"]
    /\ pc' = "idle" /\ job' = NoClip /\ jobRetries' = 0
    /\ backendUp' = TRUE
    /\ clearing' = "idle"
    /\ UNCHANGED <<files, tableVars, paused, copies, lost, discarded>>

ClipWorker(c) ==
    \/ BeginClip(c) \/ AbortEncode(c) \/ FinishEncode(c) \/ ClipFinished(c)
    \/ OnClip(c) \/ UploadFullSource(c) \/ Enqueue(c)

Next ==
    \/ \E c \in Clips : ClipWorker(c)
    \/ Uploader
    \/ ClearLocal
    \/ SetPaused
    \/ SetBackendAvailable
    \/ Crash

Spec == Init /\ [][Next]_vars

\* The uploader is a thread that runs as long as the process does; the other
\* actors owe nothing.
FairSpec == Spec /\ WF_vars(Uploader)

-----------------------------------------------------------------------------
TypeOK ==
    /\ stage \in [Clips -> Stages]
    /\ files \in SUBSET Clips
    /\ rowState \in [Clips -> RowStates]
    /\ rowId \in [Clips -> Nat]
    /\ retries \in [Clips -> 0..MaxRetries]
    /\ lastId \in Nat
    /\ pc \in PCs
    /\ job \in Clips \cup {NoClip}
    /\ jobRetries \in 0..MaxRetries
    /\ paused \in BOOLEAN
    /\ backendUp \in BOOLEAN
    /\ clearing \in {"idle", "cancelled", "purged"}
    /\ copies \in [Clips -> Nat]
    /\ lost \in [Clips -> Nat]
    /\ discarded \in SUBSET Clips
    /\ crashes \in 0..MaxCrashes

\* A clip that was enqueued and that the operator did not clear is never lost
\* silently: until the backend has a copy, its row is waiting or failed and its
\* file is on disk.  Hard because the uploader deletes the file, the error
\* branch rewrites the row, and a crash may fall between any two of these.
NoSilentLoss ==
    \A c \in Clips :
        (rowId[c] > 0 /\ c \notin discarded /\ copies[c] = 0) =>
            c \in files /\ rowState[c] \in Live \cup {"failed"}

\* The queue is drained strictly in the order of ids: while a row is being
\* uploaded, or was left uploading by a crash, no older row is waiting.  It
\* rests on AUTOINCREMENT, on the single uploader, and on nobody but the
\* uploader ever bringing a row back to pending.
HeadOfLine ==
    \A c, d \in Clips :
        (rowState[c] = "uploading" /\ rowState[d] \in Live) => rowId[c] <= rowId[d]

\* The verdict is taken on the copy of retries read with the row, the count is
\* kept by SQL: they stay in step, so a waiting row always has attempts left and
\* a clip is tried at most MaxRetries times with a failing answer.
RetryBudget ==
    \A c \in Clips :
        /\ rowState[c] \in Live => retries[c] < MaxRetries
        /\ rowState[c] = "failed" => retries[c] = MaxRetries

\* At-least-once has a price that can be named: every copy after the first is
\* due to a reply that was lost or to a crash.
DuplicatesExplained ==
    \A c \in Clips : copies[c] <= 1 + lost[c] + crashes

\* Once monitoring runs and the backend is up for good, every waiting row is
\* settled: delivered, failed or cancelled.  A row left uploading by a crash
\* counts as waiting.
QueueDrains ==
    <>[](~paused /\ backendUp) =>
        \A c \in Clips : (rowState[c] \in Live) ~> (rowState[c] \notin Live)

\* "Clear local clips" is documented to cancel pending uploads: a row it
\* cancelled does not come back to life.
CancelledStaysCancelled ==
    [][\A c \in Clips : rowState[c] = "cancelled" =>
            rowState'[c] \in {"cancelled", "purged"}]_vars

-----------------------------------------------------------------------------
(* The inductive strengthening, in the terms of the code.                  *)

\* Ids are handed out once, only to rows that exist or existed, and a clip that
\* never had a row never cost an attempt or a copy.
RowsNumbered ==
    /\ \A c \in Clips : rowId[c] <= lastId /\ (rowId[c] = 0 <=> rowState[c] = "absent")
    /\ \A c, d \in Clips : (rowId[c] > 0 /\ c # d) => rowId[c] # rowId[d]
    /\ \A c \in Clips : stage[c] # "queued" => rowState[c] = "absent"
    /\ \A c \in Clips : rowState[c] = "absent" => retries[c] = 0 /\ copies[c] = 0

\* A clip file stays until it was delivered, dropped by its worker or cleared.
FilesKept ==
    /\ \A c \in Clips :
         stage[c] \in {"encoding", "written", "accepted", "saving"} =>
             c \in files \cup discarded
    /\ \A c \in Clips :
         rowState[c] # "absent" => (c \in files \cup discarded \/ copies[c] > 0)
    /\ \A c \in Clips : rowState[c] = "cancelled" => c \in discarded
    /\ \A c \in Clips : rowState[c] \in {"done", "purged"} =>
                          (c \in discarded \/ copies[c] > 0)

\* What the uploader may rely on about the row it read a while ago.
Holding == pc \in PCs \ {"idle", "awake", "gated", "removing"}
JobHeld ==
    /\ (pc \in {"idle", "awake", "gated"}) <=> (job = NoClip)
    /\ job # NoClip => rowState[job] # "absent"
    /\ pc \in {"completed", "removing"} => copies[job] > 0
    /\ Holding => /\ rowState[job] \notin {"done", "failed"}
                  /\ rowState[job] = "purged" => job \in discarded
                  /\ jobRetries = retries[job]
                  /\ jobRetries < MaxRetries
                  /\ \A d \in Clips : rowState[d] \in Live => rowId[job] <= rowId[d]
                  /\ \A d \in Clips : rowState[d] = "uploading" => d = job

\* A clip whose next upload is still to come has had no unexplained copy yet.
NextCopyExplained ==
    /\ \A c \in Clips :
         (rowState[c] \in Live /\ ~(pc = "completed" /\ job = c)) =>
             copies[c] <= lost[c] + crashes
    /\ Holding /\ pc # "completed" => copies[job] <= lost[job] + crashes

QueueInv ==
    /\ TypeOK
    /\ RowsNumbered
    /\ FilesKept
    /\ JobHeld
    /\ HeadOfLine
    /\ RetryBudget
    /\ NextCopyExplained
    /\ DuplicatesExplained

-----------------------------------------------------------------------------
(* The queue keeps the promise of ClipDelivery.                            *)

PromiseStatus ==
    [c \in Clips |-> IF c \in discarded THEN "discarded"
                     ELSE IF rowState[c] = "absent" THEN "none"
                     ELSE IF rowState[c] \in Live THEN "queued"
                     ELSE "settled"]

Promise == INSTANCE ClipDelivery
             WITH status <- PromiseStatus, failures <- retries

\* Every step of the queue is a step of the promise or changes nothing it
\* speaks of.
KeepsPromise == Promise!Spec
=============================================================================
