-------------------------- MODULE UploadQueueProofs --------------------------
(***************************************************************************)
(* Proofs about UploadQueue, for every set of clips, every retry budget,   *)
(* either kind of connector and every number of crashes.                   *)
(*                                                                         *)
(* QueueInv is the inductive invariant.  Each of its parts is preserved by *)
(* every action, given the whole of it in the state before the step.       *)
(***************************************************************************)
EXTENDS UploadQueue, TLAPS

(* The initial states satisfy the inductive invariant.                     *)
LEMMA InitQueueInv == Init => QueueInv
  BY QueueAssumption
     DEF Init, QueueInv, TypeOK, RowsNumbered, FilesKept, JobHeld, HeadOfLine,
         RetryBudget, NextCopyExplained, DuplicatesExplained, Holding, Stages,
         RowStates, Live, PCs

(* Every step keeps every variable in its type: stages, row states, retry  *)
(* counts within the budget, crashes within the bound.                     *)
LEMMA TypeStep == QueueInv /\ [Next]_vars => TypeOK'
<1> USE QueueAssumption
    DEF QueueInv, TypeOK, Stages, RowStates, PCs, HasRow, Live,
        workerVars, tableVars, uploaderVars, controlVars, ghostVars
<1> SUFFICES ASSUME QueueInv, [Next]_vars PROVE TypeOK'
  OBVIOUS
<1>1. ASSUME NEW c \in Clips, ClipWorker(c) PROVE TypeOK'
  BY <1>1 DEF ClipWorker, BeginClip, AbortEncode, FinishEncode, ClipFinished,
              OnClip, UploadFullSource, Enqueue
<1>2. CASE Gate \/ Select \/ Recheck
  BY <1>2 DEF Gate, Select, Recheck, NextPending
<1>3. CASE MarkUploading \/ RequestUploadUrl \/ UploadFile
  BY <1>3 DEF MarkUploading, RequestUploadUrl, UploadFile, Mark
<1>4. CASE CompleteClip
  BY <1>4 DEF CompleteClip, JobHeld, Holding
<1>5. CASE MarkDone \/ RemoveFile
  BY <1>5 DEF MarkDone, RemoveFile, Mark
<1>6. CASE HandleError
  BY <1>6 DEF HandleError, Mark, JobHeld, Holding
<1>7. CASE ClearLocal
  BY <1>7 DEF ClearLocal, CancelAllPending, PurgeDoneFailed, ClearLocalClipFiles
<1>8. CASE SetPaused \/ SetBackendAvailable
  BY <1>8 DEF SetPaused, SetBackendAvailable
<1>9. CASE Crash
  BY <1>9 DEF Crash
<1>10. CASE UNCHANGED vars
  BY <1>10 DEF vars
<1> QED
  BY <1>1, <1>2, <1>3, <1>4, <1>5, <1>6, <1>7, <1>8, <1>9, <1>10 DEF Next, Uploader

(* Ids stay unique and bounded, and a clip has a row only once its worker  *)
(* enqueued it: enqueue is the only source of ids.                         *)
LEMMA RowsStep == QueueInv /\ [Next]_vars => RowsNumbered'
<1> USE QueueAssumption
    DEF QueueInv, TypeOK, RowsNumbered, JobHeld, Holding,
        Stages, RowStates, PCs, HasRow, Live,
        workerVars, tableVars, uploaderVars, controlVars, ghostVars
<1> SUFFICES ASSUME QueueInv, [Next]_vars PROVE RowsNumbered'
  OBVIOUS
<1>1. ASSUME NEW c \in Clips, ClipWorker(c) PROVE RowsNumbered'
  <2>1. CASE BeginClip(c) \/ AbortEncode(c) \/ FinishEncode(c) \/ ClipFinished(c)
    BY <2>1 DEF BeginClip, AbortEncode, FinishEncode, ClipFinished
  <2>2. CASE OnClip(c) \/ UploadFullSource(c)
    BY <2>2 DEF OnClip, UploadFullSource
  <2>3. CASE Enqueue(c)
    BY <2>3 DEF Enqueue
  <2> QED
    BY <1>1, <2>1, <2>2, <2>3 DEF ClipWorker
<1>2. CASE Gate
  BY <1>2 DEF Gate
<1>3. CASE Select
  BY <1>3 DEF Select, NextPending
<1>4. CASE Recheck
  BY <1>4 DEF Recheck
<1>5. CASE MarkUploading
  BY <1>5 DEF MarkUploading, Mark
<1>6. CASE RequestUploadUrl \/ UploadFile
  BY <1>6 DEF RequestUploadUrl, UploadFile
<1>7. CASE CompleteClip
  BY <1>7 DEF CompleteClip
<1>8. CASE MarkDone
  BY <1>8 DEF MarkDone, Mark
<1>9. CASE RemoveFile
  BY <1>9 DEF RemoveFile
<1>10. CASE HandleError
  BY <1>10 DEF HandleError, Mark
<1>11. CASE ClearLocal
  BY <1>11 DEF ClearLocal, CancelAllPending, PurgeDoneFailed, ClearLocalClipFiles
<1>12. CASE SetPaused \/ SetBackendAvailable
  BY <1>12 DEF SetPaused, SetBackendAvailable
<1>13. CASE Crash
  BY <1>13 DEF Crash
<1>14. CASE UNCHANGED vars
  BY <1>14 DEF vars
<1> QED
  BY <1>1, <1>2, <1>3, <1>4, <1>5, <1>6, <1>7, <1>8, <1>9, <1>10, <1>11, <1>12,
     <1>13, <1>14 DEF Next, Uploader

(* No step takes the file of a clip that is neither delivered nor given up: *)
(* the uploader removes a file only after a copy was taken, the worker only *)
(* before the row exists, the operator only by clearing.                   *)
LEMMA FilesStep == QueueInv /\ [Next]_vars => FilesKept'
<1> USE QueueAssumption
    DEF QueueInv, TypeOK, FilesKept, JobHeld, Holding, RowsNumbered,
        Stages, RowStates, PCs, HasRow, Live,
        workerVars, tableVars, uploaderVars, controlVars, ghostVars
<1> SUFFICES ASSUME QueueInv, [Next]_vars PROVE FilesKept'
  OBVIOUS
<1>1. ASSUME NEW c \in Clips, ClipWorker(c) PROVE FilesKept'
  <2>1. CASE BeginClip(c) \/ AbortEncode(c) \/ FinishEncode(c) \/ ClipFinished(c)
    BY <2>1 DEF BeginClip, AbortEncode, FinishEncode, ClipFinished
  <2>2. CASE OnClip(c) \/ UploadFullSource(c)
    BY <2>2 DEF OnClip, UploadFullSource
  <2>3. CASE Enqueue(c)
    BY <2>3 DEF Enqueue
  <2> QED
    BY <1>1, <2>1, <2>2, <2>3 DEF ClipWorker
<1>2. CASE Gate
  BY <1>2 DEF Gate
<1>3. CASE Select
  BY <1>3 DEF Select, NextPending
<1>4. CASE Recheck
  BY <1>4 DEF Recheck
<1>5. CASE MarkUploading
  BY <1>5 DEF MarkUploading, Mark
<1>6. CASE RequestUploadUrl \/ UploadFile
  BY <1>6 DEF RequestUploadUrl, UploadFile
<1>7. CASE CompleteClip
  BY <1>7 DEF CompleteClip
<1>8. CASE MarkDone
  BY <1>8 DEF MarkDone, Mark
<1>9. CASE RemoveFile
  BY <1>9 DEF RemoveFile
<1>10. CASE HandleError
  BY <1>10 DEF HandleError, Mark
<1>11. CASE ClearLocal
  BY <1>11 DEF ClearLocal, CancelAllPending, PurgeDoneFailed, ClearLocalClipFiles
<1>12. CASE SetPaused \/ SetBackendAvailable
  BY <1>12 DEF SetPaused, SetBackendAvailable
<1>13. CASE Crash
  BY <1>13 DEF Crash
<1>14. CASE UNCHANGED vars
  BY <1>14 DEF vars
<1> QED
  BY <1>1, <1>2, <1>3, <1>4, <1>5, <1>6, <1>7, <1>8, <1>9, <1>10, <1>11, <1>12,
     <1>13, <1>14 DEF Next, Uploader

(* The row the uploader read stays valid in its hands: nobody but the uploader *)
(* fails or finishes it, and rows enqueued meanwhile are younger.          *)
LEMMA JobStep == QueueInv /\ [Next]_vars => JobHeld'
<1> USE QueueAssumption
    DEF QueueInv, TypeOK, HeadOfLine, RetryBudget, JobHeld, Holding, RowsNumbered,
        Stages, RowStates, PCs, HasRow, Live,
        workerVars, tableVars, uploaderVars, controlVars, ghostVars
<1> SUFFICES ASSUME QueueInv, [Next]_vars PROVE JobHeld'
  OBVIOUS
<1>1. ASSUME NEW c \in Clips, ClipWorker(c) PROVE JobHeld'
  <2>1. CASE BeginClip(c) \/ AbortEncode(c) \/ FinishEncode(c) \/ ClipFinished(c)
    BY <2>1 DEF BeginClip, AbortEncode, FinishEncode, ClipFinished
  <2>2. CASE OnClip(c) \/ UploadFullSource(c)
    BY <2>2 DEF OnClip, UploadFullSource
  <2>3. CASE Enqueue(c)
    BY <2>3 DEF Enqueue
  <2> QED
    BY <1>1, <2>1, <2>2, <2>3 DEF ClipWorker
<1>2. CASE Gate
  BY <1>2 DEF Gate
<1>3. CASE Select
  BY <1>3 DEF Select, NextPending
<1>4. CASE Recheck
  BY <1>4 DEF Recheck
<1>5. CASE MarkUploading
  BY <1>5 DEF MarkUploading, Mark
<1>6. CASE RequestUploadUrl \/ UploadFile
  BY <1>6 DEF RequestUploadUrl, UploadFile
<1>7. CASE CompleteClip
  BY <1>7 DEF CompleteClip
<1>8. CASE MarkDone
  BY <1>8 DEF MarkDone, Mark
<1>9. CASE RemoveFile
  BY <1>9 DEF RemoveFile
<1>10. CASE HandleError
  BY <1>10 DEF HandleError, Mark
<1>11. CASE ClearLocal
  BY <1>11 DEF FilesKept, ClearLocal, CancelAllPending, PurgeDoneFailed, ClearLocalClipFiles
<1>12. CASE SetPaused \/ SetBackendAvailable
  BY <1>12 DEF SetPaused, SetBackendAvailable
<1>13. CASE Crash
  BY <1>13 DEF Crash
<1>14. CASE UNCHANGED vars
  BY <1>14 DEF vars
<1> QED
  BY <1>1, <1>2, <1>3, <1>4, <1>5, <1>6, <1>7, <1>8, <1>9, <1>10, <1>11, <1>12,
     <1>13, <1>14 DEF Next, Uploader

(* No step makes a row wait that is older than the one being uploaded.     *)
LEMMA OrderStep == QueueInv /\ [Next]_vars => HeadOfLine'
<1> USE QueueAssumption
    DEF QueueInv, TypeOK, HeadOfLine, RetryBudget, JobHeld, Holding, RowsNumbered,
        Stages, RowStates, PCs, HasRow, Live,
        workerVars, tableVars, uploaderVars, controlVars, ghostVars
<1> SUFFICES ASSUME QueueInv, [Next]_vars PROVE HeadOfLine'
  OBVIOUS
<1>1. ASSUME NEW c \in Clips, ClipWorker(c) PROVE HeadOfLine'
  <2>1. CASE BeginClip(c) \/ AbortEncode(c) \/ FinishEncode(c) \/ ClipFinished(c)
    BY <2>1 DEF BeginClip, AbortEncode, FinishEncode, ClipFinished
  <2>2. CASE OnClip(c) \/ UploadFullSource(c)
    BY <2>2 DEF OnClip, UploadFullSource
  <2>3. CASE Enqueue(c)
    BY <2>3 DEF Enqueue
  <2> QED
    BY <1>1, <2>1, <2>2, <2>3 DEF ClipWorker
<1>2. CASE Gate
  BY <1>2 DEF Gate
<1>3. CASE Select
  BY <1>3 DEF Select, NextPending
<1>4. CASE Recheck
  BY <1>4 DEF Recheck
<1>5. CASE MarkUploading
  <2> SUFFICES ASSUME NEW c \in Clips, NEW d \in Clips,
                      rowState'[c] = "uploading", rowState'[d] \in Live
               PROVE  rowId'[c] <= rowId'[d]
    OBVIOUS
  <2>1. /\ rowId' = rowId
        /\ \A e \in Clips \ {job} : rowState'[e] = rowState[e]
        /\ job \in Clips
    BY <1>5 DEF MarkUploading, Mark
  <2>2. c = job
    BY <1>5, <2>1 DEF MarkUploading
  <2>3. d # job => rowId[job] <= rowId[d]
    BY <1>5, <2>1 DEF MarkUploading
  <2> QED
    BY <2>1, <2>2, <2>3
<1>6. CASE RequestUploadUrl \/ UploadFile
  BY <1>6 DEF RequestUploadUrl, UploadFile
<1>7. CASE CompleteClip
  BY <1>7 DEF CompleteClip
<1>8. CASE MarkDone
  BY <1>8 DEF MarkDone, Mark
<1>9. CASE RemoveFile
  BY <1>9 DEF RemoveFile
<1>10. CASE HandleError
  <2> SUFFICES ASSUME NEW c \in Clips, NEW d \in Clips,
                      rowState'[c] = "uploading", rowState'[d] \in Live
               PROVE  rowId'[c] <= rowId'[d]
    OBVIOUS
  <2>1. /\ rowId' = rowId
        /\ \A e \in Clips \ {job} : rowState'[e] = rowState[e]
        /\ job \in Clips
    BY <1>10 DEF HandleError, Mark
  <2>2. c = job
    BY <1>10, <2>1 DEF HandleError
  <2>3. d # job => rowId[job] <= rowId[d]
    BY <1>10, <2>1 DEF HandleError
  <2> QED
    BY <2>1, <2>2, <2>3
<1>11. CASE ClearLocal
  BY <1>11 DEF ClearLocal, CancelAllPending, PurgeDoneFailed, ClearLocalClipFiles
<1>12. CASE SetPaused \/ SetBackendAvailable
  BY <1>12 DEF SetPaused, SetBackendAvailable
<1>13. CASE Crash
  BY <1>13 DEF Crash
<1>14. CASE UNCHANGED vars
  BY <1>14 DEF vars
<1> QED
  BY <1>1, <1>2, <1>3, <1>4, <1>5, <1>6, <1>7, <1>8, <1>9, <1>10, <1>11, <1>12,
     <1>13, <1>14 DEF Next, Uploader

(* A waiting row keeps an attempt in hand; a failed one has used them all. *)
LEMMA BudgetStep == QueueInv /\ [Next]_vars => RetryBudget'
<1> USE QueueAssumption
    DEF QueueInv, TypeOK, HeadOfLine, RetryBudget, JobHeld, Holding, RowsNumbered,
        Stages, RowStates, PCs, HasRow, Live,
        workerVars, tableVars, uploaderVars, controlVars, ghostVars
<1> SUFFICES ASSUME QueueInv, [Next]_vars PROVE RetryBudget'
  OBVIOUS
<1>1. ASSUME NEW c \in Clips, ClipWorker(c) PROVE RetryBudget'
  <2>1. CASE BeginClip(c) \/ AbortEncode(c) \/ FinishEncode(c) \/ ClipFinished(c)
    BY <2>1 DEF BeginClip, AbortEncode, FinishEncode, ClipFinished
  <2>2. CASE OnClip(c) \/ UploadFullSource(c)
    BY <2>2 DEF OnClip, UploadFullSource
  <2>3. CASE Enqueue(c)
    BY <2>3 DEF Enqueue
  <2> QED
    BY <1>1, <2>1, <2>2, <2>3 DEF ClipWorker
<1>2. CASE Gate
  BY <1>2 DEF Gate
<1>3. CASE Select
  BY <1>3 DEF Select, NextPending
<1>4. CASE Recheck
  BY <1>4 DEF Recheck
<1>5. CASE MarkUploading
  BY <1>5 DEF MarkUploading, Mark
<1>6. CASE RequestUploadUrl \/ UploadFile
  BY <1>6 DEF RequestUploadUrl, UploadFile
<1>7. CASE CompleteClip
  BY <1>7 DEF CompleteClip
<1>8. CASE MarkDone
  BY <1>8 DEF MarkDone, Mark
<1>9. CASE RemoveFile
  BY <1>9 DEF RemoveFile
<1>10. CASE HandleError
  BY <1>10 DEF HandleError, Mark
<1>11. CASE ClearLocal
  BY <1>11 DEF ClearLocal, CancelAllPending, PurgeDoneFailed, ClearLocalClipFiles
<1>12. CASE SetPaused \/ SetBackendAvailable
  BY <1>12 DEF SetPaused, SetBackendAvailable
<1>13. CASE Crash
  BY <1>13 DEF Crash
<1>14. CASE UNCHANGED vars
  BY <1>14 DEF vars
<1> QED
  BY <1>1, <1>2, <1>3, <1>4, <1>5, <1>6, <1>7, <1>8, <1>9, <1>10, <1>11, <1>12,
     <1>13, <1>14 DEF Next, Uploader

(* Each new copy is paid for by a lost reply or a crash, or is the first.  *)
LEMMA CopyStep == QueueInv /\ [Next]_vars => (NextCopyExplained /\ DuplicatesExplained)'
<1> USE QueueAssumption
    DEF QueueInv, TypeOK, NextCopyExplained, DuplicatesExplained, JobHeld, Holding, RowsNumbered,
        Stages, RowStates, PCs, HasRow, Live,
        workerVars, tableVars, uploaderVars, controlVars, ghostVars
<1> SUFFICES ASSUME QueueInv, [Next]_vars PROVE (NextCopyExplained /\ DuplicatesExplained)'
  OBVIOUS
<1>1. ASSUME NEW c \in Clips, ClipWorker(c) PROVE (NextCopyExplained /\ DuplicatesExplained)'
  <2>1. CASE BeginClip(c) \/ AbortEncode(c) \/ FinishEncode(c) \/ ClipFinished(c)
    BY <2>1 DEF BeginClip, AbortEncode, FinishEncode, ClipFinished
  <2>2. CASE OnClip(c) \/ UploadFullSource(c)
    BY <2>2 DEF OnClip, UploadFullSource
  <2>3. CASE Enqueue(c)
    BY <2>3 DEF Enqueue
  <2> QED
    BY <1>1, <2>1, <2>2, <2>3 DEF ClipWorker
<1>2. CASE Gate
  BY <1>2 DEF Gate
<1>3. CASE Select
  BY <1>3 DEF Select, NextPending
<1>4. CASE Recheck
  BY <1>4 DEF Recheck
<1>5. CASE MarkUploading
  BY <1>5 DEF MarkUploading, Mark
<1>6. CASE RequestUploadUrl \/ UploadFile
  BY <1>6 DEF RequestUploadUrl, UploadFile
<1>7. CASE CompleteClip
  BY <1>7 DEF CompleteClip
<1>8. CASE MarkDone
  BY <1>8 DEF MarkDone, Mark
<1>9. CASE RemoveFile
  BY <1>9 DEF RemoveFile
<1>10. CASE HandleError
  BY <1>10 DEF HandleError, Mark
<1>11. CASE ClearLocal
  BY <1>11 DEF ClearLocal, CancelAllPending, PurgeDoneFailed, ClearLocalClipFiles
<1>12. CASE SetPaused \/ SetBackendAvailable
  BY <1>12 DEF SetPaused, SetBackendAvailable
<1>13. CASE Crash
  BY <1>13 DEF Crash
<1>14. CASE UNCHANGED vars
  BY <1>14 DEF vars
<1> QED
  BY <1>1, <1>2, <1>3, <1>4, <1>5, <1>6, <1>7, <1>8, <1>9, <1>10, <1>11, <1>12,
     <1>13, <1>14 DEF Next, Uploader

(* The inductive invariant holds in every reachable state.                 *)
THEOREM Invariance == Spec => []QueueInv
<1>1. QueueInv /\ [Next]_vars => QueueInv'
  BY TypeStep, RowsStep, FilesStep, JobStep, OrderStep, BudgetStep, CopyStep
     DEF QueueInv
<1> QED
  BY InitQueueInv, <1>1, PTL DEF Spec

(* Every variable of the queue keeps its type, for any instance.           *)
THEOREM TypeCorrect == Spec => []TypeOK
<1>1. QueueInv => TypeOK
  BY DEF QueueInv
<1> QED
  BY Invariance, <1>1, PTL

(* An enqueued clip the operator did not clear is waiting or failed, with  *)
(* its file on disk, until the backend has a copy: however the uploader,   *)
(* the clip workers, clear-local and crashes interleave.                   *)
THEOREM Durability == Spec => []NoSilentLoss
<1>1. QueueInv => NoSilentLoss
  BY DEF QueueInv, NoSilentLoss, FilesKept, RowsNumbered, TypeOK, RowStates, Live
<1> QED
  BY Invariance, <1>1, PTL

(* Rows are uploaded in the order of their ids: no older row waits while a *)
(* younger one is being uploaded, or was left uploading by a crash.        *)
THEOREM Fifo == Spec => []HeadOfLine
<1>1. QueueInv => HeadOfLine
  BY DEF QueueInv
<1> QED
  BY Invariance, <1>1, PTL

(* A waiting row has attempts left and a failed one has none.              *)
THEOREM BoundedRetries == Spec => []RetryBudget
<1>1. QueueInv => RetryBudget
  BY DEF QueueInv
<1> QED
  BY Invariance, <1>1, PTL

(* Every copy after the first one is due to a lost reply or a crash.       *)
THEOREM AtLeastOnce == Spec => []DuplicatesExplained
<1>1. QueueInv => DuplicatesExplained
  BY DEF QueueInv
<1> QED
  BY Invariance, <1>1, PTL

(* The initial states of the queue are initial states of the promise.      *)
LEMMA PromiseInit == Init => Promise!Init
  BY DEF Init, Promise!Init, PromiseStatus, Live

(* Steps that change no row, no count, no copy and no discarded clip are   *)
(* stuttering steps of the promise.                                        *)
LEMMA Stutters ==
  ASSUME UNCHANGED <<rowState, retries, copies, discarded>>
  PROVE  UNCHANGED Promise!deliveryVars
  BY DEF Promise!deliveryVars, PromiseStatus, Live

(* Every step of the queue is a step of the promise, or a stutter.         *)
LEMMA PromiseStep == QueueInv /\ [Next]_vars => [Promise!Next]_(Promise!deliveryVars)
<1> USE QueueAssumption
    DEF QueueInv, TypeOK, JobHeld, Holding, RowsNumbered, FilesKept, Stages, RowStates,
        PCs, HasRow, Live, workerVars, tableVars, uploaderVars, controlVars,
        ghostVars
<1> SUFFICES ASSUME QueueInv, [Next]_vars
             PROVE  [Promise!Next]_(Promise!deliveryVars)
  OBVIOUS
<1>1. ASSUME NEW c \in Clips, ClipWorker(c)
      PROVE  [Promise!Next]_(Promise!deliveryVars)
  <2>1. CASE Enqueue(c)
    <3>1. CASE c \in discarded
      <4>1. UNCHANGED Promise!deliveryVars
        BY <2>1, <3>1 DEF Enqueue, Promise!deliveryVars, PromiseStatus
      <4> QED BY <4>1
    <3>2. CASE c \notin discarded
      <4>1. PromiseStatus[c] = "none"
        BY <2>1, <3>2 DEF Enqueue, PromiseStatus
      <4>2. PromiseStatus' = [d \in Clips |-> IF d = c THEN "queued"
                                               ELSE PromiseStatus[d]]
        BY <2>1, <3>2 DEF Enqueue, PromiseStatus
      <4>3. PromiseStatus' = [PromiseStatus EXCEPT ![c] = "queued"]
        BY <4>2 DEF PromiseStatus
      <4>4. Promise!Accept(c)
        BY <2>1, <4>1, <4>3 DEF Enqueue, Promise!Accept
      <4> QED BY <4>4 DEF Promise!Next
    <3> QED BY <3>1, <3>2
  <2>2. CASE ~Enqueue(c)
    BY <1>1, <2>2, Stutters
       DEF ClipWorker, BeginClip, AbortEncode, FinishEncode, ClipFinished, OnClip,
           UploadFullSource
  <2> QED BY <2>1, <2>2
<1>2. CASE Gate \/ Select \/ Recheck \/ RequestUploadUrl \/ UploadFile \/ RemoveFile
  BY <1>2, Stutters
     DEF Gate, Select, Recheck, RequestUploadUrl, UploadFile, RemoveFile
<1>3. CASE MarkUploading
  <2>1. UNCHANGED Promise!deliveryVars
    BY <1>3 DEF MarkUploading, Mark, Promise!deliveryVars, PromiseStatus
  <2> QED BY <2>1
<1>4. CASE CompleteClip
  <2>1. CASE copies' = copies
    BY <1>4, <2>1, Stutters DEF CompleteClip
  <2>2. CASE copies' # copies
    <3>1. Promise!Deliver(job)
      BY <1>4, <2>2 DEF CompleteClip, Promise!Deliver, PromiseStatus
    <3> QED BY <1>4, <3>1 DEF CompleteClip, Promise!Next
  <2> QED BY <2>1, <2>2
<1>5. CASE MarkDone
  <2>1. CASE rowState[job] \in Live /\ job \notin discarded
    <3>1. Promise!Confirm(job)
      BY <1>5, <2>1 DEF MarkDone, Mark, Promise!Confirm, PromiseStatus
    <3> QED BY <1>5, <3>1 DEF MarkDone, Promise!Next
  <2>2. CASE ~(rowState[job] \in Live /\ job \notin discarded)
    <3>1. UNCHANGED Promise!deliveryVars
      BY <1>5, <2>2 DEF MarkDone, Mark, Promise!deliveryVars, PromiseStatus
    <3> QED BY <3>1
  <2> QED BY <2>1, <2>2
<1>6. CASE HandleError
  <2>1. CASE rowState[job] \in HasRow
    <3>1. Promise!Reject(job)
      BY <1>6, <2>1 DEF HandleError, Mark, Promise!Reject, PromiseStatus
    <3> QED BY <1>6, <3>1 DEF HandleError, Promise!Next
  <2>2. CASE rowState[job] \notin HasRow
    BY <1>6, <2>2, Stutters DEF HandleError, Mark
  <2> QED BY <2>1, <2>2
<1>7. CASE ClearLocal
  <2>1. Promise!Discard(discarded')
    BY <1>7 DEF ClearLocal, CancelAllPending, PurgeDoneFailed, ClearLocalClipFiles,
                Promise!Discard, PromiseStatus
  <2>2. discarded' \in SUBSET Clips
    BY <1>7 DEF ClearLocal, CancelAllPending, PurgeDoneFailed, ClearLocalClipFiles
  <2> QED BY <2>1, <2>2 DEF Promise!Next
<1>8. CASE SetPaused \/ SetBackendAvailable \/ Crash
  BY <1>8, Stutters DEF SetPaused, SetBackendAvailable, Crash
<1>9. CASE UNCHANGED vars
  BY <1>9, Stutters DEF vars
<1> QED
  BY <1>1, <1>2, <1>3, <1>4, <1>5, <1>6, <1>7, <1>8, <1>9 DEF Next, Uploader

(* The upload queue implements the delivery promise.                       *)
THEOREM Refinement == Spec => KeepsPromise
<1> QED
  BY PromiseInit, PromiseStep, Invariance, PTL DEF Spec, KeepsPromise, Promise!Spec

=============================================================================
