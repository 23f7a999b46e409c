---------------------------- MODULE ClipAnalysis ----------------------------
(***************************************************************************)
(* A clip on the server side: the upload handshake, the Redis list of      *)
(* analysis jobs, the cloud-ai workers with their retries and dead         *)
(* letters, the ingest of their results (two transactions and a            *)
(* fire-and-forget cross-camera search), reviews, and the deletion of      *)
(* clips, with Redis errors and crashes of a worker or of the backend.     *)
(*                                                                         *)
(* Source: backend/Controllers/ClipsController.cs, AiEventsController.cs,  *)
(* AlertsController.cs (Review and BulkDelete, as far as they change an    *)
(* alert's status), backend/Services/ClipQueue.cs, TheftOrchestrator.cs,   *)
(* cloud-ai/app/main.py.  A database transaction or a Redis command is one *)
(* step; everything awaited in between is open to the other actors.        *)
(***************************************************************************)
EXTENDS Naturals, SequencesExt

CONSTANTS Clips,      (* clip rows, each a fresh Guid                         *)
          Workers,    (* cloud-ai processes                                   *)
          CameraOf,   (* the camera of each clip                              *)
          Risky,      (* clips that score at or above the low band            *)
          Embedded,   (* clips whose exit events carry embeddings             *)
          MaxRetries, (* MAX_RETRIES of cloud-ai/app/main.py                  *)
          MaxFaults,  (* bound: Redis errors and crashes in one behaviour     *)
          MaxDesk,    (* bound: dashboard requests in one behaviour           *)
          None        (* no job, no alert                                     *)

ASSUME AnalysisAssumption ==
    /\ MaxRetries \in Nat \ {0}
    /\ MaxFaults \in Nat
    /\ MaxDesk \in Nat
    /\ None \notin Clips

Attempts == 1..MaxRetries
AlertIds == {"risk", "cross"} \X Attempts   \* who raised it, in which attempt
Job      == [clip : Clips, attempt : 0..MaxRetries]

VARIABLES
    row,      (* Clips.Status; "none" before the row and "deleted" after it   *)
    objects,  (* clips whose object is in S3                                  *)
    complete, (* where POST /clips/{id}/complete has got                      *)
    queue,    (* the Redis list onevo:clip-jobs, leftmost element first       *)
    dead,     (* the Redis list onevo:clip-jobs:failed                        *)
    wpc,      (* where each worker is in its loop                             *)
    wjob,     (* the job it popped, _attempt already counted up               *)
    ingest,   (* where POST /ai-events has got, per clip and attempt          *)
    events,   (* attempts whose AiEvents are stored                           *)
    risk,     (* attempts whose RiskEvent is stored                           *)
    search,   (* cross-camera searches running in the background              *)
    alerts,   (* Alerts.Status per clip and alert, "absent" without a row     *)
    deletion, (* what a running DELETE of the clip has read so far            *)
    gaveUp,   (* ghost: attempts whose POST was not answered with success     *)
    lost,     (* ghost: clips whose job vanished with a fault                 *)
    faults,   (* ghost: faults so far                                         *)
    desk      (* ghost: dashboard requests so far                             *)

clipVars   == <<row, objects, complete>>
redisVars  == <<queue, dead>>
workerVars == <<wpc, wjob>>
dataVars   == <<events, risk, search, alerts>>
ghostVars  == <<gaveUp, lost, faults, desk>>
vars == <<row, objects, complete, queue, dead, wpc, wjob, ingest, events, risk,
          search, alerts, deletion, gaveUp, lost, faults, desk>>

Exists(c)  == row[c] \notin {"none", "deleted"}
NotRunning == [phase |-> "idle", alert |-> None, events |-> {}, risk |-> {}]

Init ==
    /\ row = [c \in Clips |-> "none"]
    /\ objects = {}
    /\ complete = [c \in Clips |-> "idle"]
    /\ queue = <<>>
    /\ dead = <<>>
    /\ wpc = [w \in Workers |-> "idle"]
    /\ wjob = [w \in Workers |-> None]
    /\ ingest = [c \in Clips |-> [n \in Attempts |-> "none"]]
    /\ events = [c \in Clips |-> {}]
    /\ risk = [c \in Clips |-> {}]
    /\ search = {}
    /\ alerts = [c \in Clips |-> [a \in AlertIds |-> "absent"]]
    /\ deletion = [c \in Clips |-> NotRunning]
    /\ gaveUp = [c \in Clips |-> {}]
    /\ lost = {}
    /\ faults = 0
    /\ desk = 0

Fault   == faults < MaxFaults /\ faults' = faults + 1
Request == desk < MaxDesk /\ desk' = desk + 1

-----------------------------------------------------------------------------
(* The connector's side of the handshake.                                  *)

UploadUrl(c) ==
    /\ row[c] = "none"
    /\ row' = [row EXCEPT ![c] = "Pending"]
    /\ UNCHANGED <<objects, complete, redisVars, workerVars, ingest, dataVars,
                   deletion, ghostVars>>

\* The PUT to the presigned url; S3 knows nothing of the row.
PutObject(c) ==
    /\ row[c] # "none" /\ complete[c] = "idle" /\ c \notin objects
    /\ objects' = objects \cup {c}
    /\ UNCHANGED <<row, complete, redisVars, workerVars, ingest, dataVars,
                   deletion, ghostVars>>

\* Complete up to its SaveChanges: 404 and 400 end it.
CompleteSave(c) ==
    /\ complete[c] = "idle" /\ row[c] # "none"
    /\ \/ /\ Exists(c) /\ c \in objects
          /\ row' = [row EXCEPT ![c] = "Uploaded"]
          /\ complete' = [complete EXCEPT ![c] = "saved"]
       \/ /\ ~(Exists(c) /\ c \in objects)
          /\ complete' = [complete EXCEPT ![c] = "refused"]
          /\ UNCHANGED row
    /\ UNCHANGED <<objects, redisVars, workerVars, ingest, dataVars, deletion,
                   ghostVars>>

\* Mutant: the Redis error is swallowed and the connector told that all is well.
CompleteEnqueueSwallowed(c) ==
    /\ complete[c] = "saved"
    /\ complete' = [complete EXCEPT ![c] = "ok"]
    /\ \/ queue' = <<[clip |-> c, attempt |-> 0]>> \o queue /\ UNCHANGED faults
       \/ UNCHANGED queue /\ Fault
    /\ UNCHANGED <<row, objects, dead, workerVars, ingest, dataVars, deletion,
                   gaveUp, lost, desk>>

\* ClipQueue.EnqueueAsync.  A Redis error becomes a 500, whether or not the
\* push was carried out; the connector then starts over with a new clip row.
CompleteEnqueue(c) ==
    /\ complete[c] = "saved"
    /\ \/ /\ queue' = <<[clip |-> c, attempt |-> 0]>> \o queue
          /\ \/ complete' = [complete EXCEPT ![c] = "ok"] /\ UNCHANGED faults
             \/ complete' = [complete EXCEPT ![c] = "refused"] /\ Fault
       \/ /\ complete' = [complete EXCEPT ![c] = "refused"]
          /\ Fault
          /\ UNCHANGED queue
    /\ UNCHANGED <<row, objects, dead, workerVars, ingest, dataVars, deletion,
                   gaveUp, lost, desk>>

-----------------------------------------------------------------------------
(* The worker loop of cloud-ai/app/main.py.                                *)

\* BRPOP takes the rightmost job; _attempt is counted up in the envelope.  A
\* connection that breaks after the pop takes the job with it.
BRPop(w) ==
    /\ wpc[w] = "idle" /\ queue # <<>>
    /\ queue' = Front(queue)
    /\ \/ /\ wpc' = [wpc EXCEPT ![w] = "taken"]
          /\ wjob' = [wjob EXCEPT ![w] = [Last(queue) EXCEPT !.attempt = @ + 1]]
          /\ UNCHANGED <<lost, faults>>
       \/ /\ lost' = lost \cup {Last(queue).clip}
          /\ Fault
          /\ UNCHANGED workerVars
    /\ UNCHANGED <<clipVars, dead, ingest, dataVars, deletion, gaveUp, desk>>

\* process_job up to the POST: the download, the zones and the detector may
\* each fail; a missing object is told apart from the other failures.
ProcessJob(w) ==
    /\ wpc[w] = "taken"
    /\ LET c == wjob[w].clip
           n == wjob[w].attempt
       IN \/ /\ c \in objects
             /\ wpc' = [wpc EXCEPT ![w] = "posting"]
             /\ ingest' = [ingest EXCEPT ![c][n] = "sent"]
          \/ /\ wpc' = [wpc EXCEPT ![w] = IF c \in objects THEN "failed" ELSE "missing"]
             /\ UNCHANGED ingest
          \/ /\ wpc' = [wpc EXCEPT ![w] = "failed"]
             /\ UNCHANGED ingest
    /\ UNCHANGED <<clipVars, redisVars, wjob, dataVars, deletion, ghostVars>>

\* Mutants: an answer sent after the first transaction is taken for success; a
\* good answer that cannot be parsed is taken for a failure.
PostAnsweredEarly(w) ==
    /\ wpc[w] = "posting"
    /\ ingest[wjob[w].clip][wjob[w].attempt] \in {"saved", "scored"}
    /\ wpc' = [wpc EXCEPT ![w] = "idle"]
    /\ wjob' = [wjob EXCEPT ![w] = None]
    /\ UNCHANGED <<clipVars, redisVars, ingest, dataVars, deletion, ghostVars>>

PostAnsweredMisread(w) ==
    /\ wpc[w] = "posting"
    /\ ingest[wjob[w].clip][wjob[w].attempt] = "scored"
    /\ wpc' = [wpc EXCEPT ![w] = "failed"]
    /\ UNCHANGED <<clipVars, redisVars, wjob, ingest, dataVars, deletion, ghostVars>>

PostAnswered(w) ==
    /\ wpc[w] = "posting"
    /\ ingest[wjob[w].clip][wjob[w].attempt] = "scored"
    /\ wpc' = [wpc EXCEPT ![w] = "idle"]
    /\ wjob' = [wjob EXCEPT ![w] = None]
    /\ UNCHANGED <<clipVars, redisVars, ingest, dataVars, deletion, ghostVars>>

\* An error answer, a refused connection, or the 30 second timeout, wherever
\* the handler is by then: it runs on without its client.
PostFailed(w) ==
    /\ wpc[w] = "posting"
    /\ wpc' = [wpc EXCEPT ![w] = "failed"]
    /\ gaveUp' = [gaveUp EXCEPT ![wjob[w].clip] = @ \cup {wjob[w].attempt}]
    /\ UNCHANGED <<clipVars, redisVars, wjob, ingest, dataVars, deletion, lost,
                   faults, desk>>

\* Mutant: one attempt too many.
RetriableOneMore(w) == wpc[w] = "failed" /\ wjob[w].attempt <= MaxRetries

Retriable(w) == wpc[w] = "failed" /\ wjob[w].attempt < MaxRetries

\* Mutants: the unchanged payload is pushed again, without its _attempt; a failed
\* job is noted among the dead letters even when it is to be retried.
HandleJobErrorPayload(w) ==
    /\ wpc[w] \in {"failed", "missing"}
    /\ IF Retriable(w)
       THEN queue' = <<[wjob[w] EXCEPT !.attempt = @ - 1]>> \o queue /\ UNCHANGED dead
       ELSE dead' = <<wjob[w]>> \o dead /\ UNCHANGED queue
    /\ wpc' = [wpc EXCEPT ![w] = "idle"]
    /\ wjob' = [wjob EXCEPT ![w] = None]
    /\ UNCHANGED <<clipVars, ingest, dataVars, deletion, ghostVars>>

HandleJobErrorTwice(w) ==
    /\ wpc[w] \in {"failed", "missing"}
    /\ queue' = IF Retriable(w) THEN <<wjob[w]>> \o queue ELSE queue
    /\ dead' = <<wjob[w]>> \o dead
    /\ wpc' = [wpc EXCEPT ![w] = "idle"]
    /\ wjob' = [wjob EXCEPT ![w] = None]
    /\ UNCHANGED <<clipVars, ingest, dataVars, deletion, ghostVars>>

\* The except branch of the job.  LPUSH onto the job list or onto the dead
\* letters; if that raises, the outer handler logs and the loop goes on.
HandleJobError(w) ==
    /\ wpc[w] \in {"failed", "missing"}
    /\ \/ /\ IF Retriable(w)
             THEN queue' = <<wjob[w]>> \o queue /\ UNCHANGED dead
             ELSE dead' = <<wjob[w]>> \o dead /\ UNCHANGED queue
          /\ UNCHANGED <<lost, faults>>
       \/ /\ lost' = lost \cup {wjob[w].clip}
          /\ Fault
          /\ UNCHANGED redisVars
    /\ wpc' = [wpc EXCEPT ![w] = "idle"]
    /\ wjob' = [wjob EXCEPT ![w] = None]
    /\ UNCHANGED <<clipVars, ingest, dataVars, deletion, gaveUp, desk>>

-----------------------------------------------------------------------------
(* POST /ai-events.                                                        *)

IngestFind(c, n) ==
    /\ ingest[c][n] = "sent"
    /\ ingest' = [ingest EXCEPT ![c][n] = IF Exists(c) THEN "found" ELSE "refused"]
    /\ UNCHANGED <<clipVars, redisVars, workerVars, dataVars, deletion, ghostVars>>

\* Mutant: the clip is written back whether or not its row is still there.
IngestSaveUpsert(c, n) ==
    /\ ingest[c][n] = "found"
    /\ row' = [row EXCEPT ![c] = "Analyzed"]
    /\ events' = [events EXCEPT ![c] = @ \cup {n}]
    /\ ingest' = [ingest EXCEPT ![c][n] = "saved"]
    /\ UNCHANGED <<objects, complete, redisVars, workerVars, risk, search,
                   alerts, deletion, ghostVars>>

\* The first SaveChanges: events and the clip's status in one transaction,
\* which fails as a whole when the clip row has gone meanwhile.
IngestSave(c, n) ==
    /\ ingest[c][n] = "found"
    /\ \/ /\ Exists(c)
          /\ row' = [row EXCEPT ![c] = "Analyzed"]
          /\ events' = [events EXCEPT ![c] = @ \cup {n}]
          /\ ingest' = [ingest EXCEPT ![c][n] = "saved"]
       \/ /\ ingest' = [ingest EXCEPT ![c][n] = "refused"]
          /\ UNCHANGED <<row, events>>
    /\ UNCHANGED <<objects, complete, redisVars, workerVars, risk, search,
                   alerts, deletion, ghostVars>>

\* The second SaveChanges: the risk event, and an alert if the score reaches
\* the low band.  No foreign key ties either to the clip row.  The cross-camera
\* search is started if the events carry embeddings.
IngestScore(c, n) ==
    /\ ingest[c][n] = "saved"
    /\ \/ /\ risk' = [risk EXCEPT ![c] = @ \cup {n}]
          /\ alerts' = IF c \in Risky
                       THEN [alerts EXCEPT ![c][<<"risk", n>>] = "PendingReview"]
                       ELSE alerts
          /\ search' = IF c \in Embedded THEN search \cup {<<c, n>>} ELSE search
          /\ ingest' = [ingest EXCEPT ![c][n] = "scored"]
       \/ /\ ingest' = [ingest EXCEPT ![c][n] = "refused"]
          /\ UNCHANGED <<risk, alerts, search>>
    /\ UNCHANGED <<clipVars, redisVars, workerVars, events, deletion, ghostVars>>

\* EvaluateCrossCameraTheftAsync: needs events stored for another camera.  Its
\* task is not awaited: an exception ends it without a trace.
CrossCamera(c, n) ==
    /\ <<c, n>> \in search
    /\ search' = search \ {<<c, n>>}
    /\ \/ /\ \E d \in Clips : CameraOf[d] # CameraOf[c] /\ events[d] # {}
          /\ alerts' = [alerts EXCEPT ![c][<<"cross", n>>] = "PendingReview"]
       \/ UNCHANGED alerts
    /\ UNCHANGED <<clipVars, redisVars, workerVars, ingest, events, risk,
                   deletion, ghostVars>>

-----------------------------------------------------------------------------
(* People at the dashboard.                                                *)

AlertsOf(c) == {a \in AlertIds : alerts[c][a] # "absent"}

\* PUT /alerts/{id}/review; a later review may change the verdict.
Review(c, a) ==
    /\ a \in AlertsOf(c)
    /\ \E s \in {"Confirmed", "Dismissed"} : alerts' = [alerts EXCEPT ![c][a] = s]
    /\ Request
    /\ UNCHANGED <<clipVars, redisVars, workerVars, ingest, events, risk, search,
                   deletion, gaveUp, lost, faults>>

BulkDeleteAlerts(c, a) ==
    /\ a \in AlertsOf(c)
    /\ alerts' = [alerts EXCEPT ![c][a] = "absent"]
    /\ Request
    /\ UNCHANGED <<clipVars, redisVars, workerVars, ingest, events, risk, search,
                   deletion, gaveUp, lost, faults>>

\* TryDeleteClipAsync up to its check.  FirstOrDefault has no order: it looks
\* at any one alert of the clip.
DeleteCheck(c) ==
    /\ deletion[c].phase = "idle" /\ Exists(c)
    /\ \E a \in (IF AlertsOf(c) = {} THEN {None} ELSE AlertsOf(c)) :
          /\ a # None => alerts[c][a] # "Confirmed"
          /\ deletion' = [deletion EXCEPT ![c] = [NotRunning EXCEPT !.phase = "checked",
                                                                    !.alert = a]]
    /\ Request
    /\ UNCHANGED <<clipVars, redisVars, workerVars, ingest, dataVars, gaveUp,
                   lost, faults>>

\* The S3 delete, which may fail, and the lists of rows to remove.
DeleteObject(c) ==
    /\ deletion[c].phase = "checked"
    /\ \/ /\ objects' = objects \ {c}
          /\ deletion' = [deletion EXCEPT ![c].phase = "listed",
                                          ![c].events = events[c],
                                          ![c].risk = risk[c]]
       \/ /\ deletion' = [deletion EXCEPT ![c] = NotRunning]
          /\ UNCHANGED objects
    /\ UNCHANGED <<row, complete, redisVars, workerVars, ingest, dataVars, ghostVars>>

\* SaveChanges, one transaction.  It can fail, and does when the alert row it
\* read has gone.
DeleteRows(c) ==
    /\ deletion[c].phase = "listed"
    /\ deletion' = [deletion EXCEPT ![c] = NotRunning]
    /\ LET a == deletion[c].alert IN
       \/ /\ a # None => alerts[c][a] # "absent"
          /\ row' = [row EXCEPT ![c] = "deleted"]
          /\ events' = [events EXCEPT ![c] = @ \ deletion[c].events]
          /\ risk' = [risk EXCEPT ![c] = @ \ deletion[c].risk]
          /\ alerts' = IF a = None THEN alerts ELSE [alerts EXCEPT ![c][a] = "absent"]
       \/ UNCHANGED <<row, events, risk, alerts>>
    /\ UNCHANGED <<objects, complete, redisVars, workerVars, ingest, search, ghostVars>>

-----------------------------------------------------------------------------
(* Crashes.                                                                *)

WorkerCrash(w) ==
    /\ wpc[w] # "idle"
    /\ Fault
    /\ lost' = lost \cup {wjob[w].clip}
    /\ wpc' = [wpc EXCEPT ![w] = "idle"]
    /\ wjob' = [wjob EXCEPT ![w] = None]
    /\ UNCHANGED <<clipVars, redisVars, ingest, dataVars, deletion, gaveUp, desk>>

\* Every handler and background task stops where it is.
BackendCrash ==
    /\ Fault
    /\ complete' = [c \in Clips |-> IF complete[c] = "saved" THEN "refused" ELSE complete[c]]
    /\ ingest' = [c \in Clips |-> [n \in Attempts |->
                    IF ingest[c][n] \in {"sent", "found", "saved", "scored"}
                    THEN "refused" ELSE ingest[c][n]]]
    /\ search' = {}
    /\ deletion' = [c \in Clips |-> NotRunning]
    /\ UNCHANGED <<row, objects, redisVars, workerVars, events, risk, alerts,
                   gaveUp, lost, desk>>

\* Redis starts empty: its container, which has no volume, was created anew, or
\* it crashed before a snapshot.  Every waiting job and dead letter goes at once.
RedisLoss ==
    /\ queue \o dead # <<>>
    /\ Fault
    /\ queue' = <<>> /\ dead' = <<>>
    /\ lost' = lost \cup {j.clip : j \in ToSet(queue \o dead)}
    /\ UNCHANGED <<clipVars, workerVars, ingest, dataVars, deletion, gaveUp, desk>>

-----------------------------------------------------------------------------
Worker(w) ==
    \/ BRPop(w) \/ ProcessJob(w) \/ PostAnswered(w) \/ PostFailed(w)
    \/ HandleJobError(w)

Ingest(c, n) == IngestFind(c, n) \/ IngestSave(c, n) \/ IngestScore(c, n) \/ CrossCamera(c, n)

Next ==
    \/ \E c \in Clips : \/ UploadUrl(c) \/ PutObject(c) \/ CompleteSave(c)
                        \/ CompleteEnqueue(c)
                        \/ DeleteCheck(c) \/ DeleteObject(c) \/ DeleteRows(c)
                        \/ \E n \in Attempts : Ingest(c, n)
                        \/ \E a \in AlertIds : Review(c, a) \/ BulkDeleteAlerts(c, a)
    \/ \E w \in Workers : Worker(w) \/ WorkerCrash(w)
    \/ BackendCrash \/ RedisLoss

Spec == Init /\ [][Next]_vars

\* A worker loop never stops by itself: BRPOP, the HTTP calls and LPUSH all
\* return or raise within their timeouts.  Nothing is asked of the backend.
FairSpec == Spec /\ \A w \in Workers : WF_vars(Worker(w))

-----------------------------------------------------------------------------
TypeOK ==
    /\ row \in [Clips -> {"none", "Pending", "Uploaded", "Analyzed", "deleted"}]
    /\ objects \in SUBSET Clips
    /\ complete \in [Clips -> {"idle", "saved", "ok", "refused"}]
    /\ queue \in Seq(Job)
    /\ dead \in Seq(Job)
    /\ wpc \in [Workers -> {"idle", "taken", "posting", "failed", "missing"}]
    /\ wjob \in [Workers -> Job \cup {None}]
    /\ ingest \in [Clips -> [Attempts -> {"none", "sent", "found", "saved",
                                          "scored", "refused"}]]
    /\ events \in [Clips -> SUBSET Attempts]
    /\ risk \in [Clips -> SUBSET Attempts]
    /\ search \in SUBSET (Clips \X Attempts)
    /\ alerts \in [Clips -> [AlertIds -> {"absent", "PendingReview", "Confirmed",
                                           "Dismissed"}]]
    /\ deletion \in [Clips -> [phase : {"idle", "checked", "listed"},
                              alert : AlertIds \cup {None},
                              events : SUBSET Attempts, risk : SUBSET Attempts]]
    /\ gaveUp \in [Clips -> SUBSET Attempts]
    /\ lost \in SUBSET Clips
    /\ faults \in 0..MaxFaults
    /\ desk \in 0..MaxDesk

InQueue(c) == {i \in DOMAIN queue : queue[i].clip = c}
Held(c)    == {w \in Workers : wpc[w] # "idle" /\ wjob[w].clip = c}
InDead(c)  == {i \in DOMAIN dead : dead[i].clip = c}

\* There is one job for a clip at any time: whatever fails and is pushed again,
\* it is in the list, with one worker or among the dead letters, never in two
\* places; and no envelope that still counts has used up its attempts.
SingleEnvelope ==
    /\ \A c \in Clips :
         Cardinality(InQueue(c)) + Cardinality(Held(c)) + Cardinality(InDead(c)) <= 1
    /\ \A i \in DOMAIN queue : queue[i].attempt < MaxRetries

\* A clip whose upload was acknowledged to the connector is accounted for: it
\* waits, is being worked on, was scored or deleted, is a dead letter, or its
\* job went with a fault that really happened.
UploadsAccountedFor ==
    \A c \in Clips : complete[c] = "ok" =>
        \/ InQueue(c) # {} \/ Held(c) # {} \/ InDead(c) # {}
        \/ risk[c] # {} \/ row[c] = "deleted"
        \/ c \in lost

\* "Analyzed" is written one transaction before the score.  A clip that shows
\* as analyzed and has no score is not forgotten: its ingest is still running,
\* its job is still to be retried, or somebody can find it among the dead
\* letters or the faults.
AnalyzedIsScored ==
    \A c \in Clips : (row[c] = "Analyzed" /\ risk[c] = {}) =>
        \/ \E n \in Attempts : ingest[c][n] \in {"found", "saved"}
        \/ InQueue(c) # {} \/ Held(c) # {} \/ InDead(c) # {}
        \/ c \in lost

\* Ingest is not idempotent: every score beyond the last is due to an attempt
\* whose POST was answered with an error or not in time.
SecondScoresExplained ==
    \A c \in Clips : \A m, n \in risk[c] : m < n => m \in gaveUp[c]

\* No handler brings the row of a deleted clip back.
DeletedStaysDeleted ==
    [][\A c \in Clips : row[c] = "deleted" => row'[c] = "deleted"]_vars

\* Every job in the list is eventually scored, dead-lettered or lost, whatever
\* the backend does.
JobsSettle ==
    \A c \in Clips : (InQueue(c) # {}) ~> (InQueue(c) = {} /\ Held(c) = {})

-----------------------------------------------------------------------------
(* What comments in the code say and the code does not do.                 *)

\* cloud-ai/app/main.py: "Worker-level error (Redis, etc.) -- don't lose the
\* current job."  After an error the job can be found in one of the lists.
WorkerErrorKeepsJob ==
    [][\A w \in Workers : HandleJobError(w) => wjob[w].clip \notin lost']_vars

\* ClipsController: "Cannot delete clip linked to a confirmed alert".
ConfirmedClipKept ==
    [][\A c \in Clips : (row[c] # "deleted" /\ row'[c] = "deleted") =>
            \A a \in AlertIds : alerts[c][a] # "Confirmed"]_vars
=============================================================================
