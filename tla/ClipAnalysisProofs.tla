------------------------- MODULE ClipAnalysisProofs -------------------------
(***************************************************************************)
(* Proofs about ClipAnalysis, for every set of clips and workers, every    *)
(* retry budget and every number of faults and dashboard requests.         *)
(*                                                                         *)
(* AnalysisInv is the inductive invariant.  What makes it hang together is *)
(* that a clip has one envelope: a worker that posts an attempt is then    *)
(* the only one to do so, and attempts are posted in order.                *)
(***************************************************************************)
EXTENDS ClipAnalysis, FiniteSetTheorems, TLAPS

Deletion == [phase : {"idle", "checked", "listed"}, alert : AlertIds \cup {None},
             events : SUBSET Attempts, risk : SUBSET Attempts]

Working(w)   == wpc[w] # "idle"
Posted(c, n) == ingest[c][n] # "none"

(* Attempts are counted within the budget wherever an envelope is.         *)
AttemptsBounded ==
    /\ \A i \in DOMAIN queue : queue[i].attempt < MaxRetries
    /\ \A w \in Workers : Working(w) => wjob[w] \in Job /\ wjob[w].attempt \in Attempts

(* One envelope for a clip, in the list, with a worker or dead.            *)
OneEnvelope ==
    /\ \A i, j \in DOMAIN queue : queue[i].clip = queue[j].clip => i = j
    /\ \A i, j \in DOMAIN dead : dead[i].clip = dead[j].clip => i = j
    /\ \A v, w \in Workers :
         Working(v) /\ Working(w) /\ wjob[v].clip = wjob[w].clip => v = w
    /\ \A i \in DOMAIN queue, j \in DOMAIN dead : queue[i].clip # dead[j].clip
    /\ \A i \in DOMAIN queue, w \in Workers : Working(w) => wjob[w].clip # queue[i].clip
    /\ \A i \in DOMAIN dead, w \in Workers : Working(w) => wjob[w].clip # dead[i].clip

(* Before the handshake's push there is none, and nothing was posted.      *)
FreshUntilPushed ==
    \A c \in Clips : complete[c] \in {"idle", "saved"} =>
        /\ \A i \in DOMAIN queue : queue[i].clip # c
        /\ \A i \in DOMAIN dead : dead[i].clip # c
        /\ \A w \in Workers : Working(w) => wjob[w].clip # c
        /\ \A n \in Attempts : ~Posted(c, n)

(* Statuses, scores and handlers agree.                                    *)
ScoresPosted ==
    \A c \in Clips :
        /\ \A n \in risk[c] : Posted(c, n)
        /\ \A n \in Attempts : ingest[c][n] = "scored" => n \in risk[c] \/ row[c] = "deleted"
        /\ row[c] = "Analyzed" => \E n \in Attempts : Posted(c, n)

(* Attempts are posted in order, and the next one only after the one       *)
(* before was given up.                                                    *)
PostedBefore(c, n) == \A m \in Attempts : Posted(c, m) => m <= n /\ m \in gaveUp[c]

PostsInOrder ==
    /\ \A c \in Clips : \A m, n \in Attempts :
         Posted(c, m) /\ Posted(c, n) /\ m < n => m \in gaveUp[c]
    /\ \A i \in DOMAIN queue : PostedBefore(queue[i].clip, queue[i].attempt)
    /\ \A w \in Workers :
         /\ wpc[w] = "taken" => PostedBefore(wjob[w].clip, wjob[w].attempt - 1)
         /\ wpc[w] = "posting" =>
              \A m \in Attempts : Posted(wjob[w].clip, m) =>
                  m <= wjob[w].attempt /\ (m = wjob[w].attempt \/ m \in gaveUp[wjob[w].clip])
         /\ wpc[w] \in {"failed", "missing"} => PostedBefore(wjob[w].clip, wjob[w].attempt)

(* A clip that was acknowledged or posted is somewhere.                    *)
Findable(c) ==
    \/ \E i \in DOMAIN queue : queue[i].clip = c
    \/ \E w \in Workers : Working(w) /\ wjob[w].clip = c
    \/ \E i \in DOMAIN dead : dead[i].clip = c
    \/ risk[c] # {}
    \/ row[c] = "deleted"
    \/ c \in lost

Accounted ==
    \A c \in Clips :
        (complete[c] = "ok" \/ \E n \in Attempts : Posted(c, n)) => Findable(c)

AnalysisInv ==
    /\ TypeOK /\ AttemptsBounded /\ OneEnvelope /\ FreshUntilPushed
    /\ ScoresPosted /\ PostsInOrder /\ Accounted

-----------------------------------------------------------------------------
(* The list of jobs and the dead letters.                                  *)

(* LPUSH: the new envelope comes first, the others keep their order.       *)
LEMMA PushedFirst ==
  ASSUME NEW s \in Seq(Job), NEW e \in Job
  PROVE  /\ <<e>> \o s \in Seq(Job)
         /\ DOMAIN (<<e>> \o s) = 1..Len(s) + 1
         /\ (<<e>> \o s)[1] = e
         /\ \A i \in 2..Len(s) + 1 : (<<e>> \o s)[i] = s[i - 1] /\ i - 1 \in DOMAIN s
         /\ \A i \in DOMAIN s : (<<e>> \o s)[i + 1] = s[i] /\ i + 1 \in 2..Len(s) + 1
  OBVIOUS

(* BRPOP: the last envelope leaves, the others keep their places.          *)
LEMMA PoppedLast ==
  ASSUME NEW s \in Seq(Job), s # <<>>
  PROVE  /\ Front(s) \in Seq(Job)
         /\ Last(s) \in Job /\ Len(s) \in DOMAIN s /\ s[Len(s)] = Last(s)
         /\ DOMAIN Front(s) = 1..Len(s) - 1
         /\ \A i \in DOMAIN Front(s) : /\ Front(s)[i] = s[i]
                                       /\ i \in DOMAIN s /\ i # Len(s)
         /\ \A i \in DOMAIN s : i # Len(s) => i \in DOMAIN Front(s)
  BY DEF Front, Last

(* What BRPOP hands to a worker, and what HandleJobError finds there.      *)
LEMMA CountedUp ==
  ASSUME NEW j \in Job, j.attempt < MaxRetries
  PROVE  /\ [j EXCEPT !.attempt = @ + 1] \in Job
         /\ [j EXCEPT !.attempt = @ + 1].clip = j.clip
         /\ [j EXCEPT !.attempt = @ + 1].attempt = j.attempt + 1
         /\ j.attempt + 1 \in Attempts
  BY AnalysisAssumption DEF Job, Attempts

-----------------------------------------------------------------------------
(* The initial states satisfy the inductive invariant.                     *)
LEMMA InitAnalysisInv == Init => AnalysisInv
<1> SUFFICES ASSUME Init PROVE AnalysisInv
  OBVIOUS
<1>1. TypeOK
  BY AnalysisAssumption DEF Init, TypeOK, NotRunning
<1>2. AttemptsBounded /\ OneEnvelope /\ FreshUntilPushed
  BY DEF Init, AttemptsBounded, OneEnvelope, FreshUntilPushed, Working, Posted, Attempts
<1>3. ScoresPosted /\ PostsInOrder /\ Accounted
  BY DEF Init, ScoresPosted, PostsInOrder, PostedBefore, Accounted, Posted, Attempts
<1> QED
  BY <1>1, <1>2, <1>3 DEF AnalysisInv

(* A job a worker holds, by its parts.                                     *)
LEMMA HeldJob ==
  ASSUME AttemptsBounded, NEW w \in Workers, wpc[w] # "idle"
  PROVE  /\ wjob[w] \in Job /\ wjob[w].clip \in Clips /\ wjob[w].attempt \in Attempts
         /\ Working(w)
  BY DEF AttemptsBounded, Working, Job

-----------------------------------------------------------------------------
(* The types, a group of variables at a time.                              *)

ClipTypes ==
    /\ row \in [Clips -> {"none", "Pending", "Uploaded", "Analyzed", "deleted"}]
    /\ objects \in SUBSET Clips
    /\ complete \in [Clips -> {"idle", "saved", "ok", "refused"}]

ListTypes == queue \in Seq(Job) /\ dead \in Seq(Job)

WorkerTypes ==
    /\ wpc \in [Workers -> {"idle", "taken", "posting", "failed", "missing"}]
    /\ wjob \in [Workers -> Job \cup {None}]

IngestTypes ==
    ingest \in [Clips -> [Attempts -> {"none", "sent", "found", "saved",
                                       "scored", "refused"}]]

ScoreTypes ==
    /\ events \in [Clips -> SUBSET Attempts]
    /\ risk \in [Clips -> SUBSET Attempts]
    /\ search \in SUBSET (Clips \X Attempts)

AlertTypes ==
    alerts \in [Clips -> [AlertIds -> {"absent", "PendingReview", "Confirmed",
                                       "Dismissed"}]]

DeletionTypes == deletion \in [Clips -> Deletion]

GhostTypes ==
    /\ gaveUp \in [Clips -> SUBSET Attempts]
    /\ lost \in SUBSET Clips
    /\ faults \in 0..MaxFaults
    /\ desk \in 0..MaxDesk

LEMMA TypeParts ==
  TypeOK <=> /\ ClipTypes /\ ListTypes /\ WorkerTypes /\ IngestTypes /\ ScoreTypes
             /\ AlertTypes /\ DeletionTypes /\ GhostTypes
  BY DEF TypeOK, ClipTypes, ListTypes, WorkerTypes, IngestTypes, ScoreTypes,
         AlertTypes, DeletionTypes, GhostTypes, Deletion

(* The handshake, the ingest, the dashboard and a backend crash leave the  *)
(* envelopes where they are.                                               *)
LEMMA EnvelopesStay ==
  /\ \A c \in Clips :
       UploadUrl(c) \/ PutObject(c) \/ CompleteSave(c)
       \/ DeleteCheck(c) \/ DeleteObject(c) \/ DeleteRows(c)
       \/ (\E n \in Attempts : Ingest(c, n))
       \/ (\E a \in AlertIds : Review(c, a) \/ BulkDeleteAlerts(c, a))
       => UNCHANGED <<redisVars, workerVars>>
  /\ BackendCrash => UNCHANGED <<redisVars, workerVars>>
  /\ UNCHANGED vars => UNCHANGED <<redisVars, workerVars>>
  BY DEF UploadUrl, PutObject, CompleteSave, DeleteCheck, DeleteObject, DeleteRows,
         Ingest, IngestFind, IngestSave, IngestScore, CrossCamera, Review,
         BulkDeleteAlerts, BackendCrash, vars, redisVars, workerVars

(* The workers, Redis and the push touch no rows and no scores.            *)
LEMMA RowsStay ==
  /\ \A c \in Clips : CompleteEnqueue(c) =>
       UNCHANGED <<row, objects, ingest, dataVars, deletion, gaveUp, lost, desk>>
  /\ \A w \in Workers : Worker(w) \/ WorkerCrash(w) =>
       UNCHANGED <<clipVars, dataVars, deletion, desk>>
  /\ RedisLoss => UNCHANGED <<clipVars, workerVars, ingest, dataVars, deletion, gaveUp, desk>>
  BY DEF CompleteEnqueue, Worker, WorkerCrash, BRPop, ProcessJob, PostAnswered, PostFailed,
         HandleJobError, RedisLoss, clipVars, dataVars, workerVars, redisVars, ghostVars

(* The two Redis lists hold envelopes only.                                *)
LEMMA ListTypesStep == TypeOK /\ AttemptsBounded /\ [Next]_vars => ListTypes'
<1> SUFFICES ASSUME TypeOK, AttemptsBounded, [Next]_vars PROVE ListTypes'
  OBVIOUS
<1>0. ListTypes
  BY TypeParts
<1>1. CASE UNCHANGED redisVars
  BY <1>0, <1>1 DEF ListTypes, redisVars
<1>2. ASSUME NEW c \in Clips, CompleteEnqueue(c) PROVE ListTypes'
  <2> DEFINE e == [clip |-> c, attempt |-> 0]
  <2>1. e \in Job
    BY AnalysisAssumption DEF Job
  <2>2. \/ queue' = <<e>> \o queue
        \/ queue' = queue
    BY <1>2 DEF CompleteEnqueue
  <2>3. dead' = dead
    BY <1>2 DEF CompleteEnqueue
  <2> HIDE DEF e
  <2>4. <<e>> \o queue \in Seq(Job)
    BY <1>0, <2>1, PushedFirst DEF ListTypes
  <2> QED
    BY <1>0, <2>2, <2>3, <2>4 DEF ListTypes
<1>3. ASSUME NEW w \in Workers, BRPop(w) PROVE ListTypes'
  BY <1>0, <1>3, PoppedLast DEF ListTypes, BRPop
<1>4. ASSUME NEW w \in Workers, HandleJobError(w) PROVE ListTypes'
  <2> DEFINE e == wjob[w]
  <2>1. e \in Job
    BY <1>4, HeldJob DEF HandleJobError
  <2>2. /\ queue' = <<e>> \o queue \/ queue' = queue
        /\ dead' = <<e>> \o dead \/ dead' = dead
    BY <1>4 DEF HandleJobError, redisVars
  <2> HIDE DEF e
  <2>3. <<e>> \o queue \in Seq(Job) /\ <<e>> \o dead \in Seq(Job)
    BY <1>0, <2>1, PushedFirst DEF ListTypes
  <2> QED
    BY <1>0, <2>2, <2>3 DEF ListTypes
<1>5. CASE RedisLoss
  BY <1>5 DEF RedisLoss, ListTypes
<1>6. ASSUME NEW w \in Workers,
             ProcessJob(w) \/ PostAnswered(w) \/ PostFailed(w) \/ WorkerCrash(w)
      PROVE UNCHANGED redisVars
  BY <1>6 DEF ProcessJob, PostAnswered, PostFailed, WorkerCrash
<1> QED
  BY <1>1, <1>2, <1>3, <1>4, <1>5, <1>6, EnvelopesStay DEF Next, Worker

(* A worker has a place in its loop, and a job or none.                    *)
LEMMA WorkerTypesStep == TypeOK /\ AttemptsBounded /\ [Next]_vars => WorkerTypes'
<1> SUFFICES ASSUME TypeOK, AttemptsBounded, [Next]_vars PROVE WorkerTypes'
  OBVIOUS
<1>0. WorkerTypes /\ ListTypes
  BY TypeParts
<1>1. CASE UNCHANGED workerVars
  BY <1>0, <1>1 DEF WorkerTypes, workerVars
<1>2. ASSUME NEW c \in Clips, CompleteEnqueue(c) PROVE UNCHANGED workerVars
  BY <1>2 DEF CompleteEnqueue
<1>3. ASSUME NEW w \in Workers, BRPop(w) PROVE WorkerTypes'
  <2>1. Last(queue) \in Job /\ Last(queue).attempt < MaxRetries
    BY <1>0, <1>3, PoppedLast DEF BRPop, ListTypes, AttemptsBounded
  <2> DEFINE e == [Last(queue) EXCEPT !.attempt = @ + 1]
  <2>2. e \in Job
    BY <2>1, CountedUp
  <2>3. \/ wpc' = [wpc EXCEPT ![w] = "taken"] /\ wjob' = [wjob EXCEPT ![w] = e]
        \/ UNCHANGED workerVars
    BY <1>3 DEF BRPop
  <2> HIDE DEF e
  <2> QED
    BY <1>0, <2>2, <2>3 DEF WorkerTypes, workerVars
<1>4. ASSUME NEW w \in Workers,
             ProcessJob(w) \/ PostAnswered(w) \/ PostFailed(w) \/ HandleJobError(w)
             \/ WorkerCrash(w)
      PROVE WorkerTypes'
  BY <1>0, <1>4
     DEF WorkerTypes, ProcessJob, PostAnswered, PostFailed, HandleJobError, WorkerCrash
<1> QED
  BY <1>1, <1>2, <1>3, <1>4, RowsStay, EnvelopesStay DEF Next, Worker

(* Rows, objects and handshakes.                                           *)
LEMMA ClipTypesStep == TypeOK /\ [Next]_vars => ClipTypes'
<1> SUFFICES ASSUME TypeOK, [Next]_vars PROVE ClipTypes'
  OBVIOUS
<1>0. ClipTypes
  BY TypeParts
<1>1. ASSUME NEW c \in Clips,
             UploadUrl(c) \/ PutObject(c) \/ CompleteSave(c) \/ CompleteEnqueue(c)
      PROVE ClipTypes'
  BY <1>0, <1>1 DEF ClipTypes, UploadUrl, PutObject, CompleteSave, CompleteEnqueue
<1>2. ASSUME NEW c \in Clips, DeleteCheck(c) \/ DeleteObject(c) \/ DeleteRows(c)
      PROVE ClipTypes'
  BY <1>0, <1>2 DEF ClipTypes, clipVars, DeleteCheck, DeleteObject, DeleteRows
<1>3. ASSUME NEW c \in Clips, NEW n \in Attempts, Ingest(c, n) PROVE ClipTypes'
  BY <1>0, <1>3 DEF ClipTypes, clipVars, Ingest, IngestFind, IngestSave, IngestScore, CrossCamera
<1>4. CASE UNCHANGED clipVars
  BY <1>0, <1>4 DEF ClipTypes, clipVars
<1>5. ASSUME NEW c \in Clips, NEW a \in AlertIds, Review(c, a) \/ BulkDeleteAlerts(c, a)
      PROVE UNCHANGED clipVars
  BY <1>5 DEF Review, BulkDeleteAlerts
<1>6. CASE BackendCrash
  BY <1>0, <1>6 DEF ClipTypes, BackendCrash
<1>7. CASE UNCHANGED vars
  BY <1>4, <1>7 DEF vars, clipVars
<1> QED
  BY <1>1, <1>2, <1>3, <1>4, <1>5, <1>6, <1>7, RowsStay DEF Next

(* Ingest handlers.                                                        *)
LEMMA IngestTypesStep == TypeOK /\ AttemptsBounded /\ [Next]_vars => IngestTypes'
<1> SUFFICES ASSUME TypeOK, AttemptsBounded, [Next]_vars PROVE IngestTypes'
  OBVIOUS
<1>0. IngestTypes
  BY TypeParts
<1>1. CASE UNCHANGED ingest
  BY <1>0, <1>1 DEF IngestTypes
<1>2. ASSUME NEW c \in Clips,
             \/ UploadUrl(c) \/ PutObject(c) \/ CompleteSave(c) \/ CompleteEnqueue(c)
             \/ DeleteCheck(c) \/ DeleteObject(c) \/ DeleteRows(c)
             \/ \E a \in AlertIds : Review(c, a) \/ BulkDeleteAlerts(c, a)
      PROVE UNCHANGED ingest
  BY <1>2 DEF UploadUrl, PutObject, CompleteSave, CompleteEnqueue, DeleteCheck,
              DeleteObject, DeleteRows, Review, BulkDeleteAlerts
<1>3. ASSUME NEW c \in Clips, NEW n \in Attempts, Ingest(c, n) PROVE IngestTypes'
  BY <1>0, <1>3 DEF IngestTypes, Ingest, IngestFind, IngestSave, IngestScore, CrossCamera
<1>4. ASSUME NEW w \in Workers, ProcessJob(w) PROVE IngestTypes'
  <2>1. wjob[w].clip \in Clips /\ wjob[w].attempt \in Attempts
    BY <1>4, HeldJob DEF ProcessJob
  <2> QED
    BY <1>0, <1>4, <2>1 DEF IngestTypes, ProcessJob
<1>5. ASSUME NEW w \in Workers,
             \/ BRPop(w) \/ PostAnswered(w) \/ PostFailed(w) \/ HandleJobError(w)
             \/ WorkerCrash(w)
      PROVE UNCHANGED ingest
  BY <1>5 DEF BRPop, PostAnswered, PostFailed, HandleJobError, WorkerCrash
<1>6. CASE BackendCrash
  BY <1>0, <1>6 DEF IngestTypes, BackendCrash
<1> QED
  BY <1>1, <1>2, <1>3, <1>4, <1>5, <1>6, RowsStay DEF Next, Worker, vars

(* Stored events and scores, and the searches for other cameras.           *)
LEMMA ScoreTypesStep == TypeOK /\ [Next]_vars => ScoreTypes'
<1> SUFFICES ASSUME TypeOK, [Next]_vars PROVE ScoreTypes'
  OBVIOUS
<1>0. ScoreTypes
  BY TypeParts
<1>1. CASE UNCHANGED <<events, risk, search>>
  BY <1>0, <1>1 DEF ScoreTypes
<1>2. ASSUME NEW c \in Clips,
             \/ UploadUrl(c) \/ PutObject(c) \/ CompleteSave(c) \/ CompleteEnqueue(c)
             \/ DeleteCheck(c) \/ DeleteObject(c)
             \/ \E a \in AlertIds : Review(c, a) \/ BulkDeleteAlerts(c, a)
      PROVE UNCHANGED <<events, risk, search>>
  BY <1>2 DEF UploadUrl, PutObject, CompleteSave, CompleteEnqueue, DeleteCheck,
              DeleteObject, Review, BulkDeleteAlerts, dataVars
<1>3. ASSUME NEW c \in Clips, NEW n \in Attempts, Ingest(c, n) PROVE ScoreTypes'
  BY <1>0, <1>3
     DEF ScoreTypes, Ingest, IngestFind, IngestSave, IngestScore, CrossCamera, dataVars
<1>4. ASSUME NEW c \in Clips, DeleteRows(c) PROVE ScoreTypes'
  BY <1>0, <1>4 DEF ScoreTypes, DeleteRows
<1>5. CASE BackendCrash
  BY <1>0, <1>5 DEF ScoreTypes, BackendCrash
<1> QED
  BY <1>1, <1>2, <1>3, <1>4, <1>5, RowsStay DEF Next, vars, dataVars

(* Alerts.                                                                 *)
LEMMA AlertTypesStep == TypeOK /\ [Next]_vars => AlertTypes'
<1> SUFFICES ASSUME TypeOK, [Next]_vars PROVE AlertTypes'
  OBVIOUS
<1>0. AlertTypes /\ DeletionTypes
  BY TypeParts
<1>1. CASE UNCHANGED alerts
  BY <1>0, <1>1 DEF AlertTypes
<1>2. ASSUME NEW c \in Clips,
             \/ UploadUrl(c) \/ PutObject(c) \/ CompleteSave(c) \/ CompleteEnqueue(c)
             \/ DeleteCheck(c) \/ DeleteObject(c)
      PROVE UNCHANGED alerts
  BY <1>2 DEF UploadUrl, PutObject, CompleteSave, CompleteEnqueue, DeleteCheck,
              DeleteObject, dataVars
<1>3. ASSUME NEW c \in Clips, NEW n \in Attempts, Ingest(c, n) PROVE AlertTypes'
  <2>1. <<"risk", n>> \in AlertIds /\ <<"cross", n>> \in AlertIds
    BY DEF AlertIds
  <2>2. \/ UNCHANGED alerts
        \/ \E a \in AlertIds : alerts' = [alerts EXCEPT ![c][a] = "PendingReview"]
    BY <1>3, <2>1 DEF Ingest, IngestFind, IngestSave, IngestScore, CrossCamera, dataVars
  <2> QED
    BY <1>0, <2>2 DEF AlertTypes
<1>4. ASSUME NEW c \in Clips, DeleteRows(c) PROVE AlertTypes'
  <2> DEFINE a == deletion[c].alert
  <2>1. a \in AlertIds \cup {None}
    BY <1>0 DEF DeletionTypes, Deletion
  <2>2. \/ UNCHANGED alerts
        \/ a # None /\ alerts' = [alerts EXCEPT ![c][a] = "absent"]
    BY <1>4 DEF DeleteRows
  <2> HIDE DEF a
  <2>3. ASSUME a \in AlertIds, alerts' = [alerts EXCEPT ![c][a] = "absent"]
        PROVE  AlertTypes'
    BY <1>0, <2>3 DEF AlertTypes
  <2> QED
    BY <1>1, <2>1, <2>2, <2>3
<1>5. ASSUME NEW c \in Clips, NEW a \in AlertIds, Review(c, a) \/ BulkDeleteAlerts(c, a)
      PROVE AlertTypes'
  BY <1>0, <1>5 DEF AlertTypes, Review, BulkDeleteAlerts
<1>6. CASE BackendCrash
  BY <1>1, <1>6 DEF BackendCrash
<1> QED
  BY <1>1, <1>2, <1>3, <1>4, <1>5, <1>6, RowsStay DEF Next, vars, dataVars

(* What a deletion has read.                                               *)
LEMMA DeletionTypesStep == TypeOK /\ [Next]_vars => DeletionTypes'
<1> SUFFICES ASSUME TypeOK, [Next]_vars PROVE DeletionTypes'
  OBVIOUS
<1>0. DeletionTypes /\ ScoreTypes
  BY TypeParts
<1>1. CASE UNCHANGED deletion
  BY <1>0, <1>1 DEF DeletionTypes
<1>2. ASSUME NEW c \in Clips,
             \/ UploadUrl(c) \/ PutObject(c) \/ CompleteSave(c) \/ CompleteEnqueue(c)
             \/ (\E n \in Attempts : Ingest(c, n))
             \/ \E a \in AlertIds : Review(c, a) \/ BulkDeleteAlerts(c, a)
      PROVE UNCHANGED deletion
  BY <1>2 DEF UploadUrl, PutObject, CompleteSave, CompleteEnqueue, Ingest, IngestFind,
              IngestSave, IngestScore, CrossCamera, Review, BulkDeleteAlerts
<1>3. NotRunning \in Deletion
  BY DEF NotRunning, Deletion
<1>4. ASSUME NEW c \in Clips, DeleteCheck(c) PROVE DeletionTypes'
  <2>1. PICK a \in AlertIds \cup {None} :
          deletion' = [deletion EXCEPT ![c] = [NotRunning EXCEPT !.phase = "checked",
                                                                 !.alert = a]]
    BY <1>4 DEF DeleteCheck, AlertsOf
  <2> DEFINE d == [NotRunning EXCEPT !.phase = "checked", !.alert = a]
  <2>2. d \in Deletion
    BY <1>3 DEF Deletion
  <2>3. deletion' = [deletion EXCEPT ![c] = d]
    BY <2>1
  <2> HIDE DEF d
  <2> QED
    BY <1>0, <2>2, <2>3 DEF DeletionTypes
<1>5. ASSUME NEW c \in Clips, DeleteObject(c) PROVE DeletionTypes'
  <2> DEFINE d == [deletion[c] EXCEPT !.phase = "listed", !.events = events[c],
                                      !.risk = risk[c]]
  <2>1. d \in Deletion
    BY <1>0 DEF DeletionTypes, ScoreTypes, Deletion
  <2>2. \/ deletion' = [deletion EXCEPT ![c] = d]
        \/ deletion' = [deletion EXCEPT ![c] = NotRunning]
    BY <1>0, <1>5 DEF DeleteObject, DeletionTypes
  <2> HIDE DEF d
  <2> QED
    BY <1>0, <1>3, <2>1, <2>2 DEF DeletionTypes
<1>6. ASSUME NEW c \in Clips, DeleteRows(c) PROVE DeletionTypes'
  BY <1>0, <1>3, <1>6 DEF DeletionTypes, DeleteRows
<1>7. CASE BackendCrash
  BY <1>3, <1>7 DEF DeletionTypes, BackendCrash
<1> QED
  BY <1>1, <1>2, <1>4, <1>5, <1>6, <1>7, RowsStay DEF Next, vars

(* What the model remembers of attempts given up, lost jobs, faults and    *)
(* requests.                                                               *)
LEMMA GhostTypesStep == TypeOK /\ AttemptsBounded /\ [Next]_vars => GhostTypes'
<1> SUFFICES ASSUME TypeOK, AttemptsBounded, [Next]_vars PROVE GhostTypes'
  OBVIOUS
<1>0. GhostTypes /\ ListTypes
  BY TypeParts
<1> USE AnalysisAssumption DEF GhostTypes
<1>1. CASE UNCHANGED ghostVars
  BY <1>0, <1>1 DEF ghostVars
<1>2. ASSUME NEW c \in Clips,
             \/ UploadUrl(c) \/ PutObject(c) \/ CompleteSave(c)
             \/ DeleteObject(c) \/ DeleteRows(c) \/ \E n \in Attempts : Ingest(c, n)
      PROVE UNCHANGED ghostVars
  BY <1>2 DEF UploadUrl, PutObject, CompleteSave, DeleteObject, DeleteRows,
              Ingest, IngestFind, IngestSave, IngestScore, CrossCamera
<1>3. ASSUME NEW c \in Clips, CompleteEnqueue(c) \/ DeleteCheck(c) PROVE GhostTypes'
  <2>1. CASE CompleteEnqueue(c)
    BY <1>0, <2>1 DEF CompleteEnqueue, Fault
  <2>2. CASE DeleteCheck(c)
    BY <1>0, <2>2 DEF DeleteCheck, Request
  <2> QED
    BY <1>3, <2>1, <2>2
<1>4. ASSUME NEW c \in Clips, NEW a \in AlertIds, Review(c, a) \/ BulkDeleteAlerts(c, a)
      PROVE GhostTypes'
  BY <1>0, <1>4 DEF Review, BulkDeleteAlerts, Request
<1>5. ASSUME NEW w \in Workers, BRPop(w) PROVE GhostTypes'
  <2>1. Last(queue).clip \in Clips
    BY <1>0, <1>5, PoppedLast DEF ListTypes, Job, BRPop
  <2> QED
    BY <1>0, <1>5, <2>1 DEF BRPop, Fault
<1>6. ASSUME NEW w \in Workers, ProcessJob(w) \/ PostAnswered(w) PROVE UNCHANGED ghostVars
  BY <1>6 DEF ProcessJob, PostAnswered
<1>7. ASSUME NEW w \in Workers, PostFailed(w) \/ HandleJobError(w) \/ WorkerCrash(w)
      PROVE GhostTypes'
  <2>1. wjob[w].clip \in Clips /\ wjob[w].attempt \in Attempts
    BY <1>7, HeldJob DEF PostFailed, HandleJobError, WorkerCrash
  <2>2. CASE PostFailed(w)
    BY <1>0, <2>1, <2>2 DEF PostFailed
  <2>3. CASE HandleJobError(w) \/ WorkerCrash(w)
    BY <1>0, <2>1, <2>3 DEF HandleJobError, WorkerCrash, Fault
  <2> QED
    BY <1>7, <2>2, <2>3
<1>8. CASE BackendCrash
  BY <1>0, <1>8 DEF BackendCrash, Fault
<1>9. CASE RedisLoss
  <2>1. queue \o dead \in Seq(Job)
    BY <1>0 DEF ListTypes
  <2>2. \A i \in DOMAIN (queue \o dead) : (queue \o dead)[i] \in Job
    BY <2>1
  <2>3. \A j \in ToSet(queue \o dead) : j.clip \in Clips
    BY <2>2 DEF ToSet, Job
  <2> QED
    BY <1>0, <1>9, <2>3 DEF RedisLoss, Fault
<1> QED
  BY <1>1, <1>2, <1>3, <1>4, <1>5, <1>6, <1>7, <1>8, <1>9 DEF Next, Worker, vars, ghostVars

(* Every step keeps every variable in its type.                            *)
LEMMA TypeStep == TypeOK /\ AttemptsBounded /\ [Next]_vars => TypeOK'
<1>1. (ClipTypes /\ ListTypes /\ WorkerTypes /\ IngestTypes /\ ScoreTypes
         /\ AlertTypes /\ DeletionTypes /\ GhostTypes)' => TypeOK'
  BY DEF TypeOK, ClipTypes, ListTypes, WorkerTypes, IngestTypes, ScoreTypes,
         AlertTypes, DeletionTypes, GhostTypes, Deletion
<1> QED
  BY <1>1, ClipTypesStep, ListTypesStep, WorkerTypesStep, IngestTypesStep, ScoreTypesStep,
     AlertTypesStep, DeletionTypesStep, GhostTypesStep

-----------------------------------------------------------------------------
(* One envelope for a clip.                                                *)

(* What LPUSH and BRPOP do to the envelopes of a list, place by place.     *)
Pushed(s, t, e) ==
    /\ 1 \in DOMAIN t /\ t[1] = e
    /\ \A i \in DOMAIN t : i # 1 => i - 1 \in DOMAIN s /\ t[i] = s[i - 1]
    /\ \A i \in DOMAIN s : i + 1 \in DOMAIN t /\ t[i + 1] = s[i]
    /\ \A i \in DOMAIN t : i \in Nat
    /\ \A i \in DOMAIN s : i \in Nat \ {0}

LEMMA PushedByPlace ==
  ASSUME NEW s \in Seq(Job), NEW e \in Job, NEW t, t = <<e>> \o s
  PROVE  Pushed(s, t, e)
  BY PushedFirst DEF Pushed

Popped(s, t, k) ==
    /\ k \in DOMAIN s
    /\ \A i \in DOMAIN t : i \in DOMAIN s /\ i # k /\ t[i] = s[i]
    /\ \A i \in DOMAIN s : i # k => i \in DOMAIN t

LEMMA PoppedByPlace ==
  ASSUME NEW s \in Seq(Job), s # <<>>, NEW t, t = Front(s)
  PROVE  Popped(s, t, Len(s)) /\ s[Len(s)] = Last(s) /\ s[Len(s)] \in Job
  BY PoppedLast DEF Popped

(* Each action that moves an envelope, in these terms.                     *)
PushNew(c, e) ==
    /\ e \in Job /\ e.clip = c /\ e.attempt = 0
    /\ \/ Pushed(queue, queue', e)
       \/ UNCHANGED queue /\ complete'[c] # "ok"
    /\ UNCHANGED <<dead, wpc, wjob>>

LEMMA CompleteEnqueuePushes ==
  ASSUME TypeOK, NEW c \in Clips, CompleteEnqueue(c)
  PROVE  \E e : PushNew(c, e)
<1> DEFINE e == [clip |-> c, attempt |-> 0]
<1>1. e \in Job /\ e.clip = c /\ e.attempt = 0
  BY AnalysisAssumption DEF Job
<1>2. queue' = <<e>> \o queue \/ (queue' = queue /\ complete'[c] # "ok")
  BY DEF CompleteEnqueue, TypeOK
<1>3. UNCHANGED <<dead, wpc, wjob>>
  BY DEF CompleteEnqueue, workerVars
<1> HIDE DEF e
<1>4. queue \in Seq(Job)
  BY DEF TypeOK
<1>5. PushNew(c, e)
  BY <1>1, <1>2, <1>3, <1>4, PushedByPlace DEF PushNew
<1> QED
  BY <1>5

(* A worker takes the last envelope, or it is gone.                        *)
Take(w, k, e) ==
    /\ Popped(queue, queue', k)
    /\ e \in Job /\ e.clip = queue[k].clip /\ e.attempt = queue[k].attempt + 1
    /\ e.attempt \in Attempts
    /\ ~Working(w)
    /\ \/ /\ wpc' = [wpc EXCEPT ![w] = "taken"] /\ wjob' = [wjob EXCEPT ![w] = e]
          /\ UNCHANGED lost
       \/ lost' = lost \cup {e.clip} /\ UNCHANGED <<wpc, wjob>>
    /\ UNCHANGED dead

LEMMA BRPopTakes ==
  ASSUME TypeOK, AttemptsBounded, NEW w \in Workers, BRPop(w)
  PROVE  \E k, e : Take(w, k, e)
<1> DEFINE k == Len(queue)
           e == [Last(queue) EXCEPT !.attempt = @ + 1]
<1>1. queue \in Seq(Job) /\ queue # <<>> /\ queue' = Front(queue)
  BY DEF TypeOK, BRPop
<1>2. Popped(queue, queue', k) /\ queue[k] = Last(queue) /\ queue[k] \in Job
  BY <1>1, PoppedByPlace
<1>3. queue[k].attempt < MaxRetries
  BY <1>2 DEF Popped, AttemptsBounded
<1>4. /\ e \in Job /\ e.clip = queue[k].clip /\ e.attempt = queue[k].attempt + 1
      /\ e.attempt \in Attempts
  BY <1>2, <1>3, CountedUp
<1>5. /\ \/ /\ wpc' = [wpc EXCEPT ![w] = "taken"] /\ wjob' = [wjob EXCEPT ![w] = e]
            /\ UNCHANGED lost
         \/ lost' = lost \cup {queue[k].clip} /\ UNCHANGED <<wpc, wjob>>
      /\ ~Working(w)
      /\ UNCHANGED dead
  BY <1>2 DEF BRPop, workerVars, Working
<1> HIDE DEF k, e
<1>6. Take(w, k, e)
  BY <1>2, <1>4, <1>5 DEF Take
<1> QED
  BY <1>6

(* A worker lets go of its envelope: into one of the lists, or for good.   *)
LetGo(w) ==
    /\ Working(w)
    /\ wpc' = [wpc EXCEPT ![w] = "idle"] /\ wjob' = [wjob EXCEPT ![w] = None]
    /\ \/ /\ Pushed(queue, queue', wjob[w]) /\ wjob[w].attempt < MaxRetries
          /\ UNCHANGED <<dead, lost>>
       \/ Pushed(dead, dead', wjob[w]) /\ UNCHANGED <<queue, lost>>
       \/ lost' = lost \cup {wjob[w].clip} /\ UNCHANGED <<queue, dead>>

LEMMA HandleJobErrorLetsGo ==
  ASSUME TypeOK, AttemptsBounded, NEW w \in Workers, HandleJobError(w)
  PROVE  LetGo(w)
<1> DEFINE e == wjob[w]
<1>1. e \in Job /\ Working(w)
  BY HeldJob DEF HandleJobError
<1>2. \/ queue' = <<e>> \o queue /\ e.attempt < MaxRetries /\ UNCHANGED <<dead, lost>>
      \/ dead' = <<e>> \o dead /\ UNCHANGED <<queue, lost>>
      \/ lost' = lost \cup {e.clip} /\ UNCHANGED <<queue, dead>>
  BY DEF HandleJobError, redisVars, Retriable
<1>3. wpc' = [wpc EXCEPT ![w] = "idle"] /\ wjob' = [wjob EXCEPT ![w] = None]
  BY DEF HandleJobError
<1>4. queue \in Seq(Job) /\ dead \in Seq(Job)
  BY DEF TypeOK
<1> HIDE DEF e
<1>5. \/ Pushed(queue, queue', e) /\ e.attempt < MaxRetries /\ UNCHANGED <<dead, lost>>
      \/ Pushed(dead, dead', e) /\ UNCHANGED <<queue, lost>>
      \/ lost' = lost \cup {e.clip} /\ UNCHANGED <<queue, dead>>
  BY <1>1, <1>2, <1>4, PushedByPlace
<1> QED
  BY <1>1, <1>3, <1>5 DEF LetGo, e

LEMMA WorkerCrashLetsGo ==
  ASSUME NEW w \in Workers, WorkerCrash(w)
  PROVE  LetGo(w)
  BY DEF WorkerCrash, LetGo, Working, redisVars

(* One more step of a job in hand.                                         *)
WorkOn(w) ==
    /\ Working(w)
    /\ wpc' \in [Workers -> {"idle", "taken", "posting", "failed", "missing"}]
    /\ wpc'[w] \in {"posting", "failed", "missing"}
    /\ \A v \in Workers \ {w} : wpc'[v] = wpc[v]
    /\ UNCHANGED <<wjob, queue, dead, lost>>

LEMMA StepsWorkOn ==
  ASSUME TypeOK, NEW w \in Workers, ProcessJob(w) \/ PostFailed(w)
  PROVE  WorkOn(w)
<1>1. wpc \in [Workers -> {"idle", "taken", "posting", "failed", "missing"}]
  BY DEF TypeOK
<1> QED
  BY <1>1 DEF ProcessJob, PostFailed, WorkOn, Working, redisVars, ghostVars

(* A job that is done, and every envelope of a Redis without its data.     *)
Finish(w) ==
    /\ Working(w)
    /\ wpc' = [wpc EXCEPT ![w] = "idle"] /\ wjob' = [wjob EXCEPT ![w] = None]
    /\ UNCHANGED <<queue, dead, lost>>

(* A step moves an envelope in one of these ways, or none at all.          *)
LEMMA EnvelopeMoves ==
  ASSUME TypeOK, AttemptsBounded, [Next]_vars
  PROVE  \/ UNCHANGED <<queue, dead, wpc, wjob>>
         \/ \E c \in Clips : \E e : CompleteEnqueue(c) /\ PushNew(c, e)
         \/ \E w \in Workers : \E k, e : BRPop(w) /\ Take(w, k, e)
         \/ \E w \in Workers : (HandleJobError(w) \/ WorkerCrash(w)) /\ LetGo(w)
         \/ \E w \in Workers : PostAnswered(w) /\ Finish(w)
         \/ \E w \in Workers : (ProcessJob(w) \/ PostFailed(w)) /\ WorkOn(w)
         \/ RedisLoss /\ queue' = <<>> /\ dead' = <<>> /\ UNCHANGED <<wpc, wjob>>
<1>1. ASSUME NEW c \in Clips, CompleteEnqueue(c)
      PROVE  \E e : CompleteEnqueue(c) /\ PushNew(c, e)
  BY <1>1, CompleteEnqueuePushes
<1>2. ASSUME NEW w \in Workers, BRPop(w)
      PROVE  \E k, e : BRPop(w) /\ Take(w, k, e)
  BY <1>2, BRPopTakes
<1>3. ASSUME NEW w \in Workers, HandleJobError(w) \/ WorkerCrash(w) PROVE LetGo(w)
  BY <1>3, HandleJobErrorLetsGo, WorkerCrashLetsGo
<1>4. ASSUME NEW w \in Workers, PostAnswered(w) PROVE Finish(w)
  BY <1>4 DEF PostAnswered, Finish, Working, redisVars, ghostVars
<1>5. ASSUME NEW w \in Workers, ProcessJob(w) \/ PostFailed(w) PROVE WorkOn(w)
  BY <1>5, StepsWorkOn
<1>6. CASE RedisLoss
  BY <1>6 DEF RedisLoss, workerVars
<1>7. ASSUME UNCHANGED <<redisVars, workerVars>> PROVE UNCHANGED <<queue, dead, wpc, wjob>>
  BY <1>7 DEF redisVars, workerVars
<1>8. ASSUME NEW c \in Clips,
             \/ UploadUrl(c) \/ PutObject(c) \/ CompleteSave(c)
             \/ DeleteCheck(c) \/ DeleteObject(c) \/ DeleteRows(c)
             \/ (\E n \in Attempts : Ingest(c, n))
             \/ (\E a \in AlertIds : Review(c, a) \/ BulkDeleteAlerts(c, a))
      PROVE  UNCHANGED <<queue, dead, wpc, wjob>>
  BY <1>7, <1>8, EnvelopesStay
<1>9. CASE BackendCrash \/ UNCHANGED vars
  BY <1>7, <1>9, EnvelopesStay
<1> QED
  BY <1>1, <1>2, <1>3, <1>4, <1>5, <1>6, <1>8, <1>9 DEF Next, Worker

(* No envelope beyond the retry budget.                                    *)
LEMMA AttemptsStep ==
  TypeOK /\ AttemptsBounded /\ [Next]_vars => AttemptsBounded'
<1> SUFFICES ASSUME TypeOK, AttemptsBounded, [Next]_vars PROVE AttemptsBounded'
  OBVIOUS
<1>0. WorkerTypes
  BY TypeParts
<1> USE AnalysisAssumption DEF AttemptsBounded, Working
<1>1. CASE UNCHANGED <<queue, dead, wpc, wjob>>
  BY <1>1
<1>2. ASSUME NEW c \in Clips, NEW e, PushNew(c, e) PROVE AttemptsBounded'
  BY <1>2 DEF PushNew, Pushed
<1>3. ASSUME NEW w \in Workers, NEW k, NEW e, Take(w, k, e) PROVE AttemptsBounded'
  BY <1>0, <1>3 DEF Take, Popped, WorkerTypes
<1>4. ASSUME NEW w \in Workers, LetGo(w) PROVE AttemptsBounded'
  BY <1>0, <1>4 DEF LetGo, Pushed, WorkerTypes
<1>5. ASSUME NEW w \in Workers, Finish(w) \/ WorkOn(w) PROVE AttemptsBounded'
  BY <1>0, <1>5 DEF Finish, WorkOn, WorkerTypes
<1>6. CASE queue' = <<>> /\ UNCHANGED <<wpc, wjob>>
  BY <1>6
<1> QED
  BY <1>1, <1>2, <1>3, <1>4, <1>5, <1>6, EnvelopeMoves

(* A clip keeps its one envelope, wherever it moves.                       *)
LEMMA OneEnvelopeStep ==
  TypeOK /\ AttemptsBounded /\ OneEnvelope /\ FreshUntilPushed /\ [Next]_vars => OneEnvelope'
<1> SUFFICES ASSUME TypeOK, AttemptsBounded, OneEnvelope, FreshUntilPushed, [Next]_vars
             PROVE  OneEnvelope'
  OBVIOUS
<1>0. WorkerTypes
  BY TypeParts
<1> USE DEF OneEnvelope, Working
<1>1. CASE UNCHANGED <<queue, dead, wpc, wjob>>
  BY <1>1
<1>2. ASSUME NEW c \in Clips, NEW e, CompleteEnqueue(c), PushNew(c, e) PROVE OneEnvelope'
  <2>1. /\ \A i \in DOMAIN queue : queue[i].clip # c
        /\ \A i \in DOMAIN dead : dead[i].clip # c
        /\ \A w \in Workers : Working(w) => wjob[w].clip # c
    BY <1>2 DEF FreshUntilPushed, CompleteEnqueue
  <2> QED
    BY <1>2, <2>1 DEF PushNew, Pushed
<1>3. ASSUME NEW w \in Workers, NEW k, NEW e, Take(w, k, e) PROVE OneEnvelope'
  BY <1>0, <1>3 DEF Take, Popped, WorkerTypes
<1>4. ASSUME NEW w \in Workers, LetGo(w) PROVE OneEnvelope'
  <2>1. \A v \in Workers : wpc'[v] # "idle" => v # w /\ wpc[v] # "idle" /\ wjob'[v] = wjob[v]
    BY <1>0, <1>4 DEF LetGo, WorkerTypes
  <2>2. CASE Pushed(queue, queue', wjob[w]) /\ UNCHANGED dead
    BY <1>4, <2>1, <2>2 DEF LetGo, Pushed
  <2>3. CASE Pushed(dead, dead', wjob[w]) /\ UNCHANGED queue
    BY <1>4, <2>1, <2>3 DEF LetGo, Pushed
  <2>4. CASE UNCHANGED <<queue, dead>>
    BY <2>1, <2>4
  <2> QED
    BY <1>4, <2>2, <2>3, <2>4 DEF LetGo
<1>5. ASSUME NEW w \in Workers, Finish(w) \/ WorkOn(w) PROVE OneEnvelope'
  <2>1. \A v \in Workers : wpc'[v] # "idle" => wpc[v] # "idle" /\ wjob'[v] = wjob[v]
    BY <1>0, <1>5 DEF Finish, WorkOn, WorkerTypes
  <2>2. UNCHANGED <<queue, dead>>
    BY <1>5 DEF Finish, WorkOn
  <2> QED
    BY <2>1, <2>2
<1>6. CASE queue' = <<>> /\ dead' = <<>> /\ UNCHANGED <<wpc, wjob>>
  BY <1>6
<1> QED
  BY <1>1, <1>2, <1>3, <1>4, <1>5, <1>6, EnvelopeMoves

(* Only a worker posts, and what was posted stays posted.                  *)
SamePosts == \A c \in Clips, n \in Attempts : Posted(c, n)' <=> Posted(c, n)

Posts(w) ==
    /\ wpc[w] = "taken" /\ wpc'[w] = "posting"
    /\ \A c \in Clips, n \in Attempts :
         Posted(c, n)' <=> Posted(c, n) \/ (c = wjob[w].clip /\ n = wjob[w].attempt)

LEMMA PostsByWorkers ==
  ASSUME TypeOK, AttemptsBounded, [Next]_vars
  PROVE  \/ SamePosts /\ \A w \in Workers : wpc[w] # "posting" => wpc'[w] # "posting"
         \/ \E w \in Workers : ProcessJob(w) /\ Posts(w)
<1> DEFINE Same == SamePosts /\ \A w \in Workers : wpc[w] # "posting" => wpc'[w] # "posting"
<1>0. IngestTypes /\ WorkerTypes
  BY TypeParts
<1>1. ASSUME UNCHANGED ingest PROVE SamePosts
  BY <1>1 DEF SamePosts, Posted
<1>2. ASSUME NEW c \in Clips,
             \/ UploadUrl(c) \/ PutObject(c) \/ CompleteSave(c) \/ CompleteEnqueue(c)
             \/ DeleteCheck(c) \/ DeleteObject(c) \/ DeleteRows(c)
             \/ \E a \in AlertIds : Review(c, a) \/ BulkDeleteAlerts(c, a)
      PROVE Same
  BY <1>1, <1>2 DEF UploadUrl, PutObject, CompleteSave, CompleteEnqueue, DeleteCheck,
                    DeleteObject, DeleteRows, Review, BulkDeleteAlerts, workerVars
<1>3. ASSUME NEW c \in Clips, NEW n \in Attempts, Ingest(c, n) PROVE Same
  BY <1>0, <1>3 DEF IngestTypes, Ingest, IngestFind, IngestSave, IngestScore, CrossCamera,
                    SamePosts, Posted, workerVars
<1>4. ASSUME NEW w \in Workers, ProcessJob(w) PROVE Same \/ Posts(w)
  <2>1. wjob[w].clip \in Clips /\ wjob[w].attempt \in Attempts
    BY <1>4, HeldJob DEF ProcessJob
  <2>2. CASE UNCHANGED ingest /\ wpc' = [wpc EXCEPT ![w] = wpc'[w]] /\ wpc'[w] # "posting"
    BY <1>0, <1>1, <2>2 DEF WorkerTypes
  <2>3. CASE /\ wpc' = [wpc EXCEPT ![w] = "posting"]
             /\ ingest' = [ingest EXCEPT ![wjob[w].clip][wjob[w].attempt] = "sent"]
    BY <1>0, <1>4, <2>1, <2>3 DEF IngestTypes, WorkerTypes, Posts, Posted, ProcessJob
  <2> QED
    BY <1>0, <1>4, <2>2, <2>3 DEF ProcessJob, WorkerTypes
<1>5. ASSUME NEW w \in Workers,
             \/ BRPop(w) \/ PostAnswered(w) \/ PostFailed(w) \/ HandleJobError(w)
             \/ WorkerCrash(w)
      PROVE Same
  BY <1>0, <1>1, <1>5 DEF BRPop, PostAnswered, PostFailed, HandleJobError, WorkerCrash,
                          WorkerTypes, workerVars
<1>6. CASE BackendCrash
  BY <1>0, <1>6 DEF BackendCrash, IngestTypes, SamePosts, Posted, workerVars
<1>7. CASE RedisLoss \/ UNCHANGED vars
  BY <1>1, <1>7 DEF RedisLoss, vars, workerVars
<1> QED
  BY <1>2, <1>3, <1>4, <1>5, <1>6, <1>7 DEF Next, Worker

(* Until its push a clip has no envelope and no attempt.                   *)
LEMMA FreshStep ==
  TypeOK /\ AttemptsBounded /\ FreshUntilPushed /\ [Next]_vars => FreshUntilPushed'
<1> SUFFICES ASSUME TypeOK, AttemptsBounded, FreshUntilPushed, [Next]_vars,
                    NEW d \in Clips, complete'[d] \in {"idle", "saved"}
             PROVE  /\ \A i \in DOMAIN queue' : queue'[i].clip # d
                    /\ \A i \in DOMAIN dead' : dead'[i].clip # d
                    /\ \A w \in Workers : Working(w)' => wjob'[w].clip # d
                    /\ \A n \in Attempts : ~Posted(d, n)'
  BY DEF FreshUntilPushed
<1>0. WorkerTypes /\ ClipTypes /\ IngestTypes
  BY TypeParts
<1>1. complete[d] \in {"idle", "saved"} /\ ~CompleteEnqueue(d)
  BY <1>0 DEF Next, Worker, UploadUrl, PutObject, CompleteSave, CompleteEnqueue, DeleteCheck,
              DeleteObject, DeleteRows, Ingest, IngestFind, IngestSave, IngestScore,
              CrossCamera, Review, BulkDeleteAlerts, BackendCrash, RedisLoss, BRPop,
              ProcessJob, PostAnswered, PostFailed, HandleJobError, WorkerCrash,
              clipVars, vars, ClipTypes
<1>2. /\ \A i \in DOMAIN queue : queue[i].clip # d
      /\ \A i \in DOMAIN dead : dead[i].clip # d
      /\ \A w \in Workers : wpc[w] # "idle" => wjob[w].clip # d
      /\ \A n \in Attempts : ~Posted(d, n)
  BY <1>1 DEF FreshUntilPushed, Working
<1>3. \A n \in Attempts : ~Posted(d, n)'
  BY <1>2, PostsByWorkers DEF SamePosts, Posts
<1> DEFINE Gone == /\ \A i \in DOMAIN queue' : queue'[i].clip # d
                   /\ \A i \in DOMAIN dead' : dead'[i].clip # d
                   /\ \A w \in Workers : wpc'[w] # "idle" => wjob'[w].clip # d
<1> USE DEF Working
<1>4. ASSUME UNCHANGED <<queue, dead, wpc, wjob>> PROVE Gone
  BY <1>2, <1>4
<1>5. ASSUME NEW c \in Clips, NEW e, CompleteEnqueue(c), PushNew(c, e) PROVE Gone
  BY <1>1, <1>2, <1>5 DEF PushNew, Pushed
<1>6. ASSUME NEW w \in Workers, NEW k, NEW e, Take(w, k, e) PROVE Gone
  BY <1>0, <1>2, <1>6 DEF Take, Popped, WorkerTypes
<1>7. ASSUME NEW w \in Workers, LetGo(w) PROVE Gone
  BY <1>0, <1>2, <1>7 DEF LetGo, Pushed, WorkerTypes
<1>8. ASSUME NEW w \in Workers, Finish(w) \/ WorkOn(w) PROVE Gone
  BY <1>0, <1>2, <1>8 DEF Finish, WorkOn, WorkerTypes
<1>9. ASSUME queue' = <<>>, dead' = <<>>, UNCHANGED <<wpc, wjob>> PROVE Gone
  BY <1>2, <1>9
<1>10. Gone
  BY <1>2, <1>4, <1>5, <1>6, <1>7, <1>8, <1>9, EnvelopeMoves
<1> QED
  BY <1>3, <1>10

-----------------------------------------------------------------------------
(* Scores, statuses and posts.                                             *)

(* What a step may do to a score and a row.                                *)
LEMMA ScoresStep ==
  TypeOK /\ AttemptsBounded /\ ScoresPosted /\ [Next]_vars => ScoresPosted'
<1> SUFFICES ASSUME TypeOK, AttemptsBounded, ScoresPosted, [Next]_vars
             PROVE  ScoresPosted'
  OBVIOUS
<1>0. ClipTypes /\ IngestTypes /\ ScoreTypes
  BY TypeParts
<1>1. \A c \in Clips, n \in Attempts : Posted(c, n) => Posted(c, n)'
  BY PostsByWorkers DEF SamePosts, Posts
<1>2. CASE UNCHANGED <<row, risk, ingest>>
  BY <1>2 DEF ScoresPosted, Posted
<1>3. ASSUME NEW c \in Clips, UploadUrl(c) \/ CompleteSave(c) PROVE ScoresPosted'
  BY <1>0, <1>3 DEF ScoresPosted, Posted, UploadUrl, CompleteSave, ClipTypes, Exists, dataVars
<1>4. ASSUME NEW c \in Clips, NEW n \in Attempts, IngestFind(c, n) PROVE ScoresPosted'
  BY <1>0, <1>4 DEF ScoresPosted, Posted, IngestFind, IngestTypes, clipVars, dataVars
<1>5. ASSUME NEW c \in Clips, NEW n \in Attempts, IngestSave(c, n) PROVE ScoresPosted'
  <2>1. risk' = risk
    BY <1>5 DEF IngestSave
  <2>2. ingest[c][n] = "found" /\ ingest'[c][n] # "none" /\ ingest'[c][n] # "scored"
    BY <1>0, <1>5 DEF IngestSave, IngestTypes
  <2>3. \A d \in Clips, m \in Attempts :
          d # c \/ m # n => ingest'[d][m] = ingest[d][m]
    BY <1>0, <1>5 DEF IngestSave, IngestTypes
  <2>4. \A d \in Clips : \/ row'[d] = row[d]
                         \/ d = c /\ row'[d] = "Analyzed" /\ row[d] # "deleted"
    BY <1>0, <1>5 DEF IngestSave, ClipTypes, Exists
  <2>5. \A d \in Clips : \A m \in risk[d] : m \in Attempts
    BY <1>0 DEF ScoreTypes
  <2> QED
    BY <1>1, <2>1, <2>2, <2>3, <2>4, <2>5 DEF ScoresPosted, Posted
<1>6. ASSUME NEW c \in Clips, NEW n \in Attempts, IngestScore(c, n) PROVE ScoresPosted'
  BY <1>0, <1>6 DEF ScoresPosted, Posted, IngestScore, IngestTypes, ScoreTypes, clipVars
<1>7. ASSUME NEW c \in Clips, DeleteRows(c) PROVE ScoresPosted'
  BY <1>0, <1>7 DEF ScoresPosted, Posted, DeleteRows, ClipTypes, ScoreTypes
<1>8. ASSUME NEW w \in Workers, ProcessJob(w) PROVE ScoresPosted'
  <2>1. UNCHANGED <<row, risk>>
    BY <1>8 DEF ProcessJob, clipVars, dataVars
  <2>2. \A c \in Clips, n \in Attempts : ingest'[c][n] = "scored" => ingest[c][n] = "scored"
    BY <1>0, <1>8 DEF ProcessJob, IngestTypes
  <2>3. \A c \in Clips : \A n \in risk[c] : n \in Attempts
    BY <1>0 DEF ScoreTypes
  <2> QED
    BY <1>1, <2>1, <2>2, <2>3 DEF ScoresPosted
<1>9. CASE BackendCrash
  BY <1>0, <1>9 DEF ScoresPosted, Posted, BackendCrash, IngestTypes, ScoreTypes
<1>10. ASSUME NEW c \in Clips,
              \/ PutObject(c) \/ CompleteEnqueue(c) \/ DeleteCheck(c) \/ DeleteObject(c)
              \/ (\E n \in Attempts : CrossCamera(c, n))
              \/ (\E a \in AlertIds : Review(c, a) \/ BulkDeleteAlerts(c, a))
       PROVE UNCHANGED <<row, risk, ingest>>
  BY <1>10 DEF PutObject, CompleteEnqueue, DeleteCheck, DeleteObject, CrossCamera, Review,
               BulkDeleteAlerts, clipVars, dataVars
<1>11. ASSUME NEW w \in Workers,
              \/ BRPop(w) \/ PostAnswered(w) \/ PostFailed(w) \/ HandleJobError(w)
              \/ WorkerCrash(w)
       PROVE UNCHANGED <<row, risk, ingest>>
  BY <1>11 DEF BRPop, PostAnswered, PostFailed, HandleJobError, WorkerCrash, clipVars, dataVars
<1>12. CASE RedisLoss \/ UNCHANGED vars
  BY <1>2, <1>12 DEF RedisLoss, vars, clipVars, dataVars
<1> QED
  BY <1>2, <1>3, <1>4, <1>5, <1>6, <1>7, <1>8, <1>9, <1>10, <1>11, <1>12
     DEF Next, Worker, Ingest

-----------------------------------------------------------------------------
(* Attempts in order.                                                      *)

(* What was given up stays so.                                             *)
LEMMA GaveUpGrows ==
  ASSUME TypeOK, AttemptsBounded, [Next]_vars
  PROVE  /\ \A c \in Clips : gaveUp[c] \subseteq gaveUp'[c]
         /\ \A w \in Workers : PostFailed(w) => wjob[w].attempt \in gaveUp'[wjob[w].clip]
<1>0. gaveUp \in [Clips -> SUBSET Attempts]
  BY DEF TypeOK
<1>1. ASSUME NEW w \in Workers, PostFailed(w)
      PROVE  /\ \A c \in Clips : gaveUp[c] \subseteq gaveUp'[c]
             /\ wjob[w].attempt \in gaveUp'[wjob[w].clip]
  <2>1. wjob[w].clip \in Clips
    BY <1>1, HeldJob DEF PostFailed
  <2> QED
    BY <1>0, <1>1, <2>1 DEF PostFailed
<1>2. ASSUME NEW c \in Clips,
             \/ UploadUrl(c) \/ PutObject(c) \/ CompleteSave(c) \/ CompleteEnqueue(c)
             \/ DeleteCheck(c) \/ DeleteObject(c) \/ DeleteRows(c)
             \/ (\E n \in Attempts : Ingest(c, n))
             \/ (\E a \in AlertIds : Review(c, a) \/ BulkDeleteAlerts(c, a))
      PROVE UNCHANGED gaveUp
  BY <1>2 DEF UploadUrl, PutObject, CompleteSave, CompleteEnqueue, DeleteCheck, DeleteObject,
              DeleteRows, Ingest, IngestFind, IngestSave, IngestScore, CrossCamera, Review,
              BulkDeleteAlerts, ghostVars
<1>3. ASSUME NEW w \in Workers,
             \/ BRPop(w) \/ ProcessJob(w) \/ PostAnswered(w) \/ HandleJobError(w)
             \/ WorkerCrash(w)
      PROVE UNCHANGED gaveUp
  BY <1>3 DEF BRPop, ProcessJob, PostAnswered, HandleJobError, WorkerCrash, ghostVars
<1>4. CASE BackendCrash \/ RedisLoss \/ UNCHANGED vars
  BY <1>1, <1>4 DEF BackendCrash, RedisLoss, vars
<1> QED
  BY <1>1, <1>2, <1>3, <1>4 DEF Next, Worker

(* The next attempt is posted only after the one before was given up.      *)
LEMMA PostsStep ==
  TypeOK /\ AttemptsBounded /\ OneEnvelope /\ FreshUntilPushed /\ PostsInOrder /\ [Next]_vars
    => PostsInOrder'
<1> SUFFICES ASSUME TypeOK, AttemptsBounded, OneEnvelope, FreshUntilPushed, PostsInOrder,
                    [Next]_vars
             PROVE  PostsInOrder'
  OBVIOUS
<1>0. WorkerTypes /\ ListTypes
  BY TypeParts
<1>1. \A c \in Clips : gaveUp[c] \subseteq gaveUp'[c]
  BY GaveUpGrows
<1>2. \A i \in DOMAIN queue : /\ queue[i].clip \in Clips /\ queue[i].attempt \in Nat
                              /\ i \in 1..Len(queue)
  <2> SUFFICES ASSUME NEW i \in DOMAIN queue
               PROVE  queue[i] \in Job /\ i \in 1..Len(queue)
    BY AnalysisAssumption DEF Job
  <2> QED
    BY <1>0 DEF ListTypes
<1>3. \A w \in Workers : Working(w) => /\ wjob[w].clip \in Clips
                                       /\ wjob[w].attempt \in Attempts
  BY HeldJob DEF Working
<1>4. \A n \in Attempts : n \in Nat
  BY AnalysisAssumption DEF Attempts
<1>5. ASSUME NEW w \in Workers, ProcessJob(w), Posts(w), WorkOn(w) PROVE PostsInOrder'
  <2>1. PICK c \in Clips, k \in Attempts : wjob[w].clip = c /\ wjob[w].attempt = k
    BY <1>3, <1>5 DEF WorkOn
  <2>2. \A m \in Attempts : Posted(c, m) => m <= k - 1 /\ m \in gaveUp[c]
    BY <1>5, <2>1 DEF PostsInOrder, PostedBefore, Posts
  <2>3. \A d \in Clips, m \in Attempts : Posted(d, m)' <=> Posted(d, m) \/ (d = c /\ m = k)
    BY <1>5, <2>1 DEF Posts
  <2>4. \A i \in DOMAIN queue : queue[i].clip # c
    BY <1>5, <2>1 DEF OneEnvelope, WorkOn
  <2>5. \A v \in Workers : wpc[v] # "idle" /\ v # w => wjob[v].clip # c
    BY <1>5, <2>1 DEF OneEnvelope, WorkOn, Working
  <2>6. UNCHANGED <<queue, wjob>> /\ wpc'[w] = "posting" /\ \A v \in Workers \ {w} : wpc'[v] = wpc[v]
    BY <1>5 DEF WorkOn, Posts
  <2>7. \A d \in Clips : \A m, n \in Attempts :
          Posted(d, m)' /\ Posted(d, n)' /\ m < n => m \in gaveUp[d]
    BY <1>4, <2>1, <2>2, <2>3 DEF PostsInOrder
  <2>8. \A i \in DOMAIN queue : PostedBefore(queue[i].clip, queue[i].attempt)'
    BY <1>1, <1>2, <2>3, <2>4, <2>6 DEF PostsInOrder, PostedBefore
  <2>9. ASSUME NEW v \in Workers \ {w}
        PROVE /\ wpc'[v] = "taken" => PostedBefore(wjob[v].clip, wjob[v].attempt - 1)'
              /\ wpc'[v] = "posting" =>
                   \A m \in Attempts : Posted(wjob[v].clip, m)' =>
                     m <= wjob[v].attempt /\ (m = wjob[v].attempt \/ m \in gaveUp'[wjob[v].clip])
              /\ wpc'[v] \in {"failed", "missing"} =>
                   PostedBefore(wjob[v].clip, wjob[v].attempt)'
    BY <1>1, <1>3, <2>3, <2>5, <2>6 DEF PostsInOrder, PostedBefore, Working
  <2>10. \A m \in Attempts : Posted(c, m)' => m <= k /\ (m = k \/ m \in gaveUp'[c])
    BY <1>1, <1>4, <2>1, <2>2, <2>3
  <2> QED
    BY <1>1, <2>6, <2>7, <2>8, <2>9, <2>10, <2>1 DEF PostsInOrder
<1>6. ASSUME SamePosts PROVE PostsInOrder'
  <2>1. \A c \in Clips : \A m, n \in Attempts :
          Posted(c, m)' /\ Posted(c, n)' /\ m < n => m \in gaveUp'[c]
    BY <1>1, <1>6 DEF PostsInOrder, SamePosts
  \* Where the envelopes are after the step, in terms of what was posted and
  \* given up before it.
  <2> DEFINE QueueOld == \A i \in DOMAIN queue' :
               /\ queue'[i].clip \in Clips
               /\ PostedBefore(queue'[i].clip, queue'[i].attempt)
             WorkerOld(w) ==
               /\ wpc'[w] # "idle" => wjob'[w].clip \in Clips
               /\ wpc'[w] = "taken" => PostedBefore(wjob'[w].clip, wjob'[w].attempt - 1)
               /\ wpc'[w] = "posting" =>
                    \A m \in Attempts : Posted(wjob'[w].clip, m) =>
                      m <= wjob'[w].attempt
                      /\ (m = wjob'[w].attempt \/ m \in gaveUp[wjob'[w].clip])
               /\ wpc'[w] \in {"failed", "missing"} =>
                    \A m \in Attempts : Posted(wjob'[w].clip, m) =>
                      m <= wjob'[w].attempt /\ m \in gaveUp'[wjob'[w].clip]
             Old == QueueOld /\ \A w \in Workers : WorkerOld(w)
  <2>2. ASSUME Old PROVE PostsInOrder'
    <3>1. \A i \in DOMAIN queue' : PostedBefore(queue[i].clip, queue[i].attempt)'
      BY <1>1, <1>6, <2>2 DEF PostedBefore, SamePosts
    <3>2. ASSUME NEW w \in Workers
          PROVE /\ wpc'[w] = "taken" => PostedBefore(wjob[w].clip, wjob[w].attempt - 1)'
                /\ wpc'[w] = "posting" =>
                     \A m \in Attempts : Posted(wjob[w].clip, m)' =>
                       m <= wjob'[w].attempt
                       /\ (m = wjob'[w].attempt \/ m \in gaveUp'[wjob'[w].clip])
                /\ wpc'[w] \in {"failed", "missing"} =>
                     PostedBefore(wjob[w].clip, wjob[w].attempt)'
      BY <1>1, <1>6, <2>2 DEF PostedBefore, SamePosts
    <3> QED
      BY <2>1, <3>1, <3>2 DEF PostsInOrder
  <2>3. \A i \in DOMAIN queue : PostedBefore(queue[i].clip, queue[i].attempt)
    BY DEF PostsInOrder
  <2>4. ASSUME NEW w \in Workers, wpc'[w] = wpc[w], wjob'[w] = wjob[w] PROVE WorkerOld(w)
    <3>1. \A m \in Attempts : wpc[w] \in {"failed", "missing"} /\ Posted(wjob[w].clip, m) =>
            m \in gaveUp'[wjob[w].clip]
      BY <1>1, <1>3 DEF PostsInOrder, PostedBefore, Working
    <3> QED
      BY <1>3, <2>4, <3>1 DEF PostsInOrder, PostedBefore, Working
  <2>5. ASSUME NEW w \in Workers, wpc'[w] = "idle" PROVE WorkerOld(w)
    BY <2>5
  <2> HIDE DEF WorkerOld
  <2>6. ASSUME UNCHANGED <<queue, dead, wpc, wjob>> PROVE Old
    BY <1>2, <2>3, <2>4, <2>6
  <2>7. ASSUME NEW c \in Clips, NEW e, CompleteEnqueue(c), PushNew(c, e) PROVE Old
    <3>1. \A m \in Attempts : ~Posted(c, m)
      BY <2>7 DEF FreshUntilPushed, CompleteEnqueue
    <3>2. \A i \in DOMAIN queue' : \/ queue'[i].clip = c
                                   \/ i - 1 \in DOMAIN queue /\ queue'[i] = queue[i - 1]
                                   \/ i \in DOMAIN queue /\ queue'[i] = queue[i]
      BY <2>7 DEF PushNew, Pushed
    <3>3. QueueOld
      BY <1>2, <2>3, <3>1, <3>2 DEF PostedBefore
    <3> QED
      BY <2>4, <2>7, <3>3 DEF PushNew
  <2>8. ASSUME NEW w \in Workers, NEW k, NEW e, Take(w, k, e) PROVE Old
    <3>1. QueueOld
      BY <1>2, <2>3, <2>8 DEF Take, Popped
    <3>2. PostedBefore(e.clip, e.attempt - 1) /\ e.clip \in Clips
      BY <1>2, <2>3, <2>8 DEF Take, Popped
    <3>3. WorkerOld(w)
      BY <1>0, <2>4, <2>8, <3>2 DEF Take, WorkerTypes, WorkerOld
    <3>4. ASSUME NEW v \in Workers \ {w} PROVE WorkerOld(v)
      BY <1>0, <2>4, <2>8 DEF Take, WorkerTypes
    <3> QED
      BY <3>1, <3>3, <3>4
  <2>9. ASSUME NEW w \in Workers, HandleJobError(w) \/ WorkerCrash(w), LetGo(w) PROVE Old
    <3>1. QueueOld
      <4>1. CASE UNCHANGED queue
        BY <1>2, <2>3, <4>1
      <4>2. CASE Pushed(queue, queue', wjob[w]) /\ HandleJobError(w)
        <5>1. PostedBefore(wjob[w].clip, wjob[w].attempt) /\ wjob[w].clip \in Clips
          BY <1>3, <2>9, <4>2 DEF PostsInOrder, HandleJobError, LetGo
        <5> QED
          BY <1>2, <2>3, <4>2, <5>1 DEF Pushed
      <4> QED
        BY <2>9, <4>1, <4>2 DEF LetGo, WorkerCrash, redisVars
    <3>2. ASSUME NEW v \in Workers PROVE WorkerOld(v)
      BY <1>0, <2>4, <2>5, <2>9 DEF LetGo, WorkerTypes
    <3> QED
      BY <3>1, <3>2
  <2>10. ASSUME NEW w \in Workers, Finish(w) PROVE Old
    <3>1. ASSUME NEW v \in Workers PROVE WorkerOld(v)
      BY <1>0, <2>4, <2>5, <2>10 DEF Finish, WorkerTypes
    <3> QED
      BY <1>2, <2>3, <2>10, <3>1 DEF Finish
  <2>11. ASSUME NEW w \in Workers, ProcessJob(w) \/ PostFailed(w), WorkOn(w) PROVE Old
    <3>1. CASE ProcessJob(w) /\ wpc'[w] = "posting"
      <4>1. ingest' = [ingest EXCEPT ![wjob[w].clip][wjob[w].attempt] = "sent"]
        BY <1>0, <3>1 DEF ProcessJob, WorkerTypes
      <4>2. wjob[w].clip \in Clips /\ wjob[w].attempt \in Attempts
        BY <1>3, <2>11 DEF WorkOn
      <4>3. Posted(wjob[w].clip, wjob[w].attempt)
        BY <1>6, <4>1, <4>2, TypeParts DEF SamePosts, Posted, IngestTypes
      <4>4. FALSE
        BY <1>4, <3>1, <4>2, <4>3 DEF PostsInOrder, PostedBefore, ProcessJob
      <4> QED
        BY <4>4
    <3>2. CASE ProcessJob(w) /\ wpc'[w] # "posting"
      <4>1. PostedBefore(wjob[w].clip, wjob[w].attempt - 1) /\ wjob[w].clip \in Clips
            /\ wjob[w].attempt \in Nat
        BY <1>3, <1>4, <2>11, <3>2 DEF PostsInOrder, ProcessJob, WorkOn
      <4>2. WorkerOld(w)
        BY <1>1, <1>4, <2>11, <3>2, <4>1 DEF WorkerOld, WorkOn, PostedBefore
      <4>3. ASSUME NEW v \in Workers \ {w} PROVE WorkerOld(v)
        BY <2>4, <2>11 DEF WorkOn
      <4> QED
        BY <1>2, <2>3, <2>11, <4>2, <4>3 DEF WorkOn
    <3>3. CASE PostFailed(w)
      <4>1. wjob[w].attempt \in gaveUp'[wjob[w].clip] /\ wpc'[w] = "failed"
            /\ wpc[w] = "posting" /\ wjob[w].clip \in Clips
        BY <1>0, <1>3, <2>11, <3>3, GaveUpGrows DEF PostFailed, WorkOn, WorkerTypes
      <4>2. WorkerOld(w)
        BY <1>1, <2>11, <4>1 DEF WorkerOld, WorkOn, PostsInOrder
      <4>3. ASSUME NEW v \in Workers \ {w} PROVE WorkerOld(v)
        BY <2>4, <2>11 DEF WorkOn
      <4> QED
        BY <1>2, <2>3, <2>11, <4>2, <4>3 DEF WorkOn
    <3> QED
      BY <2>11, <3>1, <3>2, <3>3
  <2>12. ASSUME queue' = <<>>, UNCHANGED <<wpc, wjob>> PROVE Old
    BY <2>4, <2>12
  <2>13. Old
    BY <2>6, <2>7, <2>8, <2>9, <2>10, <2>11, <2>12, EnvelopeMoves
  <2> QED
    BY <2>2, <2>13
<1>7. ASSUME NEW w \in Workers, ProcessJob(w), Posts(w) PROVE PostsInOrder'
  BY <1>5, <1>7, StepsWorkOn
<1> QED
  BY <1>6, <1>7, PostsByWorkers

-----------------------------------------------------------------------------
(* Nothing drops out of sight.                                             *)

(* A score goes only with its clip's row; what was lost is remembered.     *)
LEMMA TracesStay ==
  ASSUME TypeOK, AttemptsBounded, [Next]_vars, NEW d \in Clips
  PROVE  /\ row[d] = "deleted" => row'[d] = "deleted"
         /\ risk[d] # {} => risk'[d] # {} \/ row'[d] = "deleted"
         /\ d \in lost => d \in lost'
<1>0. ClipTypes /\ ScoreTypes
  BY TypeParts
<1> DEFINE Stay == /\ row[d] = "deleted" => row'[d] = "deleted"
                   /\ risk[d] # {} => risk'[d] # {} \/ row'[d] = "deleted"
                   /\ d \in lost => d \in lost'
<1>1. ASSUME UNCHANGED <<row, risk, lost>> PROVE Stay
  BY <1>1
<1>2. ASSUME NEW c \in Clips, UploadUrl(c) \/ CompleteSave(c) PROVE Stay
  BY <1>0, <1>2 DEF UploadUrl, CompleteSave, ClipTypes, Exists, dataVars, ghostVars
<1>3. ASSUME NEW c \in Clips, NEW n \in Attempts, Ingest(c, n) PROVE Stay
  <2>1. lost' = lost
    BY <1>3 DEF Ingest, IngestFind, IngestSave, IngestScore, CrossCamera, ghostVars
  <2>2. row[d] = "deleted" => row'[d] = "deleted"
    BY <1>0, <1>3 DEF Ingest, IngestFind, IngestSave, IngestScore, CrossCamera, ClipTypes,
                      Exists, clipVars
  <2>3. risk[d] # {} => risk'[d] # {}
    BY <1>0, <1>3 DEF Ingest, IngestFind, IngestSave, IngestScore, CrossCamera, ScoreTypes,
                      dataVars
  <2> QED
    BY <2>1, <2>2, <2>3
<1>4. ASSUME NEW c \in Clips, DeleteRows(c) PROVE Stay
  BY <1>0, <1>4 DEF DeleteRows, ClipTypes, ScoreTypes, ghostVars
<1>5. ASSUME NEW c \in Clips,
             \/ PutObject(c) \/ CompleteEnqueue(c) \/ DeleteCheck(c) \/ DeleteObject(c)
             \/ (\E a \in AlertIds : Review(c, a) \/ BulkDeleteAlerts(c, a))
      PROVE UNCHANGED <<row, risk, lost>>
  BY <1>5 DEF PutObject, CompleteEnqueue, DeleteCheck, DeleteObject, Review,
              BulkDeleteAlerts, clipVars, dataVars, ghostVars
<1>6. ASSUME NEW w \in Workers, Worker(w) \/ WorkerCrash(w) PROVE Stay
  <2>1. UNCHANGED <<row, risk>>
    BY <1>6, RowsStay DEF clipVars, dataVars
  <2>2. lost \subseteq lost'
    BY <1>6 DEF Worker, WorkerCrash, BRPop, ProcessJob, PostAnswered, PostFailed,
                HandleJobError, ghostVars
  <2> QED
    BY <2>1, <2>2
<1>7. CASE BackendCrash \/ RedisLoss \/ UNCHANGED vars
  BY <1>7 DEF BackendCrash, RedisLoss, vars, clipVars, dataVars
<1> QED
  BY <1>1, <1>2, <1>3, <1>4, <1>5, <1>6, <1>7 DEF Next

(* A clip that can be found is found after every step.                     *)
LEMMA FindableStep ==
  ASSUME TypeOK, AttemptsBounded, ScoresPosted, [Next]_vars, NEW d \in Clips, Findable(d)
  PROVE  Findable(d)'
<1>0. WorkerTypes
  BY TypeParts
<1>1. CASE risk[d] # {} \/ row[d] = "deleted" \/ d \in lost
  BY <1>1, TracesStay DEF Findable
<1>2. CASE /\ ~(risk[d] # {} \/ row[d] = "deleted" \/ d \in lost)
           /\ \/ \E i \in DOMAIN queue : queue[i].clip = d
              \/ \E w \in Workers : Working(w) /\ wjob[w].clip = d
              \/ \E i \in DOMAIN dead : dead[i].clip = d
  <2> DEFINE Seen == \/ \E i \in DOMAIN queue' : queue'[i].clip = d
                     \/ \E w \in Workers : wpc'[w] # "idle" /\ wjob'[w].clip = d
                     \/ \E i \in DOMAIN dead' : dead'[i].clip = d
                     \/ risk'[d] # {} \/ row'[d] = "deleted" \/ d \in lost'
  <2> USE <1>0, <1>2 DEF Working
  <2>1. ASSUME UNCHANGED <<queue, dead, wpc, wjob>> PROVE Seen
    BY <2>1
  <2>2. ASSUME NEW c \in Clips, NEW e, PushNew(c, e) PROVE Seen
    BY <2>2 DEF PushNew, Pushed
  <2>3. ASSUME NEW w \in Workers, NEW k, NEW e, Take(w, k, e) PROVE Seen
    <3>1. CASE \E i \in DOMAIN queue : queue[i].clip = d /\ i # k
      BY <2>3, <3>1 DEF Take, Popped
    <3>2. CASE queue[k].clip = d
      BY <2>3, <3>2 DEF Take, WorkerTypes
    <3>3. CASE \E v \in Workers : wpc[v] # "idle" /\ wjob[v].clip = d
      BY <2>3, <3>3 DEF Take, WorkerTypes
    <3>4. CASE \E i \in DOMAIN dead : dead[i].clip = d
      BY <2>3, <3>4 DEF Take
    <3> QED
      BY <3>1, <3>2, <3>3, <3>4
  <2>4. ASSUME NEW w \in Workers, LetGo(w) PROVE Seen
    <3>1. CASE \E i \in DOMAIN queue : queue[i].clip = d
      BY <2>4, <3>1 DEF LetGo, Pushed
    <3>2. CASE \E i \in DOMAIN dead : dead[i].clip = d
      BY <2>4, <3>2 DEF LetGo, Pushed
    <3>3. CASE wjob[w].clip = d
      BY <2>4, <3>3 DEF LetGo, Pushed
    <3>4. CASE \E v \in Workers \ {w} : wpc[v] # "idle" /\ wjob[v].clip = d
      BY <2>4, <3>4 DEF LetGo, WorkerTypes
    <3> QED
      BY <3>1, <3>2, <3>3, <3>4
  <2>5. ASSUME NEW w \in Workers, PostAnswered(w), Finish(w) PROVE Seen
    <3>1. CASE wjob[w].clip = d
      <4>1. wjob[w].attempt \in Attempts
        BY <2>5, HeldJob DEF PostAnswered
      <4>2. ingest[d][wjob[w].attempt] = "scored"
        BY <2>5, <3>1 DEF PostAnswered
      <4> QED
        BY <4>1, <4>2 DEF ScoresPosted
    <3>2. CASE wjob[w].clip # d
      BY <2>5, <3>2 DEF Finish, WorkerTypes
    <3> QED
      BY <3>1, <3>2
  <2>6. ASSUME NEW w \in Workers, WorkOn(w) PROVE Seen
    BY <2>6 DEF WorkOn
  <2>7. ASSUME RedisLoss PROVE Seen
    <3>1. queue \in Seq(Job) /\ dead \in Seq(Job)
      BY DEF TypeOK
    <3>2. \A i \in DOMAIN queue : queue[i] \in ToSet(queue \o dead)
      <4> SUFFICES ASSUME NEW i \in DOMAIN queue PROVE queue[i] \in ToSet(queue \o dead)
        OBVIOUS
      <4>1. i \in DOMAIN (queue \o dead) /\ (queue \o dead)[i] = queue[i]
        BY <3>1
      <4> QED
        BY <4>1 DEF ToSet
    <3>3. \A i \in DOMAIN dead : dead[i] \in ToSet(queue \o dead)
      <4> SUFFICES ASSUME NEW i \in DOMAIN dead PROVE dead[i] \in ToSet(queue \o dead)
        OBVIOUS
      <4>1. /\ Len(queue) + i \in DOMAIN (queue \o dead)
            /\ (queue \o dead)[Len(queue) + i] = dead[i]
        BY <3>1
      <4> QED
        BY <4>1 DEF ToSet
    <3>4. \A j \in ToSet(queue \o dead) : j.clip \in lost'
      BY <2>7 DEF RedisLoss
    <3> QED
      BY <2>7, <3>2, <3>3, <3>4 DEF RedisLoss, workerVars
  <2>8. Seen
    BY <2>1, <2>2, <2>3, <2>4, <2>5, <2>6, <2>7, EnvelopeMoves
  <2> QED
    BY <2>8 DEF Findable
<1> QED
  BY <1>1, <1>2 DEF Findable

LEMMA AccountedStep ==
  TypeOK /\ AttemptsBounded /\ ScoresPosted /\ Accounted /\ [Next]_vars => Accounted'
<1> SUFFICES ASSUME TypeOK, AttemptsBounded, ScoresPosted, Accounted, [Next]_vars,
                    NEW d \in Clips,
                    complete'[d] = "ok" \/ \E n \in Attempts : Posted(d, n)'
             PROVE  Findable(d)'
  BY DEF Accounted
<1>0. WorkerTypes /\ ClipTypes
  BY TypeParts
<1>1. CASE complete[d] = "ok" \/ \E n \in Attempts : Posted(d, n)
  BY <1>1, FindableStep DEF Accounted
<1>2. CASE complete[d] # "ok" /\ complete'[d] = "ok"
  <2>1. CompleteEnqueue(d)
    <3>1. complete' # complete
      BY <1>2
    <3>2. ~BackendCrash
      BY <1>0, <1>2 DEF BackendCrash, ClipTypes
    <3>3. \A w \in Workers : ~(Worker(w) \/ WorkerCrash(w))
      BY <3>1, RowsStay DEF clipVars
    <3>4. ~RedisLoss /\ ~UNCHANGED vars
      BY <3>1, RowsStay DEF clipVars, vars
    <3>5. PICK c \in Clips : \/ UploadUrl(c) \/ PutObject(c) \/ CompleteSave(c)
                             \/ CompleteEnqueue(c)
                             \/ DeleteCheck(c) \/ DeleteObject(c) \/ DeleteRows(c)
                             \/ \E n \in Attempts : Ingest(c, n)
                             \/ \E a \in AlertIds : Review(c, a) \/ BulkDeleteAlerts(c, a)
      BY <3>2, <3>3, <3>4 DEF Next
    <3>6. CompleteSave(c) \/ CompleteEnqueue(c)
      BY <3>1, <3>5 DEF UploadUrl, PutObject, DeleteCheck, DeleteObject, DeleteRows, Ingest,
                        IngestFind, IngestSave, IngestScore, CrossCamera, Review,
                        BulkDeleteAlerts, clipVars
    <3> QED
      BY <1>0, <1>2, <3>6 DEF CompleteSave, CompleteEnqueue, ClipTypes
  <2>2. PICK e : PushNew(d, e)
    BY <2>1, CompleteEnqueuePushes
  <2>3. Pushed(queue, queue', e) /\ e.clip = d
    BY <1>2, <2>2 DEF PushNew
  <2> QED
    BY <2>3 DEF Pushed, Findable
<1>3. CASE \E n \in Attempts : Posted(d, n)' /\ ~Posted(d, n)
  <2>1. PICK w \in Workers : ProcessJob(w) /\ Posts(w)
    BY <1>3, PostsByWorkers DEF SamePosts
  <2>2. wjob[w].clip = d /\ wpc'[w] = "posting" /\ wjob' = wjob
    BY <1>3, <2>1 DEF Posts, ProcessJob
  <2> QED
    BY <2>2 DEF Findable, Working
<1> QED
  BY <1>1, <1>2, <1>3

-----------------------------------------------------------------------------
(* The invariant, and what follows from it.                                *)

LEMMA StepAnalysisInv == AnalysisInv /\ [Next]_vars => AnalysisInv'
  BY TypeStep, AttemptsStep, OneEnvelopeStep, FreshStep, ScoresStep, PostsStep,
     AccountedStep DEF AnalysisInv

(* Every reachable state satisfies the inductive invariant: what the       *)
(* handshake, the workers and the ingest know about a clip hangs together. *)
THEOREM AnalysisInvariant == Spec => []AnalysisInv
  BY InitAnalysisInv, StepAnalysisInv, PTL DEF Spec

(* Every variable keeps its type: in particular no attempt is counted past *)
(* MAX_RETRIES, in either list, with a worker or in a running ingest.      *)
THEOREM TypesHold == Spec => []TypeOK
<1>1. AnalysisInv => TypeOK
  BY DEF AnalysisInv
<1> QED
  BY <1>1, AnalysisInvariant, PTL

(* A set whose elements are all equal has at most one.                     *)
LEMMA AtMostOne ==
  ASSUME NEW S, \A x, y \in S : x = y
  PROVE  (Cardinality(S) = 0 /\ S = {}) \/ Cardinality(S) = 1
<1>1. CASE S = {}
  BY <1>1, FS_EmptySet
<1>2. CASE S # {}
  <2>1. PICK x : x \in S
    BY <1>2
  <2>2. S = {x}
    BY <2>1
  <2> QED
    BY <2>2, FS_Singleton
<1> QED
  BY <1>1, <1>2

(* LPUSH, BRPOP and the retry of a failed job never make two jobs out of   *)
(* one (ClipQueue.EnqueueAsync, worker_loop, handle_job_error).            *)
THEOREM OneJobPerClip == Spec => []SingleEnvelope
<1>1. AnalysisInv => SingleEnvelope
  <2> SUFFICES ASSUME AnalysisInv PROVE SingleEnvelope
    OBVIOUS
  <2>1. \A i \in DOMAIN queue : queue[i].attempt < MaxRetries
    BY DEF AnalysisInv, AttemptsBounded
  <2>2. ASSUME NEW c \in Clips
        PROVE  Cardinality(InQueue(c)) + Cardinality(Held(c)) + Cardinality(InDead(c)) <= 1
    <3>1. /\ \A x, y \in InQueue(c) : x = y
          /\ \A x, y \in Held(c) : x = y
          /\ \A x, y \in InDead(c) : x = y
      BY DEF AnalysisInv, OneEnvelope, InQueue, Held, InDead, Working
    <3>2. /\ InQueue(c) = {} \/ Held(c) = {}
          /\ InQueue(c) = {} \/ InDead(c) = {}
          /\ Held(c) = {} \/ InDead(c) = {}
      BY DEF AnalysisInv, OneEnvelope, InQueue, Held, InDead, Working
    <3> DEFINE q == InQueue(c)
               h == Held(c)
               f == InDead(c)
    <3>3. /\ \A x, y \in q : x = y
          /\ \A x, y \in h : x = y
          /\ \A x, y \in f : x = y
          /\ (q = {} \/ h = {}) /\ (q = {} \/ f = {}) /\ (h = {} \/ f = {})
      BY <3>1, <3>2
    <3> HIDE DEF q, h, f
    <3>4. /\ (Cardinality(q) = 0 /\ q = {}) \/ Cardinality(q) = 1
          /\ (Cardinality(h) = 0 /\ h = {}) \/ Cardinality(h) = 1
          /\ (Cardinality(f) = 0 /\ f = {}) \/ Cardinality(f) = 1
      BY <3>3, AtMostOne
    <3>5. Cardinality({}) = 0
      BY FS_EmptySet
    <3>6. Cardinality(q) + Cardinality(h) + Cardinality(f) <= 1
      BY <3>3, <3>4, <3>5
    <3> QED
      BY <3>6 DEF q, h, f
  <2> QED
    BY <2>1, <2>2 DEF SingleEnvelope
<1> QED
  BY <1>1, AnalysisInvariant, PTL

(* An upload the backend acknowledged (ClipsController.Complete) does not  *)
(* drop out of sight, whatever fails, is retried, deleted or crashes.      *)
THEOREM UploadsStayInSight == Spec => []UploadsAccountedFor
<1>1. AnalysisInv => UploadsAccountedFor
  BY DEF AnalysisInv, Accounted, Findable, UploadsAccountedFor, InQueue, Held, InDead, Working
<1> QED
  BY <1>1, AnalysisInvariant, PTL

(* A clip shown as analyzed without a score is somebody's to find: between *)
(* the two transactions of AiEventsController, or on its way to a retry.   *)
THEOREM AnalyzedStaysInSight == Spec => []AnalyzedIsScored
<1>1. AnalysisInv => AnalyzedIsScored
  BY DEF AnalysisInv, Accounted, ScoresPosted, Findable, AnalyzedIsScored,
         InQueue, Held, InDead, Working
<1> QED
  BY <1>1, AnalysisInvariant, PTL

(* A clip is scored twice only if its worker was not told of the first     *)
(* score: the ingest keeps no key that would make it idempotent.           *)
THEOREM ScoresExplained == Spec => []SecondScoresExplained
<1>1. AnalysisInv => SecondScoresExplained
  <2> SUFFICES ASSUME AnalysisInv, NEW c \in Clips, NEW m \in risk[c], NEW n \in risk[c],
                      m < n
               PROVE  m \in gaveUp[c]
    BY DEF SecondScoresExplained
  <2>1. m \in Attempts /\ n \in Attempts
    BY DEF AnalysisInv, TypeOK
  <2>2. Posted(c, m) /\ Posted(c, n)
    BY DEF AnalysisInv, ScoresPosted
  <2> QED
    BY <2>1, <2>2 DEF AnalysisInv, PostsInOrder
<1> QED
  BY <1>1, AnalysisInvariant, PTL

(* No handler writes a status over that of a deleted clip: the upload's    *)
(* completion and both ingest transactions find the row gone.              *)
THEOREM DeletedForGood == Spec => DeletedStaysDeleted
<1>1. AnalysisInv /\ [Next]_vars =>
        [\A c \in Clips : row[c] = "deleted" => row'[c] = "deleted"]_vars
  BY TracesStay DEF AnalysisInv
<1> QED
  BY <1>1, AnalysisInvariant, PTL DEF Spec, DeletedStaysDeleted
=============================================================================
