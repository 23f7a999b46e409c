------------------------------ MODULE ZoneCache ------------------------------
(***************************************************************************)
(* The detection zones of one camera, from the operator's hand to the mask  *)
(* the motion detector uses.  The backend keeps the saved zones and one      *)
(* reference picture.  The connector's control page writes through it        *)
(* (wizard.py) and then bumps a local revision (runtime.py); the tray's zone  *)
(* editor (tray_zone_editor.py) is a client of the same page; the dashboard   *)
(* writes past the connector.  The capture thread (capture.py) refetches the  *)
(* zones when the revision, the frame size or ten seconds ask for it, and     *)
(* publishes a reference picture after the zones have changed.                *)
(*                                                                         *)
(* The thread is that of the single-camera mode (main.py): the process ends   *)
(* with it and the service manager starts it again.                          *)
(***************************************************************************)
EXTENDS Integers, FiniteSets

CONSTANTS
    ZoneIds,           \* ids the backend can give to zones
    Shapes,            \* polygons as stored
    Usable,            \* those with three or more points, all within 0..1
    Sizes,             \* frame sizes the source may deliver
    MaxChanges         \* bound: requests and dashboard edits in a behaviour

ASSUME ZoneAssumption ==
    Usable \subseteq Shapes /\ Sizes # {} /\ MaxChanges \in Nat

None == "none"

VARIABLES
    saved, picture, up,          \* the backend; up: it can be reached
    unannounced,                 \* history: saved was changed past the revision
    requests, revision, changes, \* the control page's handlers at work
    paused,
    pc, size, asked, answer,     \* the capture thread and its fetch
    mask, maskSize, loaded, old, failures, signature,
    pending, inflight, publishing

backend  == <<saved, picture, unannounced>>
page     == <<requests, revision, changes>>
fetching == <<asked, answer>>
cache    == <<mask, maskSize, loaded, old, failures, signature>>
preview  == <<pending, inflight, publishing>>
vars     == <<backend, up, page, paused, pc, size, fetching, cache, preview>>

Stored(s)    == {<<z, s[z]>> : z \in {y \in ZoneIds : s[y] # None}}
Polygons(s)  == {p \in Stored(s) : p[2] \in Usable}
FreeIds      == {z \in ZoneIds : saved[z] = None /\ \A r \in requests : r.id # z}

FreshCache ==
    /\ mask = {} /\ maskSize = None /\ loaded = -1 /\ old = FALSE
    /\ failures = 0 /\ signature = {}
    /\ pending = FALSE /\ inflight = FALSE /\ publishing = FALSE

Init ==
    /\ saved \in [ZoneIds -> Shapes \cup {None}] /\ picture = FALSE /\ up = TRUE
    /\ unannounced = FALSE
    /\ requests = {} /\ revision = 0 /\ changes = 0
    /\ paused = FALSE
    /\ pc = "read" /\ size \in Sizes /\ asked = 0 /\ answer = {}
    /\ FreshCache

-----------------------------------------------------------------------------
(* The control page.  Its handlers run beside the capture thread.            *)

Request(kind, z, shape) == [kind |-> kind, id |-> z, shape |-> shape, stage |-> "write"]

AskFor(r) ==
    /\ changes < MaxChanges
    /\ changes' = changes + 1
    /\ requests' = requests \cup {r}
    /\ UNCHANGED <<backend, up, revision, paused, pc, size, fetching, cache, preview>>

\* Three or more points within 0..1: the page takes no other polygon.
SaveZone ==
    \E shape \in Usable, z \in ZoneIds :
        saved[z] # None /\ AskFor(Request("update", z, shape))

DeleteZone ==
    \E z \in ZoneIds : saved[z] # None /\ AskFor(Request("delete", z, None))

\* The tray's editor only ever creates.  It selects among the zones it has
\* loaded, and a load fails at its second half, the snapshot: the runtime has no
\* attribute reference_frames to look it up in or to keep it.  It gives up on an
\* answer after fifteen seconds, the handler goes on alone.
CreateZone ==
    \E shape \in Usable, z \in FreeIds : AskFor(Request("create", z, shape))

Advance(r, stage) == requests' = (requests \ {r}) \cup {[r EXCEPT !.stage = stage]}

\* Nothing was written: the backend is away, or an id it no longer knows.
WriteRefused(r) ==
    /\ r.stage = "write"
    /\ ~up \/ (r.kind # "create" /\ saved[r.id] = None)
    /\ requests' = requests \ {r}
    /\ UNCHANGED <<backend, up, revision, changes, paused, pc, size, fetching, cache,
                   preview>>

\* The write is carried out; if its answer is lost the handler stops here.
Write(r) ==
    /\ r.stage = "write" /\ up
    /\ r.kind # "create" => saved[r.id] # None
    /\ saved' = [saved EXCEPT ![r.id] = r.shape]
    /\ \/ /\ Advance(r, IF r.kind = "delete" THEN "announce" ELSE "picture")
          /\ UNCHANGED unannounced
       \/ requests' = requests \ {r} /\ unannounced' = TRUE
    /\ UNCHANGED <<picture, up, revision, changes, paused, pc, size, fetching, cache,
                   preview>>

\* The page's last frame of the camera goes along, if it has kept one (a pause
\* drops them); that the upload may fail is only logged.
StorePicture(r) ==
    /\ r.stage = "picture"
    /\ \E kept \in BOOLEAN : picture' = (picture \/ (kept /\ up))
    /\ Advance(r, "announce")
    /\ UNCHANGED <<saved, unannounced, up, revision, changes, paused, pc, size,
                   fetching, cache, preview>>

Announce(r) ==
    /\ r.stage = "announce"
    /\ revision' = revision + 1
    /\ requests' = requests \ {r}
    /\ UNCHANGED <<backend, up, changes, paused, pc, size, fetching, cache, preview>>

DashboardEdit ==
    /\ changes < MaxChanges /\ changes' = changes + 1
    /\ \E z \in ZoneIds, shape \in Shapes \cup {None} :
         /\ saved[z] # shape /\ (saved[z] = None => z \in FreeIds)
         /\ saved' = [saved EXCEPT ![z] = shape]
    /\ unannounced' = TRUE
    /\ UNCHANGED <<picture, up, requests, revision, paused, pc, size, fetching,
                   cache, preview>>

BackendToggles ==
    /\ up' = ~up
    /\ UNCHANGED <<backend, page, paused, pc, size, fetching, cache, preview>>

PauseOrResume ==
    /\ paused' = ~paused
    /\ UNCHANGED <<backend, up, page, pc, size, fetching, cache, preview>>

-----------------------------------------------------------------------------
(* The capture thread, once per frame: refresh, preview, analyse.            *)

TenSeconds ==
    /\ ~old /\ loaded # -1 /\ old' = TRUE
    /\ UNCHANGED <<backend, up, page, paused, pc, size, fetching, mask, maskSize, loaded,
                   failures, signature, preview>>

\* The source was opened again, after a pause or a lost stream.
SourceReopened ==
    /\ pc = "read" /\ \E s \in Sizes \ {size} : size' = s
    /\ UNCHANGED <<backend, up, page, paused, pc, fetching, cache, preview>>

\* A mutant: the ten seconds are forgotten.
UpToDateWhateverAge == maskSize = size /\ loaded = revision

UpToDate == maskSize = size /\ loaded = revision /\ ~old

\* The revision is read before the zones are asked for.
ReadFrame ==
    /\ pc = "read" /\ ~paused
    /\ IF UpToDate THEN pc' = "preview" /\ UNCHANGED asked
                   ELSE pc' = "fetch" /\ asked' = revision
    /\ UNCHANGED <<backend, up, page, paused, size, answer, cache, preview>>

BackendAnswers ==
    /\ pc = "fetch" /\ up
    /\ pc' = "store" /\ answer' = Stored(saved) /\ unannounced' = FALSE
    /\ UNCHANGED <<saved, picture, up, page, paused, size, asked, cache, preview>>

\* A mutant: the revision is read when the zones have come.
StoreZonesLateRevision ==
    /\ pc = "store" /\ pc' = "preview"
    /\ mask' = {p \in answer : p[2] \in Usable} /\ maskSize' = size
    /\ loaded' = revision /\ old' = FALSE /\ failures' = 0 /\ signature' = answer
    /\ pending' = (pending \/ (mask' # {} /\ signature # answer))
    /\ asked' = 0 /\ answer' = {}
    /\ UNCHANGED <<backend, up, page, paused, size, inflight, publishing>>

StoreZones ==
    /\ pc = "store" /\ pc' = "preview"
    /\ mask' = {p \in answer : p[2] \in Usable} /\ maskSize' = size
    /\ loaded' = asked /\ old' = FALSE /\ failures' = 0 /\ signature' = answer
    /\ pending' = (pending \/ (mask' # {} /\ signature # answer))
    /\ asked' = 0 /\ answer' = {}
    /\ UNCHANGED <<backend, up, page, paused, size, inflight, publishing>>

\* A mutant: a failed fetch keeps the polygons for as long as there are some.
FetchFailsOpen ==
    /\ pc = "fetch" /\ ~up
    /\ pc' = "preview"
    /\ loaded' = asked /\ old' = FALSE
    /\ failures' = failures
    /\ IF mask # {} THEN UNCHANGED <<mask, maskSize>> ELSE mask' = {} /\ maskSize' = size
    /\ asked' = 0
    /\ UNCHANGED <<backend, up, page, paused, size, answer, signature, preview>>

\* Two failures are forgiven; the old polygons stay, for the size they were
\* drawn for.  From the third on there are none, and so no motion.
FetchFails ==
    /\ pc = "fetch" /\ ~up
    /\ pc' = "preview"
    /\ loaded' = asked /\ old' = FALSE
    /\ failures' = IF failures < 3 THEN failures + 1 ELSE 3
    /\ IF mask # {} /\ failures' < 3 THEN UNCHANGED <<mask, maskSize>>
                                     ELSE mask' = {} /\ maskSize' = size
    /\ asked' = 0
    /\ UNCHANGED <<backend, up, page, paused, size, answer, signature, preview>>

\* A mutant: the in-flight mark is forgotten.
PublishUnmarked ==
    /\ pc = "preview" /\ pc' = "analyze"
    /\ IF pending /\ ~inflight
         THEN pending' = FALSE /\ publishing' = TRUE
         ELSE UNCHANGED <<pending, publishing>>
    /\ UNCHANGED <<backend, up, page, paused, size, fetching, cache, inflight>>

\* With every preview a picture is published if one is due and none under way.
PublishPreview ==
    /\ pc = "preview" /\ pc' = "analyze"
    /\ IF pending /\ ~inflight
         THEN pending' = FALSE /\ inflight' = TRUE /\ publishing' = TRUE
         ELSE UNCHANGED <<pending, inflight, publishing>>
    /\ UNCHANGED <<backend, up, page, paused, size, fetching, cache>>

\* A mask drawn for another size cannot be laid over the frame: OpenCV raises,
\* and with it the thread that waits for the analysis.  Unless the pool is full,
\* or a pause keeps it from being called.
Analyze ==
    /\ pc = "analyze"
    /\ \/ pc' = "read"
       \/ mask # {} /\ maskSize # size /\ ~paused /\ pc' = "dead"
    /\ UNCHANGED <<backend, up, page, paused, size, fetching, cache, preview>>

\* The process went with its main thread; requests it was serving are cut off
\* wherever they are.
Restart ==
    /\ pc = "dead" /\ pc' = "read"
    /\ size' \in Sizes
    /\ requests' = {} /\ revision' = 0
    /\ unannounced' = (unannounced \/ \E r \in requests : r.stage # "write")
    /\ mask' = {} /\ maskSize' = None /\ loaded' = -1 /\ old' = FALSE
    /\ failures' = 0 /\ signature' = {}
    /\ pending' = FALSE /\ inflight' = FALSE /\ publishing' = FALSE
    /\ UNCHANGED <<saved, picture, up, changes, paused, fetching>>

-----------------------------------------------------------------------------
(* The event pool publishes the reference picture.                           *)

\* A mutant: a failed upload is not tried again.
PublishOnce ==
    /\ publishing /\ publishing' = FALSE
    /\ IF paused THEN UNCHANGED <<inflight, picture, pending>>
                 ELSE inflight' = FALSE /\ picture' = (picture \/ up) /\ pending' = pending
    /\ UNCHANGED <<saved, unannounced, up, page, paused, pc, size, fetching, cache>>

\* While paused the pool drops the job without calling it: nobody takes the
\* in-flight mark back, and this process publishes no picture any more.
Publish ==
    /\ publishing /\ publishing' = FALSE
    /\ IF paused
         THEN UNCHANGED <<inflight, picture, pending>>
         ELSE inflight' = FALSE /\ picture' = (picture \/ up) /\ pending' = (pending \/ ~up)
    /\ UNCHANGED <<saved, unannounced, up, page, paused, pc, size, fetching, cache>>

Editors ==
    SaveZone \/ CreateZone \/ DeleteZone \/ DashboardEdit

Handlers ==
    \E r \in requests : WriteRefused(r) \/ Write(r) \/ StorePicture(r) \/ Announce(r)

CaptureThread ==
    \/ ReadFrame \/ BackendAnswers \/ StoreZones \/ FetchFails
    \/ PublishPreview \/ Analyze \/ Restart

Next ==
    \/ Editors \/ Handlers \/ CaptureThread \/ Publish \/ TenSeconds
    \/ SourceReopened \/ BackendToggles \/ PauseOrResume

Spec == Init /\ [][Next]_vars

\* The thread, the pool and the clock go on; the service manager restarts the
\* process.  The operator, the dashboard and the network need not do anything.
FairSpec ==
    Spec /\ WF_vars(CaptureThread) /\ WF_vars(Publish) /\ WF_vars(TenSeconds)

-----------------------------------------------------------------------------
\* Every variable has its type, and a publish that is due has the in-flight mark:
\* never two of them at a time.
TypeOK ==
    /\ saved \in [ZoneIds -> Shapes \cup {None}]
    /\ {picture, up, unannounced, paused, old, pending, inflight, publishing} \subseteq BOOLEAN
    /\ requests \subseteq [kind : {"create", "update", "delete"}, id : ZoneIds,
                           shape : Usable \cup {None},
                           stage : {"write", "picture", "announce"}]
    /\ revision \in 0..MaxChanges /\ changes \in 0..MaxChanges
    /\ pc \in {"read", "fetch", "store", "preview", "analyze", "dead"}
    /\ size \in Sizes /\ asked \in 0..MaxChanges
    /\ answer \subseteq ZoneIds \X Shapes /\ signature \subseteq ZoneIds \X Shapes
    /\ mask \subseteq ZoneIds \X Usable
    /\ maskSize \in Sizes \cup {None} /\ loaded \in -1..MaxChanges
    /\ failures \in 0..3
    /\ publishing => inflight

\* A zone edit that the control page has announced is in the mask of the next
\* frame analysed, whenever the edit fell between the steps of a fetch.  Edits
\* still being written, edits made past the page, and a fetch that failed
\* are what may delay it.
AnnouncedEditsAreSeen ==
    pc = "analyze" /\ loaded = revision /\ failures = 0
        /\ ~unannounced /\ (\A r \in requests : r.stage = "write")
    => mask = Polygons(saved)

\* With the backend back and no pause, the mask becomes what is saved and stays
\* so, edits past the page, lost answers and crashes included.
ZonesReachMask ==
    <>[](up /\ ~paused) => <>[](mask = Polygons(saved))

\* With the backend gone for good the old polygons are given up.
OldMaskExpires ==
    <>[](~up /\ ~paused) => <>[](mask = {})

\* A camera with zones gets its reference picture, failed uploads or not, unless
\* a pause has stranded the in-flight mark (Publish).
Stranded == inflight /\ ~publishing
PictureFollows ==
    <>[](up /\ ~paused) => <>[](mask # {} => picture \/ Stranded)
=============================================================================
