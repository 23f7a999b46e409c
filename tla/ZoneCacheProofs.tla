--------------------------- MODULE ZoneCacheProofs ---------------------------
(***************************************************************************)
(* Proofs about ZoneCache, for every set of zone ids, polygons and frame    *)
(* sizes and every number of edits.                                         *)
(*                                                                         *)
(* The argument is the one the code relies on without saying so: the        *)
(* revision only grows between two starts of the process, it is read before *)
(* the zones are asked for, and it is bumped after they were written.  So    *)
(* an answer that belongs to the current revision is out of date only while  *)
(* some write has not been announced.                                       *)
(***************************************************************************)
EXTENDS ZoneCache, FiniteSetTheorems, TLAPS

(* Every change of saved has been announced.                               *)
Quiet == ~unannounced /\ \A r \in requests : r.stage = "write"

(* Each announcement answers a request of its own.                         *)
RevisionsCounted ==
    /\ IsFiniteSet(requests)
    /\ revision + Cardinality(requests) <= changes

(* What a fetch or the cache has noted is no later than the revision.      *)
NotedEarlier ==
    /\ loaded <= revision
    /\ pc \in {"fetch", "store"} => asked <= revision

(* An answer that belongs to the revision is what is saved, and so is the   *)
(* mask between two fetches.                                               *)
AnswerCurrent ==
    pc = "store" /\ asked = revision /\ Quiet => answer = Stored(saved)

MaskCurrent ==
    pc \in {"read", "preview", "analyze"} /\ loaded = revision /\ failures = 0 /\ Quiet
      => mask = Polygons(saved)

ZoneInv == TypeOK /\ RevisionsCounted /\ NotedEarlier /\ AnswerCurrent /\ MaskCurrent

-----------------------------------------------------------------------------
(* The types, a group of variables at a time.                              *)

RequestType == [kind : {"create", "update", "delete"}, id : ZoneIds,
                shape : Usable \cup {None}, stage : {"write", "picture", "announce"}]

BackendTypes ==
    /\ saved \in [ZoneIds -> Shapes \cup {None}]
    /\ picture \in BOOLEAN /\ up \in BOOLEAN /\ unannounced \in BOOLEAN

PageTypes ==
    /\ requests \subseteq RequestType
    /\ revision \in Nat /\ changes \in 0..MaxChanges /\ paused \in BOOLEAN

ThreadTypes ==
    /\ pc \in {"read", "fetch", "store", "preview", "analyze", "dead"}
    /\ size \in Sizes /\ asked \in 0..MaxChanges
    /\ answer \subseteq ZoneIds \X Shapes

CacheTypes ==
    /\ mask \subseteq ZoneIds \X Usable /\ signature \subseteq ZoneIds \X Shapes
    /\ maskSize \in Sizes \cup {None} /\ loaded \in -1..MaxChanges
    /\ failures \in 0..3 /\ old \in BOOLEAN

PreviewTypes ==
    /\ pending \in BOOLEAN /\ inflight \in BOOLEAN /\ publishing \in BOOLEAN
    /\ publishing => inflight

LEMMA TypeParts ==
  TypeOK <=> /\ BackendTypes /\ PageTypes /\ revision \in 0..MaxChanges
             /\ ThreadTypes /\ CacheTypes /\ PreviewTypes
  BY ZoneAssumption
     DEF TypeOK, BackendTypes, PageTypes, ThreadTypes, CacheTypes, PreviewTypes, RequestType

(* Initially nothing is read, noted or asked for.                          *)
LEMMA InitZoneInv == Init => ZoneInv
<1> SUFFICES ASSUME Init PROVE ZoneInv
  OBVIOUS
<1>1. TypeOK
  <2>1. BackendTypes
    BY DEF Init, BackendTypes
  <2>2. changes \in 0..MaxChanges /\ revision \in 0..MaxChanges /\ asked \in 0..MaxChanges
    BY ZoneAssumption DEF Init
  <2>3. PageTypes
    BY <2>2 DEF Init, PageTypes
  <2>4. ThreadTypes
    BY <2>2 DEF Init, ThreadTypes
  <2>5. PreviewTypes
    BY DEF Init, FreshCache, PreviewTypes
  <2>6. loaded \in -1..MaxChanges /\ failures \in 0..3
    BY ZoneAssumption DEF Init, FreshCache
  <2>7. CacheTypes
    BY <2>6 DEF Init, FreshCache, CacheTypes
  <2> QED
    BY <2>1, <2>2, <2>3, <2>4, <2>5, <2>7, TypeParts
<1>2. RevisionsCounted
  BY FS_EmptySet DEF Init, RevisionsCounted
<1>3. NotedEarlier /\ AnswerCurrent /\ MaskCurrent
  BY DEF Init, FreshCache, NotedEarlier, AnswerCurrent, MaskCurrent
<1> QED
  BY <1>1, <1>2, <1>3 DEF ZoneInv

(* What is stored are zones with their polygons.                           *)
LEMMA StoredType ==
  ASSUME BackendTypes
  PROVE  Stored(saved) \subseteq ZoneIds \X Shapes
  BY DEF BackendTypes, Stored

(* Every change of the backend's data keeps its type.                      *)
LEMMA BackendTypesStep == TypeOK /\ [Next]_vars => BackendTypes'
<1> SUFFICES ASSUME TypeOK, [Next]_vars PROVE BackendTypes'
  OBVIOUS
<1>0. BackendTypes /\ PageTypes
  BY TypeParts
<1>1. CASE UNCHANGED <<backend, up>>
  BY <1>0, <1>1 DEF BackendTypes, backend
<1>2. ASSUME NEW r \in requests, Write(r) PROVE BackendTypes'
  <2>1. r.shape \in Shapes \cup {None}
    BY <1>0, ZoneAssumption DEF PageTypes, RequestType
  <2>2. /\ saved' = [saved EXCEPT ![r.id] = r.shape]
        /\ unannounced' = unannounced \/ unannounced' = TRUE
        /\ UNCHANGED <<picture, up>>
    BY <1>2 DEF Write
  <2> QED
    BY <1>0, <2>1, <2>2 DEF BackendTypes
<1>3. ASSUME NEW r \in requests, StorePicture(r) PROVE BackendTypes'
  BY <1>0, <1>3 DEF StorePicture, BackendTypes
<1>4. CASE DashboardEdit
  BY <1>0, <1>4 DEF DashboardEdit, BackendTypes
<1>5. CASE BackendToggles
  BY <1>0, <1>5 DEF BackendToggles, BackendTypes, backend
<1>6. CASE BackendAnswers
  BY <1>0, <1>6 DEF BackendAnswers, BackendTypes
<1>7. CASE Restart
  BY <1>0, <1>7 DEF Restart, BackendTypes
<1>8. CASE Publish
  BY <1>0, <1>8 DEF Publish, BackendTypes
<1>9. CASE SaveZone \/ DeleteZone \/ CreateZone
  BY <1>1, <1>9 DEF SaveZone, DeleteZone, CreateZone, AskFor
<1>10. ASSUME NEW r \in requests, WriteRefused(r) \/ Announce(r)
       PROVE UNCHANGED <<backend, up>>
  BY <1>10 DEF WriteRefused, Announce
<1>11. CASE ReadFrame \/ StoreZones \/ FetchFails \/ PublishPreview \/ Analyze
            \/ TenSeconds \/ SourceReopened \/ PauseOrResume
  BY <1>1, <1>11 DEF ReadFrame, StoreZones, FetchFails, PublishPreview, Analyze,
                     TenSeconds, SourceReopened, PauseOrResume
<1>12. CASE UNCHANGED vars
  BY <1>1, <1>12 DEF vars
<1> QED
  BY <1>1, <1>2, <1>3, <1>4, <1>5, <1>6, <1>7, <1>8, <1>9, <1>10, <1>11, <1>12
     DEF Next, Editors, Handlers, CaptureThread

(* A request moves on, is done or is cut off; what is asked for has a type. *)
LEMMA PageTypesStep == TypeOK /\ [Next]_vars => PageTypes'
<1> SUFFICES ASSUME TypeOK, [Next]_vars PROVE PageTypes'
  OBVIOUS
<1>0. PageTypes
  BY TypeParts
<1>1. CASE UNCHANGED <<page, paused>>
  BY <1>0, <1>1 DEF PageTypes, page
<1>2. ASSUME NEW r \in RequestType, AskFor(r) PROVE PageTypes'
  BY <1>0, <1>2, ZoneAssumption DEF AskFor, PageTypes
<1>3. CASE SaveZone \/ DeleteZone \/ CreateZone
  <2>1. \A z \in ZoneIds, shape \in Usable : /\ Request("update", z, shape) \in RequestType
                                             /\ Request("create", z, shape) \in RequestType
                                             /\ Request("delete", z, None) \in RequestType
    BY DEF Request, RequestType
  <2>2. \A z \in ZoneIds : Request("delete", z, None) \in RequestType
    BY DEF Request, RequestType
  <2>3. PICK r \in RequestType : AskFor(r)
    BY <1>3, <2>1, <2>2 DEF SaveZone, DeleteZone, CreateZone, FreeIds
  <2> QED
    BY <1>2, <2>3
<1>4. ASSUME NEW r \in requests, NEW stage \in {"write", "picture", "announce"},
             Advance(r, stage)
      PROVE  requests' \subseteq RequestType
  <2>1. r \in RequestType
    BY <1>0 DEF PageTypes
  <2>2. [r EXCEPT !.stage = stage] \in RequestType
    BY <2>1 DEF RequestType
  <2> QED
    BY <1>0, <1>4, <2>2 DEF PageTypes, Advance
<1>5. ASSUME NEW r \in requests, WriteRefused(r) \/ Write(r) \/ StorePicture(r) \/ Announce(r)
      PROVE PageTypes'
  <2>1. CASE WriteRefused(r)
    BY <1>0, <2>1 DEF WriteRefused, PageTypes
  <2>2. CASE Write(r)
    <3>1. requests' \subseteq RequestType
      BY <1>0, <1>4, <2>2 DEF Write, PageTypes
    <3> QED
      BY <1>0, <2>2, <3>1 DEF Write, PageTypes
  <2>3. CASE StorePicture(r)
    <3>1. requests' \subseteq RequestType
      BY <1>4, <2>3 DEF StorePicture
    <3> QED
      BY <1>0, <2>3, <3>1 DEF StorePicture, PageTypes
  <2>4. CASE Announce(r)
    BY <1>0, <2>4 DEF Announce, PageTypes
  <2> QED
    BY <1>5, <2>1, <2>2, <2>3, <2>4
<1>6. CASE DashboardEdit
  BY <1>0, <1>6, ZoneAssumption DEF DashboardEdit, PageTypes
<1>7. CASE PauseOrResume
  BY <1>0, <1>7 DEF PauseOrResume, PageTypes, page
<1>8. CASE Restart
  BY <1>0, <1>8 DEF Restart, PageTypes
<1>9. CASE \/ ReadFrame \/ BackendAnswers \/ StoreZones \/ FetchFails \/ PublishPreview
           \/ Analyze \/ TenSeconds \/ SourceReopened \/ BackendToggles \/ Publish
  BY <1>1, <1>9 DEF ReadFrame, BackendAnswers, StoreZones, FetchFails, PublishPreview,
                    Analyze, TenSeconds, SourceReopened, BackendToggles, Publish
<1>10. CASE UNCHANGED vars
  BY <1>1, <1>10 DEF vars
<1> QED
  BY <1>3, <1>5, <1>6, <1>7, <1>8, <1>9, <1>10 DEF Next, Editors, Handlers, CaptureThread

(* The capture thread, its fetch and the cache.                            *)
LEMMA ThreadTypesStep ==
  TypeOK /\ [Next]_vars => ThreadTypes' /\ CacheTypes' /\ PreviewTypes'
<1> SUFFICES ASSUME TypeOK, [Next]_vars PROVE ThreadTypes' /\ CacheTypes' /\ PreviewTypes'
  OBVIOUS
<1>0. /\ BackendTypes /\ ThreadTypes /\ CacheTypes /\ PreviewTypes
      /\ revision \in 0..MaxChanges
  BY TypeParts
<1>1. CASE UNCHANGED <<pc, size, fetching, cache, preview>>
  BY <1>0, <1>1 DEF ThreadTypes, CacheTypes, PreviewTypes, fetching, cache, preview
<1>2. CASE ReadFrame \/ Analyze \/ SourceReopened
  BY <1>0, <1>2 DEF ReadFrame, Analyze, SourceReopened, ThreadTypes, CacheTypes,
                    PreviewTypes, fetching, cache, preview
<1>3. CASE BackendAnswers
  BY <1>0, <1>3, StoredType DEF BackendAnswers, ThreadTypes, CacheTypes, PreviewTypes,
                                cache, preview
<1>4. CASE StoreZones
  <2>1. ThreadTypes'
    BY <1>0, <1>4, ZoneAssumption DEF StoreZones, ThreadTypes
  <2>2. CacheTypes'
    <3>1. mask' \subseteq ZoneIds \X Usable
      BY <1>0, <1>4 DEF StoreZones, ThreadTypes
    <3>2. loaded' \in -1..MaxChanges /\ failures' \in 0..3
      BY <1>0, <1>4, ZoneAssumption DEF StoreZones, ThreadTypes
    <3>3. /\ signature' \subseteq ZoneIds \X Shapes /\ maskSize' \in Sizes \cup {None}
          /\ old' \in BOOLEAN
      BY <1>0, <1>4 DEF StoreZones, ThreadTypes
    <3> QED
      BY <3>1, <3>2, <3>3 DEF CacheTypes
  <2>3. PreviewTypes'
    BY <1>0, <1>4 DEF StoreZones, PreviewTypes
  <2> QED
    BY <2>1, <2>2, <2>3
<1>5. CASE FetchFails
  <2>1. ThreadTypes' /\ PreviewTypes'
    BY <1>0, <1>5, ZoneAssumption DEF FetchFails, ThreadTypes, PreviewTypes, preview
  <2>2. CacheTypes'
    <3>1. loaded' \in -1..MaxChanges /\ failures' \in 0..3
      BY <1>0, <1>5, ZoneAssumption DEF FetchFails, ThreadTypes, CacheTypes
    <3>2. mask' \subseteq ZoneIds \X Usable /\ maskSize' \in Sizes \cup {None}
      BY <1>0, <1>5 DEF FetchFails, ThreadTypes, CacheTypes
    <3> QED
      BY <1>0, <1>5, <3>1, <3>2 DEF FetchFails, CacheTypes
  <2> QED
    BY <2>1, <2>2
<1>6. CASE PublishPreview
  BY <1>0, <1>6 DEF PublishPreview, ThreadTypes, CacheTypes, PreviewTypes, fetching, cache
<1>7. CASE Restart
  <2>1. ThreadTypes' /\ PreviewTypes'
    BY <1>0, <1>7 DEF Restart, ThreadTypes, PreviewTypes, fetching
  <2>2. loaded' \in -1..MaxChanges /\ failures' \in 0..3
    BY <1>7, ZoneAssumption DEF Restart
  <2>3. CacheTypes'
    BY <1>7, <2>2 DEF Restart, CacheTypes
  <2> QED
    BY <2>1, <2>3
<1>8. CASE TenSeconds
  BY <1>0, <1>8 DEF TenSeconds, ThreadTypes, CacheTypes, PreviewTypes, fetching, preview
<1>9. CASE Publish
  BY <1>0, <1>9 DEF Publish, ThreadTypes, CacheTypes, PreviewTypes, fetching, cache
<1>10. CASE Editors
  BY <1>1, <1>10 DEF Editors, SaveZone, DeleteZone, CreateZone, DashboardEdit, AskFor
<1>11. CASE Handlers
  BY <1>1, <1>11 DEF Handlers, WriteRefused, Write, StorePicture, Announce
<1>12. CASE BackendToggles \/ PauseOrResume
  BY <1>1, <1>12 DEF BackendToggles, PauseOrResume
<1>13. CASE UNCHANGED vars
  BY <1>1, <1>13 DEF vars
<1> QED
  BY <1>2, <1>3, <1>4, <1>5, <1>6, <1>7, <1>8, <1>9, <1>10, <1>11, <1>12, <1>13
     DEF Next, CaptureThread

-----------------------------------------------------------------------------
(* Requests and revisions.                                                 *)

(* Counting: one request more, one less, one replaced.                     *)
LEMMA CountAdd ==
  ASSUME NEW S, IsFiniteSet(S), NEW x
  PROVE  IsFiniteSet(S \cup {x}) /\ Cardinality(S \cup {x}) <= Cardinality(S) + 1
         /\ Cardinality(S \cup {x}) \in Nat
<1>1. IsFiniteSet(S \cup {x})
  BY FS_AddElement
<1>2. Cardinality(S) \in Nat /\ Cardinality(S \cup {x}) \in Nat
  BY <1>1, FS_CardinalityType
<1>3. x \in S => Cardinality(S \cup {x}) = Cardinality(S)
  BY FS_AddElement
<1>4. x \notin S => Cardinality(S \cup {x}) = Cardinality(S) + 1
  BY FS_AddElement
<1> QED
  BY <1>1, <1>2, <1>3, <1>4

LEMMA CountRemove ==
  ASSUME NEW S, IsFiniteSet(S), NEW x \in S
  PROVE  IsFiniteSet(S \ {x}) /\ Cardinality(S \ {x}) = Cardinality(S) - 1
         /\ Cardinality(S \ {x}) \in Nat /\ Cardinality(S) \in Nat
  BY FS_RemoveElement, FS_CardinalityType

LEMMA CountReplace ==
  ASSUME NEW S, IsFiniteSet(S), NEW x \in S, NEW y
  PROVE  /\ IsFiniteSet((S \ {x}) \cup {y})
         /\ Cardinality((S \ {x}) \cup {y}) <= Cardinality(S)
         /\ Cardinality((S \ {x}) \cup {y}) \in Nat
<1> DEFINE T == S \ {x}
<1>1. IsFiniteSet(T) /\ Cardinality(T) = Cardinality(S) - 1 /\ Cardinality(S) \in Nat
  BY CountRemove
<1> HIDE DEF T
<1>2. /\ IsFiniteSet(T \cup {y}) /\ Cardinality(T \cup {y}) <= Cardinality(T) + 1
      /\ Cardinality(T \cup {y}) \in Nat
  BY <1>1, CountAdd
<1>3. Cardinality(T \cup {y}) <= Cardinality(S)
  BY <1>1, <1>2
<1> QED
  BY <1>2, <1>3 DEF T

(* A revision is announced for a request that was made since the start.    *)
LEMMA RevisionsStep == TypeOK /\ RevisionsCounted /\ [Next]_vars => RevisionsCounted'
<1> SUFFICES ASSUME TypeOK, RevisionsCounted, [Next]_vars PROVE RevisionsCounted'
  OBVIOUS
<1>0. /\ revision \in Nat /\ changes \in Nat /\ IsFiniteSet(requests)
      /\ Cardinality(requests) \in Nat /\ revision + Cardinality(requests) <= changes
  BY FS_CardinalityType, ZoneAssumption DEF TypeOK, RevisionsCounted
<1> USE DEF RevisionsCounted
<1>1. CASE UNCHANGED page
  BY <1>1 DEF page
<1>2. ASSUME NEW r, AskFor(r) PROVE RevisionsCounted'
  <2>1. /\ requests' = requests \cup {r} /\ changes' = changes + 1
        /\ revision' = revision
    BY <1>2 DEF AskFor
  <2>2. IsFiniteSet(requests') /\ Cardinality(requests') <= Cardinality(requests) + 1
        /\ Cardinality(requests') \in Nat
    BY <1>0, <2>1, CountAdd
  <2> QED
    BY <1>0, <2>1, <2>2
<1>3. ASSUME NEW r \in requests, NEW stage, Advance(r, stage), UNCHANGED <<revision, changes>>
      PROVE RevisionsCounted'
  <2>1. IsFiniteSet(requests') /\ Cardinality(requests') <= Cardinality(requests)
        /\ Cardinality(requests') \in Nat
    BY <1>0, <1>3, CountReplace DEF Advance
  <2> QED
    BY <1>0, <1>3, <2>1
<1>4. ASSUME NEW r \in requests, requests' = requests \ {r}, changes' = changes,
             revision' \in {revision, revision + 1}
      PROVE RevisionsCounted'
  <2>1. IsFiniteSet(requests') /\ Cardinality(requests') = Cardinality(requests) - 1
        /\ Cardinality(requests') \in Nat
    BY <1>0, <1>4, CountRemove
  <2> QED
    BY <1>0, <1>4, <2>1
<1>5. CASE SaveZone \/ DeleteZone \/ CreateZone
  BY <1>2, <1>5 DEF SaveZone, DeleteZone, CreateZone
<1>6. ASSUME NEW r \in requests, WriteRefused(r) \/ Write(r) \/ StorePicture(r) \/ Announce(r)
      PROVE RevisionsCounted'
  BY <1>3, <1>4, <1>6 DEF WriteRefused, Write, StorePicture, Announce
<1>7. CASE DashboardEdit
  BY <1>0, <1>7 DEF DashboardEdit
<1>8. CASE Restart
  BY <1>0, <1>8, FS_EmptySet DEF Restart
<1>9. CASE \/ ReadFrame \/ BackendAnswers \/ StoreZones \/ FetchFails \/ PublishPreview
           \/ Analyze \/ TenSeconds \/ SourceReopened \/ BackendToggles \/ PauseOrResume
           \/ Publish
  BY <1>1, <1>9 DEF ReadFrame, BackendAnswers, StoreZones, FetchFails, PublishPreview,
                    Analyze, TenSeconds, SourceReopened, BackendToggles, PauseOrResume,
                    Publish
<1>10. CASE UNCHANGED vars
  BY <1>1, <1>10 DEF vars
<1> QED
  BY <1>5, <1>6, <1>7, <1>8, <1>9, <1>10 DEF Next, Editors, Handlers, CaptureThread

(* Every step keeps every variable in its type.                            *)
LEMMA TypeStep == TypeOK /\ RevisionsCounted /\ [Next]_vars => TypeOK'
<1> SUFFICES ASSUME TypeOK, RevisionsCounted, [Next]_vars PROVE TypeOK'
  OBVIOUS
<1>1. BackendTypes' /\ PageTypes' /\ ThreadTypes' /\ CacheTypes' /\ PreviewTypes'
  BY BackendTypesStep, PageTypesStep, ThreadTypesStep
<1>2. RevisionsCounted'
  BY RevisionsStep
<1>3. revision' \in 0..MaxChanges
  <2>1. Cardinality(requests') \in Nat
    BY <1>2, FS_CardinalityType DEF RevisionsCounted
  <2> QED
    BY <1>1, <1>2, <2>1, ZoneAssumption DEF RevisionsCounted, PageTypes
<1> QED
  BY <1>1, <1>3
     DEF TypeOK, BackendTypes, PageTypes, ThreadTypes, CacheTypes, PreviewTypes, RequestType

-----------------------------------------------------------------------------
(* Fetches, the revision and what is saved.                                *)

(* A fetch notes a revision that has been; only a restart takes one back.  *)
LEMMA NotedStep == TypeOK /\ NotedEarlier /\ [Next]_vars => NotedEarlier'
<1> SUFFICES ASSUME TypeOK, NotedEarlier, [Next]_vars PROVE NotedEarlier'
  OBVIOUS
<1>0. revision \in Nat /\ loaded \in Int /\ asked \in Nat
  BY ZoneAssumption DEF TypeOK
<1> USE <1>0 DEF NotedEarlier
<1>1. CASE UNCHANGED <<revision, pc, asked, loaded>>
  BY <1>1
<1>2. CASE Editors
  BY <1>1, <1>2 DEF Editors, SaveZone, DeleteZone, CreateZone, DashboardEdit, AskFor,
                    fetching, cache
<1>3. ASSUME NEW r \in requests, WriteRefused(r) \/ Write(r) \/ StorePicture(r)
      PROVE UNCHANGED <<revision, pc, asked, loaded>>
  BY <1>3 DEF WriteRefused, Write, StorePicture, fetching, cache
<1>4. ASSUME NEW r \in requests, Announce(r) PROVE NotedEarlier'
  BY <1>4 DEF Announce, fetching, cache
<1>5. CASE ReadFrame \/ BackendAnswers \/ StoreZones \/ FetchFails
  BY <1>5 DEF ReadFrame, BackendAnswers, StoreZones, FetchFails, page, cache
<1>6. CASE PublishPreview \/ Analyze \/ Restart
  BY <1>6 DEF PublishPreview, Analyze, Restart, page, fetching, cache
<1>7. CASE TenSeconds \/ SourceReopened \/ BackendToggles \/ PauseOrResume \/ Publish
  BY <1>1, <1>7 DEF TenSeconds, SourceReopened, BackendToggles, PauseOrResume, Publish,
                    page, fetching, cache
<1>8. CASE UNCHANGED vars
  BY <1>1, <1>8 DEF vars, page, fetching, cache
<1> QED
  BY <1>1, <1>2, <1>3, <1>4, <1>5, <1>6, <1>7, <1>8 DEF Next, Handlers, CaptureThread

(* What is saved changes behind the revision's back only in a way that is  *)
(* visible: as an edit past the page, or as a write still to be announced.  *)
LEMMA QuietSteps ==
  ASSUME TypeOK, NotedEarlier, [Next]_vars, Quiet'
  PROVE  \/ Quiet /\ UNCHANGED <<saved, revision>>
         \/ BackendAnswers
         \/ \E r \in requests : Announce(r)
         \/ Restart
<1> USE DEF Quiet
<1>1. ASSUME UNCHANGED <<backend, requests, revision>>
      PROVE  Quiet /\ UNCHANGED <<saved, revision>>
  BY <1>1 DEF backend
<1>2. ASSUME NEW r, AskFor(r) PROVE Quiet /\ UNCHANGED <<saved, revision>>
  BY <1>2 DEF AskFor, backend
<1>3. ASSUME NEW r \in requests, WriteRefused(r) PROVE Quiet /\ UNCHANGED <<saved, revision>>
  BY <1>3 DEF WriteRefused, backend
<1>4. ASSUME NEW r \in requests, NEW stage \in {"picture", "announce"}, Advance(r, stage)
      PROVE  FALSE
  <2>1. [r EXCEPT !.stage = stage] \in requests'
    BY <1>4 DEF Advance
  <2>2. r \in RequestType
    BY DEF TypeOK, RequestType
  <2>3. [r EXCEPT !.stage = stage].stage = stage
    BY <2>2 DEF RequestType
  <2> QED
    BY <2>1, <2>3
<1>5. ASSUME NEW r \in requests, Write(r) \/ StorePicture(r) PROVE FALSE
  BY <1>4, <1>5 DEF Write, StorePicture
<1>6. CASE DashboardEdit
  BY <1>6 DEF DashboardEdit
<1>7. CASE SaveZone \/ DeleteZone \/ CreateZone
  BY <1>2, <1>7 DEF SaveZone, DeleteZone, CreateZone
<1>8. CASE ReadFrame \/ StoreZones \/ FetchFails \/ PublishPreview \/ Analyze \/ TenSeconds
           \/ SourceReopened \/ BackendToggles \/ PauseOrResume
  BY <1>1, <1>8 DEF ReadFrame, StoreZones, FetchFails, PublishPreview, Analyze, TenSeconds,
                    SourceReopened, BackendToggles, PauseOrResume, page
<1>9. CASE Publish
  BY <1>9 DEF Publish, page
<1>10. CASE UNCHANGED vars
  BY <1>1, <1>10 DEF vars, page
<1> QED
  BY <1>3, <1>5, <1>6, <1>7, <1>8, <1>9, <1>10 DEF Next, Editors, Handlers, CaptureThread

(* An answer that came under the current revision is what is saved.        *)
LEMMA AnswerStep ==
  TypeOK /\ NotedEarlier /\ AnswerCurrent /\ [Next]_vars => AnswerCurrent'
<1> SUFFICES ASSUME TypeOK, NotedEarlier, AnswerCurrent, [Next]_vars,
                    pc' = "store", asked' = revision', Quiet'
             PROVE  answer' = Stored(saved')
  BY DEF AnswerCurrent, Stored
<1>0. revision \in Nat /\ asked \in Nat
  BY ZoneAssumption DEF TypeOK
<1>1. CASE BackendAnswers
  BY <1>1 DEF BackendAnswers
<1>2. ASSUME ~BackendAnswers PROVE pc = "store" /\ UNCHANGED <<asked, answer>>
  BY <1>2 DEF Next, Editors, Handlers, CaptureThread, SaveZone, DeleteZone, CreateZone,
              DashboardEdit, AskFor, WriteRefused, Write, StorePicture, Announce, ReadFrame,
              StoreZones, FetchFails, PublishPreview, Analyze, Restart, TenSeconds,
              SourceReopened, BackendToggles, PauseOrResume, Publish, vars, fetching
<1>3. ASSUME NEW r \in requests, Announce(r), ~BackendAnswers PROVE FALSE
  BY <1>0, <1>2, <1>3 DEF Announce, NotedEarlier
<1>4. CASE Restart
  BY <1>4 DEF Restart
<1>5. CASE Quiet /\ UNCHANGED <<saved, revision>> /\ ~BackendAnswers
  BY <1>2, <1>5 DEF AnswerCurrent
<1> QED
  BY <1>1, <1>3, <1>4, <1>5, QuietSteps

(* The mask of a revision that was fetched without failure is what is saved. *)
LEMMA MaskStep ==
  TypeOK /\ NotedEarlier /\ AnswerCurrent /\ MaskCurrent /\ [Next]_vars => MaskCurrent'
<1> SUFFICES ASSUME TypeOK, NotedEarlier, AnswerCurrent, MaskCurrent, [Next]_vars,
                    pc' \in {"read", "preview", "analyze"}, loaded' = revision',
                    failures' = 0, Quiet'
             PROVE  mask' = Polygons(saved')
  BY DEF MaskCurrent, Polygons, Stored
<1>0. revision \in Nat /\ loaded \in Int /\ failures \in 0..3
  BY ZoneAssumption DEF TypeOK
<1>1. CASE BackendAnswers
  BY <1>1 DEF BackendAnswers
<1>2. CASE FetchFails
  BY <1>0, <1>2 DEF FetchFails
<1>3. CASE Restart
  BY <1>3 DEF Restart
<1>4. CASE StoreZones
  <2>1. /\ loaded' = asked /\ revision' = revision /\ pc = "store" /\ saved' = saved
        /\ requests' = requests /\ unannounced' = unannounced
        /\ mask' = {p \in answer : p[2] \in Usable}
    BY <1>4 DEF StoreZones, page, backend
  <2>2. asked = revision /\ Quiet
    BY <2>1 DEF Quiet
  <2>3. answer = Stored(saved)
    BY <2>1, <2>2 DEF AnswerCurrent
  <2> QED
    BY <2>1, <2>3 DEF Polygons
<1>5. ASSUME ~BackendAnswers, ~FetchFails, ~Restart, ~StoreZones
      PROVE  /\ pc \in {"read", "preview", "analyze"}
             /\ UNCHANGED <<mask, loaded, failures>>
  <2>1. CASE Editors
    BY <2>1 DEF Editors, SaveZone, DeleteZone, CreateZone, DashboardEdit, AskFor, cache
  <2>2. CASE Handlers
    BY <2>2 DEF Handlers, WriteRefused, Write, StorePicture, Announce, cache
  <2>3. CASE ReadFrame \/ PublishPreview \/ Analyze
    BY <2>3 DEF ReadFrame, PublishPreview, Analyze, cache
  <2>4. CASE TenSeconds \/ SourceReopened \/ BackendToggles \/ PauseOrResume \/ Publish
    BY <2>4 DEF TenSeconds, SourceReopened, BackendToggles, PauseOrResume, Publish, cache
  <2>5. CASE UNCHANGED vars
    BY <2>5 DEF vars, cache
  <2> QED
    BY <1>5, <2>1, <2>2, <2>3, <2>4, <2>5 DEF Next, CaptureThread
<1>6. ASSUME NEW r \in requests, Announce(r), ~BackendAnswers, ~FetchFails, ~Restart,
             ~StoreZones
      PROVE  FALSE
  BY <1>0, <1>5, <1>6 DEF Announce, NotedEarlier
<1>7. CASE /\ Quiet /\ UNCHANGED <<saved, revision>>
           /\ ~BackendAnswers /\ ~FetchFails /\ ~Restart /\ ~StoreZones
  <2>1. mask = Polygons(saved)
    BY <1>5, <1>7 DEF MaskCurrent
  <2> QED
    BY <1>5, <1>7, <2>1
<1> QED
  BY <1>1, <1>2, <1>3, <1>4, <1>6, <1>7, QuietSteps

-----------------------------------------------------------------------------
(* The invariant, and what follows from it.                                *)

LEMMA StepZoneInv == ZoneInv /\ [Next]_vars => ZoneInv'
  BY TypeStep, RevisionsStep, NotedStep, AnswerStep, MaskStep DEF ZoneInv

(* Every variable keeps its type: the revision and what is noted of it stay *)
(* within the number of changes, the failures within the three the code     *)
(* counts, and no second reference picture is published beside the first.   *)
THEOREM ZoneTypes == Spec => []TypeOK
<1>1. ZoneInv => TypeOK
  BY DEF ZoneInv
<1> QED
  BY <1>1, InitZoneInv, StepZoneInv, PTL DEF Spec

(* The refresh of the zones (capture.py) and the announcements of the       *)
(* control page (wizard.py, runtime.py) never leave a frame to be analysed  *)
(* under an edit that was announced but not seen, however they interleave.  *)
THEOREM EditsSeen == Spec => []AnnouncedEditsAreSeen
<1>1. ZoneInv => AnnouncedEditsAreSeen
  BY DEF ZoneInv, MaskCurrent, Quiet, AnnouncedEditsAreSeen
<1> QED
  BY <1>1, InitZoneInv, StepZoneInv, PTL DEF Spec
=============================================================================
