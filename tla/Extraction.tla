----------------------------- MODULE Extraction -----------------------------
(***************************************************************************)
(* What a cloud-ai worker does with one clip between the download and the  *)
(* POST: the detector turns boxes into frames of detections, fragments of  *)
(* person tracks are merged, the frames are gone through once with some    *)
(* twenty accumulators, and the events and the track overlay are derived   *)
(* from them.                                                              *)
(*                                                                         *)
(* Source: cloud-ai/app/main.py (process_job), detector.py, track_merge.py *)
(* (in TrackMerge), events.py, zones.py, track_overlay.py.  One frame, and *)
(* one candidate of the merge, is one step.  Zone ids are positive numbers *)
(* and 0 is none, as it is for track ids, so that Python's "or" is Or.     *)
(***************************************************************************)
EXTENDS TrackMerge

CONSTANTS Backends,  (* the values of CLOUD_AI_MODEL_BACKEND                  *)
          Zones,     (* the zones of the camera: [id, type, polygon]          *)
          Views,     (* what the tracker may report: [boxes, tracked]         *)
          MaxFrames, (* bound: frames of the clip                             *)
          Sustained, (* SUSTAINED_CUE_DETECTIONS                              *)
          Stride     (* OVERLAY_STRIDE                                        *)

Cues == {"person", "bag", "open_bag", "product_in_hand", "concealment"}

\* A box lies in the image; the tracker counts from 1.
ASSUME ViewsAssumption ==
    \A v \in Views :
        /\ v.boxes \in Seq(ToSet(v.boxes)) /\ v.tracked \in BOOLEAN
        /\ \A box \in ToSet(v.boxes) : /\ box.cue \in Cues /\ box.id \in Nat \ {0}
                                      /\ box.at \in (0..100) \X (0..100) /\ box.conf \in Nat

\* The id of a zone is its key in the database.
ASSUME ZonesAssumption ==
    /\ Zones \in Seq(ToSet(Zones))
    /\ \A i \in DOMAIN Zones : Zones[i].id \in Nat \ {0}
    /\ \A i, j \in DOMAIN Zones : Zones[i].id = Zones[j].id => i = j

\* OVERLAY_STRIDE is 2: the overlay misses no two frames running.
ASSUME ClipAssumption == MaxFrames \in Nat /\ Sustained \in Nat \ {0} /\ Stride \in {1, 2}

VARIABLES
    backend, (* the detector in use                                           *)
    phase,   (* "track", "link", "scan", "done" or "failed", see also Scoring  *)
    k,       (* the candidate or frame the loop is at                         *)
    frames,  (* the frames of detections                                      *)
    parent,  (* the union-find forest of build_person_id_remap                *)
    acc,     (* the accumulators of extract_events                            *)
    events,  (* the events                                                    *)
    overlay  (* the person boxes of every Stride-th frame                     *)

vars == <<backend, phase, k, frames, parent, acc, events, overlay>>

ShelfLike == {"Shelf", "HighValue"}
Or(a, b)  == IF a = 0 THEN b ELSE a

-----------------------------------------------------------------------------
(* detector.py: boxes to detections. *)

\* The classes a backend looks for; a box of another class is skipped.
CuesOf(b) == IF b = "yoloe" THEN Cues ELSE {"person", "bag"}

\* Without ids from the tracker every box has track -1; only persons are
\* embedded, and too small a crop or a failing extractor gives no look.
Detections(view, b) ==
    LET Det(box) == [cue |-> box.cue, track |-> IF view.tracked THEN box.id ELSE -1, at |-> box.at,
                     conf |-> box.conf, look |-> IF box.cue = "person" THEN box.look ELSE NoLook]
        kept == {i \in DOMAIN view.boxes : view.boxes[i].cue \in CuesOf(b)}
    IN [j \in 1..Cardinality(kept) |-> Det(view.boxes[Nth(kept, j)])]

-----------------------------------------------------------------------------
(* events.py: the loop over the frames. *)

NoSignal == [n |-> 0, zone |-> 0, conf |-> 0, last |-> 0, track |-> 0]
NoEvidence ==
    [line     |-> <<>>,   \* per_track and track_embeddings, in order of sight
     openBag  |-> NoSignal,
     bag      |-> NoSignal,
     handling |-> [episodes |-> 0, zone |-> 0, track |-> 0, before |-> FALSE, first |-> 0],
     conceal  |-> [n |-> 0, zone |-> 0, inHv |-> FALSE, track |-> 0],
     hv       |-> [cues |-> {}, zone |-> 0, track |-> 0],
     group    |-> [n |-> 0, zone |-> 0, track |-> 0]]

ZonesAt(p)     == ZonesContaining(p, Zones)
OfTypes(zs, T) == Pick(zs, {i \in DOMAIN zs : zs[i].type \in T})
FirstId(zs)    == IF zs = <<>> THEN 0 ELSE zs[1].id
LastId(zs)     == IF zs = <<>> THEN 0 ELSE zs[Len(zs)].id

\* Mutant of SeeBag: the cue's own track instead of the nearest person's.
SeeBagOwnTrack(sig, i, frame, d, shelf) ==
    LET best == shelf # <<>> /\ d.conf >= sig.conf
    IN [n     |-> sig.n + 1,
        zone  |-> IF best THEN LastId(shelf) ELSE sig.zone,
        conf  |-> IF best THEN d.conf ELSE sig.conf,
        last  |-> IF best THEN i ELSE sig.last,
        track |-> IF best THEN d.track ELSE sig.track]

\* A bag cue: the last shelf zone around the most confident sighting so far.
SeeBag(sig, i, frame, d, shelf) ==
    LET best == shelf # <<>> /\ d.conf >= sig.conf
    IN [n     |-> sig.n + 1,
        zone  |-> IF best THEN LastId(shelf) ELSE sig.zone,
        conf  |-> IF best THEN d.conf ELSE sig.conf,
        last  |-> IF best THEN i ELSE sig.last,
        track |-> IF best THEN Or(NearestPerson(d.at, frame), sig.track) ELSE sig.track]

\* A product at a shelf: zone, track and frame are those of the first one.
SeeHandling(h, i, frame, d, shelf) ==
    IF shelf = <<>> THEN h
    ELSE [episodes |-> h.episodes, before |-> h.before,
          zone     |-> Or(h.zone, FirstId(shelf)),
          track    |-> Or(h.track, NearestPerson(d.at, frame)),
          first    |-> Or(h.first, i)]

SeeConceal(c, frame, d, shelf, inHv) ==
    [n |-> c.n + 1, zone |-> Or(c.zone, FirstId(shelf)), inHv |-> c.inHv \/ inHv,
     track |-> Or(c.track, NearestPerson(d.at, frame))]

\* What is seen in a high-value zone; only persons leave their zone and track.
SeeHv(h, d, hv) ==
    IF hv = 0 \/ d.cue = "concealment" THEN h
    ELSE IF d.cue = "person"
    THEN [cues |-> h.cues \cup {"person"}, zone |-> Or(h.zone, hv), track |-> Or(h.track, d.track)]
    ELSE [cues |-> h.cues \cup {IF d.cue = "product_in_hand" THEN "product" ELSE "bag"},
          zone |-> h.zone, track |-> h.track]

\* One detection of frame i.
See(a, i, frame, d) ==
    LET in    == ZonesAt(d.at)
        shelf == OfTypes(in, ShelfLike)
        hv    == FirstId(OfTypes(in, {"HighValue"}))
        entry == [track |-> d.track, frame |-> i, zones |-> in, look |-> d.look]
    IN [line     |-> IF d.cue = "person" THEN Append(a.line, entry) ELSE a.line,
        openBag  |-> IF d.cue = "open_bag" THEN SeeBag(a.openBag, i, frame, d, shelf) ELSE a.openBag,
        bag      |-> IF d.cue = "bag" THEN SeeBag(a.bag, i, frame, d, shelf) ELSE a.bag,
        handling |-> IF d.cue = "product_in_hand" THEN SeeHandling(a.handling, i, frame, d, shelf)
                     ELSE a.handling,
        conceal  |-> IF d.cue = "concealment" THEN SeeConceal(a.conceal, frame, d, shelf, hv # 0)
                     ELSE a.conceal,
        hv       |-> SeeHv(a.hv, d, hv),
        group    |-> a.group]

Shelved(frame, cue) ==
    Pick(frame, {i \in DOMAIN frame : frame[i].cue = cue /\ OfTypes(ZonesAt(frame[i].at), ShelfLike) # <<>>})

\* Mutant of EndHandling: prev_handling is never reset.
EndHandlingSticky(h, frame) ==
    LET handling == Shelved(frame, "product_in_hand") # <<>>
    IN [h EXCEPT !.episodes = IF handling /\ ~h.before THEN @ + 1 ELSE @, !.before = @ \/ handling]

\* The end of a frame: an episode of handling begins, and the largest group so far.
EndHandling(h, frame) ==
    LET handling == Shelved(frame, "product_in_hand") # <<>>
    IN [h EXCEPT !.episodes = IF handling /\ ~h.before THEN @ + 1 ELSE @, !.before = handling]
EndGroup(g, frame) ==
    LET group == Shelved(frame, "person")
    IN IF Len(group) > g.n
       THEN [n |-> Len(group), track |-> group[1].track,
             zone |-> FirstId(OfTypes(ZonesAt(group[1].at), ShelfLike))]
       ELSE g
EndFrame(a, frame) ==
    [a EXCEPT !.handling = EndHandling(@, frame), !.group = EndGroup(@, frame)]

ScanFrame(a, i) ==
    LET seen[j \in 0..Len(frames[i])] ==
            IF j = 0 THEN a ELSE See(seen[j - 1], i, frames[i], frames[i][j])
    IN EndFrame(seen[Len(frames[i])], frames[i])

-----------------------------------------------------------------------------
(* events.py: signals per track, in the order in which tracks were first seen, *)
(* which is that of their first entries in the line.                           *)

Tracks(a) == {e.track : e \in ToSet(a.line)}
Timeline(a, t) == Pick(a.line, {i \in DOMAIN a.line : a.line[i].track = t})
TypesIn(entry) == {z.type : z \in ToSet(entry.zones)}
ByType(entry, type) == LastId(OfTypes(entry.zones, {type}))
Visited(line) == UNION {TypesIn(e) : e \in ToSet(line)}
FirstIndex(line, T) == Min({e.frame : e \in {x \in ToSet(line) : TypesIn(x) \cap T # {}}})
ZoneOfFirst(line, type) ==
    LET in == {i \in DOMAIN line : ByType(line[i], type) # 0}
    IN IF in = {} THEN 0 ELSE ByType(line[Min(in)], type)

\* The longest run of timeline entries in a high-value zone, and the zone at
\* which it became the longest.
BestRun(line) ==
    LET Run(i) == Cardinality({j \in 1..i : \A h \in j..i : ByType(line[h], "HighValue") # 0})
        best   == Max({0} \cup {Run(i) : i \in DOMAIN line})
    IN [best |-> best,
        zone |-> IF best = 0 THEN 0
                 ELSE ByType(line[Min({i \in DOMAIN line : Run(i) = best})], "HighValue")]

\* The entries at which the track comes to a shelf.
Entries(line) ==
    LET at(i) == TypesIn(line[i]) \cap ShelfLike # {}
    IN {i \in DOMAIN line : at(i) /\ (i = 1 \/ ~at(i - 1))}

\* Mutant of LeftUnpaid: the order of shelf and exit is not looked at.
LeftUnpaidAnyOrder(line) ==
    Visited(line) \cap ShelfLike # {} /\ "Exit" \in Visited(line) /\ "Checkout" \notin Visited(line)

\* After a shelf, out without ever having been seen at a checkout; only the
\* first sighting in an exit zone counts.
LeftUnpaid(line) ==
    /\ Visited(line) \cap ShelfLike # {} /\ "Exit" \in Visited(line) /\ "Checkout" \notin Visited(line)
    /\ FirstIndex(line, {"Exit"}) >= FirstIndex(line, ShelfLike)

Visitors(a, T) == {t \in Tracks(a) : Visited(Timeline(a, t)) \cap T # {}}

\* The first of the tracks of T, 0 if there is none.
FirstTrack(a, T) ==
    LET at == {i \in DOMAIN a.line : a.line[i].track \in T}
    IN IF at = {} THEN 0 ELSE a.line[Min(at)].track

\* The first of the tracks with the highest value, 0 when every value is 0.
Highest(a, value) ==
    FirstTrack(a, {t \in Tracks(a) : value[t] > 0 /\ \A u \in Tracks(a) : value[u] <= value[t]})

-----------------------------------------------------------------------------
(* events.py: the events. *)

LookOf(a, t) ==
    LET seen == {i \in DOMAIN a.line : a.line[i].track = t /\ a.line[i].look # NoLook}
    IN IF seen = {} THEN NoLook ELSE a.line[Min(seen)].look

Ev(type, zone, value, track, look) ==
    [type |-> type, zone |-> zone, value |-> value, track |-> track, look |-> look]
When(condition, ev) == IF condition THEN <<ev>> ELSE <<>>

SustainedBag(a) == a.openBag.n >= Sustained \/ a.bag.n >= Sustained
BagZone(sig)    == IF sig.n >= Sustained THEN sig.zone ELSE 0

\* A value for each event; fps, which divides every dwell alike, is left out.
TrackEvents(a) ==
    LET hv      == FirstTrack(a, Visitors(a, {"HighValue"}))
        dweller == Highest(a, [t \in Tracks(a) |-> BestRun(Timeline(a, t)).best])
        run     == BestRun(Timeline(a, dweller))
        comer   == Highest(a, [t \in Tracks(a) |-> Cardinality(Entries(Timeline(a, t)))])
        first   == Timeline(a, FirstTrack(a, Visitors(a, ShelfLike)))
        came    == first[Min(Entries(first))]
    IN When(hv # 0, Ev("HighValueZoneEntry", ZoneOfFirst(Timeline(a, hv), "HighValue"), 1, hv, NoLook))
       \o When(run.best > 0, Ev("Dwell", run.zone, run.best, dweller, NoLook))
       \o IF a.handling.episodes > 0
          THEN <<Ev("RepeatedHandling", a.handling.zone, a.handling.episodes, a.handling.track, NoLook)>>
          ELSE When(comer # 0, Ev("RepeatedHandling",
                                  Or(ByType(came, "HighValue"), ByType(came, "Shelf")),
                                  Cardinality(Entries(Timeline(a, comer))), comer, NoLook))

\* A product at a shelf and a bag after it, or a sustained concealment cue.
Concealment(a) ==
    LET lastBag   == Max({a.openBag.last, a.bag.last})
        sustained == a.conceal.n >= Sustained
        zone      == Or(Or(Or(IF sustained THEN a.conceal.zone ELSE 0, BagZone(a.openBag)),
                           BagZone(a.bag)), a.handling.zone)
        track     == Or(Or(Or(a.conceal.track, a.handling.track), a.openBag.track), a.bag.track)
    IN When((a.handling.first > 0 /\ lastBag > a.handling.first) \/ sustained,
            Ev("Concealment", zone, 1, track, NoLook))

PlaceEvents(a) ==
    LET out   == FirstTrack(a, {t \in Tracks(a) : LeftUnpaid(Timeline(a, t))})
        blind == FirstTrack(a, Visitors(a, {"BlindSpot"}))
    IN When(out # 0, Ev(IF a.handling.first > 0 THEN "ShelfPickupNoCheckout" ELSE "ExitWithoutCheckout",
                        ZoneOfFirst(Timeline(a, out), "Exit"), 1, out, LookOf(a, out)))
       \o When(blind # 0, Ev("BlindSpotMovement", ZoneOfFirst(Timeline(a, blind), "BlindSpot"), 1,
                             blind, NoLook))
       \o When(a.group.n >= 2, Ev("GroupDistraction", a.group.zone, a.group.n, a.group.track, NoLook))

\* Bags count towards the activity when they are sustained; a sustained
\* concealment in a high-value zone counts as a product.
HvCues(a) ==
    (a.hv.cues \ (IF SustainedBag(a) THEN {} ELSE {"bag"}))
    \cup (IF a.conceal.n >= Sustained /\ a.conceal.inHv THEN {"product"} ELSE {})

CueEvents(a) ==
    LET remover == Or(a.handling.track, FirstTrack(a, Visitors(a, ShelfLike)))
        bag     == IF BagZone(a.openBag) # 0 THEN a.openBag ELSE a.bag
    IN When(Cardinality(HvCues(a)) >= 2,
            Ev("HighValueActivity", a.hv.zone, Cardinality(HvCues(a)), a.hv.track, NoLook))
       \o When(a.handling.first > 0,
               Ev("LowStaffRemoval", a.handling.zone, 1, remover, LookOf(a, remover)))
       \o When(BagZone(bag) # 0, Ev("BagOpen", bag.zone, 1, bag.track, NoLook))

ExtractEvents(a) == TrackEvents(a) \o Concealment(a) \o PlaceEvents(a) \o CueEvents(a)

\* track_overlay.py: the person boxes of frames 1, 1 + Stride, ...
Overlay(fs) ==
    LET sampled == {i \in DOMAIN fs : (i - 1) % Stride = 0}
        Boxes(f) == Pick(f, {i \in DOMAIN f : f[i].cue = "person"})
    IN [j \in 1..Cardinality(sampled) |-> Boxes(fs[Nth(sampled, j)])]

-----------------------------------------------------------------------------
(* process_job, main.py. *)

Init ==
    /\ backend \in Backends
    /\ phase = "track" /\ k = 0
    /\ frames = <<>> /\ parent = <<>>
    /\ acc = NoEvidence /\ events = <<>> /\ overlay = <<>>

\* The tracker has seen another frame.
TrackFrame ==
    /\ phase = "track" /\ backend # "rfdetr" /\ Len(frames) < MaxFrames
    /\ \E view \in Views : frames' = Append(frames, Detections(view, backend))
    /\ UNCHANGED <<backend, phase, k, parent, acc, events, overlay>>

\* RfDetrBackend.track_clip has no parameter reid_extractor: the job fails.
TrackClipRaises ==
    /\ phase = "track" /\ backend = "rfdetr"
    /\ phase' = "failed"
    /\ UNCHANGED <<backend, k, frames, parent, acc, events, overlay>>

EndOfClip ==
    /\ phase = "track" /\ backend # "rfdetr"
    /\ phase' = "link" /\ k' = 1
    /\ parent' = [t \in PersonIds(frames) |-> t]
    /\ UNCHANGED <<backend, frames, acc, events, overlay>>

\* Mutant of LinkTrack: the union the other way round.
LinkTrackReversed ==
    LET stats == [t \in DOMAIN parent |-> Stats(frames, t)]
    IN /\ phase = "link" /\ k <= Cardinality(DOMAIN parent)
       /\ \E t \in DOMAIN parent :
              /\ Place(stats, t) = k
              /\ parent' = [parent EXCEPT ![Find(parent, Predecessor(stats, t, SinglePerson(frames)))] =
                               Find(parent, t)]
       /\ k' = k + 1
       /\ UNCHANGED <<backend, phase, frames, acc, events, overlay>>

\* The next candidate is joined to its predecessor; after the last one all
\* detections are renamed.
LinkTrack ==
    LET stats == [t \in DOMAIN parent |-> Stats(frames, t)]
    IN /\ phase = "link" /\ k <= Cardinality(DOMAIN parent)
       /\ \E t \in DOMAIN parent :
              /\ Place(stats, t) = k
              /\ parent' = [parent EXCEPT ![Find(parent, t)] =
                               Find(parent, Predecessor(stats, t, SinglePerson(frames)))]
       /\ k' = k + 1
       /\ UNCHANGED <<backend, phase, frames, acc, events, overlay>>

RenameTracks ==
    /\ phase = "link" /\ k > Cardinality(DOMAIN parent)
    /\ frames' = [i \in DOMAIN frames |-> Relabel(frames[i], parent)]
    /\ phase' = "scan" /\ k' = 1
    /\ UNCHANGED <<backend, parent, acc, events, overlay>>

Scan ==
    /\ phase = "scan" /\ k <= Len(frames)
    /\ acc' = ScanFrame(acc, k)
    /\ k' = k + 1
    /\ UNCHANGED <<backend, phase, frames, parent, events, overlay>>

\* Events and overlay, which process_job then posts.
EmitEvents ==
    /\ phase = "scan" /\ k > Len(frames)
    /\ events' = ExtractEvents(acc)
    /\ overlay' = Overlay(frames)
    /\ phase' = "done"
    /\ UNCHANGED <<backend, k, frames, parent, acc>>

Next == TrackFrame \/ TrackClipRaises \/ EndOfClip \/ LinkTrack \/ RenameTracks \/ Scan \/ EmitEvents
Spec == Init /\ [][Next]_vars

-----------------------------------------------------------------------------
(* Properties. *)

Ids == {box.id : box \in {b \in UNION {ToSet(v.boxes) : v \in Views} : b.cue = "person"}} \cup {-1}

\* Type correctness: accumulators and events name zones of the camera and tracks
\* of persons, never a bag's own track, which shares the id space.
TypeOK ==
    LET zoneIds == {z.id : z \in ToSet(Zones)} \cup {0}
    IN /\ backend \in Backends
       /\ phase \in {"track", "link", "scan", "done", "failed", "scored", "unscored"}
       /\ k \in Nat /\ (phase = "link" => k \in 1..(Cardinality(DOMAIN parent) + 1))
       /\ phase \in {"scan", "done", "scored", "unscored"} => k \in 1..(Len(frames) + 1)
       /\ Len(frames) <= MaxFrames
       /\ \A t \in DOMAIN parent : t \in Ids /\ parent[t] \in DOMAIN parent
       /\ \A sig \in {acc.openBag, acc.bag} : sig.zone \in zoneIds /\ sig.track \in Ids \cup {0}
       /\ \A e \in ToSet(events) : e.zone \in zoneIds /\ e.track \in Ids \cup {0} /\ e.value > 0

\* Ray casting agrees with the geometry: a detection is in a (convex) zone
\* exactly when it lies on the same side of all its edges, whichever way round
\* the edges are listed and wherever the list starts.  No later phase moves one.
ZonesEnclose ==
    phase = "track" => \A d \in UNION {ToSet(f) : f \in ToSet(frames)}, z \in ToSet(Zones) :
        LET n == Len(z.polygon)
            side(i) == LET a == z.polygon[i]
                           b == z.polygon[(i % n) + 1]
                       IN (b[1] - a[1]) * (d.at[2] - a[2]) - (d.at[1] - a[1]) * (b[2] - a[2])
        IN z \in ToSet(ZonesAt(d.at))
             <=> n >= 3 /\ \/ \A i \in 1..n : side(i) > 0
                           \/ \A i \in 1..n : side(i) < 0

\* When every candidate has been linked, a track has the name of its best
\* predecessor, whatever the order of the links: it keeps its own name only if
\* nothing precedes it, and a name is that of the first of its fragments.
FragmentsFollowPredecessors ==
    phase = "link" /\ k > Cardinality(DOMAIN parent) =>
        LET stats == [t \in DOMAIN parent |-> Stats(frames, t)]
        IN \A t \in DOMAIN parent :
               LET p == Predecessor(stats, t, SinglePerson(frames))
               IN /\ Find(parent, t) = Find(parent, p)
                  /\ p # t => stats[Find(parent, t)].first < stats[t].first
                  /\ p = t => Find(parent, t) = t

\* The detections of a kind in the frames of past, by frame and place.
Sightings(cue, past) ==
    UNION {{<<i, j>> : j \in {x \in DOMAIN frames[i] : frames[i][x].cue = cue}} : i \in past}

\* The loop invariant of extract_events: after k - 1 frames the accumulators
\* say what those frames show, counted at once over all of them.
EvidenceAccumulates ==
    phase = "scan" =>
        LET past == 1..(k - 1)
            AtShelf(cue) == {i \in past : Shelved(frames[i], cue) # <<>>}
            Confs(cue) == {0} \cup UNION {{d.conf : d \in ToSet(Shelved(frames[i], cue))} : i \in past}
            Is(sig, cue) ==
                /\ sig.n = Cardinality(Sightings(cue, past))
                /\ sig.conf = Max(Confs(cue))
                /\ sig.last = Max({0} \cup {i \in past : \E d \in ToSet(Shelved(frames[i], cue)) :
                                                          d.conf = sig.conf})
        IN /\ Is(acc.openBag, "open_bag") /\ Is(acc.bag, "bag")
           /\ acc.handling.episodes = Cardinality({i \in AtShelf("product_in_hand") :
                                                      i - 1 \notin AtShelf("product_in_hand")})
           /\ acc.handling.first = IF AtShelf("product_in_hand") = {} THEN 0
                                   ELSE Min(AtShelf("product_in_hand"))
           /\ acc.group.n = Max({0} \cup {Len(Shelved(frames[i], "person")) : i \in past})
           /\ acc.conceal.n = Cardinality(Sightings("concealment", past))

PersonIn(t, id) ==
    {i \in DOMAIN frames : \E d \in ToSet(frames[i]) :
        d.cue = "person" /\ d.track = t /\ \E z \in ToSet(ZonesAt(d.at)) : z.id = id}
AtAnyShelf(t) == UNION {PersonIn(t, z.id) : z \in {y \in ToSet(Zones) : y.type \in ShelfLike}}

\* Whoever an event names can be found in the overlay of the review page, if
\* seen in two frames running: overlay and events use the same names.
InOverlay(e) ==
    LET seen == {i \in DOMAIN frames : e.track \in {d.track : d \in ToSet(Persons(frames[i]))}}
    IN (\E i \in seen : i + 1 \in seen) =>
           \E j \in DOMAIN overlay : \E d \in ToSet(overlay[j]) : d.track = e.track

\* An event that accuses a track of being somewhere is true of that track: the
\* person was seen in the zone of the event, after a shelf in the case of the
\* exit events, and the overlay shows the person under the same name.
EventPlacesItsPerson ==
    phase = "done" =>
        \A e \in ToSet(events) :
            /\ InOverlay(e)
            /\ e.type \in {"HighValueZoneEntry", "Dwell", "BlindSpotMovement", "GroupDistraction",
                           "ExitWithoutCheckout", "ShelfPickupNoCheckout"} => PersonIn(e.track, e.zone) # {}
            /\ e.type = "HighValueActivity" /\ e.track # 0 => PersonIn(e.track, e.zone) # {}
            /\ e.type \in {"ExitWithoutCheckout", "ShelfPickupNoCheckout"} =>
                   \E i \in PersonIn(e.track, e.zone), j \in AtAnyShelf(e.track) : j <= i
            /\ e.type = "LowStaffRemoval" /\ e.track > 0 => \E i \in DOMAIN frames :
                   \E d \in ToSet(frames[i]) : d.cue = "person" /\ d.track = e.track
=============================================================================
