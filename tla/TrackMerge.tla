----------------------------- MODULE TrackMerge -----------------------------
(***************************************************************************)
(* The pure parts of cloud-ai that Extraction is built from: where a point *)
(* lies (zones.py), which person tracks of a clip are fragments of one     *)
(* body (track_merge.py), and who stands nearest to a cue (events.py).     *)
(*                                                                         *)
(* Coordinates are hundredths of the image.  A frame is a sequence of      *)
(* detections [cue, track, at, conf, look]; look stands for the embedding, *)
(* NoLook for none.  Embeddings of different looks count as orthogonal.    *)
(***************************************************************************)
EXTENDS Integers, SequencesExt

CONSTANTS MaxGap,     (* DEFAULT_MAX_GAP_FRAMES                               *)
          ShortGap,   (* SHORT_GAP_NO_REID                                    *)
          MaxSpatial, (* DEFAULT_MAX_SPATIAL, in hundredths                   *)
          Similarity, (* DEFAULT_SIMILARITY, in hundredths                    *)
          NoLook      (* no embedding                                         *)

ASSUME MergeAssumption ==
    /\ {MaxGap, ShortGap, MaxSpatial, Similarity} \subseteq Nat
    /\ ShortGap <= MaxGap

\* The j-th place of K, and the elements of s at the places of K, in order.
Nth(K, j)  == CHOOSE i \in K : Cardinality({h \in K : h <= i}) = j
Pick(s, K) == [j \in 1..Cardinality(K) |-> s[Nth(K, j)]]

-----------------------------------------------------------------------------
(* zones.py *)

\* Mutant of PointInPolygon: the edge that closes the polygon is left out.
PointInPolygonOpen(p, poly) ==
    LET Crosses(i) ==
            LET a == poly[i]
                b == poly[i - 1]
                side == (b[1] - a[1]) * (p[2] - a[2]) - (p[1] - a[1]) * (b[2] - a[2])
            IN /\ (a[2] > p[2]) # (b[2] > p[2])
               /\ IF b[2] > a[2] THEN side > 0 ELSE side < 0
    IN Len(poly) >= 3 /\ Cardinality({i \in 2..Len(poly) : Crosses(i)}) % 2 = 1

\* Ray casting over the edges (i, i-1): a point is inside when a ray from it
\* crosses an odd number of them.  The division is multiplied out.
PointInPolygon(p, poly) ==
    LET n == Len(poly)
        Crosses(i) ==
            LET a == poly[i]
                b == poly[IF i = 1 THEN n ELSE i - 1]
                side == (b[1] - a[1]) * (p[2] - a[2]) - (p[1] - a[1]) * (b[2] - a[2])
            IN /\ (a[2] > p[2]) # (b[2] > p[2])
               /\ IF b[2] > a[2] THEN side > 0 ELSE side < 0
    IN n >= 3 /\ Cardinality({i \in 1..n : Crosses(i)}) % 2 = 1

ZonesContaining(p, zones) == Pick(zones, {i \in DOMAIN zones : PointInPolygon(p, zones[i].polygon)})

-----------------------------------------------------------------------------
(* track_merge.py *)

IsTracked(d) == d.cue = "person" /\ d.track >= 0
Tracked(frame) == {i \in DOMAIN frame : IsTracked(frame[i])}
Persons(frame) == Pick(frame, Tracked(frame))
IsOf(t, d) == IsTracked(d) /\ d.track = t
PersonIds(frames) == {d.track : d \in {x \in UNION {ToSet(f) : f \in ToSet(frames)} : IsTracked(x)}}

\* Rounded down; the positions of the instances lie at whole distances.
Distance(p, q) ==
    LET square == (p[1] - q[1]) * (p[1] - q[1]) + (p[2] - q[2]) * (p[2] - q[2])
    IN CHOOSE r \in 0..150 : r * r <= square /\ square < (r + 1) * (r + 1)

\* _TrackStats of a person track: the first place in the first frame, the last
\* in the last one.
Stats(frames, t) ==
    LET At(i) == {j \in DOMAIN frames[i] : IsOf(t, frames[i][j])}
        seen  == {i \in DOMAIN frames : At(i) # {}}
    IN [first   |-> Min(seen),
        last    |-> Max(seen),
        firstAt |-> frames[Min(seen)][Min(At(Min(seen)))].at,
        lastAt  |-> frames[Max(seen)][Max(At(Max(seen)))].at,
        looks   |-> UNION {{frames[i][j].look : j \in At(i)} : i \in seen} \ {NoLook}]

SinglePerson(frames) == \A i \in DOMAIN frames : Len(Persons(frames[i])) <= 1

\* The cosine of the mean embeddings of two tracks.
Cosine(A, B) == (100 * Cardinality(A \cap B)) \div Max({Cardinality(A), Cardinality(B)})

\* The tests that let track l continue track e, and the score of the pair.
Continues(e, l, single) ==
    LET gap == l.first - e.last
    IN /\ e.first < l.first
       /\ gap \in 0..MaxGap
       /\ Distance(e.lastAt, l.firstAt) <= MaxSpatial
       /\ IF e.looks # {} /\ l.looks # {} THEN Cosine(e.looks, l.looks) >= Similarity
                                          ELSE single \/ gap <= ShortGap
Score(e, l) == IF e.looks # {} /\ l.looks # {} THEN Cosine(e.looks, l.looks)
                                               ELSE 100 - Distance(e.lastAt, l.firstAt)

\* The order in which the tracks are gone through: first seen first.
Before(stats, t, u) == \/ stats[t].first < stats[u].first
                       \/ stats[t].first = stats[u].first /\ t < u
Place(stats, t) == 1 + Cardinality({u \in DOMAIN stats : Before(stats, u, t)})

\* The best-scoring track that t continues, the first of equals; t if none.
Predecessor(stats, t, single) ==
    LET fits == {e \in DOMAIN stats : Continues(stats[e], stats[t], single)}
        best == {e \in fits : \A u \in fits : Score(stats[u], stats[t]) <= Score(stats[e], stats[t])}
    IN IF fits = {} THEN t
       ELSE CHOOSE e \in best : \A u \in best : u = e \/ Before(stats, e, u)

\* Union-find without path halving, which changes no root.
Find(parent, t) ==
    LET up[u \in DOMAIN parent] == IF parent[u] = u THEN u ELSE up[parent[u]]
    IN up[t]

\* Every detection of a person gets the name of the root of its track.
Relabel(frame, parent) ==
    [i \in DOMAIN frame |->
        IF IsTracked(frame[i]) THEN [frame[i] EXCEPT !.track = Find(parent, frame[i].track)]
                               ELSE frame[i]]

-----------------------------------------------------------------------------
(* events.py *)

\* The tracked person closest to p, the first of equals; 0 if nobody is there.
NearestPerson(p, frame) ==
    LET near == {i \in Tracked(frame) : \A j \in Tracked(frame) :
                    Distance(p, frame[i].at) <= Distance(p, frame[j].at)}
    IN IF Tracked(frame) = {} THEN 0 ELSE frame[Min(near)].track
=============================================================================
