-------------------------- MODULE ExtractionProofs --------------------------
(***************************************************************************)
(* The properties of Extraction, for any clip, zones, views, gaps and      *)
(* thresholds and any number of tracks, in four parts.                     *)
(*                                                                         *)
(* 1. The merge (FragmentsNamed).  The links of build_person_id_remap form *)
(* trees.  A track hangs only under one that was seen earlier (Downhill),  *)
(* so that find() ends (FindClimbs), and a union renames one tree and no   *)
(* other (UnionOfTrees).  The loop goes through the candidates in the      *)
(* order of their Place, which no two share (PlacesDiffer): one before its *)
(* turn is still a root, one after it has the root of its predecessor,     *)
(* also after later unions (LinkInv).                                      *)
(*                                                                         *)
(* 2. The scan (EvidenceIsCounted).  Each accumulator is told by the set   *)
(* of the places <<frame, detection>> that the loop has been through: how  *)
(* many there are of a cue, the extreme ones, and a witness for the zone   *)
(* and the track that it keeps (SignalInv, HandlingInv, ConcealInv, HvInv, *)
(* EpisodeInv, GroupInv; together AccInv).                                 *)
(*                                                                         *)
(* 3. The events (EventsBorne).  The witnesses, and the timeline of each   *)
(* track, bear out what every event says (Borne), and no two events of a   *)
(* clip have the same type (Piece).                                        *)
(*                                                                         *)
(* 4. The overlay, the events in it and the types (EventsPlacePersons,     *)
(* ExtractionTypes).                                                       *)
(*                                                                         *)
(* Induction is over a set of numbers (Inductive), by the least element of *)
(* its complement.                                                         *)
(***************************************************************************)
EXTENDS Scoring, FiniteSetTheorems, WellFoundedInduction, TLAPS

(* Every nonempty set of natural numbers has a least one.                  *)
LEMMA Least ==
  ASSUME NEW S \in SUBSET Nat, S # {}
  PROVE  \E n \in S : \A m \in S : n <= m
<1> DEFINE Rel == OpToRel(<, Nat)
<1>1. IsWellFoundedOn(Rel, Nat)
  BY NatLessThanWellFounded, Zenon
<1>2. \A m, n \in Nat : m < n => <<m, n>> \in Rel
  BY Zenon DEF OpToRel
<1> HIDE DEF Rel
<1>3. PICK n \in S : \A m \in S : ~ (<<m, n>> \in Rel)
  BY <1>1, WFMin
<1>4. \A m \in S : ~ (m < n)
  BY <1>2, <1>3
<1> QED
  BY <1>3, <1>4

(* Induction, over a set instead of a predicate.                           *)
LEMMA Inductive ==
  ASSUME NEW S, 0 \in S, \A n \in Nat : n \in S => n + 1 \in S
  PROVE  Nat \subseteq S
<1> SUFFICES ASSUME Nat \ S # {} PROVE FALSE
  OBVIOUS
<1>1. PICK n \in Nat \ S : \A m \in Nat \ S : n <= m
  <2>1. Nat \ S \in SUBSET Nat
    OBVIOUS
  <2> QED
    BY <2>1, Least
<1>2. n # 0 /\ n - 1 \in Nat /\ n - 1 \in S
  BY <1>1
<1> QED
  BY <1>1, <1>2

-----------------------------------------------------------------------------
(* The forest of build_person_id_remap: every link leads to a track that was   *)
(* seen earlier, m[t] being the first frame of t.                              *)
Downhill(p, m) == \A u \in DOMAIN m : p[u] = u \/ m[p[u]] < m[u]
Climbs(g, p)   == \A u \in DOMAIN p : g[u] = IF p[u] = u THEN u ELSE g[p[u]]

(* So the recursion of find has a solution: climb from the tracks seen first.  *)
LEMMA ClimbEnds ==
  ASSUME NEW D, NEW N \in Nat, NEW m \in [D -> 0..N], NEW p \in [D -> D], Downhill(p, m)
  PROVE  \E g \in [D -> D] : Climbs(g, p)
<1> DEFINE Up(g, u) == IF p[u] = u THEN u ELSE g[p[u]]
           S == {n \in Nat : \E g \in [D -> D] : \A u \in D : m[u] < n => g[u] = Up(g, u)}
<1>1. 0 \in S
  <2>1. [u \in D |-> u] \in [D -> D] /\ \A u \in D : ~ (m[u] < 0)
    OBVIOUS
  <2> QED
    BY <2>1
<1>2. ASSUME NEW n \in Nat, n \in S PROVE n + 1 \in S
  <2>1. PICK g \in [D -> D] : \A u \in D : m[u] < n => g[u] = Up(g, u)
    BY <1>2
  <2>2. PICK h : h = [u \in D |-> Up(g, u)]
    OBVIOUS
  <2>3. h \in [D -> D]
    BY <2>2
  <2>4. ASSUME NEW u \in D, m[u] < n + 1 PROVE h[u] = Up(h, u)
    <3>1. CASE p[u] = u
      BY <2>2, <3>1
    <3>2. CASE p[u] # u
      <4>1. p[u] \in D /\ m[p[u]] < m[u] /\ m[p[u]] \in Nat /\ m[u] \in Nat
        BY <3>2 DEF Downhill
      <4>2. m[p[u]] < n
        BY <2>4, <4>1
      <4>3. g[p[u]] = Up(g, p[u])
        BY <2>1, <4>1, <4>2
      <4>4. h[p[u]] = Up(g, p[u])
        BY <2>2, <4>1
      <4> QED
        BY <2>2, <3>2, <4>3, <4>4
    <3> QED
      BY <3>1, <3>2
  <2> QED
    BY <2>3, <2>4
<1>3. N + 1 \in S
  <2> HIDE DEF S
  <2>1. Nat \subseteq S
    BY <1>1, <1>2, Inductive
  <2> QED
    BY <2>1
<1>4. PICK g \in [D -> D] : \A u \in D : m[u] < N + 1 => g[u] = Up(g, u)
  BY <1>3
<1>5. \A u \in D : g[u] = Up(g, u)
  BY <1>4
<1> QED
  BY <1>4, <1>5 DEF Climbs

(* Which is what find does: one link at a time.                                *)
LEMMA FindClimbs ==
  ASSUME NEW D, NEW N \in Nat, NEW m \in [D -> 0..N], NEW p \in [D -> D], Downhill(p, m),
         NEW t \in D
  PROVE  Find(p, t) = IF p[t] = t THEN t ELSE Find(p, p[t])
<1>1. PICK f : f = CHOOSE g : g = [u \in DOMAIN p |-> IF p[u] = u THEN u ELSE g[p[u]]]
  OBVIOUS
<1>2. f = [u \in D |-> IF p[u] = u THEN u ELSE f[p[u]]]
  <2>1. DOMAIN p = D
    OBVIOUS
  <2>2. PICK g \in [D -> D] : Climbs(g, p)
    BY ClimbEnds
  <2>3. g = [u \in DOMAIN p |-> IF p[u] = u THEN u ELSE g[p[u]]]
    BY <2>1, <2>2 DEF Climbs
  <2> QED
    BY <1>1, <2>1, <2>3
<1>3. \A u : Find(p, u) = f[u]
  BY <1>1 DEF Find
<1>4. f[t] = IF p[t] = t THEN t ELSE f[p[t]]
  BY <1>2
<1> QED
  BY <1>3, <1>4

(* It ends at a root, which was seen no later.                                 *)
LEMMA FindRoot ==
  ASSUME NEW D, NEW N \in Nat, NEW m \in [D -> 0..N], NEW p \in [D -> D], Downhill(p, m),
         NEW t \in D
  PROVE  /\ Find(p, t) \in D /\ p[Find(p, t)] = Find(p, t)
         /\ m[Find(p, t)] <= m[t]
<1> DEFINE Good(u) == /\ Find(p, u) \in D /\ p[Find(p, u)] = Find(p, u)
                      /\ m[Find(p, u)] <= m[u]
           S == {n \in Nat : \A u \in D : m[u] < n => Good(u)}
<1>1. 0 \in S
  OBVIOUS
<1>2. ASSUME NEW n \in Nat, n \in S PROVE n + 1 \in S
  <2> SUFFICES ASSUME NEW u \in D, m[u] < n + 1 PROVE Good(u)
    OBVIOUS
  <2>1. Find(p, u) = IF p[u] = u THEN u ELSE Find(p, p[u])
    BY FindClimbs
  <2>2. CASE p[u] = u
    BY <2>1, <2>2
  <2>3. CASE p[u] # u
    <3>1. p[u] \in D /\ m[p[u]] < m[u] /\ m[p[u]] \in Nat /\ m[u] \in Nat
      BY <2>3 DEF Downhill
    <3>2. Good(p[u])
      <4>1. m[p[u]] < n
        BY <3>1
      <4> QED
        BY <1>2, <3>1, <4>1
    <3>3. Find(p, u) = Find(p, p[u])
      BY <2>1, <2>3
    <3>4. m[Find(p, p[u])] \in Nat
      BY <3>2
    <3> QED
      BY <3>1, <3>2, <3>3, <3>4
  <2> QED
    BY <2>2, <2>3
<1>3. Nat \subseteq S
  <2> HIDE DEF S
  <2> QED
    BY <1>1, <1>2, Inductive
<1>4. m[t] + 1 \in S /\ m[t] < m[t] + 1
  BY <1>3
<1> QED
  BY <1>4

(* q is p with the root r hung under s; r's tree has taken the root s.         *)
Hung(q, p, r, s)   == q[r] = s /\ \A u \in DOMAIN p : u # r => q[u] = p[u]
Joined(q, p, r, s) == \A t \in DOMAIN p : Find(q, t) = IF Find(p, t) = r THEN s ELSE Find(p, t)

(* parent[find(later)] = find(best): the tree of the root r is hung under s    *)
(* and every other track keeps its root.                                       *)
THEOREM UnionOfTrees ==
  ASSUME NEW D, NEW N \in Nat, NEW m \in [D -> 0..N], NEW p \in [D -> D], Downhill(p, m),
         NEW r \in D, NEW s \in D, p[r] = r, p[s] = s, m[s] < m[r],
         NEW q \in [D -> D], Hung(q, p, r, s)
  PROVE  Downhill(q, m) /\ Joined(q, p, r, s)
<1>1. q[r] = s /\ \A u \in D : u # r => q[u] = p[u]
  BY DEF Hung
<1>2. Downhill(q, m)
  BY <1>1 DEF Downhill
<1>3. r # s /\ q[s] = s
  BY <1>1
<1> DEFINE Good(u) == /\ Find(p, u) = r => Find(q, u) = s
                      /\ Find(p, u) # r => Find(q, u) = Find(p, u)
           S == {n \in Nat : \A u \in D : m[u] < n => Good(u)}
<1>9. \A u \in D : Find(p, u) = IF p[u] = u THEN u ELSE Find(p, p[u])
  BY FindClimbs
<1>10. \A u \in D : Find(q, u) = IF q[u] = u THEN u ELSE Find(q, q[u])
  BY <1>2, FindClimbs
<1>4. \A u \in D : /\ Find(p, u) = IF p[u] = u THEN u ELSE Find(p, p[u])
                  /\ Find(q, u) = IF q[u] = u THEN u ELSE Find(q, q[u])
  BY <1>9, <1>10
<1>5. 0 \in S
  OBVIOUS
<1>6. ASSUME NEW n \in Nat, n \in S PROVE n + 1 \in S
  <2> SUFFICES ASSUME NEW u \in D, m[u] < n + 1 PROVE Good(u)
    OBVIOUS
  <2>1. CASE u = r
    BY <1>1, <1>3, <1>4, <2>1
  <2>2. CASE u # r /\ p[u] = u
    BY <1>1, <1>4, <2>2
  <2>3. CASE u # r /\ p[u] # u
    <3>1. p[u] \in D /\ m[p[u]] < m[u] /\ m[p[u]] \in Nat /\ m[u] \in Nat
      BY <2>3 DEF Downhill
    <3>2. Good(p[u])
      <4>1. m[p[u]] < n
        BY <3>1
      <4> QED
        BY <1>6, <3>1, <4>1
    <3> QED
      BY <1>1, <1>4, <2>3, <3>1, <3>2
  <2> QED
    BY <2>1, <2>2, <2>3
<1>7. Nat \subseteq S
  <2> HIDE DEF S
  <2> QED
    BY <1>5, <1>6, Inductive
<1>8. ASSUME NEW t \in D PROVE Good(t)
  <2>1. m[t] + 1 \in S /\ m[t] < m[t] + 1
    BY <1>7
  <2> QED
    BY <2>1
<1> QED
  BY <1>2, <1>8 DEF Joined
-----------------------------------------------------------------------------
(* Least and greatest elements.                                                *)

(* Min and Max of TrackMerge are the least and the greatest of their set.    *)
LEMMA MinIsLeast ==
  ASSUME NEW S \in SUBSET Nat, S # {}
  PROVE  Min(S) \in S /\ \A n \in S : Min(S) <= n
<1>1. \E x \in S : \A y \in S : x <= y
  BY Least
<1> QED
  BY <1>1 DEF Min

(* Every nonempty finite set of integers has a greatest one: take one away.    *)
LEMMA Greatest ==
  ASSUME NEW S \in SUBSET Int, S # {}, IsFiniteSet(S)
  PROVE  \E x \in S : \A y \in S : y <= x
<1> DEFINE Has(T) == \E x \in T : \A y \in T : y <= x
           C == {n \in Nat : \A T \in SUBSET Int :
                    IsFiniteSet(T) /\ Cardinality(T) = n /\ T # {} => Has(T)}
<1>1. 0 \in C
  <2>1. ASSUME NEW T \in SUBSET Int, IsFiniteSet(T), Cardinality(T) = 0 PROVE T = {}
    BY <2>1, FS_EmptySet
  <2> QED
    BY <2>1
<1>2. ASSUME NEW n \in Nat, n \in C PROVE n + 1 \in C
  <2> SUFFICES ASSUME NEW T \in SUBSET Int, IsFiniteSet(T), Cardinality(T) = n + 1, T # {}
               PROVE  Has(T)
    OBVIOUS
  <2>1. PICK x \in T : TRUE
    OBVIOUS
  <2>2. PICK U : U = T \ {x}
    OBVIOUS
  <2>3. IsFiniteSet(U) /\ Cardinality(U) = n
    <3>1. IsFiniteSet(U) /\ Cardinality(U) = IF x \in T THEN Cardinality(T) - 1 ELSE Cardinality(T)
      BY <2>2, FS_RemoveElement
    <3> QED
      BY <2>1, <3>1
  <2>4. CASE U = {}
    BY <2>1, <2>2, <2>4
  <2>5. CASE U # {}
    <3>1. U \in SUBSET Int
      BY <2>2
    <3>2. PICK m \in U : \A y \in U : y <= m
      BY <1>2, <2>3, <2>5, <3>1
    <3>3. CASE x <= m
      BY <2>2, <3>2, <3>3
    <3>4. CASE ~ (x <= m)
      <4>1. \A y \in T : y <= x
        BY <2>1, <2>2, <3>1, <3>2, <3>4
      <4> QED
        BY <2>1, <4>1
    <3> QED
      BY <3>3, <3>4
  <2> QED
    BY <2>4, <2>5
<1>3. Cardinality(S) \in C
  <2> HIDE DEF C
  <2>1. Nat \subseteq C
    BY <1>1, <1>2, Inductive
  <2> QED
    BY <2>1, FS_CardinalityType
<1> QED
  BY <1>3

LEMMA MaxIsGreatest ==
  ASSUME NEW S \in SUBSET Int, S # {}, IsFiniteSet(S)
  PROVE  Max(S) \in S /\ \A n \in S : n <= Max(S)
<1>1. \E x \in S : \A y \in S : x >= y
  <2>1. PICK x \in S : \A y \in S : y <= x
    BY Greatest
  <2> QED
    BY <2>1
<1> QED
  BY <1>1 DEF Max

(* The j-th of a set of places.                                                *)
LEMMA NthIsThere ==
  ASSUME NEW n \in Nat, NEW K \in SUBSET (1..n), NEW j \in 1..Cardinality(K)
  PROVE  \E i \in K : Cardinality({h \in K : h <= i}) = j
<1> DEFINE Up(i) == {h \in K : h <= i}
           S == {i \in Nat : Cardinality(Up(i)) >= j}
<1>9. \A h \in K : h \in Nat /\ 1 <= h /\ h <= n
  OBVIOUS
<1>1. IsFiniteSet(K) /\ Cardinality(K) \in Nat
  <2>1. IsFiniteSet(1..n)
    BY FS_Interval
  <2> QED
    BY <2>1, FS_Subset, FS_CardinalityType
<1>2. \A i \in Nat : IsFiniteSet(Up(i)) /\ Cardinality(Up(i)) \in Nat
  <2> TAKE i \in Nat
  <2>1. IsFiniteSet(Up(i))
    BY <1>1, FS_Subset
  <2> QED
    BY <2>1, FS_CardinalityType
<1>3. n \in S
  <2>1. Up(n) = K
    BY <1>9
  <2> QED
    BY <1>1, <2>1
<1>4. PICK i \in S : \A m \in S : i <= m
  <2>1. S \in SUBSET Nat /\ S # {}
    BY <1>3
  <2> QED
    BY <2>1, Least
<1>5. i # 0
  <2>1. Up(0) = {}
    <3>1. \A h \in K : ~ (h <= 0)
      BY <1>9
    <3> QED
      BY <3>1
  <2>2. Cardinality(Up(0)) = 0
    BY <2>1, FS_EmptySet
  <2> QED
    BY <1>1, <2>2
<1>6. i - 1 \in Nat /\ Cardinality(Up(i - 1)) < j
  <2>1. i \in Nat /\ i - 1 \in Nat /\ ~ (i <= i - 1)
    BY <1>4, <1>5
  <2>2. i - 1 \notin S
    BY <1>4, <2>1
  <2>3. ~ (Cardinality(Up(i - 1)) >= j)
    BY <2>1, <2>2
  <2>4. Cardinality(Up(i - 1)) \in Nat /\ j \in Nat
    <3> HIDE DEF Up
    <3> QED
      BY <1>1, <1>2, <2>1
  <2> QED
    BY <2>1, <2>3, <2>4
<1>7. i \in K /\ Cardinality(Up(i)) = Cardinality(Up(i - 1)) + 1
  <2>1. CASE i \notin K
    <3>1. Up(i) = Up(i - 1)
      <4>1. \A h \in K : h <= i <=> h <= i - 1
        BY <1>6, <1>9, <2>1, <1>4
      <4> QED
        BY <4>1
    <3> QED
      BY <1>4, <1>6, <3>1, <1>1, <1>2
  <2>2. CASE i \in K
    <3>1. Up(i) = Up(i - 1) \cup {i} /\ i \notin Up(i - 1)
      <4>1. \A h \in K : h <= i <=> h <= i - 1 \/ h = i
        BY <1>4, <1>6, <1>9, <2>2
      <4>2. i \in Nat /\ i <= i /\ ~ (i <= i - 1)
        BY <1>4
      <4> QED
        BY <2>2, <4>1, <4>2
    <3>2. IsFiniteSet(Up(i - 1))
      BY <1>2, <1>6
    <3> HIDE DEF Up
    <3> QED
      BY <2>2, <3>1, <3>2, FS_AddElement
  <2> QED
    BY <2>1, <2>2
<1>8. Cardinality(Up(i)) = j
  <2>1. Cardinality(Up(i)) >= j /\ Cardinality(Up(i)) \in Nat /\ Cardinality(Up(i - 1)) \in Nat
    BY <1>2, <1>4, <1>6
  <2> QED
    BY <1>1, <1>6, <1>7, <2>1
<1> QED
  BY <1>7, <1>8

(* A finite set has finitely many images.                                    *)
LEMMA FiniteImage ==
  ASSUME NEW S, IsFiniteSet(S), NEW f, DOMAIN f = S
  PROVE  IsFiniteSet({f[x] : x \in S})
<1>1. PICK T : T = {f[x] : x \in S}
  OBVIOUS
<1>2. PICK g : g = [x \in S |-> f[x]]
  OBVIOUS
<1>3. g \in Surjection(S, T)
  BY <1>1, <1>2 DEF Surjection
<1> QED
  BY <1>1, <1>3, FS_Surjection, Zenon

-----------------------------------------------------------------------------
(* What the tracker reports: a frame is a sequence of detections in the image. *)
Square == (0..100) \X (0..100)
Reported == {Detections(v, b) : v \in Views, b \in Backends}
TypedDet(d) ==
    /\ d.cue \in Cues /\ d.at \in Square /\ d.conf \in Nat /\ d.track \in Int
    /\ d.cue = "person" => d.track \in Ids
TypedFrame(f) ==
    f \in Seq(ToSet(f)) /\ \E n \in Nat : DOMAIN f = 1..n /\ \A j \in 1..n : TypedDet(f[j])

(* Skipping the boxes of other classes leaves a sequence of the others.        *)
LEMMA ReportedTyped ==
  ASSUME NEW f \in Reported
  PROVE  TypedFrame(f)
<1>1. PICK v \in Views, b \in Backends : f = Detections(v, b)
  BY DEF Reported
<1> DEFINE K == {i \in DOMAIN v.boxes : v.boxes[i].cue \in CuesOf(b)}
           TypedBox(x) == /\ x.cue \in Cues /\ x.id \in Nat /\ x.at \in Square /\ x.conf \in Nat
                          /\ x.cue = "person" => x.id \in Ids
<1>3. /\ DOMAIN v.boxes = 1..Len(v.boxes) /\ Len(v.boxes) \in Nat
      /\ v.tracked \in BOOLEAN
      /\ \A i \in DOMAIN v.boxes : TypedBox(v.boxes[i])
  <2>1. v.boxes \in Seq(ToSet(v.boxes)) /\ v.tracked \in BOOLEAN
    BY ViewsAssumption
  <2>2. \A x \in ToSet(v.boxes) : x.cue \in Cues /\ x.id \in Nat /\ x.at \in Square /\ x.conf \in Nat
    BY ViewsAssumption DEF Square
  <2>3. \A i \in DOMAIN v.boxes : v.boxes[i] \in ToSet(v.boxes)
    BY DEF ToSet
  <2>4. ASSUME NEW x \in ToSet(v.boxes), x.cue = "person" PROVE x.id \in Ids
    BY <2>4 DEF Ids
  <2> QED
    BY <2>1, <2>2, <2>3, <2>4
<1>4. K \in SUBSET (1..Len(v.boxes)) /\ Cardinality(K) \in Nat
  <2>1. K \in SUBSET (1..Len(v.boxes)) /\ IsFiniteSet(1..Len(v.boxes))
    BY <1>3, FS_Interval
  <2> QED
    BY <2>1, FS_Subset, FS_CardinalityType
<1> DEFINE Det(x) == [cue |-> x.cue, track |-> IF v.tracked THEN x.id ELSE -1,
                      at |-> x.at, conf |-> x.conf,
                      look |-> IF x.cue = "person" THEN x.look ELSE NoLook]
<1>5. f = [j \in 1..Cardinality(K) |-> Det(v.boxes[Nth(K, j)])]
  BY <1>1, Zenon DEF Detections
<1>7. -1 \in Ids
  BY DEF Ids
<1> HIDE DEF K
<1>6. ASSUME NEW j \in 1..Cardinality(K) PROVE TypedDet(f[j])
  <2>1. PICK i : i = Nth(K, j)
    OBVIOUS
  <2>2. i \in K
    <3>1. \E x \in K : Cardinality({h \in K : h <= x}) = j
      BY <1>3, <1>4, NthIsThere
    <3> QED
      BY <2>1, <3>1 DEF Nth
  <2>3. f[j] = Det(v.boxes[i])
    BY <1>5, <2>1
  <2>4. i \in DOMAIN v.boxes
    BY <2>2 DEF K
  <2>5. TypedBox(v.boxes[i])
    BY <1>3, <2>4
  <2>6. /\ f[j].track = (IF v.tracked THEN v.boxes[i].id ELSE -1) /\ f[j].at = v.boxes[i].at
        /\ f[j].cue = v.boxes[i].cue /\ f[j].conf = v.boxes[i].conf
    BY <2>3
  <2> QED
    BY <1>3, <1>7, <2>5, <2>6 DEF TypedDet
<1>8. f \in Seq(ToSet(f))
  <2>1. PICK n \in Nat : n = Cardinality(K)
    BY <1>4
  <2>2. f \in [1..n -> ToSet(f)]
    BY <1>5, <2>1 DEF ToSet
  <2> QED
    BY <2>2
<1> QED
  BY <1>4, <1>5, <1>6, <1>8 DEF TypedFrame

(* There are finitely many tracks.                                             *)
LEMMA PersonIdsFinite ==
  ASSUME NEW fs \in Seq(Reported)
  PROVE  IsFiniteSet(PersonIds(fs))
<1>1. \A f \in ToSet(fs) : IsFiniteSet(ToSet(f))
  <2> TAKE f \in ToSet(fs)
  <2>1. f \in Reported
    BY DEF ToSet
  <2>2. PICK n \in Nat : DOMAIN f = 1..n
    BY <2>1, ReportedTyped DEF TypedFrame
  <2>3. IsFiniteSet(DOMAIN f)
    BY <2>2, FS_Interval
  <2> QED
    BY <2>3, FiniteImage DEF ToSet
<1>2. IsFiniteSet(ToSet(fs))
  <2>1. IsFiniteSet(DOMAIN fs)
    BY FS_Interval
  <2> QED
    BY <2>1, FiniteImage DEF ToSet
<1>3. PICK g : g = [f \in ToSet(fs) |-> ToSet(f)]
  OBVIOUS
<1>4. IsFiniteSet({g[f] : f \in ToSet(fs)})
  BY <1>2, <1>3, FiniteImage
<1>5. PICK A : A = UNION {ToSet(f) : f \in ToSet(fs)}
  OBVIOUS
<1>6. IsFiniteSet(A)
  <2>1. {g[f] : f \in ToSet(fs)} = {ToSet(f) : f \in ToSet(fs)}
    BY <1>3
  <2>2. IsFiniteSet({ToSet(f) : f \in ToSet(fs)})
    BY <1>4, <2>1
  <2>3. \A T \in {ToSet(f) : f \in ToSet(fs)} : IsFiniteSet(T)
    BY <1>1
  <2> QED
    BY <1>5, <2>2, <2>3, FS_UNION
<1>7. PICK B : B = {x \in A : IsTracked(x)}
  OBVIOUS
<1>8. IsFiniteSet(B)
  BY <1>6, <1>7, FS_Subset
<1>9. PICK h : h = [x \in B |-> x.track]
  OBVIOUS
<1>10. IsFiniteSet({h[x] : x \in B})
  BY <1>8, <1>9, FiniteImage
<1>11. PersonIds(fs) = {h[x] : x \in B}
  BY <1>5, <1>7, <1>9 DEF PersonIds
<1> QED
  BY <1>10, <1>11

-----------------------------------------------------------------------------
(* The statistics of a track are those of places where it was seen.            *)
TypedStat(st) ==
    st.first \in Nat /\ st.firstAt \in Square /\ st.lastAt \in Square /\ IsFiniteSet(st.looks)

(* The statistics of a person track, for any frames that were reported.      *)
LEMMA StatsTyped ==
  ASSUME NEW fs \in Seq(Reported), NEW t \in PersonIds(fs)
  PROVE  t \in Nat /\ TypedStat(Stats(fs, t)) /\ Stats(fs, t).first \in 0..Len(fs)
<1> DEFINE At(i) == {j \in DOMAIN fs[i] : IsOf(t, fs[i][j])}
           seen == {i \in DOMAIN fs : At(i) # {}}
<1>1. \A i \in DOMAIN fs : TypedFrame(fs[i])
  BY ReportedTyped
<1>2. PICK i \in DOMAIN fs : \E d \in ToSet(fs[i]) : IsTracked(d) /\ d.track = t
  <2>1. PICK d \in UNION {ToSet(f) : f \in ToSet(fs)} : IsTracked(d) /\ d.track = t
    BY DEF PersonIds
  <2> QED
    BY <2>1 DEF ToSet
<1>3. PICK j \in DOMAIN fs[i] : IsTracked(fs[i][j]) /\ fs[i][j].track = t
  BY <1>2 DEF ToSet
<1>4. t \in Nat
  BY <1>1, <1>3 DEF IsTracked, TypedFrame, TypedDet
<1>5. seen \in SUBSET Nat /\ seen # {} /\ seen \in SUBSET (1..Len(fs))
  BY <1>3 DEF IsOf
<1>6. Min(seen) \in seen
  BY <1>5, MinIsLeast
<1>7. Max(seen) \in seen
  <2>1. IsFiniteSet(1..Len(fs))
    BY FS_Interval
  <2>2. IsFiniteSet(seen) /\ seen \in SUBSET Int
    BY <1>5, <2>1, FS_Subset
  <2> HIDE DEF seen
  <2> QED
    BY <1>5, <2>2, MaxIsGreatest
<1>8. \A x \in DOMAIN fs : /\ At(x) \in SUBSET Nat /\ IsFiniteSet(At(x))
                           /\ \A y \in At(x) : fs[x][y].at \in Square
  <2> TAKE x \in DOMAIN fs
  <2>1. PICK n \in Nat : DOMAIN fs[x] = 1..n /\ \A y \in 1..n : fs[x][y].at \in Square
    BY <1>1 DEF TypedFrame, TypedDet
  <2>2. IsFiniteSet(1..n) /\ At(x) \in SUBSET (1..n)
    BY <2>1, FS_Interval
  <2>3. IsFiniteSet(At(x))
    BY <2>2, FS_Subset
  <2> QED
    BY <2>1, <2>2, <2>3
<1>9. \A x \in seen : Min(At(x)) \in At(x) /\ Max(At(x)) \in At(x)
  <2> TAKE x \in seen
  <2>1. PICK A : A = At(x)
    OBVIOUS
  <2>2. A \in SUBSET Nat /\ A \in SUBSET Int /\ A # {} /\ IsFiniteSet(A)
    BY <1>8, <2>1
  <2>3. Min(A) \in A /\ Max(A) \in A
    BY <2>2, MinIsLeast, MaxIsGreatest
  <2> QED
    BY <2>1, <2>3
<1> DEFINE LooksIn(x) == {fs[x][y].look : y \in At(x)}
           looks == UNION {LooksIn(x) : x \in seen} \ {NoLook}
<1>10. IsFiniteSet(looks)
  <2> DEFINE g == [x \in seen |-> LooksIn(x)]
  <2>1. \A x \in seen : IsFiniteSet(g[x])
    <3> TAKE x \in seen
    <3>1. PICK A : A = At(x)
      OBVIOUS
    <3>2. IsFiniteSet(A)
      BY <1>8, <3>1
    <3>3. PICK h : h = [y \in A |-> fs[x][y].look]
      OBVIOUS
    <3>4. IsFiniteSet({h[y] : y \in A})
      BY <3>2, <3>3, FiniteImage
    <3>5. g[x] = {h[y] : y \in A}
      BY <3>1, <3>3
    <3> QED
      BY <3>4, <3>5
  <2>2. IsFiniteSet(seen)
    <3>1. IsFiniteSet(1..Len(fs))
      BY FS_Interval
    <3> QED
      BY <1>5, <3>1, FS_Subset
  <2>3. looks = UNION {g[x] : x \in seen} \ {NoLook}
    <3>1. \A x \in seen : g[x] = LooksIn(x)
      OBVIOUS
    <3> HIDE DEF g, seen, LooksIn
    <3> QED
      BY <3>1
  <2>4. IsFiniteSet({g[x] : x \in seen})
    <3>1. DOMAIN g = seen
      OBVIOUS
    <3> HIDE DEF g, seen
    <3> QED
      BY <2>2, <3>1, FiniteImage
  <2> HIDE DEF g, seen, looks
  <2>5. \A T \in {g[x] : x \in seen} : IsFiniteSet(T)
    BY <2>1
  <2>6. IsFiniteSet(UNION {g[x] : x \in seen})
    BY <2>4, <2>5, FS_UNION
  <2> QED
    BY <2>3, <2>6, FS_Subset
<1>11. Stats(fs, t) = [first   |-> Min(seen), last |-> Max(seen),
                       firstAt |-> fs[Min(seen)][Min(At(Min(seen)))].at,
                       lastAt  |-> fs[Max(seen)][Max(At(Max(seen)))].at,
                       looks   |-> looks]
  BY Zenon DEF Stats
<1>12. PICK a : a = Min(seen)
  OBVIOUS
<1>13. PICK b : b = Max(seen)
  OBVIOUS
<1>14. PICK L : L = looks
  OBVIOUS
<1>15. PICK x : x = Min(At(a))
  OBVIOUS
<1>16. PICK y : y = Max(At(b))
  OBVIOUS
<1>17. Stats(fs, t) = [first |-> a, last |-> b, firstAt |-> fs[a][x].at, lastAt |-> fs[b][y].at,
                       looks |-> L]
  BY <1>11, <1>12, <1>13, <1>14, <1>15, <1>16, Zenon
<1>18. a \in 1..Len(fs) /\ fs[a][x].at \in Square /\ fs[b][y].at \in Square /\ IsFiniteSet(L)
  <2>1. a \in seen /\ b \in seen
    BY <1>6, <1>7, <1>12, <1>13
  <2>2. x \in At(a) /\ y \in At(b)
    BY <1>9, <1>15, <1>16, <2>1
  <2>3. a \in DOMAIN fs /\ b \in DOMAIN fs /\ a \in 1..Len(fs)
    BY <1>5, <2>1
  <2> HIDE DEF At, seen, looks
  <2> QED
    BY <1>8, <1>10, <1>14, <2>2, <2>3
<1> HIDE DEF At, seen, looks
<1> QED
  BY <1>4, <1>17, <1>18 DEF TypedStat

-----------------------------------------------------------------------------
(* The score of a pair is a number, so one of the fitting tracks is the best.  *)
LEMMA SquareBounded ==
  ASSUME NEW a \in Nat, a <= 100, NEW b \in Nat, b <= 100
  PROVE  \E s \in Nat : s = (a - b) * (a - b) /\ s <= 10000
<1>1. PICK d \in Int : d = a - b /\ -100 <= d /\ d <= 100
  OBVIOUS
<1>2. d * d >= 0
  OBVIOUS
<1>3. (100 - d) * (100 + d) >= 0
  BY <1>1
<1>4. (100 - d) * (100 + d) = 10000 - d * d
  OBVIOUS
<1>5. d * d \in Nat /\ d * d <= 10000
  BY <1>2, <1>3, <1>4
<1> QED
  BY <1>1, <1>5

(* spatial_dist of two statistics.                                           *)
LEMMA DistanceTyped ==
  ASSUME NEW p \in Square, NEW q \in Square
  PROVE  Distance(p, q) \in 0..150
<1>1. /\ p[1] \in Nat /\ p[1] <= 100 /\ p[2] \in Nat /\ p[2] <= 100
      /\ q[1] \in Nat /\ q[1] <= 100 /\ q[2] \in Nat /\ q[2] <= 100
  BY DEF Square
<1>2. PICK square : square = (p[1] - q[1]) * (p[1] - q[1]) + (p[2] - q[2]) * (p[2] - q[2])
  OBVIOUS
<1>3. square \in Nat /\ square <= 20000
  <2>1. PICK a \in Nat, b \in Nat, c \in Nat, d \in Nat :
             /\ a = p[1] /\ b = q[1] /\ c = p[2] /\ d = q[2]
             /\ a <= 100 /\ b <= 100 /\ c <= 100 /\ d <= 100
    BY <1>1
  <2>2. PICK x \in Nat : x = (a - b) * (a - b) /\ x <= 10000
    BY <2>1, SquareBounded
  <2>3. PICK y \in Nat : y = (c - d) * (c - d) /\ y <= 10000
    BY <2>1, SquareBounded
  <2>4. square = x + y
    BY <1>2, <2>1, <2>2, <2>3
  <2> QED
    BY <2>2, <2>3, <2>4
<1> DEFINE S == {r \in Nat : square < (r + 1) * (r + 1)}
<1>4. PICK r \in S : \A s \in S : r <= s
  <2>1. 150 \in S
    BY <1>3
  <2> QED
    BY <2>1, Least
<1>5. r \in 0..150
  <2>1. 150 \in S
    BY <1>3
  <2> QED
    BY <1>4, <2>1
<1>6. r * r <= square
  <2>1. CASE r = 0
    BY <1>3, <2>1
  <2>2. CASE r # 0
    <3>1. r - 1 \in Nat /\ r - 1 \notin S /\ (r - 1) + 1 = r
      BY <1>4, <2>2
    <3>2. ~ (square < r * r)
      BY <3>1
    <3> QED
      BY <1>3, <1>4, <3>2
  <2> QED
    BY <2>1, <2>2
<1>7. \E x \in 0..150 : x * x <= square /\ square < (x + 1) * (x + 1)
  BY <1>4, <1>5, <1>6
<1>8. Distance(p, q) = CHOOSE x \in 0..150 : x * x <= square /\ square < (x + 1) * (x + 1)
  BY <1>2, Zenon DEF Distance
<1> QED
  BY <1>7, <1>8

(* The best similarity of two sets of looks.                                 *)
LEMMA CosineTyped ==
  ASSUME NEW A, NEW B, IsFiniteSet(A), IsFiniteSet(B), A # {}
  PROVE  Cosine(A, B) \in Int
<1>1. PICK a \in Nat : a = Cardinality(A) /\ a # 0
  BY FS_CardinalityType, FS_EmptySet
<1>2. PICK b \in Nat : b = Cardinality(B)
  BY FS_CardinalityType
<1>3. PICK c \in Nat : c = Cardinality(A \cap B)
  <2>1. IsFiniteSet(A \cap B)
    BY FS_Subset
  <2> QED
    BY <2>1, FS_CardinalityType
<1>4. PICK m : m = Max({a, b})
  OBVIOUS
<1>5. m \in Nat /\ m # 0
  <2>1. m \in {a, b} /\ \A n \in {a, b} : m >= n
    <3>1. \E x \in {a, b} : \A n \in {a, b} : x >= n
      <4>1. CASE a >= b
        BY <4>1
      <4>2. CASE ~ (a >= b)
        BY <4>2
      <4> QED
        BY <4>1, <4>2
    <3> QED
      BY <1>4, <3>1 DEF Max
  <2> QED
    BY <1>1, <2>1
<1>6. Cosine(A, B) = (100 * c) \div m
  BY <1>1, <1>2, <1>3, <1>4 DEF Cosine
<1> QED
  BY <1>5, <1>6

(* What a fragment is ranked by is an integer.                               *)
LEMMA ScoreTyped ==
  ASSUME NEW e, NEW l, TypedStat(e), TypedStat(l)
  PROVE  Score(e, l) \in Int
<1>1. Distance(e.lastAt, l.firstAt) \in 0..150
  BY DistanceTyped DEF TypedStat
<1>2. CASE e.looks # {} /\ l.looks # {}
  <2>1. Cosine(e.looks, l.looks) \in Int
    BY <1>2, CosineTyped DEF TypedStat
  <2> QED
    BY <1>2, <2>1 DEF Score
<1>3. CASE ~ (e.looks # {} /\ l.looks # {})
  BY <1>1, <1>3 DEF Score
<1> QED
  BY <1>2, <1>3

(* The loop over the earlier tracks ends with one that t continues and whose   *)
(* score no other exceeds, or with t when it continues none.                   *)
THEOREM PredecessorIsBest ==
  ASSUME NEW stats, NEW t \in DOMAIN stats, NEW single,
         IsFiniteSet(DOMAIN stats), DOMAIN stats \subseteq Nat,
         \A u \in DOMAIN stats : TypedStat(stats[u])
  PROVE  LET p == Predecessor(stats, t, single)
             Fits(u) == Continues(stats[u], stats[t], single)
         IN \/ p = t /\ \A u \in DOMAIN stats : ~ Fits(u)
            \/ /\ p \in DOMAIN stats /\ Fits(p) /\ stats[p].first < stats[t].first
               /\ \A u \in DOMAIN stats : Fits(u) => Score(stats[u], stats[t]) <= Score(stats[p], stats[t])
<1> DEFINE fits == {e \in DOMAIN stats : Continues(stats[e], stats[t], single)}
           best == {e \in fits : \A u \in fits : Score(stats[u], stats[t]) <= Score(stats[e], stats[t])}
<1>1. Predecessor(stats, t, single) =
        IF fits = {} THEN t ELSE CHOOSE e \in best : \A u \in best : u = e \/ Before(stats, e, u)
  BY Zenon DEF Predecessor
<1>2. \A u \in fits : Continues(stats[u], stats[t], single) /\ u \in DOMAIN stats
  OBVIOUS
<1>3. \A u \in DOMAIN stats : Continues(stats[u], stats[t], single) => u \in fits
  OBVIOUS
<1>4. \A e \in best : e \in fits /\ \A u \in fits : Score(stats[u], stats[t]) <= Score(stats[e], stats[t])
  OBVIOUS
<1>5. CASE fits = {}
  BY <1>1, <1>3, <1>5
<1>6. CASE fits # {}
  <2>1. PICK f : f = [e \in fits |-> Score(stats[e], stats[t])]
    OBVIOUS
  <2>2. IsFiniteSet(fits)
    BY FS_Subset
  <2>3. \A e \in fits : f[e] = Score(stats[e], stats[t]) /\ f[e] \in Int
    BY <1>2, <2>1, ScoreTyped
  <2>4. PICK top \in fits : \A u \in fits : f[u] <= f[top]
    <3>1. IsFiniteSet({f[e] : e \in fits})
      <4> HIDE DEF fits
      <4> QED
        BY <2>1, <2>2, FiniteImage
    <3>2. {f[e] : e \in fits} \in SUBSET Int /\ {f[e] : e \in fits} # {}
      BY <1>6, <2>3
    <3>3. PICK x \in {f[e] : e \in fits} : \A y \in {f[e] : e \in fits} : y <= x
      BY <3>1, <3>2, Greatest
    <3> QED
      BY <3>3
  <2>5. top \in best
    BY <2>3, <2>4
  <2> HIDE DEF fits, best
  <2>6. \A e \in best : e \in Nat /\ stats[e].first \in Nat
    BY <1>2, <1>4 DEF TypedStat
  <2>7. PICK n \in {stats[e].first : e \in best} : \A x \in {stats[e].first : e \in best} : n <= x
    <3>1. {stats[e].first : e \in best} \in SUBSET Nat /\ {stats[e].first : e \in best} # {}
      BY <2>5, <2>6
    <3> QED
      BY <3>1, Least
  <2>8. PICK e \in {u \in best : stats[u].first = n} : \A u \in {x \in best : stats[x].first = n} : e <= u
    <3>1. {u \in best : stats[u].first = n} \in SUBSET Nat /\ {u \in best : stats[u].first = n} # {}
      BY <2>6, <2>7
    <3> QED
      BY <3>1, Least
  <2>9. \A u \in best : u = e \/ Before(stats, e, u)
    <3> TAKE u \in best
    <3>1. stats[e].first = n /\ n <= stats[u].first /\ e \in best
      BY <2>7, <2>8
    <3>2. CASE stats[u].first = n
      BY <2>6, <2>8, <3>1, <3>2 DEF Before
    <3>3. CASE stats[u].first # n
      BY <2>6, <3>1, <3>3 DEF Before
    <3> QED
      BY <3>2, <3>3
  <2>10. PICK p : p = Predecessor(stats, t, single)
    OBVIOUS
  <2>11. p \in best
    BY <1>1, <1>6, <2>8, <2>9, <2>10
  <2>12. p \in DOMAIN stats /\ Continues(stats[p], stats[t], single)
    BY <1>2, <1>4, <2>11
  <2>13. stats[p].first < stats[t].first
    BY <2>12 DEF Continues
  <2> QED
    BY <1>3, <1>4, <2>10, <2>11, <2>12, <2>13
<1> QED
  BY <1>5, <1>6

-----------------------------------------------------------------------------
(* Each track has a place of its own among the candidates.                     *)
LEMMA PlacesDiffer ==
  ASSUME NEW stats, IsFiniteSet(DOMAIN stats), DOMAIN stats \subseteq Nat,
         \A u \in DOMAIN stats : stats[u].first \in Nat
  PROVE  /\ \A t \in DOMAIN stats : Place(stats, t) \in 1..Cardinality(DOMAIN stats)
         /\ \A t, u \in DOMAIN stats : Place(stats, t) = Place(stats, u) => t = u
<1> DEFINE D == DOMAIN stats
           Ahead(t) == {u \in D : Before(stats, u, t)}
<1>1. \A t \in D : IsFiniteSet(Ahead(t)) /\ Cardinality(Ahead(t)) \in Nat
  <2> TAKE t \in D
  <2>1. IsFiniteSet(Ahead(t))
    BY FS_Subset
  <2> QED
    BY <2>1, FS_CardinalityType
<1>2. \A t \in D : Place(stats, t) = 1 + Cardinality(Ahead(t))
  BY DEF Place
<1>3. \A t, u \in D : t = u \/ Before(stats, t, u) \/ Before(stats, u, t)
  BY DEF Before
<1>4. \A t, u, v \in D : Before(stats, t, u) /\ Before(stats, u, v) => Before(stats, t, v)
  BY DEF Before
<1>5. \A t \in D : ~ Before(stats, t, t)
  BY DEF Before
<1>6. ASSUME NEW t \in D, NEW u \in D, Before(stats, t, u)
      PROVE  Cardinality(Ahead(t)) < Cardinality(Ahead(u))
  <2>1. Ahead(t) \in SUBSET Ahead(u)
    BY <1>4, <1>6
  <2>2. t \in Ahead(u) /\ t \notin Ahead(t)
    BY <1>5, <1>6
  <2> HIDE DEF Ahead
  <2>3. /\ Cardinality(Ahead(t)) <= Cardinality(Ahead(u))
        /\ Cardinality(Ahead(u)) = Cardinality(Ahead(t)) => Ahead(u) = Ahead(t)
    BY <1>1, <2>1, FS_Subset
  <2> QED
    BY <1>1, <2>2, <2>3
<1>7. ASSUME NEW t \in D PROVE Cardinality(Ahead(t)) < Cardinality(D)
  <2>1. Ahead(t) \in SUBSET D /\ t \notin Ahead(t)
    BY <1>5
  <2>2. Cardinality(D) \in Nat
    BY FS_CardinalityType
  <2> HIDE DEF Ahead
  <2>3. Cardinality(Ahead(t)) <= Cardinality(D) /\ (Cardinality(D) = Cardinality(Ahead(t)) => D = Ahead(t))
    BY <2>1, FS_Subset
  <2> QED
    BY <1>1, <2>1, <2>2, <2>3
<1>8. Cardinality(D) \in Nat
  BY FS_CardinalityType
<1> HIDE DEF Ahead
<1>9. \A t \in D : Place(stats, t) \in 1..Cardinality(D)
  BY <1>1, <1>2, <1>7, <1>8
<1>10. ASSUME NEW t \in D, NEW u \in D, Place(stats, t) = Place(stats, u) PROVE t = u
  BY <1>1, <1>2, <1>3, <1>6, <1>10
<1> QED
  BY <1>9, <1>10

-----------------------------------------------------------------------------
(* The loop of build_person_id_remap.                                          *)
StatsOf(fs) == [t \in PersonIds(fs) |-> Stats(fs, t)]
FirstOf(fs) == [t \in PersonIds(fs) |-> Stats(fs, t).first]
BestBefore(fs, t) == Predecessor(StatsOf(fs), t, SinglePerson(fs))

(* A candidate that has not had its turn is a root; one that has had it stands *)
(* in the tree of its predecessor, and is a root if it has none.               *)
LinkInv ==
    /\ k \in Nat \ {0}
    /\ parent \in [PersonIds(frames) -> PersonIds(frames)]
    /\ Downhill(parent, FirstOf(frames))
    /\ \A t \in PersonIds(frames) : k <= Place(StatsOf(frames), t) => parent[t] = t
    /\ \A t \in PersonIds(frames) : Place(StatsOf(frames), t) < k =>
         /\ Find(parent, t) = Find(parent, BestBefore(frames, t))
         /\ BestBefore(frames, t) = t => parent[t] = t

MergeInv ==
    /\ backend \in Backends
    /\ phase \in {"track", "link"} => frames \in Seq(Reported)
    /\ phase = "link" => LinkInv

(* What the loop needs to know of the tracks it goes through.                  *)
LEMMA CandidateFacts ==
  ASSUME NEW fs \in Seq(Reported)
  PROVE  /\ Cardinality(PersonIds(fs)) \in Nat
         /\ FirstOf(fs) \in [PersonIds(fs) -> 0..Len(fs)]
         /\ \A t \in PersonIds(fs) :
              /\ Place(StatsOf(fs), t) \in 1..Cardinality(PersonIds(fs))
              /\ \A u \in PersonIds(fs) : Place(StatsOf(fs), t) = Place(StatsOf(fs), u) => t = u
              /\ BestBefore(fs, t) \in PersonIds(fs)
              /\ BestBefore(fs, t) = t \/ FirstOf(fs)[BestBefore(fs, t)] < FirstOf(fs)[t]
<1> DEFINE D == PersonIds(fs)
<1>1. IsFiniteSet(D) /\ Cardinality(D) \in Nat
  BY PersonIdsFinite, FS_CardinalityType
<1>2. PICK s : s = StatsOf(fs)
  OBVIOUS
<1>3. /\ DOMAIN s = D /\ D \subseteq Nat
      /\ \A t \in D : s[t] = Stats(fs, t) /\ TypedStat(s[t]) /\ s[t].first \in 0..Len(fs)
                      /\ s[t].first \in Nat
  <2>1. \A t \in D : t \in Nat /\ TypedStat(Stats(fs, t)) /\ Stats(fs, t).first \in 0..Len(fs)
    BY StatsTyped
  <2>2. DOMAIN s = D /\ \A t \in D : s[t] = Stats(fs, t)
    BY <1>2 DEF StatsOf
  <2> HIDE DEF D
  <2> QED
    BY <2>1, <2>2 DEF TypedStat
<1>4. \A t \in D : FirstOf(fs)[t] = s[t].first
  BY <1>3 DEF FirstOf
<1>5. FirstOf(fs) \in [D -> 0..Len(fs)]
  BY <1>3 DEF FirstOf
<1> HIDE DEF D
<1>6. /\ \A t \in D : Place(s, t) \in 1..Cardinality(D)
      /\ \A t, u \in D : Place(s, t) = Place(s, u) => t = u
  BY <1>1, <1>3, PlacesDiffer
<1>7. ASSUME NEW t \in D
      PROVE  /\ BestBefore(fs, t) \in D
             /\ BestBefore(fs, t) = t \/ FirstOf(fs)[BestBefore(fs, t)] < FirstOf(fs)[t]
  <2>1. PICK p : p = Predecessor(s, t, SinglePerson(fs))
    OBVIOUS
  <2>2. p = t \/ (p \in DOMAIN s /\ s[p].first < s[t].first)
    BY <1>1, <1>3, <2>1, PredecessorIsBest
  <2>3. p = BestBefore(fs, t)
    BY <1>2, <2>1 DEF BestBefore
  <2> QED
    BY <1>3, <1>4, <2>2, <2>3
<1> QED
  BY <1>1, <1>2, <1>5, <1>6, <1>7 DEF D

(* A new clip has no links.                                                    *)
LEMMA LinkStarts ==
  ASSUME frames \in Seq(Reported), EndOfClip
  PROVE  LinkInv'
<1>1. k' = 1 /\ frames' = frames /\ parent' = [t \in PersonIds(frames) |-> t]
  BY DEF EndOfClip
<1>2. FirstOf(frames) \in [PersonIds(frames) -> 0..Len(frames)]
      /\ \A t \in PersonIds(frames) : Place(StatsOf(frames), t) \in 1..Cardinality(PersonIds(frames))
  BY CandidateFacts
<1>3. Downhill(parent', FirstOf(frames))
  BY <1>1, <1>2 DEF Downhill
<1>4. \A t \in PersonIds(frames) : ~ (Place(StatsOf(frames), t) < 1)
  BY <1>2
<1> QED
  BY <1>1, <1>3, <1>4 DEF LinkInv

(* A candidate gets its turn.                                                  *)
LEMMA LinkKeeps ==
  ASSUME frames \in Seq(Reported), LinkInv, LinkTrack
  PROVE  LinkInv'
<1> DEFINE D == PersonIds(frames)
           m == FirstOf(frames)
           Turn(u) == Place(StatsOf(frames), u)
           Pred(u) == BestBefore(frames, u)
<1>1. parent \in [D -> D] /\ Downhill(parent, m) /\ k \in Nat /\ k # 0
  BY DEF LinkInv
<1>2. m \in [D -> 0..Len(frames)] /\ Len(frames) \in Nat
      /\ \A u \in D : /\ Turn(u) \in Nat /\ \A v \in D : Turn(u) = Turn(v) => u = v
                      /\ Pred(u) \in D /\ (Pred(u) = u \/ m[Pred(u)] < m[u])
  BY CandidateFacts
<1>3. PICK t \in D : /\ Turn(t) = k
                     /\ parent' = [parent EXCEPT ![Find(parent, t)] = Find(parent, Pred(t))]
  <2>1. [u \in DOMAIN parent |-> Stats(frames, u)] = StatsOf(frames) /\ DOMAIN parent = D
    BY <1>1 DEF StatsOf
  <2> QED
    BY <2>1 DEF LinkTrack, BestBefore
<1>4. frames' = frames /\ k' = k + 1
  BY DEF LinkTrack
<1>5. /\ \A u \in D : k <= Turn(u) => parent[u] = u
      /\ \A u \in D : Turn(u) < k => /\ Find(parent, u) = Find(parent, Pred(u))
                                     /\ Pred(u) = u => parent[u] = u
  BY DEF LinkInv
<1> HIDE DEF D, m, Turn, Pred
<1>6. parent[t] = t /\ Find(parent, t) = t
  <2>1. parent[t] = t
    BY <1>1, <1>3, <1>5
  <2>2. Find(parent, t) = IF parent[t] = t THEN t ELSE Find(parent, parent[t])
    BY <1>1, <1>2, FindClimbs
  <2> QED
    BY <2>1, <2>2
<1>7. \A u \in D : /\ Turn(u) < k + 1 => Turn(u) < k \/ u = t
                   /\ k + 1 <= Turn(u) => k <= Turn(u) /\ u # t
                   /\ Turn(u) < k => u # t
  BY <1>1, <1>2, <1>3
<1>8. /\ parent' \in [D -> D] /\ Downhill(parent', m)
      /\ \A u \in D : k + 1 <= Turn(u) => parent'[u] = u
      /\ \A u \in D : Turn(u) < k + 1 => /\ Find(parent', u) = Find(parent', Pred(u))
                                         /\ Pred(u) = u => parent'[u] = u
  <2>1. CASE Pred(t) = t
    <3>1. parent' = parent
      BY <1>1, <1>3, <1>6, <2>1
    <3> QED
      BY <1>1, <1>5, <1>6, <1>7, <2>1, <3>1
  <2>2. CASE Pred(t) # t
    <3>1. PICK s : s = Find(parent, Pred(t))
      OBVIOUS
    <3>2. s \in D /\ parent[s] = s /\ m[s] <= m[Pred(t)]
      <4>1. PICK n \in Nat : n = Len(frames)
        BY <1>2
      <4>2. PICK x \in D : x = Pred(t)
        BY <1>2
      <4>3. PICK f : f = parent
        OBVIOUS
      <4>4. m \in [D -> 0..n] /\ f \in [D -> D] /\ Downhill(f, m)
        BY <1>1, <1>2, <4>1, <4>3
      <4>5. Find(f, x) \in D /\ f[Find(f, x)] = Find(f, x) /\ m[Find(f, x)] <= m[x]
        BY <4>4, FindRoot
      <4> QED
        BY <3>1, <4>2, <4>3, <4>5
    <3>3. m[s] < m[t]
      <4>1. m[s] \in Nat /\ m[t] \in Nat /\ m[Pred(t)] \in Nat /\ m[Pred(t)] < m[t]
        BY <1>2, <2>2, <3>2
      <4> QED
        BY <3>2, <4>1
    <3>4. PICK q : q = parent'
      OBVIOUS
    <3>5. q \in [D -> D] /\ q[t] = s /\ \A u \in D : u # t => q[u] = parent[u]
      BY <1>1, <1>3, <1>6, <3>1, <3>2, <3>4
    <3>6. /\ Downhill(q, m)
          /\ \A u \in D : Find(q, u) = IF Find(parent, u) = t THEN s ELSE Find(parent, u)
      <4>1. PICK n \in Nat : n = Len(frames)
        BY <1>2
      <4>2. PICK f : f = parent
        OBVIOUS
      <4>3. m \in [D -> 0..n] /\ f \in [D -> D] /\ Downhill(f, m)
        BY <1>1, <1>2, <4>1, <4>2
      <4>4. f[t] = t /\ s \in D /\ f[s] = s /\ m[s] < m[t]
        BY <1>6, <3>2, <3>3, <4>2
      <4>5. q \in [D -> D] /\ Hung(q, f, t, s)
        BY <1>1, <3>5, <4>2 DEF Hung
      <4>6. Downhill(q, m) /\ Joined(q, f, t, s)
        <5>1. n \in Nat /\ m \in [D -> 0..n] /\ f \in [D -> D] /\ q \in [D -> D] /\ t \in D /\ s \in D
          BY <4>3, <4>4, <4>5
        <5>2. Downhill(f, m) /\ f[t] = t /\ f[s] = s /\ m[s] < m[t] /\ Hung(q, f, t, s)
          BY <4>3, <4>4, <4>5
        <5> QED
          BY <5>1, <5>2, UnionOfTrees
      <4> QED
        BY <4>2, <4>3, <4>6 DEF Joined
    <3>7. \A u \in D : k + 1 <= Turn(u) => q[u] = u
      BY <1>5, <1>7, <3>5
    <3>8. ASSUME NEW u \in D, Turn(u) < k + 1
          PROVE  Find(q, u) = Find(q, Pred(u)) /\ (Pred(u) = u => q[u] = u)
      <4>1. CASE u = t
        <5>1. Find(q, t) = s
          BY <1>6, <3>6
        <5>2. Find(q, Pred(t)) = s
          BY <1>2, <3>1, <3>6
        <5> QED
          BY <2>2, <4>1, <5>1, <5>2
      <4>2. CASE u # t
        <5>1. Find(parent, u) = Find(parent, Pred(u)) /\ (Pred(u) = u => parent[u] = u)
          BY <1>5, <1>7, <3>8, <4>2
        <5>2. Pred(u) \in D
          BY <1>2
        <5> QED
          BY <3>5, <3>6, <4>2, <5>1, <5>2
      <4> QED
        BY <4>1, <4>2
    <3> QED
      BY <3>4, <3>5, <3>6, <3>7, <3>8
  <2> QED
    BY <2>1, <2>2
<1> QED
  BY <1>1, <1>4, <1>8 DEF LinkInv, D, m, Turn, Pred

(* MergeInv holds of a new clip and is kept by every step.                   *)
LEMMA InitMergeInv == ScoringInit => MergeInv
<1> SUFFICES ASSUME ScoringInit PROVE MergeInv
  OBVIOUS
<1>1. frames = <<>> /\ phase = "track" /\ backend \in Backends
  BY DEF ScoringInit, Init
<1>2. frames \in Seq(Reported)
  BY <1>1
<1> QED
  BY <1>1, <1>2 DEF MergeInv

LEMMA StepMergeInv == MergeInv /\ [ScoringNext]_scoringVars => MergeInv'
<1> SUFFICES ASSUME MergeInv, [ScoringNext]_scoringVars PROVE MergeInv'
  OBVIOUS
<1>1. CASE TrackFrame
  <2>1. PICK v \in Views : frames' = Append(frames, Detections(v, backend))
    BY <1>1 DEF TrackFrame
  <2>2. backend' = backend /\ phase' = phase /\ phase = "track"
    BY <1>1 DEF TrackFrame
  <2>3. Detections(v, backend) \in Reported
    BY DEF MergeInv, Reported
  <2>4. frames' \in Seq(Reported)
    BY <2>1, <2>2, <2>3 DEF MergeInv
  <2> QED
    BY <2>2, <2>4 DEF MergeInv
<1>2. CASE EndOfClip
  <2>1. frames \in Seq(Reported) /\ frames' = frames /\ backend' = backend /\ phase' = "link"
    BY <1>2 DEF EndOfClip, MergeInv
  <2> QED
    BY <1>2, <2>1, LinkStarts DEF MergeInv
<1>3. CASE LinkTrack
  <2>1. frames \in Seq(Reported) /\ LinkInv /\ frames' = frames /\ backend' = backend /\ phase' = phase
    BY <1>3 DEF LinkTrack, MergeInv
  <2> QED
    BY <1>3, <2>1, LinkKeeps DEF MergeInv
<1>4. CASE TrackClipRaises
  BY <1>4 DEF TrackClipRaises, MergeInv
<1>5. CASE RenameTracks \/ Scan \/ EmitEvents
  BY <1>5 DEF RenameTracks, Scan, EmitEvents, MergeInv
<1>6. CASE Ingest
  BY <1>6 DEF Ingest, SaveScore, MergeInv
<1>7. CASE UNCHANGED scoringVars
  BY <1>7 DEF scoringVars, vars, MergeInv, LinkInv
<1> QED
  BY <1>1, <1>2, <1>3, <1>4, <1>5, <1>6, <1>7 DEF ScoringNext, Extract, Next

(* A fragment ends with the name of its best predecessor, which is that of the *)
(* first of its chain, for any clip, views, gaps and thresholds.               *)
THEOREM FragmentsNamed == ScoringSpec => []FragmentsFollowPredecessors
<1>1. MergeInv => FragmentsFollowPredecessors
  <2> SUFFICES ASSUME MergeInv, phase = "link", k > Cardinality(DOMAIN parent), NEW t \in DOMAIN parent
               PROVE  LET stats == [u \in DOMAIN parent |-> Stats(frames, u)]
                          p == Predecessor(stats, t, SinglePerson(frames))
                      IN /\ Find(parent, t) = Find(parent, p)
                         /\ p # t => stats[Find(parent, t)].first < stats[t].first
                         /\ p = t => Find(parent, t) = t
    BY Zenon DEF FragmentsFollowPredecessors
  <2> DEFINE D == PersonIds(frames)
             m == FirstOf(frames)
  <2>1. frames \in Seq(Reported) /\ LinkInv
    BY DEF MergeInv
  <2>2. parent \in [D -> D] /\ Downhill(parent, m) /\ k \in Nat /\ DOMAIN parent = D
    BY <2>1 DEF LinkInv
  <2>3. PICK p : p = BestBefore(frames, t)
    OBVIOUS
  <2>4. /\ m \in [D -> 0..Len(frames)] /\ Len(frames) \in Nat /\ Cardinality(D) \in Nat
        /\ Place(StatsOf(frames), t) \in 1..Cardinality(D)
        /\ p \in D /\ (p = t \/ m[p] < m[t])
    BY <2>1, <2>2, <2>3, CandidateFacts
  <2>5. Find(parent, t) = Find(parent, p) /\ (p = t => parent[t] = t)
    <3>1. Place(StatsOf(frames), t) < k
      BY <2>2, <2>4
    <3> QED
      BY <2>1, <2>2, <2>3, <3>1 DEF LinkInv
  <2>6. \A u \in D : [v \in DOMAIN parent |-> Stats(frames, v)][u].first = m[u]
    BY <2>2 DEF FirstOf
  <2>7. p = Predecessor([v \in DOMAIN parent |-> Stats(frames, v)], t, SinglePerson(frames))
    <3>1. [v \in DOMAIN parent |-> Stats(frames, v)] = StatsOf(frames)
      BY <2>2 DEF StatsOf
    <3> QED
      BY <2>3, <3>1 DEF BestBefore
  <2> HIDE DEF D, m
  <2>8. Find(parent, p) \in D /\ m[Find(parent, p)] <= m[p]
    BY <2>2, <2>4, FindRoot
  <2>9. p # t => m[Find(parent, t)] < m[t]
    <3>1. ASSUME p # t PROVE m[Find(parent, t)] < m[t]
      <4>1. m[Find(parent, p)] \in Nat /\ m[p] \in Nat /\ m[t] \in Nat /\ m[p] < m[t]
        BY <2>2, <2>4, <2>8, <3>1
      <4> QED
        BY <2>5, <2>8, <4>1
    <3> QED
      BY <3>1
  <2>10. p = t => Find(parent, t) = t
    <3>1. PICK n \in Nat : n = Len(frames)
      BY <2>4
    <3>2. PICK f : f = parent
      OBVIOUS
    <3>3. m \in [D -> 0..n] /\ f \in [D -> D] /\ Downhill(f, m) /\ t \in D
      BY <2>2, <2>4, <3>1, <3>2
    <3>4. Find(f, t) = IF f[t] = t THEN t ELSE Find(f, f[t])
      BY <3>3, FindClimbs
    <3> QED
      BY <2>5, <3>2, <3>4
  <2>11. p # t => [v \in DOMAIN parent |-> Stats(frames, v)][Find(parent, t)].first
                   < [v \in DOMAIN parent |-> Stats(frames, v)][t].first
    BY <2>2, <2>5, <2>6, <2>8, <2>9
  <2> QED
    BY <2>5, <2>7, <2>10, <2>11
<1> QED
  BY <1>1, InitMergeInv, StepMergeInv, PTL DEF ScoringSpec

-----------------------------------------------------------------------------
(* Selections: the loops that keep the elements of a list that pass a test.    *)

(* The j-th place of a set of places is in it.                                 *)
LEMMA NthSpec ==
  ASSUME NEW n \in Nat, NEW K \in SUBSET (1..n), NEW j \in 1..Cardinality(K)
  PROVE  Nth(K, j) \in K /\ Cardinality({h \in K : h <= Nth(K, j)}) = j
<1>1. \E i \in K : Cardinality({h \in K : h <= i}) = j
  BY NthIsThere
<1> QED
  BY <1>1 DEF Nth

LEMMA PlacesFinite ==
  ASSUME NEW n \in Nat, NEW K \in SUBSET (1..n)
  PROVE  IsFiniteSet(K) /\ Cardinality(K) \in Nat /\ Cardinality(K) <= n
<1>1. IsFiniteSet(1..n) /\ Cardinality(1..n) = n
  BY FS_Interval
<1> QED
  BY <1>1, FS_Subset, FS_CardinalityType

(* Every place of the set is its j-th for some j: how many are up to it.       *)
LEMMA NthOf ==
  ASSUME NEW n \in Nat, NEW K \in SUBSET (1..n), NEW i \in K
  PROVE  \E j \in 1..Cardinality(K) : Nth(K, j) = i
<1> DEFINE Up(x) == {h \in K : h <= x}
<1>1. \A x \in K : /\ IsFiniteSet(Up(x)) /\ Cardinality(Up(x)) \in Nat
                   /\ Cardinality(Up(x)) <= Cardinality(K)
  <2> TAKE x \in K
  <2>1. IsFiniteSet(K) /\ Up(x) \in SUBSET K
    BY PlacesFinite
  <2> HIDE DEF Up
  <2> QED
    BY <2>1, FS_Subset, FS_CardinalityType
<1>2. ASSUME NEW x \in K, NEW y \in K, x < y PROVE Cardinality(Up(x)) # Cardinality(Up(y))
  <2>1. Up(x) \in SUBSET Up(y) /\ y \in Up(y) /\ y \notin Up(x)
    <3>1. \A h \in K : h \in Int
      OBVIOUS
    <3>2. \A h \in K : h <= x => h <= y
      BY <1>2, <3>1
    <3>3. y <= y /\ ~ (y <= x)
      BY <1>2, <3>1
    <3> QED
      BY <3>2, <3>3
  <2> HIDE DEF Up
  <2> QED
    BY <1>1, <2>1, FS_Subset
<1>3. PICK j : j = Cardinality(Up(i))
  OBVIOUS
<1>4. j \in 1..Cardinality(K)
  <2>1. Up(i) # {}
    OBVIOUS
  <2>2. Cardinality(Up(i)) # 0
    BY <1>1, <2>1, FS_EmptySet
  <2>3. Cardinality(K) \in Nat
    BY PlacesFinite
  <2> HIDE DEF Up
  <2> QED
    BY <1>1, <1>3, <2>2, <2>3
<1>5. Nth(K, j) \in K /\ Cardinality(Up(Nth(K, j))) = j
  BY <1>4, NthSpec
<1>6. Nth(K, j) = i
  <2>1. \A x \in K : x \in Int
    OBVIOUS
  <2>2. PICK x \in K : x = Nth(K, j) /\ Cardinality(Up(x)) = Cardinality(Up(i))
    BY <1>3, <1>5
  <2> HIDE DEF Up
  <2>3. ~ (x < i) /\ ~ (i < x)
    BY <1>2, <2>2
  <2> QED
    BY <2>1, <2>2, <2>3
<1> QED
  BY <1>4, <1>6

(* What a selection holds: the elements at the places of K and nothing else.   *)
LEMMA PickFacts ==
  ASSUME NEW s, NEW n \in Nat, NEW K \in SUBSET (1..n)
  PROVE  /\ Pick(s, K) \in Seq(ToSet(Pick(s, K)))
         /\ Len(Pick(s, K)) = Cardinality(K) /\ Cardinality(K) \in Nat /\ Cardinality(K) <= n
         /\ \A j \in 1..Cardinality(K) : Nth(K, j) \in K /\ Pick(s, K)[j] = s[Nth(K, j)]
         /\ ToSet(Pick(s, K)) = {s[i] : i \in K}
         /\ Pick(s, K) = <<>> <=> K = {}
<1>1. IsFiniteSet(K) /\ Cardinality(K) \in Nat /\ Cardinality(K) <= n
  BY PlacesFinite
<1>2. PICK p : p = Pick(s, K)
  OBVIOUS
<1>3. PICK c \in Nat : c = Cardinality(K)
  BY <1>1
<1>4. p = [j \in 1..c |-> s[Nth(K, j)]]
  BY <1>2, <1>3 DEF Pick
<1>5. \A j \in 1..c : Nth(K, j) \in K
  BY <1>3, NthSpec
<1>6. p \in Seq(ToSet(p)) /\ Len(p) = c
  <2>1. p \in [1..c -> ToSet(p)]
    BY <1>4 DEF ToSet
  <2> QED
    BY <2>1
<1>7. ToSet(p) = {s[i] : i \in K}
  <2>1. \A i \in K : \E j \in 1..c : Nth(K, j) = i
    BY <1>3, NthOf
  <2>2. ToSet(p) \subseteq {s[i] : i \in K}
    BY <1>4, <1>5 DEF ToSet
  <2>3. ASSUME NEW i \in K PROVE s[i] \in ToSet(p)
    <3>1. PICK j \in 1..c : Nth(K, j) = i
      BY <2>1
    <3>2. p[j] = s[i] /\ j \in DOMAIN p
      BY <1>4, <3>1
    <3> QED
      BY <3>2 DEF ToSet
  <2> QED
    BY <2>2, <2>3
<1>8. p = <<>> <=> K = {}
  <2>1. p = <<>> <=> c = 0
    BY <1>6
  <2>2. c = 0 <=> K = {}
    BY <1>1, <1>3, FS_EmptySet
  <2> QED
    BY <2>1, <2>2
<1> QED
  BY <1>1, <1>2, <1>3, <1>4, <1>5, <1>6, <1>7, <1>8

-----------------------------------------------------------------------------
(* The zones around a point, and who stands nearest.                           *)
ZoneIds == {z.id : z \in ToSet(Zones)}
IdsAt(p, T) == {z.id : z \in {y \in ToSet(ZonesAt(p)) : y.type \in T}}

LEMMA ZonesTyped ==
  /\ Len(Zones) \in Nat /\ DOMAIN Zones = 1..Len(Zones)
  /\ \A z \in ToSet(Zones) : z.id \in Nat /\ z.id # 0
<1>1. Zones \in Seq(ToSet(Zones)) /\ \A i \in DOMAIN Zones : Zones[i].id \in Nat \ {0}
  BY ZonesAssumption
<1>2. ASSUME NEW z \in ToSet(Zones) PROVE z.id \in Nat /\ z.id # 0
  BY <1>1 DEF ToSet
<1> QED
  BY <1>1, <1>2

(* The zones around a point are zones of the camera.                           *)
LEMMA ZonesAtFacts ==
  ASSUME NEW p
  PROVE  ZonesAt(p) \in Seq(ToSet(ZonesAt(p))) /\ ToSet(ZonesAt(p)) \subseteq ToSet(Zones)
<1> DEFINE K == {i \in DOMAIN Zones : PointInPolygon(p, Zones[i].polygon)}
<1>1. ZonesAt(p) = Pick(Zones, K)
  BY DEF ZonesAt, ZonesContaining
<1>2. K \in SUBSET (1..Len(Zones)) /\ K \subseteq DOMAIN Zones /\ Len(Zones) \in Nat
  BY ZonesTyped
<1> HIDE DEF K
<1>3. Pick(Zones, K) \in Seq(ToSet(Pick(Zones, K))) /\ ToSet(Pick(Zones, K)) = {Zones[i] : i \in K}
  BY <1>2, PickFacts
<1>4. {Zones[i] : i \in K} \subseteq ToSet(Zones)
  BY <1>2 DEF ToSet
<1> QED
  BY <1>1, <1>3, <1>4

(* Those of some types.                                                        *)
LEMMA OfTypesFacts ==
  ASSUME NEW zs, zs \in Seq(ToSet(zs)), NEW T
  PROVE  /\ OfTypes(zs, T) \in Seq(ToSet(OfTypes(zs, T)))
         /\ ToSet(OfTypes(zs, T)) = {z \in ToSet(zs) : z.type \in T}
<1> DEFINE K == {i \in DOMAIN zs : zs[i].type \in T}
<1>1. OfTypes(zs, T) = Pick(zs, K)
  BY DEF OfTypes
<1>2. K \in SUBSET (1..Len(zs)) /\ Len(zs) \in Nat
  OBVIOUS
<1>3. {zs[i] : i \in K} = {z \in ToSet(zs) : z.type \in T}
  BY DEF ToSet
<1> HIDE DEF K
<1>4. Pick(zs, K) \in Seq(ToSet(Pick(zs, K))) /\ ToSet(Pick(zs, K)) = {zs[i] : i \in K}
  BY <1>2, PickFacts
<1> QED
  BY <1>1, <1>3, <1>4

(* The first and the last id are 0 when there is no zone, else one of the ids. *)
LEMMA EndIds ==
  ASSUME NEW zs, zs \in Seq(ToSet(zs)), \A z \in ToSet(zs) : z.id # 0
  PROVE  /\ FirstId(zs) = 0 <=> zs = <<>>
         /\ LastId(zs) = 0 <=> zs = <<>>
         /\ zs # <<>> => \E z \in ToSet(zs) : z.id = FirstId(zs)
         /\ zs # <<>> => \E z \in ToSet(zs) : z.id = LastId(zs)
<1>1. CASE zs = <<>>
  BY <1>1 DEF FirstId, LastId
<1>2. CASE zs # <<>>
  <2>1. Len(zs) \in Nat /\ Len(zs) # 0 /\ DOMAIN zs = 1..Len(zs)
    BY <1>2
  <2>2. 1 \in DOMAIN zs /\ Len(zs) \in DOMAIN zs
    BY <2>1
  <2>3. zs[1] \in ToSet(zs) /\ zs[Len(zs)] \in ToSet(zs)
    BY <2>2 DEF ToSet
  <2>4. FirstId(zs) = zs[1].id /\ LastId(zs) = zs[Len(zs)].id
    BY <1>2 DEF FirstId, LastId
  <2> QED
    BY <1>2, <2>3, <2>4
<1> QED
  BY <1>1, <1>2

LEMMA IdsAtFacts ==
  ASSUME NEW p, NEW T
  PROVE  IdsAt(p, T) \subseteq ZoneIds /\ 0 \notin IdsAt(p, T)
<1>1. ToSet(ZonesAt(p)) \subseteq ToSet(Zones)
  BY ZonesAtFacts
<1> QED
  BY <1>1, ZonesTyped DEF IdsAt, ZoneIds

(* What the loop asks of the zones around a detection.                         *)
LEMMA ShelfFacts ==
  ASSUME NEW p, NEW T, NEW zs, zs = OfTypes(ZonesAt(p), T)
  PROVE  /\ FirstId(zs) = 0 <=> zs = <<>>
         /\ LastId(zs) = 0 <=> zs = <<>>
         /\ zs = <<>> <=> IdsAt(p, T) = {}
         /\ zs # <<>> => FirstId(zs) \in IdsAt(p, T) /\ LastId(zs) \in IdsAt(p, T)
<1>1. /\ zs \in Seq(ToSet(zs))
      /\ ToSet(zs) = {z \in ToSet(ZonesAt(p)) : z.type \in T}
  BY ZonesAtFacts, OfTypesFacts
<1>2. \A z \in ToSet(zs) : z.id # 0
  BY <1>1, ZonesAtFacts, ZonesTyped
<1>3. IdsAt(p, T) = {z.id : z \in ToSet(zs)}
  BY <1>1 DEF IdsAt
<1>4. zs = <<>> <=> ToSet(zs) = {}
  <2>1. zs = <<>> <=> Len(zs) = 0
    BY <1>1
  <2>2. Len(zs) = 0 <=> DOMAIN zs = {}
    BY <1>1
  <2> QED
    BY <2>1, <2>2 DEF ToSet
<1>5. /\ FirstId(zs) = 0 <=> zs = <<>>
      /\ LastId(zs) = 0 <=> zs = <<>>
      /\ zs # <<>> => \E z \in ToSet(zs) : z.id = FirstId(zs)
      /\ zs # <<>> => \E z \in ToSet(zs) : z.id = LastId(zs)
  BY <1>1, <1>2, EndIds
<1> QED
  BY <1>3, <1>4, <1>5

(* The nearest person is a tracked person of the frame, if there is any.       *)
LEMMA NearestIsThere ==
  ASSUME NEW p \in Square, NEW f, TypedFrame(f)
  PROVE  \/ Tracked(f) = {} /\ NearestPerson(p, f) = 0
         \/ \E i \in Tracked(f) : NearestPerson(p, f) = f[i].track
<1>1. PICK n \in Nat : DOMAIN f = 1..n /\ \A j \in 1..n : f[j].at \in Square
  BY DEF TypedFrame, TypedDet
<1>2. PICK K : K = Tracked(f)
  OBVIOUS
<1>3. K \in SUBSET (1..n)
  BY <1>1, <1>2 DEF Tracked
<1>4. PICK g : g = [i \in K |-> Distance(p, f[i].at)]
  OBVIOUS
<1>5. \A i \in K : g[i] \in Nat
  <2> TAKE i \in K
  <2>1. f[i].at \in Square
    BY <1>1, <1>3
  <2>2. Distance(p, f[i].at) \in 0..150
    BY <2>1, DistanceTyped
  <2> QED
    BY <1>4, <2>2
<1> DEFINE near == {i \in K : \A j \in K : g[i] <= g[j]}
<1>6. NearestPerson(p, f) = IF K = {} THEN 0 ELSE f[Min(near)].track
  <2>1. near = {i \in Tracked(f) : \A j \in Tracked(f) :
                    Distance(p, f[i].at) <= Distance(p, f[j].at)}
    BY <1>2, <1>4
  <2> HIDE DEF near
  <2> QED
    BY <1>2, <2>1 DEF NearestPerson
<1>7. CASE K # {}
  <2>1. PICK D : D = {g[i] : i \in K}
    OBVIOUS
  <2>2. PICK m \in D : \A x \in D : m <= x
    BY <1>5, <1>7, <2>1, Least
  <2>3. near # {} /\ near \in SUBSET Nat /\ near \subseteq K
    <3>1. PICK i \in K : m = g[i]
      BY <2>1
    <3>2. \A j \in K : g[i] <= g[j]
      BY <2>1, <2>2, <3>1
    <3>3. i \in near
      BY <3>2
    <3>4. \A x \in K : x \in Nat
      BY <1>3
    <3> QED
      BY <3>3, <3>4
  <2> HIDE DEF near
  <2>4. Min(near) \in near
    BY <2>3, MinIsLeast
  <2> QED
    BY <1>2, <1>6, <1>7, <2>3, <2>4
<1> QED
  BY <1>2, <1>6, <1>7

-----------------------------------------------------------------------------
(* The clip in every phase: frames of typed detections, whose persons have     *)
(* names that the tracker gave, also after they have been renamed.             *)
TypedClip(fs) == fs \in Seq(ToSet(fs)) /\ \A i \in DOMAIN fs : TypedFrame(fs[i])

ClipInv ==
    /\ phase \in {"track", "link", "scan", "done", "failed", "scored", "unscored"}
    /\ TypedClip(frames) /\ Len(frames) <= MaxFrames
    /\ \A t \in DOMAIN parent : t \in Ids /\ parent[t] \in DOMAIN parent
    /\ k \in Nat /\ (phase = "link" => k \in 1..(Cardinality(DOMAIN parent) + 1))
    /\ phase \in {"scan", "done", "scored", "unscored"} => k \in 1..(Len(frames) + 1)

LEMMA ReportedClip ==
  ASSUME NEW fs \in Seq(Reported)
  PROVE  TypedClip(fs)
<1>1. fs \in Seq(ToSet(fs))
  <2>1. fs \in [1..Len(fs) -> ToSet(fs)] /\ Len(fs) \in Nat
    BY DEF ToSet
  <2> QED
    BY <2>1
<1>2. \A i \in DOMAIN fs : TypedFrame(fs[i])
  BY ReportedTyped
<1> QED
  BY <1>1, <1>2 DEF TypedClip

(* A track of the clip has a name of the tracker.                              *)
LEMMA PersonIdsAreIds ==
  ASSUME NEW fs, TypedClip(fs), NEW t \in PersonIds(fs)
  PROVE  t \in Ids
<1>1. PICK i \in DOMAIN fs : \E d \in ToSet(fs[i]) : IsTracked(d) /\ d.track = t
  <2>1. PICK d \in UNION {ToSet(f) : f \in ToSet(fs)} : IsTracked(d) /\ d.track = t
    BY DEF PersonIds
  <2> QED
    BY <2>1 DEF ToSet
<1>2. PICK j \in DOMAIN fs[i] : IsTracked(fs[i][j]) /\ fs[i][j].track = t
  BY <1>1 DEF ToSet
<1>3. TypedDet(fs[i][j])
  BY DEF TypedClip, TypedFrame
<1> QED
  BY <1>2, <1>3 DEF TypedDet, IsTracked

(* Renaming the tracks keeps everything else, and the names are still names.   *)
LEMMA RelabelTyped ==
  ASSUME NEW f, TypedFrame(f), NEW p,
         \A j \in DOMAIN f : IsTracked(f[j]) => Find(p, f[j].track) \in Ids \cap Int
  PROVE  TypedFrame(Relabel(f, p))
<1>1. PICK n \in Nat : DOMAIN f = 1..n /\ \A j \in 1..n : TypedDet(f[j])
  BY DEF TypedFrame
<1>2. PICK g : g = Relabel(f, p)
  OBVIOUS
<1>3. g = [j \in 1..n |-> IF IsTracked(f[j]) THEN [f[j] EXCEPT !.track = Find(p, f[j].track)] ELSE f[j]]
  BY <1>1, <1>2 DEF Relabel
<1>4. ASSUME NEW j \in 1..n PROVE TypedDet(g[j])
  <2>1. CASE ~ IsTracked(f[j])
    <3>1. g[j] = f[j]
      BY <1>3, <2>1
    <3> QED
      BY <1>1, <3>1
  <2>2. CASE IsTracked(f[j])
    <3>1. PICK d : d = f[j]
      OBVIOUS
    <3>2. PICK t : t = Find(p, f[j].track)
      OBVIOUS
    <3>3. t \in Ids /\ t \in Int
      BY <1>1, <2>2, <3>2
    <3>4. g[j] = [d EXCEPT !.track = t]
      BY <1>3, <2>2, <3>1, <3>2
    <3>5. TypedDet(d)
      BY <1>1, <3>1
    <3>6. g[j].cue = d.cue /\ g[j].at = d.at /\ g[j].conf = d.conf /\ (g[j].track = t \/ g[j].track = d.track)
      BY <3>4
    <3> QED
      BY <3>3, <3>5, <3>6 DEF TypedDet
  <2> QED
    BY <2>1, <2>2
<1>5. DOMAIN g = 1..n
  BY <1>3
<1>6. g \in Seq(ToSet(g))
  <2>1. g \in [1..n -> ToSet(g)]
    BY <1>3 DEF ToSet
  <2> QED
    BY <1>1, <2>1
<1> QED
  BY <1>1, <1>2, <1>4, <1>5, <1>6 DEF TypedFrame

LEMMA RenamedTyped ==
  ASSUME frames \in Seq(Reported), LinkInv
  PROVE  LET fs == [i \in DOMAIN frames |-> Relabel(frames[i], parent)]
         IN TypedClip(fs) /\ Len(fs) = Len(frames)
<1>1. PICK fs : fs = [i \in DOMAIN frames |-> Relabel(frames[i], parent)]
  OBVIOUS
<1>2. PICK D : D = PersonIds(frames)
  OBVIOUS
<1>3. PICK f : f = parent
  OBVIOUS
<1>4. PICK m : m = FirstOf(frames)
  OBVIOUS
<1>5. PICK n \in Nat : n = Len(frames)
  OBVIOUS
<1>6. m \in [D -> 0..n] /\ f \in [D -> D] /\ Downhill(f, m)
  BY <1>2, <1>3, <1>4, <1>5, CandidateFacts DEF LinkInv
<1>7. TypedClip(frames)
  BY ReportedClip
<1>8. \A t \in D : Find(f, t) \in D
  <2> TAKE t \in D
  <2> QED
    BY <1>6, FindRoot
<1>9. D \subseteq Ids \cap Int
  <2> SUFFICES ASSUME NEW t \in D PROVE t \in Ids /\ t \in Int
    OBVIOUS
  <2>1. t \in PersonIds(frames)
    BY <1>2
  <2>2. t \in Ids
    BY <1>7, <2>1, PersonIdsAreIds
  <2>3. t \in Nat
    BY <2>1, StatsTyped
  <2> QED
    BY <2>2, <2>3
<1>10. ASSUME NEW i \in 1..n PROVE TypedFrame(fs[i])
  <2>1. i \in DOMAIN frames /\ fs[i] = Relabel(frames[i], f)
    BY <1>1, <1>3, <1>5
  <2>2. TypedFrame(frames[i])
    BY <1>7, <2>1 DEF TypedClip
  <2>3. ASSUME NEW j \in DOMAIN frames[i], IsTracked(frames[i][j])
        PROVE  Find(f, frames[i][j].track) \in Ids \cap Int
    <3>1. frames[i] \in ToSet(frames) /\ frames[i][j] \in ToSet(frames[i])
      BY <2>1 DEF ToSet
    <3>2. frames[i][j].track \in D
      BY <1>2, <2>3, <3>1 DEF PersonIds
    <3> QED
      BY <1>8, <1>9, <3>2
  <2>4. TypedFrame(Relabel(frames[i], f))
    BY <2>2, <2>3, RelabelTyped
  <2> QED
    BY <2>1, <2>4
<1>11. DOMAIN fs = 1..n
  BY <1>1, <1>5
<1>12. fs \in Seq(ToSet(fs)) /\ Len(fs) = n
  <2>1. fs \in [1..n -> ToSet(fs)]
    BY <1>1, <1>11 DEF ToSet
  <2> QED
    BY <2>1
<1> QED
  BY <1>1, <1>5, <1>10, <1>11, <1>12 DEF TypedClip

LEMMA InitClipInv == ScoringInit => ClipInv
<1> SUFFICES ASSUME ScoringInit PROVE ClipInv
  OBVIOUS
<1>1. phase = "track" /\ k = 0 /\ frames = <<>> /\ parent = <<>>
  BY DEF ScoringInit, Init
<1>2. Len(frames) = 0 /\ DOMAIN frames = {} /\ DOMAIN parent = {} /\ frames \in Seq(ToSet(frames))
  BY <1>1
<1>3. Len(frames) <= MaxFrames
  BY <1>2, ClipAssumption
<1> QED
  BY <1>1, <1>2, <1>3 DEF ClipInv, TypedClip

LEMMA StepClipInv == MergeInv /\ ClipInv /\ [ScoringNext]_scoringVars => ClipInv'
<1> SUFFICES ASSUME MergeInv, ClipInv, [ScoringNext]_scoringVars PROVE ClipInv'
  OBVIOUS
<1>1. CASE TrackFrame
  <2>1. PICK v \in Views : frames' = Append(frames, Detections(v, backend))
    BY <1>1 DEF TrackFrame
  <2>2. /\ phase' = phase /\ phase = "track" /\ parent' = parent /\ k' = k
        /\ Len(frames) < MaxFrames /\ frames \in Seq(Reported)
    BY <1>1 DEF TrackFrame, MergeInv
  <2>3. frames' \in Seq(Reported) /\ Len(frames') = Len(frames) + 1
    <3>1. Detections(v, backend) \in Reported
      BY DEF MergeInv, Reported
    <3> QED
      BY <2>1, <2>2, <3>1
  <2>4. TypedClip(frames')
    BY <2>3, ReportedClip
  <2>5. Len(frames') <= MaxFrames
    BY <2>2, <2>3, ClipAssumption
  <2> QED
    BY <2>2, <2>4, <2>5 DEF ClipInv
<1>2. CASE EndOfClip
  <2>1. /\ frames' = frames /\ k' = 1 /\ phase' = "link" /\ frames \in Seq(Reported)
        /\ parent' = [t \in PersonIds(frames) |-> t]
    BY <1>2 DEF EndOfClip, MergeInv
  <2>2. Cardinality(DOMAIN parent') \in Nat
    BY <2>1, PersonIdsFinite, FS_CardinalityType
  <2>3. \A t \in DOMAIN parent' : t \in Ids /\ parent'[t] \in DOMAIN parent'
    BY <2>1, PersonIdsAreIds DEF ClipInv
  <2> QED
    BY <2>1, <2>2, <2>3 DEF ClipInv
<1>3. CASE LinkTrack
  <2>1. /\ frames' = frames /\ k' = k + 1 /\ phase' = "link" /\ phase = "link"
        /\ k <= Cardinality(DOMAIN parent) /\ k \in Nat
    BY <1>3 DEF LinkTrack, ClipInv
  <2>2. frames \in Seq(Reported) /\ LinkInv /\ parent \in [PersonIds(frames) -> PersonIds(frames)]
    BY <2>1 DEF MergeInv, LinkInv
  <2>3. parent' \in [PersonIds(frames) -> PersonIds(frames)]
    BY <1>3, <2>1, <2>2, LinkKeeps DEF LinkInv
  <2>4. \A t \in DOMAIN parent' : t \in Ids /\ parent'[t] \in DOMAIN parent'
    BY <2>2, <2>3, PersonIdsAreIds DEF ClipInv
  <2>5. DOMAIN parent' = DOMAIN parent /\ Cardinality(DOMAIN parent) \in Nat
    BY <2>2, <2>3, PersonIdsFinite, FS_CardinalityType
  <2>6. k' \in 1..(Cardinality(DOMAIN parent') + 1)
    BY <2>1, <2>5
  <2> QED
    BY <2>1, <2>4, <2>6 DEF ClipInv
<1>4. CASE RenameTracks
  <2>1. /\ frames' = [i \in DOMAIN frames |-> Relabel(frames[i], parent)]
        /\ phase' = "scan" /\ k' = 1 /\ parent' = parent /\ phase = "link"
    BY <1>4 DEF RenameTracks
  <2>2. frames \in Seq(Reported) /\ LinkInv
    BY <2>1 DEF MergeInv
  <2>3. TypedClip(frames') /\ Len(frames') = Len(frames)
    BY <2>1, <2>2, RenamedTyped
  <2>4. Len(frames) \in Nat
    BY <2>2
  <2> QED
    BY <2>1, <2>3, <2>4 DEF ClipInv
<1>5. CASE Scan
  <2>1. /\ frames' = frames /\ k' = k + 1 /\ phase' = phase /\ parent' = parent /\ phase = "scan"
        /\ k <= Len(frames) /\ k \in Nat
    BY <1>5 DEF Scan, ClipInv
  <2>2. Len(frames) \in Nat
    BY DEF ClipInv, TypedClip
  <2> QED
    BY <2>1, <2>2 DEF ClipInv
<1>6. CASE EmitEvents
  BY <1>6 DEF EmitEvents, ClipInv
<1>7. CASE TrackClipRaises
  BY <1>7 DEF TrackClipRaises, ClipInv
<1>8. CASE Ingest
  BY <1>8 DEF Ingest, SaveScore, ClipInv
<1>9. CASE UNCHANGED scoringVars
  BY <1>9 DEF scoringVars, vars, ClipInv
<1> QED
  BY <1>1, <1>2, <1>3, <1>4, <1>5, <1>6, <1>7, <1>8, <1>9 DEF ScoringNext, Extract, Next

-----------------------------------------------------------------------------
(* What each accumulator says of the detections that have been seen, a set H   *)
(* of places <<frame, place>>: how many, the extreme ones, and a witness for   *)
(* the zone and the track that it keeps.                                       *)
At(fs, q)       == fs[q[1]][q[2]]
Hits(fs, Q, c)  == {q \in Q : At(fs, q).cue = c}
ShelfHit(fs, q) == IdsAt(At(fs, q).at, ShelfLike) # {}
Somebody(fs, t) == t = 0 \/ t \in PersonIds(fs)

SignalInv(sig, fs, H) ==
    /\ sig.n = Cardinality(H) /\ sig.conf \in Nat /\ sig.last \in Nat
    /\ \A q \in H : ShelfHit(fs, q) =>
         /\ At(fs, q).conf <= sig.conf
         /\ At(fs, q).conf = sig.conf => q[1] <= sig.last
    /\ \/ /\ sig.conf = 0 /\ sig.last = 0 /\ sig.zone = 0
          /\ \A q \in H : ~ ShelfHit(fs, q)
       \/ \E q \in H : /\ At(fs, q).conf = sig.conf /\ q[1] = sig.last
                       /\ sig.zone \in IdsAt(At(fs, q).at, ShelfLike)
    /\ Somebody(fs, sig.track)

HandlingInv(h, fs, H) ==
    /\ \A q \in H : ShelfHit(fs, q) => h.first <= q[1]
    /\ \/ h.first = 0 /\ h.zone = 0 /\ \A q \in H : ~ ShelfHit(fs, q)
       \/ \E q \in H : h.first = q[1] /\ h.zone \in IdsAt(At(fs, q).at, ShelfLike)
    /\ Somebody(fs, h.track)

ConcealInv(c, fs, H) ==
    /\ c.n = Cardinality(H)
    /\ c.zone = 0 \/ \E q \in H : c.zone \in IdsAt(At(fs, q).at, ShelfLike)
    /\ Somebody(fs, c.track)

HvInv(hv, fs, H) ==
    /\ hv.cues \subseteq {"person", "bag", "product"}
    /\ \/ hv.zone = 0 /\ hv.track = 0
       \/ \E q \in H : /\ hv.zone \in IdsAt(At(fs, q).at, {"HighValue"})
                       /\ hv.track = At(fs, q).track

EntryOf(e, fs, q) ==
    e.track = At(fs, q).track /\ e.frame = q[1] /\ e.zones = ZonesAt(At(fs, q).at)
LineInv(line, fs, H) ==
    /\ line \in Seq(ToSet(line)) /\ Len(line) = Cardinality(H)
    /\ \A e \in ToSet(line) : \E q \in H : EntryOf(e, fs, q)
    /\ \A q \in H : \E e \in ToSet(line) : EntryOf(e, fs, q)

(* The detection at place <<i, j>> comes after those of H.                     *)
Upto(fs, H, i) ==
    \A q \in H : q[1] \in DOMAIN fs /\ q[2] \in DOMAIN fs[q[1]] /\ q[1] <= i
Adds(fs, H, H2, i, j) ==
    /\ TypedClip(fs) /\ i \in DOMAIN fs /\ j \in DOMAIN fs[i]
    /\ IsFiniteSet(H) /\ Upto(fs, H, i)
    /\ <<i, j>> \notin H /\ H2 = H \cup {<<i, j>>}

LEMMA AddsFacts ==
  ASSUME NEW fs, NEW H, NEW H2, NEW i, NEW j, Adds(fs, H, H2, i, j)
  PROVE  /\ Cardinality(H) \in Nat /\ Cardinality(H2) = Cardinality(H) + 1
         /\ i \in Nat /\ i # 0 /\ \A q \in H : q[1] \in Nat /\ q[1] # 0 /\ q[1] <= i
         /\ TypedFrame(fs[i]) /\ TypedDet(fs[i][j])
         /\ \A q \in H : TypedDet(At(fs, q))
         /\ \A q \in H2 : q \in H \/ (q = <<i, j>> /\ q[1] = i /\ At(fs, q) = fs[i][j])
         /\ <<i, j>> \in H2 /\ At(fs, <<i, j>>) = fs[i][j] /\ \A q \in H : q \in H2
<1>1. Cardinality(H) \in Nat /\ Cardinality(H2) = Cardinality(H) + 1
  BY FS_CardinalityType, FS_AddElement DEF Adds
<1>2. DOMAIN fs = 1..Len(fs) /\ Len(fs) \in Nat
  BY DEF Adds, TypedClip
<1>3. \A x \in DOMAIN fs : TypedFrame(fs[x])
  BY DEF Adds, TypedClip
<1>4. \A x \in DOMAIN fs : \A y \in DOMAIN fs[x] : TypedDet(fs[x][y])
  BY <1>3 DEF TypedFrame
<1> QED
  BY <1>1, <1>2, <1>3, <1>4 DEF Adds, Upto, At

(* Whoever is found nearest is a person of the clip.                           *)
LEMMA NearestKnown ==
  ASSUME NEW fs, TypedClip(fs), NEW i \in DOMAIN fs, NEW p \in Square
  PROVE  Somebody(fs, NearestPerson(p, fs[i]))
<1>1. PICK f : f = fs[i]
  OBVIOUS
<1>2. TypedFrame(f)
  BY <1>1 DEF TypedClip
<1>3. \/ Tracked(f) = {} /\ NearestPerson(p, f) = 0
      \/ \E x \in Tracked(f) : NearestPerson(p, f) = f[x].track
  BY <1>2, NearestIsThere
<1>4. ASSUME NEW x \in Tracked(f) PROVE f[x].track \in PersonIds(fs)
  <2>1. f \in ToSet(fs) /\ f[x] \in ToSet(f) /\ IsTracked(f[x])
    BY <1>1 DEF ToSet, Tracked
  <2> QED
    BY <2>1 DEF PersonIds
<1> QED
  BY <1>1, <1>3, <1>4 DEF Somebody

LEMMA OrKnown ==
  ASSUME NEW fs, NEW t, NEW u, Somebody(fs, t), Somebody(fs, u)
  PROVE  Somebody(fs, Or(t, u))
BY DEF Or, Somebody

(* SeeBag: the most confident sighting at a shelf, the last of equals.         *)
LEMMA SeeBagKeeps ==
  ASSUME NEW fs, NEW H, NEW H2, NEW i, NEW j, Adds(fs, H, H2, i, j),
         NEW sig, SignalInv(sig, fs, H), NEW shelf, NEW d, d = fs[i][j],
         shelf = OfTypes(ZonesAt(d.at), ShelfLike)
  PROVE  SignalInv(SeeBag(sig, i, fs[i], d, shelf), fs, H2)
<1>1. PICK s : s = SeeBag(sig, i, fs[i], d, shelf)
  OBVIOUS
<1>2. /\ Cardinality(H) \in Nat /\ Cardinality(H2) = Cardinality(H) + 1
      /\ i \in Nat /\ i # 0 /\ \A q \in H : q[1] \in Nat /\ q[1] # 0 /\ q[1] <= i
      /\ TypedFrame(fs[i]) /\ TypedDet(d) /\ \A q \in H : TypedDet(At(fs, q))
      /\ \A q \in H2 : q \in H \/ (q = <<i, j>> /\ q[1] = i /\ At(fs, q) = d)
      /\ <<i, j>> \in H2 /\ At(fs, <<i, j>>) = d /\ \A q \in H : q \in H2
  BY AddsFacts
<1>3. /\ shelf = <<>> <=> IdsAt(d.at, ShelfLike) = {}
      /\ shelf # <<>> => LastId(shelf) \in IdsAt(d.at, ShelfLike)
  BY ShelfFacts
<1>4. Somebody(fs, Or(NearestPerson(d.at, fs[i]), sig.track))
  <2>1. Somebody(fs, NearestPerson(d.at, fs[i]))
    BY <1>2, NearestKnown DEF Adds, TypedDet
  <2> QED
    BY <2>1, OrKnown DEF SignalInv
<1>5. d.conf \in Nat /\ \A q \in H : At(fs, q).conf \in Nat
  BY <1>2 DEF TypedDet
<1>6. CASE shelf # <<>> /\ d.conf >= sig.conf
  <2>1. /\ s.n = sig.n + 1 /\ s.zone = LastId(shelf) /\ s.conf = d.conf /\ s.last = i
        /\ s.track = Or(NearestPerson(d.at, fs[i]), sig.track)
    BY <1>1, <1>6 DEF SeeBag
  <2>2. s.n = Cardinality(H2) /\ s.conf \in Nat /\ s.last \in Nat
    BY <1>2, <1>5, <2>1 DEF SignalInv
  <2>3. ASSUME NEW q \in H2, ShelfHit(fs, q)
        PROVE  At(fs, q).conf <= s.conf /\ (At(fs, q).conf = s.conf => q[1] <= s.last)
    <3>1. CASE q \in H
      <4>1. At(fs, q).conf <= sig.conf /\ sig.conf \in Nat
        BY <2>3, <3>1 DEF SignalInv
      <4> QED
        BY <1>2, <1>5, <1>6, <2>1, <3>1, <4>1
    <3>2. CASE q \notin H
      BY <1>2, <1>5, <2>1, <3>2
    <3> QED
      BY <3>1, <3>2
  <2>4. \E q \in H2 : /\ At(fs, q).conf = s.conf /\ q[1] = s.last
                      /\ s.zone \in IdsAt(At(fs, q).at, ShelfLike)
    <3>1. <<i, j>>[1] = i
      OBVIOUS
    <3> QED
      BY <1>2, <1>3, <1>6, <2>1, <3>1
  <2> QED
    BY <1>1, <1>4, <2>1, <2>2, <2>3, <2>4 DEF SignalInv
<1>7. CASE ~ (shelf # <<>> /\ d.conf >= sig.conf)
  <2>1. /\ s.n = sig.n + 1 /\ s.zone = sig.zone /\ s.conf = sig.conf /\ s.last = sig.last
        /\ s.track = sig.track
    BY <1>1, <1>7 DEF SeeBag
  <2>2. s.n = Cardinality(H2) /\ s.conf \in Nat /\ s.last \in Nat
    BY <1>2, <2>1 DEF SignalInv
  <2>3. ASSUME NEW q \in H2, ShelfHit(fs, q)
        PROVE  At(fs, q).conf <= s.conf /\ (At(fs, q).conf = s.conf => q[1] <= s.last)
    <3>1. CASE q \in H
      BY <2>1, <2>3, <3>1 DEF SignalInv
    <3>2. CASE q \notin H
      <4>1. shelf # <<>> /\ At(fs, q) = d
        BY <1>2, <1>3, <2>3, <3>2 DEF ShelfHit
      <4>2. sig.conf \in Nat
        BY DEF SignalInv
      <4> QED
        BY <1>5, <1>7, <2>1, <4>1, <4>2
    <3> QED
      BY <3>1, <3>2
  <2>4. \/ /\ s.conf = 0 /\ s.last = 0 /\ s.zone = 0
           /\ \A q \in H2 : ~ ShelfHit(fs, q)
        \/ \E q \in H2 : /\ At(fs, q).conf = s.conf /\ q[1] = s.last
                         /\ s.zone \in IdsAt(At(fs, q).at, ShelfLike)
    <3>1. CASE /\ sig.conf = 0 /\ sig.last = 0 /\ sig.zone = 0
               /\ \A q \in H : ~ ShelfHit(fs, q)
      <4>1. shelf = <<>>
        BY <1>5, <1>7, <3>1
      <4>2. \A q \in H2 : ~ ShelfHit(fs, q)
        BY <1>2, <1>3, <3>1, <4>1 DEF ShelfHit
      <4> QED
        BY <2>1, <3>1, <4>2
    <3>2. CASE \E q \in H : /\ At(fs, q).conf = sig.conf /\ q[1] = sig.last
                            /\ sig.zone \in IdsAt(At(fs, q).at, ShelfLike)
      BY <1>2, <2>1, <3>2
    <3> QED
      BY <3>1, <3>2 DEF SignalInv
  <2> QED
    BY <1>1, <2>1, <2>2, <2>3, <2>4 DEF SignalInv
<1> QED
  BY <1>6, <1>7

(* SeeHandling: frame and zone are those of the first product at a shelf.      *)
LEMMA SeeHandlingKeeps ==
  ASSUME NEW fs, NEW H, NEW H2, NEW i, NEW j, Adds(fs, H, H2, i, j),
         NEW h, HandlingInv(h, fs, H), NEW shelf, NEW d, d = fs[i][j],
         shelf = OfTypes(ZonesAt(d.at), ShelfLike)
  PROVE  HandlingInv(SeeHandling(h, i, fs[i], d, shelf), fs, H2)
<1>1. PICK s : s = SeeHandling(h, i, fs[i], d, shelf)
  OBVIOUS
<1>2. /\ i \in Nat /\ i # 0 /\ \A q \in H : q[1] \in Nat /\ q[1] # 0 /\ q[1] <= i
      /\ TypedFrame(fs[i]) /\ TypedDet(d)
      /\ \A q \in H2 : q \in H \/ (q = <<i, j>> /\ q[1] = i /\ At(fs, q) = d)
      /\ <<i, j>> \in H2 /\ At(fs, <<i, j>>) = d /\ \A q \in H : q \in H2
  BY AddsFacts
<1>3. /\ shelf = <<>> <=> IdsAt(d.at, ShelfLike) = {}
      /\ shelf # <<>> => FirstId(shelf) \in IdsAt(d.at, ShelfLike)
      /\ FirstId(shelf) = 0 <=> shelf = <<>>
  BY ShelfFacts
<1>4. Somebody(fs, Or(h.track, NearestPerson(d.at, fs[i])))
  <2>1. Somebody(fs, NearestPerson(d.at, fs[i]))
    BY <1>2, NearestKnown DEF Adds, TypedDet
  <2> QED
    BY <2>1, OrKnown DEF HandlingInv
<1>5. \A q \in H : \A id \in IdsAt(At(fs, q).at, ShelfLike) : id # 0
  BY IdsAtFacts
<1>6. CASE shelf = <<>>
  <2>1. s = h
    BY <1>1, <1>6 DEF SeeHandling
  <2>2. \A q \in H2 : ShelfHit(fs, q) => q \in H
    BY <1>2, <1>3, <1>6 DEF ShelfHit
  <2> QED
    BY <1>1, <1>2, <2>1, <2>2 DEF HandlingInv
<1>7. CASE shelf # <<>>
  <2>1. /\ s.zone = Or(h.zone, FirstId(shelf)) /\ s.first = Or(h.first, i)
        /\ s.track = Or(h.track, NearestPerson(d.at, fs[i]))
    BY <1>1, <1>7 DEF SeeHandling
  <2>2. CASE h.first = 0 /\ h.zone = 0 /\ \A q \in H : ~ ShelfHit(fs, q)
    <3>1. s.first = i /\ s.zone \in IdsAt(d.at, ShelfLike)
      BY <1>3, <1>7, <2>1, <2>2 DEF Or
    <3>2. \A q \in H2 : ShelfHit(fs, q) => s.first <= q[1]
      BY <1>2, <2>2, <3>1
    <3>3. \E q \in H2 : s.first = q[1] /\ s.zone \in IdsAt(At(fs, q).at, ShelfLike)
      <4>1. <<i, j>>[1] = i
        OBVIOUS
      <4> QED
        BY <1>2, <3>1, <4>1
    <3> QED
      BY <1>1, <1>4, <2>1, <3>2, <3>3 DEF HandlingInv
  <2>3. CASE \E q \in H : h.first = q[1] /\ h.zone \in IdsAt(At(fs, q).at, ShelfLike)
    <3>1. PICK q \in H : h.first = q[1] /\ h.zone \in IdsAt(At(fs, q).at, ShelfLike)
      BY <2>3
    <3>2. s.first = h.first /\ s.zone = h.zone /\ h.first <= i
      BY <1>2, <1>5, <2>1, <3>1 DEF Or
    <3>3. \A r \in H2 : ShelfHit(fs, r) => s.first <= r[1]
      BY <1>2, <3>2 DEF HandlingInv
    <3>4. \E r \in H2 : s.first = r[1] /\ s.zone \in IdsAt(At(fs, r).at, ShelfLike)
      BY <1>2, <3>1, <3>2
    <3> QED
      BY <1>1, <1>4, <2>1, <3>3, <3>4 DEF HandlingInv
  <2> QED
    BY <2>2, <2>3 DEF HandlingInv
<1> QED
  BY <1>6, <1>7

(* SeeConceal: all sightings are counted, the first known zone is kept.        *)
LEMMA SeeConcealKeeps ==
  ASSUME NEW fs, NEW H, NEW H2, NEW i, NEW j, Adds(fs, H, H2, i, j),
         NEW c, ConcealInv(c, fs, H), NEW shelf, NEW inHv, NEW d, d = fs[i][j],
         shelf = OfTypes(ZonesAt(d.at), ShelfLike)
  PROVE  ConcealInv(SeeConceal(c, fs[i], d, shelf, inHv), fs, H2)
<1>1. PICK s : s = SeeConceal(c, fs[i], d, shelf, inHv)
  OBVIOUS
<1>2. /\ Cardinality(H2) = Cardinality(H) + 1 /\ TypedDet(d)
      /\ <<i, j>> \in H2 /\ At(fs, <<i, j>>) = d /\ \A q \in H : q \in H2
  BY AddsFacts
<1>3. /\ shelf # <<>> => FirstId(shelf) \in IdsAt(d.at, ShelfLike)
      /\ FirstId(shelf) = 0 <=> shelf = <<>>
  BY ShelfFacts
<1>4. Somebody(fs, Or(c.track, NearestPerson(d.at, fs[i])))
  <2>1. Somebody(fs, NearestPerson(d.at, fs[i]))
    BY <1>2, NearestKnown DEF Adds, TypedDet
  <2> QED
    BY <2>1, OrKnown DEF ConcealInv
<1>5. /\ s.n = c.n + 1 /\ s.zone = Or(c.zone, FirstId(shelf))
      /\ s.track = Or(c.track, NearestPerson(d.at, fs[i]))
  BY <1>1 DEF SeeConceal
<1>6. s.zone = 0 \/ \E q \in H2 : s.zone \in IdsAt(At(fs, q).at, ShelfLike)
  <2>1. CASE c.zone = 0
    <3>1. s.zone = FirstId(shelf)
      BY <1>5, <2>1 DEF Or
    <3> QED
      BY <1>2, <1>3, <3>1
  <2>2. CASE c.zone # 0
    <3>1. s.zone = c.zone
      BY <1>5, <2>2 DEF Or
    <3> QED
      BY <1>2, <2>2, <3>1 DEF ConcealInv
  <2> QED
    BY <2>1, <2>2
<1> QED
  BY <1>1, <1>2, <1>4, <1>5, <1>6 DEF ConcealInv

(* A person that is seen joins the line.                                       *)
LEMMA SeeLineKeeps ==
  ASSUME NEW fs, NEW H, NEW H2, NEW i, NEW j, Adds(fs, H, H2, i, j),
         NEW line, LineInv(line, fs, H), NEW e, EntryOf(e, fs, <<i, j>>)
  PROVE  LineInv(Append(line, e), fs, H2)
<1>1. PICK s : s = Append(line, e)
  OBVIOUS
<1>2. /\ Cardinality(H2) = Cardinality(H) + 1
      /\ \A q \in H2 : q \in H \/ q = <<i, j>>
      /\ <<i, j>> \in H2 /\ \A q \in H : q \in H2
  BY AddsFacts
<1>3. line \in Seq(ToSet(line)) /\ Len(line) = Cardinality(H)
  BY DEF LineInv
<1>4. Len(s) = Len(line) + 1 /\ DOMAIN s = 1..(Len(line) + 1) /\ Len(line) \in Nat
      /\ (\A x \in DOMAIN line : s[x] = line[x] /\ x \in DOMAIN s) /\ s[Len(line) + 1] = e
  BY <1>1, <1>3
<1>5. ToSet(s) = ToSet(line) \cup {e}
  <2>1. DOMAIN s = DOMAIN line \cup {Len(line) + 1}
    BY <1>3, <1>4
  <2> QED
    BY <1>4, <2>1 DEF ToSet
<1>6. s \in Seq(ToSet(s))
  <2>1. s \in [1..(Len(line) + 1) -> ToSet(s)]
    <3>1. s \in Seq(ToSet(line) \cup {e})
      BY <1>1, <1>3
    <3> QED
      BY <1>4, <1>5, <3>1
  <2> QED
    BY <1>4, <2>1
<1>7. \A x \in ToSet(s) : \E q \in H2 : EntryOf(x, fs, q)
  <2>1. \A x \in ToSet(line) : \E q \in H : EntryOf(x, fs, q)
    BY DEF LineInv
  <2> QED
    BY <1>2, <1>5, <2>1
<1>8. \A q \in H2 : \E x \in ToSet(s) : EntryOf(x, fs, q)
  <2>1. \A q \in H : \E x \in ToSet(line) : EntryOf(x, fs, q)
    BY DEF LineInv
  <2> QED
    BY <1>2, <1>5, <2>1
<1>9. Len(s) = Cardinality(H2)
  BY <1>2, <1>3, <1>4
<1> QED
  BY <1>1, <1>6, <1>7, <1>8, <1>9 DEF LineInv

(* The tracker counts from 1, and has -1 for none.                             *)
LEMMA IdsNotZero == 0 \notin Ids /\ Ids \subseteq Int
<1>1. \A v \in Views : \A box \in ToSet(v.boxes) : box.id \in Nat \ {0}
  BY ViewsAssumption
<1> QED
  BY <1>1 DEF Ids

(* A person in a high-value zone leaves zone and track together.               *)
LEMMA SeeHvKeeps ==
  ASSUME NEW fs, NEW H, NEW H2, NEW i, NEW j, Adds(fs, H, H2, i, j),
         \A q \in H : At(fs, q).cue = "person",
         NEW h, HvInv(h, fs, H), NEW hv, NEW d, d = fs[i][j], d.cue = "person",
         hv = FirstId(OfTypes(ZonesAt(d.at), {"HighValue"}))
  PROVE  HvInv(SeeHv(h, d, hv), fs, H2)
<1>1. PICK s : s = SeeHv(h, d, hv)
  OBVIOUS
<1>2. /\ TypedDet(d) /\ \A q \in H : TypedDet(At(fs, q))
      /\ <<i, j>> \in H2 /\ At(fs, <<i, j>>) = d /\ \A q \in H : q \in H2
  BY AddsFacts
<1>3. hv # 0 => hv \in IdsAt(d.at, {"HighValue"})
  <2>1. PICK zs : zs = OfTypes(ZonesAt(d.at), {"HighValue"})
    OBVIOUS
  <2>2. /\ zs # <<>> => FirstId(zs) \in IdsAt(d.at, {"HighValue"})
        /\ FirstId(zs) = 0 <=> zs = <<>>
    BY <2>1, ShelfFacts
  <2> QED
    BY <2>1, <2>2
<1>4. CASE hv = 0
  BY <1>1, <1>2, <1>4 DEF SeeHv, HvInv
<1>5. CASE hv # 0
  <2>1. /\ s.cues = h.cues \cup {"person"} /\ s.zone = Or(h.zone, hv)
        /\ s.track = Or(h.track, d.track)
    BY <1>1, <1>5 DEF SeeHv
  <2>2. s.cues \subseteq {"person", "bag", "product"}
    BY <2>1 DEF HvInv
  <2>3. CASE h.zone = 0 /\ h.track = 0
    BY <1>1, <1>2, <1>3, <1>5, <2>1, <2>2, <2>3 DEF Or, HvInv
  <2>4. CASE \E q \in H : /\ h.zone \in IdsAt(At(fs, q).at, {"HighValue"})
                          /\ h.track = At(fs, q).track
    <3>1. PICK q \in H : /\ h.zone \in IdsAt(At(fs, q).at, {"HighValue"})
                         /\ h.track = At(fs, q).track
      BY <2>4
    <3>2. h.zone # 0
      BY <3>1, IdsAtFacts
    <3>3. s.zone = h.zone
      BY <2>1, <3>2 DEF Or
    <3>4. h.track # 0
      BY <1>2, <3>1, IdsNotZero DEF TypedDet
    <3> QED
      BY <1>1, <1>2, <2>1, <2>2, <3>1, <3>3, <3>4 DEF HvInv, Or
  <2> QED
    BY <2>3, <2>4 DEF HvInv
<1> QED
  BY <1>4, <1>5

(* Nothing else leaves its zone and track there.                               *)
LEMMA SeeHvOther ==
  ASSUME NEW fs, NEW H, NEW h, HvInv(h, fs, H), NEW hv, NEW d, d.cue # "person"
  PROVE  HvInv(SeeHv(h, d, hv), fs, H)
<1>1. PICK s : s = SeeHv(h, d, hv)
  OBVIOUS
<1>2. /\ s.cues \subseteq h.cues \cup {"product", "bag"}
      /\ s.zone = h.zone /\ s.track = h.track
  BY <1>1 DEF SeeHv
<1> QED
  BY <1>1, <1>2 DEF HvInv

(* All accumulators that go from detection to detection.                       *)
Evidence(a, fs, Q) ==
    /\ IsFiniteSet(Q)
    /\ LineInv(a.line, fs, Hits(fs, Q, "person"))
    /\ SignalInv(a.openBag, fs, Hits(fs, Q, "open_bag"))
    /\ SignalInv(a.bag, fs, Hits(fs, Q, "bag"))
    /\ HandlingInv(a.handling, fs, Hits(fs, Q, "product_in_hand"))
    /\ ConcealInv(a.conceal, fs, Hits(fs, Q, "concealment"))
    /\ HvInv(a.hv, fs, Hits(fs, Q, "person"))

(* What goes from frame to frame is left alone by a detection.                 *)
Shaped(a) ==
    /\ DOMAIN a = {"line", "openBag", "bag", "handling", "conceal", "hv", "group"}
    /\ DOMAIN a.handling = {"episodes", "before", "zone", "track", "first"}
SameFrame(a, b) ==
    /\ Shaped(b) /\ b.group = a.group
    /\ b.handling.episodes = a.handling.episodes /\ b.handling.before = a.handling.before

LEMMA HitsAdd ==
  ASSUME NEW fs, NEW Q, NEW Q2, NEW i, NEW j, Adds(fs, Q, Q2, i, j), NEW c
  PROVE  /\ fs[i][j].cue = c => Adds(fs, Hits(fs, Q, c), Hits(fs, Q2, c), i, j)
         /\ fs[i][j].cue # c => Hits(fs, Q2, c) = Hits(fs, Q, c)
<1>1. At(fs, <<i, j>>) = fs[i][j]
  BY DEF At
<1>2. Q2 = Q \cup {<<i, j>>} /\ <<i, j>> \notin Q /\ IsFiniteSet(Q)
  BY DEF Adds
<1>3. Hits(fs, Q, c) \in SUBSET Q
  BY DEF Hits
<1>4. IsFiniteSet(Hits(fs, Q, c))
  BY <1>2, <1>3, FS_Subset
<1>5. fs[i][j].cue = c => Hits(fs, Q2, c) = Hits(fs, Q, c) \cup {<<i, j>>}
  BY <1>1, <1>2 DEF Hits
<1>6. fs[i][j].cue # c => Hits(fs, Q2, c) = Hits(fs, Q, c)
  BY <1>1, <1>2 DEF Hits
<1>7. Upto(fs, Hits(fs, Q, c), i)
  BY <1>3 DEF Adds, Upto
<1> QED
  BY <1>2, <1>3, <1>4, <1>5, <1>6, <1>7 DEF Adds

(* One detection.                                                              *)
LEMMA SeeKeeps ==
  ASSUME NEW fs, NEW Q, NEW Q2, NEW i, NEW j, Adds(fs, Q, Q2, i, j),
         NEW a, Evidence(a, fs, Q), Shaped(a)
  PROVE  /\ Evidence(See(a, i, fs[i], fs[i][j]), fs, Q2)
         /\ SameFrame(a, See(a, i, fs[i], fs[i][j]))
<1>1. PICK d : d = fs[i][j]
  OBVIOUS
<1>2. PICK b : b = See(a, i, fs[i], d)
  OBVIOUS
<1>3. PICK in : in = ZonesAt(d.at)
  OBVIOUS
<1>4. PICK shelf : shelf = OfTypes(in, ShelfLike)
  OBVIOUS
<1>5. PICK hv : hv = FirstId(OfTypes(in, {"HighValue"}))
  OBVIOUS
<1>6. PICK e : e = [track |-> d.track, frame |-> i, zones |-> in, look |-> d.look]
  OBVIOUS
<1>7. b = [line     |-> IF d.cue = "person" THEN Append(a.line, e) ELSE a.line,
           openBag  |-> IF d.cue = "open_bag" THEN SeeBag(a.openBag, i, fs[i], d, shelf) ELSE a.openBag,
           bag      |-> IF d.cue = "bag" THEN SeeBag(a.bag, i, fs[i], d, shelf) ELSE a.bag,
           handling |-> IF d.cue = "product_in_hand" THEN SeeHandling(a.handling, i, fs[i], d, shelf)
                        ELSE a.handling,
           conceal  |-> IF d.cue = "concealment" THEN SeeConceal(a.conceal, fs[i], d, shelf, hv # 0)
                        ELSE a.conceal,
           hv       |-> SeeHv(a.hv, d, hv),
           group    |-> a.group]
  BY <1>2, <1>3, <1>4, <1>5, <1>6, Zenon DEF See
<1>8. IsFiniteSet(Q2)
  BY FS_AddElement DEF Adds
<1>9. LineInv(b.line, fs, Hits(fs, Q2, "person"))
  <2>1. CASE d.cue = "person"
    <3>1. EntryOf(e, fs, <<i, j>>)
      BY <1>1, <1>3, <1>6 DEF EntryOf, At
    <3>2. Adds(fs, Hits(fs, Q, "person"), Hits(fs, Q2, "person"), i, j)
      BY <1>1, <2>1, HitsAdd
    <3>3. LineInv(a.line, fs, Hits(fs, Q, "person"))
      BY DEF Evidence
    <3>4. b.line = Append(a.line, e)
      BY <1>7, <2>1
    <3> QED
      BY <3>1, <3>2, <3>3, <3>4, SeeLineKeeps
  <2>2. CASE d.cue # "person"
    <3>1. Hits(fs, Q2, "person") = Hits(fs, Q, "person") /\ b.line = a.line
      BY <1>1, <1>7, <2>2, HitsAdd
    <3> QED
      BY <3>1 DEF Evidence
  <2> QED
    BY <2>1, <2>2
<1>10. ASSUME NEW c \in {"open_bag", "bag"}, NEW sig, NEW sig2, SignalInv(sig, fs, Hits(fs, Q, c)),
              sig2 = IF d.cue = c THEN SeeBag(sig, i, fs[i], d, shelf) ELSE sig
       PROVE  SignalInv(sig2, fs, Hits(fs, Q2, c))
  <2>1. CASE d.cue = c
    <3>1. Adds(fs, Hits(fs, Q, c), Hits(fs, Q2, c), i, j)
      BY <1>1, <2>1, HitsAdd
    <3>2. SignalInv(SeeBag(sig, i, fs[i], d, shelf), fs, Hits(fs, Q2, c))
      BY <1>1, <1>3, <1>4, <1>10, <3>1, SeeBagKeeps
    <3> QED
      BY <1>10, <2>1, <3>2
  <2>2. CASE d.cue # c
    <3>1. Hits(fs, Q2, c) = Hits(fs, Q, c)
      BY <1>1, <2>2, HitsAdd
    <3> QED
      BY <1>10, <2>2, <3>1
  <2> QED
    BY <2>1, <2>2
<1>11. SignalInv(b.openBag, fs, Hits(fs, Q2, "open_bag"))
  <2>1. b.openBag = IF d.cue = "open_bag" THEN SeeBag(a.openBag, i, fs[i], d, shelf) ELSE a.openBag
    BY <1>7
  <2>2. SignalInv(a.openBag, fs, Hits(fs, Q, "open_bag"))
    BY DEF Evidence
  <2> QED
    BY <1>10, <2>1, <2>2
<1>12. SignalInv(b.bag, fs, Hits(fs, Q2, "bag"))
  <2>1. b.bag = IF d.cue = "bag" THEN SeeBag(a.bag, i, fs[i], d, shelf) ELSE a.bag
    BY <1>7
  <2>2. SignalInv(a.bag, fs, Hits(fs, Q, "bag"))
    BY DEF Evidence
  <2> QED
    BY <1>10, <2>1, <2>2
<1>13. /\ HandlingInv(b.handling, fs, Hits(fs, Q2, "product_in_hand"))
       /\ DOMAIN b.handling = {"episodes", "before", "zone", "track", "first"}
       /\ b.handling.episodes = a.handling.episodes /\ b.handling.before = a.handling.before
  <2>1. HandlingInv(a.handling, fs, Hits(fs, Q, "product_in_hand"))
    BY DEF Evidence
  <2>2. CASE d.cue = "product_in_hand"
    <3>1. Adds(fs, Hits(fs, Q, "product_in_hand"), Hits(fs, Q2, "product_in_hand"), i, j)
      BY <1>1, <2>2, HitsAdd
    <3>2. HandlingInv(SeeHandling(a.handling, i, fs[i], d, shelf), fs, Hits(fs, Q2, "product_in_hand"))
      BY <1>1, <1>3, <1>4, <2>1, <3>1, SeeHandlingKeeps
    <3>3. b.handling = SeeHandling(a.handling, i, fs[i], d, shelf)
      BY <1>7, <2>2
    <3>4. PICK h : h = a.handling
      OBVIOUS
    <3>5. PICK g : g = SeeHandling(h, i, fs[i], d, shelf)
      OBVIOUS
    <3>6. DOMAIN h = {"episodes", "before", "zone", "track", "first"}
      BY <3>4 DEF Shaped
    <3>7. g.episodes = h.episodes /\ g.before = h.before /\ DOMAIN g = DOMAIN h
      BY <3>5, <3>6 DEF SeeHandling
    <3> QED
      BY <3>2, <3>3, <3>4, <3>5, <3>6, <3>7
  <2>3. CASE d.cue # "product_in_hand"
    <3>1. Hits(fs, Q2, "product_in_hand") = Hits(fs, Q, "product_in_hand") /\ b.handling = a.handling
      BY <1>1, <1>7, <2>3, HitsAdd
    <3> QED
      BY <2>1, <3>1 DEF Shaped
  <2> QED
    BY <2>2, <2>3
<1>14. ConcealInv(b.conceal, fs, Hits(fs, Q2, "concealment"))
  <2>1. ConcealInv(a.conceal, fs, Hits(fs, Q, "concealment"))
    BY DEF Evidence
  <2>2. CASE d.cue = "concealment"
    <3>1. Adds(fs, Hits(fs, Q, "concealment"), Hits(fs, Q2, "concealment"), i, j)
      BY <1>1, <2>2, HitsAdd
    <3>2. PICK inHv : inHv = (hv # 0)
      OBVIOUS
    <3>3. ConcealInv(SeeConceal(a.conceal, fs[i], d, shelf, inHv), fs, Hits(fs, Q2, "concealment"))
      BY <1>1, <1>3, <1>4, <2>1, <3>1, SeeConcealKeeps
    <3>4. b.conceal = SeeConceal(a.conceal, fs[i], d, shelf, inHv)
      BY <1>7, <2>2, <3>2
    <3> QED
      BY <3>3, <3>4
  <2>3. CASE d.cue # "concealment"
    <3>1. Hits(fs, Q2, "concealment") = Hits(fs, Q, "concealment") /\ b.conceal = a.conceal
      BY <1>1, <1>7, <2>3, HitsAdd
    <3> QED
      BY <2>1, <3>1
  <2> QED
    BY <2>2, <2>3
<1>15. HvInv(b.hv, fs, Hits(fs, Q2, "person"))
  <2>1. HvInv(a.hv, fs, Hits(fs, Q, "person")) /\ b.hv = SeeHv(a.hv, d, hv)
    BY <1>7 DEF Evidence
  <2>2. CASE d.cue = "person"
    <3>1. Adds(fs, Hits(fs, Q, "person"), Hits(fs, Q2, "person"), i, j)
      BY <1>1, <2>2, HitsAdd
    <3>2. \A q \in Hits(fs, Q, "person") : At(fs, q).cue = "person"
      BY DEF Hits
    <3> QED
      BY <1>1, <1>3, <1>5, <2>1, <2>2, <3>1, <3>2, SeeHvKeeps
  <2>3. CASE d.cue # "person"
    <3>1. Hits(fs, Q2, "person") = Hits(fs, Q, "person")
      BY <1>1, <2>3, HitsAdd
    <3> QED
      BY <2>1, <2>3, <3>1, SeeHvOther
  <2> QED
    BY <2>2, <2>3
<1>16. DOMAIN b = {"line", "openBag", "bag", "handling", "conceal", "hv", "group"} /\ b.group = a.group
  BY <1>7
<1> QED
  BY <1>1, <1>2, <1>8, <1>9, <1>11, <1>12, <1>13, <1>14, <1>15, <1>16
  DEF Evidence, SameFrame, Shaped

-----------------------------------------------------------------------------
(* One frame: the loop over its detections, and its end.                       *)
Seeing(s, a, i, f, n) == s = [j \in 0..n |-> IF j = 0 THEN a ELSE See(s[j - 1], i, f, f[j])]

(* The loop has a result after every number of rounds.                         *)
LEMMA SeenExists ==
  ASSUME NEW a, NEW i, NEW f, NEW n \in Nat
  PROVE  \E s : Seeing(s, a, i, f, n)
<1> DEFINE S == {m \in Nat : \E s : Seeing(s, a, i, f, m)}
<1>1. 0 \in S
  <2>1. PICK s : s = [j \in 0..0 |-> a]
    OBVIOUS
  <2>2. s = [j \in 0..0 |-> IF j = 0 THEN a ELSE See(s[j - 1], i, f, f[j])]
    BY <2>1
  <2> QED
    BY <2>2 DEF Seeing
<1>2. ASSUME NEW m \in Nat, m \in S PROVE m + 1 \in S
  <2>1. PICK s : Seeing(s, a, i, f, m)
    BY <1>2
  <2>2. PICK x : x = See(s[m], i, f, f[m + 1])
    OBVIOUS
  <2>3. PICK t : t = [j \in 0..(m + 1) |-> IF j <= m THEN s[j] ELSE x]
    OBVIOUS
  <2>4. DOMAIN s = 0..m /\ \A j \in 0..m : s[j] = IF j = 0 THEN a ELSE See(s[j - 1], i, f, f[j])
    BY <2>1 DEF Seeing
  <2>5. ASSUME NEW j \in 0..(m + 1) PROVE t[j] = IF j = 0 THEN a ELSE See(t[j - 1], i, f, f[j])
    <3>1. CASE j = 0
      BY <2>3, <2>4, <3>1
    <3>2. CASE j # 0 /\ j <= m
      <4>1. t[j] = s[j] /\ t[j - 1] = s[j - 1]
        BY <2>3, <3>2
      <4> QED
        BY <2>4, <3>2, <4>1
    <3>3. CASE j # 0 /\ ~ (j <= m)
      <4>1. j = m + 1 /\ j - 1 = m
        BY <3>3
      <4>2. t[j] = x /\ t[j - 1] = s[m]
        BY <2>3, <4>1
      <4> QED
        BY <2>2, <3>3, <4>1, <4>2
    <3> QED
      BY <3>1, <3>2, <3>3
  <2>6. t = [j \in 0..(m + 1) |-> IF j = 0 THEN a ELSE See(t[j - 1], i, f, f[j])]
    BY <2>3, <2>5
  <2> QED
    BY <2>6 DEF Seeing
<1> HIDE DEF S
<1>3. Nat \subseteq S
  BY <1>1, <1>2, Inductive
<1> QED
  BY <1>3 DEF S

LEMMA ScanSees ==
  ASSUME NEW a, NEW i, NEW n \in Nat, n = Len(frames[i])
  PROVE  \E s : Seeing(s, a, i, frames[i], n) /\ ScanFrame(a, i) = EndFrame(s[n], frames[i])
<1>1. PICK f : f = frames[i]
  OBVIOUS
<1>2. PICK s : s = CHOOSE r : r = [j \in 0..Len(frames[i]) |->
                      IF j = 0 THEN a ELSE See(r[j - 1], i, frames[i], frames[i][j])]
  OBVIOUS
<1>3. ScanFrame(a, i) = EndFrame(s[Len(frames[i])], frames[i])
  BY <1>2 DEF ScanFrame
<1>4. PICK r : Seeing(r, a, i, f, n)
  BY SeenExists
<1>5. r = [j \in 0..Len(frames[i]) |-> IF j = 0 THEN a ELSE See(r[j - 1], i, frames[i], frames[i][j])]
  BY <1>1, <1>4 DEF Seeing
<1>6. s = [j \in 0..Len(frames[i]) |-> IF j = 0 THEN a ELSE See(s[j - 1], i, frames[i], frames[i][j])]
  BY <1>2, <1>5
<1> QED
  BY <1>3, <1>6 DEF Seeing

(* The places up to the j-th of frame i.                                       *)
Places(fs, i, j) ==
    {q \in (DOMAIN fs) \X Nat : \/ q[1] < i /\ q[2] \in DOMAIN fs[q[1]]
                                \/ q[1] = i /\ q[2] \in 1..j}

LEMMA PlacesGrow ==
  ASSUME NEW fs, TypedClip(fs), NEW i \in DOMAIN fs, NEW n \in Nat, DOMAIN fs[i] = 1..n,
         NEW j \in Nat, j < n, IsFiniteSet(Places(fs, i, j))
  PROVE  Adds(fs, Places(fs, i, j), Places(fs, i, j + 1), i, j + 1)
<1>1. DOMAIN fs = 1..Len(fs) /\ Len(fs) \in Nat /\ i \in Nat
  BY DEF TypedClip
<1>2. PICK Q : Q = Places(fs, i, j)
  OBVIOUS
<1>3. PICK D : D = DOMAIN fs
  OBVIOUS
<1>4. Upto(fs, Q, i)
  <2> SUFFICES ASSUME NEW q \in Q
               PROVE  q[1] \in DOMAIN fs /\ q[2] \in DOMAIN fs[q[1]] /\ q[1] <= i
    BY DEF Upto
  <2>1. /\ q[1] \in D /\ q[2] \in Nat
        /\ (q[1] < i /\ q[2] \in DOMAIN fs[q[1]]) \/ (q[1] = i /\ q[2] \in 1..j)
    BY <1>2, <1>3 DEF Places
  <2>2. q[1] \in Nat
    BY <1>1, <1>3, <2>1
  <2> QED
    BY <1>1, <1>3, <2>1, <2>2
<1>5. <<i, j + 1>> \notin Q
  <2>1. ~ (i < i) /\ ~ (j + 1 \in 1..j)
    BY <1>1
  <2> QED
    BY <1>2, <2>1 DEF Places
<1>6. Places(fs, i, j + 1) = Q \cup {<<i, j + 1>>}
  <2>1. 1..(j + 1) = (1..j) \cup {j + 1} /\ i \in D /\ j + 1 \in Nat
    BY <1>3
  <2>2. ASSUME NEW q PROVE q \in Places(fs, i, j + 1) <=> q \in Q \/ q = <<i, j + 1>>
    <3>1. q \in D \X Nat => (q = <<i, j + 1>> <=> q[1] = i /\ q[2] = j + 1)
      OBVIOUS
    <3>2. q = <<i, j + 1>> => q \in D \X Nat
      BY <2>1
    <3> QED
      BY <1>2, <1>3, <2>1, <3>1, <3>2 DEF Places
  <2> QED
    BY <2>2
<1> QED
  BY <1>2, <1>4, <1>5, <1>6 DEF Adds

LEMMA PlacesNext ==
  ASSUME NEW fs, TypedClip(fs), NEW i \in DOMAIN fs, NEW n \in Nat, DOMAIN fs[i] = 1..n
  PROVE  Places(fs, i + 1, 0) = Places(fs, i, n)
<1>1. \A x \in DOMAIN fs : x \in Nat
  BY DEF TypedClip
<1>2. \A x \in DOMAIN fs : x < i + 1 <=> x < i \/ x = i
  BY <1>1
<1> QED
  BY <1>2 DEF Places

(* After all detections of a frame.                                            *)
LEMMA FrameSeen ==
  ASSUME NEW fs, TypedClip(fs), NEW i \in DOMAIN fs, NEW n \in Nat, DOMAIN fs[i] = 1..n,
         NEW a, Evidence(a, fs, Places(fs, i, 0)), Shaped(a), NEW s, Seeing(s, a, i, fs[i], n)
  PROVE  Evidence(s[n], fs, Places(fs, i, n)) /\ SameFrame(a, s[n])
<1>1. \A j \in 0..n : s[j] = IF j = 0 THEN a ELSE See(s[j - 1], i, fs[i], fs[i][j])
  BY DEF Seeing
<1> DEFINE S == {j \in Nat : j <= n => Evidence(s[j], fs, Places(fs, i, j)) /\ SameFrame(a, s[j])}
<1>2. 0 \in S
  <2>1. s[0] = a
    BY <1>1
  <2> QED
    BY <2>1 DEF SameFrame
<1>3. ASSUME NEW j \in Nat, j \in S PROVE j + 1 \in S
  <2> SUFFICES ASSUME j + 1 <= n
               PROVE  Evidence(s[j + 1], fs, Places(fs, i, j + 1)) /\ SameFrame(a, s[j + 1])
    OBVIOUS
  <2>1. Evidence(s[j], fs, Places(fs, i, j)) /\ SameFrame(a, s[j])
    BY <1>3
  <2>2. s[j + 1] = See(s[j], i, fs[i], fs[i][j + 1])
    BY <1>1
  <2>3. Adds(fs, Places(fs, i, j), Places(fs, i, j + 1), i, j + 1)
    BY <2>1, PlacesGrow DEF Evidence
  <2>4. PICK b : b = s[j]
    OBVIOUS
  <2>5. Evidence(b, fs, Places(fs, i, j)) /\ Shaped(b)
    BY <2>1, <2>4 DEF SameFrame
  <2>6. PICK y : y = j + 1
    OBVIOUS
  <2>7. Adds(fs, Places(fs, i, j), Places(fs, i, y), i, y)
    BY <2>3, <2>6
  <2>8. /\ Evidence(See(b, i, fs[i], fs[i][y]), fs, Places(fs, i, y))
        /\ SameFrame(b, See(b, i, fs[i], fs[i][y]))
    BY <2>5, <2>7, SeeKeeps
  <2> QED
    BY <2>1, <2>2, <2>4, <2>6, <2>8 DEF SameFrame
<1> HIDE DEF S
<1>4. Nat \subseteq S
  BY <1>2, <1>3, Inductive
<1>5. n \in S
  BY <1>4
<1> QED
  BY <1>5 DEF S

(* What a frame shows of a kind of cue at the shelves.                         *)
LEMMA ShelvedFacts ==
  ASSUME NEW f, TypedFrame(f), NEW c
  PROVE  /\ Shelved(f, c) \in Seq(ToSet(Shelved(f, c))) /\ Len(Shelved(f, c)) \in Nat
         /\ \A d : d \in ToSet(Shelved(f, c)) <=>
                  \E y \in DOMAIN f : d = f[y] /\ f[y].cue = c /\ IdsAt(f[y].at, ShelfLike) # {}
         /\ Shelved(f, c) # <<>> <=> \E y \in DOMAIN f : f[y].cue = c /\ IdsAt(f[y].at, ShelfLike) # {}
<1> DEFINE K == {y \in DOMAIN f : f[y].cue = c /\ OfTypes(ZonesAt(f[y].at), ShelfLike) # <<>>}
           L == {x \in DOMAIN f : f[x].cue = c /\ IdsAt(f[x].at, ShelfLike) # {}}
<1>1. Shelved(f, c) = Pick(f, K)
  BY DEF Shelved
<1>2. PICK n \in Nat : DOMAIN f = 1..n
  BY DEF TypedFrame
<1>3. K = L
  <2>1. ASSUME NEW y \in DOMAIN f
        PROVE  OfTypes(ZonesAt(f[y].at), ShelfLike) # <<>> <=> IdsAt(f[y].at, ShelfLike) # {}
    BY ShelfFacts
  <2> QED
    BY <2>1
<1>4. K \in SUBSET (1..n)
  BY <1>2
<1>5. L # {} <=> \E y \in DOMAIN f : f[y].cue = c /\ IdsAt(f[y].at, ShelfLike) # {}
  OBVIOUS
<1>7. \A d : d \in {f[i] : i \in K} <=>
             \E y \in DOMAIN f : d = f[y] /\ f[y].cue = c /\ IdsAt(f[y].at, ShelfLike) # {}
  BY <1>3
<1> HIDE DEF K, L
<1>6. /\ Pick(f, K) \in Seq(ToSet(Pick(f, K)))
      /\ Len(Pick(f, K)) = Cardinality(K) /\ Cardinality(K) \in Nat
      /\ ToSet(Pick(f, K)) = {f[i] : i \in K}
      /\ Pick(f, K) = <<>> <=> K = {}
  BY <1>2, <1>4, PickFacts
<1> QED
  BY <1>1, <1>3, <1>5, <1>6, <1>7

(* The frames with a product at a shelf, those in which an episode begins, and *)
(* what is kept from frame to frame.                                           *)
AtShelves(fs, m) == {x \in 1..m : Shelved(fs[x], "product_in_hand") # <<>>}
Begins(fs, m)    == {x \in AtShelves(fs, m) : x - 1 \notin AtShelves(fs, m)}
EpisodeInv(h, fs, m) ==
    h.episodes = Cardinality(Begins(fs, m)) /\ (h.before <=> m \in AtShelves(fs, m))
GroupInv(g, fs, m) ==
    /\ g.n \in Nat /\ \A x \in 1..m : Len(Shelved(fs[x], "person")) <= g.n
    /\ \/ g.n = 0 /\ g.zone = 0 /\ g.track = 0
       \/ \E x \in 1..m : /\ Len(Shelved(fs[x], "person")) = g.n
                          /\ \E y \in DOMAIN fs[x] :
                               /\ fs[x][y].cue = "person" /\ fs[x][y].track = g.track
                               /\ g.zone \in IdsAt(fs[x][y].at, ShelfLike)

AccInv(a, fs, m) ==
    /\ Shaped(a) /\ Evidence(a, fs, Places(fs, m + 1, 0))
    /\ EpisodeInv(a.handling, fs, m) /\ GroupInv(a.group, fs, m)

LEMMA BeginsFinite ==
  ASSUME NEW fs, NEW m \in Nat
  PROVE  IsFiniteSet(Begins(fs, m)) /\ Cardinality(Begins(fs, m)) \in Nat
<1>1. Begins(fs, m) \in SUBSET (1..m)
  BY DEF Begins, AtShelves
<1> QED
  BY <1>1, PlacesFinite

LEMMA EpisodeKeeps ==
  ASSUME NEW fs, NEW m \in Nat, NEW h, EpisodeInv(h, fs, m),
         DOMAIN h = {"episodes", "before", "zone", "track", "first"}
  PROVE  /\ EpisodeInv(EndHandling(h, fs[m + 1]), fs, m + 1)
         /\ DOMAIN EndHandling(h, fs[m + 1]) = DOMAIN h
         /\ EndHandling(h, fs[m + 1]).first = h.first
         /\ EndHandling(h, fs[m + 1]).zone = h.zone
         /\ EndHandling(h, fs[m + 1]).track = h.track
<1>1. PICK g : g = EndHandling(h, fs[m + 1])
  OBVIOUS
<1>2. PICK now \in BOOLEAN : now = (Shelved(fs[m + 1], "product_in_hand") # <<>>)
  OBVIOUS
<1>3. g = [h EXCEPT !.episodes = IF now /\ ~h.before THEN h.episodes + 1 ELSE h.episodes, !.before = now]
  BY <1>1, <1>2 DEF EndHandling
<1>4. /\ DOMAIN g = DOMAIN h /\ g.first = h.first /\ g.zone = h.zone /\ g.track = h.track
      /\ g.episodes = (IF now /\ ~h.before THEN h.episodes + 1 ELSE h.episodes) /\ g.before = now
  BY <1>3
<1>5. PICK A : A = AtShelves(fs, m)
  OBVIOUS
<1>6. PICK B : B = AtShelves(fs, m + 1)
  OBVIOUS
<1>7. /\ A \subseteq 1..m /\ B \subseteq 1..(m + 1)
      /\ m + 1 \in B <=> now
      /\ \A x \in 1..m : x \in A <=> x \in B
  <2>1. A \subseteq 1..m /\ B \subseteq 1..(m + 1)
    BY <1>5, <1>6 DEF AtShelves
  <2>2. m + 1 \in B <=> now
    <3>1. m + 1 \in 1..(m + 1)
      OBVIOUS
    <3> QED
      BY <1>2, <1>6, <3>1, Zenon DEF AtShelves
  <2>3. \A x \in 1..m : x \in 1..(m + 1)
    OBVIOUS
  <2>4. \A x \in 1..m : x \in A <=> x \in B
    BY <1>5, <1>6, <2>3 DEF AtShelves
  <2> QED
    BY <2>1, <2>2, <2>4
<1>8. \A x \in A : x - 1 \in A <=> x - 1 \in B
  <2> TAKE x \in A
  <2>1. x \in Nat /\ 1 <= x /\ x <= m
    BY <1>7
  <2>2. CASE x = 1
    BY <1>7, <2>2
  <2>3. CASE x # 1
    <3>1. x - 1 \in 1..m
      BY <2>1, <2>3
    <3> QED
      BY <1>7, <3>1
  <2> QED
    BY <2>2, <2>3
<1>9. Begins(fs, m) = {x \in A : x - 1 \notin A} /\ Begins(fs, m + 1) = {x \in B : x - 1 \notin B}
  BY <1>5, <1>6 DEF Begins
<1>10. (m + 1) - 1 = m /\ m + 1 \notin A /\ (m \in A <=> m \in B)
  <2>1. m = 0 => m \notin A /\ m \notin B
    BY <1>7
  <2>2. m # 0 => m \in 1..m
    OBVIOUS
  <2> QED
    BY <1>7, <2>1, <2>2
<1>11. \A x \in B : x \in A \/ x = m + 1
  <2> TAKE x \in B
  <2>1. x \in 1..m \/ x = m + 1
    BY <1>7
  <2> QED
    BY <1>7, <2>1
<1>12. \A x \in A : x \in B
  BY <1>7
<1>13. Begins(fs, m + 1) = IF now /\ m \notin A THEN Begins(fs, m) \cup {m + 1} ELSE Begins(fs, m)
  BY <1>7, <1>8, <1>9, <1>10, <1>11, <1>12
<1>14. m + 1 \notin Begins(fs, m) /\ (h.before <=> m \in A) /\ h.episodes = Cardinality(Begins(fs, m))
  BY <1>5, <1>9, <1>10 DEF EpisodeInv
<1>15. g.episodes = Cardinality(Begins(fs, m + 1))
  <2>1. IsFiniteSet(Begins(fs, m))
    BY BeginsFinite
  <2>2. Cardinality(Begins(fs, m) \cup {m + 1}) = Cardinality(Begins(fs, m)) + 1
    BY <1>14, <2>1, FS_AddElement
  <2> QED
    BY <1>4, <1>13, <1>14, <2>2
<1>16. g.before <=> m + 1 \in B
  BY <1>4, <1>7
<1> QED
  BY <1>1, <1>4, <1>6, <1>15, <1>16 DEF EpisodeInv

LEMMA GroupKeeps ==
  ASSUME NEW fs, TypedClip(fs), NEW m \in Nat, m + 1 \in DOMAIN fs, NEW g, GroupInv(g, fs, m)
  PROVE  GroupInv(EndGroup(g, fs[m + 1]), fs, m + 1)
<1>1. PICK f : f = fs[m + 1]
  OBVIOUS
<1>2. PICK s : s = Shelved(f, "person")
  OBVIOUS
<1>3. TypedFrame(f)
  BY <1>1 DEF TypedClip
<1>4. /\ s \in Seq(ToSet(s)) /\ Len(s) \in Nat
      /\ \A d \in ToSet(s) : \E y \in DOMAIN f : d = f[y] /\ f[y].cue = "person" /\ IdsAt(f[y].at, ShelfLike) # {}
  <2>1. s \in Seq(ToSet(s)) /\ Len(s) \in Nat
    BY <1>2, <1>3, ShelvedFacts
  <2>2. \A d \in ToSet(s) : \E y \in DOMAIN f : d = f[y] /\ f[y].cue = "person" /\ IdsAt(f[y].at, ShelfLike) # {}
    BY <1>2, <1>3, ShelvedFacts DEF IdsAt
  <2> QED
    BY <2>1, <2>2
<1>5. \A x \in 1..(m + 1) : x \in 1..m \/ x = m + 1
  OBVIOUS
<1>6. \A x \in 1..m : x \in 1..(m + 1)
  OBVIOUS
<1>7. CASE ~ (Len(s) > g.n)
  <2>1. EndGroup(g, f) = g
    BY <1>2, <1>7 DEF EndGroup
  <2>2. Len(Shelved(fs[m + 1], "person")) <= g.n
    BY <1>1, <1>2, <1>4, <1>7 DEF GroupInv
  <2> QED
    BY <1>1, <1>5, <1>6, <2>1, <2>2 DEF GroupInv
<1>8. CASE Len(s) > g.n
  <2>1. PICK e : e = EndGroup(g, f)
    OBVIOUS
  <2>2. e.n = Len(s) /\ e.track = s[1].track /\ e.zone = FirstId(OfTypes(ZonesAt(s[1].at), ShelfLike))
    BY <1>2, <1>8, <2>1 DEF EndGroup
  <2>3. s[1] \in ToSet(s)
    <3>1. 1 \in DOMAIN s
      BY <1>4, <1>8 DEF GroupInv
    <3> QED
      BY <3>1 DEF ToSet
  <2>4. PICK y \in DOMAIN f : f[y].cue = "person" /\ IdsAt(f[y].at, ShelfLike) # {} /\ s[1] = f[y]
    BY <1>4, <2>3
  <2>5. e.zone \in IdsAt(f[y].at, ShelfLike)
    <3>1. PICK zs : zs = OfTypes(ZonesAt(f[y].at), ShelfLike)
      OBVIOUS
    <3>2. /\ zs = <<>> <=> IdsAt(f[y].at, ShelfLike) = {}
          /\ zs # <<>> => FirstId(zs) \in IdsAt(f[y].at, ShelfLike)
      BY <3>1, ShelfFacts
    <3> QED
      BY <2>2, <2>4, <3>1, <3>2
  <2>6. m + 1 \in 1..(m + 1) /\ Len(Shelved(fs[m + 1], "person")) = e.n
    BY <1>1, <1>2, <2>2
  <2>7. \A x \in 1..(m + 1) : Len(Shelved(fs[x], "person")) <= e.n
    <3> TAKE x \in 1..(m + 1)
    <3>1. CASE x = m + 1
      BY <1>4, <2>2, <2>6, <3>1
    <3>2. CASE x \in 1..m
      <4>1. x \in DOMAIN fs
        BY <1>6 DEF TypedClip
      <4>2. TypedFrame(fs[x])
        BY <4>1 DEF TypedClip
      <4>3. Len(Shelved(fs[x], "person")) \in Nat
        BY <4>2, ShelvedFacts
      <4>4. Len(Shelved(fs[x], "person")) <= g.n /\ g.n \in Nat
        BY <3>2 DEF GroupInv
      <4> QED
        BY <1>4, <1>8, <2>2, <4>3, <4>4
    <3> QED
      BY <1>5, <3>1, <3>2
  <2> QED
    BY <1>1, <1>4, <2>1, <2>2, <2>4, <2>5, <2>6, <2>7 DEF GroupInv
<1> QED
  BY <1>1, <1>7, <1>8

(* A frame of the scan.                                                        *)
LEMMA ScanKeeps ==
  ASSUME TypedClip(frames), NEW m \in Nat, m + 1 \in DOMAIN frames, NEW a, AccInv(a, frames, m)
  PROVE  AccInv(ScanFrame(a, m + 1), frames, m + 1)
<1>1. PICK fs : fs = frames
  OBVIOUS
<1>2. PICK f : f = fs[m + 1]
  OBVIOUS
<1>3. TypedClip(fs) /\ TypedFrame(f)
  BY <1>1, <1>2 DEF TypedClip
<1>4. PICK n \in Nat : DOMAIN f = 1..n /\ Len(f) = n
  <2>1. PICK n \in Nat : DOMAIN f = 1..n
    BY <1>3 DEF TypedFrame
  <2>2. f \in Seq(ToSet(f))
    BY <1>3 DEF TypedFrame
  <2> QED
    BY <2>1, <2>2
<1>5. PICK s : Seeing(s, a, m + 1, f, n) /\ ScanFrame(a, m + 1) = EndFrame(s[n], f)
  BY <1>1, <1>2, <1>4, ScanSees
<1>6. PICK b : b = s[n]
  OBVIOUS
<1>7. PICK i \in Nat : i = m + 1
  OBVIOUS
<1>8. Evidence(b, fs, Places(fs, i, n)) /\ SameFrame(a, b)
  <2>1. Evidence(a, fs, Places(fs, i, 0)) /\ Shaped(a) /\ Seeing(s, a, i, fs[i], n)
    BY <1>1, <1>2, <1>5, <1>7 DEF AccInv
  <2>2. i \in DOMAIN fs /\ DOMAIN fs[i] = 1..n
    BY <1>1, <1>2, <1>4, <1>7
  <2> QED
    BY <1>3, <1>6, <2>1, <2>2, FrameSeen
<1>9. Places(fs, i, n) = Places(fs, i + 1, 0)
  BY <1>1, <1>2, <1>3, <1>4, <1>7, PlacesNext
<1>10. PICK h : h = EndHandling(b.handling, f)
  OBVIOUS
<1>11. PICK g : g = EndGroup(b.group, f)
  OBVIOUS
<1>12. PICK e : e = EndFrame(b, f)
  OBVIOUS
<1>13. /\ DOMAIN e = DOMAIN b /\ e.line = b.line /\ e.openBag = b.openBag /\ e.bag = b.bag
       /\ e.conceal = b.conceal /\ e.hv = b.hv /\ e.handling = h /\ e.group = g
  <2>1. e = [b EXCEPT !.handling = h, !.group = g]
    BY <1>10, <1>11, <1>12 DEF EndFrame
  <2>2. DOMAIN b = {"line", "openBag", "bag", "handling", "conceal", "hv", "group"}
    BY <1>8 DEF SameFrame, Shaped
  <2> QED
    BY <2>1, <2>2
<1>14. /\ EpisodeInv(h, fs, m + 1) /\ DOMAIN h = DOMAIN b.handling
       /\ h.first = b.handling.first /\ h.zone = b.handling.zone /\ h.track = b.handling.track
  <2>1. PICK x : x = b.handling
    OBVIOUS
  <2>2. EpisodeInv(x, fs, m)
    BY <1>1, <1>8, <2>1 DEF AccInv, SameFrame, EpisodeInv
  <2>3. DOMAIN x = {"episodes", "before", "zone", "track", "first"}
    BY <1>8, <2>1 DEF SameFrame, Shaped
  <2>4. /\ EpisodeInv(EndHandling(x, fs[m + 1]), fs, m + 1)
        /\ DOMAIN EndHandling(x, fs[m + 1]) = DOMAIN x
        /\ EndHandling(x, fs[m + 1]).first = x.first
        /\ EndHandling(x, fs[m + 1]).zone = x.zone
        /\ EndHandling(x, fs[m + 1]).track = x.track
    BY <2>2, <2>3, EpisodeKeeps
  <2> QED
    BY <1>2, <1>10, <2>1, <2>4
<1>15. GroupInv(g, fs, m + 1)
  <2>1. GroupInv(b.group, fs, m)
    BY <1>1, <1>8 DEF AccInv, SameFrame
  <2> QED
    BY <1>1, <1>2, <1>3, <1>11, <2>1, GroupKeeps
<1>16. Evidence(e, fs, Places(fs, i, n))
  <2>1. HandlingInv(h, fs, Hits(fs, Places(fs, i, n), "product_in_hand"))
    BY <1>8, <1>14 DEF Evidence, HandlingInv
  <2> QED
    BY <1>8, <1>13, <2>1 DEF Evidence
<1>17. Shaped(e)
  BY <1>8, <1>13, <1>14 DEF SameFrame, Shaped
<1> QED
  BY <1>1, <1>5, <1>6, <1>7, <1>9, <1>12, <1>13, <1>14, <1>15, <1>16, <1>17 DEF AccInv

-----------------------------------------------------------------------------
(* The loop over the frames.                                                   *)
LEMMA AccStarts ==
  ASSUME NEW fs, TypedClip(fs)
  PROVE  AccInv(NoEvidence, fs, 0)
<1>1. PICK Q : Q = Places(fs, 1, 0)
  OBVIOUS
<1>2. Q = {}
  <2>1. \A x \in DOMAIN fs : ~ (x < 1)
    BY DEF TypedClip
  <2>2. \A y \in Nat : ~ (y \in 1..0)
    OBVIOUS
  <2> QED
    BY <1>1, <2>1, <2>2 DEF Places
<1>3. \A c : Hits(fs, Q, c) = {}
  BY <1>2 DEF Hits
<1>4. IsFiniteSet({}) /\ Cardinality({}) = 0
  BY FS_EmptySet
<1>5. /\ LineInv(<<>>, fs, {}) /\ SignalInv(NoSignal, fs, {})
      /\ HandlingInv(NoEvidence.handling, fs, {}) /\ ConcealInv(NoEvidence.conceal, fs, {})
      /\ HvInv(NoEvidence.hv, fs, {})
  <2>1. LineInv(<<>>, fs, {})
    BY <1>4 DEF LineInv, ToSet
  <2>2. SignalInv(NoSignal, fs, {})
    BY <1>4 DEF SignalInv, NoSignal, Somebody
  <2>3. HandlingInv(NoEvidence.handling, fs, {})
    BY DEF HandlingInv, NoEvidence, Somebody
  <2>4. ConcealInv(NoEvidence.conceal, fs, {})
    BY <1>4 DEF ConcealInv, NoEvidence, Somebody
  <2>5. HvInv(NoEvidence.hv, fs, {})
    BY DEF HvInv, NoEvidence
  <2> QED
    BY <2>1, <2>2, <2>3, <2>4, <2>5
<1>6. /\ NoEvidence.line = <<>> /\ NoEvidence.openBag = NoSignal /\ NoEvidence.bag = NoSignal
  BY DEF NoEvidence
<1>7. Evidence(NoEvidence, fs, Q)
  BY <1>2, <1>3, <1>4, <1>5, <1>6 DEF Evidence
<1>8. Shaped(NoEvidence)
  BY DEF Shaped, NoEvidence
<1>9. EpisodeInv(NoEvidence.handling, fs, 0)
  <2>1. AtShelves(fs, 0) = {} /\ Begins(fs, 0) = {}
    BY DEF AtShelves, Begins
  <2>2. NoEvidence.handling.episodes = 0 /\ NoEvidence.handling.before = FALSE
    BY DEF NoEvidence
  <2>3. NoEvidence.handling.before <=> 0 \in AtShelves(fs, 0)
    BY <2>1, <2>2
  <2>4. NoEvidence.handling.episodes = Cardinality(Begins(fs, 0))
    BY <1>4, <2>1, <2>2
  <2> QED
    BY <2>3, <2>4 DEF EpisodeInv
<1>10. GroupInv(NoEvidence.group, fs, 0)
  BY DEF GroupInv, NoEvidence
<1> QED
  BY <1>1, <1>7, <1>8, <1>9, <1>10 DEF AccInv
(* The greatest and the least element, when they are known.                    *)
LEMMA MaxIs ==
  ASSUME NEW S, NEW x \in S, \A y \in S : x \in Int /\ y \in Int /\ y <= x
  PROVE  Max(S) = x
<1>1. \A z \in S : (\A y \in S : z >= y) => z = x
  OBVIOUS
<1>2. \A y \in S : x >= y
  OBVIOUS
<1> QED
  BY <1>1, <1>2 DEF Max

LEMMA MinIs ==
  ASSUME NEW S, NEW x \in S, \A y \in S : x \in Int /\ y \in Int /\ x <= y
  PROVE  Min(S) = x
<1>1. \A z \in S : (\A y \in S : z <= y) => z = x
  OBVIOUS
<1> QED
  BY <1>1 DEF Min

(* The places of the sightings in the first m frames.                          *)
LEMMA SightingsAre ==
  ASSUME TypedClip(frames), NEW m \in Nat, m <= Len(frames), NEW c
  PROVE  Sightings(c, 1..m) = Hits(frames, Places(frames, m + 1, 0), c)
<1>1. DOMAIN frames = 1..Len(frames) /\ Len(frames) \in Nat
  BY DEF TypedClip
<1>2. \A x \in DOMAIN frames : \A y \in DOMAIN frames[x] : y \in Nat
  BY DEF TypedClip, TypedFrame
<1>3. ASSUME NEW q PROVE q \in Sightings(c, 1..m) <=>
          \E i \in 1..m : \E j \in DOMAIN frames[i] : q = <<i, j>> /\ frames[i][j].cue = c
  <2> DEFINE S(i) == {<<i, j>> : j \in {x \in DOMAIN frames[i] : frames[i][x].cue = c}}
  <2>1. q \in Sightings(c, 1..m) <=> \E i \in 1..m : q \in S(i)
    BY DEF Sightings
  <2>2. \A i \in 1..m : q \in S(i) <=> \E j \in DOMAIN frames[i] : q = <<i, j>> /\ frames[i][j].cue = c
    OBVIOUS
  <2> HIDE DEF S
  <2> QED
    BY <2>1, <2>2
<1>4. \A i \in 1..m : i \in DOMAIN frames /\ i < m + 1
  BY <1>1
<1>5. ASSUME NEW q, q \in Sightings(c, 1..m) PROVE q \in Hits(frames, Places(frames, m + 1, 0), c)
  <2>1. PICK i \in 1..m : \E j \in DOMAIN frames[i] : q = <<i, j>> /\ frames[i][j].cue = c
    BY <1>3, <1>5
  <2>2. PICK j \in DOMAIN frames[i] : q = <<i, j>> /\ frames[i][j].cue = c
    BY <2>1
  <2>3. i \in DOMAIN frames /\ j \in Nat /\ i < m + 1
    BY <1>2, <1>4
  <2> QED
    BY <2>2, <2>3 DEF Hits, Places, At
<1>6. ASSUME NEW q, q \in Hits(frames, Places(frames, m + 1, 0), c) PROVE q \in Sightings(c, 1..m)
  <2>1. /\ q \in (DOMAIN frames) \X Nat /\ frames[q[1]][q[2]].cue = c
        /\ q[1] < m + 1 /\ q[2] \in DOMAIN frames[q[1]]
    <3>1. ~ (q[2] \in 1..0)
      OBVIOUS
    <3> QED
      BY <1>6, <3>1 DEF Hits, Places, At
  <2>2. q = <<q[1], q[2]>> /\ q[1] \in DOMAIN frames
    BY <2>1
  <2>3. q[1] \in 1..m
    BY <1>1, <2>1, <2>2
  <2> QED
    BY <1>3, <2>1, <2>2, <2>3
<1> QED
  BY <1>5, <1>6

(* The shelved detections of a frame are the hits at a shelf in that frame.    *)
SameAsShelved(fs, m, c, H) ==
    /\ \A x \in 1..m : \A d \in ToSet(Shelved(fs[x], c)) :
         \E q \in H : ShelfHit(fs, q) /\ q[1] = x /\ At(fs, q) = d
    /\ \A q \in H : q[1] \in 1..m
    /\ \A q \in H : ShelfHit(fs, q) =>
         At(fs, q) \in ToSet(Shelved(fs[q[1]], c)) /\ Shelved(fs[q[1]], c) # <<>>

LEMMA ShelvedAre ==
  ASSUME NEW fs, TypedClip(fs), NEW m \in Nat, m <= Len(fs), NEW c,
         NEW H, H = Hits(fs, Places(fs, m + 1, 0), c)
  PROVE  SameAsShelved(fs, m, c, H)
<1>1. DOMAIN fs = 1..Len(fs) /\ Len(fs) \in Nat /\ \A x \in DOMAIN fs : TypedFrame(fs[x])
  BY DEF TypedClip
<1>2. \A x \in DOMAIN fs : \A y \in DOMAIN fs[x] : y \in Nat
  BY <1>1 DEF TypedFrame
<1>3. ASSUME NEW x \in 1..m, NEW d \in ToSet(Shelved(fs[x], c))
      PROVE  \E q \in H : ShelfHit(fs, q) /\ q[1] = x /\ At(fs, q) = d
  <2>1. x \in DOMAIN fs /\ x < m + 1
    BY <1>1
  <2>2. PICK y \in DOMAIN fs[x] : d = fs[x][y] /\ fs[x][y].cue = c /\ IdsAt(fs[x][y].at, ShelfLike) # {}
    <3>1. PICK f : f = fs[x] /\ TypedFrame(f)
      BY <1>1, <2>1
    <3>2. \E y \in DOMAIN f : d = f[y] /\ f[y].cue = c /\ IdsAt(f[y].at, ShelfLike) # {}
      BY <3>1, ShelvedFacts
    <3> QED
      BY <3>1, <3>2
  <2>3. PICK q : q = <<x, y>>
    OBVIOUS
  <2>4. q \in (DOMAIN fs) \X Nat /\ q[1] = x /\ q[2] = y
    BY <1>2, <2>1, <2>3
  <2>5. q \in H
    BY <2>1, <2>2, <2>4 DEF Hits, Places, At
  <2> QED
    BY <2>2, <2>4, <2>5 DEF ShelfHit, At
<1>4. ASSUME NEW q \in H
      PROVE  q[1] \in 1..m /\ q[1] \in DOMAIN fs /\ q[2] \in DOMAIN fs[q[1]] /\ At(fs, q).cue = c
  <2>1. ~ (q[2] \in 1..0)
    OBVIOUS
  <2>2. q[1] \in DOMAIN fs /\ q[1] < m + 1 /\ q[2] \in DOMAIN fs[q[1]] /\ At(fs, q).cue = c
    BY <2>1 DEF Hits, Places
  <2> QED
    BY <1>1, <2>2
<1>5. ASSUME NEW q \in H, ShelfHit(fs, q)
      PROVE  At(fs, q) \in ToSet(Shelved(fs[q[1]], c)) /\ Shelved(fs[q[1]], c) # <<>>
  <2>1. PICK x \in DOMAIN fs : \E y \in DOMAIN fs[x] : x = q[1] /\ y = q[2]
    BY <1>4
  <2>5. PICK y \in DOMAIN fs[x] : x = q[1] /\ y = q[2]
    BY <2>1
  <2>2. fs[x][y].cue = c /\ IdsAt(fs[x][y].at, ShelfLike) # {}
    BY <1>4, <1>5, <2>5 DEF ShelfHit, At
  <2>3. TypedFrame(fs[x])
    BY <1>1
  <2>4. fs[x][y] \in ToSet(Shelved(fs[x], c)) /\ Shelved(fs[x], c) # <<>>
    BY <2>2, <2>3, ShelvedFacts
  <2> QED
    BY <2>4, <2>5 DEF At
<1> QED
  BY <1>3, <1>4, <1>5 DEF SameAsShelved

(* The accumulators say what the frames show that have been gone through; the  *)
(* events and the overlay are made of the accumulators and the frames.         *)
ScanInv ==
    /\ phase \in {"track", "link", "failed"} => acc = NoEvidence
    /\ phase \in {"scan", "done", "scored", "unscored"} => AccInv(acc, frames, k - 1)
    /\ phase \in {"track", "link", "scan", "failed"} => events = <<>> /\ overlay = <<>>
    /\ phase \in {"done", "scored", "unscored"} =>
         k = Len(frames) + 1 /\ events = ExtractEvents(acc) /\ overlay = Overlay(frames)

LEMMA InitScanInv == ScoringInit => ScanInv
BY DEF ScoringInit, Init, ScanInv

LEMMA StepScanInv == MergeInv /\ ClipInv /\ ScanInv /\ [ScoringNext]_scoringVars => ScanInv'
<1> SUFFICES ASSUME MergeInv, ClipInv, ScanInv, [ScoringNext]_scoringVars PROVE ScanInv'
  OBVIOUS
<1>1. CASE TrackFrame \/ TrackClipRaises \/ EndOfClip \/ LinkTrack
  BY <1>1 DEF TrackFrame, TrackClipRaises, EndOfClip, LinkTrack, ScanInv
<1>2. CASE RenameTracks
  <2>1. /\ phase = "link" /\ phase' = "scan" /\ k' = 1 /\ acc' = acc /\ events' = events
        /\ overlay' = overlay
    BY <1>2 DEF RenameTracks
  <2>2. TypedClip(frames')
    BY <1>2, <2>1, RenamedTyped DEF RenameTracks, MergeInv
  <2>3. AccInv(NoEvidence, frames', 0)
    BY <2>2, AccStarts
  <2> QED
    BY <2>1, <2>3 DEF ScanInv
<1>3. CASE Scan
  <2>1. /\ phase = "scan" /\ phase' = phase /\ k' = k + 1 /\ acc' = ScanFrame(acc, k)
        /\ frames' = frames /\ events' = events /\ overlay' = overlay /\ k <= Len(frames)
    BY <1>3 DEF Scan
  <2>2. TypedClip(frames) /\ k \in 1..(Len(frames) + 1) /\ AccInv(acc, frames, k - 1)
    BY <2>1 DEF ClipInv, ScanInv
  <2>3. PICK m \in Nat : m = k - 1 /\ m + 1 = k
    BY <2>2 DEF TypedClip
  <2>4. m + 1 \in DOMAIN frames
    BY <2>1, <2>2, <2>3 DEF TypedClip
  <2>5. AccInv(ScanFrame(acc, m + 1), frames, m + 1)
    BY <2>2, <2>3, <2>4, ScanKeeps
  <2>6. k' - 1 = m + 1
    BY <2>1, <2>3
  <2> QED
    BY <2>1, <2>3, <2>5, <2>6 DEF ScanInv
<1>4. CASE EmitEvents
  <2>1. /\ phase = "scan" /\ phase' = "done" /\ k > Len(frames) /\ k' = k /\ frames' = frames /\ acc' = acc
        /\ events' = ExtractEvents(acc) /\ overlay' = Overlay(frames)
    BY <1>4 DEF EmitEvents
  <2>2. k = Len(frames) + 1
    BY <2>1 DEF ClipInv, TypedClip
  <2>3. overlay' = Overlay(frames') /\ events' = ExtractEvents(acc')
    BY <2>1
  <2> QED
    BY <2>1, <2>2, <2>3 DEF ScanInv
<1>5. CASE Ingest
  BY <1>5 DEF Ingest, SaveScore, ScanInv
<1>6. CASE UNCHANGED scoringVars
  BY <1>6 DEF scoringVars, vars, ScanInv
<1> QED
  BY <1>1, <1>2, <1>3, <1>4, <1>5, <1>6 DEF ScoringNext, Extract, Next

LEMMA ClipAndScan == ScoringSpec => [](MergeInv /\ ClipInv /\ ScanInv)
<1>1. ScoringInit => MergeInv /\ ClipInv /\ ScanInv
  BY InitMergeInv, InitClipInv, InitScanInv
<1>2. MergeInv /\ ClipInv /\ ScanInv /\ [ScoringNext]_scoringVars => (MergeInv /\ ClipInv /\ ScanInv)'
  BY StepMergeInv, StepClipInv, StepScanInv
<1> QED
  BY <1>1, <1>2, PTL DEF ScoringSpec

-----------------------------------------------------------------------------
(* What that means when everything is counted at once.                         *)
Counted(sig, c, m) ==
    /\ sig.n = Cardinality(Sightings(c, 1..m))
    /\ sig.conf = Max({0} \cup UNION {{d.conf : d \in ToSet(Shelved(frames[i], c))} : i \in 1..m})
    /\ sig.last = Max({0} \cup {i \in 1..m : \E d \in ToSet(Shelved(frames[i], c)) : d.conf = sig.conf})

LEMMA SignalCounted ==
  ASSUME TypedClip(frames), NEW m \in Nat, m <= Len(frames), NEW c, NEW sig,
         SignalInv(sig, frames, Hits(frames, Places(frames, m + 1, 0), c))
  PROVE  Counted(sig, c, m)
<1>1. PICK H : H = Hits(frames, Places(frames, m + 1, 0), c)
  OBVIOUS
<1>2. /\ \A x \in 1..m : \A d \in ToSet(Shelved(frames[x], c)) :
           \E q \in H : ShelfHit(frames, q) /\ q[1] = x /\ At(frames, q) = d
      /\ \A q \in H : q[1] \in 1..m
      /\ \A q \in H : ShelfHit(frames, q) => At(frames, q) \in ToSet(Shelved(frames[q[1]], c))
  <2>1. SameAsShelved(frames, m, c, H)
    BY <1>1, ShelvedAre
  <2> QED
    BY <2>1 DEF SameAsShelved
<1>3. SignalInv(sig, frames, H)
  BY <1>1
<1>4. sig.n = Cardinality(Sightings(c, 1..m))
  BY <1>1, <1>3, SightingsAre DEF SignalInv
<1>5. \A q \in H : q[1] \in Int /\ 0 <= q[1]
  BY <1>2
<1>6. \A q \in H : At(frames, q).conf \in Nat
  <2> TAKE q \in H
  <2>1. q[1] \in DOMAIN frames /\ q[2] \in DOMAIN frames[q[1]]
    <3>1. ~ (q[2] \in 1..0)
      OBVIOUS
    <3> QED
      BY <1>1, <3>1 DEF Hits, Places
  <2>2. TypedDet(frames[q[1]][q[2]])
    BY <2>1 DEF TypedClip, TypedFrame
  <2> QED
    BY <2>2 DEF TypedDet, At
<1>7. /\ sig.conf \in Nat /\ sig.last \in Nat
      /\ \A q \in H : ShelfHit(frames, q) => /\ At(frames, q).conf <= sig.conf
                                             /\ At(frames, q).conf = sig.conf => q[1] <= sig.last
      /\ \/ /\ sig.conf = 0 /\ sig.last = 0
            /\ \A q \in H : ~ ShelfHit(frames, q)
         \/ \E q \in H : At(frames, q).conf = sig.conf /\ q[1] = sig.last /\ ShelfHit(frames, q)
  BY <1>3 DEF SignalInv, ShelfHit
<1> DEFINE ConfsIn(i) == {d.conf : d \in ToSet(Shelved(frames[i], c))}
           Confs == {0} \cup UNION {ConfsIn(i) : i \in 1..m}
           Lasts == {0} \cup {i \in 1..m : \E d \in ToSet(Shelved(frames[i], c)) : d.conf = sig.conf}
<1>8. sig.conf = Max(Confs)
  <2>1. \A y \in Confs : y \in Int /\ y <= sig.conf
    <3> SUFFICES ASSUME NEW i \in 1..m, NEW y \in ConfsIn(i) PROVE y \in Int /\ y <= sig.conf
      BY <1>7
    <3>1. PICK d \in ToSet(Shelved(frames[i], c)) : y = d.conf
      OBVIOUS
    <3>2. PICK q \in H : ShelfHit(frames, q) /\ At(frames, q) = d
      BY <1>2, <3>1
    <3> QED
      BY <1>6, <1>7, <3>1, <3>2
  <2>2. sig.conf \in Confs
    <3>1. CASE sig.conf = 0
      BY <3>1
    <3>2. CASE \E q \in H : At(frames, q).conf = sig.conf /\ ShelfHit(frames, q)
      <4>1. PICK q \in H : At(frames, q).conf = sig.conf /\ ShelfHit(frames, q)
        BY <3>2
      <4>2. q[1] \in 1..m /\ At(frames, q) \in ToSet(Shelved(frames[q[1]], c))
        BY <1>2, <4>1
      <4>3. sig.conf \in ConfsIn(q[1])
        BY <4>1, <4>2
      <4> HIDE DEF ConfsIn
      <4> QED
        BY <4>2, <4>3
    <3> QED
      BY <1>7, <3>1, <3>2
  <2> HIDE DEF Confs
  <2> QED
    BY <1>7, <2>1, <2>2, MaxIs
<1>9. sig.last = Max(Lasts)
  <2>1. \A y \in Lasts : y \in Int /\ y <= sig.last
    <3> SUFFICES ASSUME NEW i \in 1..m, NEW d \in ToSet(Shelved(frames[i], c)), d.conf = sig.conf
                 PROVE  i \in Int /\ i <= sig.last
      BY <1>7
    <3>1. PICK q \in H : ShelfHit(frames, q) /\ q[1] = i /\ At(frames, q) = d
      BY <1>2
    <3> QED
      BY <1>5, <1>7, <3>1
  <2>2. sig.last \in Lasts
    BY <1>2, <1>7
  <2> HIDE DEF Lasts
  <2> QED
    BY <1>7, <2>1, <2>2, MaxIs
<1> QED
  BY <1>4, <1>8, <1>9 DEF Counted

LEMMA HandlingCounted ==
  ASSUME NEW fs, TypedClip(fs), NEW m \in Nat, m <= Len(fs), NEW h,
         HandlingInv(h, fs, Hits(fs, Places(fs, m + 1, 0), "product_in_hand"))
  PROVE  h.first = IF AtShelves(fs, m) = {} THEN 0 ELSE Min(AtShelves(fs, m))
<1>1. PICK H : H = Hits(fs, Places(fs, m + 1, 0), "product_in_hand")
  OBVIOUS
<1>2. /\ \A x \in 1..m : \A d \in ToSet(Shelved(fs[x], "product_in_hand")) :
           \E q \in H : ShelfHit(fs, q) /\ q[1] = x
      /\ \A q \in H : q[1] \in 1..m
      /\ \A q \in H : ShelfHit(fs, q) => Shelved(fs[q[1]], "product_in_hand") # <<>>
  <2>1. SameAsShelved(fs, m, "product_in_hand", H)
    BY <1>1, ShelvedAre
  <2> QED
    BY <2>1 DEF SameAsShelved
<1>3. \A x \in AtShelves(fs, m) : x \in 1..m /\ \E q \in H : ShelfHit(fs, q) /\ q[1] = x
  <2> TAKE x \in AtShelves(fs, m)
  <2>1. PICK s : s = Shelved(fs[x], "product_in_hand")
    OBVIOUS
  <2>2. x \in 1..m /\ s # <<>>
    BY <2>1 DEF AtShelves
  <2>3. s \in Seq(ToSet(s))
    <3>1. PICK f : f = fs[x] /\ TypedFrame(f)
      BY <2>2 DEF TypedClip
    <3> QED
      BY <2>1, <3>1, ShelvedFacts
  <2>4. s[1] \in ToSet(s)
    <3>1. 1 \in DOMAIN s
      BY <2>2, <2>3
    <3> QED
      BY <3>1 DEF ToSet
  <2> QED
    BY <1>2, <2>1, <2>2, <2>4
<1>4. HandlingInv(h, fs, H)
  BY <1>1
<1>5. CASE h.first = 0 /\ \A q \in H : ~ ShelfHit(fs, q)
  <2>1. AtShelves(fs, m) = {}
    BY <1>3, <1>5
  <2> QED
    BY <1>5, <2>1
<1>6. CASE \E q \in H : h.first = q[1] /\ ShelfHit(fs, q)
  <2>1. PICK q \in H : h.first = q[1] /\ ShelfHit(fs, q)
    BY <1>6
  <2>2. h.first \in AtShelves(fs, m)
    BY <1>2, <2>1 DEF AtShelves
  <2>3. \A x \in AtShelves(fs, m) : h.first \in Int /\ x \in Int /\ h.first <= x
    <3> TAKE x \in AtShelves(fs, m)
    <3>1. PICK r \in H : ShelfHit(fs, r) /\ r[1] = x
      BY <1>3
    <3>2. h.first <= r[1]
      BY <1>4, <3>1 DEF HandlingInv
    <3> QED
      BY <1>2, <2>1, <3>1, <3>2
  <2>4. Min(AtShelves(fs, m)) = h.first
    BY <2>2, <2>3, MinIs
  <2> QED
    BY <2>2, <2>4
<1> QED
  BY <1>4, <1>5, <1>6 DEF HandlingInv, ShelfHit

LEMMA GroupCounted ==
  ASSUME NEW fs, TypedClip(fs), NEW m \in Nat, m <= Len(fs), NEW g, GroupInv(g, fs, m)
  PROVE  g.n = Max({0} \cup {Len(Shelved(fs[i], "person")) : i \in 1..m})
<1>1. \A x \in 1..m : Len(Shelved(fs[x], "person")) \in Nat
  <2> TAKE x \in 1..m
  <2>1. PICK f : f = fs[x] /\ TypedFrame(f)
    BY DEF TypedClip
  <2> QED
    BY <2>1, ShelvedFacts
<1> DEFINE S == {0} \cup {Len(Shelved(fs[i], "person")) : i \in 1..m}
<1>2. g.n \in S /\ g.n \in Nat
  BY DEF GroupInv
<1>3. \A y \in S : y \in Int /\ y <= g.n
  BY <1>1 DEF GroupInv
<1> HIDE DEF S
<1>4. Max(S) = g.n
  BY <1>2, <1>3, MaxIs
<1> QED
  BY <1>4 DEF S

(* After each frame the accumulators say what counting at once would say, for  *)
(* any clip, zones, views and thresholds.                                      *)
THEOREM EvidenceIsCounted == ScoringSpec => []EvidenceAccumulates
<1>1. ClipInv /\ ScanInv => EvidenceAccumulates
  <2> SUFFICES ASSUME ClipInv, ScanInv, phase = "scan" PROVE EvidenceAccumulates
    BY DEF EvidenceAccumulates
  <2>1. PICK m \in Nat : m = k - 1 /\ m <= Len(frames)
    BY DEF ClipInv, TypedClip
  <2>2. TypedClip(frames) /\ AccInv(acc, frames, m)
    BY <2>1 DEF ClipInv, ScanInv
  <2>3. PICK fs : fs = frames
    OBVIOUS
  <2>4. /\ SignalInv(acc.openBag, fs, Hits(fs, Places(fs, m + 1, 0), "open_bag"))
        /\ SignalInv(acc.bag, fs, Hits(fs, Places(fs, m + 1, 0), "bag"))
        /\ HandlingInv(acc.handling, fs, Hits(fs, Places(fs, m + 1, 0), "product_in_hand"))
        /\ ConcealInv(acc.conceal, fs, Hits(fs, Places(fs, m + 1, 0), "concealment"))
        /\ EpisodeInv(acc.handling, fs, m) /\ GroupInv(acc.group, fs, m)
    BY <2>2, <2>3 DEF AccInv, Evidence
  <2>5. PICK openBag : openBag = acc.openBag
    OBVIOUS
  <2>6. PICK bag : bag = acc.bag
    OBVIOUS
  <2>7. Counted(openBag, "open_bag", m)
    BY <2>1, <2>2, <2>3, <2>4, <2>5, SignalCounted
  <2>8. Counted(bag, "bag", m)
    BY <2>1, <2>2, <2>3, <2>4, <2>6, SignalCounted
  <2>9. PICK h : h = acc.handling
    OBVIOUS
  <2>10. h.first = IF AtShelves(frames, m) = {} THEN 0 ELSE Min(AtShelves(frames, m))
    BY <2>1, <2>2, <2>3, <2>4, <2>9, HandlingCounted
  <2>11. PICK g : g = acc.group
    OBVIOUS
  <2>12. g.n = Max({0} \cup {Len(Shelved(frames[i], "person")) : i \in 1..m})
    BY <2>1, <2>2, <2>3, <2>4, <2>11, GroupCounted
  <2>13. acc.conceal.n = Cardinality(Sightings("concealment", 1..m))
    BY <2>1, <2>2, <2>3, <2>4, SightingsAre DEF ConcealInv
  <2>14. h.episodes = Cardinality({i \in AtShelves(frames, m) : i - 1 \notin AtShelves(frames, m)})
    BY <2>3, <2>4, <2>9 DEF EpisodeInv, Begins
  <2>15. AtShelves(frames, m) = {i \in 1..m : Shelved(frames[i], "product_in_hand") # <<>>}
    BY DEF AtShelves
  <2> QED
    BY <2>1, <2>5, <2>6, <2>7, <2>8, <2>9, <2>10, <2>11, <2>12, <2>13, <2>14, <2>15, Zenon
    DEF EvidenceAccumulates, Counted
<1> QED
  BY <1>1, ClipAndScan, PTL

-----------------------------------------------------------------------------
(* What the events are made of: the line of sightings of persons, and the      *)
(* timeline of each track, which is the part of the line with its name.        *)
SeenAt(e, i, y) ==
    /\ frames[i][y].cue = "person" /\ e.track = frames[i][y].track
    /\ e.frame = i /\ e.zones = ZonesAt(frames[i][y].at)
Sighting(e) == \E i \in DOMAIN frames : \E y \in DOMAIN frames[i] : SeenAt(e, i, y)
Line(line) ==
    /\ line \in Seq(ToSet(line)) /\ Len(line) = Cardinality(Sightings("person", DOMAIN frames))
    /\ \A e \in ToSet(line) : Sighting(e)
    /\ \A i \in DOMAIN frames : \A y \in DOMAIN frames[i] :
         frames[i][y].cue = "person" => \E e \in ToSet(line) : SeenAt(e, i, y)

LEMMA LineIs ==
  ASSUME TypedClip(frames), NEW a, AccInv(a, frames, Len(frames))
  PROVE  Line(a.line)
<1>1. PICK m \in Nat : m = Len(frames) /\ DOMAIN frames = 1..m
  BY DEF TypedClip
<1>2. PICK H : H = Hits(frames, Places(frames, m + 1, 0), "person")
  OBVIOUS
<1>3. LineInv(a.line, frames, H)
  BY <1>1, <1>2 DEF AccInv, Evidence
<1>4. H = Sightings("person", DOMAIN frames)
  BY <1>1, <1>2, SightingsAre
<1>5. \A i \in DOMAIN frames : \A y \in DOMAIN frames[i] :
        frames[i][y].cue = "person" => <<i, y>> \in H
  BY <1>4 DEF Sightings
<1>6. \A q \in H : /\ q[1] \in DOMAIN frames /\ q[2] \in DOMAIN frames[q[1]]
                   /\ frames[q[1]][q[2]].cue = "person"
  BY <1>4 DEF Sightings
<1>7. ASSUME NEW e \in ToSet(a.line) PROVE Sighting(e)
  <2>1. PICK q \in H : EntryOf(e, frames, q)
    BY <1>3 DEF LineInv
  <2>2. SeenAt(e, q[1], q[2])
    BY <1>6, <2>1 DEF EntryOf, At, SeenAt
  <2> QED
    BY <1>6, <2>2 DEF Sighting
<1>8. ASSUME NEW i \in DOMAIN frames, NEW y \in DOMAIN frames[i], frames[i][y].cue = "person"
      PROVE  \E e \in ToSet(a.line) : SeenAt(e, i, y)
  <2>1. <<i, y>> \in H
    BY <1>5, <1>8
  <2>2. PICK e \in ToSet(a.line) : EntryOf(e, frames, <<i, y>>)
    BY <1>3, <2>1 DEF LineInv
  <2>3. SeenAt(e, i, y)
    BY <1>8, <2>2 DEF EntryOf, At, SeenAt
  <2> QED
    BY <2>3
<1> QED
  BY <1>3, <1>4, <1>7, <1>8 DEF Line, LineInv

(* A sighting is of a person in the zones that it names.                       *)
LEMMA SightingFacts ==
  ASSUME TypedClip(frames), NEW e, Sighting(e)
  PROVE  /\ e.track \in Ids /\ e.track \in Int /\ e.frame \in DOMAIN frames /\ e.frame \in Nat
         /\ e.zones \in Seq(ToSet(e.zones)) /\ ToSet(e.zones) \subseteq ToSet(Zones)
         /\ \A z \in ToSet(e.zones) : e.frame \in PersonIn(e.track, z.id)
         /\ \A type : ByType(e, type) # 0 <=> type \in TypesIn(e)
         /\ \A type : ByType(e, type) # 0 => \E z \in ToSet(e.zones) : z.type = type /\ z.id = ByType(e, type)
<1>1. PICK i \in DOMAIN frames : \E y \in DOMAIN frames[i] : SeenAt(e, i, y)
  BY DEF Sighting
<1>2. PICK y \in DOMAIN frames[i] : SeenAt(e, i, y)
  BY <1>1
<1>3. PICK d : d = frames[i][y]
  OBVIOUS
<1>4. TypedDet(d)
  BY <1>3 DEF TypedClip, TypedFrame
<1>5. e.track \in Ids /\ e.track \in Int /\ e.frame \in DOMAIN frames /\ e.frame \in Nat
  BY <1>2, <1>3, <1>4 DEF SeenAt, TypedDet, TypedClip
<1>6. e.zones \in Seq(ToSet(e.zones)) /\ ToSet(e.zones) \subseteq ToSet(Zones)
  BY <1>2, ZonesAtFacts DEF SeenAt
<1>7. ASSUME NEW z \in ToSet(e.zones) PROVE e.frame \in PersonIn(e.track, z.id)
  <2>1. d \in ToSet(frames[i]) /\ d.cue = "person" /\ d.track = e.track /\ z \in ToSet(ZonesAt(d.at))
    BY <1>2, <1>3 DEF SeenAt, ToSet
  <2> QED
    BY <1>2, <2>1 DEF SeenAt, PersonIn
<1>8. ASSUME NEW type
      PROVE  /\ ByType(e, type) # 0 <=> type \in TypesIn(e)
             /\ ByType(e, type) # 0 => \E z \in ToSet(e.zones) : z.type = type /\ z.id = ByType(e, type)
  <2>1. PICK zs : zs = OfTypes(e.zones, {type})
    OBVIOUS
  <2>2. zs \in Seq(ToSet(zs)) /\ ToSet(zs) = {z \in ToSet(e.zones) : z.type \in {type}}
    BY <1>6, <2>1, OfTypesFacts
  <2>3. \A z \in ToSet(zs) : z.id # 0
    BY <1>6, <2>2, ZonesTyped
  <2>4. /\ LastId(zs) = 0 <=> zs = <<>>
        /\ zs # <<>> => \E z \in ToSet(zs) : z.id = LastId(zs)
    BY <2>2, <2>3, EndIds
  <2>5. zs = <<>> <=> ToSet(zs) = {}
    <3>1. zs # <<>> => 1 \in DOMAIN zs
      BY <2>2
    <3>2. zs = <<>> => DOMAIN zs = {}
      OBVIOUS
    <3> QED
      BY <3>1, <3>2 DEF ToSet
  <2>6. ByType(e, type) = LastId(zs)
    BY <2>1 DEF ByType
  <2> QED
    BY <2>2, <2>4, <2>5, <2>6 DEF TypesIn
<1> QED
  BY <1>5, <1>6, <1>7, <1>8

(* The timeline of a track holds its sightings and no others.                  *)
LEMMA TimelineFacts ==
  ASSUME NEW a, Line(a.line), NEW t
  PROVE  /\ Timeline(a, t) \in Seq(ToSet(Timeline(a, t)))
         /\ Len(Timeline(a, t)) <= Len(a.line)
         /\ ToSet(Timeline(a, t)) = {e \in ToSet(a.line) : e.track = t}
<1>1. PICK line : line = a.line
  OBVIOUS
<1> DEFINE K == {i \in DOMAIN line : line[i].track = t}
<1>2. Timeline(a, t) = Pick(line, K)
  BY <1>1 DEF Timeline
<1>3. PICK n \in Nat : n = Len(line) /\ DOMAIN line = 1..n
  BY <1>1 DEF Line
<1>4. K \in SUBSET (1..n)
  BY <1>3
<1>5. {line[i] : i \in K} = {e \in ToSet(line) : e.track = t}
  BY DEF ToSet
<1> HIDE DEF K
<1>6. /\ Pick(line, K) \in Seq(ToSet(Pick(line, K)))
      /\ Len(Pick(line, K)) = Cardinality(K) /\ Cardinality(K) <= n
      /\ ToSet(Pick(line, K)) = {line[i] : i \in K}
  BY <1>3, <1>4, PickFacts
<1> QED
  BY <1>1, <1>2, <1>3, <1>5, <1>6

(* Of some tracks the first is one of them; 0 stands for none.                 *)
LEMMA FirstTrackFacts ==
  ASSUME NEW a, Line(a.line), NEW T, T \subseteq Tracks(a)
  PROVE  (T = {} /\ FirstTrack(a, T) = 0) \/ FirstTrack(a, T) \in T
<1> DEFINE at == {i \in DOMAIN a.line : a.line[i].track \in T}
<1>1. PICK n \in Nat : DOMAIN a.line = 1..n
  BY DEF Line
<1>2. CASE at = {}
  <2>1. T = {}
    BY <1>2 DEF Tracks, ToSet
  <2> QED
    BY <1>2, <2>1 DEF FirstTrack
<1>3. CASE at # {}
  <2>1. at \in SUBSET Nat
    BY <1>1
  <2>2. FirstTrack(a, T) = a.line[Min(at)].track
    BY <1>3 DEF FirstTrack
  <2>3. Min(at) \in at
    <3> HIDE DEF at
    <3> QED
      BY <1>3, <2>1, MinIsLeast
  <2> QED
    BY <2>2, <2>3
<1> QED
  BY <1>2, <1>3

(* What is read off the timeline of a track.                                   *)
Own(line, t) == line \in Seq(ToSet(line)) /\ \A e \in ToSet(line) : Sighting(e) /\ e.track = t

LEMMA OwnTimeline ==
  ASSUME NEW a, Line(a.line), NEW t
  PROVE  Own(Timeline(a, t), t)
<1>1. PICK line : line = Timeline(a, t)
  OBVIOUS
<1>2. line \in Seq(ToSet(line)) /\ ToSet(line) = {e \in ToSet(a.line) : e.track = t}
  BY <1>1, TimelineFacts
<1> QED
  BY <1>1, <1>2 DEF Own, Line

(* The zone of the first visit is that of a sighting of the track.             *)
LEMMA ZoneOfFirstFacts ==
  ASSUME TypedClip(frames), NEW line, NEW t, Own(line, t), NEW type, type \in Visited(line)
  PROVE  \E e \in ToSet(line) : ByType(e, type) # 0 /\ ZoneOfFirst(line, type) = ByType(e, type)
<1> DEFINE in == {i \in DOMAIN line : ByType(line[i], type) # 0}
<1>1. PICK n \in Nat : DOMAIN line = 1..n
  BY DEF Own
<1>2. in \in SUBSET Nat
  BY <1>1
<1>3. in # {}
  <2>1. PICK e \in ToSet(line) : type \in TypesIn(e)
    BY DEF Visited
  <2>2. ByType(e, type) # 0
    BY <2>1, SightingFacts DEF Own
  <2> QED
    BY <2>1, <2>2 DEF ToSet
<1>4. ZoneOfFirst(line, type) = ByType(line[Min(in)], type)
  BY <1>3 DEF ZoneOfFirst
<1>5. Min(in) \in in
  <2> HIDE DEF in
  <2> QED
    BY <1>2, <1>3, MinIsLeast
<1> QED
  BY <1>4, <1>5 DEF ToSet

(* The longest stay is a number of sightings; if there is one, its zone is that *)
(* of a sighting in a high-value zone.                                         *)
LEMMA BestRunFacts ==
  ASSUME NEW line, NEW t, Own(line, t)
  PROVE  /\ BestRun(line).best \in Nat
         /\ BestRun(line).best > 0 =>
              \E e \in ToSet(line) : /\ ByType(e, "HighValue") # 0
                                     /\ BestRun(line).zone = ByType(e, "HighValue")
<1> DEFINE Along(i) == {j \in 1..i : \A h \in j..i : ByType(line[h], "HighValue") # 0}
           Run(i) == Cardinality(Along(i))
           Runs == {0} \cup {Run(i) : i \in DOMAIN line}
<1>1. PICK n \in Nat : DOMAIN line = 1..n
  BY DEF Own
<1>2. \A i \in 1..n : Run(i) \in Nat /\ (Run(i) > 0 => ByType(line[i], "HighValue") # 0)
  <2> TAKE i \in 1..n
  <2>1. Along(i) \in SUBSET (1..i) /\ i \in Nat
    OBVIOUS
  <2>2. Run(i) \in Nat
    <3> HIDE DEF Along
    <3> QED
      BY <2>1, PlacesFinite
  <2>3. ASSUME ByType(line[i], "HighValue") = 0 PROVE Run(i) = 0
    <3>1. \A j \in 1..i : i \in j..i
      OBVIOUS
    <3>2. Along(i) = {}
      BY <2>3, <3>1
    <3> QED
      BY <3>2, FS_EmptySet
  <2> QED
    BY <2>2, <2>3
<1> HIDE DEF Along, Run
<1>3. Runs \in SUBSET Nat /\ Runs # {}
  BY <1>1, <1>2
<1>4. IsFiniteSet(Runs)
  <2>1. PICK g : g = [i \in 1..n |-> Run(i)]
    OBVIOUS
  <2>2. IsFiniteSet(1..n)
    BY FS_Interval
  <2>3. IsFiniteSet({g[i] : i \in 1..n})
    <3>1. DOMAIN g = 1..n
      BY <2>1
    <3> QED
      BY <2>2, <3>1, FiniteImage
  <2>4. {g[i] : i \in 1..n} = {Run(i) : i \in DOMAIN line}
    BY <1>1, <2>1
  <2>5. IsFiniteSet({0})
    BY FS_Singleton
  <2> QED
    BY <2>3, <2>4, <2>5, FS_Union
<1>5. PICK best : best = Max(Runs)
  OBVIOUS
<1>6. best \in Runs
  <2> HIDE DEF Runs
  <2>1. Runs \in SUBSET Int
    BY <1>3
  <2> QED
    BY <1>3, <1>4, <1>5, <2>1, MaxIsGreatest
<1>7. BestRun(line) = [best |-> best,
        zone |-> IF best = 0 THEN 0
                 ELSE ByType(line[Min({i \in DOMAIN line : Run(i) = best})], "HighValue")]
  BY <1>5 DEF BestRun, Run, Along
<1>8. ASSUME best > 0
      PROVE  \E e \in ToSet(line) : /\ ByType(e, "HighValue") # 0
                                    /\ BestRun(line).zone = ByType(e, "HighValue")
  <2> DEFINE At0 == {i \in DOMAIN line : Run(i) = best}
  <2>1. At0 \in SUBSET Nat /\ At0 # {}
    BY <1>1, <1>6, <1>8
  <2>2. Min(At0) \in At0
    <3> HIDE DEF At0
    <3> QED
      BY <2>1, MinIsLeast
  <2>3. PICK i \in DOMAIN line : i = Min(At0) /\ Run(i) = best
    BY <2>2
  <2>4. BestRun(line).zone = ByType(line[i], "HighValue")
    BY <1>7, <1>8, <2>3
  <2>5. ByType(line[i], "HighValue") # 0
    BY <1>1, <1>2, <1>8, <2>3
  <2> QED
    BY <2>4, <2>5 DEF ToSet
<1> QED
  BY <1>3, <1>6, <1>7, <1>8

(* A track comes to a shelf when it has been seen at one, and at most as often *)
(* as it was seen.                                                             *)
LEMMA EntriesFacts ==
  ASSUME NEW line, NEW t, Own(line, t)
  PROVE  /\ Entries(line) \subseteq DOMAIN line /\ Entries(line) \in SUBSET Nat
         /\ Cardinality(Entries(line)) \in Nat /\ Cardinality(Entries(line)) <= Len(line)
         /\ Entries(line) # {} <=> Visited(line) \cap ShelfLike # {}
         /\ Cardinality(Entries(line)) > 0 <=> Entries(line) # {}
<1> DEFINE at(i) == TypesIn(line[i]) \cap ShelfLike # {}
<1>1. PICK n \in Nat : n = Len(line) /\ DOMAIN line = 1..n
  BY DEF Own
<1>2. Entries(line) = {i \in DOMAIN line : at(i) /\ (i = 1 \/ ~at(i - 1))}
  BY DEF Entries
<1>3. Entries(line) \in SUBSET (1..n)
  BY <1>1, <1>2
<1>4. IsFiniteSet(Entries(line)) /\ Cardinality(Entries(line)) \in Nat /\ Cardinality(Entries(line)) <= n
  BY <1>3, PlacesFinite
<1>5. Cardinality(Entries(line)) = 0 <=> Entries(line) = {}
  BY <1>4, FS_EmptySet
<1>6. ASSUME Entries(line) # {} PROVE Visited(line) \cap ShelfLike # {}
  <2>1. PICK i \in DOMAIN line : at(i)
    BY <1>2, <1>6
  <2>2. line[i] \in ToSet(line)
    BY DEF ToSet
  <2> QED
    BY <2>1, <2>2 DEF Visited
<1>7. ASSUME Visited(line) \cap ShelfLike # {} PROVE Entries(line) # {}
  <2> DEFINE S == {i \in DOMAIN line : at(i)}
  <2>1. S # {}
    BY <1>7 DEF Visited, ToSet
  <2>2. S \in SUBSET Nat
    BY <1>1
  <2>3. Min(S) \in S /\ \A x \in S : Min(S) <= x
    <3> HIDE DEF S
    <3> QED
      BY <2>1, <2>2, MinIsLeast
  <2>4. PICK x : x = Min(S)
    OBVIOUS
  <2>5. x \in 1..n /\ at(x) /\ \A y \in 1..n : at(y) => x <= y
    BY <1>1, <2>3, <2>4
  <2> HIDE DEF at, S
  <2>6. x = 1 \/ ~ at(x - 1)
    BY <2>5
  <2> QED
    BY <1>1, <1>2, <2>5, <2>6
<1> QED
  BY <1>1, <1>3, <1>4, <1>5, <1>6, <1>7

(* The ids of the zones are their keys.                                        *)
LEMMA ZonesUnique ==
  ASSUME NEW y \in ToSet(Zones), NEW z \in ToSet(Zones), y.id = z.id
  PROVE  y = z
BY ZonesAssumption DEF ToSet

(* A zone id that a sighting names.                                            *)
LEMMA ByTypeFacts ==
  ASSUME TypedClip(frames), NEW e, Sighting(e), NEW type, ByType(e, type) # 0
  PROVE  /\ e.frame \in PersonIn(e.track, ByType(e, type))
         /\ ByType(e, type) \in OfType(type) /\ ByType(e, type) \in ZoneIds
<1>1. PICK z \in ToSet(e.zones) : z.type = type /\ z.id = ByType(e, type)
  BY SightingFacts
<1>2. z \in ToSet(Zones) /\ e.frame \in PersonIn(e.track, z.id)
  BY SightingFacts
<1> QED
  BY <1>1, <1>2 DEF OfType, ZoneIds

(* The first index of some types is the frame of a sighting there, the least.  *)
LEMMA FirstIndexFacts ==
  ASSUME TypedClip(frames), NEW line, NEW t, Own(line, t), NEW T, Visited(line) \cap T # {}
  PROVE  /\ \E e \in ToSet(line) : TypesIn(e) \cap T # {} /\ FirstIndex(line, T) = e.frame
         /\ \A e \in ToSet(line) : TypesIn(e) \cap T # {} => FirstIndex(line, T) <= e.frame
<1> DEFINE S == {e.frame : e \in {x \in ToSet(line) : TypesIn(x) \cap T # {}}}
<1>1. S # {}
  BY DEF Visited
<1>2. S \in SUBSET Nat
  BY SightingFacts DEF Own
<1>3. FirstIndex(line, T) = Min(S)
  BY DEF FirstIndex
<1>4. Min(S) \in S /\ \A x \in S : Min(S) <= x
  <2> HIDE DEF S
  <2> QED
    BY <1>1, <1>2, MinIsLeast
<1> QED
  BY <1>3, <1>4

(* Whoever has left unpaid was at a shelf, then at the exit that the event     *)
(* names, and at no checkout in any frame of the clip.                         *)
LEMMA LeftFacts ==
  ASSUME TypedClip(frames), NEW a, Line(a.line), NEW t, LeftUnpaid(Timeline(a, t)), NEW zone,
         zone = ZoneOfFirst(Timeline(a, t), "Exit")
  PROVE  /\ zone \in ZoneIds /\ zone \in OfType("Exit")
         /\ \E i \in PersonIn(t, zone), j \in AtAnyShelf(t) : j <= i
         /\ \A c \in OfType("Checkout") : PersonIn(t, c) = {}
<1>1. PICK line : line = Timeline(a, t)
  OBVIOUS
<1>2. Own(line, t)
  BY <1>1, OwnTimeline
<1>3. /\ Visited(line) \cap ShelfLike # {} /\ "Exit" \in Visited(line) /\ "Checkout" \notin Visited(line)
      /\ FirstIndex(line, {"Exit"}) >= FirstIndex(line, ShelfLike)
  BY <1>1 DEF LeftUnpaid
<1>4. PICK e \in ToSet(line) : ByType(e, "Exit") # 0 /\ zone = ByType(e, "Exit")
  BY <1>1, <1>2, <1>3, ZoneOfFirstFacts
<1>5. Sighting(e) /\ e.track = t
  BY <1>2, <1>4 DEF Own
<1>6. zone \in ZoneIds /\ zone \in OfType("Exit") /\ e.frame \in PersonIn(t, zone)
  BY <1>4, <1>5, ByTypeFacts
<1>7. "Exit" \in TypesIn(e) /\ e.frame \in Nat
  BY <1>4, <1>5, SightingFacts
<1>8. PICK x \in ToSet(line) : TypesIn(x) \cap {"Exit"} # {} /\ FirstIndex(line, {"Exit"}) = x.frame
  BY <1>2, <1>3, FirstIndexFacts
<1>9. x.frame <= e.frame
  <2>1. Visited(line) \cap {"Exit"} # {}
    BY <1>3
  <2>2. \A y \in ToSet(line) : TypesIn(y) \cap {"Exit"} # {} => FirstIndex(line, {"Exit"}) <= y.frame
    BY <1>2, <2>1, FirstIndexFacts
  <2> QED
    BY <1>7, <1>8, <2>2
<1>10. PICK s \in ToSet(line) : TypesIn(s) \cap ShelfLike # {} /\ FirstIndex(line, ShelfLike) = s.frame
  BY <1>2, <1>3, FirstIndexFacts
<1>11. Sighting(s) /\ s.track = t /\ Sighting(x)
  BY <1>2 DEF Own
<1>12. s.frame \in Nat /\ x.frame \in Nat
  BY <1>11, SightingFacts
<1>13. s.frame <= e.frame
  BY <1>3, <1>7, <1>8, <1>9, <1>10, <1>12
<1>14. s.frame \in AtAnyShelf(t)
  <2>1. PICK z \in ToSet(s.zones) : z.type \in ShelfLike
    BY <1>10 DEF TypesIn
  <2>2. z \in ToSet(Zones) /\ s.frame \in PersonIn(t, z.id)
    BY <1>11, SightingFacts
  <2> QED
    BY <2>1, <2>2 DEF AtAnyShelf
<1>15. ASSUME NEW c \in OfType("Checkout"), PersonIn(t, c) # {} PROVE FALSE
  <2>1. PICK y \in ToSet(Zones) : y.type = "Checkout" /\ y.id = c
    BY DEF OfType
  <2>2. PICK i \in DOMAIN frames : \E d \in ToSet(frames[i]) :
          d.cue = "person" /\ d.track = t /\ \E z \in ToSet(ZonesAt(d.at)) : z.id = c
    BY <1>15 DEF PersonIn
  <2>3. PICK n \in DOMAIN frames[i] : /\ frames[i][n].cue = "person" /\ frames[i][n].track = t
                                      /\ \E z \in ToSet(ZonesAt(frames[i][n].at)) : z.id = c
    BY <2>2 DEF ToSet
  <2>4. PICK z \in ToSet(ZonesAt(frames[i][n].at)) : z.id = c
    BY <2>3
  <2>5. z \in ToSet(Zones)
    BY ZonesAtFacts
  <2>6. z.type = "Checkout"
    BY <2>1, <2>4, <2>5, ZonesUnique
  <2>7. PICK r \in ToSet(a.line) : SeenAt(r, i, n)
    BY <2>3 DEF Line
  <2>8. r \in ToSet(line)
    BY <1>1, <2>3, <2>7, TimelineFacts DEF SeenAt
  <2>9. "Checkout" \in TypesIn(r)
    BY <2>4, <2>6, <2>7 DEF TypesIn, SeenAt
  <2> QED
    BY <1>3, <2>8, <2>9 DEF Visited
<1> QED
  BY <1>6, <1>13, <1>14, <1>15

(* The tracks that visited some types, and those of the highest value.         *)
LEMMA TracksFacts ==
  ASSUME TypedClip(frames), NEW a, Line(a.line)
  PROVE  \A t \in Tracks(a) : t \in Ids /\ t \in Int /\ t # 0 /\ \E e \in ToSet(a.line) : Sighting(e) /\ e.track = t
<1> TAKE t \in Tracks(a)
<1>1. PICK e \in ToSet(a.line) : e.track = t
  BY DEF Tracks
<1>2. Sighting(e)
  BY DEF Line
<1>3. t \in Ids /\ t \in Int
  BY <1>1, <1>2, SightingFacts
<1> QED
  BY <1>1, <1>2, <1>3, IdsNotZero

LEMMA VisitorFacts ==
  ASSUME TypedClip(frames), NEW a, Line(a.line), NEW T, NEW t, t = FirstTrack(a, Visitors(a, T))
  PROVE  \/ t = 0
         \/ t \in Tracks(a) /\ t \in Ids /\ Visited(Timeline(a, t)) \cap T # {}
<1>1. Visitors(a, T) \subseteq Tracks(a)
  BY DEF Visitors
<1>2. PICK V : V = Visitors(a, T)
  OBVIOUS
<1>3. (V = {} /\ t = 0) \/ t \in V
  BY <1>1, <1>2, FirstTrackFacts
<1> QED
  BY <1>1, <1>2, <1>3, TracksFacts DEF Visitors

LEMMA HighestFacts ==
  ASSUME TypedClip(frames), NEW a, Line(a.line), NEW value, NEW t, t = Highest(a, value), t # 0
  PROVE  t \in Tracks(a) /\ t \in Ids /\ value[t] > 0
<1>1. PICK V : V = {x \in Tracks(a) : value[x] > 0 /\ \A u \in Tracks(a) : value[u] <= value[x]}
  OBVIOUS
<1>2. V \subseteq Tracks(a)
  BY <1>1
<1>3. t = FirstTrack(a, V)
  BY <1>1 DEF Highest
<1>4. t \in V
  BY <1>2, <1>3, FirstTrackFacts
<1> QED
  BY <1>1, <1>4, TracksFacts

(* A zone that something was seen in, and a person that was seen, or none.     *)
Occupied(id) ==
    \E i \in DOMAIN frames : \E y \in DOMAIN frames[i] :
        \E z \in ToSet(ZonesAt(frames[i][y].at)) : z.id = id
Place0(id) ==
    \/ id = 0
    \/ id \in ZoneIds /\ Occupied(id)
Person0(t) ==
    \/ t = 0
    \/ t \in Ids /\ \E i \in DOMAIN frames : \E d \in ToSet(frames[i]) :
                         d.cue = "person" /\ d.track = t

LEMMA AtIsPlace ==
  ASSUME NEW i \in DOMAIN frames, NEW y \in DOMAIN frames[i], NEW T, NEW id,
         id \in IdsAt(frames[i][y].at, T)
  PROVE  Place0(id)
<1>1. id \in ZoneIds
  BY IdsAtFacts
<1>2. Occupied(id)
  BY DEF IdsAt, Occupied
<1> QED
  BY <1>1, <1>2 DEF Place0

LEMMA PersonAtIsIn ==
  ASSUME TypedClip(frames), NEW i \in DOMAIN frames, NEW y \in DOMAIN frames[i],
         frames[i][y].cue = "person", NEW T, NEW id, id \in IdsAt(frames[i][y].at, T), NEW t,
         t = frames[i][y].track
  PROVE  PersonIn(t, id) # {} /\ Place0(id) /\ id # 0 /\ t \in Ids /\ Person0(t)
<1>1. PICK d : d = frames[i][y]
  OBVIOUS
<1>2. d \in ToSet(frames[i]) /\ d.cue = "person" /\ d.track = t
  BY <1>1 DEF ToSet
<1>3. \E z \in ToSet(ZonesAt(d.at)) : z.id = id
  BY <1>1 DEF IdsAt
<1>4. i \in PersonIn(t, id)
  BY <1>2, <1>3 DEF PersonIn
<1>5. id # 0
  BY IdsAtFacts
<1>6. t \in Ids
  <2>1. TypedDet(d)
    BY <1>1 DEF TypedClip, TypedFrame
  <2> QED
    BY <1>2, <2>1 DEF TypedDet
<1> QED
  BY <1>2, <1>4, <1>5, <1>6, AtIsPlace DEF Person0

LEMMA InIsPlace ==
  ASSUME NEW t, NEW id, PersonIn(t, id) # {}
  PROVE  Occupied(id)
BY DEF PersonIn, Occupied, ToSet

LEMMA SomebodyIsPerson ==
  ASSUME TypedClip(frames), NEW t, Somebody(frames, t)
  PROVE  Person0(t)
<1>1. CASE t = 0
  BY <1>1 DEF Person0
<1>2. CASE t \in PersonIds(frames)
  <2>1. t \in Ids
    BY <1>2, PersonIdsAreIds
  <2>2. \E i \in DOMAIN frames : \E d \in ToSet(frames[i]) : IsTracked(d) /\ d.track = t
    BY <1>2 DEF PersonIds, ToSet
  <2> QED
    BY <2>1, <2>2 DEF Person0, IsTracked
<1> QED
  BY <1>1, <1>2 DEF Somebody

LEMMA TrackIsPerson ==
  ASSUME TypedClip(frames), NEW a, Line(a.line), NEW t \in Tracks(a)
  PROVE  Person0(t)
<1>1. t \in Ids
  BY TracksFacts
<1>2. PICK e \in ToSet(a.line) : Sighting(e) /\ e.track = t
  BY TracksFacts
<1>3. PICK i \in DOMAIN frames : \E y \in DOMAIN frames[i] : SeenAt(e, i, y)
  BY <1>2 DEF Sighting
<1>4. \E d \in ToSet(frames[i]) : d.cue = "person" /\ d.track = t
  BY <1>2, <1>3 DEF SeenAt, ToSet
<1> QED
  BY <1>1, <1>4 DEF Person0

LEMMA OrPlace ==
  ASSUME NEW x, NEW y, Place0(x), Place0(y)
  PROVE  Place0(Or(x, y))
BY DEF Or, Place0

LEMMA OrPerson ==
  ASSUME NEW x, NEW y, Person0(x), Person0(y)
  PROVE  Person0(Or(x, y))
BY DEF Or, Person0

(* The accumulators at the end of the clip.                                    *)
HitPlaces(H, c) == \A q \in H : /\ q[1] \in DOMAIN frames /\ q[2] \in DOMAIN frames[q[1]]
                                /\ q[1] \in Nat /\ q[1] # 0
                                /\ At(frames, q) = frames[q[1]][q[2]] /\ At(frames, q).cue = c
LEMMA FinalHits ==
  ASSUME TypedClip(frames), NEW c
  PROVE  /\ Hits(frames, Places(frames, Len(frames) + 1, 0), c) = Sighted(c)
         /\ HitPlaces(Sighted(c), c)
<1>1. PICK m \in Nat : m = Len(frames) /\ DOMAIN frames = 1..m
  BY DEF TypedClip
<1>2. Hits(frames, Places(frames, m + 1, 0), c) = Sighted(c)
  BY <1>1, SightingsAre DEF Sighted
<1>3. ASSUME NEW q \in Sighted(c)
      PROVE  /\ q[1] \in DOMAIN frames /\ q[2] \in DOMAIN frames[q[1]]
             /\ q[1] \in Nat /\ q[1] # 0
             /\ At(frames, q) = frames[q[1]][q[2]] /\ At(frames, q).cue = c
  BY <1>1 DEF Sighted, Sightings, At
<1> QED
  BY <1>1, <1>2, <1>3 DEF HitPlaces

LEMMA SightedFinite ==
  ASSUME TypedClip(frames), NEW a, AccInv(a, frames, Len(frames)), NEW c
  PROVE  IsFiniteSet(Sighted(c)) /\ Cardinality(Sighted(c)) \in Nat
<1>1. PICK Q : Q = Places(frames, Len(frames) + 1, 0)
  OBVIOUS
<1>2. IsFiniteSet(Q)
  BY <1>1 DEF AccInv, Evidence
<1>3. Sighted(c) = Hits(frames, Q, c)
  BY <1>1, FinalHits
<1>4. Hits(frames, Q, c) \in SUBSET Q
  BY DEF Hits
<1> QED
  BY <1>2, <1>3, <1>4, FS_Subset, FS_CardinalityType

LEMMA SignalFacts ==
  ASSUME TypedClip(frames), NEW sig, NEW c, SignalInv(sig, frames, Sighted(c))
  PROVE  sig.n = Cardinality(Sighted(c)) /\ Place0(sig.zone) /\ Person0(sig.track)
<1>1. HitPlaces(Sighted(c), c)
  BY FinalHits
<1>2. Place0(sig.zone)
  <2>1. CASE sig.zone = 0
    BY <2>1 DEF Place0
  <2>2. CASE \E q \in Sighted(c) : sig.zone \in IdsAt(At(frames, q).at, ShelfLike)
    <3>1. PICK q \in Sighted(c) : sig.zone \in IdsAt(At(frames, q).at, ShelfLike)
      BY <2>2
    <3>2. q[1] \in DOMAIN frames /\ q[2] \in DOMAIN frames[q[1]] /\ At(frames, q) = frames[q[1]][q[2]]
      BY <1>1, <3>1 DEF HitPlaces
    <3>3. PICK id : id = sig.zone
      OBVIOUS
    <3> QED
      BY <3>1, <3>2, <3>3, AtIsPlace
  <2> QED
    BY <2>1, <2>2 DEF SignalInv
<1>3. Person0(sig.track)
  <2>1. PICK t : t = sig.track
    OBVIOUS
  <2> QED
    BY <2>1, SomebodyIsPerson DEF SignalInv
<1> QED
  BY <1>2, <1>3 DEF SignalInv

LEMMA HandlingFacts ==
  ASSUME TypedClip(frames), NEW h, HandlingInv(h, frames, Sighted("product_in_hand")),
         EpisodeInv(h, frames, Len(frames))
  PROVE  /\ Place0(h.zone) /\ Person0(h.track)
         /\ h.first > 0 <=> ProductAtShelf
         /\ h.episodes \in Nat
         /\ h.episodes <= Cardinality({f \in DOMAIN frames : Shelved(frames[f], "product_in_hand") # <<>>})
<1>1. HitPlaces(Sighted("product_in_hand"), "product_in_hand")
  BY FinalHits
<1>2. PICK m \in Nat : m = Len(frames) /\ DOMAIN frames = 1..m
  BY DEF TypedClip
<1>3. Place0(h.zone)
  <2>1. CASE h.zone = 0
    BY <2>1 DEF Place0
  <2>2. CASE \E q \in Sighted("product_in_hand") : h.zone \in IdsAt(At(frames, q).at, ShelfLike)
    <3>1. PICK q \in Sighted("product_in_hand") : h.zone \in IdsAt(At(frames, q).at, ShelfLike)
      BY <2>2
    <3>2. q[1] \in DOMAIN frames /\ q[2] \in DOMAIN frames[q[1]] /\ At(frames, q) = frames[q[1]][q[2]]
      BY <1>1, <3>1 DEF HitPlaces
    <3>3. PICK id : id = h.zone
      OBVIOUS
    <3> QED
      BY <3>1, <3>2, <3>3, AtIsPlace
  <2> QED
    BY <2>1, <2>2 DEF HandlingInv
<1>4. Person0(h.track)
  <2>1. PICK t : t = h.track
    OBVIOUS
  <2> QED
    BY <2>1, SomebodyIsPerson DEF HandlingInv
<1>5. SameAsShelved(frames, m, "product_in_hand", Sighted("product_in_hand"))
  BY <1>2, FinalHits, ShelvedAre
<1>6. h.first > 0 <=> ProductAtShelf
  <2>1. CASE h.first = 0 /\ \A q \in Sighted("product_in_hand") : ~ ShelfHit(frames, q)
    <3>1. ASSUME NEW x \in 1..m, Shelved(frames[x], "product_in_hand") # <<>> PROVE FALSE
      <4>1. PICK s : s = Shelved(frames[x], "product_in_hand")
        OBVIOUS
      <4>2. s \in Seq(ToSet(s))
        <5>1. PICK f : f = frames[x] /\ TypedFrame(f)
          BY <1>2 DEF TypedClip
        <5> QED
          BY <4>1, <5>1, ShelvedFacts
      <4>3. 1 \in DOMAIN s
        BY <3>1, <4>1, <4>2
      <4>4. s[1] \in ToSet(s)
        BY <4>3 DEF ToSet
      <4> QED
        BY <1>5, <2>1, <4>1, <4>4 DEF SameAsShelved
    <3>2. ~ ProductAtShelf
      BY <1>2, <3>1 DEF ProductAtShelf, ToSet
    <3> QED
      BY <2>1, <3>2
  <2>2. CASE \E q \in Sighted("product_in_hand") : h.first = q[1] /\ ShelfHit(frames, q)
    <3>1. PICK q \in Sighted("product_in_hand") : h.first = q[1] /\ ShelfHit(frames, q)
      BY <2>2
    <3>2. Shelved(frames[q[1]], "product_in_hand") # <<>>
      BY <1>5, <3>1 DEF SameAsShelved
    <3>3. q[1] \in DOMAIN frames /\ q[1] \in Nat /\ q[1] # 0
      BY <1>1, <3>1 DEF HitPlaces
    <3>4. ProductAtShelf
      BY <3>2, <3>3 DEF ProductAtShelf, ToSet
    <3> QED
      BY <3>1, <3>3, <3>4
  <2> QED
    BY <2>1, <2>2 DEF HandlingInv, ShelfHit
<1>7. h.episodes = Cardinality(Begins(frames, m))
  BY <1>2 DEF EpisodeInv
<1>8. AtShelves(frames, m) = {f \in DOMAIN frames : Shelved(frames[f], "product_in_hand") # <<>>}
  BY <1>2 DEF AtShelves
<1>9. h.episodes \in Nat /\ h.episodes <= Cardinality(AtShelves(frames, m))
  <2>1. PICK S : S = AtShelves(frames, m)
    OBVIOUS
  <2>2. S \in SUBSET (1..m) /\ Begins(frames, m) \in SUBSET S
    BY <2>1 DEF AtShelves, Begins
  <2>3. IsFiniteSet(S)
    BY <2>2, PlacesFinite
  <2> QED
    BY <1>7, <2>1, <2>2, <2>3, FS_Subset, FS_CardinalityType
<1> QED
  BY <1>3, <1>4, <1>6, <1>8, <1>9

LEMMA ConcealFacts ==
  ASSUME TypedClip(frames), NEW c, ConcealInv(c, frames, Sighted("concealment"))
  PROVE  Place0(c.zone) /\ Person0(c.track)
<1>1. HitPlaces(Sighted("concealment"), "concealment")
  BY FinalHits
<1>2. Place0(c.zone)
  <2>1. CASE c.zone = 0
    BY <2>1 DEF Place0
  <2>2. CASE \E q \in Sighted("concealment") : c.zone \in IdsAt(At(frames, q).at, ShelfLike)
    <3>1. PICK q \in Sighted("concealment") : c.zone \in IdsAt(At(frames, q).at, ShelfLike)
      BY <2>2
    <3>2. q[1] \in DOMAIN frames /\ q[2] \in DOMAIN frames[q[1]] /\ At(frames, q) = frames[q[1]][q[2]]
      BY <1>1, <3>1 DEF HitPlaces
    <3>3. PICK id : id = c.zone
      OBVIOUS
    <3> QED
      BY <3>1, <3>2, <3>3, AtIsPlace
  <2> QED
    BY <2>1, <2>2 DEF ConcealInv
<1>3. Person0(c.track)
  <2>1. PICK t : t = c.track
    OBVIOUS
  <2> QED
    BY <2>1, SomebodyIsPerson DEF ConcealInv
<1> QED
  BY <1>2, <1>3

LEMMA HvFacts ==
  ASSUME TypedClip(frames), NEW hv, HvInv(hv, frames, Sighted("person"))
  PROVE  /\ hv.cues \subseteq {"person", "bag", "product"}
         /\ Place0(hv.zone) /\ Person0(hv.track)
         /\ hv.track # 0 => PersonIn(hv.track, hv.zone) # {}
<1>1. HitPlaces(Sighted("person"), "person")
  BY FinalHits
<1>2. CASE hv.zone = 0 /\ hv.track = 0
  BY <1>2 DEF HvInv, Place0, Person0
<1>3. CASE \E q \in Sighted("person") : /\ hv.zone \in IdsAt(At(frames, q).at, {"HighValue"})
                                        /\ hv.track = At(frames, q).track
  <2>1. PICK q \in Sighted("person") : /\ hv.zone \in IdsAt(At(frames, q).at, {"HighValue"})
                                       /\ hv.track = At(frames, q).track
    BY <1>3
  <2>2. /\ q[1] \in DOMAIN frames /\ q[2] \in DOMAIN frames[q[1]] /\ At(frames, q) = frames[q[1]][q[2]]
        /\ At(frames, q).cue = "person"
    BY <1>1, <2>1 DEF HitPlaces
  <2>3. PICK id : id = hv.zone
    OBVIOUS
  <2>4. PICK t : t = hv.track
    OBVIOUS
  <2>5. PersonIn(t, id) # {} /\ Place0(id) /\ Person0(t)
    BY <2>1, <2>2, <2>3, <2>4, PersonAtIsIn
  <2> QED
    BY <2>3, <2>4, <2>5 DEF HvInv
<1> QED
  BY <1>2, <1>3 DEF HvInv

LEMMA GroupFacts ==
  ASSUME TypedClip(frames), NEW g, GroupInv(g, frames, Len(frames))
  PROVE  /\ g.n \in Nat /\ Place0(g.zone) /\ Person0(g.track)
         /\ g.n > 0 => PersonIn(g.track, g.zone) # {}
<1>1. PICK m \in Nat : m = Len(frames) /\ DOMAIN frames = 1..m
  BY DEF TypedClip
<1>2. CASE g.n = 0 /\ g.zone = 0 /\ g.track = 0
  BY <1>2 DEF Place0, Person0
<1>3. CASE \E x \in 1..m : \E y \in DOMAIN frames[x] :
             /\ frames[x][y].cue = "person" /\ frames[x][y].track = g.track
             /\ g.zone \in IdsAt(frames[x][y].at, ShelfLike)
  <2>1. PICK x \in 1..m : \E y \in DOMAIN frames[x] :
             /\ frames[x][y].cue = "person" /\ frames[x][y].track = g.track
             /\ g.zone \in IdsAt(frames[x][y].at, ShelfLike)
    BY <1>3
  <2>2. PICK y \in DOMAIN frames[x] :
             /\ frames[x][y].cue = "person" /\ frames[x][y].track = g.track
             /\ g.zone \in IdsAt(frames[x][y].at, ShelfLike)
    BY <2>1
  <2>3. PICK id : id = g.zone
    OBVIOUS
  <2>4. PICK t : t = g.track
    OBVIOUS
  <2>5. PersonIn(t, id) # {} /\ Place0(id) /\ Person0(t)
    BY <1>1, <2>2, <2>3, <2>4, PersonAtIsIn
  <2> QED
    BY <2>3, <2>4, <2>5 DEF GroupInv
<1> QED
  BY <1>1, <1>2, <1>3 DEF GroupInv

(* An event says of a person and a place what the frames show.                 *)
ExitTypes == {"ExitWithoutCheckout", "ShelfPickupNoCheckout"}
Borne(e) ==
    /\ Place0(e.zone) /\ Person0(e.track) /\ e.value \in Nat /\ e.value > 0
    /\ e.type \in ExitTypes \cup {"HighValueZoneEntry", "Dwell", "BlindSpotMovement", "GroupDistraction"} =>
         PersonIn(e.track, e.zone) # {}
    /\ e.type = "HighValueActivity" => (e.track # 0 => PersonIn(e.track, e.zone) # {})
    /\ e.type \in ExitTypes =>
         /\ \E i \in PersonIn(e.track, e.zone), j \in AtAnyShelf(e.track) : j <= i
         /\ SomebodyLeft /\ (e.type = "ShelfPickupNoCheckout" <=> ProductAtShelf)
    /\ e.type = "BagOpen" => \E cue \in {"bag", "open_bag"} : Cardinality(Sighted(cue)) >= Sustained
    /\ e.type = "LowStaffRemoval" => ProductAtShelf
    /\ e.type = "RepeatedHandling" =>
         \/ e.value <= Cardinality({f \in DOMAIN frames : Shelved(frames[f], "product_in_hand") # <<>>})
         \/ e.value <= Cardinality(Sighted("person"))

(* The accumulators when the loop over the frames has ended.                   *)
Final(a) == TypedClip(frames) /\ AccInv(a, frames, Len(frames))

LEMMA FinalFacts ==
  ASSUME NEW a, Final(a)
  PROVE  /\ TypedClip(frames) /\ Line(a.line)
         /\ SignalInv(a.openBag, frames, Sighted("open_bag"))
         /\ SignalInv(a.bag, frames, Sighted("bag"))
         /\ HandlingInv(a.handling, frames, Sighted("product_in_hand"))
         /\ ConcealInv(a.conceal, frames, Sighted("concealment"))
         /\ HvInv(a.hv, frames, Sighted("person"))
         /\ EpisodeInv(a.handling, frames, Len(frames)) /\ GroupInv(a.group, frames, Len(frames))
<1>1. TypedClip(frames) /\ Line(a.line)
  BY LineIs DEF Final
<1>2. \A c : Hits(frames, Places(frames, Len(frames) + 1, 0), c) = Sighted(c)
  BY <1>1, FinalHits
<1> QED
  BY <1>1, <1>2 DEF Final, AccInv, Evidence

(* A visit, and a stay.                                                        *)
LEMMA VisitFacts ==
  ASSUME NEW a, Final(a), NEW type, NEW t, t = FirstTrack(a, Visitors(a, {type})), t # 0,
         NEW zone, zone = ZoneOfFirst(Timeline(a, t), type)
  PROVE  PersonIn(t, zone) # {} /\ Place0(zone) /\ Person0(t)
<1>1. TypedClip(frames) /\ Line(a.line)
  BY FinalFacts
<1>2. t \in Tracks(a) /\ Visited(Timeline(a, t)) \cap {type} # {}
  BY <1>1, VisitorFacts
<1>3. PICK line : line = Timeline(a, t)
  OBVIOUS
<1>4. Own(line, t)
  BY <1>1, <1>3, OwnTimeline
<1>5. PICK e \in ToSet(line) : ByType(e, type) # 0 /\ zone = ByType(e, type)
  BY <1>1, <1>2, <1>3, <1>4, ZoneOfFirstFacts
<1>6. Sighting(e) /\ e.track = t
  BY <1>4, <1>5 DEF Own
<1>7. e.frame \in PersonIn(t, zone) /\ zone \in ZoneIds
  BY <1>1, <1>5, <1>6, ByTypeFacts
<1> QED
  BY <1>1, <1>2, <1>7, InIsPlace, TrackIsPerson DEF Place0

LEMMA DwellFacts ==
  ASSUME NEW a, Final(a), NEW t, NEW run, run = BestRun(Timeline(a, t)), run.best > 0
  PROVE  PersonIn(t, run.zone) # {} /\ Place0(run.zone) /\ Person0(t) /\ run.best \in Nat
<1>1. TypedClip(frames) /\ Line(a.line)
  BY FinalFacts
<1>2. PICK line : line = Timeline(a, t)
  OBVIOUS
<1>3. Own(line, t)
  BY <1>1, <1>2, OwnTimeline
<1>4. PICK zone : zone = run.zone
  OBVIOUS
<1>5. run.best \in Nat /\ \E e \in ToSet(line) : ByType(e, "HighValue") # 0 /\ zone = ByType(e, "HighValue")
  BY <1>2, <1>3, <1>4, BestRunFacts
<1>6. PICK e \in ToSet(line) : ByType(e, "HighValue") # 0 /\ zone = ByType(e, "HighValue")
  BY <1>5
<1>7. Sighting(e) /\ e.track = t
  BY <1>3, <1>6 DEF Own
<1>8. e.frame \in PersonIn(t, zone) /\ zone \in ZoneIds
  BY <1>1, <1>6, <1>7, ByTypeFacts
<1>9. t \in Tracks(a)
  <2>1. e \in ToSet(a.line)
    BY <1>1, <1>2, <1>6, TimelineFacts
  <2> QED
    BY <1>7, <2>1 DEF Tracks
<1> QED
  BY <1>1, <1>4, <1>5, <1>8, <1>9, InIsPlace, TrackIsPerson DEF Place0

(* Coming back to the shelves.                                                 *)
LEMMA ComerFacts ==
  ASSUME NEW a, Final(a), NEW t, t = Highest(a, [u \in Tracks(a) |-> Cardinality(Entries(Timeline(a, u)))]),
         t # 0, NEW first, first = Timeline(a, FirstTrack(a, Visitors(a, ShelfLike))),
         NEW came, came = first[Min(Entries(first))], NEW n, n = Cardinality(Entries(Timeline(a, t)))
  PROVE  /\ n \in Nat /\ n > 0 /\ n <= Cardinality(Sighted("person")) /\ Person0(t)
         /\ \A type : Place0(ByType(came, type))
<1>1. TypedClip(frames) /\ Line(a.line)
  BY FinalFacts
<1>2. PICK value : value = [u \in Tracks(a) |-> Cardinality(Entries(Timeline(a, u)))]
  OBVIOUS
<1>3. t \in Tracks(a) /\ value[t] > 0
  BY <1>1, <1>2, HighestFacts
<1>4. PICK line : line = Timeline(a, t)
  OBVIOUS
<1>5. Own(line, t)
  BY <1>1, <1>4, OwnTimeline
<1>6. n > 0
  BY <1>2, <1>3
<1>7. /\ Entries(line) # {} <=> Visited(line) \cap ShelfLike # {}
      /\ Cardinality(Entries(line)) > 0 <=> Entries(line) # {}
      /\ Cardinality(Entries(line)) \in Nat /\ Cardinality(Entries(line)) <= Len(line)
  BY <1>5, EntriesFacts
<1>8. n <= Cardinality(Sighted("person"))
  <2>1. Len(line) <= Len(a.line) /\ line \in Seq(ToSet(line))
    BY <1>1, <1>4, TimelineFacts
  <2>2. Len(a.line) \in Nat /\ Len(a.line) = Cardinality(Sighted("person"))
    BY <1>1 DEF Line, Sighted
  <2> QED
    BY <1>4, <1>7, <2>1, <2>2
<1>9. t \in Visitors(a, ShelfLike)
  BY <1>3, <1>4, <1>6, <1>7 DEF Visitors
<1>10. PICK u : u = FirstTrack(a, Visitors(a, ShelfLike))
  OBVIOUS
<1>11. u \in Visitors(a, ShelfLike)
  <2>1. PICK V : V = Visitors(a, ShelfLike)
    OBVIOUS
  <2>2. V \subseteq Tracks(a)
    BY <2>1 DEF Visitors
  <2>3. (V = {} /\ u = 0) \/ u \in V
    BY <1>1, <1>10, <2>1, <2>2, FirstTrackFacts
  <2> QED
    BY <1>9, <2>1, <2>3
<1>12. Own(first, u) /\ Visited(first) \cap ShelfLike # {}
  <2>1. first = Timeline(a, u)
    BY <1>10
  <2>2. Own(first, u)
    BY <1>1, <2>1, OwnTimeline
  <2> QED
    BY <1>11, <2>1, <2>2 DEF Visitors
<1>13. Entries(first) # {} /\ Entries(first) \in SUBSET Nat /\ Entries(first) \subseteq DOMAIN first
  BY <1>12, EntriesFacts
<1>14. Min(Entries(first)) \in Entries(first)
  BY <1>13, MinIsLeast
<1>15. came \in ToSet(first)
  BY <1>13, <1>14 DEF ToSet
<1>16. Sighting(came)
  BY <1>12, <1>15 DEF Own
<1>17. ASSUME NEW type PROVE Place0(ByType(came, type))
  <2>1. CASE ByType(came, type) = 0
    BY <2>1 DEF Place0
  <2>2. CASE ByType(came, type) # 0
    <3>1. came.frame \in PersonIn(came.track, ByType(came, type)) /\ ByType(came, type) \in ZoneIds
      BY <1>1, <1>16, <2>2, ByTypeFacts
    <3> QED
      BY <3>1, InIsPlace DEF Place0
  <2> QED
    BY <2>1, <2>2
<1> QED
  BY <1>1, <1>3, <1>4, <1>6, <1>7, <1>8, <1>17, TrackIsPerson

(* Leaving unpaid.                                                             *)
LEMMA ExitFacts ==
  ASSUME NEW a, Final(a), NEW V, V = {u \in Tracks(a) : LeftUnpaid(Timeline(a, u))},
         NEW t, t = FirstTrack(a, V), t # 0, NEW zone, zone = ZoneOfFirst(Timeline(a, t), "Exit")
  PROVE  /\ Place0(zone) /\ Person0(t) /\ SomebodyLeft
         /\ \E i \in PersonIn(t, zone), j \in AtAnyShelf(t) : j <= i
<1>1. TypedClip(frames) /\ Line(a.line)
  BY FinalFacts
<1>2. V \subseteq Tracks(a)
  OBVIOUS
<1>3. (V = {} /\ t = 0) \/ t \in V
  BY <1>1, <1>2, FirstTrackFacts
<1>4. t \in Tracks(a) /\ LeftUnpaid(Timeline(a, t))
  BY <1>3
<1>5. /\ zone \in ZoneIds /\ zone \in OfType("Exit")
      /\ \E i \in PersonIn(t, zone), j \in AtAnyShelf(t) : j <= i
      /\ \A c \in OfType("Checkout") : PersonIn(t, c) = {}
  BY <1>1, <1>4, LeftFacts
<1>6. Person0(t)
  BY <1>1, <1>4, TrackIsPerson
<1>7. t \in UNION {{d.track : d \in ToSet(f)} : f \in ToSet(frames)}
  <2>1. PICK i \in DOMAIN frames : \E d \in ToSet(frames[i]) : d.cue = "person" /\ d.track = t
    BY <1>4, <1>6, <1>1, TracksFacts DEF Person0
  <2>2. frames[i] \in ToSet(frames)
    BY DEF ToSet
  <2>3. t \in {d.track : d \in ToSet(frames[i])}
    BY <2>1
  <2> QED
    BY <2>2, <2>3, Zenon
<1>8. SomebodyLeft
  BY <1>5, <1>7 DEF SomebodyLeft
<1>9. Place0(zone)
  <2>1. PersonIn(t, zone) # {}
    BY <1>5
  <2> QED
    BY <1>5, <2>1, InIsPlace DEF Place0
<1> QED
  BY <1>5, <1>6, <1>8, <1>9

(* The events in a row: each is borne out, and no two have the same type.      *)
Piece(p, T) ==
    /\ p \in Seq(ToSet(p)) /\ \A e \in ToSet(p) : Borne(e) /\ e.type \in T
    /\ \A i, j \in DOMAIN p : p[i].type = p[j].type => i = j

LEMMA WhenPiece ==
  ASSUME NEW c, NEW ev, NEW T, c => Borne(ev) /\ ev.type \in T
  PROVE  Piece(When(c, ev), T)
<1>1. CASE c
  <2>1. When(c, ev) = <<ev>>
    BY <1>1 DEF When
  <2>2. DOMAIN <<ev>> = {1} /\ ToSet(<<ev>>) = {ev} /\ <<ev>> \in Seq({ev})
    BY DEF ToSet
  <2>3. Piece(<<ev>>, T)
    BY <1>1, <2>2 DEF Piece
  <2> QED
    BY <2>1, <2>3
<1>2. CASE ~ c
  <2>1. When(c, ev) = <<>>
    BY <1>2 DEF When
  <2>2. DOMAIN <<>> = {} /\ ToSet(<<>>) = {} /\ <<>> \in Seq({})
    BY DEF ToSet
  <2>3. Piece(<<>>, T)
    BY <2>2 DEF Piece
  <2> QED
    BY <2>1, <2>3
<1> QED
  BY <1>1, <1>2

LEMMA JoinPieces ==
  ASSUME NEW p, NEW q, NEW S, NEW T, Piece(p, S), Piece(q, T), S \cap T = {}
  PROVE  Piece(p \o q, S \cup T)
<1>1. PICK m \in Nat : m = Len(p) /\ DOMAIN p = 1..m
  BY DEF Piece
<1>2. PICK n \in Nat : n = Len(q) /\ DOMAIN q = 1..n
  BY DEF Piece
<1>3. PICK r : r = p \o q
  OBVIOUS
<1>4. p \in Seq(ToSet(p) \cup ToSet(q)) /\ q \in Seq(ToSet(p) \cup ToSet(q))
  <2>1. p \in [1..m -> ToSet(p) \cup ToSet(q)]
    BY <1>1 DEF Piece, ToSet
  <2>2. q \in [1..n -> ToSet(p) \cup ToSet(q)]
    BY <1>2 DEF Piece, ToSet
  <2> QED
    BY <2>1, <2>2
<1>5. /\ r \in Seq(ToSet(p) \cup ToSet(q)) /\ DOMAIN r = 1..(m + n)
      /\ \A i \in 1..m : r[i] = p[i]
      /\ \A i \in (m + 1)..(m + n) : r[i] = q[i - m]
  BY <1>1, <1>2, <1>3, <1>4
<1>6. \A i \in 1..(m + n) : \/ i \in 1..m /\ r[i] = p[i]
                            \/ i - m \in 1..n /\ r[i] = q[i - m]
  BY <1>5
<1>7. \A i \in 1..m : Borne(p[i]) /\ p[i].type \in S
  BY <1>1 DEF Piece, ToSet
<1>8. \A i \in 1..n : Borne(q[i]) /\ q[i].type \in T
  BY <1>2 DEF Piece, ToSet
<1>9. r \in Seq(ToSet(r))
  <2>1. r \in [1..(m + n) -> ToSet(r)]
    BY <1>5 DEF ToSet
  <2> QED
    BY <2>1
<1>10. \A i \in 1..(m + n) : Borne(r[i]) /\ r[i].type \in S \cup T
  BY <1>6, <1>7, <1>8
<1>11. ASSUME NEW i \in 1..(m + n), NEW j \in 1..(m + n), r[i].type = r[j].type
       PROVE  i = j
  <2>1. CASE (i \in 1..m /\ r[i] = p[i]) /\ (j \in 1..m /\ r[j] = p[j])
    BY <1>1, <1>11, <2>1 DEF Piece
  <2>2. CASE (i - m \in 1..n /\ r[i] = q[i - m]) /\ (j - m \in 1..n /\ r[j] = q[j - m])
    <3>1. i - m = j - m
      BY <1>2, <1>11, <2>2 DEF Piece
    <3> QED
      BY <3>1
  <2>3. CASE (i \in 1..m /\ r[i] = p[i]) /\ (j - m \in 1..n /\ r[j] = q[j - m])
    BY <1>7, <1>8, <1>11, <2>3
  <2>4. CASE (i - m \in 1..n /\ r[i] = q[i - m]) /\ (j \in 1..m /\ r[j] = p[j])
    BY <1>7, <1>8, <1>11, <2>4
  <2> QED
    BY <1>6, <2>1, <2>2, <2>3, <2>4
<1>12. \A e \in ToSet(r) : Borne(e) /\ e.type \in S \cup T
  BY <1>5, <1>10 DEF ToSet
<1>13. Piece(r, S \cup T)
  BY <1>5, <1>9, <1>11, <1>12 DEF Piece
<1> QED
  BY <1>3, <1>13

LEMMA TrackPiece ==
  ASSUME NEW a, Final(a)
  PROVE  Piece(TrackEvents(a), {"HighValueZoneEntry", "Dwell", "RepeatedHandling"})
<1>1. PICK hv : hv = FirstTrack(a, Visitors(a, {"HighValue"}))
  OBVIOUS
<1>2. PICK dweller : dweller = Highest(a, [t \in Tracks(a) |-> BestRun(Timeline(a, t)).best])
  OBVIOUS
<1>3. PICK run : run = BestRun(Timeline(a, dweller))
  OBVIOUS
<1>4. PICK comer : comer = Highest(a, [t \in Tracks(a) |-> Cardinality(Entries(Timeline(a, t)))])
  OBVIOUS
<1>5. PICK first : first = Timeline(a, FirstTrack(a, Visitors(a, ShelfLike)))
  OBVIOUS
<1>6. PICK came : came = first[Min(Entries(first))]
  OBVIOUS
<1>7. PICK e1 : e1 = Ev("HighValueZoneEntry", ZoneOfFirst(Timeline(a, hv), "HighValue"), 1, hv, NoLook)
  OBVIOUS
<1>8. PICK e2 : e2 = Ev("Dwell", run.zone, run.best, dweller, NoLook)
  OBVIOUS
<1>9. PICK e3 : e3 = Ev("RepeatedHandling", a.handling.zone, a.handling.episodes, a.handling.track, NoLook)
  OBVIOUS
<1>10. PICK e4 : e4 = Ev("RepeatedHandling", Or(ByType(came, "HighValue"), ByType(came, "Shelf")),
                         Cardinality(Entries(Timeline(a, comer))), comer, NoLook)
  OBVIOUS
<1>11. TrackEvents(a) = When(hv # 0, e1) \o When(run.best > 0, e2)
                        \o IF a.handling.episodes > 0 THEN <<e3>> ELSE When(comer # 0, e4)
  BY <1>1, <1>2, <1>3, <1>4, <1>5, <1>6, <1>7, <1>8, <1>9, <1>10, Zenon DEF TrackEvents
<1>12. Piece(When(hv # 0, e1), {"HighValueZoneEntry"})
  <2>1. ASSUME hv # 0 PROVE Borne(e1)
    <3>1. PICK zone : zone = ZoneOfFirst(Timeline(a, hv), "HighValue")
      OBVIOUS
    <3>2. PersonIn(hv, zone) # {} /\ Place0(zone) /\ Person0(hv)
      BY <1>1, <2>1, <3>1, VisitFacts
    <3>3. e1.type = "HighValueZoneEntry" /\ e1.zone = zone /\ e1.value = 1 /\ e1.track = hv
      BY <1>7, <3>1 DEF Ev
    <3> QED
      BY <3>2, <3>3 DEF Borne, ExitTypes
  <2>2. e1.type = "HighValueZoneEntry"
    BY <1>7 DEF Ev
  <2> QED
    BY <2>1, <2>2, WhenPiece
<1>13. Piece(When(run.best > 0, e2), {"Dwell"})
  <2>1. ASSUME run.best > 0 PROVE Borne(e2)
    <3>1. PersonIn(dweller, run.zone) # {} /\ Place0(run.zone) /\ Person0(dweller) /\ run.best \in Nat
      BY <1>3, <2>1, DwellFacts
    <3>2. e2.type = "Dwell" /\ e2.zone = run.zone /\ e2.value = run.best /\ e2.track = dweller
      BY <1>8 DEF Ev
    <3> QED
      BY <2>1, <3>1, <3>2 DEF Borne, ExitTypes
  <2>2. e2.type = "Dwell"
    BY <1>8 DEF Ev
  <2> QED
    BY <2>1, <2>2, WhenPiece, Zenon
<1>14. Piece(When(a.handling.episodes > 0, e3), {"RepeatedHandling"})
  <2>1. PICK h : h = a.handling
    OBVIOUS
  <2>2. ASSUME h.episodes > 0 PROVE Borne(e3)
    <3>1. TypedClip(frames) /\ HandlingInv(h, frames, Sighted("product_in_hand")) /\ EpisodeInv(h, frames, Len(frames))
      BY <2>1, FinalFacts
    <3>2. /\ Place0(h.zone) /\ Person0(h.track) /\ h.episodes \in Nat
          /\ h.episodes <= Cardinality({f \in DOMAIN frames : Shelved(frames[f], "product_in_hand") # <<>>})
      BY <3>1, HandlingFacts
    <3>3. e3.type = "RepeatedHandling" /\ e3.zone = h.zone /\ e3.value = h.episodes /\ e3.track = h.track
      BY <1>9, <2>1 DEF Ev
    <3> QED
      BY <2>2, <3>2, <3>3 DEF Borne, ExitTypes
  <2>3. e3.type = "RepeatedHandling"
    BY <1>9 DEF Ev
  <2>4. Piece(When(h.episodes > 0, e3), {"RepeatedHandling"})
    BY <2>2, <2>3, WhenPiece, Zenon
  <2> QED
    BY <2>1, <2>4
<1>15. Piece(When(comer # 0, e4), {"RepeatedHandling"})
  <2>1. ASSUME comer # 0 PROVE Borne(e4)
    <3>1. PICK n : n = Cardinality(Entries(Timeline(a, comer)))
      OBVIOUS
    <3>2. /\ n \in Nat /\ n > 0 /\ n <= Cardinality(Sighted("person")) /\ Person0(comer)
          /\ \A type : Place0(ByType(came, type))
      BY <1>4, <1>5, <1>6, <2>1, <3>1, ComerFacts
    <3>3. Place0(Or(ByType(came, "HighValue"), ByType(came, "Shelf")))
      BY <3>2, OrPlace
    <3>4. /\ e4.type = "RepeatedHandling" /\ e4.zone = Or(ByType(came, "HighValue"), ByType(came, "Shelf"))
          /\ e4.value = n /\ e4.track = comer
      BY <1>10, <3>1 DEF Ev
    <3> QED
      BY <3>2, <3>3, <3>4 DEF Borne, ExitTypes
  <2>2. e4.type = "RepeatedHandling"
    BY <1>10 DEF Ev
  <2> QED
    BY <2>1, <2>2, WhenPiece
<1>16. Piece(IF a.handling.episodes > 0 THEN <<e3>> ELSE When(comer # 0, e4), {"RepeatedHandling"})
  <2>1. CASE a.handling.episodes > 0
    <3>1. When(a.handling.episodes > 0, e3) = <<e3>>
      BY <2>1 DEF When
    <3> QED
      BY <1>14, <2>1, <3>1
  <2>2. CASE ~ (a.handling.episodes > 0)
    BY <1>15, <2>2
  <2> QED
    BY <2>1, <2>2
<1>17. PICK p : p = When(hv # 0, e1)
  OBVIOUS
<1>18. PICK q : q = When(run.best > 0, e2)
  OBVIOUS
<1>19. PICK r : r = IF a.handling.episodes > 0 THEN <<e3>> ELSE When(comer # 0, e4)
  OBVIOUS
<1>20. Piece(p \o q, {"HighValueZoneEntry"} \cup {"Dwell"})
  BY <1>12, <1>13, <1>17, <1>18, JoinPieces
<1>21. Piece((p \o q) \o r, ({"HighValueZoneEntry"} \cup {"Dwell"}) \cup {"RepeatedHandling"})
  BY <1>16, <1>19, <1>20, JoinPieces
<1>22. ({"HighValueZoneEntry"} \cup {"Dwell"}) \cup {"RepeatedHandling"}
       = {"HighValueZoneEntry", "Dwell", "RepeatedHandling"}
  OBVIOUS
<1>23. TrackEvents(a) = (p \o q) \o r
  BY <1>11, <1>17, <1>18, <1>19
<1> QED
  BY <1>21, <1>22, <1>23

LEMMA BagFacts ==
  ASSUME NEW a, Final(a)
  PROVE  /\ Place0(a.openBag.zone) /\ Person0(a.openBag.track)
         /\ Place0(a.bag.zone) /\ Person0(a.bag.track)
         /\ Place0(BagZone(a.openBag)) /\ Place0(BagZone(a.bag))
         /\ BagZone(a.openBag) # 0 => /\ BagZone(a.openBag) = a.openBag.zone
                                      /\ Cardinality(Sighted("open_bag")) >= Sustained
         /\ BagZone(a.bag) # 0 => /\ BagZone(a.bag) = a.bag.zone
                                  /\ Cardinality(Sighted("bag")) >= Sustained
<1>1. PICK openBag : openBag = a.openBag
  OBVIOUS
<1>2. PICK bag : bag = a.bag
  OBVIOUS
<1>3. /\ TypedClip(frames) /\ SignalInv(openBag, frames, Sighted("open_bag"))
      /\ SignalInv(bag, frames, Sighted("bag"))
  BY <1>1, <1>2, FinalFacts
<1>4. openBag.n = Cardinality(Sighted("open_bag")) /\ Place0(openBag.zone) /\ Person0(openBag.track)
  BY <1>3, SignalFacts
<1>5. bag.n = Cardinality(Sighted("bag")) /\ Place0(bag.zone) /\ Person0(bag.track)
  BY <1>3, SignalFacts
<1>6. Place0(0)
  BY DEF Place0
<1> QED
  BY <1>1, <1>2, <1>4, <1>5, <1>6 DEF BagZone

LEMMA ConcealmentPiece ==
  ASSUME NEW a, Final(a)
  PROVE  Piece(Concealment(a), {"Concealment"})
<1> DEFINE c == (a.handling.first > 0 /\ Max({a.openBag.last, a.bag.last}) > a.handling.first)
                \/ a.conceal.n >= Sustained
<1>1. PICK zone : zone = Or(Or(Or(IF a.conceal.n >= Sustained THEN a.conceal.zone ELSE 0, BagZone(a.openBag)),
                            BagZone(a.bag)), a.handling.zone)
  OBVIOUS
<1>2. PICK track : track = Or(Or(Or(a.conceal.track, a.handling.track), a.openBag.track), a.bag.track)
  OBVIOUS
<1>3. PICK e : e = Ev("Concealment", zone, 1, track, NoLook)
  OBVIOUS
<1>4. Concealment(a) = When(c, e)
  BY <1>1, <1>2, <1>3, Zenon DEF Concealment
<1>5. PICK h : h = a.handling
  OBVIOUS
<1>6. PICK s : s = a.conceal
  OBVIOUS
<1>7. Place0(h.zone) /\ Person0(h.track)
  BY <1>5, FinalFacts, HandlingFacts
<1>8. Place0(s.zone) /\ Person0(s.track)
  BY <1>6, FinalFacts, ConcealFacts
<1>9. Place0(zone)
  <2>1. PICK z : z = IF a.conceal.n >= Sustained THEN a.conceal.zone ELSE 0
    OBVIOUS
  <2>2. Place0(z)
    BY <1>6, <1>8, <2>1 DEF Place0
  <2>3. PICK y : y = Or(z, BagZone(a.openBag))
    OBVIOUS
  <2>4. Place0(y)
    BY <2>2, <2>3, BagFacts, OrPlace
  <2>5. PICK x : x = Or(y, BagZone(a.bag))
    OBVIOUS
  <2>6. Place0(x)
    BY <2>4, <2>5, BagFacts, OrPlace
  <2>7. zone = Or(x, h.zone)
    BY <1>1, <1>5, <2>1, <2>3, <2>5
  <2> QED
    BY <1>7, <2>6, <2>7, OrPlace
<1>10. Person0(track)
  <2>1. PICK y : y = Or(s.track, h.track)
    OBVIOUS
  <2>2. Person0(y)
    BY <1>7, <1>8, <2>1, OrPerson
  <2>3. PICK x : x = Or(y, a.openBag.track)
    OBVIOUS
  <2>4. Person0(x)
    BY <2>2, <2>3, BagFacts, OrPerson
  <2>5. track = Or(x, a.bag.track)
    BY <1>2, <1>5, <1>6, <2>1, <2>3
  <2> QED
    BY <2>4, <2>5, BagFacts, OrPerson
<1>11. e.type = "Concealment" /\ e.zone = zone /\ e.value = 1 /\ e.track = track
  BY <1>3 DEF Ev
<1>12. Borne(e)
  BY <1>9, <1>10, <1>11 DEF Borne, ExitTypes
<1> HIDE DEF c
<1>13. Piece(When(c, e), {"Concealment"})
  BY <1>11, <1>12, WhenPiece, Zenon
<1> QED
  BY <1>4, <1>13

LEMMA PlacePiece ==
  ASSUME NEW a, Final(a)
  PROVE  Piece(PlaceEvents(a), ExitTypes \cup {"BlindSpotMovement", "GroupDistraction"})
<1>1. PICK out : out = FirstTrack(a, {t \in Tracks(a) : LeftUnpaid(Timeline(a, t))})
  OBVIOUS
<1>2. PICK blind : blind = FirstTrack(a, Visitors(a, {"BlindSpot"}))
  OBVIOUS
<1>3. PICK g : g = a.group
  OBVIOUS
<1>4. PICK h : h = a.handling
  OBVIOUS
<1>5. PICK e1 : e1 = Ev(IF h.first > 0 THEN "ShelfPickupNoCheckout" ELSE "ExitWithoutCheckout",
                        ZoneOfFirst(Timeline(a, out), "Exit"), 1, out, LookOf(a, out))
  OBVIOUS
<1>6. PICK e2 : e2 = Ev("BlindSpotMovement", ZoneOfFirst(Timeline(a, blind), "BlindSpot"), 1, blind, NoLook)
  OBVIOUS
<1>7. PICK e3 : e3 = Ev("GroupDistraction", g.zone, g.n, g.track, NoLook)
  OBVIOUS
<1>8. PlaceEvents(a) = When(out # 0, e1) \o When(blind # 0, e2) \o When(g.n >= 2, e3)
  BY <1>1, <1>2, <1>3, <1>4, <1>5, <1>6, <1>7, Zenon DEF PlaceEvents
<1>9. Piece(When(out # 0, e1), ExitTypes)
  <2>1. PICK zone : zone = ZoneOfFirst(Timeline(a, out), "Exit")
    OBVIOUS
  <2>2. /\ e1.type = (IF h.first > 0 THEN "ShelfPickupNoCheckout" ELSE "ExitWithoutCheckout")
        /\ e1.zone = zone /\ e1.value = 1 /\ e1.track = out
    BY <1>5, <2>1 DEF Ev
  <2>3. h.first > 0 <=> ProductAtShelf
    BY <1>4, FinalFacts, HandlingFacts
  <2>4. ASSUME out # 0 PROVE Borne(e1)
    <3>1. /\ Place0(zone) /\ Person0(out) /\ SomebodyLeft
          /\ \E i \in PersonIn(out, zone), j \in AtAnyShelf(out) : j <= i
      <4>1. PICK V : V = {t \in Tracks(a) : LeftUnpaid(Timeline(a, t))}
        OBVIOUS
      <4>2. out = FirstTrack(a, V)
        BY <1>1, <4>1
      <4> QED
        BY <2>1, <2>4, <4>1, <4>2, ExitFacts
    <3> QED
      BY <2>2, <2>3, <3>1 DEF Borne, ExitTypes
  <2>5. e1.type \in ExitTypes
    BY <2>2 DEF ExitTypes
  <2> QED
    BY <2>4, <2>5, WhenPiece, Zenon
<1>10. Piece(When(blind # 0, e2), {"BlindSpotMovement"})
  <2>1. PICK zone : zone = ZoneOfFirst(Timeline(a, blind), "BlindSpot")
    OBVIOUS
  <2>2. e2.type = "BlindSpotMovement" /\ e2.zone = zone /\ e2.value = 1 /\ e2.track = blind
    BY <1>6, <2>1 DEF Ev
  <2>3. ASSUME blind # 0 PROVE Borne(e2)
    <3>1. PersonIn(blind, zone) # {} /\ Place0(zone) /\ Person0(blind)
      BY <1>2, <2>1, <2>3, VisitFacts
    <3> QED
      BY <2>2, <3>1 DEF Borne, ExitTypes
  <2> QED
    BY <2>2, <2>3, WhenPiece, Zenon
<1>11. Piece(When(g.n >= 2, e3), {"GroupDistraction"})
  <2>1. e3.type = "GroupDistraction" /\ e3.zone = g.zone /\ e3.value = g.n /\ e3.track = g.track
    BY <1>7 DEF Ev
  <2>2. /\ g.n \in Nat /\ Place0(g.zone) /\ Person0(g.track)
        /\ g.n > 0 => PersonIn(g.track, g.zone) # {}
    BY <1>3, FinalFacts, GroupFacts
  <2>3. ASSUME g.n >= 2 PROVE Borne(e3)
    BY <2>1, <2>2, <2>3 DEF Borne, ExitTypes
  <2> QED
    BY <2>1, <2>3, WhenPiece, Zenon
<1>12. PICK p : p = When(out # 0, e1)
  OBVIOUS
<1>13. PICK q : q = When(blind # 0, e2)
  OBVIOUS
<1>14. PICK r : r = When(g.n >= 2, e3)
  OBVIOUS
<1>15. Piece(p \o q, ExitTypes \cup {"BlindSpotMovement"})
  BY <1>9, <1>10, <1>12, <1>13, JoinPieces DEF ExitTypes
<1>16. Piece((p \o q) \o r, (ExitTypes \cup {"BlindSpotMovement"}) \cup {"GroupDistraction"})
  BY <1>11, <1>14, <1>15, JoinPieces DEF ExitTypes
<1>17. (ExitTypes \cup {"BlindSpotMovement"}) \cup {"GroupDistraction"}
       = ExitTypes \cup {"BlindSpotMovement", "GroupDistraction"}
  OBVIOUS
<1>18. PlaceEvents(a) = (p \o q) \o r
  BY <1>8, <1>12, <1>13, <1>14
<1> QED
  BY <1>16, <1>17, <1>18

LEMMA CuePiece ==
  ASSUME NEW a, Final(a)
  PROVE  Piece(CueEvents(a), {"HighValueActivity", "LowStaffRemoval", "BagOpen"})
<1>1. PICK remover : remover = Or(a.handling.track, FirstTrack(a, Visitors(a, ShelfLike)))
  OBVIOUS
<1>2. PICK bag : bag = IF BagZone(a.openBag) # 0 THEN a.openBag ELSE a.bag
  OBVIOUS
<1>3. PICK h : h = a.handling
  OBVIOUS
<1>4. PICK hv : hv = a.hv
  OBVIOUS
<1>5. PICK n : n = Cardinality(HvCues(a))
  OBVIOUS
<1>6. PICK e1 : e1 = Ev("HighValueActivity", hv.zone, n, hv.track, NoLook)
  OBVIOUS
<1>7. PICK e2 : e2 = Ev("LowStaffRemoval", h.zone, 1, remover, LookOf(a, remover))
  OBVIOUS
<1>8. PICK e3 : e3 = Ev("BagOpen", bag.zone, 1, bag.track, NoLook)
  OBVIOUS
<1>9. CueEvents(a) = When(n >= 2, e1) \o When(h.first > 0, e2) \o When(BagZone(bag) # 0, e3)
  BY <1>1, <1>2, <1>3, <1>4, <1>5, <1>6, <1>7, <1>8, Zenon DEF CueEvents
<1>10. Piece(When(n >= 2, e1), {"HighValueActivity"})
  <2>1. /\ hv.cues \subseteq {"person", "bag", "product"}
        /\ Place0(hv.zone) /\ Person0(hv.track)
        /\ hv.track # 0 => PersonIn(hv.track, hv.zone) # {}
    BY <1>4, FinalFacts, HvFacts
  <2>2. n \in Nat
    <3>1. PICK S : S = HvCues(a)
      OBVIOUS
    <3>2. S \in SUBSET {"person", "bag", "product"}
      BY <1>4, <2>1, <3>1 DEF HvCues
    <3>3. IsFiniteSet({"person", "bag", "product"})
      <4>1. IsFiniteSet({"person"}) /\ IsFiniteSet({"bag"}) /\ IsFiniteSet({"product"})
        BY FS_Singleton
      <4>2. IsFiniteSet({"person"} \cup {"bag"})
        BY <4>1, FS_Union
      <4>3. IsFiniteSet(({"person"} \cup {"bag"}) \cup {"product"})
        BY <4>1, <4>2, FS_Union
      <4>4. ({"person"} \cup {"bag"}) \cup {"product"} = {"person", "bag", "product"}
        OBVIOUS
      <4> QED
        BY <4>3, <4>4
    <3> QED
      BY <1>5, <3>1, <3>2, <3>3, FS_Subset, FS_CardinalityType
  <2>3. e1.type = "HighValueActivity" /\ e1.zone = hv.zone /\ e1.value = n /\ e1.track = hv.track
    BY <1>6 DEF Ev
  <2>4. ASSUME n >= 2 PROVE Borne(e1)
    BY <2>1, <2>2, <2>3, <2>4 DEF Borne, ExitTypes
  <2> QED
    BY <2>3, <2>4, WhenPiece, Zenon
<1>11. Piece(When(h.first > 0, e2), {"LowStaffRemoval"})
  <2>1. Place0(h.zone) /\ Person0(h.track) /\ (h.first > 0 <=> ProductAtShelf)
    BY <1>3, FinalFacts, HandlingFacts
  <2>2. Person0(remover)
    <3>1. PICK t : t = FirstTrack(a, Visitors(a, ShelfLike))
      OBVIOUS
    <3>2. TypedClip(frames) /\ Line(a.line)
      BY FinalFacts
    <3>3. t = 0 \/ t \in Tracks(a)
      BY <3>1, <3>2, VisitorFacts
    <3>4. Person0(0)
      BY DEF Person0
    <3>5. Person0(t)
      BY <3>2, <3>3, <3>4, TrackIsPerson
    <3> QED
      BY <1>1, <1>3, <2>1, <3>1, <3>5, OrPerson
  <2>3. e2.type = "LowStaffRemoval" /\ e2.zone = h.zone /\ e2.value = 1 /\ e2.track = remover
    BY <1>7 DEF Ev
  <2>4. ASSUME h.first > 0 PROVE Borne(e2)
    BY <2>1, <2>2, <2>3, <2>4 DEF Borne, ExitTypes
  <2> QED
    BY <2>3, <2>4, WhenPiece, Zenon
<1>12. Piece(When(BagZone(bag) # 0, e3), {"BagOpen"})
  <2>1. /\ Place0(bag.zone) /\ Person0(bag.track)
        /\ BagZone(bag) # 0 => \E cue \in {"bag", "open_bag"} : Cardinality(Sighted(cue)) >= Sustained
    <3>1. CASE bag = a.openBag
      BY <3>1, BagFacts
    <3>2. CASE bag = a.bag
      BY <3>2, BagFacts
    <3> QED
      BY <1>2, <3>1, <3>2
  <2>2. e3.type = "BagOpen" /\ e3.zone = bag.zone /\ e3.value = 1 /\ e3.track = bag.track
    BY <1>8 DEF Ev
  <2>3. ASSUME BagZone(bag) # 0 PROVE Borne(e3)
    BY <2>1, <2>2, <2>3 DEF Borne, ExitTypes
  <2> QED
    BY <2>2, <2>3, WhenPiece, Zenon
<1>13. PICK p : p = When(n >= 2, e1)
  OBVIOUS
<1>14. PICK q : q = When(h.first > 0, e2)
  OBVIOUS
<1>15. PICK r : r = When(BagZone(bag) # 0, e3)
  OBVIOUS
<1>16. Piece(p \o q, {"HighValueActivity"} \cup {"LowStaffRemoval"})
  BY <1>10, <1>11, <1>13, <1>14, JoinPieces
<1>17. Piece((p \o q) \o r, ({"HighValueActivity"} \cup {"LowStaffRemoval"}) \cup {"BagOpen"})
  BY <1>12, <1>15, <1>16, JoinPieces
<1>18. ({"HighValueActivity"} \cup {"LowStaffRemoval"}) \cup {"BagOpen"}
       = {"HighValueActivity", "LowStaffRemoval", "BagOpen"}
  OBVIOUS
<1>19. CueEvents(a) = (p \o q) \o r
  BY <1>9, <1>13, <1>14, <1>15
<1> QED
  BY <1>17, <1>18, <1>19

(* All of them.                                                                *)
LEMMA EventsBorne ==
  ASSUME NEW a, Final(a)
  PROVE  \E T : Piece(ExtractEvents(a), T) /\ T \subseteq Risk!AiEventType
<1>1. PICK p : p = TrackEvents(a)
  OBVIOUS
<1>2. PICK q : q = Concealment(a)
  OBVIOUS
<1>3. PICK r : r = PlaceEvents(a)
  OBVIOUS
<1>4. PICK s : s = CueEvents(a)
  OBVIOUS
<1>5. Piece(p \o q, {"HighValueZoneEntry", "Dwell", "RepeatedHandling"} \cup {"Concealment"})
  BY <1>1, <1>2, TrackPiece, ConcealmentPiece, JoinPieces
<1>6. Piece((p \o q) \o r, ({"HighValueZoneEntry", "Dwell", "RepeatedHandling"} \cup {"Concealment"})
                           \cup (ExitTypes \cup {"BlindSpotMovement", "GroupDistraction"}))
  BY <1>3, <1>5, PlacePiece, JoinPieces DEF ExitTypes
<1>7. PICK T : T = ({"HighValueZoneEntry", "Dwell", "RepeatedHandling"} \cup {"Concealment"})
                   \cup (ExitTypes \cup {"BlindSpotMovement", "GroupDistraction"})
  OBVIOUS
<1>8. T \cap {"HighValueActivity", "LowStaffRemoval", "BagOpen"} = {}
  BY <1>7 DEF ExitTypes
<1>9. Piece(((p \o q) \o r) \o s, T \cup {"HighValueActivity", "LowStaffRemoval", "BagOpen"})
  BY <1>4, <1>6, <1>7, <1>8, CuePiece, JoinPieces
<1>10. ExtractEvents(a) = ((p \o q) \o r) \o s
  BY <1>1, <1>2, <1>3, <1>4 DEF ExtractEvents
<1>11. T \cup {"HighValueActivity", "LowStaffRemoval", "BagOpen"} \subseteq Risk!AiEventType
  <2>1. PICK S : S = Risk!Strongest
    OBVIOUS
  <2>2. DOMAIN S = 1..11
    BY <2>1 DEF Risk!Strongest
  <2>3. \A i \in DOMAIN S : S[i] \in Risk!AiEventType
    BY <2>1 DEF Risk!AiEventType, Risk!ToSet
  <2>4. /\ S[1] = "ShelfPickupNoCheckout" /\ S[2] = "Concealment" /\ S[3] = "ExitWithoutCheckout"
        /\ S[4] = "BagOpen" /\ S[5] = "BlindSpotMovement" /\ S[6] = "LowStaffRemoval"
        /\ S[7] = "GroupDistraction" /\ S[8] = "HighValueActivity" /\ S[9] = "RepeatedHandling"
        /\ S[10] = "Dwell" /\ S[11] = "HighValueZoneEntry"
    BY <2>1 DEF Risk!Strongest
  <2> QED
    BY <1>7, <2>2, <2>3, <2>4 DEF ExitTypes
<1> QED
  BY <1>9, <1>10, <1>11

(* The overlay shows whoever is in one of the sampled frames.                  *)
LEMMA OverlayShows ==
  ASSUME TypedClip(frames), NEW x \in DOMAIN frames, (x - 1) % Stride = 0,
         NEW y \in DOMAIN frames[x], frames[x][y].cue = "person"
  PROVE  \E j \in DOMAIN Overlay(frames) : \E d \in ToSet(Overlay(frames)[j]) : d.track = frames[x][y].track
<1>1. PICK m \in Nat : DOMAIN frames = 1..m
  BY DEF TypedClip
<1>2. PICK K : K = {i \in DOMAIN frames : (i - 1) % Stride = 0}
  OBVIOUS
<1>3. K \in SUBSET (1..m) /\ x \in K
  BY <1>1, <1>2
<1>4. PICK j \in 1..Cardinality(K) : Nth(K, j) = x
  BY <1>3, NthOf
<1>5. PICK o : o = Overlay(frames)
  OBVIOUS
<1>6. PICK f : f = frames[x]
  OBVIOUS
<1>7. PICK P : P = {i \in DOMAIN f : f[i].cue = "person"}
  OBVIOUS
<1>8. o = [n \in 1..Cardinality(K) |-> Pick(frames[Nth(K, n)],
              {i \in DOMAIN frames[Nth(K, n)] : frames[Nth(K, n)][i].cue = "person"})]
  BY <1>2, <1>5 DEF Overlay
<1>9. j \in DOMAIN o /\ o[j] = Pick(f, P)
  BY <1>4, <1>6, <1>7, <1>8
<1>10. PICK n \in Nat : DOMAIN f = 1..n
  BY <1>6 DEF TypedClip, TypedFrame
<1>11. P \in SUBSET (1..n) /\ y \in P
  BY <1>6, <1>7, <1>10
<1>12. ToSet(Pick(f, P)) = {f[i] : i \in P}
  BY <1>10, <1>11, PickFacts
<1>13. f[y] \in ToSet(o[j])
  BY <1>9, <1>11, <1>12
<1> QED
  BY <1>5, <1>6, <1>9, <1>13

LEMMA PersonsFacts ==
  ASSUME NEW f, TypedFrame(f), NEW t, t \in {d.track : d \in ToSet(Persons(f))}
  PROVE  \E y \in DOMAIN f : f[y].cue = "person" /\ f[y].track = t
<1>1. PICK n \in Nat : DOMAIN f = 1..n
  BY DEF TypedFrame
<1>2. PICK K : K = Tracked(f)
  OBVIOUS
<1>3. K \in SUBSET (1..n)
  BY <1>1, <1>2 DEF Tracked
<1>4. ToSet(Pick(f, K)) = {f[i] : i \in K}
  BY <1>3, PickFacts
<1>5. PICK y \in K : f[y].track = t
  BY <1>2, <1>4 DEF Persons
<1> QED
  BY <1>2, <1>5 DEF Tracked, IsTracked

(* Two frames running are never both skipped.                                  *)
LEMMA OverlayFacts ==
  ASSUME TypedClip(frames), overlay = Overlay(frames), NEW e
  PROVE  InOverlay(e)
<1>1. PICK m \in Nat : DOMAIN frames = 1..m
  BY DEF TypedClip
<1>2. PICK t : t = e.track
  OBVIOUS
<1> DEFINE seen == {i \in DOMAIN frames : t \in {d.track : d \in ToSet(Persons(frames[i]))}}
<1>3. ASSUME NEW i \in seen, i + 1 \in seen
      PROVE  \E j \in DOMAIN overlay : \E d \in ToSet(overlay[j]) : d.track = t
  <2>1. \A x \in seen : x \in DOMAIN frames /\ \E y \in DOMAIN frames[x] :
            frames[x][y].cue = "person" /\ frames[x][y].track = t
    <3> TAKE x \in seen
    <3>1. PICK f : f = frames[x]
      OBVIOUS
    <3>2. TypedFrame(f)
      BY <3>1 DEF TypedClip
    <3> QED
      BY <3>1, <3>2, PersonsFacts
  <2>2. i \in Nat /\ i # 0
    BY <1>1
  <2>3. \E x \in seen : (x - 1) % Stride = 0
    <3>1. (i - 1) % Stride = 0 \/ ((i + 1) - 1) % Stride = 0
      <4>1. CASE Stride = 1
        BY <2>2, <4>1
      <4>2. CASE Stride = 2
        BY <2>2, <4>2
      <4> QED
        BY <4>1, <4>2, ClipAssumption
    <3> QED
      BY <1>3, <3>1
  <2>4. PICK x \in seen : (x - 1) % Stride = 0
    BY <2>3
  <2> HIDE DEF seen
  <2>5. PICK y \in DOMAIN frames[x] : frames[x][y].cue = "person" /\ frames[x][y].track = t
    BY <2>1
  <2>6. x \in DOMAIN frames
    BY <2>1
  <2> QED
    BY <2>4, <2>5, <2>6, OverlayShows
<1> QED
  BY <1>2, <1>3 DEF InOverlay

(* At the end of the scan every event is borne out.                            *)
LEMMA Ended ==
  ASSUME ClipInv, ScanInv, phase \in {"done", "scored", "unscored"}
  PROVE  /\ TypedClip(frames) /\ overlay = Overlay(frames)
         /\ \E T : Piece(events, T) /\ T \subseteq Risk!AiEventType
<1>1. TypedClip(frames) /\ overlay = Overlay(frames) /\ events = ExtractEvents(acc) /\ k = Len(frames) + 1
  BY DEF ClipInv, ScanInv
<1>2. k - 1 = Len(frames)
  BY <1>1 DEF TypedClip
<1>3. PICK a : a = acc
  OBVIOUS
<1>4. Final(a)
  BY <1>1, <1>2, <1>3 DEF ScanInv, Final
<1>5. \E T : Piece(ExtractEvents(a), T) /\ T \subseteq Risk!AiEventType
  BY <1>4, EventsBorne
<1> QED
  BY <1>1, <1>3, <1>5

(* Whoever an event names was where it says, and the overlay shows the person  *)
(* under the same name, for any clip, zones, views and thresholds.             *)
THEOREM EventsPlacePersons == ScoringSpec => []EventPlacesItsPerson
<1>1. ClipInv /\ ScanInv => EventPlacesItsPerson
  <2> SUFFICES ASSUME ClipInv, ScanInv, phase = "done", NEW e \in ToSet(events)
               PROVE  /\ InOverlay(e)
                      /\ e.type \in {"HighValueZoneEntry", "Dwell", "BlindSpotMovement", "GroupDistraction",
                                     "ExitWithoutCheckout", "ShelfPickupNoCheckout"}
                           => PersonIn(e.track, e.zone) # {}
                      /\ e.type = "HighValueActivity" /\ e.track # 0 => PersonIn(e.track, e.zone) # {}
                      /\ e.type \in {"ExitWithoutCheckout", "ShelfPickupNoCheckout"} =>
                           \E i \in PersonIn(e.track, e.zone), j \in AtAnyShelf(e.track) : j <= i
                      /\ e.type = "LowStaffRemoval" /\ e.track > 0 => \E i \in DOMAIN frames :
                           \E d \in ToSet(frames[i]) : d.cue = "person" /\ d.track = e.track
    BY DEF EventPlacesItsPerson
  <2>1. TypedClip(frames) /\ overlay = Overlay(frames) /\ \E T : Piece(events, T)
    BY Ended
  <2>2. Borne(e)
    BY <2>1 DEF Piece
  <2>3. InOverlay(e)
    BY <2>1, OverlayFacts
  <2>4. e.type = "LowStaffRemoval" /\ e.track > 0 => \E i \in DOMAIN frames :
           \E d \in ToSet(frames[i]) : d.cue = "person" /\ d.track = e.track
    BY <2>2 DEF Borne, Person0
  <2> QED
    BY <2>2, <2>3, <2>4 DEF Borne, ExitTypes
<1> QED
  BY <1>1, ClipAndScan, PTL

(* Accumulators and events name zones of the camera and persons that the       *)
(* tracker has reported, for any clip, zones, views and thresholds.            *)
THEOREM ExtractionTypes == ScoringSpec => []TypeOK
<1>1. MergeInv /\ ClipInv /\ ScanInv => TypeOK
  <2> SUFFICES ASSUME MergeInv, ClipInv, ScanInv PROVE TypeOK
    OBVIOUS
  <2>1. \A x : Place0(x) => x \in {z.id : z \in ToSet(Zones)} \cup {0}
    BY DEF Place0, ZoneIds
  <2>2. \A t : Person0(t) => t \in Ids \cup {0}
    BY DEF Person0
  <2>3. ASSUME NEW e \in ToSet(events)
        PROVE  e.zone \in {z.id : z \in ToSet(Zones)} \cup {0} /\ e.track \in Ids \cup {0} /\ e.value > 0
    <3>1. CASE phase \in {"done", "scored", "unscored"}
      <4>1. Borne(e)
        BY <2>3, <3>1, Ended DEF Piece
      <4> QED
        BY <2>1, <2>2, <4>1 DEF Borne
    <3>2. CASE phase \notin {"done", "scored", "unscored"}
      <4>1. events = <<>>
        BY <3>2 DEF ClipInv, ScanInv
      <4> QED
        BY <2>3, <4>1 DEF ToSet
    <3> QED
      BY <3>1, <3>2
  <2>4. \A sig \in {acc.openBag, acc.bag} :
           sig.zone \in {z.id : z \in ToSet(Zones)} \cup {0} /\ sig.track \in Ids \cup {0}
    <3>1. CASE phase \in {"track", "link", "failed"}
      BY <3>1 DEF ScanInv, NoEvidence, NoSignal
    <3>2. CASE phase \notin {"track", "link", "failed"}
      <4>1. TypedClip(frames) /\ AccInv(acc, frames, k - 1)
        BY <3>2 DEF ClipInv, ScanInv
      <4> SUFFICES ASSUME NEW sig \in {acc.openBag, acc.bag}
                   PROVE  sig.zone \in ZoneIds \cup {0} /\ sig.track \in Ids \cup {0}
        BY DEF ZoneIds
      <4>2. PICK H : SignalInv(sig, frames, H)
        BY <4>1 DEF AccInv, Evidence
      <4>3. sig.zone = 0 \/ \E q \in H : sig.zone \in IdsAt(At(frames, q).at, ShelfLike)
        BY <4>2 DEF SignalInv
      <4>4. sig.zone \in ZoneIds \cup {0}
        BY <4>3, IdsAtFacts
      <4>5. PICK t : t = sig.track
        OBVIOUS
      <4>6. Somebody(frames, t)
        BY <4>2, <4>5 DEF SignalInv
      <4>7. t \in Ids \cup {0}
        BY <4>1, <4>6, PersonIdsAreIds DEF Somebody
      <4> QED
        BY <4>4, <4>5, <4>7
    <3> QED
      BY <3>1, <3>2
  <2> QED
    BY <2>3, <2>4 DEF MergeInv, ClipInv, TypeOK
<1> QED
  BY <1>1, ClipAndScan, PTL
=============================================================================
