-------------------------- MODULE RiskEngineProofs --------------------------
(***************************************************************************)
(* What the operators of RiskEngine promise for every configuration, and   *)
(* what an alert says of a clip (AlertsBorneOut): its score, its types and *)
(* its zone come from the events that counted (TallyInv), those are borne  *)
(* out by the frames (Borne, in ExtractionProofs), and the risk event and  *)
(* the alert are made of them and of one of the Occasions (ScoreInv).      *)
(***************************************************************************)
EXTENDS ExtractionProofs

Rank(level) == CASE level = "None" -> 0 [] level = "Low" -> 1
                 [] level = "Medium" -> 2 [] level = "High" -> 3

\* More points never lower the level, in whatever order the bands of the row
\* are: the tuning page and PUT /api/rule-configs accept any numbers.
THEOREM LevelMonotone ==
    ASSUME NEW cfg, NEW s \in Int, NEW t \in Int, s <= t,
           cfg.low \in Int, cfg.medium \in Int, cfg.high \in Int
    PROVE  Rank(Risk!Level(s, cfg)) <= Rank(Risk!Level(t, cfg))
BY DEF Rank, Risk!Level

\* A score that gets an alert has a level, and one that is mailed has at least
\* Medium, whether or not the bands are in order.
THEOREM AlertedHasLevel ==
    ASSUME NEW cfg, NEW s
    PROVE  /\ s >= cfg.low => Risk!Level(s, cfg) # "None"
           /\ s >= cfg.medium => Risk!Level(s, cfg) \in {"Medium", "High"}
BY DEF Risk!Level

\* The distance from one hour forward to another.
LEMMA HoursAhead ==
    ASSUME NEW a \in 0..23, NEW b \in 0..23
    PROVE  (b - a) % 24 = IF b >= a THEN b - a ELSE b - a + 24
<1>1. CASE b >= a
  BY <1>1
<1>2. CASE b < a
  BY <1>2
<1> QED BY <1>1, <1>2

\* The low-staff window is made of the hours that are passed on the way from its
\* start to its end, also round midnight; it is empty when they are the same.
THEOREM LowStaffWindow ==
    ASSUME NEW cfg, NEW hour \in 0..23, cfg.from \in 0..23, cfg.to \in 0..23
    PROVE  Risk!IsLowStaffHour(cfg, hour) <=> (hour - cfg.from) % 24 < (cfg.to - cfg.from) % 24
<1> DEFINE ahead  == (hour - cfg.from) % 24
           length == (cfg.to - cfg.from) % 24
<1>1. ahead = IF hour >= cfg.from THEN hour - cfg.from ELSE hour - cfg.from + 24
  BY HoursAhead
<1>2. length = IF cfg.to >= cfg.from THEN cfg.to - cfg.from ELSE cfg.to - cfg.from + 24
  BY HoursAhead
<1> HIDE DEF ahead, length
<1>3. PICK from \in 0..23, to \in 0..23 : from = cfg.from /\ to = cfg.to
  OBVIOUS
<1>4. ahead = (IF hour >= from THEN hour - from ELSE hour - from + 24)
  BY <1>1, <1>3
<1>5. length = (IF to >= from THEN to - from ELSE to - from + 24)
  BY <1>2, <1>3
<1>6. Risk!IsLowStaffHour(cfg, hour) <=>
          from # to /\ IF from < to THEN hour >= from /\ hour < to ELSE hour >= from \/ hour < to
  BY <1>3 DEF Risk!IsLowStaffHour
<1>7. CASE from <= to
  <2>1. ahead < length <=> from <= hour /\ hour < to
    BY <1>4, <1>5, <1>7
  <2> QED BY <1>6, <1>7, <2>1 DEF ahead, length
<1>8. CASE from > to
  <2>1. ahead < length <=> from <= hour \/ hour < to
    BY <1>4, <1>5, <1>8
  <2> QED BY <1>6, <1>8, <2>1 DEF ahead, length
<1> QED BY <1>7, <1>8

\* Half to even stays within half a point.
LEMMA RoundedNear ==
    ASSUME NEW n \in Int, NEW d \in Nat \ {0}
    PROVE  /\ Risk!Rounded(n, d) \in Int
           /\ 2 * d * Risk!Rounded(n, d) <= 2 * n + d
           /\ 2 * d * Risk!Rounded(n, d) >= 2 * n - d
BY DEF Risk!Rounded

\* A multiple of d is not rounded past another one.
LEMMA RoundedWithin ==
    ASSUME NEW n \in Int, NEW d \in Nat \ {0}, NEW a \in Int, NEW b \in Int,
           a * d <= n, n <= b * d
    PROVE  Risk!Rounded(n, d) \in a..b
<1> DEFINE r == Risk!Rounded(n, d)
<1>1. r \in Int /\ 2 * d * r <= 2 * n + d /\ 2 * d * r >= 2 * n - d
  BY RoundedNear
<1> HIDE DEF r
<1>2. r <= b
  <2>1. SUFFICES ASSUME r >= b + 1 PROVE FALSE
    BY <1>1
  <2>2. d * r >= d * (b + 1)
    BY <1>1, <2>1
  <2> QED BY <1>1, <2>2
<1>3. r >= a
  <2>1. SUFFICES ASSUME r <= a - 1 PROVE FALSE
    BY <1>1
  <2>2. d * r <= d * (a - 1)
    BY <1>1, <2>1
  <2> QED BY <1>1, <2>2
<1> QED BY <1>1, <1>2, <1>3 DEF r

\* A dwell that counts earns between 10 points and its weight, "max contribution"
\* in RiskConfig: also where a row has dwellMax at or below dwellAt, and a dwell
\* far beyond dwellMax.
THEOREM DwellPointsBounded ==
    ASSUME NEW cfg, NEW value \in Int, cfg.dwellAt \in Int, cfg.dwellMax \in Int,
           cfg.weights["Dwell"] \in Int, cfg.weights["Dwell"] >= 10, value >= cfg.dwellAt
    PROVE  Risk!DwellPoints(value, cfg) \in 10..cfg.weights["Dwell"]
<1> DEFINE w    == cfg.weights["Dwell"]
           span == IF cfg.dwellMax - cfg.dwellAt > 1 THEN cfg.dwellMax - cfg.dwellAt ELSE 1
           over == IF value - cfg.dwellAt < span THEN value - cfg.dwellAt ELSE span
<1>1. w \in Int /\ w >= 10 /\ span \in Nat \ {0} /\ over \in 0..span
  OBVIOUS
<1>2. Risk!DwellPoints(value, cfg) = Risk!Rounded(10 * span + over * (w - 10), span)
  BY DEF Risk!DwellPoints
<1> HIDE DEF w, span, over
<1>3. 0 <= over * (w - 10) /\ over * (w - 10) <= span * (w - 10)
  BY <1>1
<1>4. /\ 10 * span + over * (w - 10) \in Int
      /\ 10 * span <= 10 * span + over * (w - 10)
      /\ 10 * span + over * (w - 10) <= w * span
  BY <1>1, <1>3
<1> DEFINE n == 10 * span + over * (w - 10)
<1>5. n \in Int /\ 10 * span <= n /\ n <= w * span
  BY <1>4
<1> HIDE DEF n
<1>6. Risk!Rounded(n, span) \in 10..w
  BY <1>1, <1>5, RoundedWithin
<1> QED BY <1>2, <1>6 DEF n, w

-----------------------------------------------------------------------------
(* The loop of Score over the events.                                          *)
Tallied(t, e, cfg, hour) ==
    IF Risk!Counts(e, cfg, hour, t.scored) THEN Risk!Award(t, e, cfg) ELSE t
Tallying(r, es, cfg, hour, n) ==
    r = [i \in 0..n |-> IF i = 0 THEN Risk!Nothing ELSE Tallied(r[i - 1], es[i], cfg, hour)]

LEMMA TallyExists ==
  ASSUME NEW es, NEW cfg, NEW hour, NEW n \in Nat
  PROVE  \E r : Tallying(r, es, cfg, hour, n)
<1> DEFINE S == {m \in Nat : \E r : Tallying(r, es, cfg, hour, m)}
<1>1. 0 \in S
  <2>1. PICK r : r = [j \in 0..0 |-> Risk!Nothing]
    OBVIOUS
  <2>2. r = [j \in 0..0 |-> IF j = 0 THEN Risk!Nothing ELSE Tallied(r[j - 1], es[j], cfg, hour)]
    BY <2>1
  <2> QED
    BY <2>2 DEF Tallying
<1>2. ASSUME NEW m \in Nat, m \in S PROVE m + 1 \in S
  <2>1. PICK r : Tallying(r, es, cfg, hour, m)
    BY <1>2
  <2>2. PICK x : x = Tallied(r[m], es[m + 1], cfg, hour)
    OBVIOUS
  <2>3. PICK t : t = [j \in 0..(m + 1) |-> IF j <= m THEN r[j] ELSE x]
    OBVIOUS
  <2>4. DOMAIN r = 0..m
        /\ \A j \in 0..m : r[j] = IF j = 0 THEN Risk!Nothing ELSE Tallied(r[j - 1], es[j], cfg, hour)
    BY <2>1 DEF Tallying
  <2>5. ASSUME NEW j \in 0..(m + 1)
        PROVE  t[j] = IF j = 0 THEN Risk!Nothing ELSE Tallied(t[j - 1], es[j], cfg, hour)
    <3>1. CASE j = 0
      BY <2>3, <2>4, <3>1
    <3>2. CASE j # 0 /\ j <= m
      <4>1. t[j] = r[j] /\ t[j - 1] = r[j - 1]
        BY <2>3, <3>2
      <4> QED
        BY <2>4, <3>2, <4>1
    <3>3. CASE j # 0 /\ ~ (j <= m)
      <4>1. j = m + 1 /\ j - 1 = m
        BY <3>3
      <4>2. t[j] = x /\ t[j - 1] = r[m]
        BY <2>3, <4>1
      <4> QED
        BY <2>2, <3>3, <4>1, <4>2
    <3> QED
      BY <3>1, <3>2, <3>3
  <2>6. t = [j \in 0..(m + 1) |-> IF j = 0 THEN Risk!Nothing ELSE Tallied(t[j - 1], es[j], cfg, hour)]
    BY <2>3, <2>5
  <2> QED
    BY <2>6 DEF Tallying
<1> HIDE DEF S
<1>3. Nat \subseteq S
  BY <1>1, <1>2, Inductive
<1> QED
  BY <1>3 DEF S

LEMMA TallyRuns ==
  ASSUME NEW es, NEW cfg, NEW hour, NEW n \in Nat, n = Len(es)
  PROVE  \E r : Tallying(r, es, cfg, hour, n) /\ Risk!Tally(es, cfg, hour) = r[n]
<1>1. PICK s : s = CHOOSE r : r = [i \in 0..Len(es) |->
          IF i = 0 THEN Risk!Nothing
          ELSE IF Risk!Counts(es[i], cfg, hour, r[i - 1].scored) THEN Risk!Award(r[i - 1], es[i], cfg)
          ELSE r[i - 1]]
  OBVIOUS
<1>2. Risk!Tally(es, cfg, hour) = s[Len(es)]
  BY <1>1 DEF Risk!Tally
<1>3. PICK r : Tallying(r, es, cfg, hour, n)
  BY TallyExists
<1>4. r = [i \in 0..Len(es) |->
          IF i = 0 THEN Risk!Nothing
          ELSE IF Risk!Counts(es[i], cfg, hour, r[i - 1].scored) THEN Risk!Award(r[i - 1], es[i], cfg)
          ELSE r[i - 1]]
  BY <1>3, Zenon DEF Tallying, Tallied
<1>5. s = [i \in 0..Len(es) |->
          IF i = 0 THEN Risk!Nothing
          ELSE IF Risk!Counts(es[i], cfg, hour, s[i - 1].scored) THEN Risk!Award(s[i - 1], es[i], cfg)
          ELSE s[i - 1]]
  BY <1>1, <1>4
<1>6. Tallying(s, es, cfg, hour, n)
  BY <1>5, Zenon DEF Tallying, Tallied
<1> QED
  BY <1>2, <1>6

(* What has scored is the type of an event that counts, and the zone is that   *)
(* of one of the events.                                                       *)
CountsOnce(e, cfg, hour) == \E scored : Risk!Counts(e, cfg, hour, scored)
TallyInv(t, es, i, cfg, hour) ==
    /\ \A x \in t.scored : \E j \in 1..i : es[j].type = x /\ CountsOnce(es[j], cfg, hour)
    /\ t.zone = 0 \/ \E j \in 1..i : es[j].zone = t.zone

LEMMA TallyKeeps ==
  ASSUME NEW i \in Nat, NEW es, NEW cfg, NEW hour, NEW t, TallyInv(t, es, i, cfg, hour)
  PROVE  TallyInv(Tallied(t, es[i + 1], cfg, hour), es, i + 1, cfg, hour)
<1>1. PICK e : e = es[i + 1]
  OBVIOUS
<1>2. PICK u : u = Tallied(t, e, cfg, hour)
  OBVIOUS
<1>3. \A j \in 1..i : j \in 1..(i + 1)
  OBVIOUS
<1>4. i + 1 \in 1..(i + 1)
  OBVIOUS
<1>5. CASE Risk!Counts(e, cfg, hour, t.scored)
  <2>1. u.scored = t.scored \cup {e.type} /\ u.zone = (IF t.zone = 0 THEN e.zone ELSE t.zone)
    BY <1>2, <1>5 DEF Tallied, Risk!Award
  <2>2. CountsOnce(e, cfg, hour)
    BY <1>5 DEF CountsOnce
  <2> QED
    BY <1>1, <1>2, <1>3, <1>4, <2>1, <2>2 DEF TallyInv
<1>6. CASE ~ Risk!Counts(e, cfg, hour, t.scored)
  <2>1. u = t
    BY <1>2, <1>6 DEF Tallied
  <2> QED
    BY <1>1, <1>2, <1>3, <2>1 DEF TallyInv
<1> QED
  BY <1>5, <1>6

LEMMA TallyFacts ==
  ASSUME NEW es, es \in Seq(ToSet(es)), NEW cfg, NEW hour
  PROVE  TallyInv(Risk!Tally(es, cfg, hour), es, Len(es), cfg, hour)
<1>1. PICK n \in Nat : n = Len(es)
  OBVIOUS
<1>2. PICK r : Tallying(r, es, cfg, hour, n) /\ Risk!Tally(es, cfg, hour) = r[n]
  BY <1>1, TallyRuns
<1>3. \A j \in 0..n : r[j] = IF j = 0 THEN Risk!Nothing ELSE Tallied(r[j - 1], es[j], cfg, hour)
  BY <1>2 DEF Tallying
<1> DEFINE S == {i \in Nat : i <= n => TallyInv(r[i], es, i, cfg, hour)}
<1>4. 0 \in S
  <2>1. r[0] = Risk!Nothing
    BY <1>3
  <2> QED
    BY <2>1 DEF TallyInv, Risk!Nothing
<1>5. ASSUME NEW i \in Nat, i \in S PROVE i + 1 \in S
  <2>1. SUFFICES ASSUME i + 1 <= n PROVE TallyInv(r[i + 1], es, i + 1, cfg, hour)
    OBVIOUS
  <2>2. PICK t : t = r[i]
    OBVIOUS
  <2>3. TallyInv(t, es, i, cfg, hour)
    BY <1>5, <2>1, <2>2
  <2>4. r[i + 1] = Tallied(t, es[i + 1], cfg, hour)
    <3>1. i + 1 \in 0..n /\ i + 1 # 0 /\ (i + 1) - 1 = i
      BY <2>1
    <3> QED
      BY <1>3, <2>2, <3>1
  <2> QED
    BY <2>3, <2>4, TallyKeeps
<1> HIDE DEF S
<1>6. Nat \subseteq S
  BY <1>4, <1>5, Inductive
<1>7. TallyInv(r[n], es, n, cfg, hour)
  BY <1>6 DEF S
<1> QED
  BY <1>1, <1>2, <1>7

(* With the starter weights no event earns more than 25 points, but for 40 of  *)
(* a concealment.                                                              *)
LEMMA StarterPoints ==
  ASSUME NEW e, e.type \in Risk!AiEventType, e.value \in Nat, NEW hour, CountsOnce(e, Risk!Starter, hour)
  PROVE  /\ Risk!Points(e, Risk!Starter) \in Int
         /\ Risk!Points(e, Risk!Starter) <= IF e.type = "Concealment" THEN 40 ELSE 25
<1>1. PICK cfg : cfg = Risk!Starter
  OBVIOUS
<1>2. /\ cfg.weights = [t \in Risk!AiEventType |->
           CASE t = "Concealment" -> 40
             [] t = "ShelfPickupNoCheckout" -> 25
             [] t \in {"Dwell", "BagOpen", "ExitWithoutCheckout"} -> 20
             [] t \in {"HighValueZoneEntry", "RepeatedHandling", "BlindSpotMovement",
                       "HighValueActivity"} -> 15
             [] t \in {"GroupDistraction", "LowStaffRemoval"} -> 10]
      /\ cfg.dwellAt = 30 /\ cfg.dwellMax = 90
  BY <1>1 DEF Risk!Starter
<1>3. Risk!AiEventType \subseteq
        {"ShelfPickupNoCheckout", "Concealment", "ExitWithoutCheckout", "BagOpen",
         "BlindSpotMovement", "LowStaffRemoval", "GroupDistraction",
         "HighValueActivity", "RepeatedHandling", "Dwell", "HighValueZoneEntry"}
  BY DEF Risk!AiEventType, Risk!Strongest, Risk!ToSet
<1>4. PICK w : w = cfg.weights
  OBVIOUS
<1>5. ASSUME NEW t \in Risk!AiEventType
      PROVE  w[t] \in Int /\ w[t] <= (IF t = "Concealment" THEN 40 ELSE 25) /\ (t = "Dwell" => w[t] = 20)
  <2>1. w[t] = CASE t = "Concealment" -> 40
             [] t = "ShelfPickupNoCheckout" -> 25
             [] t \in {"Dwell", "BagOpen", "ExitWithoutCheckout"} -> 20
             [] t \in {"HighValueZoneEntry", "RepeatedHandling", "BlindSpotMovement",
                       "HighValueActivity"} -> 15
             [] t \in {"GroupDistraction", "LowStaffRemoval"} -> 10
    BY <1>2, <1>4
  <2>2. CASE t = "Concealment"
    BY <2>1, <2>2
  <2>3. CASE t = "ShelfPickupNoCheckout"
    BY <2>1, <2>3
  <2>4. CASE t \in {"Dwell", "BagOpen", "ExitWithoutCheckout"}
    BY <2>1, <2>4
  <2>5. CASE t \in {"HighValueZoneEntry", "RepeatedHandling", "BlindSpotMovement", "HighValueActivity"}
    BY <2>1, <2>5
  <2>6. CASE t \in {"GroupDistraction", "LowStaffRemoval"}
    BY <2>1, <2>6
  <2> QED
    BY <1>3, <2>2, <2>3, <2>4, <2>5, <2>6
<1>6. CASE e.type = "Dwell"
  <2>1. e.value >= 30
    BY <1>1, <1>2, <1>6 DEF CountsOnce, Risk!Counts
  <2>2. PICK v \in Nat : v = e.value /\ v >= 30
    BY <2>1
  <2>3. Risk!Points(e, cfg) = Risk!DwellPoints(v, cfg)
    BY <1>6, <2>2 DEF Risk!Points
  <2>4. "Dwell" \in Risk!AiEventType
    BY <1>6
  <2>5. cfg.weights["Dwell"] = 20
    BY <1>4, <1>5, <2>4
  <2>6. PICK over \in 0..60 : over = IF v - 30 < 60 THEN v - 30 ELSE 60
    BY <2>2
  <2>7. Risk!DwellPoints(v, cfg) = Risk!Rounded(600 + over * 10, 60)
    <3>1. PICK span : span = IF cfg.dwellMax - cfg.dwellAt > 1 THEN cfg.dwellMax - cfg.dwellAt ELSE 1
      OBVIOUS
    <3>2. span = 60
      BY <1>2, <3>1
    <3>3. over = IF v - cfg.dwellAt < span THEN v - cfg.dwellAt ELSE span
      BY <1>2, <2>6, <3>2
    <3>4. Risk!DwellPoints(v, cfg) = Risk!Rounded(10 * span + over * (cfg.weights["Dwell"] - 10), span)
      BY <3>1, <3>3, Zenon DEF Risk!DwellPoints
    <3>5. 10 * span + over * (cfg.weights["Dwell"] - 10) = 600 + over * 10
      BY <2>5, <3>2
    <3> QED
      BY <3>2, <3>4, <3>5
  <2>8. PICK n \in 600..1200 : n = 600 + over * 10
    BY <2>6
  <2>9. Risk!Rounded(n, 60) \in Int /\ Risk!Rounded(n, 60) <= 20
    BY <2>8 DEF Risk!Rounded
  <2> QED
    BY <1>1, <1>6, <2>3, <2>7, <2>8, <2>9
<1>7. CASE e.type # "Dwell"
  <2>1. Risk!Points(e, cfg) = w[e.type]
    BY <1>4, <1>7 DEF Risk!Points
  <2> QED
    BY <1>1, <1>5, <2>1
<1> QED
  BY <1>6, <1>7

Scant(t, es, i) ==
    /\ IsFiniteSet(t.scored) /\ t.scored \subseteq {es[j].type : j \in 1..i} /\ t.score \in Int
    /\ t.score <= 25 * Cardinality(t.scored) + (IF "Concealment" \in t.scored THEN 15 ELSE 0)

LEMMA StarterKeeps ==
  ASSUME NEW n \in Nat, NEW i \in Nat, i < n, NEW es, NEW t, Scant(t, es, i), NEW hour,
         \A a, b \in 1..n : es[a].type = es[b].type => a = b,
         es[i + 1].type \in Risk!AiEventType, es[i + 1].value \in Nat
  PROVE  Scant(Tallied(t, es[i + 1], Risk!Starter, hour), es, i + 1)
<1>1. PICK e : e = es[i + 1]
  OBVIOUS
<1>2. PICK u : u = Tallied(t, e, Risk!Starter, hour)
  OBVIOUS
<1>3. t.scored \subseteq {es[j].type : j \in 1..(i + 1)}
  <2>1. \A j \in 1..i : j \in 1..(i + 1)
    OBVIOUS
  <2> QED
    BY <2>1 DEF Scant
<1>4. e.type \notin t.scored
  <2>1. ASSUME NEW j \in 1..i PROVE es[j].type # es[i + 1].type
    <3>1. j \in 1..n /\ i + 1 \in 1..n /\ j # i + 1
      OBVIOUS
    <3> QED
      BY <3>1
  <2> QED
    BY <1>1, <2>1 DEF Scant
<1>5. CASE Risk!Counts(e, Risk!Starter, hour, t.scored)
  <2>1. PICK p : p = Risk!Points(e, Risk!Starter)
    OBVIOUS
  <2>2. p \in Int /\ p <= IF e.type = "Concealment" THEN 40 ELSE 25
    BY <1>1, <1>5, <2>1, StarterPoints DEF CountsOnce
  <2>3. u.scored = t.scored \cup {e.type} /\ u.score = t.score + p
    BY <1>2, <1>5, <2>1 DEF Tallied, Risk!Award
  <2>4. IsFiniteSet(u.scored) /\ Cardinality(u.scored) = Cardinality(t.scored) + 1
        /\ Cardinality(t.scored) \in Nat
    BY <1>4, <2>3, FS_AddElement, FS_CardinalityType DEF Scant
  <2>5. e.type \in {es[j].type : j \in 1..(i + 1)}
    BY <1>1
  <2>6. u.score \in Int
    BY <2>2, <2>3 DEF Scant
  <2>7. u.score <= 25 * Cardinality(u.scored) + (IF "Concealment" \in u.scored THEN 15 ELSE 0)
    <3>1. PICK c \in Nat : c = Cardinality(t.scored) /\ Cardinality(u.scored) = c + 1
      BY <2>4
    <3>2. PICK x \in Int : x = t.score /\ u.score = x + p
      BY <2>3 DEF Scant
    <3>3. CASE e.type = "Concealment"
      <4>1. x <= 25 * c /\ "Concealment" \in u.scored
        BY <1>4, <2>3, <3>1, <3>2, <3>3 DEF Scant
      <4> QED
        BY <2>2, <3>1, <3>2, <3>3, <4>1
    <3>4. CASE e.type # "Concealment" /\ "Concealment" \in t.scored
      <4>1. x <= 25 * c + 15 /\ "Concealment" \in u.scored
        BY <2>3, <3>1, <3>2, <3>4 DEF Scant
      <4> QED
        BY <2>2, <3>1, <3>2, <3>4, <4>1
    <3>5. CASE e.type # "Concealment" /\ "Concealment" \notin t.scored
      <4>1. x <= 25 * c /\ "Concealment" \notin u.scored
        BY <2>3, <3>1, <3>2, <3>5 DEF Scant
      <4> QED
        BY <2>2, <3>1, <3>2, <3>5, <4>1
    <3> QED
      BY <3>3, <3>4, <3>5
  <2>8. u.scored \subseteq {es[j].type : j \in 1..(i + 1)}
    BY <1>3, <2>3, <2>5
  <2> QED
    BY <1>1, <1>2, <2>4, <2>6, <2>7, <2>8 DEF Scant
<1>6. CASE ~ Risk!Counts(e, Risk!Starter, hour, t.scored)
  <2>1. u = t
    BY <1>2, <1>6 DEF Tallied
  <2> QED
    BY <1>1, <1>2, <1>3, <2>1 DEF Scant
<1> QED
  BY <1>5, <1>6

(* No type occurs twice among the events of a clip, so that with the starter   *)
(* weights 70 points, from which on Ingest mails, need three kinds of signals. *)
THEOREM ThreeSignalsForMail ==
  ASSUME NEW es, es \in Seq(ToSet(es)), NEW hour, NEW n \in Nat, n = Len(es),
         \A a, b \in 1..n : es[a].type = es[b].type => a = b,
         \A a \in 1..n : es[a].type \in Risk!AiEventType /\ es[a].value \in Nat,
         NEW t, t = Risk!Tally(es, Risk!Starter, hour), t.score >= 70
  PROVE  Cardinality(t.scored) >= 3
<1>1. PICK r : Tallying(r, es, Risk!Starter, hour, n) /\ Risk!Tally(es, Risk!Starter, hour) = r[n]
  BY TallyRuns
<1>2. \A j \in 0..n : r[j] = IF j = 0 THEN Risk!Nothing ELSE Tallied(r[j - 1], es[j], Risk!Starter, hour)
  BY <1>1 DEF Tallying
<1> DEFINE S == {i \in Nat : i <= n => Scant(r[i], es, i)}
<1>3. 0 \in S
  <2>1. r[0] = Risk!Nothing
    BY <1>2
  <2>2. Risk!Nothing.scored = {} /\ Risk!Nothing.score = 0
    BY DEF Risk!Nothing
  <2> QED
    <3>1. PICK t0 : t0 = r[0] /\ t0.scored = {} /\ t0.score = 0
      BY <2>1, <2>2
    <3>2. IsFiniteSet(t0.scored) /\ Cardinality(t0.scored) = 0
      BY <3>1, FS_EmptySet
    <3>3. Scant(t0, es, 0)
      BY <3>1, <3>2 DEF Scant
    <3> QED
      BY <3>1, <3>3
<1>4. ASSUME NEW i \in Nat, i \in S PROVE i + 1 \in S
  <2>1. SUFFICES ASSUME i + 1 <= n PROVE Scant(r[i + 1], es, i + 1)
    OBVIOUS
  <2>2. PICK u : u = r[i]
    OBVIOUS
  <2>3. Scant(u, es, i)
    BY <1>4, <2>1, <2>2
  <2>4. i + 1 \in 0..n /\ i + 1 # 0 /\ (i + 1) - 1 = i /\ i < n /\ i + 1 \in 1..n
    BY <2>1
  <2>5. r[i + 1] = Tallied(u, es[i + 1], Risk!Starter, hour)
    BY <1>2, <2>2, <2>4
  <2> QED
    BY <2>3, <2>4, <2>5, StarterKeeps
<1> HIDE DEF S
<1>5. Nat \subseteq S
  BY <1>3, <1>4, Inductive
<1>6. Scant(t, es, n)
  BY <1>1, <1>5 DEF S
<1>7. PICK c \in Nat : c = Cardinality(t.scored)
  BY <1>6, FS_CardinalityType DEF Scant
<1>8. t.score \in Int /\ t.score <= 25 * c + 15
  BY <1>6, <1>7 DEF Scant
<1> QED
  BY <1>7, <1>8

-----------------------------------------------------------------------------
(* What the risk event and the alert are made from.                            *)
ScoreInv ==
    /\ phase # "scored" => alerts = <<>>
    /\ phase = "scored" => \E o \in Occasions :
         LET cfg    == Risk!ResolveConfig(o.global, o.store)
             result == Risk!Score(events, cfg, o.hour)
         IN /\ riskEvents = <<[result |-> result, cfg |-> cfg, hour |-> o.hour]>>
            /\ alerts = IF result.score >= cfg.low THEN <<result>> ELSE <<>>
            /\ mailed => result.score >= cfg.medium

LEMMA InitScoreInv == ScoringInit => ScoreInv
BY DEF ScoringInit, Init, ScoreInv

LEMMA StepScoreInv == ScoreInv /\ [ScoringNext]_scoringVars => ScoreInv'
<1> SUFFICES ASSUME ScoreInv, [ScoringNext]_scoringVars PROVE ScoreInv'
  OBVIOUS
<1>1. CASE Extract
  <2>1. alerts' = alerts /\ riskEvents' = riskEvents /\ mailed' = mailed /\ Next
    BY <1>1 DEF Extract
  <2>2. phase # "scored" /\ phase' # "scored"
    BY <2>1 DEF Next, TrackFrame, TrackClipRaises, EndOfClip, LinkTrack, RenameTracks, Scan, EmitEvents
  <2> QED
    BY <2>1, <2>2 DEF ScoreInv
<1>2. CASE Ingest
  <2>1. PICK o \in Occasions : LET cfg == Risk!ResolveConfig(o.global, o.store)
           IN IF Risk!Raises(events, cfg, o.hour)
              THEN phase' = "unscored" /\ UNCHANGED <<riskEvents, alerts, mailed>>
              ELSE SaveScore(cfg, o.hour)
    BY <1>2 DEF Ingest
  <2>2. PICK cfg : cfg = Risk!ResolveConfig(o.global, o.store)
    OBVIOUS
  <2>3. phase = "done" /\ events' = events
    BY <1>2 DEF Ingest
  <2>4. CASE phase' = "unscored" /\ UNCHANGED <<riskEvents, alerts, mailed>>
    BY <2>3, <2>4 DEF ScoreInv
  <2>5. CASE SaveScore(cfg, o.hour)
    <3>1. PICK result : result = Risk!Score(events, cfg, o.hour)
      OBVIOUS
    <3>2. /\ riskEvents' = <<[result |-> result, cfg |-> cfg, hour |-> o.hour]>>
          /\ alerts' = IF result.score >= cfg.low THEN <<result>> ELSE <<>>
          /\ mailed' = (alerts' # <<>> /\ result.score >= cfg.medium)
          /\ phase' = "scored"
      BY <2>5, <3>1 DEF SaveScore
    <3>3. mailed' => result.score >= cfg.medium
      BY <3>2
    <3>4. result = Risk!Score(events', cfg, o.hour)
      BY <2>3, <3>1
    <3> QED
      BY <2>2, <3>2, <3>3, <3>4, Zenon DEF ScoreInv
  <2> QED
    BY <2>1, <2>2, <2>4, <2>5
<1>3. CASE UNCHANGED scoringVars
  BY <1>3 DEF scoringVars, vars, ScoreInv
<1> QED
  BY <1>1, <1>2, <1>3 DEF ScoringNext

(* The configuration that is resolved has a threshold.                         *)
LEMMA ResolvedTyped ==
  ASSUME NEW o \in Occasions, NEW cfg, cfg = Risk!ResolveConfig(o.global, o.store)
  PROVE  cfg.handlings \in Int /\ o.hour \in 0..23
<1>1. PICK g : g = o.global
  OBVIOUS
<1>2. PICK h : h = o.store
  OBVIOUS
<1>3. /\ g \in Seq(ToSet(g)) /\ \A i \in DOMAIN g : g[i].handlings \in Int
      /\ h \in Seq(ToSet(h)) /\ \A i \in DOMAIN h : h[i].handlings \in Int
      /\ o.hour \in 0..23
  BY <1>1, <1>2, OccasionsAssumption
<1>4. PICK m \in Nat : m = Len(g) /\ DOMAIN g = 1..m
  BY <1>3
<1>5. PICK n \in Nat : n = Len(h) /\ DOMAIN h = 1..n
  BY <1>3
<1>6. PICK A : A = ToSet(g) \cup ToSet(h) \cup {Risk!Starter}
  OBVIOUS
<1>7. PICK s : s = <<Risk!Starter>> \o g \o h
  OBVIOUS
<1>8. g \in Seq(A) /\ h \in Seq(A) /\ <<Risk!Starter>> \in Seq(A)
  <2>1. g \in [1..m -> A] /\ h \in [1..n -> A] /\ <<Risk!Starter>> \in [1..1 -> A]
    BY <1>3, <1>4, <1>5, <1>6 DEF ToSet
  <2> QED
    BY <1>4, <1>5, <2>1
<1>9. PICK q : q = <<Risk!Starter>> \o g /\ q \in Seq(A) /\ Len(q) = m + 1
  <2>1. PICK f : f = <<Risk!Starter>> /\ f \in Seq(A)
    BY <1>8
  <2>2. PICK q : q = f \o g
    OBVIOUS
  <2>3. Len(f) = 1
    BY <2>1
  <2>4. q \in Seq(A) /\ Len(q) = 1 + m
    BY <1>4, <1>8, <2>1, <2>2, <2>3
  <2>5. q = <<Risk!Starter>> \o g
    BY <2>1, <2>2, Zenon
  <2>6. Len(q) = m + 1
    BY <1>4, <2>4
  <2> QED
    BY <2>4, <2>5, <2>6, Zenon
<1>10. s = q \o h /\ Len(s) = m + 1 + n /\ s[m + 1 + n] = IF n = 0 THEN q[m + 1] ELSE h[n]
  BY <1>4, <1>5, <1>7, <1>8, <1>9
<1>11. q[m + 1] = IF m = 0 THEN Risk!Starter ELSE g[m]
  BY <1>4, <1>8, <1>9
<1>12. cfg = s[m + 1 + n]
  BY <1>1, <1>2, <1>7, <1>10 DEF Risk!ResolveConfig, Risk!Last
<1>13. Risk!Starter.handlings \in Int
  BY DEF Risk!Starter
<1>14. /\ m # 0 => g[m].handlings \in Int
       /\ n # 0 => h[n].handlings \in Int
  BY <1>3, <1>4, <1>5
<1> QED
  BY <1>3, <1>10, <1>11, <1>12, <1>13, <1>14

(* A low-staff hour is passed on the way from the start of the window.         *)
LEMMA WindowFacts ==
  ASSUME NEW cfg, NEW hour \in 0..23, {cfg.from, cfg.to} \subseteq 0..23, Risk!IsLowStaffHour(cfg, hour)
  PROVE  hour \in LowStaffHours(cfg)
<1>1. PICK from \in 0..23, to \in 0..23 : from = cfg.from /\ to = cfg.to
  OBVIOUS
<1>2. from # to /\ IF from < to THEN hour >= from /\ hour < to ELSE hour >= from \/ hour < to
  BY <1>1 DEF Risk!IsLowStaffHour
<1>3. PICK n : n = IF hour >= from THEN hour - from ELSE hour - from + 24
  OBVIOUS
<1>4. PICK l : l = IF to >= from THEN to - from ELSE to - from + 24
  OBVIOUS
<1>5. n \in 0..23 /\ n < l /\ l \in 0..23
  BY <1>2, <1>3, <1>4
<1>6. (to - from) % 24 = l
  BY <1>4
<1>7. (from + n) % 24 = hour
  BY <1>3
<1>8. n \in 0..(((cfg.to - cfg.from) % 24) - 1)
  BY <1>1, <1>5, <1>6
<1> QED
  BY <1>1, <1>7, <1>8 DEF LowStaffHours

(* The type of an alert is one of those that have scored.                      *)
LEMMA TypeFacts ==
  ASSUME NEW types
  PROVE  Risk!TypeOf(types) = "none" \/ Risk!TypeOf(types) \in types
<1>1. PICK S : S = Risk!Strongest
  OBVIOUS
<1>2. DOMAIN S = 1..11
  BY <1>1 DEF Risk!Strongest
<1>3. PICK at : at = {i \in DOMAIN S : S[i] \in types}
  OBVIOUS
<1>4. at \in SUBSET Nat
  BY <1>2, <1>3
<1>5. CASE at = {}
  BY <1>1, <1>3, <1>5 DEF Risk!TypeOf
<1>6. CASE at # {}
  <2>1. Min(at) \in at
    BY <1>4, <1>6, MinIsLeast
  <2>2. Risk!TypeOf(types) = S[Min(at)]
    BY <1>1, <1>3, <1>6 DEF Risk!TypeOf, Risk!Min, Min
  <2> QED
    BY <1>3, <2>1, <2>2
<1> QED
  BY <1>5, <1>6

-----------------------------------------------------------------------------
LEMMA EndedFinal ==
  ASSUME ClipInv, ScanInv, phase \in {"done", "scored", "unscored"}
  PROVE  Final(acc)
<1>1. TypedClip(frames) /\ k - 1 = Len(frames)
  BY DEF ClipInv, ScanInv, TypedClip
<1> QED
  BY <1>1 DEF ScanInv, Final

(* What has scored is borne out, and so is the zone.                           *)
LEMMA ScoredBorne ==
  ASSUME NEW es, NEW T, Piece(es, T), NEW cfg, NEW hour, NEW t, t = Risk!Tally(es, cfg, hour)
  PROVE  /\ t.zone # 0 => Occupied(t.zone)
         /\ \A x \in t.scored : \E e \in ToSet(es) : e.type = x /\ Borne(e) /\ CountsOnce(e, cfg, hour)
<1>1. es \in Seq(ToSet(es)) /\ \A e \in ToSet(es) : Borne(e)
  BY DEF Piece
<1>2. TallyInv(t, es, Len(es), cfg, hour)
  BY <1>1, TallyFacts
<1>3. \A j \in 1..Len(es) : es[j] \in ToSet(es)
  BY <1>1 DEF ToSet
<1>4. t.zone # 0 => Occupied(t.zone)
  <2>1. SUFFICES ASSUME t.zone # 0 PROVE Occupied(t.zone)
    OBVIOUS
  <2>2. PICK j \in 1..Len(es) : es[j].zone = t.zone
    BY <1>2, <2>1 DEF TallyInv
  <2>3. Place0(es[j].zone)
    BY <1>1, <1>3 DEF Borne
  <2> QED
    BY <2>1, <2>2, <2>3 DEF Place0
<1>5. ASSUME NEW x \in t.scored
      PROVE  \E e \in ToSet(es) : e.type = x /\ Borne(e) /\ CountsOnce(e, cfg, hour)
  <2>1. PICK j \in 1..Len(es) : es[j].type = x /\ CountsOnce(es[j], cfg, hour)
    BY <1>2 DEF TallyInv
  <2> QED
    BY <1>1, <1>3, <2>1
<1> QED
  BY <1>4, <1>5

(* What an alert of a type says.                                               *)
TypeBorne(type, cfg, hour) ==
    /\ type \in {"ShelfPickupNoCheckout", "ExitWithoutCheckout"} =>
           SomebodyLeft /\ (type = "ShelfPickupNoCheckout" <=> ProductAtShelf)
    /\ type = "BagOpen" =>
           \E cue \in {"bag", "open_bag"} : Cardinality(Sighted(cue)) >= Sustained
    /\ type = "LowStaffRemoval" =>
           ProductAtShelf /\ ({cfg.from, cfg.to} \subseteq 0..23 => hour \in LowStaffHours(cfg))
    /\ type = "RepeatedHandling" =>
           \/ cfg.handlings <= Cardinality({f \in DOMAIN frames : Shelved(frames[f], "product_in_hand") # <<>>})
           \/ cfg.handlings <= Cardinality(Sighted("person"))

LEMMA TypeIsBorne ==
  ASSUME NEW a, Final(a), NEW cfg, cfg.handlings \in Int, NEW hour \in 0..23,
         NEW e, Borne(e), CountsOnce(e, cfg, hour)
  PROVE  TypeBorne(e.type, cfg, hour)
<1>1. e.type \in {"ShelfPickupNoCheckout", "ExitWithoutCheckout"} =>
           SomebodyLeft /\ (e.type = "ShelfPickupNoCheckout" <=> ProductAtShelf)
  BY DEF Borne, ExitTypes
<1>2. e.type = "BagOpen" => \E cue \in {"bag", "open_bag"} : Cardinality(Sighted(cue)) >= Sustained
  BY DEF Borne
<1>3. e.type = "LowStaffRemoval" =>
           ProductAtShelf /\ ({cfg.from, cfg.to} \subseteq 0..23 => hour \in LowStaffHours(cfg))
  <2>1. e.type = "LowStaffRemoval" => Risk!IsLowStaffHour(cfg, hour)
    BY DEF CountsOnce, Risk!Counts
  <2> QED
    BY <2>1, WindowFacts DEF Borne
<1>4. e.type = "RepeatedHandling" =>
           \/ cfg.handlings <= Cardinality({f \in DOMAIN frames : Shelved(frames[f], "product_in_hand") # <<>>})
           \/ cfg.handlings <= Cardinality(Sighted("person"))
  <2>1. PICK F : F = {f \in DOMAIN frames : Shelved(frames[f], "product_in_hand") # <<>>}
    OBVIOUS
  <2>2. PICK G : G = Sighted("person")
    OBVIOUS
  <2>3. IsFiniteSet(F) /\ Cardinality(F) \in Nat
    <3>1. PICK m \in Nat : DOMAIN frames = 1..m
      BY DEF Final, TypedClip
    <3>2. IsFiniteSet(1..m) /\ F \subseteq 1..m
      BY <2>1, <3>1, FS_Interval
    <3> QED
      BY <3>2, FS_Subset, FS_CardinalityType
  <2>4. Cardinality(G) \in Nat
    BY <2>2, SightedFinite DEF Final
  <2>5. SUFFICES ASSUME e.type = "RepeatedHandling"
                 PROVE  cfg.handlings <= Cardinality(F) \/ cfg.handlings <= Cardinality(G)
    BY <2>1, <2>2
  <2>6. e.value \in Nat /\ (e.value <= Cardinality(F) \/ e.value <= Cardinality(G))
    BY <2>1, <2>2, <2>5 DEF Borne
  <2>7. e.value >= cfg.handlings
    BY <2>5 DEF CountsOnce, Risk!Counts
  <2>8. PICK h \in Int : h = cfg.handlings
    OBVIOUS
  <2>9. PICK v \in Nat : v = e.value
    BY <2>6
  <2> QED
    BY <2>3, <2>4, <2>6, <2>7, <2>8, <2>9
<1> QED
  BY <1>1, <1>2, <1>3, <1>4 DEF TypeBorne

(* Without events there are no points.                                         *)
LEMMA NoEventsNoPoints ==
  ASSUME NEW es, es = <<>>, NEW cfg, NEW hour
  PROVE  Risk!Tally(es, cfg, hour) = Risk!Nothing
<1>1. Len(es) = 0
  OBVIOUS
<1>2. PICK n \in Nat : n = 0
  OBVIOUS
<1>3. PICK r : Tallying(r, es, cfg, hour, n) /\ Risk!Tally(es, cfg, hour) = r[n]
  BY <1>1, <1>2, TallyRuns
<1>4. r[0] = Risk!Nothing
  BY <1>2, <1>3 DEF Tallying
<1> QED
  BY <1>2, <1>3, <1>4

(* What the ingest makes of the events of a clip.                              *)
Raised(o, cfg, t) ==
    /\ cfg = Risk!ResolveConfig(o.global, o.store) /\ t = Risk!Tally(events, cfg, o.hour)
    /\ riskEvents[1].cfg = cfg /\ riskEvents[1].hour = o.hour
    /\ t.score >= cfg.low /\ (mailed => t.score >= cfg.medium)
    /\ alerts[1] = [score |-> t.score, scored |-> t.scored, zone |-> t.zone,
                    level |-> IF events = <<>> THEN "None" ELSE Risk!Level(t.score, cfg),
                    type  |-> Risk!TypeOf(t.scored)]

LEMMA AlertRaised ==
  ASSUME ScoreInv, alerts # <<>>
  PROVE  phase = "scored" /\ \E o \in Occasions : \E cfg : \E t : Raised(o, cfg, t)
<1>1. phase = "scored"
  BY DEF ScoreInv
<1>2. PICK o \in Occasions :
         LET cfg    == Risk!ResolveConfig(o.global, o.store)
             result == Risk!Score(events, cfg, o.hour)
         IN /\ riskEvents = <<[result |-> result, cfg |-> cfg, hour |-> o.hour]>>
            /\ alerts = IF result.score >= cfg.low THEN <<result>> ELSE <<>>
            /\ mailed => result.score >= cfg.medium
  BY <1>1 DEF ScoreInv
<1>3. PICK cfg : cfg = Risk!ResolveConfig(o.global, o.store)
  OBVIOUS
<1>4. PICK result : result = Risk!Score(events, cfg, o.hour)
  OBVIOUS
<1>5. PICK hour : hour = o.hour
  OBVIOUS
<1>6. /\ riskEvents = <<[result |-> result, cfg |-> cfg, hour |-> hour]>>
      /\ alerts = IF result.score >= cfg.low THEN <<result>> ELSE <<>>
      /\ mailed => result.score >= cfg.medium
  BY <1>2, <1>3, <1>4, <1>5
<1>7. PICK t : t = Risk!Tally(events, cfg, hour)
  OBVIOUS
<1>8. result = [score |-> t.score, scored |-> t.scored, zone |-> t.zone,
                level |-> IF events = <<>> THEN "None" ELSE Risk!Level(t.score, cfg),
                type  |-> Risk!TypeOf(t.scored)]
  BY <1>4, <1>5, <1>7, Zenon DEF Risk!Score
<1>9. result.score = t.score
  BY <1>8
<1>10. t.score >= cfg.low /\ (mailed => t.score >= cfg.medium) /\ alerts = <<result>>
  BY <1>6, <1>9
<1>11. alerts[1] = result
  BY <1>10
<1>12. riskEvents[1].cfg = cfg /\ riskEvents[1].hour = hour
  BY <1>6
<1>13. Raised(o, cfg, t)
  BY <1>3, <1>5, <1>7, <1>8, <1>10, <1>11, <1>12, Zenon DEF Raised
<1> QED
  BY <1>1, <1>13

(* An alert is borne out by the frames of its clip and by the hour, for any    *)
(* clip, zones, rows and thresholds.                                           *)
THEOREM AlertsBorneOut == ScoringSpec => []AlertIsBorneOut
<1>1. ClipInv /\ ScanInv /\ ScoreInv => AlertIsBorneOut
  <2> SUFFICES ASSUME ClipInv, ScanInv, ScoreInv, alerts # <<>> PROVE AlertIsBorneOut
    BY DEF AlertIsBorneOut
  <2>1. PICK o \in Occasions : phase = "scored" /\ \E cfg : \E t : Raised(o, cfg, t)
    BY AlertRaised
  <2>2. PICK cfg : \E t : Raised(o, cfg, t)
    BY <2>1
  <2>3. PICK t : Raised(o, cfg, t)
    BY <2>2
  <2>4. PICK hour : hour = o.hour
    OBVIOUS
  <2>5. PICK es : es = events
    OBVIOUS
  <2>6. PICK T : Piece(es, T) /\ T \subseteq Risk!AiEventType
    BY <2>1, <2>5, Ended
  <2>7. PICK x : x = acc
    OBVIOUS
  <2>8. Final(x)
    BY <2>1, <2>7, EndedFinal
  <2>9. t = Risk!Tally(es, cfg, hour) /\ cfg.handlings \in Int /\ hour \in 0..23
    BY <2>3, <2>4, <2>5, ResolvedTyped DEF Raised
  <2>10. PICK a : a = alerts[1]
    OBVIOUS
  <2>11. PICK r : r = riskEvents[1]
    OBVIOUS
  <2>12. /\ a.level = IF events = <<>> THEN "None" ELSE Risk!Level(t.score, cfg)
         /\ a.type = Risk!TypeOf(t.scored) /\ a.zone = t.zone /\ a.scored = t.scored
         /\ r.cfg = cfg /\ r.hour = hour
         /\ t.score >= cfg.low /\ (mailed => t.score >= cfg.medium)
    BY <2>3, <2>4, <2>10, <2>11 DEF Raised
  <2>13. events = <<>> => t.score = 0
    BY <2>5, <2>9, NoEventsNoPoints DEF Risk!Nothing
  <2>14. a.level # "None" \/ (events = <<>> /\ cfg.low <= 0)
    BY <2>12, <2>13 DEF Risk!Level
  <2>15. mailed => a.level \in {"Medium", "High"} \/ (events = <<>> /\ cfg.medium <= 0)
    BY <2>12, <2>13 DEF Risk!Level
  <2>16. a.zone # 0 => \E f \in ToSet(frames) : \E d \in ToSet(f) :
                           a.zone \in {z.id : z \in ToSet(ZonesAt(d.at))}
    <3>1. SUFFICES ASSUME a.zone # 0
                   PROVE  \E f \in ToSet(frames) : \E d \in ToSet(f) :
                              a.zone \in {z.id : z \in ToSet(ZonesAt(d.at))}
      OBVIOUS
    <3>2. Occupied(a.zone)
      BY <2>6, <2>9, <2>12, <3>1, ScoredBorne
    <3> QED
      BY <3>2 DEF Occupied, ToSet
  <2>17. TypeBorne(a.type, cfg, hour)
    <3>1. CASE a.type = "none"
      BY <3>1 DEF TypeBorne
    <3>2. CASE a.type \in t.scored
      <4>1. PICK e \in ToSet(es) : e.type = a.type /\ Borne(e) /\ CountsOnce(e, cfg, hour)
        BY <2>6, <2>9, <3>2, ScoredBorne
      <4>2. TypeBorne(e.type, cfg, hour)
        BY <2>8, <2>9, <4>1, TypeIsBorne
      <4> QED
        BY <4>1, <4>2
    <3> QED
      BY <2>12, <3>1, <3>2, TypeFacts
  <2>18. cfg = Risk!Starter /\ mailed => Cardinality(a.scored) >= 3
    <3>1. SUFFICES ASSUME cfg = Risk!Starter, mailed PROVE Cardinality(t.scored) >= 3
      BY <2>12
    <3>2. t = Risk!Tally(es, Risk!Starter, hour) /\ t.score >= 70
      <4>1. Risk!Starter.medium = 70
        BY DEF Risk!Starter
      <4> QED
        BY <2>9, <2>12, <3>1, <4>1
    <3>3. PICK n \in Nat : n = Len(es) /\ DOMAIN es = 1..n
      BY <2>6 DEF Piece
    <3>4. \A i, j \in 1..n : es[i].type = es[j].type => i = j
      BY <2>6, <3>3 DEF Piece
    <3>5. \A i \in 1..n : es[i].type \in Risk!AiEventType /\ es[i].value \in Nat
      <4>1. \A i \in 1..n : es[i] \in ToSet(es)
        BY <3>3 DEF ToSet
      <4> QED
        BY <2>6, <4>1 DEF Piece, Borne
    <3>6. es \in Seq(ToSet(es))
      BY <2>6 DEF Piece
    <3> QED
      BY <3>2, <3>3, <3>4, <3>5, <3>6, ThreeSignalsForMail
  <2> HIDE DEF AlertIsBorneOut
  <2> QED
    BY <2>10, <2>11, <2>12, <2>14, <2>15, <2>16, <2>17, <2>18, Zenon DEF AlertIsBorneOut, TypeBorne
<1>2. ScoringSpec => []ScoreInv
  BY InitScoreInv, StepScoreInv, PTL DEF ScoringSpec
<1> QED
  BY <1>1, <1>2, ClipAndScan, PTL
=============================================================================
