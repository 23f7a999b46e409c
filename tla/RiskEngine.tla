----------------------------- MODULE RiskEngine -----------------------------
(***************************************************************************)
(* How the backend scores the events of a clip: backend/Services/          *)
(* RiskEngine.cs.  Operators only; Scoring composes them with Extraction.  *)
(*                                                                         *)
(* An event is a record with at least [type, zone, value]; zone 0 is none. *)
(* An alert type is the name of the signal that gives it its name; times   *)
(* are whole seconds and hours of the day 0..23.  The weights of a row     *)
(* need not cover every type: a row keeps what was sent when it was        *)
(* written, and a stored dictionary replaces the default one as a whole.   *)
(***************************************************************************)
EXTENDS Integers, SequencesExt

\* By strength.  The entry and the dwell share one type.
Strongest == <<"ShelfPickupNoCheckout", "Concealment", "ExitWithoutCheckout", "BagOpen",
               "BlindSpotMovement", "LowStaffRemoval", "GroupDistraction",
               "HighValueActivity", "RepeatedHandling", "Dwell", "HighValueZoneEntry">>

AiEventType == ToSet(Strongest)
RiskLevel   == {"None", "Low", "Medium", "High"}

\* The defaults of RiskConfig.
Starter ==
    [weights |-> [t \in AiEventType |->
        CASE t = "Concealment" -> 40
          [] t = "ShelfPickupNoCheckout" -> 25
          [] t \in {"Dwell", "BagOpen", "ExitWithoutCheckout"} -> 20
          [] t \in {"HighValueZoneEntry", "RepeatedHandling", "BlindSpotMovement",
                    "HighValueActivity"} -> 15
          [] t \in {"GroupDistraction", "LowStaffRemoval"} -> 10],
     dwellAt |-> 30, dwellMax |-> 90, handlings |-> 3, group |-> 3,
     from |-> 22, to |-> 6, low |-> 40, medium |-> 70, high |-> 90]

\* The last row that parses counts, the store's after the global one.  A row is
\* a sequence of one configuration, empty when it is missing, blank or broken.
ResolveConfig(global, store) == Last(<<Starter>> \o global \o store)

\* The window wraps round midnight when it starts later than it ends.
IsLowStaffHour(cfg, hour) ==
    /\ cfg.from # cfg.to
    /\ IF cfg.from < cfg.to THEN hour >= cfg.from /\ hour < cfg.to
                            ELSE hour >= cfg.from \/ hour < cfg.to

\* Whether an event earns points, after the types in scored have.
Counts(e, cfg, hour, scored) ==
    /\ e.type = "HighValueZoneEntry" => e.type \notin scored
    /\ e.type = "Dwell"              => e.value >= cfg.dwellAt
    /\ e.type = "RepeatedHandling"   => e.value >= cfg.handlings
    /\ e.type = "GroupDistraction"   => e.value >= cfg.group
    /\ e.type = "LowStaffRemoval"    => IsLowStaffHour(cfg, hour)

\* Math.Round of n / d, half to even; d is positive.
Rounded(n, d) ==
    LET twice == 2 * (n % d)
    IN IF twice > d \/ (twice = d /\ (n \div d) % 2 = 1) THEN n \div d + 1 ELSE n \div d

\* From 10 points at the threshold to the full weight at dwellMax.
DwellPoints(value, cfg) ==
    LET span == IF cfg.dwellMax - cfg.dwellAt > 1 THEN cfg.dwellMax - cfg.dwellAt ELSE 1
        over == IF value - cfg.dwellAt < span THEN value - cfg.dwellAt ELSE span
    IN Rounded(10 * span + over * (cfg.weights["Dwell"] - 10), span)

Points(e, cfg) == IF e.type = "Dwell" THEN DwellPoints(e.value, cfg) ELSE cfg.weights[e.type]

Nothing == [score |-> 0, scored |-> {}, zone |-> 0]

Award(r, e, cfg) ==
    [score  |-> r.score + Points(e, cfg),
     scored |-> r.scored \cup {e.type},
     zone   |-> IF r.zone = 0 THEN e.zone ELSE r.zone]

\* The loop of Score over the events.
Tally(events, cfg, hour) ==
    LET r[i \in 0..Len(events)] ==
            IF i = 0 THEN Nothing
            ELSE IF Counts(events[i], cfg, hour, r[i - 1].scored) THEN Award(r[i - 1], events[i], cfg)
            ELSE r[i - 1]
    IN r[Len(events)]

\* cfg.Weights has no entry for an event that counts: KeyNotFoundException.
Raises(events, cfg, hour) ==
    \E e \in ToSet(events) : Counts(e, cfg, hour, {}) /\ e.type \notin DOMAIN cfg.weights

\* The highest band that the score reaches; nothing keeps the bands in order.
Level(score, cfg) ==
    IF score >= cfg.high THEN "High"
    ELSE IF score >= cfg.medium THEN "Medium"
    ELSE IF score >= cfg.low THEN "Low" ELSE "None"

\* DeriveAlertType: the strongest of the types.
TypeOf(types) ==
    LET at == {i \in DOMAIN Strongest : Strongest[i] \in types}
    IN IF at = {} THEN "none" ELSE Strongest[Min(at)]

\* Mutant of Score: the type is derived from all events, not from those that counted.
ScoreByAllEvents(events, cfg, hour) ==
    LET r     == Tally(events, cfg, hour)
    IN [score |-> r.score, scored |-> r.scored, zone |-> r.zone,
        level |-> IF events = <<>> THEN "None" ELSE Level(r.score, cfg),
        type  |-> TypeOf({e.type : e \in ToSet(events)})]

\* Score: no events, no level and no type.
Score(events, cfg, hour) ==
    LET r     == Tally(events, cfg, hour)
    IN [score |-> r.score, scored |-> r.scored, zone |-> r.zone,
        level |-> IF events = <<>> THEN "None" ELSE Level(r.score, cfg),
        type  |-> TypeOf(r.scored)]
=============================================================================
