------------------------------ MODULE Scoring ------------------------------
(***************************************************************************)
(* One clip from the detections to the alert: Extraction, and then the     *)
(* ingest of its events by the backend with the RiskEngine.                *)
(*                                                                         *)
(* Source: the second transaction of AiEventsController.Ingest.  What      *)
(* happens to the clip, to a repeated ingest and to the job when Ingest    *)
(* fails is in ClipAnalysis.  The configuration is read once, so any edit  *)
(* of the rows is one of the Occasions.                                    *)
(***************************************************************************)
EXTENDS Extraction

Risk == INSTANCE RiskEngine

CONSTANT Occasions (* what Ingest finds: the rows [global, store] and the hour *)

\* A row is missing or one configuration, whose thresholds are ints.
ASSUME OccasionsAssumption ==
    \A o \in Occasions :
        /\ o.hour \in 0..23
        /\ \A row \in {o.global, o.store} :
               row \in Seq(ToSet(row)) /\ \A i \in DOMAIN row : row[i].handlings \in Int

VARIABLES
    riskEvents, (* the RiskEvent, with the configuration and hour it was made from *)
    alerts,     (* the alert of the clip                                          *)
    mailed      (* whether SendAlertNotificationAsync has been called             *)

scoringVars == <<vars, riskEvents, alerts, mailed>>

ScoringInit == Init /\ riskEvents = <<>> /\ alerts = <<>> /\ mailed = FALSE

Extract == Next /\ UNCHANGED <<riskEvents, alerts, mailed>>

\* The second transaction: the risk event, and an alert from LowBand on.  The
\* mail is inside the branch of the alert.
SaveScore(cfg, hour) ==
    LET result == Risk!Score(events, cfg, hour)
    IN /\ riskEvents' = <<[result |-> result, cfg |-> cfg, hour |-> hour]>>
       /\ alerts' = IF result.score >= cfg.low THEN <<result>> ELSE <<>>
       /\ mailed' = (alerts' # <<>> /\ result.score >= cfg.medium)
       /\ phase' = "scored"

Ingest ==
    /\ phase = "done"
    /\ \E o \in Occasions :
           LET cfg == Risk!ResolveConfig(o.global, o.store)
           IN IF Risk!Raises(events, cfg, o.hour)
              THEN phase' = "unscored" /\ UNCHANGED <<riskEvents, alerts, mailed>>
              ELSE SaveScore(cfg, o.hour)
    /\ UNCHANGED <<backend, k, frames, parent, acc, events, overlay>>

ScoringNext == Extract \/ Ingest
ScoringSpec == ScoringInit /\ [][ScoringNext]_scoringVars

-----------------------------------------------------------------------------
(* Properties. *)

Sighted(cue) == Sightings(cue, DOMAIN frames)
ProductAtShelf == \E f \in ToSet(frames) : Shelved(f, "product_in_hand") # <<>>
OfType(type)   == {z.id : z \in {y \in ToSet(Zones) : y.type = type}}

\* Somebody was at a shelf, then at an exit, and never at a checkout.
SomebodyLeft ==
    \E t \in UNION {{d.track : d \in ToSet(f)} : f \in ToSet(frames)} :
        /\ \E x \in OfType("Exit") : \E i \in PersonIn(t, x), j \in AtAnyShelf(t) : j <= i
        /\ \A c \in OfType("Checkout") : PersonIn(t, c) = {}

\* The hours that are reached by walking from the start of the window to its end.
LowStaffHours(cfg) == {(cfg.from + n) % 24 : n \in 0..(((cfg.to - cfg.from) % 24) - 1)}

\* What an alert says of a customer is borne out by the frames of its clip and
\* by the hour, whichever signals, rows and thresholds have raised it: the exit
\* types need somebody who left, the bag type sustained sightings, the removal
\* at night a product and a night, repeated handling enough frames with a product
\* or else enough sightings of persons (those without ids share one timeline); the
\* zone has somebody or something in it.  Only a clip without events can get an
\* alert without a level, and only if the lowest band is not positive.  With the
\* starter weights a mail rests on at least three different signals.
AlertIsBorneOut ==
    alerts # <<>> =>
        LET a == alerts[1]
            r == riskEvents[1]
        IN /\ a.level # "None" \/ (events = <<>> /\ r.cfg.low <= 0)
           /\ mailed => a.level \in {"Medium", "High"} \/ (events = <<>> /\ r.cfg.medium <= 0)
           /\ a.zone # 0 => \E f \in ToSet(frames) : \E d \in ToSet(f) :
                                a.zone \in {z.id : z \in ToSet(ZonesAt(d.at))}
           /\ a.type \in {"ShelfPickupNoCheckout", "ExitWithoutCheckout"} =>
                  SomebodyLeft /\ (a.type = "ShelfPickupNoCheckout" <=> ProductAtShelf)
           /\ a.type = "BagOpen" =>
                  \E cue \in {"bag", "open_bag"} : Cardinality(Sighted(cue)) >= Sustained
           /\ a.type = "LowStaffRemoval" =>
                  ProductAtShelf /\ ({r.cfg.from, r.cfg.to} \subseteq 0..23 => r.hour \in LowStaffHours(r.cfg))
           /\ a.type = "RepeatedHandling" =>
                  \/ r.cfg.handlings <= Cardinality({f \in DOMAIN frames : Shelved(frames[f], "product_in_hand") # <<>>})
                  \/ r.cfg.handlings <= Cardinality(Sighted("person"))
           /\ r.cfg = Risk!Starter /\ mailed => Cardinality(a.scored) >= 3
=============================================================================
