---------------------------- MODULE MCExtraction ----------------------------
(* Instances of Extraction and Scoring for TLC. *)
EXTENDS Scoring

Zone(id, type, polygon) == [id |-> id, type |-> type, polygon |-> polygon]

\* A shelf and a triangular high-value zone that overlap, edges listed both
\* ways round and from different corners, and a zone whose polygon could not be parsed.
StoreZones == <<
    Zone(1, "Shelf",     << <<40, 40>>, <<0, 40>>, <<0, 0>>, <<40, 0>> >>),
    Zone(2, "HighValue", << <<10, 10>>, <<10, 60>>, <<60, 10>> >>),
    Zone(3, "Exit",      << <<70, 0>>, <<70, 30>>, <<100, 30>>, <<100, 0>> >>),
    Zone(4, "Checkout",  << <<70, 40>>, <<100, 40>>, <<100, 70>>, <<70, 70>> >>),
    Zone(5, "BlindSpot", << <<0, 70>>, <<40, 70>>, <<40, 100>>, <<0, 100>> >>),
    Zone(6, "Shelf",     <<>>) >>

Shelf    == <<5, 5>>
Both     == <<15, 15>>
HvOnly   == <<45, 15>>
Door     == <<80, 15>>
Till     == <<80, 50>>
Corner   == <<20, 80>>

Person(id, at, look) == [cue |-> "person", id |-> id, at |-> at, conf |-> 9, look |-> look]
Cue(cue, at, conf)   == [cue |-> cue, id |-> 50, at |-> at, conf |-> conf, look |-> NoLook]
View(boxes)          == [boxes |-> boxes, tracked |-> TRUE]

\* Track 2 can be a fragment of track 1 (same look), 3 looks different, 4 and 5
\* have no look; one frame comes without ids from the tracker.
StoreViews == {
    View(<<>>),
    View(<<Person(2, HvOnly, "A")>>),
    View(<<Person(1, Shelf, NoLook), Person(3, HvOnly, "B")>>),
    View(<<Person(2, Door, "A"), Person(4, Shelf, NoLook)>>),
    View(<<Person(3, Both, "B"), Cue("product_in_hand", Both, 6)>>),
    View(<<Cue("open_bag", HvOnly, 8), Person(1, Both, "A")>>),
    View(<<Cue("bag", Shelf, 6), Cue("bag", Both, 7)>>),
    [boxes |-> <<Person(1, Both, NoLook), Person(2, HvOnly, NoLook), Cue("concealment", Both, 5)>>,
     tracked |-> FALSE],
    View(<<Person(2, Till, "A"), Person(4, Corner, NoLook)>>),
    View(<<Cue("concealment", HvOnly, 5), Cue("open_bag", Shelf, 5), Person(5, Both, NoLook)>>) }

\* A store that wants to hear of everything: low thresholds and bands, a window
\* that does not wrap, a Dwell weight below ten, and bands out of order.
Sensitive == [Risk!Starter EXCEPT !.dwellAt = 1, !.dwellMax = 4, !.handlings = 1, !.group = 2,
                             !.weights["Dwell"] = 5, !.from = 8, !.to = 12,
                             !.low = 20, !.medium = 15, !.high = 45]

\* A row written before the other signals had weights.
Early == [Risk!Starter EXCEPT !.weights = [t \in {"HighValueZoneEntry", "Dwell", "RepeatedHandling",
                                             "BagOpen"} |-> Risk!Starter.weights[t]],
                         !.low = 15]

StoreOccasions ==
    {[global |-> <<Risk!Starter>>, store |-> <<>>,          hour |-> 23],
     [global |-> <<Risk!Starter>>, store |-> <<>>,          hour |-> 6],
     [global |-> <<Risk!Starter>>, store |-> <<Sensitive>>, hour |-> 8],
     [global |-> <<Risk!Starter>>, store |-> <<Sensitive>>, hour |-> 23],
     [global |-> <<Early>>,   store |-> <<>>,          hour |-> 12]}
=============================================================================
