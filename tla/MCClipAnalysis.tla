--------------------------- MODULE MCClipAnalysis ---------------------------
(* Instances of ClipAnalysis for TLC. *)
EXTENDS ClipAnalysis

CONSTANTS c1, c2

\* Two clips of two cameras, so that the cross-camera search can find a match.
TwoCameras == (c1 :> "cam1") @@ (c2 :> "cam2")
=============================================================================
