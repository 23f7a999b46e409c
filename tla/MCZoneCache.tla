---------------------------- MODULE MCZoneCache ----------------------------
(* Instance of ZoneCache for TLC.  Zones are not symmetric under liveness.   *)
EXTENDS ZoneCache

=============================================================================
