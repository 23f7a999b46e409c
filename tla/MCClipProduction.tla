-------------------------- MODULE MCClipProduction --------------------------
(* Instance of ClipProduction for TLC. *)
EXTENDS ClipProduction

ShortAndLong == {[pre |-> 1, post |-> 1], [pre |-> 2, post |-> 1]}
=============================================================================
