--------------------------- MODULE MCProvisioning ---------------------------
(* Instance of Provisioning for TLC. *)
EXTENDS Provisioning

SecondSource == [z \in Zones |-> 2]
=============================================================================
