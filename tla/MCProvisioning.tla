--------------------------- MODULE MCProvisioning ---------------------------
(* Provisioning for TLC; the configurations give the retry limits. *)
EXTENDS Provisioning
=============================================================================
