----------------------------- MODULE MCTklWifi -----------------------------
(* TklWifi for TLC; the configurations give the event loop's capacity. *)
EXTENDS TklWifi
=============================================================================
