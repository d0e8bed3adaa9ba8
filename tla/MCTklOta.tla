------------------------------ MODULE MCTklOta ------------------------------
(* TklOta for TLC; the configurations give the constants their values. *)
EXTENDS TklOta
=============================================================================
