------------------------------- MODULE MCBoot -------------------------------
(* Boot for TLC: two issued pairs. *)
EXTENDS Boot

CONSTANTS id1, key1, id2, key2

MCIssued == {[id |-> id1, key |-> key1], [id |-> id2, key |-> key2]}
=============================================================================
