----------------------------- MODULE MCTklUart -----------------------------
(* TklUart for TLC; queues and tasks are interchangeable. *)
EXTENDS TklUart, TLC

Symmetry == Permutations(Queue) \cup Permutations(Task)
=============================================================================
