----------------------------- MODULE MCBindings -----------------------------
(* Bindings for TLC: threads and addresses are interchangeable. *)
EXTENDS Bindings, TLC

Symmetry == Permutations(Threads) \cup Permutations(Addresses)
=============================================================================
