--------------------------- MODULE MCBadgerCache ---------------------------
(* Small instances of BadgerCache. *)
EXTENDS BadgerCache, TLC

Symmetry == Permutations(Client) \cup Permutations(Slot)
=============================================================================
