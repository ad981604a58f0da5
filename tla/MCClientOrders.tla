--------------------------- MODULE MCClientOrders ---------------------------
(* Small instances of ClientOrders for TLC. *)
EXTENDS ClientOrders, TLC

MCSymmetry == Permutations(Workers) \cup Permutations(Cities)
=============================================================================
