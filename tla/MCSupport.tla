----------------------------- MODULE MCSupport -----------------------------
(* Handlers and moderators are interchangeable. *)
EXTENDS Support, TLC
Interchangeable == Permutations(Workers) \cup Permutations(Moderators)
=============================================================================
