----------------------------- MODULE MCWebPairing -----------------------------
(* WebPairing with two tabs, which are interchangeable. *)
EXTENDS WebPairing, TLC

Symmetry == Permutations(Tabs)
=============================================================================
