------------------------------- MODULE MCLink -------------------------------
(* Model values for Link: ordinary calls w1 and w2, an exclusive one x1. *)
EXTENDS Link

CONSTANTS w1, w2, x1
=============================================================================
