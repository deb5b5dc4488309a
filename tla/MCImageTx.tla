------------------------------ MODULE MCImageTx ------------------------------
(* Instances of ImageTx for TLC: two images, so that one can be shown between *)
(* two attempts of the other.                                                 *)
EXTENDS ImageTx

CONSTANTS a, b
=============================================================================
