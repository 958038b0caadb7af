----------------------------- MODULE MCStatusOverlay -----------------------------
(* A small instance of StatusOverlay for TLC.                              *)
EXTENDS StatusOverlay

CONSTANTS t1, t2, t3
=============================================================================
