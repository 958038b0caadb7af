------------------------------ MODULE MCLspClient ------------------------------
(* A small instance of LspClient for TLC.                                  *)
EXTENDS LspClient

CONSTANTS c1, c2
=============================================================================
