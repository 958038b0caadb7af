---------------------------- MODULE MCFileStaleness ----------------------------
(* A small instance of FileStaleness for TLC.                                  *)
EXTENDS FileStaleness, TLC

CONSTANTS r1, r2, w1, w2, w3, f1, f2

\* A request with two workers and one with one.
MCRequestOf == w1 :> r1 @@ w2 :> r1 @@ w3 :> r2
\* f1 is edited once; f2 is never edited.
MCMaxVersion == f1 :> 1 @@ f2 :> 0
MCParses == f1 :> {0, 1} @@ f2 :> {0}
=============================================================================
