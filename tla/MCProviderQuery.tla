---------------------------- MODULE MCProviderQuery ----------------------------
(* A small instance of ProviderQuery for TLC.                              *)
EXTENDS ProviderQuery, TLC

CONSTANTS r1, r2, v, e

\* Two searches that reach one vertex and one edge; the first finds the vertex in
\* the graph of a second snippet again.  The other end of the edge fares as the
\* vertex does and is left out.
MCGraphsOf == r1 :> <<{v, e}, {v}>> @@ r2 :> <<{v, e}>>
=============================================================================
