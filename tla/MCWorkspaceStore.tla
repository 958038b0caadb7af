--------------------------- MODULE MCWorkspaceStore ---------------------------
(* Small instances of WorkspaceStore and its refinement for TLC.           *)
EXTENDS WorkspaceRefinement, TLC

CONSTANTS p1, p2, t1, t2, t3, k1, k2, a1, a2, u1, u2

MCProcOf == t1 :> p1 @@ t2 :> p1 @@ t3 :> p2

\* a2 stands for an answer of several lines; a1 is what it is flattened to.
MCFlat == [a \in Answer |-> a1]

MCAuthorOf == p1 :> u1 @@ p2 :> u2

Rec(u, k, a) == [author |-> u, key |-> k, answer |-> a]

\* No records, or one record of a teammate.
MCInitialFiles == {<<>>} \cup {<<Rec(u2, k, a1)>> : k \in {k1, k2}}

\* Threads of one process and keys are interchangeable.
MCSymmetry == Permutations({t1, t2}) \cup Permutations({k1, k2})
=============================================================================
