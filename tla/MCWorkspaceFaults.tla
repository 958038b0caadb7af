--------------------------- MODULE MCWorkspaceFaults ---------------------------
(* Small instances of WorkspaceFaults for TLC.                             *)
EXTENDS WorkspaceFaults, TLC

CONSTANTS p1, p2, t1, t2, k1, k2, a1, u1

\* One thread in each process.
MCOneEach == t1 :> p1 @@ t2 :> p2

\* Two threads of one process.  They contend for the advisory lock, which a
\* process does not share between its flock objects, and, once git has moved the
\* file and each holds the lock of another inode, for the Mux of one workspace.
MCShared == [t \in Thread |-> p1]

MCFlat == [a \in Answer |-> a]

MCAuthorOf == [p \in Proc |-> u1]

Rec(k) == [author |-> u1, key |-> k, answer |-> a1]

MCForeign == {Rec(k) : k \in Key}

NoFile == {<<>>}

\* What a badly resolved merge left before captn was started.
BrokenFile == {<<Torn, Rec(k1)>>, <<Rec(k1), Torn>>}
=============================================================================
