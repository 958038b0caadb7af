-------------------------- MODULE WorkspaceRefinement --------------------------
(***************************************************************************)
(* Refinement of ObservationLog.  Opening the file for writing is the step *)
(* that publishes; until the writer is done the log is what it will write. *)
(***************************************************************************)
EXTENDS WorkspaceStore

\* The first record of each key in a file.
View(c) ==
    [k \in Key |->
        IF k \in Keys(c)
        THEN LET i == CHOOSE n \in Prefix(c) :
                        c[n].key = k /\ \A m \in 1 .. n - 1 : c[m].key # k
             IN [author |-> c[i].author, answer |-> c[i].answer]
        ELSE NoObs]

Made(a) == [author |-> Unstamped, answer |-> a]

Persisted(t, o) ==
    [author |-> IF o.author = Unstamped THEN AuthorOf[ProcOf[t]] ELSE o.author,
     answer |-> Flat[o.answer]]

LogView ==
    IF \E t \in Thread : Writing(t)
    THEN View(Marshalled(CHOOSE t \in Thread : Writing(t)))
    ELSE View(content)

Log == INSTANCE ObservationLog WITH
    Workspace <- Thread,
    Memory <- Made,
    log <- LogView,
    mem <- [t \in Thread |-> ws[t].cache]

\* The store of several processes, with its locks, its record-by-record merges
\* and its truncated files, behaves like one log replaced in single steps.
LogSpec == Log!Spec
=============================================================================
