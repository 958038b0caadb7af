----------------------------- MODULE FileStaleness -----------------------------
(***************************************************************************)
(* FileLoader with a history variable that remembers what was on disk when *)
(* a request began, to ask how old the files a request gets may be.        *)
(***************************************************************************)
EXTENDS FileLoader

VARIABLE seen   \* the version of each file when a request began

StaleInit == Init /\ seen = [r \in Request |-> version]

StaleNext ==
    /\ Next
    /\ seen' = [r \in Request |->
                   IF batch[r] = "idle" /\ batch'[r] # "idle" THEN version ELSE seen[r]]

StaleSpec == StaleInit /\ [][StaleNext]_<<vars, seen>>

\* "Ranges are resolved from the live parse rather than the observation cache so
\* positions always reflect the file on disk", collectFileRanges: the file a
\* request gets is not older than the request.
RangesReflectDisk ==
    \A w \in Worker : Got(w) =>
        read[result[w].by] >= seen[RequestOf[w]][file[w]]
=============================================================================
