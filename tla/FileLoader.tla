------------------------------ MODULE FileLoader ------------------------------
(***************************************************************************)
(* Workspace.LoadFile (pkg/cog/workspace.go), which parses each file once  *)
(* however many goroutines ask for it, under LoadFiles and                 *)
(* common.ParallelCollect, which load the files of one request in parallel *)
(* and give up on the first error.                                         *)
(*                                                                         *)
(* A request preloads some files with one worker goroutine per file.  A    *)
(* worker makes one call of LoadFile; the parse it leads, if it leads one, *)
(* and the COGFile that comes out of it, are named after it.  The contents *)
(* of a file are numbered; an edit moves a file to its next content.       *)
(***************************************************************************)
EXTENDS Naturals, FiniteSets

CONSTANTS
    Request,    \* requests, each preloading its dependencies once
    Worker,     \* worker goroutines of all requests
    RequestOf,  \* the request of each worker
    File,
    MaxVersion, \* bound: the last version edits give each file
    Parses,     \* the versions of each file that exist and parse
    None

ASSUME LoaderAssumption ==
    /\ RequestOf \in [Worker -> Request]
    /\ MaxVersion \in [File -> Nat]
    /\ Parses \in [File -> SUBSET Nat]
    /\ None \notin Worker /\ None \notin File

VARIABLES
    version,   \* the version of each file on disk
    loaded,    \* loadedFiles: the worker whose parse is kept for a file
    loading,   \* loadingFiles: the worker that is loading a file
    pc,        \* where a worker is
    file,      \* the file a worker was asked for
    read,      \* the version the parse of a worker read
    closed,    \* whether call.done of a worker's call is closed
    outcome,   \* what a worker's parse came to: "none", "file" or "err"
    joined,    \* the worker whose call a worker waits for
    result,    \* what LoadFile returned to a worker
    batch,     \* where ParallelCollect of a request is
    slot,      \* errChan of a request: its first error
    cancelled, \* whether workerCtx of a request is cancelled
    gone       \* whether the caller of a request has cancelled it

requestVars == <<batch, slot, cancelled, gone>>
callVars    == <<read, closed, outcome, joined>>
vars == <<version, loaded, loading, pc, file, read, closed, outcome, joined,
          result, batch, slot, cancelled, gone>>

NoResult == [kind |-> "none", by |-> None]

WorkersOf(r) == {w \in Worker : RequestOf[w] = r}
Started(r)   == {w \in WorkersOf(r) : pc[w] # "idle"}

Init ==
    /\ version = [f \in File |-> 0]
    /\ loaded = [f \in File |-> None]
    /\ loading = [f \in File |-> None]
    /\ pc = [w \in Worker |-> "idle"]
    /\ file = [w \in Worker |-> None]
    /\ read = [w \in Worker |-> 0]
    /\ closed = [w \in Worker |-> FALSE]
    /\ outcome = [w \in Worker |-> "none"]
    /\ joined = [w \in Worker |-> None]
    /\ result = [w \in Worker |-> NoResult]
    /\ batch = [r \in Request |-> "idle"]
    /\ slot = [r \in Request |-> "none"]
    /\ cancelled = [r \in Request |-> FALSE]
    /\ gone = [r \in Request |-> FALSE]

Goto(w, label) == pc' = [pc EXCEPT ![w] = label]

-----------------------------------------------------------------------------
(* LoadFile.  A worker that returns goes to "send".                        *)

Return(w, kind, by) ==
    /\ result' = [result EXCEPT ![w] = [kind |-> kind, by |-> by]]
    /\ Goto(w, "send")

\* The file has been loaded before.
Hit(w) ==
    /\ pc[w] = "load"
    /\ loaded[file[w]] # None
    /\ Return(w, "file", loaded[file[w]])
    /\ UNCHANGED <<version, loaded, loading, file, callVars, requestVars>>

\* Another goroutine is loading it.
Join(w) ==
    /\ pc[w] = "load"
    /\ loaded[file[w]] = None /\ loading[file[w]] # None
    /\ joined' = [joined EXCEPT ![w] = loading[file[w]]]
    /\ Goto(w, "wait")
    /\ UNCHANGED <<version, loaded, loading, file, read, closed, outcome, result, requestVars>>

\* Mutant: the calls in flight are not looked at.
LeadUnchecked(w) ==
    /\ pc[w] = "load"
    /\ loaded[file[w]] = None
    /\ loading' = [loading EXCEPT ![file[w]] = w]
    /\ Goto(w, "read")
    /\ UNCHANGED <<version, loaded, file, callVars, result, requestVars>>

\* Nobody is: this goroutine loads it.
Lead(w) ==
    /\ pc[w] = "load"
    /\ loaded[file[w]] = None /\ loading[file[w]] = None
    /\ loading' = [loading EXCEPT ![file[w]] = w]
    /\ Goto(w, "read")
    /\ UNCHANGED <<version, loaded, file, callVars, result, requestVars>>

\* Mutant: the call is no longer in flight once the parse has begun.
ReadFileForgetting(w) ==
    /\ pc[w] = "read"
    /\ read' = [read EXCEPT ![w] = version[file[w]]]
    /\ loading' = [loading EXCEPT ![file[w]] = None]
    /\ Goto(w, "parse")
    /\ UNCHANGED <<version, loaded, file, closed, outcome, joined, result, requestVars>>

\* ParseFile reads the file ...
ReadFile(w) ==
    /\ pc[w] = "read"
    /\ read' = [read EXCEPT ![w] = version[file[w]]]
    /\ Goto(w, "parse")
    /\ UNCHANGED <<version, loaded, loading, file, closed, outcome, joined, result, requestVars>>

\* ... and cannot parse it (or the file is missing): call.err is set ...
ParseFails(w) ==
    /\ pc[w] = "parse"
    /\ read[w] \notin Parses[file[w]]
    /\ outcome' = [outcome EXCEPT ![w] = "err"]
    /\ Goto(w, "close")
    /\ UNCHANGED <<version, loaded, loading, file, read, closed, joined, result, requestVars>>

\* ... or parses it, stores the file and sets call.file.
Store(w) ==
    /\ pc[w] = "parse"
    /\ read[w] \in Parses[file[w]]
    /\ loaded' = [loaded EXCEPT ![file[w]] = w]
    /\ outcome' = [outcome EXCEPT ![w] = "file"]
    /\ Goto(w, "close")
    /\ UNCHANGED <<version, loading, file, read, closed, joined, result, requestVars>>

\* Mutant: the waiters of a call that failed are not woken.
CloseOnSuccess(w) ==
    /\ pc[w] = "close"
    /\ closed' = [closed EXCEPT ![w] = outcome[w] = "file"]
    /\ Goto(w, "clear")
    /\ UNCHANGED <<version, loaded, loading, file, read, outcome, joined, result, requestVars>>

\* The deferred function wakes the waiters ...
CloseDone(w) ==
    /\ pc[w] = "close"
    /\ closed' = [closed EXCEPT ![w] = TRUE]
    /\ Goto(w, "clear")
    /\ UNCHANGED <<version, loaded, loading, file, read, outcome, joined, result, requestVars>>

\* ... and then, under Mux, removes whatever call is in flight for the file.
ClearInflight(w) ==
    /\ pc[w] = "clear"
    /\ loading' = [loading EXCEPT ![file[w]] = None]
    /\ Return(w, outcome[w], w)
    /\ UNCHANGED <<version, loaded, file, callVars, requestVars>>

\* Mutant: a waiter does not wait for the call to be done.
WaitForNobody(w) ==
    /\ pc[w] = "wait"
    /\ Return(w, outcome[joined[w]], joined[w])
    /\ UNCHANGED <<version, loaded, loading, file, callVars, requestVars>>

WaitDone(w) ==
    /\ pc[w] = "wait"
    /\ closed[joined[w]]
    /\ Return(w, outcome[joined[w]], joined[w])
    /\ UNCHANGED <<version, loaded, loading, file, callVars, requestVars>>

\* Mutant: a waiter is cancelled with the call it waits for.
WaitCancelledByLead(w) ==
    /\ pc[w] = "wait"
    /\ cancelled[RequestOf[joined[w]]]
    /\ Return(w, "ctx", None)
    /\ UNCHANGED <<version, loaded, loading, file, callVars, requestVars>>

WaitCancelled(w) ==
    /\ pc[w] = "wait"
    /\ cancelled[RequestOf[w]]
    /\ Return(w, "ctx", None)
    /\ UNCHANGED <<version, loaded, loading, file, callVars, requestVars>>

-----------------------------------------------------------------------------
(* ParallelCollect.                                                        *)

\* One goroutine per input; inputs may name a file twice.
Begin(r) ==
    /\ batch[r] = "idle"
    /\ \E S \in SUBSET WorkersOf(r) : \E want \in [S -> File] :
        /\ pc' = [w \in Worker |-> IF w \in S THEN "load" ELSE pc[w]]
        /\ file' = [w \in Worker |-> IF w \in S THEN want[w] ELSE file[w]]
    /\ batch' = [batch EXCEPT ![r] = "collect"]
    /\ UNCHANGED <<version, loaded, loading, callVars, result, slot, cancelled, gone>>

\* A result goes into a channel with room for all of them.
SendResult(w) ==
    /\ pc[w] = "send" /\ result[w].kind = "file"
    /\ Goto(w, "finished")
    /\ UNCHANGED <<version, loaded, loading, file, callVars, result, requestVars>>

\* An error goes into a channel with room for one, or is dropped ...
SendError(w) ==
    /\ pc[w] = "send" /\ result[w].kind \in {"err", "ctx"}
    /\ slot' = IF slot[RequestOf[w]] = "none"
               THEN [slot EXCEPT ![RequestOf[w]] = result[w].kind]
               ELSE slot
    /\ Goto(w, "cancel")
    /\ UNCHANGED <<version, loaded, loading, file, callVars, result, batch, cancelled, gone>>

\* ... and the siblings are cancelled.
CancelSiblings(w) ==
    /\ pc[w] = "cancel"
    /\ cancelled' = [cancelled EXCEPT ![RequestOf[w]] = TRUE]
    /\ Goto(w, "finished")
    /\ UNCHANGED <<version, loaded, loading, file, callVars, result, batch, slot, gone>>

\* The collector returns, and its deferred cancel runs.
CollectorReturns(r, how) ==
    /\ batch' = [batch EXCEPT ![r] = how]
    /\ cancelled' = [cancelled EXCEPT ![r] = TRUE]
    /\ UNCHANGED <<version, loaded, loading, pc, file, callVars, result, slot, gone>>

\* Mutant: a worker that failed counts as completed.
CollectFinished(r) ==
    /\ batch[r] = "collect"
    /\ \A w \in Started(r) : pc[w] = "finished"
    /\ CollectorReturns(r, "ok")

CollectAll(r) ==
    /\ batch[r] = "collect"
    /\ \A w \in Started(r) : pc[w] = "finished" /\ result[w].kind = "file"
    /\ CollectorReturns(r, "ok")

CollectError(r) ==
    /\ batch[r] = "collect" /\ slot[r] # "none"
    /\ CollectorReturns(r, "err")

CollectGone(r) ==
    /\ batch[r] = "collect" /\ gone[r]
    /\ CollectorReturns(r, "gone")

-----------------------------------------------------------------------------
(* The caller of a request, and whoever edits the files.                   *)

Abandon(r) ==
    /\ batch[r] = "collect" /\ ~gone[r]
    /\ gone' = [gone EXCEPT ![r] = TRUE]
    /\ cancelled' = [cancelled EXCEPT ![r] = TRUE]
    /\ UNCHANGED <<version, loaded, loading, pc, file, callVars, result, batch, slot>>

Edit(f) ==
    /\ version[f] < MaxVersion[f]
    /\ version' = [version EXCEPT ![f] = @ + 1]
    /\ UNCHANGED <<loaded, loading, pc, file, callVars, result, requestVars>>

WorkerStep(w) ==
    \/ Hit(w) \/ Join(w) \/ Lead(w) \/ ReadFile(w) \/ ParseFails(w) \/ Store(w)
    \/ CloseDone(w) \/ ClearInflight(w) \/ WaitDone(w) \/ WaitCancelled(w)
    \/ SendResult(w) \/ SendError(w) \/ CancelSiblings(w)

Collect(r) == CollectAll(r) \/ CollectError(r) \/ CollectGone(r)

Next ==
    \/ \E w \in Worker : WorkerStep(w)
    \/ \E r \in Request : Begin(r) \/ Collect(r) \/ Abandon(r)
    \/ \E f \in File : Edit(f)

Spec == Init /\ [][Next]_vars

\* Goroutines run.
FairSpec ==
    /\ Spec
    /\ \A w \in Worker : WF_vars(WorkerStep(w))
    /\ \A r \in Request : WF_vars(Collect(r))

-----------------------------------------------------------------------------
\* Every variable has its type; the type of result says that LoadFile never
\* returns nil for both the file and the error.
TypeOK ==
    /\ version \in [File -> Nat]
    /\ loaded \in [File -> Worker \cup {None}]
    /\ loading \in [File -> Worker \cup {None}]
    /\ pc \in [Worker -> {"idle", "load", "wait", "read", "parse", "close", "clear",
                          "send", "cancel", "finished"}]
    /\ file \in [Worker -> File \cup {None}]
    /\ read \in [Worker -> Nat]
    /\ closed \in [Worker -> BOOLEAN]
    /\ outcome \in [Worker -> {"none", "file", "err"}]
    /\ joined \in [Worker -> Worker \cup {None}]
    /\ result \in [Worker -> {NoResult} \cup [kind : {"file", "err"}, by : Worker]
                                      \cup [kind : {"ctx"}, by : {None}]]
    /\ batch \in [Request -> {"idle", "collect", "ok", "err", "gone"}]
    /\ slot \in [Request -> {"none", "err", "ctx"}]
    /\ cancelled \in [Request -> BOOLEAN] /\ gone \in [Request -> BOOLEAN]

Got(w) == result[w].kind = "file"

\* All calls of LoadFile that succeed for a file return the same COGFile, as
\* node identities across requests require (TestCOGLoadFilesDeduplicates-
\* ConcurrentLoads), and it is the one kept.
OneFile ==
    \A w \in Worker : Got(w) => result[w].by = loaded[file[w]]

\* A file is parsed by one goroutine at a time, even right after a failed parse.
OneParse ==
    \A w, u \in Worker :
        pc[w] \in {"read", "parse"} /\ pc[u] \in {"read", "parse"} /\ file[w] = file[u]
            => w = u

\* "This load file is going to use the cache since we prefetched", SearchSnippet:
\* when LoadFiles succeeds every file it was given is loaded.
PrefetchLoads ==
    \A r \in Request : batch[r] = "ok" =>
        \A w \in Started(r) : loaded[file[w]] # None

\* ParallelCollect fails with the error that made it give up, not with the
\* cancellation this caused in a sibling, and not because another request went
\* away: a context error means that the caller of this request is gone.
RootCause ==
    \A r \in Request : slot[r] = "ctx" => gone[r]

\* LoadFiles returns, whatever its workers wait for, and no worker is left
\* behind when it has returned early.
RequestsSettle ==
    \A r \in Request :
        batch[r] = "collect" ~>
            /\ batch[r] # "collect"
            /\ \A w \in WorkersOf(r) : pc[w] \in {"idle", "finished"}
=============================================================================
