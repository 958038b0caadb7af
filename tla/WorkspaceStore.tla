---------------------------- MODULE WorkspaceStore ----------------------------
(***************************************************************************)
(* The observation store of pkg/cog/workspace.go: the file captn.cog, the  *)
(* advisory lock taken on it, and the in-memory workspaces of several      *)
(* captn processes that load it, record observations and persist them.     *)
(*                                                                         *)
(* A thread is a goroutine serving one request.  OpenWorkspace gives it a  *)
(* workspace: the one its process has cached, or a new one.  A workspace   *)
(* is named after the thread that created it; a process that has a cached  *)
(* workspace never creates another one, so a name is reused only when no   *)
(* thread refers to the old workspace any more.                            *)
(*                                                                         *)
(* The advisory lock is flock(2) on captn.cog itself, which belongs to the *)
(* inode and not to the path.  Inodes are numbered in the order the path   *)
(* receives them; inode = 0 means that the path does not exist.            *)
(***************************************************************************)
EXTENDS Integers, Sequences, FiniteSets

CONSTANTS
    Proc,         \* operating system processes running captn
    Thread,       \* goroutines of all processes, and the workspaces they create
    ProcOf,       \* the process of each thread
    Key,          \* observation hashes
    Answer,       \* answers of the provider
    Flat,         \* what ReplaceNewlines makes of an answer
    Author,       \* author hashes
    AuthorOf,     \* the active author of a process, from its git configuration
    Unstamped,    \* the empty Author of an observation made in this session
    NoObs,        \* "no observation under this key"
    Nobody,       \* "no thread", "no workspace"
    Torn,         \* a place of the file where unmarshalLocked fails
    InitialFiles, \* contents captn.cog may have before any process starts
    MaxInode,     \* bound: inodes the path may receive in a behaviour
    Foreign,      \* records git may bring in from other branches
    MaxFile       \* bound: items in the file after git changed it

Record == [author : Author, key : Key, answer : Answer]
Obs    == [author : Author \cup {Unstamped}, answer : Answer]
Inode  == 1 .. MaxInode
Item   == Record \cup {Torn}

ASSUME StoreAssumption ==
    /\ ProcOf \in [Thread -> Proc]
    /\ Flat \in [Answer -> Answer]
    /\ \A a \in Answer : Flat[Flat[a]] = Flat[a]
    /\ AuthorOf \in [Proc -> Author]
    /\ Unstamped \notin Author
    /\ NoObs \notin Obs
    /\ Nobody \notin Thread
    /\ Torn \notin Record
    /\ InitialFiles \subseteq Seq(Item)
    /\ MaxInode \in Nat \ {0}
    /\ Foreign \subseteq Record
    /\ MaxFile \in Nat

VARIABLES
    inode,    \* inode at the path, 0 when there is no file
    used,     \* inodes the path has received so far
    content,  \* what the file at the path holds
    flock,    \* the thread holding the advisory lock of each inode
    cached,   \* wspaceCache[path] of each process
    ws,       \* the fields of each workspace that hold observations
    mux,      \* the thread holding Workspace.Mux
    handle,   \* the workspace a thread works with
    pc,       \* where a thread is
    fd,       \* the inode a thread's flock object has open
    out,      \* the inode a thread's os.WriteFile has open
    rest,     \* what unmarshalLocked has still to read
    reached,  \* history: keys that have been in a complete file
    lossy     \* history: a fault that may lose records has happened

disk   == <<inode, used, content>>
vars   == <<inode, used, content, flock, cached, ws, mux, handle, pc, fd, out,
            rest, reached, lossy>>

NoIndex == -1

EmptyWorkspace ==
    [cache |-> [k \in Key |-> NoObs],
     order |-> [k \in Key |-> NoIndex],
     count |-> 0]

\* The keys a workspace holds, and the readable part and keys of a file.
Held(w)   == {k \in Key : w.cache[k] # NoObs}
Prefix(c) == {i \in 1 .. Len(c) : \A j \in 1 .. i : c[j] # Torn}
Keys(c)   == {c[i].key : i \in Prefix(c)}

\* Mutant: a replaced observation gets a new index.
SetObservationReindexing(w, k, o) ==
    [cache |-> [w.cache EXCEPT ![k] = o],
     order |-> [w.order EXCEPT ![k] = w.count],
     count |-> w.count + 1]

\* The write index of a key is given once and kept when its observation is
\* replaced.
SetObservationLocked(w, k, o) ==
    LET isNew == w.order[k] = NoIndex IN
    [cache |-> [w.cache EXCEPT ![k] = o],
     order |-> IF isNew THEN [w.order EXCEPT ![k] = w.count] ELSE w.order,
     count |-> IF isNew THEN w.count + 1 ELSE w.count]

\* Mutant: the last record of a key wins, over memory too.
MergeRecordLastWins(w, r) ==
    SetObservationLocked(w, r.key, [author |-> r.author, answer |-> r.answer])

\* One round of the loop of unmarshalLocked: a key already held keeps its
\* observation, so the first record of a key wins and memory wins over disk.
MergeRecord(w, r) ==
    IF w.cache[r.key] # NoObs
    THEN w
    ELSE SetObservationLocked(w, r.key,
                              [author |-> r.author, answer |-> r.answer])

\* Mutant: an observation of this session is written without an author.
StampNothing(author, k, o) ==
    [author |-> o.author, key |-> k, answer |-> Flat[o.answer]]

\* The record written for an observation: the active author is stamped on
\* observations of this session, and the answer takes one line.
Stamp(author, k, o) ==
    [author |-> IF o.author = Unstamped THEN author ELSE o.author,
     key    |-> k,
     answer |-> Flat[o.answer]]

KeyAt(w, n) == CHOOSE k \in Key : w.order[k] = n

\* Mutant: the newest observation is left out.
marshalOneShort(w, author) ==
    [i \in 1 .. w.count - 1 |->
        Stamp(author, KeyAt(w, i - 1), w.cache[KeyAt(w, i - 1)])]

\* The records of a workspace in the order they were first written.  Every key has
\* its index from SetObservationLocked; keys put into ObservationCache past it, which
\* nothing but tests does, would be given theirs here.
marshalLocked(w, author) ==
    [i \in 1 .. w.count |->
        Stamp(author, KeyAt(w, i - 1), w.cache[KeyAt(w, i - 1)])]

Marshalled(t) == marshalLocked(ws[handle[t]], AuthorOf[ProcOf[t]])

-----------------------------------------------------------------------------
Init ==
    /\ content \in InitialFiles
    /\ inode \in {0, 1}
    /\ inode = 0 => content = <<>>
    /\ used = inode
    /\ flock = [i \in Inode |-> Nobody]
    /\ cached = [p \in Proc |-> Nobody]
    /\ ws = [t \in Thread |-> EmptyWorkspace]
    /\ mux = [t \in Thread |-> Nobody]
    /\ handle = [t \in Thread |-> Nobody]
    /\ pc = [t \in Thread |-> "idle"]
    /\ fd = [t \in Thread |-> 0]
    /\ out = [t \in Thread |-> 0]
    /\ rest = [t \in Thread |-> <<>>]
    /\ reached = Keys(content)
    /\ lossy = FALSE

\* open(2) with O_CREATE: the path gets a fresh empty inode if it has none.
CreateFile ==
    /\ used' = IF inode = 0 THEN used + 1 ELSE used
    /\ inode' = IF inode = 0 THEN used + 1 ELSE inode

Goto(t, label) == pc' = [pc EXCEPT ![t] = label]

-----------------------------------------------------------------------------
(* OpenWorkspace.                                                          *)

\* The process has a workspace for the path.
OpenHit(t) ==
    /\ pc[t] = "idle" /\ handle[t] = Nobody
    /\ cached[ProcOf[t]] # Nobody
    /\ handle' = [handle EXCEPT ![t] = cached[ProcOf[t]]]
    /\ UNCHANGED <<disk, flock, cached, ws, mux, pc, fd, out, rest, reached, lossy>>

\* It has none.  wspaceCacheMux is released here, and the thread goes on with
\* a workspace of its own.
OpenMiss(t) ==
    /\ pc[t] = "idle" /\ handle[t] = Nobody
    /\ cached[ProcOf[t]] = Nobody
    /\ ws' = [ws EXCEPT ![t] = EmptyWorkspace]
    /\ Goto(t, "openLock")
    /\ UNCHANGED <<disk, flock, cached, mux, handle, fd, out, rest, reached, lossy>>

\* LockFile: TryLock, which creates the file, and fails when another thread
\* holds the lock.
OpenLock(t) ==
    /\ pc[t] = "openLock"
    /\ CreateFile
    /\ IF flock[inode'] = Nobody
       THEN /\ flock' = [flock EXCEPT ![inode'] = t]
            /\ fd' = [fd EXCEPT ![t] = inode']
            /\ Goto(t, "openRead")
       ELSE /\ Goto(t, "idle")
            /\ UNCHANGED <<flock, fd>>
    /\ UNCHANGED <<content, cached, ws, mux, handle, out, rest, reached, lossy>>

\* The file is read whole, or is gone: then the workspace is returned without
\* being cached.
OpenRead(t) ==
    /\ pc[t] = "openRead"
    /\ IF inode = 0
       THEN /\ handle' = [handle EXCEPT ![t] = t]
            /\ Goto(t, "unlock")
            /\ UNCHANGED <<mux, rest>>
       ELSE /\ mux' = [mux EXCEPT ![t] = t]
            /\ rest' = [rest EXCEPT ![t] = content]
            /\ Goto(t, "openMerge")
            /\ UNCHANGED handle
    /\ UNCHANGED <<disk, flock, cached, ws, fd, out, reached, lossy>>

OpenMerge(t) ==
    /\ pc[t] = "openMerge"
    /\ rest[t] # <<>> /\ Head(rest[t]) # Torn
    /\ ws' = [ws EXCEPT ![t] = MergeRecord(@, Head(rest[t]))]
    /\ rest' = [rest EXCEPT ![t] = Tail(@)]
    /\ UNCHANGED <<disk, flock, cached, mux, handle, pc, fd, out, reached, lossy>>

\* A record that cannot be read fails the whole call.
OpenTorn(t) ==
    /\ pc[t] = "openMerge"
    /\ rest[t] # <<>> /\ Head(rest[t]) = Torn
    /\ rest' = [rest EXCEPT ![t] = <<>>]
    /\ mux' = [mux EXCEPT ![t] = Nobody]
    /\ Goto(t, "unlock")
    /\ UNCHANGED <<disk, flock, cached, ws, handle, fd, out, reached, lossy>>

\* The workspace replaces whatever the process cached since OpenMiss.
OpenPublish(t) ==
    /\ pc[t] = "openMerge" /\ rest[t] = <<>>
    /\ mux' = [mux EXCEPT ![t] = Nobody]
    /\ cached' = [cached EXCEPT ![ProcOf[t]] = t]
    /\ handle' = [handle EXCEPT ![t] = t]
    /\ Goto(t, "unlock")
    /\ UNCHANGED <<disk, flock, ws, fd, out, rest, reached, lossy>>

\* The deferred release of the advisory lock, in OpenWorkspace and Persist.
Unlock(t) ==
    /\ pc[t] = "unlock"
    /\ flock' = [flock EXCEPT ![fd[t]] = Nobody]
    /\ fd' = [fd EXCEPT ![t] = 0]
    /\ Goto(t, "idle")
    /\ UNCHANGED <<disk, cached, ws, mux, handle, out, rest, reached, lossy>>

-----------------------------------------------------------------------------
(* SetObservation, and the end of a request.                               *)

SetObservation(t, k, a) ==
    /\ pc[t] = "idle" /\ handle[t] # Nobody
    /\ mux[handle[t]] = Nobody
    /\ ws' = [ws EXCEPT ![handle[t]] =
                 SetObservationLocked(@, k, [author |-> Unstamped, answer |-> a])]
    /\ UNCHANGED <<disk, flock, cached, mux, handle, pc, fd, out, rest, reached, lossy>>

EndRequest(t) ==
    /\ pc[t] = "idle" /\ handle[t] # Nobody
    /\ handle' = [handle EXCEPT ![t] = Nobody]
    /\ UNCHANGED <<disk, flock, cached, ws, mux, pc, fd, out, rest, reached, lossy>>

-----------------------------------------------------------------------------
(* Persist.                                                                *)

\* flock.Lock opens the path, creating it, and then waits for the lock of the
\* inode it has opened.
PersistCall(t) ==
    /\ pc[t] = "idle" /\ handle[t] # Nobody
    /\ CreateFile
    /\ fd' = [fd EXCEPT ![t] = inode']
    /\ Goto(t, "persistWait")
    /\ UNCHANGED <<content, flock, cached, ws, mux, handle, out, rest, reached, lossy>>

\* Mutant: the advisory lock is not waited for.
PersistLockAlways(t) ==
    /\ pc[t] = "persistWait"
    /\ flock' = [flock EXCEPT ![fd[t]] = t]
    /\ Goto(t, "persistMux")
    /\ UNCHANGED <<disk, cached, ws, mux, handle, fd, out, rest, reached, lossy>>

PersistLock(t) ==
    /\ pc[t] = "persistWait"
    /\ flock[fd[t]] = Nobody
    /\ flock' = [flock EXCEPT ![fd[t]] = t]
    /\ Goto(t, "persistMux")
    /\ UNCHANGED <<disk, cached, ws, mux, handle, fd, out, rest, reached, lossy>>

PersistMux(t) ==
    /\ pc[t] = "persistMux"
    /\ mux[handle[t]] = Nobody
    /\ mux' = [mux EXCEPT ![handle[t]] = t]
    /\ Goto(t, "persistRead")
    /\ UNCHANGED <<disk, flock, cached, ws, handle, fd, out, rest, reached, lossy>>

\* A file that does not exist is not read.
PersistRead(t) ==
    /\ pc[t] = "persistRead"
    /\ rest' = [rest EXCEPT ![t] = IF inode = 0 THEN <<>> ELSE content]
    /\ Goto(t, "persistMerge")
    /\ UNCHANGED <<disk, flock, cached, ws, mux, handle, fd, out, reached, lossy>>

PersistMerge(t) ==
    /\ pc[t] = "persistMerge"
    /\ rest[t] # <<>> /\ Head(rest[t]) # Torn
    /\ ws' = [ws EXCEPT ![handle[t]] = MergeRecord(@, Head(rest[t]))]
    /\ rest' = [rest EXCEPT ![t] = Tail(@)]
    /\ UNCHANGED <<disk, flock, cached, mux, handle, pc, fd, out, reached, lossy>>

\* An unreadable record ends the merge, and what follows it will be overwritten.
PersistTorn(t) ==
    /\ pc[t] = "persistMerge"
    /\ rest[t] # <<>> /\ Head(rest[t]) = Torn
    /\ rest' = [rest EXCEPT ![t] = <<>>]
    /\ lossy' = TRUE
    /\ UNCHANGED <<disk, flock, cached, ws, mux, handle, pc, fd, out, reached>>

\* Mutant: the file is not merged before it is written.
PersistTruncateUnmerged(t) ==
    /\ pc[t] = "persistMerge"
    /\ CreateFile
    /\ content' = <<>>
    /\ rest' = [rest EXCEPT ![t] = <<>>]
    /\ out' = [out EXCEPT ![t] = inode']
    /\ Goto(t, "persistWrite")
    /\ UNCHANGED <<flock, cached, ws, mux, handle, fd, reached, lossy>>

\* os.WriteFile opens the path with O_CREATE and O_TRUNC ...
PersistTruncate(t) ==
    /\ pc[t] = "persistMerge" /\ rest[t] = <<>>
    /\ CreateFile
    /\ content' = <<>>
    /\ out' = [out EXCEPT ![t] = inode']
    /\ Goto(t, "persistWrite")
    /\ UNCHANGED <<flock, cached, ws, mux, handle, fd, rest, reached, lossy>>

\* ... and writes from its start.  What a writer that does not hold the lock of
\* this inode wrote meanwhile may show behind the new end; a write to an inode
\* the path has lost is not seen.
PersistWrite(t) ==
    /\ pc[t] = "persistWrite"
    /\ IF out[t] = inode
       THEN /\ content' \in {Marshalled(t)} \cup
                    (IF content = <<>> THEN {} ELSE {Append(Marshalled(t), Torn)})
            /\ reached' = reached \cup Held(ws[handle[t]])
       ELSE UNCHANGED <<content, reached>>
    /\ out' = [out EXCEPT ![t] = 0]
    /\ Goto(t, "persistDone")
    /\ UNCHANGED <<inode, used, flock, cached, ws, mux, handle, fd, rest, lossy>>

PersistDone(t) ==
    /\ pc[t] = "persistDone"
    /\ mux' = [mux EXCEPT ![handle[t]] = Nobody]
    /\ Goto(t, "unlock")
    /\ UNCHANGED <<disk, flock, cached, ws, handle, fd, out, rest, reached, lossy>>

-----------------------------------------------------------------------------
Step(t) ==
    \/ OpenLock(t) \/ OpenRead(t) \/ OpenMerge(t) \/ OpenTorn(t)
    \/ OpenPublish(t) \/ Unlock(t)
    \/ PersistLock(t) \/ PersistMux(t) \/ PersistRead(t) \/ PersistMerge(t)
    \/ PersistTorn(t) \/ PersistTruncate(t) \/ PersistWrite(t) \/ PersistDone(t)

Call(t) ==
    \/ OpenHit(t) \/ OpenMiss(t) \/ PersistCall(t) \/ EndRequest(t)
    \/ \E k \in Key, a \in Answer : SetObservation(t, k, a)

Next == \E t \in Thread : Step(t) \/ Call(t)

Spec == Init /\ [][Next]_vars

\* Go's mutex hands over to a starving waiter and the kernel queues the waiters
\* of a lock, so a waiter for either is served if the lock keeps being released.
Fairness ==
    \A t \in Thread : /\ WF_vars(Step(t))
                      /\ SF_vars(PersistLock(t))
                      /\ SF_vars(PersistMux(t))

FairSpec == Spec /\ Fairness

-----------------------------------------------------------------------------
(* Properties of Spec.                                                     *)

Label == {"idle", "openLock", "openRead", "openMerge", "unlock",
          "persistWait", "persistMux", "persistRead", "persistMerge",
          "persistWrite", "persistDone"}

Workspaces == [cache : [Key -> Obs \cup {NoObs}],
               order : [Key -> Nat \cup {NoIndex}],
               count : Nat]

\* Every variable has its type: the fields that OpenWorkspace, SetObservation and
\* Persist assign, and the files and locks they use.
TypeOK ==
    /\ inode \in Inode \cup {0} /\ used \in Inode \cup {0}
    /\ content \in Seq(Item)
    /\ flock \in [Inode -> Thread \cup {Nobody}]
    /\ cached \in [Proc -> Thread \cup {Nobody}]
    /\ ws \in [Thread -> Workspaces]
    /\ mux \in [Thread -> Thread \cup {Nobody}]
    /\ handle \in [Thread -> Thread \cup {Nobody}]
    /\ pc \in [Thread -> Label]
    /\ fd \in [Thread -> Inode \cup {0}] /\ out \in [Thread -> Inode \cup {0}]
    /\ rest \in [Thread -> Seq(Item)]
    /\ reached \subseteq Key
    /\ lossy \in BOOLEAN

Writing(t) == pc[t] = "persistWrite"

\* The file is never read while a writer has it truncated: OpenWorkspace and
\* Persist read it under the advisory lock, and Persist writes it under the
\* same lock.  A violation loads, or persists over, half a file.
ReadsWholeFile ==
    \A t, u \in Thread : pc[t] \in {"openRead", "persistRead"} => ~Writing(u)

\* A key that has been in a complete file stays in the file, whichever
\* workspaces of whichever processes persist over it and in whatever order
\* ("merged in rather than clobbered", Persist).
ReachedKept ==
    lossy \/ (\E t \in Thread : Writing(t)) \/ reached \subseteq Keys(content)

\* The write indices of a workspace number its keys without gaps or
\* repetitions, so marshalLocked writes each of its observations once.
OrderSound ==
    \A t \in Thread :
        /\ \A k \in Key : ws[t].order[k] # NoIndex <=> ws[t].cache[k] # NoObs
        /\ \A k \in Held(ws[t]) : ws[t].order[k] < ws[t].count
        /\ \A n \in 0 .. ws[t].count - 1 : \E k \in Held(ws[t]) : ws[t].order[k] = n
        /\ \A j, k \in Held(ws[t]) : ws[t].order[j] = ws[t].order[k] => j = k

\* A thread that has called Persist returns.  It waits for the advisory lock of the
\* inode it opened and then, holding that, for the Mux of its workspace, which
\* another thread of its process can hold under the lock of an earlier inode; both
\* are given back on every way out of OpenWorkspace and Persist.
PersistReturns ==
    \A t \in Thread : pc[t] = "persistWait" ~> pc[t] = "idle"
=============================================================================
