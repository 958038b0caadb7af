---------------------------- MODULE WorkspaceFaults ----------------------------
(***************************************************************************)
(* What happens to captn.cog beside the calls of WorkspaceStore: a captn   *)
(* process dies at any step, a file operation returns an error (a read, an *)
(* open, or a write half-way), and git, which knows nothing of the         *)
(* advisory lock, gives the path another inode: a pull or merge that adds  *)
(* records, a merge whose conflict was resolved badly, a checkout of a     *)
(* branch that has no captn.cog.                                           *)
(***************************************************************************)
EXTENDS WorkspaceStore

\* Threads that may have looked at the file and will write it.
InPersist(t) ==
    pc[t] \in {"persistWait", "persistMux", "persistRead", "persistMerge",
               "persistWrite", "persistDone"}

\* What a write that stops early can leave: some of the records, and then
\* possibly a part of one.
Cut(s) ==
    LET whole == {SubSeq(s, 1, n) : n \in 0 .. Len(s)}
    IN whole \cup {Append(c, Torn) : c \in whole}

Writers(p) == {t \in Thread : ProcOf[t] = p /\ Writing(t) /\ out[t] = inode}

\* Process p dies.  The kernel closes its files, which releases its locks; all
\* its memory is gone.
Crash(p) ==
    LET dead(t) == t # Nobody /\ ProcOf[t] = p
        Reset(f, v) == [t \in Thread |-> IF dead(t) THEN v ELSE f[t]]
    IN  /\ \E t \in Thread : dead(t) /\ (pc[t] # "idle" \/ handle[t] # Nobody)
        /\ IF Writers(p) = {}
           THEN UNCHANGED <<content, lossy>>
           ELSE /\ \E t \in Writers(p) : content' \in Cut(Marshalled(t))
                /\ lossy' = TRUE
        /\ flock' = [i \in Inode |-> IF dead(flock[i]) THEN Nobody ELSE flock[i]]
        /\ cached' = [cached EXCEPT ![p] = Nobody]
        /\ ws' = Reset(ws, EmptyWorkspace)
        /\ mux' = Reset(mux, Nobody)
        /\ handle' = Reset(handle, Nobody)
        /\ pc' = Reset(pc, "idle")
        /\ fd' = Reset(fd, 0)
        /\ out' = Reset(out, 0)
        /\ rest' = Reset(rest, <<>>)
        /\ UNCHANGED <<inode, used, reached>>

\* os.WriteFile returns an error, which Persist returns after releasing its locks.
WriteFails(t) ==
    /\ pc[t] = "persistWrite"
    /\ IF out[t] = inode THEN content' \in Cut(Marshalled(t)) ELSE UNCHANGED content
    /\ lossy' = TRUE
    /\ out' = [out EXCEPT ![t] = 0]
    /\ Goto(t, "persistDone")
    /\ UNCHANGED <<inode, used, flock, cached, ws, mux, handle, fd, rest, reached>>

\* os.ReadFile returns an error for a file that is there: Persist skips the merge
\* and goes on to overwrite what it could not read.
ReadFails(t) ==
    /\ pc[t] = "persistRead" /\ inode # 0
    /\ rest' = [rest EXCEPT ![t] = <<>>]
    /\ lossy' = TRUE
    /\ Goto(t, "persistMerge")
    /\ UNCHANGED <<disk, flock, cached, ws, mux, handle, fd, out, reached>>

\* Mutant: the failing call returns without releasing Mux.
PersistFailsKeepsMux(t) ==
    /\ pc[t] = "persistMerge" /\ rest[t] = <<>>
    /\ Goto(t, "unlock")
    /\ UNCHANGED <<disk, flock, cached, ws, mux, handle, fd, out, rest, reached, lossy>>

\* Persist returns an error before the file is touched: marshalLocked cannot encode
\* an observation, or os.WriteFile cannot open the path.
PersistFails(t) ==
    /\ pc[t] = "persistMerge" /\ rest[t] = <<>>
    /\ Goto(t, "persistDone")
    /\ UNCHANGED <<disk, flock, cached, ws, mux, handle, fd, out, rest, reached, lossy>>

\* OpenWorkspace returns an error for a file that is there, from its opening or
\* from its reading, and leaves nothing behind but what it releases.
OpenFails(t) ==
    /\ pc[t] = "openRead" /\ inode # 0
    /\ Goto(t, "unlock")
    /\ UNCHANGED <<disk, flock, cached, ws, mux, handle, fd, out, rest, reached, lossy>>

\* git puts content c at the path, on a new inode.
GitWrites(c) ==
    /\ used < MaxInode
    /\ Len(c) <= MaxFile
    /\ used' = used + 1
    /\ inode' = used + 1
    /\ content' = c
    /\ lossy' = (lossy \/ \E t \in Thread : InPersist(t))
    /\ UNCHANGED <<flock, cached, ws, mux, handle, pc, fd, out, rest>>

\* A union merge: the lines of both sides, so a key may come twice.
GitPull ==
    \E r \in Foreign :
        /\ GitWrites(Append(content, r))
        /\ reached' = reached \cup Keys(Append(content, r))

\* A broken merge resolution leaves a line that is not a record.
GitConflict ==
    /\ GitWrites(<<Torn>> \o content)
    /\ reached' = {}

\* The path is gone; what it held is in git, and is not owed to this branch.
GitRemove ==
    /\ inode # 0 /\ used < MaxInode
    /\ inode' = 0
    /\ content' = <<>>
    /\ reached' = {}
    /\ lossy' = (lossy \/ \E t \in Thread : InPersist(t))
    /\ UNCHANGED <<used, flock, cached, ws, mux, handle, pc, fd, out, rest>>

Fault ==
    \/ \E p \in Proc : Crash(p)
    \/ \E t \in Thread : WriteFails(t) \/ ReadFails(t) \/ PersistFails(t) \/ OpenFails(t)
    \/ GitConflict \/ GitRemove

FaultyNext == Next \/ Fault \/ GitPull

FaultySpec == Init /\ [][FaultyNext]_vars /\ Fairness

\* Only pulls that merge cleanly.
PullSpec == Init /\ [][Next \/ GitPull]_vars

\* Requests keep coming.
Requests == \A t \in Thread : WF_vars(OpenHit(t) \/ OpenMiss(t)) /\ WF_vars(PersistCall(t))

\* No fault at all but what the file holds at the start.
RequestSpec == Init /\ [][Next]_vars /\ Fairness /\ Requests

-----------------------------------------------------------------------------
\* However the file was damaged or moved, a Persist that has written without
\* another writer leaves the file readable and holding all of its memory.
PersistRepairs ==
    [][\A t \in Thread :
        PersistWrite(t) /\ out[t] = inode /\ content = <<>> =>
            /\ \A i \in DOMAIN content' : content'[i] # Torn
            /\ Keys(content') = Held(ws[handle[t]])]_vars

\* "Records that reached disk after this workspace was opened (a git pull,
\* another captn process) are merged in rather than clobbered", Persist.
PulledKept == (\E t \in Thread : Writing(t)) \/ reached \subseteq Keys(content)

Unreadable == Torn \in {content[i] : i \in DOMAIN content}

\* "An unreadable file is overwritten so a broken merge resolution cannot block
\* persisting forever", Persist.
UnreadableOverwritten == Unreadable ~> ~Unreadable
=============================================================================
