------------------------ MODULE WorkspaceFaultsProofs ------------------------
(***************************************************************************)
(* What is lost, and what is repaired, when processes die, calls fail and  *)
(* git moves the file, for any number of processes, threads, keys and      *)
(* inodes and any number of faults.                                        *)
(***************************************************************************)
EXTENDS WorkspaceFaults, WorkspaceStoreProofs, SequenceTheorems

-----------------------------------------------------------------------------
(* The calls of captn.                                                     *)

LEMMA RoomStep ==
    ASSUME StepInv, NEW t \in Thread, Step(t) \/ Call(t)
    PROVE  RoomInv'
<1>1. CreateFile => inode' # 0
  BY DEF CreateFile, StepInv, TypeOK, Inode
<1>2. (inode' = inode /\ used' = used) \/ CreateFile
  BY DEF disk, Step, Call, OpenHit, OpenMiss, OpenLock, OpenRead, OpenMerge, OpenTorn,
         OpenPublish, Unlock, EndRequest, PersistCall, PersistLock, PersistMux,
         PersistRead, PersistMerge, PersistTorn, PersistTruncate, PersistWrite,
         PersistDone, SetObservation
<1> QED
  BY <1>1, <1>2 DEF StepInv, RoomInv

\* A lock is held by one thread, whatever inode the path has by now.
LEMMA GuardStep ==
    ASSUME StepInv, NEW t \in Thread, Step(t) \/ Call(t)
    PROVE  GuardInv'
<1>1. TypeOK /\ GuardInv /\ Nobody \notin Thread
  BY StoreAssumption DEF StepInv
<1>2. CreateFile => inode' \in Inode /\ (inode # 0 => inode' = inode)
  BY StoreAssumption, <1>1 DEF CreateFile, StepInv, TypeOK, RoomInv, Inode
<1>3. 0 \notin Inode
  BY DEF Inode
<1>4. ~lossy => \A u \in Thread : pc[u] \in Persisting => inode # 0
  BY <1>1 DEF GuardInv, Locked, Persisting
<1>5. ~lossy => \A u, v \in Thread :
          pc[u] \in Locked \cap Persisting /\ pc[v] \in Locked \cap Persisting => u = v
  BY <1>1 DEF GuardInv
<1>10. CASE OpenHit(t)
  BY <1>10, <1>1 DEF OpenHit, disk, TypeOK, GuardInv, Locked, Persisting, Writing
<1>11. CASE OpenMiss(t)
  BY <1>11, <1>1 DEF OpenMiss, Goto, disk, TypeOK, GuardInv, Locked, Persisting, Writing
<1>12. CASE OpenLock(t)
  <2>1. inode' \in Inode /\ (inode # 0 => inode' = inode)
    BY <1>2, <1>12 DEF OpenLock
  <2>2. UNCHANGED <<content, lossy, out>> /\ pc[t] = "openLock"
    BY <1>12 DEF OpenLock
  <2>3. CASE flock[inode'] = Nobody
    <3>1. /\ flock' = [flock EXCEPT ![inode'] = t] /\ fd' = [fd EXCEPT ![t] = inode']
          /\ pc' = [pc EXCEPT ![t] = "openRead"]
      BY <1>12, <2>3 DEF OpenLock, Goto
    <3> QED
      BY <1>1, <1>3, <1>4, <2>1, <2>2, <2>3, <3>1
         DEF TypeOK, GuardInv, Locked, Persisting, Writing
  <2>4. CASE flock[inode'] # Nobody
    <3>1. flock' = flock /\ fd' = fd /\ pc' = [pc EXCEPT ![t] = "idle"]
      BY <1>12, <2>4 DEF OpenLock, Goto
    <3> QED
      BY <1>1, <1>4, <2>1, <2>2, <3>1 DEF TypeOK, GuardInv, Locked, Persisting, Writing
  <2> QED
    BY <2>3, <2>4
<1>13. CASE OpenRead(t)
  BY <1>13, <1>1 DEF OpenRead, Goto, disk, TypeOK, GuardInv, Locked, Persisting, Writing
<1>14. CASE OpenMerge(t)
  BY <1>14, <1>1 DEF OpenMerge, disk, TypeOK, GuardInv, Writing
<1>15. CASE OpenTorn(t)
  BY <1>15, <1>1 DEF OpenTorn, Goto, disk, TypeOK, GuardInv, Locked, Persisting, Writing
<1>16. CASE OpenPublish(t)
  BY <1>16, <1>1 DEF OpenPublish, Goto, disk, TypeOK, GuardInv, Locked, Persisting, Writing
<1>17. CASE Unlock(t)
  BY <1>17, <1>1 DEF Unlock, Goto, disk, TypeOK, GuardInv, Locked, Persisting, Writing
<1>18. CASE EndRequest(t)
  BY <1>18, <1>1 DEF EndRequest, disk, TypeOK, GuardInv, Locked, Persisting, Writing
<1>19. CASE PersistCall(t)
  <2>1. inode' \in Inode /\ (inode # 0 => inode' = inode)
    BY <1>2, <1>19 DEF PersistCall
  <2>2. /\ UNCHANGED <<content, lossy, out, flock>> /\ pc[t] = "idle"
        /\ fd' = [fd EXCEPT ![t] = inode'] /\ pc' = [pc EXCEPT ![t] = "persistWait"]
    BY <1>19 DEF PersistCall, Goto
  <2> QED
    BY <1>1, <1>3, <1>4, <2>1, <2>2 DEF TypeOK, GuardInv, Locked, Persisting, Writing
<1>20. CASE PersistLock(t)
  BY <1>20, <1>1 DEF PersistLock, Goto, disk, TypeOK, GuardInv, Locked, Persisting, Writing
<1>21. CASE PersistMux(t)
  BY <1>21, <1>1 DEF PersistMux, Goto, disk, TypeOK, GuardInv, Locked, Persisting, Writing
<1>22. CASE PersistRead(t)
  BY <1>22, <1>1 DEF PersistRead, Goto, disk, TypeOK, GuardInv, Locked, Persisting, Writing
<1>23. CASE PersistMerge(t)
  BY <1>23, <1>1 DEF PersistMerge, disk, TypeOK, GuardInv, Writing
<1>24. CASE PersistTorn(t)
  BY <1>24, <1>1 DEF PersistTorn, disk, TypeOK, GuardInv, Writing
<1>25. CASE PersistTruncate(t)
  <2>1. inode' \in Inode /\ (inode # 0 => inode' = inode)
    BY <1>2, <1>25 DEF PersistTruncate
  <2>2. /\ UNCHANGED <<lossy, flock, fd>> /\ pc[t] = "persistMerge" /\ content' = <<>>
        /\ out' = [out EXCEPT ![t] = inode'] /\ pc' = [pc EXCEPT ![t] = "persistWrite"]
    BY <1>25 DEF PersistTruncate, Goto
  <2> QED
    BY <1>1, <1>3, <1>4, <1>5, <2>1, <2>2 DEF TypeOK, GuardInv, Locked, Persisting, Writing
<1>26. CASE PersistWrite(t)
  <2>1. /\ UNCHANGED <<inode, lossy, flock, fd>> /\ pc[t] = "persistWrite"
        /\ out' = [out EXCEPT ![t] = 0] /\ pc' = [pc EXCEPT ![t] = "persistDone"]
    BY <1>26 DEF PersistWrite, Goto
  <2>2. ~lossy => \A u \in Thread : pc'[u] # "persistWrite"
    BY <1>1, <1>5, <2>1 DEF TypeOK, Locked, Persisting
  <2> QED
    BY <1>1, <2>1, <2>2 DEF TypeOK, GuardInv, Locked, Persisting, Writing
<1>27. CASE PersistDone(t)
  BY <1>27, <1>1 DEF PersistDone, Goto, disk, TypeOK, GuardInv, Locked, Persisting, Writing
<1>28. CASE \E k \in Key, a \in Answer : SetObservation(t, k, a)
  BY <1>28, <1>1 DEF SetObservation, disk, TypeOK, GuardInv, Locked, Persisting, Writing
<1> QED
  BY <1>10, <1>11, <1>12, <1>13, <1>14, <1>15, <1>16, <1>17, <1>18, <1>19,
     <1>20, <1>21, <1>22, <1>23, <1>24, <1>25, <1>26, <1>27, <1>28 DEF Step, Call

-----------------------------------------------------------------------------
(* Failing calls and crashes.                                              *)

\* What is left of a file whose write stops early is a file.
LEMMA CutSound ==
    ASSUME NEW s \in Seq(Item), NEW c \in Cut(s)
    PROVE  c \in Seq(Item)
<1>1. \A n \in 0 .. Len(s) : SubSeq(s, 1, n) \in Seq(Item)
  OBVIOUS
<1>2. \A x \in Seq(Item) : Append(x, Torn) \in Seq(Item)
  BY DEF Item
<1> QED
  BY <1>1, <1>2 DEF Cut

LEMMA WriteFailsStep ==
    ASSUME StepInv, NEW t \in Thread, WriteFails(t)
    PROVE  StepInv'
<1>1. TypeOK /\ RoomInv /\ GuardInv /\ MuxInv /\ DataInv
  BY DEF StepInv
<1>2. /\ pc[t] = "persistWrite" /\ lossy' = TRUE
      /\ out' = [out EXCEPT ![t] = 0] /\ pc' = [pc EXCEPT ![t] = "persistDone"]
      /\ UNCHANGED <<inode, used, flock, cached, ws, mux, handle, fd, rest, reached>>
  BY DEF WriteFails, Goto
<1>3. content' \in Seq(Item)
  <2>1. Marshalled(t) \in Seq(Item)
    BY <1>2, MarshalledSound DEF Persisting
  <2> QED
    BY <1>1, <2>1, CutSound DEF WriteFails, TypeOK
<1>4. TypeOK' /\ RoomInv'
  BY <1>1, <1>2, <1>3 DEF TypeOK, RoomInv, Label
<1>5. GuardInv'
  BY <1>1, <1>2 DEF GuardInv, TypeOK, Locked
<1>6. MuxInv'
  BY <1>1, <1>2 DEF MuxInv, TypeOK, Opening, Persisting, Muxed
<1>7. DataInv'
  BY <1>1, <1>2 DEF DataInv, ReachedKept
<1> QED
  BY <1>4, <1>5, <1>6, <1>7 DEF StepInv

\* A file that cannot be read is overwritten, which "lossy" records.
LEMMA ReadFailsStep ==
    ASSUME StepInv, NEW t \in Thread, ReadFails(t)
    PROVE  StepInv'
<1>1. TypeOK /\ RoomInv /\ GuardInv /\ MuxInv /\ DataInv
  BY DEF StepInv
<1>2. /\ pc[t] = "persistRead" /\ lossy' = TRUE
      /\ rest' = [rest EXCEPT ![t] = <<>>] /\ pc' = [pc EXCEPT ![t] = "persistMerge"]
      /\ UNCHANGED <<inode, used, content, flock, cached, ws, mux, handle, fd, out, reached>>
  BY DEF ReadFails, Goto, disk
<1>3. TypeOK' /\ RoomInv'
  BY <1>1, <1>2, EmptySeq DEF TypeOK, RoomInv, Label
<1>4. GuardInv'
  BY <1>1, <1>2 DEF GuardInv, TypeOK, Locked, Writing
<1>5. MuxInv'
  BY <1>1, <1>2 DEF MuxInv, TypeOK, Opening, Persisting, Muxed
<1>6. DataInv'
  BY <1>1, <1>2 DEF DataInv, ReachedKept
<1> QED
  BY <1>3, <1>4, <1>5, <1>6 DEF StepInv

\* A call that returns before it writes changes no data.
LEMMA EarlyReturnStep ==
    ASSUME StepInv, NEW t \in Thread, PersistFails(t) \/ OpenFails(t)
    PROVE  StepInv'
<1>1. TypeOK /\ RoomInv /\ GuardInv /\ MuxInv /\ DataInv
  BY DEF StepInv
<1>2. UNCHANGED <<inode, used, content, flock, cached, ws, mux, handle, fd, out, rest,
                  reached, lossy>>
  BY DEF PersistFails, OpenFails, disk
<1>3. \/ pc[t] = "persistMerge" /\ pc' = [pc EXCEPT ![t] = "persistDone"]
      \/ pc[t] = "openRead" /\ pc' = [pc EXCEPT ![t] = "unlock"]
  BY DEF PersistFails, OpenFails, Goto
<1>4. TypeOK' /\ RoomInv'
  BY <1>1, <1>2, <1>3 DEF TypeOK, RoomInv, Label
<1>5. GuardInv'
  BY <1>1, <1>2, <1>3 DEF GuardInv, TypeOK, Locked, Persisting, Writing
<1>6. MuxInv'
  BY <1>1, <1>2, <1>3 DEF MuxInv, TypeOK, Opening, Persisting, Muxed
<1>7. DataInv'
  BY <1>1, <1>2, <1>3 DEF DataInv, ReachedKept, TypeOK, Writing
<1> QED
  BY <1>4, <1>5, <1>6, <1>7 DEF StepInv

\* A crash ends every thread of a process and forgets its memory.
LEMMA CrashStep ==
    ASSUME StepInv, NEW p \in Proc, Crash(p)
    PROVE  StepInv'
<1> DEFINE dead(t) == t # Nobody /\ ProcOf[t] = p
<1>1. /\ TypeOK /\ RoomInv /\ GuardInv /\ MuxInv /\ DataInv
      /\ ProcOf \in [Thread -> Proc] /\ Nobody \notin Thread
  BY StoreAssumption DEF StepInv
<1>2. /\ flock' = [i \in Inode |-> IF dead(flock[i]) THEN Nobody ELSE flock[i]]
      /\ cached' = [cached EXCEPT ![p] = Nobody]
      /\ ws' = [t \in Thread |-> IF dead(t) THEN EmptyWorkspace ELSE ws[t]]
      /\ mux' = [t \in Thread |-> IF dead(t) THEN Nobody ELSE mux[t]]
      /\ handle' = [t \in Thread |-> IF dead(t) THEN Nobody ELSE handle[t]]
      /\ pc' = [t \in Thread |-> IF dead(t) THEN "idle" ELSE pc[t]]
      /\ fd' = [t \in Thread |-> IF dead(t) THEN 0 ELSE fd[t]]
      /\ out' = [t \in Thread |-> IF dead(t) THEN 0 ELSE out[t]]
      /\ rest' = [t \in Thread |-> IF dead(t) THEN <<>> ELSE rest[t]]
      /\ UNCHANGED <<inode, used, reached>>
  BY DEF Crash
<1>3. \/ content' = content /\ lossy' = lossy /\ Writers(p) = {}
      \/ lossy' = TRUE /\ \E t \in Writers(p) : content' \in Cut(Marshalled(t))
  BY DEF Crash
<1> HIDE DEF dead
<1>4. \A t \in Thread : dead(t) <=> ProcOf[t] = p
  BY <1>1 DEF dead
<1>5. content' \in Seq(Item) /\ lossy' \in BOOLEAN
  <2>1. ASSUME NEW t \in Writers(p), content' \in Cut(Marshalled(t)) PROVE content' \in Seq(Item)
    <3>1. Marshalled(t) \in Seq(Item)
      BY MarshalledSound DEF Writers, Writing, Persisting
    <3> QED
      BY <2>1, <3>1, CutSound
  <2> QED
    BY <1>1, <1>3, <2>1 DEF TypeOK
<1>6. TypeOK' /\ RoomInv'
  BY <1>1, <1>2, <1>5, EmptyWorkspaceSound, EmptySeq DEF TypeOK, RoomInv, Label
<1>7. ~lossy' => /\ ~lossy /\ content' = content
                 /\ \A t \in Thread : dead(t) => ~Writing(t)
  BY <1>1, <1>3, <1>4 DEF GuardInv, Writers
<1>8. GuardInv'
  <2>1. \A t \in Thread : ~dead(t) => fd'[t] = fd[t] /\ pc'[t] = pc[t] /\ out'[t] = out[t]
    BY <1>2
  <2>2. \A t \in Thread : dead(t) => pc'[t] = "idle"
    BY <1>2
  <2>3. \A t \in Thread : ~dead(t) /\ pc[t] \in Locked => flock'[fd[t]] = t
    BY <1>1, <1>2 DEF GuardInv, TypeOK
  <2> QED
    BY <1>1, <1>2, <1>7, <2>1, <2>2, <2>3 DEF GuardInv, Locked, Persisting, Writing
\* A thread that lives works with a workspace that lives.
<1>9. \A t \in Thread : ~dead(t) /\ handle[t] # Nobody => handle[t] \in Thread /\ ~dead(handle[t])
  BY <1>1, <1>4 DEF MuxInv, TypeOK
<1>10. MuxInv'
  <2>1. \A t \in Thread : dead(t) => handle'[t] = Nobody /\ pc'[t] = "idle"
    BY <1>2
  <2>2. \A t \in Thread : ~dead(t) => handle'[t] = handle[t] /\ pc'[t] = pc[t] /\ mux'[t] = mux[t]
                                      /\ cached'[ProcOf[t]] = cached[ProcOf[t]]
    BY <1>1, <1>2, <1>4 DEF TypeOK
  <2>3. \A q \in Proc : cached'[q] # Nobody =>
            cached'[q] = cached[q] /\ cached[q] \in Thread /\ ~dead(cached[q])
    BY <1>1, <1>2, <1>4 DEF TypeOK, MuxInv
  <2> QED
    BY <1>1, <1>9, <2>1, <2>2, <2>3 DEF MuxInv, Opening, Persisting, Muxed
<1>11. DataInv'
  <2>1. \A t \in Thread : WorkspaceOK(ws'[t])
    BY <1>1, <1>2, EmptyWorkspaceSound DEF DataInv
  <2>2. \A t \in Thread : pc'[t] # "idle" =>
            ~dead(t) /\ pc'[t] = pc[t] /\ handle'[t] = handle[t] /\ rest'[t] = rest[t]
    BY <1>2
  <2>3. \A t \in Thread : ~dead(t) /\ pc[t] \in Persisting => ws'[handle[t]] = ws[handle[t]]
    BY <1>1, <1>2, <1>9 DEF MuxInv
  <2>4. \A t \in Thread : pc'[t] = "persistMerge" /\ ~lossy' =>
            Keys(content') \subseteq Held(ws'[handle'[t]]) \cup Keys(rest'[t])
    BY <1>1, <1>7, <2>2, <2>3 DEF DataInv, Persisting
  <2>5. \A t \in Thread : pc'[t] = "persistWrite" /\ ~lossy' => reached' \subseteq Held(ws'[handle'[t]])
    BY <1>1, <1>2, <1>7, <2>2, <2>3 DEF DataInv, Persisting, Writing
  <2>6. ReachedKept'
    <3>1. \A t \in Thread : ~dead(t) => pc'[t] = pc[t]
      BY <1>2
    <3> QED
      BY <1>1, <1>2, <1>7, <3>1 DEF DataInv, ReachedKept, Writing
  <2> QED
    BY <2>1, <2>4, <2>5, <2>6 DEF DataInv, Writing
<1> QED
  BY <1>6, <1>8, <1>10, <1>11 DEF StepInv

-----------------------------------------------------------------------------
(* git.                                                                    *)

\* A change of the file loses nothing unless a thread is in Persist, and then
\* the loss is on record.
LEMMA FileChanges ==
    ASSUME StepInv, content' \in Seq(Item), inode' \in Inode \cup {0}, used' \in Inode \cup {0},
           RoomInv', reached' \subseteq Key, ~lossy' => reached' \subseteq Keys(content'),
           lossy' = (lossy \/ \E t \in Thread : InPersist(t)),
           UNCHANGED <<flock, cached, ws, mux, handle, pc, fd, out, rest>>
    PROVE  StepInv'
<1>1. TypeOK /\ RoomInv /\ GuardInv /\ MuxInv /\ DataInv
  BY DEF StepInv
<1>2. ~lossy' => \A t \in Thread : pc[t] \notin Persisting
  BY DEF InPersist, Persisting
<1>3. lossy' \in BOOLEAN
  BY Zenon
<1>4. TypeOK'
  BY <1>1, <1>3 DEF TypeOK
<1>5. GuardInv'
  BY <1>1, <1>2 DEF GuardInv, Writing, Persisting
<1>6. MuxInv'
  BY <1>1 DEF MuxInv
<1>7. DataInv'
  BY <1>1, <1>2 DEF DataInv, ReachedKept, Writing, Persisting
<1> QED
  BY <1>4, <1>5, <1>6, <1>7 DEF StepInv

\* A record added to a file is among its keys, or behind an unreadable line; it
\* hides none of the others.
LEMMA KeysOfAppend ==
    ASSUME NEW c \in Seq(Item), NEW r \in Record
    PROVE  /\ Append(c, r) \in Seq(Item)
           /\ Keys(c) \subseteq Keys(Append(c, r))
           /\ Keys(Append(c, r)) \subseteq Key
<1> DEFINE d == Append(c, r)
<1>1. /\ d \in Seq(Item) /\ Len(c) \in Nat /\ Len(d) = Len(c) + 1
      /\ \A i \in 1 .. Len(c) : d[i] = c[i]
  BY DEF Item
<1> HIDE DEF d
<1>2. ASSUME NEW i \in Prefix(c) PROVE i \in Prefix(d) /\ d[i].key = c[i].key
  <2>1. i \in 1 .. Len(c) /\ \A j \in 1 .. i : c[j] # Torn
    BY DEF Prefix
  <2>2. \A j \in 1 .. i : j \in 1 .. Len(c) /\ d[j] = c[j]
    BY <1>1, <2>1
  <2> QED
    BY <1>1, <2>1, <2>2 DEF Prefix
<1>3. Keys(c) \subseteq Keys(d)
  BY <1>2 DEF Keys
<1>4. Keys(d) \subseteq Key
  BY <1>1, KeysAreKeys
<1> QED
  BY <1>1, <1>3, <1>4 DEF d

LEMMA GitStep ==
    ASSUME StepInv, GitPull \/ GitConflict \/ GitRemove
    PROVE  StepInv'
<1>1. /\ content \in Seq(Item) /\ inode \in Inode \cup {0} /\ used \in Inode \cup {0}
      /\ reached \subseteq Key
  BY DEF StepInv, TypeOK
<1>2. ASSUME NEW c \in Seq(Item), GitWrites(c), reached' \subseteq Key,
             ~lossy' => reached' \subseteq Keys(c)
      PROVE  StepInv'
  <2>1. used + 1 \in Inode /\ content' = c /\ inode' = used + 1 /\ used' = used + 1
    BY <1>1, <1>2, StoreAssumption DEF GitWrites, Inode
  <2>2. RoomInv'
    BY <1>1, <2>1 DEF RoomInv, Inode
  <2>3. lossy' = (lossy \/ \E t \in Thread : InPersist(t))
    BY <1>2, Zenon DEF GitWrites
  <2> QED
    BY <1>2, <2>1, <2>2, <2>3, FileChanges DEF GitWrites
<1>3. CASE GitPull
  <2>1. PICK r \in Foreign : /\ GitWrites(Append(content, r))
                             /\ reached' = reached \cup Keys(Append(content, r))
    BY <1>3 DEF GitPull
  <2>2. r \in Record
    BY StoreAssumption
  <2>3. ~lossy' => reached \subseteq Keys(content)
    BY <2>1 DEF GitWrites, InPersist, StepInv, DataInv, ReachedKept, Writing
  <2> QED
    BY <1>1, <1>2, <2>1, <2>2, <2>3, KeysOfAppend
<1>4. CASE GitConflict
  <2>1. <<Torn>> \o content \in Seq(Item) /\ GitWrites(<<Torn>> \o content) /\ reached' = {}
    BY <1>1, <1>4 DEF GitConflict, Item
  <2> QED
    BY <1>2, <2>1
<1>5. CASE GitRemove
  <2>1. /\ inode' = 0 /\ used' = used /\ content' = <<>> /\ reached' = {} /\ used < MaxInode
        /\ UNCHANGED <<flock, cached, ws, mux, handle, pc, fd, out, rest>>
    BY <1>5 DEF GitRemove
  <2>2. lossy' = (lossy \/ \E t \in Thread : InPersist(t))
    BY <1>5, Zenon DEF GitRemove
  <2> QED
    BY <1>1, <2>1, <2>2, EmptySeq, FileChanges DEF RoomInv
<1> QED
  BY <1>3, <1>4, <1>5

-----------------------------------------------------------------------------
(* The theorems.                                                           *)

LEMMA StepInvKept == StepInv /\ [FaultyNext]_vars => StepInv'
<1> SUFFICES ASSUME StepInv, [FaultyNext]_vars PROVE StepInv'
  OBVIOUS
<1>1. CASE UNCHANGED vars
  <2>1. TypeOK' /\ RoomInv' /\ GuardInv' /\ MuxInv'
    BY <1>1 DEF StepInv, TypeOK, RoomInv, GuardInv, MuxInv, Writing, vars
  <2>2. DataInv'
    BY <1>1 DEF StepInv, DataInv, ReachedKept, Writing, vars
  <2> QED
    BY <2>1, <2>2 DEF StepInv
<1>2. CASE Next
  BY <1>2, RoomStep, GuardStep, TypeStep, MuxStep, DataStep DEF Next, StepInv
<1>3. CASE Fault \/ GitPull
  BY <1>3, CrashStep, WriteFailsStep, ReadFailsStep, EarlyReturnStep, GitStep DEF Fault
<1> QED
  BY <1>1, <1>2, <1>3 DEF FaultyNext

\* What StepInv says holds in every state of a store with crashes, calls whose
\* reads, opens and writes fail, and a file that git replaces and removes.
THEOREM FaultyInvariance == FaultySpec => []StepInv
<1>1. Init => StepInv
  BY InitIInv, InvStepInv
<1> QED
  BY <1>1, StepInvKept, PTL DEF FaultySpec

\* Whatever else happens to the file, a key that reached it is lost only by what
\* "lossy" records: a write that was cut, a file Persist could not read or an
\* unreadable line of it that was overwritten, or git changing the file under a
\* Persist.
THEOREM LossesAreRecorded == FaultySpec => []ReachedKept
BY FaultyInvariance, PTL DEF StepInv, DataInv

\* However damaged the file was, a Persist that writes it alone leaves a readable
\* file with exactly the keys of its workspace.
THEOREM PersistRepairsFile == FaultySpec => PersistRepairs
<1>1. ASSUME StepInv, NEW t \in Thread, PersistWrite(t), out[t] = inode, content = <<>>
      PROVE  /\ \A i \in DOMAIN content' : content'[i] # Torn
             /\ Keys(content') = Held(ws[handle[t]])
  <2>1. pc[t] \in Persisting /\ content' = Marshalled(t)
    BY <1>1 DEF PersistWrite, Persisting
  <2> QED
    BY <1>1, <2>1, MarshalledSound
<1>2. StepInv => [\A t \in Thread :
                     PersistWrite(t) /\ out[t] = inode /\ content = <<>> =>
                       /\ \A i \in DOMAIN content' : content'[i] # Torn
                       /\ Keys(content') = Held(ws[handle[t]])]_vars
  BY <1>1
<1> QED
  BY <1>2, FaultyInvariance, PTL DEF PersistRepairs
=============================================================================
