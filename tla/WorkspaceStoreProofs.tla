-------------------------- MODULE WorkspaceStoreProofs --------------------------
(***************************************************************************)
(* The safety properties of WorkspaceStore, for any number of processes,   *)
(* threads, keys, answers and any initial file.                            *)
(***************************************************************************)
EXTENDS WorkspaceStore, TLAPS

Opening    == {"openLock", "openRead", "openMerge"}
Persisting == {"persistWait", "persistMux", "persistRead", "persistMerge",
               "persistWrite", "persistDone"}
Locked     == {"openRead", "openMerge", "unlock", "persistMux", "persistRead",
               "persistMerge", "persistWrite", "persistDone"}
Muxed      == {"persistRead", "persistMerge", "persistWrite", "persistDone"}

\* Without faults there is one inode, its lock is held by the one thread that is
\* past its acquisition, and a file being written is empty.
LockInv ==
    /\ inode \in {0, 1} /\ used = inode
    /\ inode = 0 => content = <<>>
    /\ \A t \in Thread :
        /\ fd[t] # 0 => inode = 1
        /\ pc[t] \in Locked => fd[t] = 1 /\ flock[1] = t
        /\ pc[t] = "persistWait" => fd[t] = 1
        /\ Writing(t) => out[t] = 1 /\ content = <<>>

\* A workspace belongs to its process, is not referred to while it is being
\* opened, and its mutex is held by the thread that persists it.
MuxInv ==
    /\ \A t \in Thread :
        /\ pc[t] \in Opening => handle[t] = Nobody
        /\ pc[t] \in Persisting => handle[t] # Nobody
        /\ pc[t] \in Muxed => mux[handle[t]] = t
        /\ handle[t] # Nobody =>
              /\ ProcOf[handle[t]] = ProcOf[t]
              /\ handle[t] # t => cached[ProcOf[t]] # Nobody
              /\ pc[handle[t]] \notin Opening
    /\ \A p \in Proc :
        cached[p] # Nobody => ProcOf[cached[p]] = p /\ pc[cached[p]] \notin Opening

WorkspaceOK(w) ==
    /\ \A k \in Key : w.order[k] # NoIndex <=> w.cache[k] # NoObs
    /\ \A k \in Held(w) : w.order[k] < w.count
    /\ \A n \in 0 .. w.count - 1 : \E k \in Held(w) : w.order[k] = n
    /\ \A j, k \in Held(w) : w.order[j] = w.order[k] => j = k

\* While a thread persists, what the file held is split between its workspace
\* and what it has still to read, and then is all in its workspace.
DataInv ==
    /\ \A t \in Thread : WorkspaceOK(ws[t])
    /\ \A t \in Thread :
        /\ pc[t] = "persistMerge" /\ ~lossy =>
              Keys(content) \subseteq Held(ws[handle[t]]) \cup Keys(rest[t])
        /\ Writing(t) /\ ~lossy => reached \subseteq Held(ws[handle[t]])
    /\ ReachedKept

IInv == TypeOK /\ LockInv /\ MuxInv /\ DataInv

\* What is left of LockInv when files and processes come and go (WorkspaceFaults):
\* a lock has one holder, and unless records may have been lost a thread in
\* Persist has the lock, or waits for the lock, of the file at the path.
GuardInv ==
    /\ \A t \in Thread :
        /\ pc[t] \in Locked \cup {"persistWait"} => fd[t] # 0
        /\ pc[t] \in Locked => flock[fd[t]] = t
    /\ ~lossy => \A t \in Thread :
        /\ pc[t] \in Persisting => fd[t] = inode
        /\ Writing(t) => out[t] = inode /\ content = <<>>

\* There is an inode left for the path when it has none.
RoomInv == inode = 0 => used < MaxInode

\* The invariant that the steps of captn keep whatever else happens to the file.
StepInv == TypeOK /\ RoomInv /\ GuardInv /\ MuxInv /\ DataInv

-----------------------------------------------------------------------------
(* Lemmas about workspaces and files.                                      *)

\* SetObservationLocked keeps the type and the numbering of a workspace, and
\* adds the key to those it holds (and loses none).
LEMMA SetObservationSound ==
    ASSUME NEW w \in Workspaces, WorkspaceOK(w), NEW k \in Key, NEW o \in Obs
    PROVE  /\ SetObservationLocked(w, k, o) \in Workspaces
           /\ WorkspaceOK(SetObservationLocked(w, k, o))
           /\ Held(SetObservationLocked(w, k, o)) = Held(w) \cup {k}
<1> DEFINE x == SetObservationLocked(w, k, o)
<1>0. o # NoObs
  BY StoreAssumption
<1>1. CASE w.order[k] = NoIndex
  <2>1. /\ x.cache = [w.cache EXCEPT ![k] = o]
        /\ x.order = [w.order EXCEPT ![k] = w.count]
        /\ x.count = w.count + 1
        /\ x = [cache |-> x.cache, order |-> x.order, count |-> x.count]
    BY <1>1 DEF SetObservationLocked
  <2>2. x \in Workspaces
    BY <2>1 DEF Workspaces
  <2>3. Held(x) = Held(w) \cup {k}
    BY <2>1, <1>0 DEF Held, Workspaces
  <2>4. k \notin Held(w)
    BY <1>1 DEF WorkspaceOK, Held
  <2>5. WorkspaceOK(x)
    <3>1. \A j \in Key : x.order[j] # NoIndex <=> x.cache[j] # NoObs
      BY <2>1, <1>0 DEF WorkspaceOK, Workspaces, NoIndex
    <3>2. \A j \in Held(x) : x.order[j] < x.count
      BY <2>1, <2>3, <2>4 DEF WorkspaceOK, Workspaces, Held, NoIndex
    <3>3. \A n \in 0 .. x.count - 1 : \E j \in Held(x) : x.order[j] = n
      <4> SUFFICES ASSUME NEW n \in 0 .. x.count - 1
                   PROVE  \E j \in Held(x) : x.order[j] = n
        OBVIOUS
      <4>1. CASE n = w.count
        BY <4>1, <2>1, <2>3 DEF Workspaces
      <4>2. CASE n # w.count
        <5>1. n \in 0 .. w.count - 1
          BY <4>2, <2>1 DEF Workspaces
        <5>2. PICK j \in Held(w) : w.order[j] = n
          BY <5>1 DEF WorkspaceOK
        <5> QED
          BY <5>2, <2>1, <2>3, <2>4 DEF Workspaces, Held
      <4> QED
        BY <4>1, <4>2
    <3>4. \A i, j \in Held(x) : x.order[i] = x.order[j] => i = j
      <4> SUFFICES ASSUME NEW i \in Held(x), NEW j \in Held(x), x.order[i] = x.order[j]
                   PROVE  i = j
        OBVIOUS
      <4>1. \A m \in Held(w) : x.order[m] = w.order[m] /\ w.order[m] < w.count
        BY <2>1, <2>4 DEF WorkspaceOK, Workspaces, Held
      <4>2. x.order[k] = w.count
        BY <2>1 DEF Workspaces
      <4> QED
        BY <4>1, <4>2, <2>3 DEF WorkspaceOK, Workspaces
    <3> QED
      BY <3>1, <3>2, <3>3, <3>4 DEF WorkspaceOK
  <2> QED
    BY <2>2, <2>3, <2>5
<1>2. CASE w.order[k] # NoIndex
  <2>1. /\ x.cache = [w.cache EXCEPT ![k] = o]
        /\ x.order = w.order
        /\ x.count = w.count
        /\ x = [cache |-> x.cache, order |-> x.order, count |-> x.count]
    BY <1>2 DEF SetObservationLocked
  <2>2. x \in Workspaces
    BY <2>1 DEF Workspaces
  <2>3. k \in Held(w)
    BY <1>2 DEF WorkspaceOK, Held
  <2>4. Held(x) = Held(w)
    BY <2>1, <2>3, <1>0 DEF Held, Workspaces
  <2>5. WorkspaceOK(x)
    BY <2>1, <2>3, <2>4, <1>0 DEF WorkspaceOK, Workspaces, Held
  <2> QED
    BY <2>2, <2>3, <2>4, <2>5
<1> QED
  BY <1>1, <1>2

\* The same of one round of unmarshalLocked.
LEMMA MergeRecordSound ==
    ASSUME NEW w \in Workspaces, WorkspaceOK(w), NEW r \in Record
    PROVE  /\ MergeRecord(w, r) \in Workspaces
           /\ WorkspaceOK(MergeRecord(w, r))
           /\ Held(MergeRecord(w, r)) = Held(w) \cup {r.key}
<1>1. /\ r.key \in Key
      /\ [author |-> r.author, answer |-> r.answer] \in Obs
  BY DEF Record, Obs
<1>2. CASE w.cache[r.key] # NoObs
  BY <1>1, <1>2 DEF MergeRecord, Held
<1>3. CASE w.cache[r.key] = NoObs
  BY <1>1, <1>3, SetObservationSound DEF MergeRecord
<1> QED
  BY <1>2, <1>3

\* marshalLocked writes each observation of a workspace, and nothing else.
LEMMA MarshalSound ==
    ASSUME NEW w \in Workspaces, WorkspaceOK(w), NEW a \in Author
    PROVE  /\ marshalLocked(w, a) \in Seq(Item)
           /\ Keys(marshalLocked(w, a)) = Held(w)
           /\ \A i \in DOMAIN marshalLocked(w, a) : marshalLocked(w, a)[i] # Torn
<1> DEFINE s == marshalLocked(w, a)
           rec(n) == Stamp(a, KeyAt(w, n), w.cache[KeyAt(w, n)])
<1>1. w.count \in Nat /\ s = [i \in 1 .. w.count |-> rec(i - 1)]
  BY DEF marshalLocked, Workspaces
<1>2. \A n \in 0 .. w.count - 1 : KeyAt(w, n) \in Held(w) /\ w.order[KeyAt(w, n)] = n
  <2> SUFFICES ASSUME NEW n \in 0 .. w.count - 1
               PROVE  KeyAt(w, n) \in Held(w) /\ w.order[KeyAt(w, n)] = n
    OBVIOUS
  <2>1. \E k \in Key : w.order[k] = n
    BY DEF WorkspaceOK, Held
  <2>2. KeyAt(w, n) \in Key /\ w.order[KeyAt(w, n)] = n
    BY <2>1 DEF KeyAt
  <2> QED
    BY <2>2, <1>1 DEF WorkspaceOK, Held, NoIndex
<1>3. \A n \in 0 .. w.count - 1 : rec(n) \in Record /\ rec(n).key = KeyAt(w, n)
  <2> SUFFICES ASSUME NEW n \in 0 .. w.count - 1
               PROVE  rec(n) \in Record /\ rec(n).key = KeyAt(w, n)
    OBVIOUS
  <2>1. w.cache[KeyAt(w, n)] \in Obs /\ KeyAt(w, n) \in Key
    BY <1>2 DEF Held, Workspaces
  <2> QED
    BY <2>1, StoreAssumption DEF Stamp, Record, Obs
<1>4. \A i \in 1 .. w.count : i - 1 \in 0 .. w.count - 1
  BY <1>1
<1>5. s \in Seq(Item) /\ Len(s) = w.count
  BY <1>1, <1>3, <1>4 DEF Item
<1>6. \A i \in 1 .. w.count : s[i] \in Record /\ s[i] # Torn /\ s[i].key = KeyAt(w, i - 1)
  BY <1>1, <1>3, <1>4, StoreAssumption
<1>7. Prefix(s) = 1 .. w.count
  <2>1. \A i \in 1 .. w.count : \A j \in 1 .. i : j \in 1 .. w.count
    BY <1>1
  <2>2. \A i \in 1 .. w.count : \A j \in 1 .. i : s[j] # Torn
    BY <1>6, <2>1
  <2> HIDE DEF s
  <2> QED
    BY <1>5, <2>2 DEF Prefix
<1>8. ASSUME NEW k \in Held(w) PROVE k \in Keys(s)
  <2>1. w.order[k] \in 0 .. w.count - 1
    BY <1>1 DEF WorkspaceOK, Workspaces, Held, NoIndex
  <2>2. KeyAt(w, w.order[k]) = k
    BY <1>2, <2>1 DEF WorkspaceOK
  <2>3. w.order[k] + 1 \in 1 .. w.count /\ (w.order[k] + 1) - 1 = w.order[k]
    BY <1>1, <2>1
  <2> QED
    BY <1>6, <1>7, <2>2, <2>3 DEF Keys
<1>9. ASSUME NEW k \in Keys(s) PROVE k \in Held(w)
  BY <1>2, <1>4, <1>6, <1>7 DEF Keys
<1> QED
  BY <1>1, <1>5, <1>6, <1>8, <1>9

\* The keys of a file are that of its first record and those of the rest.
LEMMA KeysOfTail ==
    ASSUME NEW c \in Seq(Item), c # <<>>, Head(c) # Torn
    PROVE  /\ Head(c) \in Record
           /\ Tail(c) \in Seq(Item)
           /\ Keys(c) \subseteq {Head(c).key} \cup Keys(Tail(c))
<1>1. Head(c) = c[1] /\ Tail(c) \in Seq(Item) /\ Len(c) \in Nat \ {0}
      /\ Len(Tail(c)) = Len(c) - 1
      /\ \A i \in 1 .. Len(c) - 1 : Tail(c)[i] = c[i + 1]
  OBVIOUS
<1>2. Head(c) \in Record
  BY <1>1 DEF Item
<1>3. ASSUME NEW i \in Prefix(c), i # 1 PROVE i - 1 \in Prefix(Tail(c)) /\ Tail(c)[i - 1] = c[i]
  <2>1. i \in 1 .. Len(c) /\ i - 1 \in 1 .. Len(Tail(c)) /\ \A j \in 1 .. i : c[j] # Torn
    BY <1>1, <1>3 DEF Prefix
  <2>2. \A j \in 1 .. i - 1 : Tail(c)[j] = c[j + 1] /\ j + 1 \in 1 .. i
    BY <1>1, <2>1
  <2>3. Tail(c)[i - 1] = c[i]
    BY <1>1, <2>1
  <2> QED
    BY <2>1, <2>2, <2>3 DEF Prefix
<1>4. ASSUME NEW k \in Keys(c) PROVE k = Head(c).key \/ k \in Keys(Tail(c))
  <2>1. PICK i \in Prefix(c) : k = c[i].key
    BY DEF Keys
  <2>2. CASE i = 1
    BY <2>1, <2>2, <1>1
  <2>3. CASE i # 1
    BY <2>1, <2>3, <1>3 DEF Keys
  <2> QED
    BY <2>2, <2>3
<1> QED
  BY <1>1, <1>2, <1>4

\* Only records have keys.
LEMMA KeysAreKeys ==
    ASSUME NEW c \in Seq(Item)
    PROVE  Keys(c) \subseteq Key
BY DEF Keys, Prefix, Item, Record

LEMMA KeysOfEmpty == Keys(<<>>) = {}
BY DEF Keys, Prefix

-----------------------------------------------------------------------------
(* The invariant holds initially and every step keeps it.                  *)

LEMMA EmptyWorkspaceSound ==
    /\ EmptyWorkspace \in Workspaces
    /\ WorkspaceOK(EmptyWorkspace)
    /\ Held(EmptyWorkspace) = {}
BY DEF EmptyWorkspace, Workspaces, WorkspaceOK, Held, NoIndex

LEMMA InitIInv == Init => IInv
<1> SUFFICES ASSUME Init PROVE IInv
  OBVIOUS
<1>1. TypeOK
  <2>1. content \in Seq(Item) /\ MaxInode \in Nat \ {0}
    BY StoreAssumption DEF Init
  <2>2. reached \subseteq Key
    BY <2>1, KeysAreKeys DEF Init
  <2>3. <<>> \in Seq(Item)
    OBVIOUS
  <2>4. 1 \in Inode
    BY <2>1 DEF Inode
  <2> QED
    BY <2>1, <2>2, <2>3, <2>4, EmptyWorkspaceSound DEF Init, TypeOK, Label
<1>2. LockInv
  BY DEF Init, LockInv, Locked, Writing
<1>3. MuxInv
  BY DEF Init, MuxInv, Opening, Persisting, Muxed
<1>4. DataInv
  BY EmptyWorkspaceSound DEF Init, DataInv, Writing, ReachedKept
<1> QED
  BY <1>1, <1>2, <1>3, <1>4 DEF IInv

LEMMA InvStepInv == IInv => StepInv
<1> SUFFICES ASSUME IInv PROVE StepInv
  OBVIOUS
<1>1. RoomInv
  BY StoreAssumption DEF IInv, LockInv, RoomInv
<1>2. \A t \in Thread : pc[t] \in Persisting => fd[t] = inode
  BY DEF IInv, LockInv, Persisting, Locked
<1>3. GuardInv
  BY <1>2 DEF IInv, LockInv, GuardInv, Writing, Locked
<1> QED
  BY <1>1, <1>3 DEF IInv, StepInv

\* Marshalled(t) of a thread that is in Persist.
LEMMA MarshalledSound ==
    ASSUME StepInv, NEW t \in Thread, pc[t] \in Persisting
    PROVE  /\ handle[t] \in Thread
           /\ Marshalled(t) \in Seq(Item)
           /\ Keys(Marshalled(t)) = Held(ws[handle[t]])
           /\ \A i \in DOMAIN Marshalled(t) : Marshalled(t)[i] # Torn
<1>1. handle[t] \in Thread
  BY DEF StepInv, TypeOK, MuxInv
<1>2. ws[handle[t]] \in Workspaces /\ WorkspaceOK(ws[handle[t]])
  BY <1>1 DEF StepInv, TypeOK, DataInv
<1>3. AuthorOf[ProcOf[t]] \in Author
  BY StoreAssumption
<1> QED
  BY <1>1, <1>2, <1>3, MarshalSound DEF Marshalled

\* What a step may do to the workspaces, enough for their numbering and type.
LEMMA WorkspacesStep ==
    ASSUME StepInv, NEW t \in Thread, Step(t) \/ Call(t)
    PROVE  /\ ws' \in [Thread -> Workspaces]
           /\ \A u \in Thread : WorkspaceOK(ws[u])'
           /\ \A u \in Thread : u # t \/ pc[t] # "idle" \/ handle[t] # Nobody
                                  => Held(ws[u]) \subseteq Held(ws'[u])
<1> USE DEF StepInv
<1>0. ws \in [Thread -> Workspaces] /\ \A u \in Thread : WorkspaceOK(ws[u])
  BY DEF TypeOK, DataInv
<1>1. CASE OpenMiss(t)
  BY <1>0, <1>1, EmptyWorkspaceSound DEF OpenMiss
<1>2. CASE OpenMerge(t)
  <2>1. rest[t] \in Seq(Item) /\ rest[t] # <<>> /\ Head(rest[t]) # Torn
    BY <1>2 DEF OpenMerge, TypeOK
  <2>2. Head(rest[t]) \in Record
    BY <2>1, KeysOfTail
  <2> QED
    BY <1>0, <1>2, <2>2, MergeRecordSound DEF OpenMerge
<1>3. CASE PersistMerge(t)
  <2>1. rest[t] \in Seq(Item) /\ rest[t] # <<>> /\ Head(rest[t]) # Torn
    BY <1>3 DEF PersistMerge, TypeOK
  <2>2. Head(rest[t]) \in Record
    BY <2>1, KeysOfTail
  <2> QED
    BY <1>0, <1>3, <2>2, MergeRecordSound DEF PersistMerge
<1>4. CASE \E k \in Key, a \in Answer : SetObservation(t, k, a)
  <2>1. PICK k \in Key, a \in Answer : SetObservation(t, k, a)
    BY <1>4
  <2>2. [author |-> Unstamped, answer |-> a] \in Obs
    BY DEF Obs
  <2>3. handle[t] \in Thread
    BY <2>1 DEF SetObservation, TypeOK
  <2> QED
    BY <1>0, <2>1, <2>2, <2>3, SetObservationSound DEF SetObservation
<1>5. CASE UNCHANGED ws
  BY <1>0, <1>5
<1> QED
  BY <1>1, <1>2, <1>3, <1>4, <1>5
     DEF Step, Call, OpenHit, OpenLock, OpenRead, OpenTorn, OpenPublish, Unlock,
         EndRequest, PersistCall, PersistLock, PersistMux, PersistRead,
         PersistTorn, PersistTruncate, PersistWrite, PersistDone

\* No step takes a key from the workspace of a thread that is in Persist.
LEMMA HeldGrows ==
    ASSUME StepInv, NEW t \in Thread, Step(t) \/ Call(t), NEW u \in Thread, pc[u] \in Persisting
    PROVE  handle[u] \in Thread /\ Held(ws[handle[u]]) \subseteq Held(ws'[handle[u]])
<1>1. TypeOK /\ MuxInv /\ Nobody \notin Thread
  BY StoreAssumption DEF StepInv
<1>2. handle[u] \in Thread
  BY <1>1 DEF TypeOK, MuxInv
<1>3. CASE handle[u] = t /\ pc[t] = "idle" /\ handle[t] = Nobody
  <2>1. cached[ProcOf[t]] # Nobody
    BY <1>1, <1>2, <1>3 DEF MuxInv
  <2>2. ws' = ws
    BY <2>1, <1>3, <1>1
       DEF Step, Call, OpenHit, OpenMiss, OpenLock, OpenRead, OpenMerge, OpenTorn,
           OpenPublish, Unlock, EndRequest, PersistCall, PersistLock, PersistMux,
           PersistRead, PersistMerge, PersistTorn, PersistTruncate, PersistWrite,
           PersistDone, SetObservation
  <2> QED
    BY <1>2, <2>2
<1>4. CASE ~(handle[u] = t /\ pc[t] = "idle" /\ handle[t] = Nobody)
  BY <1>2, <1>4, WorkspacesStep
<1> QED
  BY <1>2, <1>3, <1>4

LEMMA TypeStep ==
    ASSUME StepInv, NEW t \in Thread, Step(t) \/ Call(t)
    PROVE  TypeOK'
<1> USE DEF StepInv
<1>1. TypeOK /\ MaxInode \in Nat \ {0}
  BY StoreAssumption
<1>25. CreateFile => inode' \in Inode /\ used' \in Inode \cup {0}
  BY <1>1 DEF CreateFile, TypeOK, RoomInv, Inode
<1>2. ws' \in [Thread -> Workspaces]
  BY WorkspacesStep
<1>3. \A u \in Thread : rest[u] # <<>> => Tail(rest[u]) \in Seq(Item)
  BY <1>1 DEF TypeOK
<1>4. <<>> \in Seq(Item)
  OBVIOUS
<1>5. handle[t] # Nobody => handle[t] \in Thread
  BY <1>1 DEF TypeOK
<1>6. CASE OpenHit(t)
  BY <1>1, <1>6, <1>2, StoreAssumption DEF OpenHit, TypeOK, disk
<1>7. CASE OpenMiss(t)
  BY <1>1, <1>7, <1>2 DEF OpenMiss, TypeOK, Goto, disk, Label
<1>8. CASE OpenLock(t)
  BY <1>1, <1>8, <1>2, <1>25 DEF OpenLock, TypeOK, Goto, Label
<1>9. CASE OpenRead(t)
  <2>1. handle' \in [Thread -> Thread \cup {Nobody}] /\ mux' \in [Thread -> Thread \cup {Nobody}]
    BY <1>1, <1>9 DEF OpenRead, TypeOK
  <2>2. pc' \in [Thread -> Label] /\ rest' \in [Thread -> Seq(Item)]
    BY <1>1, <1>9 DEF OpenRead, TypeOK, Goto, Label
  <2>3. UNCHANGED <<inode, used, content, flock, cached, fd, out, reached, lossy>>
    BY <1>9 DEF OpenRead, disk
  <2> QED
    BY <1>1, <1>2, <2>1, <2>2, <2>3 DEF TypeOK
<1>10. CASE OpenMerge(t)
  BY <1>1, <1>10, <1>2, <1>3 DEF OpenMerge, TypeOK, disk
<1>11. CASE OpenTorn(t)
  BY <1>1, <1>11, <1>2, <1>4 DEF OpenTorn, TypeOK, Goto, disk, Label
<1>12. CASE OpenPublish(t)
  BY <1>1, <1>12, <1>2 DEF OpenPublish, TypeOK, Goto, disk, Label
<1>13. CASE Unlock(t)
  BY <1>1, <1>13, <1>2 DEF Unlock, TypeOK, Goto, disk, Label
<1>14. CASE \E k \in Key, a \in Answer : SetObservation(t, k, a)
  BY <1>1, <1>14, <1>2 DEF SetObservation, TypeOK, disk
<1>15. CASE EndRequest(t)
  BY <1>1, <1>15, <1>2 DEF EndRequest, TypeOK, disk
<1>16. CASE PersistCall(t)
  BY <1>1, <1>16, <1>2, <1>25 DEF PersistCall, TypeOK, Goto, Label
<1>17. CASE PersistLock(t)
  BY <1>1, <1>17, <1>2 DEF PersistLock, TypeOK, Goto, disk, Label
<1>18. CASE PersistMux(t)
  BY <1>1, <1>18, <1>2 DEF PersistMux, TypeOK, Goto, disk, Label
<1>19. CASE PersistRead(t)
  BY <1>1, <1>19, <1>2, <1>4 DEF PersistRead, TypeOK, Goto, disk, Label
<1>20. CASE PersistMerge(t)
  BY <1>1, <1>20, <1>2, <1>3 DEF PersistMerge, TypeOK, disk
<1>21. CASE PersistTorn(t)
  BY <1>1, <1>21, <1>2, <1>4 DEF PersistTorn, TypeOK, disk
<1>22. CASE PersistTruncate(t)
  BY <1>1, <1>22, <1>2, <1>4, <1>25 DEF PersistTruncate, TypeOK, Goto, Label
<1>23. CASE PersistWrite(t)
  <2>1. Marshalled(t) \in Seq(Item) /\ handle[t] \in Thread
    BY <1>23, MarshalledSound DEF PersistWrite, Persisting
  <2>2. Append(Marshalled(t), Torn) \in Seq(Item)
    BY <2>1 DEF Item
  <2>3. Held(ws[handle[t]]) \subseteq Key
    BY DEF Held
  <2>4. content' \in Seq(Item) /\ reached' \subseteq Key
    BY <1>1, <1>23, <2>1, <2>2, <2>3 DEF PersistWrite, TypeOK
  <2> QED
    BY <1>1, <1>23, <1>2, <2>4 DEF PersistWrite, TypeOK, Goto, Label
<1>24. CASE PersistDone(t)
  BY <1>1, <1>24, <1>2 DEF PersistDone, TypeOK, Goto, disk, Label
<1> QED
  BY <1>6, <1>7, <1>8, <1>9, <1>10, <1>11, <1>12, <1>13, <1>14, <1>15, <1>16,
     <1>17, <1>18, <1>19, <1>20, <1>21, <1>22, <1>23, <1>24 DEF Step, Call

\* The advisory lock is held by one thread, and only its holder writes.
LEMMA LockStep ==
    ASSUME IInv, NEW t \in Thread, Step(t) \/ Call(t)
    PROVE  LockInv'
<1>1. TypeOK /\ LockInv /\ 1 \in Inode /\ Nobody \notin Thread
  BY StoreAssumption DEF IInv, Inode
<1>10. CASE OpenHit(t)
  BY <1>10, <1>1 DEF OpenHit, Goto, CreateFile, disk, TypeOK, LockInv, Locked, Writing
<1>11. CASE OpenMiss(t)
  BY <1>11, <1>1 DEF OpenMiss, Goto, CreateFile, disk, TypeOK, LockInv, Locked, Writing
<1>12. CASE OpenLock(t)
  <2>1. inode' = 1 /\ used' = 1
    BY <1>1, <1>12 DEF OpenLock, CreateFile, LockInv
  <2>2. CASE flock[1] = Nobody
    BY <1>12, <1>1, <2>1, <2>2 DEF OpenLock, Goto, TypeOK, LockInv, Locked, Writing
  <2>3. CASE flock[1] # Nobody
    BY <1>12, <1>1, <2>1, <2>3 DEF OpenLock, Goto, TypeOK, LockInv, Locked, Writing
  <2> QED
    BY <2>2, <2>3
<1>13. CASE OpenRead(t)
  BY <1>13, <1>1 DEF OpenRead, Goto, CreateFile, disk, TypeOK, LockInv, Locked, Writing
<1>14. CASE OpenMerge(t)
  BY <1>14, <1>1 DEF OpenMerge, Goto, CreateFile, disk, TypeOK, LockInv, Locked, Writing
<1>15. CASE OpenTorn(t)
  BY <1>15, <1>1 DEF OpenTorn, Goto, CreateFile, disk, TypeOK, LockInv, Locked, Writing
<1>16. CASE OpenPublish(t)
  BY <1>16, <1>1 DEF OpenPublish, Goto, CreateFile, disk, TypeOK, LockInv, Locked, Writing
<1>17. CASE Unlock(t)
  BY <1>17, <1>1 DEF Unlock, Goto, CreateFile, disk, TypeOK, LockInv, Locked, Writing
<1>18. CASE EndRequest(t)
  BY <1>18, <1>1 DEF EndRequest, Goto, CreateFile, disk, TypeOK, LockInv, Locked, Writing
<1>19. CASE PersistCall(t)
  BY <1>19, <1>1 DEF PersistCall, Goto, CreateFile, disk, TypeOK, LockInv, Locked, Writing
<1>20. CASE PersistLock(t)
  BY <1>20, <1>1 DEF PersistLock, Goto, CreateFile, disk, TypeOK, LockInv, Locked, Writing
<1>21. CASE PersistMux(t)
  BY <1>21, <1>1 DEF PersistMux, Goto, CreateFile, disk, TypeOK, LockInv, Locked, Writing
<1>22. CASE PersistRead(t)
  BY <1>22, <1>1 DEF PersistRead, Goto, CreateFile, disk, TypeOK, LockInv, Locked, Writing
<1>23. CASE PersistMerge(t)
  BY <1>23, <1>1 DEF PersistMerge, Goto, CreateFile, disk, TypeOK, LockInv, Locked, Writing
<1>24. CASE PersistTorn(t)
  BY <1>24, <1>1 DEF PersistTorn, Goto, CreateFile, disk, TypeOK, LockInv, Locked, Writing
<1>25. CASE PersistTruncate(t)
  BY <1>25, <1>1 DEF PersistTruncate, Goto, CreateFile, disk, TypeOK, LockInv, Locked, Writing
<1>26. CASE PersistWrite(t)
  BY <1>26, <1>1 DEF PersistWrite, Goto, CreateFile, disk, TypeOK, LockInv, Locked, Writing
<1>27. CASE PersistDone(t)
  BY <1>27, <1>1 DEF PersistDone, Goto, CreateFile, disk, TypeOK, LockInv, Locked, Writing
<1>28. CASE \E k \in Key, a \in Answer : SetObservation(t, k, a)
  BY <1>28, <1>1 DEF SetObservation, Goto, CreateFile, disk, TypeOK, LockInv, Locked, Writing
<1> QED
  BY <1>10, <1>11, <1>12, <1>13, <1>14, <1>15, <1>16, <1>17, <1>18, <1>19,
     <1>20, <1>21, <1>22, <1>23, <1>24, <1>25, <1>26, <1>27, <1>28
     DEF Step, Call

\* A workspace that is being opened is private, and a mutex has one holder.
LEMMA MuxStep ==
    ASSUME StepInv, NEW t \in Thread, Step(t) \/ Call(t)
    PROVE  MuxInv'
<1>1. TypeOK /\ MuxInv /\ ProcOf \in [Thread -> Proc] /\ Nobody \notin Thread
  BY StoreAssumption DEF StepInv
<1>10. CASE OpenHit(t)
  BY <1>10, <1>1 DEF OpenHit, Goto, CreateFile, disk, TypeOK, MuxInv, Opening, Persisting, Muxed
<1>11. CASE OpenMiss(t)
  BY <1>11, <1>1 DEF OpenMiss, Goto, CreateFile, disk, TypeOK, MuxInv, Opening, Persisting, Muxed
<1>12. CASE OpenLock(t)
  BY <1>12, <1>1 DEF OpenLock, Goto, CreateFile, disk, TypeOK, MuxInv, Opening, Persisting, Muxed
<1>13. CASE OpenRead(t)
  <2>1. CASE inode = 0
    <3>1. /\ handle' = [handle EXCEPT ![t] = t] /\ cached' = cached /\ mux' = mux
          /\ pc' = [pc EXCEPT ![t] = "unlock"]
      BY <1>13, <2>1 DEF OpenRead, Goto
    <3> QED
      BY <1>1, <3>1 DEF TypeOK, MuxInv, Opening, Persisting, Muxed
  <2>2. CASE inode # 0
    <3>1. \A u \in Thread : pc[u] \in Muxed => handle[u] # t /\ u # t
      BY <1>13, <1>1 DEF OpenRead, MuxInv, Opening, Muxed, Persisting
    <3>2. /\ handle' = handle /\ cached' = cached
          /\ pc' = [pc EXCEPT ![t] = "openMerge"] /\ pc[t] = "openRead"
          /\ mux' = [mux EXCEPT ![t] = t]
      BY <1>13, <2>2 DEF OpenRead, Goto
    <3> QED
      BY <1>1, <3>1, <3>2 DEF TypeOK, MuxInv, Opening, Persisting, Muxed
  <2> QED
    BY <2>1, <2>2
<1>14. CASE OpenMerge(t)
  BY <1>14, <1>1 DEF OpenMerge, Goto, CreateFile, disk, TypeOK, MuxInv, Opening, Persisting, Muxed
<1>15. CASE OpenTorn(t)
  BY <1>15, <1>1 DEF OpenTorn, Goto, CreateFile, disk, TypeOK, MuxInv, Opening, Persisting, Muxed
<1>16. CASE OpenPublish(t)
  BY <1>16, <1>1 DEF OpenPublish, Goto, CreateFile, disk, TypeOK, MuxInv, Opening, Persisting, Muxed
<1>17. CASE Unlock(t)
  BY <1>17, <1>1 DEF Unlock, Goto, CreateFile, disk, TypeOK, MuxInv, Opening, Persisting, Muxed
<1>18. CASE EndRequest(t)
  BY <1>18, <1>1 DEF EndRequest, Goto, CreateFile, disk, TypeOK, MuxInv, Opening, Persisting, Muxed
<1>19. CASE PersistCall(t)
  BY <1>19, <1>1 DEF PersistCall, Goto, CreateFile, disk, TypeOK, MuxInv, Opening, Persisting, Muxed
<1>20. CASE PersistLock(t)
  BY <1>20, <1>1 DEF PersistLock, Goto, CreateFile, disk, TypeOK, MuxInv, Opening, Persisting, Muxed
<1>21. CASE PersistMux(t)
  BY <1>21, <1>1 DEF PersistMux, Goto, CreateFile, disk, TypeOK, MuxInv, Opening, Persisting, Muxed
<1>22. CASE PersistRead(t)
  BY <1>22, <1>1 DEF PersistRead, Goto, CreateFile, disk, TypeOK, MuxInv, Opening, Persisting, Muxed
<1>23. CASE PersistMerge(t)
  BY <1>23, <1>1 DEF PersistMerge, Goto, CreateFile, disk, TypeOK, MuxInv, Opening, Persisting, Muxed
<1>24. CASE PersistTorn(t)
  BY <1>24, <1>1 DEF PersistTorn, Goto, CreateFile, disk, TypeOK, MuxInv, Opening, Persisting, Muxed
<1>25. CASE PersistTruncate(t)
  BY <1>25, <1>1 DEF PersistTruncate, Goto, CreateFile, disk, TypeOK, MuxInv, Opening, Persisting, Muxed
<1>26. CASE PersistWrite(t)
  BY <1>26, <1>1 DEF PersistWrite, Goto, CreateFile, disk, TypeOK, MuxInv, Opening, Persisting, Muxed
<1>27. CASE PersistDone(t)
  BY <1>27, <1>1 DEF PersistDone, Goto, CreateFile, disk, TypeOK, MuxInv, Opening, Persisting, Muxed
<1>28. CASE \E k \in Key, a \in Answer : SetObservation(t, k, a)
  BY <1>28, <1>1 DEF SetObservation, Goto, CreateFile, disk, TypeOK, MuxInv, Opening, Persisting, Muxed
<1> QED
  BY <1>10, <1>11, <1>12, <1>13, <1>14, <1>15, <1>16, <1>17, <1>18, <1>19,
     <1>20, <1>21, <1>22, <1>23, <1>24, <1>25, <1>26, <1>27, <1>28
     DEF Step, Call

\* What the file held is not lost between being read and being written.
LEMMA DataStep ==
    ASSUME StepInv, NEW t \in Thread, Step(t) \/ Call(t)
    PROVE  DataInv'
<1>1. TypeOK /\ GuardInv /\ MuxInv /\ DataInv /\ Nobody \notin Thread
  BY StoreAssumption DEF StepInv
<1>2. \A u \in Thread : WorkspaceOK(ws[u])'
  BY WorkspacesStep
<1> SUFFICES ASSUME ~lossy' PROVE DataInv'
  BY <1>2, Zenon DEF DataInv, ReachedKept
<1>6. ~lossy
  BY DEF Step, Call, OpenHit, OpenMiss, OpenLock, OpenRead, OpenMerge, OpenTorn,
         OpenPublish, Unlock, EndRequest, PersistCall, PersistLock, PersistMux,
         PersistRead, PersistMerge, PersistTorn, PersistTruncate, PersistWrite,
         PersistDone, SetObservation
<1>3. \A u, v \in Thread : pc[u] \in Locked \cap Persisting /\ pc[v] \in Locked \cap Persisting
                             => u = v
  BY <1>1, <1>6 DEF GuardInv
<1>4. \A u \in Thread : pc[u] \in Persisting =>
            handle[u] \in Thread /\ Held(ws[handle[u]]) \subseteq Held(ws'[handle[u]])
  BY HeldGrows
\* Steps that leave the file alone, and give no thread something to read.
<1>5. ASSUME UNCHANGED <<content, reached, lossy>>,
             \A u \in Thread : pc'[u] \in {"persistMerge", "persistWrite"} =>
                 pc'[u] = pc[u] /\ handle'[u] = handle[u] /\ rest'[u] = rest[u],
             \A u \in Thread : Writing(u) => Writing(u)'
      PROVE  DataInv'
  <2>1. \A u \in Thread : pc'[u] = "persistMerge" /\ ~lossy' =>
            Keys(content') \subseteq Held(ws'[handle'[u]]) \cup Keys(rest'[u])
    BY <1>1, <1>4, <1>5 DEF DataInv, Persisting
  <2>2. \A u \in Thread : pc'[u] = "persistWrite" /\ ~lossy' =>
            reached' \subseteq Held(ws'[handle'[u]])
    BY <1>1, <1>4, <1>5 DEF DataInv, Persisting, Writing
  <2>3. ReachedKept'
    BY <1>1, <1>5 DEF DataInv, ReachedKept, Writing
  <2> QED
    BY <1>2, <2>1, <2>2, <2>3 DEF DataInv, Writing
<1>10. CASE PersistRead(t)
  <2>1. inode # 0 /\ rest'[t] = content
    BY <1>1, <1>6, <1>10 DEF PersistRead, GuardInv, Locked, Persisting, TypeOK
  <2>2. \A u \in Thread \ {t} : pc'[u] = pc[u] /\ pc[u] \notin {"persistMerge", "persistWrite"}
    BY <1>1, <1>3, <1>10 DEF PersistRead, Goto, TypeOK, Locked, Persisting
  <2>3. UNCHANGED <<content, reached, lossy, handle, ws>> /\ pc'[t] = "persistMerge"
    BY <1>1, <1>10 DEF PersistRead, Goto, disk, TypeOK
  <2>4. ReachedKept'
    BY <1>1, <1>10, <2>2, <2>3 DEF DataInv, ReachedKept, Writing, PersistRead
  <2> QED
    BY <1>2, <2>1, <2>2, <2>3, <2>4 DEF DataInv, Writing
<1>11. CASE PersistMerge(t)
  <2>1. /\ rest[t] \in Seq(Item) /\ rest[t] # <<>> /\ Head(rest[t]) # Torn
        /\ handle[t] \in Thread /\ pc[t] = "persistMerge"
    BY <1>1, <1>4, <1>11 DEF PersistMerge, TypeOK, Persisting
  <2>2. Head(rest[t]) \in Record /\ Keys(rest[t]) \subseteq {Head(rest[t]).key} \cup Keys(Tail(rest[t]))
    BY <2>1, KeysOfTail
  <2>3. /\ ws'[handle[t]] = MergeRecord(ws[handle[t]], Head(rest[t]))
        /\ rest'[t] = Tail(rest[t])
        /\ UNCHANGED <<content, reached, lossy, handle, pc>>
    BY <1>1, <1>11, <2>1 DEF PersistMerge, TypeOK, disk
  <2>4. Held(ws'[handle[t]]) = Held(ws[handle[t]]) \cup {Head(rest[t]).key}
    BY <1>1, <2>1, <2>2, <2>3, MergeRecordSound DEF TypeOK, DataInv
  <2>5. \A u \in Thread \ {t} : pc[u] \notin {"persistMerge", "persistWrite"}
    BY <1>3, <2>1 DEF Locked, Persisting
  <2>6. ReachedKept'
    BY <1>1, <2>3 DEF DataInv, ReachedKept, Writing
  <2>7. ~lossy => Keys(content) \subseteq Held(ws[handle[t]]) \cup Keys(rest[t])
    BY <1>1, <2>1 DEF DataInv
  <2>8. ~lossy' => Keys(content') \subseteq Held(ws'[handle'[t]]) \cup Keys(rest'[t])
    BY <2>2, <2>3, <2>4, <2>7
  <2> QED
    BY <1>2, <2>1, <2>3, <2>5, <2>6, <2>8 DEF DataInv, Writing
<1>12. CASE PersistTorn(t)
  BY <1>1, <1>2, <1>12 DEF PersistTorn, DataInv, ReachedKept
<1>13. CASE PersistTruncate(t)
  <2>1. pc[t] = "persistMerge" /\ rest[t] = <<>> /\ handle[t] \in Thread
    BY <1>1, <1>4, <1>13 DEF PersistTruncate, Persisting
  <2>2. \A u \in Thread \ {t} : pc[u] \notin {"persistMerge", "persistWrite"}
    BY <1>3, <2>1 DEF Locked, Persisting
  <2>3. /\ pc' = [pc EXCEPT ![t] = "persistWrite"]
        /\ UNCHANGED <<reached, lossy, handle, ws>>
    BY <1>13 DEF PersistTruncate, Goto
  <2>4. ~lossy => reached \subseteq Keys(content)
    BY <1>1, <2>1, <2>2 DEF DataInv, ReachedKept, Writing
  <2>5. ~lossy => Keys(content) \subseteq Held(ws[handle[t]])
    BY <1>1, <2>1, KeysOfEmpty DEF DataInv
  <2>6. Writing(t)'
    BY <1>1, <2>3 DEF Writing, TypeOK
  <2>7. ReachedKept'
    BY <2>6 DEF ReachedKept
  <2>8. \A u \in Thread \ {t} : pc'[u] = pc[u]
    BY <1>1, <2>3 DEF TypeOK
  <2> QED
    BY <1>2, <2>2, <2>3, <2>4, <2>5, <2>6, <2>7, <2>8 DEF DataInv, Writing
<1>14. CASE PersistWrite(t)
  <2>1. pc[t] = "persistWrite" /\ out[t] = inode /\ content = <<>>
    BY <1>1, <1>6, <1>14 DEF PersistWrite, GuardInv, Writing
  <2>2. content' = Marshalled(t) /\ reached' = reached \cup Held(ws[handle[t]])
    BY <1>14, <2>1 DEF PersistWrite
  <2>3. Keys(content') = Held(ws[handle[t]])
    BY <2>1, <2>2, MarshalledSound DEF Persisting
  <2>4. \A u \in Thread : pc'[u] \notin {"persistMerge", "persistWrite"}
    BY <1>1, <1>3, <1>14, <2>1 DEF PersistWrite, Goto, TypeOK, Locked, Persisting
  <2>5. lossy' = lossy /\ (~lossy => reached \subseteq Held(ws[handle[t]]))
    BY <1>1, <1>14, <2>1 DEF PersistWrite, DataInv, Writing
  <2>6. ReachedKept'
    BY <2>2, <2>3, <2>5 DEF ReachedKept
  <2> QED
    BY <1>2, <2>4, <2>6 DEF DataInv, Writing
<1>15. CASE OpenHit(t)
  BY <1>1, <1>5, <1>15 DEF OpenHit, disk, TypeOK, MuxInv, Writing, Persisting
<1>16. CASE OpenMiss(t)
  BY <1>1, <1>5, <1>16 DEF OpenMiss, Goto, disk, TypeOK, Writing
<1>17. CASE OpenLock(t)
  BY <1>1, <1>5, <1>17 DEF OpenLock, Goto, TypeOK, Writing
<1>18. CASE OpenRead(t)
  BY <1>1, <1>5, <1>18 DEF OpenRead, Goto, disk, TypeOK, Writing
<1>19. CASE OpenMerge(t)
  BY <1>1, <1>5, <1>19 DEF OpenMerge, disk, TypeOK, Writing
<1>20. CASE OpenTorn(t)
  BY <1>1, <1>5, <1>20 DEF OpenTorn, Goto, disk, TypeOK, Writing
<1>21. CASE OpenPublish(t)
  BY <1>1, <1>5, <1>21 DEF OpenPublish, Goto, disk, TypeOK, Writing
<1>22. CASE Unlock(t)
  BY <1>1, <1>5, <1>22 DEF Unlock, Goto, disk, TypeOK, Writing
<1>23. CASE EndRequest(t)
  BY <1>1, <1>5, <1>23 DEF EndRequest, disk, TypeOK, Writing
<1>24. CASE PersistCall(t)
  BY <1>1, <1>5, <1>24 DEF PersistCall, Goto, TypeOK, Writing
<1>25. CASE PersistLock(t)
  BY <1>1, <1>5, <1>25 DEF PersistLock, Goto, disk, TypeOK, Writing
<1>26. CASE PersistMux(t)
  BY <1>1, <1>5, <1>26 DEF PersistMux, Goto, disk, TypeOK, Writing
<1>27. CASE PersistDone(t)
  BY <1>1, <1>5, <1>27 DEF PersistDone, Goto, disk, TypeOK, Writing
<1>28. CASE \E k \in Key, a \in Answer : SetObservation(t, k, a)
  BY <1>1, <1>5, <1>28 DEF SetObservation, disk, TypeOK, Writing
<1> QED
  BY <1>10, <1>11, <1>12, <1>13, <1>14, <1>15, <1>16, <1>17, <1>18, <1>19, <1>20,
     <1>21, <1>22, <1>23, <1>24, <1>25, <1>26, <1>27, <1>28 DEF Step, Call

THEOREM Invariance == Spec => []IInv
<1>1. IInv /\ [Next]_vars => IInv'
  <2> SUFFICES ASSUME IInv, [Next]_vars PROVE IInv'
    OBVIOUS
  <2>1. CASE UNCHANGED vars
    <3>1. TypeOK' /\ LockInv' /\ MuxInv'
      BY <2>1 DEF IInv, TypeOK, LockInv, MuxInv, Writing, vars
    <3>2. DataInv'
      BY <2>1 DEF IInv, DataInv, ReachedKept, Writing, vars
    <3> QED
      BY <3>1, <3>2 DEF IInv
  <2>2. CASE Next
    BY <2>2, InvStepInv, TypeStep, LockStep, MuxStep, DataStep DEF Next, IInv
  <2> QED
    BY <2>1, <2>2
<1> QED
  BY <1>1, InitIInv, PTL DEF Spec

\* Every variable keeps its type.
THEOREM TypeCorrect == Spec => []TypeOK
BY Invariance, PTL DEF IInv

\* Without faults, no thread of any process reads captn.cog while another has it
\* truncated.
THEOREM NoTornReads == Spec => []ReadsWholeFile
<1>1. IInv => ReadsWholeFile
  BY DEF IInv, LockInv, ReadsWholeFile, Writing, Locked
<1> QED
  BY <1>1, Invariance, PTL

\* Without faults, a key that has been in the file is never lost from it, however
\* many workspaces of however many processes persist.
THEOREM NothingLost == Spec => []ReachedKept
BY Invariance, PTL DEF IInv, DataInv

\* The write indices of every workspace stay a numbering of its keys.
THEOREM NumberingSound == Spec => []OrderSound
<1>1. IInv => OrderSound
  BY DEF IInv, DataInv, WorkspaceOK, OrderSound
<1> QED
  BY <1>1, Invariance, PTL
=============================================================================
