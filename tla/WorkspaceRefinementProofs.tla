----------------------- MODULE WorkspaceRefinementProofs -----------------------
(***************************************************************************)
(* WorkspaceStore implements ObservationLog, for any number of processes,  *)
(* threads, keys and answers and any initial file, readable or not.        *)
(***************************************************************************)
EXTENDS WorkspaceRefinement, WorkspaceStoreProofs, WellFoundedInduction

\* What a merge has still to read holds, for every key the workspace does not
\* hold yet, the same first record as the file.
Unread(w, r) == \A k \in Key \ Held(w) : View(r)[k] = View(content)[k]

MergeInv ==
    \A t \in Thread :
        /\ pc[t] = "openMerge" => Unread(ws[t], rest[t])
        /\ pc[t] = "persistMerge" => Unread(ws[handle[t]], rest[t])

RInv == IInv /\ MergeInv

-----------------------------------------------------------------------------
(* The least element of a set of naturals, from the library's theorem on   *)
(* well-founded relations.                                                 *)

LEMMA NatOrder ==
    \E R : IsWellFoundedOn(R, Nat) /\ \A x, y \in Nat : x < y => <<x, y>> \in R
<1>1. \A x, y \in Nat : x < y => <<x, y>> \in OpToRel(<, Nat)
  <2> TAKE x, y \in Nat
  <2> HAVE x < y
  <2>1. <<x, y>>[1] < <<x, y>>[2] /\ <<x, y>> \in Nat \X Nat
    OBVIOUS
  <2> QED
    BY <2>1, Zenon DEF OpToRel
<1> QED
  BY <1>1, NatLessThanWellFounded, Zenon

LEMMA LeastElement ==
    ASSUME NEW S \in SUBSET Nat, S # {}
    PROVE  \E x \in S : \A y \in S : x <= y
<1>1. PICK R : IsWellFoundedOn(R, Nat) /\ \A x, y \in Nat : x < y => <<x, y>> \in R
  BY NatOrder
<1>2. IsWellFoundedOn(R, Nat)
  BY <1>1, Zenon
<1>3. S \subseteq Nat
  OBVIOUS
<1>4. \E x \in S : \A y \in S : ~(<<y, x>> \in R)
  BY <1>2, <1>3, WFMin, Zenon
<1>5. \A x, y \in Nat : x <= y \/ y < x
  OBVIOUS
<1> QED
  BY <1>1, <1>3, <1>4, <1>5, Zenon

-----------------------------------------------------------------------------
(* The first record of each key in a file.                                 *)

\* The record at n is the first of key k in file c.
First(c, k, n) ==
    n \in Prefix(c) /\ c[n].key = k /\ \A m \in 1 .. n - 1 : c[m].key # k

Answered(r) == [author |-> r.author, answer |-> r.answer]

\* A key of a file has a first record, and that is what the file shows of it.
LEMMA ViewFirst ==
    ASSUME NEW c \in Seq(Item), NEW k \in Key
    PROVE  /\ k \in Keys(c) => \E n \in Prefix(c) : First(c, k, n)
           /\ \A n \in Prefix(c) : First(c, k, n) => View(c)[k] = Answered(c[n])
           /\ k \notin Keys(c) => View(c)[k] = NoObs
<1>1. ASSUME k \in Keys(c) PROVE \E n \in Prefix(c) : First(c, k, n)
  <2> DEFINE S == {n \in Prefix(c) : c[n].key = k}
  <2>1. S \in SUBSET Nat /\ S # {}
    BY <1>1 DEF Keys, Prefix
  <2> HIDE DEF S
  <2>2. PICK n \in S : \A m \in S : n <= m
    BY <2>1, LeastElement
  <2>3. n \in Prefix(c) /\ c[n].key = k /\ n \in 1 .. Len(c) /\ \A j \in 1 .. n : c[j] # Torn
    BY DEF S, Prefix
  <2>4. ASSUME NEW m \in 1 .. n - 1 PROVE c[m].key # k
    <3>1. m \in Prefix(c) /\ m \in Nat /\ ~(n <= m)
      BY <2>3 DEF Prefix
    <3> QED
      BY <2>2, <3>1 DEF S
  <2> QED
    BY <2>3, <2>4 DEF First
<1>2. ASSUME NEW n \in Prefix(c), First(c, k, n) PROVE View(c)[k] = Answered(c[n])
  <2>1. k \in Keys(c)
    BY <1>2 DEF First, Keys
  <2>2. ASSUME NEW m \in Prefix(c), First(c, k, m) PROVE m = n
    <3>1. m \in Nat \ {0} /\ n \in Nat \ {0} /\ ~(m \in 1 .. n - 1) /\ ~(n \in 1 .. m - 1)
      BY <1>2, <2>2 DEF First, Prefix
    <3> QED
      BY <3>1
  <2>3. (CHOOSE m \in Prefix(c) : First(c, k, m)) = n
    BY <1>2, <2>2
  <2>4. (CHOOSE m \in Prefix(c) : c[m].key = k /\ \A j \in 1 .. m - 1 : c[j].key # k) = n
    BY <1>2, <2>2 DEF First
  <2> QED
    BY <2>1, <2>4 DEF View, Answered
<1>3. k \notin Keys(c) => View(c)[k] = NoObs
  BY DEF View
<1> QED
  BY <1>1, <1>2, <1>3

LEMMA ViewType ==
    ASSUME NEW c \in Seq(Item)
    PROVE  /\ View(c) = [k \in Key |-> View(c)[k]]
           /\ \A k \in Key : View(c)[k] \in Obs \cup {NoObs}
           /\ \A k \in Key : View(c)[k] # NoObs <=> k \in Keys(c)
<1>1. View(c) = [k \in Key |-> View(c)[k]]
  BY DEF View
<1>2. ASSUME NEW k \in Key
      PROVE  /\ View(c)[k] \in Obs \cup {NoObs}
             /\ View(c)[k] # NoObs <=> k \in Keys(c)
  <2>1. CASE k \in Keys(c)
    <3>1. PICK n \in Prefix(c) : First(c, k, n)
      BY <2>1, ViewFirst
    <3>2. c[n] \in Record
      BY DEF Prefix, Item
    <3>3. Answered(c[n]) \in Obs
      BY <3>2 DEF Record, Obs, Answered
    <3> QED
      BY <2>1, <3>1, <3>3, ViewFirst, StoreAssumption
  <2>2. CASE k \notin Keys(c)
    BY <2>2, ViewFirst
  <2> QED
    BY <2>1, <2>2
<1> QED
  BY <1>1, <1>2

\* A file that starts with an unreadable item shows nothing.
LEMMA ViewOfTorn ==
    ASSUME NEW c \in Seq(Item), c # <<>>, Head(c) = Torn, NEW k \in Key
    PROVE  View(c)[k] = NoObs
<1>1. c[1] = Torn /\ Len(c) \in Nat
  OBVIOUS
<1>2. Prefix(c) = {}
  BY <1>1 DEF Prefix
<1> QED
  BY <1>2, ViewFirst DEF Keys

LEMMA ViewOfEmpty ==
    ASSUME NEW k \in Key
    PROVE  View(<<>>)[k] = NoObs
BY KeysOfEmpty DEF View

\* A file shows its first record, and of the other keys what its tail shows.
LEMMA ViewOfHead ==
    ASSUME NEW c \in Seq(Item), c # <<>>, Head(c) # Torn
    PROVE  /\ View(c)[Head(c).key] = Answered(Head(c))
           /\ \A k \in Key \ {Head(c).key} : View(c)[k] = View(Tail(c))[k]
<1>1. Head(c) = c[1] /\ Tail(c) \in Seq(Item) /\ Len(c) \in Nat \ {0}
      /\ Len(Tail(c)) = Len(c) - 1
      /\ \A i \in 1 .. Len(c) - 1 : Tail(c)[i] = c[i + 1]
  OBVIOUS
<1>2. Head(c) \in Record /\ Head(c).key \in Key
  BY KeysOfTail DEF Record
<1>3. 1 \in Prefix(c)
  BY <1>1 DEF Prefix
<1>4. First(c, Head(c).key, 1)
  BY <1>1, <1>3 DEF First
<1>5. ASSUME NEW k \in Key \ {Head(c).key}, NEW n \in Prefix(Tail(c)), First(Tail(c), k, n)
      PROVE  n + 1 \in Prefix(c) /\ First(c, k, n + 1) /\ Tail(c)[n] = c[n + 1]
  <2>1. n \in 1 .. Len(c) - 1 /\ \A j \in 1 .. n : Tail(c)[j] # Torn
    BY <1>1 DEF Prefix
  <2>2. ASSUME NEW j \in 1 .. n + 1 PROVE c[j] # Torn
    <3>1. j = 1 \/ (j - 1 \in 1 .. n /\ Tail(c)[j - 1] = c[j])
      BY <1>1, <2>1
    <3> QED
      BY <1>1, <2>1, <3>1
  <2>3. n + 1 \in Prefix(c)
    BY <1>1, <2>1, <2>2 DEF Prefix
  <2>4. ASSUME NEW m \in 1 .. (n + 1) - 1 PROVE c[m].key # k
    <3>1. m = 1 \/ (m - 1 \in 1 .. n - 1 /\ Tail(c)[m - 1] = c[m])
      BY <1>1, <2>1
    <3> QED
      BY <1>1, <1>5, <3>1 DEF First
  <2>5. Tail(c)[n] = c[n + 1]
    BY <1>1, <2>1
  <2>6. c[n + 1].key = k
    BY <1>5, <2>5 DEF First
  <2> QED
    BY <2>3, <2>4, <2>5, <2>6 DEF First
<1>6. ASSUME NEW k \in Key \ {Head(c).key} PROVE View(c)[k] = View(Tail(c))[k]
  <2>1. CASE k \in Keys(Tail(c))
    <3>1. PICK n \in Prefix(Tail(c)) : First(Tail(c), k, n)
      BY <1>1, <2>1, ViewFirst
    <3>2. View(Tail(c))[k] = Answered(Tail(c)[n])
      BY <1>1, <3>1, ViewFirst
    <3>3. View(c)[k] = Answered(c[n + 1])
      BY <1>5, <3>1, ViewFirst
    <3> QED
      BY <1>5, <3>1, <3>2, <3>3
  <2>2. CASE k \notin Keys(Tail(c))
    <3>1. k \notin Keys(c)
      BY <2>2, KeysOfTail
    <3> QED
      BY <1>1, <2>2, <3>1, ViewFirst
  <2> QED
    BY <2>1, <2>2
<1> QED
  BY <1>2, <1>3, <1>4, <1>6, ViewFirst

\* What is written of a workspace shows each of its observations as stamped.
LEMMA ViewOfMarshalled ==
    ASSUME NEW w \in Workspaces, WorkspaceOK(w), NEW a \in Author, NEW k \in Key
    PROVE  View(marshalLocked(w, a))[k] =
               IF w.cache[k] = NoObs THEN NoObs ELSE Answered(Stamp(a, k, w.cache[k]))
<1> DEFINE c == marshalLocked(w, a)
<1>1. c \in Seq(Item) /\ Keys(c) = Held(w)
  BY MarshalSound
<1>2. CASE w.cache[k] = NoObs
  BY <1>1, <1>2, ViewFirst DEF Held
<1>3. CASE w.cache[k] # NoObs
  <2>1. PICK n \in Prefix(c) : First(c, k, n)
    BY <1>1, <1>3, ViewFirst DEF Held
  <2>2. n \in 1 .. w.count
    BY DEF Prefix, marshalLocked, Workspaces
  <2>3. c[n] = Stamp(a, KeyAt(w, n - 1), w.cache[KeyAt(w, n - 1)])
    BY <2>2 DEF marshalLocked
  <2>4. KeyAt(w, n - 1) = k
    BY <2>1, <2>3 DEF First, Stamp
  <2> QED
    BY <1>1, <1>3, <2>1, <2>3, <2>4, ViewFirst
<1> QED
  BY <1>2, <1>3

-----------------------------------------------------------------------------
(* What a merge has still to read.                                         *)

LEMMA LockedAlone ==
    ASSUME IInv
    PROVE  \A t, u \in Thread : pc[t] \in Locked /\ pc[u] \in Locked => t = u
BY DEF IInv, LockInv

\* One round of unmarshalLocked leaves the rest of the merge as it should be.
LEMMA UnreadRound ==
    ASSUME NEW w \in Workspaces, WorkspaceOK(w),
           NEW r \in Seq(Item), r # <<>>, Head(r) # Torn, Unread(w, r)
    PROVE  Unread(MergeRecord(w, Head(r)), Tail(r))
<1>1. Head(r) \in Record
  BY KeysOfTail
<1>2. Held(MergeRecord(w, Head(r))) = Held(w) \cup {Head(r).key}
  BY <1>1, MergeRecordSound
<1> QED
  BY <1>2, ViewOfHead DEF Unread

LEMMA MergeStep ==
    ASSUME RInv, NEW t \in Thread, Step(t) \/ Call(t)
    PROVE  MergeInv'
<1>1. TypeOK /\ LockInv /\ MuxInv /\ DataInv /\ MergeInv /\ Nobody \notin Thread
  BY StoreAssumption DEF IInv, RInv
<1>2. \A u, v \in Thread : pc[u] \in Locked /\ pc[v] \in Locked => u = v
  BY LockedAlone DEF RInv
<1>3. \A u \in Thread : pc[u] \in Persisting =>
          handle[u] \in Thread /\ Held(ws[handle[u]]) \subseteq Held(ws'[handle[u]])
  BY HeldGrows, InvStepInv DEF RInv
<1>4. \A u \in Thread : pc[u] \in Opening => Held(ws[u]) \subseteq Held(ws'[u])
  BY WorkspacesStep, InvStepInv DEF RInv, Opening
\* Steps of no merge.
<1>5. ASSUME content' = content,
             \A u \in Thread : pc'[u] \in {"openMerge", "persistMerge"} =>
                 pc'[u] = pc[u] /\ handle'[u] = handle[u] /\ rest'[u] = rest[u]
      PROVE  MergeInv'
  <2>1. \A u \in Thread : pc'[u] = "openMerge" =>
            \A k \in Key \ Held(ws'[u]) : View(rest'[u])[k] = View(content')[k]
    BY <1>1, <1>4, <1>5 DEF MergeInv, Unread, Opening
  <2>2. \A u \in Thread : pc'[u] = "persistMerge" =>
            \A k \in Key \ Held(ws'[handle'[u]]) : View(rest'[u])[k] = View(content')[k]
    BY <1>1, <1>3, <1>5 DEF MergeInv, Unread, Persisting
  <2> QED
    BY <2>1, <2>2 DEF MergeInv, Unread
<1>6. ASSUME NEW l \in {"openRead", "openMerge", "persistRead", "persistMerge", "persistWrite"},
             pc[t] = l
      PROVE  \A u \in Thread \ {t} : pc[u] \notin {"openMerge", "persistMerge"}
  BY <1>2, <1>6 DEF Locked
<1>10. CASE OpenRead(t)
  <2>1. \A u \in Thread \ {t} : pc'[u] \notin {"openMerge", "persistMerge"}
    BY <1>1, <1>6, <1>10 DEF OpenRead, Goto, TypeOK
  <2>2. content' = content /\ (pc'[t] = "openMerge" => rest'[t] = content)
        /\ pc'[t] # "persistMerge"
    BY <1>1, <1>10 DEF OpenRead, Goto, disk, TypeOK
  <2> QED
    BY <2>1, <2>2 DEF MergeInv, Unread
<1>11. CASE PersistRead(t)
  <2>1. \A u \in Thread \ {t} : pc'[u] \notin {"openMerge", "persistMerge"}
    BY <1>1, <1>6, <1>11 DEF PersistRead, Goto, TypeOK
  <2>2. inode = 1
    BY <1>1, <1>11 DEF PersistRead, LockInv, Locked
  <2>3. content' = content /\ rest'[t] = content /\ pc'[t] = "persistMerge"
    BY <1>1, <1>11, <2>2 DEF PersistRead, Goto, disk, TypeOK
  <2> QED
    BY <2>1, <2>3 DEF MergeInv, Unread
<1>12. CASE OpenMerge(t)
  <2>1. /\ pc[t] = "openMerge" /\ rest[t] \in Seq(Item) /\ rest[t] # <<>> /\ Head(rest[t]) # Torn
        /\ ws[t] \in Workspaces /\ WorkspaceOK(ws[t])
        /\ content' = content /\ pc' = pc
        /\ ws'[t] = MergeRecord(ws[t], Head(rest[t])) /\ rest'[t] = Tail(rest[t])
    BY <1>1, <1>12 DEF OpenMerge, TypeOK, DataInv, disk
  <2>2. Unread(MergeRecord(ws[t], Head(rest[t])), Tail(rest[t]))
    BY <1>1, <2>1, UnreadRound DEF MergeInv
  <2> QED
    BY <1>6, <2>1, <2>2 DEF MergeInv, Unread
<1>13. CASE PersistMerge(t)
  <2>1. /\ pc[t] = "persistMerge" /\ rest[t] \in Seq(Item) /\ rest[t] # <<>> /\ Head(rest[t]) # Torn
        /\ handle[t] \in Thread
    BY <1>1, <1>3, <1>13 DEF PersistMerge, TypeOK, Persisting
  <2>2. /\ ws[handle[t]] \in Workspaces /\ WorkspaceOK(ws[handle[t]])
        /\ content' = content /\ pc' = pc /\ handle' = handle
        /\ ws'[handle[t]] = MergeRecord(ws[handle[t]], Head(rest[t]))
        /\ rest'[t] = Tail(rest[t])
    BY <1>1, <1>13, <2>1 DEF PersistMerge, TypeOK, DataInv, disk
  <2>3. Unread(MergeRecord(ws[handle[t]], Head(rest[t])), Tail(rest[t]))
    BY <1>1, <2>1, <2>2, UnreadRound DEF MergeInv
  <2> QED
    BY <1>6, <2>1, <2>2, <2>3 DEF MergeInv, Unread
<1>14. CASE PersistTorn(t)
  <2>1. /\ pc[t] = "persistMerge" /\ rest[t] \in Seq(Item) /\ rest[t] # <<>> /\ Head(rest[t]) = Torn
        /\ content' = content /\ pc' = pc /\ handle' = handle /\ ws' = ws
        /\ rest'[t] = <<>>
    BY <1>1, <1>14 DEF PersistTorn, TypeOK, disk
  <2>2. \A k \in Key : View(rest[t])[k] = View(<<>>)[k]
    BY <2>1, ViewOfTorn, ViewOfEmpty
  <2> QED
    BY <1>1, <1>6, <2>1, <2>2 DEF MergeInv, Unread
<1>15. CASE PersistTruncate(t)
  BY <1>1, <1>6, <1>15 DEF PersistTruncate, Goto, TypeOK, MergeInv
<1>16. CASE PersistWrite(t)
  BY <1>1, <1>6, <1>16 DEF PersistWrite, Goto, TypeOK, MergeInv
<1>17. CASE OpenHit(t)
  BY <1>1, <1>5, <1>17 DEF OpenHit, disk, TypeOK
<1>18. CASE OpenMiss(t)
  BY <1>1, <1>5, <1>18 DEF OpenMiss, Goto, disk, TypeOK
<1>19. CASE OpenLock(t)
  BY <1>1, <1>5, <1>19 DEF OpenLock, Goto, TypeOK
<1>20. CASE OpenTorn(t)
  BY <1>1, <1>5, <1>20 DEF OpenTorn, Goto, disk, TypeOK
<1>21. CASE OpenPublish(t)
  BY <1>1, <1>5, <1>21 DEF OpenPublish, Goto, disk, TypeOK
<1>22. CASE Unlock(t)
  BY <1>1, <1>5, <1>22 DEF Unlock, Goto, disk, TypeOK
<1>23. CASE EndRequest(t)
  BY <1>1, <1>5, <1>23 DEF EndRequest, disk, TypeOK
<1>24. CASE PersistCall(t)
  BY <1>1, <1>5, <1>24 DEF PersistCall, Goto, TypeOK
<1>25. CASE PersistLock(t)
  BY <1>1, <1>5, <1>25 DEF PersistLock, Goto, disk, TypeOK
<1>26. CASE PersistMux(t)
  BY <1>1, <1>5, <1>26 DEF PersistMux, Goto, disk, TypeOK
<1>27. CASE PersistDone(t)
  BY <1>1, <1>5, <1>27 DEF PersistDone, Goto, disk, TypeOK
<1>28. CASE \E k \in Key, a \in Answer : SetObservation(t, k, a)
  BY <1>1, <1>5, <1>28 DEF SetObservation, disk, TypeOK
<1> QED
  BY <1>10, <1>11, <1>12, <1>13, <1>14, <1>15, <1>16, <1>17, <1>18, <1>19, <1>20,
     <1>21, <1>22, <1>23, <1>24, <1>25, <1>26, <1>27, <1>28 DEF Step, Call

LEMMA RInvariance == Spec => []RInv
<1>1. Init => MergeInv
  BY DEF Init, MergeInv
<1>2. RInv /\ [Next]_vars => MergeInv'
  <2>1. ASSUME RInv, UNCHANGED vars PROVE MergeInv'
    BY <2>1 DEF RInv, MergeInv, Unread, vars, disk
  <2> QED
    BY <2>1, MergeStep DEF Next
<1> QED
  BY <1>1, <1>2, Invariance, PTL DEF Spec, RInv

-----------------------------------------------------------------------------
(* Each step is a step of the log, or none.                                *)

\* What the log is, by whether a thread has the file truncated.
LEMMA LogIs ==
    ASSUME IInv
    PROVE  /\ \A t \in Thread : Writing(t) => LogView = View(Marshalled(t))
           /\ (\A t \in Thread : ~Writing(t)) => LogView = View(content)
<1>1. ASSUME NEW t \in Thread, Writing(t) PROVE LogView = View(Marshalled(t))
  <2>1. \A u \in Thread : Writing(u) => u = t
    BY <1>1, LockedAlone DEF Writing, Locked
  <2>2. (CHOOSE u \in Thread : Writing(u)) = t
    BY <1>1, <2>1
  <2> QED
    BY <1>1, <2>2, Zenon DEF LogView
<1> QED
  BY <1>1, Zenon DEF LogView

LEMMA LogType ==
    ASSUME IInv
    PROVE  /\ LogView = [k \in Key |-> LogView[k]]
           /\ \A k \in Key : LogView[k] \in Obs \cup {NoObs}
<1>1. CASE \E t \in Thread : Writing(t)
  <2>1. PICK t \in Thread : Writing(t)
    BY <1>1
  <2>2. Marshalled(t) \in Seq(Item)
    BY <2>1, MarshalledSound, InvStepInv DEF Writing, Persisting
  <2> QED
    BY <2>1, <2>2, LogIs, ViewType
<1>2. CASE \A t \in Thread : ~Writing(t)
  BY <1>2, LogIs, ViewType DEF IInv, TypeOK
<1> QED
  BY <1>1, <1>2

\* The log stays when the file stays, the same threads are writing it, and the
\* workspaces they write are left alone.
LEMMA LogKept ==
    ASSUME IInv, content' = content,
           \A u \in Thread : pc'[u] = "persistWrite" <=> pc[u] = "persistWrite",
           \A u \in Thread : Writing(u) => handle'[u] = handle[u]
                                             /\ ws'[handle[u]] = ws[handle[u]]
    PROVE  LogView' = LogView
<1>1. CASE \E t \in Thread : Writing(t)
  <2>1. PICK t \in Thread : Writing(t)
    BY <1>1
  <2>2. \A u \in Thread : pc'[u] = "persistWrite" <=> u = t
    BY <2>1, LockedAlone DEF Writing, Locked
  <2>3. (CHOOSE u \in Thread : pc'[u] = "persistWrite") = t
    BY <2>2
  <2>4. LogView' = View(marshalLocked(ws'[handle'[t]], AuthorOf[ProcOf[t]]))
    BY <2>2, <2>3, Zenon DEF LogView, Writing, Marshalled
  <2> QED
    BY <2>1, <2>4, LogIs DEF Marshalled
<1>2. CASE \A t \in Thread : ~Writing(t)
  <2>1. LogView' = View(content')
    BY <1>2, Zenon DEF LogView, Writing
  <2> QED
    BY <1>2, <2>1, LogIs
<1> QED
  BY <1>1, <1>2

Mem == [t \in Thread |-> ws[t].cache]

\* A round of unmarshalLocked adopts the record, or passes over its key.
LEMMA RoundRefines ==
    ASSUME IInv, NEW h \in Thread, NEW r \in Seq(Item), r # <<>>, Head(r) # Torn,
           Unread(ws[h], r), LogView = View(content), LogView' = LogView,
           ws' = [ws EXCEPT ![h] = MergeRecord(@, Head(r))]
    PROVE  Log!Next \/ UNCHANGED Log!logVars
<1> DEFINE x == Head(r)
<1>1. ws \in [Thread -> Workspaces]
  BY DEF IInv, TypeOK
<1>2. x.key \in Key
  BY KeysOfTail DEF Record
<1> HIDE DEF x
<1>3. CASE ws[h].cache[x.key] # NoObs
  <2>1. ws' = ws
    BY <1>1, <1>3 DEF MergeRecord, x
  <2> QED
    BY <2>1 DEF Log!logVars
<1>4. CASE ws[h].cache[x.key] = NoObs
  <2>1. LogView[x.key] = Answered(x) /\ Answered(x) # NoObs
    <3>1. View(r)[x.key] = View(content)[x.key]
      BY <1>2, <1>4 DEF Unread, Held
    <3>2. View(r)[x.key] = Answered(x)
      BY ViewOfHead DEF x
    <3>3. Answered(x) \in Obs
      BY KeysOfTail DEF Record, Obs, Answered, x
    <3> QED
      BY <3>1, <3>2, <3>3, StoreAssumption
  <2>2. ws'[h].cache = [ws[h].cache EXCEPT ![x.key] = Answered(x)]
    BY <1>1, <1>4 DEF MergeRecord, SetObservationLocked, Answered, x
  <2>3. \A u \in Thread \ {h} : ws'[u] = ws[u]
    BY <1>1
  <2>4. Mem' = [Mem EXCEPT ![h][x.key] = LogView[x.key]]
    <3>1. Mem' = [Mem EXCEPT ![h] = ws'[h].cache]
      BY <1>1, <2>3 DEF Mem
    <3>2. Mem[h] = ws[h].cache
      BY DEF Mem
    <3>3. Mem' = [Mem EXCEPT ![h] = [@ EXCEPT ![x.key] = LogView[x.key]]]
      BY <2>1, <2>2, <3>1, <3>2
    <3> QED
      BY <3>3
  <2>5. Mem[h][x.key] = NoObs /\ LogView[x.key] # NoObs
    BY <1>4, <2>1 DEF Mem
  <2>6. Log!Adopt(h, x.key)
    BY <2>4, <2>5 DEF Log!Adopt, Mem
  <2> QED
    BY <1>2, <2>6 DEF Log!Next
<1> QED
  BY <1>3, <1>4

\* Truncating the file publishes the workspace that will be written to it.
LEMMA TruncateRefines ==
    ASSUME RInv, NEW t \in Thread, PersistTruncate(t)
    PROVE  Log!Publish(handle[t]) /\ handle[t] \in Thread
<1>1. TypeOK /\ LockInv /\ MuxInv /\ DataInv /\ MergeInv /\ IInv
  BY DEF IInv, RInv
<1>2. /\ pc[t] = "persistMerge" /\ rest[t] = <<>> /\ handle[t] \in Thread
      /\ pc' = [pc EXCEPT ![t] = "persistWrite"] /\ UNCHANGED <<ws, handle>>
  BY <1>1 DEF PersistTruncate, Goto, TypeOK, MuxInv, Persisting
<1> DEFINE w == ws[handle[t]]
           a == AuthorOf[ProcOf[t]]
<1>3. w \in Workspaces /\ WorkspaceOK(w) /\ a \in Author
  BY <1>1, <1>2, StoreAssumption DEF TypeOK, DataInv
<1>4. \A u \in Thread : ~Writing(u)
  BY <1>1, <1>2, LockedAlone DEF Writing, Locked
<1>5. LogView = View(content)
  BY <1>1, <1>4, LogIs
<1>6. \A u \in Thread : pc'[u] = "persistWrite" <=> u = t
  BY <1>1, <1>2, <1>4 DEF TypeOK, Writing
<1>7. LogView' = View(marshalLocked(w, a))
  <2>1. (CHOOSE u \in Thread : pc'[u] = "persistWrite") = t
    BY <1>6
  <2>2. LogView' = View(marshalLocked(ws'[handle'[t]], a))
    BY <1>6, <2>1, Zenon DEF LogView, Writing, Marshalled
  <2> QED
    BY <1>2, <2>2
<1>8. \A k \in Key : LogView[k] # NoObs => w.cache[k] # NoObs
  BY <1>1, <1>2, <1>5, ViewOfEmpty DEF MergeInv, Unread, Held
<1>9. ProcOf[handle[t]] = ProcOf[t]
  BY <1>1, <1>2, StoreAssumption DEF MuxInv
<1>10. ASSUME NEW k \in Key
       PROVE  View(marshalLocked(w, a))[k] =
                  IF w.cache[k] = NoObs THEN NoObs ELSE Persisted(handle[t], w.cache[k])
  BY <1>3, <1>9, ViewOfMarshalled DEF Persisted, Answered, Stamp
<1>11. View(marshalLocked(w, a)) =
         [k \in Key |-> IF w.cache[k] = NoObs THEN NoObs ELSE Persisted(handle[t], w.cache[k])]
  <2>1. marshalLocked(w, a) \in Seq(Item)
    BY <1>3, MarshalSound
  <2> HIDE DEF w, a
  <2> QED
    BY <1>10, <2>1, ViewType
<1>12. Mem[handle[t]] = w.cache /\ Mem' = Mem
  BY <1>2 DEF Mem
<1> HIDE DEF w, a
<1>13. Log!Known(LogView) \subseteq Log!Known(Mem[handle[t]])
  BY <1>8, <1>12 DEF Log!Known
<1>14. LogView' = [k \in Key |-> IF Mem[handle[t]][k] = NoObs THEN NoObs
                                ELSE Persisted(handle[t], Mem[handle[t]][k])]
  BY <1>7, <1>11, <1>12
<1> QED
  BY <1>2, <1>12, <1>13, <1>14 DEF Log!Publish, Mem

LEMMA StepRefines ==
    ASSUME RInv, NEW t \in Thread, Step(t) \/ Call(t)
    PROVE  Log!Next \/ UNCHANGED Log!logVars
<1>1. TypeOK /\ LockInv /\ MuxInv /\ DataInv /\ MergeInv /\ IInv /\ Nobody \notin Thread
  BY StoreAssumption DEF IInv, RInv
<1>2. \A u, v \in Thread : pc[u] \in Locked /\ pc[v] \in Locked => u = v
  BY <1>1, LockedAlone
<1>3. \A u \in Thread : Writing(u) => handle[u] \in Thread /\ mux[handle[u]] = u
  BY <1>1 DEF TypeOK, MuxInv, Writing, Persisting, Muxed
\* Steps that change no workspace and write no file.
<1>4. ASSUME content' = content, ws' = ws,
             \A u \in Thread : pc'[u] = "persistWrite" <=> pc[u] = "persistWrite",
             \A u \in Thread : Writing(u) => handle'[u] = handle[u]
      PROVE  UNCHANGED Log!logVars
  <2>1. LogView' = LogView
    BY <1>1, <1>4, LogKept
  <2> QED
    BY <1>4, <2>1 DEF Log!logVars
\* A merge: no thread writes, and the log is what the file shows.
<1>5. ASSUME pc[t] \in {"openMerge", "persistMerge"}, content' = content, pc' = pc
      PROVE  LogView = View(content) /\ LogView' = LogView
  <2>1. \A u \in Thread : ~Writing(u)
    BY <1>2, <1>5 DEF Writing, Locked
  <2> QED
    BY <1>1, <1>5, <2>1, LogIs, LogKept
<1>10. CASE OpenMiss(t)
  <2>1. /\ pc[t] = "idle" /\ handle[t] = Nobody /\ cached[ProcOf[t]] = Nobody
        /\ ws' = [ws EXCEPT ![t] = EmptyWorkspace]
        /\ content' = content /\ handle' = handle
    BY <1>10 DEF OpenMiss, disk
  <2>2. \A u \in Thread : Writing(u) => handle[u] # t
    BY <1>1, <2>1 DEF MuxInv, Writing
  <2>3. \A u \in Thread : pc'[u] = "persistWrite" <=> pc[u] = "persistWrite"
    BY <1>1, <1>10 DEF OpenMiss, Goto, TypeOK
  <2>4. LogView' = LogView
    <3>1. \A u \in Thread : Writing(u) => handle'[u] = handle[u] /\ ws'[handle[u]] = ws[handle[u]]
      BY <1>1, <1>3, <2>1, <2>2 DEF TypeOK
    <3> QED
      BY <1>1, <2>1, <2>3, <3>1, LogKept
  <2>5. Mem' = [Mem EXCEPT ![t] = Log!Blank]
    BY <1>1, <2>1 DEF Mem, Log!Blank, EmptyWorkspace, TypeOK
  <2>6. Log!Create(t)
    BY <2>4, <2>5 DEF Log!Create, Mem
  <2> QED
    BY <2>6 DEF Log!Next
<1>11. CASE \E k \in Key, a \in Answer : SetObservation(t, k, a)
  <2>1. PICK k \in Key, a \in Answer : SetObservation(t, k, a)
    BY <1>11
  <2> DEFINE h == handle[t]
  <2>2. /\ h \in Thread /\ mux[h] = Nobody
        /\ ws' = [ws EXCEPT ![h] = SetObservationLocked(@, k, Made(a))]
        /\ content' = content /\ handle' = handle /\ pc' = pc
    BY <1>1, <2>1 DEF SetObservation, Made, disk, TypeOK
  <2>3. LogView' = LogView
    <3>1. \A u \in Thread : Writing(u) => handle'[u] = handle[u] /\ ws'[handle[u]] = ws[handle[u]]
      BY <1>1, <1>3, <2>2 DEF TypeOK
    <3> QED
      BY <1>1, <2>2, <3>1, LogKept
  <2>4. Mem' = [Mem EXCEPT ![h][k] = Made(a)]
    <3>1. ws'[h].cache = [ws[h].cache EXCEPT ![k] = Made(a)]
      BY <1>1, <2>2 DEF SetObservationLocked, TypeOK
    <3>2. Mem' = [Mem EXCEPT ![h] = ws'[h].cache]
      BY <1>1, <2>2 DEF Mem, TypeOK
    <3>3. Mem[h] = ws[h].cache
      BY <2>2 DEF Mem
    <3>4. Mem' = [Mem EXCEPT ![h] = [@ EXCEPT ![k] = Made(a)]]
      BY <3>1, <3>2, <3>3
    <3> QED
      BY <3>4
  <2>5. Log!Observe(h, k, a)
    BY <2>3, <2>4 DEF Log!Observe, Mem
  <2> QED
    BY <2>2, <2>5 DEF Log!Next
<1>12. CASE OpenMerge(t)
  <2>1. /\ pc[t] = "openMerge" /\ rest[t] \in Seq(Item) /\ rest[t] # <<>> /\ Head(rest[t]) # Torn
        /\ content' = content /\ pc' = pc
        /\ ws' = [ws EXCEPT ![t] = MergeRecord(@, Head(rest[t]))]
    BY <1>1, <1>12 DEF OpenMerge, TypeOK, disk
  <2>2. Unread(ws[t], rest[t])
    BY <1>1, <2>1 DEF MergeInv
  <2> QED
    BY <1>1, <1>5, <2>1, <2>2, RoundRefines
<1>13. CASE PersistMerge(t)
  <2>1. /\ pc[t] = "persistMerge" /\ rest[t] \in Seq(Item) /\ rest[t] # <<>> /\ Head(rest[t]) # Torn
        /\ content' = content /\ pc' = pc
        /\ ws' = [ws EXCEPT ![handle[t]] = MergeRecord(@, Head(rest[t]))]
    BY <1>1, <1>13 DEF PersistMerge, TypeOK, disk
  <2>2. handle[t] \in Thread /\ Unread(ws[handle[t]], rest[t])
    BY <1>1, <2>1 DEF MergeInv, MuxInv, TypeOK, Persisting
  <2> QED
    BY <1>1, <1>5, <2>1, <2>2, RoundRefines
<1>14. CASE PersistTruncate(t)
  BY <1>14, TruncateRefines DEF Log!Next
\* The file becomes what the log has been since it was truncated.
<1>15. CASE PersistWrite(t)
  <2>1. /\ pc[t] = "persistWrite" /\ out[t] = inode /\ content = <<>>
        /\ pc' = [pc EXCEPT ![t] = "persistDone"] /\ ws' = ws
    BY <1>1, <1>15 DEF PersistWrite, LockInv, Writing, Locked, Goto
  <2>2. content' = Marshalled(t)
    BY <1>15, <2>1 DEF PersistWrite
  <2>3. \A u \in Thread : pc'[u] # "persistWrite"
    BY <1>1, <1>2, <2>1 DEF TypeOK, Locked
  <2>4. LogView' = View(content')
    BY <2>3, Zenon DEF LogView, Writing
  <2>5. LogView = View(Marshalled(t))
    BY <1>1, <2>1, LogIs DEF Writing
  <2> QED
    BY <2>1, <2>2, <2>4, <2>5 DEF Log!logVars
<1>17. CASE OpenHit(t)
  BY <1>1, <1>4, <1>17 DEF OpenHit, disk, TypeOK, Writing
<1>18. CASE OpenLock(t)
  BY <1>1, <1>4, <1>18 DEF OpenLock, Goto, TypeOK
<1>19. CASE OpenRead(t)
  BY <1>1, <1>4, <1>19 DEF OpenRead, Goto, disk, TypeOK, Writing
<1>20. CASE OpenTorn(t)
  BY <1>1, <1>4, <1>20 DEF OpenTorn, Goto, disk, TypeOK
<1>21. CASE OpenPublish(t)
  BY <1>1, <1>4, <1>21 DEF OpenPublish, Goto, disk, TypeOK, Writing
<1>22. CASE Unlock(t)
  BY <1>1, <1>4, <1>22 DEF Unlock, Goto, disk, TypeOK
<1>23. CASE EndRequest(t)
  BY <1>1, <1>4, <1>23 DEF EndRequest, disk, TypeOK, Writing
<1>24. CASE PersistCall(t)
  BY <1>1, <1>4, <1>24 DEF PersistCall, Goto, TypeOK
<1>25. CASE PersistLock(t)
  BY <1>1, <1>4, <1>25 DEF PersistLock, Goto, disk, TypeOK
<1>26. CASE PersistMux(t)
  BY <1>1, <1>4, <1>26 DEF PersistMux, Goto, disk, TypeOK
<1>27. CASE PersistRead(t)
  BY <1>1, <1>4, <1>27 DEF PersistRead, Goto, disk, TypeOK
<1>28. CASE PersistTorn(t)
  BY <1>1, <1>4, <1>28 DEF PersistTorn, disk, TypeOK
<1>29. CASE PersistDone(t)
  BY <1>1, <1>4, <1>29 DEF PersistDone, Goto, disk, TypeOK
<1> QED
  BY <1>10, <1>11, <1>12, <1>13, <1>14, <1>15, <1>17, <1>18, <1>19, <1>20, <1>21,
     <1>22, <1>23, <1>24, <1>25, <1>26, <1>27, <1>28, <1>29 DEF Step, Call

LEMMA InitRefines == Init => Log!Init
<1> SUFFICES ASSUME Init PROVE Log!Init
  OBVIOUS
<1>1. IInv /\ \A t \in Thread : ~Writing(t)
  BY InitIInv DEF Init, Writing
<1>2. LogView \in [Key -> Obs \cup {NoObs}]
  BY <1>1, LogType
<1>3. Mem = [t \in Thread |-> Log!Blank]
  BY DEF Init, Mem, Log!Blank, EmptyWorkspace
<1> QED
  BY <1>2, <1>3 DEF Log!Init, Mem

\* The store of several processes behaves like one log replaced in single steps:
\* its lock, its record-by-record merges and its truncated file show nowhere,
\* whatever captn.cog holds at the start.
THEOREM Implements == Spec => LogSpec
<1>1. RInv /\ [Next]_vars => [Log!Next]_(Log!logVars)
  <2> SUFFICES ASSUME RInv, [Next]_vars PROVE Log!Next \/ UNCHANGED Log!logVars
    OBVIOUS
  <2>1. CASE UNCHANGED vars
    <3>1. LogView' = LogView
      BY <2>1, LogKept DEF vars, disk, RInv
    <3> QED
      BY <2>1, <3>1 DEF Log!logVars, vars
  <2>2. CASE Next
    BY <2>2, StepRefines DEF Next
  <2> QED
    BY <2>1, <2>2
<1> QED
  BY <1>1, InitRefines, RInvariance, PTL DEF Spec, LogSpec, Log!Spec

\* No key ever leaves the log, whatever Persist calls of whatever processes
\* replace it, in whatever order and from whatever initial file.
THEOREM NoKeyLeaves == Spec => Log!LogGrows
<1>1. RInv /\ [Next]_vars => [Log!Known(LogView) \subseteq Log!Known(LogView')]_LogView
  <2> SUFFICES ASSUME RInv, [Next]_vars, LogView' # LogView
               PROVE  Log!Known(LogView) \subseteq Log!Known(LogView')
    OBVIOUS
  <2>1. PICK t \in Thread : Step(t) \/ Call(t)
    BY LogKept DEF Next, vars, disk, RInv
  <2>2. Log!Next
    BY <2>1, StepRefines DEF Log!logVars
  <2>3. PICK w \in Thread : Log!Publish(w)
    BY <2>2 DEF Log!Next, Log!Create, Log!Observe, Log!Adopt
  <2>4. \A k \in Key : Mem[w][k] # NoObs => Persisted(w, Mem[w][k]) # NoObs
    <3> SUFFICES ASSUME NEW k \in Key, Mem[w][k] # NoObs
                 PROVE  Persisted(w, Mem[w][k]) \in Obs
      BY StoreAssumption
    <3>1. Mem[w][k] \in Obs
      BY DEF RInv, IInv, TypeOK, Mem, Workspaces
    <3> QED
      BY <3>1, StoreAssumption DEF Persisted, Obs
  <2>5. Log!Known(LogView) \subseteq Log!Known(Mem[w])
    BY <2>3 DEF Log!Publish, Mem
  <2>6. \A k \in Key : LogView'[k] = IF Mem[w][k] = NoObs THEN NoObs
                                     ELSE Persisted(w, Mem[w][k])
    BY <2>3 DEF Log!Publish, Mem
  <2> QED
    BY <2>4, <2>5, <2>6 DEF Log!Known
<1> QED
  BY <1>1, RInvariance, PTL DEF Spec, Log!LogGrows
=============================================================================
