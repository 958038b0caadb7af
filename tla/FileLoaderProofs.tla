--------------------------- MODULE FileLoaderProofs ---------------------------
(***************************************************************************)
(* Proofs that LoadFile keeps one COGFile per file and parses each file    *)
(* once at a time, that a successful LoadFiles has loaded every file, and  *)
(* that LoadFiles reports the error that made it give up.                  *)
(*                                                                         *)
(* PhaseInv relates the steps of a worker to the outcome of its call,      *)
(* CallInv the worker that leads a load to the two maps of the workspace,  *)
(* and BatchInv the cancellation of a request to its reason.               *)
(***************************************************************************)
EXTENDS FileLoader, TLAPS

Leading == {"read", "parse", "close", "clear"}

\* A worker's call has an outcome once its parse has ended, and is closed after that.
PhaseInv ==
    \A w \in Worker :
        /\ pc[w] # "idle" => file[w] \in File
        /\ batch[RequestOf[w]] = "idle" => pc[w] = "idle"
        /\ pc[w] \in {"idle", "load", "wait", "read", "parse"} => outcome[w] = "none"
        /\ pc[w] \in {"close", "clear"} => outcome[w] # "none"
        /\ closed[w] => outcome[w] # "none"
        /\ result[w] = NoResult <=> pc[w] \notin {"send", "cancel", "finished"}

\* loadingFiles names exactly the worker that leads a load, loadedFiles the one
\* that has ended it, and a waiter waits for a call for its own file.
CallInv ==
    /\ \A w \in Worker :
        /\ pc[w] \in Leading => loading[file[w]] = w
        /\ pc[w] \in {"read", "parse"} => loaded[file[w]] = None
        /\ outcome[w] = "file" => loaded[file[w]] = w
        /\ pc[w] = "wait" => /\ joined[w] \in Worker
                             /\ file[joined[w]] = file[w]
                             /\ pc[joined[w]] # "idle"
    /\ \A f \in File : loading[f] # None =>
        file[loading[f]] = f /\ pc[loading[f]] \in Leading
    /\ OneFile

\* A request is cancelled because its caller is gone, because it has an error, or
\* because it is over.
BatchInv ==
    /\ \A r \in Request :
        /\ cancelled[r] => gone[r] \/ slot[r] # "none" \/ batch[r] = "ok"
        /\ batch[r] = "ok" => \A w \in WorkersOf(r) :
                pc[w] = "idle" \/ (pc[w] = "finished" /\ Got(w))
    /\ \A w \in Worker :
        /\ result[w].kind = "ctx" => cancelled[RequestOf[w]]
        /\ pc[w] = "cancel" => slot[RequestOf[w]] # "none"
    /\ RootCause

IInv == TypeOK /\ PhaseInv /\ CallInv /\ BatchInv

\* Every step keeps the types.
LEMMA TypeStep ==
    ASSUME IInv, Next
    PROVE  TypeOK'
<1>1. TypeOK /\ PhaseInv /\ CallInv /\ BatchInv
  BY DEF IInv
<1> USE <1>1, LoaderAssumption
<1>11. ASSUME NEW w \in Worker, Hit(w) PROVE TypeOK'
  BY <1>11 DEF Hit, Goto, Return, requestVars, callVars, NoResult, TypeOK, PhaseInv, CallInv
<1>12. ASSUME NEW w \in Worker, Join(w) PROVE TypeOK'
  BY <1>12 DEF Join, Goto, requestVars, callVars, NoResult, TypeOK, PhaseInv, CallInv
<1>13. ASSUME NEW w \in Worker, Lead(w) PROVE TypeOK'
  BY <1>13 DEF Lead, Goto, requestVars, callVars, NoResult, TypeOK, PhaseInv, CallInv
<1>14. ASSUME NEW w \in Worker, ReadFile(w) PROVE TypeOK'
  BY <1>14 DEF ReadFile, Goto, requestVars, callVars, NoResult, TypeOK, PhaseInv, CallInv
<1>15. ASSUME NEW w \in Worker, ParseFails(w) PROVE TypeOK'
  BY <1>15 DEF ParseFails, Goto, requestVars, callVars, NoResult, TypeOK, PhaseInv, CallInv
<1>16. ASSUME NEW w \in Worker, Store(w) PROVE TypeOK'
  BY <1>16 DEF Store, Goto, requestVars, callVars, NoResult, TypeOK, PhaseInv, CallInv
<1>17. ASSUME NEW w \in Worker, CloseDone(w) PROVE TypeOK'
  BY <1>17 DEF CloseDone, Goto, requestVars, callVars, NoResult, TypeOK, PhaseInv, CallInv
<1>18. ASSUME NEW w \in Worker, ClearInflight(w) PROVE TypeOK'
  BY <1>18 DEF ClearInflight, Goto, Return, requestVars, callVars, NoResult, TypeOK, PhaseInv, CallInv
<1>19. ASSUME NEW w \in Worker, WaitDone(w) PROVE TypeOK'
  BY <1>19 DEF WaitDone, Return, Goto, requestVars, callVars, NoResult, TypeOK, PhaseInv, CallInv
<1>20. ASSUME NEW w \in Worker, WaitCancelled(w) PROVE TypeOK'
  BY <1>20 DEF WaitCancelled, Goto, Return, requestVars, callVars, NoResult, TypeOK, PhaseInv, CallInv
<1>21. ASSUME NEW w \in Worker, SendResult(w) PROVE TypeOK'
  BY <1>21 DEF SendResult, Goto, requestVars, callVars, NoResult, TypeOK, PhaseInv, CallInv
<1>22. ASSUME NEW w \in Worker, SendError(w) PROVE TypeOK'
  BY <1>22 DEF SendError, Goto, requestVars, callVars, NoResult, TypeOK, PhaseInv, CallInv
<1>23. ASSUME NEW w \in Worker, CancelSiblings(w) PROVE TypeOK'
  BY <1>23 DEF CancelSiblings, Goto, requestVars, callVars, NoResult, TypeOK, PhaseInv, CallInv
<1>24. ASSUME NEW r \in Request, Begin(r) PROVE TypeOK'
  BY <1>24 DEF Begin, requestVars, callVars, NoResult, TypeOK, PhaseInv, CallInv
<1>25. ASSUME NEW r \in Request, CollectAll(r) PROVE TypeOK'
  BY <1>25 DEF CollectAll, CollectorReturns, requestVars, callVars, NoResult, TypeOK, PhaseInv, CallInv
<1>26. ASSUME NEW r \in Request, CollectError(r) PROVE TypeOK'
  BY <1>26 DEF CollectError, CollectorReturns, requestVars, callVars, NoResult, TypeOK, PhaseInv, CallInv
<1>27. ASSUME NEW r \in Request, CollectGone(r) PROVE TypeOK'
  BY <1>27 DEF CollectGone, CollectorReturns, requestVars, callVars, NoResult, TypeOK, PhaseInv, CallInv
<1>28. ASSUME NEW r \in Request, Abandon(r) PROVE TypeOK'
  BY <1>28 DEF Abandon, requestVars, callVars, NoResult, TypeOK, PhaseInv, CallInv
<1>29. ASSUME NEW f \in File, Edit(f) PROVE TypeOK'
  BY <1>29 DEF Edit, requestVars, callVars, NoResult, TypeOK, PhaseInv, CallInv
<1> QED
  BY <1>11, <1>12, <1>13, <1>14, <1>15, <1>16, <1>17, <1>18, <1>19, <1>20,
     <1>21, <1>22, <1>23, <1>24, <1>25, <1>26, <1>27, <1>28, <1>29
     DEF Next, WorkerStep, Collect

\* Every step keeps what the place of a worker says of its call.
LEMMA PhaseStep ==
    ASSUME IInv, Next
    PROVE  PhaseInv'
<1>1. TypeOK /\ PhaseInv /\ CallInv /\ BatchInv
  BY DEF IInv
<1> USE <1>1, LoaderAssumption
<1>11. ASSUME NEW w \in Worker, Hit(w) PROVE PhaseInv'
  BY <1>11 DEF Hit, Goto, Return, requestVars, callVars, NoResult, TypeOK, PhaseInv, CallInv
<1>12. ASSUME NEW w \in Worker, Join(w) PROVE PhaseInv'
  BY <1>12 DEF Join, Goto, requestVars, callVars, NoResult, TypeOK, PhaseInv, CallInv
<1>13. ASSUME NEW w \in Worker, Lead(w) PROVE PhaseInv'
  BY <1>13 DEF Lead, Goto, requestVars, callVars, NoResult, TypeOK, PhaseInv, CallInv
<1>14. ASSUME NEW w \in Worker, ReadFile(w) PROVE PhaseInv'
  BY <1>14 DEF ReadFile, Goto, requestVars, callVars, NoResult, TypeOK, PhaseInv, CallInv
<1>15. ASSUME NEW w \in Worker, ParseFails(w) PROVE PhaseInv'
  BY <1>15 DEF ParseFails, Goto, requestVars, callVars, NoResult, TypeOK, PhaseInv, CallInv
<1>16. ASSUME NEW w \in Worker, Store(w) PROVE PhaseInv'
  BY <1>16 DEF Store, Goto, requestVars, callVars, NoResult, TypeOK, PhaseInv, CallInv
<1>17. ASSUME NEW w \in Worker, CloseDone(w) PROVE PhaseInv'
  BY <1>17 DEF CloseDone, Goto, requestVars, callVars, NoResult, TypeOK, PhaseInv, CallInv
<1>18. ASSUME NEW w \in Worker, ClearInflight(w) PROVE PhaseInv'
  BY <1>18 DEF ClearInflight, Goto, Return, requestVars, callVars, NoResult, TypeOK, PhaseInv, CallInv
<1>19. ASSUME NEW w \in Worker, WaitDone(w) PROVE PhaseInv'
  BY <1>19 DEF WaitDone, Goto, Return, requestVars, callVars, NoResult, TypeOK, PhaseInv, CallInv
<1>20. ASSUME NEW w \in Worker, WaitCancelled(w) PROVE PhaseInv'
  BY <1>20 DEF WaitCancelled, Goto, Return, requestVars, callVars, NoResult, TypeOK, PhaseInv, CallInv
<1>21. ASSUME NEW w \in Worker, SendResult(w) PROVE PhaseInv'
  BY <1>21 DEF SendResult, Goto, requestVars, callVars, NoResult, TypeOK, PhaseInv, CallInv
<1>22. ASSUME NEW w \in Worker, SendError(w) PROVE PhaseInv'
  BY <1>22 DEF SendError, Goto, requestVars, callVars, NoResult, TypeOK, PhaseInv, CallInv
<1>23. ASSUME NEW w \in Worker, CancelSiblings(w) PROVE PhaseInv'
  BY <1>23 DEF CancelSiblings, Goto, requestVars, callVars, NoResult, TypeOK, PhaseInv, CallInv
<1>24. ASSUME NEW r \in Request, Begin(r) PROVE PhaseInv'
  <2>0. PICK S \in SUBSET WorkersOf(r) : \E want \in [S -> File] :
          /\ pc' = [w \in Worker |-> IF w \in S THEN "load" ELSE pc[w]]
          /\ file' = [w \in Worker |-> IF w \in S THEN want[w] ELSE file[w]]
    BY <1>24 DEF Begin
  <2>1. PICK want \in [S -> File] :
          /\ pc' = [w \in Worker |-> IF w \in S THEN "load" ELSE pc[w]]
          /\ file' = [w \in Worker |-> IF w \in S THEN want[w] ELSE file[w]]
    BY <2>0
  <2>2. /\ batch[r] = "idle"
        /\ batch' = [batch EXCEPT ![r] = "collect"]
        /\ UNCHANGED <<loaded, loading, callVars, result, slot, cancelled, gone>>
    BY <1>24 DEF Begin
  <2>3. \A w \in S : w \in Worker /\ RequestOf[w] = r /\ pc[w] = "idle" /\ want[w] \in File
    BY <2>2 DEF WorkersOf, PhaseInv
  <2>4. \A w \in S : pc'[w] = "load" /\ file'[w] = want[w]
    BY <2>1, <2>3
  <2>5. \A w \in Worker \ S : pc'[w] = pc[w] /\ file'[w] = file[w]
    BY <2>1
  <2> QED
    BY <2>2, <2>3, <2>4, <2>5 DEF callVars, TypeOK, PhaseInv, NoResult
<1>25. ASSUME NEW r \in Request, CollectAll(r) PROVE PhaseInv'
  BY <1>25 DEF CollectAll, CollectorReturns, requestVars, callVars, NoResult, TypeOK, PhaseInv, CallInv
<1>26. ASSUME NEW r \in Request, CollectError(r) PROVE PhaseInv'
  BY <1>26 DEF CollectError, CollectorReturns, requestVars, callVars, NoResult, TypeOK, PhaseInv, CallInv
<1>27. ASSUME NEW r \in Request, CollectGone(r) PROVE PhaseInv'
  BY <1>27 DEF CollectGone, CollectorReturns, requestVars, callVars, NoResult, TypeOK, PhaseInv, CallInv
<1>28. ASSUME NEW r \in Request, Abandon(r) PROVE PhaseInv'
  BY <1>28 DEF Abandon, requestVars, callVars, NoResult, TypeOK, PhaseInv, CallInv
<1>29. ASSUME NEW f \in File, Edit(f) PROVE PhaseInv'
  BY <1>29 DEF Edit, requestVars, callVars, NoResult, TypeOK, PhaseInv, CallInv
<1> QED
  BY <1>11, <1>12, <1>13, <1>14, <1>15, <1>16, <1>17, <1>18, <1>19, <1>20,
     <1>21, <1>22, <1>23, <1>24, <1>25, <1>26, <1>27, <1>28, <1>29
     DEF Next, WorkerStep, Collect

\* Every step keeps the two maps in agreement with the workers.
LEMMA CallStep ==
    ASSUME IInv, Next
    PROVE  CallInv'
<1>1. TypeOK /\ PhaseInv /\ CallInv /\ BatchInv
  BY DEF IInv
<1> USE <1>1, LoaderAssumption
<1>11. ASSUME NEW w \in Worker, Hit(w) PROVE CallInv'
  BY <1>11 DEF Hit, Goto, Return, requestVars, callVars, NoResult, TypeOK, PhaseInv, CallInv, Leading, OneFile, Got
<1>12. ASSUME NEW w \in Worker, Join(w) PROVE CallInv'
  BY <1>12 DEF Join, Goto, requestVars, callVars, NoResult, TypeOK, PhaseInv, CallInv, Leading, OneFile, Got
<1>13. ASSUME NEW w \in Worker, Lead(w) PROVE CallInv'
  BY <1>13 DEF Lead, Goto, requestVars, callVars, NoResult, TypeOK, PhaseInv, CallInv, Leading, OneFile, Got
<1>14. ASSUME NEW w \in Worker, ReadFile(w) PROVE CallInv'
  BY <1>14 DEF ReadFile, Goto, requestVars, callVars, NoResult, TypeOK, PhaseInv, CallInv, Leading, OneFile, Got
<1>15. ASSUME NEW w \in Worker, ParseFails(w) PROVE CallInv'
  BY <1>15 DEF ParseFails, Goto, requestVars, callVars, NoResult, TypeOK, PhaseInv, CallInv, Leading, OneFile, Got
<1>16. ASSUME NEW w \in Worker, Store(w) PROVE CallInv'
  BY <1>16 DEF Store, Goto, requestVars, callVars, NoResult, TypeOK, PhaseInv, CallInv, Leading, OneFile, Got
<1>17. ASSUME NEW w \in Worker, CloseDone(w) PROVE CallInv'
  BY <1>17 DEF CloseDone, Goto, requestVars, callVars, NoResult, TypeOK, PhaseInv, CallInv, Leading, OneFile, Got
<1>18. ASSUME NEW w \in Worker, ClearInflight(w) PROVE CallInv'
  BY <1>18 DEF ClearInflight, Goto, Return, requestVars, callVars, NoResult, TypeOK, PhaseInv, CallInv, Leading, OneFile, Got
<1>19. ASSUME NEW w \in Worker, WaitDone(w) PROVE CallInv'
  BY <1>19 DEF WaitDone, Goto, Return, requestVars, callVars, NoResult, TypeOK, PhaseInv, CallInv, Leading, OneFile, Got
<1>20. ASSUME NEW w \in Worker, WaitCancelled(w) PROVE CallInv'
  BY <1>20 DEF WaitCancelled, Goto, Return, requestVars, callVars, NoResult, TypeOK, PhaseInv, CallInv, Leading, OneFile, Got
<1>21. ASSUME NEW w \in Worker, SendResult(w) PROVE CallInv'
  BY <1>21 DEF SendResult, Goto, requestVars, callVars, NoResult, TypeOK, PhaseInv, CallInv, Leading, OneFile, Got
<1>22. ASSUME NEW w \in Worker, SendError(w) PROVE CallInv'
  BY <1>22 DEF SendError, Goto, requestVars, callVars, NoResult, TypeOK, PhaseInv, CallInv, Leading, OneFile, Got
<1>23. ASSUME NEW w \in Worker, CancelSiblings(w) PROVE CallInv'
  BY <1>23 DEF CancelSiblings, Goto, requestVars, callVars, NoResult, TypeOK, PhaseInv, CallInv, Leading, OneFile, Got
<1>24. ASSUME NEW r \in Request, Begin(r) PROVE CallInv'
  <2>0. PICK S \in SUBSET WorkersOf(r) : \E want \in [S -> File] :
          /\ pc' = [w \in Worker |-> IF w \in S THEN "load" ELSE pc[w]]
          /\ file' = [w \in Worker |-> IF w \in S THEN want[w] ELSE file[w]]
    BY <1>24 DEF Begin
  <2>1. PICK want \in [S -> File] :
          /\ pc' = [w \in Worker |-> IF w \in S THEN "load" ELSE pc[w]]
          /\ file' = [w \in Worker |-> IF w \in S THEN want[w] ELSE file[w]]
    BY <2>0
  <2>2. /\ batch[r] = "idle"
        /\ batch' = [batch EXCEPT ![r] = "collect"]
        /\ UNCHANGED <<loaded, loading, callVars, result, slot, cancelled, gone>>
    BY <1>24 DEF Begin
  <2>3. \A w \in S : w \in Worker /\ RequestOf[w] = r /\ pc[w] = "idle" /\ want[w] \in File
    BY <2>2 DEF WorkersOf, PhaseInv
  <2>4. \A w \in S : pc'[w] = "load" /\ file'[w] = want[w]
    BY <2>1, <2>3
  <2>5. \A w \in Worker \ S : pc'[w] = pc[w] /\ file'[w] = file[w]
    BY <2>1
  <2>6. \A w \in S : outcome[w] = "none" /\ ~ Got(w)
    BY <2>3 DEF PhaseInv, Got, NoResult
  <2>7. \A w \in Worker : pc[w] # "idle" => w \notin S
    BY <2>3
  <2>8. \A f \in File : loading[f] # None => loading[f] \in Worker \ S
    BY <2>7 DEF CallInv, TypeOK, Leading
  <2>9. UNCHANGED <<loaded, loading, outcome, joined, result>>
    BY <2>2 DEF callVars
  <2>10. \A w \in Worker :
          /\ pc'[w] \in Leading => loading'[file'[w]] = w
          /\ pc'[w] \in {"read", "parse"} => loaded'[file'[w]] = None
          /\ outcome'[w] = "file" => loaded'[file'[w]] = w
    BY <2>4, <2>5, <2>6, <2>9 DEF CallInv, Leading
  <2>11. \A w \in Worker : pc'[w] = "wait" =>
          joined'[w] \in Worker /\ file'[joined'[w]] = file'[w] /\ pc'[joined'[w]] # "idle"
    BY <2>4, <2>5, <2>7, <2>9 DEF CallInv
  <2>12. \A f \in File : loading'[f] # None =>
          file'[loading'[f]] = f /\ pc'[loading'[f]] \in Leading
    BY <2>5, <2>8, <2>9 DEF CallInv
  <2>13. OneFile'
    BY <2>4, <2>5, <2>6, <2>9 DEF CallInv, OneFile, Got
  <2> QED
    BY <2>10, <2>11, <2>12, <2>13 DEF CallInv
<1>25. ASSUME NEW r \in Request, CollectAll(r) PROVE CallInv'
  BY <1>25 DEF CollectAll, CollectorReturns, requestVars, callVars, NoResult, TypeOK, PhaseInv, CallInv, Leading, OneFile, Got
<1>26. ASSUME NEW r \in Request, CollectError(r) PROVE CallInv'
  BY <1>26 DEF CollectError, CollectorReturns, requestVars, callVars, NoResult, TypeOK, PhaseInv, CallInv, Leading, OneFile, Got
<1>27. ASSUME NEW r \in Request, CollectGone(r) PROVE CallInv'
  BY <1>27 DEF CollectGone, CollectorReturns, requestVars, callVars, NoResult, TypeOK, PhaseInv, CallInv, Leading, OneFile, Got
<1>28. ASSUME NEW r \in Request, Abandon(r) PROVE CallInv'
  BY <1>28 DEF Abandon, requestVars, callVars, NoResult, TypeOK, PhaseInv, CallInv, Leading, OneFile, Got
<1>29. ASSUME NEW f \in File, Edit(f) PROVE CallInv'
  BY <1>29 DEF Edit, requestVars, callVars, NoResult, TypeOK, PhaseInv, CallInv, Leading, OneFile, Got
<1> QED
  BY <1>11, <1>12, <1>13, <1>14, <1>15, <1>16, <1>17, <1>18, <1>19, <1>20,
     <1>21, <1>22, <1>23, <1>24, <1>25, <1>26, <1>27, <1>28, <1>29
     DEF Next, WorkerStep, Collect

\* Every step keeps the reasons for a cancellation.
LEMMA BatchStep ==
    ASSUME IInv, Next
    PROVE  BatchInv'
<1>1. TypeOK /\ PhaseInv /\ CallInv /\ BatchInv
  BY DEF IInv
<1> USE <1>1, LoaderAssumption
<1>11. ASSUME NEW w \in Worker, Hit(w) PROVE BatchInv'
  BY <1>11 DEF Hit, Goto, Return, requestVars, callVars, NoResult, TypeOK, PhaseInv, BatchInv, WorkersOf, Got, RootCause
<1>12. ASSUME NEW w \in Worker, Join(w) PROVE BatchInv'
  BY <1>12 DEF Join, Goto, requestVars, callVars, NoResult, TypeOK, PhaseInv, BatchInv, WorkersOf, Got, RootCause
<1>13. ASSUME NEW w \in Worker, Lead(w) PROVE BatchInv'
  BY <1>13 DEF Lead, Goto, requestVars, callVars, NoResult, TypeOK, PhaseInv, BatchInv, WorkersOf, Got, RootCause
<1>14. ASSUME NEW w \in Worker, ReadFile(w) PROVE BatchInv'
  BY <1>14 DEF ReadFile, Goto, requestVars, callVars, NoResult, TypeOK, PhaseInv, BatchInv, WorkersOf, Got, RootCause
<1>15. ASSUME NEW w \in Worker, ParseFails(w) PROVE BatchInv'
  BY <1>15 DEF ParseFails, Goto, requestVars, callVars, NoResult, TypeOK, PhaseInv, BatchInv, WorkersOf, Got, RootCause
<1>16. ASSUME NEW w \in Worker, Store(w) PROVE BatchInv'
  BY <1>16 DEF Store, Goto, requestVars, callVars, NoResult, TypeOK, PhaseInv, BatchInv, WorkersOf, Got, RootCause
<1>17. ASSUME NEW w \in Worker, CloseDone(w) PROVE BatchInv'
  BY <1>17 DEF CloseDone, Goto, requestVars, callVars, NoResult, TypeOK, PhaseInv, BatchInv, WorkersOf, Got, RootCause
<1>18. ASSUME NEW w \in Worker, ClearInflight(w) PROVE BatchInv'
  BY <1>18 DEF ClearInflight, Goto, Return, requestVars, callVars, NoResult, TypeOK, PhaseInv, BatchInv, WorkersOf, Got, RootCause
<1>19. ASSUME NEW w \in Worker, WaitDone(w) PROVE BatchInv'
  <2>1. joined[w] \in Worker /\ outcome[joined[w]] # "ctx"
    BY <1>19 DEF WaitDone, CallInv, TypeOK
  <2> QED
    BY <1>19, <2>1 DEF WaitDone, Goto, Return, requestVars, callVars, NoResult, TypeOK, PhaseInv, BatchInv, WorkersOf, Got, RootCause
<1>20. ASSUME NEW w \in Worker, WaitCancelled(w) PROVE BatchInv'
  BY <1>20 DEF WaitCancelled, Goto, Return, requestVars, callVars, NoResult, TypeOK, PhaseInv, BatchInv, WorkersOf, Got, RootCause
<1>21. ASSUME NEW w \in Worker, SendResult(w) PROVE BatchInv'
  BY <1>21 DEF SendResult, Goto, requestVars, callVars, NoResult, TypeOK, PhaseInv, BatchInv, WorkersOf, Got, RootCause
<1>22. ASSUME NEW w \in Worker, SendError(w) PROVE BatchInv'
  BY <1>22 DEF SendError, Goto, requestVars, callVars, NoResult, TypeOK, PhaseInv, BatchInv, WorkersOf, Got, RootCause
<1>23. ASSUME NEW w \in Worker, CancelSiblings(w) PROVE BatchInv'
  BY <1>23 DEF CancelSiblings, Goto, requestVars, callVars, NoResult, TypeOK, PhaseInv, BatchInv, WorkersOf, Got, RootCause
<1>24. ASSUME NEW r \in Request, Begin(r) PROVE BatchInv'
  BY <1>24 DEF Begin, requestVars, callVars, NoResult, TypeOK, PhaseInv, BatchInv, WorkersOf, Got, RootCause
<1>25. ASSUME NEW r \in Request, CollectAll(r) PROVE BatchInv'
  BY <1>25 DEF CollectAll, Started, CollectorReturns, callVars, TypeOK, PhaseInv, BatchInv, WorkersOf, Got, RootCause
<1>26. ASSUME NEW r \in Request, CollectError(r) PROVE BatchInv'
  BY <1>26 DEF CollectError, CollectorReturns, requestVars, callVars, NoResult, TypeOK, PhaseInv, BatchInv, WorkersOf, Got, RootCause
<1>27. ASSUME NEW r \in Request, CollectGone(r) PROVE BatchInv'
  BY <1>27 DEF CollectGone, CollectorReturns, requestVars, callVars, NoResult, TypeOK, PhaseInv, BatchInv, WorkersOf, Got, RootCause
<1>28. ASSUME NEW r \in Request, Abandon(r) PROVE BatchInv'
  BY <1>28 DEF Abandon, requestVars, callVars, NoResult, TypeOK, PhaseInv, BatchInv, WorkersOf, Got, RootCause
<1>29. ASSUME NEW f \in File, Edit(f) PROVE BatchInv'
  BY <1>29 DEF Edit, requestVars, callVars, NoResult, TypeOK, PhaseInv, BatchInv, WorkersOf, Got, RootCause
<1> QED
  BY <1>11, <1>12, <1>13, <1>14, <1>15, <1>16, <1>17, <1>18, <1>19, <1>20,
     <1>21, <1>22, <1>23, <1>24, <1>25, <1>26, <1>27, <1>28, <1>29
     DEF Next, WorkerStep, Collect

\* The inductive invariant holds in every state: what LoadFile and ParallelCollect
\* do together keeps workers, the two maps and the cancellations in agreement.
THEOREM Invariance == Spec => []IInv
<1>1. Init => IInv
  BY LoaderAssumption DEF Init, IInv, TypeOK, PhaseInv, CallInv, BatchInv, OneFile, RootCause, Got,
     NoResult, WorkersOf, Leading
<1>2. IInv /\ [Next]_vars => IInv'
  <2> SUFFICES ASSUME IInv, [Next]_vars PROVE IInv'
    OBVIOUS
  <2>1. CASE UNCHANGED vars
    BY <2>1 DEF vars, IInv, TypeOK, PhaseInv, CallInv, BatchInv, OneFile, RootCause, Got,
       NoResult, WorkersOf, Leading
  <2>2. CASE Next
    BY <2>2, TypeStep, PhaseStep, CallStep, BatchStep DEF IInv
  <2> QED
    BY <2>1, <2>2
<1> QED
  BY <1>1, <1>2, PTL DEF Spec

\* Every variable keeps its type; LoadFile never returns nil twice.
THEOREM TypeCorrect == Spec => []TypeOK
BY Invariance, PTL DEF IInv

\* However many goroutines of however many requests load a file, they get the same
\* COGFile, for as long as the workspace lives.
THEOREM OneFilePerPath == Spec => []OneFile
<1>1. IInv => OneFile
  BY DEF IInv, CallInv
<1> QED
  BY <1>1, Invariance, PTL

\* No two goroutines parse one file at the same time.
THEOREM OneParseAtATime == Spec => []OneParse
<1>1. IInv => OneParse
  BY DEF IInv, CallInv, OneParse, Leading
<1> QED
  BY <1>1, Invariance, PTL

\* When LoadFiles succeeds, a later LoadFile of the same files hits.
THEOREM PrefetchHits == Spec => []PrefetchLoads
<1>1. IInv => PrefetchLoads
  <2> SUFFICES ASSUME IInv, NEW r \in Request, batch[r] = "ok", NEW w \in Started(r)
               PROVE  loaded[file[w]] # None
    BY DEF PrefetchLoads
  <2>1. w \in Worker /\ Got(w)
    BY DEF IInv, BatchInv, Started, WorkersOf
  <2>2. result[w].by = loaded[file[w]]
    BY <2>1 DEF IInv, CallInv, OneFile
  <2>3. result[w].by \in Worker
    BY <2>1 DEF IInv, TypeOK, Got, NoResult
  <2> QED
    BY <2>2, <2>3, LoaderAssumption
<1> QED
  BY <1>1, Invariance, PTL

\* LoadFiles blames a context only when its own caller has cancelled it.
THEOREM RealCause == Spec => []RootCause
<1>1. IInv => RootCause
  BY DEF IInv, BatchInv
<1> QED
  BY <1>1, Invariance, PTL
=============================================================================
